----------------------------- MODULE OfficeBoards -----------------------------
(***************************************************************************)
(* What the office's screens say of the day: the board of vans             *)
(* (operations/van_board.py), the board of trips (api/v1/config.py), the   *)
(* capacity alerts (edge/capacity.py) and their review                     *)
(* (edge/boarding_audit.py).  They only read, but must agree.              *)
(*   trip     [id, van, day, departs, status, departed]                    *)
(*   event    [id, at, board]           a door crossing, board or alight   *)
(*   booking  [trip, status]                                               *)
(***************************************************************************)
EXTENDS Integers, Sequences, FiniteSets, SequencesExt

CONSTANTS Today, Never, Gap, StartOpens

InOrder(events) == SortSeq(SetToSeq(events), LAMBDA e, f : e.at < f.at)

\* ------------------------------------------------------ the door's count
\* After each crossing: the boardings less the alightings, less the crew.
AboardAfter(events, crew) ==
  LET s == InOrder(events)
      change(e) == IF e.board THEN 1 ELSE -1
      running(i) == FoldLeft(LAMBDA n, j : n + change(s[j]), 0, [j \in 1..i |-> j])
      aboard(n) == IF n - crew > 0 THEN n - crew ELSE 0
  IN [i \in DOMAIN s |-> [event |-> s[i].id, aboard |-> aboard(running(i))]]

\* Each crossing from within the capacity to above it.
Above(events, crew, capacity) ==
  LET count == AboardAfter(events, crew) IN
  {count[i].event : i \in {j \in DOMAIN count :
     /\ count[j].aboard > capacity
     /\ j = 1 \/ count[j - 1].aboard <= capacity}}

\* Alerted once each, whatever arrives later.
Follow(events, crew, capacity, alerted) ==
  alerted \cup Above(events, crew, capacity)

\* The review: the alerted crossings with the number aboard as counted now.
Reviewed(events, crew, alerted) ==
  LET count == AboardAfter(events, crew) IN
  {count[i] : i \in {j \in DOMAIN count : count[j].event \in alerted}}

\* Only trips with something to review are listed.
Flagged(trips, unlisted, alerted, departedWithMore) ==
  {t \in trips : unlisted[t.id] # {} \/ alerted[t.id] # {} \/ t.id \in departedWithMore}

\* -------------------------------------------------------------- the vans
OutNow(van, trips) == {t \in trips : t.van = van /\ t.status = "departed"}
WaitingToday(van, trips) ==
  {t \in trips : t.van = van /\ t.day = Today /\ t.status \in {"scheduled", "boarding"}}

\* The last to depart, and the first that still waits.
Shown(van, operational, trips) ==
  LET out == OutNow(van, trips)
      waiting == WaitingToday(van, trips)
  IN IF out # {} THEN {t \in out : \A u \in out : u.departed <= t.departed}
     ELSE IF operational # "active" THEN {}
     ELSE {t \in waiting : \A u \in waiting : t.departs <= u.departs}

State(van, operational, trips) ==
  IF OutNow(van, trips) # {} THEN "travelling"
  ELSE IF operational # "active" THEN "out_of_service"
  ELSE IF WaitingToday(van, trips) # {} THEN "on_site"
  ELSE "not_on_trip"

\* Aboard and the place are told of a van that travels.
VanAboard(van, trips, events, crew) ==
  IF OutNow(van, trips) = {} \/ events = {} THEN Never
  ELSE Last(AboardAfter(events, crew)).aboard

\* ------------------------------------------------------------- the trips
DayOf(trips, day) == {t \in trips : t.day = day}
Counted(bookings, trip, statuses) ==
  Cardinality({b \in bookings : b.trip = trip /\ b.status \in statuses})

\* Every boarding less every alighting, in one sum.
DoorAboard(events, crew) ==
  LET boards == Cardinality({e \in events : e.board})
      net == boards - (Cardinality(events) - boards) - crew
  IN IF events = {} THEN Never ELSE IF net > 0 THEN net ELSE 0

PhoneSilent(last, now) == last = Never \/ now - last > Gap

BoardRow(trip, bookings, events, crew, last, now) ==
  [opens |-> trip.departs - StartOpens,
   booked |-> Counted(bookings, trip.id, {"confirmed", "checked_in", "boarded"}),
   checkedIn |-> Counted(bookings, trip.id, {"checked_in"}),
   boarded |-> Counted(bookings, trip.id, {"boarded"}),
   noShow |-> Counted(bookings, trip.id, {"no_show"}),
   aboard |-> DoorAboard(events, crew),
   silent |-> PhoneSilent(last, now)]
=============================================================================
