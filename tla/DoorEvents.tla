------------------------------ MODULE DoorEvents ------------------------------
(***************************************************************************)
(* The door events of one van: the phone counts the crossings of its door, *)
(* keeps them in its outbox and uploads them; the server puts each on the  *)
(* trip the van ran at that moment, or holds it until one is assigned or   *)
(* started, chains the events of a trip, and checks them against its       *)
(* passenger list before Depart.                                           *)
(*                                                                         *)
(* An upload reads the trips without a lock and places its events; then it *)
(* locks each trip, appends, checks the list against the row of the trip   *)
(* it had read before, and commits.  A phone that waited too long sends    *)
(* the same rows again while the first upload is still at work.            *)
(*                                                                         *)
(* A moment is the number of crossings before it: crossing e is at time e, *)
(* and what happens at time k comes after crossing k and before k + 1.     *)
(***************************************************************************)
EXTENDS Integers, FiniteSets, SequencesExt

CONSTANTS
    LastTrip,  \* the trips are 1..LastTrip, in the order of their departures
    MaxEvents, \* bound: crossings
    MaxSeats,  \* bound: paid seats on the list of each trip
    Kinds,     \* bound: what each crossing may be
    Uncounted, \* bound: the crossings that may be counted with no check-out
    Followed,  \* bound: the trips followed past their start
    Sessions,  \* database sessions open at once
    Nobody     \* no session

ASSUME DoorAssumption ==
    /\ LastTrip \in Nat \ {0} /\ MaxEvents \in Nat /\ Nobody \notin Sessions
    /\ MaxSeats \in [1..LastTrip -> Nat]
    /\ Kinds \in [1..MaxEvents -> SUBSET {"board", "alight"}]
    /\ Uncounted \subseteq 1..MaxEvents /\ Followed \subseteq 1..LastTrip

Trips == 1..LastTrip
Events == 1..MaxEvents
Bookings == UNION {1..MaxSeats[t] : t \in Trips}
None == 0                 \* trip_id IS NULL
Never == MaxEvents + 1    \* a time that is NULL: after every crossing

VARIABLES
    door,     \* the crossings, in order: "board" or "alight"
    onVan,    \* the crossings counted while the phone was checked out with it
    outbox,   \* crossings that wait in the phone, were sent, were set aside
    asks,     \* the session whose reply the phone waits for
    trip,     \* trips
    seats,    \* paid seats on the list of each trip
    held,     \* held_door_events
    ledger,   \* passenger_events, by event; trip None before the INSERT
    chain,    \* the events of each trip by chain_seq
    unseen,   \* trips changed, once departed, on what was read before
    late,     \* crossings entered on a trip that was ended before them meanwhile
    session   \* what each session is doing

vars == <<door, onVan, outbox, asks, trip, seats, held, ledger, chain, unseen, late, session>>

-----------------------------------------------------------------------------
STARTED == {"boarding", "departed", "completed"}
BEFORE_DEPARTURE == {"scheduled", "boarding"}
AFTER_DEPARTURE == {"departed", "completed"}
Resolutions == {"not_needed", "pending", "listed", "explained"}

NoRow == [trip |-> None, booking |-> 0, resolution |-> "not_needed"]

\* onto: the trip each event is placed on.  hold: those with none.  saw: how
\* far each of those trips was when it was read.  event: the boarding a
\* walk-up is listed for, as the seat booking.
Idle == [step |-> "idle", hold |-> {}, onto |-> [e \in Events |-> None],
         saw |-> [t \in Trips |-> "before"], event |-> 0, booking |-> 0]

TypeOK ==
    /\ door \in Seq({"board", "alight"}) /\ Len(door) <= MaxEvents
    /\ onVan \subseteq Events
    /\ outbox \in [{"waiting", "sent", "aside"} -> SUBSET Events]
    /\ asks \in Sessions \cup {Nobody}
    /\ trip \in [Trips -> [status : {"scheduled", "cancelled"} \cup STARTED, van : BOOLEAN,
                           started : 0..Never, departed : 0..Never, completed : 0..Never,
                           told : BOOLEAN]]
    /\ seats \in [Trips -> Bookings \cup {0}]
    /\ held \subseteq Events
    /\ ledger \in [Events -> [trip : Trips \cup {None}, booking : Bookings \cup {0},
                              resolution : Resolutions]]
    /\ \A t \in Trips : Range(chain[t]) = {e \in Events : ledger[e].trip = t}
    /\ unseen \subseteq Trips /\ late \subseteq Events
    /\ session \in [Sessions -> [step : {"idle", "place", "list"},
                                 hold : SUBSET Events,
                                 onto : [Events -> Trips \cup {None}],
                                 saw : [Trips -> {"before"} \cup AFTER_DEPARTURE],
                                 event : 0..MaxEvents, booking : Bookings \cup {0}]]

Init ==
    /\ door = <<>> /\ onVan = {}
    /\ outbox = [waiting |-> {}, sent |-> {}, aside |-> {}] /\ asks = Nobody
    /\ trip = [t \in Trips |-> [status |-> "scheduled", van |-> FALSE, started |-> Never,
                                departed |-> Never, completed |-> Never, told |-> FALSE]]
    /\ seats = [t \in Trips |-> 0]
    /\ held = {} /\ ledger = [e \in Events |-> NoRow] /\ chain = [t \in Trips |-> <<>>]
    /\ unseen = {} /\ late = {}
    /\ session = [s \in Sessions |-> Idle]

Now == Len(door)

InLedger == {e \in Events : ledger[e].trip # None}
Sorted(S) == CHOOSE q \in [1..Cardinality(S) -> S] : \A i, j \in DOMAIN q : i < j => q[i] < q[j]

-----------------------------------------------------------------------------
(***************************************************************************)
(* Which trip an event belongs to, by its own time.                        *)
(***************************************************************************)
Covers(r, e) == r.van /\ r.status \in STARTED /\ r.started < e /\ e <= r.completed

\* Assigned, not started at that moment.
Awaits(r, e) == r.van /\ r.status # "cancelled" /\ e <= r.started

\* Mutant: the trip that is open when the upload arrives.
OpenTrip(tr, e) ==
    LET open == {t \in Trips : tr[t].van /\ tr[t].status \in {"boarding", "departed"}}
    IN  IF open # {} THEN CHOOSE t \in open : \A u \in open \ {t} : u < t ELSE None

\* The latest started of those that cover the moment (of two started between
\* the same crossings, the later of the timetable); else the earliest that
\* had not started.
TripFor(tr, e) ==
    LET running == {t \in Trips : Covers(tr[t], e)}
        coming == {t \in Trips : Awaits(tr[t], e)}
    IN  IF running # {} THEN CHOOSE t \in running : \A u \in running \ {t} :
                                 \/ tr[u].started < tr[t].started
                                 \/ tr[u].started = tr[t].started /\ u < t
        ELSE IF coming # {} THEN Min(coming)
        ELSE None

-----------------------------------------------------------------------------
(***************************************************************************)
(* The check of a trip's boardings against its list, in the ledger led.    *)
(* gone is the departure as the handler knows it.                          *)
(***************************************************************************)
OnTrip(led, t) == {e \in Events : led[e].trip = t}
Boards(led, t, gone) == {e \in OnTrip(led, t) : door[e] = "board" /\ e <= gone}
Alights(led, t, gone) == {e \in OnTrip(led, t) : door[e] = "alight" /\ e <= gone}
Balance(led, t, gone) == Cardinality(Boards(led, t, gone)) - Cardinality(Alights(led, t, gone))

Kept(led, e) == led[e].resolution \in {"listed", "explained"}

\* Unresolved boardings take the free seats, the oldest first.
Rechecked(led, t, gone) ==
    LET boards == Boards(led, t, gone)
        open == {e \in boards : ~Kept(led, e)}
        fixed == {led[e].booking : e \in {b \in boards : led[b].resolution = "listed"}}
        free == Sorted((1..seats[t]) \ fixed)
        place(e) == Cardinality({b \in open : b <= e})
    IN  [e \in Events |->
           IF e \notin OnTrip(led, t) \/ (e \in boards /\ Kept(led, e)) THEN led[e]
           ELSE IF e \notin boards THEN [NoRow EXCEPT !.trip = t]
           ELSE IF place(e) <= Len(free) THEN [NoRow EXCEPT !.trip = t, !.booking = free[place(e)]]
           ELSE [NoRow EXCEPT !.trip = t, !.resolution = "pending"]]

Explained(led, t, gone) == {e \in Boards(led, t, gone) : led[e].resolution = "explained"}

\* More aboard than listed, less those the Dispatcher explained.
Excess(led, t, gone) ==
    Balance(led, t, gone) > seats[t] + Cardinality(Explained(led, t, gone))

-----------------------------------------------------------------------------
(***************************************************************************)
(* The phone.                                                              *)
(***************************************************************************)
\* van_at, at the time of the crossing: out is whether a check-out covers it.
Cross(kind, out) ==
    /\ Now < MaxEvents /\ kind \in Kinds[Now + 1] /\ (out \/ Now + 1 \in Uncounted)
    /\ door' = Append(door, kind)
    /\ onVan' = IF out THEN onVan \cup {Now + 1} ELSE onVan
    /\ outbox' = [outbox EXCEPT !.waiting = @ \cup {Now + 1}]
    /\ UNCHANGED asks

\* The read timeout: the rows stay, and the next round sends them again.
GiveUp == /\ asks # Nobody /\ asks' = Nobody
          /\ outbox' = [outbox EXCEPT !.sent = {}]
          /\ UNCHANGED <<door, onVan>>

Phone == /\ GiveUp \/ \E kind \in {"board", "alight"}, out \in BOOLEAN : Cross(kind, out)
         /\ UNCHANGED <<trip, seats, held, ledger, chain, unseen, late, session>>

\* Mutant: rows refused for good are deleted, not set aside.
ReplyDeletesRefused(s, code) ==
    /\ asks' = IF asks = s THEN Nobody ELSE asks
    /\ outbox' = IF asks # s THEN outbox
                 ELSE IF code = "5xx" THEN [outbox EXCEPT !.sent = {}]
                 ELSE [outbox EXCEPT !.waiting = @ \ outbox.sent, !.sent = {}]
    /\ session' = [session EXCEPT ![s] = Idle]
    /\ UNCHANGED <<door, onVan>>

\* 2xx: sent.  4xx: the server will never take these rows.  5xx: tried again.
Reply(s, code) ==
    /\ asks' = IF asks = s THEN Nobody ELSE asks
    /\ outbox' = IF asks # s THEN outbox
                 ELSE IF code = "5xx" THEN [outbox EXCEPT !.sent = {}]
                 ELSE [waiting |-> outbox.waiting \ outbox.sent, sent |-> {},
                       aside |-> IF code = "2xx" THEN outbox.aside
                                 ELSE outbox.aside \cup outbox.sent]
    /\ session' = [session EXCEPT ![s] = Idle]
    /\ UNCHANGED <<door, onVan>>

-----------------------------------------------------------------------------
(***************************************************************************)
(* POST /edge/events.                                                      *)
(***************************************************************************)
\* Duplicates and events of no van aside, each event finds its trip.
Place(s) ==
    LET new == (outbox.waiting \cap onVan) \ (InLedger \cup held)
        onto == [e \in Events |-> IF e \in new THEN TripFor(trip, e) ELSE None]
    IN  /\ session[s].step = "idle" /\ asks = Nobody /\ outbox.waiting # {}
        /\ asks' = s
        /\ outbox' = [outbox EXCEPT !.sent = outbox.waiting]
        /\ session' = [session EXCEPT ![s] =
               [Idle EXCEPT !.step = "place", !.onto = onto,
                            !.hold = {e \in new : onto[e] = None},
                            !.saw = [t \in Trips |->
                                IF t \in Range(onto) /\ trip[t].status \in AFTER_DEPARTURE
                                THEN trip[t].status ELSE "before"]]]
        /\ UNCHANGED <<door, onVan, trip, seats, held, ledger, chain, unseen, late>>

Entering(s, t) == {e \in Events : session[s].onto[e] = t}
Touched(s) == {t \in Trips : Entering(s, t) # {}}
SawGone(s, t) == IF session[s].saw[t] \in AFTER_DEPARTURE THEN trip[t].departed ELSE Never

\* Mutant: the insert of an event that is there already goes through.
NoKey(s) == FALSE

\* The primary keys: another upload inserted one of them first.
TakenKey(s) == \/ session[s].hold \cap held # {}
               \/ \E t \in Touched(s) : Entering(s, t) \cap InLedger # {}

Inserted(s) == [e \in Events |-> IF session[s].onto[e] = None THEN ledger[e]
                                 ELSE [NoRow EXCEPT !.trip = session[s].onto[e]]]

\* Departed, and the last crossing is an alighting that leaves nobody aboard.
Emptied(s, t) ==
    LET on == OnTrip(Inserted(s), t)
        last == CHOOSE e \in on : \A f \in on : f <= e
    IN  /\ session[s].saw[t] = "departed"
        /\ door[last] = "alight" /\ last > trip[t].departed
        /\ Balance(Inserted(s), t, Never) <= 0

Ended(s) == {t \in Touched(s) : Emptied(s, t)}

\* Bound: a batch ends one trip.  Completing it commits, and the checks of
\* the trips after it run in a transaction of their own.
EndsOneTrip(s) == Cardinality(Ended(s)) <= 1

\* The lock of the trip shows it is no longer on the road: 409.
ArrivedMeanwhile(s) == \E t \in Ended(s) : trip[t].status # "departed"

\* Mutant: a trip that is over is not reported.
ReportedOnTheRoad(s, led) == {t \in Touched(s) : /\ session[s].saw[t] = "departed"
                                                 /\ Excess(led, t, SawGone(s, t))}

\* The trips this upload shows to have left with more aboard than listed.
Reported(s, led) == {t \in Touched(s) : /\ session[s].saw[t] \in AFTER_DEPARTURE
                                        /\ Excess(led, t, SawGone(s, t))}

\* The trip ended before the crossing, after the upload read it.
Overtaken(s, t, e) == session[s].saw[t] # "completed" /\ trip[t].completed < e

\* The lock, the chain, the check and the end of each trip, and the commit.
Commit(s) ==
    LET led == [e \in Events |->
                   LET t == session[s].onto[e] IN
                   IF t = None /\ ledger[e].trip \notin Touched(s) THEN ledger[e]
                   ELSE LET u == IF t = None THEN ledger[e].trip ELSE t
                        IN Rechecked(Inserted(s), u, SawGone(s, u))[e]]
        more == Reported(s, led)
    IN  /\ ledger' = led
        /\ chain' = [t \in Trips |-> chain[t] \o Sorted(Entering(s, t))]
        /\ held' = held \cup session[s].hold
        /\ trip' = [t \in Trips |->
               IF t \in Ended(s)
               THEN [trip[t] EXCEPT !.status = "completed",
                         !.completed = CHOOSE e \in OnTrip(led, t) :
                                           \A f \in OnTrip(led, t) : f <= e,
                         !.told = @ \/ t \in more]
               ELSE [trip[t] EXCEPT !.told = @ \/ t \in more]]
        /\ unseen' = unseen \cup {t \in Touched(s) : /\ trip[t].status \in AFTER_DEPARTURE
                                                     /\ session[s].saw[t] \notin AFTER_DEPARTURE}
        /\ late' = late \cup {e \in Events : \E t \in Touched(s) : e \in Entering(s, t) /\ Overtaken(s, t, e)}

Finish(s) ==
    /\ session[s].step = "place"
    /\ EndsOneTrip(s)
    /\ \/ /\ TakenKey(s)
          /\ Reply(s, "5xx") /\ UNCHANGED <<trip, held, ledger, chain, unseen, late>>
       \/ /\ ~TakenKey(s) /\ ArrivedMeanwhile(s)
          /\ Reply(s, "4xx") /\ UNCHANGED <<trip, held, ledger, chain, unseen, late>>
       \/ /\ ~TakenKey(s) /\ ~ArrivedMeanwhile(s)
          /\ Reply(s, "2xx") /\ Commit(s)
    /\ UNCHANGED seats

\* The server stops before the commit.
Fail(s) == /\ session[s].step # "idle" /\ Reply(s, "5xx")
           /\ UNCHANGED <<trip, seats, held, ledger, chain, unseen, late>>

-----------------------------------------------------------------------------
(***************************************************************************)
(* The trip.                                                               *)
(***************************************************************************)
\* The held events the trip now claims move to its ledger.  One that is in
\* the ledger already breaks the primary key, and the handler fails.
Claimed(t, tr) == {e \in held : TripFor(tr, e) = t}

\* Mutant: the events move to the ledger and are not chained.
ReleaseUnchained(t, tr) ==
    /\ Claimed(t, tr) \cap InLedger = {}
    /\ held' = held \ Claimed(t, tr)
    /\ ledger' = [e \in Events |-> IF e \in Claimed(t, tr) THEN [NoRow EXCEPT !.trip = t]
                                   ELSE ledger[e]]
    /\ UNCHANGED chain

Release(t, tr) ==
    /\ Claimed(t, tr) \cap InLedger = {}
    /\ held' = held \ Claimed(t, tr)
    /\ ledger' = [e \in Events |-> IF e \in Claimed(t, tr) THEN [NoRow EXCEPT !.trip = t]
                                   ELSE ledger[e]]
    /\ chain' = [chain EXCEPT ![t] = @ \o Sorted(Claimed(t, tr))]

\* Assigned the van of the phone.  Bound: it is not taken off the trip again.
Assign(t) ==
    /\ trip[t].status = "scheduled"
    /\ trip' = [trip EXCEPT ![t].van = TRUE]
    /\ Release(t, trip')

Start(t) ==
    /\ trip[t].status = "scheduled" /\ trip[t].van
    /\ trip' = [trip EXCEPT ![t].status = "boarding", ![t].started = Now]
    /\ Release(t, trip')

\* A held boarding, and the van outside the zone at time at: the trip of its
\* route that waits for a van is given it, started then.
DetectedStart(t, at) ==
    /\ trip[t].status = "scheduled" /\ ~trip[t].van
    /\ \E e \in held : door[e] = "board" /\ e <= at /\ TripFor(trip, at) = None
    /\ trip' = [trip EXCEPT ![t].van = TRUE, ![t].status = "boarding", ![t].started = at]
    /\ Release(t, trip')

Void(t) ==
    /\ t \in Followed /\ trip[t].status \in BEFORE_DEPARTURE
    /\ trip' = [trip EXCEPT ![t].status = "cancelled"]
    /\ UNCHANGED <<held, ledger, chain>>

\* A person is stopped by the excess; the matching stays.  GPS is not.
Depart(t, gps) ==
    LET led == Rechecked(ledger, t, trip[t].departed)
        more == Excess(led, t, trip[t].departed)
    IN  /\ t \in Followed /\ trip[t].status = "boarding"
        /\ gps => Boards(ledger, t, Never) # {} \/ seats[t] > 0
        /\ ledger' = led
        /\ trip' = IF more /\ ~gps THEN trip
                   ELSE [trip EXCEPT ![t].status = "departed", ![t].departed = Now,
                                     ![t].told = @ \/ more]
        /\ UNCHANGED <<held, chain>>

Arrive(t) ==
    /\ trip[t].status = "departed"
    /\ trip' = [trip EXCEPT ![t].status = "completed", ![t].completed = Now]
    /\ UNCHANGED <<held, ledger, chain>>

Office ==
    /\ \E t \in Trips : \/ Assign(t) \/ Start(t) \/ Void(t) \/ Arrive(t)
                        \/ \E at \in Events : at <= Now /\ DetectedStart(t, at)
                        \/ \E gps \in BOOLEAN : Depart(t, gps)
    /\ UNCHANGED <<door, onVan, outbox, asks, seats, unseen, late, session>>

-----------------------------------------------------------------------------
(***************************************************************************)
(* The Dispatcher's fix of an unlisted boarding, and the cash desk.        *)
(***************************************************************************)
Pending(e) ==
    LET t == ledger[e].trip IN
    /\ t \in Followed /\ trip[t].status \in BEFORE_DEPARTURE
    /\ Rechecked(ledger, t, trip[t].departed)[e].resolution = "pending"

Explain(e) ==
    /\ Pending(e)
    /\ ledger' = [Rechecked(ledger, ledger[e].trip, Never) EXCEPT ![e].resolution = "explained"]
    /\ UNCHANGED <<seats, unseen, session>>

\* The walk-up is reserved, paid, and committed with the recheck.
ListWalkUp(s, e) ==
    LET t == ledger[e].trip IN
    /\ session[s].step = "idle" /\ Pending(e) /\ seats[t] < MaxSeats[t]
    /\ ledger' = Rechecked(ledger, t, Never)
    /\ seats' = [seats EXCEPT ![t] = @ + 1]
    /\ session' = [session EXCEPT ![s] = [Idle EXCEPT !.step = "list", !.event = e,
                                                      !.booking = seats[t] + 1]]
    /\ UNCHANGED unseen

\* The fix is recorded, whatever became of the boarding since.
MarkListed(s) ==
    /\ session[s].step = "list"
    /\ ledger' = [ledger EXCEPT ![session[s].event].resolution = "listed",
                                ![session[s].event].booking = session[s].booking]
    /\ unseen' = LET t == ledger[session[s].event].trip IN
                 IF trip[t].status \in AFTER_DEPARTURE THEN unseen \cup {t} ELSE unseen
    /\ session' = [session EXCEPT ![s] = Idle]
    /\ UNCHANGED seats

MarkPaid(t) ==
    /\ trip[t].status \in BEFORE_DEPARTURE /\ seats[t] < MaxSeats[t]
    /\ seats' = [seats EXCEPT ![t] = @ + 1]
    /\ UNCHANGED <<ledger, unseen, session>>

Desk == /\ \/ \E e \in Events : Explain(e) \/ \E s \in Sessions : ListWalkUp(s, e)
           \/ \E s \in Sessions : MarkListed(s)
           \/ \E t \in Trips : MarkPaid(t)
        /\ UNCHANGED <<door, onVan, outbox, asks, trip, held, chain, late>>

-----------------------------------------------------------------------------
Next == \/ Phone \/ Office \/ Desk
        \/ \E s \in Sessions : Place(s) \/ Finish(s) \/ Fail(s)

Spec == Init /\ [][Next]_vars

-----------------------------------------------------------------------------
\* No crossing vanishes between the phone and the server: it waits in the
\* outbox or was set aside, or the server has it, held or on a trip, or it
\* was not counted in a van.
NothingVanishes ==
    \A e \in 1..Now : e \in outbox.waiting \cup outbox.aside \cup held \cup InLedger
                            \cup (Events \ onVan)

\* A crossing in the ledger is on the trip the van ran at that moment, if it
\* ran one, whichever trip is open when the upload arrives; unless its own
\* trip was voided since, or another upload ended it, at an earlier crossing,
\* while this one was on its way.
OnTheTripItRan ==
    \A e \in InLedger \ late : \A t \in Trips : Covers(trip[t], e) =>
        LET u == trip[ledger[e].trip]
        IN  Covers(u, e) \/ u.status = "cancelled"

\* A van that left with more aboard than listed and explained, as far as the
\* ledger knows, is reported; unless the handler that shows it had read
\* the trip before it departed.
LeftWithMoreIsTold ==
    \A t \in Trips \ unseen :
        (trip[t].status \in AFTER_DEPARTURE /\ Excess(ledger, t, trip[t].departed))
            => trip[t].told

\* The ledger keeps the promise of DoorLog.
Log == INSTANCE DoorLog WITH counted <- Now, log <- chain
KeepsTheLog == Log!Spec
=============================================================================
