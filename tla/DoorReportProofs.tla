--------------------------- MODULE DoorReportProofs ---------------------------
(***************************************************************************)
(* Proofs about DoorEvents, for any trips, crossings and sessions: a van   *)
(* that left with more aboard than listed is reported, every variable      *)
(* keeps its type, and a crossing is on the trip that ran at that moment.  *)
(***************************************************************************)
EXTENDS DoorEventsProofs

USE DoorAssumption DEF None

-----------------------------------------------------------------------------
(***************************************************************************)
(* A van that left with more aboard than listed is reported.               *)
(***************************************************************************)
TripFields == {"status", "van", "started", "departed", "completed", "told"}

\* A trip that did not depart has no time of departure.
NotGone ==
    /\ DOMAIN trip = Trips /\ DOMAIN seats = Trips
    /\ \A t \in Trips : /\ DOMAIN trip[t] = TripFields
                        /\ trip[t].status \notin AFTER_DEPARTURE => trip[t].departed = Never

Tells(t) == t \notin unseen /\ trip[t].status \in AFTER_DEPARTURE
            /\ Excess(ledger, t, trip[t].departed) => trip[t].told

ReportInv == LedgerInv /\ NotGone /\ \A t \in Trips : Tells(t)

\* What one step may change without its report.
SameRows(t) == \A e \in Events : ledger[e].trip = t \/ ledger'[e].trip = t
                                 => ledger'[e] = ledger[e] /\ door'[e] = door[e]

\* A trip is told of, or not, as before, if its rows and its seats stay.
LEMMA TellsStill ==
    ASSUME NEW t \in Trips, Tells(t), SameRows(t), seats'[t] = seats[t],
           t \in unseen => t \in unseen',
           trip'[t].departed = trip[t].departed,
           trip[t].told => trip'[t].told,
           trip'[t].status \in AFTER_DEPARTURE => trip[t].status \in AFTER_DEPARTURE
    PROVE  Tells(t)'
<1>1. OnTrip(ledger, t)' = OnTrip(ledger, t)
  BY DEF OnTrip, SameRows
<1>2. \A e \in OnTrip(ledger, t) : ledger'[e] = ledger[e] /\ door'[e] = door[e]
  BY DEF OnTrip, SameRows
<1>3. Boards(ledger, t, trip[t].departed)' = Boards(ledger, t, trip[t].departed)
  BY <1>1, <1>2 DEF Boards
<1>4. Alights(ledger, t, trip[t].departed)' = Alights(ledger, t, trip[t].departed)
  BY <1>1, <1>2 DEF Alights
<1>5. Explained(ledger, t, trip[t].departed)' = Explained(ledger, t, trip[t].departed)
  <2>1. Boards(ledger, t, trip[t].departed) \subseteq OnTrip(ledger, t)
    BY DEF Boards
  <2> QED BY <1>2, <1>3, <2>1 DEF Explained
<1>6. Excess(ledger, t, trip[t].departed)' <=> Excess(ledger, t, trip[t].departed)
  BY <1>3, <1>4, <1>5 DEF Excess, Balance
<1> QED BY <1>6 DEF Tells

\* The recheck of one trip leaves the rows of the others alone.
LEMMA OthersRows ==
    ASSUME NEW led, NEW t, NEW gone, NEW e \in Events, led[e].trip # t
    PROVE  Rechecked(led, t, gone)[e] = led[e]
BY DEF Rechecked, OnTrip

LEMMA ReportInitially == Init => ReportInv
<1> SUFFICES ASSUME Init PROVE ReportInv
  OBVIOUS
<1>1. NotGone
  BY DEF Init, NotGone, TripFields
<1>2. \A t \in Trips : trip[t].status \notin AFTER_DEPARTURE
  BY DEF Init, AFTER_DEPARTURE
<1> QED BY <1>1, <1>2, LedgerInitially DEF ReportInv, Tells

\* Steps that write no trip and no row of a trip that left.
LEMMA DoorTells == ReportInv /\ Phone => \A t \in Trips : Tells(t)'
<1> SUFFICES ASSUME ReportInv, Phone, NEW t \in Trips PROVE Tells(t)'
  OBVIOUS
<1>1. UNCHANGED <<trip, seats, ledger, unseen>>
  BY DEF Phone
<1>2. \A e \in 1..Now : door'[e] = door[e]
  BY DEF Phone, GiveUp, Cross, Now, ReportInv, LedgerInv, IInv, Shape
<1>3. \A e \in Events : ledger[e].trip = t => e \in 1..Now
  BY EventsAreNumbers DEF ReportInv, LedgerInv, Known, InLedger
<1>4. SameRows(t)
  BY <1>1, <1>2, <1>3 DEF SameRows
<1> QED BY <1>1, <1>4, TellsStill DEF ReportInv

LEMMA IdleTells ==
    ASSUME ReportInv, UNCHANGED <<door, trip, seats, ledger, unseen>>
    PROVE  \A t \in Trips : Tells(t)'
BY DEF ReportInv, Tells, Excess, Balance, Boards, Alights, Explained, OnTrip

LEMMA DeskTells == ReportInv /\ Desk => \A t \in Trips : Tells(t)'
<1> SUFFICES ASSUME ReportInv, Desk, NEW t \in Trips PROVE Tells(t)'
  OBVIOUS
<1>1. UNCHANGED <<door, trip>> /\ unseen \subseteq unseen'
  BY DEF Desk, Explain, ListWalkUp, MarkListed, MarkPaid
<1>2. BEFORE_DEPARTURE \cap AFTER_DEPARTURE = {}
  BY DEF BEFORE_DEPARTURE, AFTER_DEPARTURE
<1>3. Rows(ledger) /\ Tells(t)
  BY DEF ReportInv, LedgerInv, IInv, Shape, Rows
<1>4. ASSUME NEW e \in Events, ledger[e].trip # t,
             NEW led, led = Rechecked(ledger, ledger[e].trip, Never),
             \/ ledger' = led
             \/ ledger' = [led EXCEPT ![e].resolution = "explained"],
             seats'[t] = seats[t]
      PROVE  Tells(t)'
  <2>1. Rows(led) /\ \A f \in Events : led[f].trip = ledger[f].trip
    BY <1>3, <1>4, RecheckStays
  <2>2. \A f \in Events : ledger[f].trip # ledger[e].trip => led[f] = ledger[f]
    BY <1>4, OthersRows
  <2>3. SameRows(t)
    BY <1>1, <1>4, <2>1, <2>2 DEF SameRows, Rows, Fields
  <2> QED BY <1>1, <1>3, <1>4, <2>3, TellsStill
<1>5. ASSUME NEW e \in Events, Explain(e) PROVE Tells(t)'
  <2>1. CASE ledger[e].trip = t
    BY <1>1, <1>2, <1>5, <2>1 DEF Explain, Pending, Tells
  <2>2. CASE ledger[e].trip # t
    BY <1>4, <1>5, <2>2 DEF Explain
  <2> QED BY <2>1, <2>2
<1>6. ASSUME NEW e \in Events, NEW s \in Sessions, ListWalkUp(s, e) PROVE Tells(t)'
  <2>1. CASE ledger[e].trip = t
    BY <1>1, <1>2, <1>6, <2>1 DEF ListWalkUp, Pending, Tells
  <2>2. CASE ledger[e].trip # t
    <3>1. seats' = [seats EXCEPT ![ledger[e].trip] = @ + 1]
      BY <1>6 DEF ListWalkUp
    <3>2. ledger' = Rechecked(ledger, ledger[e].trip, Never)
      BY <1>6 DEF ListWalkUp
    <3>3. seats'[t] = seats[t]
      BY <2>2, <3>1 DEF ReportInv, NotGone
    <3> QED BY <1>4, <2>2, <3>2, <3>3
  <2> QED BY <2>1, <2>2
<1>7. ASSUME NEW s \in Sessions, MarkListed(s) PROVE Tells(t)'
  <2> DEFINE e == session[s].event
  <2>1. /\ ledger' = [ledger EXCEPT ![e].resolution = "listed", ![e].booking = session[s].booking]
        /\ UNCHANGED seats
        /\ ledger[e].trip = t /\ trip[t].status \in AFTER_DEPARTURE => t \in unseen'
    BY <1>7 DEF MarkListed
  <2>2. CASE e \in Events /\ ledger[e].trip = t
    BY <1>1, <2>1, <2>2 DEF Tells
  <2>3. CASE ~(e \in Events /\ ledger[e].trip = t)
    <3> HIDE DEF e
    <3>1. SameRows(t)
      BY <1>1, <1>3, <2>1, <2>3 DEF SameRows, Rows, Fields
    <3> QED BY <1>1, <1>3, <2>1, <3>1, TellsStill
  <2> QED BY <2>2, <2>3
<1>8. ASSUME NEW u \in Trips, MarkPaid(u) PROVE Tells(t)'
  <2>1. ledger' = ledger /\ seats' = [seats EXCEPT ![u] = @ + 1] /\ trip[u].status \in BEFORE_DEPARTURE
    BY <1>8 DEF MarkPaid
  <2>2. CASE u = t
    BY <1>1, <1>2, <2>1, <2>2 DEF Tells
  <2>3. CASE u # t
    <3>1. SameRows(t)
      BY <1>1, <2>1 DEF SameRows
    <3> QED BY <1>1, <1>3, <2>1, <2>3, <3>1, TellsStill
  <2> QED BY <2>2, <2>3
<1> QED BY <1>5, <1>6, <1>7, <1>8 DEF Desk

\* A trip left alone by a step of the office.
LEMMA OfficeTells == ReportInv /\ Office => \A t \in Trips : Tells(t)'
<1> SUFFICES ASSUME ReportInv, Office, NEW t \in Trips PROVE Tells(t)'
  OBVIOUS
<1>0. \A u, gone : \A e \in Events : Rechecked(ledger, u, gone)[e].trip = ledger[e].trip
  <2>1. Rows(ledger)
    BY DEF ReportInv, LedgerInv, IInv, Shape, Rows
  <2> QED BY <2>1, RecheckStays
<1>1. UNCHANGED <<door, seats, unseen>> /\ Tells(t) /\ t # None
  BY EventsAreNumbers DEF Office, ReportInv
<1>2. /\ "scheduled" \notin AFTER_DEPARTURE /\ "boarding" \notin AFTER_DEPARTURE
      /\ "cancelled" \notin AFTER_DEPARTURE /\ "departed" \in AFTER_DEPARTURE
  BY DEF AFTER_DEPARTURE
<1>3. DOMAIN trip = Trips /\ \A u \in Trips : DOMAIN trip[u] = TripFields
  BY DEF ReportInv, NotGone
<1>4. ASSUME NEW u \in Trips, NEW tr, Release(u, tr), u # t PROVE SameRows(t)
  <2>1. \A e \in Events : ledger'[e] = IF e \in Claimed(u, tr) THEN [NoRow EXCEPT !.trip = u]
                                       ELSE ledger[e]
    BY <1>4 DEF Release
  <2>2. \A e \in Events : e \in Claimed(u, tr) => ledger[e].trip = None
    BY <1>4 DEF Release, InLedger
  <2>3. [NoRow EXCEPT !.trip = u].trip = u
    BY DEF NoRow
  <2> QED BY <1>1, <1>4, <2>1, <2>2, <2>3 DEF SameRows
<1>5. ASSUME NEW u \in Trips, Assign(u) \/ Start(u) \/ \E at \in Events : DetectedStart(u, at)
      PROVE  Tells(t)'
  <2>1. Release(u, trip')
    BY <1>5 DEF Assign, Start, DetectedStart
  <2>2. CASE u = t
    <3>1. trip'[t].status \notin AFTER_DEPARTURE
      BY <1>2, <1>3, <1>5, <2>2 DEF Assign, Start, DetectedStart, TripFields
    <3> QED BY <3>1 DEF Tells
  <2>3. CASE u # t
    <3>1. trip'[t] = trip[t]
      BY <1>3, <1>5, <2>3 DEF Assign, Start, DetectedStart
    <3> QED BY <1>1, <1>4, <2>1, <2>3, <3>1, TellsStill
  <2> QED BY <2>2, <2>3
<1>6. ASSUME NEW u \in Trips, Void(u) \/ Arrive(u) PROVE Tells(t)'
  <2>1. UNCHANGED ledger
    BY <1>6 DEF Void, Arrive
  <2>2. SameRows(t)
    BY <1>1, <2>1 DEF SameRows
  <2>3. /\ trip'[t].departed = trip[t].departed /\ trip'[t].told = trip[t].told
        /\ trip'[t].status \in AFTER_DEPARTURE => trip[t].status \in AFTER_DEPARTURE
    BY <1>2, <1>3, <1>6 DEF Void, Arrive, TripFields
  <2> QED BY <1>1, <2>2, <2>3, TellsStill
<1>7. ASSUME NEW u \in Trips, NEW gps \in BOOLEAN, Depart(u, gps) PROVE Tells(t)'
  <2> DEFINE led == Rechecked(ledger, u, trip[u].departed)
             more == Excess(led, u, trip[u].departed)
  <2>1. /\ ledger' = led /\ trip[u].status = "boarding"
        /\ trip' = IF more /\ ~gps THEN trip
                   ELSE [trip EXCEPT ![u].status = "departed", ![u].departed = Now,
                                     ![u].told = @ \/ more]
    BY <1>7 DEF Depart
  <2>2. CASE u # t
    <3>1. \A e \in Events : ledger[e].trip # u => led[e] = ledger[e]
      BY OthersRows
    <3>2. \A e \in Events : led[e].trip = ledger[e].trip
      BY <1>0
    <3>3. SameRows(t)
      BY <1>1, <2>1, <2>2, <3>1, <3>2 DEF SameRows
    <3>4. trip'[t] = trip[t]
      <4> HIDE DEF more
      <4> QED BY <1>3, <2>1, <2>2
    <3> QED BY <1>1, <2>2, <3>3, <3>4, TellsStill
  <2>3. CASE u = t /\ trip' = trip
    BY <1>2, <2>1, <2>3 DEF Tells
  <2>4. CASE u = t /\ trip' # trip
    <3>1. /\ trip'[t].departed = Now /\ (more => gps)
          /\ trip'[t].told = (trip[t].told \/ more)
      <4> HIDE DEF more
      <4> QED BY <1>3, <2>1, <2>4 DEF TripFields
    <3>2. more => trip'[t].told
      <4> HIDE DEF more
      <4> QED BY <3>1
    <3>3. trip[t].departed = Never
      BY <1>2, <2>1, <2>4 DEF ReportInv, NotGone
    <3>4. \A e \in OnTrip(led, t) : e <= Now /\ e <= Never
      <4>1. \A e \in Events : led[e].trip = ledger[e].trip
        BY <1>0
      <4>2. OnTrip(led, t) \subseteq 1..Now
        BY <1>1, <4>1 DEF OnTrip, ReportInv, LedgerInv, Known, InLedger
      <4>3. Now \in Nat /\ Never \in Nat /\ Now <= Never
        BY Sizes, EventsAreNumbers DEF Never, ReportInv, LedgerInv
      <4>4. \A e \in 1..Now : e <= Now /\ e <= Never
        BY <4>3
      <4> QED BY <4>2, <4>4
    <3>5. /\ Boards(led, t, Now) = Boards(led, t, Never)
          /\ Alights(led, t, Now) = Alights(led, t, Never)
          /\ Explained(led, t, Now) = Explained(led, t, Never)
      <4> HIDE DEF led
      <4>1. Boards(led, t, Now) = Boards(led, t, Never)
        BY <3>4 DEF Boards
      <4>2. Alights(led, t, Now) = Alights(led, t, Never)
        BY <3>4 DEF Alights
      <4> QED BY <4>1, <4>2 DEF Explained
    <3>6. Excess(led, t, Now) <=> more
      <4> HIDE DEF led
      <4> QED BY <2>4, <3>3, <3>5 DEF Excess, Balance
    <3>7. Excess(ledger, t, trip[t].departed)' <=> Excess(led, t, Now)
      <4>1. ledger' = led /\ trip'[t].departed = Now /\ door' = door /\ seats' = seats
        BY <1>1, <2>1, <3>1
      <4> HIDE DEF led
      <4> QED BY <4>1 DEF Excess, Balance, Boards, Alights, Explained, OnTrip, Kept
    <3> QED BY <3>2, <3>6, <3>7 DEF Tells
  <2> QED BY <2>2, <2>3, <2>4
<1> QED BY <1>5, <1>6, <1>7 DEF Office

LEMMA CommitTells ==
    ASSUME ReportInv, NEW s \in Sessions, Commit(s), ~TakenKey(s), UNCHANGED <<door, seats>>
    PROVE  \A t \in Trips : Tells(t)'
<1> SUFFICES ASSUME NEW t \in Trips PROVE Tells(t)'
  OBVIOUS
<1> DEFINE led == [e \in Events |->
                   LET u == session[s].onto[e] IN
                   IF u = None /\ ledger[e].trip \notin Touched(s) THEN ledger[e]
                   ELSE LET v == IF u = None THEN ledger[e].trip ELSE u
                        IN Rechecked(Inserted(s), v, SawGone(s, v))[e]]
<1>1. /\ ledger' = led
      /\ trip' = [u \in Trips |->
             IF u \in Ended(s)
             THEN [trip[u] EXCEPT !.status = "completed",
                       !.completed = CHOOSE e \in OnTrip(led, u) :
                                         \A f \in OnTrip(led, u) : f <= e,
                       !.told = @ \/ u \in Reported(s, led)]
             ELSE [trip[u] EXCEPT !.told = @ \/ u \in Reported(s, led)]]
      /\ unseen' = unseen \cup {u \in Touched(s) : /\ trip[u].status \in AFTER_DEPARTURE
                                                  /\ session[s].saw[u] \notin AFTER_DEPARTURE}
  BY DEF Commit
<1>2. DOMAIN trip[t] = TripFields /\ Tells(t) /\ t # None
  BY EventsAreNumbers DEF ReportInv, NotGone
<1>3. Ended(s) \subseteq Touched(s) /\ Reported(s, led) \subseteq Touched(s)
  BY DEF Ended, Reported
<1>4. /\ trip'[t].departed = trip[t].departed
      /\ trip'[t].told = (trip[t].told \/ t \in Reported(s, led))
      /\ t \notin Ended(s) => trip'[t].status = trip[t].status
  <2> DEFINE told == trip[t].told \/ t \in Reported(s, led)
             done == CHOOSE e \in OnTrip(led, t) : \A f \in OnTrip(led, t) : f <= e
  <2>1. trip'[t] = IF t \in Ended(s)
                   THEN [trip[t] EXCEPT !.status = "completed", !.completed = done, !.told = told]
                   ELSE [trip[t] EXCEPT !.told = told]
    BY <1>1
  <2> HIDE DEF told, done
  <2>2. /\ trip'[t].departed = trip[t].departed /\ trip'[t].told = told
        /\ t \notin Ended(s) => trip'[t].status = trip[t].status
    BY <1>2, <2>1 DEF TripFields
  <2> QED BY <2>2 DEF told
<1>5. t \in Ended(s) => session[s].saw[t] \in AFTER_DEPARTURE
  BY DEF Ended, Emptied, AFTER_DEPARTURE
<1>6. \A e \in Events : ledger'[e].trip = IF session[s].onto[e] = None THEN ledger[e].trip
                                          ELSE session[s].onto[e]
  BY EnteredRows DEF ReportInv
<1> HIDE DEF led
<1>7. CASE t \notin Touched(s)
  <2>1. \A e \in Events : session[s].onto[e] # None => /\ session[s].onto[e] \in Touched(s)
                                                       /\ e \notin InLedger
    BY DEF TakenKey, Touched, Entering, ReportInv, LedgerInv, OnTrips
  <2>2. ASSUME NEW e \in Events, ledger[e].trip = t \/ ledger'[e].trip = t
        PROVE  ledger'[e] = ledger[e]
    <3>1. CASE session[s].onto[e] = None /\ ledger[e].trip \notin Touched(s)
      BY <1>1, <3>1 DEF led
    <3>2. CASE session[s].onto[e] # None
      <4>1. ledger[e].trip = None
        BY <2>1, <3>2 DEF InLedger
      <4>2. ledger'[e].trip = session[s].onto[e]
        BY <1>6, <3>2
      <4> QED BY <1>2, <1>7, <2>1, <2>2, <3>2, <4>1, <4>2
    <3>3. CASE session[s].onto[e] = None /\ ledger[e].trip \in Touched(s)
      <4>1. ledger'[e].trip = ledger[e].trip
        BY <1>6, <3>3
      <4> QED BY <1>7, <2>2, <3>3, <4>1
    <3> QED BY <3>1, <3>2, <3>3
  <2>3. SameRows(t)
    BY <2>2 DEF SameRows
  <2>4. /\ (t \in unseen => t \in unseen') /\ (trip[t].told => trip'[t].told)
        /\ trip'[t].status = trip[t].status
    BY <1>1, <1>3, <1>4, <1>7
  <2> QED BY <1>2, <1>4, <2>3, <2>4, TellsStill
<1>8. CASE t \in Touched(s) /\ session[s].saw[t] \in AFTER_DEPARTURE
  <2>1. SawGone(s, t) = trip[t].departed
    BY <1>8 DEF SawGone
  <2>2. Excess(led, t, SawGone(s, t)) => trip'[t].told
    BY <1>4, <1>8 DEF Reported
  <2>3. Excess(ledger, t, trip[t].departed)' <=> Excess(led, t, SawGone(s, t))
    <3>1. ledger' = led /\ trip'[t].departed = SawGone(s, t) /\ door' = door /\ seats' = seats
      BY <1>1, <1>4, <2>1
    <3> QED BY <3>1 DEF Excess, Balance, Boards, Alights, Explained, OnTrip, Kept
  <2> QED BY <2>2, <2>3 DEF Tells
<1>9. CASE t \in Touched(s) /\ session[s].saw[t] \notin AFTER_DEPARTURE
  <2>1. trip'[t].status = trip[t].status
    BY <1>4, <1>5, <1>9
  <2>2. trip[t].status \in AFTER_DEPARTURE => t \in unseen'
    BY <1>1, <1>9
  <2> QED BY <2>1, <2>2 DEF Tells
<1> QED BY <1>7, <1>8, <1>9

\* A trip that did not depart has no time of departure, whatever the step.
LEMMA NotGoneStays ==
    ASSUME ReportInv, [Next]_vars
    PROVE  NotGone'
<1>1. /\ DOMAIN trip = Trips /\ DOMAIN seats = Trips
      /\ \A t \in Trips : /\ DOMAIN trip[t] = TripFields
                          /\ trip[t].status \notin AFTER_DEPARTURE => trip[t].departed = Never
  BY DEF ReportInv, NotGone
<1>2. /\ "scheduled" \notin AFTER_DEPARTURE /\ "boarding" \notin AFTER_DEPARTURE
      /\ "departed" \in AFTER_DEPARTURE /\ "completed" \in AFTER_DEPARTURE
  BY DEF AFTER_DEPARTURE
<1>3. ASSUME NEW u \in Trips, NEW x, trip' = [trip EXCEPT ![u] = x], UNCHANGED seats,
             DOMAIN x = TripFields, x.status \notin AFTER_DEPARTURE => x.departed = Never
      PROVE  NotGone'
  BY <1>1, <1>3 DEF NotGone
<1>4. CASE UNCHANGED trip /\ DOMAIN seats' = Trips
  BY <1>1, <1>4 DEF NotGone
<1>5. CASE Office
  <2>0. UNCHANGED seats
    BY <1>5 DEF Office
  <2>1. ASSUME NEW u \in Trips, Assign(u) PROVE NotGone'
    <3> DEFINE x == [trip[u] EXCEPT !.van = TRUE]
    <3>1. trip' = [trip EXCEPT ![u] = x]
      BY <2>1 DEF Assign
    <3>2. DOMAIN x = TripFields /\ (x.status \notin AFTER_DEPARTURE => x.departed = Never)
      BY <1>1 DEF TripFields
    <3> HIDE DEF x
    <3> QED BY <1>3, <2>0, <3>1, <3>2
  <2>2. ASSUME NEW u \in Trips, Start(u) PROVE NotGone'
    <3> DEFINE x == [trip[u] EXCEPT !.status = "boarding", !.started = Now]
    <3>1. trip' = [trip EXCEPT ![u] = x]
      BY <1>1, <2>2 DEF Start
    <3>2. trip[u].departed = Never
      BY <1>1, <1>2, <2>2 DEF Start
    <3>3. DOMAIN x = TripFields /\ (x.status \notin AFTER_DEPARTURE => x.departed = Never)
      BY <1>1, <3>2 DEF TripFields
    <3> HIDE DEF x
    <3> QED BY <1>3, <2>0, <3>1, <3>3
  <2>3. ASSUME NEW u \in Trips, NEW at \in Events, DetectedStart(u, at) PROVE NotGone'
    <3> DEFINE x == [trip[u] EXCEPT !.van = TRUE, !.status = "boarding", !.started = at]
    <3>1. trip' = [trip EXCEPT ![u] = x]
      BY <1>1, <2>3 DEF DetectedStart
    <3>2. trip[u].departed = Never
      BY <1>1, <1>2, <2>3 DEF DetectedStart
    <3>3. DOMAIN x = TripFields /\ (x.status \notin AFTER_DEPARTURE => x.departed = Never)
      BY <1>1, <3>2 DEF TripFields
    <3> HIDE DEF x
    <3> QED BY <1>3, <2>0, <3>1, <3>3
  <2>4. ASSUME NEW u \in Trips, Void(u) PROVE NotGone'
    <3> DEFINE x == [trip[u] EXCEPT !.status = "cancelled"]
    <3>1. trip' = [trip EXCEPT ![u] = x]
      BY <2>4 DEF Void
    <3>2. trip[u].departed = Never
      BY <1>1, <2>4 DEF Void, BEFORE_DEPARTURE, AFTER_DEPARTURE
    <3>3. DOMAIN x = TripFields /\ (x.status \notin AFTER_DEPARTURE => x.departed = Never)
      BY <1>1, <3>2 DEF TripFields
    <3> HIDE DEF x
    <3> QED BY <1>3, <2>0, <3>1, <3>3
  <2>5. ASSUME NEW u \in Trips, Arrive(u) PROVE NotGone'
    <3> DEFINE x == [trip[u] EXCEPT !.status = "completed", !.completed = Now]
    <3>1. trip' = [trip EXCEPT ![u] = x]
      BY <1>1, <2>5 DEF Arrive
    <3>2. DOMAIN x = TripFields /\ x.status = "completed"
      BY <1>1 DEF TripFields
    <3> HIDE DEF x
    <3> QED BY <1>2, <1>3, <2>0, <3>1, <3>2
  <2>6. ASSUME NEW u \in Trips, NEW gps \in BOOLEAN, Depart(u, gps) PROVE NotGone'
    <3> DEFINE more == Excess(Rechecked(ledger, u, trip[u].departed), u, trip[u].departed)
               told == trip[u].told \/ more
               x == [trip[u] EXCEPT !.status = "departed", !.departed = Now, !.told = told]
    <3>1. trip' = IF more /\ ~gps THEN trip
                  ELSE [trip EXCEPT ![u].status = "departed", ![u].departed = Now,
                                    ![u].told = @ \/ more]
      BY <2>6 DEF Depart
    <3>2. UNCHANGED trip \/ trip' = [trip EXCEPT ![u] = x]
      <4> HIDE DEF more
      <4> QED BY <1>1, <3>1
    <3>3. DOMAIN x = TripFields /\ x.status = "departed"
      <4> HIDE DEF told
      <4> QED BY <1>1 DEF TripFields
    <3> HIDE DEF x
    <3> QED BY <1>1, <1>2, <1>3, <1>4, <2>0, <3>2, <3>3
  <2> QED BY <1>5, <2>1, <2>2, <2>3, <2>4, <2>5, <2>6 DEF Office
<1>6. ASSUME NEW s \in Sessions, Commit(s), UNCHANGED seats PROVE NotGone'
  <2>1. /\ DOMAIN trip' = Trips
        /\ \A t \in Trips : \E done, told :
              \/ trip'[t] = [trip[t] EXCEPT !.told = told]
              \/ trip'[t] = [trip[t] EXCEPT !.status = "completed", !.completed = done, !.told = told]
    BY <1>6 DEF Commit
  <2> QED BY <1>1, <1>2, <1>6, <2>1 DEF NotGone, TripFields
<1>7. CASE Desk
  <2>1. DOMAIN seats' = Trips /\ UNCHANGED trip
    BY <1>1, <1>7 DEF Desk, Explain, ListWalkUp, MarkListed, MarkPaid
  <2> QED BY <1>4, <2>1
<1>8. CASE UNCHANGED vars \/ Phone \/ \E s \in Sessions : Place(s) \/ Fail(s)
  <2>1. UNCHANGED <<trip, seats>>
    BY <1>8 DEF vars, Phone, Place, Fail
  <2> QED BY <1>1, <1>4, <2>1
<1>9. ASSUME NEW s \in Sessions, Finish(s) PROVE NotGone'
  BY <1>1, <1>4, <1>6, <1>9 DEF Finish
<1> QED BY <1>5, <1>7, <1>8, <1>9 DEF Next

\* What the check finds at departure or in a late upload is reported.
THEOREM ReportInductive == ReportInv /\ [Next]_vars => ReportInv'
<1> SUFFICES ASSUME ReportInv, [Next]_vars PROVE ReportInv'
  OBVIOUS
<1>1. LedgerInv' /\ NotGone'
  BY LedgerInductive, NotGoneStays DEF ReportInv, Stepped
<1>2. \A t \in Trips : Tells(t)'
  <2>1. CASE UNCHANGED vars
    BY <2>1, IdleTells DEF vars
  <2>2. ASSUME NEW s \in Sessions, Place(s) \/ Fail(s) PROVE \A t \in Trips : Tells(t)'
    <3>1. UNCHANGED <<door, trip, seats, ledger, unseen>>
      BY <2>2 DEF Place, Fail, Reply
    <3> QED BY <3>1, IdleTells
  <2>3. ASSUME NEW s \in Sessions, Finish(s) PROVE \A t \in Trips : Tells(t)'
    <3>1. UNCHANGED <<door, seats>>
      BY <2>3 DEF Finish, Reply
    <3>2. \/ UNCHANGED <<trip, ledger, unseen>>
          \/ Commit(s) /\ ~TakenKey(s)
      BY <2>3 DEF Finish
    <3> QED BY <3>1, <3>2, CommitTells, IdleTells
  <2> QED BY <2>1, <2>2, <2>3, DoorTells, OfficeTells, DeskTells DEF Next
<1> QED BY <1>1, <1>2 DEF ReportInv

\* A van that left with more aboard than listed and explained, as far as the
\* ledger knows, is reported, by the departure or by the upload that shows it;
\* unless the handler that shows it had read the trip before it departed.
THEOREM ReportsExcess == Spec => []LeftWithMoreIsTold
<1>1. ReportInv => LeftWithMoreIsTold
  BY DEF ReportInv, Tells, LeftWithMoreIsTold
<1> QED BY <1>1, ReportInitially, ReportInductive, PTL DEF Spec

-----------------------------------------------------------------------------
(***************************************************************************)
(* Type correctness.                                                       *)
(***************************************************************************)
TripType == [status : {"scheduled", "cancelled"} \cup STARTED, van : BOOLEAN,
             started : 0..Never, departed : 0..Never, completed : 0..Never, told : BOOLEAN]

RowType == [trip : Trips \cup {None}, booking : Bookings \cup {0}, resolution : Resolutions]

SessionType == [step : {"idle", "place", "list"}, hold : SUBSET Events,
                onto : [Events -> Trips \cup {None}],
                saw : [Trips -> {"before"} \cup AFTER_DEPARTURE],
                event : 0..MaxEvents, booking : Bookings \cup {0}]

Typed ==
    /\ trip \in [Trips -> TripType] /\ ledger \in [Events -> RowType]
    /\ seats \in [Trips -> Nat] /\ \A t \in Trips : seats[t] <= MaxSeats[t]
    /\ unseen \subseteq Trips /\ session \in [Sessions -> SessionType]

\* The boarding a walk-up is being listed for is on a trip.
ListsCrossings == \A s \in Sessions : session[s].step = "list" =>
                      session[s].event \in Events /\ ledger[session[s].event].trip # None

TypeInv == LedgerInv /\ Typed /\ ListsCrossings

LEMMA TypesInitially == Init => TypeInv
<1> SUFFICES ASSUME Init PROVE TypeInv
  OBVIOUS
<1>1. 0 \in 0..Never /\ Never \in 0..Never
  BY EventsAreNumbers DEF Never
<1>2. trip \in [Trips -> TripType]
  BY <1>1 DEF Init, TripType
<1>3. ledger \in [Events -> RowType]
  BY DEF Init, RowType, NoRow, Resolutions
<1>4. seats \in [Trips -> Nat] /\ \A t \in Trips : seats[t] <= MaxSeats[t]
  BY DEF Init, Trips
<1>5. Idle \in SessionType
  BY EventsAreNumbers DEF Idle, SessionType
<1>6. session \in [Sessions -> SessionType] /\ ListsCrossings
  BY <1>5 DEF Init, ListsCrossings, Idle
<1> QED BY <1>2, <1>3, <1>4, <1>6, LedgerInitially DEF Init, TypeInv, Typed

\* A boarding takes a seat of the list, or none.
LEMMA RecheckTyped ==
    ASSUME NEW led \in [Events -> RowType], NEW t \in Trips, NEW gone, seats[t] \in Nat,
           seats[t] <= MaxSeats[t]
    PROVE  Rechecked(led, t, gone) \in [Events -> RowType]
<1> DEFINE boards == Boards(led, t, gone)
           open == {e \in boards : ~Kept(led, e)}
           fixed == {led[e].booking : e \in {b \in boards : led[b].resolution = "listed"}}
           left == (1..seats[t]) \ fixed
           free == Sorted(left)
           place(e) == Cardinality({b \in open : b <= e})
           new == Rechecked(led, t, gone)
<1>1. /\ DOMAIN new = Events
      /\ \A e \in Events :
            \/ new[e] = led[e]
            \/ new[e] = [NoRow EXCEPT !.trip = t]
            \/ /\ e \in open /\ place(e) <= Len(free)
               /\ new[e] = [NoRow EXCEPT !.trip = t, !.booking = free[place(e)]]
            \/ new[e] = [NoRow EXCEPT !.trip = t, !.resolution = "pending"]
  BY DEF Rechecked
<1>2. open \subseteq Events
  BY DEF Boards, OnTrip
<1> HIDE DEF new, open, fixed
<1>3. /\ left \subseteq Int /\ left \subseteq Bookings /\ IsFiniteSet(left)
  <2>1. MaxSeats[t] \in Nat
    BY DEF Trips
  <2>2. 1..seats[t] \subseteq 1..MaxSeats[t] /\ 1..seats[t] \subseteq Int
    BY <2>1
  <2>3. 1..MaxSeats[t] \subseteq Bookings
    BY DEF Bookings
  <2>4. 1 \in Int /\ seats[t] \in Int
    OBVIOUS
  <2>5. IsFiniteSet(1..seats[t])
    BY <2>4, FS_Interval, Zenon
  <2> QED BY <2>2, <2>3, <2>5, FS_Subset
<1> HIDE DEF left
<1>4. Cardinality(left) \in Nat /\ free \in [1..Cardinality(left) -> left]
  BY <1>3, Enumerated
<1> HIDE DEF free
<1>5. Len(free) = Cardinality(left)
  BY <1>4
<1>6. ASSUME NEW e \in open, place(e) <= Len(free) PROVE free[place(e)] \in Bookings
  <2> DEFINE before == {b \in open : b <= e}
  <2>1. e \in before /\ before \subseteq Events
    <3>1. e \in Int
      BY <1>2, EventsAreNumbers
    <3>2. e <= e
      BY <3>1
    <3> QED BY <1>2, <3>2
  <2>2. IsFiniteSet(Events)
    <3>1. 1 \in Int /\ MaxEvents \in Int
      BY EventsAreNumbers
    <3> QED BY <3>1, FS_Interval, Zenon DEF Events
  <2>3. IsFiniteSet(before)
    BY <2>1, <2>2, FS_Subset
  <2> HIDE DEF before
  <2>4. Cardinality(before) \in Nat /\ Cardinality(before) # 0
    BY <2>1, <2>3, FS_CardinalityType, FS_EmptySet
  <2>5. place(e) = Cardinality(before)
    BY DEF before
  <2>6. place(e) \in 1..Cardinality(left)
    BY <1>4, <1>5, <1>6, <2>4, <2>5
  <2> HIDE DEF place
  <2> QED BY <1>3, <1>4, <2>6
<1> HIDE DEF place
<1>7. ASSUME NEW e \in Events PROVE new[e] \in RowType
  <2>1. CASE new[e] = led[e]
    BY <2>1
  <2>2. ASSUME NEW b \in Bookings \cup {0}, NEW r \in Resolutions,
               new[e].trip = t, new[e].booking = b, new[e].resolution = r,
               new[e] = [trip |-> t, booking |-> b, resolution |-> r]
        PROVE  new[e] \in RowType
    BY <2>2 DEF RowType
  <2>3. CASE new[e] = [NoRow EXCEPT !.trip = t]
    BY <2>2, <2>3 DEF NoRow, Resolutions
  <2>4. CASE /\ e \in open /\ place(e) <= Len(free)
             /\ new[e] = [NoRow EXCEPT !.trip = t, !.booking = free[place(e)]]
    <3>1. free[place(e)] \in Bookings
      BY <1>6, <2>4
    <3> QED BY <2>2, <2>4, <3>1 DEF NoRow, Resolutions
  <2>5. CASE new[e] = [NoRow EXCEPT !.trip = t, !.resolution = "pending"]
    BY <2>2, <2>5 DEF NoRow, Resolutions
  <2> QED BY <1>1, <2>1, <2>3, <2>4, <2>5
<1>8. new = [e \in Events |-> new[e]]
  <2>1. new = [e \in Events |->
           IF e \notin OnTrip(led, t) \/ (e \in boards /\ Kept(led, e)) THEN led[e]
           ELSE IF e \notin boards THEN [NoRow EXCEPT !.trip = t]
           ELSE IF place(e) <= Len(free) THEN [NoRow EXCEPT !.trip = t, !.booking = free[place(e)]]
           ELSE [NoRow EXCEPT !.trip = t, !.resolution = "pending"]]
    BY DEF new, Rechecked, place, free, left, fixed, open
  <2> QED BY <2>1
<1> QED BY <1>7, <1>8 DEF new

\* The rows of a step that only gives rows their trips keep the listed boarding
\* on its trip.
LEMMA ListedStay ==
    ASSUME TypeInv,
           \A e \in Events : ledger[e].trip # None => ledger'[e].trip # None,
           \A s \in Sessions : session'[s].step = "list" =>
               session'[s] = session[s]
    PROVE  ListsCrossings'
BY DEF TypeInv, ListsCrossings

LEMMA PhoneTyped == TypeInv /\ (Phone \/ UNCHANGED vars) => Typed' /\ ListsCrossings'
BY DEF TypeInv, Typed, ListsCrossings, Phone, vars

LEMMA PlaceTyped == ASSUME TypeInv, NEW s \in Sessions, Place(s) PROVE Typed' /\ ListsCrossings'
<1> DEFINE new == (outbox.waiting \cap onVan) \ (InLedger \cup held)
           onto == [e \in Events |-> IF e \in new THEN TripFor(trip, e) ELSE None]
           hold == {e \in new : onto[e] = None}
           saw == [t \in Trips |-> IF t \in Range(onto) /\ trip[t].status \in AFTER_DEPARTURE
                                   THEN trip[t].status ELSE "before"]
           x == [Idle EXCEPT !.step = "place", !.onto = onto, !.hold = hold, !.saw = saw]
<1>1. UNCHANGED <<trip, seats, ledger, unseen>> /\ session' = [session EXCEPT ![s] = x]
  BY DEF Place
<1>2. onto \in [Events -> Trips \cup {None}]
  BY PlacedOnTrips DEF TypeInv, LedgerInv, Timed
<1>3. hold \in SUBSET Events
  BY DEF TypeInv, LedgerInv, IInv, Shape
<1>4. saw \in [Trips -> {"before"} \cup AFTER_DEPARTURE]
  OBVIOUS
<1> HIDE DEF onto, hold, saw
<1>5. x \in SessionType /\ x.step = "place"
  <2>0. x = [Idle EXCEPT !.step = "place", !.onto = onto, !.hold = hold, !.saw = saw]
    OBVIOUS
  <2> HIDE DEF x, new
  <2>1. x = [step |-> "place", hold |-> hold, onto |-> onto, saw |-> saw, event |-> 0, booking |-> 0]
    BY <2>0 DEF Idle
  <2> QED BY <1>2, <1>3, <1>4, <2>1, EventsAreNumbers DEF SessionType
<1> HIDE DEF x
<1>6. Typed'
  BY <1>1, <1>5 DEF TypeInv, Typed
<1>7. ListsCrossings'
  BY <1>1, <1>5, ListedStay DEF TypeInv, Typed
<1> QED BY <1>6, <1>7

LEMMA IdleTyped == Idle \in SessionType /\ Idle.step = "idle"
BY EventsAreNumbers DEF Idle, SessionType

LEMMA RefusedTyped ==
    ASSUME TypeInv, NEW s \in Sessions, NEW code, Reply(s, code),
           UNCHANGED <<trip, seats, ledger, unseen>>
    PROVE  Typed' /\ ListsCrossings'
<1>1. session' = [session EXCEPT ![s] = Idle]
  BY DEF Reply
<1>2. Typed'
  BY <1>1, IdleTyped DEF TypeInv, Typed
<1>3. ListsCrossings'
  BY <1>1, IdleTyped, ListedStay DEF TypeInv, Typed
<1> QED BY <1>2, <1>3

\* A trip with one of its fields written.
LEMMA FieldWritten ==
    ASSUME NEW r \in TripType, NEW status \in {"scheduled", "cancelled"} \cup STARTED,
           NEW flag \in BOOLEAN, NEW time \in 0..Never
    PROVE  /\ [r EXCEPT !.status = status] \in TripType
           /\ [r EXCEPT !.van = flag] \in TripType
           /\ [r EXCEPT !.told = flag] \in TripType
           /\ [r EXCEPT !.started = time] \in TripType
           /\ [r EXCEPT !.departed = time] \in TripType
           /\ [r EXCEPT !.completed = time] \in TripType
<1>1. [r EXCEPT !.status = status] \in TripType
  BY DEF TripType
<1>2. [r EXCEPT !.van = flag] \in TripType
  BY DEF TripType
<1>3. [r EXCEPT !.told = flag] \in TripType
  BY DEF TripType
<1>4. [r EXCEPT !.started = time] \in TripType
  BY DEF TripType
<1>5. [r EXCEPT !.departed = time] \in TripType
  BY DEF TripType
<1>6. [r EXCEPT !.completed = time] \in TripType
  BY DEF TripType
<1> QED BY <1>1, <1>2, <1>3, <1>4, <1>5, <1>6

LEMMA OfficeTyped == TypeInv /\ Office => Typed' /\ ListsCrossings'
<1> SUFFICES ASSUME TypeInv, Office PROVE Typed' /\ ListsCrossings'
  OBVIOUS
<1>1. UNCHANGED <<seats, unseen, session>>
  BY DEF Office
<1>2. Now \in 0..Never /\ Events \subseteq 0..Never /\ trip \in [Trips -> TripType]
  BY Sizes, EventsAreNumbers DEF TypeInv, LedgerInv, Typed, Events, Never
<1>3. trip' \in [Trips -> TripType]
  <2>1. ASSUME NEW t \in Trips, NEW x \in TripType, trip' = [trip EXCEPT ![t] = x]
        PROVE  trip' \in [Trips -> TripType]
    BY <1>2, <2>1
  <2>2. \A t \in Trips : trip[t] \in TripType
    BY <1>2
  <2>3. {"scheduled", "cancelled", "boarding", "departed", "completed"}
            \subseteq {"scheduled", "cancelled"} \cup STARTED
    BY DEF STARTED
  <2>4. ASSUME NEW t \in Trips, Assign(t) PROVE trip' \in [Trips -> TripType]
    <3> DEFINE r == trip[t]
               a == [r EXCEPT !.van = TRUE]
    <3>1. trip' = [trip EXCEPT ![t] = a]
      BY <1>2, <2>4 DEF Assign
    <3>2. r \in TripType
      BY <2>2
    <3>3. a \in TripType
      <4> HIDE DEF r
      <4> QED BY <1>2, <2>3, <3>2, FieldWritten
    <3> HIDE DEF a
    <3> QED BY <2>1, <3>1, <3>3
  <2>5. ASSUME NEW t \in Trips, Start(t) PROVE trip' \in [Trips -> TripType]
    <3> DEFINE r == trip[t]
               a == [r EXCEPT !.status = "boarding"]
               b == [a EXCEPT !.started = Now]
    <3>1. trip' = [trip EXCEPT ![t] = b]
      BY <1>2, <2>5 DEF Start
    <3>2. r \in TripType
      BY <2>2
    <3>3. a \in TripType
      <4> HIDE DEF r
      <4> QED BY <1>2, <2>3, <3>2, FieldWritten
    <3>4. b \in TripType
      <4> HIDE DEF a
      <4> QED BY <1>2, <2>3, <3>3, FieldWritten
    <3> HIDE DEF b
    <3> QED BY <2>1, <3>1, <3>4
  <2>6. ASSUME NEW t \in Trips, NEW at \in Events, DetectedStart(t, at) PROVE trip' \in [Trips -> TripType]
    <3> DEFINE r == trip[t]
               a == [r EXCEPT !.van = TRUE]
               b == [a EXCEPT !.status = "boarding"]
               c == [b EXCEPT !.started = at]
    <3>1. trip' = [trip EXCEPT ![t] = c]
      BY <1>2, <2>6 DEF DetectedStart
    <3>2. r \in TripType
      BY <2>2
    <3>3. a \in TripType
      <4> HIDE DEF r
      <4> QED BY <1>2, <2>3, <3>2, FieldWritten
    <3>4. b \in TripType
      <4> HIDE DEF a
      <4> QED BY <1>2, <2>3, <3>3, FieldWritten
    <3>5. c \in TripType
      <4> HIDE DEF b
      <4> QED BY <1>2, <2>3, <3>4, FieldWritten
    <3> HIDE DEF c
    <3> QED BY <2>1, <3>1, <3>5
  <2>7. ASSUME NEW t \in Trips, Void(t) PROVE trip' \in [Trips -> TripType]
    <3> DEFINE r == trip[t]
               a == [r EXCEPT !.status = "cancelled"]
    <3>1. trip' = [trip EXCEPT ![t] = a]
      BY <1>2, <2>7 DEF Void
    <3>2. r \in TripType
      BY <2>2
    <3>3. a \in TripType
      <4> HIDE DEF r
      <4> QED BY <1>2, <2>3, <3>2, FieldWritten
    <3> HIDE DEF a
    <3> QED BY <2>1, <3>1, <3>3
  <2>8. ASSUME NEW t \in Trips, Arrive(t) PROVE trip' \in [Trips -> TripType]
    <3> DEFINE r == trip[t]
               a == [r EXCEPT !.status = "completed"]
               b == [a EXCEPT !.completed = Now]
    <3>1. trip' = [trip EXCEPT ![t] = b]
      BY <1>2, <2>8 DEF Arrive
    <3>2. r \in TripType
      BY <2>2
    <3>3. a \in TripType
      <4> HIDE DEF r
      <4> QED BY <1>2, <2>3, <3>2, FieldWritten
    <3>4. b \in TripType
      <4> HIDE DEF a
      <4> QED BY <1>2, <2>3, <3>3, FieldWritten
    <3> HIDE DEF b
    <3> QED BY <2>1, <3>1, <3>4
  <2>9. ASSUME NEW t \in Trips, NEW gps \in BOOLEAN, Depart(t, gps)
        PROVE  trip' \in [Trips -> TripType]
    <3> DEFINE r == trip[t]
               more == Excess(Rechecked(ledger, t, r.departed), t, r.departed)
               told == r.told \/ more
               a == [r EXCEPT !.status = "departed"]
               b == [a EXCEPT !.departed = Now]
               c == [b EXCEPT !.told = told]
    <3>1. UNCHANGED trip \/ trip' = [trip EXCEPT ![t] = c]
      <4>1. UNCHANGED trip \/ trip' = [trip EXCEPT ![t].status = "departed", ![t].departed = Now,
                                                   ![t].told = @ \/ more]
        BY <2>9 DEF Depart
      <4> HIDE DEF more
      <4> QED BY <1>2, <4>1 DEF TripType
    <3>2. told \in BOOLEAN
      OBVIOUS
    <3> HIDE DEF told
    <3>3. r \in TripType
      BY <2>2
    <3>4. a \in TripType
      <4> HIDE DEF r
      <4> QED BY <1>2, <2>3, <3>3, FieldWritten
    <3>5. b \in TripType
      <4> HIDE DEF a
      <4> QED BY <1>2, <3>4, FieldWritten
    <3>6. c \in TripType
      <4> HIDE DEF b
      <4> QED BY <1>2, <2>3, <3>2, <3>5, FieldWritten
    <3> HIDE DEF c
    <3> QED BY <1>2, <2>1, <3>1, <3>6
  <2> QED BY <2>4, <2>5, <2>6, <2>7, <2>8, <2>9 DEF Office
<1>4. ledger' \in [Events -> RowType] /\ \A e \in Events : ledger[e].trip # None => ledger'[e].trip # None
  <2>1. ASSUME NEW t \in Trips, Release(t, trip')
        PROVE  /\ ledger' \in [Events -> RowType]
               /\ \A e \in Events : ledger[e].trip # None => ledger'[e].trip # None
    <3>1. [NoRow EXCEPT !.trip = t] \in RowType /\ [NoRow EXCEPT !.trip = t].trip # None
      BY EventsAreNumbers DEF NoRow, RowType, Resolutions
    <3> QED BY <2>1, <3>1 DEF Release, TypeInv, Typed
  <2>2. ASSUME NEW t \in Trips, NEW gone, ledger' = Rechecked(ledger, t, gone)
        PROVE  /\ ledger' \in [Events -> RowType]
               /\ \A e \in Events : ledger[e].trip # None => ledger'[e].trip # None
    <3>1. Rows(ledger)
      BY DEF TypeInv, LedgerInv, IInv, Shape, Rows
    <3>2. \A e \in Events : ledger'[e].trip = ledger[e].trip
      BY <2>2, <3>1, RecheckStays
    <3>3. ledger' \in [Events -> RowType]
      BY <2>2, RecheckTyped DEF TypeInv, Typed
    <3> QED BY <3>2, <3>3
  <2>3. \/ \E t \in Trips : Release(t, trip')
        \/ UNCHANGED ledger
        \/ \E t \in Trips, gone \in {trip[u].departed : u \in Trips} :
              ledger' = Rechecked(ledger, t, gone)
    BY DEF Office, Assign, Start, DetectedStart, Void, Arrive, Depart
  <2> QED BY <2>1, <2>2, <2>3 DEF TypeInv, Typed
<1>5. ListsCrossings'
  BY <1>1, <1>4, ListedStay
<1> QED BY <1>1, <1>3, <1>4, <1>5 DEF TypeInv, Typed

LEMMA DeskTyped == TypeInv /\ Desk => Typed' /\ ListsCrossings'
<1> SUFFICES ASSUME TypeInv, Desk PROVE Typed' /\ ListsCrossings'
  OBVIOUS
<1>1. UNCHANGED trip /\ trip \in [Trips -> TripType] /\ Followed \subseteq Trips
  BY DEF Desk, TypeInv, Typed, Trips
<1>2. Rows(ledger)
  BY DEF TypeInv, LedgerInv, IInv, Shape, Rows
<1>3. ASSUME NEW t \in Trips
      PROVE  /\ Rechecked(ledger, t, Never) \in [Events -> RowType]
             /\ \A e \in Events : Rechecked(ledger, t, Never)[e].trip = ledger[e].trip
  <2>1. ledger \in [Events -> RowType] /\ seats[t] \in Nat /\ seats[t] <= MaxSeats[t]
    BY DEF TypeInv, Typed
  <2>2. Rechecked(ledger, t, Never) \in [Events -> RowType]
    BY <2>1, RecheckTyped
  <2> QED BY <1>2, <2>2, RecheckStays
<1>4. ASSUME NEW e \in Events, Explain(e) PROVE Typed' /\ ListsCrossings'
  <2> DEFINE t == ledger[e].trip
             led == Rechecked(ledger, t, Never)
  <2>1. /\ t \in Trips /\ ledger' = [led EXCEPT ![e].resolution = "explained"]
        /\ UNCHANGED <<seats, unseen, session>>
    BY <1>1, <1>4 DEF Explain, Pending
  <2>2. led \in [Events -> RowType] /\ \A f \in Events : led[f].trip = ledger[f].trip
    BY <1>3, <2>1
  <2> HIDE DEF led, t
  <2>3. ledger' \in [Events -> RowType] /\ \A f \in Events : ledger'[f].trip = ledger[f].trip
    BY <2>1, <2>2 DEF RowType, Resolutions
  <2> QED BY <1>1, <2>1, <2>3, ListedStay DEF TypeInv, Typed
<1>5. ASSUME NEW e \in Events, NEW s \in Sessions, ListWalkUp(s, e)
      PROVE  Typed' /\ ListsCrossings'
  <2> DEFINE t == ledger[e].trip
             x == [Idle EXCEPT !.step = "list", !.event = e, !.booking = seats[t] + 1]
  <2>1. /\ t \in Trips /\ seats[t] < MaxSeats[t]
        /\ ledger' = Rechecked(ledger, t, Never) /\ seats' = [seats EXCEPT ![t] = @ + 1]
        /\ session' = [session EXCEPT ![s] = x] /\ UNCHANGED unseen
    BY <1>1, <1>5 DEF ListWalkUp, Pending
  <2>2. ledger' \in [Events -> RowType] /\ \A f \in Events : ledger'[f].trip = ledger[f].trip
    BY <1>3, <2>1
  <2>3. t # None
    BY <2>1, EventsAreNumbers
  <2> HIDE DEF t
  <2>4. seats' \in [Trips -> Nat] /\ \A u \in Trips : seats'[u] <= MaxSeats[u]
    <3>1. MaxSeats \in [Trips -> Nat]
      BY DEF Trips
    <3> QED BY <2>1, <3>1 DEF TypeInv, Typed
  <2>5. seats[t] + 1 \in Bookings
    <3>1. MaxSeats[t] \in Nat /\ seats[t] \in Nat
      BY <2>1 DEF Trips, TypeInv, Typed
    <3>2. seats[t] + 1 \in 1..MaxSeats[t]
      BY <2>1, <3>1
    <3> QED BY <2>1, <3>2 DEF Bookings
  <2>6. x \in SessionType /\ x.step = "list" /\ x.event = e
    <3> DEFINE b == seats[t] + 1
    <3>1. x = [Idle EXCEPT !.step = "list", !.event = e, !.booking = b]
      OBVIOUS
    <3> HIDE DEF b, x
    <3>2. x = [step |-> "list", hold |-> {}, onto |-> [f \in Events |-> None],
               saw |-> [u \in Trips |-> "before"], event |-> e, booking |-> b]
      BY <3>1 DEF Idle
    <3>3. b \in Bookings /\ e \in 0..MaxEvents
      BY <2>5, EventsAreNumbers DEF b, Events
    <3> QED BY <3>2, <3>3 DEF SessionType
  <2> HIDE DEF x
  <2>7. session' \in [Sessions -> SessionType]
    BY <2>1, <2>6 DEF TypeInv, Typed
  <2>8. ListsCrossings'
    BY <2>1, <2>2, <2>3, <2>6 DEF TypeInv, Typed, ListsCrossings, t
  <2> QED BY <1>1, <2>1, <2>2, <2>4, <2>7, <2>8 DEF TypeInv, Typed
<1>6. ASSUME NEW s \in Sessions, MarkListed(s) PROVE Typed' /\ ListsCrossings'
  <2> DEFINE e == session[s].event
             b == session[s].booking
  <2>1. /\ ledger' = [ledger EXCEPT ![e].resolution = "listed", ![e].booking = b]
        /\ session' = [session EXCEPT ![s] = Idle] /\ UNCHANGED seats
        /\ session[s].step = "list" /\ unseen' \subseteq unseen \cup {ledger[e].trip}
    BY <1>6 DEF MarkListed
  <2>2. e \in Events /\ ledger[e].trip # None /\ b \in Bookings \cup {0}
    BY <2>1 DEF TypeInv, Typed, ListsCrossings, SessionType
  <2>3. ledger[e].trip \in Trips
    BY <2>2 DEF TypeInv, Typed, RowType
  <2> HIDE DEF e, b
  <2>4. ledger' \in [Events -> RowType] /\ \A f \in Events : ledger'[f].trip = ledger[f].trip
    BY <2>1, <2>2 DEF TypeInv, Typed, RowType, Resolutions
  <2>5. session' \in [Sessions -> SessionType]
    BY <2>1, IdleTyped DEF TypeInv, Typed
  <2>6. ListsCrossings'
    BY <2>1, <2>4, IdleTyped, ListedStay DEF TypeInv, Typed
  <2> QED BY <1>1, <2>1, <2>3, <2>4, <2>5, <2>6 DEF TypeInv, Typed
<1>7. ASSUME NEW t \in Trips, MarkPaid(t) PROVE Typed' /\ ListsCrossings'
  <2>1. MaxSeats \in [Trips -> Nat]
    BY DEF Trips
  <2>2. seats' \in [Trips -> Nat] /\ \A u \in Trips : seats'[u] <= MaxSeats[u]
    BY <1>7, <2>1 DEF MarkPaid, TypeInv, Typed
  <2> QED BY <1>1, <1>7, <2>2 DEF MarkPaid, TypeInv, Typed, ListsCrossings
<1> QED BY <1>4, <1>5, <1>6, <1>7 DEF Desk

\* The commit of an upload.
LEMMA CommitTyped ==
    ASSUME TypeInv, NEW s \in Sessions, Commit(s), Reply(s, "2xx"), UNCHANGED seats
    PROVE  Typed' /\ ListsCrossings'
<1> DEFINE ins == Inserted(s)
           led == [e \in Events |->
                   LET u == session[s].onto[e] IN
                   IF u = None /\ ledger[e].trip \notin Touched(s) THEN ledger[e]
                   ELSE LET v == IF u = None THEN ledger[e].trip ELSE u
                        IN Rechecked(Inserted(s), v, SawGone(s, v))[e]]
           done(t) == CHOOSE e \in OnTrip(led, t) : \A f \in OnTrip(led, t) : f <= e
           told(t) == trip[t].told \/ t \in Reported(s, led)
<1>1. /\ ledger' = led
      /\ trip' = [t \in Trips |->
             IF t \in Ended(s)
             THEN [trip[t] EXCEPT !.status = "completed", !.completed = done(t),
                                  !.told = @ \/ t \in Reported(s, led)]
             ELSE [trip[t] EXCEPT !.told = @ \/ t \in Reported(s, led)]]
      /\ unseen' \subseteq unseen \cup Touched(s)
      /\ session' = [session EXCEPT ![s] = Idle]
  BY DEF Commit, Reply
<1>2. /\ trip \in [Trips -> TripType] /\ ledger \in [Events -> RowType]
      /\ session[s].onto \in [Events -> Trips \cup {None}]
      /\ Touched(s) \subseteq Trips
  BY DEF TypeInv, Typed, SessionType, Touched
<1>3. ins \in [Events -> RowType]
  <2>1. \A t \in Trips : [NoRow EXCEPT !.trip = t] \in RowType
    BY DEF NoRow, RowType, Resolutions
  <2> QED BY <1>2, <2>1 DEF Inserted
<1>4. \A t \in Trips : \A gone : Rechecked(ins, t, gone) \in [Events -> RowType]
  <2> HIDE DEF ins
  <2>1. \A t \in Trips : seats[t] \in Nat /\ seats[t] <= MaxSeats[t]
    BY DEF TypeInv, Typed
  <2> QED BY <1>3, <2>1, RecheckTyped
<1>5. ledger' \in [Events -> RowType]
  <2> HIDE DEF led
  <2>1. \A e \in Events : led[e] \in RowType
    <3> SUFFICES ASSUME NEW e \in Events PROVE led[e] \in RowType
      OBVIOUS
    <3>1. CASE session[s].onto[e] = None /\ ledger[e].trip \notin Touched(s)
      BY <1>2, <3>1 DEF led
    <3>2. CASE session[s].onto[e] = None /\ ledger[e].trip \in Touched(s)
      BY <1>2, <1>4, <3>2 DEF led
    <3>3. CASE session[s].onto[e] # None
      BY <1>2, <1>4, <3>3 DEF led
    <3> QED BY <3>1, <3>2, <3>3
  <2>2. led = [e \in Events |-> led[e]]
    BY DEF led
  <2> QED BY <1>1, <2>1, <2>2
<1>6. \A e \in Events : ledger'[e].trip = IF session[s].onto[e] = None THEN ledger[e].trip
                                          ELSE session[s].onto[e]
  BY EnteredRows DEF TypeInv
<1> HIDE DEF led
<1>7. ASSUME NEW t \in Ended(s) PROVE done(t) \in 0..Never
  <2>1. t \in Trips /\ t # None /\ Entering(s, t) # {}
    BY EventsAreNumbers DEF Ended, Touched
  <2> DEFINE on == OnTrip(led, t)
  <2>2. on # {} /\ on \subseteq Events
    BY <1>1, <1>6, <2>1 DEF OnTrip, Entering
  <2>3. IsFiniteSet(Events) /\ Events \subseteq Int
    <3>1. 1 \in Int /\ MaxEvents \in Int
      BY EventsAreNumbers
    <3>2. IsFiniteSet(Events)
      BY <3>1, FS_Interval, Zenon DEF Events
    <3> QED BY <3>2, EventsAreNumbers
  <2>4. IsFiniteSet(on) /\ on \subseteq Int
    BY <2>2, <2>3, FS_Subset
  <2> HIDE DEF on
  <2>5. \E e \in on : \A f \in on : f <= e
    BY <2>2, <2>4, LeastAndGreatest
  <2>6. done(t) \in Events
    BY <2>2, <2>5 DEF on
  <2> HIDE DEF done
  <2> QED BY <2>6, EventsAreNumbers DEF Events, Never
<1>8. trip' \in [Trips -> TripType]
  <2> DEFINE val(t) == IF t \in Ended(s)
                       THEN [trip[t] EXCEPT !.status = "completed", !.completed = done(t),
                                            !.told = told(t)]
                       ELSE [trip[t] EXCEPT !.told = told(t)]
  <2>0. trip' = [t \in Trips |-> val(t)]
    BY <1>1
  <2>1. ASSUME NEW t \in Trips PROVE val(t) \in TripType
    <3> DEFINE r == trip[t]
               d == done(t)
    <3>1. told(t) \in BOOLEAN
      OBVIOUS
    <3>2. val(t) = IF t \in Ended(s)
                   THEN [r EXCEPT !.status = "completed", !.completed = d, !.told = told(t)]
                   ELSE [r EXCEPT !.told = told(t)]
      OBVIOUS
    <3>3. r \in TripType /\ (t \in Ended(s) => d \in 0..Never)
      BY <1>2, <1>7
    <3> HIDE DEF r, d, told, val
    <3>4. /\ r.van \in BOOLEAN /\ r.started \in 0..Never /\ r.departed \in 0..Never
          /\ r.completed \in 0..Never /\ r.status \in {"scheduled", "cancelled"} \cup STARTED
      BY <3>3 DEF TripType
    <3>5. CASE t \in Ended(s)
      <4>1. val(t) = [status |-> "completed", van |-> r.van, started |-> r.started,
                       departed |-> r.departed, completed |-> d, told |-> told(t)]
        BY <3>2, <3>3, <3>5 DEF TripType
      <4> QED BY <3>1, <3>3, <3>4, <3>5, <4>1 DEF TripType, STARTED
    <3>6. CASE t \notin Ended(s)
      <4>1. val(t) = [status |-> r.status, van |-> r.van, started |-> r.started,
                       departed |-> r.departed, completed |-> r.completed, told |-> told(t)]
        BY <3>2, <3>3, <3>6 DEF TripType
      <4> QED BY <3>1, <3>4, <4>1 DEF TripType
    <3> QED BY <3>5, <3>6
  <2> HIDE DEF val
  <2> QED BY <2>0, <2>1
<1>9. session' \in [Sessions -> SessionType] /\ unseen' \subseteq Trips
  BY <1>1, <1>2, IdleTyped DEF TypeInv, Typed
<1>10. ListsCrossings'
  <2>1. \A q \in Sessions : session'[q].step = "list" => session'[q] = session[q]
    BY <1>1, IdleTyped DEF TypeInv, Typed
  <2>2. \A e \in Events : ledger[e].trip # None => ledger'[e].trip # None
    BY <1>6
  <2> QED BY <2>1, <2>2, ListedStay
<1> QED BY <1>5, <1>8, <1>9, <1>10 DEF TypeInv, Typed

\* No step of the phone, the uploads or the office leaves the types.
THEOREM TypesInductive == TypeInv /\ [Next]_vars => TypeInv'
<1> SUFFICES ASSUME TypeInv, [Next]_vars PROVE TypeInv'
  OBVIOUS
<1>1. LedgerInv'
  BY LedgerInductive DEF TypeInv, Stepped
<1>2. ASSUME NEW s \in Sessions, Finish(s) \/ Fail(s) PROVE Typed' /\ ListsCrossings'
  <2>1. \/ \E code \in {"4xx", "5xx"} : Reply(s, code) /\ UNCHANGED <<trip, seats, ledger, unseen>>
        \/ Commit(s) /\ Reply(s, "2xx") /\ UNCHANGED seats
    BY <1>2 DEF Finish, Fail
  <2> QED BY <2>1, RefusedTyped, CommitTyped
<1>3. Typed' /\ ListsCrossings'
  BY <1>2, PhoneTyped, OfficeTyped, DeskTyped, PlaceTyped DEF Next
<1> QED BY <1>1, <1>3 DEF TypeInv

\* Only crossings come late.
LateOnes == late \subseteq Events

LEMMA LateTyped == LateOnes /\ [Next]_vars => LateOnes'
  BY DEF LateOnes, Next, vars, Phone, Office, Desk, Place, Finish, Fail, Commit

\* Crossings, uploads, trips and the ledger keep their types, and the events of
\* a trip are those of its chain.
THEOREM TypeCorrect == Spec => []TypeOK
<1>1. TypeInv /\ LateOnes => TypeOK
  <2> SUFFICES ASSUME TypeInv, LateOnes PROVE TypeOK
    OBVIOUS
  <2>1. \A t \in Trips : Range(chain[t]) = {e \in Events : ledger[e].trip = t}
    <3> SUFFICES ASSUME NEW t \in Trips PROVE Range(chain[t]) = {e \in Events : ledger[e].trip = t}
      OBVIOUS
    <3> DEFINE c == chain[t]
    <3>1. /\ c \in Seq(Events)
          /\ \A e \in Events : (\E i \in 1..Len(c) : c[i] = e) <=> ledger[e].trip = t
      BY Zenon DEF TypeInv, LedgerInv, Chained
    <3> HIDE DEF c
    <3>2. DOMAIN c = 1..Len(c) /\ \A i \in DOMAIN c : c[i] \in Events
      <4>1. c \in Seq(Events)
        BY <3>1
      <4> QED BY <4>1
    <3>3. Range(c) = {e \in Events : ledger[e].trip = t}
      <4>1. \A e : e \in Range(c) <=> \E i \in 1..Len(c) : c[i] = e
        BY <3>2 DEF Range
      <4>2. \A e \in Range(c) : e \in Events
        BY <3>2 DEF Range
      <4> QED BY <3>1, <4>1, <4>2
    <3> QED BY <3>3 DEF c
  <2>2. /\ door \in Seq({"board", "alight"}) /\ Len(door) <= MaxEvents
        /\ onVan \subseteq Events /\ held \subseteq Events
        /\ outbox \in [{"waiting", "sent", "aside"} -> SUBSET Events]
        /\ asks \in Sessions \cup {Nobody}
    BY DEF TypeInv, LedgerInv, IInv, Shape
  <2>3. seats \in [Trips -> Bookings \cup {0}]
    <3>1. ASSUME NEW t \in Trips PROVE seats[t] \in Bookings \cup {0}
      <4>1. seats[t] \in Nat /\ MaxSeats[t] \in Nat /\ seats[t] <= MaxSeats[t]
        BY DEF TypeInv, Typed, Trips
      <4>2. seats[t] = 0 \/ seats[t] \in 1..MaxSeats[t]
        BY <4>1
      <4> QED BY <4>2 DEF Bookings
    <3> QED BY <3>1 DEF TypeInv, Typed
  <2>4. /\ trip \in [Trips -> TripType] /\ ledger \in [Events -> RowType]
        /\ unseen \subseteq Trips /\ session \in [Sessions -> SessionType]
    BY DEF TypeInv, Typed
  <2> QED BY <2>1, <2>2, <2>3, <2>4, Zenon DEF LateOnes, TypeOK, TripType, RowType, SessionType
<1>2. Init => LateOnes
  BY DEF Init, LateOnes
<1> QED BY <1>1, <1>2, TypesInitially, TypesInductive, LateTyped, PTL DEF Spec

-----------------------------------------------------------------------------
(***************************************************************************)
(* Each crossing is on the trip the van ran at that moment.                *)
(***************************************************************************)
\* What a trip on which a crossing is placed is to it: it ran then, or was
\* voided since, or was assigned and not started and no trip ran then.
Fits(t, e) ==
    \/ Covers(trip[t], e)
    \/ trip[t].status = "cancelled"
    \/ Awaits(trip[t], e) /\ \A u \in Trips : ~Covers(trip[u], e)

\* Crossings in the ledger fit their trips; those on their way fit theirs, or
\* the trip was ended meanwhile.
Fitting ==
    /\ \A e \in InLedger \ late : Fits(ledger[e].trip, e)
    /\ \A s \in Sessions, e \in Events : session[s].onto[e] # None =>
           Fits(session[s].onto[e], e) \/ Overtaken(s, session[s].onto[e], e)

\* A trip has the times of what it went through, and an upload that read a trip
\* as over read it right.
Moments ==
    /\ \A t \in Trips : /\ trip[t].status = "scheduled" => trip[t].started = Never
                        /\ trip[t].status # "completed" => trip[t].completed = Never
    /\ \A s \in Sessions, t \in Trips :
           session[s].saw[t] = "completed" => trip[t].status = "completed"

FitInv == TypeInv /\ Moments /\ Fitting

LEMMA FitsInitially == Init => FitInv
<1> SUFFICES ASSUME Init PROVE FitInv
  OBVIOUS
<1>1. TypeInv
  BY TypesInitially
<1>2. InLedger = {} /\ Moments
  BY DEF Init, InLedger, NoRow, Idle, Moments
<1>3. \A s \in Sessions, e \in Events : session[s].onto[e] = None
  BY DEF Init, Idle
<1> QED BY <1>1, <1>2, <1>3 DEF FitInv, Fitting

\* What the types give of a trip.
LEMMA TripFacts ==
    ASSUME TypeInv, NEW t \in Trips
    PROVE  /\ DOMAIN trip = Trips /\ trip[t] \in TripType
           /\ trip[t].started \in Int /\ trip[t].completed \in Int
           /\ trip[t].started \in 0..Never /\ trip[t].completed \in 0..Never
           /\ trip[t].van \in BOOLEAN
<1>1. trip[t] \in TripType /\ DOMAIN trip = Trips
  BY DEF TypeInv, Typed
<1>2. 0..Never \subseteq Int
  BY DEF Never
<1> QED BY <1>1, <1>2 DEF TripType

\* A crossing that was counted is over, and before Never.
LEMMA CrossingsAreOver ==
    ASSUME TypeInv, NEW e \in 1..Now
    PROVE  e \in Events /\ e \in Int /\ Now \in Int /\ e <= Now /\ e < Never /\ Now \in 0..Never
<1>1. Now \in Nat /\ Now <= MaxEvents /\ 1..Now \subseteq Events
  BY Sizes DEF TypeInv, LedgerInv
<1> QED BY <1>1 DEF Never, Events

-----------------------------------------------------------------------------
(***************************************************************************)
(* How a step of the office changes a trip, and what this is to a crossing *)
(* before it: it leaves the trip what it was, or cancels it; and no trip   *)
(* comes to have run at the moment of a crossing that waits for another.   *)
(***************************************************************************)
Turn(r, q) ==
    \/ q = r
    \/ r.status \in BEFORE_DEPARTURE /\ q.status = "cancelled" /\ q.completed = r.completed
    \/ /\ r.status = "scheduled" /\ q.status = "scheduled" /\ q.van
       /\ q.started = r.started /\ q.completed = r.completed
    \/ /\ r.status = "scheduled" /\ q.status = "boarding" /\ q.van /\ q.completed = r.completed
       /\ \/ r.van /\ q.started = Now
          \/ ~r.van /\ q.started \in Events /\ \A u \in Trips : ~Awaits(trip[u], q.started)
    \/ /\ r.status = "boarding" /\ q.status = "departed"
       /\ q.van = r.van /\ q.started = r.started /\ q.completed = r.completed
    \/ /\ r.status = "departed" /\ q.status = "completed"
       /\ q.van = r.van /\ q.started = r.started /\ q.completed = Now

LEMMA OfficeTurns == ASSUME TypeInv, Office PROVE \A t \in Trips : Turn(trip[t], trip'[t])
<1>1. ASSUME NEW u \in Trips, trip' = [trip EXCEPT ![u] = trip'[u]], Turn(trip[u], trip'[u])
      PROVE  \A t \in Trips : Turn(trip[t], trip'[t])
  <2>1. ASSUME NEW t \in Trips, t # u PROVE trip'[t] = trip[t]
    BY <1>1, <2>1, TripFacts
  <2> QED BY <1>1, <2>1 DEF Turn
<1>2. ASSUME NEW u \in Trips, Assign(u) PROVE \A t \in Trips : Turn(trip[t], trip'[t])
  BY <1>1, <1>2, TripFacts DEF Assign, Turn, TripType
<1>3. ASSUME NEW u \in Trips, Start(u) PROVE \A t \in Trips : Turn(trip[t], trip'[t])
  BY <1>1, <1>3, TripFacts DEF Start, Turn, TripType
<1>4. ASSUME NEW u \in Trips, NEW at \in Events, DetectedStart(u, at)
      PROVE  \A t \in Trips : Turn(trip[t], trip'[t])
  <2>1. \A t \in Trips : ~Awaits(trip[t], at)
    <3>1. TripFor(trip, at) = None /\ \A t \in Trips : trip[t].started \in 0..Never
      BY <1>4, TripFacts DEF DetectedStart
    <3> QED BY <3>1, TripForFits, EventsAreNumbers
  <2>2. /\ trip[u].status = "scheduled" /\ ~trip[u].van
        /\ trip' = [trip EXCEPT ![u].van = TRUE, ![u].status = "boarding", ![u].started = at]
    BY <1>4 DEF DetectedStart
  <2> QED BY <1>1, <2>1, <2>2, TripFacts DEF Turn, TripType
<1>5. ASSUME NEW u \in Trips, Void(u) PROVE \A t \in Trips : Turn(trip[t], trip'[t])
  BY <1>1, <1>5, TripFacts DEF Void, Turn, TripType
<1>6. ASSUME NEW u \in Trips, NEW gps \in BOOLEAN, Depart(u, gps)
      PROVE  \A t \in Trips : Turn(trip[t], trip'[t])
  <2>1. CASE UNCHANGED trip
    BY <2>1 DEF Turn
  <2>2. CASE trip' # trip
    <3> DEFINE told == trip[u].told \/ Excess(Rechecked(ledger, u, trip[u].departed), u, trip[u].departed)
    <3>1. /\ trip[u].status = "boarding"
          /\ trip' = [trip EXCEPT ![u].status = "departed", ![u].departed = Now, ![u].told = told]
      BY <1>6, <2>2, TripFacts DEF Depart
    <3> HIDE DEF told
    <3> QED BY <1>1, <3>1, TripFacts DEF Turn, TripType
  <2> QED BY <2>1, <2>2
<1>7. ASSUME NEW u \in Trips, Arrive(u) PROVE \A t \in Trips : Turn(trip[t], trip'[t])
  BY <1>1, <1>7, TripFacts DEF Arrive, Turn, TripType
<1> QED BY <1>2, <1>3, <1>4, <1>5, <1>6, <1>7 DEF Office

\* The step ends the trip, before the crossing.
EndsBefore(t, e) == trip[t].status = "departed" /\ trip'[t].completed < e

\* What any step is to a crossing it does not enter.
Undisturbed(e) ==
    \A t \in Trips :
        /\ Covers(trip[t], e) => Covers(trip'[t], e) \/ trip'[t].status = "cancelled" \/ EndsBefore(t, e)
        /\ trip[t].status = "cancelled" => trip'[t].status = "cancelled"
        /\ Awaits(trip[t], e) => Awaits(trip'[t], e) \/ trip'[t].status = "cancelled"
        /\ Covers(trip'[t], e) /\ ~Covers(trip[t], e) => \A u \in Trips : ~Awaits(trip[u], e)
        /\ trip[t].completed < e => trip'[t].completed < e

LEMMA FitsStays ==
    ASSUME NEW e, Undisturbed(e), NEW t \in Trips, Fits(t, e)
    PROVE  Fits(t, e)' \/ EndsBefore(t, e)
  BY DEF Undisturbed, Fits

\* The office ends no trip before a crossing that was counted.
LEMMA OfficeUndisturbed ==
    ASSUME TypeInv, Moments, Office, NEW e \in 1..Now
    PROVE  Undisturbed(e) /\ \A t \in Trips : ~EndsBefore(t, e)
<1>1. e \in Int /\ Now \in Int /\ e <= Now /\ e < Never
  BY CrossingsAreOver
<1>2. \A t \in Trips : /\ trip[t].started \in Int /\ trip[t].completed \in Int /\ trip[t].van \in BOOLEAN
                       /\ Turn(trip[t], trip'[t])
  BY TripFacts, OfficeTurns
<1>3. \A t \in Trips : /\ trip[t].status = "scheduled" => trip[t].started = Never
                       /\ trip[t].status # "completed" => trip[t].completed = Never
  BY DEF Moments
<1>4. Never \in Int /\ Events \subseteq Int
  BY EventsAreNumbers DEF Never
<1>5. ASSUME NEW t \in Trips, NEW a \in Events, \A u \in Trips : ~Awaits(trip[u], a), a < e
      PROVE  \A u \in Trips : ~Awaits(trip[u], e)
  BY <1>1, <1>2, <1>4, <1>5 DEF Awaits
<1>6. ASSUME NEW t \in Trips PROVE ~EndsBefore(t, e)
  BY <1>1, <1>2, <1>3, <1>4 DEF EndsBefore, Turn, BEFORE_DEPARTURE
<1>7. ASSUME NEW t \in Trips PROVE Covers(trip[t], e) => Covers(trip'[t], e) \/ trip'[t].status = "cancelled"
  BY <1>1, <1>2 DEF Covers, Turn, STARTED, BEFORE_DEPARTURE
<1>8. ASSUME NEW t \in Trips PROVE trip[t].status = "cancelled" => trip'[t].status = "cancelled"
  BY <1>2 DEF Turn, BEFORE_DEPARTURE
<1>9. ASSUME NEW t \in Trips PROVE Awaits(trip[t], e) => Awaits(trip'[t], e) \/ trip'[t].status = "cancelled"
  BY <1>1, <1>2, <1>3, <1>4 DEF Awaits, Turn, BEFORE_DEPARTURE
<1>10. ASSUME NEW t \in Trips, Covers(trip'[t], e), ~Covers(trip[t], e) PROVE \A u \in Trips : ~Awaits(trip[u], e)
  <2>1. ~trip[t].van /\ trip'[t].started \in Events /\ trip'[t].started < e
        /\ \A u \in Trips : ~Awaits(trip[u], trip'[t].started)
    BY <1>1, <1>2, <1>3, <1>4, <1>10 DEF Covers, Turn, STARTED, BEFORE_DEPARTURE
  <2> QED BY <1>5, <2>1
<1>11. ASSUME NEW t \in Trips PROVE trip[t].completed < e => trip'[t].completed < e
  BY <1>1, <1>2, <1>3, <1>4 DEF Turn, BEFORE_DEPARTURE
<1> QED BY <1>6, <1>7, <1>8, <1>9, <1>10, <1>11 DEF Undisturbed

\* How the commit of an upload changes a trip: it tells of it, and may end it at
\* its last crossing.
LEMMA CommitTurns ==
    ASSUME TypeInv, NEW s \in Sessions, Commit(s), ~ArrivedMeanwhile(s)
    PROVE  \A t \in Trips :
               /\ trip'[t].van = trip[t].van /\ trip'[t].started = trip[t].started
               /\ \/ trip'[t].status = trip[t].status /\ trip'[t].completed = trip[t].completed
                  \/ /\ trip[t].status = "departed" /\ trip'[t].status = "completed"
                     /\ trip'[t].completed \in Int
                     /\ \A e \in OnTrip(ledger', t) : e <= trip'[t].completed
<1> SUFFICES ASSUME NEW t \in Trips
             PROVE  /\ trip'[t].van = trip[t].van /\ trip'[t].started = trip[t].started
                    /\ \/ trip'[t].status = trip[t].status /\ trip'[t].completed = trip[t].completed
                       \/ /\ trip[t].status = "departed" /\ trip'[t].status = "completed"
                          /\ trip'[t].completed \in Int
                          /\ \A e \in OnTrip(ledger', t) : e <= trip'[t].completed
  OBVIOUS
<1> DEFINE led == [e \in Events |->
                   LET u == session[s].onto[e] IN
                   IF u = None /\ ledger[e].trip \notin Touched(s) THEN ledger[e]
                   ELSE LET v == IF u = None THEN ledger[e].trip ELSE u
                        IN Rechecked(Inserted(s), v, SawGone(s, v))[e]]
           last == CHOOSE e \in OnTrip(led, t) : \A f \in OnTrip(led, t) : f <= e
           told == trip[t].told \/ t \in Reported(s, led)
<1>0. /\ ledger' = led
      /\ trip' = [u \in Trips |->
            IF u \in Ended(s)
            THEN [trip[u] EXCEPT !.status = "completed",
                      !.completed = CHOOSE e \in OnTrip(led, u) : \A f \in OnTrip(led, u) : f <= e,
                      !.told = @ \/ u \in Reported(s, led)]
            ELSE [trip[u] EXCEPT !.told = @ \/ u \in Reported(s, led)]]
  BY DEF Commit
<1> HIDE DEF led
<1>1. trip'[t] = IF t \in Ended(s)
                 THEN [trip[t] EXCEPT !.status = "completed", !.completed = last, !.told = told]
                 ELSE [trip[t] EXCEPT !.told = told]
  BY <1>0
<1>2. trip[t] \in TripType
  BY TripFacts
<1>3. CASE t \notin Ended(s)
  <2> HIDE DEF last, told
  <2> QED BY <1>1, <1>2, <1>3 DEF TripType
<1>4. CASE t \in Ended(s)
  <2>1. trip[t].status = "departed"
    BY <1>4 DEF ArrivedMeanwhile
  <2>2. /\ trip'[t].van = trip[t].van /\ trip'[t].started = trip[t].started
        /\ trip'[t].status = "completed" /\ trip'[t].completed = last
    <3> HIDE DEF last, told
    <3> QED BY <1>1, <1>2, <1>4 DEF TripType
  <2>3. last \in Int /\ \A f \in OnTrip(led, t) : f <= last
    <3> DEFINE on == OnTrip(led, t)
    <3>1. Entering(s, t) # {} /\ t # None
      BY <1>4, EventsAreNumbers DEF Ended, Touched
    <3>2. \A e \in Entering(s, t) : e \in Events /\ led[e].trip = t
      BY <1>0, <3>1, EnteredRows DEF Entering, TypeInv
    <3>3. on # {} /\ on \subseteq Events
      BY <3>1, <3>2 DEF OnTrip
    <3>4. IsFiniteSet(on) /\ on \subseteq Int
      <4>1. 1 \in Int /\ MaxEvents \in Int
        BY EventsAreNumbers
      <4>2. IsFiniteSet(Events)
        BY <4>1, FS_Interval, Zenon DEF Events
      <4> QED BY <3>3, <4>2, FS_Subset, EventsAreNumbers
    <3> HIDE DEF on
    <3>5. \E e \in on : \A f \in on : f <= e
      BY <3>3, <3>4, LeastAndGreatest
    <3> QED BY <3>4, <3>5 DEF on
  <2>4. OnTrip(ledger', t) = OnTrip(led, t)
    BY <1>0
  <2> QED BY <2>1, <2>2, <2>3, <2>4
<1> QED BY <1>3, <1>4

LEMMA CommitUndisturbed ==
    ASSUME TypeInv, Moments, NEW s \in Sessions, Commit(s), ~ArrivedMeanwhile(s), NEW e \in Events
    PROVE  Undisturbed(e)
<1>1. \A t \in Trips :
          /\ trip[t].started \in Int /\ trip[t].completed \in Int
          /\ trip[t].status = "departed" => trip[t].completed = Never
          /\ trip'[t].van = trip[t].van /\ trip'[t].started = trip[t].started
          /\ \/ trip'[t].status = trip[t].status /\ trip'[t].completed = trip[t].completed
             \/ /\ trip[t].status = "departed" /\ trip'[t].status = "completed"
                /\ trip'[t].completed \in Int
  BY CommitTurns, TripFacts DEF Moments
<1>2. e \in Int /\ Never \in Int /\ e < Never
  BY EventsAreNumbers DEF Events, Never
<1>3. ASSUME NEW t \in Trips
      PROVE  Covers(trip[t], e) => Covers(trip'[t], e) \/ EndsBefore(t, e)
  BY <1>1, <1>2 DEF Covers, EndsBefore, STARTED
<1>4. ASSUME NEW t \in Trips
      PROVE  /\ trip[t].status = "cancelled" => trip'[t].status = "cancelled"
             /\ Awaits(trip[t], e) => Awaits(trip'[t], e)
             /\ Covers(trip'[t], e) => Covers(trip[t], e)
             /\ trip[t].completed < e => trip'[t].completed < e
  BY <1>1, <1>2 DEF Covers, Awaits, STARTED
<1> QED BY <1>3, <1>4 DEF Undisturbed

LEMMA MomentsStay == ASSUME TypeInv, Moments, [Next]_vars PROVE Moments'
<1>1. \A t \in Trips : trip[t].status = "scheduled" => trip[t].started = Never
  BY DEF Moments
<1>2. \A t \in Trips : trip[t].status # "completed" => trip[t].completed = Never
  BY DEF Moments
<1>3. CASE Office
  <2>1. \A t \in Trips : Turn(trip[t], trip'[t])
    BY <1>3, OfficeTurns
  <2>2. UNCHANGED session
    BY <1>3 DEF Office
  <2>3. \A t \in Trips : trip[t].status = "completed" => trip'[t].status = "completed"
    BY <2>1 DEF Turn, BEFORE_DEPARTURE
  <2>4. \A t \in Trips : /\ trip'[t].status = "scheduled" => trip'[t].started = Never
                         /\ trip'[t].status # "completed" => trip'[t].completed = Never
    BY <1>1, <1>2, <2>1 DEF Turn, BEFORE_DEPARTURE
  <2> QED BY <2>2, <2>3, <2>4 DEF Moments, Never
<1>4. ASSUME NEW s \in Sessions, NEW x, session' = [session EXCEPT ![s] = x],
             \A t \in Trips : x.saw[t] = "completed" => trip'[t].status = "completed",
             \A t \in Trips : /\ trip[t].status = "completed" => trip'[t].status = "completed"
                              /\ trip'[t].status = "scheduled" => trip'[t].started = Never
                              /\ trip'[t].status # "completed" => trip'[t].completed = Never
      PROVE  Moments'
  BY <1>4 DEF Moments, Never, TypeInv, Typed
<1>5. \A t \in Trips : Idle.saw[t] # "completed"
  BY DEF Idle
<1>6. ASSUME NEW s \in Sessions, session' = [session EXCEPT ![s] = Idle], UNCHANGED trip
      PROVE  Moments'
  BY <1>1, <1>2, <1>4, <1>5, <1>6
<1>7. ASSUME NEW s \in Sessions, Place(s) PROVE Moments'
  <2>1. \E x : /\ session' = [session EXCEPT ![s] = x]
               /\ \A t \in Trips : x.saw[t] = "completed" => trip[t].status = "completed"
    <3> DEFINE new == (outbox.waiting \cap onVan) \ (InLedger \cup held)
               onto == [e \in Events |-> IF e \in new THEN TripFor(trip, e) ELSE None]
               hold == {e \in new : onto[e] = None}
               saw == [t \in Trips |-> IF t \in Range(onto) /\ trip[t].status \in AFTER_DEPARTURE
                                       THEN trip[t].status ELSE "before"]
               x == [Idle EXCEPT !.step = "place", !.onto = onto, !.hold = hold, !.saw = saw]
    <3>1. session' = [session EXCEPT ![s] = x]
      BY <1>7 DEF Place
    <3>2. \A t \in Trips : saw[t] = "completed" => trip[t].status = "completed"
      OBVIOUS
    <3> HIDE DEF saw, onto, hold
    <3>3. x.saw = saw
      BY DEF Idle
    <3> HIDE DEF x
    <3> QED BY <3>1, <3>2, <3>3
  <2>2. UNCHANGED trip
    BY <1>7 DEF Place
  <2> QED BY <1>1, <1>2, <1>4, <2>1, <2>2
<1>8. ASSUME NEW s \in Sessions, Finish(s) \/ Fail(s) PROVE Moments'
  <2>1. session' = [session EXCEPT ![s] = Idle]
    BY <1>8 DEF Finish, Fail, Reply
  <2>2. CASE UNCHANGED trip
    BY <1>6, <2>1, <2>2
  <2>3. CASE Commit(s) /\ ~ArrivedMeanwhile(s)
    <3>1. \A t \in Trips :
              \/ trip'[t].status = trip[t].status /\ trip'[t].completed = trip[t].completed
                 /\ trip'[t].started = trip[t].started
              \/ trip[t].status = "departed" /\ trip'[t].status = "completed"
      BY <2>3, CommitTurns
    <3>2. \A t \in Trips : /\ trip[t].status = "completed" => trip'[t].status = "completed"
                           /\ trip'[t].status = "scheduled" => trip'[t].started = Never
                           /\ trip'[t].status # "completed" => trip'[t].completed = Never
      BY <1>1, <1>2, <3>1
    <3> QED BY <1>4, <1>5, <2>1, <3>2
  <2> QED BY <1>8, <2>2, <2>3 DEF Finish, Fail
<1>9. CASE Desk
  <2>1. UNCHANGED trip
    BY <1>9 DEF Desk
  <2>2. \/ UNCHANGED session
        \/ \E s \in Sessions : \E x : /\ session' = [session EXCEPT ![s] = x]
                                     /\ \A t \in Trips : x.saw[t] # "completed"
    <3>1. ASSUME NEW s \in Sessions, NEW e, ListWalkUp(s, e)
          PROVE  \E x : /\ session' = [session EXCEPT ![s] = x]
                        /\ \A t \in Trips : x.saw[t] # "completed"
      <4> DEFINE x == [Idle EXCEPT !.step = "list", !.event = e, !.booking = seats[ledger[e].trip] + 1]
      <4>1. session' = [session EXCEPT ![s] = x]
        BY <3>1 DEF ListWalkUp
      <4>2. x.saw = Idle.saw
        BY DEF Idle
      <4> HIDE DEF x
      <4> QED BY <1>5, <4>1, <4>2
    <3> QED BY <1>5, <1>9, <3>1 DEF Desk, Explain, MarkListed, MarkPaid
  <2>3. CASE UNCHANGED session
    BY <2>1, <2>3 DEF Moments, Never
  <2> QED BY <1>1, <1>2, <1>4, <2>1, <2>2, <2>3
<1>10. CASE Phone \/ UNCHANGED vars
  BY <1>10 DEF Phone, vars, Moments, Never
<1> QED BY <1>3, <1>7, <1>8, <1>9, <1>10 DEF Next

-----------------------------------------------------------------------------
(***************************************************************************)
(* What a step enters in the ledger, or puts on its way to it, fits.       *)
(***************************************************************************)
\* The trips before a step, or after it, are what TripFor reads.
LEMMA ChosenFits ==
    ASSUME TypeInv, NEW e, TripFor(trip, e) # None
    PROVE  TripFor(trip, e) \in Trips /\ Fits(TripFor(trip, e), e)
<1>1. \A t \in Trips : trip[t].started \in 0..Never
  BY TripFacts
<1> QED BY <1>1, TripForFits DEF Fits

\* A step that enters nothing but what the office claims, and ends no trip
\* before its crossings.
LEMMA OfficeFits == FitInv /\ Office => Fitting'
<1> SUFFICES ASSUME FitInv, Office PROVE Fitting'
  OBVIOUS
<1>1. TypeInv /\ Moments /\ Fitting /\ TypeInv'
  BY TypesInductive DEF FitInv, Next
<1>2. UNCHANGED <<late, session>>
  BY DEF Office
<1>3. \A e \in InLedger : e \in 1..Now
  BY <1>1 DEF TypeInv, LedgerInv, Known
<1>4. \A s \in Sessions, e \in Events : session[s].onto[e] # None => e \in 1..Now
  BY <1>1 DEF TypeInv, LedgerInv, Known, Brings
<1>5. \A t \in Trips, e \in 1..Now : Fits(t, e) => Fits(t, e)'
  BY <1>1, OfficeUndisturbed, FitsStays
<1>6. \A t \in Trips, e \in 1..Now, s \in Sessions : Overtaken(s, t, e) => Overtaken(s, t, e)'
  BY <1>1, <1>2, OfficeUndisturbed DEF Overtaken, Undisturbed
<1>7. ASSUME NEW e \in InLedger', e \notin late' PROVE Fits(ledger[e].trip, e)'
  <2>1. e \in Events /\ ledger'[e].trip # None
    BY <1>7 DEF InLedger
  <2>2. CASE ledger'[e].trip = ledger[e].trip
    <3>1. e \in InLedger \ late /\ ledger[e].trip \in Trips
      BY <1>1, <1>2, <1>7, <2>1, <2>2 DEF InLedger, TypeInv, LedgerInv, OnTrips
    <3>2. Fits(ledger[e].trip, e) /\ e \in 1..Now
      BY <1>1, <1>3, <2>1, <3>1 DEF Fitting
    <3>3. PICK t \in Trips : t = ledger[e].trip
      BY <3>1
    <3>4. Fits(t, e)'
      BY <1>5, <3>2, <3>3
    <3> QED BY <2>2, <3>3, <3>4
  <2>3. CASE ledger'[e].trip # ledger[e].trip
    <3>1. PICK t \in Trips : Release(t, trip')
      <4>1. Rows(ledger)
        BY <1>1 DEF TypeInv, LedgerInv, IInv, Shape, Rows
      <4> QED BY <2>1, <2>3, <4>1, RecheckStays DEF Office, Assign, Start, DetectedStart, Void, Depart, Arrive
    <3>2. e \in Claimed(t, trip') /\ ledger'[e].trip = t
      BY <2>1, <2>3, <3>1 DEF Release, NoRow
    <3>3. TripFor(trip', e) = t /\ t # None
      BY <3>2, EventsAreNumbers DEF Claimed
    <3>4. \A u \in Trips : trip'[u].started \in 0..Never
      BY <1>1 DEF TypeInv, LedgerInv, Timed
    <3> QED BY <3>2, <3>3, <3>4, TripForFits DEF Fits
  <2> QED BY <2>2, <2>3
<1>8. ASSUME NEW s \in Sessions, NEW e \in Events, session'[s].onto[e] # None
      PROVE  Fits(session[s].onto[e], e)' \/ Overtaken(s, session[s].onto[e], e)'
  <2> DEFINE t == session[s].onto[e]
  <2>1. session' = session /\ t \in Trips /\ e \in 1..Now
    BY <1>1, <1>2, <1>4, <1>8 DEF TypeInv, LedgerInv, OnTrips
  <2>2. Fits(t, e) \/ Overtaken(s, t, e)
    BY <1>1, <1>8, <2>1 DEF Fitting
  <2>3. Fits(t, e)' \/ Overtaken(s, t, e)'
    BY <1>5, <1>6, <2>1, <2>2 DEF Fits, Overtaken
  <2> QED BY <2>3
<1> QED BY <1>7, <1>8 DEF Fitting

\* The desk moves no crossing.
LEMMA DeskFits == FitInv /\ Desk => Fitting'
<1> SUFFICES ASSUME FitInv, Desk PROVE Fitting'
  OBVIOUS
<1>1. Fitting /\ Rows(ledger) /\ UNCHANGED <<trip, late>> /\ DOMAIN session = Sessions
  BY DEF FitInv, TypeInv, LedgerInv, IInv, Shape, Rows, Desk
<1>2. \A e \in Events : ledger'[e].trip = ledger[e].trip
  <2>1. ASSUME NEW e \in Events, NEW t, NEW led, led = Rechecked(ledger, t, Never),
               \/ ledger' = led
               \/ ledger' = [led EXCEPT ![e].resolution = "explained"]
        PROVE  \A f \in Events : ledger'[f].trip = ledger[f].trip
    <3>1. Rows(led) /\ \A f \in Events : led[f].trip = ledger[f].trip
      BY <1>1, <2>1, RecheckStays
    <3> QED BY <2>1, <3>1 DEF Rows, Fields
  <2>2. ASSUME NEW s \in Sessions, MarkListed(s)
        PROVE  \A f \in Events : ledger'[f].trip = ledger[f].trip
    BY <1>1, <2>2 DEF MarkListed, Rows, Fields
  <2>3. ASSUME NEW e \in Events, Explain(e) \/ \E s \in Sessions : ListWalkUp(s, e)
        PROVE  \A f \in Events : ledger'[f].trip = ledger[f].trip
    BY <2>1, <2>3 DEF Explain, ListWalkUp
  <2> QED BY <2>2, <2>3 DEF Desk, MarkPaid
<1>3. \A q \in Sessions : \/ session'[q] = session[q]
                          \/ \A e \in Events : session'[q].onto[e] = None
  <2>1. \A e \in Events : Idle.onto[e] = None
    BY DEF Idle
  <2>2. ASSUME NEW s \in Sessions, NEW e, ListWalkUp(s, e)
        PROVE  \A q \in Sessions : \/ session'[q] = session[q]
                                   \/ \A f \in Events : session'[q].onto[f] = None
    <3> DEFINE x == [Idle EXCEPT !.step = "list", !.event = e, !.booking = seats[ledger[e].trip] + 1]
    <3>1. session' = [session EXCEPT ![s] = x]
      BY <2>2 DEF ListWalkUp
    <3>2. x.onto = Idle.onto
      BY DEF Idle
    <3> HIDE DEF x
    <3> QED BY <1>1, <2>1, <3>1, <3>2
  <2> QED BY <1>1, <2>1, <2>2 DEF Desk, Explain, MarkListed, MarkPaid
<1>4. UNCHANGED Never
  BY DEF Never
<1>5. InLedger' = InLedger
  BY <1>2 DEF InLedger
<1> QED BY <1>1, <1>2, <1>3, <1>4, <1>5 DEF Fitting, Fits, Overtaken, InLedger

\* The upload puts its crossings on trips by their times.
LEMMA PlaceFits == ASSUME FitInv, NEW s \in Sessions, Place(s) PROVE Fitting'
<1> DEFINE new == (outbox.waiting \cap onVan) \ (InLedger \cup held)
           onto == [e \in Events |-> IF e \in new THEN TripFor(trip, e) ELSE None]
<1>1. Fitting /\ TypeInv /\ UNCHANGED <<trip, ledger, late>> /\ DOMAIN session = Sessions
  BY DEF FitInv, TypeInv, LedgerInv, IInv, Shape, Place
<1>2. \E hold, saw : session' = [session EXCEPT ![s] = [Idle EXCEPT !.step = "place", !.onto = onto,
                                                            !.hold = hold, !.saw = saw]]
  BY DEF Place
<1>3. \A e \in Events : onto[e] # None => Fits(onto[e], e)
  BY <1>1, ChosenFits
<1> HIDE DEF new, onto
<1>4. \A q \in Sessions : session'[q] = session[q] \/ session'[q].onto = onto
  BY <1>1, <1>2 DEF Idle
<1>5. \A t, e : Fits(t, e)' = Fits(t, e)
  BY <1>1 DEF Fits, Covers, Awaits
<1> QED BY <1>1, <1>3, <1>4 DEF Fitting, Fits, Overtaken, InLedger

\* The commit enters the crossings of its upload, and may end a trip: at a
\* crossing no earlier than those of its ledger.
LEMMA CommitFits ==
    ASSUME FitInv, NEW s \in Sessions, Commit(s), ~ArrivedMeanwhile(s),
           session' = [session EXCEPT ![s] = Idle]
    PROVE  Fitting'
<1>1. TypeInv /\ Moments /\ Fitting /\ DOMAIN session = Sessions
  BY DEF FitInv, TypeInv, LedgerInv, IInv, Shape
<1>2. \A t \in Trips, e \in Events : Fits(t, e) => Fits(t, e)' \/ EndsBefore(t, e)
  BY <1>1, CommitUndisturbed, FitsStays
<1>3. \A e \in Events : ledger'[e].trip = IF session[s].onto[e] = None THEN ledger[e].trip
                                          ELSE session[s].onto[e]
  BY <1>1, EnteredRows DEF TypeInv
<1>4. \A t \in Trips, e \in Events : ledger'[e].trip = t => ~EndsBefore(t, e)
  <2> SUFFICES ASSUME NEW t \in Trips, NEW e \in Events, ledger'[e].trip = t PROVE ~EndsBefore(t, e)
    OBVIOUS
  <2>1. e \in OnTrip(ledger', t) /\ e \in Int /\ e < Never /\ Never \in Int
    BY EventsAreNumbers DEF OnTrip, Events, Never
  <2>2. \/ trip'[t].status = trip[t].status /\ trip'[t].completed = trip[t].completed
        \/ trip'[t].completed \in Int /\ e <= trip'[t].completed
    BY <1>1, <2>1, CommitTurns
  <2>3. trip[t].status = "departed" => trip[t].completed = Never
    BY <1>1 DEF Moments
  <2> QED BY <2>1, <2>2, <2>3 DEF EndsBefore
<1>5. ASSUME NEW e \in InLedger', e \notin late' PROVE Fits(ledger[e].trip, e)'
  <2>1. PICK t \in Trips : t = ledger'[e].trip
    BY <1>1, <1>3, <1>5 DEF InLedger, TypeInv, LedgerInv, OnTrips
  <2>2. e \in Events
    BY <1>5 DEF InLedger
  <2>3. Fits(t, e)
    <3>1. CASE session[s].onto[e] = None
      <4>1. ledger[e].trip = t /\ t # None /\ e \notin late
        BY <1>3, <1>5, <2>1, <2>2, <3>1, EventsAreNumbers DEF Commit
      <4> QED BY <1>1, <2>2, <4>1 DEF Fitting, InLedger
    <3>2. CASE session[s].onto[e] # None
      <4>1. session[s].onto[e] = t
        BY <1>3, <2>1, <2>2, <3>2
      <4>2. e \in Entering(s, t) /\ t \in Touched(s)
        BY <2>2, <4>1 DEF Entering, Touched
      <4>3. ~Overtaken(s, t, e)
        BY <1>5, <2>2, <4>2 DEF Commit
      <4> QED BY <1>1, <2>2, <3>2, <4>1, <4>3 DEF Fitting
    <3> QED BY <3>1, <3>2
  <2>4. Fits(t, e)'
    BY <1>2, <1>4, <2>1, <2>2, <2>3
  <2> QED BY <2>1, <2>4
<1>6. ASSUME NEW q \in Sessions, NEW e \in Events, session'[q].onto[e] # None
      PROVE  Fits(session[q].onto[e], e)' \/ Overtaken(q, session[q].onto[e], e)'
  <2>1. session'[q] = session[q]
    <3>1. Idle.onto[e] = None
      BY DEF Idle
    <3> QED BY <1>1, <1>6, <3>1
  <2>2. PICK t \in Trips : t = session[q].onto[e]
    BY <1>1, <1>6, <2>1 DEF TypeInv, LedgerInv, OnTrips
  <2>3. Fits(t, e) \/ Overtaken(q, t, e)
    BY <1>1, <1>6, <2>1, <2>2 DEF Fitting
  <2>4. Fits(t, e)' \/ Overtaken(q, t, e)'
    <3>1. EndsBefore(t, e) => Overtaken(q, t, e)'
      BY <1>1, <2>1 DEF EndsBefore, Overtaken, Moments
    <3>2. Overtaken(q, t, e) => Overtaken(q, t, e)'
      BY <1>1, <2>1, CommitUndisturbed DEF Overtaken, Undisturbed
    <3> QED BY <1>2, <2>3, <3>1, <3>2
  <2> QED BY <2>1, <2>2, <2>4
<1> QED BY <1>5, <1>6 DEF Fitting

LEMMA RefusedFits ==
    ASSUME FitInv, UNCHANGED <<trip, ledger, late>>,
           \/ UNCHANGED session
           \/ \E s \in Sessions : session' = [session EXCEPT ![s] = Idle]
    PROVE  Fitting'
<1>1. Fitting /\ DOMAIN session = Sessions
  BY DEF FitInv, TypeInv, LedgerInv, IInv, Shape
<1>2. \A q \in Sessions : \/ session'[q] = session[q]
                          \/ \A e \in Events : session'[q].onto[e] = None
  BY <1>1 DEF Idle
<1> QED BY <1>1, <1>2 DEF Fitting, Fits, Overtaken, InLedger

\* Whatever the order of crossings, uploads, assignments, starts and ends.
THEOREM FitInductive == FitInv /\ [Next]_vars => FitInv'
<1> SUFFICES ASSUME FitInv, [Next]_vars PROVE FitInv'
  OBVIOUS
<1>1. TypeInv' /\ Moments'
  BY TypesInductive, MomentsStay DEF FitInv
<1>2. ASSUME Phone \/ UNCHANGED vars PROVE Fitting'
  BY <1>2, RefusedFits DEF Phone, vars
<1>3. ASSUME NEW s \in Sessions, Finish(s) \/ Fail(s) PROVE Fitting'
  <2>1. session' = [session EXCEPT ![s] = Idle]
    BY <1>3 DEF Finish, Fail, Reply
  <2>2. UNCHANGED <<trip, ledger, late>> \/ (Commit(s) /\ ~ArrivedMeanwhile(s))
    BY <1>3 DEF Finish, Fail
  <2> QED BY <2>1, <2>2, CommitFits, RefusedFits
<1>4. Fitting'
  BY <1>2, <1>3, OfficeFits, DeskFits, PlaceFits DEF Next
<1> QED BY <1>1, <1>4 DEF FitInv

\* A crossing in the ledger is on the trip the van ran at that moment, if it ran
\* one, whichever trip is open when the upload arrives; unless its own trip was
\* voided since, or another upload ended it, at an earlier crossing, while this
\* one was on its way.
THEOREM RanThatTrip == Spec => []OnTheTripItRan
<1>1. FitInv => OnTheTripItRan
  <2> SUFFICES ASSUME FitInv, NEW e \in InLedger \ late, NEW t \in Trips, Covers(trip[t], e)
               PROVE  LET u == trip[ledger[e].trip] IN Covers(u, e) \/ u.status = "cancelled"
    BY DEF OnTheTripItRan
  <2>1. Fits(ledger[e].trip, e)
    BY DEF FitInv, Fitting
  <2> QED BY <2>1 DEF Fits
<1> QED BY <1>1, FitsInitially, FitInductive, PTL DEF Spec
=============================================================================
