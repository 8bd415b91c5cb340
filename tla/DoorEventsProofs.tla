--------------------------- MODULE DoorEventsProofs ---------------------------
(***************************************************************************)
(* Proofs about DoorEvents, for any trips, crossings and sessions.         *)
(*                                                                         *)
(* What the phone counted is not lost between its outbox and the ledger,   *)
(* through uploads under way twice, refusals, failures and time-outs.  And *)
(* the ledger keeps the promise of DoorLog: an upload or an assignment     *)
(* enters crossings that no trip has, each in one trip's chain, at its end *)
(* and in the order of their times; whatever else happens adds none.       *)
(***************************************************************************)
EXTENDS DoorEvents, FiniteSetTheorems, TLAPS

Fields == {"trip", "booking", "resolution"}

Shape ==
    /\ door \in Seq({"board", "alight"}) /\ Len(door) <= MaxEvents
    /\ onVan \subseteq Events /\ held \subseteq Events
    /\ outbox \in [{"waiting", "sent", "aside"} -> SUBSET Events]
    /\ asks \in Sessions \cup {Nobody}
    /\ DOMAIN ledger = Events
    /\ \A e \in Events : DOMAIN ledger[e] = Fields
    /\ DOMAIN session = Sessions
    /\ \A s \in Sessions : /\ session[s].hold \subseteq Events
                           /\ DOMAIN session[s].onto = Events

\* What the phone sent was counted before.
Counted == outbox.waiting \cup outbox.sent \subseteq 1..Now

\* What a session will put with the server when it commits.
Brings(s) == session[s].hold \cup {e \in Events : session[s].onto[e] # None}

\* Of the rows whose answer the phone waits for, the server has those counted
\* in a van, or the session at work brings them.
Answered ==
    /\ asks = Nobody => outbox.sent = {}
    /\ asks # Nobody => /\ session[asks].step = "place"
                        /\ outbox.sent \cap onVan \subseteq InLedger \cup held \cup Brings(asks)

IInv == Shape /\ Counted /\ Answered /\ NothingVanishes

-----------------------------------------------------------------------------
USE DoorAssumption DEF None

LEMMA EventsAreNumbers == Events \subseteq Int /\ MaxEvents \in Nat /\ 0 \notin Trips
  BY DEF Events, Trips

\* Before the first crossing the phone and the server have nothing.
THEOREM Initially == Init => IInv
<1> SUFFICES ASSUME Init PROVE IInv
  OBVIOUS
<1>1. Shape
  BY DEF Init, Shape, NoRow, Fields, Idle
<1>2. Now = 0
  BY DEF Init, Now
<1>3. Counted /\ Answered /\ NothingVanishes
  BY <1>2 DEF Init, Counted, Answered, NothingVanishes
<1> QED BY <1>1, <1>3 DEF IInv

-----------------------------------------------------------------------------
(***************************************************************************)
(* A step that leaves the phone alone keeps the invariant if the server    *)
(* keeps what it has and no upload is touched.                             *)
(***************************************************************************)
Rows(led) == DOMAIN led = Events /\ \A e \in Events : DOMAIN led[e] = Fields

Has(led, h) == {e \in Events : led[e].trip # None} \cup h

LEMMA QuietStep ==
    ASSUME IInv, UNCHANGED <<door, onVan, outbox, asks>>,
           held' \subseteq Events, Rows(ledger'),
           Has(ledger, held) \subseteq Has(ledger', held'),
           \/ UNCHANGED session
           \/ \E s \in Sessions : \E x :
                 /\ session' = [session EXCEPT ![s] = x]
                 /\ session[s].step # "place"
                 /\ x.hold \subseteq Events /\ DOMAIN x.onto = Events
    PROVE  IInv'
<1>1. Shape'
  BY DEF IInv, Shape, Rows
<1>2. Counted'
  BY DEF IInv, Counted, Now
<1>3. Answered'
  <2>1. asks # Nobody => session'[asks] = session[asks]
    BY DEF IInv, Shape, Answered
  <2>2. InLedger \cup held \subseteq (InLedger \cup held)'
    BY DEF Has, InLedger
  <2>3. asks # Nobody => Brings(asks)' = Brings(asks)
    BY <2>1 DEF Brings
  <2> QED BY <2>1, <2>2, <2>3 DEF IInv, Answered
<1>4. NothingVanishes'
  BY DEF IInv, NothingVanishes, Has, InLedger, Now
<1> QED BY <1>1, <1>2, <1>3, <1>4 DEF IInv

\* The recheck of a trip moves no event to another.
LEMMA RecheckStays ==
    ASSUME NEW led, Rows(led), NEW t, NEW gone
    PROVE  /\ Rows(Rechecked(led, t, gone))
           /\ \A e \in Events : Rechecked(led, t, gone)[e].trip = led[e].trip
<1> DEFINE new == Rechecked(led, t, gone)
<1>1. DOMAIN new = Events
  BY DEF Rechecked
<1>2. ASSUME NEW e \in Events
      PROVE  DOMAIN new[e] = Fields /\ new[e].trip = led[e].trip
  <2>1. \/ new[e] = led[e]
        \/ e \in OnTrip(led, t) /\ new[e] = [NoRow EXCEPT !.trip = t]
        \/ e \in OnTrip(led, t) /\ \E b : new[e] = [NoRow EXCEPT !.trip = t, !.booking = b]
        \/ e \in OnTrip(led, t) /\ new[e] = [NoRow EXCEPT !.trip = t, !.resolution = "pending"]
    BY DEF Rechecked
  <2> HIDE DEF new
  <2> QED BY <2>1 DEF Rows, OnTrip, NoRow, Fields
<1> QED BY <1>1, <1>2 DEF Rows

\* What a trip claims of the held events is in the ledger then.
LEMMA Released ==
    ASSUME IInv, NEW t \in Trips, NEW tr, Release(t, tr)
    PROVE  /\ held' \subseteq Events /\ Rows(ledger')
           /\ Has(ledger, held) \subseteq Has(ledger', held')
<1>1. Claimed(t, tr) \subseteq held /\ held \subseteq Events /\ t # None
  BY EventsAreNumbers DEF Claimed, IInv, Shape
<1>2. [NoRow EXCEPT !.trip = t].trip = t /\ DOMAIN [NoRow EXCEPT !.trip = t] = Fields
  BY DEF NoRow, Fields
<1>3. \A e \in Events : \/ e \in Claimed(t, tr) /\ ledger'[e] = [NoRow EXCEPT !.trip = t]
                        \/ e \notin Claimed(t, tr) /\ ledger'[e] = ledger[e]
  BY DEF Release
<1>4. Rows(ledger')
  BY <1>2, <1>3 DEF Release, Rows, IInv, Shape
<1> QED BY <1>1, <1>2, <1>3, <1>4 DEF Release, Has

LEMMA OfficeKeeps == IInv /\ Office => IInv'
<1> SUFFICES ASSUME IInv, Office PROVE IInv'
  OBVIOUS
<1> USE DEF Office
<1>1. \/ \E t \in Trips : Release(t, trip')
      \/ UNCHANGED <<held, ledger>>
      \/ \E t \in Trips, gone \in {trip[u].departed : u \in Trips} :
            ledger' = Rechecked(ledger, t, gone) /\ UNCHANGED held
  BY DEF Assign, Start, DetectedStart, Void, Arrive, Depart
<1>2. Rows(ledger) /\ held \subseteq Events
  BY DEF IInv, Shape, Rows
<1>3. held' \subseteq Events /\ Rows(ledger') /\ Has(ledger, held) \subseteq Has(ledger', held')
  <2>1. CASE \E t \in Trips : Release(t, trip')
    BY <2>1, Released
  <2>2. CASE UNCHANGED <<held, ledger>>
    BY <1>2, <2>2
  <2>3. ASSUME NEW t \in Trips, NEW gone, ledger' = Rechecked(ledger, t, gone), UNCHANGED held
        PROVE  Rows(ledger') /\ Has(ledger, held) \subseteq Has(ledger', held')
    BY <1>2, <2>3, RecheckStays DEF Has
  <2> QED BY <1>1, <1>2, <2>1, <2>2, <2>3
<1> QED BY <1>3, QuietStep

LEMMA DeskKeeps == IInv /\ Desk => IInv'
<1> SUFFICES ASSUME IInv, Desk PROVE IInv'
  OBVIOUS
<1>1. Rows(ledger) /\ held \subseteq Events /\ DOMAIN session = Sessions
  BY DEF IInv, Shape, Rows
<1>2. \A t, gone : /\ Rows(Rechecked(ledger, t, gone))
                   /\ Has(ledger, held) \subseteq Has(Rechecked(ledger, t, gone), held)
  BY <1>1, RecheckStays DEF Has
<1>3. ASSUME NEW e \in Events, Explain(e) PROVE IInv'
  <2> DEFINE led == Rechecked(ledger, ledger[e].trip, Never)
  <2>1. Rows(led) /\ Has(ledger, held) \subseteq Has(led, held)
    BY <1>2
  <2>2. ledger' = [led EXCEPT ![e].resolution = "explained"] /\ UNCHANGED session
    BY <1>3 DEF Explain
  <2> HIDE DEF led
  <2>3. Rows(ledger') /\ Has(led, held) \subseteq Has(ledger', held)
    BY <2>1, <2>2 DEF Rows, Has, Fields
  <2> QED BY <1>1, <2>1, <2>2, <2>3, QuietStep DEF Desk
<1>4. ASSUME NEW e \in Events, NEW s \in Sessions, ListWalkUp(s, e) PROVE IInv'
  <2> DEFINE x == [Idle EXCEPT !.step = "list", !.event = e, !.booking = seats[ledger[e].trip] + 1]
  <2>1. x.hold = {} /\ x.onto = [f \in Events |-> None]
    BY DEF Idle
  <2>2. session' = [session EXCEPT ![s] = x] /\ session[s].step = "idle"
    BY <1>4 DEF ListWalkUp
  <2>3. ledger' = Rechecked(ledger, ledger[e].trip, Never)
    BY <1>4 DEF ListWalkUp
  <2> HIDE DEF x
  <2> QED BY <1>1, <1>2, <2>1, <2>2, <2>3, QuietStep DEF Desk
<1>5. ASSUME NEW s \in Sessions, MarkListed(s) PROVE IInv'
  <2>1. Idle.hold = {} /\ Idle.onto = [f \in Events |-> None]
    BY DEF Idle
  <2>2. session' = [session EXCEPT ![s] = Idle] /\ session[s].step = "list"
    BY <1>5 DEF MarkListed
  <2>3. Rows(ledger') /\ Has(ledger, held) \subseteq Has(ledger', held)
    BY <1>1, <1>5 DEF MarkListed, Rows, Has, Fields
  <2> QED BY <1>1, <2>1, <2>2, <2>3, QuietStep DEF Desk
<1>6. ASSUME NEW t \in Trips, MarkPaid(t) PROVE IInv'
  BY <1>1, <1>6, QuietStep DEF Desk, MarkPaid
<1> QED BY <1>3, <1>4, <1>5, <1>6 DEF Desk

-----------------------------------------------------------------------------
(***************************************************************************)
(* The phone and its uploads.                                              *)
(***************************************************************************)
LEMMA PhoneKeeps == IInv /\ Phone => IInv'
<1> SUFFICES ASSUME IInv, Phone PROVE IInv'
  OBVIOUS
<1> USE EventsAreNumbers DEF Phone
<1>1. UNCHANGED <<InLedger, held>> /\ \A s \in Sessions : UNCHANGED Brings(s)
  BY DEF InLedger, Brings
<1>2. CASE GiveUp
  BY <1>1, <1>2 DEF GiveUp, IInv, Shape, Counted, Answered, NothingVanishes, Now
<1>3. ASSUME NEW kind \in {"board", "alight"}, NEW out \in BOOLEAN, Cross(kind, out)
      PROVE  IInv'
  <2>1. Now \in Nat /\ Now + 1 \in Events /\ Now' = Now + 1
    BY <1>3 DEF Cross, Now, IInv, Shape, Events
  <2>2. Shape'
    <3>1. door' \in Seq({"board", "alight"}) /\ Len(door') <= MaxEvents
      BY <1>3, <2>1 DEF Cross, IInv, Shape, Now, Events
    <3>2. outbox' \in [{"waiting", "sent", "aside"} -> SUBSET Events]
      BY <1>3, <2>1 DEF Cross, IInv, Shape
    <3> QED BY <1>3, <2>1, <3>1, <3>2 DEF Cross, IInv, Shape
  <2>3. Counted'
    <3>1. outbox'.waiting = outbox.waiting \cup {Now + 1} /\ outbox'.sent = outbox.sent
      BY <1>3 DEF Cross, IInv, Shape
    <3>2. 1..Now \subseteq 1..(Now + 1) /\ Now + 1 \in 1..(Now + 1)
      BY <2>1
    <3> QED BY <2>1, <3>1, <3>2 DEF IInv, Counted
  <2>4. Answered'
    <3>1. outbox'.sent = outbox.sent /\ UNCHANGED <<asks, session>>
      BY <1>3 DEF Cross, IInv, Shape
    <3>2. outbox.sent \cap onVan' = outbox.sent \cap onVan
      BY <1>3, <2>1 DEF Cross, IInv, Counted
    <3> QED BY <1>1, <3>1, <3>2 DEF IInv, Answered, Shape
  <2>5. NothingVanishes'
    BY <1>1, <1>3, <2>1 DEF Cross, IInv, Shape, NothingVanishes
  <2> QED BY <2>2, <2>3, <2>4, <2>5 DEF IInv
<1> QED BY <1>2, <1>3

LEMMA PlaceKeeps == ASSUME IInv, NEW s \in Sessions, Place(s) PROVE IInv'
<1> DEFINE new == (outbox.waiting \cap onVan) \ (InLedger \cup held)
           onto == [e \in Events |-> IF e \in new THEN TripFor(trip, e) ELSE None]
           hold == {e \in new : onto[e] = None}
<1>1. /\ asks = Nobody /\ asks' = s
      /\ outbox' = [outbox EXCEPT !.sent = outbox.waiting]
      /\ UNCHANGED <<door, onVan, held, ledger>>
  BY DEF Place
<1>2. \E saw : session' = [session EXCEPT ![s] = [Idle EXCEPT !.step = "place", !.onto = onto,
                                                           !.hold = hold, !.saw = saw]]
  BY DEF Place
<1>3. /\ DOMAIN session' = Sessions
      /\ session'[s].step = "place" /\ session'[s].onto = onto /\ session'[s].hold = hold
      /\ \A q \in Sessions : q # s => session'[q] = session[q]
  <2> HIDE DEF new, onto, hold
  <2> QED BY <1>2 DEF IInv, Shape, Idle
<1>4. hold \subseteq Events /\ DOMAIN onto = Events /\ new \subseteq hold \cup {e \in Events : onto[e] # None}
  BY DEF IInv, Shape
<1> HIDE DEF onto, hold
<1>5. UNCHANGED <<InLedger, Now>>
  BY <1>1 DEF InLedger, Now
<1>6. Shape'
  BY <1>1, <1>3, <1>4 DEF IInv, Shape
<1>7. Counted'
  BY <1>1, <1>5 DEF IInv, Shape, Counted
<1>8. Answered'
  <2>1. outbox'.sent = outbox.waiting
    BY <1>1 DEF IInv, Shape
  <2>2. new \subseteq Brings(s)'
    BY <1>3, <1>4 DEF Brings
  <2> QED BY <1>1, <1>3, <1>5, <2>1, <2>2 DEF Answered
<1>9. NothingVanishes'
  BY <1>1, <1>5 DEF IInv, Shape, NothingVanishes
<1> QED BY <1>6, <1>7, <1>8, <1>9 DEF IInv

\* An upload that was answered takes off the phone what the server has, what
\* it refused, or nothing.
LEMMA ReplyKeeps ==
    ASSUME IInv, NEW s \in Sessions, NEW code, Reply(s, code),
           held' \subseteq Events, Rows(ledger'),
           Has(ledger, held) \subseteq Has(ledger', held'),
           code = "2xx" => Brings(s) \subseteq Has(ledger', held')
    PROVE  IInv'
<1>1. /\ UNCHANGED <<door, onVan, Now>>
      /\ asks' = IF asks = s THEN Nobody ELSE asks
      /\ session' = [session EXCEPT ![s] = Idle]
  BY DEF Reply, Now
<1>2. Idle.hold = {} /\ DOMAIN Idle.onto = Events
  BY DEF Idle
<1>3. \/ asks # s /\ UNCHANGED outbox
      \/ /\ asks = s /\ outbox' \in [{"waiting", "sent", "aside"} -> SUBSET Events]
         /\ outbox'.sent = {}
         /\ \/ outbox'.waiting = outbox.waiting /\ outbox'.aside = outbox.aside
            \/ /\ outbox'.waiting = outbox.waiting \ outbox.sent
               /\ \/ outbox'.aside = outbox.aside \cup outbox.sent
                  \/ outbox'.aside = outbox.aside /\ code = "2xx"
  BY DEF Reply, IInv, Shape
<1>4. Shape'
  BY <1>1, <1>2, <1>3 DEF IInv, Shape, Rows
<1>5. Counted'
  BY <1>1, <1>3 DEF IInv, Counted
<1>6. Has(ledger, held) = InLedger \cup held /\ Has(ledger', held') = (InLedger \cup held)'
  BY DEF Has, InLedger
<1>7. Answered'
  <2>1. CASE asks = s
    BY <1>1, <1>3, <2>1 DEF Answered
  <2>2. CASE asks # s
    <3>1. UNCHANGED <<asks, outbox>> /\ (asks # Nobody => session'[asks] = session[asks])
      BY <1>1, <1>3, <2>2 DEF IInv, Shape
    <3>2. asks # Nobody => Brings(asks)' = Brings(asks)
      BY <3>1 DEF Brings
    <3> QED BY <1>1, <1>6, <3>1, <3>2 DEF IInv, Answered
  <2> QED BY <2>1, <2>2
<1>8. NothingVanishes'
  <2> SUFFICES ASSUME NEW e \in 1..Now
               PROVE  e \in outbox'.waiting \cup outbox'.aside \cup (InLedger \cup held)'
                             \cup (Events \ onVan)
    BY <1>1 DEF NothingVanishes
  <2>1. e \in outbox.waiting \cup outbox.aside \cup (InLedger \cup held) \cup (Events \ onVan)
    BY DEF IInv, NothingVanishes
  <2>2. CASE e \in outbox.waiting /\ e \notin outbox'.waiting
    <3>1. asks = s /\ e \in outbox.sent /\ e \in Events
      BY <1>3, <2>2 DEF IInv, Shape
    <3>2. e \in onVan => e \in InLedger \cup held \cup Brings(s)
      BY <3>1 DEF IInv, Answered
    <3> QED BY <1>3, <1>6, <2>2, <3>1, <3>2
  <2> QED BY <1>3, <1>6, <2>1, <2>2
<1> QED BY <1>4, <1>5, <1>7, <1>8 DEF IInv

\* The commit of an upload puts all it brings with the server.
LEMMA Committed ==
    ASSUME IInv, NEW s \in Sessions, Commit(s)
    PROVE  /\ held' \subseteq Events /\ Rows(ledger')
           /\ Has(ledger, held) \subseteq Has(ledger', held')
           /\ Brings(s) \subseteq Has(ledger', held')
<1>1. Rows(ledger) /\ held \subseteq Events /\ session[s].hold \subseteq Events
  BY DEF IInv, Shape, Rows
<1>2. /\ Rows(Inserted(s))
      /\ \A e \in Events : ledger[e].trip # None \/ session[s].onto[e] # None
                           => Inserted(s)[e].trip # None
  <2>1. \A t : [NoRow EXCEPT !.trip = t].trip = t /\ DOMAIN [NoRow EXCEPT !.trip = t] = Fields
    BY DEF NoRow, Fields
  <2>2. \A e \in Events : Inserted(s)[e] = IF session[s].onto[e] = None THEN ledger[e]
                                        ELSE [NoRow EXCEPT !.trip = session[s].onto[e]]
    BY DEF Inserted
  <2>3. DOMAIN Inserted(s) = Events
    BY DEF Inserted
  <2> QED BY <1>1, <2>1, <2>2, <2>3 DEF Rows
<1>3. \A e \in Events :
         \/ ledger'[e] = ledger[e] /\ session[s].onto[e] = None
         \/ \E t, gone : ledger'[e] = Rechecked(Inserted(s), t, gone)[e]
  BY DEF Commit
<1>4. \A e \in Events :
         /\ DOMAIN ledger'[e] = Fields
         /\ ledger[e].trip # None \/ session[s].onto[e] # None => ledger'[e].trip # None
  BY <1>1, <1>2, <1>3, RecheckStays DEF Rows
<1>5. DOMAIN ledger' = Events /\ held' = held \cup session[s].hold
  BY DEF Commit
<1> QED BY <1>1, <1>4, <1>5 DEF Rows, Has, Brings

LEMMA UploadKeeps ==
    ASSUME IInv, NEW s \in Sessions, Finish(s) \/ Fail(s)
    PROVE  IInv'
<1>1. Rows(ledger) /\ held \subseteq Events
  BY DEF IInv, Shape, Rows
<1>2. ASSUME NEW code, code # "2xx", Reply(s, code), UNCHANGED <<held, ledger>>
      PROVE  IInv'
  BY <1>1, <1>2, ReplyKeeps
<1>3. CASE Reply(s, "2xx") /\ Commit(s)
  BY <1>3, Committed, ReplyKeeps
<1> QED BY <1>2, <1>3 DEF Finish, Fail

LEMMA Unchanged == IInv /\ UNCHANGED vars => IInv'
<1> SUFFICES ASSUME IInv, UNCHANGED vars PROVE IInv'
  OBVIOUS
<1>1. Rows(ledger) /\ held \subseteq Events
  BY DEF IInv, Shape, Rows
<1> QED BY <1>1, QuietStep DEF vars, Rows, Has

\* No step of the phone, of an upload or of the office breaks the invariant.
THEOREM Inductive == IInv /\ [Next]_vars => IInv'
BY OfficeKeeps, DeskKeeps, PhoneKeeps, PlaceKeeps, UploadKeeps, Unchanged DEF Next

\* What the phone sent is with the server or with the upload at work, always.
THEOREM IInvHolds == Spec => []IInv
BY Initially, Inductive, PTL DEF Spec

\* Every crossing counted in a van waits in the phone, was set aside there, or
\* is with the server, whatever uploads time out, fail, or are sent twice.
THEOREM CrossingsKept == Spec => []NothingVanishes
<1>1. IInv => NothingVanishes
  BY DEF IInv
<1> QED BY <1>1, IInvHolds, PTL

-----------------------------------------------------------------------------
\* A chain has each event of its trip once.
Chained ==
    /\ DOMAIN chain = Trips
    /\ \A t \in Trips :
          /\ chain[t] \in Seq(Events)
          /\ \A e \in Events : (\E i \in 1..Len(chain[t]) : chain[t][i] = e) <=> ledger[e].trip = t
          /\ \A i, j \in 1..Len(chain[t]) : chain[t][i] = chain[t][j] => i = j

\* The server has, and uploads bring, only what was counted.
Known ==
    /\ InLedger \cup held \subseteq 1..Now
    /\ \A s \in Sessions : Brings(s) \subseteq 1..Now

\* A trip starts at a moment, or has not started.
Timed == DOMAIN trip = Trips /\ \A t \in Trips : "started" \in DOMAIN trip[t]
                                             /\ trip[t].started \in 0..Never

\* Uploads and the ledger put crossings on trips.
OnTrips ==
    /\ \A e \in Events : ledger[e].trip \in Trips \cup {None}
    /\ \A s \in Sessions, e \in Events : session[s].onto[e] \in Trips \cup {None}

LedgerInv == IInv /\ Chained /\ Known /\ Timed /\ OnTrips


-----------------------------------------------------------------------------
(***************************************************************************)
(* Sorted: the events of a batch in the order of their times.              *)
(***************************************************************************)
\* A finite set of numbers has an enumeration in order: each number stands
\* where the count of the smaller ones puts it.
LEMMA Enumerated ==
    ASSUME NEW S, S \subseteq Int, IsFiniteSet(S)
    PROVE  /\ Cardinality(S) \in Nat
           /\ Sorted(S) \in [1..Cardinality(S) -> S]
           /\ \A i, j \in 1..Cardinality(S) : i < j => Sorted(S)[i] < Sorted(S)[j]
           /\ \A e \in S : \E i \in 1..Cardinality(S) : Sorted(S)[i] = e
<1> DEFINE n == Cardinality(S)
           Below(e) == {f \in S : f < e}
           rank == [e \in S |-> Cardinality(Below(e)) + 1]
<1>1. n \in Nat /\ \A T \in SUBSET S : /\ IsFiniteSet(T) /\ Cardinality(T) \in Nat
                                      /\ Cardinality(T) <= n
                                      /\ (Cardinality(T) = n => T = S)
  BY FS_CardinalityType, FS_Subset
<1>2. \A e \in S : Below(e) \in SUBSET S /\ Below(e) # S
  OBVIOUS
<1>3. \A e \in S : rank[e] \in 1..n
  <2> SUFFICES ASSUME NEW e \in S PROVE Cardinality(Below(e)) + 1 \in 1..n
    OBVIOUS
  <2>1. Cardinality(Below(e)) \in Nat /\ Cardinality(Below(e)) <= n /\ Cardinality(Below(e)) # n
    BY <1>1, <1>2
  <2> HIDE DEF Below
  <2> QED BY <1>1, <2>1
<1>4. \A e, f \in S : e < f => rank[e] < rank[f]
  <2> SUFFICES ASSUME NEW e \in S, NEW f \in S, e < f
               PROVE  rank[e] < rank[f]
    OBVIOUS
  <2>1. Below(e) \in SUBSET Below(f) /\ Below(e) # Below(f)
    <3>1. e \in Below(f) /\ e \notin Below(e)
      OBVIOUS
    <3>2. \A x \in S : x < e => x < f
      OBVIOUS
    <3> QED BY <3>1, <3>2
  <2>2. IsFiniteSet(Below(f)) /\ Cardinality(Below(e)) \in Nat /\ Cardinality(Below(f)) \in Nat
    BY <1>1, <1>2
  <2>3. Cardinality(Below(e)) <= Cardinality(Below(f)) /\ Cardinality(Below(e)) # Cardinality(Below(f))
    BY <2>1, <2>2, FS_Subset
  <2>4. rank[e] = Cardinality(Below(e)) + 1 /\ rank[f] = Cardinality(Below(f)) + 1
    OBVIOUS
  <2> HIDE DEF Below, rank
  <2> QED BY <2>2, <2>3, <2>4
<1>5. rank \in [S -> 1..n]
  BY <1>3
<1> HIDE DEF rank
<1>6. rank \in Injection(S, 1..n)
  <2>1. \A e, f \in S : rank[e] = rank[f] => e = f
    <3> SUFFICES ASSUME NEW e \in S, NEW f \in S, rank[e] = rank[f], e # f PROVE FALSE
      OBVIOUS
    <3>1. rank[e] \in Int /\ e \in Int /\ f \in Int
      BY <1>1, <1>5
    <3>2. e < f \/ f < e
      BY <3>1
    <3> QED BY <1>4, <3>1, <3>2
  <2> QED BY <1>5, <2>1 DEF Injection, IsInjective
<1>7. IsFiniteSet(1..n) /\ Cardinality(1..n) = n
  BY <1>1, FS_Interval
<1>8. rank \in Surjection(S, 1..n)
  BY <1>6, <1>7, FS_Injection
<1>9. \A i \in 1..n : \E e \in S : rank[e] = i
  BY <1>8 DEF Surjection
<1> DEFINE q == [i \in 1..n |-> CHOOSE e \in S : rank[e] = i]
<1>10. q \in [1..n -> S] /\ \A i \in 1..n : rank[q[i]] = i
  BY <1>9
<1> HIDE DEF q
<1>11. \A i, j \in 1..n : i < j => q[i] < q[j]
  <2> SUFFICES ASSUME NEW i \in 1..n, NEW j \in 1..n, i < j, ~(q[i] < q[j]) PROVE FALSE
    OBVIOUS
  <2>1. q[i] \in S /\ q[j] \in S /\ q[i] \in Int /\ q[j] \in Int
    BY <1>10
  <2>2. q[j] < q[i] \/ q[j] = q[i]
    BY <2>1
  <2>3. rank[q[i]] = i /\ rank[q[j]] = j
    BY <1>10
  <2> QED BY <1>4, <2>1, <2>2, <2>3
<1>12. /\ Sorted(S) \in [1..n -> S]
       /\ \A i, j \in 1..n : i < j => Sorted(S)[i] < Sorted(S)[j]
  <2>1. \E p \in [1..n -> S] : \A i, j \in DOMAIN p : i < j => p[i] < p[j]
    BY <1>10, <1>11
  <2>2. /\ Sorted(S) \in [1..n -> S]
        /\ \A i, j \in DOMAIN Sorted(S) : i < j => Sorted(S)[i] < Sorted(S)[j]
    BY <2>1 DEF Sorted
  <2> QED BY <2>2
<1>13. \A e \in S : \E i \in 1..n : Sorted(S)[i] = e
  <2> HIDE DEF n
  <2> DEFINE p == Sorted(S)
  <2> HIDE DEF p
  <2>1. p \in [1..n -> S] /\ \A i, j \in 1..n : i < j => p[i] < p[j]
    BY <1>12 DEF p
  <2>2. \A i, j \in 1..n : p[i] = p[j] => i = j
    <3> SUFFICES ASSUME NEW i \in 1..n, NEW j \in 1..n, p[i] = p[j], i # j PROVE FALSE
      OBVIOUS
    <3>1. p[i] \in S /\ p[j] \in S
      BY <2>1
    <3>2. n \in Nat
      BY <1>1
    <3>3. i < j \/ j < i
      BY <3>2
    <3>4. p[i] \in Int /\ p[j] \in Int
      BY <3>1
    <3>5. p[i] < p[j] \/ p[j] < p[i]
      BY <2>1, <3>3
    <3> QED BY <3>4, <3>5
  <2>3. p \in Injection(1..n, S)
    BY <2>1, <2>2 DEF Injection, IsInjective
  <2>4. p \in Surjection(1..n, S)
    BY <1>7, <2>3, FS_Injection DEF n
  <2> QED BY <2>4 DEF Surjection, p
<1> QED BY <1>1, <1>12, <1>13

\* Some number of a finite set is the least, and some is the greatest.
LEMMA LeastAndGreatest ==
    ASSUME NEW S, S \subseteq Int, IsFiniteSet(S), S # {}
    PROVE  /\ \E x \in S : \A y \in S : x <= y
           /\ \E x \in S : \A y \in S : y <= x
<1> DEFINE n == Cardinality(S)
           p == Sorted(S)
<1> HIDE DEF n, p
<1>1. /\ n \in Nat /\ p \in [1..n -> S]
      /\ \A i, j \in 1..n : i < j => p[i] < p[j]
      /\ \A e \in S : \E i \in 1..n : p[i] = e
  BY Enumerated DEF n, p
<1>2. 1 \in 1..n /\ n \in 1..n
  <2>1. PICK e \in S : TRUE
    OBVIOUS
  <2>2. PICK i \in 1..n : p[i] = e
    BY <1>1
  <2> QED BY <1>1, <2>2
<1>3. \A i \in 1..n : p[1] <= p[i] /\ p[i] <= p[n]
  <2> SUFFICES ASSUME NEW i \in 1..n PROVE p[1] <= p[i] /\ p[i] <= p[n]
    OBVIOUS
  <2>1. p[1] \in S /\ p[i] \in S /\ p[n] \in S
    BY <1>1, <1>2
  <2>2. p[1] \in Int /\ p[i] \in Int /\ p[n] \in Int
    BY <2>1
  <2>3. (1 = i \/ 1 < i) /\ (i = n \/ i < n)
    BY <1>1
  <2>4. (1 = i \/ p[1] < p[i]) /\ (i = n \/ p[i] < p[n])
    BY <1>1, <1>2, <2>3
  <2> QED BY <2>2, <2>4
<1>4. p[1] \in S /\ p[n] \in S
  BY <1>1, <1>2
<1>5. \A y \in S : p[1] <= y /\ y <= p[n]
  BY <1>1, <1>3
<1> QED BY <1>4, <1>5

\* An event is placed on a trip that ran then; if none did, on one that was
\* assigned and not started; else on none.
LEMMA TripForFits ==
    ASSUME NEW tr, \A t \in Trips : tr[t].started \in 0..Never, NEW e
    PROVE  LET t == TripFor(tr, e)
           IN  \/ t \in Trips /\ Covers(tr[t], e)
               \/ t \in Trips /\ Awaits(tr[t], e) /\ \A u \in Trips : ~Covers(tr[u], e)
               \/ t = None /\ \A u \in Trips : ~Covers(tr[u], e) /\ ~Awaits(tr[u], e)
<1> DEFINE running == {t \in Trips : Covers(tr[t], e)}
           coming == {t \in Trips : Awaits(tr[t], e)}
           Latest(t) == \A w \in running \ {t} : \/ tr[w].started < tr[t].started
                                                 \/ tr[w].started = tr[t].started /\ w < t
<1>1. TripFor(tr, e) = IF running # {} THEN CHOOSE t \in running : Latest(t)
                       ELSE IF coming # {} THEN Min(coming) ELSE None
  BY DEF TripFor
<1>2. \A S : S \subseteq Trips => S \subseteq Int /\ IsFiniteSet(S)
  <2>1. Trips \subseteq Int /\ IsFiniteSet(Trips)
    BY FS_Interval DEF Trips
  <2> QED BY <2>1, FS_Subset
<1>3. running \subseteq Trips /\ coming \subseteq Trips
  OBVIOUS
<1> HIDE DEF running, coming
<1>4. ASSUME running # {} PROVE \E t \in running : Latest(t)
  <2> DEFINE times == {tr[t].started : t \in running}
  <2>1. 0..Never \subseteq Int /\ IsFiniteSet(0..Never)
    <3>1. 0 \in Int /\ Never \in Int
      BY DEF Never
    <3>2. IsFiniteSet(0..Never)
      BY <3>1, FS_Interval, Zenon
    <3> QED BY <3>1, <3>2
  <2>2. times \subseteq 0..Never /\ times # {}
    BY <1>3, <1>4
  <2>3. times \subseteq Int /\ IsFiniteSet(times)
    BY <2>1, <2>2, FS_Subset
  <2>4. PICK m \in times : \A x \in times : x <= m
    BY <2>2, <2>3, LeastAndGreatest
  <2> DEFINE latest == {t \in running : tr[t].started = m}
  <2>5. latest \subseteq Trips /\ latest # {}
    BY <1>3, <2>4
  <2>6. PICK t \in latest : \A w \in latest : w <= t
    BY <1>2, <2>5, LeastAndGreatest
  <2>7. ASSUME NEW w \in running \ {t}
        PROVE  tr[w].started < tr[t].started \/ (tr[w].started = tr[t].started /\ w < t)
    <3>1. tr[w].started <= m /\ tr[t].started = m /\ tr[w].started \in Int /\ m \in Int
      BY <2>3, <2>4
    <3>2. w \in Int /\ t \in Int /\ w # t
      BY <1>2, <1>3, <2>5
    <3>3. w \in latest => w <= t
      BY <2>6
    <3> QED BY <3>1, <3>2, <3>3
  <2>8. t \in running /\ \A w \in running \ {t} :
              tr[w].started < tr[t].started \/ (tr[w].started = tr[t].started /\ w < t)
    BY <2>7
  <2> QED BY <2>8
<1>5. CASE running # {}
  <2>1. TripFor(tr, e) \in running
    BY <1>1, <1>4, <1>5
  <2> QED BY <2>1 DEF running
<1>6. CASE running = {} /\ coming # {}
  <2>1. \E x \in coming : \A y \in coming : x <= y
    BY <1>2, <1>3, <1>6, LeastAndGreatest
  <2>2. TripFor(tr, e) = Min(coming)
    BY <1>1, <1>6
  <2>3. Min(coming) \in coming
    BY <2>1 DEF Min
  <2> QED BY <1>6, <2>2, <2>3 DEF running, coming
<1>7. CASE running = {} /\ coming = {}
  <2>1. TripFor(tr, e) = None
    BY <1>1, <1>7
  <2> QED BY <1>7, <2>1 DEF running, coming
<1> QED BY <1>5, <1>6, <1>7

LEMMA PlacedOnTrips ==
    ASSUME NEW tr, \A t \in Trips : tr[t].started \in 0..Never, NEW e
    PROVE  TripFor(tr, e) \in Trips \cup {None}
  BY TripForFits

-----------------------------------------------------------------------------
(***************************************************************************)
(* What a step enters in the chain of a trip: none, or crossings no trip   *)
(* had.                                                                    *)
(***************************************************************************)
Enters(t, X) ==
    /\ X \subseteq Events \cap 1..Now /\ X \cap InLedger = {}
    /\ \A e \in Events : ledger'[e].trip = t <=> ledger[e].trip = t \/ e \in X
    /\ chain'[t] = chain[t] \o Sorted(X)

Leaves(t) ==
    /\ \A e \in Events : ledger'[e].trip = t <=> ledger[e].trip = t
    /\ chain'[t] = chain[t]

LEMMA Sizes == IInv => Now \in Nat /\ Now <= MaxEvents /\ 1..Now \subseteq Events
  BY DEF IInv, Shape, Now, Events

\* A batch sorted, for any set of crossings.
LEMMA Batch ==
    ASSUME NEW X, X \subseteq Events
    PROVE  /\ Sorted(X) \in Seq(X)
           /\ \A i, j \in 1..Len(Sorted(X)) : i < j => Sorted(X)[i] < Sorted(X)[j]
           /\ \A e : (\E i \in 1..Len(Sorted(X)) : Sorted(X)[i] = e) <=> e \in X
<1>1. X \subseteq Int /\ IsFiniteSet(X)
  <2>1. Events \subseteq Int /\ 1 \in Int /\ MaxEvents \in Int
    BY EventsAreNumbers
  <2>2. IsFiniteSet(Events)
    BY <2>1, FS_Interval, Zenon DEF Events
  <2> QED BY <2>1, <2>2, FS_Subset
<1> DEFINE q == Sorted(X)
           n == Cardinality(X)
<1>2. /\ n \in Nat /\ q \in [1..n -> X]
      /\ \A i, j \in 1..n : i < j => q[i] < q[j]
      /\ \A e \in X : \E i \in 1..n : q[i] = e
  BY <1>1, Enumerated
<1> HIDE DEF q, n
<1>3. q \in Seq(X) /\ Len(q) = n
  BY <1>2
<1>4. \A e : (\E i \in 1..Len(q) : q[i] = e) <=> e \in X
  BY <1>2, <1>3
<1> QED BY <1>2, <1>3, <1>4 DEF q

\* The chain after: what it had, then the batch.
LEMMA Extended ==
    ASSUME NEW c, c \in Seq(Events), NEW X, X \subseteq Events
    PROVE  LET d == c \o Sorted(X)
           IN  /\ d \in Seq(Events) /\ Len(d) = Len(c) + Len(Sorted(X))
               /\ \A i \in 1..Len(c) : d[i] = c[i]
               /\ \A i \in (Len(c) + 1)..Len(d) : d[i] = Sorted(X)[i - Len(c)]
<1>1. Sorted(X) \in Seq(Events)
  BY Batch
<1> DEFINE q == Sorted(X)
<1> HIDE DEF q
<1>2. q \in Seq(Events)
  BY <1>1 DEF q
<1>3. /\ c \o q \in Seq(Events) /\ Len(c \o q) = Len(c) + Len(q)
      /\ \A i \in 1..Len(c) : (c \o q)[i] = c[i]
      /\ \A i \in (Len(c) + 1)..(Len(c) + Len(q)) : (c \o q)[i] = q[i - Len(c)]
  BY <1>2
<1> QED BY <1>3 DEF q

LEMMA ChainKept ==
    ASSUME LedgerInv, UNCHANGED Now, NEW t \in Trips,
           Leaves(t) \/ \E X : Enters(t, X)
    PROVE  /\ chain'[t] \in Seq(Events)
           /\ \A e \in Events : (\E i \in 1..Len(chain'[t]) : chain'[t][i] = e) <=> ledger'[e].trip = t
           /\ \A i, j \in 1..Len(chain'[t]) : chain'[t][i] = chain'[t][j] => i = j
           /\ Log!Grows(t) /\ Log!InOrder(t)
<1> DEFINE c == chain[t]
           d == chain'[t]
<1>1. /\ c \in Seq(Events) /\ Len(c) \in Nat
      /\ \A e \in Events : (\E i \in 1..Len(c) : c[i] = e) <=> ledger[e].trip = t
      /\ \A i, j \in 1..Len(c) : c[i] = c[j] => i = j
  <2>1. c \in Seq(Events)
    BY Zenon DEF LedgerInv, Chained
  <2>2. /\ \A e \in Events : (\E i \in 1..Len(c) : c[i] = e) <=> ledger[e].trip = t
        /\ \A i, j \in 1..Len(c) : c[i] = c[j] => i = j
    BY Zenon DEF LedgerInv, Chained
  <2> HIDE DEF c
  <2>3. Len(c) \in Nat
    BY <2>1
  <2> QED BY <2>1, <2>2, <2>3, Zenon
<1>2. CASE Leaves(t)
  <2>1. d = c /\ \A e \in Events : ledger'[e].trip = t <=> ledger[e].trip = t
    BY <1>2 DEF Leaves
  <2>2. Log!Grows(t) /\ Log!InOrder(t)
    BY <1>1, <2>1 DEF Log!Grows, Log!InOrder
  <2> HIDE DEF c, d
  <2>3. /\ d \in Seq(Events)
        /\ \A e \in Events : (\E i \in 1..Len(d) : d[i] = e) <=> ledger'[e].trip = t
        /\ \A i, j \in 1..Len(d) : d[i] = d[j] => i = j
    BY <1>1, <2>1
  <2> QED BY <2>2, <2>3 DEF d
<1>3. ASSUME NEW X, Enters(t, X)
      PROVE  /\ d \in Seq(Events)
             /\ \A e \in Events : (\E i \in 1..Len(d) : d[i] = e) <=> ledger'[e].trip = t
             /\ \A i, j \in 1..Len(d) : d[i] = d[j] => i = j
             /\ Log!Grows(t) /\ Log!InOrder(t)
  <2> DEFINE q == Sorted(X)
             n == Len(c)
  <2>1. X \subseteq Events /\ d = c \o q /\ X \cap InLedger = {}
    BY <1>3 DEF Enters
  <2>2. /\ q \in Seq(X) /\ Len(q) \in Nat
        /\ \A i, j \in 1..Len(q) : i < j => q[i] < q[j]
        /\ \A e : (\E i \in 1..Len(q) : q[i] = e) <=> e \in X
    <3>1. /\ q \in Seq(X)
          /\ \A i, j \in 1..Len(q) : i < j => q[i] < q[j]
          /\ \A e : (\E i \in 1..Len(q) : q[i] = e) <=> e \in X
      BY <2>1, Batch, Zenon
    <3>2. Len(q) \in Nat
      <4> HIDE DEF q
      <4> QED BY <3>1
    <3> QED BY <3>1, <3>2
  <2>3. /\ d \in Seq(Events) /\ Len(d) = n + Len(q)
        /\ \A i \in 1..n : d[i] = c[i]
        /\ \A i \in (n + 1)..Len(d) : d[i] = q[i - n]
    BY <1>1, <2>1, Extended
  <2>4. \A e \in Events : ledger'[e].trip = t <=> ledger[e].trip = t \/ e \in X
    BY <1>3 DEF Enters
  <2>5. \A e \in X : ledger[e].trip # t
    BY <2>1, EventsAreNumbers DEF InLedger
  <2>6. n \in Nat
    BY <1>1
  <2>7. Log!Grows(t)
    BY <2>2, <2>3, <2>6 DEF Log!Grows
  <2> HIDE DEF q, n, d, c
  <2>8. \A i \in (n + 1)..Len(d) : i - n \in 1..Len(q) /\ d[i] = q[i - n] /\ d[i] \in X
    BY <2>2, <2>3, <2>6
  <2>9. \A i, j \in (n + 1)..Len(d) : i < j => d[i] < d[j]
    <3> SUFFICES ASSUME NEW i \in (n + 1)..Len(d), NEW j \in (n + 1)..Len(d), i < j
                 PROVE  d[i] < d[j]
      OBVIOUS
    <3>1. i - n < j - n
      BY <2>6
    <3> QED BY <2>2, <2>8, <3>1
  <2>10. \A e \in Events : (\E i \in 1..Len(d) : d[i] = e) <=> ledger'[e].trip = t
    <3> SUFFICES ASSUME NEW e \in Events
                 PROVE  (\E i \in 1..Len(d) : d[i] = e) <=> ledger[e].trip = t \/ e \in X
      BY <2>4
    <3>1. ASSUME NEW i \in 1..Len(d), d[i] = e PROVE ledger[e].trip = t \/ e \in X
      <4>1. i \in 1..n \/ i \in (n + 1)..Len(d)
        BY <2>2, <2>3, <2>6
      <4> QED BY <1>1, <2>3, <2>8, <3>1, <4>1 DEF n
    <3>2. ASSUME ledger[e].trip = t PROVE \E i \in 1..Len(d) : d[i] = e
      <4>1. PICK i \in 1..n : c[i] = e
        BY <1>1, <3>2 DEF n
      <4>2. i \in 1..Len(d) /\ d[i] = e
        BY <2>2, <2>3, <2>6, <4>1
      <4> QED BY <4>2
    <3>3. ASSUME e \in X PROVE \E i \in 1..Len(d) : d[i] = e
      <4>1. PICK i \in 1..Len(q) : q[i] = e
        BY <2>2, <3>3
      <4>2. i + n \in (n + 1)..Len(d) /\ i + n \in 1..Len(d) /\ (i + n) - n = i
        BY <2>2, <2>3, <2>6
      <4>3. d[i + n] = e
        BY <2>3, <4>1, <4>2
      <4> QED BY <4>2, <4>3
    <3> QED BY <3>1, <3>2, <3>3
  <2>11. \A i, j \in 1..Len(d) : d[i] = d[j] => i = j
    <3> SUFFICES ASSUME NEW i \in 1..Len(d), NEW j \in 1..Len(d), d[i] = d[j], i < j PROVE FALSE
      BY <2>3
    <3>1. (i \in 1..n \/ i \in (n + 1)..Len(d)) /\ (j \in 1..n \/ j \in (n + 1)..Len(d))
      BY <2>2, <2>3, <2>6
    <3>2. CASE i \in 1..n /\ j \in 1..n
      BY <1>1, <2>3, <2>6, <3>2 DEF n
    <3>3. CASE i \in (n + 1)..Len(d) /\ j \in (n + 1)..Len(d)
      <4>1. d[i] < d[j] /\ d[i] \in Int
        BY <2>1, <2>8, <2>9, <3>3, EventsAreNumbers
      <4> QED BY <4>1
    <3>4. CASE i \in 1..n /\ j \in (n + 1)..Len(d)
      <4>1. d[j] \in X /\ c[i] = d[j]
        BY <2>3, <2>8, <3>4
      <4>2. ledger[d[j]].trip = t
        BY <1>1, <2>1, <3>4, <4>1 DEF n
      <4> QED BY <2>5, <4>1, <4>2
    <3>5. CASE i \in (n + 1)..Len(d) /\ j \in 1..n
      BY <2>6, <3>5
    <3> QED BY <3>1, <3>2, <3>3, <3>4, <3>5
  <2>12. Log!InOrder(t)
    BY <2>9 DEF Log!InOrder, n, c, d
  <2> QED BY <2>3, <2>7, <2>10, <2>11, <2>12
<1> QED BY <1>2, <1>3

-----------------------------------------------------------------------------
(***************************************************************************)
(* What the invariant says of the chains is what DoorLog asks of the log.  *)
(***************************************************************************)
LogShape ==
    /\ Log!Once
    /\ \A t \in Trips : /\ Len(chain[t]) <= Now
                        /\ \A i \in DOMAIN chain[t] : chain[t][i] \in 1..Now

LEMMA LogOfChains == LedgerInv => LogShape
<1> SUFFICES ASSUME LedgerInv PROVE LogShape
  OBVIOUS
<1>1. Now \in Nat /\ 1..Now \subseteq Events
  BY Sizes DEF LedgerInv
<1>2. ASSUME NEW t \in Trips
      PROVE  /\ chain[t] \in Seq(Events)
             /\ \A i \in 1..Len(chain[t]) : /\ chain[t][i] \in 1..Now
                                             /\ ledger[chain[t][i]].trip = t
             /\ \A i, j \in 1..Len(chain[t]) : chain[t][i] = chain[t][j] => i = j
  <2> DEFINE c == chain[t]
  <2>1. /\ c \in Seq(Events)
        /\ \A e \in Events : (\E i \in 1..Len(c) : c[i] = e) <=> ledger[e].trip = t
        /\ \A i, j \in 1..Len(c) : c[i] = c[j] => i = j
    BY Zenon DEF LedgerInv, Chained
  <2>2. \A e \in Events : ledger[e].trip = t => e \in 1..Now
    BY EventsAreNumbers DEF LedgerInv, Known, InLedger
  <2> HIDE DEF c
  <2>3. \A i \in 1..Len(c) : c[i] \in Events
    BY <2>1
  <2>4. \A i \in 1..Len(c) : c[i] \in 1..Now /\ ledger[c[i]].trip = t
    BY <2>1, <2>2, <2>3
  <2> QED BY <2>1, <2>4 DEF c
<1>3. ASSUME NEW t \in Trips
      PROVE  Len(chain[t]) <= Now
  <2> DEFINE c == chain[t]
             n == Len(c)
             f == [i \in 1..n |-> c[i]]
  <2>1. /\ c \in Seq(Events)
        /\ \A i \in 1..n : c[i] \in 1..Now
        /\ \A i, j \in 1..n : c[i] = c[j] => i = j
    BY <1>2, Zenon
  <2>2. n \in Nat
    <3> HIDE DEF c
    <3> QED BY <2>1
  <2>3. f \in Injection(1..n, 1..Now)
    BY <2>1 DEF Injection, IsInjective
  <2>4. /\ IsFiniteSet(1..Now) /\ Cardinality(1..Now) = Now
        /\ IsFiniteSet(1..n) /\ Cardinality(1..n) = n
    <3>1. 1 \in Int /\ Now \in Int /\ n \in Int
      BY <1>1, <2>2
    <3> HIDE DEF n
    <3>2. /\ IsFiniteSet(1..Now) /\ Cardinality(1..Now) = IF 1 > Now THEN 0 ELSE Now - 1 + 1
          /\ IsFiniteSet(1..n) /\ Cardinality(1..n) = IF 1 > n THEN 0 ELSE n - 1 + 1
      BY <3>1, FS_Interval, Zenon
    <3> QED BY <1>1, <2>2, <3>2
  <2> HIDE DEF f, n
  <2>5. Cardinality(1..n) <= Cardinality(1..Now)
    BY <2>3, <2>4, FS_Injection
  <2>6. n <= Now
    BY <2>4, <2>5
  <2> QED BY <2>6 DEF n
<1>4. Log!Once
  <2> SUFFICES ASSUME NEW p \in Log!Places, NEW q \in Log!Places,
                      chain[p[1]][p[2]] = chain[q[1]][q[2]]
               PROVE  p = q
    BY DEF Log!Once
  <2> DEFINE t == p[1]
             i == p[2]
             u == q[1]
             j == q[2]
  <2>0. /\ p = <<t, i>> /\ t \in Trips /\ i \in 1..Now /\ i <= Len(chain[t])
        /\ q = <<u, j>> /\ u \in Trips /\ j \in 1..Now /\ j <= Len(chain[u])
        /\ chain[t][i] = chain[u][j]
    BY DEF Log!Places
  <2> HIDE DEF t, i, u, j
  <2>1. i \in 1..Len(chain[t]) /\ j \in 1..Len(chain[u])
    <3>1. chain[t] \in Seq(Events) /\ chain[u] \in Seq(Events)
      BY <1>2, <2>0
    <3>2. Len(chain[t]) \in Nat /\ Len(chain[u]) \in Nat
      BY <3>1
    <3> QED BY <2>0, <3>2
  <2>2. t = u
    <3>1. ledger[chain[t][i]].trip = t
      BY <1>2, <2>0, <2>1, Zenon
    <3>2. ledger[chain[u][j]].trip = u
      BY <1>2, <2>0, <2>1, Zenon
    <3> QED BY <2>0, <3>1, <3>2, Zenon
  <2> QED BY <1>2, <2>0, <2>1, <2>2
<1>5. \A t \in Trips : DOMAIN chain[t] = 1..Len(chain[t])
  <2> SUFFICES ASSUME NEW t \in Trips PROVE DOMAIN chain[t] = 1..Len(chain[t])
    OBVIOUS
  <2>1. chain[t] \in Seq(Events)
    BY <1>2
  <2> QED BY <2>1
<1> QED BY <1>2, <1>3, <1>4, <1>5 DEF LogShape

\* A step that enters crossings of each trip at the end of its chain is a step
\* of DoorLog, and keeps the chains.
LEMMA EnterStep ==
    ASSUME LedgerInv, IInv', UNCHANGED Now, DOMAIN chain' = Trips,
           \A t \in Trips : Leaves(t) \/ \E X : Enters(t, X),
           Known', Timed', OnTrips'
    PROVE  LedgerInv' /\ Log!Enter
<1>1. Chained'
  BY ChainKept, Zenon DEF Chained
<1>2. LedgerInv'
  BY <1>1 DEF LedgerInv
<1>3. LogShape'
  BY <1>2, LogOfChains, PTL
<1>4. \A t \in Trips : Log!Grows(t) /\ Log!InOrder(t)
  BY ChainKept, Zenon
<1> QED BY <1>2, <1>3, <1>4 DEF Log!Enter, LogShape

\* A step that enters none.
LEMMA StutterStep ==
    ASSUME LedgerInv, IInv', UNCHANGED <<Now, chain>>,
           \A e \in Events : ledger'[e].trip = ledger[e].trip,
           held' \subseteq held,
           Timed',
           \A s \in Sessions :
              /\ Brings(s)' \subseteq 1..Now
              /\ \A e \in Events : session'[s].onto[e] \in Trips \cup {None}
    PROVE  LedgerInv' /\ UNCHANGED <<Now, chain>>
<1>1. Chained'
  BY DEF LedgerInv, Chained
<1>2. InLedger' = InLedger
  BY DEF InLedger
<1>3. Known'
  BY <1>2 DEF LedgerInv, Known
<1>4. OnTrips'
  BY DEF LedgerInv, OnTrips
<1> QED BY <1>1, <1>3, <1>4 DEF LedgerInv

-----------------------------------------------------------------------------
(***************************************************************************)
(* The steps.  Each keeps the invariant of the ledger, and is a step of    *)
(* DoorLog or a stutter.                                                   *)
(***************************************************************************)
Stepped == LedgerInv' /\ (Log!Next \/ UNCHANGED <<Now, chain>>)

LEMMA LedgerInitially == Init => LedgerInv /\ Log!Init
<1> SUFFICES ASSUME Init PROVE LedgerInv /\ Log!Init
  OBVIOUS
<1>1. IInv /\ Now = 0 /\ chain = [t \in Trips |-> <<>>]
  BY Initially DEF Init, Now
<1>2. \A e \in Events : ledger[e].trip = None
  BY DEF Init, NoRow
<1>3. \A s \in Sessions : session[s].hold = {} /\ \A e \in Events : session[s].onto[e] = None
  BY DEF Init, Idle
<1>4. Chained
  <2>1. \A t \in Trips : chain[t] = <<>> /\ t # None
    BY <1>1, EventsAreNumbers
  <2> QED BY <1>1, <1>2, <2>1 DEF Chained
<1>5. Known
  BY <1>2, <1>3 DEF Init, Known, InLedger, Brings
<1>6. Timed
  BY DEF Init, Timed, Never
<1>7. OnTrips
  BY <1>2, <1>3 DEF OnTrips
<1> QED BY <1>1, <1>4, <1>5, <1>6, <1>7 DEF LedgerInv, Log!Init

LEMMA PhoneSteps == LedgerInv /\ IInv' /\ Phone => Stepped
<1> SUFFICES ASSUME LedgerInv, IInv', Phone PROVE Stepped
  OBVIOUS
<1>1. UNCHANGED <<trip, held, ledger, chain, session>>
  BY DEF Phone
<1>2. /\ UNCHANGED <<InLedger, held, Timed, OnTrips, Chained>>
      /\ \A s \in Sessions : UNCHANGED Brings(s)
  BY <1>1 DEF InLedger, Brings, Timed, OnTrips, Chained
<1>3. UNCHANGED Now \/ Now' = Now + 1
  BY DEF Phone, GiveUp, Cross, Now, LedgerInv, IInv, Shape
<1>4. Now \in Nat
  BY Sizes DEF LedgerInv
<1>5. Known'
  <2>1. 1..Now \subseteq 1..Now'
    BY <1>3, <1>4
  <2> QED BY <1>2, <2>1 DEF LedgerInv, Known
<1> QED BY <1>1, <1>2, <1>3, <1>5 DEF Stepped, LedgerInv, Log!Next, Log!Count

LEMMA PlaceSteps == ASSUME LedgerInv, IInv', NEW s \in Sessions, Place(s) PROVE Stepped
<1> DEFINE new == (outbox.waiting \cap onVan) \ (InLedger \cup held)
           onto == [e \in Events |-> IF e \in new THEN TripFor(trip, e) ELSE None]
           hold == {e \in new : onto[e] = None}
<1>1. UNCHANGED <<door, trip, held, ledger, chain>>
  BY DEF Place
<1>2. \E saw : session' = [session EXCEPT ![s] = [Idle EXCEPT !.step = "place", !.onto = onto,
                                                           !.hold = hold, !.saw = saw]]
  BY DEF Place
<1>3. new \subseteq 1..Now
  BY DEF LedgerInv, IInv, Counted
<1>4. \A e \in Events : onto[e] \in Trips \cup {None} /\ (onto[e] # None => e \in new)
  BY PlacedOnTrips DEF LedgerInv, Timed
<1>5. hold \subseteq new
  OBVIOUS
<1>6. /\ session'[s].onto = onto /\ session'[s].hold = hold
      /\ \A q \in Sessions : q # s => session'[q] = session[q]
  <2> HIDE DEF new, onto, hold
  <2> QED BY <1>2 DEF LedgerInv, IInv, Shape, Idle
<1> HIDE DEF new, onto, hold
<1>7. \A q \in Sessions : /\ Brings(q)' \subseteq 1..Now
                          /\ \A e \in Events : session'[q].onto[e] \in Trips \cup {None}
  BY <1>3, <1>4, <1>5, <1>6 DEF LedgerInv, Known, OnTrips, Brings
<1>8. Timed' /\ UNCHANGED <<Now, chain>>
  BY <1>1 DEF LedgerInv, Timed, Now
<1> QED BY <1>1, <1>7, <1>8, StutterStep DEF Stepped

\* The trips whose events a handler has claimed.
LEMMA ReleaseSteps ==
    ASSUME LedgerInv, IInv', NEW t \in Trips, NEW tr, Release(t, tr),
           UNCHANGED <<door, session>>, Timed'
    PROVE  Stepped
<1> DEFINE X == Claimed(t, tr)
<1>1. /\ X \subseteq held /\ X \cap InLedger = {}
      /\ held' = held \ X
      /\ ledger' = [e \in Events |-> IF e \in X THEN [NoRow EXCEPT !.trip = t] ELSE ledger[e]]
      /\ chain' = [chain EXCEPT ![t] = @ \o Sorted(X)]
  BY DEF Release, Claimed
<1> HIDE DEF X
<1>2. \A e \in Events : ledger'[e].trip = IF e \in X THEN t ELSE ledger[e].trip
  BY <1>1 DEF NoRow
<1>3. held \subseteq Events /\ held \subseteq 1..Now /\ UNCHANGED Now
  BY DEF LedgerInv, IInv, Shape, Known, Now
<1>4. \A e \in X : e \in Events /\ ledger[e].trip = None
  BY <1>1, <1>3 DEF InLedger
<1>5. Enters(t, X)
  BY <1>1, <1>2, <1>3, <1>4 DEF LedgerInv, Chained, Enters
<1>6. \A u \in Trips : u # t => Leaves(u)
  BY <1>1, <1>2, <1>4, EventsAreNumbers DEF LedgerInv, Chained, Leaves
<1>7. Known'
  BY <1>1, <1>2, <1>3 DEF LedgerInv, Known, InLedger, Brings
<1>8. OnTrips'
  BY <1>2 DEF LedgerInv, OnTrips
<1>9. DOMAIN chain' = Trips
  BY <1>1 DEF LedgerInv, Chained
<1> QED BY <1>3, <1>5, <1>6, <1>7, <1>8, <1>9, EnterStep DEF Stepped, Log!Next

LEMMA OfficeSteps == LedgerInv /\ IInv' /\ Office => Stepped
<1> SUFFICES ASSUME LedgerInv, IInv', Office PROVE Stepped
  OBVIOUS
<1>1. UNCHANGED <<door, session, Now>>
  BY DEF Office, Now
<1>2. Timed'
  <2>1. Now \in 0..Never /\ Events \subseteq 0..Never
    BY Sizes, EventsAreNumbers DEF LedgerInv, Events, Never
  <2>2. \/ \E t \in Trips : \E x : /\ trip' = [trip EXCEPT ![t] = x] /\ "started" \in DOMAIN x
                                   /\ x.started \in {Now, trip[t].started} \cup Events
        \/ UNCHANGED trip
    <3>1. ASSUME NEW t \in Trips, Assign(t) \/ Start(t) \/ Void(t) \/ Arrive(t)
          PROVE  \E x : /\ trip' = [trip EXCEPT ![t] = x] /\ "started" \in DOMAIN x
                        /\ x.started \in {Now, trip[t].started}
      <4>1. "started" \in DOMAIN trip[t] /\ DOMAIN trip = Trips
        BY DEF LedgerInv, Timed
      <4>2. CASE Assign(t)
        <5> DEFINE x == [trip[t] EXCEPT !.van = TRUE]
        <5>1. trip' = [trip EXCEPT ![t] = x]
          BY <4>2 DEF Assign
        <5>2. "started" \in DOMAIN x /\ x.started = trip[t].started
          BY <4>1
        <5> QED BY <5>1, <5>2
      <4>3. CASE Start(t)
        <5> DEFINE x == [trip[t] EXCEPT !.status = "boarding", !.started = Now]
        <5>1. trip' = [trip EXCEPT ![t] = x]
          BY <4>1, <4>3 DEF Start
        <5>2. "started" \in DOMAIN x /\ x.started = Now
          BY <4>1
        <5> QED BY <5>1, <5>2
      <4>4. CASE Void(t)
        <5> DEFINE x == [trip[t] EXCEPT !.status = "cancelled"]
        <5>1. trip' = [trip EXCEPT ![t] = x]
          BY <4>4 DEF Void
        <5>2. "started" \in DOMAIN x /\ x.started = trip[t].started
          BY <4>1
        <5> QED BY <5>1, <5>2
      <4>5. CASE Arrive(t)
        <5> DEFINE x == [trip[t] EXCEPT !.status = "completed", !.completed = Now]
        <5>1. trip' = [trip EXCEPT ![t] = x]
          BY <4>1, <4>5 DEF Arrive
        <5>2. "started" \in DOMAIN x /\ x.started = trip[t].started
          BY <4>1
        <5> QED BY <5>1, <5>2
      <4> QED BY <3>1, <4>2, <4>3, <4>4, <4>5
    <3>2. ASSUME NEW t \in Trips, NEW at \in Events, DetectedStart(t, at)
          PROVE  \E x : /\ trip' = [trip EXCEPT ![t] = x] /\ "started" \in DOMAIN x
                        /\ x.started = at
      <4> DEFINE x == [trip[t] EXCEPT !.van = TRUE, !.status = "boarding", !.started = at]
      <4>1. "started" \in DOMAIN trip[t] /\ DOMAIN trip = Trips
        BY DEF LedgerInv, Timed
      <4>2. trip' = [trip EXCEPT ![t] = x]
        BY <3>2, <4>1 DEF DetectedStart
      <4>3. "started" \in DOMAIN x /\ x.started = at
        BY <4>1
      <4> QED BY <4>2, <4>3
    <3>3. ASSUME NEW t \in Trips, NEW gps \in BOOLEAN, Depart(t, gps)
          PROVE  \/ UNCHANGED trip
                 \/ \E x : /\ trip' = [trip EXCEPT ![t] = x] /\ "started" \in DOMAIN x
                          /\ x.started = trip[t].started
      <4> DEFINE more == Excess(Rechecked(ledger, t, trip[t].departed), t, trip[t].departed)
                 x == [trip[t] EXCEPT !.status = "departed", !.departed = Now, !.told = @ \/ more]
      <4>1. "started" \in DOMAIN trip[t] /\ DOMAIN trip = Trips
        BY DEF LedgerInv, Timed
      <4>2. trip' = IF more /\ ~gps THEN trip
                    ELSE [trip EXCEPT ![t].status = "departed", ![t].departed = Now,
                                      ![t].told = @ \/ more]
        BY <3>3 DEF Depart
      <4> HIDE DEF more
      <4>3. UNCHANGED trip \/ trip' = [trip EXCEPT ![t] = x]
        BY <4>1, <4>2
      <4>4. "started" \in DOMAIN x /\ x.started = trip[t].started
        BY <4>1
      <4> QED BY <4>3, <4>4
    <3> QED BY <3>1, <3>2, <3>3 DEF Office
  <2> QED BY <2>1, <2>2 DEF LedgerInv, Timed
<1>3. CASE \E t \in Trips : Release(t, trip')
  BY <1>1, <1>2, <1>3, ReleaseSteps
<1>4. ASSUME UNCHANGED <<held, chain>>, \A e \in Events : ledger'[e].trip = ledger[e].trip
      PROVE  Stepped
  <2>1. \A s \in Sessions : /\ Brings(s)' \subseteq 1..Now
                            /\ \A e \in Events : session'[s].onto[e] \in Trips \cup {None}
    BY <1>1 DEF LedgerInv, Known, OnTrips, Brings
  <2> QED BY <1>1, <1>2, <1>4, <2>1, StutterStep DEF Stepped
<1>5. Rows(ledger)
  BY DEF LedgerInv, IInv, Shape, Rows
<1>6. \/ \E t \in Trips : Release(t, trip')
      \/ UNCHANGED <<held, ledger, chain>>
      \/ UNCHANGED <<held, chain>> /\ \E t, gone : ledger' = Rechecked(ledger, t, gone)
  BY DEF Office, Assign, Start, DetectedStart, Void, Arrive, Depart
<1> QED BY <1>3, <1>4, <1>5, <1>6, RecheckStays

LEMMA DeskSteps == LedgerInv /\ IInv' /\ Desk => Stepped
<1> SUFFICES ASSUME LedgerInv, IInv', Desk PROVE Stepped
  OBVIOUS
<1>1. UNCHANGED <<door, trip, held, chain>>
  BY DEF Desk
<1>2. Rows(ledger) /\ DOMAIN session = Sessions
  BY DEF LedgerInv, IInv, Shape, Rows
<1>3. \A e \in Events : ledger'[e].trip = ledger[e].trip
  <2>1. ASSUME NEW e \in Events, Explain(e)
        PROVE  \A f \in Events : ledger'[f].trip = ledger[f].trip
    <3> DEFINE led == Rechecked(ledger, ledger[e].trip, Never)
    <3>1. Rows(led) /\ \A f \in Events : led[f].trip = ledger[f].trip
      BY <1>2, RecheckStays
    <3>2. ledger' = [led EXCEPT ![e].resolution = "explained"]
      BY <2>1 DEF Explain
    <3> HIDE DEF led
    <3> QED BY <3>1, <3>2 DEF Rows, Fields
  <2>2. ASSUME NEW e \in Events, NEW s \in Sessions, ListWalkUp(s, e)
        PROVE  \A f \in Events : ledger'[f].trip = ledger[f].trip
    BY <1>2, <2>2, RecheckStays DEF ListWalkUp
  <2>3. ASSUME NEW s \in Sessions, MarkListed(s)
        PROVE  \A f \in Events : ledger'[f].trip = ledger[f].trip
    BY <1>2, <2>3 DEF MarkListed, Rows, Fields
  <2>4. ASSUME NEW t \in Trips, MarkPaid(t)
        PROVE  \A f \in Events : ledger'[f].trip = ledger[f].trip
    BY <2>4 DEF MarkPaid
  <2> QED BY <2>1, <2>2, <2>3, <2>4 DEF Desk
<1>4. UNCHANGED session \/ \E s \in Sessions : \E x :
          /\ session' = [session EXCEPT ![s] = x]
          /\ x.hold = {} /\ x.onto = [f \in Events |-> None]
  <2>1. ASSUME NEW e \in Events, NEW s \in Sessions, ListWalkUp(s, e)
        PROVE  \E x : /\ session' = [session EXCEPT ![s] = x]
                      /\ x.hold = {} /\ x.onto = [f \in Events |-> None]
    <3> DEFINE x == [Idle EXCEPT !.step = "list", !.event = e, !.booking = seats[ledger[e].trip] + 1]
    <3>1. x.hold = {} /\ x.onto = [f \in Events |-> None]
      BY DEF Idle
    <3>2. session' = [session EXCEPT ![s] = x]
      BY <2>1 DEF ListWalkUp
    <3> QED BY <3>1, <3>2
  <2>2. ASSUME NEW s \in Sessions, MarkListed(s)
        PROVE  /\ session' = [session EXCEPT ![s] = Idle]
               /\ Idle.hold = {} /\ Idle.onto = [f \in Events |-> None]
    BY <2>2 DEF MarkListed, Idle
  <2> QED BY <2>1, <2>2 DEF Desk, Explain, MarkPaid
<1>5. \A s \in Sessions : /\ Brings(s)' \subseteq 1..Now
                          /\ \A e \in Events : session'[s].onto[e] \in Trips \cup {None}
  BY <1>2, <1>4 DEF LedgerInv, Known, OnTrips, Brings
<1>6. Timed' /\ UNCHANGED <<Now, chain>>
  BY <1>1 DEF LedgerInv, Timed, Now
<1> QED BY <1>1, <1>3, <1>5, <1>6, StutterStep DEF Stepped

\* An upload that changes nothing of the server.
LEMMA RefusedSteps ==
    ASSUME LedgerInv, IInv', NEW s \in Sessions, NEW code, Reply(s, code),
           UNCHANGED <<trip, held, ledger, chain>>
    PROVE  Stepped
<1>1. session' = [session EXCEPT ![s] = Idle] /\ UNCHANGED <<door, Now>>
  BY DEF Reply, Now
<1>2. Idle.hold = {} /\ Idle.onto = [e \in Events |-> None]
  BY DEF Idle
<1>3. \A q \in Sessions : /\ Brings(q)' \subseteq 1..Now
                          /\ \A e \in Events : session'[q].onto[e] \in Trips \cup {None}
  BY <1>1, <1>2 DEF LedgerInv, IInv, Shape, Known, OnTrips, Brings
<1>4. Timed'
  BY DEF LedgerInv, Timed
<1> QED BY <1>1, <1>3, <1>4, StutterStep DEF Stepped

\* After the commit a row is on the trip the upload found for it.
LEMMA EnteredRows ==
    ASSUME LedgerInv, NEW s \in Sessions, Commit(s)
    PROVE  \A e \in Events : ledger'[e].trip = IF session[s].onto[e] = None THEN ledger[e].trip
                                              ELSE session[s].onto[e]
<1>1. /\ Rows(Inserted(s))
      /\ \A e \in Events : Inserted(s)[e].trip = IF session[s].onto[e] = None THEN ledger[e].trip
                                                ELSE session[s].onto[e]
  BY DEF Inserted, NoRow, Fields, Rows, LedgerInv, IInv, Shape
<1>2. \A e \in Events :
         \/ ledger'[e] = ledger[e] /\ session[s].onto[e] = None
         \/ \E t, gone : ledger'[e] = Rechecked(Inserted(s), t, gone)[e]
  BY DEF Commit
<1> QED BY <1>1, <1>2, RecheckStays

\* The commit of an upload whose keys are free.
LEMMA CommitSteps ==
    ASSUME LedgerInv, IInv', NEW s \in Sessions, Reply(s, "2xx"), Commit(s), ~TakenKey(s)
    PROVE  Stepped
<1>1. session' = [session EXCEPT ![s] = Idle] /\ UNCHANGED <<door, Now>>
  BY DEF Reply, Now
<1>2. Idle.hold = {} /\ Idle.onto = [e \in Events |-> None]
  BY DEF Idle
<1>3. /\ held' = held \cup session[s].hold
      /\ chain' = [t \in Trips |-> chain[t] \o Sorted(Entering(s, t))]
  BY DEF Commit
<1>4. \A e \in Events : ledger'[e].trip = IF session[s].onto[e] = None THEN ledger[e].trip
                                          ELSE session[s].onto[e]
  BY EnteredRows
<1>5. \A e \in Events : session[s].onto[e] # None => e \notin InLedger /\ e \in 1..Now
  BY EventsAreNumbers DEF TakenKey, Touched, Entering, LedgerInv, OnTrips, Known, Brings
<1>6. \A t \in Trips : Enters(t, Entering(s, t))
  <2> SUFFICES ASSUME NEW t \in Trips PROVE Enters(t, Entering(s, t))
    OBVIOUS
  <2>1. t # None
    BY EventsAreNumbers
  <2>2. Entering(s, t) \subseteq Events \cap 1..Now /\ Entering(s, t) \cap InLedger = {}
    BY <1>5, <2>1 DEF Entering
  <2>3. \A e \in Events : ledger'[e].trip = t <=> ledger[e].trip = t \/ e \in Entering(s, t)
    BY <1>4, <1>5, <2>1 DEF Entering, InLedger
  <2> QED BY <1>3, <2>2, <2>3 DEF Enters
<1>7. Known'
  <2>1. session[s].hold \subseteq 1..Now
    BY DEF LedgerInv, Known, Brings
  <2>2. InLedger' \subseteq 1..Now
    BY <1>4, <1>5 DEF LedgerInv, Known, InLedger
  <2>3. \A q \in Sessions : Brings(q)' \subseteq 1..Now
    BY <1>1, <1>2 DEF LedgerInv, IInv, Shape, Known, Brings
  <2> QED BY <1>1, <1>3, <2>1, <2>2, <2>3 DEF LedgerInv, Known
<1>8. OnTrips'
  BY <1>1, <1>2, <1>4 DEF LedgerInv, IInv, Shape, OnTrips
<1>9. Timed'
  <2>1. DOMAIN trip' = Trips
    BY DEF Commit
  <2>2. \A t \in Trips : \E done, told :
           \/ trip'[t] = [trip[t] EXCEPT !.told = told]
           \/ trip'[t] = [trip[t] EXCEPT !.status = "completed", !.completed = done, !.told = told]
    BY DEF Commit
  <2> QED BY <2>1, <2>2 DEF LedgerInv, Timed
<1>10. DOMAIN chain' = Trips
  BY <1>3
<1> QED BY <1>1, <1>6, <1>7, <1>8, <1>9, <1>10, EnterStep DEF Stepped, Log!Next

LEMMA UploadSteps ==
    ASSUME LedgerInv, IInv', NEW s \in Sessions, Finish(s) \/ Fail(s)
    PROVE  Stepped
<1>1. CASE Reply(s, "2xx") /\ Commit(s) /\ ~TakenKey(s)
  BY <1>1, CommitSteps
<1>2. CASE (Reply(s, "5xx") \/ Reply(s, "4xx")) /\ UNCHANGED <<trip, held, ledger, chain>>
  BY <1>2, RefusedSteps
<1> QED BY <1>1, <1>2 DEF Finish, Fail

\* Every step keeps the invariant, and does what DoorLog allows.
THEOREM LedgerInductive == LedgerInv /\ [Next]_vars => Stepped
<1> SUFFICES ASSUME LedgerInv, [Next]_vars PROVE Stepped
  OBVIOUS
<1>1. IInv'
  BY Inductive DEF LedgerInv
<1>2. CASE UNCHANGED vars
  <2>1. UNCHANGED <<Now, chain, InLedger, held, Timed, OnTrips, Chained>>
    BY <1>2 DEF vars, Now, InLedger, Timed, OnTrips, Chained
  <2>2. \A s \in Sessions : UNCHANGED Brings(s)
    BY <1>2 DEF vars, Brings
  <2>3. Known'
    BY <2>1, <2>2 DEF LedgerInv, Known
  <2> QED BY <1>1, <2>1, <2>3 DEF LedgerInv, Stepped
<1>3. CASE Next
  BY <1>1, <1>3, PhoneSteps, OfficeSteps, DeskSteps, PlaceSteps, UploadSteps DEF Next
<1> QED BY <1>2, <1>3

\* Each chain has each event of its trip once, none that was not counted,
\* always.
THEOREM LedgerInvHolds == Spec => []LedgerInv
<1>1. LedgerInv /\ [Next]_vars => LedgerInv'
  BY LedgerInductive DEF Stepped
<1> QED BY <1>1, LedgerInitially, PTL DEF Spec

\* The ledger implements DoorLog: whatever uploads time out, come twice or
\* fail, and whenever their trips are assigned, each crossing enters the chain
\* of one trip, once, and chains only grow, at their end.
THEOREM LedgerKeepsTheLog == Spec => KeepsTheLog
<1>1. LedgerInv /\ [Next]_vars => [Log!Next]_<<Now, chain>>
  BY LedgerInductive DEF Stepped
<1> QED BY <1>1, LedgerInitially, LedgerInvHolds, PTL DEF Spec, KeepsTheLog, Log!Spec
=============================================================================
