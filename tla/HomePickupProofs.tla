--------------------------- MODULE HomePickupProofs ---------------------------
(***************************************************************************)
(* Proofs about HomePickup, for any number of sessions.  A pickup is       *)
(* safe because of what the handlers under way have promised: who holds    *)
(* its row, which status each will write, and what that status rests on.   *)
(***************************************************************************)
EXTENDS HomePickup, TLAPS

Closed == {"cancelled", "no_show", "boarded"}

\* Before the booking commits there is nothing to work on, and a departure
\* under way keeps it from committing.
NothingBooked ==
    /\ pickup = "none" =>
          /\ \A x \in Seats : seat[x] = NoSeat
          /\ \A s \in Sessions :
                /\ session[s].step \in {"idle", "book", "depart"}
                /\ session[s].step = "depart" => session[s].on = {} /\ session[s].pickup = "keep"
    /\ \A s \in Sessions : session[s].step = "book" => pickup = "none"
    /\ \A s \in Sessions : session[s].step = "depart" => "trip" \in session[s].locks
    /\ \A s, q \in Sessions : session[s].step = "book" /\ session[q].step = "book" => s = q

\* The pickup's row has one holder.
OneHolder ==
    \A s, q \in Sessions :
        "pickup" \in session[s].locks /\ "pickup" \in session[q].locks => s = q

\* What each handler may write to the pickup.
Intent ==
    \A s \in Sessions :
        /\ session[s].step = "close" => "pickup" \in session[s].locks
        /\ session[s].step \in {"flush", "cancel"} =>
              \/ session[s].pickup = "cancelled"
              \/ session[s].pickup = "keep" /\ pickup \in Closed
        /\ session[s].step = "depart" =>
              /\ session[s].pickup \in {"keep", "no_show"}
              /\ "theirs" \in session[s].on =>
                    session[s].pickup = "no_show" \/ pickup \in Closed
        /\ session[s].step = "mark" => session[s].pickup \in {"keep", "activated"}

\* A mark that activates holds the pickup still requested and both fares; one
\* that leaves a requested pickup alone holds it too, and a fare is missing.
Marking ==
    \A s \in Sessions : session[s].step = "mark" =>
        /\ session[s].pickup = "activated" =>
              /\ pickup = "requested"
              /\ \A x \in Seats : x \in session[s].on \/ seat[x].paid
        /\ pickup = "requested" =>
              /\ "pickup" \in session[s].locks
              /\ \/ session[s].pickup = "activated"
                 \/ \E x \in Seats : x \notin session[s].on /\ ~seat[x].paid

\* What the state of the pickup says of the seats and the trip.
Tied ==
    /\ \A x \in Seats : seat[x].status = "cancelled" => pickup \in Closed
    /\ pickup \in OPEN => Standing("theirs") /\ seat["theirs"].held
    /\ pickup \in {"activated", "arrived"} => seat["theirs"].paid
    /\ pickup = "arrived" => trip.status \in {"departed", "completed"}
    /\ (pickup \in OPEN /\ trip.status \in BEFORE_DEPARTURE) =>
          Standing("own") /\ seat["own"].held

\* The outcome a close writes on the seat as well.
Outcomes ==
    \A s \in Sessions :
        session[s].step = "close" => session[s].pickup \in {"boarded", "no_show"}

Promises == Outcomes /\ NothingBooked /\ OneHolder /\ Intent /\ Marking /\ Tied /\ BothPaidActivates

IInv == TypeOK /\ Promises

-----------------------------------------------------------------------------
USE DEF Closed, Seats, Rows, STANDING, OPEN, BEFORE_DEPARTURE, Statuses, Steps, Idle, NoSeat

SeatType == [status   : {"none", "cancelled", "no_show", "boarded"} \cup STANDING,
             paid     : BOOLEAN,
             released : BOOLEAN,
             held     : BOOLEAN]

SessionType == [step   : Steps,
                on     : SUBSET Seats,
                locks  : SUBSET Rows,
                pickup : Statuses \cup {"keep"},
                why    : {"none", "standing", "released", "asked", "auto_release", "departure"}]

\* One session goes on with a record of the type of a session.
LEMMA SessionMoves ==
    ASSUME session \in [Sessions -> SessionType], NEW s \in Sessions,
           NEW r \in SessionType, session' = [session EXCEPT ![s] = r]
    PROVE  session' \in [Sessions -> SessionType]
  OBVIOUS

LEMMA EndType ==
    ASSUME session \in [Sessions -> SessionType], NEW s \in Sessions, End(s)
    PROVE  session' \in [Sessions -> SessionType]
  BY DEF End, SessionType

LEMMA PickupType ==
    ASSUME pickup \in Statuses, session \in [Sessions -> SessionType],
           NEW s \in Sessions, WritePickup(s)
    PROVE  pickup' \in Statuses
  BY DEF WritePickup, SessionType

\* What a request does first keeps the types.
LEMMA TypeHandle ==
    ASSUME TypeOK, NEW s \in Sessions, Handle(s)
    PROVE  TypeOK'
<1>1. CASE Book(s) BY <1>1 DEF TypeOK, Book, Begin
<1>2. CASE Activate(s) BY <1>2 DEF TypeOK, Activate
<1>3. CASE Arrived(s) BY <1>3 DEF TypeOK, Arrived
<1>4. CASE Sweep(s) BY <1>4 DEF TypeOK, Sweep, Begin
<1>5. CASE Depart(s) BY <1>5 DEF TypeOK, Depart
<1>6. ASSUME NEW x \in Seats, MarkPaid(s, x) PROVE TypeOK'
  <2>1. CASE Begin(s, "pay", {x}, "standing") BY <2>1 DEF TypeOK, Begin
  <2>2. CASE Begin(s, "pay", {x}, "released") BY <2>2 DEF TypeOK, Begin
  <2> QED BY <1>6, <2>1, <2>2 DEF MarkPaid
<1>7. ASSUME NEW x \in Seats, Cancel(s, x) PROVE TypeOK'
  BY <1>7 DEF TypeOK, Cancel, Begin
<1>8. ASSUME NEW x \in Seats, CheckIn(s, x) PROVE TypeOK'
  BY <1>8 DEF TypeOK, CheckIn, Begin
<1>9. ASSUME NEW x \in Seats, UndoCheckIn(s, x) PROVE TypeOK'
  BY <1>9 DEF TypeOK, UndoCheckIn, Begin
<1>10. ASSUME NEW o \in {"boarded", "no_show"}, Close(s, o) PROVE TypeOK'
  <2> DEFINE r == [Idle EXCEPT !.step = "close", !.on = {"theirs"},
                               !.locks = {"trip", "pickup"}, !.pickup = o]
  <2>1. r \in SessionType
    BY DEF SessionType
  <2>2. session' = [session EXCEPT ![s] = r] /\ UNCHANGED <<trip, seat, pickup>>
    BY <1>10 DEF Close
  <2> QED
    BY <2>1, <2>2 DEF TypeOK, SessionType
<1> QED
  BY <1>1, <1>2, <1>3, <1>4, <1>5, <1>6, <1>7, <1>8, <1>9, <1>10 DEF Handle

\* So does every later step of a handler.
LEMMA TypeProceed ==
    ASSUME TypeOK, Outcomes, NEW s \in Sessions, Proceed(s)
    PROVE  TypeOK'
<1> USE DEF SessionType, SeatType
<1>0. /\ session \in [Sessions -> SessionType] /\ session[s] \in SessionType
      /\ seat \in [Seats -> SeatType] /\ pickup \in Statuses
  BY DEF TypeOK
<1>1. CASE CommitBook(s) BY <1>1 DEF TypeOK, CommitBook, End
<1>2. CASE Pay(s)
  <2> DEFINE r == [session[s] EXCEPT !.step = "look", !.locks = session[s].on]
  <2>1. r \in SessionType
    BY <1>0
  <2>2. session' = [session EXCEPT ![s] = r] /\ UNCHANGED <<trip, seat, pickup>>
    BY <1>2 DEF Pay
  <2>3. session' \in [Sessions -> SessionType]
    BY <1>0, <2>1, <2>2, SessionMoves
  <2> QED
    BY <2>2, <2>3 DEF TypeOK
<1>3. CASE SeatGone(s) BY <1>3 DEF TypeOK, SeatGone, End
<1>4. CASE LookAtPickup(s)
  <2> DEFINE r == [session[s] EXCEPT
                     !.step = "mark",
                     !.locks = IF pickup = "requested" THEN session[s].locks \cup {"pickup"}
                               ELSE session[s].locks,
                     !.pickup = IF pickup = "requested" /\ BothSeatsPaid(s)
                                THEN "activated" ELSE "keep"]
  <2>1. r \in SessionType
    BY <1>0
  <2>2. session' = [session EXCEPT ![s] = r] /\ UNCHANGED <<trip, seat, pickup>>
    BY <1>4 DEF LookAtPickup
  <2>3. session' \in [Sessions -> SessionType]
    BY <1>0, <2>1, <2>2, SessionMoves
  <2> QED
    BY <2>2, <2>3 DEF TypeOK
<1>5. CASE CommitMark(s)
  <2>1. session' \in [Sessions -> SessionType] /\ pickup' \in Statuses /\ trip' = trip
    BY <1>0, <1>5, EndType, PickupType DEF CommitMark
  <2>2. \A x \in Seats : seat[x] \in SeatType
    BY <1>0
  <2>3. seat' \in [Seats -> SeatType]
    <3>1. ASSUME NEW x \in Seats PROVE [seat[x] EXCEPT !.paid = TRUE] \in SeatType
      BY <2>2
    <3> QED
      BY <1>5, <2>2, <3>1 DEF CommitMark
  <2> QED
    BY <2>1, <2>3 DEF TypeOK
<1>6. CASE CommitClose(s)
  <2>1. session' \in [Sessions -> SessionType] /\ pickup' \in Statuses /\ trip' = trip
    BY <1>0, <1>6, EndType, PickupType DEF CommitClose
  <2>2. seat["theirs"] \in SeatType
    BY <1>0
  <2> QED
    <3> DEFINE r == [seat["theirs"] EXCEPT
                       !.status = session[s].pickup,
                       !.held = seat["theirs"].held /\ session[s].pickup = "boarded"]
    <3>1. ASSUME session[s].pickup \in {"boarded", "no_show"} PROVE r \in SeatType
      <4> DEFINE h == seat["theirs"].held /\ session[s].pickup = "boarded"
      <4>1. h \in BOOLEAN
        OBVIOUS
      <4> HIDE DEF h
      <4>2. [seat["theirs"] EXCEPT !.status = session[s].pickup, !.held = h] \in SeatType
        BY <2>2, <3>1, <4>1
      <4> QED
        BY <4>2 DEF h
    <3>2. seat' = [seat EXCEPT !["theirs"] = r]
      BY <1>6 DEF CommitClose
    <3>3. r \in SeatType
      BY <1>6, <3>1 DEF CommitClose, Outcomes
    <3> HIDE DEF r
    <3> QED
      BY <1>0, <2>1, <3>2, <3>3 DEF TypeOK
<1>7. CASE Cascade(s)
  <2> DEFINE r == [session[s] EXCEPT
                     !.step = "flush",
                     !.pickup = IF pickup \in OPEN THEN "cancelled" ELSE "keep",
                     !.on = IF pickup \in OPEN /\ "own" \in session[s].on /\ Standing("theirs")
                            THEN session[s].on \cup {"theirs"} ELSE session[s].on]
  <2>1. r \in SessionType
    BY <1>0
  <2>2. session' = [session EXCEPT ![s] = r] /\ UNCHANGED <<trip, seat, pickup>>
    BY <1>7 DEF Cascade
  <2>3. session' \in [Sessions -> SessionType]
    BY <1>0, <2>1, <2>2, SessionMoves
  <2> QED
    BY <2>2, <2>3 DEF TypeOK
<1>8. CASE Flush(s)
  <2> DEFINE r == [session[s] EXCEPT !.step = "cancel", !.locks = session[s].on]
  <2>1. r \in SessionType
    BY <1>0
  <2>2. session' = [session EXCEPT ![s] = r] /\ UNCHANGED <<trip, seat, pickup>>
    BY <1>8 DEF Flush
  <2>3. session' \in [Sessions -> SessionType]
    BY <1>0, <2>1, <2>2, SessionMoves
  <2> QED
    BY <2>2, <2>3 DEF TypeOK
<1>9. CASE CommitCancel(s)
  <2>1. session' \in [Sessions -> SessionType] /\ pickup' \in Statuses /\ trip' = trip
    BY <1>0, <1>9, EndType, PickupType DEF CommitCancel
  <2>2. \A x \in Seats : seat[x] \in SeatType
    BY <1>0
  <2>3. seat' \in [Seats -> SeatType]
    <3> DEFINE v == session[s].why = "auto_release"
    <3>0. v \in BOOLEAN
      OBVIOUS
    <3>1. ASSUME NEW x \in Seats
          PROVE  [seat[x] EXCEPT !.status = "cancelled", !.held = FALSE, !.released = v] \in SeatType
      <4> HIDE DEF v
      <4> QED BY <2>2, <3>0
    <3>2. seat' = [x \in Seats |->
                     IF x \in session[s].on
                     THEN [seat[x] EXCEPT !.status = "cancelled", !.held = FALSE, !.released = v]
                     ELSE seat[x]]
      BY <1>9 DEF CommitCancel
    <3> HIDE DEF v
    <3> QED
      BY <2>2, <3>1, <3>2
  <2> QED
    BY <2>1, <2>3 DEF TypeOK
<1>10. CASE CommitStatus(s) BY <1>10 DEF TypeOK, CommitStatus, End
<1>11. CASE CommitDepart(s)
  <2>1. session' \in [Sessions -> SessionType] /\ pickup' \in Statuses
    BY <1>0, <1>11, EndType, PickupType DEF CommitDepart
  <2>2. \A x \in Seats : seat[x] \in SeatType
    BY <1>0
  <2>3. ASSUME NEW x \in Seats
        PROVE  [seat[x] EXCEPT !.status = "no_show", !.held = FALSE] \in SeatType
    BY <2>2
  <2>4. seat' \in [Seats -> SeatType]
    BY <1>11, <2>2, <2>3 DEF CommitDepart
  <2>5. trip' = [status |-> "departed", locked |-> TRUE]
    BY <1>11 DEF CommitDepart
  <2> QED
    BY <2>1, <2>4, <2>5 DEF TypeOK
<1>12. CASE LockTimeout(s) BY <1>12 DEF TypeOK, LockTimeout, End
<1> QED
  BY <1>1, <1>2, <1>3, <1>4, <1>5, <1>6, <1>7, <1>8, <1>9, <1>10, <1>11, <1>12 DEF Proceed

\* A step that only moves one handler on, to a step that has promised nothing.
LEMMA QuietMove ==
    ASSUME IInv, NEW s \in Sessions, NEW r \in SessionType,
           session' = [session EXCEPT ![s] = r], UNCHANGED <<trip, seat, pickup>>,
           r.step \in {"idle", "pay", "look", "cascade", "checked_in", "confirmed"},
           r.step = "idle" \/ pickup # "none",
           "pickup" \notin r.locks
    PROVE  Promises'
<1>0. session \in [Sessions -> SessionType]
  BY DEF IInv, TypeOK, SessionType
<1>1. \A q \in Sessions : session'[q] = IF q = s THEN r ELSE session[q]
  BY <1>0
<1>2. trip' = trip /\ seat' = seat /\ pickup' = pickup
  OBVIOUS
<1> USE DEF IInv, Promises
<1>3. Outcomes' BY <1>1 DEF Outcomes
<1>4. NothingBooked' BY <1>1, <1>2 DEF NothingBooked
<1>5. OneHolder' BY <1>1 DEF OneHolder
<1>6. Intent' BY <1>1, <1>2 DEF Intent
<1>7. Marking' BY <1>1, <1>2 DEF Marking
<1>8. Tied' BY <1>2 DEF Tied, Standing
<1>9. BothPaidActivates' BY <1>2 DEF BothPaidActivates
<1> QED BY <1>3, <1>4, <1>5, <1>6, <1>7, <1>8, <1>9

\* Most requests begin with a look at a seat that is booked.
LEMMA BeginQuietly ==
    ASSUME IInv, NEW s \in Sessions, NEW step \in {"pay", "cascade", "checked_in", "confirmed"},
           NEW on \in SUBSET Seats, NEW why \in {"none", "standing", "released", "asked", "auto_release"},
           Begin(s, step, on, why), \E x \in Seats : seat[x] # NoSeat
    PROVE  Promises'
<1> DEFINE r == [Idle EXCEPT !.step = step, !.on = on, !.why = why]
<1>1. r \in SessionType /\ r.step = step /\ r.locks = {}
  BY DEF SessionType
<1>2. session' = [session EXCEPT ![s] = r] /\ UNCHANGED <<trip, seat, pickup>>
  BY DEF Begin
<1>3. pickup # "none"
  BY DEF IInv, Promises, NothingBooked
<1> HIDE DEF r
<1> QED
  BY <1>1, <1>2, <1>3, QuietMove

LEMMA EndQuietly ==
    ASSUME IInv, NEW s \in Sessions, End(s), UNCHANGED <<trip, seat, pickup>>
    PROVE  Promises'
<1>1. Idle \in SessionType /\ Idle.step = "idle" /\ Idle.locks = {}
  BY DEF SessionType
<1> QED
  BY <1>1, QuietMove DEF End

\* One booking at a time, and only while there is none.
LEMMA BookKeeps ==
    ASSUME IInv, NEW s \in Sessions, Book(s)
    PROVE  Promises'
<1>0. session \in [Sessions -> SessionType]
  BY DEF IInv, TypeOK, SessionType
<1> USE DEF IInv, Promises
<1> DEFINE r == [Idle EXCEPT !.step = "book", !.on = Seats, !.why = "none"]
<1>1. \A q \in Sessions : session'[q] = IF q = s THEN r ELSE session[q]
  BY <1>0 DEF Book, Begin
<1>10. r.step = "book" /\ r.locks = {}
  OBVIOUS
<1> HIDE DEF r
<1>2. /\ trip' = trip /\ seat' = seat /\ pickup' = pickup /\ pickup = "none"
      /\ \A q \in Sessions : session[q].step # "book"
  BY DEF Book, Begin
<1>3. Outcomes' BY <1>1, <1>2, <1>10 DEF Outcomes
<1>4. NothingBooked' BY <1>1, <1>2, <1>10 DEF NothingBooked
<1>5. OneHolder' BY <1>1, <1>2, <1>10 DEF OneHolder
<1>6. Intent' BY <1>1, <1>2, <1>10 DEF Intent
<1>7. Marking' BY <1>1, <1>2, <1>10 DEF Marking
<1>8. Tied' BY <1>1, <1>2, <1>10 DEF Tied, Standing
<1>9. BothPaidActivates' BY <1>1, <1>2, <1>10 DEF BothPaidActivates
<1> QED BY <1>3, <1>4, <1>5, <1>6, <1>7, <1>8, <1>9

\* The crew activates a pickup whose passenger has paid, and arrives after the departure.
\* Both hold the pickup, so no mark holds it too.
LEMMA CrewKeeps ==
    ASSUME IInv, NEW s \in Sessions, Activate(s) \/ Arrived(s)
    PROVE  Promises'
<1>0. session \in [Sessions -> SessionType]
  BY DEF IInv, TypeOK, SessionType
<1> USE DEF IInv, Promises
<1>1. session' = session /\ trip' = trip /\ seat' = seat
  BY DEF Activate, Arrived
<1>2. /\ pickup \in {"requested", "activated"} /\ pickup' \in {"activated", "arrived"}
      /\ pickup' = "activated" => pickup = "requested" /\ seat["theirs"].paid
      /\ pickup' = "arrived" => pickup = "activated" /\ trip.status = "departed"
      /\ \A q \in Sessions : q # s => "pickup" \notin session[q].locks
      /\ session[s].step = "idle"
  BY DEF Activate, Arrived, Crew, Taken
<1>3. Outcomes' BY <1>1, <1>2 DEF Outcomes
<1>4. NothingBooked' BY <1>1, <1>2 DEF NothingBooked
<1>5. OneHolder' BY <1>1, <1>2 DEF OneHolder
<1>6. Intent' BY <1>1, <1>2 DEF Intent
<1>7. Marking' BY <1>1, <1>2 DEF Marking
<1>8. Tied' BY <1>1, <1>2 DEF Tied, Standing
<1>9. BothPaidActivates' BY <1>1, <1>2 DEF BothPaidActivates
<1> QED BY <1>3, <1>4, <1>5, <1>6, <1>7, <1>8, <1>9

\* A close begins with the pickup in its hands.
LEMMA CloseKeeps ==
    ASSUME IInv, NEW s \in Sessions, NEW o \in {"boarded", "no_show"}, Close(s, o)
    PROVE  Promises'
<1>0. session \in [Sessions -> SessionType]
  BY DEF IInv, TypeOK, SessionType
<1> USE DEF IInv, Promises
<1> DEFINE r == [Idle EXCEPT !.step = "close", !.on = {"theirs"},
                             !.locks = {"trip", "pickup"}, !.pickup = o]
<1>1. \A q \in Sessions : session'[q] = IF q = s THEN r ELSE session[q]
  BY <1>0 DEF Close
<1>10. r.step = "close" /\ r.locks = {"trip", "pickup"} /\ r.pickup = o
  OBVIOUS
<1> HIDE DEF r
<1>2. /\ trip' = trip /\ seat' = seat /\ pickup' = pickup /\ pickup = "arrived"
      /\ \A q \in Sessions : q # s => "pickup" \notin session[q].locks
  BY DEF Close, Crew, Taken
<1>3. Outcomes' BY <1>1, <1>2, <1>10 DEF Outcomes
<1>4. NothingBooked' BY <1>1, <1>2, <1>10 DEF NothingBooked
<1>5. OneHolder' BY <1>1, <1>2, <1>10 DEF OneHolder
<1>6. Intent' BY <1>1, <1>2, <1>10 DEF Intent
<1>7. Marking' BY <1>1, <1>2, <1>10 DEF Marking
<1>8. Tied' BY <1>1, <1>2, <1>10 DEF Tied, Standing
<1>9. BothPaidActivates' BY <1>1, <1>2, <1>10 DEF BothPaidActivates
<1> QED BY <1>3, <1>4, <1>5, <1>6, <1>7, <1>8, <1>9

\* Depart leaves out the seat of an activated pickup, and misses a requested one.
LEMMA DepartKeeps ==
    ASSUME IInv, NEW s \in Sessions, Depart(s)
    PROVE  Promises'
<1>0. session \in [Sessions -> SessionType]
  BY DEF IInv, TypeOK, SessionType
<1> USE DEF IInv, Promises
<1> DEFINE r == [Idle EXCEPT !.step = "depart", !.locks = {"trip"}, !.why = "departure",
                             !.on = {x \in Seats : Standing(x)} \ BoardsLater,
                             !.pickup = IF pickup = "requested" THEN "no_show" ELSE "keep"]
<1>1. \A q \in Sessions : session'[q] = IF q = s THEN r ELSE session[q]
  BY <1>0 DEF Depart
<1>2. trip' = trip /\ seat' = seat /\ pickup' = pickup /\ trip.status = "boarding"
  BY DEF Depart
<1>10. pickup = "none" => r.on = {}
  BY DEF NothingBooked, Standing
<1>11. pickup # "arrived"
  BY <1>2 DEF Tied
<1>12. "theirs" \in r.on => r.pickup = "no_show" \/ pickup \in Closed
  BY <1>10, <1>11 DEF BoardsLater, Closed, TypeOK
<1>13. /\ r.step = "depart" /\ r.locks = {"trip"} /\ r.pickup \in {"keep", "no_show"}
       /\ pickup = "none" => r.pickup = "keep"
  OBVIOUS
<1> HIDE DEF r
<1>3. Outcomes' BY <1>1, <1>2, <1>10, <1>12, <1>13 DEF Outcomes
<1>4. NothingBooked' BY <1>1, <1>2, <1>10, <1>12, <1>13 DEF NothingBooked
<1>5. OneHolder' BY <1>1, <1>2, <1>10, <1>12, <1>13 DEF OneHolder
<1>6. Intent' BY <1>1, <1>2, <1>10, <1>12, <1>13 DEF Intent
<1>7. Marking' BY <1>1, <1>2, <1>10, <1>12, <1>13 DEF Marking
<1>8. Tied' BY <1>1, <1>2, <1>10, <1>12, <1>13 DEF Tied, Standing
<1>9. BothPaidActivates' BY <1>1, <1>2, <1>10, <1>12, <1>13 DEF BothPaidActivates
<1> QED BY <1>3, <1>4, <1>5, <1>6, <1>7, <1>8, <1>9

\* When the booking commits nobody else is at work: a departure would hold the trip.
LEMMA CommitBookKeeps ==
    ASSUME IInv, NEW s \in Sessions, CommitBook(s)
    PROVE  Promises'
<1>0. session \in [Sessions -> SessionType] /\ session[s] \in SessionType
  BY DEF IInv, TypeOK, SessionType
<1> USE DEF IInv, Promises
<1>1. \A q \in Sessions : session'[q] = IF q = s THEN Idle ELSE session[q]
  BY <1>0 DEF CommitBook, End
<1>2. /\ \A x \in Seats : seat'[x].status = "confirmed" /\ ~seat'[x].paid /\ seat'[x].held
      /\ pickup = "none" /\ pickup' = "requested"
  BY DEF CommitBook, NothingBooked
<1>10. \A q \in Sessions : q # s => session[q].step = "idle"
  BY <1>2 DEF CommitBook, Taken, NothingBooked
<1>3. Outcomes' BY <1>1, <1>2, <1>10 DEF Outcomes
<1>4. NothingBooked' BY <1>1, <1>2, <1>10 DEF NothingBooked
<1>5. OneHolder' BY <1>1, <1>2, <1>10 DEF OneHolder
<1>6. Intent' BY <1>1, <1>2, <1>10 DEF Intent
<1>7. Marking' BY <1>1, <1>2, <1>10 DEF Marking
<1>8. Tied' BY <1>1, <1>2, <1>10 DEF Tied, Standing
<1>9. BothPaidActivates' BY <1>1, <1>2, <1>10 DEF BothPaidActivates
<1> QED BY <1>3, <1>4, <1>5, <1>6, <1>7, <1>8, <1>9

\* The look holds the pickup when it finds it requested, and sees every fare committed till then.
LEMMA LookKeeps ==
    ASSUME IInv, NEW s \in Sessions, LookAtPickup(s)
    PROVE  Promises'
<1>0. session \in [Sessions -> SessionType] /\ session[s] \in SessionType
  BY DEF IInv, TypeOK, SessionType
<1> USE DEF IInv, Promises
<1> DEFINE r == [session[s] EXCEPT
                   !.step = "mark",
                   !.locks = IF pickup = "requested" THEN session[s].locks \cup {"pickup"}
                             ELSE session[s].locks,
                   !.pickup = IF pickup = "requested" /\ BothSeatsPaid(s)
                              THEN "activated" ELSE "keep"]
<1>1. \A q \in Sessions : session'[q] = IF q = s THEN r ELSE session[q]
  BY <1>0 DEF LookAtPickup
<1>2. /\ trip' = trip /\ seat' = seat /\ pickup' = pickup
      /\ session[s].step = "look" /\ pickup # "none"
      /\ \A q \in Sessions : q # s => "pickup" \notin session[q].locks
  BY DEF LookAtPickup, Taken, NothingBooked
<1>10. r.step = "mark" /\ r.on = session[s].on
  BY <1>0 DEF SessionType
<1>11. /\ r.pickup \in {"keep", "activated"}
       /\ r.pickup = "activated" => pickup = "requested" /\ BothSeatsPaid(s)
       /\ pickup = "requested" /\ BothSeatsPaid(s) => r.pickup = "activated"
  BY <1>0 DEF SessionType
<1>12. pickup = "requested" => "pickup" \in r.locks
  BY <1>0 DEF SessionType
<1> HIDE DEF r
<1>3. Outcomes' BY <1>1, <1>2, <1>10, <1>11, <1>12 DEF Outcomes
<1>4. NothingBooked' BY <1>1, <1>2, <1>10, <1>11, <1>12 DEF NothingBooked
<1>5. OneHolder' BY <1>1, <1>2, <1>10, <1>11, <1>12 DEF OneHolder
<1>6. Intent' BY <1>1, <1>2, <1>10, <1>11, <1>12 DEF Intent
<1>7. Marking' BY <1>1, <1>2, <1>10, <1>11, <1>12 DEF Marking, BothSeatsPaid
<1>8. Tied' BY <1>1, <1>2, <1>10, <1>11, <1>12 DEF Tied, Standing
<1>9. BothPaidActivates' BY <1>1, <1>2, <1>10, <1>11, <1>12 DEF BothPaidActivates
<1> QED BY <1>3, <1>4, <1>5, <1>6, <1>7, <1>8, <1>9

\* A mark that does not activate leaves a fare missing; one that activates has both.
LEMMA CommitMarkKeeps ==
    ASSUME IInv, NEW s \in Sessions, CommitMark(s)
    PROVE  Promises'
<1>0. session \in [Sessions -> SessionType] /\ session[s] \in SessionType
  BY DEF IInv, TypeOK, SessionType
<1> USE DEF IInv, Promises
<1>1. \A q \in Sessions : session'[q] = IF q = s THEN Idle ELSE session[q]
  BY <1>0 DEF CommitMark, End
<1>2. /\ session[s].step = "mark" /\ trip' = trip /\ pickup # "none"
      /\ pickup' = IF session[s].pickup = "keep" THEN pickup ELSE session[s].pickup
  BY DEF CommitMark, WritePickup, NothingBooked
<1>10. \A x \in Seats :
         /\ x \notin session[s].on => seat'[x] = seat[x]
         /\ x \in session[s].on =>
               /\ seat'[x].paid
               /\ \/ seat'[x].status = seat[x].status /\ seat'[x].held = seat[x].held
                  \/ seat'[x].status = "confirmed" /\ seat'[x].held
  <2>1. \A x \in Seats : seat[x] \in SeatType
    BY DEF TypeOK, SeatType
  <2> QED
    BY <2>1 DEF CommitMark, SeatType
<1>11. /\ pickup' = pickup \/ (pickup = "requested" /\ pickup' = "activated")
       /\ pickup' = "activated" /\ pickup = "requested" =>
             \A x \in Seats : x \in session[s].on \/ seat[x].paid
       /\ pickup' = "requested" => \E x \in Seats : x \notin session[s].on /\ ~seat[x].paid
       /\ pickup = "requested" => "pickup" \in session[s].locks
  BY <1>2 DEF Intent, Marking
<1>12. \A q \in Sessions \ {s} :
         session[q].step = "mark" => pickup # "requested" /\ session[q].pickup # "activated"
  BY <1>11, <1>2 DEF Marking, OneHolder
<1>13. \A q \in Sessions : q # s => session'[q] = session[q]
  BY <1>1
<1>14. session'[s].step = "idle" /\ session'[s].locks = {}
  BY <1>1
<1>3. Outcomes' BY <1>13, <1>14 DEF Outcomes
<1>4. NothingBooked' BY <1>2, <1>11, <1>13, <1>14 DEF NothingBooked
<1>5. OneHolder' BY <1>13, <1>14 DEF OneHolder
<1>6. Intent' BY <1>11, <1>13, <1>14 DEF Intent
<1>7. Marking' BY <1>11, <1>12, <1>13, <1>14 DEF Marking
<1>8. Tied' BY <1>2, <1>10, <1>11 DEF Tied, Standing
<1>9. BothPaidActivates' BY <1>10, <1>11 DEF BothPaidActivates
<1> QED BY <1>3, <1>4, <1>5, <1>6, <1>7, <1>8, <1>9

\* A close ends the pickup.
LEMMA CommitCloseKeeps ==
    ASSUME IInv, NEW s \in Sessions, CommitClose(s)
    PROVE  Promises'
<1>0. session \in [Sessions -> SessionType] /\ session[s] \in SessionType
  BY DEF IInv, TypeOK, SessionType
<1> USE DEF IInv, Promises
<1>1. \A q \in Sessions : session'[q] = IF q = s THEN Idle ELSE session[q]
  BY <1>0 DEF CommitClose, End
<1>2. /\ session[s].step = "close" /\ trip' = trip /\ pickup # "none"
      /\ pickup' \in {"boarded", "no_show"}
  BY DEF CommitClose, WritePickup, NothingBooked, Outcomes
<1>10. seat'["own"] = seat["own"]
  BY DEF CommitClose, TypeOK
<1>11. /\ \A q \in Sessions : q # s => "pickup" \notin session[q].locks
  BY <1>2 DEF OneHolder, Intent
<1>3. Outcomes' BY <1>1, <1>2, <1>10, <1>11 DEF Outcomes
<1>4. NothingBooked' BY <1>1, <1>2, <1>10, <1>11 DEF NothingBooked
<1>5. OneHolder' BY <1>1, <1>2, <1>10, <1>11 DEF OneHolder
<1>6. Intent' BY <1>1, <1>2, <1>10, <1>11 DEF Intent
<1>7. Marking' BY <1>1, <1>2, <1>10, <1>11 DEF Marking
<1>8. Tied' BY <1>1, <1>2, <1>10, <1>11 DEF Tied, Standing
<1>9. BothPaidActivates' BY <1>1, <1>2, <1>10, <1>11 DEF BothPaidActivates
<1> QED BY <1>3, <1>4, <1>5, <1>6, <1>7, <1>8, <1>9

\* The cascade cancels an open pickup, or finds it closed for good.
LEMMA CascadeKeeps ==
    ASSUME IInv, NEW s \in Sessions, Cascade(s)
    PROVE  Promises'
<1>0. session \in [Sessions -> SessionType] /\ session[s] \in SessionType
  BY DEF IInv, TypeOK, SessionType
<1> USE DEF IInv, Promises
<1> DEFINE r == [session[s] EXCEPT
                   !.step = "flush",
                   !.pickup = IF pickup \in OPEN THEN "cancelled" ELSE "keep",
                   !.on = IF pickup \in OPEN /\ "own" \in session[s].on /\ Standing("theirs")
                          THEN session[s].on \cup {"theirs"} ELSE session[s].on]
<1>1. \A q \in Sessions : session'[q] = IF q = s THEN r ELSE session[q]
  BY <1>0 DEF Cascade
<1>2. /\ trip' = trip /\ seat' = seat /\ pickup' = pickup
      /\ session[s].step = "cascade" /\ pickup # "none"
  BY DEF Cascade, NothingBooked
<1>10. r.step = "flush" /\ r.locks = session[s].locks
  BY <1>0 DEF SessionType
<1>11. r.pickup = IF pickup \in OPEN THEN "cancelled" ELSE "keep"
  BY <1>0 DEF SessionType
<1>12. pickup \in OPEN \cup Closed
  BY <1>2 DEF TypeOK
<1> HIDE DEF r
<1>3. Outcomes' BY <1>1, <1>2, <1>10, <1>11, <1>12 DEF Outcomes
<1>4. NothingBooked' BY <1>1, <1>2, <1>10, <1>11, <1>12 DEF NothingBooked
<1>5. OneHolder' BY <1>1, <1>2, <1>10, <1>11, <1>12 DEF OneHolder
<1>6. Intent' BY <1>1, <1>2, <1>10, <1>11, <1>12 DEF Intent
<1>7. Marking' BY <1>1, <1>2, <1>10, <1>11, <1>12 DEF Marking
<1>8. Tied' BY <1>1, <1>2, <1>10, <1>11, <1>12 DEF Tied, Standing
<1>9. BothPaidActivates' BY <1>1, <1>2, <1>10, <1>11, <1>12 DEF BothPaidActivates
<1> QED BY <1>3, <1>4, <1>5, <1>6, <1>7, <1>8, <1>9

\* The flush locks seats only.
LEMMA FlushKeeps ==
    ASSUME IInv, NEW s \in Sessions, Flush(s)
    PROVE  Promises'
<1>0. session \in [Sessions -> SessionType] /\ session[s] \in SessionType
  BY DEF IInv, TypeOK, SessionType
<1> USE DEF IInv, Promises
<1> DEFINE r == [session[s] EXCEPT !.step = "cancel", !.locks = session[s].on]
<1>1. \A q \in Sessions : session'[q] = IF q = s THEN r ELSE session[q]
  BY <1>0 DEF Flush
<1>2. /\ trip' = trip /\ seat' = seat /\ pickup' = pickup
      /\ session[s].step = "flush" /\ pickup # "none"
  BY DEF Flush, NothingBooked
<1>10. r.step = "cancel" /\ r.pickup = session[s].pickup /\ r.locks \in SUBSET Seats
  BY <1>0 DEF SessionType
<1> HIDE DEF r
<1>3. Outcomes' BY <1>1, <1>2, <1>10 DEF Outcomes
<1>4. NothingBooked' BY <1>1, <1>2, <1>10 DEF NothingBooked
<1>5. OneHolder' BY <1>1, <1>2, <1>10 DEF OneHolder
<1>6. Intent' BY <1>1, <1>2, <1>10 DEF Intent
<1>7. Marking' BY <1>1, <1>2, <1>10 DEF Marking
<1>8. Tied' BY <1>1, <1>2, <1>10 DEF Tied, Standing
<1>9. BothPaidActivates' BY <1>1, <1>2, <1>10 DEF BothPaidActivates
<1> QED BY <1>3, <1>4, <1>5, <1>6, <1>7, <1>8, <1>9

\* A cancellation leaves the pickup closed, and no mark under way still counts on it.
LEMMA CommitCancelKeeps ==
    ASSUME IInv, NEW s \in Sessions, CommitCancel(s)
    PROVE  Promises'
<1>0. session \in [Sessions -> SessionType] /\ session[s] \in SessionType
  BY DEF IInv, TypeOK, SessionType
<1> USE DEF IInv, Promises
<1>1. /\ \A q \in Sessions : q # s => session'[q] = session[q]
      /\ session'[s].step = "idle" /\ session'[s].locks = {}
  BY <1>0 DEF CommitCancel, End
<1>2. /\ session[s].step = "cancel" /\ trip' = trip
      /\ pickup' \in Closed /\ pickup # "none"
      /\ \A x \in Seats : seat'[x].paid = seat[x].paid
  <2>1. \A x \in Seats : seat[x] \in SeatType
    BY DEF TypeOK, SeatType
  <2> QED
    BY <2>1 DEF CommitCancel, WritePickup, Intent, NothingBooked, SeatType
<1>10. pickup' # pickup =>
         \A q \in Sessions \ {s} : "pickup" \notin session[q].locks
  BY <1>2 DEF CommitCancel, WritePickup, PickupRow, Taken
<1>3. Outcomes' BY <1>1, <1>2, <1>10 DEF Outcomes
<1>4. NothingBooked' BY <1>1, <1>2, <1>10 DEF NothingBooked
<1>5. OneHolder' BY <1>1, <1>2, <1>10 DEF OneHolder
<1>6. Intent' BY <1>1, <1>2, <1>10 DEF Intent
<1>7. Marking' BY <1>1, <1>2, <1>10 DEF Marking
<1>8. Tied' BY <1>1, <1>2, <1>10 DEF Tied, Standing
<1>9. BothPaidActivates' BY <1>1, <1>2, <1>10 DEF BothPaidActivates
<1> QED BY <1>3, <1>4, <1>5, <1>6, <1>7, <1>8, <1>9

\* A check-in or its undo leaves the seat standing.
LEMMA CommitStatusKeeps ==
    ASSUME IInv, NEW s \in Sessions, CommitStatus(s)
    PROVE  Promises'
<1>0. session \in [Sessions -> SessionType] /\ session[s] \in SessionType
  BY DEF IInv, TypeOK, SessionType
<1> USE DEF IInv, Promises
<1>1. /\ \A q \in Sessions : q # s => session'[q] = session[q]
      /\ session'[s].step = "idle" /\ session'[s].locks = {}
  BY <1>0 DEF CommitStatus, End
<1>2. /\ session[s].step \in STANDING /\ trip' = trip /\ pickup' = pickup /\ pickup # "none"
  BY DEF CommitStatus, NothingBooked
<1>10. \A x \in Seats :
         /\ seat'[x].paid = seat[x].paid /\ seat'[x].held = seat[x].held
         /\ seat'[x].status = seat[x].status \/ seat'[x].status \in STANDING
  <2>1. \A x \in Seats : seat[x] \in SeatType
    BY DEF TypeOK, SeatType
  <2> QED
    BY <1>2, <2>1 DEF CommitStatus, SeatType
<1>3. Outcomes' BY <1>1, <1>2, <1>10 DEF Outcomes
<1>4. NothingBooked' BY <1>1, <1>2, <1>10 DEF NothingBooked
<1>5. OneHolder' BY <1>1, <1>2, <1>10 DEF OneHolder
<1>6. Intent' BY <1>1, <1>2, <1>10 DEF Intent
<1>7. Marking' BY <1>1, <1>2, <1>10 DEF Marking
<1>8. Tied' BY <1>1, <1>2, <1>10 DEF Tied, Standing
<1>9. BothPaidActivates' BY <1>1, <1>2, <1>10 DEF BothPaidActivates
<1> QED BY <1>3, <1>4, <1>5, <1>6, <1>7, <1>8, <1>9

\* The departure takes the passenger's seat only with the pickup.
LEMMA CommitDepartKeeps ==
    ASSUME IInv, NEW s \in Sessions, CommitDepart(s)
    PROVE  Promises'
<1>0. session \in [Sessions -> SessionType] /\ session[s] \in SessionType
  BY DEF IInv, TypeOK, SessionType
<1> USE DEF IInv, Promises
<1>1. /\ \A q \in Sessions : q # s => session'[q] = session[q]
      /\ session'[s].step = "idle" /\ session'[s].locks = {}
  BY <1>0 DEF CommitDepart, End
<1>2. /\ session[s].step = "depart" /\ trip'.status = "departed"
      /\ pickup' = IF session[s].pickup = "keep" THEN pickup ELSE "no_show"
      /\ pickup = "none" => pickup' = "none"
  BY DEF CommitDepart, WritePickup, Intent, NothingBooked
<1>10. \A x \in Seats :
         /\ seat'[x].paid = seat[x].paid
         /\ x \notin session[s].on => seat'[x] = seat[x]
         /\ x \in session[s].on => seat'[x].status = "no_show"
  <2>1. \A x \in Seats : seat[x] \in SeatType
    BY DEF TypeOK, SeatType
  <2> QED
    BY <1>2, <2>1 DEF CommitDepart, SeatType
<1>11. pickup' # pickup =>
         \A q \in Sessions \ {s} : "pickup" \notin session[q].locks
  BY <1>2 DEF CommitDepart, PickupRow, Taken
<1>12. "theirs" \in session[s].on => pickup' \in Closed
  BY <1>2 DEF Intent
<1>13. pickup = "none" => session[s].on = {}
  BY <1>2 DEF NothingBooked
<1>3. Outcomes' BY <1>1, <1>2, <1>10, <1>11, <1>12, <1>13 DEF Outcomes
<1>4. NothingBooked' BY <1>1, <1>2, <1>10, <1>11, <1>12, <1>13 DEF NothingBooked
<1>5. OneHolder' BY <1>1, <1>2, <1>10, <1>11, <1>12, <1>13 DEF OneHolder
<1>6. Intent' BY <1>1, <1>2, <1>10, <1>11, <1>12, <1>13 DEF Intent
<1>7. Marking' BY <1>1, <1>2, <1>10, <1>11, <1>12, <1>13 DEF Marking
<1>8. Tied' BY <1>1, <1>2, <1>10, <1>11, <1>12, <1>13 DEF Tied, Standing
<1>9. BothPaidActivates' BY <1>1, <1>2, <1>10, <1>11, <1>12, <1>13 DEF BothPaidActivates
<1> QED BY <1>3, <1>4, <1>5, <1>6, <1>7, <1>8, <1>9

\* No trip moves under a pickup whose crew has arrived.
LEMMA TripKeeps ==
    ASSUME IInv, Start \/ Void \/ Arrive \/ LockList
    PROVE  Promises'
<1> USE DEF IInv, Promises
<1>1. /\ session' = session /\ seat' = seat /\ pickup' = pickup
      /\ trip.status \in {"departed", "completed"} => trip'.status \in {"departed", "completed"}
      /\ trip'.status \in BEFORE_DEPARTURE => trip.status \in BEFORE_DEPARTURE
  BY DEF Start, Void, Arrive, LockList, MoveTrip, TypeOK
<1>3. Outcomes' BY <1>1 DEF Outcomes
<1>4. NothingBooked' BY <1>1 DEF NothingBooked
<1>5. OneHolder' BY <1>1 DEF OneHolder
<1>6. Intent' BY <1>1 DEF Intent
<1>7. Marking' BY <1>1 DEF Marking
<1>8. Tied' BY <1>1 DEF Tied, Standing
<1>9. BothPaidActivates' BY <1>1 DEF BothPaidActivates
<1> QED BY <1>3, <1>4, <1>5, <1>6, <1>7, <1>8, <1>9

LEMMA TypeStep == IInv /\ [Next]_vars => TypeOK'
<1> SUFFICES ASSUME TypeOK, Outcomes, [Next]_vars PROVE TypeOK'
  BY DEF IInv, Promises
<1>1. CASE UNCHANGED vars BY <1>1 DEF TypeOK, vars
<1>2. ASSUME NEW s \in Sessions, Handle(s) PROVE TypeOK' BY <1>2, TypeHandle
<1>3. ASSUME NEW s \in Sessions, Proceed(s) PROVE TypeOK' BY <1>3, TypeProceed
<1>4. CASE Start \/ Void \/ Arrive BY <1>4 DEF TypeOK, Start, Void, Arrive, MoveTrip
<1>5. CASE LockList BY <1>5 DEF TypeOK, LockList
<1> QED BY <1>1, <1>2, <1>3, <1>4, <1>5 DEF Next

\* A request keeps the promises of the handlers under way.
LEMMA HandleKeeps ==
    ASSUME IInv, NEW s \in Sessions, Handle(s)
    PROVE  Promises'
<1>1. CASE Book(s) BY <1>1, BookKeeps
<1>2. CASE Activate(s) \/ Arrived(s) BY <1>2, CrewKeeps
<1>3. CASE Depart(s) BY <1>3, DepartKeeps
<1>4. CASE Sweep(s)
  <2>1. \E x \in Seats : seat[x] # NoSeat
    BY <1>4 DEF Sweep, Unpaid, Standing
  <2>2. {x \in Seats : Unpaid(x)} \in SUBSET Seats
    OBVIOUS
  <2> QED
    BY <1>4, <2>1, <2>2, BeginQuietly DEF Sweep
<1>5. ASSUME NEW x \in Seats, MarkPaid(s, x) PROVE Promises'
  <2>1. seat[x] # NoSeat
    BY <1>5 DEF MarkPaid, Standing
  <2>2. Begin(s, "pay", {x}, "standing") \/ Begin(s, "pay", {x}, "released")
    BY <1>5 DEF MarkPaid
  <2>3. {x} \in SUBSET Seats
    BY <1>5
  <2> QED
    BY <2>1, <2>2, <2>3, BeginQuietly
<1>6. ASSUME NEW x \in Seats, Cancel(s, x) PROVE Promises'
  <2>1. seat[x] # NoSeat /\ Begin(s, "cascade", {x}, "asked") /\ {x} \in SUBSET Seats
    BY <1>6 DEF Cancel, Standing
  <2> QED
    BY <2>1, BeginQuietly
<1>7. ASSUME NEW x \in Seats, CheckIn(s, x) PROVE Promises'
  <2>1. seat[x] # NoSeat /\ Begin(s, "checked_in", {x}, "none") /\ {x} \in SUBSET Seats
    BY <1>7 DEF CheckIn
  <2> QED
    BY <2>1, BeginQuietly
<1>8. ASSUME NEW x \in Seats, UndoCheckIn(s, x) PROVE Promises'
  <2>1. seat[x] # NoSeat /\ Begin(s, "confirmed", {x}, "none") /\ {x} \in SUBSET Seats
    BY <1>8 DEF UndoCheckIn
  <2> QED
    BY <2>1, BeginQuietly
<1>9. ASSUME NEW o \in {"boarded", "no_show"}, Close(s, o) PROVE Promises'
  BY <1>9, CloseKeeps
<1> QED
  BY <1>1, <1>2, <1>3, <1>4, <1>5, <1>6, <1>7, <1>8, <1>9 DEF Handle

\* So does every later step of a handler.
LEMMA ProceedKeeps ==
    ASSUME IInv, NEW s \in Sessions, Proceed(s)
    PROVE  Promises'
<1>1. CASE Pay(s)
  <2> DEFINE r == [session[s] EXCEPT !.step = "look", !.locks = session[s].on]
  <2>1. session[s] \in SessionType
    BY DEF IInv, TypeOK, SessionType
  <2>2. r \in SessionType /\ r.step = "look" /\ r.locks \in SUBSET Seats
    BY <2>1 DEF SessionType
  <2>3. session' = [session EXCEPT ![s] = r] /\ UNCHANGED <<trip, seat, pickup>>
    BY <1>1 DEF Pay
  <2>4. pickup # "none"
    BY <1>1 DEF Pay, IInv, Promises, NothingBooked
  <2> HIDE DEF r
  <2> QED
    BY <2>2, <2>3, <2>4, QuietMove
<1>2. CASE SeatGone(s) BY <1>2, EndQuietly DEF SeatGone
<1>3. CASE LockTimeout(s) BY <1>3, EndQuietly DEF LockTimeout
<1>4. CASE CommitBook(s) BY <1>4, CommitBookKeeps
<1>5. CASE LookAtPickup(s) BY <1>5, LookKeeps
<1>6. CASE CommitMark(s) BY <1>6, CommitMarkKeeps
<1>7. CASE CommitClose(s) BY <1>7, CommitCloseKeeps
<1>8. CASE Cascade(s) BY <1>8, CascadeKeeps
<1>9. CASE Flush(s) BY <1>9, FlushKeeps
<1>10. CASE CommitCancel(s) BY <1>10, CommitCancelKeeps
<1>11. CASE CommitStatus(s) BY <1>11, CommitStatusKeeps
<1>12. CASE CommitDepart(s) BY <1>12, CommitDepartKeeps
<1> QED
  BY <1>1, <1>2, <1>3, <1>4, <1>5, <1>6, <1>7, <1>8, <1>9, <1>10, <1>11, <1>12 DEF Proceed

LEMMA IInvStep == IInv /\ [Next]_vars => IInv'
<1> SUFFICES ASSUME IInv, [Next]_vars PROVE Promises'
  BY TypeStep DEF IInv
<1>1. CASE UNCHANGED vars
  BY <1>1 DEF vars, IInv, Promises, Outcomes, NothingBooked, OneHolder, Intent, Marking,
              Tied, Standing, BothPaidActivates
<1>2. ASSUME NEW s \in Sessions, Handle(s) PROVE Promises' BY <1>2, HandleKeeps
<1>3. ASSUME NEW s \in Sessions, Proceed(s) PROVE Promises' BY <1>3, ProceedKeeps
<1>4. CASE Start \/ Void \/ Arrive \/ LockList BY <1>4, TripKeeps
<1> QED BY <1>1, <1>2, <1>3, <1>4 DEF Next

LEMMA IInvInit == Init => IInv
<1> SUFFICES ASSUME Init PROVE IInv
  OBVIOUS
<1>1. TypeOK BY DEF Init, TypeOK
<1>2. pickup = "none" /\ \A x \in Seats : seat[x] = NoSeat
  BY DEF Init
<1>3. \A s \in Sessions : session[s].step = "idle" /\ session[s].locks = {}
  BY DEF Init
<1>4. Outcomes /\ OneHolder /\ Intent /\ Marking
  BY <1>3 DEF Outcomes, OneHolder, Intent, Marking
<1>5. NothingBooked BY <1>2, <1>3 DEF NothingBooked
<1>6. Tied /\ BothPaidActivates BY <1>2 DEF Tied, BothPaidActivates
<1> QED BY <1>1, <1>4, <1>5, <1>6 DEF IInv, Promises

LEMMA IInvHolds == Spec => []IInv
  BY IInvInit, IInvStep, PTL DEF Spec

-----------------------------------------------------------------------------
\* Trips, seats, the pickup and the sessions keep their types: the handlers of
\* home_pickup.py, cash.py, check_in.py and boarding.py that reach a pickup.
THEOREM TypeCorrect == Spec => []TypeOK
<1>1. IInv => TypeOK
  BY DEF IInv
<1> QED
  BY <1>1, IInvHolds, PTL

\* Whatever the number of desks at work, a pickup with both fares paid does not
\* wait for its activation: on_seat_paid reads the other seat under the lock.
THEOREM PairedPaymentActivates == Spec => []BothPaidActivates
<1>1. IInv => BothPaidActivates
  BY DEF IInv, Promises
<1> QED
  BY <1>1, IInvHolds, PTL

\* Whatever the desks, the passenger and the cutoff job do at once, the
\* relative of an activated pickup has a seat that stands and holds its place,
\* until the departure.
THEOREM RelativeKeepsSeat == Spec => []RelativeHasSeat
<1>1. IInv => RelativeHasSeat
  BY DEF IInv, Promises, Tied, RelativeHasSeat
<1> QED
  BY <1>1, IInvHolds, PTL

\* The passenger's seat of a pickup the van goes to stands, paid and held.
THEOREM SeatWaits == Spec => []WaitingSeatKept
<1>1. IInv => WaitingSeatKept
  BY DEF IInv, Promises, Tied, WaitingSeatKept
<1> QED
  BY <1>1, IInvHolds, PTL

\* No step opens a closed pickup: a mark that activates still holds it as it
\* was requested, and nobody else writes an open status over a closed one.
LEMMA StaysClosed ==
    ASSUME IInv, [Next]_vars, pickup \in Closed
    PROVE  pickup' \notin OPEN
<1> USE DEF IInv, Promises
<1>1. CASE UNCHANGED vars BY <1>1 DEF vars
<1>2. ASSUME NEW s \in Sessions, Handle(s) PROVE pickup' \notin OPEN
  BY <1>2 DEF Handle, Book, Activate, Arrived, Sweep, Depart, MarkPaid, Cancel, CheckIn,
              UndoCheckIn, Close, Begin
<1>3. ASSUME NEW s \in Sessions, Proceed(s) PROVE pickup' \notin OPEN
  <2>1. CASE CommitBook(s) BY <2>1 DEF CommitBook, NothingBooked
  <2>2. CASE CommitMark(s) BY <2>2 DEF CommitMark, WritePickup, Intent, Marking
  <2>3. CASE CommitClose(s) BY <2>3 DEF CommitClose, WritePickup, Outcomes
  <2>4. CASE CommitCancel(s) BY <2>4 DEF CommitCancel, WritePickup, Intent
  <2>5. CASE CommitDepart(s) BY <2>5 DEF CommitDepart, WritePickup, Intent
  <2>6. CASE UNCHANGED pickup BY <2>6
  <2> QED
    BY <1>3, <2>1, <2>2, <2>3, <2>4, <2>5, <2>6
    DEF Proceed, Pay, SeatGone, LookAtPickup, Cascade, Flush, CommitStatus, LockTimeout
<1>4. CASE Start \/ Void \/ Arrive \/ LockList
  BY <1>4 DEF Start, Void, Arrive, LockList, MoveTrip
<1> QED BY <1>1, <1>2, <1>3, <1>4 DEF Next

\* A pickup that was cancelled, missed or closed stays so, whoever marks its
\* seats as paid or writes them afterwards.
THEOREM ClosedForGood == Spec => NotReinstated
<1>1. IInv /\ [Next]_vars => [(pickup \in Closed) => pickup' \notin OPEN]_vars
  BY StaysClosed
<1> QED
  BY <1>1, IInvHolds, PTL DEF Spec, NotReinstated
=============================================================================
