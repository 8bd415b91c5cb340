-------------------------- MODULE SeatBookingProofs --------------------------
(***************************************************************************)
(* SeatBooking for any number of bookings, sessions, slots and legs: its   *)
(* types, that InductiveInv is an invariant of it, and that it implements  *)
(* SeatMap.                                                                *)
(*                                                                         *)
(* A step is one of a few shapes: a handler begins, claims a slot, locks   *)
(* the rows of a booking, binds the slot it claimed, writes bookings,      *)
(* gives rows back, or just ends.  Each shape has one lemma for the types  *)
(* and one for the invariant.  The rules of the desk follow in the last    *)
(* part, for handlers that do not overlap.                                 *)
(***************************************************************************)
EXTENDS SeatBooking, TLAPS

SessionType == [step : Steps,
                on   : SUBSET Bookings,
                todo : SUBSET Bookings,
                rows : SUBSET Rows,
                pick : Slots \cup {0},
                was  : Slots \cup {0},
                why  : CancelReasons \cup {"none", "departure"}]

\* Ending a handler leaves every session well typed.
LEMMA EndType ==
    ASSUME session \in [Sessions -> SessionType], NEW s \in Sessions, End(s)
    PROVE  session' \in [Sessions -> SessionType]
<1>1. Idle \in SessionType
  BY DEF Idle, SessionType, Steps
<1>2. QED
  BY <1>1 DEF End

\* So does beginning one, on any bookings and for any reason.
LEMMA BeginType ==
    ASSUME session \in [Sessions -> SessionType], NEW s \in Sessions,
           NEW step \in Steps, NEW on \in SUBSET Bookings,
           NEW why \in CancelReasons \cup {"none", "departure"},
           NEW was \in Slots \cup {0},
           Begin(s, step, on, why, was)
    PROVE  session' \in [Sessions -> SessionType]
<1> DEFINE todo == IF step = "release" THEN on ELSE {}
<1> DEFINE rec == [Idle EXCEPT !.step = step, !.on = on, !.was = was, !.why = why,
                               !.todo = todo]
<1>1. todo \in SUBSET Bookings
  OBVIOUS
<1>2. rec \in SessionType
  BY <1>1 DEF Idle, SessionType
<1>3. session' = [session EXCEPT ![s] = rec]
  BY DEF Begin
<1>4. QED
  BY <1>2, <1>3

\* The window a handler locks is made of seat rows.
LEMMA WindowRows == ASSUME NEW b \in Bookings PROVE Window(b) \in SUBSET Rows
  BY CapacityAssumption, BookingAssumption DEF Window, Rows, Legs

\* Claiming a slot leaves every session well typed.
LEMMA ClaimType ==
    ASSUME session \in [Sessions -> SessionType], NEW s \in Sessions,
           NEW b \in Bookings, NEW n \in Slots, NEW step \in Steps,
           Claim(s, b, n, step)
    PROVE  session' \in [Sessions -> SessionType]
<1>1. Window(b) \in SUBSET Rows
  BY WindowRows
<1>2. session' = [session EXCEPT ![s] = [session[s] EXCEPT !.step = step, !.rows = Window(b), !.pick = n]]
  BY DEF Claim
<1>3. [session[s] EXCEPT !.step = step, !.rows = Window(b), !.pick = n] \in SessionType
  BY <1>1 DEF SessionType
<1>4. QED
  BY <1>2, <1>3

BookingType == [status : {"none", "confirmed", "checked_in", "boarded", "no_show",
                          "cancelled"},
                paid   : BOOLEAN,
                slot   : Slots \cup {0},
                reason : CancelReasons \cup {"none"}]

\* Binding and freeing rows keep the seat map a map from rows to holders.
LEMMA SeatType ==
    ASSUME seat \in [Rows -> Bookings \cup {Free}]
    PROVE  /\ \A b \in Bookings : \A n : Bind(b, n) => seat' \in [Rows -> Bookings \cup {Free}]
           /\ \A rows : FreeRows(rows) => seat' \in [Rows -> Bookings \cup {Free}]
  BY DEF Bind, FreeRows

\* The type invariant is inductive on its own.
LEMMA TypeStep == TypeOK /\ [Next]_vars => TypeOK'
<1> SUFFICES ASSUME TypeOK, [Next]_vars PROVE TypeOK'
  OBVIOUS
<1> USE DEF SessionType
<1>1. /\ session \in [Sessions -> SessionType]
      /\ booking \in [Bookings -> BookingType]
      /\ seat \in [Rows -> Bookings \cup {Free}]
  BY DEF TypeOK, BookingType
<1>2. CASE \E s \in Sessions : Request(s)
  <2> PICK s \in Sessions : Request(s)
    BY <1>2
  <2>1. session' \in [Sessions -> SessionType]
    <3>1. ASSUME NEW b \in Bookings, Reserve(s, b)
          PROVE  session' \in [Sessions -> SessionType]
      BY <1>1, <3>1, BeginType DEF Reserve, Steps
    <3>2. ASSUME NEW b \in Bookings, MarkPaid(s, b)
          PROVE  session' \in [Sessions -> SessionType]
      <4>1. booking[b].slot \in Slots \cup {0}
        BY <1>1 DEF BookingType
      <4>2. CASE Begin(s, "pay", {b}, "none", 0)
        BY <1>1, <4>2, BeginType DEF Steps
      <4>3. CASE Begin(s, "reallocate", {b}, "none", booking[b].slot)
        BY <1>1, <4>1, <4>3, BeginType DEF Steps
      <4>4. QED
        BY <3>2, <4>2, <4>3 DEF MarkPaid
    <3>3. ASSUME NEW b \in Bookings, CheckIn(s, b) \/ UndoCheckIn(s, b)
          PROVE  session' \in [Sessions -> SessionType]
      <4>1. CASE Begin(s, "check_in", {b}, "none", 0)
        BY <1>1, <4>1, BeginType DEF Steps
      <4>2. CASE Begin(s, "undo", {b}, "none", 0)
        BY <1>1, <4>2, BeginType DEF Steps
      <4>3. QED
        BY <3>3, <4>1, <4>2 DEF CheckIn, UndoCheckIn
    <3>4. ASSUME NEW b \in Bookings, NEW why \in Doors, Cancel(s, b, why)
          PROVE  session' \in [Sessions -> SessionType]
      <4>1. why \in CancelReasons
        BY BookingAssumption DEF CancelReasons
      <4>2. QED
        BY <1>1, <3>4, <4>1, BeginType DEF Cancel, Steps
    <3>5. ASSUME Sweep(s) PROVE session' \in [Sessions -> SessionType]
      BY <1>1, <3>5, BeginType DEF Sweep, Steps, DueForRelease, CancelReasons
    <3>6. ASSUME Depart(s) PROVE session' \in [Sessions -> SessionType]
      <4> DEFINE on == {b \in Bookings : booking[b].status \in STANDING}
      <4>1. on \in SUBSET Bookings /\ Begin(s, "release", on, "departure", 0)
        BY <3>6 DEF Depart
      <4> HIDE DEF on
      <4>2. QED
        BY <1>1, <4>1, BeginType DEF Steps
    <3>7. QED
      BY <3>1, <3>2, <3>3, <3>4, <3>5, <3>6 DEF Request
  <2>2. UNCHANGED <<trip, booking, seat, clock>>
    BY DEF Request, Reserve, MarkPaid, CheckIn, UndoCheckIn, Cancel, Sweep, Depart, Begin
  <2>3. QED
    BY <1>1, <2>1, <2>2 DEF TypeOK
<1>3. CASE \E s \in Sessions : Proceed(s)
  <2> PICK s \in Sessions : Proceed(s)
    BY <1>3
  <2>1. ASSUME NEW b \in Bookings, NEW n \in Slots, Allocate(s, b, n) \/ Reallocate(s, b, n)
        PROVE  TypeOK'
    <3>1. session' \in [Sessions -> SessionType]
      BY <1>1, <2>1, ClaimType DEF Allocate, Reallocate, Steps
    <3>2. UNCHANGED <<trip, booking, seat, clock>>
      BY <2>1 DEF Allocate, Reallocate, Claim
    <3>3. QED
      BY <1>1, <3>1, <3>2 DEF TypeOK
  <2>2. ASSUME NEW b \in Bookings, AllocateRefused(s, b) \/ SeatGone(s, b)
        PROVE  TypeOK'
    BY <1>1, <2>2, EndType DEF AllocateRefused, SeatGone, TypeOK
  <2>3. ASSUME NEW b \in Bookings, Insert(s, b) \/ Restore(s, b) PROVE TypeOK'
    <3>1. session' \in [Sessions -> SessionType]
      BY <1>1, <2>3, EndType DEF Insert, Restore
    <3>2. seat' \in [Rows -> Bookings \cup {Free}]
      BY <1>1, <2>3, SeatType DEF Insert, Restore
    <3>3. session[s].pick \in Slots \cup {0} /\ booking[b].slot \in Slots \cup {0}
      BY <1>1 DEF BookingType
    <3>4. booking' \in [Bookings -> BookingType]
      <4>1. CASE Insert(s, b)
        <5> DEFINE new == [status |-> IF Source[b] = "app" THEN "confirmed" ELSE "boarded",
                           paid   |-> Source[b] = "cash",
                           slot   |-> session[s].pick,
                           reason |-> "none"]
        <5>1. new \in BookingType
          <6>1. (Source[b] = "cash") \in BOOLEAN
            OBVIOUS
          <6>2. QED
            BY <3>3, <6>1 DEF BookingType
        <5>2. booking' = [booking EXCEPT ![b] = new]
          BY <4>1 DEF Insert
        <5> HIDE DEF new
        <5>3. QED
          BY <1>1, <5>1, <5>2
      <4>2. CASE Restore(s, b)
        BY <1>1, <3>3, <4>2 DEF Restore, BookingType
      <4>3. QED
        BY <2>3, <4>1, <4>2
    <3>5. QED
      BY <2>3, <3>1, <3>2, <3>4 DEF Insert, Restore, TypeOK, BookingType
  <2>4. ASSUME NEW b \in Bookings,
               RecordPayment(s, b) \/ CommitCheckIn(s, b) \/ CommitUndo(s, b)
        PROVE  TypeOK'
    <3>1. session' \in [Sessions -> SessionType]
      BY <1>1, <2>4, EndType DEF RecordPayment, CommitCheckIn, CommitUndo, WriteStatus
    <3>2. booking' \in [Bookings -> BookingType]
      <4>1. CASE RecordPayment(s, b)
        <5>1. [booking[b] EXCEPT !.paid = TRUE] \in BookingType
          BY <1>1 DEF BookingType
        <5>2. booking' = [booking EXCEPT ![b] = [booking[b] EXCEPT !.paid = TRUE]]
          BY <4>1 DEF RecordPayment
        <5>3. QED
          BY <1>1, <5>1, <5>2
      <4>2. ASSUME NEW step, NEW status \in {"confirmed", "checked_in"},
                   WriteStatus(s, b, step, status)
            PROVE  booking' \in [Bookings -> BookingType]
        <5>1. [booking[b] EXCEPT !.status = status] \in BookingType
          BY <1>1 DEF BookingType
        <5>2. booking' = [booking EXCEPT ![b] = [booking[b] EXCEPT !.status = status]]
          BY <4>2 DEF WriteStatus
        <5>3. QED
          BY <1>1, <5>1, <5>2
      <4>3. QED
        BY <2>4, <4>1, <4>2 DEF CommitCheckIn, CommitUndo
    <3>3. QED
      BY <2>4, <3>1, <3>2
      DEF RecordPayment, CommitCheckIn, CommitUndo, WriteStatus, TypeOK, BookingType
  <2>5. ASSUME NEW b \in Bookings, Release(s, b) PROVE TypeOK'
    <3>1. RowsOf(b) \subseteq Rows
      BY DEF RowsOf
    <3>2. session' \in [Sessions -> SessionType]
      <4> DEFINE rec == [session[s] EXCEPT !.todo = session[s].todo \ {b},
                                           !.rows = session[s].rows \cup RowsOf(b)]
      <4>1. rec \in SessionType
        BY <1>1, <3>1
      <4>2. session' = [session EXCEPT ![s] = rec]
        BY <2>5 DEF Release
      <4> HIDE DEF rec
      <4>3. QED
        BY <1>1, <4>1, <4>2
    <3>3. QED
      BY <1>1, <2>5, <3>2 DEF Release, TypeOK
  <2>6. ASSUME CommitCancel(s) PROVE TypeOK'
    <3>1. booking' \in [Bookings -> BookingType]
      BY <1>1, <2>6 DEF CommitCancel, BookingType
    <3>2. QED
      BY <1>1, <2>6, <3>1, EndType, SeatType DEF CommitCancel, TypeOK, BookingType
  <2>7. ASSUME CommitDepart(s) PROVE TypeOK'
    <3>1. booking' \in [Bookings -> BookingType]
      BY <1>1, <2>7 DEF CommitDepart, BookingType
    <3>2. QED
      BY <1>1, <2>7, <3>1, EndType, SeatType DEF CommitDepart, TypeOK, BookingType
  <2>8. ASSUME LockTimeout(s) PROVE TypeOK'
    BY <1>1, <2>8, EndType DEF LockTimeout, TypeOK
  <2>9. QED
    BY <2>1, <2>2, <2>3, <2>4, <2>5, <2>6, <2>7, <2>8 DEF Proceed
<1>4. CASE Start \/ Void \/ LockList \/ Tick
  BY <1>4 DEF Start, Void, LockList, Tick, TypeOK
<1>5. CASE UNCHANGED vars
  BY <1>5 DEF vars, TypeOK
<1>6. QED
  BY <1>2, <1>3, <1>4, <1>5 DEF Next

\* The initial state is well typed.
LEMMA TypeInit == Init => TypeOK
<1> SUFFICES ASSUME Init PROVE TypeOK
  OBVIOUS
<1>1. Idle \in SessionType /\ NoBooking \in BookingType
  BY DEF Idle, NoBooking, SessionType, BookingType, Steps
<1>2. QED
  BY <1>1 DEF Init, TypeOK, SessionType, BookingType

\* Trips, bookings, seat rows, time and sessions keep their types.
THEOREM TypeCorrect == Spec => []TypeOK
  BY TypeInit, TypeStep, PTL DEF Spec

-----------------------------------------------------------------------------
Rules == /\ NewBookingsAlone /\ WorksOnReservations
         /\ LocksExclusive /\ ClaimLocksWindow /\ ReleasesOwnStretches
         /\ ClaimStaysFree /\ WholeStretches /\ WalkUpKeepsSeat

Elsewhere(s) == \A q \in Sessions \ {s} : session'[q] = session[q]

Ended(s) == Elsewhere(s) /\ session'[s] = Idle

Reservation(b) == booking[b].status \notin {"none", "boarded"}

-----------------------------------------------------------------------------
\* Every booking needs the first leg of its slot.
LEMMA FirstLeg ==
    ASSUME NEW b \in Bookings
    PROVE  /\ 1 \in 1..Alights[b] /\ 1..Alights[b] \subseteq Legs
           /\ Alights[b] \in Nat
           /\ \A n \in Slots : <<n, 1>> \in Window(b) /\ <<n, 1>> \in Rows
           /\ \A n \in Slots, leg \in 1..Alights[b] :
                  <<n, leg>> \in Window(b) /\ <<n, leg>> \in Rows
  BY CapacityAssumption, BookingAssumption DEF Window, Rows, Legs

\* A map has a booking's stretches whole iff each row of the booking lies on
\* its stretch and the slot of the row holds the stretch.
LEMMA StretchByRow ==
    ASSUME NEW m, NEW b \in Bookings, NEW n \in Slots
    PROVE  {leg \in Legs : m[<<n, leg>>] = b} \in {{}, 1..Alights[b]}
             <=> \A leg \in Legs : m[<<n, leg>>] = b =>
                     /\ leg \in 1..Alights[b]
                     /\ \A l \in 1..Alights[b] : m[<<n, l>>] = b
<1> DEFINE L == {leg \in Legs : m[<<n, leg>>] = b}
<1>1. 1..Alights[b] \subseteq Legs
  BY FirstLeg
<1>2. \A leg : leg \in L <=> leg \in Legs /\ m[<<n, leg>>] = b
  OBVIOUS
<1>3. L \in {{}, 1..Alights[b]} <=> \A leg \in L : leg \in 1..Alights[b] /\ 1..Alights[b] \subseteq L
  <2> HIDE DEF L
  <2>1. ASSUME L \in {{}, 1..Alights[b]}, NEW leg \in L
        PROVE  leg \in 1..Alights[b] /\ 1..Alights[b] \subseteq L
    BY <2>1
  <2>2. ASSUME \A leg \in L : leg \in 1..Alights[b] /\ 1..Alights[b] \subseteq L
        PROVE  L \in {{}, 1..Alights[b]}
    BY <2>2
  <2>3. QED
    BY <2>1, <2>2
<1> HIDE DEF L
<1>4. L \in {{}, 1..Alights[b]} <=> \A leg \in Legs : m[<<n, leg>>] = b =>
                     /\ leg \in 1..Alights[b]
                     /\ \A l \in 1..Alights[b] : m[<<n, l>>] = b
  BY <1>1, <1>2, <1>3
<1>5. QED
  BY <1>4 DEF L

\* The legs a booking has in a slot depend on the seat rows alone.
LEMMA SameSeats ==
    ASSUME WholeStretches, UNCHANGED seat
    PROVE  WholeStretches'
<1> SUFFICES ASSUME NEW b \in Bookings, NEW n \in Slots
             PROVE  {leg \in Legs : seat'[<<n, leg>>] = b} \in {{}, 1..Alights[b]}
  BY DEF WholeStretches
<1>1. {leg \in Legs : seat'[<<n, leg>>] = b} = {leg \in Legs : seat[<<n, leg>>] = b}
  OBVIOUS
<1>2. QED
  BY <1>1 DEF WholeStretches

\* A handler that ends leaves the other sessions alone.
LEMMA EndShape ==
    ASSUME TypeOK, NEW s \in Sessions, End(s)
    PROVE  Ended(s)
  BY DEF TypeOK, End, Ended, Elsewhere

-----------------------------------------------------------------------------
\* What a handler has when it begins: no row lock, a new booking that nobody
\* else works on, or bookings that exist and are not aboard.
Begun(s) ==
    /\ Elsewhere(s) /\ UNCHANGED <<booking, seat>>
    /\ session[s].step = "idle"
    /\ session'[s].step \notin {"insert", "restore"}
    /\ session'[s].rows = {} /\ session'[s].todo \subseteq session'[s].on
    /\ session'[s].step \in {"allocate", "reallocate"} =>
           \E b \in Bookings : session'[s].on = {b}
    /\ session'[s].step = "allocate" =>
           \A b \in session'[s].on : ~Exists(b) /\ \A q \in Sessions : b \notin session[q].on
    /\ session'[s].step # "allocate" => \A b \in session'[s].on : Reservation(b)

\* Begin sets the record it names.
LEMMA BeginRecord ==
    ASSUME TypeOK, NEW s \in Sessions, NEW step, NEW on, NEW why, NEW was,
           Begin(s, step, on, why, was)
    PROVE  /\ Elsewhere(s) /\ UNCHANGED <<booking, seat>>
           /\ session[s].step = "idle"
           /\ session'[s].step = step /\ session'[s].on = on /\ session'[s].rows = {}
           /\ session'[s].todo = IF step = "release" THEN on ELSE {}
  BY DEF TypeOK, Begin, Elsewhere, Idle

\* Every request that is accepted leaves its session Begun.
LEMMA RequestShape ==
    ASSUME TypeOK, NEW s \in Sessions, Request(s)
    PROVE  Begun(s)
<1>1. ASSUME NEW b \in Bookings, Reserve(s, b) PROVE Begun(s)
  BY <1>1, BeginRecord DEF Reserve, Begun
<1>2. ASSUME NEW b \in Bookings, NEW step \in {"pay", "reallocate", "check_in", "undo", "release"},
             NEW why, NEW was, Begin(s, step, {b}, why, was), Reservation(b)
      PROVE  Begun(s)
  BY <1>2, BeginRecord DEF Begun
<1>3. ASSUME NEW b \in Bookings, MarkPaid(s, b) PROVE Begun(s)
  BY <1>2, <1>3 DEF MarkPaid, Reservation, STANDING
<1>4. ASSUME NEW b \in Bookings, CheckIn(s, b) \/ UndoCheckIn(s, b) PROVE Begun(s)
  BY <1>2, <1>4 DEF CheckIn, UndoCheckIn, Reservation
<1>5. ASSUME NEW b \in Bookings, NEW why \in Doors, Cancel(s, b, why) PROVE Begun(s)
  BY <1>2, <1>5 DEF Cancel, Reservation, STANDING
<1>6. ASSUME NEW on, NEW why, Begin(s, "release", on, why, 0), \A b \in on : Reservation(b)
      PROVE  Begun(s)
  BY <1>6, BeginRecord DEF Begun
<1>7. CASE Sweep(s)
  BY <1>6, <1>7 DEF Sweep, DueForRelease, Unpaid, Reservation, STANDING
<1>8. CASE Depart(s)
  BY <1>6, <1>8 DEF Depart, Reservation, STANDING
<1>9. QED
  BY <1>1, <1>3, <1>4, <1>5, <1>7, <1>8 DEF Request

\* A handler that begins holds no row yet and works on bookings nobody inserts.
LEMMA BegunKeeps ==
    ASSUME TypeOK, Rules, NEW s \in Sessions, Begun(s)
    PROVE  Rules'
<1>1. NewBookingsAlone'
  BY DEF Rules, NewBookingsAlone, WorksOnReservations, Begun, Elsewhere, Exists, Reservation
<1>2. WorksOnReservations'
  BY DEF Rules, WorksOnReservations, Begun, Elsewhere, Reservation
<1>3. LocksExclusive'
  BY DEF Rules, LocksExclusive, Begun, Elsewhere
<1>4. ClaimLocksWindow'
  BY DEF Rules, ClaimLocksWindow, Begun, Elsewhere, Window
<1>5. ReleasesOwnStretches'
  BY DEF Rules, ReleasesOwnStretches, Begun, Elsewhere
<1>6. ClaimStaysFree'
  <2> SUFFICES ASSUME NEW q \in Sessions, (session[q].step \in {"insert", "restore"})',
                      NEW b \in session'[q].on
               PROVE  FreeThroughout(session[q].pick, b)'
    BY DEF ClaimStaysFree
  <2>1. q # s /\ session'[q] = session[q]
    BY DEF Begun, Elsewhere
  <2>2. FreeThroughout(session[q].pick, b)
    BY <2>1 DEF Rules, ClaimStaysFree
  <2>3. QED
    BY <2>1, <2>2 DEF FreeThroughout, Begun
<1>7. WholeStretches'
  BY SameSeats DEF Rules, Begun
<1>8. WalkUpKeepsSeat'
  BY DEF Rules, WalkUpKeepsSeat, Begun, Holds
<1>9. QED
  BY <1>1, <1>2, <1>3, <1>4, <1>5, <1>6, <1>7, <1>8 DEF Rules

-----------------------------------------------------------------------------
\* A handler that ends without writing a row or a booking, or that begins to
\* wait for nothing: its locks are gone and nothing else changed.
LEMMA EndedKeeps ==
    ASSUME TypeOK, Rules, NEW s \in Sessions, Ended(s), UNCHANGED <<booking, seat>>
    PROVE  Rules'
<1> USE DEF Ended
<1>1. /\ session'[s].step = "idle" /\ session'[s].on = {} /\ session'[s].todo = {}
      /\ session'[s].rows = {}
  BY DEF Idle
<1>2. NewBookingsAlone' /\ WorksOnReservations'
  BY <1>1 DEF Rules, NewBookingsAlone, WorksOnReservations, Elsewhere, Exists
<1>3. LocksExclusive' /\ ClaimLocksWindow' /\ ReleasesOwnStretches'
  BY <1>1 DEF Rules, LocksExclusive, ClaimLocksWindow, ReleasesOwnStretches, Elsewhere, Window
<1>4. ClaimStaysFree'
  BY <1>1 DEF Rules, ClaimStaysFree, Elsewhere, FreeThroughout
<1>5. WholeStretches' /\ WalkUpKeepsSeat'
  BY SameSeats DEF Rules, WalkUpKeepsSeat, Holds
<1>6. QED
  BY <1>2, <1>3, <1>4, <1>5 DEF Rules

\* A handler that writes a column of a reservation: it does not come aboard.
Written(s) ==
    /\ Ended(s) /\ UNCHANGED seat
    /\ session[s].step \in {"pay", "check_in", "undo"}
    /\ \A b \in session[s].on : Reservation(b)'
    /\ \A b \in Bookings \ session[s].on : booking'[b] = booking[b]

\* A payment, a check-in and its undo write one booking and end the handler.
LEMMA WriteShape ==
    ASSUME TypeOK, Rules, NEW s \in Sessions, NEW b \in Bookings,
           RecordPayment(s, b) \/ CommitCheckIn(s, b) \/ CommitUndo(s, b)
    PROVE  Written(s)
<1>1. Ended(s) /\ UNCHANGED seat /\ session[s].step \in {"pay", "check_in", "undo"}
  BY EndShape DEF RecordPayment, CommitCheckIn, CommitUndo, WriteStatus
<1>2. b \in session[s].on /\ \A c \in Bookings \ {b} : booking'[c] = booking[c]
  BY DEF RecordPayment, CommitCheckIn, CommitUndo, WriteStatus, TypeOK
<1>3. booking'[b].status \in {booking[b].status, "checked_in", "confirmed"}
  BY DEF RecordPayment, CommitCheckIn, CommitUndo, WriteStatus, TypeOK
<1>4. session[s].on \subseteq Bookings /\ \A c \in session[s].on : Reservation(c)
  BY <1>1 DEF TypeOK, Rules, WorksOnReservations, Reservation
<1>5. \A c \in session[s].on : Reservation(c)'
  BY <1>2, <1>3, <1>4 DEF Reservation
<1>6. QED
  BY <1>1, <1>2, <1>5 DEF Written

\* Writing a reservation moves no seat row, so the rules stay.
LEMMA WrittenKeeps ==
    ASSUME TypeOK, Rules, NEW s \in Sessions, Written(s)
    PROVE  Rules'
<1> USE DEF Written, Ended
<1>1. /\ session'[s].step = "idle" /\ session'[s].on = {} /\ session'[s].todo = {}
      /\ session'[s].rows = {}
  BY DEF Idle
<1>2. \A q \in Sessions : session[q].on \subseteq Bookings
  BY DEF TypeOK
<1>3. \A c \in session[s].on : Reservation(c)
  BY DEF Rules, WorksOnReservations, Reservation
<1>4. NewBookingsAlone'
  BY <1>1, <1>2, <1>3 DEF Rules, NewBookingsAlone, Elsewhere, Exists, Reservation
<1>5. WorksOnReservations'
  BY <1>1, <1>2 DEF Rules, WorksOnReservations, Elsewhere, Reservation
<1>6. LocksExclusive' /\ ClaimLocksWindow' /\ ReleasesOwnStretches'
  BY <1>1 DEF Rules, LocksExclusive, ClaimLocksWindow, ReleasesOwnStretches, Elsewhere, Window
<1>7. ClaimStaysFree'
  BY <1>1 DEF Rules, ClaimStaysFree, Elsewhere, FreeThroughout
<1>8. WholeStretches'
  BY SameSeats DEF Rules
<1>9. WalkUpKeepsSeat'
  BY DEF Rules, WalkUpKeepsSeat, Holds, Reservation
<1>10. QED
  BY <1>4, <1>5, <1>6, <1>7, <1>8, <1>9 DEF Rules

-----------------------------------------------------------------------------
\* A handler that locks its window and chooses a slot free throughout.
Claimed(s, b, n) ==
    /\ Elsewhere(s) /\ UNCHANGED <<booking, seat>>
    /\ \/ session[s].step = "allocate" /\ session'[s].step = "insert"
       \/ session[s].step = "reallocate" /\ session'[s].step = "restore"
    /\ b \in session[s].on /\ session'[s].on = session[s].on
    /\ session'[s].todo = session[s].todo
    /\ session'[s].rows = Window(b) /\ session'[s].pick = n
    /\ ~LockedByAnother(s, Window(b)) /\ FreeThroughout(n, b)

\* A claim locks the whole window of the booking and chooses a free slot.
LEMMA ClaimShape ==
    ASSUME TypeOK, NEW s \in Sessions, NEW b \in Bookings, NEW n \in Slots,
           Allocate(s, b, n) \/ Reallocate(s, b, n)
    PROVE  Claimed(s, b, n)
<1>1. ASSUME NEW step, Claim(s, b, n, step)
      PROVE  /\ Elsewhere(s) /\ UNCHANGED <<booking, seat>>
             /\ session'[s].step = step /\ session'[s].on = session[s].on
             /\ session'[s].todo = session[s].todo
             /\ session'[s].rows = Window(b) /\ session'[s].pick = n
             /\ ~LockedByAnother(s, Window(b)) /\ FreeThroughout(n, b)
  BY <1>1 DEF Claim, TypeOK, Elsewhere, Candidates
<1>2. QED
  BY <1>1 DEF Allocate, Reallocate, Claimed

\* Nobody else held a row of the window, so the claim shares none with them.
LEMMA ClaimedKeeps ==
    ASSUME TypeOK, Rules, NEW s \in Sessions, NEW b \in Bookings, NEW n \in Slots,
           Claimed(s, b, n)
    PROVE  Rules'
<1> USE DEF Claimed
<1>1. session[s].on = {b}
  BY DEF Rules, ClaimLocksWindow
<1>2. NewBookingsAlone' /\ WorksOnReservations'
  BY <1>1 DEF Rules, NewBookingsAlone, WorksOnReservations, Elsewhere, Exists
<1>3. LocksExclusive'
  BY DEF Rules, LocksExclusive, LockedByAnother, Elsewhere
<1>4. ClaimLocksWindow'
  BY <1>1 DEF Rules, ClaimLocksWindow, Elsewhere, Window
<1>5. ReleasesOwnStretches'
  BY DEF Rules, ReleasesOwnStretches, Elsewhere
<1>6. ClaimStaysFree'
  <2> SUFFICES ASSUME NEW q \in Sessions, (session[q].step \in {"insert", "restore"})',
                      NEW c \in session'[q].on
               PROVE  FreeThroughout(session[q].pick, c)'
    BY DEF ClaimStaysFree
  <2>1. CASE q = s
    BY <1>1, <2>1 DEF FreeThroughout
  <2>2. CASE q # s
    <3>1. session'[q] = session[q] /\ FreeThroughout(session[q].pick, c)
      BY <2>2 DEF Rules, ClaimStaysFree, Elsewhere
    <3>2. QED
      BY <3>1 DEF FreeThroughout
  <2>3. QED
    BY <2>1, <2>2
<1>7. WholeStretches' /\ WalkUpKeepsSeat'
  BY SameSeats DEF Rules, WalkUpKeepsSeat, Holds
<1>8. QED
  BY <1>2, <1>3, <1>4, <1>5, <1>6, <1>7 DEF Rules

\* A handler that locks the rows of one of the bookings it gives rows back for.
LEMMA ReleaseKeeps ==
    ASSUME TypeOK, Rules, NEW s \in Sessions, NEW b \in Bookings, Release(s, b)
    PROVE  Rules'
<1>1. /\ Elsewhere(s) /\ UNCHANGED <<booking, seat>>
      /\ session[s].step = "release" /\ session'[s].step = "release"
      /\ session'[s].on = session[s].on /\ b \in session[s].todo
      /\ session'[s].todo \subseteq session[s].todo
      /\ session'[s].rows = session[s].rows \cup RowsOf(b)
      /\ ~LockedByAnother(s, RowsOf(b))
  BY DEF Release, TypeOK, Elsewhere
<1>2. NewBookingsAlone' /\ WorksOnReservations'
  BY <1>1 DEF Rules, NewBookingsAlone, WorksOnReservations, Elsewhere, Exists
<1>3. LocksExclusive'
  BY <1>1 DEF Rules, LocksExclusive, LockedByAnother, Elsewhere
<1>4. ClaimLocksWindow'
  BY <1>1 DEF Rules, ClaimLocksWindow, Elsewhere, Window
<1>5. ReleasesOwnStretches'
  <2>1. \A row : row \in RowsOf(b) <=> row \in Rows /\ seat[row] = b
    BY DEF RowsOf
  <2>2. \A n \in Slots, leg \in Legs : <<n, leg>> \in Rows
    BY DEF Rows
  <2>3. \A row \in Rows : row[1] \in Slots
    BY DEF Rows
  <2>4. b \in session[s].on
    BY <1>1 DEF Rules, ReleasesOwnStretches
  <2>5. QED
    BY <1>1, <2>1, <2>2, <2>3, <2>4 DEF Rules, ReleasesOwnStretches, Elsewhere
<1>6. ClaimStaysFree'
  BY <1>1 DEF Rules, ClaimStaysFree, Elsewhere, FreeThroughout
<1>7. WholeStretches' /\ WalkUpKeepsSeat'
  BY <1>1, SameSeats DEF Rules, WalkUpKeepsSeat, Holds
<1>8. QED
  BY <1>2, <1>3, <1>4, <1>5, <1>6, <1>7 DEF Rules

-----------------------------------------------------------------------------
\* A handler that binds its booking to the slot it claimed.
Bound(s, b) ==
    /\ Ended(s) /\ Bind(b, session[s].pick) /\ b \in session[s].on
    /\ session[s].step \in {"insert", "restore"}
    /\ \A c \in Bookings \ {b} : booking'[c] = booking[c]
    /\ booking'[b].status \in {"confirmed", "boarded"}
    /\ booking'[b].status = "boarded" =>
           session[s].step = "insert" /\ booking'[b].slot = session[s].pick

\* An INSERT and a restore bind the slot their handler claimed.
LEMMA BindShape ==
    ASSUME TypeOK, NEW s \in Sessions, NEW b \in Bookings, Insert(s, b) \/ Restore(s, b)
    PROVE  Bound(s, b)
<1>1. CASE Insert(s, b)
  BY <1>1, EndShape DEF Insert, Bound, TypeOK
<1>2. CASE Restore(s, b)
  BY <1>2, EndShape DEF Restore, Bound, TypeOK
<1>3. QED
  BY <1>1, <1>2

\* What a binding does to the map: the rows it writes were free, lie in the
\* handler's window, and nobody else has locked one of them.
LEMMA BoundSeats ==
    ASSUME TypeOK, Rules, NEW s \in Sessions, NEW b \in Bookings, Bound(s, b)
    PROVE  /\ session[s].pick \in Slots /\ session[s].on = {b}
           /\ session[s].rows = Window(b)
           /\ \A leg \in 1..Alights[b] : /\ seat[<<session[s].pick, leg>>] = Free
                                        /\ seat'[<<session[s].pick, leg>>] = b
           /\ \A row \in Rows : seat'[row] # seat[row] =>
                  /\ row[1] = session[s].pick /\ row[2] \in 1..Alights[b]
                  /\ seat[row] = Free /\ seat'[row] = b
                  /\ row \in Window(b)
<1>1. session[s].pick \in Slots /\ session[s].on = {b} /\ session[s].rows = Window(b)
  BY DEF Rules, ClaimLocksWindow, Bound
<1>2. \A leg \in 1..Alights[b] : seat[<<session[s].pick, leg>>] = Free
  BY <1>1 DEF Rules, ClaimStaysFree, FreeThroughout, Bound
<1>3. \A row \in Rows : seat'[row] = IF row[1] = session[s].pick /\ row[2] \in 1..Alights[b]
                                    THEN b ELSE seat[row]
  BY DEF Bound, Bind
<1>4. \A leg \in 1..Alights[b] : seat'[<<session[s].pick, leg>>] = b
  BY <1>1, <1>3, FirstLeg
<1>5. \A row \in Rows : row = <<row[1], row[2]>>
  BY DEF Rows
<1>6. ASSUME NEW row \in Rows, seat'[row] # seat[row]
      PROVE  /\ row[1] = session[s].pick /\ row[2] \in 1..Alights[b]
             /\ seat[row] = Free /\ seat'[row] = b
             /\ row \in Window(b)
  <2>1. row[1] = session[s].pick /\ row[2] \in 1..Alights[b] /\ seat'[row] = b
    BY <1>3, <1>6
  <2>2. row = <<session[s].pick, row[2]>>
    BY <1>5, <2>1
  <2>3. QED
    BY <1>1, <1>2, <2>1, <2>2, FirstLeg
<1>7. QED
  BY <1>1, <1>2, <1>4, <1>6

\* Binding a claimed slot gives the booking its whole stretch and nobody less.
LEMMA BoundKeeps ==
    ASSUME TypeOK, Rules, NEW s \in Sessions, NEW b \in Bookings, Bound(s, b)
    PROVE  Rules'
<1> DEFINE n == session[s].pick
<1>1. /\ session'[s].step = "idle" /\ session'[s].on = {} /\ session'[s].todo = {}
      /\ session'[s].rows = {}
  BY DEF Bound, Ended, Idle
<1>2. \A q \in Sessions : session[q].on \subseteq Bookings /\ session[q].rows \subseteq Rows
  BY DEF TypeOK
<1>3. n \in Slots /\ session[s].on = {b} /\ session[s].rows = Window(b)
  BY BoundSeats
<1>4. \A leg \in 1..Alights[b] : seat[<<n, leg>>] = Free /\ seat'[<<n, leg>>] = b
  BY BoundSeats
<1>5. \A row \in Rows : seat'[row] # seat[row] =>
          /\ row[1] = n /\ row[2] \in 1..Alights[b]
          /\ seat[row] = Free /\ seat'[row] = b /\ row \in Window(b)
  BY BoundSeats
<1>6. \A q \in Sessions \ {s} : session'[q] = session[q]
  BY DEF Bound, Ended, Elsewhere
<1>7. \A q \in Sessions \ {s} : session[q].rows \cap Window(b) = {}
  BY <1>3 DEF Rules, LocksExclusive
<1>8. \A q \in Sessions \ {s} : session[q].step \notin {"insert", "restore"}
  <2> SUFFICES ASSUME NEW q \in Sessions \ {s}, session[q].step \in {"insert", "restore"}
               PROVE  FALSE
    OBVIOUS
  <2>1. PICK c \in Bookings : session[q].rows = Window(c)
    BY <1>2 DEF Rules, ClaimLocksWindow
  <2>2. <<n, 1>> \in Window(c) /\ <<n, 1>> \in Window(b)
    BY <1>3, FirstLeg
  <2>3. QED
    BY <1>7, <2>1, <2>2
<1> HIDE DEF n
<1>9. NewBookingsAlone'
  <2>1. \A q \in Sessions \ {s} : session[q].step \in {"allocate", "insert"} => b \notin session[q].on
    BY <1>3 DEF Rules, NewBookingsAlone, WorksOnReservations, Bound
  <2>2. QED
    BY <1>1, <1>2, <1>6, <2>1 DEF Rules, NewBookingsAlone, Exists, Bound
<1>10. WorksOnReservations'
  <2>1. session[s].step = "insert" => \A q \in Sessions \ {s} : b \notin session[q].on
    BY <1>3 DEF Rules, NewBookingsAlone
  <2>2. QED
    BY <1>1, <1>2, <1>6, <2>1 DEF Rules, WorksOnReservations, Bound
<1>11. LocksExclusive' /\ ClaimLocksWindow'
  BY <1>1, <1>6 DEF Rules, LocksExclusive, ClaimLocksWindow, Window
<1>12. ReleasesOwnStretches'
  <2> SUFFICES ASSUME NEW q \in Sessions \ {s}, session[q].step = "release",
                      NEW row \in session[q].rows
               PROVE  /\ seat'[row] \in session[q].on
                      /\ \A leg \in Legs : seat'[<<row[1], leg>>] = seat'[row]
                                               => <<row[1], leg>> \in session[q].rows
    BY <1>1, <1>6 DEF Rules, ReleasesOwnStretches
  <2>1. /\ seat[row] \in session[q].on
        /\ \A leg \in Legs : seat[<<row[1], leg>>] = seat[row]
                                   => <<row[1], leg>> \in session[q].rows
    BY DEF Rules, ReleasesOwnStretches
  <2>2. row \in Rows /\ row[1] \in Slots /\ row[2] \in Legs /\ row = <<row[1], row[2]>>
    BY <1>2 DEF Rows
  <2>3. seat'[row] = seat[row]
    BY <1>5, <1>7, <2>2
  <2>4. seat[row] # b
    <3> SUFFICES ASSUME seat[row] = b PROVE FALSE
      OBVIOUS
    <3>1. {leg \in Legs : seat[<<row[1], leg>>] = b} \in {{}, 1..Alights[b]}
      BY <2>2 DEF Rules, WholeStretches
    <3>2. row[2] \in 1..Alights[b]
      BY <2>2, <3>1, StretchByRow
    <3>3. row \in Window(b)
      BY <2>2, <3>2, FirstLeg
    <3>4. QED
      BY <1>7, <3>3
  <2>5. \A leg \in Legs : <<row[1], leg>> \in Rows
    BY <2>2 DEF Rows
  <2>6. \A leg \in Legs : seat'[<<row[1], leg>>] = seat[row] => seat[<<row[1], leg>>] = seat[row]
    BY <1>5, <2>4, <2>5
  <2>7. QED
    BY <2>1, <2>3, <2>6
<1>13. ClaimStaysFree'
  BY <1>1, <1>6, <1>8 DEF ClaimStaysFree
<1>14. \A c \in Bookings, m \in Slots, leg \in Legs :
           seat[<<m, leg>>] = c => seat'[<<m, leg>>] = c
  <2>1. \A m \in Slots, leg \in Legs : <<m, leg>> \in Rows
    BY DEF Rows
  <2>2. QED
    BY <1>5, <2>1, CapacityAssumption
<1>15. WholeStretches'
  <2> SUFFICES ASSUME NEW c \in Bookings, NEW m \in Slots
               PROVE  {leg \in Legs : seat'[<<m, leg>>] = c} \in {{}, 1..Alights[c]}
    BY DEF WholeStretches
  <2>1. {leg \in Legs : seat[<<m, leg>>] = c} \in {{}, 1..Alights[c]}
    BY DEF Rules, WholeStretches
  <2> SUFFICES ASSUME NEW leg \in Legs, seat'[<<m, leg>>] = c
               PROVE  /\ leg \in 1..Alights[c]
                      /\ \A l \in 1..Alights[c] : seat'[<<m, l>>] = c
    BY StretchByRow
  <2>2. <<m, leg>> \in Rows /\ 1..Alights[c] \subseteq Legs
    BY FirstLeg DEF Rows
  <2>3. CASE seat[<<m, leg>>] = c
    BY <1>14, <2>1, <2>2, <2>3, StretchByRow
  <2>4. CASE seat[<<m, leg>>] # c
    <3>1. m = n /\ leg \in 1..Alights[b] /\ c = b
      BY <1>5, <2>2, <2>4
    <3>2. QED
      BY <1>4, <3>1
  <2>5. QED
    BY <2>3, <2>4
<1>16. WalkUpKeepsSeat'
  <2> SUFFICES ASSUME NEW c \in Bookings, booking'[c].status = "boarded"
               PROVE  /\ booking'[c].slot # 0
                      /\ \A leg \in 1..Alights[c] : seat'[<<booking'[c].slot, leg>>] = c
    BY DEF WalkUpKeepsSeat, Holds
  <2>1. CASE c = b
    BY <1>3, <1>4, <2>1 DEF Bound, n, Slots
  <2>2. CASE c # b
    <3>1. booking'[c] = booking[c] /\ booking[c].slot # 0 /\ Holds(c, booking[c].slot)
      BY <2>2 DEF Rules, WalkUpKeepsSeat, Bound
    <3>2. booking[c].slot \in Slots
      <4>1. booking[c].slot \in Slots \cup {0}
        BY DEF TypeOK
      <4>2. booking[c].slot # 0
        BY <2>2 DEF Rules, WalkUpKeepsSeat, Bound
      <4>3. QED
        BY <4>1, <4>2
    <3>3. QED
      BY <1>14, <3>1, <3>2, FirstLeg DEF Holds
  <2>3. QED
    BY <2>1, <2>2
<1>17. QED
  BY <1>9, <1>10, <1>11, <1>12, <1>13, <1>15, <1>16 DEF Rules

-----------------------------------------------------------------------------
\* A handler that gives back the rows it locked and writes its bookings.
Freed(s) ==
    /\ Ended(s) /\ FreeRows(session[s].rows) /\ session[s].step = "release"
    /\ \A b \in session[s].on : booking'[b].status \in {"cancelled", "no_show"}
    /\ \A b \in Bookings \ session[s].on : booking'[b] = booking[b]

\* A cancellation and a departure free what they locked and end.
LEMMA FreeShape ==
    ASSUME TypeOK, NEW s \in Sessions, CommitCancel(s) \/ CommitDepart(s)
    PROVE  Freed(s)
<1>1. session[s].on \subseteq Bookings
  BY DEF TypeOK
<1>2. /\ Ended(s) /\ FreeRows(session[s].rows) /\ session[s].step = "release"
  BY EndShape DEF CommitCancel, CommitDepart
<1>3. /\ \A b \in session[s].on : booking'[b].status \in {"cancelled", "no_show"}
      /\ \A b \in Bookings \ session[s].on : booking'[b] = booking[b]
  <2>1. booking \in [Bookings -> BookingType]
    BY DEF TypeOK, BookingType
  <2>2. CASE CommitCancel(s)
    BY <1>1, <2>1, <2>2 DEF CommitCancel, BookingType
  <2>3. CASE CommitDepart(s)
    BY <1>1, <2>1, <2>3 DEF CommitDepart, BookingType
  <2>4. QED
    BY <2>2, <2>3
<1>4. QED
  BY <1>2, <1>3 DEF Freed

\* What giving rows back does to the map: whole stretches of the handler's own
\* bookings become free, every other row stays.
LEMMA FreedSeats ==
    ASSUME TypeOK, Rules, NEW s \in Sessions, Freed(s)
    PROVE  /\ session[s].rows \subseteq Rows
           /\ \A row \in session[s].rows :
                  /\ seat[row] \in session[s].on /\ seat'[row] = Free
                  /\ \A leg \in Legs : seat[<<row[1], leg>>] = seat[row]
                                           => <<row[1], leg>> \in session[s].rows
           /\ \A row \in Rows \ session[s].rows : seat'[row] = seat[row]
<1>1. session[s].rows \subseteq Rows
  BY DEF TypeOK
<1>2. \A row \in Rows : seat'[row] = IF row \in session[s].rows THEN Free ELSE seat[row]
  BY DEF Freed, FreeRows
<1>3. QED
  BY <1>1, <1>2 DEF Rules, ReleasesOwnStretches, Freed

\* Freeing whole stretches of reservations leaves whole stretches behind.
LEMMA FreedKeeps ==
    ASSUME TypeOK, Rules, NEW s \in Sessions, Freed(s)
    PROVE  Rules'
<1>1. /\ session'[s].step = "idle" /\ session'[s].on = {} /\ session'[s].todo = {}
      /\ session'[s].rows = {}
  BY DEF Freed, Ended, Idle
<1>2. \A q \in Sessions \ {s} : session'[q] = session[q]
  BY DEF Freed, Ended, Elsewhere
<1>3. \A q \in Sessions : session[q].on \subseteq Bookings /\ session[q].rows \subseteq Rows
  BY DEF TypeOK
<1>4. \A b \in session[s].on : Reservation(b)
  BY DEF Freed, Rules, WorksOnReservations, Reservation
<1>5. /\ \A row \in session[s].rows :
             /\ seat[row] \in session[s].on /\ seat'[row] = Free
             /\ \A leg \in Legs : seat[<<row[1], leg>>] = seat[row]
                                      => <<row[1], leg>> \in session[s].rows
      /\ \A row \in Rows \ session[s].rows : seat'[row] = seat[row]
  BY FreedSeats
<1>6. \A m \in Slots, leg \in Legs :
          <<m, leg>> \in Rows /\ <<m, leg>>[1] = m
  BY DEF Rows
<1>7. NewBookingsAlone'
  BY <1>1, <1>2, <1>3, <1>4 DEF Rules, NewBookingsAlone, Exists, Reservation, Freed
<1>8. WorksOnReservations'
  BY <1>1, <1>2, <1>3 DEF Rules, WorksOnReservations, Freed
<1>9. LocksExclusive' /\ ClaimLocksWindow'
  BY <1>1, <1>2 DEF Rules, LocksExclusive, ClaimLocksWindow, Window
<1>10. ReleasesOwnStretches'
  <2> SUFFICES ASSUME NEW q \in Sessions \ {s}, session[q].step = "release",
                      NEW row \in session[q].rows
               PROVE  /\ seat'[row] \in session[q].on
                      /\ \A leg \in Legs : seat'[<<row[1], leg>>] = seat'[row]
                                               => <<row[1], leg>> \in session[q].rows
    BY <1>1, <1>2 DEF Rules, ReleasesOwnStretches
  <2>1. /\ seat[row] \in session[q].on
        /\ \A leg \in Legs : seat[<<row[1], leg>>] = seat[row]
                                   => <<row[1], leg>> \in session[q].rows
    BY DEF Rules, ReleasesOwnStretches
  <2>2. row \in Rows /\ row[1] \in Slots /\ \A leg \in Legs : <<row[1], leg>> \in Rows
    BY <1>3 DEF Rows
  <2>3. seat'[row] = seat[row] /\ seat[row] # Free
    BY <1>3, <1>5, <2>1, <2>2, CapacityAssumption DEF Rules, LocksExclusive
  <2>4. \A leg \in Legs : seat'[<<row[1], leg>>] = seat[row] => seat[<<row[1], leg>>] = seat[row]
    BY <1>5, <2>2, <2>3
  <2>5. QED
    BY <2>1, <2>3, <2>4
<1>11. ClaimStaysFree'
  <2> SUFFICES ASSUME NEW q \in Sessions \ {s}, session[q].step \in {"insert", "restore"},
                      NEW c \in session[q].on, NEW leg \in 1..Alights[c]
               PROVE  seat'[<<session[q].pick, leg>>] = Free
    BY <1>1, <1>2 DEF ClaimStaysFree, FreeThroughout
  <2>1. c \in Bookings /\ session[q].pick \in Slots
    BY <1>3 DEF Rules, ClaimLocksWindow
  <2>2. seat[<<session[q].pick, leg>>] = Free
    BY DEF Rules, ClaimStaysFree, FreeThroughout
  <2>3. <<session[q].pick, leg>> \in Rows
    BY <2>1, FirstLeg
  <2>4. QED
    BY <1>5, <2>2, <2>3
<1>12. WholeStretches'
  <2> SUFFICES ASSUME NEW c \in Bookings, NEW m \in Slots,
                      NEW leg \in Legs, seat'[<<m, leg>>] = c
               PROVE  /\ leg \in 1..Alights[c]
                      /\ \A l \in 1..Alights[c] : seat'[<<m, l>>] = c
    BY StretchByRow DEF WholeStretches
  <2>1. c # Free /\ 1..Alights[c] \subseteq Legs
    BY CapacityAssumption, FirstLeg
  <2>2. <<m, leg>> \notin session[s].rows /\ seat[<<m, leg>>] = c
    BY <1>5, <1>6, <2>1
  <2>3. leg \in 1..Alights[c] /\ \A l \in 1..Alights[c] : seat[<<m, l>>] = c
    BY <2>2, StretchByRow DEF Rules, WholeStretches
  <2>4. ASSUME NEW l \in 1..Alights[c] PROVE seat'[<<m, l>>] = c
    <3>1. seat[<<m, l>>] = c /\ l \in Legs /\ <<m, l>> \in Rows
      BY <1>6, <2>1, <2>3
    <3>2. <<m, l>> \notin session[s].rows
      BY <1>5, <1>6, <2>2, <3>1
    <3>3. QED
      BY <1>5, <3>1, <3>2
  <2>5. QED
    BY <2>3, <2>4
<1>13. WalkUpKeepsSeat'
  <2> SUFFICES ASSUME NEW c \in Bookings, booking'[c].status = "boarded"
               PROVE  /\ booking'[c].slot # 0
                      /\ \A leg \in 1..Alights[c] : seat'[<<booking'[c].slot, leg>>] = c
    BY DEF WalkUpKeepsSeat, Holds
  <2>1. c \notin session[s].on /\ booking'[c] = booking[c]
    BY DEF Freed
  <2>2. booking[c].slot # 0 /\ Holds(c, booking[c].slot)
    BY <2>1 DEF Rules, WalkUpKeepsSeat
  <2>3. booking[c].slot \in Slots
    <3>1. booking[c].slot \in Slots \cup {0}
      BY DEF TypeOK
    <3>2. QED
      BY <2>2, <3>1
  <2>4. \A leg \in 1..Alights[c] : <<booking[c].slot, leg>> \in Rows \ session[s].rows
    BY <1>5, <2>1, <2>2, <2>3, FirstLeg DEF Holds
  <2>5. QED
    BY <1>5, <2>1, <2>2, <2>4 DEF Holds
<1>14. QED
  BY <1>7, <1>8, <1>9, <1>10, <1>11, <1>12, <1>13 DEF Rules

-----------------------------------------------------------------------------
\* Every step has one of the shapes, so it keeps the rules.
LEMMA RulesStep == InductiveInv /\ [Next]_vars => Rules'
<1> SUFFICES ASSUME TypeOK, Rules, [Next]_vars PROVE Rules'
  BY DEF InductiveInv, Rules
<1>1. ASSUME NEW s \in Sessions, Request(s) PROVE Rules'
  BY <1>1, RequestShape, BegunKeeps
<1>2. ASSUME NEW s \in Sessions, Proceed(s) PROVE Rules'
  <2>1. ASSUME NEW b \in Bookings, NEW n \in Slots, Allocate(s, b, n) \/ Reallocate(s, b, n)
        PROVE  Rules'
    BY <2>1, ClaimShape, ClaimedKeeps
  <2>2. ASSUME NEW b \in Bookings, Insert(s, b) \/ Restore(s, b) PROVE Rules'
    BY <2>2, BindShape, BoundKeeps
  <2>3. ASSUME NEW b \in Bookings,
               RecordPayment(s, b) \/ CommitCheckIn(s, b) \/ CommitUndo(s, b)
        PROVE  Rules'
    BY <2>3, WriteShape, WrittenKeeps
  <2>4. ASSUME NEW b \in Bookings, AllocateRefused(s, b) \/ SeatGone(s, b) PROVE Rules'
    BY <2>4, EndShape, EndedKeeps DEF AllocateRefused, SeatGone
  <2>5. CASE LockTimeout(s)
    BY <2>5, EndShape, EndedKeeps DEF LockTimeout
  <2>6. ASSUME NEW b \in Bookings, Release(s, b) PROVE Rules'
    BY <2>6, ReleaseKeeps
  <2>7. CASE CommitCancel(s) \/ CommitDepart(s)
    BY <2>7, FreeShape, FreedKeeps
  <2>8. QED
    BY <1>2, <2>1, <2>2, <2>3, <2>4, <2>5, <2>6, <2>7 DEF Proceed
<1>3. ASSUME UNCHANGED <<booking, seat, session>> PROVE Rules'
  <2>1. NewBookingsAlone' /\ WorksOnReservations' /\ LocksExclusive'
    BY <1>3 DEF Rules, NewBookingsAlone, WorksOnReservations, LocksExclusive, Exists
  <2>2. ClaimLocksWindow' /\ ReleasesOwnStretches'
    BY <1>3 DEF Rules, ClaimLocksWindow, ReleasesOwnStretches, Window
  <2>3. ClaimStaysFree' /\ WholeStretches' /\ WalkUpKeepsSeat'
    BY <1>3, SameSeats DEF Rules, ClaimStaysFree, FreeThroughout, WalkUpKeepsSeat, Holds
  <2>4. QED
    BY <2>1, <2>2, <2>3 DEF Rules
<1>4. CASE Start \/ Void \/ LockList \/ Tick
  BY <1>3, <1>4 DEF Start, Void, LockList, Tick
<1>5. CASE UNCHANGED vars
  BY <1>3, <1>5 DEF vars
<1>6. QED
  BY <1>1, <1>2, <1>4, <1>5 DEF Next

\* No session is at work in the initial state and every seat row is free.
LEMMA RulesInit == Init => Rules
<1> SUFFICES ASSUME Init PROVE Rules
  OBVIOUS
<1>1. \A s \in Sessions : /\ session[s].step = "idle" /\ session[s].on = {}
                         /\ session[s].todo = {} /\ session[s].rows = {}
  BY DEF Init, Idle
<1>2. NewBookingsAlone /\ WorksOnReservations /\ LocksExclusive
  BY <1>1 DEF NewBookingsAlone, WorksOnReservations, LocksExclusive
<1>3. ClaimLocksWindow /\ ReleasesOwnStretches /\ ClaimStaysFree
  BY <1>1 DEF ClaimLocksWindow, ReleasesOwnStretches, ClaimStaysFree
<1>4. WholeStretches
  <2> SUFFICES ASSUME NEW b \in Bookings, NEW n \in Slots, NEW leg \in Legs,
                      seat[<<n, leg>>] = b
               PROVE  FALSE
    BY StretchByRow DEF WholeStretches
  <2>1. <<n, leg>> \in Rows
    BY DEF Rows
  <2>2. QED
    BY <2>1, CapacityAssumption DEF Init
<1>5. WalkUpKeepsSeat
  BY DEF Init, WalkUpKeepsSeat, NoBooking
<1>6. QED
  BY <1>2, <1>3, <1>4, <1>5 DEF Rules

\* The inductive invariant holds in every reachable state.
THEOREM Safety == Spec => []InductiveInv
<1>1. Init => InductiveInv
  BY TypeInit, RulesInit DEF InductiveInv, Rules
<1>2. InductiveInv /\ [Next]_vars => InductiveInv'
  BY TypeStep, RulesStep DEF InductiveInv, Rules
<1>3. QED
  BY <1>1, <1>2, PTL DEF Spec

\* The slot a handler chose under its row locks is still free when it binds it.
THEOREM ClaimedSlotStaysFree == Spec => []ClaimStaysFree
  BY Safety, PTL DEF InductiveInv

\* A booking has its whole stretch in a slot, or nothing there.
THEOREM StretchesStayWhole == Spec => []WholeStretches
  BY Safety, PTL DEF InductiveInv

\* A walk-up who is aboard keeps the seat, whatever other handlers do.
THEOREM WalkUpSeatIsKept == Spec => []WalkUpKeepsSeat
  BY Safety, PTL DEF InductiveInv

-----------------------------------------------------------------------------
\* Binding is SeatMap's Take: the stretch is free, and taken in one step.
LEMMA BoundTakes ==
    ASSUME TypeOK, Rules, NEW s \in Sessions, NEW b \in Bookings, Bound(s, b)
    PROVE  Map!MapNext
<1>1. session[s].pick \in Slots
  BY BoundSeats
<1>2. \A leg \in Map!Stretch(b) : seat[<<session[s].pick, leg>>] = Free
  BY BoundSeats DEF Map!Stretch
<1>3. Map!Take(b, session[s].pick)
  BY <1>2 DEF Map!Take, Map!Stretch, Bound, Bind, Rows
<1>4. QED
  BY <1>1, <1>3 DEF Map!MapNext

\* Freeing is SeatMap's GiveBack of the holdings the locked rows belong to.
LEMMA FreedGivesBack ==
    ASSUME TypeOK, Rules, NEW s \in Sessions, Freed(s)
    PROVE  Map!MapNext
<1> DEFINE locked == session[s].rows
           holdings == {<<seat[row], row[1]>> : row \in locked}
<1>1. /\ locked \subseteq Rows
      /\ \A row \in locked :
             /\ seat[row] \in session[s].on
             /\ \A leg \in Legs : seat[<<row[1], leg>>] = seat[row] => <<row[1], leg>> \in locked
  BY FreedSeats
<1>2. session[s].on \subseteq Bookings
  BY DEF TypeOK
<1>3. \A row \in locked : row[1] \in Slots /\ row[2] \in Legs /\ row = <<row[1], row[2]>>
  BY <1>1 DEF Rows
<1>4. holdings \in SUBSET (Bookings \X Slots)
  BY <1>1, <1>2, <1>3
<1>5. ASSUME NEW row \in locked PROVE Map!Holds(seat[row], row[1])
  <2>1. seat[row] \in Bookings /\ row[1] \in Slots /\ row[2] \in Legs
    BY <1>1, <1>2, <1>3
  <2>2. \A l \in 1..Alights[seat[row]] : seat[<<row[1], l>>] = seat[row]
    BY <1>3, <2>1, StretchByRow DEF Rules, WholeStretches
  <2>3. QED
    BY <2>2 DEF Map!Holds, Map!Stretch
<1>6. \A h \in holdings : Map!Holds(h[1], h[2])
  BY <1>5
<1>7. \A row \in Rows : <<seat[row], row[1]>> \in holdings <=> row \in locked
  <2> SUFFICES ASSUME NEW row \in Rows, NEW r \in locked,
                      seat[row] = seat[r], row[1] = r[1]
               PROVE  row \in locked
    OBVIOUS
  <2>1. row = <<r[1], row[2]>> /\ row[2] \in Legs
    BY DEF Rows
  <2>2. QED
    BY <1>1, <2>1
<1>8. seat' = [row \in Rows |-> IF row \in locked THEN Free ELSE seat[row]]
  BY DEF Freed, FreeRows
<1> HIDE DEF holdings, locked
<1>9. seat' = [row \in Slots \X Legs |->
                  IF <<seat[row], row[1]>> \in holdings THEN Free ELSE seat[row]]
  BY <1>7, <1>8 DEF Rows
<1>10. Map!GiveBack(holdings)
  BY <1>6, <1>9 DEF Map!GiveBack
<1>11. QED
  BY <1>4, <1>10 DEF Map!MapNext

\* The seat rows of the desk, through every interleaving of its handlers, are
\* sold and given back the way SeatMap promises.
THEOREM SellsStretches == Spec => SellsWholeStretches
<1>1. Init => Map!MapInit
  BY DEF Init, Map!MapInit, Rows
<1>2. InductiveInv /\ [Next]_vars => [Map!MapNext]_seat
  <2> SUFFICES ASSUME TypeOK, Rules, [Next]_vars
               PROVE  Map!MapNext \/ UNCHANGED seat
    BY DEF InductiveInv, Rules
  <2>1. ASSUME NEW s \in Sessions, Request(s) PROVE UNCHANGED seat
    BY <2>1, RequestShape DEF Begun
  <2>2. ASSUME NEW s \in Sessions, Proceed(s) PROVE Map!MapNext \/ UNCHANGED seat
    <3>1. ASSUME NEW b \in Bookings, Insert(s, b) \/ Restore(s, b) PROVE Map!MapNext
      BY <3>1, BindShape, BoundTakes
    <3>2. CASE CommitCancel(s) \/ CommitDepart(s)
      BY <3>2, FreeShape, FreedGivesBack
    <3>3. QED
      BY <2>2, <3>1, <3>2
      DEF Proceed, Allocate, Reallocate, Claim, AllocateRefused, SeatGone, LockTimeout, Release,
          RecordPayment, CommitCheckIn, CommitUndo, WriteStatus
  <2>3. CASE Start \/ Void \/ LockList \/ Tick \/ UNCHANGED vars
    BY <2>3 DEF Start, Void, LockList, Tick, vars
  <2>4. QED
    BY <2>1, <2>2, <2>3 DEF Next
<1>3. QED
  BY <1>1, <1>2, Safety, PTL DEF Spec, SellsWholeStretches, Map!MapSpec
-----------------------------------------------------------------------------
(***************************************************************************)
(* The rules of the desk, when no two handlers overlap: what a handler     *)
(* read still stands when it writes.                                       *)
(***************************************************************************)
OneAtATime == \A s, q \in Sessions : s = q

\* The trip is as the handler under way read it.
TripAsRead(s) ==
    /\ session[s].step \in {"allocate", "insert"} =>
           \A b \in session[s].on : trip.status \in Bookable(b)
    /\ session[s].step \in {"pay", "reallocate", "restore", "release"} =>
           trip.status \in OPEN_FOR_CASH
    /\ session[s].step = "release" /\ session[s].why \in CancelReasons \ {"auto_release"} =>
           ~trip.locked

\* So are the bookings it works on.
BookingsAsRead(s) ==
    /\ session[s].step \in {"reallocate", "restore"} =>
           \A b \in session[s].on : /\ booking[b].status = "cancelled"
                                    /\ booking[b].slot = session[s].was
    /\ session[s].step \in {"pay", "check_in", "undo", "release"} =>
           \A b \in session[s].on : booking[b].status \in STANDING
    /\ session[s].step = "release" /\ session[s].why \in CancelReasons \ {"asked"} =>
           \A b \in session[s].on : ~booking[b].paid

\* The rows a handler that gives rows back has locked are all the rows of the
\* bookings it is through with.
RowsAsRead(s) ==
    session[s].step = "release" =>
        session[s].rows = {row \in Rows : seat[row] \in session[s].on \ session[s].todo}

AsRead == \A s \in Sessions : TripAsRead(s) /\ BookingsAsRead(s) /\ RowsAsRead(s)

SerialInv ==
    /\ InductiveInv /\ AsRead
    /\ InventoryMatchesBookings /\ PaidCancelledOnlyOnRequest

-----------------------------------------------------------------------------
\* Begin sets the whole record, and leaves the trip alone.
LEMMA BeginAll ==
    ASSUME TypeOK, NEW s \in Sessions, NEW step, NEW on, NEW why, NEW was,
           Begin(s, step, on, why, was)
    PROVE  /\ UNCHANGED <<trip, booking, seat>>
           /\ session'[s].step = step /\ session'[s].on = on /\ session'[s].rows = {}
           /\ session'[s].todo = IF step = "release" THEN on ELSE {}
           /\ session'[s].why = why /\ session'[s].was = was
  BY DEF TypeOK, Begin, Idle

\* A handler that has just read has what it read.
LEMMA RequestReads ==
    ASSUME TypeOK, NEW s \in Sessions, Request(s)
    PROVE  TripAsRead(s)' /\ BookingsAsRead(s)' /\ RowsAsRead(s)'
<1>1. RowsAsRead(s)'
  <2> SUFFICES ASSUME session'[s].step = "release"
               PROVE  session'[s].rows = {} /\ session'[s].todo = session'[s].on
    BY DEF RowsAsRead
  <2>1. ASSUME NEW step, NEW on, NEW why, NEW was, Begin(s, step, on, why, was)
        PROVE  session'[s].rows = {} /\ session'[s].todo = session'[s].on
    BY <2>1, BeginAll
  <2>2. QED
    BY <2>1 DEF Request, Reserve, MarkPaid, CheckIn, UndoCheckIn, Cancel, Sweep, Depart
<1>2. ASSUME NEW b \in Bookings, Reserve(s, b) PROVE TripAsRead(s)' /\ BookingsAsRead(s)'
  <2>1. Begin(s, "allocate", {b}, "none", 0) /\ trip.status \in Bookable(b)
    BY <1>2 DEF Reserve
  <2>2. QED
    BY <2>1, BeginAll DEF TripAsRead, BookingsAsRead, Bookable
<1>3. ASSUME NEW b \in Bookings, MarkPaid(s, b) PROVE TripAsRead(s)' /\ BookingsAsRead(s)'
  <2>1. CASE booking[b].status \in STANDING /\ Begin(s, "pay", {b}, "none", 0)
    BY <1>3, <2>1, BeginAll DEF MarkPaid, TripAsRead, BookingsAsRead
  <2>2. CASE booking[b].status = "cancelled" /\ Begin(s, "reallocate", {b}, "none", booking[b].slot)
    BY <1>3, <2>2, BeginAll DEF MarkPaid, TripAsRead, BookingsAsRead
  <2>3. QED
    BY <1>3, <2>1, <2>2 DEF MarkPaid
<1>4. ASSUME NEW b \in Bookings, CheckIn(s, b) \/ UndoCheckIn(s, b)
      PROVE  TripAsRead(s)' /\ BookingsAsRead(s)'
  <2>1. booking[b].status \in STANDING
    BY <1>4 DEF CheckIn, UndoCheckIn, STANDING
  <2>2. CASE Begin(s, "check_in", {b}, "none", 0)
    BY <2>1, <2>2, BeginAll DEF TripAsRead, BookingsAsRead
  <2>3. CASE Begin(s, "undo", {b}, "none", 0)
    BY <2>1, <2>3, BeginAll DEF TripAsRead, BookingsAsRead
  <2>4. QED
    BY <1>4, <2>2, <2>3 DEF CheckIn, UndoCheckIn
<1>5. ASSUME NEW b \in Bookings, NEW why \in Doors, Cancel(s, b, why)
      PROVE  TripAsRead(s)' /\ BookingsAsRead(s)'
  <2>1. /\ Begin(s, "release", {b}, why, 0) /\ trip.status \in OPEN_FOR_CASH /\ ~trip.locked
        /\ booking[b].status \in STANDING /\ MayCancel(b, why)
    BY <1>5 DEF Cancel
  <2>2. why \notin {"auto_release", "departure"} /\ (why # "asked" => ~booking[b].paid)
    BY <2>1, BookingAssumption DEF MayCancel
  <2>3. /\ UNCHANGED <<trip, booking>> /\ session'[s].step = "release"
        /\ session'[s].on = {b} /\ session'[s].why = why
    BY <2>1, BeginAll
  <2>4. QED
    BY <2>1, <2>2, <2>3 DEF TripAsRead, BookingsAsRead
<1>6. CASE Sweep(s)
  <2>1. /\ Begin(s, "release", DueForRelease, "auto_release", 0)
        /\ trip.status \in OPEN_FOR_CASH
        /\ \A b \in DueForRelease : booking[b].status \in STANDING /\ ~booking[b].paid
    BY <1>6 DEF Sweep, DueForRelease, Unpaid
  <2>2. /\ UNCHANGED <<trip, booking>> /\ session'[s].step = "release"
        /\ session'[s].on = DueForRelease /\ session'[s].why = "auto_release"
    BY <2>1, BeginAll
  <2>3. TripAsRead(s)'
    BY <2>1, <2>2 DEF TripAsRead
  <2>4. BookingsAsRead(s)'
    BY <2>1, <2>2 DEF BookingsAsRead
  <2>5. QED
    BY <1>1, <2>3, <2>4
<1>7. CASE Depart(s)
  <2> DEFINE on == {b \in Bookings : booking[b].status \in STANDING}
  <2>1. Begin(s, "release", on, "departure", 0) /\ trip.status \in OPEN_FOR_CASH
    BY <1>7 DEF Depart, OPEN_FOR_CASH
  <2>2. \A b : b \in on <=> b \in Bookings /\ booking[b].status \in STANDING
    OBVIOUS
  <2> HIDE DEF on
  <2>3. /\ UNCHANGED <<trip, booking>> /\ session'[s].step = "release"
        /\ session'[s].on = on /\ session'[s].why = "departure"
    BY <2>1, BeginAll
  <2>4. "departure" \notin CancelReasons
    BY DEF CancelReasons
  <2>5. TripAsRead(s)'
    BY <2>1, <2>3, <2>4 DEF TripAsRead
  <2>6. BookingsAsRead(s)'
    BY <2>2, <2>3, <2>4 DEF BookingsAsRead
  <2>7. QED
    BY <1>1, <2>5, <2>6
<1>8. QED
  BY <1>1, <1>2, <1>3, <1>4, <1>5, <1>6, <1>7 DEF Request

\* A handler that goes on still has it: nobody wrote in between.
LEMMA ProceedReads ==
    ASSUME TypeOK, Rules, NEW s \in Sessions, TripAsRead(s), BookingsAsRead(s), RowsAsRead(s),
           Proceed(s)
    PROVE  TripAsRead(s)' /\ BookingsAsRead(s)' /\ RowsAsRead(s)'
<1>1. ASSUME session'[s] = Idle PROVE TripAsRead(s)' /\ BookingsAsRead(s)' /\ RowsAsRead(s)'
  <2>1. session'[s].step = "idle"
    BY <1>1 DEF Idle
  <2>2. QED
    BY <2>1 DEF TripAsRead, BookingsAsRead, RowsAsRead
<1>2. ASSUME NEW b \in Bookings, NEW n \in Slots, Allocate(s, b, n) \/ Reallocate(s, b, n)
      PROVE  TripAsRead(s)' /\ BookingsAsRead(s)' /\ RowsAsRead(s)'
  <2>1. /\ UNCHANGED <<trip, booking>> /\ session'[s].on = session[s].on
        /\ session'[s].was = session[s].was
        /\ \/ session[s].step = "allocate" /\ session'[s].step = "insert"
           \/ session[s].step = "reallocate" /\ session'[s].step = "restore"
    BY <1>2 DEF Allocate, Reallocate, Claim, TypeOK
  <2>2. session[s].on = {b}
    BY <1>2 DEF Rules, ClaimLocksWindow, Allocate, Reallocate
  <2>3. TripAsRead(s)'
    BY <2>1 DEF TripAsRead, Bookable
  <2>4. BookingsAsRead(s)'
    BY <2>1, <2>2 DEF BookingsAsRead
  <2>5. RowsAsRead(s)'
    BY <2>1 DEF RowsAsRead
  <2>6. QED
    BY <2>3, <2>4, <2>5
<1>3. ASSUME NEW b \in Bookings, Release(s, b)
      PROVE  TripAsRead(s)' /\ BookingsAsRead(s)' /\ RowsAsRead(s)'
  <2>1. /\ UNCHANGED <<trip, booking, seat>> /\ session'[s].on = session[s].on
        /\ session[s].step = "release" /\ session'[s].step = "release"
        /\ session'[s].why = session[s].why
        /\ session'[s].todo = session[s].todo \ {b} /\ b \in session[s].todo
        /\ session'[s].rows = session[s].rows \cup RowsOf(b)
    BY <1>3 DEF Release, TypeOK
  <2>2. TripAsRead(s)' /\ BookingsAsRead(s)'
    BY <2>1 DEF TripAsRead, BookingsAsRead
  <2>3. b \in session[s].on
    BY <2>1 DEF Rules, ReleasesOwnStretches
  <2>4. RowsAsRead(s)'
    BY <2>1, <2>3 DEF RowsAsRead, RowsOf
  <2>5. QED
    BY <2>2, <2>4
<1>4. ASSUME End(s) PROVE TripAsRead(s)' /\ BookingsAsRead(s)' /\ RowsAsRead(s)'
  BY <1>1, <1>4 DEF End, TypeOK
<1>5. ASSUME NEW b \in Bookings,
             \/ AllocateRefused(s, b) \/ Insert(s, b) \/ RecordPayment(s, b) \/ SeatGone(s, b)
             \/ Restore(s, b) \/ CommitCheckIn(s, b) \/ CommitUndo(s, b)
      PROVE  End(s)
  BY <1>5 DEF AllocateRefused, Insert, RecordPayment, SeatGone, Restore, CommitCheckIn,
              CommitUndo, WriteStatus
<1>6. CommitCancel(s) \/ CommitDepart(s) \/ LockTimeout(s) => End(s)
  BY DEF CommitCancel, CommitDepart, LockTimeout
<1>7. QED
  BY <1>2, <1>3, <1>4, <1>5, <1>6 DEF Proceed

\* So with one session what a handler read stands until it commits.
LEMMA ReadsStand ==
    ASSUME OneAtATime, TypeOK, Rules, AsRead, [Next]_vars
    PROVE  AsRead'
<1> SUFFICES ASSUME NEW s \in Sessions
             PROVE  TripAsRead(s)' /\ BookingsAsRead(s)' /\ RowsAsRead(s)'
  BY DEF AsRead
<1>1. TripAsRead(s) /\ BookingsAsRead(s) /\ RowsAsRead(s)
  BY DEF AsRead
<1>2. ASSUME NEW q \in Sessions, Request(q) \/ Proceed(q)
      PROVE  TripAsRead(s)' /\ BookingsAsRead(s)' /\ RowsAsRead(s)'
  <2>1. q = s
    BY DEF OneAtATime
  <2>2. QED
    BY <1>1, <1>2, <2>1, RequestReads, ProceedReads
<1>3. CASE Start \/ Void \/ LockList
  <2>1. session[s].step = "idle" /\ session' = session
    BY <1>3 DEF Start, Void, LockList, FreeSession, OneAtATime
  <2>2. QED
    BY <2>1 DEF TripAsRead, BookingsAsRead, RowsAsRead
<1>4. CASE Tick \/ UNCHANGED vars
  <2>1. UNCHANGED <<trip, booking, seat, session>>
    BY <1>4 DEF Tick, vars
  <2>2. session[s].on \subseteq Bookings
    BY DEF TypeOK
  <2>3. BookingsAsRead(s)'
    BY <1>1, <2>1, <2>2 DEF BookingsAsRead
  <2>4. TripAsRead(s)' /\ RowsAsRead(s)'
    BY <1>1, <2>1 DEF TripAsRead, RowsAsRead, Bookable
  <2>5. QED
    BY <2>3, <2>4
<1>5. QED
  BY <1>2, <1>3, <1>4 DEF Next

-----------------------------------------------------------------------------
\* A payment, a check-in or its undo: a reservation that stands, and still does.
MarksReservation(s, b) ==
    RecordPayment(s, b) \/ CommitCheckIn(s, b) \/ CommitUndo(s, b)

\* The steps that write a booking or a seat row.
LEMMA Writers ==
    ASSUME TypeOK, [Next]_vars
    PROVE  \/ UNCHANGED <<booking, seat>>
           \/ \E s \in Sessions, b \in Bookings : Insert(s, b) \/ Restore(s, b)
           \/ \E s \in Sessions, b \in Bookings : MarksReservation(s, b)
           \/ \E s \in Sessions : CommitCancel(s) \/ CommitDepart(s)
<1> DEFINE Still == UNCHANGED <<booking, seat>>
<1>1. ASSUME NEW s \in Sessions, Request(s) PROVE Still
  <2>1. ASSUME NEW step, NEW on, NEW why, NEW was, Begin(s, step, on, why, was) PROVE Still
    BY <2>1 DEF Begin
  <2> HIDE DEF Still
  <2>2. QED
    BY <1>1, <2>1 DEF Request, Reserve, MarkPaid, CheckIn, UndoCheckIn, Cancel, Sweep, Depart
<1>2. ASSUME NEW s \in Sessions, NEW b \in Bookings, NEW n \in Slots,
             Allocate(s, b, n) \/ Reallocate(s, b, n)
      PROVE  Still
  BY <1>2 DEF Allocate, Reallocate, Claim
<1>3. ASSUME NEW s \in Sessions, NEW b \in Bookings,
             AllocateRefused(s, b) \/ SeatGone(s, b) \/ Release(s, b)
      PROVE  Still
  BY <1>3 DEF AllocateRefused, SeatGone, Release
<1>4. ASSUME NEW s \in Sessions, LockTimeout(s) PROVE Still
  BY <1>4 DEF LockTimeout
<1>5. CASE Start \/ Void \/ LockList \/ Tick \/ UNCHANGED vars
  BY <1>5 DEF Start, Void, LockList, Tick, vars, TypeOK
<1> HIDE DEF Still
<1>6. ASSUME NEW s \in Sessions, Proceed(s)
      PROVE  \/ Still
             \/ \E b \in Bookings : Insert(s, b) \/ Restore(s, b) \/ MarksReservation(s, b)
             \/ CommitCancel(s) \/ CommitDepart(s)
  BY <1>2, <1>3, <1>4, <1>6 DEF Proceed, MarksReservation
<1>7. QED
  BY <1>1, <1>5, <1>6 DEF Next, Still

\* What a booking being inserted or restored was and becomes.
LEMMA SeatedBooking ==
    ASSUME TypeOK, Rules, AsRead, NEW s \in Sessions, NEW b \in Bookings,
           Insert(s, b) \/ Restore(s, b)
    PROVE  /\ trip' = trip
           /\ booking[b].status \in {"none", "cancelled"}
           /\ booking[b].status = "none" <=> Insert(s, b)
           /\ booking'[b].status \in {"confirmed", "boarded"}
           /\ booking'[b].slot = session[s].pick
           /\ \A c \in Bookings \ {b} : booking'[c] = booking[c]
<1>1. /\ b \in session[s].on /\ trip' = trip
      /\ TripAsRead(s) /\ BookingsAsRead(s)
  BY DEF Insert, Restore, AsRead
<1>2. \A c \in Bookings \ {b} : booking'[c] = booking[c]
  BY DEF Insert, Restore, TypeOK
<1>3. CASE Insert(s, b)
  <2>1. session[s].step = "insert"
    BY <1>3 DEF Insert
  <2>2. booking'[b].status \in {"confirmed", "boarded"} /\ booking'[b].slot = session[s].pick
    BY <1>3 DEF Insert, TypeOK
  <2>3. booking[b].status = "none"
    BY <1>1, <2>1 DEF Rules, NewBookingsAlone, Exists
  <2>4. QED
    BY <1>1, <1>2, <1>3, <2>2, <2>3
<1>4. CASE Restore(s, b)
  <2>1. session[s].step = "restore"
    BY <1>4 DEF Restore
  <2>2. booking[b].status = "cancelled" /\ booking[b].slot = session[s].was
    BY <1>1, <2>1 DEF BookingsAsRead
  <2>3. booking'[b].status = "confirmed" /\ booking'[b].slot = session[s].pick
    BY <1>4, <2>2 DEF Restore, TypeOK
  <2>4. ~Insert(s, b)
    BY <2>1 DEF Insert
  <2>5. QED
    BY <1>1, <1>2, <2>2, <2>3, <2>4
<1>5. QED
  BY <1>3, <1>4

\* What a reservation that is marked was and becomes.
LEMMA MarkedBooking ==
    ASSUME TypeOK, AsRead, NEW s \in Sessions, NEW b \in Bookings, MarksReservation(s, b)
    PROVE  /\ trip' = trip /\ seat' = seat
           /\ booking[b].status \in STANDING /\ booking'[b].status \in STANDING
           /\ booking'[b].slot = booking[b].slot
           /\ \A c \in Bookings \ {b} : booking'[c] = booking[c]
<1>1. /\ b \in session[s].on /\ session[s].step \in {"pay", "check_in", "undo"}
      /\ trip' = trip /\ seat' = seat
      /\ \A c \in Bookings \ {b} : booking'[c] = booking[c]
      /\ booking'[b].slot = booking[b].slot
      /\ booking'[b].status \in {booking[b].status, "checked_in", "confirmed"}
  BY DEF MarksReservation, RecordPayment, CommitCheckIn, CommitUndo, WriteStatus, TypeOK
<1>2. booking[b].status \in STANDING
  BY <1>1 DEF AsRead, BookingsAsRead
<1>3. QED
  BY <1>1, <1>2 DEF STANDING

\* What the bookings whose rows are given back were and become.
LEMMA ReleasedBookings ==
    ASSUME TypeOK, AsRead, NEW s \in Sessions, CommitCancel(s) \/ CommitDepart(s)
    PROVE  /\ session[s].on \subseteq Bookings
           /\ \A b \in session[s].on :
                  /\ booking[b].status \in STANDING
                  /\ booking'[b].status = IF CommitCancel(s) THEN "cancelled" ELSE "no_show"
                  /\ booking'[b].paid = booking[b].paid
           /\ \A b \in Bookings \ session[s].on : booking'[b] = booking[b]
           /\ CommitCancel(s) =>
                  /\ trip' = trip
                  /\ trip.locked => session[s].why = "auto_release"
                  /\ \A b \in session[s].on :
                         /\ booking'[b].reason = session[s].why
                         /\ booking[b].paid => session[s].why = "asked"
           /\ session[s].rows = {row \in Rows : seat[row] \in session[s].on}
           /\ FreeRows(session[s].rows)
<1>1. /\ session[s].step = "release" /\ session[s].todo = {} /\ session[s].on \subseteq Bookings
      /\ FreeRows(session[s].rows)
  BY DEF CommitCancel, CommitDepart, TypeOK
<1>2. TripAsRead(s) /\ BookingsAsRead(s) /\ RowsAsRead(s)
  BY DEF AsRead
<1>3. session[s].rows = {row \in Rows : seat[row] \in session[s].on}
  BY <1>1, <1>2 DEF RowsAsRead
<1>4. \A b \in session[s].on : booking[b].status \in STANDING
  BY <1>1, <1>2 DEF BookingsAsRead
<1>5. /\ \A b \in session[s].on : booking'[b].paid = booking[b].paid
      /\ \A b \in Bookings \ session[s].on : booking'[b] = booking[b]
  <2>1. booking \in [Bookings -> BookingType]
    BY DEF TypeOK, BookingType
  <2>2. CASE CommitCancel(s)
    BY <1>1, <2>1, <2>2 DEF CommitCancel, BookingType
  <2>3. CASE CommitDepart(s)
    BY <1>1, <2>1, <2>3 DEF CommitDepart, BookingType
  <2>4. QED
    BY <2>2, <2>3
<1>6. ASSUME CommitCancel(s)
      PROVE  /\ trip' = trip
             /\ trip.locked => session[s].why = "auto_release"
             /\ \A b \in session[s].on :
                    /\ booking'[b].status = "cancelled"
                    /\ booking'[b].reason = session[s].why
                    /\ booking[b].paid => session[s].why = "asked"
  <2>1. session[s].why \in CancelReasons /\ trip' = trip
    BY <1>6 DEF CommitCancel
  <2>2. \A b \in session[s].on : booking'[b].status = "cancelled" /\ booking'[b].reason = session[s].why
    <3>1. booking \in [Bookings -> BookingType]
      BY DEF TypeOK, BookingType
    <3>2. QED
      BY <1>1, <1>6, <3>1 DEF CommitCancel, BookingType
  <2>3. trip.locked => session[s].why = "auto_release"
    BY <1>1, <1>2, <2>1 DEF TripAsRead
  <2>4. \A b \in session[s].on : booking[b].paid => session[s].why = "asked"
    BY <1>1, <1>2, <2>1 DEF BookingsAsRead
  <2>5. QED
    BY <2>1, <2>2, <2>3, <2>4
<1>7. ASSUME CommitDepart(s)
      PROVE  /\ \A b \in session[s].on : booking'[b].status = "no_show"
             /\ ~CommitCancel(s)
  <2>1. ~CommitCancel(s)
    BY <1>7 DEF CommitDepart, CommitCancel, CancelReasons
  <2>2. \A b \in session[s].on : booking'[b].status = "no_show"
    <3>1. booking \in [Bookings -> BookingType]
      BY DEF TypeOK, BookingType
    <3>2. QED
      BY <1>1, <1>7, <3>1 DEF CommitDepart, BookingType
  <2>3. QED
    BY <2>1, <2>2
<1>8. QED
  BY <1>1, <1>3, <1>4, <1>5, <1>6, <1>7

-----------------------------------------------------------------------------
\* Seat rows and bookings go on telling the same story.
LEMMA InventoryStep ==
    ASSUME OneAtATime, TypeOK, Rules, AsRead, InventoryMatchesBookings, [Next]_vars
    PROVE  InventoryMatchesBookings'
<1> SUFFICES ASSUME NEW c \in Bookings
             PROVE  RowsOf(c)' = IF Live(c)' THEN {booking'[c].slot} \X (1..Alights[c]) ELSE {}
  BY DEF InventoryMatchesBookings
<1>1. RowsOf(c) = IF Live(c) THEN {booking[c].slot} \X (1..Alights[c]) ELSE {}
  BY DEF InventoryMatchesBookings
<1>2. CASE UNCHANGED <<booking, seat>>
  BY <1>1, <1>2 DEF RowsOf, Live
<1>3. ASSUME NEW s \in Sessions, NEW b \in Bookings, MarksReservation(s, b)
      PROVE  RowsOf(c)' = IF Live(c)' THEN {booking'[c].slot} \X (1..Alights[c]) ELSE {}
  <2>1. RowsOf(c)' = RowsOf(c) /\ booking'[c].slot = booking[c].slot
    BY <1>3, MarkedBooking DEF RowsOf
  <2>2. Live(c)' <=> Live(c)
    BY <1>3, MarkedBooking DEF Live, STANDING
  <2>3. QED
    BY <1>1, <2>1, <2>2
<1>4. ASSUME NEW s \in Sessions, NEW b \in Bookings, Insert(s, b) \/ Restore(s, b)
      PROVE  RowsOf(c)' = IF Live(c)' THEN {booking'[c].slot} \X (1..Alights[c]) ELSE {}
  <2> DEFINE n == session[s].pick
  <2>1. Bound(s, b)
    BY <1>4, BindShape
  <2>2. n \in Slots
    BY <2>1, BoundSeats
  <2>3. \A row \in Rows : seat'[row] # seat[row] =>
            row[1] = n /\ row[2] \in 1..Alights[b] /\ seat[row] = Free /\ seat'[row] = b
    BY <2>1, BoundSeats
  <2>4. \A leg \in 1..Alights[b] : seat'[<<n, leg>>] = b /\ <<n, leg>> \in Rows
    BY <2>1, <2>2, BoundSeats, FirstLeg
  <2> HIDE DEF n
  <2>5. CASE c = b
    <3>1. ~Live(b) /\ Live(b)' /\ booking'[b].slot = n
      BY <1>4, SeatedBooking DEF Live, n
    <3>2. RowsOf(b) = {}
      BY <1>1, <2>5, <3>1
    <3>3. \A row \in Rows : row = <<row[1], row[2]>>
      BY DEF Rows
    <3>4. \A row \in RowsOf(b)' : row \in {n} \X (1..Alights[b])
      BY <2>3, <3>2, <3>3 DEF RowsOf
    <3>5. \A row \in {n} \X (1..Alights[b]) : row \in RowsOf(b)'
      BY <2>4 DEF RowsOf
    <3>6. RowsOf(b)' = {n} \X (1..Alights[b])
      BY <3>4, <3>5
    <3>7. QED
      BY <2>5, <3>1, <3>6
  <2>6. CASE c # b
    <3>1. booking'[c] = booking[c]
      BY <1>4, <2>6, SeatedBooking
    <3>2. \A row \in Rows : seat'[row] = c <=> seat[row] = c
      BY <2>3, <2>6, CapacityAssumption
    <3>3. RowsOf(c)' = RowsOf(c)
      BY <3>2 DEF RowsOf
    <3>4. QED
      BY <1>1, <3>1, <3>3 DEF Live
  <2>7. QED
    BY <2>5, <2>6
<1>5. ASSUME NEW s \in Sessions, CommitCancel(s) \/ CommitDepart(s)
      PROVE  RowsOf(c)' = IF Live(c)' THEN {booking'[c].slot} \X (1..Alights[c]) ELSE {}
  <2>1. /\ session[s].rows = {row \in Rows : seat[row] \in session[s].on}
        /\ \A row \in Rows : seat'[row] = IF row \in session[s].rows THEN Free ELSE seat[row]
    BY <1>5, ReleasedBookings DEF FreeRows
  <2>2. CASE c \in session[s].on
    <3>1. ~Live(c)'
      BY <1>5, <2>2, ReleasedBookings DEF Live
    <3>2. RowsOf(c)' = {}
      BY <2>1, <2>2, CapacityAssumption DEF RowsOf
    <3>3. QED
      BY <3>1, <3>2
  <2>3. CASE c \notin session[s].on
    <3>1. booking'[c] = booking[c]
      BY <1>5, <2>3, ReleasedBookings
    <3>2. RowsOf(c)' = RowsOf(c)
      BY <2>1, <2>3, CapacityAssumption DEF RowsOf
    <3>3. QED
      BY <1>1, <3>1, <3>2 DEF Live
  <2>4. QED
    BY <2>2, <2>3
<1>6. QED
  BY <1>2, <1>3, <1>4, <1>5, Writers

\* A paid seat that is cancelled was cancelled at the passenger's request.
LEMMA PaidStep ==
    ASSUME TypeOK, Rules, AsRead, PaidCancelledOnlyOnRequest, [Next]_vars
    PROVE  PaidCancelledOnlyOnRequest'
<1> SUFFICES ASSUME NEW c \in Bookings, booking'[c].paid, booking'[c].status = "cancelled"
             PROVE  booking'[c].reason = "asked"
  BY DEF PaidCancelledOnlyOnRequest
<1>1. CASE booking'[c] = booking[c]
  BY <1>1 DEF PaidCancelledOnlyOnRequest
<1>2. ASSUME NEW s \in Sessions, NEW b \in Bookings, Insert(s, b) \/ Restore(s, b)
      PROVE  booking'[c] = booking[c]
  BY <1>2, SeatedBooking
<1>3. ASSUME NEW s \in Sessions, NEW b \in Bookings, MarksReservation(s, b)
      PROVE  booking'[c] = booking[c]
  BY <1>3, MarkedBooking DEF STANDING
<1>4. ASSUME NEW s \in Sessions, CommitCancel(s) \/ CommitDepart(s), booking'[c] # booking[c]
      PROVE  booking'[c].reason = "asked"
  <2>1. c \in session[s].on
    BY <1>4, ReleasedBookings
  <2>2. CommitCancel(s) /\ booking[c].paid
    BY <1>4, <2>1, ReleasedBookings
  <2>3. QED
    BY <2>1, <2>2, ReleasedBookings
<1>5. QED
  BY <1>1, <1>2, <1>3, <1>4, Writers

\* What holds when no two handlers overlap holds of every step.
LEMMA SerialStep ==
    ASSUME OneAtATime, SerialInv, [Next]_vars
    PROVE  SerialInv'
<1> USE DEF SerialInv
<1>1. TypeOK /\ Rules
  BY DEF InductiveInv, Rules
<1>2. InductiveInv'
  BY <1>1, TypeStep, RulesStep DEF InductiveInv, Rules
<1>3. AsRead' /\ InventoryMatchesBookings'
  BY <1>1, ReadsStand, InventoryStep
<1>4. PaidCancelledOnlyOnRequest'
  BY <1>1, PaidStep
<1>5. QED
  BY <1>2, <1>3, <1>4

\* At first no handler is under way and there is no booking.
LEMMA SerialInit == Init => SerialInv
<1> SUFFICES ASSUME Init PROVE SerialInv
  OBVIOUS
<1>1. InductiveInv
  BY TypeInit, RulesInit DEF InductiveInv, Rules
<1>2. \A s \in Sessions : session[s].step = "idle"
  BY DEF Init, Idle
<1>3. AsRead
  BY <1>2 DEF AsRead, TripAsRead, BookingsAsRead, RowsAsRead
<1>4. \A b \in Bookings : booking[b].status = "none" /\ RowsOf(b) = {}
  BY CapacityAssumption DEF Init, NoBooking, RowsOf
<1>5. InventoryMatchesBookings /\ PaidCancelledOnlyOnRequest
  BY <1>4 DEF InventoryMatchesBookings, Live, PaidCancelledOnlyOnRequest, STANDING
<1>6. QED
  BY <1>1, <1>3, <1>5 DEF SerialInv

\* With one session, what a handler read stands until it commits, and the
\* rules of the desk hold in every reachable state.
LEMMA SerialSafety == ASSUME OneAtATime PROVE Spec => []SerialInv
<1>1. SerialInv /\ [Next]_vars => SerialInv'
  BY SerialStep
<1>2. QED
  BY <1>1, SerialInit, PTL DEF Spec

\* A live booking has its stretch in its slot and nothing else; any other
\* booking has no seat row.
THEOREM InventoryIsTrue == ASSUME OneAtATime PROVE Spec => []InventoryMatchesBookings
  BY SerialSafety, PTL DEF SerialInv

\* A paid seat is cancelled only at the passenger's request.
THEOREM PaidSeatIsKept == ASSUME OneAtATime PROVE Spec => []PaidCancelledOnlyOnRequest
  BY SerialSafety, PTL DEF SerialInv

\* A person cancels nothing once the list is locked.
THEOREM LockedListStands == ASSUME OneAtATime PROVE Spec => NoCancelOnceLocked
<1> DEFINE Stands == \A b \in Bookings :
           trip.locked /\ booking'[b].status = "cancelled"
               => booking[b].status = "cancelled" \/ booking'[b].reason = "auto_release"
<1>1. SerialInv /\ [Next]_vars => [Stands]_vars
  <2> SUFFICES ASSUME TypeOK, Rules, AsRead, [Next]_vars, NEW b \in Bookings,
                      trip.locked, booking'[b].status = "cancelled",
                      booking[b].status # "cancelled"
               PROVE  booking'[b].reason = "auto_release"
    BY DEF SerialInv, InductiveInv, Rules
  <2>1. ~\E s \in Sessions, c \in Bookings : Insert(s, c) \/ Restore(s, c)
    BY SeatedBooking
  <2>2. ~\E s \in Sessions, c \in Bookings : MarksReservation(s, c)
    BY MarkedBooking DEF STANDING
  <2>3. PICK s \in Sessions : CommitCancel(s) \/ CommitDepart(s)
    BY <2>1, <2>2, Writers
  <2>4. b \in session[s].on
    BY <2>3, ReleasedBookings
  <2>5. CommitCancel(s)
    BY <2>3, <2>4, ReleasedBookings
  <2>6. QED
    BY <2>4, <2>5, ReleasedBookings
<1>2. QED
  BY <1>1, SerialSafety, PTL DEF Spec, NoCancelOnceLocked
=============================================================================
