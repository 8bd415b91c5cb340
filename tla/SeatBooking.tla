----------------------------- MODULE SeatBooking -----------------------------
(***************************************************************************)
(* One trip of the booking desk: its row in trips, its bookings, its       *)
(* seat_inventory rows, and the database sessions that work on them.       *)
(*                                                                         *)
(* A handler reads rows without locking them, decides, and writes later;   *)
(* what it wrote becomes visible at its commit.  Isolation is READ         *)
(* COMMITTED and an UPDATE writes only the columns the handler changed, so *)
(* a decision made on a stale row is written over whatever was committed   *)
(* in between.  Each handler is therefore cut where another session can    *)
(* commit: after its reads, and where it waits for row locks.              *)
(*                                                                         *)
(* A session serves one handler, or one tick of the cutoff job, at a time. *)
(* One session is a server that never overlaps two requests.               *)
(***************************************************************************)
EXTENDS Naturals, FiniteSets

CONSTANTS
    Bookings,    \* booking ids that may ever be created
    Sessions,    \* database sessions open at once
    Capacity,    \* trips.seat_capacity
    LegCount,    \* legs of the route: its stops less one
    Source,      \* booking_type of each booking: "app" or "cash"
    Alights,     \* last leg of each booking (alighting stop - 1)
    AdvanceCap,  \* advance_booking_seat_cap
    Doors,       \* the reasons a person cancels for
    Free         \* seat_inventory.booking_id IS NULL, status 'available'

Slots == 1..Capacity  \* seat_number: a capacity slot, not a chair
Legs == 1..LegCount   \* leg_sequence

ASSUME CapacityAssumption ==
    /\ Capacity \in Nat \ {0} /\ LegCount \in Nat \ {0}
    /\ Free \notin Bookings

ASSUME BookingAssumption ==
    /\ Source \in [Bookings -> {"app", "cash"}]
    /\ Alights \in [Bookings -> Legs]
    /\ AdvanceCap \in Nat
    /\ Doors \subseteq {"passenger", "asked", "forgot"}

VARIABLES
    trip,     \* trips: status, and whether list_locked_at is set
    booking,  \* bookings, by id; status "none" before the INSERT
    seat,     \* seat_inventory: the booking each committed row is bound to
    clock,    \* where now stands against the cutoff and the departure time
    session   \* what each session is doing, and the row locks it holds

vars == <<trip, booking, seat, clock, session>>

-----------------------------------------------------------------------------
Rows == Slots \X Legs

CancelReasons == {"passenger", "asked", "forgot", "auto_release"}

STANDING == {"confirmed", "checked_in"}
\* Mutant: the roadside rule of before, when cash was taken after departure.
OpenAfterDeparture == {"scheduled", "boarding", "departed"}

OPEN_FOR_CASH == {"scheduled", "boarding"}
Bookable(b) == IF Source[b] = "app" THEN {"scheduled"} ELSE {"scheduled", "boarding"}

Steps == {"idle", "allocate", "insert", "pay", "reallocate", "restore",
          "release", "check_in", "undo"}

\* on: the bookings the handler acts on.  todo: those whose seat rows it has
\* still to release.  rows: the seat rows it has locked.  pick: the slot it
\* claimed.  was: the slot it read.  why: what a release is for.
Idle == [step |-> "idle", on |-> {}, todo |-> {}, rows |-> {},
         pick |-> 0, was |-> 0, why |-> "none"]

NoBooking == [status |-> "none", paid |-> FALSE, slot |-> 0, reason |-> "none"]

TypeOK ==
    /\ trip \in [status : {"scheduled", "boarding", "departed", "cancelled"},
                 locked : BOOLEAN]
    /\ booking \in [Bookings -> [status : {"none", "confirmed", "checked_in",
                                           "boarded", "no_show", "cancelled"},
                                 paid   : BOOLEAN,
                                 slot   : Slots \cup {0},
                                 reason : CancelReasons \cup {"none"}]]
    /\ seat \in [Rows -> Bookings \cup {Free}]
    /\ clock \in {"open", "cutoff", "past"}
    /\ session \in [Sessions -> [step : Steps,
                                 on   : SUBSET Bookings,
                                 todo : SUBSET Bookings,
                                 rows : SUBSET Rows,
                                 pick : Slots \cup {0},
                                 was  : Slots \cup {0},
                                 why  : CancelReasons \cup {"none", "departure"}]]

Init ==
    /\ trip = [status |-> "scheduled", locked |-> FALSE]
    /\ booking = [b \in Bookings |-> NoBooking]
    /\ seat = [row \in Rows |-> Free]
    /\ clock = "open"
    /\ session = [s \in Sessions |-> Idle]

-----------------------------------------------------------------------------
(***************************************************************************)
(* What the handlers read.                                                 *)
(***************************************************************************)
\* Mutant: only the leg the passenger alights after is locked.
LastLegOfEverySlot(b) == Slots \X {Alights[b]}

\* The rows allocate_seat locks: every slot, every leg of the stretch.
Window(b) == Slots \X (1..Alights[b])

\* Mutant: rows are found by seat_number instead of booking_id.
RowsBySeatNumber(b) == {row \in Rows : row[1] = booking[b].slot}

RowsOf(b) == {row \in Rows : seat[row] = b}

FreeThroughout(n, b) == \A leg \in 1..Alights[b] : seat[<<n, leg>>] = Free

\* Mutant: a slot qualifies when any leg of the stretch is free.
FreeOnSomeLeg(b) == {n \in Slots : \E leg \in 1..Alights[b] : seat[<<n, leg>>] = Free}

Candidates(b) == {n \in Slots : FreeThroughout(n, b)}

Exists(b) == booking[b].status # "none"

\* App bookings that count against the advance limit: all but the cancelled.
LiveApp == {b \in Bookings : /\ Source[b] = "app"
                             /\ booking[b].status \notin {"none", "cancelled"}}

\* Mutant: the limit is compared the wrong way round by one.
OneOverAdvanceCap(b) ==
    (Source[b] = "app" /\ AdvanceCap < Capacity)
        => Cardinality(LiveApp) <= AdvanceCap

WithinAdvanceCap(b) ==
    (Source[b] = "app" /\ AdvanceCap < Capacity)
        => Cardinality(LiveApp) < AdvanceCap

Unpaid(b) == booking[b].status \in STANDING /\ ~booking[b].paid

\* Mutant: a check-in saves the seat.
NotCheckedIn == {b \in Bookings : Unpaid(b) /\ booking[b].status # "checked_in"}

DueForRelease == {b \in Bookings : Unpaid(b)}

\* InnoDB: a row stays locked by the session that locked or changed it until
\* that session commits or rolls back.
LockedByAnother(s, rows) == \E q \in Sessions \ {s} : session[q].rows \cap rows # {}

\* A cancellation flushes each booking it cancels; a departure flushes all of
\* its no-shows together, in the same step as its commit.
BookingLocked(s, b) ==
    \E q \in Sessions \ {s} : /\ session[q].step = "release"
                             /\ session[q].why # "departure"
                             /\ b \in session[q].on \ session[q].todo

\* Depart holds the trips row FOR UPDATE from its first statement.
TripRowLocked == \E q \in Sessions : session[q].why = "departure"

OnlySweep == \A q \in Sessions : session[q].why # "auto_release"

\* The first step of a handler: it read what it needs and will go on to step.
Begin(s, step, on, why, was) ==
    /\ session[s].step = "idle"
    /\ session' = [session EXCEPT ![s] =
           [Idle EXCEPT !.step = step, !.on = on, !.was = was, !.why = why,
                        !.todo = IF step = "release" THEN on ELSE {}]]
    /\ UNCHANGED <<trip, booking, seat, clock>>

\* Commit or rollback: the handler is over and its locks are gone.
End(s) == session' = [session EXCEPT ![s] = Idle]

-----------------------------------------------------------------------------
(***************************************************************************)
(* Reserving a seat: in the app, or the Dispatcher listing a walk-up.      *)
(***************************************************************************)
\* The trip is read without a lock and not looked at again.
Reserve(s, b) ==
    /\ ~Exists(b) /\ \A q \in Sessions : b \notin session[q].on
    /\ trip.status \in Bookable(b)
    /\ Source[b] = "app" => clock # "past"
    /\ Begin(s, "allocate", {b}, "none", 0)

\* SELECT ... FOR UPDATE on the window, then the lowest slot free throughout.
Claim(s, b, n, step) ==
    /\ ~LockedByAnother(s, Window(b))
    /\ n \in Candidates(b) /\ \A m \in Candidates(b) : n <= m
    /\ session' = [session EXCEPT ![s].step = step, ![s].rows = Window(b), ![s].pick = n]
    /\ UNCHANGED <<trip, booking, seat, clock>>

Allocate(s, b, n) ==
    /\ session[s].step = "allocate" /\ b \in session[s].on
    /\ WithinAdvanceCap(b)
    /\ Claim(s, b, n, "insert")

\* No slot is free throughout, or the advance limit is reached: rollback.
AllocateRefused(s, b) ==
    /\ session[s].step = "allocate" /\ b \in session[s].on
    /\ ~LockedByAnother(s, Window(b))
    /\ Candidates(b) = {} \/ ~WithinAdvanceCap(b)
    /\ End(s)
    /\ UNCHANGED <<trip, booking, seat, clock>>

\* Mutant: the last leg of the stretch is left out.
BindShort(b, n) ==
    seat' = [row \in Rows |->
                IF row[1] = n /\ row[2] \in 1..(Alights[b] - 1) THEN b ELSE seat[row]]

\* bind_to_booking and confirm: the rows of the stretch name the booking.
Bind(b, n) ==
    seat' = [row \in Rows |->
                IF row[1] = n /\ row[2] \in 1..Alights[b] THEN b ELSE seat[row]]

\* INSERT INTO bookings needs a shared lock on the trips row it refers to,
\* so it waits for a departure that holds it.
Insert(s, b) ==
    /\ session[s].step = "insert" /\ b \in session[s].on
    /\ ~TripRowLocked
    /\ booking' = [booking EXCEPT ![b] =
           [status |-> IF Source[b] = "app" THEN "confirmed" ELSE "boarded",
            paid   |-> Source[b] = "cash",
            slot   |-> session[s].pick,
            reason |-> "none"]]
    /\ Bind(b, session[s].pick)
    /\ End(s)
    /\ UNCHANGED <<trip, clock>>

-----------------------------------------------------------------------------
(***************************************************************************)
(* Mark as Paid, and the restore of a seat the cutoff job released first.  *)
(***************************************************************************)
MarkPaid(s, b) ==
    /\ trip.status \in OPEN_FOR_CASH
    /\ ~booking[b].paid
    /\ \/ /\ booking[b].status \in STANDING
          /\ Begin(s, "pay", {b}, "none", 0)
       \/ /\ booking[b].status = "cancelled" /\ booking[b].reason = "auto_release"
          /\ Begin(s, "reallocate", {b}, "none", booking[b].slot)

\* Only the payment columns are written, whatever the status is by now.
RecordPayment(s, b) ==
    /\ session[s].step = "pay" /\ b \in session[s].on
    /\ ~BookingLocked(s, b)
    /\ booking' = [booking EXCEPT ![b].paid = TRUE]
    /\ End(s)
    /\ UNCHANGED <<trip, seat, clock>>

Reallocate(s, b, n) ==
    /\ session[s].step = "reallocate" /\ b \in session[s].on
    /\ Claim(s, b, n, "restore")

\* The trip is full: the booking stays cancelled, the Terminal Manager is told.
SeatGone(s, b) ==
    /\ session[s].step = "reallocate" /\ b \in session[s].on
    /\ ~LockedByAnother(s, Window(b))
    /\ Candidates(b) = {}
    /\ End(s)
    /\ UNCHANGED <<trip, booking, seat, clock>>

\* The UPDATE carries seat_number only if the slot is not the one it read.
Restore(s, b) ==
    /\ session[s].step = "restore" /\ b \in session[s].on
    /\ ~BookingLocked(s, b)
    /\ booking' = [booking EXCEPT ![b] =
           [status |-> "confirmed", paid |-> TRUE, reason |-> "none",
            slot   |-> IF session[s].pick = session[s].was
                       THEN booking[b].slot ELSE session[s].pick]]
    /\ Bind(b, session[s].pick)
    /\ End(s)
    /\ UNCHANGED <<trip, clock>>

-----------------------------------------------------------------------------
(***************************************************************************)
(* The doors of a cancellation, and the departure: all give rows back.     *)
(***************************************************************************)
\* Mutant: "forgot to cancel" is accepted for a paid seat.
ForgotThoughPaid(b, why) ==
    \/ why = "passenger" /\ Source[b] = "app" /\ ~booking[b].paid
    \/ why \in {"asked", "forgot"}

\* Who may cancel for which reason, decided on the row as it was read.
MayCancel(b, why) ==
    \/ why = "passenger" /\ Source[b] = "app" /\ ~booking[b].paid
    \/ why = "asked"
    \/ why = "forgot" /\ ~booking[b].paid

\* Mutant: the list lock is not looked at.
CancelThoughLocked(s, b, why) ==
    /\ booking[b].status \in STANDING
    /\ MayCancel(b, why)
    /\ trip.status \in OPEN_FOR_CASH
    /\ Begin(s, "release", {b}, why, 0)

Cancel(s, b, why) ==
    /\ booking[b].status \in STANDING
    /\ MayCancel(b, why)
    /\ trip.status \in OPEN_FOR_CASH /\ ~trip.locked
    /\ Begin(s, "release", {b}, why, 0)

\* One tick of the cutoff job; the periodic job never overlaps itself.
Sweep(s) ==
    /\ OnlySweep
    /\ clock # "open" /\ trip.status \in OPEN_FOR_CASH
    /\ DueForRelease # {}
    /\ Begin(s, "release", DueForRelease, "auto_release", 0)

\* Depart locks the trips row, then reads who has not boarded.
Depart(s) ==
    /\ ~TripRowLocked
    /\ trip.status = "boarding"
    /\ Begin(s, "release", {b \in Bookings : booking[b].status \in STANDING},
             "departure", 0)

\* SeatRepository.release: UPDATE ... WHERE booking_id = b, then the flush of
\* the booking.
Release(s, b) ==
    /\ session[s].step = "release" /\ b \in session[s].todo
    /\ ~LockedByAnother(s, RowsOf(b))
    /\ session[s].why # "departure" => ~BookingLocked(s, b)
    /\ session' = [session EXCEPT ![s].todo = @ \ {b}, ![s].rows = @ \cup RowsOf(b)]
    /\ UNCHANGED <<trip, booking, seat, clock>>

FreeRows(rows) == seat' = [row \in Rows |-> IF row \in rows THEN Free ELSE seat[row]]

CommitCancel(s) ==
    /\ session[s].step = "release" /\ session[s].todo = {}
    /\ session[s].why \in CancelReasons
    /\ booking' = [b \in Bookings |->
           IF b \in session[s].on
           THEN [booking[b] EXCEPT !.status = "cancelled", !.reason = session[s].why]
           ELSE booking[b]]
    /\ FreeRows(session[s].rows)
    /\ End(s)
    /\ UNCHANGED <<trip, clock>>

\* Mutant: the no-shows keep their seat rows.
DepartWithoutRelease(s) ==
    /\ session[s].step = "release" /\ session[s].todo = {}
    /\ session[s].why = "departure"
    /\ \A b \in session[s].on : ~BookingLocked(s, b)
    /\ trip' = [status |-> "departed", locked |-> TRUE]
    /\ booking' = [b \in Bookings |->
           IF b \in session[s].on THEN [booking[b] EXCEPT !.status = "no_show"]
           ELSE booking[b]]
    /\ End(s)
    /\ UNCHANGED <<seat, clock>>

CommitDepart(s) ==
    /\ session[s].step = "release" /\ session[s].todo = {}
    /\ session[s].why = "departure"
    /\ \A b \in session[s].on : ~BookingLocked(s, b)
    /\ trip' = [status |-> "departed", locked |-> TRUE]
    /\ booking' = [b \in Bookings |->
           IF b \in session[s].on THEN [booking[b] EXCEPT !.status = "no_show"]
           ELSE booking[b]]
    /\ FreeRows(session[s].rows)
    /\ End(s)
    /\ UNCHANGED clock

-----------------------------------------------------------------------------
(***************************************************************************)
(* Check-in writes the status column alone and does not look at the trip.  *)
(***************************************************************************)
CheckIn(s, b) ==
    /\ Source[b] = "app" /\ booking[b].status = "confirmed"
    /\ clock # "past"
    /\ Begin(s, "check_in", {b}, "none", 0)

UndoCheckIn(s, b) ==
    /\ Source[b] = "app" /\ booking[b].status = "checked_in"
    /\ Begin(s, "undo", {b}, "none", 0)

WriteStatus(s, b, step, status) ==
    /\ session[s].step = step /\ b \in session[s].on
    /\ ~BookingLocked(s, b)
    /\ booking' = [booking EXCEPT ![b].status = status]
    /\ End(s)
    /\ UNCHANGED <<trip, seat, clock>>

CommitCheckIn(s, b) == WriteStatus(s, b, "check_in", "checked_in")

CommitUndo(s, b) == WriteStatus(s, b, "undo", "confirmed")

-----------------------------------------------------------------------------
(***************************************************************************)
(* The trip around the desk, and the time.                                 *)
(***************************************************************************)
\* Mutant: only the wait of allocate_seat times out.
WaitsToClaim(s) ==
    /\ session[s].step \in {"allocate", "reallocate"}
    /\ \E b \in session[s].on : LockedByAnother(s, Window(b))

\* A wait for locks ends in error 1205 or 1213: the handler rolls back.
Waits(s) ==
    \/ /\ session[s].step \in {"allocate", "reallocate"}
       /\ \E b \in session[s].on : LockedByAnother(s, Window(b))
    \/ session[s].step = "insert" /\ TripRowLocked
    \/ \E b \in session[s].todo : LockedByAnother(s, RowsOf(b))
    \/ /\ session[s].step \in {"pay", "restore", "check_in", "undo", "release"}
       /\ \E b \in session[s].on : BookingLocked(s, b)

LockTimeout(s) ==
    /\ Waits(s)
    /\ End(s)
    /\ UNCHANGED <<trip, booking, seat, clock>>

\* These take one step here, but a session as well: the server that never
\* overlaps two requests does not overlap these either.
FreeSession == \E s \in Sessions : session[s].step = "idle"

\* Mutant: the status of the design before rev 603.
StartEnRoute ==
    /\ FreeSession /\ ~TripRowLocked
    /\ trip.status = "scheduled"
    /\ trip' = [trip EXCEPT !.status = "en_route"]
    /\ UNCHANGED <<booking, seat, clock, session>>

Start ==
    /\ FreeSession /\ ~TripRowLocked
    /\ trip.status = "scheduled"
    /\ trip' = [trip EXCEPT !.status = "boarding"]
    /\ UNCHANGED <<booking, seat, clock, session>>

\* Bookings of a voided trip stay as they are.
Void ==
    /\ FreeSession /\ ~TripRowLocked
    /\ trip.status \in {"scheduled", "boarding"}
    /\ trip' = [trip EXCEPT !.status = "cancelled"]
    /\ UNCHANGED <<booking, seat, clock, session>>

\* The Cashier's payment locks the passenger list before the departure.
LockList ==
    /\ FreeSession /\ ~TripRowLocked
    /\ trip.status \in OPEN_FOR_CASH /\ ~trip.locked
    /\ trip' = [trip EXCEPT !.locked = TRUE]
    /\ UNCHANGED <<booking, seat, clock, session>>

Tick ==
    /\ clock # "past"
    /\ clock' = IF clock = "open" THEN "cutoff" ELSE "past"
    /\ UNCHANGED <<trip, booking, seat, session>>

\* A handler that has read goes on to its commit, or rolls back.
Proceed(s) ==
    \/ \E b \in Bookings, n \in Slots : Allocate(s, b, n) \/ Reallocate(s, b, n)
    \/ \E b \in Bookings :
           \/ AllocateRefused(s, b) \/ Insert(s, b)
           \/ RecordPayment(s, b) \/ SeatGone(s, b) \/ Restore(s, b)
           \/ Release(s, b)
           \/ CommitCheckIn(s, b) \/ CommitUndo(s, b)
    \/ CommitCancel(s) \/ CommitDepart(s)
    \/ LockTimeout(s)

Request(s) ==
    \/ \E b \in Bookings :
           \/ Reserve(s, b) \/ MarkPaid(s, b)
           \/ CheckIn(s, b) \/ UndoCheckIn(s, b)
           \/ \E why \in Doors : Cancel(s, b, why)
    \/ Sweep(s) \/ Depart(s)

Next ==
    \/ \E s \in Sessions : Request(s) \/ Proceed(s)
    \/ Start \/ Void \/ LockList \/ Tick

Spec == Init /\ [][Next]_vars

\* A handler that is running is scheduled.  The cutoff job has a session of
\* its own to open and comes round every minute, so requests cannot keep it
\* from running.  Nobody has to make a request.
FairSpec ==
    /\ Spec
    /\ \A s \in Sessions : WF_vars(Proceed(s))
    /\ SF_vars(\E s \in Sessions : Sweep(s))

-----------------------------------------------------------------------------
(***************************************************************************)
(* What holds however the sessions interleave.                             *)
(***************************************************************************)
\* A row is locked by one session at a time.
LocksExclusive ==
    \A s, q \in Sessions : s # q => session[s].rows \cap session[q].rows = {}

\* Between FOR UPDATE and the commit, the slot a handler chose stays free on
\* every leg of the stretch: the read-then-write of allocate_seat is atomic.
ClaimStaysFree ==
    \A s \in Sessions : session[s].step \in {"insert", "restore"} =>
        \A b \in session[s].on : FreeThroughout(session[s].pick, b)

\* A booking has the whole of its stretch in a slot or no row there.
WholeStretches ==
    \A b \in Bookings, n \in Slots :
        {leg \in Legs : seat[<<n, leg>>] = b} \in {{}, 1..Alights[b]}

Holds(b, n) == \A leg \in 1..Alights[b] : seat[<<n, leg>>] = b

\* A walk-up is aboard from the moment it is listed, and nothing a session
\* does to other bookings, on however stale a read, takes its seat.
WalkUpKeepsSeat ==
    \A b \in Bookings : booking[b].status = "boarded" =>
        booking[b].slot # 0 /\ Holds(b, booking[b].slot)

\* Why the above hold, for every number of sessions.  A handler that inserts
\* a booking is alone with it; any other works on bookings that exist and are
\* not aboard.
NewBookingsAlone ==
    \A s \in Sessions : session[s].step \in {"allocate", "insert"} =>
        \A b \in session[s].on :
            ~Exists(b) /\ \A q \in Sessions \ {s} : b \notin session[q].on

WorksOnReservations ==
    \A s \in Sessions : session[s].step \notin {"idle", "allocate", "insert"} =>
        \A b \in session[s].on : booking[b].status \notin {"none", "boarded"}

\* A handler about to bind a slot holds every row of its window.
ClaimLocksWindow ==
    \A s \in Sessions :
        /\ session[s].step \in {"allocate", "insert", "reallocate", "restore"} =>
               \E b \in Bookings : session[s].on = {b}
        /\ session[s].step \in {"insert", "restore"} =>
               /\ session[s].pick \in Slots
               /\ \A b \in session[s].on : session[s].rows = Window(b)

\* A handler about to give rows back has locked whole stretches of its own
\* bookings; at any other step but the binding ones it holds no row.
ReleasesOwnStretches ==
    \A s \in Sessions :
        /\ session[s].todo \subseteq session[s].on
        /\ session[s].step \notin {"insert", "restore", "release"} => session[s].rows = {}
        /\ session[s].step = "release" =>
               \A row \in session[s].rows :
                   /\ seat[row] \in session[s].on
                   /\ \A leg \in Legs : seat[<<row[1], leg>>] = seat[row]
                                            => <<row[1], leg>> \in session[s].rows

InductiveInv ==
    /\ TypeOK
    /\ NewBookingsAlone /\ WorksOnReservations
    /\ LocksExclusive /\ ClaimLocksWindow /\ ReleasesOwnStretches
    /\ ClaimStaysFree /\ WholeStretches /\ WalkUpKeepsSeat

\* The rows are sold and given back as SeatMap promises.
Map == INSTANCE SeatMap
SellsWholeStretches == Map!MapSpec

\* No handler waits for ever: locks are released, or the wait times out.
HandlersFinish ==
    \A s \in Sessions : session[s].step # "idle" ~> session[s].step = "idle"

-----------------------------------------------------------------------------
(***************************************************************************)
(* What holds when no two handlers overlap: the rules of the desk.         *)
(***************************************************************************)
Live(b) == booking[b].status \in {"confirmed", "checked_in", "boarded"}

\* The inventory and the bookings tell the same story: a live booking has
\* its stretch in its slot and nothing else; any other has no row at all.
InventoryMatchesBookings ==
    \A b \in Bookings :
        RowsOf(b) = IF Live(b) THEN {booking[b].slot} \X (1..Alights[b]) ELSE {}

\* The cutoff job never touches a paid seat.
PaidNotAutoReleased ==
    \A b \in Bookings :
        ~(booking[b].paid /\ booking[b].status = "cancelled"
                          /\ booking[b].reason = "auto_release")

\* A paid seat is cancelled only by the Dispatcher at the passenger's request.
PaidCancelledOnlyOnRequest ==
    \A b \in Bookings :
        booking[b].paid /\ booking[b].status = "cancelled" => booking[b].reason = "asked"

\* No two live bookings have the same slot: all stretches share the first leg.
NoDoubleSeating ==
    \A b, c \in Bookings :
        b # c /\ Live(b) /\ Live(c) => booking[b].slot # booking[c].slot

\* Repeating a mark is harmless: a booking has rows in one slot at most.
OneSlotEach == \A b \in Bookings : Cardinality({n \in Slots : Holds(b, n)}) <= 1

\* A person cancels nothing once the list is locked.
NoCancelOnceLocked ==
    [][\A b \in Bookings :
           trip.locked /\ booking'[b].status = "cancelled"
               => booking[b].status = "cancelled" \/ booking'[b].reason = "auto_release"]_vars

\* The list is complete before the van leaves.
ListCompleteAtDeparture ==
    [][trip.status = "departed" => booking' = booking]_vars

\* An app reservation never takes the app past the advance limit.
AdvanceLimitKept ==
    [][\A b \in Bookings :
           Source[b] = "app" /\ ~Exists(b) /\ Exists(b)'
               => AdvanceCap >= Capacity \/ Cardinality(LiveApp') <= AdvanceCap]_vars

\* An unpaid reservation does not keep its seat past the cutoff while the
\* van is still at the terminal: UnpaidRelease comes round and frees it.
UnpaidSeatIsReleased ==
    \A b \in Bookings :
        (clock # "open" /\ trip.status \in OPEN_FOR_CASH /\ Unpaid(b))
            ~> (trip.status \notin OPEN_FOR_CASH \/ ~Unpaid(b))
=============================================================================
