------------------------------ MODULE HomePickup ------------------------------
(***************************************************************************)
(* The home pickup of one passenger: the relative's own seat, the          *)
(* passenger's ("theirs"), the assisted_pickups row that ties them, and    *)
(* the trip they ride on.                                                  *)
(*                                                                         *)
(* Cash, cancellations, check-ins, the cutoff job and Depart reach the     *)
(* pickup from the seats; the crew's own acts reach the seats from the     *)
(* pickup.  Some lock the trip and the pickup first, some read the pickup  *)
(* and write it later, so handlers are cut where another session can       *)
(* commit.  Isolation is READ COMMITTED; an UPDATE writes the columns the  *)
(* handler changed, whatever was committed since it read the row.          *)
(***************************************************************************)
EXTENDS Naturals

CONSTANT Sessions  \* database sessions open at once

VARIABLES
    trip,     \* trips: status, and whether list_locked_at is set
    seat,     \* the two bookings, and whether seat_inventory rows name them
    pickup,   \* assisted_pickups.status
    session   \* what each session is doing, and the rows it has locked

vars == <<trip, seat, pickup, session>>

-----------------------------------------------------------------------------
Seats == {"own", "theirs"}
Rows == Seats \cup {"trip", "pickup"}

STANDING == {"confirmed", "checked_in"}
OPEN == {"requested", "activated", "arrived"}
BEFORE_DEPARTURE == {"scheduled", "boarding"}

Statuses == {"none", "cancelled", "no_show", "boarded"} \cup OPEN
Steps == {"idle", "book", "pay", "look", "mark", "cascade", "flush", "cancel",
          "close", "depart", "checked_in", "confirmed"}

\* on: the seats the handler writes.  locks: the rows it has locked.  pickup:
\* the status it will give the pickup, "keep" for none.  why: what for.
Idle == [step |-> "idle", on |-> {}, locks |-> {}, pickup |-> "keep", why |-> "none"]

NoSeat == [status |-> "none", paid |-> FALSE, released |-> FALSE, held |-> FALSE]

TypeOK ==
    /\ trip \in [status : BEFORE_DEPARTURE \cup {"departed", "completed", "cancelled"},
                 locked : BOOLEAN]
    /\ seat \in [Seats -> [status   : {"none", "cancelled", "no_show", "boarded"} \cup STANDING,
                           paid     : BOOLEAN,
                           released : BOOLEAN,
                           held     : BOOLEAN]]
    /\ pickup \in Statuses
    /\ session \in [Sessions -> [step   : Steps,
                                 on     : SUBSET Seats,
                                 locks  : SUBSET Rows,
                                 pickup : Statuses \cup {"keep"},
                                 why    : {"none", "standing", "released", "asked",
                                           "auto_release", "departure"}]]

Init ==
    /\ trip = [status |-> "scheduled", locked |-> FALSE]
    /\ seat = [x \in Seats |-> NoSeat]
    /\ pickup = "none"
    /\ session = [s \in Sessions |-> Idle]

-----------------------------------------------------------------------------
\* The row is locked by another session, and will be until that one commits.
Taken(s, rows) == \E q \in Sessions \ {s} : session[q].locks \cap rows # {}

Begin(s, step, on, why) ==
    /\ session[s].step = "idle"
    /\ session' = [session EXCEPT ![s] = [Idle EXCEPT !.step = step, !.on = on, !.why = why]]
    /\ UNCHANGED <<trip, seat, pickup>>

End(s) == session' = [session EXCEPT ![s] = Idle]

\* The rows an UPDATE of the pickup needs: none if its status is left alone.
PickupRow(s) == IF session[s].pickup = "keep" THEN {} ELSE {"pickup"}

WritePickup(s) ==
    pickup' = IF session[s].pickup = "keep" THEN pickup
              ELSE session[s].pickup

Standing(x) == seat[x].status \in STANDING
Unpaid(x) == Standing(x) /\ ~seat[x].paid

-----------------------------------------------------------------------------
(***************************************************************************)
(* Booking the pair: two reservations and the pickup in one transaction.   *)
(***************************************************************************)
Book(s) ==
    /\ pickup = "none" /\ \A q \in Sessions : session[q].step # "book"
    /\ trip.status = "scheduled"
    /\ Begin(s, "book", Seats, "none")

\* The trip is not looked at again; the INSERTs wait for a locked trips row.
CommitBook(s) ==
    /\ session[s].step = "book"
    /\ ~Taken(s, {"trip"})
    /\ seat' = [x \in Seats |-> [NoSeat EXCEPT !.status = "confirmed", !.held = TRUE]]
    /\ pickup' = "requested"
    /\ End(s)
    /\ UNCHANGED trip

-----------------------------------------------------------------------------
(***************************************************************************)
(* Mark as Paid, and the activation that may come with it.                 *)
(***************************************************************************)
MarkPaid(s, x) ==
    /\ trip.status \in BEFORE_DEPARTURE
    /\ ~seat[x].paid
    /\ \/ Standing(x) /\ Begin(s, "pay", {x}, "standing")
       \/ seat[x].status = "cancelled" /\ seat[x].released /\ Begin(s, "pay", {x}, "released")

\* The flush of the payment locks the seat's own row.
Pay(s) ==
    /\ session[s].step = "pay"
    /\ ~Taken(s, session[s].on)
    /\ session' = [session EXCEPT ![s].step = "look", ![s].locks = session[s].on]
    /\ UNCHANGED <<trip, seat, pickup>>

\* A released seat is not given back when the trip has none free.
SeatGone(s) ==
    /\ session[s].step = "pay" /\ session[s].why = "released"
    /\ End(s)
    /\ UNCHANGED <<trip, seat, pickup>>

BothSeatsPaid(s) == \A x \in Seats : x \in session[s].on \/ seat[x].paid

\* Mutant: the pickup is activated, whatever has become of it.
LookPastCancelled(s) ==
    /\ session[s].step = "look"
    /\ ~Taken(s, {"pickup"})
    /\ session' = [session EXCEPT
           ![s].step = "mark",
           ![s].locks = @ \cup {"pickup"},
           ![s].pickup = IF BothSeatsPaid(s) THEN "activated" ELSE "keep"]
    /\ UNCHANGED <<trip, seat, pickup>>

\* Mutant: the pickup is read without FOR UPDATE.
LookUnlocked(s) ==
    /\ session[s].step = "look"
    /\ session' = [session EXCEPT
           ![s].step = "mark",
           ![s].pickup = IF pickup = "requested" /\ BothSeatsPaid(s)
                         THEN "activated" ELSE "keep"]
    /\ UNCHANGED <<trip, seat, pickup>>

\* on_seat_paid: the pickup FOR UPDATE if it is still requested, and only then
\* the other seat.
LookAtPickup(s) ==
    /\ session[s].step = "look"
    /\ ~Taken(s, {"pickup"})
    /\ session' = [session EXCEPT
           ![s].step = "mark",
           ![s].locks = IF pickup = "requested" THEN @ \cup {"pickup"} ELSE @,
           ![s].pickup = IF pickup = "requested" /\ BothSeatsPaid(s)
                         THEN "activated" ELSE "keep"]
    /\ UNCHANGED <<trip, seat, pickup>>

\* The status is written only when a released seat is restored.
CommitMark(s) ==
    /\ session[s].step = "mark"
    /\ seat' = [x \in Seats |->
           IF x \notin session[s].on THEN seat[x]
           ELSE IF session[s].why = "standing" THEN [seat[x] EXCEPT !.paid = TRUE]
           ELSE [status |-> "confirmed", paid |-> TRUE, released |-> FALSE, held |-> TRUE]]
    /\ WritePickup(s)
    /\ End(s)
    /\ UNCHANGED trip

-----------------------------------------------------------------------------
(***************************************************************************)
(* The crew's acts lock the trip, then the pickup, and read both afresh.   *)
(***************************************************************************)
Crew(s) == session[s].step = "idle" /\ ~Taken(s, {"trip", "pickup"})

\* By hand: only the passenger's seat is asked for its fare.
Activate(s) ==
    /\ Crew(s)
    /\ trip.status \in BEFORE_DEPARTURE /\ pickup = "requested"
    /\ seat["theirs"].paid
    /\ pickup' = "activated"
    /\ UNCHANGED <<trip, seat, session>>

Arrived(s) ==
    /\ Crew(s)
    /\ trip.status = "departed" /\ pickup = "activated"
    /\ pickup' = "arrived"
    /\ UNCHANGED <<trip, seat, session>>

\* The seat's row is written after the two are locked, without being locked
\* or read afresh itself.
Close(s, outcome) ==
    /\ Crew(s)
    /\ pickup = "arrived"
    /\ session' = [session EXCEPT ![s] =
           [Idle EXCEPT !.step = "close", !.on = {"theirs"},
                        !.locks = {"trip", "pickup"}, !.pickup = outcome]]
    /\ UNCHANGED <<trip, seat, pickup>>

CommitClose(s) ==
    /\ session[s].step = "close"
    /\ ~Taken(s, session[s].on)
    /\ seat' = [seat EXCEPT !["theirs"].status = session[s].pickup,
                            !["theirs"].held = @ /\ session[s].pickup = "boarded"]
    /\ WritePickup(s)
    /\ End(s)
    /\ UNCHANGED trip

-----------------------------------------------------------------------------
(***************************************************************************)
(* A cancellation, by a person or by the cutoff job, takes the pickup with *)
(* it, and the passenger's seat when it is the relative's.                 *)
(***************************************************************************)
\* Whether the passenger or the Dispatcher may depends on the fare, and one of
\* them always may.
Cancel(s, x) ==
    /\ Standing(x)
    /\ trip.status \in BEFORE_DEPARTURE /\ ~trip.locked
    /\ Begin(s, "cascade", {x}, "asked")

\* One tick of the cutoff job, which never overlaps itself.
Sweep(s) ==
    /\ \A q \in Sessions : session[q].why # "auto_release"
    /\ trip.status \in BEFORE_DEPARTURE
    /\ \E x \in Seats : Unpaid(x)
    /\ Begin(s, "cascade", {x \in Seats : Unpaid(x)}, "auto_release")

\* Mutant: only a pickup still waiting for its activation is cancelled.
CascadeIfRequested(s) ==
    /\ session[s].step = "cascade"
    /\ session' = [session EXCEPT
           ![s].step = "flush",
           ![s].pickup = IF pickup = "requested" THEN "cancelled" ELSE "keep",
           ![s].on = IF pickup = "requested" /\ "own" \in @ /\ Standing("theirs")
                     THEN @ \cup {"theirs"} ELSE @]
    /\ UNCHANGED <<trip, seat, pickup>>

\* on_cancelled reads the pickup and the passenger's seat without a lock.
Cascade(s) ==
    /\ session[s].step = "cascade"
    /\ session' = [session EXCEPT
           ![s].step = "flush",
           ![s].pickup = IF pickup \in OPEN THEN "cancelled" ELSE "keep",
           ![s].on = IF pickup \in OPEN /\ "own" \in @ /\ Standing("theirs")
                     THEN @ \cup {"theirs"} ELSE @]
    /\ UNCHANGED <<trip, seat, pickup>>

\* The bookings are written before the pickup.
Flush(s) ==
    /\ session[s].step = "flush"
    /\ ~Taken(s, session[s].on)
    /\ session' = [session EXCEPT ![s].step = "cancel", ![s].locks = session[s].on]
    /\ UNCHANGED <<trip, seat, pickup>>

CommitCancel(s) ==
    /\ session[s].step = "cancel"
    /\ ~Taken(s, PickupRow(s))
    /\ seat' = [x \in Seats |->
           IF x \in session[s].on
           THEN [seat[x] EXCEPT !.status = "cancelled", !.held = FALSE,
                                !.released = session[s].why = "auto_release"]
           ELSE seat[x]]
    /\ WritePickup(s)
    /\ End(s)
    /\ UNCHANGED trip

-----------------------------------------------------------------------------
(***************************************************************************)
(* Check-in of either seat, and its undo: the status column alone.         *)
(***************************************************************************)
CheckIn(s, x) == seat[x].status = "confirmed" /\ Begin(s, "checked_in", {x}, "none")

UndoCheckIn(s, x) == seat[x].status = "checked_in" /\ Begin(s, "confirmed", {x}, "none")

CommitStatus(s) ==
    /\ session[s].step \in STANDING
    /\ ~Taken(s, session[s].on)
    /\ seat' = [x \in Seats |-> IF x \in session[s].on
                                THEN [seat[x] EXCEPT !.status = session[s].step] ELSE seat[x]]
    /\ End(s)
    /\ UNCHANGED <<trip, pickup>>

-----------------------------------------------------------------------------
(***************************************************************************)
(* The trip around the pickup.                                             *)
(***************************************************************************)
\* Mutant: every standing seat is a no-show.
NobodyBoardsLater == {}

\* The seats of activated pickups board after the van leaves.
BoardsLater == IF pickup = "activated" THEN {"theirs"} ELSE {}

\* Depart locks the trip, reads its pickups without a lock, then the seats.
Depart(s) ==
    /\ session[s].step = "idle" /\ ~Taken(s, {"trip"})
    /\ trip.status = "boarding"
    /\ session' = [session EXCEPT ![s] =
           [Idle EXCEPT !.step = "depart", !.locks = {"trip"}, !.why = "departure",
                        !.on = {x \in Seats : Standing(x)} \ BoardsLater,
                        !.pickup = IF pickup = "requested" THEN "no_show" ELSE "keep"]]
    /\ UNCHANGED <<trip, seat, pickup>>

CommitDepart(s) ==
    /\ session[s].step = "depart"
    /\ ~Taken(s, session[s].on \cup PickupRow(s))
    /\ trip' = [status |-> "departed", locked |-> TRUE]
    /\ seat' = [x \in Seats |->
           IF x \in session[s].on THEN [seat[x] EXCEPT !.status = "no_show", !.held = FALSE]
           ELSE seat[x]]
    /\ WritePickup(s)
    /\ End(s)

\* Start, Void and Arrive hold the trip's row for one step.
MoveTrip(from, to) ==
    /\ \E s \in Sessions : session[s].step = "idle" /\ ~Taken(s, {"trip"})
    /\ trip.status \in from
    /\ trip' = [trip EXCEPT !.status = to]
    /\ UNCHANGED <<seat, pickup, session>>

Start == MoveTrip({"scheduled"}, "boarding")
Void == MoveTrip(BEFORE_DEPARTURE, "cancelled")

\* Mutant: the status of the pickup is given to the trip.
ArriveAtPin == MoveTrip({"departed"}, "arrived")

Arrive == MoveTrip({"departed"}, "completed")

\* A payment of the trip's fees locks the passenger list.
LockList ==
    /\ \E s \in Sessions : session[s].step = "idle" /\ ~Taken(s, {"trip"})
    /\ trip.status \in BEFORE_DEPARTURE /\ ~trip.locked
    /\ trip' = [trip EXCEPT !.locked = TRUE]
    /\ UNCHANGED <<seat, pickup, session>>

-----------------------------------------------------------------------------
\* The rows the next step of a session has to wait for.
Needs(s) ==
    CASE session[s].step = "book" -> {"trip"}
      [] session[s].step = "look" -> {"pickup"}
      [] session[s].step = "cancel" -> PickupRow(s)
      [] session[s].step = "depart" -> session[s].on \cup PickupRow(s)
      [] session[s].step \in {"pay", "flush", "close"} \cup STANDING -> session[s].on
      [] OTHER -> {}

\* Mutant: InnoDB ends only the waits for the trip.
TimesOutOnTrip(s) ==
    /\ session[s].step # "idle" /\ Taken(s, Needs(s) \cap {"trip"})
    /\ End(s)
    /\ UNCHANGED <<trip, seat, pickup>>

\* A wait ends in error 1205 or 1213: the handler rolls back.
LockTimeout(s) ==
    /\ session[s].step # "idle" /\ Taken(s, Needs(s))
    /\ End(s)
    /\ UNCHANGED <<trip, seat, pickup>>

Proceed(s) ==
    \/ CommitBook(s) \/ Pay(s) \/ SeatGone(s) \/ LookAtPickup(s) \/ CommitMark(s)
    \/ CommitClose(s) \/ Cascade(s) \/ Flush(s) \/ CommitCancel(s)
    \/ CommitStatus(s) \/ CommitDepart(s) \/ LockTimeout(s)

Handle(s) ==
    \/ Book(s) \/ Activate(s) \/ Arrived(s) \/ Sweep(s) \/ Depart(s)
    \/ \E x \in Seats : MarkPaid(s, x) \/ Cancel(s, x) \/ CheckIn(s, x) \/ UndoCheckIn(s, x)
    \/ \E outcome \in {"boarded", "no_show"} : Close(s, outcome)

Next ==
    \/ \E s \in Sessions : Handle(s) \/ Proceed(s)
    \/ Start \/ Void \/ Arrive \/ LockList

Spec == Init /\ [][Next]_vars

\* A handler that began goes on to its commit, or to its rollback.
FairSpec == Spec /\ \A s \in Sessions : WF_vars(Proceed(s))

-----------------------------------------------------------------------------
(***************************************************************************)
(* Properties.                                                             *)
(***************************************************************************)
\* The two fares may be marked in either order, by two handlers at once: when
\* both are paid the pickup no longer waits for its activation (on_seat_paid
\* locks the pickup before it reads the other seat).
BothPaidActivates ==
    (\A x \in Seats : seat[x].paid) => pickup # "requested"

\* Until the departure, however an activation and the cancellations, releases
\* and check-ins of either seat interleave, the relative of a pickup that is
\* activated has a seat: it stands and holds its place.  Nothing is said of the
\* time after it: Depart makes a no-show of the relative's seat and gives up
\* its place, and the pickup stays activated.
RelativeHasSeat ==
    (pickup \in {"activated", "arrived"} /\ trip.status \in BEFORE_DEPARTURE)
    => Standing("own") /\ seat["own"].held

\* The seat the van drives to the pin for stands, is paid and holds its place:
\* not a no-show of the departure, not released by a late cancellation.
WaitingSeatKept ==
    pickup \in {"activated", "arrived"} =>
        Standing("theirs") /\ seat["theirs"].paid /\ seat["theirs"].held

\* A pickup that was cancelled, missed or closed is never opened again, not by
\* a seat that is paid and restored after its release either.
NotReinstated ==
    [][(pickup \in {"cancelled", "no_show", "boarded"}) => pickup' \notin OPEN]_vars

\* Cash locks seat then pickup, the crew pickup then seat, Depart the trip
\* first: whatever waits for whom, each handler comes to its end.
HandlersFinish == \A s \in Sessions : session[s].step # "idle" ~> session[s].step = "idle"
=============================================================================
