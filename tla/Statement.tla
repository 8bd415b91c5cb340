------------------------------- MODULE Statement -------------------------------
(***************************************************************************)
(* The terminal fees: the lines of each trip, the statement of its van,    *)
(* the payments before Start, and the disputes of lines.                   *)
(*                                                                         *)
(* One service day.  A seat's share, the DCOTT ticket and the parking are  *)
(* amounts of their own; all seats of a trip have one fare and one         *)
(* drop-off, so a line is a number of seats.                               *)
(*                                                                         *)
(* A handler that syncs reads the lines of its trip, waits for the         *)
(* statement of the trip's van, works out what it will write, and writes   *)
(* it at the commit; each of these is a step.  Most lock the trip first.   *)
(* The list of the day's statements does not, the cash desk locks neither  *)
(* trip nor statement, and no sync locks the statement its lines come      *)
(* from.  Isolation is READ COMMITTED, and a commit writes the columns     *)
(* that differ from the row as it was read.                                *)
(***************************************************************************)
EXTENDS Integers, SequencesExt

CONSTANTS
    Trips,      \* the trips of the day
    Vans,
    Sessions,   \* database sessions open at once
    MaxSeats,   \* [Trips -> Nat]: paid seats at most on the list of each
    SHARE,      \* the 15 % of one fare
    DCOTT,      \* the ticket of one dispatch
    PARKING,    \* one day's parking of a van
    MaxActs,    \* bound: requests in all
    None

ASSUME StatementAssumption ==
    /\ IsFiniteSet(Trips)
    /\ MaxSeats \in [Trips -> Nat]
    /\ SHARE \in Nat /\ DCOTT \in Nat /\ PARKING \in Nat /\ MaxActs \in Nat
    /\ None \notin Trips \cup Vans \cup Sessions

VARIABLES
    trip,      \* trips: status, van_id, payment_status, list_locked_at, override
    listed,    \* how many seats of each trip are marked as paid
    charged,   \* remittance_lines of each trip, with their disputes
    account,   \* remittances: the stored total and what was paid
    session,   \* what each handler is doing, and what it holds
    past,      \* history of each trip, for the properties
    acts       \* requests so far, at most MaxActs

vars == <<trip, listed, charged, account, session, past, acts>>

-----------------------------------------------------------------------------
BEFORE_DEPARTURE == {"scheduled", "boarding"}

Row == [status : BEFORE_DEPARTURE \cup {"departed", "cancelled"}, van : Vans \cup {None},
        pay : {"unpaid", "paid", "overridden", "left_unpaid"},
        locked : BOOLEAN, override : BOOLEAN]

NewTrip == [status |-> "scheduled", van |-> None, pay |-> "unpaid",
            locked |-> FALSE, override |-> FALSE]

\* on: the statement it is on, None once deleted.  due: its share as a dispute
\* was decided.  paidOn: the statements on which a payment was recorded since
\* it was written (created_at <= settled_at).
DISPUTES == {"none", "open", "withdrawn", "resolved"}

Line == [on : Vans \cup {None}, count : Nat, due : Nat, paidOn : SUBSET Vans,
         dispute : DISPUTES]

NewLine(v, n) == [on |-> v, count |-> n, due |-> 0, paidOn |-> {}, dispute |-> "none"]
Deleted == NewLine(None, 0)

\* high: the total was above what its lines and trips come to, and was not
\* recomputed under its lock since (history).
Account == [open : BOOLEAN, owed : Nat, settled : Nat, high : BOOLEAN]

\* What a handler will write: its trip's row and lines, the totals, and a
\* payment with the trips it marks as paid.
Plan == [row : Row, lines : Seq(Line), writes : SUBSET Vans, owed : [Vans -> Nat],
         amount : Nat, marks : SUBSET Trips]

NoPlan == [row |-> NewTrip, lines |-> <<>>, writes |-> {}, owed |-> [v \in Vans |-> 0],
           amount |-> 0, marks |-> {}]

\* row, read: the trip as it is held and its lines as they were read.  holds:
\* the statements locked.
Session == [step : {"idle", "mark", "cancel", "list", "sync", "write"},
            does : {"none", "recount", "start", "depart", "pay", "list", "statement"},
            trip : Trips \cup {None}, row : Row, read : Seq(Line),
            holds : SUBSET Vans, plan : Plan]

Idle == [step |-> "idle", does |-> "none", trip |-> None, row |-> NewTrip, read |-> <<>>,
         holds |-> {}, plan |-> NoPlan]

\* astray: since it was paid, or the payment worked out, the trip or its lines
\* changed the van, or it was synced as it no longer was, or it was paid for
\* with a van it had left.  mixed: two handlers had its lines in hand at once.
\* missed: seats marked as paid after its departure counted the list.
Past == [astray : BOOLEAN, mixed : BOOLEAN, missed : Nat]

TypeOK ==
    /\ trip \in [Trips -> Row]
    /\ listed \in [Trips -> Nat] /\ \A t \in Trips : listed[t] <= MaxSeats[t]
    /\ charged \in [Trips -> Seq(Line)]
    /\ account \in [Vans -> Account]
    /\ session \in [Sessions -> Session]
    /\ past \in [Trips -> Past]
    /\ acts \in 0..MaxActs

Init ==
    /\ trip = [t \in Trips |-> NewTrip]
    /\ listed = [t \in Trips |-> 0]
    /\ charged = [t \in Trips |-> <<>>]
    /\ account = [v \in Vans |-> [open |-> FALSE, owed |-> 0, settled |-> 0, high |-> FALSE]]
    /\ session = [s \in Sessions |-> Idle]
    /\ past = [t \in Trips |-> [astray |-> FALSE, mixed |-> FALSE, missed |-> 0]]
    /\ acts = 0

-----------------------------------------------------------------------------
(***************************************************************************)
(* Totals.                                                                 *)
(***************************************************************************)
Waiting(row) == row.status \in BEFORE_DEPARTURE
Live(row) == row.status # "cancelled"

Share(l) == IF l.dispute = "resolved" THEN l.due ELSE SHARE * l.count

\* Lines that are not deleted, and the seats of those among `at'.
Standing(lines) == {i \in DOMAIN lines : lines[i].on # None}

SeatsAt(lines, at) ==
    SumFunction([i \in DOMAIN lines |-> IF i \in at THEN lines[i].count ELSE 0])

Seats(lines) == SeatsAt(lines, Standing(lines))

SharesOn(lines, v, disputes) ==
    SumFunction([i \in DOMAIN lines |->
        IF lines[i].on = v /\ lines[i].dispute \in disputes THEN Share(lines[i]) ELSE 0])

\* recompute: the 15 %, the DCOTT tickets and the parking of a van's day, the
\* held share of trips that wait for a review among them.
Fees(rows, ch, v) ==
    [t \in Trips |-> (IF rows[t].van = v /\ Live(rows[t]) THEN DCOTT ELSE 0)
                    + (IF Live(rows[t]) THEN SharesOn(ch[t], v, DISPUTES) ELSE 0)]

Reckon(rows, ch, v) == PARKING + SumFunction(Fees(rows, ch, v))

\* The shares that wait for the Terminal Manager's decision.
Waits(rows, ch, v) ==
    [t \in Trips |-> IF Live(rows[t]) THEN SharesOn(ch[t], v, {"open"}) ELSE 0]

Disputed(rows, ch, v) == SumFunction(Waits(rows, ch, v))

\* The undisputed balance, never below zero.
DueOn(a, rows, ch, v) ==
    LET owing == a[v].owed - a[v].settled - Disputed(rows, ch, v)
    IN IF owing > 0 THEN owing ELSE 0

Due(v) == DueOn(account, trip, charged, v)

\* A statement that is not open has no balance (van_balance).
Balance(v) == IF account[v].open THEN Due(v) ELSE 0

-----------------------------------------------------------------------------
(***************************************************************************)
(* sync: the lines of trip t, held as `row' with the lines as `read'.      *)
(***************************************************************************)
\* Seats that have to be on a line.
Goal(t, row) == IF row.van # None /\ Live(row) THEN listed[t] ELSE 0

\* A line that a dispute names, whatever became of it.
Contested(t, read) == {i \in Standing(read) : charged[t][i].dispute # "none"}
Uncontested(t, read) == Standing(read) \ Contested(t, read)

\* The lines follow the trip to its van.
Follow(row, read) ==
    [i \in DOMAIN read |-> IF row.van = None \/ read[i].on = None THEN read[i]
                           ELSE [read[i] EXCEPT !.on = row.van]]

\* Before the lock the lines are the list; a contested line stays as it was
\* contested, and the rest of the list fills one other.
Mirror(t, row, read) ==
    LET rest == Goal(t, row) - SeatsAt(read, Contested(t, read))
        free == Uncontested(t, read)
        kept == IF rest > 0 /\ free # {} THEN {Min(free)} ELSE {}
        here == Follow(row, read)
    IN [i \in DOMAIN read |-> IF i \in kept THEN [here[i] EXCEPT !.count = rest]
                              ELSE IF i \in free THEN Deleted ELSE here[i]]
       \o (IF rest > 0 /\ free = {} THEN <<NewLine(row.van, rest)>> ELSE <<>>)

\* Mutant: any difference from the list makes a line.
TopUpEitherWay(t, row, read) ==
    LET more == Goal(t, row) - Seats(read)
    IN Follow(row, read) \o (IF more # 0 THEN <<NewLine(row.van, more)>> ELSE <<>>)

\* After it the list only grows: the seats not yet on a line make a new one.
TopUp(t, row, read) ==
    LET more == Goal(t, row) - Seats(read)
    IN Follow(row, read) \o (IF more > 0 THEN <<NewLine(row.van, more)>> ELSE <<>>)

\* Mutant: the list of a trip that has left is not counted any more.
SyncedUntilDeparture(t, row, read) ==
    IF row.status = "departed" THEN Follow(row, read)
    ELSE IF row.locked THEN TopUp(t, row, read) ELSE Mirror(t, row, read)

Synced(t, row, read) == IF row.locked THEN TopUp(t, row, read) ELSE Mirror(t, row, read)

\* Mutant: a top-up leaves a paid trip paid.
SyncedPayKept(row, read, lines) == row.pay

\* A top-up sets a paid trip back to unpaid.
SyncedPay(row, read, lines) ==
    IF row.locked /\ row.pay = "paid" /\ Len(lines) > Len(read) THEN "unpaid" ELSE row.pay

\* The statements a sync recomputes: the van's, and those its lines were on.
\* A locked list without a van is left as it is, its statement too.
Touched(row, read) ==
    IF row.van = None /\ row.locked THEN {}
    ELSE ({row.van} \cup {read[i].on : i \in DOMAIN read}) \ {None}

\* A voided trip with no line opens nothing.
Opens(row, read) == row.van # None /\ (Live(row) \/ Standing(read) # {})

\* Where its lines are, and their seats.
Places(lines) == [i \in DOMAIN lines |-> <<lines[i].on, lines[i].count>>]

\* The lines a commit leaves: what the handler changed of those it read, and
\* those it added.
Changed(read, lines) == {i \in DOMAIN read : lines[i] # read[i]}

Merged(now, read, lines) ==
    [i \in DOMAIN now |->
        IF i \notin Changed(read, lines) THEN now[i]
        ELSE IF lines[i].on = None THEN Deleted
        ELSE [now[i] EXCEPT !.on    = IF lines[i].on # read[i].on THEN lines[i].on ELSE @,
                            !.count = IF lines[i].count # read[i].count THEN lines[i].count ELSE @]]
    \o SubSeq(lines, Len(read) + 1, Len(lines))

-----------------------------------------------------------------------------
(***************************************************************************)
(* Row locks.                                                              *)
(***************************************************************************)
InHand(s) == session[s].step \in {"sync", "write"}

TripTaken(s, t) ==
    \E q \in Sessions \ {s} : InHand(q) /\ session[q].does # "list" /\ session[q].trip = t

\* A line the list of statements adds share-locks its trip (foreign key).
TripShared(s, t) ==
    \E q \in Sessions \ {s} : /\ session[q].step = "write" /\ session[q].does = "list"
                             /\ session[q].trip = t
                             /\ Len(session[q].plan.lines) > Len(session[q].read)

TripFree(s, t) == ~TripTaken(s, t) /\ ~TripShared(s, t)

\* Mutant: statements are read without FOR UPDATE.
AccountRead(s, v) == FALSE
AccountTaken(s, v) == \E q \in Sessions \ {s} : v \in session[q].holds

\* A changed line is flushed, and locked, before the commit.
LineTaken(s, t, at) ==
    \E q \in Sessions \ {s} :
        /\ session[q].step = "write" /\ session[q].trip = t
        /\ at \cap Changed(session[q].read, session[q].plan.lines) # {}

RowFree(t) == TripFree(None, t)
AccountFree(v) == ~AccountTaken(None, v)

End(s) == session' = [session EXCEPT ![s] = Idle]

\* Rolled back: a lock timeout, a deadlock, a connection lost.
RollBack(s) ==
    /\ session[s].step # "idle"
    /\ End(s)
    /\ UNCHANGED <<trip, listed, charged, account, past>>

-----------------------------------------------------------------------------
(***************************************************************************)
(* The cash desk reads the trip, and writes a booking later.               *)
(***************************************************************************)
Desk(s, t, step) ==
    /\ session[s].step = "idle"
    /\ Waiting(trip[t])
    /\ session' = [session EXCEPT ![s] = [Idle EXCEPT !.step = step, !.trip = t]]
    /\ UNCHANGED <<trip, listed, charged, account, past>>

MarkPaid(s, t) == listed[t] < MaxSeats[t] /\ Desk(s, t, "mark")

\* The list locks to cancellations.
CancelSeat(s, t) == listed[t] > 0 /\ ~trip[t].locked /\ Desk(s, t, "cancel")

\* The list is closed, or the departure that closes it has counted it.
Counted(t) ==
    \/ trip[t].status = "departed"
    \/ \E q \in Sessions : session[q].step = "write" /\ session[q].does = "depart" /\ session[q].trip = t

CommitMark(s) ==
    LET t == session[s].trip IN
    /\ session[s].step = "mark" /\ listed[t] < MaxSeats[t]
    /\ listed' = [listed EXCEPT ![t] = @ + 1]
    /\ past' = [past EXCEPT ![t].missed = IF Counted(t) THEN @ + 1 ELSE @]
    /\ End(s)
    /\ UNCHANGED <<trip, charged, account>>

CommitCancel(s) ==
    LET t == session[s].trip IN
    /\ session[s].step = "cancel" /\ listed[t] > 0
    /\ listed' = [listed EXCEPT ![t] = @ - 1]
    /\ End(s)
    /\ UNCHANGED <<trip, charged, account, past>>

-----------------------------------------------------------------------------
(***************************************************************************)
(* A handler that syncs: its trip, its lines; the statement; the commit.   *)
(***************************************************************************)
ReadLines(s, t, does, row, holds, plan) ==
    /\ session' = [session EXCEPT ![s] =
           [step |-> "sync", does |-> does, trip |-> t, row |-> row, read |-> charged[t],
            holds |-> holds, plan |-> plan]]
    /\ past' = [past EXCEPT ![t].mixed =
           @ \/ \E q \in Sessions \ {s} : InHand(q) /\ session[q].trip = t]
    /\ UNCHANGED <<trip, listed, charged, account>>

\* The trip is locked, and held as `row'.
Take(s, t, does, row) ==
    /\ session[s].step = "idle" /\ TripFree(s, t)
    /\ ReadLines(s, t, does, row, {}, NoPlan)

\* The trip changes its van: the statement of the one it leaves is locked and
\* recomputed first.
Leave(s, t, row) ==
    LET left == {v \in Vans : v = trip[t].van /\ account[v].open} IN
    /\ session[s].step = "idle" /\ TripFree(s, t)
    /\ trip[t].van # None => ~AccountTaken(s, trip[t].van)
    /\ ReadLines(s, t, "recount", row, left,
           [NoPlan EXCEPT !.writes = left,
                          !.owed = [v \in Vans |-> Reckon([trip EXCEPT ![t] = row], charged, v)]])

\* The trips a payment that leaves nothing due marks as paid.
Unpaid(rows, v) ==
    {t \in Trips : rows[t].van = v /\ rows[t].pay = "unpaid" /\ Waiting(rows[t])}

\* The unpaid trips a payment covers, as they are when it is worked out.
Afresh(marks) ==
    [u \in Trips |-> IF u \in marks /\ trip[u].pay = "unpaid"
                     THEN [past[u] EXCEPT !.astray = FALSE] ELSE past[u]]

\* What s writes if it syncs now: the lines and the row of its trip, and the
\* totals it recomputes, of open statements and of the one it opens.
NewLines(s) == Synced(session[s].trip, session[s].row, session[s].read)

NewRow(s) ==
    [session[s].row EXCEPT !.pay = SyncedPay(session[s].row, session[s].read, NewLines(s))]

RowsWith(s) ==
    IF session[s].does = "list" THEN trip ELSE [trip EXCEPT ![session[s].trip] = NewRow(s)]

LinesWith(s) ==
    [charged EXCEPT ![session[s].trip] = Merged(@, session[s].read, NewLines(s))]

Opened(s) ==
    {v \in Vans : v = session[s].row.van
                  /\ (account[v].open \/ Opens(session[s].row, session[s].read))}

Recounted(s) ==
    {v \in Touched(session[s].row, session[s].read) : account[v].open \/ v \in Opened(s)}

NewTotals(s) ==
    [v \in Vans |-> IF v \in Recounted(s) THEN Reckon(RowsWith(s), LinesWith(s), v)
                    ELSE session[s].plan.owed[v]]

\* Left to pay on the statement of its van, after another n.
StillDue(s, n) ==
    LET v == session[s].row.van
    IN IF v = None THEN 0
       ELSE NewTotals(s)[v] - account[v].settled - n - Disputed(RowsWith(s), LinesWith(s), v)

\* Its own statement is written, and of the others a total that changed.
Planning(s, row, amount, marks) ==
    LET holds == session[s].holds \cup Opened(s) IN
    /\ session' = [session EXCEPT ![s].step = "write", ![s].holds = holds,
           ![s].plan = [row |-> row, lines |-> NewLines(s),
                        writes |-> @.writes \cup
                            {v \in Recounted(s) : v \in holds \/ NewTotals(s)[v] # account[v].owed},
                        owed |-> NewTotals(s), amount |-> amount, marks |-> marks]]
    /\ past' = Afresh(marks)

\* The statement is locked, the lines are flushed, and Start, Depart and a
\* payment go by what is due.
Sync(s) ==
    LET now == session[s]
        v == now.row.van
        changed == Changed(now.read, NewLines(s))
        row == NewRow(s)
    IN /\ now.step = "sync"
       /\ v # None => ~AccountTaken(s, v)
       /\ ~LineTaken(s, now.trip, changed)
       /\ (now.does = "list" /\ Len(NewLines(s)) > Len(now.read)) => ~TripTaken(s, now.trip)
       \* A line to be updated was deleted meanwhile: StaleDataError.
       /\ \A i \in changed : charged[now.trip][i].on = None => NewLines(s)[i].on = None
       /\ \/ now.does \in {"recount", "list"} /\ Planning(s, row, 0, {})
          \/ now.does = "start" /\ StillDue(s, 0) <= 0 /\ Planning(s, row, 0, {})
          \/ /\ now.does = "depart"
             /\ Planning(s, [row EXCEPT !.locked = TRUE,
                    !.pay = IF @ = "unpaid" /\ StillDue(s, 0) > 0 THEN "left_unpaid" ELSE @], 0, {})
          \/ /\ now.does = "pay"
             /\ \E n \in 1..StillDue(s, 0) :
                   Planning(s, [row EXCEPT !.locked = TRUE], n,
                            IF StillDue(s, n) > 0 THEN {} ELSE Unpaid(RowsWith(s), v))
       /\ UNCHANGED <<trip, listed, charged, account>>

\* What a commit leaves of the trips, the lines and the statements.  The list
\* of statements writes of its trip only that it is unpaid again.
TripsAfter(s) ==
    LET now == session[s]
        own == IF now.does = "list"
               THEN [trip[now.trip] EXCEPT !.pay = IF now.plan.row.pay # now.row.pay
                                                   THEN now.plan.row.pay ELSE @]
               ELSE now.plan.row
    IN [t \in Trips |->
           LET written == IF t = now.trip THEN own ELSE trip[t]
           IN IF t \in now.plan.marks THEN [written EXCEPT !.pay = "paid", !.locked = TRUE]
              ELSE written]

PaidLines(lines, v) ==
    [i \in DOMAIN lines |-> IF lines[i].on = None THEN lines[i]
                            ELSE [lines[i] EXCEPT !.paidOn = @ \cup {v}]]

LinesAfter(s) ==
    LET now == session[s]
    IN [t \in Trips |->
           LET lines == IF t = now.trip THEN Merged(charged[t], now.read, now.plan.lines)
                        ELSE charged[t]
           IN IF now.plan.amount = 0 THEN lines ELSE PaidLines(lines, now.row.van)]

AccountsAfter(s) ==
    LET plan == session[s].plan
    IN [v \in Vans |->
           LET total == IF v \in plan.writes THEN plan.owed[v] ELSE account[v].owed
           IN [open    |-> account[v].open \/ v \in plan.writes,
               owed    |-> total,
               settled |-> account[v].settled + (IF v = session[s].row.van THEN plan.amount ELSE 0),
               high    |-> \/ total > Reckon(TripsAfter(s), LinesAfter(s), v)
                           \/ account[v].high /\ v \notin plan.writes \cap session[s].holds]]

\* The trip or a line of it changes the van, or was read as it no longer is.
Strays(s) ==
    LET now == session[s]
        t == now.trip
    IN /\ t # None
       /\ \/ Places(now.read) # Places(charged[t])
          \/ now.does = "list" /\ now.row # trip[t]
          \/ now.row.van # trip[t].van
          \/ \E i \in DOMAIN now.read : now.plan.lines[i].on \notin {now.read[i].on, None}

Commit(s) ==
    LET now == session[s] IN
    /\ now.step = "write"
    /\ \A v \in now.plan.writes : ~AccountTaken(s, v)
    /\ \A t \in now.plan.marks : TripFree(s, t)
    /\ (now.does = "list" /\ now.plan.row.pay # now.row.pay) => TripFree(s, now.trip)
    /\ trip' = TripsAfter(s)
    /\ charged' = LinesAfter(s)
    /\ account' = AccountsAfter(s)
    /\ past' = [t \in Trips |-> [past[t] EXCEPT !.astray =
           @ \/ IF t = now.trip THEN Strays(s)
                ELSE t \in now.plan.marks /\ trip[t].van # now.row.van]]
    /\ End(s)
    /\ UNCHANGED listed

-----------------------------------------------------------------------------
(***************************************************************************)
(* The handlers of trip_lifecycle, boarding and statements that sync.      *)
(***************************************************************************)
\* A van with any balance is refused, unless the trip is overridden.
Assign(s, t, v) ==
    /\ trip[t].status = "scheduled" /\ v # trip[t].van
    /\ (v # None /\ ~trip[t].override) => Balance(v) = 0
    /\ Leave(s, t, [trip[t] EXCEPT !.van = v])

ChangeVan(s, t, v) ==
    /\ trip[t].status \in {"boarding", "departed"} /\ v # trip[t].van
    /\ Leave(s, t, [trip[t] EXCEPT !.van = v])

\* trip_share and review_start: the trip as it is.
Recount(s, t) == Take(s, t, "recount", trip[t])

Void(s, t) ==
    /\ Waiting(trip[t])
    /\ Take(s, t, "recount", [trip[t] EXCEPT !.status = "cancelled"])

\* Start waits for the statement to reach zero; an overridden trip's is not
\* looked at.
Start(s, t) ==
    /\ trip[t].status = "scheduled" /\ trip[t].van # None /\ ~trip[t].override
    /\ Take(s, t, "start", [trip[t] EXCEPT !.status = "boarding"])

\* lock_at_departure: the list is final, and what it left owing is noted.
Depart(s, t) ==
    /\ trip[t].status = "boarding"
    /\ Take(s, t, "depart", [trip[t] EXCEPT !.status = "departed"])

PayTrip(s, t) ==
    /\ Waiting(trip[t]) /\ trip[t].van # None
    /\ Take(s, t, "pay", trip[t])

\* The list of the day's statements, read without a lock.
ReadTrips(s, t) ==
    /\ session[s].step = "idle"
    /\ Waiting(trip[t]) /\ trip[t].van # None
    /\ session' = [session EXCEPT ![s] =
           [Idle EXCEPT !.step = "list", !.does = "list", !.trip = t, !.row = trip[t]]]
    /\ UNCHANGED <<trip, listed, charged, account, past>>

ReadTheirLines(s) ==
    /\ session[s].step = "list"
    /\ ReadLines(s, session[s].trip, "list", session[s].row, {}, NoPlan)

-----------------------------------------------------------------------------
(***************************************************************************)
(* Handlers that sync nothing.                                             *)
(***************************************************************************)
Write(t, row) ==
    /\ RowFree(t)
    /\ trip' = [trip EXCEPT ![t] = row]
    /\ UNCHANGED <<listed, charged, account, session>>

StartOverridden(t) ==
    /\ trip[t].status = "scheduled" /\ trip[t].van # None /\ trip[t].override
    /\ Write(t, [trip[t] EXCEPT !.status = "boarding"])
    /\ UNCHANGED past

\* The starts of the system look at no balance and sync nothing.  A van is
\* detected to have left only while no trip of its own waits for it.
FallBackStart(t) ==
    /\ trip[t].status = "scheduled" /\ trip[t].van # None
    /\ Write(t, [trip[t] EXCEPT !.status = "boarding"])
    /\ UNCHANGED past

DetectedStart(t, v) ==
    /\ trip[t].status = "scheduled" /\ trip[t].van = None
    /\ ~ \E u \in Trips : trip[u].van = v /\ Waiting(trip[u])
    /\ Write(t, [trip[t] EXCEPT !.status = "boarding", !.van = v])
    /\ past' = [past EXCEPT ![t].astray = TRUE]

Override(t) ==
    /\ Waiting(trip[t])
    /\ Write(t, [trip[t] EXCEPT !.override = TRUE, !.pay = IF @ = "paid" THEN @ ELSE "overridden"])
    /\ UNCHANGED past

ChargeParking(v) ==
    /\ ~account[v].open /\ AccountFree(v)
    /\ account' = [account EXCEPT ![v].open = TRUE, ![v].owed = Reckon(trip, charged, v)]
    /\ UNCHANGED <<trip, listed, charged, session, past>>

\* pay_statement: the statement is locked, and no trip of it.
PayStatement(s, v) ==
    LET owed == Reckon(trip, charged, v)
        Left(n) == owed - account[v].settled - n - Disputed(trip, charged, v)
        Marks(n) == IF Left(n) > 0 THEN {} ELSE Unpaid(trip, v)
    IN /\ session[s].step = "idle" /\ account[v].open /\ ~AccountTaken(s, v)
       /\ \E n \in 1..Due(v) :
             /\ session' = [session EXCEPT ![s] =
                    [Idle EXCEPT !.step = "write", !.does = "statement", !.row.van = v,
                        !.holds = {v},
                        !.plan = [NoPlan EXCEPT
                            !.writes = {v}, !.owed = [u \in Vans |-> owed],
                            !.amount = n, !.marks = Marks(n)]]]
             /\ past' = Afresh(Marks(n))
       /\ UNCHANGED <<trip, listed, charged, account>>

-----------------------------------------------------------------------------
(***************************************************************************)
(* Disputes of a line: trip, then statement.                               *)
(***************************************************************************)
Raise(t, i) ==
    LET l == charged[t][i] IN
    /\ l.on # None /\ Live(trip[t]) /\ l.on \notin l.paidOn
    /\ l.dispute \in {"none", "withdrawn"}
    /\ RowFree(t) /\ AccountFree(l.on) /\ ~LineTaken(None, t, {i})
    /\ charged' = [charged EXCEPT ![t][i].dispute = "open"]
    /\ UNCHANGED <<trip, listed, account, session, past>>

\* A share that is due again before departure blocks Start.
SettledTrip(t, v) ==
    trip' = IF Waiting(trip[t]) /\ trip[t].pay = "paid"
               /\ DueOn(account', trip, charged', v) > 0
            THEN [trip EXCEPT ![t].pay = "unpaid"] ELSE trip

\* _settle, once the dispute stands at `dispute' with `due' of its share left.
Settle(t, i, dispute, due) ==
    LET v == charged[t][i].on IN
    /\ v # None /\ charged[t][i].dispute = "open"
    /\ RowFree(t) /\ AccountFree(v)
    /\ charged' = [charged EXCEPT ![t][i] = [@ EXCEPT !.dispute = dispute, !.due = due]]
    /\ account' = [account EXCEPT ![v].owed = Reckon(trip, charged', v), ![v].high = FALSE]
    /\ SettledTrip(t, v)
    /\ UNCHANGED <<listed, session, past>>

Withdraw(t, i) == Settle(t, i, "withdrawn", 0)

\* Upheld, nothing of the share is due; rejected, all; adjusted, some of it.
Decide(t, i) == \E due \in 0..Share(charged[t][i]) : Settle(t, i, "resolved", due)

-----------------------------------------------------------------------------
Proceed(s) ==
    \/ CommitMark(s) \/ CommitCancel(s) \/ ReadTheirLines(s) \/ Sync(s) \/ Commit(s) \/ RollBack(s)

Handle(s) ==
    \/ \E t \in Trips :
          \/ MarkPaid(s, t) \/ CancelSeat(s, t) \/ Recount(s, t) \/ PayTrip(s, t) \/ ReadTrips(s, t)
          \/ Void(s, t) \/ Start(s, t) \/ Depart(s, t)
          \/ \E v \in Vans \cup {None} : Assign(s, t, v)
          \/ \E v \in Vans : ChangeVan(s, t, v)
    \/ \E v \in Vans : PayStatement(s, v)

Office ==
    \/ \E t \in Trips :
          \/ StartOverridden(t) \/ FallBackStart(t) \/ Override(t)
          \/ \E v \in Vans : DetectedStart(t, v)
          \/ \E i \in DOMAIN charged[t] : Raise(t, i) \/ Withdraw(t, i) \/ Decide(t, i)
    \/ \E v \in Vans : ChargeParking(v)

Next ==
    \/ acts < MaxActs /\ ((\E s \in Sessions : Handle(s)) \/ Office) /\ acts' = acts + 1
    \/ (\E s \in Sessions : Proceed(s)) /\ UNCHANGED acts

Spec == Init /\ [][Next]_vars

-----------------------------------------------------------------------------
(***************************************************************************)
(* Properties.                                                             *)
(***************************************************************************)
\* Trips with fees on the statement of v.
OnIt(v) ==
    {t \in Trips : /\ Live(trip[t])
                   /\ trip[t].van = v \/ \E i \in DOMAIN charged[t] : charged[t][i].on = v}

PaidUp(t, v) ==
    trip[t].van = v /\ Waiting(trip[t]) /\ trip[t].pay = "paid" /\ ~past[t].astray

PaidBesideDue(v) ==
    /\ Due(v) > 0 /\ ~account[v].high
    /\ OnIt(v) # {} /\ \A t \in OnIt(v) : PaidUp(t, v)

\* Paid never stands beside a balance: when every trip with fees on a
\* statement is paid and waits to leave, nothing undisputed is due on it,
\* whatever top-ups, decisions, payments and voids went before or wait for
\* each other.  Not covered: a trip whose van changed since it was paid, or
\* that was synced from a row or lines read before a change; a total written
\* without its lock that came out too high.
PaidOwesNothing == \A v \in Vans : ~PaidBesideDue(v)

\* Every seat is charged once: while no two handlers had the lines of a trip
\* in hand at once, no seat is on its lines twice, through moves of the van,
\* contested lines and top-ups; and of a trip that has left no listed seat is
\* on none, but those marked as paid after its departure counted the list.
EverySeatChargedOnce ==
    \A t \in Trips : ~past[t].mixed =>
        /\ Seats(charged[t]) <= MaxSeats[t]
        /\ trip[t].status = "departed" => Seats(charged[t]) + past[t].missed >= listed[t]

\* However payments of two trips and of their statement meet, wait for each
\* other and are rolled back, none takes more than the statement owes; not
\* covered, a statement whose total came out too high without its lock.
PaymentsNeverOverpay ==
    [][\A v \in Vans :
          (account'[v].settled > account[v].settled /\ ~account[v].high)
          => account'[v].settled <= account'[v].owed]_vars
=============================================================================
