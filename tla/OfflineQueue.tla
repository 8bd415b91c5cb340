---------------------------- MODULE OfflineQueue ----------------------------
(***************************************************************************)
(* The Dispatcher's phone in a dead zone: marks on seats (Mark as Paid and *)
(* cancellations) and walk-ups are sent at once when possible, queued in   *)
(* the phone's database otherwise, and replayed by flush.                  *)
(*                                                                         *)
(* The phone is one thread that gives way at every await, so the screen    *)
(* and flush interleave there.  A request the phone stopped waiting for    *)
(* may be lost, or may reach the server later: it travels on for nobody.   *)
(* The server is CashDesk and the walk-in endpoint, seen from the phone.   *)
(*                                                                         *)
(* Acts are numbered as the Dispatcher makes them: the number is the time  *)
(* of a mark and the client_request_id of a walk-up.                       *)
(***************************************************************************)
EXTENDS Naturals, FiniteSets

CONSTANTS
    Seats,      \* bookings on the trip's list when the screen opens
    Words,      \* what the Dispatcher may say of a seat
    MaxActs,    \* bound: what the Dispatcher does in all
    Faults,     \* what goes wrong: "drop" the connection is lost, "slow" a
                \* request times out though connected, "kill" the app dies
    MaxFaults   \* bound: how often something goes wrong

Acts == 1..MaxActs

ASSUME QueueAssumption ==
    /\ MaxActs \in Nat /\ MaxFaults \in Nat
    /\ "none" \notin Seats
    /\ Words \subseteq {"paid", "asked", "forgot"}
    /\ Faults \subseteq {"drop", "slow", "kill"}

VARIABLES
    act,     \* what was done, by act number
    told,    \* what the Dispatcher was last told of each act
    table,   \* pending_seat_marks and pending_walk_ins, by act number
    flush,   \* where flush is, and what is left of the list it is replaying
    net,     \* requests on their way, being served, or answered
    list,    \* the seats as the screen last loaded them
    seat,    \* the server's bookings: "returned" is cancelled after it was paid
    listed,  \* bookings the server made of each walk-up
    door,    \* the trip: list open, list locked, or departed
    up,      \* whether the phone has a connection
    faults   \* how often something went wrong

vars == <<act, told, table, flush, net, list, seat, listed, door, up, faults>>

phone == <<act, told, table, flush, list>>
server == <<seat, listed, door>>
world == <<up, faults>>

-----------------------------------------------------------------------------
NoAct == [on |-> "none", word |-> "none"]
WalkUp == [on |-> "none", word |-> "walk_up"]

IsMark(a) == act[a].word \in Words
IsWalkUp(a) == act[a].word = "walk_up"

Answers == {"ok", "refused", "busy"}

\* by: who waits for the answer.  at: how far it is.  A request whose
\* connection broke is lost to whoever waits for it.
Requests == [act : Acts,
             by  : {"call", "flush", "nobody"},
             at  : {"sent", "reserving", "lost"} \cup Answers]

\* The same request further on, or with nobody waiting for it.
Moved(r, at) == [act |-> r.act, by |-> r.by, at |-> at]
Abandoned(r) == [act |-> r.act, by |-> "nobody", at |-> r.at]

Idle == [step |-> "idle", todo |-> {}]

TypeOK ==
    /\ act \in [Acts -> {NoAct, WalkUp} \cup [on : Seats, word : Words]]
    /\ told \in [Acts -> {"nothing", "waiting", "queued", "done", "refused"}]
    /\ table \subseteq Acts
    /\ flush \in [step : {"idle", "marks", "walk_ups"}, todo : SUBSET Acts]
    /\ net \subseteq Requests
    /\ list \in [Seats -> {"unpaid", "paid", "gone"}]
    /\ seat \in [Seats -> {"unpaid", "paid", "released", "cancelled", "returned"}]
    /\ listed \in [Acts -> Nat]
    /\ door \in {"open", "locked", "departed"}
    /\ up \in BOOLEAN
    /\ faults \in 0..MaxFaults

Init ==
    /\ act = [a \in Acts |-> NoAct]
    /\ told = [a \in Acts |-> "nothing"]
    /\ table = {}
    /\ flush = Idle
    /\ net = {}
    /\ list = [b \in Seats |-> "unpaid"]
    /\ seat = [b \in Seats |-> "unpaid"]
    /\ listed = [a \in Acts |-> 0]
    /\ door = "open"
    /\ up = TRUE
    /\ faults = 0

-----------------------------------------------------------------------------
(***************************************************************************)
(* The screen.                                                             *)
(***************************************************************************)
\* Marks are stored under their booking, walk-ups under their own id.
SameRow(a, c) == a = c \/ (IsMark(a) /\ IsMark(c) /\ act[a].on = act[c].on)

\* INSERT with ConflictAlgorithm.replace.
Enqueue(a) == table' = {c \in table : ~SameRow(a, c)} \cup {a}

Drop(a) == table' = {c \in table : ~SameRow(a, c)}

\* The act is sent before anything is written on the phone.
Submit(a, what) ==
    /\ act[a] = NoAct /\ \A c \in Acts : c < a => act[c] # NoAct
    /\ act' = [act EXCEPT ![a] = what]
    /\ told' = [told EXCEPT ![a] = "waiting"]
    /\ net' = net \cup {[act |-> a, by |-> "call", at |-> "sent"]}
    /\ UNCHANGED <<table, flush, list, server, world>>

Acting == \E a \in Acts : IsMark(a) /\ told[a] = "waiting"

\* Mutant: a seat whose mark is still on the phone keeps its buttons.
NotActing(b) == ~Acting

\* A seat with a mark on the phone shows no button: it is hidden if the mark
\* cancels it, and "PAID, NOT SYNCED" otherwise.
HasButtons(b) == ~Acting /\ \A a \in table : act[a].on # b

\* Mark as Paid, or the reasons of the cancel dialog.
Offered(b) ==
    CASE list[b] = "unpaid" -> {"paid", "asked", "forgot"}
      [] list[b] = "paid"   -> {"asked"}
      [] list[b] = "gone"   -> {}

MarkSeat(a, b, word) ==
    /\ HasButtons(b) /\ word \in Offered(b)
    /\ Submit(a, [on |-> b, word |-> word])

ListWalkUp(a) ==
    /\ ~Acting /\ \A c \in Acts : told[c] # "waiting"
    /\ Submit(a, WalkUp)

\* Mutant: find returns the cancelled seats too.
EverySeat(b) == seat[b]

\* What find returns: the seats that are not cancelled.
OnServer(b) == IF seat[b] \in {"unpaid", "paid"} THEN seat[b] ELSE "gone"

Refresh ==
    /\ up
    /\ list' = [b \in Seats |-> OnServer(b)]
    /\ UNCHANGED <<act, told, table, flush, net, server, world>>

\* The server's answer reaches the screen: done, or shown as an error and
\* never queued.  The reload that follows is Refresh: it may fail, and the
\* screen keeps the last list it loaded.
CallAnswered(r) ==
    /\ r \in net /\ r.by = "call" /\ r.at \in Answers /\ up
    /\ told' = [told EXCEPT ![r.act] = IF r.at = "ok" THEN "done" ELSE "refused"]
    /\ net' = net \ {r}
    /\ UNCHANGED <<act, table, flush, list, server, world>>

-----------------------------------------------------------------------------
(***************************************************************************)
(* flush.                                                                  *)
(***************************************************************************)
BeginFlush == flush' = [step |-> "marks", todo |-> {a \in table : IsMark(a)}]

SyncNow ==
    /\ table # {} /\ flush = Idle
    /\ BeginFlush
    /\ UNCHANGED <<act, told, table, net, list, server, world>>

FlushHead(a) == a \in flush.todo /\ \A c \in flush.todo : a <= c

FlushSend(a) ==
    /\ FlushHead(a)
    /\ \A r \in net : r.by # "flush"
    /\ net' = net \cup {[act |-> a, by |-> "flush", at |-> "sent"]}
    /\ UNCHANGED <<phone, server, world>>

\* A mark is dropped whatever the server said, and the Dispatcher is told.
MarkAnswered(r) ==
    /\ IsMark(r.act)
    /\ told' = [told EXCEPT ![r.act] = IF r.at = "ok" THEN "done" ELSE "refused"]
    /\ Drop(r.act)

\* Mutant: a refused walk-up is dropped like a refused mark, and nobody told.
WalkUpForgotten(r) ==
    /\ IsWalkUp(r.act)
    /\ told' = [told EXCEPT ![r.act] = IF r.at = "ok" THEN "done" ELSE @]
    /\ Drop(r.act)

\* A walk-up stays queued unless the server listed it.
WalkUpAnswered(r) ==
    /\ IsWalkUp(r.act)
    /\ \/ r.at = "ok" /\ told' = [told EXCEPT ![r.act] = "done"] /\ Drop(r.act)
       \/ r.at # "ok" /\ UNCHANGED <<told, table>>

FlushAnswered(r) ==
    /\ r \in net /\ r.by = "flush" /\ r.at \in Answers /\ up
    /\ MarkAnswered(r) \/ WalkUpAnswered(r)
    /\ net' = net \ {r}
    /\ flush' = [flush EXCEPT !.todo = @ \ {r.act}]
    /\ UNCHANGED <<act, list, server, world>>

\* The marks first; the walk-ups are read when the marks are through.
FlushWalkUps ==
    /\ flush.step = "marks" /\ flush.todo = {}
    /\ flush' = [step |-> "walk_ups", todo |-> {a \in table : IsWalkUp(a)}]
    /\ UNCHANGED <<act, told, table, net, list, server, world>>

FlushDone ==
    /\ flush.step = "walk_ups" /\ flush.todo = {}
    /\ flush' = Idle
    /\ UNCHANGED <<act, told, table, net, list, server, world>>

-----------------------------------------------------------------------------
(***************************************************************************)
(* The connection, and the life of the app.                                *)
(***************************************************************************)
\* What becomes of requests nobody waits for any more.
Strays(requests) ==
    {Abandoned(r) :
        r \in {q \in requests : q.by # "nobody" /\ q.at \in {"sent", "reserving"}}}

MayFail(fault) == fault \in Faults /\ faults < MaxFaults

\* Mutant: the ten seconds cover calls of the screen only.
CallTimesOut(r) == r.by = "call" /\ (r.at = "lost" \/ ~up \/ MayFail("slow"))

\* NetworkException at once without a connection, RequestTimeoutException
\* after ten seconds.
GivesUp(r) == r.by # "nobody" /\ (r.at = "lost" \/ ~up \/ MayFail("slow"))

\* A call that failed is queued; flush returns and leaves the rest queued.
Timeout(r) ==
    /\ r \in net /\ GivesUp(r)
    /\ net' = (net \ {r}) \cup Strays({r})
    /\ faults' = IF r.at = "lost" \/ ~up THEN faults ELSE faults + 1
    /\ \/ /\ r.by = "call"
          /\ Enqueue(r.act)
          /\ told' = [told EXCEPT ![r.act] = "queued"]
          /\ UNCHANGED flush
       \/ r.by = "flush" /\ flush' = Idle /\ UNCHANGED <<table, told>>
    /\ UNCHANGED <<act, list, server, up>>

\* Connections break with the network: the phone still waits for an answer.
Disconnect ==
    /\ up /\ MayFail("drop")
    /\ up' = FALSE /\ faults' = faults + 1
    /\ net' = {r \in net : r.by = "nobody"}
              \cup {Moved(r, "lost") : r \in {q \in net : q.by # "nobody"}}
              \cup Strays(net)
    /\ UNCHANGED <<phone, server>>

\* The listener calls flush, which returns at once if one is running.
Connect ==
    /\ ~up
    /\ up' = TRUE
    /\ IF flush = Idle THEN BeginFlush ELSE UNCHANGED flush
    /\ UNCHANGED <<act, told, table, net, list, server, faults>>

\* The app is killed and started again: the database stays, the marks in it
\* are shown again before a screen opens, and nothing is sent by itself.
Kill ==
    /\ MayFail("kill")
    /\ faults' = faults + 1
    /\ told' = [a \in Acts |-> IF told[a] = "waiting" THEN "nothing" ELSE told[a]]
    /\ flush' = Idle
    /\ net' = {r \in net : r.by = "nobody"}
              \cup Strays(net)
    /\ list' = [b \in Seats |-> "gone"]
    /\ UNCHANGED <<act, table, server, up>>

-----------------------------------------------------------------------------
(***************************************************************************)
(* The server.                                                             *)
(***************************************************************************)
Answer(r, reply) ==
    net' = (net \ {r}) \cup (IF r.by = "nobody" THEN {} ELSE {Moved(r, reply)})

Arrives(r) == r \in net /\ r.at = "sent" /\ (r.by = "nobody" \/ up)

\* A lock timeout, an expired session, an error on the server's side.
Busy(r) ==
    /\ Arrives(r) /\ r.by # "nobody"
    /\ Answer(r, "busy")
    /\ UNCHANGED <<phone, server, world>>

\* A released seat comes back if the trip still has a slot; if not, the mark
\* is answered with a notice and changes nothing.
ServePaid(r) ==
    LET b == act[r.act].on IN
    /\ Arrives(r) /\ act[r.act].word = "paid"
    /\ \/ /\ door # "departed" /\ seat[b] \in {"unpaid", "released"}
          /\ seat' = [seat EXCEPT ![b] = "paid"]
          /\ Answer(r, "ok")
       \/ /\ door # "departed" /\ seat[b] \in {"paid", "returned", "released"}
          /\ Answer(r, "ok") /\ UNCHANGED seat
       \/ /\ door = "departed" \/ seat[b] = "cancelled"
          /\ Answer(r, "refused") /\ UNCHANGED seat
    /\ UNCHANGED <<phone, listed, door, world>>

\* A paid seat was not forgotten.
MayCancel(a) == act[a].word = "asked" \/ seat[act[a].on] \notin {"paid", "returned"}

ServeCancel(r) ==
    LET b == act[r.act].on
        standing == seat[b] \in {"unpaid", "paid"}
    IN
    /\ Arrives(r) /\ act[r.act].word \in {"asked", "forgot"}
    /\ \/ /\ MayCancel(r.act) /\ standing /\ door = "open"
          /\ seat' = [seat EXCEPT ![b] = IF @ = "paid" THEN "returned" ELSE "cancelled"]
          /\ Answer(r, "ok")
       \/ /\ MayCancel(r.act) /\ ~standing
          /\ Answer(r, "ok") /\ UNCHANGED seat
       \/ /\ ~MayCancel(r.act) \/ (standing /\ door # "open")
          /\ Answer(r, "refused") /\ UNCHANGED seat
    /\ UNCHANGED <<phone, listed, door, world>>

\* Was this client_request_id listed before?
LookUp(r) ==
    /\ Arrives(r) /\ IsWalkUp(r.act)
    /\ \/ listed[r.act] > 0 /\ Answer(r, "ok")
       \/ listed[r.act] = 0 /\ net' = (net \ {r}) \cup {Moved(r, "reserving")}
    /\ UNCHANGED <<phone, server, world>>

\* Mutant: the table has no unique key on (trip_id, client_request_id).
InsertWithoutKey(r) ==
    /\ listed' = [listed EXCEPT ![r.act] = @ + 1]
    /\ Answer(r, "ok")

\* The unique key turns the second INSERT into an error.
InsertOnce(r) ==
    \/ /\ listed[r.act] = 0
       /\ listed' = [listed EXCEPT ![r.act] = 1]
       /\ Answer(r, "ok")
    \/ listed[r.act] > 0 /\ Answer(r, "busy") /\ UNCHANGED listed

\* The van is full or gone, or the passenger is listed.
ReserveWalkUp(r) ==
    /\ r \in net /\ r.at = "reserving"
    /\ \/ door # "departed" /\ InsertOnce(r)
       \/ Answer(r, "refused") /\ UNCHANGED listed
    /\ UNCHANGED <<phone, seat, door, world>>

\* What others do meanwhile: the cutoff job, the passenger, the Cashier.
Released(b) ==
    /\ seat[b] = "unpaid" /\ door # "departed"
    /\ seat' = [seat EXCEPT ![b] = "released"]
    /\ UNCHANGED <<phone, net, listed, door, world>>

PassengerCancels(b) ==
    /\ seat[b] = "unpaid" /\ door = "open"
    /\ seat' = [seat EXCEPT ![b] = "cancelled"]
    /\ UNCHANGED <<phone, net, listed, door, world>>

DoorCloses ==
    /\ \/ door = "open" /\ door' \in {"locked", "departed"}
       \/ door = "locked" /\ door' = "departed"
    /\ UNCHANGED <<phone, net, seat, listed, world>>

-----------------------------------------------------------------------------
Serve(r) == ServePaid(r) \/ ServeCancel(r) \/ LookUp(r) \/ ReserveWalkUp(r) \/ Busy(r)

Dispatcher ==
    \/ \E a \in Acts, b \in Seats, word \in Words : MarkSeat(a, b, word)
    \/ \E a \in Acts : ListWalkUp(a)
    \/ Refresh \/ SyncNow

FlushGoesOn ==
    \/ \E a \in Acts : FlushSend(a)
    \/ \E r \in net : FlushAnswered(r) \/ (r.by = "flush" /\ Timeout(r))
    \/ FlushWalkUps \/ FlushDone

CallGoesOn == \E r \in net : CallAnswered(r) \/ (r.by = "call" /\ Timeout(r))

Next ==
    \/ Dispatcher \/ FlushGoesOn \/ CallGoesOn
    \/ Disconnect \/ Connect \/ Kill
    \/ \E r \in net : Serve(r)
    \/ \E b \in Seats : Released(b) \/ PassengerCancels(b)
    \/ DoorCloses

Spec == Init /\ [][Next]_vars

\* The app runs what is ready, a wait ends after ten seconds, and a server
\* that can be reached and is not slow answers.  Nobody has to press a
\* button, and the connection has to come back only when a property says so.
FairSpec ==
    /\ Spec
    /\ WF_vars(FlushGoesOn) /\ WF_vars(CallGoesOn)
    /\ WF_vars(\E r \in net : r.by = "flush" /\ Serve(r))
    /\ WF_vars(\E r \in net : r.by = "call" /\ Serve(r))

-----------------------------------------------------------------------------
\* No later act of the Dispatcher is about the same seat.
LatestWord(a) == \A c \in Acts : c > a => act[c].on # act[a].on

\* The queue holds the Dispatcher's latest word on each seat: a mark said to
\* be saved on the phone is there until the server answered it, although
\* flush drops by booking while the screen goes on queueing.
QueuedWordKept ==
    \A a \in Acts : IsMark(a) /\ told[a] = "queued" /\ LatestWord(a) => a \in table

\* However often a walk-up is sent, and whatever answer was lost, the
\* server lists the passenger once.
WalkUpListedOnce == \A a \in Acts : listed[a] <= 1

\* A walk-up whose cash was taken is on the phone or on the server's list.
WalkUpNotLost ==
    \A a \in Acts : IsWalkUp(a) =>
        /\ told[a] = "queued" => a \in table
        /\ told[a] = "done" => listed[a] = 1

\* Why the above hold.  What was not done was not told, sent or stored; the
\* queue holds exactly what the Dispatcher was told is queued.
OnlyWhatWasDone ==
    /\ \A a \in Acts : act[a] = NoAct => told[a] = "nothing"
    /\ \A r \in net : act[r.act] # NoAct

TableIsWhatIsQueued == table = {a \in Acts : told[a] = "queued"}

\* A seat has one mark at most that is being sent or queued.
Pending(a) == IsMark(a) /\ told[a] \in {"waiting", "queued"}
OnePendingMarkPerSeat ==
    \A a, c \in Acts :
        Pending(a) /\ Pending(c) /\ act[a].on = act[c].on => a = c

\* Somebody waits for each answer, and flush works on what is stored.
AnswersAreAwaited ==
    /\ \A r \in net : r.by = "call" => told[r.act] = "waiting"
    /\ \A r \in net : r.by = "flush" => r.act \in flush.todo
    /\ flush.todo \subseteq table

\* flush waits for one answer at a time, and the screen for one to each act.
OneAnswerAtATime ==
    \A r, q \in net :
        r.by = q.by /\ (r.by = "flush" \/ (r.by = "call" /\ r.act = q.act)) => r = q

\* An answer that a walk-up is listed is true.
ListedWalkUps ==
    /\ \A a \in Acts : listed[a] \in {0, 1}
    /\ \A r \in net : IsWalkUp(r.act) /\ r.at = "ok" => listed[r.act] = 1
    /\ \A a \in Acts : IsWalkUp(a) /\ told[a] = "done" => listed[a] = 1

QueueInv ==
    /\ TypeOK
    /\ OnlyWhatWasDone /\ TableIsWhatIsQueued /\ OnePendingMarkPerSeat
    /\ AnswersAreAwaited /\ OneAnswerAtATime /\ ListedWalkUps

\* A paid seat is cancelled only if the Dispatcher's latest word on it is to
\* cancel it: no replay undoes what he did later.  Requests that outlive the
\* phone's wait are left out: nothing on the phone can call them back.
LatestWordStands ==
    [][\A b \in Seats :
           /\ seat[b] = "paid" /\ seat'[b] # "paid"
           /\ \A r \in net : r.by = "nobody" => r \in net'
           => \E a \in Acts : act[a].on = b /\ LatestWord(a) /\ act[a].word # "paid"]_vars

\* flush always ends: a flush that hung would refuse every later one.
FlushEnds == flush # Idle ~> flush = Idle

\* A mark is dropped unanswered only if it was refused for good.
DropsOnlyFinalRefusals ==
    [][\A a \in table \ table' :
           IsMark(a) => ~\E r \in net : r.act = a /\ r.by = "flush" /\ r.at = "busy"]_vars

\* What was queued in a dead zone is replayed when the connection returns.
ReplayedOnReturn ==
    <>[]up =>
        \A a \in Acts : (a \in table /\ IsMark(a) /\ ~up) ~> a \notin table
=============================================================================
