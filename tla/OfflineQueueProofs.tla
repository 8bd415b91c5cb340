-------------------------- MODULE OfflineQueueProofs --------------------------
(***************************************************************************)
(* Proofs about OfflineQueue: types, and the inductive invariant QueueInv  *)
(* from which the promises of the queue follow, for every number of acts,  *)
(* seats and faults.                                                       *)
(***************************************************************************)
EXTENDS OfflineQueue, TLAPS

(***************************************************************************)
(* Types.                                                                  *)
(***************************************************************************)
USE DEF Acts

\* The phone and the trip start in states of the right type.
LEMMA InitTypes == Init => TypeOK
BY QueueAssumption, SMT DEF Init, TypeOK, NoAct, WalkUp, Idle, Requests

\* A request stays one when it is abandoned, answered or lost.
LEMMA RequestTypes ==
    ASSUME NEW r \in Requests
    PROVE  /\ Abandoned(r) \in Requests
           /\ \A at \in {"sent", "reserving", "lost"} \cup Answers : Moved(r, at) \in Requests
BY DEF Requests, Answers, Moved, Abandoned

\* An idle flush and a starting one are flushes.
FlushStates == [step : {"idle", "marks", "walk_ups"}, todo : SUBSET Acts]

LEMMA FlushStateTypes ==
    /\ Idle \in FlushStates
    /\ BeginFlush /\ table \subseteq Acts => flush' \in FlushStates
BY DEF FlushStates, Idle, BeginFlush

\* What is left on its way when nobody waits any more are requests.
LEMMA StraysAreRequests ==
    ASSUME NEW S \in SUBSET Requests
    PROVE  Strays(S) \subseteq Requests
BY RequestTypes DEF Strays

\* An answer of the server leaves requests on their way, and nothing else.
LEMMA AnswerTypes ==
    ASSUME net \subseteq Requests, NEW r \in net, NEW reply \in Answers, Answer(r, reply)
    PROVE  net' \subseteq Requests
BY RequestTypes DEF Answer

\* Nothing the screen does breaks a type.
LEMMA ScreenTypes ==
    ASSUME TypeOK,
           \/ \E a \in Acts, b \in Seats, word \in Words : MarkSeat(a, b, word)
           \/ \E a \in Acts : ListWalkUp(a)
           \/ Refresh \/ SyncNow
           \/ \E r \in net : CallAnswered(r)
    PROVE  TypeOK'
<1> USE QueueAssumption DEF TypeOK, Requests, Answers, server, world
<1>1. ASSUME NEW a \in Acts, NEW b \in Seats, NEW word \in Words, MarkSeat(a, b, word)
      PROVE  TypeOK'
  BY <1>1 DEF MarkSeat, Submit
<1>2. ASSUME NEW a \in Acts, ListWalkUp(a)  PROVE TypeOK'
  BY <1>2 DEF ListWalkUp, Submit
<1>3. CASE Refresh
  BY <1>3 DEF Refresh, OnServer
<1>4. CASE SyncNow
  BY <1>4 DEF SyncNow, BeginFlush
<1>5. ASSUME NEW r \in net, CallAnswered(r)  PROVE TypeOK'
  BY <1>5 DEF CallAnswered
<1>6. QED
  BY <1>1, <1>2, <1>3, <1>4, <1>5

\* Nothing flush does, and no failure, breaks a type.
LEMMA FlushTypes ==
    ASSUME TypeOK,
           \/ \E a \in Acts : FlushSend(a)
           \/ \E r \in net : FlushAnswered(r) \/ Timeout(r)
           \/ FlushWalkUps \/ FlushDone
           \/ Disconnect \/ Connect \/ Kill
    PROVE  TypeOK'
<1> USE QueueAssumption DEF TypeOK, phone, server, world
<1>1. ASSUME NEW a \in Acts, FlushSend(a)  PROVE TypeOK'
  BY <1>1 DEF FlushSend, Requests
<1>2. ASSUME NEW r \in net, FlushAnswered(r)  PROVE TypeOK'
  BY <1>2 DEF FlushAnswered, MarkAnswered, WalkUpAnswered, Drop, Requests
<1>3. ASSUME NEW r \in net, Timeout(r)  PROVE TypeOK'
  <2>1. net' \subseteq Requests
    BY <1>3, StraysAreRequests DEF Timeout
  <2>2. faults' \in 0..MaxFaults
    BY <1>3 DEF Timeout, GivesUp, MayFail
  <2>3. r.act \in Acts
    BY DEF Requests
  <2>4. /\ table' \subseteq Acts
        /\ told' \in [Acts -> {"nothing", "waiting", "queued", "done", "refused"}]
        /\ flush' \in [step : {"idle", "marks", "walk_ups"}, todo : SUBSET Acts]
    <3>1. CASE r.by = "call"
      BY <1>3, <2>3, <3>1 DEF Timeout, Enqueue
    <3>2. CASE r.by = "flush"
      <4>1. flush' = Idle /\ table' = table /\ told' = told
        BY <1>3, <3>2 DEF Timeout
      <4>2. QED
        BY <4>1, FlushStateTypes DEF FlushStates
    <3>3. QED
      BY <1>3, <3>1, <3>2 DEF Timeout
  <2>5. QED
    BY <1>3, <2>1, <2>2, <2>4 DEF Timeout
<1>4. CASE FlushWalkUps
  BY <1>4 DEF FlushWalkUps
<1>5. CASE FlushDone
  BY <1>5 DEF FlushDone, Idle
<1>6. CASE Disconnect
  <2>1. net' \subseteq Requests
    <3>1. Strays(net) \subseteq Requests
      BY StraysAreRequests
    <3>2. \A r \in net : Moved(r, "lost") \in Requests
      BY RequestTypes
    <3>3. QED
      BY <1>6, <3>1, <3>2 DEF Disconnect
  <2>2. faults' \in 0..MaxFaults
    BY <1>6 DEF Disconnect, MayFail
  <2>3. QED
    BY <1>6, <2>1, <2>2 DEF Disconnect
<1>7. CASE Connect
  <2>1. flush' \in [step : {"idle", "marks", "walk_ups"}, todo : SUBSET Acts]
    <3>1. BeginFlush \/ flush' = flush
      BY <1>7 DEF Connect
    <3>2. QED
      BY <3>1, FlushStateTypes DEF FlushStates
  <2>2. QED
    BY <1>7, <2>1 DEF Connect
<1>8. CASE Kill
  <2>1. net' \subseteq Requests
    BY <1>8, StraysAreRequests DEF Kill
  <2>2. faults' \in 0..MaxFaults
    BY <1>8 DEF Kill, MayFail
  <2>3. QED
    BY <1>8, <2>1, <2>2 DEF Kill, Idle
<1>9. QED
  BY <1>1, <1>2, <1>3, <1>4, <1>5, <1>6, <1>7, <1>8

\* Nothing the server and the others do breaks a type.
LEMMA ServerTypes ==
    ASSUME TypeOK,
           \/ \E r \in net : Serve(r)
           \/ \E b \in Seats : Released(b) \/ PassengerCancels(b)
           \/ DoorCloses
    PROVE  TypeOK'
<1> USE QueueAssumption DEF TypeOK, phone, server, world
<1>a. {"ok", "refused", "busy"} \subseteq Answers
  BY DEF Answers
<1>1. ASSUME NEW r \in net, ServePaid(r)  PROVE TypeOK'
  <2>1. net' \subseteq Requests
    BY <1>1, <1>a, AnswerTypes DEF ServePaid
  <2>2. QED
    BY <1>1, <2>1 DEF ServePaid
<1>2. ASSUME NEW r \in net, ServeCancel(r)  PROVE TypeOK'
  <2>1. net' \subseteq Requests
    BY <1>2, <1>a, AnswerTypes DEF ServeCancel
  <2>2. QED
    BY <1>2, <2>1 DEF ServeCancel
<1>3. ASSUME NEW r \in net, LookUp(r)  PROVE TypeOK'
  <2>1. net' \subseteq Requests
    <3>1. CASE Answer(r, "ok")
      BY <3>1, <1>a, AnswerTypes
    <3>2. CASE net' = (net \ {r}) \cup {Moved(r, "reserving")}
      <4>1. Moved(r, "reserving") \in Requests
        BY RequestTypes
      <4>2. QED
        BY <3>2, <4>1
    <3>3. QED
      BY <1>3, <3>1, <3>2 DEF LookUp
  <2>2. QED
    BY <1>3, <2>1 DEF LookUp
<1>4. ASSUME NEW r \in net, ReserveWalkUp(r)  PROVE TypeOK'
  <2>1. net' \subseteq Requests
    BY <1>4, <1>a, AnswerTypes DEF ReserveWalkUp, InsertOnce
  <2>2. listed' \in [Acts -> Nat]
    <3>1. r.act \in Acts
      BY DEF Requests
    <3>2. listed' = listed \/ listed' = [listed EXCEPT ![r.act] = 1]
      BY <1>4 DEF ReserveWalkUp, InsertOnce
    <3>3. CASE listed' = [listed EXCEPT ![r.act] = 1]
      BY <3>1, <3>3
    <3>4. QED
      BY <3>2, <3>3
  <2>3. QED
    BY <1>4, <2>1, <2>2 DEF ReserveWalkUp
<1>5. ASSUME NEW r \in net, Busy(r)  PROVE TypeOK'
  <2>1. net' \subseteq Requests
    BY <1>5, <1>a, AnswerTypes DEF Busy
  <2>2. QED
    BY <1>5, <2>1 DEF Busy
<1>6. ASSUME NEW b \in Seats, Released(b) \/ PassengerCancels(b)  PROVE TypeOK'
  BY <1>6 DEF Released, PassengerCancels
<1>7. CASE DoorCloses
  BY <1>7 DEF DoorCloses
<1>8. QED
  BY <1>1, <1>2, <1>3, <1>4, <1>5, <1>6, <1>7 DEF Serve

\* Every step keeps the types.
LEMMA StepTypes == TypeOK /\ [Next]_vars => TypeOK'
<1> SUFFICES ASSUME TypeOK, [Next]_vars  PROVE TypeOK'
  OBVIOUS
<1>1. CASE UNCHANGED vars
  BY <1>1 DEF vars, TypeOK
<1>2. CASE Next
  BY <1>2, ScreenTypes, FlushTypes, ServerTypes
     DEF Next, Dispatcher, FlushGoesOn, CallGoesOn
<1>3. QED
  BY <1>1, <1>2

\* Type correctness: marks, rows, requests, seats and walk-ups stay in range.
THEOREM TypeCorrect == Spec => []TypeOK
BY InitTypes, StepTypes, PTL DEF Spec

-----------------------------------------------------------------------------
(***************************************************************************)
(* The promises of the queue.                                              *)
(***************************************************************************)
\* QueueInv without the types, as one step at a time has to keep it.
Promises ==
    /\ OnlyWhatWasDone /\ TableIsWhatIsQueued /\ OnePendingMarkPerSeat
    /\ AnswersAreAwaited /\ OneAnswerAtATime /\ ListedWalkUps

\* A mark is neither a walk-up nor nothing, and it is about a seat.
LEMMA WordsApart ==
    ASSUME TypeOK, NEW a \in Acts
    PROVE  /\ IsMark(a) => act[a] # NoAct /\ ~IsWalkUp(a) /\ act[a].on \in Seats
           /\ IsWalkUp(a) => act[a] # NoAct
<1>1. IsMark(a) => ~IsWalkUp(a)
  BY QueueAssumption DEF IsMark, IsWalkUp
<1>2. IsMark(a) \/ IsWalkUp(a) => act[a] # NoAct
  BY QueueAssumption DEF IsMark, IsWalkUp, NoAct
<1>3. IsMark(a) => act[a].on \in Seats
  BY <1>1, <1>2 DEF TypeOK, IsMark, IsWalkUp, NoAct, WalkUp
<1>4. QED
  BY <1>1, <1>2, <1>3

\* What an abandoned request and one further on have of the one they were.
LEMMA RequestFields ==
    /\ \A r, at : Moved(r, at).act = r.act /\ Moved(r, at).by = r.by /\ Moved(r, at).at = at
    /\ \A S : \A q \in Strays(S) :
           /\ q.by = "nobody" /\ q.at \in {"sent", "reserving"}
           /\ \E r \in S : q.act = r.act
BY DEF Moved, Abandoned, Strays

\* A step of the server or of the network: the phone stays as it is, walk-ups
\* are only ever listed, no new act is heard of, and "ok" tells the truth.
LEMMA NetworkStep ==
    ASSUME TypeOK, Promises,
           UNCHANGED <<act, told, table, flush>>,
           \A a \in Acts : listed'[a] \in {0, 1} /\ (listed[a] = 1 => listed'[a] = 1),
           \A q \in net' :
               /\ \E r \in net : q.act = r.act /\ q.by \in {r.by, "nobody"}
               /\ IsWalkUp(q.act) /\ q.at = "ok" => listed'[q.act] = 1,
           OneAnswerAtATime'
    PROVE  Promises'
<1>1. OnlyWhatWasDone'
  BY DEF Promises, OnlyWhatWasDone
<1>2. TableIsWhatIsQueued' /\ OnePendingMarkPerSeat'
  BY DEF Promises, TableIsWhatIsQueued, OnePendingMarkPerSeat, Pending, IsMark
<1>3. AnswersAreAwaited'
  BY DEF Promises, AnswersAreAwaited
<1>4. ListedWalkUps'
  BY DEF Promises, ListedWalkUps, IsWalkUp
<1>5. QED
  BY <1>1, <1>2, <1>3, <1>4 DEF Promises

\* The server, the network and the others keep the promises.
LEMMA WorldKeepsPromises ==
    ASSUME TypeOK, Promises,
           \/ \E r \in net : Serve(r)
           \/ \E b \in Seats : Released(b) \/ PassengerCancels(b)
           \/ DoorCloses \/ Disconnect \/ Refresh
    PROVE  Promises'
<1> USE DEF world, server, phone
<1>a. \A a \in Acts : listed[a] \in {0, 1}
  BY DEF Promises, ListedWalkUps
<1>b. \A r \in net : r.act \in Acts
  BY DEF TypeOK, Requests
<1>c. \A r \in net : IsWalkUp(r.act) /\ r.at = "ok" => listed[r.act] = 1
  BY DEF Promises, ListedWalkUps
<1>1. ASSUME NEW r \in net, NEW reply \in Answers,
             UNCHANGED <<act, told, table, flush>>,
             \A a \in Acts : listed'[a] \in {0, 1} /\ (listed[a] = 1 => listed'[a] = 1),
             IsWalkUp(r.act) /\ reply = "ok" => listed'[r.act] = 1,
             Answer(r, reply)
      PROVE  Promises'
  <2>1. OneAnswerAtATime'
    BY <1>1, RequestFields DEF Answer, Promises, OneAnswerAtATime
  <2>2. QED
    BY <1>1, <1>b, <1>c, <2>1, NetworkStep, RequestFields DEF Answer
<1>2. ASSUME UNCHANGED <<act, told, table, flush, net, listed>>  PROVE Promises'
  <2>1. OneAnswerAtATime'
    BY <1>2 DEF Promises, OneAnswerAtATime
  <2>2. QED
    BY <1>2, <1>a, <1>c, <2>1, NetworkStep
<1>3. ASSUME NEW r \in net, ServePaid(r) \/ ServeCancel(r)  PROVE Promises'
  <2>1. ~IsWalkUp(r.act)
    BY <1>3 DEF ServePaid, ServeCancel, IsWalkUp
  <2>2. UNCHANGED <<act, told, table, flush, listed>>
    BY <1>3 DEF ServePaid, ServeCancel
  <2>3. \E reply \in Answers : Answer(r, reply)
    BY <1>3 DEF ServePaid, ServeCancel, Answers
  <2>4. QED
    BY <2>1, <2>2, <2>3, <1>1, <1>a
<1>4. ASSUME NEW r \in net, Busy(r)  PROVE Promises'
  BY <1>4, <1>1, <1>a DEF Busy, Answers
<1>5. ASSUME NEW r \in net, LookUp(r)  PROVE Promises'
  <2>1. UNCHANGED <<act, told, table, flush, listed>>
    BY <1>5 DEF LookUp
  <2>2. CASE listed[r.act] > 0 /\ Answer(r, "ok")
    BY <2>1, <2>2, <1>1, <1>a, <1>b DEF Answers
  <2>3. CASE net' = (net \ {r}) \cup {Moved(r, "reserving")}
    <3>1. OneAnswerAtATime'
      BY <2>3, RequestFields DEF Promises, OneAnswerAtATime
    <3>2. QED
      BY <2>1, <2>3, <3>1, <1>a, <1>b, <1>c, NetworkStep, RequestFields
  <2>4. QED
    BY <1>5, <2>2, <2>3 DEF LookUp
<1>6. ASSUME NEW r \in net, ReserveWalkUp(r)  PROVE Promises'
  <2>1. UNCHANGED <<act, told, table, flush>>
    BY <1>6 DEF ReserveWalkUp
  <2>2. CASE listed' = [listed EXCEPT ![r.act] = 1] /\ Answer(r, "ok")
    BY <2>1, <2>2, <1>1, <1>a, <1>b DEF Answers, TypeOK
  <2>3. CASE listed' = listed /\ (Answer(r, "busy") \/ Answer(r, "refused"))
    BY <2>1, <2>3, <1>1, <1>a DEF Answers
  <2>4. QED
    BY <1>6, <2>2, <2>3 DEF ReserveWalkUp, InsertOnce
<1>7. ASSUME NEW b \in Seats, Released(b) \/ PassengerCancels(b)  PROVE Promises'
  BY <1>7, <1>2 DEF Released, PassengerCancels
<1>8. CASE DoorCloses \/ Refresh
  BY <1>8, <1>2 DEF DoorCloses, Refresh
<1>9. CASE Disconnect
  <2>1. \A q \in net' : /\ \E r \in net : q.act = r.act /\ q.by \in {r.by, "nobody"}
                        /\ IsWalkUp(q.act) /\ q.at = "ok" => listed[q.act] = 1
    BY <1>9, <1>c, RequestFields DEF Disconnect
  <2>2. UNCHANGED <<act, told, table, flush, listed>>
    BY <1>9 DEF Disconnect
  <2>3. OneAnswerAtATime'
    BY <1>9, RequestFields DEF Disconnect, Promises, OneAnswerAtATime
  <2>4. QED
    BY <2>1, <2>2, <2>3, <1>a, NetworkStep
<1>10. QED
  BY <1>3, <1>4, <1>5, <1>6, <1>7, <1>8, <1>9 DEF Serve

\* A new act is told, sent and listed for the first time, and a new mark is
\* the only one pending on its seat.
LEMMA SubmitKeepsPromises ==
    ASSUME TypeOK, Promises, NEW a \in Acts,
           NEW what \in {WalkUp} \cup [on : Seats, word : Words],
           what.word \in Words => ~\E c \in Acts : Pending(c) /\ act[c].on = what.on,
           Submit(a, what)
    PROVE  Promises'
<1> USE DEF Submit, Promises, world, server
<1>1. act' = [act EXCEPT ![a] = what] /\ told' = [told EXCEPT ![a] = "waiting"]
  OBVIOUS
<1>2. what # NoAct
  BY QueueAssumption DEF NoAct, WalkUp
<1>3. told[a] = "nothing" /\ \A r \in net : r.act # a
  BY DEF OnlyWhatWasDone
<1>4. OnlyWhatWasDone'
  BY <1>1, <1>2 DEF OnlyWhatWasDone, TypeOK
<1>5. TableIsWhatIsQueued'
  BY <1>1, <1>3 DEF TableIsWhatIsQueued, TypeOK
<1>6. \A c \in Acts : c # a => act'[c] = act[c] /\ told'[c] = told[c]
  BY <1>1 DEF TypeOK
<1>7. act'[a] = what
  BY <1>1 DEF TypeOK
<1>8. OnePendingMarkPerSeat'
  BY <1>6, <1>7 DEF OnePendingMarkPerSeat, Pending, IsMark
<1>9. AnswersAreAwaited'
  BY <1>1, <1>3 DEF AnswersAreAwaited, TypeOK, Requests
<1>10. OneAnswerAtATime'
  BY <1>3 DEF OneAnswerAtATime
<1>11. ListedWalkUps'
  <2>1. told'[a] # "done"
    BY <1>1 DEF TypeOK
  <2>2. \A c \in Acts : c # a => (IsWalkUp(c)' <=> IsWalkUp(c))
    BY <1>6 DEF IsWalkUp
  <2>3. \A r \in net : r.act \in Acts
    BY DEF TypeOK, Requests
  <2>4. QED
    BY <1>3, <1>6, <2>1, <2>2, <2>3 DEF ListedWalkUps
<1>12. QED
  BY <1>4, <1>5, <1>8, <1>9, <1>10, <1>11

\* The Dispatcher keeps the promises: a seat with a mark under way or on the
\* phone has no button.
LEMMA DispatcherKeepsPromises ==
    ASSUME TypeOK, Promises, Dispatcher, ~Refresh
    PROVE  Promises'
<1>1. ASSUME NEW a \in Acts, NEW b \in Seats, NEW word \in Words, MarkSeat(a, b, word)
      PROVE  Promises'
  <2>1. ~\E c \in Acts : Pending(c) /\ act[c].on = b
    BY <1>1 DEF MarkSeat, HasButtons, Acting, Pending, Promises, TableIsWhatIsQueued
  <2>2. QED
    BY <1>1, <2>1, SubmitKeepsPromises DEF MarkSeat
<1>2. ASSUME NEW a \in Acts, ListWalkUp(a)  PROVE Promises'
  BY <1>2, SubmitKeepsPromises, QueueAssumption DEF ListWalkUp, WalkUp
<1>3. CASE SyncNow
  <2>1. \A r \in net : r.by # "flush"
    BY <1>3 DEF SyncNow, Idle, Promises, AnswersAreAwaited
  <2>2. UNCHANGED <<act, told, table, net, listed>> /\ flush'.todo \subseteq table
    BY <1>3 DEF SyncNow, BeginFlush, server
  <2>3. QED
    BY <2>1, <2>2 DEF Promises, OnlyWhatWasDone, TableIsWhatIsQueued,
       OnePendingMarkPerSeat, Pending, IsMark, IsWalkUp, AnswersAreAwaited,
       OneAnswerAtATime, ListedWalkUps
<1>4. QED
  BY <1>1, <1>2, <1>3 DEF Dispatcher

\* Of the marks on the phone, storing or dropping one touches no other: they
\* are about different seats.
LEMMA RowsApart ==
    ASSUME TypeOK, Promises, NEW a \in Acts, told[a] \in {"waiting", "queued"}
    PROVE  \A c \in table : SameRow(a, c) => a = c
BY DEF Promises, TableIsWhatIsQueued, OnePendingMarkPerSeat, Pending, SameRow, TypeOK

\* When an act is told something new and its row follows, the others stand as
\* they did.
LEMMA ToldKeepsPromises ==
    ASSUME TypeOK, Promises, NEW a \in Acts, NEW word \in {"queued", "done", "refused"},
           told[a] \in {"waiting", "queued"},
           told' = [told EXCEPT ![a] = word],
           table' = {c \in Acts : told'[c] = "queued"},
           word = "done" /\ IsWalkUp(a) => listed[a] = 1,
           UNCHANGED <<act, listed>>,
           flush'.todo \subseteq table',
           \A q \in net' :
               /\ \E r \in net : q.act = r.act
               /\ q.by = "call" => q \in net /\ q.act # a
               /\ q.by = "flush" => q.act \in flush'.todo
               /\ IsWalkUp(q.act) /\ q.at = "ok" => q \in net,
           OneAnswerAtATime'
    PROVE  Promises'
<1>1. told'[a] = word /\ \A c \in Acts : c # a => told'[c] = told[c]
  BY DEF TypeOK
<1>2. \A r \in net : r.act \in Acts
  BY DEF TypeOK, Requests
<1>3. act[a] # NoAct
  BY DEF Promises, OnlyWhatWasDone
<1>4. OnlyWhatWasDone'
  BY <1>1, <1>3 DEF Promises, OnlyWhatWasDone
<1>5. TableIsWhatIsQueued'
  BY DEF TableIsWhatIsQueued
<1>6. \A c \in Acts : Pending(c)' => Pending(c)
  BY <1>1 DEF Pending, IsMark
<1>7. OnePendingMarkPerSeat'
  BY <1>6 DEF Promises, OnePendingMarkPerSeat
<1>8. AnswersAreAwaited'
  BY <1>1, <1>2 DEF Promises, AnswersAreAwaited
<1>9. ListedWalkUps'
  BY <1>1 DEF Promises, ListedWalkUps, IsWalkUp
<1>10. QED
  BY <1>4, <1>5, <1>7, <1>8, <1>9 DEF Promises

\* An answer to the screen, or to flush, keeps the promises.
LEMMA AnswersKeepPromises ==
    ASSUME TypeOK, Promises, NEW r \in net, CallAnswered(r) \/ FlushAnswered(r)
    PROVE  Promises'
<1>1. r.act \in Acts
  BY DEF TypeOK, Requests
<1>2. net' = net \ {r} /\ UNCHANGED <<act, listed>>
  BY DEF CallAnswered, FlushAnswered, server
<1>3. OneAnswerAtATime'
  BY <1>2 DEF Promises, OneAnswerAtATime
<1>4. IsWalkUp(r.act) /\ r.at = "ok" => listed[r.act] = 1
  BY DEF Promises, ListedWalkUps
<1>5. CASE CallAnswered(r)
  <2>1. told[r.act] = "waiting" /\ r.by = "call"
    BY <1>5 DEF CallAnswered, Promises, AnswersAreAwaited
  <2>2. PICK word \in {"done", "refused"} :
            /\ told' = [told EXCEPT ![r.act] = word]
            /\ word = "done" => r.at = "ok"
    BY <1>5 DEF CallAnswered
  <2>3. UNCHANGED <<table, flush>>
    BY <1>5 DEF CallAnswered
  <2>4. table' = {c \in Acts : told'[c] = "queued"}
    BY <1>1, <2>1, <2>2, <2>3 DEF Promises, TableIsWhatIsQueued, TypeOK
  <2>5. \A q \in net' : q.by = "call" => q.act # r.act
    BY <1>2, <2>1 DEF Promises, OneAnswerAtATime
  <2>6. /\ flush'.todo \subseteq table'
        /\ \A q \in net' : q.by = "flush" => q.act \in flush'.todo
    BY <1>2, <2>3 DEF Promises, AnswersAreAwaited
  <2>7. \A q \in net' :
            /\ \E p \in net : q.act = p.act
            /\ q.by = "call" => q \in net /\ q.act # r.act
            /\ q.by = "flush" => q.act \in flush'.todo
            /\ IsWalkUp(q.act) /\ q.at = "ok" => q \in net
    BY <1>2, <2>5, <2>6
  <2>8. QED
    BY <1>1, <1>2, <1>3, <1>4, <2>1, <2>2, <2>4, <2>6, <2>7, ToldKeepsPromises
<1>6. CASE FlushAnswered(r)
  <2>1. r.by = "flush" /\ told[r.act] = "queued"
    BY <1>6 DEF FlushAnswered, Promises, AnswersAreAwaited, TableIsWhatIsQueued
  <2>2. flush'.todo = flush.todo \ {r.act}
    BY <1>6 DEF FlushAnswered, TypeOK
  <2>3. \A q \in net' : q.by # "flush"
    BY <1>2, <2>1 DEF Promises, OneAnswerAtATime
  <2>4. \A q \in net : q.by = "call" => q.act # r.act
    BY <2>1 DEF Promises, AnswersAreAwaited
  <2>5. CASE UNCHANGED <<told, table>>
    BY <1>2, <1>3, <2>2, <2>3, <2>5 DEF Promises, OnlyWhatWasDone,
       TableIsWhatIsQueued, OnePendingMarkPerSeat, Pending, IsMark, IsWalkUp,
       AnswersAreAwaited, ListedWalkUps
  <2>6. CASE Drop(r.act) /\ ~UNCHANGED <<told, table>>
    <3>1. PICK word \in {"done", "refused"} :
              /\ told' = [told EXCEPT ![r.act] = word]
              /\ word = "done" => r.at = "ok"
      BY <1>6, <2>6 DEF FlushAnswered, MarkAnswered, WalkUpAnswered
    <3>2. table' = table \ {r.act}
      BY <1>1, <2>1, <2>6, RowsApart DEF Drop, SameRow
    <3>3. table' = {c \in Acts : told'[c] = "queued"}
      BY <1>1, <3>1, <3>2 DEF Promises, TableIsWhatIsQueued, TypeOK
    <3>4. flush'.todo \subseteq table'
      BY <2>2, <3>2 DEF Promises, AnswersAreAwaited
    <3>5. QED
      BY <1>1, <1>2, <1>3, <1>4, <2>1, <2>3, <2>4, <3>1, <3>3, <3>4, ToldKeepsPromises
  <2>7. QED
    BY <1>6, <2>5, <2>6 DEF FlushAnswered, MarkAnswered, WalkUpAnswered
<1>7. QED
  BY <1>5, <1>6

\* A request that timed out keeps the promises: the act is queued, or was
\* and stays so.
LEMMA TimeoutKeepsPromises ==
    ASSUME TypeOK, Promises, NEW r \in net, Timeout(r)
    PROVE  Promises'
<1>1. r.act \in Acts
  BY DEF TypeOK, Requests
<1>2. /\ UNCHANGED <<act, listed>>
      /\ \A q \in net' :
             /\ (q \in net /\ q # r) \/ (q.by = "nobody" /\ q.at # "ok")
             /\ \E p \in net : q.act = p.act
  BY RequestFields DEF Timeout, server
<1>3. OneAnswerAtATime'
  BY <1>2 DEF Promises, OneAnswerAtATime
<1>4. CASE r.by = "call"
  <2>1. told[r.act] = "waiting"
    BY <1>4 DEF Promises, AnswersAreAwaited
  <2>2. told' = [told EXCEPT ![r.act] = "queued"] /\ Enqueue(r.act) /\ UNCHANGED flush
    BY <1>4 DEF Timeout
  <2>3. table' = table \cup {r.act}
    BY <1>1, <2>1, <2>2, RowsApart DEF Enqueue
  <2>4. table' = {c \in Acts : told'[c] = "queued"}
    BY <1>1, <2>2, <2>3 DEF Promises, TableIsWhatIsQueued, TypeOK
  <2>5. \A q \in net' : q.by = "call" => q.act # r.act
    BY <1>2, <1>4 DEF Promises, OneAnswerAtATime
  <2>6. /\ flush'.todo \subseteq table'
        /\ \A q \in net' : q.by = "flush" => q.act \in flush'.todo
    BY <1>2, <2>2, <2>3 DEF Promises, AnswersAreAwaited
  <2>7. \A q \in net' :
            /\ \E p \in net : q.act = p.act
            /\ q.by = "call" => q \in net /\ q.act # r.act
            /\ q.by = "flush" => q.act \in flush'.todo
            /\ IsWalkUp(q.act) /\ q.at = "ok" => q \in net
    BY <1>2, <2>5, <2>6
  <2>8. QED
    BY <1>1, <1>2, <1>3, <2>1, <2>2, <2>4, <2>6, <2>7, ToldKeepsPromises
<1>5. CASE r.by # "call"
  <2>1. r.by = "flush" /\ flush' = Idle /\ UNCHANGED <<table, told>>
    BY <1>5 DEF Timeout
  <2>2. \A q \in net' : q.by # "flush"
    BY <1>2, <2>1 DEF Promises, OneAnswerAtATime
  <2>3. QED
    BY <1>2, <1>3, <2>1, <2>2 DEF Promises, OnlyWhatWasDone, TableIsWhatIsQueued,
       OnePendingMarkPerSeat, Pending, IsMark, IsWalkUp, AnswersAreAwaited,
       ListedWalkUps, Idle
<1>6. QED
  BY <1>4, <1>5

\* flush going on by itself, the connection coming back and the app dying
\* keep the promises: the table on the phone is not touched.
LEMMA QuietStepsKeepPromises ==
    ASSUME TypeOK, Promises,
           (\E a \in Acts : FlushSend(a)) \/ FlushWalkUps \/ FlushDone \/ Connect \/ Kill
    PROVE  Promises'
<1> USE DEF Promises, OnlyWhatWasDone, TableIsWhatIsQueued, OnePendingMarkPerSeat,
            Pending, IsMark, IsWalkUp, AnswersAreAwaited, OneAnswerAtATime,
            ListedWalkUps, server
<1>1. ASSUME NEW a \in Acts, FlushSend(a)  PROVE Promises'
  <2>1. act[a] # NoAct
    BY <1>1 DEF FlushSend, FlushHead
  <2>2. QED
    BY <1>1, <2>1 DEF FlushSend, FlushHead, phone
<1>2. CASE FlushWalkUps
  BY <1>2 DEF FlushWalkUps
<1>3. CASE FlushDone
  BY <1>3 DEF FlushDone, Idle
<1>4. CASE Connect
  <2>1. UNCHANGED <<act, told, table, net, listed>>
    BY <1>4 DEF Connect
  <2>2. CASE flush = Idle
    BY <1>4, <2>1, <2>2 DEF Connect, BeginFlush, Idle
  <2>3. CASE flush' = flush
    BY <2>1, <2>3
  <2>4. QED
    BY <1>4, <2>2, <2>3 DEF Connect
<1>5. CASE Kill
  <2>1. /\ UNCHANGED <<act, table, listed>> /\ flush'.todo = {}
        /\ \A q \in net' : q.by = "nobody" /\ (\E r \in net : q.act = r.act)
                           /\ (q.at = "ok" => q \in net)
    BY <1>5, RequestFields DEF Kill, Idle
  <2>2. \A a \in Acts : \/ told'[a] = told[a]
                        \/ told[a] = "waiting" /\ told'[a] = "nothing"
    BY <1>5 DEF Kill
  <2>3. QED
    BY <2>1, <2>2 DEF TypeOK
<1>6. QED
  BY <1>1, <1>2, <1>3, <1>4, <1>5

\* Nothing is queued, sent or listed when the screen opens.
LEMMA InitPromises == Init => Promises
BY QueueAssumption DEF Init, Promises, OnlyWhatWasDone, TableIsWhatIsQueued,
   OnePendingMarkPerSeat, Pending, IsMark, AnswersAreAwaited, OneAnswerAtATime,
   ListedWalkUps, IsWalkUp, NoAct, Idle

\* Every step keeps the promises.
LEMMA StepKeepsPromises == TypeOK /\ Promises /\ [Next]_vars => Promises'
<1> SUFFICES ASSUME TypeOK, Promises, [Next]_vars  PROVE Promises'
  OBVIOUS
<1>1. CASE UNCHANGED vars
  BY <1>1 DEF vars, Promises, OnlyWhatWasDone, TableIsWhatIsQueued,
     OnePendingMarkPerSeat, Pending, IsMark, AnswersAreAwaited, OneAnswerAtATime,
     ListedWalkUps, IsWalkUp
<1>2. CASE Dispatcher
  BY <1>2, DispatcherKeepsPromises, WorldKeepsPromises
<1>3. CASE FlushGoesOn \/ CallGoesOn
  BY <1>3, AnswersKeepPromises, TimeoutKeepsPromises, QuietStepsKeepPromises
     DEF FlushGoesOn, CallGoesOn
<1>4. CASE Disconnect \/ Connect \/ Kill
  BY <1>4, WorldKeepsPromises, QuietStepsKeepPromises
<1>5. CASE \/ \E r \in net : Serve(r)
           \/ \E b \in Seats : Released(b) \/ PassengerCancels(b)
           \/ DoorCloses
  BY <1>5, WorldKeepsPromises
<1>6. QED
  BY <1>1, <1>2, <1>3, <1>4, <1>5 DEF Next

\* The inductive invariant: the queue on the phone is exactly what the
\* Dispatcher was told is queued, with one mark at most for each seat, every
\* answer is awaited, and every walk-up is listed at most once.
THEOREM QueueInvariant == Spec => []QueueInv
<1>1. Init => TypeOK /\ Promises
  BY InitTypes, InitPromises
<1>2. TypeOK /\ Promises /\ [Next]_vars => TypeOK' /\ Promises'
  BY StepTypes, StepKeepsPromises
<1>3. TypeOK /\ Promises => QueueInv
  BY DEF QueueInv, Promises
<1>4. QED
  BY <1>1, <1>2, <1>3, PTL DEF Spec

\* A mark the Dispatcher was told is saved on the phone is in the queue until
\* the server answered it, whatever flush drops meanwhile.
THEOREM MarksAreKept == Spec => []QueuedWordKept
<1>1. QueueInv => QueuedWordKept
  BY DEF QueueInv, TableIsWhatIsQueued, QueuedWordKept
<1>2. QED
  BY <1>1, QueueInvariant, PTL

\* The server lists a walk-up once, however often the phone sends it.
THEOREM WalkUpsListedOnce == Spec => []WalkUpListedOnce
<1>1. QueueInv => WalkUpListedOnce
  BY DEF QueueInv, ListedWalkUps, WalkUpListedOnce
<1>2. QED
  BY <1>1, QueueInvariant, PTL

\* A walk-up whose cash was taken is on the phone or on the server's list.
THEOREM WalkUpsNotLost == Spec => []WalkUpNotLost
<1>1. QueueInv => WalkUpNotLost
  BY DEF QueueInv, TableIsWhatIsQueued, ListedWalkUps, WalkUpNotLost
<1>2. QED
  BY <1>1, QueueInvariant, PTL
-----------------------------------------------------------------------------
(***************************************************************************)
(* No replay undoes a later word.                                          *)
(***************************************************************************)
\* Acts are made in the order of their numbers.
InOrder == \A a, c \in Acts : act[a] = NoAct /\ c > a => act[c] = NoAct

\* A mark that is being sent or queued is the last word on its seat: nothing
\* is said of the seat before the server answered.
PendingIsLatest == \A a \in Acts : Pending(a) => LatestWord(a)

\* A new mark comes after all acts, and no other is pending on its seat.
LEMMA SubmitIsLatest ==
    ASSUME TypeOK, InOrder, PendingIsLatest, NEW a \in Acts,
           NEW what \in {WalkUp} \cup [on : Seats, word : Words],
           what.word \in Words => ~\E c \in Acts : Pending(c) /\ act[c].on = what.on,
           Submit(a, what)
    PROVE  InOrder' /\ PendingIsLatest'
<1>1. /\ act[a] = NoAct /\ \A c \in Acts : c < a => act[c] # NoAct
      /\ act'[a] = what /\ \A c \in Acts : c # a => act'[c] = act[c] /\ told'[c] = told[c]
  BY DEF Submit, TypeOK
<1>2. what # NoAct
  BY QueueAssumption DEF NoAct, WalkUp
<1>3. InOrder'
  BY <1>1, <1>2 DEF InOrder
<1>4. ASSUME NEW c \in Acts, Pending(c)', NEW d \in Acts, d > c, act'[d].on = act'[c].on
      PROVE  FALSE
  <2>1. MaxActs \in Nat /\ a \in Nat /\ c \in Nat /\ d \in Nat
    BY QueueAssumption
  <2>2. act'[c].word \in Words
    BY <1>4 DEF Pending, IsMark
  <2>3. CASE c = a
    <3>1. act'[d] = NoAct
      BY <1>1, <1>4, <2>1, <2>3 DEF InOrder
    <3>2. what \in [on : Seats, word : Words]
      BY <1>1, <2>2, <2>3, QueueAssumption DEF WalkUp
    <3> QED BY <1>1, <1>4, <2>3, <3>1, <3>2, QueueAssumption DEF NoAct
  <2>4. CASE c # a
    <3>1. Pending(c) /\ act'[c] = act[c] /\ act[c].on \in Seats
      BY <1>1, <1>4, <2>4, WordsApart DEF Pending, IsMark
    <3>2. d = a
      BY <1>1, <1>4, <3>1 DEF PendingIsLatest, LatestWord
    <3>3. what.on = act[c].on /\ what \in [on : Seats, word : Words]
      BY <1>1, <1>4, <3>1, <3>2, QueueAssumption DEF WalkUp
    <3> QED BY <3>1, <3>3
  <2> QED BY <2>3, <2>4
<1> QED BY <1>3, <1>4 DEF PendingIsLatest, LatestWord

\* No other step makes an act, or a mark pending that was not.
LEMMA NothingNewIsPending ==
    ASSUME act' = act, InOrder, PendingIsLatest,
           \A a \in Acts : told'[a] \in {"waiting", "queued"} => told[a] \in {"waiting", "queued"}
    PROVE  InOrder' /\ PendingIsLatest'
<1>1. \A a \in Acts : Pending(a)' => Pending(a)
  BY DEF Pending, IsMark
<1> QED BY <1>1 DEF InOrder, PendingIsLatest, LatestWord

LEMMA StepIsOrdered ==
    TypeOK /\ Promises /\ InOrder /\ PendingIsLatest /\ [Next]_vars => InOrder' /\ PendingIsLatest'
<1> SUFFICES ASSUME TypeOK, Promises, InOrder, PendingIsLatest, [Next]_vars
             PROVE  InOrder' /\ PendingIsLatest'
  OBVIOUS
<1>1. CASE UNCHANGED <<act, told>>
  BY <1>1, NothingNewIsPending
<1>2. ASSUME NEW r \in net, CallAnswered(r) \/ FlushAnswered(r) \/ Timeout(r)
      PROVE  InOrder' /\ PendingIsLatest'
  <2>1. r.act \in Acts /\ (r.by = "call" => told[r.act] = "waiting")
    BY DEF TypeOK, Requests, Promises, AnswersAreAwaited
  <2>2. act' = act
    BY <1>2 DEF CallAnswered, FlushAnswered, Timeout
  <2>3. \/ told' = told
        \/ told' = [told EXCEPT ![r.act] = "done"] \/ told' = [told EXCEPT ![r.act] = "refused"]
        \/ told' = [told EXCEPT ![r.act] = "queued"] /\ r.by = "call"
    BY <1>2 DEF CallAnswered, FlushAnswered, MarkAnswered, WalkUpAnswered, Timeout
  <2>4. \A a \in Acts : told'[a] \in {"waiting", "queued"} => told[a] \in {"waiting", "queued"}
    BY <2>1, <2>3 DEF TypeOK
  <2> QED BY <2>2, <2>4, NothingNewIsPending
<1>3. CASE Kill
  BY <1>3, NothingNewIsPending DEF Kill
<1>4. ASSUME NEW a \in Acts, NEW b \in Seats, NEW word \in Words, MarkSeat(a, b, word)
      PROVE  InOrder' /\ PendingIsLatest'
  <2>1. ~\E c \in Acts : Pending(c) /\ act[c].on = b
    BY <1>4 DEF MarkSeat, HasButtons, Acting, Pending, Promises, TableIsWhatIsQueued
  <2> QED BY <1>4, <2>1, SubmitIsLatest DEF MarkSeat
<1>5. ASSUME NEW a \in Acts, ListWalkUp(a) PROVE InOrder' /\ PendingIsLatest'
  BY <1>5, SubmitIsLatest, QueueAssumption DEF ListWalkUp, WalkUp
<1>6. CASE \/ Refresh \/ SyncNow \/ FlushWalkUps \/ FlushDone \/ Disconnect \/ Connect
           \/ DoorCloses \/ \E a \in Acts : FlushSend(a)
           \/ \E b \in Seats : Released(b) \/ PassengerCancels(b)
           \/ \E r \in net : Serve(r)
  BY <1>1, <1>6 DEF Refresh, SyncNow, FlushWalkUps, FlushDone, Disconnect, Connect, DoorCloses,
     FlushSend, Released, PassengerCancels, Serve, ServePaid, ServeCancel, LookUp,
     ReserveWalkUp, Busy, phone
<1>7. CASE UNCHANGED vars
  BY <1>1, <1>7 DEF vars
<1> QED BY <1>2, <1>3, <1>4, <1>5, <1>6, <1>7 DEF Next, Dispatcher, FlushGoesOn, CallGoesOn

\* Only the server, on the word of a mark, takes a paid seat off the list: a
\* mark somebody waits for is pending, and so the last word on its seat.
LEMMA CancelIsLatest ==
    ASSUME TypeOK, Promises, PendingIsLatest, [Next]_vars, NEW b \in Seats,
           seat[b] = "paid", seat'[b] # "paid",
           \A r \in net : r.by = "nobody" => r \in net'
    PROVE  \E a \in Acts : act[a].on = b /\ LatestWord(a) /\ act[a].word # "paid"
<1>1. PICK r \in net : ServeCancel(r) /\ act[r.act].on = b
  <2>1. ASSUME NEW r \in net, ServePaid(r) PROVE seat' = seat \/ seat'[b] = "paid"
    BY <2>1 DEF ServePaid, TypeOK
  <2>2. ASSUME NEW r \in net, ServeCancel(r) PROVE seat' = seat \/ act[r.act].on = b
    BY <2>2 DEF ServeCancel, TypeOK
  <2>3. ASSUME NEW c \in Seats, Released(c) \/ PassengerCancels(c) PROVE seat'[b] = seat[b]
    BY <2>3 DEF Released, PassengerCancels, TypeOK
  <2>4. CASE UNCHANGED vars
    BY <2>4 DEF vars
  <2>5. CASE \/ Dispatcher \/ FlushGoesOn \/ CallGoesOn \/ Disconnect \/ Connect \/ Kill
             \/ DoorCloses \/ \E r \in net : LookUp(r) \/ ReserveWalkUp(r) \/ Busy(r)
    BY <2>5 DEF Dispatcher, MarkSeat, ListWalkUp, Submit, Refresh, SyncNow,
       FlushGoesOn, FlushSend, FlushAnswered, FlushWalkUps, FlushDone, CallGoesOn, CallAnswered,
       Timeout, Disconnect, Connect, Kill, DoorCloses, LookUp, ReserveWalkUp, Busy, server
  <2> QED BY <2>1, <2>2, <2>3, <2>4, <2>5 DEF Next, Serve
<1>2. r.act \in Acts /\ r.by \in {"call", "flush", "nobody"} /\ r.at = "sent"
      /\ act[r.act].word \in {"asked", "forgot"}
  BY <1>1 DEF TypeOK, Requests, ServeCancel, Arrives
<1>3. r.by # "nobody"
  BY <1>1, <1>2 DEF ServeCancel, Answer
<1>4. told[r.act] \in {"waiting", "queued"}
  BY <1>2, <1>3 DEF Promises, AnswersAreAwaited, TableIsWhatIsQueued
<1>5. IsMark(r.act)
  <2>1. act[r.act] \in {NoAct, WalkUp} \cup [on : Seats, word : Words]
    BY <1>2 DEF TypeOK
  <2>2. act[r.act] # NoAct /\ act[r.act] # WalkUp
    BY <1>2 DEF NoAct, WalkUp
  <2>3. act[r.act] \in [on : Seats, word : Words]
    BY <2>1, <2>2
  <2> QED BY <2>3 DEF IsMark
<1> QED BY <1>1, <1>2, <1>4, <1>5 DEF PendingIsLatest, Pending

\* A paid seat is cancelled only if the Dispatcher's latest word on it is to
\* cancel it: the phone queues no word behind another, so what it replays is
\* the last it was told.
THEOREM LastWordCounts == Spec => LatestWordStands
<1>1. Init => InOrder /\ PendingIsLatest
  BY DEF Init, InOrder, PendingIsLatest, Pending
<1>2. Init => TypeOK /\ Promises
  BY InitTypes, InitPromises
<1>3. TypeOK /\ Promises /\ [Next]_vars => TypeOK' /\ Promises'
  BY StepTypes, StepKeepsPromises
<1>4. TypeOK /\ Promises /\ PendingIsLatest /\ [Next]_vars =>
         [\A b \in Seats :
             /\ seat[b] = "paid" /\ seat'[b] # "paid"
             /\ \A r \in net : r.by = "nobody" => r \in net'
             => \E a \in Acts : act[a].on = b /\ LatestWord(a) /\ act[a].word # "paid"]_vars
  BY CancelIsLatest
<1> QED BY <1>1, <1>2, <1>3, <1>4, StepIsOrdered, PTL DEF Spec, LatestWordStands
=============================================================================
