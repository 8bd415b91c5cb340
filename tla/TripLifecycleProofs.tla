-------------------------- MODULE TripLifecycleProofs --------------------------
(***************************************************************************)
(* Proofs about TripLifecycle, for any number of trips, vans and sessions. *)
(* What a handler looked up stays true up to its commit because it holds   *)
(* its trip, and because a van given meanwhile to any other trip is noted; *)
(* the ways around both are those that the properties name.                *)
(***************************************************************************)
EXTENDS TripLifecycle, TLAPS

\* A handler under way has a trip, held by one handler that looked for a
\* clash; a start has it as it was looked at.
Held ==
    /\ \A s \in Sessions : session[s].step # "idle" => session[s].trip \in Trips
    /\ \A s, q \in Sessions :
          /\ session[s].step \in Looked /\ session[q].step \in Looked
          /\ session[s].trip = session[q].trip
          => s = q
    /\ \A s \in Sessions :
          session[s].step = "start" => trip[session[s].trip].status = "scheduled"

\* A rental is never a van's to be given by detection.
RoutesOnly ==
    \A s \in Sessions : session[s].step = "detect" => session[s].trip \notin Rentals

\* The van a handler is about to give is still free for its trip, or a van
\* was given elsewhere since.
StillClear ==
    \A s \in Sessions :
        session[s].step \in Looked /\ session[s].clear =>
            LET t == session[s].trip
                v == session[s].van
            IN v = trip[t].van \/ ~Clashes(t, v)

\* A trip that does not exist yet has nothing, and nobody works on it.
Unborn ==
    /\ \A t \in Trips : trip[t].status = "none" => trip[t] = NoTrip
    /\ \A s \in Sessions :
          session[s].step \in Looked => trip[session[s].trip].status # "none"

\* A request that was not approved has no trip.
Unapproved ==
    \A r \in Rentals :
        request[r].status \in {"none", "requested"} => trip[r].status = "none"

Kept == Held /\ RoutesOnly /\ StillClear /\ Unborn

IInv == TypeOK /\ Kept /\ Unapproved /\ RentalFollowsTrip

-----------------------------------------------------------------------------
USE TripsAssumption DEF STARTED, BEFORE_DEPARTURE, Looked

TripType == [status : {"none", "scheduled", "cancelled"} \cup STARTED,
             van    : Vans \cup {None},
             review : {"not_required", "pending", "reviewed"}]

Steps == {"idle", "assign", "start", "change", "review", "cash", "detect", "fall_back", "leave"}

SessionType == [step   : Steps,
                trip   : Trips \cup {None},
                van    : Vans \cup {None},
                clear  : BOOLEAN]

RequestType == [status : {"none", "requested", "approved", "rejected", "cancelled", "completed"},
                paid   : BOOLEAN]

LEMMA Typed ==
    TypeOK <=> /\ trip \in [Trips -> TripType]
               /\ request \in [Rentals -> RequestType]
               /\ moving \subseteq Vans /\ gone \subseteq Trips
               /\ session \in [Sessions -> SessionType]
  BY DEF TypeOK, TripType, RequestType, SessionType, Steps

LEMMA IdleType == Idle \in SessionType /\ Idle.step = "idle"
  BY DEF Idle, SessionType, Steps

LEMMA EndTyped ==
    ASSUME session \in [Sessions -> SessionType], NEW s \in Sessions, End(s)
    PROVE  session' \in [Sessions -> SessionType]
  BY IdleType DEF End

LEMMA BeginTyped ==
    ASSUME TypeOK, NEW s \in Sessions, NEW step \in Steps, NEW t \in Trips,
           NEW v \in Vans \cup {None}, Begin(s, step, t, v)
    PROVE  TypeOK'
  BY Typed DEF Begin, TypeOK, Steps

\* One row of trips is written.
LEMMA TripWritten ==
    ASSUME trip \in [Trips -> TripType], NEW t, NEW r \in TripType,
           trip' = [trip EXCEPT ![t] = r]
    PROVE  /\ trip' \in [Trips -> TripType]
           /\ t \in Trips => trip'[t] = r
           /\ \A u \in Trips : u # t => trip'[u] = trip[u]
  OBVIOUS

LEMMA RentalClosed ==
    ASSUME request \in [Rentals -> RequestType], NEW t,
           NEW status \in {"cancelled", "completed"}, CloseRental(t, status)
    PROVE  /\ request' \in [Rentals -> RequestType]
           /\ \A r \in Rentals : r # t \/ request[r].status # "approved"
                                 => request'[r] = request[r]
           /\ \A r \in Rentals : r = t /\ request[r].status = "approved"
                                 => request'[r].status = status
<1>1. \A r \in Rentals : [request[r] EXCEPT !.status = status] \in RequestType
  BY DEF RequestType
<1>2. \A r \in Rentals : [request[r] EXCEPT !.status = status].status = status
  BY DEF RequestType
<1> QED
  BY <1>1, <1>2 DEF CloseRental

-----------------------------------------------------------------------------
\* The four ways a step can move what handlers rely on.

\* A handler begins with what it looked at.
LEMMA Begins ==
    ASSUME TypeOK, Kept, NEW s \in Sessions, NEW step \in Steps \ {"idle"}, NEW t \in Trips,
           NEW v \in Vans \cup {None}, Begin(s, step, t, v),
           step = "detect" => t \notin Rentals,
           step \in Looked =>
              /\ ~Taken(s, t) /\ trip[t].status # "none"
              /\ v = trip[t].van \/ ~Clashes(t, v),
           step = "start" => trip[t].status = "scheduled"
    PROVE  Kept'
<1> DEFINE r == [step |-> step, trip |-> t, van |-> v, clear |-> TRUE]
<1>1. \A q \in Sessions : session'[q] = IF q = s THEN r ELSE session[q]
  BY Typed DEF Begin
<1>2. r.step = step /\ r.trip = t /\ r.van = v /\ r.clear
  OBVIOUS
<1>3. trip' = trip /\ request' = request
  BY DEF Begin
<1> HIDE DEF r
<1>4. Held' BY <1>1, <1>2, <1>3 DEF Kept, Held, Taken
<1>5. RoutesOnly' BY <1>1, <1>2 DEF Kept, RoutesOnly
<1>6. StillClear'
  BY <1>1, <1>2, <1>3 DEF Kept, StillClear, Clashes, Occupies
<1>7. Unborn' BY <1>1, <1>2, <1>3 DEF Kept, Unborn
<1> QED BY <1>4, <1>5, <1>6, <1>7 DEF Kept

\* The status of a trip nobody else holds changes, and a handler may end.
StatusStep(t) ==
    /\ \A u \in Trips : u # t => trip'[u] = trip[u]
    /\ t \in Trips =>
          /\ trip'[t].van = trip[t].van
          /\ trip'[t].status # "none" \/ trip'[t] = trip[t]
          /\ trip'[t].status \in {"none", "cancelled", "completed"}
             \/ Occupies(t) \/ trip[t].status = "none"
    /\ \A q \in Sessions :
          \/ session'[q] = session[q]
          \/ /\ session'[q].step \notin Looked \cup {"detect"}
             /\ session'[q].step # "idle" => session'[q].trip \in Trips
    /\ \A q \in Sessions :
          session[q].step \in Looked /\ session[q].trip = t /\ session'[q] = session[q]
          => trip' = trip

LEMMA StatusMoves ==
    ASSUME TypeOK, TypeOK', Kept, NEW t,
           StatusStep(t)
    PROVE  Kept'
<1> USE DEF Kept, StatusStep
<1>1. Held' BY DEF Held
<1>2. RoutesOnly' BY DEF RoutesOnly
<1>3. \A u \in Trips, v \in Vans \cup {None} : Clashes(u, v)' => Clashes(u, v)
  <2> SUFFICES ASSUME NEW u \in Trips, NEW v \in Vans \cup {None}, Clashes(u, v)'
               PROVE  Clashes(u, v)
    OBVIOUS
  <2>1. PICK w \in Trips \ {u} : v # None /\ trip'[w].van = v /\ Occupies(w)' /\ Overlap(u, w)
    BY DEF Clashes, Overlap
  <2>2. trip[w].van = v /\ (Occupies(w) \/ trip[w].status = "none")
    BY <2>1 DEF Occupies
  <2>3. trip[w].status # "none"
    BY <2>1, <2>2 DEF Unborn, NoTrip
  <2> QED
    BY <2>1, <2>2, <2>3 DEF Clashes
<1>4. StillClear'
  <2> SUFFICES ASSUME NEW q \in Sessions, session'[q].step \in Looked, session'[q].clear
               PROVE  \/ session'[q].van = trip'[session'[q].trip].van
                      \/ ~Clashes(session[q].trip, session[q].van)'
    BY DEF StillClear
  <2>1. session'[q] = session[q] /\ session[q].trip \in Trips
    BY DEF Held
  <2>2. session[q].van \in Vans \cup {None}
    BY Typed DEF SessionType
  <2>3. trip'[session[q].trip].van = trip[session[q].trip].van
    BY <2>1
  <2> QED
    BY <1>3, <2>1, <2>2, <2>3 DEF StillClear, Clashes, Overlap
<1>5. \A u \in Trips : trip'[u].status = "none" => trip'[u] = NoTrip
  BY DEF Unborn
<1>6. ASSUME NEW q \in Sessions, session'[q].step \in Looked
      PROVE  trip'[session'[q].trip].status # "none"
  BY <1>6 DEF Unborn, Held
<1> QED BY <1>1, <1>2, <1>4, <1>5, <1>6 DEF Unborn

\* Another van is given to a trip: whoever looked for a clash looked before.
VanStep(s, t) ==
    /\ \A u \in Trips : u # t => trip'[u] = trip[u]
    /\ trip'[t].status # "none"
    /\ session'[s].step \notin Looked \cup {"detect"}
    /\ session'[s].step # "idle" => session'[s].trip \in Trips
    /\ \A q \in Sessions \ {s} :
          /\ session'[q].step = session[q].step /\ session'[q].trip = session[q].trip
          /\ session[q].step \in Looked => ~session'[q].clear
    /\ ~Taken(s, t)

LEMMA VanMoves ==
    ASSUME TypeOK, Kept, NEW s \in Sessions, NEW t \in Trips,
           VanStep(s, t)
    PROVE  Kept'
<1> USE DEF Kept, VanStep
<1>1. \A q \in Sessions : session'[q].step \in Looked => q # s /\ session'[q].trip # t
  BY DEF Taken
<1>2. Held' BY <1>1 DEF Held
<1>3. RoutesOnly' BY DEF RoutesOnly
<1>4. StillClear' BY <1>1 DEF StillClear
<1>5. \A u \in Trips : trip'[u].status = "none" => trip'[u] = NoTrip
  BY DEF Unborn
<1>6. ASSUME NEW q \in Sessions, session'[q].step \in Looked
      PROVE  trip'[session'[q].trip].status # "none"
  BY <1>1, <1>6 DEF Unborn, Held
<1> QED BY <1>2, <1>3, <1>4, <1>5, <1>6 DEF Unborn

-----------------------------------------------------------------------------
\* Trips and rentals come and go.
LEMMA GenerateKeeps ==
    ASSUME IInv, NEW t \in Trips, Generate(t)
    PROVE  IInv'
<1>1. Scheduled \in TripType /\ Scheduled.status = "scheduled" /\ Scheduled.van = None
  BY DEF Scheduled, NoTrip, TripType
<1>2. /\ trip' \in [Trips -> TripType] /\ trip'[t] = Scheduled
      /\ \A u \in Trips : u # t => trip'[u] = trip[u]
  BY <1>1, Typed, TripWritten DEF IInv, Generate
<1>3. UNCHANGED <<request, moving, gone, session>> /\ t \notin Rentals
  BY DEF Generate
<1>4. TypeOK'
  BY <1>2, <1>3 DEF IInv, TypeOK, TripType
<1>5. trip[t].status = "none" /\ trip[t].van = None
  BY DEF Generate, IInv, Kept, Unborn, NoTrip
<1>6. \A q \in Sessions : session[q].step \in Looked => session[q].trip # t
  BY <1>5 DEF IInv, Kept, Unborn
<1>7. Kept'
  <2>1. StatusStep(t)
    BY <1>1, <1>2, <1>3, <1>4, <1>5, <1>6 DEF StatusStep
  <2> QED BY <1>4, <2>1, StatusMoves DEF IInv
<1>8. Unapproved' /\ RentalFollowsTrip'
  BY <1>2, <1>3 DEF IInv, Unapproved, RentalFollowsTrip, Occupies
<1> QED BY <1>4, <1>7, <1>8 DEF IInv

\* A request that is made, turned down or withdrawn has no trip.
LEMMA RequestKeeps ==
    ASSUME IInv, NEW r \in Rentals, Request(r) \/ Reject(r) \/ Withdraw(r)
    PROVE  IInv'
<1>1. PICK status \in {"requested", "rejected", "cancelled"} :
          /\ request' = [request EXCEPT ![r].status = status]
          /\ UNCHANGED <<trip, moving, gone, session>>
  BY DEF Request, Reject, Withdraw
<1>2. request[r].status \in {"none", "requested"}
  BY DEF Request, Reject, Withdraw
<1>3. [request[r] EXCEPT !.status = status] \in RequestType
  BY Typed DEF IInv, RequestType
<1>4. /\ request' \in [Rentals -> RequestType] /\ request'[r].status = status
      /\ \A q \in Rentals : q # r => request'[q] = request[q]
  BY <1>1, <1>3, Typed DEF IInv, RequestType
<1>5. TypeOK'
  BY <1>1, <1>4 DEF IInv, TypeOK, RequestType
<1>6. trip[r].status = "none"
  BY <1>2 DEF IInv, Unapproved
<1>7. Kept'
  BY <1>1 DEF IInv, Kept, Held, RoutesOnly, StillClear, Clashes, Occupies, Unborn
<1>8. Unapproved' /\ RentalFollowsTrip'
  BY <1>1, <1>4, <1>6 DEF IInv, Unapproved, RentalFollowsTrip, Occupies
<1> QED BY <1>5, <1>7, <1>8 DEF IInv

\* Approval makes the trip that the request had not.
LEMMA ApproveKeeps ==
    ASSUME IInv, NEW r \in Rentals, Approve(r) \/ WalkIn(r)
    PROVE  IInv'
<1>1. Scheduled \in TripType /\ Scheduled.status = "scheduled" /\ Scheduled.van = None
  BY DEF Scheduled, NoTrip, TripType
<1>2. /\ trip' \in [Trips -> TripType] /\ trip'[r] = Scheduled
      /\ \A u \in Trips : u # r => trip'[u] = trip[u]
  BY <1>1, Typed, TripWritten DEF IInv, Approve, WalkIn, Approves
<1>3. /\ UNCHANGED <<moving, gone, session>> /\ request[r].status \in {"none", "requested"}
      /\ request' = [request EXCEPT ![r].status = "approved"]
  BY DEF Approve, WalkIn, Approves
<1>4. [request[r] EXCEPT !.status = "approved"] \in RequestType
  BY Typed DEF IInv, RequestType
<1>5. /\ request' \in [Rentals -> RequestType] /\ request'[r].status = "approved"
      /\ \A q \in Rentals : q # r => request'[q] = request[q]
  BY <1>3, <1>4, Typed DEF IInv, RequestType
<1>6. TypeOK'
  BY <1>2, <1>3, <1>5 DEF IInv, TypeOK, TripType, RequestType
<1>7. trip[r].status = "none" /\ trip[r].van = None
  BY <1>3 DEF IInv, Kept, Unapproved, Unborn, NoTrip
<1>8. \A q \in Sessions : session[q].step \in Looked => session[q].trip # r
  BY <1>7 DEF IInv, Kept, Unborn
<1>9. Kept'
  <2>1. StatusStep(r)
    BY <1>1, <1>2, <1>3, <1>6, <1>7, <1>8 DEF StatusStep
  <2> QED BY <1>6, <2>1, StatusMoves DEF IInv
<1>10. Unapproved' /\ RentalFollowsTrip'
  BY <1>1, <1>2, <1>5 DEF IInv, Unapproved, RentalFollowsTrip, Occupies
<1> QED BY <1>6, <1>9, <1>10 DEF IInv

\* A trip ends or departs while nobody holds it, and its rental with it.
LEMMA TripKeeps ==
    ASSUME IInv, NEW t \in Trips, Void(t) \/ Depart(t) \/ Arrive(t)
    PROVE  IInv'
<1>1. PICK status \in {"cancelled", "departed", "completed"} :
          /\ trip' = [trip EXCEPT ![t].status = status]
          /\ IF status = "departed" THEN request' = request ELSE CloseRental(t, status)
  BY DEF Void, Depart, Arrive
<1>2. Free(t) /\ Occupies(t) /\ UNCHANGED <<moving, gone, session>>
  BY DEF Void, Depart, Arrive, Occupies
<1>3. trip[t] \in TripType
  BY Typed DEF IInv
<1>4. [trip[t] EXCEPT !.status = status] \in TripType
  BY <1>3 DEF TripType
<1>5. /\ trip' \in [Trips -> TripType]
      /\ trip'[t].status = status /\ trip'[t].van = trip[t].van
      /\ \A u \in Trips : u # t => trip'[u] = trip[u]
  BY <1>1, <1>3, <1>4, Typed DEF IInv, TripType
<1>6. request' \in [Rentals -> RequestType]
  BY <1>1, RentalClosed, Typed DEF IInv
<1>7. TypeOK'
  BY <1>2, <1>5, <1>6 DEF IInv, TypeOK, TripType, RequestType
<1>8. \A q \in Sessions : session[q].step \in Looked => session[q].trip # t
  BY <1>2 DEF Free, Taken
<1>9. Kept'
  <2>1. StatusStep(t)
    BY <1>2, <1>5, <1>7, <1>8 DEF StatusStep
  <2> QED BY <1>7, <2>1, StatusMoves DEF IInv
<1>10. Unapproved'
  <2>1. \A r \in Rentals : request'[r].status \in {"none", "requested"} => request'[r] = request[r]
    BY <1>1, RentalClosed, Typed DEF IInv
  <2> QED BY <1>2, <1>5, <2>1 DEF IInv, Unapproved, Occupies
<1>11. RentalFollowsTrip'
  <2> SUFFICES ASSUME NEW r \in Rentals
               PROVE  /\ request'[r].status = "approved" <=> Occupies(r)'
                      /\ request'[r].status = "completed" <=> trip'[r].status = "completed"
    BY DEF RentalFollowsTrip
  <2>1. /\ request[r].status = "approved" <=> Occupies(r)
        /\ request[r].status = "completed" <=> trip[r].status = "completed"
    BY DEF IInv, RentalFollowsTrip
  <2>2. CASE r # t
    BY <1>1, <1>5, <2>1, <2>2, RentalClosed, Typed DEF IInv, Occupies
  <2>3. CASE r = t /\ status = "departed"
    BY <1>1, <1>2, <1>5, <2>1, <2>3 DEF Occupies
  <2>4. CASE r = t /\ status # "departed"
    <3>1. request'[r].status = status
      BY <1>1, <1>2, <2>1, <2>4, RentalClosed, Typed DEF IInv
    <3> QED BY <1>5, <2>4, <3>1 DEF Occupies
  <2> QED BY <2>2, <2>3, <2>4
<1> QED BY <1>7, <1>9, <1>10, <1>11 DEF IInv

\* Moves, the road and the fee touch no trip.
LEMMA AsideKeeps ==
    ASSUME IInv, UNCHANGED <<trip, session>>,
           moving' \subseteq Vans, gone' \subseteq Trips, request' = request
    PROVE  IInv'
  BY DEF IInv, TypeOK, Kept, Held, RoutesOnly, StillClear, Clashes, Occupies, Unborn,
         Unapproved, RentalFollowsTrip

\* A handler begins: nothing but its session changes.
LEMMA BeginKeeps ==
    ASSUME IInv, NEW s \in Sessions, NEW step \in Steps, NEW t \in Trips,
           NEW v \in Vans \cup {None}, Begin(s, step, t, v), Kept'
    PROVE  IInv'
<1>1. TypeOK' BY BeginTyped DEF IInv
<1>2. Unapproved' /\ RentalFollowsTrip'
  BY DEF IInv, Begin, Unapproved, RentalFollowsTrip, Occupies
<1> QED BY <1>1, <1>2 DEF IInv

\* The office looked, the van is out, the fee is counted.
LEMMA OfficeKeeps ==
    ASSUME IInv, NEW s \in Sessions, NEW t \in Trips, Office(s, t)
    PROVE  IInv'
<1> USE DEF Steps
<1>0. trip[t].status = "none" => trip[t].review = "not_required"
  BY DEF IInv, Kept, Unborn, NoTrip
<1>1. ASSUME NEW v \in Vans \cup {None}, Assign(s, t, v) PROVE IInv'
  <2>1. Begin(s, "assign", t, v) /\ ~Taken(s, t) /\ trip[t].status # "none" /\ ~Clashes(t, v)
    BY <1>1 DEF Assign
  <2>2. Kept' BY <2>1, Begins DEF IInv
  <2> QED BY <2>1, <2>2, BeginKeeps
<1>2. ASSUME NEW v \in Vans \cup {None}, Start(s, t, v) PROVE IInv'
  <2>1. /\ Begin(s, "start", t, v) /\ ~Taken(s, t) /\ trip[t].status = "scheduled"
        /\ v = trip[t].van \/ ~Clashes(t, v)
    BY <1>2 DEF Start
  <2>2. Kept' BY <2>1, Begins DEF IInv
  <2> QED BY <2>1, <2>2, BeginKeeps
<1>3. ASSUME NEW v \in Vans \cup {None}, ChangeVan(s, t, v) PROVE IInv'
  <2>1. Begin(s, "change", t, v) /\ ~Taken(s, t) /\ trip[t].status # "none" /\ ~Clashes(t, v)
    BY <1>3 DEF ChangeVan
  <2>2. Kept' BY <2>1, Begins DEF IInv
  <2> QED BY <2>1, <2>2, BeginKeeps
<1>4. ASSUME NEW v \in Vans \cup {None}, ReviewStart(s, t, v) PROVE IInv'
  <2>1. /\ Begin(s, "review", t, v) /\ ~Taken(s, t) /\ trip[t].status # "none"
        /\ v = trip[t].van \/ ~Clashes(t, v)
    BY <1>0, <1>4 DEF ReviewStart
  <2>2. Kept' BY <2>1, Begins DEF IInv
  <2> QED BY <2>1, <2>2, BeginKeeps
<1>5. CASE VanLeftOrigin(s, t)
  <2>1. Begin(s, "fall_back", t, None) \/ Begin(s, "leave", t, None)
    BY <1>5 DEF VanLeftOrigin
  <2>2. CASE Begin(s, "fall_back", t, None)
    <3>1. Kept' BY <2>2, Begins DEF IInv
    <3> QED BY <2>2, <3>1, BeginKeeps
  <2>3. CASE Begin(s, "leave", t, None)
    <3>1. Kept' BY <2>3, Begins DEF IInv
    <3> QED BY <2>3, <3>1, BeginKeeps
  <2> QED BY <2>1, <2>2, <2>3
<1>6. ASSUME NEW v \in Vans, Detect(s, t, v) PROVE IInv'
  <2>1. Begin(s, "detect", t, v) /\ t \notin Rentals BY <1>6 DEF Detect
  <2>2. Kept' BY <2>1, Begins DEF IInv
  <2> QED BY <2>1, <2>2, BeginKeeps
<1> QED BY <1>1, <1>2, <1>3, <1>4, <1>5, <1>6 DEF Office

LEMMA LogCashKeeps ==
    ASSUME IInv, NEW s \in Sessions, NEW r \in Rentals, LogCash(s, r)
    PROVE  IInv'
<1>1. Begin(s, "cash", r, None) /\ r \in Trips
  BY DEF LogCash
<1>2. Kept' BY <1>1, Begins DEF IInv, Steps
<1> QED BY <1>1, <1>2, BeginKeeps DEF Steps

LEMMA CommitCashKeeps ==
    ASSUME IInv, NEW s \in Sessions, CommitCash(s)
    PROVE  IInv'
<1>1. UNCHANGED <<trip, moving, gone>> /\ End(s)
  BY DEF CommitCash
<1>2. /\ session' \in [Sessions -> SessionType] /\ session'[s].step = "idle"
      /\ \A q \in Sessions : q # s => session'[q] = session[q]
  BY <1>1, IdleType, EndTyped, Typed DEF IInv, End
<1>3. \A r \in Rentals : [request[r] EXCEPT !.paid = TRUE] \in RequestType
  BY Typed DEF IInv, RequestType
<1>4. /\ request' \in [Rentals -> RequestType]
      /\ \A r \in Rentals : request'[r].status = request[r].status
  BY <1>3, Typed DEF IInv, CommitCash, RequestType
<1>5. TypeOK'
  BY <1>1, <1>2, <1>4, Typed DEF IInv, TypeOK, RequestType, SessionType, Steps
<1>6. StatusStep(None)
  BY <1>1, <1>2 DEF StatusStep
<1>7. Kept' BY <1>5, <1>6, StatusMoves DEF IInv
<1>8. Unapproved' /\ RentalFollowsTrip'
  BY <1>1, <1>4 DEF IInv, Unapproved, RentalFollowsTrip, Occupies
<1> QED BY <1>5, <1>7, <1>8 DEF IInv

\* A van's leaving and the system's start write the status alone.
LEMMA RoadKeeps ==
    ASSUME IInv, NEW s \in Sessions, FallBackStart(s) \/ FallBackRefused(s) \/ GpsDepart(s)
    PROVE  IInv'
<1> DEFINE t == session[s].trip
<1>1. session[s].step \in {"fall_back", "leave"} /\ ~Taken(s, t) /\ t \in Trips
  BY DEF FallBackStart, FallBackRefused, GpsDepart, IInv, Kept, Held
<1>2. trip[t] \in TripType
  BY <1>1, Typed DEF IInv
<1>3. /\ trip' \in [Trips -> TripType] /\ trip'[t].van = trip[t].van
      /\ trip' = trip \/ /\ trip[t].status \in BEFORE_DEPARTURE
                         /\ trip'[t].status \in {"boarding", "departed"}
      /\ \A u \in Trips : u # t => trip'[u] = trip[u]
  <2> DEFINE m == [trip[t] EXCEPT !.status = "boarding", !.review = "pending"]
             d == [trip[t] EXCEPT !.status = "departed"]
  <2>1. /\ m \in TripType /\ m.status = "boarding" /\ m.van = trip[t].van
        /\ d \in TripType /\ d.status = "departed" /\ d.van = trip[t].van
    BY <1>2 DEF TripType
  <2>2. \/ trip' = trip
        \/ trip' = [trip EXCEPT ![t] = m] /\ trip[t].status = "scheduled"
        \/ trip' = [trip EXCEPT ![t] = d] /\ trip[t].status = "boarding"
    BY <1>1 DEF FallBackStart, FallBackRefused, GpsDepart
  <2> HIDE DEF m, d
  <2> QED BY <1>1, <2>1, <2>2, Typed DEF IInv
<1>4. /\ session' \in [Sessions -> SessionType]
      /\ session'[s].step \in {"idle", "leave"}
      /\ session'[s].step # "idle" => session'[s].trip = t
      /\ \A q \in Sessions : q # s => session'[q] = session[q]
  <2>1. CASE End(s)
    BY <2>1, EndTyped, IdleType, Typed DEF IInv, End
  <2>2. CASE session' = [session EXCEPT ![s].step = "leave"]
    BY <2>2, Typed DEF IInv, SessionType, Steps
  <2> QED BY <2>1, <2>2 DEF FallBackStart, FallBackRefused, GpsDepart
<1>5. UNCHANGED <<request, moving, gone>>
  BY DEF FallBackStart, FallBackRefused, GpsDepart
<1>6. TypeOK'
  BY <1>3, <1>4, <1>5 DEF IInv, TypeOK, TripType, SessionType, Steps
<1>7. Kept'
  <2>1. \A q \in Sessions :
           session[q].step \in Looked /\ session[q].trip = t => q = s /\ session'[q] # session[q]
    BY <1>1 DEF Taken
  <2>2. StatusStep(t)
    BY <1>1, <1>3, <1>4, <2>1 DEF StatusStep, Occupies
  <2> QED BY <1>6, <2>2, StatusMoves DEF IInv
<1>8. Unapproved' /\ RentalFollowsTrip'
  BY <1>3, <1>5 DEF IInv, Unapproved, RentalFollowsTrip, Occupies
<1> QED BY <1>6, <1>7, <1>8 DEF IInv

\* The row a commit writes, and what becomes of a start.
LEMMA CommitWrites ==
    ASSUME IInv, NEW s \in Sessions, Commit(s)
    PROVE  LET t == session[s].trip IN
           /\ t \in Trips /\ trip' \in [Trips -> TripType]
           /\ trip'[t].van = session[s].van
           /\ \/ trip'[t].status = trip[t].status
              \/ /\ session[s].step = "start" /\ trip[t].status = "scheduled"
                 /\ trip'[t].status = "boarding"
           /\ \A u \in Trips : u # t => trip'[u] = trip[u]
           /\ trip[t].status # "none"
           /\ UNCHANGED <<request, moving, gone>>
<1> DEFINE t == session[s].trip
           status == IF session[s].step = "start" THEN "boarding" ELSE trip[t].status
           review == CASE session[s].step = "start" -> "not_required"
                       [] session[s].step = "review" -> "reviewed"
                       [] OTHER -> trip[t].review
           r == [trip[t] EXCEPT !.van = session[s].van, !.status = status, !.review = review]
<1>1. session[s].step \in Looked /\ t \in Trips /\ trip[t].status # "none"
      /\ (session[s].step = "start" => trip[t].status = "scheduled")
  BY DEF Commit, IInv, Kept, Held, Unborn
<1>2. trip[t] \in TripType /\ session[s].van \in Vans \cup {None}
  BY <1>1, Typed DEF IInv, SessionType
<1>3. status \in {"none", "scheduled", "cancelled"} \cup STARTED
      /\ review \in {"not_required", "pending", "reviewed"}
  BY <1>2 DEF TripType
<1>4. trip' = [trip EXCEPT ![t] = r] /\ UNCHANGED <<request, moving, gone>>
  BY DEF Commit
<1>5. status = trip[t].status \/ (session[s].step = "start" /\ status = "boarding")
  OBVIOUS
<1> HIDE DEF status, review
<1>6. r \in TripType /\ r.van = session[s].van /\ r.status = status
  BY <1>2, <1>3 DEF TripType
<1> HIDE DEF r
<1> QED BY <1>1, <1>4, <1>5, <1>6, Typed DEF IInv

\* After a change every other handler that looked for a clash looked too early.
LEMMA ChangeNoted ==
    ASSUME TypeOK, NEW s \in Sessions, NEW r \in SessionType, EndAfterChange(s, r)
    PROVE  /\ session' \in [Sessions -> SessionType] /\ session'[s] = r
           /\ \A q \in Sessions \ {s} :
                 /\ session'[q].step = session[q].step /\ session'[q].trip = session[q].trip
                 /\ session[q].step \in Looked => ~session'[q].clear
<1>1. ASSUME NEW q \in Sessions, NEW b \in BOOLEAN
      PROVE  LET n == [session[q] EXCEPT !.clear = b] IN
             /\ n \in SessionType /\ n.clear = b
             /\ n.step = session[q].step /\ n.trip = session[q].trip
  BY Typed DEF SessionType
<1>2. \A q \in Sessions : (session[q].step \notin Looked) \in BOOLEAN
  OBVIOUS
<1> QED BY <1>1, <1>2 DEF EndAfterChange

LEMMA CommitKeeps ==
    ASSUME IInv, NEW s \in Sessions, Commit(s)
    PROVE  IInv'
<1> DEFINE t == session[s].trip
<1>1. /\ t \in Trips /\ trip' \in [Trips -> TripType]
      /\ trip'[t].van = session[s].van
      /\ \/ trip'[t].status = trip[t].status
         \/ trip[t].status = "scheduled" /\ trip'[t].status = "boarding"
      /\ \A u \in Trips : u # t => trip'[u] = trip[u]
      /\ trip[t].status # "none"
      /\ UNCHANGED <<request, moving, gone>>
  BY CommitWrites
<1>2. ~Taken(s, t) /\ session[s].step \in Looked
  BY DEF Commit, Taken, IInv, Kept, Held
<1>3. Unapproved' /\ RentalFollowsTrip'
  BY <1>1 DEF IInv, Unapproved, RentalFollowsTrip, Occupies
<1>4. CASE session[s].van = trip[t].van /\ End(s)
  <2>1. /\ session' \in [Sessions -> SessionType] /\ session'[s].step = "idle"
        /\ \A q \in Sessions : q # s => session'[q] = session[q]
    BY <1>4, EndTyped, IdleType, Typed DEF IInv, End
  <2>2. TypeOK'
    BY <1>1, <2>1 DEF IInv, TypeOK, TripType, SessionType, Steps
  <2>3. \A q \in Sessions : session[q].step \in Looked /\ session[q].trip = t => q = s
    BY <1>2 DEF Taken
  <2>4. StatusStep(t)
    BY <1>1, <1>2, <1>4, <2>1, <2>3 DEF StatusStep, Occupies
  <2>5. Kept' BY <2>2, <2>4, StatusMoves DEF IInv
  <2> QED BY <1>3, <2>2, <2>5 DEF IInv
<1>5. CASE EndAfterChange(s, Idle)
  <2>1. /\ session' \in [Sessions -> SessionType] /\ session'[s] = Idle
        /\ \A q \in Sessions \ {s} :
              /\ session'[q].step = session[q].step /\ session'[q].trip = session[q].trip
              /\ session[q].step \in Looked => ~session'[q].clear
    BY <1>5, IdleType, ChangeNoted DEF IInv
  <2>2. TypeOK'
    BY <1>1, <2>1 DEF IInv, TypeOK, TripType, SessionType, Steps
  <2>3. VanStep(s, t)
    BY <1>1, <1>2, <2>1, IdleType DEF VanStep
  <2>4. Kept' BY <1>1, <2>3, VanMoves DEF IInv
  <2> QED BY <1>3, <2>2, <2>4 DEF IInv
<1> QED BY <1>4, <1>5 DEF Commit

LEMMA DetectedStartKeeps ==
    ASSUME IInv, NEW s \in Sessions, DetectedStart(s)
    PROVE  IInv'
<1> DEFINE t == session[s].trip
           r == [status |-> "boarding", van |-> session[s].van, review |-> "pending"]
           n == [Idle EXCEPT !.step = "leave", !.trip = t]
<1>1. t \in Trips /\ t \notin Rentals /\ ~Taken(s, t)
  BY DEF DetectedStart, IInv, Kept, Held, RoutesOnly
<1>2. session[s].van \in Vans \cup {None}
  BY Typed DEF IInv, SessionType
<1>3. r \in TripType /\ r.status = "boarding"
  BY <1>2 DEF TripType
<1>4. n \in SessionType /\ n.step = "leave" /\ n.trip = t
  BY <1>1 DEF SessionType, Idle, Steps
<1>5. /\ trip' = [trip EXCEPT ![t] = r] /\ EndAfterChange(s, n)
      /\ UNCHANGED <<request, moving, gone>>
  BY DEF DetectedStart
<1> HIDE DEF r, n
<1>6. /\ trip' \in [Trips -> TripType] /\ trip'[t].status = "boarding"
      /\ \A u \in Trips : u # t => trip'[u] = trip[u]
  BY <1>1, <1>3, <1>5, Typed DEF IInv
<1>7. /\ session' \in [Sessions -> SessionType] /\ session'[s] = n
      /\ \A q \in Sessions \ {s} :
            /\ session'[q].step = session[q].step /\ session'[q].trip = session[q].trip
            /\ session[q].step \in Looked => ~session'[q].clear
  BY <1>4, <1>5, ChangeNoted DEF IInv
<1>8. TypeOK'
  BY <1>5, <1>6, <1>7 DEF IInv, TypeOK, TripType, SessionType, Steps
<1>9. VanStep(s, t)
  BY <1>1, <1>4, <1>6, <1>7 DEF VanStep
<1>10. Kept' BY <1>1, <1>9, VanMoves DEF IInv
<1>11. Unapproved' /\ RentalFollowsTrip'
  BY <1>1, <1>5, <1>6 DEF IInv, Unapproved, RentalFollowsTrip, Occupies
<1> QED BY <1>8, <1>10, <1>11 DEF IInv

LEMMA IInvStep == IInv /\ [Next]_vars => IInv'
<1> SUFFICES ASSUME IInv, [Next]_vars PROVE IInv'
  OBVIOUS
<1>0. moving \subseteq Vans /\ gone \subseteq Trips
  BY Typed DEF IInv
<1>1. CASE UNCHANGED vars
  BY <1>0, <1>1, AsideKeeps DEF vars
<1>2. ASSUME NEW s \in Sessions, Proceed(s) PROVE IInv'
  BY <1>2, CommitKeeps, CommitCashKeeps, RoadKeeps, DetectedStartKeeps DEF Proceed
<1>3. ASSUME NEW s \in Sessions, NEW t \in Trips, Office(s, t) PROVE IInv'
  BY <1>3, OfficeKeeps
<1>4. ASSUME NEW s \in Sessions, NEW r \in Rentals, LogCash(s, r) PROVE IInv'
  BY <1>4, LogCashKeeps
<1>5. ASSUME NEW t \in Trips, Generate(t) \/ Void(t) \/ Depart(t) \/ Arrive(t) PROVE IInv'
  BY <1>5, GenerateKeeps, TripKeeps
<1>6. ASSUME NEW t \in Trips, DriveOff(t) PROVE IInv'
  <2>1. gone' \subseteq Trips BY <1>0, <1>6 DEF DriveOff
  <2> QED BY <1>0, <1>6, <2>1, AsideKeeps DEF DriveOff
<1>7. ASSUME NEW r \in Rentals,
             Request(r) \/ Approve(r) \/ WalkIn(r) \/ Reject(r) \/ Withdraw(r)
      PROVE  IInv'
  BY <1>7, RequestKeeps, ApproveKeeps
<1>8. ASSUME NEW v \in Vans, StartMove(v) \/ EndMove(v) PROVE IInv'
  <2>1. moving' \subseteq Vans BY <1>0, <1>8 DEF StartMove, EndMove
  <2> QED BY <1>0, <1>8, <2>1, AsideKeeps DEF StartMove, EndMove
<1> QED BY <1>1, <1>2, <1>3, <1>4, <1>5, <1>6, <1>7, <1>8 DEF Next

LEMMA IInvInit == Init => IInv
<1> SUFFICES ASSUME Init PROVE IInv
  OBVIOUS
<1>1. /\ \A t \in Trips : trip[t] = NoTrip
      /\ \A r \in Rentals : request[r].status = "none"
      /\ \A s \in Sessions : session[s] = Idle
  BY DEF Init
<1>2. NoTrip \in TripType /\ NoTrip.status = "none"
  BY DEF NoTrip, TripType
<1>3. TypeOK
  BY <1>2, IdleType, Typed DEF Init, RequestType
<1>4. Kept
  BY <1>1, IdleType DEF Kept, Held, RoutesOnly, StillClear, Unborn
<1>5. Unapproved /\ RentalFollowsTrip
  BY <1>1, <1>2 DEF Unapproved, RentalFollowsTrip, Occupies
<1> QED BY <1>3, <1>4, <1>5 DEF IInv

LEMMA IInvHolds == Spec => []IInv
  BY IInvInit, IInvStep, PTL DEF Spec

-----------------------------------------------------------------------------
\* Trips, rentals, vans and the handlers under way keep their types, for any
\* number of each: a trip has one of the statuses of trip_lifecycle.py.
THEOREM TypeCorrect == Spec => []TypeOK
<1>1. IInv => TypeOK
  BY DEF IInv
<1> QED
  BY <1>1, IInvHolds, PTL

\* Whatever ends a rental's trip closes its request, and none is left open:
\* close_rental, called by void and arrive.
THEOREM RentalsClose == Spec => []RentalFollowsTrip
<1>1. IInv => RentalFollowsTrip
  BY DEF IInv
<1> QED
  BY <1>1, IInvHolds, PTL

\* The steps that write a trip.
TripWriter ==
    \/ \E s \in Sessions : Commit(s) \/ FallBackStart(s) \/ GpsDepart(s) \/ DetectedStart(s)
    \/ \E t \in Trips : Generate(t) \/ Void(t) \/ Depart(t) \/ Arrive(t)
    \/ \E r \in Rentals : Approve(r) \/ WalkIn(r)

LEMMA TripWriters ==
    ASSUME [Next]_vars
    PROVE  UNCHANGED trip \/ TripWriter
<1>1. CASE UNCHANGED vars BY <1>1 DEF vars
<1>2. ASSUME NEW s \in Sessions, Proceed(s) PROVE UNCHANGED trip \/ TripWriter
  BY <1>2 DEF Proceed, CommitCash, FallBackRefused, TripWriter
<1>3. ASSUME NEW s \in Sessions, NEW t \in Trips, Office(s, t) PROVE UNCHANGED trip
  BY <1>3 DEF Office, Assign, Start, ChangeVan, ReviewStart, VanLeftOrigin, Detect, Begin
<1>4. ASSUME NEW s \in Sessions, NEW r \in Rentals, LogCash(s, r) PROVE UNCHANGED trip
  BY <1>4 DEF LogCash, Begin
<1>5. ASSUME NEW t \in Trips,
             Generate(t) \/ Void(t) \/ Depart(t) \/ Arrive(t) \/ DriveOff(t)
      PROVE  UNCHANGED trip \/ TripWriter
  BY <1>5 DEF DriveOff, TripWriter
<1>6. ASSUME NEW r \in Rentals,
             Request(r) \/ Approve(r) \/ WalkIn(r) \/ Reject(r) \/ Withdraw(r)
      PROVE  UNCHANGED trip \/ TripWriter
  BY <1>6 DEF Request, Reject, Withdraw, TripWriter
<1>7. ASSUME NEW v \in Vans, StartMove(v) \/ EndMove(v) PROVE UNCHANGED trip
  BY <1>7 DEF StartMove, EndMove
<1> QED BY <1>1, <1>2, <1>3, <1>4, <1>5, <1>6, <1>7 DEF Next

\* A step that puts a trip back to boarding is detected_start's.
LEMMA Restarts ==
    ASSUME IInv, [Next]_vars, NEW t \in Trips,
           trip[t].status \notin {"none", "scheduled"}, trip'[t].status = "boarding",
           trip[t].status # "boarding"
    PROVE  \E s \in Sessions : session[s].step = "detect" /\ session[s].trip = t
<1>0. trip[t] \in TripType /\ trip \in [Trips -> TripType]
  BY Typed DEF IInv
<1>1. CASE UNCHANGED trip BY <1>1
<1>2. ASSUME NEW s \in Sessions, Commit(s) PROVE FALSE
  BY <1>2, CommitWrites
<1>3. ASSUME NEW s \in Sessions, FallBackStart(s) \/ GpsDepart(s) PROVE FALSE
  <2> DEFINE u == session[s].trip
  <2>1. u \in Trips
    BY <1>3 DEF FallBackStart, GpsDepart, IInv, Kept, Held
  <2>2. trip'[t].status = trip[t].status \/ (t = u /\ trip[t].status \in BEFORE_DEPARTURE)
    BY <1>0, <1>3, <2>1 DEF FallBackStart, GpsDepart
  <2> QED BY <2>2
<1>4. ASSUME NEW s \in Sessions, DetectedStart(s) PROVE session[s].trip = t /\ session[s].step = "detect"
  BY <1>0, <1>4 DEF DetectedStart
<1>5. ASSUME NEW u \in Trips, Generate(u) \/ Void(u) \/ Depart(u) \/ Arrive(u) PROVE FALSE
  BY <1>0, <1>5 DEF Generate, Void, Depart, Arrive, Scheduled, NoTrip, TripType
<1>6. ASSUME NEW r \in Rentals, Approve(r) \/ WalkIn(r) PROVE FALSE
  BY <1>0, <1>6 DEF Approve, WalkIn, Approves, Scheduled, NoTrip
<1> QED BY <1>1, <1>2, <1>3, <1>4, <1>5, <1>6, TripWriters DEF TripWriter

\* The manual start, the fallback and GPS leave a trip that was started or
\* ended alone: only detected_start starts it again.
THEOREM StartsOnce == Spec => OnlyDetectionRestarts
<1> DEFINE A == \A t \in Trips :
          (trip[t].status \notin {"none", "scheduled"} /\ trip'[t].status = "boarding")
          => \/ trip[t].status = "boarding"
             \/ \E s \in Sessions : session[s].step = "detect" /\ session[s].trip = t
<1>1. IInv /\ [Next]_vars => [A]_vars
  BY Restarts
<1> HIDE DEF A
<1>2. Spec => [][A]_vars
  BY <1>1, IInvHolds, PTL DEF Spec
<1> QED
  BY <1>2 DEF A, OnlyDetectionRestarts

\* Two trips that are apart share a van at overlapping times only after
\* detection, or after a change that the handler at work did not see.
LEMMA Separated ==
    ASSUME IInv, [Next]_vars, NEW t \in Trips, NEW u \in Trips, t # u,
           ~Clash(t, u), Clash(t, u)'
    PROVE  \E s \in Sessions : /\ session[s].trip \in {t, u}
                               /\ session[s].step = "detect" \/ ~session[s].clear
<1>0. trip \in [Trips -> TripType] /\ trip[t] \in TripType /\ trip[u] \in TripType
  BY Typed DEF IInv
<1>1. ~UNCHANGED trip
  BY DEF Clash, Occupies, Overlap
<1>2. ASSUME NEW s \in Sessions, Commit(s)
      PROVE  session[s].trip \in {t, u} /\ ~session[s].clear
  <2> DEFINE w == session[s].trip
  <2>1. /\ w \in Trips /\ trip'[w].van = session[s].van
        /\ \/ trip'[w].status = trip[w].status
           \/ trip[w].status = "scheduled" /\ trip'[w].status = "boarding"
        /\ \A x \in Trips : x # w => trip'[x] = trip[x]
    BY <1>2, CommitWrites
  <2>2. Occupies(t) /\ Occupies(u) /\ Overlap(t, u) /\ Overlap(u, t)
    BY <2>1 DEF Clash, Occupies, Overlap
  <2>3. trip'[t].van = trip'[u].van /\ trip'[t].van # None
    BY DEF Clash
  <2>4. w \in {t, u} /\ session[s].van # trip[w].van
    BY <2>1, <2>2, <2>3 DEF Clash
  <2>5. Clashes(w, session[s].van)
    BY <2>1, <2>2, <2>3, <2>4 DEF Clashes
  <2>6. session[s].step \in Looked
    BY <1>2 DEF Commit
  <2> QED BY <2>4, <2>5, <2>6 DEF IInv, Kept, StillClear
<1>3. ASSUME NEW s \in Sessions, DetectedStart(s)
      PROVE  session[s].trip \in {t, u} /\ session[s].step = "detect"
  <2>1. \A x \in Trips : x # session[s].trip => trip'[x] = trip[x]
    BY <1>0, <1>3 DEF DetectedStart
  <2> QED BY <1>3, <2>1 DEF DetectedStart, Clash, Occupies, Overlap
<1>4. ASSUME NEW x, NEW r \in TripType, trip' = [trip EXCEPT ![x] = r],
             x \in Trips => \/ r.van = None
                            \/ r.van = trip[x].van /\ Occupies(x)
      PROVE  FALSE
  <2>1. /\ x \in Trips => trip'[x] = r
        /\ \A y \in Trips : y # x => trip'[y] = trip[y]
    BY <1>0, <1>4, TripWritten
  <2> QED BY <1>4, <2>1 DEF Clash, Occupies, Overlap
<1>5. ASSUME NEW s \in Sessions, FallBackStart(s) \/ GpsDepart(s) PROVE FALSE
  <2> DEFINE w == session[s].trip
             m == [trip[w] EXCEPT !.status = "boarding", !.review = "pending"]
             d == [trip[w] EXCEPT !.status = "departed"]
  <2>1. w \in Trips
    BY <1>5 DEF FallBackStart, GpsDepart, IInv, Kept, Held
  <2>2. m \in TripType /\ m.van = trip[w].van /\ d \in TripType /\ d.van = trip[w].van
    BY <1>0, <2>1 DEF TripType
  <2>3. \/ trip' = [trip EXCEPT ![w] = m] /\ Occupies(w)
        \/ trip' = [trip EXCEPT ![w] = d] /\ Occupies(w)
    BY <1>1, <1>5 DEF FallBackStart, GpsDepart, Occupies
  <2> HIDE DEF m, d
  <2> QED BY <1>4, <2>2, <2>3
<1>6. ASSUME NEW x \in Trips, Void(x) \/ Depart(x) \/ Arrive(x) PROVE FALSE
  <2>1. PICK status \in {"cancelled", "departed", "completed"} :
            trip' = [trip EXCEPT ![x].status = status]
    BY <1>6 DEF Void, Depart, Arrive
  <2> DEFINE r == [trip[x] EXCEPT !.status = status]
  <2>2. r \in TripType /\ r.van = trip[x].van
    BY <1>0 DEF TripType
  <2>3. trip' = [trip EXCEPT ![x] = r] /\ Occupies(x)
    BY <1>6, <2>1 DEF Void, Depart, Arrive, Occupies
  <2> HIDE DEF r
  <2> QED BY <1>4, <2>2, <2>3
<1>7. Scheduled \in TripType /\ Scheduled.van = None
  BY DEF Scheduled, NoTrip, TripType
<1>8. ASSUME NEW x \in Trips, Generate(x) PROVE FALSE
  BY <1>4, <1>7, <1>8 DEF Generate
<1>9. ASSUME NEW r \in Rentals, Approve(r) \/ WalkIn(r) PROVE FALSE
  BY <1>4, <1>7, <1>9 DEF Approve, WalkIn, Approves
<1> QED BY <1>1, <1>2, <1>3, <1>5, <1>6, <1>8, <1>9, TripWriters DEF TripWriter

\* Assign, start, change and review keep overlapping trips on separate vans,
\* but for a van given elsewhere between the look and the commit.
THEOREM VansSeparate == Spec => ChecksSeparateVans
<1> DEFINE A == \A t, u \in Trips :
          (t # u /\ ~Clash(t, u) /\ Clash(t, u)')
          => \E s \in Sessions : /\ session[s].trip \in {t, u}
                                 /\ session[s].step = "detect" \/ ~session[s].clear
<1>1. IInv /\ [Next]_vars => [A]_vars
  BY Separated
<1> HIDE DEF A
<1>2. Spec => [][A]_vars
  BY <1>1, IInvHolds, PTL DEF Spec
<1> QED
  BY <1>2 DEF A, ChecksSeparateVans
=============================================================================
