----------------------------- MODULE TripLifecycle -----------------------------
(***************************************************************************)
(* The trips of a day and the vans that run them: the timetable and the    *)
(* rentals create trips, the office assigns and starts them, the system    *)
(* starts those nobody started, and GPS, the Dispatcher or the office      *)
(* departs them.  One row of trips per trip, one of special_trip_requests  *)
(* per rental, the open non-passenger moves of the vans, and the database  *)
(* sessions that work on them.                                             *)
(*                                                                         *)
(* Every handler locks the row of its own trip.  What it looks at beyond   *)
(* that row - the other trips of a van, the trips that wait for one - it   *)
(* reads without a lock, so handlers are cut between such a read and the   *)
(* commit.  The Dispatcher of a trip is assigned, checked and looked for   *)
(* in other trips as its van is, and left out.  Money is in Statement,     *)
(* seats are in SeatBooking.                                               *)
(***************************************************************************)
EXTENDS Naturals

CONSTANTS
    Trips,       \* trip ids that may ever be created
    Rentals,     \* those that are rentals: special trips with no route
    Vans,        \* validated vans of validated members
    Sessions,    \* database sessions open at once
    None,        \* NULL
    Departs,     \* trips.departure_datetime, all on one service date
    Lasts        \* duration of the route and the turnaround

ASSUME TripsAssumption ==
    /\ Rentals \subseteq Trips /\ None \notin Vans \cup Trips
    /\ Departs \in [Trips -> Nat] /\ Lasts \in [Trips -> Nat \ {0}]

VARIABLES
    trip,      \* trips
    request,   \* special_trip_requests, by the trip approval creates
    moving,    \* vans with an open 'Not a passenger trip'
    gone,      \* trips with a boarding counted whose van left the zone
    session    \* what each session is doing, and the trip it has locked

vars == <<trip, request, moving, gone, session>>

-----------------------------------------------------------------------------
STARTED == {"boarding", "departed", "completed"}
BEFORE_DEPARTURE == {"scheduled", "boarding"}

NoTrip == [status |-> "none", van |-> None, review |-> "not_required"]
Scheduled == [NoTrip EXCEPT !.status = "scheduled"]

\* van: the van the handler will write.  clear: no other trip was given a
\* van since the handler looked for a clash (known to the model alone).
Idle == [step |-> "idle", trip |-> None, van |-> None, clear |-> TRUE]

TypeOK ==
    /\ trip \in [Trips -> [status : {"none", "scheduled", "cancelled"} \cup STARTED,
                           van    : Vans \cup {None},
                           review : {"not_required", "pending", "reviewed"}]]
    /\ request \in [Rentals -> [status : {"none", "requested", "approved", "rejected",
                                          "cancelled", "completed"},
                                paid   : BOOLEAN]]
    /\ moving \subseteq Vans
    /\ gone \subseteq Trips
    /\ session \in [Sessions -> [step   : {"idle", "assign", "start", "change", "review",
                                           "cash", "detect", "fall_back", "leave"},
                                 trip   : Trips \cup {None},
                                 van    : Vans \cup {None},
                                 clear  : BOOLEAN]]

Init ==
    /\ trip = [t \in Trips |-> NoTrip]
    /\ request = [r \in Rentals |-> [status |-> "none", paid |-> FALSE]]
    /\ moving = {}
    /\ gone = {}
    /\ session = [s \in Sessions |-> Idle]

-----------------------------------------------------------------------------
\* The handlers that looked for a clash, with their trip locked.
Looked == {"assign", "start", "change", "review"}

\* SELECT ... FOR UPDATE of the trip by another handler still at work on it.
Taken(s, t) ==
    \E q \in Sessions \ {s} : session[q].trip = t /\ session[q].step \in Looked

\* The request's row is locked while its fee is logged.
RequestTaken(t) == \E q \in Sessions : session[q].step = "cash" /\ session[q].trip = t

Free(t) == \E s \in Sessions : session[s].step = "idle" /\ ~Taken(s, t)

Begin(s, step, t, v) ==
    /\ session[s].step = "idle"
    /\ session' = [session EXCEPT ![s] =
           [step |-> step, trip |-> t, van |-> v, clear |-> TRUE]]
    /\ UNCHANGED <<trip, request, moving, gone>>

End(s) == session' = [session EXCEPT ![s] = Idle]

\* The commit gave trip t another van, or put it on the road again.
EndAfterChange(s, next) ==
    session' = [q \in Sessions |->
        IF q = s THEN next
        ELSE [session[q] EXCEPT !.clear = session[q].step \notin Looked]]

\* Two windows overlap unless one ends before the other begins.
Overlap(t, u) ==
    Departs[t] < Departs[u] + Lasts[u] /\ Departs[u] < Departs[t] + Lasts[t]

Occupies(t) == trip[t].status \notin {"none", "cancelled", "completed"}

\* find_conflicts: another trip has this van at an overlapping time.
Clashes(t, v) ==
    \E u \in Trips \ {t} : v # None /\ trip[u].van = v /\ Occupies(u) /\ Overlap(t, u)

-----------------------------------------------------------------------------
(***************************************************************************)
(* Trips come from the timetable, or from an approved rental.              *)
(***************************************************************************)
Generate(t) ==
    /\ t \notin Rentals /\ trip[t].status = "none"
    /\ trip' = [trip EXCEPT ![t] = Scheduled]
    /\ UNCHANGED <<request, moving, gone, session>>

\* In the app it waits for the office.
Request(r) ==
    /\ request[r].status = "none"
    /\ request' = [request EXCEPT ![r].status = "requested"]
    /\ UNCHANGED <<trip, moving, gone, session>>

Approves(r) ==
    /\ request' = [request EXCEPT ![r].status = "approved"]
    /\ trip' = [trip EXCEPT ![r] = Scheduled]
    /\ UNCHANGED <<moving, gone, session>>

Approve(r) == request[r].status = "requested" /\ Approves(r)

\* At the counter the fee is agreed as the request is entered.
WalkIn(r) == request[r].status = "none" /\ Approves(r)

Reject(r) ==
    /\ request[r].status = "requested"
    /\ request' = [request EXCEPT ![r].status = "rejected"]
    /\ UNCHANGED <<trip, moving, gone, session>>

Withdraw(r) ==
    /\ request[r].status = "requested"
    /\ request' = [request EXCEPT ![r].status = "cancelled"]
    /\ UNCHANGED <<trip, moving, gone, session>>

\* The request is locked, its trip is only read.
LogCash(s, r) ==
    /\ request[r].status = "approved" /\ ~request[r].paid
    /\ ~RequestTaken(r)
    /\ trip[r].status \in BEFORE_DEPARTURE
    /\ Begin(s, "cash", r, None)

CommitCash(s) ==
    /\ session[s].step = "cash"
    /\ request' = [request EXCEPT ![session[s].trip].paid = TRUE]
    /\ End(s)
    /\ UNCHANGED <<trip, moving, gone>>

\* close_rental: a rental follows its trip.
CloseRental(t, status) ==
    /\ t \in Rentals => ~RequestTaken(t)
    /\ request' = [r \in Rentals |->
           IF r = t /\ request[r].status = "approved"
           THEN [request[r] EXCEPT !.status = status] ELSE request[r]]

-----------------------------------------------------------------------------
(***************************************************************************)
(* The office: assign, start, change the van, review.  The handler has its *)
(* own trip locked from here to its commit; the clash was read before.     *)
(***************************************************************************)
\* The assignment is replaced as a whole: naming a Dispatcher alone takes the
\* van away.
Assign(s, t, v) ==
    /\ ~Taken(s, t) /\ trip[t].status = "scheduled"
    /\ ~Clashes(t, v)
    /\ Begin(s, "assign", t, v)

\* Mutant: the van the office starts with instead is not looked up.
StartUnchecked(s, t, v) ==
    /\ ~Taken(s, t) /\ trip[t].status = "scheduled"
    /\ v # None
    /\ t \in Rentals => request[t].paid
    /\ Begin(s, "start", t, v)

\* Mutant: a start is confirmed whatever the trip has become.
StartAgain(s, t, v) ==
    /\ ~Taken(s, t) /\ trip[t].status # "none"
    /\ v # None
    /\ v = trip[t].van \/ ~Clashes(t, v)
    /\ t \in Rentals => request[t].paid
    /\ Begin(s, "start", t, v)

\* With the assigned van, or with another that is assigned on the way.
Start(s, t, v) ==
    /\ ~Taken(s, t) /\ trip[t].status = "scheduled"
    /\ v # None
    /\ v = trip[t].van \/ ~Clashes(t, v)
    /\ t \in Rentals => request[t].paid
    /\ Begin(s, "start", t, v)

ChangeVan(s, t, v) ==
    /\ ~Taken(s, t) /\ trip[t].status \in STARTED
    /\ v # None /\ v # trip[t].van /\ ~Clashes(t, v)
    /\ Begin(s, "change", t, v)

ReviewStart(s, t, v) ==
    /\ ~Taken(s, t) /\ trip[t].review = "pending"
    /\ v # None
    /\ v = trip[t].van \/ ~Clashes(t, v)
    /\ Begin(s, "review", t, v)

Commit(s) ==
    /\ session[s].step \in Looked
    /\ LET t == session[s].trip
           van == session[s].van
       IN /\ trip' = [trip EXCEPT
                 ![t].van = van,
                 ![t].status = IF session[s].step = "start" THEN "boarding" ELSE @,
                 ![t].review = CASE session[s].step = "start" -> "not_required"
                                 [] session[s].step = "review" -> "reviewed"
                                 [] OTHER -> @]
          /\ IF van = trip[t].van THEN End(s) ELSE EndAfterChange(s, Idle)
    /\ UNCHANGED <<request, moving, gone>>

\* Mutant: the request stays approved.
VoidTripOnly(t) ==
    /\ Free(t) /\ trip[t].status \in BEFORE_DEPARTURE
    /\ trip' = [trip EXCEPT ![t].status = "cancelled"]
    /\ UNCHANGED <<request, moving, gone, session>>

Void(t) ==
    /\ Free(t) /\ trip[t].status \in BEFORE_DEPARTURE
    /\ trip' = [trip EXCEPT ![t].status = "cancelled"]
    /\ CloseRental(t, "cancelled")
    /\ UNCHANGED <<moving, gone, session>>

Depart(t) ==
    /\ Free(t) /\ trip[t].status = "boarding"
    /\ trip' = [trip EXCEPT ![t].status = "departed"]
    /\ UNCHANGED <<request, moving, gone, session>>

\* Mutant: the status of a home pickup is given to the trip.
ArriveAtPin(t) ==
    /\ Free(t) /\ trip[t].status = "departed"
    /\ trip' = [trip EXCEPT ![t].status = "arrived"]
    /\ CloseRental(t, "completed")
    /\ UNCHANGED <<moving, gone, session>>

Arrive(t) ==
    /\ Free(t) /\ trip[t].status = "departed"
    /\ trip' = [trip EXCEPT ![t].status = "completed"]
    /\ CloseRental(t, "completed")
    /\ UNCHANGED <<moving, gone, session>>

-----------------------------------------------------------------------------
(***************************************************************************)
(* The van left the terminal: the trip it is assigned to departs, started  *)
(* by the system first if nobody started it.                               *)
(***************************************************************************)
\* The van of a route's trip drives off with a boarding counted.
DriveOff(t) ==
    /\ t \notin Rentals /\ t \notin gone
    /\ trip[t].status \in BEFORE_DEPARTURE /\ trip[t].van # None
    /\ gone' = gone \cup {t}
    /\ UNCHANGED <<trip, request, moving, session>>

\* One reading outside the zone; the trip is read without a lock.
VanLeftOrigin(s, t) ==
    /\ t \in gone /\ trip[t].van \notin moving
    /\ \/ trip[t].status = "scheduled" /\ Begin(s, "fall_back", t, None)
       \/ trip[t].status = "boarding" /\ Begin(s, "leave", t, None)

\* The system starts the trip, if it is still there to start and has a van.
FallBackStart(s) ==
    LET t == session[s].trip IN
    /\ session[s].step = "fall_back" /\ ~Taken(s, t)
    /\ trip[t].status = "scheduled" /\ trip[t].van # None
    /\ trip' = [trip EXCEPT ![t].status = "boarding", ![t].review = "pending"]
    /\ session' = [session EXCEPT ![s].step = "leave"]
    /\ UNCHANGED <<request, moving, gone>>

\* Started or voided meanwhile, or no van: 'Trip not started' is told once.
FallBackRefused(s) ==
    LET t == session[s].trip IN
    /\ session[s].step = "fall_back" /\ ~Taken(s, t)
    /\ trip[t].status # "scheduled" \/ trip[t].van = None
    /\ End(s)
    /\ UNCHANGED <<trip, request, moving, gone>>

\* Mutant: the van's leaving does not depart a trip under review.
GpsDepartReviewed(s) ==
    LET t == session[s].trip IN
    /\ session[s].step = "leave" /\ ~Taken(s, t)
    /\ trip' = IF trip[t].status = "boarding" /\ trip[t].review # "pending"
               THEN [trip EXCEPT ![t].status = "departed"] ELSE trip
    /\ End(s)
    /\ UNCHANGED <<request, moving, gone>>

\* Depart with source GPS, in a transaction of its own.
GpsDepart(s) ==
    LET t == session[s].trip IN
    /\ session[s].step = "leave" /\ ~Taken(s, t)
    /\ trip' = IF trip[t].status = "boarding"
               THEN [trip EXCEPT ![t].status = "departed"] ELSE trip
    /\ End(s)
    /\ UNCHANGED <<request, moving, gone>>

-----------------------------------------------------------------------------
(***************************************************************************)
(* A van left with boardings and no trip: it is given one that waits.      *)
(***************************************************************************)
HasTrip(v) == \E t \in Trips : trip[t].van = v /\ Occupies(t)

\* The choice is made without a lock.
Detect(s, t, v) ==
    /\ v \notin moving /\ ~HasTrip(v)
    /\ t \notin Rentals /\ trip[t].status = "scheduled" /\ trip[t].van = None
    /\ Begin(s, "detect", t, v)

\* The trip is locked, its row read afresh, and started whatever it has become.
DetectedStart(s) ==
    LET t == session[s].trip IN
    /\ session[s].step = "detect" /\ ~Taken(s, t)
    /\ trip' = [trip EXCEPT ![t] = [status |-> "boarding", van |-> session[s].van,
                                    review |-> "pending"]]
    /\ EndAfterChange(s, [Idle EXCEPT !.step = "leave", !.trip = t])
    /\ UNCHANGED <<request, moving, gone>>

-----------------------------------------------------------------------------
\* 'Not a passenger trip': at most one open for a van (uq_move_open_van).
StartMove(v) ==
    /\ v \notin moving
    /\ moving' = moving \cup {v}
    /\ UNCHANGED <<trip, request, gone, session>>

\* Turned off by the Dispatcher, or the van is back in a zone.
EndMove(v) ==
    /\ v \in moving
    /\ moving' = moving \ {v}
    /\ UNCHANGED <<trip, request, gone, session>>

-----------------------------------------------------------------------------
Proceed(s) ==
    Commit(s) \/ CommitCash(s) \/ FallBackStart(s) \/ FallBackRefused(s)
    \/ GpsDepart(s) \/ DetectedStart(s)

Office(s, t) ==
    \/ \E v \in Vans \cup {None} :
          \/ Assign(s, t, v) \/ Start(s, t, v) \/ ChangeVan(s, t, v) \/ ReviewStart(s, t, v)
    \/ VanLeftOrigin(s, t)
    \/ \E v \in Vans : Detect(s, t, v)

Next ==
    \/ \E s \in Sessions : Proceed(s) \/ \E t \in Trips : Office(s, t)
    \/ \E s \in Sessions, r \in Rentals : LogCash(s, r)
    \/ \E t \in Trips : Generate(t) \/ Void(t) \/ Depart(t) \/ Arrive(t) \/ DriveOff(t)
    \/ \E r \in Rentals : Request(r) \/ Approve(r) \/ WalkIn(r) \/ Reject(r) \/ Withdraw(r)
    \/ \E v \in Vans : StartMove(v) \/ EndMove(v)

Spec == Init /\ [][Next]_vars

\* Handlers go on, row locks are granted in turn, the phone of a van on the
\* road goes on reporting, and a non-passenger move ends.
FairSpec ==
    /\ Spec
    /\ \A s \in Sessions : SF_vars(Proceed(s))
    /\ \A t \in Trips : SF_vars(\E s \in Sessions : VanLeftOrigin(s, t))

-----------------------------------------------------------------------------
(***************************************************************************)
(* Properties.                                                             *)
(***************************************************************************)
\* The manual start, the fallback and the van's leaving compete for a trip,
\* and a trip that was started, voided or completed is not started again -
\* but by detected_start, which does not look at the trip it locked.
OnlyDetectionRestarts ==
    [][\A t \in Trips :
          (trip[t].status \notin {"none", "scheduled"} /\ trip'[t].status = "boarding")
          => \/ trip[t].status = "boarding"
             \/ \E s \in Sessions : session[s].step = "detect" /\ session[s].trip = t]_vars

Clash(t, u) ==
    trip[t].van # None /\ trip[t].van = trip[u].van /\ Occupies(t) /\ Occupies(u) /\ Overlap(t, u)

\* Every way to give a trip a van looks for a clash: two overlapping trips get
\* one van only when another trip was given a van between the look and the
\* commit, or by detected_start, which does not look.
ChecksSeparateVans ==
    [][\A t, u \in Trips :
          (t # u /\ ~Clash(t, u) /\ Clash(t, u)')
          => \E s \in Sessions : /\ session[s].trip \in {t, u}
                                 /\ session[s].step = "detect" \/ ~session[s].clear]_vars

\* A rental's request is open exactly while its trip may still run, whoever
\* ends the trip, and a fee logged late does not open it again.
RentalFollowsTrip ==
    \A r \in Rentals :
        /\ request[r].status = "approved" <=> Occupies(r)
        /\ request[r].status = "completed" <=> trip[r].status = "completed"

\* A van that drove off with passengers does not stay at the terminal in the
\* record: its trip departs, or the office voids it, takes the van off it or
\* marks the van as on no passenger trip.
LeftVanDeparts ==
    \A t \in Trips :
        t \in gone ~> \/ trip[t].status \notin BEFORE_DEPARTURE
                      \/ trip[t].van \in moving \cup {None}
=============================================================================
