---------------------------- MODULE MCTripLifecycle ----------------------------
(* A timetable trip and a rental at overlapping times.                     *)
EXTENDS TripLifecycle, RouteTrackingChecks, DrivingFlagsChecks

CONSTANTS t1, t2

MCDeparts == [t \in Trips |-> IF t = t1 THEN 5 ELSE 6]
MCLasts == [t \in Trips |-> IF t = t1 THEN 4 ELSE 1]
=============================================================================
