------------------------------ MODULE MCStatement ------------------------------
(* One trip with seats and one whose list stays empty.                     *)
EXTENDS Statement, VersionedValuesChecks, RouteNetworkChecks

CONSTANTS t1, t2, v1, v2

MCMaxSeats == [t \in Trips |-> IF t = t1 THEN 2 ELSE 0]
=============================================================================
