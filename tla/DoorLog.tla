------------------------------- MODULE DoorLog -------------------------------
(***************************************************************************)
(* What the ledger of door events promises: whatever the order in which    *)
(* uploads, retries and assignments come, each crossing of the door        *)
(* enters the log of one trip, once, and a log only ever grows at its end. *)
(***************************************************************************)
EXTENDS Naturals, Sequences

CONSTANT Trips

VARIABLES
    counted,  \* how many crossings the phone has counted
    log       \* the crossings of each trip, in the order they entered

Places == {p \in Trips \X (1..counted) : p[2] <= Len(log[p[1]])}

\* No crossing is in two places, of two logs or of one.
Once == \A p, q \in Places : log[p[1]][p[2]] = log[q[1]][q[2]] => p = q

Init == counted = 0 /\ log = [t \in Trips |-> <<>>]

Count == counted' = counted + 1 /\ UNCHANGED log

Grows(t) == /\ Len(log[t]) <= Len(log'[t])
            /\ \A i \in 1..Len(log[t]) : log'[t][i] = log[t][i]

\* Crossings that enter together enter in the order of their times.
InOrder(t) == \A i, j \in (Len(log[t]) + 1)..Len(log'[t]) :
                  i < j => log'[t][i] < log'[t][j]

Enter == /\ \A t \in Trips : /\ Grows(t) /\ InOrder(t)
                             /\ Len(log'[t]) <= counted
                             /\ \A i \in DOMAIN log'[t] : log'[t][i] \in 1..counted
         /\ Once'
         /\ UNCHANGED counted

Next == Count \/ Enter

Spec == Init /\ [][Next]_<<counted, log>>
=============================================================================
