------------------------------- MODULE SeatMap -------------------------------
(***************************************************************************)
(* What the seat inventory of one trip promises, whatever the handlers do  *)
(* in between.  A booking travels from the starting terminal, so the       *)
(* stretch it needs is legs 1..Alights[b] of one slot.  Slots are sold     *)
(* whole stretch by whole stretch, only while every leg of the stretch is  *)
(* free, and come back whole stretch by whole stretch.                     *)
(***************************************************************************)
EXTENDS Naturals

CONSTANTS Bookings, Slots, Legs, Alights, Free

VARIABLE seat

Stretch(b) == 1..Alights[b]

Holds(b, n) == \A leg \in Stretch(b) : seat[<<n, leg>>] = b

MapInit == seat = [row \in Slots \X Legs |-> Free]

\* One slot is given to one booking, all its legs in one step.
Take(b, n) ==
    /\ \A leg \in Stretch(b) : seat[<<n, leg>>] = Free
    /\ seat' = [row \in Slots \X Legs |->
                    IF row[1] = n /\ row[2] \in Stretch(b) THEN b ELSE seat[row]]

\* A set of holdings comes back in one step: a cancellation frees one, the
\* cutoff sweep and the departure free several.
GiveBack(holdings) ==
    /\ \A h \in holdings : Holds(h[1], h[2])
    /\ seat' = [row \in Slots \X Legs |->
                    IF <<seat[row], row[1]>> \in holdings THEN Free ELSE seat[row]]

MapNext ==
    \/ \E b \in Bookings, n \in Slots : Take(b, n)
    \/ \E holdings \in SUBSET (Bookings \X Slots) : GiveBack(holdings)

MapSpec == MapInit /\ [][MapNext]_seat
=============================================================================
