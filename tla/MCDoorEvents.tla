----------------------------- MODULE MCDoorEvents -----------------------------
(* Two trips of a van and one phone; sessions are interchangeable.  The    *)
(* first crossing is a boarding, the second may be anything and may be     *)
(* counted after the phone's return.                                       *)
EXTENDS DoorEvents, PhoneEvidenceChecks, OfficeBoardsChecks, PhonePoolChecks, RosterChecks

MCMaxSeats == [t \in Trips |-> IF t = 1 THEN 1 ELSE 0]
MCKinds == [e \in Events |-> IF e = 1 THEN {"board"} ELSE {"board", "alight"}]
AnySession == Permutations(Sessions)
=============================================================================
