-------------------------- MODULE OfficeBoardsChecks --------------------------
(***************************************************************************)
(* The office's screens over every door count of up to four crossings and  *)
(* every day of two trips of a van.                                        *)
(***************************************************************************)
EXTENDS Integers, Sequences, FiniteSets

NoTime == -1
B == INSTANCE OfficeBoards WITH Never <- NoTime, Today <- 1, Gap <- 2, StartOpens <- 3

Crossings(n) == {{[id |-> i, at |-> i, board |-> f[i]] : i \in 1..n} : f \in [1..n -> BOOLEAN]}
Counts == UNION {Crossings(n) : n \in 1..4}

(* The two boards show the same number aboard: the sum of the trip board   *)
(* is the last running count of the van board, whatever was missed at the  *)
(* door in between (van_board._travelling, trip_board).                    *)
ASSUME BoardsAgreeOnAboard ==
  \A events \in Counts, crew \in {0, 1} :
    LET trips == {[id |-> 1, van |-> "v", day |-> 1, departs |-> 5,
                   status |-> "departed", departed |-> 5]} IN
    B!VanAboard("v", trips, events, crew) = B!DoorAboard(events, crew)

(* Late crossings add alerts and take none away: every crossing above the  *)
(* capacity has been alerted once everything has arrived, in whatever      *)
(* order, and each one alerted was above it when it was (follow, _alert).  *)
ASSUME EveryCrossingAlerted ==
  \A events \in Counts, crew \in {0, 1} : \A late \in SUBSET events :
    LET first == B!Follow(events \ late, crew, 1, {})
        alerted == B!Follow(events, crew, 1, first)
    IN /\ B!Above(events, crew, 1) \subseteq alerted
       /\ B!Follow(events, crew, 1, alerted) = alerted
       /\ alerted = {} <=> /\ \A i \in DOMAIN B!AboardAfter(events, crew) :
                                B!AboardAfter(events, crew)[i].aboard <= 1
                           /\ first = {}

(* So the review can list an alerted crossing at which, counted again with *)
(* a late alighting, nobody was above the capacity.                        *)
ASSUME ReviewedBelowCapacity ==
  \E events \in Counts : \E late \in SUBSET events :
    LET alerted == B!Follow(events \ late, 0, 1, {}) IN
    \E r \in B!Reviewed(events, 0, alerted) : r.aboard <= 1

Statuses == {"scheduled", "boarding", "departed", "completed", "cancelled"}
TripOf(id, day, departs, st) == [id |-> id, van |-> "v", day |-> day, departs |-> departs,
                                 status |-> st, departed |-> IF st = "departed" THEN id ELSE NoTime]

(* Each van is in one state with the trip that explains it: travelling     *)
(* whatever day the trip is of and even out of service, waiting only for a *)
(* trip of today, the earliest (now).                                      *)
ASSUME OneStateAndItsTrip ==
  \A s1, s2 \in Statuses, d1, d2 \in {0, 1, 2}, op \in {"active", "maintenance"} :
    LET trips == {TripOf(1, d1, 5, s1), TripOf(2, d2, 7, s2)}
        state == B!State("v", op, trips)
        shown == B!Shown("v", op, trips)
    IN /\ Cardinality(shown) <= 1
       /\ shown = {} <=> state \in {"out_of_service", "not_on_trip"}
       /\ \A t \in shown :
            /\ state = "travelling" <=> t.status = "departed"
            /\ state = "on_site" => t.day = 1 /\ op = "active"
       /\ state = "on_site" =>
            ~ \E t \in trips, u \in shown :
                /\ t.day = 1 /\ t.status \in {"scheduled", "boarding"}
                /\ t.departs < u.departs

(* Every seat of the list is counted once: a seat that boarded or checked  *)
(* in is among the booked, a no-show and a cancelled one are not.          *)
ASSUME SeatsCountedOnce ==
  \A s1, s2 \in {"confirmed", "checked_in", "boarded", "completed", "no_show", "cancelled"} :
    LET bookings == {[id |-> 1, trip |-> 1, status |-> s1], [id |-> 2, trip |-> 1, status |-> s2]}
        row == B!BoardRow(TripOf(1, 1, 5, "boarding"), bookings, {}, 0, 4, 6)
    IN /\ row.checkedIn + row.boarded <= row.booked
       /\ row.booked + row.noShow <= 2 /\ ~row.silent
=============================================================================
