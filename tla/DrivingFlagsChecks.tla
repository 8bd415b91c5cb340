--------------------------- MODULE DrivingFlagsChecks ---------------------------
(***************************************************************************)
(* The driving flags of every track of up to four readings on a route of   *)
(* three stops at 0, 4 and 8 km, readings two or three minutes apart (the  *)
(* gap is two), standing, slow or fast, in or out of a stop's zone.        *)
(***************************************************************************)
EXTENDS Integers, Sequences, FiniteSets, SequencesExt, Functions

NoFix == -99
Drive == INSTANCE DrivingFlags WITH None <- NoFix,
           DefaultFence <- 1, DepartRadius <- 2, DepartReadings <- 2, StaleAfter <- 3,
           MinMoving <- 5, SpeedWindow <- 2, LastResort <- 40,
           OverspeedFor <- 2, StopFor <- 2, SlowTolerance <- 50, Standstill <- 3,
           GapFor <- 2, PickupWait <- 4, RentalLimit <- 60

Halt(x, offset) == [x |-> x, fence |-> NoFix, offset |-> offset]
Route == << Halt(0, 0), Halt(4, 4), Halt(8, 12) >>
Limits == { [no |-> 1, limit |-> 60, expected |-> 2], [no |-> 2, limit |-> 80, expected |-> 0] }
Places == { <<0, 90>>, <<2, 0>>, <<2, 90>>, <<4, NoFix>> }
Gaps == {2, 3}
DriveAlong(places, gaps) ==
  [i \in DOMAIN places |->
     [x |-> places[i][1], kph |-> places[i][2],
      at |-> FoldLeft(LAMBDA t, g : t + g, 0, SubSeq(gaps, 1, i))]]
Drives(n) == {DriveAlong(p, g) : p \in [1..n -> Places], g \in [1..n -> Gaps]}
Waits == { {}, {[arrived |-> 2, left |-> 5]}, {[arrived |-> 4, left |-> NoFix]} }
Found(track, waits) == Drive!Flags(track, Route, NoFix, Limits, waits)
Keys(flags) == {Drive!Key(f) : f \in flags}

\* The stretches of readings that pass the test with no gap in between,
\* and no longer one around them.
Whole(points, Test(_)) ==
  LET fits(i, j) == /\ \A k \in i..j : Test(points[k])
                    /\ \A k \in i..(j - 1) : points[k + 1].at - points[k].at <= 2
      pairs == {<<i, j>> \in (DOMAIN points) \X (DOMAIN points) : i <= j /\ fits(i, j)}
  IN {q \in pairs : ~ \E p \in pairs : p # q /\ p[1] <= q[1] /\ q[2] <= p[2]}

(* An episode is a longest stretch of readings that pass and that follow   *)
(* each other within the gap, none left out, none broken in two, none      *)
(* joined across a gap (_runs).                                            *)
ASSUME RunsAreTheWholeStretches ==
  \A t \in Drives(4) :
    LET points == Drive!Points(t, Route, NoFix)
        still(p) == p.speed <= 3
    IN {r.run : r \in Drive!Runs(points, {p \in Range(points) : still(p)})}
         = {SubSeq(points, q[1], q[2]) : q \in Whole(points, still)}

(* Readings that arrive later only extend what was found: no flag, no      *)
(* en-route stop disappears or changes kind or start when the trip goes on *)
(* (flags are keyed by kind and start).                                    *)
ASSUME LaterReadingsOnlyExtend ==
  \A t \in Drives(4), waits \in Waits :
    Keys(Found(SubSeq(t, 1, 3), waits)) \subseteq Keys(Found(t, waits))

(* Readings that arrive late, of a time before others already stored, can  *)
(* take a flag away: that is why an open one is deleted again.             *)
ASSUME LateReadingsTakeAway ==
  \E t \in Drives(4) :
    ~ Keys(Found(<<t[1], t[2], t[4]>>, {})) \subseteq Keys(Found(t, {}))

(* The time between two readings that no reading covers is held against    *)
(* nobody: a track with every reading after a gap has no overspeed and no  *)
(* stop.                                                                   *)
ASSUME NothingInTheGaps ==
  \A p \in [1..4 -> Places], waits \in Waits :
    \A f \in Found(DriveAlong(p, <<3, 3, 3, 3>>), waits) : f.kind = "slow_stretch"

(* A stop the van makes at a home pickup within the allowed wait is never  *)
(* an unscheduled or an en-route stop.                                     *)
ASSUME AllowedWaitIsNoStop ==
  \A t \in Drives(3) :
    LET wait == [arrived |-> t[1].at, left |-> t[1].at + 4] IN
    t[3].at <= t[1].at + 4 =>
      \A f \in Found(t, {wait}) : f.kind \in {"overspeed", "slow_stretch"}

(* Stored flags follow the readings whatever order they are uploaded in:   *)
(* what is open and undisputed is what all the readings together show, a   *)
(* flag that was reviewed or disputed stays whatever late readings show,   *)
(* and each flag has one row.                                              *)
OnTheRoad == [status |-> "departed", departed |-> 0, rental |-> FALSE]
Judged(rows, review, dispute) ==
  {[r EXCEPT !.review = review, !.dispute = dispute] : r \in rows}
ASSUME StoredFlagsFollowReadings ==
  \A t \in Drives(4), <<review, dispute>> \in
      {<<"open", "none">>, <<"reviewed", "none">>, <<"open", "closed">>} :
    LET early == Found(<<t[1], t[2], t[4]>>, {})
        all == Found(t, {})
        rows == Judged(Drive!Review(OnTheRoad, {}, early), review, dispute)
        after == Drive!Review(OnTheRoad, rows, all)
    IN /\ Found(<<t[4], t[1], t[3], t[2]>>, {}) = all
       /\ Cardinality(after) = Cardinality(Keys(after))
       /\ {[kind |-> r.kind, start |-> r.start, end |-> r.end] :
             r \in {q \in after : Drive!Key(q) \in Keys(all)}} = all
       /\ <<review, dispute>> = <<"open", "none">> => Keys(after) = Keys(all)
       /\ <<review, dispute>> # <<"open", "none">> => Keys(rows) \subseteq Keys(after)
       /\ Drive!Review(OnTheRoad, after, all) = after
       /\ Drive!Alerted(after, all) = {}

(* A disputed flag is decided only through its dispute, a looked-at one    *)
(* never again, and nothing is dismissed without a reason (mark).          *)
ASSUME MarkedOnceAndWithReason ==
  \A review \in {"open", "reviewed", "dismissed"}, dispute \in {"none", "open", "closed"},
     kind \in {"overspeed", "en_route_stop"}, status \in {"reviewed", "dismissed"},
     note \in BOOLEAN :
    LET row == [kind |-> kind, start |-> 0, end |-> 1, review |-> review, dispute |-> dispute]
        once == Drive!Mark({row}, row, status, note)
        again == {Drive!Mark(once, r, s, TRUE) : r \in once, s \in {"reviewed", "dismissed"}}
    IN /\ (once # {row}) =>
            /\ review = "open" /\ dispute # "open"
            /\ kind = "overspeed" /\ (note \/ status = "reviewed")
            /\ again = {once}

(* A rental is flagged for exactly its long enough stretches above its one *)
(* limit (rental_flags).                                                   *)
ASSUME RentalOnlyOverspeed ==
  \A t \in Drives(4) :
    LET points == Drive!Points(t, <<>>, NoFix)
        long == {q \in Whole(points, LAMBDA p : p.speed > 60) :
                   points[q[2]].at - points[q[1]].at >= 2}
    IN Keys(Drive!RentalFlags(t)) = {<<"overspeed", points[q[1]].at>> : q \in long}

(* A stretch is timed on the first passage: from the last reading in one   *)
(* stop's zone to the first in the next, with none in either in between.   *)
ASSUME FirstPassageIsTimed ==
  \A t \in Drives(4) : \A f \in Found(t, {}) :
    LET points == Drive!Points(t, Route, NoFix)
        before == {i \in DOMAIN points : points[i].at < f.end}
    IN f.kind = "slow_stretch" =>
         /\ f.end - f.start > 3
         /\ \A i, j \in before : i < j /\ points[i].zone = 1 => points[j].zone # 2
         /\ \A i \in before : points[i].at > f.start => points[i].zone = NoFix

(* The readings judged begin with the one before the departure, so that a  *)
(* van that leaves the terminal's zone has its first stretch timed.        *)
ASSUME FirstStretchTimedFromTheTerminal ==
  \A t \in Drives(3), departed \in 0..10 :
    LET used == Drive!Readings(t, departed) IN
    /\ used # <<>> /\ IsSuffix(used, t)
    /\ \A i \in 2..Len(used) : used[i].at >= departed
    /\ \A i \in DOMAIN t : t[i].at >= departed => t[i] \in Range(used)
=============================================================================
