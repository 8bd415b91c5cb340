-------------------------- MODULE RouteTrackingChecks --------------------------
(***************************************************************************)
(* NAHGM over every small track: a route of three stops, straight or bent  *)
(* back on itself, positions of -1 to 9 km, minutes 0 to 6.                *)
(***************************************************************************)
EXTENDS Integers, Sequences

NoPlace == -99
Track == INSTANCE RouteTracking WITH None <- NoPlace,
           DefaultFence <- 1, DepartRadius <- 2, DepartReadings <- 2, StaleAfter <- 3,
           MinMoving <- 5, SpeedWindow <- 2, LastResort <- 40

Stop(x, fence, offset) == [x |-> x, fence |-> fence, offset |-> offset]
Straight == << Stop(0, NoPlace, 0), Stop(4, 2, 4), Stop(8, 0, 12) >>
Bent == << Stop(0, NoPlace, 0), Stop(8, 2, 8), Stop(4, 0, 12) >>
Roads == -1..9
Zones == {NoPlace, 0, 2}
Ping(at, x, kph) == Track!Filed(at, x, kph, Straight)
Tracks(n) == {s \in [1..n -> {Ping(at, x, kph) : at \in 0..3, x \in {0, 2, 3, 6},
                                                 kph \in {NoPlace, 0, 12}}] :
                \A i \in 1..(n - 1) : s[i].at < s[i + 1].at}

(* The stretch a place is snapped to contains its distance from the start, *)
(* and on a straight route the nearest stop is one of its two ends, so the *)
(* place is never told as between two stops it is not between (_general).  *)
ASSUME SnapAgreesWithNearestStop ==
  \A x \in Roads, stops \in {Straight, Bent} :
    LET s == Track!Snap(x, stops)
        n == Track!MatchToNode(x, stops)
    IN /\ s.from \in Track!Along(stops, s.stretch)..Track!Along(stops, s.stretch + 1)
       /\ stops = Straight => n.stop \in {s.stretch, s.stretch + 1}
       /\ stops = Straight /\ x = 4 => s.stretch = 1 /\ n.stop = 2

(* A geotag told again from what was stored reads as it did when it was    *)
(* made, as long as the route keeps the stretch (place).                   *)
ASSUME StoredPlaceReadsTheSame ==
  \A x \in Roads, stops \in {Straight, Bent}, z \in Zones :
    LET g == Track!Geotag(<<>>, 0, x, stops, z) IN
    /\ Track!Place(g, stops, z) = g.general
    /\ g.stretch = 2 => Track!Place(g, SubSeq(stops, 1, 2), z) = NoPlace

(* Without a fix of its own an event is placed between the two readings    *)
(* around it, at a reading's own position at its time, and nowhere only    *)
(* when the trip has no reading (_position_at).                            *)
ASSUME PlacedBetweenReadings ==
  \A s \in Tracks(2), at \in 0..4 :
    LET x == Track!PositionAt(s, at) IN
    /\ x = Track!Clamp(x, s[1].x, s[2].x)
    /\ \A i \in 1..2 : s[i].at = at => x = s[i].x
    /\ Track!PositionAt(<<>>, at) = NoPlace

(* One stray reading outside the zone departs nothing: with two readings   *)
(* asked for, an earlier one inside the zone or standing still holds the   *)
(* trip (left_zone).                                                       *)
ASSUME OneStrayReadingDepartsNothing ==
  \A s \in Tracks(3) :
    Track!LeftZone(s, Straight[1]) <=>
      \A i \in 2..3 : s[i].x > 2 /\ s[i].kph \notin {0}

(* The same reading filed twice, as a fix uploaded again after a lost      *)
(* answer is (the table has no key against it), counts as two and departs  *)
(* the trip.                                                               *)
ASSUME StrayReadingSentTwiceDeparts ==
  \E s \in Tracks(2) :
    /\ ~ Track!LeftZone(s, Straight[1])
    /\ Track!LeftZone(Append(s, s[2]), Straight[1])

(* The stops ahead are reached in order, each further than the one before, *)
(* none before the report, and a van that stands gets no arrival at all    *)
(* (_compute_etas, current_position).                                      *)
ASSUME StopsAheadInOrder ==
  \A s \in Tracks(2), stops \in {Straight, Bent}, now \in {3, 9} :
    LET pos == Track!CurrentPosition(s, stops, now)
        ks == DOMAIN pos.etas
    IN /\ pos.stale <=> now - s[2].at > 3
       /\ ks = (s[2].near + 1)..3
       /\ pos.kph > 0
       /\ \A k \in ks : pos.etas[k].eta # NoPlace /\ pos.etas[k].eta >= s[2].at
       /\ \A j, k \in ks : j < k => /\ pos.etas[j].dist < pos.etas[k].dist
                                    /\ pos.etas[j].eta <= pos.etas[k].eta

(* A fix of a completed trip is its history up to the completion and       *)
(* nothing after it; a trip still open takes every fix (fixes).            *)
ASSUME LateFixesAreHistory ==
  \A st \in {"scheduled", "boarding", "departed", "completed", "cancelled"},
     done \in {NoPlace} \cup 0..3, at \in 0..3 :
    LET f == Track!Filing(st, done, at) IN
    /\ f = "recorded" <=> st \in {"scheduled", "boarding", "departed"}
    /\ f = "late" => at <= done
    /\ st = "cancelled" => f = "ignored"

(* The trail drawn is the newest readings, oldest first (track_history).   *)
ASSUME TrailIsTheNewestInOrder ==
  \A s \in Tracks(3), limit \in 1..4 :
    Track!History(s, limit) = SubSeq(s, (IF limit < 3 THEN 4 - limit ELSE 1), 3)
=============================================================================
