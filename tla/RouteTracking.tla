----------------------------- MODULE RouteTracking -----------------------------
(***************************************************************************)
(* NAHGM: where on its route a van is, and when it reaches the stops ahead *)
(* (application/tracking/nahgm.py, geometry.py).  Operators on plain       *)
(* values; the road is a line and a position a whole number of kilometres  *)
(* along it, so that distance and interpolation stay exact.                *)
(*   stop     [x, fence, offset]     fence = None when the terminal has no *)
(*                                   geofence; offset in minutes           *)
(*   reading  [at, x, kph, near]     kph = None when not reported          *)
(***************************************************************************)
EXTENDS Integers, Sequences, SequencesExt, FiniteSets

CONSTANTS
  None,
  DefaultFence,    \* default_geofence_radius_m
  DepartRadius,    \* depart_zone_radius_m, or None while unset
  DepartReadings,  \* depart_readings, or None while unset
  StaleAfter,      \* tracking_stale_after_seconds
  MinMoving,       \* MIN_MOVING_KPH
  SpeedWindow,     \* SPEED_WINDOW
  LastResort       \* the speed when nothing else is known, 40 km/h

Abs(n) == IF n < 0 THEN -n ELSE n
Clamp(x, a, b) ==
  LET low == IF a < b THEN a ELSE b
      high == IF a < b THEN b ELSE a
  IN IF x < low THEN low ELSE IF x > high THEN high ELSE x

\* The first index with the least value: the loops keep the first best.
LeastAt(values) ==
  CHOOSE k \in DOMAIN values :
    \A j \in DOMAIN values : values[k] < values[j] \/ (values[k] = values[j] /\ k <= j)

Along(stops, k) == FoldLeft(LAMBDA d, j : d + Abs(stops[j + 1].x - stops[j].x), 0,
                            [j \in 1..(k - 1) |-> j])

\* The nearest point of the straight stretches between the stops.
Snap(x, stops) ==
  IF Len(stops) < 2 THEN [stretch |-> None, from |-> None]
  ELSE LET best == LeastAt([k \in 1..(Len(stops) - 1) |->
                               Abs(x - Clamp(x, stops[k].x, stops[k + 1].x))])
       IN [stretch |-> best,
           from |-> Along(stops, best)
                    + Abs(Clamp(x, stops[best].x, stops[best + 1].x) - stops[best].x)]

MatchToNode(x, stops) ==
  IF stops = <<>> THEN [stop |-> None, dist |-> None]
  ELSE LET away == [k \in DOMAIN stops |-> Abs(x - stops[k].x)]
           best == LeastAt(away)
       IN [stop |-> best, dist |-> away[best]]

\* The route's own zone once its stretches are set, else the geofence.
Zone(stop, routeZone) ==
  IF routeZone \notin {None, 0} THEN routeZone
  ELSE IF stop.fence \notin {None, 0} THEN stop.fence
  ELSE DefaultFence

(* The reading as it is filed, with the stop it is nearest to.             *)
Filed(at, x, kph, stops) ==
  [at |-> at, x |-> x, kph |-> kph, near |-> MatchToNode(x, stops).stop]

(* A fix goes on the trip the van was on, is kept against the van while it *)
(* has none, or is history of a trip that has since completed.             *)
Filing(status, completed, at) ==
  CASE status = "no_trip" -> "held"
    [] status = "completed" /\ completed # None /\ at <= completed -> "late"
    [] status = "completed" /\ (completed = None \/ at > completed) -> "ignored"
    [] status = "cancelled" -> "ignored"
    [] OTHER -> "recorded"

NewestFirst(readings) == SortSeq(readings, LAMBDA p, q : p.at > q.at)
FirstOf(n, s) == SubSeq(s, 1, IF Len(s) < n THEN Len(s) ELSE n)

\* The departure rule: the last readings all outside the zone and moving.
LeftZone(readings, terminal) ==
  /\ DepartRadius # None /\ DepartReadings # None
  /\ LET last == FirstOf(DepartReadings, NewestFirst(readings)) IN
     /\ Len(last) = DepartReadings
     /\ \A i \in DOMAIN last :
          /\ Abs(last[i].x - terminal.x) > DepartRadius
          /\ last[i].kph = None \/ last[i].kph >= MinMoving

\* Linear between the readings on either side of the moment.
PositionAt(readings, at) ==
  LET all == {readings[i] : i \in DOMAIN readings}
      before == {p \in all : p.at <= at}
      after == {p \in all : p.at > at}
      a == CHOOSE p \in before : \A q \in before : q.at <= p.at
      b == CHOOSE p \in after : \A q \in after : q.at >= p.at
  IN IF all = {} THEN None
     ELSE IF before = {} THEN b.x
     ELSE IF after = {} THEN a.x
     ELSE a.x + ((at - a.at) * (b.x - a.x)) \div (b.at - a.at)

\* In words: at a stop inside its zone, else between the stretch's stops.
General(stretch, near, dist, stops, routeZone) ==
  IF near # None /\ dist # None /\ dist <= Zone(stops[near], routeZone)
  THEN <<near>> ELSE <<stretch, stretch + 1>>

Geotag(readings, at, fix, stops, routeZone) ==
  LET x == IF fix # None THEN fix ELSE PositionAt(readings, at)
      snap == Snap(x, stops)
      near == MatchToNode(x, stops)
  IN IF x = None THEN None
     ELSE IF Len(stops) < 2 THEN [x |-> x, stretch |-> None, general |-> None]
     ELSE [x |-> x, stretch |-> snap.stretch, from |-> snap.from,
           near |-> near.stop, dist |-> near.dist,
           general |-> General(snap.stretch, near.stop, near.dist, stops, routeZone)]

\* A stored geotag in words; nothing when the route lost the stretch since.
Place(tag, stops, routeZone) ==
  IF tag.stretch = None \/ tag.stretch + 1 > Len(stops) THEN None
  ELSE General(tag.stretch, tag.near, tag.dist, stops, routeZone)

\* The average of what was reported, else the pace of the schedule.
EstimateSpeed(pings, stops) ==
  LET told == SelectSeq(pings, LAMBDA p : p.kph # None)
      sum == FoldLeft(LAMBDA s, p : s + p.kph, 0, told)
      minutes == {stops[k].offset : k \in DOMAIN stops}
      total == CHOOSE m \in minutes : \A n \in minutes : n <= m
      km == Along(stops, Len(stops))
  IN IF told # <<>> /\ sum >= MinMoving * Len(told) THEN sum \div Len(told)
     ELSE IF Len(stops) >= 2 /\ total > 0 /\ km > 0 THEN (km * 60) \div total
     ELSE LastResort

\* Node to node from the position on; no arrival while the van stands.
Etas(x, from, stops, kph, now) ==
  LET ahead(k) == Abs(stops[from + 1].x - x)
                  + (Along(stops, k) - Along(stops, from + 1))
  IN [k \in (from + 1)..Len(stops) |->
        [dist |-> ahead(k),
         eta |-> IF kph >= MinMoving THEN now + (ahead(k) * 60) \div kph ELSE None]]

CurrentPosition(readings, stops, now) ==
  LET pings == FirstOf(SpeedWindow, NewestFirst(readings))
      latest == pings[1]
      kph == EstimateSpeed(pings, stops)
  IN IF readings = <<>> THEN None
     ELSE [x |-> latest.x, near |-> latest.near,
           kph |-> IF latest.kph \notin {None, 0} THEN latest.kph ELSE kph,
           stale |-> now - latest.at > StaleAfter,
           etas |-> Etas(latest.x, IF latest.near = None THEN 1 ELSE latest.near,
                         stops, kph, latest.at)]

History(readings, limit) == Reverse(FirstOf(limit, NewestFirst(readings)))

\* The fleet map: the trips under way that have reported.
ActiveFleet(trips) ==
  {t \in trips : /\ t.status \in {"boarding", "departed"}
                 /\ t.readings # <<>>}
=============================================================================
