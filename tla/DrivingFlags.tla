------------------------------ MODULE DrivingFlags ------------------------------
(***************************************************************************)
(* The driving flags found in a trip's GPS readings (tracking/driving.py)  *)
(* and how they are kept in step with the readings (tracking/flags.py).    *)
(*   stretch  [no, limit, expected]                                        *)
(*   wait     [arrived, left]         a home pickup; left = None at the pin*)
(*   flag     [kind, start, end]      end = None while it goes on          *)
(*   row      a flag with [review, dispute]                                *)
(* Times are minutes, speeds km/h.                                         *)
(***************************************************************************)
EXTENDS RouteTracking

CONSTANTS
  OverspeedFor,    \* overspeed_seconds
  StopFor,         \* stop_seconds
  SlowTolerance,   \* slow_tolerance_pct
  Standstill,      \* standstill_kmh
  GapFor,          \* heartbeat_gap_seconds
  PickupWait,      \* home_pickup_wait_minutes
  RentalLimit      \* special_trip_speed_kmh, None while unset

Later(a, b) == IF a > b THEN a ELSE b
Earlier(a, b) == IF a < b THEN a ELSE b
Overlap(a0, a1, b0, b1) == Later(0, Earlier(a1, b1) - Later(a0, b0))

(* minutes: of each wait, the part to count.                               *)
Total(minutes) == MapThenSumSet(LAMBDA w : minutes[w], DOMAIN minutes)

InTime(readings) == SortSeq(readings, LAMBDA p, q : p.at < q.at)

(* Each reading with its speed, reported or from the reading before it,    *)
(* and on a route with its stretch and the stop whose zone it is in.       *)
Point(points, prev, r, stops, routeZone) ==
  LET near == MatchToNode(r.x, stops)
      known == points # <<>>
  IN [at |-> r.at, x |-> r.x,
      speed |-> IF r.kph # None THEN r.kph
                ELSE IF known /\ r.at > prev.at
                  THEN (Abs(r.x - prev.x) * 60) \div (r.at - prev.at)
                ELSE IF known THEN prev.speed ELSE 0,
      stretch |-> Snap(r.x, stops).stretch,
      zone |-> IF near.stop # None /\ near.dist <= Zone(stops[near.stop], routeZone)
               THEN near.stop ELSE None]

Points(readings, stops, routeZone) ==
  FoldLeft(LAMBDA points, r :
             Append(points, Point(points, IF points = <<>> THEN r ELSE Last(points),
                                  r, stops, routeZone)),
           <<>>, InTime(readings))

(* The maximal runs of consecutive points that are among those and follow  *)
(* each other within the gap, each with the time of the point that ended   *)
(* it, None when the readings ended or a gap broke it.                     *)
Runs(points, those) ==
  LET walk(s, p) ==
        LET joined == s.run # <<>> /\ p.at - Last(s.run).at <= GapFor
            closed == [run |-> s.run, ended |-> IF joined /\ p \notin those THEN p.at ELSE None]
        IN IF p \in those
           THEN IF s.run # <<>> /\ ~joined
                THEN [runs |-> Append(s.runs, closed), run |-> <<p>>]
                ELSE [s EXCEPT !.run = Append(@, p)]
           ELSE IF s.run # <<>>
                THEN [runs |-> Append(s.runs, closed), run |-> <<>>]
                ELSE s
      end == FoldLeft(walk, [runs |-> <<>>, run |-> <<>>], points)
      all == IF end.run = <<>> THEN end.runs
             ELSE Append(end.runs, [run |-> end.run, ended |-> None])
  IN {all[i] : i \in DOMAIN all}

(* limits: what applies at each point.                                     *)
Overspeed(points, limits) ==
  LET over == {p \in Range(points) : limits[p] # None /\ p.speed > limits[p]}
      long == {r \in Runs(points, over) : Last(r.run).at - r.run[1].at >= OverspeedFor}
  IN {[kind |-> "overspeed", start |-> r.run[1].at,
       end |-> IF Last(r.run).at = Last(points).at THEN None ELSE Last(r.run).at] :
        r \in long}

(* A standstill away from every stop zone; one at a home pickup counts     *)
(* only past the allowed wait, and one still under way only once it        *)
(* qualifies.                                                              *)
StopKind(start, end, ongoing, waits) ==
  LET left(w) == IF w.left = None THEN end ELSE w.left
      atPickup == \E w \in waits : Overlap(start, end, w.arrived, left(w)) > 0
      allowed == Total([w \in waits |->
                   Overlap(start, end, w.arrived, Earlier(left(w), w.arrived + PickupWait))])
  IN IF end - start - allowed > StopFor THEN "unscheduled_stop"
     ELSE IF atPickup \/ ongoing \/ end <= start THEN "none"
     ELSE "en_route_stop"

Stops(points, waits) ==
  LET still == {r \in Runs(points, {p \in Range(points) : p.speed <= Standstill}) :
                r.run[1].zone = None}
      ongoing(r) == r.ended = None /\ Last(r.run).at = Last(points).at
      end(r) == IF r.ended # None THEN r.ended ELSE Last(r.run).at
      kind(r) == StopKind(r.run[1].at, end(r), ongoing(r), waits)
  IN {[kind |-> kind(r), start |-> r.run[1].at,
       end |-> IF ongoing(r) THEN None ELSE end(r)] :
        r \in {s \in still : kind(s) # "none"}}

(* A stretch is timed once, from the last reading in one zone to the first *)
(* in the next, less the declared wait in between.                         *)
SlowStretches(points, stretches, waits) ==
  LET zoned == SelectSeq(points, LAMBDA p : p.zone # None)
      entry(k) == {j \in 2..Len(zoned) :
                     zoned[j].zone = k + 1 /\ \E i \in 1..(j - 1) : zoned[i].zone = k}
      timed == {s \in stretches : s.expected > 0 /\ entry(s.no) # {}}
      enters(s) == CHOOSE j \in entry(s.no) : \A l \in entry(s.no) : j <= l
      leaves(s) == CHOOSE i \in 1..(enters(s) - 1) :
                     /\ zoned[i].zone = s.no
                     /\ \A l \in (i + 1)..(enters(s) - 1) : zoned[l].zone # s.no
      left(s) == zoned[leaves(s)].at
      entered(s) == zoned[enters(s)].at
      waited(s) == Total([w \in waits |->
        Overlap(left(s), entered(s), w.arrived,
                IF w.left = None THEN entered(s) ELSE w.left)])
      slow == {s \in timed : (entered(s) - left(s) - waited(s)) * 100
                               > s.expected * (100 + SlowTolerance)}
  IN {[kind |-> "slow_stretch", start |-> left(s), end |-> entered(s)] : s \in slow}

LimitOf(stretches) == [k \in {s.no : s \in stretches} |->
                         (CHOOSE s \in stretches : s.no = k).limit]

Flags(readings, stops, routeZone, stretches, waits) ==
  IF Len(stops) < 2 \/ readings = <<>> THEN {}
  ELSE LET points == Points(readings, stops, routeZone)
           limits == LimitOf(stretches)
       IN Overspeed(points, [p \in Range(points) |-> IF p.stretch \in DOMAIN limits
                                                     THEN limits[p.stretch] ELSE None])
          \cup Stops(points, waits)
          \cup SlowStretches(points, stretches, waits)

RentalFlags(readings) ==
  IF readings = <<>> \/ RentalLimit = None THEN {}
  ELSE LET points == Points(readings, <<>>, None)
       IN Overspeed(points, [p \in Range(points) |-> RentalLimit])

\* The readings from the departure on, with the one just before it.
Readings(pings, departed) ==
  LET all == InTime(pings)
      on == {i \in DOMAIN all : all[i].at >= departed}
      first == IF on = {} THEN Len(all) + 1 ELSE CHOOSE i \in on : \A j \in on : i <= j
  IN SubSeq(all, Later(1, first - 1), Len(all))

(* What is found is stored by kind and start; what is no longer found goes *)
(* while nobody has looked at it.                                          *)
Key(f) == <<f.kind, f.start>>
Reconciled(rows, found) ==
  LET of(f) == {r \in rows : Key(r) = Key(f)}
      row(f) == IF of(f) = {}
                THEN [kind |-> f.kind, start |-> f.start, end |-> f.end,
                      review |-> "open", dispute |-> "none"]
                ELSE [(CHOOSE r \in of(f) : TRUE) EXCEPT !.end = f.end]
      gone == {r \in rows : /\ Key(r) \notin {Key(f) : f \in found}
                            /\ r.review = "open" /\ r.dispute = "none"}
      kept == {r \in rows \ gone : Key(r) \notin {Key(f) : f \in found}}
  IN kept \cup {row(f) : f \in found}

\* The alerts of a run: its new flags, en-route stops left out.
Alerted(rows, found) ==
  {Key(f) : f \in {g \in found : /\ Key(g) \notin {Key(r) : r \in rows}
                                 /\ g.kind # "en_route_stop"}}

Review(trip, rows, found) ==
  IF trip.status \notin {"departed", "completed"} \/ trip.departed = None
     \/ (trip.rental /\ RentalLimit = None)
  THEN rows
  ELSE Reconciled(rows, found)

\* The Terminal Manager's review of an open flag; TRUE when it is refused.
MarkRefused(row, status, note) ==
  \/ row.kind = "en_route_stop"
  \/ row.review # "open"
  \/ row.dispute = "open"
  \/ status = "dismissed" /\ ~note

Mark(rows, row, status, note) ==
  IF MarkRefused(row, status, note) THEN rows
  ELSE (rows \ {row}) \cup {[row EXCEPT !.review = status]}
=============================================================================
