----------------------------- MODULE PhoneEvidence -----------------------------
(***************************************************************************)
(* Did the edge phone watch the trip?  The four reasons a trip becomes     *)
(* Unaudited (application/edge/evidence.py), and the status reports they   *)
(* are read from (EdgeIngestion.heartbeats).  Operators on plain values:   *)
(* the checks at the end compare the walk over the reports with what it    *)
(* should find, for every small set of reports.                            *)
(*   report    [device, at, works, gps, lens]                              *)
(*   checkout  [device, van, out, back]       back = Never while it is out *)
(*   trip      [van, started, completed, audit, since]                     *)
(* "works" is camera_ok.  Times are minutes.                               *)
(***************************************************************************)
EXTENDS Integers, Sequences, FiniteSets, SequencesExt

CONSTANTS
  Gap,       \* the policy heartbeat_gap_seconds
  Never      \* no time

Covers(r) == r.works /\ r.gps /\ ~r.lens

\* The first reason stands, with the time it is counted from.
Marked(trip, reason, at) ==
  IF trip.audit = "audited"
  THEN [trip EXCEPT !.audit = reason, !.since = at]
  ELSE trip

LatestReport(device, reports) ==
  LET mine == {r \in reports : r.device = device} IN
  CHOOSE r \in mine : \A q \in mine : q.at <= r.at

(* At the start the phone is judged by its newest report alone; a GPS that *)
(* does not work is only a warning.                                        *)
AtStart(trip, checkouts, reports, now) ==
  LET out == {c \in checkouts : c.van = trip.van /\ c.back = Never}
      phone == (CHOOSE c \in out : TRUE).device
      last == LatestReport(phone, reports)
  IN
  IF out = {} THEN Marked(trip, "no_phone", now)
  ELSE IF \/ ~ \E r \in reports : r.device = phone
          \/ now - last.at > Gap
       THEN Marked(trip, "silent_at_start", now)
  ELSE IF last.lens \/ ~last.works THEN Marked(trip, "lens_blocked", now)
  ELSE trip

(* The phones that were with the van during the trip and what they         *)
(* reported from one gap before the start.                                 *)
WithVan(trip, checkouts, now) ==
  {c.device : c \in {d \in checkouts :
     /\ d.van = trip.van
     /\ d.out <= (IF trip.completed = Never THEN now ELSE trip.completed)
     /\ d.back = Never \/ d.back >= trip.started}}

Heard(trip, checkouts, reports, now) ==
  {r \in reports :
     /\ r.device \in WithVan(trip, checkouts, now)
     /\ r.at >= trip.started - Gap
     /\ trip.completed # Never => r.at <= trip.completed}

\* One step of the walk; seen is how far the trip is covered.
Judge(walk, report) ==
  LET t == walk.trip IN
  IF t.audit # "audited" THEN walk
  ELSE IF report.at > walk.seen + Gap
    THEN [walk EXCEPT !.trip = Marked(t, "lost_en_route", walk.seen)]
  ELSE IF report.lens /\ report.at >= t.started
    THEN [walk EXCEPT !.trip = Marked(t, "lens_blocked", report.at)]
  ELSE IF Covers(report) /\ report.at > walk.seen
    THEN [walk EXCEPT !.seen = report.at]
  ELSE walk

(* Called after reports arrive and when the trip ends.  While it is open   *)
(* the time since the newest report is not judged.                         *)
ReviewCoverage(trip, checkouts, reports, now) ==
  IF \/ trip.audit # "audited"
     \/ trip.started = Never
     \/ WithVan(trip, checkouts, now) = {}
  THEN trip
  ELSE
    LET order == SetToSortSeq(Heard(trip, checkouts, reports, now),
                              LAMBDA a, b : a.at < b.at)
        walk == FoldLeft(Judge, [trip |-> trip, seen |-> trip.started], order)
    IN IF trip.completed # Never /\ trip.completed > walk.seen + Gap
       THEN Marked(walk.trip, "lost_en_route", walk.seen)
       ELSE walk.trip

(* A batch of reports: those already stored are left out, the pool shows   *)
(* the newest one, and every trip they fall in is judged again.            *)
Stored(device, batch, reports) ==
  reports \cup
  {r \in batch : ~ \E q \in reports : q.device = device /\ q.at = r.at}

Newest(last, batch) ==
  LET top == CHOOSE r \in batch : \A q \in batch : q.at <= r.at IN
  IF last = Never \/ top.at > last THEN top.at ELSE last

TripsDuring(device, first, last, trips, checkouts) ==
  {t \in trips :
     /\ t.started # Never
     /\ t.started <= last
     /\ t.completed = Never \/ t.completed >= first - Gap
     /\ \E c \in checkouts :
          /\ c.device = device /\ c.van = t.van
          /\ c.out <= last
          /\ c.back = Never \/ c.back >= first}

Heartbeats(device, batch, trips, checkouts, reports, now) ==
  LET all == Stored(device, batch, reports)
      times == {r.at : r \in batch}
      first == CHOOSE x \in times : \A y \in times : x <= y
      last == CHOOSE x \in times : \A y \in times : x >= y
      hit == TripsDuring(device, first, last, trips, checkouts)
  IN [reports |-> all,
      trips |-> (trips \ hit) \cup
                {ReviewCoverage(t, checkouts, all, now) : t \in hit}]

(* The tick that alerts the office of a phone that went silent: for the    *)
(* trip of the van that started last, unless this silence was told already.*)
SilentTrip(checkout, last, trips, now) ==
  LET open == {t \in trips : /\ t.van = checkout.van
                             /\ t.started # Never /\ t.completed = Never
                             /\ t.audit = "audited"}
  IN IF checkout.back = Never /\ (last = Never \/ last < now - Gap)
     THEN {t \in open : \A u \in open : u.started <= t.started}
     ELSE {}

Alerts(trip, last, told) ==
  LET since == IF last # Never /\ last > trip.started THEN last ELSE trip.started
  IN ~ \E n \in told : n > since
=============================================================================
