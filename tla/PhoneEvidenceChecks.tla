-------------------------- MODULE PhoneEvidenceChecks --------------------------
(***************************************************************************)
(* What the Unaudited rule promises, over every small set of reports of    *)
(* two phones: gap 2, minutes 0 to 6, a trip that started at 1.            *)
(***************************************************************************)
EXTENDS Integers, FiniteSetsExt, Functions

NoMinute == -1
Evidence == INSTANCE PhoneEvidence WITH Never <- NoMinute, Gap <- 2

Shows == {[works |-> TRUE, gps |-> TRUE, lens |-> FALSE],
          [works |-> TRUE, gps |-> FALSE, lens |-> FALSE],
          [works |-> FALSE, gps |-> TRUE, lens |-> FALSE],
          [works |-> TRUE, gps |-> TRUE, lens |-> TRUE]}
Report(d, at, s) == [device |-> d, at |-> at,
                     works |-> s.works, gps |-> s.gps, lens |-> s.lens]
Reports(devices) == {Report(d, at, s) : d \in devices, at \in 0..6, s \in Shows}
UpTo(n, S) == {{}} \cup {Range(f) : f \in [1..n -> S]}
RideFrom(started, end) == [van |-> "v", started |-> started, completed |-> end,
                           audit |-> "audited", since |-> NoMinute]
Ride(end) == RideFrom(1, end)
OnePhone == {[device |-> "p", van |-> "v", out |-> 0, back |-> NoMinute]}
\* The first phone is swapped for a second at 3.
Swapped == {[device |-> "p", van |-> "v", out |-> 0, back |-> 3],
            [device |-> "q", van |-> "v", out |-> 3, back |-> NoMinute]}

(* What the walk looks for, without a walk: a report or the end of the     *)
(* trip that no covering report (or the start) precedes by at most the     *)
(* gap, or a covered lens; the earliest of them decides.                   *)
Watched(trip, heard) == {trip.started} \cup
                        {r.at : r \in {q \in heard : Evidence!Covers(q)}}
Late(trip, heard, at) ==
  at > trip.started
  /\ ~ \E c \in Watched(trip, heard) : c < at /\ at <= c + 2
Problems(trip, heard) ==
  {<<r.at, "lost_en_route">> : r \in {q \in heard : Late(trip, heard, q.at)}}
  \cup {<<r.at, "lens_blocked">> : r \in {q \in heard : /\ q.lens
                                                        /\ q.at >= trip.started
                                                        /\ ~Late(trip, heard, q.at)}}
Verdict(trip, heard) ==
  LET found == Problems(trip, heard)
      last == Max(Watched(trip, heard))
  IN IF found # {} THEN (CHOOSE p \in found : \A q \in found : p[1] <= q[1])[2]
     ELSE IF trip.completed # NoMinute /\ trip.completed > last + 2
       THEN "lost_en_route" ELSE "audited"

(* The walk marks the trip exactly when its reports leave an uncovered     *)
(* stretch longer than the gap or show a covered lens, with the earliest   *)
(* of the two as the reason (review_coverage).                             *)
ASSUME WalkFindsTheFirstProblem ==
  \A heard \in UpTo(3, Reports({"p"})), end \in {NoMinute, 5} :
    LET t == Ride(end) IN
    Evidence!ReviewCoverage(t, OnePhone, heard, 6).audit
      = Verdict(t, Evidence!Heard(t, OnePhone, heard, 6))

(* One phone that uploads its reports oldest first can be judged after     *)
(* every report: the marks are those of one review of all of them          *)
(* (heartbeats reviews the trips of every batch).                          *)
ASSUME ReviewedAsTheyCome ==
  \A heard \in UpTo(3, Reports({"p"})) :
    LET sent(at) == {r \in heard : r.at <= at}
        after[at \in -1..6] ==
          IF at = -1 THEN Ride(NoMinute)
          ELSE Evidence!ReviewCoverage(after[at - 1], OnePhone, sent(at), at)
    IN (\A r, s \in heard : r.at = s.at => r = s) =>
         after[6] = Evidence!ReviewCoverage(Ride(NoMinute), OnePhone, heard, 6)

(* Of two phones it is not so: the second one's first report can be judged *)
(* before the stored reports of the first arrive, and the mark stays       *)
(* although those cover the gap.                                           *)
ASSUME SwappedPhoneJudgedEarly ==
  \E early, late \in UpTo(2, {r \in Reports({"p", "q"}) : Evidence!Covers(r)}) :
    /\ \A r \in early : r.device = "q" /\ r.at >= 3
    /\ \A r \in late : r.device = "p" /\ r.at <= 3
    /\ LET first == Evidence!ReviewCoverage(Ride(NoMinute), Swapped, early, 6) IN
       /\ Evidence!ReviewCoverage(first, Swapped, early \cup late, 6).audit = "lost_en_route"
       /\ Evidence!ReviewCoverage(Ride(NoMinute), Swapped, early \cup late, 6).audit = "audited"

(* A batch sent again changes nothing, and reaches every trip whose        *)
(* verdict its reports could change (heartbeats, _trips_during).           *)
ASSUME BatchAgainAndEveryTrip ==
  \A batch \in UpTo(2, Reports({"p"})) \ {{}}, old \in UpTo(1, Reports({"p"})),
     started \in {1, 4}, end \in {NoMinute, 5} :
    LET t == RideFrom(started, end)
        once == Evidence!Heartbeats("p", batch, {t}, OnePhone, old, 6)
        twice == Evidence!Heartbeats("p", batch, once.trips, OnePhone, once.reports, 6)
        before == Evidence!ReviewCoverage(t, OnePhone, old, 6)
    IN /\ twice = once
       /\ Evidence!ReviewCoverage(before, OnePhone, once.reports, 6) # before
            => Evidence!ReviewCoverage(t, OnePhone, once.reports, 6) \in once.trips

(* At the start a trip without a phone, with a silent one, or with a       *)
(* covered lens never stays Audited; a phone whose last report is fresh    *)
(* and clear never marks it (at_start).                                    *)
ASSUME StartJudgesTheNewestReport ==
  \A heard \in UpTo(2, Reports({"p"})), out \in {{}, OnePhone} :
    LET t == Evidence!AtStart(Ride(NoMinute), out, heard, 6)
        fresh == {r \in heard : r.at >= 4}
    IN (\A r, s \in heard : r.at = s.at => r = s) =>
       (t.audit = "audited" <=>
          /\ out # {}
          /\ \E r \in fresh : ~r.lens /\ r.works /\ \A q \in heard : q.at <= r.at)

(* A silence is told once: the tick alerts for a silent phone of an        *)
(* audited trip under way, and not again until the phone has reported      *)
(* after the alert and gone silent once more (alert_silent_phones).        *)
ASSUME SilenceToldOnce ==
  \A started \in {1, 4}, last \in {NoMinute} \cup 0..6, at, again \in 2..9 :
    LET t == RideFrom(started, NoMinute)
        c == [device |-> "p", van |-> "v", out |-> 0, back |-> NoMinute]
    IN /\ at < again /\ at > started
       /\ t \in Evidence!SilentTrip(c, last, {t}, at)
       => /\ Evidence!Alerts(t, last, {})
          /\ ~ Evidence!Alerts(t, last, {at})
          /\ \A newer \in at..again : again - newer > 2 =>
               (Evidence!Alerts(t, newer, {at}) /\ t \in Evidence!SilentTrip(c, newer, {t}, again))

=============================================================================
