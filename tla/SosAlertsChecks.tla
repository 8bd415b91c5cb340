---------------------------- MODULE SosAlertsChecks ----------------------------
(***************************************************************************)
(* Emergencies over every history of four calls of two people and the      *)
(* office, one after the other, and of two calls that overlap.             *)
(***************************************************************************)
EXTENDS Integers, FiniteSets, Functions, TLC

Nobody == "nobody"
S == INSTANCE SosAlerts WITH Office <- {"tm", "cashier"}

Rider == [id |-> "rider", role |-> "passenger"]
Crew == [id |-> "crew", role |-> "dispatcher"]
Van == {[id |-> "v", dispatcher |-> "crew"]}
Empty == [alerts |-> [i \in {} |-> Nobody], sms |-> {}, told |-> {}]
Numbers == {"n1", "n2"}

(* A press records the alert, then the texts; the id is the time.          *)
Press(s, user, at, provider, reachable) ==
  LET raised == S!Raise(s, s, at, user, Van, at) IN
  IF raised = s THEN s ELSE S!Dispatch(raised, at, provider, reachable, Numbers)
Pressed(s, at) == {Press(s, u, at, p, r) : u \in {Rider, Crew},
                     p \in {"disabled", "gateway"}, r \in {{}, {"n1"}}}
Handled(s, at) ==
  {S!Acknowledge(s, s, id, "tm", at) : id \in DOMAIN s.alerts} \cup
  {S!Resolve(s, s, id, "cashier", at, n) : id \in DOMAIN s.alerts, n \in BOOLEAN}
Histories[n \in 0..4] ==
  IF n = 0 THEN {Empty}
  ELSE UNION {Pressed(s, n) \cup Handled(s, n) : s \in Histories[n - 1]}

(* The office sees one incident, not five: a person never has two alerts   *)
(* that are not resolved, each has been told to the whole office and to    *)
(* nobody who raised it, and every number of the list has one outcome.     *)
ASSUME OneIncidentAtATime ==
  \A s \in Histories[4] :
    /\ \A u \in {Rider, Crew} : Cardinality(S!Standing(s.alerts, u)) <= 1
    /\ \A id \in DOMAIN s.alerts :
         LET told == {n.to : n \in {m \in s.told : m.alert = id /\ m.what = "raised"}} IN
         /\ {"tm", "cashier"} \subseteq told /\ s.alerts[id].by \notin told
         /\ \A n \in Numbers :
              Cardinality({r \in s.sms : r.alert = id /\ r.to = n}) = 1

(* A resolved alert is acknowledged too, by somebody and no later, and     *)
(* nothing a later call does opens it again (execute of the disposition).  *)
ASSUME ResolvedIsTheEnd ==
  \A s \in Histories[3] : \A id \in DOMAIN s.alerts :
    s.alerts[id].status = "resolved" =>
      /\ s.alerts[id].ackAt \in 1..s.alerts[id].resAt
      /\ s.alerts[id].ackBy # Nobody /\ s.alerts[id].ackBy \in {"tm", "cashier"}
      /\ \A after \in Pressed(s, 4) \cup Handled(s, 4) : after.alerts[id] = s.alerts[id]

(* The answer never overstates delivery: "sent" only when a number got it. *)
ASSUME AnswerNeverOverstates ==
  \A p \in {"disabled", "misconfigured", "gateway"}, r \in SUBSET Numbers, c \in SUBSET Numbers :
    LET raised == S!Raise(Empty, Empty, 1, Rider, Van, 1)
        s == S!Dispatch(raised, 1, p, r, c)
        answer == S!Answer(Empty, s, 1, Rider)
    IN /\ answer = "SMS sent" <=> p = "gateway" /\ r \cap c # {}
       /\ answer = "no SMS sent" <=> c = {}

(* An alert names a trip only for its crew, the office, and a passenger    *)
(* with a seat on it that was not given up (_authorize_trip).              *)
ASSUME NoFalseAlarmOnACrew ==
  \A st \in {"confirmed", "checked_in", "boarded", "completed", "cancelled", "no_show"} :
    LET seats == {[passenger |-> "rider", status |-> st]} IN
    /\ S!Authorized(Rider, Van, seats) <=> st \notin {"cancelled", "no_show"}
    /\ S!Authorized(Crew, Van, {})
    /\ ~S!Authorized([id |-> "other", role |-> "dispatcher"], Van, seats)
    /\ S!Authorized(Rider, {}, {})

(* Overlapping, they are not so: two presses that both look before either  *)
(* is stored raise two alerts and two rounds of texts,                     *)
ASSUME TwoPressesAtOnce ==
  LET one == S!Raise(Empty, Empty, 1, Rider, Van, 1)
      two == S!Raise(Empty, one, 2, Rider, Van, 1)
  IN Cardinality(S!Standing(two.alerts, Rider)) = 2

(* and an acknowledgement that read the alert open and is stored after a   *)
(* resolution puts the resolved alert back on the work list.               *)
ASSUME AcknowledgedOverResolved ==
  LET raised == S!Raise(Empty, Empty, 1, Rider, Van, 1)
      resolved == S!Resolve(raised, raised, 1, "cashier", 2, TRUE)
      after == S!Acknowledge(raised, resolved, 1, "tm", 3)
  IN /\ resolved.alerts[1].status = "resolved"
     /\ 1 \in S!Queue(after, "open") /\ after.alerts[1].resAt = 2
=============================================================================
