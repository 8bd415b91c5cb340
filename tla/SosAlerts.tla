------------------------------- MODULE SosAlerts -------------------------------
(***************************************************************************)
(* Emergency alerts (application/safety/sos.py, clients/sms_client.py).    *)
(* A call reads what it decides on and writes only the columns it changes, *)
(* with no lock between the two, so each operator takes what was seen and  *)
(* the table it is written to apart.                                       *)
(*   alert  id -> [by, role, status, ackBy, ackAt, resBy, resAt, raised]   *)
(*   sms    set of [alert, to, status]                                     *)
(*   told   set of [alert, to, what]      the in-app notifications         *)
(***************************************************************************)
EXTENDS Integers, Sequences, FiniteSets, Functions, TLC

CONSTANTS Nobody, Office   \* Office: the active managers and cashiers

Fresh(user, at) ==
  [by |-> user.id, role |-> user.role, status |-> "open", ackBy |-> Nobody, ackAt |-> 0,
   resBy |-> Nobody, resAt |-> 0, raised |-> at]

\* An alert may name a trip (at most one) only if its raiser is on it.
Aboard == {"confirmed", "checked_in", "boarded", "completed"}
Authorized(user, trips, bookings) ==
  \A trip \in trips :
    \/ user.role \in {"terminal_manager", "cashier", "admin"}
    \/ user.role = "dispatcher" /\ trip.dispatcher = user.id
    \/ user.role = "passenger" /\ \E b \in bookings : /\ b.passenger = user.id
                                                      /\ b.status \in Aboard

Standing(alerts, user) ==
  {id \in DOMAIN alerts : alerts[id].by = user.id /\ alerts[id].status # "resolved"}

\* Step 1 of a press: the alert and the notices are one commit.
Told(id, user, trips) ==
  {[alert |-> id, to |-> p, what |-> "raised"] :
     p \in (Office \cup {t.dispatcher : t \in trips}) \ {user.id, Nobody}}

Raise(seen, s, id, user, trips, at) ==
  IF Standing(seen.alerts, user) # {} THEN s
  ELSE [s EXCEPT !.alerts = (id :> Fresh(user, at)) @@ @,
                 !.told = @ \cup Told(id, user, trips)]

(* Steps 2 and 3: one request per number, each with its own outcome; a     *)
(* gateway that is off or not configured skips all of them.                *)
Outcomes(provider, reachable, to) ==
  IF provider \in {"disabled", "misconfigured"} THEN "skipped"
  ELSE IF to \in reachable THEN "sent" ELSE "failed"

Dispatch(s, id, provider, reachable, contacts) ==
  [s EXCEPT !.sms = @ \cup {[alert |-> id, to |-> n,
                             status |-> Outcomes(provider, reachable, n)] : n \in contacts}]

Summary(s, id) ==
  [st \in {"sent", "failed", "skipped"} |->
     Cardinality({r \in s.sms : r.alert = id /\ r.status = st})]

\* What the handset is answered; a second press repeats the standing alert.
Answer(seen, s, id, user) ==
  IF Standing(seen.alerts, user) # {} THEN "earlier SOS still open"
  ELSE IF {r \in s.sms : r.alert = id} = {} THEN "no SMS sent"
  ELSE IF Summary(s, id)["sent"] > 0 THEN "SMS sent" ELSE "SMS not delivered"

\* ------------------------------------------------------------ the office
DispositionRefused(seen, id, action, note) ==
  \/ seen.alerts[id].status = "resolved"
  \/ action = "acknowledge" /\ seen.alerts[id].status = "acknowledged"
  \/ action = "resolve" /\ ~note

Acknowledge(seen, s, id, by, at) ==
  IF DispositionRefused(seen, id, "acknowledge", TRUE) THEN s
  ELSE [s EXCEPT !.alerts[id].status = "acknowledged", !.alerts[id].ackBy = by,
                 !.alerts[id].ackAt = at,
                 !.told = @ \cup {[alert |-> id, to |-> seen.alerts[id].by,
                                   what |-> "acknowledged"]}]

\* One never acknowledged gets the stamp with the resolution.
Resolve(seen, s, id, by, at, note) ==
  IF DispositionRefused(seen, id, "resolve", note) THEN s
  ELSE [s EXCEPT !.alerts[id].status = "resolved", !.alerts[id].resBy = by,
                 !.alerts[id].resAt = at,
                 !.alerts[id].ackBy = IF seen.alerts[id].ackAt = 0 THEN by ELSE @,
                 !.alerts[id].ackAt = IF seen.alerts[id].ackAt = 0 THEN at ELSE @]

\* The work list: everything not yet resolved.
Queue(s, status) ==
  {id \in DOMAIN s.alerts :
     IF status = "open" THEN s.alerts[id].status # "resolved"
     ELSE s.alerts[id].status = status}
=============================================================================
