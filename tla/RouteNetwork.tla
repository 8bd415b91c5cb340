----------------------------- MODULE RouteNetwork -----------------------------
(***************************************************************************)
(* Terminals, routes, their stretches and the timetable, as the office     *)
(* configures them (api/v1/config.py).  A call is a condition and an       *)
(* effect on the network                                                   *)
(*   [terminals, routes, stretches, templates]                             *)
(*   terminal  id -> [open, x, fence]      x in metres along a line        *)
(*   route     code -> [stops, active]     stops = <<[terminal, offset]>>  *)
(*   stretches code -> <<[from, length, limit, zone, expected]>>           *)
(*   templates set of [id, route, days, at, from, until, active]           *)
(* so that a check can take the two at different moments.  The commit      *)
(* takes no lock between them.                                             *)
(***************************************************************************)
EXTENDS Integers, Sequences, FiniteSets, SequencesExt, Functions

CONSTANT ExpectedSpeed    \* expected_speed_kmh in force, here in m per s

Distance(a, b) == IF a < b THEN b - a ELSE a - b

\* The nearest whole second, half of one to the even side, never negative.
Seconds(metres) ==
  LET s == metres \div ExpectedSpeed
      rest == 2 * (metres % ExpectedSpeed)
      up == rest > ExpectedSpeed \/ (rest = ExpectedSpeed /\ s % 2 = 1)
  IN IF metres <= 0 THEN 0 ELSE IF up THEN s + 1 ELSE s

ActiveRoutesAt(net, t) ==
  {c \in DOMAIN net.routes :
     net.routes[c].active /\ \E i \in DOMAIN net.routes[c].stops :
                               net.routes[c].stops[i].terminal = t}

Through(net, t) ==
  {c \in DOMAIN net.routes : \E i \in DOMAIN net.routes[c].stops :
                               net.routes[c].stops[i].terminal = t}

\* Each stretch stop to stop along the line, less the zone at either end.
Measured(terminals, stops, limits, zone) ==
  LET x(i) == terminals[stops[i].terminal].x
      length(k) == Distance(x(k), x(k + 1))
      before(k) == FoldLeft(LAMBDA d, j : d + length(j), 0, [j \in 1..(k - 1) |-> j])
  IN [k \in 1..(Len(stops) - 1) |->
        [from |-> before(k), length |-> length(k), limit |-> limits[k],
         zone |-> zone, expected |-> Seconds(length(k) - 2 * zone)]]

\* ------------------------------------------------------------ terminals
CreateTerminal(net, t, x) ==
  IF t \in DOMAIN net.terminals THEN net
  ELSE [net EXCEPT !.terminals = (t :> [open |-> TRUE, x |-> x]) @@ @]

\* A terminal closes only while no active route stops there.
EditTerminalRefused(net, t, open) ==
  t \notin DOMAIN net.terminals \/ (~open /\ ActiveRoutesAt(net, t) # {})

\* Moving it measures the stretches of every route through it again, with
\* their limits and zone.
EditTerminal(net, t, open, x) ==
  LET terminals == [net.terminals EXCEPT ![t] = [open |-> open, x |-> x]]
      again == {c \in Through(net, t) :
                  x # net.terminals[t].x /\ net.stretches[c] # <<>>}
      limits(c) == [k \in DOMAIN net.stretches[c] |-> net.stretches[c][k].limit]
  IN [net EXCEPT
        !.terminals = terminals,
        !.stretches = [c \in DOMAIN @ |->
          IF c \in again
          THEN Measured(terminals, net.routes[c].stops, limits(c), @[c][1].zone)
          ELSE @[c]]]

\* --------------------------------------------------------------- routes
CreateRouteRefused(net, code, stops) ==
  \/ Len(stops) < 2
  \/ \E i, j \in DOMAIN stops : i # j /\ stops[i].terminal = stops[j].terminal
  \/ stops[1].offset # 0
  \/ \E i \in 2..Len(stops) : stops[i].offset < stops[i - 1].offset
  \/ \E i \in DOMAIN stops : \/ stops[i].terminal \notin DOMAIN net.terminals
                             \/ ~net.terminals[stops[i].terminal].open
  \/ code \in DOMAIN net.routes

CreateRoute(net, code, stops) ==
  [net EXCEPT !.routes = (code :> [stops |-> stops, active |-> TRUE]) @@ @,
              !.stretches = (code :> <<>>) @@ @]

\* Back into service only while every terminal it stops at is open.
EditRouteRefused(net, code, active) ==
  \/ code \notin DOMAIN net.routes
  \/ /\ active /\ ~net.routes[code].active
     /\ \E i \in DOMAIN net.routes[code].stops :
          ~net.terminals[net.routes[code].stops[i].terminal].open

EditRoute(net, code, active) == [net EXCEPT !.routes[code].active = active]

\* ------------------------------------------------------------ stretches
SetStretchesRefused(net, code, limits) ==
  \/ code \notin DOMAIN net.routes
  \/ Len(limits) # Len(net.routes[code].stops) - 1
  \/ \E k \in DOMAIN limits : limits[k] \notin 1..200

SetStretches(net, code, limits, zone) ==
  [net EXCEPT !.stretches[code] =
     Measured(net.terminals, net.routes[code].stops, limits, zone)]

\* ------------------------------------------------------------ timetable
CreateTemplateRefused(net, code) ==
  code \notin DOMAIN net.routes \/ ~net.routes[code].active

CreateTemplate(net, code, t) ==
  [net EXCEPT !.templates = @ \cup {[t EXCEPT !.route = code, !.active = TRUE]}]

ToggleTemplate(net, template, active) ==
  [net EXCEPT !.templates = (@ \ {template}) \cup {[template EXCEPT !.active = active]}]

\* The departures of a day that are still ahead, times in hours of the
\* first day; the mask is of weekdays, until = 0 for no end.
Departure(t, day) == 24 * day + t.at

Due(net, day, now) ==
  {t \in net.templates :
     /\ t.active /\ net.routes[t.route].active
     /\ t.from <= day /\ (t.until = 0 \/ day <= t.until)
     /\ day % 7 \in t.days
     /\ Departure(t, day) > now}

\* One trip of a template and a day, however often it is run.
Generate(net, trips, day, now) ==
  trips \cup {[template |-> t.id, day |-> day, legs |-> Len(net.routes[t.route].stops) - 1] :
                 t \in {d \in Due(net, day, now) :
                          /\ Len(net.routes[d.route].stops) >= 2
                          /\ ~ \E p \in trips : p.template = d.id /\ p.day = day}}
=============================================================================
