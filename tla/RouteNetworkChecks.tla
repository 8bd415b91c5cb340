-------------------------- MODULE RouteNetworkChecks --------------------------
(***************************************************************************)
(* Every network that a few calls can make of three open terminals and one *)
(* route, and two calls that overlap.                                      *)
(***************************************************************************)
EXTENDS Integers, Sequences, FiniteSets, Functions, TLC

N == INSTANCE RouteNetwork WITH ExpectedSpeed <- 10

At(t, offset) == [terminal |-> t, offset |-> offset]
There == <<At("A", 0), At("B", 5)>>
Longer == <<At("A", 0), At("C", 9), At("B", 5)>>
Back == <<At("C", 0), At("A", 8)>>
Built == [terminals |-> [t \in {"A", "B", "C"} |->
                           [open |-> TRUE, x |-> CASE t = "A" -> 0 [] t = "B" -> 500
                                                   [] t = "C" -> 800]],
          routes |-> "AB" :> [stops |-> There, active |-> TRUE],
          stretches |-> "AB" :> <<>>, templates |-> {}]

Codes == {"AB", "CA"}
Edited(net) == {N!EditTerminal(net, t, open, x) :
                  <<t, open, x>> \in {<<u, o, y>> \in {"A", "C"} \X BOOLEAN \X {0, 90, 800} :
                                        ~N!EditTerminalRefused(net, u, o)}}
Created(net) == {N!CreateRoute(net, "CA", s) :
                   s \in {r \in {Back, Longer, There} : ~N!CreateRouteRefused(net, "CA", r)}}
Switched(net) == {N!EditRoute(net, c, active) :
                    <<c, active>> \in {<<d, a>> \in Codes \X BOOLEAN :
                                         ~N!EditRouteRefused(net, d, a)}}
Limited(net) == {N!SetStretches(net, c, <<60>>, 100) :
                   c \in {d \in Codes : ~N!SetStretchesRefused(net, d, <<60>>)}}
Scheduled(net) == {N!CreateTemplate(net, c, [id |-> c, route |-> c, days |-> {0, 1},
                                             at |-> 9, from |-> 7, until |-> 8, active |-> TRUE]) :
                     c \in {d \in Codes : ~N!CreateTemplateRefused(net, d)}}
Toggled(net) == {N!ToggleTemplate(net, t, a) : t \in net.templates, a \in BOOLEAN}
Called(net) == {net} \cup Edited(net) \cup Created(net) \cup Switched(net)
               \cup Limited(net) \cup Scheduled(net) \cup Toggled(net)
Networks[n \in 0..4] ==
  IF n = 0 THEN {Built} ELSE UNION {Called(net) : net \in Networks[n - 1]}

OpenStops(net) ==
  \A c \in DOMAIN net.routes : net.routes[c].active =>
    \A i \in DOMAIN net.routes[c].stops :
      net.terminals[net.routes[c].stops[i].terminal].open

(* An active route only ever stops at open terminals, whatever was closed, *)
(* reopened, created, deactivated and put back, one call after the other   *)
(* (edit_terminal, create_route, edit_route); and every stretch has the    *)
(* length, the place along the route and the time its terminals' places    *)
(* give it now, also after a terminal moved (_measure_stretches).          *)
ASSUME NetworkStaysConsistent ==
  \A net \in Networks[4] :
    /\ OpenStops(net)
    /\ \A c \in DOMAIN net.stretches : net.stretches[c] # <<>> =>
         net.stretches[c] = N!Measured(net.terminals, net.routes[c].stops, <<60>>, 100)

(* Two calls at once are not one after the other: a terminal is closed     *)
(* after the check that no active route stops there, while a route that    *)
(* stops there is created or put back into service after its check that    *)
(* the terminal is open.                                                   *)
ASSUME ClosedUnderANewRoute ==
  /\ ~N!EditTerminalRefused(Built, "C", FALSE)
  /\ ~N!CreateRouteRefused(Built, "CA", Back)
  /\ ~OpenStops(N!CreateRoute(N!EditTerminal(Built, "C", FALSE, 800), "CA", Back))

ASSUME ClosedUnderARouteReturning ==
  LET idle == N!EditRoute(Built, "AB", FALSE) IN
  /\ ~N!EditTerminalRefused(idle, "A", FALSE)
  /\ ~N!EditRouteRefused(idle, "AB", TRUE)
  /\ ~OpenStops(N!EditRoute(N!EditTerminal(idle, "A", FALSE, 0), "AB", TRUE))

(* The timetable generated again, for the same day or after the route was  *)
(* switched off, later that day or the next, adds no second trip of a      *)
(* departure, none outside its days and none that has gone, and a trip of  *)
(* every leg of its route (generate_trips).                                *)
ASSUME OneTripPerDeparture ==
  \A net \in Networks[3], first, again \in 6..9, hour \in {0, 9} :
    LET once == N!Generate(net, {}, first, 7 * 24 + hour)
        twice == N!Generate(net, once, again, 8 * 24 + hour)
        due == N!Due(net, first, 7 * 24 + hour)
    IN /\ again = first => twice = once
       /\ \A p, q \in twice : p.template = q.template /\ p.day = q.day => p = q
       /\ \A p \in once : p.day \in (IF hour = 0 THEN {7, 8} ELSE {8}) /\ p.legs >= 1
       /\ {p.template : p \in once} = {t.id : t \in due}
       /\ \A t \in due : net.routes[t.route].active
=============================================================================
