---------------------------- MODULE MCSeatBooking ----------------------------
(***************************************************************************)
(* Small instances of SeatBooking.  app1 travels both legs, app2 and the   *)
(* walk-up one, so that stretches of different length meet.                *)
(***************************************************************************)
EXTENDS SeatBooking, SosAlertsChecks

CONSTANTS app1, app2, cash

MCSource == [b \in Bookings |-> IF b = cash THEN "cash" ELSE "app"]

MCAlights == [b \in Bookings |-> IF b = app1 THEN 2 ELSE 1]
=============================================================================
