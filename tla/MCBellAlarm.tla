---------------------------- MODULE MCBellAlarm -----------------------------
(* Model checking of BellAlarm. *)
EXTENDS BellAlarm
=============================================================================
