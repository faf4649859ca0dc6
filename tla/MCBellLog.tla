----------------------------- MODULE MCBellLog ------------------------------
(* Model checking of BellLog: a window of two or three rings that wraps. *)
EXTENDS BellLog
=============================================================================
