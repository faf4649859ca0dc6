---------------------------- MODULE MCBellCall ----------------------------
(* Model checking of BellCall: the bounds are in the cfg files. *)
EXTENDS BellCall
=============================================================================
