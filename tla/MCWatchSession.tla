--------------------------- MODULE MCWatchSession ---------------------------
(* Model checking of WatchSession. *)
EXTENDS WatchSession
=============================================================================
