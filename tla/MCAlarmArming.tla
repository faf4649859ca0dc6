--------------------------- MODULE MCAlarmArming ----------------------------
(* Model checking of AlarmArming. *)
EXTENDS AlarmArming
=============================================================================
