----------------------------- MODULE CallPhase -----------------------------
(***************************************************************************)
(* What the four threads of BellCall promise together: one call at a time, *)
(* going through its phases in order, and one way to fail, a collision of  *)
(* two endings, after which nothing more is promised.                      *)
(***************************************************************************)
VARIABLE phase

Phases == {"idle", "ringing", "waiting", "agreed", "talking", "over", "lost"}

Init == phase = "idle"

Move(from, to) == phase = from /\ phase' = to

Press == Move("idle", "ringing")
Wait == Move("ringing", "waiting")
Agree == Move("waiting", "agreed")
Talk == Move("agreed", "talking")
Finish == Move("talking", "over")
Release == Move("over", "idle")
Unanswered == Move("waiting", "idle")

\* The ending of the previous call strikes the one that has just begun.
Collide == Move("ringing", "lost") \/ Move("waiting", "lost")

Next ==
  \/ Press \/ Wait \/ Agree \/ Talk \/ Finish \/ Release \/ Unanswered \/ Collide

Spec == Init /\ [][Next]_phase
=============================================================================
