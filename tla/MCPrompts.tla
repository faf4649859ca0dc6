----------------------------- MODULE MCPrompts -----------------------------
(* A small instance of Prompts for TLC. *)
EXTENDS Prompts
=============================================================================
