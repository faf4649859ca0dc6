----------------------------- MODULE MCP2PTable -----------------------------
(* Model checking of P2PTable: a table of three slots: one of them may be given up in the walk run, two in the full one. *)
EXTENDS P2PTable
=============================================================================
