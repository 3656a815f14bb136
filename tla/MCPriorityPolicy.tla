-------------------------- MODULE MCPriorityPolicy --------------------------
(* PriorityPolicy for TLC.                                                 *)
EXTENDS PriorityPolicy
=============================================================================
