------------------------------ MODULE MCPulse ------------------------------
(* A tree for TLC: two children of the root, of which one is final, and a   *)
(* child of each.                                                          *)
EXTENDS Pulse

Mixed == [p \in Children |-> CASE p = "c" -> "a" [] p = "d" -> "b" [] OTHER -> "root"]
=============================================================================
