------------------------- MODULE HeartbeatLossHoldMC -------------------------
(* Small instances of HeartbeatLossHold for TLC. *)
EXTENDS HeartbeatLossHold, TLC

CONSTANTS e1, e2, p1, p2

Symmetry == Permutations(Evaluator) \cup Permutations(Page)
=============================================================================
