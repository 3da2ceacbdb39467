---------------------------- MODULE ArcHistoryMC ----------------------------
(* Small instances of ArcHistory for TLC. *)
EXTENDS ArcHistory, TLC

CONSTANTS c1, c2

Symmetry == Permutations(Cycle)

S(x, y, same) == [stagnation |-> x, flow |-> y, sameSensor |-> same]

\* Much and little stagnation, with and without flow.
Scores ==
  {<<S(4, 1, TRUE), S(1, 1, FALSE)>>,
   <<S(1, 3, TRUE), Null>>,
   <<S(2, 0, FALSE), S(4, 0, TRUE)>>}

\* Ranks that four samples tell apart from the least and the greatest value.
High == <<3, 4>>
Lower == <<1, 3>>
Upper == <<2, 3>>
=============================================================================
