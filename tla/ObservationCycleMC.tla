-------------------------- MODULE ObservationCycleMC --------------------------
(* Small instances of ObservationCycle for TLC. *)
EXTENDS ObservationCycle, TLC

CONSTANTS
  c1, c2, a1, s1, s2, RequestProposalDelivery, RecordFeedbackValues

Symmetry ==
  UNION {Permutations(Cycle), Permutations(Anchor), Permutations(Sensors),
         Permutations(Procedure)}
=============================================================================
