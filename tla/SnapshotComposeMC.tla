-------------------------- MODULE SnapshotComposeMC --------------------------
(* Small instances of SnapshotCompose for TLC. *)
EXTENDS SnapshotCompose, TLC

CONSTANTS c1, c2, q1, r1, p1, p2

\* A point seen by two cameras, a route with a QR code, and a point with the same
\* code that the graph does not have.
ThreeAnchors == (p1 :> {c1, c2}) @@ (r1 :> {q1}) @@ (p2 :> {q1})

Symmetry == Permutations(Camera)
=============================================================================
