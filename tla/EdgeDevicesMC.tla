---------------------------- MODULE EdgeDevicesMC ----------------------------
(* Small instances of EdgeDevices for TLC. *)
EXTENDS EdgeDevices, TLC

CONSTANTS r1, r2, r3, p1, q1, q2, e1, e2

\* One page with two points, and a camera for each of them.
OnePageOwnerOf == (q1 :> p1) @@ (q2 :> p1)
OnePageEventOf == (p1 :> e1) @@ (1 :> e1) @@ (2 :> e1)

\* A third camera, of another event.
CascadeEventOf == OnePageEventOf @@ (3 :> e2)

\* One page with one point, which two cameras may take in turn.
OnePointOwnerOf == q1 :> p1

Symmetry == Permutations(Request) \cup Permutations(Point)
RequestSymmetry == Permutations(Request)
=============================================================================
