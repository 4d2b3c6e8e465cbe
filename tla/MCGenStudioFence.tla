-------------------------- MODULE MCGenStudioFence --------------------------
(* Instances of GenStudioFence for TLC. *)
EXTENDS GenStudioFence, TLC

CONSTANTS j1, j2, a1, a2, k1, k2, b1, b2, p1, p2

Interchangeable == Permutations({a1, a2}) \cup Permutations({k1, k2})
                   \cup Permutations({b1, b2}) \cup Permutations({p1, p2})
=============================================================================
