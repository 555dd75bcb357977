------------------------- MODULE MCRuntimeSession -------------------------
(* An instance of RuntimeSession for TLC. *)
EXTENDS RuntimeSession, TLC

CONSTANTS s1, s2, r1, r2

Symmetry == Permutations(Requests)
=============================================================================
