----------------------------- MODULE MCRuntime -----------------------------
(* Instances of Runtime small enough for TLC. *)
EXTENDS Runtime, TLC

CONSTANTS a, b, c

Symmetry == Permutations(Request)
=============================================================================
