---------------------------- MODULE MCAcceptance ----------------------------
(* Instances of Acceptance small enough for TLC. *)
EXTENDS Acceptance, TLC

CONSTANTS q1, q2, q3, k1, k2

Symmetry == Permutations(Request) \cup Permutations(Key)
=============================================================================
