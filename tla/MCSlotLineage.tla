--------------------------- MODULE MCSlotLineage ---------------------------
(* Instances of SlotLineage small enough for TLC. *)
EXTENDS SlotLineage, TLC

CONSTANTS a1, r1, r2

Symmetry == Permutations(Request)
=============================================================================
