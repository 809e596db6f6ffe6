--------------------------- MODULE MCColdStorage ---------------------------
(* An instance of ColdStorage small enough for TLC. *)
EXTENDS ColdStorage

CONSTANTS a1, r1
=============================================================================
