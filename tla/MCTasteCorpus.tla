--------------------------- MODULE MCTasteCorpus ---------------------------
(* An instance of TasteCorpus small enough for TLC. *)
EXTENDS TasteCorpus, TLC

CONSTANTS hvac, repair, home, general, r1, seed, a, b, i, j

(* Two scenarios of one label, of which the evaluation asks for the first; *)
(* it may get all of a triad, or one of its variants only.                 *)
Two == {hvac, repair}
Places == [s \in Two |-> IF s = hvac THEN 1 ELSE 2]
Home == [s \in Two |-> home]
One == [r \in {r1} |-> hvac]
First == [r \in {r1} |-> 1]
AllOrOne == {Index} \cup {{n} : n \in Index}
Indices == Permutations(Index)

Strings == {"1.0", "1.1", "2.0"}
UpToDot == [v \in Strings |-> IF v = "2.0" THEN "2" ELSE "1"]

(* Two requests: one of version 2 whose industry contains a key of each    *)
(* scenario, the first's the longer one, and one with a string of its own. *)
Asked ==
  [q \in {a, b} |-> IF q = a
     THEN [version |-> "2.0", label |-> home, fallback |-> FALSE,
           match |-> [s \in Two |-> IF s = hvac THEN 7 ELSE 4]]
     ELSE [version |-> "1.1", label |-> home, fallback |-> TRUE,
           match |-> [s \in Two |-> 0]]]
=============================================================================
