----------------------------- MODULE MCConnPool -----------------------------
(* Instances of ConnPool small enough for TLC. *)
EXTENDS ConnPool

CONSTANTS a, b, c

(* Tasks are interchangeable, and so are handlers that are the same.       *)
Mix(h, i, j) == [t \in {a, b, c} |-> IF t = a THEN h ELSE IF t = b THEN i ELSE j]

(* One or more requests to regenerate beside everything, and the workers   *)
(* beside one another.                                                     *)
SomeJobs ==
  {Mix(RegenerateSlot, RegenerateSlot, h) : h \in Handlers}
    \cup {Mix(RegenerateSlot, h, SlotTask) : h \in Handlers}
    \cup {Mix(VariantTask, h, PackTask) : h \in Handlers}
=============================================================================
