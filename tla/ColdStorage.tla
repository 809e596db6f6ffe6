---------------------------- MODULE ColdStorage ----------------------------
(***************************************************************************)
(* The cold-storage worker beside the regenerations and the inspector: one *)
(* SELECT of the superseded rows untouched for 30 days, then for every row *)
(* a server-side copy under cold/, a delete of the original and an UPDATE  *)
(* of the row by its id. No lock or re-read ties the four steps together.  *)
(***************************************************************************)
EXTENDS SlotLineage

VARIABLES
  step,         \* the next await of sweep_once, "sleep" between two sweeps
  todo,         \* the rows the sweep selected and has not finished with
  inHand,       \* the row whose object was copied
  interrupted   \* history: the rows whose move ended after the delete and
                \* before the UPDATE, through a fault or a crash

sweep == <<step, todo, inHand, interrupted>>
lineage == <<runs, permits, up, pc, request>>
coldVars == <<vars, sweep>>

ColdInit ==
  /\ Init
  /\ step = "sleep"
  /\ todo = {}
  /\ inHand = NoAsset
  /\ interrupted = {}

(* Thirty days pass without an UPDATE of the row; rows without an r2_key   *)
(* age too, but nothing looks at that.                                     *)
Age(a) ==
  /\ row[a] \in {"uploaded", "superseded"}
  /\ aged' = aged \cup {a}
  /\ UNCHANGED <<row, replacedBy, softDeleted, restored, key, url, bucket, lineage, sweep>>

(* Mutant: the SELECT does not look at the status. *)
EligibleAnyStatus == {a \in aged : key[a] \in {"warm", "unstored"}}

(* Mutant: the SELECT wants a replacement. *)
EligibleReplaced ==
  {a \in aged : /\ row[a] = "superseded" /\ replacedBy[a] # NoAsset
                /\ key[a] \in {"warm", "unstored"}}

Eligible == {a \in aged : row[a] = "superseded" /\ key[a] \in {"warm", "unstored"}}

StartSweep ==
  /\ up /\ step = "sleep"
  /\ Eligible # {}
  /\ todo' = Eligible /\ step' = "copy"
  /\ UNCHANGED <<rows, bucket, lineage, inHand, interrupted>>

(* The row is done with, moved or not: on to the next one, if any.         *)
NextRow(a) ==
  /\ todo' = todo \ {a}
  /\ step' = IF todo = {a} THEN "sleep" ELSE "copy"
  /\ inHand' = NoAsset

(* Mutant: the copy is not awaited. *)
CopyUnawaited(a) ==
  /\ step = "copy" /\ step' = "delete"
  /\ a \in todo /\ inHand' = a
  /\ <<a, "warm">> \in bucket
  /\ UNCHANGED <<rows, bucket, lineage, todo, interrupted>>

Copy(a) ==
  /\ step = "copy" /\ step' = "delete"
  /\ a \in todo /\ inHand' = a
  /\ <<a, "warm">> \in bucket
  /\ bucket' = bucket \cup {<<a, "cold">>}
  /\ UNCHANGED <<rows, lineage, todo, interrupted>>

(* The copy raises, because R2 does or because the object is not there:    *)
(* logged, and the row is left for the next sweep.                         *)
CopyFails(a) ==
  /\ step = "copy"
  /\ a \in todo
  /\ <<a, "warm">> \notin bucket \/ "r2" \in Faults
  /\ NextRow(a)
  /\ UNCHANGED <<rows, bucket, lineage, interrupted>>

Delete(a) ==
  /\ step = "delete" /\ step' = "update"
  /\ a = inHand
  /\ bucket' = bucket \ {<<a, "warm">>}
  /\ UNCHANGED <<rows, lineage, todo, inHand, interrupted>>

(* The delete raises, with the object still there or, when it is the       *)
(* answer that was lost, gone.                                             *)
DeleteFails(a) ==
  /\ "r2" \in Faults
  /\ step = "delete"
  /\ a = inHand
  /\ NextRow(a)
  /\ \/ UNCHANGED <<bucket, interrupted>>
     \/ /\ bucket' = bucket \ {<<a, "warm">>}
        /\ interrupted' = interrupted \cup {a}
  /\ UNCHANGED <<rows, lineage>>

(* Mutant: the UPDATE clears the URL and leaves the key as it was. *)
UpdateKeepsKey(a) ==
  /\ step = "update"
  /\ a = inHand
  /\ url' = url \ {a}
  /\ aged' = aged \ {a}
  /\ NextRow(a)
  /\ UNCHANGED <<row, replacedBy, softDeleted, restored, key, bucket, lineage, interrupted>>

(* UPDATE ... WHERE id, whatever the row's status is by now.               *)
Update(a) ==
  /\ step = "update"
  /\ a = inHand
  /\ key' = [key EXCEPT ![a] = "cold"]
  /\ url' = url \ {a}
  /\ aged' = aged \ {a}
  /\ NextRow(a)
  /\ UNCHANGED <<row, replacedBy, softDeleted, restored, bucket, lineage, interrupted>>

(* "DB update failed after R2 move": logged, and the row still names the   *)
(* object that was deleted.                                                *)
UpdateFails(a) ==
  /\ "database" \in Faults
  /\ step = "update"
  /\ a = inHand
  /\ NextRow(a)
  /\ interrupted' = interrupted \cup {a}
  /\ UNCHANGED <<rows, bucket, lineage>>

SweepRow(a) ==
  Copy(a) \/ CopyFails(a) \/ Delete(a) \/ DeleteFails(a) \/ Update(a) \/ UpdateFails(a)

(* The row whose object the sweep has just deleted, and not yet updated. *)
InHandOff(a) == step = "update" /\ inHand = a

(* The process dies, or the lifespan ends and cancels the worker at the    *)
(* await it is in.                                                         *)
StopSweep ==
  /\ Crash
  /\ interrupted' = interrupted \cup {a \in Asset : InHandOff(a)}
  /\ step' = "sleep" /\ todo' = {} /\ inHand' = NoAsset

ColdNext ==
  \/ (RequestStep \/ InspectorStep \/ Restart \/ Quiescent) /\ UNCHANGED sweep
  \/ StopSweep
  \/ StartSweep
  \/ \E a \in Asset : Age(a) \/ SweepRow(a)

(* The worker loops for ever, and R2 does not refuse the same object at    *)
(* every sweep. That a row ages is nobody's doing and is not fair.         *)
ColdFairness ==
  /\ WF_coldVars(StartSweep)
  /\ \A a \in Asset : /\ WF_coldVars(SweepRow(a))
                      /\ SF_coldVars(Copy(a)) /\ SF_coldVars(Delete(a))

ColdSpec == ColdInit /\ [][ColdNext]_coldVars
ColdFairSpec == ColdSpec /\ ColdFairness

-----------------------------------------------------------------------------
SweepTypeOK ==
  /\ TypeOK
  /\ step \in {"sleep", "copy", "delete", "update"}
  /\ todo \subseteq Asset /\ interrupted \subseteq Asset
  /\ inHand \in Asset \cup {NoAsset}

ObjectKept(a) ==
  /\ key[a] \in Prefix => <<a, "warm">> \in bucket \/ <<a, "cold">> \in bucket
  /\ key[a] = "cold" => <<a, "cold">> \in bucket /\ a \notin url

(* Whatever fails or dies between the copy, the delete and the UPDATE, and *)
(* whatever happens to the row meanwhile, an image that was ever stored is *)
(* in the bucket under one of its two keys, and a cold key never dangles   *)
(* nor keeps a public URL.                                                 *)
NoObjectLost == \A a \in Asset : ObjectKept(a)

(* The inductive invariant: what the sweep has of a row stays true while   *)
(* requests and the inspector go on changing it.                           *)
Unpublished == Unstarted \cup InFlight \cup {"upload", "mark_uploaded", "mark_unstored"}

SweepHolds ==
  /\ \A a \in todo : key[a] \in {"warm", "unstored"}
  /\ step \in {"delete", "update"} =>
       inHand \in todo /\ key[inHand] = "warm" /\ <<inHand, "cold">> \in bucket

RequestKeys ==
  \A r \in Request :
    /\ pc[r] \in Unpublished => key[r] = "none"
    /\ pc[r] = "mark_uploaded" => <<r, "warm">> \in bucket
    /\ pc[r] \in Unpublished \ {"mark_uploaded"} => <<r, "warm">> \notin bucket

UnstoredIsNowhere == \A a \in Asset : key[a] = "unstored" => <<a, "warm">> \notin bucket

SweepInv == SweepTypeOK /\ SweepHolds /\ RequestKeys /\ UnstoredIsNowhere /\ NoObjectLost

(* docs/retention.md: active assets remain on warm keys. (An image that    *)
(* was restored may have been moved, before or after, and one that was     *)
(* never stored has no object to keep.)                                    *)
ActiveStaysWarm ==
  \A a \in Asset : row[a] = "uploaded" /\ a \notin restored /\ key[a] # "unstored" =>
    key[a] = "warm" /\ a \in url /\ <<a, "warm">> \in bucket

(* A superseded row that is old enough is rotated, with its key, also      *)
(* after sweeps that failed or died at any of their steps, unless it is    *)
(* brought back, or the process is down, or one fault has struck between   *)
(* the delete of its object and the UPDATE of its key.                     *)
OldRowsGoCold ==
  \A a \in Asset :
    (up /\ a \in aged /\ row[a] = "superseded" /\ key[a] = "warm")
      ~> (key[a] = "cold" \/ row[a] # "superseded" \/ a \in interrupted \/ ~up)

-----------------------------------------------------------------------------
(* What of it is safety.                                                   *)

(* A sweep that is under way has a row left to work on, and the one it is  *)
(* moving is one of them, whose object is there until it is deleted.       *)
SweepHasWork ==
  /\ step = "sleep" <=> todo = {}
  /\ step \in {"delete", "update"} => inHand \in todo
  /\ step = "delete" => <<inHand, "warm">> \in bucket

(* Every step of a sweep finishes a row or gets further with the one in    *)
(* hand; nothing is added to it, whatever grows old meanwhile.             *)
SweepsEnd ==
  [][/\ step # "sleep" => todo' \subseteq todo
     /\ \A a \in Asset : SweepRow(a) =>
          \/ a \in todo /\ todo' = todo \ {a}
          \/ /\ todo' = todo /\ a \in todo /\ inHand' = a
             /\ <<step, step'>> \in {<<"copy", "delete">>, <<"delete", "update">>}]_coldVars

(* The row names an object that was deleted and nobody is about to correct *)
(* it.                                                                     *)
Stranded(a) == key[a] = "warm" /\ <<a, "warm">> \notin bucket /\ ~InHandOff(a)

(* A row is stranded by nothing but a failed UPDATE, a delete whose answer *)
(* was lost, or the end of the process in the middle of its move.          *)
StrandedByFault == \A a \in Asset : Stranded(a) => a \in interrupted

(* And it stays so: no later sweep, regeneration or inspector action finds *)
(* its object again or corrects its key.                                   *)
StrandedForGood == [][\A a \in Asset : Stranded(a) => Stranded(a)']_coldVars
=============================================================================
