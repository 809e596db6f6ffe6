------------------------ MODULE PackWorkerInvariant ------------------------
(***************************************************************************)
(* The inductive invariant behind the safety properties of PackWorker:     *)
(* what the rows, the tool calls and the summary of a slot are at every    *)
(* point of the worker, relative to the slot it is working on.             *)
(***************************************************************************)
EXTENDS PackWorker

(* Nothing was written for the slot on this path. *)
Untouched(r, p, s) == row[<<r, p, s>>] = "absent" /\ toolCalls[<<r, p, s>>] = "none"

(* The slot has no batch row, or an abandoned one. *)
BatchIdle(r, s) == /\ row[<<r, "batch", s>>] \in {"absent", "failed"}
                   /\ toolCalls[<<r, "batch", s>>] = "none"

Fresh(r, s) == /\ summary[r][s] = "none"
               /\ Untouched(r, "single", s) /\ Untouched(r, "batch", s)

(* Still to be generated one by one. *)
Waiting(r, s) == /\ summary[r][s] = "none"
                 /\ Untouched(r, "single", s) /\ BatchIdle(r, s)

(* Has its batch row, waits for the batch. *)
Batched(r, s) == /\ summary[r][s] = "none"
                 /\ Untouched(r, "single", s)
                 /\ row[<<r, "batch", s>>] = "pending"
                 /\ toolCalls[<<r, "batch", s>>] = "none"

Uploaded(r, p, s) == /\ row[<<r, p, s>>] = "uploaded"
                     /\ toolCalls[<<r, p, s>>] = "ok"
                     /\ s \in DriftSlots => <<r, p, s>> \in flagged

(* Decided: by its only live row, and the summary says so. *)
Decided(r, s) ==
  \/ summary[r][s] = "uploaded" /\ Uploaded(r, "single", s) /\ BatchIdle(r, s)
  \/ summary[r][s] = "uploaded" /\ Uploaded(r, "batch", s) /\ Untouched(r, "single", s)
  \/ /\ summary[r][s] = "failed" /\ BatchIdle(r, s)
     /\ row[<<r, "single", s>>] = "failed"
     /\ toolCalls[<<r, "single", s>>] = "error"

(* What the row of the current slot is at each step of its life. *)
RowAt(step) ==
  CASE step = "insert" -> "absent"
    [] step \in {"generate", "mark_failed", "mark_generated"} -> "pending"
    [] step \in {"upload", "mark_uploaded"} -> "generated"
    [] step \in {"flag_drift", "ok_call"} -> "uploaded"
    [] step = "error_call" -> "failed"

SingleOnly == {"insert", "generate", "mark_failed", "error_call"}

Working(r, s) ==
  /\ summary[r][s] = "none"
  /\ row[<<r, path[r], s>>] = RowAt(pc[r])
  /\ toolCalls[<<r, path[r], s>>] = "none"
  /\ IF path[r] = "batch" THEN Untouched(r, "single", s) ELSE BatchIdle(r, s)
  /\ pc[r] = "mark_uploaded" => <<r, path[r], s>> \in Keyed
  /\ pc[r] = "ok_call" /\ s \in DriftSlots => <<r, path[r], s>> \in flagged

Ended == {"roll_up", "mark_ok", "callback"}
Before == {"idle", "accepted", "acquire"}

(* The slot s at position i of the order, seen from the position of the task. *)
SlotInv(r, i, s) ==
  /\ pc[r] \in SlotSteps =>
       /\ i < cur[r] => Decided(r, s)
       /\ i = cur[r] => Working(r, s)
       /\ i > cur[r] => IF path[r] = "batch" THEN Batched(r, s) ELSE Waiting(r, s)
  /\ pc[r] \in BatchSteps /\ i = 1 => Decided(r, s)
  /\ pc[r] = "batch_insert" /\ i > 1 =>
       IF i < cur[r] THEN Batched(r, s) ELSE Waiting(r, s)
  /\ pc[r] = "batch_generate" /\ i > 1 => Batched(r, s)
  /\ pc[r] = "batch_abort" /\ i > 1 =>
       IF i < cur[r] THEN Waiting(r, s) ELSE Batched(r, s)
  /\ pc[r] \in Ended \/ runStatus[r] = "ok" \/ callback[r] # "none" => Decided(r, s)
  /\ pc[r] \in Before => Fresh(r, s)
  /\ i = 1 => Untouched(r, "batch", s)

(* Which path the task is on, and what closing a run leaves behind. *)
ControlInv(r) ==
  /\ pc[r] \in BatchSteps => path[r] = "batch"
  /\ pc[r] = "batch_generate" => cur[r] = 2
  /\ pc[r] \in SingleOnly \cup Before => path[r] = "single"
  /\ pc[r] \in Before => cur[r] = 1
  /\ path[r] = "batch" => cur[r] >= 2
  /\ pc[r] = "idle" => runStatus[r] = "absent" /\ pack[r] = NoPack
  /\ pc[r] \in {"accepted", "acquire"} \cup TryBlock => runStatus[r] = "running"
  /\ pc[r] = "except" => \/ runStatus[r] = "running"
                         \/ runStatus[r] = "ok" /\ "cancel" \in Faults
  /\ pc[r] = "callback" => runStatus[r] = "ok"
  /\ runStatus[r] = "ok" => /\ pc[r] \in {"callback", "except", "release", "done", "dead"}
                            /\ costBasis[r] = OkCalls(r)
  /\ pc[r] = "mark_ok" => costBasis[r] = OkCalls(r)
  /\ runStatus[r] \in {"ok", "failed"} => r \in finished
  /\ runStatus[r] = "absent" => pc[r] = "idle"
  /\ callback[r] # "none" => /\ pc[r] \in {"except", "release", "done", "dead"}
                             /\ \/ runStatus[r] = "ok"
                                \/ runStatus[r] = "failed" /\ "cancel" \in Faults
                             /\ callback[r] = PackStatusOf(r)

(* What holds of every row, also of the runs nobody works on any more. *)
RowInv(r, s) ==
  /\ \A p \in Path : /\ row[<<r, p, s>>] = "uploaded" => <<r, p, s>> \in Keyed
                     /\ toolCalls[<<r, p, s>>] = "ok" => row[<<r, p, s>>] = "uploaded"
  /\ row[<<r, "single", s>>] # "absent" => row[<<r, "batch", s>>] \in {"absent", "failed"}
  /\ pc[r] = "idle" \/ ~HasSlot(pack[r], s) => Fresh(r, s)
  /\ \A p \in Path : <<r, p, s>> \in conditionedOn =>
       /\ pc[r] # "idle"
       /\ s # pack[r].hero
       /\ summary[r][pack[r].hero] = "uploaded"
       /\ row[<<r, "single", pack[r].hero>>] = "uploaded"

RunInv(r) ==
  /\ ControlInv(r)
  /\ pc[r] # "idle" => \A i \in 1..Len(Order(r)), s \in Slot :
                          Order(r)[i] = s => SlotInv(r, i, s)
  /\ \A s \in Slot : RowInv(r, s)

WorkerInv == \A r \in Run : RunInv(r)
=============================================================================
