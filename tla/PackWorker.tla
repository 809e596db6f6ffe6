---------------------------- MODULE PackWorker ----------------------------
(***************************************************************************)
(* The asset-pack pipeline: POST /images/asset-pack/generate inserts the   *)
(* agent_runs row and spawns one background task per pack; the task takes  *)
(* a permit of the shared semaphore, generates the first slot, then the    *)
(* remaining ones (as one pack-consistent batch when their provider can,   *)
(* one by one otherwise), stores every image in R2 and in                  *)
(* external_media_assets, rolls the cost up, closes the run and POSTs the  *)
(* completion callback.                                                    *)
(*                                                                         *)
(* Every SQL statement autocommits and every await is a point where other  *)
(* tasks run, the process dies or an exception surfaces: one action is the *)
(* code from one such point to the next.                                   *)
(***************************************************************************)
EXTENDS Naturals, FiniteSets, Sequences

CONSTANTS
  Run,                 \* agent_runs rows that may be created
  Slot,                \* slot ids
  Packs,               \* the validated payloads requests may carry
  MaxConcurrentPacks,  \* settings.max_concurrent_packs
  DriftSlots,          \* slots whose image fails check_palette_drift
  Faults,              \* the faults that may occur, see FaultKinds
  NoPack               \* no request accepted yet

FaultKinds == {"provider", "exception", "database", "callback", "crash",
               "cancel", "no_r2"}

(* What the worker reads of a payload: the generation order computed by    *)
(* _generation_slot_order, hero_slot_id (which need not be one of the      *)
(* slots), whether the remaining slots share a provider that supports      *)
(* pack-consistent generation, and the slots that ask to be conditioned on *)
(* the hero image.                                                         *)
PackType == [order : Seq(Slot), hero : Slot, batch : BOOLEAN,
             conditioned : SUBSET Slot]

HasSlot(p, s) == \E i \in 1..Len(p.order) : p.order[i] = s

ASSUME PacksAssumption ==
  /\ Packs \subseteq PackType
  /\ NoPack \notin Packs
  /\ \A p \in Packs :
       /\ Len(p.order) >= 1
       /\ \A i, j \in 1..Len(p.order) : p.order[i] = p.order[j] => i = j
       /\ HasSlot(p, p.hero) => p.order[1] = p.hero

ASSUME LimitsAssumption ==
  /\ MaxConcurrentPacks \in Nat \ {0}
  /\ IsFiniteSet(Run)
  /\ DriftSlots \subseteq Slot
  /\ Faults \subseteq FaultKinds

MaxRetries == 1        \* with_retry(..., max_retries=1)

(* A slot gets at most one row per way of generating it: a batch row that  *)
(* fails is never reused, the per-slot fallback inserts a row of its own.  *)
Path == {"single", "batch"}
Asset == Run \X Path \X Slot

VARIABLES
  \* the database
  runStatus,   \* agent_runs.status
  finished,    \* the runs whose finished_at is set
  costBasis,   \* the tool_calls rows the run's cost_cents was summed over
  row,         \* external_media_assets.status
  flagged,     \* assets whose metadata carries palette_drift
  toolCalls,   \* tool_calls rows, by the asset they report on
  \* R2 and the consumer
  bucket,      \* objects stored
  mocked,      \* assets with a key made up without an R2 client, and no object
  callback,    \* pack status POSTed to the consumer
  \* the process: semaphore, and the locals of each background task
  up, permits, pc, pack, path, cur, attempt, summary, conditionedOn

runs == <<runStatus, finished, costBasis>>
assets == <<row, flagged, toolCalls>>
stored == <<bucket, mocked>>
outside == <<bucket, mocked, callback>>
process == <<up, permits>>
locals == <<pack, path, cur, attempt, summary, conditionedOn>>
vars == <<runs, assets, outside, process, pc, locals>>

RunStatus == {"absent", "running", "ok", "failed"}
RowStatus == {"absent", "pending", "generated", "uploaded", "failed"}
PackStatus == {"complete", "partial", "failed"}

(* The awaits inside the try block of run_in_background. *)
SlotSteps == {"insert", "generate", "mark_failed", "error_call",
              "mark_generated", "upload", "mark_uploaded", "flag_drift",
              "ok_call"}
BatchSteps == {"batch_insert", "batch_generate", "batch_abort"}
TryBlock == SlotSteps \cup BatchSteps \cup {"roll_up", "mark_ok"}

Holding == TryBlock \cup {"callback", "except", "release"}
Handler == {"accepted"}
Live == Handler \cup {"acquire"} \cup Holding
PC == {"idle", "done", "dead"} \cup Live

-----------------------------------------------------------------------------
(* Helpers of the actions. *)

Order(r) == pack[r].order
SlotOf(r) == Order(r)[cur[r]]
AssetOf(r) == <<r, path[r], SlotOf(r)>>
IsLast(r) == cur[r] = Len(Order(r))
AssetsOf(r) == {a \in Asset : a[1] = r}
SlotsOf(r) == {s \in Slot : HasSlot(pack[r], s)}

(* The assets with a storage key: of an object, or a mock's. *)
Keyed == bucket \cup mocked

Goto(r, label) == pc' = [pc EXCEPT ![r] = label]

(* A step that moves the task on and writes nothing. *)
Moves(r, from, to) ==
  /\ pc[r] = from
  /\ Goto(r, to)
  /\ UNCHANGED <<runs, assets, outside, process, locals>>

(* mark_asset_generated, _uploaded and _failed: an UPDATE guarded by the   *)
(* status the row may come from; no other row state is touched.            *)
SetRow(r, from, to) ==
  /\ row[AssetOf(r)] \in from
  /\ row' = [row EXCEPT ![AssetOf(r)] = to]
  /\ UNCHANGED <<runs, flagged, toolCalls, outside, process>>

(* update_run_status(..., finished=True), from whatever the status was. *)
CloseRun(r, status) ==
  /\ runStatus' = [runStatus EXCEPT ![r] = status]
  /\ finished' = finished \cup {r}
  /\ UNCHANGED <<costBasis, assets, outside, process, locals>>

(* insert_tool_call, then the slot's summary. *)
Record(r, outcome) ==
  /\ toolCalls' = [toolCalls EXCEPT ![AssetOf(r)] = outcome]
  /\ UNCHANGED <<runs, row, flagged, outside, process, pack, attempt, conditionedOn>>

(* summaries.append(...) followed by the move to the next slot: after the  *)
(* first slot the worker picks the batch or the per-slot path.             *)
NextSlot(r, outcome) ==
  /\ summary' = [summary EXCEPT ![r][SlotOf(r)] = outcome]
  /\ \/ /\ IsLast(r)
        /\ Goto(r, "roll_up")
        /\ UNCHANGED <<cur, path>>
     \/ /\ ~IsLast(r)
        /\ cur' = [cur EXCEPT ![r] = @ + 1]
        /\ IF cur[r] = 1 /\ pack[r].batch
             THEN /\ path' = [path EXCEPT ![r] = "batch"]
                  /\ Goto(r, "batch_insert")
             ELSE /\ Goto(r, IF path[r] = "batch" THEN "mark_generated"
                                                  ELSE "insert")
                  /\ UNCHANGED path

(* Mutant: hero_bytes is used without asking whether the hero succeeded.   *)
HeroBytesUnchecked(r) == SlotOf(r) # pack[r].hero

(* hero_bytes is set only when the first slot is the hero and succeeded.   *)
HasHeroBytes(r) == /\ SlotOf(r) # pack[r].hero
                   /\ summary[r][pack[r].hero] = "uploaded"
WantsReference(r) == SlotOf(r) \in pack[r].conditioned /\ HasHeroBytes(r)

-----------------------------------------------------------------------------
Init ==
  /\ runStatus = [r \in Run |-> "absent"]
  /\ finished = {}
  /\ costBasis = [r \in Run |-> {}]
  /\ row = [a \in Asset |-> "absent"]
  /\ flagged = {}
  /\ toolCalls = [a \in Asset |-> "none"]
  /\ bucket = {} /\ mocked = {}
  /\ callback = [r \in Run |-> "none"]
  /\ up = TRUE
  /\ permits = MaxConcurrentPacks
  /\ pc = [r \in Run |-> "idle"]
  /\ pack = [r \in Run |-> NoPack]
  /\ path = [r \in Run |-> "single"]
  /\ cur = [r \in Run |-> 1]
  /\ attempt = [r \in Run |-> 0]
  /\ summary = [r \in Run |-> [s \in Slot |-> "none"]]
  /\ conditionedOn = {}

-----------------------------------------------------------------------------
(* The request handler. *)

(* insert_pending_run: the row exists, the task does not. *)
AcceptPack(r, p) ==
  /\ up
  /\ pc[r] = "idle"
  /\ runStatus' = [runStatus EXCEPT ![r] = "running"]
  /\ pack' = [pack EXCEPT ![r] = p]
  /\ Goto(r, "accepted")
  /\ UNCHANGED <<finished, costBasis, assets, outside, process,
                 path, cur, attempt, summary, conditionedOn>>

(* insert_payload_record, resolve_style_profile and the metadata update,   *)
(* then asyncio.create_task and the 202.                                   *)
SpawnTask(r) == Moves(r, "accepted", "acquire")

(* The handler raises between the insert and create_task (a lost race for  *)
(* the idempotency key, a database error): 500, and nobody owns the run.   *)
AbandonRequest(r) == "exception" \in Faults /\ Moves(r, "accepted", "dead")

-----------------------------------------------------------------------------
(* The background task. *)

AcquirePermit(r) ==
  /\ pc[r] = "acquire"
  /\ permits > 0
  /\ permits' = permits - 1
  /\ Goto(r, "insert")
  /\ UNCHANGED <<runs, assets, outside, up, locals>>

InsertPending(r) ==
  /\ pc[r] = "insert"
  /\ row' = [row EXCEPT ![AssetOf(r)] = "pending"]
  /\ attempt' = [attempt EXCEPT ![r] = 0]
  /\ Goto(r, "generate")
  /\ UNCHANGED <<runs, flagged, toolCalls, outside, process,
                 pack, path, cur, summary, conditionedOn>>

ProviderSucceeds(r) ==
  /\ pc[r] = "generate"
  /\ conditionedOn' = IF WantsReference(r) THEN conditionedOn \cup {AssetOf(r)}
                                           ELSE conditionedOn
  /\ Goto(r, "mark_generated")
  /\ UNCHANGED <<runs, assets, outside, process, pack, path, cur, attempt, summary>>

(* ProviderError or TimeoutError: with_retry calls once more, then raises  *)
(* RetryExhausted, which fails the slot and not the run.                   *)
ProviderFails(r) ==
  /\ "provider" \in Faults
  /\ \/ /\ pc[r] = "generate" /\ attempt[r] < MaxRetries
        /\ attempt' = [attempt EXCEPT ![r] = @ + 1]
        /\ UNCHANGED <<runs, assets, outside, process, pc,
                       pack, path, cur, summary, conditionedOn>>
     \/ attempt[r] = MaxRetries /\ Moves(r, "generate", "mark_failed")

MarkFailed(r) ==
  /\ pc[r] = "mark_failed" /\ Goto(r, "error_call")
  /\ SetRow(r, {"pending", "generated"}, "failed")
  /\ UNCHANGED locals

RecordErrorCall(r) ==
  /\ pc[r] = "error_call"
  /\ Record(r, "error")
  /\ NextSlot(r, "failed")

(* Mutant: the row is marked uploaded before the object is stored. *)
MarkGeneratedSkipsUpload(r) ==
  /\ pc[r] = "mark_generated" /\ Goto(r, "mark_uploaded")
  /\ SetRow(r, {"pending"}, "generated")
  /\ UNCHANGED locals

(* _finalize_slot_success: generated, object stored, uploaded, drift flag, *)
(* tool_calls row.                                                         *)
MarkGenerated(r) ==
  /\ pc[r] = "mark_generated" /\ Goto(r, "upload")
  /\ SetRow(r, {"pending"}, "generated")
  /\ UNCHANGED locals

Upload(r) ==
  /\ pc[r] = "upload" /\ Goto(r, "mark_uploaded")
  /\ \/ bucket' = bucket \cup {AssetOf(r)} /\ UNCHANGED mocked
     \/ "no_r2" \in Faults /\ mocked' = mocked \cup {AssetOf(r)} /\ UNCHANGED bucket
  /\ UNCHANGED <<runs, assets, callback, process, locals>>

(* Mutant: the drift patch of the finalization is dropped. *)
MarkUploadedUnflagged(r) ==
  /\ pc[r] = "mark_uploaded" /\ Goto(r, "ok_call")
  /\ SetRow(r, {"pending", "generated"}, "uploaded")
  /\ UNCHANGED locals

MarkUploaded(r) ==
  /\ pc[r] = "mark_uploaded"
  /\ SetRow(r, {"pending", "generated"}, "uploaded")
  /\ Goto(r, IF SlotOf(r) \in DriftSlots THEN "flag_drift" ELSE "ok_call")
  /\ UNCHANGED locals

FlagDrift(r) ==
  /\ pc[r] = "flag_drift" /\ Goto(r, "ok_call")
  /\ flagged' = flagged \cup {AssetOf(r)}
  /\ UNCHANGED <<runs, row, toolCalls, outside, process, locals>>

RecordOkCall(r) ==
  /\ pc[r] = "ok_call"
  /\ Record(r, "ok")
  /\ NextSlot(r, "uploaded")

-----------------------------------------------------------------------------
(* _maybe_generate_pack_consistent: rows for all remaining slots, one      *)
(* provider call, and either finalization slot by slot or the per-slot     *)
(* fallback.                                                               *)

(* The loops over the remainder: the next slot and the same label, or the  *)
(* first remaining slot and the label after the loop.                      *)
LoopRemainder(r, label) ==
  \/ /\ ~IsLast(r)
     /\ cur' = [cur EXCEPT ![r] = @ + 1]
     /\ UNCHANGED pc
  \/ /\ IsLast(r)
     /\ cur' = [cur EXCEPT ![r] = 2]
     /\ Goto(r, label)

BatchInsert(r) ==
  /\ pc[r] = "batch_insert"
  /\ row' = [row EXCEPT ![AssetOf(r)] = "pending"]
  /\ LoopRemainder(r, "batch_generate")
  /\ UNCHANGED <<runs, flagged, toolCalls, outside, process,
                 pack, path, attempt, summary, conditionedOn>>

BatchSucceeds(r) == Moves(r, "batch_generate", "mark_generated")

(* Mutant: the fallback starts without failing the batch rows. *)
BatchFailsToFallback(r) ==
  /\ "provider" \in Faults
  /\ pc[r] = "batch_generate" /\ Goto(r, "insert")
  /\ path' = [path EXCEPT ![r] = "single"]
  /\ UNCHANGED <<runs, assets, outside, process,
                 pack, cur, attempt, summary, conditionedOn>>

(* ProviderError only: a TimeoutError here is an exception of the run. *)
BatchFails(r) == "provider" \in Faults /\ Moves(r, "batch_generate", "batch_abort")

(* Mutant: the loop that fails the batch rows forgets the last one. *)
BatchAbortForgetsLast(r) ==
  /\ pc[r] = "batch_abort"
  /\ SetRow(r, {"pending", "generated"}, IF IsLast(r) THEN "pending" ELSE "failed")
  /\ LoopRemainder(r, "insert")
  /\ path' = IF IsLast(r) THEN [path EXCEPT ![r] = "single"] ELSE path
  /\ UNCHANGED <<pack, attempt, summary, conditionedOn>>

(* mark_asset_failed for every batch row, then the per-slot fallback. *)
BatchAbort(r) ==
  /\ pc[r] = "batch_abort"
  /\ SetRow(r, {"pending", "generated"}, "failed")
  /\ LoopRemainder(r, "insert")
  /\ path' = IF IsLast(r) THEN [path EXCEPT ![r] = "single"] ELSE path
  /\ UNCHANGED <<pack, attempt, summary, conditionedOn>>

-----------------------------------------------------------------------------
(* The end of the run. *)

OkCalls(r) == {a \in AssetsOf(r) : toolCalls[a] = "ok"}

(* Mutant: the callback goes out before the run is closed. *)
RollUpCostThenCallback(r) ==
  /\ pc[r] = "roll_up" /\ Goto(r, "callback")
  /\ costBasis' = [costBasis EXCEPT ![r] = OkCalls(r)]
  /\ finished' = finished \cup {r}
  /\ UNCHANGED <<runStatus, assets, outside, process, locals>>

(* roll_up_cost sums the run's tool_calls (rows of status error carry cost *)
(* 0) and sets finished_at while the run is still running.                 *)
RollUpCost(r) ==
  /\ pc[r] = "roll_up" /\ Goto(r, "mark_ok")
  /\ costBasis' = [costBasis EXCEPT ![r] = OkCalls(r)]
  /\ finished' = finished \cup {r}
  /\ UNCHANGED <<runStatus, assets, outside, process, locals>>

(* The run is ok whatever the slots' outcomes are. *)
MarkRunOk(r) ==
  /\ pc[r] = "mark_ok" /\ Goto(r, "callback")
  /\ CloseRun(r, "ok")

(* Mutant: one success makes the pack complete. *)
PackStatusOptimistic(r) ==
  IF \E s \in SlotsOf(r) : summary[r][s] = "uploaded" THEN "complete" ELSE "failed"

PackStatusOf(r) ==
  LET failedSlots == {s \in SlotsOf(r) : summary[r][s] = "failed"}
      okSlots == {s \in SlotsOf(r) : summary[r][s] = "uploaded"}
  IN IF failedSlots = {} THEN "complete"
     ELSE IF okSlots = {} THEN "failed" ELSE "partial"

(* _emit_callback: the body is the run's summaries and the pack status. *)
SendCallback(r, next) ==
  /\ pc[r] = "callback" /\ Goto(r, next)
  /\ callback' = [callback EXCEPT ![r] = PackStatusOf(r)]
  /\ UNCHANGED <<runs, assets, stored, process, locals>>

EmitCallback(r) == SendCallback(r, "release")

(* The POST fails: logged as non-fatal, never sent again. *)
LoseCallback(r) == "callback" \in Faults /\ Moves(r, "callback", "release")

(* Mutant: try/finally without the except block. *)
RaiseUnrecorded(r) ==
  "exception" \in Faults /\ \E step \in TryBlock : Moves(r, step, "release")

(* An await of the try block raises anything with_retry or the batch does  *)
(* not translate: a database or R2 error, a model without a rate for the   *)
(* slot's dimensions, an image PIL cannot open.                            *)
Raise(r) ==
  "exception" \in Faults /\ \E step \in TryBlock : Moves(r, step, "except")

(* The runner of the loop cancels what is left of a process whose shutdown *)
(* raised with the pool still open. CancelledError is no Exception: at the *)
(* callback, sent or not, it goes to the except clause of a run that is ok *)
(* already, and there it ends the task. Nothing is open while it waits for *)
(* its permit.                                                             *)
Cancel(r) ==
  /\ "cancel" \in Faults
  /\ \/ Moves(r, "acquire", "dead")
     \/ \E step \in TryBlock \cup {"callback"} : Moves(r, step, "except")
     \/ SendCallback(r, "except")
     \/ Moves(r, "except", "release")

(* Mutant: the permit is released on the normal way out only. *)
RecordFailureKeepsPermit(r) ==
  /\ pc[r] = "except" /\ Goto(r, "done")
  /\ CloseRun(r, "failed")

RecordFailure(r) ==
  /\ pc[r] = "except" /\ Goto(r, "release")
  /\ CloseRun(r, "failed")

(* "unable to persist failed agent_run status": the run stays running. *)
LoseFailure(r) == "database" \in Faults /\ Moves(r, "except", "release")

ReleasePermit(r) ==
  /\ pc[r] = "release" /\ Goto(r, "done")
  /\ permits' = permits + 1
  /\ UNCHANGED <<runs, assets, outside, up, locals>>

-----------------------------------------------------------------------------
(* The process dies, or is stopped with its pool closed, so that no task   *)
(* of it writes any more: the lifespan waits for none of them.             *)
Crash ==
  /\ "crash" \in Faults
  /\ up
  /\ up' = FALSE
  /\ pc' = [r \in Run |-> IF pc[r] \in Live THEN "dead" ELSE pc[r]]
  /\ UNCHANGED <<runs, assets, outside, permits, locals>>

(* The lifespan of the next process: a new semaphore, and no look at the   *)
(* runs the previous one left.                                             *)
Restart ==
  /\ ~up
  /\ up' = TRUE
  /\ permits' = MaxConcurrentPacks
  /\ UNCHANGED <<runs, assets, outside, pc, locals>>

Task(r) ==
  \/ InsertPending(r) \/ ProviderSucceeds(r) \/ ProviderFails(r)
  \/ MarkFailed(r) \/ RecordErrorCall(r)
  \/ MarkGenerated(r) \/ Upload(r) \/ MarkUploaded(r) \/ FlagDrift(r)
  \/ RecordOkCall(r)
  \/ BatchInsert(r) \/ BatchSucceeds(r) \/ BatchFails(r) \/ BatchAbort(r)
  \/ RollUpCost(r) \/ MarkRunOk(r) \/ EmitCallback(r) \/ LoseCallback(r)
  \/ Raise(r) \/ RecordFailure(r) \/ LoseFailure(r) \/ ReleasePermit(r)

(* Every run has ended or has lost its task: the service is quiescent. *)
Quiescent ==
  /\ up
  /\ \A r \in Run : pc[r] \in {"done", "dead"}
  /\ UNCHANGED vars

Next ==
  \/ \E r \in Run :
       \/ \E p \in Packs : AcceptPack(r, p)
       \/ SpawnTask(r) \/ AbandonRequest(r) \/ AcquirePermit(r) \/ Task(r) \/ Cancel(r)
  \/ Crash \/ Restart \/ Quiescent

(* The event loop keeps running ready tasks; the provider, R2 and callback *)
(* clients have timeouts and the database is taken to answer, so an await  *)
(* returns or raises; asyncio.Semaphore wakes its waiters in order, so     *)
(* that none is passed over forever.                                       *)
Fairness ==
  /\ \A r \in Run : /\ WF_vars(SpawnTask(r))
                    /\ SF_vars(AcquirePermit(r))
                    /\ WF_vars(Task(r))
  /\ WF_vars(Restart)

Spec == Init /\ [][Next]_vars
FairSpec == Spec /\ Fairness

-----------------------------------------------------------------------------
(* Types. *)

TypeOK ==
  /\ runStatus \in [Run -> RunStatus]
  /\ finished \subseteq Run
  /\ costBasis \in [Run -> SUBSET Asset]
  /\ row \in [Asset -> RowStatus]
  /\ flagged \subseteq Asset
  /\ toolCalls \in [Asset -> {"none", "ok", "error"}]
  /\ bucket \subseteq Asset /\ mocked \subseteq Asset
  /\ callback \in [Run -> PackStatus \cup {"none"}]
  /\ up \in BOOLEAN
  /\ permits \in Nat
  /\ pc \in [Run -> PC]
  /\ pack \in [Run -> Packs \cup {NoPack}]
  /\ path \in [Run -> Path]
  /\ cur \in [Run -> Nat \ {0}]
  /\ attempt \in [Run -> 0..MaxRetries]
  /\ summary \in [Run -> [Slot -> {"none", "uploaded", "failed"}]]
  /\ conditionedOn \subseteq Asset

-----------------------------------------------------------------------------
(* Safety. *)

(* The semaphore loses no permit and makes none up, on any way out of the  *)
(* task: at most max_concurrent_packs packs are in the try block at once.  *)
PermitsBalance ==
  up => permits + Cardinality({r \in Run : pc[r] \in Holding}) = MaxConcurrentPacks

(* The row that decides a slot's outcome in a settled run.                 *)
Settled(r, s) ==
  \/ \E p \in Path : /\ row[<<r, p, s>>] = "uploaded"
                     /\ toolCalls[<<r, p, s>>] = "ok"
  \/ /\ row[<<r, "single", s>>] = "failed"
     /\ toolCalls[<<r, "single", s>>] = "error"

(* A run that reports ok has a final row with its tool_calls record for    *)
(* every slot it was asked for, and leaves no row of its own in flight,    *)
(* the abandoned rows of a failed batch included.                          *)
OkRunIsSettled ==
  \A r \in Run : runStatus[r] = "ok" =>
    /\ \A s \in SlotsOf(r) : Settled(r, s)
    /\ \A a \in AssetsOf(r) : row[a] \notin {"pending", "generated"}

(* Nobody can read a row that says uploaded, or a successful tool call,    *)
(* before the object is in R2, or its key a mock's that names none.        *)
PublishedHasObject ==
  \A a \in Asset : /\ row[a] = "uploaded" => a \in Keyed
                   /\ toolCalls[a] = "ok" => row[a] = "uploaded"

(* The batch path and its per-slot fallback never leave two usable rows    *)
(* for one slot of one run.                                                *)
OneLiveRowPerSlot ==
  \A r \in Run, s \in Slot :
    row[<<r, "single", s>>] # "absent" =>
      row[<<r, "batch", s>>] \in {"absent", "failed"}

(* An image conditioned on the hero comes after the hero of its own run    *)
(* was published, and is not the hero.                                     *)
ConditionedAfterHero ==
  \A a \in conditionedOn :
    /\ a[3] # pack[a[1]].hero
    /\ row[<<a[1], "single", pack[a[1]].hero>>] = "uploaded"

(* What the callback says is what the database holds, for good, and of a   *)
(* run that is ok, unless the worker was cancelled where it sent it.       *)
CallbackMatchesRows ==
  \A r \in Run : callback[r] # "none" =>
    LET ok == {s \in SlotsOf(r) : \E p \in Path : row[<<r, p, s>>] = "uploaded"}
    IN /\ \/ runStatus[r] = "ok"
          \/ runStatus[r] = "failed" /\ "cancel" \in Faults
       /\ ok = {s \in Slot : summary[r][s] = "uploaded"}
       /\ callback[r] = "complete" <=> ok = SlotsOf(r)
       /\ callback[r] = "failed" <=> ok = {}

(* A run closed as ok was charged for every image it published, and drift  *)
(* found while finalizing is on the row by then.                           *)
OkRunIsAccountedFor ==
  \A r \in Run : runStatus[r] = "ok" =>
    \A a \in AssetsOf(r) : row[a] = "uploaded" =>
      /\ a \in costBasis[r]
      /\ a[3] \in DriftSlots => a \in flagged

(* update_run_status overwrites unconditionally, so only the worker's      *)
(* control flow keeps a closed run closed, and its finished_at set; it     *)
(* fails one that is ok when it is cancelled at the callback.              *)
ClosedStaysClosed ==
  [][\A r \in Run : runStatus[r] \in {"ok", "failed"} =>
       /\ \/ runStatus'[r] = runStatus[r]
          \/ "cancel" \in Faults /\ pc[r] = "except" /\ runStatus'[r] = "failed"
       /\ r \in finished /\ r \in finished']_vars

-----------------------------------------------------------------------------
(* The promise to the consumer. *)

PublishedSlots(r) ==
  {s \in Slot : \E p \in Path : row[<<r, p, s>>] = "uploaded"}

OutcomeSeen(r) == IF runStatus[r] = "absent" THEN "none"
                  ELSE IF runStatus[r] = "running" THEN "open" ELSE runStatus[r]
RequestedOf(r) == IF pack[r] = NoPack THEN {} ELSE SlotsOf(r)
ToldOf(r) == [status |-> callback[r],
              slots |-> IF callback[r] = "none" THEN {}
                        ELSE {s \in Slot : summary[r][s] = "uploaded"}]

Promise == INSTANCE PackPromise WITH
  MayRetract <- "cancel" \in Faults,
  outcome <- [r \in Run |-> OutcomeSeen(r)],
  requested <- [r \in Run |-> RequestedOf(r)],
  published <- [r \in Run |-> PublishedSlots(r)],
  told <- [r \in Run |-> ToldOf(r)]

(* Every step of the worker is a step of the promise or changes nothing    *)
(* the consumer can see.                                                   *)
KeepsPromise == Promise!PromiseSpec

-----------------------------------------------------------------------------
(* Acceptance models the task of a run by four of its actions. What they   *)
(* are about is seen of a task here; the requests are not, and stand still.*)
ImagesSeen == {r \in Run : PublishedSlots(r) # {}}
AtWork == {r \in Run : \/ pc[r] \in {"acquire"} \cup TryBlock
                       \/ pc[r] = "except" /\ runStatus[r] = "running"}

Route == INSTANCE Acceptance WITH
  Request <- Run, Key <- Run, Routes <- {"pack"}, NoRun <- NoPack,
  route <- [r \in Run |-> "pack"], key <- [r \in Run |-> r],
  run <- runStatus, bound <- [r \in Run |-> r], uploaded <- ImagesSeen,
  started <- {}, working <- AtWork,
  pc <- [r \in Run |-> "done"], found <- [r \in Run |-> r],
  reply <- [r \in Run |-> "none"]

(* Whatever the worker does, from the creation of its task on, is what     *)
(* Acceptance takes a task to do: it publishes while it works, and its     *)
(* last step closes its run, or is one that the database refuses or a      *)
(* cancellation takes. Only a run that was ok when its worker was          *)
(* cancelled is failed once more, which Acceptance does not know of.       *)
WorksAsAccepted ==
  [][\/ \E r \in Run : (\E p \in Packs : AcceptPack(r, p)) \/ SpawnTask(r)
     \/ \E r \in Run : Route!TaskPublishes(r) \/ Route!TaskEnds(r) \/ Route!TaskLost(r)
     \/ \E r \in Run : runStatus[r] = "ok" /\ RecordFailure(r)
     \/ Route!Crash \/ Route!Restart]_<<runStatus, ImagesSeen, AtWork, up>>

-----------------------------------------------------------------------------
(* Liveness. *)

(* A spawned task ends with the run closed, whatever is raised inside it,  *)
(* as long as the process lives and the failure can be written.            *)
SpawnedRunCloses ==
  \A r \in Run : (pc[r] = "acquire")
                   ~> (pc[r] = "done" /\ runStatus[r] \in {"ok", "failed"})

(* Once requests stop, every permit comes back, however the tasks ended.   *)
PermitsComeBack == <>[](permits = MaxConcurrentPacks)

-----------------------------------------------------------------------------
(* What of these two properties is safety: no task is ever stuck, it has   *)
(* only so much to do, and it does not end before its run is closed.       *)

(* The UPDATE of a row that is not in the status it may come from raises   *)
(* InvalidStateTransition (storage/asset_writer.py). None of a pack ever   *)
(* does: retries, the batch and its fallback leave every row in a status   *)
(* from which the next step of its slot may go on.                         *)
UpdatesFindTheirRows ==
  \A r \in Run :
    /\ pc[r] = "mark_generated" => row[AssetOf(r)] = "pending"
    /\ pc[r] \in {"mark_failed", "mark_uploaded", "batch_abort"} =>
         row[AssetOf(r)] \in {"pending", "generated"}

(* A task that is not at one of those UPDATEs waits for nobody but for a   *)
(* permit; and then, while there is none, another task has it.             *)
WaitersHaveHolders ==
  up /\ permits = 0 => \E r \in Run : pc[r] \in Holding

(* A task that has ended has closed its run, unless the database refuses   *)
(* the UPDATE of the except clause, or a cancellation takes it.            *)
EndedRunIsClosed ==
  \A r \in Run : pc[r] \in {"release", "done"} =>
    runStatus[r] \in {"ok", "failed"} \/ Faults \cap {"database", "cancel"} # {}

(* The steps of finishing one slot, retries included; of the end of a run; *)
(* and of a whole pack. The batch may be given up after all of its rows.   *)
SlotStepsLeft(r) ==
  CASE pc[r] = "insert" -> 8
    [] pc[r] = "generate" -> 7 - attempt[r]
    [] pc[r] = "mark_generated" -> 5
    [] pc[r] = "upload" -> 4
    [] pc[r] = "mark_uploaded" -> 3
    [] pc[r] \in {"flag_drift", "mark_failed"} -> 2
    [] pc[r] \in {"ok_call", "error_call"} -> 1

EndStepsLeft(r) ==
  CASE pc[r] = "roll_up" -> 4
    [] pc[r] = "mark_ok" -> 3
    [] pc[r] \in {"callback", "except"} -> 2
    [] pc[r] = "release" -> 1
    [] OTHER -> 0

StepsLeft(r) ==
  LET slots == Len(Order(r))
      after == slots - cur[r]
  IN CASE pc[r] = "accepted" -> 12 * slots + 8
       [] pc[r] = "acquire" -> 12 * slots + 7
       [] pc[r] \in SlotSteps /\ cur[r] = 1 -> 12 * slots - 2 + SlotStepsLeft(r)
       [] pc[r] = "batch_insert" -> 11 * slots + after
       [] pc[r] = "batch_generate" -> 11 * slots - 1
       [] pc[r] = "batch_abort" -> 10 * slots + after
       [] pc[r] \in SlotSteps /\ cur[r] # 1 -> 4 + 8 * after + SlotStepsLeft(r)
       [] OTHER -> EndStepsLeft(r)

(* Nothing in the worker loops for ever: a pack of n slots is over after   *)
(* 12n + 8 steps of its request and its task, whatever fails or raises;    *)
(* a cancellation leaves it no more to do.                                 *)
StepsAreCounted ==
  [][\A r \in Run :
       /\ StepsLeft(r) \in Nat
       /\ pc[r] \in Live => StepsLeft(r)' <= StepsLeft(r)
       /\ SpawnTask(r) \/ AcquirePermit(r) \/ Task(r) => StepsLeft(r)' < StepsLeft(r)]_vars
=============================================================================
