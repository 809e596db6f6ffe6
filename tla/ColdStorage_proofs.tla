------------------------ MODULE ColdStorage_proofs ------------------------
(***************************************************************************)
(* Proofs about SlotLineage, and about ColdStorage on top of it: for every *)
(* set of images and requests, every semaphore size, every fault and       *)
(* everything the inspector may do, the links between rows stay sound, and *)
(* no sweep, however it is interrupted and whatever happens to the rows    *)
(* meanwhile, loses a published image.                                     *)
(***************************************************************************)
EXTENDS ColdStorage, FiniteSetTheorems, TLAPS

LEMMA Labels ==
  /\ PC = {"idle", "checked", "run_inserted", "load_source", "source_missing",
           "close_unsourced", "acquire", "generate", "mark_failed", "error_call",
           "close_failed", "mark_generated", "upload", "mark_uploaded", "mark_unstored",
           "ok_call", "supersede", "roll_up", "mark_ok", "except", "release", "done", "dead"}
  /\ Live = PC \ {"idle", "done", "dead"}
  /\ TryBlock = {"generate", "mark_failed", "error_call", "close_failed",
                 "mark_generated", "upload", "mark_uploaded", "mark_unstored", "ok_call",
                 "supersede", "roll_up", "mark_ok"}
  /\ Holding = TryBlock \cup {"except", "release"}
  /\ Unguarded = {"load_source", "source_missing", "close_unsourced"}
  /\ Handler = {"checked", "run_inserted"}
  /\ Unstarted = {"idle", "checked", "run_inserted"}
  /\ Finished = {"ok_call", "supersede", "roll_up", "mark_ok"}
  /\ Charging = {"supersede", "roll_up", "mark_ok"}
  /\ Superseding = {"roll_up", "mark_ok"}
BY DEF PC, Live, Handler, Unguarded, Holding, TryBlock, Unstarted, Finished,
       Charging, Superseding

LEMMA AssetFacts ==
  /\ Request \subseteq Asset /\ Original \subseteq Asset
  /\ \A a \in Asset : a # NoAsset
  /\ \A r \in Request : r \notin Original
BY LineageAssumption DEF Asset

LEMMA InitTypeOK == Init => TypeOK
BY LineageAssumption, Labels DEF Init, TypeOK, RowStatus, Prefix, Key, Asset

-----------------------------------------------------------------------------
(* Type correctness, one lemma per group of actions. *)

LEMMA HandlerTypeOK ==
  ASSUME TypeOK, NEW r \in Request,
         \/ \E k \in Kinds, a \in Asset, b \in Asset \cup {NoAsset} : CheckTarget(r, k, a, b)
         \/ InsertRun(r) \/ InsertAsset(r) \/ AbandonRequest(r)
  PROVE  TypeOK'
<1> USE DEF rows, runs, request, Goto
<1>1. CASE InsertRun(r) \/ AbandonRequest(r)
  BY <1>1, Labels DEF InsertRun, AbandonRequest, Moves, TypeOK
<1>2. CASE InsertAsset(r)
  <2>1. row' \in [Asset -> RowStatus]
    BY <1>2 DEF InsertAsset, TypeOK, RowStatus
  <2>2. pc' \in [Request -> PC]
    BY <1>2, Labels DEF InsertAsset, TypeOK
  <2> QED
    BY <1>2, <2>1, <2>2 DEF InsertAsset, TypeOK
<1>3. ASSUME NEW k \in Kinds, NEW a \in Asset, NEW b \in Asset \cup {NoAsset},
             CheckTarget(r, k, a, b)
      PROVE  TypeOK'
  <2>1. /\ kind' \in [Request -> RequestKinds \cup {"none"}]
        /\ target' \in [Request -> Asset \cup {NoAsset}]
        /\ source' \in [Request -> Asset \cup {NoAsset}]
    BY <1>3, LineageAssumption DEF CheckTarget, TypeOK
  <2>2. /\ reply' \in [Request -> {"none", "not_uploaded", "payload_missing", "accepted"}]
        /\ pc' \in [Request -> PC]
    BY <1>3, Labels DEF CheckTarget, TypeOK
  <2> QED
    BY <1>3, <2>1, <2>2 DEF CheckTarget, TypeOK
<1> QED
  BY <1>1, <1>2, <1>3

LEMMA RowUpdateTypeOK ==
  ASSUME TypeOK, NEW a \in Asset, NEW from, NEW to \in RowStatus, SetRow(a, from, to)
  PROVE  row' \in [Asset -> RowStatus] /\ aged' \subseteq Asset
BY DEF SetRow, TypeOK

LEMMA TaskTypeOK ==
  ASSUME TypeOK, NEW r \in Request, Task(r) \/ AcquirePermit(r)
  PROVE  TypeOK'
<1> USE DEF rows, runs, request, Goto
<1>0. r \in Asset /\ {"failed", "generated", "uploaded", "superseded"} \subseteq RowStatus
  BY AssetFacts DEF RowStatus
<1>1. CASE SourceLoaded(r) \/ SourceMissing(r) \/ RaiseUnguarded(r) \/ ProviderSucceeds(r)
           \/ ProviderFails(r) \/ RecordErrorCall(r) \/ Raise(r) \/ LoseFailure(r)
  BY <1>1, Labels DEF SourceLoaded, SourceMissing, RaiseUnguarded, ProviderSucceeds,
     ProviderFails, RecordErrorCall, Raise, LoseFailure, Moves, TypeOK
<1>2. CASE CloseUnsourced(r) \/ CloseFailed(r) \/ MarkRunOk(r) \/ RecordFailure(r)
  BY <1>2, Labels DEF CloseUnsourced, CloseFailed, MarkRunOk, RecordFailure, CloseRun, TypeOK
<1>3. CASE FailUnsourced(r) \/ MarkFailed(r) \/ MarkGenerated(r) \/ MarkUploaded(r)
  <2>1. row' \in [Asset -> RowStatus] /\ aged' \subseteq Asset
    BY <1>0, <1>3, RowUpdateTypeOK DEF FailUnsourced, MarkFailed, MarkGenerated, MarkUploaded
  <2>2. key' \in [Asset -> Key] /\ url' \subseteq Asset
    BY <1>0, <1>3 DEF FailUnsourced, MarkFailed, MarkGenerated, MarkUploaded, TypeOK, Prefix, Key
  <2>3. pc' \in [Request -> PC]
    BY <1>3, Labels DEF FailUnsourced, MarkFailed, MarkGenerated, MarkUploaded, TypeOK
  <2> QED
    BY <1>3, <2>1, <2>2, <2>3 DEF FailUnsourced, MarkFailed, MarkGenerated, MarkUploaded, TypeOK
<1>4. CASE Supersede(r)
  <2>1. pc' \in [Request -> PC]
    BY <1>4, Labels DEF Supersede, TypeOK
  <2>2. /\ row' \in [Asset -> RowStatus] /\ aged' \subseteq Asset
        /\ replacedBy' \in [Asset -> Asset \cup {NoAsset}]
        /\ UNCHANGED <<softDeleted, restored, key, url>>
    <3>1. CASE SetRow(target[r], {"uploaded"}, "superseded")
               /\ replacedBy' = [replacedBy EXCEPT ![target[r]] = r]
               /\ UNCHANGED <<softDeleted, restored, key, url>>
      BY <1>0, <3>1 DEF SetRow, TypeOK
    <3>2. CASE UNCHANGED rows
      BY <3>2 DEF TypeOK
    <3> QED BY <1>4, <3>1, <3>2 DEF Supersede
  <2> QED
    BY <1>4, <2>1, <2>2 DEF Supersede, TypeOK
<1>5. CASE Upload(r) \/ RecordOkCall(r) \/ RollUpCost(r)
  BY <1>0, <1>5, Labels DEF Upload, RecordOkCall, RollUpCost, TypeOK, Prefix
<1>6. CASE AcquirePermit(r) \/ ReleasePermit(r)
  BY <1>6, Labels DEF AcquirePermit, ReleasePermit, TypeOK
<1> QED
  BY <1>1, <1>2, <1>3, <1>4, <1>5, <1>6 DEF Task

LEMMA InspectorTypeOK ==
  ASSUME TypeOK, NEW a \in Asset, Unsupersede(a) \/ SoftDelete(a)
  PROVE  TypeOK'
<1>1. row' \in [Asset -> RowStatus] /\ aged' \subseteq Asset
  BY RowUpdateTypeOK DEF Unsupersede, SoftDelete, RowStatus
<1> QED
  BY <1>1 DEF Unsupersede, SoftDelete, TypeOK, runs, request

LEMMA ProcessTypeOK ==
  ASSUME TypeOK, Crash \/ Restart
  PROVE  TypeOK'
BY LineageAssumption, Labels DEF Crash, Restart, TypeOK, rows, runs, request

(* Each variable keeps its type. *)
THEOREM TypeCorrect == Spec => []TypeOK
<1>1. TypeOK /\ [Next]_vars => TypeOK'
  <2> SUFFICES ASSUME TypeOK, [Next]_vars PROVE TypeOK'
    OBVIOUS
  <2>1. CASE UNCHANGED vars
    BY <2>1 DEF vars, rows, runs, request, TypeOK
  <2> QED
    BY <2>1, HandlerTypeOK, TaskTypeOK, InspectorTypeOK, ProcessTypeOK DEF Next, RequestStep, InspectorStep, Quiescent
<1> QED
  BY <1>1, InitTypeOK, PTL DEF Spec

-----------------------------------------------------------------------------
(* The inductive invariant. *)

LEMMA InitLineageInv == Init => LineageInv
BY AssetFacts, Labels DEF Init, LineageInv, RowFollowsTask, RunFollowsTask,
   TargetFollowsTask, LinkHolds

(* A request whose label, run and target a step leaves alone.              *)
SameRequest(q) ==
  /\ pc'[q] = pc[q] /\ runStatus'[q] = runStatus[q] /\ target'[q] = target[q]
  /\ billed \subseteq billed' /\ charged \subseteq charged'

LEMMA OtherRequest ==
  ASSUME NEW q \in Request, SameRequest(q), UNCHANGED rows,
         RowFollowsTask(q), RunFollowsTask(q), TargetFollowsTask(q)
  PROVE  RowFollowsTask(q)' /\ RunFollowsTask(q)' /\ TargetFollowsTask(q)'
BY DEF SameRequest, RowFollowsTask, RunFollowsTask, TargetFollowsTask, rows

(* The steps of a request that write no row.                               *)
LEMMA QuietInv ==
  ASSUME TypeOK, LineageInv, NEW r \in Request, UNCHANGED rows,
         \A q \in Request \ {r} : SameRequest(q),
         RowFollowsTask(r)', RunFollowsTask(r)', TargetFollowsTask(r)'
  PROVE  LineageInv'
<1>1. \A a \in Asset : LinkHolds(a)'
  BY DEF LineageInv, LinkHolds, rows
<1>2. ASSUME NEW q \in Request, q # r
      PROVE  RowFollowsTask(q)' /\ RunFollowsTask(q)' /\ TargetFollowsTask(q)'
  BY <1>2, OtherRequest DEF LineageInv
<1> QED
  BY <1>1, <1>2 DEF LineageInv

(* The label of r moves from one place to another: what the new label asks *)
(* for must be known at the old one.                                       *)
LEMMA MovesInv ==
  ASSUME TypeOK, LineageInv, NEW r \in Request, NEW from \in Live,
         NEW to \in PC \ (Unstarted \cup Finished),
         pc[r] = from, Goto(r, to), UNCHANGED <<rows, runs, target>>,
         from = "release" => to \in {"done", "dead"}
  PROVE  LineageInv'
<1>1. pc' = [pc EXCEPT ![r] = to] /\ pc \in [Request -> PC]
  BY DEF Goto, TypeOK
<1>2. \A q \in Request \ {r} : SameRequest(q)
  BY <1>1 DEF SameRequest, runs
<1>3. RowFollowsTask(r) /\ RunFollowsTask(r) /\ TargetFollowsTask(r)
  BY DEF LineageInv
<1>4. pc'[r] = to
  BY <1>1
<1>5. RowFollowsTask(r)'
  BY <1>3, <1>4, Labels DEF RowFollowsTask, rows
<1>6. RunFollowsTask(r)'
  BY <1>3, <1>4, Labels DEF RunFollowsTask, rows, runs
<1>7. TargetFollowsTask(r)'
  BY <1>3, <1>4, Labels DEF TargetFollowsTask, rows, runs
<1> QED
  BY <1>2, <1>5, <1>6, <1>7, QuietInv

LEMMA QuietTaskInv ==
  ASSUME TypeOK, LineageInv, NEW r \in Request,
         \/ SourceLoaded(r) \/ SourceMissing(r) \/ RaiseUnguarded(r) \/ AbandonRequest(r)
         \/ ProviderSucceeds(r) \/ ProviderFails(r) \/ RecordErrorCall(r)
         \/ Raise(r) \/ LoseFailure(r)
         \/ AcquirePermit(r) \/ ReleasePermit(r) \/ Upload(r)
  PROVE  LineageInv'
<1> USE DEF runs, request
<1>1. ASSUME NEW from \in Live \ {"release"}, NEW to \in PC \ (Unstarted \cup Finished),
             Moves(r, from, to)
      PROVE  LineageInv'
  BY <1>1, MovesInv DEF Moves
<1>2. CASE SourceLoaded(r) \/ SourceMissing(r) \/ ProviderSucceeds(r) \/ ProviderFails(r)
           \/ RecordErrorCall(r) \/ LoseFailure(r)
  BY <1>1, <1>2, Labels DEF SourceLoaded, SourceMissing, ProviderSucceeds, ProviderFails,
     RecordErrorCall, LoseFailure
<1>3. CASE RaiseUnguarded(r) \/ AbandonRequest(r) \/ Raise(r)
  BY <1>1, <1>3, Labels DEF RaiseUnguarded, AbandonRequest, Raise
<1>4. CASE AcquirePermit(r) \/ ReleasePermit(r) \/ Upload(r)
  BY <1>4, Labels, MovesInv DEF AcquirePermit, ReleasePermit, Upload
<1> QED
  BY <1>2, <1>3, <1>4

(* The writes to the request's run.                                        *)
LEMMA RunStepInv ==
  ASSUME TypeOK, LineageInv, NEW r \in Request,
         \/ InsertRun(r) \/ RecordOkCall(r) \/ RollUpCost(r)
         \/ CloseUnsourced(r) \/ CloseFailed(r) \/ RecordFailure(r) \/ MarkRunOk(r)
  PROVE  LineageInv'
<1> USE DEF Goto, runs, request
<1>1. UNCHANGED <<rows, target>>
  BY DEF InsertRun, RecordOkCall, RollUpCost, CloseUnsourced, CloseFailed, RecordFailure,
     MarkRunOk, CloseRun
<1>2. /\ runStatus \in [Request -> {"absent", "running", "ok", "failed"}]
      /\ pc \in [Request -> PC]
  BY DEF TypeOK
<1>3. \A q \in Request \ {r} : SameRequest(q)
  BY <1>1, <1>2 DEF InsertRun, RecordOkCall, RollUpCost, CloseUnsourced, CloseFailed,
     RecordFailure, MarkRunOk, CloseRun, SameRequest
<1>4. RowFollowsTask(r) /\ RunFollowsTask(r) /\ TargetFollowsTask(r)
  BY DEF LineageInv
<1>5. CASE InsertRun(r) \/ CloseUnsourced(r) \/ CloseFailed(r) \/ RecordFailure(r)
  <2>1. /\ pc[r] \in Live /\ runStatus'[r] # "ok" /\ UNCHANGED <<billed, charged>>
        /\ pc'[r] \in {"run_inserted", "done", "release"}
        /\ pc'[r] = "run_inserted" => pc[r] = "checked"
    BY <1>2, <1>5, Labels DEF InsertRun, CloseUnsourced, CloseFailed, RecordFailure, CloseRun
  <2>2. RowFollowsTask(r)' /\ RunFollowsTask(r)' /\ TargetFollowsTask(r)'
    BY <1>1, <1>4, <2>1, Labels DEF RowFollowsTask, RunFollowsTask, TargetFollowsTask, rows
  <2> QED
    BY <1>1, <1>3, <2>2, QuietInv
<1>6. CASE RecordOkCall(r) \/ RollUpCost(r) \/ MarkRunOk(r)
  <2>1. CASE RecordOkCall(r)
    <3>1. pc[r] = "ok_call" /\ pc'[r] = "supersede" /\ r \in billed' /\ runStatus' = runStatus
      BY <1>2, <2>1 DEF RecordOkCall
    <3>2. RowFollowsTask(r)' /\ RunFollowsTask(r)' /\ TargetFollowsTask(r)'
      BY <1>1, <1>4, <3>1, Labels DEF RowFollowsTask, RunFollowsTask, TargetFollowsTask, rows
    <3> QED
      BY <1>1, <1>3, <3>2, QuietInv
  <2>2. CASE RollUpCost(r)
    <3>1. /\ pc[r] = "roll_up" /\ pc'[r] = "mark_ok" /\ r \in charged'
          /\ UNCHANGED <<billed, runStatus>>
      BY <1>2, <2>2 DEF RollUpCost
    <3>2. RowFollowsTask(r)' /\ RunFollowsTask(r)' /\ TargetFollowsTask(r)'
      BY <1>1, <1>4, <3>1, Labels DEF RowFollowsTask, RunFollowsTask, TargetFollowsTask, rows
    <3> QED
      BY <1>1, <1>3, <3>2, QuietInv
  <2>3. CASE MarkRunOk(r)
    <3>1. /\ pc[r] = "mark_ok" /\ pc'[r] = "release" /\ runStatus'[r] = "ok"
          /\ UNCHANGED <<billed, charged>>
      BY <1>2, <2>3 DEF MarkRunOk, CloseRun
    <3>2. RowFollowsTask(r)' /\ RunFollowsTask(r)' /\ TargetFollowsTask(r)'
      BY <1>1, <1>4, <3>1, Labels DEF RowFollowsTask, RunFollowsTask, TargetFollowsTask, rows
    <3> QED
      BY <1>1, <1>3, <3>2, QuietInv
  <2> QED
    BY <1>6, <2>1, <2>2, <2>3
<1> QED
  BY <1>5, <1>6

LEMMA CheckTargetInv ==
  ASSUME TypeOK, LineageInv, NEW r \in Request, NEW k \in Kinds, NEW a \in Asset,
         NEW b \in Asset \cup {NoAsset}, CheckTarget(r, k, a, b)
  PROVE  LineageInv'
<1>1. /\ UNCHANGED <<rows, runs>> /\ pc[r] = "idle"
      /\ target' = [target EXCEPT ![r] = a]
      /\ \E l \in {"done", "checked"} : pc' = [pc EXCEPT ![r] = l]
      /\ pc'[r] = "checked" => a \in Original
  BY DEF CheckTarget, Goto, TypeOK, HasPayload
<1>2. \A q \in Request \ {r} : SameRequest(q)
  BY <1>1 DEF SameRequest, runs, TypeOK
<1>3. RowFollowsTask(r) /\ RunFollowsTask(r)
  BY DEF LineageInv
<1>4. pc'[r] \in {"done", "checked"} /\ target'[r] = a /\ runStatus'[r] # "ok"
  BY <1>1, <1>3 DEF RunFollowsTask, runs, TypeOK
<1>5. RowFollowsTask(r)' /\ RunFollowsTask(r)' /\ TargetFollowsTask(r)'
  BY <1>1, <1>3, <1>4, Labels DEF RowFollowsTask, RunFollowsTask, TargetFollowsTask, rows
<1> QED
  BY <1>1, <1>2, <1>5, QuietInv

(* The steps that write the request's own row, which nothing links to yet. *)
LEMMA OwnRowInv ==
  ASSUME TypeOK, LineageInv, NEW r \in Request,
         \/ InsertAsset(r) \/ FailUnsourced(r) \/ MarkFailed(r)
         \/ MarkGenerated(r) \/ MarkUploaded(r)
  PROVE  LineageInv'
<1> USE DEF Goto, runs, request, SetRow
<1>1. /\ row[r] \in {"absent", "pending", "generated"}
      /\ \E st \in {"pending", "generated", "uploaded", "failed"} : row' = [row EXCEPT ![r] = st]
      /\ UNCHANGED <<replacedBy, softDeleted, restored, runs, target>>
  <2>1. CASE InsertAsset(r)
    BY <2>1, Labels DEF InsertAsset, LineageInv, RowFollowsTask
  <2>2. CASE FailUnsourced(r) \/ MarkFailed(r) \/ MarkGenerated(r) \/ MarkUploaded(r)
    BY <2>2 DEF FailUnsourced, MarkFailed, MarkGenerated, MarkUploaded
  <2> QED BY <2>1, <2>2
<1>2. /\ pc \in [Request -> PC] /\ row \in [Asset -> RowStatus] /\ r \in Asset
      /\ target \in [Request -> Asset \cup {NoAsset}]
  BY AssetFacts DEF TypeOK
<1>3. /\ pc[r] \in Live /\ pc[r] \notin Finished \cup {"release"}
      /\ \E l \in {"load_source", "acquire", "close_unsourced", "error_call", "upload", "ok_call"} :
           pc' = [pc EXCEPT ![r] = l]
      /\ pc'[r] \in Finished => row'[r] = "uploaded"
  BY <1>2, Labels DEF InsertAsset, FailUnsourced, MarkFailed, MarkGenerated, MarkUploaded
<1>4. row'[r] \in {"pending", "generated", "uploaded", "failed"} /\ \A a \in Asset \ {r} : row'[a] = row[a]
  BY <1>1, <1>2
<1>5. ASSUME NEW a \in Asset PROVE LinkHolds(a)'
  <2>1. LinkHolds(a) /\ LinkHolds(r)
    BY <1>2 DEF LineageInv
  <2>2. replacedBy[r] = NoAsset /\ r \notin softDeleted
    BY <1>1, <2>1 DEF LinkHolds
  <2>3. replacedBy[a] # r
    BY <1>1, <2>1, AssetFacts DEF LinkHolds
  <2>4. CASE a = r
    BY <1>1, <1>4, <2>2, <2>4, AssetFacts DEF LinkHolds
  <2>5. CASE a # r
    BY <1>1, <1>4, <2>1, <2>3, <2>5, AssetFacts DEF LinkHolds
  <2> QED BY <2>4, <2>5
<1>6. RowFollowsTask(r)' /\ RunFollowsTask(r)' /\ TargetFollowsTask(r)'
  <2>1. RunFollowsTask(r)
    BY DEF LineageInv
  <2>2. runStatus[r] # "ok" /\ target[r] \in Original
    BY <1>3, <2>1, Labels DEF RunFollowsTask
  <2>3. pc'[r] \in {"load_source", "acquire", "close_unsourced", "error_call", "upload", "ok_call"}
    BY <1>2, <1>3
  <2> QED
    BY <1>1, <1>3, <1>4, <2>2, <2>3, Labels DEF RowFollowsTask, RunFollowsTask, TargetFollowsTask
<1>7. ASSUME NEW q \in Request, q # r
      PROVE  RowFollowsTask(q)' /\ RunFollowsTask(q)' /\ TargetFollowsTask(q)'
  <2>1. RowFollowsTask(q) /\ RunFollowsTask(q) /\ TargetFollowsTask(q)
    BY DEF LineageInv
  <2>2. pc'[q] = pc[q] /\ row'[q] = row[q] /\ q \in Asset
    BY <1>2, <1>3, <1>4, <1>7, AssetFacts
  <2>3. target[q] \in Original => row'[target[q]] = row[target[q]]
    BY <1>4, AssetFacts
  <2>4. pc[q] \in Superseding \/ runStatus[q] = "ok" => target[q] \in Original
    BY <2>1, Labels DEF RunFollowsTask
  <2> QED
    BY <1>1, <2>1, <2>2, <2>3, <2>4 DEF RowFollowsTask, RunFollowsTask, TargetFollowsTask
<1> QED
  BY <1>5, <1>6, <1>7 DEF LineageInv

(* The old row is uploaded, so that nobody replaced it and no request that *)
(* finished before has it as its target.                                   *)
LEMMA SupersedeInv ==
  ASSUME TypeOK, LineageInv, NEW r \in Request, Supersede(r)
  PROVE  LineageInv'
<1> DEFINE t == target[r]
<1>1. CASE UNCHANGED rows /\ Goto(r, "except")
  BY <1>1, MovesInv, Labels DEF Supersede, request
<1>2. CASE /\ SetRow(t, {"uploaded"}, "superseded")
           /\ replacedBy' = [replacedBy EXCEPT ![t] = r]
           /\ Goto(r, "roll_up") /\ UNCHANGED <<softDeleted, restored>>
  <2>1. /\ RunFollowsTask(r) /\ RowFollowsTask(r) /\ pc[r] = "supersede"
        /\ UNCHANGED <<runs, target>>
    BY DEF LineageInv, Supersede, request
  <2>2. /\ t \in Original /\ t \in Asset /\ t \notin Request /\ r \in Asset /\ r # NoAsset
        /\ row[r] \in {"uploaded", "superseded"} /\ row[t] = "uploaded"
        /\ r \in billed
    BY <1>2, <2>1, Labels, AssetFacts DEF RunFollowsTask, RowFollowsTask, SetRow
  <2>3. /\ row' = [row EXCEPT ![t] = "superseded"] /\ row \in [Asset -> RowStatus]
        /\ replacedBy \in [Asset -> Asset \cup {NoAsset}]
        /\ pc' = [pc EXCEPT ![r] = "roll_up"] /\ pc \in [Request -> PC]
    BY <1>2 DEF SetRow, Goto, TypeOK
  <2>4. ASSUME NEW a \in Asset PROVE LinkHolds(a)'
    <3>1. LinkHolds(a) /\ LinkHolds(t)
      BY <2>2 DEF LineageInv
    <3>2. CASE a = t
      BY <1>2, <2>2, <2>3, <3>1, <3>2 DEF LinkHolds
    <3>3. CASE a # t
      BY <1>2, <2>2, <2>3, <3>1, <3>3 DEF LinkHolds
    <3> QED BY <3>2, <3>3
  <2>5. ASSUME NEW q \in Request
        PROVE  RowFollowsTask(q)' /\ RunFollowsTask(q)' /\ TargetFollowsTask(q)'
    <3>1. RowFollowsTask(q) /\ RunFollowsTask(q) /\ TargetFollowsTask(q)
      BY DEF LineageInv
    <3>2. row'[q] = row[q] /\ q \in Asset
      BY <2>2, <2>3, AssetFacts
    <3>3. CASE q = r
      <4>1. pc'[r] = "roll_up" /\ row'[t] = "superseded" /\ replacedBy'[t] = r /\ runStatus[r] # "ok"
        BY <1>2, <2>1, <2>2, <2>3 DEF RunFollowsTask
      <4> QED
        BY <1>2, <2>1, <2>2, <3>1, <3>2, <3>3, <4>1, Labels
           DEF RowFollowsTask, RunFollowsTask, TargetFollowsTask, runs
    <3>4. CASE q # r
      <4>1. pc'[q] = pc[q]
        BY <2>3, <3>4
      <4>2. RowFollowsTask(q)' /\ RunFollowsTask(q)'
        BY <1>2, <2>1, <3>1, <3>2, <4>1 DEF RowFollowsTask, RunFollowsTask, runs
      <4>3. SUFFICES ASSUME target[q] \notin restored,
                            pc[q] \in Superseding \/ runStatus[q] = "ok"
                     PROVE  row'[target[q]] = "superseded" /\ replacedBy'[target[q]] = q
        BY <1>2, <2>1, <4>1, <4>2 DEF TargetFollowsTask, runs
      <4>4. row[target[q]] = "superseded" /\ replacedBy[target[q]] = q /\ target[q] \in Asset
        BY <3>1, <4>3, Labels, AssetFacts DEF TargetFollowsTask, RunFollowsTask
      <4>5. target[q] # t
        BY <2>2, <4>4
      <4> QED
        BY <1>2, <2>3, <4>4, <4>5
    <3> QED BY <3>3, <3>4
  <2> QED
    BY <2>4, <2>5 DEF LineageInv
<1> QED
  BY <1>1, <1>2 DEF Supersede

LEMMA UnsupersedeInv ==
  ASSUME TypeOK, LineageInv, NEW x \in Asset, Unsupersede(x)
  PROVE  LineageInv'
<1>1. /\ row' = [row EXCEPT ![x] = "uploaded"] /\ row \in [Asset -> RowStatus]
      /\ replacedBy' = [replacedBy EXCEPT ![x] = NoAsset]
      /\ replacedBy \in [Asset -> Asset \cup {NoAsset}]
      /\ restored' = restored \cup {x} /\ replacedBy[x] # NoAsset
      /\ UNCHANGED <<softDeleted, runs, pc, target>>
  BY DEF Unsupersede, SetRow, TypeOK, request
<1>2. /\ x \in Original /\ x \notin Request /\ x \notin softDeleted /\ LinkHolds(x)
  BY <1>1, AssetFacts DEF LineageInv, LinkHolds
<1>3. ASSUME NEW a \in Asset PROVE LinkHolds(a)'
  <2>1. LinkHolds(a)
    BY DEF LineageInv
  <2>2. CASE a = x
    BY <1>1, <1>2, <2>2 DEF LinkHolds
  <2>3. CASE a # x
    BY <1>1, <1>2, <2>1, <2>3 DEF LinkHolds
  <2> QED BY <2>2, <2>3
<1>4. ASSUME NEW q \in Request
      PROVE  RowFollowsTask(q)' /\ RunFollowsTask(q)' /\ TargetFollowsTask(q)'
  <2>1. RowFollowsTask(q) /\ RunFollowsTask(q) /\ TargetFollowsTask(q)
    BY DEF LineageInv
  <2>2. row'[q] = row[q]
    BY <1>1, <1>2, AssetFacts
  <2>3. RowFollowsTask(q)' /\ RunFollowsTask(q)'
    BY <1>1, <2>1, <2>2 DEF RowFollowsTask, RunFollowsTask, runs
  <2>4. TargetFollowsTask(q)'
    <3>1. SUFFICES ASSUME target[q] \notin restored', pc[q] \in Superseding \/ runStatus[q] = "ok"
                   PROVE  row'[target[q]] = "superseded" /\ replacedBy'[target[q]] = q
      BY <1>1 DEF TargetFollowsTask, runs
    <3>2. target[q] # x /\ target[q] \in Asset
      BY <1>1, <2>1, <3>1, Labels, AssetFacts DEF RunFollowsTask
    <3> QED
      BY <1>1, <2>1, <3>1, <3>2 DEF TargetFollowsTask
  <2> QED
    BY <2>3, <2>4
<1> QED
  BY <1>3, <1>4 DEF LineageInv

LEMMA SoftDeleteInv ==
  ASSUME TypeOK, LineageInv, NEW x \in Asset, SoftDelete(x)
  PROVE  LineageInv'
<1>1. /\ row[x] = "uploaded" /\ row' = [row EXCEPT ![x] = "superseded"]
      /\ row \in [Asset -> RowStatus]
      /\ softDeleted' = softDeleted \cup {x}
      /\ UNCHANGED <<replacedBy, restored, runs, pc, target>>
  BY DEF SoftDelete, SetRow, TypeOK, request
<1>2. replacedBy[x] = NoAsset
  BY <1>1 DEF LineageInv, LinkHolds
<1>3. ASSUME NEW a \in Asset PROVE LinkHolds(a)'
  <2>1. LinkHolds(a)
    BY DEF LineageInv
  <2>2. CASE a = x
    BY <1>1, <1>2, <2>2 DEF LinkHolds
  <2>3. CASE a # x
    <3>1. row'[a] = row[a] /\ (a \in softDeleted' <=> a \in softDeleted)
      BY <1>1, <2>3
    <3>2. ASSUME replacedBy[a] # NoAsset, row[replacedBy[a]] \in {"uploaded", "superseded"},
                 replacedBy[a] \in Request
          PROVE  row'[replacedBy[a]] \in {"uploaded", "superseded"}
      BY <1>1, <3>2, AssetFacts
    <3> QED
      BY <1>1, <2>1, <3>1, <3>2 DEF LinkHolds
  <2> QED BY <2>2, <2>3
<1>4. ASSUME NEW q \in Request
      PROVE  RowFollowsTask(q)' /\ RunFollowsTask(q)' /\ TargetFollowsTask(q)'
  <2>1. RowFollowsTask(q) /\ RunFollowsTask(q) /\ TargetFollowsTask(q) /\ q \in Asset
    BY AssetFacts DEF LineageInv
  <2>2. CASE q = x
    BY <1>1, <2>1, <2>2, Labels, AssetFacts DEF RowFollowsTask, RunFollowsTask, TargetFollowsTask, runs
  <2>3. CASE q # x
    <3>1. row'[q] = row[q]
      BY <1>1, <2>1, <2>3
    <3>2. row[target[q]] = "superseded" /\ target[q] \in Asset => row'[target[q]] = "superseded"
      BY <1>1
    <3>3. pc[q] \in Superseding \/ runStatus[q] = "ok" => target[q] \in Asset
      BY <2>1, Labels, AssetFacts DEF RunFollowsTask
    <3> QED
      BY <1>1, <2>1, <3>1, <3>2, <3>3 DEF RowFollowsTask, RunFollowsTask, TargetFollowsTask, runs
  <2> QED BY <2>2, <2>3
<1> QED
  BY <1>3, <1>4 DEF LineageInv

LEMMA ProcessInv ==
  ASSUME TypeOK, LineageInv, Crash \/ Restart
  PROVE  LineageInv'
<1>1. /\ UNCHANGED <<rows, runs, target>> /\ pc \in [Request -> PC]
      /\ \A q \in Request : pc'[q] = pc[q] \/ (pc[q] \in Live /\ pc'[q] = "dead")
  BY DEF Crash, Restart, TypeOK, request
<1>2. \A a \in Asset : LinkHolds(a)'
  BY <1>1 DEF LineageInv, LinkHolds, rows
<1>3. ASSUME NEW q \in Request
      PROVE  RowFollowsTask(q)' /\ RunFollowsTask(q)' /\ TargetFollowsTask(q)'
  <2>1. RowFollowsTask(q) /\ RunFollowsTask(q) /\ TargetFollowsTask(q)
    BY DEF LineageInv
  <2>2. CASE pc'[q] = pc[q]
    BY <1>1, <2>1, <2>2 DEF RowFollowsTask, RunFollowsTask, TargetFollowsTask, rows, runs
  <2>3. CASE pc'[q] = "dead"
    BY <1>1, <2>1, <2>3, Labels DEF RowFollowsTask, RunFollowsTask, TargetFollowsTask, rows, runs
  <2> QED BY <1>1, <2>2, <2>3
<1> QED
  BY <1>2, <1>3 DEF LineageInv

(* The rows and the runs agree at every label of every request, and every  *)
(* link between rows is sound.                                             *)
THEOREM LineageCorrect == Spec => []LineageInv
<1>1. TypeOK /\ LineageInv /\ [Next]_vars => LineageInv'
  <2> SUFFICES ASSUME TypeOK, LineageInv, [Next]_vars PROVE LineageInv'
    OBVIOUS
  <2>1. CASE UNCHANGED vars
    BY <2>1 DEF vars, rows, runs, request, LineageInv, RowFollowsTask, RunFollowsTask,
       TargetFollowsTask, LinkHolds
  <2>2. ASSUME NEW r \in Request, Task(r) PROVE LineageInv'
    BY <2>2, QuietTaskInv, RunStepInv, OwnRowInv, SupersedeInv DEF Task
  <2>3. ASSUME NEW r \in Request,
               InsertRun(r) \/ InsertAsset(r) \/ AbandonRequest(r) \/ AcquirePermit(r)
        PROVE  LineageInv'
    BY <2>3, QuietTaskInv, RunStepInv, OwnRowInv
  <2> QED
    BY <2>1, <2>2, <2>3, CheckTargetInv, UnsupersedeInv, SoftDeleteInv, ProcessInv
       DEF Next, RequestStep, InspectorStep, Quiescent
<1> QED
  BY <1>1, InitLineageInv, TypeCorrect, PTL DEF Spec

-----------------------------------------------------------------------------
(* What the invariant means. *)

(* No slot silently loses its image: a superseded row was soft-deleted or  *)
(* leads to an active, or a deliberately deleted, replacement.             *)
THEOREM ReplacementsAreActive == Spec => []ReplacementIsActive
<1>1. LineageInv => ReplacementIsActive
  BY AssetFacts DEF LineageInv, LinkHolds, RowFollowsTask, ReplacementIsActive
<1> QED
  BY <1>1, LineageCorrect, PTL

(* An ok run's row is the one that replaced the target: two regenerations  *)
(* of an image that nobody restored in between never both report ok.       *)
THEOREM OkRunsReplacedTheirTargets == Spec => []OkRunReplacedItsTarget
<1>1. LineageInv => OkRunReplacedItsTarget
  BY DEF LineageInv, TargetFollowsTask, OkRunReplacedItsTarget
<1> QED
  BY <1>1, LineageCorrect, PTL

(* A regeneration that reports ok has its image published and charged.     *)
THEOREM OkRunsAreAccountedFor == Spec => []OkRunIsAccountedFor
<1>1. LineageInv => OkRunIsAccountedFor
  BY DEF LineageInv, RunFollowsTask, RowFollowsTask, OkRunIsAccountedFor
<1> QED
  BY <1>1, LineageCorrect, PTL

-----------------------------------------------------------------------------
(* A soft-deleted row has no replacement to be brought back from, and every *)
(* other UPDATE asks for a status it no longer has.                         *)
THEOREM SoftDeletionIsFinal == Spec => SoftDeletedStaysDeleted
<1>1. ASSUME TypeOK, LineageInv, [Next]_vars, NEW d \in softDeleted
      PROVE  d \in softDeleted' /\ row'[d] = "superseded"
  <2>1. d \in Asset /\ row[d] = "superseded" /\ replacedBy[d] = NoAsset /\ row \in [Asset -> RowStatus]
    BY <1>1 DEF TypeOK, LineageInv, LinkHolds
  <2> USE DEF rows, runs, request
  <2>2. ASSUME NEW a, NEW from, NEW to, SetRow(a, from, to), "superseded" \notin from
        PROVE  row'[d] = row[d]
    BY <2>1, <2>2 DEF SetRow
  <2>3. ASSUME NEW r \in Request, Task(r) PROVE d \in softDeleted' /\ row'[d] = row[d]
    <3>1. CASE FailUnsourced(r) \/ MarkFailed(r) \/ MarkGenerated(r) \/ MarkUploaded(r)
      BY <2>2, <3>1 DEF FailUnsourced, MarkFailed, MarkGenerated, MarkUploaded
    <3>2. CASE Supersede(r)
      BY <2>2, <3>2 DEF Supersede
    <3>3. CASE UNCHANGED rows
      BY <3>3
    <3> QED
      BY <2>3, <3>1, <3>2, <3>3 DEF Task, SourceLoaded, SourceMissing, CloseUnsourced,
         RaiseUnguarded, ProviderSucceeds, ProviderFails, RecordErrorCall, CloseFailed,
         Upload, RecordOkCall, RollUpCost, MarkRunOk, Raise, RecordFailure, LoseFailure,
         ReleasePermit, Moves, CloseRun
  <2>4. ASSUME NEW r \in Request, InsertAsset(r) PROVE d \in softDeleted' /\ row'[d] = row[d]
    <3>1. row[r] = "absent"
      BY <1>1, <2>4, Labels DEF InsertAsset, LineageInv, RowFollowsTask
    <3> QED
      BY <2>1, <2>4, <3>1 DEF InsertAsset
  <2>5. ASSUME NEW r \in Request,
               \/ \E k \in Kinds, a \in Asset, b \in Asset \cup {NoAsset} : CheckTarget(r, k, a, b)
               \/ InsertRun(r) \/ AbandonRequest(r) \/ AcquirePermit(r)
        PROVE  d \in softDeleted' /\ row'[d] = row[d]
    BY <2>5 DEF CheckTarget, InsertRun, AbandonRequest, AcquirePermit, Moves
  <2>6. ASSUME NEW a \in Asset, Unsupersede(a) \/ SoftDelete(a)
        PROVE  d \in softDeleted' /\ row'[d] = row[d]
    <3>1. a # d
      BY <2>1, <2>6 DEF Unsupersede, SoftDelete, SetRow
    <3> QED
      BY <2>1, <2>6, <3>1 DEF Unsupersede, SoftDelete, SetRow
  <2> QED
    BY <1>1, <2>1, <2>3, <2>4, <2>5, <2>6 DEF Next, RequestStep, InspectorStep, Crash, Restart, Quiescent, vars
<1>2. TypeOK /\ LineageInv /\ [Next]_vars =>
        [\A a \in softDeleted : a \in softDeleted' /\ row'[a] = "superseded"]_vars
  BY <1>1
<1> QED
  BY <1>2, TypeCorrect, LineageCorrect, PTL DEF Spec, SoftDeletedStaysDeleted

-----------------------------------------------------------------------------
(* The semaphore. A restart hands out every permit, which is right only    *)
(* because no task survives the process: NoOrphanTask.                     *)
Holders == {r \in Request : pc[r] \in Holding}
NoOrphanTask == ~up => \A r \in Request : pc[r] \notin Live
PermitInv == PermitsBalance /\ NoOrphanTask

(* How the move of one request changes the set of the permit holders.      *)
LEMMA HoldersMove ==
  ASSUME TypeOK, NEW r \in Request, NEW to \in PC, pc' = [pc EXCEPT ![r] = to]
  PROVE  /\ Cardinality(Holders) \in Nat
         /\ (pc[r] \in Holding <=> to \in Holding) => Cardinality(Holders') = Cardinality(Holders)
         /\ pc[r] \notin Holding /\ to \in Holding
              => Cardinality(Holders') = Cardinality(Holders) + 1
         /\ pc[r] \in Holding /\ to \notin Holding
              => Cardinality(Holders') = Cardinality(Holders) - 1
<1>1. IsFiniteSet(Holders) /\ Cardinality(Holders) \in Nat
  BY LineageAssumption, FS_Subset, FS_CardinalityType DEF Holders
<1>2. pc \in [Request -> PC]
  BY DEF TypeOK
<1>3. CASE pc[r] \in Holding <=> to \in Holding
  <2>1. Holders' = Holders
    BY <1>2, <1>3 DEF Holders
  <2> QED BY <2>1, <1>1, <1>3
<1>4. CASE pc[r] \notin Holding /\ to \in Holding
  <2>1. Holders' = Holders \cup {r} /\ r \notin Holders
    BY <1>2, <1>4 DEF Holders
  <2> QED BY <2>1, <1>1, <1>4, FS_AddElement
<1>5. CASE pc[r] \in Holding /\ to \notin Holding
  <2>1. Holders' = Holders \ {r} /\ r \in Holders
    BY <1>2, <1>5 DEF Holders
  <2> QED BY <2>1, <1>1, <1>5, FS_RemoveElement
<1> QED BY <1>1, <1>3, <1>4, <1>5

(* A live request, or one that the running process accepts, moves without  *)
(* crossing the semaphore.                                                 *)
LEMMA PermitInvKept ==
  ASSUME TypeOK, PermitInv, NEW r \in Request, NEW to \in PC,
         pc' = [pc EXCEPT ![r] = to], UNCHANGED <<up, permits>>,
         pc[r] \in Live \/ up, pc[r] \in Holding <=> to \in Holding
  PROVE  PermitInv'
<1>1. up' = up /\ permits' = permits /\ up
  BY DEF PermitInv, NoOrphanTask
<1>2. Cardinality(Holders') = Cardinality(Holders)
  BY HoldersMove
<1> QED
  BY <1>1, <1>2 DEF PermitInv, PermitsBalance, NoOrphanTask, Holders

LEMMA AcquirePermitInv ==
  ASSUME TypeOK, PermitInv, NEW r \in Request, AcquirePermit(r)
  PROVE  PermitInv'
<1> USE DEF Goto
<1>1. pc' = [pc EXCEPT ![r] = "generate"] /\ pc[r] = "acquire"
      /\ permits' = permits - 1 /\ up' = up /\ permits \in Nat
  BY DEF AcquirePermit, TypeOK
<1>2. Cardinality(Holders') = Cardinality(Holders) + 1 /\ Cardinality(Holders) \in Nat
  BY <1>1, HoldersMove, Labels
<1>3. up
  BY <1>1, Labels DEF PermitInv, NoOrphanTask
<1>4. permits + Cardinality(Holders) = Permits
  BY <1>3 DEF PermitInv, PermitsBalance, Holders
<1>5. permits' + Cardinality(Holders') = Permits
  BY <1>1, <1>2, <1>4
<1> QED BY <1>1, <1>3, <1>5 DEF PermitInv, PermitsBalance, NoOrphanTask, Holders

LEMMA ReleasePermitInv ==
  ASSUME TypeOK, PermitInv, NEW r \in Request, ReleasePermit(r)
  PROVE  PermitInv'
<1> USE DEF Goto
<1>1. pc' = [pc EXCEPT ![r] = "done"] /\ pc[r] = "release"
      /\ permits' = permits + 1 /\ up' = up /\ permits \in Nat
  BY DEF ReleasePermit, TypeOK
<1>2. Cardinality(Holders') = Cardinality(Holders) - 1 /\ Cardinality(Holders) \in Nat
  BY <1>1, HoldersMove, Labels
<1>3. up
  BY <1>1, Labels DEF PermitInv, NoOrphanTask
<1>4. permits + Cardinality(Holders) = Permits
  BY <1>3 DEF PermitInv, PermitsBalance, Holders
<1>5. permits' + Cardinality(Holders') = Permits
  BY <1>1, <1>2, <1>4
<1> QED BY <1>1, <1>3, <1>5 DEF PermitInv, PermitsBalance, NoOrphanTask, Holders

LEMMA StepPermitInv ==
  ASSUME TypeOK, PermitInv, NEW r \in Request,
         \/ \E k \in Kinds, a \in Asset, b \in Asset \cup {NoAsset} : CheckTarget(r, k, a, b)
         \/ InsertRun(r) \/ InsertAsset(r) \/ AbandonRequest(r)
         \/ AcquirePermit(r) \/ Task(r)
  PROVE  PermitInv'
<1> USE DEF Goto
<1>1. CASE SourceLoaded(r) \/ SourceMissing(r) \/ RaiseUnguarded(r) \/ ProviderSucceeds(r)
           \/ ProviderFails(r) \/ RecordErrorCall(r) \/ Raise(r) \/ LoseFailure(r)
           \/ AbandonRequest(r)
  <2>1. \E from \in Live, to \in PC : /\ Moves(r, from, to)
                                      /\ from \in Holding <=> to \in Holding
    BY <1>1, Labels DEF SourceLoaded, SourceMissing, RaiseUnguarded, ProviderSucceeds,
       ProviderFails, RecordErrorCall, Raise, LoseFailure, AbandonRequest
  <2> QED BY <2>1, PermitInvKept DEF Moves
<1>2. CASE CloseUnsourced(r) \/ CloseFailed(r) \/ MarkRunOk(r) \/ RecordFailure(r)
           \/ FailUnsourced(r) \/ MarkFailed(r) \/ MarkGenerated(r) \/ MarkUploaded(r)
           \/ Upload(r) \/ RecordOkCall(r) \/ RollUpCost(r) \/ InsertRun(r) \/ InsertAsset(r)
  <2>1. UNCHANGED <<up, permits>>
    BY <1>2 DEF CloseUnsourced, CloseFailed, MarkRunOk, RecordFailure, CloseRun, FailUnsourced,
       MarkFailed, MarkGenerated, MarkUploaded, Upload, RecordOkCall, RollUpCost, InsertRun,
       InsertAsset
  <2>2. \E from \in Live, to \in PC : /\ pc[r] = from /\ pc' = [pc EXCEPT ![r] = to]
                                      /\ from \in Holding <=> to \in Holding
    BY <1>2, Labels DEF CloseUnsourced, CloseFailed, MarkRunOk, RecordFailure, FailUnsourced,
       MarkFailed, MarkGenerated, MarkUploaded, Upload, RecordOkCall, RollUpCost, InsertRun,
       InsertAsset
  <2> QED BY <2>1, <2>2, PermitInvKept
<1>3. CASE Supersede(r)
  <2>1. UNCHANGED <<up, permits>> /\ pc[r] = "supersede"
        /\ \E to \in {"roll_up", "except"} : pc' = [pc EXCEPT ![r] = to]
    BY <1>3 DEF Supersede
  <2> QED BY <2>1, PermitInvKept, Labels
<1>4. ASSUME NEW k \in Kinds, NEW a \in Asset, NEW b \in Asset \cup {NoAsset},
             CheckTarget(r, k, a, b)
      PROVE  PermitInv'
  <2>1. up /\ UNCHANGED <<up, permits>> /\ pc[r] = "idle"
        /\ \E to \in {"done", "checked"} : pc' = [pc EXCEPT ![r] = to]
    BY <1>4 DEF CheckTarget
  <2> QED BY <2>1, PermitInvKept, Labels
<1> QED
  BY <1>1, <1>2, <1>3, <1>4, AcquirePermitInv, ReleasePermitInv DEF Task

LEMMA NextPermitInv == TypeOK /\ PermitInv /\ [Next]_vars => PermitInv'
<1> SUFFICES ASSUME TypeOK, PermitInv, [Next]_vars PROVE PermitInv'
  OBVIOUS
<1>1. pc \in [Request -> PC]
  BY DEF TypeOK
<1>2. CASE InspectorStep \/ UNCHANGED vars
  BY <1>2 DEF InspectorStep, Unsupersede, SoftDelete, vars, PermitInv, PermitsBalance, NoOrphanTask
<1>3. CASE Crash
  BY <1>1, <1>3, Labels DEF Crash, PermitInv, PermitsBalance, NoOrphanTask
<1>4. CASE Restart
  <2>1. Holders' = {} /\ up' /\ permits' = Permits
    BY <1>4, Labels DEF Restart, PermitInv, NoOrphanTask, Holders
  <2>2. Cardinality(Holders') = 0
    BY <2>1, FS_EmptySet
  <2> QED BY <2>1, <2>2, LineageAssumption DEF PermitInv, PermitsBalance, NoOrphanTask, Holders
<1> QED
  BY <1>2, <1>3, <1>4, StepPermitInv DEF Next, RequestStep, Quiescent

(* No way out of a regeneration, a crash of the process included, loses a  *)
(* permit of the shared semaphore or makes one up.                         *)
THEOREM PermitsAlwaysBalance == Spec => []PermitsBalance
<1>1. Init => PermitInv
  <2> SUFFICES ASSUME Init PROVE PermitInv
    OBVIOUS
  <2>1. Holders = {} /\ up /\ permits = Permits
    BY Labels DEF Init, Holders
  <2> QED
    BY <2>1, FS_EmptySet, LineageAssumption DEF PermitInv, PermitsBalance, NoOrphanTask, Holders
<1>2. PermitInv => PermitsBalance
  BY DEF PermitInv
<1> QED
  BY <1>1, <1>2, NextPermitInv, TypeCorrect, PTL DEF Spec

-----------------------------------------------------------------------------
(* The safety half of AcceptedRegenerationCloses.                          *)

(* A step of a request, as one formula. *)
StepOf(r) ==
  \/ \E k \in Kinds, a \in Asset, b \in Asset \cup {NoAsset} : CheckTarget(r, k, a, b)
  \/ InsertRun(r) \/ InsertAsset(r) \/ AbandonRequest(r)
  \/ AcquirePermit(r) \/ Task(r)

(* A request writes its own row and, when it supersedes, an original one:  *)
(* no row, label, run or reply of another request.                         *)
LEMMA StepFrame ==
  ASSUME TypeOK, LineageInv, NEW r \in Request, NEW q \in Request \ {r}, StepOf(r)
  PROVE  /\ pc'[q] = pc[q] /\ row'[q] = row[q]
         /\ runStatus'[q] = runStatus[q] /\ reply'[q] = reply[q]
<1> USE DEF rows, runs, request, Goto
<1>1. /\ pc \in [Request -> PC] /\ row \in [Asset -> RowStatus]
      /\ runStatus \in [Request -> {"absent", "running", "ok", "failed"}]
      /\ reply \in [Request -> {"none", "not_uploaded", "payload_missing", "accepted"}]
      /\ r \in Asset /\ q \in Asset
  BY AssetFacts DEF TypeOK
<1>2. CASE SourceLoaded(r) \/ SourceMissing(r) \/ RaiseUnguarded(r) \/ AbandonRequest(r)
           \/ ProviderSucceeds(r) \/ ProviderFails(r) \/ RecordErrorCall(r) \/ Raise(r)
           \/ LoseFailure(r) \/ CloseUnsourced(r) \/ CloseFailed(r) \/ MarkRunOk(r)
           \/ RecordFailure(r)
  BY <1>1, <1>2 DEF SourceLoaded, SourceMissing, RaiseUnguarded, AbandonRequest,
     ProviderSucceeds, ProviderFails, RecordErrorCall, Raise, LoseFailure, Moves,
     CloseUnsourced, CloseFailed, MarkRunOk, RecordFailure, CloseRun
<1>3. CASE InsertRun(r) \/ AcquirePermit(r) \/ Upload(r) \/ RecordOkCall(r) \/ RollUpCost(r)
           \/ ReleasePermit(r)
  BY <1>1, <1>3 DEF InsertRun, AcquirePermit, Upload, RecordOkCall, RollUpCost, ReleasePermit
<1>4. CASE InsertAsset(r) \/ FailUnsourced(r) \/ MarkFailed(r) \/ MarkGenerated(r) \/ MarkUploaded(r)
  BY <1>1, <1>4 DEF InsertAsset, FailUnsourced, MarkFailed, MarkGenerated, MarkUploaded, SetRow
<1>5. CASE Supersede(r)
  <2>1. target[r] # q
    BY <1>5, Labels, AssetFacts DEF Supersede, LineageInv, RunFollowsTask
  <2> QED BY <1>1, <1>5, <2>1 DEF Supersede, SetRow
<1>6. CASE \E k \in Kinds, a \in Asset, b \in Asset \cup {NoAsset} : CheckTarget(r, k, a, b)
  <2>1. /\ UNCHANGED <<row, runStatus>> /\ \E l \in PC : pc' = [pc EXCEPT ![r] = l]
        /\ reply' = reply \/ \E v : reply' = [reply EXCEPT ![r] = v]
    BY <1>6, Labels DEF CheckTarget
  <2> QED BY <1>1, <2>1
<1> QED
  BY <1>2, <1>3, <1>4, <1>5, <1>6 DEF StepOf, Task

(* What the label of a task says of its own row until it is uploaded.      *)
OwnRowAtStep ==
  \A r \in Request :
    /\ pc[r] \in {"load_source", "source_missing", "acquire", "generate",
                  "mark_failed", "mark_generated"} => row[r] = "pending"
    /\ pc[r] \in {"upload", "mark_uploaded", "mark_unstored"} => row[r] = "generated"

LEMMA OwnRowStep ==
  ASSUME TypeOK, LineageInv, OwnRowAtStep, [Next]_vars, NEW q \in Request
  PROVE  /\ pc'[q] \in {"load_source", "source_missing", "acquire", "generate",
                        "mark_failed", "mark_generated"} => row'[q] = "pending"
         /\ pc'[q] \in {"upload", "mark_uploaded", "mark_unstored"} => row'[q] = "generated"
<1> USE DEF rows, runs, request, Goto
<1>1. /\ pc \in [Request -> PC] /\ row \in [Asset -> RowStatus] /\ q \in Asset
  BY AssetFacts DEF TypeOK
<1>2. /\ pc[q] \in {"load_source", "source_missing", "acquire", "generate",
                    "mark_failed", "mark_generated"} => row[q] = "pending"
      /\ pc[q] \in {"upload", "mark_uploaded", "mark_unstored"} => row[q] = "generated"
  BY DEF OwnRowAtStep
<1>3. ASSUME NEW r \in Request, StepOf(r), r # q
      PROVE  pc'[q] = pc[q] /\ row'[q] = row[q]
  BY <1>3, StepFrame
<1>4. CASE StepOf(q)
  <2>1. CASE \/ SourceLoaded(q) \/ SourceMissing(q) \/ ProviderSucceeds(q) \/ ProviderFails(q)
             \/ AcquirePermit(q) \/ Upload(q)
    BY <1>1, <1>2, <2>1 DEF SourceLoaded, SourceMissing, ProviderSucceeds, ProviderFails, Moves,
       AcquirePermit, Upload
  <2>2. CASE InsertAsset(q) \/ MarkGenerated(q)
    BY <1>1, <1>2, <2>2 DEF InsertAsset, MarkGenerated, SetRow
  <2>3. CASE \/ \E k \in Kinds, a \in Asset, b \in Asset \cup {NoAsset} : CheckTarget(q, k, a, b)
             \/ InsertRun(q) \/ AbandonRequest(q) \/ RaiseUnguarded(q) \/ RecordErrorCall(q)
             \/ Raise(q) \/ LoseFailure(q) \/ CloseUnsourced(q) \/ CloseFailed(q) \/ MarkRunOk(q)
             \/ RecordFailure(q) \/ FailUnsourced(q) \/ MarkFailed(q) \/ MarkUploaded(q)
             \/ RecordOkCall(q) \/ Supersede(q) \/ RollUpCost(q) \/ ReleasePermit(q)
    <3>1. pc'[q] \notin {"load_source", "source_missing", "acquire", "generate",
                         "mark_failed", "mark_generated", "upload", "mark_uploaded", "mark_unstored"}
      BY <1>1, <2>3 DEF CheckTarget, InsertRun, AbandonRequest, RaiseUnguarded,
         RecordErrorCall, Raise, LoseFailure, Moves, CloseUnsourced, CloseFailed, MarkRunOk,
         RecordFailure, FailUnsourced, MarkFailed, MarkUploaded, RecordOkCall, Supersede,
         RollUpCost, ReleasePermit
    <3> QED BY <3>1
  <2> QED BY <1>4, <2>1, <2>2, <2>3 DEF StepOf, Task
<1>5. CASE InspectorStep
  <2>1. pc' = pc /\ (row'[q] = row[q] \/ row[q] \in {"uploaded", "superseded"})
    BY <1>1, <1>5 DEF InspectorStep, Unsupersede, SoftDelete, SetRow
  <2> QED BY <1>2, <2>1
<1>6. CASE Crash
  BY <1>1, <1>2, <1>6 DEF Crash
<1>7. CASE Restart \/ UNCHANGED vars
  BY <1>2, <1>7 DEF Restart, vars
<1> QED
  BY <1>2, <1>3, <1>4, <1>5, <1>6, <1>7 DEF Next, RequestStep, StepOf, Quiescent

(* No UPDATE of a request's own row ever raises InvalidStateTransition,    *)
(* whatever other requests and the inspector do meanwhile.                 *)
THEOREM RowsAreFoundByTheirTasks == Spec => []UpdatesFindTheirRows
<1>1. Init => OwnRowAtStep
  BY DEF Init, OwnRowAtStep
<1>2. TypeOK /\ LineageInv /\ OwnRowAtStep /\ [Next]_vars => OwnRowAtStep'
  BY OwnRowStep DEF OwnRowAtStep
<1>3. OwnRowAtStep => UpdatesFindTheirRows
  BY DEF OwnRowAtStep, UpdatesFindTheirRows
<1> QED
  BY <1>1, <1>2, <1>3, TypeCorrect, LineageCorrect, PTL DEF Spec

(* While no permit is left, another task has one.                          *)
THEOREM PermitWaitersHaveHolders == Spec => []WaitersHaveHolders
<1>1. PermitsBalance => WaitersHaveHolders
  <2> SUFFICES ASSUME PermitsBalance, up, permits = 0, \A r \in Request : pc[r] \notin Holding
               PROVE  FALSE
    BY DEF WaitersHaveHolders
  <2>1. {r \in Request : pc[r] \in Holding} = {}
    OBVIOUS
  <2>2. Cardinality({r \in Request : pc[r] \in Holding}) = 0
    BY <2>1, FS_EmptySet
  <2> QED BY <2>2, LineageAssumption DEF PermitsBalance
<1> QED
  BY <1>1, PermitsAlwaysBalance, PTL

(* A regeneration that is over has its run closed or was refused.          *)
THEOREM EndedRegenerationsAreClosed == Spec => []EndedRunIsClosed
<1>1. Init => EndedRunIsClosed
  BY DEF Init, EndedRunIsClosed
<1>2. TypeOK /\ LineageInv /\ EndedRunIsClosed /\ [Next]_vars => EndedRunIsClosed'
  <2> SUFFICES ASSUME TypeOK, LineageInv, EndedRunIsClosed, [Next]_vars,
                      NEW q \in Request \ Refused, pc'[q] \in {"release", "done"}
               PROVE  runStatus'[q] \in {"ok", "failed"}
                        \/ reply'[q] \in {"not_uploaded", "payload_missing"}
    BY DEF EndedRunIsClosed
  <2> USE DEF rows, runs, request, Goto
  <2>1. ASSUME pc[q] \in {"release", "done"}
        PROVE  runStatus[q] \in {"ok", "failed"} \/ reply[q] \in {"not_uploaded", "payload_missing"}
    BY <2>1 DEF EndedRunIsClosed
  <2>2. /\ pc \in [Request -> PC] /\ q \in Request
        /\ runStatus \in [Request -> {"absent", "running", "ok", "failed"}]
        /\ reply \in [Request -> {"none", "not_uploaded", "payload_missing", "accepted"}]
    BY DEF TypeOK
  <2>3. ASSUME NEW r \in Request, StepOf(r), r # q
        PROVE  pc'[q] = pc[q] /\ runStatus'[q] = runStatus[q] /\ reply'[q] = reply[q]
    BY <2>2, <2>3, StepFrame
  <2>4. CASE StepOf(q)
    <3>1. CASE CloseUnsourced(q) \/ CloseFailed(q) \/ MarkRunOk(q) \/ RecordFailure(q)
      BY <2>2, <3>1 DEF CloseUnsourced, CloseFailed, MarkRunOk, RecordFailure, CloseRun
    <3>2. CASE ReleasePermit(q)
      BY <2>1, <2>2, <3>2 DEF ReleasePermit
    <3>3. CASE \E k \in Kinds, a \in Asset, b \in Asset \cup {NoAsset} : CheckTarget(q, k, a, b)
      BY <2>2, <3>3 DEF CheckTarget
    <3>4. CASE LoseFailure(q)
      BY <3>4 DEF LoseFailure
    <3>5. CASE \/ InsertRun(q) \/ InsertAsset(q) \/ AbandonRequest(q) \/ AcquirePermit(q)
               \/ SourceLoaded(q) \/ SourceMissing(q) \/ FailUnsourced(q) \/ RaiseUnguarded(q)
               \/ ProviderSucceeds(q) \/ ProviderFails(q) \/ MarkFailed(q) \/ RecordErrorCall(q)
               \/ MarkGenerated(q) \/ Upload(q) \/ MarkUploaded(q) \/ RecordOkCall(q)
               \/ Supersede(q) \/ RollUpCost(q) \/ Raise(q)
      BY <2>2, <3>5 DEF InsertRun, InsertAsset, AbandonRequest, AcquirePermit, SourceLoaded,
         SourceMissing, FailUnsourced, RaiseUnguarded, ProviderSucceeds, ProviderFails,
         MarkFailed, RecordErrorCall, MarkGenerated, Upload, MarkUploaded, RecordOkCall,
         Supersede, RollUpCost, Raise, Moves
    <3> QED BY <2>4, <3>1, <3>2, <3>3, <3>4, <3>5 DEF StepOf, Task
  <2>5. CASE InspectorStep \/ Restart \/ UNCHANGED vars
    BY <2>1, <2>5 DEF InspectorStep, Unsupersede, SoftDelete, Restart, vars
  <2>6. CASE Crash
    BY <2>1, <2>2, <2>6 DEF Crash
  <2> QED
    BY <2>1, <2>3, <2>4, <2>5, <2>6 DEF Next, RequestStep, StepOf, Quiescent
<1> QED
  BY <1>1, <1>2, TypeCorrect, LineageCorrect, PTL DEF Spec

LEMMA StepsLeftAt ==
  ASSUME NEW r \in Request
  PROVE  /\ StepsLeft(r) \in 0..14
         /\ StepsLeft(r)' \in 0..14
         /\ pc'[r] = pc[r] => StepsLeft(r)' = StepsLeft(r)
         /\ pc'[r] = "dead" => StepsLeft(r)' = 0
         /\ pc[r] \in TryBlock => StepsLeft(r) > 2
         /\ pc'[r] = "except" => StepsLeft(r)' = 2
         /\ pc[r] \in Unguarded => StepsLeft(r) > 0
<1>1. StepsLeft(r) \in 0..14 /\ StepsLeft(r)' \in 0..14
  BY DEF StepsLeft
<1>2. pc'[r] = pc[r] => StepsLeft(r)' = StepsLeft(r)
  BY DEF StepsLeft
<1>3. (pc'[r] = "dead" => StepsLeft(r)' = 0) /\ (pc'[r] = "except" => StepsLeft(r)' = 2)
  BY DEF StepsLeft
<1>4. pc[r] \in TryBlock => StepsLeft(r) > 2
  <2>1. pc[r] \in {"generate", "mark_generated", "upload", "mark_uploaded", "mark_unstored",
                   "ok_call"}
          => StepsLeft(r) \in 6..10
    BY DEF StepsLeft
  <2>2. pc[r] \in {"supersede", "mark_failed", "roll_up", "error_call", "mark_ok", "close_failed"}
          => StepsLeft(r) \in 3..5
    BY DEF StepsLeft
  <2> QED BY <2>1, <2>2 DEF TryBlock
<1>5. pc[r] \in Unguarded => StepsLeft(r) > 0
  BY DEF StepsLeft, Unguarded
<1> QED BY <1>1, <1>2, <1>3, <1>4, <1>5

LEMMA StepTakesOne ==
  ASSUME TypeOK, NEW r \in Request,
         InsertRun(r) \/ InsertAsset(r) \/ AcquirePermit(r) \/ Task(r)
  PROVE  StepsLeft(r)' < StepsLeft(r)
<1> USE DEF Goto
<1>1. pc \in [Request -> PC]
  BY DEF TypeOK
<1>2. CASE RaiseUnguarded(r)
  <2>1. pc[r] \in Unguarded /\ pc'[r] = "dead"
    BY <1>1, <1>2 DEF RaiseUnguarded, Moves
  <2> QED BY <2>1, StepsLeftAt
<1>3. CASE Raise(r)
  <2>1. pc[r] \in TryBlock /\ pc'[r] = "except"
    BY <1>1, <1>3 DEF Raise, Moves
  <2> QED BY <2>1, StepsLeftAt
<1>4. CASE InsertRun(r) \/ InsertAsset(r) \/ AcquirePermit(r)
           \/ SourceLoaded(r) \/ SourceMissing(r) \/ FailUnsourced(r) \/ CloseUnsourced(r)
  <2>1. \/ pc[r] = "checked" /\ pc'[r] = "run_inserted"
        \/ pc[r] = "run_inserted" /\ pc'[r] \in {"load_source", "acquire"}
        \/ pc[r] = "acquire" /\ pc'[r] = "generate"
        \/ pc[r] = "load_source" /\ pc'[r] \in {"acquire", "source_missing"}
        \/ pc[r] = "source_missing" /\ pc'[r] = "close_unsourced"
        \/ pc[r] = "close_unsourced" /\ pc'[r] = "done"
    BY <1>1, <1>4 DEF InsertRun, InsertAsset, AcquirePermit, SourceLoaded, SourceMissing,
       FailUnsourced, CloseUnsourced, Moves
  <2> QED BY <2>1 DEF StepsLeft
<1>5. CASE \/ ProviderSucceeds(r) \/ ProviderFails(r) \/ MarkFailed(r) \/ RecordErrorCall(r)
           \/ CloseFailed(r) \/ MarkGenerated(r) \/ Upload(r) \/ MarkUploaded(r)
  <2>1. \/ pc[r] = "generate" /\ pc'[r] \in {"mark_generated", "mark_failed"}
        \/ pc[r] = "mark_failed" /\ pc'[r] = "error_call"
        \/ pc[r] = "error_call" /\ pc'[r] = "close_failed"
        \/ pc[r] = "close_failed" /\ pc'[r] = "release"
        \/ pc[r] = "mark_generated" /\ pc'[r] = "upload"
        \/ pc[r] = "upload" /\ pc'[r] \in {"mark_uploaded", "mark_unstored"}
        \/ pc[r] \in {"mark_uploaded", "mark_unstored"} /\ pc'[r] = "ok_call"
    BY <1>1, <1>5 DEF ProviderSucceeds, ProviderFails, MarkFailed, RecordErrorCall,
       CloseFailed, MarkGenerated, Upload, MarkUploaded, Moves
  <2> QED BY <2>1 DEF StepsLeft
<1>6. CASE \/ RecordOkCall(r) \/ Supersede(r) \/ RollUpCost(r) \/ MarkRunOk(r)
           \/ RecordFailure(r) \/ LoseFailure(r) \/ ReleasePermit(r)
  <2>1. \/ pc[r] = "ok_call" /\ pc'[r] = "supersede"
        \/ pc[r] = "supersede" /\ pc'[r] \in {"roll_up", "except"}
        \/ pc[r] = "roll_up" /\ pc'[r] = "mark_ok"
        \/ pc[r] \in {"mark_ok", "except"} /\ pc'[r] = "release"
        \/ pc[r] = "release" /\ pc'[r] = "done"
    BY <1>1, <1>6 DEF RecordOkCall, Supersede, RollUpCost, MarkRunOk, RecordFailure,
       LoseFailure, ReleasePermit, Moves
  <2> QED BY <2>1 DEF StepsLeft
<1> QED
  BY <1>2, <1>3, <1>4, <1>5, <1>6 DEF Task

(* A regeneration is over after 14 steps of its request and its task.      *)
THEOREM RegenerationsAreFinite == Spec => StepsAreCounted
<1>1. ASSUME TypeOK, LineageInv, [Next]_vars, NEW q \in Request, pc[q] \in Live
      PROVE  StepsLeft(q)' <= StepsLeft(q)
  <2>1. pc \in [Request -> PC] /\ pc[q] # "idle"
    BY <1>1, Labels DEF TypeOK
  <2>2. pc'[q] = pc[q] \/ pc'[q] = "dead" \/ StepsLeft(q)' < StepsLeft(q)
    <3>1. CASE \E r \in Request : StepOf(r)
      <4>1. PICK r \in Request : StepOf(r)
        BY <3>1
      <4>2. CASE r # q
        BY <1>1, <4>1, <4>2, StepFrame
      <4>3. CASE r = q
        <5>1. AbandonRequest(q) => pc'[q] = "dead"
          BY <2>1 DEF AbandonRequest, Moves, Goto
        <5>2. ~(\E k \in Kinds, a \in Asset, b \in Asset \cup {NoAsset} : CheckTarget(q, k, a, b))
          BY <2>1 DEF CheckTarget
        <5> QED BY <1>1, <4>1, <4>3, <5>1, <5>2, StepTakesOne DEF StepOf
      <4> QED BY <4>2, <4>3
    <3>2. CASE InspectorStep \/ Restart \/ UNCHANGED vars
      BY <3>2 DEF InspectorStep, Unsupersede, SoftDelete, Restart, vars
    <3>3. CASE Crash
      BY <2>1, <3>3 DEF Crash
    <3> QED BY <1>1, <3>1, <3>2, <3>3 DEF Next, RequestStep, StepOf, Quiescent
  <2> QED BY <2>2, StepsLeftAt
<1>2. TypeOK /\ LineageInv /\ [Next]_vars =>
        [\A r \in Request :
           /\ pc[r] \in Live => StepsLeft(r)' <= StepsLeft(r)
           /\ InsertRun(r) \/ InsertAsset(r) \/ AcquirePermit(r) \/ Task(r)
                => StepsLeft(r)' < StepsLeft(r)]_vars
  BY <1>1, StepTakesOne
<1> QED
  BY <1>2, TypeCorrect, LineageCorrect, PTL DEF Spec, StepsAreCounted

-----------------------------------------------------------------------------
(* ColdStorage. *)

LEMMA UnpublishedLabels ==
  Unpublished = {"idle", "checked", "run_inserted", "load_source", "source_missing",
                 "close_unsourced", "acquire", "generate", "mark_failed",
                 "mark_generated", "upload", "mark_uploaded", "mark_unstored"}
BY Labels DEF Unpublished, InFlight

LEMMA InitSweepInv == ColdInit => SweepInv
<1> SUFFICES ASSUME ColdInit PROVE SweepInv
  OBVIOUS
<1>1. SweepTypeOK
  BY InitTypeOK DEF ColdInit, SweepTypeOK
<1>2. RequestKeys
  BY AssetFacts DEF ColdInit, Init, RequestKeys
<1>3. UnstoredIsNowhere /\ \A a \in Asset : ObjectKept(a)
  BY DEF ColdInit, Init, UnstoredIsNowhere, ObjectKept, Prefix
<1> QED
  BY <1>1, <1>2, <1>3 DEF ColdInit, SweepHolds, SweepInv, NoObjectLost

-----------------------------------------------------------------------------
(* What a step of a request does to the keys and the bucket.               *)
RequestEffectOn(r) ==
  /\ \/ bucket' = bucket
     \/ pc'[r] = "mark_uploaded" /\ bucket' = bucket \cup {<<r, "warm">>}
  /\ \E l \in PC : pc' = [pc EXCEPT ![r] = l]
  /\ \/ UNCHANGED <<key, url>>
     \/ /\ pc[r] \in {"mark_uploaded", "mark_unstored"} /\ pc'[r] = "ok_call"
        /\ key' = [key EXCEPT ![r] = IF pc[r] = "mark_uploaded" THEN "warm" ELSE "unstored"]
        /\ url' = url \cup {r}
  /\ pc'[r] \in Unpublished => pc[r] \in Unpublished \ {"mark_uploaded"}
  /\ pc'[r] = "mark_uploaded" => <<r, "warm">> \in bucket'

LEMMA RequestEffect ==
  ASSUME TypeOK, NEW r \in Request,
         \/ \E k \in Kinds, a \in Asset, b \in Asset \cup {NoAsset} : CheckTarget(r, k, a, b)
         \/ InsertRun(r) \/ InsertAsset(r) \/ AbandonRequest(r) \/ AcquirePermit(r) \/ Task(r)
  PROVE  RequestEffectOn(r)
<1> USE DEF rows, runs, request, Goto, RequestEffectOn
<1>0. pc \in [Request -> PC] /\ r \in Request
  BY DEF TypeOK
<1>1. CASE SourceLoaded(r) \/ SourceMissing(r) \/ RaiseUnguarded(r) \/ AbandonRequest(r)
           \/ ProviderSucceeds(r) \/ ProviderFails(r) \/ RecordErrorCall(r) \/ Raise(r)
           \/ LoseFailure(r)
  <2>1. PICK from \in Live, to \in PC : /\ Moves(r, from, to)
                                        /\ to \in Unpublished =>
                                             from \in Unpublished \ {"mark_uploaded"}
                                        /\ to # "mark_uploaded"
    BY <1>1, Labels, UnpublishedLabels DEF SourceLoaded, SourceMissing, RaiseUnguarded,
       AbandonRequest, ProviderSucceeds, ProviderFails, RecordErrorCall, Raise, LoseFailure
  <2> QED
    BY <1>0, <2>1 DEF Moves
<1>2. CASE InsertRun(r) \/ CloseUnsourced(r) \/ CloseFailed(r) \/ MarkRunOk(r)
           \/ RecordFailure(r) \/ RecordOkCall(r) \/ RollUpCost(r) \/ Supersede(r)
           \/ AcquirePermit(r) \/ ReleasePermit(r) \/ FailUnsourced(r) \/ MarkFailed(r)
           \/ MarkGenerated(r)
  <2>1. UNCHANGED <<key, url, bucket>>
    BY <1>2 DEF InsertRun, CloseUnsourced, CloseFailed, MarkRunOk, RecordFailure, RecordOkCall,
       RollUpCost, Supersede, AcquirePermit, ReleasePermit, FailUnsourced, MarkFailed,
       MarkGenerated, CloseRun, SetRow
  <2>2. \E l \in PC : /\ pc' = [pc EXCEPT ![r] = l]
                      /\ l \in Unpublished => pc[r] \in Unpublished \ {"mark_uploaded"}
                      /\ l # "mark_uploaded"
    <3>1. CASE InsertRun(r) \/ CloseUnsourced(r) \/ CloseFailed(r) \/ MarkRunOk(r)
               \/ RecordFailure(r) \/ RecordOkCall(r) \/ RollUpCost(r)
      BY <3>1, Labels, UnpublishedLabels DEF InsertRun, CloseUnsourced, CloseFailed, MarkRunOk,
         RecordFailure, RecordOkCall, RollUpCost
    <3>2. CASE Supersede(r) \/ AcquirePermit(r) \/ ReleasePermit(r) \/ FailUnsourced(r)
               \/ MarkFailed(r) \/ MarkGenerated(r)
      BY <3>2, Labels, UnpublishedLabels DEF Supersede, AcquirePermit, ReleasePermit,
         FailUnsourced, MarkFailed, MarkGenerated
    <3> QED BY <1>2, <3>1, <3>2
  <2> QED
    BY <1>0, <2>1, <2>2
<1>3. CASE InsertAsset(r)
  BY <1>0, <1>3, Labels, UnpublishedLabels DEF InsertAsset
<1>4. CASE Upload(r)
  BY <1>0, <1>4, Labels, UnpublishedLabels DEF Upload
<1>5. CASE MarkUploaded(r)
  <2>1. /\ pc[r] \in {"mark_uploaded", "mark_unstored"} /\ pc' = [pc EXCEPT ![r] = "ok_call"]
        /\ key' = [key EXCEPT ![r] = IF pc[r] = "mark_uploaded" THEN "warm" ELSE "unstored"]
        /\ url' = url \cup {r} /\ UNCHANGED bucket
    BY <1>5 DEF MarkUploaded
  <2> QED
    BY <1>0, <2>1, Labels, UnpublishedLabels
<1>6. ASSUME NEW k \in Kinds, NEW a \in Asset, NEW b \in Asset \cup {NoAsset},
             CheckTarget(r, k, a, b)
      PROVE  /\ UNCHANGED <<key, url, bucket>> /\ pc[r] = "idle"
             /\ \E l \in {"done", "checked"} : pc' = [pc EXCEPT ![r] = l]
  BY <1>6 DEF CheckTarget
<1>7. CASE \E k \in Kinds, a \in Asset, b \in Asset \cup {NoAsset} : CheckTarget(r, k, a, b)
  BY <1>0, <1>6, <1>7, Labels, UnpublishedLabels
<1> QED
  BY <1>1, <1>2, <1>3, <1>4, <1>5, <1>7 DEF Task

LEMMA RequestSweepInv ==
  ASSUME SweepInv, RequestStep, UNCHANGED sweep
  PROVE  SweepInv'
<1>1. /\ SweepTypeOK /\ SweepHolds /\ RequestKeys /\ UnstoredIsNowhere
      /\ \A a \in Asset : ObjectKept(a)
  BY DEF SweepInv, NoObjectLost
<1>2. TypeOK'
  BY <1>1, HandlerTypeOK, TaskTypeOK DEF SweepTypeOK, RequestStep
<1>3. PICK r \in Request : RequestEffectOn(r)
  BY <1>1, RequestEffect DEF SweepTypeOK, RequestStep
<1>4. /\ key \in [Asset -> Key] /\ pc \in [Request -> PC]
      /\ r \in Asset /\ \A q \in Request \ {r} : pc'[q] = pc[q] /\ q \in Asset
      /\ todo \subseteq Asset /\ UNCHANGED <<step, todo, inHand, interrupted>>
  BY <1>1, <1>3, AssetFacts DEF RequestEffectOn, SweepTypeOK, TypeOK, sweep
<1>5. /\ bucket \subseteq bucket'
      /\ \A a \in Asset \ {r} : <<a, "warm">> \in bucket' => <<a, "warm">> \in bucket
      /\ <<r, "warm">> \in bucket' => <<r, "warm">> \in bucket \/ pc'[r] = "mark_uploaded"
  BY <1>3 DEF RequestEffectOn
<1>6. RequestKeys' /\ UnstoredIsNowhere' /\ SweepHolds' /\ \A a \in Asset : ObjectKept(a)'
  <2>1. CASE UNCHANGED <<key, url>>
    <3>1. ASSUME NEW q \in Request
          PROVE  /\ pc'[q] \in Unpublished => key'[q] = "none"
                 /\ pc'[q] = "mark_uploaded" => <<q, "warm">> \in bucket'
                 /\ pc'[q] \in Unpublished \ {"mark_uploaded"} => <<q, "warm">> \notin bucket'
      <4>1. CASE q = r
        BY <1>1, <1>3, <1>5, <2>1, <4>1 DEF RequestEffectOn, RequestKeys
      <4>2. CASE q # r
        BY <1>1, <1>4, <1>5, <2>1, <4>2 DEF RequestKeys
      <4> QED BY <4>1, <4>2
    <3>2. UnstoredIsNowhere'
      <4>1. pc'[r] = "mark_uploaded" => key[r] = "none"
        BY <1>1, <1>3 DEF RequestEffectOn, RequestKeys, Unpublished
      <4> QED BY <1>1, <1>4, <1>5, <2>1, <4>1 DEF UnstoredIsNowhere
    <3>3. SweepHolds' /\ \A a \in Asset : ObjectKept(a)'
      BY <1>1, <1>4, <1>5, <2>1 DEF SweepHolds, ObjectKept
    <3> QED BY <3>1, <3>2, <3>3 DEF RequestKeys
  <2>2. CASE /\ pc[r] \in {"mark_uploaded", "mark_unstored"} /\ pc'[r] = "ok_call"
             /\ key' = [key EXCEPT ![r] = IF pc[r] = "mark_uploaded" THEN "warm" ELSE "unstored"]
             /\ url' = url \cup {r}
    <3>1. /\ pc[r] \in Unpublished /\ pc'[r] \notin Unpublished /\ key[r] = "none"
          /\ bucket' = bucket
      BY <1>1, <1>3, <2>2, UnpublishedLabels DEF RequestEffectOn, RequestKeys
    <3>2. \A a \in Asset \ {r} : key'[a] = key[a] /\ (a \in url' <=> a \in url)
      BY <1>4, <2>2
    <3>3. \/ key'[r] = "warm" /\ <<r, "warm">> \in bucket'
          \/ key'[r] = "unstored" /\ <<r, "warm">> \notin bucket'
      BY <1>1, <1>4, <2>2, <3>1 DEF RequestKeys
    <3>4. RequestKeys' /\ UnstoredIsNowhere'
      <4>1. ASSUME NEW q \in Request \ {r}
            PROVE  pc'[q] = pc[q] /\ key'[q] = key[q]
        BY <1>4, <3>2
      <4>2. RequestKeys'
        <5>1. ASSUME NEW q \in Request, q # r
              PROVE  /\ pc'[q] \in Unpublished => key'[q] = "none"
                     /\ pc'[q] = "mark_uploaded" => <<q, "warm">> \in bucket'
                     /\ pc'[q] \in Unpublished \ {"mark_uploaded"} => <<q, "warm">> \notin bucket'
          BY <1>1, <3>1, <4>1, <5>1 DEF RequestKeys
        <5>2. pc'[r] # "mark_uploaded"
          BY <2>2
        <5> QED BY <3>1, <5>1, <5>2 DEF RequestKeys
      <4>3. UnstoredIsNowhere'
        BY <1>1, <3>1, <3>2, <3>3 DEF UnstoredIsNowhere
      <4> QED BY <4>2, <4>3
    <3>5. r \notin todo /\ (step \in {"delete", "update"} => inHand # r)
      BY <1>1, <3>1 DEF SweepHolds
    <3>6. SweepHolds'
      BY <1>1, <1>4, <3>1, <3>2, <3>5 DEF SweepHolds
    <3>7. \A a \in Asset : ObjectKept(a)'
      BY <1>1, <3>1, <3>2, <3>3 DEF ObjectKept, Prefix
    <3> QED BY <3>4, <3>6, <3>7
  <2> QED BY <1>3, <2>1, <2>2 DEF RequestEffectOn
<1> QED
  BY <1>1, <1>2, <1>4, <1>6 DEF SweepTypeOK, SweepInv, NoObjectLost

(* The inspector and the process touch neither keys nor objects.           *)
LEMMA OthersSweepInv ==
  ASSUME SweepInv,
         \/ (InspectorStep \/ Restart \/ Quiescent) /\ UNCHANGED sweep
         \/ StopSweep
  PROVE  SweepInv'
<1>1. /\ SweepTypeOK /\ SweepHolds /\ RequestKeys /\ UnstoredIsNowhere
      /\ \A a \in Asset : ObjectKept(a)
  BY DEF SweepInv, NoObjectLost
<1>2. TypeOK'
  <2>1. CASE InspectorStep \/ Restart \/ StopSweep
    BY <1>1, <2>1, InspectorTypeOK, ProcessTypeOK DEF SweepTypeOK, InspectorStep, StopSweep
  <2>2. CASE Quiescent
    BY <1>1, <2>2 DEF SweepTypeOK, Quiescent, TypeOK, vars, rows, runs, request
  <2> QED BY <2>1, <2>2
<1>3. UNCHANGED <<key, url, bucket>>
  BY DEF InspectorStep, Unsupersede, SoftDelete, Restart, Quiescent, StopSweep, Crash, vars, rows
<1>4. \A r \in Request : pc'[r] = pc[r] \/ pc'[r] = "dead"
  BY <1>1 DEF SweepTypeOK, TypeOK, InspectorStep, Unsupersede, SoftDelete, Restart, Quiescent,
     StopSweep, Crash, vars
<1>5. RequestKeys' /\ UnstoredIsNowhere'
  BY <1>1, <1>3, <1>4, UnpublishedLabels DEF RequestKeys, UnstoredIsNowhere
<1>6. \A a \in Asset : ObjectKept(a)'
  BY <1>1, <1>3 DEF ObjectKept
<1>7. \/ UNCHANGED sweep
      \/ /\ step' = "sleep" /\ todo' = {} /\ inHand' = NoAsset
         /\ interrupted' = interrupted \cup {a \in Asset : InHandOff(a)}
  BY DEF StopSweep
<1>8. SweepHolds'
  BY <1>1, <1>3, <1>7 DEF SweepHolds, sweep
<1>9. SweepTypeOK'
  BY <1>1, <1>2, <1>7 DEF SweepTypeOK, sweep
<1> QED
  BY <1>5, <1>6, <1>8, <1>9 DEF SweepInv, NoObjectLost

(* The steps of the sweep itself.                                          *)
LEMMA SweepStepInv ==
  ASSUME SweepInv, StartSweep \/ \E a \in Asset : Age(a) \/ SweepRow(a)
  PROVE  SweepInv'
<1> DEFINE Kept == /\ SweepTypeOK' /\ SweepHolds' /\ RequestKeys' /\ UnstoredIsNowhere'
                   /\ \A a \in Asset : ObjectKept(a)'
<1> SUFFICES Kept
  BY DEF SweepInv, NoObjectLost
<1> USE DEF rows, lineage, sweep, runs, request
<1>1. /\ SweepTypeOK /\ SweepHolds /\ RequestKeys /\ UnstoredIsNowhere
      /\ \A a \in Asset : ObjectKept(a)
      /\ \A r \in Request : r \in Asset
  BY AssetFacts DEF SweepInv, NoObjectLost
<1>2. CASE StartSweep
  <2>1. SweepTypeOK'
    BY <1>1, <1>2 DEF StartSweep, SweepTypeOK, TypeOK, Eligible
  <2>2. SweepHolds'
    BY <1>2 DEF StartSweep, SweepHolds, Eligible
  <2>3. RequestKeys' /\ UnstoredIsNowhere' /\ \A a \in Asset : ObjectKept(a)'
    BY <1>1, <1>2 DEF StartSweep, RequestKeys, UnstoredIsNowhere, ObjectKept
  <2> QED
    BY <2>1, <2>2, <2>3
<1>3. ASSUME NEW x \in Asset, Age(x) PROVE Kept
  <2>1. SweepTypeOK'
    BY <1>1, <1>3 DEF Age, SweepTypeOK, TypeOK
  <2>2. /\ SweepHolds' /\ RequestKeys' /\ UnstoredIsNowhere'
        /\ \A a \in Asset : ObjectKept(a)'
    BY <1>1, <1>3 DEF Age, SweepHolds, RequestKeys, UnstoredIsNowhere, ObjectKept
  <2> QED
    BY <2>1, <2>2
<1>4. ASSUME NEW x \in Asset, UNCHANGED <<rows, bucket, lineage>>,
             interrupted' \subseteq interrupted \cup {x}, NextRow(x)
      PROVE  Kept
  <2>1. /\ todo' = todo \ {x} /\ step' \in {"sleep", "copy"} /\ inHand' = NoAsset
    BY <1>4 DEF NextRow
  <2>2. SweepTypeOK'
    BY <1>1, <1>4, <2>1 DEF SweepTypeOK, TypeOK
  <2>3. /\ SweepHolds' /\ RequestKeys' /\ UnstoredIsNowhere'
        /\ \A a \in Asset : ObjectKept(a)'
    BY <1>1, <1>4, <2>1 DEF SweepHolds, RequestKeys, UnstoredIsNowhere, ObjectKept
  <2> QED
    BY <2>2, <2>3
<1>5. ASSUME NEW x \in Asset, Copy(x) PROVE Kept
  <2>1. /\ bucket' = bucket \cup {<<x, "cold">>} /\ <<x, "warm">> \in bucket
        /\ UNCHANGED <<rows, lineage, todo, interrupted>> /\ x \in todo
        /\ step' = "delete" /\ inHand' = x
    BY <1>5 DEF Copy
  <2>2. SweepTypeOK'
    BY <1>1, <2>1 DEF SweepTypeOK, TypeOK, Prefix
  <2>3. key[x] = "warm"
    BY <1>1, <2>1 DEF SweepHolds, SweepTypeOK, UnstoredIsNowhere
  <2>4. SweepHolds' /\ RequestKeys' /\ UnstoredIsNowhere'
    BY <1>1, <2>1, <2>3 DEF SweepHolds, RequestKeys, UnstoredIsNowhere
  <2>5. \A a \in Asset : ObjectKept(a)'
    BY <1>1, <2>1 DEF ObjectKept
  <2> QED
    BY <2>2, <2>4, <2>5
(* The delete, whether or not its answer arrives. *)
<1>6. ASSUME NEW x \in Asset, step = "delete", x = inHand,
             bucket' = bucket \ {<<x, "warm">>}, UNCHANGED <<rows, lineage>>,
             \/ step' = "update" /\ UNCHANGED <<todo, inHand, interrupted>>
             \/ NextRow(x) /\ interrupted' = interrupted \cup {x}
      PROVE  Kept
  <2>1. /\ key[x] = "warm" /\ <<x, "cold">> \in bucket /\ x \in todo
        /\ todo' \subseteq todo /\ interrupted' \subseteq interrupted \cup {x}
        /\ \/ step' = "update" /\ UNCHANGED <<todo, inHand>>
           \/ step' \in {"sleep", "copy"} /\ inHand' = NoAsset
    BY <1>1, <1>6 DEF SweepHolds, NextRow
  <2>2. SweepTypeOK'
    BY <1>1, <1>6, <2>1 DEF SweepTypeOK, TypeOK
  <2>3. SweepHolds' /\ UnstoredIsNowhere'
    BY <1>1, <1>6, <2>1 DEF SweepHolds, UnstoredIsNowhere
  <2>4. RequestKeys'
    <3>1. ASSUME NEW r \in Request, pc[r] = "mark_uploaded" PROVE r # x
      BY <1>1, <2>1, <3>1, UnpublishedLabels DEF RequestKeys
    <3> QED
      BY <1>1, <1>6, <2>1, <3>1 DEF RequestKeys
  <2>5. ASSUME NEW a \in Asset PROVE ObjectKept(a)'
    <3>1. <<a, "cold">> \in bucket => <<a, "cold">> \in bucket'
      BY <1>6
    <3>2. a # x /\ <<a, "warm">> \in bucket => <<a, "warm">> \in bucket'
      BY <1>6
    <3>3. <<x, "cold">> \in bucket'
      BY <1>6, <2>1
    <3> QED
      BY <1>1, <1>6, <2>1, <3>1, <3>2, <3>3 DEF ObjectKept
  <2> QED
    BY <2>2, <2>3, <2>4, <2>5
<1>7. ASSUME NEW x \in Asset, Update(x) PROVE Kept
  <2>1. /\ key' = [key EXCEPT ![x] = "cold"] /\ url' = url \ {x} /\ aged' = aged \ {x}
        /\ step = "update" /\ x = inHand /\ x \in todo /\ key[x] = "warm"
        /\ <<x, "cold">> \in bucket /\ todo' = todo \ {x}
        /\ step' \in {"sleep", "copy"} /\ inHand' = NoAsset
        /\ UNCHANGED <<row, replacedBy, softDeleted, restored, bucket, lineage, interrupted>>
        /\ key \in [Asset -> Key]
    BY <1>1, <1>7 DEF Update, NextRow, SweepHolds, SweepTypeOK, TypeOK
  <2>2. SweepTypeOK'
    BY <1>1, <2>1 DEF SweepTypeOK, TypeOK, Prefix, Key
  <2>3. SweepHolds' /\ UnstoredIsNowhere'
    BY <1>1, <2>1 DEF SweepHolds, SweepTypeOK, UnstoredIsNowhere
  <2>4. RequestKeys'
    <3>1. ASSUME NEW r \in Request, pc[r] \in Unpublished PROVE r # x
      BY <1>1, <2>1, <3>1 DEF RequestKeys
    <3> QED
      BY <1>1, <2>1, <3>1, UnpublishedLabels DEF RequestKeys
  <2>5. \A a \in Asset : ObjectKept(a)'
    BY <1>1, <2>1 DEF ObjectKept
  <2> QED
    BY <2>2, <2>3, <2>4, <2>5
<1>8. ASSUME NEW x \in Asset, CopyFails(x) \/ DeleteFails(x) \/ UpdateFails(x) \/ Delete(x)
      PROVE  Kept
  <2>1. CASE CopyFails(x) \/ UpdateFails(x)
    BY <1>4, <2>1 DEF CopyFails, UpdateFails
  <2>2. CASE Delete(x)
    BY <1>6, <2>2 DEF Delete
  <2>3. CASE DeleteFails(x) /\ UNCHANGED <<bucket, interrupted>>
    BY <1>4, <2>3 DEF DeleteFails
  <2>4. CASE DeleteFails(x) /\ ~UNCHANGED <<bucket, interrupted>>
    BY <1>6, <2>4 DEF DeleteFails
  <2> QED BY <1>8, <2>1, <2>2, <2>3, <2>4
<1> QED
  BY <1>2, <1>3, <1>5, <1>7, <1>8 DEF SweepRow

(* Keys, URLs and objects agree at every point of a sweep.                 *)
THEOREM SweepCorrect == ColdSpec => []SweepInv
<1>1. SweepInv /\ [ColdNext]_coldVars => SweepInv'
  <2> SUFFICES ASSUME SweepInv, [ColdNext]_coldVars PROVE SweepInv'
    OBVIOUS
  <2>1. CASE UNCHANGED coldVars
    BY <2>1 DEF coldVars, vars, rows, runs, request, sweep, SweepInv, SweepTypeOK, TypeOK,
       SweepHolds, RequestKeys, UnstoredIsNowhere, NoObjectLost, ObjectKept, InHandOff
  <2> QED
    BY <2>1, RequestSweepInv, OthersSweepInv, SweepStepInv DEF ColdNext
<1> QED
  BY <1>1, InitSweepInv, PTL DEF ColdSpec

(* A published image is never lost, under any fault and any restart, and a *)
(* cold key never dangles.                                                 *)
THEOREM ObjectsAreNeverLost == ColdSpec => []NoObjectLost
<1>1. SweepInv => NoObjectLost
  BY DEF SweepInv
<1> QED
  BY <1>1, SweepCorrect, PTL

-----------------------------------------------------------------------------
(* What the sweep has selected cannot become active again, except by the   *)
(* inspector: a row gets its first key when it is uploaded, and a row that *)
(* was selected has one.                                                   *)
SelectedIsInactive == \A a \in todo : row[a] # "uploaded" \/ a \in restored
WarmInv == SelectedIsInactive /\ ActiveStaysWarm

(* The steps that make a row active.                                       *)
ActivatedWith(r) ==
  \/ pc[r] = "mark_uploaded" /\ key'[r] = "warm" /\ r \in url'
  \/ pc[r] = "mark_unstored" /\ key'[r] = "unstored"

LEMMA ActivatedBy ==
  ASSUME TypeOK, RequestStep
  PROVE  /\ restored' = restored
         /\ \A a \in Asset : row'[a] = "uploaded" =>
              \/ row[a] = "uploaded"
              \/ a \in Request /\ ActivatedWith(a)
<1> USE DEF rows, runs, request, Goto
<1>1. row \in [Asset -> RowStatus] /\ key \in [Asset -> Key]
      /\ \A r \in Request : r \in Asset
  BY AssetFacts DEF TypeOK
<1>2. ASSUME NEW r \in Request, MarkUploaded(r)
      PROVE  /\ restored' = restored
             /\ \A a \in Asset : row'[a] = "uploaded" =>
                  \/ row[a] = "uploaded"
                  \/ a \in Request /\ ActivatedWith(a)
  BY <1>1, <1>2 DEF MarkUploaded, SetRow, ActivatedWith, Key, Prefix
<1>3. ASSUME NEW r \in Request,
             \/ FailUnsourced(r) \/ MarkFailed(r) \/ MarkGenerated(r) \/ Supersede(r)
             \/ InsertAsset(r)
      PROVE  restored' = restored /\ \A a \in Asset : row'[a] = "uploaded" => row[a] = "uploaded"
  BY <1>1, <1>3 DEF FailUnsourced, MarkFailed, MarkGenerated, Supersede, InsertAsset, SetRow
<1>4. ASSUME NEW r \in Request,
             \/ \E k \in Kinds, a \in Asset, b \in Asset \cup {NoAsset} : CheckTarget(r, k, a, b)
             \/ InsertRun(r) \/ AbandonRequest(r) \/ AcquirePermit(r)
             \/ SourceLoaded(r) \/ SourceMissing(r) \/ CloseUnsourced(r) \/ RaiseUnguarded(r)
             \/ ProviderSucceeds(r) \/ ProviderFails(r) \/ RecordErrorCall(r) \/ CloseFailed(r)
             \/ Upload(r) \/ RecordOkCall(r) \/ RollUpCost(r) \/ MarkRunOk(r)
             \/ Raise(r) \/ RecordFailure(r) \/ LoseFailure(r) \/ ReleasePermit(r)
      PROVE  UNCHANGED <<row, restored>>
  BY <1>4 DEF CheckTarget, InsertRun, AbandonRequest, AcquirePermit, SourceLoaded, SourceMissing,
     CloseUnsourced, RaiseUnguarded, ProviderSucceeds, ProviderFails, RecordErrorCall,
     CloseFailed, Upload, RecordOkCall, RollUpCost, MarkRunOk, Raise, RecordFailure,
     LoseFailure, ReleasePermit, Moves, CloseRun
<1> QED
  BY <1>2, <1>3, <1>4 DEF RequestStep, Task

LEMMA RequestWarmInv ==
  ASSUME SweepInv, WarmInv, RequestStep, UNCHANGED sweep
  PROVE  WarmInv'
<1>1. /\ TypeOK
      /\ \A r \in Request : pc[r] = "mark_uploaded" => <<r, "warm">> \in bucket
      /\ \A r \in Request : pc[r] \in {"mark_uploaded", "mark_unstored"} => key[r] = "none"
      /\ \A a \in todo : key[a] \in {"warm", "unstored"} /\ a \in Asset
  BY UnpublishedLabels DEF SweepInv, SweepTypeOK, RequestKeys, SweepHolds
<1>2. /\ restored' = restored /\ todo' = todo
      /\ \A a \in Asset : row'[a] = "uploaded" =>
           row[a] = "uploaded" \/ (a \in Request /\ ActivatedWith(a))
  BY <1>1, ActivatedBy DEF sweep
<1>3. /\ bucket \subseteq bucket'
      /\ \A a \in Asset : key[a] = "warm" /\ a \in url => key'[a] = "warm" /\ a \in url'
      /\ \A a \in Asset : key[a] = "unstored" => key'[a] = "unstored"
  <2>1. PICK r \in Request : RequestEffectOn(r)
    BY <1>1, RequestEffect DEF RequestStep
  <2>2. key \in [Asset -> Key] /\ r \in Asset
    BY <1>1, AssetFacts DEF TypeOK
  <2> QED
    BY <1>1, <2>1, <2>2 DEF RequestEffectOn
<1>4. SelectedIsInactive'
  BY <1>1, <1>2 DEF WarmInv, SelectedIsInactive, ActivatedWith
<1>5. ActiveStaysWarm'
  BY <1>1, <1>2, <1>3 DEF WarmInv, ActiveStaysWarm, ActivatedWith
<1> QED
  BY <1>4, <1>5 DEF WarmInv

LEMMA OthersWarmInv ==
  ASSUME SweepInv, WarmInv,
         \/ (InspectorStep \/ Restart \/ Quiescent) /\ UNCHANGED sweep
         \/ StopSweep
         \/ UNCHANGED coldVars
  PROVE  WarmInv'
<1> USE DEF vars, rows, sweep, coldVars
<1>1. row \in [Asset -> RowStatus]
  BY DEF SweepInv, SweepTypeOK, TypeOK
<1>2. UNCHANGED <<key, url, bucket>> /\ restored \subseteq restored' /\ todo' \subseteq todo
  BY DEF InspectorStep, Unsupersede, SoftDelete, Restart, Quiescent, StopSweep, Crash
<1>3. \A a \in Asset : row'[a] = "uploaded" => row[a] = "uploaded" \/ a \in restored'
  BY <1>1 DEF InspectorStep, Unsupersede, SoftDelete, SetRow, Restart, Quiescent, StopSweep, Crash
<1>4. todo \subseteq Asset
  BY DEF SweepInv, SweepTypeOK
<1> QED
  BY <1>2, <1>3, <1>4 DEF WarmInv, SelectedIsInactive, ActiveStaysWarm

LEMMA SweepStepWarmInv ==
  ASSUME SweepInv, WarmInv, StartSweep \/ \E a \in Asset : Age(a) \/ SweepRow(a)
  PROVE  WarmInv'
<1> USE DEF rows, lineage, sweep
<1>1. /\ \A a \in todo : row[a] # "uploaded" \/ a \in restored
      /\ step \in {"delete", "update"} => inHand \in todo
      /\ key \in [Asset -> Key]
  BY DEF SweepInv, SweepTypeOK, TypeOK, SweepHolds, WarmInv, SelectedIsInactive
<1>2. CASE StartSweep
  BY <1>2 DEF StartSweep, Eligible, WarmInv, SelectedIsInactive, ActiveStaysWarm
<1>3. ASSUME NEW x \in Asset, Age(x) \/ Copy(x) \/ CopyFails(x) \/ UpdateFails(x)
      PROVE  WarmInv'
  <2>1. UNCHANGED <<row, restored, key, url>> /\ bucket \subseteq bucket' /\ todo' \subseteq todo
    BY <1>3 DEF Age, Copy, CopyFails, UpdateFails, NextRow
  <2> QED
    BY <2>1 DEF WarmInv, SelectedIsInactive, ActiveStaysWarm
<1>4. ASSUME NEW x \in Asset, Delete(x) \/ DeleteFails(x) \/ Update(x)
      PROVE  WarmInv'
  <2>1. /\ UNCHANGED <<row, restored>> /\ todo' \subseteq todo
        /\ row[x] # "uploaded" \/ x \in restored
        /\ bucket \ {<<x, "warm">>} \subseteq bucket' /\ url \ {x} \subseteq url'
        /\ \A a \in Asset \ {x} : key'[a] = key[a]
    BY <1>1, <1>4 DEF Delete, DeleteFails, Update, NextRow
  <2> QED
    BY <2>1 DEF WarmInv, SelectedIsInactive, ActiveStaysWarm
<1> QED
  BY <1>2, <1>3, <1>4 DEF SweepRow

(* No sweep moves or deletes the object of an image that is in use.        *)
THEOREM ActiveImagesStayWarm == ColdSpec => []ActiveStaysWarm
<1>1. ColdInit => WarmInv
  BY AssetFacts DEF ColdInit, Init, WarmInv, SelectedIsInactive, ActiveStaysWarm
<1>2. SweepInv /\ WarmInv /\ [ColdNext]_coldVars => WarmInv'
  BY RequestWarmInv, OthersWarmInv, SweepStepWarmInv DEF ColdNext
<1>3. WarmInv => ActiveStaysWarm
  BY DEF WarmInv
<1> QED
  BY <1>1, <1>2, <1>3, SweepCorrect, PTL DEF ColdSpec

-----------------------------------------------------------------------------
(* The safety half of OldRowsGoCold, and what it leaves out.               *)

(* The object of the row in hand is there until the sweep deletes it:      *)
(* requests only add objects.                                              *)
LEMMA HasWorkStep ==
  ASSUME SweepInv, SweepHasWork, [ColdNext]_coldVars
  PROVE  SweepHasWork'
<1>1. SweepTypeOK /\ TypeOK /\ inHand \in Asset \cup {NoAsset} /\ todo \subseteq Asset
  BY DEF SweepInv, SweepTypeOK
<1>2. CASE RequestStep /\ UNCHANGED sweep
  <2>1. bucket \subseteq bucket'
    BY <1>1, <1>2, RequestEffect DEF RequestStep, RequestEffectOn
  <2> QED BY <1>2, <2>1 DEF SweepHasWork, sweep
<1>3. CASE ((InspectorStep \/ Restart \/ Quiescent) /\ UNCHANGED sweep) \/ UNCHANGED coldVars
  <2>1. UNCHANGED <<bucket, step, todo, inHand>>
    BY <1>3 DEF InspectorStep, Unsupersede, SoftDelete, Restart, Quiescent, coldVars, vars, sweep
  <2> QED BY <2>1 DEF SweepHasWork
<1>4. CASE StopSweep
  BY <1>4 DEF StopSweep, SweepHasWork
<1>5. CASE StartSweep
  BY <1>5 DEF StartSweep, SweepHasWork
<1>6. ASSUME NEW x \in Asset, Age(x) PROVE SweepHasWork'
  BY <1>6 DEF Age, SweepHasWork, sweep
<1>7. ASSUME NEW x \in Asset, CopyFails(x) \/ DeleteFails(x) \/ UpdateFails(x) \/ Update(x)
      PROVE  SweepHasWork'
  <2>1. /\ x \in todo /\ todo' = todo \ {x} /\ step' = IF todo = {x} THEN "sleep" ELSE "copy"
    BY <1>7 DEF CopyFails, DeleteFails, UpdateFails, Update, NextRow, SweepHasWork
  <2>2. todo' = {} <=> todo = {x}
    BY <2>1
  <2> QED BY <2>1, <2>2 DEF SweepHasWork
<1>8. ASSUME NEW x \in Asset, Copy(x) PROVE SweepHasWork'
  BY <1>8 DEF Copy, SweepHasWork
<1>9. ASSUME NEW x \in Asset, Delete(x) PROVE SweepHasWork'
  BY <1>9 DEF Delete, SweepHasWork
<1> QED
  BY <1>2, <1>3, <1>4, <1>5, <1>6, <1>7, <1>8, <1>9 DEF ColdNext, SweepRow

(* A sweep under way always has a row it can work on.                      *)
THEOREM SweepsAreNeverStuck == ColdSpec => []SweepHasWork
<1>1. ColdInit => SweepHasWork
  BY DEF ColdInit, SweepHasWork
<1>2. SweepInv /\ SweepHasWork /\ [ColdNext]_coldVars => SweepHasWork'
  BY HasWorkStep
<1> QED
  BY <1>1, <1>2, SweepCorrect, PTL DEF ColdSpec

(* Every step of a sweep brings it closer to its end.                      *)
THEOREM SweepsComeToAnEnd == ColdSpec => SweepsEnd
<1>1. SweepHasWork /\ [ColdNext]_coldVars =>
        [/\ step # "sleep" => todo' \subseteq todo
         /\ \A a \in Asset : SweepRow(a) =>
              \/ a \in todo /\ todo' = todo \ {a}
              \/ /\ todo' = todo /\ a \in todo /\ inHand' = a
                 /\ <<step, step'>> \in {<<"copy", "delete">>, <<"delete", "update">>}]_coldVars
  <2> SUFFICES ASSUME SweepHasWork, ColdNext
               PROVE  /\ step # "sleep" => todo' \subseteq todo
                      /\ \A a \in Asset : SweepRow(a) =>
                           \/ a \in todo /\ todo' = todo \ {a}
                           \/ /\ todo' = todo /\ a \in todo /\ inHand' = a
                              /\ <<step, step'>> \in {<<"copy", "delete">>, <<"delete", "update">>}
    OBVIOUS
  <2>1. ASSUME NEW a \in Asset, SweepRow(a)
        PROVE  \/ a \in todo /\ todo' = todo \ {a}
               \/ /\ todo' = todo /\ a \in todo /\ inHand' = a
                  /\ <<step, step'>> \in {<<"copy", "delete">>, <<"delete", "update">>}
    <3>1. CASE Copy(a) \/ Delete(a)
      BY <3>1 DEF Copy, Delete, SweepHasWork
    <3>2. CASE CopyFails(a) \/ DeleteFails(a) \/ Update(a) \/ UpdateFails(a)
      BY <3>2 DEF CopyFails, DeleteFails, Update, UpdateFails, NextRow, SweepHasWork
    <3> QED BY <2>1, <3>1, <3>2 DEF SweepRow
  <2>2. ASSUME step # "sleep" PROVE todo' \subseteq todo
    BY <2>1, <2>2 DEF ColdNext, StopSweep, StartSweep, Age, sweep
  <2> QED BY <2>1, <2>2
<1> QED
  BY <1>1, SweepsAreNeverStuck, PTL DEF ColdSpec, SweepsEnd

(* How a step of ColdStorage can strand a row or help a stranded one: only *)
(* the sweep deletes, and nobody uploads to a key that is in use.          *)
LEMMA StrandedStep ==
  ASSUME SweepInv, SweepHasWork, [ColdNext]_coldVars, NEW a \in Asset
  PROVE  /\ Stranded(a) => Stranded(a)'
         /\ Stranded(a)' => Stranded(a) \/ a \in interrupted'
         /\ interrupted \subseteq interrupted'
<1>1. /\ SweepTypeOK /\ TypeOK /\ RequestKeys /\ SweepHolds /\ UnstoredIsNowhere
      /\ key \in [Asset -> Key] /\ pc \in [Request -> PC] /\ inHand \in Asset \cup {NoAsset}
      /\ a # NoAsset
  BY AssetFacts DEF SweepInv, SweepTypeOK, TypeOK
<1> DEFINE Goal == /\ Stranded(a) => Stranded(a)'
                   /\ Stranded(a)' => Stranded(a) \/ a \in interrupted'
                   /\ interrupted \subseteq interrupted'
<1>2. ASSUME RequestStep, UNCHANGED sweep
      PROVE  Goal
  <2>1. PICK r \in Request : RequestEffectOn(r)
    BY <1>1, <1>2, RequestEffect DEF RequestStep
  <2>2. UNCHANGED <<step, inHand, interrupted>> /\ r \in Asset
    BY <1>2, AssetFacts DEF sweep
  <2>3. CASE UNCHANGED <<key, url>> /\ bucket' = bucket
    BY <2>2, <2>3 DEF Stranded, InHandOff
  <2>4. CASE UNCHANGED <<key, url>> /\ bucket' # bucket
    <3>1. /\ bucket' = bucket \cup {<<r, "warm">>} /\ pc'[r] = "mark_uploaded"
          /\ pc[r] \in Unpublished
      BY <2>1, <2>4 DEF RequestEffectOn, Unpublished
    <3>2. key[r] = "none"
      BY <1>1, <3>1 DEF RequestKeys
    <3> QED BY <2>2, <2>4, <3>1, <3>2 DEF Stranded, InHandOff
  <2>5. CASE ~UNCHANGED <<key, url>>
    <3>1. /\ pc[r] \in {"mark_uploaded", "mark_unstored"} /\ bucket' = bucket
          /\ key' = [key EXCEPT ![r] = IF pc[r] = "mark_uploaded" THEN "warm" ELSE "unstored"]
      BY <2>1, <2>5 DEF RequestEffectOn
    <3>2. key[r] = "none" /\ (pc[r] = "mark_uploaded" => <<r, "warm">> \in bucket)
      BY <1>1, <3>1, UnpublishedLabels DEF RequestKeys
    <3> QED BY <1>1, <2>2, <3>1, <3>2 DEF Stranded, InHandOff
  <2> QED BY <2>3, <2>4, <2>5
<1>3. CASE ((InspectorStep \/ Restart \/ Quiescent) /\ UNCHANGED sweep) \/ UNCHANGED coldVars
  <2>1. UNCHANGED <<key, bucket, step, inHand, interrupted>>
    BY <1>3 DEF InspectorStep, Unsupersede, SoftDelete, Restart, Quiescent, coldVars, vars, rows, sweep
  <2> QED BY <2>1 DEF Stranded, InHandOff
<1>4. CASE StopSweep
  BY <1>4 DEF StopSweep, Crash, rows, Stranded, InHandOff
<1>5. CASE StartSweep
  BY <1>5 DEF StartSweep, rows, Stranded, InHandOff
<1>6. ASSUME NEW x \in Asset, Age(x) PROVE Goal
  BY <1>6 DEF Age, sweep, Stranded, InHandOff
<1>7. ASSUME NEW x \in Asset, CopyFails(x) PROVE Goal
  BY <1>7 DEF CopyFails, NextRow, rows, Stranded, InHandOff
<1>8. ASSUME NEW x \in Asset, Copy(x) PROVE Goal
  BY <1>8 DEF Copy, rows, Stranded, InHandOff
<1>9. ASSUME NEW x \in Asset, Delete(x) PROVE Goal
  <2>1. /\ <<x, "warm">> \in bucket /\ bucket' = bucket \ {<<x, "warm">>} /\ UNCHANGED key
        /\ step = "delete" /\ step' = "update" /\ x = inHand /\ UNCHANGED <<inHand, interrupted>>
    BY <1>9 DEF Delete, SweepHasWork, rows
  <2> QED BY <2>1 DEF Stranded, InHandOff
<1>10. ASSUME NEW x \in Asset, DeleteFails(x) PROVE Goal
  <2>1. /\ x = inHand /\ UNCHANGED key /\ step = "delete" /\ step' \in {"sleep", "copy"}
        /\ \/ UNCHANGED <<bucket, interrupted>>
           \/ bucket' = bucket \ {<<x, "warm">>} /\ interrupted' = interrupted \cup {x}
    BY <1>10 DEF DeleteFails, NextRow, rows
  <2> QED BY <2>1 DEF Stranded, InHandOff
<1>11. ASSUME NEW x \in Asset, Update(x) PROVE Goal
  <2>1. /\ key' = [key EXCEPT ![x] = "cold"] /\ UNCHANGED <<bucket, interrupted>>
        /\ step = "update" /\ x = inHand /\ step' \in {"sleep", "copy"}
    BY <1>11 DEF Update, NextRow
  <2> QED BY <1>1, <2>1 DEF Stranded, InHandOff
<1>12. ASSUME NEW x \in Asset, UpdateFails(x) PROVE Goal
  <2>1. /\ UNCHANGED <<key, bucket>> /\ interrupted' = interrupted \cup {x}
        /\ step = "update" /\ x = inHand /\ step' \in {"sleep", "copy"}
    BY <1>12 DEF UpdateFails, NextRow, rows
  <2> QED BY <2>1 DEF Stranded, InHandOff
<1> QED
  BY <1>2, <1>3, <1>4, <1>5, <1>6, <1>7, <1>8, <1>9, <1>10, <1>11, <1>12 DEF ColdNext, SweepRow

(* Only a fault between the delete and the UPDATE strands a row.           *)
THEOREM RowsAreStrandedByFaults == ColdSpec => []StrandedByFault
<1>1. ColdInit => StrandedByFault
  BY DEF ColdInit, Init, StrandedByFault, Stranded
<1>2. SweepInv /\ SweepHasWork /\ StrandedByFault /\ [ColdNext]_coldVars => StrandedByFault'
  <2> SUFFICES ASSUME SweepInv, SweepHasWork, StrandedByFault, [ColdNext]_coldVars,
                      NEW a \in Asset, Stranded(a)'
               PROVE  a \in interrupted'
    BY DEF StrandedByFault
  <2>1. Stranded(a) => a \in interrupted
    BY DEF StrandedByFault
  <2> QED BY <2>1, StrandedStep
<1> QED
  BY <1>1, <1>2, SweepCorrect, SweepsAreNeverStuck, PTL DEF ColdSpec

(* And a stranded row is stranded for good.                                *)
THEOREM StrandedRowsStay == ColdSpec => StrandedForGood
<1>1. SweepInv /\ SweepHasWork /\ [ColdNext]_coldVars =>
        [\A a \in Asset : Stranded(a) => Stranded(a)']_coldVars
  BY StrandedStep
<1> QED
  BY <1>1, SweepCorrect, SweepsAreNeverStuck, PTL DEF ColdSpec, StrandedForGood

=============================================================================
