-------------------------- MODULE PackWorker_proofs --------------------------
(***************************************************************************)
(* Proofs about PackWorker, for every set of runs, slots and payloads,     *)
(* every semaphore size and every choice of faults: the types, the         *)
(* semaphore, WorkerInv, an inductive invariant from which the safety      *)
(* properties of the pipeline follow, and the refinement of PackPromise.   *)
(***************************************************************************)
EXTENDS PackWorkerInvariant, FiniteSetTheorems, TLAPS

(* Where the task of a run stands in its payload: a run that was accepted  *)
(* has a payload and a current slot of it, and the loops over the          *)
(* remainder never look at the first slot.                                 *)
PositionOK ==
  \A r \in Run :
    /\ pc[r] = "idle" => cur[r] = 1
    /\ pc[r] # "idle" => /\ pack[r] \in Packs
                         /\ cur[r] <= Len(Order(r))
    /\ pc[r] \in BatchSteps => cur[r] >= 2

TypeInv == TypeOK /\ PositionOK

LEMMA PackFacts ==
  ASSUME NEW p \in Packs
  PROVE  /\ p.order \in Seq(Slot) /\ p.hero \in Slot /\ p.batch \in BOOLEAN
         /\ p.conditioned \subseteq Slot
         /\ Len(p.order) \in Nat /\ Len(p.order) >= 1
         /\ \A i \in 1..Len(p.order) : p.order[i] \in Slot
BY PacksAssumption DEF PackType

(* The row a task works on is a row. *)
LEMMA CurrentAsset ==
  ASSUME TypeInv, NEW r \in Run, pc[r] # "idle"
  PROVE  /\ pack[r] \in Packs /\ SlotOf(r) \in Slot /\ AssetOf(r) \in Asset
         /\ cur[r] \in Nat /\ cur[r] >= 1
         /\ Len(Order(r)) \in Nat /\ cur[r] <= Len(Order(r))
<1>1. pack[r] \in Packs /\ cur[r] \in Nat \ {0} /\ cur[r] <= Len(Order(r)) /\ path[r] \in Path
  BY DEF TypeInv, TypeOK, PositionOK
<1>2. Len(Order(r)) \in Nat /\ SlotOf(r) \in Slot
  BY <1>1, PackFacts DEF Order, SlotOf
<1> QED
  BY <1>1, <1>2 DEF AssetOf, Asset

LEMMA Labels ==
  /\ PC = {"idle", "accepted", "acquire", "insert", "generate", "mark_failed",
           "error_call", "mark_generated", "upload", "mark_uploaded", "flag_drift",
           "ok_call", "batch_insert", "batch_generate", "batch_abort", "roll_up",
           "mark_ok", "callback", "except", "release", "done", "dead"}
  /\ Live = PC \ {"idle", "done", "dead"}
  /\ Holding = Live \ {"accepted", "acquire"}
  /\ TryBlock = Holding \ {"callback", "except", "release"}
  /\ BatchSteps = {"batch_insert", "batch_generate", "batch_abort"}
BY DEF PC, Live, Handler, Holding, TryBlock, SlotSteps, BatchSteps

LEMMA InitTypeInv == Init => TypeInv
BY LimitsAssumption DEF Init, TypeInv, TypeOK, PositionOK, RunStatus, RowStatus,
   PC, Path, MaxRetries, BatchSteps


LEMMA NextTypeInv == TypeInv /\ [Next]_vars => TypeInv'
<1> SUFFICES ASSUME TypeInv, [Next]_vars PROVE TypeInv'
  OBVIOUS
<1> USE DEF vars, runs, assets, outside, process, locals, Goto
<1>types. TypeOK /\ PositionOK
  BY DEF TypeInv
<1>1. ASSUME NEW r \in Run, NEW p \in Packs, AcceptPack(r, p) PROVE TypeInv'
  <2>1. TypeOK'
    BY <1>1, <1>types, Labels DEF AcceptPack, TypeOK, RunStatus
  <2>2. PositionOK'
    BY <1>1, <1>types, Labels, PackFacts DEF AcceptPack, TypeOK, PositionOK, Order
  <2> QED BY <2>1, <2>2 DEF TypeInv
<1>2. ASSUME NEW r \in Run, NEW from \in Live, NEW to \in PC \ (BatchSteps \cup {"idle"}),
             Moves(r, from, to)
      PROVE  TypeInv'
  <2>1. TypeOK'
    BY <1>2, <1>types, Labels DEF Moves, TypeOK
  <2>2. PositionOK'
    BY <1>2, <1>types, Labels DEF Moves, TypeOK, PositionOK, Order
  <2> QED BY <2>1, <2>2 DEF TypeInv
<1>3. ASSUME NEW r \in Run, AcquirePermit(r) PROVE TypeInv'
  <2>1. TypeOK'
    BY <1>3, <1>types, Labels DEF AcquirePermit, TypeOK
  <2>2. PositionOK'
    BY <1>3, <1>types, Labels DEF AcquirePermit, TypeOK, PositionOK, Order
  <2> QED BY <2>1, <2>2 DEF TypeInv
<1>4. ASSUME NEW r \in Run, InsertPending(r) PROVE TypeInv'
  <2>0. row' \in [Asset -> RowStatus] /\ attempt' \in [Run -> 0..MaxRetries]
    <3>1. row' \in [Asset -> RowStatus]
      BY <1>4, <1>types DEF InsertPending, TypeOK, RowStatus
    <3>2. attempt' \in [Run -> 0..MaxRetries]
      BY <1>4, <1>types DEF InsertPending, TypeOK, MaxRetries
    <3> QED BY <3>1, <3>2
  <2>1. TypeOK'
    BY <1>4, <2>0, <1>types, Labels DEF InsertPending, TypeOK
  <2>2. PositionOK'
    BY <1>4, <1>types, Labels DEF InsertPending, TypeOK, PositionOK, Order
  <2> QED BY <2>1, <2>2 DEF TypeInv
<1>5. ASSUME NEW r \in Run, ProviderSucceeds(r) PROVE TypeInv'
  <2>0. AssetOf(r) \in Asset
    BY <1>5, CurrentAsset DEF ProviderSucceeds
  <2>1. TypeOK'
    BY <1>5, <1>types, Labels, <2>0 DEF ProviderSucceeds, TypeOK
  <2>2. PositionOK'
    BY <1>5, <1>types, Labels DEF ProviderSucceeds, TypeOK, PositionOK, Order
  <2> QED BY <2>1, <2>2 DEF TypeInv
<1>6. ASSUME NEW r \in Run, ProviderFails(r) PROVE TypeInv'
  <2>1. CASE Moves(r, "generate", "mark_failed")
    BY <2>1, <1>2, Labels
  <2>2. CASE pc[r] = "generate" /\ attempt[r] < MaxRetries
             /\ attempt' = [attempt EXCEPT ![r] = @ + 1]
             /\ UNCHANGED <<runs, assets, outside, process, pc,
                            pack, path, cur, summary, conditionedOn>>
    <3>1. TypeOK'
      BY <2>2, <1>types, Labels DEF TypeOK, MaxRetries
    <3>2. PositionOK'
      BY <2>2, <1>types, Labels DEF TypeOK, PositionOK, Order
    <3> QED BY <3>1, <3>2 DEF TypeInv
  <2> QED BY <1>6, <2>1, <2>2 DEF ProviderFails
<1>7. ASSUME NEW r \in Run, MarkFailed(r) \/ MarkGenerated(r) \/ MarkUploaded(r) PROVE TypeInv'
  <2>1. TypeOK'
    BY <1>7, <1>types, Labels DEF MarkFailed, MarkGenerated, MarkUploaded, SetRow, TypeOK, RowStatus
  <2>2. PositionOK'
    BY <1>7, <1>types, Labels DEF MarkFailed, MarkGenerated, MarkUploaded, SetRow, TypeOK, PositionOK, Order
  <2> QED BY <2>1, <2>2 DEF TypeInv
<1>8. ASSUME NEW r \in Run, RecordErrorCall(r) \/ RecordOkCall(r) PROVE TypeInv'
  <2>0. pc[r] \in {"error_call", "ok_call"} /\ \E o \in {"failed", "uploaded"} : NextSlot(r, o)
    BY <1>8 DEF RecordErrorCall, RecordOkCall
  <2>1. /\ pack[r] \in Packs /\ cur[r] \in Nat /\ cur[r] >= 1 /\ SlotOf(r) \in Slot
        /\ Len(Order(r)) \in Nat /\ cur[r] <= Len(Order(r))
    BY <2>0, CurrentAsset
  <2>2. /\ summary' \in [Run -> [Slot -> {"none", "uploaded", "failed"}]]
        /\ pc' \in [Run -> PC] /\ path' \in [Run -> Path] /\ cur' \in [Run -> Nat \ {0}]
    <3>1. summary' \in [Run -> [Slot -> {"none", "uploaded", "failed"}]]
      BY <2>0, <2>1, <1>types, Labels DEF NextSlot, TypeOK
    <3>2. cur' \in [Run -> Nat \ {0}]
      BY <2>0, <2>1, <1>types DEF NextSlot, TypeOK
    <3>3. path' \in [Run -> Path]
      BY <2>0, <1>types DEF NextSlot, TypeOK, Path
    <3>4. pc' \in [Run -> PC]
      <4>1. \E l \in {"roll_up", "batch_insert", "mark_generated", "insert"} :
              pc' = [pc EXCEPT ![r] = l]
        BY <2>0 DEF NextSlot
      <4> QED BY <4>1, <1>types, Labels DEF TypeOK
    <3> QED BY <3>1, <3>2, <3>3, <3>4
  <2>3. TypeOK'
    <3>1. toolCalls' \in [Asset -> {"none", "ok", "error"}]
      BY <1>8, <1>types DEF RecordErrorCall, RecordOkCall, Record, TypeOK
    <3> QED
      BY <1>8, <1>types, <2>2, <3>1 DEF RecordErrorCall, RecordOkCall, Record, TypeOK
  <2>4. pack' = pack
    BY <1>8 DEF RecordErrorCall, RecordOkCall, Record
  <2>5. PositionOK'
    BY <2>0, <2>1, <2>4, <1>types, Labels DEF NextSlot, TypeOK, PositionOK, Order, IsLast
  <2> QED BY <2>3, <2>5 DEF TypeInv
<1>9. ASSUME NEW r \in Run, Upload(r) \/ FlagDrift(r) PROVE TypeInv'
  <2>0. AssetOf(r) \in Asset
    BY <1>9, CurrentAsset DEF Upload, FlagDrift
  <2>1. TypeOK'
    BY <1>9, <1>types, Labels, <2>0 DEF Upload, FlagDrift, TypeOK
  <2>2. PositionOK'
    BY <1>9, <1>types, Labels DEF Upload, FlagDrift, TypeOK, PositionOK, Order
  <2> QED BY <2>1, <2>2 DEF TypeInv
<1>10. ASSUME NEW r \in Run, BatchInsert(r) \/ BatchAbort(r) PROVE TypeInv'
  <2>0. /\ pc[r] \in {"batch_insert", "batch_abort"}
        /\ \E label \in {"batch_generate", "insert"} : LoopRemainder(r, label)
    BY <1>10 DEF BatchInsert, BatchAbort
  <2>1. /\ pack[r] \in Packs /\ cur[r] \in Nat /\ cur[r] >= 2
        /\ Len(Order(r)) \in Nat /\ cur[r] <= Len(Order(r))
    BY <2>0, <1>types, Labels, CurrentAsset DEF PositionOK
  <2>2. cur' \in [Run -> Nat \ {0}] /\ pc' \in [Run -> PC]
    <3>1. cur' \in [Run -> Nat \ {0}]
      <4>1. cur' = [cur EXCEPT ![r] = cur[r] + 1] \/ cur' = [cur EXCEPT ![r] = 2]
        BY <2>0 DEF LoopRemainder
      <4> QED BY <4>1, <2>1, <1>types DEF TypeOK
    <3>2. pc' \in [Run -> PC]
      BY <2>0, <1>types, Labels DEF LoopRemainder, TypeOK
    <3> QED BY <3>1, <3>2
  <2>6. row' \in [Asset -> RowStatus] /\ path' \in [Run -> Path]
    BY <1>10, <1>types DEF BatchInsert, BatchAbort, SetRow, TypeOK, RowStatus, Path
  <2>3. TypeOK'
    BY <1>10, <2>2, <2>6, <1>types DEF BatchInsert, BatchAbort, SetRow, TypeOK
  <2>4. pack' = pack
    BY <1>10 DEF BatchInsert, BatchAbort
  <2>5. PositionOK'
    BY <2>0, <2>1, <2>4, <1>types, Labels DEF LoopRemainder, TypeOK, PositionOK, Order, IsLast
  <2> QED BY <2>3, <2>5 DEF TypeInv
<1>11. ASSUME NEW r \in Run, BatchFails(r) PROVE TypeInv'
  <2>1. TypeOK'
    BY <1>11, <1>types, Labels DEF BatchFails, Moves, TypeOK
  <2>2. PositionOK'
    BY <1>11, <1>types, Labels DEF BatchFails, Moves, TypeOK, PositionOK, Order
  <2> QED BY <2>1, <2>2 DEF TypeInv
<1>12. ASSUME NEW r \in Run, RollUpCost(r) \/ MarkRunOk(r) \/ RecordFailure(r) PROVE TypeInv'
  <2>0. OkCalls(r) \subseteq Asset
    BY DEF OkCalls, AssetsOf
  <2>1. TypeOK'
    <3>1. CASE RollUpCost(r)
      BY <3>1, <2>0, <1>types, Labels DEF RollUpCost, TypeOK
    <3>2. CASE MarkRunOk(r) \/ RecordFailure(r)
      BY <3>2, <1>types, Labels DEF MarkRunOk, RecordFailure, CloseRun, TypeOK, RunStatus
    <3> QED BY <1>12, <3>1, <3>2
  <2>2. PositionOK'
    BY <1>12, <1>types, Labels DEF RollUpCost, MarkRunOk, RecordFailure, CloseRun, TypeOK, PositionOK, Order
  <2> QED BY <2>1, <2>2 DEF TypeInv
<1>13. ASSUME NEW r \in Run, NEW next \in {"release", "except"}, SendCallback(r, next)
       PROVE  TypeInv'
  <2>0. PackStatusOf(r) \in PackStatus
    BY DEF PackStatusOf, PackStatus
  <2>1. TypeOK'
    BY <1>13, <2>0, <1>types, Labels DEF SendCallback, stored, TypeOK
  <2>2. PositionOK'
    BY <1>13, <1>types, Labels DEF SendCallback, TypeOK, PositionOK, Order
  <2> QED BY <2>1, <2>2 DEF TypeInv
<1>14. ASSUME NEW r \in Run, ReleasePermit(r) PROVE TypeInv'
  <2>1. TypeOK'
    BY <1>14, <1>types, Labels DEF ReleasePermit, TypeOK
  <2>2. PositionOK'
    BY <1>14, <1>types, Labels DEF ReleasePermit, TypeOK, PositionOK, Order
  <2> QED BY <2>1, <2>2 DEF TypeInv
<1>15. CASE Crash
  <2>1. TypeOK'
    BY <1>15, <1>types, Labels DEF Crash, TypeOK
  <2>2. PositionOK'
    BY <1>15, <1>types, Labels DEF Crash, TypeOK, PositionOK, Order
  <2> QED BY <2>1, <2>2 DEF TypeInv
<1>16. CASE Restart
  <2>1. TypeOK'
    BY <1>16, <1>types, Labels, LimitsAssumption DEF Restart, TypeOK
  <2>2. PositionOK'
    BY <1>16, <1>types, Labels DEF Restart, TypeOK, PositionOK, Order
  <2> QED BY <2>1, <2>2 DEF TypeInv
<1>17. CASE UNCHANGED vars
  <2>1. TypeOK'
    BY <1>17, <1>types, Labels DEF TypeOK
  <2>2. PositionOK'
    BY <1>17, <1>types, Labels DEF PositionOK, Order
  <2> QED BY <2>1, <2>2 DEF TypeInv
<1>18. ASSUME NEW r \in Run,
              SpawnTask(r) \/ AbandonRequest(r) \/ BatchSucceeds(r) \/ LoseCallback(r)
              \/ Raise(r) \/ LoseFailure(r)
       PROVE  TypeInv'
  <2>1. \E from \in Live, to \in PC \ (BatchSteps \cup {"idle"}) : Moves(r, from, to)
    BY <1>18, Labels DEF SpawnTask, AbandonRequest, BatchSucceeds, LoseCallback, Raise, LoseFailure
  <2> QED BY <2>1, <1>2
<1>19. ASSUME NEW r \in Run, Cancel(r) PROVE TypeInv'
  <2>1. \/ SendCallback(r, "except")
        \/ \E from \in Live, to \in PC \ (BatchSteps \cup {"idle"}) : Moves(r, from, to)
    BY <1>19, Labels DEF Cancel
  <2> QED BY <2>1, <1>2, <1>13
<1> QED
  BY <1>1, <1>3, <1>4, <1>5, <1>6, <1>7, <1>8, <1>9, <1>10, <1>11, <1>12, <1>13,
     <1>14, <1>15, <1>16, <1>17, <1>18, <1>19 DEF Next, Task, Quiescent, EmitCallback

(* The type invariant of PackWorker. *)
THEOREM TypeCorrect == Spec => [](TypeOK /\ PositionOK)
<1>1. Init => TypeInv
  BY InitTypeInv
<1>2. TypeInv /\ [Next]_vars => TypeInv'
  BY NextTypeInv
<1> QED
  BY <1>1, <1>2, PTL DEF Spec, TypeInv

-----------------------------------------------------------------------------
(* The semaphore.  PermitsBalance is not inductive by itself: a restart    *)
(* hands out a full semaphore, which is right only because no task         *)
(* survives the process.                                                   *)

Holders == {r \in Run : pc[r] \in Holding}
NoOrphanTask == ~up => \A r \in Run : pc[r] \notin Live
PermitInv == PermitsBalance /\ NoOrphanTask

(* How one task's move changes the set of permit holders. *)
LEMMA HoldersMove ==
  ASSUME TypeInv, NEW r \in Run, NEW to \in PC, pc' = [pc EXCEPT ![r] = to]
  PROVE  /\ IsFiniteSet(Holders) /\ Cardinality(Holders) \in Nat
         /\ (pc[r] \in Holding <=> to \in Holding) => Cardinality(Holders') = Cardinality(Holders)
         /\ pc[r] \notin Holding /\ to \in Holding
              => Cardinality(Holders') = Cardinality(Holders) + 1
         /\ pc[r] \in Holding /\ to \notin Holding
              => Cardinality(Holders') = Cardinality(Holders) - 1
<1>1. IsFiniteSet(Holders) /\ Cardinality(Holders) \in Nat
  BY LimitsAssumption, FS_Subset, FS_CardinalityType DEF Holders
<1>2. pc \in [Run -> PC]
  BY DEF TypeInv, TypeOK
<1>3. CASE pc[r] \in Holding <=> to \in Holding
  <2>1. Holders' = Holders
    BY <1>2, <1>3 DEF Holders
  <2> QED BY <2>1, <1>1, <1>3
<1>4. CASE pc[r] \notin Holding /\ to \in Holding
  <2>1. Holders' = Holders \cup {r} /\ r \notin Holders
    BY <1>2, <1>4 DEF Holders
  <2> QED BY <2>1, <1>1, <1>4, FS_AddElement
<1>5. CASE pc[r] \in Holding /\ to \notin Holding
  <2>1. Holders' = Holders \ {r} /\ r \in Holders
    BY <1>2, <1>5 DEF Holders
  <2> QED BY <2>1, <1>1, <1>5, FS_RemoveElement
<1> QED BY <1>1, <1>3, <1>4, <1>5

(* A step that keeps the process and the permits, and moves one task from  *)
(* a live label to another on the same side of the semaphore.              *)
LEMMA PermitInvKept ==
  ASSUME TypeInv, PermitInv, NEW r \in Run, NEW to \in PC,
         pc' = [pc EXCEPT ![r] = to], UNCHANGED process,
         pc[r] \in Live \/ up, pc[r] \in Holding <=> to \in Holding
  PROVE  PermitInv'
<1>1. up' = up /\ permits' = permits /\ up
  BY DEF process, PermitInv, NoOrphanTask
<1>2. Cardinality(Holders') = Cardinality(Holders)
  BY HoldersMove
<1> QED
  BY <1>1, <1>2 DEF PermitInv, PermitsBalance, NoOrphanTask, Holders

LEMMA NextPermitInv == TypeInv /\ PermitInv /\ [Next]_vars => PermitInv'
<1> SUFFICES ASSUME TypeInv, PermitInv, [Next]_vars PROVE PermitInv'
  OBVIOUS
<1> USE DEF Goto
<1>types. pc \in [Run -> PC] /\ permits \in Nat /\ cur \in [Run -> Nat \ {0}]
  BY DEF TypeInv, TypeOK
<1>1. ASSUME NEW r \in Run, NEW p \in Packs, AcceptPack(r, p) PROVE PermitInv'
  <2>1. pc' = [pc EXCEPT ![r] = "accepted"] /\ pc[r] = "idle" /\ up /\ UNCHANGED process
    BY <1>1 DEF AcceptPack
  <2> QED BY <2>1, PermitInvKept, Labels
<1>2. ASSUME NEW r \in Run, NEW from \in Live, NEW to \in PC, Moves(r, from, to),
             from \in Holding <=> to \in Holding
      PROVE  PermitInv'
  BY <1>2, PermitInvKept DEF Moves
<1>3. ASSUME NEW r \in Run, AcquirePermit(r) PROVE PermitInv'
  <2>1. pc' = [pc EXCEPT ![r] = "insert"] /\ pc[r] = "acquire" /\ permits' = permits - 1 /\ up' = up
    BY <1>3 DEF AcquirePermit
  <2>2. Cardinality(Holders') = Cardinality(Holders) + 1 /\ Cardinality(Holders) \in Nat
    BY <2>1, HoldersMove, Labels
  <2>3. up
    BY <2>1, Labels DEF PermitInv, NoOrphanTask
  <2>4. permits + Cardinality(Holders) = MaxConcurrentPacks
    BY <2>3 DEF PermitInv, PermitsBalance, Holders
  <2>5. permits' + Cardinality(Holders') = MaxConcurrentPacks
    BY <2>1, <2>2, <2>4, <1>types
  <2> QED BY <2>1, <2>3, <2>5 DEF PermitInv, PermitsBalance, NoOrphanTask, Holders
<1>4. ASSUME NEW r \in Run, ReleasePermit(r) PROVE PermitInv'
  <2>1. pc' = [pc EXCEPT ![r] = "done"] /\ pc[r] = "release" /\ permits' = permits + 1 /\ up' = up
    BY <1>4 DEF ReleasePermit
  <2>2. Cardinality(Holders') = Cardinality(Holders) - 1 /\ Cardinality(Holders) \in Nat
    BY <2>1, HoldersMove, Labels
  <2>3. up
    BY <2>1, Labels DEF PermitInv, NoOrphanTask
  <2>4. permits + Cardinality(Holders) = MaxConcurrentPacks
    BY <2>3 DEF PermitInv, PermitsBalance, Holders
  <2>5. permits' + Cardinality(Holders') = MaxConcurrentPacks
    BY <2>1, <2>2, <2>4, <1>types
  <2> QED BY <2>1, <2>3, <2>5 DEF PermitInv, PermitsBalance, NoOrphanTask, Holders
<1>5. ASSUME NEW r \in Run, NEW from \in Holding, NEW to \in Holding,
             pc[r] = from, pc' = [pc EXCEPT ![r] = to], UNCHANGED process
      PROVE  PermitInv'
  BY <1>5, PermitInvKept, Labels
<1>6. ASSUME NEW r \in Run, pc[r] \in Holding, pc' = pc, UNCHANGED process PROVE PermitInv'
  BY <1>6 DEF PermitInv, PermitsBalance, NoOrphanTask, process
<1>7. ASSUME NEW r \in Run,
             InsertPending(r) \/ ProviderSucceeds(r) \/ MarkFailed(r) \/ MarkGenerated(r)
             \/ Upload(r) \/ MarkUploaded(r) \/ FlagDrift(r) \/ RollUpCost(r) \/ MarkRunOk(r)
             \/ EmitCallback(r) \/ RecordFailure(r)
      PROVE  PermitInv'
  <2>1. /\ UNCHANGED process
        /\ \E from, to \in Holding : pc[r] = from /\ pc' = [pc EXCEPT ![r] = to]
    BY <1>7, Labels DEF InsertPending, ProviderSucceeds, MarkFailed, MarkGenerated, Upload,
       MarkUploaded, SetRow, FlagDrift, RollUpCost, MarkRunOk, EmitCallback, SendCallback, RecordFailure,
       CloseRun
  <2> QED BY <2>1, <1>5
<1>8. ASSUME NEW r \in Run, RecordErrorCall(r) \/ RecordOkCall(r) PROVE PermitInv'
  <2>1. /\ UNCHANGED process /\ pc[r] \in Holding
        /\ \E to \in Holding : pc' = [pc EXCEPT ![r] = to]
    BY <1>8, Labels DEF RecordErrorCall, RecordOkCall, Record, NextSlot
  <2> QED BY <2>1, <1>5
<1>9. ASSUME NEW r \in Run, BatchInsert(r) \/ BatchAbort(r) PROVE PermitInv'
  <2>1. /\ UNCHANGED process /\ pc[r] \in Holding
        /\ pc' = pc \/ \E to \in Holding : pc' = [pc EXCEPT ![r] = to]
    BY <1>9, Labels DEF BatchInsert, BatchAbort, SetRow, LoopRemainder
  <2> QED BY <2>1, <1>5, <1>6
<1>10. ASSUME NEW r \in Run, ProviderFails(r) PROVE PermitInv'
  <2>1. CASE Moves(r, "generate", "mark_failed")
    BY <2>1, <1>2, Labels
  <2>2. CASE pc[r] = "generate" /\ pc' = pc /\ UNCHANGED process
    BY <2>2, <1>6, Labels
  <2> QED BY <1>10, <2>1, <2>2 DEF ProviderFails
<1>11. CASE Crash
  BY <1>11, <1>types, Labels DEF Crash, PermitInv, PermitsBalance, NoOrphanTask
<1>12. CASE Restart
  <2>1. Holders' = {} /\ up' /\ permits' = MaxConcurrentPacks
    BY <1>12, Labels DEF Restart, PermitInv, NoOrphanTask, Holders
  <2>2. Cardinality(Holders') = 0
    BY <2>1, FS_EmptySet
  <2> QED BY <2>1, <2>2, LimitsAssumption DEF PermitInv, PermitsBalance, NoOrphanTask, Holders
<1>13. CASE UNCHANGED vars
  BY <1>13 DEF PermitInv, PermitsBalance, NoOrphanTask, vars, process
<1>14. ASSUME NEW r \in Run,
              SpawnTask(r) \/ AbandonRequest(r) \/ BatchSucceeds(r) \/ BatchFails(r)
              \/ LoseCallback(r) \/ Raise(r) \/ LoseFailure(r)
       PROVE  PermitInv'
  <2>1. \E from \in Live, to \in PC : /\ Moves(r, from, to)
                                      /\ from \in Holding <=> to \in Holding
    BY <1>14, Labels DEF SpawnTask, AbandonRequest, BatchSucceeds, BatchFails, LoseCallback,
       Raise, LoseFailure
  <2> QED BY <2>1, <1>2
<1>15. ASSUME NEW r \in Run, Cancel(r) PROVE PermitInv'
  <2>1. CASE SendCallback(r, "except")
    <3>1. UNCHANGED process /\ pc[r] = "callback" /\ pc' = [pc EXCEPT ![r] = "except"]
      BY <2>1 DEF SendCallback
    <3> QED BY <3>1, <1>5, Labels
  <2>2. CASE \E from \in Live, to \in PC :
               Moves(r, from, to) /\ (from \in Holding <=> to \in Holding)
    BY <2>2, <1>2
  <2> QED BY <1>15, <2>1, <2>2, Labels DEF Cancel
<1> QED
  BY <1>1, <1>3, <1>4, <1>7, <1>8, <1>9, <1>10, <1>11, <1>12, <1>13, <1>14, <1>15
  DEF Next, Task, Quiescent

(* No way out of the worker, a crash of the process included, loses a      *)
(* permit or makes one up.                                                 *)
THEOREM PermitsAlwaysBalance == Spec => []PermitsBalance
<1>1. Init => PermitInv
  <2> SUFFICES ASSUME Init PROVE PermitInv
    OBVIOUS
  <2>1. Holders = {} /\ up /\ permits = MaxConcurrentPacks
    BY Labels DEF Init, Holders
  <2> QED
    BY <2>1, FS_EmptySet, LimitsAssumption DEF PermitInv, PermitsBalance, NoOrphanTask, Holders
<1>2. TypeInv /\ PermitInv /\ [Next]_vars => PermitInv'
  BY NextPermitInv
<1>3. PermitInv => PermitsBalance
  BY DEF PermitInv
<1> QED
  BY <1>1, <1>2, <1>3, TypeCorrect, PTL DEF Spec, TypeInv

-----------------------------------------------------------------------------
(* Nothing a step does to other runs is seen by run q. *)
SameSlot(q, s) ==
  /\ summary'[q][s] = summary[q][s]
  /\ \A p \in Path : /\ row'[<<q, p, s>>] = row[<<q, p, s>>]
                     /\ toolCalls'[<<q, p, s>>] = toolCalls[<<q, p, s>>]
                     /\ <<q, p, s>> \in flagged' <=> <<q, p, s>> \in flagged
                     /\ <<q, p, s>> \in Keyed' <=> <<q, p, s>> \in Keyed

SameRun(q) ==
  /\ pc'[q] = pc[q] /\ pack'[q] = pack[q] /\ path'[q] = path[q] /\ cur'[q] = cur[q]
  /\ summary'[q] = summary[q]
  /\ runStatus'[q] = runStatus[q] /\ costBasis'[q] = costBasis[q]
  /\ callback'[q] = callback[q]
  /\ q \in finished' <=> q \in finished
  /\ \A s \in Slot : SameSlot(q, s)
  /\ \A s \in Slot, p \in Path :
       <<q, p, s>> \in conditionedOn' <=> <<q, p, s>> \in conditionedOn

LEMMA AssetShape ==
  ASSUME NEW r \in Run
  PROVE  /\ AssetsOf(r) = {<<r, p, s>> : p \in Path, s \in Slot}
         /\ \A p \in Path, s \in Slot : <<r, p, s>> \in Asset
BY DEF AssetsOf, Asset

LEMMA SameSlotFacts ==
  ASSUME NEW r \in Run, NEW s \in Slot, SameSlot(r, s)
  PROVE  /\ Fresh(r, s) <=> Fresh(r, s)'
         /\ Waiting(r, s) <=> Waiting(r, s)'
         /\ Batched(r, s) <=> Batched(r, s)'
         /\ Decided(r, s) <=> Decided(r, s)'
         /\ BatchIdle(r, s) <=> BatchIdle(r, s)'
         /\ \A p \in Path : Untouched(r, p, s) <=> Untouched(r, p, s)'
<1> USE DEF Path
<1>1. /\ summary'[r][s] = summary[r][s]
      /\ row'[<<r, "single", s>>] = row[<<r, "single", s>>]
      /\ row'[<<r, "batch", s>>] = row[<<r, "batch", s>>]
      /\ toolCalls'[<<r, "single", s>>] = toolCalls[<<r, "single", s>>]
      /\ toolCalls'[<<r, "batch", s>>] = toolCalls[<<r, "batch", s>>]
      /\ <<r, "single", s>> \in flagged' <=> <<r, "single", s>> \in flagged
      /\ <<r, "batch", s>> \in flagged' <=> <<r, "batch", s>> \in flagged
  BY DEF SameSlot
<1>2. Fresh(r, s) <=> Fresh(r, s)'
  BY <1>1 DEF Fresh, Untouched
<1>3. Waiting(r, s) <=> Waiting(r, s)'
  BY <1>1 DEF Waiting, Untouched, BatchIdle
<1>4. Batched(r, s) <=> Batched(r, s)'
  BY <1>1 DEF Batched, Untouched
<1>5. Decided(r, s) <=> Decided(r, s)'
  BY <1>1 DEF Decided, Uploaded, Untouched, BatchIdle
<1>6. \A p \in Path : Untouched(r, p, s) <=> Untouched(r, p, s)'
  BY <1>1 DEF Untouched
<1>7. BatchIdle(r, s) <=> BatchIdle(r, s)'
  BY <1>1 DEF BatchIdle
<1> QED BY <1>2, <1>3, <1>4, <1>5, <1>6, <1>7

LEMMA SameOkCalls ==
  ASSUME NEW r \in Run, \A s \in Slot : SameSlot(r, s)
  PROVE  OkCalls(r)' = OkCalls(r)
<1>1. \A s \in Slot, p \in Path : toolCalls'[<<r, p, s>>] = toolCalls[<<r, p, s>>]
  BY DEF SameSlot
<1> QED BY <1>1, AssetShape DEF OkCalls, AssetsOf

LEMMA SameWorking ==
  ASSUME TypeInv, NEW q \in Run, SameRun(q), NEW s \in Slot, Working(q, s)
  PROVE  Working(q, s)'
<1>1. path[q] \in Path
  BY DEF TypeInv, TypeOK
<1>2. SameSlot(q, s)
  BY DEF SameRun
<1>3. /\ summary'[q][s] = summary[q][s] /\ pc'[q] = pc[q] /\ path'[q] = path[q]
      /\ row'[<<q, path[q], s>>] = row[<<q, path[q], s>>]
      /\ toolCalls'[<<q, path[q], s>>] = toolCalls[<<q, path[q], s>>]
      /\ <<q, path[q], s>> \in flagged' <=> <<q, path[q], s>> \in flagged
      /\ <<q, path[q], s>> \in Keyed' <=> <<q, path[q], s>> \in Keyed
  BY <1>1, <1>2 DEF SameRun, SameSlot
<1>4. /\ Untouched(q, "single", s) <=> Untouched(q, "single", s)'
      /\ BatchIdle(q, s) <=> BatchIdle(q, s)'
  BY <1>2, SameSlotFacts DEF Path
<1>5. RowAt(pc[q])' = RowAt(pc[q])
  BY <1>3 DEF RowAt
<1> QED
  BY <1>3, <1>4, <1>5 DEF Working

(* The rows of a slot the step leaves alone, in a run that goes on: the    *)
(* hero image it may be conditioned on stays where it is.                  *)
LEMMA RowInvKept ==
  ASSUME TypeInv, NEW r \in Run, NEW s \in Slot, RunInv(r), SameSlot(r, s),
         pc[r] # "idle", pc'[r] # "idle", pack'[r] = pack[r],
         \A p \in Path : <<r, p, s>> \in conditionedOn' => <<r, p, s>> \in conditionedOn,
         \A h \in Slot : summary[r][h] = "uploaded" => SameSlot(r, h)
  PROVE  RowInv(r, s)'
<1>1. RowInv(r, s)
  BY DEF RunInv
<1>2. Fresh(r, s) => Fresh(r, s)'
  BY SameSlotFacts
<1>3. ASSUME NEW p \in Path
      PROVE  /\ row'[<<r, p, s>>] = row[<<r, p, s>>]
             /\ toolCalls'[<<r, p, s>>] = toolCalls[<<r, p, s>>]
             /\ <<r, p, s>> \in Keyed' <=> <<r, p, s>> \in Keyed
  BY DEF SameSlot
<1>4. ASSUME NEW p \in Path, <<r, p, s>> \in conditionedOn'
      PROVE  /\ s # pack[r].hero
             /\ summary'[r][pack[r].hero] = "uploaded"
             /\ row'[<<r, "single", pack[r].hero>>] = "uploaded"
  <2>1. /\ s # pack[r].hero /\ summary[r][pack[r].hero] = "uploaded"
        /\ row[<<r, "single", pack[r].hero>>] = "uploaded"
    BY <1>1, <1>4 DEF RowInv
  <2>2. pack[r].hero \in Slot
    BY CurrentAsset, PackFacts
  <2> QED BY <2>1, <2>2 DEF SameSlot, Path
<1> QED
  BY <1>1, <1>2, <1>3, <1>4 DEF RowInv, Path

(* The frame: a run no step touches keeps its invariant. *)
LEMMA OtherRun ==
  ASSUME TypeInv, NEW q \in Run, RunInv(q), SameRun(q)
  PROVE  RunInv(q)'
<1>1. \A s \in Slot : SameSlot(q, s)
  BY DEF SameRun
<1>2. Order(q)' = Order(q) /\ pack'[q] = pack[q] /\ pc'[q] = pc[q]
  BY DEF SameRun, Order
<1>3. ControlInv(q)'
  <2>1. OkCalls(q)' = OkCalls(q)
    BY <1>1, SameOkCalls
  <2>2. PackStatusOf(q)' = PackStatusOf(q)
    BY DEF SameRun, PackStatusOf, SlotsOf, Order
  <2> QED
    BY <2>1, <2>2 DEF RunInv, ControlInv, SameRun
<1>4. ASSUME pc[q] # "idle", NEW i \in 1..Len(Order(q)), NEW s \in Slot, Order(q)[i] = s
      PROVE  SlotInv(q, i, s)'
  <2>1. SlotInv(q, i, s)
    BY <1>4 DEF RunInv
  <2>2. Working(q, s) => Working(q, s)'
    BY SameWorking
  <2> QED
    BY <2>1, <2>2, <1>1, SameSlotFacts DEF SlotInv, SameRun, Path
<1>5. ASSUME NEW s \in Slot PROVE RowInv(q, s)'
  <2>1. CASE pc[q] = "idle"
    <3>1. RowInv(q, s) /\ SameSlot(q, s)
      BY <1>1 DEF RunInv
    <3>2. Fresh(q, s)' /\ \A p \in Path : <<q, p, s>> \notin conditionedOn'
      BY <2>1, <3>1, SameSlotFacts DEF RowInv, SameRun
    <3> QED BY <3>2 DEF RowInv, Fresh, Untouched, Path
  <2>2. CASE pc[q] # "idle"
    BY <2>2, <1>1, <1>2, RowInvKept DEF SameRun
  <2> QED BY <2>1, <2>2
<1> QED
  BY <1>2, <1>3, <1>4, <1>5 DEF RunInv

-----------------------------------------------------------------------------
(* Steps of the task itself. *)

(* A slot occurs once in the order, so only the current position moves. *)
LEMMA OrderFacts ==
  ASSUME TypeInv, NEW r \in Run, pc[r] # "idle"
  PROVE  /\ SlotOf(r) \in Slot /\ cur[r] \in 1..Len(Order(r)) /\ Len(Order(r)) \in Nat
         /\ HasSlot(pack[r], SlotOf(r))
         /\ \A i \in 1..Len(Order(r)) :
              /\ Order(r)[i] \in Slot
              /\ i = cur[r] <=> Order(r)[i] = SlotOf(r)
         /\ HasSlot(pack[r], pack[r].hero) => Order(r)[1] = pack[r].hero
         /\ \A s \in Slot : HasSlot(pack[r], s) =>
              \E i \in 1..Len(Order(r)) : Order(r)[i] = s
         /\ pack[r].hero \in Slot
<1>1. /\ pack[r] \in Packs /\ SlotOf(r) \in Slot /\ cur[r] \in 1..Len(Order(r))
      /\ Len(Order(r)) \in Nat
  BY CurrentAsset
<1>2. \A i, j \in 1..Len(Order(r)) : Order(r)[i] = Order(r)[j] => i = j
  BY <1>1, PacksAssumption DEF Order
<1>3. HasSlot(pack[r], pack[r].hero) => Order(r)[1] = pack[r].hero
  BY <1>1, PacksAssumption DEF Order
<1> QED
  BY <1>1, <1>2, <1>3, PackFacts DEF SlotOf, Order, HasSlot

LEMMA RowAtStep ==
  /\ RowAt("insert") = "absent" /\ RowAt("generate") = "pending"
  /\ RowAt("mark_failed") = "pending" /\ RowAt("mark_generated") = "pending"
  /\ RowAt("upload") = "generated" /\ RowAt("mark_uploaded") = "generated"
  /\ RowAt("flag_drift") = "uploaded" /\ RowAt("ok_call") = "uploaded"
  /\ RowAt("error_call") = "failed"
BY DEF RowAt

(* A step that works on the current slot and stays on it. *)
LEMMA WorkStep ==
  ASSUME TypeInv, NEW r \in Run, NEW here \in Slot, here = SlotOf(r), RunInv(r),
         pc[r] \in SlotSteps, pc'[r] \in SlotSteps,
         pc'[r] \in SingleOnly => pc[r] \in SingleOnly,
         UNCHANGED <<pack, path, cur, summary, runs, callback>>,
         \A s \in Slot \ {here} : SameSlot(r, s),
         \A s \in Slot \ {here}, p \in Path :
           <<r, p, s>> \in conditionedOn' => <<r, p, s>> \in conditionedOn,
         Untouched(r, "batch", here) /\ path[r] = "single" => Untouched(r, "batch", here)',
         Working(r, here)',
         row'[<<r, path[r], here>>] = "uploaded" => <<r, path[r], here>> \in Keyed',
         \A p \in Path : <<r, p, here>> \in conditionedOn' =>
           \/ <<r, p, here>> \in conditionedOn
           \/ /\ here # pack[r].hero /\ summary[r][pack[r].hero] = "uploaded"
              /\ row[<<r, "single", pack[r].hero>>] = "uploaded"
  PROVE  RunInv(r)'
<1>0. pc[r] # "idle" /\ pc'[r] # "idle" /\ path[r] \in Path
  BY DEF SlotSteps, TypeInv, TypeOK
<1>1. Order(r)' = Order(r)
  BY DEF Order
<1>2. ControlInv(r)'
  <2>1. pc[r] \in TryBlock /\ pc'[r] \in TryBlock /\ pc'[r] \notin BatchSteps \cup Before \cup
          {"callback", "release", "done", "dead", "mark_ok", "batch_generate", "idle", "accepted", "acquire", "except"}
    BY DEF TryBlock, SlotSteps, BatchSteps, Before
  <2>2. ControlInv(r) /\ runStatus[r] = "running"
    BY <2>1 DEF RunInv, ControlInv
  <2>3. callback[r] = "none"
    BY <2>1, <2>2 DEF ControlInv
  <2> QED
    BY <2>1, <2>2, <2>3 DEF ControlInv, runs
<1>3. /\ Working(r, here) /\ runStatus[r] # "ok" /\ callback[r] = "none"
      /\ cur[r] = 1 => Untouched(r, "batch", here)
  BY <1>0, OrderFacts DEF RunInv, SlotInv, ControlInv, TryBlock, SlotSteps
<1>4. ASSUME NEW i \in 1..Len(Order(r)), NEW s \in Slot, Order(r)[i] = s
      PROVE  SlotInv(r, i, s)'
  <2>1. SlotInv(r, i, s) /\ (i = cur[r] <=> s = here)
    BY <1>0, <1>4, OrderFacts DEF RunInv
  <2>2. /\ pc'[r] \notin BatchSteps \cup Ended \cup Before
        /\ runStatus'[r] # "ok" /\ callback'[r] = "none"
    BY <1>3 DEF SlotSteps, BatchSteps, Ended, Before, runs
  <2>3. CASE s = here
    <3>1. i = 1 => path[r] = "single"
      BY <2>1, <2>3, <1>0 DEF RunInv, ControlInv, Path
    <3> QED BY <1>3, <2>1, <2>2, <2>3, <3>1, <1>0, OrderFacts DEF SlotInv, BatchSteps
  <2>4. CASE s # here
    <3>1. SameSlot(r, s)
      BY <2>4
    <3> QED
      BY <2>1, <2>2, <2>4, <3>1, SameSlotFacts, <1>0, OrderFacts DEF SlotInv, BatchSteps, Path
  <2> QED BY <2>3, <2>4
<1>5. \A h \in Slot : summary[r][h] = "uploaded" => SameSlot(r, h)
  BY <1>3 DEF Working
<1>6. RowInv(r, here)'
  <2>1. \A p \in Path : <<r, p, here>> \in conditionedOn' =>
          /\ here # pack[r].hero /\ summary[r][pack[r].hero] = "uploaded"
          /\ row[<<r, "single", pack[r].hero>>] = "uploaded"
    BY DEF RunInv, RowInv
  <2>2. summary[r][pack[r].hero] = "uploaded" =>
          row'[<<r, "single", pack[r].hero>>] = row[<<r, "single", pack[r].hero>>]
    BY <1>0, <1>5, OrderFacts DEF SameSlot, Path
  <2>3. HasSlot(pack[r], here)
    BY <1>0, OrderFacts
  <2>4. path[r] = "single" \/ path[r] = "batch"
    BY <1>0 DEF Path
  <2>5. /\ \A p \in Path : /\ row'[<<r, p, here>>] = "uploaded" => <<r, p, here>> \in Keyed'
                           /\ toolCalls'[<<r, p, here>>] # "ok"
        /\ row'[<<r, "single", here>>] # "absent" => row'[<<r, "batch", here>>] \in {"absent", "failed"}
    BY <2>4 DEF Working, Untouched, BatchIdle, Path
  <2> QED BY <2>1, <2>2, <2>3, <2>5, <1>0 DEF RowInv
<1>7. ASSUME NEW s \in Slot \ {here} PROVE RowInv(r, s)'
  BY <1>0, <1>5, RowInvKept
<1> QED
  BY <1>0, <1>1, <1>2, <1>4, <1>6, <1>7 DEF RunInv

(* What WorkStep asks of the step, when it only writes the current row. *)
LEMMA AssetFacts ==
  ASSUME TypeInv, NEW r \in Run, pc[r] # "idle"
  PROVE  /\ AssetOf(r) = <<r, path[r], SlotOf(r)>> /\ AssetOf(r) \in Asset
         /\ path[r] \in Path
         /\ row \in [Asset -> RowStatus] /\ toolCalls \in [Asset -> {"none", "ok", "error"}]
         /\ pc \in [Run -> PC] /\ summary \in [Run -> [Slot -> {"none", "uploaded", "failed"}]]
BY CurrentAsset DEF AssetOf, TypeInv, TypeOK

LEMMA WorkSteps ==
  ASSUME TypeInv, NEW r \in Run, RunInv(r),
         \/ InsertPending(r) \/ ProviderSucceeds(r) \/ ProviderFails(r) \/ MarkFailed(r)
         \/ MarkGenerated(r) \/ Upload(r) \/ MarkUploaded(r) \/ FlagDrift(r)
  PROVE  RunInv(r)'
<1> DEFINE here == SlotOf(r)
<1>0. PICK s0 \in Slot : s0 = SlotOf(r)
  <2>1. pc[r] # "idle"
    BY DEF InsertPending, ProviderSucceeds, ProviderFails, MarkFailed, MarkGenerated, Upload,
           MarkUploaded, FlagDrift, Moves
  <2> QED BY <2>1, OrderFacts
<1>1. /\ pc[r] \in SlotSteps /\ pc'[r] \in SlotSteps
      /\ pc'[r] \in SingleOnly => pc[r] \in SingleOnly
      /\ pc[r] # "idle"
  BY AssetFacts, Labels DEF InsertPending, ProviderSucceeds, ProviderFails, MarkFailed,
     MarkGenerated, Upload, MarkUploaded, FlagDrift, Moves, Goto, SlotSteps, SingleOnly
<1>2. UNCHANGED <<pack, path, cur, summary, runs, callback>>
  BY DEF InsertPending, ProviderSucceeds, ProviderFails, MarkFailed, MarkGenerated, Upload,
     MarkUploaded, FlagDrift, Moves, SetRow, runs, assets, outside, locals
<1>3. /\ AssetOf(r) = <<r, path[r], s0>> /\ AssetOf(r) \in Asset /\ path[r] \in Path
      /\ row \in [Asset -> RowStatus] /\ pc \in [Run -> PC]
  BY <1>0, <1>1, AssetFacts
<1>4. /\ row' = row \/ \E st \in RowStatus : row' = [row EXCEPT ![AssetOf(r)] = st]
      /\ toolCalls' = toolCalls
      /\ flagged' = flagged \/ flagged' = flagged \cup {AssetOf(r)}
      /\ Keyed' = Keyed \/ Keyed' = Keyed \cup {AssetOf(r)}
      /\ conditionedOn' = conditionedOn \/ conditionedOn' = conditionedOn \cup {AssetOf(r)}
  <2>1. Keyed' = Keyed \/ Keyed' = Keyed \cup {AssetOf(r)}
    BY DEF InsertPending, ProviderSucceeds, ProviderFails, MarkFailed, MarkGenerated, Upload,
       MarkUploaded, FlagDrift, Moves, SetRow, outside, Keyed
  <2> QED
    BY <2>1 DEF InsertPending, ProviderSucceeds, ProviderFails, MarkFailed, MarkGenerated, Upload,
       MarkUploaded, FlagDrift, Moves, SetRow, assets, outside, locals, RowStatus
<1>5. ASSUME NEW s \in Slot \ {s0}
      PROVE  /\ SameSlot(r, s)
             /\ \A p \in Path : <<r, p, s>> \in conditionedOn' => <<r, p, s>> \in conditionedOn
  <2>1. \A p \in Path : <<r, p, s>> # AssetOf(r) /\ <<r, p, s>> \in Asset
    BY <1>3, AssetShape
  <2>2. summary' = summary
    BY <1>2
  <2> QED BY <1>3, <1>4, <2>1, <2>2 DEF SameSlot
<1>6. \A p \in Path : p # path[r] =>
        /\ row'[<<r, p, s0>>] = row[<<r, p, s0>>]
        /\ toolCalls'[<<r, p, s0>>] = toolCalls[<<r, p, s0>>]
  <2>1. \A p \in Path : p # path[r] => <<r, p, s0>> # AssetOf(r) /\ <<r, p, s0>> \in Asset
    BY <1>3, AssetShape
  <2> QED BY <1>3, <1>4, <2>1
<1>7. Untouched(r, "batch", s0) /\ path[r] = "single" => Untouched(r, "batch", s0)'
  BY <1>6 DEF Untouched, Path
<1>8. Working(r, s0) /\ RowInv(r, s0)
  BY <1>0, <1>1, OrderFacts DEF RunInv, SlotInv
<1>9. /\ summary'[r][s0] = "none" /\ path' = path
      /\ toolCalls'[<<r, path[r], s0>>] = "none"
      /\ IF path[r] = "batch" THEN Untouched(r, "single", s0)' ELSE BatchIdle(r, s0)'
  BY <1>2, <1>3, <1>4, <1>6, <1>8 DEF Working, Untouched, BatchIdle, Path
<1>10. /\ row'[<<r, path[r], s0>>] = RowAt(pc'[r])
       /\ pc'[r] = "mark_uploaded" => <<r, path[r], s0>> \in Keyed'
       /\ pc'[r] = "ok_call" /\ s0 \in DriftSlots => <<r, path[r], s0>> \in flagged'
       /\ row'[<<r, path[r], s0>>] = "uploaded" => <<r, path[r], s0>> \in Keyed'
  <2>0. /\ row[<<r, path[r], s0>>] = RowAt(pc[r])
        /\ pc[r] = "mark_uploaded" => <<r, path[r], s0>> \in Keyed
        /\ row[<<r, path[r], s0>>] = "uploaded" => <<r, path[r], s0>> \in Keyed
    BY <1>8, <1>3 DEF Working, RowInv
  <2> USE DEF Goto
  <2>1. CASE InsertPending(r)
    BY <2>0, <2>1, <1>3, RowAtStep DEF InsertPending
  <2>2. CASE ProviderSucceeds(r)
    BY <2>0, <2>2, <1>3, RowAtStep DEF ProviderSucceeds, assets
  <2>3. CASE ProviderFails(r)
    BY <2>0, <2>3, <1>3, RowAtStep DEF ProviderFails, Moves, assets
  <2>4. CASE MarkFailed(r)
    BY <2>0, <2>4, <1>3, RowAtStep DEF MarkFailed, SetRow
  <2>5. CASE MarkGenerated(r)
    BY <2>0, <2>5, <1>3, RowAtStep DEF MarkGenerated, SetRow
  <2>6. CASE Upload(r)
    BY <2>0, <2>6, <1>3, RowAtStep DEF Upload, assets, Keyed
  <2>7. CASE MarkUploaded(r)
    BY <2>0, <2>7, <1>0, <1>3, RowAtStep DEF MarkUploaded, SetRow, outside, Keyed
  <2>8. CASE FlagDrift(r)
    BY <2>0, <2>8, <1>3, RowAtStep DEF FlagDrift, outside, Keyed
  <2> QED BY <2>1, <2>2, <2>3, <2>4, <2>5, <2>6, <2>7, <2>8
<1>11. Working(r, s0)'
  BY <1>9, <1>10 DEF Working
<1>12. ASSUME NEW p \in Path, <<r, p, s0>> \in conditionedOn', <<r, p, s0>> \notin conditionedOn
       PROVE  /\ s0 # pack[r].hero /\ summary[r][pack[r].hero] = "uploaded"
              /\ row[<<r, "single", pack[r].hero>>] = "uploaded"
  <2>1. ProviderSucceeds(r) /\ WantsReference(r)
    BY <1>12 DEF InsertPending, ProviderSucceeds, ProviderFails, MarkFailed, MarkGenerated,
       Upload, MarkUploaded, FlagDrift, Moves, SetRow, locals
  <2>2. s0 # pack[r].hero /\ summary[r][pack[r].hero] = "uploaded"
    BY <2>1, <1>0 DEF WantsReference, HasHeroBytes
  <2>3. pack[r].hero \in Slot /\ RowInv(r, pack[r].hero)
    BY <1>1, OrderFacts DEF RunInv
  <2>4. HasSlot(pack[r], pack[r].hero)
    BY <2>2, <2>3 DEF RowInv, Fresh
  <2>5. SlotInv(r, 1, pack[r].hero) /\ 1 < cur[r]
    BY <1>0, <1>1, <2>2, <2>3, <2>4, OrderFacts DEF RunInv
  <2>6. Decided(r, pack[r].hero) /\ Untouched(r, "batch", pack[r].hero)
    BY <2>5, <1>1 DEF SlotInv
  <2> QED BY <2>2, <2>6 DEF Decided, Uploaded, Untouched
<1> QED
  BY <1>0, <1>1, <1>2, <1>5, <1>7, <1>10, <1>11, <1>12, WorkStep

-----------------------------------------------------------------------------
(* The steps that move to the next slot. *)

LEMMA StartsWorking ==
  ASSUME NEW r \in Run, NEW s \in Slot,
         \/ Waiting(r, s)' /\ pc'[r] = "insert" /\ path'[r] = "single"
         \/ Batched(r, s)' /\ pc'[r] = "mark_generated" /\ path'[r] = "batch"
  PROVE  Working(r, s)'
BY RowAtStep DEF Waiting, Batched, Working, Untouched, BatchIdle

(* Control of a run between its start and its closing. *)
LEMMA ControlKept ==
  ASSUME NEW r \in Run, ControlInv(r), pc[r] \in TryBlock,
         pc'[r] \in SlotSteps \cup BatchSteps \cup {"roll_up"},
         UNCHANGED <<runs, callback, pack>>,
         pc'[r] \in SingleOnly => path'[r] = "single",
         pc'[r] \in BatchSteps => path'[r] = "batch",
         pc'[r] = "batch_generate" => cur'[r] = 2,
         path'[r] = "batch" => cur'[r] >= 2
  PROVE  ControlInv(r)'
<1>1. pc[r] \notin {"idle", "accepted", "acquire", "release", "done", "dead", "callback"}
  BY Labels
<1>2. pc'[r] \in TryBlock /\ pc'[r] \notin Before \cup {"callback", "release", "done", "dead", "mark_ok"}
  BY Labels DEF TryBlock, SlotSteps, BatchSteps, Before
<1>3. runStatus[r] = "running" /\ callback[r] = "none"
  BY <1>1 DEF ControlInv
<1> QED
  BY <1>2, <1>3 DEF ControlInv, runs, Before

LEMMA RecordSteps ==
  ASSUME TypeInv, NEW r \in Run, RunInv(r), RecordErrorCall(r) \/ RecordOkCall(r)
  PROVE  RunInv(r)'
<1>0. PICK s0 \in Slot : s0 = SlotOf(r)
  <2>1. pc[r] # "idle"
    BY DEF RecordErrorCall, RecordOkCall
  <2> QED BY <2>1, OrderFacts
<1>1. /\ pc[r] \in {"error_call", "ok_call"} /\ pc[r] \in SlotSteps /\ pc[r] # "idle"
      /\ pc[r] \in TryBlock
  BY Labels DEF RecordErrorCall, RecordOkCall, SlotSteps, TryBlock
<1>2. /\ UNCHANGED <<runs, row, flagged, outside, process, pack, attempt, conditionedOn>>
      /\ \E o \in {"failed", "uploaded"} : NextSlot(r, o)
  BY DEF RecordErrorCall, RecordOkCall, Record
<1>3. /\ AssetOf(r) = <<r, path[r], s0>> /\ AssetOf(r) \in Asset /\ path[r] \in Path
      /\ toolCalls \in [Asset -> {"none", "ok", "error"}] /\ pc \in [Run -> PC]
      /\ summary \in [Run -> [Slot -> {"none", "uploaded", "failed"}]]
      /\ cur \in [Run -> Nat \ {0}] /\ path \in [Run -> Path]
  BY <1>0, <1>1, AssetFacts DEF TypeInv, TypeOK
<1>4. /\ \E o \in {"ok", "error"} : toolCalls' = [toolCalls EXCEPT ![AssetOf(r)] = o]
      /\ \E o \in {"failed", "uploaded"} : summary' = [summary EXCEPT ![r][s0] = o]
  BY <1>0 DEF RecordErrorCall, RecordOkCall, Record, NextSlot
<1>5. ASSUME NEW s \in Slot \ {s0} PROVE SameSlot(r, s)
  <2>1. \A p \in Path : <<r, p, s>> # AssetOf(r) /\ <<r, p, s>> \in Asset
    BY <1>3, AssetShape
  <2>2. summary'[r][s] = summary[r][s]
    BY <1>3, <1>4
  <2> QED BY <1>2, <1>3, <1>4, <2>1, <2>2 DEF SameSlot, outside, Keyed
<1>6. /\ Working(r, s0) /\ RowInv(r, s0) /\ ControlInv(r)
      /\ cur[r] = 1 => Untouched(r, "batch", s0)
  BY <1>0, <1>1, OrderFacts DEF RunInv, SlotInv
<1>7. Decided(r, s0)'
  <2>1. \A p \in Path : p # path[r] => toolCalls'[<<r, p, s0>>] = toolCalls[<<r, p, s0>>]
    <3>1. \A p \in Path : p # path[r] => <<r, p, s0>> # AssetOf(r) /\ <<r, p, s0>> \in Asset
      BY <1>3, AssetShape
    <3> QED BY <1>3, <1>4, <3>1
  <2>2. CASE RecordErrorCall(r)
    <3>1. pc[r] = "error_call" /\ path[r] = "single"
      BY <1>6, <2>2 DEF RecordErrorCall, ControlInv, SingleOnly
    <3>2. row[<<r, "single", s0>>] = "failed" /\ BatchIdle(r, s0)
      BY <1>6, <3>1, RowAtStep DEF Working
    <3>3. toolCalls'[<<r, "single", s0>>] = "error" /\ summary'[r][s0] = "failed"
      BY <1>0, <1>3, <2>2, <3>1 DEF RecordErrorCall, Record, NextSlot
    <3> QED BY <1>2, <2>1, <3>1, <3>2, <3>3 DEF Decided, BatchIdle, Path
  <2>3. CASE RecordOkCall(r)
    <3>1. pc[r] = "ok_call"
      BY <2>3 DEF RecordOkCall
    <3>2. /\ row[<<r, path[r], s0>>] = "uploaded"
          /\ s0 \in DriftSlots => <<r, path[r], s0>> \in flagged
          /\ IF path[r] = "batch" THEN Untouched(r, "single", s0) ELSE BatchIdle(r, s0)
      BY <1>6, <3>1, RowAtStep DEF Working
    <3>3. toolCalls'[<<r, path[r], s0>>] = "ok" /\ summary'[r][s0] = "uploaded"
      BY <1>0, <1>3, <2>3 DEF RecordOkCall, Record, NextSlot
    <3> QED BY <1>2, <1>3, <2>1, <3>2, <3>3 DEF Decided, Uploaded, BatchIdle, Untouched, Path
  <2> QED BY <2>2, <2>3
<1>8. cur[r] = 1 => Untouched(r, "batch", s0)'
  <2>1. cur[r] = 1 => path[r] = "single"
    BY <1>3, <1>6 DEF ControlInv, Path
  <2>2. path[r] = "single" => toolCalls'[<<r, "batch", s0>>] = toolCalls[<<r, "batch", s0>>]
    <3>1. path[r] = "single" => <<r, "batch", s0>> # AssetOf(r) /\ <<r, "batch", s0>> \in Asset
      BY <1>3, AssetShape DEF Path
    <3> QED BY <1>3, <1>4, <3>1
  <2> QED BY <1>2, <1>6, <2>1, <2>2 DEF Untouched
<1>9. \A h \in Slot : summary[r][h] = "uploaded" => SameSlot(r, h)
  BY <1>5, <1>6 DEF Working
<1>10. Order(r)' = Order(r) /\ pack' = pack
  BY <1>2 DEF Order
<1>11. /\ pc'[r] # "idle" /\ pc'[r] \in {"roll_up", "batch_insert", "mark_generated", "insert"}
       /\ path'[r] \in Path
       /\ \/ pc'[r] = "roll_up" /\ IsLast(r) /\ cur' = cur /\ path' = path
          \/ /\ ~IsLast(r) /\ cur'[r] = cur[r] + 1
             /\ \/ pc'[r] = "batch_insert" /\ path'[r] = "batch" /\ cur[r] = 1 /\ path[r] = "single"
                \/ pc'[r] = "mark_generated" /\ path' = path /\ path[r] = "batch"
                \/ pc'[r] = "insert" /\ path' = path /\ path[r] = "single"
  <2>1. cur[r] = 1 => path[r] = "single"
    BY <1>3, <1>6 DEF ControlInv, Path
  <2> QED BY <1>2, <1>3, <2>1 DEF NextSlot, Goto, Path
<1>12. RowInv(r, s0)'
  <2>1. \A p \in Path : <<r, p, s0>> \in conditionedOn =>
          /\ s0 # pack[r].hero /\ summary[r][pack[r].hero] = "uploaded"
          /\ row[<<r, "single", pack[r].hero>>] = "uploaded"
    BY <1>6 DEF RowInv
  <2>2. summary[r][pack[r].hero] = "uploaded" => summary'[r][pack[r].hero] = "uploaded"
    BY <1>1, <1>9, OrderFacts DEF SameSlot
  <2>3. HasSlot(pack[r], s0)
    BY <1>0, <1>1, OrderFacts
  <2>4. /\ \A p \in Path : toolCalls'[<<r, p, s0>>] = "ok" => row'[<<r, p, s0>>] = "uploaded"
        /\ row'[<<r, "single", s0>>] # "absent" => row'[<<r, "batch", s0>>] \in {"absent", "failed"}
    BY <1>7 DEF Decided, Uploaded, Untouched, BatchIdle, Path
  <2> QED
    BY <1>2, <1>6, <1>11, <2>1, <2>2, <2>3, <2>4 DEF RowInv, outside, Keyed
<1>13. ASSUME NEW s \in Slot \ {s0} PROVE RowInv(r, s)'
  BY <1>1, <1>2, <1>5, <1>9, <1>10, <1>11, RowInvKept
<1>14. ControlInv(r)'
  <2>1. pc'[r] \in SlotSteps \cup BatchSteps \cup {"roll_up"}
    BY <1>11 DEF SlotSteps, BatchSteps
  <2>2. /\ pc'[r] \in SingleOnly => path'[r] = "single"
        /\ pc'[r] \in BatchSteps => path'[r] = "batch"
        /\ pc'[r] # "batch_generate"
        /\ path'[r] = "batch" => cur'[r] >= 2
    BY <1>3, <1>6, <1>11 DEF SingleOnly, BatchSteps, ControlInv
  <2> QED BY <1>1, <1>2, <1>6, <2>1, <2>2, ControlKept DEF outside
<1>15. ASSUME NEW i \in 1..Len(Order(r)), NEW s \in Slot, Order(r)[i] = s
       PROVE  SlotInv(r, i, s)'
  <2>1. SlotInv(r, i, s) /\ (i = cur[r] <=> s = s0) /\ cur[r] \in Nat /\ cur[r] >= 1 /\ i \in Nat
    BY <1>0, <1>1, <1>15, OrderFacts DEF RunInv
  <2>2. pc'[r] \notin Before /\ runStatus'[r] # "ok" /\ callback'[r] = "none"
    BY <1>1, <1>2, <1>6, <1>11, Labels DEF Before, ControlInv, runs, outside
  <2>3. /\ i < cur[r] => Decided(r, s)'
        /\ i = cur[r] => Decided(r, s)'
        /\ i > cur[r] /\ path[r] = "batch" => Batched(r, s)'
        /\ i > cur[r] /\ path[r] # "batch" => Waiting(r, s)'
        /\ i = 1 => Untouched(r, "batch", s)'
    <3>1. CASE i = cur[r]
      BY <2>1, <3>1, <1>7, <1>8
    <3>2. CASE i # cur[r]
      <4>1. SameSlot(r, s)
        BY <2>1, <3>2, <1>5
      <4> QED BY <2>1, <3>2, <4>1, <1>1, SameSlotFacts DEF SlotInv, Path
    <3> QED BY <3>1, <3>2
  <2>4. CASE pc'[r] = "roll_up"
    <3>1. i <= cur[r]
      BY <1>1, <1>11, <2>4, OrderFacts DEF IsLast
    <3> QED BY <2>1, <2>2, <2>3, <2>4, <3>1 DEF SlotInv, SlotSteps, BatchSteps, Ended
  <2>5. CASE pc'[r] = "batch_insert"
    BY <1>11, <2>1, <2>2, <2>3, <2>5 DEF SlotInv, SlotSteps, BatchSteps, Ended
  <2>6. CASE pc'[r] \in {"mark_generated", "insert"}
    <3>1. /\ cur'[r] = cur[r] + 1 /\ path'[r] = path[r]
          /\ path[r] = "batch" <=> pc'[r] = "mark_generated"
      BY <1>11, <2>6
    <3>2. i = cur'[r] => Working(r, s)'
      BY <1>3, <2>1, <2>3, <2>6, <3>1, StartsWorking DEF Path
    <3> QED
      BY <2>1, <2>2, <2>3, <2>6, <3>1, <3>2 DEF SlotInv, SlotSteps, BatchSteps, Ended
  <2> QED BY <1>11, <2>4, <2>5, <2>6
<1> QED
  BY <1>10, <1>12, <1>13, <1>14, <1>15 DEF RunInv

LEMMA BatchLoopSteps ==
  ASSUME TypeInv, NEW r \in Run, RunInv(r), BatchInsert(r) \/ BatchAbort(r)
  PROVE  RunInv(r)'
<1>0. PICK s0 \in Slot : s0 = SlotOf(r)
  <2>1. pc[r] # "idle"
    BY DEF BatchInsert, BatchAbort
  <2> QED BY <2>1, OrderFacts
<1>1. /\ pc[r] \in {"batch_insert", "batch_abort"} /\ pc[r] \notin SlotSteps /\ pc[r] # "idle"
      /\ pc[r] \in TryBlock /\ pc[r] \in BatchSteps
      /\ pc[r] = "batch_insert" <=> BatchInsert(r)
  BY Labels DEF BatchInsert, BatchAbort, SlotSteps
<1>2. UNCHANGED <<runs, flagged, toolCalls, outside, process, pack, summary, conditionedOn>>
  BY DEF BatchInsert, BatchAbort, SetRow
<1>3. /\ AssetOf(r) = <<r, path[r], s0>> /\ AssetOf(r) \in Asset /\ path[r] \in Path
      /\ row \in [Asset -> RowStatus] /\ pc \in [Run -> PC]
      /\ cur \in [Run -> Nat \ {0}] /\ path \in [Run -> Path] /\ cur[r] >= 2
  BY <1>0, <1>1, AssetFacts DEF TypeInv, TypeOK, PositionOK
<1>4. ControlInv(r) /\ path[r] = "batch" /\ RowInv(r, s0)
  BY <1>1, <1>3 DEF RunInv, ControlInv
<1>5. row' = [row EXCEPT ![AssetOf(r)] = IF pc[r] = "batch_insert" THEN "pending" ELSE "failed"]
  BY <1>1 DEF BatchInsert, BatchAbort, SetRow
<1>6. ASSUME NEW s \in Slot \ {s0} PROVE SameSlot(r, s)
  <2>1. \A p \in Path : <<r, p, s>> # AssetOf(r) /\ <<r, p, s>> \in Asset
    BY <1>3, AssetShape
  <2> QED BY <1>2, <1>3, <1>5, <2>1 DEF SameSlot, outside, Keyed
<1>7. SlotInv(r, cur[r], s0) /\ Order(r)[cur[r]] = s0
  BY <1>0, <1>1, OrderFacts DEF RunInv
<1>8. /\ pc[r] = "batch_insert" => Waiting(r, s0)
      /\ pc[r] = "batch_abort" => Batched(r, s0)
  BY <1>1, <1>3, <1>7 DEF SlotInv
<1>9. /\ row'[<<r, "single", s0>>] = row[<<r, "single", s0>>]
      /\ row'[<<r, "batch", s0>>] = IF pc[r] = "batch_insert" THEN "pending" ELSE "failed"
  <2>1. <<r, "single", s0>> # AssetOf(r) /\ <<r, "single", s0>> \in Asset
    BY <1>3, <1>4, AssetShape DEF Path
  <2> QED BY <1>3, <1>4, <1>5, <2>1
<1>10. /\ pc[r] = "batch_insert" => Batched(r, s0)'
       /\ pc[r] = "batch_abort" => Waiting(r, s0)'
  BY <1>2, <1>8, <1>9 DEF Waiting, Batched, Untouched, BatchIdle
<1>11. \A h \in Slot : summary[r][h] = "uploaded" => SameSlot(r, h)
  BY <1>1, <1>6, <1>8 DEF Waiting, Batched
<1>12. Order(r)' = Order(r) /\ pack' = pack
  BY <1>2 DEF Order
<1>13. \/ ~IsLast(r) /\ cur'[r] = cur[r] + 1 /\ pc' = pc /\ path'[r] = "batch"
       \/ /\ IsLast(r) /\ cur'[r] = 2
          /\ \/ pc[r] = "batch_insert" /\ pc'[r] = "batch_generate" /\ path'[r] = "batch"
             \/ pc[r] = "batch_abort" /\ pc'[r] = "insert" /\ path'[r] = "single"
  <2>1. CASE BatchInsert(r)
    BY <2>1, <1>1, <1>3, <1>4 DEF BatchInsert, LoopRemainder, Goto
  <2>2. CASE BatchAbort(r)
    BY <2>2, <1>1, <1>3, <1>4 DEF BatchAbort, LoopRemainder, Goto
  <2> QED BY <2>1, <2>2
<1>14. pc'[r] # "idle"
  BY <1>1, <1>13
<1>15. RowInv(r, s0)'
  <2>1. \A p \in Path : <<r, p, s0>> \in conditionedOn =>
          /\ s0 # pack[r].hero /\ summary[r][pack[r].hero] = "uploaded"
          /\ row[<<r, "single", pack[r].hero>>] = "uploaded"
    BY <1>4 DEF RowInv
  <2>2. summary[r][pack[r].hero] = "uploaded" =>
          row'[<<r, "single", pack[r].hero>>] = row[<<r, "single", pack[r].hero>>]
    BY <1>1, <1>11, OrderFacts DEF SameSlot, Path
  <2>3. HasSlot(pack[r], s0)
    BY <1>0, <1>1, OrderFacts
  <2>4. /\ \A p \in Path : row'[<<r, p, s0>>] # "uploaded" /\ toolCalls'[<<r, p, s0>>] # "ok"
        /\ row'[<<r, "single", s0>>] = "absent"
    BY <1>1, <1>10 DEF Waiting, Batched, Untouched, BatchIdle, Path
  <2> QED
    BY <1>2, <1>14, <2>1, <2>2, <2>3, <2>4 DEF RowInv
<1>16. ASSUME NEW s \in Slot \ {s0} PROVE RowInv(r, s)'
  BY <1>1, <1>2, <1>6, <1>11, <1>12, <1>14, RowInvKept
<1>17. ControlInv(r)'
  <2>1. pc'[r] \in SlotSteps \cup BatchSteps \cup {"roll_up"}
    BY <1>1, <1>13 DEF SlotSteps, BatchSteps
  <2>2. /\ pc'[r] \in SingleOnly => path'[r] = "single"
        /\ pc'[r] \in BatchSteps => path'[r] = "batch"
        /\ pc'[r] = "batch_generate" => cur'[r] = 2
        /\ path'[r] = "batch" => cur'[r] >= 2
    BY <1>1, <1>3, <1>13 DEF SingleOnly, BatchSteps
  <2> QED BY <1>1, <1>2, <1>4, <2>1, <2>2, ControlKept DEF outside
<1>18. ASSUME NEW i \in 1..Len(Order(r)), NEW s \in Slot, Order(r)[i] = s
       PROVE  SlotInv(r, i, s)'
  <2>1. /\ SlotInv(r, i, s) /\ (i = cur[r] <=> s = s0) /\ i \in Nat /\ i >= 1
        /\ IsLast(r) => i <= cur[r]
    BY <1>0, <1>1, <1>18, OrderFacts DEF RunInv, IsLast
  <2>2. pc'[r] \notin Before \cup Ended /\ runStatus'[r] # "ok" /\ callback'[r] = "none"
    BY <1>1, <1>2, <1>4, <1>13, Labels DEF Before, Ended, ControlInv, runs, outside
  <2>3. /\ i = 1 => Decided(r, s)' /\ Untouched(r, "batch", s)'
        /\ pc[r] = "batch_insert" /\ i > 1 =>
             IF i <= cur[r] THEN Batched(r, s)' ELSE Waiting(r, s)'
        /\ pc[r] = "batch_abort" /\ i > 1 =>
             IF i <= cur[r] THEN Waiting(r, s)' ELSE Batched(r, s)'
    <3>1. CASE i = cur[r]
      BY <1>3, <2>1, <3>1, <1>10
    <3>2. CASE i # cur[r]
      <4>1. SameSlot(r, s)
        BY <2>1, <3>2, <1>6
      <4> QED BY <1>3, <2>1, <3>2, <4>1, <1>1, SameSlotFacts DEF SlotInv, Path
    <3> QED BY <3>1, <3>2
  <2>4. CASE ~IsLast(r)
    BY <1>1, <1>3, <1>13, <2>1, <2>2, <2>3, <2>4 DEF SlotInv, SlotSteps, BatchSteps
  <2>5. CASE IsLast(r) /\ pc[r] = "batch_insert"
    BY <1>1, <1>3, <1>13, <2>1, <2>2, <2>3, <2>5 DEF SlotInv, SlotSteps, BatchSteps
  <2>6. CASE IsLast(r) /\ pc[r] = "batch_abort"
    <3>1. pc'[r] = "insert" /\ path'[r] = "single" /\ cur'[r] = 2
      BY <1>13, <2>6
    <3>2. i = 2 => Working(r, s)'
      BY <2>1, <2>3, <2>6, <3>1, StartsWorking
    <3> QED BY <2>1, <2>2, <2>3, <2>6, <3>1, <3>2 DEF SlotInv, SlotSteps, BatchSteps
  <2> QED BY <1>1, <2>4, <2>5, <2>6
<1> QED
  BY <1>12, <1>15, <1>16, <1>17, <1>18 DEF RunInv

(* The answer of the batch call. *)
LEMMA BatchAnswerSteps ==
  ASSUME TypeInv, NEW r \in Run, RunInv(r), BatchSucceeds(r) \/ BatchFails(r)
  PROVE  RunInv(r)'
<1>1. /\ pc[r] = "batch_generate" /\ pc[r] \in TryBlock /\ pc[r] \in BatchSteps
      /\ pc'[r] \in {"mark_generated", "batch_abort"}
      /\ UNCHANGED <<runs, assets, outside, process, locals>>
  BY AssetFacts, Labels DEF BatchSucceeds, BatchFails, Moves, Goto
<1>2. path[r] = "batch" /\ cur[r] = 2 /\ ControlInv(r)
  BY <1>1 DEF RunInv, ControlInv
<1>3. \A s \in Slot : SameSlot(r, s)
  BY <1>1 DEF SameSlot, assets, outside, Keyed, locals
<1>4. Order(r)' = Order(r) /\ pack' = pack
  BY <1>1 DEF Order, locals
<1>5. ASSUME NEW s \in Slot PROVE RowInv(r, s)'
  BY <1>1, <1>3, <1>4, RowInvKept DEF locals
<1>6. ControlInv(r)'
  <2>1. pc'[r] \in SlotSteps \cup BatchSteps /\ pc'[r] \notin SingleOnly /\ pc'[r] # "batch_generate"
    BY <1>1 DEF SlotSteps, BatchSteps, SingleOnly
  <2> QED BY <1>1, <1>2, <2>1, ControlKept DEF locals, outside
<1>7. ASSUME NEW i \in 1..Len(Order(r)), NEW s \in Slot, Order(r)[i] = s
      PROVE  SlotInv(r, i, s)'
  <2>1. SlotInv(r, i, s) /\ i \in Nat /\ i >= 1
    BY <1>1, <1>7, OrderFacts DEF RunInv
  <2>2. /\ i = 1 => Decided(r, s)' /\ Untouched(r, "batch", s)'
        /\ i > 1 => Batched(r, s)'
    BY <1>1, <1>3, <2>1, SameSlotFacts DEF SlotInv, Path
  <2>3. /\ pc'[r] \notin Before \cup Ended /\ runStatus'[r] # "ok" /\ callback'[r] = "none"
        /\ path'[r] = "batch" /\ cur'[r] = 2
    BY <1>1, <1>2, Labels DEF Before, Ended, ControlInv, runs, outside, locals
  <2>4. CASE pc'[r] = "mark_generated"
    <3>1. i = 2 => Working(r, s)'
      BY <2>2, <2>3, <2>4, StartsWorking
    <3> QED BY <2>1, <2>2, <2>3, <2>4, <3>1 DEF SlotInv, SlotSteps, BatchSteps
  <2>5. CASE pc'[r] = "batch_abort"
    BY <2>1, <2>2, <2>3, <2>5 DEF SlotInv, SlotSteps, BatchSteps
  <2> QED BY <1>1, <2>4, <2>5
<1> QED
  BY <1>4, <1>5, <1>6, <1>7 DEF RunInv

-----------------------------------------------------------------------------
(* The start and the end of a run, where no row changes. *)

(* The rows of a run whose slots the step leaves alone. *)
LEMMA RowsKept ==
  ASSUME TypeInv, NEW r \in Run, RunInv(r), pc[r] # "idle", pc'[r] # "idle",
         UNCHANGED <<assets, Keyed, pack, summary, conditionedOn>>
  PROVE  /\ \A s \in Slot : RowInv(r, s)' /\ SameSlot(r, s)
         /\ Order(r)' = Order(r) /\ OkCalls(r)' = OkCalls(r)
         /\ PackStatusOf(r)' = PackStatusOf(r)
<1>1. \A s \in Slot : SameSlot(r, s)
  BY DEF SameSlot, assets
<1>2. \A s \in Slot : RowInv(r, s)'
  BY <1>1, RowInvKept
<1>3. Order(r)' = Order(r) /\ OkCalls(r)' = OkCalls(r) /\ PackStatusOf(r)' = PackStatusOf(r)
  BY <1>1, SameOkCalls DEF Order, PackStatusOf, SlotsOf
<1> QED BY <1>1, <1>2, <1>3

LEMMA AcceptStep ==
  ASSUME TypeInv, NEW r \in Run, RunInv(r), NEW p \in Packs, AcceptPack(r, p)
  PROVE  RunInv(r)'
<1>1. /\ pc[r] = "idle" /\ pc'[r] = "accepted" /\ runStatus'[r] = "running"
      /\ UNCHANGED <<finished, costBasis, assets, outside, process,
                     path, cur, attempt, summary, conditionedOn>>
  BY DEF AcceptPack, Goto, TypeInv, TypeOK
<1>2. \A s \in Slot : SameSlot(r, s)
  BY <1>1 DEF SameSlot, assets, outside, Keyed
<1>3. ASSUME NEW s \in Slot
      PROVE  Fresh(r, s)' /\ Untouched(r, "batch", s)' /\ (\A q \in Path : <<r, q, s>> \notin conditionedOn')
  <2>1. Fresh(r, s) /\ (\A q \in Path : <<r, q, s>> \notin conditionedOn)
    BY <1>1 DEF RunInv, RowInv
  <2> QED BY <1>1, <1>2, <2>1, SameSlotFacts DEF Fresh
<1>4. ASSUME NEW s \in Slot PROVE RowInv(r, s)'
  BY <1>3 DEF RowInv, Fresh, Untouched, Path
<1>c. ControlInv(r) /\ path[r] = "single" /\ cur[r] = 1 /\ callback[r] = "none"
  BY <1>1 DEF RunInv, ControlInv, Before
<1>5. ControlInv(r)'
  BY <1>1, <1>c, Labels DEF ControlInv, Before, SingleOnly, outside
<1>6. ASSUME NEW i \in 1..Len(Order(r)'), NEW s \in Slot PROVE SlotInv(r, i, s)'
  BY <1>1, <1>3, <1>c DEF SlotInv, Before, SlotSteps, BatchSteps, Ended, outside
<1> QED BY <1>4, <1>5, <1>6 DEF RunInv

(* The task is spawned, and gets its permit. *)
LEMMA StartSteps ==
  ASSUME TypeInv, NEW r \in Run, RunInv(r), SpawnTask(r) \/ AcquirePermit(r)
  PROVE  RunInv(r)'
<1>1. /\ \/ pc[r] = "accepted" /\ pc'[r] = "acquire"
         \/ pc[r] = "acquire" /\ pc'[r] = "insert"
      /\ UNCHANGED <<runs, assets, outside, locals>>
  BY DEF SpawnTask, AcquirePermit, Moves, Goto, TypeInv, TypeOK
<1>2. /\ \A s \in Slot : RowInv(r, s)' /\ SameSlot(r, s)
      /\ Order(r)' = Order(r)
  BY <1>1, RowsKept DEF outside, Keyed, locals
<1>3. /\ ControlInv(r) /\ path[r] = "single" /\ cur[r] = 1 /\ runStatus[r] = "running"
      /\ callback[r] = "none"
  BY <1>1 DEF RunInv, ControlInv, Before
<1>4. ControlInv(r)'
  BY <1>1, <1>3, Labels DEF ControlInv, Before, SingleOnly, runs, outside, locals
<1>5. ASSUME NEW i \in 1..Len(Order(r)), NEW s \in Slot, Order(r)[i] = s
      PROVE  SlotInv(r, i, s)'
  <2>1. Fresh(r, s) /\ i \in Nat /\ i >= 1
    BY <1>1, <1>5, OrderFacts DEF RunInv, SlotInv, Before
  <2>2. Fresh(r, s)'
    BY <1>2, <2>1, SameSlotFacts
  <2>3. Waiting(r, s)' /\ Untouched(r, "batch", s)'
    BY <2>2 DEF Fresh, Waiting, Untouched, BatchIdle
  <2>4. path'[r] = "single" /\ cur'[r] = 1 /\ runStatus'[r] = "running" /\ callback'[r] = "none"
    BY <1>1, <1>3 DEF runs, outside, locals
  <2>5. CASE pc'[r] = "acquire"
    BY <2>2, <2>3, <2>4, <2>5 DEF SlotInv, Before, SlotSteps, BatchSteps, Ended
  <2>6. CASE pc'[r] = "insert"
    <3>1. Working(r, s)'
      BY <2>3, <2>4, <2>6, StartsWorking
    <3> QED BY <2>1, <2>3, <2>4, <2>6, <3>1 DEF SlotInv, Before, SlotSteps, BatchSteps, Ended
  <2> QED BY <1>1, <2>5, <2>6
<1> QED BY <1>1, <1>2, <1>4, <1>5 DEF RunInv

(* A task that leaves the try block, or never got there, for good. *)
LEMMA LeavingSteps ==
  ASSUME TypeInv, NEW r \in Run, RunInv(r), pc[r] # "idle",
         pc'[r] \in {"except", "release", "done", "dead"},
         UNCHANGED <<assets, Keyed, pack, path, cur, summary, conditionedOn, costBasis, callback>>,
         \/ runStatus'[r] = runStatus[r] /\ (r \in finished' <=> r \in finished)
         \/ pc[r] = "except" /\ runStatus'[r] = "failed" /\ r \in finished',
         pc'[r] = "except" => /\ runStatus'[r] = runStatus[r]
                              /\ \/ pc[r] \in TryBlock
                                 \/ pc[r] = "callback" /\ "cancel" \in Faults
  PROVE  RunInv(r)'
<1>1. /\ \A s \in Slot : RowInv(r, s)' /\ SameSlot(r, s)
      /\ Order(r)' = Order(r) /\ OkCalls(r)' = OkCalls(r)
      /\ PackStatusOf(r)' = PackStatusOf(r)
  BY RowsKept
<1>2. pc'[r] \notin SlotSteps \cup BatchSteps \cup Ended \cup Before \cup SingleOnly \cup TryBlock
  BY Labels DEF SlotSteps, BatchSteps, Ended, Before, SingleOnly
<1>3. ControlInv(r) /\ (pc[r] \in TryBlock => runStatus[r] = "running")
      /\ (pc[r] \in TryBlock => pc[r] \notin {"callback", "release", "done", "dead"})
  BY Labels DEF RunInv, ControlInv
<1>4. ControlInv(r)'
  BY <1>1, <1>2, <1>3 DEF ControlInv
<1>5. ASSUME NEW i \in 1..Len(Order(r)), NEW s \in Slot, Order(r)[i] = s
      PROVE  SlotInv(r, i, s)'
  <2>1. /\ i = 1 => Untouched(r, "batch", s)
        /\ runStatus[r] = "ok" \/ callback[r] # "none" => Decided(r, s)
    BY <1>5 DEF RunInv, SlotInv
  <2>2. /\ runStatus'[r] = "ok" => runStatus[r] = "ok"
        /\ callback'[r] # "none" => callback[r] # "none"
    OBVIOUS
  <2> QED BY <1>1, <1>2, <2>1, <2>2, SameSlotFacts DEF SlotInv, Path
<1> QED BY <1>1, <1>4, <1>5 DEF RunInv

LEMMA EndSteps ==
  ASSUME TypeInv, NEW r \in Run, RunInv(r), RollUpCost(r) \/ MarkRunOk(r)
  PROVE  RunInv(r)'
<1>1. /\ \/ pc[r] = "roll_up" /\ pc'[r] = "mark_ok" /\ costBasis'[r] = OkCalls(r) /\ runStatus' = runStatus
         \/ pc[r] = "mark_ok" /\ pc'[r] = "callback" /\ costBasis' = costBasis /\ runStatus'[r] = "ok"
      /\ UNCHANGED <<assets, outside, locals>>
      /\ r \in finished'
  BY DEF RollUpCost, MarkRunOk, CloseRun, Goto, TypeInv, TypeOK
<1>2. /\ \A s \in Slot : RowInv(r, s)' /\ SameSlot(r, s)
      /\ Order(r)' = Order(r) /\ OkCalls(r)' = OkCalls(r)
  BY <1>1, RowsKept DEF outside, Keyed, locals
<1>3. ControlInv(r)'
  <2>1. /\ ControlInv(r) /\ callback[r] = "none"
        /\ pc[r] = "roll_up" => runStatus[r] = "running"
    BY <1>1, Labels DEF RunInv, ControlInv
  <2> QED BY <1>1, <1>2, <2>1, Labels DEF ControlInv, Before, SingleOnly, outside, locals
<1>4. ASSUME NEW i \in 1..Len(Order(r)), NEW s \in Slot, Order(r)[i] = s
      PROVE  SlotInv(r, i, s)'
  <2>1. Decided(r, s) /\ (i = 1 => Untouched(r, "batch", s))
    BY <1>1, <1>4 DEF RunInv, SlotInv, Ended
  <2>2. Decided(r, s)' /\ (i = 1 => Untouched(r, "batch", s)')
    BY <1>2, <2>1, SameSlotFacts DEF Path
  <2>3. /\ pc'[r] \notin SlotSteps \cup BatchSteps \cup Before
        /\ pc'[r] \notin {"batch_insert", "batch_generate", "batch_abort"}
    BY <1>1 DEF SlotSteps, BatchSteps, Before
  <2> QED BY <2>2, <2>3 DEF SlotInv
<1> QED BY <1>1, <1>2, <1>3, <1>4 DEF RunInv

LEMMA CallbackStep ==
  ASSUME TypeInv, NEW r \in Run, RunInv(r), NEW next \in {"release", "except"},
         SendCallback(r, next), next = "except" => "cancel" \in Faults
  PROVE  RunInv(r)'
<1>1. /\ pc[r] = "callback" /\ pc'[r] = next /\ callback'[r] = PackStatusOf(r)
      /\ UNCHANGED <<runs, assets, Keyed, locals>>
  BY DEF SendCallback, Goto, stored, Keyed, TypeInv, TypeOK
<1>2. /\ \A s \in Slot : RowInv(r, s)' /\ SameSlot(r, s)
      /\ Order(r)' = Order(r) /\ OkCalls(r)' = OkCalls(r)
      /\ PackStatusOf(r)' = PackStatusOf(r)
  BY <1>1, RowsKept DEF locals
<1>3. ControlInv(r)'
  <2>1. ControlInv(r) /\ runStatus[r] = "ok"
    BY <1>1 DEF RunInv, ControlInv
  <2> QED BY <1>1, <1>2, <2>1, Labels DEF ControlInv, Before, SingleOnly, runs, locals
<1>4. ASSUME NEW i \in 1..Len(Order(r)), NEW s \in Slot, Order(r)[i] = s
      PROVE  SlotInv(r, i, s)'
  <2>1. Decided(r, s) /\ (i = 1 => Untouched(r, "batch", s))
    BY <1>1, <1>4 DEF RunInv, SlotInv, Ended
  <2>2. Decided(r, s)' /\ (i = 1 => Untouched(r, "batch", s)')
    BY <1>2, <2>1, SameSlotFacts DEF Path
  <2>3. /\ pc'[r] \notin SlotSteps \cup BatchSteps \cup Before
        /\ pc'[r] \notin {"batch_insert", "batch_generate", "batch_abort"}
    BY <1>1 DEF SlotSteps, BatchSteps, Before
  <2> QED BY <2>2, <2>3 DEF SlotInv
<1> QED BY <1>1, <1>2, <1>3, <1>4 DEF RunInv

-----------------------------------------------------------------------------
(* The induction. *)

(* Everything a run does, its request and its task. *)
StepOf(r) == \/ \E p \in Packs : AcceptPack(r, p)
             \/ SpawnTask(r) \/ AbandonRequest(r) \/ AcquirePermit(r) \/ Task(r)
             \/ Cancel(r)

(* No run writes what belongs to another. *)
LEMMA StepFrame ==
  ASSUME TypeInv, NEW r \in Run, NEW q \in Run \ {r}, StepOf(r)
  PROVE  SameRun(q)
<1>0. AssetOf(r)[1] = r
  BY DEF AssetOf
<1>types. /\ pc \in [Run -> PC] /\ path \in [Run -> Path] /\ cur \in [Run -> Nat \ {0}]
          /\ pack \in [Run -> Packs \cup {NoPack}]
          /\ summary \in [Run -> [Slot -> {"none", "uploaded", "failed"}]]
          /\ runStatus \in [Run -> RunStatus] /\ costBasis \in [Run -> SUBSET Asset]
          /\ callback \in [Run -> PackStatus \cup {"none"}]
          /\ row \in [Asset -> RowStatus] /\ toolCalls \in [Asset -> {"none", "ok", "error"}]
  BY DEF TypeInv, TypeOK
<1> USE DEF Goto
<1>a. \/ \E p \in Packs : AcceptPack(r, p)
      \/ AcquirePermit(r) \/ InsertPending(r) \/ ProviderSucceeds(r)
      \/ (ProviderFails(r) /\ pc' = pc) \/ (\E from, to \in PC : Moves(r, from, to))
      \/ MarkFailed(r) \/ RecordErrorCall(r)
      \/ MarkGenerated(r) \/ Upload(r) \/ MarkUploaded(r) \/ FlagDrift(r)
      \/ RecordOkCall(r) \/ BatchInsert(r) \/ BatchAbort(r)
      \/ RollUpCost(r) \/ MarkRunOk(r) \/ (\E next \in PC : SendCallback(r, next)) \/ RecordFailure(r) \/ ReleasePermit(r)
  BY Labels DEF StepOf, Task, SpawnTask, AbandonRequest, ProviderFails, BatchSucceeds, BatchFails,
     EmitCallback, LoseCallback, Raise, LoseFailure, Cancel
<1>1. pc'[q] = pc[q] /\ pack'[q] = pack[q]
  BY <1>a, <1>types DEF AcceptPack, AcquirePermit, InsertPending, ProviderSucceeds, ProviderFails,
     Moves, MarkFailed, RecordErrorCall, MarkGenerated, Upload, MarkUploaded, FlagDrift,
     RecordOkCall, BatchInsert, BatchAbort, RollUpCost, MarkRunOk, SendCallback, RecordFailure,
     ReleasePermit, Record, NextSlot, LoopRemainder, CloseRun, locals
<1>2. path'[q] = path[q] /\ cur'[q] = cur[q]
  BY <1>a, <1>types DEF AcceptPack, AcquirePermit, InsertPending, ProviderSucceeds, ProviderFails,
     Moves, MarkFailed, RecordErrorCall, MarkGenerated, Upload, MarkUploaded, FlagDrift,
     RecordOkCall, BatchInsert, BatchAbort, RollUpCost, MarkRunOk, SendCallback, RecordFailure,
     ReleasePermit, Record, NextSlot, LoopRemainder, CloseRun, locals
<1>3. summary'[q] = summary[q] /\ callback'[q] = callback[q]
  BY <1>a, <1>types DEF AcceptPack, AcquirePermit, InsertPending, ProviderSucceeds, ProviderFails,
     Moves, MarkFailed, RecordErrorCall, MarkGenerated, Upload, MarkUploaded, FlagDrift,
     RecordOkCall, BatchInsert, BatchAbort, RollUpCost, MarkRunOk, SendCallback, RecordFailure,
     ReleasePermit, Record, NextSlot, SetRow, CloseRun, locals, outside
<1>4. runStatus'[q] = runStatus[q] /\ costBasis'[q] = costBasis[q] /\ (q \in finished' <=> q \in finished)
  BY <1>a, <1>types DEF AcceptPack, AcquirePermit, InsertPending, ProviderSucceeds, ProviderFails,
     Moves, MarkFailed, RecordErrorCall, MarkGenerated, Upload, MarkUploaded, FlagDrift,
     RecordOkCall, BatchInsert, BatchAbort, RollUpCost, MarkRunOk, SendCallback, RecordFailure,
     ReleasePermit, Record, SetRow, CloseRun, runs
<1>5. /\ row' = row \/ \E v \in RowStatus : row' = [row EXCEPT ![AssetOf(r)] = v]
      /\ toolCalls' = toolCalls \/ \E v \in {"ok", "error"} : toolCalls' = [toolCalls EXCEPT ![AssetOf(r)] = v]
  BY <1>a DEF AcceptPack, AcquirePermit, InsertPending, ProviderSucceeds, ProviderFails,
     Moves, MarkFailed, RecordErrorCall, MarkGenerated, Upload, MarkUploaded, FlagDrift,
     RecordOkCall, BatchInsert, BatchAbort, RollUpCost, MarkRunOk, SendCallback, RecordFailure,
     ReleasePermit, Record, SetRow, CloseRun, assets, RowStatus
<1>6. /\ flagged' = flagged \/ flagged' = flagged \cup {AssetOf(r)}
      /\ conditionedOn' = conditionedOn \/ conditionedOn' = conditionedOn \cup {AssetOf(r)}
  BY <1>a DEF AcceptPack, AcquirePermit, InsertPending, ProviderSucceeds, ProviderFails,
     Moves, MarkFailed, RecordErrorCall, MarkGenerated, Upload, MarkUploaded, FlagDrift,
     RecordOkCall, BatchInsert, BatchAbort, RollUpCost, MarkRunOk, SendCallback, RecordFailure,
     ReleasePermit, Record, SetRow, CloseRun, assets, outside, locals
<1>k. Keyed' = Keyed \/ Keyed' = Keyed \cup {AssetOf(r)}
  BY <1>a DEF AcceptPack, AcquirePermit, InsertPending, ProviderSucceeds, ProviderFails,
     Moves, MarkFailed, RecordErrorCall, MarkGenerated, Upload, MarkUploaded, FlagDrift,
     RecordOkCall, BatchInsert, BatchAbort, RollUpCost, MarkRunOk, SendCallback, RecordFailure,
     ReleasePermit, Record, SetRow, CloseRun, outside, stored, Keyed
<1>7. ASSUME NEW p \in Path, NEW s \in Slot
      PROVE  /\ row'[<<q, p, s>>] = row[<<q, p, s>>]
             /\ toolCalls'[<<q, p, s>>] = toolCalls[<<q, p, s>>]
             /\ <<q, p, s>> \in flagged' <=> <<q, p, s>> \in flagged
             /\ <<q, p, s>> \in Keyed' <=> <<q, p, s>> \in Keyed
             /\ <<q, p, s>> \in conditionedOn' <=> <<q, p, s>> \in conditionedOn
  <2>1. <<q, p, s>> \in Asset /\ <<q, p, s>> # AssetOf(r)
    BY <1>0, AssetShape
  <2> QED BY <2>1, <1>5, <1>6, <1>k, <1>types
<1> QED
  BY <1>1, <1>2, <1>3, <1>4, <1>7 DEF SameRun, SameSlot

LEMMA StepKeepsRun ==
  ASSUME TypeInv, NEW r \in Run, RunInv(r), StepOf(r)
  PROVE  RunInv(r)'
<1>1. ASSUME \/ AbandonRequest(r) \/ LoseCallback(r) \/ Raise(r) \/ LoseFailure(r)
             \/ RecordFailure(r) \/ ReleasePermit(r)
             \/ Cancel(r) /\ ~SendCallback(r, "except")
      PROVE  RunInv(r)'
  <2>1. /\ pc[r] # "idle" /\ pc'[r] \in {"except", "release", "done", "dead"}
        /\ UNCHANGED <<assets, Keyed, pack, path, cur, summary, conditionedOn, costBasis, callback>>
        /\ \/ runStatus'[r] = runStatus[r] /\ finished' = finished
           \/ /\ pc[r] = "except" /\ runStatus'[r] = "failed" /\ r \in finished'
        /\ pc'[r] = "except" => /\ runStatus'[r] = runStatus[r]
                                /\ \/ pc[r] \in TryBlock
                                   \/ pc[r] = "callback" /\ "cancel" \in Faults
    BY <1>1, AssetFacts, Labels DEF AbandonRequest, LoseCallback, Raise, LoseFailure, RecordFailure,
       ReleasePermit, Cancel, Moves, CloseRun, Goto, runs, outside, Keyed, locals, TypeInv, TypeOK
  <2> QED BY <2>1, LeavingSteps
<1>2. ASSUME EmitCallback(r) \/ (Cancel(r) /\ SendCallback(r, "except"))
      PROVE  RunInv(r)'
  BY <1>2, CallbackStep DEF EmitCallback, Cancel
<1> QED
  BY <1>1, <1>2, AcceptStep, StartSteps, WorkSteps, RecordSteps, BatchLoopSteps,
     BatchAnswerSteps, EndSteps DEF StepOf, Task

LEMMA InitWorkerInv == Init => WorkerInv
<1> SUFFICES ASSUME Init, NEW r \in Run PROVE RunInv(r)
  BY DEF WorkerInv
<1>1. \A s \in Slot : Fresh(r, s)
  BY DEF Init, Fresh, Untouched, Asset, Path
<1>2. \A s \in Slot : RowInv(r, s)
  BY <1>1 DEF Init, RowInv, Fresh, Untouched, Path
<1>3. ControlInv(r)
  BY Labels DEF Init, ControlInv, SingleOnly, Before
<1> QED BY <1>2, <1>3 DEF Init, RunInv

LEMMA NextWorkerInv == TypeInv /\ WorkerInv /\ [Next]_vars => WorkerInv'
<1> SUFFICES ASSUME TypeInv, WorkerInv, [Next]_vars, NEW q \in Run PROVE RunInv(q)'
  BY DEF WorkerInv
<1>0. RunInv(q)
  BY DEF WorkerInv
<1>1. ASSUME NEW r \in Run, StepOf(r) PROVE RunInv(q)'
  <2>1. CASE q = r
    BY <1>0, <1>1, <2>1, StepKeepsRun
  <2>2. CASE q # r
    BY <1>0, <1>1, <2>2, StepFrame, OtherRun
  <2> QED BY <2>1, <2>2
<1>2. ASSUME UNCHANGED <<runs, assets, outside, pc, locals>> PROVE RunInv(q)'
  <2>1. SameRun(q)
    BY <1>2 DEF SameRun, SameSlot, runs, assets, outside, Keyed, locals
  <2> QED BY <1>0, <2>1, OtherRun
<1>3. CASE Crash
  <2>1. CASE pc[q] \in Live
    <3>1. /\ pc[q] # "idle" /\ pc'[q] = "dead"
          /\ UNCHANGED <<assets, Keyed, pack, path, cur, summary, conditionedOn, costBasis, callback>>
          /\ runStatus' = runStatus /\ finished' = finished
      BY <1>3, <2>1, Labels DEF Crash, runs, outside, Keyed, locals
    <3> QED BY <1>0, <3>1, LeavingSteps
  <2>2. CASE pc[q] \notin Live
    <3>1. SameRun(q)
      BY <1>3, <2>2 DEF Crash, SameRun, SameSlot, runs, assets, outside, Keyed, locals
    <3> QED BY <1>0, <3>1, OtherRun
  <2> QED BY <2>1, <2>2
<1>4. CASE Restart
  BY <1>2, <1>4 DEF Restart
<1>5. CASE UNCHANGED vars
  BY <1>2, <1>5 DEF vars
<1> QED
  BY <1>1, <1>3, <1>4, <1>5 DEF Next, Quiescent, StepOf

(* The inductive invariant of the worker. *)
THEOREM WorkerCorrect == Spec => []WorkerInv
<1>1. Init => WorkerInv
  BY InitWorkerInv
<1>2. TypeInv /\ WorkerInv /\ [Next]_vars => WorkerInv'
  BY NextWorkerInv
<1> QED
  BY <1>1, <1>2, TypeCorrect, PTL DEF Spec, TypeInv

-----------------------------------------------------------------------------
(* What the invariant says. *)

LEMMA SlotOutcome ==
  ASSUME TypeInv, WorkerInv, NEW r \in Run, NEW s \in Slot,
         runStatus[r] = "ok" \/ callback[r] # "none"
  PROVE  /\ pc[r] # "idle" /\ pack[r] \in Packs
         /\ HasSlot(pack[r], s) => Decided(r, s)
         /\ ~HasSlot(pack[r], s) => Fresh(r, s)
<1>1. ControlInv(r) /\ RowInv(r, s)
  BY DEF WorkerInv, RunInv
<1>2. pc[r] # "idle"
  BY <1>1 DEF ControlInv
<1>3. HasSlot(pack[r], s) => Decided(r, s)
  BY <1>2, OrderFacts DEF WorkerInv, RunInv, SlotInv
<1> QED BY <1>1, <1>2, <1>3, CurrentAsset DEF RowInv

LEMMA OkRunSettledInv == TypeInv /\ WorkerInv => OkRunIsSettled
<1> SUFFICES ASSUME TypeInv, WorkerInv, NEW r \in Run, runStatus[r] = "ok"
             PROVE  /\ \A s \in SlotsOf(r) : Settled(r, s)
                    /\ \A a \in AssetsOf(r) : row[a] \notin {"pending", "generated"}
  BY DEF OkRunIsSettled
<1>1. ASSUME NEW s \in SlotsOf(r) PROVE Settled(r, s)
  BY <1>1, SlotOutcome DEF SlotsOf, Decided, Uploaded, Settled, Path
<1>2. ASSUME NEW p \in Path, NEW s \in Slot
      PROVE  row[<<r, p, s>>] \notin {"pending", "generated"}
  BY SlotOutcome DEF Decided, Uploaded, Fresh, Untouched, BatchIdle, Path
<1> QED BY <1>1, <1>2, AssetShape

LEMMA AccountedForInv == TypeInv /\ WorkerInv => OkRunIsAccountedFor
<1> SUFFICES ASSUME TypeInv, WorkerInv, NEW r \in Run, runStatus[r] = "ok",
                    NEW p \in Path, NEW s \in Slot, row[<<r, p, s>>] = "uploaded"
             PROVE  /\ <<r, p, s>> \in costBasis[r]
                    /\ s \in DriftSlots => <<r, p, s>> \in flagged
  <2>1. \A a \in Asset : \E p \in Path, s \in Slot : a = <<a[1], p, s>> /\ a[3] = s
    BY DEF Asset
  <2> QED BY <2>1 DEF OkRunIsAccountedFor, AssetsOf
<1>1. /\ toolCalls[<<r, p, s>>] = "ok"
      /\ s \in DriftSlots => <<r, p, s>> \in flagged
  <2>1. Decided(r, s)
    BY SlotOutcome DEF Fresh, Untouched, Path
  <2>2. CASE p = "single"
    BY <2>1, <2>2 DEF Decided, Uploaded, Untouched
  <2>3. CASE p = "batch"
    BY <2>1, <2>3 DEF Decided, Uploaded, BatchIdle
  <2> QED BY <2>2, <2>3 DEF Path
<1>2. costBasis[r] = OkCalls(r)
  BY DEF WorkerInv, RunInv, ControlInv
<1> QED BY <1>1, <1>2, AssetShape DEF OkCalls, AssetsOf

LEMMA CallbackInv == TypeInv /\ WorkerInv => CallbackMatchesRows
<1> SUFFICES ASSUME TypeInv, WorkerInv, NEW r \in Run, callback[r] # "none"
             PROVE  LET ok == {s \in SlotsOf(r) : \E p \in Path : row[<<r, p, s>>] = "uploaded"}
                    IN /\ \/ runStatus[r] = "ok"
                          \/ runStatus[r] = "failed" /\ "cancel" \in Faults
                       /\ ok = {s \in Slot : summary[r][s] = "uploaded"}
                       /\ callback[r] = "complete" <=> ok = SlotsOf(r)
                       /\ callback[r] = "failed" <=> ok = {}
  BY DEF CallbackMatchesRows
<1>1. /\ \/ runStatus[r] = "ok"
         \/ runStatus[r] = "failed" /\ "cancel" \in Faults
      /\ callback[r] = PackStatusOf(r)
  BY DEF WorkerInv, RunInv, ControlInv
<1>2. ASSUME NEW s \in Slot
      PROVE  /\ summary[r][s] = "uploaded" => HasSlot(pack[r], s)
             /\ HasSlot(pack[r], s) => summary[r][s] \in {"uploaded", "failed"}
             /\ HasSlot(pack[r], s) =>
                  (summary[r][s] = "uploaded" <=> \E p \in Path : row[<<r, p, s>>] = "uploaded")
  BY <1>1, SlotOutcome DEF Decided, Uploaded, Fresh, Untouched, BatchIdle, Path
<1>3. HasSlot(pack[r], Order(r)[1]) /\ Order(r)[1] \in Slot
  <2>1. pc[r] # "idle"
    BY <1>1 DEF WorkerInv, RunInv, ControlInv
  <2> QED BY <2>1, OrderFacts DEF HasSlot, Order
<1> QED
  BY <1>1, <1>2, <1>3 DEF PackStatusOf, SlotsOf

(* A run reports ok only with a final row, and its tool call, for every    *)
(* slot, and with none of its rows in flight.                              *)
THEOREM OkRunsAreSettled == Spec => []OkRunIsSettled
BY OkRunSettledInv, TypeCorrect, WorkerCorrect, PTL DEF TypeInv

(* A run closed as ok was charged for, and flagged, what it published.     *)
THEOREM OkRunsAreAccountedFor == Spec => []OkRunIsAccountedFor
BY AccountedForInv, TypeCorrect, WorkerCorrect, PTL DEF TypeInv

(* What the callback says is what the database holds.                      *)
THEOREM CallbacksMatchRows == Spec => []CallbackMatchesRows
BY CallbackInv, TypeCorrect, WorkerCorrect, PTL DEF TypeInv

(* No row says uploaded before the object is stored.                       *)
THEOREM PublishedRowsHaveObjects == Spec => []PublishedHasObject
<1>1. WorkerInv => PublishedHasObject
  <2>1. \A a \in Asset : \E r \in Run, p \in Path, s \in Slot : a = <<r, p, s>>
    BY DEF Asset
  <2>2. ASSUME WorkerInv, NEW r \in Run, NEW p \in Path, NEW s \in Slot
        PROVE  /\ row[<<r, p, s>>] = "uploaded" => <<r, p, s>> \in Keyed
               /\ toolCalls[<<r, p, s>>] = "ok" => row[<<r, p, s>>] = "uploaded"
    BY <2>2 DEF WorkerInv, RunInv, RowInv
  <2> QED BY <2>1, <2>2 DEF PublishedHasObject
<1> QED BY <1>1, WorkerCorrect, PTL

(* The batch and its per-slot fallback leave one usable row per slot.      *)
THEOREM SlotsHaveOneLiveRow == Spec => []OneLiveRowPerSlot
<1>1. WorkerInv => OneLiveRowPerSlot
  BY DEF WorkerInv, RunInv, RowInv, OneLiveRowPerSlot
<1> QED BY <1>1, WorkerCorrect, PTL

(* An image is conditioned only on a published hero of its own run.        *)
THEOREM ConditioningFollowsHero == Spec => []ConditionedAfterHero
<1>1. TypeInv /\ WorkerInv => ConditionedAfterHero
  <2> SUFFICES ASSUME TypeInv, WorkerInv, NEW a \in conditionedOn
               PROVE  /\ a[3] # pack[a[1]].hero
                      /\ row[<<a[1], "single", pack[a[1]].hero>>] = "uploaded"
    BY DEF ConditionedAfterHero
  <2>1. PICK r \in Run, p \in Path, s \in Slot : a = <<r, p, s>> /\ a[1] = r /\ a[3] = s
    BY DEF TypeInv, TypeOK, Asset
  <2> QED BY <2>1 DEF WorkerInv, RunInv, RowInv
<1> QED BY <1>1, TypeCorrect, WorkerCorrect, PTL DEF TypeInv

(* A closed run stays closed: the steps that write the status find the run *)
(* absent or running, but for the except clause of a cancelled worker.     *)
THEOREM ClosedRunsStayClosed == Spec => ClosedStaysClosed
<1> DEFINE Kept(q) ==
      \/ runStatus'[q] = runStatus[q]
      \/ "cancel" \in Faults /\ pc[q] = "except" /\ runStatus'[q] = "failed"
<1>1. ASSUME TypeInv, WorkerInv, [Next]_vars, NEW q \in Run, runStatus[q] \in {"ok", "failed"}
      PROVE  Kept(q) /\ q \in finished /\ q \in finished'
  <2>1. q \in finished /\ ControlInv(q)
    BY <1>1 DEF WorkerInv, RunInv, ControlInv
  <2>2. ASSUME NEW r \in Run, StepOf(r)
        PROVE  Kept(q) /\ (q \in finished => q \in finished')
    <3>1. CASE r # q
      BY <1>1, <2>2, <3>1, StepFrame DEF SameRun
    <3>2. CASE r = q
      <4>1. /\ pc[q] \notin {"idle", "roll_up", "mark_ok"}
            /\ pc[q] = "except" => "cancel" \in Faults
        BY <1>1, <2>1, Labels DEF ControlInv
      <4>2. CASE RecordFailure(q)
        BY <4>1, <4>2, <1>1 DEF RecordFailure, CloseRun, TypeInv, TypeOK
      <4>3. CASE ~RecordFailure(q)
       <5> QED
        BY <2>2, <3>2, <4>1, <4>3 DEF StepOf, Task, AcceptPack, SpawnTask, AbandonRequest,
           AcquirePermit, InsertPending, ProviderSucceeds, ProviderFails, Moves, MarkFailed,
           RecordErrorCall, MarkGenerated, Upload, MarkUploaded, FlagDrift, RecordOkCall, SetRow,
           Record, BatchInsert, BatchSucceeds, BatchFails, BatchAbort, RollUpCost, MarkRunOk,
           EmitCallback, SendCallback, LoseCallback, Raise, LoseFailure, ReleasePermit, Cancel, runs
      <4> QED BY <4>2, <4>3
    <3> QED BY <3>1, <3>2
  <2>3. CASE UNCHANGED runs
    BY <2>1, <2>3 DEF runs
  <2> QED
    BY <1>1, <2>1, <2>2, <2>3 DEF Next, StepOf, Crash, Restart, Quiescent, vars
<1>2. TypeInv /\ WorkerInv /\ [Next]_vars =>
        [\A r \in Run : runStatus[r] \in {"ok", "failed"} =>
           /\ Kept(r)
           /\ r \in finished /\ r \in finished']_vars
  BY <1>1
<1> QED
  BY <1>2, TypeCorrect, WorkerCorrect, PTL DEF Spec, ClosedStaysClosed, TypeInv

-----------------------------------------------------------------------------
(* PackWorker implements PackPromise: every step of the worker is a step   *)
(* of the promise, or changes nothing the consumer sees.                   *)
Seen(r) == <<OutcomeSeen(r), RequestedOf(r), PublishedSlots(r), ToldOf(r)>>

(* A run whose rows, status, payload and callback stand still looks the same. *)
LEMMA SeenKept ==
  ASSUME TypeInv, NEW q \in Run, RunInv(q),
         runStatus'[q] = runStatus[q], pack'[q] = pack[q], callback'[q] = callback[q],
         callback[q] # "none" => summary'[q] = summary[q],
         \A s \in Slot, p \in Path :
           row'[<<q, p, s>>] = "uploaded" <=> row[<<q, p, s>>] = "uploaded"
  PROVE  Seen(q)' = Seen(q)
<1>1. OutcomeSeen(q)' = OutcomeSeen(q) /\ RequestedOf(q)' = RequestedOf(q)
  BY DEF OutcomeSeen, RequestedOf, SlotsOf
<1>2. PublishedSlots(q)' = PublishedSlots(q)
  BY DEF PublishedSlots
<1>3. ToldOf(q)' = ToldOf(q)
  BY DEF ToldOf
<1> QED BY <1>1, <1>2, <1>3 DEF Seen

Lifted(r) ==
  \/ Seen(r)' = Seen(r)
  \/ /\ OutcomeSeen(r) = "none" /\ OutcomeSeen(r)' = "open"
     /\ RequestedOf(r)' \in (SUBSET Slot) \ {{}}
     /\ PublishedSlots(r)' = PublishedSlots(r) /\ ToldOf(r)' = ToldOf(r)
  \/ /\ OutcomeSeen(r) = "open"
     /\ \E s \in RequestedOf(r) \ PublishedSlots(r) :
          PublishedSlots(r)' = PublishedSlots(r) \cup {s}
     /\ OutcomeSeen(r)' = OutcomeSeen(r) /\ RequestedOf(r)' = RequestedOf(r)
     /\ ToldOf(r)' = ToldOf(r)
  \/ /\ OutcomeSeen(r) = "open" /\ OutcomeSeen(r)' \in {"ok", "failed"}
     /\ RequestedOf(r)' = RequestedOf(r) /\ PublishedSlots(r)' = PublishedSlots(r)
     /\ ToldOf(r)' = ToldOf(r)
  \/ /\ OutcomeSeen(r) = "ok" /\ ToldOf(r) = Promise!Untold
     /\ ToldOf(r)' = [status |-> Promise!Verdict(RequestedOf(r), PublishedSlots(r)),
                      slots |-> PublishedSlots(r)]
     /\ OutcomeSeen(r)' = OutcomeSeen(r) /\ RequestedOf(r)' = RequestedOf(r)
     /\ PublishedSlots(r)' = PublishedSlots(r)
  \/ /\ "cancel" \in Faults
     /\ OutcomeSeen(r) = "ok" /\ OutcomeSeen(r)' = "failed"
     /\ RequestedOf(r)' = RequestedOf(r) /\ PublishedSlots(r)' = PublishedSlots(r)
     /\ ToldOf(r)' = ToldOf(r)

LEMMA AcceptLifts ==
  ASSUME TypeInv, NEW r \in Run, RunInv(r), NEW p \in Packs, AcceptPack(r, p)
  PROVE  Lifted(r)
<1>1. /\ pc[r] = "idle" /\ runStatus'[r] = "running" /\ pack'[r] = p
      /\ UNCHANGED <<assets, outside, summary>>
  BY DEF AcceptPack, TypeInv, TypeOK
<1>2. runStatus[r] = "absent"
  BY <1>1 DEF RunInv, ControlInv
<1>3. OutcomeSeen(r) = "none" /\ OutcomeSeen(r)' = "open"
  BY <1>1, <1>2 DEF OutcomeSeen
<1>4. RequestedOf(r)' \in (SUBSET Slot) \ {{}}
  <2>1. p # NoPack /\ HasSlot(p, p.order[1]) /\ p.order[1] \in Slot
    BY PackFacts, PacksAssumption DEF HasSlot
  <2>2. RequestedOf(r)' = {s \in Slot : HasSlot(p, s)}
    BY <1>1, <2>1 DEF RequestedOf, SlotsOf
  <2> QED BY <2>1, <2>2
<1>5. PublishedSlots(r)' = PublishedSlots(r) /\ ToldOf(r)' = ToldOf(r)
  BY <1>1 DEF PublishedSlots, ToldOf, assets, outside
<1> QED BY <1>3, <1>4, <1>5 DEF Lifted

(* The only step that publishes: the row becomes uploaded. *)
LEMMA MarkUploadedLifts ==
  ASSUME TypeInv, NEW r \in Run, RunInv(r), MarkUploaded(r)
  PROVE  Lifted(r)
<1>1. /\ pc[r] = "mark_uploaded" /\ pc[r] # "idle" /\ pc[r] \in SlotSteps /\ pc[r] \in TryBlock
      /\ UNCHANGED <<runs, outside, pack, summary>>
      /\ row' = [row EXCEPT ![AssetOf(r)] = "uploaded"]
  BY Labels DEF MarkUploaded, SetRow, locals, SlotSteps
<1>2. PICK s0 \in Slot : s0 = SlotOf(r)
  BY <1>1, OrderFacts
<1>3. /\ AssetOf(r) = <<r, path[r], s0>> /\ path[r] \in Path /\ row \in [Asset -> RowStatus]
      /\ HasSlot(pack[r], s0) /\ pack[r] \in Packs /\ cur[r] \in 1..Len(Order(r))
      /\ Order(r)[cur[r]] = s0
  BY <1>1, <1>2, AssetFacts, OrderFacts, CurrentAsset
<1>4. Working(r, s0) /\ runStatus[r] = "running"
  BY <1>1, <1>3 DEF RunInv, SlotInv, ControlInv
<1>5. OutcomeSeen(r) = "open" /\ OutcomeSeen(r)' = OutcomeSeen(r) /\ RequestedOf(r)' = RequestedOf(r)
      /\ ToldOf(r)' = ToldOf(r)
  BY <1>1, <1>4 DEF OutcomeSeen, RequestedOf, SlotsOf, ToldOf, runs, outside
<1>6. s0 \in RequestedOf(r)
  BY <1>3, PacksAssumption DEF RequestedOf, SlotsOf
<1>7. s0 \notin PublishedSlots(r)
  <2>1. row[<<r, path[r], s0>>] = "generated"
    BY <1>1, <1>4, RowAtStep DEF Working
  <2>2. \A p \in Path : row[<<r, p, s0>>] # "uploaded"
    BY <1>3, <1>4, <2>1 DEF Working, Untouched, BatchIdle, Path
  <2> QED BY <2>2 DEF PublishedSlots
<1>8. PublishedSlots(r)' = PublishedSlots(r) \cup {s0}
  <2>1. ASSUME NEW s \in Slot, NEW p \in Path
        PROVE  row'[<<r, p, s>>] = IF s = s0 /\ p = path[r] THEN "uploaded" ELSE row[<<r, p, s>>]
    <3>1. <<r, p, s>> \in Asset /\ (<<r, p, s>> = AssetOf(r) <=> s = s0 /\ p = path[r])
      BY <1>3, AssetShape
    <3> QED BY <1>1, <1>3, <3>1
  <2>2. ASSUME NEW s \in Slot
        PROVE  (\E p \in Path : row'[<<r, p, s>>] = "uploaded")
                 <=> (s = s0 \/ \E p \in Path : row[<<r, p, s>>] = "uploaded")
    <3>1. CASE s = s0
      BY <2>1, <1>3, <3>1
    <3>2. CASE s # s0
      BY <2>1, <3>2
    <3> QED BY <3>1, <3>2
  <2> QED BY <2>2 DEF PublishedSlots
<1> QED BY <1>5, <1>6, <1>7, <1>8 DEF Lifted

(* The run is closed. *)
LEMMA CloseLifts ==
  ASSUME TypeInv, NEW r \in Run, RunInv(r), MarkRunOk(r) \/ RecordFailure(r)
  PROVE  Lifted(r)
<1>1. /\ \/ pc[r] = "mark_ok" /\ runStatus'[r] = "ok"
         \/ pc[r] = "except" /\ runStatus'[r] = "failed"
      /\ UNCHANGED <<assets, outside, locals>>
  BY DEF MarkRunOk, RecordFailure, CloseRun, TypeInv, TypeOK
<1>2. \/ runStatus[r] = "running"
      \/ "cancel" \in Faults /\ runStatus[r] = "ok" /\ runStatus'[r] = "failed"
  BY <1>1, Labels DEF RunInv, ControlInv
<1>3. \/ OutcomeSeen(r) = "open" /\ OutcomeSeen(r)' \in {"ok", "failed"}
      \/ "cancel" \in Faults /\ OutcomeSeen(r) = "ok" /\ OutcomeSeen(r)' = "failed"
  BY <1>1, <1>2 DEF OutcomeSeen
<1>4. RequestedOf(r)' = RequestedOf(r) /\ PublishedSlots(r)' = PublishedSlots(r)
      /\ ToldOf(r)' = ToldOf(r)
  BY <1>1 DEF RequestedOf, SlotsOf, PublishedSlots, ToldOf, assets, outside, locals
<1> QED BY <1>3, <1>4 DEF Lifted

(* The callback says what was published. *)
LEMMA TellLifts ==
  ASSUME TypeInv, WorkerInv, NEW r \in Run, NEW next \in PC, SendCallback(r, next)
  PROVE  Lifted(r)
<1>1. /\ pc[r] = "callback" /\ callback'[r] = PackStatusOf(r)
      /\ UNCHANGED <<runs, assets, locals>>
  BY DEF SendCallback, TypeInv, TypeOK
<1>2. runStatus[r] = "ok" /\ callback[r] = "none"
  BY <1>1 DEF WorkerInv, RunInv, ControlInv
<1>3. ASSUME NEW s \in Slot
      PROVE  /\ s \in PublishedSlots(r) <=> summary[r][s] = "uploaded"
             /\ summary[r][s] = "uploaded" => HasSlot(pack[r], s)
             /\ HasSlot(pack[r], s) => summary[r][s] \in {"uploaded", "failed"}
  BY <1>2, SlotOutcome DEF PublishedSlots, Decided, Uploaded, Fresh, Untouched, BatchIdle, Path
<1>4. /\ RequestedOf(r) = SlotsOf(r) /\ \E s \in Slot : HasSlot(pack[r], s)
  <2>1. pack[r] \in Packs
    BY <1>2, <1>1, CurrentAsset
  <2>2. HasSlot(pack[r], SlotOf(r)) /\ SlotOf(r) \in Slot
    BY <1>1, OrderFacts
  <2> QED BY <2>1, <2>2, PacksAssumption DEF RequestedOf
<1>5. PublishedSlots(r) = {s \in Slot : summary[r][s] = "uploaded"}
  BY <1>3 DEF PublishedSlots
<1>6. PackStatusOf(r) = Promise!Verdict(RequestedOf(r), PublishedSlots(r))
  <2>1. (\A s \in SlotsOf(r) : summary[r][s] # "failed") <=> PublishedSlots(r) = SlotsOf(r)
    BY <1>3 DEF SlotsOf, PublishedSlots
  <2>2. (\A s \in SlotsOf(r) : summary[r][s] # "uploaded") <=> PublishedSlots(r) = {}
    BY <1>3 DEF SlotsOf, PublishedSlots
  <2> QED BY <1>4, <2>1, <2>2 DEF PackStatusOf, Promise!Verdict
<1>7. OutcomeSeen(r) = "ok" /\ OutcomeSeen(r)' = OutcomeSeen(r) /\ ToldOf(r) = Promise!Untold
  BY <1>1, <1>2 DEF OutcomeSeen, ToldOf, Promise!Untold, runs
<1>8. RequestedOf(r)' = RequestedOf(r) /\ PublishedSlots(r)' = PublishedSlots(r)
  BY <1>1 DEF RequestedOf, SlotsOf, PublishedSlots, assets, locals
<1>9. ToldOf(r)' = [status |-> PackStatusOf(r), slots |-> PublishedSlots(r)]
  <2>1. callback'[r] # "none" /\ summary' = summary
    BY <1>1 DEF PackStatusOf, locals
  <2> QED BY <1>1, <1>5, <2>1 DEF ToldOf
<1> QED BY <1>6, <1>7, <1>8, <1>9 DEF Lifted

(* The other steps are not seen. *)
LEMMA SilentSteps ==
  ASSUME TypeInv, WorkerInv, NEW r \in Run, StepOf(r),
         ~(\E p \in Packs : AcceptPack(r, p)),
         ~MarkUploaded(r), ~MarkRunOk(r), ~RecordFailure(r),
         \A next \in PC : ~SendCallback(r, next)
  PROVE  Seen(r)' = Seen(r)
<1>0. RunInv(r)
  BY DEF WorkerInv
<1> USE DEF Goto
<1>a. \/ AcquirePermit(r) \/ InsertPending(r) \/ ProviderSucceeds(r)
      \/ ProviderFails(r) \/ (\E from, to \in PC : Moves(r, from, to))
      \/ MarkFailed(r) \/ RecordErrorCall(r)
      \/ MarkGenerated(r) \/ Upload(r) \/ FlagDrift(r)
      \/ RecordOkCall(r) \/ BatchInsert(r) \/ BatchAbort(r)
      \/ RollUpCost(r) \/ ReleasePermit(r)
  BY Labels DEF StepOf, Task, SpawnTask, AbandonRequest, BatchSucceeds, BatchFails,
     EmitCallback, LoseCallback, Raise, LoseFailure, Cancel
<1>1. runStatus' = runStatus /\ pack' = pack /\ callback' = callback
  BY <1>a DEF AcquirePermit, InsertPending, ProviderSucceeds, ProviderFails,
     Moves, MarkFailed, RecordErrorCall, MarkGenerated, Upload, FlagDrift,
     RecordOkCall, BatchInsert, BatchAbort, RollUpCost, ReleasePermit, Record, SetRow,
     runs, outside, locals
<1>2. callback[r] # "none" => summary' = summary
  <2>1. callback[r] # "none" => pc[r] \notin {"error_call", "ok_call"}
    BY <1>0 DEF RunInv, ControlInv
  <2> QED
    BY <1>a, <2>1 DEF AcquirePermit, InsertPending, ProviderSucceeds, ProviderFails,
       Moves, MarkFailed, RecordErrorCall, MarkGenerated, Upload, FlagDrift,
       RecordOkCall, BatchInsert, BatchAbort, RollUpCost, ReleasePermit, SetRow, locals
<1>3. \A s \in Slot, p \in Path :
        row'[<<r, p, s>>] = "uploaded" <=> row[<<r, p, s>>] = "uploaded"
  <2>1. row' = row \/ /\ \E v \in {"pending", "generated", "failed"} : row' = [row EXCEPT ![AssetOf(r)] = v]
                      /\ \/ row[AssetOf(r)] # "uploaded"
                         \/ pc[r] \in {"insert", "batch_insert"}
    BY <1>a DEF AcquirePermit, InsertPending, ProviderSucceeds, ProviderFails,
       Moves, MarkFailed, RecordErrorCall, MarkGenerated, Upload, FlagDrift,
       RecordOkCall, BatchInsert, BatchAbort, RollUpCost, ReleasePermit, Record, SetRow, assets
  <2>2. pc[r] \in {"insert", "batch_insert"} => row[AssetOf(r)] # "uploaded"
    <3> HAVE pc[r] \in {"insert", "batch_insert"}
    <3>1. PICK s0 \in Slot : s0 = SlotOf(r) /\ AssetOf(r) = <<r, path[r], s0>>
                             /\ SlotInv(r, cur[r], s0)
      BY <1>0, OrderFacts, AssetFacts DEF RunInv, SlotOf
    <3>2. CASE pc[r] = "insert"
      BY <3>1, <3>2, RowAtStep DEF SlotInv, SlotSteps, Working
    <3>3. CASE pc[r] = "batch_insert"
      <4>1. path[r] = "batch" /\ cur[r] > 1 /\ cur[r] \in Nat
        BY <1>0, <3>3, Labels DEF RunInv, ControlInv, TypeInv, TypeOK, PositionOK
      <4> QED BY <3>1, <3>3, <4>1 DEF SlotInv, Waiting, BatchIdle
    <3> QED BY <3>2, <3>3
  <2>3. row \in [Asset -> RowStatus] /\ \A s \in Slot, p \in Path : <<r, p, s>> \in Asset
    BY AssetShape DEF TypeInv, TypeOK
  <2> QED BY <2>1, <2>2, <2>3
<1> QED BY <1>0, <1>1, <1>2, <1>3, SeenKept

LEMMA StepKeepsPromise ==
  ASSUME TypeInv, WorkerInv, NEW r \in Run, StepOf(r)
  PROVE  [Promise!PromiseNext]_(Promise!promise)
<1>1. Lifted(r)
  BY AcceptLifts, MarkUploadedLifts, CloseLifts, TellLifts, SilentSteps DEF WorkerInv, Lifted
<1>2. \A q \in Run : q # r => Seen(q)' = Seen(q)
  BY StepFrame, SeenKept DEF SameRun, SameSlot, WorkerInv
<1>3. \A q \in Run : q # r => /\ OutcomeSeen(q)' = OutcomeSeen(q) /\ RequestedOf(q)' = RequestedOf(q)
                              /\ PublishedSlots(q)' = PublishedSlots(q) /\ ToldOf(q)' = ToldOf(q)
  BY <1>2 DEF Seen
<1> QED
  BY <1>1, <1>3 DEF Lifted, Seen, Promise!PromiseNext, Promise!Accept, Promise!Publish,
     Promise!Close, Promise!Tell, Promise!Retract, Promise!promise

LEMMA InitKeepsPromise == Init => Promise!PromiseInit
<1> SUFFICES ASSUME Init PROVE Promise!PromiseInit
  OBVIOUS
<1>1. ASSUME NEW r \in Run
      PROVE  /\ OutcomeSeen(r) = "none" /\ RequestedOf(r) = {}
             /\ PublishedSlots(r) = {} /\ ToldOf(r) = Promise!Untold
  <2>1. \A p \in Path, s \in Slot : row[<<r, p, s>>] = "absent"
    BY AssetShape DEF Init
  <2> QED
    BY <2>1 DEF Init, OutcomeSeen, RequestedOf, PublishedSlots, ToldOf, Promise!Untold
<1> QED
  BY <1>1 DEF Promise!PromiseInit

LEMMA NextKeepsPromise ==
  TypeInv /\ WorkerInv /\ [Next]_vars => [Promise!PromiseNext]_(Promise!promise)
<1> SUFFICES ASSUME TypeInv, WorkerInv, [Next]_vars
             PROVE  [Promise!PromiseNext]_(Promise!promise)
  OBVIOUS
<1>1. CASE \E r \in Run : StepOf(r)
  BY <1>1, StepKeepsPromise
<1>2. CASE UNCHANGED <<runs, assets, outside, locals>>
  <2>1. ASSUME NEW r \in Run
        PROVE  /\ OutcomeSeen(r)' = OutcomeSeen(r) /\ RequestedOf(r)' = RequestedOf(r)
               /\ PublishedSlots(r)' = PublishedSlots(r) /\ ToldOf(r)' = ToldOf(r)
    BY <1>2, SeenKept DEF Seen, WorkerInv, runs, assets, outside, locals
  <2> QED
    BY <2>1 DEF Promise!promise
<1> QED
  BY <1>1, <1>2 DEF Next, StepOf, Crash, Restart, Quiescent, vars

(* The pipeline implements the promise to the consumer.                    *)
THEOREM WorkerKeepsPromise == Spec => KeepsPromise
<1>1. Init => Promise!PromiseInit
  BY InitKeepsPromise
<1>2. TypeInv /\ WorkerInv /\ [Next]_vars => [Promise!PromiseNext]_(Promise!promise)
  BY NextKeepsPromise
<1> QED
  BY <1>1, <1>2, TypeCorrect, WorkerCorrect, PTL
  DEF Spec, KeepsPromise, Promise!PromiseSpec, TypeInv

-----------------------------------------------------------------------------
(* PackWorker does what Acceptance takes a task to do, but for a run that  *)
(* is failed after it was ok.                                              *)
ShownSame(q) ==
  /\ runStatus'[q] = runStatus[q]
  /\ q \in ImagesSeen' <=> q \in ImagesSeen
  /\ q \in AtWork' <=> q \in AtWork

LEMMA OthersShownSame ==
  ASSUME TypeInv, WorkerInv, NEW r \in Run, StepOf(r)
  PROVE  \A q \in Run \ {r} : ShownSame(q)
<1> TAKE q \in Run \ {r}
<1>1. SameRun(q)
  BY StepFrame
<1>2. Seen(q)' = Seen(q)
  BY <1>1, SeenKept DEF SameRun, SameSlot, WorkerInv
<1>3. PublishedSlots(q)' = PublishedSlots(q)
  BY <1>2 DEF Seen
<1> QED
  BY <1>1, <1>3 DEF ShownSame, SameRun, ImagesSeen, AtWork

LEMMA AllShownSame ==
  ASSUME TypeInv, TypeInv', \A q \in Run : ShownSame(q), up' = up
  PROVE  UNCHANGED <<runStatus, ImagesSeen, AtWork, up>>
<1>1. runStatus' = runStatus
  BY DEF ShownSame, TypeInv, TypeOK
<1>2. ImagesSeen' = ImagesSeen
  BY DEF ShownSame, ImagesSeen
<1>3. AtWork' = AtWork
  BY DEF ShownSame, AtWork
<1> QED
  BY <1>1, <1>2, <1>3

RouteStep ==
  \/ \E r \in Run : Route!TaskPublishes(r) \/ Route!TaskEnds(r) \/ Route!TaskLost(r)
  \/ Route!Crash \/ Route!Restart

LEMMA PublishShown ==
  ASSUME TypeInv, TypeInv', WorkerInv, NEW r \in Run, MarkUploaded(r)
  PROVE  RouteStep \/ UNCHANGED <<runStatus, ImagesSeen, AtWork, up>>
<1>1. \A q \in Run \ {r} : ShownSame(q)
  BY OthersShownSame DEF StepOf, Task
<1>2. /\ pc[r] = "mark_uploaded" /\ pc'[r] \in {"flag_drift", "ok_call"}
      /\ UNCHANGED <<runStatus, up>>
  BY DEF MarkUploaded, SetRow, Goto, runs, process, TypeInv, TypeOK
<1>3. r \in AtWork /\ r \in AtWork'
  BY <1>2, Labels DEF AtWork
<1>4. AtWork' = AtWork
  BY <1>1, <1>3 DEF ShownSame, AtWork
<1>5. r \in ImagesSeen'
  <2>1. row'[AssetOf(r)] = "uploaded" /\ AssetOf(r) = <<r, path[r], SlotOf(r)>>
        /\ path[r] \in Path /\ SlotOf(r) \in Slot
    BY <1>2, CurrentAsset, AssetFacts, OrderFacts DEF MarkUploaded, SetRow, TypeInv, TypeOK
  <2> QED
    BY <2>1 DEF ImagesSeen, PublishedSlots
<1>6. ImagesSeen' = ImagesSeen \cup {r}
  BY <1>1, <1>5 DEF ShownSame, ImagesSeen
<1>7. CASE r \in ImagesSeen
  BY <1>2, <1>4, <1>6, <1>7
<1>8. CASE r \notin ImagesSeen
  <2>1. Route!TaskPublishes(r)
    BY <1>2, <1>3, <1>4, <1>6, <1>8 DEF Route!TaskPublishes, Route!process
  <2> QED
    BY <2>1 DEF RouteStep
<1> QED
  BY <1>7, <1>8

(* The task ends without a word in the database. *)
Losing(r) ==
  \/ pc[r] = "acquire" /\ Cancel(r)
  \/ pc[r] = "except" /\ runStatus[r] = "running" /\ (LoseFailure(r) \/ Cancel(r))

Reopened(r) == runStatus[r] = "ok" /\ RecordFailure(r)

LEMMA EndShown ==
  ASSUME TypeInv, TypeInv', WorkerInv, NEW r \in Run,
         MarkRunOk(r) \/ RecordFailure(r) \/ Losing(r), ~Reopened(r)
  PROVE  RouteStep
<1>1. \A q \in Run \ {r} : ShownSame(q)
  BY OthersShownSame DEF StepOf, Task, Losing
<1>2. /\ pc[r] \in {"acquire", "mark_ok", "except"} /\ pc'[r] \in {"callback", "release", "dead"}
      /\ UNCHANGED <<row, up>>
  BY Labels DEF MarkRunOk, RecordFailure, Losing, LoseFailure, Cancel, SendCallback, CloseRun,
     Moves, Goto, assets, process, TypeInv, TypeOK
<1>r. ControlInv(r)
  BY DEF WorkerInv, RunInv
<1>3. r \in AtWork /\ r \notin AtWork'
  BY <1>2, <1>r, Labels DEF AtWork, ControlInv, Losing, Reopened, MarkRunOk
<1>4. AtWork' = AtWork \ {r}
  BY <1>1, <1>3 DEF ShownSame, AtWork
<1>5. ImagesSeen' = ImagesSeen
  BY <1>2 DEF ImagesSeen, PublishedSlots
<1>6. CASE MarkRunOk(r) \/ RecordFailure(r)
  <2>1. Route!TaskEnds(r)
    BY <1>2, <1>3, <1>4, <1>5, <1>6 DEF MarkRunOk, RecordFailure, CloseRun, Route!TaskEnds, Route!Closed
  <2> QED
    BY <2>1 DEF RouteStep
<1>7. CASE Losing(r)
  <2>1. runStatus' = runStatus /\ Faults \cap {"database", "cancel"} # {}
    BY <1>7, Labels DEF Losing, LoseFailure, Cancel, SendCallback, Moves, runs
  <2>2. Route!TaskLost(r)
    BY <1>2, <1>3, <1>4, <1>5, <2>1 DEF Route!TaskLost, Route!db
  <2> QED
    BY <2>2 DEF RouteStep
<1> QED
  BY <1>6, <1>7

LEMMA SilentShown ==
  ASSUME TypeInv, TypeInv', WorkerInv, NEW r \in Run,
         AbandonRequest(r) \/ AcquirePermit(r) \/ Task(r) \/ Cancel(r),
         ~MarkUploaded(r), ~MarkRunOk(r), ~RecordFailure(r), ~Losing(r)
  PROVE  UNCHANGED <<runStatus, ImagesSeen, AtWork, up>>
<1>1. \A q \in Run \ {r} : ShownSame(q)
  BY OthersShownSame DEF StepOf
<1>a. \/ AcquirePermit(r) \/ InsertPending(r) \/ ProviderSucceeds(r)
      \/ ProviderFails(r) \/ (\E from, to \in PC : Moves(r, from, to))
      \/ MarkFailed(r) \/ RecordErrorCall(r)
      \/ MarkGenerated(r) \/ Upload(r) \/ FlagDrift(r)
      \/ RecordOkCall(r) \/ BatchInsert(r) \/ BatchAbort(r)
      \/ RollUpCost(r) \/ (\E next \in PC : SendCallback(r, next)) \/ ReleasePermit(r)
  BY Labels DEF Task, AbandonRequest, BatchSucceeds, BatchFails, EmitCallback, LoseCallback,
     Raise, LoseFailure, Cancel
<1>2. PublishedSlots(r)' = PublishedSlots(r)
  <2>1. CASE \E next \in PC : SendCallback(r, next)
    BY <2>1 DEF SendCallback, assets, PublishedSlots
  <2>2. CASE \A next \in PC : ~SendCallback(r, next)
    <3>1. ~(\E p \in Packs : AcceptPack(r, p))
      <4>1. pc[r] # "idle"
        BY Labels DEF AbandonRequest, AcquirePermit, Task, Cancel, SendCallback, Moves,
           InsertPending, ProviderSucceeds, ProviderFails, MarkFailed, RecordErrorCall,
           MarkGenerated, Upload, FlagDrift, RecordOkCall, BatchInsert, BatchSucceeds,
           BatchFails, BatchAbort, RollUpCost, EmitCallback, LoseCallback, Raise, LoseFailure,
           ReleasePermit
      <4> QED BY <4>1 DEF AcceptPack
    <3>2. Seen(r)' = Seen(r)
      BY <2>2, <3>1, SilentSteps DEF StepOf
    <3> QED
      BY <3>2 DEF Seen
  <2> QED
    BY <2>1, <2>2
<1>3. runStatus' = runStatus /\ up' = up
  BY <1>a DEF AcquirePermit, Moves, InsertPending, ProviderSucceeds,
     ProviderFails, MarkFailed, RecordErrorCall, MarkGenerated, Upload, FlagDrift, RecordOkCall,
     Record, SetRow, BatchInsert, BatchAbort, RollUpCost, SendCallback, ReleasePermit, runs, process
<1>4. r \in AtWork' <=> r \in AtWork
  <2> DEFINE Work == {"acquire"} \cup TryBlock
  <2>1. \/ pc' = pc
        \/ \E from, to \in PC :
             /\ pc[r] = from /\ pc' = [pc EXCEPT ![r] = to]
             /\ \/ from \in TryBlock /\ to = "except"
                \/ from \in Work <=> to \in Work
             /\ to = "except" => from \in TryBlock \cup {"callback"}
             /\ from = "except" => runStatus[r] # "running"
    <3>1. CASE AbandonRequest(r) \/ AcquirePermit(r) \/ Task(r)
      BY <3>1, Labels DEF AbandonRequest, AcquirePermit, Task, Moves, InsertPending,
         ProviderSucceeds, ProviderFails, MarkFailed, RecordErrorCall, NextSlot, MarkGenerated,
         Upload, FlagDrift, RecordOkCall, BatchInsert, LoopRemainder, BatchSucceeds, BatchFails,
         BatchAbort, RollUpCost, EmitCallback, SendCallback, LoseCallback, Raise, LoseFailure,
         Losing, ReleasePermit, Goto
    <3>2. CASE Cancel(r)
      BY <3>2, Labels DEF Cancel, SendCallback, Losing, Moves, Goto
    <3> QED BY <3>1, <3>2
  <2>2. /\ pc[r] \in TryBlock => runStatus[r] = "running"
        /\ pc[r] = "callback" => runStatus[r] = "ok"
    BY DEF WorkerInv, RunInv, ControlInv
  <2>3. pc \in [Run -> PC]
    BY DEF TypeInv, TypeOK
  <2> HIDE DEF Work
  <2>4. r \in AtWork <=> pc[r] \in Work \/ (pc[r] = "except" /\ runStatus[r] = "running")
    BY DEF AtWork, Work
  <2>5. r \in AtWork' <=> pc'[r] \in Work \/ (pc'[r] = "except" /\ runStatus'[r] = "running")
    BY DEF AtWork, Work
  <2>6. "except" \notin Work /\ "callback" \notin Work /\ TryBlock \subseteq Work
    BY Labels DEF Work
  <2> QED
    BY <1>3, <2>1, <2>2, <2>3, <2>4, <2>5, <2>6
<1>5. ShownSame(r)
  BY <1>2, <1>3, <1>4 DEF ShownSame, ImagesSeen
<1> QED
  BY <1>1, <1>3, <1>5, AllShownSame

LEMMA StepWorksAsAccepted ==
  ASSUME TypeInv, TypeInv', WorkerInv, [Next]_vars
  PROVE  \/ \E r \in Run : (\E p \in Packs : AcceptPack(r, p)) \/ SpawnTask(r)
         \/ RouteStep
         \/ \E r \in Run : Reopened(r)
         \/ UNCHANGED <<runStatus, ImagesSeen, AtWork, up>>
<1>1. CASE \E r \in Run : AbandonRequest(r) \/ AcquirePermit(r) \/ Task(r) \/ Cancel(r)
  BY <1>1, PublishShown, EndShown, SilentShown
<1>2. CASE Crash
  <2>1. AtWork' = {}
    BY <1>2, Labels DEF Crash, AtWork, TypeInv, TypeOK
  <2>2. ImagesSeen' = ImagesSeen /\ runStatus' = runStatus
    BY <1>2 DEF Crash, ImagesSeen, PublishedSlots, assets, runs
  <2>3. Route!Crash
    BY <1>2, <2>1, <2>2 DEF Crash, Route!Crash, Route!db, Route!Handling, Route!Losing, Route!Owning
  <2> QED
    BY <2>3 DEF RouteStep
<1>3. CASE Restart
  <2>1. ImagesSeen' = ImagesSeen /\ AtWork' = AtWork /\ runStatus' = runStatus
    BY <1>3 DEF Restart, ImagesSeen, PublishedSlots, AtWork, assets, runs
  <2>2. Route!Restart
    BY <1>3, <2>1 DEF Restart, Route!Restart, Route!db
  <2> QED
    BY <2>2 DEF RouteStep
<1>4. CASE Quiescent \/ UNCHANGED vars
  BY <1>4 DEF Quiescent, vars, runs, assets, process, ImagesSeen, PublishedSlots, AtWork
<1> QED
  BY <1>1, <1>2, <1>3, <1>4 DEF Next

(* The task that Acceptance has in the place of a pack's allows whatever   *)
(* this worker does: it publishes nothing and closes no run at any other   *)
(* time than Acceptance has it do.                                         *)
THEOREM PacksWorkAsAccepted == Spec => WorksAsAccepted
<1>1. TypeInv /\ TypeInv' /\ WorkerInv /\ [Next]_vars =>
        [\/ \E r \in Run : (\E p \in Packs : AcceptPack(r, p)) \/ SpawnTask(r)
         \/ \E r \in Run : Route!TaskPublishes(r) \/ Route!TaskEnds(r) \/ Route!TaskLost(r)
         \/ \E r \in Run : runStatus[r] = "ok" /\ RecordFailure(r)
         \/ Route!Crash \/ Route!Restart]_<<runStatus, ImagesSeen, AtWork, up>>
  BY StepWorksAsAccepted DEF RouteStep, Reopened
<1> QED
  BY <1>1, TypeCorrect, WorkerCorrect, PTL DEF Spec, WorksAsAccepted, TypeInv

-----------------------------------------------------------------------------
(* The safety half of the two liveness properties: no task is stuck, none  *)
(* works for ever, and none ends before its run is closed.                 *)

(* No pack meets InvalidStateTransition: every UPDATE of a row finds it in *)
(* a status it may come from.                                              *)
THEOREM PackUpdatesFindTheirRows == Spec => []UpdatesFindTheirRows
<1>1. TypeInv /\ WorkerInv => UpdatesFindTheirRows
  <2> SUFFICES ASSUME TypeInv, WorkerInv, NEW r \in Run,
                      pc[r] \in {"mark_generated", "mark_failed", "mark_uploaded", "batch_abort"}
               PROVE  /\ pc[r] = "mark_generated" => row[AssetOf(r)] = "pending"
                      /\ pc[r] \in {"mark_failed", "mark_uploaded", "batch_abort"} =>
                           row[AssetOf(r)] \in {"pending", "generated"}
    BY DEF UpdatesFindTheirRows
  <2>1. PICK s0 \in Slot : /\ AssetOf(r) = <<r, path[r], s0>>
                           /\ SlotInv(r, cur[r], s0) /\ ControlInv(r)
    BY OrderFacts, AssetFacts DEF WorkerInv, RunInv, SlotOf
  <2>2. CASE pc[r] = "batch_abort"
    <3>1. path[r] = "batch" /\ cur[r] \in Nat /\ cur[r] > 1
      BY <2>1, <2>2, Labels DEF ControlInv, TypeInv, TypeOK, PositionOK
    <3> QED BY <2>1, <2>2, <3>1 DEF SlotInv, Batched
  <2>3. CASE pc[r] # "batch_abort"
    <3>1. pc[r] \in SlotSteps
      BY <2>3 DEF SlotSteps
    <3>2. Working(r, s0)
      BY <2>1, <3>1 DEF SlotInv
    <3> QED BY <2>1, <2>3, <3>2, RowAtStep DEF Working
  <2> QED BY <2>2, <2>3
<1> QED
  BY <1>1, TypeCorrect, WorkerCorrect, PTL DEF TypeInv

(* While no permit is left, another task has one.                          *)
THEOREM PackWaitersHaveHolders == Spec => []WaitersHaveHolders
<1>1. PermitsBalance => WaitersHaveHolders
  <2> SUFFICES ASSUME PermitsBalance, up, permits = 0, \A r \in Run : pc[r] \notin Holding
               PROVE  FALSE
    BY DEF WaitersHaveHolders
  <2>1. {r \in Run : pc[r] \in Holding} = {}
    OBVIOUS
  <2>2. Cardinality({r \in Run : pc[r] \in Holding}) = 0
    BY <2>1, FS_EmptySet
  <2> QED BY <2>2, LimitsAssumption DEF PermitsBalance
<1> QED
  BY <1>1, PermitsAlwaysBalance, PTL

(* A task that has ended has closed its run, unless the database refused   *)
(* the UPDATE of the except clause or a cancellation took it.              *)
THEOREM PackEndedRunsAreClosed == Spec => []EndedRunIsClosed
<1>1. Init => EndedRunIsClosed
  BY DEF Init, EndedRunIsClosed
<1>2. TypeInv /\ WorkerInv /\ EndedRunIsClosed /\ [Next]_vars => EndedRunIsClosed'
  <2> SUFFICES ASSUME TypeInv, WorkerInv, EndedRunIsClosed, [Next]_vars, NEW q \in Run,
                      pc'[q] \in {"release", "done"}, Faults \cap {"database", "cancel"} = {}
               PROVE  runStatus'[q] \in {"ok", "failed"}
    BY DEF EndedRunIsClosed
  <2>1. ASSUME pc[q] \in {"release", "done"}
        PROVE  runStatus[q] \in {"ok", "failed"}
    BY <2>1 DEF EndedRunIsClosed
  <2>2. pc \in [Run -> PC] /\ runStatus \in [Run -> RunStatus] /\ ControlInv(q)
    BY DEF TypeInv, TypeOK, WorkerInv, RunInv
  <2>3. ASSUME NEW r \in Run, StepOf(r)
        PROVE  runStatus'[q] \in {"ok", "failed"}
    <3>1. CASE r # q
      BY <2>1, <2>3, <3>1, StepFrame DEF SameRun
    <3>2. CASE r = q
      <4>1. \/ MarkRunOk(q) \/ RecordFailure(q) \/ EmitCallback(q) \/ LoseCallback(q)
            \/ ReleasePermit(q)
        BY <2>2, <2>3, <3>2 DEF StepOf, Task, AcceptPack, SpawnTask, AbandonRequest,
           AcquirePermit, InsertPending, ProviderSucceeds, ProviderFails, Moves, Goto, MarkFailed,
           RecordErrorCall, NextSlot, MarkGenerated, Upload, MarkUploaded, FlagDrift,
           RecordOkCall, BatchInsert, LoopRemainder, BatchSucceeds, BatchFails, BatchAbort,
           RollUpCost, Raise, LoseFailure, Cancel
      <4>2. CASE MarkRunOk(q) \/ RecordFailure(q)
        BY <2>2, <4>2 DEF MarkRunOk, RecordFailure, CloseRun
      <4>3. CASE EmitCallback(q) \/ LoseCallback(q)
        BY <2>2, <4>3 DEF EmitCallback, SendCallback, LoseCallback, Moves, ControlInv, runs
      <4>4. CASE ReleasePermit(q)
        BY <2>1, <2>2, <4>4 DEF ReleasePermit, runs
      <4> QED BY <4>1, <4>2, <4>3, <4>4
    <3> QED BY <3>1, <3>2
  <2>4. CASE Crash
    BY <2>1, <2>2, <2>4 DEF Crash, runs
  <2>5. CASE Restart \/ UNCHANGED vars
    BY <2>1, <2>5 DEF Restart, vars, runs
  <2> QED
    BY <2>3, <2>4, <2>5 DEF Next, StepOf, Quiescent
<1> QED
  BY <1>1, <1>2, TypeCorrect, WorkerCorrect, PTL DEF Spec, TypeInv

(* The measure of StepsLeft as a function of where the task is: the label, *)
(* the number of slots, the current one and the attempt.                   *)
SlotMeter(l, a) ==
  CASE l = "insert" -> 8
    [] l = "generate" -> 7 - a
    [] l = "mark_generated" -> 5
    [] l = "upload" -> 4
    [] l = "mark_uploaded" -> 3
    [] l \in {"flag_drift", "mark_failed"} -> 2
    [] l \in {"ok_call", "error_call"} -> 1

EndMeter(l) ==
  CASE l = "roll_up" -> 4
    [] l = "mark_ok" -> 3
    [] l \in {"callback", "except"} -> 2
    [] l = "release" -> 1
    [] OTHER -> 0

Meter(l, n, c, a) ==
  CASE l = "accepted" -> 12 * n + 8
    [] l = "acquire" -> 12 * n + 7
    [] l \in SlotSteps /\ c = 1 -> 12 * n - 2 + SlotMeter(l, a)
    [] l = "batch_insert" -> 11 * n + (n - c)
    [] l = "batch_generate" -> 11 * n - 1
    [] l = "batch_abort" -> 10 * n + (n - c)
    [] l \in SlotSteps /\ c # 1 -> 4 + 8 * (n - c) + SlotMeter(l, a)
    [] OTHER -> EndMeter(l)

LEMMA StepsLeftIsMeter ==
  ASSUME NEW r \in Run
  PROVE  /\ StepsLeft(r) = Meter(pc[r], Len(Order(r)), cur[r], attempt[r])
         /\ StepsLeft(r)' = Meter(pc'[r], Len(Order(r))', cur'[r], attempt'[r])
<1>1. /\ SlotStepsLeft(r) = SlotMeter(pc[r], attempt[r])
      /\ SlotStepsLeft(r)' = SlotMeter(pc'[r], attempt'[r])
  BY DEF SlotStepsLeft, SlotMeter
<1>2. EndStepsLeft(r) = EndMeter(pc[r]) /\ EndStepsLeft(r)' = EndMeter(pc'[r])
  BY DEF EndStepsLeft, EndMeter
<1> QED BY <1>1, <1>2 DEF StepsLeft, Meter

LEMMA SlotMeterValues ==
  ASSUME NEW a \in 0..MaxRetries
  PROVE  /\ SlotMeter("insert", a) = 8 /\ SlotMeter("generate", a) = 7 - a
         /\ SlotMeter("mark_generated", a) = 5 /\ SlotMeter("upload", a) = 4
         /\ SlotMeter("mark_uploaded", a) = 3 /\ SlotMeter("flag_drift", a) = 2
         /\ SlotMeter("mark_failed", a) = 2 /\ SlotMeter("ok_call", a) = 1
         /\ SlotMeter("error_call", a) = 1
         /\ \A l \in SlotSteps : SlotMeter(l, a) \in 1..8
BY DEF SlotMeter, SlotSteps, MaxRetries

MeterTable(n, c, a) ==
  /\ Meter("accepted", n, c, a) = 12 * n + 8
  /\ Meter("acquire", n, c, a) = 12 * n + 7
  /\ \A l \in SlotSteps :
       /\ c = 1 => Meter(l, n, c, a) = 12 * n - 2 + SlotMeter(l, a)
       /\ c # 1 => Meter(l, n, c, a) = 4 + 8 * (n - c) + SlotMeter(l, a)
  /\ Meter("batch_insert", n, c, a) = 11 * n + (n - c)
  /\ Meter("batch_generate", n, c, a) = 11 * n - 1
  /\ Meter("batch_abort", n, c, a) = 10 * n + (n - c)
  /\ Meter("roll_up", n, c, a) = 4 /\ Meter("mark_ok", n, c, a) = 3
  /\ Meter("callback", n, c, a) = 2 /\ Meter("except", n, c, a) = 2
  /\ Meter("release", n, c, a) = 1 /\ Meter("done", n, c, a) = 0

LEMMA MeterValues ==
  ASSUME NEW n \in Nat, NEW c \in Nat, NEW a \in 0..MaxRetries
  PROVE  MeterTable(n, c, a)
BY DEF MeterTable, Meter, EndMeter, SlotSteps

LEMMA EndedMeter ==
  ASSUME NEW n, NEW c, NEW a
  PROVE  /\ Meter("idle", n, c, a) = 0
         /\ Meter("done", n, c, a) = 0 /\ Meter("dead", n, c, a) = 0
BY DEF Meter, EndMeter, SlotSteps

(* More than the handler of an exception has to do.                        *)
LEMMA TryMeter ==
  ASSUME NEW n \in Nat, NEW c \in 1..n, NEW a \in 0..MaxRetries, NEW l \in TryBlock
  PROVE  Meter(l, n, c, a) \in Nat /\ Meter(l, n, c, a) > 2
<1>0. MeterTable(n, c, a)
  BY MeterValues
<1>1. CASE l \in SlotSteps
  <2>1. SlotMeter(l, a) \in 1..8
    BY <1>1, SlotMeterValues
  <2>2. Meter(l, n, c, a) = 12 * n - 2 + SlotMeter(l, a)
        \/ Meter(l, n, c, a) = 4 + 8 * (n - c) + SlotMeter(l, a)
    BY <1>0, <1>1 DEF MeterTable
  <2>3. c <= n /\ n >= 1
    OBVIOUS
  <2> QED BY <2>1, <2>2, <2>3
<1>2. CASE l \in BatchSteps \cup {"roll_up", "mark_ok"}
  <2>1. \/ Meter(l, n, c, a) = 11 * n + (n - c) \/ Meter(l, n, c, a) = 11 * n - 1
        \/ Meter(l, n, c, a) = 10 * n + (n - c) \/ Meter(l, n, c, a) \in {3, 4}
    BY <1>0, <1>2 DEF MeterTable, BatchSteps
  <2>2. c <= n /\ n >= 1
    OBVIOUS
  <2> QED BY <2>1, <2>2
<1> QED BY <1>1, <1>2 DEF TryBlock

LEMMA MeterIsNat ==
  ASSUME NEW n \in Nat, NEW c \in 1..n, NEW a \in 0..MaxRetries, NEW l \in Live
  PROVE  Meter(l, n, c, a) \in Nat
<1>1. CASE l \in TryBlock
  BY <1>1, TryMeter
<1>2. CASE l \in {"accepted", "acquire", "callback", "except", "release"}
  <2>1. MeterTable(n, c, a)
    BY MeterValues
  <2>2. Meter(l, n, c, a) \in {12 * n + 8, 12 * n + 7, 1, 2}
    BY <1>2, <2>1 DEF MeterTable
  <2> QED BY <2>2
<1> QED BY <1>1, <1>2, Labels

LeftIsNat == \A r \in Run : StepsLeft(r) \in Nat

LEMMA PackLeftIsNat == TypeInv => LeftIsNat
<1> SUFFICES ASSUME TypeInv, NEW r \in Run PROVE StepsLeft(r) \in Nat
  BY DEF LeftIsNat
<1>1. CASE pc[r] \in Live
  <2>1. pc[r] # "idle" /\ attempt[r] \in 0..MaxRetries
    BY <1>1, Labels DEF TypeInv, TypeOK
  <2> QED BY <1>1, <2>1, MeterIsNat, CurrentAsset, StepsLeftIsMeter
<1>2. CASE pc[r] \in {"idle", "done", "dead"}
  BY <1>2, EndedMeter, StepsLeftIsMeter
<1> QED BY <1>1, <1>2, Labels DEF TypeInv, TypeOK

(* Each step of a task takes at least one off.                             *)
LEMMA PackStepTakesOne ==
  ASSUME TypeInv, NEW r \in Run, RunInv(r),
         SpawnTask(r) \/ AcquirePermit(r) \/ Task(r)
  PROVE  StepsLeft(r)' < StepsLeft(r)
<1> DEFINE n == Len(Order(r))
           c == cur[r]
           a == attempt[r]
<1>live. pc[r] \in Live
  BY Labels DEF Task, SpawnTask, AcquirePermit, InsertPending, ProviderSucceeds, ProviderFails,
     Moves, MarkFailed, RecordErrorCall, MarkGenerated, Upload, MarkUploaded, FlagDrift,
     RecordOkCall, BatchInsert, BatchSucceeds, BatchFails, BatchAbort, RollUpCost, MarkRunOk,
     EmitCallback, SendCallback, LoseCallback, Raise, RecordFailure, LoseFailure, ReleasePermit
<1>types. /\ n \in Nat /\ n >= 1 /\ c \in 1..n /\ c \in Nat /\ a \in 0..MaxRetries
          /\ pc \in [Run -> PC] /\ cur \in [Run -> Nat \ {0}] /\ attempt \in [Run -> 0..MaxRetries]
  BY <1>live, Labels, CurrentAsset DEF TypeInv, TypeOK
<1>0. pack' = pack
  BY DEF Task, SpawnTask, AcquirePermit, InsertPending, ProviderSucceeds, ProviderFails,
     Moves, MarkFailed, RecordErrorCall, Record, MarkGenerated, Upload, MarkUploaded, FlagDrift,
     RecordOkCall, BatchInsert, BatchSucceeds, BatchFails, BatchAbort, RollUpCost, MarkRunOk,
     EmitCallback, SendCallback, LoseCallback, Raise, RecordFailure, LoseFailure, ReleasePermit, CloseRun, locals
<1>m. StepsLeft(r) = Meter(pc[r], n, c, a) /\ StepsLeft(r)' = Meter(pc'[r], n, cur'[r], attempt'[r])
  BY <1>0, StepsLeftIsMeter DEF Order
<1> HIDE DEF n, c, a
<1>v. MeterTable(n, c, a)
  BY <1>types, MeterValues
<1> USE DEF Goto
<1>1. CASE SpawnTask(r) \/ AcquirePermit(r)
  <2>1. /\ cur'[r] = c /\ attempt'[r] = a
        /\ \/ pc[r] = "accepted" /\ pc'[r] = "acquire"
           \/ pc[r] = "acquire" /\ pc'[r] = "insert"
    BY <1>1, <1>types DEF SpawnTask, AcquirePermit, Moves, locals, c, a
  <2>2. "insert" \in SlotSteps
    BY DEF SlotSteps
  <2> QED BY <2>1, <2>2, <1>m, <1>v, <1>types, SlotMeterValues DEF MeterTable
<1>2. CASE InsertPending(r)
  <2>1. /\ pc[r] = "insert" /\ pc'[r] = "generate" /\ cur'[r] = c /\ attempt'[r] = 0
        /\ 0 \in 0..MaxRetries
    BY <1>2, <1>types DEF InsertPending, c, MaxRetries
  <2>2. Meter("generate", n, c, 0) < Meter("insert", n, c, a)
    <3>1. "generate" \in SlotSteps /\ "insert" \in SlotSteps
      BY DEF SlotSteps
    <3>2. MeterTable(n, c, 0)
      BY <2>1, <1>types, MeterValues
    <3>3. SlotMeter("generate", 0) = 7 - 0 /\ SlotMeter("insert", a) = 8
      BY <2>1, <1>types, SlotMeterValues
    <3> QED BY <3>1, <3>2, <3>3, <1>v, <1>types DEF MeterTable
  <2> QED BY <2>1, <2>2, <1>m
<1>3. CASE ProviderFails(r) /\ pc' = pc
  <2>1. /\ pc[r] = "generate" /\ pc'[r] = "generate" /\ cur'[r] = c /\ attempt'[r] = a + 1
        /\ a + 1 \in 0..MaxRetries
    BY <1>3, <1>types DEF ProviderFails, Moves, MaxRetries, c, a
  <2>2. Meter("generate", n, c, a + 1) < Meter("generate", n, c, a)
    <3>1. "generate" \in SlotSteps
      BY DEF SlotSteps
    <3>2. /\ MeterTable(n, c, a + 1) /\ a \in Nat
          /\ SlotMeter("generate", a + 1) = 7 - (a + 1) /\ SlotMeter("generate", a) = 7 - a
      BY <2>1, <1>types, MeterValues, SlotMeterValues
    <3> QED BY <3>1, <3>2, <1>v, <1>types DEF MeterTable
  <2> QED BY <2>1, <2>2, <1>m
<1>4. CASE \/ ProviderSucceeds(r) \/ Moves(r, "generate", "mark_failed") \/ MarkFailed(r)
           \/ MarkGenerated(r) \/ Upload(r) \/ MarkUploaded(r) \/ FlagDrift(r)
  <2>1. cur'[r] = c /\ attempt'[r] = a
    BY <1>4, <1>types DEF ProviderSucceeds, Moves, MarkFailed, MarkGenerated, Upload,
       MarkUploaded, FlagDrift, locals, c, a
  <2>2. \/ pc[r] = "generate" /\ pc'[r] \in {"mark_generated", "mark_failed"}
        \/ pc[r] = "mark_failed" /\ pc'[r] = "error_call"
        \/ pc[r] = "mark_generated" /\ pc'[r] = "upload"
        \/ pc[r] = "upload" /\ pc'[r] = "mark_uploaded"
        \/ pc[r] = "mark_uploaded" /\ pc'[r] \in {"flag_drift", "ok_call"}
        \/ pc[r] = "flag_drift" /\ pc'[r] = "ok_call"
    BY <1>4, <1>types DEF ProviderSucceeds, Moves, MarkFailed, MarkGenerated, Upload,
       MarkUploaded, FlagDrift
  <2>3. pc[r] \in SlotSteps /\ pc'[r] \in SlotSteps
    BY <2>2 DEF SlotSteps
  <2>4. SlotMeter(pc'[r], a) < SlotMeter(pc[r], a)
    BY <2>2, <1>types, SlotMeterValues DEF MaxRetries
  <2>5. SlotMeter(pc'[r], a) \in Int /\ SlotMeter(pc[r], a) \in Int
    BY <2>3, <1>types, SlotMeterValues
  <2> QED BY <2>1, <2>3, <2>4, <2>5, <1>m, <1>v, <1>types DEF MeterTable
<1>5. CASE RecordErrorCall(r) \/ RecordOkCall(r)
  <2>1. /\ pc[r] \in {"error_call", "ok_call"} /\ pc[r] \in SlotSteps /\ attempt'[r] = a
        /\ \E o \in {"failed", "uploaded"} : NextSlot(r, o)
    BY <1>5 DEF RecordErrorCall, RecordOkCall, Record, SlotSteps, a
  <2>2. \/ c = n /\ pc'[r] = "roll_up" /\ cur'[r] = c
        \/ /\ c < n /\ cur'[r] = c + 1
           /\ pc'[r] \in {"batch_insert", "mark_generated", "insert"}
           /\ pc'[r] = "batch_insert" => c = 1
    BY <2>1, <1>types DEF NextSlot, IsLast, c, n
  <2>3. SlotMeter(pc[r], a) = 1
    BY <2>1, <1>types, SlotMeterValues
  <2>4. CASE pc'[r] = "roll_up"
    BY <2>1, <2>2, <2>3, <2>4, <1>m, <1>v, <1>types DEF MeterTable
  <2>5. CASE pc'[r] = "batch_insert"
    <3>w. MeterTable(n, 2, a)
      BY <1>types, MeterValues
    <3>0. c = 1 /\ cur'[r] = 2
      BY <2>2, <2>5, <1>types
    <3>1. StepsLeft(r)' = 11 * n + (n - 2) /\ StepsLeft(r) = 12 * n - 2 + 1
      BY <2>1, <2>3, <2>5, <3>0, <3>w, <1>m, <1>v DEF MeterTable
    <3> QED BY <3>1, <1>types
  <2>6. CASE pc'[r] \in {"mark_generated", "insert"}
    <3>1. pc'[r] \in SlotSteps /\ cur'[r] = c + 1 /\ c + 1 \in Nat /\ c + 1 # 1 /\ c < n
      BY <2>2, <2>6, <1>types DEF SlotSteps
    <3>2. SlotMeter(pc'[r], a) \in 5..8
      BY <2>6, <1>types, SlotMeterValues
    <3>5. MeterTable(n, c + 1, a)
      BY <3>1, <1>types, MeterValues
    <3>3. StepsLeft(r)' = 4 + 8 * (n - (c + 1)) + SlotMeter(pc'[r], a)
      BY <2>1, <3>1, <3>5, <1>m DEF MeterTable
    <3>4. StepsLeft(r) = 12 * n - 2 + 1 \/ StepsLeft(r) = 4 + 8 * (n - c) + 1
      BY <2>1, <2>3, <1>m, <1>v DEF MeterTable
    <3> QED BY <3>1, <3>2, <3>3, <3>4, <1>types
  <2> QED BY <2>2, <2>4, <2>5, <2>6
<1>6. CASE BatchInsert(r) \/ BatchAbort(r)
  <2>1. c >= 2 /\ attempt'[r] = a
    BY <1>6, <1>types DEF BatchInsert, BatchAbort, TypeInv, PositionOK, BatchSteps, c, a
  <2>2. /\ pc[r] \in {"batch_insert", "batch_abort"}
        /\ \/ c < n /\ cur'[r] = c + 1 /\ pc'[r] = pc[r]
           \/ /\ c = n /\ cur'[r] = 2
              /\ pc[r] = "batch_insert" => pc'[r] = "batch_generate"
              /\ pc[r] = "batch_abort" => pc'[r] = "insert"
    BY <1>6, <1>types DEF BatchInsert, BatchAbort, LoopRemainder, IsLast, c, n
  <2>w. MeterTable(n, c + 1, a) /\ MeterTable(n, 2, a)
    BY <1>types, MeterValues
  <2>3. CASE pc[r] = "batch_insert"
    <3>1. StepsLeft(r) = 11 * n + (n - c)
      BY <2>3, <1>m, <1>v DEF MeterTable
    <3>2. StepsLeft(r)' = 11 * n + (n - (c + 1)) \/ StepsLeft(r)' = 11 * n - 1
      BY <2>1, <2>2, <2>3, <2>w, <1>m DEF MeterTable
    <3>3. c <= n
      BY <1>types
    <3> QED BY <3>1, <3>2, <3>3, <1>types
  <2>4. CASE pc[r] = "batch_abort" /\ pc'[r] = "batch_abort"
    <3>1. StepsLeft(r) = 10 * n + (n - c)
      BY <2>4, <1>m, <1>v DEF MeterTable
    <3>2. StepsLeft(r)' = 10 * n + (n - (c + 1))
      BY <2>1, <2>2, <2>4, <2>w, <1>m DEF MeterTable
    <3> QED BY <3>1, <3>2, <1>types
  <2>5. CASE pc[r] = "batch_abort" /\ pc'[r] = "insert"
    <3>1. "insert" \in SlotSteps
      BY DEF SlotSteps
    <3>2. StepsLeft(r)' = 4 + 8 * (n - 2) + 8
      BY <2>1, <2>2, <2>5, <2>w, <3>1, <1>m, <1>types, SlotMeterValues DEF MeterTable
    <3>3. StepsLeft(r) = 10 * n + (n - c)
      BY <2>5, <1>m, <1>v DEF MeterTable
    <3>4. c <= n
      BY <1>types
    <3> QED BY <3>2, <3>3, <3>4, <1>types
  <2> QED BY <2>2, <2>3, <2>4, <2>5
<1>7. CASE BatchSucceeds(r) \/ BatchFails(r)
  <2>1. /\ pc[r] = "batch_generate" /\ cur'[r] = c /\ attempt'[r] = a
        /\ pc'[r] \in {"mark_generated", "batch_abort"}
    BY <1>7, <1>types DEF BatchSucceeds, BatchFails, Moves, locals, c, a
  <2>2. c = 2
    BY <2>1 DEF RunInv, ControlInv, c
  <2>3. StepsLeft(r) = 11 * n - 1
    BY <2>1, <1>m, <1>v DEF MeterTable
  <2>4. CASE pc'[r] = "batch_abort"
    <3>1. StepsLeft(r)' = 10 * n + (n - 2)
      BY <2>1, <2>2, <2>4, <1>m, <1>v DEF MeterTable
    <3> QED BY <2>3, <3>1, <1>types
  <2>5. CASE pc'[r] = "mark_generated"
    <3>1. "mark_generated" \in SlotSteps
      BY DEF SlotSteps
    <3>2. StepsLeft(r)' = 4 + 8 * (n - 2) + 5
      BY <2>1, <2>2, <2>5, <3>1, <1>m, <1>v, <1>types, SlotMeterValues DEF MeterTable
    <3> QED BY <2>3, <3>2, <1>types
  <2> QED BY <2>1, <2>4, <2>5
<1>8. CASE \/ RollUpCost(r) \/ MarkRunOk(r) \/ EmitCallback(r) \/ LoseCallback(r)
           \/ RecordFailure(r) \/ LoseFailure(r) \/ ReleasePermit(r)
  <2>1. cur'[r] = c /\ attempt'[r] = a
    BY <1>8, <1>types DEF RollUpCost, MarkRunOk, EmitCallback, SendCallback, LoseCallback, Moves,
       RecordFailure, LoseFailure, ReleasePermit, CloseRun, locals, c, a
  <2>2. \/ pc[r] = "roll_up" /\ pc'[r] = "mark_ok"
        \/ pc[r] = "mark_ok" /\ pc'[r] = "callback"
        \/ pc[r] \in {"callback", "except"} /\ pc'[r] = "release"
        \/ pc[r] = "release" /\ pc'[r] = "done"
    BY <1>8, <1>types DEF RollUpCost, MarkRunOk, EmitCallback, SendCallback, LoseCallback, Moves,
       RecordFailure, LoseFailure, ReleasePermit
  <2> QED BY <2>1, <2>2, <1>m, <1>v DEF MeterTable
<1>9. CASE Raise(r)
  <2>1. pc[r] \in TryBlock /\ pc'[r] = "except" /\ cur'[r] = c /\ attempt'[r] = a
    BY <1>9, <1>types DEF Raise, Moves, locals, c, a
  <2>2. StepsLeft(r) \in Nat /\ StepsLeft(r) > 2
    BY <2>1, <1>m, <1>types, TryMeter
  <2>3. StepsLeft(r)' = 2
    BY <2>1, <1>m, <1>v DEF MeterTable
  <2> QED BY <2>2, <2>3
<1>10. ProviderFails(r) => pc' = pc \/ Moves(r, "generate", "mark_failed")
  BY DEF ProviderFails
<1> QED
  BY <1>1, <1>2, <1>3, <1>4, <1>5, <1>6, <1>7, <1>8, <1>9, <1>10 DEF Task

(* What the tasks of other runs and the process do adds nothing.           *)
LEMMA PackLeftKept ==
  ASSUME TypeInv, WorkerInv, LeftIsNat, LeftIsNat', [Next]_vars,
         NEW q \in Run, pc[q] \in Live
  PROVE  StepsLeft(q)' <= StepsLeft(q)
<1>0. StepsLeft(q) \in Nat /\ StepsLeft(q)' \in Nat
  BY DEF LeftIsNat
<1>1. ASSUME pc'[q] = pc[q], pack'[q] = pack[q], cur'[q] = cur[q], attempt'[q] = attempt[q]
      PROVE  StepsLeft(q)' <= StepsLeft(q)
  BY <1>0, <1>1, StepsLeftIsMeter DEF Order
<1>2. ASSUME pc'[q] = "dead"
      PROVE  StepsLeft(q)' <= StepsLeft(q)
  BY <1>0, <1>2, StepsLeftIsMeter, EndedMeter
<1>3. ASSUME NEW r \in Run, StepOf(r)
      PROVE  StepsLeft(q)' <= StepsLeft(q)
  <2>1. CASE r # q
    <3>1. attempt'[q] = attempt[q]
      BY <1>3, <2>1 DEF StepOf, Task, AcceptPack, SpawnTask, AbandonRequest,
         AcquirePermit, InsertPending, ProviderSucceeds, ProviderFails, Moves, MarkFailed,
         RecordErrorCall, Record, MarkGenerated, Upload, MarkUploaded, FlagDrift, RecordOkCall,
         BatchInsert, BatchSucceeds, BatchFails, BatchAbort, RollUpCost, MarkRunOk,
         EmitCallback, SendCallback, LoseCallback, Raise, RecordFailure, LoseFailure, ReleasePermit, Cancel,
         CloseRun, TypeInv, TypeOK, locals
    <3> QED BY <1>1, <1>3, <2>1, <3>1, StepFrame DEF SameRun
  <2>2. CASE r = q
    <3>1. pc[q] # "idle" /\ RunInv(q) /\ pc \in [Run -> PC]
      BY Labels DEF WorkerInv, TypeInv, TypeOK
    <3>2. CASE AbandonRequest(q)
      BY <1>2, <3>1, <3>2 DEF AbandonRequest, Moves, Goto
    <3>3. CASE SpawnTask(q) \/ AcquirePermit(q) \/ Task(q)
      <4>1. StepsLeft(q)' < StepsLeft(q)
        BY <3>1, <3>3, PackStepTakesOne
      <4> QED BY <1>0, <4>1
    <3>4. CASE Cancel(q)
      <4>1. CASE pc[q] = "acquire"
        BY <1>2, <3>1, <3>4, <4>1, Labels DEF Cancel, SendCallback, Moves, Goto
      <4>2. CASE pc[q] # "acquire"
        <5>1. /\ UNCHANGED <<pack, cur, attempt>>
              /\ \/ pc[q] \in TryBlock \cup {"callback"} /\ pc'[q] = "except"
                 \/ pc[q] = "except" /\ pc'[q] = "release"
          BY <3>1, <3>4, <4>2 DEF Cancel, SendCallback, Moves, Goto, locals
        <5> DEFINE n == Len(Order(q))
                   c == cur[q]
                   a == attempt[q]
        <5>2. n \in Nat /\ c \in Nat /\ c \in 1..n /\ a \in 0..MaxRetries
          BY <3>1, CurrentAsset DEF TypeInv, TypeOK
        <5>3. StepsLeft(q) = Meter(pc[q], n, c, a) /\ StepsLeft(q)' = Meter(pc'[q], n, c, a)
          BY <5>1, StepsLeftIsMeter DEF Order
        <5> HIDE DEF n, c, a
        <5>4. MeterTable(n, c, a)
          BY <5>2, MeterValues
        <5>5. pc[q] \in TryBlock => StepsLeft(q) > 2
          BY <5>2, <5>3, TryMeter
        <5> QED BY <1>0, <5>1, <5>3, <5>4, <5>5 DEF MeterTable
      <4> QED BY <4>1, <4>2
    <3> QED BY <1>3, <2>2, <3>1, <3>2, <3>3, <3>4 DEF StepOf, AcceptPack
  <2> QED BY <2>1, <2>2
<1>4. CASE Crash
  BY <1>2, <1>4 DEF Crash, TypeInv, TypeOK
<1>5. CASE Restart \/ UNCHANGED vars
  BY <1>1, <1>5 DEF Restart, vars, locals
<1> QED
  BY <1>3, <1>4, <1>5 DEF Next, StepOf, Quiescent

(* A pack of n slots is over after 12n + 8 steps of its request and its    *)
(* task.                                                                   *)
THEOREM PacksAreFinite == Spec => StepsAreCounted
<1>1. TypeInv /\ WorkerInv /\ LeftIsNat /\ LeftIsNat' /\ [Next]_vars =>
        [\A r \in Run :
           /\ StepsLeft(r) \in Nat
           /\ pc[r] \in Live => StepsLeft(r)' <= StepsLeft(r)
           /\ SpawnTask(r) \/ AcquirePermit(r) \/ Task(r) => StepsLeft(r)' < StepsLeft(r)]_vars
  BY PackLeftKept, PackStepTakesOne DEF WorkerInv, LeftIsNat
<1>2. TypeInv => LeftIsNat
  BY PackLeftIsNat
<1> QED
  BY <1>1, <1>2, TypeCorrect, WorkerCorrect, PTL DEF Spec, StepsAreCounted, TypeInv

=============================================================================
