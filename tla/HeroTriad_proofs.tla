-------------------------- MODULE HeroTriad_proofs --------------------------
(***************************************************************************)
(* Proofs about HeroTriad, for any runs, variants, sizes of the semaphore, *)
(* assignments of desktop runs and faults.                                 *)
(***************************************************************************)
EXTENDS HeroTriad, FiniteSetTheorems, SequenceTheorems, TLAPS

LEMMA Labels ==
  /\ Ended = {"none", "ok", "failed", "raised", "lost"}
  /\ Steps = {"none", "ok", "failed", "raised", "lost", "lookup", "cached", "generate",
              "mark", "publish", "record", "mark_failed", "record_failed"}
  /\ Busy = {"load", "wait", "insert", "gather", "close", "close_failed"}
  /\ Alive = {"accepted", "queue", "load", "wait", "insert", "gather", "close",
              "close_failed"}
  /\ PC = {"new", "accepted", "queue", "load", "wait", "insert", "gather", "close",
           "close_failed", "done", "unreported", "lost"}
  /\ Closed = {"ok", "failed"}
  /\ Final = {"complete", "partial", "failed"}
BY DEF Ended, Steps, Busy, Alive, PC, Closed, Final

LEMMA PollStatusRange ==
  ASSUME NEW uploaded \in SUBSET Variant, NEW failed \in SUBSET Variant
  PROVE  /\ PollStatus("running", uploaded, failed) \in {"pending", "running"}
         /\ PollStatus("failed", uploaded, failed) = "failed"
         /\ PollStatus("ok", uploaded, failed) =
              IF uploaded = Variant THEN "complete"
              ELSE IF uploaded = {} THEN "failed" ELSE "partial"
<1>1. Variant # {}
  BY TriadAssumption
<1> QED
  BY <1>1 DEF PollStatus

LEMMA InitTypeOK == Init => TypeOK
<1> SUFFICES ASSUME Init PROVE TypeOK
  OBVIOUS
<1>1. PICK start \in Starts :
        /\ source = start.source
        /\ run = [r \in Run |-> IF r \in start.earlier THEN "ok" ELSE "absent"]
        /\ row = [r \in Run |-> [v \in Variant |->
                    IF r \in start.earlier THEN "uploaded" ELSE "absent"]]
        /\ pc = [r \in Run |-> IF r \in start.earlier THEN "done" ELSE "new"]
        /\ step = [r \in Run |-> [v \in Variant |->
                    IF r \in start.earlier THEN "ok" ELSE "none"]]
  BY DEF Init
<1>2. source \in [Run -> Run \cup {NoRun}]
  BY <1>1, TriadAssumption
<1>3. << >> \in Seq(Run)
  BY EmptySeq
<1> QED
  BY <1>1, <1>2, <1>3, Labels, TriadAssumption DEF Init, TypeOK

-----------------------------------------------------------------------------
(* Type correctness. *)

LEMMA SetRowTypeOK ==
  ASSUME TypeOK, NEW r \in Run, NEW v \in Variant,
         NEW s \in {"absent", "pending", "generated", "uploaded", "failed", "superseded"},
         SetRow(r, v, s)
  PROVE  row' \in [Run -> [Variant -> {"absent", "pending", "generated", "uploaded",
                                       "failed", "superseded"}]]
BY DEF TypeOK, SetRow

LEMMA StepTypeOK ==
  ASSUME TypeOK, NEW r \in Run, NEW v \in Variant, NEW s \in Steps, Step(r, v, s)
  PROVE  step' \in [Run -> [Variant -> Steps]]
BY DEF TypeOK, Step

LEMMA GotoTypeOK ==
  ASSUME TypeOK, NEW r \in Run, NEW s \in PC, Goto(r, s)
  PROVE  pc' \in [Run -> PC]
BY DEF TypeOK, Goto

LEMMA TaskTypeOK ==
  ASSUME TypeOK, NEW r \in Run, Accept(r) \/ Task(r) \/ Raise(r)
  PROVE  TypeOK'
<1> USE DEF config, semaphore, polls
<1>1. CASE Accept(r)
  BY <1>1, GotoTypeOK, Labels DEF Accept, TypeOK
<1>2. CASE Spawn(r)
  <2>1. Append(queue, r) \in Seq(Run)
    BY AppendProperties DEF TypeOK
  <2>2. pc' \in [Run -> PC]
    BY <1>2, GotoTypeOK, Labels DEF Spawn
  <2> QED
    BY <1>2, <2>1, <2>2 DEF Spawn, TypeOK
<1>3. CASE AcquirePermit(r)
  <2>1. Tail(queue) \in Seq(Run)
    BY <1>3, HeadTailProperties DEF AcquirePermit, TypeOK
  <2>2. pc' \in [Run -> PC]
    BY <1>3, GotoTypeOK, Labels DEF AcquirePermit
  <2> QED
    BY <1>3, <2>1, <2>2 DEF AcquirePermit, TypeOK
<1>4. CASE LoadRun(r) \/ SeedsReady(r) \/ SeedsTimeOut(r) \/ Gather(r) \/ Raise(r)
  <2>1. pc' \in [Run -> PC]
    BY <1>4, GotoTypeOK, Labels DEF LoadRun, SeedsReady, SeedsTimeOut, Gather, Raise
  <2> QED
    BY <1>4, <2>1 DEF LoadRun, SeedsReady, SeedsTimeOut, Gather, Raise, TypeOK
<1>5. CASE InsertVariant(r)
  <2>1. PICK v \in Variant : SetRow(r, v, "pending")
    BY <1>5 DEF InsertVariant, InStatus
  <2>2. row' \in [Run -> [Variant -> {"absent", "pending", "generated", "uploaded",
                                      "failed", "superseded"}]]
    BY <2>1, SetRowTypeOK
  <2> QED
    BY <1>5, <2>2 DEF InsertVariant, TypeOK
<1>6. CASE StartVariants(r)
  <2>1. pc' \in [Run -> PC]
    BY <1>6, GotoTypeOK, Labels DEF StartVariants
  <2>2. step' \in [Run -> [Variant -> Steps]]
    BY <1>6, Labels DEF StartVariants, TypeOK
  <2> QED
    BY <1>6, <2>1, <2>2 DEF StartVariants, TypeOK
<1>7. CASE Close(r) \/ CloseFailed(r)
  <2>1. pc' \in [Run -> PC]
    BY <1>7, GotoTypeOK, Labels DEF Close, CloseFailed
  <2>2. run' \in [Run -> {"absent", "running"} \cup Closed]
    BY <1>7, Labels DEF Close, CloseFailed, TypeOK
  <2> QED
    BY <1>7, <2>1, <2>2 DEF Close, CloseFailed, TypeOK
<1> QED
  BY <1>1, <1>2, <1>3, <1>4, <1>5, <1>6, <1>7 DEF Task

LEMMA VariantTypeOK ==
  ASSUME TypeOK, NEW r \in Run, NEW v \in Variant,
         VariantTask(r, v) \/ VariantRaises(r, v) \/ Supersede(r, v)
  PROVE  TypeOK'
<1> USE DEF config, semaphore, polls
<1>1. CASE LookUp(r, v) \/ FinalizeCached(r, v) \/ Generate(r, v) \/ Record(r, v) \/ VariantRaises(r, v)
  <2>1. step' \in [Run -> [Variant -> Steps]]
    BY <1>1, StepTypeOK, Labels DEF LookUp, FinalizeCached, Generate, Record, VariantRaises
  <2> QED
    BY <1>1, <2>1 DEF LookUp, FinalizeCached, Generate, Record, VariantRaises, TypeOK
<1>2. CASE MarkGenerated(r, v) \/ MarkUploaded(r, v) \/ MarkFailed(r, v)
  <2>1. step' \in [Run -> [Variant -> Steps]]
    BY <1>2, StepTypeOK, Labels DEF MarkGenerated, MarkUploaded, MarkFailed
  <2>2. row' \in [Run -> [Variant -> {"absent", "pending", "generated", "uploaded",
                                      "failed", "superseded"}]]
    BY <1>2, SetRowTypeOK DEF MarkGenerated, MarkUploaded, MarkFailed
  <2> QED
    BY <1>2, <2>1, <2>2 DEF MarkGenerated, MarkUploaded, MarkFailed, TypeOK
<1>3. CASE Supersede(r, v)
  <2>1. row' \in [Run -> [Variant -> {"absent", "pending", "generated", "uploaded",
                                      "failed", "superseded"}]]
    BY <1>3, SetRowTypeOK DEF Supersede
  <2> QED
    BY <1>3, <2>1 DEF Supersede, TypeOK
<1> QED
  BY <1>1, <1>2, <1>3 DEF VariantTask

LEMMA PollTypeOK ==
  ASSUME TypeOK, NEW r \in Run, PollRun(r) \/ PollRows(r) \/ LabStep(r)
  PROVE  TypeOK'
<1> USE DEF config, semaphore
<1>1. CASE PollRun(r)
  BY <1>1, Labels DEF PollRun, TypeOK
<1>2. CASE PollRows(r)
  BY <1>2 DEF PollRows, TypeOK
<1>3. CASE Suspect(r) \/ Spare(r)
  BY <1>3 DEF Suspect, Spare, TypeOK
<1>4. CASE Reconcile(r)
  BY <1>4, Labels DEF Reconcile, TypeOK
<1> QED
  BY <1>1, <1>2, <1>3, <1>4 DEF LabStep

LEMMA CrashTypeOK == TypeOK /\ Crash => TypeOK'
<1> SUFFICES ASSUME TypeOK, Crash PROVE TypeOK'
  OBVIOUS
<1>1. << >> \in Seq(Run)
  BY EmptySeq
<1>2. step' \in [Run -> [Variant -> Steps]]
  BY Labels DEF Crash, TypeOK
<1> QED
  BY <1>1, <1>2, Labels DEF Crash, TypeOK, config

LEMMA NextTypeOK == TypeOK /\ [Next]_vars => TypeOK'
<1> SUFFICES ASSUME TypeOK, [Next]_vars PROVE TypeOK'
  OBVIOUS
<1>1. CASE UNCHANGED vars
  BY <1>1 DEF TypeOK, vars, config, semaphore, polls
<1>2. CASE Next
  BY <1>2, TaskTypeOK, VariantTypeOK, PollTypeOK, CrashTypeOK DEF Next
<1> QED
  BY <1>1, <1>2

(* The type invariant of the triad worker. *)
THEOREM TypeCorrect == Spec => []TypeOK
BY InitTypeOK, NextTypeOK, PTL DEF Spec

-----------------------------------------------------------------------------
(* The inductive invariant, one run at a time.                             *)

PollPart(r) == r \notin Lab => PollHolds(r) /\ PollTellsTruth(r)

RunHolds(r) ==
  /\ TaskHolds(r) /\ PollPart(r)
  /\ \A v \in Variant : VariantHolds(r, v)

SameTask(r) == run'[r] = run[r] /\ pc'[r] = pc[r]
SameVariants(r) == row'[r] = row[r] /\ step'[r] = step[r]
SamePoll(r) ==
  /\ look'[r] = look[r] /\ poll'[r] = poll[r]
  /\ (r \in suspect)' <=> r \in suspect

(* A run that a step does not touch keeps its part of the invariant.       *)
LEMMA Frame ==
  ASSUME NEW r \in Run, RunHolds(r), SameTask(r), SameVariants(r), SamePoll(r)
  PROVE  RunHolds(r)'
<1> USE DEF SameTask, SameVariants, SamePoll
<1>1. /\ InStatus(r, "uploaded")' = InStatus(r, "uploaded")
      /\ InStatus(r, "failed")' = InStatus(r, "failed")
      /\ InStatus(r, "superseded")' = InStatus(r, "superseded")
  BY DEF InStatus
<1>2. TaskHolds(r)'
  BY DEF RunHolds, TaskHolds
<1>3. r \notin Lab => PollHolds(r)'
  BY <1>1 DEF RunHolds, PollPart, PollHolds, Answer
<1>4. r \notin Lab => PollTellsTruth(r)'
  BY <1>1 DEF RunHolds, PollPart, PollTellsTruth
<1>5. \A v \in Variant : VariantHolds(r, v)'
  BY DEF RunHolds, VariantHolds
<1> QED
  BY <1>2, <1>3, <1>4, <1>5 DEF RunHolds, PollPart

(* A step of an open run that leaves its rows and its polls alone need not *)
(* be asked about its polls, which have not been final.                    *)
LEMMA OpenRun ==
  ASSUME NEW r \in Run, RunHolds(r), run[r] \notin Closed \/ r \in Lab, SamePoll(r)
  PROVE  PollPart(r)'
<1> SUFFICES ASSUME r \notin Lab PROVE PollHolds(r)' /\ PollTellsTruth(r)'
  BY DEF PollPart
<1>1. look[r] \notin Closed /\ poll[r] \notin Final
  BY DEF RunHolds, PollPart, PollHolds, PollTellsTruth
<1> QED
  BY <1>1, Labels DEF SamePoll, PollHolds, PollTellsTruth

LEMMA InitHolds == Init => \A r \in Run : RunHolds(r)
<1> SUFFICES ASSUME Init, NEW r \in Run PROVE RunHolds(r)
  OBVIOUS
<1>1. PICK start \in Starts :
        /\ run = [q \in Run |-> IF q \in start.earlier THEN "ok" ELSE "absent"]
        /\ row = [q \in Run |-> [v \in Variant |->
                    IF q \in start.earlier THEN "uploaded" ELSE "absent"]]
        /\ pc = [q \in Run |-> IF q \in start.earlier THEN "done" ELSE "new"]
        /\ step = [q \in Run |-> [v \in Variant |->
                    IF q \in start.earlier THEN "ok" ELSE "none"]]
  BY DEF Init
<1>2. look[r] = "none" /\ poll[r] = "none" /\ r \notin suspect
  BY DEF Init
<1>3. PollPart(r)
  BY <1>2, Labels DEF PollPart, PollHolds, PollTellsTruth
<1>4. TaskHolds(r)
  BY <1>1, <1>2, Labels, TriadAssumption DEF TaskHolds
<1>5. \A v \in Variant : VariantHolds(r, v)
  BY <1>1 DEF VariantHolds
<1> QED
  BY <1>3, <1>4, <1>5 DEF RunHolds

LEMMA TaskKeeps ==
  ASSUME TypeOK, NEW q \in Run, Accept(q) \/ Task(q) \/ Raise(q),
         NEW r \in Run, RunHolds(r)
  PROVE  RunHolds(r)'
<1> USE DEF config, semaphore, polls, TypeOK, Goto
<1>1. CASE r # q
  <2>1. SameTask(r) /\ SameVariants(r) /\ SamePoll(r)
    BY <1>1 DEF Accept, Task, Raise, Spawn, AcquirePermit, LoadRun, SeedsReady,
      SeedsTimeOut, InsertVariant, SetRow, StartVariants, Gather, Close, CloseFailed,
      SameTask, SameVariants, SamePoll
  <2> QED
    BY <2>1, Frame
<1>2. CASE r = q
  <2>1. run[r] \notin Closed \/ r \in Lab
    BY <1>2, Labels DEF Accept, Task, Raise, Spawn, AcquirePermit, LoadRun, SeedsReady,
      SeedsTimeOut, InsertVariant, StartVariants, Gather, Close, CloseFailed,
      RunHolds, TaskHolds
  <2>2. SamePoll(r)
    BY DEF Accept, Task, Raise, Spawn, AcquirePermit, LoadRun, SeedsReady,
      SeedsTimeOut, InsertVariant, StartVariants, Gather, Close, CloseFailed, SamePoll
  <2>3. PollPart(r)'
    BY <2>1, <2>2, OpenRun
  <2>4. CASE \/ Accept(r) \/ Spawn(r) \/ AcquirePermit(r) \/ LoadRun(r) \/ SeedsReady(r)
             \/ SeedsTimeOut(r) \/ Gather(r) \/ Close(r) \/ CloseFailed(r) \/ Raise(r)
    <3>1. SameVariants(r)
      BY <2>4 DEF Accept, Spawn, AcquirePermit, LoadRun, SeedsReady, SeedsTimeOut, Gather,
        Close, CloseFailed, Raise, SameVariants
    <3>2. \A v \in Variant : VariantHolds(r, v)'
      BY <3>1 DEF SameVariants, RunHolds, VariantHolds
    <3>3. TaskHolds(r)'
      <4>1. CASE Accept(r) \/ Spawn(r) \/ AcquirePermit(r) \/ Raise(r)
        BY <4>1, Labels DEF Accept, Spawn, AcquirePermit, Raise, RunHolds, TaskHolds
      <4>2. CASE LoadRun(r) \/ SeedsReady(r) \/ SeedsTimeOut(r) \/ Gather(r)
        BY <4>2, Labels DEF LoadRun, SeedsReady, SeedsTimeOut, Gather, RunHolds, TaskHolds
      <4>3. CASE Close(r)
        BY <4>3, Labels DEF Close, RunHolds, TaskHolds
      <4>4. CASE CloseFailed(r)
        BY <4>4, Labels DEF CloseFailed, RunHolds, TaskHolds
      <4> QED
        BY <2>4, <4>1, <4>2, <4>3, <4>4
    <3> QED
      BY <2>3, <3>2, <3>3 DEF RunHolds
  <2>5. CASE InsertVariant(r)
    <3>1. PICK v \in Variant : SetRow(r, v, "pending") /\ row[r][v] = "absent"
      BY <2>5 DEF InsertVariant, InStatus
    <3>2. TaskHolds(r)'
      BY <2>5, <3>1, Labels DEF InsertVariant, SetRow, RunHolds, TaskHolds
    <3>3. \A w \in Variant : VariantHolds(r, w)'
      BY <2>5, <3>1 DEF InsertVariant, SetRow, RunHolds, TaskHolds, VariantHolds
    <3> QED
      BY <2>3, <3>2, <3>3 DEF RunHolds
  <2>6. CASE StartVariants(r)
    <3>1. \A v \in Variant : row[r][v] = "pending"
      BY <2>6 DEF StartVariants, InStatus, RunHolds, TaskHolds
    <3>2. \A v \in Variant : row'[r][v] = "pending" /\ step'[r][v] \in {"generate", "lookup"}
      BY <2>6, <3>1 DEF StartVariants
    <3>3. TaskHolds(r)'
      BY <2>6, Labels DEF StartVariants, RunHolds, TaskHolds
    <3>4. \A v \in Variant : VariantHolds(r, v)'
      BY <3>2 DEF VariantHolds
    <3> QED
      BY <2>3, <3>3, <3>4 DEF RunHolds
  <2> QED
    BY <1>2, <2>4, <2>5, <2>6 DEF Task
<1> QED
  BY <1>1, <1>2

(* A variant that is still busy belongs to a run that gathers.             *)
LEMMA VariantKeeps ==
  ASSUME TypeOK, NEW q \in Run, NEW u \in Variant, VariantTask(q, u) \/ VariantRaises(q, u),
         NEW r \in Run, RunHolds(r)
  PROVE  RunHolds(r)'
<1> USE DEF config, semaphore, polls, TypeOK, Step, SetRow
<1> DEFINE Acts == VariantTask(q, u) \/ VariantRaises(q, u)
<1>1. SameTask(r) /\ SamePoll(r)
  BY DEF VariantTask, VariantRaises, LookUp, FinalizeCached, Generate, MarkGenerated,
    MarkUploaded, MarkFailed, Record, SameTask, SamePoll
<1>2. CASE r # q
  <2>1. SameVariants(r)
    BY <1>2 DEF VariantTask, VariantRaises, LookUp, FinalizeCached, Generate, MarkGenerated,
      MarkUploaded, MarkFailed, Record, SameVariants
  <2> QED
    BY <1>1, <2>1, Frame
<1>3. CASE r = q
  <2>1. step[r][u] \notin Ended
    BY <1>3, Labels DEF VariantTask, VariantRaises, LookUp, FinalizeCached, Generate,
      MarkGenerated, MarkUploaded, MarkFailed, Record
  <2>2. pc[r] = "gather" /\ (run[r] \notin Closed \/ r \in Lab)
    BY <2>1, Labels DEF RunHolds, TaskHolds
  <2>3. PollPart(r)'
    BY <1>1, <2>2, OpenRun
  <2>4. TaskHolds(r)'
    BY <1>1, <2>2, Labels DEF SameTask, SamePoll, RunHolds, TaskHolds
  <2>5. VariantHolds(r, u)'
    <3>1. CASE LookUp(r, u) \/ FinalizeCached(r, u) \/ Generate(r, u) \/ VariantRaises(r, u)
      BY <3>1 DEF LookUp, FinalizeCached, Generate, VariantRaises, RunHolds, VariantHolds
    <3>2. CASE MarkGenerated(r, u) \/ MarkUploaded(r, u) \/ MarkFailed(r, u) \/ Record(r, u)
      BY <3>2 DEF MarkGenerated, MarkUploaded, MarkFailed, Record, RunHolds, VariantHolds
    <3> QED
      BY <1>3, <3>1, <3>2 DEF VariantTask
  <2>6. ASSUME NEW w \in Variant, w # u PROVE VariantHolds(r, w)'
    <3>1. row'[r][w] = row[r][w] /\ step'[r][w] = step[r][w]
      BY <1>3, <2>6 DEF VariantTask, VariantRaises, LookUp, FinalizeCached, Generate,
        MarkGenerated, MarkUploaded, MarkFailed, Record
    <3> QED
      BY <3>1 DEF RunHolds, VariantHolds
  <2> QED
    BY <2>3, <2>4, <2>5, <2>6 DEF RunHolds
<1> QED
  BY <1>2, <1>3

LEMMA SupersedeKeeps ==
  ASSUME TypeOK, NEW q \in Run, NEW u \in Variant, Supersede(q, u),
         NEW r \in Run, RunHolds(r)
  PROVE  RunHolds(r)'
<1> USE DEF config, semaphore, polls, TypeOK, Supersede, SetRow
<1>1. SameTask(r) /\ SamePoll(r) /\ step'[r] = step[r]
  BY DEF SameTask, SamePoll
<1>2. CASE r # q
  <2>1. SameVariants(r)
    BY <1>2 DEF SameVariants
  <2> QED
    BY <1>1, <2>1, Frame
<1>3. CASE r = q
  <2>1. /\ row[r][u] = "uploaded" /\ row'[r][u] = "superseded"
        /\ \A w \in Variant : w # u => row'[r][w] = row[r][w]
    BY <1>3
  <2>2. TaskHolds(r)'
    BY <1>1, <2>1 DEF SameTask, SamePoll, RunHolds, TaskHolds
  <2>3. \A w \in Variant : VariantHolds(r, w)'
    BY <1>1, <2>1 DEF RunHolds, VariantHolds
  <2>4. u \in InStatus(r, "superseded")'
    BY <2>1 DEF InStatus
  <2>5. r \notin Lab => PollHolds(r)'
    BY <1>1, <2>4 DEF SameTask, SamePoll, RunHolds, PollPart, PollHolds
  <2>6. InStatus(r, "uploaded")' \subseteq InStatus(r, "uploaded")
    BY <2>1 DEF InStatus
  <2>7. \A w \in Variant : row[r][w] \in {"uploaded", "superseded"} =>
                            row'[r][w] \in {"uploaded", "superseded"}
    BY <2>1
  <2>8. r \notin Lab => PollTellsTruth(r)'
    BY <1>1, <2>6, <2>7 DEF SameTask, SamePoll, RunHolds, PollPart, PollTellsTruth
  <2> QED
    BY <2>2, <2>3, <2>5, <2>8 DEF RunHolds, PollPart
<1> QED
  BY <1>2, <1>3

(* The answer of a poll that read a closed run is right whenever the rows  *)
(* are read, because a closed run keeps them.                              *)
LEMMA PollKeeps ==
  ASSUME TypeOK, NEW q \in Run, PollRun(q) \/ PollRows(q), NEW r \in Run, RunHolds(r)
  PROVE  RunHolds(r)'
<1> USE DEF config, semaphore, TypeOK
<1>1. SameTask(r) /\ SameVariants(r) /\ suspect' = suspect
  BY DEF PollRun, PollRows, SameTask, SameVariants
<1>2. /\ TaskHolds(r)' /\ (\A v \in Variant : VariantHolds(r, v)')
  BY <1>1 DEF SameTask, SameVariants, RunHolds, TaskHolds, VariantHolds
<1>3. \A s \in {"uploaded", "failed", "superseded"} : InStatus(r, s)' = InStatus(r, s)
  BY <1>1 DEF SameVariants, InStatus
<1>4. CASE r # q
  <2>1. SamePoll(r)
    BY <1>4 DEF PollRun, PollRows, SamePoll
  <2> QED
    BY <1>1, <2>1, Frame
<1>5. CASE r = q /\ PollRun(q)
  <2>1. look'[r] = run[r] /\ poll'[r] = poll[r]
    BY <1>5 DEF PollRun
  <2>2. r \notin Lab => PollHolds(r)'
    BY <1>1, <1>3, <2>1, Labels DEF SameTask, RunHolds, PollPart, PollHolds, PollTellsTruth,
      Answer
  <2>3. r \notin Lab => PollTellsTruth(r)'
    BY <1>1, <1>3, <2>1 DEF SameTask, SameVariants, RunHolds, PollPart, PollTellsTruth
  <2> QED
    BY <1>2, <2>2, <2>3 DEF RunHolds, PollPart
<1>6. CASE r = q /\ PollRows(q) /\ r \notin Lab
  <2> DEFINE U == InStatus(r, "uploaded")
             F == InStatus(r, "failed")
  <2>1. /\ look[r] # "none" /\ look'[r] = "none"
        /\ poll'[r] = IF PollStatus(look[r], U, F) \in Final THEN PollStatus(look[r], U, F)
                      ELSE "none"
    BY <1>6 DEF PollRows, Answer
  <2>2. U \in SUBSET Variant /\ F \in SUBSET Variant
    BY DEF InStatus
  <2> HIDE DEF U, F
  <2>3. /\ PollStatus("running", U, F) \in {"pending", "running"}
        /\ PollStatus("failed", U, F) = "failed"
        /\ PollStatus("ok", U, F) = IF U = Variant THEN "complete"
                                   ELSE IF U = {} THEN "failed" ELSE "partial"
    BY <2>2, PollStatusRange
  <2>4. CASE look[r] = "running"
    <3>1. poll'[r] \notin Final
      BY <2>1, <2>4, <2>3, Labels
    <3>2. PollHolds(r)' /\ PollTellsTruth(r)'
      BY <2>1, <3>1, Labels DEF PollHolds, PollTellsTruth
    <3> QED
      BY <1>2, <3>2 DEF RunHolds, PollPart
  <2>5. CASE look[r] \in Closed
    <3>1. look[r] = run[r] /\ run'[r] = run[r]
      BY <1>1, <1>6, <2>5 DEF SameTask, RunHolds, PollPart, PollHolds
    <3>2. Answer(r, run[r])' = PollStatus(run[r], U, F)
      BY <1>3, <3>1 DEF Answer, U, F
    <3>3. /\ run[r] = "failed" => poll'[r] = "failed"
          /\ run[r] = "ok" => poll'[r] = IF U = Variant THEN "complete"
                                         ELSE IF U = {} THEN "failed" ELSE "partial"
      BY <2>1, <2>3, <3>1, Labels
    <3>4. PollHolds(r)'
      BY <2>1, <2>5, <3>1, <3>2, <3>3, Labels DEF PollHolds
    <3>5. PollTellsTruth(r)'
      <4>1. \A v \in U : row'[r][v] = "uploaded"
        BY <1>1 DEF SameVariants, InStatus, U
      <4>2. InStatus(r, "uploaded")' = U
        BY <1>3 DEF U
      <4> QED
        BY <2>2, <2>5, <3>1, <3>3, <4>1, <4>2, Labels DEF PollTellsTruth
    <3> QED
      BY <1>2, <3>4, <3>5 DEF RunHolds, PollPart
  <2> QED
    BY <2>1, <2>4, <2>5
<1>7. CASE r \in Lab
  BY <1>2, <1>7 DEF RunHolds, PollPart
<1> QED
  BY <1>4, <1>5, <1>6, <1>7

(* A page of the lab suspects no run that was never accepted, and closes   *)
(* only runs of the lab, about whose polls nothing is said.                *)
LEMMA LabKeeps ==
  ASSUME TypeOK, NEW q \in Run, LabStep(q), NEW r \in Run, RunHolds(r)
  PROVE  RunHolds(r)'
<1> USE DEF config, semaphore, TypeOK, LabStep, Suspect, Reconcile, Spare
<1>1. CASE r # q
  <2>1. SameTask(r) /\ SameVariants(r) /\ SamePoll(r)
    BY <1>1 DEF SameTask, SameVariants, SamePoll
  <2> QED
    BY <2>1, Frame
<1>2. CASE r = q
  <2>1. r \in Lab /\ pc' = pc /\ row' = row /\ step' = step
    BY <1>2
  <2>2. PollPart(r)'
    BY <2>1 DEF PollPart
  <2>3. \A v \in Variant : VariantHolds(r, v)'
    BY <2>1 DEF RunHolds, VariantHolds
  <2>4. TaskHolds(r)'
    <3>1. CASE Suspect(r)
      BY <3>1, <2>1 DEF RunHolds, TaskHolds
    <3>2. CASE Reconcile(r)
      <4>1. run'[r] = "failed" /\ r \notin suspect' /\ pc[r] # "new"
        BY <3>2 DEF RunHolds, TaskHolds
      <4> QED
        BY <2>1, <4>1, Labels DEF RunHolds, TaskHolds
    <3>3. CASE Spare(r)
      BY <3>3, <2>1 DEF RunHolds, TaskHolds
    <3> QED
      BY <1>2, <3>1, <3>2, <3>3
  <2> QED
    BY <2>2, <2>3, <2>4 DEF RunHolds
<1> QED
  BY <1>1, <1>2

LEMMA CrashKeeps ==
  ASSUME TypeOK, Crash, NEW r \in Run, RunHolds(r)
  PROVE  RunHolds(r)'
<1> USE DEF config, TypeOK, Crash
<1>1. run' = run /\ row' = row /\ poll' = poll /\ look'[r] = "none" /\ r \notin suspect'
  OBVIOUS
<1>2. \A s \in {"uploaded", "failed", "superseded"} : InStatus(r, s)' = InStatus(r, s)
  BY <1>1 DEF InStatus
<1>3. PollPart(r)'
  BY <1>1, <1>2, Labels DEF RunHolds, PollPart, PollHolds, PollTellsTruth, Answer
<1>4. CASE pc[r] \in Alive
  <2>1. pc'[r] = "lost" /\ \A v \in Variant : step'[r][v] = "lost"
    BY <1>4
  <2>2. TaskHolds(r)'
    BY <1>1, <1>4, <2>1, Labels DEF RunHolds, TaskHolds
  <2>3. \A v \in Variant : VariantHolds(r, v)'
    BY <1>1, <2>1 DEF RunHolds, VariantHolds
  <2> QED
    BY <1>3, <2>2, <2>3 DEF RunHolds
<1>5. CASE pc[r] \notin Alive
  <2>1. pc'[r] = pc[r] /\ step'[r] = step[r]
    BY <1>5
  <2>2. TaskHolds(r)' /\ \A v \in Variant : VariantHolds(r, v)'
    BY <1>1, <2>1 DEF RunHolds, TaskHolds, VariantHolds
  <2> QED
    BY <1>3, <2>2 DEF RunHolds
<1> QED
  BY <1>4, <1>5

LEMMA StepKeeps ==
  ASSUME TypeOK, [Next]_vars, NEW r \in Run, RunHolds(r)
  PROVE  RunHolds(r)'
<1>1. CASE UNCHANGED vars
  BY <1>1, Frame DEF vars, polls, SameTask, SameVariants, SamePoll
<1>2. CASE Next
  BY <1>2, TaskKeeps, VariantKeeps, SupersedeKeeps, PollKeeps, LabKeeps, CrashKeeps DEF Next
<1> QED
  BY <1>1, <1>2

LEMMA HoldsIsTriadInv == TriadInv <=> \A r \in Run : RunHolds(r)
BY DEF TriadInv, RunHolds, PollPart

LEMMA NextTriadInv == TypeOK /\ TriadInv /\ [Next]_vars => TriadInv'
<1> SUFFICES ASSUME TypeOK, TriadInv, [Next]_vars, NEW r \in Run PROVE RunHolds(r)'
  BY DEF TriadInv, RunHolds, PollPart
<1> QED
  BY HoldsIsTriadInv, StepKeeps

(* The labels of tasks and variants, the rows, the runs and the answers to *)
(* polls agree at every moment.                                            *)
THEOREM TriadCorrect == Spec => []TriadInv
<1>1. Init => TriadInv
  BY InitHolds, HoldsIsTriadInv
<1> QED
  BY <1>1, TypeCorrect, NextTriadInv, PTL DEF Spec

-----------------------------------------------------------------------------
(* What a step may never do.                                               *)

LEMMA ClosedRowStays ==
  ASSUME TypeOK, TriadInv, Next, NEW r \in Run \ Lab, NEW v \in Variant, run[r] \in Closed
  PROVE  \/ row'[r][v] = row[r][v]
         \/ row[r][v] = "uploaded" /\ row'[r][v] = "superseded"
<1> USE DEF config, semaphore, polls, TypeOK, SetRow
<1>1. pc[r] = "done" /\ \A u \in Variant : step[r][u] \in Ended
  BY Labels DEF TriadInv, TaskHolds
<1>2. ASSUME NEW q \in Run, Accept(q) \/ Task(q) \/ Raise(q) PROVE row'[r] = row[r]
  BY <1>1, <1>2 DEF Accept, Task, Raise, Spawn, AcquirePermit, LoadRun, SeedsReady,
    SeedsTimeOut, InsertVariant, StartVariants, Gather, Close, CloseFailed
<1>3. ASSUME NEW q \in Run, NEW u \in Variant, VariantTask(q, u) \/ VariantRaises(q, u)
      PROVE  row'[r] = row[r]
  BY <1>1, <1>3, Labels DEF VariantTask, VariantRaises, LookUp, FinalizeCached, Generate,
    MarkGenerated, MarkUploaded, MarkFailed, Record
<1>4. ASSUME NEW q \in Run, NEW u \in Variant, Supersede(q, u)
      PROVE  \/ row'[r][v] = row[r][v]
             \/ row[r][v] = "uploaded" /\ row'[r][v] = "superseded"
  BY <1>4 DEF Supersede
<1>5. ASSUME NEW q \in Run, PollRun(q) \/ PollRows(q) \/ LabStep(q) \/ Crash
      PROVE  row'[r] = row[r]
  BY <1>5 DEF PollRun, PollRows, LabStep, Suspect, Reconcile, Spare, Crash
<1> QED
  BY <1>2, <1>3, <1>4, <1>5 DEF Next

(* No row of a closed run changes, except that a published image is        *)
(* superseded.                                                             *)
THEOREM ClosedRunsAreQuiet == Spec => ClosedRunIsQuiet
<1> DEFINE Quiet == \A r \in Run \ Lab, v \in Variant : run[r] \in Closed =>
                      \/ row'[r][v] = row[r][v]
                      \/ row[r][v] = "uploaded" /\ row'[r][v] = "superseded"
<1>1. TypeOK /\ TriadInv /\ [Next]_vars => [Quiet]_vars
  BY ClosedRowStays
<1> QED
  BY <1>1, TypeCorrect, TriadCorrect, PTL DEF Spec, ClosedRunIsQuiet

LEMMA FinalAnswerStands ==
  ASSUME TypeOK, TriadInv, Next, NEW r \in Run \ Lab, poll[r] \in Final
  PROVE  /\ poll'[r] \in Final
         /\ poll'[r] = poll[r] \/ InStatus(r, "superseded") # {}
<1> USE DEF config, semaphore, polls, TypeOK
<1>1. CASE poll'[r] = poll[r]
  BY <1>1
<1>2. CASE PollRows(r)
  <2>1. /\ look[r] # "none"
        /\ poll'[r] = IF Answer(r, look[r]) \in Final THEN Answer(r, look[r]) ELSE "none"
    BY <1>2 DEF PollRows
  <2>2. look[r] \in Closed
    BY <2>1 DEF TriadInv, PollHolds
  <2>3. look[r] = run[r]
    BY <2>2 DEF TriadInv, PollHolds
  <2>5. Answer(r, look[r]) \in Final
    <3> DEFINE U == InStatus(r, "uploaded")
               F == InStatus(r, "failed")
    <3>1. U \in SUBSET Variant /\ F \in SUBSET Variant
      BY DEF InStatus
    <3>2. look[r] = "ok" \/ look[r] = "failed"
      BY <2>2, Labels
    <3>3. Answer(r, look[r]) = PollStatus(look[r], U, F)
      BY DEF Answer
    <3> HIDE DEF U, F
    <3>4. PollStatus("ok", U, F) \in Final /\ PollStatus("failed", U, F) \in Final
      BY <3>1, PollStatusRange, Labels
    <3> QED
      BY <3>2, <3>3, <3>4
  <2>6. poll[r] = poll'[r] \/ InStatus(r, "superseded") # {}
    BY <2>1, <2>3, <2>5 DEF TriadInv, PollHolds
  <2> QED
    BY <2>1, <2>5, <2>6
<1>3. ASSUME NEW q \in Run, PollRun(q) \/ (PollRows(q) /\ q # r) PROVE poll'[r] = poll[r]
  BY <1>3 DEF PollRun, PollRows
<1>4. ASSUME NEW q \in Run, Accept(q) \/ Task(q) \/ Raise(q) PROVE poll'[r] = poll[r]
  BY <1>4 DEF Accept, Task, Raise, Spawn, AcquirePermit, LoadRun, SeedsReady,
    SeedsTimeOut, InsertVariant, StartVariants, Gather, Close, CloseFailed
<1>5. ASSUME NEW q \in Run, NEW u \in Variant,
             VariantTask(q, u) \/ VariantRaises(q, u) \/ Supersede(q, u)
      PROVE  poll'[r] = poll[r]
  BY <1>5 DEF VariantTask, VariantRaises, LookUp, FinalizeCached, Generate,
    MarkGenerated, MarkUploaded, MarkFailed, Record, Supersede
<1>6. ASSUME NEW q \in Run, LabStep(q) \/ Crash PROVE poll'[r] = poll[r]
  BY <1>6 DEF LabStep, Suspect, Reconcile, Spare, Crash
<1> QED
  BY <1>1, <1>2, <1>3, <1>4, <1>5, <1>6 DEF Next

(* A final poll is repeated until a variant is superseded.                 *)
THEOREM FinalPollsStand == Spec => FinalPollStands
<1> DEFINE Stands == \A r \in Run \ Lab : poll[r] \in Final =>
                       /\ poll'[r] \in Final
                       /\ poll'[r] = poll[r] \/ InStatus(r, "superseded") # {}
<1>1. TypeOK /\ TriadInv /\ [Next]_vars => [Stands]_vars
  BY FinalAnswerStands
<1> QED
  BY <1>1, TypeCorrect, TriadCorrect, PTL DEF Spec, FinalPollStands

-----------------------------------------------------------------------------
(* HeroTriad implements TriadPromise: a step is the actor's of one run,    *)
(* and what is seen of that run changes as the promise allows.             *)
ReplacedOf(r) == InStatus(r, "superseded")

SameSeen(r) ==
  /\ OutcomeSeen(r)' = OutcomeSeen(r) /\ MadeOf(r)' = MadeOf(r)
  /\ ReplacedOf(r)' = ReplacedOf(r) /\ poll'[r] = poll[r]

Lifted(r) ==
  \/ SameSeen(r)
  \/ /\ OutcomeSeen(r) = "none" /\ OutcomeSeen(r)' = "open"
     /\ MadeOf(r)' = MadeOf(r) /\ ReplacedOf(r)' = ReplacedOf(r) /\ poll'[r] = poll[r]
  \/ /\ OutcomeSeen(r) = "open"
     /\ \E v \in Variant \ MadeOf(r) : MadeOf(r)' = MadeOf(r) \cup {v}
     /\ OutcomeSeen(r)' = OutcomeSeen(r) /\ ReplacedOf(r)' = ReplacedOf(r) /\ poll'[r] = poll[r]
  \/ /\ \E v \in MadeOf(r) \ ReplacedOf(r) : ReplacedOf(r)' = ReplacedOf(r) \cup {v}
     /\ OutcomeSeen(r)' = OutcomeSeen(r) /\ MadeOf(r)' = MadeOf(r) /\ poll'[r] = poll[r]
  \/ /\ OutcomeSeen(r) = "open"
     /\ OutcomeSeen(r)' = "failed" \/ (MadeOf(r) # {} /\ OutcomeSeen(r)' = "ok")
     /\ MadeOf(r)' = MadeOf(r) /\ ReplacedOf(r)' = ReplacedOf(r) /\ poll'[r] = poll[r]
  \/ /\ OutcomeSeen(r) \in {"ok", "failed"}
     /\ poll'[r] = Promise!Verdict(OutcomeSeen(r), MadeOf(r) \ ReplacedOf(r))
     /\ OutcomeSeen(r)' = OutcomeSeen(r) /\ MadeOf(r)' = MadeOf(r) /\ ReplacedOf(r)' = ReplacedOf(r)

StepOf(q) ==
  \/ Accept(q) \/ Task(q) \/ Raise(q) \/ PollRun(q) \/ PollRows(q) \/ LabStep(q)
  \/ \E v \in Variant : VariantTask(q, v) \/ VariantRaises(q, v) \/ Supersede(q, v)

LEMMA SeenKept ==
  ASSUME NEW r \in Run, run'[r] = run[r], row'[r] = row[r], poll'[r] = poll[r]
  PROVE  SameSeen(r)
BY DEF SameSeen, OutcomeSeen, MadeOf, ReplacedOf, InStatus

(* The step of a run is not seen in another.                               *)
LEMMA OthersLookTheSame ==
  ASSUME TypeOK, NEW q \in Run, StepOf(q), NEW r \in Run, r # q
  PROVE  SameSeen(r)
<1> USE DEF config, semaphore, polls, TypeOK, SetRow
<1>1. run'[r] = run[r] /\ poll'[r] = poll[r]
  BY DEF StepOf, Accept, Task, Raise, Spawn, AcquirePermit, LoadRun, SeedsReady, SeedsTimeOut, InsertVariant,
    StartVariants, Gather, Close, CloseFailed, PollRun, PollRows, LabStep, Suspect, Reconcile, Spare,
    VariantTask, VariantRaises, LookUp, FinalizeCached, Generate, MarkGenerated, MarkUploaded, MarkFailed,
    Record, Supersede
<1>2. row'[r] = row[r]
  BY DEF StepOf, Accept, Task, Raise, Spawn, AcquirePermit, LoadRun, SeedsReady, SeedsTimeOut, InsertVariant,
    StartVariants, Gather, Close, CloseFailed, PollRun, PollRows, LabStep, Suspect, Reconcile, Spare,
    VariantTask, VariantRaises, LookUp, FinalizeCached, Generate, MarkGenerated, MarkUploaded, MarkFailed,
    Record, Supersede
<1> QED
  BY <1>1, <1>2, SeenKept

(* A row that was not published becomes one that is not, or is.            *)
LEMMA OneRow ==
  ASSUME TypeOK, NEW r \in Run, NEW v \in Variant, NEW s, SetRow(r, v, s)
  PROVE  /\ s \notin {"uploaded", "superseded"} /\ row[r][v] \notin {"uploaded", "superseded"} =>
              MadeOf(r)' = MadeOf(r) /\ ReplacedOf(r)' = ReplacedOf(r)
         /\ s = "uploaded" /\ row[r][v] = "generated" =>
              v \notin MadeOf(r) /\ MadeOf(r)' = MadeOf(r) \cup {v} /\ ReplacedOf(r)' = ReplacedOf(r)
         /\ s = "superseded" /\ row[r][v] = "uploaded" =>
              /\ v \in MadeOf(r) \ ReplacedOf(r)
              /\ MadeOf(r)' = MadeOf(r) /\ ReplacedOf(r)' = ReplacedOf(r) \cup {v}
<1>1. row'[r][v] = s /\ \A u \in Variant : u # v => row'[r][u] = row[r][u]
  BY DEF SetRow, TypeOK
<1> QED
  BY <1>1 DEF MadeOf, ReplacedOf, InStatus

(* What the reference plan writes is new only to a run that the lab closed. *)
LEMMA LoadKeepsRun ==
  ASSUME TypeOK, TriadInv, NEW r \in Run \ Lab, LoadRun(r)
  PROVE  run' = run
<1>1. pc[r] = "load"
  BY DEF LoadRun
<1>2. run[r] = "running"
  BY <1>1, Labels DEF TriadInv, TaskHolds, TypeOK
<1> QED
  BY <1>2 DEF LoadRun, TypeOK

LEMMA TaskLifts ==
  ASSUME TypeOK, TriadInv, NEW r \in Run \ Lab, Accept(r) \/ Task(r) \/ Raise(r)
  PROVE  Lifted(r)
<1> USE DEF config, semaphore, polls
<1>1. poll' = poll
  BY DEF Accept, Task, Raise, Spawn, AcquirePermit, LoadRun, SeedsReady, SeedsTimeOut, InsertVariant,
    StartVariants, Gather, Close, CloseFailed
<1>2. CASE Accept(r)
  <2>1. run[r] = "absent" /\ run'[r] = "running" /\ row' = row
    BY <1>2 DEF Accept, TriadInv, TaskHolds, TypeOK
  <2> QED
    BY <1>1, <2>1 DEF Lifted, OutcomeSeen, MadeOf, ReplacedOf, InStatus
<1>3. CASE InsertVariant(r)
  <2>1. PICK v \in InStatus(r, "absent") : SetRow(r, v, "pending")
    BY <1>3 DEF InsertVariant
  <2>2. v \in Variant /\ row[r][v] = "absent" /\ run' = run
    BY <1>3, <2>1 DEF InsertVariant, InStatus
  <2> QED
    <3>1. MadeOf(r)' = MadeOf(r) /\ ReplacedOf(r)' = ReplacedOf(r)
      BY <2>1, <2>2, OneRow
    <3>2. OutcomeSeen(r)' = OutcomeSeen(r) /\ poll'[r] = poll[r]
      BY <1>1, <2>2 DEF OutcomeSeen
    <3> QED
      BY <3>1, <3>2 DEF Lifted, SameSeen
<1>4. CASE Close(r) \/ CloseFailed(r)
  <2>1. pc[r] \in {"close", "close_failed"} /\ row' = row
    BY <1>4 DEF Close, CloseFailed
  <2>2. run[r] = "running"
    BY <2>1, Labels DEF TriadInv, TaskHolds, TypeOK
  <2>3. run'[r] \in {"running", "failed"} \/ (run'[r] = "ok" /\ \E v \in Variant : step[r][v] = "ok")
    BY <1>4, <2>2, Labels DEF Close, CloseFailed, TypeOK
  <2>4. (\E v \in Variant : step[r][v] = "ok") => MadeOf(r) # {}
    BY DEF TriadInv, VariantHolds, MadeOf, InStatus
  <2>5. MadeOf(r)' = MadeOf(r) /\ ReplacedOf(r)' = ReplacedOf(r)
    BY <2>1 DEF MadeOf, ReplacedOf, InStatus
  <2>6. OutcomeSeen(r) = "open" /\ OutcomeSeen(r)' = IF run'[r] = "running" THEN "open" ELSE run'[r]
    BY <2>2, <2>3 DEF OutcomeSeen
  <2>7. CASE run'[r] = "running"
    BY <1>1, <2>5, <2>6, <2>7 DEF Lifted, SameSeen
  <2>8. CASE run'[r] \in {"ok", "failed"}
    BY <1>1, <2>3, <2>4, <2>5, <2>6, <2>8 DEF Lifted
  <2> QED
    BY <2>3, <2>7, <2>8
<1>5. CASE Raise(r) \/ (Task(r) /\ ~InsertVariant(r) /\ ~Close(r) /\ ~CloseFailed(r))
  <2>1. run' = run /\ row' = row
    <3>1. CASE LoadRun(r)
      BY <3>1, LoadKeepsRun DEF LoadRun
    <3> QED
      BY <1>5, <3>1 DEF Task, Raise, Spawn, AcquirePermit, SeedsReady, SeedsTimeOut, StartVariants, Gather
  <2> QED
    BY <1>1, <2>1, SeenKept DEF Lifted
<1> QED
  BY <1>2, <1>3, <1>4, <1>5 DEF Task

LEMMA VariantLifts ==
  ASSUME TypeOK, TriadInv, NEW r \in Run \ Lab, NEW v \in Variant,
         VariantTask(r, v) \/ VariantRaises(r, v) \/ Supersede(r, v)
  PROVE  Lifted(r)
<1> USE DEF config, semaphore, polls
<1>1. run' = run /\ poll' = poll
  BY DEF VariantTask, VariantRaises, LookUp, FinalizeCached, Generate, MarkGenerated, MarkUploaded, MarkFailed,
    Record, Supersede
<1>2. OutcomeSeen(r)' = OutcomeSeen(r) /\ poll'[r] = poll[r]
  BY <1>1 DEF OutcomeSeen
<1>3. CASE MarkGenerated(r, v) \/ MarkFailed(r, v)
  <2>1. row[r][v] = "pending" /\ (SetRow(r, v, "generated") \/ SetRow(r, v, "failed"))
    BY <1>3 DEF MarkGenerated, MarkFailed, TriadInv, VariantHolds
  <2> QED
    BY <1>2, <2>1, OneRow DEF Lifted, SameSeen
<1>4. CASE MarkUploaded(r, v)
  <2>1. row[r][v] = "generated" /\ SetRow(r, v, "uploaded") /\ step[r][v] = "publish"
    BY <1>4 DEF MarkUploaded, TriadInv, VariantHolds
  <2>2. pc[r] = "gather"
    BY <2>1, Labels DEF TriadInv, TaskHolds
  <2>3. run[r] = "running"
    BY <2>2, Labels DEF TriadInv, TaskHolds, TypeOK
  <2> QED
    BY <1>2, <2>1, <2>3, OneRow DEF Lifted, OutcomeSeen
<1>5. CASE Supersede(r, v)
  <2>1. row[r][v] = "uploaded" /\ SetRow(r, v, "superseded")
    BY <1>5 DEF Supersede
  <2> QED
    BY <1>2, <2>1, OneRow DEF Lifted
<1>6. CASE VariantRaises(r, v) \/ LookUp(r, v) \/ FinalizeCached(r, v) \/ Generate(r, v) \/ Record(r, v)
  <2>1. row' = row
    BY <1>6 DEF VariantRaises, LookUp, FinalizeCached, Generate, Record
  <2> QED
    BY <1>1, <2>1, SeenKept DEF Lifted
<1> QED
  BY <1>3, <1>4, <1>5, <1>6 DEF VariantTask

(* The first statement of a poll changes nothing that is seen, the second  *)
(* tells what TriadPromise has told of the run that the first one read.    *)
LEMMA PollLifts ==
  ASSUME TypeOK, TriadInv, NEW r \in Run \ Lab, PollRun(r) \/ PollRows(r) \/ LabStep(r)
  PROVE  Lifted(r)
<1> USE DEF config, semaphore, TypeOK
<1>1. run'[r] = run[r] /\ row' = row
  BY DEF PollRun, PollRows, LabStep, Suspect, Reconcile, Spare
<1>2. CASE PollRun(r) \/ LabStep(r)
  <2>1. poll' = poll
    BY <1>2 DEF PollRun, LabStep, Suspect, Reconcile, Spare
  <2> QED
    BY <1>1, <2>1, SeenKept DEF Lifted
<1>3. CASE PollRows(r)
  <2> DEFINE U == InStatus(r, "uploaded")
             F == InStatus(r, "failed")
  <2>1. look[r] # "none" /\ poll'[r] = IF PollStatus(look[r], U, F) \in Final THEN PollStatus(look[r], U, F) ELSE "none"
    BY <1>3 DEF PollRows, Answer
  <2>2. U \in SUBSET Variant /\ F \in SUBSET Variant
    BY DEF InStatus
  <2>3. U = MadeOf(r) \ ReplacedOf(r)
    BY DEF MadeOf, ReplacedOf, InStatus
  <2> HIDE DEF U, F
  <2>4. /\ PollStatus("running", U, F) \in {"pending", "running"}
        /\ PollStatus("failed", U, F) = "failed"
        /\ PollStatus("ok", U, F) = IF U = Variant THEN "complete" ELSE IF U = {} THEN "failed" ELSE "partial"
    BY <2>2, PollStatusRange
  <2>5. OutcomeSeen(r)' = OutcomeSeen(r) /\ MadeOf(r)' = MadeOf(r) /\ ReplacedOf(r)' = ReplacedOf(r)
    BY <1>1 DEF OutcomeSeen, MadeOf, ReplacedOf, InStatus
  <2>6. CASE look[r] = "running"
    <3>1. poll[r] = "none" /\ poll'[r] = "none"
      BY <2>1, <2>4, <2>6, Labels DEF TriadInv, PollHolds
    <3> QED
      BY <2>5, <3>1 DEF Lifted, SameSeen
  <2>7. CASE look[r] \in {"ok", "failed"}
    <3>1. run[r] = look[r] /\ OutcomeSeen(r) = look[r]
      BY <2>7, Labels DEF TriadInv, PollHolds, OutcomeSeen
    <3>2. Variant # {}
      BY TriadAssumption
    <3>3. poll'[r] = Promise!Verdict(look[r], U)
      BY <2>1, <2>4, <2>7, <3>2, Labels DEF Promise!Verdict
    <3> QED
      BY <2>3, <2>5, <2>7, <3>1, <3>3 DEF Lifted
  <2> QED
    BY <2>1, <2>6, <2>7, Labels
<1> QED
  BY <1>2, <1>3

LEMMA StepKeepsPromise ==
  ASSUME TypeOK, TriadInv, NEW q \in Run, StepOf(q)
  PROVE  [Promise!PromiseNext]_(Promise!promise)
<1>1. \A r \in Run \ Lab : r # q => SameSeen(r)
  BY OthersLookTheSame
<1>2. CASE q \in Lab
  BY <1>1, <1>2 DEF SameSeen, ReplacedOf, Promise!promise
<1>3. CASE q \notin Lab
  <2>1. Lifted(q)
    BY <1>3, TaskLifts, VariantLifts, PollLifts DEF StepOf
  <2>2. ASSUME SameSeen(q) PROVE UNCHANGED Promise!promise
    BY <1>1, <2>2 DEF SameSeen, ReplacedOf, Promise!promise
  <2>3. /\ q \in Run \ Lab
        /\ \A r \in Run \ Lab : r # q =>
             /\ OutcomeSeen(r)' = OutcomeSeen(r) /\ MadeOf(r)' = MadeOf(r)
             /\ InStatus(r, "superseded")' = InStatus(r, "superseded") /\ poll'[r] = poll[r]
    BY <1>1, <1>3 DEF SameSeen, ReplacedOf
  <2>4. CASE OutcomeSeen(q)' # OutcomeSeen(q)
    BY <2>1, <2>3, <2>4 DEF Lifted, SameSeen, ReplacedOf, Promise!PromiseNext, Promise!Accept, Promise!Close
  <2>5. CASE OutcomeSeen(q)' = OutcomeSeen(q) /\ ~SameSeen(q) /\ MadeOf(q)' # MadeOf(q)
    BY <2>1, <2>3, <2>5 DEF Lifted, ReplacedOf, Promise!PromiseNext, Promise!Publish
  <2>6. CASE OutcomeSeen(q)' = OutcomeSeen(q) /\ ~SameSeen(q) /\ MadeOf(q)' = MadeOf(q) /\ ReplacedOf(q)' # ReplacedOf(q)
    BY <2>1, <2>3, <2>6 DEF Lifted, ReplacedOf, Promise!PromiseNext, Promise!Replace
  <2>7. CASE OutcomeSeen(q)' = OutcomeSeen(q) /\ ~SameSeen(q) /\ MadeOf(q)' = MadeOf(q) /\ ReplacedOf(q)' = ReplacedOf(q)
    <3>1. /\ OutcomeSeen(q) \in {"ok", "failed"}
          /\ poll'[q] = Promise!Verdict(OutcomeSeen(q), MadeOf(q) \ InStatus(q, "superseded"))
      BY <2>1, <2>7 DEF Lifted, ReplacedOf, SameSeen
    <3>2. Promise!Tell(q)
      BY <2>3, <2>7, <3>1 DEF ReplacedOf, Promise!Tell
    <3> QED
      BY <2>3, <3>2 DEF Promise!PromiseNext
  <2> QED
    BY <2>2, <2>4, <2>5, <2>6, <2>7
<1> QED
  BY <1>2, <1>3

LEMMA InitKeepsPromise == Init => Promise!PromiseInit
<1> SUFFICES ASSUME Init PROVE Promise!PromiseInit
  OBVIOUS
<1>1. PICK start \in Starts :
        /\ run = [q \in Run |-> IF q \in start.earlier THEN "ok" ELSE "absent"]
        /\ row = [q \in Run |-> [v \in Variant |-> IF q \in start.earlier THEN "uploaded" ELSE "absent"]]
  BY DEF Init
<1> DEFINE earlier == start.earlier \cap (Run \ Lab)
<1>2. ASSUME NEW r \in Run \ Lab
      PROVE  /\ OutcomeSeen(r) = IF r \in earlier THEN "ok" ELSE "none"
             /\ MadeOf(r) = IF r \in earlier THEN Variant ELSE {}
             /\ InStatus(r, "superseded") = {} /\ poll[r] = "none"
  BY <1>1 DEF Init, OutcomeSeen, MadeOf, InStatus
<1>3. earlier \in SUBSET (Run \ Lab)
  OBVIOUS
<1> HIDE DEF earlier
<1> QED
  BY <1>2, <1>3 DEF Promise!PromiseInit

(* The worker, its variants, the regenerations and the polls implement the *)
(* promise to the consumer, for runs that are not polled in the lab.       *)
THEOREM TriadKeepsPromise == Spec => KeepsTriadPromise
<1>1. TypeOK /\ TriadInv /\ [Next]_vars => [Promise!PromiseNext]_(Promise!promise)
  <2> SUFFICES ASSUME TypeOK, TriadInv, [Next]_vars PROVE [Promise!PromiseNext]_(Promise!promise)
    OBVIOUS
  <2>1. CASE \E q \in Run : StepOf(q)
    BY <2>1, StepKeepsPromise
  <2>2. CASE Crash \/ UNCHANGED vars
    <3>1. run' = run /\ row' = row /\ poll' = poll
      BY <2>2 DEF Crash, vars, polls
    <3>2. \A r \in Run : SameSeen(r)
      BY <3>1, SeenKept
    <3> QED
      BY <3>2 DEF SameSeen, ReplacedOf, Promise!promise
  <2> QED
    BY <2>1, <2>2 DEF Next, StepOf
<1> QED
  BY <1>1, InitKeepsPromise, TypeCorrect, TriadCorrect, PTL DEF Spec, KeepsTriadPromise, Promise!PromiseSpec

-----------------------------------------------------------------------------
(* HeroTriad does what Acceptance takes a task to do.                      *)
RunSeen == [r \in Run \ Lab |-> run[r]]
Shown == <<RunSeen, ImagesSeen, AtWork>>

ShownSame(r) ==
  /\ run'[r] = run[r]
  /\ r \in ImagesSeen' <=> r \in ImagesSeen
  /\ r \in AtWork' <=> r \in AtWork

LEMMA PcOfOthers ==
  ASSUME TypeOK, NEW q \in Run, StepOf(q), NEW r \in Run, r # q
  PROVE  pc'[r] = pc[r]
BY DEF StepOf, Accept, Task, Raise, Spawn, AcquirePermit, LoadRun, SeedsReady, SeedsTimeOut, InsertVariant,
  StartVariants, Gather, Close, CloseFailed, PollRun, PollRows, LabStep, Suspect, Reconcile, Spare,
  VariantTask, VariantRaises, LookUp, FinalizeCached, Generate, MarkGenerated, MarkUploaded, MarkFailed,
  Record, Supersede, Goto, TypeOK

LEMMA OthersShownSame ==
  ASSUME TypeOK, NEW q \in Run, StepOf(q)
  PROVE  \A r \in Run \ Lab : r # q => ShownSame(r)
<1> SUFFICES ASSUME NEW r \in Run \ Lab, r # q PROVE ShownSame(r)
  OBVIOUS
<1>1. SameSeen(r) /\ pc'[r] = pc[r]
  BY OthersLookTheSame, PcOfOthers
<1>2. run'[r] = run[r]
  BY DEF StepOf, Accept, Task, Raise, Spawn, AcquirePermit, LoadRun, SeedsReady, SeedsTimeOut, InsertVariant,
    StartVariants, Gather, Close, CloseFailed, PollRun, PollRows, LabStep, Suspect, Reconcile, Spare,
    VariantTask, VariantRaises, LookUp, FinalizeCached, Generate, MarkGenerated, MarkUploaded, MarkFailed,
    Record, Supersede, TypeOK
<1> QED
  BY <1>1, <1>2 DEF ShownSame, SameSeen, ImagesSeen, AtWork

LEMMA AllShownSame ==
  ASSUME \A r \in Run \ Lab : ShownSame(r)
  PROVE  UNCHANGED Shown
<1>1. RunSeen' = RunSeen
  BY DEF ShownSame, RunSeen
<1>2. ImagesSeen' = ImagesSeen
  BY DEF ShownSame, ImagesSeen
<1>3. AtWork' = AtWork
  BY DEF ShownSame, AtWork
<1> QED
  BY <1>1, <1>2, <1>3 DEF Shown

RouteStep ==
  \E r \in Run \ Lab : Route!TaskPublishes(r) \/ Route!TaskEnds(r) \/ Route!TaskLost(r)

LEMMA PublishShown ==
  ASSUME TypeOK, TriadInv, NEW q \in Run \ Lab, NEW v \in Variant, MarkUploaded(q, v)
  PROVE  RouteStep \/ UNCHANGED Shown
<1>1. \A r \in Run \ Lab : r # q => ShownSame(r)
  BY OthersShownSame DEF StepOf, VariantTask
<1>2. row[q][v] = "generated" /\ SetRow(q, v, "uploaded") /\ step[q][v] = "publish"
      /\ run' = run /\ pc' = pc
  BY DEF MarkUploaded, TriadInv, VariantHolds
<1>3. pc[q] = "gather"
  BY <1>2, Labels DEF TriadInv, TaskHolds
<1>4. q \in AtWork /\ AtWork' = AtWork /\ RunSeen' = RunSeen
  BY <1>2, <1>3 DEF AtWork, Busy, RunSeen
<1>5. q \in ImagesSeen'
  BY <1>2, OneRow DEF ImagesSeen
<1>6. ImagesSeen' = ImagesSeen \cup {q}
  BY <1>1, <1>5 DEF ShownSame, ImagesSeen
<1>7. CASE q \in ImagesSeen
  BY <1>4, <1>6, <1>7 DEF Shown
<1>8. CASE q \notin ImagesSeen
  <2>1. Route!TaskPublishes(q)
    BY <1>4, <1>6, <1>8 DEF Route!TaskPublishes, Route!process, RunSeen
  <2> QED
    BY <2>1 DEF RouteStep
<1> QED
  BY <1>7, <1>8

LEMMA EndShown ==
  ASSUME TypeOK, TypeOK', TriadInv, NEW q \in Run \ Lab, Close(q) \/ CloseFailed(q)
  PROVE  RouteStep
<1>1. \A r \in Run \ Lab : r # q => ShownSame(r)
  BY OthersShownSame DEF StepOf, Task
<1>2. pc[q] \in Busy /\ pc'[q] \in {"done", "unreported"} /\ row' = row
  BY DEF Close, CloseFailed, Goto, Busy, TypeOK
<1>3. q \in AtWork /\ q \notin AtWork'
  BY <1>2, Labels DEF AtWork
<1>4. AtWork' = AtWork \ {q}
  BY <1>1, <1>3 DEF ShownSame, AtWork
<1>5. ImagesSeen' = ImagesSeen
  BY <1>2 DEF ImagesSeen, MadeOf, InStatus
<1>6. CASE run' # run
  <2>1. PICK s \in Closed : run' = [run EXCEPT ![q] = s]
    BY <1>6, Labels DEF Close, CloseFailed
  <2>2. RunSeen' = [RunSeen EXCEPT ![q] = s]
    BY <2>1 DEF RunSeen, TypeOK
  <2>3. Route!TaskEnds(q)
    BY <1>3, <1>4, <1>5, <2>1, <2>2 DEF Route!TaskEnds, Route!Closed, Closed, RunSeen
  <2> QED
    BY <2>3 DEF RouteStep
<1>7. CASE run' = run
  <2>1. "database" \in Faults
    <3>1. run[q] \notin Closed
      BY <1>2, Labels DEF TriadInv, TaskHolds
    <3> QED
      BY <1>7, <3>1, Labels DEF Close, CloseFailed, TypeOK
  <2>2. Route!TaskLost(q)
    BY <1>3, <1>4, <1>5, <1>7, <2>1 DEF Route!TaskLost, Route!db
  <2> QED
    BY <2>2 DEF RouteStep
<1> QED
  BY <1>6, <1>7

LEMMA SilentShown ==
  ASSUME TypeOK, TypeOK', TriadInv, NEW q \in Run \ Lab, StepOf(q),
         ~Accept(q), ~Spawn(q), ~Close(q), ~CloseFailed(q),
         \A v \in Variant : ~MarkUploaded(q, v)
  PROVE  UNCHANGED Shown
<1>1. \A r \in Run \ Lab : r # q => ShownSame(r)
  BY OthersShownSame
<1>2. run'[q] = run[q]
  <2>1. CASE LoadRun(q)
    BY <2>1, LoadKeepsRun
  <2> QED
    BY <2>1 DEF StepOf, Task, Raise, AcquirePermit, SeedsReady, SeedsTimeOut, InsertVariant,
      StartVariants, Gather, PollRun, PollRows, LabStep, Suspect, Reconcile, Spare,
      VariantTask, VariantRaises, LookUp, FinalizeCached, Generate, MarkGenerated, MarkFailed,
      Record, Supersede, TypeOK
<1>3. q \in AtWork' <=> q \in AtWork
  <2>1. \/ pc' = pc
        \/ /\ pc[q] \in {"queue"} \cup Busy
           /\ \E label \in Busy : pc' = [pc EXCEPT ![q] = label]
    BY DEF StepOf, Task, Raise, AcquirePermit, LoadRun, SeedsReady, SeedsTimeOut, InsertVariant,
      StartVariants, Gather, PollRun, PollRows, LabStep, Suspect, Reconcile, Spare,
      VariantTask, VariantRaises, LookUp, FinalizeCached, Generate, MarkGenerated, MarkFailed,
      Record, Supersede, Goto, Busy
  <2> QED
    BY <2>1 DEF AtWork, TypeOK
<1>4. MadeOf(q)' = MadeOf(q)
  <2>1. ASSUME NEW v \in Variant, MarkGenerated(q, v) \/ MarkFailed(q, v) \/ Supersede(q, v)
        PROVE  MadeOf(q)' = MadeOf(q)
    <3>1. \/ row[q][v] = "pending" /\ (SetRow(q, v, "generated") \/ SetRow(q, v, "failed"))
          \/ row[q][v] = "uploaded" /\ SetRow(q, v, "superseded")
      BY <2>1 DEF MarkGenerated, MarkFailed, Supersede, TriadInv, VariantHolds
    <3> QED
      BY <3>1, OneRow
  <2>2. CASE InsertVariant(q)
    BY <2>2, OneRow DEF InsertVariant, InStatus
  <2>3. CASE row' = row
    BY <2>3 DEF MadeOf, InStatus
  <2> QED
    BY <2>1, <2>2, <2>3 DEF StepOf, Task, Raise, AcquirePermit, LoadRun, SeedsReady, SeedsTimeOut,
      StartVariants, Gather, PollRun, PollRows, LabStep, Suspect, Reconcile, Spare,
      VariantTask, VariantRaises, LookUp, FinalizeCached, Generate, Record
<1>5. ShownSame(q)
  BY <1>2, <1>3, <1>4 DEF ShownSame, ImagesSeen
<1> QED
  BY <1>1, <1>5, AllShownSame

LEMMA StepWorksAsAccepted ==
  ASSUME TypeOK, TypeOK', TriadInv, [Next]_vars
  PROVE  \/ \E r \in Run \ Lab : Accept(r) \/ Spawn(r)
         \/ RouteStep
         \/ "crash" \in Faults /\ AtWork' = {} /\ ImagesSeen' = ImagesSeen /\ run' = run
         \/ UNCHANGED Shown
<1>1. ASSUME NEW q \in Run, StepOf(q), q \in Lab
      PROVE  UNCHANGED Shown
  BY <1>1, OthersShownSame, AllShownSame
<1>2. ASSUME NEW q \in Run \ Lab, StepOf(q), ~Accept(q), ~Spawn(q)
      PROVE  RouteStep \/ UNCHANGED Shown
  BY <1>2, PublishShown, EndShown, SilentShown
<1>3. CASE Crash
  <2>1. AtWork' = {}
    BY <1>3, Labels DEF Crash, AtWork, TypeOK
  <2> QED
    BY <1>3, <2>1 DEF Crash, ImagesSeen, MadeOf, InStatus
<1>4. CASE UNCHANGED vars
  BY <1>4 DEF vars, Shown, RunSeen, ImagesSeen, MadeOf, InStatus, AtWork
<1> QED
  BY <1>1, <1>2, <1>3, <1>4 DEF Next, StepOf

(* The task that Acceptance has in the place of a triad's allows whatever  *)
(* the worker and its variants do, and those who replace their images, for *)
(* runs that are not polled in the lab.                                    *)
THEOREM TriadsWorkAsAccepted == Spec => WorksAsAccepted
<1>1. TypeOK /\ TypeOK' /\ TriadInv /\ [Next]_vars =>
        [\/ \E r \in Run \ Lab : Accept(r) \/ Spawn(r)
         \/ \E r \in Run \ Lab : Route!TaskPublishes(r) \/ Route!TaskEnds(r) \/ Route!TaskLost(r)
         \/ "crash" \in Faults /\ AtWork' = {} /\ ImagesSeen' = ImagesSeen /\ run' = run
        ]_<<[r \in Run \ Lab |-> run[r]], ImagesSeen, AtWork>>
  BY StepWorksAsAccepted DEF RouteStep, Shown, RunSeen
<1> QED
  BY <1>1, TypeCorrect, TriadCorrect, PTL DEF Spec, WorksAsAccepted

-----------------------------------------------------------------------------
(* Permits and the queue for them.                                         *)

HoldersHold == holding = {r \in Run : pc[r] \in Busy}

Bounded == IsFiniteSet(holding) /\ Cardinality(holding) <= limit

QueueHolds ==
  /\ \A r \in Run : pc[r] = "queue" <=> \E i \in DOMAIN queue : queue[i] = r
  /\ \A i, j \in DOMAIN queue : queue[i] = queue[j] => i = j

LEMMA PermitParts == PermitHolds /\ IsFiniteSet(holding) <=> HoldersHold /\ Bounded /\ QueueHolds
BY DEF PermitHolds, HoldersHold, Bounded, QueueHolds

LEMMA InitPermits == Init => HoldersHold /\ Bounded /\ QueueHolds
<1> SUFFICES ASSUME Init PROVE HoldersHold /\ Bounded /\ QueueHolds
  OBVIOUS
<1>1. \A r \in Run : pc[r] \in {"new", "done"}
  BY DEF Init
<1>2. HoldersHold
  BY <1>1, Labels DEF Init, HoldersHold
<1>3. holding = {} /\ limit \in Nat
  BY InitTypeOK DEF Init, TypeOK
<1>4. Bounded
  BY <1>3, FS_EmptySet DEF Bounded
<1>5. DOMAIN queue = {}
  BY DEF Init
<1> QED
  BY <1>1, <1>2, <1>4, <1>5 DEF QueueHolds

(* Outside Spawn, AcquirePermit, the two closings and a crash, nobody      *)
(* joins or leaves the holders or the queue.                               *)
Settled ==
  /\ UNCHANGED <<limit, holding, queue>>
  /\ \A r \in Run : pc'[r] \in Busy <=> pc[r] \in Busy
  /\ \A r \in Run : pc'[r] = "queue" <=> pc[r] = "queue"

LEMMA SettledKeeps ==
  ASSUME HoldersHold, Bounded, QueueHolds, Settled
  PROVE  HoldersHold' /\ Bounded' /\ QueueHolds'
BY DEF Settled, HoldersHold, Bounded, QueueHolds

LEMMA MostStepsSettle ==
  ASSUME TypeOK, NEW r \in Run,
         \/ Accept(r) \/ LoadRun(r) \/ SeedsReady(r) \/ SeedsTimeOut(r) \/ InsertVariant(r)
         \/ StartVariants(r) \/ Gather(r) \/ Raise(r) \/ PollRun(r) \/ PollRows(r) \/ LabStep(r)
         \/ \E v \in Variant : VariantTask(r, v) \/ VariantRaises(r, v) \/ Supersede(r, v)
  PROVE  Settled
<1> USE DEF config, semaphore, polls, TypeOK, Goto
<1>1. CASE Accept(r) \/ LoadRun(r) \/ SeedsReady(r) \/ SeedsTimeOut(r) \/ StartVariants(r)
  BY <1>1, Labels DEF Accept, LoadRun, SeedsReady, SeedsTimeOut, StartVariants, Settled
<1>2. CASE Gather(r) \/ Raise(r)
  BY <1>2, Labels DEF Gather, Raise, Settled
<1>3. CASE InsertVariant(r) \/ PollRun(r) \/ PollRows(r) \/ LabStep(r)
  BY <1>3 DEF InsertVariant, PollRun, PollRows, LabStep, Suspect, Reconcile, Spare, Settled
<1>4. ASSUME NEW v \in Variant, VariantTask(r, v) \/ VariantRaises(r, v) \/ Supersede(r, v)
      PROVE  Settled
  BY <1>4 DEF VariantTask, VariantRaises, LookUp, FinalizeCached, Generate,
    MarkGenerated, MarkUploaded, MarkFailed, Record, Supersede, Settled
<1> QED
  BY <1>1, <1>2, <1>3, <1>4

LEMMA EnterKeeps ==
  ASSUME TypeOK, HoldersHold, Bounded, NEW r \in Run, pc[r] \notin Busy, Goto(r, "load"),
         Cardinality(holding) < limit, holding' = holding \cup {r}, limit' = limit
  PROVE  HoldersHold' /\ Bounded'
<1>1. HoldersHold'
  BY Labels DEF HoldersHold, Goto, TypeOK
<1>2. r \notin holding
  BY DEF HoldersHold
<1>3. IsFiniteSet(holding') /\ Cardinality(holding') = Cardinality(holding) + 1
  BY <1>2, FS_AddElement DEF Bounded
<1>4. Cardinality(holding) \in Nat /\ limit \in Nat
  BY FS_CardinalityType DEF Bounded, TypeOK
<1> QED
  BY <1>1, <1>3, <1>4 DEF Bounded

LEMMA LeaveKeeps ==
  ASSUME TypeOK, HoldersHold, Bounded, NEW r \in Run, NEW s \in PC \ Busy, Goto(r, s),
         holding' = holding \ {r}, limit' = limit
  PROVE  HoldersHold' /\ Bounded'
<1>1. HoldersHold'
  BY DEF HoldersHold, Goto, TypeOK
<1>2. IsFiniteSet(holding') /\ Cardinality(holding') <= Cardinality(holding)
  BY FS_Subset DEF Bounded
<1>3. Cardinality(holding) \in Nat /\ Cardinality(holding') \in Nat /\ limit \in Nat
  BY <1>2, FS_CardinalityType DEF Bounded, TypeOK
<1> QED
  BY <1>1, <1>2, <1>3 DEF Bounded

LEMMA SpawnKeeps ==
  ASSUME TypeOK, HoldersHold, Bounded, QueueHolds, NEW r \in Run, Spawn(r)
  PROVE  HoldersHold' /\ Bounded' /\ QueueHolds'
<1> USE DEF Spawn, config
<1>1. pc[r] = "accepted" /\ pc[r] \notin Busy
  BY Labels
<1>2. CASE Cardinality(holding) < limit /\ queue = << >>
  <2>1. holding' = holding \cup {r} /\ Goto(r, "load") /\ queue' = queue
    BY <1>2
  <2>2. HoldersHold' /\ Bounded'
    BY <1>1, <1>2, <2>1, EnterKeeps
  <2>3. QueueHolds'
    BY <1>1, <2>1 DEF QueueHolds, Goto, TypeOK
  <2> QED
    BY <2>2, <2>3
<1>3. CASE ~(Cardinality(holding) < limit /\ queue = << >>)
  <2>1. holding' = holding /\ Goto(r, "queue") /\ queue' = Append(queue, r)
    BY <1>3
  <2>2. HoldersHold' /\ Bounded'
    BY <1>1, <2>1, Labels DEF HoldersHold, Bounded, Goto, TypeOK
  <2>3. /\ Len(queue) \in Nat /\ DOMAIN queue = 1 .. Len(queue)
        /\ DOMAIN queue' = 1 .. Len(queue) + 1
        /\ queue'[Len(queue) + 1] = r
        /\ \A i \in DOMAIN queue : queue'[i] = queue[i]
    BY <2>1 DEF TypeOK
  <2>4. \A i \in DOMAIN queue : queue[i] # r
    BY <1>1 DEF QueueHolds
  <2>5. \A q \in Run : pc'[q] = "queue" <=> \E i \in DOMAIN queue' : queue'[i] = q
    <3>1. pc'[r] = "queue" /\ \E i \in DOMAIN queue' : queue'[i] = r
      <4>1. Len(queue) + 1 \in DOMAIN queue'
        BY <2>3
      <4>2. pc'[r] = "queue"
        BY <2>1 DEF Goto, TypeOK
      <4> QED
        BY <2>3, <4>1, <4>2
    <3>2. ASSUME NEW q \in Run, q # r
          PROVE  pc'[q] = "queue" <=> \E i \in DOMAIN queue' : queue'[i] = q
      <4>1. pc'[q] = pc[q]
        BY <2>1, <3>2 DEF Goto, TypeOK
      <4>2. (\E i \in DOMAIN queue' : queue'[i] = q) <=> \E i \in DOMAIN queue : queue[i] = q
        BY <2>3, <3>2
      <4> QED
        BY <4>1, <4>2 DEF QueueHolds
    <3> QED
      BY <3>1, <3>2
  <2>6. \A i, j \in DOMAIN queue' : queue'[i] = queue'[j] => i = j
    BY <2>3, <2>4 DEF QueueHolds
  <2> QED
    BY <2>2, <2>5, <2>6 DEF QueueHolds
<1> QED
  BY <1>2, <1>3

LEMMA AcquireKeeps ==
  ASSUME TypeOK, HoldersHold, Bounded, QueueHolds, NEW r \in Run, AcquirePermit(r)
  PROVE  HoldersHold' /\ Bounded' /\ QueueHolds'
<1> USE DEF AcquirePermit, config
<1>1. HoldersHold' /\ Bounded'
  BY EnterKeeps, Labels
<1>2. /\ Len(queue) \in Nat /\ Len(queue) >= 1 /\ DOMAIN queue = 1 .. Len(queue)
      /\ DOMAIN queue' = 1 .. Len(queue) - 1
      /\ queue[1] = r
      /\ \A i \in DOMAIN queue' : queue'[i] = queue[i + 1]
  BY DEF TypeOK
<1>3. \A i \in DOMAIN queue' : queue'[i] # r
  BY <1>2 DEF QueueHolds
<1>4. ASSUME NEW q \in Run PROVE pc'[q] = "queue" <=> \E i \in DOMAIN queue' : queue'[i] = q
  <2>1. CASE q = r
    <3>1. pc'[q] = "load"
      BY <2>1 DEF Goto, TypeOK
    <3> QED
      BY <1>3, <2>1, <3>1
  <2>2. CASE q # r
    <3>1. pc'[q] = pc[q]
      BY <2>2 DEF Goto, TypeOK
    <3>2. ASSUME NEW i \in DOMAIN queue, queue[i] = q
          PROVE  \E j \in DOMAIN queue' : queue'[j] = q
      <4>1. i # 1
        BY <1>2, <2>2, <3>2
      <4>2. i - 1 \in DOMAIN queue' /\ queue'[i - 1] = queue[(i - 1) + 1]
        BY <1>2, <4>1
      <4>3. (i - 1) + 1 = i
        BY <1>2
      <4> QED
        BY <3>2, <4>2, <4>3
    <3>3. ASSUME NEW j \in DOMAIN queue', queue'[j] = q
          PROVE  \E i \in DOMAIN queue : queue[i] = q
      BY <1>2, <3>3
    <3> QED
      BY <3>1, <3>2, <3>3 DEF QueueHolds
  <2> QED
    BY <2>1, <2>2
<1>5. \A i, j \in DOMAIN queue' : queue'[i] = queue'[j] => i = j
  BY <1>2 DEF QueueHolds
<1> QED
  BY <1>1, <1>4, <1>5 DEF QueueHolds

LEMMA CloseKeeps ==
  ASSUME TypeOK, HoldersHold, Bounded, QueueHolds, NEW r \in Run, Close(r) \/ CloseFailed(r)
  PROVE  HoldersHold' /\ Bounded' /\ QueueHolds'
<1> USE DEF Close, CloseFailed, config
<1>1. PICK s \in {"done", "unreported"} : Goto(r, s)
  OBVIOUS
<1>2. HoldersHold' /\ Bounded'
  BY <1>1, LeaveKeeps, Labels
<1>3. pc[r] # "queue" /\ queue' = queue
  OBVIOUS
<1>4. \A q \in Run : pc'[q] = "queue" <=> pc[q] = "queue"
  BY <1>1, <1>3 DEF Goto, TypeOK
<1> QED
  BY <1>2, <1>3, <1>4 DEF QueueHolds

LEMMA CrashKeepsPermits ==
  ASSUME TypeOK, Crash
  PROVE  HoldersHold' /\ Bounded' /\ QueueHolds'
<1>1. \A r \in Run : pc'[r] \notin Alive
  BY Labels DEF Crash
<1>2. HoldersHold'
  BY <1>1, Labels DEF Crash, HoldersHold
<1>3. Bounded'
  BY FS_EmptySet DEF Crash, Bounded, TypeOK, config
<1>4. QueueHolds'
  BY <1>1, Labels DEF Crash, QueueHolds
<1> QED
  BY <1>2, <1>3, <1>4

LEMMA NextPermits ==
  ASSUME TypeOK, HoldersHold, Bounded, QueueHolds, [Next]_vars
  PROVE  HoldersHold' /\ Bounded' /\ QueueHolds'
<1>1. CASE UNCHANGED vars
  BY <1>1, SettledKeeps DEF vars, config, semaphore, Settled
<1>2. CASE Next
  <2>1. CASE Crash
    BY <2>1, CrashKeepsPermits
  <2>2. ASSUME NEW r \in Run, Spawn(r) \/ AcquirePermit(r) \/ Close(r) \/ CloseFailed(r)
        PROVE  HoldersHold' /\ Bounded' /\ QueueHolds'
    BY <2>2, SpawnKeeps, AcquireKeeps, CloseKeeps
  <2>3. ASSUME NEW r \in Run,
               \/ Accept(r) \/ LoadRun(r) \/ SeedsReady(r) \/ SeedsTimeOut(r) \/ InsertVariant(r)
               \/ StartVariants(r) \/ Gather(r) \/ Raise(r) \/ PollRun(r) \/ PollRows(r)
               \/ LabStep(r)
               \/ \E v \in Variant : VariantTask(r, v) \/ VariantRaises(r, v) \/ Supersede(r, v)
        PROVE  HoldersHold' /\ Bounded' /\ QueueHolds'
    BY <2>3, MostStepsSettle, SettledKeeps
  <2> QED
    BY <1>2, <2>1, <2>2, <2>3 DEF Next, Task
<1> QED
  BY <1>1, <1>2

(* Never more permits are held than the semaphore was made with, and they  *)
(* are held by the tasks that are at work.                                 *)
THEOREM PermitsInOrder == Spec => []PermitHolds
<1> DEFINE PInv == HoldersHold /\ Bounded /\ QueueHolds
<1>1. Init => PInv
  BY InitPermits
<1>2. TypeOK /\ PInv /\ [Next]_vars => PInv'
  BY NextPermits
<1>3. PInv => PermitHolds
  BY PermitParts
<1> HIDE DEF PInv
<1> QED
  BY <1>1, <1>2, <1>3, TypeCorrect, PTL DEF Spec
-----------------------------------------------------------------------------
(* The safety half of the liveness of HeroTriad.                           *)

LEMMA AliveMoves ==
  ASSUME TypeOK, PermitHolds, NEW r \in Run, pc[r] \in Alive
  PROVE  \E q \in Run : CanMove(q)
<1>1. CASE pc[r] # "queue"
  BY <1>1, Labels DEF CanMove
<1>2. CASE pc[r] = "queue"
  <2>1. queue # << >> /\ Head(queue) \in Run
    BY <1>2, HeadTailProperties DEF PermitHolds, TypeOK
  <2>2. CASE Cardinality(holding) < limit
    BY <2>1, <2>2 DEF CanMove
  <2>3. CASE ~(Cardinality(holding) < limit)
    <3>1. holding # {}
      <4>1. limit \in Nat /\ limit # 0
        BY DEF TypeOK
      <4>2. holding = {} => Cardinality(holding) = 0
        BY FS_EmptySet
      <4> QED
        BY <2>3, <4>1, <4>2
    <3>2. PICK q \in holding : TRUE
      BY <3>1
    <3>3. q \in Run /\ pc[q] \in Busy
      BY <3>2 DEF PermitHolds
    <3> QED
      BY <3>3 DEF CanMove
  <2> QED
    BY <2>2, <2>3
<1> QED
  BY <1>1, <1>2

(* Desktop runs that wait for the permits of mobile runs, which wait for   *)
(* them, do not block one another for ever: some task can always go on.    *)
THEOREM TriadsAreNeverStuck == Spec => []SomebodyMoves
<1>1. TypeOK /\ PermitHolds => SomebodyMoves
  BY AliveMoves DEF SomebodyMoves
<1> QED
  BY <1>1, TypeCorrect, PermitsInOrder, PTL

(* A task ends in an unusual way only by a fault. *)
EndsByFault(r) ==
  /\ pc[r] = "unreported" => "database" \in Faults
  /\ pc[r] = "lost" => "crash" \in Faults

LEMMA StepEndsByFault ==
  ASSUME TypeOK, [Next]_vars, NEW r \in Run, EndsByFault(r)
  PROVE  EndsByFault(r)'
<1> USE DEF TypeOK, Goto, EndsByFault
<1>1. ASSUME NEW q \in Run, Accept(q) \/ Task(q) \/ Raise(q)
      PROVE  EndsByFault(r)'
  <2>1. CASE Accept(q) \/ Spawn(q) \/ AcquirePermit(q) \/ LoadRun(q) \/ SeedsReady(q)
    BY <2>1 DEF Accept, Spawn, AcquirePermit, LoadRun, SeedsReady
  <2>2. CASE SeedsTimeOut(q) \/ InsertVariant(q) \/ StartVariants(q) \/ Gather(q)
    BY <2>2 DEF SeedsTimeOut, InsertVariant, StartVariants, Gather
  <2>3. CASE Close(q) \/ CloseFailed(q) \/ Raise(q)
    BY <2>3 DEF Close, CloseFailed, Raise
  <2> QED
    BY <1>1, <2>1, <2>2, <2>3 DEF Task
<1>2. ASSUME pc' = pc
      PROVE  EndsByFault(r)'
  BY <1>2
<1>3. ASSUME NEW q \in Run, NEW u \in Variant,
             VariantTask(q, u) \/ VariantRaises(q, u) \/ Supersede(q, u)
      PROVE  pc' = pc
  BY <1>3 DEF VariantTask, VariantRaises, LookUp, FinalizeCached, Generate,
    MarkGenerated, MarkUploaded, MarkFailed, Record, Supersede
<1>4. ASSUME NEW q \in Run, PollRun(q) \/ PollRows(q) \/ LabStep(q)
      PROVE  pc' = pc
  BY <1>4 DEF PollRun, PollRows, LabStep, Suspect, Reconcile, Spare
<1>5. CASE Crash
  BY <1>5 DEF Crash
<1>6. CASE UNCHANGED vars
  BY <1>6 DEF vars
<1> QED
  BY <1>1, <1>2, <1>3, <1>4, <1>5, <1>6 DEF Next

(* A task that is over, however it came to that, holds no permit, has no   *)
(* variant at work and has closed its run, unless the process died under   *)
(* it or the last UPDATE was refused.                                      *)
THEOREM EndedTriadsAreClosed == Spec => []EndedRunIsClosed
<1> DEFINE Faulty == \A r \in Run : EndsByFault(r)
<1>1. Init => Faulty
  BY TriadAssumption DEF Init, EndsByFault
<1>2. TypeOK /\ Faulty /\ [Next]_vars => Faulty'
  BY StepEndsByFault
<1>3. TypeOK /\ TriadInv /\ PermitHolds /\ Faulty => EndedRunIsClosed
  <2> SUFFICES ASSUME TypeOK, TriadInv, PermitHolds, Faulty,
                      NEW r \in Run, pc[r] \notin {"new"} \cup Alive
               PROVE  /\ r \notin holding
                      /\ \A v \in Variant : step[r][v] \in Ended
                      /\ \/ run[r] \in Closed
                         \/ pc[r] = "unreported" /\ "database" \in Faults
                         \/ pc[r] = "lost" /\ "crash" \in Faults
    BY DEF EndedRunIsClosed
  <2>1. TaskHolds(r) /\ EndsByFault(r) /\ pc[r] \in {"done", "unreported", "lost"}
    BY Labels DEF TriadInv, TypeOK
  <2>2. r \notin holding
    BY <2>1, Labels DEF PermitHolds
  <2> QED
    BY <2>1, <2>2 DEF TaskHolds, EndsByFault
<1> HIDE DEF Faulty
<1> QED
  BY <1>1, <1>2, <1>3, TypeCorrect, TriadCorrect, PermitsInOrder, PTL DEF Spec

(* Steps left. *)

SameLeft(r) ==
  /\ TaskStepsLeft(r)' = TaskStepsLeft(r)
  /\ \A v \in Variant : VariantStepsLeft(r, v)' = VariantStepsLeft(r, v)

LEMMA UntouchedLeft ==
  ASSUME NEW r \in Run, pc'[r] = pc[r], SameVariants(r)
  PROVE  SameLeft(r)
BY DEF SameVariants, SameLeft, TaskStepsLeft, VariantStepsLeft

LEMMA LeftIsNat ==
  ASSUME NEW r \in Run
  PROVE  /\ TaskStepsLeft(r) \in 0..8 /\ TaskStepsLeft(r)' \in 0..8
         /\ \A v \in Variant : /\ VariantStepsLeft(r, v) \in 0..7
                               /\ VariantStepsLeft(r, v)' \in 0..7
BY DEF TaskStepsLeft, VariantStepsLeft

(* A step of the task itself. *)
LEMMA TaskTakesOne ==
  ASSUME TypeOK, NEW r \in Run, Task(r) \/ Raise(r), ~InsertVariant(r), ~StartVariants(r)
  PROVE  /\ TaskStepsLeft(r)' < TaskStepsLeft(r)
         /\ \A v \in Variant : VariantStepsLeft(r, v)' = VariantStepsLeft(r, v)
<1> USE DEF TypeOK, Goto
<1>1. row' = row /\ step' = step
  BY DEF Task, Raise, Spawn, AcquirePermit, LoadRun, SeedsReady, SeedsTimeOut, Gather,
    Close, CloseFailed
<1>2. ASSUME Spawn(r) \/ AcquirePermit(r) \/ LoadRun(r) \/ SeedsReady(r)
      PROVE  TaskStepsLeft(r)' < TaskStepsLeft(r)
  BY <1>2 DEF Spawn, AcquirePermit, LoadRun, SeedsReady, TaskStepsLeft
<1>3. ASSUME SeedsTimeOut(r) \/ Gather(r) \/ Close(r) \/ CloseFailed(r)
      PROVE  TaskStepsLeft(r)' < TaskStepsLeft(r)
  BY <1>3 DEF SeedsTimeOut, Gather, Close, CloseFailed, TaskStepsLeft
<1>4. ASSUME Raise(r)
      PROVE  TaskStepsLeft(r)' < TaskStepsLeft(r)
  BY <1>4 DEF Raise, TaskStepsLeft
<1> QED
  BY <1>1, <1>2, <1>3, <1>4 DEF Task, VariantStepsLeft

LEMMA InsertTakesOne ==
  ASSUME TypeOK, TriadInv, NEW r \in Run, InsertVariant(r)
  PROVE  /\ TaskStepsLeft(r)' = TaskStepsLeft(r)
         /\ \A v \in Variant : VariantStepsLeft(r, v)' <= VariantStepsLeft(r, v)
         /\ \E v \in Variant : VariantStepsLeft(r, v)' < VariantStepsLeft(r, v)
<1>1. PICK u \in Variant : SetRow(r, u, "pending") /\ row[r][u] = "absent"
  BY DEF InsertVariant, InStatus
<1>2. pc' = pc /\ step' = step /\ \A v \in Variant : step[r][v] = "none"
  BY DEF InsertVariant, TriadInv, TaskHolds
<1>3. row'[r][u] = "pending" /\ \A v \in Variant \ {u} : row'[r][v] = row[r][v]
  BY <1>1 DEF SetRow, TypeOK
<1>4. VariantStepsLeft(r, u) = 7 /\ VariantStepsLeft(r, u)' = 6
  BY <1>1, <1>2, <1>3 DEF VariantStepsLeft
<1>5. \A v \in Variant \ {u} : VariantStepsLeft(r, v)' = VariantStepsLeft(r, v)
  BY <1>2, <1>3 DEF VariantStepsLeft
<1>6. \A v \in Variant : VariantStepsLeft(r, v)' <= VariantStepsLeft(r, v)
  BY <1>4, <1>5, LeftIsNat
<1>7. VariantStepsLeft(r, u)' < VariantStepsLeft(r, u)
  BY <1>4
<1> QED
  BY <1>2, <1>6, <1>7 DEF TaskStepsLeft

LEMMA StartTakesOne ==
  ASSUME TypeOK, TriadInv, NEW r \in Run, StartVariants(r)
  PROVE  /\ TaskStepsLeft(r)' < TaskStepsLeft(r)
         /\ \A v \in Variant : VariantStepsLeft(r, v)' <= VariantStepsLeft(r, v)
<1>1. TaskStepsLeft(r)' < TaskStepsLeft(r)
  BY DEF StartVariants, Goto, TypeOK, TaskStepsLeft
<1>2. ASSUME NEW v \in Variant
      PROVE  VariantStepsLeft(r, v)' <= VariantStepsLeft(r, v)
  <2>1. step[r][v] = "none" /\ row[r][v] = "pending"
    BY DEF StartVariants, InStatus, TriadInv, TaskHolds
  <2>2. step'[r][v] \in {"generate", "lookup"}
    BY DEF StartVariants, TypeOK
  <2> QED
    BY <2>1, <2>2 DEF VariantStepsLeft
<1> QED
  BY <1>1, <1>2

LEMMA VariantTakesOne ==
  ASSUME TypeOK, NEW r \in Run, NEW u \in Variant, VariantTask(r, u) \/ VariantRaises(r, u)
  PROVE  /\ TaskStepsLeft(r)' = TaskStepsLeft(r)
         /\ VariantStepsLeft(r, u)' < VariantStepsLeft(r, u)
         /\ \A v \in Variant \ {u} : VariantStepsLeft(r, v)' = VariantStepsLeft(r, v)
<1> USE DEF TypeOK, Step, SetRow
<1>1. pc' = pc /\ \A v \in Variant \ {u} : step'[r][v] = step[r][v] /\ row'[r][v] = row[r][v]
  BY DEF VariantTask, VariantRaises, LookUp, FinalizeCached, Generate,
    MarkGenerated, MarkUploaded, MarkFailed, Record
<1>2. ASSUME LookUp(r, u) \/ FinalizeCached(r, u) \/ Generate(r, u) \/ Record(r, u)
      PROVE  VariantStepsLeft(r, u)' < VariantStepsLeft(r, u)
  BY <1>2 DEF LookUp, FinalizeCached, Generate, Record, VariantStepsLeft
<1>3. ASSUME MarkGenerated(r, u) \/ MarkUploaded(r, u) \/ MarkFailed(r, u)
      PROVE  VariantStepsLeft(r, u)' < VariantStepsLeft(r, u)
  BY <1>3 DEF MarkGenerated, MarkUploaded, MarkFailed, VariantStepsLeft
<1>4. ASSUME VariantRaises(r, u)
      PROVE  VariantStepsLeft(r, u)' < VariantStepsLeft(r, u)
  <2>1. step'[r][u] = "raised" /\ step[r][u] \in Steps \ Ended
    BY <1>4 DEF VariantRaises
  <2> QED
    BY <2>1, Labels DEF VariantStepsLeft
<1> QED
  BY <1>1, <1>2, <1>3, <1>4 DEF VariantTask, TaskStepsLeft, VariantStepsLeft

(* A published row has been counted. *)
LEMMA SupersedeTakesNone ==
  ASSUME TypeOK, TriadInv, NEW q \in Run, NEW u \in Variant, Supersede(q, u), NEW r \in Run
  PROVE  SameLeft(r)
<1>1. pc' = pc /\ step' = step
  BY DEF Supersede
<1>2. \A v \in Variant : row'[r][v] = "absent" <=> row[r][v] = "absent"
  BY DEF Supersede, SetRow, TypeOK
<1> QED
  BY <1>1, <1>2 DEF SameLeft, TaskStepsLeft, VariantStepsLeft

LEMMA CrashTakesAll ==
  ASSUME TypeOK, Crash, NEW r \in Run
  PROVE  /\ TaskStepsLeft(r)' <= TaskStepsLeft(r)
         /\ \A v \in Variant : VariantStepsLeft(r, v)' <= VariantStepsLeft(r, v)
<1>1. CASE pc[r] \in Alive
  <2>1. pc'[r] = "lost" /\ \A v \in Variant : step'[r][v] = "lost"
    BY <1>1 DEF Crash, TypeOK
  <2>2. TaskStepsLeft(r)' = 0 /\ \A v \in Variant : VariantStepsLeft(r, v)' = 0
    BY <2>1 DEF TaskStepsLeft, VariantStepsLeft
  <2> QED
    BY <2>2, LeftIsNat
<1>2. CASE pc[r] \notin Alive
  <2>1. pc'[r] = pc[r] /\ SameVariants(r)
    BY <1>2 DEF Crash, TypeOK, SameVariants
  <2> QED
    BY <2>1, UntouchedLeft, LeftIsNat DEF SameLeft
<1> QED
  BY <1>1, <1>2

(* No step of anybody adds to what an accepted run has to do. *)
NoneAdded(r) ==
  /\ pc[r] # "new" => TaskStepsLeft(r)' <= TaskStepsLeft(r)
  /\ \A v \in Variant : VariantStepsLeft(r, v)' <= VariantStepsLeft(r, v)

LEMMA SameAddsNone ==
  ASSUME NEW r \in Run, SameLeft(r)
  PROVE  NoneAdded(r)
BY LeftIsNat DEF SameLeft, NoneAdded

LEMMA FewerAddsNone ==
  ASSUME NEW r \in Run,
         \/ TaskStepsLeft(r)' <= TaskStepsLeft(r)
         \/ TaskStepsLeft(r)' < TaskStepsLeft(r)
         \/ TaskStepsLeft(r)' = TaskStepsLeft(r),
         \A v \in Variant : \/ VariantStepsLeft(r, v)' <= VariantStepsLeft(r, v)
                           \/ VariantStepsLeft(r, v)' < VariantStepsLeft(r, v)
                           \/ VariantStepsLeft(r, v)' = VariantStepsLeft(r, v)
  PROVE  NoneAdded(r)
<1>1. TaskStepsLeft(r)' <= TaskStepsLeft(r)
  <2>1. TaskStepsLeft(r) \in Nat /\ TaskStepsLeft(r)' \in Nat
    BY LeftIsNat
  <2> QED
    BY <2>1
<1>2. ASSUME NEW v \in Variant
      PROVE  VariantStepsLeft(r, v)' <= VariantStepsLeft(r, v)
  <2>1. VariantStepsLeft(r, v) \in Nat /\ VariantStepsLeft(r, v)' \in Nat
    BY LeftIsNat
  <2> QED
    BY <2>1
<1> QED
  BY <1>1, <1>2 DEF NoneAdded

LEMMA NextAddsNone ==
  ASSUME TypeOK, TriadInv, Next, NEW r \in Run
  PROVE  NoneAdded(r)
<1> USE DEF TypeOK, Goto, Step, SetRow
<1>1. ASSUME NEW q \in Run \ {r}, Accept(q) \/ Task(q) \/ Raise(q)
      PROVE  pc'[r] = pc[r] /\ SameVariants(r)
  BY <1>1 DEF Accept, Task, Raise, Spawn, AcquirePermit, LoadRun, SeedsReady,
    SeedsTimeOut, InsertVariant, StartVariants, Gather, Close, CloseFailed, SameVariants
<1>2. ASSUME NEW q \in Run \ {r}, NEW u \in Variant, VariantTask(q, u) \/ VariantRaises(q, u)
      PROVE  pc'[r] = pc[r] /\ SameVariants(r)
  BY <1>2 DEF VariantTask, VariantRaises, LookUp, FinalizeCached, Generate,
    MarkGenerated, MarkUploaded, MarkFailed, Record, SameVariants
<1>3. ASSUME NEW q \in Run, PollRun(q) \/ PollRows(q) \/ LabStep(q)
      PROVE  pc'[r] = pc[r] /\ SameVariants(r)
  BY <1>3 DEF PollRun, PollRows, LabStep, Suspect, Reconcile, Spare, SameVariants
<1>4. CASE Accept(r)
  <2>1. pc[r] = "new" /\ SameVariants(r)
    BY <1>4 DEF Accept, SameVariants
  <2> QED
    BY <2>1, LeftIsNat DEF SameVariants, VariantStepsLeft, NoneAdded
<1>5. CASE Task(r) \/ Raise(r)
  <2>1. CASE InsertVariant(r)
    BY <2>1, InsertTakesOne, FewerAddsNone
  <2>2. CASE StartVariants(r)
    BY <2>2, StartTakesOne, FewerAddsNone
  <2>3. CASE ~InsertVariant(r) /\ ~StartVariants(r)
    BY <1>5, <2>3, TaskTakesOne, FewerAddsNone
  <2> QED
    BY <2>1, <2>2, <2>3
<1>6. ASSUME NEW u \in Variant, VariantTask(r, u) \/ VariantRaises(r, u)
      PROVE  NoneAdded(r)
  <2>1. /\ TaskStepsLeft(r)' = TaskStepsLeft(r)
        /\ VariantStepsLeft(r, u)' < VariantStepsLeft(r, u)
        /\ \A v \in Variant \ {u} : VariantStepsLeft(r, v)' = VariantStepsLeft(r, v)
    BY <1>6, VariantTakesOne
  <2> QED
    BY <2>1, FewerAddsNone
<1>7. ASSUME NEW q \in Run, NEW u \in Variant, Supersede(q, u)
      PROVE  NoneAdded(r)
  BY <1>7, SupersedeTakesNone, SameAddsNone
<1>8. CASE Crash
  BY <1>8, CrashTakesAll DEF NoneAdded
<1> QED
  BY <1>1, <1>2, <1>3, <1>4, <1>5, <1>6, <1>7, <1>8, UntouchedLeft, SameAddsNone DEF Next

(* A run asks for eight steps of its task and for seven of each variant at *)
(* most, however often it is polled, superseded or suspected: with         *)
(* TriadsAreNeverStuck, all that was accepted comes to its end.            *)
THEOREM TriadsAreFinite == Spec => StepsAreCounted
<1> DEFINE Taken(r) ==
      Task(r) => \/ TaskStepsLeft(r)' < TaskStepsLeft(r)
                 \/ \E v \in Variant : VariantStepsLeft(r, v)' < VariantStepsLeft(r, v)
    VariantTaken(r) ==
      \A v \in Variant : VariantTask(r, v) => VariantStepsLeft(r, v)' < VariantStepsLeft(r, v)
    Counted == \A r \in Run : NoneAdded(r) /\ Taken(r) /\ VariantTaken(r)
<1>1. TypeOK /\ TriadInv /\ [Next]_vars => [Counted]_vars
  <2> SUFFICES ASSUME TypeOK, TriadInv, Next, NEW r \in Run
               PROVE  NoneAdded(r) /\ Taken(r) /\ VariantTaken(r)
    BY DEF vars
  <2>1. NoneAdded(r)
    BY NextAddsNone
  <2>2. Taken(r)
    BY TaskTakesOne, InsertTakesOne, StartTakesOne
  <2>3. VariantTaken(r)
    BY VariantTakesOne
  <2> QED
    BY <2>1, <2>2, <2>3
<1>2. [Counted]_vars =>
        [\A r \in Run :
           /\ pc[r] # "new" => TaskStepsLeft(r)' <= TaskStepsLeft(r)
           /\ \A v \in Variant : /\ VariantStepsLeft(r, v)' <= VariantStepsLeft(r, v)
                                 /\ VariantTask(r, v)
                                      => VariantStepsLeft(r, v)' < VariantStepsLeft(r, v)
           /\ Task(r) => \/ TaskStepsLeft(r)' < TaskStepsLeft(r)
                         \/ \E v \in Variant :
                              VariantStepsLeft(r, v)' < VariantStepsLeft(r, v)]_vars
  BY DEF NoneAdded
<1> HIDE DEF Counted
<1> QED
  BY <1>1, <1>2, TypeCorrect, TriadCorrect, PTL DEF Spec, StepsAreCounted

-----------------------------------------------------------------------------
(* Orphans.                                                                *)

LEMMA OrphanRowStays ==
  ASSUME TypeOK, TriadInv, Next, NEW r \in Run, pc[r] = "lost"
  PROVE  /\ pc'[r] = "lost"
         /\ \/ row'[r] = row[r]
            \/ /\ r \in Watched
               /\ \A v \in Variant : row'[r][v] = "uploaded" => row[r][v] = "uploaded"
<1> USE DEF TypeOK, Goto, Step, SetRow
<1>1. \A u \in Variant : step[r][u] \in Ended
  BY Labels DEF TriadInv, TaskHolds
<1>2. ASSUME NEW q \in Run, Accept(q) \/ Task(q) \/ Raise(q)
      PROVE  pc'[r] = "lost" /\ row'[r] = row[r]
  BY <1>2, Labels DEF Accept, Task, Raise, Spawn, AcquirePermit, LoadRun, SeedsReady,
    SeedsTimeOut, InsertVariant, StartVariants, Gather, Close, CloseFailed
<1>3. ASSUME NEW q \in Run, NEW u \in Variant, VariantTask(q, u) \/ VariantRaises(q, u)
      PROVE  pc'[r] = "lost" /\ row'[r] = row[r]
  BY <1>1, <1>3, Labels DEF VariantTask, VariantRaises, LookUp, FinalizeCached, Generate,
    MarkGenerated, MarkUploaded, MarkFailed, Record
<1>4. ASSUME NEW q \in Run, NEW u \in Variant, Supersede(q, u)
      PROVE  /\ pc'[r] = "lost"
             /\ \/ row'[r] = row[r]
                \/ /\ r \in Watched
                   /\ \A v \in Variant : row'[r][v] = "uploaded" => row[r][v] = "uploaded"
  BY <1>4 DEF Supersede
<1>5. ASSUME NEW q \in Run, PollRun(q) \/ PollRows(q) \/ LabStep(q)
      PROVE  pc'[r] = "lost" /\ row'[r] = row[r]
  BY <1>5 DEF PollRun, PollRows, LabStep, Suspect, Reconcile, Spare
<1>6. CASE Crash
  BY <1>6, Labels DEF Crash
<1> QED
  BY <1>2, <1>3, <1>4, <1>5, <1>6 DEF Next

(* The lab suspects no orphan with all its variants published. *)
SuspectsInReach == \A r \in suspect : pc[r] = "lost" => InReach(r)

LEMMA ReachStays ==
  ASSUME TypeOK, TriadInv, Next, NEW r \in Run, pc[r] = "lost", InReach(r)
  PROVE  InReach(r)'
<1>1. PICK v \in Variant : row[r][v] # "uploaded"
  BY DEF InReach, InStatus
<1>2. row'[r][v] # "uploaded"
  BY <1>1, OrphanRowStays
<1> QED
  BY <1>2 DEF InReach, InStatus

LEMMA OnlyCrashLoses ==
  ASSUME TypeOK, Next, ~Crash, NEW r \in Run
  PROVE  /\ pc'[r] = "lost" => pc[r] = "lost"
         /\ r \in suspect' => r \in suspect \/ InReach(r)
<1> USE DEF TypeOK, Goto, polls
<1>1. ASSUME NEW q \in Run, Accept(q) \/ Task(q) \/ Raise(q)
      PROVE  suspect' = suspect /\ (pc'[r] = "lost" => pc[r] = "lost")
  BY <1>1 DEF Accept, Task, Raise, Spawn, AcquirePermit, LoadRun, SeedsReady,
    SeedsTimeOut, InsertVariant, StartVariants, Gather, Close, CloseFailed
<1>2. ASSUME NEW q \in Run, NEW u \in Variant,
             VariantTask(q, u) \/ VariantRaises(q, u) \/ Supersede(q, u)
      PROVE  suspect' = suspect /\ pc' = pc
  BY <1>2 DEF VariantTask, VariantRaises, LookUp, FinalizeCached, Generate,
    MarkGenerated, MarkUploaded, MarkFailed, Record, Supersede
<1>3. ASSUME NEW q \in Run, PollRun(q) \/ PollRows(q) \/ Reconcile(q) \/ Spare(q)
      PROVE  suspect' \subseteq suspect /\ pc' = pc
  BY <1>3 DEF PollRun, PollRows, Reconcile, Spare
<1>4. ASSUME NEW q \in Run, Suspect(q)
      PROVE  suspect' = suspect \cup {q} /\ InReach(q) /\ pc' = pc
  BY <1>4 DEF Suspect, InReach
<1> QED
  BY <1>1, <1>2, <1>3, <1>4 DEF Next, LabStep

LEMMA NextSuspectsInReach ==
  ASSUME TypeOK, TriadInv, SuspectsInReach, [Next]_vars
  PROVE  SuspectsInReach'
<1>1. CASE UNCHANGED vars
  BY <1>1 DEF vars, polls, SuspectsInReach, InReach, InStatus
<1>2. CASE Next
  <2>1. suspect' \subseteq Run
    BY NextTypeOK, TriadAssumption DEF TypeOK
  <2>2. CASE Crash
    BY <2>2 DEF Crash, SuspectsInReach
  <2>3. CASE ~Crash
    <3> SUFFICES ASSUME NEW r \in suspect', pc'[r] = "lost"
                 PROVE  InReach(r)'
      BY DEF SuspectsInReach
    <3>1. r \in Run /\ pc[r] = "lost" /\ (r \in suspect \/ InReach(r))
      BY <1>2, <2>1, <2>3, OnlyCrashLoses
    <3> QED
      BY <1>2, <3>1, ReachStays DEF SuspectsInReach
  <2> QED
    BY <2>2, <2>3
<1> QED
  BY <1>1, <1>2

LEMMA OrphanCloses ==
  ASSUME TypeOK, TriadInv, Next, NEW r \in Run, Orphan(r)
  PROVE  \/ run'[r] = run[r]
         \/ r \in suspect /\ run'[r] = "failed"
<1> USE DEF TypeOK
<1>1. ASSUME NEW q \in Run, Accept(q) \/ Task(q) \/ Raise(q)
      PROVE  run'[r] = run[r]
  BY <1>1, Labels DEF Accept, Task, Raise, Spawn, AcquirePermit, LoadRun, SeedsReady,
    SeedsTimeOut, InsertVariant, StartVariants, Gather, Close, CloseFailed, Orphan
<1>2. ASSUME NEW q \in Run, NEW u \in Variant,
             VariantTask(q, u) \/ VariantRaises(q, u) \/ Supersede(q, u)
      PROVE  run' = run
  BY <1>2 DEF VariantTask, VariantRaises, LookUp, FinalizeCached, Generate,
    MarkGenerated, MarkUploaded, MarkFailed, Record, Supersede
<1>3. ASSUME NEW q \in Run, PollRun(q) \/ PollRows(q) \/ Suspect(q) \/ Spare(q) \/ Crash
      PROVE  run' = run
  BY <1>3 DEF PollRun, PollRows, Suspect, Spare, Crash
<1>4. ASSUME NEW q \in Run, Reconcile(q)
      PROVE  run'[r] = run[r] \/ (r \in suspect /\ run'[r] = "failed")
  BY <1>4 DEF Reconcile
<1> QED
  BY <1>1, <1>2, <1>3, <1>4 DEF Next, LabStep

(* An orphan that the lab can close stays in its reach until it closes it, *)
(* and one whose variants have all been published, or that nobody looks at *)
(* in the lab, keeps its status for ever.                                  *)
THEOREM OrphansStayInReach == Spec => OrphansAreReachedOrStay
<1> DEFINE Reached(r) ==
      Orphan(r) =>
       /\ InReach(r) => run'[r] = "failed" \/ (Orphan(r) /\ InReach(r))'
       /\ ~InReach(r) => /\ Orphan(r)'
                         /\ InReach(r)' => r \in Lab \cap Watched
<1>1. TypeOK /\ TriadInv /\ SuspectsInReach /\ [Next]_vars => [\A r \in Run : Reached(r)]_vars
  <2> SUFFICES ASSUME TypeOK, TriadInv, SuspectsInReach, Next, NEW r \in Run, Orphan(r)
               PROVE  Reached(r)
    BY DEF vars
  <2>1. /\ pc'[r] = "lost"
        /\ \/ row'[r] = row[r]
           \/ /\ r \in Watched
              /\ \A v \in Variant : row'[r][v] = "uploaded" => row[r][v] = "uploaded"
    BY OrphanRowStays DEF Orphan
  <2>2. run'[r] = run[r] \/ (r \in suspect /\ run'[r] = "failed")
    BY OrphanCloses
  <2>3. CASE InReach(r)
    BY <2>1, <2>2, <2>3, ReachStays DEF Orphan
  <2>4. CASE ~InReach(r)
    <3>1. r \notin suspect
      BY <2>4 DEF SuspectsInReach, Orphan
    <3>2. InReach(r)' => r \in Lab \cap Watched
      BY <2>1, <2>4 DEF InReach, InStatus
    <3> QED
      BY <2>1, <2>2, <2>4, <3>1, <3>2 DEF Orphan
  <2> QED
    BY <2>3, <2>4
<1>2. Init => SuspectsInReach
  BY DEF Init, SuspectsInReach
<1>3. TypeOK /\ TriadInv /\ SuspectsInReach /\ [Next]_vars => SuspectsInReach'
  BY NextSuspectsInReach
<1>4. Spec => [][\A r \in Run : Reached(r)]_vars
  <2> HIDE DEF Reached
  <2> QED
    BY <1>1, <1>2, <1>3, TypeCorrect, TriadCorrect, PTL DEF Spec
<1> QED
  BY <1>4 DEF OrphansAreReachedOrStay
=============================================================================
