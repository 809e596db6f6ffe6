----------------------------- MODULE HeroTriad -----------------------------
(***************************************************************************)
(* The worker of POST /images/hero-candidates/generate in live mode and    *)
(* the poll of GET /images/hero-candidates/{run_id}. A run generates its   *)
(* variants concurrently; a mobile run first waits, holding its permit,    *)
(* until its desktop run has published them all. Acceptance models the     *)
(* route, SlotLineage what regenerates and unsupersedes a variant; here a  *)
(* published variant may be superseded. The inspector's viewport lab polls *)
(* too, and closes a run that has been running for long as orphaned. The   *)
(* code has three variants.                                                *)
(***************************************************************************)
EXTENDS Integers, Sequences, FiniteSets

CONSTANTS
  Run, Variant, NoRun,
  Starts,   \* the desktop run, or NoRun, of every run; the runs of old
  Prompt,   \* what is hashed for a run: site and compiled prompts
  Limits,   \* settings.max_concurrent_packs
  Watched,  \* the runs whose consumer polls and regenerates
  Lab,      \* the runs that a page of the viewport lab polls, once at a time
  Faults    \* "provider", "exception", "database", "crash", "supersede"

ASSUME TriadAssumption ==
  /\ NoRun \notin Run
  /\ Starts \subseteq [source : [Run -> Run \cup {NoRun}], earlier : SUBSET Run]
  /\ Limits \subseteq Nat \ {0}
  /\ Variant # {}
  /\ Lab \subseteq Run

VARIABLES
  source,   \* HeroCandidatesRequest.source_desktop_run_id
  limit,    \* what the semaphore was made with
  run,      \* agent_runs.status
  row,      \* external_media_assets.status, per run and variant
  pc,       \* the task of a run
  step,     \* the variant tasks that gather waits for
  edits,    \* the runs whose variants will be edits of reference images
  holding, queue,  \* the semaphore: who has a permit, who waits in order
  look,     \* a poll between its statements: the run status it read
  poll,     \* the last answer to a poll, if it told not to poll again
  suspect   \* the runs that a poll of the lab has read as unfinished

config == <<source, limit>>
semaphore == <<holding, queue>>
polls == <<look, poll, suspect>>
vars == <<config, run, row, pc, step, edits, semaphore, polls>>

Ended == {"none", "ok", "failed", "raised", "lost"}
Steps == Ended \cup {"lookup", "cached", "generate", "mark", "publish", "record",
                     "mark_failed", "record_failed"}
Busy == {"load", "wait", "insert", "gather", "close", "close_failed"}
Alive == {"accepted", "queue"} \cup Busy
PC == Alive \cup {"new", "done", "unreported", "lost"}
Closed == {"ok", "failed"}
Final == {"complete", "partial", "failed"}

Goto(r, label) == pc' = [pc EXCEPT ![r] = label]
Step(r, v, label) == step' = [step EXCEPT ![r][v] = label]
SetRow(r, v, status) == row' = [row EXCEPT ![r][v] = status]

InStatus(r, status) == {v \in Variant : row[r][v] = status}

(* Runs of old have been closed as ok, with every variant published.       *)
Init ==
  /\ limit \in Limits
  /\ \E start \in Starts :
       LET Fresh(r, value, otherwise) == IF r \in start.earlier THEN otherwise ELSE value
       IN /\ source = start.source
          /\ run = [r \in Run |-> Fresh(r, "absent", "ok")]
          /\ row = [r \in Run |-> [v \in Variant |-> Fresh(r, "absent", "uploaded")]]
          /\ pc = [r \in Run |-> Fresh(r, "new", "done")]
          /\ step = [r \in Run |-> [v \in Variant |-> Fresh(r, "none", "ok")]]
  /\ edits = {} /\ holding = {} /\ queue = << >> /\ suspect = {}
  /\ look = [r \in Run |-> "none"]
  /\ poll = [r \in Run |-> "none"]

-----------------------------------------------------------------------------
(* Acceptance: the run is inserted under its key, and from then on it can  *)
(* be named as the source of another; its task is created later.           *)
Accept(r) ==
  /\ pc[r] = "new" /\ Goto(r, "accepted")
  /\ source[r] # NoRun => pc[source[r]] # "new"
  /\ run' = [run EXCEPT ![r] = "running"]
  /\ UNCHANGED <<config, row, step, edits, semaphore, polls>>

(* create_task, and sem.acquire(), which serves waiters in order.          *)
Spawn(r) ==
  /\ pc[r] = "accepted"
  /\ \/ /\ Cardinality(holding) < limit /\ queue = << >>
        /\ holding' = holding \cup {r}
        /\ Goto(r, "load")
        /\ UNCHANGED queue
     \/ /\ ~(Cardinality(holding) < limit /\ queue = << >>)
        /\ queue' = Append(queue, r)
        /\ Goto(r, "queue")
        /\ UNCHANGED holding
  /\ UNCHANGED <<config, run, row, step, edits, polls>>

AcquirePermit(r) ==
  /\ pc[r] = "queue" /\ Goto(r, "load")
  /\ queue # << >> /\ r = Head(queue)
  /\ Cardinality(holding) < limit
  /\ queue' = Tail(queue)
  /\ holding' = holding \cup {r}
  /\ UNCHANGED <<config, run, row, step, edits, polls>>

(* Without a desktop run, the run may have a reference plan. It is written *)
(* back, with the images that were found or without any, and with the      *)
(* status running, whatever the lab has made of the run in the meantime.   *)
LoadRun(r) ==
  /\ pc[r] = "load"
  /\ Goto(r, IF source[r] = NoRun THEN "insert" ELSE "wait")
  /\ \/ UNCHANGED <<run, edits>>
     \/ /\ source[r] = NoRun
        /\ run' = [run EXCEPT ![r] = "running"]
        /\ edits' \in {edits, edits \cup {r}}
  /\ UNCHANGED <<config, row, step, semaphore, polls>>

(* load_desktop_seed_map looks for published rows, never at the status of  *)
(* the desktop run.                                                        *)
DesktopReady(r) == InStatus(source[r], "uploaded") = Variant

SeedsReady(r) ==
  /\ pc[r] = "wait" /\ Goto(r, "insert")
  /\ DesktopReady(r)
  /\ edits' = edits \cup {r}
  /\ UNCHANGED <<config, run, row, step, semaphore, polls>>

(* Mutant: a desktop run that has closed is taken to have published them.  *)
SeedsOfOpenRunTimeOut(r) ==
  /\ pc[r] = "wait" /\ Goto(r, "close_failed")
  /\ ~DesktopReady(r)
  /\ run[source[r]] \notin Closed
  /\ UNCHANGED <<config, run, row, step, edits, semaphore, polls>>

(* 600 seconds have gone by and the last look found too few.               *)
SeedsTimeOut(r) ==
  /\ pc[r] = "wait" /\ Goto(r, "close_failed")
  /\ ~DesktopReady(r)
  /\ UNCHANGED <<config, run, row, step, edits, semaphore, polls>>

InsertVariant(r) ==
  /\ pc[r] = "insert"
  /\ \E v \in InStatus(r, "absent") : SetRow(r, v, "pending")
  /\ UNCHANGED <<config, run, pc, step, edits, semaphore, polls>>

(* A variant with reference images does not look in the prompt cache.      *)
StartVariants(r) ==
  /\ pc[r] = "insert" /\ Goto(r, "gather")
  /\ InStatus(r, "absent") = {}
  /\ step' = [step EXCEPT ![r] =
                [v \in Variant |-> IF r \in edits THEN "generate" ELSE "lookup"]]
  /\ edits' = edits \ {r}
  /\ UNCHANGED <<config, run, row, semaphore, polls>>

(* Mutant: the first variant that ends well is waited for.                 *)
GatherFirst(r) ==
  /\ pc[r] = "gather" /\ Goto(r, "close")
  /\ \/ \A v \in Variant : step[r][v] \in Ended
     \/ \E v \in Variant : step[r][v] = "ok"
  /\ UNCHANGED <<config, run, row, step, edits, semaphore, polls>>

(* Mutant: gather without return_exceptions leaves at the first exception. *)
GatherFailsFast(r) ==
  /\ pc[r] = "gather"
  /\ \/ \E v \in Variant : step[r][v] = "raised" /\ Goto(r, "close_failed")
     \/ \A v \in Variant : step[r][v] \in Ended \ {"raised"} /\ Goto(r, "close")
  /\ UNCHANGED <<config, run, row, step, edits, semaphore, polls>>

Gather(r) ==
  /\ pc[r] = "gather" /\ Goto(r, "close")
  /\ \A v \in Variant : step[r][v] \in Ended
  /\ UNCHANGED <<config, run, row, step, edits, semaphore, polls>>

(* roll_up_cost; the run is ok unless no variant ended well; the finally   *)
(* clause follows without an await.                                        *)
Close(r) ==
  /\ pc[r] = "close" /\ Goto(r, "done")
  /\ \E s \in Closed : /\ s = "ok" <=> \E v \in Variant : step[r][v] = "ok"
                       /\ run' = [run EXCEPT ![r] = s]
  /\ holding' = holding \ {r}
  /\ UNCHANGED <<config, row, step, edits, queue, polls>>

(* Mutant: no finally clause.                                              *)
CloseFailedKeepsPermit(r) ==
  /\ pc[r] = "close_failed" /\ Goto(r, "done")
  /\ run' = [run EXCEPT ![r] = "failed"]
  /\ UNCHANGED <<config, row, step, edits, semaphore, polls>>

CloseFailed(r) ==
  /\ pc[r] = "close_failed"
  /\ \/ /\ run' = [run EXCEPT ![r] = "failed"]
        /\ Goto(r, "done")
     \/ /\ "database" \in Faults
        /\ Goto(r, "unreported")
        /\ UNCHANGED run
  /\ holding' = holding \ {r}
  /\ UNCHANGED <<config, row, step, edits, queue, polls>>

(* Any await of the task may raise: its except clause closes the run.      *)
Raise(r) ==
  /\ "exception" \in Faults
  /\ pc[r] \in {"load", "wait", "insert", "close"}
  /\ Goto(r, "close_failed")
  /\ UNCHANGED <<config, run, row, step, edits, semaphore, polls>>

-----------------------------------------------------------------------------
(* _generate_one_variant *)

(* _find_cached_hero_asset *)
Cached(r, v) == \E q \in Run : Prompt[q] = Prompt[r] /\ row[q][v] = "uploaded"

LookUp(r, v) ==
  /\ step[r][v] = "lookup"
  /\ Step(r, v, IF Cached(r, v) THEN "cached" ELSE "generate")
  /\ UNCHANGED <<config, run, row, pc, edits, semaphore, polls>>

(* The bytes that stand for a cached image are not an image: the check of  *)
(* its palette raises before anything is written.                          *)
FinalizeCached(r, v) ==
  /\ step[r][v] = "cached" /\ Step(r, v, "raised")
  /\ UNCHANGED <<config, run, row, pc, edits, semaphore, polls>>

(* with_retry and the one repetition that the quality check asks for.      *)
Generate(r, v) ==
  /\ step[r][v] = "generate"
  /\ \/ Step(r, v, "mark")
     \/ "provider" \in Faults /\ Step(r, v, "mark_failed")
  /\ UNCHANGED <<config, run, row, pc, edits, semaphore, polls>>

MarkGenerated(r, v) ==
  /\ step[r][v] = "mark" /\ Step(r, v, "publish")
  /\ SetRow(r, v, "generated")
  /\ UNCHANGED <<config, run, pc, edits, semaphore, polls>>

(* upload_asset_at_key, mark_asset_uploaded *)
MarkUploaded(r, v) ==
  /\ step[r][v] = "publish" /\ Step(r, v, "record")
  /\ SetRow(r, v, "uploaded")
  /\ UNCHANGED <<config, run, pc, edits, semaphore, polls>>

MarkFailed(r, v) ==
  /\ step[r][v] = "mark_failed" /\ Step(r, v, "record_failed")
  /\ SetRow(r, v, "failed")
  /\ UNCHANGED <<config, run, pc, edits, semaphore, polls>>

(* _patch_asset_metadata, insert_tool_call *)
Record(r, v) ==
  /\ \/ step[r][v] = "record" /\ Step(r, v, "ok")
     \/ step[r][v] = "record_failed" /\ Step(r, v, "failed")
  /\ UNCHANGED <<config, run, row, pc, edits, semaphore, polls>>

VariantRaises(r, v) ==
  /\ "exception" \in Faults
  /\ step[r][v] \notin Ended
  /\ Step(r, v, "raised")
  /\ UNCHANGED <<config, run, row, pc, edits, semaphore, polls>>

(* regenerate-variant asks that the row is uploaded, not that the run of   *)
(* the row has closed.                                                     *)
Supersede(r, v) ==
  /\ "supersede" \in Faults /\ r \in Watched
  /\ row[r][v] = "uploaded"
  /\ SetRow(r, v, "superseded")
  /\ UNCHANGED <<config, run, pc, step, edits, semaphore, polls>>

-----------------------------------------------------------------------------
(* _build_poll_response: one statement for the run, one for its rows.      *)

(* _map_poll_status *)
PollStatus(status, uploaded, failed) ==
  CASE status = "running" /\ uploaded = {} /\ failed = {} -> "pending"
    [] status = "running" /\ ~(uploaded = {} /\ failed = {}) -> "running"
    [] status = "ok" /\ uploaded = Variant -> "complete"
    [] status = "ok" /\ uploaded \notin {{}, Variant} -> "partial"
    [] OTHER -> "failed"

Answer(r, status) == PollStatus(status, InStatus(r, "uploaded"), InStatus(r, "failed"))

PollRun(r) ==
  /\ r \in Watched
  /\ run[r] # "absent"
  /\ look[r] = "none"
  /\ look' = [look EXCEPT ![r] = run[r]]
  /\ UNCHANGED <<config, run, row, pc, step, edits, semaphore, poll, suspect>>

PollRows(r) ==
  /\ look[r] # "none"
  /\ look' = [look EXCEPT ![r] = "none"]
  /\ poll' = [poll EXCEPT ![r] = IF Answer(r, look[r]) \in Final THEN Answer(r, look[r])
                                  ELSE "none"]
  /\ UNCHANGED <<config, run, row, pc, step, edits, semaphore, suspect>>

(* Mutant: only a run with variants still to be generated is suspected.    *)
SuspectAtWork(r) ==
  /\ r \in Lab /\ r \notin suspect
  /\ run[r] = "running" /\ pc[r] # "accepted"
  /\ InStatus(r, "uploaded") # Variant
  /\ InStatus(r, "pending") \cup InStatus(r, "generated") # {}
  /\ suspect' = suspect \cup {r}
  /\ UNCHANGED <<config, run, row, pc, step, edits, semaphore, look, poll>>

(* reconcile_stale_hero_run. Its first statement asks for the run and      *)
(* counts its published variants, its second counts those to be generated. *)
(* The route answers long before a run is old enough to be closed.         *)
Suspect(r) ==
  /\ r \in Lab /\ r \notin suspect
  /\ run[r] = "running" /\ pc[r] # "accepted"
  /\ InStatus(r, "uploaded") # Variant
  /\ suspect' = suspect \cup {r}
  /\ UNCHANGED <<config, run, row, pc, step, edits, semaphore, look, poll>>

(* Five minutes after the start of the run, or two when no variant is to   *)
(* be generated, whatever its status has become and whether its task is    *)
(* alive. Time is not modelled: either may be the case.                    *)
Reconcile(r) ==
  /\ r \in suspect
  /\ run' = [run EXCEPT ![r] = "failed"]
  /\ suspect' = suspect \ {r}
  /\ UNCHANGED <<config, row, pc, step, edits, semaphore, look, poll>>

(* Too young; or a statement raised, which poll_hero_run passes over.      *)
Spare(r) ==
  /\ r \in suspect
  /\ suspect' = suspect \ {r}
  /\ UNCHANGED <<config, run, row, pc, step, edits, semaphore, look, poll>>

LabStep(r) == Suspect(r) \/ Reconcile(r) \/ Spare(r)

-----------------------------------------------------------------------------
(* The process dies and is started again: tasks and permits are gone.      *)
Crash ==
  /\ "crash" \in Faults
  /\ \E r \in Run : pc[r] \in Alive
  /\ pc' = [r \in Run |-> IF pc[r] \in Alive THEN "lost" ELSE pc[r]]
  /\ step' = [r \in Run |-> IF pc[r] \in Alive THEN [v \in Variant |-> "lost"] ELSE step[r]]
  /\ edits' = {} /\ holding' = {} /\ queue' = << >> /\ suspect' = {}
  /\ look' = [r \in Run |-> "none"]
  /\ UNCHANGED <<config, run, row, poll>>

Task(r) ==
  \/ Spawn(r) \/ AcquirePermit(r) \/ LoadRun(r) \/ SeedsReady(r) \/ SeedsTimeOut(r)
  \/ InsertVariant(r) \/ StartVariants(r) \/ Gather(r)
  \/ Close(r) \/ CloseFailed(r)

VariantTask(r, v) ==
  \/ LookUp(r, v) \/ FinalizeCached(r, v) \/ Generate(r, v)
  \/ MarkGenerated(r, v) \/ MarkUploaded(r, v) \/ MarkFailed(r, v) \/ Record(r, v)

Next ==
  \/ \E r \in Run : \/ Accept(r) \/ Task(r) \/ Raise(r) \/ PollRun(r) \/ PollRows(r)
                    \/ LabStep(r)
                    \/ \E v \in Variant : VariantTask(r, v) \/ VariantRaises(r, v) \/ Supersede(r, v)
  \/ Crash

(* The event loop runs every task that can run, calls return, and the wait *)
(* for the desktop run ends. A page of the lab polls a run every 8 seconds *)
(* until it is closed, 60 times, and a run is spared for 300 seconds: the  *)
(* fairness of Lab is that of a page opened after the last crash.          *)
Fairness ==
  /\ \A r \in Run : WF_vars(Task(r))
  /\ \A r \in Lab : WF_vars(Suspect(r)) /\ SF_vars(Reconcile(r))
  /\ \A r \in Run, v \in Variant : WF_vars(VariantTask(r, v))

Spec == Init /\ [][Next]_vars
FairSpec == Spec /\ Fairness

-----------------------------------------------------------------------------
TypeOK ==
  /\ source \in [Run -> Run \cup {NoRun}]
  /\ limit \in Nat \ {0}
  /\ run \in [Run -> {"absent", "running"} \cup Closed]
  /\ row \in [Run -> [Variant -> {"absent", "pending", "generated", "uploaded",
                                 "failed", "superseded"}]]
  /\ pc \in [Run -> PC]
  /\ step \in [Run -> [Variant -> Steps]]
  /\ edits \subseteq Run /\ holding \subseteq Run
  /\ queue \in Seq(Run)
  /\ look \in [Run -> {"none", "running"} \cup Closed]
  /\ poll \in [Run -> {"none"} \cup Final]
  /\ suspect \subseteq Lab

(* The inductive invariant: what the label of a task says of its run and   *)
(* of its variants, that of a variant of its row, and a poll of them all.  *)
(* Only the lab closes a run that its task has not closed.                 *)
TaskHolds(r) ==
  /\ run[r] = "absent" <=> pc[r] = "new"
  /\ r \in suspect => pc[r] # "new"
  /\ pc[r] = "done" => run[r] \in Closed
  /\ run[r] = "ok" => pc[r] = "done"
  /\ run[r] = "failed" => pc[r] = "done" \/ r \in Lab
  /\ pc[r] \in {"new", "accepted", "queue", "load", "wait"} =>
       \A v \in Variant : row[r][v] = "absent"
  /\ pc[r] = "insert" => \A v \in Variant : row[r][v] \in {"absent", "pending"}
  /\ pc[r] \in {"new", "accepted", "queue", "load", "wait", "insert"} =>
       \A v \in Variant : step[r][v] = "none"
  /\ pc[r] # "gather" => \A v \in Variant : step[r][v] \in Ended
  /\ run[r] = "ok" => \E v \in Variant : step[r][v] = "ok"

VariantHolds(r, v) ==
  /\ step[r][v] \in {"lookup", "cached", "generate", "mark", "mark_failed"} =>
       row[r][v] = "pending"
  /\ step[r][v] = "publish" => row[r][v] = "generated"
  /\ step[r][v] \in {"record", "ok"} => row[r][v] \in {"uploaded", "superseded"}
  /\ step[r][v] \in {"record_failed", "failed"} => row[r][v] = "failed"

(* A permit is held from the acquire to the last clause of its task, the   *)
(* ten minutes of waiting for a desktop run included, and those that wait  *)
(* for one are in the queue once.                                          *)
PermitHolds ==
  /\ holding = {r \in Run : pc[r] \in Busy}
  /\ Cardinality(holding) <= limit
  /\ \A r \in Run : pc[r] = "queue" <=> \E i \in DOMAIN queue : queue[i] = r
  /\ \A i, j \in DOMAIN queue : queue[i] = queue[j] => i = j

(* A final answer to a poll, read by two statements, is about a closed run *)
(* and agrees with what became of its variants.                            *)
PollTellsTruth(r) ==
  /\ poll[r] \in Final => run[r] \in Closed
  /\ poll[r] = "complete" =>
       \A v \in Variant : row[r][v] \in {"uploaded", "superseded"}
  /\ poll[r] = "partial" =>
       \E v \in Variant : row[r][v] \in {"uploaded", "superseded"}
  /\ poll[r] = "failed" => run[r] = "failed" \/ InStatus(r, "uploaded") = {}

PollHolds(r) ==
  /\ look[r] \in Closed => look[r] = run[r]
  /\ look[r] = "running" => poll[r] \notin Final
  /\ poll[r] \in Final =>
       poll[r] = Answer(r, run[r]) \/ InStatus(r, "superseded") # {}
  /\ poll[r] \in {"complete", "partial"} => run[r] = "ok"

TriadInv ==
  \A r \in Run : /\ TaskHolds(r)
                 /\ r \notin Lab => PollHolds(r) /\ PollTellsTruth(r)
                 /\ \A v \in Variant : VariantHolds(r, v)

(* Variants run concurrently and may raise, and the task that gathers them *)
(* may be the first to end: once the run is closed no row of it changes,   *)
(* except that a published image is superseded. A run of the lab may be    *)
(* closed under its task.                                                  *)
ClosedRunIsQuiet ==
  [][\A r \in Run \ Lab, v \in Variant : run[r] \in Closed =>
       \/ row'[r][v] = row[r][v]
       \/ row[r][v] = "uploaded" /\ row'[r][v] = "superseded"]_vars

(* A consumer that stops polling at complete, partial or failed misses     *)
(* nothing: later polls answer the same until a variant is superseded, and *)
(* never that the run is still going. This asks that the lab has not been  *)
(* closing the run.                                                        *)
FinalPollStands ==
  [][\A r \in Run \ Lab : poll[r] \in Final =>
       /\ poll'[r] \in Final
       /\ poll'[r] = poll[r] \/ InStatus(r, "superseded") # {}]_vars

(* What a consumer sees of a run, and what its polls tell, is what         *)
(* TriadPromise allows. It asks that the lab has not been closing the run. *)
OutcomeSeen(r) ==
  CASE run[r] = "absent" -> "none" [] run[r] = "running" -> "open" [] OTHER -> run[r]
MadeOf(r) == InStatus(r, "uploaded") \cup InStatus(r, "superseded")

Promise == INSTANCE TriadPromise WITH
  Run <- Run \ Lab,
  outcome <- [r \in Run \ Lab |-> OutcomeSeen(r)],
  made <- [r \in Run \ Lab |-> MadeOf(r)],
  replaced <- [r \in Run \ Lab |-> InStatus(r, "superseded")],
  answer <- [r \in Run \ Lab |-> poll[r]]

(* Whatever the worker, its variants and the regenerations do between the  *)
(* two statements of a poll, the consumer is told the truth about a run    *)
(* that has closed for good.                                               *)
KeepsTriadPromise == Promise!PromiseSpec

(* Acceptance models the task of a run by some of its actions. What they   *)
(* are about is seen of a task here; the requests are not, and stand still.*)
ImagesSeen == {r \in Run \ Lab : MadeOf(r) # {}}
AtWork == {r \in Run \ Lab : pc[r] \in {"queue"} \cup Busy}

Route == INSTANCE Acceptance WITH
  Request <- Run \ Lab, Key <- Run \ Lab, Routes <- {"live_hero"},
  route <- [r \in Run \ Lab |-> "live_hero"], key <- [r \in Run \ Lab |-> r],
  run <- [r \in Run \ Lab |-> run[r]], bound <- [r \in Run \ Lab |-> r],
  uploaded <- ImagesSeen, started <- {}, working <- AtWork, up <- TRUE,
  pc <- [r \in Run \ Lab |-> "done"], found <- [r \in Run \ Lab |-> r],
  reply <- [r \in Run \ Lab |-> "none"]

(* Whatever a triad, its variants, those who supersede them and other runs *)
(* do, is what Acceptance takes a task to do: it publishes while it works, *)
(* and its last step closes its run, or is one that the database refuses.  *)
(* Crash is the death of the process and its restart.                      *)
WorksAsAccepted ==
  [][\/ \E r \in Run \ Lab : Accept(r) \/ Spawn(r)
     \/ \E r \in Run \ Lab : Route!TaskPublishes(r) \/ Route!TaskEnds(r) \/ Route!TaskLost(r)
     \/ "crash" \in Faults /\ AtWork' = {} /\ ImagesSeen' = ImagesSeen /\ run' = run
    ]_<<[r \in Run \ Lab |-> run[r]], ImagesSeen, AtWork>>

(* Whatever its desktop run does, a task that was created ends and gives   *)
(* its permit back, and its run is closed, unless the process dies or the  *)
(* database refuses the last UPDATE.                                       *)
EveryTriadEnds ==
  \A r \in Run : pc[r] \in Alive ~>
    r \notin holding /\ (run[r] \in Closed \/ pc[r] \in {"unreported", "lost"})

(* A run of the lab that a crash left running is closed, unless all of its *)
(* variants had been published: those runs stay running for ever.          *)
OrphansAreClosed ==
  \A r \in Lab :
    pc[r] = "lost" /\ run[r] = "running" /\ InStatus(r, "uploaded") # Variant ~> run[r] = "failed"

-----------------------------------------------------------------------------
(* What of it is safety: no task is ever stuck, none has more than so much *)
(* to do, none ends before its run is closed, and an orphan that the lab   *)
(* can close is one for as long as it is open.                             *)

(* A variant task waits for nobody, a task that gathers only for them, and *)
(* the wait for a desktop run has an end.                                  *)
CanMove(r) ==
  \/ pc[r] = "accepted" \/ pc[r] \in Busy
  \/ queue # << >> /\ r = Head(queue) /\ Cardinality(holding) < limit

(* While a task is alive there is one that can go on: whatever mobile runs *)
(* wait, with their permits, for a desktop run that has none.              *)
SomebodyMoves == (\E r \in Run : pc[r] \in Alive) => \E r \in Run : CanMove(r)

TaskStepsLeft(r) ==
  CASE pc[r] = "accepted" -> 8
    [] pc[r] = "queue" -> 7
    [] pc[r] = "load" -> 6
    [] pc[r] = "wait" -> 5
    [] pc[r] = "insert" -> 4
    [] pc[r] = "gather" -> 3
    [] pc[r] = "close" -> 2
    [] pc[r] = "close_failed" -> 1
    [] OTHER -> 0

(* Those of a variant that is not started include the INSERT of its row. *)
VariantStepsLeft(r, v) ==
  CASE step[r][v] = "none" /\ row[r][v] = "absent" -> 7
    [] step[r][v] = "none" /\ row[r][v] # "absent" -> 6
    [] step[r][v] = "lookup" -> 5
    [] step[r][v] = "generate" -> 4
    [] step[r][v] = "mark" -> 3
    [] step[r][v] \in {"publish", "mark_failed"} -> 2
    [] step[r][v] \in {"cached", "record", "record_failed"} -> 1
    [] OTHER -> 0

(* The task of an accepted run makes eight steps, and seven more for each  *)
(* of its variants, whatever fails, raises, is superseded or is closed in  *)
(* the lab.                                                                *)
StepsAreCounted ==
  [][\A r \in Run :
       /\ pc[r] # "new" => TaskStepsLeft(r)' <= TaskStepsLeft(r)
       /\ \A v \in Variant : /\ VariantStepsLeft(r, v)' <= VariantStepsLeft(r, v)
                             /\ VariantTask(r, v)
                                  => VariantStepsLeft(r, v)' < VariantStepsLeft(r, v)
       /\ Task(r) => \/ TaskStepsLeft(r)' < TaskStepsLeft(r)
                     \/ \E v \in Variant :
                          VariantStepsLeft(r, v)' < VariantStepsLeft(r, v)]_vars

(* A task that is over has given its permit back and closed its run, and   *)
(* its variants are over, except by the two faults that EveryTriadEnds     *)
(* names.                                                                  *)
EndedRunIsClosed ==
  \A r \in Run : pc[r] \notin {"new"} \cup Alive =>
    /\ r \notin holding
    /\ \A v \in Variant : step[r][v] \in Ended
    /\ \/ run[r] \in Closed
       \/ pc[r] = "unreported" /\ "database" \in Faults
       \/ pc[r] = "lost" /\ "crash" \in Faults

(* reconcile_stale_hero_run leaves a run alone whose variants are all      *)
(* published.                                                              *)
Orphan(r) == pc[r] = "lost" /\ run[r] = "running"
InReach(r) == r \in Lab /\ InStatus(r, "uploaded") # Variant

(* An orphan that the lab can close remains so until it closes it, and the *)
(* others are never closed at all, unless the consumer comes back to       *)
(* replace a variant.                                                      *)
OrphansAreReachedOrStay ==
  [][\A r \in Run : Orphan(r) =>
       /\ InReach(r) => run'[r] = "failed" \/ (Orphan(r) /\ InReach(r))'
       /\ ~InReach(r) => /\ Orphan(r)'
                         /\ InReach(r)' => r \in Lab \cap Watched]_vars

-----------------------------------------------------------------------------
(* reconcile_stale_hero_run: mark orphaned running hero runs failed after  *)
(* worker or process loss. No run has failed while its task is alive.      *)
OnlyOrphansAreReconciled ==
  \A r \in Lab : run[r] = "failed" => pc[r] \notin Alive

(* plan/HANDOFF-HERO-VISUAL-STRATEGY.md: the prompt cache replays a prior  *)
(* image of the same site and prompt.                                      *)
CacheReplaysImages ==
  [][\A r \in Run, v \in Variant : step[r][v] = "cached" => step'[r][v] # "raised"]_vars
=============================================================================
