------------------------------ MODULE ConnPool ------------------------------
(***************************************************************************)
(* The two things everything in the process shares: the connections of     *)
(* asyncpg's pool and the permits of the workers' semaphore. Neither       *)
(* pool.acquire() nor sem.acquire() is given a timeout. A handler is the   *)
(* sequence of its blocks "async with pool.acquire()": a row writer is a   *)
(* single block, and in one place a block is entered inside another. What  *)
(* the statements say is in the other modules.                             *)
(***************************************************************************)
EXTENDS Naturals, Sequences, FiniteSets

CONSTANTS
  Conn,     \* the connections, max_size of them
  Task,     \* requests, background tasks and pages at work at the same time
  Permits,  \* settings.max_concurrent_packs
  Jobs,     \* which handler each task may be, see Handlers
  Nobody

(* A handler takes a permit before the block "permit", unless that is 0,   *)
(* and gives it back when it ends.                                         *)
Blocks(n) == [i \in 1..n |-> "single"]
Handler(blocks) == [blocks |-> blocks, permit |-> 0]
Worker(n, permit) == [blocks |-> Blocks(n), permit |-> permit]

(* The routes. lookup, run, payload and status; a triad without photograph *)
(* is closed, too; a preview makes its image while the caller waits.       *)
AssetPack == Handler(Blocks(4))
HeroCandidates == Handler(Blocks(5))
StylePreview == Handler(Blocks(11))
PollRun == Handler(Blocks(1))
RegenerateVariant == Handler(Blocks(4))

(* _style_profile_from_original_run is called inside of the block that has *)
(* read the asset and the payload.                                         *)
RegenerateSlot == Handler(<<"nested", "single", "single">>)

(* The tasks; of a loop over slots the blocks of one slot, and last the    *)
(* block of the except clause. The variants of a triad are tasks.          *)
PackTask == Worker(8, 1)
SlotTask == Worker(10, 1)
VariantTask == Worker(12, 4)
TriadTask == Worker(8, 1)
TriadVariant == Handler(Blocks(5))
Sweep == Handler(Blocks(2))

(* The pages of the inspector. *)
ListPage == Handler(Blocks(1))
DetailPage == Handler(Blocks(1))
GridPage == Handler(Blocks(1))
SlotPage == Handler(Blocks(1))
RegeneratePost == Handler(Blocks(1))
UnsupersedePost == Handler(Blocks(3))
SoftDeletePost == Handler(Blocks(1))

(* Mutant: the page takes a connection and hands the pool to the rollups.  *)
CostPageNested == Handler(<<"nested", "nested", "nested", "nested", "nested">>)

CostPage == Handler(Blocks(5))
LabPoll == Handler(Blocks(10))
LabPage == Handler(Blocks(13))

Handlers ==
  {AssetPack, HeroCandidates, StylePreview, PollRun, RegenerateVariant, RegenerateSlot,
   PackTask, SlotTask, VariantTask, TriadTask, TriadVariant, Sweep,
   ListPage, DetailPage, GridPage, SlotPage, RegeneratePost, UnsupersedePost,
   SoftDeletePost, CostPage, LabPoll, LabPage}

ASSUME PoolAssumption ==
  /\ IsFiniteSet(Conn) /\ IsFiniteSet(Task)
  /\ Nobody \notin Task
  /\ Permits \in Nat \ {0}
  /\ Jobs \subseteq [Task -> Handlers]

VARIABLES
  job,     \* what each task is
  at,      \* the block it is in or before
  label,   \* where in that block
  owner,   \* the task that has a connection
  inside   \* the tasks that have a permit

vars == <<job, at, label, owner, inside>>

(* "between" blocks; a call of acquire "waits"; the connection is "used";  *)
(* the same for the block within; and the rest of the block around it.     *)
Label == {"between", "waits", "used", "waits_within", "used_within", "after"}

Held(t) == {c \in Conn : owner[c] = t}
Free == {c \in Conn : owner[c] = Nobody}
Last(t) == Len(job[t].blocks)
Block(t) == job[t].blocks[at[t]]
Ended(t) == at[t] > Last(t)
Goto(t, l) == label' = [label EXCEPT ![t] = l]

Init ==
  /\ job \in Jobs
  /\ at = [t \in Task |-> 1]
  /\ label = [t \in Task |-> "between"]
  /\ owner = [c \in Conn |-> Nobody]
  /\ inside = {}

-----------------------------------------------------------------------------
NeedsPermit(t) == at[t] = job[t].permit /\ t \notin inside

(* sem.acquire() *)
Enter(t) ==
  /\ label[t] = "between" /\ NeedsPermit(t)
  /\ Cardinality(inside) < Permits
  /\ inside' = inside \cup {t}
  /\ UNCHANGED <<job, at, label, owner>>

Ask(t) ==
  /\ label[t] = "between" /\ ~Ended(t) /\ ~NeedsPermit(t)
  /\ Goto(t, "waits")
  /\ UNCHANGED <<job, at, owner, inside>>

(* A connection that was given back goes to one of those who wait: the     *)
(* order of asyncio's queue is not relied upon.                            *)
Take(t) ==
  /\ \E c \in Free : owner' = [owner EXCEPT ![c] = t]
  /\ \/ label[t] = "waits" /\ Goto(t, "used")
     \/ label[t] = "waits_within" /\ Goto(t, "used_within")
  /\ UNCHANGED <<job, at, inside>>

AskWithin(t) ==
  /\ label[t] = "used" /\ Block(t) = "nested"
  /\ Goto(t, "waits_within")
  /\ UNCHANGED <<job, at, owner, inside>>

GiveWithin(t) ==
  /\ label[t] = "used_within" /\ Goto(t, "after")
  /\ \E c \in Held(t) : owner' = [owner EXCEPT ![c] = Nobody]
  /\ UNCHANGED <<job, at, inside>>

GiveAll(t) == owner' = [c \in Conn |-> IF owner[c] = t THEN Nobody ELSE owner[c]]

(* The finally clause of a worker follows its last block without an await. *)
Advance(t, block) ==
  /\ at' = [at EXCEPT ![t] = block]
  /\ Goto(t, "between")
  /\ inside' = IF block > Last(t) THEN inside \ {t} ELSE inside
  /\ UNCHANGED job

Give(t) ==
  /\ \/ label[t] = "used" /\ Block(t) = "single"
     \/ label[t] = "after"
  /\ GiveAll(t)
  /\ Advance(t, at[t] + 1)

(* A block of a branch that is not taken. *)
Pass(t) ==
  /\ label[t] = "between" /\ ~Ended(t) /\ ~NeedsPermit(t)
  /\ Advance(t, at[t] + 1)
  /\ UNCHANGED owner

(* A statement or a provider raises, or a request is answered early: a     *)
(* worker with a permit goes to its except clause, any other task ends.    *)
AtWork(t) ==
  \/ label[t] \in {"used", "used_within", "after"}
  \/ label[t] = "between" /\ t \in inside

Exit(t) == IF t \in inside /\ at[t] < Last(t) THEN Last(t) ELSE Last(t) + 1

(* Mutant: a worker without finally.                                       *)
LeaveEarlyWithPermit(t) ==
  /\ AtWork(t)
  /\ at' = [at EXCEPT ![t] = Exit(t)]
  /\ Goto(t, "between")
  /\ GiveAll(t)
  /\ UNCHANGED <<job, inside>>

LeaveEarly(t) ==
  /\ AtWork(t)
  /\ GiveAll(t)
  /\ Advance(t, Exit(t))

Step(t) ==
  \/ Enter(t) \/ Ask(t) \/ Take(t) \/ AskWithin(t) \/ GiveWithin(t)
  \/ Give(t) \/ Pass(t) \/ LeaveEarly(t)

Next == \E t \in Task : Step(t)

(* Requests come, statements are answered, and who waits for a connection  *)
(* or a permit that stays free gets it.                                    *)
Fairness == \A t \in Task : WF_vars(Step(t))

Spec == Init /\ [][Next]_vars
FairSpec == Spec /\ Fairness

-----------------------------------------------------------------------------
TypeOK ==
  /\ job \in Jobs
  /\ at \in [Task -> Nat \ {0}]
  /\ label \in [Task -> Label]
  /\ owner \in [Conn -> Task \cup {Nobody}]
  /\ inside \subseteq Task

(* Who is where has what, and nothing else: the inductive invariant.       *)
TaskHolds(t) ==
  /\ label[t] \in {"between", "waits"} => Held(t) = {}
  /\ label[t] \in {"used", "waits_within", "after"} => \E c \in Conn : Held(t) = {c}
  /\ label[t] = "used_within" =>
       \E c, d \in Conn : c # d /\ Held(t) = {c, d}
  /\ label[t] \in {"waits_within", "used_within", "after"} => Block(t) = "nested"
  /\ label[t] # "between" => at[t] \in 1..Last(t)
  /\ t \in inside => ~Ended(t)

PoolInv ==
  /\ TypeOK
  /\ \A t \in Task : TaskHolds(t)
  /\ Cardinality(inside) <= Permits

(* Every connection is with a task that waits for another one.             *)
Stuck == \A c \in Conn : owner[c] # Nobody /\ label[owner[c]] \in {"waits", "waits_within"}

(* The pool is never exhausted for good while there are fewer requests to  *)
(* regenerate a slot than connections, however many other requests, tasks  *)
(* and pages there are: none of these keeps what it has to wait for more.  *)
PoolSurvives ==
  Cardinality({t \in Task : job[t] = RegenerateSlot}) < Cardinality(Conn) => ~Stuck

(* And nothing else can keep a task from its end: permits and connections  *)
(* do not wait for one another.                                            *)
EveryTaskEnds == []~Stuck => <>(\A t \in Task : Ended(t))

-----------------------------------------------------------------------------
(* EveryTaskEnds without its fairness: what a task could do next is open   *)
(* to it, and it has only so much to do.                                   *)
CanMove(t) ==
  \/ label[t] = "between" /\ ~Ended(t) /\ (NeedsPermit(t) => Cardinality(inside) < Permits)
  \/ label[t] \in {"waits", "waits_within"} /\ Free # {}
  \/ label[t] \in {"used", "used_within", "after"}

(* Permits and connections never wait for one another: in a pool that is   *)
(* not stuck somebody can go on, until everybody has ended.                *)
SomebodyMoves == Stuck \/ (\A t \in Task : Ended(t)) \/ \E t \in Task : CanMove(t)

LabelPlace(l) ==
  CASE l = "between" -> 0 [] l = "waits" -> 1 [] l = "used" -> 2
    [] l = "waits_within" -> 3 [] l = "used_within" -> 4 [] l = "after" -> 5

(* No more than eight steps for each block that is left. *)
StepsLeft(t) ==
  IF Ended(t) THEN 0
  ELSE 8 * (Last(t) + 1 - at[t]) - LabelPlace(label[t]) - (IF t \in inside THEN 1 ELSE 0)

(* No task goes round in circles, or makes more work for another one: a    *)
(* permit is not asked for twice, an exception leads to the end.           *)
StepsAreCounted ==
  [][\A t \in Task : /\ StepsLeft(t) \in Nat
                     /\ StepsLeft(t)' <= StepsLeft(t)
                     /\ Step(t) => StepsLeft(t)' < StepsLeft(t)]_vars
=============================================================================
