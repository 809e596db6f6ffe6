------------------------------ MODULE Runtime ------------------------------
(***************************************************************************)
(* The life of the process: what the lifespan makes and closes, what the   *)
(* middleware makes where no lifespan runs, and the requests and tasks     *)
(* that use it meanwhile. Everything shared is reached through one object, *)
(* app.state.services, and a task reads it when it starts or when it       *)
(* stores an image, not when it was created. What a task does is reduced   *)
(* to one image: store it, mark its row uploaded, close the run; the other *)
(* modules have the rest.                                                  *)
(***************************************************************************)
EXTENDS Naturals, FiniteSets

CONSTANTS
  Request,   \* requests to generate; each is accepted with a run and a task
  MaxLoops,  \* bound: how often the process, or an event loop, is started
  Permits,   \* settings.max_concurrent_packs
  Faults,    \* "database", "r2", "provider", "crash"
  NoPool

(* uvicorn with the settings of R2 and without them, or requests of an     *)
(* in-process client, which sends no lifespan events: then the app and its *)
(* services outlive the event loop of a test.                              *)
Modes == {"server", "bare", "client"}

(* A pool is named by who made it: a lifespan, by its loop, or a request.  *)
(* What a client's loop has leaked is forgotten.                           *)
Loop == 1..MaxLoops
Pool == Loop \cup Request

ASSUME RuntimeAssumption ==
  /\ IsFiniteSet(Request) /\ Request \cap Nat = {}
  /\ NoPool \notin Pool
  /\ MaxLoops \in Nat /\ Permits \in Nat \ {0}

VARIABLES
  mode,
  \* the process, or the runner of the event loops
  loop, stage,
  \* app.state.services
  pool,       \* the pool, or NoPool for None
  sem,        \* the loop that asset_pack_semaphore is bound to, 0 before it is
  r2,         \* "none" for None, "open", or "closing" in and after __aexit__
  sweeper,    \* the cold-storage worker
  \* the pools themselves
  poolLoop, poolState,
  \* requests, tasks, their runs and rows
  req, task, home, taskPool, run, stored, published

services == <<pool, sem, r2, sweeper>>
pools == <<poolLoop, poolState>>
work == <<req, task, home, taskPool, run, stored, published>>
vars == <<mode, loop, stage, services, pools, work>>

InFlight == {"creating", "ready", "handling"}
Holding == {"working", "put", "mark", "marking", "close", "closing", "except", "recording"}
Connected == {"marking", "closing", "recording"}
Live == {"created", "waiting"} \cup Holding

(* A call of acquire is answered: the pool is not being closed and belongs *)
(* to the running loop.                                                    *)
Usable(p) == p # NoPool /\ poolState[p] = "open" /\ poolLoop[p] = loop

All(value) == [q \in Request |-> value]

Init ==
  /\ mode \in Modes
  /\ loop = 0 /\ stage = "down"
  /\ pool = NoPool /\ sem = 0 /\ r2 = "none" /\ sweeper = "none"
  /\ poolLoop = [p \in Pool |-> 0]
  /\ poolState = [p \in Pool |-> "none"]
  /\ req = All("idle") /\ task = All("none") /\ home = All(0) /\ taskPool = All(NoPool)
  /\ run = All("none") /\ stored = All("none") /\ published = {}

-----------------------------------------------------------------------------
(* Start-up. *)

MakePool(p) ==
  /\ pool' = p
  /\ poolLoop' = [poolLoop EXCEPT ![p] = loop]
  /\ poolState' = [poolState EXCEPT ![p] = "open"]

Enters(from, to) == stage = from /\ stage' = to

(* A process starts with new services. The next loop of a client does not, *)
(* but its test brings its own requests.                                   *)
Start ==
  /\ loop < MaxLoops /\ loop' = loop + 1
  /\ \/ /\ mode = "client" /\ Enters("down", "serving")
        /\ req' = All("idle") /\ task' = All("none") /\ home' = All(0)
        /\ taskPool' = All(NoPool) /\ run' = All("none") /\ stored' = All("none")
        /\ published' = {}
        /\ UNCHANGED services
     \/ /\ mode # "client" /\ Enters("down", "starting")
        /\ pool' = NoPool /\ sem' = 0 /\ r2' = "none" /\ sweeper' = "none"
        /\ UNCHANGED work
  /\ UNCHANGED <<mode, pools>>

(* ensure_runtime_ready in the lifespan; without the settings of R2 the    *)
(* worker starts at once.                                                  *)
LifespanPool ==
  /\ \/ mode = "server" /\ Enters("starting", "entering_r2") /\ UNCHANGED sweeper
     \/ mode = "bare" /\ Enters("starting", "serving") /\ sweeper' = "asleep"
  /\ MakePool(loop)
  /\ UNCHANGED <<mode, loop, sem, r2, work>>

EnterR2 ==
  /\ Enters("entering_r2", "serving")
  /\ r2' = "open" /\ sweeper' = "asleep"
  /\ UNCHANGED <<mode, loop, pool, sem, pools, work>>

(* Both are before the lifespan's try: uvicorn ends, nothing is closed.    *)
StartFails ==
  /\ \/ "database" \in Faults /\ Enters("starting", "ending")
     \/ "r2" \in Faults /\ Enters("entering_r2", "ending")
  /\ UNCHANGED <<mode, loop, services, pools, work>>

-----------------------------------------------------------------------------
(* The middleware and the handler. *)

(* Mutant: a pool is a pool, of whatever loop. *)
NeedsAnyPool == pool = NoPool

NeedsPool == pool = NoPool \/ poolLoop[pool] # loop

(* ensure_runtime_ready up to its await. *)
Arrive(q) ==
  /\ stage = "serving" /\ req[q] = "idle"
  /\ home' = [home EXCEPT ![q] = loop]
  /\ req' = [req EXCEPT ![q] = IF NeedsPool THEN "creating" ELSE "ready"]
  /\ pool' = IF NeedsPool THEN NoPool ELSE pool
  /\ UNCHANGED <<mode, loop, stage, sem, r2, sweeper, pools, task, taskPool, run, stored, published>>

(* init_pool returns: another request's pool may be there by now.          *)
RequestPool(q) ==
  /\ req[q] = "creating" /\ req' = [req EXCEPT ![q] = "ready"]
  /\ MakePool(q)
  /\ UNCHANGED <<mode, loop, stage, sem, r2, sweeper, task, home, taskPool, run, stored, published>>

RequestPoolFails(q) ==
  /\ "database" \in Faults
  /\ req[q] = "creating" /\ req' = [req EXCEPT ![q] = "failed"]
  /\ UNCHANGED <<mode, loop, stage, services, pools, task, home, taskPool, run, stored, published>>

(* The handler looks at services.pool: None is a 503.                      *)
Handle(q) ==
  /\ req[q] = "ready"
  /\ IF Usable(pool)
       THEN /\ req' = [req EXCEPT ![q] = "handling"]
            /\ run' = [run EXCEPT ![q] = "running"]
       ELSE /\ req' = [req EXCEPT ![q] = "failed"]
            /\ UNCHANGED run
  /\ UNCHANGED <<mode, loop, stage, services, pools, task, home, taskPool, stored, published>>

(* create_task and the 202 *)
Accept(q) ==
  /\ req[q] = "handling" /\ req' = [req EXCEPT ![q] = "answered"]
  /\ task' = [task EXCEPT ![q] = "created"]
  /\ UNCHANGED <<mode, loop, stage, services, pools, home, taskPool, run, stored, published>>

-----------------------------------------------------------------------------
(* The task. *)

Inside == {q \in Request : task[q] \in Holding}
Locked == Cardinality(Inside) >= Permits \/ \E q \in Request : task[q] = "waiting"

TaskMoves(q, from, to) == task[q] = from /\ task' = [task EXCEPT ![q] = to]
Elsewhere == <<mode, loop, stage, pool, r2, sweeper, pools, req, home>>

(* The task takes the pool that is there, and a permit if one is free. To  *)
(* wait for one binds the semaphore to the loop; one bound to another loop *)
(* raises, before the try block.                                           *)
Begin(q) ==
  /\ taskPool' = [taskPool EXCEPT ![q] = pool]
  /\ \/ ~Locked /\ TaskMoves(q, "created", "working") /\ UNCHANGED sem
     \/ Locked /\ sem \in {0, loop} /\ TaskMoves(q, "created", "waiting") /\ sem' = loop
     \/ Locked /\ sem \notin {0, loop} /\ TaskMoves(q, "created", "ended") /\ UNCHANGED sem
  /\ UNCHANGED <<Elsewhere, run, stored, published>>

GetPermit(q) ==
  /\ Cardinality(Inside) < Permits
  /\ TaskMoves(q, "waiting", "working")
  /\ UNCHANGED <<Elsewhere, sem, taskPool, run, stored, published>>

(* _finalize_slot_success: with services.r2 None the key is a mock's, and  *)
(* otherwise the object is put.                                            *)
Store(q) ==
  /\ \/ /\ r2 = "none" /\ TaskMoves(q, "working", "mark")
        /\ stored' = [stored EXCEPT ![q] = "mock"]
     \/ /\ r2 # "none" /\ TaskMoves(q, "working", "put")
        /\ UNCHANGED stored
  /\ UNCHANGED <<Elsewhere, sem, taskPool, run, published>>

Put(q) ==
  /\ r2 # "none" /\ TaskMoves(q, "put", "mark")
  /\ stored' = [stored EXCEPT ![q] = "object"]
  /\ UNCHANGED <<Elsewhere, sem, taskPool, run, published>>

(* A statement takes a connection, and is answered. *)
Ask(q) ==
  /\ Usable(taskPool[q])
  /\ \/ TaskMoves(q, "mark", "marking") \/ TaskMoves(q, "close", "closing")
     \/ TaskMoves(q, "except", "recording")
  /\ UNCHANGED <<Elsewhere, sem, taskPool, run, stored, published>>

Mark(q) ==
  /\ TaskMoves(q, "marking", "close")
  /\ published' = published \cup {q}
  /\ UNCHANGED <<Elsewhere, sem, taskPool, run, stored>>

Close(q) ==
  /\ \/ TaskMoves(q, "closing", "ended") /\ run' = [run EXCEPT ![q] = "ok"]
     \/ TaskMoves(q, "recording", "ended") /\ run' = [run EXCEPT ![q] = "failed"]
  /\ UNCHANGED <<Elsewhere, sem, taskPool, stored, published>>

(* Mutant: what raises in the try block ends the task.                     *)
RaiseUncaught(q) ==
  /\ \/ "provider" \in Faults /\ TaskMoves(q, "working", "ended")
     \/ "r2" \in Faults /\ TaskMoves(q, "put", "ended")
     \/ r2 # "open" /\ TaskMoves(q, "put", "ended")
     \/ ~Usable(taskPool[q]) /\ \E label \in {"mark", "close"} : TaskMoves(q, label, "ended")
  /\ UNCHANGED <<Elsewhere, sem, taskPool, run, stored, published>>

(* A provider raises, or R2, or a client that is closed, or the pool. That *)
(* a statement is refused while its answer is awaited is in PackWorker.    *)
Raise(q) ==
  /\ \/ "provider" \in Faults /\ TaskMoves(q, "working", "except")
     \/ "r2" \in Faults /\ TaskMoves(q, "put", "except")
     \/ r2 # "open" /\ TaskMoves(q, "put", "except")
     \/ ~Usable(taskPool[q]) /\ \E label \in {"mark", "close"} : TaskMoves(q, label, "except")
  /\ UNCHANGED <<Elsewhere, sem, taskPool, run, stored, published>>

(* "unable to persist failed agent_run status": the run stays running.     *)
LoseFailure(q) ==
  /\ ~Usable(taskPool[q])
  /\ TaskMoves(q, "except", "ended")
  /\ UNCHANGED <<Elsewhere, sem, taskPool, run, stored, published>>

TaskStep(q) ==
  \/ Begin(q) \/ GetPermit(q) \/ Store(q) \/ Put(q) \/ Ask(q) \/ Mark(q) \/ Close(q)
  \/ Raise(q) \/ LoseFailure(q)

-----------------------------------------------------------------------------
(* The cold-storage worker takes both clients at the start of a sweep.     *)
Sweep ==
  /\ stage = "serving"
  /\ \/ sweeper = "asleep" /\ r2 # "none" /\ pool # NoPool /\ sweeper' = "sweeping"
     \/ sweeper = "sweeping" /\ sweeper' = "asleep"
  /\ UNCHANGED <<mode, loop, stage, pool, sem, r2, pools, work>>

-----------------------------------------------------------------------------
(* Shutdown. *)

(* uvicorn has seen the last request answered before it tells the          *)
(* lifespan; the loop of a client ends when its test does.                 *)
Stop ==
  /\ \/ /\ mode # "client" /\ Enters("serving", "draining")
        /\ \A q \in Request : req[q] \notin InFlight
     \/ mode = "client" /\ Enters("serving", "ending")
  /\ UNCHANGED <<mode, loop, services, pools, work>>

(* Mutant: the worker is cancelled and not awaited.                        *)
DrainUnawaited ==
  /\ Enters("draining", IF r2 = "none" THEN "closing_pool" ELSE "closing_r2")
  /\ r2' = IF r2 = "none" THEN r2 ELSE "closing"
  /\ poolState' = IF r2 = "none" THEN [poolState EXCEPT ![pool] = "closing"] ELSE poolState
  /\ UNCHANGED <<mode, loop, pool, sem, sweeper, poolLoop, work>>

(* Mutant: services.r2 is reset before the client is closed.               *)
DrainResetsFirst ==
  /\ Enters("draining", IF r2 = "none" THEN "closing_pool" ELSE "closing_r2")
  /\ sweeper' = "over"
  /\ r2' = "none"
  /\ poolState' = IF r2 = "none" THEN [poolState EXCEPT ![pool] = "closing"] ELSE poolState
  /\ UNCHANGED <<mode, loop, pool, sem, poolLoop, work>>

(* background_tasks has the cold-storage worker alone: it is cancelled at  *)
(* whatever await it is in, and awaited.                                   *)
Drain ==
  /\ Enters("draining", IF r2 = "none" THEN "closing_pool" ELSE "closing_r2")
  /\ sweeper' = "over"
  /\ r2' = IF r2 = "none" THEN r2 ELSE "closing"
  /\ poolState' = IF r2 = "none" THEN [poolState EXCEPT ![pool] = "closing"] ELSE poolState
  /\ UNCHANGED <<mode, loop, pool, sem, poolLoop, work>>

(* Mutant: the pool is not closed after R2. *)
CloseR2Only ==
  /\ Enters("closing_r2", "ending")
  /\ r2' = "none"
  /\ UNCHANGED <<mode, loop, pool, sem, sweeper, pools, work>>

(* __aexit__ returns: services.r2 becomes None and pool.close() refuses    *)
(* new statements, without an await in between.                            *)
CloseR2 ==
  /\ Enters("closing_r2", "closing_pool")
  /\ r2' = "none"
  /\ poolState' = [poolState EXCEPT ![pool] = "closing"]
  /\ UNCHANGED <<mode, loop, pool, sem, sweeper, poolLoop, work>>

(* It raises out of the lifespan: the pool is not closed. *)
CloseR2Fails ==
  /\ "r2" \in Faults
  /\ Enters("closing_r2", "ending")
  /\ UNCHANGED <<mode, loop, services, pools, work>>

(* pool.close() waits for the connections in use, without a timeout.       *)
ClosePool ==
  /\ \A q \in Request : task[q] \in Connected => taskPool[q] # pool
  /\ Enters("closing_pool", "ending")
  /\ poolState' = [poolState EXCEPT ![pool] = "closed"]
  /\ UNCHANGED <<mode, loop, services, poolLoop, work>>

(* Where a task goes that is cancelled: in its try block to the except     *)
(* clause, which catches BaseException; before it and in that clause,      *)
(* which catches Exception around its UPDATE, to its end.                  *)
Cancelled(label) ==
  CASE label \in Holding \ {"except", "recording"} -> "except"
    [] label \in {"created", "waiting", "except", "recording"} -> "ended"
    [] OTHER -> label

(* The runner of the loop cancels what is left, the requests of a client   *)
(* among it, and lets it end.                                              *)
CancelAll ==
  /\ Enters("ending", "cancelling")
  /\ task' = [q \in Request |-> Cancelled(task[q])]
  /\ req' = [q \in Request |-> IF req[q] \in InFlight THEN "failed" ELSE req[q]]
  /\ UNCHANGED <<mode, loop, services, pools, home, taskPool, run, stored, published>>

CloseLoop ==
  /\ Enters("cancelling", "down")
  /\ \A q \in Request : task[q] \notin Live
  /\ UNCHANGED <<mode, loop, services, pools, work>>

Crash ==
  /\ "crash" \in Faults /\ mode # "client"
  /\ stage # "down" /\ stage' = "down"
  /\ task' = [q \in Request |-> IF task[q] \in Live THEN "ended" ELSE task[q]]
  /\ req' = [q \in Request |-> IF req[q] \in InFlight THEN "failed" ELSE req[q]]
  /\ poolState' = [p \in Pool |-> IF poolState[p] = "none" THEN "none" ELSE "closed"]
  /\ r2' = "none" /\ sweeper' = "none"
  /\ UNCHANGED <<mode, loop, pool, sem, poolLoop, home, taskPool, run, stored, published>>

AtRest == stage = "down" /\ loop = MaxLoops /\ UNCHANGED vars

Lifespan ==
  \/ LifespanPool \/ EnterR2 \/ StartFails \/ Drain \/ CloseR2 \/ CloseR2Fails
  \/ ClosePool \/ CancelAll \/ CloseLoop
RequestStep ==
  \E q \in Request :
    Arrive(q) \/ RequestPool(q) \/ RequestPoolFails(q) \/ Handle(q) \/ Accept(q) \/ TaskStep(q)

Next == Start \/ Lifespan \/ Stop \/ Sweep \/ RequestStep \/ Crash \/ AtRest

(* Awaits end and ready tasks run.                                         *)
Fairness ==
  /\ WF_vars(Lifespan)
  /\ \A q \in Request : WF_vars(TaskStep(q))

Spec == Init /\ [][Next]_vars
FairSpec == Spec /\ Fairness

-----------------------------------------------------------------------------
TypeOK ==
  /\ mode \in Modes
  /\ loop \in 0..MaxLoops /\ (stage # "down" => loop \in Loop)
  /\ stage \in {"down", "starting", "entering_r2", "serving", "draining", "closing_r2",
               "closing_pool", "ending", "cancelling"}
  /\ pool \in Pool \cup {NoPool}
  /\ sem \in 0..MaxLoops
  /\ r2 \in {"none", "open", "closing"}
  /\ sweeper \in {"none", "asleep", "sweeping", "over"}
  /\ poolLoop \in [Pool -> 0..MaxLoops]
  /\ poolState \in [Pool -> {"none", "open", "closing", "closed"}]
  /\ req \in [Request -> InFlight \cup {"idle", "answered", "failed"}]
  /\ task \in [Request -> Live \cup {"none", "ended"}]
  /\ home \in [Request -> 0..MaxLoops]
  /\ taskPool \in [Request -> Pool \cup {NoPool}]
  /\ run \in [Request -> {"none", "running", "ok", "failed"}]
  /\ stored \in [Request -> {"none", "mock", "object"}]
  /\ published \subseteq Request

(* The inductive invariant: what the stage of the process says of the      *)
(* services, of a server and of a client, and of a request and its task.   *)
ServerHolds ==
  /\ sem \in {0, loop}
  /\ \A q \in Request : poolState[q] = "none" /\ req[q] # "creating"
  /\ stage \in {"entering_r2", "serving", "draining", "closing_r2"} => pool = loop /\ Usable(loop)
  /\ stage = "closing_pool" => pool = loop /\ poolState[loop] = "closing"
  /\ mode = "server" /\ stage \in {"serving", "draining"} => r2 = "open"
  /\ mode = "bare" => r2 = "none" /\ stage \notin {"entering_r2", "closing_r2"}
  /\ sweeper = "sweeping" => mode = "server" /\ stage \in {"serving", "draining"}

ClientHolds ==
  /\ stage \in {"down", "serving", "ending", "cancelling"}
  /\ r2 = "none" /\ sweeper = "none"
  /\ \A p \in Pool : poolState[p] = "open" \/ (poolState[p] = "none" /\ poolLoop[p] = 0)

RequestHolds(q) ==
  /\ req[q] \in InFlight => stage = "serving" \/ (mode = "client" /\ stage = "ending")
  /\ req[q] \in {"ready", "handling"} => Usable(pool)
  /\ task[q] # "none" => req[q] = "answered"
  /\ task[q] \in Live =>
       /\ stage \notin {"down", "starting", "entering_r2"}
       /\ mode # "client" => pool = loop /\ (task[q] # "created" => taskPool[q] = loop)
       /\ mode = "client" => Usable(pool) /\ (task[q] # "created" => Usable(taskPool[q]))
       /\ mode = "server" /\ r2 = "none" => ~Usable(loop)
  /\ mode = "server" =>
       /\ task[q] = "mark" => stored[q] = "object" \/ ~Usable(loop)
       /\ task[q] = "marking" \/ q \in published => stored[q] = "object"
  /\ q \in published => task[q] \in {"close", "closing", "except", "recording", "ended"}

RuntimeInv ==
  /\ IF mode = "client" THEN ClientHolds ELSE ServerHolds
  /\ \A q \in Request : RequestHolds(q)

-----------------------------------------------------------------------------
(* An image is published under a mock's key only where R2 is not set up:   *)
(* a task that finds services.r2 reset by the shutdown finds the pool      *)
(* closed before it can mark its row.                                      *)
PublishedIsStored == mode = "server" => \A q \in published : stored[q] = "object"

(* Behind the middleware a request finds a pool of its own loop, whatever  *)
(* other requests make or drop meanwhile; and the lifespan's is the only   *)
(* one a server ever makes.                                                *)
RequestsHaveTheirPool ==
  /\ \A q \in Request : req[q] \in {"ready", "handling"} => Usable(pool)
  /\ mode # "client" => \A q \in Request : poolState[q] = "none"

(* The cold-storage worker never works with clients that are being closed. *)
SweepHasItsClients == sweeper = "sweeping" => r2 = "open" /\ Usable(pool)

(* While the process serves, a task ends with its run closed, unless the   *)
(* semaphore still belongs to an earlier loop of a client.                 *)
ServedRunsAreClosed ==
  [][\A q \in Request :
       task[q] # "ended" /\ task'[q] = "ended" /\ run'[q] = "running" =>
         stage' # "serving" \/ (mode = "client" /\ sem \notin {0, loop})]_vars

(* A shutdown comes to its end although tasks go on with the pool that is  *)
(* being closed, and it has closed that pool unless R2 failed to close.    *)
StopEnds ==
  (stage = "draining") ~>
    (stage = "down" /\ (r2 = "closing" \/ \A p \in Pool : poolLoop[p] = loop => poolState[p] = "closed"))

-----------------------------------------------------------------------------
(* What of it is safety: neither the shutdown nor a task is ever stuck,    *)
(* each has only so many steps to make, and a shutdown that is over has    *)
(* closed what it was to close.                                            *)

(* A statement that was sent is answered, one that was not is refused by   *)
(* the pool, and an object is refused by its client: a task waits only for *)
(* a permit.                                                               *)
CanMove(q) ==
  \/ task[q] = "created" \/ task[q] \in Holding
  \/ task[q] = "waiting" /\ Cardinality(Inside) < Permits

LifespanCanMove ==
  /\ stage \notin {"down", "serving"}
  /\ stage = "closing_pool" => \A q \in Request : task[q] \in Connected => taskPool[q] # pool
  /\ stage = "cancelling" => \A q \in Request : task[q] \notin Live

NobodyIsStuck ==
  /\ (\E q \in Request : task[q] \in Live) => \E q \in Request : CanMove(q)
  /\ stage \notin {"down", "serving"} => LifespanCanMove \/ \E q \in Request : CanMove(q)

StagesLeft ==
  CASE stage = "starting" -> 8
    [] stage = "entering_r2" -> 7
    [] stage = "serving" -> 6
    [] stage = "draining" -> 5
    [] stage = "closing_r2" -> 4
    [] stage = "closing_pool" -> 3
    [] stage = "ending" -> 2
    [] stage = "cancelling" -> 1
    [] OTHER -> 0

(* A cancellation may come at every step of the try block. *)
StepsLeft(q) ==
  CASE task[q] = "created" -> 10
    [] task[q] = "waiting" -> 9
    [] task[q] = "working" -> 8
    [] task[q] = "put" -> 7
    [] task[q] = "mark" -> 6
    [] task[q] = "marking" -> 5
    [] task[q] = "close" -> 4
    [] task[q] = "closing" -> 3
    [] task[q] = "except" -> 2
    [] task[q] = "recording" -> 1
    [] OTHER -> 0

(* A process goes through its stages in one direction, and a task makes at *)
(* most ten steps, whatever pool it finds and whenever it is cancelled.    *)
StepsAreCounted ==
  [][/\ loop' = loop => StagesLeft' <= StagesLeft
     /\ Lifespan \/ Stop => StagesLeft' < StagesLeft
     /\ \A q \in Request :
          /\ task[q] # "none" => StepsLeft(q)' <= StepsLeft(q)
          /\ TaskStep(q) => StepsLeft(q)' < StepsLeft(q)]_vars

(* A process that has ended has no task left and has closed its pool,      *)
(* unless R2 raised out of the lifespan: while it was being closed, or     *)
(* when it was entered.                                                    *)
StoppedIsOver ==
  /\ stage = "down" => \A q \in Request : task[q] \notin Live /\ req[q] \notin InFlight
  /\ mode # "client" /\ stage \in {"ending", "cancelling", "down"} =>
       \A p \in Pool : poolLoop[p] = loop /\ poolState[p] \in {"open", "closing"} =>
         "r2" \in Faults /\ (r2 = "closing" \/ sweeper = "none")
=============================================================================
