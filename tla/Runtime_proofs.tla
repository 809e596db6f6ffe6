--------------------------- MODULE Runtime_proofs ---------------------------
(***************************************************************************)
(* Proofs about Runtime, for every set of requests, any number of restarts *)
(* or event loops, any semaphore and every fault.                          *)
(***************************************************************************)
EXTENDS Runtime, FiniteSetTheorems, TLAPS

LEMMA Labels ==
  /\ Live = {"created", "waiting", "working", "put", "mark", "marking", "close", "closing",
             "except", "recording"}
  /\ Holding = Live \ {"created", "waiting"}
  /\ InFlight = {"creating", "ready", "handling"}
BY DEF Live, Holding, InFlight

LEMMA PoolFacts ==
  /\ Request \subseteq Pool /\ Loop \subseteq Pool /\ Loop \subseteq 0..MaxLoops
  /\ \A q \in Request : q \notin 0..MaxLoops
  /\ \A p \in Pool : p # NoPool
BY RuntimeAssumption DEF Pool, Loop

LEMMA InitTypeOK == Init => TypeOK
BY RuntimeAssumption, Labels DEF Init, TypeOK, All

(* Type correctness, one lemma per group of actions.                       *)
LEMMA StartTypeOK ==
  ASSUME TypeOK, Start \/ LifespanPool \/ EnterR2 \/ StartFails
  PROVE  TypeOK'
<1> USE DEF Enters, services, pools, work
<1>1. CASE Start
  <2>1. loop' \in Loop /\ loop' \in 0..MaxLoops
    BY <1>1, RuntimeAssumption DEF Start, TypeOK, Loop
  <2> QED
    BY <1>1, <2>1, RuntimeAssumption, Labels DEF Start, TypeOK, All
<1>2. CASE LifespanPool
  <2>1. stage' \in {"entering_r2", "serving"} /\ sweeper' \in {sweeper, "asleep"} /\ MakePool(loop)
        /\ UNCHANGED <<mode, loop, sem, r2, work>>
    BY <1>2 DEF LifespanPool
  <2>2. pool' = loop /\ loop \in Pool /\ loop \in 0..MaxLoops /\ stage # "down"
    BY <1>2, <2>1, PoolFacts DEF LifespanPool, MakePool, TypeOK
  <2>3. poolLoop' \in [Pool -> 0..MaxLoops]
        /\ poolState' \in [Pool -> {"none", "open", "closing", "closed"}]
    BY <2>1, <2>2 DEF MakePool, TypeOK
  <2> QED
    BY <1>2, <2>1, <2>2, <2>3 DEF TypeOK
<1>3. CASE EnterR2 \/ StartFails
  BY <1>3 DEF EnterR2, StartFails, TypeOK
<1> QED
  BY <1>1, <1>2, <1>3

LEMMA RequestTypeOK ==
  ASSUME TypeOK, NEW q \in Request,
         Arrive(q) \/ RequestPool(q) \/ RequestPoolFails(q) \/ Handle(q) \/ Accept(q)
  PROVE  TypeOK'
<1> USE DEF services, pools
<1>1. CASE Arrive(q)
  <2>1. req' \in [Request -> InFlight \cup {"idle", "answered", "failed"}]
        /\ home' \in [Request -> 0..MaxLoops] /\ pool' \in Pool \cup {NoPool}
    BY <1>1, Labels DEF Arrive, TypeOK
  <2> QED
    BY <1>1, <2>1 DEF Arrive, TypeOK
<1>2. CASE RequestPool(q)
  <2>1. req' \in [Request -> InFlight \cup {"idle", "answered", "failed"}]
    BY <1>2, Labels DEF RequestPool, TypeOK
  <2>2. pool' \in Pool /\ poolLoop' \in [Pool -> 0..MaxLoops]
        /\ poolState' \in [Pool -> {"none", "open", "closing", "closed"}]
    BY <1>2, PoolFacts DEF RequestPool, MakePool, TypeOK
  <2> QED
    BY <1>2, <2>1, <2>2 DEF RequestPool, TypeOK
<1>3. CASE RequestPoolFails(q) \/ Handle(q) \/ Accept(q)
  <2>1. req' \in [Request -> InFlight \cup {"idle", "answered", "failed"}]
        /\ run' \in [Request -> {"none", "running", "ok", "failed"}]
        /\ task' \in [Request -> Live \cup {"none", "ended"}]
    BY <1>3, Labels DEF RequestPoolFails, Handle, Accept, TypeOK
  <2> QED
    BY <1>3, <2>1 DEF RequestPoolFails, Handle, Accept, TypeOK
<1> QED
  BY <1>1, <1>2, <1>3

LEMMA TaskTypeOK ==
  ASSUME TypeOK, NEW q \in Request, TaskStep(q)
  PROVE  TypeOK'
<1>1. task' \in [Request -> Live \cup {"none", "ended"}]
  BY Labels DEF TaskStep, Begin, GetPermit, Store, Put, Ask, Mark, Close, Raise, LoseFailure,
     TaskMoves, TypeOK
<1>2. /\ sem' \in 0..MaxLoops /\ taskPool' \in [Request -> Pool \cup {NoPool}]
      /\ run' \in [Request -> {"none", "running", "ok", "failed"}]
      /\ stored' \in [Request -> {"none", "mock", "object"}] /\ published' \subseteq Request
  BY DEF TaskStep, Begin, GetPermit, Store, Put, Ask, Mark, Close, Raise, LoseFailure, TypeOK
<1>3. UNCHANGED Elsewhere
  BY DEF TaskStep, Begin, GetPermit, Store, Put, Ask, Mark, Close, Raise, LoseFailure
<1> QED
  BY <1>1, <1>2, <1>3 DEF Elsewhere, pools, TypeOK

LEMMA StopTypeOK ==
  ASSUME TypeOK,
         Sweep \/ Stop \/ Drain \/ CloseR2 \/ CloseR2Fails \/ ClosePool \/ CancelAll
         \/ CloseLoop \/ Crash
  PROVE  TypeOK'
<1> USE DEF Enters, services, pools, work
<1>1. CASE Sweep \/ Stop \/ CloseR2Fails \/ CloseLoop
  BY <1>1 DEF Sweep, Stop, CloseR2Fails, CloseLoop, TypeOK
<1>2. CASE Drain \/ CloseR2 \/ ClosePool
  <2>1. poolState' \in [Pool -> {"none", "open", "closing", "closed"}]
    BY <1>2 DEF Drain, CloseR2, ClosePool, TypeOK
  <2> QED
    BY <1>2, <2>1 DEF Drain, CloseR2, ClosePool, TypeOK
<1>3. CASE CancelAll \/ Crash
  <2>1. task' \in [Request -> Live \cup {"none", "ended"}]
    BY <1>3, Labels DEF CancelAll, Crash, Cancelled, TypeOK
  <2>2. req' \in [Request -> InFlight \cup {"idle", "answered", "failed"}]
    BY <1>3, Labels DEF CancelAll, Crash, TypeOK
  <2>3. poolState' \in [Pool -> {"none", "open", "closing", "closed"}]
    BY <1>3 DEF CancelAll, Crash, TypeOK
  <2> QED
    BY <1>3, <2>1, <2>2, <2>3 DEF CancelAll, Crash, TypeOK
<1> QED
  BY <1>1, <1>2, <1>3

(* Each variable keeps its type.                                           *)
THEOREM TypeCorrect == Spec => []TypeOK
<1>1. TypeOK /\ [Next]_vars => TypeOK'
  <2> SUFFICES ASSUME TypeOK, [Next]_vars PROVE TypeOK'
    OBVIOUS
  <2>1. CASE UNCHANGED vars
    BY <2>1 DEF vars, services, pools, work, TypeOK
  <2> QED
    BY <2>1, StartTypeOK, RequestTypeOK, TaskTypeOK, StopTypeOK
    DEF Next, Lifespan, RequestStep, AtRest
<1> QED
  BY <1>1, InitTypeOK, PTL DEF Spec

-----------------------------------------------------------------------------
(* The inductive invariant. *)

LEMMA InitRuntimeInv == Init => RuntimeInv
<1> SUFFICES ASSUME Init PROVE RuntimeInv
  OBVIOUS
<1>1. \A q \in Request : task[q] = "none" /\ req[q] = "idle" /\ q \notin published
  BY DEF Init, All
<1>2. \A p \in Pool : poolState[p] = "none" /\ poolLoop[p] = 0
  BY DEF Init
<1>3. stage = "down" /\ r2 = "none" /\ sweeper = "none" /\ sem = 0 /\ loop = 0
  BY DEF Init
<1>4. ClientHolds /\ ServerHolds
  BY <1>1, <1>2, <1>3, PoolFacts DEF ClientHolds, ServerHolds
<1>5. \A q \in Request : RequestHolds(q)
  BY <1>1, Labels DEF RequestHolds
<1> QED
  BY <1>4, <1>5 DEF RuntimeInv

(* Nothing is alive when a process or a loop starts.                       *)
LEMMA StartInv ==
  ASSUME TypeOK, RuntimeInv, Start \/ LifespanPool \/ EnterR2 \/ StartFails
  PROVE  RuntimeInv'
<1> USE DEF Enters, services, pools, work
<1>1. /\ \A q \in Request : RequestHolds(q)
      /\ mode = "client" => ClientHolds
      /\ mode # "client" => ServerHolds
      /\ stage \in {"down", "starting", "entering_r2"}
  BY DEF RuntimeInv, Start, LifespanPool, EnterR2, StartFails
<1>2. \A q \in Request : task[q] \notin Live /\ req[q] \notin InFlight
  BY <1>1 DEF RequestHolds
<1>3. CASE Start
  <2>1. CASE mode = "client"
    <3>1. \A q \in Request : RequestHolds(q)'
      BY <1>3, <2>1, Labels DEF Start, RequestHolds, All
    <3> QED
      BY <1>1, <1>3, <2>1, <3>1 DEF Start, RuntimeInv, ClientHolds
  <2>2. CASE mode # "client"
    <3>1. ServerHolds'
      BY <1>1, <1>3, <2>2 DEF Start, ServerHolds
    <3>2. \A q \in Request : RequestHolds(q)'
      BY <1>1, <1>2, <1>3, <2>2, Labels DEF Start, RequestHolds
    <3> QED
      BY <1>3, <2>2, <3>1, <3>2 DEF Start, RuntimeInv
  <2> QED BY <2>1, <2>2
<1>4. CASE LifespanPool
  <2>1. /\ mode # "client" /\ mode' = mode /\ loop \in Loop /\ loop' = loop /\ pool' = loop
        /\ poolLoop' = [poolLoop EXCEPT ![loop] = loop]
        /\ poolState' = [poolState EXCEPT ![loop] = "open"]
        /\ UNCHANGED <<sem, r2, work>> /\ stage' \in {"entering_r2", "serving"}
        /\ (mode = "server" => stage' = "entering_r2")
        /\ (mode = "bare" => stage' = "serving") /\ (sweeper' = sweeper \/ sweeper' = "asleep")
        /\ stage = "starting"
    BY <1>4 DEF LifespanPool, MakePool, TypeOK
  <2>2. Usable(loop)'
    BY <2>1, PoolFacts DEF Usable, TypeOK
  <2>3. \A q \in Request : poolState'[q] = "none" /\ req'[q] # "creating"
    BY <1>1, <2>1, PoolFacts DEF ServerHolds, TypeOK
  <2>4. ServerHolds'
    BY <1>1, <2>1, <2>2, <2>3 DEF ServerHolds
  <2>5. \A q \in Request : RequestHolds(q)'
    BY <1>1, <1>2, <2>1, Labels DEF RequestHolds
  <2> QED
    BY <2>1, <2>4, <2>5 DEF RuntimeInv
<1>5. CASE EnterR2 \/ StartFails
  <2>1. mode # "client" /\ UNCHANGED <<mode, loop, pool, sem, poolLoop, poolState, work>>
        /\ UNCHANGED <<req, task, taskPool, published, stored>> /\ stage' \in {"serving", "ending"}
    BY <1>1, <1>5 DEF EnterR2, StartFails, ClientHolds
  <2>2. Usable(loop)' <=> Usable(loop)
    BY <2>1 DEF Usable
  <2>3. ServerHolds'
    <3>1. CASE EnterR2
      <4>1. stage = "entering_r2" /\ stage' = "serving" /\ r2' = "open" /\ sweeper' = "asleep"
        BY <3>1 DEF EnterR2
      <4>2. mode # "bare"
        BY <1>1, <2>1, <4>1 DEF ServerHolds
      <4> QED
        BY <1>1, <2>1, <2>2, <4>1, <4>2 DEF ServerHolds
    <3>2. CASE StartFails
      BY <1>1, <2>1, <2>2, <3>2 DEF StartFails, ServerHolds
    <3> QED BY <1>5, <3>1, <3>2
  <2>4. \A q \in Request : RequestHolds(q)'
    BY <1>1, <1>2, <2>1, Labels DEF RequestHolds
  <2> QED
    BY <2>1, <2>3, <2>4 DEF RuntimeInv
<1> QED
  BY <1>3, <1>4, <1>5

(* A pool of the running loop is open: what NeedsPool leaves unsaid.       *)
LEMMA PoolOfTheLoop ==
  ASSUME TypeOK, RuntimeInv, stage = "serving", ~NeedsPool
  PROVE  Usable(pool)
<1>1. pool \in Pool /\ poolLoop[pool] = loop /\ loop \in Loop /\ loop # 0
  BY RuntimeAssumption DEF NeedsPool, TypeOK, Loop
<1>2. CASE mode = "client"
  BY <1>1, <1>2, PoolFacts DEF RuntimeInv, ClientHolds, Usable
<1>3. CASE mode # "client"
  BY <1>3 DEF RuntimeInv, ServerHolds
<1> QED
  BY <1>2, <1>3

LEMMA RequestInv ==
  ASSUME TypeOK, RuntimeInv, NEW q \in Request,
         Arrive(q) \/ RequestPool(q) \/ RequestPoolFails(q) \/ Handle(q) \/ Accept(q)
  PROVE  RuntimeInv'
<1>1. /\ \A p \in Request : RequestHolds(p)
      /\ mode = "client" => ClientHolds
      /\ mode # "client" => ServerHolds
      /\ req \in [Request -> InFlight \cup {"idle", "answered", "failed"}]
      /\ task \in [Request -> Live \cup {"none", "ended"}]
  BY DEF RuntimeInv, TypeOK
<1>2. CASE Arrive(q)
  <2>1. /\ UNCHANGED <<mode, loop, stage, sem, r2, sweeper, poolLoop, poolState, task, taskPool,
                       run, stored, published>>
        /\ stage = "serving" /\ req[q] = "idle" /\ task[q] = "none"
        /\ \A p \in Request \ {q} : req'[p] = req[p]
    BY <1>1, <1>2, Labels DEF Arrive, RequestHolds, pools
  <2>2. CASE ~NeedsPool
    <3>1. pool' = pool /\ req'[q] = "ready"
      BY <1>1, <1>2, <2>2 DEF Arrive
    <3>2. Usable(pool)
      BY <2>1, <2>2, PoolOfTheLoop
    <3>3. Usable(pool)' /\ \A p : Usable(p)' <=> Usable(p)
      BY <2>1, <3>1, <3>2 DEF Usable
    <3>4. mode # "client" => ServerHolds'
      BY <1>1, <2>1, <3>1, <3>3 DEF ServerHolds
    <3>5. mode = "client" => ClientHolds'
      BY <1>1, <2>1 DEF ClientHolds
    <3>6. \A p \in Request : RequestHolds(p)'
      BY <1>1, <2>1, <3>1, <3>3, Labels DEF RequestHolds
    <3> QED
      BY <2>1, <3>4, <3>5, <3>6 DEF RuntimeInv
  <2>3. CASE NeedsPool
    <3>1. mode = "client"
      BY <1>1, <2>1, <2>3 DEF NeedsPool, ServerHolds, Usable
    <3>2. pool' = NoPool /\ req'[q] = "creating"
      BY <1>1, <1>2, <2>3 DEF Arrive
    <3>3. ~Usable(pool)
      BY <2>3 DEF NeedsPool, Usable
    <3>4. \A p \in Request : RequestHolds(p)'
      BY <1>1, <2>1, <3>1, <3>2, <3>3, Labels DEF RequestHolds
    <3> QED
      BY <1>1, <2>1, <3>1, <3>4 DEF RuntimeInv, ClientHolds
  <2> QED BY <2>2, <2>3
<1>3. CASE RequestPool(q)
  <2>1. /\ UNCHANGED <<mode, loop, stage, sem, r2, sweeper, task, taskPool, stored, published>>
        /\ req[q] = "creating" /\ req'[q] = "ready" /\ pool' = q /\ task[q] = "none"
        /\ \A p \in Request \ {q} : req'[p] = req[p]
    BY <1>1, <1>3 DEF RequestPool, MakePool, RequestHolds
  <2>2. mode = "client"
    BY <1>1, <2>1 DEF ServerHolds
  <2>3. /\ poolLoop' = [poolLoop EXCEPT ![q] = loop]
        /\ poolState' = [poolState EXCEPT ![q] = "open"]
        /\ q \in Pool /\ q # NoPool
    BY <1>3, PoolFacts DEF RequestPool, MakePool
  <2>4. Usable(q)' /\ \A p \in Pool : Usable(p) => Usable(p)'
    BY <2>1, <2>3 DEF Usable, TypeOK
  <2>5. \A p \in Request : RequestHolds(p)'
    BY <1>1, <2>1, <2>2, <2>4, Labels DEF RequestHolds, TypeOK, Usable
  <2>6. ClientHolds'
    BY <1>1, <2>1, <2>2, <2>3 DEF ClientHolds, TypeOK
  <2> QED
    BY <2>1, <2>2, <2>5, <2>6 DEF RuntimeInv
<1>4. CASE RequestPoolFails(q) \/ Handle(q) \/ Accept(q)
  <2>1. /\ UNCHANGED <<mode, loop, stage, pool, sem, r2, sweeper, poolLoop, poolState, taskPool,
                       stored, published>>
        /\ req[q] \in InFlight /\ req'[q] \in {"failed", "handling", "answered"}
        /\ (req'[q] = "handling" => req[q] = "ready" /\ Usable(pool))
        /\ (req'[q] # "answered" => task' = task)
        /\ \A p \in Request \ {q} : req'[p] = req[p] /\ task'[p] = task[p]
        /\ task[q] = "none"
    BY <1>1, <1>4, Labels DEF RequestPoolFails, Handle, Accept, services, pools, RequestHolds
  <2>2. req'[q] = "answered" => req[q] = "handling" /\ task'[q] = "created"
    BY <1>1, <1>4, Labels DEF RequestPoolFails, Handle, Accept
  <2>3. \A p : Usable(p)' <=> Usable(p)
    BY <2>1 DEF Usable
  <2>4. mode # "client" => ServerHolds'
    BY <1>1, <2>1, <2>3 DEF ServerHolds
  <2>5. mode = "client" => ClientHolds'
    BY <1>1, <2>1 DEF ClientHolds
  <2>6. \A p \in Request \ {q} : RequestHolds(p)'
    BY <1>1, <2>1, <2>3, Labels DEF RequestHolds
  <2>7. RequestHolds(q)'
    <3>1. req'[q] # "answered" => RequestHolds(q)'
      BY <1>1, <2>1, <2>3, Labels DEF RequestHolds
    <3>2. CASE req'[q] = "answered"
      <4>1. req[q] = "handling" /\ task'[q] = "created" /\ Usable(pool) /\ Usable(pool)'
            /\ (stage = "serving" \/ (mode = "client" /\ stage = "ending"))
        BY <1>1, <2>1, <2>2, <2>3, <3>2, Labels DEF RequestHolds
      <4>2. mode # "client" => pool = loop /\ stage = "serving" /\ Usable(loop)'
        BY <1>1, <2>1, <4>1 DEF ServerHolds, Usable
      <4>3. mode = "server" => r2 = "open"
        BY <1>1, <4>1, <4>2 DEF ServerHolds
      <4>4. q \notin published
        BY <1>1, <2>1 DEF RequestHolds
      <4> QED
        BY <2>1, <3>2, <4>1, <4>2, <4>3, <4>4, Labels DEF RequestHolds
    <3> QED BY <3>1, <3>2
  <2> QED
    BY <2>1, <2>4, <2>5, <2>6, <2>7 DEF RuntimeInv
<1> QED
  BY <1>2, <1>3, <1>4

(* A step of a task concerns its own row, run and permit.                  *)
LEMMA TaskFrame ==
  ASSUME TypeOK, RuntimeInv, NEW q \in Request, TaskStep(q)
  PROVE  /\ UNCHANGED <<mode, loop, stage, pool, r2, sweeper, poolLoop, poolState, req>>
         /\ sem' \in {sem, loop}
         /\ \A p \in Request \ {q} :
              /\ task'[p] = task[p] /\ taskPool'[p] = taskPool[p] /\ stored'[p] = stored[p]
              /\ p \in published' <=> p \in published
         /\ task[q] \in Live /\ task'[q] \in Live \cup {"ended"}
<1>1. UNCHANGED Elsewhere
  BY DEF TaskStep, Begin, GetPermit, Store, Put, Ask, Mark, Close, Raise, LoseFailure
<1>2. sem' \in {sem, loop}
  BY DEF TaskStep, Begin, GetPermit, Store, Put, Ask, Mark, Close, Raise, LoseFailure
<1>3. \E from \in Live, to \in Live \cup {"ended"} : TaskMoves(q, from, to)
  BY Labels DEF TaskStep, Begin, GetPermit, Store, Put, Ask, Mark, Close, Raise, LoseFailure
<1>4. /\ \A p \in Request \ {q} : task'[p] = task[p]
      /\ task[q] \in Live /\ task'[q] \in Live \cup {"ended"}
  BY <1>3 DEF TaskMoves, TypeOK
<1>5. \A p \in Request \ {q} : taskPool'[p] = taskPool[p]
  BY DEF TaskStep, Begin, GetPermit, Store, Put, Ask, Mark, Close, Raise, LoseFailure, TypeOK
<1>6. \A p \in Request \ {q} : stored'[p] = stored[p]
  BY DEF TaskStep, Begin, GetPermit, Store, Put, Ask, Mark, Close, Raise, LoseFailure, TypeOK
<1>7. \A p \in Request \ {q} : p \in published' <=> p \in published
  BY DEF TaskStep, Begin, GetPermit, Store, Put, Ask, Mark, Close, Raise, LoseFailure
<1> QED
  BY <1>1, <1>2, <1>4, <1>5, <1>6, <1>7 DEF Elsewhere, pools

LEMMA TaskInv ==
  ASSUME TypeOK, RuntimeInv, NEW q \in Request, TaskStep(q)
  PROVE  RuntimeInv'
<1>1. /\ UNCHANGED <<mode, loop, stage, pool, r2, sweeper, poolLoop, poolState, req>>
      /\ sem' \in {sem, loop}
      /\ \A p \in Request \ {q} :
           /\ task'[p] = task[p] /\ taskPool'[p] = taskPool[p] /\ stored'[p] = stored[p]
           /\ p \in published' <=> p \in published
      /\ task[q] \in Live /\ task'[q] \in Live \cup {"ended"}
  BY TaskFrame
<1>2. /\ \A p \in Request : RequestHolds(p)
      /\ mode = "client" => ClientHolds
      /\ mode # "client" => ServerHolds
  BY DEF RuntimeInv
<1>3. \A p : Usable(p)' <=> Usable(p)
  BY <1>1 DEF Usable
<1>4. (mode = "client" => ClientHolds') /\ (mode # "client" => ServerHolds')
  <2>1. Usable(loop)' <=> Usable(loop)
    BY <1>1 DEF Usable
  <2> QED
    BY <1>1, <1>2, <2>1 DEF ClientHolds, ServerHolds
<1>5. \A p \in Request \ {q} : RequestHolds(p)'
  <2> SUFFICES ASSUME NEW p \in Request \ {q} PROVE RequestHolds(p)'
    OBVIOUS
  <2>1. /\ UNCHANGED <<mode, loop, stage, pool, r2, poolLoop, poolState>>
        /\ req'[p] = req[p] /\ task'[p] = task[p] /\ taskPool'[p] = taskPool[p]
        /\ stored'[p] = stored[p] /\ (p \in published' <=> p \in published)
    BY <1>1
  <2> QED
    BY <1>2, <2>1 DEF RequestHolds, Usable
<1>6. RequestHolds(q)'
  <2>1. /\ task[q] \in Live /\ req[q] = "answered"
        /\ stage \notin {"down", "starting", "entering_r2"}
        /\ mode # "client" => pool = loop /\ (task[q] # "created" => taskPool[q] = loop)
        /\ mode = "client" => Usable(pool) /\ (task[q] # "created" => Usable(taskPool[q]))
        /\ mode = "server" /\ r2 = "none" => ~Usable(loop)
    BY <1>1, <1>2, Labels DEF RequestHolds
  <2>2. taskPool'[q] = IF task[q] = "created" THEN pool ELSE taskPool[q]
    BY Labels
    DEF TaskStep, Begin, GetPermit, Store, Put, Ask, Mark, Close, Raise, LoseFailure, TaskMoves, TypeOK
  <2>3. task'[q] # "created"
    BY Labels
    DEF TaskStep, Begin, GetPermit, Store, Put, Ask, Mark, Close, Raise, LoseFailure, TaskMoves, TypeOK
  <2>4. /\ mode # "client" => pool' = loop' /\ taskPool'[q] = loop'
        /\ mode = "client" => Usable(pool') /\ Usable(taskPool'[q])
    BY <1>1, <2>1, <2>2
  <2>5. mode = "server" =>
          /\ task'[q] = "mark" => stored'[q] = "object" \/ ~Usable(loop)
          /\ task'[q] = "marking" \/ q \in published' => stored'[q] = "object"
    <3>1. mode = "server" =>
            /\ task[q] = "mark" => stored[q] = "object" \/ ~Usable(loop)
            /\ task[q] = "marking" \/ q \in published => stored[q] = "object"
      BY <1>2 DEF RequestHolds
    <3>2. CASE Store(q) \/ Put(q)
      <4>1. q \notin published
        BY <1>2, <3>2, Labels DEF RequestHolds, Store, Put, TaskMoves
      <4> QED
        BY <2>1, <3>1, <3>2, <4>1 DEF Store, Put, TaskMoves, TypeOK
    <3>3. CASE Ask(q)
      BY <2>1, <3>1, <3>3 DEF Ask, TaskMoves, TypeOK
    <3>4. CASE Begin(q) \/ GetPermit(q) \/ Mark(q) \/ Close(q) \/ Raise(q) \/ LoseFailure(q)
      <4>1. stored' = stored /\ task'[q] \notin {"mark", "marking"}
            /\ (q \in published' => q \in published \/ task[q] = "marking")
        BY <3>4 DEF Begin, GetPermit, Mark, Close, Raise, LoseFailure, TaskMoves, TypeOK
      <4> QED BY <3>1, <4>1
    <3> QED BY <3>2, <3>3, <3>4 DEF TaskStep
  <2>6. q \in published' => task'[q] \in {"close", "closing", "except", "recording", "ended"}
    <3>1. q \in published => task[q] \in {"close", "closing", "except", "recording", "ended"}
      BY <1>2 DEF RequestHolds
    <3> QED
      BY <3>1
      DEF TaskStep, Begin, GetPermit, Store, Put, Ask, Mark, Close, Raise, LoseFailure, TaskMoves, TypeOK
  <2>7. /\ Usable(loop)' <=> Usable(loop) 
        /\ Usable(pool)' <=> Usable(pool')
        /\ Usable(taskPool[q])' <=> Usable(taskPool'[q])
    BY <1>1 DEF Usable
  <2> QED
    BY <1>1, <2>1, <2>4, <2>5, <2>6, <2>7, Labels DEF RequestHolds
<1> QED
  BY <1>1, <1>4, <1>5, <1>6 DEF RuntimeInv

(* The worker and the shutdown, up to the cancelling.                      *)
LEMMA DrainInv ==
  ASSUME TypeOK, RuntimeInv,
         Sweep \/ Stop \/ Drain \/ CloseR2 \/ CloseR2Fails \/ ClosePool \/ CloseLoop
  PROVE  RuntimeInv'
<1> USE DEF Enters, services, pools, work
<1>1. /\ \A q \in Request : RequestHolds(q)
      /\ mode = "client" => ClientHolds
      /\ mode # "client" => ServerHolds
  BY DEF RuntimeInv
<1>2. UNCHANGED <<mode, loop, pool, sem, poolLoop, req, task, taskPool, stored, published>>
  BY DEF Sweep, Stop, Drain, CloseR2, CloseR2Fails, ClosePool, CloseLoop
<1>3. \A p \in Pool : Usable(p)' => Usable(p)
  BY <1>2 DEF Usable, Sweep, Stop, Drain, CloseR2, CloseR2Fails, ClosePool, CloseLoop, TypeOK
<1>4. CASE mode = "client"
  <2>1. \/ Stop /\ stage = "serving" /\ stage' = "ending"
        \/ CloseLoop /\ stage = "cancelling" /\ stage' = "down"
    BY <1>1, <1>4
    DEF ClientHolds, Sweep, Stop, Drain, CloseR2, CloseR2Fails, ClosePool, CloseLoop
  <2>2. UNCHANGED <<poolState, r2, sweeper>>
    BY <2>1 DEF Stop, CloseLoop
  <2>3. ClientHolds'
    BY <1>1, <1>2, <1>4, <2>1, <2>2 DEF ClientHolds
  <2>4. \A q \in Request : RequestHolds(q)'
    <3>1. CASE Stop
      BY <1>1, <1>2, <1>4, <2>1, <2>2, <3>1 DEF RequestHolds, Usable, Stop
    <3>2. CASE CloseLoop
      <4>1. \A q \in Request : task[q] \notin Live /\ req[q] \notin InFlight
        BY <1>1, <1>4, <3>2 DEF CloseLoop, RequestHolds
      <4> QED
        BY <1>1, <1>2, <1>4, <2>1, <2>2, <4>1, Labels DEF RequestHolds
    <3> QED BY <2>1, <3>1, <3>2
  <2> QED BY <1>2, <1>4, <2>3, <2>4 DEF RuntimeInv
<1>5. CASE mode # "client"
  <2>1. loop \in Pool /\ (loop \in Request => FALSE)
    <3>1. stage # "down"
      BY DEF Sweep, Stop, Drain, CloseR2, CloseR2Fails, ClosePool, CloseLoop
    <3> QED BY <3>1, PoolFacts DEF TypeOK
  <2>2. \A q \in Request : poolState'[q] = "none" /\ req'[q] # "creating"
    <3>1. poolState' = poolState \/ (pool = loop /\ \E s : poolState' = [poolState EXCEPT ![loop] = s])
      BY <1>1, <1>5
      DEF ServerHolds, Sweep, Stop, Drain, CloseR2, CloseR2Fails, ClosePool, CloseLoop
    <3> QED
      BY <1>1, <1>2, <1>5, <2>1, <3>1, PoolFacts DEF ServerHolds, TypeOK
  <2>3. ServerHolds'
    <3>1. CASE Sweep
      BY <1>1, <1>2, <1>5, <2>2, <3>1 DEF ServerHolds, Sweep, Usable, TypeOK, Modes
    <3>2. CASE Stop
      BY <1>1, <1>2, <1>5, <2>2, <3>2 DEF ServerHolds, Stop, Usable
    <3>3. CASE Drain
      BY <1>1, <1>2, <1>5, <2>1, <2>2, <3>3 DEF ServerHolds, Drain, Usable, TypeOK
    <3>4. CASE CloseR2
      BY <1>1, <1>2, <1>5, <2>1, <2>2, <3>4 DEF ServerHolds, CloseR2, TypeOK
    <3>5. CASE CloseR2Fails \/ ClosePool \/ CloseLoop
      BY <1>1, <1>2, <1>5, <2>2, <3>5 DEF ServerHolds, CloseR2Fails, ClosePool, CloseLoop
    <3> QED BY <3>1, <3>2, <3>3, <3>4, <3>5
  <2>4. \A q \in Request : RequestHolds(q)'
    <3> SUFFICES ASSUME NEW q \in Request PROVE RequestHolds(q)'
      OBVIOUS
    <3>1. req[q] \in InFlight => Sweep
      BY <1>1, <1>5
      DEF RequestHolds, Sweep, Stop, Drain, CloseR2, CloseR2Fails, ClosePool, CloseLoop
    <3>2. CASE Sweep
      BY <1>1, <1>2, <1>5, <3>2 DEF RequestHolds, Sweep, Usable
    <3>3. CASE task[q] \in Live /\ ~Sweep
      <4>1. /\ pool = loop /\ (task[q] # "created" => taskPool[q] = loop)
            /\ stage \notin {"down", "starting", "entering_r2"} /\ req[q] = "answered"
            /\ mode = "server" /\ r2 = "none" => ~Usable(loop)
            /\ mode = "server" =>
                 /\ task[q] = "mark" => stored[q] = "object" \/ ~Usable(loop)
                 /\ task[q] = "marking" \/ q \in published => stored[q] = "object"
        BY <1>1, <1>5, <3>3, Labels DEF RequestHolds
      <4>2. ~Usable(loop) => ~Usable(loop)'
        BY <1>2, <1>3, <2>1 DEF Usable
      <4>3. mode = "server" /\ r2' = "none" => ~Usable(loop)'
        <5>1. CASE Drain \/ CloseR2
          <6>1. mode = "server" /\ r2' = "none" => poolState'[loop] = "closing"
            BY <1>1, <1>5, <2>1, <4>1, <5>1 DEF Drain, CloseR2, ServerHolds, TypeOK
          <6> QED BY <1>2, <6>1 DEF Usable
        <5>2. CASE Stop \/ CloseR2Fails \/ ClosePool \/ CloseLoop
          <6>1. r2' = r2
            BY <5>2 DEF Stop, CloseR2Fails, ClosePool, CloseLoop
          <6> QED BY <4>1, <4>2, <6>1
        <5> QED BY <3>3, <5>1, <5>2
      <4>4. stage' \notin {"down", "starting", "entering_r2"}
        BY <3>3 DEF Sweep, Stop, Drain, CloseR2, CloseR2Fails, ClosePool, CloseLoop
      <4> QED
        BY <1>1, <1>2, <1>5, <4>1, <4>2, <4>3, <4>4, Labels DEF RequestHolds
    <3>4. CASE task[q] \notin Live /\ ~Sweep
      BY <1>1, <1>2, <1>5, <3>1, <3>4, Labels DEF RequestHolds
    <3> QED BY <3>2, <3>3, <3>4
  <2> QED BY <1>2, <1>5, <2>3, <2>4 DEF RuntimeInv
<1> QED
  BY <1>4, <1>5

(* A cancelled task is where it was, ended, or in its except clause.       *)
LEMMA CancelInv ==
  ASSUME TypeOK, RuntimeInv, CancelAll \/ Crash
  PROVE  RuntimeInv'
<1> USE DEF Enters, services, pools, work
<1>1. /\ \A q \in Request : RequestHolds(q)
      /\ mode = "client" => ClientHolds
      /\ mode # "client" => ServerHolds
  BY DEF RuntimeInv
<1>2. /\ UNCHANGED <<mode, loop, pool, sem, poolLoop, taskPool, stored, published>>
      /\ stage' \in {"cancelling", "down"}
      /\ \A q \in Request :
           /\ req'[q] \notin InFlight /\ (req[q] \notin InFlight => req'[q] = req[q])
           /\ task'[q] \in {task[q], "except", "ended"}
           /\ (task[q] = "none" => task'[q] = "none")
           /\ (task'[q] = "except" => task[q] \in Holding)
  BY Labels DEF CancelAll, Crash, Cancelled, TypeOK
<1>3. \A q \in Request : task'[q] \in Live => task'[q] = "except" /\ CancelAll
  BY Labels DEF CancelAll, Crash, Cancelled, TypeOK
<1>4. \A p \in Pool : Usable(p)' => Usable(p)
  BY <1>2 DEF Usable, CancelAll, Crash, TypeOK
<1>5. mode = "client" => ClientHolds' /\ CancelAll
  BY <1>1, <1>2 DEF ClientHolds, CancelAll, Crash
<1>6. mode # "client" => ServerHolds'
  <2>1. mode # "client" => \A q \in Request : poolState'[q] = "none" /\ req'[q] # "creating"
    BY <1>1, <1>2, PoolFacts, Labels DEF ServerHolds, CancelAll, Crash, TypeOK
  <2>2. (mode = "bare" => r2' = "none") /\ (mode # "client" => sweeper' # "sweeping")
    BY <1>1 DEF ServerHolds, CancelAll, Crash
  <2> QED
    BY <1>1, <1>2, <2>1, <2>2 DEF ServerHolds
<1>7. \A q \in Request : RequestHolds(q)'
  <2> SUFFICES ASSUME NEW q \in Request PROVE RequestHolds(q)'
    OBVIOUS
  <2>1. RequestHolds(q)
    BY <1>1
  <2>2. task'[q] # "none" => req'[q] = "answered"
    BY <1>2, <2>1, Labels DEF RequestHolds
  <2>3. q \in published' => task'[q] \in {"close", "closing", "except", "recording", "ended"}
    BY <1>2, <2>1 DEF RequestHolds
  <2>4. mode = "server" =>
          /\ task'[q] = "mark" => stored'[q] = "object" \/ ~Usable(loop)'
          /\ task'[q] = "marking" \/ q \in published' => stored'[q] = "object"
    BY <1>2, <1>3, <2>1, Labels DEF RequestHolds
  <2>5. task'[q] \in Live =>
         /\ stage' \notin {"down", "starting", "entering_r2"}
         /\ mode # "client" => pool = loop /\ (task'[q] # "created" => taskPool[q] = loop)
         /\ mode = "client" => Usable(pool)' /\ (task'[q] # "created" => Usable(taskPool[q])')
         /\ mode = "server" /\ r2' = "none" => ~Usable(loop)'
    <3> SUFFICES ASSUME task'[q] \in Live PROVE
         /\ stage' \notin {"down", "starting", "entering_r2"}
         /\ mode # "client" => pool = loop /\ taskPool[q] = loop
         /\ mode = "client" => Usable(pool)' /\ Usable(taskPool[q])'
         /\ mode = "server" /\ r2' = "none" => ~Usable(loop)'
      OBVIOUS
    <3>1. CancelAll /\ task[q] \in Holding /\ task[q] \in Live /\ task[q] # "created"
      BY <1>2, <1>3, Labels
    <3>2. UNCHANGED <<r2, poolState, poolLoop, pool, loop, taskPool>> /\ stage' = "cancelling"
      BY <3>1 DEF CancelAll
    <3> QED
      BY <2>1, <3>1, <3>2 DEF RequestHolds, Usable
  <2> QED
    BY <1>2, <2>2, <2>3, <2>4, <2>5, Labels DEF RequestHolds
<1> QED
  BY <1>2, <1>5, <1>6, <1>7 DEF RuntimeInv

(* The invariant of the process's life.                                    *)
THEOREM RuntimeCorrect == Spec => []RuntimeInv
<1>1. TypeOK /\ RuntimeInv /\ [Next]_vars => RuntimeInv'
  <2> SUFFICES ASSUME TypeOK, RuntimeInv, [Next]_vars PROVE RuntimeInv'
    OBVIOUS
  <2>1. CASE UNCHANGED vars
    BY <2>1 DEF vars, services, pools, work, RuntimeInv, ClientHolds, ServerHolds, RequestHolds, Usable
  <2> QED
    BY <2>1, StartInv, RequestInv, TaskInv, DrainInv, CancelInv
    DEF Next, Lifespan, RequestStep, AtRest
<1> QED
  BY <1>1, InitRuntimeInv, TypeCorrect, PTL DEF Spec

-----------------------------------------------------------------------------
(* What the runs check. *)

(* PublishedIsStored: a server publishes no mock's key, at any shutdown.   *)
THEOREM ServersPublishObjects == Spec => []PublishedIsStored
<1>1. TypeOK /\ RuntimeInv => PublishedIsStored
  BY DEF RuntimeInv, RequestHolds, PublishedIsStored, TypeOK
<1> QED
  BY <1>1, RuntimeCorrect, TypeCorrect, PTL

(* RequestsHaveTheirPool, for every number of first requests at a time.    *)
THEOREM PoolsBelongToTheLoop == Spec => []RequestsHaveTheirPool
<1>1. RuntimeInv => RequestsHaveTheirPool
  BY DEF RuntimeInv, RequestHolds, ServerHolds, RequestsHaveTheirPool
<1> QED
  BY <1>1, RuntimeCorrect, PTL

(* SweepHasItsClients: the worker is over before a client is closed.       *)
THEOREM SweepsHaveTheirClients == Spec => []SweepHasItsClients
<1>1. TypeOK /\ RuntimeInv => SweepHasItsClients
  BY DEF RuntimeInv, ServerHolds, ClientHolds, SweepHasItsClients, TypeOK, Modes
<1> QED
  BY <1>1, RuntimeCorrect, TypeCorrect, PTL

(* ServedRunsAreClosed: nothing that runs while the process serves leaves  *)
(* a run of its own open.                                                  *)
THEOREM ServedRunsClose == Spec => ServedRunsAreClosed
<1>1. TypeOK /\ RuntimeInv /\ [Next]_vars =>
        [\A q \in Request :
           task[q] # "ended" /\ task'[q] = "ended" /\ run'[q] = "running" =>
             stage' # "serving" \/ (mode = "client" /\ sem \notin {0, loop})]_vars
  <2> SUFFICES ASSUME TypeOK, RuntimeInv, Next, NEW q \in Request,
                      task[q] # "ended", task'[q] = "ended", run'[q] = "running",
                      stage' = "serving"
               PROVE  mode = "client" /\ sem \notin {0, loop}
    BY DEF vars
  <2>1. TaskStep(q)
    <3>1. CASE \E p \in Request : TaskStep(p)
      BY <3>1, TaskFrame
    <3>2. CASE \E p \in Request : Arrive(p) \/ RequestPool(p) \/ RequestPoolFails(p) \/ Handle(p) \/ Accept(p)
      BY <3>2 DEF Arrive, RequestPool, RequestPoolFails, Handle, Accept, services, pools, TypeOK
    <3>3. CASE Start \/ LifespanPool \/ EnterR2 \/ StartFails
      BY <3>3, Labels DEF Start, LifespanPool, EnterR2, StartFails, work, TypeOK, All, Enters
    <3>4. CASE Sweep \/ Stop \/ Drain \/ CloseR2 \/ CloseR2Fails \/ ClosePool \/ CloseLoop \/ AtRest
      BY <3>4 DEF Sweep, Stop, Drain, CloseR2, CloseR2Fails, ClosePool, CloseLoop, AtRest, work, vars
    <3>5. CASE CancelAll \/ Crash
      BY <3>5 DEF CancelAll, Crash, Enters
    <3> QED
      BY <3>1, <3>2, <3>3, <3>4, <3>5 DEF Next, Lifespan, RequestStep
  <2>2. stage = "serving" /\ task[q] \in Live
    BY <2>1, TaskFrame
  <2>3. task[q] # "created" => Usable(taskPool[q])
    BY <2>2 DEF RuntimeInv, RequestHolds, ServerHolds
  <2>4. task'[q] = "ended" /\ run'[q] = "running" => Begin(q) /\ sem \notin {0, loop}
    BY <2>1, <2>3
    DEF TaskStep, Begin, GetPermit, Store, Put, Ask, Mark, Close, Raise, LoseFailure, TaskMoves, TypeOK
  <2>5. sem \notin {0, loop}
    BY <2>4
  <2> QED
    BY <2>5 DEF RuntimeInv, ServerHolds
<1> QED
  BY <1>1, RuntimeCorrect, TypeCorrect, PTL DEF Spec, ServedRunsAreClosed

-----------------------------------------------------------------------------
(* The safety half of the liveness of Runtime. *)

LEMMA LiveMoves ==
  ASSUME NEW q \in Request, task[q] \in Live
  PROVE  \E p \in Request : CanMove(p)
<1>1. CASE task[q] # "waiting"
  BY <1>1, Labels DEF CanMove
<1>2. CASE Cardinality(Inside) < Permits /\ task[q] = "waiting"
  BY <1>2 DEF CanMove
<1>3. CASE ~(Cardinality(Inside) < Permits)
  <2>1. Inside = {} => Cardinality(Inside) = 0
    BY FS_EmptySet
  <2>2. Inside # {}
    BY <1>3, <2>1, RuntimeAssumption
  <2> QED
    BY <2>2 DEF Inside, CanMove
<1> QED
  BY <1>1, <1>2, <1>3

(* Neither a shutdown that waits for tasks nor a task that waits for       *)
(* others comes to a halt, whichever pool and clients are gone.            *)
THEOREM ShutdownsAreNeverStuck == Spec => []NobodyIsStuck
<1>1. TypeOK => NobodyIsStuck
  <2> SUFFICES ASSUME TypeOK, \A p \in Request : ~CanMove(p), stage \notin {"down", "serving"}
               PROVE  LifespanCanMove
    BY LiveMoves DEF NobodyIsStuck
  <2>1. \A q \in Request : task[q] \notin Live
    BY LiveMoves
  <2>2. \A q \in Request : task[q] \notin Connected
    BY <2>1, Labels DEF Connected
  <2> QED
    BY <2>1, <2>2 DEF LifespanCanMove
<1> QED
  BY <1>1, TypeCorrect, PTL

LEMMA LeftIsNat ==
  /\ StagesLeft \in Nat /\ StagesLeft' \in Nat
  /\ \A q \in Request : StepsLeft(q) \in Nat /\ StepsLeft(q)' \in Nat
BY DEF StagesLeft, StepsLeft

LEMMA StagesGoDown ==
  ASSUME TypeOK, Lifespan \/ Stop
  PROVE  StagesLeft' < StagesLeft
BY DEF Lifespan, LifespanPool, EnterR2, StartFails, Drain, CloseR2, CloseR2Fails, ClosePool,
       CancelAll, CloseLoop, Stop, Enters, StagesLeft

LEMMA TaskTakesOne ==
  ASSUME TypeOK, NEW q \in Request, TaskStep(q)
  PROVE  StepsLeft(q)' < StepsLeft(q)
<1> USE DEF TypeOK, TaskMoves
<1>1. CASE Begin(q) \/ GetPermit(q) \/ Store(q) \/ Put(q)
  BY <1>1 DEF Begin, GetPermit, Store, Put, StepsLeft
<1>2. CASE Ask(q) \/ Mark(q) \/ Close(q)
  BY <1>2 DEF Ask, Mark, Close, StepsLeft
<1>3. CASE Raise(q) \/ LoseFailure(q)
  BY <1>3 DEF Raise, LoseFailure, StepsLeft
<1> QED
  BY <1>1, <1>2, <1>3 DEF TaskStep

(* Where a cancellation leads there is less to do than where it comes from. *)
LEMMA CancelTakesSome ==
  ASSUME TypeOK, CancelAll \/ Crash, NEW q \in Request
  PROVE  StepsLeft(q)' <= StepsLeft(q)
<1>1. CASE CancelAll
  <2>1. task'[q] = Cancelled(task[q])
    BY <1>1 DEF CancelAll
  <2>2. CASE task[q] \in Holding \ {"except", "recording"}
    <3>1. task'[q] = "except"
      BY <2>1, <2>2, Labels DEF Cancelled
    <3>2. StepsLeft(q)' = 2 /\ StepsLeft(q) >= 3
      BY <2>2, <3>1, Labels DEF StepsLeft
    <3> QED
      BY <3>2, LeftIsNat
  <2>3. CASE task[q] \notin Holding \ {"except", "recording"}
    <3>1. task'[q] \in {"ended", task[q]}
      BY <2>1, <2>3 DEF Cancelled
    <3>2. StepsLeft(q)' \in {0, StepsLeft(q)}
      BY <3>1 DEF StepsLeft
    <3> QED
      BY <3>2, LeftIsNat
  <2> QED
    BY <2>2, <2>3
<1>2. CASE Crash
  <2>1. task'[q] \in {"ended", task[q]}
    BY <1>2 DEF Crash
  <2>2. StepsLeft(q)' \in {0, StepsLeft(q)}
    BY <2>1 DEF StepsLeft
  <2> QED
    BY <2>2, LeftIsNat
<1> QED
  BY <1>1, <1>2

LEMMA NobodyAddsSteps ==
  ASSUME TypeOK, RuntimeInv, Next, NEW q \in Request, task[q] # "none"
  PROVE  StepsLeft(q)' <= StepsLeft(q)
<1>1. ASSUME task'[q] = task[q]
      PROVE  StepsLeft(q)' <= StepsLeft(q)
  BY <1>1, LeftIsNat DEF StepsLeft
<1>2. CASE Start
  <2>1. task' = task \/ task' = All("none")
    BY <1>2 DEF Start, work
  <2>2. task'[q] = task[q] \/ StepsLeft(q)' = 0
    BY <2>1 DEF All, StepsLeft
  <2> QED
    BY <1>1, <2>2, LeftIsNat
<1>3. CASE CancelAll \/ Crash
  BY <1>3, CancelTakesSome
<1>4. ASSUME NEW p \in Request, TaskStep(p)
      PROVE  StepsLeft(q)' <= StepsLeft(q)
  <2>1. CASE p = q
    BY <1>4, <2>1, TaskTakesOne, LeftIsNat
  <2>2. CASE p # q
    BY <1>1, <1>4, <2>2, TaskFrame
  <2> QED
    BY <2>1, <2>2
<1>5. ASSUME NEW p \in Request,
             Arrive(p) \/ RequestPool(p) \/ RequestPoolFails(p) \/ Handle(p) \/ Accept(p)
      PROVE  task'[q] = task[q]
  <2>1. task[q] # "none" => req[q] # "handling"
    BY DEF RuntimeInv, RequestHolds
  <2> QED
    BY <1>5, <2>1 DEF Arrive, RequestPool, RequestPoolFails, Handle, Accept, TypeOK
<1>6. CASE \/ LifespanPool \/ EnterR2 \/ StartFails \/ Drain \/ CloseR2 \/ CloseR2Fails
           \/ ClosePool \/ CloseLoop \/ Stop \/ Sweep \/ AtRest
  <2>1. task' = task
    BY <1>6 DEF LifespanPool, EnterR2, StartFails, Drain, CloseR2, CloseR2Fails, ClosePool,
      CloseLoop, Stop, Sweep, AtRest, work, vars
  <2> QED
    BY <1>1, <2>1
<1> QED
  BY <1>1, <1>2, <1>3, <1>4, <1>5, <1>6 DEF Next, Lifespan, RequestStep

LEMMA StagesDoNotGoUp ==
  ASSUME TypeOK, Next, loop' = loop
  PROVE  StagesLeft' <= StagesLeft
<1>1. CASE Lifespan \/ Stop
  BY <1>1, StagesGoDown, LeftIsNat
<1>2. ASSUME stage' = stage
      PROVE  StagesLeft' <= StagesLeft
  BY <1>2, LeftIsNat DEF StagesLeft
<1>3. CASE Crash
  <2>1. StagesLeft' = 0
    BY <1>3 DEF Crash, StagesLeft
  <2> QED
    BY <2>1, LeftIsNat
<1>4. ~Start
  BY DEF Start, TypeOK
<1>5. ASSUME NEW p \in Request, TaskStep(p)
      PROVE  stage' = stage
  BY <1>5 DEF TaskStep, Begin, GetPermit, Store, Put, Ask, Mark, Close, Raise, LoseFailure,
    Elsewhere
<1>6. ASSUME NEW p \in Request,
             Arrive(p) \/ RequestPool(p) \/ RequestPoolFails(p) \/ Handle(p) \/ Accept(p)
      PROVE  stage' = stage
  BY <1>6 DEF Arrive, RequestPool, RequestPoolFails, Handle, Accept
<1>7. CASE Sweep \/ AtRest
  BY <1>2, <1>7 DEF Sweep, AtRest, vars
<1> QED
  BY <1>1, <1>2, <1>3, <1>4, <1>5, <1>6, <1>7 DEF Next, RequestStep

(* The life of a process and that of a task are of bounded length: with    *)
(* ShutdownsAreNeverStuck, a shutdown that was begun is completed.         *)
THEOREM ShutdownsAreFinite == Spec => StepsAreCounted
<1>1. TypeOK /\ RuntimeInv /\ [Next]_vars =>
        [/\ loop' = loop => StagesLeft' <= StagesLeft
         /\ Lifespan \/ Stop => StagesLeft' < StagesLeft
         /\ \A q \in Request :
              /\ task[q] # "none" => StepsLeft(q)' <= StepsLeft(q)
              /\ TaskStep(q) => StepsLeft(q)' < StepsLeft(q)]_vars
  BY StagesGoDown, TaskTakesOne, NobodyAddsSteps, StagesDoNotGoUp DEF vars
<1> QED
  BY <1>1, TypeCorrect, RuntimeCorrect, PTL DEF Spec, StepsAreCounted

(* What becomes of the pools of a server: each is its own loop's, and none *)
(* is left when its process has ended but by a fault of R2.                *)
LeakedByR2 ==
  stage \in {"ending", "cancelling", "down"} =>
    \A p \in Pool : poolLoop[p] = loop /\ poolState[p] \in {"open", "closing"} =>
      "r2" \in Faults /\ (r2 = "closing" \/ sweeper = "none")

PoolsInOrder ==
  mode # "client" =>
    /\ \A p \in Pool : poolState[p] # "none" => p = poolLoop[p] /\ p \in 1..loop
    /\ stage = "starting" => \A p \in Pool : poolLoop[p] = loop => poolState[p] = "none"
    /\ stage \in {"starting", "entering_r2"} => sweeper = "none"
    /\ stage = "closing_r2" => r2 = "closing"
    /\ LeakedByR2

LEMMA StartKeepsPools ==
  ASSUME TypeOK, RuntimeInv, PoolsInOrder, Start \/ LifespanPool \/ EnterR2 \/ StartFails
  PROVE  PoolsInOrder'
<1> SUFFICES ASSUME mode' # "client" PROVE PoolsInOrder'
  BY DEF PoolsInOrder
<1> USE DEF Enters, services, pools, LeakedByR2
<1>0. mode' = mode /\ mode # "client" /\ loop \in Nat
  BY DEF Start, LifespanPool, EnterR2, StartFails, TypeOK
<1>1. CASE Start
  <2>1. /\ stage' = "starting" /\ sweeper' = "none" /\ loop' = loop + 1
        /\ poolState' = poolState /\ poolLoop' = poolLoop
    BY <1>0, <1>1 DEF Start
  <2>2. \A p \in Pool : poolState[p] # "none" => p = poolLoop[p] /\ p \in 1..loop /\ p # loop'
    BY <1>0, <2>1 DEF PoolsInOrder
  <2>3. \A p \in Pool : poolState[p] # "none" => p \in 1..loop'
    BY <1>0, <2>1, <2>2
  <2> QED
    BY <2>1, <2>2, <2>3 DEF PoolsInOrder
<1>2. CASE LifespanPool
  <2>1. /\ loop \in Loop /\ loop \in Pool /\ loop \in 1..loop
        /\ loop' = loop /\ stage' \in {"entering_r2", "serving"}
        /\ stage' = "entering_r2" => sweeper' = sweeper
        /\ sweeper = "none"
    BY <1>0, <1>2, PoolFacts DEF LifespanPool, TypeOK, PoolsInOrder, Loop
  <2>2. /\ poolState'[loop] = "open" /\ poolLoop'[loop] = loop
        /\ \A p \in Pool \ {loop} : poolState'[p] = poolState[p] /\ poolLoop'[p] = poolLoop[p]
    BY <1>2, <2>1 DEF LifespanPool, MakePool, TypeOK
  <2> QED
    BY <1>0, <2>1, <2>2 DEF PoolsInOrder
<1>3. CASE EnterR2
  BY <1>0, <1>3 DEF EnterR2, PoolsInOrder
<1>4. CASE StartFails
  <2>1. /\ stage' = "ending" /\ sweeper = "none"
        /\ UNCHANGED <<loop, r2, sweeper, poolLoop, poolState>>
        /\ stage = "starting" \/ "r2" \in Faults
    BY <1>0, <1>4 DEF StartFails, PoolsInOrder
  <2>2. \A p \in Pool : poolLoop[p] = loop /\ poolState[p] \in {"open", "closing"} =>
          "r2" \in Faults
    BY <1>0, <2>1, <1>4 DEF StartFails, PoolsInOrder
  <2> QED
    BY <1>0, <2>1, <2>2 DEF PoolsInOrder
<1> QED
  BY <1>1, <1>2, <1>3, <1>4

LEMMA StopKeepsPools ==
  ASSUME TypeOK, RuntimeInv, PoolsInOrder,
         \/ Sweep \/ Stop \/ Drain \/ CloseR2 \/ CloseR2Fails \/ ClosePool \/ CancelAll
         \/ CloseLoop \/ Crash
  PROVE  PoolsInOrder'
<1> SUFFICES ASSUME mode' # "client" PROVE PoolsInOrder'
  BY DEF PoolsInOrder
<1> USE DEF Enters, services, pools, LeakedByR2
<1>0. mode' = mode /\ mode # "client" /\ loop' = loop /\ poolLoop' = poolLoop
  BY DEF Sweep, Stop, Drain, CloseR2, CloseR2Fails, ClosePool, CancelAll, CloseLoop, Crash
<1>1. CASE Sweep \/ Stop
  BY <1>0, <1>1 DEF Sweep, Stop, PoolsInOrder
<1>2. CASE Drain \/ CloseR2
  <2>1. /\ stage' \in {"closing_r2", "closing_pool"}
        /\ stage' = "closing_r2" => r2' = "closing"
        /\ pool = loop /\ loop \in Pool /\ Usable(loop)
    BY <1>0, <1>2, PoolFacts
    DEF Drain, CloseR2, RuntimeInv, ServerHolds, TypeOK
  <2>2. \A p \in Pool : poolState'[p] # "none" => poolState[p] # "none"
    BY <1>2, <2>1 DEF Drain, CloseR2, TypeOK, Usable
  <2> QED
    BY <1>0, <2>1, <2>2 DEF PoolsInOrder
<1>3. CASE CloseR2Fails
  BY <1>0, <1>3 DEF CloseR2Fails, PoolsInOrder
<1>4. CASE ClosePool
  <2>1. stage' = "ending" /\ pool = loop /\ poolState[loop] = "closing" /\ loop \in Pool
    BY <1>0, <1>4, PoolFacts DEF ClosePool, RuntimeInv, ServerHolds, TypeOK
  <2>2. /\ poolState'[loop] = "closed"
        /\ \A p \in Pool \ {loop} : poolState'[p] = poolState[p]
    BY <1>4, <2>1 DEF ClosePool, TypeOK
  <2>3. \A p \in Pool : poolState'[p] # "none" => p = poolLoop[p] /\ p \in 1..loop
    BY <1>0, <2>1, <2>2 DEF PoolsInOrder
  <2>4. \A p \in Pool : poolLoop[p] = loop => poolState'[p] \in {"none", "closed"}
    BY <2>2, <2>3
  <2> QED
    BY <1>0, <2>1, <2>3, <2>4 DEF PoolsInOrder
<1>5. CASE CancelAll \/ CloseLoop
  BY <1>0, <1>5 DEF CancelAll, CloseLoop, PoolsInOrder
<1>6. CASE Crash
  <2>1. /\ stage' = "down"
        /\ \A p \in Pool : poolState'[p] = IF poolState[p] = "none" THEN "none" ELSE "closed"
    BY <1>6 DEF Crash
  <2> QED
    BY <1>0, <2>1 DEF PoolsInOrder
<1> QED
  BY <1>1, <1>2, <1>3, <1>4, <1>5, <1>6

LEMMA RequestsKeepPools ==
  ASSUME TypeOK, RuntimeInv, PoolsInOrder, RequestStep
  PROVE  PoolsInOrder'
<1> SUFFICES ASSUME mode' # "client" PROVE PoolsInOrder'
  BY DEF PoolsInOrder
<1> USE DEF services, pools
<1>1. UNCHANGED <<mode, loop, stage, r2, sweeper>>
  BY DEF RequestStep, Arrive, RequestPool, RequestPoolFails, Handle, Accept, TaskStep,
    Begin, GetPermit, Store, Put, Ask, Mark, Close, Raise, LoseFailure, Elsewhere
<1>2. \A q \in Request : ~RequestPool(q)
  BY <1>1 DEF RequestPool, RuntimeInv, ServerHolds
<1>3. UNCHANGED <<poolLoop, poolState>>
  BY <1>2 DEF RequestStep, Arrive, RequestPoolFails, Handle, Accept, TaskStep,
    Begin, GetPermit, Store, Put, Ask, Mark, Close, Raise, LoseFailure, Elsewhere
<1> QED
  BY <1>1, <1>3 DEF PoolsInOrder, LeakedByR2

(* A process that has ended left nothing at work and no pool open, except  *)
(* where R2 raised before or out of the lifespan's clean-up.               *)
THEOREM ShutdownsAreComplete == Spec => []StoppedIsOver
<1>1. Init => PoolsInOrder
  BY DEF Init, PoolsInOrder, LeakedByR2
<1>2. TypeOK /\ RuntimeInv /\ PoolsInOrder /\ [Next]_vars => PoolsInOrder'
  <2> SUFFICES ASSUME TypeOK, RuntimeInv, PoolsInOrder, [Next]_vars PROVE PoolsInOrder'
    OBVIOUS
  <2>1. CASE UNCHANGED vars
    BY <2>1 DEF vars, services, pools, PoolsInOrder, LeakedByR2
  <2> QED
    BY <2>1, StartKeepsPools, StopKeepsPools, RequestsKeepPools DEF Next, Lifespan, AtRest
<1>3. RuntimeInv /\ PoolsInOrder => StoppedIsOver
  <2> SUFFICES ASSUME RuntimeInv, PoolsInOrder PROVE StoppedIsOver
    OBVIOUS
  <2>1. ASSUME stage = "down", NEW q \in Request
        PROVE  task[q] \notin Live /\ req[q] \notin InFlight
    BY <2>1 DEF RuntimeInv, RequestHolds
  <2> QED
    BY <2>1 DEF StoppedIsOver, PoolsInOrder, LeakedByR2
<1> QED
  BY <1>1, <1>2, <1>3, TypeCorrect, RuntimeCorrect, PTL DEF Spec
=============================================================================
