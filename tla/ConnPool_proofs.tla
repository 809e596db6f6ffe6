--------------------------- MODULE ConnPool_proofs ---------------------------
(***************************************************************************)
(* Proofs about ConnPool, for any number of connections, permits and tasks *)
(* and any handlers the tasks may be.                                      *)
(***************************************************************************)
EXTENDS ConnPool, FiniteSetTheorems, TLAPS

LEMMA BlocksShape ==
  ASSUME NEW n \in Nat
  PROVE  /\ Len(Blocks(n)) = n
         /\ \A i \in 1..n : Blocks(n)[i] = "single"
BY DEF Blocks

(* Only RegenerateSlot enters a block inside another.                      *)
LEMMA HandlerShape ==
  ASSUME NEW h \in Handlers
  PROVE  /\ Len(h.blocks) \in Nat
         /\ h.permit <= Len(h.blocks)
         /\ h # RegenerateSlot => \A i \in 1..Len(h.blocks) : h.blocks[i] = "single"
<1>1. ASSUME NEW n \in Nat, NEW p \in Nat, p <= n
      PROVE  /\ Len(Worker(n, p).blocks) = n /\ Worker(n, p).permit <= n
             /\ \A i \in 1..n : Worker(n, p).blocks[i] = "single"
  BY <1>1, BlocksShape DEF Worker
<1>2. ASSUME NEW n \in Nat
      PROVE  /\ Len(Handler(Blocks(n)).blocks) = n /\ Handler(Blocks(n)).permit <= n
             /\ \A i \in 1..n : Handler(Blocks(n)).blocks[i] = "single"
  BY <1>2, BlocksShape DEF Handler
<1>3. CASE h = RegenerateSlot
  BY <1>3 DEF RegenerateSlot, Handler
<1>4. CASE h \in {PackTask, SlotTask, VariantTask, TriadTask}
  BY <1>4, <1>1 DEF PackTask, SlotTask, VariantTask, TriadTask
<1>5. CASE h \in {AssetPack, HeroCandidates, StylePreview, PollRun, RegenerateVariant, TriadVariant, Sweep}
  BY <1>5, <1>2 DEF AssetPack, HeroCandidates, StylePreview, PollRun, RegenerateVariant, TriadVariant, Sweep
<1>6. CASE h \in {ListPage, DetailPage, GridPage, SlotPage, RegeneratePost, UnsupersedePost,
                  SoftDeletePost, CostPage, LabPoll, LabPage}
  BY <1>6, <1>2 DEF ListPage, DetailPage, GridPage, SlotPage, RegeneratePost, UnsupersedePost,
                    SoftDeletePost, CostPage, LabPoll, LabPage
<1> QED BY <1>3, <1>4, <1>5, <1>6 DEF Handlers

(* What is known of a task in its handler.                                 *)
LEMMA TaskShape ==
  ASSUME TypeOK, NEW t \in Task
  PROVE  /\ job[t] \in Handlers
         /\ Last(t) \in Nat
         /\ at[t] \in Nat /\ at[t] >= 1
         /\ job[t].permit <= Last(t)
         /\ at[t] \in 1..Last(t) /\ Block(t) = "nested" => job[t] = RegenerateSlot
<1>1. job[t] \in Handlers
  BY PoolAssumption DEF TypeOK
<1>2. at[t] \in Nat /\ at[t] >= 1
  BY DEF TypeOK
<1> QED BY <1>1, <1>2, HandlerShape DEF Last, Block

LEMMA InsideFinite ==
  ASSUME TypeOK
  PROVE  IsFiniteSet(inside) /\ Cardinality(inside) \in Nat
<1>1. IsFiniteSet(inside)
  BY FS_Subset, PoolAssumption DEF TypeOK
<1> QED BY <1>1, FS_CardinalityType

-----------------------------------------------------------------------------
(* A task that does nothing keeps what it has.                             *)
LEMMA OtherHolds ==
  ASSUME NEW q \in Task, TaskHolds(q), job' = job,
         label'[q] = label[q], at'[q] = at[q], Held(q)' = Held(q),
         q \in inside' <=> q \in inside
  PROVE  TaskHolds(q)'
BY DEF TaskHolds, Block, Last, Ended

(* Once a task advances it holds nothing, and a permit only before its end. *)
LEMMA AdvanceKeeps ==
  ASSUME PoolInv, NEW t \in Task, NEW block \in Nat \ {0}, Advance(t, block),
         owner' \in [Conn -> Task \cup {Nobody}],
         Held(t)' = {}, \A q \in Task : q # t => Held(q)' = Held(q)
  PROVE  PoolInv'
<1> USE DEF Advance, Goto
<1>1. TypeOK /\ \A q \in Task : TaskHolds(q)
  BY DEF PoolInv
<1>2. TypeOK'
  BY <1>1 DEF TypeOK, Label
<1>3. ASSUME NEW q \in Task PROVE TaskHolds(q)'
  <2>1. CASE q # t
    BY <2>1, <1>1, OtherHolds DEF TypeOK
  <2>2. CASE q = t
    <3>1. label'[t] = "between" /\ at'[t] = block /\ job' = job
      BY <1>1 DEF TypeOK
    <3>2. t \in inside' => ~(block > Last(t))
      OBVIOUS
    <3> QED BY <2>2, <3>1, <3>2 DEF TaskHolds, Ended, Last
  <2> QED BY <2>1, <2>2
<1>4. Cardinality(inside') <= Permits
  <2>1. IsFiniteSet(inside) /\ Cardinality(inside) \in Nat
    BY <1>1, InsideFinite
  <2>2. /\ IsFiniteSet(inside \ {t})
        /\ Cardinality(inside \ {t}) =
             IF t \in inside THEN Cardinality(inside) - 1 ELSE Cardinality(inside)
    BY <2>1, FS_RemoveElement
  <2>3. Cardinality(inside \ {t}) \in Nat
    BY <2>2, FS_CardinalityType
  <2>4. Cardinality(inside) <= Permits
    BY DEF PoolInv
  <2>5. CASE inside' = inside \ {t}
    BY <2>1, <2>2, <2>3, <2>4, <2>5, PoolAssumption
  <2>6. CASE inside' = inside
    BY <2>4, <2>6
  <2> QED BY <2>5, <2>6
<1> QED BY <1>2, <1>3, <1>4 DEF PoolInv

LEMMA GiveAllKeeps ==
  ASSUME TypeOK, NEW t \in Task, GiveAll(t)
  PROVE  /\ owner' \in [Conn -> Task \cup {Nobody}]
         /\ Held(t)' = {}
         /\ \A q \in Task : q # t => Held(q)' = Held(q)
BY PoolAssumption DEF TypeOK, GiveAll, Held

(* A step that moves only the label of t and what t holds. *)
LEMMA LabelKeeps ==
  ASSUME PoolInv, NEW t \in Task, NEW l \in Label, Goto(t, l),
         UNCHANGED <<job, at, inside>>, owner' \in [Conn -> Task \cup {Nobody}],
         \A q \in Task : q # t => Held(q)' = Held(q),
         TaskHolds(t)'
  PROVE  PoolInv'
<1>1. TypeOK /\ \A q \in Task : TaskHolds(q)
  BY DEF PoolInv
<1>2. TypeOK'
  BY <1>1 DEF TypeOK, Goto
<1>3. ASSUME NEW q \in Task, q # t PROVE TaskHolds(q)'
  BY <1>1, <1>3, OtherHolds DEF Goto, TypeOK
<1> QED BY <1>2, <1>3 DEF PoolInv

LEMMA EnterKeeps ==
  ASSUME PoolInv, NEW t \in Task, Enter(t)
  PROVE  PoolInv'
<1> USE DEF Enter, NeedsPermit
<1>1. TypeOK /\ \A q \in Task : TaskHolds(q)
  BY DEF PoolInv
<1>2. TypeOK'
  BY <1>1 DEF TypeOK
<1>3. ASSUME NEW q \in Task PROVE TaskHolds(q)'
  <2>1. Held(q)' = Held(q)
    BY DEF Held
  <2>2. CASE q # t
    BY <2>1, <2>2, <1>1, OtherHolds
  <2>3. CASE q = t
    <3>1. ~Ended(t)
      BY <1>1, TaskShape DEF Ended
    <3> QED BY <3>1, <2>1, <2>3, <1>1 DEF TaskHolds, Block, Last, Ended
  <2> QED BY <2>2, <2>3
<1>4. Cardinality(inside') <= Permits
  <2>1. Cardinality(inside \cup {t}) = Cardinality(inside) + 1
    BY <1>1, InsideFinite, FS_AddElement
  <2> QED BY <2>1, <1>1, InsideFinite, PoolAssumption
<1> QED BY <1>2, <1>3, <1>4 DEF PoolInv

LEMMA AskKeeps ==
  ASSUME PoolInv, NEW t \in Task, Ask(t) \/ AskWithin(t)
  PROVE  PoolInv'
<1>1. TypeOK /\ TaskHolds(t)
  BY DEF PoolInv
<1>2. /\ \A q \in Task : Held(q)' = Held(q)
      /\ owner' \in [Conn -> Task \cup {Nobody}]
  BY <1>1 DEF Ask, AskWithin, Held, TypeOK
<1>3. CASE Ask(t)
  <2>1. at[t] \in 1..Last(t)
    BY <1>1, <1>3, TaskShape DEF Ask, Ended
  <2>2. TaskHolds(t)'
    BY <2>1, <1>1, <1>2, <1>3 DEF Ask, Goto, TaskHolds, TypeOK, Block, Last, Ended
  <2> QED BY <2>2, <1>2, <1>3, LabelKeeps DEF Ask, Label
<1>4. CASE AskWithin(t)
  <2>2. TaskHolds(t)'
    BY <1>1, <1>2, <1>4 DEF AskWithin, Goto, TaskHolds, TypeOK, Block, Last, Ended
  <2> QED BY <2>2, <1>2, <1>4, LabelKeeps DEF AskWithin, Label
<1> QED BY <1>3, <1>4

LEMMA TakeKeeps ==
  ASSUME PoolInv, NEW t \in Task, Take(t)
  PROVE  PoolInv'
<1>1. TypeOK /\ TaskHolds(t)
  BY DEF PoolInv
<1>2. PICK c \in Free : owner' = [owner EXCEPT ![c] = t]
  BY DEF Take
<1>3. /\ c \in Conn /\ owner[c] = Nobody
      /\ owner' \in [Conn -> Task \cup {Nobody}]
      /\ Held(t)' = Held(t) \cup {c} /\ c \notin Held(t)
      /\ \A q \in Task : q # t => Held(q)' = Held(q)
  BY <1>1, <1>2, PoolAssumption DEF Free, Held, TypeOK
<1>4. CASE label[t] = "waits" /\ Goto(t, "used")
  <2>1. Held(t)' = {c} /\ label'[t] = "used"
    BY <1>1, <1>3, <1>4 DEF TaskHolds, Goto, TypeOK
  <2>2. TaskHolds(t)'
    BY <2>1, <1>1, <1>3, <1>4 DEF Take, TaskHolds, Block, Last, Ended
  <2> QED BY <2>2, <1>3, <1>4, LabelKeeps DEF Take, Label
<1>5. CASE label[t] = "waits_within" /\ Goto(t, "used_within")
  <2>1. PICK d \in Conn : Held(t) = {d}
    BY <1>1, <1>5 DEF TaskHolds
  <2>2. Held(t)' = {d, c} /\ c # d /\ label'[t] = "used_within"
    BY <2>1, <1>1, <1>3, <1>5 DEF Goto, TypeOK
  <2>3. TaskHolds(t)'
    BY <2>2, <1>1, <1>3, <1>5 DEF Take, TaskHolds, Block, Last, Ended
  <2> QED BY <2>3, <1>3, <1>5, LabelKeeps DEF Take, Label
<1> QED BY <1>4, <1>5 DEF Take

LEMMA GiveWithinKeeps ==
  ASSUME PoolInv, NEW t \in Task, GiveWithin(t)
  PROVE  PoolInv'
<1>1. TypeOK /\ TaskHolds(t)
  BY DEF PoolInv
<1>2. PICK c \in Held(t) : owner' = [owner EXCEPT ![c] = Nobody]
  BY DEF GiveWithin
<1>3. /\ owner' \in [Conn -> Task \cup {Nobody}]
      /\ Held(t)' = Held(t) \ {c}
      /\ \A q \in Task : q # t => Held(q)' = Held(q)
  BY <1>1, <1>2, PoolAssumption DEF Held, TypeOK
<1>4. PICK d, e \in Conn : d # e /\ Held(t) = {d, e}
  BY <1>1 DEF GiveWithin, TaskHolds
<1>5. \E x \in Conn : Held(t)' = {x}
  BY <1>2, <1>3, <1>4
<1>6. TaskHolds(t)'
  BY <1>1, <1>5 DEF GiveWithin, Goto, TaskHolds, TypeOK, Block, Last, Ended
<1> QED BY <1>3, <1>6, LabelKeeps DEF GiveWithin, Label

LEMMA AdvanceSteps ==
  ASSUME PoolInv, NEW t \in Task, Give(t) \/ Pass(t) \/ LeaveEarly(t)
  PROVE  PoolInv'
<1>1. TypeOK /\ TaskHolds(t)
  BY DEF PoolInv
<1>2. at[t] + 1 \in Nat \ {0} /\ Exit(t) \in Nat \ {0}
  BY <1>1, TaskShape DEF Exit
<1>3. CASE Give(t)
  BY <1>1, <1>2, <1>3, GiveAllKeeps, AdvanceKeeps DEF Give
<1>4. CASE Pass(t)
  <2>1. owner' \in [Conn -> Task \cup {Nobody}] /\ \A q \in Task : Held(q)' = Held(q)
    BY <1>1, <1>4 DEF Pass, Held, TypeOK
  <2>2. Held(t) = {}
    BY <1>1, <1>4 DEF Pass, TaskHolds
  <2> QED BY <2>1, <2>2, <1>2, <1>4, AdvanceKeeps DEF Pass
<1>5. CASE LeaveEarly(t)
  BY <1>1, <1>2, <1>5, GiveAllKeeps, AdvanceKeeps DEF LeaveEarly
<1> QED BY <1>3, <1>4, <1>5

-----------------------------------------------------------------------------
(* Connections and permits are with the tasks that should have them, for   *)
(* any pool: every way out of a block gives back what was taken.           *)
THEOREM PoolCorrect == Spec => []PoolInv
<1>1. Init => PoolInv
  <2> SUFFICES ASSUME Init PROVE PoolInv
    OBVIOUS
  <2>1. TypeOK
    BY DEF Init, TypeOK, Label
  <2>2. ASSUME NEW t \in Task PROVE TaskHolds(t)
    BY PoolAssumption DEF Init, TaskHolds, Held
  <2>3. Cardinality(inside) <= Permits
    BY FS_EmptySet, PoolAssumption DEF Init
  <2> QED BY <2>1, <2>2, <2>3 DEF PoolInv
<1>2. PoolInv /\ [Next]_vars => PoolInv'
  <2> SUFFICES ASSUME PoolInv, [Next]_vars PROVE PoolInv'
    OBVIOUS
  <2>1. ASSUME NEW t \in Task, Step(t) PROVE PoolInv'
    BY <2>1, EnterKeeps, AskKeeps, TakeKeeps, GiveWithinKeeps, AdvanceSteps DEF Step
  <2>2. CASE UNCHANGED vars
    BY <2>2 DEF vars, PoolInv, TypeOK, TaskHolds, Held, Block, Last, Ended
  <2> QED BY <2>1, <2>2 DEF Next
<1> QED BY <1>1, <1>2, PTL DEF Spec

(* Who holds a connection and waits is a request to regenerate a slot, and *)
(* holds one: so a pool that is stuck has at most as many connections as   *)
(* there are such requests.                                                *)
LEMMA StuckHolders ==
  ASSUME PoolInv, Stuck
  PROVE  Cardinality(Conn) <= Cardinality({t \in Task : job[t] = RegenerateSlot})
<1> DEFINE R == {t \in Task : job[t] = RegenerateSlot}
<1>1. TypeOK /\ \A t \in Task : TaskHolds(t)
  BY DEF PoolInv
<1>2. ASSUME NEW c \in Conn
      PROVE  owner[c] \in R /\ \A d \in Conn : owner[d] = owner[c] => d = c
  <2> DEFINE t == owner[c]
  <2>1. t \in Task /\ c \in Held(t)
    BY <1>1 DEF Stuck, TypeOK, Held
  <2>2. label[t] = "waits_within"
    BY <2>1, <1>1 DEF Stuck, TaskHolds
  <2>3. PICK e \in Conn : Held(t) = {e}
    BY <2>1, <2>2, <1>1 DEF TaskHolds
  <2>4. at[t] \in 1..Last(t) /\ Block(t) = "nested"
    BY <2>1, <2>2, <1>1 DEF TaskHolds
  <2>5. job[t] = RegenerateSlot
    BY <2>1, <2>4, <1>1, TaskShape
  <2> QED BY <2>1, <2>3, <2>5 DEF Held
<1>3. owner \in Injection(Conn, R)
  BY <1>1, <1>2 DEF Injection, IsInjective, TypeOK
<1>4. IsFiniteSet(R)
  BY FS_Subset, PoolAssumption
<1> QED BY <1>3, <1>4, FS_Injection

(* The pool survives whatever is asked of it, if fewer regenerations than  *)
(* connections are asked for at the same time.                             *)
THEOREM PoolAlwaysSurvives == Spec => []PoolSurvives
<1>1. PoolInv => PoolSurvives
  <2> SUFFICES ASSUME PoolInv, Stuck,
                      Cardinality({t \in Task : job[t] = RegenerateSlot}) < Cardinality(Conn)
               PROVE  FALSE
    BY DEF PoolSurvives
  <2>1. IsFiniteSet({t \in Task : job[t] = RegenerateSlot})
    BY FS_Subset, PoolAssumption
  <2> QED BY <2>1, StuckHolders, FS_CardinalityType, PoolAssumption
<1> QED BY <1>1, PoolCorrect, PTL

(* Nothing ends a deadlock of the pool: no acquire has a timeout, and who  *)
(* waits cannot give back what it holds.                                   *)
THEOREM StuckForGood == Spec => [][Stuck => Stuck']_vars
<1>1. PoolInv /\ [Next]_vars => [Stuck => Stuck']_vars
  <2> SUFFICES ASSUME PoolInv, Next, Stuck PROVE Stuck'
    BY DEF Stuck, vars
  <2>1. PICK t \in Task : Step(t)
    BY DEF Next
  <2>2. TypeOK /\ TaskHolds(t)
    BY DEF PoolInv
  <2>3. Free = {}
    BY DEF Stuck, Free
  <2>4. CASE Held(t) = {}
    <3>1. \A c \in Conn : owner[c] # t
      BY <2>4 DEF Held
    <3>2. owner' = owner
      <4>1. CASE Enter(t) \/ Ask(t) \/ AskWithin(t) \/ Pass(t)
        BY <4>1 DEF Enter, Ask, AskWithin, Pass
      <4>2. CASE Take(t)
        BY <4>2, <2>3 DEF Take
      <4>3. CASE GiveWithin(t)
        BY <4>3, <2>4 DEF GiveWithin
      <4>4. CASE Give(t) \/ LeaveEarly(t)
        BY <4>4, <3>1, <2>2 DEF Give, LeaveEarly, GiveAll, TypeOK
      <4> QED BY <4>1, <4>2, <4>3, <4>4, <2>1 DEF Step
    <3>3. \A q \in Task : q # t => label'[q] = label[q]
      BY <2>1, <2>2 DEF Step, Enter, Ask, Take, AskWithin, GiveWithin, Give, Pass, LeaveEarly,
                        Advance, Goto, TypeOK
    <3> QED BY <3>1, <3>2, <3>3, <2>2 DEF Stuck, TypeOK
  <2>5. CASE Held(t) # {}
    <3>1. label[t] = "waits_within"
      BY <2>5, <2>2 DEF Held, Stuck, TaskHolds
    <3> QED BY <3>1, <2>1, <2>3 DEF Step, Enter, Ask, Take, AskWithin, GiveWithin, Give, Pass,
                                    LeaveEarly, AtWork
  <2> QED BY <2>4, <2>5
<1> QED BY <1>1, PoolCorrect, PTL DEF Spec

-----------------------------------------------------------------------------
(* What a task at a block can do.                                          *)
LEMMA AtBlock ==
  ASSUME TypeOK, NEW t \in Task, TaskHolds(t)
  PROVE  /\ at[t] \in Nat /\ at[t] >= 1 /\ Last(t) \in Nat
         /\ Ended(t) <=> at[t] >= Last(t) + 1
         /\ Ended(t) => label[t] = "between" /\ t \notin inside /\ ~NeedsPermit(t)
<1>1. at[t] \in Nat /\ at[t] >= 1 /\ Last(t) \in Nat /\ job[t].permit <= Last(t)
  BY TaskShape
<1>2. job[t].permit \in Nat
  <2>1. \A h \in Handlers : h.permit \in Nat
    BY DEF Handlers, AssetPack, HeroCandidates, StylePreview, PollRun, RegenerateVariant,
       RegenerateSlot, PackTask, SlotTask, VariantTask, TriadTask, TriadVariant, Sweep, ListPage,
       DetailPage, GridPage, SlotPage, RegeneratePost, UnsupersedePost, SoftDeletePost, CostPage,
       LabPoll, LabPage, Handler, Worker
  <2> QED BY <2>1, TaskShape
<1>3. Ended(t) <=> at[t] >= Last(t) + 1
  BY <1>1 DEF Ended
<1>4. ASSUME Ended(t)
      PROVE  label[t] = "between" /\ t \notin inside /\ ~NeedsPermit(t)
  <2>1. at[t] \notin 1..Last(t)
    BY <1>1, <1>3, <1>4
  <2>2. label[t] = "between" /\ t \notin inside
    BY <2>1, <1>4 DEF TaskHolds
  <2>3. at[t] # job[t].permit
    BY <1>1, <1>2, <1>3, <1>4
  <2> QED BY <2>2, <2>3 DEF NeedsPermit
<1> QED BY <1>1, <1>3, <1>4

(* Somebody with a permit is not asking for one: if nobody can move, one   *)
(* who works or, with permits to spare, one who has not ended waits for a  *)
(* connection; so none is free, and who has one waits for another.         *)
LEMMA NobodyMoves ==
  ASSUME PoolInv, NEW t \in Task, ~Ended(t), \A q \in Task : ~CanMove(q)
  PROVE  Stuck
<1>1. TypeOK /\ (\A q \in Task : TaskHolds(q) /\ label[q] \in Label) /\ Cardinality(inside) <= Permits
  BY DEF PoolInv, TypeOK
<1>2. \A q \in Task : label[q] \in {"between", "waits", "waits_within"}
  BY <1>1 DEF Label, CanMove
<1>3. PICK q \in Task : label[q] \in {"waits", "waits_within"}
  <2>1. CASE Cardinality(inside) < Permits
    BY <2>1, <1>2 DEF CanMove
  <2>2. CASE ~(Cardinality(inside) < Permits)
    <3>1. IsFiniteSet(inside) /\ Cardinality(inside) \in Nat
      BY <1>1, InsideFinite
    <3>2. inside # {}
      BY <3>1, <2>2, FS_EmptySet, PoolAssumption
    <3>3. PICK q \in inside : TRUE
      BY <3>2
    <3>4. q \in Task /\ ~Ended(q) /\ ~NeedsPermit(q)
      BY <3>3, <1>1 DEF TypeOK, TaskHolds, NeedsPermit
    <3> QED BY <3>4, <1>2 DEF CanMove
  <2> QED BY <2>1, <2>2
<1>4. Free = {}
  BY <1>3 DEF CanMove
<1>5. ASSUME NEW c \in Conn
      PROVE  owner[c] # Nobody /\ label[owner[c]] \in {"waits", "waits_within"}
  <2>1. owner[c] # Nobody /\ owner[c] \in Task
    BY <1>1, <1>4 DEF Free, TypeOK
  <2>2. Held(owner[c]) # {}
    BY DEF Held
  <2>3. label[owner[c]] # "between"
    BY <2>1, <2>2, <1>1 DEF TaskHolds
  <2> QED BY <2>1, <2>3, <1>2
<1> QED BY <1>5 DEF Stuck

(* Nothing but nested blocks can exhaust the service: whatever handlers    *)
(* run beside one another, there is a task that can go on.                 *)
THEOREM SomebodyAlwaysMoves == Spec => []SomebodyMoves
<1>1. PoolInv => SomebodyMoves
  BY NobodyMoves DEF SomebodyMoves
<1> QED BY <1>1, PoolCorrect, PTL

(* A step of another task. *)
LEMMA OthersLeft ==
  ASSUME NEW t \in Task, job' = job, label'[t] = label[t], at'[t] = at[t],
         t \in inside' <=> t \in inside
  PROVE  StepsLeft(t)' = StepsLeft(t)
BY DEF StepsLeft, Ended, Last

LEMMA LeftIsNat ==
  ASSUME TypeOK, NEW t \in Task, TaskHolds(t)
  PROVE  StepsLeft(t) \in Nat
<1>1. LabelPlace(label[t]) \in 0..5
  BY DEF LabelPlace, TypeOK, Label
<1>2. /\ at[t] \in Nat /\ Last(t) \in Nat
      /\ Ended(t) <=> at[t] >= Last(t) + 1
  BY AtBlock
<1> QED BY <1>1, <1>2 DEF StepsLeft

(* A step that leaves the block. *)
LEMMA AdvanceLeft ==
  ASSUME TypeOK, NEW t \in Task, TaskHolds(t), ~Ended(t),
         NEW block \in Nat, block >= at[t] + 1, Advance(t, block)
  PROVE  StepsLeft(t)' < StepsLeft(t)
<1>1. /\ at[t] \in Nat /\ Last(t) \in Nat
      /\ Ended(t) <=> at[t] >= Last(t) + 1
  BY AtBlock
<1>2. /\ job' = job /\ at'[t] = block /\ label'[t] = "between"
      /\ Last(t)' = Last(t)
      /\ Ended(t)' <=> block >= Last(t) + 1
  BY <1>1 DEF Advance, Goto, TypeOK, Last, Ended
<1>3. LabelPlace(label[t]) \in 0..5 /\ LabelPlace(label[t])' = 0
  BY <1>2 DEF LabelPlace, TypeOK, Label
<1> QED BY <1>1, <1>2, <1>3 DEF StepsLeft

(* A step within it. *)
LEMMA WithinLeft ==
  ASSUME TypeOK, NEW t \in Task, TaskHolds(t), ~Ended(t), UNCHANGED <<job, at>>,
         \/ /\ LabelPlace(label'[t]) = LabelPlace(label[t]) + 1
            /\ t \in inside' <=> t \in inside
         \/ label'[t] = label[t] /\ t \notin inside /\ t \in inside'
  PROVE  StepsLeft(t)' < StepsLeft(t)
<1>1. /\ at[t] \in Nat /\ Last(t) \in Nat
      /\ Last(t)' = Last(t) /\ at'[t] = at[t]
  BY AtBlock DEF Last
<1>2. LabelPlace(label[t]) \in 0..5 /\ LabelPlace(label[t])' = LabelPlace(label'[t])
  BY DEF LabelPlace, TypeOK, Label
<1>3. ~Ended(t)'
  BY DEF Ended, Last
<1> QED BY <1>1, <1>2, <1>3 DEF StepsLeft

LEMMA StepTakesOne ==
  ASSUME TypeOK, NEW t \in Task, TaskHolds(t), Step(t)
  PROVE  StepsLeft(t)' < StepsLeft(t)
<1>1. /\ at[t] \in Nat /\ Last(t) \in Nat /\ label[t] \in Label
      /\ Ended(t) => label[t] = "between" /\ t \notin inside /\ ~NeedsPermit(t)
  BY AtBlock DEF TypeOK
<1>2. ~Ended(t)
  BY <1>1 DEF Step, Enter, Ask, Take, AskWithin, GiveWithin, Give, Pass, LeaveEarly, AtWork
<1>3. CASE Enter(t)
  BY <1>2, <1>3, WithinLeft DEF Enter, NeedsPermit
<1>4. CASE Ask(t) \/ Take(t) \/ AskWithin(t) \/ GiveWithin(t)
  <2>1. LabelPlace(label'[t]) = LabelPlace(label[t]) + 1
    BY <1>4 DEF Ask, Take, AskWithin, GiveWithin, Goto, LabelPlace, TypeOK
  <2> QED BY <2>1, <1>2, <1>4, WithinLeft DEF Ask, Take, AskWithin, GiveWithin
<1>5. CASE Give(t) \/ Pass(t)
  BY <1>1, <1>2, <1>5, AdvanceLeft DEF Give, Pass
<1>6. CASE LeaveEarly(t)
  <2>1. Exit(t) \in Nat /\ Exit(t) >= at[t] + 1
    BY <1>1, <1>2 DEF Exit, Ended
  <2> QED BY <2>1, <1>2, <1>6, AdvanceLeft DEF LeaveEarly
<1> QED BY <1>3, <1>4, <1>5, <1>6 DEF Step

(* Every task makes at most eight steps per block of its handler, whatever *)
(* the others do; with SomebodyAlwaysMoves, a pool that never gets stuck   *)
(* comes to the end of all it was asked.                                   *)
THEOREM TasksAreFinite == Spec => StepsAreCounted
<1> DEFINE Counted == \A t \in Task : /\ StepsLeft(t) \in Nat
                                      /\ StepsLeft(t)' <= StepsLeft(t)
                                      /\ Step(t) => StepsLeft(t)' < StepsLeft(t)
<1>1. PoolInv /\ PoolInv' /\ [Next]_vars => [Counted]_vars
  <2> SUFFICES ASSUME PoolInv, PoolInv', Next, NEW t \in Task
               PROVE  /\ StepsLeft(t) \in Nat
                      /\ StepsLeft(t)' <= StepsLeft(t)
                      /\ Step(t) => StepsLeft(t)' < StepsLeft(t)
    BY DEF vars
  <2>1. TypeOK /\ TaskHolds(t) /\ StepsLeft(t) \in Nat
    BY LeftIsNat DEF PoolInv
  <2>2. StepsLeft(t)' \in Nat
    <3>1. TypeOK' /\ TaskHolds(t)'
      BY DEF PoolInv
    <3>2. LabelPlace(label'[t]) \in 0..5
      BY <3>1 DEF LabelPlace, TypeOK, Label
    <3>3. at'[t] \in Nat
      BY <3>1 DEF TypeOK
    <3>4. Last(t)' \in Nat
      BY <3>1, HandlerShape, PoolAssumption DEF TypeOK, Last
    <3> QED BY <3>2, <3>3, <3>4 DEF StepsLeft, Ended
  <2>3. Step(t) => StepsLeft(t)' < StepsLeft(t)
    BY <2>1, StepTakesOne
  <2>4. PICK q \in Task : Step(q)
    BY DEF Next
  <2>5. CASE q # t
    <3>1. /\ job' = job /\ label'[t] = label[t] /\ at'[t] = at[t]
          /\ t \in inside' <=> t \in inside
      BY <2>4, <2>5, <2>1 DEF Step, Enter, Ask, Take, AskWithin, GiveWithin, Give, Pass, LeaveEarly,
                              Advance, Goto, TypeOK
    <3>2. StepsLeft(t)' = StepsLeft(t)
      BY <3>1, OthersLeft
    <3> QED BY <3>2, <2>1, <2>3
  <2> QED BY <2>1, <2>2, <2>3, <2>4, <2>5
<1>2. Spec => [][Counted]_vars
  BY <1>1, PoolCorrect, PTL DEF Spec
<1> QED BY <1>2 DEF StepsAreCounted
=============================================================================
