------------------------- MODULE Acceptance_proofs -------------------------
(***************************************************************************)
(* Proofs about Acceptance, for every set of requests and keys, every      *)
(* route and every fault.                                                  *)
(***************************************************************************)
EXTENDS Acceptance, TLAPS

LEMMA Labels ==
  /\ Losing = {"delete_run", "lookup_again", "replay_conflict"}
  /\ Owning = {"prepare", "start", "insert_corpus", "close_typed", "probe",
               "close_probe", "fail_probe", "accept"}
  /\ Handling = {"insert_run", "insert_payload", "replay", "delete_run", "lookup_again",
                 "replay_conflict", "prepare", "start", "insert_corpus", "close_typed",
                 "probe", "close_probe", "fail_probe", "accept"}
  /\ PC = Handling \cup {"lookup", "done", "dead"}
  /\ Unbound = {"lookup", "insert_run", "insert_payload", "replay", "delete_run",
                "lookup_again", "replay_conflict"}
BY DEF Losing, Owning, Handling, PC, Unbound

LEMMA InitTypeOK == Init => TypeOK
BY AcceptanceAssumption, Labels DEF Init, TypeOK, Answers

-----------------------------------------------------------------------------
(* Type correctness. *)

LEMMA ReplyTypeOK ==
  ASSUME TypeOK, NEW r \in Request, NEW a \in Answers, NEW n \in Request \cup {NoRun},
         NEW s \in {"none", "absent", "running"} \cup Closed, Answer(r, a, n, s)
  PROVE  /\ reply' \in [Request -> [answer : Answers, run : Request \cup {NoRun},
                                    status : {"none", "absent", "running"} \cup Closed]]
         /\ pc' \in [Request -> PC]
<1>1. [answer |-> a, run |-> n, status |-> s]
        \in [answer : Answers, run : Request \cup {NoRun},
             status : {"none", "absent", "running"} \cup Closed]
  OBVIOUS
<1>2. "done" \in PC
  BY Labels
<1> QED
  BY <1>1, <1>2 DEF Answer, Goto, TypeOK

LEMMA ReplayTypeOK ==
  ASSUME TypeOK, NEW r \in Request, HandlerHolds(r), Replay(r) \/ ReplayConflict(r)
  PROVE  TypeOK'
<1> USE DEF db, process
<1>1. UNCHANGED <<route, key, db, process, found>>
  BY DEF Replay, ReplayConflict
<1>2. found[r] \in Request
  BY DEF Replay, ReplayConflict, HandlerHolds, TypeOK
<1>3. PICK a \in Answers, n \in Request \cup {NoRun},
           s \in {"none", "absent", "running"} \cup Closed : Answer(r, a, n, s)
  <2>1. run[found[r]] \in {"absent", "running"} \cup Closed
    BY <1>2 DEF TypeOK
  <2> QED
    BY <1>2, <2>1 DEF Replay, ReplayConflict, Silence, Answers
<1> QED
  BY <1>1, <1>3, ReplyTypeOK DEF TypeOK

LEMMA HandlerTypeOK ==
  ASSUME TypeOK, NEW r \in Request, HandlerHolds(r), Handler(r)
  PROVE  TypeOK'
<1> USE DEF db, process, Goto
<1>1. CASE Lookup(r)
  BY <1>1, Labels DEF Lookup, TypeOK
<1>2. CASE InsertRun(r) \/ DeleteRun(r) \/ LookupAgain(r) \/ Prepare(r) \/ CloseTyped(r)
  BY <1>2, Labels DEF InsertRun, DeleteRun, LookupAgain, Prepare, CloseTyped, TypeOK, Closed
<1>3. CASE SpawnTask(r) \/ StartInline(r) \/ StartProbe(r) \/ ProbeSucceeds(r) \/ ProbeRefused(r)
  BY <1>3, Labels DEF SpawnTask, StartInline, StartProbe, ProbeSucceeds, ProbeRefused, TypeOK
<1>4. CASE Raise(r) \/ InsertCorpus(r) \/ Accept(r)
  <2>1. /\ \E a \in Answers, n \in Request \cup {NoRun} : Answer(r, a, n, "none")
        /\ UNCHANGED <<route, key, db, process, found>>
    BY <1>4 DEF Raise, InsertCorpus, Accept, Silence, Answers
  <2> QED
    BY <2>1, ReplyTypeOK DEF TypeOK
<1>5. CASE CloseProbe(r)
  <2>1. /\ \E a \in Answers, n \in Request \cup {NoRun} : Answer(r, a, n, "none")
        /\ run' \in [Request -> {"absent", "running"} \cup Closed]
        /\ UNCHANGED <<route, key, bound, uploaded, process, found>>
    BY <1>5 DEF CloseProbe, Silence, Answers, Closed, TypeOK
  <2> QED
    BY <2>1, ReplyTypeOK DEF TypeOK
<1>6. CASE InsertPayload(r)
  <2>1. CASE Silence(r, "error")
    <3>1. bound' \in [Key -> Request \cup {NoRun}]
      BY <1>6 DEF InsertPayload, TypeOK
    <3>2. UNCHANGED <<route, key, run, uploaded, process, found>>
      BY <1>6 DEF InsertPayload
    <3> QED
      BY <2>1, <3>1, <3>2, ReplyTypeOK DEF Silence, Answers, TypeOK
  <2>2. CASE ~Silence(r, "error")
    BY <1>6, <2>2, Labels DEF InsertPayload, TypeOK
  <2> QED
    BY <2>1, <2>2
<1>7. CASE Replay(r) \/ ReplayConflict(r)
  BY <1>7, ReplayTypeOK
<1> QED
  BY <1>1, <1>2, <1>3, <1>4, <1>5, <1>6, <1>7 DEF Handler

LEMMA OutsideTypeOK ==
  ASSUME TypeOK,
         \/ \E r \in Request : TaskPublishes(r) \/ TaskEnds(r) \/ TaskLost(r)
         \/ Crash \/ Restart \/ UNCHANGED vars
  PROVE  TypeOK'
<1> USE DEF db, process
<1>1. CASE \E r \in Request : TaskPublishes(r) \/ TaskEnds(r) \/ TaskLost(r)
  BY <1>1 DEF TaskPublishes, TaskEnds, TaskLost, TypeOK, Closed
<1>2. CASE Crash
  BY <1>2, Labels DEF Crash, TypeOK
<1>3. CASE Restart \/ UNCHANGED vars
  BY <1>3 DEF Restart, TypeOK, vars
<1> QED
  BY <1>1, <1>2, <1>3

-----------------------------------------------------------------------------
(* What a step of one request, or of its task, leaves alone.               *)
Touches(r) ==
  /\ key' = key
  /\ \A q \in Request \ {r} :
       /\ pc'[q] = pc[q] /\ found'[q] = found[q] /\ reply'[q] = reply[q]
       /\ run'[q] = run[q]
       /\ q \in started' <=> q \in started
       /\ q \in working' <=> q \in working
  /\ \A k \in Key : bound'[k] = bound[k] \/ (k = key[r] /\ bound[k] = NoRun /\ bound'[k] = r)
  /\ run'[r] # run[r] => run[r] \notin Closed
  /\ run'[r] = "absent" => run[r] = "absent" \/ bound[key[r]] # r
  /\ bound'[key[r]] = r => run'[r] # "absent"

OwnHolds(r) ==
  /\ HandlerHolds(r) /\ WorkHolds(r) /\ ReplyHolds(r)
  /\ reply[r].status \in Closed => run[reply[r].run] = reply[r].status

LEMMA StepKeeps ==
  ASSUME TypeOK, KeyInv, NEW r \in Request, Touches(r), TypeOK', OwnHolds(r)'
  PROVE  KeyInv'
<1>1. NoRun \notin Request
  BY AcceptanceAssumption
<1>2. ASSUME NEW q \in Request, q # r
      PROVE  OwnHolds(q)'
  <2>1. HandlerHolds(q) /\ WorkHolds(q) /\ ReplyHolds(q) /\ KeyHolds(key[q])
        /\ key[q] \in Key /\ key[r] \in Key
        /\ (bound[key[q]] # NoRun => bound'[key[q]] = bound[key[q]])
        /\ (bound'[key[q]] # bound[key[q]] => bound'[key[q]] = r)
    BY DEF KeyInv, Touches, TypeOK
  <2>2. HandlerHolds(q)'
    BY <1>1, <1>2, <2>1, Labels DEF HandlerHolds, Touches
  <2>3. WorkHolds(q)'
    BY <1>1, <1>2, <2>1 DEF WorkHolds, Touches
  <2>4. ReplyHolds(q)'
    BY <1>1, <1>2, <2>1 DEF ReplyHolds, Touches
  <2>5. ASSUME reply'[q].status \in Closed
        PROVE  run'[reply'[q].run] = reply'[q].status
    <3>1. /\ reply'[q] = reply[q]
          /\ reply[q].run # NoRun
          /\ reply[q].run = bound[key[q]]
          /\ reply[q].run \in Request
          /\ run[reply[q].run] = reply[q].status
      BY <1>2, <2>1, <2>5 DEF Touches, ReplyHolds, Closed, KeyInv, VerdictStands, TypeOK
    <3>2. run'[reply[q].run] = run[reply[q].run]
      BY <2>5, <3>1 DEF Touches
    <3> QED
      BY <3>1, <3>2
  <2> QED
    BY <2>2, <2>3, <2>4, <2>5 DEF OwnHolds
<1>3. \A q \in Request : OwnHolds(q)'
  BY <1>2
<1>4. ASSUME NEW k \in Key, bound'[k] # NoRun
      PROVE  run'[bound'[k]] # "absent" /\ key'[bound'[k]] = k
  <2>1. CASE bound'[k] # bound[k]
    BY <2>1 DEF Touches
  <2>2. CASE bound'[k] = bound[k]
    <3>1. bound[k] \in Request /\ run[bound[k]] # "absent" /\ key[bound[k]] = k
      BY <1>4, <2>2 DEF KeyInv, KeyHolds, TypeOK
    <3>2. CASE bound[k] = r
      BY <2>2, <3>1, <3>2 DEF Touches
    <3>3. CASE bound[k] # r
      BY <2>2, <3>1, <3>3 DEF Touches
    <3> QED
      BY <3>2, <3>3
  <2> QED
    BY <2>1, <2>2
<1> QED
  BY <1>3, <1>4 DEF OwnHolds, KeyInv, KeyHolds, VerdictStands

LEMMA HandlerKeeps ==
  ASSUME TypeOK, KeyInv, NEW r \in Request, Handler(r)
  PROVE  Touches(r) /\ OwnHolds(r)'
<1>0. /\ OwnHolds(r) /\ KeyHolds(key[r]) /\ key[r] \in Key /\ NoRun \notin Request
      /\ bound[key[r]] \in Request \cup {NoRun} /\ pc[r] \in PC
      /\ (bound[key[r]] # NoRun => bound[key[r]] \in Request /\ run[bound[key[r]]] # "absent")
  BY AcceptanceAssumption DEF OwnHolds, KeyInv, KeyHolds, VerdictStands, TypeOK
<1> USE DEF db, process, Goto
<1>1. CASE Lookup(r)
  BY <1>0, <1>1, Labels DEF Lookup, Touches, OwnHolds, HandlerHolds, WorkHolds, ReplyHolds, TypeOK
<1>2. CASE InsertRun(r)
  BY <1>0, <1>2, Labels DEF InsertRun, Touches, OwnHolds, HandlerHolds, WorkHolds, ReplyHolds, KeyHolds, TypeOK, Closed
<1>3. CASE InsertPayload(r)
  BY <1>0, <1>3, Labels DEF InsertPayload, Silence, Answer, Touches, OwnHolds, HandlerHolds, WorkHolds, ReplyHolds, KeyHolds, TypeOK, Closed
<1>4. CASE DeleteRun(r) \/ LookupAgain(r)
  BY <1>0, <1>4, Labels DEF DeleteRun, LookupAgain, Touches, OwnHolds, HandlerHolds, WorkHolds, ReplyHolds, KeyHolds, TypeOK, Closed
<1>5. CASE Prepare(r) \/ CloseTyped(r)
  BY <1>0, <1>5, Labels DEF Prepare, CloseTyped, Touches, OwnHolds, HandlerHolds, WorkHolds, ReplyHolds, KeyHolds, TypeOK, Closed
<1>6. CASE SpawnTask(r) \/ StartInline(r) \/ StartProbe(r)
  BY <1>0, <1>6, Labels DEF SpawnTask, StartInline, StartProbe, Touches, OwnHolds, HandlerHolds, WorkHolds, ReplyHolds, KeyHolds, TypeOK, Closed
<1>7. CASE ProbeSucceeds(r) \/ ProbeRefused(r)
  BY <1>0, <1>7, Labels DEF ProbeSucceeds, ProbeRefused, Touches, OwnHolds, HandlerHolds, WorkHolds, ReplyHolds, KeyHolds, TypeOK, Closed
<1>8. CASE InsertCorpus(r) \/ Raise(r) \/ Accept(r)
  BY <1>0, <1>8, Labels DEF InsertCorpus, Raise, Accept, Silence, Answer, Touches, OwnHolds, HandlerHolds, WorkHolds, ReplyHolds, KeyHolds, TypeOK, Closed
<1>9. CASE CloseProbe(r)
  BY <1>0, <1>9, Labels DEF CloseProbe, Silence, Answer, Touches, OwnHolds, HandlerHolds, WorkHolds, ReplyHolds, KeyHolds, TypeOK, Closed
<1>10. CASE Replay(r) \/ ReplayConflict(r)
  BY <1>0, <1>10, Labels DEF Replay, ReplayConflict, Silence, Answer, Touches, OwnHolds, HandlerHolds, WorkHolds, ReplyHolds, KeyHolds, TypeOK, Closed
<1> QED
  BY <1>1, <1>2, <1>3, <1>4, <1>5, <1>6, <1>7, <1>8, <1>9, <1>10 DEF Handler

LEMMA TaskKeeps ==
  ASSUME TypeOK, KeyInv, NEW r \in Request, TaskPublishes(r) \/ TaskEnds(r) \/ TaskLost(r)
  PROVE  Touches(r) /\ OwnHolds(r)'
<1>0. /\ OwnHolds(r) /\ key[r] \in Key /\ NoRun \notin Request
      /\ bound[key[r]] = r
  BY AcceptanceAssumption DEF OwnHolds, KeyInv, VerdictStands, TypeOK, WorkHolds,
     TaskPublishes, TaskEnds, TaskLost
<1>1. reply[r].status \in Closed => run[r] \in Closed
  BY <1>0 DEF OwnHolds, ReplyHolds, Closed
<1> USE DEF db, process
<1>2. CASE TaskPublishes(r) \/ TaskLost(r)
  BY <1>0, <1>2, Labels DEF TaskPublishes, TaskLost, Touches, OwnHolds, HandlerHolds,
     WorkHolds, ReplyHolds, TypeOK
<1>3. CASE TaskEnds(r)
  <2>1. run[r] = "running" /\ reply[r].status \notin Closed
    BY <1>0, <1>1, <1>3 DEF TaskEnds, OwnHolds, WorkHolds, Closed
  <2> QED
    BY <1>0, <1>3, <2>1, Labels DEF TaskEnds, Touches, OwnHolds, HandlerHolds, WorkHolds,
       ReplyHolds, TypeOK, Closed
<1> QED
  BY <1>2, <1>3

LEMMA ProcessKeeps ==
  ASSUME TypeOK, KeyInv, Crash \/ Restart \/ UNCHANGED vars
  PROVE  KeyInv'
<1> USE DEF db, process
<1>1. CASE Crash
  <2>1. ASSUME NEW r \in Request
        PROVE  (HandlerHolds(r) /\ WorkHolds(r) /\ ReplyHolds(r))'
    <3>1. HandlerHolds(r) /\ WorkHolds(r) /\ ReplyHolds(r)
      BY DEF KeyInv
    <3>2. pc'[r] = IF pc[r] \in Handling THEN "dead" ELSE pc[r]
      BY <1>1 DEF Crash
    <3> QED
      BY <1>1, <3>1, <3>2, Labels DEF Crash, HandlerHolds, WorkHolds, ReplyHolds
  <2>2. ASSUME NEW k \in Key PROVE KeyHolds(k)'
    BY <1>1 DEF Crash, KeyInv, KeyHolds
  <2>3. VerdictStands'
    BY <1>1 DEF Crash, KeyInv, VerdictStands
  <2> QED
    BY <2>1, <2>2, <2>3 DEF KeyInv
<1>2. CASE Restart \/ UNCHANGED vars
  BY <1>2 DEF Restart, vars, KeyInv, HandlerHolds, WorkHolds, ReplyHolds, KeyHolds, VerdictStands
<1> QED
  BY <1>1, <1>2

LEMMA InitKeyInv == Init => KeyInv
BY AcceptanceAssumption, Labels DEF Init, KeyInv, HandlerHolds, WorkHolds, ReplyHolds, KeyHolds,
   VerdictStands, Closed

LEMMA NextKeeps ==
  ASSUME TypeOK, KeyInv, [Next]_vars
  PROVE  TypeOK' /\ KeyInv'
<1>1. ASSUME NEW r \in Request, Handler(r)
      PROVE  TypeOK' /\ KeyInv'
  <2>1. TypeOK'
    BY <1>1, HandlerTypeOK DEF KeyInv
  <2> QED
    BY <1>1, <2>1, HandlerKeeps, StepKeeps
<1>2. ASSUME NEW r \in Request, TaskPublishes(r) \/ TaskEnds(r) \/ TaskLost(r)
      PROVE  TypeOK' /\ KeyInv'
  <2>1. TypeOK'
    BY <1>2, OutsideTypeOK
  <2> QED
    BY <1>2, <2>1, TaskKeeps, StepKeeps
<1>3. CASE Crash \/ Restart \/ Quiescent \/ UNCHANGED vars
  BY <1>3, OutsideTypeOK, ProcessKeeps DEF Quiescent
<1> QED
  BY <1>1, <1>2, <1>3 DEF Next

LEMMA Invariants == Spec => [](TypeOK /\ KeyInv)
<1>1. Init => TypeOK /\ KeyInv
  BY InitTypeOK, InitKeyInv
<1>2. TypeOK /\ KeyInv /\ [Next]_vars => (TypeOK /\ KeyInv)'
  BY NextKeeps
<1> QED
  BY <1>1, <1>2, PTL DEF Spec

-----------------------------------------------------------------------------
(* Every variable stays in its domain.                                     *)
THEOREM TypeCorrect == Spec => []TypeOK
BY Invariants, PTL

(* Requests, runs, keys and answers agree at every label of every handler. *)
THEOREM KeysCorrect == Spec => []KeyInv
BY Invariants, PTL

(* A final status that a replay reported is never revised.                 *)
THEOREM VerdictsStand == Spec => []VerdictStands
<1>1. KeyInv => VerdictStands
  BY DEF KeyInv
<1> QED
  BY <1>1, KeysCorrect, PTL

(* The DELETE of a losing preview removes a run nobody holds the name of.  *)
THEOREM NamedRunsAlwaysExist == Spec => []NamedRunsExist
<1>1. TypeOK /\ KeyInv => NamedRunsExist
  <2> SUFFICES ASSUME TypeOK, KeyInv, NEW n \in Request, run[n] = "absent"
               PROVE  /\ n \notin started
                      /\ \A k \in Key : bound[k] # n
                      /\ \A r \in Request : reply[r].run # n
    BY DEF NamedRunsExist
  <2>1. \A k \in Key : bound[k] # n
    BY AcceptanceAssumption DEF KeyInv, KeyHolds
  <2>2. n \notin started
    BY <2>1 DEF KeyInv, WorkHolds, TypeOK
  <2>3. \A r \in Request : reply[r].run # n
    BY <2>1, AcceptanceAssumption DEF KeyInv, ReplyHolds, TypeOK
  <2> QED
    BY <2>1, <2>2, <2>3
<1> QED
  BY <1>1, Invariants, PTL

-----------------------------------------------------------------------------
(* The refinement. *)

Told == [r \in Request |-> reply[r].run]

LEMMA InitMaps == Init => Promise!Init
BY DEF Init, Promise!Init

LEMMA SilentSteps ==
  ASSUME UNCHANGED <<key, bound, started>>, \A q \in Request : reply'[q].run = reply[q].run
  PROVE  UNCHANGED Promise!promise
BY DEF Promise!promise

LEMMA TellMaps ==
  ASSUME TypeOK, KeyInv, NEW r \in Request, NEW a, NEW n \in Request, NEW s,
         Answer(r, a, n, s), n = bound[key[r]], UNCHANGED <<key, bound, started>>,
         pc[r] \notin {"done", "dead"}
  PROVE  Promise!Tell(r)
<1>1. bound[key[r]] # NoRun
  BY AcceptanceAssumption
<1>2. reply[r].run = NoRun
  BY DEF KeyInv, ReplyHolds
<1>3. Told' = [Told EXCEPT ![r] = bound[key[r]]]
  BY DEF Told, Answer, TypeOK
<1> QED
  BY <1>1, <1>2, <1>3 DEF Promise!Tell, Told

LEMMA StepMaps ==
  ASSUME TypeOK, KeyInv, [Next]_vars
  PROVE  [Promise!Next]_(Promise!promise)
<1> USE DEF db, process
<1>0. NoRun \notin Request
  BY AcceptanceAssumption
<1>1. ASSUME NEW r \in Request, NEW a, Silence(r, a), UNCHANGED <<key, bound, started>>,
             pc[r] \notin {"done", "dead"}
      PROVE  UNCHANGED Promise!promise
  <2>1. reply[r].run = NoRun /\ \A q \in Request : reply'[q].run = reply[q].run
    BY <1>1 DEF KeyInv, ReplyHolds, Silence, Answer, TypeOK
  <2> QED
    BY <1>1, <2>1, SilentSteps
<1>2. ASSUME NEW r \in Request, Handler(r)
      PROVE  Promise!Next \/ UNCHANGED Promise!promise
  <2>0. HandlerHolds(r) /\ WorkHolds(r)
    BY DEF KeyInv
  <2>1. CASE \/ Lookup(r) \/ InsertRun(r) \/ DeleteRun(r) \/ LookupAgain(r) \/ Prepare(r)
             \/ StartInline(r) \/ CloseTyped(r) \/ ProbeSucceeds(r) \/ ProbeRefused(r)
    BY <2>1, SilentSteps DEF Lookup, InsertRun, DeleteRun, LookupAgain, Prepare, StartInline,
       CloseTyped, ProbeSucceeds, ProbeRefused
  <2>2. CASE Raise(r) \/ InsertCorpus(r)
    BY <2>2, <1>1, Labels DEF Raise, InsertCorpus
  <2>3. CASE SpawnTask(r) \/ StartProbe(r)
    <3>1. Promise!Start(r)
      BY <2>0, <2>3, Labels DEF SpawnTask, StartProbe, HandlerHolds, Promise!Start
    <3> QED
      BY <3>1 DEF Promise!Next
  <2>4. CASE InsertPayload(r)
    <3>1. CASE bound[key[r]] = NoRun
      <4>1. Promise!Claim(r)
        BY <2>4, <3>1 DEF InsertPayload, Promise!Claim
      <4> QED
        BY <4>1 DEF Promise!Next
    <3>2. CASE bound[key[r]] # NoRun /\ Silence(r, "error")
      BY <2>4, <3>2, <1>1 DEF InsertPayload
    <3>3. CASE bound[key[r]] # NoRun /\ reply' = reply
      BY <2>4, <3>3, SilentSteps DEF InsertPayload
    <3> QED
      BY <2>4, <3>1, <3>2, <3>3 DEF InsertPayload
  <2>5. CASE Replay(r) \/ ReplayConflict(r)
    <3>1. CASE Answer(r, "replayed", found[r], run[found[r]])
      <4>1. found[r] \in Request /\ found[r] = bound[key[r]] /\ pc[r] \notin {"done", "dead"}
        BY <2>0, <2>5 DEF Replay, ReplayConflict, HandlerHolds, TypeOK
      <4>2. Promise!Tell(r)
        BY <2>5, <3>1, <4>1, TellMaps DEF Replay, ReplayConflict
      <4> QED
        BY <4>2 DEF Promise!Next
    <3>2. CASE \E a \in Answers : Silence(r, a)
      BY <2>5, <3>2, <1>1 DEF Replay, ReplayConflict
    <3> QED
      BY <2>5, <3>1, <3>2 DEF Replay, ReplayConflict, Answers
  <2>6. CASE Accept(r)
    <3>1. bound[key[r]] = r /\ pc[r] \notin {"done", "dead"}
      BY <2>0, <2>6, Labels DEF Accept, HandlerHolds
    <3>2. Promise!Tell(r)
      BY <2>6, <3>1, TellMaps DEF Accept
    <3> QED
      BY <3>2 DEF Promise!Next
  <2>7. CASE CloseProbe(r)
    <3>1. CASE Answer(r, "previewed", r, "none")
      <4>1. bound[key[r]] = r /\ pc[r] \notin {"done", "dead"}
        BY <2>0, <2>7, Labels DEF CloseProbe, HandlerHolds
      <4>2. Promise!Tell(r)
        BY <2>7, <3>1, <4>1, TellMaps DEF CloseProbe
      <4> QED
        BY <4>2 DEF Promise!Next
    <3>2. CASE Silence(r, "provider_error")
      BY <2>7, <3>2, <1>1 DEF CloseProbe
    <3> QED
      BY <2>7, <3>1, <3>2 DEF CloseProbe
  <2> QED
    BY <1>2, <2>1, <2>2, <2>3, <2>4, <2>5, <2>6, <2>7 DEF Handler
<1>3. CASE \/ \E r \in Request : TaskPublishes(r) \/ TaskEnds(r) \/ TaskLost(r)
           \/ Crash \/ Restart \/ Quiescent \/ UNCHANGED vars
  BY <1>3, SilentSteps DEF TaskPublishes, TaskEnds, TaskLost, Crash, Restart, Quiescent, vars
<1> QED
  BY <1>2, <1>3 DEF Next

(* One owner and one start of work per key, and one story for every caller *)
(* of it.                                                                  *)
THEOREM RoutesKeepKeys == Spec => KeepsKeys
<1>1. Init => Promise!Init
  BY InitMaps
<1>2. TypeOK /\ KeyInv /\ [Next]_vars => [Promise!Next]_(Promise!promise)
  BY StepMaps
<1> QED
  BY <1>1, <1>2, Invariants, PTL DEF Spec, KeepsKeys, Promise!Spec

-----------------------------------------------------------------------------
(* What follows for a consumer who sends a key again. *)

LEMMA NextTouches ==
  ASSUME TypeOK, KeyInv, Next, ~(Crash \/ Restart \/ Quiescent)
  PROVE  \E r \in Request : /\ Handler(r) \/ TaskPublishes(r) \/ TaskEnds(r) \/ TaskLost(r)
                            /\ Touches(r)
BY HandlerKeeps, TaskKeeps DEF Next

LEMMA RequestsStay == [Next]_vars => route' = route /\ key' = key
<1> USE DEF db, process
<1>1. ASSUME NEW r \in Request, Handler(r) PROVE route' = route /\ key' = key
  BY <1>1 DEF Handler, Lookup, Replay, InsertRun, InsertPayload, DeleteRun, LookupAgain,
     ReplayConflict, Prepare, SpawnTask, StartInline, InsertCorpus, CloseTyped, Accept,
     StartProbe, ProbeSucceeds, ProbeRefused, CloseProbe, Raise
<1> QED
  BY <1>1 DEF Next, TaskPublishes, TaskEnds, TaskLost, Crash, Restart, Quiescent, vars

(* However often a key is sent, by whatever route, one run is worked on,   *)
(* and everybody who is told of a run is told of that one.                 *)
THEOREM OneRunForEveryKey == Spec => []OneRunPerKey
<1>1. TypeOK /\ KeyInv => OneRunPerKey
  BY DEF TypeOK, KeyInv, WorkHolds, ReplyHolds, OneRunPerKey
<1> QED
  BY <1>1, Invariants, PTL

(* The strengthening of AbandonedByFault: what keeps the run of a request  *)
(* attended when nothing faults and no corpus row is to be inserted.       *)
Spared(r) ==
  /\ Faults \cap {"exception", "database", "cancel", "crash"} = {}
  /\ route[r] # "corpus_hero"

Attended(r) ==
  Spared(r) =>
    /\ pc[r] \notin {"dead", "insert_corpus"}
    /\ pc[r] \in {"accept", "done"} /\ bound[key[r]] = r /\ run[r] = "running" => r \in working

LEMMA HandlerAttends ==
  ASSUME TypeOK, KeyInv, NEW r \in Request, Attended(r), Handler(r)
  PROVE  Attended(r)'
<1>0. /\ HandlerHolds(r) /\ key[r] \in Key /\ pc[r] \in PC /\ NoRun \notin Request
      /\ route' = route /\ key' = key
  BY AcceptanceAssumption, RequestsStay DEF KeyInv, TypeOK, Next
<1> SUFFICES ASSUME Spared(r)
             PROVE  /\ pc'[r] \notin {"dead", "insert_corpus"}
                    /\ pc'[r] \in {"accept", "done"} /\ bound'[key[r]] = r /\ run'[r] = "running"
                         => r \in working'
  BY <1>0 DEF Attended, Spared
<1> USE <1>0 DEF Attended, Goto, db, process
<1>1. CASE Lookup(r) \/ InsertRun(r) \/ DeleteRun(r) \/ LookupAgain(r)
  BY <1>1 DEF Lookup, InsertRun, DeleteRun, LookupAgain, TypeOK
<1>2. CASE InsertPayload(r)
  BY <1>2, Labels DEF InsertPayload, HandlerHolds, Silence, Answer, TypeOK
<1>3. CASE Replay(r) \/ ReplayConflict(r)
  BY <1>3, Labels DEF Replay, ReplayConflict, HandlerHolds, Silence, Answer, TypeOK
<1>4. CASE Prepare(r) \/ SpawnTask(r) \/ StartInline(r) \/ CloseTyped(r)
  BY <1>4 DEF Prepare, SpawnTask, StartInline, CloseTyped, Spared, TypeOK
<1>5. CASE InsertCorpus(r) \/ Accept(r) \/ Raise(r)
  BY <1>5 DEF InsertCorpus, Accept, Raise, Spared, Silence, Answer, TypeOK
<1>6. CASE StartProbe(r) \/ ProbeSucceeds(r) \/ ProbeRefused(r) \/ CloseProbe(r)
  BY <1>6 DEF StartProbe, ProbeSucceeds, ProbeRefused, CloseProbe, Silence, Answer, TypeOK
<1> QED
  BY <1>1, <1>2, <1>3, <1>4, <1>5, <1>6 DEF Handler

LEMMA TaskAttends ==
  ASSUME TypeOK, KeyInv, NEW r \in Request, Attended(r),
         TaskPublishes(r) \/ TaskEnds(r) \/ TaskLost(r)
  PROVE  Attended(r)'
<1>1. CASE TaskPublishes(r)
  BY <1>1 DEF TaskPublishes, process, Attended, Spared
<1>2. CASE TaskEnds(r)
  <2>1. run'[r] # "running" /\ route' = route /\ pc' = pc
    BY <1>2 DEF TaskEnds, Closed, TypeOK
  <2> QED
    BY <2>1 DEF Attended, Spared
<1>3. CASE TaskLost(r)
  BY <1>3 DEF TaskLost, Attended, Spared
<1> QED
  BY <1>1, <1>2, <1>3

LEMMA StepAttends ==
  ASSUME TypeOK, KeyInv, \A q \in Request : Attended(q), [Next]_vars
  PROVE  \A q \in Request : Attended(q)'
<1>1. route' = route /\ key' = key
  BY RequestsStay
<1>2. CASE Next /\ ~(Crash \/ Restart \/ Quiescent)
  <2>1. PICK r \in Request : /\ Handler(r) \/ TaskPublishes(r) \/ TaskEnds(r) \/ TaskLost(r)
                             /\ Touches(r)
    BY <1>2, NextTouches
  <2>2. Attended(r)'
    BY <2>1, HandlerAttends, TaskAttends
  <2>3. ASSUME NEW q \in Request, q # r
        PROVE  Attended(q)'
    <3>1. /\ pc'[q] = pc[q] /\ run'[q] = run[q]
          /\ q \in working' <=> q \in working
          /\ bound'[key[q]] = q => bound[key[q]] = q
      BY <2>1, <2>3 DEF Touches, TypeOK
    <3> QED
      BY <1>1, <3>1 DEF Attended, Spared
  <2> QED
    BY <2>2, <2>3
<1>3. CASE Crash
  BY <1>3 DEF Crash, Attended, Spared
<1>4. CASE Restart \/ Quiescent \/ UNCHANGED vars
  BY <1>4 DEF Restart, Quiescent, vars, db, process, Attended, Spared
<1> QED
  BY <1>2, <1>3, <1>4 DEF Next

(* A key is abandoned only after a handler raised, the task's last UPDATE  *)
(* failed, the process died, or a corpus row was refused; refusals of a    *)
(* provider, lost races and replays never leave a run unattended.          *)
THEOREM KeysAreAbandonedByFaults == Spec => []AbandonedByFault
<1>1. Init => \A q \in Request : Attended(q)
  BY DEF Init, Attended
<1>2. TypeOK /\ KeyInv /\ (\A q \in Request : Attended(q)) /\ [Next]_vars
        => (\A q \in Request : Attended(q))'
  BY StepAttends
<1>3. (\A q \in Request : Attended(q)) => AbandonedByFault
  BY DEF Attended, Spared, Abandoned, AbandonedByFault
<1> QED
  BY <1>1, <1>2, <1>3, Invariants, PTL DEF Spec

LEMMA StaysAbandoned ==
  ASSUME TypeOK, KeyInv, Next, NEW r \in Request, Abandoned(r)
  PROVE  Abandoned(r)'
<1>0. bound[key[r]] = r /\ run[r] = "running" /\ pc[r] \in {"done", "dead"} /\ r \notin working
      /\ key[r] \in Key /\ r # NoRun
  BY AcceptanceAssumption DEF Abandoned, TypeOK
<1>1. CASE ~(Crash \/ Restart \/ Quiescent)
  <2>1. PICK q \in Request : /\ Handler(q) \/ TaskPublishes(q) \/ TaskEnds(q) \/ TaskLost(q)
                             /\ Touches(q)
    BY <1>1, NextTouches
  <2>2. q # r
    <3>1. ~Handler(r)
      BY <1>0, Labels DEF Handler, Lookup, Replay, InsertRun, InsertPayload, DeleteRun,
         LookupAgain, ReplayConflict, Prepare, SpawnTask, StartInline, InsertCorpus, CloseTyped,
         Accept, StartProbe, ProbeSucceeds, ProbeRefused, CloseProbe, Raise
    <3> QED
      BY <1>0, <2>1, <3>1 DEF TaskPublishes, TaskEnds, TaskLost
  <2> QED
    BY <1>0, <2>1, <2>2 DEF Touches, Abandoned
<1>2. CASE Crash
  BY <1>0, <1>2, Labels DEF Crash, db, Abandoned
<1>3. CASE Restart \/ Quiescent
  BY <1>0, <1>3 DEF Restart, Quiescent, vars, db, process, Abandoned
<1> QED
  BY <1>1, <1>2, <1>3

LEMMA OnlyRunningIsTold ==
  ASSUME TypeOK, KeyInv, KeyInv', Next, NEW r \in Request, Abandoned(r),
         NEW s \in Request, key[s] = key[r], reply[s].run = NoRun, reply'[s].run # NoRun
  PROVE  reply'[s].run = r /\ reply'[s].status \in {"none", "running"}
<1>1. PICK q \in Request : Handler(q) /\ Touches(q)
  <2>1. reply' # reply
    OBVIOUS
  <2> QED
    BY <2>1, HandlerKeeps DEF Next, TaskPublishes, TaskEnds, TaskLost, Crash, Restart, Quiescent, vars
<1>2. q = s
  BY <1>1 DEF Touches
<1>3. Abandoned(r)'
  BY StaysAbandoned
<1>4. reply'[s].run = r
  BY <1>3, RequestsStay DEF Abandoned, KeyInv, ReplyHolds
<1>5. HandlerHolds(s)
  BY DEF KeyInv
<1>6. \/ \E a \in Answers : Answer(s, a, s, "none")
      \/ found[s] = bound[key[s]] /\ Answer(s, "replayed", found[s], run[found[s]])
  <2>1. ~ \E a \in Answers : Silence(s, a)
    BY AcceptanceAssumption DEF Silence, Answer, TypeOK
  <2>2. reply' # reply
    OBVIOUS
  <2> QED
    BY <1>1, <1>2, <1>5, <2>1, <2>2 DEF Handler, HandlerHolds, Lookup, Replay, InsertRun,
       InsertPayload, DeleteRun, LookupAgain, ReplayConflict, Prepare, SpawnTask, StartInline,
       InsertCorpus, CloseTyped, Accept, StartProbe, ProbeSucceeds, ProbeRefused, CloseProbe,
       Raise, db, process, Answers
<1>7. run[bound[key[s]]] = "running"
  BY DEF Abandoned
<1>8. reply'[s].status \in {"none", "running"}
  BY <1>6, <1>7 DEF Answer, TypeOK
<1> QED
  BY <1>4, <1>8

(* An abandoned key stays abandoned, through restarts too, and every later *)
(* caller who sends it is told of a run that is still running.             *)
THEOREM AbandonedKeysStay == Spec => AbandonedForGood
<1>1. TypeOK /\ KeyInv /\ KeyInv' /\ [Next]_vars =>
        [\A r \in Request : Abandoned(r) =>
           /\ Abandoned(r)'
           /\ \A s \in Request : key[s] = key[r] /\ reply[s].run = NoRun /\ reply'[s].run # NoRun =>
                reply'[s].run = r /\ reply'[s].status \in {"none", "running"}]_vars
  BY StaysAbandoned, OnlyRunningIsTold
<1> QED
  BY <1>1, Invariants, PTL DEF Spec, AbandonedForGood
=============================================================================
