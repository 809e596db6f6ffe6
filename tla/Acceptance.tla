---------------------------- MODULE Acceptance ----------------------------
(***************************************************************************)
(* The three routes that take an idempotency key, from the lookup of the   *)
(* key to the reply: POST /images/asset-pack/generate,                     *)
(* /images/hero-candidates/generate and /images/style-profile/preview.     *)
(* They share one table of keys; each handles a key it has seen, and a key *)
(* it loses the race for, in a way of its own. A run is named by the       *)
(* request that inserted it. What the started workers do is PackWorker and *)
(* HeroTriad; here they publish, and close their run or are lost.          *)
(***************************************************************************)
EXTENDS FiniteSets

CONSTANTS
  Request, Key,
  Routes,   \* what the requests ask for, see AllRoutes
  Faults,   \* "provider", "exception", "database", "cancel", "crash"
  NoRun

(* A hero request is generated live, served from the taste corpus, or, for *)
(* an archetype without a photograph, answered by its decision alone.      *)
Hero == {"live_hero", "corpus_hero", "typed_hero"}
AllRoutes == {"pack", "preview"} \cup Hero

ASSUME AcceptanceAssumption ==
  /\ NoRun \notin Request
  /\ Routes \subseteq AllRoutes

VARIABLES
  route, key,   \* what each request asks for
  run,          \* agent_runs.status
  bound,        \* image_request_payloads: the run a key was inserted with
  uploaded,     \* the runs with an uploaded asset
  started,      \* the runs a task was created or a provider called for
  working,      \* the runs whose task is alive
  up, pc,
  found,        \* the run the lookup returned
  reply         \* what the caller was answered, the run and status it names

db == <<run, bound, uploaded>>
process == <<started, working, up>>
vars == <<route, key, db, process, pc, found, reply>>

Closed == {"ok", "failed"}
Losing == {"delete_run", "lookup_again", "replay_conflict"}
Owning == {"prepare", "start", "insert_corpus", "close_typed", "probe",
           "close_probe", "fail_probe", "accept"}
Handling == {"insert_run", "insert_payload", "replay"} \cup Losing \cup Owning
PC == Handling \cup {"lookup", "done", "dead"}
Answers == {"none", "accepted", "replayed", "previewed", "incomplete",
            "provider_error", "error"}

Goto(r, label) == pc' = [pc EXCEPT ![r] = label]

Answer(r, a, named, status) ==
  /\ reply' = [reply EXCEPT ![r] = [answer |-> a, run |-> named, status |-> status]]
  /\ Goto(r, "done")

Silence(r, a) == Answer(r, a, NoRun, "none")

Init ==
  /\ route \in [Request -> Routes]
  /\ key \in [Request -> Key]
  /\ run = [r \in Request |-> "absent"]
  /\ bound = [k \in Key |-> NoRun]
  /\ uploaded = {} /\ started = {} /\ working = {}
  /\ up = TRUE
  /\ pc = [r \in Request |-> "lookup"]
  /\ found = [r \in Request |-> NoRun]
  /\ reply = [r \in Request |-> [answer |-> "none", run |-> NoRun, status |-> "none"]]

-----------------------------------------------------------------------------
(* lookup_idempotency_key *)
Lookup(r) ==
  /\ up
  /\ pc[r] = "lookup"
  /\ \/ /\ bound[key[r]] = NoRun
        /\ Goto(r, "insert_run")
        /\ UNCHANGED found
     \/ /\ bound[key[r]] # NoRun
        /\ found' = [found EXCEPT ![r] = bound[key[r]]]
        /\ Goto(r, "replay")
  /\ UNCHANGED <<route, key, db, process, reply>>

(* A pack reports the run's status, a hero the poll status derived from    *)
(* it; a preview needs the image, and 409s without one.                    *)
Replay(r) ==
  /\ pc[r] = "replay"
  /\ \/ /\ route[r] # "preview" \/ found[r] \in uploaded
        /\ Answer(r, "replayed", found[r], run[found[r]])
     \/ /\ route[r] = "preview" /\ found[r] \notin uploaded
        /\ Silence(r, "incomplete")
  /\ UNCHANGED <<route, key, db, process, found>>

(* insert_pending_run *)
InsertRun(r) ==
  /\ pc[r] = "insert_run" /\ Goto(r, "insert_payload")
  /\ run' = [run EXCEPT ![r] = "running"]
  /\ UNCHANGED <<route, key, bound, uploaded, process, found, reply>>

(* Mutant: the task is created before the run is updated. *)
InsertPayloadAndSpawn(r) ==
  /\ pc[r] = "insert_payload"
  /\ bound[key[r]] = NoRun
  /\ bound' = [bound EXCEPT ![key[r]] = r]
  /\ started' = started \cup {r}
  /\ working' = working \cup {r}
  /\ Goto(r, "prepare")
  /\ UNCHANGED <<route, key, run, uploaded, up, found, reply>>

(* Mutant: the conflict is caught and ignored. *)
InsertPayloadIgnored(r) ==
  /\ pc[r] = "insert_payload"
  /\ bound' = IF bound[key[r]] = NoRun THEN [bound EXCEPT ![key[r]] = r] ELSE bound
  /\ Goto(r, "prepare")
  /\ UNCHANGED <<route, key, run, uploaded, process, found, reply>>

(* insert_payload_record: the UNIQUE index admits one row per key. Losing, *)
(* a pack raises (500), a hero looks the key up again, and a preview       *)
(* deletes its own run first.                                              *)
InsertPayload(r) ==
  /\ pc[r] = "insert_payload"
  /\ \/ /\ bound[key[r]] = NoRun
        /\ bound' = [bound EXCEPT ![key[r]] = r]
        /\ Goto(r, "prepare")
        /\ UNCHANGED reply
     \/ /\ bound[key[r]] # NoRun
        /\ \/ route[r] = "pack" /\ Silence(r, "error")
           \/ route[r] \in Hero /\ Goto(r, "lookup_again") /\ UNCHANGED reply
           \/ route[r] = "preview" /\ Goto(r, "delete_run") /\ UNCHANGED reply
        /\ UNCHANGED bound
  /\ UNCHANGED <<route, key, run, uploaded, process, found>>

(* Mutant: the run to delete is looked up by the key. *)
DeleteRunOfKey(r) ==
  /\ pc[r] = "delete_run" /\ Goto(r, "lookup_again")
  /\ run' = [run EXCEPT ![bound[key[r]]] = "absent"]
  /\ UNCHANGED <<route, key, bound, uploaded, process, found, reply>>

(* DELETE FROM agent_runs; the deleted run has no other rows to cascade to *)
DeleteRun(r) ==
  /\ pc[r] = "delete_run" /\ Goto(r, "lookup_again")
  /\ run' = [run EXCEPT ![r] = "absent"]
  /\ UNCHANGED <<route, key, bound, uploaded, process, found, reply>>

(* Payload rows are never deleted, so the second lookup finds the winner.  *)
LookupAgain(r) ==
  /\ pc[r] = "lookup_again" /\ Goto(r, "replay_conflict")
  /\ found' = [found EXCEPT ![r] = bound[key[r]]]
  /\ UNCHANGED <<route, key, db, process, reply>>

(* As Replay, but a preview without an image re-raises the conflict.       *)
ReplayConflict(r) ==
  /\ pc[r] = "replay_conflict"
  /\ \/ /\ route[r] # "preview" \/ found[r] \in uploaded
        /\ Answer(r, "replayed", found[r], run[found[r]])
     \/ /\ route[r] = "preview" /\ found[r] \notin uploaded
        /\ Silence(r, "error")
  /\ UNCHANGED <<route, key, db, process, found>>

-----------------------------------------------------------------------------
(* The winner. *)

(* resolve_style_profile, the hero prompts, and the UPDATE that stores     *)
(* them and sets the status to running whatever it was.                    *)
Prepare(r) ==
  /\ pc[r] = "prepare" /\ Goto(r, "start")
  /\ run' = [run EXCEPT ![r] = "running"]
  /\ UNCHANGED <<route, key, bound, uploaded, process, found, reply>>

SpawnTask(r) ==
  /\ pc[r] = "start" /\ Goto(r, "accept")
  /\ route[r] \in {"pack", "live_hero"}
  /\ started' = started \cup {r}
  /\ working' = working \cup {r}
  /\ UNCHANGED <<route, key, db, up, found, reply>>

StartInline(r) ==
  /\ pc[r] = "start"
  /\ route[r] \in {"corpus_hero", "typed_hero"}
  /\ Goto(r, IF route[r] = "corpus_hero" THEN "insert_corpus" ELSE "close_typed")
  /\ UNCHANGED <<route, key, db, process, found, reply>>

(* The provider of a corpus row is "corpus", which the CHECK on            *)
(* external_media_assets.provider refuses: the handler raises.             *)
InsertCorpus(r) ==
  /\ pc[r] = "insert_corpus"
  /\ Silence(r, "error")
  /\ UNCHANGED <<route, key, db, process, found>>

CloseTyped(r) ==
  /\ pc[r] = "close_typed" /\ Goto(r, "accept")
  /\ run' = [run EXCEPT ![r] = "ok"]
  /\ UNCHANGED <<route, key, bound, uploaded, process, found, reply>>

Accept(r) ==
  /\ pc[r] = "accept"
  /\ Answer(r, "accepted", r, "none")
  /\ UNCHANGED <<route, key, db, process, found>>

(* The probe image of a preview is made while the caller waits: pending    *)
(* row and provider call, then the image is stored and its row uploaded.   *)
StartProbe(r) ==
  /\ pc[r] = "start" /\ Goto(r, "probe")
  /\ route[r] = "preview"
  /\ started' = started \cup {r}
  /\ UNCHANGED <<route, key, db, working, up, found, reply>>

ProbeSucceeds(r) ==
  /\ pc[r] = "probe" /\ Goto(r, "close_probe")
  /\ uploaded' = uploaded \cup {r}
  /\ UNCHANGED <<route, key, run, bound, process, found, reply>>

ProbeRefused(r) ==
  /\ "provider" \in Faults
  /\ pc[r] = "probe" /\ Goto(r, "fail_probe")
  /\ UNCHANGED <<route, key, db, process, found, reply>>

CloseProbe(r) ==
  /\ \/ /\ pc[r] = "close_probe"
        /\ run' = [run EXCEPT ![r] = "ok"]
        /\ Answer(r, "previewed", r, "none")
     \/ /\ pc[r] = "fail_probe"
        /\ run' = [run EXCEPT ![r] = "failed"]
        /\ Silence(r, "provider_error")
  /\ UNCHANGED <<route, key, bound, uploaded, process, found>>

(* Anything else that raises in a handler is a 500; nothing is undone.     *)
Raise(r) ==
  /\ "exception" \in Faults
  /\ pc[r] \in Handling
  /\ Silence(r, "error")
  /\ UNCHANGED <<route, key, db, process, found>>

-----------------------------------------------------------------------------
(* The tasks, of PackWorker and HeroTriad. *)

TaskPublishes(r) ==
  /\ r \in working \ uploaded
  /\ uploaded' = uploaded \cup {r}
  /\ UNCHANGED <<route, key, run, bound, process, pc, found, reply>>

TaskEnds(r) ==
  /\ r \in working
  /\ \E status \in Closed : run' = [run EXCEPT ![r] = status]
  /\ working' = working \ {r}
  /\ UNCHANGED <<route, key, bound, uploaded, started, up, pc, found, reply>>

(* The UPDATE in the task's except branch fails too, or the task is        *)
(* cancelled before its try block or in that branch.                       *)
TaskLost(r) ==
  /\ Faults \cap {"database", "cancel"} # {}
  /\ r \in working
  /\ working' = working \ {r}
  /\ UNCHANGED <<route, key, db, started, up, pc, found, reply>>

Crash ==
  /\ "crash" \in Faults
  /\ up
  /\ up' = FALSE
  /\ working' = {}
  /\ pc' = [r \in Request |-> IF pc[r] \in Handling THEN "dead" ELSE pc[r]]
  /\ UNCHANGED <<route, key, db, started, found, reply>>

Restart ==
  /\ ~up
  /\ up' = TRUE
  /\ UNCHANGED <<route, key, db, started, working, pc, found, reply>>

Quiescent ==
  /\ up
  /\ working = {}
  /\ \A r \in Request : pc[r] \in {"done", "dead"}
  /\ UNCHANGED vars

Handler(r) ==
  \/ Lookup(r) \/ Replay(r) \/ InsertRun(r) \/ InsertPayload(r)
  \/ DeleteRun(r) \/ LookupAgain(r) \/ ReplayConflict(r)
  \/ Prepare(r) \/ SpawnTask(r) \/ StartInline(r) \/ InsertCorpus(r)
  \/ CloseTyped(r) \/ Accept(r)
  \/ StartProbe(r) \/ ProbeSucceeds(r) \/ ProbeRefused(r) \/ CloseProbe(r)
  \/ Raise(r)

Next ==
  \/ \E r \in Request : Handler(r) \/ TaskPublishes(r) \/ TaskEnds(r) \/ TaskLost(r)
  \/ Crash \/ Restart \/ Quiescent

Spec == Init /\ [][Next]_vars

-----------------------------------------------------------------------------
TypeOK ==
  /\ route \in [Request -> AllRoutes]
  /\ key \in [Request -> Key]
  /\ run \in [Request -> {"absent", "running"} \cup Closed]
  /\ bound \in [Key -> Request \cup {NoRun}]
  /\ uploaded \subseteq Request /\ started \subseteq Request /\ working \subseteq Request
  /\ up \in BOOLEAN
  /\ pc \in [Request -> PC]
  /\ found \in [Request -> Request \cup {NoRun}]
  /\ reply \in [Request -> [answer : Answers, run : Request \cup {NoRun},
                            status : {"none", "absent", "running"} \cup Closed]]

(* The inductive invariant: what a label of a request says of its run and  *)
(* of its key, and what a bound key says of the request that owns it.      *)
Unbound == {"lookup", "insert_run", "insert_payload", "replay"} \cup Losing

HandlerHolds(r) ==
  /\ pc[r] \in {"lookup", "insert_run"} => run[r] = "absent"
  /\ pc[r] \in {"insert_payload", "delete_run"} => run[r] = "running"
  /\ pc[r] \in Unbound => bound[key[r]] # r
  /\ pc[r] \in Losing => bound[key[r]] # NoRun
  /\ pc[r] \in Owning => bound[key[r]] = r
  /\ pc[r] \in Owning \ {"accept"} => run[r] = "running" /\ r \notin working
  /\ pc[r] \in {"prepare", "start"} => r \notin started
  /\ pc[r] \in {"replay", "replay_conflict"} =>
       found[r] # NoRun /\ found[r] = bound[key[r]]

WorkHolds(r) ==
  /\ r \in started => bound[key[r]] = r
  /\ r \in working => r \in started /\ run[r] = "running"

ReplyHolds(r) ==
  /\ pc[r] \notin {"done", "dead"} => reply[r].run = NoRun
  /\ reply[r].run # NoRun => reply[r].run = bound[key[r]]
  /\ reply[r].run = NoRun => reply[r].status = "none"

KeyHolds(k) ==
  bound[k] # NoRun => run[bound[k]] # "absent" /\ key[bound[k]] = k

(* A status a replay reported as final is what the run says ever after,    *)
(* although handlers and tasks overwrite the status without looking at it. *)
VerdictStands ==
  \A r \in Request : reply[r].status \in Closed => run[reply[r].run] = reply[r].status

(* A preview that loses the race deletes a run. No key, no task and no     *)
(* caller ever holds the name of a run that was deleted.                   *)
NamedRunsExist ==
  \A n \in Request : run[n] = "absent" =>
    /\ n \notin started
    /\ \A k \in Key : bound[k] # n
    /\ \A r \in Request : reply[r].run # n

KeyInv ==
  /\ \A r \in Request : HandlerHolds(r) /\ WorkHolds(r) /\ ReplyHolds(r)
  /\ \A k \in Key : KeyHolds(k)
  /\ VerdictStands

(* Two tasks never work on one key, and everybody who is answered with a   *)
(* run is answered with the run that owns the key: Acceptance implements   *)
(* KeyPromise.                                                             *)
Promise == INSTANCE KeyPromise WITH owner <- bound, told <- [r \in Request |-> reply[r].run]
KeepsKeys == Promise!Spec

-----------------------------------------------------------------------------
(* What follows for a consumer who sends a key again. *)

(* One run is worked on for a key, and all who are told of one are told of *)
(* that one.                                                               *)
OneRunPerKey ==
  /\ \A r, s \in started : key[r] = key[s] => r = s
  /\ \A r, s \in Request :
       reply[r].run # NoRun /\ reply[s].run # NoRun /\ key[r] = key[s] =>
         reply[r].run = reply[s].run

(* A key is abandoned when its run is running and neither its handler nor  *)
(* a task is there to close it: no replay looks for that.                  *)
Abandoned(r) ==
  /\ bound[key[r]] = r /\ run[r] = "running"
  /\ pc[r] \in {"done", "dead"} /\ r \notin working

(* It takes a fault, or a request that is served from the taste corpus.    *)
AbandonedByFault ==
  \A r \in Request : Abandoned(r) =>
    \/ Faults \cap {"exception", "database", "cancel", "crash"} # {}
    \/ route[r] = "corpus_hero"

(* And every later request with that key is told that the run is running,  *)
(* or that there is no image yet, for good. The viewport lab, which may    *)
(* close the run of a hero, is in HeroTriad.                               *)
AbandonedForGood ==
  [][\A r \in Request : Abandoned(r) =>
       /\ Abandoned(r)'
       /\ \A s \in Request : key[s] = key[r] /\ reply[s].run = NoRun /\ reply'[s].run # NoRun =>
            reply'[s].run = r /\ reply'[s].status \in {"none", "running"}]_vars
=============================================================================
