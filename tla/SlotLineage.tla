---------------------------- MODULE SlotLineage ----------------------------
(***************************************************************************)
(* What happens to an image after its pack or triad was generated: it is   *)
(* regenerated (POST /images/regenerate-slot and                           *)
(* /images/hero-candidates/regenerate-variant), superseded by the new      *)
(* image, brought back (unsupersede) or soft-deleted by the inspector.     *)
(* Nothing locks a slot: any of this may happen at any await of the        *)
(* others. An asset row is named by the request that made it, or is one of *)
(* the rows the first generation left.                                     *)
(***************************************************************************)
EXTENDS Naturals, FiniteSets

CONSTANTS
  Original,      \* rows an earlier pack or triad run uploaded
  Request,       \* regeneration requests; each has a run and a row of its own
  Kinds,         \* the kinds of regeneration requested, see RequestKinds
  Permits,       \* settings.max_concurrent_packs
  Inspector,     \* what the inspector may do: "unsupersede", "soft_delete"
  Faults,        \* "provider", "exception", "crash", "no_r2" (there is no R2 client);
                 \* of a sweep also "database", "r2"
  Refused,       \* the requests whose last UPDATE the database may refuse
  NoAsset

Asset == Original \cup Request

(* A pack slot or a hero variant; or a hero variant reframed from another  *)
(* asset, whose bytes are fetched before the task enters its try block.    *)
RequestKinds == {"plain", "mobile"}

ASSUME LineageAssumption ==
  /\ IsFiniteSet(Request)
  /\ Original \cap Request = {}
  /\ NoAsset \notin Asset
  /\ Kinds \subseteq RequestKinds
  /\ Permits \in Nat \ {0}

VARIABLES
  \* external_media_assets
  row,          \* status
  replacedBy,   \* metadata.replaced_by
  softDeleted,  \* the rows with metadata.soft_deleted
  restored,     \* history: the rows that an unsupersede has brought back
  key,          \* r2_key: the warm key, its cold/ copy, one nothing was stored
                \* under because there was no R2 client ("unstored"), or NULL
  url,          \* the rows whose r2_url is set
  aged,         \* the rows whose updated_at is more than 30 days ago
  \* agent_runs and tool_calls of the regenerations
  runStatus, charged, billed,
  \* R2
  bucket,       \* pairs of a row and the prefix its object is stored under
  \* the process
  up, permits, pc, kind, target, source, reply

rows == <<row, replacedBy, softDeleted, restored, key, url, aged>>
runs == <<runStatus, charged, billed>>
request == <<kind, target, source, reply>>
vars == <<rows, runs, bucket, up, permits, pc, request>>

RowStatus == {"absent", "pending", "generated", "uploaded", "failed", "superseded"}
Prefix == {"warm", "cold"}
Key == Prefix \cup {"unstored", "none"}

(* The awaits inside the try blocks of run_single_slot_in_background and   *)
(* run_hero_variant_regenerate_in_background.                              *)
TryBlock == {"generate", "mark_failed", "error_call", "close_failed",
             "mark_generated", "upload", "mark_uploaded", "mark_unstored", "ok_call",
             "supersede", "roll_up", "mark_ok"}
Holding == TryBlock \cup {"except", "release"}
Unguarded == {"load_source", "source_missing", "close_unsourced"}
Handler == {"checked", "run_inserted"}
Live == Handler \cup Unguarded \cup Holding \cup {"acquire"}
PC == Live \cup {"idle", "done", "dead"}

Goto(r, label) == pc' = [pc EXCEPT ![r] = label]
Moves(r, from, to) ==
  /\ pc[r] = from
  /\ Goto(r, to)
  /\ UNCHANGED <<rows, runs, bucket, up, permits, request>>

(* An UPDATE of a row's status guarded by the status it may come from;     *)
(* updated_at becomes now().                                               *)
SetRow(a, from, to) ==
  /\ row[a] \in from
  /\ row' = [row EXCEPT ![a] = to]
  /\ aged' = aged \ {a}

CloseRun(r, status) ==
  /\ runStatus' = [runStatus EXCEPT ![r] = status]
  /\ UNCHANGED <<rows, charged, billed, bucket, up, permits, request>>

Init ==
  /\ row = [a \in Asset |-> IF a \in Original THEN "uploaded" ELSE "absent"]
  /\ replacedBy = [a \in Asset |-> NoAsset]
  /\ softDeleted = {} /\ restored = {}
  /\ key = [a \in Asset |-> IF a \in Original THEN "warm" ELSE "none"]
  /\ url = Original
  /\ aged = {}
  /\ runStatus = [r \in Request |-> "absent"]
  /\ charged = {} /\ billed = {}
  /\ bucket = Original \X {"warm"}
  /\ up = TRUE
  /\ permits = Permits
  /\ pc = [r \in Request |-> "idle"]
  /\ kind = [r \in Request |-> "none"]
  /\ target = [r \in Request |-> NoAsset]
  /\ source = [r \in Request |-> NoAsset]
  /\ reply = [r \in Request |-> "none"]

-----------------------------------------------------------------------------
(* The request handlers. *)

(* image_request_payloads has a record for the runs of the generate routes *)
(* only: a regeneration inserts none for its own run.                      *)
HasPayload(a) == a \in Original

(* The asset and its payload are read on one connection; the replies are   *)
(* 400 asset_must_be_uploaded and 400 original_payload_missing. A mobile   *)
(* reframe names the asset b to reframe, which may be any.                 *)
CheckTarget(r, k, a, b) ==
  /\ up
  /\ pc[r] = "idle"
  /\ row[a] # "absent"
  /\ (b = NoAsset) <=> (k = "plain")
  /\ kind' = [kind EXCEPT ![r] = k]
  /\ target' = [target EXCEPT ![r] = a]
  /\ source' = [source EXCEPT ![r] = b]
  /\ \/ /\ row[a] # "uploaded"
        /\ reply' = [reply EXCEPT ![r] = "not_uploaded"]
        /\ Goto(r, "done")
     \/ /\ row[a] = "uploaded" /\ ~HasPayload(a)
        /\ reply' = [reply EXCEPT ![r] = "payload_missing"]
        /\ Goto(r, "done")
     \/ /\ row[a] = "uploaded" /\ HasPayload(a)
        /\ Goto(r, "checked")
        /\ UNCHANGED reply
  /\ UNCHANGED <<rows, runs, bucket, up, permits>>

(* insert_pending_run *)
InsertRun(r) ==
  /\ pc[r] = "checked"
  /\ runStatus' = [runStatus EXCEPT ![r] = "running"]
  /\ Goto(r, "run_inserted")
  /\ UNCHANGED <<rows, charged, billed, bucket, up, permits, request>>

(* insert_pending_asset, create_task and the 202. The bytes of the source  *)
(* of a mobile reframe are fetched before the permit is asked for.         *)
InsertAsset(r) ==
  /\ pc[r] = "run_inserted"
  /\ row' = [row EXCEPT ![r] = "pending"]
  /\ reply' = [reply EXCEPT ![r] = "accepted"]
  /\ Goto(r, IF kind[r] = "mobile" THEN "load_source" ELSE "acquire")
  /\ UNCHANGED <<replacedBy, softDeleted, restored, key, url, aged, runs, bucket, up,
                 permits, kind, target, source>>

(* The handler raises: 500, and a run it inserted stays running.           *)
AbandonRequest(r) ==
  "exception" \in Faults /\ \E step \in Handler : Moves(r, step, "dead")

-----------------------------------------------------------------------------
(* load_hero_asset_bytes, outside the try block: ValueError is handled,    *)
(* anything else ends the task with nothing recorded.                      *)

SourceLoaded(r) == Moves(r, "load_source", "acquire") /\ row[source[r]] = "uploaded"

(* ValueError: the source is not uploaded, or it is but is no hero         *)
(* candidate, as the row of a pack is none, nor that of a variant whose    *)
(* metadata are not patched yet. Which rows are is not modelled.           *)
SourceMissing(r) == Moves(r, "load_source", "source_missing")

FailUnsourced(r) ==
  /\ pc[r] = "source_missing" /\ Goto(r, "close_unsourced")
  /\ SetRow(r, {"pending", "generated"}, "failed")
  /\ UNCHANGED <<replacedBy, softDeleted, restored, key, url, runs, bucket, up, permits, request>>
CloseUnsourced(r) ==
  /\ pc[r] = "close_unsourced" /\ Goto(r, "done")
  /\ CloseRun(r, "failed")
RaiseUnguarded(r) ==
  "exception" \in Faults /\ \E step \in Unguarded : Moves(r, step, "dead")

-----------------------------------------------------------------------------
(* The task under its permit. *)

(* Rows are never deleted, so the re-read of the old row finds it; its     *)
(* status is not looked at.                                                *)
AcquirePermit(r) ==
  /\ pc[r] = "acquire" /\ Goto(r, "generate")
  /\ permits > 0
  /\ permits' = permits - 1
  /\ UNCHANGED <<rows, runs, bucket, up, request>>

(* Mutant: the old row is superseded before the new image is stored. *)
SupersedeBeforeStoring(r) == Moves(r, "generate", "supersede")

(* with_retry; its retry is in PackWorker.                                 *)
ProviderSucceeds(r) == Moves(r, "generate", "mark_generated")
ProviderFails(r) == "provider" \in Faults /\ Moves(r, "generate", "mark_failed")

MarkFailed(r) ==
  /\ pc[r] = "mark_failed" /\ Goto(r, "error_call")
  /\ SetRow(r, {"pending", "generated"}, "failed")
  /\ UNCHANGED <<replacedBy, softDeleted, restored, key, url, runs, bucket, up, permits, request>>

(* A tool_calls row of status error, which costs nothing.                  *)
RecordErrorCall(r) == Moves(r, "error_call", "close_failed")

CloseFailed(r) ==
  /\ pc[r] = "close_failed" /\ Goto(r, "release")
  /\ CloseRun(r, "failed")

MarkGenerated(r) ==
  /\ pc[r] = "mark_generated" /\ Goto(r, "upload")
  /\ SetRow(r, {"pending"}, "generated")
  /\ UNCHANGED <<replacedBy, softDeleted, restored, key, url, runs, bucket, up, permits, request>>

(* Without an R2 client the row gets a mock/ key, or a variant the key it  *)
(* would have had, and nothing is stored.                                  *)
Upload(r) ==
  /\ pc[r] = "upload"
  /\ \/ Goto(r, "mark_uploaded") /\ bucket' = bucket \cup {<<r, "warm">>}
     \/ "no_r2" \in Faults /\ Goto(r, "mark_unstored") /\ UNCHANGED bucket
  /\ UNCHANGED <<rows, runs, up, permits, request>>

MarkUploaded(r) ==
  /\ pc[r] \in {"mark_uploaded", "mark_unstored"} /\ Goto(r, "ok_call")
  /\ SetRow(r, {"pending", "generated"}, "uploaded")
  /\ key' = [key EXCEPT ![r] = IF pc[r] = "mark_uploaded" THEN "warm" ELSE "unstored"]
  /\ url' = url \cup {r}
  /\ UNCHANGED <<replacedBy, softDeleted, restored, runs, bucket, up, permits, request>>

RecordOkCall(r) ==
  /\ pc[r] = "ok_call" /\ Goto(r, "supersede")
  /\ billed' = billed \cup {r}
  /\ UNCHANGED <<rows, runStatus, charged, bucket, up, permits, request>>

(* Mutant: an UPDATE that matches no row goes unnoticed. *)
SupersedeUnchecked(r) ==
  /\ pc[r] = "supersede" /\ Goto(r, "roll_up")
  /\ \/ /\ SetRow(target[r], {"uploaded"}, "superseded")
        /\ replacedBy' = [replacedBy EXCEPT ![target[r]] = r]
        /\ UNCHANGED <<softDeleted, restored, key, url>>
     \/ /\ row[target[r]] # "uploaded"
        /\ UNCHANGED rows
  /\ UNCHANGED <<runs, bucket, up, permits, request>>

(* supersede_asset, one UPDATE ... WHERE status = 'uploaded'; if it finds  *)
(* no such row, InvalidStateTransition is raised inside the try block.     *)
Supersede(r) ==
  /\ pc[r] = "supersede"
  /\ \/ /\ SetRow(target[r], {"uploaded"}, "superseded")
        /\ replacedBy' = [replacedBy EXCEPT ![target[r]] = r]
        /\ Goto(r, "roll_up")
        /\ UNCHANGED <<softDeleted, restored, key, url>>
     \/ /\ row[target[r]] # "uploaded"
        /\ Goto(r, "except")
        /\ UNCHANGED rows
  /\ UNCHANGED <<runs, bucket, up, permits, request>>

(* Mutant: the sum is taken over the calls of the parent run. *)
RollUpCostOfParent(r) == Moves(r, "roll_up", "mark_ok")

RollUpCost(r) ==
  /\ pc[r] = "roll_up" /\ Goto(r, "mark_ok")
  /\ charged' = charged \cup {r}
  /\ UNCHANGED <<rows, runStatus, billed, bucket, up, permits, request>>

MarkRunOk(r) ==
  /\ pc[r] = "mark_ok" /\ Goto(r, "release")
  /\ CloseRun(r, "ok")

(* Mutant: a raise goes straight to the finally block. *)
RaiseUnrecorded(r) ==
  "exception" \in Faults /\ \E step \in TryBlock : Moves(r, step, "release")

Raise(r) ==
  "exception" \in Faults /\ \E step \in TryBlock : Moves(r, step, "except")

(* Mutant: the permit is released on the normal way out only. *)
RecordFailureKeepsPermit(r) ==
  /\ pc[r] = "except" /\ Goto(r, "done")
  /\ CloseRun(r, "failed")

RecordFailure(r) ==
  /\ pc[r] = "except" /\ Goto(r, "release")
  /\ CloseRun(r, "failed")

LoseFailure(r) == r \in Refused /\ Moves(r, "except", "release")

ReleasePermit(r) ==
  /\ pc[r] = "release" /\ Goto(r, "done")
  /\ permits' = permits + 1
  /\ UNCHANGED <<rows, runs, bucket, up, request>>

Task(r) ==
  \/ SourceLoaded(r) \/ SourceMissing(r) \/ FailUnsourced(r) \/ CloseUnsourced(r)
  \/ RaiseUnguarded(r)
  \/ ProviderSucceeds(r) \/ ProviderFails(r)
  \/ MarkFailed(r) \/ RecordErrorCall(r) \/ CloseFailed(r)
  \/ MarkGenerated(r) \/ Upload(r) \/ MarkUploaded(r) \/ RecordOkCall(r)
  \/ Supersede(r) \/ RollUpCost(r) \/ MarkRunOk(r)
  \/ Raise(r) \/ RecordFailure(r) \/ LoseFailure(r) \/ ReleasePermit(r)

-----------------------------------------------------------------------------
(* The inspector. *)

(* Mutant: the UPDATE looks at the status only. *)
UnsupersedeAnySuperseded(a) ==
  /\ "unsupersede" \in Inspector
  /\ up
  /\ SetRow(a, {"superseded"}, "uploaded")
  /\ replacedBy' = [replacedBy EXCEPT ![a] = NoAsset]
  /\ restored' = restored \cup {a}
  /\ UNCHANGED <<softDeleted, key, url, runs, bucket, up, permits, pc, request>>

(* unsupersede_asset: the replacing row must exist, whatever its status,   *)
(* and stays as it is.                                                     *)
Unsupersede(a) ==
  /\ "unsupersede" \in Inspector
  /\ up
  /\ replacedBy[a] # NoAsset
  /\ row[replacedBy[a]] # "absent"
  /\ SetRow(a, {"superseded"}, "uploaded")
  /\ replacedBy' = [replacedBy EXCEPT ![a] = NoAsset]
  /\ restored' = restored \cup {a}
  /\ UNCHANGED <<softDeleted, key, url, runs, bucket, up, permits, pc, request>>

SoftDelete(a) ==
  /\ "soft_delete" \in Inspector
  /\ up
  /\ SetRow(a, {"uploaded"}, "superseded")
  /\ softDeleted' = softDeleted \cup {a}
  /\ UNCHANGED <<replacedBy, restored, key, url, runs, bucket, up, permits, pc, request>>

-----------------------------------------------------------------------------
Crash ==
  /\ "crash" \in Faults
  /\ up
  /\ up' = FALSE
  /\ pc' = [r \in Request |-> IF pc[r] \in Live THEN "dead" ELSE pc[r]]
  /\ UNCHANGED <<rows, runs, bucket, permits, request>>

Restart ==
  /\ ~up
  /\ up' = TRUE
  /\ permits' = Permits
  /\ UNCHANGED <<rows, runs, bucket, pc, request>>

Quiescent ==
  /\ up
  /\ \A r \in Request : pc[r] \in {"done", "dead"}
  /\ UNCHANGED vars

RequestStep ==
  \E r \in Request :
    \/ \E k \in Kinds, a \in Asset, b \in Asset \cup {NoAsset} : CheckTarget(r, k, a, b)
    \/ InsertRun(r) \/ InsertAsset(r) \/ AbandonRequest(r)
    \/ AcquirePermit(r) \/ Task(r)
InspectorStep == \E a \in Asset : Unsupersede(a) \/ SoftDelete(a)

Next == RequestStep \/ InspectorStep \/ Crash \/ Restart \/ Quiescent

(* As in PackWorker: ready tasks run, awaits end, waiters for a permit are *)
(* woken in order.                                                         *)
Fairness ==
  /\ \A r \in Request : /\ WF_vars(InsertRun(r) \/ InsertAsset(r))
                        /\ SF_vars(AcquirePermit(r))
                        /\ WF_vars(Task(r))
  /\ WF_vars(Restart)

Spec == Init /\ [][Next]_vars
FairSpec == Spec /\ Fairness

-----------------------------------------------------------------------------
TypeOK ==
  /\ row \in [Asset -> RowStatus]
  /\ replacedBy \in [Asset -> Asset \cup {NoAsset}]
  /\ softDeleted \subseteq Asset /\ restored \subseteq Asset
  /\ key \in [Asset -> Key]
  /\ url \subseteq Asset
  /\ aged \subseteq Asset
  /\ runStatus \in [Request -> {"absent", "running", "ok", "failed"}]
  /\ charged \subseteq Request
  /\ billed \subseteq Request
  /\ bucket \subseteq Asset \X Prefix
  /\ up \in BOOLEAN
  /\ permits \in Nat
  /\ pc \in [Request -> PC]
  /\ kind \in [Request -> RequestKinds \cup {"none"}]
  /\ target \in [Request -> Asset \cup {NoAsset}]
  /\ source \in [Request -> Asset \cup {NoAsset}]
  /\ reply \in [Request -> {"none", "not_uploaded", "payload_missing", "accepted"}]

-----------------------------------------------------------------------------
(* The inductive invariant: what a label says of the request's own row,    *)
(* and how the rows are linked.                                            *)

Unstarted == {"idle", "checked", "run_inserted"}
InFlight == Unguarded \cup {"acquire", "generate", "mark_failed", "mark_generated"}
Finished == {"ok_call", "supersede", "roll_up", "mark_ok"}

Charging == {"supersede", "roll_up", "mark_ok"}
Superseding == {"roll_up", "mark_ok"}

RowFollowsTask(r) ==
  /\ pc[r] \in Unstarted => row[r] = "absent"
  /\ pc[r] \in Finished => row[r] \in {"uploaded", "superseded"}
  /\ row[r] = "superseded" => r \in softDeleted

RunFollowsTask(r) ==
  /\ pc[r] \in Live => target[r] \in Original
  /\ pc[r] \in Charging => r \in billed
  /\ pc[r] = "mark_ok" => r \in charged
  /\ runStatus[r] = "ok" =>
       /\ pc[r] \in {"release", "done", "dead"}
       /\ target[r] \in Original
       /\ r \in billed /\ r \in charged
       /\ row[r] \in {"uploaded", "superseded"}

(* Who replaced the target, if nobody has restored it. *)
TargetFollowsTask(r) ==
  (target[r] \notin restored /\ (pc[r] \in Superseding \/ runStatus[r] = "ok"))
    => row[target[r]] = "superseded" /\ replacedBy[target[r]] = r

LinkHolds(a) ==
  /\ row[a] = "superseded" <=> (replacedBy[a] # NoAsset \/ a \in softDeleted)
  /\ a \in softDeleted => replacedBy[a] = NoAsset
  /\ replacedBy[a] # NoAsset =>
       /\ a \in Original
       /\ replacedBy[a] \in Request
       /\ row[replacedBy[a]] \in {"uploaded", "superseded"}
  /\ a \in Original => row[a] \in {"uploaded", "superseded"}

LineageInv ==
  /\ \A r \in Request : RowFollowsTask(r) /\ RunFollowsTask(r) /\ TargetFollowsTask(r)
  /\ \A a \in Asset : LinkHolds(a)

-----------------------------------------------------------------------------
(* Safety. *)

(* The semaphore shared with the packs loses no permit: a mobile reframe   *)
(* that fails before it asked for one gives none back.                     *)
PermitsBalance ==
  up => permits + Cardinality({r \in Request : pc[r] \in Holding}) = Permits

(* Whatever regenerations and inspector actions race, a superseded row has *)
(* exactly one reason, and one that was replaced leads to an image that is *)
(* active, or that somebody deleted on purpose: no slot silently ends up   *)
(* without an image.                                                       *)
ReplacementIsActive ==
  \A a \in Asset : row[a] = "superseded" =>
    \/ a \in softDeleted /\ replacedBy[a] = NoAsset
    \/ /\ a \notin softDeleted
       /\ replacedBy[a] \in Request
       /\ \/ row[replacedBy[a]] = "uploaded"
          \/ replacedBy[a] \in softDeleted

(* Nothing serializes two regenerations of one asset, but only one of them *)
(* reports ok: the one the old row names as its replacement. A row that    *)
(* the inspector has restored may be replaced again.                       *)
OkRunReplacedItsTarget ==
  \A r \in Request : runStatus[r] = "ok" /\ target[r] \notin restored =>
    row[target[r]] = "superseded" /\ replacedBy[target[r]] = r

(* A regeneration reports ok only with its image published and paid for.   *)
OkRunIsAccountedFor ==
  \A r \in Request : runStatus[r] = "ok" =>
    /\ r \in billed /\ r \in charged
    /\ row[r] = "uploaded" \/ r \in softDeleted

(* A soft deletion is final: nothing brings the row back.                  *)
SoftDeletedStaysDeleted ==
  [][\A a \in softDeleted : a \in softDeleted' /\ row'[a] = "superseded"]_vars

-----------------------------------------------------------------------------
(* Liveness. *)

(* Every accepted regeneration ends with its run closed, whatever is       *)
(* raised in its try block and whatever becomes of the others, unless the  *)
(* database refuses that very write or its task dies: by a crash, or,      *)
(* reframed from another asset, by an exception before that block.         *)
AcceptedRegenerationCloses ==
  \A r \in Request \ Refused :
    (reply[r] = "accepted") ~> (runStatus[r] \in {"ok", "failed"} \/ pc[r] = "dead")

-----------------------------------------------------------------------------
(* What of it is safety: no task is ever stuck, none has more than so much *)
(* to do, and none ends before its run is closed.                          *)

(* The UPDATEs of a request's own row always find it where they want it:   *)
(* neither other regenerations nor the inspector touch a row before it is  *)
(* uploaded. Only the UPDATE of the old row can raise                      *)
(* InvalidStateTransition.                                                 *)
UpdatesFindTheirRows ==
  \A r \in Request :
    /\ pc[r] = "mark_generated" => row[r] = "pending"
    /\ pc[r] \in {"source_missing", "mark_failed", "mark_uploaded", "mark_unstored"} =>
         row[r] \in {"pending", "generated"}

(* A task that is not at one of those UPDATEs waits for nobody but for a   *)
(* permit; and then, while there is none, another task has it.             *)
WaitersHaveHolders ==
  up /\ permits = 0 => \E r \in Request : pc[r] \in Holding

(* A request that is over was refused with a reply or has closed its run,  *)
(* unless the database refuses the UPDATE of the except clause.            *)
EndedRunIsClosed ==
  \A r \in Request \ Refused : pc[r] \in {"release", "done"} =>
    runStatus[r] \in {"ok", "failed"} \/ reply[r] \in {"not_uploaded", "payload_missing"}

(* A raise may come at every step of the try block, and takes two more. *)
StepsLeft(r) ==
  CASE pc[r] = "checked" -> 14
    [] pc[r] = "run_inserted" -> 13
    [] pc[r] = "load_source" -> 12
    [] pc[r] = "acquire" -> 11
    [] pc[r] = "generate" -> 10
    [] pc[r] = "mark_generated" -> 9
    [] pc[r] = "upload" -> 8
    [] pc[r] \in {"mark_uploaded", "mark_unstored"} -> 7
    [] pc[r] = "ok_call" -> 6
    [] pc[r] \in {"supersede", "mark_failed"} -> 5
    [] pc[r] \in {"roll_up", "error_call"} -> 4
    [] pc[r] \in {"mark_ok", "close_failed"} -> 3
    [] pc[r] \in {"except", "source_missing"} -> 2
    [] pc[r] \in {"release", "close_unsourced"} -> 1
    [] OTHER -> 0

(* A regeneration is over after 14 steps of its request and its task,      *)
(* whatever fails, raises or races it.                                     *)
StepsAreCounted ==
  [][\A r \in Request :
       /\ pc[r] \in Live => StepsLeft(r)' <= StepsLeft(r)
       /\ InsertRun(r) \/ InsertAsset(r) \/ AcquirePermit(r) \/ Task(r)
            => StepsLeft(r)' < StepsLeft(r)]_vars
=============================================================================
