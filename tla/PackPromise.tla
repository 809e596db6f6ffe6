---------------------------- MODULE PackPromise ----------------------------
(***************************************************************************)
(* What POST /images/asset-pack/generate promises its consumer, without    *)
(* the worker: images of an accepted run appear one by one while the run   *)
(* is open; the run closes once, as ok or as failed, and its set of images *)
(* is then final; the consumer is told at most once, only about a run that *)
(* closed as ok, and what it is told is exactly what was published. Only   *)
(* the shutdown of the service may turn ok into failed, once.              *)
(***************************************************************************)
CONSTANTS
  Run, Slot,
  MayRetract  \* whether a worker may be cancelled after its run is ok

VARIABLES
  outcome,    \* "none", "open", "ok" or "failed", per run
  requested,  \* the slots the run was asked for
  published,  \* the slots whose image is visible
  told        \* the callback: nothing yet, or a status and a set of slots

promise == <<outcome, requested, published, told>>

Untold == [status |-> "none", slots |-> {}]

(* The pack status that describes that published, out of asked, succeeded. *)
Verdict(asked, ok) == IF ok = asked THEN "complete"
                      ELSE IF ok = {} THEN "failed" ELSE "partial"

PromiseInit ==
  /\ outcome = [r \in Run |-> "none"]
  /\ requested = [r \in Run |-> {}]
  /\ published = [r \in Run |-> {}]
  /\ told = [r \in Run |-> Untold]

Accept(r) ==
  /\ outcome[r] = "none"
  /\ \E S \in (SUBSET Slot) \ {{}} : requested' = [requested EXCEPT ![r] = S]
  /\ outcome' = [outcome EXCEPT ![r] = "open"]
  /\ UNCHANGED <<published, told>>

Publish(r) ==
  /\ outcome[r] = "open"
  /\ \E s \in requested[r] \ published[r] :
       published' = [published EXCEPT ![r] = @ \cup {s}]
  /\ UNCHANGED <<outcome, requested, told>>

Close(r) ==
  /\ outcome[r] = "open"
  /\ \E o \in {"ok", "failed"} : outcome' = [outcome EXCEPT ![r] = o]
  /\ UNCHANGED <<requested, published, told>>

Tell(r) ==
  /\ outcome[r] = "ok"
  /\ told[r] = Untold
  /\ told' = [told EXCEPT ![r] =
                [status |-> Verdict(requested[r], published[r]),
                 slots |-> published[r]]]
  /\ UNCHANGED <<outcome, requested, published>>

(* A cancelled worker fails the run, of which it may have told before.     *)
Retract(r) ==
  /\ MayRetract /\ outcome[r] = "ok"
  /\ outcome' = [outcome EXCEPT ![r] = "failed"]
  /\ UNCHANGED <<requested, published, told>>

PromiseNext ==
  \E r \in Run : Accept(r) \/ Publish(r) \/ Close(r) \/ Tell(r) \/ Retract(r)

PromiseSpec == PromiseInit /\ [][PromiseNext]_promise
=============================================================================
