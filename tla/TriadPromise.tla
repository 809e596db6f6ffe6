---------------------------- MODULE TriadPromise ----------------------------
(***************************************************************************)
(* What POST /images/hero-candidates/generate and the polls of its run     *)
(* promise, without the worker: images of a run appear one by one while it *)
(* is open, and each may later be replaced; the run closes once, as ok     *)
(* only with an image; a poll that gives a final answer is about a closed  *)
(* run, and answers by the images there are when it answers.               *)
(***************************************************************************)
CONSTANTS Run, Variant

VARIABLES
  outcome,   \* "none", "open", "ok" or "failed", per run
  made,      \* the variants that were published
  replaced,  \* those a regeneration has superseded
  answer     \* the last answer, if it was final

promise == <<outcome, made, replaced, answer>>

PromiseInit ==
  /\ \E earlier \in SUBSET Run :
       /\ outcome = [r \in Run |-> IF r \in earlier THEN "ok" ELSE "none"]
       /\ made = [r \in Run |-> IF r \in earlier THEN Variant ELSE {}]
  /\ replaced = [r \in Run |-> {}]
  /\ answer = [r \in Run |-> "none"]

Accept(r) ==
  /\ outcome[r] = "none" /\ outcome' = [outcome EXCEPT ![r] = "open"]
  /\ UNCHANGED <<made, replaced, answer>>

Publish(r) ==
  /\ outcome[r] = "open"
  /\ \E v \in Variant \ made[r] : made' = [made EXCEPT ![r] = @ \cup {v}]
  /\ UNCHANGED <<outcome, replaced, answer>>

Replace(r) ==
  /\ \E v \in made[r] \ replaced[r] : replaced' = [replaced EXCEPT ![r] = @ \cup {v}]
  /\ UNCHANGED <<outcome, made, answer>>

Close(r) ==
  /\ outcome[r] = "open"
  /\ \/ outcome' = [outcome EXCEPT ![r] = "failed"]
     \/ made[r] # {} /\ outcome' = [outcome EXCEPT ![r] = "ok"]
  /\ UNCHANGED <<made, replaced, answer>>

Verdict(o, images) ==
  IF o = "failed" \/ images = {} THEN "failed" ELSE IF images = Variant THEN "complete" ELSE "partial"

Tell(r) ==
  /\ outcome[r] \in {"ok", "failed"}
  /\ answer' = [answer EXCEPT ![r] = Verdict(outcome[r], made[r] \ replaced[r])]
  /\ UNCHANGED <<outcome, made, replaced>>

PromiseNext == \E r \in Run : Accept(r) \/ Publish(r) \/ Replace(r) \/ Close(r) \/ Tell(r)

PromiseSpec == PromiseInit /\ [][PromiseNext]_promise
=============================================================================
