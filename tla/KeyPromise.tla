---------------------------- MODULE KeyPromise ----------------------------
(***************************************************************************)
(* What an idempotency key promises the consumer: the first request that   *)
(* claims a key owns it for good, only the owner starts paid work, and     *)
(* only once, and whoever is told a run is told the owner of its key.      *)
(***************************************************************************)
CONSTANTS Request, Key, NoRun

VARIABLES
  key,      \* the key each request carries
  owner,    \* the request that claimed a key; it names the run it inserted
  started,  \* the owners whose work was started
  told      \* the run a request was answered with

promise == <<key, owner, started, told>>

Init ==
  /\ key \in [Request -> Key]
  /\ owner = [k \in Key |-> NoRun]
  /\ started = {}
  /\ told = [r \in Request |-> NoRun]

Claim(r) ==
  /\ owner[key[r]] = NoRun
  /\ owner' = [owner EXCEPT ![key[r]] = r]
  /\ UNCHANGED <<key, started, told>>

Start(r) ==
  /\ owner[key[r]] = r
  /\ r \notin started
  /\ started' = started \cup {r}
  /\ UNCHANGED <<key, owner, told>>

Tell(r) ==
  /\ owner[key[r]] # NoRun
  /\ told[r] = NoRun
  /\ told' = [told EXCEPT ![r] = owner[key[r]]]
  /\ UNCHANGED <<key, owner, started>>

Next == \E r \in Request : Claim(r) \/ Start(r) \/ Tell(r)

Spec == Init /\ [][Next]_promise
=============================================================================
