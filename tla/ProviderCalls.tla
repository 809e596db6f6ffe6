--------------------------- MODULE ProviderCalls ---------------------------
(***************************************************************************)
(* What one run asks of the image providers: with_retry around every       *)
(* generate_single of the workers, a second with_retry inside the one of   *)
(* GoogleNanoBananaProvider, the pack-consistent batch and its fallback,   *)
(* and the repeat of a hero variant whose image fails the quality checks;  *)
(* with the seed of each call, and which images reach tool_calls.          *)
(*                                                                         *)
(* The statements between an answer and its tool call (the checks of the   *)
(* image, the row, R2), each of which may raise, are one step here, Store, *)
(* beside StoreFails: their order, crashes and other runs are those of     *)
(* PackWorker and HeroTriad.                                               *)
(***************************************************************************)
EXTENDS Integers, FiniteSets

CONSTANTS
  Slots,     \* how many slots or variants the run has
  Ordinals,  \* the ordinals the slots of a payload may have
  NoCall     \* no image is in hand

ASSUME SlotsAssumption == Slots \in Nat \ {0}
ASSUME OrdinalsAssumption == Ordinals \subseteq [1..Slots -> Nat]

Slot == 1..Slots       \* in the order of _generation_slot_order
Rest == 2..Slots       \* the remainder

Provider == {"google_nano_banana", "openai_image"}
MaxRetries == 1        \* with_retry(..., max_retries=1), outside and inside
Repeat == MaxRetries + 2   \* attempt(job.seed + 1), outside of with_retry

VARIABLES
  \* the request
  worker,    \* "pack" or "triad"
  provider,  \* by slot
  ordinal,   \* by slot: slot.ordinal, or the index of a variant
  priced,    \* the slots whose dimensions the cost table knows
  \* the worker
  stage,     \* "first", "batch" or "slots"
  at,        \* by slot: "asking", "storing", "done" or "raised"
  outer,     \* by slot: the attempt of the worker, from 1
  inner,     \* by slot: the attempt of the provider, from 1
  seed,      \* by slot: the seed of the next call, above the base seed
  inHand,    \* by slot: the image to be stored, or whose repeat is asked for
  next,      \* the slot the batch asks for next
  \* the provider and the database
  calls,     \* every call made and whether it gave an image
  billed,    \* the calls whose cost is in tool_calls
  failed     \* the slots with an error in tool_calls

request == <<worker, provider, ordinal, priced>>
tries == <<outer, inner, seed>>
ledger == <<billed, failed>>
vars == <<request, stage, at, tries, inHand, next, calls, ledger>>

CallType == [slot : Slot, path : {"single", "batch"}, outer : 1..Repeat,
             inner : 1..MaxRetries + 1, seed : Nat, image : BOOLEAN]

ASSUME NoCallAssumption == NoCall \notin CallType

(* base_seed + ordinal, or base_seed + index: the seed in the metadata of  *)
(* the row, which no later write changes.                                  *)
Stored(s) == ordinal[s]

BatchSeed == CHOOSE n \in {ordinal[s] : s \in Rest} : \A s \in Rest : n <= ordinal[s]

(* The remainder has one provider, and it supports_pack_consistent.        *)
Batched == worker = "pack" /\ Rest # {} /\ \A s \in Rest : provider[s] = "google_nano_banana"

Init ==
  /\ worker \in {"pack", "triad"}
  /\ provider \in [Slot -> Provider]
  /\ priced \in SUBSET Slot
  /\ \/ worker = "pack" /\ ordinal \in Ordinals
     \/ /\ worker = "triad" /\ ordinal = [s \in Slot |-> s - 1]
        /\ \A s \in Slot : provider[s] = provider[1]
  /\ stage = IF worker = "pack" THEN "first" ELSE "slots"
  /\ at = [s \in Slot |-> "asking"]
  /\ outer = [s \in Slot |-> 1] /\ inner = [s \in Slot |-> 1]
  /\ seed = [s \in Slot |-> Stored(s)]
  /\ inHand = [s \in Slot |-> NoCall]
  /\ next = 2
  /\ calls = {} /\ billed = {} /\ failed = {}

-----------------------------------------------------------------------------
(* The slots of a pack are generated and stored one after the other, the   *)
(* variants of a triad side by side. An exception ends the run of a pack.  *)
InTurn(s) == worker = "triad" \/ \A t \in 1..(s - 1) : at[t] = "done"

Turn(s) ==
  /\ at[s] = "asking" /\ InTurn(s)
  /\ worker = "pack" => stage = IF s = 1 THEN "first" ELSE "slots"

ThisCall(s, image) ==
  [slot |-> s, path |-> "single", outer |-> outer[s], inner |-> inner[s],
   seed |-> seed[s], image |-> image]

(* generate_single looks the cost up before it asks for anything.          *)
Asks(s, image) ==
  /\ Turn(s) /\ s \in priced
  /\ calls' = calls \cup {ThisCall(s, image)}
  /\ UNCHANGED <<request, next>>

Ends(s, label) ==
  /\ at' = [at EXCEPT ![s] = label]
  /\ stage' = IF stage = "first" /\ label = "done"
                THEN IF Batched THEN "batch" ELSE "slots"
                ELSE stage
  /\ UNCHANGED tries

(* What the last answer leaves to be stored: an image, or an error.        *)
Keeps(s, c) ==
  /\ at' = [at EXCEPT ![s] = "storing"]
  /\ inHand' = [inHand EXCEPT ![s] = c]
  /\ UNCHANGED <<stage, tries, ledger>>

Attempt(s, o, i, n) ==
  /\ outer' = [outer EXCEPT ![s] = o]
  /\ inner' = [inner EXCEPT ![s] = i]
  /\ seed' = [seed EXCEPT ![s] = n]
  /\ UNCHANGED <<stage, at, ledger>>

(* UnknownModelVersion from the cost table is no ProviderError.            *)
Unpriced(s) ==
  /\ Turn(s) /\ s \notin priced
  /\ Ends(s, "raised")
  /\ UNCHANGED <<request, inHand, next, calls, ledger>>

Answered(s) ==
  /\ Asks(s, TRUE)
  /\ Keeps(s, ThisCall(s, TRUE))

(* AUTO_RETRY_FAILURE_MODES: once more, with the seed after the first one. *)
AnsweredFlawed(s) ==
  /\ worker = "triad" /\ outer[s] # Repeat
  /\ Asks(s, TRUE)
  /\ inHand' = [inHand EXCEPT ![s] = ThisCall(s, TRUE)]
  /\ Attempt(s, Repeat, 1, Stored(s) + 1)

(* No image in the answer, or a TimeoutError, and this was the provider's  *)
(* first attempt.                                                          *)
AsksAgain(s) ==
  /\ provider[s] = "google_nano_banana" /\ inner[s] <= MaxRetries
  /\ Asks(s, FALSE)
  /\ Attempt(s, outer[s], inner[s] + 1, seed[s] + 1)
  /\ UNCHANGED inHand

(* Mutant: a repeat that is refused fails the variant. *)
RefusedRepeatFails(s) ==
  /\ Asks(s, FALSE)
  /\ \/ /\ outer[s] <= MaxRetries
        /\ Attempt(s, outer[s] + 1, 1, Stored(s) + 1)
        /\ UNCHANGED inHand
     \/ outer[s] > MaxRetries /\ Keeps(s, NoCall)

(* Mutant: the retry has the same seed. *)
RefusedSameSeed(s) ==
  /\ Asks(s, FALSE)
  /\ \/ /\ outer[s] <= MaxRetries
        /\ Attempt(s, outer[s] + 1, 1, Stored(s))
        /\ UNCHANGED inHand
     \/ outer[s] = MaxRetries + 1 /\ Keeps(s, NoCall)
     \/ outer[s] = Repeat /\ Keeps(s, inHand[s])

(* The worker gets a ProviderError: from Google whatever went wrong, and   *)
(* at once if it is not the kind its own with_retry repeats; from OpenAI   *)
(* an APIError or an answer without image.                                 *)
Refused(s) ==
  /\ Asks(s, FALSE)
  /\ \/ /\ outer[s] <= MaxRetries
        /\ Attempt(s, outer[s] + 1, 1, Stored(s) + 1)
        /\ UNCHANGED inHand
     \/ outer[s] = MaxRetries + 1 /\ Keeps(s, NoCall)
     \/ outer[s] = Repeat /\ Keeps(s, inHand[s])

(* Anything else leaves the OpenAI provider as it is, and no one retries.  *)
Garbled(s) ==
  /\ provider[s] = "openai_image"
  /\ Asks(s, FALSE)
  /\ Ends(s, "raised")
  /\ UNCHANGED <<inHand, ledger>>

-----------------------------------------------------------------------------
(* _run_pack_genai_sdk: one call per slot of the remainder, all with one   *)
(* seed and without retry.                                                 *)
BatchCall(s, image) ==
  [slot |-> s, path |-> "batch", outer |-> 1, inner |-> 1,
   seed |-> BatchSeed, image |-> image]

AsksInBatch(s, image) ==
  /\ stage = "batch" /\ s = next /\ at[s] = "asking"
  /\ calls' = calls \cup {BatchCall(s, image)}
  /\ UNCHANGED <<request, tries, ledger>>

BatchGoesOn(s) ==
  /\ AsksInBatch(s, TRUE)
  /\ s # Slots
  /\ next' = next + 1
  /\ UNCHANGED <<stage, at, inHand>>

(* The cost is looked up when the images are there, outside of the try.    *)
BatchSucceeds(s) ==
  /\ AsksInBatch(s, TRUE)
  /\ s = Slots
  /\ \/ /\ Rest \subseteq priced
        /\ at' = [t \in Slot |-> IF t \in Rest THEN "storing" ELSE at[t]]
        /\ inHand' = [t \in Slot |-> IF t \in Rest THEN BatchCall(t, TRUE) ELSE inHand[t]]
     \/ /\ ~(Rest \subseteq priced)
        /\ at' = [t \in Slot |-> IF t \in Rest THEN "raised" ELSE at[t]]
        /\ UNCHANGED inHand
  /\ UNCHANGED <<stage, next>>

(* One failure, and the images that the batch already has are dropped.     *)
BatchFails(s) ==
  /\ AsksInBatch(s, FALSE)
  /\ stage' = "slots"
  /\ UNCHANGED <<at, next, inHand>>

-----------------------------------------------------------------------------
(* _finalize_slot_success and _finalize_hero_slot, or mark_asset_failed:   *)
(* the row, the object, and last the tool call with the cost of this image *)
(* only, or with the error.                                                *)
CanStore(s) == at[s] = "storing" /\ InTurn(s)

Store(s) ==
  /\ CanStore(s) /\ Ends(s, "done")
  /\ \/ /\ inHand[s] # NoCall
        /\ billed' = billed \cup {inHand[s]} /\ UNCHANGED failed
     \/ /\ inHand[s] = NoCall
        /\ failed' = failed \cup {s} /\ UNCHANGED billed
  /\ inHand' = [inHand EXCEPT ![s] = NoCall]
  /\ UNCHANGED <<request, next, calls>>

(* An image the check cannot decode, R2 or the database: nobody tries      *)
(* again, and the images of a batch behind this one are not stored either. *)
StoreFails(s) ==
  /\ CanStore(s) /\ Ends(s, "raised")
  /\ UNCHANGED <<request, inHand, next, calls, ledger>>

-----------------------------------------------------------------------------
SlotStep(s) ==
  \/ Unpriced(s) \/ Answered(s) \/ AnsweredFlawed(s)
  \/ AsksAgain(s) \/ Refused(s) \/ Garbled(s)

Batch(s) == BatchGoesOn(s) \/ BatchSucceeds(s) \/ BatchFails(s)

Storing(s) == Store(s) \/ StoreFails(s)

Next == \E s \in Slot : SlotStep(s) \/ Batch(s) \/ Storing(s)

Spec == Init /\ [][Next]_vars

-----------------------------------------------------------------------------
TypeOK ==
  /\ worker \in {"pack", "triad"}
  /\ provider \in [Slot -> Provider]
  /\ ordinal \in [Slot -> Nat]
  /\ priced \subseteq Slot
  /\ stage \in {"first", "batch", "slots"}
  /\ at \in [Slot -> {"asking", "storing", "done", "raised"}]
  /\ outer \in [Slot -> 1..Repeat] /\ inner \in [Slot -> 1..MaxRetries + 1]
  /\ seed \in [Slot -> Nat]
  /\ inHand \in [Slot -> calls \cup {NoCall}]
  /\ next \in Nat
  /\ calls \subseteq CallType
  /\ billed \subseteq calls /\ failed \subseteq Slot

Single(s) == {c \in calls : c.slot = s /\ c.path = "single"}

(* The seed of an attempt: one more for a second attempt of the worker,    *)
(* or the repeat, and one more for a second attempt of the provider.       *)
SeedOf(s, o, i) == Stored(s) + (IF o = 1 THEN 0 ELSE 1) + (i - 1)

Before(c, o, i) == c.outer < o \/ (c.outer = o /\ c.inner < i)

Replaced(c) == \E d \in billed : d.slot = c.slot /\ d.outer = Repeat

GivenUp(s) == s \in failed \/ (at[s] = "storing" /\ inHand[s] = NoCall)

WasRetried(s) ==
  /\ \A c \in Single(s) : ~c.image
  /\ \E c, d \in Single(s) : c.seed = Stored(s) /\ d.seed = Stored(s) + 1

(* An image in hand while the slot asks is the one whose repeat it asks    *)
(* for.                                                                    *)
HandHolds(s) ==
  /\ outer[s] = Repeat => worker = "triad"
  /\ at[s] = "asking" /\ outer[s] = Repeat => inHand[s] \in Single(s)
  /\ inHand[s] # NoCall => at[s] # "done" /\ inHand[s].slot = s /\ inHand[s].image
  /\ at[s] = "asking" /\ inHand[s] # NoCall => outer[s] = Repeat /\ inHand[s].outer # Repeat

(* The calls of a slot so far and which of their images it still has, and  *)
(* how a slot ended is what tool_calls has of it, once.                    *)
SlotHolds(s) ==
  /\ seed[s] = SeedOf(s, outer[s], inner[s])
  /\ \A c \in Single(s) : c.seed = SeedOf(s, c.outer, c.inner)
  /\ at[s] = "asking" => \A c \in Single(s) :
       Before(c, outer[s], inner[s]) /\ (c.image => c = inHand[s])
  /\ at[s] = "asking" /\ outer[s] = 2 => \E c \in Single(s) : c.outer = 1 /\ c.inner = 1
  /\ at[s] = "asking" /\ inner[s] = 2 => \E c \in Single(s) : c.outer = outer[s] /\ c.inner = 1
  /\ at[s] = "storing" => \A c \in Single(s) : c.image =>
       c = inHand[s] \/ (inHand[s] \in Single(s) /\ inHand[s].outer = Repeat)
  /\ at[s] = "done" => \A c \in Single(s) : c.image => c \in billed \/ Replaced(c)
  /\ GivenUp(s) => WasRetried(s)
  /\ s \in failed => at[s] = "done"
  /\ \A c \in billed : c.slot = s => at[s] = "done" /\ c.image /\ s \notin failed
  /\ \A c, d \in billed : c.slot = s /\ d.slot = s => c = d
  /\ at[s] = "done" => s \in failed \/ \E c \in billed : c.slot = s

(* A batch has an image of every slot before next and nothing of the       *)
(* others; when it has them all it stores them all, or up to the first     *)
(* that raises.                                                            *)
BatchStores ==
  \A s \in Rest :
    /\ at[s] # "asking"
    /\ at[s] = "storing" => inHand[s] = BatchCall(s, TRUE)
    /\ at[s] = "done" => BatchCall(s, TRUE) \in billed

BatchHolds ==
  /\ stage = "first" => next = 2 /\ \A s \in Rest : at[s] = "asking"
  /\ stage # "slots" => worker = "pack"
  /\ stage = "batch" =>
       /\ at[1] = "done" /\ next \in Rest
       /\ \/ /\ \A s \in Rest : at[s] = "asking"
             /\ \A s \in 2..(next - 1) : BatchCall(s, TRUE) \in calls
          \/ BatchStores
  /\ \A c \in calls : c.path = "batch" =>
       /\ c = BatchCall(c.slot, c.image) /\ c.slot \in Rest
       /\ (stage = "batch" /\ c.image) \/ \E d \in calls : d.path = "batch" /\ ~d.image

(* The inductive invariant. *)
CallsInv == TypeOK /\ BatchHolds /\ \A s \in Slot : HandHolds(s) /\ SlotHolds(s)

(* packet/SPEC.md:145 has every provider call write a tool_calls row. What *)
(* the code does of it: when a slot comes to its end, every image that was *)
(* made for it has its cost there, but for those of a batch in which       *)
(* another call failed, and the flawed image whose repeat took its place.  *)
(* A slot that raises between the answer and insert_tool_call does not     *)
(* come to its end: StoreFails leaves its image, and those of its batch    *)
(* behind it, without a row.                                               *)
BatchAborted(c) == c.path = "batch" /\ \E d \in calls : d.path = "batch" /\ ~d.image

ImagesAreBilled ==
  \A c \in calls : c.image /\ at[c.slot] = "done" =>
    c \in billed \/ BatchAborted(c) \/ Replaced(c)

(* ADR 0007:78: a slot is given up only after a retry with a new seed,     *)
(* also after a failed batch, and never while an image of it is in hand.   *)
FailedSlotsWereRetried == \A s \in Slot : GivenUp(s) => WasRetried(s)

-----------------------------------------------------------------------------
(* How much a run may ask for. *)

(* A pack is over at its first exception, a triad when each of its         *)
(* variants has come to an end.                                            *)
Over ==
  \/ \A s \in Slot : at[s] \in {"done", "raised"}
  \/ worker = "pack" /\ \E s \in Slot : at[s] = "raised"

CanAsk(s) == Turn(s) \/ (stage = "batch" /\ s = next /\ at[s] = "asking")

(* The order of a pack, hero first and the remainder in a batch or one by  *)
(* one, leaves no slot that nobody will ask for or store.                  *)
SomebodyAsks == Over \/ \E s \in Slot : CanAsk(s) \/ CanStore(s)

(* Two attempts of the provider in each of two attempts of the worker, and *)
(* in the repeat of a flawed image.                                        *)
AttemptsLeft(s) ==
  IF at[s] = "asking" THEN (MaxRetries + 1) * (Repeat - outer[s]) + (MaxRetries + 2 - inner[s])
                      ELSE 0

BatchLeft ==
  CASE stage = "first" -> Slots
    [] stage = "batch" /\ at[next] = "asking" -> Slots + 1 - next
    [] OTHER -> 0

(* Six calls for a slot at most, and one more for it in a batch: the two   *)
(* retries within one another, the fallback and the repeat add to no more, *)
(* and none of the calls is made twice.                                    *)
AttemptsAreCounted ==
  [][/\ BatchLeft' <= BatchLeft
     /\ \A s \in Slot :
          /\ AttemptsLeft(s)' <= AttemptsLeft(s)
          /\ SlotStep(s) => AttemptsLeft(s)' < AttemptsLeft(s)
          /\ SlotStep(s) /\ s \in priced =>
               \E image \in BOOLEAN : /\ ThisCall(s, image) \notin calls
                                      /\ calls' = calls \cup {ThisCall(s, image)}
          /\ Batch(s) => BatchLeft' < BatchLeft
          /\ Storing(s) => calls' = calls]_vars
=============================================================================
