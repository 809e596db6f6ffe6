------------------------ MODULE ProviderCalls_proofs ------------------------
(***************************************************************************)
(* For any number of slots, any ordinals, providers and price tables, and  *)
(* whatever the providers answer.                                          *)
(***************************************************************************)
EXTENDS ProviderCalls, WellFoundedInduction, TLAPS

LEMMA Constants == Slots \in Nat \ {0} /\ 1 \in Slot /\ Rest \subseteq Slot /\ Slot \subseteq Nat
  BY SlotsAssumption DEF Slot, Rest

(* A batch, which has at least one slot, has a seed. *)
LEMMA BatchSeedType ==
  ASSUME ordinal \in [Slot -> Nat], Rest # {}
  PROVE  BatchSeed \in Nat
<1> DEFINE S == {ordinal[s] : s \in Rest}
<1>1. S \subseteq Nat /\ S # {}
  BY Constants
<1>2. \E x \in S : \A y \in S : ~ (<<y, x>> \in OpToRel(<, Nat))
  <2> HIDE DEF S
  <2> QED
    BY <1>1, WFMin, NatLessThanWellFounded
<1>3. \E x \in S : \A s \in Rest : x <= ordinal[s]
  <2>1. PICK x \in S : \A y \in S : ~ (<<y, x>> \in OpToRel(<, Nat))
    BY <1>2
  <2>2. ASSUME NEW s \in Rest PROVE x <= ordinal[s]
    <3>1. ordinal[s] \in S /\ ordinal[s] \in Nat /\ x \in Nat
      BY <1>1, Constants
    <3>2. ~(ordinal[s] < x)
      BY <2>1, <3>1, <1>1 DEF OpToRel
    <3> QED
      BY <3>1, <3>2
  <2> QED
    BY <2>2
<1>4. BatchSeed \in S
  BY <1>3 DEF BatchSeed
<1> QED
  BY <1>1, <1>4

LEMMA InitCallsInv == Init => CallsInv
<1> SUFFICES ASSUME Init PROVE CallsInv
  OBVIOUS
<1>1. ordinal \in [Slot -> Nat]
  BY OrdinalsAssumption, Constants DEF Init, Slot
<1>2. TypeOK
  BY <1>1, Constants DEF Init, TypeOK, Stored, Repeat, MaxRetries
<1>3. BatchHolds
  BY Constants DEF Init, BatchHolds
<1>4. ASSUME NEW s \in Slot PROVE HandHolds(s) /\ SlotHolds(s)
  BY <1>1, <1>4 DEF Init, HandHolds, SlotHolds, GivenUp, Single, SeedOf, Stored, Repeat, MaxRetries
<1> QED
  BY <1>2, <1>3, <1>4 DEF CallsInv

-----------------------------------------------------------------------------
(* Typing. *)

LEMMA CallTypes ==
  ASSUME TypeOK, NEW s \in Slot, NEW image \in BOOLEAN
  PROVE  /\ ThisCall(s, image) \in CallType
         /\ Rest # {} => BatchCall(s, image) \in CallType
<1>1. /\ outer[s] \in 1..Repeat /\ inner[s] \in 1..MaxRetries + 1 /\ seed[s] \in Nat
      /\ Rest # {} => BatchSeed \in Nat
  BY BatchSeedType DEF TypeOK
<1> QED
  BY <1>1 DEF ThisCall, BatchCall, CallType, Repeat, MaxRetries

(* An attempt that a with_retry or the repeat may make. *)
LEMMA AttemptTyped ==
  ASSUME TypeOK, NEW s \in Slot, NEW image \in BOOLEAN, Asks(s, image),
         NEW o \in 1..Repeat, NEW i \in 1..MaxRetries + 1, NEW n \in Nat, Attempt(s, o, i, n),
         inHand' \in [Slot -> calls' \cup {NoCall}]
  PROVE  TypeOK'
<1>1. calls' \subseteq CallType /\ billed' \subseteq calls'
  BY CallTypes DEF TypeOK, Asks, Attempt, ledger
<1>2. outer' \in [Slot -> 1..Repeat] /\ inner' \in [Slot -> 1..MaxRetries + 1] /\ seed' \in [Slot -> Nat]
  BY DEF TypeOK, Attempt
<1> QED
  BY <1>1, <1>2 DEF TypeOK, Asks, Attempt, request, ledger

(* The end of a slot. *)
LEMMA EndTyped ==
  ASSUME TypeOK, NEW s \in Slot, NEW label \in {"done", "raised"}, Ends(s, label), UNCHANGED <<request, next>>,
         calls' \subseteq CallType, billed' \subseteq calls', failed' \subseteq Slot,
         inHand' \in [Slot -> calls' \cup {NoCall}]
  PROVE  TypeOK'
  BY DEF TypeOK, Ends, request, tries

(* What the last answer of a slot leaves to be stored. *)
LEMMA KeepTyped ==
  ASSUME TypeOK, NEW s \in Slot, NEW image \in BOOLEAN, Asks(s, image),
         NEW c \in calls' \cup {NoCall}, Keeps(s, c)
  PROVE  TypeOK'
<1>1. calls' \subseteq CallType /\ billed' \subseteq calls'
  BY CallTypes DEF TypeOK, Asks, Keeps, ledger
<1>2. /\ at' \in [Slot -> {"asking", "storing", "done", "raised"}]
      /\ inHand' \in [Slot -> calls' \cup {NoCall}]
  BY DEF TypeOK, Asks, Keeps
<1> QED
  BY <1>1, <1>2 DEF TypeOK, Asks, Keeps, request, ledger, tries

LEMMA SlotStepTyped ==
  ASSUME CallsInv, NEW s \in Slot, SlotStep(s)
  PROVE  TypeOK'
<1>1. \A image \in BOOLEAN : ThisCall(s, image) \in CallType
  BY CallTypes DEF CallsInv
<1>2. /\ TypeOK
      /\ Stored(s) + 1 \in Nat /\ seed[s] + 1 \in Nat
      /\ outer[s] \in 1..Repeat /\ 1 \in 1..Repeat /\ Repeat \in 1..Repeat
      /\ inner[s] \in 1..MaxRetries + 1 /\ 1 \in 1..MaxRetries + 1
      /\ outer[s] <= MaxRetries => outer[s] + 1 \in 1..Repeat
      /\ inner[s] <= MaxRetries => inner[s] + 1 \in 1..MaxRetries + 1
  BY DEF CallsInv, TypeOK, Stored, Repeat, MaxRetries
<1>3. CASE Unpriced(s)
  BY <1>2, <1>3, EndTyped DEF Unpriced, TypeOK, ledger
<1>4. CASE Answered(s)
  <2>1. ThisCall(s, TRUE) \in calls'
    BY <1>4 DEF Answered, Asks
  <2> QED
    BY <1>2, <1>4, <2>1, KeepTyped DEF Answered
<1>5. CASE AnsweredFlawed(s)
  <2>1. inHand' \in [Slot -> calls' \cup {NoCall}]
    BY <1>2, <1>5 DEF AnsweredFlawed, Asks, TypeOK
  <2> QED
    BY <1>2, <1>5, <2>1, AttemptTyped DEF AnsweredFlawed
<1>6. CASE AsksAgain(s)
  <2>1. inHand' \in [Slot -> calls' \cup {NoCall}]
    BY <1>2, <1>6 DEF AsksAgain, Asks, TypeOK
  <2> QED
    BY <1>2, <1>6, <2>1, AttemptTyped DEF AsksAgain
<1>7. CASE Refused(s)
  <2> USE DEF Refused
  <2>1. CASE outer[s] <= MaxRetries /\ Attempt(s, outer[s] + 1, 1, Stored(s) + 1) /\ UNCHANGED inHand
    <3>1. inHand' \in [Slot -> calls' \cup {NoCall}]
      BY <1>2, <1>7, <2>1 DEF Asks, TypeOK
    <3> QED
      BY <1>2, <1>7, <2>1, <3>1, AttemptTyped
  <2>2. CASE Keeps(s, NoCall)
    BY <1>2, <1>7, <2>2, KeepTyped
  <2>3. CASE Keeps(s, inHand[s])
    <3>1. inHand[s] \in calls' \cup {NoCall}
      BY <1>2, <1>7 DEF TypeOK, Asks
    <3> QED
      BY <1>2, <1>7, <2>3, <3>1, KeepTyped
  <2> QED
    BY <1>7, <2>1, <2>2, <2>3
<1>8. CASE Garbled(s)
  <2>1. /\ Ends(s, "raised") /\ UNCHANGED <<request, next>>
        /\ calls' \subseteq CallType /\ billed' \subseteq calls' /\ failed' \subseteq Slot
        /\ inHand' \in [Slot -> calls' \cup {NoCall}]
    BY <1>1, <1>2, <1>8 DEF Garbled, Asks, TypeOK, ledger
  <2> QED
    BY <1>2, <2>1, EndTyped
<1> QED
  BY <1>3, <1>4, <1>5, <1>6, <1>7, <1>8 DEF SlotStep

LEMMA BatchTyped ==
  ASSUME CallsInv, NEW s \in Slot, Batch(s)
  PROVE  TypeOK'
<1>1. /\ TypeOK /\ stage = "batch" /\ s = next /\ next \in Rest
      /\ \A t \in Rest, image \in BOOLEAN : BatchCall(t, image) \in CallType
  BY CallTypes, Constants DEF CallsInv, BatchHolds, Batch, BatchGoesOn, BatchSucceeds, BatchFails, AsksInBatch
<1> USE DEF AsksInBatch
<1>5. PICK image \in BOOLEAN : AsksInBatch(s, image)
  BY DEF Batch, BatchGoesOn, BatchSucceeds, BatchFails
<1>6. /\ UNCHANGED <<worker, provider, ordinal, priced, outer, inner, seed, billed, failed>>
      /\ calls \subseteq calls' /\ billed \subseteq calls' /\ calls' \subseteq CallType
      /\ inHand \in [Slot -> calls' \cup {NoCall}]
  BY <1>1, <1>5 DEF TypeOK, request, tries, ledger
<1>2. CASE BatchGoesOn(s)
  <2>1. next' = next + 1 /\ UNCHANGED <<stage, at, inHand>>
    BY <1>2 DEF BatchGoesOn
  <2> QED
    BY <1>1, <1>6, <2>1 DEF TypeOK
<1>3. CASE BatchSucceeds(s)
  <2>1. at[next] = "asking" /\ next = Slots /\ calls' = calls \cup {BatchCall(Slots, TRUE)}
    BY <1>1, <1>3 DEF BatchSucceeds
  <2>2. \A t \in Rest : BatchCall(t, TRUE) \in calls'
    <3>1. \A t \in 2..(next - 1) : BatchCall(t, TRUE) \in calls
      BY <1>1, <2>1 DEF CallsInv, BatchHolds, BatchStores
    <3>2. \A t \in Rest : t = Slots \/ t \in 2..(next - 1)
      BY <2>1, Constants DEF Rest
    <3> QED
      BY <1>1, <2>1, <3>1, <3>2
  <2>3. inHand' \in [Slot -> calls' \cup {NoCall}]
    BY <1>3, <1>6, <2>2 DEF BatchSucceeds
  <2>4. at' \in [Slot -> {"asking", "storing", "done", "raised"}] /\ UNCHANGED <<stage, next>>
    BY <1>1, <1>3 DEF BatchSucceeds, TypeOK
  <2> QED
    BY <1>1, <1>6, <2>3, <2>4 DEF TypeOK
<1>4. CASE BatchFails(s)
  BY <1>1, <1>4, <1>6 DEF BatchFails, TypeOK
<1> QED
  BY <1>2, <1>3, <1>4 DEF Batch

LEMMA StoringTyped ==
  ASSUME CallsInv, NEW s \in Slot, Storing(s)
  PROVE  TypeOK'
<1>1. /\ TypeOK /\ UNCHANGED <<request, next, calls>> /\ \E label \in {"done", "raised"} : Ends(s, label)
      /\ inHand[s] \in calls \cup {NoCall}
  BY DEF CallsInv, TypeOK, Storing, Store, StoreFails
<1>2. billed' \subseteq calls' /\ failed' \subseteq Slot /\ calls' \subseteq CallType
  BY <1>1 DEF Storing, Store, StoreFails, ledger, TypeOK
<1>3. inHand' \in [Slot -> calls' \cup {NoCall}]
  BY <1>1 DEF Storing, Store, StoreFails, TypeOK
<1> QED
  BY <1>1, <1>2, <1>3, EndTyped

-----------------------------------------------------------------------------
(* A step of one slot leaves the others alone. *)

Billed(s) == {c \in billed : c.slot = s}

About(s) == <<worker, ordinal, at[s], outer[s], inner[s], seed[s], inHand[s],
              Single(s), Billed(s), {t \in failed : t = s}>>

LEMMA Untouched ==
  ASSUME NEW s \in Slot, HandHolds(s), SlotHolds(s), UNCHANGED About(s)
  PROVE  HandHolds(s)' /\ SlotHolds(s)'
<1>1. /\ UNCHANGED <<worker, ordinal, at[s], outer[s], inner[s], seed[s], inHand[s], Single(s)>>
      /\ \A c : c \in billed' /\ c.slot = s <=> c \in billed /\ c.slot = s
      /\ s \in failed' <=> s \in failed
  BY DEF About, Billed
<1>2. HandHolds(s)'
  BY <1>1 DEF HandHolds
<1>3. SlotHolds(s)'
  <2>1. \A o, i : SeedOf(s, o, i)' = SeedOf(s, o, i)
    BY <1>1 DEF SeedOf, Stored
  <2>2. \A c : Before(c, outer[s], inner[s])' <=> Before(c, outer[s], inner[s])
    BY <1>1 DEF Before
  <2>3. \A c : c.slot = s => (Replaced(c)' <=> Replaced(c)) /\ (c \in billed' <=> c \in billed)
    BY <1>1 DEF Replaced
  <2>4. (GivenUp(s)' <=> GivenUp(s)) /\ (WasRetried(s)' <=> WasRetried(s))
    BY <1>1 DEF GivenUp, WasRetried, Stored
  <2>5. \A c \in Single(s) : c.slot = s
    BY DEF Single
  <2> QED
    BY <1>1, <2>1, <2>2, <2>3, <2>4, <2>5 DEF SlotHolds
<1> QED
  BY <1>2, <1>3

LEMMA OtherSlots ==
  ASSUME CallsInv, NEW s \in Slot, SlotStep(s) \/ Storing(s), NEW t \in Slot, t # s
  PROVE  HandHolds(t)' /\ SlotHolds(t)'
<1> USE DEF SlotStep, Unpriced, Answered, AnsweredFlawed, AsksAgain, Refused, Garbled, Storing, Store,
            StoreFails
<1>1. UNCHANGED <<worker, ordinal>> /\ at'[t] = at[t] /\ inHand'[t] = inHand[t]
  BY DEF CallsInv, TypeOK, Asks, Attempt, Keeps, Ends, request, ledger
<1>2. outer'[t] = outer[t] /\ inner'[t] = inner[t] /\ seed'[t] = seed[t]
  BY DEF CallsInv, TypeOK, Asks, Attempt, Keeps, Ends, tries
<1>3. Single(t)' = Single(t)
  <2>1. calls' = calls \/ \E image : calls' = calls \cup {ThisCall(s, image)}
    BY DEF Asks
  <2> QED
    BY <2>1 DEF Single, ThisCall
<1>4. Billed(t)' = Billed(t)
  <2>1. billed' = billed \/ (inHand[s] # NoCall /\ billed' = billed \cup {inHand[s]})
    BY DEF Keeps, Attempt, ledger
  <2>2. inHand[s] # NoCall => inHand[s].slot = s
    BY DEF CallsInv, HandHolds
  <2> QED
    BY <2>1, <2>2 DEF Billed
<1>5. failed' = failed \/ failed' = failed \cup {s}
  BY DEF Keeps, Attempt, ledger
<1>6. UNCHANGED About(t)
  BY <1>1, <1>2, <1>3, <1>4, <1>5 DEF About
<1> QED
  BY <1>6, Untouched DEF CallsInv
-----------------------------------------------------------------------------
(* The slot of a step. *)

(* What a slot that is asked for has, and has not.                         *)
LEMMA Asking ==
  ASSUME CallsInv, NEW s \in Slot, at[s] = "asking"
  PROVE  /\ s \notin failed /\ \A c \in billed : c.slot # s
         /\ outer[s] # Repeat => inHand[s] = NoCall /\ \A c \in Single(s) : ~c.image
  BY NoCallAssumption DEF CallsInv, TypeOK, HandHolds, SlotHolds, Single

(* Nothing is in tool_calls before the last step of a slot.                *)
LEMMA NotYet ==
  ASSUME CallsInv, NEW s \in Slot, at[s] # "done"
  PROVE  s \notin failed /\ \A c \in billed : c.slot # s
  BY DEF CallsInv, SlotHolds

(* The answer of a provider and what it adds to the calls of the slot.     *)
LEMMA Asked ==
  ASSUME CallsInv, NEW s \in Slot, NEW image \in BOOLEAN, Asks(s, image)
  PROVE  /\ at[s] = "asking" /\ UNCHANGED <<worker, ordinal>>
         /\ Single(s)' = Single(s) \cup {ThisCall(s, image)}
         /\ \A o, i : SeedOf(s, o, i)' = SeedOf(s, o, i)
         /\ \A c \in Single(s)' : c.seed = SeedOf(s, c.outer, c.inner)
<1>1. at[s] = "asking" /\ UNCHANGED <<worker, ordinal>>
  BY DEF Asks, Turn, request
<1>2. Single(s)' = Single(s) \cup {ThisCall(s, image)}
  BY DEF Asks, Single, ThisCall
<1>3. \A o, i : SeedOf(s, o, i)' = SeedOf(s, o, i)
  BY <1>1 DEF SeedOf, Stored
<1>4. ThisCall(s, image).seed = SeedOf(s, ThisCall(s, image).outer, ThisCall(s, image).inner)
  BY DEF CallsInv, SlotHolds, ThisCall
<1>5. \A c \in Single(s) : c.seed = SeedOf(s, c.outer, c.inner)
  BY DEF CallsInv, SlotHolds
<1> QED
  BY <1>1, <1>2, <1>3, <1>4, <1>5

(* Another attempt: of the provider, of the worker, or the repeat.         *)
Again(s, image, o, i, n) ==
  /\ Asks(s, image) /\ Attempt(s, o, i, n) /\ n = SeedOf(s, o, i)
  /\ Before(ThisCall(s, image), o, i)
  /\ \A c \in Single(s) : Before(c, outer[s], inner[s]) => Before(c, o, i)
  /\ o = 2 => \E c \in Single(s)' : c.outer = 1 /\ c.inner = 1
  /\ i = 2 => o = outer[s] /\ inner[s] = 1
  /\ \/ ~image /\ UNCHANGED inHand /\ (o = Repeat <=> outer[s] = Repeat)
     \/ /\ worker = "triad" /\ o = Repeat /\ i = 1 /\ outer[s] # Repeat /\ image
        /\ inHand' = [inHand EXCEPT ![s] = ThisCall(s, image)]

LEMMA TriesAgain ==
  ASSUME CallsInv, NEW s \in Slot, NEW image \in BOOLEAN,
         NEW o \in 1..Repeat, NEW i \in 1..MaxRetries + 1, NEW n \in Nat, Again(s, image, o, i, n)
  PROVE  HandHolds(s)' /\ SlotHolds(s)'
<1> USE DEF Repeat, MaxRetries, Again
<1>1. /\ at[s] = "asking" /\ at' = at /\ UNCHANGED <<worker, ordinal, billed, failed>>
      /\ outer'[s] = o /\ inner'[s] = i /\ seed'[s] = SeedOf(s, o, i)
      /\ HandHolds(s) /\ SlotHolds(s) /\ TypeOK
  BY Asked DEF Attempt, ledger, CallsInv, TypeOK
<1>2. /\ Single(s)' = Single(s) \cup {ThisCall(s, image)}
      /\ \A p, q : SeedOf(s, p, q)' = SeedOf(s, p, q)
      /\ \A c \in Single(s)' : c.seed = SeedOf(s, c.outer, c.inner)
  BY Asked
<1>3. HandHolds(s)'
  <2>1. CASE UNCHANGED inHand /\ (o = Repeat <=> outer[s] = Repeat)
    BY <1>1, <1>2, <2>1 DEF HandHolds
  <2>2. CASE /\ worker = "triad" /\ o = Repeat /\ outer[s] # Repeat /\ image
             /\ inHand' = [inHand EXCEPT ![s] = ThisCall(s, image)]
    <3>1. /\ inHand'[s] = ThisCall(s, image) /\ ThisCall(s, image).outer # Repeat
          /\ ThisCall(s, image).image /\ ThisCall(s, image).slot = s
      BY <1>1, <2>2 DEF TypeOK, ThisCall
    <3> QED
      BY <1>1, <1>2, <2>2, <3>1 DEF HandHolds
  <2> QED
    BY <2>1, <2>2
<1>4. \A c \in Single(s)' : Before(c, outer[s], inner[s])' /\ (c.image => c = inHand'[s])
  <2>1. \A c \in Single(s)' : Before(c, o, i)
    BY <1>1, <1>2 DEF SlotHolds
  <2>2. \A c \in Single(s)' : c.image => c = inHand'[s]
    <3>1. CASE ~image /\ UNCHANGED inHand
      BY <1>1, <1>2, <3>1 DEF SlotHolds, ThisCall
    <3>2. CASE outer[s] # Repeat /\ inHand' = [inHand EXCEPT ![s] = ThisCall(s, image)]
      BY <1>1, <1>2, <3>2, Asking DEF TypeOK
    <3> QED
      BY <3>1, <3>2
  <2> QED
    BY <1>1, <2>1, <2>2 DEF Before
<1>5. i = 2 => \E c \in Single(s)' : c.outer = o /\ c.inner = 1
  BY <1>2 DEF ThisCall
<1>6. SlotHolds(s)'
  <2>1. ~GivenUp(s)'
    BY <1>1, Asking DEF GivenUp
  <2> QED
    BY <1>1, <1>2, <1>4, <1>5, <2>1, Asking DEF SlotHolds
<1> QED
  BY <1>3, <1>6

(* The last answer: what it leaves to be stored is the image that the slot *)
(* still has, or none after two seeds.                                     *)
LEMMA KeepHolds ==
  ASSUME CallsInv, NEW s \in Slot, NEW image \in BOOLEAN, Asks(s, image), NEW c, Keeps(s, c),
         c # NoCall => c \in Single(s)' /\ c.image,
         \A d \in Single(s)' : d.image => d = c \/ (c \in Single(s)' /\ c.outer = Repeat),
         c = NoCall => WasRetried(s)'
  PROVE  HandHolds(s)' /\ SlotHolds(s)'
<1>1. /\ at'[s] = "storing" /\ inHand'[s] = c /\ UNCHANGED <<outer, inner, seed, billed, failed>>
      /\ s \notin failed /\ \A d \in billed : d.slot # s
      /\ HandHolds(s) /\ SlotHolds(s)
  BY Asking, Asked DEF Keeps, tries, ledger, CallsInv, TypeOK
<1>2. /\ UNCHANGED worker /\ \A p, q : SeedOf(s, p, q)' = SeedOf(s, p, q)
      /\ \A d \in Single(s)' : d.seed = SeedOf(s, d.outer, d.inner)
  BY Asked
<1>3. HandHolds(s)'
  BY <1>1, <1>2 DEF HandHolds, Single
<1>4. GivenUp(s)' => WasRetried(s)'
  BY <1>1 DEF GivenUp
<1> QED
  BY <1>1, <1>2, <1>3, <1>4 DEF SlotHolds

(* An exception, whatever the slot was about.                              *)
LEMMA RaiseHolds ==
  ASSUME CallsInv, NEW s \in Slot, at[s] \in {"asking", "storing"}, Ends(s, "raised"),
         UNCHANGED <<worker, ordinal, inHand, billed, failed>>,
         \A c \in Single(s)' : c.seed = SeedOf(s, c.outer, c.inner)
  PROVE  HandHolds(s)' /\ SlotHolds(s)'
<1>1. /\ at'[s] = "raised" /\ UNCHANGED <<outer, inner, seed>>
      /\ s \notin failed /\ \A c \in billed : c.slot # s
      /\ HandHolds(s) /\ SlotHolds(s)
  BY NotYet DEF Ends, tries, CallsInv, TypeOK
<1>2. \A p, q : SeedOf(s, p, q)' = SeedOf(s, p, q)
  BY DEF SeedOf, Stored
<1>3. HandHolds(s)' /\ ~GivenUp(s)'
  BY <1>1 DEF HandHolds, GivenUp
<1> QED
  BY <1>1, <1>2, <1>3 DEF SlotHolds

(* The tool call: the one image that the slot still has, or the error.     *)
LEMMA StoreHolds ==
  ASSUME CallsInv, NEW s \in Slot, Store(s)
  PROVE  HandHolds(s)' /\ SlotHolds(s)'
<1>1. /\ at[s] = "storing" /\ at'[s] = "done" /\ inHand'[s] = NoCall
      /\ UNCHANGED <<worker, ordinal, outer, inner, seed, calls>>
      /\ s \notin failed /\ \A c \in billed : c.slot # s
      /\ HandHolds(s) /\ SlotHolds(s)
  BY NotYet DEF Store, CanStore, Ends, request, tries, CallsInv, TypeOK
<1>2. (\A p, q : SeedOf(s, p, q)' = SeedOf(s, p, q)) /\ Single(s)' = Single(s)
  BY <1>1 DEF SeedOf, Stored, Single
<1>3. HandHolds(s)'
  BY <1>1 DEF HandHolds
<1>4. CASE inHand[s] # NoCall /\ billed' = billed \cup {inHand[s]} /\ UNCHANGED failed
  <2>1. inHand[s].slot = s /\ inHand[s].image
    BY <1>1, <1>4 DEF HandHolds
  <2>2. \A c \in Single(s)' : c.image => c \in billed' \/ Replaced(c)'
    <3>1. \A c \in Single(s) : c.slot = s
      BY DEF Single
    <3> QED
      BY <1>1, <1>2, <1>4, <2>1, <3>1 DEF SlotHolds, Replaced
  <2>3. ~GivenUp(s)'
    BY <1>1, <1>4 DEF GivenUp
  <2> QED
    BY <1>1, <1>2, <1>3, <1>4, <2>1, <2>2, <2>3 DEF SlotHolds
<1>5. CASE inHand[s] = NoCall /\ failed' = failed \cup {s} /\ UNCHANGED billed
  <2>1. WasRetried(s) /\ WasRetried(s)'
    BY <1>1, <1>2, <1>5 DEF SlotHolds, GivenUp, WasRetried, Stored
  <2> QED
    BY <1>1, <1>2, <1>3, <1>5, <2>1 DEF SlotHolds, WasRetried
<1> QED
  BY <1>4, <1>5 DEF Store

(* The last of the attempts at a slot without an image in hand.            *)
LEMMA RefusedTwice ==
  ASSUME CallsInv, NEW s \in Slot, Asks(s, FALSE), outer[s] = 2
  PROVE  WasRetried(s)'
<1>1. /\ SlotHolds(s) /\ Stored(s) \in Nat /\ Stored(s)' = Stored(s) /\ at[s] = "asking"
      /\ inner[s] \in 1..2
      /\ \A c \in Single(s) : ~c.image
      /\ Single(s)' = Single(s) \cup {ThisCall(s, FALSE)}
  <2>1. SlotHolds(s) /\ Stored(s) \in Nat /\ inner[s] \in 1..2 /\ outer[s] # Repeat
    BY DEF CallsInv, TypeOK, Stored, Repeat, MaxRetries
  <2>2. Stored(s)' = Stored(s)
    BY Asked DEF Stored
  <2> QED
    BY <2>1, <2>2, Asked, Asking
<1>2. /\ ThisCall(s, FALSE) \in Single(s)' /\ ThisCall(s, FALSE).seed = seed[s]
      /\ \A c \in Single(s)' : ~c.image
  BY <1>1 DEF ThisCall
<1>3. /\ seed[s] = Stored(s) + 1 + (inner[s] - 1)
      /\ \A c \in Single(s) : c.seed = Stored(s) + (IF c.outer = 1 THEN 0 ELSE 1) + (c.inner - 1)
  BY <1>1 DEF SlotHolds, SeedOf
<1>4. \E c \in Single(s)' : c.seed = Stored(s)
  <2>1. PICK c \in Single(s) : c.outer = 1 /\ c.inner = 1
    BY <1>1 DEF SlotHolds
  <2>2. c.seed = Stored(s)
    BY <1>1, <1>3, <2>1
  <2> QED
    BY <1>1, <2>1, <2>2
<1>5. \E d \in Single(s)' : d.seed = Stored(s) + 1
  <2>1. CASE inner[s] = 1
    <3>1. seed[s] = Stored(s) + 1
      BY <1>1, <1>3, <2>1
    <3> QED
      BY <1>2, <3>1
  <2>2. CASE inner[s] = 2
    <3>1. PICK d \in Single(s) : d.outer = 2 /\ d.inner = 1
      BY <1>1, <2>2 DEF SlotHolds
    <3>2. d.seed = Stored(s) + 1
      BY <1>1, <1>3, <3>1
    <3> QED
      BY <1>1, <3>1, <3>2
  <2>3. inner[s] = 1 \/ inner[s] = 2
    BY <1>1
  <2> QED
    BY <2>1, <2>2, <2>3
<1> QED
  BY <1>1, <1>2, <1>4, <1>5 DEF WasRetried

LEMMA OwnSlot ==
  ASSUME CallsInv, NEW s \in Slot, SlotStep(s)
  PROVE  HandHolds(s)' /\ SlotHolds(s)'
<1> USE DEF Repeat, MaxRetries
<1>1. /\ TypeOK /\ HandHolds(s) /\ SlotHolds(s) /\ Stored(s) \in Nat
      /\ outer[s] \in 1..3 /\ inner[s] \in 1..2 /\ seed[s] = SeedOf(s, outer[s], inner[s])
  BY DEF CallsInv, TypeOK, SlotHolds, Stored
<1>2. /\ ThisCall(s, TRUE).outer = outer[s] /\ ThisCall(s, TRUE).inner = inner[s]
      /\ ThisCall(s, FALSE).outer = outer[s] /\ ThisCall(s, FALSE).inner = inner[s]
      /\ ThisCall(s, TRUE).slot = s /\ ThisCall(s, TRUE).image
  BY DEF ThisCall
<1>3. \A c \in Single(s) : c.outer \in 1..3 /\ c.inner \in 1..2
  BY <1>1 DEF TypeOK, CallType, Single
<1>4. CASE Unpriced(s)
  <2>1. Single(s)' = Single(s) /\ at[s] = "asking" /\ UNCHANGED <<worker, ordinal>>
    BY <1>4 DEF Unpriced, Single, Turn, request
  <2>2. \A c \in Single(s) : c.seed = SeedOf(s, c.outer, c.inner)
    BY <1>1 DEF SlotHolds
  <2> QED
    BY <1>4, <2>1, <2>2, RaiseHolds DEF Unpriced, ledger
<1>5. CASE Answered(s)
  <2>1. Asks(s, TRUE) /\ Keeps(s, ThisCall(s, TRUE))
    BY <1>5 DEF Answered
  <2>2. at[s] = "asking" /\ Single(s)' = Single(s) \cup {ThisCall(s, TRUE)}
    BY <2>1, Asked
  <2>3. ThisCall(s, TRUE) \in CallType
    BY <1>1, CallTypes
  <2>4. \A d \in Single(s)' : d.image => d = ThisCall(s, TRUE) \/ ThisCall(s, TRUE).outer = Repeat
    BY <1>2, <2>2, Asking
  <2> QED
    BY <1>2, <2>1, <2>2, <2>3, <2>4, NoCallAssumption, KeepHolds
<1>6. CASE AnsweredFlawed(s)
  <2>1. /\ Asks(s, TRUE) /\ Attempt(s, Repeat, 1, Stored(s) + 1) /\ worker = "triad" /\ outer[s] # Repeat
        /\ inHand' = [inHand EXCEPT ![s] = ThisCall(s, TRUE)]
    BY <1>6 DEF AnsweredFlawed
  <2>2. Before(ThisCall(s, TRUE), Repeat, 1)
    BY <1>1, <2>1 DEF Before, ThisCall
  <2>3. \A c \in Single(s) : Before(c, outer[s], inner[s]) => Before(c, Repeat, 1)
    BY <1>1, <1>3, <2>1 DEF Before
  <2>4. Stored(s) + 1 = SeedOf(s, Repeat, 1)
    BY <1>1 DEF SeedOf
  <2>5. Repeat \in 1..Repeat /\ 1 \in 1..MaxRetries + 1 /\ Stored(s) + 1 \in Nat
    BY <1>1
  <2>6. Again(s, TRUE, Repeat, 1, Stored(s) + 1)
    <3>1. Repeat # 2 /\ 1 # 2
      OBVIOUS
    <3> HIDE DEF Repeat, MaxRetries
    <3> QED
      BY <2>1, <2>2, <2>3, <2>4, <3>1 DEF Again
  <2> QED
    BY <2>5, <2>6, TriesAgain
<1>7. CASE AsksAgain(s)
  <2>1. Asks(s, FALSE) /\ UNCHANGED inHand /\ Attempt(s, outer[s], inner[s] + 1, seed[s] + 1)
    BY <1>7 DEF AsksAgain
  <2>0. inner[s] = 1
    BY <1>1, <1>7 DEF AsksAgain
  <2>2. Before(ThisCall(s, FALSE), outer[s], inner[s] + 1)
    BY <1>1, <2>1 DEF Before, ThisCall
  <2>3. \A c \in Single(s) : Before(c, outer[s], inner[s]) => Before(c, outer[s], inner[s] + 1)
    BY <1>1, <1>3, <2>1 DEF Before
  <2>4. outer[s] = 2 => \E c \in Single(s)' : c.outer = 1 /\ c.inner = 1
    BY <1>1, <2>1, Asked DEF SlotHolds
  <2>5. seed[s] + 1 = SeedOf(s, outer[s], inner[s] + 1)
    BY <1>1 DEF SeedOf
  <2>6. /\ outer[s] \in 1..Repeat /\ inner[s] + 1 \in 1..MaxRetries + 1
        /\ seed[s] + 1 \in Nat
    BY <1>1, <2>0 DEF TypeOK
  <2>7. Again(s, FALSE, outer[s], inner[s] + 1, seed[s] + 1)
    BY <2>0, <2>1, <2>2, <2>3, <2>4, <2>5 DEF Again
  <2> QED
    BY <2>6, <2>7, TriesAgain
<1>8. CASE Refused(s)
  <2>1. Asks(s, FALSE) /\ at[s] = "asking"
    BY <1>8, Asked DEF Refused
  <2>2. CASE outer[s] <= MaxRetries /\ Attempt(s, outer[s] + 1, 1, Stored(s) + 1) /\ UNCHANGED inHand
    <3>1. outer[s] = 1 /\ Stored(s) + 1 = SeedOf(s, outer[s] + 1, 1)
      BY <1>1, <2>2 DEF SeedOf
    <3>2. Before(ThisCall(s, FALSE), outer[s] + 1, 1)
      BY <1>1, <3>1 DEF Before, ThisCall
    <3>3. \A c \in Single(s) : Before(c, outer[s], inner[s]) => Before(c, outer[s] + 1, 1)
      BY <1>1, <1>3, <3>1 DEF Before
    <3>4. \E c \in Single(s)' : c.outer = 1 /\ c.inner = 1
      <4>1. CASE inner[s] = 1
        BY <1>2, <2>1, <3>1, <4>1, Asked
      <4>2. CASE inner[s] = 2
        BY <1>1, <2>1, <3>1, <4>2, Asked DEF SlotHolds
      <4> QED
        BY <1>1, <4>1, <4>2
    <3>5. outer[s] + 1 \in 1..Repeat /\ 1 \in 1..MaxRetries + 1 /\ Stored(s) + 1 \in Nat
      BY <1>1, <3>1
    <3>6. Again(s, FALSE, outer[s] + 1, 1, Stored(s) + 1)
      <4>1. (outer[s] + 1 = Repeat <=> outer[s] = Repeat) /\ 1 # 2
        BY <3>1
      <4> QED
        BY <2>1, <2>2, <3>1, <3>2, <3>3, <3>4, <4>1 DEF Again
    <3> QED
      BY <3>5, <3>6, TriesAgain
  <2>3. CASE outer[s] = MaxRetries + 1 /\ Keeps(s, NoCall)
    <3>1. WasRetried(s)'
      <4>1. outer[s] = 2
        BY <2>3
      <4> QED
        BY <2>1, <4>1, RefusedTwice
    <3> QED
      BY <2>1, <2>3, <3>1, KeepHolds DEF WasRetried
  <2>4. CASE outer[s] = Repeat /\ Keeps(s, inHand[s])
    <3>1. inHand[s] \in Single(s) /\ inHand[s] \in CallType
      BY <1>1, <2>1, <2>4 DEF HandHolds, Single, TypeOK
    <3>2. inHand[s] # NoCall /\ inHand[s].image
      BY <1>1, <3>1, NoCallAssumption DEF HandHolds
    <3>3. \A d \in Single(s)' : d.image => d = inHand[s]
      <4>1. Single(s)' = Single(s) \cup {ThisCall(s, FALSE)} /\ ~ThisCall(s, FALSE).image
        BY <2>1, Asked DEF ThisCall
      <4>2. \A d \in Single(s) : d.image => d = inHand[s]
        BY <1>1, <2>1 DEF SlotHolds
      <4> QED
        BY <4>1, <4>2
    <3>4. inHand[s] \in Single(s)'
      BY <2>1, <3>1, Asked
    <3> QED
      BY <2>1, <2>4, <3>2, <3>3, <3>4, KeepHolds
  <2> QED
    BY <1>8, <2>2, <2>3, <2>4 DEF Refused
<1>9. CASE Garbled(s)
  BY <1>9, Asked, RaiseHolds DEF Garbled, ledger
<1> QED
  BY <1>4, <1>5, <1>6, <1>7, <1>8, <1>9 DEF SlotStep

LEMMA SlotStepInv ==
  ASSUME CallsInv, NEW s \in Slot, SlotStep(s)
  PROVE  CallsInv'
<1>1. /\ TypeOK /\ BatchHolds /\ Turn(s)
      /\ UNCHANGED <<worker, ordinal, provider, next, stage, billed, failed>>
  BY DEF CallsInv, SlotStep, Unpriced, Answered, AnsweredFlawed, AsksAgain, Refused, Garbled, Asks,
         request, Attempt, Keeps, Ends, ledger
<1>2. /\ stage # "batch"
      /\ stage = "first" => s = 1
  BY <1>1 DEF Turn, BatchHolds, TypeOK
<1>3. calls' = calls \/ \E image \in BOOLEAN : calls' = calls \cup {ThisCall(s, image)}
  BY DEF SlotStep, Unpriced, Answered, AnsweredFlawed, AsksAgain, Refused, Garbled, Asks
<1>4. \A t \in Slot : t # s => at'[t] = at[t]
  BY <1>1 DEF TypeOK, SlotStep, Unpriced, Answered, AnsweredFlawed, AsksAgain, Refused, Garbled, Asks, Attempt,
              Keeps, Ends
<1>5. BatchHolds'
  <2>1. stage' = "first" => next' = 2 /\ \A t \in Rest : at'[t] = "asking"
    BY <1>1, <1>2, <1>4, Constants DEF BatchHolds, Rest
  <2>2. \A c \in calls' : c.path = "batch" =>
          /\ c = BatchCall(c.slot, c.image)' /\ c.slot \in Rest
          /\ (stage' = "batch" /\ c.image) \/ \E d \in calls' : d.path = "batch" /\ ~d.image
    <3>1. \A c \in calls' : c.path = "batch" => c \in calls
      BY <1>3 DEF ThisCall
    <3>2. \A c \in calls : BatchCall(c.slot, c.image)' = BatchCall(c.slot, c.image)
      BY <1>1 DEF BatchCall, BatchSeed
    <3>3. \A c \in calls : c.path = "batch" =>
            /\ c = BatchCall(c.slot, c.image) /\ c.slot \in Rest
            /\ \E d \in calls : d.path = "batch" /\ ~d.image
      BY <1>1, <1>2 DEF BatchHolds
    <3>4. calls \subseteq calls'
      BY <1>3
    <3> QED
      BY <3>1, <3>2, <3>3, <3>4
  <2> QED
    BY <1>1, <1>2, <2>1, <2>2 DEF BatchHolds
<1>6. \A t \in Slot : HandHolds(t)' /\ SlotHolds(t)'
  BY OwnSlot, OtherSlots
<1> QED
  BY <1>5, <1>6, SlotStepTyped DEF CallsInv

LEMMA StoringInv ==
  ASSUME CallsInv, NEW s \in Slot, Storing(s)
  PROVE  CallsInv'
<1>1. /\ TypeOK /\ BatchHolds /\ at[s] = "storing"
      /\ UNCHANGED <<worker, ordinal, provider, next, calls, outer, inner, seed>>
      /\ at'[s] \in {"done", "raised"} /\ \A t \in Slot : t # s => at'[t] = at[t] /\ inHand'[t] = inHand[t]
      /\ billed \subseteq billed'
  BY DEF CallsInv, TypeOK, Storing, Store, StoreFails, CanStore, Ends, request, tries, ledger
<1>2. \/ UNCHANGED stage
      \/ /\ stage = "first" /\ at'[s] = "done"
         /\ stage' = IF Batched THEN "batch" ELSE "slots"
  BY <1>1 DEF TypeOK, Storing, Store, StoreFails, Ends
<1>3. stage = "first" => s = 1
  BY <1>1, Constants DEF BatchHolds, Slot, Rest
<1>4. \A t, b : BatchCall(t, b)' = BatchCall(t, b)
  BY <1>1 DEF BatchCall, BatchSeed
<1>5. BatchHolds'
  <2>1. stage' = "first" => next' = 2 /\ \A t \in Rest : at'[t] = "asking"
    BY <1>1, <1>2, <1>3, Constants DEF BatchHolds, Rest
  <2>2. stage' # "slots" => worker' = "pack"
    BY <1>1, <1>2 DEF BatchHolds
  <2>3. CASE stage' = "batch" /\ stage = "first"
    <3>1. at'[1] = "done" /\ Rest # {} /\ next' = 2
      BY <1>1, <1>2, <1>3, <2>3 DEF BatchHolds, Batched
    <3>2. 2 \in Rest /\ \A t \in Rest : at'[t] = "asking"
      BY <1>1, <1>3, <2>3, <3>1, Constants DEF BatchHolds, Rest
    <3>3. \A t \in 2..(next' - 1) : FALSE
      BY <3>1
    <3> QED
      BY <1>1, <1>4, <2>1, <2>2, <2>3, <3>1, <3>2, <3>3 DEF BatchHolds
  <2>4. CASE stage' = "batch" /\ stage = "batch"
    <3>1. at[1] = "done" /\ next \in Rest /\ s \in Rest /\ s # 1
      BY <1>1, <2>4, Constants DEF BatchHolds, Slot, Rest
    <3>2. BatchStores
      BY <1>1, <2>4, <3>1 DEF BatchHolds
    <3>3. inHand[s] = BatchCall(s, TRUE) /\ BatchCall(s, TRUE) # NoCall
      BY <1>1, <3>1, <3>2, CallTypes, NoCallAssumption DEF BatchStores
    <3>4. at'[s] = "done" => BatchCall(s, TRUE) \in billed'
      BY <1>1, <3>3 DEF Storing, Store, StoreFails, Ends, TypeOK
    <3>5. BatchStores'
      BY <1>1, <1>4, <3>2, <3>4, Constants DEF BatchStores
    <3>6. at'[1] = "done"
      BY <1>1, <3>1, Constants
    <3> QED
      BY <1>1, <1>4, <2>1, <2>2, <2>4, <3>1, <3>5, <3>6 DEF BatchHolds
  <2>5. CASE stage' # "batch"
    <3>1. stage # "batch"
      BY <1>2, <2>5
    <3> QED
      BY <1>1, <1>4, <2>1, <2>2, <2>5, <3>1 DEF BatchHolds
  <2>6. stage' = "batch" => stage \in {"first", "batch"}
    BY <1>2
  <2> QED
    BY <2>3, <2>4, <2>5, <2>6
<1>6. HandHolds(s)' /\ SlotHolds(s)'
  <2>1. CASE Store(s)
    BY <2>1, StoreHolds
  <2>2. CASE StoreFails(s)
    <3>1. Single(s)' = Single(s)
      BY <1>1 DEF Single
    <3>2. \A c \in Single(s)' : c.seed = SeedOf(s, c.outer, c.inner)
      BY <3>1 DEF CallsInv, SlotHolds
    <3>3. Ends(s, "raised") /\ UNCHANGED <<worker, ordinal, inHand, billed, failed>>
      BY <2>2 DEF StoreFails, request, ledger
    <3> QED
      BY <1>1, <3>2, <3>3, RaiseHolds
  <2> QED
    BY <2>1, <2>2 DEF Storing
<1> QED
  BY <1>5, <1>6, OtherSlots, StoringTyped DEF CallsInv

-----------------------------------------------------------------------------
(* The batch. *)

LEMMA BatchStepInv ==
  ASSUME CallsInv, NEW s \in Slot, Batch(s)
  PROVE  CallsInv'
<1> USE DEF AsksInBatch
<1>1. PICK image \in BOOLEAN : AsksInBatch(s, image)
  BY DEF Batch, BatchGoesOn, BatchSucceeds, BatchFails
<1>2. /\ TypeOK /\ BatchHolds /\ TypeOK'
      /\ stage = "batch" /\ s = next /\ at[next] = "asking" /\ worker = "pack"
      /\ calls \subseteq calls' /\ \A t : Single(t)' = Single(t)
      /\ UNCHANGED <<worker, ordinal, outer, inner, seed, billed, failed>>
      /\ at[1] = "done" /\ next \in Rest /\ next \in Nat
      /\ \A t \in Rest : at[t] = "asking"
  <2>1. /\ TypeOK /\ BatchHolds /\ TypeOK'
        /\ stage = "batch" /\ s = next /\ at[next] = "asking"
        /\ UNCHANGED <<worker, ordinal, outer, inner, seed, billed, failed>>
    BY <1>1, BatchTyped DEF CallsInv, request, tries, ledger
  <2>2. calls \subseteq calls' /\ \A t : Single(t)' = Single(t)
    BY <1>1 DEF BatchCall, Single
  <2>3. worker = "pack" /\ at[1] = "done" /\ next \in Rest /\ next \in Nat
    BY <2>1 DEF BatchHolds, TypeOK
  <2>4. \A t \in Rest : at[t] = "asking"
    BY <2>1, <2>3 DEF BatchHolds, BatchStores
  <2> QED
    BY <2>1, <2>2, <2>3, <2>4
<1>3. \A t, b : BatchCall(t, b)' = BatchCall(t, b)
  BY <1>2 DEF BatchCall, BatchSeed
<1>5. ASSUME UNCHANGED <<at, inHand>>, NEW t \in Slot
      PROVE  HandHolds(t)' /\ SlotHolds(t)'
  <2>1. UNCHANGED About(t)
    BY <1>2, <1>5 DEF About, Billed
  <2> QED
    BY <2>1, Untouched DEF CallsInv
(* What holds of the batch's calls after any of them.                      *)
<1>6. ASSUME NEW b \in BOOLEAN, calls' = calls \cup {BatchCall(s, b)}, b => stage' = "batch"
      PROVE  \A c \in calls' : c.path = "batch" =>
               /\ c = BatchCall(c.slot, c.image)' /\ c.slot \in Rest
               /\ (stage' = "batch" /\ c.image) \/ \E d \in calls' : d.path = "batch" /\ ~d.image
  <2>1. BatchCall(s, b).path = "batch" /\ BatchCall(s, b).slot = s /\ BatchCall(s, b).image = b
    BY DEF BatchCall
  <2> QED
    BY <1>2, <1>3, <1>6, <2>1 DEF BatchHolds
<1>7. CASE BatchGoesOn(s)
  <2>1. s # Slots /\ next' = next + 1 /\ UNCHANGED <<stage, at, inHand>>
        /\ calls' = calls \cup {BatchCall(s, TRUE)}
    BY <1>7 DEF BatchGoesOn
  <2>2. next' \in Rest
    BY <1>2, <2>1, Constants DEF Rest
  <2>3. \A t \in 2..(next' - 1) : BatchCall(t, TRUE)' \in calls'
    <3>1. \A t \in 2..(next' - 1) : t = next \/ t \in 2..(next - 1)
      BY <1>2, <2>1
    <3>2. \A t \in 2..(next - 1) : BatchCall(t, TRUE) \in calls
      BY <1>2 DEF BatchHolds, BatchStores
    <3> QED
      BY <1>2, <1>3, <2>1, <3>1, <3>2
  <2>4. BatchHolds'
    BY <1>2, <1>6, <2>1, <2>2, <2>3 DEF BatchHolds
  <2> QED
    BY <1>2, <1>5, <2>1, <2>4 DEF CallsInv
<1>8. CASE BatchSucceeds(s)
  <2>1. UNCHANGED <<stage, next>> /\ calls' = calls \cup {BatchCall(s, TRUE)}
    BY <1>8 DEF BatchSucceeds
  <2>2. 1 \in Slot /\ 1 \notin Rest /\ Rest \subseteq Slot /\ \A t \in Slot : t = 1 \/ t \in Rest
    BY Constants DEF Slot, Rest
  <2>3. \/ /\ at' = [t \in Slot |-> IF t \in Rest THEN "storing" ELSE at[t]]
           /\ inHand' = [t \in Slot |-> IF t \in Rest THEN BatchCall(t, TRUE) ELSE inHand[t]]
        \/ /\ at' = [t \in Slot |-> IF t \in Rest THEN "raised" ELSE at[t]]
           /\ UNCHANGED inHand
    BY <1>8 DEF BatchSucceeds
  <2>4. at'[1] = "done" /\ inHand'[1] = inHand[1]
    BY <1>2, <2>2, <2>3
  <2>5. \A t \in Rest : \/ at'[t] = "storing" /\ inHand'[t] = BatchCall(t, TRUE)
                        \/ at'[t] = "raised" /\ inHand'[t] = inHand[t]
    BY <2>2, <2>3
  <2>6. BatchHolds'
    <3>1. BatchStores'
      BY <1>3, <2>5 DEF BatchStores
    <3> QED
      BY <1>2, <1>6, <2>1, <2>4, <3>1 DEF BatchHolds
  <2>7. ASSUME NEW t \in Rest PROVE HandHolds(t)' /\ SlotHolds(t)'
    <3>1. /\ HandHolds(t) /\ SlotHolds(t) /\ at[t] = "asking" /\ t \in Slot
          /\ outer[t] # Repeat /\ inHand[t] = NoCall /\ t \notin failed
          /\ (\A c \in billed : c.slot # t) /\ \A c \in Single(t) : ~c.image
      <4>1. HandHolds(t) /\ SlotHolds(t) /\ at[t] = "asking" /\ t \in Slot
        BY <1>2, <2>2 DEF CallsInv
      <4>2. outer[t] # Repeat
        BY <1>2, <4>1 DEF HandHolds
      <4> QED
        BY <4>1, <4>2, Asking
    <3>2. /\ BatchCall(t, TRUE).slot = t /\ BatchCall(t, TRUE).image
          /\ BatchCall(t, TRUE) # NoCall
      BY <1>2, <3>1, CallTypes, NoCallAssumption DEF BatchCall
    <3>3. HandHolds(t)' /\ ~GivenUp(t)'
      BY <1>2, <2>5, <3>1, <3>2 DEF HandHolds, GivenUp
    <3>4. at'[t] \in {"storing", "raised"} /\ \A o, i : SeedOf(t, o, i)' = SeedOf(t, o, i)
      BY <1>2, <2>5 DEF SeedOf, Stored
    <3> QED
      BY <1>2, <3>1, <3>3, <3>4 DEF SlotHolds
  <2>8. HandHolds(1)' /\ SlotHolds(1)'
    <3>1. UNCHANGED About(1)
      BY <1>2, <2>4 DEF About, Billed
    <3> QED
      BY <2>2, <3>1, Untouched DEF CallsInv
  <2> QED
    BY <1>2, <2>2, <2>6, <2>7, <2>8 DEF CallsInv
<1>9. CASE BatchFails(s)
  <2>1. stage' = "slots" /\ UNCHANGED <<at, next, inHand>>
        /\ calls' = calls \cup {BatchCall(s, FALSE)}
    BY <1>9 DEF BatchFails
  <2>2. BatchHolds'
    BY <1>2, <1>6, <2>1 DEF BatchHolds
  <2> QED
    BY <1>2, <1>5, <2>1, <2>2 DEF CallsInv
<1> QED
  BY <1>7, <1>8, <1>9 DEF Batch

-----------------------------------------------------------------------------
(* An unchanged state keeps whatever it has. *)
LEMMA StutterInv == CallsInv /\ UNCHANGED vars => CallsInv'
<1> SUFFICES ASSUME CallsInv, UNCHANGED vars PROVE CallsInv'
  OBVIOUS
<1>1. UNCHANGED <<worker, provider, ordinal, priced, stage, at, outer, inner, seed, inHand, next,
                  calls, billed, failed>>
  BY DEF vars, request, tries, ledger
<1>2. TypeOK' /\ BatchHolds'
  <2>1. \A t, b : BatchCall(t, b)' = BatchCall(t, b)
    BY <1>1 DEF BatchCall, BatchSeed
  <2>2. BatchHolds'
    BY <1>1, <2>1 DEF CallsInv, BatchHolds, BatchStores
  <2> QED
    BY <1>1, <2>2 DEF CallsInv, TypeOK
<1>3. ASSUME NEW s \in Slot PROVE HandHolds(s)' /\ SlotHolds(s)'
  <2>1. UNCHANGED About(s)
    BY <1>1 DEF About, Single, Billed
  <2> QED
    BY <2>1, Untouched DEF CallsInv
<1> QED
  BY <1>2, <1>3 DEF CallsInv

(* The seeds of all attempts, the images in hand, the batch and the        *)
(* tool_calls of a slot hold together, whatever the providers answer and   *)
(* whatever raises.                                                        *)
THEOREM CallsCorrect == Spec => []CallsInv
<1>1. CallsInv /\ [Next]_vars => CallsInv'
  BY SlotStepInv, BatchStepInv, StoringInv, StutterInv DEF Next
<1> QED
  BY InitCallsInv, <1>1, PTL DEF Spec

-----------------------------------------------------------------------------
(* Images and failures. *)

(* What is left of packet/SPEC.md:145, for any run: every image made for a *)
(* slot that comes to its end has its cost in tool_calls, but for those of *)
(* an aborted batch and a flawed one whose repeat took its place.          *)
THEOREM ImagesAreAlwaysBilled == Spec => []ImagesAreBilled
<1>1. CallsInv => ImagesAreBilled
  <2> SUFFICES ASSUME CallsInv, NEW c \in calls, c.image, at[c.slot] = "done"
               PROVE  c \in billed \/ BatchAborted(c) \/ Replaced(c)
    BY DEF ImagesAreBilled
  <2>1. c.slot \in Slot /\ c.path \in {"single", "batch"}
    BY DEF CallsInv, TypeOK, CallType
  <2>2. CASE c.path = "single"
    BY <2>1, <2>2 DEF CallsInv, SlotHolds, Single
  <2>3. CASE c.path = "batch"
    <3>1. c = BatchCall(c.slot, TRUE) /\ c.slot \in Rest
      BY <2>3 DEF CallsInv, BatchHolds
    <3>2. stage = "batch" => BatchCall(c.slot, TRUE) \in billed
      BY <3>1 DEF CallsInv, BatchHolds, BatchStores
    <3> QED
      BY <2>3, <3>1, <3>2 DEF CallsInv, BatchHolds, BatchAborted
  <2> QED
    BY <2>1, <2>2, <2>3
<1> QED
  BY <1>1, CallsCorrect, PTL

(* ADR 0007, for any run: a slot or variant is given up only after an      *)
(* answer to its own seed and one to the next were no image, and never     *)
(* while an image of it is in hand.                                        *)
THEOREM FailedSlotsWereAlwaysRetried == Spec => []FailedSlotsWereRetried
<1>1. CallsInv => FailedSlotsWereRetried
  BY DEF CallsInv, SlotHolds, FailedSlotsWereRetried
<1> QED
  BY <1>1, CallsCorrect, PTL

-----------------------------------------------------------------------------
(* How much a run may ask for. *)

(* AttemptsLeft without its names: at most six. *)
LEMMA Left ==
  ASSUME TypeOK, NEW s \in Slot
  PROVE  /\ outer[s] \in 1..3 /\ inner[s] \in 1..2
         /\ AttemptsLeft(s) = IF at[s] = "asking" THEN 2 * (3 - outer[s]) + (3 - inner[s]) ELSE 0
         /\ AttemptsLeft(s) \in 0..6
         /\ at[s] = "asking" => AttemptsLeft(s) >= 1
<1>1. outer[s] \in 1..3 /\ inner[s] \in 1..2
  BY DEF TypeOK, Repeat, MaxRetries
<1>2. AttemptsLeft(s) = IF at[s] = "asking" THEN 2 * (3 - outer[s]) + (3 - inner[s]) ELSE 0
  BY <1>1 DEF AttemptsLeft, Repeat, MaxRetries
<1> QED
  BY <1>1, <1>2

LEMMA SlotTakesOne ==
  ASSUME CallsInv, CallsInv', NEW s \in Slot, SlotStep(s)
  PROVE  AttemptsLeft(s)' < AttemptsLeft(s)
<1>1. /\ TypeOK /\ TypeOK' /\ at[s] = "asking"
      /\ outer[s] \in 1..3 /\ inner[s] \in 1..2
      /\ AttemptsLeft(s) = 2 * (3 - outer[s]) + (3 - inner[s]) /\ AttemptsLeft(s) >= 1
  <2>1. TypeOK /\ TypeOK' /\ at[s] = "asking"
    BY DEF CallsInv, SlotStep, Unpriced, Answered, AnsweredFlawed, AsksAgain, Refused, Garbled,
           Asks, Turn
  <2> QED
    BY <2>1, Left
<1>2. ASSUME NEW label, label # "asking", Ends(s, label)
      PROVE  AttemptsLeft(s)' < AttemptsLeft(s)
  <2>1. at'[s] # "asking"
    BY <1>1, <1>2 DEF Ends, TypeOK
  <2>2. AttemptsLeft(s)' = 0
    BY <2>1 DEF AttemptsLeft
  <2> QED
    BY <1>1, <2>2
<1>3. ASSUME NEW o \in 1..3, NEW i \in 1..2, NEW n, Attempt(s, o, i, n),
             (o = outer[s] /\ inner[s] = 1 /\ i = 2) \/ o > outer[s]
      PROVE  AttemptsLeft(s)' < AttemptsLeft(s)
  <2>1. at'[s] = "asking" /\ outer'[s] = o /\ inner'[s] = i
    BY <1>1, <1>3 DEF Attempt, TypeOK
  <2>2. AttemptsLeft(s)' = 2 * (3 - o) + (3 - i)
    BY <2>1 DEF AttemptsLeft, Repeat, MaxRetries
  <2>3. CASE o = outer[s] /\ inner[s] = 1 /\ i = 2
    BY <1>1, <2>2, <2>3
  <2>4. CASE o > outer[s]
    <3>1. 2 * (3 - o) + 2 <= 2 * (3 - outer[s])
      BY <1>1, <2>4
    <3> QED
      BY <1>1, <2>2, <3>1
  <2> QED
    BY <1>3, <2>3, <2>4
<1>8. ASSUME NEW c, Keeps(s, c)
      PROVE  AttemptsLeft(s)' < AttemptsLeft(s)
  <2>1. at'[s] = "storing"
    BY <1>1, <1>8 DEF Keeps, TypeOK
  <2>2. AttemptsLeft(s)' = 0
    BY <2>1 DEF AttemptsLeft
  <2> QED
    BY <1>1, <2>2
<1>4. CASE Unpriced(s) \/ Answered(s) \/ Garbled(s)
  BY <1>2, <1>4, <1>8 DEF Unpriced, Answered, Garbled
<1>5. CASE AnsweredFlawed(s)
  <2>1. Attempt(s, 3, 1, Stored(s) + 1) /\ outer[s] # 3
    BY <1>5 DEF AnsweredFlawed, Repeat, MaxRetries
  <2>2. 3 > outer[s] /\ 3 \in 1..3 /\ 1 \in 1..2
    BY <1>1, <2>1
  <2> QED
    BY <1>3, <2>1, <2>2
<1>6. CASE AsksAgain(s)
  <2>1. Attempt(s, outer[s], inner[s] + 1, seed[s] + 1) /\ inner[s] = 1
    BY <1>1, <1>6 DEF AsksAgain, MaxRetries
  <2>2. Attempt(s, outer[s], 2, seed[s] + 1)
    BY <2>1
  <2> QED
    BY <1>1, <1>3, <2>1, <2>2
<1>7. CASE Refused(s)
  <2>1. CASE Keeps(s, NoCall) \/ Keeps(s, inHand[s])
    BY <1>8, <2>1
  <2>2. CASE outer[s] <= MaxRetries /\ Attempt(s, outer[s] + 1, 1, Stored(s) + 1)
    <3>1. outer[s] = 1 /\ Attempt(s, 2, 1, Stored(s) + 1)
      BY <1>1, <2>2 DEF MaxRetries
    <3> QED
      BY <1>3, <3>1
  <2> QED
    BY <1>7, <2>1, <2>2 DEF Refused
<1> QED
  BY <1>4, <1>5, <1>6, <1>7 DEF SlotStep

(* A call of a slot has an attempt of its own. *)
LEMMA CallIsNew ==
  ASSUME CallsInv, NEW s \in Slot, SlotStep(s), s \in priced
  PROVE  \E image \in BOOLEAN : /\ ThisCall(s, image) \notin calls
                                /\ calls' = calls \cup {ThisCall(s, image)}
<1>1. PICK image \in BOOLEAN : Asks(s, image)
  BY DEF SlotStep, Unpriced, Answered, AnsweredFlawed, AsksAgain, Refused, Garbled
<1>2. at[s] = "asking" /\ SlotHolds(s) /\ outer[s] \in 1..3 /\ inner[s] \in 1..2
  BY <1>1, Left DEF Asks, Turn, CallsInv
<1>3. ThisCall(s, image) \notin calls
  <2> SUFFICES ASSUME ThisCall(s, image) \in calls PROVE FALSE
    OBVIOUS
  <2>1. Before(ThisCall(s, image), outer[s], inner[s])
    BY <1>2 DEF SlotHolds, Single, ThisCall
  <2> QED
    BY <1>2, <2>1 DEF Before, ThisCall
<1> QED
  BY <1>1, <1>3 DEF Asks

LEMMA BatchLeftType ==
  ASSUME CallsInv, CallsInv'
  PROVE  /\ BatchLeft \in Nat /\ BatchLeft' \in Nat /\ Slots \in Nat
         /\ stage = "batch" => next \in 2..Slots
         /\ stage' = "batch" => next' \in 2..Slots
         /\ stage = "batch" /\ at[next] = "asking" => BatchLeft = Slots + 1 - next
<1>1. Slots \in Nat /\ Rest = 2..Slots
  BY Constants DEF Rest
<1>2. stage = "batch" => next \in 2..Slots
  BY <1>1 DEF CallsInv, BatchHolds
<1>3. stage' = "batch" => next' \in 2..Slots
  BY <1>1 DEF CallsInv, BatchHolds
<1>4. stage = "batch" /\ at[next] = "asking" => BatchLeft = Slots + 1 - next
  BY DEF BatchLeft
<1>5. BatchLeft \in {Slots, 0} \/ (stage = "batch" /\ BatchLeft = Slots + 1 - next)
  BY DEF BatchLeft
<1>6. BatchLeft' \in {Slots, 0} \/ (stage' = "batch" /\ BatchLeft' = Slots + 1 - next')
  BY DEF BatchLeft
<1>7. \A n \in 2..Slots : Slots + 1 - n \in Nat
  BY <1>1
<1> QED
  BY <1>1, <1>2, <1>3, <1>4, <1>5, <1>6, <1>7

LEMMA SlotLeavesBatch ==
  ASSUME CallsInv, CallsInv', NEW s \in Slot, SlotStep(s)
  PROVE  BatchLeft' <= BatchLeft
<1>1. BatchLeft \in Nat /\ UNCHANGED <<stage, next>>
  BY BatchLeftType
  DEF SlotStep, Unpriced, Answered, AnsweredFlawed, AsksAgain, Refused, Garbled, Asks, Ends, Keeps, Attempt
<1>2. stage # "batch"
  BY DEF SlotStep, Unpriced, Answered, AnsweredFlawed, AsksAgain, Refused, Garbled, Asks, Turn, CallsInv,
         BatchHolds, TypeOK
<1>3. BatchLeft' = BatchLeft
  BY <1>1, <1>2 DEF BatchLeft
<1> QED
  BY <1>1, <1>3

(* The storing asks for nothing.                                           *)
LEMMA StoringLeavesBatch ==
  ASSUME CallsInv, CallsInv', NEW s \in Slot, Storing(s)
  PROVE  /\ BatchLeft' <= BatchLeft /\ calls' = calls
         /\ \A t \in Slot : AttemptsLeft(t)' <= AttemptsLeft(t)
<1>1. /\ BatchLeft \in Nat /\ BatchLeft' \in Nat /\ Slots \in Nat
      /\ stage' = "batch" => next' \in 2..Slots
      /\ TypeOK /\ TypeOK'
  BY BatchLeftType DEF CallsInv
<1>2. /\ UNCHANGED <<next, calls, outer, inner>> /\ at[s] = "storing" /\ at'[s] \in {"done", "raised"}
      /\ \A t \in Slot : t # s => at'[t] = at[t]
      /\ stage = "slots" => stage' = "slots"
      /\ stage = "batch" => stage' = "batch"
  BY <1>1 DEF Storing, Store, StoreFails, CanStore, Ends, tries, TypeOK
<1>5. \A t \in Slot : AttemptsLeft(t)' <= AttemptsLeft(t)
  <2> TAKE t \in Slot
  <2>1. AttemptsLeft(t)' = AttemptsLeft(t)
    BY <1>2 DEF AttemptsLeft
  <2>2. AttemptsLeft(t) \in 0..6
    BY <1>1, Left
  <2> QED
    BY <2>1, <2>2
<1>6. CASE stage = "batch"
  <2>1. next \in Slot /\ at[next] # "asking"
    <3>1. at[1] = "done" /\ next \in Rest /\ s \in Rest
      BY <1>2, <1>6, Constants DEF CallsInv, BatchHolds, Slot, Rest
    <3> QED
      BY <1>2, <1>6, <3>1, Constants DEF CallsInv, BatchHolds, BatchStores
  <2>2. at'[next] # "asking" /\ stage' = "batch" /\ next' = next
    BY <1>2, <1>6, <2>1
  <2>3. BatchLeft' = 0
    BY <2>2 DEF BatchLeft
  <2> QED
    BY <1>1, <1>2, <1>5, <2>3
<1>3. CASE stage = "slots"
  <2>1. BatchLeft' = 0
    BY <1>2, <1>3 DEF BatchLeft
  <2> QED
    BY <1>1, <1>2, <1>5, <2>1
<1>4. CASE stage = "first"
  <2>1. BatchLeft = Slots
    BY <1>4 DEF BatchLeft
  <2>2. stage' \in {"first", "batch", "slots"}
    BY DEF CallsInv, TypeOK
  <2>3. BatchLeft' = Slots \/ BatchLeft' = 0 \/ (next' \in 2..Slots /\ BatchLeft' = Slots + 1 - next')
    BY <1>1, <2>2 DEF BatchLeft
  <2> QED
    BY <1>1, <1>2, <1>5, <2>1, <2>3
<1> QED
  BY <1>1, <1>3, <1>4, <1>6 DEF TypeOK

LEMMA BatchTakesOne ==
  ASSUME CallsInv, CallsInv', NEW s \in Slot, Batch(s)
  PROVE  /\ BatchLeft' < BatchLeft
         /\ \A t \in Slot : AttemptsLeft(t)' <= AttemptsLeft(t)
<1>1. /\ TypeOK /\ TypeOK' /\ stage = "batch" /\ s = next /\ at[s] = "asking" /\ UNCHANGED tries
      /\ Slots \in Nat /\ next \in 2..Slots /\ BatchLeft = Slots + 1 - next
      /\ BatchLeft' \in Nat
  <2>1. /\ TypeOK /\ TypeOK' /\ stage = "batch" /\ s = next /\ at[s] = "asking"
        /\ UNCHANGED tries
    BY DEF CallsInv, Batch, BatchGoesOn, BatchSucceeds, BatchFails, AsksInBatch
  <2> QED
    BY <2>1, BatchLeftType
<1>2. \A t \in Slot : at'[t] = at[t] \/ at'[t] # "asking"
  BY <1>1 DEF Batch, BatchGoesOn, BatchSucceeds, BatchFails, TypeOK
<1>3. ASSUME NEW t \in Slot PROVE AttemptsLeft(t)' <= AttemptsLeft(t)
  <2>1. AttemptsLeft(t)' = AttemptsLeft(t) \/ AttemptsLeft(t)' = 0
    BY <1>1, <1>2 DEF AttemptsLeft, tries
  <2>2. AttemptsLeft(t) \in 0..6
    BY <1>1, Left
  <2> QED
    BY <2>1, <2>2
<1>4. BatchLeft' < BatchLeft
  <2>1. CASE BatchGoesOn(s)
    <3>1. stage' = "batch" /\ next' = next + 1 /\ at' = at
      BY <1>1, <2>1 DEF BatchGoesOn
    <3>2. BatchLeft' = Slots + 1 - next' \/ BatchLeft' = 0
      BY <3>1 DEF BatchLeft
    <3> QED
      BY <1>1, <3>1, <3>2
  <2>2. CASE BatchSucceeds(s)
    <3>1. stage' = "batch" /\ next' = next /\ at'[next] # "asking"
      BY <1>1, <2>2 DEF BatchSucceeds, Slot, Rest
    <3>2. BatchLeft' = 0
      BY <3>1 DEF BatchLeft
    <3> QED
      BY <1>1, <3>2
  <2>3. CASE BatchFails(s)
    <3>1. BatchLeft' = 0
      BY <2>3 DEF BatchFails, BatchLeft
    <3> QED
      BY <1>1, <3>1
  <2> QED
    BY <2>1, <2>2, <2>3 DEF Batch
<1> QED
  BY <1>3, <1>4

(* With the repeated attempts of two retries, of a batch and its fallback  *)
(* and of the quality check, a slot costs six calls at most and one in a   *)
(* batch, and each of them is another call.                                *)
THEOREM CallsAreFinite == Spec => AttemptsAreCounted
<1> DEFINE Counted ==
      /\ BatchLeft' <= BatchLeft
      /\ \A s \in Slot :
           /\ AttemptsLeft(s)' <= AttemptsLeft(s)
           /\ SlotStep(s) => AttemptsLeft(s)' < AttemptsLeft(s)
           /\ SlotStep(s) /\ s \in priced =>
                \E image \in BOOLEAN : /\ ThisCall(s, image) \notin calls
                                       /\ calls' = calls \cup {ThisCall(s, image)}
           /\ Batch(s) => BatchLeft' < BatchLeft
           /\ Storing(s) => calls' = calls
<1>1. CallsInv /\ CallsInv' /\ [Next]_vars => [Counted]_vars
  <2> SUFFICES ASSUME CallsInv, CallsInv', Next PROVE Counted
    BY DEF vars
  <2>1. /\ BatchLeft \in Nat /\ BatchLeft' \in Nat
        /\ TypeOK /\ TypeOK'
        /\ \A s \in Slot : AttemptsLeft(s) \in Nat
    BY BatchLeftType, Left DEF CallsInv
  <2>2. BatchLeft' <= BatchLeft
    BY <2>1, SlotLeavesBatch, BatchTakesOne, StoringLeavesBatch DEF Next
  <2>3. ASSUME NEW s \in Slot PROVE AttemptsLeft(s)' <= AttemptsLeft(s)
    <3>1. CASE \E t \in Slot : Batch(t) \/ Storing(t)
      BY <2>3, <3>1, BatchTakesOne, StoringLeavesBatch
    <3>2. ASSUME NEW t \in Slot, SlotStep(t)
          PROVE  AttemptsLeft(s)' <= AttemptsLeft(s)
      <4>1. CASE t = s
        <5>1. AttemptsLeft(s)' < AttemptsLeft(s)
          BY <3>2, <4>1, SlotTakesOne
        <5>2. AttemptsLeft(s)' \in Nat
          <6>1. outer'[s] \in 1..3 /\ inner'[s] \in 1..2
            BY <2>1, <2>3 DEF TypeOK, Repeat, MaxRetries
          <6>2. AttemptsLeft(s)' \in {2 * (3 - outer'[s]) + (3 - inner'[s]), 0}
            BY <6>1 DEF AttemptsLeft, Repeat, MaxRetries
          <6> QED
            BY <6>1, <6>2
        <5> QED
          BY <2>1, <5>1, <5>2
      <4>2. CASE t # s
        <5>1. at'[s] = at[s] /\ outer'[s] = outer[s] /\ inner'[s] = inner[s]
          BY <2>1, <3>2, <4>2
          DEF TypeOK, SlotStep, Unpriced, Answered, AnsweredFlawed, AsksAgain, Refused,
              Garbled, Asks, Attempt, Keeps, Ends, tries
        <5>2. AttemptsLeft(s)' = AttemptsLeft(s)
          BY <5>1 DEF AttemptsLeft
        <5> QED
          BY <2>1, <5>2
      <4> QED
        BY <4>1, <4>2
    <3> QED
      BY <3>1, <3>2 DEF Next
  <2> QED
    BY <2>2, <2>3, SlotTakesOne, CallIsNew, BatchTakesOne, StoringLeavesBatch
<1>2. Spec => [][Counted]_vars
  BY <1>1, CallsCorrect, PTL DEF Spec
<1> QED
  BY <1>2 DEF AttemptsAreCounted

(* The first slot of a pack is done when the stage says so. *)
FirstIsFirst == worker = "pack" => (stage = "first" <=> at[1] # "done")

LEMMA NextFirstIsFirst ==
  ASSUME CallsInv, FirstIsFirst, [Next]_vars
  PROVE  FirstIsFirst'
<1>1. CASE UNCHANGED vars
  BY <1>1 DEF vars, request, FirstIsFirst
<1>2. ASSUME NEW s \in Slot, Batch(s)
      PROVE  FirstIsFirst'
  <2>1. stage = "batch" /\ at[1] = "done" /\ worker' = worker
    BY <1>2 DEF Batch, BatchGoesOn, BatchSucceeds, BatchFails, AsksInBatch, request, CallsInv,
                BatchHolds
  <2>2. at'[1] = "done" /\ stage' # "first"
    <3>1. 1 \in Slot /\ 1 \notin Rest
      BY Constants DEF Rest
    <3> QED
      BY <1>2, <2>1, <3>1 DEF Batch, BatchGoesOn, BatchSucceeds, BatchFails
  <2> QED
    BY <2>2 DEF FirstIsFirst
<1>3. ASSUME NEW s \in Slot, SlotStep(s) \/ Storing(s)
      PROVE  FirstIsFirst'
  <2>1. /\ worker' = worker /\ TypeOK
        /\ at[s] = "asking" \/ at[s] = "storing"
        /\ \/ UNCHANGED <<stage, at>>
           \/ stage' = stage /\ at' = [at EXCEPT ![s] = "storing"]
           \/ \E label \in {"done", "raised"} : Ends(s, label)
    BY <1>3 DEF CallsInv, SlotStep, Unpriced, Answered, AnsweredFlawed, AsksAgain, Refused,
                Garbled, Asks, Turn, Attempt, Keeps, Storing, Store, StoreFails, CanStore, request
  <2>2. CASE UNCHANGED <<stage, at>>
    BY <2>1, <2>2 DEF FirstIsFirst
  <2>4. CASE stage' = stage /\ at' = [at EXCEPT ![s] = "storing"]
    <3>1. at'[1] = "done" <=> at[1] = "done"
      BY <2>1, <2>4, Constants DEF TypeOK
    <3> QED
      BY <2>1, <2>4, <3>1 DEF FirstIsFirst
  <2>3. ASSUME NEW label \in {"done", "raised"}, Ends(s, label), worker = "pack",
               label = "done" => CanStore(s)
        PROVE  stage' = "first" <=> at'[1] # "done"
    <3>1. CASE s = 1
      BY <2>1, <2>3, <3>1 DEF Ends, CallsInv, TypeOK, FirstIsFirst
    <3>2. CASE s # 1
      <4>1. label = "done" => at[1] = "done"
        <5>1. s # 1 => 1 \in 1..(s - 1)
          BY Constants DEF Slot
        <5> QED
          BY <2>3, <3>2, <5>1 DEF CanStore, InTurn
      <4>2. at'[1] = at[1]
        BY <2>1, <2>3, <3>2, Constants DEF Ends, TypeOK
      <4> QED
        BY <2>1, <2>3, <4>1, <4>2 DEF Ends, FirstIsFirst
    <3> QED
      BY <3>1, <3>2
  <2>5. ASSUME NEW label \in {"done", "raised"}, Ends(s, label)
        PROVE  label = "done" => CanStore(s)
    <3>1. at'[s] = label /\ TypeOK
      BY <2>1, <2>5 DEF Ends, TypeOK
    <3>2. at'[s] = "done" => Store(s)
      BY <1>3, <2>1, <3>1 DEF SlotStep, Unpriced, Answered, AnsweredFlawed, AsksAgain, Refused, Garbled, Asks,
              Turn, Attempt, Keeps, Storing, StoreFails, Ends, TypeOK
    <3> QED
      BY <3>1, <3>2 DEF Store
  <2> QED
    BY <2>1, <2>2, <2>3, <2>4, <2>5 DEF FirstIsFirst
<1> QED
  BY <1>1, <1>2, <1>3 DEF Next

(* The first slot that is still to be asked for or stored. *)
LEMMA FirstOpen ==
  ASSUME \E s \in Slot : at[s] \in {"asking", "storing"}
  PROVE  \E s \in Slot : /\ at[s] \in {"asking", "storing"}
                        /\ \A t \in 1..(s - 1) : at[t] \notin {"asking", "storing"}
<1> DEFINE S == {s \in Slot : at[s] \in {"asking", "storing"}}
<1>1. S \subseteq Nat /\ S # {}
  BY Constants
<1>2. \E x \in S : \A y \in S : ~ (<<y, x>> \in OpToRel(<, Nat))
  <2> HIDE DEF S
  <2> QED
    BY <1>1, WFMin, NatLessThanWellFounded
<1>3. PICK x \in S : \A y \in S : ~ (<<y, x>> \in OpToRel(<, Nat))
  BY <1>2
<1>4. ASSUME NEW t \in 1..(x - 1) PROVE at[t] \notin {"asking", "storing"}
  <2>1. t \in Slot /\ t \in Nat /\ x \in Nat /\ t < x
    BY <1>1, Constants DEF Slot
  <2>2. ~(t \in S)
    BY <1>3, <2>1 DEF OpToRel
  <2> QED
    BY <2>1, <2>2
<1> QED
  BY <1>4

LEMMA AskingGoesOn ==
  ASSUME CallsInv, FirstIsFirst
  PROVE  SomebodyAsks
<1> SUFFICES ASSUME ~Over PROVE \E s \in Slot : CanAsk(s) \/ CanStore(s)
  BY DEF SomebodyAsks
<1>0. \A s \in Slot : at[s] \in {"asking", "storing", "done", "raised"}
  BY DEF CallsInv, TypeOK
<1>1. \E s \in Slot : at[s] \in {"asking", "storing"}
  BY <1>0 DEF Over
<1>2. CASE worker = "triad"
  BY <1>1, <1>2 DEF CanAsk, CanStore, InTurn, Turn
<1>3. CASE worker = "pack"
  <2>1. PICK s \in Slot : /\ at[s] \in {"asking", "storing"}
                          /\ \A t \in 1..(s - 1) : at[t] \notin {"asking", "storing"}
    BY <1>1, FirstOpen
  <2>2. InTurn(s)
    <3>1. \A t \in 1..(s - 1) : t \in Slot
      BY Constants DEF Slot
    <3> QED
      BY <1>0, <1>3, <2>1, <3>1 DEF Over, InTurn
  <2>3. CASE at[s] = "storing"
    BY <2>2, <2>3 DEF CanStore
  <2>4. CASE at[s] = "asking" /\ stage = "batch"
    <3>1. at[1] = "done" /\ next \in Slot /\ s \in Rest
      BY <2>4, Constants DEF CallsInv, BatchHolds, Slot, Rest
    <3>2. at[next] = "asking"
      BY <2>4, <3>1 DEF CallsInv, BatchHolds, BatchStores
    <3> QED
      BY <2>4, <3>1, <3>2 DEF CanAsk
  <2>5. CASE at[s] = "asking" /\ stage # "batch"
    <3>1. stage = IF s = 1 THEN "first" ELSE "slots"
      <4>1. s # 1 => 1 \in 1..(s - 1)
        BY Constants DEF Slot
      <4>2. s # 1 => at[1] = "done"
        BY <1>3, <2>2, <4>1 DEF InTurn
      <4> QED
        BY <1>3, <2>5, <4>2 DEF FirstIsFirst, CallsInv, TypeOK
    <3> QED
      BY <2>2, <2>5, <3>1 DEF CanAsk, Turn
  <2> QED
    BY <2>1, <2>3, <2>4, <2>5
<1> QED
  BY <1>2, <1>3 DEF CallsInv, TypeOK

(* Whatever the order of generation, the batch and its fallback leave no   *)
(* slot that nobody asks for or stores, unless an exception has ended the  *)
(* pack.                                                                   *)
THEOREM EverySlotIsAskedFor == Spec => []SomebodyAsks
<1>1. Init => FirstIsFirst
  BY Constants DEF Init, FirstIsFirst
<1>2. CallsInv /\ FirstIsFirst /\ [Next]_vars => FirstIsFirst'
  BY NextFirstIsFirst
<1>3. CallsInv /\ FirstIsFirst => SomebodyAsks
  BY AskingGoesOn
<1> QED
  BY <1>1, <1>2, <1>3, CallsCorrect, PTL DEF Spec
=============================================================================
