---------------------------- MODULE MCPackWorker ----------------------------
(* Instances of PackWorker small enough for TLC. *)
EXTENDS PackWorkerInvariant, TLC

CONSTANTS r1, r2, hero, card, og

(* The pack-consistent pack; the same slots generated one by one, with the *)
(* cards conditioned on the hero; a pack whose hero_slot_id names no slot. *)
BatchPack == [order |-> <<hero, card, og>>, hero |-> hero, batch |-> TRUE,
              conditioned |-> {card, og}]
SinglePack == [order |-> <<hero, card>>, hero |-> hero, batch |-> FALSE,
               conditioned |-> {card}]
HeadlessPack == [order |-> <<card, og>>, hero |-> hero, batch |-> TRUE,
                 conditioned |-> {og}]

OnePackEach == {BatchPack, SinglePack, HeadlessPack}
ContendingPacks == {SinglePack, HeadlessPack}

Drifting == {card}

Symmetry == Permutations(Run)
=============================================================================
