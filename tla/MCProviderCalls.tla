-------------------------- MODULE MCProviderCalls --------------------------
(* Instances of ProviderCalls small enough for TLC. *)
EXTENDS ProviderCalls

(* Ordinals that agree with the order of generation, that do not, and that *)
(* several slots share: the contract asks for none of them.                *)
SomeOrdinals == {[s \in 1..Slots |-> s - 1], [s \in 1..Slots |-> Slots - s], [s \in 1..Slots |-> 0]}
=============================================================================
