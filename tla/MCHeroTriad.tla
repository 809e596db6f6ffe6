---------------------------- MODULE MCHeroTriad ----------------------------
(* Instances of HeroTriad small enough for TLC.                            *)
EXTENDS HeroTriad, TLC

CONSTANTS d, m, v1, v2, v3

(* A mobile run that edits the images of a desktop run; or the run of a    *)
(* request that was served before under another key.                       *)
MobileOfDesktop ==
  [source |-> [r \in Run |-> IF r = m THEN d ELSE NoRun], earlier |-> {}]
AskedBefore == [source |-> [r \in Run |-> NoRun], earlier |-> {m}]
BothStarts == {MobileOfDesktop, AskedBefore}
Again == {AskedBefore}
Mobile == {MobileOfDesktop}

SamePrompt == [r \in Run |-> 1]
=============================================================================
