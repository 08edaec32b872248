------------------------------ MODULE MCTestnet ------------------------------
(* Instances of Testnet for TLC                                              *)
EXTENDS Testnet, FiniteSetsExt, TLC

CONSTANTS v1, v2, v3, r1, r2

Three == {v1, v2, v3}
Order3 == <<v1, v2, v3>>

Measure(stake) == [S \in SUBSET DOMAIN stake |-> MapThenSumSet(LAMBDA v : stake[v], S)]
\* v1 alone can keep the others from a quorum
HeavyFirst == Measure(v1 :> 40 @@ v2 :> 30 @@ v3 :> 30)
\* v1 is selected in epoch 0, v2 in epoch 1, v3 afterwards
InTurn == [e \in Epochs |-> CASE e = 0 -> 0 [] e = 1 -> 40 [] OTHER -> 70]
NoMessages == {}
==============================================================================
