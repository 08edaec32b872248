------------------------------- MODULE MCNode --------------------------------
(* An instance of Node for TLC: a heavy node and light ones                   *)
EXTENDS Node, FiniteSetsExt, TLC

CONSTANTS n1, n2, n3

Measure(stake) == [S \in SUBSET DOMAIN stake |-> MapThenSumSet(LAMBDA n : stake[n], S)]

ThreeNodes == {n1, n2, n3}
ThreeStakes == Measure(n1 :> 10 @@ n2 :> 70 @@ n3 :> 20)
ThreeRanks == n1 :> 1 @@ n2 :> 2 @@ n3 :> 3
\* among all three the light n1 is selected first, then the heavy n2
LightThenHeavy == [e \in Epochs |-> IF e = 0 THEN 5 ELSE 50]
Loops(x, y, z) == n1 :> x @@ n2 :> y @@ n3 :> z
Started(loops, links) == [num_epochs |-> loops, links |-> links]
\* n1 and n2 run an epoch while n3 listens; n2 runs two and n3 one; n2 runs two,
\* first alone
SomeStarts == {Started(Loops(1, 1, 0), {{n1, n3}, {n2, n3}}),
               Started(Loops(0, 2, 1), {{n1, n3}, {n2, n3}}),
               Started(Loops(0, 2, 0), {{n1, n3}})}
==============================================================================
