----------------------------- MODULE MCConsensus -----------------------------
(* Instances of Consensus for TLC: three or four validators, with equal or   *)
(* unequal stakes, one of them possibly faulty.                              *)
EXTENDS Consensus, FiniteSetsExt, TLC

CONSTANTS v1, v2, v3, v4, r1, r2

Three == {v1, v2, v3}
Order3 == <<v1, v2, v3>>
Four == {v1, v2, v3, v4}
Order4 == <<v1, v2, v3, v4>>

\* total registered stake of each set of validators
Measure(stake) == [S \in SUBSET DOMAIN stake |-> MapThenSumSet(LAMBDA v : stake[v], S)]

\* 66 + 68 + 33 + 33: v1 has 33% of the stake, v2 34%, the others the rest
UnequalStakes == Measure(v1 :> 66 @@ v2 :> 68 @@ v3 :> 33 @@ v4 :> 33)
\* 66 + 67 + 67: the two honest voters are exactly 67% of the stake
ExactQuorum == Measure(v1 :> 66 @@ v2 :> 67 @@ v3 :> 67)

TwoRoots == {r1, r2}

\* v1 is selected in every epoch
AlwaysFirst == [e \in Epochs |-> 0]

\* Everything a faulty v1 can say about its own proposals of the right epoch
ProposerMessages ==
    {m \in Messages : m.sender = v1 /\ m.proposal.proposer = v1
                        /\ m.epoch = m.proposal.epoch}

\* v1 is selected in epoch 0, v2 afterwards (under ExactQuorum)
FaultyThenHonest == [e \in Epochs |-> IF e = 0 THEN 0 ELSE 66]

\* A faulty v1 that proposes two blocks in epoch 0 and pre-commits to both, for
\* epoch 0, and to the first as a vote of the next epoch; and pre-commits to the
\* second block in the names of the others, whether they cast them or not
EquivocationInManyNames ==
    {m \in Messages :
        /\ m.proposal.proposer = v1 /\ m.proposal.epoch = 0
        /\ \/ m.sender = v1 /\ m.type = "proposal" /\ m.epoch = 0
           \/ m.sender = v1 /\ m.type = "pre-commit" /\ (m.epoch = 0 \/ m.proposal.root = r1)
           \/ m.sender # v1 /\ m.type = "pre-commit" /\ m.epoch = 0 /\ m.proposal.root = r2}

LightPermutations == Permutations({v3, v4})
==============================================================================
