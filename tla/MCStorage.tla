------------------------------ MODULE MCStorage ------------------------------
(* Three finalized blocks: the coinbases c0 and c1 of epochs 0 and 1, a      *)
(* transfer t1 of c0's output in epoch 1 and a transfer t2 of the outputs of *)
(* t1 and c1 in epoch 3.                                                     *)
EXTENDS Storage

CONSTANTS h0, h1, h2, c0, c1, t1, t2

MCHashes == {h0, h1, h2}
MCTxs == {c0, c1, t1, t2}
MCInputs == [t \in MCTxs |-> CASE t = t1 -> << <<c0, 1>> >>
                               [] t = t2 -> << <<t1, 1>>, <<c1, 1>> >>
                               [] OTHER -> << >>]
MCOutputCount == [t \in MCTxs |-> 1]

B0 == [hash |-> h0, epoch |-> 0, transactions |-> <<c0>>]
B1 == [hash |-> h1, epoch |-> 1, transactions |-> <<c1, t1>>]
B2 == [hash |-> h2, epoch |-> 3, transactions |-> <<t2>>]

MCChain == {B0, B1, B2}

ASSUME OneBlockPerEpoch /\ ValidChain
=============================================================================
