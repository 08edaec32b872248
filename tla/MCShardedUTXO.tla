---------------------------- MODULE MCShardedUTXO ----------------------------
(* Two outputs of alice in different shards, the second locked until epoch 1 *)
EXTENDS ShardedUTXO, TLC

CONSTANTS k1, k2, alice

Owners == k1 :> alice @@ k2 :> alice
Locks == k1 :> 0 @@ k2 :> 1
TwoShards == k1 :> 0 @@ k2 :> 1

Tx(h, ins, ok) == [hash |-> h, inputs |-> ins, wellformed |-> ok]

\* a transaction with inputs in both shards and one that is not well-formed
OneBatch == { <<Tx(1, <<k1, k2>>, TRUE), Tx(2, <<k1>>, FALSE)>> }

Symmetries == Permutations(Threads) \cup Permutations(Spenders)
==============================================================================
