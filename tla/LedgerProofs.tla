---------------------------- MODULE LedgerProofs ----------------------------
(***************************************************************************)
(* Proofs about Ledger, for every value of its constants: the address      *)
(* index is exact, registration is one-time, the mempool is free of        *)
(* conflicts and accounts for its size, and the state keeps its types.  No *)
(* spent output comes back that goes back to a genesis output or to a      *)
(* producer's coinbase, and the supply grows by rewards, by what clients'  *)
(* coinbases and slashes create and by the fees of failed blocks alone.    *)
(* When blocks are not pipelined, a block fails only at a transaction that *)
(* names an output twice.                                                  *)
(*                                                                         *)
(* The key of the argument is which outpoints are created at most once.  A *)
(* transaction that is not in FromNothing has an input that goes back to a *)
(* genesis output or a producer's coinbase; it is spent when the outputs   *)
(* are created (UserOnce) and stays spent, so the transaction cannot be    *)
(* applied again.  A producer's coinbase belongs to one block              *)
(* (CoinbaseOnce), and a block is applied once.  A transaction of          *)
(* FromNothing may be applied again, and overwrites its outputs with       *)
(* themselves (OutputsMatch).  What outputs, sizes and fees add up to      *)
(* rests on the theory of finite sums in SumProofs.                        *)
(***************************************************************************)
EXTENDS Ledger, SumProofs, SequenceTheorems, TLAPS

\* what every pending block looks like
BlockShape(b) ==
    /\ b.number \in 1 .. built
    /\ b.coinbase.hash = CoinbaseHash[b.number]
    /\ b.coinbase.type = "COINBASE"
    /\ b.coinbase.inputs = <<>>
    /\ DOMAIN b.coinbase.outputs = {1}
    /\ b.coinbase.outputs[1].address = RewardAddress
    /\ b.transactions \subseteq UserTxs

UtxoShape ==
    \A k \in DOMAIN utxos : utxos[k].is_spent \in BOOLEAN /\ Owner(k) \in Addresses

Shape ==
    /\ UtxoShape
    /\ built \in 0 .. MaxBlocks
    /\ mempool \subseteq UserTxs
    /\ \A b \in blocks : BlockShape(b)
    /\ \A b, c \in blocks : b.number = c.number => b = c
    /\ applying # None => applying.todo \subseteq UserTxs

\* the coinbase of a pending block has created nothing yet
CoinbaseOnce ==
    \A n \in 1 .. MaxBlocks, i \in Nat :
        <<CoinbaseHash[n], i>> \in DOMAIN utxos =>
            n <= built /\ \A b \in blocks : b.number # n

\* what is in the UTXO set under a user transaction's hash is its output
OutputsMatch ==
    \A tx \in UserTxs, i \in Nat :
        <<tx.hash, i>> \in DOMAIN utxos =>
            i \in DOMAIN tx.outputs /\ utxos[<<tx.hash, i>>].output = tx.outputs[i]

\* the rooted inputs of a transaction with outputs in the UTXO set are spent
IsSpent(k) == k \in DOMAIN utxos /\ utxos[k].is_spent
UserOnce ==
    \A tx \in UserTxs \ FromNothing, i \in Nat :
        <<tx.hash, i>> \in DOMAIN utxos =>
            \A j \in DOMAIN tx.inputs : Rooted(tx.inputs[j].key) => IsSpent(tx.inputs[j].key)

IInv == Shape /\ CoinbaseOnce /\ OutputsMatch /\ UserOnce /\ IndexConsistent

\* what a step may do to the UTXO set
KeepsSpent == \A k \in DOMAIN utxos :
                 /\ k \in DOMAIN utxos'
                 /\ utxos[k].is_spent /\ Rooted(k) => utxos'[k] = utxos[k]
KeepsOutputs == \A k \in DOMAIN utxos : k \in DOMAIN utxos' /\ utxos'[k].output = utxos[k].output
Keeps == KeepsSpent /\ KeepsOutputs

\* the outputs of tx that are in the UTXO set may be overwritten
Overwrites(tx) ==
    \A k \in Created(tx) : k \in DOMAIN utxos =>
        utxos[k].output = tx.outputs[k[2]] /\ ~Rooted(k)

------------------------------------------------------------------------------
(* Facts about transactions *)

LEMMA UserTxTypes ==
    ASSUME NEW tx \in UserTxs
    PROVE  /\ tx.hash \in Nat
           /\ tx.inputs \in Seq(TxInputs)
           /\ tx.outputs \in Seq(TxOutputs)
BY TransactionsAssumption DEF Transactions, Hashes

\* A transaction whose inputs all come from FromNothing is in it.
LEMMA FromNothingClosed ==
    ASSUME NEW tx \in UserTxs \ FromNothing
    PROVE  \E i \in DOMAIN tx.inputs : Rooted(tx.inputs[i].key)
<1> SUFFICES ASSUME \A i \in DOMAIN tx.inputs : \E x \in FromNothing : x.hash = tx.inputs[i].key[1]
             PROVE  tx \in FromNothing
  BY DEF Rooted
<1>1. ASSUME NEW S \in SUBSET UserTxs, IsClosed(S) PROVE tx \in S
  <2>1. FromNothing \subseteq S
    BY <1>1 DEF FromNothing
  <2> QED
    BY <1>1, <2>1 DEF IsClosed
<1> QED
  BY <1>1 DEF FromNothing

\* The inputs of a valid transaction are unspent.
LEMMA ValidInputs ==
    ASSUME NEW tx \in UserTxs, ValidTransaction(tx)
    PROVE  InputKeys(tx) \subseteq Unspent
<1>1. ASSUME tx.inputs = <<>> PROVE InputKeys(tx) \subseteq Unspent
  BY <1>1 DEF InputKeys
<1>2. ASSUME ValidTransfer(tx) PROVE InputKeys(tx) \subseteq Unspent
  BY <1>2 DEF ValidTransfer, Spendable, InputKeys
<1>3. ASSUME ValidSlash(tx) PROVE InputKeys(tx) \subseteq Unspent
  BY <1>3 DEF ValidSlash, InputKeys
<1>4. ASSUME Len(tx.inputs) = 1, Spendable(tx.inputs[1].key)
      PROVE  InputKeys(tx) \subseteq Unspent
  BY <1>4, UserTxTypes DEF InputKeys, Spendable
<1> QED
  BY <1>1, <1>2, <1>3, <1>4
  DEF ValidTransaction, ValidStake, ValidData, ValidRegister, ValidRotateAuth, ValidCoinbase

\* What apply_transaction spends is unspent.
LEMMA SpentByUnspent ==
    ASSUME NEW tx, DOMAIN tx.inputs \subseteq Nat \ {0}
    PROVE  SpentBy(tx) \subseteq Unspent
BY DEF SpentBy, SpendSucceeds

\* A transaction that applies spends all of its inputs.
LEMMA AppliesSpendsAll ==
    ASSUME NEW tx \in UserTxs, Applies(tx)
    PROVE  SpentBy(tx) = InputKeys(tx) /\ InputKeys(tx) \subseteq Unspent
<1>1. \A n \in DOMAIN tx.inputs : \A j \in 1 .. n : j \in DOMAIN tx.inputs
  BY UserTxTypes
<1> QED
  BY <1>1, UserTxTypes DEF Applies, SpentBy, InputKeys, SpendSucceeds

------------------------------------------------------------------------------
(* What apply_transaction does to the UTXO set and its index *)

LEMMA ApplyAllStep ==
    ASSUME NEW tx,
           UtxoShape, IndexConsistent,
           DOMAIN tx.inputs \subseteq Nat \ {0},
           \A i \in DOMAIN tx.outputs : tx.outputs[i].address \in Addresses,
           Overwrites(tx),
           ApplyAll(tx)
    PROVE  /\ Keeps
           /\ UtxoShape'
           /\ IndexConsistent'
           /\ DOMAIN utxos' = DOMAIN utxos \cup Created(tx)
           /\ \A k \in Created(tx) : utxos'[k].output = tx.outputs[k[2]]
           /\ \A k \in SpentBy(tx) \ Created(tx) : IsSpent(k)'
           /\ Unspent' = (Unspent \ SpentBy(tx)) \cup Created(tx)
<1>1. SpentBy(tx) \subseteq Unspent
  BY SpentByUnspent
<1>2. DOMAIN utxos' = DOMAIN utxos \cup Created(tx)
  BY DEF ApplyAll, WithOutputs, SpentUtxos
<1>3. \A k \in DOMAIN utxos \ Created(tx) :
         utxos'[k] = IF k \in SpentBy(tx)
                     THEN [output |-> utxos[k].output, is_spent |-> TRUE, spent_by |-> tx.hash]
                     ELSE utxos[k]
  BY DEF ApplyAll, WithOutputs, SpentUtxos
<1>4. \A k \in Created(tx) :
         utxos'[k] = [output |-> tx.outputs[k[2]], is_spent |-> FALSE, spent_by |-> None]
  BY DEF ApplyAll, WithOutputs, SpentUtxos
<1>5. \A k \in Created(tx) : k[2] \in DOMAIN tx.outputs
  BY DEF Created
<1>6. ASSUME NEW k \in Created(tx)
      PROVE  utxos'[k].output = tx.outputs[k[2]] /\ utxos'[k].is_spent = FALSE
  <2>1. utxos'[k] = [output |-> tx.outputs[k[2]], is_spent |-> FALSE, spent_by |-> None]
    BY <1>4
  <2>2. utxos'[k].output = tx.outputs[k[2]]
    BY <2>1
  <2>3. utxos'[k].is_spent = FALSE
    BY <2>1
  <2> QED BY <2>2, <2>3
<1>7. ASSUME NEW k \in DOMAIN utxos \ Created(tx)
      PROVE  utxos'[k].output = utxos[k].output
               /\ utxos'[k].is_spent = IF k \in SpentBy(tx) THEN TRUE ELSE utxos[k].is_spent
  <2>1. CASE k \in SpentBy(tx)
    <3>1. utxos'[k] = [output |-> utxos[k].output, is_spent |-> TRUE, spent_by |-> tx.hash]
      BY <1>3, <2>1
    <3>2. utxos'[k].output = utxos[k].output
      BY <3>1
    <3>3. utxos'[k].is_spent = TRUE
      BY <3>1
    <3> QED
      BY <2>1, <3>2, <3>3
  <2>2. CASE k \notin SpentBy(tx)
    BY <1>3, <2>2
  <2> QED
    BY <2>1, <2>2
<1>8. KeepsOutputs
  BY <1>2, <1>6, <1>7 DEF KeepsOutputs, Overwrites
<1>9. KeepsSpent
  <2> SUFFICES ASSUME NEW k \in DOMAIN utxos
               PROVE  /\ k \in DOMAIN utxos'
                      /\ utxos[k].is_spent /\ Rooted(k) => utxos'[k] = utxos[k]
    BY DEF KeepsSpent
  <2>1. CASE k \in Created(tx)
    BY <1>2, <2>1 DEF Overwrites
  <2>2. CASE k \notin Created(tx)
    BY <1>1, <1>2, <1>3, <2>2 DEF Unspent
  <2> QED
    BY <2>1, <2>2
<1>10. UtxoShape'
  <2> SUFFICES ASSUME NEW k \in DOMAIN utxos'
               PROVE  utxos'[k].is_spent \in BOOLEAN /\ utxos'[k].output.address \in Addresses
    BY DEF UtxoShape, Owner
  <2>1. CASE k \in Created(tx)
    BY <1>5, <1>6, <2>1
  <2>2. CASE k \notin Created(tx)
    BY <1>2, <1>7, <2>2 DEF UtxoShape, Owner
  <2> QED
    BY <2>1, <2>2
<1>11. Unspent' = (Unspent \ SpentBy(tx)) \cup Created(tx)
  BY <1>2, <1>6, <1>7 DEF Unspent
<1>12. IndexConsistent'
  <2> SUFFICES ASSUME NEW a \in Addresses
               PROVE  by_address'[a] = {k \in Unspent' : utxos'[k].output.address = a}
    BY DEF IndexConsistent, Owner
  <2>1. by_address'[a] = (by_address[a] \ {k \in SpentBy(tx) : Owner(k) = a})
                            \cup {k \in Created(tx) : tx.outputs[k[2]].address = a}
    BY DEF ApplyAll
  <2>2. by_address[a] = {k \in Unspent : utxos[k].output.address = a}
    BY DEF IndexConsistent, Owner
  <2>3. Unspent \subseteq DOMAIN utxos
    BY DEF Unspent
  <2>4. \A k \in SpentBy(tx) : Owner(k) = utxos[k].output.address
    BY DEF Owner
  <2>5. \A k \in Created(tx) : k \in Unspent =>
           utxos[k].output.address = tx.outputs[k[2]].address
    BY <2>3 DEF Overwrites
  <2>6. \A k \in Unspent : utxos'[k].output.address = utxos[k].output.address
    BY <1>8, <2>3 DEF KeepsOutputs
  <2>7. \A k \in Created(tx) : utxos'[k].output.address = tx.outputs[k[2]].address
    BY <1>6
  <2> QED
    BY <1>1, <1>11, <2>1, <2>2, <2>4, <2>5, <2>6, <2>7
<1>13. ASSUME NEW k \in SpentBy(tx) \ Created(tx) PROVE IsSpent(k)'
  <2>1. k \in DOMAIN utxos
    BY <1>1 DEF Unspent
  <2>2. utxos'[k].is_spent = TRUE
    BY <1>7, <2>1
  <2> QED
    BY <1>2, <2>1, <2>2 DEF IsSpent
<1> QED
  BY <1>2, <1>6, <1>8, <1>9, <1>10, <1>11, <1>12, <1>13 DEF Keeps

LEMMA ApplyUntilFailureStep ==
    ASSUME NEW tx,
           UtxoShape, IndexConsistent,
           DOMAIN tx.inputs \subseteq Nat \ {0},
           ApplyUntilFailure(tx)
    PROVE  /\ Keeps
           /\ UtxoShape'
           /\ IndexConsistent'
           /\ DOMAIN utxos' = DOMAIN utxos
           /\ Unspent' \subseteq Unspent
<1>1. SpentBy(tx) \subseteq Unspent
  BY SpentByUnspent
<1>2. DOMAIN utxos' = DOMAIN utxos
  BY DEF ApplyUntilFailure, SpentUtxos
<1>3. \A k \in DOMAIN utxos :
         utxos'[k] = IF k \in SpentBy(tx)
                     THEN [output |-> utxos[k].output, is_spent |-> TRUE, spent_by |-> tx.hash]
                     ELSE utxos[k]
  BY DEF ApplyUntilFailure, SpentUtxos
<1>4. KeepsSpent
  BY <1>1, <1>2, <1>3 DEF KeepsSpent, Unspent
<1>5. \A k \in DOMAIN utxos : utxos'[k].output = utxos[k].output
                                /\ utxos'[k].is_spent \in {utxos[k].is_spent, TRUE}
  <2> SUFFICES ASSUME NEW k \in DOMAIN utxos
               PROVE  utxos'[k].output = utxos[k].output
                        /\ utxos'[k].is_spent \in {utxos[k].is_spent, TRUE}
    OBVIOUS
  <2>1. CASE k \in SpentBy(tx)
    <3>1. utxos'[k] = [output |-> utxos[k].output, is_spent |-> TRUE, spent_by |-> tx.hash]
      BY <1>3, <2>1
    <3>2. utxos'[k].output = utxos[k].output
      BY <3>1
    <3>3. utxos'[k].is_spent = TRUE
      BY <3>1
    <3> QED
      BY <3>2, <3>3
  <2>2. CASE k \notin SpentBy(tx)
    BY <1>3, <2>2
  <2> QED
    BY <2>1, <2>2
<1>6. UtxoShape'
  BY <1>2, <1>5 DEF UtxoShape, Owner
<1>7. Unspent' = Unspent \ SpentBy(tx)
  BY <1>2, <1>3 DEF Unspent
<1>8. IndexConsistent'
  <2> SUFFICES ASSUME NEW a \in Addresses
               PROVE  by_address'[a] = {k \in Unspent' : utxos'[k].output.address = a}
    BY DEF IndexConsistent, Owner
  <2>1. by_address'[a] = by_address[a] \ {k \in SpentBy(tx) : Owner(k) = a}
    BY DEF ApplyUntilFailure
  <2>2. by_address[a] = {k \in Unspent : utxos[k].output.address = a}
    BY DEF IndexConsistent, Owner
  <2>3. Unspent \subseteq DOMAIN utxos
    BY DEF Unspent
  <2> QED
    BY <1>5, <1>7, <2>1, <2>2, <2>3 DEF Owner
<1> QED
  BY <1>2, <1>4, <1>5, <1>6, <1>7, <1>8 DEF Keeps, KeepsOutputs

------------------------------------------------------------------------------
(* Which outpoints are created once *)

LEMMA RootedFresh ==
    ASSUME NEW tx \in UserTxs \ FromNothing, Applies(tx), UserOnce
    PROVE  Created(tx) \cap DOMAIN utxos = {}
<1> SUFFICES ASSUME NEW i \in DOMAIN tx.outputs, <<tx.hash, i>> \in DOMAIN utxos
             PROVE  FALSE
  BY DEF Created
<1>1. PICK j \in DOMAIN tx.inputs : Rooted(tx.inputs[j].key)
  BY FromNothingClosed
<1>2. i \in Nat
  BY UserTxTypes
<1>3. utxos[tx.inputs[j].key].is_spent
  BY <1>1, <1>2 DEF UserOnce, IsSpent
<1>4. tx.inputs[j].key \in Unspent
  BY DEF Applies, SpendSucceeds
<1> QED
  BY <1>3, <1>4 DEF Unspent

\* A transaction that applies overwrites nothing but its own outputs, and these
\* only if it is in FromNothing.
LEMMA UserOverwrites ==
    ASSUME NEW tx \in UserTxs, Applies(tx), UserOnce, OutputsMatch
    PROVE  Overwrites(tx)
<1>1. CASE tx \in FromNothing
  <2> SUFFICES ASSUME NEW i \in DOMAIN tx.outputs, <<tx.hash, i>> \in DOMAIN utxos
               PROVE  utxos[<<tx.hash, i>>].output = tx.outputs[i] /\ ~Rooted(<<tx.hash, i>>)
    BY DEF Overwrites, Created
  <2>1. i \in Nat
    BY UserTxTypes
  <2>2. utxos[<<tx.hash, i>>].output = tx.outputs[i]
    BY <2>1 DEF OutputsMatch
  <2> QED
    BY <1>1, <2>2 DEF Rooted
<1>2. CASE tx \notin FromNothing
  BY <1>2, RootedFresh DEF Overwrites
<1> QED
  BY <1>1, <1>2

LEMMA CoinbaseFresh ==
    ASSUME NEW b \in blocks, BlockShape(b), CoinbaseOnce, built \in 0 .. MaxBlocks
    PROVE  Created(b.coinbase) \cap DOMAIN utxos = {} /\ Overwrites(b.coinbase)
<1>1. Created(b.coinbase) = {<<CoinbaseHash[b.number], 1>>}
  BY DEF Created, BlockShape
<1>2. b.number \in 1 .. MaxBlocks
  BY LedgerConstantsAssumption DEF BlockShape
<1>3. Created(b.coinbase) \cap DOMAIN utxos = {}
  BY <1>1, <1>2 DEF CoinbaseOnce
<1> QED
  BY <1>3 DEF Overwrites

LEMMA UserOnceKept ==
    ASSUME UserOnce, Keeps, NEW tx \in UserTxs \ FromNothing,
           NEW i \in Nat, <<tx.hash, i>> \in DOMAIN utxos
    PROVE  \A j \in DOMAIN tx.inputs :
               Rooted(tx.inputs[j].key) => IsSpent(tx.inputs[j].key)'
<1>1. \A k : Rooted(k) /\ IsSpent(k) => IsSpent(k)'
  BY DEF Keeps, KeepsSpent, IsSpent
<1> QED
  BY <1>1 DEF UserOnce

------------------------------------------------------------------------------
(* The invariant *)

LEMMA InitIInv == Init => IInv
<1> SUFFICES ASSUME Init PROVE IInv
  OBVIOUS
<1>1. DOMAIN utxos = DOMAIN Genesis
  BY DEF Init
<1>2. \A k \in DOMAIN utxos :
         /\ utxos[k].output = Genesis[k]
         /\ utxos[k].is_spent = FALSE
  BY DEF Init
<1>3. \A k \in DOMAIN Genesis : Genesis[k].address \in Addresses
  BY GenesisAssumption DEF TxOutputs
<1>4. UtxoShape
  BY <1>1, <1>2, <1>3 DEF UtxoShape, Owner
<1>5. Shape
  BY <1>4, LedgerConstantsAssumption DEF Init, Shape
<1>6. CoinbaseOnce
  BY <1>1, CoinbaseAssumption DEF CoinbaseOnce
<1>7. UserOnce
  BY <1>1, GenesisAssumption DEF UserOnce
<1>11. OutputsMatch
  BY <1>1, GenesisAssumption DEF OutputsMatch
<1>8. Unspent = DOMAIN Genesis
  BY <1>1, <1>2 DEF Unspent
<1>9. \A k \in Unspent : Owner(k) = Genesis[k].address
  BY <1>1, <1>2, <1>8 DEF Owner
<1>10. IndexConsistent
  BY <1>8, <1>9 DEF Init, IndexConsistent
<1> QED
  BY <1>5, <1>6, <1>7, <1>10, <1>11 DEF IInv

\* Steps that leave the UTXO set and the blocks alone.
LEMMA FrameStep ==
    ASSUME IInv, UNCHANGED <<utxos, by_address, built, blocks>>,
           mempool' \subseteq UserTxs,
           applying' = None \/ UNCHANGED applying
    PROVE  IInv' /\ Keeps
<1>1. Shape'
  BY DEF IInv, Shape, UtxoShape, BlockShape, Owner
<1>2. CoinbaseOnce' /\ UserOnce' /\ OutputsMatch'
  BY DEF IInv, CoinbaseOnce, UserOnce, OutputsMatch, IsSpent
<1>3. IndexConsistent'
  BY DEF IInv, IndexConsistent, Unspent, Owner
<1> QED
  BY <1>1, <1>2, <1>3 DEF IInv, Keeps, KeepsSpent, KeepsOutputs

LEMMA ProduceStep ==
    ASSUME IInv, ProduceBlock
    PROVE  IInv' /\ Keeps
<1>1. PICK S \in SUBSET mempool :
         LET valid == {tx \in S : ValidTransaction(tx)}
         IN  /\ RemoveTransactions(Rejected(S, valid))
             /\ blocks' = (IF Pipelined THEN blocks ELSE {}) \cup
                     {[number |-> built + 1, epoch |-> epoch,
                       coinbase |-> Coinbase(built + 1, TotalFees(Included(valid))),
                       transactions |-> Included(valid)]}
  BY DEF ProduceBlock
<1> DEFINE valid == {tx \in S : ValidTransaction(tx)}
           new == [number |-> built + 1, epoch |-> epoch,
                   coinbase |-> Coinbase(built + 1, TotalFees(Included(valid))),
                   transactions |-> Included(valid)]
<1>2. /\ built' = built + 1
      /\ built < MaxBlocks
      /\ UNCHANGED <<utxos, by_address, applying>>
  BY DEF ProduceBlock, stateVars
<1>3. mempool' \subseteq UserTxs
  BY <1>1 DEF IInv, Shape, RemoveTransactions
<1>4. blocks' \subseteq blocks \cup {new}
  BY <1>1
<1>5. built \in Nat /\ \A b \in blocks : BlockShape(b) /\ b.number \in 1 .. built
  BY LedgerConstantsAssumption DEF IInv, Shape, BlockShape
<1>6. ASSUME NEW b, b = new
      PROVE  BlockShape(b)'
  <2>1. new.transactions \subseteq UserTxs
    BY DEF Included, IInv, Shape
  <2>3. new.number \in 1 .. built'
    BY <1>2, <1>5
  <2>4. /\ new.coinbase.hash = CoinbaseHash[new.number]
        /\ new.coinbase.type = "COINBASE"
        /\ new.coinbase.inputs = <<>>
        /\ DOMAIN new.coinbase.outputs = {1}
        /\ new.coinbase.outputs[1].address = RewardAddress
    BY DEF Coinbase
  <2> HIDE DEF new
  <2> QED
    BY <1>6, <2>1, <2>3, <2>4 DEF BlockShape
<1>7. \A b \in blocks : BlockShape(b)' /\ b.number # built + 1
  BY <1>2, <1>5 DEF BlockShape
<1>8. new.number = built + 1
  OBVIOUS
<1> HIDE DEF new
<1>9. Shape'
  <2>1. \A b \in blocks' : BlockShape(b)'
    BY <1>4, <1>6, <1>7
  <2>2. \A b, c \in blocks' : b.number = c.number => b = c
    BY <1>4, <1>7, <1>8 DEF IInv, Shape
  <2>3. UtxoShape'
    BY <1>2 DEF IInv, Shape, UtxoShape, Owner
  <2>4. built' \in 0 .. MaxBlocks
    BY <1>2, <1>5, LedgerConstantsAssumption
  <2> QED
    BY <1>2, <1>3, <2>1, <2>2, <2>3, <2>4 DEF IInv, Shape
<1>10. CoinbaseOnce'
  <2> SUFFICES ASSUME NEW n \in 1 .. MaxBlocks, NEW i \in Nat,
                      <<CoinbaseHash[n], i>> \in DOMAIN utxos
               PROVE  n <= built' /\ \A b \in blocks' : b.number # n
    BY <1>2 DEF CoinbaseOnce
  <2>1. n <= built /\ \A b \in blocks : b.number # n
    BY DEF IInv, CoinbaseOnce
  <2> QED
    BY <1>2, <1>4, <1>5, <1>8, <2>1
<1>11. UserOnce' /\ OutputsMatch'
  BY <1>2 DEF IInv, UserOnce, OutputsMatch, IsSpent
<1>12. IndexConsistent'
  BY <1>2 DEF IInv, IndexConsistent, Unspent, Owner
<1> QED
  BY <1>2, <1>9, <1>10, <1>11, <1>12 DEF IInv, Keeps, KeepsSpent, KeepsOutputs

LEMMA ApplyBlockStep ==
    ASSUME IInv, NEW b \in blocks, ApplyBlock(b)
    PROVE  /\ IInv' /\ Keeps
           /\ Unspent' = Unspent \cup Created(b.coinbase)
<1>1. /\ ApplyAll(b.coinbase)
      /\ blocks' = {x \in blocks : x.epoch # b.epoch}
      /\ applying' = [block |-> b, todo |-> b.transactions]
      /\ UNCHANGED <<mempool, built>>
  BY DEF ApplyBlock, mempoolVars
<1>2. BlockShape(b) /\ built \in 0 .. MaxBlocks /\ b.number \in 1 .. MaxBlocks
  BY LedgerConstantsAssumption DEF IInv, Shape, BlockShape
<1>3. Created(b.coinbase) = {<<CoinbaseHash[b.number], 1>>}
  BY <1>2 DEF BlockShape, Created
<1>4. /\ Keeps
      /\ UtxoShape'
      /\ IndexConsistent'
      /\ DOMAIN utxos' = DOMAIN utxos \cup Created(b.coinbase)
      /\ Unspent' = (Unspent \ SpentBy(b.coinbase)) \cup Created(b.coinbase)
  <2>1. Overwrites(b.coinbase)
    BY <1>2, CoinbaseFresh DEF IInv
  <2>2. DOMAIN b.coinbase.inputs \subseteq Nat \ {0}
    BY <1>2 DEF BlockShape
  <2>3. \A i \in DOMAIN b.coinbase.outputs : b.coinbase.outputs[i].address \in Addresses
    BY <1>2, LedgerConstantsAssumption DEF BlockShape
  <2> QED
    BY <1>1, <2>1, <2>2, <2>3, ApplyAllStep DEF IInv, Shape
<1>5. Shape'
  <2>1. \A x \in blocks' : BlockShape(x)'
    BY <1>1 DEF IInv, Shape, BlockShape
  <2>2. applying'.todo = b.transactions
    BY <1>1
  <2> QED
    BY <1>1, <1>2, <1>4, <2>1, <2>2 DEF IInv, Shape, BlockShape
<1>6. CoinbaseOnce'
  <2> SUFFICES ASSUME NEW n \in 1 .. MaxBlocks, NEW i \in Nat,
                      <<CoinbaseHash[n], i>> \in DOMAIN utxos'
               PROVE  n <= built' /\ \A x \in blocks' : x.number # n
    BY DEF CoinbaseOnce
  <2>1. CASE <<CoinbaseHash[n], i>> \in DOMAIN utxos
    BY <1>1, <2>1 DEF IInv, CoinbaseOnce
  <2>2. CASE <<CoinbaseHash[n], i>> \in Created(b.coinbase)
    <3>1. n = b.number
      BY <1>2, <1>3, <2>2, CoinbaseAssumption
    <3> QED
      BY <1>1, <1>2, <3>1 DEF IInv, Shape, BlockShape
  <2> QED
    BY <1>4, <2>1, <2>2
<1>7. ASSUME NEW tx \in UserTxs, NEW i \in Nat, <<tx.hash, i>> \in DOMAIN utxos'
      PROVE  <<tx.hash, i>> \in DOMAIN utxos
  BY <1>2, <1>3, <1>4, <1>7, CoinbaseAssumption
<1>9. UserOnce'
  BY <1>4, <1>7, UserOnceKept DEF IInv, UserOnce
<1>10. OutputsMatch'
  BY <1>4, <1>7 DEF IInv, OutputsMatch, Keeps, KeepsOutputs
<1>8. SpentBy(b.coinbase) = {}
  BY <1>2 DEF BlockShape, SpentBy
<1> QED
  BY <1>4, <1>5, <1>6, <1>8, <1>9, <1>10 DEF IInv

LEMMA ApplyNextStep ==
    ASSUME IInv, NEW tx \in UserTxs, ApplyNext(tx)
    PROVE  /\ IInv' /\ Keeps
           /\ Unspent' = (Unspent \ InputKeys(tx)) \cup Created(tx)
<1>1. /\ ApplyAll(tx)
      /\ Applies(tx)
      /\ applying # None /\ tx \in applying.todo
      /\ applying' = [block |-> applying.block, todo |-> applying.todo \ {tx}]
      /\ UNCHANGED <<mempool, built, blocks>>
  BY DEF ApplyNext, IsNext, mempoolVars
<1>2. Overwrites(tx)
  BY <1>1, UserOverwrites DEF IInv
<1>3. /\ Keeps
      /\ UtxoShape'
      /\ IndexConsistent'
      /\ DOMAIN utxos' = DOMAIN utxos \cup Created(tx)
      /\ \A k \in Created(tx) : utxos'[k].output = tx.outputs[k[2]]
      /\ \A k \in SpentBy(tx) \ Created(tx) : IsSpent(k)'
      /\ Unspent' = (Unspent \ SpentBy(tx)) \cup Created(tx)
  <2>2. DOMAIN tx.inputs \subseteq Nat \ {0}
    BY UserTxTypes
  <2>3. \A i \in DOMAIN tx.outputs : tx.outputs[i].address \in Addresses
    <3>1. \A i \in DOMAIN tx.outputs : tx.outputs[i] \in TxOutputs
      BY UserTxTypes
    <3> QED
      BY <3>1 DEF TxOutputs
  <2> QED
    BY <1>1, <1>2, <2>2, <2>3, ApplyAllStep DEF IInv, Shape
<1>4. Shape'
  <2>1. \A x \in blocks' : BlockShape(x)'
    BY <1>1 DEF IInv, Shape, BlockShape
  <2>2. applying'.todo = applying.todo \ {tx}
    BY <1>1
  <2> QED
    BY <1>1, <1>3, <2>1, <2>2 DEF IInv, Shape
<1>5. CoinbaseOnce'
  <2> SUFFICES ASSUME NEW n \in 1 .. MaxBlocks, NEW i \in Nat,
                      <<CoinbaseHash[n], i>> \in DOMAIN utxos'
               PROVE  n <= built' /\ \A x \in blocks' : x.number # n
    BY DEF CoinbaseOnce
  <2>1. <<CoinbaseHash[n], i>> \in DOMAIN utxos
    BY <1>3, CoinbaseAssumption DEF Created
  <2> QED
    BY <1>1, <2>1 DEF IInv, CoinbaseOnce
<1>6. UserOnce'
  <2> SUFFICES ASSUME NEW x \in UserTxs \ FromNothing, NEW i \in Nat,
                      <<x.hash, i>> \in DOMAIN utxos'
               PROVE  \A j \in DOMAIN x.inputs :
                         Rooted(x.inputs[j].key) => IsSpent(x.inputs[j].key)'
    BY DEF UserOnce
  <2>1. CASE <<x.hash, i>> \in DOMAIN utxos
    BY <1>3, <2>1, UserOnceKept DEF IInv
  <2>2. CASE <<x.hash, i>> \in Created(tx)
    <3>1. x = tx
      BY <2>2, TransactionsAssumption DEF Created
    <3>2. \A j \in DOMAIN tx.inputs : tx.inputs[j].key \in SpentBy(tx)
      BY <1>1, AppliesSpendsAll DEF InputKeys
    <3>3. SpentBy(tx) \subseteq DOMAIN utxos /\ Created(tx) \cap DOMAIN utxos = {}
      BY <1>1, <3>1, AppliesSpendsAll, RootedFresh DEF IInv, Unspent
    <3> QED
      BY <1>3, <3>1, <3>2, <3>3
  <2> QED
    BY <1>3, <2>1, <2>2
<1>8. OutputsMatch'
  <2> SUFFICES ASSUME NEW x \in UserTxs, NEW i \in Nat, <<x.hash, i>> \in DOMAIN utxos'
               PROVE  i \in DOMAIN x.outputs /\ utxos'[<<x.hash, i>>].output = x.outputs[i]
    BY DEF OutputsMatch
  <2>1. CASE <<x.hash, i>> \in DOMAIN utxos
    BY <1>3, <2>1 DEF IInv, OutputsMatch, Keeps, KeepsOutputs
  <2>2. CASE <<x.hash, i>> \in Created(tx)
    <3>1. x = tx /\ i \in DOMAIN tx.outputs
      BY <2>2, TransactionsAssumption DEF Created
    <3> QED
      BY <1>3, <2>2, <3>1
  <2> QED
    BY <1>3, <2>1, <2>2
<1>7. SpentBy(tx) = InputKeys(tx)
  BY <1>1, AppliesSpendsAll
<1> QED
  BY <1>3, <1>4, <1>5, <1>6, <1>7, <1>8 DEF IInv

LEMMA FailBlockStep ==
    ASSUME IInv, NEW tx \in UserTxs, FailBlock(tx)
    PROVE  IInv' /\ Keeps /\ Unspent' \subseteq Unspent
<1>1. /\ ApplyUntilFailure(tx)
      /\ applying' = None
      /\ UNCHANGED <<mempool, built, blocks>>
  BY DEF FailBlock, mempoolVars
<1>2. DOMAIN tx.inputs \subseteq Nat \ {0}
  BY UserTxTypes
<1>3. /\ Keeps /\ UtxoShape' /\ IndexConsistent' /\ DOMAIN utxos' = DOMAIN utxos
      /\ Unspent' \subseteq Unspent
  BY <1>1, <1>2, ApplyUntilFailureStep DEF IInv, Shape
<1>4. Shape'
  <2>1. \A x \in blocks' : BlockShape(x)'
    BY <1>1 DEF IInv, Shape, BlockShape
  <2> QED
    BY <1>1, <1>3, <2>1 DEF IInv, Shape
<1>5. CoinbaseOnce'
  BY <1>1, <1>3 DEF IInv, CoinbaseOnce
<1>6. UserOnce'
  BY <1>3, UserOnceKept DEF IInv, UserOnce
<1>7. OutputsMatch'
  BY <1>3 DEF IInv, OutputsMatch, Keeps, KeepsOutputs
<1> QED
  BY <1>3, <1>4, <1>5, <1>6, <1>7 DEF IInv

\* Every step preserves the invariant and keeps what is spent.
LEMMA StepIInv == IInv /\ [Next]_vars => IInv' /\ Keeps
<1> SUFFICES ASSUME IInv, [Next]_vars PROVE IInv' /\ Keeps
  OBVIOUS
<1>1. CASE AdvanceEpoch
  BY <1>1, FrameStep DEF AdvanceEpoch, stateVars, mempoolVars, blockVars, IInv, Shape
<1>2. ASSUME NEW tx \in UserTxs, BroadcastTransaction(tx) PROVE IInv' /\ Keeps
  BY <1>2, FrameStep DEF BroadcastTransaction, stateVars, blockVars, IInv, Shape
<1>3. CASE ProduceBlock
  BY <1>3, ProduceStep
<1>4. ASSUME NEW b \in blocks, ApplyBlock(b) PROVE IInv' /\ Keeps
  BY <1>4, ApplyBlockStep
<1>5. ASSUME NEW tx \in UserTxs, ApplyNext(tx) PROVE IInv' /\ Keeps
  BY <1>5, ApplyNextStep
<1>6. ASSUME NEW tx \in UserTxs, FailBlock(tx) PROVE IInv' /\ Keeps
  BY <1>6, FailBlockStep
<1>7. CASE FinishBlock
  BY <1>7, FrameStep DEF FinishBlock, RemoveTransactions, stateVars, IInv, Shape
<1>8. CASE UNCHANGED vars
  BY <1>8, FrameStep DEF vars, stateVars, mempoolVars, blockVars, IInv, Shape
<1> QED
  BY <1>1, <1>2, <1>3, <1>4, <1>5, <1>6, <1>7, <1>8 DEF Next

LEMMA InvariantHolds == Spec => []IInv
BY InitIInv, StepIInv, PTL DEF Spec

\* UTXOSet.by_address lists exactly the unspent outputs of every address, even
\* when blocks overlap and apply_block gives up half way.
THEOREM IndexIsExact == Spec => []IndexConsistent
<1>1. IInv => IndexConsistent
  BY DEF IInv
<1> QED
  BY <1>1, InvariantHolds, PTL

\* No call of spend_utxo or add_utxo ever changes a spent output that goes back
\* to a genesis output or a producer's coinbase: whatever is broadcast, built and
\* applied, it is spent at most once.
THEOREM SpentOutputsStaySpent == Spec => SpentStaysSpent
<1>1. IInv /\ [Next]_vars => [\A k \in DOMAIN utxos :
                                /\ k \in DOMAIN utxos'
                                /\ utxos[k].is_spent /\ Rooted(k) => utxos'[k] = utxos[k]]_vars
  BY StepIInv DEF Keeps, KeepsSpent
<1> QED
  BY <1>1, InvariantHolds, PTL DEF Spec, SpentStaysSpent

------------------------------------------------------------------------------
(* Registration *)

\* AuthRegistry.register_via_tx is one-time: once an address is registered, only
\* an applied ROTATE_AUTH transaction that spends its output replaces the root.
THEOREM RegistrationIsOneTime == Spec => RegisterOnce
<1> DEFINE Rotated(a) ==
       \E tx \in UserTxs :
           /\ IsNext(tx)
           /\ tx.type = "ROTATE_AUTH"
           /\ Owner(tx.inputs[1].key) = a
           /\ auth_roots'[a] = tx.outputs[1].data.root
<1>1. ASSUME IInv, [Next]_vars, NEW a \in Addresses,
             auth_roots[a] # None, auth_roots'[a] # auth_roots[a]
      PROVE  Rotated(a)
  <2>1. CASE UNCHANGED auth_roots
    BY <1>1, <2>1
  <2>2. ASSUME NEW b \in blocks, ApplyBlock(b) PROVE Rotated(a)
    <3>1. b.coinbase.type = "COINBASE"
      BY <1>1 DEF IInv, Shape, BlockShape
    <3>2. auth_roots'[a] = auth_roots[a]
      BY <2>2, <3>1 DEF ApplyBlock, ApplyAll, NewAuthRoots
    <3> QED
      BY <1>1, <3>2
  <2>3. ASSUME NEW tx \in UserTxs, ApplyNext(tx) PROVE Rotated(a)
    <3>1. IsNext(tx) /\ auth_roots' = NewAuthRoots(tx)
      BY <2>3 DEF ApplyNext, ApplyAll
    <3>2. tx.type = "ROTATE_AUTH" /\ Owner(tx.inputs[1].key) = a
      BY <1>1, <3>1 DEF NewAuthRoots, IsRegistered
    <3>3. auth_roots'[a] = tx.outputs[1].data.root
      BY <1>1, <3>1, <3>2 DEF NewAuthRoots, IsRegistered
    <3> QED
      BY <3>1, <3>2, <3>3
  <2> QED
    BY <1>1, <2>1, <2>2, <2>3
    DEF Next, AdvanceEpoch, BroadcastTransaction, ProduceBlock, FailBlock,
        ApplyUntilFailure, FinishBlock, vars, stateVars
<1>2. IInv /\ [Next]_vars =>
         [\A a \in Addresses :
             auth_roots[a] # None /\ auth_roots'[a] # auth_roots[a] => Rotated(a)]_vars
  BY <1>1
<1> QED
  BY <1>2, InvariantHolds, PTL DEF Spec, RegisterOnce

------------------------------------------------------------------------------
(* The mempool *)

MempoolInv == mempool \subseteq UserTxs /\ MempoolConflictFree

LEMMA RemoveKeepsMempool ==
    ASSUME MempoolInv, NEW S, RemoveTransactions(S)
    PROVE  MempoolInv'
<1>1. /\ mempool' = mempool \ S
      /\ spent_outputs' = spent_outputs \ UNION {InputKeys(tx) : tx \in S \cap mempool}
  BY DEF RemoveTransactions
<1>2. /\ spent_outputs = UNION {InputKeys(tx) : tx \in mempool}
      /\ \A x, y \in mempool : x # y => InputKeys(x) \cap InputKeys(y) = {}
  BY DEF MempoolInv, MempoolConflictFree
<1>3. spent_outputs' = UNION {InputKeys(tx) : tx \in mempool'}
  <2>1. ASSUME NEW k \in spent_outputs' PROVE \E tx \in mempool' : k \in InputKeys(tx)
    BY <1>1, <1>2, <2>1
  <2>2. ASSUME NEW tx \in mempool', NEW k \in InputKeys(tx) PROVE k \in spent_outputs'
    BY <1>1, <1>2, <2>2
  <2> QED
    BY <2>1, <2>2
<1>4. \A x, y \in mempool' : x # y => InputKeys(x) \cap InputKeys(y) = {}
  BY <1>1, <1>2
<1> QED
  BY <1>1, <1>3, <1>4 DEF MempoolInv, MempoolConflictFree, InputKeys

LEMMA StepMempool == MempoolInv /\ [Next]_vars => MempoolInv'
<1> SUFFICES ASSUME MempoolInv, [Next]_vars PROVE MempoolInv'
  OBVIOUS
<1>1. CASE UNCHANGED mempoolVars
  BY <1>1 DEF MempoolInv, MempoolConflictFree, mempoolVars, InputKeys
<1>2. ASSUME NEW tx \in UserTxs, BroadcastTransaction(tx) PROVE MempoolInv'
  <2>1. /\ mempool' = mempool \cup {tx}
        /\ spent_outputs' = spent_outputs \cup InputKeys(tx)
        /\ InputKeys(tx) \cap spent_outputs = {}
    BY <1>2 DEF BroadcastTransaction, SpentInMempool
  <2>2. \A x \in mempool : InputKeys(x) \subseteq spent_outputs
    BY DEF MempoolInv, MempoolConflictFree
  <2>3. \A x, y \in mempool' : x # y => InputKeys(x) \cap InputKeys(y) = {}
    BY <2>1, <2>2 DEF MempoolInv, MempoolConflictFree
  <2>4. spent_outputs' = UNION {InputKeys(x) : x \in mempool'}
    BY <2>1 DEF MempoolInv, MempoolConflictFree
  <2> QED
    BY <1>2, <2>1, <2>3, <2>4 DEF MempoolInv, MempoolConflictFree, InputKeys
<1>3. CASE ProduceBlock
  <2>1. PICK S : RemoveTransactions(S)
    BY <1>3 DEF ProduceBlock
  <2> QED
    BY <2>1, RemoveKeepsMempool
<1>4. CASE FinishBlock
  BY <1>4, RemoveKeepsMempool DEF FinishBlock
<1> QED
  BY <1>1, <1>2, <1>3, <1>4
  DEF Next, AdvanceEpoch, ApplyBlock, ApplyNext, FailBlock, vars

LEMMA MempoolHolds == Spec => []MempoolInv
<1>1. Init => MempoolInv
  BY DEF Init, MempoolInv, MempoolConflictFree
<1> QED
  BY <1>1, StepMempool, PTL DEF Spec

\* Mempool.spent_outputs is exactly what the mempool's transactions spend, so
\* add_transaction never admits two that spend the same output.
THEOREM MempoolIsConflictFree == Spec => []MempoolConflictFree
<1>1. MempoolInv => MempoolConflictFree
  BY DEF MempoolInv
<1> QED
  BY <1>1, MempoolHolds, PTL

------------------------------------------------------------------------------
(* Blocks apply *)

\* transactions that can be applied one after the other, in any order
Ready(S) ==
    /\ \A tx \in S : InputKeys(tx) \subseteq Unspent
    /\ \A x, y \in S : x # y => InputKeys(x) \cap InputKeys(y) = {}

\* At most one block is pending, it is ready, and so is what is left of the
\* block being applied.
SequentialInv ==
    /\ \A b, c \in blocks : b = c
    /\ applying # None => blocks = {}
    /\ \A b \in blocks : Ready(b.transactions)
    /\ applying # None => Ready(applying.todo)

\* What is ready applies, unless it names an output twice.
LEMMA ReadyApplies == SequentialInv => BlocksApply
<1> SUFFICES ASSUME SequentialInv, NEW tx \in UserTxs, IsNext(tx), ~NamesTwice(tx)
             PROVE  Applies(tx)
  BY DEF BlocksApply
<1>1. InputKeys(tx) \subseteq Unspent
  BY DEF IsNext, SequentialInv, Ready
<1>2. \A i \in DOMAIN tx.inputs : \A j \in 1 .. i - 1 : j \in DOMAIN tx.inputs /\ j # i
  BY UserTxTypes
<1> QED
  BY <1>1, <1>2 DEF Applies, SpendSucceeds, InputKeys, NamesTwice

LEMMA StepSequential ==
    ASSUME ~Pipelined
    PROVE  IInv /\ MempoolInv /\ SequentialInv /\ [Next]_vars => SequentialInv'
<1> SUFFICES ASSUME IInv, MempoolInv, SequentialInv, [Next]_vars
             PROVE  SequentialInv'
  OBVIOUS
<1>1. ASSUME UNCHANGED <<utxos, blocks>>, applying' = None \/ UNCHANGED applying
      PROVE  SequentialInv'
  <2>1. Unspent' = Unspent
    BY <1>1 DEF Unspent
  <2>2. ASSUME NEW b \in blocks' PROVE Ready(b.transactions)'
    <3>1. Ready(b.transactions)
      BY <1>1, <2>2 DEF SequentialInv
    <3> QED
      BY <2>1, <3>1 DEF Ready, InputKeys
  <2>3. ASSUME applying' # None PROVE Ready(applying.todo)'
    <3>1. applying' = applying /\ Ready(applying.todo)
      BY <1>1, <2>3 DEF SequentialInv
    <3> QED
      BY <2>1, <3>1 DEF Ready, InputKeys
  <2> QED
    BY <1>1, <2>2, <2>3 DEF SequentialInv
<1>2. CASE ProduceBlock
  <2>1. PICK S \in SUBSET mempool :
           LET valid == {tx \in S : ValidTransaction(tx)}
           IN  blocks' = (IF Pipelined THEN blocks ELSE {}) \cup
                       {[number |-> built + 1, epoch |-> epoch,
                         coinbase |-> Coinbase(built + 1, TotalFees(Included(valid))),
                         transactions |-> Included(valid)]}
    BY <1>2 DEF ProduceBlock
  <2> DEFINE txs == Included({tx \in S : ValidTransaction(tx)})
  <2>2. \A b \in blocks' : b.transactions = txs
    BY <2>1
  <2>3. \A b, c \in blocks' : b = c
    BY <2>1
  <2>4. txs \subseteq mempool /\ \A tx \in txs : ValidTransaction(tx)
    BY DEF Included
  <2> HIDE DEF txs
  <2>5. \A tx \in txs : InputKeys(tx) \subseteq Unspent
    BY <2>4, ValidInputs DEF MempoolInv
  <2>6. UNCHANGED <<utxos, applying>> /\ applying = None
    BY <1>2 DEF ProduceBlock, stateVars
  <2>7. Unspent' = Unspent
    BY <2>6 DEF Unspent
  <2>8. ASSUME NEW b \in blocks' PROVE Ready(b.transactions)'
    <3>1. \A tx \in b.transactions : InputKeys(tx) \subseteq Unspent'
      BY <2>2, <2>5, <2>7
    <3>2. \A x, y \in b.transactions : x # y => InputKeys(x) \cap InputKeys(y) = {}
      BY <2>2, <2>4 DEF MempoolInv, MempoolConflictFree
    <3> QED
      BY <3>1, <3>2 DEF Ready, InputKeys
  <2> QED
    BY <2>3, <2>6, <2>8 DEF SequentialInv
<1>3. ASSUME NEW b \in blocks, ApplyBlock(b) PROVE SequentialInv'
  <2>1. Unspent \subseteq Unspent'
    BY <1>3, ApplyBlockStep
  <2>2. /\ blocks' = {x \in blocks : x.epoch # b.epoch}
        /\ applying' = [block |-> b, todo |-> b.transactions]
    BY <1>3 DEF ApplyBlock
  <2>3. blocks' = {}
    BY <2>2 DEF SequentialInv
  <2>4. applying'.todo = b.transactions
    BY <2>2
  <2>5. Ready(applying.todo)'
    <3>1. Ready(b.transactions)
      BY DEF SequentialInv
    <3>2. \A x \in applying'.todo : InputKeys(x) \subseteq Unspent'
      BY <2>1, <2>4, <3>1 DEF Ready
    <3>3. \A x, y \in applying'.todo : x # y => InputKeys(x) \cap InputKeys(y) = {}
      BY <2>4, <3>1 DEF Ready
    <3> QED
      BY <3>2, <3>3 DEF Ready, InputKeys
  <2> QED
    BY <2>2, <2>3, <2>5 DEF SequentialInv
<1>4. ASSUME NEW tx \in UserTxs, ApplyNext(tx) PROVE SequentialInv'
  <2>1. Unspent \ InputKeys(tx) \subseteq Unspent'
    BY <1>4, ApplyNextStep
  <2>2. /\ applying # None /\ tx \in applying.todo
        /\ applying' = [block |-> applying.block, todo |-> applying.todo \ {tx}]
        /\ UNCHANGED blocks
    BY <1>4 DEF ApplyNext, IsNext
  <2>3. applying'.todo = applying.todo \ {tx}
    BY <2>2
  <2>4. Ready(applying.todo)
    BY <2>2 DEF SequentialInv
  <2>5. \A x \in applying'.todo : InputKeys(x) \subseteq Unspent'
    BY <2>1, <2>2, <2>3, <2>4 DEF Ready
  <2>6. \A x, y \in applying'.todo : x # y => InputKeys(x) \cap InputKeys(y) = {}
    BY <2>3, <2>4 DEF Ready
  <2>7. Ready(applying.todo)'
    BY <2>5, <2>6 DEF Ready, InputKeys
  <2> QED
    BY <2>2, <2>7 DEF SequentialInv
<1>5. ASSUME NEW tx \in UserTxs, FailBlock(tx) PROVE SequentialInv'
  <2>1. blocks' = {} /\ applying' = None
    BY <1>5 DEF FailBlock, IsNext, SequentialInv
  <2> QED
    BY <2>1 DEF SequentialInv
<1> QED
  BY <1>1, <1>2, <1>3, <1>4, <1>5
  DEF Next, AdvanceEpoch, BroadcastTransaction, FinishBlock, vars, stateVars, blockVars

\* BlockProducer.apply_block applies every transaction of the blocks the producer
\* builds, but one that names an output twice, provided a block is applied or
\* given up before the next is built: validating each candidate against the state
\* before the block suffices, because the mempool is free of conflicts.
THEOREM SequentialBlocksApply ==
    ASSUME ~Pipelined
    PROVE  Spec => []BlocksApply
<1>1. Init => SequentialInv
  BY DEF Init, SequentialInv
<1>2. IInv /\ MempoolInv /\ SequentialInv /\ [Next]_vars => SequentialInv'
  BY StepSequential
<1> QED
  BY <1>1, <1>2, ReadyApplies, InvariantHolds, MempoolHolds, PTL DEF Spec

------------------------------------------------------------------------------
(* The mempool's size account *)

Sizes == [tx \in UserTxs |-> tx.size]

LEMMA SizeIsNat == \A tx \in UserTxs : Sizes[tx] = tx.size /\ Sizes[tx] \in Nat /\ tx.size > 0
BY TransactionsAssumption DEF Sizes, Transactions

LEMMA SizeIsSum ==
    ASSUME NEW S \in SUBSET UserTxs, IsFiniteSet(S)
    PROVE  TotalSize(S) = SumFunctionOnSet(Sizes, S) /\ TotalSize(S) \in Nat
<1> DEFINE e == [tx \in S |-> tx.size]
<1>1. DOMAIN e = S /\ \A tx \in S : e[tx] = Sizes[tx] /\ Sizes[tx] \in Nat
  BY SizeIsNat DEF Sizes
<1>2. TotalSize(S) = SumFunctionOnSet(e, S)
  BY <1>1 DEF TotalSize, SumFunction
<1> HIDE DEF e
<1>3. SumFunctionOnSet(e, S) = SumFunctionOnSet(Sizes, S)
  BY <1>1, SumAgree
<1>4. SumFunctionOnSet(Sizes, S) \in Nat
  BY <1>1, SumNat
<1> QED BY <1>2, <1>3, <1>4

SizeInv == mempool \subseteq UserTxs /\ IsFiniteSet(mempool) /\ MempoolWithinLimit

LEMMA RemoveKeepsSize ==
    ASSUME SizeInv, NEW S, RemoveTransactions(S)
    PROVE  SizeInv'
<1> DEFINE gone == S \cap mempool
<1>1. /\ mempool' = mempool \ gone /\ gone \subseteq mempool
      /\ current_size' = current_size - TotalSize(gone)
  BY DEF RemoveTransactions
<1>2. /\ IsFiniteSet(gone) /\ IsFiniteSet(mempool \ gone)
      /\ gone \subseteq UserTxs /\ mempool \ gone \subseteq UserTxs
  BY FS_Subset DEF SizeInv
<1>3. mempool \subseteq UserTxs /\ IsFiniteSet(mempool)
      /\ current_size = TotalSize(mempool) /\ current_size <= MAX_MEMPOOL_SIZE
  BY DEF SizeInv, MempoolWithinLimit
<1> HIDE DEF gone
<1>4. \A tx \in mempool : Sizes[tx] \in Nat
  BY <1>3, SizeIsNat
<1>5. SumFunctionOnSet(Sizes, mempool)
         = SumFunctionOnSet(Sizes, mempool \ gone) + SumFunctionOnSet(Sizes, gone)
  BY <1>1, <1>3, <1>4, SumSplit
<1>6. /\ TotalSize(mempool) = TotalSize(mempool \ gone) + TotalSize(gone)
      /\ TotalSize(mempool \ gone) \in Nat /\ TotalSize(gone) \in Nat
  BY <1>2, <1>3, <1>5, SizeIsSum
<1>7. TotalSize(mempool)' = TotalSize(mempool \ gone)
  BY <1>1 DEF TotalSize
<1> QED
  BY <1>1, <1>2, <1>3, <1>6, <1>7, LedgerConstantsAssumption DEF SizeInv, MempoolWithinLimit

LEMMA StepSize == SizeInv /\ [Next]_vars => SizeInv'
<1> SUFFICES ASSUME SizeInv, [Next]_vars PROVE SizeInv'
  OBVIOUS
<1>1. CASE UNCHANGED mempoolVars
  BY <1>1 DEF SizeInv, MempoolWithinLimit, mempoolVars, TotalSize
<1>2. ASSUME NEW tx \in UserTxs, BroadcastTransaction(tx) PROVE SizeInv'
  <2>1. /\ mempool' = mempool \cup {tx} /\ tx \notin mempool
        /\ current_size' = current_size + tx.size /\ current_size + tx.size <= MAX_MEMPOOL_SIZE
    BY <1>2 DEF BroadcastTransaction
  <2>2. mempool \subseteq UserTxs /\ IsFiniteSet(mempool) /\ current_size = TotalSize(mempool)
    BY DEF SizeInv, MempoolWithinLimit
  <2>3. IsFiniteSet(mempool \cup {tx}) /\ mempool \cup {tx} \subseteq UserTxs
    BY <2>2, FS_AddElement
  <2>4. \A x \in mempool \cup {tx} : Sizes[x] \in Nat
    BY <2>3, SizeIsNat
  <2>5. SumFunctionOnSet(Sizes, mempool \cup {tx}) = Sizes[tx] + SumFunctionOnSet(Sizes, mempool)
    BY <2>1, <2>2, <2>4, SumAdd
  <2>6. TotalSize(mempool \cup {tx}) = current_size + tx.size
    BY <2>2, <2>3, <2>5, SizeIsSum, SizeIsNat
  <2>7. TotalSize(mempool)' = TotalSize(mempool \cup {tx})
    BY <2>1 DEF TotalSize
  <2> QED BY <2>1, <2>3, <2>6, <2>7 DEF SizeInv, MempoolWithinLimit
<1>3. CASE ProduceBlock
  <2>1. PICK S : RemoveTransactions(S)
    BY <1>3 DEF ProduceBlock
  <2> QED
    BY <2>1, RemoveKeepsSize
<1>4. CASE FinishBlock
  BY <1>4, RemoveKeepsSize DEF FinishBlock
<1> QED
  BY <1>1, <1>2, <1>3, <1>4
  DEF Next, AdvanceEpoch, ApplyBlock, ApplyNext, FailBlock, vars

LEMMA SizeHolds == Spec => []SizeInv
<1>1. Init => SizeInv
  <2> SUFFICES ASSUME Init PROVE SizeInv
    OBVIOUS
  <2>1. mempool = {} /\ current_size = 0 /\ IsFiniteSet({})
    BY FS_EmptySet DEF Init
  <2>2. TotalSize({}) = 0
    BY SizeIsSum, SumEmpty, FS_EmptySet
  <2> QED
    BY <2>1, <2>2, LedgerConstantsAssumption DEF SizeInv, MempoolWithinLimit
<1> QED
  BY <1>1, StepSize, PTL DEF Spec

\* Mempool.current_size is the size of what the mempool holds and never exceeds
\* the limit, whatever is added, rejected by a template or confirmed by a block.
THEOREM MempoolIsLimited == Spec => []MempoolWithinLimit
<1>1. SizeInv => MempoolWithinLimit
  BY DEF SizeInv
<1> QED
  BY <1>1, SizeHolds, PTL

------------------------------------------------------------------------------
(* Types *)

LEMMA SeqFinite == ASSUME NEW X, NEW s \in Seq(X) PROVE IsFiniteSet(DOMAIN s)
<1>1. DOMAIN s = 1 .. Len(s) /\ Len(s) \in Nat
  OBVIOUS
<1> QED BY <1>1, FS_Interval

Fees == [tx \in UserTxs |-> tx.fee]

LEMMA FeeIsNat == \A tx \in UserTxs : Fees[tx] = tx.fee /\ Fees[tx] \in Nat
BY TransactionsAssumption DEF Fees, Transactions

LEMMA FeesAreSum ==
    ASSUME NEW S \in SUBSET UserTxs, IsFiniteSet(S)
    PROVE  TotalFees(S) = SumFunctionOnSet(Fees, S) /\ TotalFees(S) \in Nat
<1> DEFINE e == [tx \in S |-> tx.fee]
<1>1. DOMAIN e = S /\ \A tx \in S : e[tx] = Fees[tx] /\ Fees[tx] \in Nat
  BY FeeIsNat DEF Fees
<1>2. TotalFees(S) = SumFunctionOnSet(e, S)
  BY <1>1 DEF TotalFees, SumFunction
<1> HIDE DEF e
<1>3. SumFunctionOnSet(e, S) = SumFunctionOnSet(Fees, S)
  BY <1>1, SumAgree
<1>4. SumFunctionOnSet(Fees, S) \in Nat
  BY <1>1, SumNat
<1> QED BY <1>2, <1>3, <1>4

LEMMA StakeIsNat ==
    ASSUME NEW tx \in Transactions, NEW a
    PROVE  StakeAdded(tx, a) \in Nat
<1> DEFINE I == {i \in DOMAIN tx.outputs : tx.type = "STAKE" /\ tx.outputs[i].address = a
                                             /\ tx.outputs[i].lock_epoch > tx.epoch}
           e == [i \in I |-> tx.outputs[i].value]
<1>1. tx.outputs \in Seq(TxOutputs)
  BY DEF Transactions
<1>2. DOMAIN e = I /\ \A i \in I : e[i] \in Nat
  <2>1. \A i \in DOMAIN tx.outputs : tx.outputs[i] \in TxOutputs
    BY <1>1
  <2>2. \A i \in DOMAIN tx.outputs : tx.outputs[i].value \in Nat
    BY <2>1 DEF TxOutputs
  <2> QED BY <2>2
<1>3. IsFiniteSet(I)
  BY <1>1, SeqFinite, FS_Subset
<1>4. StakeAdded(tx, a) = SumFunction(e)
  BY DEF StakeAdded
<1> HIDE DEF I, e
<1>5. SumFunctionOnSet(e, I) \in Nat
  BY <1>2, <1>3, SumNat
<1> QED BY <1>2, <1>4, <1>5 DEF SumFunction

StateTypes ==
    /\ DOMAIN utxos \subseteq Outpoints
    /\ utxos \in [DOMAIN utxos -> UTXOs]
    /\ by_address \in [Addresses -> SUBSET Outpoints]
    /\ staked \in [Addresses -> Nat]
    /\ auth_roots \in [Addresses -> Roots \cup {None}]

LEMMA SpentTypes ==
    ASSUME StateTypes, NEW tx \in Transactions
    PROVE  /\ DOMAIN SpentUtxos(tx) = DOMAIN utxos
           /\ \A k \in DOMAIN utxos : SpentUtxos(tx)[k] \in UTXOs
<1>1. tx.hash \in Hashes
  BY DEF Transactions
<1>2. \A k \in DOMAIN utxos : utxos[k] \in UTXOs /\ utxos[k].output \in TxOutputs
  BY DEF StateTypes, UTXOs
<1> QED BY <1>1, <1>2 DEF SpentUtxos, UTXOs

LEMMA ApplyAllTypes ==
    ASSUME StateTypes, NEW tx \in Transactions, 1 \in DOMAIN tx.outputs, ApplyAll(tx)
    PROVE  StateTypes'
<1>1. tx.outputs \in Seq(TxOutputs) /\ tx.hash \in Hashes
  BY DEF Transactions
<1>2. \A i \in DOMAIN tx.outputs : i \in Nat /\ tx.outputs[i] \in TxOutputs
  BY <1>1
<1>3. Created(tx) \subseteq Outpoints
  BY <1>1, <1>2 DEF Created, Outpoints
<1>4. utxos' = WithOutputs(tx, SpentUtxos(tx))
  BY DEF ApplyAll
<1>5. DOMAIN utxos' = DOMAIN utxos \cup Created(tx)
  BY <1>4, SpentTypes DEF WithOutputs
<1>6. \A k \in Created(tx) : tx.outputs[k[2]] \in TxOutputs
  BY <1>2 DEF Created
<1>7. ASSUME NEW k \in DOMAIN utxos' PROVE utxos'[k] \in UTXOs
  <2>1. CASE k \in Created(tx)
    <3>1. utxos'[k] = [output |-> tx.outputs[k[2]], is_spent |-> FALSE, spent_by |-> None]
      BY <1>4, <2>1 DEF WithOutputs
    <3> QED BY <1>6, <2>1, <3>1 DEF UTXOs
  <2>2. CASE k \notin Created(tx)
    <3>1. k \in DOMAIN utxos /\ utxos'[k] = SpentUtxos(tx)[k]
      BY <1>4, <1>5, <2>2, SpentTypes DEF WithOutputs
    <3> QED BY <3>1, SpentTypes
  <2> QED BY <2>1, <2>2
<1>8. utxos' \in [DOMAIN utxos' -> UTXOs]
  <2>1. utxos' = [k \in DOMAIN utxos' |-> utxos'[k]]
    BY <1>4 DEF WithOutputs
  <2> QED BY <1>7, <2>1
<1>9. by_address' \in [Addresses -> SUBSET Outpoints]
  <2>1. \A a \in Addresses : by_address[a] \subseteq Outpoints
    BY DEF StateTypes
  <2> QED BY <1>3, <2>1 DEF ApplyAll
<1>10. staked' \in [Addresses -> Nat]
  <2>1. \A a \in Addresses : staked[a] \in Nat /\ StakeAdded(tx, a) \in Nat
    BY StakeIsNat DEF StateTypes
  <2> QED BY <2>1 DEF ApplyAll
<1>11. auth_roots' \in [Addresses -> Roots \cup {None}]
  <2>1. tx.outputs[1].data.root \in Roots \cup {None}
    BY <1>2 DEF TxOutputs, Data
  <2>2. \A a \in Addresses : auth_roots[a] \in Roots \cup {None}
    BY DEF StateTypes
  <2> QED BY <2>1, <2>2 DEF ApplyAll, NewAuthRoots
<1> QED BY <1>3, <1>5, <1>8, <1>9, <1>10, <1>11 DEF StateTypes

LEMMA FailureTypes ==
    ASSUME StateTypes, NEW tx \in Transactions, ApplyUntilFailure(tx)
    PROVE  StateTypes'
<1>1. utxos' = SpentUtxos(tx) /\ UNCHANGED <<staked, auth_roots>>
  BY DEF ApplyUntilFailure
<1>2. utxos' \in [DOMAIN utxos' -> UTXOs] /\ DOMAIN utxos' = DOMAIN utxos
  <2>1. utxos' = [k \in DOMAIN utxos' |-> utxos'[k]]
    BY <1>1 DEF SpentUtxos
  <2> QED BY <1>1, <2>1, SpentTypes
<1>3. by_address' \in [Addresses -> SUBSET Outpoints]
  <2>1. \A a \in Addresses : by_address[a] \subseteq Outpoints
    BY DEF StateTypes
  <2> QED BY <2>1 DEF ApplyUntilFailure
<1> QED BY <1>1, <1>2, <1>3 DEF StateTypes

LEMMA CoinbaseType ==
    ASSUME NEW n \in 1 .. MaxBlocks, NEW fees \in Nat, epoch \in Nat
    PROVE  Coinbase(n, fees) \in Transactions /\ 1 \in DOMAIN Coinbase(n, fees).outputs
<1> DEFINE o == [value |-> COINBASE_REWARD + fees, address |-> RewardAddress,
                 lock_epoch |-> epoch + COINBASE_LOCK, data |-> NoData]
<1>1. o \in TxOutputs
  BY LedgerConstantsAssumption DEF TxOutputs, NoData, Data
<1>2. << o >> \in Seq(TxOutputs) /\ 1 \in DOMAIN << o >>
  BY <1>1
<1>3. CoinbaseHash[n] \in Hashes
  BY CoinbaseAssumption
<1>4. Coinbase(n, fees) = [hash |-> CoinbaseHash[n], type |-> "COINBASE", inputs |-> <<>>,
         outputs |-> << o >>, epoch |-> epoch, timestamp |-> 0, fee |-> 0, size |-> 1]
  BY DEF Coinbase
<1> HIDE DEF o
<1>5. << >> \in Seq(TxInputs) /\ "COINBASE" \in TxType
  BY DEF TxType
<1> QED BY <1>2, <1>3, <1>4, <1>5 DEF Transactions

\* What is in a block has an output: register_via_tx and rotate_via_tx read it.
HasOutputs(b) == \A tx \in b.transactions : 1 \in DOMAIN tx.outputs

TypeInv ==
    /\ StateTypes
    /\ epoch \in 0 .. MaxEpoch /\ built \in 0 .. MaxBlocks
    /\ \A b \in blocks : b \in Blocks /\ HasOutputs(b) /\ 1 \in DOMAIN b.coinbase.outputs
    /\ applying \in Applying \cup {None}
    /\ applying # None => \A tx \in applying.todo : 1 \in DOMAIN tx.outputs
    /\ finalized \subseteq Blocks /\ failed \subseteq Blocks
    /\ spent_outputs \subseteq Outpoints

LEMMA ProduceTypes ==
    ASSUME SizeInv, TypeInv, ProduceBlock
    PROVE  TypeInv'
<1>1. PICK S \in SUBSET mempool :
         LET valid == {tx \in S : ValidTransaction(tx)}
         IN  /\ RemoveTransactions(Rejected(S, valid))
             /\ blocks' = (IF Pipelined THEN blocks ELSE {}) \cup
                     {[number |-> built + 1, epoch |-> epoch,
                       coinbase |-> Coinbase(built + 1, TotalFees(Included(valid))),
                       transactions |-> Included(valid)]}
  BY DEF ProduceBlock
<1> DEFINE txs == Included({tx \in S : ValidTransaction(tx)})
           cb == Coinbase(built + 1, TotalFees(txs))
           new == [number |-> built + 1, epoch |-> epoch, coinbase |-> cb, transactions |-> txs]
<1>2. blocks' \subseteq blocks \cup {new}
  BY <1>1
<1>3. /\ built' = built + 1 /\ built < MaxBlocks /\ built \in Nat /\ MaxBlocks \in Nat
      /\ epoch \in 0 .. MaxEpoch /\ epoch \in Nat
      /\ UNCHANGED <<stateVars, epoch, applying, finalized, failed>>
  BY LedgerConstantsAssumption DEF ProduceBlock, TypeInv
<1>4. spent_outputs' \subseteq Outpoints
  BY <1>1 DEF RemoveTransactions, TypeInv
<1>5. txs \subseteq mempool /\ \A tx \in txs : ValidTransaction(tx)
  BY DEF Included
<1> HIDE DEF txs
<1>6. txs \subseteq UserTxs /\ IsFiniteSet(txs)
  BY <1>5, FS_Subset DEF SizeInv
<1>7. TotalFees(txs) \in Nat
  BY <1>6, FeesAreSum
<1>8. built + 1 \in 1 .. MaxBlocks
  BY <1>3
<1>9. cb \in Transactions /\ 1 \in DOMAIN cb.outputs
  BY <1>3, <1>7, <1>8, CoinbaseType
<1>10. \A tx \in txs : 1 \in DOMAIN tx.outputs
  <2>1. \A tx \in txs : Len(tx.outputs) \in 1 .. MAX_OUTPUTS /\ tx.outputs \in Seq(TxOutputs)
    BY <1>5, <1>6, UserTxTypes DEF ValidTransaction, IsValidStructure
  <2> QED BY <2>1, LedgerConstantsAssumption
<1> HIDE DEF cb
<1>11. new \in Blocks /\ new.coinbase = cb /\ new.transactions = txs
  BY <1>3, <1>6, <1>8, <1>9 DEF Blocks
<1> HIDE DEF new
<1>12. HasOutputs(new) /\ 1 \in DOMAIN new.coinbase.outputs
  BY <1>9, <1>10, <1>11 DEF HasOutputs
<1>13. \A b \in blocks' : b \in Blocks /\ HasOutputs(b) /\ 1 \in DOMAIN b.coinbase.outputs
  BY <1>2, <1>11, <1>12 DEF TypeInv
<1>14. StateTypes'
  BY <1>3 DEF TypeInv, StateTypes, stateVars
<1>15. built' \in 0 .. MaxBlocks
  BY <1>3
<1> QED BY <1>3, <1>4, <1>13, <1>14, <1>15 DEF TypeInv, HasOutputs

LEMMA StepTypes == SizeInv /\ TypeInv /\ [Next]_vars => TypeInv'
<1> SUFFICES ASSUME SizeInv, TypeInv, [Next]_vars PROVE TypeInv'
  OBVIOUS
<1>1. CASE AdvanceEpoch
  <2>1. epoch' \in 0 .. MaxEpoch
    BY <1>1, LedgerConstantsAssumption DEF AdvanceEpoch, TypeInv
  <2> QED BY <1>1, <2>1
      DEF AdvanceEpoch, TypeInv, StateTypes, HasOutputs, stateVars, mempoolVars, blockVars
<1>2. ASSUME NEW tx \in UserTxs, BroadcastTransaction(tx) PROVE TypeInv'
  <2>1. InputKeys(tx) \subseteq Outpoints
    <3>1. \A i \in DOMAIN tx.inputs : tx.inputs[i] \in TxInputs
      BY UserTxTypes
    <3> QED BY <3>1 DEF InputKeys, TxInputs
  <2> QED BY <1>2, <2>1
      DEF BroadcastTransaction, TypeInv, StateTypes, HasOutputs, stateVars, blockVars
<1>3. CASE ProduceBlock
  BY <1>3, ProduceTypes
<1>4. ASSUME NEW b \in blocks, ApplyBlock(b) PROVE TypeInv'
  <2>1. /\ ApplyAll(b.coinbase)
        /\ applying' = [block |-> b, todo |-> b.transactions]
        /\ blocks' = {x \in blocks : x.epoch # b.epoch}
        /\ finalized' = finalized \cup {b}
        /\ UNCHANGED <<spent_outputs, epoch, built, failed>>
    BY <1>4 DEF ApplyBlock, mempoolVars
  <2>2. b \in Blocks /\ HasOutputs(b) /\ 1 \in DOMAIN b.coinbase.outputs
    BY DEF TypeInv
  <2>3. b.coinbase \in Transactions /\ b.transactions \subseteq UserTxs
    BY <2>2 DEF Blocks
  <2>4. StateTypes'
    BY <2>1, <2>2, <2>3, ApplyAllTypes DEF TypeInv
  <2>5. applying' \in Applying /\ applying'.todo = b.transactions
    BY <2>1, <2>2, <2>3 DEF Applying
  <2>6. \A tx \in applying'.todo : 1 \in DOMAIN tx.outputs
    BY <2>2, <2>5 DEF HasOutputs
  <2>7. /\ \A x \in blocks' : x \in Blocks /\ HasOutputs(x) /\ 1 \in DOMAIN x.coinbase.outputs
        /\ finalized' \subseteq Blocks
    BY <2>1, <2>2 DEF TypeInv
  <2> QED BY <2>1, <2>4, <2>5, <2>6, <2>7 DEF TypeInv, HasOutputs
<1>5. ASSUME NEW tx \in UserTxs, ApplyNext(tx) PROVE TypeInv'
  <2>1. /\ ApplyAll(tx) /\ applying # None /\ tx \in applying.todo
        /\ applying' = [block |-> applying.block, todo |-> applying.todo \ {tx}]
        /\ UNCHANGED <<spent_outputs, epoch, built, blocks, finalized, failed>>
    BY <1>5 DEF ApplyNext, IsNext, mempoolVars
  <2>2. tx \in Transactions /\ 1 \in DOMAIN tx.outputs
    BY <2>1, TransactionsAssumption DEF TypeInv
  <2>3. StateTypes'
    BY <2>1, <2>2, ApplyAllTypes DEF TypeInv
  <2>4. applying' \in Applying /\ applying'.todo = applying.todo \ {tx}
    BY <2>1 DEF TypeInv, Applying
  <2>5. \A x \in applying'.todo : 1 \in DOMAIN x.outputs
    BY <2>1, <2>4 DEF TypeInv
  <2> QED BY <2>1, <2>3, <2>4, <2>5 DEF TypeInv, HasOutputs
<1>6. ASSUME NEW tx \in UserTxs, FailBlock(tx) PROVE TypeInv'
  <2>1. /\ ApplyUntilFailure(tx) /\ applying # None
        /\ failed' = failed \cup {applying.block} /\ applying' = None
        /\ UNCHANGED <<spent_outputs, epoch, built, blocks, finalized>>
    BY <1>6 DEF FailBlock, IsNext, mempoolVars
  <2>2. StateTypes'
    BY <2>1, TransactionsAssumption, FailureTypes DEF TypeInv
  <2>3. applying.block \in Blocks
    BY <2>1 DEF TypeInv, Applying
  <2> QED BY <2>1, <2>2, <2>3 DEF TypeInv, HasOutputs
<1>7. CASE FinishBlock
  <2>1. spent_outputs' \subseteq Outpoints
    BY <1>7 DEF FinishBlock, RemoveTransactions, TypeInv
  <2>2. failed' \subseteq Blocks
    BY <1>7 DEF FinishBlock, TypeInv, Applying
  <2> QED BY <1>7, <2>1, <2>2 DEF FinishBlock, TypeInv, StateTypes, HasOutputs, stateVars
<1>8. CASE UNCHANGED vars
  BY <1>8 DEF TypeInv, StateTypes, HasOutputs, vars, stateVars, mempoolVars, blockVars
<1> QED
  BY <1>1, <1>2, <1>3, <1>4, <1>5, <1>6, <1>7, <1>8 DEF Next

LEMMA InitTypes == Init => TypeInv
<1> SUFFICES ASSUME Init PROVE TypeInv
  OBVIOUS
<1>1. \A k \in DOMAIN Genesis : Genesis[k] \in TxOutputs
  BY GenesisAssumption
<1>2. /\ utxos = [k \in DOMAIN Genesis |->
                      [output |-> Genesis[k], is_spent |-> FALSE, spent_by |-> None]]
      /\ DOMAIN utxos = DOMAIN Genesis
  BY DEF Init
<1>3. utxos \in [DOMAIN utxos -> UTXOs]
  BY <1>1, <1>2 DEF UTXOs
<1>4. DOMAIN utxos \subseteq Outpoints
  BY <1>2, GenesisAssumption
<1>5. by_address \in [Addresses -> SUBSET Outpoints]
  BY GenesisAssumption DEF Init
<1>6. StateTypes
  BY <1>3, <1>4, <1>5 DEF Init, StateTypes
<1> QED BY <1>6, LedgerConstantsAssumption DEF Init, TypeInv

LEMMA TypesHold == Spec => []TypeInv
BY InitTypes, StepTypes, SizeHolds, PTL DEF Spec

\* The UTXO set, the registry, the mempool and the pending blocks keep their
\* types: add_utxo, spend_utxo, register_via_tx and rotate_via_tx store outputs,
\* spenders and roots, and create_coinbase makes a well-formed transaction.
THEOREM LedgerTypes == Spec => []LedgerTypeOK
<1>1. SizeInv /\ TypeInv => LedgerTypeOK
  <2> SUFFICES ASSUME SizeInv, TypeInv PROVE LedgerTypeOK
    OBVIOUS
  <2>1. current_size \in Nat
    BY SizeIsSum DEF SizeInv, MempoolWithinLimit
  <2> QED BY <2>1 DEF SizeInv, TypeInv, StateTypes, LedgerTypeOK
<1> QED
  BY <1>1, TypesHold, SizeHolds, PTL

------------------------------------------------------------------------------
(* The supply *)

FiniteGenesis == IsFiniteSet(DOMAIN Genesis)

Worths == [k \in DOMAIN utxos |-> utxos[k].output.value]
Worth(S) == SumFunctionOnSet(Worths, S)
GenesisValue == SumFunction([k \in DOMAIN Genesis |-> Genesis[k].value])
TotalGrants(S) == SumFunction([b \in S |-> Grant(b)])
TotalUnpaid(S) == SumFunction([b \in S |-> TotalFees(b.transactions)])
TotalUnbacked(S) == SumFunction([tx \in S |-> Unbacked(tx)])
Minted == GenesisValue + TotalGrants(finalized) + TotalUnpaid(failed)

\* the transaction pays for its outputs and its fee, if its type has to
Covered(tx) ==
    \/ tx.type \in {"COINBASE", "SLASH"}
    \/ InputKeys(tx) \subseteq DOMAIN utxos /\ ConservesValue(tx)

FiniteBlocks(S) ==
    IsFiniteSet(S) /\ \A b \in S : b.transactions \subseteq UserTxs /\ IsFiniteSet(b.transactions)

\* a block's coinbase takes the reward and the fees its transactions will pay
PaidFor(b) ==
    /\ \A c \in finalized : c.epoch # b.epoch
    /\ IsFiniteSet(b.transactions)
    /\ \A tx \in b.transactions : Covered(tx)
    /\ b.coinbase.outputs[1].value = COINBASE_REWARD + TotalFees(b.transactions)

\* What is needed to add up the UTXO set
Countable ==
    /\ \A k \in DOMAIN utxos : utxos[k].output.value \in Nat
    /\ IsFiniteSet(DOMAIN utxos)

\* While a block is applied, what its remaining transactions will pay is owed,
\* and what they will create is not there yet.
ApplyingInv ==
    /\ applying.block \in finalized \ failed
    /\ applying.todo \subseteq applying.block.transactions
    /\ \A tx \in applying.todo : Covered(tx)
    /\ Worth(Unspent) + TotalUnbacked(applying.todo) <= Minted + TotalFees(applying.todo)

SupplyInv ==
    /\ Countable
    /\ FiniteBlocks(finalized) /\ failed \subseteq finalized
    /\ \A b \in blocks : PaidFor(b)
    /\ applying = None => Worth(Unspent) <= Minted
    /\ applying # None => ApplyingInv

\* Adding one element to what is summed up
LEMMA SumExtend ==
    ASSUME NEW S, IsFiniteSet(S), NEW x, x \notin S,
           NEW e, DOMAIN e = S, \A y \in S : e[y] \in Nat,
           NEW f, DOMAIN f = S \cup {x}, \A y \in S : f[y] = e[y], f[x] \in Nat
    PROVE  SumFunction(f) = SumFunction(e) + f[x] /\ SumFunction(e) \in Nat
<1>1. \A y \in S \cup {x} : f[y] \in Nat
  OBVIOUS
<1>2. SumFunctionOnSet(f, S \cup {x}) = f[x] + SumFunctionOnSet(f, S)
  BY <1>1, SumAdd
<1>3. SumFunctionOnSet(f, S) = SumFunctionOnSet(e, S) /\ SumFunctionOnSet(e, S) \in Nat
  BY SumAgree, SumNat
<1> QED BY <1>2, <1>3 DEF SumFunction

LEMMA OutputsAreNat ==
    ASSUME NEW tx \in UserTxs
    PROVE  /\ IsFiniteSet(DOMAIN tx.outputs) /\ TotalOutput(tx) \in Nat
           /\ \A i \in DOMAIN tx.outputs :
                 tx.outputs[i].value \in Nat /\ tx.outputs[i].address \in Addresses
<1> DEFINE e == [i \in DOMAIN tx.outputs |-> tx.outputs[i].value]
<1>1. \A i \in DOMAIN tx.outputs : tx.outputs[i] \in TxOutputs
  BY UserTxTypes
<1>2. \A i \in DOMAIN tx.outputs :
         tx.outputs[i].value \in Nat /\ tx.outputs[i].address \in Addresses
  BY <1>1 DEF TxOutputs
<1>3. IsFiniteSet(DOMAIN tx.outputs)
  BY UserTxTypes, SeqFinite
<1>4. DOMAIN e = DOMAIN tx.outputs /\ \A i \in DOMAIN tx.outputs : e[i] \in Nat
  BY <1>2
<1>5. TotalOutput(tx) = SumFunctionOnSet(e, DOMAIN tx.outputs)
  BY <1>4 DEF TotalOutput, SumFunction
<1> HIDE DEF e
<1> QED BY <1>2, <1>3, <1>4, <1>5, SumNat

LEMMA UnbackedIsNat == ASSUME NEW tx \in UserTxs PROVE Unbacked(tx) \in Nat
BY OutputsAreNat, FeeIsNat DEF Unbacked

LEMMA UnbackedAreNat ==
    ASSUME NEW S \in SUBSET UserTxs, IsFiniteSet(S)
    PROVE  TotalUnbacked(S) \in Nat
<1> DEFINE e == [tx \in S |-> Unbacked(tx)]
<1>1. DOMAIN e = S /\ \A tx \in S : e[tx] \in Nat
  BY UnbackedIsNat
<1>2. TotalUnbacked(S) = SumFunctionOnSet(e, S)
  BY <1>1 DEF TotalUnbacked, SumFunction
<1> HIDE DEF e
<1> QED BY <1>1, <1>2, SumNat

LEMMA UnbackedWithout ==
    ASSUME NEW S \in SUBSET UserTxs, IsFiniteSet(S), NEW tx \in S
    PROVE  /\ TotalUnbacked(S) = Unbacked(tx) + TotalUnbacked(S \ {tx})
           /\ TotalUnbacked(S \ {tx}) \in Nat /\ Unbacked(tx) \in Nat
<1> DEFINE R == S \ {tx}
           e == [x \in R |-> Unbacked(x)]
           f == [x \in S |-> Unbacked(x)]
<1>1. IsFiniteSet(R) /\ R \cup {tx} = S /\ tx \notin R /\ R \subseteq UserTxs
  BY FS_Subset
<1>2. /\ DOMAIN e = R /\ DOMAIN f = R \cup {tx} /\ f[tx] = Unbacked(tx) /\ f[tx] \in Nat
      /\ \A x \in R : e[x] \in Nat /\ f[x] = e[x]
  BY <1>1, UnbackedIsNat
<1>3. TotalUnbacked(S) = SumFunction(f) /\ TotalUnbacked(R) = SumFunction(e)
  BY DEF TotalUnbacked
<1> HIDE DEF e, f, R
<1>4. SumFunction(f) = SumFunction(e) + f[tx] /\ SumFunction(e) \in Nat
  BY <1>1, <1>2, SumExtend
<1> QED BY <1>2, <1>3, <1>4 DEF R

\* Applying one transaction settles its fee.
LEMMA FeesWithout ==
    ASSUME NEW S \in SUBSET UserTxs, IsFiniteSet(S), NEW tx \in S
    PROVE  /\ TotalFees(S) = tx.fee + TotalFees(S \ {tx})
           /\ tx.fee \in Nat /\ TotalFees(S \ {tx}) \in Nat /\ IsFiniteSet(S \ {tx})
<1>1. IsFiniteSet(S \ {tx}) /\ S \ {tx} \subseteq UserTxs
  BY FS_Subset
<1>2. \A x \in S : Fees[x] = x.fee /\ Fees[x] \in Nat
  BY FeeIsNat
<1>3. SumFunctionOnSet(Fees, S) = Fees[tx] + SumFunctionOnSet(Fees, S \ {tx})
  BY <1>2, SumRemove
<1> QED BY <1>1, <1>2, <1>3, FeesAreSum

\* Every type but COINBASE and SLASH is validated to pay for its outputs and fee.
LEMMA ValidCovered ==
    ASSUME NEW tx \in UserTxs, ValidTransaction(tx)
    PROVE  Covered(tx)
<1>1. InputKeys(tx) \subseteq DOMAIN utxos
  BY ValidInputs DEF Unspent
<1>2. ConservesValue(tx) \/ tx.type \in {"COINBASE", "SLASH"}
  BY DEF ValidTransaction, ValidTransfer, ValidStake, ValidData, ValidRegister, ValidRotateAuth
<1> QED BY <1>1, <1>2 DEF Covered

LEMMA CoveredKept ==
    ASSUME NEW tx \in UserTxs, Covered(tx), KeepsOutputs
    PROVE  Covered(tx)'
<1> SUFFICES ASSUME InputKeys(tx) \subseteq DOMAIN utxos, ConservesValue(tx)
             PROVE  InputKeys(tx) \subseteq DOMAIN utxos' /\ ConservesValue(tx)'
  BY DEF Covered, InputKeys
<1>5. InputKeys(tx) \subseteq DOMAIN utxos'
  BY DEF KeepsOutputs
<1>1. \A i \in DOMAIN tx.inputs : tx.inputs[i].key \in DOMAIN utxos
  BY DEF InputKeys
<1>2. [i \in DOMAIN tx.inputs |-> utxos'[tx.inputs[i].key].output.value]
        = [i \in DOMAIN tx.inputs |-> utxos[tx.inputs[i].key].output.value]
  BY <1>1 DEF KeepsOutputs
<1>3. TotalInput(tx)' = TotalInput(tx)
  BY <1>2 DEF TotalInput
<1>4. TotalOutput(tx)' = TotalOutput(tx)
  BY DEF TotalOutput
<1> QED BY <1>3, <1>4, <1>5 DEF ConservesValue

LEMMA WorthIsNat ==
    ASSUME Countable, NEW S \in SUBSET DOMAIN utxos
    PROVE  Worth(S) \in Nat
<1>1. IsFiniteSet(S) /\ \A k \in S : Worths[k] \in Nat
  BY FS_Subset DEF Countable, Worths
<1> QED BY <1>1, SumNat DEF Worth

LEMMA UnspentIsNatNext ==
    ASSUME Countable'
    PROVE  Worth(Unspent)' \in Nat
<1> DEFINE W == [k \in DOMAIN utxos' |-> utxos'[k].output.value]
           T == {k \in DOMAIN utxos' : ~utxos'[k].is_spent}
<1>1. Worths' = W /\ Unspent' = T
  BY DEF Worths, Unspent
<1>2. IsFiniteSet(T) /\ \A k \in T : W[k] \in Nat
  BY FS_Subset DEF Countable
<1> HIDE DEF W, T
<1>3. SumFunctionOnSet(W, T) \in Nat
  BY <1>2, SumNat
<1> QED BY <1>1, <1>3 DEF Worth

LEMMA UnspentWorth ==
    ASSUME Countable
    PROVE  SumFunction([k \in Unspent |-> utxos[k].output.value]) = Worth(Unspent)
<1> DEFINE e == [k \in Unspent |-> utxos[k].output.value]
<1>1. Unspent \subseteq DOMAIN utxos
  BY DEF Unspent
<1>2. DOMAIN e = Unspent /\ \A k \in Unspent : e[k] = Worths[k] /\ Worths[k] \in Nat
  BY <1>1 DEF Worths, Countable
<1>3. IsFiniteSet(Unspent)
  BY <1>1, FS_Subset DEF Countable
<1>4. SumFunction(e) = SumFunctionOnSet(e, Unspent)
  BY <1>2 DEF SumFunction
<1> HIDE DEF e
<1>5. SumFunctionOnSet(e, Unspent) = SumFunctionOnSet(Worths, Unspent)
  BY <1>2, <1>3, SumAgree
<1> QED BY <1>4, <1>5 DEF Worth, e

\* A transaction that applies names each input once, and spends what it counts.
LEMMA InputWorth ==
    ASSUME Countable, NEW tx \in UserTxs, Applies(tx), InputKeys(tx) \subseteq DOMAIN utxos
    PROVE  TotalInput(tx) = Worth(InputKeys(tx))
<1> DEFINE h == [i \in DOMAIN tx.inputs |-> tx.inputs[i].key]
           e == [i \in DOMAIN tx.inputs |-> utxos[tx.inputs[i].key].output.value]
           I == DOMAIN tx.inputs
<1>1. IsFiniteSet(I)
  BY UserTxTypes, SeqFinite
<1>2. \A i \in I : h[i] \in DOMAIN utxos /\ e[i] = Worths[h[i]] /\ Worths[h[i]] \in Nat
  BY DEF InputKeys, Worths, Countable
<1>3. ASSUME NEW i \in I, NEW j \in I, h[i] = h[j] PROVE i = j
  <2>1. i \in Nat \ {0} /\ j \in Nat \ {0}
    BY UserTxTypes
  <2>2. \A m \in I : \A n \in 1 .. m - 1 : tx.inputs[n].key # tx.inputs[m].key
    BY DEF Applies, SpendSucceeds
  <2>3. CASE i < j
    BY <1>3, <2>1, <2>2, <2>3
  <2>4. CASE j < i
    BY <1>3, <2>1, <2>2, <2>4
  <2> QED BY <2>1, <2>3, <2>4
<1>4. InputKeys(tx) = {h[i] : i \in I}
  BY DEF InputKeys
<1>5. TotalInput(tx) = SumFunctionOnSet(e, I)
  BY DEF TotalInput, SumFunction
<1> HIDE DEF h, e, I
<1>6. SumFunctionOnSet(e, I) = SumFunctionOnSet(Worths, {h[i] : i \in I})
  BY <1>1, <1>2, <1>3, SumImage
<1> QED BY <1>4, <1>5, <1>6 DEF Worth

\* The outputs S of U are replaced by those of tx, some of which may be in U.
Moves(U, S, V, W, tx) ==
    /\ SumFunctionOnSet(W, (U \ S) \cup Created(tx)) + SumFunctionOnSet(V, S)
          <= SumFunctionOnSet(V, U) + TotalOutput(tx)
    /\ IsFiniteSet(Created(tx)) /\ TotalOutput(tx) \in Nat

LEMMA Moved ==
    ASSUME NEW U, IsFiniteSet(U), NEW S \in SUBSET U, NEW V, \A k \in U : V[k] \in Nat,
           NEW tx, IsFiniteSet(DOMAIN tx.outputs),
           NEW W, \A k \in (U \ S) \ Created(tx) : W[k] = V[k],
           \A i \in DOMAIN tx.outputs : /\ tx.outputs[i].value \in Nat
                                        /\ W[<<tx.hash, i>>] = tx.outputs[i].value
    PROVE  Moves(U, S, V, W, tx)
<1> DEFINE I == DOMAIN tx.outputs
           C == Created(tx)
           h == [i \in I |-> <<tx.hash, i>>]
           e == [i \in I |-> tx.outputs[i].value]
           rest == (U \ S) \ C
           over == (U \ S) \cap C
<1>1. C = {h[i] : i \in I}
  BY DEF Created
<1>2. \A i \in I : e[i] = W[h[i]] /\ W[h[i]] \in Nat /\ e[i] \in Nat
  OBVIOUS
<1>3. \A i, j \in I : h[i] = h[j] => i = j
  OBVIOUS
<1>4. TotalOutput(tx) = SumFunctionOnSet(e, I)
  BY DEF TotalOutput, SumFunction
<1>5. \A k \in C : W[k] \in Nat
  BY DEF Created
<1>6. /\ IsFiniteSet(rest) /\ IsFiniteSet(S) /\ IsFiniteSet(over) /\ IsFiniteSet(U \ S)
      /\ rest \cap C = {} /\ over \subseteq U \ S /\ (U \ S) \ over = rest
      /\ (U \ S) \cup C = rest \cup C
  BY FS_Subset
<1>7. /\ \A k \in rest : W[k] = V[k] /\ V[k] \in Nat
      /\ \A k \in over : V[k] \in Nat
      /\ \A k \in S : V[k] \in Nat
      /\ \A k \in U \ S : V[k] \in Nat
  OBVIOUS
<1>8. SumFunctionOnSet(V, U) = SumFunctionOnSet(V, U \ S) + SumFunctionOnSet(V, S)
  BY SumSplit
<1>9. IsFiniteSet(C)
  <2>1. h \in Surjection(I, C)
    BY DEF Surjection, Created
  <2> QED BY <2>1, FS_Surjection
<1> HIDE DEF I, C, h, e, rest, over
<1>10. SumFunctionOnSet(V, U \ S) = SumFunctionOnSet(V, rest) + SumFunctionOnSet(V, over)
  <2>1. SumFunctionOnSet(V, U \ S)
           = SumFunctionOnSet(V, (U \ S) \ over) + SumFunctionOnSet(V, over)
    BY <1>6, <1>7, SumSplit
  <2> QED BY <1>6, <2>1
<1>11. SumFunctionOnSet(e, I) = SumFunctionOnSet(W, {h[i] : i \in I})
  BY <1>2, <1>3, SumImage DEF I
<1>12. SumFunctionOnSet(W, rest) = SumFunctionOnSet(V, rest)
  BY <1>6, <1>7, SumAgree
<1>13. SumFunctionOnSet(W, rest \cup C) = SumFunctionOnSet(W, rest) + SumFunctionOnSet(W, C)
  BY <1>5, <1>6, <1>7, <1>9, SumUnion
<1>14. /\ SumFunctionOnSet(V, rest) \in Nat /\ SumFunctionOnSet(V, over) \in Nat
       /\ SumFunctionOnSet(V, S) \in Nat /\ SumFunctionOnSet(e, I) \in Nat
  <2>1. IsFiniteSet(I)
    BY DEF I
  <2> QED BY <1>2, <1>6, <1>7, <2>1, SumNat
<1>15. SumFunctionOnSet(W, C) = TotalOutput(tx)
  BY <1>1, <1>4, <1>11
<1>16. SumFunctionOnSet(W, (U \ S) \cup C) = SumFunctionOnSet(V, rest) + TotalOutput(tx)
  BY <1>6, <1>12, <1>13, <1>15
<1>17. SumFunctionOnSet(W, (U \ S) \cup C) + SumFunctionOnSet(V, S)
          <= SumFunctionOnSet(V, U) + TotalOutput(tx)
  BY <1>4, <1>8, <1>10, <1>14, <1>16
<1> QED BY <1>4, <1>9, <1>14, <1>17 DEF Moves, C

\* The UTXO set after apply_transaction: what it is worth
LEMMA ApplyWorth ==
    ASSUME Countable, NEW tx, IsFiniteSet(DOMAIN tx.outputs),
           \A i \in DOMAIN tx.outputs : tx.outputs[i].value \in Nat,
           SpentBy(tx) \subseteq Unspent, KeepsOutputs,
           ApplyAll(tx), Unspent' = (Unspent \ SpentBy(tx)) \cup Created(tx)
    PROVE  /\ Countable'
           /\ Worth(Unspent)' + Worth(SpentBy(tx)) <= Worth(Unspent) + TotalOutput(tx)
           /\ TotalOutput(tx) \in Nat
<1>1. utxos' = WithOutputs(tx, SpentUtxos(tx))
  BY DEF ApplyAll
<1>2. /\ DOMAIN utxos' = DOMAIN utxos \cup Created(tx)
      /\ \A k \in DOMAIN utxos : utxos'[k].output = utxos[k].output
  BY <1>1 DEF WithOutputs, SpentUtxos, KeepsOutputs
<1>3. ASSUME NEW i \in DOMAIN tx.outputs
      PROVE  <<tx.hash, i>> \in Created(tx) /\ utxos'[<<tx.hash, i>>].output = tx.outputs[i]
  <2>1. <<tx.hash, i>> \in Created(tx)
    BY DEF Created
  <2> QED BY <1>1, <2>1 DEF WithOutputs
<1> DEFINE V == Worths
           W == [k \in DOMAIN utxos' |-> utxos'[k].output.value]
<1>4. \A k \in (Unspent \ SpentBy(tx)) \ Created(tx) : W[k] = V[k]
  BY <1>2 DEF Unspent, Worths
<1>5. \A i \in DOMAIN tx.outputs : /\ tx.outputs[i].value \in Nat
                                     /\ W[<<tx.hash, i>>] = tx.outputs[i].value
  BY <1>2, <1>3
<1>6. \A k \in Unspent : V[k] \in Nat
  BY DEF Unspent, Worths, Countable
<1>7. IsFiniteSet(Unspent)
  BY FS_Subset DEF Unspent, Countable
<1>8. Worths' = W
  BY DEF Worths
<1> HIDE DEF V, W
<1>9. Moves(Unspent, SpentBy(tx), V, W, tx)
  BY <1>4, <1>5, <1>6, <1>7, Moved
<1>10. Worth(Unspent)' = SumFunctionOnSet(W, (Unspent \ SpentBy(tx)) \cup Created(tx))
  BY <1>8 DEF Worth
<1>11. Countable'
  <2>1. IsFiniteSet(DOMAIN utxos \cup Created(tx))
    BY <1>9, FS_Union DEF Countable, Moves
  <2>2. \A k \in Created(tx) : utxos'[k].output.value \in Nat
    BY <1>3 DEF Created
  <2> QED BY <1>2, <2>1, <2>2 DEF Countable
<1> QED BY <1>9, <1>10, <1>11 DEF V, Worth, Moves

\* A transaction that fails only takes outputs out.
LEMMA FailWorth ==
    ASSUME Countable, KeepsOutputs, DOMAIN utxos' = DOMAIN utxos, Unspent' \subseteq Unspent
    PROVE  /\ Countable'
           /\ Worth(Unspent)' <= Worth(Unspent)
           /\ Worth(Unspent)' \in Nat /\ Worth(Unspent) \in Nat
<1> DEFINE V == Worths
           W == [k \in DOMAIN utxos' |-> utxos'[k].output.value]
           U == Unspent
           T == Unspent'
<1>1. Countable'
  BY DEF Countable, KeepsOutputs
<1>2. IsFiniteSet(U) /\ IsFiniteSet(T) /\ IsFiniteSet(U \ T) /\ T \subseteq U
  BY FS_Subset DEF Unspent, Countable
<1>3. /\ \A k \in U : V[k] \in Nat
      /\ \A k \in T : W[k] = V[k]
  BY DEF Unspent, Worths, Countable, KeepsOutputs
<1>4. Worths' = W
  BY DEF Worths
<1>5. Worth(Unspent)' = SumFunctionOnSet(W, T) /\ Worth(Unspent) = SumFunctionOnSet(V, U)
  BY <1>4 DEF Worth
<1> HIDE DEF V, W, U, T
<1>6. /\ SumFunctionOnSet(V, U) = SumFunctionOnSet(V, U \ T) + SumFunctionOnSet(V, T)
      /\ SumFunctionOnSet(W, T) = SumFunctionOnSet(V, T)
      /\ SumFunctionOnSet(V, U \ T) \in Nat /\ SumFunctionOnSet(V, T) \in Nat
  <2>1. SumFunctionOnSet(V, U) = SumFunctionOnSet(V, U \ T) + SumFunctionOnSet(V, T)
    BY <1>2, <1>3, SumSplit
  <2>2. SumFunctionOnSet(W, T) = SumFunctionOnSet(V, T)
    BY <1>2, <1>3, SumAgree
  <2>3. SumFunctionOnSet(V, U \ T) \in Nat /\ SumFunctionOnSet(V, T) \in Nat
    BY <1>2, <1>3, SumNat
  <2> QED BY <2>1, <2>2, <2>3
<1> QED BY <1>1, <1>5, <1>6

LEMMA BlockIsNat ==
    ASSUME NEW b, b.transactions \subseteq UserTxs, IsFiniteSet(b.transactions)
    PROVE  /\ Grant(b) = COINBASE_REWARD + TotalUnbacked(b.transactions)
           /\ Grant(b) \in Nat /\ TotalUnbacked(b.transactions) \in Nat
           /\ TotalFees(b.transactions) \in Nat
<1>1. TotalUnbacked(b.transactions) \in Nat /\ TotalFees(b.transactions) \in Nat
  BY UnbackedAreNat, FeesAreSum
<1>2. Grant(b) = COINBASE_REWARD + TotalUnbacked(b.transactions)
  BY DEF Grant, TotalUnbacked
<1> QED BY <1>1, <1>2, LedgerConstantsAssumption

LEMMA BlocksAreNat ==
    ASSUME NEW S, FiniteBlocks(S)
    PROVE  TotalGrants(S) \in Nat /\ TotalUnpaid(S) \in Nat
<1> DEFINE e == [b \in S |-> Grant(b)]
           f == [b \in S |-> TotalFees(b.transactions)]
<1>1. /\ IsFiniteSet(S) /\ DOMAIN e = S /\ DOMAIN f = S
      /\ \A b \in S : e[b] \in Nat /\ f[b] \in Nat
  BY BlockIsNat DEF FiniteBlocks
<1>2. TotalGrants(S) = SumFunctionOnSet(e, S) /\ TotalUnpaid(S) = SumFunctionOnSet(f, S)
  BY <1>1 DEF TotalGrants, TotalUnpaid, SumFunction
<1> HIDE DEF e, f
<1> QED BY <1>1, <1>2, SumNat

LEMMA BlockAdded ==
    ASSUME NEW S, FiniteBlocks(S), NEW b, b \notin S,
           b.transactions \subseteq UserTxs, IsFiniteSet(b.transactions)
    PROVE  /\ FiniteBlocks(S \cup {b})
           /\ TotalGrants(S \cup {b}) = TotalGrants(S) + Grant(b)
           /\ TotalUnpaid(S \cup {b}) = TotalUnpaid(S) + TotalFees(b.transactions)
<1> DEFINE T == S \cup {b}
           e == [c \in S |-> Grant(c)]
           f == [c \in T |-> Grant(c)]
           g == [c \in S |-> TotalFees(c.transactions)]
           h == [c \in T |-> TotalFees(c.transactions)]
<1>1. IsFiniteSet(S) /\ FiniteBlocks(T)
  BY FS_AddElement DEF FiniteBlocks
<1>2. \A c \in T : Grant(c) \in Nat /\ TotalFees(c.transactions) \in Nat
  BY <1>1, BlockIsNat DEF FiniteBlocks
<1>3. /\ DOMAIN e = S /\ DOMAIN f = S \cup {b} /\ f[b] = Grant(b) /\ f[b] \in Nat
      /\ \A c \in S : e[c] \in Nat /\ f[c] = e[c]
  BY <1>2
<1>4. /\ DOMAIN g = S /\ DOMAIN h = S \cup {b} /\ h[b] = TotalFees(b.transactions) /\ h[b] \in Nat
      /\ \A c \in S : g[c] \in Nat /\ h[c] = g[c]
  BY <1>2
<1>5. TotalGrants(S) = SumFunction(e) /\ TotalGrants(T) = SumFunction(f)
  BY DEF TotalGrants
<1>6. TotalUnpaid(S) = SumFunction(g) /\ TotalUnpaid(T) = SumFunction(h)
  BY DEF TotalUnpaid
<1> HIDE DEF e, f, g, h
<1>7. SumFunction(f) = SumFunction(e) + f[b]
  BY <1>1, <1>3, SumExtend
<1>8. SumFunction(h) = SumFunction(g) + h[b]
  BY <1>1, <1>4, SumExtend
<1> QED BY <1>1, <1>3, <1>4, <1>5, <1>6, <1>7, <1>8

LEMMA FeesWithin ==
    ASSUME NEW S \in SUBSET UserTxs, IsFiniteSet(S), NEW T \in SUBSET S
    PROVE  TotalFees(T) <= TotalFees(S) /\ TotalFees(T) \in Nat /\ TotalFees(S) \in Nat
<1>1. IsFiniteSet(T) /\ IsFiniteSet(S \ T) /\ \A tx \in S : Fees[tx] \in Nat
  BY FS_Subset, FeeIsNat
<1>2. SumFunctionOnSet(Fees, S) = SumFunctionOnSet(Fees, S \ T) + SumFunctionOnSet(Fees, T)
  BY <1>1, SumSplit
<1>3. SumFunctionOnSet(Fees, S \ T) \in Nat
  BY <1>1, SumNat
<1> QED BY <1>1, <1>2, <1>3, FeesAreSum

LEMMA GenesisIsNat == ASSUME FiniteGenesis PROVE GenesisValue \in Nat
<1> DEFINE e == [k \in DOMAIN Genesis |-> Genesis[k].value]
<1>1. DOMAIN e = DOMAIN Genesis /\ \A k \in DOMAIN Genesis : e[k] \in Nat
  BY GenesisAssumption DEF TxOutputs
<1> HIDE DEF e
<1>2. SumFunctionOnSet(e, DOMAIN Genesis) \in Nat
  BY <1>1, SumNat DEF FiniteGenesis
<1> QED BY <1>1, <1>2 DEF SumFunction, GenesisValue, e

LEMMA MintedIsNat ==
    ASSUME FiniteGenesis, FiniteBlocks(finalized), failed \subseteq finalized
    PROVE  Minted \in Nat /\ FiniteBlocks(failed)
<1>1. FiniteBlocks(failed)
  BY FS_Subset DEF FiniteBlocks
<1> QED BY <1>1, BlocksAreNat, GenesisIsNat DEF Minted

LEMMA InitSupply == ASSUME FiniteGenesis PROVE Init => SupplyInv
<1> SUFFICES ASSUME Init PROVE SupplyInv
  OBVIOUS
<1>1. /\ DOMAIN utxos = DOMAIN Genesis
      /\ \A k \in DOMAIN utxos : utxos[k].output = Genesis[k] /\ ~utxos[k].is_spent
      /\ blocks = {} /\ applying = None /\ finalized = {} /\ failed = {}
  BY DEF Init
<1>2. \A k \in DOMAIN Genesis : Genesis[k].value \in Nat
  BY GenesisAssumption DEF TxOutputs
<1>3. Countable
  BY <1>1, <1>2 DEF Countable, FiniteGenesis
<1>4. Unspent = DOMAIN Genesis
  BY <1>1 DEF Unspent
<1>5. [k \in Unspent |-> utxos[k].output.value] = [k \in DOMAIN Genesis |-> Genesis[k].value]
  BY <1>1, <1>4
<1>6. Worth(Unspent) = GenesisValue
  BY <1>3, <1>5, UnspentWorth DEF GenesisValue
<1>7. FiniteBlocks({})
  BY FS_EmptySet DEF FiniteBlocks
<1>8. TotalGrants({}) \in Nat /\ TotalUnpaid({}) \in Nat
  BY <1>7, BlocksAreNat
<1>9. Worth(Unspent) <= Minted
  BY <1>1, <1>6, <1>8, GenesisIsNat DEF Minted
<1> QED BY <1>1, <1>3, <1>7, <1>9 DEF SupplyInv

\* Steps that leave the UTXO set and the finalized blocks alone
LEMMA SupplyFrame ==
    ASSUME UNCHANGED <<utxos, finalized>>
    PROVE  /\ Countable' = Countable /\ Worth(Unspent)' = Worth(Unspent)
           /\ \A b : PaidFor(b)' = PaidFor(b)
           /\ \A tx : Covered(tx)' = Covered(tx)
<1>1. \A tx : Covered(tx)' = Covered(tx)
  BY DEF Covered, ConservesValue, TotalInput, TotalOutput, InputKeys
<1>2. \A S : TotalFees(S)' = TotalFees(S)
  BY DEF TotalFees
<1>3. Worth(Unspent)' = Worth(Unspent) /\ Countable' = Countable
  BY DEF Worth, Worths, Unspent, Countable
<1>4. \A b : PaidFor(b)' = PaidFor(b)
  BY <1>1, <1>2 DEF PaidFor
<1> QED BY <1>1, <1>3, <1>4

LEMMA SupplyStutters ==
    ASSUME SupplyInv, UNCHANGED <<utxos, finalized, failed, applying>>,
           \A b \in blocks' : PaidFor(b)
    PROVE  SupplyInv'
<1>1. Minted' = Minted
  BY DEF Minted, TotalGrants, TotalUnpaid
<1>2. Worth(Unspent)' = Worth(Unspent) /\ Countable'
  BY SupplyFrame DEF SupplyInv
<1>3. ASSUME applying' # None PROVE ApplyingInv'
  <2>1. ApplyingInv
    BY <1>3 DEF SupplyInv
  <2>2. /\ TotalFees(applying.todo)' = TotalFees(applying.todo)
        /\ TotalUnbacked(applying.todo)' = TotalUnbacked(applying.todo)
    BY DEF TotalFees, TotalUnbacked, Unbacked, TotalOutput
  <2>3. \A tx \in applying'.todo : Covered(tx)'
    BY <2>1, SupplyFrame DEF ApplyingInv
  <2> QED BY <1>1, <1>2, <2>1, <2>2, <2>3 DEF ApplyingInv
<1>4. \A b \in blocks' : PaidFor(b)'
  BY SupplyFrame
<1> QED BY <1>1, <1>2, <1>3, <1>4 DEF SupplyInv, FiniteBlocks

LEMMA SupplyProduce ==
    ASSUME SizeInv, SupplyInv, ProduceBlock
    PROVE  SupplyInv'
<1>1. PICK S \in SUBSET mempool :
         LET valid == {tx \in S : ValidTransaction(tx)}
         IN  blocks' = (IF Pipelined THEN blocks ELSE {}) \cup
                     {[number |-> built + 1, epoch |-> epoch,
                       coinbase |-> Coinbase(built + 1, TotalFees(Included(valid))),
                       transactions |-> Included(valid)]}
  BY DEF ProduceBlock
<1> DEFINE txs == Included({tx \in S : ValidTransaction(tx)})
<1>2. \A b \in blocks' :
         \/ b \in blocks
         \/ /\ b.epoch = epoch /\ b.transactions = txs
            /\ b.coinbase.outputs[1].value = COINBASE_REWARD + TotalFees(txs)
  BY <1>1 DEF Coinbase
<1>3. txs \subseteq mempool /\ \A tx \in txs : ValidTransaction(tx)
  BY DEF Included
<1> HIDE DEF txs
<1>4. /\ UNCHANGED <<utxos, finalized, failed, applying>>
      /\ \A b \in finalized : b.epoch # epoch
  BY DEF ProduceBlock, stateVars
<1>5. IsFiniteSet(txs) /\ txs \subseteq UserTxs
  BY <1>3, FS_Subset DEF SizeInv
<1>6. \A tx \in txs : Covered(tx)
  BY <1>3, <1>5, ValidCovered
<1>7. \A b \in blocks' : PaidFor(b)
  BY <1>2, <1>4, <1>5, <1>6 DEF PaidFor, SupplyInv
<1> QED BY <1>4, <1>7, SupplyStutters

LEMMA SupplyApplyBlock ==
    ASSUME FiniteGenesis, IInv, TypeInv, SupplyInv, NEW b \in blocks, ApplyBlock(b)
    PROVE  SupplyInv'
<1> DEFINE cb == b.coinbase
<1>1. /\ ApplyAll(cb) /\ applying = None
      /\ blocks' = {x \in blocks : x.epoch # b.epoch}
      /\ applying' = [block |-> b, todo |-> b.transactions]
      /\ finalized' = finalized \cup {b} /\ UNCHANGED failed
  BY DEF ApplyBlock
<1>2. BlockShape(b) /\ b \in Blocks
  BY DEF IInv, Shape, TypeInv
<1>3. /\ PaidFor(b) /\ Countable /\ FiniteBlocks(finalized) /\ failed \subseteq finalized
      /\ Worth(Unspent) <= Minted /\ b \notin finalized
  BY <1>1 DEF SupplyInv, PaidFor
<1>4. /\ b.transactions \subseteq UserTxs /\ IsFiniteSet(b.transactions)
  BY <1>2, <1>3 DEF BlockShape, PaidFor
<1>5. /\ Grant(b) = COINBASE_REWARD + TotalUnbacked(b.transactions)
      /\ TotalUnbacked(b.transactions) \in Nat /\ TotalFees(b.transactions) \in Nat
  BY <1>4, BlockIsNat
<1>6. /\ DOMAIN cb.outputs = {1} /\ cb.outputs[1].value \in Nat
      /\ cb.outputs[1].value = COINBASE_REWARD + TotalFees(b.transactions)
      /\ cb.inputs = <<>>
  BY <1>2, <1>3, <1>5, LedgerConstantsAssumption DEF BlockShape, PaidFor
<1>7. SpentBy(cb) = {}
  BY <1>6 DEF SpentBy
<1>8. KeepsOutputs /\ Unspent' = (Unspent \ SpentBy(cb)) \cup Created(cb)
  BY <1>7, ApplyBlockStep DEF Keeps
<1> HIDE DEF cb
<1>9. IsFiniteSet(DOMAIN cb.outputs) /\ \A i \in DOMAIN cb.outputs : cb.outputs[i].value \in Nat
  BY <1>6, FS_Singleton, Zenon
<1>10. /\ Countable'
       /\ Worth(Unspent)' + Worth(SpentBy(cb)) <= Worth(Unspent) + TotalOutput(cb)
  BY <1>1, <1>3, <1>7, <1>8, <1>9, ApplyWorth
<1>11. TotalOutput(cb) = COINBASE_REWARD + TotalFees(b.transactions)
  <2> DEFINE e == [i \in DOMAIN cb.outputs |-> cb.outputs[i].value]
  <2>1. TotalOutput(cb) = SumFunctionOnSet(e, {1})
    BY <1>6 DEF TotalOutput, SumFunction
  <2>2. \A i \in {1} : e[i] \in Nat
    BY <1>6
  <2>3. e[1] = COINBASE_REWARD + TotalFees(b.transactions)
    BY <1>6
  <2> HIDE DEF e
  <2>4. SumFunctionOnSet(e, {1}) = e[1] + SumFunctionOnSet(e, {1} \ {1})
    BY <2>2, FS_Singleton, SumRemove
  <2>5. SumFunctionOnSet(e, {1} \ {1}) = 0
    <3>1. {1} \ {1} = {}
      OBVIOUS
    <3> QED BY <3>1, SumEmpty
  <2>6. e[1] \in Nat
    BY <2>2
  <2> QED BY <2>1, <2>3, <2>4, <2>5, <2>6
<1>12. FiniteBlocks(finalized') /\ Minted' = Minted + Grant(b)
  <2>1. /\ FiniteBlocks(finalized \cup {b})
        /\ TotalGrants(finalized \cup {b}) = TotalGrants(finalized) + Grant(b)
    BY <1>3, <1>4, BlockAdded
  <2>2. /\ TotalGrants(finalized)' = TotalGrants(finalized \cup {b})
        /\ TotalUnpaid(failed)' = TotalUnpaid(failed)
    BY <1>1 DEF TotalGrants, TotalUnpaid
  <2>3. /\ TotalGrants(finalized) \in Nat /\ TotalUnpaid(failed) \in Nat
        /\ Grant(b) \in Nat /\ GenesisValue \in Nat
    BY <1>3, <1>4, BlocksAreNat, BlockIsNat, GenesisIsNat, MintedIsNat
  <2>4. Minted' = GenesisValue + TotalGrants(finalized)' + TotalUnpaid(failed)'
    BY DEF Minted, GenesisValue
  <2>5. Minted' = Minted + Grant(b)
    BY <2>1, <2>2, <2>3, <2>4 DEF Minted
  <2> QED BY <1>1, <2>1, <2>5
<1>13. Worth(SpentBy(cb)) = 0 /\ Worth(Unspent) \in Nat /\ Minted \in Nat
  BY <1>3, <1>7, SumEmpty, WorthIsNat, MintedIsNat DEF Worth, Unspent
<1>14. Worth(Unspent)' \in Nat
  BY <1>10, UnspentIsNatNext
<1>15. Worth(Unspent)' + TotalUnbacked(b.transactions) <= Minted' + TotalFees(b.transactions)
  BY <1>3, <1>5, <1>10, <1>11, <1>12, <1>13, <1>14, LedgerConstantsAssumption
<1>16. ASSUME NEW tx \in UserTxs, Covered(tx) PROVE Covered(tx)'
  BY <1>8, <1>16, CoveredKept
<1>17. /\ applying' # None /\ applying'.todo = b.transactions /\ applying'.block = b
  <2>1. applying'.todo = b.transactions /\ applying'.block = b
    BY <1>1
  <2>2. applying' \in Applying
    BY <1>1, <1>2, <1>4 DEF Applying
  <2> QED BY <2>1, <2>2, LedgerConstantsAssumption
<1>18. /\ TotalFees(applying.todo)' = TotalFees(b.transactions)
       /\ TotalUnbacked(applying.todo)' = TotalUnbacked(b.transactions)
  BY <1>17 DEF TotalFees, TotalUnbacked, Unbacked, TotalOutput
<1>19. ApplyingInv'
  BY <1>1, <1>3, <1>4, <1>15, <1>16, <1>17, <1>18 DEF ApplyingInv, PaidFor
<1>20. ASSUME NEW x \in blocks' PROVE PaidFor(x)'
  <2>1. PaidFor(x) /\ x.transactions \subseteq UserTxs /\ x.epoch # b.epoch
    BY <1>1, <1>20 DEF SupplyInv, IInv, Shape, BlockShape
  <2>2. \A tx \in x.transactions : Covered(tx)'
    BY <1>16, <2>1 DEF PaidFor
  <2>3. TotalFees(x.transactions)' = TotalFees(x.transactions)
    BY DEF TotalFees
  <2> QED BY <1>1, <2>1, <2>2, <2>3 DEF PaidFor
<1> QED BY <1>1, <1>3, <1>10, <1>12, <1>17, <1>19, <1>20 DEF SupplyInv, FiniteBlocks

LEMMA SupplyApplyNext ==
    ASSUME FiniteGenesis, IInv, TypeInv, SupplyInv, NEW tx \in UserTxs, ApplyNext(tx)
    PROVE  SupplyInv'
<1>1. /\ ApplyAll(tx) /\ Applies(tx) /\ applying # None /\ tx \in applying.todo
      /\ applying' = [block |-> applying.block, todo |-> applying.todo \ {tx}]
      /\ UNCHANGED <<blocks, finalized, failed>>
  BY DEF ApplyNext, IsNext
<1> DEFINE todo == applying.todo
<1>2. Countable /\ FiniteBlocks(finalized) /\ failed \subseteq finalized /\ ApplyingInv
  BY <1>1 DEF SupplyInv
<1>3. /\ applying.block \in finalized \ failed
      /\ todo \subseteq applying.block.transactions
      /\ \A x \in todo : Covered(x)
      /\ Worth(Unspent) + TotalUnbacked(todo) <= Minted + TotalFees(todo)
  BY <1>2 DEF ApplyingInv
<1>4. todo \subseteq UserTxs /\ IsFiniteSet(todo)
  BY <1>2, <1>3, FS_Subset DEF FiniteBlocks
<1>5. /\ applying' # None /\ applying'.todo = todo \ {tx} /\ applying'.block = applying.block
  <2>1. applying' \in Applying
    BY <1>1 DEF TypeInv, Applying
  <2> QED BY <1>1, <2>1, LedgerConstantsAssumption
<1>6. tx \in todo
  BY <1>1
<1> HIDE DEF todo
<1>7. /\ TotalFees(todo) = tx.fee + TotalFees(todo \ {tx})
      /\ tx.fee \in Nat /\ TotalFees(todo \ {tx}) \in Nat
  BY <1>4, <1>6, FeesWithout
<1>8. /\ TotalUnbacked(todo) = Unbacked(tx) + TotalUnbacked(todo \ {tx})
      /\ TotalUnbacked(todo \ {tx}) \in Nat /\ Unbacked(tx) \in Nat
  BY <1>4, <1>6, UnbackedWithout
<1>9. /\ SpentBy(tx) = InputKeys(tx)
      /\ InputKeys(tx) \subseteq Unspent /\ SpentBy(tx) \subseteq Unspent
      /\ Unspent \subseteq DOMAIN utxos
  BY <1>1, AppliesSpendsAll DEF Unspent
<1>10. KeepsOutputs /\ Unspent' = (Unspent \ SpentBy(tx)) \cup Created(tx)
  BY <1>9, ApplyNextStep DEF Keeps
<1>11. /\ Countable'
       /\ Worth(Unspent)' + Worth(SpentBy(tx)) <= Worth(Unspent) + TotalOutput(tx)
       /\ TotalOutput(tx) \in Nat
  BY <1>1, <1>2, <1>9, <1>10, OutputsAreNat, ApplyWorth
<1>12. Minted' = Minted /\ Minted \in Nat
  BY <1>1, <1>2, MintedIsNat DEF Minted, TotalGrants, TotalUnpaid
<1>13. /\ Worth(Unspent) \in Nat /\ Worth(SpentBy(tx)) \in Nat
  BY <1>2, <1>9, WorthIsNat
<1>14. Worth(Unspent)' \in Nat
  BY <1>11, UnspentIsNatNext
<1>15. Unbacked(tx) + Worth(SpentBy(tx)) >= TotalOutput(tx) + tx.fee
  <2>1. CASE tx.type \in {"COINBASE", "SLASH"}
    BY <1>7, <1>11, <1>13, <2>1 DEF Unbacked
  <2>2. CASE tx.type \notin {"COINBASE", "SLASH"}
    <3>1. ConservesValue(tx)
      BY <1>3, <1>6, <2>2 DEF Covered
    <3>2. TotalInput(tx) = Worth(SpentBy(tx))
      BY <1>1, <1>2, <1>9, InputWorth
    <3>3. Unbacked(tx) = 0
      BY <2>2 DEF Unbacked
    <3> QED BY <1>7, <1>11, <1>13, <3>1, <3>2, <3>3 DEF ConservesValue
  <2> QED BY <2>1, <2>2
<1>16. Worth(Unspent)' + TotalUnbacked(todo \ {tx}) <= Minted' + TotalFees(todo \ {tx})
  BY <1>3, <1>7, <1>8, <1>11, <1>12, <1>13, <1>14, <1>15
<1>17. ASSUME NEW x \in UserTxs, Covered(x) PROVE Covered(x)'
  BY <1>10, <1>17, CoveredKept
<1>18. /\ TotalFees(applying.todo)' = TotalFees(todo \ {tx})
       /\ TotalUnbacked(applying.todo)' = TotalUnbacked(todo \ {tx})
  BY <1>5 DEF TotalFees, TotalUnbacked, Unbacked, TotalOutput
<1>19. ApplyingInv'
  BY <1>1, <1>3, <1>4, <1>5, <1>16, <1>17, <1>18 DEF ApplyingInv
<1>20. ASSUME NEW x \in blocks' PROVE PaidFor(x)'
  <2>1. PaidFor(x) /\ x.transactions \subseteq UserTxs
    BY <1>1, <1>20 DEF SupplyInv, IInv, Shape, BlockShape
  <2>2. \A y \in x.transactions : Covered(y)'
    BY <1>17, <2>1 DEF PaidFor
  <2>3. TotalFees(x.transactions)' = TotalFees(x.transactions)
    BY DEF TotalFees
  <2> QED BY <1>1, <2>1, <2>2, <2>3 DEF PaidFor
<1> QED BY <1>1, <1>2, <1>5, <1>11, <1>19, <1>20 DEF SupplyInv, FiniteBlocks

\* The fees of a failed block are written off.
LEMMA SupplyFailed ==
    ASSUME FiniteGenesis, SupplyInv, applying # None,
           failed' = failed \cup {applying.block}, UNCHANGED finalized
    PROVE  /\ Minted' = Minted + TotalFees(applying.block.transactions)
           /\ TotalFees(applying.todo) <= TotalFees(applying.block.transactions)
           /\ TotalFees(applying.todo) \in Nat /\ TotalUnbacked(applying.todo) \in Nat
           /\ TotalFees(applying.block.transactions) \in Nat /\ Minted \in Nat
           /\ Worth(Unspent) + TotalUnbacked(applying.todo) <= Minted + TotalFees(applying.todo)
           /\ Worth(Unspent) \in Nat
<1> DEFINE b == applying.block
<1>1. /\ FiniteBlocks(finalized) /\ failed \subseteq finalized
      /\ b \in finalized /\ b \notin failed /\ applying.todo \subseteq b.transactions
      /\ Worth(Unspent) + TotalUnbacked(applying.todo) <= Minted + TotalFees(applying.todo)
  BY DEF SupplyInv, ApplyingInv
<1>2. b.transactions \subseteq UserTxs /\ IsFiniteSet(b.transactions)
  BY <1>1 DEF FiniteBlocks
<1>3. failed' = failed \cup {b}
  OBVIOUS
<1> HIDE DEF b
<1>4. FiniteBlocks(failed) /\ Minted \in Nat
  BY <1>1, MintedIsNat
<1>5. TotalUnpaid(failed \cup {b}) = TotalUnpaid(failed) + TotalFees(b.transactions)
  BY <1>1, <1>2, <1>4, BlockAdded
<1>6. /\ TotalUnpaid(failed)' = TotalUnpaid(failed \cup {b})
      /\ TotalGrants(finalized)' = TotalGrants(finalized)
  BY <1>3 DEF TotalUnpaid, TotalGrants
<1>7. /\ TotalFees(applying.todo) <= TotalFees(b.transactions)
      /\ TotalFees(applying.todo) \in Nat /\ TotalFees(b.transactions) \in Nat
  BY <1>1, <1>2, FeesWithin
<1>8. TotalUnpaid(failed) \in Nat /\ TotalGrants(finalized) \in Nat /\ GenesisValue \in Nat
  BY <1>1, <1>4, BlocksAreNat, GenesisIsNat
<1>9. Minted' = GenesisValue + TotalGrants(finalized)' + TotalUnpaid(failed)'
  BY DEF Minted, GenesisValue
<1>10. Minted' = Minted + TotalFees(b.transactions)
  BY <1>5, <1>6, <1>7, <1>8, <1>9 DEF Minted
<1>11. TotalUnbacked(applying.todo) \in Nat
  BY <1>1, <1>2, UnbackedAreNat, FS_Subset
<1>12. Worth(Unspent) \in Nat
  BY WorthIsNat DEF SupplyInv, Unspent
<1> QED BY <1>1, <1>4, <1>7, <1>10, <1>11, <1>12 DEF b

LEMMA SupplyFailBlock ==
    ASSUME FiniteGenesis, IInv, SupplyInv, NEW tx \in UserTxs, FailBlock(tx)
    PROVE  SupplyInv'
<1>1. /\ applying # None /\ applying' = None
      /\ failed' = failed \cup {applying.block}
      /\ UNCHANGED <<blocks, finalized>>
      /\ ApplyUntilFailure(tx)
  BY DEF FailBlock, IsNext
<1>2. KeepsOutputs /\ Unspent' \subseteq Unspent
  BY FailBlockStep DEF Keeps
<1>3. DOMAIN utxos' = DOMAIN utxos
  BY <1>1 DEF ApplyUntilFailure, SpentUtxos
<1>4. Countable' /\ Worth(Unspent)' <= Worth(Unspent) /\ Worth(Unspent)' \in Nat
  BY <1>2, <1>3, FailWorth DEF SupplyInv
<1>5. Worth(Unspent)' <= Minted'
  <2> DEFINE F == TotalFees(applying.block.transactions)
             f == TotalFees(applying.todo)
             u == TotalUnbacked(applying.todo)
  <2>1. /\ Minted' = Minted + F /\ f <= F /\ f \in Nat /\ u \in Nat /\ F \in Nat
        /\ Minted \in Nat /\ Worth(Unspent) + u <= Minted + f /\ Worth(Unspent) \in Nat
    BY <1>1, SupplyFailed
  <2> HIDE DEF F, f, u
  <2> QED BY <1>4, <2>1
<1>6. failed' \subseteq finalized'
  BY <1>1 DEF SupplyInv, ApplyingInv
<1>7. ASSUME NEW x \in blocks' PROVE PaidFor(x)'
  <2>1. PaidFor(x) /\ x.transactions \subseteq UserTxs
    BY <1>1, <1>7 DEF SupplyInv, IInv, Shape, BlockShape
  <2>2. \A y \in x.transactions : Covered(y)'
    BY <1>2, <2>1, CoveredKept DEF PaidFor
  <2>3. TotalFees(x.transactions)' = TotalFees(x.transactions)
    BY DEF TotalFees
  <2> QED BY <1>1, <2>1, <2>2, <2>3 DEF PaidFor
<1> QED BY <1>1, <1>4, <1>5, <1>6, <1>7 DEF SupplyInv, FiniteBlocks

LEMMA SupplyFinish ==
    ASSUME FiniteGenesis, SupplyInv, FinishBlock
    PROVE  SupplyInv'
<1>1. /\ applying # None /\ applying.todo = {} /\ applying' = None
      /\ failed' \in {failed, failed \cup {applying.block}}
      /\ UNCHANGED <<utxos, blocks, finalized>>
  BY DEF FinishBlock, stateVars
<1>2. /\ Countable' /\ Worth(Unspent)' = Worth(Unspent)
      /\ \A b \in blocks' : PaidFor(b)'
  BY <1>1, SupplyFrame DEF SupplyInv
<1>3. TotalFees({}) = 0 /\ TotalUnbacked({}) \in Nat
  BY FeesAreSum, UnbackedAreNat, SumEmpty, FS_EmptySet
<1>4. Worth(Unspent) \in Nat /\ Minted \in Nat
  BY WorthIsNat, MintedIsNat DEF SupplyInv, Unspent
<1>5. Worth(Unspent) <= Minted
  <2>1. Worth(Unspent) + TotalUnbacked({}) <= Minted + TotalFees({})
    BY <1>1 DEF SupplyInv, ApplyingInv
  <2> QED BY <1>3, <1>4, <2>1
<1>6. Worth(Unspent) <= Minted'
  <2>1. CASE failed' = failed
    <3>1. Minted' = Minted
      BY <1>1, <2>1 DEF Minted, TotalGrants, TotalUnpaid
    <3> QED BY <1>5, <3>1
  <2>2. CASE failed' = failed \cup {applying.block}
    <3> DEFINE F == TotalFees(applying.block.transactions)
    <3>1. Minted' = Minted + F /\ F \in Nat
      BY <1>1, <2>2, SupplyFailed
    <3> HIDE DEF F
    <3> QED BY <1>4, <1>5, <3>1
  <2> QED BY <1>1, <2>1, <2>2
<1>7. failed' \subseteq finalized'
  BY <1>1 DEF SupplyInv, ApplyingInv
<1> QED BY <1>1, <1>2, <1>6, <1>7 DEF SupplyInv, FiniteBlocks

LEMMA StepSupply ==
    ASSUME FiniteGenesis
    PROVE  IInv /\ SizeInv /\ TypeInv /\ SupplyInv /\ [Next]_vars => SupplyInv'
<1> SUFFICES ASSUME IInv, SizeInv, TypeInv, SupplyInv, [Next]_vars
             PROVE  SupplyInv'
  OBVIOUS
<1>1. CASE UNCHANGED <<utxos, blocks, finalized, failed, applying>>
  <2>1. \A b \in blocks' : PaidFor(b)
    BY <1>1 DEF SupplyInv
  <2> QED BY <1>1, <2>1, SupplyStutters
<1>2. CASE ProduceBlock
  BY <1>2, SupplyProduce
<1>3. ASSUME NEW b \in blocks, ApplyBlock(b) PROVE SupplyInv'
  BY <1>3, SupplyApplyBlock
<1>4. ASSUME NEW tx \in UserTxs, ApplyNext(tx) PROVE SupplyInv'
  BY <1>4, SupplyApplyNext
<1>5. ASSUME NEW tx \in UserTxs, FailBlock(tx) PROVE SupplyInv'
  BY <1>5, SupplyFailBlock
<1>6. CASE FinishBlock
  BY <1>6, SupplyFinish
<1> QED
  BY <1>1, <1>2, <1>3, <1>4, <1>5, <1>6
  DEF Next, AdvanceEpoch, BroadcastTransaction, vars, stateVars, blockVars

\* Between blocks the UTXO set is worth at most the genesis outputs, one reward
\* per finalized block, what the blocks' client coinbases and slashes create, for
\* which _validate_coinbase and _validate_slash compare no inputs, and the fees
\* of blocks that failed: create_coinbase takes only the fees that the block's
\* transactions pay (_validate_transfer).  Blocks may overlap and transactions
\* may name outputs twice.
THEOREM SupplyIsBounded ==
    ASSUME FiniteGenesis
    PROVE  Spec => []SupplyBounded
<1>1. SupplyInv => SupplyBounded
  BY UnspentWorth
  DEF SupplyInv, SupplyBounded, Minted, GenesisValue, TotalGrants, TotalUnpaid
<1>2. Init => SupplyInv
  BY InitSupply
<1>3. IInv /\ SizeInv /\ TypeInv /\ SupplyInv /\ [Next]_vars => SupplyInv'
  BY StepSupply
<1> QED
  BY <1>1, <1>2, <1>3, InvariantHolds, SizeHolds, TypesHold, PTL DEF Spec
==============================================================================
