---------------------------- MODULE WalletProofs ----------------------------
(***************************************************************************)
(* Proofs about Wallet for any outputs, amounts, batch sizes and bounds:   *)
(* one-time keys sign once, the wallet knows the root the chain holds and  *)
(* follows the chain in what it owns, and a transaction on its way stays   *)
(* valid until it expires or the root changes.                             *)
(*                                                                         *)
(* The last two rest on TrackInv: transactions are numbered and spend      *)
(* disjoint inputs but for outputs the wallet was told of again, and       *)
(* wherever the wallet and the chain both know an output they agree on it  *)
(* up to the spending by pending transactions.  What a transaction is worth is a sum over its *)
(* inputs and outputs (SumProofs).                                         *)
(***************************************************************************)
EXTENDS Wallet, SumProofs, FiniteSetTheorems, TLAPS

-----------------------------------------------------------------------------
\* One-time keys

Used(k) ==
    \/ k.kind = "tree" /\ k.batch < batch
    \/ k.kind = "tree" /\ k.batch = batch /\ k.index < key_index
    \/ /\ k.kind = "tree" /\ k.batch = batch
       /\ k.index >= USABLE_KEYS /\ k.index < USABLE_KEYS + rotation_index
    \/ k.kind = "legacy" /\ k.index < legacy_index
    \/ k.kind = "registration"

\* The counters are ahead of every key that has signed.
KeyInv ==
    /\ batch \in Nat /\ next_batch \in {None, batch + 1}
    /\ key_index \in 0 .. USABLE_KEYS
    /\ rotation_index \in Nat /\ legacy_index \in Nat
    /\ signed \subseteq Keys \X Nat
    /\ \A s \in signed : Used(s[1])
    /\ KeysSignOnce
    /\ made \in Nat

LEMMA FreshKeys ==
    ASSUME KeyInv, NEW keys \in SUBSET Keys, Sign(keys),
           \A s \in signed : s[1].kind # "registration" => s[1] \notin keys
    PROVE  /\ KeysSignOnce'
           /\ signed' \subseteq Keys \X Nat
           /\ \A s \in signed' : s \in signed \/ s[1] \in keys
<1>1. signed' = signed \cup (keys \X {made + 1})
  BY DEF Sign
<1>2. made + 1 \in Nat
  BY DEF KeyInv
<1>3. \A s \in signed' : s \in signed \/ (s[1] \in keys /\ s = <<s[1], made + 1>>)
  BY <1>1
<1>4. KeysSignOnce'
  <2> SUFFICES ASSUME NEW s \in signed', NEW t \in signed', s[1] = t[1],
                      s[1].kind # "registration"
               PROVE  s = t
    BY DEF KeysSignOnce
  <2>1. CASE s \in signed /\ t \in signed
    BY <2>1 DEF KeyInv, KeysSignOnce
  <2>2. CASE s \in signed /\ t \notin signed
    BY <2>2, <1>3
  <2>3. CASE s \notin signed /\ t \in signed
    BY <2>3, <1>3
  <2>4. CASE s \notin signed /\ t \notin signed
    BY <2>4, <1>3
  <2> QED BY <2>1, <2>2, <2>3, <2>4
<1>5. signed' \subseteq Keys \X Nat
  BY <1>1, <1>2 DEF KeyInv
<1> QED BY <1>3, <1>4, <1>5

LEMMA SignInputsKeepsKeys ==
    ASSUME KeyInv, NEW n \in Nat, SignInputs(n), made' = made + 1,
           UNCHANGED <<batch, next_batch, rotation_index>>
    PROVE  KeyInv'
<1> USE WalletAssumption DEF KeyInv
<1>1. CASE is_registered
  <2> DEFINE keys == {Key("tree", i) : i \in {j \in key_index .. key_index + n - 1 : j < USABLE_KEYS}}
  <2>1. Sign(keys) /\ key_index' \in 0 .. USABLE_KEYS /\ UNCHANGED legacy_index
    BY <1>1 DEF SignInputs, TemporalSign
  <2>2. \A k \in keys : /\ k.kind = "tree" /\ k.batch = batch /\ k.index \in Nat
                        /\ k.index >= key_index /\ k.index < USABLE_KEYS /\ k.index < key_index'
                        /\ k \in Keys
    BY <1>1 DEF SignInputs, TemporalSign, Key, Keys
  <2>3. \A s \in signed : s[1] \notin keys
    BY <2>2 DEF Used, Keys
  <2>4. /\ KeysSignOnce' /\ signed' \subseteq Keys \X Nat
        /\ \A s \in signed' : s \in signed \/ s[1] \in keys
    <3> HIDE DEF keys
    <3> QED BY <2>1, <2>2, <2>3, FreshKeys
  <2>5. key_index' >= key_index
    BY <1>1 DEF SignInputs, TemporalSign
  <2>6. \A s \in signed' : Used(s[1])'
    BY <2>1, <2>2, <2>4, <2>5 DEF Used, Keys
  <2> QED BY <2>1, <2>4, <2>6
<1>2. CASE ~is_registered
  <2> DEFINE keys == {Key("legacy", i) : i \in legacy_index .. legacy_index + n - 1}
  <2>1. Sign(keys) /\ legacy_index' = legacy_index + n /\ UNCHANGED key_index
    BY <1>2 DEF SignInputs, LegacySign
  <2>2. \A k \in keys : /\ k.kind = "legacy" /\ k.index \in Nat /\ k.index >= legacy_index
                        /\ k.index < legacy_index + n /\ k \in Keys
    BY DEF Key, Keys
  <2>3. \A s \in signed : s[1] \notin keys
    BY <2>2 DEF Used, Keys
  <2>4. /\ KeysSignOnce' /\ signed' \subseteq Keys \X Nat
        /\ \A s \in signed' : s \in signed \/ s[1] \in keys
    <3> HIDE DEF keys
    <3> QED BY <2>1, <2>2, <2>3, FreshKeys
  <2>6. \A s \in signed' : Used(s[1])'
    BY <2>1, <2>2, <2>4 DEF Used, Keys
  <2> QED BY <2>1, <2>4, <2>6
<1> QED BY <1>1, <1>2

-----------------------------------------------------------------------------
\* A wallet knows finitely many outputs, so it signs finitely many inputs

FiniteInv ==
    /\ IsFiniteSet(DOMAIN utxos)
    /\ \A tx \in pending_txs : DOMAIN tx.outputs \subseteq {1, 2}

\* Transactions have one output, or two with the change.
LEMMA ShortOutputs ==
    ASSUME NEW o, NEW v
    PROVE  /\ DOMAIN << o >> \subseteq {1, 2}
           /\ DOMAIN (<< o >> \o Change(v)) \subseteq {1, 2}
<1>1. DOMAIN << o >> = {1}
  OBVIOUS
<1>2. CASE Change(v) = << >>
  <2>1. << o >> \o << >> = << o >>
    OBVIOUS
  <2> QED BY <1>1, <1>2, <2>1
<1>3. CASE Change(v) = << Output(v, 0, TRUE) >>
  <2> DEFINE c == Output(v, 0, TRUE)
  <2> HIDE DEF c
  <2>1. << o >> \in Seq({o, c}) /\ << c >> \in Seq({o, c})
    OBVIOUS
  <2>2. Len(<< o >> \o << c >>) = 2 /\ (<< o >> \o << c >>) \in Seq({o, c})
    BY <2>1
  <2>3. DOMAIN (<< o >> \o << c >>) = 1 .. 2
    BY <2>2
  <2> QED BY <1>1, <1>3, <2>3 DEF c
<1> QED BY <1>2, <1>3 DEF Change

\* Submitting a transaction adds no output to the wallet.
LEMMA SubmitKeepsFinite ==
    ASSUME FiniteInv, NEW tx, DOMAIN tx.outputs \subseteq {1, 2}, Submit(tx) \/ Unused
    PROVE  FiniteInv'
<1>1. DOMAIN utxos' = DOMAIN utxos
  BY DEF Submit, Unused, Spent
<1>2. \A t \in pending_txs' : t \in pending_txs \/ t = tx
  BY DEF Submit, Unused
<1> QED BY <1>1, <1>2 DEF FiniteInv

LEMMA MakeKeepsFinite ==
    ASSUME FiniteInv, NEW type, NEW inputs, NEW outputs, NEW fee, NEW payload,
           DOMAIN outputs \subseteq {1, 2}, Make(type, inputs, outputs, fee, payload)
    PROVE  FiniteInv'
<1> DEFINE tx == Built(type, inputs, outputs, fee, IF is_registered THEN batch ELSE None, None,
                       payload)
<1>1. tx.outputs = outputs
  BY DEF Built
<1>2. Submit(tx) \/ Unused
  BY DEF Make
<1> HIDE DEF tx
<1> QED BY <1>1, <1>2, SubmitKeepsFinite

LEMMA FiniteStep == ASSUME FiniteInv, [Next]_vars PROVE FiniteInv'
<1>1. ASSUME NEW amount, NEW mine, NEW fee, NEW S, CreateTransfer(amount, mine, fee, S)
      PROVE  FiniteInv'
  BY <1>1, MakeKeepsFinite, ShortOutputs DEF CreateTransfer
<1>2. ASSUME NEW amount, NEW S, CreateStake(amount, S) PROVE FiniteInv'
  BY <1>2, MakeKeepsFinite, ShortOutputs DEF CreateStake
<1>3. ASSUME CreateUnstake PROVE FiniteInv'
  BY <1>3, MakeKeepsFinite, ShortOutputs DEF CreateUnstake
<1>4. ASSUME NEW payload, NEW fee, NEW S, CreateDataTx(payload, fee, S) PROVE FiniteInv'
  BY <1>4, MakeKeepsFinite, ShortOutputs DEF CreateDataTx
<1>5a. ASSUME NEW type, NEW k, NEW c, NEW fee, NEW root, NEW data, NEW payload,
              Submit(Built(type, {k}, << Output(0, 0, TRUE) >> \o Change(c),
                           fee, root, data, payload))
       PROVE  FiniteInv'
  <2> DEFINE tx == Built(type, {k}, << Output(0, 0, TRUE) >> \o Change(c), fee, root, data, payload)
  <2>1. DOMAIN tx.outputs \subseteq {1, 2}
    BY ShortOutputs DEF Built
  <2>2. Submit(tx)
    BY <1>5a
  <2> HIDE DEF tx
  <2> QED BY <2>1, <2>2, SubmitKeepsFinite
<1>5. ASSUME NEW fee, NEW S, CreateRegistrationTx(fee, S) PROVE FiniteInv'
  <2>1. CASE Unused
    BY <2>1 DEF Unused, FiniteInv
  <2> QED BY <1>5, <1>5a, <2>1 DEF CreateRegistrationTx
<1>6. ASSUME NEW fee, CreateRotationTx(fee) PROVE FiniteInv'
  <2>1. CASE Unused
    BY <2>1 DEF Unused, FiniteInv
  <2> QED BY <1>5a, <1>6, <2>1 DEF CreateRotationTx
<1>7. ASSUME NEW k, AddUtxo(k) PROVE FiniteInv'
  <2>1. DOMAIN utxos' = DOMAIN utxos \cup {k} /\ pending_txs' = pending_txs
    BY <1>7 DEF AddUtxo
  <2> QED BY <2>1, FS_AddElement DEF FiniteInv
<1>8. ASSUME NEW tx \in pending_txs, ConfirmTransaction(tx) PROVE FiniteInv'
  <2>1. /\ DOMAIN utxos' = DOMAIN utxos \cup OwnOutputs(tx)
        /\ pending_txs' \subseteq pending_txs
    BY <1>8 DEF ConfirmTransaction, Received
  <2>2. OwnOutputs(tx) \subseteq ({<<tx.hash, 1>>} \cup {<<tx.hash, 2>>})
    BY DEF OwnOutputs, FiniteInv
  <2>3. IsFiniteSet({<<tx.hash, 1>>} \cup {<<tx.hash, 2>>})
    BY FS_Singleton, FS_Union, Zenon
  <2>4. IsFiniteSet(OwnOutputs(tx))
    BY <2>2, <2>3, FS_Subset
  <2>5. IsFiniteSet(DOMAIN utxos \cup OwnOutputs(tx))
    BY <2>4, FS_Union DEF FiniteInv
  <2> QED BY <2>1, <2>5 DEF FiniteInv
<1>9. CASE UNCHANGED <<utxos, pending_txs>>
  BY <1>9 DEF FiniteInv
<1>10. ASSUME NEW txs, ApplyBlock(txs) PROVE FiniteInv'
  BY <1>9, <1>10 DEF ApplyBlock, walletVars
<1>11. ASSUME NEW tx, Lose(tx) PROVE FiniteInv'
  BY <1>9, <1>11 DEF Lose, walletVars
<1>12. CASE AdvanceEpoch \/ MarkRegistered \/ ConfirmRotation \/ SyncEpoch \/ UNCHANGED vars
  BY <1>9, <1>12 DEF AdvanceEpoch, MarkRegistered, ConfirmRotation, SyncEpoch, vars, walletVars
<1> QED BY <1>1, <1>2, <1>3, <1>4, <1>5, <1>6, <1>7, <1>8, <1>10, <1>11, <1>12 DEF Next

-----------------------------------------------------------------------------
\* Every step keeps the counters ahead of the keys

LEMMA MakeKeepsKeys ==
    ASSUME KeyInv, NEW type, NEW inputs, NEW outputs, NEW fee, NEW payload, IsFiniteSet(inputs),
           Make(type, inputs, outputs, fee, payload)
    PROVE  KeyInv'
<1>1. Cardinality(inputs) \in Nat
  BY FS_CardinalityType
<1>2. /\ SignInputs(Cardinality(inputs)) /\ made' = made + 1
      /\ UNCHANGED <<batch, next_batch, rotation_index>>
  BY DEF Make, MayBuild
<1> QED BY <1>1, <1>2, SignInputsKeepsKeys

LEMMA SpendableFinite ==
    ASSUME FiniteInv, NEW S \in SUBSET SpendableUtxos PROVE IsFiniteSet(S)
<1>1. S \in SUBSET DOMAIN utxos
  BY DEF SpendableUtxos
<1> QED BY <1>1, FS_Subset DEF FiniteInv

LEMMA RegistrationKeepsKeys ==
    ASSUME KeyInv, NEW fee, NEW S, CreateRegistrationTx(fee, S)
    PROVE  KeyInv'
<1> DEFINE keys == {[kind |-> "registration", batch |-> 0, index |-> 0]}
<1>1. /\ Sign(keys) /\ made' = made + 1 /\ UNCHANGED keyVars
  BY DEF CreateRegistrationTx, MayBuild
<1>2. keys \in SUBSET Keys /\ \A k \in keys : k.kind = "registration"
  BY DEF Keys
<1>3. \A s \in signed : s[1].kind # "registration" => s[1] \notin keys
  BY <1>2
<1> HIDE DEF keys
<1>4. /\ KeysSignOnce' /\ signed' \subseteq Keys \X Nat
      /\ \A s \in signed' : s \in signed \/ s[1] \in keys
  BY <1>1, <1>2, <1>3, FreshKeys
<1>5. \A s \in signed' : Used(s[1])'
  BY <1>1, <1>2, <1>4 DEF Used, KeyInv, keyVars
<1> QED BY <1>1, <1>4, <1>5 DEF KeyInv, keyVars

\* A rotation key lies past the usable keys, and each is used in turn.
LEMMA RotationKeepsKeys ==
    ASSUME KeyInv, NEW fee, CreateRotationTx(fee)
    PROVE  KeyInv'
<1> USE WalletAssumption
<1>1. next_batch' = batch + 1 /\ UNCHANGED <<batch, key_index, legacy_index>>
  BY DEF CreateRotationTx, PrepareRotation
<1>2. CASE UNCHANGED <<rotation_index, made, signed>>
  BY <1>1, <1>2 DEF KeyInv, Used, KeysSignOnce
<1>3. CASE SignRotation /\ made' = made + 1
  <2> DEFINE keys == {Key("tree", USABLE_KEYS + rotation_index)}
  <2>1. Sign(keys) /\ rotation_index' = rotation_index + 1
    BY <1>3 DEF SignRotation
  <2>2. /\ keys \in SUBSET Keys
        /\ \A k \in keys : /\ k.kind = "tree" /\ k.batch = batch
                           /\ k.index = USABLE_KEYS + rotation_index
    BY DEF Keys, Key, KeyInv
  <2> HIDE DEF keys
  <2>3. \A s \in signed : s[1] \notin keys
    BY <2>2 DEF Used, Keys, KeyInv
  <2>4. /\ KeysSignOnce' /\ signed' \subseteq Keys \X Nat
        /\ \A s \in signed' : s \in signed \/ s[1] \in keys
    BY <2>1, <2>2, <2>3, FreshKeys
  <2>5. \A s \in signed' : Used(s[1])'
    BY <1>1, <2>1, <2>2, <2>4 DEF Used, Keys, KeyInv
  <2> QED BY <1>1, <1>3, <2>1, <2>4, <2>5 DEF KeyInv
<1> QED BY <1>2, <1>3 DEF CreateRotationTx, MayBuild

LEMMA KeyStep == ASSUME KeyInv, FiniteInv, [Next]_vars PROVE KeyInv'
<1>1. ASSUME NEW amount, NEW mine, NEW fee, NEW S \in SUBSET SpendableUtxos,
             CreateTransfer(amount, mine, fee, S)
      PROVE  KeyInv'
  BY <1>1, MakeKeepsKeys, SpendableFinite DEF CreateTransfer
<1>2. ASSUME NEW amount, NEW S \in SUBSET SpendableUtxos, CreateStake(amount, S) PROVE KeyInv'
  BY <1>2, MakeKeepsKeys, SpendableFinite DEF CreateStake
<1>3. ASSUME CreateUnstake PROVE KeyInv'
  <2> DEFINE S == {k \in SpendableUtxos : utxos[k].lock_epoch > 0}
             fee == EstimateFee(Cardinality(S), 1)
  <2>1. IsFiniteSet(S)
    BY SpendableFinite
  <2>2. Make("UNSTAKE", S, << Output(Total(S) - fee, 0, TRUE) >>, fee, 0)
    BY <1>3 DEF CreateUnstake
  <2> HIDE DEF S, fee
  <2> QED BY <2>1, <2>2, MakeKeepsKeys
<1>4. ASSUME NEW payload, NEW fee, NEW S \in SUBSET SpendableUtxos, CreateDataTx(payload, fee, S)
      PROVE  KeyInv'
  BY <1>4, MakeKeepsKeys, SpendableFinite DEF CreateDataTx
<1>5. ASSUME NEW fee, NEW S, CreateRegistrationTx(fee, S) PROVE KeyInv'
  BY <1>5, RegistrationKeepsKeys
<1>6. ASSUME NEW fee, CreateRotationTx(fee) PROVE KeyInv'
  BY <1>6, RotationKeepsKeys
<1>7. ASSUME ConfirmRotation PROVE KeyInv'
  <2>1. batch' = batch + 1 /\ next_batch' = None /\ key_index' = 0 /\ rotation_index' = 0
    BY <1>7 DEF ConfirmRotation, KeyInv
  <2>2. UNCHANGED <<legacy_index, made, signed>>
    BY <1>7 DEF ConfirmRotation
  <2>3. \A k \in Keys : Used(k) => Used(k)'
    BY <2>1, <2>2 DEF Used, Keys, KeyInv
  <2> QED BY <2>1, <2>2, <2>3, WalletAssumption DEF KeyInv, KeysSignOnce
<1>8. CASE UNCHANGED <<batch, next_batch, key_index, rotation_index, legacy_index, made, signed>>
  BY <1>8 DEF KeyInv, Used, KeysSignOnce
<1>9. ASSUME NEW txs, ApplyBlock(txs) PROVE KeyInv'
  BY <1>8, <1>9 DEF ApplyBlock, keyVars
<1>10. ASSUME NEW tx, Lose(tx) \/ ConfirmTransaction(tx) \/ AddUtxo(tx) PROVE KeyInv'
  BY <1>8, <1>10 DEF Lose, ConfirmTransaction, AddUtxo, keyVars
<1>11. CASE AdvanceEpoch \/ MarkRegistered \/ SyncEpoch \/ UNCHANGED vars
  BY <1>8, <1>11 DEF AdvanceEpoch, MarkRegistered, SyncEpoch, vars, keyVars
<1> QED BY <1>1, <1>2, <1>3, <1>4, <1>5, <1>6, <1>7, <1>9, <1>10, <1>11 DEF Next

LEMMA KeyInvariant == Spec => [](KeyInv /\ FiniteInv)
<1>1. Init => KeyInv /\ FiniteInv
  <2> SUFFICES ASSUME Init PROVE KeyInv /\ FiniteInv
    OBVIOUS
  <2>1. KeyInv
    BY WalletAssumption DEF Init, KeyInv, KeysSignOnce
  <2>2. DOMAIN utxos = {}
    BY DEF Init
  <2> QED BY <2>1, <2>2, FS_EmptySet DEF Init, FiniteInv
<1>2. KeyInv /\ FiniteInv /\ [Next]_vars => (KeyInv /\ FiniteInv)'
  BY KeyStep, FiniteStep
<1> QED BY <1>1, <1>2, PTL DEF Spec

\* No one-time key of the wallet ever signs two messages, whatever it builds,
\* throws away, loses or is told late (TemporalAuthTree.sign, sign_rotation,
\* KeyManager.execute_rotation); the registration key is the exception.
THEOREM OneTimeKeys == Spec => []KeysSignOnce
<1>1. KeyInv => KeysSignOnce
  BY DEF KeyInv
<1> QED BY <1>1, KeyInvariant, PTL

-----------------------------------------------------------------------------
\* The registered root

\* A transaction on its way registers the first root, or rotates from a batch
\* the wallet has had; from the present one only to the batch it has prepared.
RootOnTheWay(tx) ==
    \/ tx.data = None
    \/ tx.type = "REGISTER" /\ tx.data = 0
    \/ /\ tx.type = "ROTATE_AUTH" /\ tx.root \in 0 .. batch /\ tx.data = tx.root + 1
       /\ tx.root = batch => next_batch = batch + 1

RootInv ==
    /\ ChainRootKnown
    /\ auth_root = None => ~is_registered
    /\ ~is_registered => batch = 0 /\ next_batch = None
    /\ \A tx \in network : RootOnTheWay(tx)

LEMMA MakeKeepsRoot ==
    ASSUME RootInv, NEW type, NEW inputs, NEW outputs, NEW fee, NEW payload,
           Make(type, inputs, outputs, fee, payload)
    PROVE  RootInv'
<1> DEFINE tx == Built(type, inputs, outputs, fee, IF is_registered THEN batch ELSE None, None,
                       payload)
<1>1. tx.data = None
  BY DEF Built
<1>2. Submit(tx) \/ Unused
  BY DEF Make
<1> HIDE DEF tx
<1>3. \A t \in network' : t \in network \/ t.data = None
  BY <1>1, <1>2 DEF Submit, Unused
<1>4. UNCHANGED <<is_registered, batch, next_batch, auth_root>>
  BY DEF Make
<1> QED BY <1>3, <1>4 DEF RootInv, RootOnTheWay, ChainRootKnown

LEMMA RegistrationKeepsRoot ==
    ASSUME KeyInv, RootInv, NEW named, NEW S, CreateRegistrationTx(named, S)
    PROVE  RootInv'
<1>1. UNCHANGED <<is_registered, batch, next_batch, auth_root>> /\ batch = 0
  BY DEF CreateRegistrationTx, keyVars, RootInv
<1>2. \A t \in network' : t \in network \/ (t.type = "REGISTER" /\ t.data = 0)
  <2> DEFINE fee == FeeOr(named, RegistrationFee)
             tx(k) == Built("REGISTER", {k}, << Output(0, 0, TRUE) >> \o Change(Total(S) - fee),
                            fee, None, batch, 96)
  <2>1. \A k : tx(k).type = "REGISTER" /\ tx(k).data = 0
    BY <1>1 DEF Built
  <2>2. (\E k : Submit(tx(k))) \/ Unused
    BY DEF CreateRegistrationTx
  <2> HIDE DEF tx
  <2> QED BY <2>1, <2>2 DEF Submit, Unused
<1> QED BY <1>1, <1>2 DEF RootInv, RootOnTheWay, ChainRootKnown

LEMMA RotationKeepsRoot ==
    ASSUME KeyInv, RootInv, NEW named, CreateRotationTx(named)
    PROVE  RootInv'
<1>1. /\ is_registered /\ next_batch' = batch + 1
      /\ UNCHANGED <<is_registered, batch, auth_root>>
  BY DEF CreateRotationTx, PrepareRotation
<1>2. auth_root \in {batch, next_batch} /\ (auth_root = next_batch => next_batch = batch + 1)
  BY <1>1 DEF RootInv, ChainRootKnown, KeyInv
<1>3. \A t \in network' :
         t \in network \/ (t.type = "ROTATE_AUTH" /\ t.root = batch /\ t.data = batch + 1)
  <2> DEFINE fee == FeeOr(named, RotationFee)
             tx(S, k) == Built("ROTATE_AUTH", {k},
                               << Output(0, 0, TRUE) >> \o Change(Total(S) - fee),
                               fee, batch, batch + 1, 32)
  <2>1. \A S, k : /\ tx(S, k).type = "ROTATE_AUTH" /\ tx(S, k).root = batch
                  /\ tx(S, k).data = batch + 1
    BY DEF Built
  <2>2. (\E S, k : Submit(tx(S, k))) \/ Unused
    BY DEF CreateRotationTx
  <2> HIDE DEF tx
  <2> QED BY <2>1, <2>2 DEF Submit, Unused
<1>4. \A t \in network' : RootOnTheWay(t)'
  BY <1>1, <1>3 DEF RootInv, RootOnTheWay, KeyInv
<1> QED BY <1>1, <1>2, <1>4 DEF RootInv, ChainRootKnown

\* A rotation the chain accepts leads from the wallet's batch to the next one.
LEMMA BlockKeepsRoot ==
    ASSUME KeyInv, RootInv, NEW txs \in SUBSET network, ApplyBlock(txs)
    PROVE  RootInv'
<1> USE WalletAssumption
<1>1. UNCHANGED <<is_registered, batch, next_batch>> /\ network' \subseteq network
  BY DEF ApplyBlock, keyVars
<1>2. CASE auth_root' = auth_root
  BY <1>1, <1>2 DEF RootInv, RootOnTheWay, ChainRootKnown
<1>3. CASE \E tx \in txs : tx.data # None /\ auth_root' = tx.data
  <2> PICK tx \in txs : tx.data # None /\ auth_root' = tx.data
    BY <1>3
  <2>1. RootOnTheWay(tx) /\ Authorized(tx)
    BY DEF RootInv, ApplyBlock, ValidTransaction
  <2>2. CASE tx.type = "REGISTER"
    <3>1. tx.data = 0
      BY <2>1, <2>2 DEF RootOnTheWay
    <3>2. auth_root = None
      BY <2>1, <2>2 DEF Authorized
    <3>3. batch = 0
      BY <3>2 DEF RootInv
    <3> QED BY <1>1, <3>1, <3>3 DEF RootInv, RootOnTheWay, ChainRootKnown
  <2>3. CASE tx.type = "ROTATE_AUTH"
    <3>1. /\ tx.root \in 0 .. batch /\ tx.data = tx.root + 1
          /\ tx.root = batch => next_batch = batch + 1
      BY <2>1, <2>3 DEF RootOnTheWay
    <3>2. auth_root # None /\ tx.root = auth_root
      BY <2>1, <2>3 DEF Authorized
    <3>3. auth_root = batch
      BY <3>1, <3>2 DEF RootInv, ChainRootKnown, KeyInv
    <3>4. auth_root' = next_batch /\ auth_root' \in Nat
      BY <3>1, <3>2, <3>3 DEF KeyInv
    <3> QED BY <1>1, <3>4 DEF RootInv, RootOnTheWay, ChainRootKnown
  <2> QED BY <2>1, <2>2, <2>3 DEF RootOnTheWay
<1> QED BY <1>2, <1>3 DEF ApplyBlock

LEMMA RootStep == ASSUME KeyInv, RootInv, [Next]_vars PROVE RootInv'
<1> USE WalletAssumption
<1>1. ASSUME NEW amount, NEW mine, NEW fee, NEW S, CreateTransfer(amount, mine, fee, S)
      PROVE  RootInv'
  BY <1>1, MakeKeepsRoot DEF CreateTransfer
<1>2. ASSUME NEW amount, NEW S, CreateStake(amount, S) PROVE RootInv'
  BY <1>2, MakeKeepsRoot DEF CreateStake
<1>3. ASSUME CreateUnstake PROVE RootInv'
  BY <1>3, MakeKeepsRoot DEF CreateUnstake
<1>4. ASSUME NEW payload, NEW fee, NEW S, CreateDataTx(payload, fee, S) PROVE RootInv'
  BY <1>4, MakeKeepsRoot DEF CreateDataTx
<1>5. ASSUME NEW fee, NEW S, CreateRegistrationTx(fee, S) PROVE RootInv'
  BY <1>5, RegistrationKeepsRoot
<1>6. ASSUME NEW fee, CreateRotationTx(fee) PROVE RootInv'
  BY <1>6, RotationKeepsRoot
<1>7. ASSUME NEW txs \in SUBSET network, ApplyBlock(txs) PROVE RootInv'
  BY <1>7, BlockKeepsRoot
<1>8. CASE /\ UNCHANGED <<is_registered, batch, next_batch, auth_root>>
           /\ network' \subseteq network
  BY <1>8 DEF RootInv, RootOnTheWay, ChainRootKnown
<1>9. ASSUME NEW tx, Lose(tx) \/ ConfirmTransaction(tx) \/ AddUtxo(tx) PROVE RootInv'
  BY <1>8, <1>9 DEF Lose, ConfirmTransaction, AddUtxo, keyVars, chainVars
<1>10. CASE AdvanceEpoch \/ SyncEpoch \/ UNCHANGED vars
  BY <1>8, <1>10 DEF AdvanceEpoch, SyncEpoch, vars, keyVars, chainVars
<1>11. CASE MarkRegistered
  BY <1>11 DEF MarkRegistered, chainVars, RootInv, RootOnTheWay, ChainRootKnown
<1>12. CASE ConfirmRotation
  <2>1. /\ next_batch = batch + 1 /\ batch' = batch + 1 /\ next_batch' = None
        /\ auth_root = next_batch /\ is_registered
        /\ UNCHANGED <<is_registered, auth_root, network>>
    BY <1>12 DEF ConfirmRotation, chainVars, RootInv, ChainRootKnown, KeyInv
  <2>2. \A tx \in network : RootOnTheWay(tx)'
    BY <2>1 DEF RootInv, RootOnTheWay, KeyInv
  <2> QED BY <2>1, <2>2 DEF RootInv, ChainRootKnown, KeyInv
<1> QED BY <1>1, <1>2, <1>3, <1>4, <1>5, <1>6, <1>7, <1>9, <1>10, <1>11, <1>12 DEF Next

\* The root the chain holds for the address is always the wallet's, or the one
\* it has prepared to rotate to (KeyManager.prepare_rotation, AuthRegistry.rotate):
\* losing a rotation, trying it again or confirming it late never strands the wallet.
THEOREM RootIsKnown == Spec => []ChainRootKnown
<1>1. Init => RootInv
  BY WalletAssumption DEF Init, RootInv, ChainRootKnown
<1>2. KeyInv /\ RootInv /\ [Next]_vars => RootInv'
  BY RootStep
<1>3. RootInv => ChainRootKnown
  BY DEF RootInv
<1> QED BY <1>1, <1>2, <1>3, KeyInvariant, PTL DEF Spec

-----------------------------------------------------------------------------
\* What the wallet knows of the chain

\* Transactions are numbered; what is on its way is pending and not applied.
Numbered ==
    /\ made \in 0 .. MaxTxs /\ current_epoch \in Nat /\ epoch \in Nat /\ current_epoch <= epoch
    /\ network \subseteq pending_txs /\ network \cap applied = {}
    /\ \A tx \in pending_txs \cup applied : tx.hash \in 1 .. made
    /\ \A x, y \in pending_txs \cup applied : x.hash = y.hash => x = y

\* The wallet knows every input it has used, and has used each once unless it
\* was told of it again.
InputsUsed ==
    /\ \A tx \in pending_txs : \A k \in tx.inputs :
          /\ k \in DOMAIN utxos /\ utxos[k].lock_epoch <= current_epoch
          /\ k \notin readded => utxos[k].is_spent
    /\ \A tx \in applied : \A k \in tx.inputs :
          k \in DOMAIN utxos /\ k \in DOMAIN chain_utxos /\ chain_utxos[k].is_spent
    /\ \A tx \in pending_txs \ applied : \A k \in tx.inputs :
          k \notin readded => ~chain_utxos[k].is_spent
    /\ \A x, y \in pending_txs \cup applied : x # y => x.inputs \cap y.inputs \subseteq readded

\* Outputs come from genesis and from applied transactions; the wallet knows
\* those of a confirmed transaction.
Origins ==
    /\ \A k \in DOMAIN chain_utxos : k \in DOMAIN Genesis \/ \E tx \in applied : k \in OwnOutputs(tx)
    /\ \A tx \in applied : OwnOutputs(tx) \subseteq DOMAIN chain_utxos
    /\ \A tx \in applied \ pending_txs : OwnOutputs(tx) \subseteq DOMAIN utxos

\* An output as add_utxo enters it
Fresh(o) == [value |-> o.value, lock_epoch |-> o.lock_epoch, is_spent |-> FALSE]

\* Where both know an output they agree on it, and the chain's outputs are worth
\* what their transaction says.
Agreement ==
    /\ \A k \in DOMAIN utxos : utxos[k] \in UTXOs
    /\ \A k \in DOMAIN chain_utxos : chain_utxos[k] \in UTXOs
    /\ \A k \in DOMAIN utxos :
          /\ k \in DOMAIN chain_utxos
          /\ utxos[k].value = chain_utxos[k].value
          /\ utxos[k].lock_epoch = chain_utxos[k].lock_epoch
          /\ chain_utxos[k].is_spent /\ k \notin readded => utxos[k].is_spent
          /\ utxos[k].is_spent /\ ~chain_utxos[k].is_spent =>
                \E tx \in pending_txs : k \in tx.inputs
    /\ \A tx \in applied \cap pending_txs : \A i \in DOMAIN tx.outputs : tx.outputs[i].mine =>
          /\ chain_utxos[<<tx.hash, i>>].value = tx.outputs[i].value
          /\ chain_utxos[<<tx.hash, i>>].lock_epoch = tx.outputs[i].lock_epoch

\* A transaction as the wallet builds it
Sound(tx) ==
    /\ tx.epoch \in Nat /\ tx.fee \in Nat
    /\ DOMAIN tx.outputs \subseteq {1, 2} /\ Len(tx.outputs) \in 1 .. 2
    /\ tx.type \in {"TRANSFER", "STAKE"} => tx.payload = 0
    /\ \A i \in DOMAIN tx.outputs : tx.outputs[i] \in Outputs
    /\ tx.type # "UNSTAKE" => \A i \in DOMAIN tx.outputs :
          tx.outputs[i].value = 0 \/ tx.outputs[i].value >= DUST_THRESHOLD
    /\ tx.type = "STAKE" => \E i \in DOMAIN tx.outputs :
          tx.outputs[i].lock_epoch = tx.epoch + STAKING_LOCK_EPOCHS

\* Its inputs are worth its outputs and the fee.
Paid(tx) ==
    tx.type \notin {"REGISTER", "ROTATE_AUTH"} => Total(tx.inputs) >= Value(tx.outputs) + tx.fee

TrackInv ==
    /\ Numbered /\ InputsUsed /\ Origins /\ Agreement
    /\ \A tx \in pending_txs : Sound(tx) /\ Paid(tx)

LEMMA OwnOutput ==
    ASSUME NEW tx
    PROVE  \A k : k \in OwnOutputs(tx) <=>
              \E i \in DOMAIN tx.outputs : tx.outputs[i].mine /\ k = <<tx.hash, i>>
BY DEF OwnOutputs

\* spend_utxo changes the flag of the outputs spent and nothing else.
LEMMA SpentFacts ==
    ASSUME NEW known, NEW S, \A k \in DOMAIN known : known[k] \in UTXOs
    PROVE  /\ DOMAIN Spent(known, S) = DOMAIN known
           /\ \A k \in DOMAIN known :
                 /\ Spent(known, S)[k] \in UTXOs
                 /\ Spent(known, S)[k].value = known[k].value
                 /\ Spent(known, S)[k].lock_epoch = known[k].lock_epoch
                 /\ Spent(known, S)[k].is_spent <=> k \in S \/ known[k].is_spent
                 /\ k \notin S => Spent(known, S)[k] = known[k]
BY DEF Spent, UTXOs

\* add_utxo for the outputs of transactions with different hashes
Enters(after, known, txs) ==
    /\ DOMAIN after = DOMAIN known \cup UNION {OwnOutputs(tx) : tx \in txs}
    /\ \A k \in DOMAIN known : (\A tx \in txs : k \notin OwnOutputs(tx)) => after[k] = known[k]
    /\ \A tx \in txs : \A i \in DOMAIN tx.outputs : tx.outputs[i].mine =>
          after[<<tx.hash, i>>] = Fresh(tx.outputs[i])

LEMMA ReceivedFacts ==
    ASSUME NEW known, NEW txs, \A x, y \in txs : x.hash = y.hash => x = y
    PROVE  Enters(Received(known, txs), known, txs)
<1>1. DOMAIN Received(known, txs) = DOMAIN known \cup UNION {OwnOutputs(tx) : tx \in txs}
  BY DEF Received
<1>2. ASSUME NEW k \in DOMAIN known, \A tx \in txs : k \notin OwnOutputs(tx)
      PROVE  Received(known, txs)[k] = known[k]
  BY <1>2 DEF Received
<1>3. ASSUME NEW tx \in txs, NEW i \in DOMAIN tx.outputs, tx.outputs[i].mine
      PROVE  Received(known, txs)[<<tx.hash, i>>] =
                 Fresh(tx.outputs[i])
  <2> DEFINE k == <<tx.hash, i>>
             t == CHOOSE t \in txs : k \in OwnOutputs(t)
  <2>1. k \in OwnOutputs(tx)
    BY <1>3, OwnOutput
  <2>2. t \in txs /\ k \in OwnOutputs(t)
    BY <2>1, Zenon
  <2>3. t = tx
    <3>1. t.hash = k[1]
      BY <2>2, OwnOutput
    <3> HIDE DEF t
    <3> QED BY <2>2, <3>1
  <2>4. k \in DOMAIN known \cup UNION {OwnOutputs(u) : u \in txs}
    BY <2>1
  <2>5. Received(known, txs)[k] =
           [value |-> t.outputs[k[2]].value, lock_epoch |-> t.outputs[k[2]].lock_epoch,
            is_spent |-> FALSE]
    BY <2>1, <2>4, Zenon DEF Received
  <2> HIDE DEF t
  <2> QED BY <2>3, <2>5 DEF Fresh
<1> QED BY <1>1, <1>2, <1>3 DEF Enters

-----------------------------------------------------------------------------
\* What outputs are worth

LEMMA TotalKept ==
    ASSUME FiniteInv, NEW S \in SUBSET DOMAIN utxos, \A k \in DOMAIN utxos : utxos[k].value \in Nat,
           \A k \in S : k \in DOMAIN utxos' /\ utxos'[k].value = utxos[k].value
    PROVE  Total(S)' = Total(S)
<1>1. IsFiniteSet(S)
  BY FS_Subset DEF FiniteInv
<1>2. \A k \in S : Values(utxos)[k] \in Nat /\ Values(utxos')[k] = Values(utxos)[k]
  BY DEF Values
<1>3. SumFunctionOnSet(Values(utxos'), S) = SumFunctionOnSet(Values(utxos), S)
  BY <1>1, <1>2, SumAgree
<1> QED BY <1>3 DEF Total

\* The inputs of a pending transaction stay paid for.
LEMMA PaidKept ==
    ASSUME FiniteInv, TrackInv, NEW tx \in pending_txs,
           \A k \in DOMAIN utxos : k \in DOMAIN utxos' /\ utxos'[k].value = utxos[k].value
    PROVE  Paid(tx)'
<1>1. tx.inputs \in SUBSET DOMAIN utxos /\ \A k \in DOMAIN utxos : utxos[k].value \in Nat
  BY DEF TrackInv, InputsUsed, Agreement, UTXOs
<1>2. Total(tx.inputs)' = Total(tx.inputs)
  BY <1>1, TotalKept
<1> QED BY <1>2 DEF TrackInv, Paid

-----------------------------------------------------------------------------
\* Every step keeps the wallet in touch with the chain

\* A transaction is built and submitted.
LEMMA SubmitKeepsTrack ==
    ASSUME FiniteInv, TrackInv, NEW tx, Submit(tx), made < MaxTxs, made' = made + 1,
           tx.hash = made + 1, tx.inputs \subseteq SpendableUtxos, Sound(tx), Paid(tx),
           UNCHANGED <<current_epoch, epoch, chain_utxos, applied, readded>>
    PROVE  TrackInv'
<1> USE WalletAssumption
<1>1. /\ pending_txs' = pending_txs \cup {tx} /\ network' = network \cup {tx}
      /\ utxos' = Spent(utxos, tx.inputs)
      /\ tx.hash = made + 1 /\ made' = made + 1
      /\ UNCHANGED <<current_epoch, epoch, chain_utxos, applied, readded>>
  BY DEF Submit
<1>2. /\ DOMAIN utxos' = DOMAIN utxos
      /\ \A k \in DOMAIN utxos :
            /\ utxos'[k] \in UTXOs /\ utxos'[k].value = utxos[k].value
            /\ utxos'[k].lock_epoch = utxos[k].lock_epoch
            /\ utxos'[k].is_spent <=> k \in tx.inputs \/ utxos[k].is_spent
  BY <1>1, SpentFacts DEF TrackInv, Agreement
<1>3. \A k \in tx.inputs : /\ k \in DOMAIN utxos /\ ~utxos[k].is_spent
                           /\ utxos[k].lock_epoch <= current_epoch
  BY DEF SpendableUtxos
<1>4. Numbered'
  BY <1>1 DEF TrackInv, Numbered
<1>5. InputsUsed'
  <2>1. \A t \in pending_txs \cup applied : t.inputs \cap tx.inputs \subseteq readded
    BY <1>3 DEF TrackInv, InputsUsed, Agreement
  <2>2. \A t \in pending_txs' : \A k \in t.inputs :
          /\ k \in DOMAIN utxos' /\ utxos'[k].lock_epoch <= current_epoch'
          /\ k \notin readded' => utxos'[k].is_spent
    BY <1>1, <1>2, <1>3 DEF TrackInv, InputsUsed
  <2>3. \A t \in applied' : \A k \in t.inputs :
          k \in DOMAIN utxos' /\ k \in DOMAIN chain_utxos' /\ chain_utxos'[k].is_spent
    BY <1>1, <1>2 DEF TrackInv, InputsUsed
  <2>4. \A x, y \in pending_txs' \cup applied' : x # y => x.inputs \cap y.inputs \subseteq readded'
    BY <1>1, <2>1 DEF TrackInv, InputsUsed
  <2>5. \A t \in pending_txs' \ applied' : \A k \in t.inputs :
          k \notin readded' => ~chain_utxos'[k].is_spent
    BY <1>1, <1>3 DEF TrackInv, InputsUsed, Agreement
  <2> QED BY <2>2, <2>3, <2>4, <2>5 DEF InputsUsed
<1>6. Origins'
  <2>1. applied' \ pending_txs' = applied \ pending_txs
    BY <1>1 DEF TrackInv, Numbered
  <2>2. /\ DOMAIN chain_utxos' = DOMAIN chain_utxos /\ applied' = applied
        /\ DOMAIN utxos' = DOMAIN utxos
    BY <1>1, <1>2
  <2>3. \A t : OwnOutputs(t)' = OwnOutputs(t)
    BY DEF OwnOutputs
  <2> QED BY <2>1, <2>2, <2>3 DEF TrackInv, Origins
<1>7. Agreement'
  <2>1. \A k \in DOMAIN utxos' :
          /\ k \in DOMAIN chain_utxos'
          /\ utxos'[k].value = chain_utxos'[k].value
          /\ utxos'[k].lock_epoch = chain_utxos'[k].lock_epoch
          /\ chain_utxos'[k].is_spent /\ k \notin readded' => utxos'[k].is_spent
          /\ utxos'[k].is_spent /\ ~chain_utxos'[k].is_spent =>
                \E t \in pending_txs' : k \in t.inputs
    BY <1>1, <1>2 DEF TrackInv, Agreement
  <2>2. \A t \in applied' \cap pending_txs' : t \in applied \cap pending_txs
    BY <1>1 DEF TrackInv, Numbered
  <2> QED BY <1>1, <1>2, <2>1, <2>2 DEF TrackInv, Agreement
<1>8. \A t \in pending_txs' : Sound(t)' /\ Paid(t)'
  <2>1. \A t \in pending_txs : Paid(t)'
    BY <1>2, PaidKept
  <2>2. tx.inputs \in SUBSET DOMAIN utxos /\ \A k \in DOMAIN utxos : utxos[k].value \in Nat
    BY <1>3 DEF TrackInv, Agreement, UTXOs
  <2>3. Total(tx.inputs)' = Total(tx.inputs)
    BY <1>2, <2>2, TotalKept
  <2>4. Paid(tx)'
    BY <2>3 DEF Paid
  <2>5. \A t : Sound(t) => Sound(t)'
    BY DEF Sound
  <2> QED BY <1>1, <2>1, <2>4, <2>5 DEF TrackInv
<1> QED BY <1>4, <1>5, <1>6, <1>7, <1>8 DEF TrackInv

\* Steps that change neither outputs nor applied transactions
LEMMA FrameKeepsTrack ==
    ASSUME TrackInv, UNCHANGED <<utxos, pending_txs, chain_utxos, applied, readded>>,
           network' \subseteq network, made' \in made .. MaxTxs,
           epoch' \in Nat, epoch' >= epoch, current_epoch' \in {current_epoch, epoch},
           current_epoch' >= current_epoch
    PROVE  TrackInv'
<1>1. Numbered'
  BY WalletAssumption DEF TrackInv, Numbered
<1>2. InputsUsed'
  BY DEF TrackInv, Numbered, InputsUsed, Agreement, UTXOs
<1>3. Origins' /\ Agreement'
  BY DEF TrackInv, Origins, Agreement, OwnOutputs
<1>4. \A t \in pending_txs' : Sound(t)' /\ Paid(t)'
  BY DEF TrackInv, Sound, Paid, Total
<1> QED BY <1>1, <1>2, <1>3, <1>4 DEF TrackInv

LEMMA AddUtxoKeepsTrack ==
    ASSUME FiniteInv, TrackInv, NEW k \in DOMAIN chain_utxos, AddUtxo(k)
    PROVE  TrackInv'
<1>1. /\ DOMAIN utxos' = DOMAIN utxos \cup {k}
      /\ utxos'[k] = [chain_utxos[k] EXCEPT !.is_spent = FALSE]
      /\ \A j \in DOMAIN utxos : j # k => utxos'[j] = utxos[j]
  BY DEF AddUtxo
<1>2. UNCHANGED <<pending_txs, current_epoch, epoch, chain_utxos, network, applied, made>>
  BY DEF AddUtxo, chainVars
<1>3. chain_utxos[k] \in UTXOs
  BY DEF TrackInv, Agreement
<1>4. /\ utxos'[k] \in UTXOs /\ ~utxos'[k].is_spent
      /\ utxos'[k].value = chain_utxos[k].value /\ utxos'[k].lock_epoch = chain_utxos[k].lock_epoch
  BY <1>1, <1>3 DEF UTXOs
<1>5. /\ readded \subseteq readded'
      /\ chain_utxos[k].is_spent => k \in readded'
      /\ k \in DOMAIN utxos /\ utxos[k].is_spent => k \in readded'
  BY DEF AddUtxo, NoteReadded, AlreadySpent
<1>6. \A j \in DOMAIN utxos : /\ utxos'[j].value = utxos[j].value
                              /\ utxos'[j].lock_epoch = utxos[j].lock_epoch
                              /\ j \notin readded' /\ utxos[j].is_spent => utxos'[j].is_spent
  BY <1>1, <1>4, <1>5 DEF TrackInv, Agreement, UTXOs
<1>7. Numbered'
  BY <1>2 DEF TrackInv, Numbered
<1>8. InputsUsed'
  BY <1>1, <1>2, <1>5, <1>6 DEF TrackInv, InputsUsed
<1>9. Origins'
  BY <1>1, <1>2 DEF TrackInv, Origins, OwnOutputs
<1>10. Agreement'
  <2>1. \A j \in DOMAIN utxos' : utxos'[j] \in UTXOs
    BY <1>1, <1>4 DEF TrackInv, Agreement
  <2>2. ASSUME NEW j \in DOMAIN utxos'
        PROVE  /\ j \in DOMAIN chain_utxos'
               /\ utxos'[j].value = chain_utxos'[j].value
               /\ utxos'[j].lock_epoch = chain_utxos'[j].lock_epoch
               /\ chain_utxos'[j].is_spent /\ j \notin readded' => utxos'[j].is_spent
               /\ utxos'[j].is_spent /\ ~chain_utxos'[j].is_spent =>
                     \E t \in pending_txs' : j \in t.inputs
    <3>1. CASE j = k
      BY <1>2, <1>4, <1>5, <3>1
    <3>2. CASE j # k
      BY <1>1, <1>2, <1>5, <3>2 DEF TrackInv, Agreement
    <3> QED BY <3>1, <3>2
  <2> QED BY <1>2, <2>1, <2>2 DEF TrackInv, Agreement
<1>11. \A t \in pending_txs' : Sound(t)' /\ Paid(t)'
  <2>1. \A t \in pending_txs : Paid(t)'
    <3>1. \A j \in DOMAIN utxos : j \in DOMAIN utxos' /\ utxos'[j].value = utxos[j].value
      BY <1>1, <1>6
    <3> QED BY <3>1, PaidKept
  <2> QED BY <1>2, <2>1 DEF TrackInv, Sound
<1> QED BY <1>7, <1>8, <1>9, <1>10, <1>11 DEF TrackInv

\* The outputs of a transaction are not on the chain before it is applied.
LEMMA NotYetKnown ==
    ASSUME TrackInv, NEW tx \in pending_txs, NEW k \in OwnOutputs(tx), tx \notin applied
    PROVE  k \notin DOMAIN chain_utxos
<1>1. k[1] = tx.hash
  BY OwnOutput
<1>2. k \notin DOMAIN Genesis
  BY <1>1, GenesisAssumption, WalletAssumption DEF TrackInv, Numbered
<1>3. \A t \in applied : t # tx => k \notin OwnOutputs(t)
  <2>1. \A t \in applied : t # tx => t.hash # tx.hash
    BY DEF TrackInv, Numbered
  <2>2. \A t : k \in OwnOutputs(t) => k[1] = t.hash
    BY OwnOutput
  <2> QED BY <1>1, <2>1, <2>2
<1> QED BY <1>2, <1>3 DEF TrackInv, Origins

LEMMA ConfirmKeepsTrack ==
    ASSUME FiniteInv, TrackInv, NEW tx \in applied \cap pending_txs, ConfirmTransaction(tx)
    PROVE  TrackInv'
<1>1. /\ pending_txs' = pending_txs \ {tx}
      /\ UNCHANGED <<current_epoch, epoch, chain_utxos, network, applied, made>>
  BY DEF ConfirmTransaction, chainVars
<1>2. /\ readded \subseteq readded'
      /\ \A k \in OwnOutputs(tx) : /\ k \in DOMAIN chain_utxos /\ chain_utxos[k].is_spent => k \in readded'
                                   /\ k \in DOMAIN utxos /\ utxos[k].is_spent => k \in readded'
  BY DEF ConfirmTransaction, NoteReadded, AlreadySpent
<1>3. /\ utxos' = Received(utxos, {tx})
      /\ DOMAIN utxos' = DOMAIN utxos \cup OwnOutputs(tx)
      /\ \A k \in DOMAIN utxos : k \notin OwnOutputs(tx) => utxos'[k] = utxos[k]
      /\ \A i \in DOMAIN tx.outputs : tx.outputs[i].mine =>
            utxos'[<<tx.hash, i>>] = Fresh(tx.outputs[i])
  <2>1. utxos' = Received(utxos, {tx})
    BY DEF ConfirmTransaction
  <2> DEFINE txs == {tx}
  <2>2. /\ \A x, y \in txs : x.hash = y.hash => x = y
        /\ UNION {OwnOutputs(t) : t \in txs} = OwnOutputs(tx)
        /\ \A t : t \in txs <=> t = tx
        /\ utxos' = Received(utxos, txs)
    BY <2>1
  <2> HIDE DEF txs
  <2>3. Enters(utxos', utxos, txs)
    BY <2>2, ReceivedFacts
  <2> QED BY <2>1, <2>2, <2>3 DEF Enters
<1>4. \A k \in OwnOutputs(tx) :
         /\ k \in DOMAIN chain_utxos /\ utxos'[k] \in UTXOs /\ ~utxos'[k].is_spent
         /\ utxos'[k].value = chain_utxos[k].value
         /\ utxos'[k].lock_epoch = chain_utxos[k].lock_epoch
  <2> SUFFICES ASSUME NEW i \in DOMAIN tx.outputs, tx.outputs[i].mine
               PROVE  LET k == <<tx.hash, i>> IN
                      /\ k \in DOMAIN chain_utxos /\ utxos'[k] \in UTXOs /\ ~utxos'[k].is_spent
                      /\ utxos'[k].value = chain_utxos[k].value
                      /\ utxos'[k].lock_epoch = chain_utxos[k].lock_epoch
    BY OwnOutput
  <2> DEFINE k == <<tx.hash, i>>
  <2>1. k \in OwnOutputs(tx)
    BY OwnOutput
  <2>2. k \in DOMAIN chain_utxos
    BY <2>1 DEF TrackInv, Origins
  <2>3. /\ chain_utxos[k].value = tx.outputs[i].value
        /\ chain_utxos[k].lock_epoch = tx.outputs[i].lock_epoch
    BY DEF TrackInv, Agreement
  <2>4. utxos'[k] = Fresh(tx.outputs[i])
    BY <1>3
  <2>5. tx.outputs[i].value \in Nat /\ tx.outputs[i].lock_epoch \in Nat
    BY DEF TrackInv, Sound, Outputs
  <2>6. Fresh(tx.outputs[i]) \in UTXOs /\ ~Fresh(tx.outputs[i]).is_spent
    BY <2>5 DEF Fresh, UTXOs
  <2> HIDE DEF k
  <2>7. utxos'[k].value = tx.outputs[i].value /\ utxos'[k].lock_epoch = tx.outputs[i].lock_epoch
    BY <2>4 DEF Fresh
  <2> QED BY <2>2, <2>3, <2>4, <2>6, <2>7 DEF k
<1>5. \A j \in DOMAIN utxos : /\ utxos'[j].value = utxos[j].value
                              /\ utxos'[j].lock_epoch = utxos[j].lock_epoch
                              /\ j \notin readded' /\ utxos[j].is_spent => utxos'[j].is_spent
  <2> SUFFICES ASSUME NEW j \in DOMAIN utxos
               PROVE  /\ utxos'[j].value = utxos[j].value
                      /\ utxos'[j].lock_epoch = utxos[j].lock_epoch
                      /\ j \notin readded' /\ utxos[j].is_spent => utxos'[j].is_spent
    OBVIOUS
  <2>1. CASE j \notin OwnOutputs(tx)
    BY <1>3, <2>1
  <2>2. CASE j \in OwnOutputs(tx)
    BY <1>2, <1>4, <2>2 DEF TrackInv, Agreement, UTXOs
  <2> QED BY <2>1, <2>2
<1>6. Numbered'
  BY <1>1 DEF TrackInv, Numbered
<1>7. InputsUsed'
  BY <1>1, <1>2, <1>3, <1>5 DEF TrackInv, InputsUsed
<1>8. Origins'
  BY <1>1, <1>3 DEF TrackInv, Origins, OwnOutputs
<1>9. Agreement'
  <2>1. \A k \in DOMAIN utxos' : utxos'[k] \in UTXOs
    BY <1>3, <1>4 DEF TrackInv, Agreement
  <2>2. ASSUME NEW k \in DOMAIN utxos'
        PROVE  /\ k \in DOMAIN chain_utxos'
               /\ utxos'[k].value = chain_utxos'[k].value
               /\ utxos'[k].lock_epoch = chain_utxos'[k].lock_epoch
               /\ chain_utxos'[k].is_spent /\ k \notin readded' => utxos'[k].is_spent
               /\ utxos'[k].is_spent /\ ~chain_utxos'[k].is_spent =>
                     \E t \in pending_txs' : k \in t.inputs
    <3>1. CASE k \in OwnOutputs(tx)
      BY <1>1, <1>2, <1>4, <3>1
    <3>2. CASE k \in DOMAIN utxos /\ k \notin OwnOutputs(tx)
      <4>1. k \in tx.inputs => chain_utxos[k].is_spent
        BY DEF TrackInv, InputsUsed
      <4> QED BY <1>1, <1>2, <1>3, <3>2, <4>1 DEF TrackInv, Agreement
    <3> QED BY <1>3, <3>1, <3>2
  <2>3. \A t \in applied' \cap pending_txs' : t \in applied \cap pending_txs
    BY <1>1
  <2> QED BY <1>1, <2>1, <2>2, <2>3 DEF TrackInv, Agreement
<1>10. \A t \in pending_txs' : Sound(t)' /\ Paid(t)'
  <2>1. \A t \in pending_txs : Paid(t)'
    <3>1. \A j \in DOMAIN utxos : j \in DOMAIN utxos' /\ utxos'[j].value = utxos[j].value
      BY <1>3, <1>5
    <3> QED BY <3>1, PaidKept
  <2> QED BY <1>1, <2>1 DEF TrackInv, Sound
<1> QED BY <1>6, <1>7, <1>8, <1>9, <1>10 DEF TrackInv

LEMMA BlockKeepsTrack ==
    ASSUME FiniteInv, TrackInv, NEW txs \in SUBSET network, ApplyBlock(txs)
    PROVE  TrackInv'
<1> DEFINE I == UNION {tx.inputs : tx \in txs}
           spent == Spent(chain_utxos, I)
<1>1. /\ network' = network \ txs /\ applied' = applied \cup txs
      /\ UNCHANGED <<utxos, pending_txs, current_epoch, epoch, made, readded>>
  BY DEF ApplyBlock, walletVars
<1>2. txs \subseteq pending_txs /\ txs \cap applied = {}
  BY DEF TrackInv, Numbered
<1>3. /\ DOMAIN spent = DOMAIN chain_utxos
      /\ \A k \in DOMAIN chain_utxos :
            /\ spent[k] \in UTXOs /\ spent[k].value = chain_utxos[k].value
            /\ spent[k].lock_epoch = chain_utxos[k].lock_epoch
            /\ spent[k].is_spent <=> k \in I \/ chain_utxos[k].is_spent
            /\ k \notin I => spent[k] = chain_utxos[k]
  <2> HIDE DEF I
  <2>1. \A k \in DOMAIN chain_utxos : chain_utxos[k] \in UTXOs
    BY DEF TrackInv, Agreement
  <2> QED BY <2>1, SpentFacts
<1>4. Enters(chain_utxos', spent, txs)
  <2>1. \A x, y \in txs : x.hash = y.hash => x = y
    BY <1>2 DEF TrackInv, Numbered
  <2>2. chain_utxos' = Received(spent, txs)
    BY DEF ApplyBlock
  <2> HIDE DEF spent
  <2> QED BY <2>1, <2>2, ReceivedFacts
<1>5. \A k \in I : k \in DOMAIN utxos /\ (k \notin readded => utxos[k].is_spent)
  BY <1>2 DEF TrackInv, InputsUsed
<1>5a. \A tx \in txs : tx.inputs \subseteq I
  OBVIOUS
<1> HIDE DEF I, spent
<1>6. \A tx \in txs : \A k \in OwnOutputs(tx) : k \notin DOMAIN chain_utxos
  BY <1>2, NotYetKnown
<1>7. /\ \A k \in DOMAIN chain_utxos : k \in DOMAIN chain_utxos' /\ chain_utxos'[k] = spent[k]
      /\ \A k \in DOMAIN chain_utxos' : k \in DOMAIN chain_utxos \/ \E tx \in txs : k \in OwnOutputs(tx)
      /\ \A tx \in txs : OwnOutputs(tx) \subseteq DOMAIN chain_utxos'
      /\ \A tx \in txs : \A i \in DOMAIN tx.outputs : tx.outputs[i].mine =>
            chain_utxos'[<<tx.hash, i>>] = Fresh(tx.outputs[i])
  BY <1>3, <1>4, <1>6 DEF Enters
<1>8. Numbered'
  BY <1>1, <1>2 DEF TrackInv, Numbered
<1>9. InputsUsed'
  <2>1. \A t \in applied' : \A k \in t.inputs :
          k \in DOMAIN utxos' /\ k \in DOMAIN chain_utxos' /\ chain_utxos'[k].is_spent
    <3>1. ASSUME NEW t \in applied, NEW k \in t.inputs
          PROVE  k \in DOMAIN utxos' /\ k \in DOMAIN chain_utxos' /\ chain_utxos'[k].is_spent
      <4>1. k \in DOMAIN utxos /\ k \in DOMAIN chain_utxos /\ chain_utxos[k].is_spent
        BY DEF TrackInv, InputsUsed
      <4> QED BY <1>1, <1>3, <1>7, <4>1
    <3>2. ASSUME NEW t \in txs, NEW k \in t.inputs
          PROVE  k \in DOMAIN utxos' /\ k \in DOMAIN chain_utxos' /\ chain_utxos'[k].is_spent
      <4>1. k \in I /\ k \in DOMAIN utxos
        BY <1>5, <1>5a
      <4>2. k \in DOMAIN chain_utxos
        BY <4>1 DEF TrackInv, Agreement
      <4> QED BY <1>1, <1>3, <1>7, <4>1, <4>2
    <3> QED BY <1>1, <3>1, <3>2
  <2>2. pending_txs' \cup applied' = pending_txs \cup applied
    BY <1>1, <1>2
  <2>3. ASSUME NEW t \in pending_txs' \ applied', NEW k \in t.inputs, k \notin readded'
        PROVE  ~chain_utxos'[k].is_spent
    <3>1. t \in pending_txs \ applied /\ t \notin txs
      BY <1>1
    <3>2. k \notin I
      BY <1>1, <1>2, <2>3, <3>1 DEF I, TrackInv, InputsUsed
    <3>3. k \in DOMAIN chain_utxos /\ ~chain_utxos[k].is_spent
      BY <1>1, <2>3, <3>1 DEF TrackInv, InputsUsed, Agreement
    <3> QED BY <1>3, <1>7, <3>2, <3>3
  <2> QED BY <1>1, <2>1, <2>2, <2>3 DEF TrackInv, InputsUsed
<1>10. Origins'
  <2>1. applied' \ pending_txs' = applied \ pending_txs
    BY <1>1, <1>2
  <2>2. \A t : OwnOutputs(t)' = OwnOutputs(t)
    BY DEF OwnOutputs
  <2>4. \A k \in DOMAIN chain_utxos' :
           k \in DOMAIN Genesis \/ \E tx \in applied' : k \in OwnOutputs(tx)
    BY <1>1, <1>7 DEF TrackInv, Origins
  <2>5. \A tx \in applied' : OwnOutputs(tx) \subseteq DOMAIN chain_utxos'
    BY <1>1, <1>7 DEF TrackInv, Origins
  <2>7. \A tx \in applied' \ pending_txs' : OwnOutputs(tx) \subseteq DOMAIN utxos'
    BY <1>1, <2>1 DEF TrackInv, Origins
  <2> QED BY <2>2, <2>4, <2>5, <2>7 DEF Origins
<1>11. Agreement'
  <2>1. \A k \in DOMAIN utxos' : utxos'[k] \in UTXOs
    BY <1>1 DEF TrackInv, Agreement
  <2>2. \A k \in DOMAIN chain_utxos' : chain_utxos'[k] \in UTXOs
    <3>1. ASSUME NEW tx \in txs, NEW i \in DOMAIN tx.outputs PROVE Fresh(tx.outputs[i]) \in UTXOs
      BY <1>2 DEF TrackInv, Sound, Fresh, Outputs, UTXOs
    <3>2. \A tx \in txs : \A k \in OwnOutputs(tx) : chain_utxos'[k] \in UTXOs
      BY <1>7, <3>1, OwnOutput
    <3> QED BY <1>3, <1>7, <3>2
  <2>3. ASSUME NEW k \in DOMAIN utxos
        PROVE  /\ k \in DOMAIN chain_utxos'
               /\ utxos[k].value = chain_utxos'[k].value
               /\ utxos[k].lock_epoch = chain_utxos'[k].lock_epoch
               /\ chain_utxos'[k].is_spent /\ k \notin readded => utxos[k].is_spent
               /\ utxos[k].is_spent /\ ~chain_utxos'[k].is_spent =>
                     \E tx \in pending_txs : k \in tx.inputs
    BY <1>3, <1>5, <1>7 DEF TrackInv, Agreement
  <2>5. ASSUME NEW tx \in applied' \cap pending_txs', NEW i \in DOMAIN tx.outputs,
               tx.outputs[i].mine
        PROVE  /\ chain_utxos'[<<tx.hash, i>>].value = tx.outputs[i].value
               /\ chain_utxos'[<<tx.hash, i>>].lock_epoch = tx.outputs[i].lock_epoch
    <3>1. CASE tx \in txs
      <4>1. chain_utxos'[<<tx.hash, i>>] = Fresh(tx.outputs[i])
        BY <1>7, <2>5, <3>1
      <4> QED BY <4>1 DEF Fresh
    <3>2. CASE tx \in applied \cap pending_txs
      <4>1. <<tx.hash, i>> \in OwnOutputs(tx)
        BY <2>5, OwnOutput
      <4>2. <<tx.hash, i>> \in DOMAIN chain_utxos
        BY <3>2, <4>1 DEF TrackInv, Origins
      <4>3. /\ chain_utxos[<<tx.hash, i>>].value = tx.outputs[i].value
            /\ chain_utxos[<<tx.hash, i>>].lock_epoch = tx.outputs[i].lock_epoch
        BY <2>5, <3>2 DEF TrackInv, Agreement
      <4> QED BY <1>3, <1>7, <4>2, <4>3
    <3> QED BY <1>1, <3>1, <3>2
  <2> QED BY <1>1, <2>1, <2>2, <2>3, <2>5 DEF Agreement
<1>12. \A t \in pending_txs' : Sound(t)' /\ Paid(t)'
  <2>1. \A t \in pending_txs : Paid(t)'
    BY <1>1, PaidKept
  <2> QED BY <1>1, <2>1 DEF TrackInv, Sound
<1> QED BY <1>8, <1>9, <1>10, <1>11, <1>12 DEF TrackInv

-----------------------------------------------------------------------------
\* What the wallet builds

\* Fees are numbers, and the estimate for one input pays for a transfer.
LEMMA FeesAreNat ==
    /\ \A n \in Nat : EstimateFee(n, 1) \in Nat
    /\ EstimateFee(1, 2) \in Nat /\ RegistrationFee \in Nat /\ RotationFee \in Nat
    /\ \A fee \in Fees : /\ FeeOr(fee, EstimateFee(1, 2)) \in Nat
                        /\ FeeOr(fee, RegistrationFee) \in Nat
                        /\ FeeOr(fee, RotationFee) \in Nat
<1>1. \A x \in Nat : x * fee_rate \in Nat
  BY WalletAssumption
<1>2. \A n \in Nat : 50 + n * (2144 + 2144 + 320 + 40) + 1 * 80 \in Nat
  OBVIOUS
<1>3. \A n \in Nat : EstimateFee(n, 1) \in Nat
  BY <1>1, <1>2 DEF EstimateFee
<1>4. EstimateFee(1, 2) \in Nat /\ RegistrationFee \in Nat /\ RotationFee \in Nat
  BY WalletAssumption DEF EstimateFee, RegistrationFee, RotationFee
<1> QED BY <1>3, <1>4, WalletAssumption DEF FeeOr

LEMMA SingleOutput ==
    ASSUME NEW o \in Outputs
    PROVE  /\ DOMAIN << o >> = {1} /\ << o >>[1] = o /\ Len(<< o >>) = 1
           /\ Value(<< o >>) = o.value
<1>1. DOMAIN << o >> = {1} /\ << o >>[1] = o /\ o.value \in Nat
  BY DEF Outputs
<1> DEFINE v == Values(<< o >>)
<1>2. v[1] = o.value
  BY <1>1 DEF Values
<1> HIDE DEF v
<1>3. {1} = {} \cup {1}
  OBVIOUS
<1>4. SumFunctionOnSet(v, {} \cup {1}) = v[1] + SumFunctionOnSet(v, {})
  BY <1>1, <1>2, SumAdd, FS_EmptySet
<1>5. SumFunctionOnSet(v, {1}) = o.value
  BY <1>1, <1>2, <1>3, <1>4, SumEmpty
<1> QED BY <1>1, <1>5 DEF Value, v

\* An output with the change after it
Outs(o, c) == << o >> \o Change(c)

LEMMA WithChange ==
    ASSUME NEW o \in Outputs, NEW c \in Nat
    PROVE  /\ 1 \in DOMAIN Outs(o, c) /\ Outs(o, c)[1] = o
           /\ DOMAIN Outs(o, c) \subseteq {1, 2} /\ Len(Outs(o, c)) \in 1 .. 2
           /\ \A i \in DOMAIN Outs(o, c) : /\ Outs(o, c)[i] \in Outputs
                                           /\ i # 1 => Outs(o, c)[i].value >= DUST_THRESHOLD
           /\ Value(Outs(o, c)) <= o.value + c
<1>1. CASE c >= DUST_THRESHOLD
  <2> DEFINE d == Output(c, 0, TRUE)
             s == << o >> \o << d >>
  <2>1. d \in Outputs /\ d.value = c /\ Outs(o, c) = s
    BY <1>1 DEF Output, Outputs, Change, Outs
  <2> HIDE DEF d
  <2>2. DOMAIN s = {1, 2} /\ s[1] = o /\ s[2] = d /\ Len(s) = 2
    <3>1. << o >> \in Seq(Outputs) /\ << d >> \in Seq(Outputs) /\ Len(<< o >>) = 1 /\ Len(<< d >>) = 1
      BY <2>1
    <3>2. s \in Seq(Outputs) /\ Len(s) = 2 /\ s[1] = << o >>[1] /\ s[2] = << d >>[1]
      BY <3>1
    <3>3. DOMAIN s = 1 .. 2
      BY <3>2
    <3> QED BY <3>2, <3>3
  <2> HIDE DEF s
  <2> DEFINE v == Values(s)
  <2>3. v[1] = o.value /\ v[2] = c /\ o.value \in Nat
    BY <2>1, <2>2 DEF Values, Outputs
  <2>4. \A x \in {1} \cup {2} : v[x] \in Nat
    BY <2>3
  <2> HIDE DEF v
  <2>5. {1} \cup {2} = {1, 2} /\ {} \cup {1} = {1} /\ 2 \notin {1}
    OBVIOUS
  <2>5a. IsFiniteSet({1})
    BY FS_Singleton, Zenon
  <2>6. SumFunctionOnSet(v, {} \cup {1}) = v[1] + SumFunctionOnSet(v, {})
    BY <2>3, SumAdd, FS_EmptySet
  <2>7. SumFunctionOnSet(v, {1} \cup {2}) = v[2] + SumFunctionOnSet(v, {1})
    BY <2>4, <2>5, <2>5a, SumAdd
  <2>8. SumFunctionOnSet(v, {1}) = o.value
    BY <2>3, <2>5, <2>6, SumEmpty
  <2>9. SumFunctionOnSet(v, {1, 2}) = o.value + c
    <3>1. SumFunctionOnSet(v, {1, 2}) = SumFunctionOnSet(v, {1} \cup {2})
      BY <2>5, Zenon
    <3>2. SumFunctionOnSet(v, {1, 2}) = c + o.value
      BY <2>3, <2>7, <2>8, <3>1, Zenon
    <3>3. c + o.value = o.value + c
      BY <2>3
    <3> QED BY <3>2, <3>3, Zenon
  <2>10. Value(s) = o.value + c
    BY <2>2, <2>9 DEF Value, v
  <2>11. \A i \in DOMAIN s : s[i] \in Outputs /\ (i # 1 => s[i].value >= DUST_THRESHOLD)
    BY <1>1, <2>1, <2>2
  <2>12. Value(Outs(o, c)) <= o.value + c
    BY <2>1, <2>3, <2>10
  <2> QED BY <2>1, <2>2, <2>11, <2>12
<1>2. CASE ~ (c >= DUST_THRESHOLD)
  <2>1. Outs(o, c) = << o >>
    BY <1>2 DEF Change, Outs
  <2>2. o.value \in Nat
    BY DEF Outputs
  <2>3. DOMAIN << o >> = {1} /\ << o >>[1] = o /\ Value(<< o >>) = o.value /\ Len(<< o >>) = 1
    BY SingleOutput
  <2> DEFINE s == << o >>
  <2> HIDE DEF s
  <2>4. Outs(o, c) = s /\ DOMAIN s = {1} /\ s[1] = o /\ Value(s) = o.value /\ Len(s) = 1
    BY <2>1, <2>3 DEF s
  <2>5. Value(Outs(o, c)) <= o.value + c
    BY <2>2, <2>4
  <2> QED BY <2>4, <2>5
<1> QED BY <1>1, <1>2

\* A transaction for which the wallet signs with its own keys
LEMMA MakeKeepsTrack ==
    ASSUME FiniteInv, TrackInv, NEW type, NEW inputs \in SUBSET SpendableUtxos, NEW outputs,
           NEW fee \in Nat, NEW payload, Make(type, inputs, outputs, fee, payload),
           DOMAIN outputs \subseteq {1, 2}, Len(outputs) \in 1 .. 2,
           type \in {"TRANSFER", "STAKE"} => payload = 0,
           \A i \in DOMAIN outputs : outputs[i] \in Outputs,
           type # "UNSTAKE" => \A i \in DOMAIN outputs :
               outputs[i].value = 0 \/ outputs[i].value >= DUST_THRESHOLD,
           type = "STAKE" => \E i \in DOMAIN outputs :
               outputs[i].lock_epoch = current_epoch + STAKING_LOCK_EPOCHS,
           Total(inputs) >= Value(outputs) + fee
    PROVE  TrackInv'
<1> DEFINE tx == Built(type, inputs, outputs, fee, IF is_registered THEN batch ELSE None, None,
                       payload)
<1>1. /\ tx.hash = made + 1 /\ tx.type = type /\ tx.inputs = inputs /\ tx.outputs = outputs
      /\ tx.epoch = current_epoch /\ tx.fee = fee /\ tx.payload = payload
  BY DEF Built
<1>2. /\ made < MaxTxs /\ made' = made + 1 /\ (Submit(tx) \/ Unused)
      /\ UNCHANGED <<current_epoch, epoch, chain_utxos, applied, readded>>
  BY DEF Make, MayBuild
<1> HIDE DEF tx
<1>3. Sound(tx) /\ Paid(tx)
  <2>1. current_epoch \in Nat
    BY DEF TrackInv, Numbered
  <2> QED BY <1>1, <2>1 DEF Sound, Paid
<1>4. CASE Submit(tx)
  BY <1>1, <1>2, <1>3, <1>4, SubmitKeepsTrack
<1>5. CASE Unused
  <2>1. made' \in made .. MaxTxs /\ epoch \in Nat /\ current_epoch \in Nat
    BY <1>2, WalletAssumption DEF TrackInv, Numbered
  <2> QED BY <1>2, <1>5, <2>1, FrameKeepsTrack DEF Unused
<1> QED BY <1>2, <1>4, <1>5

\* The sum of what is selected is a number.
LEMMA TotalNat ==
    ASSUME FiniteInv, TrackInv, NEW S \in SUBSET SpendableUtxos
    PROVE  Total(S) \in Nat
<1>1. IsFiniteSet(S)
  BY SpendableFinite
<1>2. \A k \in S : Values(utxos)[k] \in Nat
  BY DEF SpendableUtxos, Values, TrackInv, Agreement, UTXOs
<1> QED BY <1>1, <1>2, SumNat DEF Total

\* A transaction whose first output is o, with the change after it
LEMMA PayKeepsTrack ==
    ASSUME FiniteInv, TrackInv, NEW type, type # "UNSTAKE", NEW S \in SUBSET SpendableUtxos,
           NEW o \in Outputs, o.value = 0 \/ o.value >= DUST_THRESHOLD,
           type = "STAKE" => o.lock_epoch = current_epoch + STAKING_LOCK_EPOCHS,
           NEW c \in Nat, NEW fee \in Nat, o.value + c + fee <= Total(S),
           NEW payload, type \in {"TRANSFER", "STAKE"} => payload = 0,
           Make(type, S, << o >> \o Change(c), fee, payload)
    PROVE  TrackInv'
<1>1. Make(type, S, Outs(o, c), fee, payload)
  BY DEF Outs
<1>2. /\ 1 \in DOMAIN Outs(o, c) /\ Outs(o, c)[1] = o
      /\ DOMAIN Outs(o, c) \subseteq {1, 2} /\ Len(Outs(o, c)) \in 1 .. 2
      /\ \A i \in DOMAIN Outs(o, c) : /\ Outs(o, c)[i] \in Outputs
                                      /\ i # 1 => Outs(o, c)[i].value >= DUST_THRESHOLD
      /\ Value(Outs(o, c)) <= o.value + c
  BY WithChange
<1> DEFINE outs == Outs(o, c)
<1>3. Value(outs) \in Nat
  <2>1. DOMAIN outs \in SUBSET (1 .. 2)
    BY <1>2
  <2>2. IsFiniteSet(DOMAIN outs)
    BY <2>1, FS_Interval, FS_Subset
  <2>3. \A i \in DOMAIN outs : Values(outs)[i] \in Nat
    BY <1>2 DEF Values, Outputs
  <2> QED BY <2>2, <2>3, SumNat DEF Value
<1>4. o.value \in Nat /\ Total(S) \in Nat
  BY TotalNat DEF Outputs
<1>5. Total(S) >= Value(outs) + fee
  BY <1>2, <1>3, <1>4
<1>6. \A i \in DOMAIN outs : outs[i].value = 0 \/ outs[i].value >= DUST_THRESHOLD
  BY <1>2
<1>7. type = "STAKE" => \E i \in DOMAIN outs :
         outs[i].lock_epoch = current_epoch + STAKING_LOCK_EPOCHS
  BY <1>2
<1> HIDE DEF outs
<1> QED BY <1>1, <1>2, <1>4, <1>5, <1>6, <1>7, MakeKeepsTrack DEF outs

\* A registration or rotation spends one output.
LEMMA AuthTxKeepsTrack ==
    ASSUME FiniteInv, TrackInv, NEW type \in {"REGISTER", "ROTATE_AUTH"}, NEW S \in SUBSET SpendableUtxos,
           NEW k \in S, NEW fee \in Nat, Selected(S, fee), NEW root, NEW data, NEW payload,
           Submit(Built(type, {k}, << Output(0, 0, TRUE) >> \o Change(Total(S) - fee),
                        fee, root, data, payload)),
           MayBuild, UNCHANGED <<current_epoch, epoch, chain_utxos, applied, readded>>
    PROVE  TrackInv'
<1> DEFINE o == Output(0, 0, TRUE)
           c == Total(S) - fee
           tx == Built(type, {k}, Outs(o, c), fee, root, data, payload)
<1>1. /\ tx.hash = made + 1 /\ tx.type = type /\ tx.inputs = {k} /\ tx.outputs = Outs(o, c)
      /\ tx.epoch = current_epoch /\ tx.fee = fee
  BY DEF Built
<1>2. o \in Outputs /\ o.value = 0
  BY DEF Output, Outputs
<1>3. c \in Nat
  BY TotalNat DEF Selected
<1>4. Submit(tx) /\ made < MaxTxs /\ made' = made + 1
  BY DEF Outs, MayBuild
<1> HIDE DEF tx, o, c
<1>5. /\ 1 \in DOMAIN Outs(o, c) /\ Outs(o, c)[1] = o
      /\ DOMAIN Outs(o, c) \subseteq {1, 2} /\ Len(Outs(o, c)) \in 1 .. 2
      /\ \A i \in DOMAIN Outs(o, c) : /\ Outs(o, c)[i] \in Outputs
                                      /\ i # 1 => Outs(o, c)[i].value >= DUST_THRESHOLD
  BY <1>2, <1>3, WithChange
<1>6. current_epoch \in Nat
  BY DEF TrackInv, Numbered
<1>7. \A i \in DOMAIN Outs(o, c) : Outs(o, c)[i].value = 0 \/ Outs(o, c)[i].value >= DUST_THRESHOLD
  BY <1>2, <1>5
<1>8. Sound(tx) /\ Paid(tx)
  BY <1>1, <1>5, <1>6, <1>7 DEF Sound, Paid
<1> QED BY <1>1, <1>4, <1>8, SubmitKeepsTrack

LEMMA TransferKeepsTrack ==
    ASSUME FiniteInv, TrackInv, NEW amount \in Amounts, NEW mine \in BOOLEAN, NEW named \in Fees,
           NEW S \in SUBSET SpendableUtxos, CreateTransfer(amount, mine, named, S)
    PROVE  TrackInv'
<1> DEFINE fee == FeeOr(named, EstimateFee(1, 2))
           o == Output(amount, 0, mine)
           c == Total(S) - amount - fee
<1>1. amount \in Nat /\ fee \in Nat /\ Total(S) \in Nat
  BY WalletAssumption, TotalNat, FeesAreNat
<1>2. Total(S) >= amount + fee /\ amount >= DUST_THRESHOLD
  BY DEF CreateTransfer, Selected
<1>3. Make("TRANSFER", S, << o >> \o Change(c), fee, 0)
  BY DEF CreateTransfer
<1> HIDE DEF fee
<1>4. o \in Outputs /\ o.value = amount
  BY <1>1 DEF Output, Outputs
<1>5. c \in Nat /\ amount + c + fee <= Total(S)
  BY <1>1, <1>2
<1> HIDE DEF o, c
<1> QED BY <1>1, <1>2, <1>3, <1>4, <1>5, PayKeepsTrack

LEMMA StakeKeepsTrack ==
    ASSUME FiniteInv, TrackInv, NEW amount \in Amounts, NEW S \in SUBSET SpendableUtxos,
           CreateStake(amount, S)
    PROVE  TrackInv'
<1> DEFINE fee == EstimateFee(1, 2)
           o == Output(amount, current_epoch + STAKING_LOCK_EPOCHS, TRUE)
           c == Total(S) - amount - fee
<1>1. amount \in Nat /\ fee \in Nat /\ Total(S) \in Nat
  BY WalletAssumption, TotalNat, FeesAreNat
<1>2. Total(S) >= amount + fee /\ amount >= DUST_THRESHOLD
  BY DEF CreateStake, Selected
<1>3. Make("STAKE", S, << o >> \o Change(c), fee, 0)
  BY DEF CreateStake
<1> HIDE DEF fee
<1>4. o \in Outputs /\ o.value = amount /\ o.lock_epoch = current_epoch + STAKING_LOCK_EPOCHS
  BY <1>1, WalletAssumption DEF Output, Outputs, TrackInv, Numbered
<1>5. c \in Nat /\ amount + c + fee <= Total(S)
  BY <1>1, <1>2
<1> HIDE DEF o, c
<1> QED BY <1>1, <1>2, <1>3, <1>4, <1>5, PayKeepsTrack

LEMMA DataKeepsTrack ==
    ASSUME FiniteInv, TrackInv, NEW payload, NEW named \in Fees, NEW S \in SUBSET SpendableUtxos,
           CreateDataTx(payload, named, S)
    PROVE  TrackInv'
<1> DEFINE fee == FeeOr(named, EstimateFee(1, 2))
           o == Output(0, 0, TRUE)
           c == Total(S) - fee
<1>1. fee \in Nat /\ Total(S) \in Nat
  BY TotalNat, FeesAreNat
<1>2. Total(S) >= fee
  BY DEF CreateDataTx, Selected
<1>3. Make("DATA", S, << o >> \o Change(c), fee, payload)
  BY DEF CreateDataTx
<1> HIDE DEF fee
<1>4. o \in Outputs /\ o.value = 0
  BY DEF Output, Outputs
<1>5. c \in Nat /\ 0 + c + fee <= Total(S)
  BY <1>1, <1>2
<1> HIDE DEF o, c
<1> QED BY <1>1, <1>3, <1>4, <1>5, PayKeepsTrack

LEMMA UnstakeKeepsTrack ==
    ASSUME FiniteInv, TrackInv, CreateUnstake
    PROVE  TrackInv'
<1> DEFINE S == {k \in SpendableUtxos : utxos[k].lock_epoch > 0}
           fee == EstimateFee(Cardinality(S), 1)
           o == Output(Total(S) - fee, 0, TRUE)
<1>1. S \in SUBSET SpendableUtxos
  OBVIOUS
<1>2. Total(S) >= fee /\ Make("UNSTAKE", S, << o >>, fee, 0)
  BY DEF CreateUnstake
<1> HIDE DEF S
<1>3. Total(S) \in Nat /\ fee \in Nat
  <2>1. IsFiniteSet(S)
    BY <1>1, SpendableFinite
  <2>2. Cardinality(S) \in Nat
    BY <2>1, FS_CardinalityType
  <2> QED BY <1>1, <2>2, TotalNat, FeesAreNat
<1> HIDE DEF fee
<1>4. o \in Outputs /\ o.value = Total(S) - fee
  BY <1>2, <1>3 DEF Output, Outputs
<1> HIDE DEF o
<1>5. DOMAIN << o >> = {1} /\ << o >>[1] = o /\ Value(<< o >>) = o.value /\ Len(<< o >>) = 1
  BY <1>4, SingleOutput
<1> DEFINE outs == << o >>
<1> HIDE DEF outs
<1>6. /\ DOMAIN outs \subseteq {1, 2} /\ \A i \in DOMAIN outs : outs[i] \in Outputs
      /\ Len(outs) \in 1 .. 2
      /\ Total(S) >= Value(outs) + fee /\ Make("UNSTAKE", S, outs, fee, 0)
  <2>1. DOMAIN outs = {1} /\ outs[1] = o /\ Value(outs) = o.value /\ Len(outs) = 1
    BY <1>5 DEF outs
  <2>2. Make("UNSTAKE", S, outs, fee, 0)
    BY <1>2 DEF outs
  <2> QED BY <1>3, <1>4, <2>1, <2>2
<1> QED BY <1>1, <1>3, <1>6, MakeKeepsTrack

LEMMA RegistrationKeepsTrack ==
    ASSUME FiniteInv, TrackInv, NEW named \in Fees, NEW S \in SUBSET SpendableUtxos,
           CreateRegistrationTx(named, S)
    PROVE  TrackInv'
<1> DEFINE fee == FeeOr(named, RegistrationFee)
<1>1. /\ Selected(S, fee) /\ MayBuild /\ fee \in Nat
      /\ UNCHANGED <<current_epoch, epoch, chain_utxos, applied, readded>>
  BY FeesAreNat DEF CreateRegistrationTx
<1>2. CASE Unused
  <2>1. made' \in made .. MaxTxs /\ epoch \in Nat /\ current_epoch \in Nat
    BY <1>1, WalletAssumption DEF TrackInv, Numbered, MayBuild
  <2> QED BY <1>1, <1>2, <2>1, FrameKeepsTrack DEF Unused
<1>3. ASSUME NEW k \in Largest(S),
             Submit(Built("REGISTER", {k}, << Output(0, 0, TRUE) >> \o Change(Total(S) - fee),
                          fee, None, batch, 96))
      PROVE  TrackInv'
  <2>1. k \in S
    BY DEF Largest
  <2> HIDE DEF fee
  <2> QED BY <1>1, <1>3, <2>1, AuthTxKeepsTrack
<1> QED BY <1>2, <1>3 DEF CreateRegistrationTx

LEMMA RotationKeepsTrack ==
    ASSUME FiniteInv, TrackInv, NEW named \in Fees, CreateRotationTx(named)
    PROVE  TrackInv'
<1> DEFINE fee == FeeOr(named, RotationFee)
<1>1. fee \in Nat /\ UNCHANGED <<current_epoch, epoch, chain_utxos, applied, readded>>
  BY FeesAreNat DEF CreateRotationTx
<1>2. CASE Unused /\ (made' = made \/ MayBuild)
  <2>1. made' \in made .. MaxTxs /\ epoch \in Nat /\ current_epoch \in Nat
    BY <1>2, WalletAssumption DEF TrackInv, Numbered, MayBuild
  <2> QED BY <1>1, <1>2, <2>1, FrameKeepsTrack DEF Unused
<1>3. ASSUME NEW S \in SUBSET SpendableUtxos, Selected(S, fee), MayBuild,
             NEW k \in Largest(S),
             Submit(Built("ROTATE_AUTH", {k},
                          << Output(0, 0, TRUE) >> \o Change(Total(S) - fee),
                          fee, batch, batch + 1, 32))
      PROVE  TrackInv'
  <2>1. k \in S
    BY DEF Largest
  <2> HIDE DEF fee
  <2> QED BY <1>1, <1>3, <2>1, AuthTxKeepsTrack
<1> QED BY <1>2, <1>3 DEF CreateRotationTx

LEMMA TrackStep == ASSUME FiniteInv, TrackInv, [Next]_vars PROVE TrackInv'
<1>1. ASSUME NEW amount \in Amounts, NEW mine \in BOOLEAN, NEW fee \in Fees,
             NEW S \in SUBSET SpendableUtxos, CreateTransfer(amount, mine, fee, S)
      PROVE  TrackInv'
  BY <1>1, TransferKeepsTrack
<1>2. ASSUME NEW amount \in Amounts, NEW S \in SUBSET SpendableUtxos, CreateStake(amount, S)
      PROVE  TrackInv'
  BY <1>2, StakeKeepsTrack
<1>3. CASE CreateUnstake
  BY <1>3, UnstakeKeepsTrack
<1>4. ASSUME NEW payload, NEW fee \in Fees, NEW S \in SUBSET SpendableUtxos,
             CreateDataTx(payload, fee, S)
      PROVE  TrackInv'
  BY <1>4, DataKeepsTrack
<1>5. ASSUME NEW fee \in Fees, NEW S \in SUBSET SpendableUtxos, CreateRegistrationTx(fee, S)
      PROVE  TrackInv'
  BY <1>5, RegistrationKeepsTrack
<1>6. ASSUME NEW fee \in Fees, CreateRotationTx(fee) PROVE TrackInv'
  BY <1>6, RotationKeepsTrack
<1>7. ASSUME NEW txs \in SUBSET network, ApplyBlock(txs) PROVE TrackInv'
  BY <1>7, BlockKeepsTrack
<1>8. ASSUME NEW k \in DOMAIN chain_utxos, AddUtxo(k) PROVE TrackInv'
  BY <1>8, AddUtxoKeepsTrack
<1>9. ASSUME NEW tx \in applied \cap pending_txs, ConfirmTransaction(tx) PROVE TrackInv'
  BY <1>9, ConfirmKeepsTrack
<1>10. CASE /\ UNCHANGED <<utxos, pending_txs, chain_utxos, applied, made, readded>>
            /\ network' \subseteq network
            /\ \/ UNCHANGED <<epoch, current_epoch>>
               \/ epoch' = epoch + 1 /\ UNCHANGED current_epoch
               \/ epoch > current_epoch /\ current_epoch' = epoch /\ UNCHANGED epoch
  <2>1. /\ made' \in made .. MaxTxs /\ epoch' \in Nat /\ epoch' >= epoch
        /\ current_epoch' \in {current_epoch, epoch} /\ current_epoch' >= current_epoch
    BY <1>10, WalletAssumption DEF TrackInv, Numbered
  <2> QED BY <1>10, <2>1, FrameKeepsTrack
<1>11. ASSUME NEW tx \in network, Lose(tx) PROVE TrackInv'
  BY <1>10, <1>11 DEF Lose, walletVars
<1>12. CASE AdvanceEpoch
  BY <1>10, <1>12 DEF AdvanceEpoch, walletVars
<1>13. CASE MarkRegistered \/ ConfirmRotation \/ UNCHANGED vars
  BY <1>10, <1>13 DEF MarkRegistered, ConfirmRotation, vars, walletVars, chainVars
<1>14. CASE SyncEpoch
  BY <1>10, <1>14 DEF SyncEpoch, chainVars
<1> QED BY <1>1, <1>2, <1>3, <1>4, <1>5, <1>6, <1>7, <1>8, <1>9, <1>11, <1>12, <1>13, <1>14 DEF Next

LEMMA InitTrack == Init => TrackInv
<1> SUFFICES ASSUME Init PROVE TrackInv
  OBVIOUS
<1>1. DOMAIN utxos = {} /\ pending_txs = {} /\ applied = {} /\ network = {} /\ chain_utxos = Genesis
  BY DEF Init
<1>2. Numbered
  BY <1>1, WalletAssumption DEF Init, Numbered
<1> QED BY <1>1, <1>2, WalletAssumption DEF TrackInv, InputsUsed, Origins, Agreement

LEMMA TrackInvariant == Spec => []TrackInv
<1>1. FiniteInv /\ TrackInv /\ [Next]_vars => TrackInv'
  BY TrackStep
<1> QED BY <1>1, InitTrack, KeyInvariant, PTL DEF Spec

\* What the wallet thinks it owns follows the chain (Wallet.submit_transaction,
\* confirm_transaction, add_utxo), for any outputs, amounts and batches, however late
\* and however often it learns of the chain and whatever it builds, throws away or
\* loses; only outputs it was told of again after they were spent are excepted.
THEOREM WalletFollowsChain == Spec => []WalletTracksChain
<1>1. TrackInv => WalletTracksChain
  <2> SUFFICES ASSUME TrackInv PROVE WalletTracksChain
    OBVIOUS
  <2>1. \A k \in DOMAIN chain_utxos \ DOMAIN utxos :
          k \in DOMAIN Genesis \/ \E tx \in applied \cap pending_txs : k[1] = tx.hash
    <3> SUFFICES ASSUME NEW k \in DOMAIN chain_utxos \ DOMAIN utxos, k \notin DOMAIN Genesis
                 PROVE  \E tx \in applied \cap pending_txs : k[1] = tx.hash
      OBVIOUS
    <3>1. PICK tx \in applied : k \in OwnOutputs(tx)
      BY DEF TrackInv, Origins
    <3>2. tx \in pending_txs
      BY <3>1 DEF TrackInv, Origins
    <3>3. k[1] = tx.hash
      BY <3>1, OwnOutput
    <3> QED BY <3>2, <3>3
  <2> QED BY <2>1 DEF TrackInv, Agreement, WalletTracksChain
<1> QED BY <1>1, TrackInvariant, PTL

\* A transaction on its way stays valid until it expires or the registered root
\* changes (Wallet.select_utxos, submit_transaction against _validate_transfer):
\* its inputs cover its outputs and fee and, unless one was added again after a
\* spend, stay unspent and unlocked; with one input the estimated fee suffices.
THEOREM PaymentsStayValid == Spec => []TransfersStayValid
<1>1. FiniteInv /\ TrackInv => TransfersStayValid
  <2> SUFFICES ASSUME FiniteInv, TrackInv, NEW tx \in network, Recent(tx)
               PROVE  /\ tx.inputs \cap readded = {} => Spendable(tx)
                      /\ tx.type \notin {"REGISTER", "ROTATE_AUTH"} => Funded(tx)
                      /\ /\ tx.type \in {"TRANSFER", "STAKE"}
                         /\ Cardinality(tx.inputs) = 1 /\ tx.fee >= EstimateFee(1, 2)
                         => WellFormed(tx)
    BY DEF TransfersStayValid
  <2>1. tx \in pending_txs /\ tx \notin applied /\ Sound(tx) /\ Paid(tx)
    BY DEF TrackInv, Numbered
  <2>2. \A k \in tx.inputs : /\ k \in DOMAIN utxos /\ k \in DOMAIN chain_utxos
                             /\ utxos[k].value = chain_utxos[k].value /\ utxos[k].value \in Nat
    BY <2>1 DEF TrackInv, InputsUsed, Agreement, UTXOs
  <2>3. ASSUME tx.inputs \cap readded = {} PROVE Spendable(tx)
    <3> SUFFICES ASSUME NEW k \in tx.inputs
                 PROVE  ~chain_utxos[k].is_spent /\ chain_utxos[k].lock_epoch <= epoch
      BY <2>2 DEF Spendable
    <3>1. ~chain_utxos[k].is_spent /\ utxos[k].lock_epoch <= current_epoch
      BY <2>1, <2>3 DEF TrackInv, InputsUsed
    <3>2. utxos[k].lock_epoch = chain_utxos[k].lock_epoch /\ utxos[k].lock_epoch \in Nat
      BY <2>2 DEF TrackInv, Agreement, UTXOs
    <3> QED BY <3>1, <3>2 DEF TrackInv, Numbered
  <2>4. ChainValue(tx.inputs) = Total(tx.inputs)
    <3>1. tx.inputs \in SUBSET DOMAIN utxos
      BY <2>2
    <3>2. IsFiniteSet(tx.inputs)
      BY <3>1, FS_Subset DEF FiniteInv
    <3>3. \A k \in tx.inputs : /\ Values(utxos)[k] \in Nat
                               /\ Values(chain_utxos)[k] = Values(utxos)[k]
      BY <2>2 DEF Values
    <3> QED BY <3>2, <3>3, SumAgree DEF ChainValue, Total
  <2>5. tx.type \notin {"REGISTER", "ROTATE_AUTH"} => Funded(tx)
    BY <2>1, <2>4 DEF Paid, Funded
  <2>6. ASSUME tx.type \in {"TRANSFER", "STAKE"},
               Cardinality(tx.inputs) = 1, tx.fee >= EstimateFee(1, 2)
        PROVE  WellFormed(tx)
    <3>1. InputSize(tx) \in {4328, 4348}
      BY <2>6 DEF InputSize
    <3>2. Size(tx) \in Nat /\ Size(tx) <= 4548
      <4>1. Len(tx.outputs) \in {1, 2} /\ tx.payload = 0
        BY <2>1, <2>6 DEF Sound
      <4>2. PICK n \in {1, 2} : Len(tx.outputs) = n
        BY <4>1
      <4>3. PICK i \in {4328, 4348} : InputSize(tx) = i
        BY <3>1
      <4> QED BY <2>6, <4>1, <4>2, <4>3 DEF Size
    <3>3. EstimateFee(1, 2) = 4858 * fee_rate
      BY WalletAssumption DEF EstimateFee
    <3>4. Size(tx) * MIN_FEE_PER_BYTE <= 4858 * fee_rate
      <4> DEFINE z == Size(tx)
      <4>1. z \in Nat /\ z <= 4858 /\ MIN_FEE_PER_BYTE \in Nat /\ fee_rate \in Nat
            /\ MIN_FEE_PER_BYTE <= fee_rate
        BY <3>2, WalletAssumption, LimitsAssumption
      <4> HIDE DEF z
      <4>2. z * MIN_FEE_PER_BYTE <= 4858 * MIN_FEE_PER_BYTE
        BY <4>1
      <4> QED BY <4>1, <4>2 DEF z
    <3>5. tx.fee >= Size(tx) * MIN_FEE_PER_BYTE
      BY <2>1, <2>6, <3>2, <3>3, <3>4, WalletAssumption DEF Sound
    <3>6. Size(tx) <= MAX_TX_SIZE /\ Cardinality(tx.inputs) <= MAX_INPUTS
      BY <2>6, <3>2, WalletAssumption, LimitsAssumption
    <3> HIDE DEF Size
    <3> QED BY <2>1, <2>6, <3>5, <3>6, WalletAssumption DEF Sound, WellFormed, Recent, TrackInv, Numbered
  <2> QED BY <2>3, <2>5, <2>6
<1> QED BY <1>1, TrackInvariant, KeyInvariant, PTL
=============================================================================
