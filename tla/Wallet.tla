------------------------------- MODULE Wallet -------------------------------
(***************************************************************************)
(* A wallet and the chain it pays on: KeyManager with its TemporalAuthTree *)
(* (one-time WOTS+ keys in batches, two of each batch reserved for the     *)
(* rotation to the next), Wallet, which selects outputs, builds, signs and *)
(* tracks transactions, and of the chain the outputs at the wallet's       *)
(* address and the auth root registered for it.                            *)
(*                                                                         *)
(* The wallet learns what the chain did later, call by call, and in any    *)
(* order: outputs it received, confirmed transactions, the epoch, its      *)
(* registration and its rotation.  Transactions on their way may be lost.  *)
(*                                                                         *)
(* Abstractions.  A batch is its number in the seed chain and stands for   *)
(* its auth root, a key is its batch and index, a transaction hash is a    *)
(* number.  Timestamps make every transaction a message of its own.  Whom  *)
(* a transfer pays other than the wallet itself is left out, and of data   *)
(* only the length and an auth root are kept.  The driver hands over a     *)
(* transaction the wallet made before it asks for another one, or never,   *)
(* and tells it, at any time and as often as it likes, of outputs that are *)
(* or were on the chain.                                                   *)
(***************************************************************************)
EXTENDS Integers, Sequences, FiniteSets, Functions

CONSTANTS
    None,                  \* Python's None
    Genesis,               \* outputs the address has received, by outpoint
    Amounts,               \* amounts to transfer or stake
    Fees,                  \* fees the caller names, None for the estimate
    Payloads,              \* lengths of data to store
    USABLE_KEYS,           \* keys of a batch for transactions (1022)
    RESERVED_ROTATION,     \* keys of a batch for its rotation (2)
    DUST_THRESHOLD, STAKING_LOCK_EPOCHS,
    MAX_INPUTS, MAX_TX_SIZE, MIN_FEE_PER_BYTE,
    fee_rate,              \* the wallet's config.fee_rate
    MaxTxs, MaxEpoch,      \* bounds: transactions made, the last epoch,
    MaxReadded             \* and spent outputs AddUtxo adds again

Outpoints == Nat \X Nat
Outputs == [value : Nat, lock_epoch : Nat, mine : BOOLEAN]
UTXOs == [value : Nat, lock_epoch : Nat, is_spent : BOOLEAN]
TxType == {"TRANSFER", "STAKE", "UNSTAKE", "DATA", "REGISTER", "ROTATE_AUTH"}

\* root: the auth root the proofs of the inputs lead to; data: the auth root in
\* the first output's data; payload: the length of that data
Transactions ==
    [hash : Nat, type : TxType, inputs : SUBSET Outpoints, outputs : Seq(Outputs),
     epoch : Nat, fee : Nat, root : Nat \cup {None}, data : Nat \cup {None}, payload : Nat]

Keys == [kind : {"tree", "legacy", "registration"}, batch : Nat, index : Nat]

ASSUME WalletAssumption ==
    /\ USABLE_KEYS \in Nat /\ RESERVED_ROTATION \in Nat /\ DUST_THRESHOLD \in Nat
    /\ STAKING_LOCK_EPOCHS \in Nat \ {0, 1} /\ fee_rate \in Nat \ {0}
    /\ MAX_INPUTS \in Nat /\ MAX_TX_SIZE \in Nat /\ MIN_FEE_PER_BYTE \in Nat
    /\ MaxTxs \in Nat /\ MaxEpoch \in Nat /\ MaxReadded \in Nat
    /\ Amounts \subseteq Nat /\ Fees \subseteq (Nat \ {0}) \cup {None} /\ Payloads \subseteq Nat
    /\ None \notin Nat
    /\ \A k \in DOMAIN Genesis : Genesis[k] \in UTXOs /\ k \in Outpoints

\* They are outputs of other transactions than the ones the wallet makes.
ASSUME GenesisAssumption == \A k \in DOMAIN Genesis : k[1] \notin 1 .. MaxTxs

\* A transaction of one input fits the limits (16 inputs, 65536 bytes), and the
\* wallet's fee rate (10) is no lower than the chain's minimum (1).
ASSUME LimitsAssumption ==
    MAX_INPUTS >= 1 /\ MAX_TX_SIZE >= 4548 /\ MIN_FEE_PER_BYTE <= fee_rate

VARIABLES
    \* KeyManager and its TemporalAuthTree
    is_registered,    \* _is_registered
    batch,            \* _batch_number
    next_batch,       \* the batch of _next_auth_tree, or None
    key_index,        \* _auth_tree._key_index
    rotation_index,   \* _auth_tree._rotation_index
    legacy_index,     \* key_index of the legacy key pairs
    \* Wallet
    utxos,            \* outpoint -> UTXO
    pending_txs,      \* submitted and not confirmed to the wallet
    current_epoch,
    \* the chain
    epoch,
    chain_utxos,      \* outputs at the wallet's address
    auth_root,        \* AuthRegistry's root of the address, or None
    network,          \* submitted, neither applied nor lost
    applied,          \* applied transactions
    \* history
    made,             \* how many transactions were built
    signed,           \* which key signed which transaction
    readded           \* outputs added to the wallet after a transaction spent them

keyVars == <<is_registered, batch, next_batch, key_index, rotation_index, legacy_index>>
walletVars == <<utxos, pending_txs, current_epoch>>
chainVars == <<epoch, chain_utxos, auth_root, network, applied>>
vars == <<keyVars, walletVars, chainVars, made, signed, readded>>

Init ==
    /\ is_registered = FALSE
    /\ batch = 0 /\ next_batch = None
    /\ key_index = 0 /\ rotation_index = 0 /\ legacy_index = 0
    /\ utxos = <<>> /\ pending_txs = {} /\ current_epoch = 0
    /\ epoch = 0
    /\ chain_utxos = Genesis
    /\ auth_root = None
    /\ network = {} /\ applied = {}
    /\ made = 0 /\ signed = {} /\ readded = {}

-----------------------------------------------------------------------------
\* Signing

Key(kind, index) == [kind |-> kind, batch |-> batch, index |-> index]
Sign(keys) == signed' = signed \cup (keys \X {made + 1})

\* TemporalAuthTree.sign for each of n inputs.  When the usable keys run out in
\* the middle, the call raises and the keys already used stay used.
\* Mutant: they are given back.
TemporalSignOrRestore(n) ==
    /\ key_index' = IF key_index + n <= USABLE_KEYS THEN key_index + n ELSE key_index
    /\ Sign({Key("tree", i) : i \in {j \in key_index .. key_index + n - 1 : j < USABLE_KEYS}})
    /\ UNCHANGED legacy_index
TemporalSign(n) ==
    /\ key_index' = IF key_index + n <= USABLE_KEYS THEN key_index + n ELSE USABLE_KEYS
    /\ Sign({Key("tree", i) : i \in {j \in key_index .. key_index + n - 1 : j < USABLE_KEYS}})
    /\ UNCHANGED legacy_index

\* Each key pair is generated when it is needed and used at once.
LegacySign(n) ==
    /\ legacy_index' = legacy_index + n
    /\ Sign({Key("legacy", i) : i \in legacy_index .. legacy_index + n - 1})
    /\ UNCHANGED key_index

SignInputs(n) == IF is_registered THEN TemporalSign(n) ELSE LegacySign(n)
Signable(n) == is_registered => key_index + n <= USABLE_KEYS

SignRotation ==
    /\ rotation_index < RESERVED_ROTATION
    /\ rotation_index' = rotation_index + 1
    /\ Sign({Key("tree", USABLE_KEYS + rotation_index)})

-----------------------------------------------------------------------------
\* Building transactions

\* Mutant: locked outputs are spendable.
SpendableAnyLock == {k \in DOMAIN utxos : ~utxos[k].is_spent}
SpendableUtxos ==
    {k \in DOMAIN utxos : ~utxos[k].is_spent /\ utxos[k].lock_epoch <= current_epoch}

Values(set) == [k \in DOMAIN set |-> set[k].value]
Total(S) == SumFunctionOnSet(Values(utxos), S)

\* Largest first, until the amount needed is reached or nothing is left
Selected(S, needed) ==
    /\ S \subseteq SpendableUtxos
    /\ \A k \in S, j \in SpendableUtxos \ S : utxos[k].value >= utxos[j].value
    /\ \A k \in S : (\A j \in S : utxos[k].value <= utxos[j].value)
                       => Total(S \ {k}) < needed
    /\ Total(S) >= needed

Output(value, lock, mine) == [value |-> value, lock_epoch |-> lock, mine |-> mine]
Change(value) == IF value >= DUST_THRESHOLD THEN << Output(value, 0, TRUE) >> ELSE << >>

\* _estimate_fee, for signatures, public keys and proofs of 2144 + 2144 + 320 bytes
EstimateFee(num_inputs, num_outputs) ==
    (50 + num_inputs * (2144 + 2144 + 320 + 40) + num_outputs * 80) * fee_rate
RegistrationFee == (50 + 4400 + 80 + 128) * fee_rate
RotationFee == (50 + 4400 + 80 + 64) * fee_rate

FeeOr(fee, estimate) == IF fee = None THEN estimate ELSE fee

Built(type, inputs, outputs, fee, root, data, payload) ==
    [hash |-> made + 1, type |-> type, inputs |-> inputs, outputs |-> outputs,
     epoch |-> current_epoch, fee |-> fee, root |-> root, data |-> data, payload |-> payload]

\* spend_utxo for the outputs in S
Spent(known, S) ==
    [k \in DOMAIN known |-> IF k \in S THEN [known[k] EXCEPT !.is_spent = TRUE] ELSE known[k]]

\* submit_transaction, and the transaction is broadcast
Submit(tx) ==
    /\ pending_txs' = pending_txs \cup {tx}
    /\ utxos' = Spent(utxos, tx.inputs)
    /\ network' = network \cup {tx}

Unused == UNCHANGED <<pending_txs, utxos, network>>

MayBuild == made < MaxTxs /\ made' = made + 1

\* A transaction signed with the wallet's next keys, submitted or thrown away
Make(type, inputs, outputs, fee, payload) ==
    /\ MayBuild
    /\ SignInputs(Cardinality(inputs))
    /\ \/ /\ Signable(Cardinality(inputs))
          /\ Submit(Built(type, inputs, outputs, fee,
                          IF is_registered THEN batch ELSE None, None, payload))
       \/ Unused
    /\ UNCHANGED <<is_registered, batch, next_batch, rotation_index, current_epoch,
                   epoch, chain_utxos, auth_root, applied, readded>>

\* The fee is estimated for one input, however many are selected.
CreateTransfer(amount, mine, named, S) ==
    LET fee == FeeOr(named, EstimateFee(1, 2))
    IN  /\ amount >= DUST_THRESHOLD
        /\ Selected(S, amount + fee)
        /\ Make("TRANSFER", S, << Output(amount, 0, mine) >> \o Change(Total(S) - amount - fee),
                fee, 0)

CreateStake(amount, S) ==
    LET fee == EstimateFee(1, 2)
    IN  /\ amount >= DUST_THRESHOLD
        /\ Selected(S, amount + fee)
        /\ Make("STAKE", S,
                << Output(amount, current_epoch + STAKING_LOCK_EPOCHS, TRUE) >>
                    \o Change(Total(S) - amount - fee), fee, 0)

\* A fee above the staked value makes signing_hash raise: no 64-bit encoding
CreateUnstake ==
    LET S == {k \in SpendableUtxos : utxos[k].lock_epoch > 0}
        fee == EstimateFee(Cardinality(S), 1)
    IN  /\ S # {}
        /\ Total(S) >= fee
        /\ Make("UNSTAKE", S, << Output(Total(S) - fee, 0, TRUE) >>, fee, 0)

CreateDataTx(payload, named, S) ==
    LET fee == FeeOr(named, EstimateFee(1, 2))
    IN  /\ payload <= 1000
        /\ Selected(S, fee)
        /\ Make("DATA", S, << Output(0, 0, TRUE) >> \o Change(Total(S) - fee), fee, payload)

\* The first of the selected outputs
Largest(S) == {k \in S : \A j \in S : utxos[k].value >= utxos[j].value}

\* Only the first selected output is spent; the change is of all of them.  The
\* registration key is derived from the master seed, the same each time.
CreateRegistrationTx(named, S) ==
    LET fee == FeeOr(named, RegistrationFee)
    IN  /\ ~is_registered
        /\ Selected(S, fee)
        /\ MayBuild
        /\ Sign({[kind |-> "registration", batch |-> 0, index |-> 0]})
        /\ \/ \E k \in Largest(S) :
                 Submit(Built("REGISTER", {k}, << Output(0, 0, TRUE) >> \o Change(Total(S) - fee),
                              fee, None, batch, 96))
           \/ Unused
        /\ UNCHANGED <<keyVars, current_epoch, epoch, chain_utxos, auth_root, applied, readded>>

\* Mutant: preparing again goes on from the prepared batch.
PrepareFurther == next_batch' = IF next_batch = None THEN batch + 1 ELSE next_batch + 1
PrepareRotation == next_batch' = batch + 1

\* The next batch is prepared before the funds and the rotation keys are
\* looked at: without either there is no transaction.
CreateRotationTx(named) ==
    LET fee == FeeOr(named, RotationFee)
    IN  /\ is_registered
        /\ PrepareRotation
        /\ \/ /\ Total(SpendableUtxos) < fee \/ rotation_index >= RESERVED_ROTATION
              /\ Unused /\ UNCHANGED <<rotation_index, made, signed>>
           \/ \E S \in SUBSET SpendableUtxos :
                 /\ Selected(S, fee)
                 /\ MayBuild
                 /\ SignRotation
                 /\ \/ \E k \in Largest(S) :
                          Submit(Built("ROTATE_AUTH", {k},
                                       << Output(0, 0, TRUE) >> \o Change(Total(S) - fee),
                                       fee, batch, batch + 1, 32))
                    \/ Unused
        /\ UNCHANGED <<is_registered, batch, key_index, legacy_index, current_epoch,
                       epoch, chain_utxos, auth_root, applied, readded>>

-----------------------------------------------------------------------------
\* The chain: TransactionValidator, AuthRegistry, apply_transaction

Value(outputs) == SumFunctionOnSet(Values(outputs), DOMAIN outputs)
ChainValue(S) == SumFunctionOnSet(Values(chain_utxos), S)

Recent(tx) == tx.epoch \in {epoch - 1, epoch}

Authorized(tx) ==
    CASE tx.type = "REGISTER" -> auth_root = None
      [] tx.type = "ROTATE_AUTH" -> auth_root # None /\ tx.root = auth_root
      [] OTHER -> auth_root # None => tx.root = auth_root

Spendable(tx) ==
    \A k \in tx.inputs :
        /\ k \in DOMAIN chain_utxos
        /\ ~chain_utxos[k].is_spent /\ chain_utxos[k].lock_epoch <= epoch

Funded(tx) == ChainValue(tx.inputs) >= Value(tx.outputs) + tx.fee

\* A rotation carries its proof in the public key; any other proof, of ten pairs
\* for a tree of 1024 keys, counts two bytes a pair.
InputSize(tx) ==
    32 + 4 + 2144 + 2144 + 4 + (CASE tx.type = "ROTATE_AUTH" -> 2 + 10 * 33 + 4
                                  [] tx.type # "ROTATE_AUTH" /\ tx.root # None -> 10 * 2
                                  [] OTHER -> 0)
Size(tx) ==
    36 + Cardinality(tx.inputs) * InputSize(tx)
       + Len(tx.outputs) * (8 + 64 + 8 + 2) + tx.payload

\* is_valid_structure, and what stakes and data need besides
WellFormed(tx) ==
    /\ Cardinality(tx.inputs) <= MAX_INPUTS
    /\ Size(tx) <= MAX_TX_SIZE
    /\ \A i \in DOMAIN tx.outputs :
          tx.outputs[i].value = 0 \/ tx.outputs[i].value >= DUST_THRESHOLD
    /\ tx.fee >= Size(tx) * MIN_FEE_PER_BYTE
    /\ tx.type = "STAKE" => \E i \in DOMAIN tx.outputs : tx.outputs[i].lock_epoch > epoch
    /\ tx.type = "DATA" => tx.payload > 0

ValidTransaction(tx) ==
    Recent(tx) /\ Authorized(tx) /\ Spendable(tx) /\ Funded(tx) /\ WellFormed(tx)

OwnOutputs(tx) == {<<tx.hash, i>> : i \in {j \in DOMAIN tx.outputs : tx.outputs[j].mine}}

\* add_utxo for the outputs at the wallet's address
Received(known, txs) ==
    [k \in DOMAIN known \cup UNION {OwnOutputs(tx) : tx \in txs} |->
        IF \E tx \in txs : k \in OwnOutputs(tx)
        THEN LET tx == CHOOSE t \in txs : k \in OwnOutputs(t)
             IN  [value |-> tx.outputs[k[2]].value, lock_epoch |-> tx.outputs[k[2]].lock_epoch,
                  is_spent |-> FALSE]
        ELSE known[k]]

\* The transactions of a block are all validated against the state before it
\* and then applied.  The mempool holds no two that spend the same output; a
\* second registration in a block is left to the model of the ledger.
ApplyBlock(txs) ==
    /\ txs # {}
    /\ \A tx \in txs : ValidTransaction(tx)
    /\ \A x, y \in txs : x # y => /\ x.inputs \cap y.inputs = {}
                                  /\ x.type # "REGISTER" \/ y.type # "REGISTER"
    /\ chain_utxos' = Received(Spent(chain_utxos, UNION {tx.inputs : tx \in txs}), txs)
    /\ LET roots == {tx.data : tx \in txs} \ {None}
       IN  auth_root' \in IF roots = {} THEN {auth_root} ELSE roots
    /\ network' = network \ txs
    /\ applied' = applied \cup txs
    /\ UNCHANGED <<keyVars, walletVars, epoch, made, signed, readded>>

\* A transaction is refused, expires or gets lost.
Lose(tx) ==
    /\ network' = network \ {tx}
    /\ UNCHANGED <<keyVars, walletVars, epoch, chain_utxos, auth_root, applied, made, signed, readded>>

AdvanceEpoch ==
    /\ epoch < MaxEpoch
    /\ epoch' = epoch + 1
    /\ UNCHANGED <<keyVars, walletVars, chain_utxos, auth_root, network, applied, made, signed, readded>>

-----------------------------------------------------------------------------
\* What the driver tells the wallet

\* add_utxo enters an output as unspent, whatever the wallet knew of it.
AlreadySpent(S) ==
    {k \in S : \/ k \in DOMAIN chain_utxos /\ chain_utxos[k].is_spent
               \/ k \in DOMAIN utxos /\ utxos[k].is_spent}
NoteReadded(S) == readded' = readded \cup AlreadySpent(S)

\* The callers add outputs that have a value.
AddUtxo(k) ==
    /\ chain_utxos[k].value > 0
    /\ Cardinality(readded \cup AlreadySpent({k})) <= MaxReadded
    /\ utxos' = [j \in DOMAIN utxos \cup {k} |->
                    IF j = k THEN [chain_utxos[k] EXCEPT !.is_spent = FALSE] ELSE utxos[j]]
    /\ NoteReadded({k})
    /\ UNCHANGED <<keyVars, pending_txs, current_epoch, chainVars, made, signed>>

\* Mutant: the outputs of a confirmed transaction are all taken for the wallet's.
ConfirmAllOutputs(tx) ==
    /\ pending_txs' = pending_txs \ {tx}
    /\ utxos' = Received(utxos, {[tx EXCEPT !.outputs =
                     [i \in DOMAIN tx.outputs |-> [tx.outputs[i] EXCEPT !.mine = TRUE]]]})
    /\ NoteReadded(OwnOutputs(tx))
    /\ UNCHANGED <<keyVars, current_epoch, chainVars, made, signed>>

\* An output added and spent before its transaction is confirmed is added again.
ConfirmTransaction(tx) ==
    /\ pending_txs' = pending_txs \ {tx}
    /\ utxos' = Received(utxos, {tx})
    /\ NoteReadded(OwnOutputs(tx))
    /\ UNCHANGED <<keyVars, current_epoch, chainVars, made, signed>>

MarkRegistered ==
    /\ ~is_registered /\ auth_root # None
    /\ is_registered' = TRUE
    /\ UNCHANGED <<batch, next_batch, key_index, rotation_index, legacy_index, walletVars,
                   chainVars, made, signed, readded>>

\* "Call AFTER on-chain confirmation": the registry holds another root than
\* the wallet's.  Without a prepared batch the call raises.
ConfirmRotation ==
    /\ auth_root \notin {None, batch}
    /\ next_batch # None
    /\ batch' = next_batch
    /\ next_batch' = None
    /\ key_index' = 0 /\ rotation_index' = 0
    /\ UNCHANGED <<is_registered, legacy_index, walletVars, chainVars, made, signed, readded>>

SyncEpoch ==
    /\ epoch > current_epoch
    /\ current_epoch' = epoch
    /\ UNCHANGED <<keyVars, utxos, pending_txs, chainVars, made, signed, readded>>

Next ==
    \/ \E amount \in Amounts, mine \in BOOLEAN, fee \in Fees, S \in SUBSET SpendableUtxos :
          CreateTransfer(amount, mine, fee, S)
    \/ \E amount \in Amounts, S \in SUBSET SpendableUtxos : CreateStake(amount, S)
    \/ CreateUnstake
    \/ \E payload \in Payloads, fee \in Fees, S \in SUBSET SpendableUtxos :
          CreateDataTx(payload, fee, S)
    \/ \E fee \in Fees, S \in SUBSET SpendableUtxos : CreateRegistrationTx(fee, S)
    \/ \E fee \in Fees : CreateRotationTx(fee)
    \/ \E txs \in SUBSET network : ApplyBlock(txs)
    \/ \E tx \in network : Lose(tx)
    \/ AdvanceEpoch
    \/ \E k \in DOMAIN chain_utxos : AddUtxo(k)
    \/ \E tx \in applied \cap pending_txs : ConfirmTransaction(tx)
    \/ MarkRegistered
    \/ ConfirmRotation
    \/ SyncEpoch

Spec == Init /\ [][Next]_vars

-----------------------------------------------------------------------------
\* Properties

\* Values keep their types: no key past its batch, no negative value.
WalletTypeOK ==
    /\ is_registered \in BOOLEAN
    /\ batch \in Nat /\ next_batch \in Nat \cup {None}
    /\ key_index \in 0 .. USABLE_KEYS /\ rotation_index \in 0 .. RESERVED_ROTATION
    /\ legacy_index \in Nat /\ current_epoch \in Nat /\ epoch \in Nat /\ made \in Nat
    /\ DOMAIN utxos \subseteq Outpoints /\ utxos \in [DOMAIN utxos -> UTXOs]
    /\ DOMAIN chain_utxos \subseteq Outpoints /\ chain_utxos \in [DOMAIN chain_utxos -> UTXOs]
    /\ auth_root \in Nat \cup {None}
    /\ pending_txs \cup network \cup applied \subseteq Transactions
    /\ signed \subseteq Keys \X Nat

\* A one-time key (registration apart) never signs two messages, through
\* signatures that fail half-way, repeated rotations and changes of the batch.
KeysSignOnce ==
    \A s, t \in signed : s[1] = t[1] /\ s[1].kind # "registration" => s = t

\* The root the chain holds for the address is the one of the wallet's batch or
\* of the batch it has prepared: the wallet can always follow the chain, also
\* when a rotation is tried twice or its confirmation is late.
ChainRootKnown == auth_root \in {None, batch, next_batch}

\* What the wallet thinks it owns follows the chain: it knows no output that is
\* not there, would spend none that is spent unless it was told of it again after
\* the spend, has given up only what a pending transaction spends, and misses
\* only outputs of transactions still to be confirmed to it.
WalletTracksChain ==
    /\ \A k \in DOMAIN utxos :
          /\ k \in DOMAIN chain_utxos
          /\ chain_utxos[k].is_spent /\ k \notin readded => utxos[k].is_spent
          /\ utxos[k].is_spent /\ ~chain_utxos[k].is_spent =>
                \E tx \in pending_txs : k \in tx.inputs
    /\ \A k \in DOMAIN chain_utxos \ DOMAIN utxos :
          k \in DOMAIN Genesis \/ \E tx \in applied \cap pending_txs : k[1] = tx.hash

\* A transaction on its way stays valid until it expires or the registered root
\* changes, whatever the wallet builds and learns next.  Its inputs remain the
\* wallet's, unspent and unlocked, unless one was added again after a spend, and
\* cover outputs and fee.  A transfer or stake of one input at the estimated fee is
\* well-formed: the fee pays for its size.  Not claimed, since the code does not
\* see to it: that the estimate for one input pays for several or for a payload,
\* that the one input of a registration or rotation covers change computed from
\* several outputs, and that an unstake leaves more than dust after its fee.
TransfersStayValid ==
    \A tx \in network :
        Recent(tx) /\ Authorized(tx) =>
            /\ tx.inputs \cap readded = {} => Spendable(tx)
            /\ tx.type \notin {"REGISTER", "ROTATE_AUTH"} => Funded(tx)
            /\ /\ tx.type \in {"TRANSFER", "STAKE"}
               /\ Cardinality(tx.inputs) = 1 /\ tx.fee >= EstimateFee(1, 2)
               => WellFormed(tx)
=============================================================================
