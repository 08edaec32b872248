------------------------------- MODULE Ledger -------------------------------
(***************************************************************************)
(* The transaction layer of one zone: the UTXO set and the auth registry   *)
(* (UTXOSet, AuthRegistry), the rules a transaction must satisfy and what  *)
(* it does (TransactionValidator), the mempool (Mempool) and the producer  *)
(* that turns the mempool into blocks and applies finalized blocks         *)
(* (BlockTemplate, BlockProducer).                                         *)
(*                                                                         *)
(* Clients broadcast transactions into the mempool, a block is produced    *)
(* from it and validated against the state of that moment, and apply_block *)
(* later applies it without validating again.  apply_block is a loop over  *)
(* the block's transactions: one step per iteration, and no other action   *)
(* until it returns.                                                       *)
(*                                                                         *)
(* Abstractions.  tx_hash is an injective number.  An input says whether   *)
(* its WOTS+ signature verifies and against which auth root the Merkle     *)
(* proof of its public key verifies (None: it has no proof).  Output data  *)
(* is its length and what REGISTER and ROTATE_AUTH parse out of it.        *)
(* Outputs are numbered from 1.  The version, which is always 1, the       *)
(* statistics and rotation_counts, which nothing reads, are left out.      *)
(***************************************************************************)
EXTENDS Integers, Sequences, FiniteSets, Functions

CONSTANTS
    Addresses, Roots,    \* static addresses and temporal auth roots
    None,                \* Python's None
    UserTxs,             \* the transactions clients may broadcast
    Genesis,             \* the outputs the UTXO set starts with, by outpoint
    RewardAddress,       \* where the producer sends its coinbase
    CoinbaseHash,        \* CoinbaseHash[n]: tx_hash of the n-th coinbase
    MaxEpoch, MaxBlocks, \* bounds: the last epoch, the number of blocks built
    Pipelined,           \* may a block be built while an earlier one is pending?
    MAX_INPUTS, MAX_OUTPUTS, MAX_TX_SIZE, DUST_THRESHOLD, MIN_FEE_PER_BYTE,
    MAX_MEMPOOL_SIZE, MAX_BLOCK_SIZE, MAX_TXS_PER_BLOCK,
    COINBASE_REWARD, COINBASE_LOCK, MAX_COINBASE_VALUE,
    RESERVED_KEY         \* first rotation key index (1022)

Hashes == Nat
Outpoints == Hashes \X Nat

TxType == {"TRANSFER", "STAKE", "UNSTAKE", "SLASH", "COINBASE", "DATA",
           "REGISTER", "ROTATE_AUTH"}

\* data.address is the address the inner_hash of a registration derives
Data == [len : Nat, address : Addresses \cup {None}, root : Roots \cup {None}]
NoData == [len |-> 0, address |-> None, root |-> None]

TxInputs == [key : Outpoints, signed : BOOLEAN, root : Roots \cup {None}, key_index : Nat]
TxOutputs == [value : Nat, address : Addresses, lock_epoch : Nat, data : Data]

Transactions ==
    [hash : Hashes, type : TxType, inputs : Seq(TxInputs), outputs : Seq(TxOutputs),
     epoch : Nat, timestamp : Nat, fee : Nat, size : Nat \ {0}]

UTXOs == [output : TxOutputs, is_spent : BOOLEAN, spent_by : Hashes \cup {None}]

\* A block's transactions are kept in mempool priority order (Before).
Blocks == [number : 1 .. MaxBlocks, epoch : 0 .. MaxEpoch, coinbase : Transactions,
           transactions : SUBSET UserTxs]

\* apply_block in progress: the transactions of the block still to be applied
Applying == [block : Blocks, todo : SUBSET UserTxs]

\* Any transaction may be broadcast: coinbases too, which add_transaction does
\* not tell apart, and transactions that name an output twice.  A hash names one
\* transaction.
ASSUME TransactionsAssumption ==
    /\ UserTxs \subseteq Transactions
    /\ \A x, y \in UserTxs : x.hash = y.hash => x = y

ASSUME GenesisAssumption ==
    /\ DOMAIN Genesis \subseteq Outpoints
    /\ Genesis \in [DOMAIN Genesis -> TxOutputs]
    /\ \A k \in DOMAIN Genesis, tx \in UserTxs : k[1] # tx.hash

\* The producer's coinbases are its own: no client broadcasts one of them again.
ASSUME CoinbaseAssumption ==
    /\ CoinbaseHash \in [1 .. MaxBlocks -> Hashes]
    /\ \A m, n \in 1 .. MaxBlocks : CoinbaseHash[m] = CoinbaseHash[n] => m = n
    /\ \A n \in 1 .. MaxBlocks, k \in DOMAIN Genesis : CoinbaseHash[n] # k[1]
    /\ \A n \in 1 .. MaxBlocks, tx \in UserTxs : CoinbaseHash[n] # tx.hash

ASSUME LedgerConstantsAssumption ==
    /\ MaxEpoch \in Nat /\ MaxBlocks \in Nat
    /\ Pipelined \in BOOLEAN
    /\ RewardAddress \in Addresses
    /\ None \notin Addresses /\ None \notin Roots /\ None \notin Hashes /\ None \notin Applying
    /\ {COINBASE_REWARD, COINBASE_LOCK, MAX_MEMPOOL_SIZE, MAX_OUTPUTS} \subseteq Nat

VARIABLES
    utxos,          \* UTXOSet.utxos: outpoint -> UTXO, spent ones included
    by_address,     \* UTXOSet.by_address: address -> set of outpoints
    staked,         \* UTXOSet.staked: address -> amount
    auth_roots,     \* AuthRegistry: address -> auth_root, None if unregistered
    mempool,        \* Mempool.transactions
    spent_outputs,  \* Mempool.spent_outputs
    current_size,   \* Mempool.current_size
    epoch,          \* the epoch the driver produces blocks for
    built,          \* the number of coinbases created so far
    blocks,         \* blocks built and not yet applied
    applying,       \* the apply_block call in progress: [block, todo], or None
    finalized,      \* the blocks handed to apply_block
    failed          \* those for which apply_block returned False

stateVars == <<utxos, by_address, staked, auth_roots>>
mempoolVars == <<mempool, spent_outputs, current_size>>
blockVars == <<built, blocks, applying, finalized, failed>>
vars == <<stateVars, mempoolVars, epoch, blockVars>>

Init ==
    /\ utxos = [k \in DOMAIN Genesis |->
                   [output |-> Genesis[k], is_spent |-> FALSE, spent_by |-> None]]
    /\ by_address = [a \in Addresses |-> {k \in DOMAIN Genesis : Genesis[k].address = a}]
    /\ staked = [a \in Addresses |-> 0]
    /\ auth_roots = [a \in Addresses |-> None]
    /\ mempool = {}
    /\ spent_outputs = {}
    /\ current_size = 0
    /\ epoch = 0
    /\ built = 0
    /\ blocks = {}
    /\ applying = None
    /\ finalized = {}
    /\ failed = {}

------------------------------------------------------------------------------
(* TransactionValidator.validate_transaction, in the current epoch *)

Unspent == {k \in DOMAIN utxos : ~utxos[k].is_spent}
Owner(k) == utxos[k].output.address
IsRegistered(a) == auth_roots[a] # None

InputKeys(tx) == {tx.inputs[i].key : i \in DOMAIN tx.inputs}
TotalOutput(tx) == SumFunction([i \in DOMAIN tx.outputs |-> tx.outputs[i].value])
TotalInput(tx) == SumFunction([i \in DOMAIN tx.inputs |-> utxos[tx.inputs[i].key].output.value])

IsValidStructure(tx) ==
    /\ tx.inputs = <<>> => tx.type = "COINBASE"
    /\ Len(tx.inputs) <= MAX_INPUTS
    /\ Len(tx.outputs) \in 1 .. MAX_OUTPUTS
    /\ tx.size <= MAX_TX_SIZE
    /\ \A i \in DOMAIN tx.outputs :
          tx.outputs[i].value >= DUST_THRESHOLD \/ tx.outputs[i].value = 0
    /\ tx.fee >= tx.size * MIN_FEE_PER_BYTE \/ tx.type = "COINBASE"

\* Fault: the spent flag is not looked at.
ExistingOutput(k) == k \in DOMAIN utxos /\ utxos[k].output.lock_epoch <= epoch

\* found, unspent and past its lock epoch
Spendable(k) == k \in Unspent /\ utxos[k].output.lock_epoch <= epoch

\* Fault: the declared outputs may exceed the inputs by the fee.
FeeNotCharged(tx) == TotalInput(tx) >= TotalOutput(tx)

ConservesValue(tx) == TotalInput(tx) >= TotalOutput(tx) + tx.fee

\* A registered owner's key must be proved to be under its current auth root;
\* for an unregistered owner any valid signature will do.
Authorized(inp) ==
    /\ inp.signed
    /\ IsRegistered(Owner(inp.key)) => inp.root = auth_roots[Owner(inp.key)]

ValidTransfer(tx) ==
    /\ \A i \in DOMAIN tx.inputs : Spendable(tx.inputs[i].key) /\ Authorized(tx.inputs[i])
    /\ ConservesValue(tx)

ValidStake(tx) ==
    ValidTransfer(tx) /\ \E i \in DOMAIN tx.outputs : tx.outputs[i].lock_epoch > epoch

ValidData(tx) ==
    ValidTransfer(tx) /\ \E i \in DOMAIN tx.outputs : tx.outputs[i].data.len > 0

\* evidence in the first output; neither ownership nor value is checked
ValidSlash(tx) ==
    /\ tx.outputs[1].data.len >= 32
    /\ \A i \in DOMAIN tx.inputs :
          /\ tx.inputs[i].signed
          /\ tx.inputs[i].key \in Unspent
          /\ utxos[tx.inputs[i].key].output.lock_epoch # 0

ValidCoinbase(tx) == tx.inputs = <<>> /\ TotalOutput(tx) <= MAX_COINBASE_VALUE

ValidRegister(tx) ==
    LET inp == tx.inputs[1]
    IN  /\ Len(tx.inputs) = 1
        /\ tx.outputs[1].data.len = 96
        /\ Spendable(inp.key)
        /\ Owner(inp.key) = tx.outputs[1].data.address
        /\ inp.signed
        /\ ~IsRegistered(Owner(inp.key))
        /\ ConservesValue(tx)

ValidRotateAuth(tx) ==
    LET inp == tx.inputs[1]
    IN  /\ Len(tx.inputs) = 1
        /\ tx.outputs[1].data.len = 32
        /\ Spendable(inp.key)
        /\ IsRegistered(Owner(inp.key))
        /\ Authorized(inp)
        /\ inp.key_index >= RESERVED_KEY
        /\ ConservesValue(tx)

ValidTransaction(tx) ==
    /\ IsValidStructure(tx)
    /\ tx.epoch \in {epoch - 1, epoch}
    /\ \/ tx.type \in {"TRANSFER", "UNSTAKE"} /\ ValidTransfer(tx)
       \/ tx.type = "STAKE" /\ ValidStake(tx)
       \/ tx.type = "DATA" /\ ValidData(tx)
       \/ tx.type = "SLASH" /\ ValidSlash(tx)
       \/ tx.type = "COINBASE" /\ ValidCoinbase(tx)
       \/ tx.type = "REGISTER" /\ ValidRegister(tx)
       \/ tx.type = "ROTATE_AUTH" /\ ValidRotateAuth(tx)

------------------------------------------------------------------------------
(* Mempool *)

TotalSize(S) == SumFunction([tx \in S |-> tx.size])

\* The order of the priority list: fee rate, then timestamp, then hash, all
\* descending.  The list is the mempool in this order: add_transaction appends
\* and sorts, remove_transaction filters.
Before(x, y) ==
    \/ x.fee * y.size > y.fee * x.size
    \/ /\ x.fee * y.size = y.fee * x.size
       /\ \/ x.timestamp > y.timestamp
          \/ x.timestamp = y.timestamp /\ x.hash > y.hash

\* Fault: no double-spend check.
NeverSpent(tx) == FALSE

SpentInMempool(tx) == InputKeys(tx) \cap spent_outputs # {}

\* broadcast_transaction / Mempool.add_transaction; a refused transaction
\* leaves no trace.
BroadcastTransaction(tx) ==
    /\ applying = None
    /\ tx \notin mempool
    /\ current_size + tx.size <= MAX_MEMPOOL_SIZE
    /\ ~SpentInMempool(tx)
    /\ mempool' = mempool \cup {tx}
    /\ current_size' = current_size + tx.size
    /\ spent_outputs' = spent_outputs \cup InputKeys(tx)
    /\ UNCHANGED <<stateVars, epoch, blockVars>>

\* Fault: the size of what is removed is not given back.
RemoveWithoutSize(S) ==
    /\ mempool' = mempool \ S
    /\ spent_outputs' = spent_outputs \ UNION {InputKeys(tx) : tx \in S \cap mempool}
    /\ UNCHANGED current_size

\* remove_transaction, for every transaction of S
RemoveTransactions(S) ==
    /\ mempool' = mempool \ S
    /\ current_size' = current_size - TotalSize(S \cap mempool)
    /\ spent_outputs' = spent_outputs \ UNION {InputKeys(tx) : tx \in S \cap mempool}

\* get_transactions_for_block: in priority order, whatever still fits
IsSelection(S) ==
    \A tx \in mempool :
        tx \in S <=> TotalSize({x \in S : Before(x, tx)}) + tx.size <= MAX_BLOCK_SIZE

------------------------------------------------------------------------------
(* BlockProducer *)

\* The epoch of the driver moves on.
AdvanceEpoch ==
    /\ applying = None
    /\ epoch < MaxEpoch
    /\ epoch' = epoch + 1
    /\ UNCHANGED <<stateVars, mempoolVars, blockVars>>

TotalFees(S) == SumFunction([tx \in S |-> tx.fee])

Coinbase(n, fees) ==
    [hash |-> CoinbaseHash[n], type |-> "COINBASE", inputs |-> <<>>,
     outputs |-> << [value |-> COINBASE_REWARD + fees, address |-> RewardAddress,
                     lock_epoch |-> epoch + COINBASE_LOCK, data |-> NoData] >>,
     epoch |-> epoch, timestamp |-> 0, fee |-> 0, size |-> 1]

\* fill_template: of the valid candidates the first MAX_TXS_PER_BLOCK; one more
\* ends the loop, so invalid candidates after it are not looked at.
Earlier(valid, tx) == Cardinality({x \in valid : Before(x, tx)})
Included(valid) == {tx \in valid : Earlier(valid, tx) < MAX_TXS_PER_BLOCK}
Rejected(S, valid) == {tx \in S \ valid : Earlier(valid, tx) <= MAX_TXS_PER_BLOCK}

\* create_template, fill_template and create_coinbase, one after the other.
\* Candidates are validated one by one against the same state; the invalid ones
\* leave the mempool, the included ones stay until they are confirmed.  Unless
\* blocks are pipelined, building a block abandons an unapplied earlier one.
ProduceBlock ==
    /\ applying = None
    /\ built < MaxBlocks
    /\ \A b \in finalized : b.epoch # epoch
    /\ \E S \in SUBSET mempool :
          LET valid == {tx \in S : ValidTransaction(tx)}
          IN  /\ IsSelection(S)
              /\ RemoveTransactions(Rejected(S, valid))
              /\ built' = built + 1
              /\ blocks' = (IF Pipelined THEN blocks ELSE {}) \cup
                     {[number |-> built + 1, epoch |-> epoch,
                       coinbase |-> Coinbase(built + 1, TotalFees(Included(valid))),
                       transactions |-> Included(valid)]}
    /\ UNCHANGED <<stateVars, epoch, applying, finalized, failed>>

------------------------------------------------------------------------------
(* TransactionValidator.apply_transaction *)

\* The i-th spend_utxo succeeds: the output exists, is unspent, and is not an
\* earlier input of the same transaction.
SpendSucceeds(tx, i) ==
    /\ tx.inputs[i].key \in Unspent
    /\ \A j \in 1 .. i - 1 : tx.inputs[j].key # tx.inputs[i].key

Applies(tx) == \A i \in DOMAIN tx.inputs : SpendSucceeds(tx, i)

\* the inputs spent before the first failure, all of them if there is none
SpentBy(tx) ==
    {tx.inputs[i].key : i \in {n \in DOMAIN tx.inputs : \A j \in 1 .. n : SpendSucceeds(tx, j)}}

Created(tx) == {<<tx.hash, i>> : i \in DOMAIN tx.outputs}

\* Fault: spend_utxo writes spent_by before it looks at is_spent.
ClaimedUtxos(tx) ==
    LET tried == {n \in DOMAIN tx.inputs : \A j \in 1 .. n - 1 : SpendSucceeds(tx, j)}
    IN  [k \in DOMAIN utxos |->
            IF \E i \in tried : k = tx.inputs[i].key
            THEN [output |-> utxos[k].output, is_spent |-> TRUE, spent_by |-> tx.hash]
            ELSE utxos[k]]

SpentUtxos(tx) ==
    [k \in DOMAIN utxos |->
        IF k \in SpentBy(tx)
        THEN [output |-> utxos[k].output, is_spent |-> TRUE, spent_by |-> tx.hash]
        ELSE utxos[k]]

WithOutputs(tx, set) ==
    [k \in DOMAIN set \cup Created(tx) |->
        IF k \in Created(tx)
        THEN [output |-> tx.outputs[k[2]], is_spent |-> FALSE, spent_by |-> None]
        ELSE set[k]]

\* the amounts apply_transaction adds to the staking index
StakeAdded(tx, a) ==
    LET staking == {i \in DOMAIN tx.outputs : tx.type = "STAKE" /\ tx.outputs[i].address = a
                                                 /\ tx.outputs[i].lock_epoch > tx.epoch}
    IN  SumFunction([i \in staking |-> tx.outputs[i].value])

\* Fault: a second registration overwrites the first.
OverwritingAuthRoots(tx) ==
    [a \in Addresses |->
        IF \/ tx.type = "REGISTER" /\ tx.outputs[1].data.address = a
           \/ tx.type = "ROTATE_AUTH" /\ Owner(tx.inputs[1].key) = a
        THEN tx.outputs[1].data.root
        ELSE auth_roots[a]]

\* register_via_tx and rotate_via_tx; their refusals are ignored by the caller
NewAuthRoots(tx) ==
    [a \in Addresses |->
        IF \/ /\ tx.type = "REGISTER"
              /\ tx.outputs[1].data.address = a
              /\ ~IsRegistered(a)
           \/ /\ tx.type = "ROTATE_AUTH"
              /\ Owner(tx.inputs[1].key) = a
              /\ IsRegistered(a)
        THEN tx.outputs[1].data.root
        ELSE auth_roots[a]]

\* every input can be spent: outputs, stakes and the registry follow
ApplyAll(tx) ==
    /\ utxos' = WithOutputs(tx, SpentUtxos(tx))
    /\ by_address' = [a \in Addresses |->
          (by_address[a] \ {k \in SpentBy(tx) : Owner(k) = a})
              \cup {k \in Created(tx) : tx.outputs[k[2]].address = a}]
    /\ staked' = [a \in Addresses |-> staked[a] + StakeAdded(tx, a)]
    /\ auth_roots' = NewAuthRoots(tx)

\* Fault: the index is brought up to date only when the transaction succeeds.
IndexOnSuccessOnly(tx) ==
    /\ utxos' = SpentUtxos(tx)
    /\ UNCHANGED <<by_address, staked, auth_roots>>

\* some input cannot: the inputs before it stay spent, nothing is created
ApplyUntilFailure(tx) ==
    /\ utxos' = SpentUtxos(tx)
    /\ by_address' = [a \in Addresses |->
          by_address[a] \ {k \in SpentBy(tx) : Owner(k) = a}]
    /\ UNCHANGED <<staked, auth_roots>>

------------------------------------------------------------------------------
(* BlockProducer.apply_block *)

\* The call for a finalized block, up to its first transaction, the coinbase.
\* Consensus finalizes one block per epoch, and each is handed over once.
ApplyBlock(b) ==
    /\ applying = None
    /\ b \in blocks
    /\ ApplyAll(b.coinbase)
    /\ applying' = [block |-> b, todo |-> b.transactions]
    /\ blocks' = {x \in blocks : x.epoch # b.epoch}
    /\ finalized' = finalized \cup {b}
    /\ UNCHANGED <<mempoolVars, epoch, built, failed>>

IsNext(tx) ==
    /\ applying # None
    /\ tx \in applying.todo
    /\ \A x \in applying.todo \ {tx} : Before(tx, x)

ApplyNext(tx) ==
    /\ IsNext(tx)
    /\ Applies(tx)
    /\ ApplyAll(tx)
    /\ applying' = [block |-> applying.block, todo |-> applying.todo \ {tx}]
    /\ UNCHANGED <<mempoolVars, epoch, built, blocks, finalized, failed>>

\* apply_transaction returned False: so does apply_block, at once
FailBlock(tx) ==
    /\ IsNext(tx)
    /\ ~Applies(tx)
    /\ ApplyUntilFailure(tx)
    /\ failed' = failed \cup {applying.block}
    /\ applying' = None
    /\ UNCHANGED <<mempoolVars, epoch, built, blocks, finalized>>

\* Every transaction is applied: clear_confirmed, and the block is stored if
\* there is a storage (Storage!ApplyBlock).  apply_block does not look at what
\* store_block_with_transactions returns and returns True; if it raises,
\* apply_block returns False, with the block applied and confirmed.
FinishBlock ==
    /\ applying # None
    /\ applying.todo = {}
    /\ RemoveTransactions(applying.block.transactions)
    /\ failed' \in {failed, failed \cup {applying.block}}
    /\ applying' = None
    /\ UNCHANGED <<stateVars, epoch, built, blocks, finalized>>

Next ==
    \/ AdvanceEpoch
    \/ \E tx \in UserTxs : BroadcastTransaction(tx)
    \/ ProduceBlock
    \/ \E b \in blocks : ApplyBlock(b)
    \/ \E tx \in UserTxs : ApplyNext(tx) \/ FailBlock(tx)
    \/ FinishBlock

Spec == Init /\ [][Next]_vars

------------------------------------------------------------------------------
(* Properties *)

\* The UTXO set, the registry, the mempool and the pending blocks keep their
\* types; in particular an auth root is a root, never the data it came from.
LedgerTypeOK ==
    /\ DOMAIN utxos \subseteq Outpoints
    /\ utxos \in [DOMAIN utxos -> UTXOs]
    /\ by_address \in [Addresses -> SUBSET Outpoints]
    /\ staked \in [Addresses -> Nat]
    /\ auth_roots \in [Addresses -> Roots \cup {None}]
    /\ mempool \subseteq UserTxs
    /\ current_size \in Nat
    /\ spent_outputs \subseteq Outpoints
    /\ epoch \in 0 .. MaxEpoch
    /\ built \in 0 .. MaxBlocks
    /\ blocks \subseteq Blocks
    /\ applying \in Applying \cup {None}
    /\ finalized \subseteq Blocks
    /\ failed \subseteq Blocks

\* by_address, which balances and coin selection read, lists exactly the unspent
\* outputs of each address, also after a block that failed half way.
IndexConsistent ==
    \A a \in Addresses : by_address[a] = {k \in Unspent : Owner(k) = a}

\* The transactions paid for by clients' coinbases alone: the smallest set that
\* holds every transaction all of whose inputs are outputs of its members.
IsClosed(S) ==
    \A tx \in UserTxs :
        (\A i \in DOMAIN tx.inputs : \E x \in S : x.hash = tx.inputs[i].key[1]) => tx \in S
FromNothing == {tx \in UserTxs : \A S \in SUBSET UserTxs : IsClosed(S) => tx \in S}

Rooted(k) == \A tx \in FromNothing : k[1] # tx.hash

\* An output is spent once and for all if it goes back, along some input, to a
\* genesis output or a producer's coinbase: no later transaction, block or
\* repeated broadcast makes it spendable again or changes who spent it.  (A
\* client's coinbase has no input that could be spent already: it can be applied
\* again, and then what it paid for.)
SpentStaysSpent ==
    [][\A k \in DOMAIN utxos :
          /\ k \in DOMAIN utxos'
          /\ utxos[k].is_spent /\ Rooted(k) => utxos'[k] = utxos[k]]_vars

\* The mempool never holds two transactions that spend the same output, and it
\* tracks exactly the outputs its transactions spend, whatever is removed.
MempoolConflictFree ==
    /\ spent_outputs = UNION {InputKeys(tx) : tx \in mempool}
    /\ \A x, y \in mempool : x # y => InputKeys(x) \cap InputKeys(y) = {}

\* The mempool's size account is the size of what it holds, within the limit.
MempoolWithinLimit ==
    current_size = TotalSize(mempool) /\ current_size <= MAX_MEMPOOL_SIZE

NamesTwice(tx) ==
    \E i, j \in DOMAIN tx.inputs : i # j /\ tx.inputs[i].key = tx.inputs[j].key

\* When blocks are not built over pending ones, the only transaction at which
\* apply_block gives up is one that names an output twice, which validation lets
\* pass: otherwise validating the candidates one by one against the same state is
\* enough, because the mempool is free of conflicts.
BlocksApply ==
    \A tx \in UserTxs : IsNext(tx) /\ ~NamesTwice(tx) => Applies(tx)

\* What a transaction may put into circulation without spending as much: only
\* for these types do the rules not compare inputs with outputs and fee.
Unbacked(tx) == IF tx.type \in {"COINBASE", "SLASH"} THEN TotalOutput(tx) + tx.fee ELSE 0

Grant(b) == COINBASE_REWARD + SumFunction([tx \in b.transactions |-> Unbacked(tx)])

\* Between blocks the unspent value exceeds the genesis value by at most one
\* reward and the unbacked value per finalized block: the fees in a coinbase were
\* paid by the block's transactions.  Only a block that failed may leave some of
\* them unpaid.
SupplyBounded ==
    applying = None =>
        SumFunction([k \in Unspent |-> utxos[k].output.value])
            <= SumFunction([k \in DOMAIN Genesis |-> Genesis[k].value])
                 + SumFunction([b \in finalized |-> Grant(b)])
                 + SumFunction([b \in failed |-> TotalFees(b.transactions)])

\* Registration is one-time per address, also when two registrations of the same
\* address are validated into one block: afterwards only a rotation that spends
\* an output of that address replaces its auth root.
RegisterOnce ==
    [][\A a \in Addresses :
          auth_roots[a] # None /\ auth_roots'[a] # auth_roots[a] =>
              \E tx \in UserTxs :
                  /\ IsNext(tx)
                  /\ tx.type = "ROTATE_AUTH"
                  /\ Owner(tx.inputs[1].key) = a
                  /\ auth_roots'[a] = tx.outputs[1].data.root]_vars
==============================================================================
