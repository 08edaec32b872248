------------------------------- MODULE Storage -------------------------------
(***************************************************************************)
(* Persistence of finalized blocks: BlockStore, TransactionStore and the   *)
(* chain state of StateDB (three SQLite databases, blocks.db,              *)
(* transactions.db and state.db), StorageManager, which writes a block and *)
(* its transactions into them and rebuilds the UTXO set from them, and the *)
(* two callers of StorageManager: BlockFinalizer.finalize and the end of   *)
(* BlockProducer.apply_block.                                              *)
(*                                                                         *)
(* Each "with self.conn" block is one SQLite transaction and one step      *)
(* here: a transaction with its inputs and outputs, the mark of one spent  *)
(* output, a block with its transaction references, the current epoch.     *)
(* The process may crash between any two of them; what it kept in memory   *)
(* is then lost and the databases are opened again as they are.  A SQLite  *)
(* operation may also fail, which the stores turn into a return value or   *)
(* an exception.                                                           *)
(*                                                                         *)
(* Abstractions.  A transaction is its hash, with its inputs and its       *)
(* number of outputs as constants; an outpoint is <<hash, index>>, both    *)
(* numbered from 1 where Python starts at 0.  Values, addresses, lock      *)
(* epochs and block metadata are stored and read back unchanged and left   *)
(* out.  The stores are used by one thread.                                *)
(***************************************************************************)
EXTENDS Integers, Sequences, FiniteSets, SequencesExt

CONSTANTS
    Hashes,        \* block hashes
    Txs,           \* transaction hashes
    None,          \* Python's None; as a prev_hash, 32 zero bytes
    Inputs,        \* Inputs[t]: the outpoints transaction t spends, in order
    OutputCount,   \* OutputCount[t]: how many outputs transaction t has
    Chain,         \* the finalized blocks, with their epochs and transactions
    MaxEpoch,      \* bound: the last epoch
    MaxCrashes,    \* bound: crashes of the process
    MaxFaults      \* bound: failing SQLite operations

Epochs == 0 .. MaxEpoch
Outpoints == UNION {{t} \X (1 .. OutputCount[t]) : t \in Txs}
Blocks == [hash : Hashes, epoch : Epochs, transactions : Seq(Txs)]

Rows == [block_hash : Hashes, prev_hash : Hashes \cup {None}, tx_count : Nat]

\* tx: the transaction it is at; input: the input to mark, 0 before the
\* transaction itself is stored; step: what follows the transactions
Jobs == [block : Chain, finalizing : BOOLEAN, tx : Nat, input : Nat,
         step : {"store_block", "set_current_epoch", "finalized"}]

ASSUME StorageAssumption ==
    /\ MaxEpoch \in Nat /\ MaxCrashes \in Nat /\ MaxFaults \in Nat
    /\ None \notin Hashes \cup Txs \cup Blocks \cup Rows \cup Jobs
    /\ OutputCount \in [Txs -> Nat]
    /\ Inputs \in [Txs -> Seq(Outpoints)]
    /\ Chain \subseteq Blocks

\* What consensus and the ledger make of the chain: one block for an epoch,
\* and every output spent once, in a later block than the one that created it
OneBlockPerEpoch == \A b, c \in Chain : b.epoch = c.epoch \/ b.hash = c.hash => b = c
ValidChain ==
    \A b, c \in Chain : \A t \in ToSet(b.transactions), u \in ToSet(c.transactions) :
        /\ \A o \in ToSet(Inputs[u]) : o[1] = t => b.epoch < c.epoch
        /\ ToSet(Inputs[t]) \cap ToSet(Inputs[u]) # {} => t = u

VARIABLES
    \* transactions.db
    transactions,        \* hashes with rows in transactions, tx_inputs, tx_outputs
    spent_by,            \* spent_by[o]: the column of tx_outputs; None is spent = 0
    \* blocks.db
    blocks,              \* blocks[e]: the row of epoch e, or None
    block_transactions,  \* block_transactions[e]: hashes in tx_index order
    \* state.db
    current_epoch,       \* chain_state["current_epoch"], 0 when absent
    \* memory
    utxo_set,            \* StorageManager.utxo_set, by outpoint
    pending_blocks,      \* BlockFinalizer.pending_blocks
    finalized_epochs,    \* BlockFinalizer.finalized_epochs
    job,                 \* the running store_block_with_transactions, or None
    crashes,             \* how often the process has crashed
    faults,              \* how many SQLite operations have failed
    \* history
    settled              \* the blocks stored to the end, with no store of the same
                         \* or an earlier block begun since

durable == <<transactions, spent_by, blocks, block_transactions, current_epoch>>
memory == <<utxo_set, pending_blocks, finalized_epochs, job>>
vars == <<durable, memory, crashes, faults, settled>>

UTXOStates == {"absent", "unspent", "spent"}

EmptyUTXOSet == [o \in Outpoints |-> "absent"]
NothingPending == [e \in Epochs |-> None]

Init ==
    /\ transactions = {}
    /\ spent_by = [o \in Outpoints |-> None]
    /\ blocks = [e \in Epochs |-> None]
    /\ block_transactions = [e \in Epochs |-> << >>]
    /\ current_epoch = 0
    /\ utxo_set = EmptyUTXOSet
    /\ pending_blocks = NothingPending
    /\ finalized_epochs = {}
    /\ job = None
    /\ crashes = 0
    /\ faults = 0
    /\ settled = {}

Stored == {e \in Epochs : blocks[e] # None}

IsHeight(e) == e \in Stored /\ \A f \in Stored : f <= e

-----------------------------------------------------------------------------
\* store_block_with_transactions

\* Mutant: the loop skips the first transaction.
SkippingJob(b, finalizing) ==
    [block |-> b, finalizing |-> finalizing, tx |-> 2, input |-> 0, step |-> "store_block"]

StartJob(b, finalizing) ==
    [block |-> b, finalizing |-> finalizing, tx |-> 1, input |-> 0, step |-> "store_block"]

\* neither caller looks at the order of the epochs: any block of the chain may
\* be stored at any time, and again
BeginStore(b, finalizing) ==
    /\ job' = StartJob(b, finalizing)
    /\ settled' = {c \in settled : c.epoch < b.epoch}

\* The transaction being written and the place after k of its inputs
Current == job.block.transactions[job.tx]
\* Mutant: the last input is not marked.
MarkedButLast(k) ==
    IF k + 1 < Len(Inputs[Current]) THEN [job EXCEPT !.input = k + 1]
                                    ELSE [job EXCEPT !.tx = job.tx + 1, !.input = 0]
MarkedUpTo(k) ==
    IF k < Len(Inputs[Current]) THEN [job EXCEPT !.input = k + 1]
                                ELSE [job EXCEPT !.tx = job.tx + 1, !.input = 0]

AtTransaction == job # None /\ job.tx <= Len(job.block.transactions)
AtStep(s) == job # None /\ job.tx > Len(job.block.transactions) /\ job.step = s

\* A SQLite operation fails and is rolled back.
Fault == faults < MaxFaults /\ faults' = faults + 1

\* INSERT OR REPLACE writes the output rows anew, with spent = 0
TransactionRows(t) ==
    /\ transactions' = transactions \cup {t}
    /\ spent_by' = [o \in Outpoints |-> IF o[1] = t THEN None ELSE spent_by[o]]

\* The result of store_transaction is not looked at.
StoreTransaction ==
    /\ AtTransaction /\ job.input = 0
    /\ \/ TransactionRows(Current) /\ UNCHANGED faults
       \/ Fault /\ UNCHANGED <<transactions, spent_by>>
    /\ job' = MarkedUpTo(0)
    /\ UNCHANGED <<blocks, block_transactions, current_epoch, utxo_set,
                   pending_blocks, finalized_epochs, crashes, settled>>

\* An UPDATE: a missing row stays missing.  Its result is not looked at.
MarkOutputSpent ==
    /\ AtTransaction /\ job.input # 0
    /\ LET o == Inputs[Current][job.input]
       IN  \/ /\ spent_by' = IF o[1] \in transactions
                             THEN [spent_by EXCEPT ![o] = Current] ELSE spent_by
              /\ UNCHANGED faults
           \/ Fault /\ UNCHANGED spent_by
    /\ job' = MarkedUpTo(job.input)
    /\ UNCHANGED <<transactions, blocks, block_transactions, current_epoch, utxo_set,
                   pending_blocks, finalized_epochs, crashes, settled>>

\* The block hash of get_latest_block, for chain linking
LatestHash ==
    IF Stored = {} THEN None ELSE blocks[CHOOSE e \in Epochs : IsHeight(e)].block_hash

\* Mutant: references are added to the ones that are there.
AddReferences(old, new) == old \o new

\* INSERT OR REPLACE of the references (epoch, 0), (epoch, 1), ...
Overwrite(old, new) ==
    [i \in 1 .. (IF Len(old) > Len(new) THEN Len(old) ELSE Len(new)) |->
        IF i <= Len(new) THEN new[i] ELSE old[i]]

\* Mutant: INSERT OR REPLACE of the block row
ReplaceRow(b) ==
    /\ blocks' = [blocks EXCEPT ![b.epoch] =
                     [block_hash |-> b.hash, prev_hash |-> LatestHash,
                      tx_count |-> Len(b.transactions)]]
    /\ block_transactions' = [block_transactions EXCEPT ![b.epoch] = Overwrite(@, b.transactions)]

\* ON CONFLICT(epoch) DO NOTHING keeps the first row of an epoch.  block_hash
\* is UNIQUE: a hash stored under another epoch makes the insert fail.
BlockRow(b) ==
    IF \E e \in Stored : e # b.epoch /\ blocks[e].block_hash = b.hash
    THEN UNCHANGED <<blocks, block_transactions>>
    ELSE /\ blocks' = [blocks EXCEPT ![b.epoch] =
                          IF @ # None THEN @
                          ELSE [block_hash |-> b.hash, prev_hash |-> LatestHash,
                                tx_count |-> Len(b.transactions)]]
         /\ block_transactions' = [block_transactions EXCEPT ![b.epoch] =
                                      Overwrite(@, b.transactions)]

\* A failing insert is not looked at either; a failing get_latest_block
\* (before it) ends the call with False.
StoreBlock ==
    /\ AtStep("store_block")
    /\ \/ /\ BlockRow(job.block)
          /\ job' = [job EXCEPT !.step = "set_current_epoch"]
          /\ UNCHANGED faults
       \/ /\ Fault
          /\ job' \in {[job EXCEPT !.step = "set_current_epoch"], None}
          /\ UNCHANGED <<blocks, block_transactions>>
    /\ UNCHANGED <<transactions, spent_by, current_epoch, utxo_set, pending_blocks,
                   finalized_epochs, crashes, settled>>

\* apply_block ignores the result; finalize goes on if it is True.
SetCurrentEpoch ==
    /\ AtStep("set_current_epoch")
    /\ \/ /\ current_epoch' = job.block.epoch
          /\ job' = IF job.finalizing THEN [job EXCEPT !.step = "finalized"] ELSE None
          /\ settled' = settled \cup {job.block}
          /\ UNCHANGED faults
       \/ /\ Fault
          /\ job' = None
          /\ UNCHANGED <<current_epoch, settled>>
    /\ UNCHANGED <<transactions, spent_by, blocks, block_transactions, utxo_set,
                   pending_blocks, finalized_epochs, crashes>>

-----------------------------------------------------------------------------
\* BlockFinalizer, apply_block, recovery

QueueForFinalization(b) ==
    /\ job = None
    /\ pending_blocks' = [pending_blocks EXCEPT ![b.epoch] = b]
    /\ UNCHANGED <<durable, utxo_set, finalized_epochs, job, crashes, faults, settled>>

\* Mutant: finalize sets the current epoch before it stores the block.
FinalizeEpochFirst(e) ==
    /\ job = None
    /\ e \notin finalized_epochs
    /\ pending_blocks[e] # None
    /\ BeginStore(pending_blocks[e], TRUE)
    /\ current_epoch' = e
    /\ UNCHANGED <<transactions, spent_by, blocks, block_transactions, utxo_set,
                   pending_blocks, finalized_epochs, crashes, faults>>

\* An epoch already finalized, or with nothing queued, changes nothing.
Finalize(e) ==
    /\ job = None
    /\ e \notin finalized_epochs
    /\ pending_blocks[e] # None
    /\ BeginStore(pending_blocks[e], TRUE)
    /\ UNCHANGED <<durable, utxo_set, pending_blocks, finalized_epochs, crashes, faults>>

\* The proposal has no entropy field, so no entropy is stored.
Finalized ==
    /\ AtStep("finalized")
    /\ finalized_epochs' = finalized_epochs \cup {job.block.epoch}
    /\ pending_blocks' = [pending_blocks EXCEPT ![job.block.epoch] = None]
    /\ current_epoch' = job.block.epoch
    /\ job' = None
    /\ UNCHANGED <<transactions, spent_by, blocks, block_transactions, utxo_set, crashes, faults,
                   settled>>

ApplyBlock(b) ==
    /\ job = None
    /\ BeginStore(b, FALSE)
    /\ UNCHANGED <<durable, utxo_set, pending_blocks, finalized_epochs, crashes, faults>>

\* add_utxo for each output of t, then spend_utxo for each input, which does
\* nothing for an output that is absent or already spent
ReplayTransaction(utxos, t) ==
    IF t \notin transactions THEN utxos
    ELSE LET added == [o \in Outpoints |-> IF o[1] = t THEN "unspent" ELSE utxos[o]]
         IN  [o \in Outpoints |->
                 IF o \in ToSet(Inputs[t]) /\ added[o] = "unspent" THEN "spent" ELSE added[o]]

ReplayEpoch(utxos, e) ==
    IF e \in Stored THEN FoldLeft(ReplayTransaction, utxos, block_transactions[e]) ELSE utxos

\* Mutant: range(height) for range(height + 1)
RebuildWithoutLatest ==
    /\ job = None
    /\ utxo_set' = FoldLeft(LAMBDA utxos, e : IF IsHeight(e) THEN utxos ELSE ReplayEpoch(utxos, e),
                            EmptyUTXOSet, [n \in 1 .. MaxEpoch + 1 |-> n - 1])
    /\ UNCHANGED <<durable, pending_blocks, finalized_epochs, job, crashes, faults, settled>>

\* The epochs up to the height; above it no epoch is stored.
RebuildUtxoSet ==
    /\ job = None
    /\ utxo_set' = FoldLeft(ReplayEpoch, EmptyUTXOSet, [n \in 1 .. MaxEpoch + 1 |-> n - 1])
    /\ UNCHANGED <<durable, pending_blocks, finalized_epochs, job, crashes, faults, settled>>

\* The process stops and is started again on the same data directory.
Crash ==
    /\ crashes < MaxCrashes
    /\ crashes' = crashes + 1
    /\ utxo_set' = EmptyUTXOSet
    /\ pending_blocks' = NothingPending
    /\ finalized_epochs' = {}
    /\ job' = None
    /\ UNCHANGED <<durable, faults, settled>>

Next ==
    \/ \E b \in Chain : QueueForFinalization(b)
    \/ \E e \in Epochs : Finalize(e)
    \/ \E b \in Chain : ApplyBlock(b)
    \/ StoreTransaction
    \/ MarkOutputSpent
    \/ StoreBlock
    \/ SetCurrentEpoch
    \/ Finalized
    \/ RebuildUtxoSet
    \/ Crash

Spec == Init /\ [][Next]_vars

-----------------------------------------------------------------------------
\* Properties

\* The variables keep the types the schemas and the Python classes give them.
StorageTypeOK ==
    /\ transactions \subseteq Txs
    /\ spent_by \in [Outpoints -> Txs \cup {None}]
    /\ blocks \in [Epochs -> Rows \cup {None}]
    /\ block_transactions \in [Epochs -> Seq(Txs)]
    /\ current_epoch \in Epochs
    /\ utxo_set \in [Outpoints -> UTXOStates]
    /\ pending_blocks \in [Epochs -> Chain \cup {None}]
    /\ finalized_epochs \subseteq Epochs
    /\ job \in Jobs \cup {None}
    /\ crashes \in Nat /\ faults \in Nat
    /\ settled \subseteq Chain

\* What get_block(e) returns
StoredBlock(e) ==
    IF e \in Stored
    THEN [hash |-> blocks[e].block_hash, epoch |-> e, transactions |-> block_transactions[e]]
    ELSE None

\* Readers see a log of whole blocks: a block appears in one step with its
\* transactions and never changes, through crashes and repeated stores.
Log == INSTANCE BlockLog WITH log <- [e \in Epochs |-> StoredBlock(e)], Blocks <- Chain
ImplementsBlockLog == Log!Spec

\* The transactions of the finalized blocks that have a row
Confirmed ==
    UNION {ToSet(b.transactions) : b \in {c \in Chain :
        c.epoch \in Stored /\ blocks[c.epoch].block_hash = c.hash}}

\* Whenever rebuild_utxo_set runs, after any crash, it recovers exactly the
\* outputs of the stored blocks that no stored block spends (until a SQLite
\* operation fails and its transaction is missing).
RebuildRecoversChain ==
    [][RebuildUtxoSet /\ faults = 0 =>
          {o \in Outpoints : utxo_set'[o] = "unspent"} =
          {o \in Outpoints : o[1] \in Confirmed /\ \A t \in Confirmed : o \notin ToSet(Inputs[t])}
      ]_vars

\* the rows of what block c spends, as far as they are there, say so
SpendsMarked(c) ==
    \A t \in ToSet(c.transactions) : \A o \in ToSet(Inputs[t]) :
        o[1] \in transactions => spent_by[o] = t

\* get_utxos_for_address (the rows with spent = 0) never offers an output spent
\* by a block that was stored to the end, unless that block or an earlier one is
\* stored again afterwards, and until a SQLite operation fails.
UnspentRowsAreUnspent == faults = 0 => \A c \in settled : SpendsMarked(c)

\* a block whose row was written when a later one was there links to a later one
WrittenLate(e) ==
    \E f \in Stored : f > e /\ blocks[e].prev_hash = blocks[f].block_hash

\* The stored blocks that were not written late form one linked chain: each
\* carries the hash of the one before it, the first the zero hash.  When every
\* block is first stored before the later ones, this is the whole chain, whatever
\* is stored again.
ChainLinked ==
    \A e \in Stored :
        LET earlier == {f \in Stored : f < e /\ ~WrittenLate(f)}
        IN  ~WrittenLate(e) =>
              blocks[e].prev_hash =
                  IF earlier = {} THEN None
                  ELSE blocks[CHOOSE f \in earlier : \A g \in earlier : g <= f].block_hash

\* The persisted current epoch names a stored block (or 0), after any crash, and
\* never falls behind a block that was stored to the end, unless that block or an
\* earlier one is stored again (until a SQLite operation fails).
EpochMarkerTracksChain ==
    faults = 0 =>
    /\ current_epoch \in Stored \cup {0}
    /\ \A c \in settled : c.epoch <= current_epoch

\* An epoch finalize reports as finalized has its block stored, and every
\* transaction of the block, until a SQLite operation fails.
FinalizedIsStored ==
    faults = 0 => \A e \in finalized_epochs :
        e \in Stored /\ ToSet(block_transactions[e]) \subseteq transactions
=============================================================================
