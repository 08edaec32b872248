----------------------------- MODULE ShardedUTXO -----------------------------
(***************************************************************************)
(* The concurrent UTXO set of performance.py (ShardedUTXOSet) and the two  *)
(* stages of batch validation that come before signatures are verified     *)
(* (TransactionPipeline), called by several threads.                       *)
(*                                                                         *)
(* The outputs live in shards, each with its lock, the index by address    *)
(* has a lock of its own, and no lock is taken while another is held.  One *)
(* step is what a thread does under one lock, or one unlocked read of an   *)
(* output's is_spent.  get_utxo returns the live object: outputs are never *)
(* removed from a shard, so looking one up and reading its is_spent right  *)
(* after is one step, at the time of the read.  batch_lookup is different: *)
(* it collects the objects first, shard by shard, and is_spent is read     *)
(* later.                                                                  *)
(*                                                                         *)
(* Abstractions.  The fields of an output that never change are constants  *)
(* of its outpoint.  A transaction says whether its structure is valid.    *)
(* Statistics are left out.                                                *)
(***************************************************************************)
EXTENDS Integers, Sequences, FiniteSets, SequencesExt

CONSTANTS
    Threads,
    Outpoints,      \* (tx_hash, output_index) pairs
    Addresses,
    AddressOf,      \* AddressOf[k]: the address of output k
    LockEpoch,      \* LockEpoch[k]: its lock_epoch
    ShardOf,        \* ShardOf[k]: the first byte of its tx_hash
    Spenders,       \* hashes of spending transactions
    Epochs,         \* values callers pass as current_epoch
    Batches,        \* sequences of transactions passed to process_batch
    None            \* Python's None

Shards == {ShardOf[k] : k \in Outpoints}

\* what the first two stages look at; hash is an injective name
Transactions == [hash : Nat, inputs : Seq(Outpoints), wellformed : BOOLEAN]

UTXOs == [is_spent : BOOLEAN, spent_by : Spenders \cup {None}]

ASSUME ShardedAssumption ==
    /\ AddressOf \in [Outpoints -> Addresses]
    /\ LockEpoch \in [Outpoints -> Nat]
    /\ Epochs \subseteq Nat
    /\ Batches \subseteq Seq(Transactions)
    /\ None \notin Spenders \cup UTXOs

VARIABLES
    utxos,       \* utxos[k]: the entry of k in its shard, or None
    by_address,  \* the index: address -> set of outpoints
    call,        \* call[t]: the call thread t is in, with its local variables
    spends       \* history: <<k, tx>> for which spend_utxo returned the output

vars == <<utxos, by_address, call, spends>>

Idle == [name |-> "idle"]

Init ==
    /\ utxos = [k \in Outpoints |-> None]
    /\ by_address = [a \in Addresses |-> {}]
    /\ call = [t \in Threads |-> Idle]
    /\ spends = {}

Added == {k \in Outpoints : utxos[k] # None}
Spent == {k \in Added : utxos[k].is_spent}
Unspent == Added \ Spent

\* Outputs whose add_utxo has not entered them in the index yet
BeingIndexed == {k \in Outpoints : \E t \in Threads : call[t] = [name |-> "add_utxo", key |-> k]}

Return(t) == call' = [call EXCEPT ![t] = Idle]

-----------------------------------------------------------------------------
\* add_utxo, once per output: under the shard lock, then under the address lock

AddUtxo(t, k) ==
    /\ call[t] = Idle
    /\ k \notin Added
    /\ utxos' = [utxos EXCEPT ![k] = [is_spent |-> FALSE, spent_by |-> None]]
    /\ call' = [call EXCEPT ![t] = [name |-> "add_utxo", key |-> k]]
    /\ UNCHANGED <<by_address, spends>>

IndexUtxo(t) ==
    /\ call[t].name = "add_utxo"
    /\ by_address' = [by_address EXCEPT ![AddressOf[call[t].key]] = @ \cup {call[t].key}]
    /\ Return(t)
    /\ UNCHANGED <<utxos, spends>>

\* Fault: is_spent is not looked at.
SpendAgain(t, k, tx) ==
    /\ call[t] = Idle
    /\ k \in Added
    /\ utxos' = [utxos EXCEPT ![k] = [is_spent |-> TRUE, spent_by |-> tx]]
    /\ call' = [call EXCEPT ![t] = [name |-> "spend_utxo", key |-> k]]
    /\ spends' = spends \cup {<<k, tx>>}
    /\ UNCHANGED by_address

\* spend_utxo: test and mark under the shard lock; an output that is missing or
\* spent ends the call with None and changes nothing.
SpendUtxo(t, k, tx) ==
    /\ call[t] = Idle
    /\ k \in Unspent
    /\ utxos' = [utxos EXCEPT ![k] = [is_spent |-> TRUE, spent_by |-> tx]]
    /\ call' = [call EXCEPT ![t] = [name |-> "spend_utxo", key |-> k]]
    /\ spends' = spends \cup {<<k, tx>>}
    /\ UNCHANGED by_address

\* Mutant: pop(address) for discard(key)
UnindexAddress(t) ==
    /\ call[t].name = "spend_utxo"
    /\ by_address' = [by_address EXCEPT ![AddressOf[call[t].key]] = {}]
    /\ Return(t)
    /\ UNCHANGED <<utxos, spends>>

UnindexUtxo(t) ==
    /\ call[t].name = "spend_utxo"
    /\ by_address' = [by_address EXCEPT ![AddressOf[call[t].key]] = @ \ {call[t].key}]
    /\ Return(t)
    /\ UNCHANGED <<utxos, spends>>

-----------------------------------------------------------------------------
\* get_balance: the keys are copied under the address lock, then the outputs
\* are read one by one.  counted holds the outputs added to the total; before
\* and spent_before (history) are the outputs add_utxo had returned for, and
\* those that were spent, when the call began.

GetBalance(t, a, e) ==
    /\ call[t] = Idle
    /\ call' = [call EXCEPT ![t] =
           [name |-> "get_balance", address |-> a, epoch |-> e, keys |-> by_address[a],
            counted |-> {}, before |-> Added \ BeingIndexed, spent_before |-> Spent]]
    /\ UNCHANGED <<utxos, by_address, spends>>

\* Mutant: the index is trusted, is_spent is not rechecked.
CountsIndexed(k, e) == k \in Added /\ LockEpoch[k] <= e

Counts(k, e) == k \in Unspent /\ LockEpoch[k] <= e

ReadUtxo(t, k) ==
    /\ call[t].name = "get_balance"
    /\ k \in call[t].keys
    /\ call' = [call EXCEPT
           ![t].keys = @ \ {k},
           ![t].counted = IF Counts(k, call[t].epoch) THEN @ \cup {k} ELSE @]
    /\ UNCHANGED <<utxos, by_address, spends>>

ReturnBalance(t) ==
    /\ call[t].name = "get_balance"
    /\ call[t].keys = {}
    /\ Return(t)
    /\ UNCHANGED <<utxos, by_address, spends>>

-----------------------------------------------------------------------------
\* TransactionPipeline.process_batch

\* Where the inputs of the transactions of a batch that pass _stage_structure
\* are: <<number of the transaction, number of the input>>
Refs(batch) ==
    UNION {{i} \X DOMAIN batch[i].inputs : i \in {n \in DOMAIN batch : batch[n].wellformed}}
KeyAt(batch, r) == batch[r[1]].inputs[r[2]]

\* _stage_structure, and the start of _stage_utxo: one lookup thread for each
\* shard that some input refers to
ProcessBatch(t, batch, e) ==
    /\ call[t] = Idle
    /\ call' = [call EXCEPT ![t] =
           [name |-> "process_batch", batch |-> batch, epoch |-> e, refs |-> Refs(batch),
            shards |-> {ShardOf[KeyAt(batch, r)] : r \in Refs(batch)}, found |-> {},
            issues |-> {}, before |-> Added, spent_before |-> Spent]]
    /\ UNCHANGED <<utxos, by_address, spends>>

\* batch_lookup, lookup_shard
LookupShard(t, s) ==
    /\ call[t].name = "process_batch"
    /\ s \in call[t].shards
    /\ call' = [call EXCEPT
           ![t].shards = @ \ {s},
           ![t].found = @ \cup {k \in Added : ShardOf[k] = s}]
    /\ UNCHANGED <<utxos, by_address, spends>>

\* Mutant: only existence and lock are checked.
HasIssueUnlessFound(k, c) == k \notin c.found \/ LockEpoch[k] > c.epoch

HasIssue(k, c) == k \notin c.found \/ k \in Spent \/ LockEpoch[k] > c.epoch

\* One iteration of the loop over the results, which goes through the inputs in
\* order; a transaction that has an issue already is skipped, and keeps it.
CheckRef(t, r) ==
    LET c == call[t]
    IN  /\ c.name = "process_batch"
        /\ c.shards = {}
        /\ r \in c.refs
        /\ \A q \in c.refs : q[1] > r[1] \/ (q[1] = r[1] /\ q[2] >= r[2])
        /\ call' = [call EXCEPT
               ![t].refs = @ \ {r},
               ![t].issues = IF HasIssue(KeyAt(c.batch, r), c)
                             THEN @ \cup {c.batch[r[1]]} ELSE @]
        /\ UNCHANGED <<utxos, by_address, spends>>

\* The later stages, _stage_signature and _stage_final, touch nothing shared.
ReturnBatch(t) ==
    /\ call[t].name = "process_batch"
    /\ call[t].shards = {} /\ call[t].refs = {}
    /\ Return(t)
    /\ UNCHANGED <<utxos, by_address, spends>>

Next ==
    \E t \in Threads :
        \/ \E k \in Outpoints : AddUtxo(t, k)
        \/ IndexUtxo(t)
        \/ \E k \in Outpoints, tx \in Spenders : SpendUtxo(t, k, tx)
        \/ UnindexUtxo(t)
        \/ \E a \in Addresses, e \in Epochs : GetBalance(t, a, e)
        \/ \E k \in Outpoints : ReadUtxo(t, k)
        \/ ReturnBalance(t)
        \/ \E b \in Batches, e \in Epochs : ProcessBatch(t, b, e)
        \/ \E s \in Shards : LookupShard(t, s)
        \/ call[t].name = "process_batch" /\ \E r \in call[t].refs : CheckRef(t, r)
        \/ ReturnBatch(t)

Spec == Init /\ [][Next]_vars

-----------------------------------------------------------------------------
\* Properties

BalanceCalls ==
    [name : {"get_balance"}, address : Addresses, epoch : Epochs, keys : SUBSET Outpoints,
     counted : SUBSET Outpoints, before : SUBSET Outpoints, spent_before : SUBSET Outpoints]
BatchCalls ==
    [name : {"process_batch"}, batch : Batches, epoch : Epochs, refs : SUBSET (Nat \X Nat),
     shards : SUBSET Shards, found : SUBSET Outpoints, issues : SUBSET Transactions,
     before : SUBSET Outpoints, spent_before : SUBSET Outpoints]

Calls == {Idle} \cup [name : {"add_utxo", "spend_utxo"}, key : Outpoints]
             \cup BalanceCalls \cup BatchCalls

\* The shards, the index and the local variables of the calls keep their types.
ShardedTypeOK ==
    /\ utxos \in [Outpoints -> UTXOs \cup {None}]
    /\ by_address \in [Addresses -> SUBSET Outpoints]
    /\ call \in [Threads -> Calls]
    /\ spends \subseteq Outpoints \X Spenders

\* However spend_utxo calls for the same output race, at most one returns the
\* output, and it is the one recorded in spent_by.
SpentOnce ==
    \A k \in Outpoints, tx \in Spenders :
        <<k, tx>> \in spends <=> k \in Spent /\ utxos[k].spent_by = tx

\* The index may list outputs that are spent, but it never misses an unspent
\* one whose add_utxo has returned, although a spend_utxo of another output of
\* the address, or of the same one, may run between the two halves of add_utxo.
IndexCoversUnspent ==
    \A k \in Unspent \ BeingIndexed : k \in by_address[AddressOf[k]]

\* get_balance against concurrent adds and spends: it counts no output that was
\* spent when the call began, and it counts every mature output of the address
\* that was there when it began and is still unspent when it returns.
BalanceBetween ==
    \A t \in Threads :
        LET c == call[t]
        IN  c.name = "get_balance" =>
              /\ c.counted \cap c.spent_before = {}
              /\ c.keys = {} =>
                    \A k \in c.before \cap Unspent :
                        AddressOf[k] = c.address /\ LockEpoch[k] <= c.epoch => k \in c.counted

\* The UTXO stage of process_batch, which looks its outputs up before it reads
\* whether they are spent: no transaction passes with an input that was spent
\* when the call began, and none is refused whose inputs were all there then and
\* are still unspent when the stage ends.
BatchBetween ==
    \A t \in Threads :
        LET c == call[t]
            Mature(k) == LockEpoch[k] <= c.epoch
        IN  c.name = "process_batch" /\ c.refs = {} =>
              \A tx \in {x \in ToSet(c.batch) : x.wellformed} :
                  /\ tx \notin c.issues =>
                        \A k \in ToSet(tx.inputs) : k \in Added \ c.spent_before /\ Mature(k)
                  /\ (\A k \in ToSet(tx.inputs) : k \in c.before \cap Unspent /\ Mature(k)) =>
                        tx \notin c.issues
=============================================================================
