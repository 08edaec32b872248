---------------------------- MODULE StorageProofs ----------------------------
(***************************************************************************)
(* Proofs about Storage, for every chain of blocks and every number of     *)
(* crashes: the stored blocks form an append-only log, even when SQLite    *)
(* operations fail; until the first failure an epoch reported as finalized *)
(* is stored with all its transactions, the spent flags and the current    *)
(* epoch are right for blocks stored to the end with no earlier one stored *)
(* since, in whatever order; and replaying the stored blocks, a fold over  *)
(* the chain, gives exactly the outputs the confirmed blocks leave         *)
(* unspent.                                                                *)
(***************************************************************************)
EXTENDS Storage, SumProofs, SequenceTheorems, TLAPS

Shape ==
    /\ transactions \subseteq Txs
    /\ spent_by \in [Outpoints -> Txs \cup {None}]
    /\ blocks \in [Epochs -> Rows \cup {None}]
    /\ block_transactions \in [Epochs -> Seq(Txs)]
    /\ pending_blocks \in [Epochs -> Chain \cup {None}]
    /\ \A e \in Epochs : pending_blocks[e] # None => pending_blocks[e].epoch = e
    /\ job \in Jobs \cup {None}
    /\ job # None => job.tx # 0

\* the stored blocks are blocks of the chain, and other epochs are empty
LogInv ==
    \A e \in Epochs :
        /\ blocks[e] = None => block_transactions[e] = << >>
        /\ blocks[e] # None => StoredBlock(e) \in Chain

IInv == Shape /\ LogInv

------------------------------------------------------------------------------
\* A non-empty set of epochs has a largest element.
LEMMA MaximalElement ==
    ASSUME NEW n \in Nat, NEW S \in SUBSET (0 .. n), S # {}
    PROVE  \E e \in S : \A f \in S : f <= e
<1> DEFINE T == {n - e : e \in S}
           R == {p \in Nat \X Nat : p[1] < p[2]}
<1>a. T # {}
  <2>1. PICK e \in S : TRUE
    OBVIOUS
  <2>2. n - e \in T
    OBVIOUS
  <2> QED BY <2>2
<1>1. T \subseteq Nat /\ T # {}
  BY <1>a
<1>b. IsWellFoundedOn(R, Nat)
  BY NatLessThanWellFounded, Zenon DEF OpToRel
<1>2. \E x \in T : \A y \in T : ~ (<<y, x>> \in R)
  <2> HIDE DEF T, R
  <2> QED BY <1>1, <1>b, WFMin
<1>3. PICK x \in T : \A y \in T : ~ (<<y, x>> \in R)
  BY <1>2
<1>4. \A y \in T : ~ (y < x)
  <2> SUFFICES ASSUME NEW y \in T, y < x PROVE FALSE
    OBVIOUS
  <2>1. x \in Nat /\ y \in Nat
    BY <1>1
  <2>2. <<y, x>> \in R
    BY <2>1
  <2> QED BY <1>3, <2>2
<1>5. PICK e \in S : x = n - e
  OBVIOUS
<1>6. ASSUME NEW f \in S PROVE f <= e
  <2>1. n - f \in T
    OBVIOUS
  <2>2. ~ (n - f < n - e)
    BY <1>4, <1>5, <2>1
  <2> QED BY <2>2
<1> QED BY <1>6

LEMMA ChainBlock ==
    ASSUME NEW b \in Chain
    PROVE  /\ b.hash \in Hashes /\ b.epoch \in Epochs /\ b.transactions \in Seq(Txs)
           /\ b = [hash |-> b.hash, epoch |-> b.epoch, transactions |-> b.transactions]
           /\ b # None
BY StorageAssumption DEF Blocks

\* Storing the references of a block again, or for the first time, leaves
\* exactly them.
LEMMA OverwriteSame ==
    ASSUME NEW s \in Seq(Txs)
    PROVE  Overwrite(s, s) = s /\ Overwrite(<<>>, s) = s
<1>1. Len(s) \in Nat /\ s = [i \in 1 .. Len(s) |-> s[i]] /\ Len(<<>>) = 0
  OBVIOUS
<1>2. Overwrite(s, s) = [i \in 1 .. Len(s) |-> s[i]]
  BY <1>1 DEF Overwrite
<1>3. Overwrite(<<>>, s) = [i \in 1 .. Len(s) |-> s[i]]
  BY <1>1 DEF Overwrite
<1> QED BY <1>1, <1>2, <1>3

\* The state of a job after a step of the loop over the transactions
LEMMA JobSteps ==
    ASSUME job \in Jobs, job.tx # 0, AtTransaction, NEW k \in Nat
    PROVE  /\ MarkedUpTo(k) \in Jobs
           /\ MarkedUpTo(k).tx # 0
           /\ MarkedUpTo(k).block = job.block
           /\ MarkedUpTo(k).step = job.step
           /\ MarkedUpTo(k).finalizing = job.finalizing
           /\ Current \in Txs
           /\ Inputs[Current] \in Seq(Outpoints)
<1>1. job.block \in Chain /\ job.tx \in Nat \ {0}
  BY DEF Jobs
<1>2. Current \in Txs
  BY <1>1, ChainBlock DEF AtTransaction, Current
<1>3. Inputs[Current] \in Seq(Outpoints)
  BY <1>2, StorageAssumption
<1>4. /\ MarkedUpTo(k) \in Jobs
      /\ MarkedUpTo(k).tx # 0
      /\ MarkedUpTo(k).block = job.block
      /\ MarkedUpTo(k).step = job.step
      /\ MarkedUpTo(k).finalizing = job.finalizing
  <2>1. CASE k < Len(Inputs[Current])
    BY <1>1, <2>1 DEF MarkedUpTo, Jobs
  <2>2. CASE ~(k < Len(Inputs[Current]))
    <3>1. MarkedUpTo(k) = [job EXCEPT !.tx = job.tx + 1, !.input = 0]
      BY <2>2 DEF MarkedUpTo
    <3>2. job.tx + 1 \in Nat /\ job.tx + 1 # 0
      BY <1>1
    <3>3. MarkedUpTo(k) \in Jobs
      <4>1. ASSUME NEW n \in Nat PROVE [job EXCEPT !.tx = n, !.input = 0] \in Jobs
        BY DEF Jobs
      <4> QED BY <3>1, <3>2, <4>1
    <3>4. /\ MarkedUpTo(k).tx = job.tx + 1
          /\ MarkedUpTo(k).block = job.block
          /\ MarkedUpTo(k).step = job.step
          /\ MarkedUpTo(k).finalizing = job.finalizing
      BY <3>1 DEF Jobs
    <3> QED BY <3>2, <3>3, <3>4
  <2> QED BY <2>1, <2>2
<1> QED BY <1>2, <1>3, <1>4

LEMMA JobIsRecord ==
    ASSUME job \in Jobs PROVE job # None
BY StorageAssumption

LEMMA StartJobType ==
    ASSUME NEW b \in Chain, NEW f, f \in BOOLEAN
    PROVE  /\ StartJob(b, f) \in Jobs /\ StartJob(b, f) # None
           /\ StartJob(b, f).tx = 1 /\ StartJob(b, f).tx # 0 /\ StartJob(b, f).input = 0
           /\ StartJob(b, f).block = b /\ StartJob(b, f).step = "store_block"
<1>1. StartJob(b, f) \in Jobs
  BY DEF StartJob, Jobs
<1> QED BY <1>1, StorageAssumption DEF StartJob

\* What store_block does to a chain with one block per epoch: nothing if the
\* block is there, and otherwise it adds the row with its references.
LEMMA BlockRowEffect ==
    ASSUME OneBlockPerEpoch, IInv, NEW b \in Chain, BlockRow(b)
    PROVE  \/ /\ blocks[b.epoch] # None
              /\ StoredBlock(b.epoch) = b
              /\ UNCHANGED <<blocks, block_transactions>>
           \/ /\ blocks[b.epoch] = None
              /\ \E r \in Rows :
                    r.block_hash = b.hash /\ r.prev_hash = LatestHash
                      /\ blocks' = [blocks EXCEPT ![b.epoch] = r]
              /\ block_transactions' = [block_transactions EXCEPT ![b.epoch] = b.transactions]
<1>1. b.hash \in Hashes /\ b.epoch \in Epochs /\ b.transactions \in Seq(Txs)
  BY ChainBlock
<1>2. ASSUME NEW e \in Stored, blocks[e].block_hash = b.hash
      PROVE  e = b.epoch
  <2>1. e \in Epochs /\ blocks[e] # None
    BY DEF Stored
  <2>2. StoredBlock(e) \in Chain
    BY <2>1 DEF IInv, LogInv
  <2>3. StoredBlock(e).hash = b.hash /\ StoredBlock(e).epoch = e
    BY <1>2, <2>1 DEF StoredBlock, Stored
  <2> QED BY <2>2, <2>3 DEF OneBlockPerEpoch
<1>3. CASE blocks[b.epoch] # None
  <2>1. StoredBlock(b.epoch) \in Chain
    BY <1>1, <1>3 DEF IInv, LogInv
  <2>2. StoredBlock(b.epoch).epoch = b.epoch
        /\ StoredBlock(b.epoch).transactions = block_transactions[b.epoch]
    BY <1>1, <1>3 DEF StoredBlock, Stored
  <2>3. StoredBlock(b.epoch) = b /\ block_transactions[b.epoch] = b.transactions
    BY <2>1, <2>2 DEF OneBlockPerEpoch
  <2>4. Overwrite(block_transactions[b.epoch], b.transactions) = b.transactions
    BY <1>1, <2>3, OverwriteSame
  <2>5. blocks' = [blocks EXCEPT ![b.epoch] = blocks[b.epoch]]
        /\ block_transactions' = [block_transactions EXCEPT ![b.epoch] = b.transactions]
    BY <1>2, <1>3, <2>4 DEF BlockRow
  <2>6. UNCHANGED <<blocks, block_transactions>>
    BY <2>3, <2>5, <1>1 DEF IInv, Shape
  <2> QED BY <1>3, <2>3, <2>6
<1>4. CASE blocks[b.epoch] = None
  <2>1. LatestHash \in Hashes \cup {None}
    <3>1. CASE Stored = {}
      BY <3>1 DEF LatestHash
    <3>2. CASE Stored # {}
      <4>1. \E e \in Epochs : IsHeight(e)
        <5>1. Stored \subseteq 0 .. MaxEpoch
          BY DEF Stored, Epochs
        <5>2. \E e \in Stored : \A f \in Stored : f <= e
          BY <3>2, <5>1, MaximalElement, StorageAssumption
        <5> QED BY <5>1, <5>2 DEF IsHeight, Epochs
      <4>2. PICK e \in Epochs : e = (CHOOSE x \in Epochs : IsHeight(x)) /\ IsHeight(e)
        BY <4>1
      <4>3. blocks[e] \in Rows
        BY <4>2 DEF IsHeight, Stored, IInv, Shape
      <4> QED BY <3>2, <4>2, <4>3 DEF LatestHash, Rows
    <3> QED BY <3>1, <3>2
  <2> DEFINE r == [block_hash |-> b.hash, prev_hash |-> LatestHash, tx_count |-> Len(b.transactions)]
  <2>2. r \in Rows
    BY <1>1, <2>1 DEF Rows
  <2>3. Overwrite(block_transactions[b.epoch], b.transactions) = b.transactions
    BY <1>1, <1>4, OverwriteSame DEF IInv, LogInv
  <2>4. blocks' = [blocks EXCEPT ![b.epoch] = r]
        /\ block_transactions' = [block_transactions EXCEPT ![b.epoch] = b.transactions]
    BY <1>2, <1>4, <2>3 DEF BlockRow
  <2> QED BY <1>4, <2>2, <2>4
<1> QED BY <1>3, <1>4

------------------------------------------------------------------------------
(* The inductive invariant *)

LEMMA InitIInv == Init => IInv
<1> SUFFICES ASSUME Init PROVE IInv
  OBVIOUS
<1>1. \A e \in Epochs : blocks[e] = None /\ block_transactions[e] = << >>
  BY DEF Init
<1>2. Shape
  BY DEF Init, Shape, NothingPending
<1> QED BY <1>1, <1>2 DEF IInv, LogInv

\* get_block depends on blocks.db only.
LEMMA LogInvFrame ==
    ASSUME LogInv, UNCHANGED <<blocks, block_transactions>>
    PROVE  LogInv' /\ \A e \in Epochs : StoredBlock(e)' = StoredBlock(e)
BY DEF LogInv, StoredBlock, Stored

\* The steps of the loop over the transactions
LEMMA LoopShape ==
    ASSUME Shape, AtTransaction, NEW k \in Nat, job' = MarkedUpTo(k),
           transactions' \subseteq Txs, spent_by' \in [Outpoints -> Txs \cup {None}],
           UNCHANGED <<blocks, block_transactions, pending_blocks>>
    PROVE  Shape'
<1>1. job \in Jobs /\ job.tx # 0
  BY DEF Shape, AtTransaction
<1>2. job' \in Jobs /\ job'.tx # 0
  BY <1>1, JobSteps
<1> QED BY <1>2 DEF Shape

\* A job that starts, moves to another step or ends
LEMMA JobShape ==
    ASSUME Shape, UNCHANGED <<transactions, spent_by, blocks, block_transactions>>,
           UNCHANGED pending_blocks,
           job' \in Jobs \cup {None}, job' # None => job'.tx # 0
    PROVE  Shape'
BY DEF Shape

LEMMA NextStepType ==
    ASSUME Shape, job # None, NEW s \in {"set_current_epoch", "finalized"}
    PROVE  /\ [job EXCEPT !.step = s] \in Jobs
           /\ [job EXCEPT !.step = s].tx = job.tx /\ job.tx # 0
           /\ [job EXCEPT !.step = s].input = job.input
           /\ [job EXCEPT !.step = s].block = job.block
           /\ [job EXCEPT !.step = s].step = s
BY DEF Shape, Jobs

LEMMA StepIInv ==
    ASSUME OneBlockPerEpoch, IInv, [Next]_vars
    PROVE  IInv'
<1> USE DEF IInv
<1>1. ASSUME NEW b \in Chain, QueueForFinalization(b) PROVE IInv'
  <2>1. b.epoch \in Epochs
    BY ChainBlock
  <2>2. pending_blocks' \in [Epochs -> Chain \cup {None}]
        /\ \A e \in Epochs : pending_blocks'[e] # None => pending_blocks'[e].epoch = e
    BY <1>1, <2>1 DEF QueueForFinalization, Shape
  <2>3. Shape'
    BY <1>1, <2>2 DEF QueueForFinalization, Shape, durable
  <2> QED BY <1>1, <2>3, LogInvFrame DEF QueueForFinalization, durable
<1>2. ASSUME NEW e \in Epochs, Finalize(e) PROVE IInv'
  <2>1. pending_blocks[e] \in Chain
    BY <1>2 DEF Finalize, Shape
  <2>2. job' \in Jobs /\ job'.tx # 0
    <3>1. TRUE \in BOOLEAN
      OBVIOUS
    <3>2. StartJob(pending_blocks[e], TRUE) \in Jobs /\ StartJob(pending_blocks[e], TRUE).tx # 0
      BY <2>1, <3>1, StartJobType, Zenon
    <3> QED BY <1>2, <3>2, Zenon DEF Finalize, BeginStore
  <2>3. Shape'
    BY <1>2, <2>2, JobShape DEF Finalize, durable
  <2> QED BY <1>2, <2>3, LogInvFrame DEF Finalize, durable
<1>3. ASSUME NEW b \in Chain, ApplyBlock(b) PROVE IInv'
  <2>2. job' \in Jobs /\ job'.tx # 0
    <3>1. FALSE \in BOOLEAN
      OBVIOUS
    <3>2. StartJob(b, FALSE) \in Jobs /\ StartJob(b, FALSE).tx # 0
      BY <3>1, StartJobType, Zenon
    <3> QED BY <1>3, <3>2, Zenon DEF ApplyBlock, BeginStore
  <2>3. Shape'
    BY <1>3, <2>2, JobShape DEF ApplyBlock, durable
  <2> QED BY <1>3, <2>3, LogInvFrame DEF ApplyBlock, durable
<1>4. ASSUME StoreTransaction PROVE IInv'
  <2>1. Current \in Txs
    BY <1>4, JobSteps DEF StoreTransaction, AtTransaction, Shape
  <2>2. transactions' \subseteq Txs /\ spent_by' \in [Outpoints -> Txs \cup {None}]
    BY <1>4, <2>1 DEF StoreTransaction, TransactionRows, Shape
  <2>3. Shape'
    BY <1>4, <2>2, LoopShape DEF StoreTransaction
  <2> QED BY <1>4, <2>3, LogInvFrame DEF StoreTransaction
<1>5. ASSUME MarkOutputSpent PROVE IInv'
  <2>1. Current \in Txs /\ job.input \in Nat
    BY <1>5, JobSteps DEF MarkOutputSpent, AtTransaction, Shape, Jobs
  <2>2. transactions' \subseteq Txs /\ spent_by' \in [Outpoints -> Txs \cup {None}]
    BY <1>5, <2>1 DEF MarkOutputSpent, Shape
  <2>3. Shape'
    BY <1>5, <2>1, <2>2, LoopShape DEF MarkOutputSpent
  <2> QED BY <1>5, <2>3, LogInvFrame DEF MarkOutputSpent
<1>6. ASSUME StoreBlock PROVE IInv'
  <2>1. job \in Jobs /\ job.block \in Chain /\ job # None
    BY <1>6 DEF StoreBlock, AtStep, Shape, Jobs
  <2>2. job' \in Jobs \cup {None} /\ (job' # None => job'.tx # 0)
    BY <1>6, <2>1, NextStepType DEF StoreBlock
  <2>3. CASE UNCHANGED <<blocks, block_transactions>>
    <3>1. Shape'
      BY <1>6, <2>2, <2>3, JobShape DEF StoreBlock
    <3> QED BY <2>3, <3>1, LogInvFrame
  <2>4. CASE BlockRow(job.block)
    <3>0. PICK b \in Chain : b = job.block
      BY <2>1
    <3>1. b \in Chain /\ b.epoch \in Epochs /\ b.transactions \in Seq(Txs)
      BY <2>1, ChainBlock
    <3>2. CASE blocks[b.epoch] # None
      BY <2>3, <2>4, <3>0, <3>2, BlockRowEffect
    <3>3. CASE blocks[b.epoch] = None
      <4>1. PICK r \in Rows : r.block_hash = b.hash /\ blocks' = [blocks EXCEPT ![b.epoch] = r]
        BY <2>4, <3>0, <3>3, BlockRowEffect
      <4>2. block_transactions' = [block_transactions EXCEPT ![b.epoch] = b.transactions]
        BY <2>4, <3>0, <3>3, BlockRowEffect
      <4>3. r # None
        BY StorageAssumption
      <4>4. Shape'
        BY <1>6, <2>2, <3>1, <4>1, <4>2 DEF Shape, StoreBlock
      <4>5. ASSUME NEW e \in Epochs, e # b.epoch
            PROVE  blocks'[e] = blocks[e] /\ block_transactions'[e] = block_transactions[e]
        BY <4>1, <4>2, <4>5 DEF Shape
      <4>6. blocks'[b.epoch] = r /\ block_transactions'[b.epoch] = b.transactions
        BY <3>1, <4>1, <4>2 DEF Shape
      <4>7. StoredBlock(b.epoch)' = [hash |-> b.hash, epoch |-> b.epoch, transactions |-> b.transactions]
        BY <3>1, <4>1, <4>3, <4>6 DEF StoredBlock, Stored
      <4>8. StoredBlock(b.epoch)' \in Chain
        BY <3>1, <4>7, ChainBlock
      <4>9. ASSUME NEW e \in Epochs, e # b.epoch
            PROVE  StoredBlock(e)' = StoredBlock(e)
        BY <4>5, <4>9 DEF StoredBlock, Stored
      <4>10. LogInv'
        BY <3>1, <4>3, <4>5, <4>6, <4>8, <4>9 DEF LogInv
      <4> QED BY <4>4, <4>10
    <3> QED BY <3>2, <3>3
  <2> QED BY <1>6, <2>3, <2>4 DEF StoreBlock
<1>7. ASSUME SetCurrentEpoch PROVE IInv'
  <2>1. job' \in Jobs \cup {None} /\ (job' # None => job'.tx # 0)
    BY <1>7, NextStepType DEF SetCurrentEpoch, AtStep
  <2>2. Shape'
    BY <1>7, <2>1, JobShape DEF SetCurrentEpoch
  <2> QED BY <1>7, <2>2, LogInvFrame DEF SetCurrentEpoch
<1>8. ASSUME Finalized PROVE IInv'
  <2>1. pending_blocks' \in [Epochs -> Chain \cup {None}]
        /\ \A e \in Epochs : pending_blocks'[e] # None => pending_blocks'[e].epoch = e
    BY <1>8 DEF Finalized, Shape
  <2>2. Shape'
    BY <1>8, <2>1 DEF Finalized, Shape
  <2> QED BY <1>8, <2>2, LogInvFrame DEF Finalized
<1>9. ASSUME RebuildUtxoSet PROVE IInv'
  <2>1. UNCHANGED <<durable, pending_blocks, job>>
    BY <1>9 DEF RebuildUtxoSet
  <2>2. Shape'
    BY <2>1 DEF Shape, durable
  <2> QED BY <2>1, <2>2, LogInvFrame DEF durable
<1>10. ASSUME Crash PROVE IInv'
  <2>1. Shape'
    BY <1>10 DEF Crash, durable, Shape, NothingPending
  <2> QED BY <1>10, <2>1, LogInvFrame DEF Crash, durable
<1>11. ASSUME UNCHANGED vars PROVE IInv'
  <2>1. Shape'
    BY <1>11 DEF vars, durable, memory, Shape
  <2> QED BY <1>11, <2>1, LogInvFrame DEF vars, durable
<1> QED BY <1>1, <1>2, <1>3, <1>4, <1>5, <1>6, <1>7, <1>8, <1>9, <1>10, <1>11 DEF Next

LEMMA InvariantIInv ==
    ASSUME OneBlockPerEpoch
    PROVE  Spec => []IInv
<1>1. IInv /\ [Next]_vars => IInv'
  BY StepIInv
<1> QED BY <1>1, InitIInv, PTL DEF Spec

------------------------------------------------------------------------------
(* The append-only log *)

\* blocks.db changes in store_block only, where a block that is not there is
\* added with its references.
LEMMA StepAppends ==
    ASSUME OneBlockPerEpoch, IInv, [Next]_vars
    PROVE  \/ UNCHANGED <<blocks, block_transactions>>
           \/ \E b \in Chain :
                 /\ StoreBlock /\ job.block = b
                 /\ blocks[b.epoch] = None
                 /\ \E r \in Rows : /\ r.block_hash = b.hash /\ r.prev_hash = LatestHash
                                    /\ blocks' = [blocks EXCEPT ![b.epoch] = r]
                 /\ block_transactions' = [block_transactions EXCEPT ![b.epoch] = b.transactions]
<1>1. CASE StoreBlock /\ BlockRow(job.block)
  <2>1. job.block \in Chain
    BY <1>1 DEF StoreBlock, AtStep, IInv, Shape, Jobs
  <2> QED BY <1>1, <2>1, BlockRowEffect
<1>2. CASE StoreBlock /\ ~BlockRow(job.block)
  BY <1>2 DEF StoreBlock
<1>3. CASE ~StoreBlock
  BY <1>3 DEF Next, QueueForFinalization, Finalize, ApplyBlock, StoreTransaction, MarkOutputSpent,
              SetCurrentEpoch, Finalized, RebuildUtxoSet, Crash, vars, durable
<1> QED BY <1>1, <1>2, <1>3

\* Storage implements the append-only block log: a block appears in one step,
\* with its transactions, and never changes (BlockStore.store_block), for any
\* chain with one block per epoch, any crashes and any failing SQLite operation.
THEOREM StorageIsABlockLog ==
    ASSUME OneBlockPerEpoch
    PROVE  Spec => ImplementsBlockLog
<1>1. Init => Log!Init
  BY DEF Init, Log!Init, StoredBlock, Stored
<1>2. ASSUME IInv, [Next]_vars
      PROVE  [Log!Next]_([e \in Epochs |-> StoredBlock(e)])
  <2>1. CASE UNCHANGED <<blocks, block_transactions>>
    <3>1. \A e \in Epochs : StoredBlock(e)' = StoredBlock(e)
      BY <1>2, <2>1, LogInvFrame DEF IInv
    <3>2. Epochs' = Epochs
      BY DEF Epochs
    <3> QED BY <3>1, <3>2
  <2>2. ASSUME NEW b \in Chain, blocks[b.epoch] = None,
               NEW r \in Rows, r.block_hash = b.hash,
               blocks' = [blocks EXCEPT ![b.epoch] = r],
               block_transactions' = [block_transactions EXCEPT ![b.epoch] = b.transactions]
        PROVE  Log!Append(b)
    <3>1. b.epoch \in Epochs /\ r # None
      BY ChainBlock, StorageAssumption
    <3>2. StoredBlock(b.epoch) = None
      BY <2>2 DEF StoredBlock, Stored
    <3>3. blocks'[b.epoch] = r /\ block_transactions'[b.epoch] = b.transactions
      BY <1>2, <2>2, <3>1 DEF IInv, Shape
    <3>4. StoredBlock(b.epoch)' = b
      BY <2>2, <3>1, <3>3, ChainBlock DEF StoredBlock, Stored
    <3>5. ASSUME NEW e \in Epochs, e # b.epoch
          PROVE  StoredBlock(e)' = StoredBlock(e)
      BY <1>2, <2>2, <3>5 DEF StoredBlock, Stored, IInv, Shape
    <3>6. [e \in Epochs |-> StoredBlock(e)'] =
          [[e \in Epochs |-> StoredBlock(e)] EXCEPT ![b.epoch] = b]
      BY <3>1, <3>4, <3>5
    <3>7. [e \in Epochs |-> StoredBlock(e)]' = [e \in Epochs |-> StoredBlock(e)']
      BY DEF Epochs
    <3> QED BY <3>1, <3>2, <3>6, <3>7 DEF Log!Append
  <2> QED BY <1>2, <2>1, <2>2, StepAppends DEF Log!Next
<1>3. IInv /\ [Next]_vars => [Log!Next]_([e \in Epochs |-> StoredBlock(e)])
  BY <1>2
<1> QED BY <1>1, <1>3, InvariantIInv, PTL DEF Spec, ImplementsBlockLog, Log!Spec

------------------------------------------------------------------------------
(* Finalized epochs are stored *)

\* what the running job has written so far
Written(j) ==
    /\ \A k \in DOMAIN j.block.transactions :
          k < j.tx \/ (k = j.tx /\ j.input # 0) => j.block.transactions[k] \in transactions
    /\ j.step # "store_block" => j.block.epoch \in Stored /\ j.tx > Len(j.block.transactions)

WriteInv ==
    /\ \A e \in Stored : ToSet(block_transactions[e]) \subseteq transactions
    /\ finalized_epochs \subseteq Stored
    /\ job # None => Written(job)

\* Rows are never deleted.
LEMMA StoredGrows ==
    ASSUME OneBlockPerEpoch, IInv, [Next]_vars
    PROVE  /\ Stored \subseteq Stored' /\ transactions \subseteq transactions'
           /\ \A e \in Stored : blocks'[e] = blocks[e] /\ block_transactions'[e] = block_transactions[e]
           /\ \A e \in Stored' \ Stored : StoreBlock /\ e = job.block.epoch
                                          /\ block_transactions'[e] = job.block.transactions
                                          /\ blocks'[e].block_hash = job.block.hash
<1>1. transactions \subseteq transactions'
  BY DEF Next, QueueForFinalization, Finalize, ApplyBlock, StoreTransaction, TransactionRows,
         MarkOutputSpent, StoreBlock, SetCurrentEpoch, Finalized, RebuildUtxoSet, Crash, vars, durable
<1>2. CASE UNCHANGED <<blocks, block_transactions>>
  BY <1>1, <1>2 DEF Stored
<1>3. ASSUME NEW b \in Chain, StoreBlock, job.block = b, blocks[b.epoch] = None,
             NEW r \in Rows, r.block_hash = b.hash, blocks' = [blocks EXCEPT ![b.epoch] = r],
             block_transactions' = [block_transactions EXCEPT ![b.epoch] = b.transactions]
      PROVE  /\ Stored \subseteq Stored'
             /\ \A e \in Stored : blocks'[e] = blocks[e] /\ block_transactions'[e] = block_transactions[e]
             /\ \A e \in Stored' \ Stored : StoreBlock /\ e = job.block.epoch
                                            /\ block_transactions'[e] = job.block.transactions
                                            /\ blocks'[e].block_hash = job.block.hash
  <2>1. b.epoch \in Epochs /\ r # None
    BY ChainBlock, StorageAssumption
  <2>2. \A e \in Epochs : e # b.epoch => blocks'[e] = blocks[e] /\ block_transactions'[e] = block_transactions[e]
    BY <1>3 DEF IInv, Shape
  <2>3. blocks'[b.epoch] = r /\ block_transactions'[b.epoch] = b.transactions
    BY <1>3, <2>1 DEF IInv, Shape
  <2>4. Epochs' = Epochs
    BY DEF Epochs
  <2> QED BY <1>3, <2>1, <2>2, <2>3, <2>4 DEF Stored
<1> QED BY <1>1, <1>2, <1>3, StepAppends

LEMMA StepWriteInv ==
    ASSUME OneBlockPerEpoch, ~Fault, IInv, WriteInv, [Next]_vars
    PROVE  WriteInv'
<1>1. Stored \subseteq Stored' /\ transactions \subseteq transactions'
  BY StoredGrows
<1>2. ASSUME NEW e \in Stored' PROVE ToSet(block_transactions'[e]) \subseteq transactions'
  <2>1. CASE e \in Stored
    BY <1>1, <2>1, StoredGrows DEF WriteInv
  <2>2. CASE e \notin Stored
    <3>1. StoreBlock /\ block_transactions'[e] = job.block.transactions
      BY <2>2, StoredGrows
    <3>2. job \in Jobs /\ job # None /\ job.tx > Len(job.block.transactions)
      BY <3>1 DEF StoreBlock, AtStep, IInv, Shape
    <3>3. job.block.transactions \in Seq(Txs) /\ job.tx \in Nat
      BY <3>2, ChainBlock DEF Jobs
    <3>4. \A k \in DOMAIN job.block.transactions : job.block.transactions[k] \in transactions
      BY <3>2, <3>3 DEF WriteInv, Written
    <3> QED BY <1>1, <3>1, <3>4 DEF ToSet
  <2> QED BY <2>1, <2>2
<1>3. finalized_epochs' \subseteq Stored'
  <2>1. CASE Finalized
    <3>1. job.block.epoch \in Stored
      BY <2>1 DEF Finalized, AtStep, WriteInv, Written
    <3> QED BY <1>1, <2>1, <3>1 DEF Finalized, WriteInv
  <2>2. CASE ~Finalized
    <3>1. finalized_epochs' \subseteq finalized_epochs
      BY <2>2 DEF Next, QueueForFinalization, Finalize, ApplyBlock, StoreTransaction, MarkOutputSpent,
                  StoreBlock, SetCurrentEpoch, RebuildUtxoSet, Crash, vars, memory
    <3> QED BY <1>1, <3>1 DEF WriteInv
  <2> QED BY <2>1, <2>2
<1>4. ASSUME job' # None PROVE Written(job)'
  <2>1. CASE job' = job
    BY <1>1, <1>4, <2>1 DEF WriteInv, Written
  <2>2. ASSUME NEW b \in Chain, NEW f \in BOOLEAN, job' = StartJob(b, f) PROVE Written(job)'
    <3>1. job'.tx = 1 /\ job'.input = 0 /\ job'.step = "store_block" /\ job'.block = b
      BY <2>2, StartJobType
    <3>2. \A k \in DOMAIN b.transactions : k \in Nat \ {0}
      BY ChainBlock
    <3> QED BY <3>1, <3>2 DEF Written
  <2>3. ASSUME AtTransaction, NEW k \in Nat, job' = MarkedUpTo(k), Current \in transactions'
        PROVE  Written(job)'
    <3>1. job \in Jobs /\ job.tx # 0 /\ job # None /\ job.tx \in Nat
      BY <2>3 DEF AtTransaction, IInv, Shape, Jobs
    <3>2. job'.block = job.block /\ job'.step = job.step
      BY <2>3, <3>1, JobSteps
    <3>3. job.step = "store_block"
      <4>1. job.block.transactions \in Seq(Txs)
        BY <3>1, ChainBlock DEF Jobs
      <4> QED BY <2>3, <3>1, <4>1 DEF AtTransaction, WriteInv, Written
    <3>4. job'.tx = job.tx \/ (job'.tx = job.tx + 1 /\ job'.input = 0)
      BY <2>3, <3>1 DEF MarkedUpTo, Jobs
    <3>5. ASSUME NEW i \in DOMAIN job.block.transactions, i < job'.tx \/ (i = job'.tx /\ job'.input # 0)
          PROVE  job.block.transactions[i] \in transactions'
      <4>1. i \in Nat
        BY <3>1, ChainBlock DEF Jobs
      <4>2. CASE i = job.tx
        BY <2>3, <4>2 DEF Current
      <4>3. CASE i # job.tx
        <5>1. i < job.tx
          BY <3>1, <3>4, <3>5, <4>1, <4>3
        <5> QED BY <1>1, <3>1, <5>1 DEF WriteInv, Written
      <4> QED BY <4>2, <4>3
    <3> QED BY <3>2, <3>3, <3>5 DEF Written
  <2>4. ASSUME job # None, NEW s \in {"set_current_epoch", "finalized"}, job' = [job EXCEPT !.step = s],
               job.block.epoch \in Stored', job.tx > Len(job.block.transactions)
        PROVE  Written(job)'
    <3>1. /\ job'.tx = job.tx /\ job'.input = job.input /\ job'.block = job.block
      BY <2>4, NextStepType DEF IInv
    <3> QED BY <1>1, <2>4, <3>1 DEF WriteInv, Written
  <2>5. ASSUME NEW e \in Epochs, Finalize(e) PROVE Written(job)'
    <3>1. pending_blocks[e] \in Chain
      BY <2>5 DEF Finalize, IInv, Shape
    <3>2. TRUE \in BOOLEAN
      OBVIOUS
    <3> QED BY <2>2, <2>5, <3>1, <3>2, Zenon DEF Finalize, BeginStore
  <2>6. ASSUME NEW b \in Chain, ApplyBlock(b) PROVE Written(job)'
    <3>1. FALSE \in BOOLEAN
      OBVIOUS
    <3> QED BY <2>2, <2>6, <3>1, Zenon DEF ApplyBlock, BeginStore
  <2>7. CASE StoreTransaction
    <3>1. Current \in transactions'
      BY <2>7 DEF StoreTransaction, TransactionRows
    <3> QED BY <2>3, <2>7, <3>1 DEF StoreTransaction
  <2>8. CASE MarkOutputSpent
    <3>1. job \in Jobs /\ job # None
      BY <2>8 DEF MarkOutputSpent, AtTransaction, IInv, Shape
    <3>2. job.input \in Nat /\ job.tx \in Nat \ {0} /\ job.block.transactions \in Seq(Txs)
      BY <3>1, ChainBlock DEF Jobs, IInv, Shape
    <3>3. job.tx \in DOMAIN job.block.transactions
      BY <2>8, <3>2 DEF MarkOutputSpent, AtTransaction
    <3>4. Current \in transactions'
      BY <1>1, <2>8, <3>1, <3>3 DEF MarkOutputSpent, WriteInv, Written, Current
    <3> QED BY <2>3, <2>8, <3>2, <3>4 DEF MarkOutputSpent
  <2>9. CASE StoreBlock
    <3>1. job \in Jobs /\ job # None /\ job.block \in Chain /\ job.block.epoch \in Epochs
      BY <2>9, ChainBlock DEF StoreBlock, AtStep, IInv, Shape, Jobs
    <3>2. BlockRow(job.block) /\ job' = [job EXCEPT !.step = "set_current_epoch"]
      BY <2>9 DEF StoreBlock
    <3>3. job.block.epoch \in Stored'
      <4>1. PICK b \in Chain : b = job.block
        BY <3>1
      <4>2. CASE blocks[b.epoch] # None
        BY <1>1, <3>1, <4>1, <4>2 DEF Stored
      <4>3. CASE blocks[b.epoch] = None
        <5>1. PICK r \in Rows : blocks' = [blocks EXCEPT ![b.epoch] = r]
          BY <3>2, <4>1, <4>3, BlockRowEffect
        <5>2. r # None
          BY StorageAssumption
        <5>3. b.epoch \in Stored'
          BY <3>1, <4>1, <5>1, <5>2 DEF Stored, IInv, Shape
        <5> QED BY <4>1, <5>3
      <4> QED BY <4>2, <4>3
    <3> QED BY <2>4, <2>9, <3>1, <3>2, <3>3 DEF StoreBlock, AtStep
  <2>10. CASE SetCurrentEpoch
    <3>1. job # None /\ job.tx > Len(job.block.transactions) /\ job.block.epoch \in Stored
      BY <2>10 DEF SetCurrentEpoch, AtStep, WriteInv, Written
    <3>2. job' = [job EXCEPT !.step = "finalized"]
      BY <1>4, <2>10 DEF SetCurrentEpoch
    <3> QED BY <1>1, <2>4, <3>1, <3>2
  <2>11. CASE Finalized \/ Crash
    BY <1>4, <2>11 DEF Finalized, Crash
  <2>12. CASE RebuildUtxoSet \/ UNCHANGED vars
    BY <2>1, <2>12 DEF RebuildUtxoSet, vars, memory
  <2>13. CASE \E b \in Chain : QueueForFinalization(b)
    BY <2>1, <2>13 DEF QueueForFinalization
  <2> QED BY <2>5, <2>6, <2>7, <2>8, <2>9, <2>10, <2>11, <2>12, <2>13 DEF Next
<1> QED BY <1>2, <1>3, <1>4 DEF WriteInv

\* A step fails, or leaves the count of failures alone.
LEMMA CountsFault ==
    ASSUME [Next]_vars
    PROVE  Fault \/ faults' = faults
BY DEF Next, QueueForFinalization, Finalize, ApplyBlock, StoreTransaction, MarkOutputSpent,
       StoreBlock, SetCurrentEpoch, Finalized, RebuildUtxoSet, Crash, vars

LEMMA FaultsCounted == Spec => [](faults \in Nat)
<1>1. Init => faults \in Nat
  BY DEF Init
<1>2. faults \in Nat /\ [Next]_vars => (faults \in Nat)'
  BY CountsFault DEF Fault
<1> QED BY <1>1, <1>2, PTL DEF Spec

\* While no failure has been counted, none has happened.
LEMMA NoFault ==
    ASSUME faults \in Nat, [Next]_vars, faults' = 0
    PROVE  faults = 0 /\ ~Fault
BY CountsFault DEF Fault

\* As long as no SQLite operation has failed, an epoch BlockFinalizer.finalize
\* reports as finalized has its block and every transaction of it stored,
\* whatever crashes happened and in whatever order blocks were stored.
THEOREM FinalizedEpochsAreStored ==
    ASSUME OneBlockPerEpoch
    PROVE  Spec => []FinalizedIsStored
<1> DEFINE Inv == faults = 0 => WriteInv
<1>1. Init => Inv
  BY DEF Init, WriteInv, Stored
<1>2. faults \in Nat /\ IInv /\ Inv /\ [Next]_vars => Inv'
  BY StepWriteInv, NoFault
<1>3. Inv => FinalizedIsStored
  BY DEF WriteInv, FinalizedIsStored
<1> HIDE DEF Inv
<1> QED BY <1>1, <1>2, <1>3, InvariantIInv, FaultsCounted, PTL DEF Spec

------------------------------------------------------------------------------
(* Spent flags *)

\* While a block is stored, no later one is settled.
SettledInv ==
    /\ settled \subseteq Chain
    /\ job # None => \A c \in settled : c.epoch <= job.block.epoch

LEMMA StepSettledInv ==
    ASSUME IInv, SettledInv, [Next]_vars
    PROVE  SettledInv'
<1>1. ASSUME NEW b \in Chain, NEW f \in BOOLEAN, BeginStore(b, f) PROVE SettledInv'
  <2>1. job'.block = b /\ settled' = {c \in settled : c.epoch < b.epoch}
    BY <1>1, StartJobType DEF BeginStore
  <2>2. \A c \in Chain : c.epoch \in Nat
    BY ChainBlock, StorageAssumption DEF Epochs
  <2> QED BY <2>1, <2>2 DEF SettledInv
<1>2. ASSUME settled' = settled, job' # None => job # None /\ job'.block = job.block
      PROVE  SettledInv'
  BY <1>2 DEF SettledInv
<1>3. ASSUME NEW e \in Epochs, Finalize(e) PROVE SettledInv'
  <2>1. pending_blocks[e] \in Chain
    BY <1>3 DEF Finalize, IInv, Shape
  <2>2. TRUE \in BOOLEAN
    OBVIOUS
  <2> QED BY <1>1, <1>3, <2>1, <2>2, Zenon DEF Finalize
<1>4. ASSUME NEW b \in Chain, ApplyBlock(b) PROVE SettledInv'
  <2>1. FALSE \in BOOLEAN
    OBVIOUS
  <2> QED BY <1>1, <1>4, <2>1, Zenon DEF ApplyBlock
<1>5. CASE StoreTransaction \/ MarkOutputSpent
  <2>1. job \in Jobs /\ job.tx # 0 /\ AtTransaction /\ job # None /\ job.input \in Nat
    BY <1>5 DEF StoreTransaction, MarkOutputSpent, AtTransaction, IInv, Shape, Jobs
  <2>2. job'.block = job.block /\ settled' = settled
    BY <1>5, <2>1, JobSteps DEF StoreTransaction, MarkOutputSpent
  <2> QED BY <1>2, <2>1, <2>2
<1>6. CASE StoreBlock
  <2>1. job # None /\ settled' = settled
    BY <1>6 DEF StoreBlock, AtStep
  <2>2. job' # None => job'.block = job.block
    BY <1>6, <2>1, NextStepType DEF StoreBlock, IInv
  <2> QED BY <1>2, <2>1, <2>2
<1>7. CASE SetCurrentEpoch
  <2>1. job # None /\ job \in Jobs /\ job.block \in Chain
    BY <1>7 DEF SetCurrentEpoch, AtStep, IInv, Shape, Jobs
  <2>2. job' # None => job'.block = job.block
    BY <1>7, <2>1, NextStepType DEF SetCurrentEpoch, IInv
  <2>3. settled' \subseteq settled \cup {job.block}
    BY <1>7 DEF SetCurrentEpoch
  <2>4. job.block.epoch <= job.block.epoch
    BY <2>1, ChainBlock, StorageAssumption DEF Epochs
  <2> QED BY <2>1, <2>2, <2>3, <2>4 DEF SettledInv
<1>8. CASE Finalized \/ Crash \/ RebuildUtxoSet \/ UNCHANGED vars
            \/ \E b \in Chain : QueueForFinalization(b)
  BY <1>2, <1>8 DEF Finalized, Crash, RebuildUtxoSet, QueueForFinalization, vars, memory
<1> QED BY <1>3, <1>4, <1>5, <1>6, <1>7, <1>8 DEF Next

LEMMA InvariantSettled ==
    ASSUME OneBlockPerEpoch
    PROVE  Spec => []SettledInv
<1>1. Init => SettledInv
  BY DEF Init, SettledInv
<1>2. IInv /\ SettledInv /\ [Next]_vars => SettledInv'
  BY StepSettledInv
<1> QED BY <1>1, <1>2, InvariantIInv, PTL DEF Spec

\* the row of outpoint o, if it is there, says that t spends it
MarkedBy(o, t) == o[1] \in transactions => spent_by[o] = t

\* what the running job has marked so far
MarkedSoFar(j) ==
    /\ \A k \in DOMAIN j.block.transactions : k < j.tx =>
          \A o \in ToSet(Inputs[j.block.transactions[k]]) : MarkedBy(o, j.block.transactions[k])
    /\ j.input # 0 =>
          LET t == j.block.transactions[j.tx]
          IN  /\ j.tx \in DOMAIN j.block.transactions
              /\ j.input \in DOMAIN Inputs[t]
              /\ \A i \in DOMAIN Inputs[t] : i < j.input => MarkedBy(Inputs[t][i], t)

MarksInv ==
    /\ \A c \in settled : SpendsMarked(c)
    /\ job # None => MarkedSoFar(job)

\* Writing a transaction of a block leaves the marks of transactions of this and
\* of earlier blocks as they are: it creates none of their inputs
\* (ValidChain) and spends none of them.
LEMMA KeepsMarks ==
    ASSUME ValidChain, IInv, MarksInv, StoreTransaction \/ MarkOutputSpent,
           NEW c \in Chain, c.epoch <= job.block.epoch,
           NEW t \in ToSet(c.transactions), NEW o \in ToSet(Inputs[t]), MarkedBy(o, t)
    PROVE  MarkedBy(o, t)'
<1>1. job \in Jobs /\ job # None /\ AtTransaction /\ job.tx # 0 /\ job.block \in Chain
  BY DEF StoreTransaction, MarkOutputSpent, AtTransaction, IInv, Shape, Jobs
<1>2. Current \in ToSet(job.block.transactions)
  <2>1. job.block.transactions \in Seq(Txs) /\ job.tx \in Nat
    BY <1>1, ChainBlock DEF Jobs
  <2>2. job.tx \in DOMAIN job.block.transactions
    BY <1>1, <2>1 DEF AtTransaction
  <2> QED BY <2>2 DEF Current, ToSet
<1>3. t \in Txs /\ o \in Outpoints
  <2>1. c.transactions \in Seq(Txs)
    BY ChainBlock
  <2>2. t \in Txs
    BY <2>1 DEF ToSet
  <2>3. Inputs[t] \in Seq(Outpoints)
    BY <2>2, StorageAssumption
  <2> QED BY <2>2, <2>3 DEF ToSet
<1>4. CASE StoreTransaction
  <2>1. o[1] # Current
    <3>1. o[1] = Current => job.block.epoch < c.epoch
      BY <1>1, <1>2 DEF ValidChain
    <3>2. job.block.epoch \in Nat /\ c.epoch \in Nat
      BY <1>1, ChainBlock, StorageAssumption DEF Epochs
    <3> QED BY <3>1, <3>2
  <2>2. CASE TransactionRows(Current)
    BY <1>3, <2>1, <2>2 DEF TransactionRows, MarkedBy
  <2>3. CASE UNCHANGED <<transactions, spent_by>>
    BY <2>3 DEF MarkedBy
  <2> QED BY <1>4, <2>2, <2>3 DEF StoreTransaction
<1>5. CASE MarkOutputSpent
  <2> DEFINE p == Inputs[Current][job.input]
  <2>1. job.input \in DOMAIN Inputs[Current]
    BY <1>1, <1>5 DEF MarkOutputSpent, MarksInv, MarkedSoFar, Current
  <2>2. p \in ToSet(Inputs[Current])
    BY <2>1 DEF ToSet
  <2>3. o = p => t = Current
    BY <1>1, <1>2, <2>2 DEF ValidChain
  <2>4. spent_by \in [Outpoints -> Txs \cup {None}] /\ transactions' = transactions
    BY <1>5 DEF MarkOutputSpent, IInv, Shape
  <2>5. CASE spent_by' = spent_by
    BY <2>4, <2>5 DEF MarkedBy
  <2>6. CASE spent_by' = [spent_by EXCEPT ![p] = Current]
    <3>1. CASE o = p
      BY <1>3, <2>3, <2>4, <2>6, <3>1 DEF MarkedBy
    <3>2. CASE o # p
      BY <1>3, <2>4, <2>6, <3>2 DEF MarkedBy
    <3> QED BY <3>1, <3>2
  <2> QED BY <1>5, <2>5, <2>6 DEF MarkOutputSpent
<1> QED BY <1>4, <1>5

\* The loop over the transactions and their inputs
LEMMA LoopMarks ==
    ASSUME ValidChain, ~Fault, IInv, SettledInv, MarksInv,
           StoreTransaction \/ MarkOutputSpent
    PROVE  MarksInv'
<1>1. job \in Jobs /\ job # None /\ AtTransaction /\ job.tx # 0 /\ job.block \in Chain
      /\ job.tx \in Nat /\ job.input \in Nat
  BY DEF StoreTransaction, MarkOutputSpent, AtTransaction, IInv, Shape, Jobs
<1>2. job.block.transactions \in Seq(Txs) /\ job.block.epoch \in Nat
  BY <1>1, ChainBlock, StorageAssumption DEF Epochs
<1>6. ASSUME NEW c \in settled' PROVE SpendsMarked(c)'
  <2>1. c \in settled /\ c \in Chain /\ c.epoch <= job.block.epoch
    BY <1>1 DEF StoreTransaction, MarkOutputSpent, SettledInv
  <2>2. ASSUME NEW t \in ToSet(c.transactions), NEW o \in ToSet(Inputs[t]) PROVE MarkedBy(o, t)'
    <3>1. MarkedBy(o, t)
      BY <2>1 DEF MarksInv, SpendsMarked, MarkedBy
    <3> QED BY <2>1, <3>1, KeepsMarks
  <2> QED BY <2>2 DEF SpendsMarked, MarkedBy
<1>7. ASSUME NEW k \in DOMAIN job.block.transactions, NEW o \in ToSet(Inputs[job.block.transactions[k]]),
             MarkedBy(o, job.block.transactions[k])
      PROVE  o[1] \in transactions' => spent_by'[o] = job.block.transactions[k]
  <2>1. PICK t : t = job.block.transactions[k]
    OBVIOUS
  <2>2. t \in ToSet(job.block.transactions)
    BY <2>1 DEF ToSet
  <2>3. MarkedBy(o, t)'
    BY <1>1, <1>2, <1>7, <2>1, <2>2, KeepsMarks
  <2> QED BY <2>1, <2>3 DEF MarkedBy
<1>8. PICK n \in Nat : job' = MarkedUpTo(n) /\ n = job.input
  BY <1>1 DEF StoreTransaction, MarkOutputSpent
<1>9. Inputs[Current] \in Seq(Outpoints) /\ job'.block = job.block
  BY <1>1, <1>8, JobSteps
<1>10. job.tx \in DOMAIN job.block.transactions
  BY <1>1, <1>2 DEF AtTransaction
<1>11. ASSUME NEW i \in DOMAIN Inputs[Current], i <= n
       PROVE  Inputs[Current][i][1] \in transactions' => spent_by'[Inputs[Current][i]] = Current
  <2>1. i \in Nat \ {0} /\ Inputs[Current][i] \in Outpoints /\ Inputs[Current][i] \in ToSet(Inputs[Current])
    BY <1>9 DEF ToSet
  <2>2. MarkOutputSpent
    BY <1>8, <1>11, <2>1 DEF StoreTransaction
  <2>3. CASE i = job.input
    BY <2>1, <2>2, <2>3 DEF MarkOutputSpent, IInv, Shape
  <2>4. CASE i # job.input
    <3>1. i < job.input /\ job.input # 0
      BY <1>1, <1>8, <1>11, <2>1, <2>4
    <3>2. MarkedBy(Inputs[Current][i], Current)
      BY <1>1, <3>1 DEF MarksInv, MarkedSoFar, Current
    <3> QED BY <1>7, <1>10, <2>1, <3>2 DEF Current
  <2> QED BY <2>3, <2>4
<1>12. ASSUME NEW k \in DOMAIN job.block.transactions, k < job.tx,
              NEW o \in ToSet(Inputs[job.block.transactions[k]])
       PROVE  o[1] \in transactions' => spent_by'[o] = job.block.transactions[k]
  BY <1>1, <1>7, <1>12 DEF MarksInv, MarkedSoFar
<1>14. CASE n < Len(Inputs[Current])
  <2>1. job'.tx = job.tx /\ job'.input = n + 1
    BY <1>1, <1>8, <1>14 DEF MarkedUpTo, Jobs
  <2>2. n + 1 \in DOMAIN Inputs[Current]
    BY <1>9, <1>14
  <2>3. \A i \in DOMAIN Inputs[Current] : i < n + 1 => i <= n
    BY <1>9
  <2>4. job'.block.transactions[job'.tx] = Current
    BY <1>9, <2>1 DEF Current
  <2>5. MarkedSoFar(job)'
    BY <1>9, <1>10, <1>11, <1>12, <2>1, <2>2, <2>3, <2>4 DEF MarkedSoFar, MarkedBy
  <2> QED BY <1>6, <2>5 DEF MarksInv
<1>15. CASE ~(n < Len(Inputs[Current]))
  <2>1. job'.tx = job.tx + 1 /\ job'.input = 0
    BY <1>1, <1>8, <1>15 DEF MarkedUpTo, Jobs
  <2>2. ASSUME NEW k \in DOMAIN job.block.transactions, k < job.tx + 1,
               NEW o \in ToSet(Inputs[job.block.transactions[k]])
        PROVE  o[1] \in transactions' => spent_by'[o] = job.block.transactions[k]
    <3>1. CASE k < job.tx
      BY <1>12, <3>1
    <3>2. CASE ~(k < job.tx)
      <4>1. k = job.tx
        BY <1>1, <1>2, <2>2, <3>2
      <4>2. PICK i \in DOMAIN Inputs[Current] : o = Inputs[Current][i]
        BY <2>2, <4>1 DEF ToSet, Current
      <4>3. i <= n
        BY <1>8, <1>9, <1>15
      <4> QED BY <1>11, <4>1, <4>2, <4>3 DEF Current
    <3> QED BY <3>1, <3>2
  <2>3. MarkedSoFar(job)'
    BY <1>9, <2>1, <2>2 DEF MarkedSoFar, MarkedBy
  <2> QED BY <1>6, <2>3 DEF MarksInv
<1> QED BY <1>14, <1>15

LEMMA StepMarksInv ==
    ASSUME ValidChain, ~Fault, IInv, SettledInv, MarksInv, [Next]_vars
    PROVE  MarksInv'
<1>1. CASE StoreTransaction \/ MarkOutputSpent
  BY <1>1, LoopMarks
<1>2. ASSUME UNCHANGED <<transactions, spent_by>>, settled' \subseteq settled,
             job' # None => MarkedSoFar(job)'
      PROVE  MarksInv'
  BY <1>2 DEF MarksInv, SpendsMarked
<1>3. ASSUME UNCHANGED <<transactions, spent_by>>, job # None,
             job' # None => job'.block = job.block /\ job'.tx = job.tx /\ job'.input = job.input
      PROVE  job' # None => MarkedSoFar(job)'
  BY <1>3 DEF MarksInv, MarkedSoFar, MarkedBy
<1>4. ASSUME UNCHANGED <<transactions, spent_by>>, NEW b \in Chain, NEW f \in BOOLEAN,
             BeginStore(b, f)
      PROVE  MarksInv'
  <2>1. job'.block = b /\ job'.tx = 1 /\ job'.input = 0 /\ settled' \subseteq settled
    BY <1>4, StartJobType DEF BeginStore
  <2>2. \A k \in DOMAIN b.transactions : ~(k < 1)
    BY ChainBlock
  <2>3. MarkedSoFar(job)'
    BY <2>1, <2>2 DEF MarkedSoFar
  <2> QED BY <1>2, <1>4, <2>1, <2>3
<1>5. ASSUME NEW e \in Epochs, Finalize(e) PROVE MarksInv'
  <2>1. pending_blocks[e] \in Chain
    BY <1>5 DEF Finalize, IInv, Shape
  <2>2. TRUE \in BOOLEAN
    OBVIOUS
  <2> QED BY <1>4, <1>5, <2>1, <2>2, Zenon DEF Finalize, durable
<1>6. ASSUME NEW b \in Chain, ApplyBlock(b) PROVE MarksInv'
  <2>1. FALSE \in BOOLEAN
    OBVIOUS
  <2> QED BY <1>4, <1>6, <2>1, Zenon DEF ApplyBlock, durable
<1>7. CASE StoreBlock
  <2>1. job # None /\ settled' = settled /\ UNCHANGED <<transactions, spent_by>>
    BY <1>7 DEF StoreBlock, AtStep
  <2>2. job' # None => job'.block = job.block /\ job'.tx = job.tx /\ job'.input = job.input
    BY <1>7, <2>1, NextStepType DEF StoreBlock, IInv
  <2> QED BY <1>2, <1>3, <2>1, <2>2
<1>8. CASE SetCurrentEpoch
  <2>1. /\ job # None /\ job \in Jobs /\ job.tx > Len(job.block.transactions)
        /\ UNCHANGED <<transactions, spent_by>>
    BY <1>8 DEF SetCurrentEpoch, AtStep, IInv, Shape
  <2>2. job' # None => job'.block = job.block /\ job'.tx = job.tx /\ job'.input = job.input
    BY <1>8, <2>1, NextStepType DEF SetCurrentEpoch, IInv
  <2>3. job' # None => MarkedSoFar(job)'
    BY <1>3, <2>1, <2>2
  <2>4. SpendsMarked(job.block)
    <3>1. job.block.transactions \in Seq(Txs) /\ job.tx \in Nat
      BY <2>1, ChainBlock DEF Jobs
    <3>2. ASSUME NEW t \in ToSet(job.block.transactions), NEW o \in ToSet(Inputs[t])
          PROVE  MarkedBy(o, t)
      <4>1. PICK k \in DOMAIN job.block.transactions : t = job.block.transactions[k]
        BY DEF ToSet
      <4>2. k < job.tx
        BY <2>1, <3>1
      <4> QED BY <2>1, <4>1, <4>2 DEF MarksInv, MarkedSoFar
    <3> QED BY <3>2 DEF SpendsMarked, MarkedBy
  <2>5. ASSUME NEW c \in settled' PROVE SpendsMarked(c)'
    <3>1. c \in settled \cup {job.block}
      BY <1>8 DEF SetCurrentEpoch
    <3>2. SpendsMarked(c)
      BY <2>4, <3>1 DEF MarksInv
    <3> QED BY <2>1, <3>2 DEF SpendsMarked
  <2> QED BY <2>3, <2>5 DEF MarksInv
<1>9. CASE RebuildUtxoSet \/ UNCHANGED vars \/ \E b \in Chain : QueueForFinalization(b)
  <2>1. UNCHANGED <<transactions, spent_by, settled, job>>
    BY <1>9 DEF RebuildUtxoSet, QueueForFinalization, vars, memory, durable
  <2> QED BY <1>2, <1>3, <2>1
<1>10. CASE Finalized \/ Crash
  BY <1>2, <1>10 DEF Finalized, Crash, durable
<1> QED BY <1>1, <1>5, <1>6, <1>7, <1>8, <1>9, <1>10 DEF Next

\* Whatever order blocks are stored in, and stored again, and wherever the process
\* crashes: as long as no SQLite operation has failed, get_utxos_for_address offers
\* no output spent by a block that was stored to the end, unless that block or an
\* earlier one has been stored again since (store_transaction resets spent).
THEOREM UnspentRowsAreNotSpent ==
    ASSUME OneBlockPerEpoch, ValidChain
    PROVE  Spec => []UnspentRowsAreUnspent
<1> DEFINE Inv == faults = 0 => MarksInv
<1>1. Init => Inv
  BY DEF Init, MarksInv
<1>2. faults \in Nat /\ IInv /\ SettledInv /\ Inv /\ [Next]_vars => Inv'
  BY StepMarksInv, NoFault
<1>3. Inv => UnspentRowsAreUnspent
  BY DEF MarksInv, UnspentRowsAreUnspent
<1> HIDE DEF Inv
<1> QED BY <1>1, <1>2, <1>3, InvariantIInv, InvariantSettled, FaultsCounted, PTL DEF Spec

------------------------------------------------------------------------------
(* Chain linking *)

\* the blocks below e that were not written late, and the hash e should carry
Earlier(e) == {f \in Stored : f < e /\ ~WrittenLate(f)}
Link(e) ==
    IF Earlier(e) = {} THEN None
    ELSE blocks[CHOOSE f \in Earlier(e) : \A g \in Earlier(e) : g <= f].block_hash

LEMMA LastIsChosen ==
    ASSUME NEW E \in SUBSET Epochs, NEW m \in E, \A g \in E : g <= m
    PROVE  (CHOOSE f \in E : \A g \in E : g <= f) = m
<1>1. \A x \in E : (\A g \in E : g <= x) => x = m
  BY DEF Epochs
<1> QED BY <1>1

LEMMA HasLast ==
    ASSUME NEW E \in SUBSET Epochs, E # {}
    PROVE  \E m \in E : (\A g \in E : g <= m) /\ m = (CHOOSE f \in E : \A g \in E : g <= f)
<1>1. E \subseteq 0 .. MaxEpoch
  BY DEF Epochs
<1>2. PICK m \in E : \A g \in E : g <= m
  BY <1>1, MaximalElement, StorageAssumption
<1> QED BY <1>2, LastIsChosen

LEMMA StoredAreEpochs ==
    /\ Stored \subseteq Epochs /\ \A e \in Stored : e \in Nat
    /\ \A e \in Epochs : e \in Nat
BY StorageAssumption DEF Stored, Epochs

\* A linked block carries no hash or that of a stored block.
LEMMA LinksAreStored ==
    ASSUME ChainLinked, NEW e \in Stored
    PROVE  \/ blocks[e].prev_hash = None
           \/ \E f \in Stored : blocks[e].prev_hash = blocks[f].block_hash
<1>1. CASE WrittenLate(e)
  BY <1>1 DEF WrittenLate
<1>2. CASE ~WrittenLate(e)
  <2>1. blocks[e].prev_hash = Link(e)
    BY <1>2 DEF ChainLinked, Link, Earlier
  <2>2. CASE Earlier(e) = {}
    BY <2>1, <2>2 DEF Link
  <2>3. CASE Earlier(e) # {}
    <3>1. Earlier(e) \subseteq Epochs /\ Earlier(e) \subseteq Stored
      BY StoredAreEpochs DEF Earlier
    <3>2. PICK m \in Earlier(e) :
             m = (CHOOSE f \in Earlier(e) : \A g \in Earlier(e) : g <= f)
      BY <2>3, <3>1, HasLast
    <3> QED BY <2>1, <2>3, <3>1, <3>2 DEF Link
  <2> QED BY <2>2, <2>3
<1> QED BY <1>1, <1>2

\* A block that is not stored has its own hash.
LEMMA NewHash ==
    ASSUME OneBlockPerEpoch, IInv, NEW b \in Chain, b.epoch \notin Stored, NEW f \in Stored
    PROVE  blocks[f].block_hash # b.hash
<1>1. StoredBlock(f) \in Chain /\ StoredBlock(f).epoch = f
      /\ StoredBlock(f).hash = blocks[f].block_hash
  BY DEF IInv, LogInv, StoredBlock, Stored
<1> QED BY <1>1 DEF OneBlockPerEpoch

LEMMA StepChainLinked ==
    ASSUME OneBlockPerEpoch, IInv, ChainLinked, [Next]_vars
    PROVE  ChainLinked'
<1>1. CASE UNCHANGED <<blocks, block_transactions>>
  <2>1. Stored' = Stored
    BY <1>1 DEF Stored
  <2>2. ASSUME NEW e \in Stored PROVE WrittenLate(e)' = WrittenLate(e)
    BY <1>1, <2>1 DEF WrittenLate
  <2>3. ASSUME NEW e \in Stored PROVE Earlier(e)' = Earlier(e)
    BY <2>1, <2>2 DEF Earlier
  <2>4. ASSUME NEW e \in Stored PROVE Link(e)' = Link(e)
    <3>1. PICK E : E = Earlier(e) /\ E = Earlier(e)'
      BY <2>3
    <3>2. Link(e) = IF E = {} THEN None ELSE blocks[CHOOSE f \in E : \A g \in E : g <= f].block_hash
      BY <3>1 DEF Link
    <3>3. Link(e)' = IF E = {} THEN None ELSE blocks'[CHOOSE f \in E : \A g \in E : g <= f].block_hash
      BY <3>1 DEF Link
    <3> QED BY <1>1, <3>2, <3>3
  <2>5. ASSUME NEW e \in Stored, ~WrittenLate(e)' PROVE blocks'[e].prev_hash = Link(e)'
    <3>1. ~WrittenLate(e)
      BY <2>2, <2>5
    <3>2. blocks[e].prev_hash = Link(e)
      BY <3>1 DEF ChainLinked, Link, Earlier
    <3> QED BY <1>1, <2>4, <3>2
  <2> QED BY <2>1, <2>5 DEF ChainLinked, Link, Earlier
<1>2. ASSUME NEW b \in Chain, blocks[b.epoch] = None,
             NEW r \in Rows, r.block_hash = b.hash, r.prev_hash = LatestHash,
             blocks' = [blocks EXCEPT ![b.epoch] = r]
      PROVE  ChainLinked'
  <2> DEFINE n == b.epoch
  <2>1. n \in Epochs /\ n \in Nat /\ r # None /\ n \notin Stored /\ b.hash \in Hashes
        /\ b.hash # None
    BY <1>2, ChainBlock, StorageAssumption DEF Epochs, Stored
  <2>2. Stored' = Stored \cup {n}
    BY <1>2, <2>1 DEF Stored, Epochs, IInv, Shape
  <2>3. \A f \in Stored : blocks'[f] = blocks[f]
    BY <1>2, <2>1 DEF Stored, IInv, Shape
  <2>4. blocks'[n] = r
    BY <1>2, <2>1 DEF IInv, Shape
  <2>5. \A f \in Stored : f \in Nat /\ f # n
    BY <2>1, StoredAreEpochs
  <2> HIDE DEF n
  <2>6. ASSUME NEW e \in Stored PROVE WrittenLate(e)' = WrittenLate(e)
    <3>1. blocks[e].prev_hash # b.hash
      <4>1. CASE blocks[e].prev_hash = None
        BY <2>1, <4>1
      <4>2. CASE blocks[e].prev_hash # None
        <5>1. PICK f \in Stored : blocks[e].prev_hash = blocks[f].block_hash
          BY <4>2, LinksAreStored
        <5>2. blocks[f].block_hash # b.hash
          BY <2>1, NewHash DEF n
        <5> QED BY <5>1, <5>2
      <4> QED BY <4>1, <4>2
    <3>2. WrittenLate(e) => WrittenLate(e)'
      BY <2>2, <2>3 DEF WrittenLate
    <3>3. WrittenLate(e)' => WrittenLate(e)
      BY <1>2, <2>2, <2>3, <2>4, <3>1 DEF WrittenLate
    <3>4. WrittenLate(e) \in BOOLEAN /\ WrittenLate(e)' \in BOOLEAN
      BY DEF WrittenLate
    <3> QED BY <3>2, <3>3, <3>4
  <2>7. CASE Stored = {}
    <3>1. Stored' = {n} /\ r.prev_hash = None
      BY <1>2, <2>2, <2>7 DEF LatestHash
    <3>2. Earlier(n)' = {}
      BY <2>1, <3>1 DEF Earlier
    <3>3. Link(n)' = None
      BY <3>2 DEF Link
    <3> QED BY <2>4, <3>1, <3>3 DEF ChainLinked, Link, Earlier
  <2>8. CASE Stored # {}
    <3>1. PICK h \in Stored : \A f \in Stored : f <= h
      <4>1. Stored \subseteq 0 .. MaxEpoch
        BY StoredAreEpochs DEF Epochs
      <4> QED BY <2>8, <4>1, MaximalElement, StorageAssumption
    <3>2. LatestHash = blocks[h].block_hash
      <4>1. h \in Epochs /\ IsHeight(h)
        BY <3>1, StoredAreEpochs DEF IsHeight
      <4>2. \A x \in Epochs : IsHeight(x) => x = h
        BY <3>1, <2>5, StoredAreEpochs DEF IsHeight
      <4>3. (CHOOSE x \in Epochs : IsHeight(x)) = h
        BY <4>1, <4>2
      <4> QED BY <2>8, <4>3 DEF LatestHash
    <3>3. h \in Nat /\ h # n
      BY <2>5
    <3>4. n < h => WrittenLate(n)'
      BY <1>2, <2>2, <2>3, <2>4, <3>2 DEF WrittenLate
    <3>5. ASSUME NEW e \in Stored PROVE Earlier(e)' = Earlier(e)
      <4>1. e <= h /\ e \in Nat
        BY <2>5, <3>1
      <4>2. ~(n < e /\ ~WrittenLate(n)')
        BY <2>1, <3>3, <3>4, <4>1
      <4> QED BY <2>2, <2>6, <4>2 DEF Earlier
    <3>6. ASSUME NEW e \in Stored PROVE Link(e)' = Link(e)
      <4>1. CASE Earlier(e) = {}
        BY <3>5, <4>1 DEF Link
      <4>2. CASE Earlier(e) # {}
        <5>1. Earlier(e) \subseteq Epochs /\ Earlier(e) \subseteq Stored
          BY StoredAreEpochs DEF Earlier
        <5>2. PICK m \in Earlier(e) :
                 m = (CHOOSE f \in Earlier(e) : \A g \in Earlier(e) : g <= f)
          BY <4>2, <5>1, HasLast
        <5>3. Link(e) = blocks[m].block_hash
          BY <4>2, <5>2 DEF Link
        <5>4. Link(e)' = blocks'[m].block_hash
          BY <3>5, <4>2, <5>2 DEF Link
        <5> QED BY <2>3, <5>1, <5>2, <5>3, <5>4
      <4> QED BY <4>1, <4>2
    <3>7. ASSUME NEW e \in Stored', ~WrittenLate(e)' PROVE blocks'[e].prev_hash = Link(e)'
      <4>1. CASE e \in Stored
        <5>1. ~WrittenLate(e)
          BY <2>6, <3>7, <4>1
        <5>2. blocks[e].prev_hash = Link(e)
          BY <4>1, <5>1 DEF ChainLinked, Link, Earlier
        <5> QED BY <2>3, <3>6, <4>1, <5>2
      <4>2. CASE e = n
        <5>1. h < n
          BY <2>1, <3>3, <3>4, <3>7, <4>2
        <5>2. ~WrittenLate(h)
          <6>1. \A f \in Stored : ~(f > h)
            BY <2>5, <3>1, <3>3
          <6> QED BY <6>1 DEF WrittenLate
        <5>3. h \in Earlier(n)' /\ Earlier(n)' \subseteq Stored
          BY <2>1, <2>2, <2>6, <5>1, <5>2 DEF Earlier
        <5>4. PICK E \in SUBSET Epochs : E = Earlier(n)'
          BY <5>3, StoredAreEpochs
        <5>5. (CHOOSE f \in E : \A g \in E : g <= f) = h
          BY <3>1, <5>3, <5>4, LastIsChosen
        <5>6. Link(n)' = blocks'[h].block_hash
          BY <5>3, <5>4, <5>5 DEF Link
        <5> QED BY <1>2, <2>3, <2>4, <3>1, <3>2, <4>2, <5>6
      <4> QED BY <2>2, <4>1, <4>2
    <3> QED BY <3>7 DEF ChainLinked, Link, Earlier
  <2> QED BY <2>7, <2>8
<1> QED BY <1>1, <1>2, StepAppends

\* Whatever order blocks are stored in, the ones that were not written after a
\* later one form a linked chain (chain linking in store_block_with_transactions):
\* a retry, which reads the block itself or a later one as the latest, does not
\* change a row, and neither do crashes and failing SQLite operations.
THEOREM StoredChainIsLinked ==
    ASSUME OneBlockPerEpoch
    PROVE  Spec => []ChainLinked
<1>1. Init => ChainLinked
  BY DEF Init, ChainLinked, Stored
<1>2. IInv /\ ChainLinked /\ [Next]_vars => ChainLinked'
  BY StepChainLinked
<1> QED BY <1>1, <1>2, InvariantIInv, PTL DEF Spec

------------------------------------------------------------------------------
(* The current epoch *)

MarkerInv ==
    /\ current_epoch \in Stored \cup {0}
    /\ \A c \in settled : c.epoch <= current_epoch

LEMMA StepMarkerInv ==
    ASSUME OneBlockPerEpoch, ~Fault, IInv, WriteInv, SettledInv, MarkerInv, [Next]_vars
    PROVE  MarkerInv'
<1>1. Stored \subseteq Stored'
  BY StoredGrows
<1>2. CASE SetCurrentEpoch \/ Finalized
  <2>1. job \in Jobs /\ job # None /\ job.block \in Chain /\ job.step # "store_block"
    BY <1>2 DEF SetCurrentEpoch, Finalized, AtStep, IInv, Shape, Jobs
  <2>2. job.block.epoch \in Stored
    BY <2>1 DEF WriteInv, Written
  <2>3. current_epoch' = job.block.epoch /\ settled' \subseteq settled \cup {job.block}
    BY <1>2 DEF SetCurrentEpoch, Finalized
  <2>4. job.block.epoch <= job.block.epoch
    BY <2>1, ChainBlock, StorageAssumption DEF Epochs
  <2> QED BY <1>1, <2>1, <2>2, <2>3, <2>4 DEF MarkerInv, SettledInv
<1>3. CASE ~(SetCurrentEpoch \/ Finalized)
  <2>1. current_epoch' = current_epoch /\ settled' \subseteq settled
    BY <1>3 DEF Next, QueueForFinalization, Finalize, ApplyBlock, BeginStore, StoreTransaction,
                MarkOutputSpent, StoreBlock, RebuildUtxoSet, Crash, vars, durable
  <2> QED BY <1>1, <2>1 DEF MarkerInv
<1> QED BY <1>2, <1>3

\* Whatever order blocks are stored in and wherever the process crashes, the
\* persisted current epoch names a stored block (or 0), as long as no SQLite
\* operation has failed, and is behind no block that was stored to the end, unless
\* that block or an earlier one has been stored again since.
THEOREM EpochMarkerFollowsChain ==
    ASSUME OneBlockPerEpoch
    PROVE  Spec => []EpochMarkerTracksChain
<1> DEFINE Writes == faults = 0 => WriteInv
           Marker == faults = 0 => MarkerInv
<1>1. Init => Writes /\ Marker
  BY DEF Init, WriteInv, MarkerInv, Stored
<1>2. faults \in Nat /\ IInv /\ Writes /\ [Next]_vars => Writes'
  BY StepWriteInv, NoFault
<1>3. faults \in Nat /\ IInv /\ SettledInv /\ Writes /\ Marker /\ [Next]_vars => Marker'
  BY StepMarkerInv, NoFault
<1>4. Marker => EpochMarkerTracksChain
  BY DEF MarkerInv, EpochMarkerTracksChain
<1> HIDE DEF Writes, Marker
<1> QED
  BY <1>1, <1>2, <1>3, <1>4, InvariantIInv, InvariantSettled, FaultsCounted, PTL DEF Spec

------------------------------------------------------------------------------
(* Rebuilding the UTXO set *)

\* Max of a set of epochs is an element of it that bounds it.
LEMMA MaxInSet ==
    ASSUME NEW n \in Nat, NEW s \in SUBSET (0 .. n), s # {}
    PROVE  Max(s) \in s /\ \A y \in s : y <= Max(s)
<1>1. PICK e \in s : \A f \in s : f <= e
  BY MaximalElement
<1>2. \E x \in s : \A y \in s : x >= y
  BY <1>1
<1>3. Max(s) \in s /\ \A y \in s : Max(s) >= y
  BY <1>2, Zenon DEF Max
<1> QED BY <1>3

-----------------------------------------------------------------------------
\* What the replay of a set D of transactions makes of the UTXO set
Replayed(D) ==
    [o \in Outpoints |->
        IF o[1] \notin D THEN "absent"
        ELSE IF \E t \in D : o \in ToSet(Inputs[t]) THEN "spent" ELSE "unspent"]

\* t may be replayed after D: nothing replayed has spent an output of t
After(D, t) == \A o \in Outpoints : o[1] = t => \A u \in D \cup {t} : o \notin ToSet(Inputs[u])

LEMMA ReplayOne ==
    ASSUME NEW D, NEW t \in transactions, After(D, t)
    PROVE  ReplayTransaction(Replayed(D), t) = Replayed(D \cup {t})
<1> DEFINE added == [o \in Outpoints |-> IF o[1] = t THEN "unspent" ELSE Replayed(D)[o]]
<1>1. ReplayTransaction(Replayed(D), t) =
         [o \in Outpoints |-> IF o \in ToSet(Inputs[t]) /\ added[o] = "unspent" THEN "spent" ELSE added[o]]
  BY DEF ReplayTransaction
<1>2. ASSUME NEW o \in Outpoints
      PROVE  (IF o \in ToSet(Inputs[t]) /\ added[o] = "unspent" THEN "spent" ELSE added[o])
                = Replayed(D \cup {t})[o]
  <2>1. CASE o[1] = t
    BY <2>1 DEF After, Replayed
  <2>2. CASE o[1] # t
    BY <2>2 DEF Replayed
  <2> QED BY <2>1, <2>2
<1>3. Replayed(D \cup {t}) = [o \in Outpoints |-> Replayed(D \cup {t})[o]]
  BY DEF Replayed
<1> QED BY <1>1, <1>2, <1>3

\* The replay of a block none of whose transactions spends an output of another
IsReplay(g, base, seq) ==
    g = [s \in SUBSET DOMAIN seq |->
            IF s = {} THEN base ELSE ReplayTransaction(g[s \ {Max(s)}], seq[Max(s)])]

LEMMA ReplayUnfolds ==
    ASSUME NEW base, NEW seq
    PROVE  FoldLeft(ReplayTransaction, base, seq) = (CHOOSE g : IsReplay(g, base, seq))[DOMAIN seq]
BY DEF FoldLeft, MapThenFoldSet, IsReplay

LEMMA ReplayBlock ==
    ASSUME NEW D, NEW seq \in Seq(transactions),
           \A i \in DOMAIN seq : After(D \cup ToSet(seq), seq[i])
    PROVE  FoldLeft(ReplayTransaction, Replayed(D), seq) = Replayed(D \cup ToSet(seq))
<1> DEFINE I == DOMAIN seq
           part(s) == {seq[i] : i \in s}
           g == [s \in SUBSET I |-> Replayed(D \cup part(s))]
           h == CHOOSE h : IsReplay(h, Replayed(D), seq)
<1>1. I = 1 .. Len(seq) /\ Len(seq) \in Nat /\ I \subseteq 0 .. Len(seq) /\ IsFiniteSet(I)
  BY FS_Interval
<1>2. ASSUME NEW s \in SUBSET I, s # {}
      PROVE  g[s] = ReplayTransaction(g[s \ {Max(s)}], seq[Max(s)]) /\ Max(s) \in s
  <2> DEFINE x == Max(s)
  <2>1. x \in s
    BY <1>1, <1>2, MaxInSet
  <2> HIDE DEF x
  <2>2. seq[x] \in transactions
    BY <2>1
  <2>3. part(s) = part(s \ {x}) \cup {seq[x]} /\ part(s) \subseteq ToSet(seq)
    BY <2>1 DEF ToSet
  <2>4. After(D \cup part(s \ {x}), seq[x])
    BY <2>1, <2>3 DEF After
  <2>5. ReplayTransaction(Replayed(D \cup part(s \ {x})), seq[x])
           = Replayed((D \cup part(s \ {x})) \cup {seq[x]})
    BY <2>2, <2>4, ReplayOne
  <2>6. (D \cup part(s \ {x})) \cup {seq[x]} = D \cup part(s)
    BY <2>3
  <2>7. g[s] = Replayed(D \cup part(s)) /\ g[s \ {x}] = Replayed(D \cup part(s \ {x}))
    OBVIOUS
  <2> QED BY <2>1, <2>5, <2>6, <2>7 DEF x
<1>3. g[{}] = Replayed(D)
  <2>1. D \cup part({}) = D
    OBVIOUS
  <2> QED BY <2>1
<1>4. g[I] = Replayed(D \cup ToSet(seq))
  <2>1. part(I) = ToSet(seq)
    BY DEF ToSet
  <2> QED BY <2>1
<1>5. \A s \in SUBSET I : g[s] =
         IF s = {} THEN Replayed(D) ELSE ReplayTransaction(g[s \ {Max(s)}], seq[Max(s)])
  BY <1>2, <1>3
<1>6. g = [s \in SUBSET I |-> g[s]]
  OBVIOUS
<1> HIDE DEF g
<1>7. IsReplay(g, Replayed(D), seq)
  BY <1>5, <1>6 DEF IsReplay
<1>8. IsReplay(h, Replayed(D), seq)
  BY <1>7, Zenon
<1> HIDE DEF h
<1>9. h[{}] = Replayed(D) /\ \A s \in SUBSET I : s # {} =>
         h[s] = ReplayTransaction(h[s \ {Max(s)}], seq[Max(s)])
  BY <1>8 DEF IsReplay
<1>10. \A s \in SUBSET I : s # {} => \E x \in s : h[s \ {x}] = g[s \ {x}] => h[s] = g[s]
  BY <1>2, <1>9
<1>11. h[I] = g[I]
  <2>1. IsFiniteSet(I) /\ h[{}] = g[{}]
    BY <1>1, <1>3, <1>9
  <2> HIDE DEF I
  <2> QED BY <1>10, <2>1, SetInduction
<1>12. FoldLeft(ReplayTransaction, Replayed(D), seq) = h[I]
  BY ReplayUnfolds DEF h
<1> QED BY <1>4, <1>11, <1>12

\* The transactions of the stored blocks of the epochs E
Of(E) == UNION {ToSet(block_transactions[e]) : e \in E \cap Stored}

\* An output of a block is spent only by later blocks.
LEMMA NothingSpentEarlier ==
    ASSUME ValidChain, IInv, NEW e \in Stored, NEW E \in SUBSET Epochs, \A f \in E : f <= e,
           NEW t \in ToSet(block_transactions[e])
    PROVE  After(Of(E) \cup ToSet(block_transactions[e]), t)
<1> SUFFICES ASSUME NEW o \in Outpoints, o[1] = t,
                    NEW u \in (Of(E) \cup ToSet(block_transactions[e])) \cup {t},
                    o \in ToSet(Inputs[u])
             PROVE  FALSE
  BY DEF After
<1>1. PICK f \in Stored : f <= e /\ u \in ToSet(block_transactions[f])
  BY DEF Of, Stored, Epochs
<1>2. \A x \in Stored : /\ StoredBlock(x) \in Chain
                        /\ StoredBlock(x).epoch = x
                        /\ StoredBlock(x).transactions = block_transactions[x]
  BY DEF IInv, LogInv, StoredBlock, Stored
<1>3. StoredBlock(e).epoch < StoredBlock(f).epoch
  BY <1>1, <1>2 DEF ValidChain
<1>4. e < f /\ f <= e /\ e \in Int /\ f \in Int
  BY <1>1, <1>2, <1>3, StorageAssumption DEF Stored, Epochs
<1> QED BY <1>4

LEMMA ReplayEpochs ==
    ASSUME ValidChain, IInv, WriteInv, NEW e \in Epochs,
           NEW E \in SUBSET Epochs, \A f \in E : f <= e
    PROVE  ReplayEpoch(Replayed(Of(E)), e) = Replayed(Of(E \cup {e}))
<1>1. CASE e \in Stored
  <2> DEFINE seq == block_transactions[e]
  <2>1. seq \in Seq(Txs) /\ ToSet(seq) \subseteq transactions
    BY <1>1 DEF IInv, Shape, WriteInv
  <2>2. seq \in Seq(transactions)
    <3>1. \A i \in DOMAIN seq : seq[i] \in transactions
      BY <2>1 DEF ToSet
    <3>2. Len(seq) \in Nat /\ seq = [i \in 1 .. Len(seq) |-> seq[i]] /\ DOMAIN seq = 1 .. Len(seq)
      BY <2>1
    <3> HIDE DEF seq
    <3>3. seq \in [1 .. Len(seq) -> transactions]
      BY <3>1, <3>2
    <3> QED BY <3>2, <3>3, SeqDef
  <2>3. \A i \in DOMAIN seq : After(Of(E) \cup ToSet(seq), seq[i])
    BY <1>1, NothingSpentEarlier DEF ToSet
  <2>4. Of(E \cup {e}) = Of(E) \cup ToSet(seq)
    BY <1>1 DEF Of
  <2>5. FoldLeft(ReplayTransaction, Replayed(Of(E)), seq) = Replayed(Of(E) \cup ToSet(seq))
    <3> HIDE DEF seq
    <3> QED BY <2>2, <2>3, ReplayBlock
  <2> QED BY <1>1, <2>4, <2>5 DEF ReplayEpoch
<1>2. CASE e \notin Stored
  <2>1. Of(E \cup {e}) = Of(E)
    BY <1>2 DEF Of
  <2> QED BY <1>2, <2>1 DEF ReplayEpoch
<1> QED BY <1>1, <1>2

IsRebuild(g, base, seq) ==
    g = [s \in SUBSET DOMAIN seq |->
            IF s = {} THEN base ELSE ReplayEpoch(g[s \ {Max(s)}], seq[Max(s)])]

LEMMA RebuildUnfolds ==
    ASSUME NEW base, NEW seq
    PROVE  FoldLeft(ReplayEpoch, base, seq) = (CHOOSE g : IsRebuild(g, base, seq))[DOMAIN seq]
BY DEF FoldLeft, MapThenFoldSet, IsRebuild

LEMMA RebuildAll ==
    ASSUME ValidChain, IInv, WriteInv
    PROVE  FoldLeft(ReplayEpoch, EmptyUTXOSet, [n \in 1 .. MaxEpoch + 1 |-> n - 1])
              = Replayed(Of(Epochs))
<1> DEFINE seq == [n \in 1 .. MaxEpoch + 1 |-> n - 1]
           I == 1 .. MaxEpoch + 1
           part(s) == {n - 1 : n \in s}
           g == [s \in SUBSET I |-> Replayed(Of(part(s)))]
           h == CHOOSE h : IsRebuild(h, EmptyUTXOSet, seq)
<1>1. /\ MaxEpoch + 1 \in Nat /\ I \subseteq 0 .. MaxEpoch + 1 /\ IsFiniteSet(I) /\ DOMAIN seq = I
      /\ \A n \in I : n - 1 \in Epochs /\ seq[n] = n - 1 /\ n \in Nat
  BY StorageAssumption, FS_Interval DEF Epochs
<1>2. ASSUME NEW s \in SUBSET I, s # {}
      PROVE  g[s] = ReplayEpoch(g[s \ {Max(s)}], seq[Max(s)]) /\ Max(s) \in s
  <2> DEFINE x == Max(s)
  <2>1. x \in s /\ \A y \in s : y <= x
    BY <1>1, <1>2, MaxInSet
  <2> HIDE DEF x
  <2>2. /\ x - 1 \in Epochs /\ seq[x] = x - 1
        /\ part(s \ {x}) \subseteq Epochs /\ \A f \in part(s \ {x}) : f <= x - 1
    BY <1>1, <2>1
  <2>3. part(s) = part(s \ {x}) \cup {x - 1}
    BY <2>1
  <2>4. g[s] = Replayed(Of(part(s))) /\ g[s \ {x}] = Replayed(Of(part(s \ {x})))
    OBVIOUS
  <2> HIDE DEF part
  <2>5. ReplayEpoch(Replayed(Of(part(s \ {x}))), x - 1) = Replayed(Of(part(s \ {x}) \cup {x - 1}))
    BY <2>2, ReplayEpochs
  <2> QED BY <2>1, <2>2, <2>3, <2>4, <2>5 DEF x
<1>3. g[{}] = EmptyUTXOSet
  <2>1. Of(part({})) = {}
    BY DEF Of
  <2>2. Replayed({}) = EmptyUTXOSet
    BY DEF Replayed, EmptyUTXOSet
  <2> QED BY <2>1, <2>2
<1>4. g[I] = Replayed(Of(Epochs))
  <2>1. ASSUME NEW e \in Epochs PROVE e \in part(I)
    <3>1. e + 1 \in I /\ e = (e + 1) - 1
      BY StorageAssumption DEF Epochs
    <3> QED BY <3>1
  <2>2. part(I) = Epochs
    BY <1>1, <2>1
  <2> QED BY <2>2
<1> HIDE DEF seq
<1>5. \A s \in SUBSET I : g[s] =
         IF s = {} THEN EmptyUTXOSet ELSE ReplayEpoch(g[s \ {Max(s)}], seq[Max(s)])
  BY <1>2, <1>3
<1>6. g = [s \in SUBSET I |-> g[s]]
  OBVIOUS
<1> HIDE DEF g
<1>7. IsRebuild(g, EmptyUTXOSet, seq)
  BY <1>1, <1>5, <1>6 DEF IsRebuild
<1>8. IsRebuild(h, EmptyUTXOSet, seq)
  BY <1>7, Zenon
<1> HIDE DEF h
<1>9. h[{}] = EmptyUTXOSet /\ \A s \in SUBSET I : s # {} =>
         h[s] = ReplayEpoch(h[s \ {Max(s)}], seq[Max(s)])
  BY <1>1, <1>8 DEF IsRebuild
<1>10. \A s \in SUBSET I : s # {} => \E x \in s : h[s \ {x}] = g[s \ {x}] => h[s] = g[s]
  BY <1>2, <1>9
<1>11. h[I] = g[I]
  <2>1. IsFiniteSet(I) /\ h[{}] = g[{}]
    BY <1>1, <1>3, <1>9
  <2> HIDE DEF I
  <2> QED BY <1>10, <2>1, SetInduction
<1>12. FoldLeft(ReplayEpoch, EmptyUTXOSet, seq) = h[I]
  BY <1>1, RebuildUnfolds DEF h
<1> QED BY <1>4, <1>11, <1>12 DEF seq

LEMMA StoredIsConfirmed ==
    ASSUME OneBlockPerEpoch, IInv
    PROVE  Of(Epochs) = Confirmed
<1>1. ASSUME NEW e \in Stored
      PROVE  /\ StoredBlock(e) \in Chain /\ StoredBlock(e).epoch = e /\ e \in Epochs
             /\ StoredBlock(e).hash = blocks[e].block_hash
             /\ StoredBlock(e).transactions = block_transactions[e]
  BY DEF IInv, LogInv, StoredBlock, Stored
<1>2. ASSUME NEW c \in Chain, c.epoch \in Stored, blocks[c.epoch].block_hash = c.hash
      PROVE  c.transactions = block_transactions[c.epoch]
  BY <1>1, <1>2 DEF OneBlockPerEpoch
<1>3. ASSUME NEW t \in Of(Epochs) PROVE t \in Confirmed
  <2>1. PICK e \in Stored : t \in ToSet(block_transactions[e])
    BY DEF Of
  <2> QED BY <1>1, <2>1 DEF Confirmed
<1>4. ASSUME NEW t \in Confirmed PROVE t \in Of(Epochs)
  <2>1. PICK c \in Chain : /\ c.epoch \in Stored /\ blocks[c.epoch].block_hash = c.hash
                           /\ t \in ToSet(c.transactions)
    BY DEF Confirmed
  <2> QED BY <1>1, <1>2, <2>1 DEF Of
<1> QED BY <1>3, <1>4

\* StorageManager.rebuild_utxo_set, run at any moment no block is being stored,
\* after any crashes and whatever order blocks were stored in, recovers exactly
\* the outputs of the stored blocks that no stored block spends, if no SQLite
\* operation has failed: replaying a chain of any length gives its UTXO set.
THEOREM RebuildIsExact ==
    ASSUME OneBlockPerEpoch, ValidChain
    PROVE  Spec => RebuildRecoversChain
<1> DEFINE Inv == faults = 0 => WriteInv
           Recovers ==
               {o \in Outpoints : utxo_set'[o] = "unspent"} =
               {o \in Outpoints : o[1] \in Confirmed /\ \A t \in Confirmed : o \notin ToSet(Inputs[t])}
<1>1. Init => Inv
  BY DEF Init, WriteInv, Stored
<1>2. faults \in Nat /\ IInv /\ Inv /\ [Next]_vars => Inv'
  BY StepWriteInv, NoFault
<1>3. ASSUME IInv, Inv, RebuildUtxoSet, faults = 0 PROVE Recovers
  <2>1. utxo_set' = Replayed(Confirmed)
    BY <1>3, RebuildAll, StoredIsConfirmed DEF RebuildUtxoSet
  <2> QED BY <2>1 DEF Replayed
<1>4. IInv /\ Inv /\ [Next]_vars => [RebuildUtxoSet /\ faults = 0 => Recovers]_vars
  BY <1>3
<1> HIDE DEF Inv
<1> QED
  BY <1>1, <1>2, <1>4, InvariantIInv, FaultsCounted, PTL DEF Spec, RebuildRecoversChain
==============================================================================
