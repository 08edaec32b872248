# A TLA+ verification of QRTB

QRTB is a Python implementation of a proof-of-stake-like chain whose validators
measure round-trip times, agree on one block per epoch by a two-phase vote, and
keep a UTXO ledger with hash-based signatures. This directory holds TLA+ models
of its protocol and state machines, the TLC runs that check them on small
instances and TLAPS proofs that hold for every instance. Paths below are
relative to the repository; `x.py:n` means `src/x.py`, line n. `PROJECT.json`
maps every definition to the lines it models.

## 1. Inventory

| component (code) | state | operations | interacts with |
|---|---|---|---|
| **BFT consensus** (`consensus.py` BFTConsensus) | epoch, phase, proposals, pre-votes, pre-commits, equivocation tables, finalized blocks | start_round, create/receive proposal, pre-vote, pre-commit, try_finalize | called by the validator's handlers and by Node |
| **Validator** (`validator.py`) | its consensus, epoch manager, measurement protocol, peers, inbox, outbox | start_epoch, run phases, receive_proposal, receive_vote, on_block_finalized | messages through outbox/inbox or P2P |
| **Ledger** (`transaction.py`, `block_producer.py`) | UTXO set and its address index, stakes, auth registry, mempool, templates | broadcast, create/fill template, build, apply block | blocks go through consensus; stored by the storage |
| **Storage** (`storage.py`, BlockFinalizer) | three SQLite databases, in-memory UTXO set, pending and finalized epochs | store block with transactions, finalize, restart, rebuild | called by apply_block and finalize |
| **Sharded UTXO set and pipeline** (`performance.py`) | 256 locked shards, a locked index by address | add, spend, balance, batch lookup, process_batch | several threads |
| **Peers** (`p2p.py`) | dictionary of connected peers, asyncio tasks, running flag | connect, accept, handshake, read loop, heartbeat, stop | Node's message handler |
| **Epochs and entropy** (`epoch.py`) | per-epoch state, entropy chain, finalized flags | advance, finalize, grace period, sync | Validator |
| **Measurement** (`measurement.py`) | targets, own measurements, commitments, reveals | commit, reveal, receive | Validator; roots go into proposals |
| **Detection** (`detection.py`) | statistics | anomaly tests on round-trip times | proposals, slashing |
| **Slashing** (`consensus.py` SlashingManager) | proposals, voters, slashed set | propose, vote, execute | detection |
| **Node** (`node.py`) | validator, P2P, mempool, producer, storage | run_epoch with timed phases, message dispatch, peer sync | everything |
| **Simulated network** (`network.py`) | validators, finalized blocks; a message queue nothing drives | run_epoch | Validator's engine, called directly |
| **Wallet** (`wallet.py`, TemporalAuthTree of `crypto.py`) | batch of one-time keys and its counters, prepared batch, known outputs, pending transactions | transfer, stake, unstake, data, register, rotate, submit, confirm, sync | the ledger's validation and auth registry |
| **Cryptography** (`crypto.py`, `native/`) | none | hashes, WOTS+, Merkle trees | all |

What is hard, and hard to test:

* *Messages and epochs*: validators change epochs at different times, votes are
  delayed, repeated, reordered, and some validators lie, also about who they are:
  votes are not signed. Certificates must not mix epochs and finality must not be
  revoked.
* *Stake arithmetic*: the threshold is 0.67 of the stake, not two thirds.
* *Stale validation*: a block is validated against the state at the time it is
  built and applied later without being validated again.
* *Partial failure*: `apply_transaction`, `apply_block` and
  `store_block_with_transactions` stop in the middle and keep what they did.
* *Crashes* between the commits of three databases, retries after them.
* *Lock regions*: shard and index are updated under different locks.
* *Awaits*: the peer limit and the duplicate check are tested several awaits
  before the peer is registered; tasks close peers by id.
* *Timed phases*: a node repeats an epoch while its clock stands in it, learns its
  peers while it runs, and counts epochs in three places (clock, consensus, manager).
* *Late news*: the wallet spends from its own view of the chain, and one-time keys
  must stay one-time through failures, lost transactions and rotations.

What makes each component correct is what the property sections of the modules
state; section 4 lists them run by run. `PROJECT.json` lists the hazards one by
one with the line where each bites.

## 2. Plan

Order: what decides whether the chain is one chain first, then what a block does
to the state, then how it survives, then the concurrent helpers, then the rest.

1. done: `Consensus` with `EpochFinality` (abstract), and `Testnet`, the engines as
   the simulation drives them; proofs of what one validator decides and of what a
   fork takes.
2. done: `Ledger`; proofs about index, spending, registration, mempool, blocks,
   supply.
3. done: `Storage` with `BlockLog` (abstract); proofs of recovery and of the rebuild.
4. done: `ShardedUTXO`; proofs for any number of threads.
5. done: `Peers`; proofs for any number of connections.
6. done: `Wallet` against the chain's rules for its address; proofs about keys,
   roots, known outputs and pending transactions.
7. done: `Node`: run_epoch's timed phases over P2P with the epoch manager;
   `Measurement`: commit and reveal; both with proofs.
8. done: `Slashing`, with proofs, and the pure algorithms (Merkle trees, WOTS+,
   selection of the proposer) in `Algorithms`, against reference definitions.
9. done: a theorem for every safety property of a passing run, those of
   `Algorithms` included, whose loops are functions of the number of rounds.

## 3. Modules

`MCx.tla` instantiates module x for TLC, `xProofs.tla` proves theorems about it.
`ConcurrencyProofs` is about Peers and ShardedUTXO, `ComponentsProofs` about
Measurement, Slashing and Algorithms; `SumProofs` is about sums and folds over finite
sets.

**Consensus** (`consensus.py` 128-430, handlers of `validator.py`). One copy of
BFTConsensus per honest validator; an action is a whole handler: `StartEpoch`
(start_epoch → start_round, advance_epoch), `RunConsensusPhase`,
`ReceiveProposal` (with the automatic pre-vote), `ReceivePreVote` (with the
threshold test and the pre-commit), `ReceivePreCommit` (with try_finalize and
on_block_finalized). The network is the set of everything ever sent, from which
a handler takes any message at any time, any number of times: loss, delay,
duplication and reordering in one. What else arrives is a constant set of messages,
which may name any validator as voter or proposer: nothing is signed, and
receive_pre_vote and receive_pre_commit only test that voter_id is registered. The
model starts after the first start_epoch of every validator. Stakes are a measure on
sets of validators, so that proofs need no sums.

**EpochFinality** is what consensus promises a validator: it decides an epoch at most
once, for a proposal of the selected proposer, never in retrospect, and for good.
`Consensus` is shown to implement it with `decided` = the proposals of the finalized
blocks. That different validators agree is not part of it, since forged votes can
split them; `ForksNeedVotesNotCast` says what such a fork takes.

**Testnet** (`network.py` run, run_epoch). The engines of Consensus as the simulation
drives them: one thread calls start_epoch, create_proposal, create_pre_vote,
create_pre_commit and try_finalize on all validators, phase by phase, and hands the
results to the others' receive_ functions. A step is a phase. It carries the fairness
and the liveness property of the consensus.

**Ledger** (`transaction.py` 251-860, `block_producer.py` 46-245). UTXO set,
index, stakes, registry, mempool, blocks built and in flight, and the block being
applied. `BroadcastTransaction`, `ProduceBlock` (create_template, fill_template,
create_coinbase), `ApplyBlock` (the coinbase), `ApplyNext` for each transaction of
the block or `FailBlock` with the partial effects of the one that fails,
`FinishBlock` (after which apply_block returns False if the storage raises, the state
already changed), `AdvanceEpoch`. Clients may broadcast transactions of every type,
coinbases included, and transactions that name an output twice. With `Pipelined` a
block may be built while others are pending. A hash is an injective number, a
signature is valid or not, a Merkle proof names the root it verifies under.

**Storage** (`storage.py` 55-392, 620-731, `block_producer.py` 495-545). Every
SQLite transaction is a step of its own; `Crash` may happen between any two and
loses what is in memory; up to `MaxFaults` operations fail the way the code lets
them (an ignored False or an exception). Both callers store any block of the chain at
any time, first or again: neither checks the order. The history variable `settled`
holds the blocks stored to the end with no store of the same or an earlier block begun
since, for which spent flags and the epoch marker are claimed. `RebuildUtxoSet` replays
the chain as the code does. **BlockLog** is what readers of the block store are
promised: blocks appear whole, one per epoch, and never change.

**ShardedUTXO** (`performance.py` 174-300, 409-560). One step is what a thread
does under one lock, or one unlocked read of `is_spent`. History in the call's
record (what was there or spent when it began) lets the properties say "right for
some moment of the call".

**Peers** (`p2p.py` PeerManager, P2PNode). A step is what an asyncio task does
between two awaits: dialing, the handshakes of both directions, registration, the
peer list, the read loop with its `finally`, the heartbeat's list of stale ids
that is worked off across awaits, and stop() in three stages. Remote ends may
present any id, stay silent, send garbage, or vanish.

**Wallet** (`wallet.py`, TemporalAuthTree of `crypto.py`, validation of
`transaction.py`). One wallet and the chain's view of its address. A `Create...`
action is a whole create_* call with its signatures, after which the transaction is
submitted and broadcast or thrown away. `ApplyBlock` validates and applies some of
what is on its way, `Lose` drops one. `AddUtxo`, `ConfirmTransaction`,
`MarkRegistered`, `ConfirmRotation` and `SyncEpoch` are the driver's calls, which
come late and in any order. `AddUtxo` overwrites what the wallet knows, as the code
does: a driver may add an output the wallet has already spent (`run_live.py:84` adds
outputs of a pending transaction), and the history variable `readded` keeps these
outputs. Sizes and fees are the code's: what the wallet estimates (`EstimateFee`,
`RegistrationFee`, `RotationFee`) against what validation asks for (`Size`,
`WellFormed`). Assumed of the driver, which is only sketched by the scripts and tests:
it hands over a transaction before it asks for the next, adds outputs that are or were
on the chain and worth something, names no fee of 0, and calls confirm_rotation when
the registry holds another root than the wallet's. Nobody slashes the wallet's stake,
and a batch number stands for its auth root.

**Node** (`node.py`, with the parts of `validator.py`, `consensus.py` and `epoch.py`
it drives). A step is what run_epoch does between two awaits; messages are handled
between any two. Every node has its own clock, its own registry of the validators it
has been connected to and its own epoch manager, whose counter goes up with every
run, whatever the clock says. run_loop repeats the epoch until the clock moves on.
The clock counts from the construction of the manager (`epoch.py:220`, `epoch.py:245`)
and, in the model, does not leave an epoch before a run of it has started: a run is
much shorter than an epoch, and the first run is assumed to start in time.
What _serialize_proposal and _deserialize_proposal do to the proposal's hash is
modelled; that reveals never survive the wire is why the proposer's measurements
are only its own.

**Measurement** (`measurement.py`, `validator.py` 147-222). One MeasurementProtocol
per honest validator. Rounds of the same or the next epoch start at any time; a
message may be received at any time, any number of times; faulty validators send a
constant set of messages in their own name. A set of measurements is told apart by
source, epoch and round (each measurement has a random nonce; a validator without
peers measures nothing, which is left out).

**Slashing** (`consensus.py` 460-541). The three operations of SlashingManager in any
order. Votes and slashings are kept as history, numbered by the proposal they
belong to, since a proposal for the same evidence replaces the one before.

**Algorithms** (`crypto.py` 86-316, `performance.py` 322-397, `consensus.py` 254-270).
Operators, and one variable that runs through every sequence of digits up to
`MaxLength`. It is read as leaves, as the digits of a message hash and as the
stakes of validators. A hash is the term that was hashed. The code's sizes (16
digits, 64 + 3 chains, batches of 10000, chunks of 1000 pairs) are constants; what
relates them is an assumption. A loop of the code is a function of the number of its
rounds: value k is the test and body applied to value k - 1, the test making it stay
once it is false, and the result is the value after as many rounds as the input can
need (`BuildTree`, `ComputeRootSequential`, `ComputeRootParallel`, `VerifyProof`).
`VerifyProof` starts from a digest: the code hashes a leaf that does not have 32 bytes
first (`crypto.py:308`), the callers pass digests, and a raw leaf of 32 bytes
(`native/python_baseline.py:79`) would be taken for one.
The properties hold the code against definitions of another shape: `RootOf` from the
top of the tree down, the number of targets per validator, all other digests.

## 4. Runs

| run | instance | shows |
|---|---|---|
| consensus_byzantine | stakes 33/33.5/33.5, 2 epochs at different paces; the faulty proposer of the first makes two blocks and pre-commits to both under either epoch; pre-commits to the second come in anybody's name | `OnePreCommitPerEpoch`: although everyone pre-votes for both proposals, pre-commits are unique; `ForksNeedVotesNotCast`: validators do finalize different blocks here, but never from votes that were all cast; `CommitCertificate`; refinement of EpochFinality |
| consensus_large_stake | 4 validators, stakes 33 (faulty), 34, 16.5, 16.5 | **violation** of `Agreement`: see section 7 |
| testnet_epochs | stakes 40/30/30, 4 epochs with different proposers, one of whom is needed for every quorum | `EpochsFinalizeUnanimously` |
| ledger_sequential | 3 blocks; conflicting, dependent and oversized transfers, a client's coinbase, a transfer naming an output twice | `BlocksApply`, `MempoolWithinLimit` |
| ledger_pipelined | 3 overlapping blocks with stakes, slashes, registrations, rotations, a client's coinbase and a payment with it, a transfer naming an output twice | `IndexConsistent`, `SpentStaysSpent`, `SupplyBounded`, `RegisterOnce`, `MempoolConflictFree` also when blocks fail half-way |
| storage_recovery | 3 blocks with a gap in the epochs, stored in any order and again, a crash anywhere, a failing SQLite operation | always `ChainLinked` and the refinement of BlockLog; until an operation fails also `RebuildRecoversChain`, `UnspentRowsAreUnspent`, `EpochMarkerTracksChain`, `FinalizedIsStored` |
| sharded_threads | 3 threads, 2 outputs in 2 shards, 2 spenders, one locked output | `SpentOnce`, `IndexCoversUnspent`, `BalanceBetween`, `BatchBetween` |
| wallet_rotation | 2 outputs, one locked; batches of 1 key and 2 rotation keys; 3 transactions; 2 spent outputs added again | `KeysSignOnce`, `ChainRootKnown`, `WalletTracksChain`, `TransfersStayValid` |
| peers_lifecycle | 3 connections of up to 3 validators, limit 2 | `PeersWithinLimit`, `PeersServed`, `BrokenPeersRemoved`, `StopDrains` |
| node_loop | stakes 10/70/20, one or two runs of one or two epochs, connections made late, one node stopped | `ManagerRecordsBlocks`, `SelfCertified`, `HeavyProposerFinalizes` |
| measurement_rounds | 2 honest validators and one that reveals what it did not commit to, 2 epochs, 3 rounds each | `ProposalsAuthentic` |
| components | Slashing: 3 voters, 2 pieces of evidence, 2 proposals each. Algorithms: inputs of up to 8 digits of 0..2 | `SlashedByQuorum`; `MerkleProofsExact`, `ParallelRootIsSequential`, `SignatureOfOneDigest`, `SelectionProportional` |

Bounds, and why they are enough to meet the interesting cases: two proposals and two
honest validators who are together exactly 67% are the least with which a faulty
proposer can split the votes and a quorum still exists; two epochs are needed for
messages of an epoch to meet validators in another; three blocks with two-entry
limits make templates overflow, overlap and conflict; every block may be stored any
number of times, so that one crash covers retries at every point, also out of order,
and a fault may come before or after it; three threads let a reader
overlap an adder and a spender; three connections and a limit of two let the third
handshake race for the last place and let a validator reconnect; one key per batch
and three transactions let a batch run out half-way through a transaction with several
inputs and let a rotation be retried, and at a fee rate of two, with outputs of 16500
and 9600, a transfer of two inputs is applied and one of three refused for its fee; two
runs of a node let an epoch be repeated
and the manager's counter get ahead of the clock, and three stakes let a node be
heavy among the peers it knows and light among all; three rounds and two epochs let
the messages of a repeated epoch and of the next meet a validator in another round;
a proposal replaced once shows what happens to its votes. Eight digits give Merkle
trees of one to eight leaves, with pads, odd levels, and chunks of equal and unequal
size for one and two workers; digits of 0..2 with 4 + 2 chains keep the relation of
the code's sizes (the largest checksum, 8, fits into two digits); stakes of 0, 1
and 2 of up to eight validators include none. Counters and epochs are capped in
guards by the constants named `Max...`. Symmetry sets are used only in runs without
temporal properties (LightPermutations: the two light validators; Symmetries: threads
and spenders). Runs say CHECK_DEADLOCK FALSE because the bounded systems end: the
last epoch is decided, all connections used, the input at its longest. Type
invariants (`...TypeOK`) are proved, as part of the inductive invariants, in the
modules that have proofs and are not repeated in the runs. Slashing and Algorithms
share one run, each behaviour of which is one of either.

Each property has a mutant in PROJECT.json, a plausible slip in one mapped
definition under which the property is violated.

**Fairness.** Testnet: run_epoch is one thread of calls that return, so its next
step happens. Consensus, whose messages nothing in the repository delivers (nothing
calls run_consensus_phase, _route_messages, _deliver_messages or _process_all_inboxes),
has none and no liveness property.
Peers: the event loop runs every task that is ready; an await before the read loop
returns or times out (10 s for a handshake, open_connection and drain end or
raise); a read loop ends when its stream ends, its writer was closed or the node
is not running (it is cancelled). No fairness is assumed for opening or breaking
connections, for the heartbeat finding anyone stale or for stop() being called.
Node: the event loop resumes run_loop after each of its waits, whose lengths are
fixed (`asyncio.sleep`, probes with time-outs); nothing is assumed of messages,
connections, the clock or stop().

## 5. Proofs

Each module of proofs uses an inductive invariant that is stronger than the
property, found by checking it with TLC first.

**ConsensusProofs.** `TypeCorrect`, `PeersCountedOnce`, `BlocksCertified` and
`BlocksFromSelectedProposer` hold for all constants that satisfy the named assumptions
of the module, whatever messages arrive in whoever's name. `CertificateInv` adds that
senders have started the epochs of their messages, that what a tally contains arrived
as a vote for that proposal and epoch or is the validator's own, that a sent pre-commit
is backed by a pre-vote quorum, and that tallied proposals come from the selected
proposer. `HonestPreCommitOnce`, `ForksAreNotOfVotesCast`, `FinalityIsIrrevocable` and
`ConsensusImplementsEpochFinality` assume `StakeBound`: the faulty stake together, and
every honest validator alone, is below 34%. Two 67% quorums within one validator's
tallies overlap in 34% of the stake, so they share a voter other than the validator
itself, whose vote the equivocation check counts once, whoever sent it; this needs the
bound on single honest stakes. Two blocks of different validators share an honest
supporter, and `HonestPreCommitOnce` says that it has not cast both pre-commits. That
validators agree is therefore not proved and not true: it takes votes that carry
their voter's signature.

**SumProofs.** What the sum of a function over a finite set is: it is additive over
disjoint sets, depends only on values inside the set, and carries over to an
injective image. The library's
induction rules cannot be instantiated by the provers; each induction here takes a
smallest counterexample instead, which exists because the numbers are well-founded
(`LeastNumber`). `SetInduction` makes this argument once for two functions on the
subsets of a finite set. The proofs about values, sizes and replay rest on it.
`StakesAreMeasures` discharges what the other modules assume of stakes: sums of any
stakes of finitely many validators are measures.

**LedgerProofs.** `LedgerTypes`, `IndexIsExact`, `SpentOutputsStaySpent`,
`RegistrationIsOneTime`, `MempoolIsConflictFree`, `MempoolIsLimited` for any
transactions, overlapping blocks included. The invariant says how far transactions may
have been applied already: a coinbase hash is new until its block is applied, and a user
transaction is applied once because its inputs stay spent. `SizeInv` adds that the
mempool is finite, so that what it subtracts on removal is what it added.
`SequentialBlocksApply` assumes that blocks do not overlap; its invariant says that the
transactions still to apply have unspent, disjoint inputs, so that only one that names
an output twice can fail. `SpentOutputsStaySpent` is about outputs that go back to a
genesis output or a producer's coinbase (`Rooted`): what a client's coinbase pays for can
be applied again, because a coinbase has no input that would be spent the second time.
`SupplyIsBounded` assumes finitely many genesis outputs. It allows for what the code
lets into circulation, the outputs and fees of client coinbases and slashes
(`Unbacked`), for which validation compares no inputs. The coinbase of a block pays out
the fees first: while a block is applied, the unspent value is at most what has been
granted and the fees of the transactions still to apply, and a block that fails keeps
a coinbase whose fees were not all paid. Blocks may overlap.

**StorageProofs.** `StorageIsABlockLog` (one block per epoch) and `StoredChainIsLinked`
with any crashes and faults; until a fault `FinalizedEpochsAreStored` (one block per
epoch), `EpochMarkerFollowsChain`, `UnspentRowsAreNotSpent` (a valid chain) and
`RebuildIsExact`. None assumes an order in which blocks are stored. The invariants
describe what a job in progress has already written; for the spent flags, that a
settled block's marks are only reset by storing a block that created the outputs, which
is an earlier one and unsettles it; for the links, that a block is written late exactly
if a later one was there. `RebuildIsExact` (a valid chain, one block per epoch) is about
a fold in a fold: `Replayed(D)` says what replaying a set of transactions makes of the
UTXO set, one transaction and one block extend it (nothing replayed later was spent
earlier, `NothingSpentEarlier`), and `SetInduction` shows that the folds compute it.

**ConcurrencyProofs.** *ShardedUTXO*: `OutputsSpentOnce`, `IndexIsComplete`,
`BalanceIsBetween`, `BatchIsBetween` for any number of threads, outputs, shards and any
batch. The invariant relates every running call to what was added and spent when it
began, and is stable because outputs are only added and spent outputs stay spent.
*Peers*: `PeersTypes`, `RegisteredPeersAreServed`, `PeersAreLimited` for any number of
connections and validators and any limit. `ServedInv` adds to PeersServed that
until stop() only a connection that was registered or has ended has a closed writer, that a
task knows the id it will be closed by from the handshake on, and that nothing
happens before start().

**WalletProofs.** For any outputs, amounts, batch sizes and bounds. `OneTimeKeys`:
`KeyInv` says that the counters are ahead of every key that has signed, which a change
of the batch keeps because batch numbers only grow; it needs `FiniteInv` (a wallet
knows finitely many outputs) so that the number of inputs is a number. `RootIsKnown`:
`RootInv` says which roots the transactions on their way carry: a rotation from the
present batch leads to the prepared one, older rotations name a root the chain no
longer holds. `WalletFollowsChain` and `PaymentsStayValid`: `TrackInv` says that
transactions are told apart by their hash, that an output the wallet would spend again
is one it was told of again, where the outputs either side knows come from, that both
agree where they know the same output, and that what is pending was paid for when it
was built. That the estimated fee of a transfer with one input suffices is from
`LimitsAssumption` (one input fits the limits, the wallet's rate is at least the
chain's).

**NodeProofs.** `NodeTypes`, `ManagerFollowsEngine`, `BlocksAreSelfCertified` for any
nodes, stakes, links, runs and ticks. `NodeInv` says that the manager's counter is
ahead of the clock and of the engine and that exactly the epochs up to it have a state;
that a proposal on the wire is marked as one that went over it while a pre-commit names
its sender's own; that a node in the voting stages has a proposal of its own for the
engine's epoch; and that a pre-commit in a tally is the node's own or for its sender's
own proposal as it was before the wire, which has another hash than what the node
holds.

**ComponentsProofs.** *Measurement*: `MeasurementTypeCorrect` and
`CollectedIsAuthentic` for any
validators, epochs, rounds and messages of faulty validators. ProposalsAuthentic is
about what a proposer holds; `AuthenticInv` follows the measurements there: an
honest validator's own are of its epoch, what is past "IDLE" was sent as a
commitment, reveals repeat what was committed to, and what others hold since their
round began was sent for their epoch (start_epoch empties both tables, which is why
the epochs still match).

*Slashing*: `SlashingNeedsQuorum` for any voters, stakes and evidence. `QuorumInv`
says that the supporting stake of a standing proposal is the stake of its voters and
that these are the votes accepted under its number; there are no votes for later
numbers, so that a replaced proposal's votes are not counted, and an executed one
takes no more.

*Algorithms*: the runs try inputs of up to eight digits, the theorems hold for inputs
of any length and for the code's own sizes. What is assumed is that the sizes are
numbers and that the checksum fits into its chains (`SizesAssumption`,
`WotsAssumption`; 64 * 15 < 16^3 in the code). The library's induction rules cannot be
instantiated, but a fact about the rounds of one loop can be written as a set of
numbers that contains 0 and, with a number, the next one (`CountingUp`, from
`LeastNumber`). With it every loop is shown to have its values (`PowerExists`,
`RunExists`, `TreeExists`, `RootsExist`, `ClimbExists`) and these to be what is
claimed:

* `SelectionIsProportional`: the targets for which a validator is selected are those
  from the stake before it up to the stake including it (`SelectedByShare`), and an
  interval has as many members as its length.
* `SignaturesAreOfOneDigest`: if no chain had to go back, no digit of the other digest
  would be smaller, so that its checksum would be (`SumsCompare`); then one of the
  checksum's digits is smaller as well (`DigitsCompare`).
* `ParallelRootsAgree`: the chunks are pieces of an even number of digests, so that
  the pairs of the pieces are the pieces of the pairs, and put together they are the
  level (`FlattenPieces`, `ChunksHashPairs`); every round shortens the level, hence the
  rounds suffice (`RunEnds`).
* `MerkleProofsAreExact`: the levels of the tree are the roots of its subtrees
  (`LevelsAreRoots`), and by induction over the levels a proof leads to the digest
  above a leaf if and only if it starts with the digest of that leaf (`ProofAccepts`),
  because a hash determines what was hashed. It is shown for every digest, the run
  tries those of the tree.

Only model-checked: liveness (EpochsFinalizeUnanimously, BrokenPeersRemoved,
StopDrains, HeavyProposerFinalizes), since fairness is outside the prover's fragment.
Every safety property of a passing run is also proved.

## 6. Not modelled

* Detection (floating-point statistics), the bytes of hashes, signatures and wire
  formats, the native accelerators, statistics, logging, benchmarks and command-line
  drivers.
* BlockCoordinator and ParallelBlockBuilder: select_proposer reads `validator.stake`
  (`block_producer.py:298`) and produce_block `validator.address`, which
  ValidatorNode does not have, so that every zone's block production raises.
* EntropyWell: the entropy evolves only a key nothing signs with. EpochSynchronizer
  and is_in_grace_period: nothing uses them.
* The message queue of network.py (_route_messages, _deliver_messages,
  _process_all_inboxes), which nothing calls, and run_epoch's measurement phases.
* Messages a validator handles before its first start_epoch: the drivers start all
  validators before anything is exchanged.
* The validator and entropy tables of StateDB, which nothing but tests writes.
* In the modelled parts: reporting fields nothing reads; the round of a vote, which
  every caller leaves at 0; registering validators during a run of the message-driven
  validators (Node does register late); a second block for a stored epoch; the
  signature and final stages of the pipeline; a second start of a stopped P2PNode;
  a client that broadcasts a producer's coinbase again (Ledger); messages in another's
  name in Measurement and Node (nothing is signed; the sender of a message is taken to
  be who the transport says), while Consensus does have votes in any name; a node whose
  first run starts epochs late (`Node.Tick`).

## 7. Where code and text disagree

Shown by a run that ends in a violation:

* *An honest validator counts itself for both proposals of an equivocating
  proposer* (consensus_large_stake): create_pre_vote and create_pre_commit do not
  enter the validator's own vote in the equivocation tables (`consensus.py:302`).
  With one faulty validator of four and an honest stake of 34% two different blocks
  are finalized, within the bound f < N/3 of `WHITEPAPER.md:92`, even though every vote
  is its voter's; with every honest stake below 34% a validator pre-commits once
  (`HonestPreCommitOnce`).

Noted while modelling, without a run:

* `validator.py:286`: when a validator's own pre-commit completes the quorum,
  receive_vote does not try to finalize, so a validator may never finalize an epoch
  that others finalize.
* `consensus.py:366`, and the same for pre-votes: the voter_id of a vote is not tied to
  a sender or a signature, so that whoever reaches a validator can complete a quorum in
  the names of others, and validators then finalize different blocks
  (consensus_byzantine); `ForksNeedVotesNotCast` is what remains.
* `transaction.py:813`: the mempool takes a COINBASE from a client and
  _validate_coinbase accepts it: it creates value, and applied again it makes add_utxo
  overwrite its spent output as unspent.
* `transaction.py:448`: an output named twice is counted twice by validation; applying
  then stops at the second spend, and the block with it, half applied.
* `block_producer.py:132`: the block is validated before any of its transactions is
  applied, so a Merkle proof under a root that an earlier rotation of the same block
  replaces is accepted.
* `storage.py:639` says "atomically"; the writes are separate commits. Recovery
  works (storage_recovery), but rows of unfinished blocks stay.
* `storage.py:308`: storing an older block again resets its outputs to unspent, and
  moves the persisted epoch back; apply_block and finalize check no order.
  `UnspentRowsAreUnspent` and `EpochMarkerTracksChain` except this case.
* `performance.py:244` says "Briefly stale index is safe": an entry spent between
  the two halves of add_utxo stays in the index for ever. Balances are right
  (BalanceBetween), the entry is a leak.
* `performance.py:574`: _stage_signature refuses every transaction the verifier has
  no complaint about, since verify_transactions lists only the invalid ones.
* `p2p.py:143`: a reconnecting validator's entry is overwritten and the older writer
  is never closed, so stop() does not "Close all peer writers" (`p2p.py:302`); the
  older read loop later removes the newer connection (`p2p.py:463`).
* `epoch.py:303` marks the previous epoch finalized when the next one starts, before
  its votes; `README.md:22` says "Nothing committed until end-of-epoch BFT
  consensus."
* `transaction.py:753`: staked totals only grow.
* `wallet.py:553`, and the same in create_rotation_tx: the transaction spends only the
  first of the selected outputs, but its change is of all of them, so that it is
  refused when one output does not cover the fee, although the wallet's funds do;
  `WHITEPAPER.md:158` says "can ALWAYS rotate".
* `wallet.py:180`: the registration key is derived from the seed, the same every
  time, so that a registration tried twice signs two messages with one key;
  `WHITEPAPER.md:222` says "Each WOTS+ key is consumed exactly once".
* `wallet.py:656`: the outputs of a transaction that is lost stay marked spent.
* `wallet.py:311`: add_utxo and confirm_transaction overwrite what the wallet knows, so
  that an output added again after it was spent is offered again.
* create_transfer and create_stake estimate the fee for one input whatever the number
  they select: with 12 or more inputs at the default rate the chain's minimum fee is
  not met (`transaction.py:211`). At rate 1 the estimate for a rotation (4594) is below
  the size of a rotation (4896).
* `wallet.py:473`: an unstake whose fee exceeds the stakes raises, and one that leaves
  less than the dust limit is refused by the chain.
* `node.py:511`: a proposal's empty roots become 32 zero bytes on the wire, so that
  receivers vote for another hash, and pre-commits of nodes other than the proposer
  stay in an outbox without peers. Over P2P a block is therefore certified by the
  proposer alone (`SelfCertified`): among nodes none of which holds 67% of the stake
  nothing is finalized, and nodes that are not connected finalize a block each.
* `node.py:267`: the same epoch is run, and finalized, again until the clock moves on;
  a later block of the epoch replaces the earlier one in finalized_blocks.
* `node.py`: _deserialize_reveal passes an argument MeasurementReveal does not have and
  so always returns None.
* `measurement.py:334`: a reveal is compared with the commitment it brings along, not
  with the one received before; `WHITEPAPER.md:261` says "The commitment is binding".
  `ProposalsAuthentic` claims the match only for validators that follow the protocol.
* `measurement.py:234`: the selection of targets "Uses epoch entropy"; it uses the
  validator id and the epoch number.
* `epoch.py:280`: is_in_grace_period initializes the current epoch anew before it looks
  at it (the default of `get` is evaluated first), dropping its block root.
* `network.py` run_epoch stops at the first validator that finalizes: the other
  validators' finalized blocks and epoch managers do not learn of the block.
* `crypto.py:264`: the tree of no leaves is one digest, not a level of one, so that its
  root is the first byte of it, an int.
* `block_producer.py` distribute_transactions drops what falls to a zone without a
  coordinator.
