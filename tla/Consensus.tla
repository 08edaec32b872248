------------------------------ MODULE Consensus ------------------------------
(***************************************************************************)
(* The epoch consensus of QRTB as one validator process per node runs it:  *)
(* BFTConsensus (consensus.py) driven by the message handlers of           *)
(* ValidatorNode (validator.py).  Every honest validator starts an epoch,  *)
(* the selected proposer broadcasts a proposal, every receiver pre-votes   *)
(* for it, 67% of the stake in pre-votes triggers a pre-commit, and 67% in *)
(* pre-commits finalizes the epoch's block.                                *)
(*                                                                         *)
(* The network is the weakest one: `sent' holds every message an honest    *)
(* validator ever broadcast, and a handler may take any of them at any     *)
(* time, any number of times or never (delay, reordering, duplication,     *)
(* loss).  Validators in Faulty run no code of the repository.  What else  *)
(* arrives are the members of FaultyMessages, available at any time.  They *)
(* may name any validator: votes carry no signature, and all a handler     *)
(* knows of a vote's origin is its voter_id field.                         *)
(*                                                                         *)
(* Abstractions.  A proposal is its hash input (proposer, epoch, root):    *)
(* proposal_hash is taken to be injective, and the round, which every      *)
(* caller leaves at 0, is dropped.  Vote lists are sets of voters, because *)
(* every threshold deduplicates by voter.  Reporting state (ValidatorState,*)
(* statistics, timestamps, logging) is left out: no handler reads it.      *)
(***************************************************************************)
EXTENDS Integers, Sequences, FiniteSets

CONSTANTS
    Validators,      \* the registered validators, the same set at every node
    Faulty,          \* the ones that do not follow the protocol
    StakeOf,         \* StakeOf[S]: sum of the registered stakes of the set S
    ValidatorOrder,  \* the validators in the order of their sorted ids
    SelectionValue,  \* SelectionValue[e]: the leading 8 bytes of the seed's hash
    Roots,           \* the measurement roots a proposer may compute
    MaxEpoch,        \* bound: the last epoch that is started
    FaultyMessages,  \* the messages that no honest validator need have sent
    None             \* Python's None

Epochs == 0 .. MaxEpoch
Honest == Validators \ Faulty
TotalStake == StakeOf[Validators]

Proposals == [proposer : Validators, epoch : Epochs, root : Roots]

\* For a vote, epoch is the vote's own epoch field; for a proposal message it
\* repeats the proposal's.  sender is the voter_id of a vote.
Messages == [type : {"proposal", "pre-vote", "pre-commit"}, sender : Validators,
             epoch : Epochs, proposal : Proposals]

\* COMMIT is declared in the enumeration too, but no code enters it.
ConsensusPhase == {"IDLE", "PROPOSE", "PRE_VOTE", "PRE_COMMIT", "FINALIZED"}

\* A ConsensusBlock: support is the set of pre-committers whose stake is
\* recorded as supporting_stake and hashed into block_hash.
Blocks == [proposal : Proposals, support : SUBSET Validators]

ASSUME FaultyAssumption == Faulty \subseteq Validators

\* Stake is a non-negative measure on sets of validators, and some validator
\* has stake (a registry without stake divides by zero in _expected_proposer).
ASSUME StakeAssumption ==
    /\ StakeOf \in [SUBSET Validators -> Nat]
    /\ \A S, T \in SUBSET Validators :
          S \cap T = {} => StakeOf[S \cup T] = StakeOf[S] + StakeOf[T]
    /\ TotalStake > 0

\* Nothing ties the voter_id of a vote, or the proposer_id of a proposal, to
\* the validator it comes from.
ASSUME FaultyMessagesAssumption == FaultyMessages \subseteq Messages

ASSUME ConstantsAssumption ==
    /\ MaxEpoch \in Nat
    /\ None \notin Proposals
    /\ None \notin Blocks

ASSUME SelectionAssumption ==
    /\ ValidatorOrder \in Seq(Validators)
    /\ Validators = {ValidatorOrder[i] : i \in DOMAIN ValidatorOrder}
    /\ SelectionValue \in [Epochs -> Nat]

\* The fault model of the safety results: the faulty validators together, and
\* each honest validator alone, hold less than 34% of the stake.  The second
\* half is needed because a validator's own votes are not tracked in
\* _pre_vote_choices / _pre_commit_choices, so it counts itself for every
\* proposal it receives.
StakeBound ==
    /\ 100 * StakeOf[Faulty] < 34 * TotalStake
    /\ \A v \in Honest : 100 * StakeOf[{v}] < 34 * TotalStake

VARIABLES
    current_epoch,       \* BFTConsensus.current_epoch, per validator
    phase,               \* BFTConsensus.phase
    received_proposals,  \* proposals known by hash
    pre_votes,           \* set of <<proposal, voter>>
    pre_commits,         \* set of <<proposal, voter>>
    pre_vote_choices,    \* _pre_vote_choices: voter -> proposal or None
    pre_commit_choices,  \* _pre_commit_choices
    finalized_blocks,    \* epoch -> block or None
    em_epoch,            \* EpochManager.current_epoch
    em_finalized,        \* the epochs whose EpochState.finalized is True
    sent                 \* every message honest validators have broadcast

votingVars == <<received_proposals, pre_votes, pre_commits,
                pre_vote_choices, pre_commit_choices>>
emVars == <<em_epoch, em_finalized>>
vars == <<current_epoch, phase, votingVars, finalized_blocks, emVars, sent>>

NoChoices == [w \in Validators |-> None]

\* The driver starts epoch 0 at every validator before anything is exchanged
\* (network.py, phase 1 of run_epoch): the constructor and the first start_epoch.
Init ==
    /\ current_epoch = [v \in Honest |-> 0]
    /\ phase = [v \in Honest |-> "PROPOSE"]
    /\ received_proposals = [v \in Honest |-> {}]
    /\ pre_votes = [v \in Honest |-> {}]
    /\ pre_commits = [v \in Honest |-> {}]
    /\ pre_vote_choices = [v \in Honest |-> NoChoices]
    /\ pre_commit_choices = [v \in Honest |-> NoChoices]
    /\ finalized_blocks = [v \in Honest |-> [e \in Epochs |-> None]]
    /\ em_epoch = [v \in Honest |-> 1]
    /\ em_finalized = [v \in Honest |-> {0}]
    /\ sent = {}

------------------------------------------------------------------------------
(* Helpers of the engine *)

Voters(tally, p) == {w \in Validators : <<p, w>> \in tally}

\* Fault: a simple majority of the stake.
MajorityThreshold(S) == 2 * StakeOf[S] >= TotalStake

\* ratio >= BFT_THRESHOLD with BFT_THRESHOLD = 0.67
MeetsThreshold(S) == 100 * StakeOf[S] >= 67 * TotalStake

\* The first validator, in id order, whose cumulative stake exceeds the target.
ExpectedProposer(e) ==
    LET target == SelectionValue[e] % TotalStake
        Prefix(i) == {ValidatorOrder[j] : j \in 1 .. i}
        selected == CHOOSE i \in 1 .. Len(ValidatorOrder) :
                       /\ StakeOf[Prefix(i)] > target
                       /\ i > 1 => StakeOf[Prefix(i - 1)] <= target
    IN  ValidatorOrder[selected]

AmIProposer(v) == ExpectedProposer(current_epoch[v]) = v

Message(t, v, e, p) == [type |-> t, sender |-> v, epoch |-> e, proposal |-> p]

\* What a validator's inbox can hold: what its peers broadcast, never what it
\* broadcast itself, and messages of any author.
Receivable(v) == {m \in sent : m.sender # v} \cup FaultyMessages

\* Fault of a check below: a second pre-vote for another proposal is counted.
UncheckedPreVote(v, m) == m.epoch = current_epoch[v]

\* The checks of receive_proposal, receive_pre_vote and receive_pre_commit.  A
\* voter's first vote of a phase is binding; its own votes are not tracked.
ValidProposal(v, p) ==
    /\ p.epoch = current_epoch[v]
    /\ p.proposer = ExpectedProposer(current_epoch[v])

ValidPreVote(v, m) ==
    /\ m.epoch = current_epoch[v]
    /\ pre_vote_choices[v][m.sender] \in {None, m.proposal}

ValidPreCommit(v, m) ==
    /\ m.epoch = current_epoch[v]
    /\ pre_commit_choices[v][m.sender] \in {None, m.proposal}

------------------------------------------------------------------------------
(* ValidatorNode.start_epoch: the driver passes 0, 1, 2, ..., each once *)

NextEpoch(v) == current_epoch[v] + 1

\* Fault: the engine is reset altogether, the finalized blocks included.
ForgetfulStartEpoch(v) ==
    /\ NextEpoch(v) <= MaxEpoch
    /\ em_epoch' = [em_epoch EXCEPT ![v] = @ + 1]
    /\ em_finalized' = [em_finalized EXCEPT ![v] = @ \cup {em_epoch[v]}]
    /\ current_epoch' = [current_epoch EXCEPT ![v] = NextEpoch(v)]
    /\ phase' = [phase EXCEPT ![v] = "PROPOSE"]
    /\ received_proposals' = [received_proposals EXCEPT ![v] = {}]
    /\ pre_votes' = [pre_votes EXCEPT ![v] = {}]
    /\ pre_commits' = [pre_commits EXCEPT ![v] = {}]
    /\ pre_vote_choices' = [pre_vote_choices EXCEPT ![v] = NoChoices]
    /\ pre_commit_choices' = [pre_commit_choices EXCEPT ![v] = NoChoices]
    /\ finalized_blocks' = [finalized_blocks EXCEPT ![v] = [e \in Epochs |-> None]]
    /\ UNCHANGED sent

\* advance_epoch marks the previous epoch finalized; start_round resets the
\* engine for the new epoch.
StartEpoch(v) ==
    /\ NextEpoch(v) <= MaxEpoch
    /\ em_epoch' = [em_epoch EXCEPT ![v] = @ + 1]
    /\ em_finalized' = [em_finalized EXCEPT ![v] = @ \cup {em_epoch[v]}]
    /\ current_epoch' = [current_epoch EXCEPT ![v] = NextEpoch(v)]
    /\ phase' = [phase EXCEPT ![v] = "PROPOSE"]
    /\ received_proposals' = [received_proposals EXCEPT ![v] = {}]
    /\ pre_votes' = [pre_votes EXCEPT ![v] = {}]
    /\ pre_commits' = [pre_commits EXCEPT ![v] = {}]
    /\ pre_vote_choices' = [pre_vote_choices EXCEPT ![v] = NoChoices]
    /\ pre_commit_choices' = [pre_commit_choices EXCEPT ![v] = NoChoices]
    /\ UNCHANGED <<finalized_blocks, sent>>

\* run_consensus_phase: only the selected proposer does anything.  It creates
\* and broadcasts a proposal; it does not pre-vote for it.  The root depends on
\* the measurements gathered so far, so a repeated call may propose another.
RunConsensusPhase(v, root) ==
    LET p == [proposer |-> v, epoch |-> current_epoch[v], root |-> root]
    IN  /\ AmIProposer(v)
        /\ received_proposals' = [received_proposals EXCEPT ![v] = @ \cup {p}]
        /\ phase' = [phase EXCEPT ![v] = "PRE_VOTE"]
        /\ sent' = sent \cup {Message("proposal", v, current_epoch[v], p)}
        /\ UNCHANGED <<current_epoch, pre_votes, pre_commits, pre_vote_choices,
                       pre_commit_choices, finalized_blocks, emVars>>

\* receive_proposal: the epoch and the proposer are checked, then the validator
\* pre-votes at once, whatever it has already voted for.
ReceiveProposal(v, m) ==
    LET p == m.proposal
    IN  /\ m \in Receivable(v)
        /\ m.type = "proposal"
        /\ ValidProposal(v, p)
        /\ received_proposals' = [received_proposals EXCEPT ![v] = @ \cup {p}]
        /\ pre_votes' = [pre_votes EXCEPT ![v] = @ \cup {<<p, v>>}]
        /\ sent' = sent \cup {Message("pre-vote", v, current_epoch[v], p)}
        /\ UNCHANGED <<current_epoch, phase, pre_commits, pre_vote_choices,
                       pre_commit_choices, finalized_blocks, emVars>>

\* create_pre_commit, called from receive_vote when the pre-vote threshold is met
CreatePreCommit(v, p) ==
    /\ pre_commits' = [pre_commits EXCEPT ![v] = @ \cup {<<p, v>>}]
    /\ phase' = [phase EXCEPT ![v] = "PRE_COMMIT"]
    /\ sent' = sent \cup {Message("pre-commit", v, current_epoch[v], p)}

\* receive_vote with a pre-vote.  Rejected votes change nothing.  An accepted
\* vote that finds the threshold met pre-commits, again if already done.
ReceivePreVote(v, m) ==
    LET p == m.proposal
        tally == pre_votes[v] \cup {<<p, m.sender>>}
    IN  /\ m \in Receivable(v)
        /\ m.type = "pre-vote"
        /\ ValidPreVote(v, m)
        /\ pre_vote_choices' = [pre_vote_choices EXCEPT ![v][m.sender] = p]
        /\ pre_votes' = [pre_votes EXCEPT ![v] = tally]
        /\ \/ MeetsThreshold(Voters(tally, p)) /\ CreatePreCommit(v, p)
           \/ ~MeetsThreshold(Voters(tally, p)) /\ UNCHANGED <<pre_commits, phase, sent>>
        /\ UNCHANGED <<current_epoch, received_proposals, pre_commit_choices,
                       finalized_blocks, emVars>>

\* try_finalize and on_block_finalized: the block replaces any earlier one of
\* the epoch, and the epoch manager, which knows every epoch up to em_epoch,
\* marks the epoch.
Finalize(v, p, support) ==
    /\ finalized_blocks' = [finalized_blocks EXCEPT
           ![v][current_epoch[v]] = [proposal |-> p, support |-> support]]
    /\ phase' = [phase EXCEPT ![v] = "FINALIZED"]
    /\ em_finalized' = [em_finalized EXCEPT ![v] = @ \cup {current_epoch[v]}]

\* Fault: the threshold is tested on all the votes that go into the block, the
\* pre-votes included.
AllVotesFinalize(v, m) ==
    LET p == m.proposal
        tally == pre_commits[v] \cup {<<p, m.sender>>}
        support == Voters(pre_votes[v] \cup tally, p)
        CanFinalize == MeetsThreshold(support) /\ p \in received_proposals[v]
    IN  /\ m \in Receivable(v)
        /\ m.type = "pre-commit"
        /\ ValidPreCommit(v, m)
        /\ pre_commit_choices' = [pre_commit_choices EXCEPT ![v][m.sender] = p]
        /\ pre_commits' = [pre_commits EXCEPT ![v] = tally]
        /\ \/ CanFinalize /\ Finalize(v, p, support)
           \/ ~CanFinalize /\ UNCHANGED <<finalized_blocks, phase, em_finalized>>
        /\ UNCHANGED <<current_epoch, received_proposals, pre_votes,
                       pre_vote_choices, em_epoch, sent>>

\* receive_vote with a pre-commit
ReceivePreCommit(v, m) ==
    LET p == m.proposal
        tally == pre_commits[v] \cup {<<p, m.sender>>}
        CanFinalize == /\ MeetsThreshold(Voters(tally, p))
                       /\ p \in received_proposals[v]
    IN  /\ m \in Receivable(v)
        /\ m.type = "pre-commit"
        /\ ValidPreCommit(v, m)
        /\ pre_commit_choices' = [pre_commit_choices EXCEPT ![v][m.sender] = p]
        /\ pre_commits' = [pre_commits EXCEPT ![v] = tally]
        /\ \/ CanFinalize /\ Finalize(v, p, Voters(tally, p))
           \/ ~CanFinalize /\ UNCHANGED <<finalized_blocks, phase, em_finalized>>
        /\ UNCHANGED <<current_epoch, received_proposals, pre_votes,
                       pre_vote_choices, em_epoch, sent>>

Receive(v, m) ==
    \/ ReceiveProposal(v, m)
    \/ ReceivePreVote(v, m)
    \/ ReceivePreCommit(v, m)

Next ==
    \E v \in Honest :
        \/ StartEpoch(v)
        \/ \E root \in Roots : RunConsensusPhase(v, root)
        \/ \E m \in sent \cup FaultyMessages : Receive(v, m)

Spec == Init /\ [][Next]_vars

------------------------------------------------------------------------------
(* Properties *)

\* The fields of BFTConsensus and EpochManager keep the types their dataclasses
\* and initial values give them.
TypeOK ==
    /\ current_epoch \in [Honest -> Epochs]
    /\ phase \in [Honest -> ConsensusPhase]
    /\ received_proposals \in [Honest -> SUBSET Proposals]
    /\ pre_votes \in [Honest -> SUBSET (Proposals \X Validators)]
    /\ pre_commits \in [Honest -> SUBSET (Proposals \X Validators)]
    /\ pre_vote_choices \in [Honest -> [Validators -> Proposals \cup {None}]]
    /\ pre_commit_choices \in [Honest -> [Validators -> Proposals \cup {None}]]
    /\ finalized_blocks \in [Honest -> [Epochs -> Blocks \cup {None}]]
    /\ em_epoch \in [Honest -> Nat]
    /\ em_finalized \in [Honest -> SUBSET Nat]
    /\ sent \subseteq {m \in Messages : m.sender \in Honest}

\* The equivocation check of receive_pre_vote and receive_pre_commit: a node
\* counts a peer's stake for at most one proposal per phase of an epoch, however
\* many votes of that peer arrive and in whatever order.
PeerCountedOnce ==
    \A v \in Honest :
        /\ \A x, y \in pre_votes[v] : x[2] = y[2] /\ x[2] # v => x[1] = y[1]
        /\ \A x, y \in pre_commits[v] : x[2] = y[2] /\ x[2] # v => x[1] = y[1]

\* An honest validator never pre-commits to two proposals of the same epoch,
\* although it pre-votes for every valid proposal it receives.
OnePreCommitPerEpoch ==
    \A m, n \in sent :
        /\ m.type = "pre-commit" /\ n.type = "pre-commit"
        /\ m.sender = n.sender
        /\ m.epoch = n.epoch
        => m.proposal = n.proposal

\* No two honest validators finalize blocks with different proposals for the
\* same epoch.
Agreement ==
    \A v, w \in Honest, e \in Epochs :
        finalized_blocks[v][e] # None /\ finalized_blocks[w][e] # None
            => finalized_blocks[v][e].proposal = finalized_blocks[w][e].proposal

\* What stands behind two different blocks of an epoch: some honest validator
\* is counted as a supporter of both, and at least one of these two pre-commits
\* it never cast.  Lost, late, repeated and equivocating votes are not enough.
ForksNeedVotesNotCast ==
    \A v, w \in Honest, e \in Epochs :
        LET b == finalized_blocks[v][e]
            c == finalized_blocks[w][e]
        IN  b # None /\ c # None /\ b.proposal # c.proposal =>
              \E x \in b.support \cap c.support \cap Honest :
                 {Message("pre-commit", x, e, b.proposal),
                  Message("pre-commit", x, e, c.proposal)} \ sent # {}

\* Every finalized block carries a commit certificate of its own epoch: its
\* supporters hold 67% of the stake, and in the name of each of them there was
\* a pre-commit for that proposal in that epoch (none is left over from another
\* epoch, another proposal or the pre-votes).
CommitCertificate ==
    \A v \in Honest, e \in Epochs :
        LET b == finalized_blocks[v][e]
        IN  b # None =>
              /\ MeetsThreshold(b.support)
              /\ \A w \in b.support :
                    Message("pre-commit", w, e, b.proposal) \in sent \cup FaultyMessages

\* What is finalized for an epoch is a proposal made for that epoch by the
\* validator that _expected_proposer selects for it.
BlockFromSelectedProposer ==
    \A v \in Honest, e \in Epochs :
        finalized_blocks[v][e] # None =>
            /\ finalized_blocks[v][e].proposal.epoch = e
            /\ finalized_blocks[v][e].proposal.proposer = ExpectedProposer(e)

\* Finality is irrevocable: later votes may finalize the epoch again, but never
\* with another proposal, and never undo it.
FinalityIrrevocable ==
    [][\A v \in Honest, e \in Epochs :
          finalized_blocks[v][e] # None =>
              /\ finalized_blocks'[v][e] # None
              /\ finalized_blocks'[v][e].proposal = finalized_blocks[v][e].proposal
      ]_vars

\* The consensus implements EpochFinality: seen through the finalized proposals,
\* every step decides a single epoch at a single validator, once, for one of the
\* selected proposer's proposals and after all epochs it decided before, or
\* changes nothing.
Decided ==
    [v \in Honest |-> [e \in Epochs |->
        IF finalized_blocks[v][e] = None THEN None ELSE finalized_blocks[v][e].proposal]]

SelectedProposals ==
    [e \in Epochs |-> {p \in Proposals : p.epoch = e /\ p.proposer = ExpectedProposer(e)}]

Finality == INSTANCE EpochFinality
            WITH Nodes <- Honest, Candidates <- SelectedProposals, decided <- Decided

ImplementsEpochFinality == Finality!Spec
==============================================================================
