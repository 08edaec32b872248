-------------------------------- MODULE Node ---------------------------------
(***************************************************************************)
(* The runnable node: Node (node.py) drives its ValidatorNode (validator.  *)
(* py), BFTConsensus (consensus.py) and EpochManager (epoch.py) through    *)
(* timed phases of run_epoch, while the messages of its peers are handled  *)
(* between any two awaits.  Each node counts epochs from the moment it was *)
(* created, learns validators only by being connected to them, and runs    *)
(* the epoch again and again while the clock stands in it.                 *)
(*                                                                         *)
(* `sent' holds every message ever sent to a peer, which may handle it at  *)
(* any time, repeatedly or never.  Handlers change state before their      *)
(* first await only, so each is one step.                                  *)
(*                                                                         *)
(* Abstractions.  A proposal is the content of its hash.  Its measurement  *)
(* root is None without measurements and otherwise new in each run of the  *)
(* epoch.  The commitments and reveals that run_epoch also broadcasts have *)
(* no effect on consensus here: _deserialize_reveal passes a field that    *)
(* MeasurementReveal does not have, so every reveal is dropped and the     *)
(* proposer knows its own measurements only.  The module Measurement has   *)
(* that exchange.  Storage, transactions and statistics are not touched.   *)
(***************************************************************************)
EXTENDS Integers, FiniteSets

CONSTANTS
    Nodes,
    StakeOf,         \* StakeOf[S]: sum of the stakes of the set S of nodes
    Rank,            \* Rank[n]: position of n's id in sorted order
    SelectionValue,  \* SelectionValue[e]: the leading 8 bytes of the seed's hash
    Starts,          \* how the nodes may be started: num_epochs[n] is the argument of n's
                     \* run_loop, 0 if n only listens; links are connected at start
    MaxRuns,         \* bound: the largest num_epochs
    Stoppable,       \* bound: the nodes that may be stopped
    MaxClock,        \* bound: the last epoch on a node's clock
    None

Epochs == 0 .. MaxClock
Runs == 0 .. MaxRuns

\* wire: the proposal as _deserialize_proposal rebuilds it, whose empty
\* transaction and state roots have become 32 zero bytes
Proposals == [proposer : Nodes, epoch : Epochs, root : Runs \cup {None}, wire : BOOLEAN]
Votes == Proposals \X Nodes
\* support: the pre-committers whose stake is supporting_stake; run stands for the
\* finalization time, which is hashed into the block too
Blocks == [proposal : Proposals, run : Runs, support : SUBSET Nodes, total_stake : Nat]
EpochStates == [finalized : BOOLEAN, block_root : Blocks \cup {None}]
Messages == [type : {"proposal", "pre-vote", "pre-commit"}, sender : Nodes,
             epoch : Epochs, proposal : Proposals, to : Nodes]

ASSUME NodesAssumption ==
    /\ IsFiniteSet(Nodes) /\ Stoppable \subseteq Nodes
    /\ Rank \in [Nodes -> Nat]
    /\ \A n, m \in Nodes : Rank[n] = Rank[m] => n = m
    /\ SelectionValue \in [Epochs -> Nat]
    /\ MaxRuns \in Nat /\ MaxClock \in Runs
    /\ Starts \subseteq [num_epochs : [Nodes -> Runs],
                        links : SUBSET {{n, m} : n, m \in Nodes}]
    /\ None \notin Runs /\ None \notin Proposals /\ None \notin Blocks
    /\ None \notin EpochStates

\* No node is linked to itself.
ASSUME LinksAssumption == \A s \in Starts, n \in Nodes : {n} \notin s.links

ASSUME StakesAssumption ==
    /\ StakeOf \in [SUBSET Nodes -> Nat]
    /\ \A S, T \in SUBSET Nodes : S \cap T = {} => StakeOf[S \cup T] = StakeOf[S] + StakeOf[T]
    /\ \A n \in Nodes : StakeOf[{n}] > 0

VARIABLES
    clock,               \* get_current_epoch(): whole epochs since the node was created
    stage,               \* where start() or run_epoch is suspended
    running,             \* _running
    num_epochs,          \* run_loop's argument
    peers,               \* the validators connected by P2P
    registry,            \* BFTConsensus.validators
    current_epoch,       \* BFTConsensus.current_epoch
    current_proposal,    \* BFTConsensus.current_proposal
    received_proposals,
    pre_votes,           \* sets of <<proposal, voter>>
    pre_commits,
    pre_vote_choices,    \* _pre_vote_choices: voter -> proposal or None
    pre_commit_choices,
    finalized_blocks,    \* epoch -> block or None
    em_epoch,            \* EpochManager.current_epoch: the number of runs so far
    epochs,              \* EpochManager.epochs: number -> EpochState or None
    sent

roundVars == <<current_epoch, current_proposal, received_proposals, pre_votes, pre_commits,
               pre_vote_choices, pre_commit_choices>>
managerVars == <<em_epoch, epochs>>
netVars == <<running, num_epochs, peers, registry>>
vars == <<clock, stage, netVars, roundVars, finalized_blocks, managerVars, sent>>

NoChoices == [m \in Nodes |-> None]
Initialized == [finalized |-> FALSE, block_root |-> None]

Init ==
    /\ clock = [n \in Nodes |-> 0]
    /\ stage = [n \in Nodes |-> "starting"]
    /\ running = [n \in Nodes |-> TRUE]
    /\ \E s \in Starts :
          /\ num_epochs = s.num_epochs
          /\ peers = [n \in Nodes |-> {m \in Nodes : {n, m} \in s.links}]
    /\ registry = [n \in Nodes |-> {n}]
    /\ current_epoch = [n \in Nodes |-> 0]
    /\ current_proposal = [n \in Nodes |-> None]
    /\ received_proposals = [n \in Nodes |-> {}]
    /\ pre_votes = [n \in Nodes |-> {}]
    /\ pre_commits = [n \in Nodes |-> {}]
    /\ pre_vote_choices = [n \in Nodes |-> NoChoices]
    /\ pre_commit_choices = [n \in Nodes |-> NoChoices]
    /\ finalized_blocks = [n \in Nodes |-> [e \in Epochs |-> None]]
    /\ em_epoch = [n \in Nodes |-> 0]
    /\ epochs = [n \in Nodes |-> [e \in Runs |-> IF e = 0 THEN Initialized ELSE None]]
    /\ sent = {}

------------------------------------------------------------------------------
(* Helpers of the engine, over the validators n has registered *)

MeetsThreshold(n, S) == 100 * StakeOf[S] >= 67 * StakeOf[registry[n]]

Voters(n, tally, p) == {m \in registry[n] : <<p, m>> \in tally}

ExpectedProposer(n) ==
    LET target == SelectionValue[current_epoch[n]] % StakeOf[registry[n]]
        Before(m) == {k \in registry[n] : Rank[k] < Rank[m]}
    IN  CHOOSE m \in registry[n] : /\ StakeOf[Before(m)] <= target
                                   /\ target < StakeOf[Before(m) \cup {m}]

AmIProposer(n) == ExpectedProposer(n) = n

\* Fault: the empty roots are sent as they are, and the hash survives.
HashKept(p) == p

\* _serialize_proposal and _deserialize_proposal: the copy has another hash
WireForm(p) == [p EXCEPT !.wire = TRUE]

Broadcast(n, type, p) ==
    sent' = sent \cup {[type |-> type, sender |-> n, epoch |-> current_epoch[n],
                        proposal |-> p, to |-> m] : m \in peers[n]}

Finalizable(n, tally, p) ==
    MeetsThreshold(n, Voters(n, tally, p)) /\ p \in received_proposals[n]

\* try_finalize(p), then on_block_finalized: finalize_epoch records the block in
\* the epoch's state, if the manager has that epoch.
Finalize(n, tally, p) ==
    LET e == current_epoch[n]
        block == [proposal |-> p, run |-> em_epoch[n], support |-> Voters(n, tally, p),
                  total_stake |-> StakeOf[registry[n]]]
    IN  /\ finalized_blocks' = [finalized_blocks EXCEPT ![n][e] = block]
        /\ epochs' = [epochs EXCEPT ![n][e] =
                         IF @ = None THEN None ELSE [finalized |-> TRUE, block_root |-> block]]

To(n, s) == stage' = [stage EXCEPT ![n] = s]

------------------------------------------------------------------------------
(* P2P and the clock *)

\* A handshake: each end has the other as a peer.
Connect(n, m) ==
    /\ n # m /\ running[n] /\ running[m]
    /\ m \notin peers[n]
    /\ peers' = [peers EXCEPT ![n] = @ \cup {m}, ![m] = @ \cup {n}]
    /\ UNCHANGED <<clock, stage, running, num_epochs, registry, roundVars, finalized_blocks,
                   managerVars, sent>>

\* stop(): connections are closed; a run_epoch in progress goes on to its end.
Stop(n) ==
    /\ n \in Stoppable
    /\ running[n] /\ stage[n] # "starting"
    /\ running' = [running EXCEPT ![n] = FALSE]
    /\ peers' = [m \in Nodes |-> IF m = n THEN {} ELSE peers[m] \ {n}]
    /\ UNCHANGED <<clock, stage, num_epochs, registry, roundVars, finalized_blocks, managerVars, sent>>

\* A run takes less than 90 of the 900 seconds of an epoch (at most 15 probes of
\* 5 seconds, and 9 or 11 seconds of waiting), so a run of the epoch starts before
\* the clock leaves it.  The clock counts from the manager's construction: that the
\* first run, too, starts before the clock leaves its epoch is assumed of whoever
\* starts the node (two epochs late, finalize_epoch finds no state for the block).
\* Bounds: MaxClock, and no tick that no run will see.
Tick(n) ==
    /\ clock[n] < MaxClock /\ em_epoch[n] < num_epochs[n]
    /\ em_epoch[n] > clock[n]
    /\ clock' = [clock EXCEPT ![n] = @ + 1]
    /\ UNCHANGED <<stage, netVars, roundVars, finalized_blocks, managerVars, sent>>

\* _sync_peers_from_p2p: peers are registered and never removed.
SyncPeers(n) == registry' = [registry EXCEPT ![n] = @ \cup peers[n]]

\* The end of start(): the seeds have been tried.
Bootstrapped(n) ==
    /\ stage[n] = "starting"
    /\ To(n, "idle")
    /\ SyncPeers(n)
    /\ UNCHANGED <<clock, running, num_epochs, peers, roundVars, finalized_blocks, managerVars, sent>>

------------------------------------------------------------------------------
(* run_epoch, one action per stretch between two awaits *)

\* Fault: advance_epoch initializes the epoch that is being started.
RestartedEpoch(n) ==
    /\ em_epoch' = [em_epoch EXCEPT ![n] = @ + 1]
    /\ epochs' = [epochs EXCEPT ![n][clock[n]] = Initialized]

\* advance_epoch: the manager's own counter goes up with every run; its new epoch
\* is initialized, and the one before is flagged finalized, with or without a block.
AdvanceEpoch(n) ==
    LET c == em_epoch[n]
    IN  /\ em_epoch' = [em_epoch EXCEPT ![n] = c + 1]
        /\ epochs' = [epochs EXCEPT ![n][c + 1] = Initialized, ![n][c].finalized = TRUE]

StartRound(n, e) ==
    /\ current_epoch' = [current_epoch EXCEPT ![n] = e]
    /\ current_proposal' = [current_proposal EXCEPT ![n] = None]
    /\ received_proposals' = [received_proposals EXCEPT ![n] = {}]
    /\ pre_votes' = [pre_votes EXCEPT ![n] = {}]
    /\ pre_commits' = [pre_commits EXCEPT ![n] = {}]
    /\ pre_vote_choices' = [pre_vote_choices EXCEPT ![n] = NoChoices]
    /\ pre_commit_choices' = [pre_commit_choices EXCEPT ![n] = NoChoices]

\* run_loop calls run_epoch again at once, in the same epoch of the clock or a
\* later one: start_epoch and _sync_peers_from_p2p, then measuring.
RunEpoch(n) ==
    /\ stage[n] = "idle" /\ running[n]
    /\ em_epoch[n] < num_epochs[n]
    /\ AdvanceEpoch(n)
    /\ StartRound(n, clock[n])
    /\ SyncPeers(n)
    /\ To(n, "measuring")
    /\ UNCHANGED <<clock, running, num_epochs, peers, finalized_blocks, sent>>

\* Every registered peer may be a target, and a target always gets a measurement,
\* real or simulated: only a node without peers has none.
MeasurementRoot(n) == IF registry[n] = {n} THEN None ELSE em_epoch[n]

Propose(n) ==
    LET p == [proposer |-> n, epoch |-> current_epoch[n], root |-> MeasurementRoot(n),
              wire |-> FALSE]
    IN  /\ stage[n] = "measuring" /\ AmIProposer(n)
        /\ current_proposal' = [current_proposal EXCEPT ![n] = p]
        /\ received_proposals' = [received_proposals EXCEPT ![n] = @ \cup {p}]
        /\ Broadcast(n, "proposal", WireForm(p))
        /\ To(n, "proposed")
        /\ UNCHANGED <<clock, netVars, current_epoch, pre_votes, pre_commits, pre_vote_choices,
                       pre_commit_choices, finalized_blocks, managerVars>>

\* Fault: the proposer leaves voting to the others.
VoteOnlyForOthers(n) ==
    /\ stage[n] = "proposed"
    /\ To(n, "voted")
    /\ UNCHANGED <<clock, netVars, roundVars, finalized_blocks, managerVars, sent>>

SelfPreVote(n) ==
    /\ stage[n] = "proposed"
    /\ pre_votes' = [pre_votes EXCEPT ![n] = @ \cup {<<current_proposal[n], n>>}]
    /\ Broadcast(n, "pre-vote", current_proposal[n])
    /\ To(n, "voted")
    /\ UNCHANGED <<clock, netVars, current_epoch, current_proposal, received_proposals,
                   pre_commits, pre_vote_choices, pre_commit_choices, finalized_blocks,
                   managerVars>>

\* create_pre_commit, three seconds later; without the threshold it returns None.
TryPreCommit(n) ==
    LET p == current_proposal[n]
    IN  /\ stage[n] = "voted"
        /\ To(n, "committed")
        /\ IF MeetsThreshold(n, Voters(n, pre_votes[n], p))
           THEN /\ pre_commits' = [pre_commits EXCEPT ![n] = @ \cup {<<p, n>>}]
                /\ Broadcast(n, "pre-commit", p)
           ELSE UNCHANGED <<pre_commits, sent>>
        /\ UNCHANGED <<clock, netVars, current_epoch, current_proposal, received_proposals,
                       pre_votes, pre_vote_choices, pre_commit_choices, finalized_blocks,
                       managerVars>>

\* The proposals run_epoch tries to finalize at its end: the proposer's own, or
\* whatever a waiting node has received.
Candidates(n) ==
    {p \in IF stage[n] = "committed" THEN {current_proposal[n]} ELSE received_proposals[n] :
        Finalizable(n, pre_commits[n], p)}

Wait(n) ==
    /\ stage[n] = "measuring" /\ ~AmIProposer(n)
    /\ To(n, "waiting")
    /\ UNCHANGED <<clock, netVars, roundVars, finalized_blocks, managerVars, sent>>

\* The BLOCK broadcast that follows is ignored by its receivers.
EndEpoch(n) ==
    /\ stage[n] \in {"committed", "waiting"}
    /\ To(n, "idle")
    /\ IF Candidates(n) = {}
       THEN UNCHANGED <<finalized_blocks, epochs>>
       ELSE \E p \in Candidates(n) : Finalize(n, pre_commits[n], p)
    /\ UNCHANGED <<clock, netVars, roundVars, em_epoch, sent>>

------------------------------------------------------------------------------
(* _handle_message *)

\* A proposal of the epoch by the expected proposer is stored and pre-voted for, by
\* receive_proposal, whose broadcast has no addressees, and by _handle_message.
ReceiveProposal(n, m) ==
    LET p == m.proposal
    IN  /\ m.type = "proposal" /\ p.epoch = current_epoch[n]
        /\ p.proposer \in registry[n] /\ p.proposer = ExpectedProposer(n)
        /\ received_proposals' = [received_proposals EXCEPT ![n] = @ \cup {p}]
        /\ pre_votes' = [pre_votes EXCEPT ![n] = @ \cup {<<p, n>>}]
        /\ Broadcast(n, "pre-vote", p)
        /\ UNCHANGED <<current_epoch, current_proposal, pre_commits, pre_vote_choices,
                       pre_commit_choices, finalized_blocks, epochs>>

ValidVote(n, m, choices) ==
    /\ m.epoch = current_epoch[n]
    /\ m.sender \in registry[n]
    /\ choices[m.sender] \in {None, m.proposal}

\* The pre-commit a pre-vote leads to is counted, but goes to validator.peers,
\* which a Node leaves empty: it is never sent.
ReceivePreVote(n, m) ==
    LET tally == pre_votes[n] \cup {<<m.proposal, m.sender>>}
    IN  /\ m.type = "pre-vote" /\ ValidVote(n, m, pre_vote_choices[n])
        /\ pre_vote_choices' = [pre_vote_choices EXCEPT ![n][m.sender] = m.proposal]
        /\ pre_votes' = [pre_votes EXCEPT ![n] = tally]
        /\ pre_commits' = [pre_commits EXCEPT ![n] =
                IF MeetsThreshold(n, Voters(n, tally, m.proposal))
                THEN @ \cup {<<m.proposal, n>>} ELSE @]
        /\ UNCHANGED <<current_epoch, current_proposal, received_proposals,
                       pre_commit_choices, finalized_blocks, epochs, sent>>

ReceivePreCommit(n, m) ==
    LET tally == pre_commits[n] \cup {<<m.proposal, m.sender>>}
    IN  /\ m.type = "pre-commit" /\ ValidVote(n, m, pre_commit_choices[n])
        /\ pre_commit_choices' = [pre_commit_choices EXCEPT ![n][m.sender] = m.proposal]
        /\ pre_commits' = [pre_commits EXCEPT ![n] = tally]
        /\ IF Finalizable(n, tally, m.proposal)
           THEN Finalize(n, tally, m.proposal)
           ELSE UNCHANGED <<finalized_blocks, epochs>>
        /\ UNCHANGED <<current_epoch, current_proposal, received_proposals, pre_votes,
                       pre_vote_choices, sent>>

HandleMessage(n, m) ==
    /\ running[n] /\ n = m.to
    /\ \/ ReceiveProposal(n, m)
       \/ ReceivePreVote(n, m)
       \/ ReceivePreCommit(n, m)
    /\ UNCHANGED <<clock, stage, netVars, em_epoch>>

------------------------------------------------------------------------------
RunLoop(n) ==
    \/ Bootstrapped(n) \/ RunEpoch(n) \/ Propose(n) \/ SelfPreVote(n) \/ TryPreCommit(n)
    \/ Wait(n) \/ EndEpoch(n)

Next ==
    \E n \in Nodes :
        \/ RunLoop(n) \/ Stop(n) \/ Tick(n)
        \/ \E m \in Nodes : Connect(n, m)
        \/ \E m \in sent : HandleMessage(n, m)

\* The event loop resumes run_loop after every wait, whose length is fixed; nothing
\* is assumed of messages, connections and clocks.
Spec == Init /\ [][Next]_vars /\ \A n \in Nodes : WF_vars(RunLoop(n))

------------------------------------------------------------------------------
(* Properties *)

\* The epoch manager and the consensus engine tell the same story: an epoch's state
\* has the block the engine finalized last for it, through repeated runs of the
\* epoch and although the manager numbers epochs by runs, not by the clock:
\* advance_epoch never initializes an epoch that is still to be, or was, finalized.
ManagerRecordsBlocks ==
    \A n \in Nodes, e \in Epochs :
        finalized_blocks[n][e] =
            IF epochs[n][e] = None THEN None ELSE epochs[n][e].block_root

\* Over P2P a block is certified by the node itself alone: its only pre-commit is
\* the node's own, which is 67% of the stake the node has registered.  The hash of
\* a proposal does not survive _serialize_proposal and pre-commits of receivers
\* are not sent, so no other vote ever counts.
SelfCertified ==
    \A n \in Nodes, e \in Epochs :
        LET b == finalized_blocks[n][e]
        IN  b # None => /\ b.support = {n}
                        /\ b.proposal.epoch = e
                        /\ 100 * StakeOf[{n}] >= 67 * b.total_stake

ProposesAlone(n) == stage[n] = "measuring" /\ AmIProposer(n) /\ MeetsThreshold(n, {n})

EndedWithBlock(n) ==
    /\ stage[n] = "idle"
    /\ \E e \in Epochs : finalized_blocks[n][e] # None /\ finalized_blocks[n][e].run = em_epoch[n]

\* A proposer that holds 67% of the stake it has registered finalizes the epoch in
\* the run it proposes in, whatever its peers send or fail to send in between,
\* and also when the node is stopped in the middle.
HeavyProposerFinalizes ==
    \A n \in Nodes : ProposesAlone(n) ~> EndedWithBlock(n)

\* Every part of a node's state keeps its type.
NodeTypeOK ==
    /\ clock \in [Nodes -> Epochs] /\ em_epoch \in [Nodes -> Runs]
    /\ stage \in [Nodes -> {"starting", "idle", "measuring", "proposed", "voted",
                            "committed", "waiting"}]
    /\ running \in [Nodes -> BOOLEAN] /\ num_epochs \in [Nodes -> Runs]
    /\ peers \in [Nodes -> SUBSET Nodes] /\ registry \in [Nodes -> SUBSET Nodes]
    /\ current_epoch \in [Nodes -> Epochs]
    /\ current_proposal \in [Nodes -> Proposals \cup {None}]
    /\ received_proposals \in [Nodes -> SUBSET Proposals]
    /\ pre_votes \in [Nodes -> SUBSET Votes] /\ pre_commits \in [Nodes -> SUBSET Votes]
    /\ pre_vote_choices \in [Nodes -> [Nodes -> Proposals \cup {None}]]
    /\ pre_commit_choices \in [Nodes -> [Nodes -> Proposals \cup {None}]]
    /\ finalized_blocks \in [Nodes -> [Epochs -> Blocks \cup {None}]]
    /\ epochs \in [Nodes -> [Runs -> EpochStates \cup {None}]]
    /\ sent \subseteq Messages
==============================================================================
