------------------------------- MODULE Testnet -------------------------------
(***************************************************************************)
(* The simulation driver QRTBTestnet.run_epoch (network.py): it runs the   *)
(* engines of Consensus not through messages but by calling them, one loop *)
(* over all validators after the other, in one thread.  Unlike the         *)
(* handlers of validator.py it has the proposer pre-vote too, lets every   *)
(* validator pre-vote whatever receive_proposal returned, and stops at the *)
(* first engine that finalizes.  All validators run the protocol           *)
(* (Faulty = {}): the adversaries of the simulation only measure wrongly.  *)
(*                                                                         *)
(* A step is one phase: what every engine creates and what it then takes   *)
(* from the others.  The measurement phases, whose result is the           *)
(* proposal's root, and the statistics are left out.  The loops run in the *)
(* order of creation, here that of the ids: only which engine finalizes    *)
(* first depends on it.                                                    *)
(***************************************************************************)
EXTENDS Consensus

VARIABLES
    step,              \* where in run_epoch the driver stands
    proposal,          \* the epoch's proposal
    network_blocks     \* QRTBTestnet.finalized_blocks

netVars == <<vars, step, proposal, network_blocks>>

\* run calls run_epoch(0), run_epoch(1), ...; all engines are in the same epoch.
Epoch == current_epoch[ValidatorOrder[1]]

NetInit ==
    /\ Init
    /\ step = "propose"
    /\ proposal = None
    /\ network_blocks = [e \in Epochs |-> None]

\* Phase 1: start_epoch at every validator.
StartAll ==
    /\ step = "start"
    /\ Epoch < MaxEpoch
    /\ current_epoch' = [v \in Honest |-> Epoch + 1]
    /\ phase' = [v \in Honest |-> "PROPOSE"]
    /\ received_proposals' = [v \in Honest |-> {}]
    /\ pre_votes' = [v \in Honest |-> {}]
    /\ pre_commits' = [v \in Honest |-> {}]
    /\ pre_vote_choices' = [v \in Honest |-> NoChoices]
    /\ pre_commit_choices' = [v \in Honest |-> NoChoices]
    /\ em_epoch' = [v \in Honest |-> em_epoch[v] + 1]
    /\ em_finalized' = [v \in Honest |-> em_finalized[v] \cup {em_epoch[v]}]
    /\ step' = "propose"
    /\ UNCHANGED <<finalized_blocks, sent, proposal, network_blocks>>

\* The first validator that finds itself selected creates the proposal, which is
\* handed to all others.  All have the same registry, so that one is selected.
ProposeAll(root) ==
    /\ step = "propose"
    /\ \E v \in Honest :
          LET p == [proposer |-> v, epoch |-> current_epoch[v], root |-> root]
          IN  /\ AmIProposer(v)
              /\ proposal' = p
              /\ phase' = [phase EXCEPT ![v] = "PRE_VOTE"]
              /\ received_proposals' = [w \in Honest |->
                    received_proposals[w] \cup {q \in {p} : w = v \/ ValidProposal(w, q)}]
    /\ step' = "pre-vote"
    /\ UNCHANGED <<current_epoch, pre_votes, pre_commits, pre_vote_choices,
                   pre_commit_choices, finalized_blocks, emVars, sent, network_blocks>>

\* The votes v holds once those of `voters' have been distributed: its own, which
\* it does not check, and those of the others that pass the equivocation check.
Taken(v, tally, choices, voters) ==
    tally \cup {<<proposal, w>> : w \in {w \in voters : w = v \/ choices[w] \in {None, proposal}}}

Tracked(v, choices, voters) ==
    [w \in Validators |-> IF w \in voters \ {v} /\ choices[w] = None THEN proposal ELSE choices[w]]

\* Fault: the proposer does not pre-vote, as in ValidatorNode.run_consensus_phase.
PreVotersButProposer == {v \in Honest : v # proposal.proposer}

\* create_pre_vote at every validator, the proposer included
PreVoters == Honest

\* create_pre_commit: the validators that see 67% of the stake in pre-votes
PreCommitters == {v \in Honest : MeetsThreshold(Voters(pre_votes[v], proposal))}

PreVoteAll ==
    /\ step = "pre-vote"
    /\ pre_votes' = [v \in Honest |-> Taken(v, pre_votes[v], pre_vote_choices[v], PreVoters)]
    /\ pre_vote_choices' = [v \in Honest |-> Tracked(v, pre_vote_choices[v], PreVoters)]
    /\ step' = "pre-commit"
    /\ UNCHANGED <<current_epoch, phase, received_proposals, pre_commits, pre_commit_choices,
                   finalized_blocks, emVars, sent, proposal, network_blocks>>

PreCommitAll ==
    /\ step = "pre-commit"
    /\ pre_commits' = [v \in Honest |->
                         Taken(v, pre_commits[v], pre_commit_choices[v], PreCommitters)]
    /\ pre_commit_choices' = [v \in Honest |->
                         Tracked(v, pre_commit_choices[v], PreCommitters)]
    /\ phase' = [v \in Honest |-> IF v \in PreCommitters THEN "PRE_COMMIT" ELSE phase[v]]
    /\ step' = "finalize"
    /\ UNCHANGED <<current_epoch, received_proposals, pre_votes, pre_vote_choices,
                   finalized_blocks, emVars, sent, proposal, network_blocks>>

CanFinalize(v) ==
    /\ MeetsThreshold(Voters(pre_commits[v], proposal))
    /\ proposal \in received_proposals[v]

\* try_finalize at one validator after the other, until one returns a block.  The
\* validator's on_block_finalized is not called: its epoch manager does not learn
\* of the block.
FinalizeFirst ==
    LET able == SelectSeq(ValidatorOrder, CanFinalize)
        first == {v \in Honest : able # <<>> /\ v = Head(able)}
        block == [proposal |-> proposal, support |-> Voters(pre_commits[Head(able)], proposal)]
    IN  /\ step = "finalize"
        /\ finalized_blocks' = [v \in Honest |-> [finalized_blocks[v] EXCEPT
                                  ![Epoch] = IF v \in first THEN block ELSE @]]
        /\ phase' = [v \in Honest |-> IF v \in first THEN "FINALIZED" ELSE phase[v]]
        /\ network_blocks' = [network_blocks EXCEPT ![Epoch] = IF first = {} THEN @ ELSE block]
        /\ step' = "start"
        /\ UNCHANGED <<current_epoch, votingVars, emVars, sent, proposal>>

NetNext ==
    \/ StartAll
    \/ \E root \in Roots : ProposeAll(root)
    \/ PreVoteAll
    \/ PreCommitAll
    \/ FinalizeFirst

\* One thread calls one function after the other.
NetSpec == NetInit /\ [][NetNext]_netVars /\ WF_netVars(NetNext)

------------------------------------------------------------------------------
(* Properties *)

\* Every epoch the driver runs is finalized, and by the whole stake: whoever
\* proposes, all votes reach all engines and none is taken for a vote of an
\* earlier epoch or for an equivocation.
EpochsFinalizeUnanimously ==
    \A e \in Epochs :
        <>(network_blocks[e] # None /\ network_blocks[e].support = Validators)
==============================================================================
