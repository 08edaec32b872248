------------------------------ MODULE Slashing -------------------------------
(***************************************************************************)
(* SlashingManager (consensus.py): proposals to slash a validator, keyed   *)
(* by the hash of their evidence, stake-weighted votes for them, and their *)
(* execution.  No other code of the repository calls it, so any order of   *)
(* its three operations is possible; callers are taken to pass a voter's   *)
(* stake and the total stake as registered.                                *)
(*                                                                         *)
(* create_proposal with evidence that has a proposal replaces it: `number' *)
(* counts the proposals made for each piece of evidence and, with the      *)
(* votes accepted and the slashings executed, is history for the property. *)
(***************************************************************************)
EXTENDS Integers, FiniteSets

CONSTANTS
    SlashVoters,
    VoteStake,       \* the stake of a set of voters
    Evidence,        \* evidence hashes
    TargetOf,        \* the target_id hashed into an evidence hash
    MaxProposals,    \* bound: create_proposal calls per evidence hash
    NoProposal

\* VoteStake adds up the stakes of the members of a set.
ASSUME VoteStakeAssumption ==
    /\ VoteStake \in [SUBSET SlashVoters -> Nat]
    /\ VoteStake[{}] = 0
    /\ \A S \in SUBSET SlashVoters : \A v \in SlashVoters \ S :
          VoteStake[S \cup {v}] = VoteStake[S] + VoteStake[{v}]

SlashingProposals ==
    [voters : SUBSET SlashVoters, executed : BOOLEAN, supporting_stake : Nat]

ASSUME NoProposalAssumption == NoProposal \notin SlashingProposals

VARIABLES
    proposals,           \* evidence hash -> SlashingProposal or NoProposal
    slashed_validators,
    number,              \* evidence hash -> proposals made so far
    votes,               \* accepted votes, by evidence, number and voter
    slashings            \* execute_slashing calls that returned True

slashVars == <<proposals, slashed_validators, number, votes, slashings>>

SlashInit ==
    /\ proposals = [h \in Evidence |-> NoProposal]
    /\ slashed_validators = {}
    /\ number = [h \in Evidence |-> 0]
    /\ votes = {} /\ slashings = {}

------------------------------------------------------------------------------
\* Fault: the stake gathered by a proposal that is replaced is kept.
KeepSupport(h) ==
    /\ number[h] < MaxProposals
    /\ proposals' = [proposals EXCEPT ![h] =
            [voters |-> {}, executed |-> FALSE,
             supporting_stake |-> IF proposals[h] = NoProposal THEN 0
                                  ELSE proposals[h].supporting_stake]]
    /\ number' = [number EXCEPT ![h] = @ + 1]
    /\ UNCHANGED <<slashed_validators, votes, slashings>>

CreateSlashingProposal(h) ==
    /\ number[h] < MaxProposals
    /\ proposals' = [proposals EXCEPT ![h] =
            [voters |-> {}, executed |-> FALSE, supporting_stake |-> 0]]
    /\ number' = [number EXCEPT ![h] = @ + 1]
    /\ UNCHANGED <<slashed_validators, votes, slashings>>

VoteForSlashing(h, v) ==
    /\ proposals[h] # NoProposal
    /\ ~proposals[h].executed
    /\ v \notin proposals[h].voters
    /\ proposals' = [proposals EXCEPT
            ![h].voters = @ \cup {v}, ![h].supporting_stake = @ + VoteStake[{v}]]
    /\ votes' = votes \cup {[evidence |-> h, number |-> number[h], voter |-> v]}
    /\ UNCHANGED <<slashed_validators, number, slashings>>

\* 67 of 100, BFT_THRESHOLD
ReachesThreshold(stake) ==
    /\ VoteStake[SlashVoters] # 0
    /\ 100 * stake >= 67 * VoteStake[SlashVoters]

ExecuteSlashing(h) ==
    /\ proposals[h] # NoProposal
    /\ ~proposals[h].executed
    /\ ReachesThreshold(proposals[h].supporting_stake)
    /\ proposals' = [proposals EXCEPT ![h].executed = TRUE]
    /\ slashed_validators' = slashed_validators \cup {TargetOf[h]}
    /\ slashings' = slashings \cup {[evidence |-> h, number |-> number[h]]}
    /\ UNCHANGED <<number, votes>>

SlashNext ==
    \E h \in Evidence :
        \/ CreateSlashingProposal(h)
        \/ \E v \in SlashVoters : VoteForSlashing(h, v)
        \/ ExecuteSlashing(h)

SlashSpec == SlashInit /\ [][SlashNext]_slashVars

------------------------------------------------------------------------------
(* Properties *)

\* Every part of the manager's state keeps its type.
SlashTypeOK ==
    /\ proposals \in [Evidence -> SlashingProposals \cup {NoProposal}]
    /\ slashed_validators \subseteq {TargetOf[h] : h \in Evidence}
    /\ number \in [Evidence -> Nat]
    /\ votes \subseteq [evidence : Evidence, number : Nat, voter : SlashVoters]
    /\ slashings \subseteq [evidence : Evidence, number : Nat]

\* Those whose vote for the k-th proposal for h was accepted
VotersFor(h, k) == {v \in SlashVoters : [evidence |-> h, number |-> k, voter |-> v] \in votes}

\* Every slashed validator is the target of a proposal for which distinct validators
\* with at least 67 % of the stake voted, while that very proposal stood: votes for a
\* proposal that create_proposal replaced count for nothing, and voting again for
\* the one in its place counts a voter once.
SlashedByQuorum ==
    /\ \A t \in slashed_validators : \E s \in slashings : t = TargetOf[s.evidence]
    /\ \A s \in slashings :
          100 * VoteStake[VotersFor(s.evidence, s.number)] >= 67 * VoteStake[SlashVoters]
==============================================================================
