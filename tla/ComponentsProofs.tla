-------------------------- MODULE ComponentsProofs ---------------------------
(***************************************************************************)
(* Proofs about the components that consensus and the ledger rest on: the  *)
(* measurement protocol (Measurement), for any validators, faulty          *)
(* messages, epochs and rounds; SlashingManager (Slashing), for any        *)
(* voters, stakes, evidence and number of proposals; and the algorithms    *)
(* (Algorithms), for inputs of any length.                                 *)
(***************************************************************************)
EXTENDS Measurement, Slashing, Algorithms, SumProofs, SequenceTheorems, TLAPS

------------------------------------------------------------------------------
(* MeasurementProtocol.  The invariant follows a set of measurements on its  *)
(* way: what an honest validator holds was measured by it in its epoch, what *)
(* it has committed to was sent as a commitment, what it reveals it has      *)
(* committed to, and what others hold of it, since their round began, is     *)
(* what it sent for their epoch.                                             *)

CommitmentOf(w, e, s) == [type |-> "commitment", validator_id |-> w, epoch |-> e, hash |-> s]

OwnRound ==
    \A v \in Honest :
        /\ measurements[v] # None =>
              measurements[v].source = v /\ measurements[v].epoch = current_epoch[v]
        /\ phase[v] # "IDLE" =>
              /\ measurements[v] # None
              /\ commitment[v] = measurements[v]
              /\ CommitmentOf(v, current_epoch[v], measurements[v]) \in sent

SentByProtocol ==
    \A m \in sent :
        /\ m.validator_id \in Honest
        /\ m.type = "commitment" => m.hash.source = m.validator_id /\ m.hash.epoch = m.epoch
        /\ m.type = "reveal" => m.measurements \in CommittedBy(m.validator_id, m.epoch)

ReceivedFromProtocol ==
    \A v \in Honest, w \in Validators :
        /\ received_commitments[v][w] # None /\ w \in Honest =>
              received_commitments[v][w] \in CommittedBy(w, current_epoch[v])
        /\ received_reveals[v][w] # None =>
              /\ received_commitments[v][w] # None
              /\ w \in Honest => received_reveals[v][w] \in CommittedBy(w, current_epoch[v])

AuthenticInv == MeasurementTypeOK /\ OwnRound /\ SentByProtocol /\ ReceivedFromProtocol

------------------------------------------------------------------------------
(* Lemmas *)

\* A message of either type has the fields of that type.
LEMMA MessageTypes ==
  ASSUME NEW m \in Messages
  PROVE  /\ m.validator_id \in Validators /\ m.epoch \in Epochs /\ m.hash \in Sets
         /\ m.type = "commitment" => m = CommitmentOf(m.validator_id, m.epoch, m.hash)
         /\ m.type = "reveal" => m.measurements \in Sets
<1>1. CASE m \in Commitments
  BY <1>1 DEF Commitments, CommitmentOf
<1>2. CASE m \in Reveals
  BY <1>2 DEF Reveals
<1> QED
  BY <1>1, <1>2 DEF Messages

\* What has been committed to stays committed to.
LEMMA CommittedGrows ==
  ASSUME sent \subseteq sent', NEW w, NEW e
  PROVE  CommittedBy(w, e) \subseteq CommittedBy(w, e)'
  BY DEF CommittedBy

\* A message that bears an honest validator's name was sent by it.
LEMMA HonestWereSent ==
  ASSUME NEW m \in sent \cup FaultyMessages, m.validator_id \in Honest
  PROVE  m \in sent
  BY FaultyAssumption DEF Honest

LEMMA InitAuthentic == Init => AuthenticInv
<1> SUFFICES ASSUME Init PROVE AuthenticInv
  OBVIOUS
<1>1. MeasurementTypeOK
  BY BoundsAssumption, FaultyAssumption
  DEF Init, MeasurementTypeOK, Nothing, Collected, Epochs, Honest
<1> QED
  BY <1>1 DEF Init, AuthenticInv, OwnRound, SentByProtocol, ReceivedFromProtocol, Nothing

------------------------------------------------------------------------------
(* One lemma per action *)

\* start_epoch drops everything of the last round.
LEMMA StartAuthentic ==
  ASSUME AuthenticInv, NEW v \in Honest, NEW e \in Epochs, StartEpoch(v, e)
  PROVE  AuthenticInv'
<1> USE DEF AuthenticInv
<1>0. Nothing \in Collected /\ sent' = sent
  BY DEF Nothing, Collected, StartEpoch
<1>1. rounds' \in [Honest -> 0 .. MaxRounds] /\ current_epoch' \in [Honest -> Epochs]
  BY BoundsAssumption DEF StartEpoch, MeasurementTypeOK
<1>2. MeasurementTypeOK'
  BY <1>0, <1>1 DEF StartEpoch, MeasurementTypeOK
<1>3. \A u \in Honest : u # v =>
         /\ current_epoch'[u] = current_epoch[u] /\ phase'[u] = phase[u]
         /\ measurements'[u] = measurements[u] /\ commitment'[u] = commitment[u]
         /\ received_commitments'[u] = received_commitments[u]
         /\ received_reveals'[u] = received_reveals[u]
  BY DEF StartEpoch, MeasurementTypeOK
<1>4. /\ phase'[v] = "IDLE" /\ measurements'[v] = None
      /\ received_commitments'[v] = Nothing /\ received_reveals'[v] = Nothing
  BY DEF StartEpoch, MeasurementTypeOK
<1>5. OwnRound'
  BY <1>0, <1>3, <1>4 DEF OwnRound
<1>6. \A w, f : CommittedBy(w, f)' = CommittedBy(w, f)
  BY <1>0 DEF CommittedBy
<1>7. SentByProtocol'
  BY <1>0, <1>6 DEF SentByProtocol
<1>8. ReceivedFromProtocol'
  BY <1>3, <1>4, <1>6 DEF ReceivedFromProtocol, Nothing
<1> QED
  BY <1>2, <1>5, <1>7, <1>8

\* The measurements of a round bear its validator and its epoch.
LEMMA MeasureAuthentic ==
  ASSUME AuthenticInv, NEW v \in Honest, RunMeasurementPhase(v)
  PROVE  AuthenticInv'
<1> USE DEF AuthenticInv
<1> DEFINE new == [source |-> v, epoch |-> current_epoch[v], round |-> rounds[v]]
<1>1. new \in Sets
  BY FaultyAssumption DEF MeasurementTypeOK, Sets, Honest
<1>2. measurements' \in [Honest -> Sets \cup {None}]
  BY <1>1 DEF RunMeasurementPhase, MeasurementTypeOK
<1>3. MeasurementTypeOK'
  BY <1>2 DEF RunMeasurementPhase, MeasurementTypeOK, receivedVars
<1>4. /\ \A u \in Honest : u # v => measurements'[u] = measurements[u]
      /\ measurements'[v] = new /\ phase[v] = "IDLE"
      /\ current_epoch' = current_epoch /\ phase' = phase /\ commitment' = commitment
      /\ sent' = sent /\ receivedVars' = receivedVars
  BY DEF RunMeasurementPhase, MeasurementTypeOK
<1>5. OwnRound'
  BY <1>4 DEF OwnRound
<1>6. \A w, f : CommittedBy(w, f)' = CommittedBy(w, f)
  BY <1>4 DEF CommittedBy
<1>7. SentByProtocol' /\ ReceivedFromProtocol'
  BY <1>4, <1>6 DEF SentByProtocol, ReceivedFromProtocol, receivedVars
<1> QED
  BY <1>3, <1>5, <1>7

\* broadcast_commitment sends the measurements of the round.
LEMMA CommitAuthentic ==
  ASSUME AuthenticInv, NEW v \in Honest, BroadcastCommitment(v)
  PROVE  AuthenticInv'
<1> USE DEF AuthenticInv
<1> DEFINE new == CommitmentOf(v, current_epoch[v], measurements[v])
<1>1. measurements[v] \in Sets /\ current_epoch[v] \in Epochs /\ v \in Validators
  BY FaultyAssumption DEF BroadcastCommitment, MeasurementTypeOK, Honest
<1>2. new \in Messages
  BY <1>1 DEF Messages, Commitments, CommitmentOf
<1>3. sent' = sent \cup {new}
  BY DEF BroadcastCommitment, CommitmentOf
<1>4. MeasurementTypeOK'
  BY <1>2, <1>3 DEF BroadcastCommitment, MeasurementTypeOK, receivedVars
<1>5. /\ current_epoch' = current_epoch /\ measurements' = measurements
      /\ received_commitments' = received_commitments /\ received_reveals' = received_reveals
      /\ commitment'[v] = measurements[v]
      /\ \A u \in Honest : u # v => phase'[u] = phase[u] /\ commitment'[u] = commitment[u]
      /\ measurements[v] # None
  BY DEF BroadcastCommitment, MeasurementTypeOK, receivedVars
<1>6. OwnRound'
  BY <1>3, <1>5 DEF OwnRound
<1>7. \A w, f : CommittedBy(w, f) \subseteq CommittedBy(w, f)'
  BY <1>3, CommittedGrows
<1>8. SentByProtocol'
  <2>1. /\ new.type = "commitment" /\ new.validator_id = v
        /\ new.epoch = current_epoch[v] /\ new.hash = measurements[v]
    BY DEF CommitmentOf
  <2>2. measurements[v].source = v /\ measurements[v].epoch = current_epoch[v]
    BY <1>5 DEF OwnRound
  <2> HIDE DEF new
  <2>3. \A m \in sent : m \in sent' =>
           /\ m.validator_id \in Honest
           /\ m.type = "commitment" => m.hash.source = m.validator_id /\ m.hash.epoch = m.epoch
           /\ m.type = "reveal" => m.measurements \in CommittedBy(m.validator_id, m.epoch)'
    BY <1>7 DEF SentByProtocol
  <2> QED
    BY <1>3, <2>1, <2>2, <2>3 DEF SentByProtocol
<1>9. ReceivedFromProtocol'
  BY <1>5, <1>7 DEF ReceivedFromProtocol
<1> QED
  BY <1>4, <1>6, <1>8, <1>9

\* broadcast_reveal reveals what was committed to.
LEMMA RevealAuthentic ==
  ASSUME AuthenticInv, NEW v \in Honest, BroadcastReveal(v)
  PROVE  AuthenticInv'
<1> USE DEF AuthenticInv
<1> DEFINE new == [type |-> "reveal", validator_id |-> v, epoch |-> current_epoch[v],
                   measurements |-> measurements[v], hash |-> commitment[v]]
<1>1. /\ measurements[v] \in Sets /\ commitment[v] = measurements[v]
      /\ current_epoch[v] \in Epochs /\ v \in Validators
      /\ CommitmentOf(v, current_epoch[v], measurements[v]) \in sent
  BY FaultyAssumption DEF BroadcastReveal, MeasurementTypeOK, OwnRound, Honest
<1>2. new \in Messages
  BY <1>1 DEF Messages, Reveals
<1>3. sent' = sent \cup {new}
  BY DEF BroadcastReveal
<1>4. MeasurementTypeOK'
  BY <1>2, <1>3 DEF BroadcastReveal, MeasurementTypeOK, receivedVars
<1>5. /\ current_epoch' = current_epoch /\ measurements' = measurements
      /\ commitment' = commitment
      /\ received_commitments' = received_commitments /\ received_reveals' = received_reveals
      /\ \A u \in Honest : u # v => phase'[u] = phase[u]
      /\ phase[v] = "COMMIT"
  BY DEF BroadcastReveal, MeasurementTypeOK, receivedVars
<1>6. OwnRound'
  BY <1>1, <1>3, <1>5 DEF OwnRound
<1>7. \A w, f : CommittedBy(w, f) \subseteq CommittedBy(w, f)'
  BY <1>3, CommittedGrows
<1>8. SentByProtocol'
  <2>1. /\ new.type = "reveal" /\ new.validator_id = v
        /\ new.epoch = current_epoch[v] /\ new.measurements = measurements[v]
    OBVIOUS
  <2>2. measurements[v] \in CommittedBy(v, current_epoch[v])
    BY <1>1 DEF CommittedBy, CommitmentOf
  <2> HIDE DEF new
  <2>3. \A m \in sent' :
           /\ m.validator_id \in Honest
           /\ m.type = "commitment" => m.hash.source = m.validator_id /\ m.hash.epoch = m.epoch
           /\ m.type = "reveal" => m.measurements \in CommittedBy(m.validator_id, m.epoch)
    BY <1>3, <2>1, <2>2 DEF SentByProtocol
  <2> QED
    BY <1>7, <2>3 DEF SentByProtocol
<1>9. ReceivedFromProtocol'
  BY <1>5, <1>7 DEF ReceivedFromProtocol
<1> QED
  BY <1>4, <1>6, <1>8, <1>9

\* receive_commitment: of an honest validator, one it sent for this epoch.
LEMMA ReceiveCommitmentAuthentic ==
  ASSUME AuthenticInv, NEW v \in Honest, NEW m \in sent \cup FaultyMessages,
         ReceiveCommitment(v, m)
  PROVE  AuthenticInv'
<1> USE DEF AuthenticInv
<1> DEFINE w == m.validator_id
<1>1. m \in Messages
  BY FaultyAssumption DEF MeasurementTypeOK
<1>2. /\ w \in Validators /\ m.hash \in Sets
      /\ m = CommitmentOf(w, current_epoch[v], m.hash)
  BY <1>1, MessageTypes DEF ReceiveCommitment
<1>3. /\ received_commitments' =
            [received_commitments EXCEPT ![v] = [received_commitments[v] EXCEPT ![w] = m.hash]]
      /\ received_reveals' = received_reveals /\ sent' = sent /\ ownVars' = ownVars
  BY DEF ReceiveCommitment
<1>4. [received_commitments[v] EXCEPT ![w] = m.hash] \in Collected
  BY <1>2 DEF MeasurementTypeOK, Collected
<1>5. MeasurementTypeOK'
  BY <1>3, <1>4 DEF MeasurementTypeOK, ownVars
<1>6. OwnRound' /\ SentByProtocol'
  BY <1>3 DEF OwnRound, SentByProtocol, CommittedBy, ownVars
<1>7. w \in Honest => m.hash \in CommittedBy(w, current_epoch[v])
  BY <1>2, HonestWereSent DEF CommittedBy, CommitmentOf
<1>8. m.hash # None
  BY <1>2, BoundsAssumption
<1>9. /\ \A u \in Honest : u # v => received_commitments'[u] = received_commitments[u]
      /\ \A x \in Validators : x # w => received_commitments'[v][x] = received_commitments[v][x]
      /\ received_commitments'[v][w] = m.hash
  BY <1>2, <1>3 DEF MeasurementTypeOK, Collected
<1>10. /\ current_epoch' = current_epoch
       /\ \A x, f : CommittedBy(x, f)' = CommittedBy(x, f)
  BY <1>3 DEF ownVars, CommittedBy
<1> HIDE DEF w
<1>11. ReceivedFromProtocol'
  BY <1>3, <1>7, <1>8, <1>9, <1>10 DEF ReceivedFromProtocol
<1> QED
  BY <1>5, <1>6, <1>11

\* receive_reveal: the commitment inside an honest validator's reveal is one it sent.
LEMMA ReceiveRevealAuthentic ==
  ASSUME AuthenticInv, NEW v \in Honest, NEW m \in sent \cup FaultyMessages,
         ReceiveReveal(v, m)
  PROVE  AuthenticInv'
<1> USE DEF AuthenticInv
<1> DEFINE w == m.validator_id
<1>1. m \in Messages
  BY FaultyAssumption DEF MeasurementTypeOK
<1>2. /\ w \in Validators /\ m.measurements \in Sets /\ m.epoch = current_epoch[v]
      /\ m.type = "reveal" /\ received_commitments[v][w] # None
  BY <1>1, MessageTypes DEF ReceiveReveal
<1>3. /\ received_reveals' =
            [received_reveals EXCEPT ![v] = [received_reveals[v] EXCEPT ![w] = m.measurements]]
      /\ received_commitments' = received_commitments /\ sent' = sent /\ ownVars' = ownVars
  BY DEF ReceiveReveal
<1>4. [received_reveals[v] EXCEPT ![w] = m.measurements] \in Collected
  BY <1>2 DEF MeasurementTypeOK, Collected
<1>5. MeasurementTypeOK'
  BY <1>3, <1>4 DEF MeasurementTypeOK, ownVars
<1>6. OwnRound' /\ SentByProtocol'
  BY <1>3 DEF OwnRound, SentByProtocol, CommittedBy, ownVars
<1>7. w \in Honest => m.measurements \in CommittedBy(w, current_epoch[v])
  BY <1>2, HonestWereSent DEF SentByProtocol
<1>8. /\ \A u \in Honest : u # v => received_reveals'[u] = received_reveals[u]
      /\ \A x \in Validators : x # w => received_reveals'[v][x] = received_reveals[v][x]
      /\ received_reveals'[v][w] = m.measurements
  BY <1>2, <1>3 DEF MeasurementTypeOK, Collected
<1>9. /\ current_epoch' = current_epoch
      /\ \A x, f : CommittedBy(x, f)' = CommittedBy(x, f)
  BY <1>3 DEF ownVars, CommittedBy
<1>10. received_commitments[v][w] # None
  BY <1>2
<1> HIDE DEF w
<1>11. ReceivedFromProtocol'
  BY <1>3, <1>7, <1>8, <1>9, <1>10 DEF ReceivedFromProtocol
<1> QED
  BY <1>5, <1>6, <1>11

------------------------------------------------------------------------------
(* Theorems *)

LEMMA NextAuthentic == AuthenticInv /\ [Next]_vars => AuthenticInv'
<1> SUFFICES ASSUME AuthenticInv, [Next]_vars PROVE AuthenticInv'
  OBVIOUS
<1>1. CASE Next
  BY <1>1, StartAuthentic, MeasureAuthentic, CommitAuthentic, RevealAuthentic,
     ReceiveCommitmentAuthentic, ReceiveRevealAuthentic DEF Next
<1>2. CASE UNCHANGED vars
  BY <1>2 DEF vars, ownVars, receivedVars, AuthenticInv, MeasurementTypeOK, OwnRound,
              SentByProtocol, ReceivedFromProtocol, CommittedBy
<1> QED
  BY <1>1, <1>2

\* The state of the measurement protocol keeps its type.
THEOREM MeasurementTypeCorrect == Spec => []MeasurementTypeOK
<1>1. AuthenticInv => MeasurementTypeOK
  BY DEF AuthenticInv
<1> QED
  BY InitAuthentic, NextAuthentic, <1>1, PTL DEF Spec

\* What a proposer collects of an honest validator is what that validator measured and
\* committed to in the epoch, and of any validator only after a commitment.
THEOREM CollectedIsAuthentic == Spec => []ProposalsAuthentic
<1>1. AuthenticInv => ProposalsAuthentic
  <2> SUFFICES ASSUME AuthenticInv, NEW v \in Honest, NEW w \in Validators \ {v},
                      received_reveals[v][w] # None
               PROVE  /\ received_commitments[v][w] # None
                      /\ w \in Honest =>
                            /\ received_reveals[v][w].source = w
                            /\ received_reveals[v][w].epoch = current_epoch[v]
                            /\ received_reveals[v][w] \in CommittedBy(w, current_epoch[v])
                            /\ CommittedBy(w, current_epoch[v]) = {received_reveals[v][w]} =>
                                  received_commitments[v][w] = received_reveals[v][w]
    <3>1. \A v \in Honest : \A w \in Validators \ {v} :
             GetAllMeasurements(v)[w] = received_reveals[v][w]
      BY DEF AuthenticInv, MeasurementTypeOK, Collected, GetAllMeasurements
    <3> QED
      BY <3>1 DEF ProposalsAuthentic
  <2>1. /\ received_commitments[v][w] # None
        /\ w \in Honest => /\ received_reveals[v][w] \in CommittedBy(w, current_epoch[v])
                           /\ received_commitments[v][w] \in CommittedBy(w, current_epoch[v])
    BY DEF AuthenticInv, ReceivedFromProtocol
  <2>2. ASSUME NEW e, NEW s \in CommittedBy(w, e)
        PROVE  s.source = w /\ s.epoch = e
    <3>1. CommitmentOf(w, e, s) \in sent
      BY <2>2 DEF CommittedBy, CommitmentOf
    <3>2. /\ CommitmentOf(w, e, s).type = "commitment" /\ CommitmentOf(w, e, s).hash = s
          /\ CommitmentOf(w, e, s).validator_id = w /\ CommitmentOf(w, e, s).epoch = e
      BY DEF CommitmentOf
    <3> QED
      BY <3>1, <3>2 DEF AuthenticInv, SentByProtocol
  <2> QED
    BY <2>1, <2>2
<1> QED
  BY InitAuthentic, NextAuthentic, <1>1, PTL DEF Spec

------------------------------------------------------------------------------
(* SlashingManager.  The invariant ties the counter of a standing proposal   *)
(* to the votes accepted for it: its supporting_stake is the stake of its    *)
(* voters, and its voters are those whose vote for this proposal, told apart *)
(* by its number, was accepted.  Votes for later numbers do not exist, so    *)
(* that a proposal that replaces another starts without any.                 *)

Tallied ==
    \A h \in Evidence :
        /\ proposals[h] # NoProposal =>
              /\ proposals[h].voters = VotersFor(h, number[h])
              /\ proposals[h].supporting_stake = VoteStake[proposals[h].voters]
        /\ proposals[h] = NoProposal => VotersFor(h, number[h]) = {}

NoVotesAhead == \A x \in votes : x.number <= number[x.evidence]

\* A slashing of the standing proposal has ended its voting.
Ended ==
    \A s \in slashings :
        /\ s.number <= number[s.evidence]
        /\ s.number = number[s.evidence] =>
              proposals[s.evidence] # NoProposal /\ proposals[s.evidence].executed

QuorumInv == SlashTypeOK /\ Tallied /\ NoVotesAhead /\ Ended /\ SlashedByQuorum

\* The manager starts without proposals, votes and slashings.
LEMMA InitQuorumInv == SlashInit => QuorumInv
  BY DEF SlashInit, QuorumInv, SlashTypeOK, Tallied, NoVotesAhead, Ended, SlashedByQuorum,
         VotersFor

\* create_proposal: the new number has no votes yet.
LEMMA CreateQuorumInv ==
  ASSUME QuorumInv, NEW h \in Evidence, CreateSlashingProposal(h)
  PROVE  QuorumInv'
<1> USE VoteStakeAssumption, NoProposalAssumption
<1>1. SlashTypeOK'
  BY DEF QuorumInv, SlashTypeOK, CreateSlashingProposal, SlashingProposals
<1>2. /\ votes' = votes /\ slashings' = slashings
      /\ slashed_validators' = slashed_validators
      /\ number' = [number EXCEPT ![h] = @ + 1]
      /\ number \in [Evidence -> Nat]
  BY DEF QuorumInv, SlashTypeOK, CreateSlashingProposal
<1>3. VotersFor(h, number'[h]) = {}
  <2>1. \A v \in SlashVoters : [evidence |-> h, number |-> number'[h], voter |-> v] \notin votes
    BY <1>2 DEF QuorumInv, NoVotesAhead
  <2> QED
    BY <2>1 DEF VotersFor
<1>4. \A g \in Evidence : g # h => number'[g] = number[g] /\ proposals'[g] = proposals[g]
  BY DEF QuorumInv, SlashTypeOK, CreateSlashingProposal
<1>6. proposals'[h] = [voters |-> {}, executed |-> FALSE, supporting_stake |-> 0]
  BY DEF QuorumInv, SlashTypeOK, CreateSlashingProposal
<1>6a. proposals'[h] # NoProposal
  <2>1. [voters |-> {}, executed |-> FALSE, supporting_stake |-> 0] \in SlashingProposals
    BY DEF SlashingProposals
  <2> QED
    BY <1>6, <2>1
<1>6b. proposals'[h].voters = {} /\ proposals'[h].supporting_stake = 0
  BY <1>6
<1>7. Tallied'
  <2>1. \A g, k : VotersFor(g, k)' = VotersFor(g, k)
    BY <1>2 DEF VotersFor
  <2>2. VoteStake' = VoteStake /\ VoteStake[{}] = 0
    OBVIOUS
  <2> HIDE VoteStakeAssumption
  <2>3. Tallied
    BY DEF QuorumInv
  <2> SUFFICES ASSUME NEW g \in Evidence
               PROVE  /\ proposals'[g] # NoProposal =>
                            /\ proposals'[g].voters = VotersFor(g, number'[g])
                            /\ proposals'[g].supporting_stake = VoteStake[proposals'[g].voters]
                      /\ proposals'[g] = NoProposal => VotersFor(g, number'[g]) = {}
    BY <2>1 DEF Tallied
  <2>4. CASE g = h
    BY <1>3, <1>6a, <1>6b, <2>2, <2>4
  <2>5. CASE g # h
    BY <1>4, <2>3, <2>5 DEF Tallied
  <2> QED
    BY <2>4, <2>5
<1>8. NoVotesAhead'
  BY <1>2 DEF QuorumInv, SlashTypeOK, NoVotesAhead
<1>9. Ended'
  BY <1>2, <1>4 DEF QuorumInv, SlashTypeOK, Ended
<1>10. SlashedByQuorum'
  BY <1>2 DEF QuorumInv, SlashedByQuorum, VotersFor
<1> QED
  BY <1>1, <1>7, <1>8, <1>9, <1>10 DEF QuorumInv

\* vote_for_slashing: one more voter, in the set, in the sum and among the votes; a
\* proposal that was slashed for takes none.
LEMMA VoteQuorumInv ==
  ASSUME QuorumInv, NEW h \in Evidence, NEW v \in SlashVoters, VoteForSlashing(h, v)
  PROVE  QuorumInv'
<1> USE VoteStakeAssumption, NoProposalAssumption
<1> DEFINE new == [evidence |-> h, number |-> number[h], voter |-> v]
<1>1. /\ proposals[h] \in SlashingProposals
      /\ proposals'[h] = [proposals[h] EXCEPT !.voters = @ \cup {v},
                                              !.supporting_stake = @ + VoteStake[{v}]]
      /\ VoteStake[{v}] \in Nat
  BY DEF QuorumInv, SlashTypeOK, VoteForSlashing
<1>1a. proposals'[h] \in SlashingProposals
  <2>1. /\ proposals[h].voters \in SUBSET SlashVoters /\ proposals[h].supporting_stake \in Nat
        /\ proposals[h].executed \in BOOLEAN
    BY <1>1 DEF SlashingProposals
  <2>2. proposals'[h] = [voters |-> proposals[h].voters \cup {v},
                         executed |-> proposals[h].executed,
                         supporting_stake |-> proposals[h].supporting_stake + VoteStake[{v}]]
    BY <1>1 DEF SlashingProposals
  <2> HIDE VoteStakeAssumption
  <2>3. proposals[h].supporting_stake + VoteStake[{v}] \in Nat
    BY <1>1, <2>1
  <2> QED
    BY <2>1, <2>2, <2>3 DEF SlashingProposals
<1>1b. \A g \in Evidence : g # h => proposals'[g] = proposals[g]
  BY DEF QuorumInv, SlashTypeOK, VoteForSlashing
<1>1c. proposals' \in [Evidence -> SlashingProposals \cup {NoProposal}]
  BY <1>1, <1>1a DEF QuorumInv, SlashTypeOK, VoteForSlashing
<1>2. SlashTypeOK'
  <2>1. new \in [evidence : Evidence, number : Nat, voter : SlashVoters]
    BY DEF QuorumInv, SlashTypeOK
  <2>2. votes' \subseteq [evidence : Evidence, number : Nat, voter : SlashVoters]
    BY <2>1 DEF QuorumInv, SlashTypeOK, VoteForSlashing
  <2> HIDE VoteStakeAssumption, NoProposalAssumption
  <2> QED
    BY <1>1c, <2>2 DEF QuorumInv, SlashTypeOK, VoteForSlashing
<1>3. /\ number' = number /\ votes' = votes \cup {new}
      /\ slashings' = slashings /\ slashed_validators' = slashed_validators
  BY DEF VoteForSlashing
<1>4. \A g \in Evidence : g # h => VotersFor(g, number[g])' = VotersFor(g, number[g])
  BY <1>3 DEF VotersFor
<1>5. VotersFor(h, number[h])' = VotersFor(h, number[h]) \cup {v}
  BY <1>3 DEF VotersFor
<1>6. /\ proposals[h] # NoProposal /\ v \notin proposals[h].voters
      /\ proposals[h].voters \in SUBSET SlashVoters
      /\ ~proposals[h].executed
  BY <1>1 DEF VoteForSlashing, SlashingProposals
<1>7. /\ proposals'[h].voters = proposals[h].voters \cup {v}
      /\ proposals'[h].supporting_stake = proposals[h].supporting_stake + VoteStake[{v}]
      /\ proposals'[h] # NoProposal
  BY <1>1, <1>1a DEF SlashingProposals
<1>8. VoteStake[proposals[h].voters \cup {v}] = VoteStake[proposals[h].voters] + VoteStake[{v}]
  BY <1>6
<1>9. Tallied'
  BY <1>1b, <1>3, <1>4, <1>5, <1>6, <1>7, <1>8 DEF QuorumInv, Tallied
<1>10. NoVotesAhead'
  BY <1>3 DEF QuorumInv, SlashTypeOK, NoVotesAhead
<1>11. Ended'
  BY <1>1b, <1>3, <1>6 DEF QuorumInv, SlashTypeOK, Ended
<1>12. \A s \in slashings : s.evidence # h \/ s.number # number[h]
  BY <1>6 DEF QuorumInv, Ended
<1>13. SlashedByQuorum'
  <2>1. \A s \in slashings : VotersFor(s.evidence, s.number)' = VotersFor(s.evidence, s.number)
    BY <1>3, <1>12 DEF VotersFor
  <2> QED
    BY <1>3, <2>1 DEF QuorumInv, SlashedByQuorum
<1> QED
  BY <1>2, <1>9, <1>10, <1>11, <1>13 DEF QuorumInv

\* execute_slashing: the counter it compares is the stake of the voters.
LEMMA ExecuteQuorumInv ==
  ASSUME QuorumInv, NEW h \in Evidence, ExecuteSlashing(h)
  PROVE  QuorumInv'
<1> USE VoteStakeAssumption, NoProposalAssumption
<1> DEFINE new == [evidence |-> h, number |-> number[h]]
<1>1. /\ proposals[h] \in SlashingProposals
      /\ proposals'[h] = [proposals[h] EXCEPT !.executed = TRUE]
      /\ proposals[h] # NoProposal
      /\ \A g \in Evidence : g # h => proposals'[g] = proposals[g]
  BY DEF QuorumInv, SlashTypeOK, ExecuteSlashing
<1>1a. /\ proposals'[h] \in SlashingProposals
       /\ proposals'[h].voters = proposals[h].voters
       /\ proposals'[h].supporting_stake = proposals[h].supporting_stake
       /\ proposals'[h].executed
       /\ proposals'[h] # NoProposal
  BY <1>1 DEF SlashingProposals
<1>2. /\ number' = number /\ votes' = votes /\ slashings' = slashings \cup {new}
      /\ slashed_validators' = slashed_validators \cup {TargetOf[h]}
  BY DEF ExecuteSlashing
<1>3. SlashTypeOK'
  <2>1. proposals' \in [Evidence -> SlashingProposals \cup {NoProposal}]
    BY <1>1, <1>1a DEF QuorumInv, SlashTypeOK, ExecuteSlashing
  <2> QED
    BY <1>2, <2>1 DEF QuorumInv, SlashTypeOK
<1>4. Tallied'
  BY <1>1, <1>1a, <1>2 DEF QuorumInv, Tallied, VotersFor
<1>5. NoVotesAhead'
  BY <1>2 DEF QuorumInv, NoVotesAhead
<1>5a. /\ new.evidence = h /\ new.number = number[h] /\ number[h] \in Nat
       /\ slashings \subseteq [evidence : Evidence, number : Nat]
  BY DEF QuorumInv, SlashTypeOK
<1> HIDE DEF new
<1> HIDE VoteStakeAssumption, NoProposalAssumption
<1>6. Ended'
  <2> SUFFICES ASSUME NEW s \in slashings'
               PROVE  /\ s.number <= number[s.evidence]
                      /\ s.number = number[s.evidence] =>
                            proposals'[s.evidence] # NoProposal /\ proposals'[s.evidence].executed
    BY <1>2 DEF Ended
  <2>1. CASE s = new
    BY <1>1a, <1>5a, <2>1
  <2>2. CASE s \in slashings
    <3>1. /\ s.number <= number[s.evidence] /\ s.evidence \in Evidence
          /\ s.number = number[s.evidence] =>
                proposals[s.evidence] # NoProposal /\ proposals[s.evidence].executed
      BY <1>5a, <2>2 DEF QuorumInv, Ended
    <3> QED
      BY <1>1, <1>1a, <3>1
  <2> QED
    BY <1>2, <2>1, <2>2
<1>7. SlashedByQuorum'
  <2>1. 100 * VoteStake[VotersFor(h, number[h])] >= 67 * VoteStake[SlashVoters]
    BY <1>1 DEF QuorumInv, Tallied, VotersFor, ExecuteSlashing, ReachesThreshold
  <2>2. \A g, k : VotersFor(g, k)' = VotersFor(g, k)
    BY <1>2 DEF VotersFor
  <2>3. \A s \in slashings' :
           100 * VoteStake[VotersFor(s.evidence, s.number)] >= 67 * VoteStake[SlashVoters]
    BY <1>2, <1>5a, <2>1 DEF QuorumInv, SlashedByQuorum
  <2>4. \A t \in slashed_validators' : \E s \in slashings' : t = TargetOf[s.evidence]
    BY <1>2, <1>5a DEF QuorumInv, SlashedByQuorum
  <2> QED
    BY <2>2, <2>3, <2>4 DEF SlashedByQuorum
<1> QED
  BY <1>3, <1>4, <1>5, <1>6, <1>7 DEF QuorumInv

\* Every slashed validator is the target of a proposal that gathered, while it stood,
\* the votes of distinct validators with 67 % of the stake, in any order of calls.
THEOREM SlashingNeedsQuorum == SlashSpec => []SlashedByQuorum
<1>1. QuorumInv /\ [SlashNext]_slashVars => QuorumInv'
  <2> SUFFICES ASSUME QuorumInv, [SlashNext]_slashVars PROVE QuorumInv'
    OBVIOUS
  <2>1. CASE SlashNext
    BY <2>1, CreateQuorumInv, VoteQuorumInv, ExecuteQuorumInv DEF SlashNext
  <2>2. CASE UNCHANGED slashVars
    BY <2>2 DEF slashVars, QuorumInv, SlashTypeOK, Tallied, NoVotesAhead, Ended,
                SlashedByQuorum, VotersFor
  <2> QED
    BY <2>1, <2>2
<1>2. QuorumInv => SlashedByQuorum
  BY DEF QuorumInv
<1> QED
  BY InitQuorumInv, <1>1, <1>2, PTL DEF SlashSpec

------------------------------------------------------------------------------
(***************************************************************************)
(* The algorithms.  A loop is a function of its rounds that is chosen to   *)
(* satisfy its own equation, so of each one it has to be shown that such a *)
(* function exists (IsPower, IsRun, IsBuilt, IsRoots, IsClimb say what the *)
(* equation is) and what its last value is.  Both go by induction over the *)
(* rounds, as CountingUp for the set of the rounds for which it is true.   *)
(***************************************************************************)

\* Induction over the numbers, for a set
LEMMA CountingUp ==
    ASSUME NEW T, 0 \in T, \A n \in Nat : n \in T => n + 1 \in T
    PROVE  Nat \subseteq T
<1> DEFINE Bad == {n \in Nat : n \notin T}
<1> SUFFICES ASSUME Bad # {} PROVE FALSE
  OBVIOUS
<1>1. Bad \in SUBSET Nat
  OBVIOUS
<1> HIDE DEF Bad
<1>2. PICK n \in Bad : \A m \in Bad : n <= m
  BY <1>1, LeastNumber
<1>3. n \in Nat /\ n \notin T
  BY <1>2 DEF Bad
<1>4. n # 0 /\ n - 1 \in Nat
  BY <1>3
<1>5. n - 1 \notin Bad
  BY <1>2, <1>3, <1>4
<1>6. n - 1 \in T
  BY <1>4, <1>5 DEF Bad
<1>7. (n - 1) + 1 = n
  BY <1>3
<1> QED BY <1>3, <1>4, <1>6, <1>7

------------------------------------------------------------------------------
(* Powers *)

IsPower(p, b, n) == p = [k \in 0 .. n |-> IF k = 0 THEN 1 ELSE b * p[k - 1]]

LEMMA PowerUnfolds ==
    ASSUME NEW b, NEW n PROVE Power(b, n) = (CHOOSE p : IsPower(p, b, n))[n]
BY DEF Power, IsPower

LEMMA PowerExists ==
    ASSUME NEW b \in Nat, NEW n \in Nat
    PROVE  \E p : IsPower(p, b, n)
<1> DEFINE T == {m \in Nat : \E p : IsPower(p, b, m)}
<1>1. 0 \in T
  <2> DEFINE p == [k \in 0 .. 0 |-> 1]
  <2>1. IsPower(p, b, 0)
    BY DEF IsPower
  <2> QED BY <2>1
<1>2. ASSUME NEW m \in Nat, m \in T PROVE m + 1 \in T
  <2>1. PICK p : IsPower(p, b, m)
    BY <1>2
  <2> DEFINE q == [k \in 0 .. m + 1 |-> IF k <= m THEN p[k] ELSE b * p[m]]
  <2>2. \A k \in 0 .. m + 1 : q[k] = IF k = 0 THEN 1 ELSE b * q[k - 1]
    BY <2>1 DEF IsPower
  <2> HIDE DEF q
  <2>3. q = [k \in 0 .. m + 1 |-> q[k]]
    BY DEF q
  <2>4. q = [k \in 0 .. m + 1 |-> IF k = 0 THEN 1 ELSE b * q[k - 1]]
    BY <2>2, <2>3
  <2> QED BY <2>4 DEF IsPower
<1> HIDE DEF T
<1>3. n \in T
  BY <1>1, <1>2, CountingUp
<1> QED BY <1>3 DEF T

LEMMA PowerUnique ==
    ASSUME NEW b \in Nat, NEW n \in Nat, NEW m \in Nat, NEW p, IsPower(p, b, n),
           NEW q, IsPower(q, b, m), NEW k \in Nat, k <= n, k <= m
    PROVE  p[k] \in Nat /\ p[k] = q[k]
<1> DEFINE T == {i \in Nat : i <= n /\ i <= m => p[i] \in Nat /\ p[i] = q[i]}
<1>1. 0 \in T
  BY DEF IsPower
<1>2. ASSUME NEW i \in Nat, i \in T PROVE i + 1 \in T
  <2> SUFFICES ASSUME i + 1 <= n, i + 1 <= m PROVE p[i + 1] \in Nat /\ p[i + 1] = q[i + 1]
    OBVIOUS
  <2>1. p[i] \in Nat /\ p[i] = q[i]
    BY <1>2
  <2>2. p[i + 1] = b * p[i] /\ q[i + 1] = b * q[i]
    BY DEF IsPower
  <2>3. \A x \in Nat : b * x \in Nat
    OBVIOUS
  <2> QED BY <2>1, <2>2, <2>3
<1> HIDE DEF T
<1>3. k \in T
  BY <1>1, <1>2, CountingUp
<1> QED BY <1>3 DEF T

LEMMA PowerIs ==
    ASSUME NEW b \in Nat, NEW n \in Nat
    PROVE  /\ Power(b, 0) = 1
           /\ Power(b, n) \in Nat
           /\ Power(b, n + 1) = b * Power(b, n)
<1> DEFINE p(m) == CHOOSE f : IsPower(f, b, m)
<1>1. \A m \in Nat : IsPower(p(m), b, m)
  BY PowerExists
<1>2. \A m \in Nat : Power(b, m) = p(m)[m]
  BY PowerUnfolds
<1> HIDE DEF p
<1>3. Power(b, 0) = 1
  BY <1>1, <1>2 DEF IsPower
<1>4. Power(b, n) \in Nat /\ p(n)[n] = p(n + 1)[n]
  BY <1>1, <1>2, PowerUnique
<1>5. p(n + 1)[n + 1] = b * p(n + 1)[n]
  <2>1. IsPower(p(n + 1), b, n + 1) /\ n + 1 \in 0 .. n + 1 /\ n + 1 # 0 /\ (n + 1) - 1 = n
    BY <1>1
  <2> QED BY <2>1 DEF IsPower
<1> QED BY <1>2, <1>3, <1>4, <1>5

LEMMA PowerPositive ==
    ASSUME NEW b \in Nat, b > 0, NEW n \in Nat
    PROVE  Power(b, n) \in Nat /\ Power(b, n) > 0
<1> DEFINE T == {m \in Nat : Power(b, m) > 0}
<1>1. 0 \in T
  BY PowerIs
<1>2. ASSUME NEW m \in Nat, m \in T PROVE m + 1 \in T
  <2>1. Power(b, m) \in Nat /\ Power(b, m) > 0 /\ Power(b, m + 1) = b * Power(b, m)
    BY <1>2, PowerIs
  <2>2. \A x \in Nat : x > 0 => b * x > 0
    OBVIOUS
  <2> QED BY <2>1, <2>2
<1> HIDE DEF T
<1>3. n \in T
  BY <1>1, <1>2, CountingUp
<1> QED BY <1>3, PowerIs DEF T

\* Dividing by b and by p is dividing by their product.
LEMMA Divide ==
    ASSUME NEW a \in Nat, NEW n \in Nat, n > 0, NEW q \in Int, n * q <= a, a < n * q + n
    PROVE  a \div n = q
<1>1. a \div n \in Int /\ n * (a \div n) <= a /\ a < n * (a \div n) + n
  OBVIOUS
<1> QED BY <1>1

LEMMA DivideTwice ==
    ASSUME NEW a \in Nat, NEW n \in Nat, n > 0, NEW b \in Nat, b > 0
    PROVE  /\ (a \div n) \div b = a \div (b * n)
           /\ b * (a \div (b * n)) + ((a \div n) % b) = a \div n
<1> DEFINE q == a \div n
           r == q \div b
           d == q % b
<1>1. q \in Nat /\ n * q <= a /\ a < n * q + n
  OBVIOUS
<1> HIDE DEF q
<1>2. r \in Nat /\ b * r <= q /\ q <= b * r + b - 1 /\ b * r + d = q
  <2>1. q \div b \in Nat /\ q % b \in 0 .. b - 1
    BY <1>1
  <2>2. q % b = q - b * (q \div b)
    BY <1>1
  <2> HIDE DEF r, d
  <2>3. r \in Nat /\ d \in 0 .. b - 1 /\ d = q - b * r
    BY <2>1, <2>2 DEF r, d
  <2>4. b * r \in Nat
    BY <2>3
  <2> QED BY <1>1, <2>3, <2>4
<1> HIDE DEF r, d
<1>3. b * n \in Nat /\ b * n > 0
  OBVIOUS
<1>4. n * (b * r) <= n * q /\ n * q <= n * (b * r + b - 1)
  BY <1>1, <1>2
<1>5. n * (b * r) = (b * n) * r /\ n * (b * r + b - 1) = (b * n) * r + b * n - n
  BY <1>1, <1>2
<1>6. (b * n) * r <= a /\ a < (b * n) * r + b * n
  BY <1>1, <1>2, <1>3, <1>4, <1>5
<1>7. a \div (b * n) = r
  BY <1>2, <1>3, <1>6, Divide
<1>8. q \div b = a \div (b * n)
  BY <1>7, Zenon DEF r
<1>9. b * (a \div (b * n)) + (q % b) = q
  <2>1. b * r + d = q
    BY <1>2
  <2>2. b * (a \div (b * n)) + d = q
    BY <1>7, <2>1, Zenon
  <2> QED BY <2>2, Zenon DEF d
<1> QED BY <1>8, <1>9, Zenon DEF q

------------------------------------------------------------------------------
(* The proposer *)

LEMMA CumulativeIs ==
    ASSUME NEW s \in Seq(Nat), NEW i \in 0 .. Len(s)
    PROVE  /\ Cumulative(s, 0) = 0
           /\ Cumulative(s, i) \in Nat
           /\ i < Len(s) => Cumulative(s, i + 1) = Cumulative(s, i) + s[i + 1]
<1>1. \A k \in 1 .. Len(s) : s[k] \in Nat
  OBVIOUS
<1>2. IsFiniteSet(1 .. i) /\ 1 .. 0 = {}
  BY FS_Interval
<1>3. Cumulative(s, 0) = 0
  BY <1>2, SumEmpty DEF Cumulative
<1>4. Cumulative(s, i) \in Nat
  BY <1>1, <1>2, SumNat DEF Cumulative
<1>5. ASSUME i < Len(s) PROVE Cumulative(s, i + 1) = Cumulative(s, i) + s[i + 1]
  <2>1. 1 .. i + 1 = (1 .. i) \cup {i + 1} /\ i + 1 \notin 1 .. i
    OBVIOUS
  <2>2. \A k \in (1 .. i) \cup {i + 1} : s[k] \in Nat
    BY <1>1, <1>5
  <2>3. SumFunctionOnSet(s, (1 .. i) \cup {i + 1}) = s[i + 1] + SumFunctionOnSet(s, 1 .. i)
    BY <1>2, <2>1, <2>2, SumAdd
  <2>4. Cumulative(s, i + 1) = s[i + 1] + Cumulative(s, i)
    BY <2>1, <2>3 DEF Cumulative
  <2>5. s[i + 1] \in Nat
    BY <2>2
  <2> QED BY <1>4, <2>4, <2>5
<1> QED BY <1>3, <1>4, <1>5

LEMMA TotalIs ==
    ASSUME NEW s \in Seq(Nat)
    PROVE  Total(s) = Cumulative(s, Len(s)) /\ Total(s) \in Nat
<1>1. DOMAIN s = 1 .. Len(s) /\ Len(s) \in 0 .. Len(s)
  OBVIOUS
<1>2. Total(s) = Cumulative(s, Len(s))
  BY <1>1, Zenon DEF Total, SumFunction, Cumulative
<1> QED BY <1>1, <1>2, CumulativeIs

LEMMA CumulativeGrows ==
    ASSUME NEW s \in Seq(Nat), NEW i \in 0 .. Len(s), NEW j \in i .. Len(s)
    PROVE  Cumulative(s, i) <= Cumulative(s, j)
<1> DEFINE C(k) == Cumulative(s, k)
           T == {d \in Nat : i + d <= Len(s) => C(i) <= C(i + d)}
<1>1. \A k \in 0 .. Len(s) : C(k) \in Nat /\ (k < Len(s) => C(k + 1) = C(k) + s[k + 1])
  BY CumulativeIs
<1>2. \A k \in 1 .. Len(s) : s[k] \in Nat
  OBVIOUS
<1> HIDE DEF C
<1>3. 0 \in T
  BY <1>1
<1>4. ASSUME NEW d \in Nat, d \in T PROVE d + 1 \in T
  <2> SUFFICES ASSUME i + (d + 1) <= Len(s) PROVE C(i) <= C(i + (d + 1))
    OBVIOUS
  <2>1. C(i + d + 1) = C(i + d) + s[i + d + 1]
    <3>1. i + d \in 0 .. Len(s) /\ i + d < Len(s)
      OBVIOUS
    <3> QED BY <1>1, <3>1
  <2>2. C(i + d) \in Nat /\ C(i) \in Nat /\ C(i) <= C(i + d) /\ s[i + d + 1] \in Nat
    BY <1>1, <1>2, <1>4
  <2>3. i + (d + 1) = i + d + 1
    OBVIOUS
  <2> QED BY <2>1, <2>2, <2>3
<1> HIDE DEF T
<1>5. j - i \in T
  <2>1. Nat \subseteq T
    BY <1>3, <1>4, CountingUp
  <2>2. j - i \in Nat
    OBVIOUS
  <2> QED BY <2>1, <2>2
<1>6. C(i) <= C(i + (j - i)) /\ i + (j - i) = j
  BY <1>5 DEF T
<1> QED BY <1>6 DEF C

\* The loop of _expected_proposer returns the validator whose share holds the target.
LEMMA SelectedByShare ==
    ASSUME NEW s \in Seq(Nat), NEW t \in 0 .. Total(s) - 1, NEW i \in DOMAIN s
    PROVE  ExpectedProposer(s, t) = i <=> Cumulative(s, i - 1) <= t /\ t < Cumulative(s, i)
<1> DEFINE C(k) == Cumulative(s, k)
           First(k) == C(k) > t /\ \A j \in 1 .. k - 1 : C(j) <= t
           T == {k \in Nat : k \in DOMAIN s /\ C(k) > t}
<1>1. /\ C(0) = 0
      /\ \A k \in 0 .. Len(s) : C(k) \in Nat
      /\ \A k \in 0 .. Len(s), j \in 0 .. Len(s) : k <= j => C(k) <= C(j)
  <2>1. \A k \in 0 .. Len(s) : C(k) \in Nat /\ C(0) = 0
    BY CumulativeIs
  <2>2. \A k \in 0 .. Len(s) : \A j \in k .. Len(s) : C(k) <= C(j)
    BY CumulativeGrows
  <2>3. 0 \in 0 .. Len(s)
    OBVIOUS
  <2> QED BY <2>1, <2>2, <2>3
<1>2. t \in Nat /\ t < C(Len(s)) /\ Len(s) \in Nat /\ DOMAIN s = 1 .. Len(s)
  BY TotalIs
<1> HIDE DEF C
<1>3. Len(s) \in T
  BY <1>1, <1>2
<1>4. T \in SUBSET Nat
  OBVIOUS
<1> HIDE DEF T
<1>5. PICK k \in T : \A j \in T : k <= j
  BY <1>3, <1>4, LeastNumber
<1>6. k \in DOMAIN s /\ First(k)
  <2>1. k \in DOMAIN s /\ C(k) > t
    BY <1>5 DEF T
  <2>2. ASSUME NEW j \in 1 .. k - 1 PROVE C(j) <= t
    <3>1. j \in DOMAIN s /\ j \in Nat /\ C(j) \in Nat /\ ~ (k <= j)
      BY <1>1, <1>2, <2>1
    <3>2. j \notin T
      BY <1>5, <3>1
    <3> QED BY <1>2, <3>1, <3>2 DEF T
  <2> QED BY <2>1, <2>2
<1>7. ExpectedProposer(s, t) \in DOMAIN s /\ First(ExpectedProposer(s, t))
  <2>1. ExpectedProposer(s, t) = CHOOSE e \in DOMAIN s : First(e)
    BY DEF ExpectedProposer, C
  <2> HIDE DEF First
  <2> QED BY <1>6, <2>1
<1>8. ASSUME NEW e \in DOMAIN s PROVE First(e) <=> C(e - 1) <= t /\ t < C(e)
  <2>1. e \in 1 .. Len(s) /\ e - 1 \in 0 .. Len(s) /\ C(e - 1) \in Nat /\ C(e) \in Nat
    BY <1>1, <1>2
  <2>2. First(e) => C(e - 1) <= t
    BY <1>1, <1>2, <2>1
  <2>3. C(e - 1) <= t => \A j \in 1 .. e - 1 : C(j) <= t
    <3> SUFFICES ASSUME C(e - 1) <= t, NEW j \in 1 .. e - 1 PROVE C(j) <= t
      OBVIOUS
    <3>1. C(j) <= C(e - 1) /\ C(j) \in Nat
      BY <1>1, <2>1
    <3> QED BY <1>2, <2>1, <3>1
  <2> QED BY <1>2, <2>1, <2>2, <2>3
<1>9. ASSUME NEW e \in DOMAIN s, NEW f \in DOMAIN s, First(e), First(f) PROVE e = f
  <2>1. e \in Nat /\ f \in Nat /\ e > 0 /\ f > 0 /\ C(e) \in Nat /\ C(f) \in Nat
    BY <1>1, <1>2
  <2>2. ASSUME e < f PROVE FALSE
    <3>1. e \in 1 .. f - 1
      BY <2>1, <2>2
    <3> QED BY <1>2, <1>9, <2>1, <3>1
  <2>3. ASSUME f < e PROVE FALSE
    <3>1. f \in 1 .. e - 1
      BY <2>1, <2>3
    <3> QED BY <1>2, <1>9, <2>1, <3>1
  <2> QED BY <2>1, <2>2, <2>3
<1> HIDE DEF First
<1>10. ExpectedProposer(s, t) = i <=> First(i)
  BY <1>7, <1>9
<1> QED BY <1>8, <1>10 DEF C

\* For every sequence of stakes, _expected_proposer selects each validator for
\* exactly as many of the targets as it has stake.
LEMMA SharesAreStakes ==
    ASSUME NEW s \in Seq(Nat), NEW i \in DOMAIN s
    PROVE  Cardinality({t \in 0 .. Total(s) - 1 : ExpectedProposer(s, t) = i}) = s[i]
<1> DEFINE C(k) == Cumulative(s, k)
           n == Total(s)
<1>1. i \in 1 .. Len(s) /\ i - 1 \in 0 .. Len(s) /\ i \in 0 .. Len(s) /\ s[i] \in Nat
  OBVIOUS
<1>2. C(i - 1) \in Nat /\ C(i) = C(i - 1) + s[i]
  <2>1. (i - 1) + 1 = i /\ i - 1 < Len(s)
    BY <1>1
  <2> QED BY <1>1, <2>1, CumulativeIs
<1>3. n \in Nat /\ C(i) <= n
  BY <1>1, TotalIs, CumulativeGrows
<1>4. \A t \in 0 .. n - 1 : ExpectedProposer(s, t) = i <=> C(i - 1) <= t /\ t < C(i)
  BY SelectedByShare
<1> HIDE DEF C, n
<1>5. {t \in 0 .. n - 1 : ExpectedProposer(s, t) = i} = C(i - 1) .. C(i) - 1
  BY <1>1, <1>2, <1>3, <1>4
<1>6. Cardinality(C(i - 1) .. C(i) - 1) = s[i]
  <2>1. C(i - 1) \in Int /\ C(i) - 1 \in Int
    BY <1>1, <1>2
  <2>2. Cardinality(C(i - 1) .. C(i) - 1) = IF C(i - 1) > C(i) - 1 THEN 0 ELSE (C(i) - 1) - C(i - 1) + 1
    BY <2>1, FS_Interval
  <2> QED BY <1>1, <1>2, <2>2
<1> QED BY <1>5, <1>6 DEF n

------------------------------------------------------------------------------
(* Signatures *)

\* A number none of whose digits is smaller than another's is not smaller.
LEMMA DigitsCompare ==
    ASSUME NEW b \in Nat, b > 0, NEW n \in Nat, NEW x \in Nat, NEW y \in Nat,
           x < Power(b, n), y < Power(b, n),
           \A j \in 0 .. n - 1 : (y \div Power(b, j)) % b <= (x \div Power(b, j)) % b
    PROVE  y <= x
<1> DEFINE X(j) == x \div Power(b, j)
           Y(j) == y \div Power(b, j)
           T == {d \in Nat : d <= n => Y(n - d) <= X(n - d)}
<1>1. \A j \in Nat : Power(b, j) \in Nat /\ Power(b, j) > 0 /\ Power(b, j + 1) = b * Power(b, j) /\ Power(b, 0) = 1
  BY PowerIs, PowerPositive
<1>2. \A j \in Nat : X(j) \in Nat /\ Y(j) \in Nat
  <2>1. \A p \in Nat : p > 0 => x \div p \in Nat /\ y \div p \in Nat
    OBVIOUS
  <2> QED BY <1>1, <2>1
<1>3. \A j \in Nat : /\ b * X(j + 1) + (X(j) % b) = X(j)
                     /\ b * Y(j + 1) + (Y(j) % b) = Y(j)
  <2> SUFFICES ASSUME NEW j \in Nat
               PROVE  /\ b * X(j + 1) + (X(j) % b) = X(j)
                      /\ b * Y(j + 1) + (Y(j) % b) = Y(j)
    OBVIOUS
  <2> DEFINE p == Power(b, j)
  <2>1. p \in Nat /\ p > 0 /\ Power(b, j + 1) = b * p
    BY <1>1
  <2> HIDE DEF p
  <2>2. /\ b * (x \div (b * p)) + ((x \div p) % b) = x \div p
        /\ b * (y \div (b * p)) + ((y \div p) % b) = y \div p
    BY <2>1, DivideTwice
  <2>3. X(j) = x \div p /\ Y(j) = y \div p /\ X(j + 1) = x \div (b * p) /\ Y(j + 1) = y \div (b * p)
    BY <2>1, Zenon DEF p
  <2> HIDE DEF X, Y
  <2> QED BY <2>2, <2>3, Zenon
<1>4. X(n) = 0 /\ Y(n) = 0 /\ X(0) = x /\ Y(0) = y
  <2>1. \A p \in Nat : p > 0 => (x < p => x \div p = 0) /\ (y < p => y \div p = 0)
    OBVIOUS
  <2>2. x \div 1 = x /\ y \div 1 = y
    OBVIOUS
  <2> QED BY <1>1, <2>1, <2>2
<1>5. \A j \in 0 .. n - 1 : Y(j) % b <= X(j) % b
  OBVIOUS
<1>6. \A j \in Nat : X(j) % b \in Nat /\ Y(j) % b \in Nat
  BY <1>2
<1> HIDE DEF X, Y
<1>7. 0 \in T
  BY <1>4
<1>8. ASSUME NEW d \in Nat, d \in T PROVE d + 1 \in T
  <2> SUFFICES ASSUME d + 1 <= n PROVE Y(n - (d + 1)) <= X(n - (d + 1))
    OBVIOUS
  <2> DEFINE j == n - (d + 1)
  <2>1. j \in Nat /\ j \in 0 .. n - 1 /\ j + 1 = n - d /\ j + 1 \in Nat
    OBVIOUS
  <2>2. Y(j + 1) <= X(j + 1)
    BY <1>8, <2>1
  <2> HIDE DEF j
  <2>3. b * Y(j + 1) <= b * X(j + 1)
    BY <1>2, <2>1, <2>2
  <2>4. b * Y(j + 1) \in Nat /\ b * X(j + 1) \in Nat
    BY <1>2, <2>1
  <2>5. Y(j) % b <= X(j) % b /\ Y(j) % b \in Nat /\ X(j) % b \in Nat
    BY <1>5, <1>6, <2>1
  <2>6. b * X(j + 1) + (X(j) % b) = X(j) /\ b * Y(j + 1) + (Y(j) % b) = Y(j)
    BY <1>3, <2>1
  <2>7. \A p, q, r, t \in Nat : p <= q /\ r <= t => p + r <= q + t
    OBVIOUS
  <2>8. Y(j) <= X(j)
    BY <2>3, <2>4, <2>5, <2>6, <2>7
  <2> QED BY <2>8 DEF j
<1> HIDE DEF T
<1>9. n \in T
  BY <1>7, <1>8, CountingUp
<1>10. n - n = 0
  OBVIOUS
<1> QED BY <1>4, <1>9, <1>10 DEF T

\* A sum with smaller terms is smaller, and bounded by the number of its terms.
LEMMA SumsCompare ==
    ASSUME NEW n \in Nat, NEW f \in [1 .. n -> Nat], NEW g \in [1 .. n -> Nat],
           \A i \in 1 .. n : f[i] <= g[i],
           NEW m \in Nat, \A i \in 1 .. n : f[i] <= m
    PROVE  /\ Total(f) \in Nat /\ Total(g) \in Nat
           /\ Total(f) <= n * m
           /\ (\E i \in 1 .. n : f[i] < g[i]) => Total(f) < Total(g)
<1> DEFINE F(k) == Cumulative(f, k)
           G(k) == Cumulative(g, k)
           T == {k \in Nat : k <= n => /\ F(k) <= k * m
                                       /\ F(k) <= G(k)
                                       /\ (\E i \in 1 .. k : f[i] < g[i]) => F(k) < G(k)}
<1>1. f \in Seq(Nat) /\ g \in Seq(Nat) /\ Len(f) = n /\ Len(g) = n
  OBVIOUS
<1>2. \A k \in 0 .. n : /\ F(0) = 0 /\ F(k) \in Nat /\ (k < n => F(k + 1) = F(k) + f[k + 1])
                        /\ G(0) = 0 /\ G(k) \in Nat /\ (k < n => G(k + 1) = G(k) + g[k + 1])
  BY <1>1, CumulativeIs
<1>3. Total(f) = F(n) /\ Total(g) = G(n)
  BY <1>1, TotalIs
<1> HIDE DEF F, G
<1>4. 0 \in T
  BY <1>2
<1>5. ASSUME NEW k \in Nat, k \in T PROVE k + 1 \in T
  <2> SUFFICES ASSUME k + 1 <= n
               PROVE  /\ F(k + 1) <= (k + 1) * m
                      /\ F(k + 1) <= G(k + 1)
                      /\ (\E i \in 1 .. k + 1 : f[i] < g[i]) => F(k + 1) < G(k + 1)
    OBVIOUS
  <2>1. /\ F(k) \in Nat /\ G(k) \in Nat
        /\ F(k + 1) = F(k) + f[k + 1] /\ G(k + 1) = G(k) + g[k + 1]
    BY <1>2
  <2>2. f[k + 1] \in Nat /\ g[k + 1] \in Nat /\ f[k + 1] <= g[k + 1] /\ f[k + 1] <= m
    OBVIOUS
  <2>3. F(k) <= k * m /\ F(k) <= G(k) /\ ((\E i \in 1 .. k : f[i] < g[i]) => F(k) < G(k))
    BY <1>5
  <2>4. (k + 1) * m = k * m + m /\ k * m \in Nat
    OBVIOUS
  <2>5. ASSUME NEW i \in 1 .. k + 1, f[i] < g[i] PROVE F(k + 1) < G(k + 1)
    <3>1. CASE i = k + 1
      BY <2>1, <2>2, <2>3, <2>5, <3>1
    <3>2. CASE i # k + 1
      <4>1. i \in 1 .. k
        BY <3>2
      <4> QED BY <2>1, <2>2, <2>3, <2>5, <4>1
    <3> QED BY <3>1, <3>2
  <2> QED BY <2>1, <2>2, <2>3, <2>4, <2>5
<1> HIDE DEF T
<1>6. n \in T
  BY <1>4, <1>5, CountingUp
<1>7. n \in 0 .. n
  OBVIOUS
<1> QED BY <1>2, <1>3, <1>6, <1>7 DEF T

\* The chains of a message hash: digits of the message, then of the checksum
LEMMA ChunksAre ==
    ASSUME NEW c \in [1 .. Len1 -> Digits]
    PROVE  /\ Checksum(c) \in Nat /\ Checksum(c) < Power(W, Len2)
           /\ AllChunks(c) \in [1 .. Len1 + Len2 -> Digits]
           /\ \A i \in 1 .. Len1 : AllChunks(c)[i] = c[i]
           /\ \A k \in 1 .. Len2 :
                 AllChunks(c)[Len1 + k] = (Checksum(c) \div Power(W, Len2 - k)) % W
           /\ Sign(c) = AllChunks(c)
<1> DEFINE left == [i \in DOMAIN c |-> W - 1 - c[i]]
           tail == [k \in 1 .. Len2 |-> (Checksum(c) \div Power(W, Len2 - k)) % W]
<1>1. W \in Nat /\ W > 1 /\ Len1 \in Nat /\ Len2 \in Nat /\ W - 1 \in Nat
  BY SizesAssumption, WotsAssumption
<1>2. left \in [1 .. Len1 -> Nat] /\ \A i \in 1 .. Len1 : left[i] <= W - 1
  BY <1>1 DEF Digits
<1> HIDE DEF left
<1>3. Checksum(c) \in Nat /\ Checksum(c) <= Len1 * (W - 1)
  <2>1. \A i \in 1 .. Len1 : left[i] <= left[i]
    BY <1>2
  <2>2. Total(left) \in Nat /\ Total(left) <= Len1 * (W - 1)
    BY <1>1, <1>2, <2>1, SumsCompare
  <2> QED BY <2>2 DEF Checksum, left
<1>4. Power(W, Len2) \in Nat /\ Len1 * (W - 1) \in Nat
  <2>1. \A p, q \in Nat : p * q \in Nat
    OBVIOUS
  <2> QED BY <1>1, <2>1, PowerIs
<1>5. Checksum(c) < Power(W, Len2)
  BY <1>3, <1>4, WotsAssumption
<1>6. \A k \in 1 .. Len2 : (Checksum(c) \div Power(W, Len2 - k)) % W \in Digits
  <2> SUFFICES ASSUME NEW k \in 1 .. Len2 PROVE (Checksum(c) \div Power(W, Len2 - k)) % W \in Digits
    OBVIOUS
  <2>1. Power(W, Len2 - k) \in Nat /\ Power(W, Len2 - k) > 0
    <3>1. Len2 - k \in Nat /\ W > 0
      BY <1>1
    <3> QED BY <1>1, <3>1, PowerPositive
  <2>2. Checksum(c) \div Power(W, Len2 - k) \in Nat
    BY <1>3, <2>1
  <2> QED BY <1>1, <2>2 DEF Digits
<1>7. tail \in [1 .. Len2 -> Digits]
  BY <1>6
<1>8. /\ c \in Seq(Digits) /\ Len(c) = Len1
      /\ tail \in Seq(Digits) /\ Len(tail) = Len2
  BY <1>1, <1>7
<1>9. AllChunks(c) = c \o tail
  BY DEF AllChunks
<1>10. \A k \in 1 .. Len2 : tail[k] = (Checksum(c) \div Power(W, Len2 - k)) % W
  OBVIOUS
<1> HIDE DEF tail
<1>11. /\ AllChunks(c) \in [1 .. Len1 + Len2 -> Digits]
       /\ \A i \in 1 .. Len1 : AllChunks(c)[i] = c[i]
       /\ \A k \in 1 .. Len2 : AllChunks(c)[Len1 + k] = tail[k]
  <2>1. c \o tail \in Seq(Digits) /\ Len(c \o tail) = Len1 + Len2
    BY <1>8
  <2>2. c \o tail \in [1 .. Len1 + Len2 -> Digits]
    <3> DEFINE all == c \o tail
    <3>1. all \in Seq(Digits) /\ Len(all) = Len1 + Len2
      BY <2>1
    <3> HIDE DEF all
    <3>2. all \in [1 .. Len(all) -> Digits]
      BY <3>1
    <3> QED BY <3>1, <3>2 DEF all
  <2>3. \A i \in 1 .. Len1 : (c \o tail)[i] = c[i]
    BY <1>1, <1>8
  <2>4. \A k \in 1 .. Len2 : (c \o tail)[Len1 + k] = tail[k]
    BY <1>1, <1>8
  <2> QED BY <1>9, <2>2, <2>3, <2>4
<1>12. Sign(c) = AllChunks(c)
  BY <1>1, <1>11 DEF Sign, HashChains, PrivateKey, Digits
<1> QED BY <1>3, <1>5, <1>10, <1>11, <1>12

\* verify accepts exactly the chains that hash on to the public key.
LEMMA VerifyCompares ==
    ASSUME NEW c \in [1 .. Len1 -> Digits], NEW d \in [1 .. Len1 -> Digits]
    PROVE  WotsVerify(d, Sign(c)) <=> d = c
<1> DEFINE n == Len1 + Len2
           x == AllChunks(c)
           y == AllChunks(d)
<1>1. W \in Nat /\ W > 1 /\ Len1 \in Nat /\ Len2 \in Nat /\ n \in Nat /\ Len1 <= n
  BY SizesAssumption, WotsAssumption
<1>2. /\ x \in [1 .. n -> Digits] /\ y \in [1 .. n -> Digits] /\ Sign(c) = x
      /\ \A i \in 1 .. Len1 : x[i] = c[i] /\ y[i] = d[i]
  BY ChunksAre
<1>3. WotsVerify(d, Sign(c)) <=> [i \in 1 .. n |-> x[i] + (W - 1 - y[i])] = [i \in 1 .. n |-> 0 + (W - 1)]
  BY <1>2 DEF WotsVerify, HashChains, PublicKey, PrivateKey
<1> HIDE DEF x, y, n
<1>4. WotsVerify(d, Sign(c)) <=> \A i \in 1 .. n : x[i] = y[i]
  <2>1. \A i \in 1 .. n : x[i] \in 0 .. W - 1 /\ y[i] \in 0 .. W - 1
    BY <1>2 DEF Digits
  <2>2. \A a, b \in 0 .. W - 1 : a + (W - 1 - b) = 0 + (W - 1) <=> a = b
    BY <1>1
  <2>3. \A i \in 1 .. n : x[i] + (W - 1 - y[i]) = 0 + (W - 1) <=> x[i] = y[i]
    BY <2>1, <2>2
  <2>4. WotsVerify(d, Sign(c)) <=> \A i \in 1 .. n : x[i] + (W - 1 - y[i]) = 0 + (W - 1)
    BY <1>3, Zenon
  <2> QED BY <2>3, <2>4
<1>5. ASSUME d = c PROVE x = y
  BY <1>5 DEF x, y
<1>6. ASSUME \A i \in 1 .. n : x[i] = y[i] PROVE d = c
  BY <1>1, <1>2, <1>6
<1> QED BY <1>4, <1>5, <1>6

\* A signature of another digest needs a chain that is not hashed as far.
LEMMA OtherDigestGoesBack ==
    ASSUME NEW c \in [1 .. Len1 -> Digits], NEW d \in [1 .. Len1 -> Digits], d # c
    PROVE  \E i \in DOMAIN Sign(c) : Sign(d)[i] < Sign(c)[i]
<1> DEFINE x == AllChunks(c)
           y == AllChunks(d)
           left(e) == [i \in DOMAIN e |-> W - 1 - e[i]]
<1>1. W \in Nat /\ W > 1 /\ Len1 \in Nat /\ Len2 \in Nat /\ W - 1 \in Nat
  BY SizesAssumption, WotsAssumption
<1>2. /\ x \in [1 .. Len1 + Len2 -> Digits] /\ y \in [1 .. Len1 + Len2 -> Digits]
      /\ Sign(c) = x /\ Sign(d) = y
      /\ \A i \in 1 .. Len1 : x[i] = c[i] /\ y[i] = d[i]
  BY ChunksAre
<1> SUFFICES ASSUME \A i \in 1 .. Len1 + Len2 : ~ (y[i] < x[i]) PROVE FALSE
  BY <1>2
<1>3. \A i \in 1 .. Len1 + Len2 : x[i] <= y[i]
  BY <1>2 DEF Digits
<1>4. \A i \in 1 .. Len1 : c[i] <= d[i]
  BY <1>1, <1>2, <1>3
<1>5. PICK i \in 1 .. Len1 : c[i] < d[i]
  <2>1. \A k \in 1 .. Len1 : c[k] \in Nat /\ d[k] \in Nat
    BY DEF Digits
  <2>2. \E k \in 1 .. Len1 : c[k] # d[k]
    <3> SUFFICES ASSUME \A k \in 1 .. Len1 : c[k] = d[k] PROVE c = d
      OBVIOUS
    <3>1. c = [k \in 1 .. Len1 |-> c[k]] /\ d = [k \in 1 .. Len1 |-> d[k]]
      OBVIOUS
    <3> QED BY <3>1
  <2> QED BY <1>4, <2>1, <2>2
<1>6. /\ left(d) \in [1 .. Len1 -> Nat] /\ left(c) \in [1 .. Len1 -> Nat]
      /\ \A k \in 1 .. Len1 : left(d)[k] <= left(c)[k] /\ left(d)[k] <= W - 1
      /\ left(d)[i] < left(c)[i]
  <2>1. \A k \in 1 .. Len1 : c[k] \in 0 .. W - 1 /\ d[k] \in 0 .. W - 1
    BY DEF Digits
  <2>2. \A k \in 1 .. Len1 : left(c)[k] = W - 1 - c[k] /\ left(d)[k] = W - 1 - d[k]
    OBVIOUS
  <2>3. DOMAIN left(c) = 1 .. Len1 /\ DOMAIN left(d) = 1 .. Len1
    OBVIOUS
  <2>4. \A k \in 1 .. Len1 : left(c)[k] \in Nat /\ left(d)[k] \in Nat
    BY <1>1, <2>1, <2>2
  <2>5. left(d) \in [1 .. Len1 -> Nat] /\ left(c) \in [1 .. Len1 -> Nat]
    BY <2>3, <2>4
  <2> HIDE DEF left
  <2>6. \A k \in 1 .. Len1 : left(d)[k] <= left(c)[k] /\ left(d)[k] <= W - 1
    <3> SUFFICES ASSUME NEW k \in 1 .. Len1 PROVE left(d)[k] <= left(c)[k] /\ left(d)[k] <= W - 1
      OBVIOUS
    <3>1. c[k] \in 0 .. W - 1 /\ d[k] \in 0 .. W - 1 /\ c[k] <= d[k]
      BY <1>4, <2>1
    <3>2. W - 1 - d[k] <= W - 1 - c[k] /\ W - 1 - d[k] <= W - 1
      BY <1>1, <3>1
    <3> QED BY <2>2, <3>2
  <2>7. left(d)[i] < left(c)[i]
    <3>1. c[i] \in 0 .. W - 1 /\ d[i] \in 0 .. W - 1 /\ c[i] < d[i]
      BY <1>5, <2>1
    <3>2. W - 1 - d[i] < W - 1 - c[i]
      BY <1>1, <3>1
    <3> QED BY <2>2, <3>2
  <2> QED BY <2>5, <2>6, <2>7
<1>7. Checksum(d) = Total(left(d)) /\ Checksum(c) = Total(left(c))
  BY DEF Checksum
<1> HIDE DEF left
<1>8. Total(left(d)) < Total(left(c))
  BY <1>1, <1>6, SumsCompare
<1>9. Checksum(c) <= Checksum(d)
  <2>1. /\ Checksum(c) \in Nat /\ Checksum(c) < Power(W, Len2)
        /\ Checksum(d) \in Nat /\ Checksum(d) < Power(W, Len2)
        /\ \A k \in 1 .. Len2 : /\ x[Len1 + k] = (Checksum(c) \div Power(W, Len2 - k)) % W
                                /\ y[Len1 + k] = (Checksum(d) \div Power(W, Len2 - k)) % W
    BY ChunksAre
  <2>2. ASSUME NEW j \in 0 .. Len2 - 1
        PROVE  (Checksum(c) \div Power(W, j)) % W <= (Checksum(d) \div Power(W, j)) % W
    <3> DEFINE k == Len2 - j
    <3>1. k \in 1 .. Len2 /\ Len2 - k = j /\ Len1 + k \in 1 .. Len1 + Len2
      BY <1>1
    <3> HIDE DEF k
    <3>2. x[Len1 + k] <= y[Len1 + k]
      BY <1>3, <3>1
    <3>3. /\ x[Len1 + k] = (Checksum(c) \div Power(W, j)) % W
          /\ y[Len1 + k] = (Checksum(d) \div Power(W, j)) % W
      BY <2>1, <3>1
    <3> QED BY <3>2, <3>3
  <2> QED BY <1>1, <2>1, <2>2, DigitsCompare
<1>10. Checksum(c) \in Nat /\ Checksum(d) \in Nat
  BY ChunksAre
<1> QED BY <1>7, <1>8, <1>9, <1>10

------------------------------------------------------------------------------
(* Levels *)

PairsOf(S) == {HashPair(p[1], p[2]) : p \in S \X S}

LEMMA PairsAre ==
    ASSUME NEW S, NEW s \in Seq(S)
    PROVE  /\ HashPairs(s) \in Seq(PairsOf(S))
           /\ Len(HashPairs(s)) = Len(s) \div 2
           /\ DOMAIN HashPairs(s) = 1 .. Len(s) \div 2
           /\ \A k \in 1 .. Len(s) \div 2 :
                 HashPairs(s)[k] = HashPair(s[2 * k - 1], s[2 * k])
<1> DEFINE n == Len(s) \div 2
<1>1. n \in Nat /\ 2 * n <= Len(s) /\ Len(s) \in Nat
  OBVIOUS
<1> HIDE DEF n
<1>2. \A k \in 1 .. n : s[2 * k - 1] \in S /\ s[2 * k] \in S
  BY <1>1
<1>3. \A k \in 1 .. n : HashPair(s[2 * k - 1], s[2 * k]) \in PairsOf(S)
  <2> SUFFICES ASSUME NEW k \in 1 .. n PROVE HashPair(s[2 * k - 1], s[2 * k]) \in PairsOf(S)
    OBVIOUS
  <2> DEFINE p == <<s[2 * k - 1], s[2 * k]>>
  <2>1. p \in S \X S /\ p[1] = s[2 * k - 1] /\ p[2] = s[2 * k]
    BY <1>2
  <2> HIDE DEF p
  <2> QED BY <2>1 DEF PairsOf
<1>4. HashPairs(s) = [k \in 1 .. n |-> HashPair(s[2 * k - 1], s[2 * k])]
  BY DEF HashPairs, n
<1>5. HashPairs(s) \in [1 .. n -> PairsOf(S)]
  BY <1>3, <1>4
<1>6. \A k \in 1 .. n : HashPairs(s)[k] = HashPair(s[2 * k - 1], s[2 * k])
  BY <1>4
<1>7. HashPairs(s) \in Seq(PairsOf(S)) /\ Len(HashPairs(s)) = n
  BY <1>1, <1>5
<1> QED BY <1>5, <1>6, <1>7 DEF n

LEMMA EvenedIs ==
    ASSUME NEW S, NEW s \in Seq(S), Len(s) > 0
    PROVE  /\ Evened(s) \in Seq(S)
           /\ Len(Evened(s)) = 2 * ((Len(s) + 1) \div 2)
           /\ Len(s) % 2 = 0 => Evened(s) = s
<1>1. Len(s) \in Nat /\ s[Len(s)] \in S
  OBVIOUS
<1>2. CASE Len(s) % 2 = 1
  <2>1. Evened(s) = Append(s, s[Len(s)])
    BY <1>2 DEF Evened, Last
  <2>2. Evened(s) \in Seq(S) /\ Len(Evened(s)) = Len(s) + 1
    BY <1>1, <2>1
  <2> QED BY <1>1, <1>2, <2>2
<1>3. CASE Len(s) % 2 # 1
  <2>1. Evened(s) = s
    BY <1>3 DEF Evened
  <2> QED BY <1>1, <1>3, <2>1
<1> QED BY <1>2, <1>3

------------------------------------------------------------------------------
(* Chunks *)

IsFlat(f, seqs) ==
    f = [i \in 1 .. Len(seqs) |-> IF i = 1 THEN seqs[i] ELSE f[i - 1] \o seqs[i]]

LEMMA FlattenUnfolds ==
    ASSUME NEW seqs, Len(seqs) # 0
    PROVE  FlattenSeq(seqs) = (CHOOSE f : IsFlat(f, seqs))[Len(seqs)]
BY DEF FlattenSeq, IsFlat

\* the end of the i-th piece of size digests of a sequence of m
PieceEnd(i, size, m) == IF i * size < m THEN i * size ELSE m

\* A sequence cut into pieces is put together again.
LEMMA FlattenPieces ==
    ASSUME NEW S, NEW s \in Seq(S), NEW size \in Nat, size > 0,
           NEW n \in Nat, n > 0, Len(s) <= n * size,
           NEW seqs, Len(seqs) = n,
           \A i \in 1 .. n : seqs[i] = SubSeq(s, PieceEnd(i - 1, size, Len(s)) + 1, PieceEnd(i, size, Len(s)))
    PROVE  FlattenSeq(seqs) = s
<1> DEFINE m == Len(s)
           End(i) == PieceEnd(i, size, m)
           g == [i \in 1 .. n |-> SubSeq(s, 1, End(i))]
           f == CHOOSE h : IsFlat(h, seqs)
           T == {i \in Nat : i \in 1 .. n => f[i] = g[i]}
<1>1. \A i \in Nat : i * size \in Nat /\ (i + 1) * size = i * size + size
  OBVIOUS
<1>2. m \in Nat
  OBVIOUS
<1>3. \A i \in Nat : End(i) \in 0 .. m /\ End(i) <= End(i + 1)
  BY <1>1, <1>2 DEF PieceEnd
<1>4. End(0) = 0 /\ End(n) = m
  BY <1>1, <1>2 DEF PieceEnd
<1>5. \A i \in 1 .. n : seqs[i] = SubSeq(s, End(i - 1) + 1, End(i))
  OBVIOUS
<1> HIDE DEF End
<1>6. \A i \in 1 .. n : g[i] = IF i = 1 THEN seqs[i] ELSE g[i - 1] \o seqs[i]
  <2> SUFFICES ASSUME NEW i \in 1 .. n PROVE g[i] = IF i = 1 THEN seqs[i] ELSE g[i - 1] \o seqs[i]
    OBVIOUS
  <2>1. CASE i = 1
    <3>1. i - 1 = 0 /\ 0 + 1 = 1
      BY <2>1
    <3>2. seqs[i] = SubSeq(s, End(i - 1) + 1, End(i))
      BY <1>5
    <3>3. seqs[i] = SubSeq(s, 1, End(i))
      BY <1>4, <3>1, <3>2
    <3> QED BY <2>1, <3>3
  <2>2. CASE i # 1
    <3>1. i - 1 \in 1 .. n /\ i - 1 \in Nat /\ (i - 1) + 1 = i
      BY <2>2
    <3>2. End(i - 1) \in 0 .. m /\ End(i) \in End(i - 1) .. m
      <4>1. End(i - 1) \in 0 .. m /\ End(i - 1) <= End((i - 1) + 1)
        BY <1>3, <3>1
      <4>2. End(i) \in 0 .. m
        <5>1. i \in Nat
          OBVIOUS
        <5> QED BY <1>3, <5>1
      <4> QED BY <1>2, <3>1, <4>1, <4>2
    <3>3. SubSeq(s, 1, End(i - 1)) \o SubSeq(s, End(i - 1) + 1, End(i)) = SubSeq(s, 1, End(i))
      <4>1. 1 \in 1 .. Len(s) + 1 /\ End(i - 1) \in 1 - 1 .. Len(s) /\ End(i) \in End(i - 1) .. Len(s)
        BY <1>2, <3>2
      <4> QED BY <4>1, ConcatAdjacentSubSeq
    <3> QED BY <1>5, <2>2, <3>1, <3>3
  <2> QED BY <2>1, <2>2
<1>7. IsFlat(g, seqs)
  <2> HIDE DEF g
  <2>1. g = [i \in 1 .. n |-> g[i]]
    BY DEF g
  <2>2. g = [i \in 1 .. n |-> IF i = 1 THEN seqs[i] ELSE g[i - 1] \o seqs[i]]
    BY <1>6, <2>1
  <2> QED BY <2>2 DEF IsFlat
<1>8. IsFlat(f, seqs)
  BY <1>7
<1> HIDE DEF f, g
<1>9. \A i \in 1 .. n : f[i] = IF i = 1 THEN seqs[i] ELSE f[i - 1] \o seqs[i]
  BY <1>8 DEF IsFlat
<1>10. 0 \in T
  OBVIOUS
<1>11. ASSUME NEW i \in Nat, i \in T PROVE i + 1 \in T
  <2> SUFFICES ASSUME i + 1 \in 1 .. n PROVE f[i + 1] = g[i + 1]
    OBVIOUS
  <2>1. CASE i = 0
    BY <1>6, <1>9, <2>1
  <2>2. CASE i # 0
    <3>1. i \in 1 .. n /\ (i + 1) - 1 = i /\ i + 1 # 1
      BY <2>2
    <3>2. f[i] = g[i]
      BY <1>11, <3>1
    <3>3. f[i + 1] = f[i] \o seqs[i + 1] /\ g[i + 1] = g[i] \o seqs[i + 1]
      BY <1>6, <1>9, <3>1
    <3> QED BY <3>2, <3>3
  <2> QED BY <2>1, <2>2
<1> HIDE DEF T
<1>12. n \in T
  BY <1>10, <1>11, CountingUp
<1>13. f[n] = g[n]
  BY <1>12 DEF T
<1>14. g[n] = s
  BY <1>4, SubSeqFull DEF g
<1>15. FlattenSeq(seqs) = f[n]
  BY FlattenUnfolds DEF f
<1> QED BY <1>13, <1>14, <1>15

LEMMA EvenPieces ==
    ASSUME NEW size \in Nat, size > 0, NEW m \in Nat, m > 0, NEW n \in Nat,
           n = (2 * m + 2 * size - 1) \div (2 * size)
    PROVE  /\ n > 0 /\ m <= n * size
           /\ \A i \in 1 .. n : (i - 1) * size < m
<1> DEFINE stride == 2 * size
           a == 2 * m + 2 * size - 1
<1>1. stride \in Nat /\ stride > 0 /\ a \in Nat
  OBVIOUS
<1>2. stride * n <= a /\ a < stride * n + stride
  <2> HIDE DEF stride, a
  <2>1. \A q \in Int : q = a \div stride => stride * q <= a /\ a < stride * q + stride
    BY <1>1
  <2> QED BY <2>1 DEF stride, a
<1>3. stride * n = 2 * (n * size) /\ n * size \in Nat
  OBVIOUS
<1>4. m <= n * size /\ n * size < m + size
  BY <1>2, <1>3
<1>5. n # 0
  BY <1>4
<1>6. ASSUME NEW i \in 1 .. n PROVE (i - 1) * size < m
  <2>1. (i - 1) * size \in Nat /\ (i - 1) * size <= (n - 1) * size
    OBVIOUS
  <2>2. (n - 1) * size = n * size - size
    OBVIOUS
  <2> QED BY <1>3, <1>4, <2>1, <2>2
<1> QED BY <1>4, <1>5, <1>6

\* Hashing the chunks of a level of even length one by one hashes its pairs.
LEMMA ChunksHashPairs ==
    ASSUME NEW S, NEW level \in Seq(S), NEW m \in Nat, m > 0, Len(level) = 2 * m,
           NEW size \in Nat, size > 0, NEW cut, cut = Cut(level, 2 * size)
    PROVE  FlattenSeq([i \in DOMAIN cut |-> HashChunk(cut[i])]) = HashPairs(level)
<1> DEFINE n == (2 * m + 2 * size - 1) \div (2 * size)
           End(i) == PieceEnd(i, size, m)
           pairs == HashPairs(level)
           seqs == [i \in DOMAIN cut |-> HashChunk(cut[i])]
<1>1. n \in Nat
  <2> DEFINE a == 2 * m + 2 * size - 1
             b == 2 * size
  <2>1. a \in Nat /\ b \in Nat /\ b > 0
    OBVIOUS
  <2> HIDE DEF a, b
  <2>2. a \div b \in Nat
    BY <2>1
  <2> QED BY <2>2 DEF a, b
<1>2. n > 0 /\ m <= n * size /\ \A i \in 1 .. n : (i - 1) * size < m
  <2> HIDE DEF n
  <2>1. n = (2 * m + 2 * size - 1) \div (2 * size)
    BY DEF n
  <2> QED BY <1>1, <2>1, EvenPieces
<1>3. cut = [i \in 1 .. n |->
                SubSeq(level, (i - 1) * (2 * size) + 1,
                       IF i * (2 * size) < Len(level) THEN i * (2 * size) ELSE Len(level))]
  BY DEF Cut
<1> HIDE DEF n
<1>4. (2 * m) \div 2 = m
  OBVIOUS
<1>5. /\ pairs \in Seq(PairsOf(S)) /\ Len(pairs) = m
      /\ \A k \in 1 .. m : pairs[k] = HashPair(level[2 * k - 1], level[2 * k])
  BY <1>4, PairsAre
<1>6. ASSUME NEW i \in 1 .. n
      PROVE  HashChunk(cut[i]) = SubSeq(pairs, End(i - 1) + 1, End(i))
  <2> DEFINE b == (i - 1) * size
             e == End(i)
             chunk == cut[i]
  <2>1. b \in Nat /\ i * size = b + size /\ b < m /\ (i - 1) * (2 * size) = 2 * b /\ i * (2 * size) = 2 * (i * size)
    BY <1>2
  <2>2. e \in Nat /\ b < e /\ e <= m /\ e = IF b + size < m THEN b + size ELSE m
    BY <2>1 DEF PieceEnd
  <2>3. End(i - 1) = b
    BY <2>1 DEF PieceEnd
  <2>4. chunk = SubSeq(level, 2 * b + 1, 2 * e)
    <3>1. (IF i * (2 * size) < Len(level) THEN i * (2 * size) ELSE Len(level)) = 2 * e
      BY <2>1, <2>2
    <3>2. chunk = SubSeq(level, (i - 1) * (2 * size) + 1, IF i * (2 * size) < Len(level) THEN i * (2 * size) ELSE Len(level))
      BY <1>3
    <3> HIDE DEF b, e
    <3> QED BY <2>1, <3>1, <3>2
  <2> HIDE DEF b, e, chunk
  <2>5. \A k \in 2 * b + 1 .. 2 * e : level[k] \in S
    BY <2>1, <2>2
  <2>6. /\ chunk \in Seq(S)
        /\ Len(chunk) = 2 * (e - b)
        /\ \A k \in 1 .. 2 * (e - b) : chunk[k] = level[2 * b + k]
    <3>1. 2 * b + 1 \in Int /\ 2 * e \in Int /\ 2 * e - (2 * b + 1) + 1 = 2 * (e - b) /\ 2 * b + 1 <= 2 * e
      BY <2>1, <2>2
    <3>2. /\ chunk \in Seq(S) /\ Len(chunk) = 2 * (e - b)
          /\ \A k \in 1 .. 2 * (e - b) : chunk[k] = level[2 * b + 1 + k - 1]
      BY <2>4, <2>5, <3>1, SubSeqProperties
    <3>3. \A k \in 1 .. 2 * (e - b) : 2 * b + 1 + k - 1 = 2 * b + k
      BY <2>1, <2>2
    <3> QED BY <3>2, <3>3
  <2>7. e - b \in Nat /\ e - b > 0
    BY <2>1, <2>2
  <2>8. Evened(chunk) = chunk
    BY <2>6, <2>7, EvenedIs
  <2>9. /\ HashChunk(chunk) \in Seq(PairsOf(S))
        /\ Len(HashChunk(chunk)) = e - b
        /\ \A k \in 1 .. e - b : HashChunk(chunk)[k] = HashPair(chunk[2 * k - 1], chunk[2 * k])
    <3>1. (2 * (e - b)) \div 2 = e - b
      BY <2>7
    <3> QED BY <2>6, <2>8, <3>1, PairsAre DEF HashChunk
  <2>10. /\ SubSeq(pairs, b + 1, e) \in Seq(PairsOf(S))
         /\ Len(SubSeq(pairs, b + 1, e)) = e - b
         /\ \A k \in 1 .. e - b : SubSeq(pairs, b + 1, e)[k] = pairs[b + k]
    <3>1. b + 1 \in Int /\ e \in Int /\ e - (b + 1) + 1 = e - b /\ b + 1 <= e
      BY <2>1, <2>2
    <3>2. \A k \in b + 1 .. e : pairs[k] \in PairsOf(S)
      <4>1. \A k \in b + 1 .. e : k \in 1 .. Len(pairs)
        BY <1>5, <2>1, <2>2
      <4> HIDE DEF pairs
      <4> QED BY <1>5, <4>1
    <3> HIDE DEF pairs
    <3>3. /\ SubSeq(pairs, b + 1, e) \in Seq(PairsOf(S)) /\ Len(SubSeq(pairs, b + 1, e)) = e - b
          /\ \A k \in 1 .. e - b : SubSeq(pairs, b + 1, e)[k] = pairs[b + 1 + k - 1]
      BY <3>1, <3>2, SubSeqProperties
    <3>4. \A k \in 1 .. e - b : b + 1 + k - 1 = b + k
      BY <2>1, <2>2
    <3> QED BY <3>3, <3>4
  <2>11. \A k \in 1 .. e - b : HashChunk(chunk)[k] = SubSeq(pairs, b + 1, e)[k]
    <3> SUFFICES ASSUME NEW k \in 1 .. e - b PROVE HashChunk(chunk)[k] = SubSeq(pairs, b + 1, e)[k]
      OBVIOUS
    <3>1. /\ 2 * k - 1 \in 1 .. 2 * (e - b) /\ 2 * k \in 1 .. 2 * (e - b) /\ b + k \in 1 .. m
          /\ 2 * b + (2 * k - 1) = 2 * (b + k) - 1 /\ 2 * b + 2 * k = 2 * (b + k)
      BY <2>1, <2>2
    <3>2. chunk[2 * k - 1] = level[2 * (b + k) - 1] /\ chunk[2 * k] = level[2 * (b + k)]
      BY <2>6, <3>1
    <3>3. HashChunk(chunk)[k] = HashPair(level[2 * (b + k) - 1], level[2 * (b + k)])
      BY <2>9, <3>2
    <3>4. pairs[b + k] = HashPair(level[2 * (b + k) - 1], level[2 * (b + k)])
      BY <1>5, <3>1
    <3> QED BY <2>10, <3>3, <3>4
  <2>12. HashChunk(chunk) = SubSeq(pairs, b + 1, e)
    BY <2>9, <2>10, <2>11, SeqEqual
  <2> QED BY <2>3, <2>12 DEF chunk, e
<1>7. DOMAIN cut = 1 .. n
  BY <1>3
<1>8. /\ \A i \in 1 .. n : seqs[i] = SubSeq(pairs, End(i - 1) + 1, End(i))
      /\ seqs = [i \in 1 .. n |-> seqs[i]]
  BY <1>6, <1>7
<1> HIDE DEF seqs, pairs
<1>9. Len(seqs) = n
  BY <1>1, <1>8
<1>10. FlattenSeq(seqs) = pairs
  <2>1. \A i \in 1 .. n : seqs[i] = SubSeq(pairs, PieceEnd(i - 1, size, Len(pairs)) + 1, PieceEnd(i, size, Len(pairs)))
    BY <1>5, <1>8
  <2>2. Len(pairs) <= n * size
    BY <1>2, <1>5
  <2>3. pairs \in Seq(PairsOf(S))
    BY <1>5
  <2> QED BY <1>1, <1>2, <1>9, <2>1, <2>2, <2>3, FlattenPieces
<1> QED BY <1>10 DEF seqs, pairs

\* A level: a sequence of digests, at least one
IsLevel(s) == \E S : s \in Seq(S) /\ Len(s) > 0

LEMMA LevelShrinks ==
    ASSUME NEW level, IsLevel(level)
    PROVE  /\ IsLevel(HashLevel(level))
           /\ Len(level) \in Nat /\ Len(HashLevel(level)) \in Nat
           /\ Len(HashLevel(level)) > 0
           /\ Len(level) > 1 => Len(HashLevel(level)) < Len(level)
           /\ Len(level) = 1 => HashLevel(level) = level
<1>1. PICK S : level \in Seq(S) /\ Len(level) > 0
  BY DEF IsLevel
<1>2. Len(level) \in Nat
  BY <1>1
<1>3. CASE Len(level) > 1
  <2> DEFINE e == Evened(level)
             h == (Len(level) + 1) \div 2
  <2>1. h \in Nat /\ h > 0 /\ h < Len(level) /\ (2 * h) \div 2 = h
    BY <1>2, <1>3
  <2>2. e \in Seq(S) /\ Len(e) = 2 * h
    BY <1>1, EvenedIs
  <2>3. HashLevel(level) = HashPairs(e)
    BY <1>3 DEF HashLevel
  <2> HIDE DEF e, h
  <2>4. HashLevel(level) \in Seq(PairsOf(S)) /\ Len(HashLevel(level)) = h
    BY <2>1, <2>2, <2>3, PairsAre
  <2> QED BY <1>2, <1>3, <2>1, <2>4 DEF IsLevel
<1>4. CASE ~ (Len(level) > 1)
  <2>1. HashLevel(level) = level
    BY <1>4 DEF HashLevel
  <2> QED BY <1>1, <1>2, <1>4, <2>1 DEF IsLevel
<1> QED BY <1>3, <1>4

LEMMA ChunksHashLevel ==
    ASSUME NEW level, IsLevel(level), NEW least \in Nat \ {0}, NEW workers \in Nat \ {0}
    PROVE  HashInChunks(level, least, workers) = HashLevel(level)
<1>1. PICK S : level \in Seq(S) /\ Len(level) > 0
  BY DEF IsLevel
<1>2. CASE Len(level) > 1
  <2> DEFINE e == Evened(level)
             m == (Len(level) + 1) \div 2
             size == ChunkSize(e, least, workers)
             cut == Cut(e, 2 * size)
  <2>1. m \in Nat /\ m > 0
    BY <1>1
  <2>2. e \in Seq(S) /\ Len(e) = 2 * m
    BY <1>1, EvenedIs
  <2>3. HashLevel(level) = HashPairs(e)
    BY <1>2 DEF HashLevel
  <2>4. HashInChunks(level, least, workers) = FlattenSeq([i \in DOMAIN cut |-> HashChunk(cut[i])])
    BY <1>2 DEF HashInChunks, Chunks
  <2> HIDE DEF e, m
  <2>5. size \in Nat /\ size > 0
    <3> DEFINE w == 2 * workers
    <3>1. w \in Nat /\ w > 0
      OBVIOUS
    <3> HIDE DEF w
    <3>2. Len(e) \div w \in Nat
      BY <2>1, <2>2, <3>1
    <3> QED BY <3>2 DEF ChunkSize, w
  <2> HIDE DEF size, cut
  <2>6. cut = Cut(e, 2 * size)
    BY DEF cut
  <2>7. FlattenSeq([i \in DOMAIN cut |-> HashChunk(cut[i])]) = HashPairs(e)
    BY <2>1, <2>2, <2>5, <2>6, ChunksHashPairs
  <2> QED BY <2>3, <2>4, <2>7
<1>3. CASE ~ (Len(level) > 1)
  BY <1>3 DEF HashInChunks, HashLevel
<1> QED BY <1>2, <1>3

------------------------------------------------------------------------------
(* Roots *)

\* f is what the loop of _compute_root_sequential computes in n rounds
IsRun(f, leaves, n) == f = [k \in 0 .. n |-> IF k = 0 THEN leaves ELSE HashLevel(f[k - 1])]

\* and the loop of _compute_root_parallel
IsParallelRun(f, leaves, n, least, workers) ==
    f = [k \in 0 .. n |-> IF k = 0 THEN leaves ELSE HashInChunks(f[k - 1], least, workers)]

LEMMA RootUnfolds ==
    ASSUME NEW leaves, NEW least, NEW workers, NEW n, n = Len(leaves)
    PROVE  /\ ComputeRootSequential(leaves) = (CHOOSE f : IsRun(f, leaves, n))[n][1]
           /\ ComputeRootParallel(leaves, least, workers) =
                 (CHOOSE f : IsParallelRun(f, leaves, n, least, workers))[n][1]
BY DEF ComputeRootSequential, ComputeRootParallel, IsRun, IsParallelRun

LEMMA RunExists ==
    ASSUME NEW leaves, NEW n \in Nat
    PROVE  \E f : IsRun(f, leaves, n)
<1> DEFINE T == {m \in Nat : \E f : IsRun(f, leaves, m)}
<1>1. 0 \in T
  <2> DEFINE f == [k \in 0 .. 0 |-> leaves]
  <2>1. IsRun(f, leaves, 0)
    BY DEF IsRun
  <2> QED BY <2>1
<1>2. ASSUME NEW m \in Nat, m \in T PROVE m + 1 \in T
  <2>1. PICK f : IsRun(f, leaves, m)
    BY <1>2
  <2> DEFINE g == [k \in 0 .. m + 1 |-> IF k <= m THEN f[k] ELSE HashLevel(f[m])]
  <2>2. \A k \in 0 .. m + 1 : g[k] = IF k = 0 THEN leaves ELSE HashLevel(g[k - 1])
    BY <2>1 DEF IsRun
  <2> HIDE DEF g
  <2>3. g = [k \in 0 .. m + 1 |-> g[k]]
    BY DEF g
  <2>4. g = [k \in 0 .. m + 1 |-> IF k = 0 THEN leaves ELSE HashLevel(g[k - 1])]
    BY <2>2, <2>3
  <2> QED BY <2>4 DEF IsRun
<1> HIDE DEF T
<1>3. n \in T
  BY <1>1, <1>2, CountingUp
<1> QED BY <1>3 DEF T

\* Every round leaves a level, and one digest is left in the end.
LEMMA RunEnds ==
    ASSUME NEW leaves, IsLevel(leaves), NEW n, n = Len(leaves), NEW f, IsRun(f, leaves, n)
    PROVE  /\ \A k \in 0 .. n : IsLevel(f[k])
           /\ Len(f[n]) = 1
           /\ n = 1 => f[n] = leaves
<1> DEFINE size(k) == Len(f[k])
           T == {k \in Nat : k <= n => /\ IsLevel(f[k])
                                       /\ size(k) \in Nat /\ size(k) > 0
                                       /\ size(k) > 1 => size(k) + k <= n}
<1>1. n \in Nat /\ n > 0
  BY DEF IsLevel
<1>2. f[0] = leaves /\ \A k \in 1 .. n : f[k] = HashLevel(f[k - 1])
  BY <1>1 DEF IsRun
<1>3. size(0) = n
  BY <1>2
<1>4. 0 \in T
  <2> HIDE DEF size
  <2> QED BY <1>1, <1>2, <1>3
<1>5. ASSUME NEW k \in Nat, k \in T PROVE k + 1 \in T
  <2>1. ASSUME k + 1 <= n PROVE k + 1 \in 1 .. n /\ (k + 1) - 1 = k /\ k <= n
    BY <1>1, <2>1
  <2>2. ASSUME k + 1 <= n PROVE f[k + 1] = HashLevel(f[k])
    BY <1>2, <2>1, <2>2
  <2>3. ASSUME k + 1 <= n
        PROVE  /\ IsLevel(f[k + 1]) /\ size(k + 1) \in Nat /\ size(k + 1) > 0
               /\ size(k) > 1 => size(k + 1) < size(k)
               /\ size(k) = 1 => size(k + 1) = size(k)
               /\ size(k) \in Nat /\ size(k) > 0 /\ (size(k) > 1 => size(k) + k <= n)
    <3>1. IsLevel(f[k]) /\ size(k) \in Nat /\ size(k) > 0 /\ (size(k) > 1 => size(k) + k <= n)
      BY <1>5, <2>1, <2>3
    <3> QED BY <2>2, <2>3, <3>1, LevelShrinks
  <2> HIDE DEF size
  <2> QED BY <1>1, <2>3
<1> HIDE DEF T
<1>6. \A k \in Nat : k \in T
  BY <1>4, <1>5, CountingUp
<1>7. (\A k \in 0 .. n : IsLevel(f[k])) /\ Len(f[n]) = 1
  <2>1. \A k \in 0 .. n : IsLevel(f[k])
    BY <1>1, <1>6 DEF T
  <2>2. size(n) \in Nat /\ size(n) > 0 /\ (size(n) > 1 => size(n) + n <= n)
    BY <1>1, <1>6 DEF T
  <2> HIDE DEF size
  <2>3. size(n) = 1
    BY <1>1, <2>2
  <2> QED BY <2>1, <2>3 DEF size
<1>8. ASSUME n = 1 PROVE f[n] = leaves
  <2>1. f[1] = HashLevel(leaves)
    BY <1>2, <1>8
  <2> QED BY <1>8, <2>1, LevelShrinks
<1> QED BY <1>7, <1>8

LEMMA RunUnique ==
    ASSUME NEW leaves, NEW n \in Nat, NEW least, NEW workers,
           NEW f, IsParallelRun(f, leaves, n, least, workers),
           NEW g, IsParallelRun(g, leaves, n, least, workers)
    PROVE  f[n] = g[n]
<1> DEFINE T == {k \in Nat : k <= n => f[k] = g[k]}
<1>1. 0 \in T
  BY DEF IsParallelRun
<1>2. ASSUME NEW k \in Nat, k \in T PROVE k + 1 \in T
  BY <1>2 DEF IsParallelRun
<1> HIDE DEF T
<1>3. n \in T
  BY <1>1, <1>2, CountingUp
<1> QED BY <1>3 DEF T

\* For every level and every number of workers the chunks make no difference.
LEMMA SameRoot ==
    ASSUME NEW leaves, IsLevel(leaves), NEW least \in Nat \ {0}, NEW workers \in Nat \ {0}
    PROVE  ComputeRoot(leaves, least, workers) = ComputeRootSequential(leaves)
<1> DEFINE n == Len(leaves)
           f == CHOOSE h : IsRun(h, leaves, n)
           g == CHOOSE h : IsParallelRun(h, leaves, n, least, workers)
<1>1. n \in Nat
  BY DEF IsLevel
<1>2. IsRun(f, leaves, n)
  BY <1>1, RunExists
<1> HIDE DEF f
<1>3. (\A k \in 0 .. n : IsLevel(f[k])) /\ (n = 1 => f[n] = leaves)
  BY <1>2, RunEnds
<1>4. IsParallelRun(f, leaves, n, least, workers)
  <2>1. \A k \in 0 .. n : k # 0 => HashInChunks(f[k - 1], least, workers) = HashLevel(f[k - 1])
    BY <1>1, <1>3, ChunksHashLevel
  <2>2. f = [k \in 0 .. n |-> IF k = 0 THEN leaves ELSE HashLevel(f[k - 1])]
    BY <1>2 DEF IsRun
  <2> HIDE DEF n
  <2>3. f = [k \in 0 .. n |-> IF k = 0 THEN leaves ELSE HashInChunks(f[k - 1], least, workers)]
    BY <2>1, <2>2
  <2> QED BY <2>3 DEF IsParallelRun
<1>5. IsParallelRun(g, leaves, n, least, workers)
  BY <1>4
<1> HIDE DEF g
<1>6. f[n] = g[n]
  BY <1>1, <1>4, <1>5, RunUnique
<1>7. ComputeRootSequential(leaves) = f[n][1] /\ ComputeRootParallel(leaves, least, workers) = g[n][1]
  BY RootUnfolds DEF f, g
<1> QED BY <1>3, <1>6, <1>7 DEF ComputeRoot

------------------------------------------------------------------------------
(* The tree *)

LEMMA PowerExceeds ==
    ASSUME NEW n \in Nat PROVE n < Power(2, n)
<1> DEFINE T == {m \in Nat : m < Power(2, m)}
<1>1. 0 \in T
  BY PowerIs
<1>2. ASSUME NEW m \in Nat, m \in T PROVE m + 1 \in T
  <2>1. Power(2, m) \in Nat /\ Power(2, m + 1) = 2 * Power(2, m)
    BY PowerIs
  <2> QED BY <1>2, <2>1
<1> HIDE DEF T
<1>3. n \in T
  BY <1>1, <1>2, CountingUp
<1> QED BY <1>3 DEF T

\* The padded tree has room for the leaves and fewer levels above them than leaves.
LEMMA HeightIs ==
    ASSUME NEW n \in Nat, n > 0
    PROVE  BitLength(n - 1) \in 0 .. n - 1 /\ n <= Power(2, BitLength(n - 1))
<1> DEFINE m == n - 1
           Fits(k) == m < Power(2, k) /\ \A j \in 0 .. k - 1 : Power(2, j) <= m
           T == {k \in Nat : m < Power(2, k)}
<1>1. m \in Nat /\ \A k \in Nat : Power(2, k) \in Nat
  BY PowerIs
<1> HIDE DEF m
<1>2. m \in T /\ T \in SUBSET Nat
  BY <1>1, PowerExceeds
<1> HIDE DEF T
<1>3. PICK k \in T : \A j \in T : k <= j
  BY <1>2, LeastNumber
<1>4. k \in 0 .. m /\ Fits(k)
  <2>1. k \in Nat /\ m < Power(2, k) /\ k <= m
    BY <1>2, <1>3 DEF T
  <2>2. ASSUME NEW j \in 0 .. k - 1 PROVE Power(2, j) <= m
    <3>1. j \in Nat /\ ~ (k <= j) /\ Power(2, j) \in Nat
      BY <1>1, <2>1
    <3>2. ~ (m < Power(2, j))
      BY <1>3, <3>1 DEF T
    <3> QED BY <1>1, <3>1, <3>2
  <2> QED BY <1>1, <2>1, <2>2
<1>5. BitLength(m) = CHOOSE e \in 0 .. m : Fits(e)
  BY DEF BitLength
<1> HIDE DEF Fits
<1>6. BitLength(m) \in 0 .. m /\ Fits(BitLength(m))
  BY <1>4, <1>5
<1>7. m < Power(2, BitLength(m)) /\ Power(2, BitLength(m)) \in Nat
  BY <1>1, <1>6 DEF Fits
<1>8. m = n - 1
  BY DEF m
<1> QED BY <1>6, <1>7, <1>8

\* f[k] is the level k above the leaves of a tree of height h over 2^h digests
IsTree(f, digests, h) ==
    /\ f[0] = digests
    /\ \A k \in 0 .. h : IsLevel(f[k]) /\ Len(f[k]) = Power(2, h - k)
    /\ \A k \in 0 .. h - 1 : f[k + 1] = HashPairs(f[k])
    /\ \A k \in 0 .. h - 1 : \A i \in 1 .. Power(2, h - (k + 1)) :
          f[k + 1][i] = HashPair(f[k][2 * i - 1], f[k][2 * i])

LEMMA TreeExists ==
    ASSUME NEW digests, NEW h \in Nat, IsLevel(digests), Len(digests) = Power(2, h)
    PROVE  \E f : IsTree(f, digests, h)
<1>1. PICK f : IsRun(f, digests, h)
  BY RunExists
<1> DEFINE T == {k \in Nat : k <= h => IsLevel(f[k]) /\ Len(f[k]) = Power(2, h - k)}
<1>2. f[0] = digests /\ \A k \in 0 .. h - 1 : f[k + 1] = HashLevel(f[k])
  <2>1. \A k \in 0 .. h - 1 : k + 1 \in 0 .. h /\ k + 1 # 0 /\ (k + 1) - 1 = k
    OBVIOUS
  <2>2. f[0] = digests /\ \A k \in 0 .. h : k # 0 => f[k] = HashLevel(f[k - 1])
    BY <1>1 DEF IsRun
  <2> QED BY <2>1, <2>2
\* a level of even length is hashed pair by pair
<1>3. ASSUME NEW k \in 0 .. h - 1, IsLevel(f[k]), Len(f[k]) = Power(2, h - k)
      PROVE  /\ f[k + 1] = HashPairs(f[k]) /\ IsLevel(f[k + 1])
             /\ Len(f[k + 1]) = Power(2, h - (k + 1))
             /\ \A i \in 1 .. Power(2, h - (k + 1)) :
                   f[k + 1][i] = HashPair(f[k][2 * i - 1], f[k][2 * i])
  <2> DEFINE p == Power(2, h - (k + 1))
             level == f[k]
  <2>1. h - (k + 1) \in Nat /\ h - k = (h - (k + 1)) + 1
    OBVIOUS
  <2>2. p \in Nat /\ p > 0 /\ Power(2, h - k) = 2 * p
    <3> DEFINE q == h - (k + 1)
    <3> HIDE DEF q
    <3>1. q \in Nat /\ h - k = q + 1 /\ q = h - (k + 1)
      BY <2>1 DEF q
    <3>2. Power(2, q + 1) = 2 * Power(2, q) /\ Power(2, q) \in Nat
      BY <3>1, PowerIs
    <3>3. Power(2, q) > 0
      BY <3>1, PowerPositive
    <3> QED BY <3>1, <3>2, <3>3
  <2>3. PICK S : level \in Seq(S) /\ Len(level) > 0
    BY <1>3 DEF IsLevel
  <2> HIDE DEF p
  <2>4. Len(level) = 2 * p /\ Len(level) > 1 /\ Len(level) % 2 = 0 /\ (2 * p) \div 2 = p
    BY <1>3, <2>2
  <2>5. f[k + 1] = HashLevel(level)
    BY <1>2
  <2> HIDE DEF level
  <2>6. Evened(level) = level
    BY <2>3, <2>4, EvenedIs
  <2>7. f[k + 1] = HashPairs(level)
    BY <2>4, <2>5, <2>6 DEF HashLevel
  <2>8. /\ HashPairs(level) \in Seq(PairsOf(S)) /\ Len(HashPairs(level)) = p
        /\ \A i \in 1 .. p : HashPairs(level)[i] = HashPair(level[2 * i - 1], level[2 * i])
    BY <2>3, <2>4, PairsAre
  <2>9. IsLevel(f[k + 1])
    BY <2>2, <2>7, <2>8 DEF IsLevel
  <2> QED BY <2>7, <2>8, <2>9 DEF p, level
<1>4. 0 \in T
  BY <1>2
<1>5. ASSUME NEW k \in Nat, k \in T PROVE k + 1 \in T
  BY <1>3, <1>5
<1> HIDE DEF T
<1>6. \A k \in Nat : k \in T
  BY <1>4, <1>5, CountingUp
<1>7. \A k \in 0 .. h : IsLevel(f[k]) /\ Len(f[k]) = Power(2, h - k)
  BY <1>6 DEF T
<1>8. \A k \in 0 .. h - 1 : /\ f[k + 1] = HashPairs(f[k])
                            /\ \A i \in 1 .. Power(2, h - (k + 1)) :
                                  f[k + 1][i] = HashPair(f[k][2 * i - 1], f[k][2 * i])
  <2>1. ASSUME NEW k \in 0 .. h - 1 PROVE IsLevel(f[k]) /\ Len(f[k]) = Power(2, h - k)
    BY <1>7
  <2>2. ASSUME NEW k \in 0 .. h - 1
        PROVE  /\ f[k + 1] = HashPairs(f[k])
               /\ \A i \in 1 .. Power(2, h - (k + 1)) :
                     f[k + 1][i] = HashPair(f[k][2 * i - 1], f[k][2 * i])
    BY <1>3, <2>1
  <2> QED BY <2>2
<1> QED BY <1>2, <1>7, <1>8 DEF IsTree

\* t is what the loop of _build_tree computes in n rounds
IsBuilt(t, leaves, n) == t = [k \in 0 .. n |-> IF k = 0 THEN <<Padded(leaves)>> ELSE NextLevel(t[k - 1])]

LEMMA BuildUnfolds ==
    ASSUME NEW leaves, NEW n, n = Len(leaves)
    PROVE  BuildTree(leaves) = (CHOOSE t : IsBuilt(t, leaves, n))[n]
BY DEF BuildTree, IsBuilt

\* the levels 0 .. k of f
UpToLevel(f, k) == [j \in 1 .. k + 1 |-> f[j - 1]]

LEMMA GrowTree ==
    ASSUME NEW f, NEW k \in Nat
    PROVE  /\ Len(UpToLevel(f, k)) = k + 1
           /\ Last(UpToLevel(f, k)) = f[k]
           /\ Append(UpToLevel(f, k), f[k + 1]) = UpToLevel(f, k + 1)
<1> DEFINE S == {f[j] : j \in 0 .. k + 1}
           s == UpToLevel(f, k)
           t == UpToLevel(f, k + 1)
<1>1. \A j \in 1 .. k + 2 : j - 1 \in 0 .. k + 1
  OBVIOUS
<1>2. s \in [1 .. k + 1 -> S] /\ t \in [1 .. k + 2 -> S] /\ f[k + 1] \in S
  BY <1>1 DEF UpToLevel
<1>3. /\ \A j \in 1 .. k + 1 : s[j] = f[j - 1] /\ t[j] = f[j - 1]
      /\ t[k + 2] = f[k + 1]
  BY DEF UpToLevel
<1> HIDE DEF s, t, S
<1>4. s \in Seq(S) /\ t \in Seq(S) /\ Len(s) = k + 1 /\ Len(t) = k + 2
  BY <1>2
<1>5. Last(s) = f[k]
  <2>1. k + 1 \in 1 .. k + 1 /\ (k + 1) - 1 = k
    OBVIOUS
  <2> QED BY <1>3, <1>4, <2>1 DEF Last
<1>6. Append(s, f[k + 1]) = t
  <2> DEFINE a == Append(s, f[k + 1])
  <2>1. /\ a \in Seq(S) /\ Len(a) = k + 2 /\ a[k + 2] = f[k + 1]
        /\ \A j \in 1 .. k + 1 : a[j] = s[j]
    BY <1>2, <1>4
  <2>2. \A j \in 1 .. k + 2 : a[j] = t[j]
    <3> SUFFICES ASSUME NEW j \in 1 .. k + 2 PROVE a[j] = t[j]
      OBVIOUS
    <3>1. CASE j = k + 2
      BY <1>3, <2>1, <3>1
    <3>2. CASE j # k + 2
      <4>1. j \in 1 .. k + 1
        BY <3>2
      <4> QED BY <1>3, <2>1, <4>1
    <3> QED BY <3>1, <3>2
  <2> HIDE DEF a
  <2>3. a = t
    BY <1>4, <2>1, <2>2, SeqEqual
  <2> QED BY <2>3 DEF a
<1> QED BY <1>4, <1>5, <1>6 DEF s, t

\* The leaves and the pads are the lowest level of a tree.
LEMMA PaddedIs ==
    ASSUME NEW S, NEW leaves \in Seq(S), NEW n, n = Len(leaves), n > 0,
           NEW h, h = BitLength(n - 1)
    PROVE  /\ n \in Nat /\ h \in Nat /\ h < n
           /\ IsLevel(Padded(leaves)) /\ Len(Padded(leaves)) = Power(2, h)
           /\ \A i \in 1 .. n : i \in 1 .. Power(2, h) /\ Padded(leaves)[i] = HashLeaf(leaves[i])
<1>1. n \in Nat
  OBVIOUS
<1>2. h \in 0 .. n - 1 /\ n <= Power(2, h)
  BY <1>1, HeightIs
<1>3. Power(2, h) \in Nat
  BY <1>1, <1>2, PowerIs
<1> DEFINE m == Power(2, h)
           D == {HashLeaf(leaves[i]) : i \in 1 .. n} \cup {HashPad}
<1>4. Padded(leaves) = [i \in 1 .. m |-> IF i <= n THEN HashLeaf(leaves[i]) ELSE HashPad]
  BY DEF Padded, NextPow2
<1> HIDE DEF m
<1>5. m \in Nat /\ n <= m
  BY <1>2, <1>3 DEF m
<1>6. Padded(leaves) \in [1 .. m -> D]
  BY <1>1, <1>4, <1>5
<1> HIDE DEF D
<1>7. Padded(leaves) \in Seq(D) /\ Len(Padded(leaves)) = m
  BY <1>5, <1>6
<1>8. IsLevel(Padded(leaves))
  BY <1>1, <1>5, <1>7 DEF IsLevel
<1>9. \A i \in 1 .. n : i \in 1 .. m /\ Padded(leaves)[i] = HashLeaf(leaves[i])
  BY <1>1, <1>4, <1>5
<1> QED BY <1>1, <1>2, <1>7, <1>8, <1>9 DEF m

\* _build_tree stops with the level of one digest.
LEMMA TreeIs ==
    ASSUME NEW S, NEW leaves \in Seq(S), NEW n, n = Len(leaves), n > 0,
           NEW h, h = BitLength(n - 1), NEW f, IsTree(f, Padded(leaves), h)
    PROVE  BuildTree(leaves) = UpToLevel(f, h)
<1>1. n \in Nat /\ h \in Nat /\ h < n
  BY PaddedIs
<1> DEFINE least(k) == IF k <= h THEN k ELSE h
           t == [k \in 0 .. n |-> UpToLevel(f, least(k))]
\* below the top there is more than one digest
<1>2. ASSUME NEW k \in 0 .. h PROVE Len(f[k]) > 1 <=> k < h
  <2>1. Len(f[k]) = Power(2, h - k)
    BY DEF IsTree
  <2>2. CASE k = h
    BY <1>1, <2>1, <2>2, PowerIs
  <2>3. CASE k < h
    <3> DEFINE q == h - (k + 1)
    <3> HIDE DEF q
    <3>1. q \in Nat /\ h - k = q + 1
      BY <1>1, <2>3 DEF q
    <3>2. Power(2, q + 1) = 2 * Power(2, q) /\ Power(2, q) \in Nat
      BY <3>1, PowerIs
    <3>3. Power(2, q) > 0
      BY <3>1, PowerPositive
    <3> QED BY <2>1, <2>3, <3>1, <3>2, <3>3
  <2> QED BY <1>1, <2>2, <2>3
<1>3. ASSUME NEW k \in 0 .. h
      PROVE  NextLevel(UpToLevel(f, k)) = UpToLevel(f, IF k < h THEN k + 1 ELSE k)
  <2>1. Last(UpToLevel(f, k)) = f[k] /\ Append(UpToLevel(f, k), f[k + 1]) = UpToLevel(f, k + 1)
    <3>1. k \in Nat
      BY <1>1
    <3> QED BY <3>1, GrowTree
  <2>2. CASE k < h
    <3>1. f[k + 1] = HashPairs(f[k])
      BY <1>1, <2>2 DEF IsTree
    <3> QED BY <1>2, <2>1, <2>2, <3>1 DEF NextLevel
  <2>3. CASE ~ (k < h)
    BY <1>2, <2>1, <2>3 DEF NextLevel
  <2> QED BY <2>2, <2>3
<1>4. UpToLevel(f, 0) = <<Padded(leaves)>>
  BY DEF UpToLevel, IsTree
<1>5. \A k \in 0 .. n : k # 0 => /\ k - 1 \in 0 .. n /\ least(k - 1) \in 0 .. h
                                /\ least(k) = IF least(k - 1) < h THEN least(k - 1) + 1 ELSE least(k - 1)
  BY <1>1
<1>6. least(0) = 0 /\ least(n) = h
  BY <1>1
<1> HIDE DEF least
<1>7. \A k \in 0 .. n : t[k] = IF k = 0 THEN <<Padded(leaves)>> ELSE NextLevel(t[k - 1])
  <2> SUFFICES ASSUME NEW k \in 0 .. n
               PROVE  t[k] = IF k = 0 THEN <<Padded(leaves)>> ELSE NextLevel(t[k - 1])
    OBVIOUS
  <2>1. CASE k = 0
    BY <1>4, <1>6, <2>1
  <2>2. CASE k # 0
    <3>1. t[k] = UpToLevel(f, least(k)) /\ t[k - 1] = UpToLevel(f, least(k - 1))
      BY <1>5, <2>2
    <3> QED BY <1>3, <1>5, <2>2, <3>1
  <2> QED BY <2>1, <2>2
<1>8. t = [k \in 0 .. n |-> t[k]]
  OBVIOUS
<1>9. t[n] = UpToLevel(f, h)
  BY <1>1, <1>6
<1> HIDE DEF t
<1>10. IsBuilt(t, leaves, n)
  <2>1. t = [k \in 0 .. n |-> IF k = 0 THEN <<Padded(leaves)>> ELSE NextLevel(t[k - 1])]
    BY <1>7, <1>8
  <2> QED BY <2>1 DEF IsBuilt
<1> DEFINE u == CHOOSE g : IsBuilt(g, leaves, n)
<1>11. IsBuilt(u, leaves, n)
  BY <1>10
<1>12. BuildTree(leaves) = u[n]
  BY BuildUnfolds
<1> HIDE DEF u
<1> DEFINE T == {k \in Nat : k <= n => u[k] = t[k]}
<1>13. 0 \in T
  BY <1>1, <1>10, <1>11 DEF IsBuilt
<1>14. ASSUME NEW k \in Nat, k \in T PROVE k + 1 \in T
  <2> SUFFICES ASSUME k + 1 <= n PROVE u[k + 1] = t[k + 1]
    OBVIOUS
  <2>1. k <= n /\ k + 1 \in 0 .. n /\ k + 1 # 0 /\ (k + 1) - 1 = k
    BY <1>1
  <2>2. u[k] = t[k]
    BY <1>14, <2>1
  <2>3. u[k + 1] = NextLevel(u[k]) /\ t[k + 1] = NextLevel(t[k])
    BY <1>10, <1>11, <2>1 DEF IsBuilt
  <2> QED BY <2>2, <2>3
<1> HIDE DEF T
<1>15. n \in T
  BY <1>1, <1>13, <1>14, CountingUp
<1>16. u[n] = t[n]
  BY <1>1, <1>15 DEF T
<1> QED BY <1>9, <1>12, <1>16

------------------------------------------------------------------------------
(* The root *)

\* r[k][low] is the root of the subtree of height k over the digests from low on
IsRoots(r, digests, h) ==
    r = [k \in 0 .. h |->
            [low \in Nat |-> IF k = 0 THEN digests[low + 1]
                             ELSE HashPair(r[k - 1][low], r[k - 1][low + Power(2, k - 1)])]]

LEMMA RootOfUnfolds ==
    ASSUME NEW digests, NEW h
    PROVE  RootOf(digests, h) = (CHOOSE r : IsRoots(r, digests, h))[h][0]
BY DEF RootOf, IsRoots

LEMMA RootsExist ==
    ASSUME NEW digests, NEW h \in Nat
    PROVE  \E r : IsRoots(r, digests, h)
<1> DEFINE up(k, x) == [low \in Nat |-> HashPair(x[low], x[low + Power(2, k - 1)])]
           leaf == [low \in Nat |-> digests[low + 1]]
           T == {m \in Nat : \E r : r = [k \in 0 .. m |-> IF k = 0 THEN leaf ELSE up(k, r[k - 1])]}
<1> HIDE DEF up, leaf
<1>1. 0 \in T
  <2> DEFINE r == [k \in 0 .. 0 |-> leaf]
  <2>1. r = [k \in 0 .. 0 |-> IF k = 0 THEN leaf ELSE up(k, r[k - 1])]
    OBVIOUS
  <2> QED BY <2>1
<1>2. ASSUME NEW m \in Nat, m \in T PROVE m + 1 \in T
  <2>1. PICK r : r = [k \in 0 .. m |-> IF k = 0 THEN leaf ELSE up(k, r[k - 1])]
    BY <1>2
  <2> DEFINE g == [k \in 0 .. m + 1 |-> IF k <= m THEN r[k] ELSE up(m + 1, r[m])]
  <2>2. \A k \in 0 .. m + 1 : g[k] = IF k = 0 THEN leaf ELSE up(k, g[k - 1])
    BY <2>1
  <2>3. g = [k \in 0 .. m + 1 |-> g[k]]
    OBVIOUS
  <2> HIDE DEF g
  <2>4. g = [k \in 0 .. m + 1 |-> IF k = 0 THEN leaf ELSE up(k, g[k - 1])]
    BY <2>2, <2>3
  <2> QED BY <2>4
<1> HIDE DEF T
<1>3. h \in T
  BY <1>1, <1>2, CountingUp
<1>4. PICK r : r = [k \in 0 .. h |-> IF k = 0 THEN leaf ELSE up(k, r[k - 1])]
  BY <1>3 DEF T
<1>5. \A k \in 0 .. h :
        (IF k = 0 THEN leaf ELSE up(k, r[k - 1])) =
        [low \in Nat |-> IF k = 0 THEN digests[low + 1]
                         ELSE HashPair(r[k - 1][low], r[k - 1][low + Power(2, k - 1)])]
  BY DEF up, leaf
<1>6. IsRoots(r, digests, h)
  BY <1>4, <1>5 DEF IsRoots
<1> QED BY <1>6

\* The levels of a tree are the roots of its subtrees.
LEMMA LevelsAreRoots ==
    ASSUME NEW digests, NEW h \in Nat, NEW f, IsTree(f, digests, h)
    PROVE  f[h][1] = RootOf(digests, h)
<1> DEFINE r == CHOOSE x : IsRoots(x, digests, h)
<1>1. IsRoots(r, digests, h)
  BY RootsExist
<1>2. RootOf(digests, h) = r[h][0]
  BY RootOfUnfolds
<1> HIDE DEF r
<1>3. \A k \in Nat : Power(2, k) \in Nat /\ Power(2, k + 1) = 2 * Power(2, k)
  BY PowerIs
<1>4. f[0] = digests /\ \A k \in 0 .. h - 1 : \A i \in 1 .. Power(2, h - (k + 1)) :
          f[k + 1][i] = HashPair(f[k][2 * i - 1], f[k][2 * i])
  BY DEF IsTree
<1>5. /\ \A low \in Nat : r[0][low] = digests[low + 1]
      /\ \A k \in 0 .. h - 1 : \A low \in Nat :
            r[k + 1][low] = HashPair(r[k][low], r[k][low + Power(2, k)])
  <2>1. 0 \in 0 .. h /\ \A k \in 0 .. h - 1 : k + 1 \in 0 .. h /\ k + 1 # 0 /\ (k + 1) - 1 = k
    OBVIOUS
  <2>2. \A k \in 0 .. h : r[k] = [low \in Nat |-> IF k = 0 THEN digests[low + 1]
                                   ELSE HashPair(r[k - 1][low], r[k - 1][low + Power(2, k - 1)])]
    BY <1>1 DEF IsRoots
  <2>3. \A low \in Nat : r[0][low] = digests[low + 1]
    <3>1. r[0] = [low \in Nat |-> digests[low + 1]]
      BY <2>1, <2>2
    <3> QED BY <3>1
  <2>4. ASSUME NEW k \in 0 .. h - 1, NEW low \in Nat
        PROVE  r[k + 1][low] = HashPair(r[k][low], r[k][low + Power(2, k)])
    <3>1. r[k + 1] = [j \in Nat |-> HashPair(r[k][j], r[k][j + Power(2, k)])]
      BY <2>1, <2>2
    <3> QED BY <3>1
  <2> QED BY <2>3, <2>4
<1> DEFINE T == {k \in Nat : k <= h => \A i \in 1 .. Power(2, h - k) : f[k][i] = r[k][(i - 1) * Power(2, k)]}
<1>6. 0 \in T
  <2> SUFFICES ASSUME NEW i \in 1 .. Power(2, h) PROVE f[0][i] = r[0][(i - 1) * Power(2, 0)]
    OBVIOUS
  <2>1. Power(2, 0) = 1
    BY PowerIs
  <2>2. (i - 1) * Power(2, 0) = i - 1 /\ i - 1 \in Nat /\ (i - 1) + 1 = i
    BY <1>3, <2>1
  <2> QED BY <1>4, <1>5, <2>2
<1>7. ASSUME NEW k \in Nat, k \in T PROVE k + 1 \in T
  <2> SUFFICES ASSUME k + 1 <= h, NEW i \in 1 .. Power(2, h - (k + 1))
               PROVE  f[k + 1][i] = r[k + 1][(i - 1) * Power(2, k + 1)]
    OBVIOUS
  <2>1. k \in 0 .. h - 1 /\ h - (k + 1) \in Nat /\ (h - (k + 1)) + 1 = h - k
    OBVIOUS
  <2> DEFINE m == Power(2, h - (k + 1))
             p == Power(2, k)
             low == (2 * i - 2) * p
  <2>2. m \in Nat /\ Power(2, h - k) = 2 * m /\ p \in Nat /\ Power(2, k + 1) = 2 * p
    BY <1>3, <2>1
  <2>3. f[k + 1][i] = HashPair(f[k][2 * i - 1], f[k][2 * i])
    BY <1>4, <2>1
  <2>4. \A j \in 1 .. 2 * m : f[k][j] = r[k][(j - 1) * p]
    BY <1>7, <2>2
  <2>5. i \in 1 .. m
    OBVIOUS
  <2> HIDE DEF m, p
  <2>6. /\ 2 * i - 1 \in 1 .. 2 * m /\ 2 * i \in 1 .. 2 * m
        /\ (2 * i - 1) - 1 = 2 * i - 2 /\ 2 * i - 2 \in Nat
    BY <2>2, <2>5
  <2>7. (2 * i - 1) * p = (2 * i - 2) * p + p /\ (2 * i - 2) * p \in Nat
        /\ (i - 1) * (2 * p) = (2 * i - 2) * p
    BY <2>2, <2>5
  <2>8. f[k][2 * i - 1] = r[k][low] /\ f[k][2 * i] = r[k][low + p]
    BY <2>4, <2>6, <2>7
  <2>9. r[k + 1][low] = HashPair(r[k][low], r[k][low + p])
    BY <1>5, <2>1, <2>7 DEF p
  <2>10. (i - 1) * Power(2, k + 1) = low
    BY <2>2, <2>7
  <2> QED BY <2>3, <2>8, <2>9, <2>10
<1> HIDE DEF T
<1>8. h \in T
  BY <1>6, <1>7, CountingUp
<1>9. \A i \in 1 .. Power(2, h - h) : f[h][i] = r[h][(i - 1) * Power(2, h)]
  BY <1>8 DEF T
<1>10. h - h = 0 /\ Power(2, 0) = 1 /\ (1 - 1) * Power(2, h) = 0
  BY <1>3, PowerIs
<1> QED BY <1>2, <1>9, <1>10

------------------------------------------------------------------------------
(* Proofs of leaves *)

\* c is what the loop of verify_proof computes on the first n steps of a proof
IsClimb(c, digest, proof, n) == c = [k \in 0 .. n |-> IF k = 0 THEN digest ELSE HashUp(c[k - 1], proof[k])]

LEMMA VerifyUnfolds ==
    ASSUME NEW digest, NEW proof, NEW root, NEW n, n = Len(proof)
    PROVE  VerifyProof(digest, proof, root) <=> (CHOOSE c : IsClimb(c, digest, proof, n))[n] = root
BY DEF VerifyProof, IsClimb

LEMMA ClimbExists ==
    ASSUME NEW digest, NEW proof, NEW n \in Nat
    PROVE  \E c : IsClimb(c, digest, proof, n)
<1> DEFINE T == {m \in Nat : \E c : IsClimb(c, digest, proof, m)}
<1>1. 0 \in T
  <2> DEFINE c == [k \in 0 .. 0 |-> digest]
  <2>1. IsClimb(c, digest, proof, 0)
    BY DEF IsClimb
  <2> QED BY <2>1
<1>2. ASSUME NEW m \in Nat, m \in T PROVE m + 1 \in T
  <2>1. PICK c : IsClimb(c, digest, proof, m)
    BY <1>2
  <2> DEFINE g == [k \in 0 .. m + 1 |-> IF k <= m THEN c[k] ELSE HashUp(c[m], proof[m + 1])]
  <2>2. \A k \in 0 .. m + 1 : g[k] = IF k = 0 THEN digest ELSE HashUp(g[k - 1], proof[k])
    BY <2>1 DEF IsClimb
  <2>3. g = [k \in 0 .. m + 1 |-> g[k]]
    OBVIOUS
  <2> HIDE DEF g
  <2>4. g = [k \in 0 .. m + 1 |-> IF k = 0 THEN digest ELSE HashUp(g[k - 1], proof[k])]
    BY <2>2, <2>3
  <2> QED BY <2>4 DEF IsClimb
<1> HIDE DEF T
<1>3. n \in T
  BY <1>1, <1>2, CountingUp
<1> QED BY <1>3 DEF T

\* hashing is free of collisions in the model
LEMMA PairsDiffer ==
    ASSUME NEW l, NEW r, NEW x, NEW y
    PROVE  HashPair(l, r) = HashPair(x, y) <=> l = x /\ r = y
<1>1. HashPair(l, r)[2] = l /\ HashPair(l, r)[3] = r /\ HashPair(x, y)[2] = x /\ HashPair(x, y)[3] = y
  BY DEF HashPair
<1> QED BY <1>1

\* the step get_proof adds to a proof at the digest idx of a level
IsStep(step, level, idx) == step.sibling = level[Sibling(idx) + 1] /\ (step.is_right <=> idx % 2 = 1)

\* One step of a proof: from the digest at idx to the one above it
LEMMA ClimbsOne ==
    ASSUME NEW level, NEW idx \in Nat, NEW up \in Nat, up = idx \div 2, NEW current, NEW step,
           IsStep(step, level, idx)
    PROVE  LET above == HashPair(level[2 * (up + 1) - 1], level[2 * (up + 1)])
           IN  /\ HashUp(current, step) = above => current = level[idx + 1]
               /\ current = level[idx + 1] => HashUp(current, step) = above
<1>1. CASE idx % 2 = 0
  <2>1. idx = 2 * up
    BY <1>1
  <2>2. 2 * (up + 1) - 1 = idx + 1 /\ 2 * (up + 1) = (idx + 1) + 1 /\ Sibling(idx) = idx + 1
    BY <1>1, <2>1 DEF Sibling
  <2>3. HashUp(current, step) = HashPair(current, level[(idx + 1) + 1])
    <3>1. ~ (idx % 2 = 1)
      BY <1>1
    <3>2. ~ step.is_right /\ step.sibling = level[(idx + 1) + 1]
      BY <2>2, <3>1 DEF IsStep
    <3> QED BY <3>2 DEF HashUp
  <2> QED BY <2>2, <2>3, PairsDiffer
<1>2. CASE idx % 2 = 1
  <2>1. idx = 2 * up + 1
    BY <1>2
  <2>2. 2 * (up + 1) - 1 = (idx - 1) + 1 /\ 2 * (up + 1) = idx + 1 /\ Sibling(idx) = idx - 1
    BY <1>2, <2>1 DEF Sibling
  <2>3. HashUp(current, step) = HashPair(level[(idx - 1) + 1], current)
    BY <1>2, <2>2 DEF HashUp, IsStep
  <2> QED BY <2>2, <2>3, PairsDiffer
<1>3. idx % 2 = 0 \/ idx % 2 = 1
  OBVIOUS
<1> QED BY <1>1, <1>2, <1>3

\* the siblings get_proof collects on the h levels of f for the leaf at i
IsProof(proof, f, h, i) ==
    \A k \in 1 .. h : IsStep(proof[k], f[k - 1], i \div Power(2, k - 1))

\* A proof leads to the root from the digest of its leaf and from no other.
LEMMA ProofAccepts ==
    ASSUME NEW digests, NEW h \in Nat, NEW f, IsTree(f, digests, h),
           NEW i \in Nat, i < Power(2, h), NEW digest, NEW proof, Len(proof) = h,
           IsProof(proof, f, h, i)
    PROVE  /\ VerifyProof(digest, proof, f[h][1]) => digest = digests[i + 1]
           /\ digest = digests[i + 1] => VerifyProof(digest, proof, f[h][1])
<1> DEFINE c == CHOOSE x : IsClimb(x, digest, proof, h)
           idx(k) == i \div Power(2, k)
<1>1. IsClimb(c, digest, proof, h)
  BY ClimbExists
<1>2. VerifyProof(digest, proof, f[h][1]) <=> c[h] = f[h][1]
  <2> DEFINE root == f[h][1]
  <2> HIDE DEF root
  <2>1. VerifyProof(digest, proof, root) <=> c[h] = root
    BY VerifyUnfolds
  <2> QED BY <2>1 DEF root
<1> HIDE DEF c
<1>3. c[0] = digest /\ \A k \in 0 .. h - 1 : c[k + 1] = HashUp(c[k], proof[k + 1])
  BY <1>1 DEF IsClimb
<1>4. ASSUME NEW k \in Nat
      PROVE  idx(k) \in Nat /\ idx(k + 1) = idx(k) \div 2
  <2>1. Power(2, k) \in Nat /\ Power(2, k) > 0 /\ Power(2, k + 1) = 2 * Power(2, k)
    <3>1. 2 \in Nat /\ 2 > 0
      OBVIOUS
    <3> QED BY <3>1, PowerIs, PowerPositive
  <2> DEFINE p == Power(2, k)
  <2> HIDE DEF p
  <2>2. p \in Nat /\ p > 0
    BY <2>1 DEF p
  <2>3. i \div p \in Nat /\ (i \div p) \div 2 = i \div (2 * p)
    <3>1. 2 \in Nat /\ 2 > 0 /\ i \div p \in Nat
      BY <2>2
    <3> QED BY <2>2, <3>1, DivideTwice
  <2> QED BY <2>1, <2>3 DEF p
<1>5. idx(0) = i /\ idx(h) = 0
  <2>1. Power(2, 0) = 1 /\ Power(2, h) \in Nat
    BY PowerIs
  <2>2. idx(0) = i
    BY <2>1
  <2> DEFINE p == Power(2, h)
  <2>3. p \in Nat /\ i < p /\ idx(h) = i \div p
    BY <2>1
  <2> HIDE DEF p, idx
  <2>4. i \div p = 0
    <3>1. p > 0 /\ 0 \in Int /\ p * 0 <= i /\ i < p * 0 + p
      BY <2>3
    <3> QED BY <2>3, <3>1, Divide
  <2> QED BY <2>2, <2>3, <2>4
<1>6. ASSUME NEW k \in 0 .. h - 1
      PROVE  IsStep(proof[k + 1], f[k], idx(k))
  <2>1. k + 1 \in 1 .. h /\ (k + 1) - 1 = k
    OBVIOUS
  <2> QED BY <2>1 DEF IsProof
<1>7. ASSUME NEW k \in 0 .. h - 1, idx(k) < Power(2, h - k)
      PROVE  /\ idx(k + 1) < Power(2, h - (k + 1))
             /\ f[k + 1][idx(k + 1) + 1] =
                    HashPair(f[k][2 * (idx(k + 1) + 1) - 1], f[k][2 * (idx(k + 1) + 1)])
  <2> DEFINE m == Power(2, h - (k + 1))
             q == h - (k + 1)
  <2>1. q \in Nat /\ h - k = q + 1 /\ k \in Nat
    OBVIOUS
  <2>2. m \in Nat /\ Power(2, h - k) = 2 * m
    <3> HIDE DEF q
    <3>1. Power(2, q) \in Nat /\ Power(2, q + 1) = 2 * Power(2, q)
      BY <2>1, PowerIs
    <3> QED BY <2>1, <3>1 DEF q
  <2>3. idx(k) \in Nat /\ idx(k + 1) = idx(k) \div 2 /\ idx(k + 1) \in Nat
    <3>1. k + 1 \in Nat
      BY <2>1
    <3> HIDE DEF idx
    <3> QED BY <1>4, <2>1, <3>1
  <2>4. \A j \in 1 .. m : f[k + 1][j] = HashPair(f[k][2 * j - 1], f[k][2 * j])
    BY DEF IsTree
  <2>5. idx(k) < 2 * m
    BY <1>7, <2>2
  <2> HIDE DEF m, q, idx
  <2>6. idx(k + 1) < m
    BY <2>2, <2>3, <2>5
  <2>7. idx(k + 1) + 1 \in 1 .. m
    BY <2>2, <2>3, <2>6
  <2> QED BY <2>4, <2>6, <2>7 DEF m
<1> HIDE DEF idx
<1> DEFINE T == {k \in Nat : k <= h => /\ idx(k) < Power(2, h - k)
                                       /\ c[k] = f[k][idx(k) + 1] <=> digest = digests[i + 1]}
<1>8. 0 \in T
  <2>1. f[0] = digests
    BY DEF IsTree
  <2> QED BY <1>3, <1>5, <2>1
<1>9. ASSUME NEW k \in Nat, k \in T PROVE k + 1 \in T
  <2> SUFFICES ASSUME k + 1 <= h
               PROVE  /\ idx(k + 1) < Power(2, h - (k + 1))
                      /\ c[k + 1] = f[k + 1][idx(k + 1) + 1] <=> digest = digests[i + 1]
    OBVIOUS
  <2>1. k \in 0 .. h - 1 /\ k <= h
    OBVIOUS
  <2>2. idx(k) < Power(2, h - k) /\ (c[k] = f[k][idx(k) + 1] <=> digest = digests[i + 1])
    BY <1>9, <2>1
  <2>3. /\ idx(k + 1) < Power(2, h - (k + 1))
        /\ f[k + 1][idx(k + 1) + 1] = HashPair(f[k][2 * (idx(k + 1) + 1) - 1], f[k][2 * (idx(k + 1) + 1)])
    BY <1>7, <2>1, <2>2
  <2>4. idx(k) \in Nat /\ idx(k + 1) \in Nat /\ idx(k + 1) = idx(k) \div 2
    <3>1. k + 1 \in Nat
      OBVIOUS
    <3> QED BY <1>4, <3>1
  <2>5. LET above == HashPair(f[k][2 * (idx(k + 1) + 1) - 1], f[k][2 * (idx(k + 1) + 1)])
        IN  /\ HashUp(c[k], proof[k + 1]) = above => c[k] = f[k][idx(k) + 1]
            /\ c[k] = f[k][idx(k) + 1] => HashUp(c[k], proof[k + 1]) = above
    <3>1. IsStep(proof[k + 1], f[k], idx(k))
      BY <1>6, <2>1
    <3> DEFINE level == f[k]
               step == proof[k + 1]
               up == idx(k + 1)
               at == idx(k)
    <3>2. at \in Nat /\ up \in Nat /\ up = at \div 2 /\ IsStep(step, level, at)
      BY <2>4, <3>1
    <3> HIDE DEF level, step, up, at
    <3>3. LET above == HashPair(level[2 * (up + 1) - 1], level[2 * (up + 1)])
          IN  /\ HashUp(c[k], step) = above => c[k] = level[at + 1]
              /\ c[k] = level[at + 1] => HashUp(c[k], step) = above
      BY <3>2, ClimbsOne
    <3> QED BY <3>3 DEF level, step, up, at
  <2>6. c[k + 1] = HashUp(c[k], proof[k + 1])
    BY <1>3, <2>1
  <2> QED BY <2>2, <2>3, <2>5, <2>6
<1> HIDE DEF T
<1>10. h \in T
  BY <1>8, <1>9, CountingUp
<1>11. c[h] = f[h][idx(h) + 1] <=> digest = digests[i + 1]
  BY <1>10 DEF T
<1>12. idx(h) + 1 = 1
  BY <1>5
<1> QED BY <1>2, <1>11, <1>12

\* For every leaf of every sequence of leaves, and every digest whatsoever
LEMMA ProofsExact ==
    ASSUME NEW S, NEW leaves \in Seq(S), NEW n, n = Len(leaves), n > 0
    PROVE  /\ TreeRoot(BuildTree(leaves)) = RootOf(Padded(leaves), BitLength(n - 1))
           /\ \A i \in 0 .. n - 1 : \A digest :
                 VerifyProof(digest, GetProof(BuildTree(leaves), i), TreeRoot(BuildTree(leaves)))
                    <=> digest = HashLeaf(leaves[i + 1])
<1> DEFINE h == BitLength(n - 1)
           tree == BuildTree(leaves)
<1> HIDE DEF h
<1>1. h = BitLength(n - 1)
  BY DEF h
<1>2. /\ n \in Nat /\ h \in Nat
      /\ IsLevel(Padded(leaves)) /\ Len(Padded(leaves)) = Power(2, h)
      /\ \A i \in 1 .. n : i \in 1 .. Power(2, h) /\ Padded(leaves)[i] = HashLeaf(leaves[i])
  BY <1>1, PaddedIs
<1>3. PICK f : IsTree(f, Padded(leaves), h)
  BY <1>2, TreeExists
<1>4. tree = UpToLevel(f, h)
  BY <1>1, <1>3, TreeIs
<1>5. Len(tree) = h + 1 /\ Last(tree) = f[h] /\ \A k \in 1 .. h + 1 : tree[k] = f[k - 1]
  <2> HIDE DEF tree
  <2>1. Len(UpToLevel(f, h)) = h + 1 /\ Last(UpToLevel(f, h)) = f[h]
    BY <1>2, GrowTree
  <2>2. \A k \in 1 .. h + 1 : UpToLevel(f, h)[k] = f[k - 1]
    BY DEF UpToLevel
  <2> QED BY <1>4, <2>1, <2>2
<1> HIDE DEF tree
<1>6. TreeRoot(tree) = f[h][1]
  BY <1>5 DEF TreeRoot
<1>7. TreeRoot(tree) = RootOf(Padded(leaves), h)
  BY <1>2, <1>3, <1>6, LevelsAreRoots
<1>8. ASSUME NEW i \in 0 .. n - 1, NEW digest
      PROVE  VerifyProof(digest, GetProof(tree, i), TreeRoot(tree)) <=> digest = HashLeaf(leaves[i + 1])
  <2> DEFINE proof == GetProof(tree, i)
             step(k) == [sibling  |-> f[k - 1][Sibling(i \div Power(2, k - 1)) + 1],
                         is_right |-> (i \div Power(2, k - 1)) % 2 = 1]
  <2>1. proof = [k \in 1 .. h |-> [sibling  |-> tree[k][Sibling(i \div Power(2, k - 1)) + 1],
                                   is_right |-> (i \div Power(2, k - 1)) % 2 = 1]]
    <3>1. Len(tree) - 1 = h
      BY <1>2, <1>5
    <3> QED BY <3>1 DEF GetProof
  <2>2. \A k \in 1 .. h : tree[k] = f[k - 1]
    BY <1>2, <1>5
  <2>3. proof = [k \in 1 .. h |-> step(k)]
    BY <2>1, <2>2
  <2> HIDE DEF proof, step
  <2>4. Len(proof) = h /\ \A k \in 1 .. h : proof[k] = step(k)
    BY <1>2, <2>3
  <2>5. i + 1 \in 1 .. n /\ i \in Nat
    BY <1>2
  <2>6. i + 1 \in 1 .. Power(2, h) /\ Padded(leaves)[i + 1] = HashLeaf(leaves[i + 1])
    BY <1>2, <2>5
  <2>7. Power(2, h) \in Nat
    BY <1>2, PowerIs
  <2>8. i < Power(2, h)
    BY <2>5, <2>6, <2>7
  <2>9. /\ VerifyProof(digest, proof, f[h][1]) => digest = Padded(leaves)[i + 1]
        /\ digest = Padded(leaves)[i + 1] => VerifyProof(digest, proof, f[h][1])
    <3>1. ASSUME NEW k \in 1 .. h PROVE IsStep(proof[k], f[k - 1], i \div Power(2, k - 1))
      <4>1. proof[k] = step(k)
        BY <2>4
      <4>2. IsStep(step(k), f[k - 1], i \div Power(2, k - 1))
        BY DEF step, IsStep
      <4> QED BY <4>1, <4>2
    <3>2. IsProof(proof, f, h, i)
      BY <3>1 DEF IsProof
    <3> QED BY <1>2, <1>3, <2>4, <2>5, <2>8, <3>2, ProofAccepts
  <2> QED BY <1>6, <2>6, <2>9 DEF proof
<1> QED BY <1>7, <1>8 DEF h, tree

------------------------------------------------------------------------------
(* Theorems about the algorithms *)

\* The inputs are the sequences of digits, and Algorithms' properties say of every
\* one of them what the code computes from it.
THEOREM AlgorithmsTypeCorrect == AlgorithmsSpec => []AlgorithmsTypeOK
<1>1. AlgorithmsInit => AlgorithmsTypeOK
  BY SizesAssumption DEF AlgorithmsInit, AlgorithmsTypeOK
<1>2. AlgorithmsTypeOK /\ [AlgorithmsNext]_input => AlgorithmsTypeOK'
  <2> SUFFICES ASSUME AlgorithmsTypeOK, [AlgorithmsNext]_input PROVE AlgorithmsTypeOK'
    OBVIOUS
  <2>1. CASE AlgorithmsNext
    <3>1. PICK d \in Digits : Extend(d)
      BY <2>1 DEF AlgorithmsNext
    <3> QED BY <3>1, SizesAssumption DEF Extend, AlgorithmsTypeOK
  <2>2. CASE UNCHANGED input
    BY <2>2 DEF AlgorithmsTypeOK
  <2> QED BY <2>1, <2>2
<1> QED BY <1>1, <1>2, PTL DEF AlgorithmsSpec

\* am_i_proposer and _expected_proposer: of the targets below the total stake each
\* validator has as many as its stake, for any number of validators.
THEOREM SelectionIsProportional == AlgorithmsSpec => []SelectionProportional
<1>1. AlgorithmsTypeOK => SelectionProportional
  <2> SUFFICES ASSUME AlgorithmsTypeOK, NEW i \in DOMAIN input
               PROVE  Cardinality({t \in 0 .. Total(input) - 1 : ExpectedProposer(input, t) = i}) = input[i]
    BY DEF SelectionProportional
  <2>1. Digits \subseteq Nat
    BY SizesAssumption DEF Digits
  <2> DEFINE n == Len(input)
  <2>2. n \in Nat /\ input \in [1 .. n -> Digits]
    BY DEF AlgorithmsTypeOK
  <2> HIDE DEF n
  <2>3. input \in [1 .. n -> Nat]
    BY <2>1, <2>2
  <2>4. input \in Seq(Nat)
    BY <2>2, <2>3
  <2> QED BY <2>4, SharesAreStakes
<1> QED BY <1>1, AlgorithmsTypeCorrect, PTL

\* WOTSPlus: for any Winternitz parameter and any lengths whose checksum fits its chains,
\* a signature is accepted for the digest it was made for only, and hashing its chains
\* on never makes it a signature of another.
THEOREM SignaturesAreOfOneDigest == AlgorithmsSpec => []SignatureOfOneDigest
<1>1. AlgorithmsTypeOK => SignatureOfOneDigest
  <2> SUFFICES ASSUME AlgorithmsTypeOK, Len(input) = Len1, NEW other \in [1 .. Len1 -> Digits]
               PROVE  /\ WotsVerify(other, Sign(input)) <=> other = input
                      /\ other # input => \E i \in DOMAIN Sign(input) : Sign(other)[i] < Sign(input)[i]
    BY DEF SignatureOfOneDigest
  <2>1. input \in [1 .. Len1 -> Digits]
    BY DEF AlgorithmsTypeOK
  <2>2. WotsVerify(other, Sign(input)) <=> other = input
    BY <2>1, VerifyCompares
  <2>3. other # input => \E i \in DOMAIN Sign(input) : Sign(other)[i] < Sign(input)[i]
    BY <2>1, OtherDigestGoesBack
  <2> QED BY <2>2, <2>3
<1> QED BY <1>1, AlgorithmsTypeCorrect, PTL

\* ParallelMerkleTree: the root is the same below and above the batch size, for any number
\* of leaves, workers and pairs in the smallest chunk.
THEOREM ParallelRootsAgree == AlgorithmsSpec => []ParallelRootIsSequential
<1>1. AlgorithmsTypeOK => ParallelRootIsSequential
  <2> SUFFICES ASSUME AlgorithmsTypeOK, input # <<>>, NEW least \in LeastChunks, NEW workers \in WorkerCounts,
                      NEW leaves, leaves = [i \in DOMAIN input |-> HashLeaf(input[i])]
               PROVE  ComputeRoot(leaves, least, workers) = ComputeRootSequential(leaves)
    BY DEF ParallelRootIsSequential
  <2>1. input \in Seq(Digits) /\ Len(input) \in Nat /\ Len(input) > 0 /\ DOMAIN input = 1 .. Len(input)
    BY DEF AlgorithmsTypeOK
  <2> DEFINE S == {HashLeaf(d) : d \in Digits}
             n == Len(input)
  <2>2. leaves \in [1 .. n -> S]
    BY <2>1
  <2> HIDE DEF S, n
  <2>3. n \in Nat /\ n > 0
    BY <2>1 DEF n
  <2>4. leaves \in Seq(S) /\ Len(leaves) > 0
    BY <2>2, <2>3
  <2>5. IsLevel(leaves)
    BY <2>4 DEF IsLevel
  <2>6. least \in Nat \ {0} /\ workers \in Nat \ {0}
    BY SizesAssumption
  <2> QED BY <2>5, <2>6, SameRoot
<1> QED BY <1>1, AlgorithmsTypeCorrect, PTL

\* MerkleTree: for any number of leaves the root is that of the complete tree over the
\* padded leaves, and the proof of a leaf is accepted for its digest and no other.
THEOREM MerkleProofsAreExact == AlgorithmsSpec => []MerkleProofsExact
<1>1. AlgorithmsTypeOK => MerkleProofsExact
  <2> SUFFICES ASSUME AlgorithmsTypeOK, input # <<>>, NEW tree, tree = BuildTree(input)
               PROVE  /\ TreeRoot(tree) = RootOf(Padded(input), BitLength(Len(input) - 1))
                      /\ \A i \in 0 .. Len(input) - 1 :
                            \A digest \in UNION {Range(tree[k]) : k \in DOMAIN tree} :
                                VerifyProof(digest, GetProof(tree, i), TreeRoot(tree))
                                   <=> digest = HashLeaf(input[i + 1])
    BY DEF MerkleProofsExact
  <2>1. input \in Seq(Digits) /\ Len(input) > 0
    BY DEF AlgorithmsTypeOK
  <2> QED BY <2>1, ProofsExact
<1> QED BY <1>1, AlgorithmsTypeCorrect, PTL
==============================================================================
