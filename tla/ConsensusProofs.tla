--------------------------- MODULE ConsensusProofs ---------------------------
(* Theorems about BFTConsensus (Consensus), for every set of validators,     *)
(* every stake measure, every selection of proposers and every set of        *)
(* messages in anybody's name.                                               *)
EXTENDS Consensus, TLAPS

------------------------------------------------------------------------------
(* Stake arithmetic *)

\* A larger set has at least as much stake.
LEMMA StakeMonotone ==
    ASSUME NEW S \in SUBSET Validators, NEW T \in SUBSET Validators, S \subseteq T
    PROVE  StakeOf[S] <= StakeOf[T]
<1>1. T = S \cup (T \ S) /\ S \cap (T \ S) = {}
    OBVIOUS
<1>2. StakeOf[T] = StakeOf[S] + StakeOf[T \ S]
    BY <1>1, StakeAssumption
<1>3. StakeOf[S] \in Nat /\ StakeOf[T \ S] \in Nat
    BY StakeAssumption
<1> QED
    BY <1>2, <1>3

\* Two sets that both reach the 67% threshold share at least 34% of the stake.
LEMMA QuorumIntersection ==
    ASSUME NEW S \in SUBSET Validators, NEW T \in SUBSET Validators,
           MeetsThreshold(S), MeetsThreshold(T)
    PROVE  100 * StakeOf[S \cap T] >= 34 * TotalStake
<1>1. /\ StakeOf[S] = StakeOf[S \ T] + StakeOf[S \cap T]
      /\ StakeOf[S \cup T] = StakeOf[S \ T] + StakeOf[T]
    <2>1. S = (S \ T) \cup (S \cap T) /\ (S \ T) \cap (S \cap T) = {}
        OBVIOUS
    <2>2. S \cup T = (S \ T) \cup T /\ (S \ T) \cap T = {}
        OBVIOUS
    <2> QED
        BY <2>1, <2>2, StakeAssumption
<1>2. StakeOf[S \cup T] <= TotalStake
    BY StakeMonotone DEF TotalStake
<1>3. /\ StakeOf[S] \in Nat /\ StakeOf[T] \in Nat /\ StakeOf[S \ T] \in Nat
      /\ StakeOf[S \cap T] \in Nat /\ StakeOf[S \cup T] \in Nat /\ TotalStake \in Nat
    BY StakeAssumption DEF TotalStake
<1> QED
    BY <1>1, <1>2, <1>3 DEF MeetsThreshold

\* Under StakeBound two quorums always share an honest validator, and not only
\* one given honest validator.
LEMMA QuorumsShareHonest ==
    ASSUME StakeBound,
           NEW S \in SUBSET Validators, NEW T \in SUBSET Validators,
           MeetsThreshold(S), MeetsThreshold(T)
    PROVE  /\ \E w \in S \cap T : w \in Honest
           /\ \A v \in Honest : \E w \in S \cap T : w # v
<1> USE FaultyAssumption
<1>1. 100 * StakeOf[S \cap T] >= 34 * TotalStake
    BY QuorumIntersection
<1>2. ASSUME NEW X \in SUBSET Validators, S \cap T \subseteq X,
             100 * StakeOf[X] < 34 * TotalStake
      PROVE  FALSE
    <2>1. StakeOf[S \cap T] <= StakeOf[X]
        BY <1>2, StakeMonotone
    <2>2. StakeOf[S \cap T] \in Nat /\ StakeOf[X] \in Nat /\ TotalStake \in Nat
        BY StakeAssumption DEF TotalStake
    <2> QED
        BY <1>1, <1>2, <2>1, <2>2
<1>3. \E w \in S \cap T : w \in Honest
    <2> SUFFICES ASSUME \A w \in S \cap T : w \notin Honest PROVE FALSE
        OBVIOUS
    <2> QED
        BY <1>2 DEF StakeBound, Honest
<1>4. ASSUME NEW v \in Honest PROVE \E w \in S \cap T : w # v
    <2> SUFFICES ASSUME \A w \in S \cap T : w = v PROVE FALSE
        OBVIOUS
    <2>1. S \cap T \subseteq {v} /\ {v} \in SUBSET Validators
        BY DEF Honest
    <2> QED
        BY <1>2, <2>1 DEF StakeBound
<1> QED
    BY <1>3, <1>4

------------------------------------------------------------------------------
(* Type correctness *)

\* The constructor state is well typed.
LEMMA TypeInit == Init => TypeOK
<1> USE ConstantsAssumption DEF Epochs
<1> SUFFICES ASSUME Init PROVE TypeOK
    OBVIOUS
<1>1. NoChoices \in [Validators -> Proposals \cup {None}]
    BY DEF NoChoices
<1> QED
    BY <1>1 DEF Init, TypeOK, ConsensusPhase

\* Every message a handler can take is a message.
LEMMA ReceivableType ==
    ASSUME TypeOK, NEW v \in Honest, NEW m \in Receivable(v)
    PROVE  /\ m \in Messages
           /\ m.sender \in Validators /\ m.epoch \in Epochs /\ m.proposal \in Proposals
           /\ m \in sent \cup FaultyMessages
BY FaultyMessagesAssumption DEF TypeOK, Receivable, Messages

\* An honest validator's broadcast is a message.
LEMMA MessageType ==
    ASSUME NEW t \in {"proposal", "pre-vote", "pre-commit"}, NEW v \in Honest,
           NEW e \in Epochs, NEW p \in Proposals
    PROVE  Message(t, v, e, p) \in {m \in Messages : m.sender \in Honest}
BY DEF Message, Messages, Honest

\* Every handler keeps the types.
LEMMA TypeStep == TypeOK /\ [Next]_vars => TypeOK'
<1> SUFFICES ASSUME TypeOK, [Next]_vars PROVE TypeOK'
    OBVIOUS
<1> USE ConstantsAssumption
<1>h. Honest \subseteq Validators
    BY DEF Honest
<1>1. ASSUME NEW v \in Honest, StartEpoch(v) PROVE TypeOK'
    <2>1. NextEpoch(v) \in Epochs
        BY <1>1 DEF StartEpoch, NextEpoch, TypeOK, Epochs
    <2>2. NoChoices \in [Validators -> Proposals \cup {None}]
        BY DEF NoChoices
    <2> QED
        BY <1>1, <2>1, <2>2 DEF StartEpoch, TypeOK, ConsensusPhase
<1>2. ASSUME NEW v \in Honest, NEW root \in Roots, RunConsensusPhase(v, root)
      PROVE  TypeOK'
    <2> DEFINE p == [proposer |-> v, epoch |-> current_epoch[v], root |-> root]
    <2>1. p \in Proposals /\ current_epoch[v] \in Epochs
        BY <1>h DEF TypeOK, Proposals
    <2>2. Message("proposal", v, current_epoch[v], p) \in {m \in Messages : m.sender \in Honest}
        BY <2>1, MessageType
    <2> QED
        BY <1>2, <2>1, <2>2 DEF RunConsensusPhase, TypeOK, ConsensusPhase, emVars
<1>3. ASSUME NEW v \in Honest, NEW m, ReceiveProposal(v, m) PROVE TypeOK'
    <2>1. m.proposal \in Proposals /\ current_epoch[v] \in Epochs
        BY <1>3, ReceivableType DEF ReceiveProposal, TypeOK
    <2>2. Message("pre-vote", v, current_epoch[v], m.proposal)
             \in {n \in Messages : n.sender \in Honest}
        BY <2>1, MessageType
    <2> QED
        BY <1>3, <1>h, <2>1, <2>2 DEF ReceiveProposal, TypeOK, emVars
<1>4. ASSUME NEW v \in Honest, NEW m, ReceivePreVote(v, m) PROVE TypeOK'
    <2>1. m.proposal \in Proposals /\ m.sender \in Validators /\ current_epoch[v] \in Epochs
        BY <1>4, ReceivableType DEF ReceivePreVote, TypeOK
    <2>2. Message("pre-commit", v, current_epoch[v], m.proposal)
             \in {n \in Messages : n.sender \in Honest}
        BY <2>1, MessageType
    <2>3. pre_vote_choices' \in [Honest -> [Validators -> Proposals \cup {None}]]
        BY <1>4, <2>1 DEF ReceivePreVote, TypeOK
    <2>4. pre_votes' \in [Honest -> SUBSET (Proposals \X Validators)]
        BY <1>4, <2>1 DEF ReceivePreVote, TypeOK
    <2>5. /\ pre_commits' \in [Honest -> SUBSET (Proposals \X Validators)]
          /\ phase' \in [Honest -> ConsensusPhase]
          /\ sent' \subseteq {n \in Messages : n.sender \in Honest}
        <3>1. CASE CreatePreCommit(v, m.proposal)
            BY <3>1, <1>h, <2>1, <2>2 DEF CreatePreCommit, TypeOK, ConsensusPhase
        <3>2. CASE UNCHANGED <<pre_commits, phase, sent>>
            BY <3>2 DEF TypeOK
        <3> QED
            BY <1>4, <3>1, <3>2 DEF ReceivePreVote
    <2> QED
        BY <1>4, <2>3, <2>4, <2>5 DEF ReceivePreVote, TypeOK, emVars
<1>5. ASSUME NEW v \in Honest, NEW m, ReceivePreCommit(v, m) PROVE TypeOK'
    <2> DEFINE S == Voters(pre_commits[v] \cup {<<m.proposal, m.sender>>}, m.proposal)
    <2>1. m.proposal \in Proposals /\ m.sender \in Validators /\ current_epoch[v] \in Epochs
        BY <1>5, ReceivableType DEF ReceivePreCommit, TypeOK
    <2>2. [proposal |-> m.proposal, support |-> S] \in Blocks
        BY <2>1 DEF Blocks, Voters
    <2>3. pre_commit_choices' \in [Honest -> [Validators -> Proposals \cup {None}]]
        BY <1>5, <2>1 DEF ReceivePreCommit, TypeOK
    <2>4. pre_commits' \in [Honest -> SUBSET (Proposals \X Validators)]
        BY <1>5, <2>1 DEF ReceivePreCommit, TypeOK
    <2>5. /\ finalized_blocks' \in [Honest -> [Epochs -> Blocks \cup {None}]]
          /\ phase' \in [Honest -> ConsensusPhase]
          /\ em_finalized' \in [Honest -> SUBSET Nat]
        <3>1. CASE Finalize(v, m.proposal, S)
            BY <3>1, <2>1, <2>2 DEF Finalize, TypeOK, ConsensusPhase, Epochs
        <3>2. CASE UNCHANGED <<finalized_blocks, phase, em_finalized>>
            BY <3>2 DEF TypeOK
        <3> QED
            BY <1>5, <3>1, <3>2 DEF ReceivePreCommit
    <2> QED
        BY <1>5, <2>3, <2>4, <2>5 DEF ReceivePreCommit, TypeOK
<1>6. CASE UNCHANGED vars
    BY <1>6 DEF vars, votingVars, emVars, TypeOK
<1> QED
    BY <1>1, <1>2, <1>3, <1>4, <1>5, <1>6 DEF Next, Receive

\* Every field of every honest validator keeps its type.
THEOREM TypeCorrect == Spec => []TypeOK
BY TypeInit, TypeStep, PTL DEF Spec

------------------------------------------------------------------------------
(* The equivocation check *)

\* A counted peer vote is the one recorded in the choices map.
TallyMatchesChoices ==
    \A v \in Honest : \A w \in Validators \ {v} : \A p \in Proposals :
        /\ <<p, w>> \in pre_votes[v] => pre_vote_choices[v][w] = p
        /\ <<p, w>> \in pre_commits[v] => pre_commit_choices[v][w] = p

\* The empty tallies match the empty choices.
LEMMA TallyInit == Init => TallyMatchesChoices
BY DEF Init, TallyMatchesChoices

\* Every handler keeps tallies and choices in step: a vote is counted only if
\* the choices map records it, and start_round clears both together.
LEMMA TallyStep ==
    TypeOK /\ TallyMatchesChoices /\ [Next]_vars => TallyMatchesChoices'
<1> SUFFICES ASSUME TypeOK, TallyMatchesChoices, [Next]_vars
             PROVE  TallyMatchesChoices'
    OBVIOUS
<1> USE ConstantsAssumption
<1> USE DEF TypeOK, TallyMatchesChoices
<1>1. ASSUME NEW v \in Honest, StartEpoch(v) PROVE TallyMatchesChoices'
    BY <1>1 DEF StartEpoch
<1>2. ASSUME NEW v \in Honest, NEW root \in Roots, RunConsensusPhase(v, root)
      PROVE  TallyMatchesChoices'
    BY <1>2 DEF RunConsensusPhase
<1>3. ASSUME NEW v \in Honest, NEW m, ReceiveProposal(v, m) PROVE TallyMatchesChoices'
    BY <1>3 DEF ReceiveProposal
<1>4. ASSUME NEW v \in Honest, NEW m, ReceivePreVote(v, m) PROVE TallyMatchesChoices'
    <2>1. m.proposal \in Proposals /\ m.sender \in Validators
        BY <1>4, ReceivableType DEF ReceivePreVote
    <2>2. \A u \in Honest : \A w \in Validators \ {u} : \A p \in Proposals :
             <<p, w>> \in pre_votes'[u] => pre_vote_choices'[u][w] = p
        BY <1>4, <2>1 DEF ReceivePreVote, ValidPreVote
    <2>3. \A u \in Honest : \A w \in Validators \ {u} : \A p \in Proposals :
             <<p, w>> \in pre_commits'[u] => <<p, w>> \in pre_commits[u]
        <3>1. CASE CreatePreCommit(v, m.proposal)
            BY <3>1 DEF CreatePreCommit
        <3>2. CASE UNCHANGED pre_commits
            BY <3>2
        <3> QED
            BY <1>4, <3>1, <3>2 DEF ReceivePreVote
    <2> QED
        BY <1>4, <2>2, <2>3 DEF ReceivePreVote
<1>5. ASSUME NEW v \in Honest, NEW m, ReceivePreCommit(v, m) PROVE TallyMatchesChoices'
    <2>1. m.proposal \in Proposals /\ m.sender \in Validators
        BY <1>5, ReceivableType DEF ReceivePreCommit
    <2> QED
        BY <1>5, <2>1 DEF ReceivePreCommit, ValidPreCommit
<1>6. CASE UNCHANGED vars
    BY <1>6 DEF vars, votingVars, emVars
<1> QED
    BY <1>1, <1>2, <1>3, <1>4, <1>5, <1>6 DEF Next, Receive

\* At every node and in each phase of an epoch, a peer is counted for at most
\* one proposal, whatever is delivered.
THEOREM PeersCountedOnce == Spec => []PeerCountedOnce
<1>1. TypeOK /\ TallyMatchesChoices => PeerCountedOnce
    BY DEF TypeOK, TallyMatchesChoices, PeerCountedOnce
<1> QED
    BY <1>1, TallyInit, TallyStep, TypeCorrect, PTL DEF Spec

------------------------------------------------------------------------------
(* Certificates: what stands behind a counted pre-commit and a block *)

\* An honest validator has sent messages only for epochs it has started.
SendersStarted ==
    \A m \in sent : m.epoch <= current_epoch[m.sender]

\* A pre-commit of the sender's current epoch is backed by 67% in pre-votes
\* still in the sender's tally.
PreCommitBacked ==
    \A m \in sent :
        m.type = "pre-commit" /\ m.epoch = current_epoch[m.sender]
            => MeetsThreshold(Voters(pre_votes[m.sender], m.proposal))

\* For every counted pre-commit there was one in that name, for the counter's
\* epoch.
PreCommitsSent ==
    \A v \in Honest : \A w \in Validators : \A p \in Proposals :
        <<p, w>> \in pre_commits[v]
            => Message("pre-commit", w, current_epoch[v], p) \in sent \cup FaultyMessages

\* The proposals a validator knows are of its epoch and its selected proposer.
ProposalsSelected ==
    \A v \in Honest : \A p \in received_proposals[v] :
        /\ p.epoch = current_epoch[v]
        /\ p.proposer = ExpectedProposer(current_epoch[v])

CertificateInv ==
    /\ SendersStarted
    /\ PreCommitBacked
    /\ PreCommitsSent
    /\ ProposalsSelected
    /\ CommitCertificate
    /\ BlockFromSelectedProposer

\* Adding voters to a tally keeps a threshold that was met.
LEMMA ThresholdMonotone ==
    ASSUME NEW A, NEW B, A \subseteq B, NEW p, MeetsThreshold(Voters(A, p))
    PROVE  MeetsThreshold(Voters(B, p))
<1>1. /\ Voters(A, p) \in SUBSET Validators
      /\ Voters(B, p) \in SUBSET Validators
      /\ Voters(A, p) \subseteq Voters(B, p)
    BY DEF Voters
<1>2. StakeOf[Voters(A, p)] <= StakeOf[Voters(B, p)]
    BY <1>1, StakeMonotone
<1>3. StakeOf[Voters(A, p)] \in Nat /\ StakeOf[Voters(B, p)] \in Nat /\ TotalStake \in Nat
    BY <1>1, StakeAssumption DEF TotalStake
<1> QED
    BY <1>2, <1>3 DEF MeetsThreshold

\* Nothing is sent, counted or finalized at first.
LEMMA CertificateInit == Init => CertificateInv
BY DEF Init, CertificateInv, SendersStarted, PreCommitBacked, PreCommitsSent,
       ProposalsSelected, CommitCertificate, BlockFromSelectedProposer, Honest

\* Every handler keeps the certificates.
LEMMA CertificateStep ==
    TypeOK /\ CertificateInv /\ [Next]_vars => CertificateInv'
<1> SUFFICES ASSUME TypeOK, CertificateInv, [Next]_vars PROVE CertificateInv'
    OBVIOUS
<1> USE ConstantsAssumption
<1>h. /\ Honest \subseteq Validators
      /\ \A m \in sent : m.sender \in Honest /\ m \in Messages /\ m.epoch \in Epochs
                            /\ m.proposal \in Proposals
    BY DEF Honest, TypeOK, Messages
<1>1. ASSUME NEW v \in Honest, StartEpoch(v) PROVE CertificateInv'
    <2>1. NextEpoch(v) \in Epochs /\ NextEpoch(v) = current_epoch[v] + 1
        BY <1>1 DEF StartEpoch, NextEpoch, TypeOK, Epochs
    <2>2. \A m \in sent : m.sender = v => m.epoch < NextEpoch(v)
        BY <1>h, <2>1 DEF CertificateInv, SendersStarted, TypeOK, Epochs
    <2>3. SendersStarted'
        BY <1>1, <1>h, <2>1, <2>2
        DEF StartEpoch, CertificateInv, SendersStarted, TypeOK, Epochs
    <2>4. PreCommitBacked'
        BY <1>1, <1>h, <2>1, <2>2
        DEF StartEpoch, CertificateInv, PreCommitBacked, TypeOK, Epochs
    <2>5. PreCommitsSent'
        BY <1>1 DEF StartEpoch, CertificateInv, PreCommitsSent, TypeOK
    <2>6. ProposalsSelected'
        BY <1>1 DEF StartEpoch, CertificateInv, ProposalsSelected, TypeOK
    <2> QED
        BY <1>1, <2>3, <2>4, <2>5, <2>6
        DEF StartEpoch, CertificateInv, CommitCertificate, BlockFromSelectedProposer
<1>2. ASSUME NEW v \in Honest, NEW root \in Roots, RunConsensusPhase(v, root)
      PROVE  CertificateInv'
    <2> DEFINE p == [proposer |-> v, epoch |-> current_epoch[v], root |-> root]
               n == Message("proposal", v, current_epoch[v], p)
    <2>1. /\ n.type = "proposal" /\ n.sender = v /\ n.epoch = current_epoch[v]
          /\ current_epoch[v] \in Epochs
        BY DEF Message, TypeOK
    <2>2. SendersStarted'
        BY <1>2, <1>h, <2>1
        DEF RunConsensusPhase, CertificateInv, SendersStarted, TypeOK, Epochs
    <2>3. PreCommitBacked' /\ PreCommitsSent'
        BY <1>2, <2>1 DEF RunConsensusPhase, CertificateInv, PreCommitBacked, PreCommitsSent
    <2>4. ProposalsSelected'
        BY <1>2 DEF RunConsensusPhase, AmIProposer, CertificateInv, ProposalsSelected, TypeOK
    <2> QED
        BY <1>2, <2>2, <2>3, <2>4
        DEF RunConsensusPhase, CertificateInv, CommitCertificate, BlockFromSelectedProposer
<1>3. ASSUME NEW v \in Honest, NEW m, ReceiveProposal(v, m) PROVE CertificateInv'
    <2> DEFINE n == Message("pre-vote", v, current_epoch[v], m.proposal)
    <2>1. /\ n.type = "pre-vote" /\ n.sender = v /\ n.epoch = current_epoch[v]
          /\ current_epoch[v] \in Epochs
        BY DEF Message, TypeOK
    <2>2. SendersStarted'
        BY <1>3, <1>h, <2>1
        DEF ReceiveProposal, CertificateInv, SendersStarted, TypeOK, Epochs
    <2>3. PreCommitBacked'
        <3>1. \A u \in Honest : pre_votes[u] \subseteq pre_votes'[u]
            BY <1>3 DEF ReceiveProposal, TypeOK
        <3>2. \A k \in sent' : k.type = "pre-commit" => k \in sent
            BY <1>3, <2>1 DEF ReceiveProposal
        <3> QED
            BY <1>3, <1>h, <3>1, <3>2, ThresholdMonotone
            DEF ReceiveProposal, CertificateInv, PreCommitBacked
    <2>4. PreCommitsSent'
        BY <1>3 DEF ReceiveProposal, CertificateInv, PreCommitsSent
    <2>5. ProposalsSelected'
        BY <1>3 DEF ReceiveProposal, ValidProposal, CertificateInv, ProposalsSelected, TypeOK
    <2> QED
        BY <1>3, <2>2, <2>3, <2>4, <2>5
        DEF ReceiveProposal, CertificateInv, CommitCertificate, BlockFromSelectedProposer
<1>4. ASSUME NEW v \in Honest, NEW m, ReceivePreVote(v, m) PROVE CertificateInv'
    <2> DEFINE n == Message("pre-commit", v, current_epoch[v], m.proposal)
    <2>1. /\ n.type = "pre-commit" /\ n.sender = v /\ n.epoch = current_epoch[v]
          /\ n.proposal = m.proposal /\ current_epoch[v] \in Epochs
          /\ m.proposal \in Proposals /\ m.sender \in Validators
        BY <1>4, ReceivableType DEF ReceivePreVote, Message, TypeOK
    <2>2. \A u \in Honest : pre_votes[u] \subseteq pre_votes'[u]
        BY <1>4 DEF ReceivePreVote, TypeOK
    <2>3. CASE /\ MeetsThreshold(Voters(pre_votes'[v], m.proposal))
               /\ CreatePreCommit(v, m.proposal)
        <3>1. SendersStarted'
            BY <1>4, <2>3, <1>h, <2>1
            DEF ReceivePreVote, CreatePreCommit, CertificateInv, SendersStarted,
                TypeOK, Epochs
        <3>2. PreCommitBacked'
            BY <1>4, <2>3, <1>h, <2>1, <2>2, ThresholdMonotone
            DEF ReceivePreVote, CreatePreCommit, CertificateInv, PreCommitBacked
        <3>3. PreCommitsSent'
            BY <1>4, <2>3, <2>1
            DEF ReceivePreVote, CreatePreCommit, CertificateInv, PreCommitsSent, TypeOK
        <3>4. CommitCertificate'
            BY <1>4, <2>3
            DEF ReceivePreVote, CreatePreCommit, CertificateInv, CommitCertificate
        <3> QED
            BY <1>4, <3>1, <3>2, <3>3, <3>4
            DEF ReceivePreVote, CertificateInv, ProposalsSelected, BlockFromSelectedProposer
    <2>4. CASE UNCHANGED <<pre_commits, phase, sent>>
        <3>1. PreCommitBacked'
            BY <1>4, <2>4, <1>h, <2>2, ThresholdMonotone
            DEF ReceivePreVote, CertificateInv, PreCommitBacked
        <3> QED
            BY <1>4, <2>4, <3>1
            DEF ReceivePreVote, CertificateInv, SendersStarted, PreCommitsSent,
                ProposalsSelected, CommitCertificate, BlockFromSelectedProposer
    <2>5. pre_votes'[v] = pre_votes[v] \cup {<<m.proposal, m.sender>>}
        BY <1>4 DEF ReceivePreVote, TypeOK
    <2> QED
        BY <1>4, <2>3, <2>4, <2>5 DEF ReceivePreVote
<1>5. ASSUME NEW v \in Honest, NEW m, ReceivePreCommit(v, m) PROVE CertificateInv'
    <2> DEFINE S == Voters(pre_commits[v] \cup {<<m.proposal, m.sender>>}, m.proposal)
    <2>1. /\ m.proposal \in Proposals /\ m.sender \in Validators
          /\ current_epoch[v] \in Epochs
        BY <1>5, ReceivableType DEF ReceivePreCommit, TypeOK
    <2>2. Message("pre-commit", m.sender, current_epoch[v], m.proposal) \in sent \cup FaultyMessages
        <3>1. m \in Messages /\ m \in sent \cup FaultyMessages
            BY <1>5, ReceivableType DEF ReceivePreCommit
        <3>2. m = Message(m.type, m.sender, m.epoch, m.proposal)
            BY <3>1 DEF Message, Messages
        <3>3. m.type = "pre-commit" /\ m.epoch = current_epoch[v]
            BY <1>5 DEF ReceivePreCommit, ValidPreCommit
        <3> QED
            BY <3>1, <3>2, <3>3
    <2>3. PreCommitsSent'
        BY <1>5, <2>1, <2>2 DEF ReceivePreCommit, CertificateInv, PreCommitsSent, TypeOK
    <2>4. \A w \in S : Message("pre-commit", w, current_epoch[v], m.proposal)
                         \in sent \cup FaultyMessages
        BY <2>1, <2>2 DEF Voters, CertificateInv, PreCommitsSent
    <2>5. CASE /\ MeetsThreshold(S)
               /\ m.proposal \in received_proposals[v]
               /\ Finalize(v, m.proposal, S)
        <3>1. SendersStarted' /\ PreCommitBacked' /\ ProposalsSelected'
            BY <1>5, <2>5, <1>h
            DEF ReceivePreCommit, Finalize, CertificateInv, SendersStarted,
                PreCommitBacked, ProposalsSelected, TypeOK
        <3>2. \A u \in Honest, e \in Epochs :
                 finalized_blocks'[u][e] =
                    IF u = v /\ e = current_epoch[v]
                    THEN [proposal |-> m.proposal, support |-> S]
                    ELSE finalized_blocks[u][e]
            BY <2>5, <2>1 DEF Finalize, TypeOK
        <3>3. CommitCertificate'
            <4> SUFFICES ASSUME NEW u \in Honest, NEW e \in Epochs,
                                finalized_blocks'[u][e] # None
                         PROVE  /\ MeetsThreshold(finalized_blocks'[u][e].support)
                                /\ \A w \in finalized_blocks'[u][e].support :
                                     Message("pre-commit", w, e, finalized_blocks'[u][e].proposal)
                                        \in sent \cup FaultyMessages
                BY <1>5 DEF ReceivePreCommit, CommitCertificate, MeetsThreshold, Message
            <4>1. CASE u = v /\ e = current_epoch[v]
                <5> HIDE DEF S
                <5>1. finalized_blocks'[u][e] = [proposal |-> m.proposal, support |-> S]
                    BY <4>1, <3>2, Zenon
                <5>2. /\ finalized_blocks'[u][e].support = S
                      /\ finalized_blocks'[u][e].proposal = m.proposal
                    BY <5>1
                <5> QED
                    BY <4>1, <5>2, <2>5, <2>4
            <4>2. CASE ~(u = v /\ e = current_epoch[v])
                BY <4>2, <3>2 DEF CertificateInv, CommitCertificate
            <4> QED
                BY <4>1, <4>2
        <3>4. BlockFromSelectedProposer'
            BY <2>5, <3>2 DEF CertificateInv, BlockFromSelectedProposer, ProposalsSelected
        <3> QED
            BY <2>3, <3>1, <3>3, <3>4 DEF CertificateInv
    <2>6. CASE UNCHANGED <<finalized_blocks, phase, em_finalized>>
        BY <1>5, <2>6, <2>3
        DEF ReceivePreCommit, CertificateInv, SendersStarted, PreCommitBacked,
            ProposalsSelected, CommitCertificate, BlockFromSelectedProposer
    <2> QED
        BY <1>5, <2>5, <2>6 DEF ReceivePreCommit
<1>6. CASE UNCHANGED vars
    BY <1>6 DEF vars, votingVars, emVars, CertificateInv, SendersStarted,
                PreCommitBacked, PreCommitsSent, ProposalsSelected, CommitCertificate,
                BlockFromSelectedProposer
<1> QED
    BY <1>1, <1>2, <1>3, <1>4, <1>5, <1>6 DEF Next, Receive

\* Every finalized block has a certificate of 67% of the stake, made of
\* pre-commits to that proposal in that epoch.
THEOREM BlocksCertified == Spec => []CommitCertificate
<1>1. CertificateInv => CommitCertificate
    BY DEF CertificateInv
<1> QED
    BY <1>1, CertificateInit, CertificateStep, TypeCorrect, PTL DEF Spec

\* Every finalized proposal is the selected proposer's, for its own epoch.
THEOREM BlocksFromSelectedProposer == Spec => []BlockFromSelectedProposer
<1>1. CertificateInv => BlockFromSelectedProposer
    BY DEF CertificateInv
<1> QED
    BY <1>1, CertificateInit, CertificateStep, TypeCorrect, PTL DEF Spec

------------------------------------------------------------------------------
(* Agreement, under StakeBound *)

\* A new pre-commit agrees with the sender's earlier one of the epoch: the two
\* pre-vote quorums in its tally share a peer, and a peer counts once.
LEMMA OnePreCommitStep ==
    ASSUME StakeBound, TypeOK, CertificateInv', TallyMatchesChoices',
           OnePreCommitPerEpoch, [Next]_vars, TypeOK'
    PROVE  OnePreCommitPerEpoch'
<1>1. CASE \A m \in sent' : m.type = "pre-commit" => m \in sent
    BY <1>1 DEF OnePreCommitPerEpoch
<1>2. ASSUME NEW v \in Honest, NEW m, ReceivePreVote(v, m), CreatePreCommit(v, m.proposal)
      PROVE  OnePreCommitPerEpoch'
    <2> DEFINE n == Message("pre-commit", v, current_epoch[v], m.proposal)
    <2>1. /\ n.type = "pre-commit" /\ n.sender = v /\ n.epoch = current_epoch[v]
          /\ sent' = sent \cup {n}
        BY <1>2 DEF CreatePreCommit, Message
    <2>2. \A k \in sent' : k.sender \in Honest /\ k.proposal \in Proposals
        BY DEF TypeOK, Messages
    <2>3. current_epoch' = current_epoch
        BY <1>2 DEF ReceivePreVote
    <2>4. ASSUME NEW k \in sent', k.type = "pre-commit", k.sender = v, k.epoch = n.epoch
          PROVE  k.proposal = n.proposal
        <3> DEFINE Backed(j) == MeetsThreshold(Voters(pre_votes'[v], j.proposal))
        <3>1. Backed(k) /\ Backed(n)
            BY <2>1, <2>3, <2>4 DEF CertificateInv, PreCommitBacked, MeetsThreshold, Voters
        <3>2. Voters(pre_votes'[v], k.proposal) \in SUBSET Validators
              /\ Voters(pre_votes'[v], n.proposal) \in SUBSET Validators
            BY DEF Voters
        <3>3. PICK w \in Voters(pre_votes'[v], k.proposal) \cap Voters(pre_votes'[v], n.proposal) :
                 w # v
            BY <3>1, <3>2, QuorumsShareHonest
        <3>4. n.proposal \in Proposals /\ k.proposal \in Proposals
            BY <2>1, <2>2
        <3> HIDE DEF n
        <3> QED
            BY <3>3, <3>4 DEF Voters, TallyMatchesChoices
    <2> HIDE DEF n
    <2> QED
        BY <2>1, <2>4 DEF OnePreCommitPerEpoch
<1>3. ASSUME NEW v \in Honest, StartEpoch(v) PROVE OnePreCommitPerEpoch'
    BY <1>3, <1>1 DEF StartEpoch
<1>4. ASSUME NEW v \in Honest, NEW root \in Roots, RunConsensusPhase(v, root)
      PROVE  OnePreCommitPerEpoch'
    BY <1>4, <1>1 DEF RunConsensusPhase, Message
<1>5. ASSUME NEW v \in Honest, NEW m, ReceiveProposal(v, m) PROVE OnePreCommitPerEpoch'
    BY <1>5, <1>1 DEF ReceiveProposal, Message
<1>6. ASSUME NEW v \in Honest, NEW m, ReceivePreVote(v, m) PROVE OnePreCommitPerEpoch'
    BY <1>6, <1>1, <1>2 DEF ReceivePreVote
<1>7. ASSUME NEW v \in Honest, NEW m, ReceivePreCommit(v, m) PROVE OnePreCommitPerEpoch'
    BY <1>7, <1>1 DEF ReceivePreCommit
<1>8. CASE UNCHANGED vars
    BY <1>8, <1>1 DEF vars
<1> QED
    BY <1>3, <1>4, <1>5, <1>6, <1>7, <1>8 DEF Next, Receive

\* An honest validator pre-commits to at most one proposal per epoch.
THEOREM HonestPreCommitOnce ==
    ASSUME StakeBound
    PROVE  Spec => []OnePreCommitPerEpoch
<1>1. Init => OnePreCommitPerEpoch
    BY DEF Init, OnePreCommitPerEpoch
<1>2. /\ TypeOK /\ TypeOK' /\ CertificateInv' /\ TallyMatchesChoices'
      /\ OnePreCommitPerEpoch /\ [Next]_vars
      => OnePreCommitPerEpoch'
    BY OnePreCommitStep
<1>3. Spec => [](TypeOK /\ CertificateInv /\ TallyMatchesChoices)
    BY TypeCorrect, CertificateInit, CertificateStep, TallyInit, TallyStep, PTL DEF Spec
<1> QED
    BY <1>1, <1>2, <1>3, PTL DEF Spec

\* Two certificates share an honest supporter, which has cast one pre-commit.
LEMMA ForksFromCertificates ==
    ASSUME StakeBound, TypeOK, CommitCertificate, OnePreCommitPerEpoch
    PROVE  ForksNeedVotesNotCast
<1> SUFFICES ASSUME NEW v \in Honest, NEW w \in Honest, NEW e \in Epochs,
                    finalized_blocks[v][e] # None, finalized_blocks[w][e] # None,
                    finalized_blocks[v][e].proposal # finalized_blocks[w][e].proposal
             PROVE  \E x \in finalized_blocks[v][e].support
                             \cap finalized_blocks[w][e].support \cap Honest :
                       {Message("pre-commit", x, e, finalized_blocks[v][e].proposal),
                        Message("pre-commit", x, e, finalized_blocks[w][e].proposal)} \ sent # {}
    BY DEF ForksNeedVotesNotCast
<1> DEFINE b == finalized_blocks[v][e]
           c == finalized_blocks[w][e]
<1>1. b \in Blocks /\ c \in Blocks
    BY DEF TypeOK
<1>2. b.support \in SUBSET Validators /\ c.support \in SUBSET Validators
    BY <1>1 DEF Blocks
<1>3. MeetsThreshold(b.support) /\ MeetsThreshold(c.support)
    BY DEF CommitCertificate
<1>4. PICK x \in b.support \cap c.support : x \in Honest
    BY <1>2, <1>3, QuorumsShareHonest
<1>5. b.proposal # c.proposal
    OBVIOUS
<1> HIDE DEF b, c
<1>6. ~ (/\ Message("pre-commit", x, e, b.proposal) \in sent
         /\ Message("pre-commit", x, e, c.proposal) \in sent)
    BY <1>5 DEF OnePreCommitPerEpoch, Message
<1>7. {Message("pre-commit", x, e, b.proposal),
       Message("pre-commit", x, e, c.proposal)} \ sent # {}
    BY <1>6
<1> QED
    BY <1>4, <1>7 DEF b, c

\* Two honest validators finalize different proposals for an epoch only if an
\* honest validator is counted for a pre-commit it never cast, with any messages
\* in any name and any delivery of the honest ones.
THEOREM ForksAreNotOfVotesCast ==
    ASSUME StakeBound
    PROVE  Spec => []ForksNeedVotesNotCast
<1>1. TypeOK /\ CommitCertificate /\ OnePreCommitPerEpoch => ForksNeedVotesNotCast
    BY ForksFromCertificates
<1> QED
    BY <1>1, TypeCorrect, BlocksCertified, HonestPreCommitOnce, PTL

------------------------------------------------------------------------------
(* Irrevocability and refinement *)

\* A validator has blocks up to its epoch, and the supporters of its block of the
\* epoch are still in its tally.
BlocksInTally ==
    \A v \in Honest, e \in Epochs :
        finalized_blocks[v][e] # None =>
            /\ e <= current_epoch[v]
            /\ e = current_epoch[v] =>
                  finalized_blocks[v][e].support
                      \subseteq Voters(pre_commits[v], finalized_blocks[v][e].proposal)

\* What a handled pre-commit does to the blocks of its validator
LEMMA FinalizedBlock ==
    ASSUME TypeOK, NEW v \in Honest, NEW m, ReceivePreCommit(v, m)
    PROVE  /\ current_epoch' = current_epoch
           /\ current_epoch[v] \in Epochs
           /\ \/ finalized_blocks' = finalized_blocks
              \/ \E b \in Blocks :
                    /\ finalized_blocks' = [finalized_blocks EXCEPT ![v][current_epoch[v]] = b]
                    /\ b.support = Voters(pre_commits'[v], b.proposal)
                    /\ b.proposal \in received_proposals[v]
<1> DEFINE S == Voters(pre_commits[v] \cup {<<m.proposal, m.sender>>}, m.proposal)
           b == [proposal |-> m.proposal, support |-> S]
<1>1. /\ m.proposal \in Proposals /\ current_epoch[v] \in Epochs
      /\ current_epoch' = current_epoch
    BY ReceivableType DEF ReceivePreCommit, TypeOK
<1>2. b \in Blocks /\ b.support = S /\ b.proposal = m.proposal
    BY <1>1 DEF Blocks, Voters
<1>3. S = Voters(pre_commits'[v], m.proposal)
    BY DEF ReceivePreCommit, TypeOK
<1>4. \/ Finalize(v, m.proposal, S) /\ m.proposal \in received_proposals[v]
      \/ UNCHANGED finalized_blocks
    BY DEF ReceivePreCommit
<1>5. ASSUME Finalize(v, m.proposal, S)
      PROVE  finalized_blocks' = [finalized_blocks EXCEPT ![v][current_epoch[v]] = b]
    BY <1>5 DEF Finalize
<1> HIDE DEF b, S
<1> QED
    BY <1>1, <1>2, <1>3, <1>4, <1>5

\* Every handler keeps it: tallies only grow until the next epoch starts.
LEMMA BlocksInTallyStep ==
    ASSUME TypeOK, TypeOK', BlocksInTally, [Next]_vars
    PROVE  BlocksInTally'
<1> USE ConstantsAssumption
<1>1. ASSUME NEW v \in Honest, StartEpoch(v) PROVE BlocksInTally'
    BY <1>1 DEF StartEpoch, NextEpoch, BlocksInTally, TypeOK, Epochs
<1>2. ASSUME UNCHANGED <<finalized_blocks, current_epoch>>,
             \A v \in Honest : pre_commits[v] \subseteq pre_commits'[v]
      PROVE  BlocksInTally'
    BY <1>2 DEF BlocksInTally, Voters
<1>3. ASSUME NEW v \in Honest, NEW root \in Roots, RunConsensusPhase(v, root) PROVE BlocksInTally'
    BY <1>2, <1>3 DEF RunConsensusPhase
<1>4. ASSUME NEW v \in Honest, NEW m, ReceiveProposal(v, m) PROVE BlocksInTally'
    BY <1>2, <1>4 DEF ReceiveProposal
<1>5. ASSUME NEW v \in Honest, NEW m, ReceivePreVote(v, m) PROVE BlocksInTally'
    <2>1. \A u \in Honest : pre_commits[u] \subseteq pre_commits'[u]
        <3>1. CASE CreatePreCommit(v, m.proposal)
            BY <3>1 DEF CreatePreCommit, TypeOK
        <3>2. CASE UNCHANGED pre_commits
            BY <3>2
        <3> QED
            BY <1>5, <3>1, <3>2 DEF ReceivePreVote
    <2> QED
        BY <1>2, <1>5, <2>1 DEF ReceivePreVote
<1>6. ASSUME NEW v \in Honest, NEW m, ReceivePreCommit(v, m) PROVE BlocksInTally'
    <2>1. \A u \in Honest : pre_commits[u] \subseteq pre_commits'[u]
        BY <1>6 DEF ReceivePreCommit, TypeOK
    <2>2. current_epoch' = current_epoch /\ current_epoch[v] \in Epochs
        BY <1>6, FinalizedBlock
    <2>3. CASE finalized_blocks' = finalized_blocks
        BY <1>2, <2>1, <2>2, <2>3
    <2>4. ASSUME NEW b \in Blocks,
                 finalized_blocks' = [finalized_blocks EXCEPT ![v][current_epoch[v]] = b],
                 b.support = Voters(pre_commits'[v], b.proposal)
          PROVE  BlocksInTally'
        <3>1. \A u \in Honest, e \in Epochs :
                 finalized_blocks'[u][e] = IF u = v /\ e = current_epoch[v]
                                           THEN b ELSE finalized_blocks[u][e]
            BY <2>2, <2>4 DEF TypeOK
        <3> SUFFICES ASSUME NEW u \in Honest, NEW e \in Epochs, finalized_blocks'[u][e] # None
                     PROVE  /\ e <= current_epoch[u]
                            /\ e = current_epoch[u] =>
                                  finalized_blocks'[u][e].support
                                      \subseteq Voters(pre_commits'[u], finalized_blocks'[u][e].proposal)
            BY <2>2 DEF BlocksInTally, Voters
        <3>2. CASE u = v /\ e = current_epoch[v]
            BY <2>2, <2>4, <3>1, <3>2 DEF Epochs
        <3>3. CASE ~(u = v /\ e = current_epoch[v])
            BY <2>1, <3>1, <3>3 DEF BlocksInTally, Voters
        <3> QED
            BY <3>2, <3>3
    <2> QED
        BY <1>6, <2>3, <2>4, FinalizedBlock
<1>7. CASE UNCHANGED vars
    BY <1>2, <1>7 DEF vars, votingVars
<1> QED
    BY <1>1, <1>3, <1>4, <1>5, <1>6, <1>7 DEF Next, Receive

\* What all reachable states satisfy, collected for the two-state arguments
SafetyInv == TypeOK /\ TallyMatchesChoices /\ CertificateInv /\ BlocksInTally

\* They hold in every reachable state.
LEMMA SafetyInvariant == Spec => []SafetyInv
<1>1. Init => BlocksInTally
    BY DEF Init, BlocksInTally
<1> QED
    BY <1>1, TypeCorrect, TallyInit, TallyStep, CertificateInit, CertificateStep,
       BlocksInTallyStep, PTL DEF Spec, SafetyInv

\* A step changes no block, or gives one validator a block for its epoch: a
\* proposal selected for it, and the one it had before if it had one.
LEMMA BlockStep ==
    ASSUME StakeBound, SafetyInv, SafetyInv', [Next]_vars
    PROVE  \/ finalized_blocks' = finalized_blocks
           \/ \E v \in Honest, b \in Blocks :
                 /\ current_epoch[v] \in Epochs
                 /\ finalized_blocks' = [finalized_blocks EXCEPT ![v][current_epoch[v]] = b]
                 /\ b.proposal.epoch = current_epoch[v]
                 /\ b.proposal.proposer = ExpectedProposer(current_epoch[v])
                 /\ finalized_blocks[v][current_epoch[v]] # None =>
                       finalized_blocks[v][current_epoch[v]].proposal = b.proposal
<1> USE ConstantsAssumption
<1>1. ASSUME NEW v \in Honest, NEW m, ReceivePreCommit(v, m),
             NEW b \in Blocks, b.support = Voters(pre_commits'[v], b.proposal),
             b.proposal \in received_proposals[v],
             finalized_blocks' = [finalized_blocks EXCEPT ![v][current_epoch[v]] = b]
      PROVE  /\ b.proposal.epoch = current_epoch[v]
             /\ b.proposal.proposer = ExpectedProposer(current_epoch[v])
             /\ finalized_blocks[v][current_epoch[v]] # None =>
                   finalized_blocks[v][current_epoch[v]].proposal = b.proposal
    <2>1. /\ b.proposal.epoch = current_epoch[v]
          /\ b.proposal.proposer = ExpectedProposer(current_epoch[v])
        BY <1>1 DEF SafetyInv, CertificateInv, ProposalsSelected
    <2>2. ASSUME finalized_blocks[v][current_epoch[v]] # None
          PROVE  finalized_blocks[v][current_epoch[v]].proposal = b.proposal
        <3> DEFINE e == current_epoch[v]
                   c == finalized_blocks[v][e]
        <3>1. e \in Epochs /\ c \in Blocks /\ finalized_blocks'[v][e] = b /\ b # None
            BY <1>1, <2>2 DEF SafetyInv, TypeOK
        <3>2. c.proposal \in Proposals /\ b.proposal \in Proposals
            BY <3>1 DEF Blocks
        <3>3. MeetsThreshold(c.support)
            BY <2>2, <3>1 DEF SafetyInv, CertificateInv, CommitCertificate
        <3>4. c.support \subseteq Voters(pre_commits[v], c.proposal)
            BY <2>2, <3>1 DEF SafetyInv, BlocksInTally
        <3>5. pre_commits[v] \subseteq pre_commits'[v]
            BY <1>1 DEF ReceivePreCommit, SafetyInv, TypeOK
        <3>6. c.support \subseteq Voters(pre_commits'[v], c.proposal)
            BY <3>4, <3>5 DEF Voters
        <3>7. MeetsThreshold(Voters(pre_commits'[v], c.proposal))
            <4>1. c.support \in SUBSET Validators
                  /\ Voters(pre_commits'[v], c.proposal) \in SUBSET Validators
                BY <3>1 DEF Blocks, Voters
            <4>2. StakeOf[c.support] <= StakeOf[Voters(pre_commits'[v], c.proposal)]
                BY <3>6, <4>1, StakeMonotone
            <4>3. /\ StakeOf[c.support] \in Nat /\ TotalStake \in Nat
                  /\ StakeOf[Voters(pre_commits'[v], c.proposal)] \in Nat
                BY <4>1, StakeAssumption DEF TotalStake
            <4> HIDE DEF c
            <4> QED
                BY <3>3, <4>2, <4>3 DEF MeetsThreshold
        <3>8. MeetsThreshold(finalized_blocks'[v][e].support)
            BY <3>1 DEF SafetyInv, CertificateInv, CommitCertificate, MeetsThreshold
        <3>9. MeetsThreshold(Voters(pre_commits'[v], b.proposal))
            BY <1>1, <3>1, <3>8
        <3>10. PICK w \in Voters(pre_commits'[v], c.proposal) \cap Voters(pre_commits'[v], b.proposal) :
                  w # v
            <4>1. /\ Voters(pre_commits'[v], c.proposal) \in SUBSET Validators
                  /\ Voters(pre_commits'[v], b.proposal) \in SUBSET Validators
                BY DEF Voters
            <4> QED
                BY <3>7, <3>9, <4>1, QuorumsShareHonest
        <3> HIDE DEF c
        <3>11. c.proposal = b.proposal
            BY <3>2, <3>10 DEF Voters, SafetyInv, TallyMatchesChoices
        <3> QED
            BY <3>11 DEF c
    <2> QED
        BY <2>1, <2>2
<1>2. ASSUME NEW v \in Honest, NEW m, ReceivePreCommit(v, m)
      PROVE  \/ finalized_blocks' = finalized_blocks
             \/ \E u \in Honest, b \in Blocks :
                   /\ current_epoch[u] \in Epochs
                   /\ finalized_blocks' = [finalized_blocks EXCEPT ![u][current_epoch[u]] = b]
                   /\ b.proposal.epoch = current_epoch[u]
                   /\ b.proposal.proposer = ExpectedProposer(current_epoch[u])
                   /\ finalized_blocks[u][current_epoch[u]] # None =>
                         finalized_blocks[u][current_epoch[u]].proposal = b.proposal
    BY <1>1, <1>2, FinalizedBlock DEF SafetyInv
<1>3. ASSUME NEW v \in Honest, StartEpoch(v) PROVE finalized_blocks' = finalized_blocks
    BY <1>3 DEF StartEpoch
<1>4. ASSUME NEW v \in Honest, NEW root \in Roots, RunConsensusPhase(v, root)
      PROVE  finalized_blocks' = finalized_blocks
    BY <1>4 DEF RunConsensusPhase
<1>5. ASSUME NEW v \in Honest, NEW m, ReceiveProposal(v, m)
      PROVE  finalized_blocks' = finalized_blocks
    BY <1>5 DEF ReceiveProposal
<1>6. ASSUME NEW v \in Honest, NEW m, ReceivePreVote(v, m)
      PROVE  finalized_blocks' = finalized_blocks
    BY <1>6 DEF ReceivePreVote
<1>7. CASE UNCHANGED vars
    BY <1>7 DEF vars
<1> QED
    BY <1>2, <1>3, <1>4, <1>5, <1>6, <1>7 DEF Next, Receive

\* A finalized proposal is never replaced and never lost, although try_finalize
\* overwrites the block on every late pre-commit and nothing is known of who sent
\* the votes.
THEOREM FinalityIsIrrevocable ==
    ASSUME StakeBound
    PROVE  Spec => FinalityIrrevocable
<1> USE ConstantsAssumption
<1> DEFINE Kept == \A v \in Honest, e \in Epochs :
                      finalized_blocks[v][e] # None =>
                          /\ finalized_blocks'[v][e] # None
                          /\ finalized_blocks'[v][e].proposal = finalized_blocks[v][e].proposal
<1>1. SafetyInv /\ SafetyInv' /\ [Next]_vars => Kept
    <2> SUFFICES ASSUME SafetyInv, SafetyInv', [Next]_vars,
                        NEW v \in Honest, NEW e \in Epochs, finalized_blocks[v][e] # None
                 PROVE  /\ finalized_blocks'[v][e] # None
                        /\ finalized_blocks'[v][e].proposal = finalized_blocks[v][e].proposal
        OBVIOUS
    <2>1. CASE finalized_blocks' = finalized_blocks
        BY <2>1
    <2>2. ASSUME NEW u \in Honest, NEW b \in Blocks, current_epoch[u] \in Epochs,
                 finalized_blocks' = [finalized_blocks EXCEPT ![u][current_epoch[u]] = b],
                 finalized_blocks[u][current_epoch[u]] # None =>
                    finalized_blocks[u][current_epoch[u]].proposal = b.proposal
          PROVE  /\ finalized_blocks'[v][e] # None
                 /\ finalized_blocks'[v][e].proposal = finalized_blocks[v][e].proposal
        BY <2>2 DEF SafetyInv, TypeOK
    <2> QED
        BY <2>1, <2>2, BlockStep
<1> QED
    BY <1>1, SafetyInvariant, PTL DEF Spec, FinalityIrrevocable

\* A step that finalizes a block is a Decide step or repeats a decision; any
\* other step changes no decision.
LEMMA RefinesStep ==
    ASSUME StakeBound, SafetyInv, SafetyInv', [Next]_vars
    PROVE  [Finality!Next]_Decided
<1> USE ConstantsAssumption
<1>1. CASE finalized_blocks' = finalized_blocks
    BY <1>1 DEF Decided
<1>2. ASSUME NEW v \in Honest, NEW b \in Blocks, current_epoch[v] \in Epochs,
             finalized_blocks' = [finalized_blocks EXCEPT ![v][current_epoch[v]] = b],
             b.proposal.epoch = current_epoch[v],
             b.proposal.proposer = ExpectedProposer(current_epoch[v]),
             finalized_blocks[v][current_epoch[v]] # None =>
                finalized_blocks[v][current_epoch[v]].proposal = b.proposal
      PROVE  [Finality!Next]_Decided
    <2> DEFINE e == current_epoch[v]
    <2>0. /\ Decided \in [Honest -> [Epochs -> Proposals \cup {None}]]
          /\ Decided' \in [Honest -> [Epochs -> Proposals \cup {None}]]
        BY DEF Decided, SafetyInv, TypeOK, Blocks
    <2>1. b.proposal \in Proposals /\ b # None
        BY DEF Blocks
    <2>2. b.proposal \in SelectedProposals[e]
        BY <1>2, <2>1 DEF SelectedProposals
    <2>3. Decided' = [Decided EXCEPT ![v][e] = b.proposal]
        <3>1. \A u \in Honest, f \in Epochs :
                 finalized_blocks'[u][f] = IF u = v /\ f = e THEN b ELSE finalized_blocks[u][f]
            BY <1>2 DEF SafetyInv, TypeOK
        <3>2. \A u \in Honest, f \in Epochs :
                 Decided'[u][f] = IF u = v /\ f = e THEN b.proposal ELSE Decided[u][f]
            BY <3>1, <2>1 DEF Decided
        <3> QED
            BY <1>2, <3>2, <2>0, <2>1
    <2>4. CASE finalized_blocks[v][e] = None
        <3>1. ASSUME NEW f \in Epochs, f >= e PROVE finalized_blocks[v][f] = None
            <4>1. CASE f = e
                BY <2>4, <4>1
            <4>2. CASE f > e
                BY <1>2, <4>2 DEF SafetyInv, BlocksInTally, Epochs
            <4> QED
                BY <1>2, <3>1, <4>1, <4>2 DEF Epochs
        <3>2. \A f \in Epochs : f >= e => Decided[v][f] = None
            BY <3>1 DEF Decided
        <3>3. Finality!Decide(v, e, b.proposal)
            BY <2>3, <3>2 DEF Finality!Decide
        <3> QED
            BY <1>2, <2>2, <3>3 DEF Finality!Next
    <2>5. CASE finalized_blocks[v][e] # None
        <3>1. Decided[v][e] = b.proposal
            BY <1>2, <2>5 DEF Decided
        <3> QED
            BY <2>0, <2>3, <3>1
    <2> QED
        BY <2>4, <2>5
<1> QED
    BY <1>1, <1>2, BlockStep

\* The message-level consensus implements the abstract finality of an epoch.
THEOREM ConsensusImplementsEpochFinality ==
    ASSUME StakeBound
    PROVE  Spec => ImplementsEpochFinality
<1>1. Init => Finality!Init
    BY DEF Init, Finality!Init, Decided
<1>2. SafetyInv /\ SafetyInv' /\ [Next]_vars => [Finality!Next]_Decided
    BY RefinesStep
<1> QED
    BY <1>1, <1>2, SafetyInvariant, PTL DEF Spec, ImplementsEpochFinality, Finality!Spec
==============================================================================
