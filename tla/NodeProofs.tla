----------------------------- MODULE NodeProofs -----------------------------
(***************************************************************************)
(* Proofs about Node for any nodes, stakes, links, starts and bounds: the  *)
(* epoch manager records the blocks of the engine, and over P2P a block is *)
(* certified by the node itself alone.                                     *)
(*                                                                         *)
(* The first rests on the counters: the engine works in an epoch that the  *)
(* manager, which counts runs, has reached (Counters), and the manager has *)
(* a state for exactly the epochs it has reached (Reached).  The second    *)
(* rests on what can be in flight: a pre-commit that was sent is for the   *)
(* proposal its sender made (SentInv), the proposals a node has received   *)
(* are its own or wire forms (RoundInv), hence no pre-commit of another    *)
(* node is ever for a proposal the node has received (TallyInv).           *)
(***************************************************************************)
EXTENDS Node, TLAPS

Phases == {"starting", "idle", "measuring", "proposed", "voted", "committed", "waiting"}

NoSelfLink == \A n \in Nodes : n \notin peers[n] /\ n \in registry[n]

SentInv ==
    \A m \in sent :
        /\ m.to # m.sender
        /\ m.type = "proposal" => m.proposal.wire
        /\ m.type = "pre-commit" => ~m.proposal.wire /\ m.proposal.proposer = m.sender

\* a proposal of n's round: its own, or another node's wire form
OfRound(n, p) == p.epoch = current_epoch[n] /\ (p.wire \/ p.proposer = n)

RoundInv ==
    \A n \in Nodes :
        /\ \A p \in received_proposals[n] : OfRound(n, p)
        /\ current_proposal[n] # None =>
              /\ ~current_proposal[n].wire /\ current_proposal[n].proposer = n
              /\ current_proposal[n].epoch = current_epoch[n]
        /\ stage[n] \in {"proposed", "voted", "committed"} => current_proposal[n] # None

OwnOrForeign(n, x) == x[2] = n \/ (~x[1].wire /\ x[1].proposer = x[2])
TallyInv == \A n \in Nodes : \A x \in pre_commits[n] : OwnOrForeign(n, x)

Counters == \A n \in Nodes : clock[n] <= em_epoch[n] /\ current_epoch[n] <= em_epoch[n]
Reached == \A n \in Nodes, k \in Runs : epochs[n][k] # None <=> k <= em_epoch[n]

NodeInv ==
    /\ NodeTypeOK
    /\ NoSelfLink
    /\ SentInv
    /\ RoundInv
    /\ TallyInv
    /\ Counters
    /\ Reached
    /\ ManagerRecordsBlocks
    /\ SelfCertified

-----------------------------------------------------------------------------
(* Facts about the helpers *)

\* The first epochs of the manager are those of the clock.
LEMMA EpochsAreRuns ==
    /\ Epochs \subseteq Runs /\ 0 \in Epochs /\ Runs \subseteq Nat
    /\ None \notin Runs /\ None \notin Proposals /\ None \notin Blocks /\ None \notin EpochStates
BY NodesAssumption DEF Epochs, Runs

\* The wire form keeps proposer and epoch.
LEMMA WireFormType ==
    ASSUME NEW p \in Proposals
    PROVE  /\ WireForm(p) \in Proposals /\ WireForm(p).wire
           /\ WireForm(p).epoch = p.epoch /\ WireForm(p).proposer = p.proposer
BY DEF WireForm, Proposals

\* A broadcast goes to others only.
LEMMA BroadcastEffect ==
    ASSUME NodeTypeOK, NoSelfLink, SentInv, NEW n \in Nodes,
           NEW type \in {"proposal", "pre-vote", "pre-commit"}, NEW p \in Proposals,
           type = "proposal" => p.wire,
           type = "pre-commit" => ~p.wire /\ p.proposer = n,
           Broadcast(n, type, p)
    PROVE  sent' \subseteq Messages /\ SentInv'
<1>1. ASSUME NEW m \in sent', m \notin sent
      PROVE  /\ m \in Messages /\ m.to # m.sender /\ m.type = type
             /\ m.sender = n /\ m.proposal = p
  <2>1. PICK k \in peers[n] : m = [type |-> type, sender |-> n, epoch |-> current_epoch[n],
                                   proposal |-> p, to |-> k]
    BY <1>1 DEF Broadcast
  <2>2. k \in Nodes /\ current_epoch[n] \in Epochs /\ k # n
    BY DEF NodeTypeOK, NoSelfLink
  <2> QED BY <2>1, <2>2 DEF Messages
<1>2. sent' \subseteq Messages
  BY <1>1 DEF NodeTypeOK
<1>3. SentInv'
  BY <1>1 DEF SentInv
<1> QED BY <1>2, <1>3

\* No stake is held by nobody, and some by a registry.
LEMMA RegistryStake ==
    ASSUME NodeTypeOK, NoSelfLink, NEW n \in Nodes
    PROVE  /\ StakeOf[{}] = 0
           /\ StakeOf[registry[n]] \in Nat /\ StakeOf[registry[n]] > 0
<1>1. StakeOf[{}] = 0
  <2>1. {} \in SUBSET Nodes /\ {} \cap {} = {} /\ {} \cup {} = {}
    OBVIOUS
  <2>2. StakeOf[{} \cup {}] = StakeOf[{}] + StakeOf[{}]
    BY <2>1, StakesAssumption
  <2>3. StakeOf[{}] \in Nat
    BY <2>1, StakesAssumption
  <2> DEFINE z == StakeOf[{}]
  <2>4. z \in Nat /\ z = z + z
    BY <2>1, <2>2, <2>3, Zenon
  <2>5. z = 0
    <3> HIDE DEF z
    <3> QED BY <2>4
  <2> QED BY <2>5
<1>2. /\ registry[n] \in SUBSET Nodes /\ {n} \in SUBSET Nodes /\ registry[n] \ {n} \in SUBSET Nodes
      /\ {n} \cap (registry[n] \ {n}) = {} /\ {n} \cup (registry[n] \ {n}) = registry[n]
  BY DEF NodeTypeOK, NoSelfLink
<1>3. StakeOf[{n} \cup (registry[n] \ {n})] = StakeOf[{n}] + StakeOf[registry[n] \ {n}]
  BY <1>2, StakesAssumption
<1>4. /\ StakeOf[{n}] \in Nat /\ StakeOf[{n}] > 0 /\ StakeOf[registry[n] \ {n}] \in Nat
      /\ StakeOf[registry[n]] \in Nat
  BY <1>2, StakesAssumption
<1>5. StakeOf[{n} \cup (registry[n] \ {n})] = StakeOf[registry[n]]
  BY <1>2, Zenon
<1> QED BY <1>1, <1>3, <1>4, <1>5

\* What certifies a block is the node's own pre-commit.
LEMMA SelfQuorum ==
    ASSUME NodeTypeOK, NoSelfLink, RoundInv, NEW n \in Nodes, NEW tally, NEW p \in Proposals,
           \A x \in tally : OwnOrForeign(n, x), Finalizable(n, tally, p)
    PROVE  /\ Voters(n, tally, p) = {n}
           /\ 100 * StakeOf[{n}] >= 67 * StakeOf[registry[n]]
           /\ p.epoch = current_epoch[n]
<1>1. OfRound(n, p) /\ 100 * StakeOf[Voters(n, tally, p)] >= 67 * StakeOf[registry[n]]
  BY DEF Finalizable, RoundInv, MeetsThreshold
<1>2. \A m \in Voters(n, tally, p) : m = n
  <2> SUFFICES ASSUME NEW m \in Voters(n, tally, p), m # n PROVE FALSE
    OBVIOUS
  <2>1. OwnOrForeign(n, <<p, m>>)
    BY DEF Voters
  <2>2. ~p.wire /\ p.proposer = m
    BY <2>1 DEF OwnOrForeign
  <2> QED BY <1>1, <2>2 DEF OfRound
<1>3. Voters(n, tally, p) # {}
  <2> SUFFICES ASSUME Voters(n, tally, p) = {} PROVE FALSE
    OBVIOUS
  <2> QED BY <1>1, RegistryStake
<1>4. Voters(n, tally, p) = {n}
  BY <1>2, <1>3
<1> QED BY <1>1, <1>4 DEF OfRound

\* try_finalize and on_block_finalized write one block in both places.
LEMMA FinalizeEffect ==
    ASSUME NodeInv, NEW n \in Nodes, NEW tally, NEW p \in Proposals,
           \A x \in tally : OwnOrForeign(n, x),
           Finalizable(n, tally, p), Finalize(n, tally, p), em_epoch' = em_epoch
    PROVE  /\ finalized_blocks' \in [Nodes -> [Epochs -> Blocks \cup {None}]]
           /\ epochs' \in [Nodes -> [Runs -> EpochStates \cup {None}]]
           /\ Reached' /\ ManagerRecordsBlocks' /\ SelfCertified'
<1> DEFINE e == current_epoch[n]
           b == [proposal |-> p, run |-> em_epoch[n], support |-> Voters(n, tally, p),
                 total_stake |-> StakeOf[registry[n]]]
           s == [finalized |-> TRUE, block_root |-> b]
<1>1. /\ Voters(n, tally, p) = {n}
      /\ 100 * StakeOf[{n}] >= 67 * StakeOf[registry[n]]
      /\ p.epoch = e
  BY SelfQuorum DEF NodeInv
<1>2. e \in Epochs /\ e \in Runs /\ epochs[n][e] # None
  <2>1. current_epoch[n] \in Epochs /\ current_epoch[n] \in Runs
    BY EpochsAreRuns DEF NodeInv, NodeTypeOK
  <2>2. current_epoch[n] <= em_epoch[n]
    BY DEF NodeInv, Counters
  <2> QED BY <2>1, <2>2 DEF NodeInv, Reached
<1>3. b \in Blocks
  <2>1. em_epoch[n] \in Runs /\ StakeOf[registry[n]] \in Nat /\ {n} \in SUBSET Nodes
    BY RegistryStake DEF NodeInv, NodeTypeOK
  <2> QED BY <1>1, <2>1 DEF Blocks
<1>4. /\ b.support = {n} /\ b.proposal.epoch = e /\ 100 * StakeOf[{n}] >= 67 * b.total_stake
      /\ b # None
  BY <1>1, <1>3, EpochsAreRuns
<1>5. s \in EpochStates /\ s.block_root = b /\ s # None
  <2> HIDE DEF b
  <2>1. s \in EpochStates /\ s.block_root = b
    BY <1>3 DEF EpochStates
  <2> QED BY <2>1, EpochsAreRuns
<1>6. /\ finalized_blocks' = [finalized_blocks EXCEPT ![n][e] = b]
      /\ epochs' = [epochs EXCEPT ![n][e] = s]
  <2>1. finalized_blocks' = [finalized_blocks EXCEPT ![n][e] = b]
    BY DEF Finalize
  <2>2. epochs' = [epochs EXCEPT ![n][e] = IF @ = None THEN None ELSE s]
    BY DEF Finalize
  <2>3. epochs \in [Nodes -> [Runs -> EpochStates \cup {None}]]
    BY DEF NodeInv, NodeTypeOK
  <2> HIDE DEF s, e, b
  <2>4. epochs' = [epochs EXCEPT ![n][e] = s]
    BY <1>2, <2>2, <2>3
  <2> QED BY <2>1, <2>4
<1>7. /\ finalized_blocks \in [Nodes -> [Epochs -> Blocks \cup {None}]]
      /\ epochs \in [Nodes -> [Runs -> EpochStates \cup {None}]]
      /\ Reached /\ ManagerRecordsBlocks /\ SelfCertified
  BY DEF NodeInv, NodeTypeOK
<1> HIDE DEF s, e, b
<1>8. /\ finalized_blocks' \in [Nodes -> [Epochs -> Blocks \cup {None}]]
      /\ epochs' \in [Nodes -> [Runs -> EpochStates \cup {None}]]
  BY <1>2, <1>3, <1>5, <1>6, <1>7
<1>9. \A m \in Nodes, k \in Epochs :
         IF m = n /\ k = e THEN finalized_blocks'[m][k] = b
                           ELSE finalized_blocks'[m][k] = finalized_blocks[m][k]
  BY <1>2, <1>6, <1>7
<1>10. \A m \in Nodes, k \in Runs :
          IF m = n /\ k = e THEN epochs'[m][k] = s ELSE epochs'[m][k] = epochs[m][k]
  BY <1>2, <1>6, <1>7
<1>11. Reached'
  BY <1>2, <1>5, <1>7, <1>10 DEF Reached
<1>12. ManagerRecordsBlocks'
  BY <1>2, <1>5, <1>7, <1>9, <1>10, EpochsAreRuns DEF ManagerRecordsBlocks
<1>13. SelfCertified'
  <2> SUFFICES ASSUME NEW m \in Nodes, NEW k \in Epochs, finalized_blocks'[m][k] # None
               PROVE  LET c == finalized_blocks'[m][k]
                      IN  /\ c.support = {m} /\ c.proposal.epoch = k
                          /\ 100 * StakeOf[{m}] >= 67 * c.total_stake
    BY DEF SelfCertified
  <2>1. CASE m = n /\ k = e
    BY <1>4, <1>9, <2>1
  <2>2. CASE ~(m = n /\ k = e)
    <3>1. finalized_blocks'[m][k] = finalized_blocks[m][k]
      BY <1>9, <2>2, Zenon
    <3>2. finalized_blocks[m][k] # None
      BY <3>1
    <3>3. LET c == finalized_blocks[m][k]
          IN  /\ c.support = {m} /\ c.proposal.epoch = k
              /\ 100 * StakeOf[{m}] >= 67 * c.total_stake
      BY <1>7, <3>2, Zenon DEF SelfCertified
    <3> QED BY <3>1, <3>3, Zenon
  <2> QED BY <2>1, <2>2
<1> QED BY <1>8, <1>11, <1>12, <1>13

\* The records of blocks stay as they are.
LEMMA BlocksFrame ==
    ASSUME NodeInv, UNCHANGED <<finalized_blocks, managerVars>>
    PROVE  Reached' /\ ManagerRecordsBlocks' /\ SelfCertified'
BY DEF managerVars, NodeInv, Reached, ManagerRecordsBlocks, SelfCertified

-----------------------------------------------------------------------------
(* Every step keeps the invariant *)

LEMMA InitNodeInv == Init => NodeInv
<1> SUFFICES ASSUME Init PROVE NodeInv
  OBVIOUS
<1>1. PICK s \in Starts :
         /\ num_epochs = s.num_epochs
         /\ peers = [n \in Nodes |-> {m \in Nodes : {n, m} \in s.links}]
  BY DEF Init
<1>2. num_epochs \in [Nodes -> Runs]
  <2>1. s \in [num_epochs : [Nodes -> Runs], links : SUBSET {{n, m} : n, m \in Nodes}]
    BY NodesAssumption
  <2> QED BY <1>1, <2>1
<1>3. peers \in [Nodes -> SUBSET Nodes] /\ \A n \in Nodes : n \notin peers[n]
  <2>1. \A n \in Nodes : {n, n} \notin s.links
    <3>1. \A n \in Nodes : {n} \notin s.links
      BY LinksAssumption, Zenon
    <3>2. \A n : {n, n} = {n}
      OBVIOUS
    <3> QED BY <3>1, <3>2, Zenon
  <2>2. peers \in [Nodes -> SUBSET Nodes]
    BY <1>1
  <2>3. ASSUME NEW n \in Nodes, n \in peers[n] PROVE FALSE
    <3>1. {n, n} \in s.links
      BY <1>1, <2>3, Zenon
    <3> QED BY <2>1, <3>1, Zenon
  <2> QED BY <2>2, <2>3
<1>4. Initialized \in EpochStates
  BY DEF Initialized, EpochStates
<1>5. /\ epochs \in [Nodes -> [Runs -> EpochStates \cup {None}]]
      /\ \A n \in Nodes, k \in Runs : epochs[n][k] = IF k = 0 THEN Initialized ELSE None
  BY <1>4 DEF Init
<1>6. NodeTypeOK
  BY <1>2, <1>3, <1>5, EpochsAreRuns DEF Init, NodeTypeOK, NoChoices, Votes
<1>7. NoSelfLink /\ SentInv /\ RoundInv /\ TallyInv
  BY <1>3 DEF Init, NoSelfLink, SentInv, RoundInv, TallyInv
<1>8. Counters
  BY DEF Init, Counters
<1>9. Reached
  BY <1>4, <1>5, EpochsAreRuns DEF Init, Reached
<1>10. ManagerRecordsBlocks
  BY <1>5, EpochsAreRuns DEF Init, ManagerRecordsBlocks, Initialized
<1>11. SelfCertified
  BY DEF Init, SelfCertified
<1> QED BY <1>6, <1>7, <1>8, <1>9, <1>10, <1>11 DEF NodeInv

\* Connections, clocks and stages change no vote.
LEMMA NetNodeInv ==
    ASSUME NodeInv, NEW n \in Nodes,
           \/ \E m \in Nodes : Connect(n, m)
           \/ Stop(n) \/ Tick(n) \/ Bootstrapped(n) \/ Wait(n)
    PROVE  NodeInv'
<1> USE DEF roundVars, netVars, managerVars
<1>a. /\ Tick(n) \/ UNCHANGED clock
      /\ UNCHANGED <<num_epochs, roundVars, finalized_blocks, managerVars, sent>>
  BY DEF Connect, Stop, Tick, Bootstrapped, Wait
<1>b. UNCHANGED registry \/ registry' = [registry EXCEPT ![n] = @ \cup peers[n]]
  BY DEF Connect, Stop, Tick, Bootstrapped, Wait, SyncPeers
<1>c. \/ \E m \in Nodes \ {n} : peers' = [peers EXCEPT ![n] = @ \cup {m}, ![m] = @ \cup {n}]
      \/ peers' = [m \in Nodes |-> IF m = n THEN {} ELSE peers[m] \ {n}]
      \/ UNCHANGED peers
  BY DEF Connect, Stop, Tick, Bootstrapped, Wait
<1>d. /\ UNCHANGED running \/ running' = [running EXCEPT ![n] = FALSE]
      /\ \/ UNCHANGED stage
         \/ stage' = [stage EXCEPT ![n] = "idle"] \/ stage' = [stage EXCEPT ![n] = "waiting"]
  BY DEF Connect, Stop, Tick, Bootstrapped, Wait, To
<1>e. /\ peers' \in [Nodes -> SUBSET Nodes]
      /\ \A m \in Nodes : m \notin peers'[m]
  <2> HIDE DEF roundVars, netVars, managerVars
  <2>0. peers \in [Nodes -> SUBSET Nodes] /\ \A m \in Nodes : m \notin peers[m]
    BY DEF NodeInv, NodeTypeOK, NoSelfLink
  <2>1. ASSUME NEW m \in Nodes \ {n},
               peers' = [peers EXCEPT ![n] = @ \cup {m}, ![m] = @ \cup {n}]
        PROVE  /\ peers' \in [Nodes -> SUBSET Nodes]
               /\ \A k \in Nodes : k \notin peers'[k]
    BY <2>0, <2>1
  <2>2. CASE peers' = [m \in Nodes |-> IF m = n THEN {} ELSE peers[m] \ {n}]
    BY <2>0, <2>2
  <2> QED BY <1>c, <2>0, <2>1, <2>2
<1>f. registry' \in [Nodes -> SUBSET Nodes] /\ \A m \in Nodes : m \in registry'[m]
  <2>1. /\ registry \in [Nodes -> SUBSET Nodes] /\ peers[n] \subseteq Nodes
        /\ \A m \in Nodes : m \in registry[m]
    BY DEF NodeInv, NodeTypeOK, NoSelfLink
  <2>2. CASE registry' = [registry EXCEPT ![n] = @ \cup peers[n]]
    BY <2>1, <2>2
  <2> QED BY <1>b, <2>1, <2>2
<1>g. running' \in [Nodes -> BOOLEAN]
  BY <1>d DEF NodeInv, NodeTypeOK
<1>1. NodeTypeOK'
  <2>1. clock' \in [Nodes -> Epochs]
    <3>1. CASE Tick(n)
      <4>1. clock[n] \in Epochs /\ clock[n] < MaxClock /\ MaxClock \in Nat
        BY <3>1, NodesAssumption DEF NodeInv, NodeTypeOK, Runs, Tick
      <4>2. clock[n] + 1 \in Epochs
        BY <4>1 DEF Epochs
      <4> QED BY <3>1, <4>2 DEF NodeInv, NodeTypeOK, Tick
    <3>2. CASE UNCHANGED clock
      BY <3>2 DEF NodeInv, NodeTypeOK
    <3> QED BY <1>a, <3>1, <3>2
  <2>3. stage' \in [Nodes -> {"starting", "idle", "measuring", "proposed", "voted",
                              "committed", "waiting"}]
    BY <1>d DEF NodeInv, NodeTypeOK
  <2> QED BY <1>a, <1>e, <1>f, <1>g, <2>1, <2>3 DEF NodeInv, NodeTypeOK
<1>2. NoSelfLink'
  BY <1>e, <1>f DEF NoSelfLink
<1>3. SentInv' /\ TallyInv'
  BY <1>a DEF NodeInv, SentInv, TallyInv, OwnOrForeign
<1>4. RoundInv'
  BY <1>a, <1>d DEF NodeInv, NodeTypeOK, RoundInv, OfRound
<1>5. Counters'
  <2>1. \A m \in Nodes : clock[m] \in Nat /\ em_epoch[m] \in Nat
    BY EpochsAreRuns DEF NodeInv, NodeTypeOK
  <2>2. CASE Tick(n)
    BY <1>a, <2>1, <2>2 DEF NodeInv, NodeTypeOK, Counters, Tick
  <2>3. CASE UNCHANGED clock
    BY <1>a, <2>3 DEF NodeInv, Counters
  <2> QED BY <1>a, <2>2, <2>3
<1>6. Reached' /\ ManagerRecordsBlocks' /\ SelfCertified'
  BY <1>a, BlocksFrame
<1> QED BY <1>1, <1>2, <1>3, <1>4, <1>5, <1>6 DEF NodeInv

\* advance_epoch adds the state of the epoch after the last one, and no engine has
\* been in that epoch: whatever it finalized is in an epoch already reached.
LEMMA AdvanceEffect ==
    ASSUME NodeInv, NEW n \in Nodes, AdvanceEpoch(n), em_epoch[n] < num_epochs[n],
           finalized_blocks' = finalized_blocks
    PROVE  /\ em_epoch' \in [Nodes -> Runs]
           /\ em_epoch' = [em_epoch EXCEPT ![n] = @ + 1]
           /\ epochs' \in [Nodes -> [Runs -> EpochStates \cup {None}]]
           /\ Reached' /\ ManagerRecordsBlocks' /\ SelfCertified'
<1> DEFINE c == em_epoch[n]
           old == epochs[n][c]
           s == [old EXCEPT !.finalized = TRUE]
<1>1. c \in Runs /\ c + 1 \in Runs /\ c # c + 1
  BY EpochsAreRuns, NodesAssumption DEF NodeInv, NodeTypeOK, Runs
<1>2. old \in EpochStates
  <2>1. c <= em_epoch[n]
    BY <1>1, EpochsAreRuns
  <2>2. epochs[n][c] # None
    BY <1>1, <2>1 DEF NodeInv, Reached
  <2> QED BY <1>1, <2>2 DEF NodeInv, NodeTypeOK
<1>3. s \in EpochStates /\ s.block_root = old.block_root /\ s # None
  <2>1. s \in EpochStates /\ s.block_root = old.block_root
    <3> HIDE DEF old
    <3> QED BY <1>2 DEF EpochStates
  <2> QED BY <2>1, EpochsAreRuns
<1>4. Initialized \in EpochStates /\ Initialized # None /\ Initialized.block_root = None
  <2>1. Initialized \in EpochStates /\ Initialized.block_root = None
    BY DEF Initialized, EpochStates
  <2> QED BY <2>1, EpochsAreRuns
<1>5. /\ em_epoch' = [em_epoch EXCEPT ![n] = c + 1]
      /\ epochs' = [epochs EXCEPT ![n][c + 1] = Initialized, ![n][c].finalized = TRUE]
  BY DEF AdvanceEpoch
<1>6. em_epoch \in [Nodes -> Runs] /\ epochs \in [Nodes -> [Runs -> EpochStates \cup {None}]]
  BY DEF NodeInv, NodeTypeOK
<1>7. epochs' = [epochs EXCEPT ![n] = [epochs[n] EXCEPT ![c + 1] = Initialized, ![c] = s]]
  <2> HIDE DEF c
  <2> QED BY <1>1, <1>5, <1>6
<1>8. Reached /\ ManagerRecordsBlocks /\ SelfCertified
  BY DEF NodeInv
<1> HIDE DEF c, s, old
<1>9. em_epoch' \in [Nodes -> Runs] /\ epochs' \in [Nodes -> [Runs -> EpochStates \cup {None}]]
  <2>1. epochs[n] \in [Runs -> EpochStates \cup {None}]
    BY <1>6
  <2>2. [epochs[n] EXCEPT ![c + 1] = Initialized, ![c] = s] \in [Runs -> EpochStates \cup {None}]
    BY <1>3, <1>4, <2>1
  <2>3. em_epoch' \in [Nodes -> Runs]
    BY <1>1, <1>5, <1>6
  <2> DEFINE f == [epochs[n] EXCEPT ![c + 1] = Initialized, ![c] = s]
  <2>4. f \in [Runs -> EpochStates \cup {None}] /\ epochs' = [epochs EXCEPT ![n] = f]
    BY <1>7, <2>2
  <2> HIDE DEF f
  <2> QED BY <1>6, <2>3, <2>4
<1>10. /\ epochs'[n][c + 1] = Initialized /\ epochs'[n][c] = s
       /\ \A k \in Runs : k # c /\ k # c + 1 => epochs'[n][k] = epochs[n][k]
       /\ \A m \in Nodes : m # n => epochs'[m] = epochs[m] /\ em_epoch'[m] = em_epoch[m]
       /\ em_epoch'[n] = c + 1
  BY <1>1, <1>5, <1>6, <1>7
<1>11. Reached'
  <2> SUFFICES ASSUME NEW m \in Nodes, NEW k \in Runs
               PROVE  epochs'[m][k] # None <=> k <= em_epoch'[m]
    BY DEF Reached
  <2>1. CASE m # n
    BY <1>8, <1>10, <2>1 DEF Reached
  <2>2. CASE m = n /\ k = c
    BY <1>1, <1>3, <1>10, <2>2, EpochsAreRuns
  <2>3. CASE m = n /\ k = c + 1
    BY <1>1, <1>4, <1>10, <2>3, EpochsAreRuns
  <2>4. CASE m = n /\ k # c /\ k # c + 1
    <3>1. epochs[n][k] # None <=> k <= c
      BY <1>8 DEF Reached, c
    <3> QED BY <1>1, <1>10, <2>4, <3>1, EpochsAreRuns
  <2> QED BY <2>1, <2>2, <2>3, <2>4
<1>12. ManagerRecordsBlocks'
  <2> SUFFICES ASSUME NEW m \in Nodes, NEW k \in Epochs
               PROVE  finalized_blocks[m][k] =
                          IF epochs'[m][k] = None THEN None ELSE epochs'[m][k].block_root
    BY DEF ManagerRecordsBlocks
  <2>0. /\ k \in Runs
        /\ finalized_blocks[m][k] = IF epochs[m][k] = None THEN None ELSE epochs[m][k].block_root
    BY <1>8, EpochsAreRuns DEF ManagerRecordsBlocks
  <2>1. CASE m # n
    BY <1>10, <2>0, <2>1
  <2>2. CASE m = n /\ k = c
    <3>1. epochs[m][k] # None /\ epochs[m][k].block_root = s.block_root
      BY <1>2, <1>3, <2>2, EpochsAreRuns DEF old
    <3> QED BY <1>3, <1>10, <2>0, <2>2, <3>1
  <2>3. CASE m = n /\ k = c + 1
    <3>1. epochs[n][c + 1] = None
      <4>1. ~(c + 1 <= c)
        BY <1>1, EpochsAreRuns
      <4> QED BY <1>1, <1>8, <4>1 DEF Reached, c
    <3> QED BY <1>4, <1>10, <2>0, <2>3, <3>1
  <2>4. CASE m = n /\ k # c /\ k # c + 1
    BY <1>10, <2>0, <2>4
  <2> QED BY <2>1, <2>2, <2>3, <2>4
<1>13. SelfCertified'
  BY <1>8, Zenon DEF SelfCertified
<1> QED BY <1>5, <1>9, <1>11, <1>12, <1>13 DEF c

LEMMA RunEpochNodeInv ==
    ASSUME NodeInv, NEW n \in Nodes, RunEpoch(n)
    PROVE  NodeInv'
<1> USE DEF RunEpoch, StartRound, SyncPeers, To, NoChoices
<1>1. /\ em_epoch' \in [Nodes -> Runs] /\ em_epoch' = [em_epoch EXCEPT ![n] = @ + 1]
      /\ epochs' \in [Nodes -> [Runs -> EpochStates \cup {None}]]
      /\ Reached' /\ ManagerRecordsBlocks' /\ SelfCertified'
  BY AdvanceEffect
<1>2. NodeTypeOK'
  <2>1. /\ current_epoch' \in [Nodes -> Epochs]
        /\ current_proposal' \in [Nodes -> Proposals \cup {None}]
        /\ received_proposals' \in [Nodes -> SUBSET Proposals]
        /\ pre_votes' \in [Nodes -> SUBSET Votes] /\ pre_commits' \in [Nodes -> SUBSET Votes]
    BY DEF NodeInv, NodeTypeOK
  <2>2. /\ pre_vote_choices' \in [Nodes -> [Nodes -> Proposals \cup {None}]]
        /\ pre_commit_choices' \in [Nodes -> [Nodes -> Proposals \cup {None}]]
    BY DEF NodeInv, NodeTypeOK
  <2>3. /\ registry' \in [Nodes -> SUBSET Nodes]
        /\ stage' \in [Nodes -> {"starting", "idle", "measuring", "proposed", "voted",
                                 "committed", "waiting"}]
    BY DEF NodeInv, NodeTypeOK
  <2> QED BY <1>1, <2>1, <2>2, <2>3 DEF NodeInv, NodeTypeOK
<1>3. NoSelfLink' /\ SentInv' /\ TallyInv'
  BY DEF NodeInv, NodeTypeOK, NoSelfLink, SentInv, TallyInv, OwnOrForeign
<1>4. RoundInv'
  BY DEF NodeInv, NodeTypeOK, RoundInv, OfRound
<1>5. Counters'
  <2>1. \A m \in Nodes : clock[m] \in Nat /\ em_epoch[m] \in Nat /\ current_epoch[m] \in Nat
    BY EpochsAreRuns DEF NodeInv, NodeTypeOK
  <2>2. \A m \in Nodes : /\ em_epoch'[m] = IF m = n THEN em_epoch[m] + 1 ELSE em_epoch[m]
                         /\ current_epoch'[m] = IF m = n THEN clock[m] ELSE current_epoch[m]
    BY <1>1 DEF NodeInv, NodeTypeOK
  <2> QED BY <2>1, <2>2 DEF NodeInv, Counters
<1> QED BY <1>1, <1>2, <1>3, <1>4, <1>5 DEF NodeInv

\* A proposer's own proposal is not a wire form; the one it sends is.
LEMMA ProposeNodeInv ==
    ASSUME NodeInv, NEW n \in Nodes, Propose(n)
    PROVE  NodeInv'
<1> DEFINE p == [proposer |-> n, epoch |-> current_epoch[n], root |-> MeasurementRoot(n),
                 wire |-> FALSE]
<1>1. p \in Proposals /\ ~p.wire /\ p.proposer = n /\ p.epoch = current_epoch[n] /\ p # None
  <2>1. current_epoch[n] \in Epochs /\ MeasurementRoot(n) \in Runs \cup {None}
    BY DEF NodeInv, NodeTypeOK, MeasurementRoot
  <2>2. p \in Proposals
    BY <2>1 DEF Proposals
  <2> QED BY <2>2, EpochsAreRuns
<1>2. /\ current_proposal' = [current_proposal EXCEPT ![n] = p]
      /\ received_proposals' = [received_proposals EXCEPT ![n] = @ \cup {p}]
      /\ Broadcast(n, "proposal", WireForm(p))
      /\ stage' = [stage EXCEPT ![n] = "proposed"]
      /\ UNCHANGED <<clock, netVars, current_epoch, pre_votes, pre_commits, pre_vote_choices,
                     pre_commit_choices, finalized_blocks, managerVars>>
  BY DEF Propose, To
<1> HIDE DEF p
<1>3. sent' \subseteq Messages /\ SentInv'
  BY <1>1, <1>2, WireFormType, BroadcastEffect DEF NodeInv
<1>4. NodeTypeOK'
  <2>1. /\ current_proposal' \in [Nodes -> Proposals \cup {None}]
        /\ received_proposals' \in [Nodes -> SUBSET Proposals]
        /\ stage' \in [Nodes -> Phases]
    BY <1>1, <1>2 DEF NodeInv, NodeTypeOK, Phases
  <2> QED BY <1>2, <1>3, <2>1 DEF NodeInv, NodeTypeOK, netVars, managerVars, Phases
<1>5. NoSelfLink' /\ TallyInv' /\ Counters'
  BY <1>2 DEF NodeInv, NoSelfLink, TallyInv, OwnOrForeign, Counters, netVars, managerVars
<1>6. RoundInv'
  <2> SUFFICES ASSUME NEW m \in Nodes
               PROVE  /\ \A q \in received_proposals'[m] : OfRound(m, q)
                      /\ current_proposal'[m] # None =>
                            /\ ~current_proposal'[m].wire /\ current_proposal'[m].proposer = m
                            /\ current_proposal'[m].epoch = current_epoch[m]
                      /\ stage'[m] \in {"proposed", "voted", "committed"} =>
                            current_proposal'[m] # None
    BY <1>2 DEF RoundInv, OfRound
  <2>1. CASE m = n
    BY <1>1, <1>2, <2>1 DEF NodeInv, NodeTypeOK, RoundInv, OfRound
  <2>2. CASE m # n
    BY <1>2, <2>2 DEF NodeInv, NodeTypeOK, RoundInv, OfRound
  <2> QED BY <2>1, <2>2
<1>7. Reached' /\ ManagerRecordsBlocks' /\ SelfCertified'
  BY <1>2, BlocksFrame
<1> QED BY <1>3, <1>4, <1>5, <1>6, <1>7 DEF NodeInv

\* The proposer votes for its own proposal, as it has it.
LEMMA VoteNodeInv ==
    ASSUME NodeInv, NEW n \in Nodes, SelfPreVote(n) \/ TryPreCommit(n)
    PROVE  NodeInv'
<1> DEFINE p == current_proposal[n]
<1>1. p \in Proposals /\ ~p.wire /\ p.proposer = n
  BY EpochsAreRuns DEF NodeInv, NodeTypeOK, RoundInv, SelfPreVote, TryPreCommit
<1>2. /\ \E s \in {"voted", "committed"} : stage' = [stage EXCEPT ![n] = s]
      /\ stage[n] \in {"proposed", "voted"}
      /\ UNCHANGED <<clock, netVars, current_epoch, current_proposal, received_proposals,
                     pre_vote_choices, pre_commit_choices, finalized_blocks, managerVars>>
  BY DEF SelfPreVote, TryPreCommit, To
<1>3. /\ pre_votes' = [pre_votes EXCEPT ![n] = @ \cup {<<p, n>>}] \/ UNCHANGED pre_votes
      /\ pre_commits' = [pre_commits EXCEPT ![n] = @ \cup {<<p, n>>}] \/ UNCHANGED pre_commits
      /\ Broadcast(n, "pre-vote", p) \/ Broadcast(n, "pre-commit", p) \/ UNCHANGED sent
  BY DEF SelfPreVote, TryPreCommit
<1> HIDE DEF p
<1>4. sent' \subseteq Messages /\ SentInv'
  <2>1. CASE Broadcast(n, "pre-vote", p)
    BY <1>1, <2>1, BroadcastEffect DEF NodeInv
  <2>2. CASE Broadcast(n, "pre-commit", p)
    BY <1>1, <2>2, BroadcastEffect DEF NodeInv
  <2>3. CASE UNCHANGED sent
    BY <2>3 DEF NodeInv, NodeTypeOK, SentInv
  <2> QED BY <1>3, <2>1, <2>2, <2>3
<1>5. <<p, n>> \in Votes
  BY <1>1 DEF Votes
<1>6. pre_votes' \in [Nodes -> SUBSET Votes] /\ pre_commits' \in [Nodes -> SUBSET Votes]
  <2>1. pre_votes \in [Nodes -> SUBSET Votes] /\ pre_commits \in [Nodes -> SUBSET Votes]
    BY DEF NodeInv, NodeTypeOK
  <2>2. pre_votes' \in [Nodes -> SUBSET Votes]
    BY <1>3, <1>5, <2>1
  <2>3. pre_commits' \in [Nodes -> SUBSET Votes]
    BY <1>3, <1>5, <2>1
  <2> QED BY <2>2, <2>3
<1>7. NodeTypeOK'
  <2>1. stage' \in [Nodes -> Phases]
    BY <1>2 DEF NodeInv, NodeTypeOK, Phases
  <2> QED BY <1>2, <1>4, <1>6, <2>1 DEF NodeInv, NodeTypeOK, netVars, managerVars, Phases
<1>8. NoSelfLink' /\ Counters'
  BY <1>2 DEF NodeInv, NoSelfLink, Counters, netVars, managerVars
<1>9. RoundInv'
  BY <1>2 DEF NodeInv, NodeTypeOK, RoundInv, OfRound
<1>10. TallyInv'
  <2>1. \A m \in Nodes : \A x \in pre_commits'[m] : x \in pre_commits[m] \/ (m = n /\ x = <<p, n>>)
    BY <1>3 DEF NodeInv, NodeTypeOK
  <2> QED BY <2>1 DEF NodeInv, TallyInv, OwnOrForeign
<1>11. Reached' /\ ManagerRecordsBlocks' /\ SelfCertified'
  BY <1>2, BlocksFrame
<1> QED BY <1>4, <1>7, <1>8, <1>9, <1>10, <1>11 DEF NodeInv

\* The end of run_epoch finalizes what the pre-commits certify, if anything.
LEMMA EndEpochNodeInv ==
    ASSUME NodeInv, NEW n \in Nodes, EndEpoch(n)
    PROVE  NodeInv'
<1>1. /\ stage' = [stage EXCEPT ![n] = "idle"]
      /\ UNCHANGED <<clock, netVars, roundVars, em_epoch, sent>>
  BY DEF EndEpoch, To
<1>2. /\ finalized_blocks' \in [Nodes -> [Epochs -> Blocks \cup {None}]]
      /\ epochs' \in [Nodes -> [Runs -> EpochStates \cup {None}]]
      /\ Reached' /\ ManagerRecordsBlocks' /\ SelfCertified'
  <2>1. CASE UNCHANGED <<finalized_blocks, epochs>>
    BY <1>1, <2>1, BlocksFrame DEF NodeInv, NodeTypeOK, managerVars
  <2>2. ASSUME NEW p \in Candidates(n), Finalize(n, pre_commits[n], p)
        PROVE  /\ finalized_blocks' \in [Nodes -> [Epochs -> Blocks \cup {None}]]
               /\ epochs' \in [Nodes -> [Runs -> EpochStates \cup {None}]]
               /\ Reached' /\ ManagerRecordsBlocks' /\ SelfCertified'
    <3>1. Finalizable(n, pre_commits[n], p)
      BY DEF Candidates
    <3>2. p \in Proposals
      BY <3>1 DEF Finalizable, NodeInv, NodeTypeOK
    <3>3. \A x \in pre_commits[n] : OwnOrForeign(n, x)
      BY DEF NodeInv, TallyInv
    <3>4. em_epoch' = em_epoch
      BY <1>1
    <3> QED BY <2>2, <3>1, <3>2, <3>3, <3>4, FinalizeEffect
  <2> QED BY <2>1, <2>2 DEF EndEpoch
<1>3. NodeTypeOK'
  <2>1. stage' \in [Nodes -> Phases]
    BY <1>1 DEF NodeInv, NodeTypeOK, Phases
  <2> QED BY <1>1, <1>2, <2>1 DEF NodeInv, NodeTypeOK, netVars, roundVars, Phases
<1>4. NoSelfLink' /\ SentInv' /\ TallyInv' /\ Counters'
  BY <1>1 DEF NodeInv, NoSelfLink, SentInv, TallyInv, OwnOrForeign, Counters, netVars, roundVars
<1>5. RoundInv'
  BY <1>1 DEF NodeInv, NodeTypeOK, RoundInv, OfRound, roundVars
<1> QED BY <1>2, <1>3, <1>4, <1>5 DEF NodeInv

\* The messages in flight have the fields of their type.
LEMMA MessageFields ==
    ASSUME NodeInv, NEW m \in sent
    PROVE  /\ m.sender \in Nodes /\ m.proposal \in Proposals /\ m.to # m.sender
           /\ <<m.proposal, m.sender>> \in Votes
BY DEF NodeInv, NodeTypeOK, SentInv, Messages, Votes

\* A proposal received is a wire form of the round.
LEMMA ReceiveProposalNodeInv ==
    ASSUME NodeInv, NEW n \in Nodes, NEW m \in sent, ReceiveProposal(n, m),
           UNCHANGED <<clock, stage, netVars, em_epoch>>
    PROVE  NodeInv'
<1> DEFINE p == m.proposal
<1>1. p \in Proposals /\ p.wire /\ p.epoch = current_epoch[n] /\ <<p, n>> \in Votes
  BY MessageFields DEF NodeInv, SentInv, ReceiveProposal, Votes
<1>2. /\ received_proposals' = [received_proposals EXCEPT ![n] = @ \cup {p}]
      /\ pre_votes' = [pre_votes EXCEPT ![n] = @ \cup {<<p, n>>}]
      /\ Broadcast(n, "pre-vote", p)
      /\ UNCHANGED <<clock, stage, netVars, em_epoch, current_epoch, current_proposal, pre_commits,
                     pre_vote_choices, pre_commit_choices, finalized_blocks, epochs>>
  BY DEF ReceiveProposal
<1> HIDE DEF p
<1>3. sent' \subseteq Messages /\ SentInv'
  BY <1>1, <1>2, BroadcastEffect DEF NodeInv
<1>4. NodeTypeOK'
  <2>1. received_proposals' \in [Nodes -> SUBSET Proposals]
    BY <1>1, <1>2 DEF NodeInv, NodeTypeOK
  <2>2. pre_votes' \in [Nodes -> SUBSET Votes]
    BY <1>1, <1>2 DEF NodeInv, NodeTypeOK
  <2> QED BY <1>2, <1>3, <2>1, <2>2 DEF NodeInv, NodeTypeOK, netVars
<1>5. NoSelfLink' /\ TallyInv' /\ Counters'
  BY <1>2 DEF NodeInv, NoSelfLink, TallyInv, OwnOrForeign, Counters, netVars
<1>6. RoundInv'
  <2>1. \A k \in Nodes : \A q \in received_proposals'[k] : OfRound(k, q)
    BY <1>1, <1>2 DEF NodeInv, NodeTypeOK, RoundInv, OfRound
  <2>2. \A k \in Nodes : \A q : OfRound(k, q)' <=> OfRound(k, q)
    BY <1>2 DEF OfRound
  <2> QED BY <1>2, <2>1, <2>2 DEF NodeInv, RoundInv
<1>7. Reached' /\ ManagerRecordsBlocks' /\ SelfCertified'
  BY <1>2, BlocksFrame DEF managerVars
<1> QED BY <1>3, <1>4, <1>5, <1>6, <1>7 DEF NodeInv

\* The pre-commit a pre-vote leads to is the node's own.
LEMMA ReceivePreVoteNodeInv ==
    ASSUME NodeInv, NEW n \in Nodes, NEW m \in sent, ReceivePreVote(n, m),
           UNCHANGED <<clock, stage, netVars, em_epoch>>
    PROVE  NodeInv'
<1> DEFINE p == m.proposal
           x == <<p, m.sender>>
           y == <<p, n>>
<1>1. p \in Proposals /\ m.sender \in Nodes /\ x \in Votes /\ y \in Votes /\ y[2] = n
  BY MessageFields DEF Votes
<1>2. /\ pre_vote_choices' = [pre_vote_choices EXCEPT ![n][m.sender] = p]
      /\ pre_votes' = [pre_votes EXCEPT ![n] = pre_votes[n] \cup {x}]
      /\ \/ pre_commits' = [pre_commits EXCEPT ![n] = @ \cup {y}]
         \/ pre_commits' = [pre_commits EXCEPT ![n] = @]
      /\ UNCHANGED <<clock, stage, netVars, em_epoch, current_epoch, current_proposal,
                     received_proposals, pre_commit_choices, finalized_blocks, epochs, sent>>
  BY DEF ReceivePreVote
<1> HIDE DEF p, x, y
<1>3. NodeTypeOK'
  <2>1. pre_votes' \in [Nodes -> SUBSET Votes]
    BY <1>1, <1>2 DEF NodeInv, NodeTypeOK
  <2>2. pre_commits' \in [Nodes -> SUBSET Votes]
    <3>1. pre_commits \in [Nodes -> SUBSET Votes]
      BY DEF NodeInv, NodeTypeOK
    <3> QED BY <1>1, <1>2, <3>1
  <2>3. pre_vote_choices' \in [Nodes -> [Nodes -> Proposals \cup {None}]]
    BY <1>1, <1>2 DEF NodeInv, NodeTypeOK
  <2> QED BY <1>2, <2>1, <2>2, <2>3 DEF NodeInv, NodeTypeOK, netVars
<1>4. NoSelfLink' /\ SentInv' /\ Counters'
  BY <1>2 DEF NodeInv, NoSelfLink, SentInv, Counters, netVars
<1>5. RoundInv'
  BY <1>2 DEF NodeInv, RoundInv, OfRound
<1>6. TallyInv'
  <2>1. \A k \in Nodes : \A z \in pre_commits'[k] : z \in pre_commits[k] \/ (k = n /\ z = y)
    BY <1>2 DEF NodeInv, NodeTypeOK
  <2> QED BY <1>1, <2>1 DEF NodeInv, TallyInv, OwnOrForeign
<1>7. Reached' /\ ManagerRecordsBlocks' /\ SelfCertified'
  BY <1>2, BlocksFrame DEF managerVars
<1> QED BY <1>3, <1>4, <1>5, <1>6, <1>7 DEF NodeInv

\* A pre-commit received is for its sender's own proposal, which the node has not
\* received in that form.
LEMMA ReceivePreCommitNodeInv ==
    ASSUME NodeInv, NEW n \in Nodes, NEW m \in sent, ReceivePreCommit(n, m),
           UNCHANGED <<clock, stage, netVars, em_epoch>>
    PROVE  NodeInv'
<1> DEFINE p == m.proposal
           x == <<p, m.sender>>
           tally == pre_commits[n] \cup {x}
<1>1. /\ p \in Proposals /\ m.sender \in Nodes /\ x \in Votes
      /\ ~p.wire /\ p.proposer = m.sender
  BY MessageFields DEF NodeInv, SentInv, ReceivePreCommit
<1>2. \A z \in tally : OwnOrForeign(n, z)
  <2>1. x[1] = p /\ x[2] = m.sender
    OBVIOUS
  <2> HIDE DEF p, x
  <2> QED BY <1>1, <2>1 DEF NodeInv, TallyInv, OwnOrForeign
<1>3. /\ pre_commit_choices' = [pre_commit_choices EXCEPT ![n][m.sender] = p]
      /\ pre_commits' = [pre_commits EXCEPT ![n] = tally]
      /\ \/ Finalizable(n, tally, p) /\ Finalize(n, tally, p)
         \/ UNCHANGED <<finalized_blocks, epochs>>
      /\ UNCHANGED <<clock, stage, netVars, em_epoch, current_epoch, current_proposal,
                     received_proposals, pre_votes, pre_vote_choices, sent>>
  BY DEF ReceivePreCommit
<1> HIDE DEF p, x
<1>4. /\ finalized_blocks' \in [Nodes -> [Epochs -> Blocks \cup {None}]]
      /\ epochs' \in [Nodes -> [Runs -> EpochStates \cup {None}]]
      /\ Reached' /\ ManagerRecordsBlocks' /\ SelfCertified'
  <2>1. CASE UNCHANGED <<finalized_blocks, epochs>>
    BY <1>3, <2>1, BlocksFrame DEF NodeInv, NodeTypeOK, managerVars
  <2>2. CASE Finalizable(n, tally, p) /\ Finalize(n, tally, p)
    <3> HIDE DEF tally
    <3>1. em_epoch' = em_epoch
      BY <1>3
    <3> QED BY <1>1, <1>2, <2>2, <3>1, FinalizeEffect
  <2> QED BY <1>3, <2>1, <2>2
<1>5. NodeTypeOK'
  <2>1. pre_commits' \in [Nodes -> SUBSET Votes]
    BY <1>1, <1>3 DEF NodeInv, NodeTypeOK
  <2>2. pre_commit_choices' \in [Nodes -> [Nodes -> Proposals \cup {None}]]
    BY <1>1, <1>3 DEF NodeInv, NodeTypeOK
  <2> QED BY <1>3, <1>4, <2>1, <2>2 DEF NodeInv, NodeTypeOK, netVars
<1>6. NoSelfLink' /\ SentInv' /\ Counters'
  BY <1>3 DEF NodeInv, NoSelfLink, SentInv, Counters, netVars
<1>7. RoundInv'
  BY <1>3 DEF NodeInv, RoundInv, OfRound
<1>8. TallyInv'
  <2> HIDE DEF tally
  <2> QED BY <1>2, <1>3 DEF NodeInv, NodeTypeOK, TallyInv, OwnOrForeign
<1> QED BY <1>4, <1>5, <1>6, <1>7, <1>8 DEF NodeInv

LEMMA StepNodeInv == ASSUME NodeInv, [Next]_vars PROVE NodeInv'
<1>1. CASE UNCHANGED vars
  <2> USE <1>1 DEF vars, netVars, roundVars, managerVars
  <2>1. NodeTypeOK'
    BY DEF NodeInv, NodeTypeOK
  <2>2. NoSelfLink' /\ SentInv' /\ TallyInv' /\ Counters'
    BY DEF NodeInv, NoSelfLink, SentInv, TallyInv, OwnOrForeign, Counters
  <2>3. RoundInv'
    BY DEF NodeInv, RoundInv, OfRound
  <2> QED BY <2>1, <2>2, <2>3, BlocksFrame DEF NodeInv
<1>2. ASSUME NEW n \in Nodes, RunLoop(n) PROVE NodeInv'
  BY <1>2, NetNodeInv, RunEpochNodeInv, ProposeNodeInv, VoteNodeInv, EndEpochNodeInv DEF RunLoop
<1>3. ASSUME NEW n \in Nodes, Stop(n) \/ Tick(n) \/ \E m \in Nodes : Connect(n, m) PROVE NodeInv'
  BY <1>3, NetNodeInv
<1>4. ASSUME NEW n \in Nodes, NEW m \in sent, HandleMessage(n, m) PROVE NodeInv'
  BY <1>4, ReceiveProposalNodeInv, ReceivePreVoteNodeInv, ReceivePreCommitNodeInv
     DEF HandleMessage
<1> QED BY <1>1, <1>2, <1>3, <1>4 DEF Next

LEMMA InvariantNodeInv == Spec => []NodeInv
<1>1. NodeInv /\ [Next]_vars => NodeInv'
  BY StepNodeInv
<1> QED BY InitNodeInv, <1>1, PTL DEF Spec

-----------------------------------------------------------------------------
(* Theorems *)

\* Every part of a node's state keeps its type, whatever order messages are handled in.
THEOREM NodeTypes == Spec => []NodeTypeOK
<1>1. NodeInv => NodeTypeOK
  BY DEF NodeInv
<1> QED BY InvariantNodeInv, <1>1, PTL

\* For any number of runs and ticks of the clock, the manager's state of an epoch
\* has the block the engine finalized last for it, and no other epoch has one.
THEOREM ManagerFollowsEngine == Spec => []ManagerRecordsBlocks
<1>1. NodeInv => ManagerRecordsBlocks
  BY DEF NodeInv
<1> QED BY InvariantNodeInv, <1>1, PTL

\* For any stakes and links, and whatever is sent, repeated, delayed or lost, a block
\* a node finalizes over P2P is certified by that node's pre-commit alone.
THEOREM BlocksAreSelfCertified == Spec => []SelfCertified
<1>1. NodeInv => SelfCertified
  BY DEF NodeInv
<1> QED BY InvariantNodeInv, <1>1, PTL
=============================================================================
