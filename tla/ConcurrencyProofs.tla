-------------------------- MODULE ConcurrencyProofs --------------------------
(***************************************************************************)
(* Proofs about the parts of a node that several threads or tasks share:   *)
(* the connections of PeerManager and P2PNode (Peers), for any number of   *)
(* validators and connections and any limit, and ShardedUTXOSet            *)
(* (ShardedUTXO), for any number of threads, outputs, shards, addresses    *)
(* and batches.                                                            *)
(***************************************************************************)
EXTENDS Peers, ShardedUTXO, FiniteSetTheorems, TLAPS

-----------------------------------------------------------------------------
(***************************************************************************)
(* Connections: the limit holds although it is tested before the           *)
(* handshake, and while the node runs every registered peer is looked      *)
(* after.                                                                  *)
(*                                                                         *)
(* PeersServed is not inductive alone.  A connection must not be closed    *)
(* before it is registered (OpenBeforeRegistered), or add_peer would       *)
(* register a closed one; the tasks after the handshake must know whose    *)
(* connection it is (IdKnown), since _close_peer goes by that id; and      *)
(* before start() no connection may exist (NothingBeforeStart).            *)
(***************************************************************************)

Serving == {"exchanging", "starting", "reading"}
UpToRunning == mode \in {"new", "running"}

NothingBeforeStart == mode = "new" => \A c \in Conns : stage[c] = "unused"

IdKnown == \A c \in Conns : stage[c] \in Serving \cup {"responding"} => vid[c] \in Validators

Served(v) ==
    /\ vid[peers[v]] = v
    /\ peers[v] \notin closed
    /\ stage[peers[v]] \in Serving

ServedUpToRunning == UpToRunning => \A v \in Connected : Served(v)

OpenBeforeRegistered ==
    UpToRunning => \A c \in closed : stage[c] \in Serving \cup {"ended"}

ServedInv ==
    /\ PeersTypeOK
    /\ NothingBeforeStart
    /\ IdKnown
    /\ ServedUpToRunning
    /\ OpenBeforeRegistered

-----------------------------------------------------------------------------
\* Nothing is registered, closed or under way at the start.
LEMMA InitServedInv == PeersInit => ServedInv
  BY PeersAssumption DEF PeersInit, ServedInv, PeersTypeOK, Modes, Stages, NothingBeforeStart, IdKnown,
                         ServedUpToRunning, Connected, Serving, OpenBeforeRegistered

\* A task ends and closes its writer or leaves it open; its connection was not
\* registered.
LEMMA EndUnregistered ==
    ASSUME ServedInv, NEW c \in Conns, stage[c] \notin Serving, mode # "new",
           HangUp(c) \/ (End(c) /\ UNCHANGED closed),
           UNCHANGED <<mode, peers, broken, stale, stopping>>
    PROVE  ServedInv'
<1> USE PeersAssumption DEF ServedInv, HangUp, End, To, PeersTypeOK
<1>1. PeersTypeOK'
  BY DEF Stages
<1>2. NothingBeforeStart' /\ IdKnown'
  BY DEF NothingBeforeStart, IdKnown, Serving
<1>3. ServedUpToRunning'
  BY DEF ServedUpToRunning, UpToRunning, Connected, Served, Serving
<1>4. OpenBeforeRegistered'
  BY DEF OpenBeforeRegistered, UpToRunning, Serving
<1> QED BY <1>1, <1>2, <1>3, <1>4

\* add_peer registers a connection that is open and unregistered, in the place
\* of one that stays open; or it is refused.
LEMMA AddPeerServedInv ==
    ASSUME ServedInv, NEW c \in Conns, NEW v \in Validators,
           stage[c] \in {"greeted", "responding"}, AddPeer(c, v),
           UNCHANGED <<mode, broken, stale, stopping>>
    PROVE  ServedInv'
<1>a. mode # "new"
  BY DEF ServedInv, NothingBeforeStart
<1>1. CASE HangUp(c) /\ UNCHANGED peers
  BY <1>a, <1>1, EndUnregistered DEF Serving
<1>2. CASE /\ peers' = [peers EXCEPT ![v] = c] /\ To(c, "exchanging")
           /\ vid' = [vid EXCEPT ![c] = v] /\ UNCHANGED closed
  <2> USE <1>2, PeersAssumption DEF ServedInv, PeersTypeOK, To
  <2>1. PeersTypeOK'
    BY DEF Stages
  <2>2. NothingBeforeStart' /\ IdKnown'
    BY <1>a DEF NothingBeforeStart, IdKnown, Serving
  <2>3. UpToRunning => c \notin closed
    BY DEF OpenBeforeRegistered, Serving
  <2>4. ASSUME UpToRunning, NEW w \in Connected' PROVE Served(w)'
    <3>1. CASE w = v
      BY <2>3, <2>4, <3>1 DEF Served, Serving
    <3>2. CASE w # v
      <4>1. peers'[w] = peers[w] /\ w \in Connected
        BY <2>4, <3>2 DEF Connected
      <4>2. Served(w) /\ peers[w] # c
        BY <2>4, <4>1 DEF ServedUpToRunning, Served, Serving
      <4> QED BY <4>1, <4>2 DEF Served, Connected
    <3> QED BY <3>1, <3>2
  <2>5. ServedUpToRunning'
    BY <2>4 DEF ServedUpToRunning, UpToRunning
  <2>6. OpenBeforeRegistered'
    BY DEF OpenBeforeRegistered, UpToRunning, Serving
  <2> QED BY <2>1, <2>2, <2>5, <2>6
<1> QED BY <1>1, <1>2 DEF AddPeer

\* _close_peer takes a served connection out and closes only that one.
LEMMA ClosePeerServed ==
    ASSUME ServedInv, NEW v \in Validators, ClosePeer(v)
    PROVE  /\ peers' \in [Validators -> Conns \cup {Absent}] /\ closed' \subseteq Conns
           /\ UpToRunning => /\ \A w \in Connected' : w \in Connected /\ w # v /\ peers'[w] = peers[w]
                                                      /\ peers[w] \notin closed'
                             /\ \A c \in closed' : stage[c] \in Serving \cup {"ended"}
<1> USE PeersAssumption DEF ServedInv, PeersTypeOK, ClosePeer
<1>1. peers' \in [Validators -> Conns \cup {Absent}] /\ closed' \subseteq Conns
  OBVIOUS
<1>2. \A w \in Connected' : w \in Connected /\ w # v /\ peers'[w] = peers[w]
  BY DEF Connected
<1>3. ASSUME UpToRunning, NEW w \in Connected, w # v PROVE peers[w] \notin closed'
  <2>1. Served(w)
    BY <1>3 DEF ServedUpToRunning
  <2>2. peers[w] # peers[v]
    BY <1>3, <2>1 DEF ServedUpToRunning, Connected, Served
  <2> QED BY <2>1, <2>2 DEF Served
<1>4. ASSUME UpToRunning, NEW c \in closed' PROVE stage[c] \in Serving \cup {"ended"}
  <2>1. CASE c \in closed
    BY <1>4, <2>1 DEF OpenBeforeRegistered
  <2>2. CASE c = peers[v] /\ v \in Connected
    BY <1>4, <2>2 DEF ServedUpToRunning, Served
  <2> QED BY <2>1, <2>2 DEF Connected
<1> QED BY <1>1, <1>2, <1>3, <1>4

-----------------------------------------------------------------------------
\* One lemma for the actions of each task

LEMMA OpenServedInv ==
    ASSUME ServedInv, NEW c \in Conns, ConnectToPeer(c) \/ Opened(c) \/ HandleInbound(c)
    PROVE  ServedInv'
<1>a. mode # "new"
  BY DEF ServedInv, NothingBeforeStart, ConnectToPeer, Opened, HandleInbound
<1>b. stage[c] \in {"unused", "dialing"}
  BY DEF ConnectToPeer, Opened, HandleInbound, NewConn
<1>1. CASE HangUp(c) /\ UNCHANGED <<mode, peers, broken, stale, stopping>>
  BY <1>a, <1>b, <1>1, EndUnregistered DEF Serving
<1>2. CASE /\ To(c, "dialing") \/ To(c, "greeted") \/ To(c, "accepted") \/ To(c, "ended")
           /\ UNCHANGED <<mode, peers, vid, broken, closed, stale, stopping>>
  <2> USE <1>a, <1>b, <1>2, PeersAssumption DEF ServedInv, PeersTypeOK, To
  <2>1. PeersTypeOK'
    BY DEF Stages
  <2>2. NothingBeforeStart' /\ IdKnown'
    BY DEF NothingBeforeStart, IdKnown, Serving
  <2>3. ServedUpToRunning'
    BY DEF ServedUpToRunning, UpToRunning, Connected, Served, Serving
  <2>4. OpenBeforeRegistered'
    BY DEF OpenBeforeRegistered, UpToRunning, Serving
  <2> QED BY <2>1, <2>2, <2>3, <2>4
<1> QED BY <1>1, <1>2 DEF ConnectToPeer, Opened, HandleInbound

LEMMA HandshakeServedInv ==
    ASSUME ServedInv, NEW c \in Conns,
           (\E v \in Presents[c] : Handshake(c, v)) \/ HandshakeFails(c) \/ Respond(c)
    PROVE  ServedInv'
<1>a. mode # "new"
  BY DEF ServedInv, NothingBeforeStart, Handshake, HandshakeFails, Respond
<1>1. ASSUME NEW v \in Presents[c], Handshake(c, v) PROVE ServedInv'
  <2>a. v \in Validators
    BY PeersAssumption
  <2>1. CASE stage[c] = "greeted"
    BY <1>1, <2>a, <2>1, AddPeerServedInv DEF Handshake
  <2>2. CASE stage[c] = "accepted" /\ HangUp(c)
    BY <1>a, <1>1, <2>2, EndUnregistered DEF Handshake, Serving
  <2>3. CASE /\ stage[c] = "accepted" /\ To(c, "responding")
             /\ vid' = [vid EXCEPT ![c] = v] /\ UNCHANGED closed
    <3> USE <1>a, <1>1, <2>a, <2>3, PeersAssumption DEF ServedInv, PeersTypeOK, To, Handshake
    <3>0. UNCHANGED <<mode, peers, broken, stale, stopping>>
      OBVIOUS
    <3>1. PeersTypeOK'
      BY <3>0 DEF Stages
    <3>2. NothingBeforeStart' /\ IdKnown'
      BY <3>0 DEF NothingBeforeStart, IdKnown, Serving
    <3>3. ServedUpToRunning'
      BY <3>0 DEF ServedUpToRunning, UpToRunning, Connected, Served, Serving
    <3>4. OpenBeforeRegistered'
      BY <3>0 DEF OpenBeforeRegistered, UpToRunning, Serving
    <3> QED BY <3>1, <3>2, <3>3, <3>4
  <2> QED BY <1>1, <2>1, <2>2, <2>3 DEF Handshake
<1>2. CASE HandshakeFails(c)
  BY <1>a, <1>2, EndUnregistered DEF HandshakeFails, Serving
<1>3. CASE Respond(c)
  <2>1. stage[c] = "responding" /\ vid[c] \in Validators
    BY <1>3 DEF Respond, ServedInv, IdKnown
  <2>2. CASE AddPeer(c, vid[c])
    BY <1>3, <2>1, <2>2, AddPeerServedInv DEF Respond
  <2>3. CASE End(c) /\ UNCHANGED <<peers, closed>>
    BY <1>a, <1>3, <2>1, <2>3, EndUnregistered DEF Respond, Serving
  <2> QED BY <1>3, <2>2, <2>3 DEF Respond
<1> QED BY <1>1, <1>2, <1>3

LEMMA ServingServedInv ==
    ASSUME ServedInv, NEW c \in Conns,
           ExchangePeerLists(c) \/ StartReading(c) \/ Break(c)
    PROVE  ServedInv'
<1> USE PeersAssumption
    DEF ServedInv, PeersTypeOK, ExchangePeerLists, StartReading, Break, To
<1>1. PeersTypeOK'
  BY DEF Stages
<1>2. NothingBeforeStart' /\ IdKnown'
  BY DEF NothingBeforeStart, IdKnown, Serving
<1>3. ServedUpToRunning'
  BY DEF ServedUpToRunning, UpToRunning, Connected, Served, Serving
<1>4. OpenBeforeRegistered'
  BY DEF OpenBeforeRegistered, UpToRunning, Serving
<1> QED BY <1>1, <1>2, <1>3, <1>4

\* The finally clause closes whatever is registered under the id; the connection
\* of the task itself was registered there or nowhere.
LEMMA EndReadLoopServedInv ==
    ASSUME ServedInv, NEW c \in Conns, EndReadLoop(c)
    PROVE  ServedInv'
<1> DEFINE v == vid[c]
<1>1. /\ v \in Validators /\ stage[c] \in Serving
  BY DEF EndReadLoop, Serving, ServedInv, IdKnown
<1>2. /\ stage' = [stage EXCEPT ![c] = "ended"] /\ vid' = [vid EXCEPT ![c] = Absent]
      /\ UNCHANGED <<mode, broken, stale, stopping>>
  BY DEF EndReadLoop, End, To
<1>3. /\ peers' \in [Validators -> Conns \cup {Absent}] /\ closed' \subseteq Conns
      /\ UpToRunning => /\ \A w \in Connected' : w \in Connected /\ w # v /\ peers'[w] = peers[w]
                                                 /\ peers[w] \notin closed'
                        /\ \A d \in closed' : stage[d] \in Serving \cup {"ended"}
  BY <1>1, ClosePeerServed DEF EndReadLoop
<1> HIDE DEF v
<1>4. PeersTypeOK'
  BY <1>2, <1>3, PeersAssumption DEF ServedInv, PeersTypeOK, Stages
<1>5. NothingBeforeStart' /\ IdKnown'
  BY <1>1, <1>2 DEF ServedInv, PeersTypeOK, NothingBeforeStart, IdKnown, Serving
<1>6. ServedUpToRunning'
  <2> SUFFICES ASSUME UpToRunning, NEW w \in Connected' PROVE Served(w)'
    BY <1>2 DEF ServedUpToRunning, UpToRunning
  <2>1. w \in Connected /\ w # v /\ peers'[w] = peers[w] /\ peers[w] \notin closed'
    BY <1>3
  <2>2. Served(w) /\ peers[w] \in Conns
    BY <2>1 DEF ServedInv, ServedUpToRunning, Connected, PeersTypeOK
  <2>3. peers[w] # c
    BY <2>1, <2>2 DEF Served, v
  <2> QED BY <1>2, <2>1, <2>2, <2>3 DEF Served, ServedInv, PeersTypeOK
<1>7. OpenBeforeRegistered'
  BY <1>2, <1>3 DEF OpenBeforeRegistered, UpToRunning, Serving, ServedInv, PeersTypeOK
<1> QED BY <1>4, <1>5, <1>6, <1>7 DEF ServedInv

LEMMA PruneServedInv ==
    ASSUME ServedInv, NEW v \in Validators, Prune(v) \/ StopPeer(v)
    PROVE  ServedInv'
<1>1. ClosePeer(v) /\ UNCHANGED <<mode, stage, vid, broken>>
  BY DEF Prune, StopPeer
<1>2. /\ peers' \in [Validators -> Conns \cup {Absent}] /\ closed' \subseteq Conns
      /\ UpToRunning => /\ \A w \in Connected' : w \in Connected /\ w # v /\ peers'[w] = peers[w]
                                                 /\ peers[w] \notin closed'
                        /\ \A c \in closed' : stage[c] \in Serving \cup {"ended"}
  BY <1>1, ClosePeerServed
<1>3. PeersTypeOK'
  BY <1>1, <1>2 DEF ServedInv, PeersTypeOK, Prune, StopPeer
<1>4. NothingBeforeStart' /\ IdKnown'
  BY <1>1 DEF ServedInv, NothingBeforeStart, IdKnown
<1>5. ServedUpToRunning' /\ OpenBeforeRegistered'
  BY <1>1, <1>2 DEF ServedInv, ServedUpToRunning, OpenBeforeRegistered, UpToRunning, Served
<1> QED BY <1>3, <1>4, <1>5 DEF ServedInv

\* stop() ends tasks of registered peers, but the node runs no longer.
LEMMA NodeServedInv ==
    ASSUME ServedInv, Start \/ (\E S \in SUBSET Validators : FindStale(S)) \/ Stop \/ StopServer
    PROVE  ServedInv'
<1> USE DEF ServedInv, PeersTypeOK
<1>1. CASE Start
  BY <1>1, PeersAssumption DEF Start, Modes, NothingBeforeStart, IdKnown, ServedUpToRunning, UpToRunning,
          Connected, Served, Serving, OpenBeforeRegistered
<1>2. ASSUME NEW S \in SUBSET Validators, FindStale(S) PROVE ServedInv'
  BY <1>2 DEF FindStale, NothingBeforeStart, IdKnown, ServedUpToRunning, UpToRunning,
          Connected, Served, OpenBeforeRegistered
<1>3. CASE Stop
  <2> USE <1>3, PeersAssumption DEF Stop
  <2>1. PeersTypeOK'
    BY DEF Modes, Stages, Connected
  <2>2. IdKnown'
    BY DEF IdKnown, Serving
  <2> QED BY <2>1, <2>2 DEF NothingBeforeStart, ServedUpToRunning, OpenBeforeRegistered, UpToRunning
<1>4. CASE StopServer
  BY <1>4 DEF StopServer, Modes, NothingBeforeStart, IdKnown, ServedUpToRunning, UpToRunning,
          OpenBeforeRegistered
<1> QED BY <1>1, <1>2, <1>3, <1>4

LEMMA StepServedInv == ASSUME ServedInv, [PeersNext]_peersVars PROVE ServedInv'
<1>1. CASE PeersNext
  BY <1>1, OpenServedInv, HandshakeServedInv, ServingServedInv, EndReadLoopServedInv,
     PruneServedInv, NodeServedInv DEF PeersNext, ConnStep
<1>2. CASE UNCHANGED peersVars
  BY <1>2 DEF peersVars, ServedInv, PeersTypeOK, NothingBeforeStart, IdKnown, ServedUpToRunning,
          UpToRunning, Connected, Served, OpenBeforeRegistered
<1> QED BY <1>1, <1>2

LEMMA InvariantServedInv == PeersSpec => []ServedInv
<1>1. ServedInv /\ [PeersNext]_peersVars => ServedInv'
  BY StepServedInv
<1> QED BY InitServedInv, <1>1, PTL DEF PeersSpec

\* The fields of PeerManager and P2PNode keep their types, for any ids presented.
THEOREM PeersTypes == PeersSpec => []PeersTypeOK
<1>1. ServedInv => PeersTypeOK
  BY DEF ServedInv
<1> QED BY InvariantServedInv, <1>1, PTL

\* While the node runs, a registered peer has its read loop running or scheduled, an
\* open writer and the id its tasks will close it by, whatever the order in which
\* connections of one validator replace each other, break, go stale and end.
THEOREM RegisteredPeersAreServed == PeersSpec => []PeersServed
<1>1. ServedInv => PeersServed
  BY DEF ServedInv, ServedUpToRunning, UpToRunning, Served, Serving, PeersServed
<1> QED BY InvariantServedInv, <1>1, PTL

-----------------------------------------------------------------------------
\* The limit

\* Only add_peer registers, one id at a time and below the limit.
LEMMA StepWithinLimit ==
    ASSUME ServedInv, PeersWithinLimit, [PeersNext]_peersVars
    PROVE  PeersWithinLimit'
<1>1. IsFiniteSet(Connected) /\ IsFiniteSet(Connected')
  BY PeersAssumption, FS_Subset DEF Connected
<1>2. \/ Connected' \subseteq Connected
      \/ CanAcceptPeer /\ \E v \in Validators : Connected' \subseteq Connected \cup {v}
  <2>1. ASSUME NEW v \in Validators, ClosePeer(v) PROVE Connected' \subseteq Connected
    BY <2>1 DEF ClosePeer, Connected, ServedInv, PeersTypeOK
  <2>2. ASSUME NEW c \in Conns, NEW v \in Validators, AddPeer(c, v)
        PROVE  \/ Connected' \subseteq Connected
               \/ CanAcceptPeer /\ Connected' \subseteq Connected \cup {v}
    BY <2>2 DEF AddPeer, Connected, ServedInv, PeersTypeOK
  <2>3. CASE UNCHANGED peers
    BY <2>3 DEF Connected
  <2>4. ASSUME NEW c \in Conns, NEW v \in Presents[c], Handshake(c, v), stage[c] = "greeted"
        PROVE  AddPeer(c, v) /\ v \in Validators
    BY <2>4, PeersAssumption DEF Handshake
  <2>5. ASSUME NEW c \in Conns, EndReadLoop(c) PROVE vid[c] \in Validators /\ ClosePeer(vid[c])
    BY <2>5 DEF EndReadLoop, ServedInv, IdKnown, Serving
  <2>6. ASSUME NEW c \in Conns, Respond(c)
        PROVE  UNCHANGED peers \/ (vid[c] \in Validators /\ AddPeer(c, vid[c]))
    BY <2>6 DEF Respond, ServedInv, IdKnown, Serving
  <2>7. CASE \E c \in Conns : EndReadLoop(c)
    BY <2>1, <2>5, <2>7
  <2>8. CASE \E c \in Conns : Respond(c)
    BY <2>2, <2>3, <2>6, <2>8
  <2>9. CASE \E c \in Conns : \E v \in Presents[c] : Handshake(c, v)
    <3>0. PICK c \in Conns : \E v \in Presents[c] : Handshake(c, v)
      BY <2>9
    <3>1. PICK v \in Presents[c] : Handshake(c, v)
      BY <3>0
    <3>2. UNCHANGED peers \/ stage[c] = "greeted"
      BY <3>1 DEF Handshake
    <3> QED BY <2>2, <2>3, <2>4, <3>1, <3>2
  <2>10. CASE \E v \in Validators : Prune(v) \/ StopPeer(v)
    BY <2>1, <2>10 DEF Prune, StopPeer
  <2>11. \/ UNCHANGED peers
         \/ \E c \in Conns : EndReadLoop(c) \/ Respond(c) \/ \E v \in Presents[c] : Handshake(c, v)
         \/ \E v \in Validators : Prune(v) \/ StopPeer(v)
    BY DEF PeersNext, peersVars, Start, ConnectToPeer, HandleInbound, Break, ConnStep, Opened, HandshakeFails,
           ExchangePeerLists, StartReading, FindStale, Stop, StopServer
  <2> QED BY <2>3, <2>7, <2>8, <2>9, <2>10, <2>11
<1>3. CASE Connected' \subseteq Connected
  <2>1. Cardinality(Connected') <= Cardinality(Connected)
    BY <1>1, <1>3, FS_Subset
  <2>2. Cardinality(Connected') \in Nat /\ Cardinality(Connected) \in Nat
    BY <1>1, FS_CardinalityType
  <2> QED BY <2>1, <2>2, PeersAssumption DEF PeersWithinLimit
<1>4. ASSUME CanAcceptPeer, NEW v \in Validators, Connected' \subseteq Connected \cup {v}
      PROVE  PeersWithinLimit'
  <2>1. /\ IsFiniteSet(Connected \cup {v})
        /\ Cardinality(Connected \cup {v}) =
              IF v \in Connected THEN Cardinality(Connected) ELSE Cardinality(Connected) + 1
    BY <1>1, FS_AddElement
  <2>2. Cardinality(Connected') <= Cardinality(Connected \cup {v})
    BY <1>4, <2>1, FS_Subset
  <2>3. Cardinality(Connected') \in Nat /\ Cardinality(Connected) \in Nat
    BY <1>1, FS_CardinalityType
  <2>4. Cardinality(Connected) < MAX_PEERS
    BY <1>4 DEF CanAcceptPeer
  <2> QED BY <2>1, <2>2, <2>3, <2>4, PeersAssumption DEF PeersWithinLimit
<1> QED BY <1>2, <1>3, <1>4

\* No more than MAX_PEERS peers are registered, however many handshakes pass the
\* first test of the limit and are suspended before they register.
THEOREM PeersAreLimited == PeersSpec => []PeersWithinLimit
<1>1. PeersInit => PeersWithinLimit
  <2> SUFFICES ASSUME PeersInit PROVE PeersWithinLimit
    OBVIOUS
  <2>1. Connected = {}
    BY PeersAssumption DEF PeersInit, Connected
  <2> QED BY <2>1, FS_EmptySet, PeersAssumption DEF PeersWithinLimit
<1>2. ServedInv /\ PeersWithinLimit /\ [PeersNext]_peersVars => PeersWithinLimit'
  BY StepWithinLimit
<1> QED BY <1>1, <1>2, InvariantServedInv, PTL DEF PeersSpec

-----------------------------------------------------------------------------
(* ShardedUTXOSet: types *)

\* A call is in exactly one of the forms its name says.
LEMMA CallForms ==
    ASSUME NEW c \in Calls
    PROVE  /\ c.name \in {"idle", "add_utxo", "spend_utxo", "get_balance", "process_batch"}
           /\ c.name = "idle" => c = Idle
           /\ c.name \in {"add_utxo", "spend_utxo"} =>
                 c \in [name : {"add_utxo", "spend_utxo"}, key : Outpoints]
           /\ c.name = "get_balance" => c \in BalanceCalls
           /\ c.name = "process_batch" => c \in BatchCalls
  BY DEF Calls, Idle, BalanceCalls, BatchCalls

\* The reference of a batch: a transaction of it and one of its inputs
LEMMA RefsOfBatch ==
    ASSUME NEW b \in Batches, NEW r \in Refs(b)
    PROVE  /\ r \in Nat \X Nat
           /\ r[1] \in DOMAIN b
           /\ b[r[1]] \in Transactions /\ b[r[1]].wellformed
           /\ r[2] \in DOMAIN b[r[1]].inputs
           /\ KeyAt(b, r) \in Outpoints
<1>1. b \in Seq(Transactions)
  BY ShardedAssumption
<1>2. PICK i \in {n \in DOMAIN b : b[n].wellformed} : r \in {i} \X DOMAIN b[i].inputs
  BY DEF Refs
<1>3. i \in Nat /\ b[i] \in Transactions
  BY <1>1
<1>4. b[i].inputs \in Seq(Outpoints)
  BY <1>3 DEF Transactions
<1>5. r[1] = i /\ r[2] \in DOMAIN b[i].inputs /\ r = <<i, r[2]>>
  BY <1>2
<1>6. r[2] \in Nat /\ b[i].inputs[r[2]] \in Outpoints
  BY <1>4, <1>5
<1> QED
  BY <1>2, <1>3, <1>5, <1>6 DEF KeyAt

\* What is left to check of a batch are references of the batch.
RefsInv ==
    \A t \in Threads : call[t].name = "process_batch" => call[t].refs \subseteq Refs(call[t].batch)

\* Every field and local variable keeps its type through a step.
LEMMA TypeStep == ShardedTypeOK /\ RefsInv /\ [Next]_vars => ShardedTypeOK'
<1> SUFFICES ASSUME ShardedTypeOK, RefsInv, [Next]_vars PROVE ShardedTypeOK'
  OBVIOUS
<1> USE DEF ShardedTypeOK
<1>0. CASE UNCHANGED vars
  BY <1>0 DEF vars
<1>1. ASSUME NEW t \in Threads, NEW k \in Outpoints, AddUtxo(t, k) PROVE ShardedTypeOK'
  BY <1>1 DEF AddUtxo, UTXOs, Calls
<1>2. ASSUME NEW t \in Threads, IndexUtxo(t) PROVE ShardedTypeOK'
  BY <1>2, CallForms, ShardedAssumption DEF IndexUtxo, Return, Calls
<1>3. ASSUME NEW t \in Threads, NEW k \in Outpoints, NEW tx \in Spenders, SpendUtxo(t, k, tx)
      PROVE  ShardedTypeOK'
  BY <1>3 DEF SpendUtxo, UTXOs, Calls
<1>4. ASSUME NEW t \in Threads, UnindexUtxo(t) PROVE ShardedTypeOK'
  BY <1>4, CallForms, ShardedAssumption DEF UnindexUtxo, Return, Calls
<1>5. ASSUME NEW t \in Threads, NEW a \in Addresses, NEW e \in Epochs, GetBalance(t, a, e)
      PROVE  ShardedTypeOK'
  BY <1>5 DEF GetBalance, Calls, BalanceCalls, Added, Spent
<1>6. ASSUME NEW t \in Threads, NEW k \in Outpoints, ReadUtxo(t, k) PROVE ShardedTypeOK'
  <2>1. call[t] \in BalanceCalls
    BY <1>6, CallForms DEF ReadUtxo
  <2>2. call'[t] \in BalanceCalls
    BY <2>1, <1>6 DEF ReadUtxo, BalanceCalls
  <2> QED
    BY <2>2, <1>6 DEF ReadUtxo, Calls
<1>7. ASSUME NEW t \in Threads, ReturnBalance(t) PROVE ShardedTypeOK'
  BY <1>7 DEF ReturnBalance, Return, Calls
<1>8. ASSUME NEW t \in Threads, NEW b \in Batches, NEW e \in Epochs, ProcessBatch(t, b, e)
      PROVE  ShardedTypeOK'
  <2>2. Refs(b) \subseteq Nat \X Nat
    BY RefsOfBatch
  <2>3. \A r \in Refs(b) : KeyAt(b, r) \in Outpoints
    BY RefsOfBatch
  <2>4. call'[t] \in BatchCalls
    BY <1>8, <2>2, <2>3 DEF ProcessBatch, BatchCalls, Shards, Added, Spent
  <2> QED
    BY <2>4, <1>8 DEF ProcessBatch, Calls
<1>9. ASSUME NEW t \in Threads, NEW s \in Shards, LookupShard(t, s) PROVE ShardedTypeOK'
  <2>1. call[t] \in BatchCalls
    BY <1>9, CallForms DEF LookupShard
  <2>2. call'[t] \in BatchCalls
    BY <2>1, <1>9 DEF LookupShard, BatchCalls, Added
  <2> QED
    BY <2>2, <1>9 DEF LookupShard, Calls
<1>10. ASSUME NEW t \in Threads, NEW r \in call[t].refs, CheckRef(t, r) PROVE ShardedTypeOK'
  <2>1. call[t] \in BatchCalls
    BY <1>10, CallForms DEF CheckRef
  <2>2. call[t].batch \in Batches /\ r \in Refs(call[t].batch)
    BY <1>10, <2>1 DEF CheckRef, RefsInv, BatchCalls
  <2>3. call[t].batch[r[1]] \in Transactions
    BY <2>2, RefsOfBatch
  <2>4. call'[t] \in BatchCalls
    BY <2>1, <2>3, <1>10 DEF CheckRef, BatchCalls
  <2> QED
    BY <2>4, <1>10 DEF CheckRef, Calls
<1>11. ASSUME NEW t \in Threads, ReturnBatch(t) PROVE ShardedTypeOK'
  BY <1>11 DEF ReturnBatch, Return, Calls
<1> QED
  BY <1>0, <1>1, <1>2, <1>3, <1>4, <1>5, <1>6, <1>7, <1>8, <1>9, <1>10, <1>11 DEF Next

-----------------------------------------------------------------------------
\* The inductive invariant

\* What is known of a running call c when the outputs in A are in their shards
\* and those in S are spent.  An output that was there when get_balance began
\* and is unspent is still to be read or counted; one that was there when
\* process_batch began is found once its shard is looked up; what has been
\* checked without an issue was found and not spent at the beginning; and an
\* issue is about an input that was missing then, is spent, or is locked.
BeganBefore(c, A, S) == c.before \subseteq A /\ c.spent_before \subseteq S

BalanceSoFar(c, A, S) ==
    /\ BeganBefore(c, A, S)
    /\ c.counted \cap c.spent_before = {}
    /\ \A k \in c.before \ S :
          AddressOf[k] = c.address /\ LockEpoch[k] <= c.epoch => k \in c.keys \cup c.counted

BatchSoFar(c, A, S) ==
    /\ BeganBefore(c, A, S)
    /\ c.refs \subseteq Refs(c.batch)
    /\ c.found \subseteq A
    /\ \A r \in Refs(c.batch) : KeyAt(c.batch, r) \in c.before =>
          ShardOf[KeyAt(c.batch, r)] \in c.shards \/ KeyAt(c.batch, r) \in c.found
    /\ \A r \in Refs(c.batch) \ c.refs : c.batch[r[1]] \notin c.issues =>
          /\ KeyAt(c.batch, r) \in A \ c.spent_before
          /\ LockEpoch[KeyAt(c.batch, r)] <= c.epoch
    /\ \A tx \in c.issues : \E k \in ToSet(tx.inputs) :
          ~(k \in c.before \ S /\ LockEpoch[k] <= c.epoch)

CallInv(c, A, S) ==
    /\ c.name = "get_balance" => BalanceSoFar(c, A, S)
    /\ c.name = "process_batch" => BatchSoFar(c, A, S)

CallsInv == \A t \in Threads : CallInv(call[t], Added, Spent)

\* An output leaves the index only after it was marked spent.
UnindexedAreSpent ==
    \A t \in Threads : call[t].name = "spend_utxo" => call[t].key \in Spent

IInv == ShardedTypeOK /\ SpentOnce /\ UnindexedAreSpent /\ IndexCoversUnspent /\ CallsInv

\* The references left of a batch are among those of the batch.
LEMMA CallsHaveRefs == CallsInv => RefsInv
  BY DEF CallsInv, CallInv, BatchSoFar, RefsInv

\* What holds of a call goes on to hold while others add and spend outputs.
LEMMA CallInvStable ==
    ASSUME NEW c \in Calls, NEW A, NEW S, NEW B, NEW T,
           A \subseteq B, S \subseteq T, CallInv(c, A, S)
    PROVE  CallInv(c, B, T)
<1>1. CASE c.name = "get_balance"
  BY <1>1 DEF CallInv, BalanceSoFar, BeganBefore
<1>2. CASE c.name = "process_batch"
  <2> USE <1>2 DEF CallInv, BatchSoFar, BeganBefore
  <2>1. \A tx \in c.issues : \E k \in ToSet(tx.inputs) :
          ~(k \in c.before \ T /\ LockEpoch[k] <= c.epoch)
    OBVIOUS
  <2>2. \A r \in Refs(c.batch) \ c.refs : c.batch[r[1]] \notin c.issues =>
          /\ KeyAt(c.batch, r) \in B \ c.spent_before
          /\ LockEpoch[KeyAt(c.batch, r)] <= c.epoch
    OBVIOUS
  <2> QED
    BY <2>1, <2>2
<1> QED
  BY <1>1, <1>2 DEF CallInv

\* How a step changes the sets of added and of spent outputs
LEMMA AddEffect ==
    ASSUME ShardedTypeOK, NEW t \in Threads, NEW k \in Outpoints, AddUtxo(t, k)
    PROVE  Added' = Added \cup {k} /\ Spent' = Spent /\ k \notin Added
<1>1. [is_spent |-> FALSE, spent_by |-> None] \in UTXOs
  BY DEF UTXOs
<1>2. [is_spent |-> FALSE, spent_by |-> None] # None
  BY <1>1, ShardedAssumption
<1> QED
  BY <1>2 DEF ShardedTypeOK, AddUtxo, Added, Spent

LEMMA SpendEffect ==
    ASSUME ShardedTypeOK, NEW t \in Threads, NEW k \in Outpoints, NEW tx \in Spenders,
           SpendUtxo(t, k, tx)
    PROVE  /\ Added' = Added /\ Spent' = Spent \cup {k} /\ k \in Added \ Spent
           /\ utxos'[k].spent_by = tx
<1>1. [is_spent |-> TRUE, spent_by |-> tx] \in UTXOs
  BY DEF UTXOs
<1>2. [is_spent |-> TRUE, spent_by |-> tx] # None
  BY <1>1, ShardedAssumption
<1> QED
  BY <1>2 DEF ShardedTypeOK, SpendUtxo, Added, Spent, Unspent

LEMMA NoEffect ==
    ASSUME UNCHANGED utxos
    PROVE  Added' = Added /\ Spent' = Spent /\ Unspent' = Unspent
  BY DEF Added, Spent, Unspent

\* spend_utxo succeeds once for an output: a step keeps the record of the
\* successful calls equal to the marks in the shards.
LEMMA SpentOnceStep == ShardedTypeOK /\ SpentOnce /\ [Next]_vars => SpentOnce'
<1> SUFFICES ASSUME ShardedTypeOK, SpentOnce, [Next]_vars PROVE SpentOnce'
  OBVIOUS
<1>1. ASSUME NEW t \in Threads, NEW k \in Outpoints, AddUtxo(t, k) PROVE SpentOnce'
  <2>1. Spent' = Spent /\ k \notin Spent
    BY <1>1, AddEffect DEF Spent
  <2> QED
    BY <2>1, <1>1 DEF AddUtxo, SpentOnce, Spent, Added, ShardedTypeOK
<1>2. ASSUME NEW t \in Threads, NEW k \in Outpoints, NEW tx \in Spenders, SpendUtxo(t, k, tx)
      PROVE  SpentOnce'
  <2>1. Spent' = Spent \cup {k} /\ k \notin Spent /\ utxos'[k].spent_by = tx
    BY <1>2, SpendEffect
  <2>2. \A j \in Outpoints \ {k} : utxos'[j] = utxos[j]
    BY <1>2 DEF SpendUtxo, ShardedTypeOK
  <2>3. spends' = spends \cup {<<k, tx>>}
    BY <1>2 DEF SpendUtxo
  <2>4. ASSUME NEW j \in Outpoints, NEW x \in Spenders
        PROVE  <<j, x>> \in spends' <=> j \in Spent' /\ utxos'[j].spent_by = x
    <3>1. CASE j = k
      BY <3>1, <2>1, <2>3 DEF SpentOnce
    <3>2. CASE j # k
      BY <3>2, <2>1, <2>2, <2>3 DEF SpentOnce
    <3> QED
      BY <3>1, <3>2
  <2> QED
    BY <2>4 DEF SpentOnce
<1>3. CASE UNCHANGED <<utxos, spends>>
  BY <1>3, NoEffect DEF SpentOnce
<1> QED
  BY <1>1, <1>2, <1>3 DEF Next, vars, IndexUtxo, UnindexUtxo, GetBalance, ReadUtxo,
     ReturnBalance, ProcessBatch, LookupShard, CheckRef, ReturnBatch

\* Outputs stay spent, so the one a spend_utxo is about to unindex is spent.
LEMMA UnindexedStep ==
    ShardedTypeOK /\ UnindexedAreSpent /\ [Next]_vars => UnindexedAreSpent'
<1> SUFFICES ASSUME ShardedTypeOK, UnindexedAreSpent, [Next]_vars,
                    NEW u \in Threads, call'[u].name = "spend_utxo"
             PROVE  call'[u].key \in Spent'
  BY DEF UnindexedAreSpent
<1> USE DEF ShardedTypeOK
<1>1. ASSUME NEW t \in Threads, NEW k \in Outpoints, AddUtxo(t, k)
      PROVE  call'[u].key \in Spent'
  <2>1. Spent' = Spent
    BY <1>1, AddEffect
  <2>2. call'[t].name = "add_utxo" /\ \A v \in Threads \ {t} : call'[v] = call[v]
    BY <1>1 DEF AddUtxo
  <2> QED
    BY <2>1, <2>2 DEF UnindexedAreSpent
<1>2. ASSUME NEW t \in Threads, NEW k \in Outpoints, NEW tx \in Spenders, SpendUtxo(t, k, tx)
      PROVE  call'[u].key \in Spent'
  <2>1. Spent' = Spent \cup {k}
    BY <1>2, SpendEffect
  <2>2. call'[t].key = k /\ \A v \in Threads \ {t} : call'[v] = call[v]
    BY <1>2 DEF SpendUtxo
  <2> QED
    BY <2>1, <2>2 DEF UnindexedAreSpent
<1>3. ASSUME UNCHANGED utxos, NEW t \in Threads,
             \A v \in Threads \ {t} : call'[v] = call[v], call'[t].name # "spend_utxo"
      PROVE  call'[u].key \in Spent'
  BY <1>3, NoEffect DEF UnindexedAreSpent
<1>4. CASE UNCHANGED vars
  BY <1>4, NoEffect DEF vars, UnindexedAreSpent
<1>5. ASSUME NEW t \in Threads, IndexUtxo(t) \/ UnindexUtxo(t) \/ ReturnBalance(t) \/ ReturnBatch(t)
      PROVE  call'[u].key \in Spent'
  BY <1>5, <1>3 DEF IndexUtxo, UnindexUtxo, ReturnBalance, ReturnBatch, Return, Idle
<1>6. ASSUME NEW t \in Threads, NEW a \in Addresses, NEW e \in Epochs, GetBalance(t, a, e)
      PROVE  call'[u].key \in Spent'
  BY <1>6, <1>3 DEF GetBalance
<1>7. ASSUME NEW t \in Threads, NEW k \in Outpoints, ReadUtxo(t, k)
      PROVE  call'[u].key \in Spent'
  <2>1. call[t] \in BalanceCalls
    BY <1>7, CallForms DEF ReadUtxo
  <2>2. call'[t].name = "get_balance"
    BY <1>7, <2>1 DEF ReadUtxo, BalanceCalls
  <2> QED
    BY <1>7, <2>2, <1>3 DEF ReadUtxo
<1>8. ASSUME NEW t \in Threads, NEW b \in Batches, NEW e \in Epochs, ProcessBatch(t, b, e)
      PROVE  call'[u].key \in Spent'
  BY <1>8, <1>3 DEF ProcessBatch
<1>9. ASSUME NEW t \in Threads, NEW s \in Shards, LookupShard(t, s)
      PROVE  call'[u].key \in Spent'
  <2>1. call[t] \in BatchCalls
    BY <1>9, CallForms DEF LookupShard
  <2>2. call'[t].name = "process_batch"
    BY <1>9, <2>1 DEF LookupShard, BatchCalls
  <2> QED
    BY <1>9, <2>2, <1>3 DEF LookupShard
<1>10. ASSUME NEW t \in Threads, NEW r \in call[t].refs, CheckRef(t, r)
       PROVE  call'[u].key \in Spent'
  <2>1. call[t] \in BatchCalls
    BY <1>10, CallForms DEF CheckRef
  <2>2. call'[t].name = "process_batch"
    BY <1>10, <2>1 DEF CheckRef, BatchCalls
  <2> QED
    BY <1>10, <2>2, <1>3 DEF CheckRef
<1> QED
  BY <1>1, <1>2, <1>4, <1>5, <1>6, <1>7, <1>8, <1>9, <1>10 DEF Next

\* No step removes an unspent output from the index, and add_utxo returns only
\* when its output is in it.
LEMMA IndexStep ==
    ShardedTypeOK /\ UnindexedAreSpent /\ IndexCoversUnspent /\ [Next]_vars => IndexCoversUnspent'
<1> SUFFICES ASSUME ShardedTypeOK, UnindexedAreSpent, IndexCoversUnspent, [Next]_vars,
                    NEW j \in Unspent', j \notin BeingIndexed'
             PROVE  j \in by_address'[AddressOf[j]]
  BY DEF IndexCoversUnspent
<1> USE DEF ShardedTypeOK
<1>0. j \in Outpoints
  BY DEF Unspent, Added
<1>1. ASSUME NEW t \in Threads, NEW k \in Outpoints, AddUtxo(t, k)
      PROVE  j \in by_address'[AddressOf[j]]
  <2>1. call'[t] = [name |-> "add_utxo", key |-> k] /\ \A v \in Threads \ {t} : call'[v] = call[v]
    BY <1>1 DEF AddUtxo
  <2>2. j # k
    BY <2>1 DEF BeingIndexed
  <2>3. j \in Unspent
    BY <2>2, <1>1, AddEffect DEF Unspent
  <2>4. j \notin BeingIndexed
    BY <2>1, <1>1 DEF BeingIndexed, AddUtxo, Idle
  <2> QED
    BY <2>3, <2>4, <1>1 DEF AddUtxo, IndexCoversUnspent
<1>2. ASSUME NEW t \in Threads, IndexUtxo(t)
      PROVE  j \in by_address'[AddressOf[j]]
  <2>1. call[t] \in [name : {"add_utxo", "spend_utxo"}, key : Outpoints]
    BY <1>2, CallForms DEF IndexUtxo
  <2>2. CASE j = call[t].key
    BY <2>2, <2>1, <1>2, ShardedAssumption DEF IndexUtxo
  <2>3. CASE j # call[t].key
    <3>1. \A v \in Threads \ {t} : call'[v] = call[v]
      BY <1>2 DEF IndexUtxo, Return
    <3>2. call[t] # [name |-> "add_utxo", key |-> j]
      BY <2>3
    <3>3. j \notin BeingIndexed
      BY <3>1, <3>2, <1>0 DEF BeingIndexed
    <3>4. j \in by_address[AddressOf[j]]
      BY <3>3, <1>2, NoEffect DEF IndexUtxo, IndexCoversUnspent
    <3> QED
      BY <3>4, <1>2, <1>0, <2>1, ShardedAssumption DEF IndexUtxo
  <2> QED
    BY <2>2, <2>3
\* every other step is taken by a thread that is not in add_utxo
<1>3. ASSUME NEW t \in Threads, call[t].name # "add_utxo",
             \A v \in Threads \ {t} : call'[v] = call[v], j \in Unspent
      PROVE  j \in by_address[AddressOf[j]]
  BY <1>3 DEF BeingIndexed, IndexCoversUnspent
<1>4. ASSUME NEW t \in Threads, NEW k \in Outpoints, NEW tx \in Spenders, SpendUtxo(t, k, tx)
      PROVE  j \in by_address'[AddressOf[j]]
  <2>1. j \in Unspent
    BY <1>4, SpendEffect DEF Unspent
  <2> QED
    BY <2>1, <1>3, <1>4 DEF SpendUtxo, Idle
<1>5. ASSUME NEW t \in Threads, UnindexUtxo(t)
      PROVE  j \in by_address'[AddressOf[j]]
  <2>1. j \in Unspent /\ j # call[t].key
    BY <1>5, NoEffect DEF UnindexUtxo, UnindexedAreSpent, Unspent
  <2>2. j \in by_address[AddressOf[j]]
    BY <2>1, <1>3, <1>5 DEF UnindexUtxo, Return
  <2> QED
    BY <2>1, <2>2, <1>0, <1>5, ShardedAssumption DEF UnindexUtxo
<1>6. ASSUME UNCHANGED <<utxos, by_address>>, NEW t \in Threads, call[t].name # "add_utxo",
             \A v \in Threads \ {t} : call'[v] = call[v]
      PROVE  j \in by_address'[AddressOf[j]]
  BY <1>6, <1>3, NoEffect
<1>7. ASSUME NEW t \in Threads, ReturnBalance(t) \/ ReturnBatch(t)
      PROVE  j \in by_address'[AddressOf[j]]
  BY <1>7, <1>6 DEF ReturnBalance, ReturnBatch, Return
<1>8. ASSUME NEW t \in Threads, NEW a \in Addresses, NEW e \in Epochs, GetBalance(t, a, e)
      PROVE  j \in by_address'[AddressOf[j]]
  BY <1>8, <1>6 DEF GetBalance, Idle
<1>9. ASSUME NEW t \in Threads, NEW k \in Outpoints, ReadUtxo(t, k)
      PROVE  j \in by_address'[AddressOf[j]]
  BY <1>9, <1>6 DEF ReadUtxo
<1>10. ASSUME NEW t \in Threads, NEW b \in Batches, NEW e \in Epochs, ProcessBatch(t, b, e)
      PROVE  j \in by_address'[AddressOf[j]]
  BY <1>10, <1>6 DEF ProcessBatch, Idle
<1>11. ASSUME NEW t \in Threads, NEW s \in Shards, LookupShard(t, s)
      PROVE  j \in by_address'[AddressOf[j]]
  BY <1>11, <1>6 DEF LookupShard
<1>12. ASSUME NEW t \in Threads, NEW r \in call[t].refs, CheckRef(t, r)
      PROVE  j \in by_address'[AddressOf[j]]
  BY <1>12, <1>6 DEF CheckRef
<1>13. CASE UNCHANGED vars
  BY <1>13, NoEffect DEF vars, BeingIndexed, IndexCoversUnspent
<1> QED
  BY <1>1, <1>2, <1>4, <1>5, <1>7, <1>8, <1>9, <1>10, <1>11, <1>12, <1>13 DEF Next


\* The steps of other threads leave a call as it is; its own steps keep what is
\* known of it.
LEMMA CallsStep ==
    ShardedTypeOK /\ IndexCoversUnspent /\ CallsInv /\ [Next]_vars => CallsInv'
<1> SUFFICES ASSUME ShardedTypeOK, IndexCoversUnspent, CallsInv, [Next]_vars PROVE CallsInv'
  OBVIOUS
<1> USE DEF ShardedTypeOK
<1>1. ASSUME NEW t \in Threads, \A v \in Threads \ {t} : call'[v] = call[v],
             Added \subseteq Added', Spent \subseteq Spent', CallInv(call'[t], Added', Spent')
      PROVE  CallsInv'
  <2> SUFFICES ASSUME NEW v \in Threads, v # t PROVE CallInv(call'[v], Added', Spent')
    BY <1>1 DEF CallsInv
  <2>1. call[v] \in Calls /\ CallInv(call[v], Added, Spent) /\ call'[v] = call[v]
    BY <1>1 DEF CallsInv
  <2>2. CallInv(call[v], Added', Spent')
    BY <2>1, <1>1, CallInvStable
  <2> QED
    BY <2>1, <2>2
<1>2. ASSUME NEW t \in Threads, NEW k \in Outpoints, AddUtxo(t, k) PROVE CallsInv'
  BY <1>1, <1>2, AddEffect DEF AddUtxo, CallInv
<1>3. ASSUME NEW t \in Threads, NEW k \in Outpoints, NEW tx \in Spenders, SpendUtxo(t, k, tx)
      PROVE  CallsInv'
  BY <1>1, <1>3, SpendEffect DEF SpendUtxo, CallInv
<1>4. ASSUME NEW t \in Threads, IndexUtxo(t) \/ UnindexUtxo(t) \/ ReturnBalance(t) \/ ReturnBatch(t)
      PROVE  CallsInv'
  BY <1>1, <1>4, NoEffect
     DEF IndexUtxo, UnindexUtxo, ReturnBalance, ReturnBatch, Return, Idle, CallInv
<1>5. ASSUME NEW t \in Threads, NEW a \in Addresses, NEW e \in Epochs, GetBalance(t, a, e)
      PROVE  CallsInv'
  <2>1. Added' = Added /\ Spent' = Spent
    BY <1>5, NoEffect DEF GetBalance
  <2>2. \A k \in (Added \ BeingIndexed) \ Spent : AddressOf[k] = a => k \in by_address[a]
    BY DEF IndexCoversUnspent, Unspent
  <2>3. BalanceSoFar(call'[t], Added, Spent)
    BY <1>5, <2>2 DEF GetBalance, BalanceSoFar, BeganBefore
  <2> QED
    BY <2>1, <2>3, <1>1, <1>5 DEF GetBalance, CallInv
<1>6. ASSUME NEW t \in Threads, NEW k \in Outpoints, ReadUtxo(t, k) PROVE CallsInv'
  <2>1. Added' = Added /\ Spent' = Spent
    BY <1>6, NoEffect DEF ReadUtxo
  <2>2. call[t] \in BalanceCalls
    BY <1>6, CallForms DEF ReadUtxo
  <2>3. BalanceSoFar(call[t], Added, Spent)
    BY <1>6 DEF ReadUtxo, CallsInv, CallInv
  <2>4. call'[t] = [call[t] EXCEPT !.keys = @ \ {k},
                       !.counted = IF Counts(k, call[t].epoch) THEN @ \cup {k} ELSE @]
    BY <1>6 DEF ReadUtxo
  <2>5. /\ call'[t].name = "get_balance" /\ call'[t].address = call[t].address
        /\ call'[t].epoch = call[t].epoch /\ call'[t].before = call[t].before
        /\ call'[t].spent_before = call[t].spent_before
        /\ call'[t].keys = call[t].keys \ {k}
        /\ call'[t].counted = IF Counts(k, call[t].epoch) THEN call[t].counted \cup {k}
                                                           ELSE call[t].counted
    BY <2>2, <2>4 DEF BalanceCalls
  <2>6. BalanceSoFar(call'[t], Added, Spent)
    BY <2>3, <2>5 DEF BalanceSoFar, BeganBefore, Counts, Unspent
  <2> QED
    BY <2>1, <2>5, <2>6, <1>1, <1>6 DEF ReadUtxo, CallInv
<1>7. ASSUME NEW t \in Threads, NEW b \in Batches, NEW e \in Epochs, ProcessBatch(t, b, e)
      PROVE  CallsInv'
  <2>1. Added' = Added /\ Spent' = Spent
    BY <1>7, NoEffect DEF ProcessBatch
  <2>2. BatchSoFar(call'[t], Added, Spent)
    BY <1>7 DEF ProcessBatch, BatchSoFar, BeganBefore
  <2> QED
    BY <2>1, <2>2, <1>1, <1>7 DEF ProcessBatch, CallInv
<1>8. ASSUME NEW t \in Threads, NEW s \in Shards, LookupShard(t, s) PROVE CallsInv'
  <2>1. Added' = Added /\ Spent' = Spent
    BY <1>8, NoEffect DEF LookupShard
  <2>2. call[t] \in BatchCalls
    BY <1>8, CallForms DEF LookupShard
  <2>3. BatchSoFar(call[t], Added, Spent)
    BY <1>8 DEF LookupShard, CallsInv, CallInv
  <2>4. /\ call'[t].name = "process_batch" /\ call'[t].batch = call[t].batch
        /\ call'[t].epoch = call[t].epoch /\ call'[t].before = call[t].before
        /\ call'[t].spent_before = call[t].spent_before /\ call'[t].refs = call[t].refs
        /\ call'[t].issues = call[t].issues
        /\ call'[t].shards = call[t].shards \ {s}
        /\ call'[t].found = call[t].found \cup {k \in Added : ShardOf[k] = s}
    BY <1>8, <2>2 DEF LookupShard, BatchCalls
  <2>5. BatchSoFar(call'[t], Added, Spent)
    BY <2>3, <2>4 DEF BatchSoFar, BeganBefore
  <2> QED
    BY <2>1, <2>4, <2>5, <1>1, <1>8 DEF LookupShard, CallInv
<1>9. ASSUME NEW t \in Threads, NEW r \in call[t].refs, CheckRef(t, r) PROVE CallsInv'
  <2> DEFINE c == call[t]
             k == KeyAt(c.batch, r)
  <2>1. Added' = Added /\ Spent' = Spent
    BY <1>9, NoEffect DEF CheckRef
  <2>2. c \in BatchCalls
    BY <1>9, CallForms DEF CheckRef
  <2>3. BatchSoFar(c, Added, Spent)
    BY <1>9 DEF CheckRef, CallsInv, CallInv
  <2>4. /\ call'[t].name = "process_batch" /\ call'[t].batch = c.batch
        /\ call'[t].epoch = c.epoch /\ call'[t].before = c.before
        /\ call'[t].spent_before = c.spent_before /\ call'[t].refs = c.refs \ {r}
        /\ call'[t].issues = IF HasIssue(k, c) THEN c.issues \cup {c.batch[r[1]]} ELSE c.issues
        /\ call'[t].shards = c.shards /\ call'[t].found = c.found
    BY <1>9, <2>2 DEF CheckRef, BatchCalls
  <2>5. r \in Refs(c.batch) /\ c.batch \in Batches
    BY <2>2, <2>3 DEF BatchSoFar, BatchCalls
  <2>6. k \in ToSet(c.batch[r[1]].inputs)
    BY <2>5, RefsOfBatch DEF KeyAt, ToSet
  <2>7. HasIssue(k, c) => ~(k \in c.before \ Spent /\ LockEpoch[k] <= c.epoch)
    <3>1. k \in c.before => k \in c.found
      BY <2>3, <2>5, <1>9 DEF BatchSoFar, CheckRef
    <3>2. LockEpoch[k] \in Nat /\ c.epoch \in Nat
      BY <2>2, <2>5, RefsOfBatch, ShardedAssumption DEF BatchCalls
    <3> QED
      BY <3>1, <3>2 DEF HasIssue
  <2>8. ~HasIssue(k, c) => k \in Added \ c.spent_before /\ LockEpoch[k] <= c.epoch
    <3>1. LockEpoch[k] \in Nat /\ c.epoch \in Nat
      BY <2>2, <2>5, RefsOfBatch, ShardedAssumption DEF BatchCalls
    <3> QED
      BY <3>1, <2>3 DEF HasIssue, BatchSoFar, BeganBefore
  <2>9. \A tx \in call'[t].issues : \E j \in ToSet(tx.inputs) :
          ~(j \in c.before \ Spent /\ LockEpoch[j] <= c.epoch)
    BY <2>3, <2>4, <2>6, <2>7 DEF BatchSoFar
  <2>10. \A q \in Refs(c.batch) \ (c.refs \ {r}) : c.batch[q[1]] \notin call'[t].issues =>
          /\ KeyAt(c.batch, q) \in Added \ c.spent_before
          /\ LockEpoch[KeyAt(c.batch, q)] <= c.epoch
    BY <2>3, <2>4, <2>8 DEF BatchSoFar
  <2>11. BatchSoFar(call'[t], Added, Spent)
    BY <2>3, <2>4, <2>9, <2>10 DEF BatchSoFar, BeganBefore
  <2> QED
    BY <2>1, <2>4, <2>11, <1>1, <1>9 DEF CheckRef, CallInv
<1>10. CASE UNCHANGED vars
  BY <1>10, NoEffect DEF vars, CallsInv
<1> QED
  BY <1>2, <1>3, <1>4, <1>5, <1>6, <1>7, <1>8, <1>9, <1>10 DEF Next

LEMMA Invariance == Spec => []IInv
<1>1. Init => IInv
  BY DEF Init, IInv, ShardedTypeOK, SpentOnce, UnindexedAreSpent, IndexCoversUnspent, CallsInv,
     CallInv, Calls, Idle, Added, Spent, Unspent
<1>2. IInv /\ [Next]_vars => IInv'
  BY TypeStep, SpentOnceStep, UnindexedStep, IndexStep, CallsStep, CallsHaveRefs DEF IInv
<1> QED
  BY <1>1, <1>2, PTL DEF Spec

-----------------------------------------------------------------------------
\* Results

\* Of all spend_utxo calls for an output, however they race, exactly the one
\* recorded in spent_by returns it.
THEOREM OutputsSpentOnce == Spec => []SpentOnce
<1>1. IInv => SpentOnce
  BY DEF IInv
<1> QED
  BY <1>1, Invariance, PTL

\* The index by address never misses an unspent output whose add_utxo has
\* returned.
THEOREM IndexIsComplete == Spec => []IndexCoversUnspent
<1>1. IInv => IndexCoversUnspent
  BY DEF IInv
<1> QED
  BY <1>1, Invariance, PTL

\* get_balance counts nothing that was spent when it began, and everything
\* mature that was there when it began and is unspent when it returns.
THEOREM BalanceIsBetween == Spec => []BalanceBetween
<1>1. IInv => BalanceBetween
  <2> SUFFICES ASSUME IInv, NEW t \in Threads, call[t].name = "get_balance"
               PROVE  /\ call[t].counted \cap call[t].spent_before = {}
                      /\ call[t].keys = {} =>
                           \A k \in call[t].before \cap Unspent :
                              AddressOf[k] = call[t].address /\ LockEpoch[k] <= call[t].epoch
                                 => k \in call[t].counted
    BY DEF BalanceBetween
  <2>1. BalanceSoFar(call[t], Added, Spent)
    BY DEF IInv, CallsInv, CallInv
  <2> QED
    BY <2>1 DEF BalanceSoFar, Unspent
<1> QED
  BY <1>1, Invariance, PTL

\* The UTXO stage of process_batch lets no transaction pass whose input was
\* spent when the call began, and refuses none whose inputs were all there then
\* and are unspent when it ends.
THEOREM BatchIsBetween == Spec => []BatchBetween
<1>1. IInv => BatchBetween
  <2> SUFFICES ASSUME IInv, NEW t \in Threads, call[t].name = "process_batch", call[t].refs = {},
                      NEW tx \in ToSet(call[t].batch), tx.wellformed
               PROVE  /\ tx \notin call[t].issues => \A k \in ToSet(tx.inputs) :
                             k \in Added \ call[t].spent_before /\ LockEpoch[k] <= call[t].epoch
                      /\ (\A k \in ToSet(tx.inputs) : k \in call[t].before \cap Unspent
                                                        /\ LockEpoch[k] <= call[t].epoch)
                            => tx \notin call[t].issues
    BY DEF BatchBetween
  <2>1. BatchSoFar(call[t], Added, Spent)
    BY DEF IInv, CallsInv, CallInv
  <2>2. call[t].batch \in Batches
    BY CallForms DEF IInv, ShardedTypeOK, BatchCalls
  <2>3. PICK i \in DOMAIN call[t].batch : call[t].batch[i] = tx
    BY DEF ToSet
  <2>4. ASSUME NEW k \in ToSet(tx.inputs), tx \notin call[t].issues
        PROVE  k \in Added \ call[t].spent_before /\ LockEpoch[k] <= call[t].epoch
    <3>1. PICK n \in DOMAIN tx.inputs : tx.inputs[n] = k
      BY DEF ToSet
    <3>2. <<i, n>> \in Refs(call[t].batch) /\ KeyAt(call[t].batch, <<i, n>>) = k
      BY <2>3, <3>1 DEF Refs, KeyAt
    <3> QED
      BY <2>1, <2>3, <2>4, <3>2 DEF BatchSoFar
  <2>5. ASSUME tx \in call[t].issues,
               \A k \in ToSet(tx.inputs) : k \in call[t].before \cap Unspent
                                            /\ LockEpoch[k] <= call[t].epoch
        PROVE  FALSE
    BY <2>1, <2>5 DEF BatchSoFar, Unspent
  <2> QED
    BY <2>4, <2>5
<1> QED
  BY <1>1, Invariance, PTL

=============================================================================
