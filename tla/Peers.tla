-------------------------------- MODULE Peers --------------------------------
(***************************************************************************)
(* The peer connections of one node: PeerManager and P2PNode (p2p.py).     *)
(* P2PNode is a set of asyncio tasks (a connect_to_peer or _handle_inbound *)
(* call and then a _read_loop for each connection, the heartbeat and       *)
(* stop) that share the dictionary of connected peers.  A step is what a   *)
(* task does between two awaits; the remote ends of the connections, and   *)
(* how long they are silent, are the environment.                          *)
(*                                                                         *)
(* Abstractions.  last_seen is left out: the heartbeat may find any peer   *)
(* stale, and a read may time out at any time.  Handling a message changes *)
(* nothing here (it answers a PING, adds to known_addresses, which nothing *)
(* reads, or calls the node's handler).  The zone, stake and address of a  *)
(* peer are left out.                                                      *)
(***************************************************************************)
EXTENDS Integers, FiniteSets

CONSTANTS
    Validators,   \* validator ids
    Self,         \* the node's own id
    MaxConns,     \* bound: the connections opened or accepted, numbered in order
    Presents,     \* the ids the remote end of each connection may present
    MAX_PEERS,
    Absent        \* Python's None

Conns == 1..MaxConns
Modes == {"new", "running", "stopping", "stopped"}

\* dialing: awaiting open_connection; greeted and accepted: awaiting the
\* remote's PEER_DISCOVERY on an outbound and on an inbound connection;
\* responding: an inbound handler awaiting drain; exchanging: registered,
\* sending the peer list; starting: its _read_loop is scheduled
Stages == {"unused", "dialing", "greeted", "accepted", "responding", "exchanging",
           "starting", "reading", "ended"}

ASSUME PeersAssumption ==
    /\ MAX_PEERS \in Nat /\ MaxConns \in Nat
    /\ Self \in Validators
    /\ Absent \notin Validators \cup Conns
    /\ Presents \in [Conns -> SUBSET Validators]
    /\ IsFiniteSet(Validators)

VARIABLES
    mode,      \* of the node; _running is mode = "running"
    peers,     \* PeerManager.peers: validator id -> connection, or Absent
    stage,     \* where the tasks of each connection are
    vid,       \* the validator id a connection's tasks were given, or Absent
    broken,    \* connections whose remote end is gone
    closed,    \* connections whose writer this node has closed
    stale,     \* the ids the heartbeat has still to prune
    stopping   \* the ids stop() has still to close

peersVars == <<mode, peers, stage, vid, broken, closed, stale, stopping>>

PeersInit ==
    /\ mode = "new"
    /\ peers = [v \in Validators |-> Absent]
    /\ stage = [c \in Conns |-> "unused"]
    /\ vid = [c \in Conns |-> Absent]
    /\ broken = {}
    /\ closed = {}
    /\ stale = {}
    /\ stopping = {}

Connected == {v \in Validators : peers[v] # Absent}
CanAcceptPeer == Cardinality(Connected) < MAX_PEERS

To(c, s) == stage' = [stage EXCEPT ![c] = s]

\* The last task of the connection ends (its locals with it).
End(c) ==
    /\ To(c, "ended")
    /\ vid' = [vid EXCEPT ![c] = Absent]
HangUp(c) == End(c) /\ closed' = closed \cup {c}

-----------------------------------------------------------------------------
\* PeerManager.add_peer and P2PNode._close_peer

\* Mutant: the limit is not tested again after the handshake.
UnboundedAddPeer(c, v) ==
    /\ peers' = [peers EXCEPT ![v] = c]
    /\ To(c, "exchanging")
    /\ vid' = [vid EXCEPT ![c] = v]
    /\ UNCHANGED closed

\* A connection of a validator that has one already replaces it.
AddPeer(c, v) ==
    \/ /\ CanAcceptPeer /\ v # Self
       /\ peers' = [peers EXCEPT ![v] = c]
       /\ To(c, "exchanging")
       /\ vid' = [vid EXCEPT ![c] = v]
       /\ UNCHANGED closed
    \/ /\ ~(CanAcceptPeer /\ v # Self)
       /\ HangUp(c)
       /\ UNCHANGED peers

\* Mutant: the writer is closed but the entry stays.
NonRemovingClosePeer(v) ==
    /\ closed' = closed \cup ({peers[v]} \ {Absent})
    /\ UNCHANGED peers

\* By validator id: whatever connection is registered under it goes.
ClosePeer(v) ==
    /\ peers' = [peers EXCEPT ![v] = Absent]
    /\ closed' = closed \cup ({peers[v]} \ {Absent})

-----------------------------------------------------------------------------
\* start, connect_to_peer and _handle_inbound

Start ==
    /\ mode = "new"
    /\ mode' = "running"
    /\ UNCHANGED <<peers, stage, vid, broken, closed, stale, stopping>>

\* the next connection
NewConn(c) ==
    /\ stage[c] = "unused"
    /\ \A d \in Conns : d < c => stage[d] # "unused"

\* bootstrap and other callers; a call at the limit returns at once
ConnectToPeer(c) ==
    /\ mode # "new"
    /\ NewConn(c)
    /\ CanAcceptPeer
    /\ To(c, "dialing")
    /\ UNCHANGED <<mode, peers, vid, broken, closed, stale, stopping>>

\* Connected and greeted; or open_connection failed, or the drain after it (the
\* exception leaves connect_to_peer with the writer open).
Opened(c) ==
    /\ stage[c] = "dialing"
    /\ To(c, "greeted") \/ To(c, "ended")
    /\ UNCHANGED <<mode, peers, vid, broken, closed, stale, stopping>>

\* The server accepts until stop() closes it; at the limit it hangs up.
HandleInbound(c) ==
    /\ mode \in {"running", "stopping"}
    /\ NewConn(c)
    /\ \/ CanAcceptPeer /\ To(c, "accepted") /\ UNCHANGED <<vid, closed>>
       \/ ~CanAcceptPeer /\ HangUp(c)
    /\ UNCHANGED <<mode, peers, broken, stale, stopping>>

\* The remote's PEER_DISCOVERY arrives.  An outbound connection is registered
\* whoever is connected already; an inbound one is refused when its validator
\* is, and is registered only after the answer is sent.
Handshake(c, v) ==
    /\ \/ stage[c] = "greeted" /\ AddPeer(c, v)
       \/ /\ stage[c] = "accepted"
          /\ \/ /\ v # Self /\ v \notin Connected
                /\ To(c, "responding")
                /\ vid' = [vid EXCEPT ![c] = v]
                /\ UNCHANGED closed
             \/ (v = Self \/ v \in Connected) /\ HangUp(c)
          /\ UNCHANGED peers
    /\ UNCHANGED <<mode, broken, stale, stopping>>

\* Time out, end of stream or another message; or a payload decode_self_info
\* raises on, which leaves the writer open.
HandshakeFails(c) ==
    /\ stage[c] \in {"greeted", "accepted"}
    /\ HangUp(c) \/ (End(c) /\ UNCHANGED closed)
    /\ UNCHANGED <<mode, peers, broken, stale, stopping>>

\* The answer is sent; or, the remote end being gone, drain raises, which ends
\* the handler with the writer open.
Respond(c) ==
    /\ stage[c] = "responding"
    /\ \/ AddPeer(c, vid[c])
       \/ End(c) /\ UNCHANGED <<peers, closed>>
    /\ UNCHANGED <<mode, broken, stale, stopping>>

\* _exchange_peer_lists returns, whether or not it could send; _read_loop is
\* scheduled.
ExchangePeerLists(c) ==
    /\ stage[c] = "exchanging"
    /\ To(c, "starting")
    /\ UNCHANGED <<mode, peers, vid, broken, closed, stale, stopping>>

-----------------------------------------------------------------------------
\* _read_loop

StartReading(c) ==
    /\ stage[c] = "starting"
    /\ mode = "running"
    /\ To(c, "reading")
    /\ UNCHANGED <<mode, peers, vid, broken, closed, stale, stopping>>

\* Mutant: no finally clause.
LeavingEndReadLoop(c) ==
    /\ stage[c] = "reading" \/ (stage[c] = "starting" /\ mode # "running")
    /\ End(c)
    /\ UNCHANGED <<mode, peers, broken, closed, stale, stopping>>

\* At once when the node is not running any more, otherwise at the end of the
\* stream, after a silence, or after an exception or cancellation: the finally
\* clause closes the peer.
EndReadLoop(c) ==
    /\ stage[c] = "reading" \/ (stage[c] = "starting" /\ mode # "running")
    /\ End(c)
    /\ ClosePeer(vid[c])
    /\ UNCHANGED <<mode, broken, stale, stopping>>

\* What makes a read loop end for certain
MustEnd(c) == c \in broken \cup closed \/ mode # "running"

\* The remote end of a registered connection closes it or disappears (before
\* that, the handshake fails or what it wrote is read first).
Break(c) ==
    /\ stage[c] \in {"exchanging", "starting", "reading"}
    /\ c \notin broken \cup closed
    /\ broken' = broken \cup {c}
    /\ UNCHANGED <<mode, peers, stage, vid, closed, stale, stopping>>

-----------------------------------------------------------------------------
\* _heartbeat_loop: get_stale_peers, then one _close_peer after the other

FindStale(S) ==
    /\ mode = "running"
    /\ stale = {}
    /\ S # {} /\ S \subseteq Connected
    /\ stale' = S
    /\ UNCHANGED <<mode, peers, stage, vid, broken, closed, stopping>>

Prune(v) ==
    /\ v \in stale
    /\ stale' = stale \ {v}
    /\ ClosePeer(v)
    /\ UNCHANGED <<mode, stage, vid, broken, stopping>>

-----------------------------------------------------------------------------
\* stop: background tasks are cancelled (a read loop that has not begun will
\* never run, the others still run their finally clause), and the peers
\* connected at that moment are closed one by one, while the server still
\* accepts.

\* Mutant: the peers are not closed.
ForgetfulStop ==
    /\ mode = "running"
    /\ mode' = "stopping"
    /\ stage' = [c \in Conns |-> IF stage[c] = "starting" THEN "ended" ELSE stage[c]]
    /\ vid' = [c \in Conns |-> IF stage[c] = "starting" THEN Absent ELSE vid[c]]
    /\ stale' = {}
    /\ stopping' = {}
    /\ UNCHANGED <<peers, broken, closed>>

Stop ==
    /\ mode = "running"
    /\ mode' = "stopping"
    /\ stage' = [c \in Conns |-> IF stage[c] = "starting" THEN "ended" ELSE stage[c]]
    /\ vid' = [c \in Conns |-> IF stage[c] = "starting" THEN Absent ELSE vid[c]]
    /\ stale' = {}
    /\ stopping' = Connected
    /\ UNCHANGED <<peers, broken, closed>>

StopPeer(v) ==
    /\ v \in stopping
    /\ stopping' = stopping \ {v}
    /\ ClosePeer(v)
    /\ UNCHANGED <<mode, stage, vid, broken, stale>>

StopServer ==
    /\ mode = "stopping"
    /\ stopping = {}
    /\ mode' = "stopped"
    /\ UNCHANGED <<peers, stage, vid, broken, closed, stale, stopping>>

ConnStep(c) ==
    \/ Opened(c)
    \/ \E v \in Presents[c] : Handshake(c, v)
    \/ HandshakeFails(c)
    \/ Respond(c)
    \/ ExchangePeerLists(c)
    \/ StartReading(c)

PeersNext ==
    \/ Start
    \/ \E c \in Conns : ConnectToPeer(c) \/ HandleInbound(c) \/ Break(c)
    \/ \E c \in Conns : ConnStep(c) \/ EndReadLoop(c)
    \/ \E S \in SUBSET Validators : FindStale(S)
    \/ \E v \in Validators : Prune(v) \/ StopPeer(v)
    \/ Stop \/ StopServer

\* The event loop runs every task that is ready, every await before a read loop
\* returns or times out, and a read loop ends when its connection or the node
\* does; nobody need connect, and the node need not be stopped.
Fairness ==
    /\ \A c \in Conns : WF_peersVars(ConnStep(c)) /\ WF_peersVars(MustEnd(c) /\ EndReadLoop(c))
    /\ WF_peersVars(\E v \in Validators : Prune(v))
    /\ WF_peersVars(\E v \in Validators : StopPeer(v)) /\ WF_peersVars(StopServer)

PeersSpec == PeersInit /\ [][PeersNext]_peersVars /\ Fairness

-----------------------------------------------------------------------------
\* Properties

\* The fields of PeerManager and P2PNode keep their types.
PeersTypeOK ==
    /\ mode \in Modes
    /\ peers \in [Validators -> Conns \cup {Absent}]
    /\ stage \in [Conns -> Stages]
    /\ vid \in [Conns -> Validators \cup {Absent}]
    /\ broken \subseteq Conns /\ closed \subseteq Conns
    /\ stale \subseteq Validators /\ stopping \subseteq Validators

\* However many handshakes pass the first test of the limit and are then
\* suspended, no more than MAX_PEERS peers are ever registered.
PeersWithinLimit == Cardinality(Connected) <= MAX_PEERS

\* While the node runs, a registered peer is one a task looks after: it is
\* registered under the id it presented, its writer is open and its read loop
\* runs or is about to, so that its end will be noticed.
PeersServed ==
    mode = "running" => \A v \in Connected :
        /\ vid[peers[v]] = v
        /\ peers[v] \notin closed
        /\ stage[peers[v]] \in {"exchanging", "starting", "reading"}

\* A connection whose remote end is gone does not stay registered.
Registered(c) == \E v \in Validators : peers[v] = c
BrokenPeersRemoved ==
    \A c \in Conns : (Registered(c) /\ c \in broken) ~> ~Registered(c)

\* After stop() has closed the server, no peer stays registered, although handshakes
\* that were suspended when it was called may still register theirs.
StopDrains == (mode = "stopped") ~> [](Connected = {})
=============================================================================
