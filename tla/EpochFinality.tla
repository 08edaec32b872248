---------------------------- MODULE EpochFinality ----------------------------
(***************************************************************************)
(* What the epoch consensus promises a node, without saying how: the node  *)
(* decides each epoch at most once, for one of the epoch's candidates, in  *)
(* the order of the epochs, and a decision is never changed or lost.       *)
(***************************************************************************)
EXTENDS Integers

CONSTANTS Nodes, Epochs, Candidates, None

VARIABLE decided    \* decided[n][e]: the value node n has for epoch e, or None

Init == decided = [n \in Nodes |-> [e \in Epochs |-> None]]

\* Epochs may be left undecided for good, but are not decided in retrospect.
Decide(n, e, x) ==
    /\ \A f \in Epochs : f >= e => decided[n][f] = None
    /\ decided' = [decided EXCEPT ![n][e] = x]

Next == \E n \in Nodes, e \in Epochs : \E x \in Candidates[e] : Decide(n, e, x)

Spec == Init /\ [][Next]_decided
==============================================================================
