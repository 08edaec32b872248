------------------------------- MODULE MCPeers -------------------------------
(* The node, three other validators and three connections: the second may   *)
(* come from the first one's validator or from another, the third from      *)
(* either or from the last (by symmetry every case is one of these).         *)
EXTENDS Peers, TLC

CONSTANTS me, p, q, r

MCValidators == {me, p, q, r}
MCPresents == <<{me, p}, {p, q}, {p, q, r}>>
=============================================================================
