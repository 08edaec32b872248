------------------------------ MODULE BlockLog -------------------------------
(***************************************************************************)
(* What block storage promises: a log with at most one block per epoch, to *)
(* which whole blocks are added and in which nothing ever changes, whatever *)
(* crashes and retries happen while a block is being written.              *)
(***************************************************************************)
CONSTANTS Epochs, Blocks, None

VARIABLE log    \* log[e]: the block a reader gets for epoch e, or None

Init == log = [e \in Epochs |-> None]

Append(b) ==
    /\ log[b.epoch] = None
    /\ log' = [log EXCEPT ![b.epoch] = b]

Next == \E b \in Blocks : Append(b)

Spec == Init /\ [][Next]_log
==============================================================================
