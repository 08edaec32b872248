---------------------------- MODULE MCMeasurement ----------------------------
(* An instance of Measurement for TLC                                         *)
EXTENDS Measurement

CONSTANTS v1, v2, v3

Three == {v1, v2, v3}
\* v3 commits to one value and reveals another with a commitment of its own, or
\* reveals what does not match, or what it saw of v1
FromV3(e, r) == [source |-> v3, epoch |-> e, round |-> r]
OfV1 == [source |-> v1, epoch |-> 0, round |-> 1]
SomeLies ==
    {[type |-> "commitment", validator_id |-> v3, epoch |-> 0, hash |-> FromV3(0, 1)]} \cup
    {[type |-> "reveal", validator_id |-> v3, epoch |-> 0, measurements |-> s, hash |-> h] :
        s \in {FromV3(0, 2), OfV1}, h \in {FromV3(0, 2)}}
==============================================================================
