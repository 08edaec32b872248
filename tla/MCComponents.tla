----------------------------- MODULE MCComponents ----------------------------
(* Instances of Slashing and of Algorithms for TLC.  They share nothing: a    *)
(* behaviour is one of either, `subject', and the other stays as it was.      *)
EXTENDS Slashing, Algorithms, FiniteSetsExt, TLC

CONSTANTS s1, s2, s3, e1, e2, target

VARIABLE subject

Init == SlashInit /\ AlgorithmsInit /\ subject \in {"slashing", "algorithms"}
Next ==
    /\ UNCHANGED subject
    /\ \/ subject = "slashing" /\ SlashNext /\ UNCHANGED input
       \/ subject = "algorithms" /\ AlgorithmsNext /\ UNCHANGED slashVars
Spec == Init /\ [][Next]_<<slashVars, input, subject>>

ThreeVoters == {s1, s2, s3}
Weights == s1 :> 40 @@ s2 :> 33 @@ s3 :> 27
ThreeWeights == [S \in SUBSET ThreeVoters |-> MapThenSumSet(LAMBDA v : Weights[v], S)]
\* two pieces of evidence against the same validator
OneTarget == [h \in {e1, e2} |-> target]
==============================================================================
