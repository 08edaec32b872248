\* Two honest validators at different paces, and one that reveals other
\* measurements than it committed to.
CONSTANTS
    v1 = v1 v2 = v2 v3 = v3 None = None
    Validators <- Three
    Faulty = {v3}
    FaultyMessages <- SomeLies
    MaxEpoch = 1
    MaxRounds = 3
SPECIFICATION Spec
INVARIANT ProposalsAuthentic
CHECK_DEADLOCK FALSE
