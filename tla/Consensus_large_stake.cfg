\* One of four validators is faulty, with 33% of the stake; an honest one has 34%:
\* do all honest validators agree?
CONSTANTS
    v1 = v1 v2 = v2 v3 = v3 v4 = v4 r1 = r1 r2 = r2 None = None
    Validators <- Four
    Faulty = {v1}
    StakeOf <- UnequalStakes
    ValidatorOrder <- Order4
    SelectionValue <- AlwaysFirst
    Roots <- TwoRoots
    MaxEpoch = 0
    FaultyMessages <- ProposerMessages
SPECIFICATION Spec
SYMMETRY LightPermutations
INVARIANT Agreement
CHECK_DEADLOCK FALSE
