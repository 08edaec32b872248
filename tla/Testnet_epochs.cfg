\* Four epochs of three validators, one of whom is needed for every quorum
CONSTANTS
    v1 = v1 v2 = v2 v3 = v3 r1 = r1 r2 = r2 None = None
    Validators <- Three
    Faulty = {}
    StakeOf <- HeavyFirst
    ValidatorOrder <- Order3
    SelectionValue <- InTurn
    Roots = {r1, r2}
    MaxEpoch = 3
    FaultyMessages <- NoMessages
SPECIFICATION NetSpec
PROPERTY EpochsFinalizeUnanimously
CHECK_DEADLOCK FALSE
