\* Two epochs at different paces. The faulty proposer of the first proposes two
\* blocks and pre-commits to both, under either epoch; every honest validator
\* pre-votes for both, and pre-commits to the second come in anybody's name.
\* An honest validator proposes in the second epoch.
CONSTANTS
    v1 = v1 v2 = v2 v3 = v3 v4 = v4 r1 = r1 r2 = r2 None = None
    Validators <- Three
    Faulty = {v1}
    StakeOf <- ExactQuorum
    ValidatorOrder <- Order3
    SelectionValue <- FaultyThenHonest
    Roots <- TwoRoots
    MaxEpoch = 1
    FaultyMessages <- EquivocationInManyNames
SPECIFICATION Spec
INVARIANTS OnePreCommitPerEpoch ForksNeedVotesNotCast CommitCertificate
PROPERTY ImplementsEpochFinality
CHECK_DEADLOCK FALSE
