\* A light, a heavy and a third node, partly connected at first.
CONSTANTS
    n1 = n1 n2 = n2 n3 = n3 None = None
    Nodes <- ThreeNodes
    StakeOf <- ThreeStakes
    Rank <- ThreeRanks
    SelectionValue <- LightThenHeavy
    Starts <- SomeStarts
    MaxRuns = 2
    Stoppable = {n2}
    MaxClock = 1
SPECIFICATION Spec
INVARIANTS ManagerRecordsBlocks SelfCertified
PROPERTY HeavyProposerFinalizes
CHECK_DEADLOCK FALSE
