\* Three voters, of whom s1 and s2, or s1 and s3, reach 67 of 100; and every input
\* of up to eight digits.
CONSTANTS
    s1 = s1 s2 = s2 s3 = s3 e1 = e1 e2 = e2 target = target
    SlashVoters <- ThreeVoters
    VoteStake <- ThreeWeights
    Evidence = {e1, e2}
    TargetOf <- OneTarget
    MaxProposals = 2
    NoProposal = NoProposal
    W = 3
    Len1 = 4
    Len2 = 2
    MaxLength = 8
    MERKLE_BATCH_SIZE = 2
    LeastChunks = {1, 2}
    WorkerCounts = {1, 2}
SPECIFICATION Spec
INVARIANTS SlashedByQuorum MerkleProofsExact ParallelRootIsSequential SignatureOfOneDigest SelectionProportional
CHECK_DEADLOCK FALSE
