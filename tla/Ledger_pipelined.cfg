\* Blocks are built while earlier ones are pending, so that two pending blocks
\* may hold the same transactions: stakes, slashes, registrations, key rotations,
\* a client's coinbase and a transaction that names an output twice.
CONSTANTS
    alice = alice bob = bob root1 = root1 root2 = root2 None = None
    Addresses <- TwoAddresses
    Roots <- TwoRoots
    UserTxs <- StakesAndKeys
    Genesis <- ThreeOutputs
    RewardAddress = bob
    CoinbaseHash <- FreshHashes
    MaxEpoch = 2
    MaxBlocks = 3
    Pipelined = TRUE
    MAX_INPUTS = 2
    MAX_OUTPUTS = 2
    MAX_TX_SIZE = 2
    DUST_THRESHOLD = 2
    MIN_FEE_PER_BYTE = 1
    MAX_MEMPOOL_SIZE = 3
    MAX_BLOCK_SIZE = 3
    MAX_TXS_PER_BLOCK = 2
    COINBASE_REWARD = 5
    COINBASE_LOCK = 100
    MAX_COINBASE_VALUE = 10
    RESERVED_KEY = 1022
SPECIFICATION Spec
INVARIANTS IndexConsistent MempoolConflictFree SupplyBounded
PROPERTIES RegisterOnce 
CHECK_DEADLOCK FALSE
