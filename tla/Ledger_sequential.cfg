\* Blocks are applied before the next one is built: transactions that conflict,
\* depend on each other, name an output twice or exceed the limits, and a
\* client's coinbase.
CONSTANTS
    alice = alice bob = bob root1 = root1 root2 = root2 None = None
    Addresses <- TwoAddresses
    Roots <- TwoRoots
    UserTxs <- Transfers
    Genesis <- ThreeOutputs
    RewardAddress = bob
    CoinbaseHash <- FreshHashes
    MaxEpoch = 2
    MaxBlocks = 3
    Pipelined = FALSE
    MAX_INPUTS = 2
    MAX_OUTPUTS = 2
    MAX_TX_SIZE = 2
    DUST_THRESHOLD = 2
    MIN_FEE_PER_BYTE = 1
    MAX_MEMPOOL_SIZE = 4
    MAX_BLOCK_SIZE = 3
    MAX_TXS_PER_BLOCK = 1
    COINBASE_REWARD = 5
    COINBASE_LOCK = 100
    MAX_COINBASE_VALUE = 10
    RESERVED_KEY = 1022
SPECIFICATION Spec
INVARIANTS MempoolWithinLimit BlocksApply
CHECK_DEADLOCK FALSE
