\* Batches of one key and two rotation keys, and a fee rate of two, at which the
\* estimate for one input pays for two inputs but not for three
CONSTANTS
    None = None
    Genesis <- MCGenesis
    Amounts = {5900}
    Fees = {None}
    Payloads = {0, 300}
    USABLE_KEYS = 1
    RESERVED_ROTATION = 2
    DUST_THRESHOLD = 546
    STAKING_LOCK_EPOCHS = 2
    MAX_INPUTS = 2
    MAX_TX_SIZE = 65536
    MIN_FEE_PER_BYTE = 1
    fee_rate = 2
    MaxTxs = 3
    MaxEpoch = 1
    MaxReadded = 2
SPECIFICATION Spec
INVARIANTS
    KeysSignOnce
    ChainRootKnown
    WalletTracksChain
    TransfersStayValid
CHECK_DEADLOCK FALSE
