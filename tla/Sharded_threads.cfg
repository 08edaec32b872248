\* Three threads that add, spend, sum up and validate the same outputs.
CONSTANTS
    k1 = k1 k2 = k2 alice = alice None = None
    Threads = {t1, t2, t3}
    Outpoints = {k1, k2}
    Addresses = {alice}
    AddressOf <- Owners
    LockEpoch <- Locks
    ShardOf <- TwoShards
    Spenders = {x1, x2}
    Epochs = {0, 1}
    Batches <- OneBatch
SPECIFICATION Spec
SYMMETRY Symmetries
INVARIANTS SpentOnce IndexCoversUnspent BalanceBetween BatchBetween
CHECK_DEADLOCK FALSE
