CONSTANTS
    me = me
    p = p
    q = q
    r = r
    Validators <- MCValidators
    Self = me
    MaxConns = 3
    Presents <- MCPresents
    MAX_PEERS = 2
    Absent = Absent
SPECIFICATION PeersSpec
INVARIANTS PeersWithinLimit PeersServed
PROPERTIES BrokenPeersRemoved StopDrains
CHECK_DEADLOCK FALSE
