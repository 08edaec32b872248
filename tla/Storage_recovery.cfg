SPECIFICATION Spec
CONSTANTS
  h0 = h0 h1 = h1 h2 = h2
  c0 = c0 c1 = c1 t1 = t1 t2 = t2
  None = None
  Hashes <- MCHashes
  Txs <- MCTxs
  Inputs <- MCInputs
  OutputCount <- MCOutputCount
  Chain <- MCChain
  MaxEpoch = 3
  MaxCrashes = 1
  MaxFaults = 1
INVARIANTS
  UnspentRowsAreUnspent
  ChainLinked
  EpochMarkerTracksChain
  FinalizedIsStored
PROPERTIES
  RebuildRecoversChain
  ImplementsBlockLog
