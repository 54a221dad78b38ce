CONSTANTS
  Conns = {c1, c2}
  Hashes <- MCHashes
  Chains <- MCChains
  BlockSyncSizes = {2}
  PeerStripes = {0, 2}
  LocalStripe = 1
  SyncPrunedBlocks = TRUE
  BPForkHeight = 3
  StripeSize = 1
  TipBlocks = 1
  Stripes = 2
  a1 = a1
  a2 = a2
  a3 = a3
  b2 = b2
SPECIFICATION Spec
INVARIANTS TypeOK NextNeededIsFirstGap NoStaleRequest HaveIsFilled
 
SYMMETRY MCSymmetry
