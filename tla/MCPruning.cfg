SPECIFICATION Spec
CONSTANTS
  StripeSize = 3
  TipBlocks = 4
  Stripes = 4
  MaxHeight = 40
INVARIANTS
  NextUnprunedIsLeast
  ClippedSupplementIsFull
CHECK_DEADLOCK FALSE
