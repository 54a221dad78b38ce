SPECIFICATION Spec
CONSTANTS
  g = g
  a1 = a1
  a2 = a2
  b2 = b2
  b3 = b3
  b4 = b4
  x3 = x3
  y4 = y4
  Block <- MCBlock
  genesis = g
  null_hash = null_hash
  parent <- MCParent
  path <- MCPath
  work_ok <- MCWork
  major_version <- MCMajor
  minor_version <- MCMajor
  heights <- MCHeights
  window_size = 2
  DIFFICULTY_BLOCKS_COUNT = 2
  base <- MCBase
  Failures = {TRUE, FALSE}
INVARIANTS
  
  ForkFollowsChain
PROPERTIES
  GoodBlocksAreTaken
  
