SPECIFICATION Spec
CONSTANTS
  t1 = t1
  t2 = t2
  t3 = t3
  k1 = k1
  k2 = k2
  b1 = b1
  b2 = b2
  Tx = {t1, t2, t3}
  KeyImage = {k1, k2}
  BlockId = {b1, b2}
  null_hash = null_hash
  vin <- MC_vin
  ring <- MC_ring
  tx_weight <- MC_weight
  fee_rank <- MC_rank
  max_weight = 2
  mine_stem_txes = FALSE
  spent_at <- MC_spent
  txs_at <- MC_txs
  add_methods <- MC_methods
  weight_cap = 2
  set_methods = {"stem", "fluff"}
INVARIANTS
  MemoryMirrorsTable
  RestartLoadsPool
  VerdictsAreRight
  
  WeightCoversTable
PROPERTIES
  RelayNeverDowngraded
  EvictsCheapestFirst
  PrunedPoolFits
