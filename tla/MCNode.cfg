SPECIFICATION Spec
CONSTANTS
  t1 = t1
  t2 = t2
  t3 = t3
  k1 = k1
  k2 = k2
  g = g
  a1 = a1
  a2 = a2
  b1 = b1
  b2 = b2
  c2 = c2
  d2 = d2
  Tx = {t1, t2, t3}
  KeyImage = {k1, k2}
  BlockId = {g, a1, a2, b1, b2, c2, d2}
  null_hash = null_hash
  genesis = g
  vin <- MC_vin
  ring <- MC_ring
  tx_weight <- MC_weight
  fee_rank <- MC_rank
  max_weight = 9
  mine_stem_txes = FALSE
  prev_id <- MC_prev
  tx_hashes <- MC_txs
  cumulative_difficulty <- MC_work
  bad_reward = {d2}
  add_methods = {"stem"}
  set_methods = {"fluff"}
  pop_counts = {}
  may_throw = {}
INVARIANTS
  ChainIsSound
  
  
  
  
  AdoptsBestChain
PROPERTIES
  TopOnlyGainsWork
  TxsSurvive
