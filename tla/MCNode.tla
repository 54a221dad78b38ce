-------------------------------- MODULE MCNode --------------------------------
EXTENDS Node, TLC

CONSTANTS t1, t2, t3, k1, k2, g, a1, a2, b1, b2, c2, d2

\* g -- a1 -- a2
\*  |     \-- d2
\*  \-- b1 -- b2
\*        \-- c2
\* t1 and t2 spend the same key image, so c2, which has t1 after b1's t2, fails;
\* t3 refers to an output of t1; the reward of d2, which has t3, may be wrong
Of(f) == [t \in Tx |-> f[t]]

MC_vin == Of(t1 :> <<k1>> @@ t2 :> <<k1>> @@ t3 :> <<k2>>)
MC_ring == Of(t1 :> {} @@ t2 :> {} @@ t3 :> {t1})
MC_weight == [t \in Tx |-> 1]
\* for the runs in which m_txpool_weight would drift without a bound
MC_weightless == [t \in Tx |-> 0]
MC_rank == Of(t1 :> 1 @@ t2 :> 2 @@ t3 :> 3)
MC_prev == [b \in BlockId |->
  (g :> null_hash @@ a1 :> g @@ a2 :> a1 @@ b1 :> g @@ b2 :> b1 @@ c2 :> b1 @@ d2 :> a1)[b]]
MC_txs == [b \in BlockId |->
  (g :> <<>> @@ a1 :> <<t1>> @@ a2 :> <<t3>> @@ b1 :> <<t2>> @@ b2 :> <<>> @@ c2 :> <<t1>> @@ d2 :> <<t3>>)[b]]
MC_work == [b \in BlockId |->
  (g :> 1 @@ a1 :> 2 @@ a2 :> 3 @@ b1 :> 2 @@ b2 :> 4 @@ c2 :> 4 @@ d2 :> 3)[b]]
===============================================================================
