------------------------------ MODULE MCMempool ------------------------------
EXTENDS Mempool, TLC

CONSTANTS t1, t2, t3, k1, k2, b1, b2

Of(f) == [t \in Tx |-> f[t]]

MC_vin == Of(t1 :> <<k1>> @@ t2 :> <<k2>> @@ t3 :> <<k2, k1>>)
MC_ring == [t \in Tx |-> {}]
MC_weight == Of(t1 :> 1 @@ t2 :> 1 @@ t3 :> 2)
MC_rank == Of(t1 :> 2 @@ t2 :> 1 @@ t3 :> 3)
MC_spent == [b \in BlockId |-> IF b = b1 THEN {} ELSE {k1}]
MC_methods == Of(t1 :> {"stem", "fluff"} @@ t2 :> {"stem", "block"} @@ t3 :> {"fluff", "block"})
MC_txs == [b \in BlockId |-> {}]
===============================================================================
