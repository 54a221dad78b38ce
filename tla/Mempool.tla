-------------------------------- MODULE Mempool --------------------------------
(***************************************************************************)
(* The life of the transaction pool of one node, the loops of its methods  *)
(* one turn at a time.                                                     *)
(*                                                                         *)
(* disk is the txpool table as last committed: a method works inside one   *)
(* LockedTXN and commits at its end (add_tx before its call of prune,      *)
(* which has a transaction of its own).  A crash at any turn loses what is *)
(* not committed and everything in memory, and init loads the rest.        *)
(*                                                                         *)
(* The chain is seen through its top block, whose spent key images and     *)
(* transactions are constants, and moves at will: which transactions its   *)
(* blocks take out of the pool and give back are calls of take_tx and      *)
(* add_tx like any other (module Node has the chain itself).               *)
(***************************************************************************)
EXTENDS TxPool

CONSTANTS
  spent_at,      \* spent_at[b]: the key images spent by the chain up to b
  txs_at,        \* txs_at[b]: the transactions of the chain up to b
  add_methods,   \* add_methods[t]: the relay methods t arrives with
  set_methods,   \* the relay methods transactions are relayed with
  weight_cap     \* bound: no call of add_tx once the weight counted is beyond it

ASSUME MempoolAssumption ==
  /\ BlockId # {}
  /\ spent_at \in [BlockId -> SUBSET KeyImage]
  /\ txs_at \in [BlockId -> SUBSET Tx]
  /\ add_methods \in [Tx -> SUBSET relay_method]
  /\ set_methods \subseteq relay_method \ {"block"}
  /\ weight_cap \in Nat

VARIABLES
  pool,      \* the pool
  top,       \* the chain's top block
  disk,      \* the txpool table as last committed
  call,      \* the method under way; the pool's lock is held unless it is "idle"
  todo,      \* what is left of its loop
  left,      \* validate: the transactions it has not taken out yet
  entry,     \* validate: the transactions (at most one) it is adding back
  chosen     \* fill_block_template: bl.tx_hashes

vars == <<pool, top, disk, call, todo, left, entry, chosen>>

ChainAt(b) == [spent |-> spent_at[b], txs |-> txs_at[b], top |-> b]
View == ChainAt(top)

Calls == {"idle", "prune", "stuck", "fill", "validate", "revalidate", "load", "failed"}

Entries(db) == {t \in Tx : db[t].relay # "absent"}

Init ==
  /\ pool = EmptyPool
  /\ top \in BlockId
  /\ disk = EmptyPool.db
  /\ call = "idle"
  /\ todo = {} /\ left = {} /\ entry = {} /\ chosen = {}

Commit == disk' = pool'.db
Idle == call = "idle" /\ UNCHANGED <<todo, left, entry, chosen>>

------------------------------------------------------------------------------
(* add_tx, and the prune at its end *)

\* core::add_new_tx asks for a transaction that is neither in the chain nor
\* public in the pool; so do the callers that add with relay_method::block.
AddTx(t, relay) ==
  /\ call = "idle"
  /\ ~IsLegacy(pool, t)
  /\ t \notin View.txs
  /\ pool.weight <= weight_cap
  /\ LET r == enter_tx(pool, View, t, relay) IN
       /\ pool' = r.pool
       /\ IF r.ok THEN call' = "prune" /\ todo' = PruneSet(r.pool)
                  ELSE UNCHANGED <<call, todo>>
  /\ Commit
  /\ UNCHANGED <<top, left, entry, chosen>>

\* mutant: the loop runs from the other end
Bug_Cheapest_dearest(S) == {t \in S : \A u \in S : fee_rank[u] <= fee_rank[t]}

Cheapest(S) == {t \in S : \A u \in S : fee_rank[t] <= fee_rank[u]}
Dearest(S)  == {t \in S : \A u \in S : fee_rank[u] <= fee_rank[t]}

Pruning == call \in {"prune", "revalidate"}

PruneStep ==
  /\ Pruning
  /\ pool.weight > max_weight
  /\ \E t \in Cheapest(todo) :
       /\ pool' = prune_one(pool, t)
       /\ todo' = todo \ {t}
  /\ UNCHANGED <<top, disk, call, left, entry, chosen>>

\* validate writes the entry it had read back over the one add_tx made, unless
\* prune took it out
PruneEnd ==
  /\ Pruning
  /\ pool.weight <= max_weight \/ todo = {}
  /\ todo' = {}
  /\ \/ /\ call = "prune"
        /\ call' = "idle"
        /\ UNCHANGED <<pool, entry>>
        /\ Commit
     \/ /\ call = "revalidate"
        /\ call' = "validate"
        /\ entry' = {}
        /\ pool' = [pool EXCEPT !.db = [t \in Tx |->
                      IF t \in entry /\ InPool(pool, t) THEN disk[t] ELSE @[t]]]
        /\ UNCHANGED disk
  /\ UNCHANGED <<top, left, chosen>>

------------------------------------------------------------------------------
(* take_tx, set_relayed, remove_stuck_transactions *)

TakeTx(t) ==
  /\ Idle
  /\ InPool(pool, t)
  /\ pool' = take_tx(pool, t)
  /\ Commit
  /\ UNCHANGED <<top, call>>

SetRelayed(t, method) ==
  /\ Idle
  /\ pool' = set_relayed(pool, t, method)
  /\ Commit
  /\ UNCHANGED <<top, call>>

\* the transactions that have outlived their time: any set of them
StuckBegin(old) ==
  /\ call = "idle"
  /\ old # {}
  /\ call' = "stuck"
  /\ todo' = old
  /\ UNCHANGED <<pool, top, disk, left, entry, chosen>>

StuckStep ==
  /\ call = "stuck"
  /\ \E t \in todo :
       /\ pool' = remove_stuck_one(pool, t)
       /\ todo' = todo \ {t}
       /\ IF todo = {t} THEN call' = "idle" /\ Commit ELSE UNCHANGED <<call, disk>>
  /\ UNCHANGED <<top, left, entry, chosen>>

------------------------------------------------------------------------------
(* fill_block_template, by Blockchain::create_block_template *)

FillBegin ==
  /\ call = "idle"
  /\ call' = "fill"
  /\ todo' = pool.sorted
  /\ chosen' = {}
  /\ UNCHANGED <<pool, top, disk, left, entry>>

FillStep ==
  /\ call = "fill"
  /\ \E t \in Dearest(todo) :
       /\ todo' = todo \ {t}
       /\ \/ UNCHANGED <<pool, chosen>>   \* too heavy or not worth it
          \/ /\ Minable(pool, t)
             /\ pool' = AskReady(pool, View, t)
             /\ chosen' = fill_one(pool, View, chosen, t)
  /\ UNCHANGED <<top, disk, call, left, entry>>

\* the template is cached with the pool's cookie
FillEnd ==
  /\ call = "fill"
  /\ todo = {}
  /\ call' = "idle"
  /\ pool' = [pool EXCEPT !.touched = FALSE]
  /\ chosen' = {}
  /\ Commit
  /\ UNCHANGED <<top, todo, left, entry>>

------------------------------------------------------------------------------
(* validate, when the hard fork version has changed *)

ValidateBegin ==
  /\ call = "idle"
  /\ call' = "validate"
  /\ left' = Entries(pool.db)
  /\ entry' = {}
  /\ UNCHANGED <<pool, top, disk, todo, chosen>>

\* take out and add back; `passes`: it obeys the rules of the new version
Revalidate(t, passes) ==
  LET q == take_tx(pool, t)
  IN  IF passes THEN enter_tx(q, View, t, disk[t].relay) ELSE Result(q, FALSE)

ValidateStep(t, passes) ==
  /\ call = "validate"
  /\ t \in left
  /\ left' = left \ {t}
  /\ \/ /\ ~InPool(pool, t)      \* pruned since
        /\ UNCHANGED <<pool, call, todo, entry>>
     \/ /\ InPool(pool, t)
        /\ pool' = Revalidate(t, passes).pool
        /\ IF Revalidate(t, passes).ok
             THEN call' = "revalidate" /\ todo' = PruneSet(pool') /\ entry' = {t}
             ELSE UNCHANGED <<call, todo, entry>>
  /\ UNCHANGED <<top, disk, chosen>>

ValidateEnd ==
  /\ call = "validate"
  /\ left = {}
  /\ call' = "idle"
  /\ UNCHANGED <<pool, top, todo, left, entry, chosen>>
  /\ Commit

------------------------------------------------------------------------------
(* The chain, a crash, init *)

ChainMoves(b) ==
  /\ Idle
  /\ b # top
  /\ top' = b
  /\ pool' = on_blockchain_change(pool)
  /\ UNCHANGED <<disk, call>>

Crash ==
  /\ call # "failed"
  /\ pool' = Unloaded(disk)
  /\ call' = "load"
  /\ todo' = Entries(disk)
  /\ left' = {} /\ entry' = {} /\ chosen' = {}
  /\ UNCHANGED <<top, disk>>

LoadStep ==
  /\ call = "load"
  /\ \E t \in LoadNext(pool, todo) :
       IF load_ok(pool, t)
         THEN /\ pool' = load_one(pool, t)
              /\ todo' = todo \ {t}
              /\ UNCHANGED call
         ELSE call' = "failed" /\ UNCHANGED <<pool, todo>>
  /\ UNCHANGED <<top, disk, left, entry, chosen>>

LoadEnd ==
  /\ call = "load"
  /\ todo = {}
  /\ call' = "idle"
  /\ UNCHANGED <<pool, top, disk, todo, left, entry, chosen>>

Next ==
  \/ \E t \in Tx : \E m \in add_methods[t] : AddTx(t, m)
  \/ PruneStep \/ PruneEnd
  \/ \E t \in Tx : TakeTx(t)
  \/ \E t \in Tx, m \in set_methods : SetRelayed(t, m)
  \/ \E old \in SUBSET Entries(pool.db) : StuckBegin(old)
  \/ StuckStep
  \/ FillBegin \/ FillStep \/ FillEnd
  \/ ValidateBegin
  \/ \E t \in Tx, passes \in BOOLEAN : ValidateStep(t, passes)
  \/ ValidateEnd
  \/ \E b \in BlockId : ChainMoves(b)
  \/ Crash \/ LoadStep \/ LoadEnd

Spec == Init /\ [][Next]_vars

------------------------------------------------------------------------------
(* Properties *)

\* The variables have their types, and a loop's turns are about transactions of
\* the pool.
TypeOK ==
  /\ pool \in Pool
  /\ top \in BlockId
  /\ disk \in [Tx -> txpool_tx_meta_t]
  /\ call \in Calls
  /\ todo \subseteq Tx /\ left \subseteq Tx /\ entry \subseteq Tx /\ chosen \subseteq Tx

\* The transactions m_spent_key_images and the fee order know: all of the table's,
\* but while init is loading those it has come to.
Known == IF call \in {"load", "failed"} THEN Entries(pool.db) \ todo ELSE Entries(pool.db)

\* m_spent_key_images lists under every key image exactly the transactions of the
\* table that spend it, so remove_transaction_keyimages always finds what it
\* removes and never stops early.
ImagesMirrorTable ==
  \A k \in KeyImage : pool.images[k] = {t \in Known : k \in InputsOf(t)}

\* m_txs_by_fee_and_receive_time lists exactly the transactions of the table, so
\* prune and fill_block_template reach every one of them.
FeeOrderMirrorsTable == pool.sorted = Known

\* What the pool keeps in memory beside the table, by hand in each of its methods,
\* agrees with it at every turn of every loop and after every crash.
MemoryMirrorsTable == ImagesMirrorTable /\ FeeOrderMirrorsTable

\* Whatever the sequence of calls and wherever the crash, init never meets two
\* transactions that collide on a key image ("first add the not kept by block,
\* then the kept by block, to avoid rejection due to key image collision").
RestartLoadsPool == call # "failed"

\* A cached result of check_tx_inputs is what the chain would answer now.
InputCacheIsFresh ==
  \A t \in Tx : pool.input_cache[t] # "unknown" =>
    (pool.input_cache[t] = "ok" <=> ChainAccepts(View, t))

\* last_failed_id names a block at which the transaction's inputs really fail, so
\* is_transaction_ready_to_go skips nothing that could be mined, after a crash
\* and after the chain has come back to that block included.
LastFailedReallyFailed ==
  \A t \in Tx : LET b == pool.db[t].last_failed_id IN
    b # null_hash => ~ChainAccepts(ChainAt(b), t)

\* Both verdicts the pool remembers of a transaction's inputs, the one in memory
\* and the one in the table, are the chain's, however the chain has moved.
VerdictsAreRight == InputCacheIsFresh /\ LastFailedReallyFailed

\* A block template holds only transactions the chain accepts on its top and no
\* two that spend the same key image, even though the pool may hold such pairs.
TemplateIsMinable ==
  call = "fill" =>
    /\ \A t \in chosen : ChainAccepts(View, t)
    /\ \A t, u \in chosen : t # u => InputsOf(t) \cap InputsOf(u) = {}

\* No step moves a transaction of the pool to a lower relay method: what was
\* broadcast never becomes private again, across a crash and validate included.
RelayNeverDowngraded ==
  [][\A t \in Tx : InPool(pool, t) /\ InPool(pool, t)' =>
       RelayRank(pool.db[t].relay) <= RelayRank(pool.db[t].relay)']_vars

\* prune drops a transaction only once every cheaper one that no block keeps is
\* gone.
EvictsCheapestFirst ==
  [][\A t, u \in Tx :
       /\ Pruning /\ call' = call
       /\ InPool(pool, t) /\ ~InPool(pool, t)'
       /\ InPool(pool, u) /\ fee_rank[u] < fee_rank[t]
       => KeptByBlock(pool, u)]_vars

\* When prune ends, the pool fits its limit or holds, beside its best-paying
\* transaction, only such as a block keeps.
PrunedPoolFits ==
  [][Pruning /\ call' \in {"idle", "validate"} =>
       \/ pool.weight <= max_weight
       \/ \A t \in Tx : InPool(pool, t) =>
            KeptByBlock(pool, t) \/ \A u \in Entries(pool.db) : fee_rank[u] <= fee_rank[t]]_vars

\* m_txpool_weight never falls short of the pool's real weight, so prune does not
\* stop while the pool is over its limit.
TableWeight == MapThenSumSet(LAMBDA t : tx_weight[t], Known)
WeightCoversTable == pool.weight >= TableWeight
===============================================================================
