--------------------------- MODULE MempoolStepProofs ---------------------------
(***************************************************************************)
(* What a step of the pool may never do, for every set of transactions and *)
(* blocks: prune out of the order of fees, end a prune over the limit with *)
(* a transaction left to drop, or lower a relay method.                    *)
(***************************************************************************)
EXTENDS MempoolProofs

\* While prune runs, an entry it will not look at any more is kept by a block or
\* pays best.
PruneInv ==
  Pruning => \A t \in Entries(pool.db) :
    \/ KeptByBlock(pool, t)
    \/ t \in todo
    \/ \A u \in Entries(pool.db) : fee_rank[u] <= fee_rank[t]

\* fee_rank is an order on numbers.
LEMMA FeeRankType == \A t \in Tx : fee_rank[t] \in Nat
BY TxPoolAssumption

\* At its begin prune means to look at all but the best-paying entry.
LEMMA PruneBegins ==
  ASSUME IInv', Pruning', todo' = PruneSet(pool')
  PROVE  PruneInv'
<1>1. pool'.sorted = Entries(pool'.db)
  BY DEF IInv, Pruning, Sound, Mirrors
<1>2. ASSUME NEW t \in Entries(pool'.db), t \notin PruneSet(pool'), NEW u \in Entries(pool'.db)
      PROVE  fee_rank[u] <= fee_rank[t]
  BY <1>1, <1>2, FeeRankType DEF PruneSet, Entries
<1> QED BY <1>2 DEF PruneInv

\* A turn of prune: the transaction it looks at goes, unless a block keeps it or
\* it is gone already; nothing else changes.
LEMMA PruneTurn ==
  ASSUME IInv, PruneStep
  PROVE  \E t \in Cheapest(todo) :
           /\ todo' = todo \ {t}
           /\ t \notin Entries(pool'.db) \/ KeptByBlock(pool, t)
           /\ Entries(pool.db) \ {t} \subseteq Entries(pool'.db)
           /\ Entries(pool'.db) \subseteq Entries(pool.db)
           /\ \A u \in Entries(pool'.db) : pool'.db[u] = pool.db[u]
<1>1. PICK t \in Cheapest(todo) : pool' = prune_one(pool, t) /\ todo' = todo \ {t}
  BY DEF PruneStep
<1>2. t \in Tx /\ pool.weight \in Nat /\ max_weight \in Nat /\ pool.weight > max_weight
  BY <1>1, TxPoolAssumption DEF IInv, TypeOK, PruneStep, Cheapest, Pool
<1>3. pool.db \in [Tx -> txpool_tx_meta_t]
  BY DEF IInv, TypeOK, Pool
<1>4. CASE ~InPool(pool, t) \/ KeptByBlock(pool, t)
  <2>1. pool' = pool
    BY <1>1, <1>4 DEF prune_one
  <2> QED BY <2>1, <1>1, <1>4 DEF InPool, Entries
<1>5. CASE InPool(pool, t) /\ ~KeptByBlock(pool, t)
  <2>1. pool' = Drop(pool, t)
    BY <1>1, <1>2, <1>5 DEF prune_one
  <2>2. pool'.db = [pool.db EXCEPT ![t] = Absent]
    BY <2>1 DEF Drop
  <2>3. \A u \in Tx : pool'.db[u] = IF u = t THEN Absent ELSE pool.db[u]
    BY <2>2, <1>3
  <2>4. t \notin Entries(pool'.db)
    BY <2>3, <1>2 DEF Entries, Absent
  <2>5. Entries(pool'.db) = Entries(pool.db) \ {t}
    BY <2>3, <2>4 DEF Entries
  <2>6. \A u \in Entries(pool'.db) : pool'.db[u] = pool.db[u]
    BY <2>3, <2>5 DEF Entries
  <2> QED BY <2>4, <2>5, <2>6, <1>1
<1> QED BY <1>4, <1>5

\* A turn of prune preserves what it has not to look at any more.
LEMMA PruneStepPruneInv ==
  ASSUME IInv, PruneInv, PruneStep
  PROVE  PruneInv'
<1>1. PICK t \in Cheapest(todo) :
           /\ todo' = todo \ {t}
           /\ t \notin Entries(pool'.db) \/ KeptByBlock(pool, t)
           /\ Entries(pool'.db) \subseteq Entries(pool.db)
           /\ \A u \in Entries(pool'.db) : pool'.db[u] = pool.db[u]
  BY PruneTurn
<1>2. ASSUME NEW w \in Entries(pool'.db)
      PROVE  \/ KeptByBlock(pool', w)
             \/ w \in todo'
             \/ \A u \in Entries(pool'.db) : fee_rank[u] <= fee_rank[w]
  <2>1. w \in Entries(pool.db) /\ pool'.db[w] = pool.db[w]
    BY <1>1, <1>2
  <2>2. KeptByBlock(pool, w) => KeptByBlock(pool', w)
    BY <2>1 DEF KeptByBlock
  <2>3. \/ KeptByBlock(pool, w)
        \/ w \in todo
        \/ \A u \in Entries(pool.db) : fee_rank[u] <= fee_rank[w]
    BY <2>1 DEF PruneInv, PruneStep
  <2> QED BY <1>1, <2>2, <2>3
<1> QED BY <1>2 DEF PruneInv

\* Prune runs on, begins (in add_tx or in validate) or does not run afterwards.
LEMMA PruneCases ==
  ASSUME IInv, [Next]_vars, Pruning'
  PROVE  PruneStep \/ todo' = PruneSet(pool') \/ UNCHANGED vars
<1>1. CASE \E t \in Tx : \E m \in add_methods[t] : AddTx(t, m)
  BY <1>1 DEF AddTx, Pruning
<1>2. CASE PruneStep
  BY <1>2
<1>3. CASE PruneEnd
  BY <1>3 DEF PruneEnd, Pruning
<1>4. CASE \/ \E t \in Tx : TakeTx(t)
           \/ \E t \in Tx, m \in set_methods : SetRelayed(t, m)
           \/ \E b \in BlockId : ChainMoves(b)
  BY <1>4 DEF TakeTx, SetRelayed, ChainMoves, Idle, Pruning
<1>5. CASE StuckStep \/ \E old \in SUBSET Entries(pool.db) : StuckBegin(old)
  BY <1>5 DEF StuckStep, StuckBegin, Pruning
<1>6. CASE FillBegin \/ FillStep \/ FillEnd
  BY <1>6 DEF FillBegin, FillStep, FillEnd, Pruning
<1>7. CASE ValidateBegin \/ ValidateEnd
  BY <1>7 DEF ValidateBegin, ValidateEnd, Pruning
<1>8. CASE \E t \in Tx, passes \in BOOLEAN : ValidateStep(t, passes)
  BY <1>8 DEF ValidateStep, Pruning
<1>9. CASE Crash \/ LoadStep \/ LoadEnd
  BY <1>9 DEF Crash, LoadStep, LoadEnd, Pruning
<1>10. CASE UNCHANGED vars
  BY <1>10
<1> QED
  BY <1>1, <1>2, <1>3, <1>4, <1>5, <1>6, <1>7, <1>8, <1>9, <1>10 DEF Next

\* Every step preserves PruneInv.
LEMMA StepPruneInv ==
  ASSUME IInv, PruneInv, [Next]_vars
  PROVE  PruneInv'
<1>1. CASE ~Pruning'
  BY <1>1 DEF PruneInv
<1>2. CASE Pruning' /\ PruneStep
  BY <1>2, PruneStepPruneInv
<1>3. CASE Pruning' /\ todo' = PruneSet(pool')
  BY <1>3, PruneBegins, StepIInv
<1>4. CASE UNCHANGED vars
  BY <1>4 DEF vars, PruneInv, Pruning
<1> QED BY <1>1, <1>2, <1>3, <1>4, PruneCases

\* PruneInv holds in every reachable state.
LEMMA PruneInvariant == Spec => [](IInv /\ PruneInv)
<1>1. Init => PruneInv
  BY DEF Init, PruneInv, Pruning
<1>2. IInv /\ PruneInv /\ [Next]_vars => (IInv /\ PruneInv)'
  BY StepIInv, StepPruneInv
<1> QED BY <1>1, <1>2, InitIInv, PTL DEF Spec

\* tx_memory_pool::prune drops a transaction only once every cheaper one that no
\* block keeps is gone.
THEOREM PruneEvictsCheapestFirst == Spec => EvictsCheapestFirst
<1> DEFINE A == \A t, u \in Tx :
       /\ Pruning /\ call' = call
       /\ InPool(pool, t) /\ ~InPool(pool, t)'
       /\ InPool(pool, u) /\ fee_rank[u] < fee_rank[t]
       => KeptByBlock(pool, u)
<1>1. IInv /\ PruneInv /\ [Next]_vars => [A]_vars
  <2> SUFFICES ASSUME IInv, PruneInv, Next, NEW t \in Tx, NEW u \in Tx,
                      Pruning, call' = call, InPool(pool, t), ~InPool(pool, t)',
                      InPool(pool, u), fee_rank[u] < fee_rank[t]
               PROVE  KeptByBlock(pool, u)
    BY Zenon
  <2>1. PruneStep
    <3>1. PruneStep \/ PruneEnd \/ Crash
      BY DEF Next, AddTx, TakeTx, SetRelayed, ChainMoves, Idle, StuckBegin, StuckStep,
             FillBegin, FillStep, FillEnd, ValidateBegin, ValidateStep, ValidateEnd,
             LoadStep, LoadEnd, Pruning
    <3> QED BY <3>1 DEF PruneEnd, Crash, Pruning
  <2>2. PICK w \in Cheapest(todo) : Entries(pool.db) \ {w} \subseteq Entries(pool'.db)
    BY <2>1, PruneTurn
  <2>3. t = w /\ u \in Entries(pool.db) /\ t \in Entries(pool.db)
    BY <2>2 DEF InPool, Entries
  <2>4. u \notin todo
    BY <2>2, <2>3, FeeRankType DEF Cheapest
  <2>5. ~(fee_rank[t] <= fee_rank[u])
    BY FeeRankType
  <2> QED BY <2>3, <2>4, <2>5 DEF PruneInv
<1> QED BY <1>1, PruneInvariant, PTL DEF Spec, EvictsCheapestFirst

\* tx_memory_pool::prune ends with a pool that fits its limit, or with nothing
\* left in it that it may drop.
THEOREM PrunedPoolAlwaysFits == Spec => PrunedPoolFits
<1> DEFINE A == Pruning /\ call' \in {"idle", "validate"} =>
       \/ pool.weight <= max_weight
       \/ \A t \in Tx : InPool(pool, t) =>
            KeptByBlock(pool, t) \/ \A u \in Entries(pool.db) : fee_rank[u] <= fee_rank[t]
<1>1. IInv /\ PruneInv /\ [Next]_vars => [A]_vars
  <2> SUFFICES ASSUME IInv, PruneInv, Next, Pruning, call' \in {"idle", "validate"},
                      ~(pool.weight <= max_weight), NEW t \in Tx, InPool(pool, t)
               PROVE  KeptByBlock(pool, t) \/ \A u \in Entries(pool.db) : fee_rank[u] <= fee_rank[t]
    BY Zenon
  <2>1. PruneEnd
    <3>1. PruneStep \/ PruneEnd \/ Crash
      BY DEF Next, AddTx, TakeTx, SetRelayed, ChainMoves, Idle, StuckBegin, StuckStep,
             FillBegin, FillStep, FillEnd, ValidateBegin, ValidateStep, ValidateEnd,
             LoadStep, LoadEnd, Pruning
    <3> QED BY <3>1 DEF PruneStep, Crash, Pruning
  <2>2. todo = {}
    BY <2>1 DEF PruneEnd
  <2> QED BY <2>2 DEF PruneInv, InPool, Entries
<1> QED BY <1>1, PruneInvariant, PTL DEF Spec, PrunedPoolFits

------------------------------------------------------------------------------
(* Relay methods *)

\* What a call changes and has not committed yet is never a relay method.
RelayInv == \A t \in Entries(pool.db) : pool.db[t].relay = disk[t].relay

\* No entry of p has a lower relay method in q.
NoneLowered(p, q) ==
  \A t \in Tx : InPool(p, t) /\ InPool(q, t) =>
    RelayRank(p.db[t].relay) <= RelayRank(q.db[t].relay)

\* An entry whose relay method stays is not lowered.
LEMMA SameNotLowered ==
  ASSUME NEW p \in Pool, NEW q,
         \A t \in Tx : InPool(q, t) => q.db[t].relay = p.db[t].relay
  PROVE  NoneLowered(p, q)
<1>1. \A t \in Tx : p.db[t].relay \in relay_method \cup {"absent"}
  BY DEF Pool, txpool_tx_meta_t
<1>2. \A t \in Tx : RelayRank(p.db[t].relay) \in Int
  BY <1>1 DEF RelayRank, relay_method
<1> QED BY <1>2 DEF NoneLowered

\* mark_double_spend changes no relay method.
LEMMA MarkRelays ==
  ASSUME NEW p \in Pool, NEW t \in Tx
  PROVE  \A u \in Tx : mark_double_spend(p, t).db[u].relay = p.db[u].relay
<1> DEFINE seen == {u \in Tx : /\ InPool(p, u)
                               /\ \E k \in InputsOf(t) : u \in p.images[k]
                               /\ ~p.db[u].double_spend_seen}
           db == [u \in Tx |-> IF u \in seen
                    THEN [p.db[u] EXCEPT !.double_spend_seen = TRUE] ELSE p.db[u]]
<1>1. mark_double_spend(p, t) = [p EXCEPT !.db = db, !.touched = p.touched \/ seen # {}]
  BY DEF mark_double_spend
<1>2. \A u \in Tx : db[u].relay = p.db[u].relay
  BY DEF Pool, txpool_tx_meta_t
<1> HIDE DEF seen, db
<1>3. mark_double_spend(p, t).db = db
  BY Zenon, <1>1 DEF Pool
<1> QED BY <1>2, <1>3

\* What add_tx may do to a relay method.
Entered(p, q, t, relay) ==
  /\ \A u \in Tx \ {t} : q.db[u].relay = p.db[u].relay
  /\ RelayRank(p.db[t].relay) <= RelayRank(q.db[t].relay)
  /\ p.db[t].relay = "absent" => q.db[t].relay \in {"absent", relay}

\* Leaving every relay method is one thing it may do.
LEMMA SameEntered ==
  ASSUME NEW p \in Pool, NEW q, NEW t \in Tx, NEW relay,
         \A u \in Tx : q.db[u].relay = p.db[u].relay
  PROVE  Entered(p, q, t, relay)
<1>1. p.db[t].relay \in relay_method \cup {"absent"}
  BY DEF Pool, txpool_tx_meta_t
<1>2. RelayRank(p.db[t].relay) \in Int
  BY <1>1 DEF RelayRank, relay_method
<1> QED BY <1>2 DEF Entered

\* add_tx of a transaction whose inputs pass upgrades its relay method.
LEMMA PassedRelays ==
  ASSUME NEW p \in Pool, NEW t \in Tx, NEW relay \in relay_method
  PROVE  Entered(p, AddPassed(p, t, relay).pool, t, relay)
<1> DEFINE method == IF relay = "stem" /\ p.db[t].relay = "stem" THEN "fluff" ELSE relay
           better == upgrade_relay_method(p.db[t].relay, method)
           meta   == [relay |-> better, last_failed_id |-> null_hash,
                      double_spend_seen |-> FALSE]
           r == AddPassed(p, t, relay)
<1>1. p.db[t].relay \in relay_method \cup {"absent"} /\ method \in relay_method
  BY DEF Pool, txpool_tx_meta_t, relay_method
<1>2. /\ RelayRank(p.db[t].relay) <= RelayRank(better)
      /\ better \in {p.db[t].relay, method}
      /\ p.db[t].relay = "absent" => better = relay
  BY <1>1, UpgradeType
<1>3. r = IF better = p.db[t].relay
            THEN Result([p EXCEPT !.touched = TRUE], TRUE)
          ELSE IF insert_key_images_ok(p, t, method)
            THEN Result(Store(p, t, meta, ~InPool(p, t)), TRUE)
            ELSE Refuse(p, t, method)
  BY DEF AddPassed
<1>4. meta.relay = better
  OBVIOUS
<1> HIDE DEF method, better, meta, r
<1>5. CASE r = Result([p EXCEPT !.touched = TRUE], TRUE)
  <2>1. r.pool.db = p.db
    BY <1>5 DEF Result, Pool
  <2> QED BY <2>1, SameEntered DEF r
<1>6. CASE r = Refuse(p, t, method)
  <2>1. r.pool.db = p.db
    BY <1>6 DEF Refuse, Result, Pool
  <2> QED BY <2>1, SameEntered DEF r
<1>7. CASE r = Result(Store(p, t, meta, ~InPool(p, t)), TRUE)
  <2>1. r.pool = Store(p, t, meta, ~InPool(p, t))
    BY <1>7 DEF Result
  <2>2. r.pool.db = [p.db EXCEPT ![t] = meta]
    BY <2>1 DEF Store
  <2>3. \A u \in Tx : r.pool.db[u] = IF u = t THEN meta ELSE p.db[u]
    BY <2>2 DEF Pool
  <2> QED BY <2>3, <1>2, <1>4 DEF Entered, r
<1> QED BY <1>3, <1>5, <1>6, <1>7

\* add_tx of a transaction of a block whose inputs fail gives it the highest one.
LEMMA FailedRelays ==
  ASSUME NEW p \in Pool, NEW t \in Tx
  PROVE  Entered(p, AddFailed(p, t).pool, t, "block")
<1> DEFINE meta == [relay |-> "block", last_failed_id |-> null_hash,
                    double_spend_seen |-> have_tx_keyimges_as_spent(p, t)]
           r == AddFailed(p, t)
<1>1. r = IF insert_key_images_ok(p, t, "block")
            THEN Result(Store(p, t, meta, TRUE), TRUE) ELSE Refuse(p, t, "block")
  BY DEF AddFailed
<1>2. meta.relay = "block"
  OBVIOUS
<1>3. p.db[t].relay \in relay_method \cup {"absent"}
  BY DEF Pool, txpool_tx_meta_t
<1>4. RelayRank(p.db[t].relay) <= RelayRank("block")
  BY <1>3 DEF RelayRank, relay_method
<1> HIDE DEF meta, r
<1>5. CASE r = Refuse(p, t, "block")
  <2>1. r.pool.db = p.db
    BY <1>5 DEF Refuse, Result, Pool
  <2> QED BY <2>1, SameEntered DEF r
<1>6. CASE r = Result(Store(p, t, meta, TRUE), TRUE)
  <2>1. r.pool = Store(p, t, meta, TRUE)
    BY <1>6 DEF Result
  <2>2. r.pool.db = [p.db EXCEPT ![t] = meta]
    BY <2>1 DEF Store
  <2>3. \A u \in Tx : r.pool.db[u] = IF u = t THEN meta ELSE p.db[u]
    BY <2>2 DEF Pool
  <2> QED BY <2>3, <1>2, <1>4 DEF Entered, r
<1> QED BY <1>1, <1>5, <1>6

\* add_tx lowers no relay method, and gives a new transaction the method it came with.
LEMMA EnterRelays ==
  ASSUME NEW p, NEW b \in BlockId, Sound(p, b), NEW t \in Tx, NEW relay \in relay_method
  PROVE  Entered(p, enter_tx(p, ChainAt(b), t, relay).pool, t, relay)
<1> DEFINE c    == ChainAt(b)
           kept == relay = "block"
           cached == IF kept THEN p ELSE CacheInputs(p, c, t)
           r    == enter_tx(p, c, t, relay)
<1>0. p \in Pool
  BY DEF Sound
<1>1. r = IF ~kept /\ t \in p.timed_out
            THEN Result(p, FALSE)
          ELSE IF ~kept /\ have_tx_keyimges_as_spent(p, t)
            THEN Result(mark_double_spend(p, t), FALSE)
          ELSE IF check_tx_inputs(p, c, t, kept)
            THEN AddPassed(cached, t, relay)
          ELSE IF kept
            THEN AddFailed(p, t)
            ELSE Result(cached, FALSE)
  BY DEF enter_tx
<1>2. cached \in Pool /\ cached.db = p.db
  BY CacheSound, <1>0 DEF Sound
<1>3. \/ r = Result(p, FALSE)
      \/ r = Result(mark_double_spend(p, t), FALSE)
      \/ r = AddPassed(cached, t, relay)
      \/ kept /\ r = AddFailed(p, t)
      \/ r = Result(cached, FALSE)
  BY Zenon, <1>1
<1> HIDE DEF cached, r
<1>4. CASE r = Result(p, FALSE)
  <2>1. r.pool = p
    BY <1>4 DEF Result
  <2> QED BY <1>0, <2>1, SameEntered DEF r
<1>5. CASE r = Result(mark_double_spend(p, t), FALSE)
  <2>1. r.pool = mark_double_spend(p, t)
    BY <1>5 DEF Result
  <2> QED BY <1>0, <2>1, MarkRelays, SameEntered DEF r
<1>6. CASE r = AddPassed(cached, t, relay)
  <2>1. Entered(cached, r.pool, t, relay)
    BY <1>2, <1>6, PassedRelays
  <2> QED BY <1>2, <2>1 DEF Entered, r
<1>7. CASE kept /\ r = AddFailed(p, t)
  BY <1>0, <1>7, FailedRelays DEF r
<1>8. CASE r = Result(cached, FALSE)
  <2>1. r.pool = cached
    BY <1>8 DEF Result
  <2> QED BY <1>0, <1>2, <2>1, SameEntered DEF r
<1> QED BY <1>3, <1>4, <1>5, <1>6, <1>7, <1>8

\* The goal of every step below.
RelayStep == RelayInv' /\ NoneLowered(pool, pool')

\* A step that ends in a commit preserves RelayInv.
LEMMA CommittedRelays == Commit => RelayInv'
BY DEF Commit, RelayInv

\* A step that removes entries, changes no relay method and commits nothing.
LEMMA KeptRelays ==
  ASSUME IInv, RelayInv, disk' = disk,
         \A t \in Tx : InPool(pool', t) => pool'.db[t].relay = pool.db[t].relay
  PROVE  RelayStep
<1>1. pool \in Pool
  BY DEF IInv, TypeOK
<1>2. RelayInv'
  BY DEF RelayInv, InPool, Entries
<1> QED BY <1>1, <1>2, SameNotLowered DEF RelayStep

\* Dropping a transaction changes no other entry.
LEMMA DropRelays ==
  ASSUME NEW p \in Pool, NEW t \in Tx
  PROVE  \A u \in Tx : Drop(p, t).db[u] = IF u = t THEN Absent ELSE p.db[u]
BY DEF Drop, Pool

\* add_tx.
LEMMA AddTxRelays ==
  ASSUME IInv, RelayInv, NEW t \in Tx, NEW m \in add_methods[t], AddTx(t, m)
  PROVE  RelayStep
<1>1. Sound(pool, top) /\ top \in BlockId /\ m \in relay_method /\ pool \in Pool
  BY Zenon, MempoolAssumption DEF IInv, TypeOK, AddTx
<1>2. pool' = enter_tx(pool, ChainAt(top), t, m).pool /\ Commit
  BY DEF AddTx, View
<1>3. Entered(pool, pool', t, m)
  BY <1>1, <1>2, EnterRelays
<1>4. \A u \in Tx : pool.db[u].relay \in relay_method \cup {"absent"}
  BY <1>1 DEF Pool, txpool_tx_meta_t
<1>5. \A u \in Tx : RelayRank(pool.db[u].relay) \in Int
  BY <1>4 DEF RelayRank, relay_method
<1>6. NoneLowered(pool, pool')
  BY <1>3, <1>5 DEF Entered, NoneLowered
<1> QED BY <1>2, <1>6, CommittedRelays DEF RelayStep

\* validate: what it adds back gets the relay method it had.
LEMMA ValidateRelays ==
  ASSUME IInv, RelayInv, NEW t \in Tx, NEW passes \in BOOLEAN, ValidateStep(t, passes)
  PROVE  RelayStep
<1>1. Sound(pool, top) /\ top \in BlockId /\ pool \in Pool /\ disk' = disk
  BY Zenon DEF IInv, TypeOK, ValidateStep
<1>2. CASE pool' = pool
  BY <1>1, <1>2, KeptRelays
<1>3. CASE InPool(pool, t) /\ pool' = Revalidate(t, passes).pool
  <2> DEFINE q == Drop(pool, t)
             rel == disk[t].relay
  <2>1. \A u \in Tx : q.db[u] = IF u = t THEN Absent ELSE pool.db[u]
    BY <1>1, DropRelays
  <2>2. Sound(q, top)
    BY <1>1, DropSound
  <2>3. rel = pool.db[t].relay /\ rel \in relay_method
    <3>1. t \in Entries(pool.db)
      BY <1>3 DEF Entries, InPool
    <3>2. rel = pool.db[t].relay
      BY <3>1 DEF RelayInv
    <3>3. pool.db[t].relay \in relay_method \cup {"absent"}
      BY <1>1 DEF Pool, txpool_tx_meta_t
    <3> QED BY <3>2, <3>3, <1>3 DEF InPool
  <2>4. \/ pool' = q
        \/ pool' = enter_tx(q, ChainAt(top), t, rel).pool
    BY <1>3 DEF Revalidate, take_tx, Result, View
  <2> HIDE DEF q, rel
  <2>5. q.db[t].relay = "absent"
    BY <2>1 DEF Absent
  <2>6. \A u \in Tx : InPool(pool', u) => pool'.db[u].relay = pool.db[u].relay
    <3>1. CASE pool' = q
      BY <3>1, <2>1, <2>5 DEF InPool
    <3>2. CASE pool' = enter_tx(q, ChainAt(top), t, rel).pool
      <4>1. Entered(q, pool', t, rel)
        BY <3>2, <1>1, <2>2, <2>3, EnterRelays
      <4>2. pool'.db[t].relay \in {"absent", rel}
        BY <4>1, <2>5 DEF Entered
      <4>3. \A u \in Tx \ {t} : pool'.db[u].relay = pool.db[u].relay
        BY <4>1, <2>1 DEF Entered
      <4> QED BY <4>2, <4>3, <2>3 DEF InPool
    <3> QED BY <2>4, <3>1, <3>2
  <2> QED BY <1>1, <2>6, KeptRelays
<1> QED BY <1>2, <1>3 DEF ValidateStep

\* prune, and the write-back of validate.
LEMMA PruneRelays ==
  ASSUME IInv, RelayInv, PruneStep \/ PruneEnd
  PROVE  RelayStep
<1>0. pool \in Pool /\ disk \in [Tx -> txpool_tx_meta_t]
  BY DEF IInv, TypeOK
<1>1. CASE PruneStep
  <2>1. \A u \in Entries(pool'.db) : pool'.db[u] = pool.db[u]
    BY <1>1, PruneTurn
  <2>2. \A u \in Tx : InPool(pool', u) => pool'.db[u].relay = pool.db[u].relay
    BY <2>1 DEF Entries, InPool
  <2> QED BY <1>1, <2>2, KeptRelays DEF PruneStep
<1>2. CASE PruneEnd /\ call = "prune"
  <2>1. pool' = pool /\ Commit
    BY <1>2 DEF PruneEnd
  <2> QED BY <1>0, <2>1, CommittedRelays, SameNotLowered DEF RelayStep
<1>3. CASE PruneEnd /\ call = "revalidate"
  <2> DEFINE db == [t \in Tx |-> IF t \in entry /\ InPool(pool, t) THEN disk[t] ELSE pool.db[t]]
  <2>1. pool' = [pool EXCEPT !.db = db] /\ disk' = disk
    BY <1>3 DEF PruneEnd
  <2>2. \A u \in Tx : db[u].relay = pool.db[u].relay
    BY DEF RelayInv, InPool, Entries
  <2> HIDE DEF db
  <2>3. pool'.db = db
    BY <1>0, <2>1 DEF Pool
  <2> QED BY <2>1, <2>2, <2>3, KeptRelays
<1> QED BY <1>1, <1>2, <1>3 DEF PruneEnd

\* take_tx and remove_stuck_transactions.
LEMMA LeaveRelays ==
  ASSUME IInv, RelayInv, StuckStep \/ \E t \in Tx : TakeTx(t)
  PROVE  RelayStep
<1>0. pool \in Pool /\ todo \subseteq Tx
  BY DEF IInv, TypeOK
<1>1. PICK t \in Tx : pool'.db = Drop(pool, t).db
  <2>1. CASE StuckStep
    <3>1. PICK t \in todo : pool' = remove_stuck_one(pool, t)
      BY <2>1 DEF StuckStep
    <3>2. pool'.db = Drop(pool, t).db
      BY <3>1 DEF remove_stuck_one, Drop
    <3> QED BY <1>0, <3>1, <3>2
  <2>2. CASE \E t \in Tx : TakeTx(t)
    BY <2>2 DEF TakeTx, take_tx
  <2> QED BY <2>1, <2>2
<1>2. \A u \in Tx : pool'.db[u] = IF u = t THEN Absent ELSE pool.db[u]
  BY <1>0, <1>1, DropRelays
<1>3. \A u \in Tx : InPool(pool', u) => pool'.db[u].relay = pool.db[u].relay
  BY <1>2 DEF InPool, Absent
<1>4. CASE Commit
  BY <1>0, <1>3, <1>4, CommittedRelays, SameNotLowered DEF RelayStep
<1>5. CASE disk' = disk
  BY <1>3, <1>5, KeptRelays
<1> QED BY <1>4, <1>5 DEF StuckStep, TakeTx

\* set_relayed.
LEMMA SetRelayedRelays ==
  ASSUME IInv, RelayInv, NEW t \in Tx, NEW m \in set_methods, SetRelayed(t, m)
  PROVE  RelayStep
<1>0. pool \in Pool /\ m \in relay_method /\ Commit
  BY MempoolAssumption DEF IInv, TypeOK, SetRelayed
<1> DEFINE old  == pool.db[t].relay
           new  == upgrade_relay_method(old, m)
           meta == [pool.db[t] EXCEPT !.relay = new]
           db   == [pool.db EXCEPT ![t] = meta]
           sorted == IF old \notin broadcasted /\ new \in broadcasted
                       THEN pool.sorted \cup {t} ELSE pool.sorted
<1>1. CASE pool' = pool
  BY <1>0, <1>1, CommittedRelays, SameNotLowered DEF RelayStep
<1>2. CASE pool' = [pool EXCEPT !.db = db, !.sorted = sorted]
  <2>1. \A u \in Tx : pool.db[u].relay \in relay_method \cup {"absent"}
    BY <1>0 DEF Pool, txpool_tx_meta_t
  <2>2. \A u \in Tx : RelayRank(pool.db[u].relay) \in Int
    BY <2>1 DEF RelayRank, relay_method
  <2>3. RelayRank(old) <= RelayRank(new)
    BY <1>0, <2>1, UpgradeType
  <2>4. db[t].relay = new /\ \A u \in Tx \ {t} : db[u] = pool.db[u]
    BY <1>0 DEF Pool, txpool_tx_meta_t
  <2> HIDE DEF db, new, sorted
  <2>5. pool'.db = db
    BY <1>0, <1>2 DEF Pool
  <2>6. NoneLowered(pool, pool')
    BY <2>2, <2>3, <2>4, <2>5 DEF NoneLowered
  <2> QED BY <1>0, <2>6, CommittedRelays DEF RelayStep
<1> QED BY <1>1, <1>2 DEF SetRelayed, set_relayed

\* fill_block_template.
LEMMA FillRelays ==
  ASSUME IInv, RelayInv, FillBegin \/ FillStep \/ FillEnd
  PROVE  RelayStep
<1>0. pool \in Pool /\ todo \subseteq Tx /\ top \in BlockId
  BY DEF IInv, TypeOK
<1>1. CASE FillBegin
  BY <1>1, KeptRelays DEF FillBegin
<1>2. CASE FillEnd
  <2>1. pool'.db = pool.db /\ Commit
    BY <1>0, <1>2 DEF FillEnd, Pool
  <2> QED BY <1>0, <2>1, CommittedRelays, SameNotLowered DEF RelayStep
<1>3. CASE FillStep
  <2>1. disk' = disk
    BY <1>3 DEF FillStep
  <2>2. CASE pool' = pool
    BY <2>1, <2>2, KeptRelays
  <2>3. CASE \E t \in Dearest(todo) : pool' = AskReady(pool, View, t)
    <3>1. PICK t \in Tx : pool' = AskReady(pool, View, t)
      BY <1>0, <2>3 DEF Dearest
    <3> DEFINE q == CacheInputs(pool, View, t)
               meta == [pool.db[t] EXCEPT !.last_failed_id = top]
               db == [pool.db EXCEPT ![t] = meta]
    <3>2. q \in Pool /\ q.db = pool.db
      <4>1. Sound(pool, top)
        BY <1>3 DEF IInv, FillStep
      <4> QED BY <1>0, <4>1, CacheSound DEF View, Sound
    <3>3. pool' = pool \/ pool' = q \/ pool' = [q EXCEPT !.db[t].last_failed_id = top]
      BY <3>1 DEF AskReady, View, ChainAt
    <3>4. CASE pool' = pool \/ pool' = q
      BY <2>1, <3>2, <3>4, KeptRelays
    <3>5. CASE pool' = [q EXCEPT !.db[t].last_failed_id = top]
      <4> HIDE DEF q
      <4>1. pool' = [q EXCEPT !.db = db]
        BY <3>2, <3>5
      <4>2. \A u \in Tx : db[u].relay = pool.db[u].relay
        BY <1>0 DEF Pool, txpool_tx_meta_t
      <4> HIDE DEF db
      <4>3. pool'.db = db
        BY <3>2, <4>1 DEF Pool
      <4> QED BY <2>1, <4>2, <4>3, KeptRelays
    <3> QED BY <3>3, <3>4, <3>5
  <2> QED BY <1>3, <2>2, <2>3 DEF FillStep
<1> QED BY <1>1, <1>2, <1>3

\* The chain, a crash, and init.
LEMMA OtherRelays ==
  ASSUME IInv, RelayInv,
         \/ \E old \in SUBSET Entries(pool.db) : StuckBegin(old)
         \/ ValidateBegin \/ ValidateEnd
         \/ \E b \in BlockId : ChainMoves(b)
         \/ Crash \/ LoadStep \/ LoadEnd
         \/ UNCHANGED vars
  PROVE  RelayStep
<1>0. pool \in Pool
  BY DEF IInv, TypeOK
<1>1. CASE \/ \E old \in SUBSET Entries(pool.db) : StuckBegin(old)
           \/ ValidateBegin \/ LoadEnd \/ UNCHANGED vars
  <2>1. pool' = pool /\ disk' = disk
    BY <1>1 DEF StuckBegin, ValidateBegin, LoadEnd, vars
  <2> QED BY <2>1, KeptRelays
<1>2. CASE ValidateEnd
  BY <1>0, <1>2, CommittedRelays, SameNotLowered DEF RelayStep, ValidateEnd
<1>3. CASE \E b \in BlockId : ChainMoves(b)
  <2>1. pool'.db = pool.db /\ disk' = disk
    BY <1>0, <1>3 DEF ChainMoves, on_blockchain_change, Pool
  <2> QED BY <2>1, KeptRelays
<1>4. CASE Crash
  <2>1. pool'.db = disk /\ disk' = disk
    BY <1>4 DEF Crash, Unloaded
  <2>2. RelayInv'
    BY <2>1 DEF RelayInv
  <2>3. \A t \in Tx : pool.db[t].relay \in relay_method \cup {"absent"}
    BY <1>0 DEF Pool, txpool_tx_meta_t
  <2>4. \A t \in Tx : RelayRank(pool.db[t].relay) \in Int
    BY <2>3 DEF RelayRank, relay_method
  <2>5. NoneLowered(pool, pool')
    BY <2>1, <2>4 DEF NoneLowered, RelayInv, InPool, Entries
  <2> QED BY <2>2, <2>5 DEF RelayStep
<1>5. CASE LoadStep
  <2>1. pool'.db = pool.db /\ disk' = disk
    <3>1. PICK t : pool' = load_one(pool, t) \/ pool' = pool
      BY <1>5 DEF LoadStep
    <3>2. load_one(pool, t).db = pool.db
      BY DEF load_one, Store
    <3> QED BY <3>1, <3>2, <1>5 DEF LoadStep
  <2> QED BY <2>1, KeptRelays
<1> QED BY <1>1, <1>2, <1>3, <1>4, <1>5

\* Every step preserves RelayInv and lowers no relay method.
LEMMA StepRelays == IInv /\ RelayInv /\ [Next]_vars => RelayStep
<1> SUFFICES ASSUME IInv, RelayInv, [Next]_vars PROVE RelayStep
  OBVIOUS
<1>1. CASE \E t \in Tx : \E m \in add_methods[t] : AddTx(t, m)
  BY <1>1, AddTxRelays
<1>2. CASE PruneStep \/ PruneEnd
  BY <1>2, PruneRelays
<1>3. CASE StuckStep \/ \E t \in Tx : TakeTx(t)
  BY <1>3, LeaveRelays
<1>4. CASE \E t \in Tx, m \in set_methods : SetRelayed(t, m)
  BY <1>4, SetRelayedRelays
<1>5. CASE FillBegin \/ FillStep \/ FillEnd
  BY <1>5, FillRelays
<1>6. CASE \E t \in Tx, passes \in BOOLEAN : ValidateStep(t, passes)
  BY <1>6, ValidateRelays
<1>7. CASE \/ \E old \in SUBSET Entries(pool.db) : StuckBegin(old)
           \/ ValidateBegin \/ ValidateEnd
           \/ \E b \in BlockId : ChainMoves(b)
           \/ Crash \/ LoadStep \/ LoadEnd
           \/ UNCHANGED vars
  BY <1>7, OtherRelays
<1> QED BY <1>1, <1>2, <1>3, <1>4, <1>5, <1>6, <1>7 DEF Next

\* No call, no prune, no validate and no crash of the pool lowers the relay method
\* of a transaction that stays in it.
THEOREM RelayIsNeverDowngraded == Spec => RelayNeverDowngraded
<1> DEFINE A == \A t \in Tx : InPool(pool, t) /\ InPool(pool, t)' =>
       RelayRank(pool.db[t].relay) <= RelayRank(pool.db[t].relay)'
<1>1. Init => RelayInv
  BY DEF Init, RelayInv
<1>2. IInv /\ RelayInv /\ [Next]_vars => RelayInv'
  BY StepRelays DEF RelayStep
<1>3. IInv /\ RelayInv /\ [Next]_vars => [A]_vars
  BY StepRelays DEF RelayStep, NoneLowered, InPool
<1> QED BY <1>1, <1>2, <1>3, Invariant, PTL DEF Spec, RelayNeverDowngraded
===============================================================================
