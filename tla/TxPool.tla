-------------------------------- MODULE TxPool --------------------------------
(***************************************************************************)
(* The transaction pool (tx_memory_pool, src/cryptonote_core/tx_pool.cpp). *)
(*                                                                         *)
(* A pool is one record: db is the txpool table of the database, which     *)
(* survives a restart; the other fields are the members that are kept in   *)
(* memory and rebuilt by init:                                             *)
(*   images      m_spent_key_images                                        *)
(*   sorted      m_txs_by_fee_and_receive_time                             *)
(*   weight      m_txpool_weight                                           *)
(*   timed_out   m_timed_out_transactions                                  *)
(*   input_cache m_input_cache                                             *)
(*   touched     whether m_cookie has moved since the miner's block        *)
(*               template was cached (m_btc_pool_cookie # m_cookie)        *)
(* Every method takes the pool's lock and then the chain's, so each is an  *)
(* operator from a pool, and where it asks the chain from the chain's      *)
(* [spent, txs, top], to a pool.                                           *)
(*                                                                         *)
(* Transactions, key images and blocks are identifiers.  What is left out  *)
(* of a transaction's metadata are its times, its relayed and pruned flags *)
(* and its verification id.  Transactions that break a rule that asks      *)
(* neither the pool nor the chain's outputs (ver_non_input_consensus, the  *)
(* fee, the size of extra, the unlock time) leave no trace in the pool and *)
(* are not in Tx.  No two transactions have the same fee per byte, so the  *)
(* order of m_txs_by_fee_and_receive_time is that of fee_rank.             *)
(***************************************************************************)
EXTENDS Integers, Sequences, SequencesExt, FiniteSetsExt

CONSTANTS
  Tx,             \* transaction ids
  KeyImage,       \* key images
  vin,            \* vin[t]: the key images of t's inputs, in order
  ring,           \* ring[t]: the transactions whose outputs t's rings refer to
  tx_weight,      \* tx_weight[t]: its weight in bytes
  fee_rank,       \* fee_rank[t]: its place in the order of fee per byte
  max_weight,     \* m_txpool_max_weight
  mine_stem_txes, \* m_mine_stem_txes
  BlockId,        \* block ids
  null_hash       \* no block

ASSUME TxPoolAssumption ==
  /\ vin \in [Tx -> Seq(KeyImage)]
  /\ \A t \in Tx : \A i, j \in DOMAIN vin[t] : vin[t][i] = vin[t][j] => i = j
  /\ ring \in [Tx -> SUBSET Tx]
  /\ tx_weight \in [Tx -> Nat]
  /\ fee_rank \in [Tx -> Nat]
  /\ \A t, u \in Tx : fee_rank[t] = fee_rank[u] => t = u
  /\ max_weight \in Nat
  /\ mine_stem_txes \in BOOLEAN
  /\ null_hash \notin BlockId

\* relay_method, in its order; "absent" is the method of no entry at all
relay_method == {"none", "local", "forward", "stem", "fluff", "block"}

RelayRank(m) ==
  CASE m = "absent" -> 0 [] m = "none" -> 1 [] m = "local" -> 2 [] m = "forward" -> 3
    [] m = "stem" -> 4 [] m = "fluff" -> 5 [] m = "block" -> 6

\* mutant: the last method wins
Bug_upgrade_relay_method_last(old, new) == new

upgrade_relay_method(old, new) == IF RelayRank(old) < RelayRank(new) THEN new ELSE old

legacy == {"block", "fluff", "none"}
broadcasted == {"block", "fluff"}

txpool_tx_meta_t == [relay : relay_method \cup {"absent"},
                     last_failed_id : BlockId \cup {null_hash},
                     double_spend_seen : BOOLEAN]

Absent == [relay |-> "absent", last_failed_id |-> null_hash, double_spend_seen |-> FALSE]

Pool == [db          : [Tx -> txpool_tx_meta_t],
         images      : [KeyImage -> SUBSET Tx],
         sorted      : SUBSET Tx,
         weight      : Nat,
         timed_out   : SUBSET Tx,
         input_cache : [Tx -> {"unknown", "ok", "failed"}],
         touched     : BOOLEAN]

\* a pool that has the table and, yet, nothing of it in memory
Unloaded(db) ==
  [db |-> db, images |-> [k \in KeyImage |-> {}], sorted |-> {},
   weight |-> 0, timed_out |-> {}, input_cache |-> [t \in Tx |-> "unknown"],
   touched |-> TRUE]

EmptyPool == Unloaded([t \in Tx |-> Absent])

InPool(p, t)    == p.db[t].relay # "absent"
IsLegacy(p, t)  == p.db[t].relay \in legacy
KeptByBlock(p, t) == p.db[t].relay = "block"

InputsOf(t) == {vin[t][i] : i \in DOMAIN vin[t]}

------------------------------------------------------------------------------
(* Key images *)

have_tx_keyimg_as_spent(p, k, t) ==
  p.images[k] # {} /\ (p.images[k] # {t} \/ IsLegacy(p, t))

have_tx_keyimges_as_spent(p, t) == \E k \in InputsOf(t) : have_tx_keyimg_as_spent(p, k, t)

CanInsert(p, t, relay, k) ==
  /\ relay # "block" => p.images[k] \subseteq {t}
  /\ t \notin p.images[k] \/ ~IsLegacy(p, t)

insert_key_images_ok(p, t, relay) == \A k \in InputsOf(t) : CanInsert(p, t, relay, k)

\* the inputs before the first one that fails: all of them, if none does
InsertedInputs(p, t, relay) ==
  {vin[t][i] : i \in {j \in DOMAIN vin[t] :
     \A h \in 1..j : CanInsert(p, t, relay, vin[t][h])}}

\* m_spent_key_images afterwards
insert_key_images(p, t, relay) ==
  [k \in KeyImage |-> IF k \in InsertedInputs(p, t, relay)
                        THEN p.images[k] \cup {t} ELSE p.images[k]]

\* remove_transaction_keyimages stops at the first image that lacks the transaction
RemovedInputs(p, t) ==
  {vin[t][i] : i \in {j \in DOMAIN vin[t] : \A h \in 1..j : t \in p.images[vin[t][h]]}}

\* mutant: returns after the first image
Bug_remove_transaction_keyimages_first(p, t) ==
  [k \in KeyImage |-> IF k = vin[t][1] THEN p.images[k] \ {t} ELSE p.images[k]]

remove_transaction_keyimages(p, t) ==
  [k \in KeyImage |-> IF k \in RemovedInputs(p, t)
                        THEN p.images[k] \ {t} ELSE p.images[k]]

mark_double_spend(p, t) ==
  LET seen == {u \in Tx : /\ InPool(p, u)
                          /\ \E k \in InputsOf(t) : u \in p.images[k]
                          /\ ~p.db[u].double_spend_seen}
  IN  [p EXCEPT !.db = [u \in Tx |-> IF u \in seen
                          THEN [@[u] EXCEPT !.double_spend_seen = TRUE] ELSE @[u]],
                !.touched = @ \/ seen # {}]

------------------------------------------------------------------------------
(* Inputs against the chain *)

\* Blockchain::check_tx_inputs: no image is spent and the rings resolve
ChainAccepts(c, t) == InputsOf(t) \cap c.spent = {} /\ ring[t] \subseteq c.txs

check_tx_inputs(p, c, t, kept_by_block) ==
  IF kept_by_block \/ p.input_cache[t] = "unknown" THEN ChainAccepts(c, t)
                                                   ELSE p.input_cache[t] = "ok"

CacheInputs(p, c, t) ==
  [p EXCEPT !.input_cache[t] =
     IF @ # "unknown" THEN @ ELSE IF ChainAccepts(c, t) THEN "ok" ELSE "failed"]

\* mutant: the cache survives the block
Bug_on_blockchain_change_kept(p) == p

\* on_blockchain_inc and on_blockchain_dec
on_blockchain_change(p) == [p EXCEPT !.input_cache = [t \in Tx |-> "unknown"]]

------------------------------------------------------------------------------
(* Entering and leaving *)

reduce_txpool_weight(p, w) == IF w > p.weight THEN 0 ELSE p.weight - w

\* mutant: the cookie does not move
Bug_Drop_unseen(p, t) ==
  [db          |-> [p.db EXCEPT ![t] = Absent],
   images      |-> remove_transaction_keyimages(p, t),
   sorted      |-> p.sorted \ {t},
   weight      |-> reduce_txpool_weight(p, tx_weight[t]),
   timed_out   |-> p.timed_out,
   input_cache |-> p.input_cache,
   touched     |-> p.touched]

\* remove_txpool_tx, reduce_txpool_weight, remove_transaction_keyimages and
\* remove_tx_from_transient_lists, in every route by which a transaction leaves
Drop(p, t) ==
  [db          |-> [p.db EXCEPT ![t] = Absent],
   images      |-> remove_transaction_keyimages(p, t),
   sorted      |-> p.sorted \ {t},
   weight      |-> reduce_txpool_weight(p, tx_weight[t]),
   timed_out   |-> p.timed_out,
   input_cache |-> p.input_cache,
   touched     |-> TRUE]

\* One turn of the loop of prune: the transaction is dropped unless the pool
\* fits, it is unknown to the database or a block needs it.
prune_one(p, t) ==
  IF p.weight <= max_weight \/ ~InPool(p, t) \/ KeptByBlock(p, t) THEN p ELSE Drop(p, t)

\* mutant: the two best-paying are never looked at
Bug_PruneSet_off_by_one(p) ==
  {t \in p.sorted : \E u, w \in p.sorted : fee_rank[w] > fee_rank[u] /\ fee_rank[u] > fee_rank[t]}

\* The best-paying transaction is never looked at, the others cheapest first.
PruneSet(p) == {t \in p.sorted : \E u \in p.sorted : fee_rank[u] > fee_rank[t]}

prune(p) ==
  FoldLeft(prune_one, p,
           SetToSortSeq(PruneSet(p), LAMBDA t, u : fee_rank[t] < fee_rank[u]))

Result(p, ok) == [pool |-> p, ok |-> ok]

\* insert_key_images, add_txpool_tx (which overwrites) and
\* add_tx_to_transient_lists; the weight grows when the caller counts the
\* transaction as added.
Store(p, t, meta, added) ==
  [db          |-> [p.db EXCEPT ![t] = meta],
   images      |-> insert_key_images(p, t, meta.relay),
   sorted      |-> p.sorted \cup {t},
   weight      |-> IF added THEN p.weight + tx_weight[t] ELSE p.weight,
   timed_out   |-> p.timed_out,
   input_cache |-> p.input_cache,
   touched     |-> TRUE]

\* insert_key_images has failed: what it inserted before it did stays
Refuse(p, t, relay) == Result([p EXCEPT !.images = insert_key_images(p, t, relay)], FALSE)

\* add_tx of a transaction of a block whose inputs fail: it is kept, as the
\* chain may change, and always counted as added
AddFailed(p, t) ==
  LET meta == [relay |-> "block", last_failed_id |-> null_hash,
               double_spend_seen |-> have_tx_keyimges_as_spent(p, t)]
  IN  IF insert_key_images_ok(p, t, "block")
        THEN Result(Store(p, t, meta, TRUE), TRUE)
        ELSE Refuse(p, t, "block")

\* add_tx of a transaction whose inputs pass.  A second stem message for a
\* transaction in the stem phase is a loop: the transaction is fluffed.
AddPassed(p, t, relay) ==
  LET method == IF relay = "stem" /\ p.db[t].relay = "stem" THEN "fluff" ELSE relay
      better == upgrade_relay_method(p.db[t].relay, method)
      meta   == [relay |-> better, last_failed_id |-> null_hash,
                 double_spend_seen |-> FALSE]
  IN  IF better = p.db[t].relay
        THEN Result([p EXCEPT !.touched = TRUE], TRUE)
      ELSE IF insert_key_images_ok(p, t, method)
        THEN Result(Store(p, t, meta, ~InPool(p, t)), TRUE)
        ELSE Refuse(p, t, method)

\* add_tx up to its call of prune
enter_tx(p, c, t, relay) ==
  LET kept   == relay = "block"
      cached == IF kept THEN p ELSE CacheInputs(p, c, t)
  IN  IF ~kept /\ t \in p.timed_out
        THEN Result(p, FALSE)
      ELSE IF ~kept /\ have_tx_keyimges_as_spent(p, t)
        THEN Result(mark_double_spend(p, t), FALSE)
      ELSE IF check_tx_inputs(p, c, t, kept)
        THEN AddPassed(cached, t, relay)
      ELSE IF kept
        THEN AddFailed(p, t)
        ELSE Result(cached, FALSE)

add_tx(p, c, t, relay) ==
  LET r == enter_tx(p, c, t, relay)
  IN  IF r.ok THEN Result(prune(r.pool), TRUE) ELSE r

\* take_tx, of a transaction that is there
take_tx(p, t) == Drop(p, t)

\* mutant: the fee order keeps the transaction
Bug_remove_stuck_one_listed(p, t) ==
  [Drop(p, t) EXCEPT !.timed_out = @ \cup {t}, !.sorted = p.sorted]

\* one turn of the loop of remove_stuck_transactions
remove_stuck_one(p, t) == [Drop(p, t) EXCEPT !.timed_out = @ \cup {t}]

remove_stuck_transactions(p, old) == FoldLeft(remove_stuck_one, p, SetToSeq(old))

\* set_relayed moves the relay method, and not the cookie
set_relayed(p, t, method) ==
  LET old  == p.db[t].relay
      new  == upgrade_relay_method(old, method)
      meta == [p.db[t] EXCEPT !.relay = new]
      just_broadcasted == old \notin broadcasted /\ new \in broadcasted
  IN  IF InPool(p, t)
        THEN [p EXCEPT !.db = [@ EXCEPT ![t] = meta],
                       !.sorted = IF just_broadcasted THEN @ \cup {t} ELSE @]
        ELSE p

\* init starts from an empty memory and, for every entry of the table, inserts
\* its key images, lists it and counts it; it gives up if the images collide.
load_ok(p, t) == insert_key_images_ok(p, t, p.db[t].relay)

\* mutant: init does not count the weight
Bug_load_one_weightless(p, t) ==
  [Store(p, t, p.db[t], FALSE) EXCEPT !.db = p.db]

load_one(p, t) ==
  [Store(p, t, p.db[t], TRUE) EXCEPT !.db = p.db]

\* mutant: one pass, in any order
Bug_LoadNext_one_pass(p, left) == left

\* the entries kept by a block come last
LoadNext(p, left) ==
  {t \in left : KeptByBlock(p, t) => \A u \in left : KeptByBlock(p, u)}

init(db) ==
  LET entries == {t \in Tx : db[t].relay # "absent"}
      kept    == {t \in entries : db[t].relay = "block"}
      Load(r, t) == IF ~r.ok THEN r
                    ELSE IF load_ok(r.pool, t) THEN Result(load_one(r.pool, t), TRUE)
                    ELSE Result(r.pool, FALSE)
  IN  FoldLeft(Load, Result(Unloaded(db), TRUE), SetToSeq(entries \ kept) \o SetToSeq(kept))

------------------------------------------------------------------------------
(* The block template *)

is_transaction_ready_to_go(p, c, t) ==
  p.db[t].last_failed_id # c.top /\ check_tx_inputs(p, c, t, FALSE)

\* what asking leaves behind, the entry written back included
AskReady(p, c, t) ==
  IF p.db[t].last_failed_id = c.top THEN p
  ELSE IF is_transaction_ready_to_go(p, c, t) THEN CacheInputs(p, c, t)
  ELSE [CacheInputs(p, c, t) EXCEPT !.db[t].last_failed_id = c.top]

\* the relay methods fill_block_template considers
Minable(p, t) == IsLegacy(p, t) \/ (mine_stem_txes /\ p.db[t].relay = "stem")

\* mutant: no look at the key images taken so far
Bug_fill_one_no_images(p, c, txs, t) ==
  IF is_transaction_ready_to_go(p, c, t) THEN txs \cup {t} ELSE txs

\* one turn of the loop of fill_block_template: `txs` are the transactions
\* chosen so far
fill_one(p, c, txs, t) ==
  IF /\ is_transaction_ready_to_go(p, c, t)
     /\ \A u \in txs : InputsOf(u) \cap InputsOf(t) = {}
    THEN txs \cup {t} ELSE txs

\* The transactions by falling fee; `unfit` are those that would overstep the
\* block weight or lower the coinbase.
fill_block_template(p, c, unfit) ==
  FoldLeft(LAMBDA r, t : IF ~Minable(r.pool, t) \/ t \in unfit THEN r
                         ELSE [pool |-> AskReady(r.pool, c, t),
                               txs  |-> fill_one(r.pool, c, r.txs, t)],
           [pool |-> p, txs |-> {}],
           SetToSortSeq(p.sorted, LAMBDA t, u : fee_rank[t] > fee_rank[u]))
===============================================================================
