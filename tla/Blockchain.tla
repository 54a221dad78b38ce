------------------------------ MODULE Blockchain ------------------------------
(***************************************************************************)
(* The chain (class Blockchain, src/cryptonote_core/blockchain.cpp) and    *)
(* its hold on the transaction pool.                                       *)
(*                                                                         *)
(* A node is one record:                                                   *)
(*   main           the main chain, a sequence of blocks, genesis first    *)
(*   spent, txs     the tables of spent key images and of transactions     *)
(*   alt            the table of alternative blocks                        *)
(*   pool           the pool (module TxPool), its table pool.db included   *)
(*   invalid        m_invalid_blocks                                       *)
(*   btc            m_btc: the cached block template                       *)
(*   batch_success  m_batch_success                                        *)
(* main, spent, txs, alt and pool.db are in the database, and under its    *)
(* batch while blocks are handled; the rest is in memory.  The tables are  *)
(* kept apart from main because a batch that fails half-way leaves them    *)
(* apart.                                                                  *)
(*                                                                         *)
(* Blocks are identifiers with a parent, transactions and a cumulative     *)
(* difficulty.  A block that breaks a rule that asks only for its          *)
(* ancestors' headers (version, timestamp, proof of work, checkpoints) is  *)
(* refused before anything changes, and is not in BlockId.  The hard fork  *)
(* version is constant, so validate is not called (module Mempool has it), *)
(* and no transaction is pruned.                                           *)
(***************************************************************************)
EXTENDS TxPool

CONSTANTS
  genesis,                \* the genesis block
  prev_id,                \* prev_id[b]: its parent
  tx_hashes,              \* tx_hashes[b]: its transactions, in order
  cumulative_difficulty,  \* cumulative_difficulty[b]: of the chain up to b
  bad_reward              \* the blocks that validate_miner_transaction refuses

ASSUME BlockchainAssumption ==
  /\ genesis \in BlockId
  /\ prev_id \in [BlockId -> BlockId \cup {null_hash}]
  /\ \A b \in BlockId : prev_id[b] = null_hash <=> b = genesis
  /\ tx_hashes \in [BlockId -> Seq(Tx)]
  /\ \A b \in BlockId : \A i, j \in DOMAIN tx_hashes[b] :
       tx_hashes[b][i] = tx_hashes[b][j] => i = j
  /\ tx_hashes[genesis] = <<>>
  /\ cumulative_difficulty \in [BlockId -> Nat]
  /\ \A b \in BlockId \ {genesis} :
       cumulative_difficulty[prev_id[b]] < cumulative_difficulty[b]
  /\ bad_reward \subseteq BlockId \ {genesis}

NoTemplate == [valid |-> FALSE, prev_id |-> null_hash, txs |-> {}]

NewNode ==
  [main |-> <<genesis>>, spent |-> {}, txs |-> {}, alt |-> {}, pool |-> EmptyPool,
   invalid |-> {}, btc |-> NoTemplate, batch_success |-> TRUE]

get_tail_id(n) == Last(n.main)
View(n) == [spent |-> n.spent, txs |-> n.txs, top |-> get_tail_id(n)]
TxsOf(b) == ToSet(tx_hashes[b])
ImagesOf(b) == UNION {InputsOf(t) : t \in TxsOf(b)}

have_block(n, b) == b \in ToSet(n.main) \cup n.alt \cup n.invalid

\* the block_verification_context a call returns
Verdict(n, bvc) == [node |-> n, bvc |-> bvc]

------------------------------------------------------------------------------
(* The database *)

\* add_spent_key refuses an image that is there: the inputs before it are in
\* the table by then
add_transaction(d, t) ==
  LET fresh == {vin[t][i] : i \in {j \in DOMAIN vin[t] :
                  \A h \in 1..j : vin[t][h] \notin d.spent}}
  IN  IF ~d.ok THEN d
      ELSE [spent |-> d.spent \cup fresh,
            txs   |-> IF fresh = InputsOf(t) THEN d.txs \cup {t} ELSE d.txs,
            ok    |-> fresh = InputsOf(t)]

\* BlockchainDB::add_block writes the transactions, then the block; `throws`
\* are the blocks the database fails to write.  The caller marks a failure in
\* m_batch_success.
add_block(n, b, throws) ==
  LET d == FoldLeft(add_transaction, [spent |-> n.spent, txs |-> n.txs, ok |-> TRUE],
                    tx_hashes[b])
      stored == d.ok /\ b \notin throws
  IN  [node |-> [n EXCEPT !.spent = d.spent, !.txs = d.txs,
                          !.main = IF stored THEN Append(@, b) ELSE @,
                          !.batch_success = @ /\ stored],
       ok   |-> stored]

\* mutant: the spent key images stay
Bug_remove_top_spent(n) ==
  LET b == get_tail_id(n)
  IN  [n EXCEPT !.main = Front(@), !.txs = @ \ TxsOf(b)]

\* BlockchainDB::pop_block
remove_top(n) ==
  LET b == get_tail_id(n)
  IN  [n EXCEPT !.main = Front(@), !.txs = @ \ TxsOf(b), !.spent = @ \ ImagesOf(b)]

------------------------------------------------------------------------------
(* One block off and one block on the main chain *)

invalidate_block_template_cache(n) == [n EXCEPT !.btc.valid = FALSE]

AddToPool(p, c, txs) == FoldLeft(LAMBDA q, t : add_tx(q, c, t, "block").pool, p, txs)

\* mutant: the transactions are not given back
Bug_pop_block_from_blockchain_drops(n) ==
  invalidate_block_template_cache(
    [remove_top(n) EXCEPT !.pool = on_blockchain_change(@)])

\* the transactions go back to the pool, the last one first
pop_block_from_blockchain(n) ==
  LET d == remove_top(n)
  IN  invalidate_block_template_cache(
        [d EXCEPT !.pool = on_blockchain_change(
           AddToPool(@, View(d), Reverse(tx_hashes[get_tail_id(n)])))])

\* mutant: a transaction that is missing counts as one with wrong inputs
Bug_take_one_missing(n, extra, r, t) ==
  IF r.why # "ok" THEN r
  ELSE IF t \notin n.txs /\ InPool(r.pool, t)
    THEN [r EXCEPT !.pool = take_tx(@, t), !.taken = Append(@, t)]
    ELSE [r EXCEPT !.why = IF t \in extra \ n.txs THEN "ok" ELSE "inputs"]

\* one turn of the loop that collects a block's transactions, from the pool and
\* else from the supplement that came with the block
take_one(n, extra, r, t) ==
  LET pooled == InPool(r.pool, t) IN
  IF r.why # "ok" THEN r
  ELSE IF t \in n.txs THEN [r EXCEPT !.why = "exists"]
  ELSE IF ~pooled /\ t \notin extra THEN [r EXCEPT !.why = "missing"]
  ELSE [pool  |-> IF pooled THEN take_tx(r.pool, t) ELSE r.pool,
        taken |-> IF pooled THEN Append(r.taken, t) ELSE r.taken,
        why   |-> IF ChainAccepts(View(n), t) THEN "ok" ELSE "inputs"]

take_txs(n, b, extra) ==
  FoldLeft(LAMBDA r, t : take_one(n, extra, r, t),
           [pool |-> n.pool, taken |-> <<>>, why |-> "ok"], tx_hashes[b])

\* mutant: the transactions are lost
Bug_return_txs_to_pool_none(n, r) == [n EXCEPT !.pool = r.pool]

\* what came from the pool goes back to it, kept by the block from now on
return_txs_to_pool(n, r) == [n EXCEPT !.pool = AddToPool(r.pool, View(n), r.taken)]

\* the block, with its transactions collected, is checked and written to the
\* database; what can fail leaves its own mark
store_block(n, b, r, throws) ==
  IF r.why = "inputs"
    THEN [node |-> [n EXCEPT !.invalid = @ \cup {b}], ok |-> FALSE]
  ELSE IF r.why # "ok" \/ b \in bad_reward
    THEN [node |-> n, ok |-> FALSE]
    ELSE add_block(n, b, throws)

handle_block_to_main_chain(n, b, extra, throws) ==
  LET r == take_txs(n, b, extra)
      d == store_block(n, b, r, throws)
  IN  IF prev_id[b] # get_tail_id(n)
        THEN Verdict(n, "failed")
      ELSE IF d.ok
        THEN Verdict(invalidate_block_template_cache(
                       [d.node EXCEPT !.pool = on_blockchain_change(r.pool)]), "main")
        ELSE Verdict(return_txs_to_pool(d.node, r), "failed")

------------------------------------------------------------------------------
(* Reorganisation *)

pop_many(n, k) == FoldLeft(LAMBDA m, i : pop_block_from_blockchain(m), n, [i \in 1..k |-> i])

\* add the blocks, up to the first that fails
add_many(n, blocks, throws) ==
  FoldLeft(LAMBDA v, b : IF v.bvc = "failed" THEN v
                         ELSE handle_block_to_main_chain(v.node, b, {}, throws),
           Verdict(n, "main"), blocks)

\* mutant: the original blocks are not put back
Bug_rollback_blockchain_switching_no_return(n, original_chain, rollback_height, throws) ==
  pop_many(n, Len(n.main) - rollback_height)

\* when an original block fails again the rest is left off ("PANIC!") and the
\* caller is not told
rollback_blockchain_switching(n, original_chain, rollback_height, throws) ==
  add_many(pop_many(n, Len(n.main) - rollback_height), original_chain, throws).node

\* handle_alternative_block of a block that the switch took off the main chain:
\* it has no supplement and less work than the new chain
push_disconnected(n, b) ==
  IF prev_id[b] \in n.alt \cup ToSet(n.main) THEN [n EXCEPT !.alt = @ \cup {b}] ELSE n

\* split is the height of the block the two chains share; a switch that fails
\* forgets the block that failed and those after it
switch_to_alternative_blockchain(n, alt_chain, throws) ==
  LET split == SelectInSeq(n.main, LAMBDA b : b = prev_id[Head(alt_chain)])
      disconnected_chain == SubSeq(n.main, split + 1, Len(n.main))
      v     == add_many(pop_many(n, Len(n.main) - split), alt_chain, throws)
      back  == rollback_blockchain_switching(v.node, disconnected_chain, split, throws)
      new   == FoldLeft(push_disconnected, v.node, disconnected_chain)
  IN  IF v.bvc = "main"
        THEN Verdict([new EXCEPT !.alt = @ \ ToSet(alt_chain)], "main")
        ELSE Verdict([back EXCEPT !.alt = @ \ (ToSet(alt_chain) \ ToSet(v.node.main))], "failed")

\* the alternative blocks from the main chain to b, b last
build_alt_chain(n, b) ==
  LET up[x \in BlockId \cup {null_hash}] ==
        IF x \in n.alt THEN Append(up[prev_id[x]], x) ELSE <<>>
  IN  up[b]

\* it must leave the main chain below its top
alt_chain_connects(n, alt_chain) ==
  alt_chain # <<>> => prev_id[Head(alt_chain)] \in ToSet(Front(n.main))

\* the supplement enters the pool, for it is needed if the chain switches
add_supplement(n, extra) ==
  FoldLeft(LAMBDA r, t :
             LET a == add_tx(r.pool, View(n), t, "block")
             IN  IF ~r.ok \/ IsLegacy(r.pool, t) \/ t \in n.txs THEN r ELSE a,
           Result(n.pool, TRUE), SetToSeq(extra))

\* mutant: equal work suffices
Bug_MoreWork_equal(n, b) ==
  cumulative_difficulty[get_tail_id(n)] <= cumulative_difficulty[b]

\* mutant: the block's own difficulty is not counted
Bug_MoreWork_parent(n, b) ==
  cumulative_difficulty[get_tail_id(n)] < cumulative_difficulty[prev_id[b]]

MoreWork(n, b) == cumulative_difficulty[get_tail_id(n)] < cumulative_difficulty[b]

\* it is listed, and the chain it ends becomes the main chain if it has more work
add_alt_block(n, alt_chain, b, throws) ==
  LET listed == [n EXCEPT !.alt = @ \cup {b}]
  IN  IF MoreWork(n, b)
        THEN switch_to_alternative_blockchain(listed, Append(alt_chain, b), throws)
        ELSE Verdict(listed, "alt")

handle_alternative_block(n, b, extra, throws) ==
  LET alt_chain == build_alt_chain(n, prev_id[b])
      s         == add_supplement(n, extra)
      pooled    == [n EXCEPT !.pool = s.pool]
  IN  IF prev_id[b] \notin n.alt \cup ToSet(n.main)
        THEN Verdict(n, "orphaned")
      ELSE IF ~alt_chain_connects(n, alt_chain)
        THEN Verdict(n, "ignored")
      ELSE IF ~s.ok
        THEN Verdict(pooled, "failed")
        ELSE add_alt_block(pooled, alt_chain, b, throws)

add_new_block(n, b, extra, throws) ==
  IF have_block(n, b) THEN Verdict(n, "exists")
  ELSE IF prev_id[b] # get_tail_id(n) THEN handle_alternative_block(n, b, extra, throws)
  ELSE handle_block_to_main_chain(n, b, extra, throws)

------------------------------------------------------------------------------
(* A batch of blocks, the block template, a restart *)

prepare_handle_incoming_blocks(n) == [n EXCEPT !.batch_success = TRUE]

\* mutant: the batch is committed whatever happened
Bug_cleanup_handle_incoming_blocks_commits(before, n) == n

\* The batch that began at `before` is committed or undone.  What is in memory
\* stays as it is.
cleanup_handle_incoming_blocks(before, n) ==
  IF n.batch_success THEN n
  ELSE [n EXCEPT !.main = before.main, !.spent = before.spent, !.txs = before.txs,
                 !.alt = before.alt, !.pool.db = before.pool.db]

\* try_add_next_blocks: the blocks of a span, each with `extra` of its
\* transactions, up to the first that fails or is orphaned
handle_blocks(n, span, extra, throws) ==
  FoldLeft(LAMBDA v, b :
             IF v.bvc \in {"failed", "orphaned"} THEN v
             ELSE add_new_block(v.node, b, extra \cap TxsOf(b), throws),
           Verdict(prepare_handle_incoming_blocks(n), "none"), span)

\* a template is reused for the same miner, pool cookie and top
TemplateServed(n) == n.btc.valid /\ ~n.pool.touched /\ n.btc.prev_id = get_tail_id(n)

create_block_template(n, unfit, same_miner) ==
  LET f == fill_block_template(n.pool, View(n), unfit)
  IN  IF same_miner /\ TemplateServed(n) THEN n
      ELSE [n EXCEPT !.pool = [f.pool EXCEPT !.touched = FALSE],
                     !.btc = [valid |-> TRUE, prev_id |-> get_tail_id(n), txs |-> f.txs]]

\* core::init after a stop at any time: the database as last committed, the
\* pool loaded from it, alternative blocks dropped unless --keep-alt-blocks
restart(n, keep_alt_blocks) ==
  [n EXCEPT !.pool = init(n.pool.db).pool, !.invalid = {}, !.btc = NoTemplate,
            !.batch_success = TRUE, !.alt = IF keep_alt_blocks THEN @ ELSE {}]
===============================================================================
