--------------------------------- MODULE Node ---------------------------------
(***************************************************************************)
(* One node: its chain and its pool, driven by its peers, its miner, its   *)
(* operator and its clock.                                                 *)
(*                                                                         *)
(* Blocks are handled with the pool's and the chain's locks held from      *)
(* prepare_handle_incoming_blocks to cleanup_handle_incoming_blocks, and   *)
(* in one database batch: a batch is one step, and a crash inside it is a  *)
(* restart before it.  The pool's methods are one step each (module        *)
(* Mempool has their turns).                                               *)
(***************************************************************************)
EXTENDS Blockchain

CONSTANTS
  add_methods,    \* the relay methods transactions arrive with
  set_methods,    \* the relay methods transactions are relayed with
  pop_counts,     \* the numbers of blocks the operator pops (pop_blocks)
  may_throw       \* the blocks the database may fail to write

ASSUME NodeAssumption ==
  /\ add_methods \subseteq relay_method
  /\ set_methods \subseteq relay_method
  /\ pop_counts \subseteq Nat \ {0}
  /\ may_throw \subseteq BlockId

VARIABLE node

vars == <<node>>

Init == node = NewNode

pool == node.pool
Pooled == {t \in Tx : InPool(pool, t)}

\* core::add_new_tx
ReceiveTx(t, relay) ==
  /\ ~IsLegacy(pool, t)
  /\ t \notin node.txs
  /\ node' = [node EXCEPT !.pool = add_tx(@, View(node), t, relay).pool]

\* core::on_transactions_relayed
Relayed(t, method) ==
  /\ InPool(pool, t)
  /\ node' = [node EXCEPT !.pool = set_relayed(@, t, method)]

RemoveStuck(old) ==
  /\ old # {}
  /\ node' = [node EXCEPT !.pool = remove_stuck_transactions(@, old)]

CreateBlockTemplate(unfit, same_miner) ==
  node' = create_block_template(node, unfit, same_miner)

\* One block, or a block and a child of it, with all of their transactions or none.
Spans == {<<b>> : b \in BlockId} \cup
         {s \in BlockId \X BlockId : prev_id[s[2]] = s[1]}

Deliver(n, span, extra, throws) ==
  cleanup_handle_incoming_blocks(n, handle_blocks(n, span, extra, throws).node)

ReceiveBlocks(span, full, throws) ==
  LET extra == IF full THEN UNION {TxsOf(b) : b \in ToSet(span)} ELSE {}
  IN  node' = Deliver(node, span, extra, throws)

\* Blockchain::pop_blocks, by the operator
PopBlocks(k) ==
  /\ Len(node.main) > 1
  /\ node' = pop_many(node, IF k < Len(node.main) THEN k ELSE Len(node.main) - 1)

FlushInvalidBlocks == node' = [node EXCEPT !.invalid = {}]

\* a stop and a start; the pool must load
Restart(keep_alt_blocks) ==
  /\ init(pool.db).ok
  /\ node' = restart(node, keep_alt_blocks)

Next ==
  \/ \E t \in Tx, m \in add_methods : ReceiveTx(t, m)
  \/ \E t \in Tx, m \in set_methods : Relayed(t, m)
  \/ \E old \in SUBSET Pooled : RemoveStuck(old)
  \/ \E unfit \in SUBSET Pooled, same \in BOOLEAN : CreateBlockTemplate(unfit, same)
  \/ \E span \in Spans, full \in BOOLEAN, throws \in SUBSET may_throw :
       ReceiveBlocks(span, full, throws)
  \/ \E k \in pop_counts : PopBlocks(k)
  \/ FlushInvalidBlocks
  \/ \E keep \in BOOLEAN : Restart(keep)

Spec == Init /\ [][Next]_vars

------------------------------------------------------------------------------
(* What the blocks themselves say *)

\* the chain from genesis to b, as the blocks' parents give it
Ancestry[b \in BlockId] ==
  IF b = genesis THEN <<b>> ELSE Append(Ancestry[prev_id[b]], b)

ViewAfter(chain) ==
  [spent |-> UNION {ImagesOf(b) : b \in ToSet(chain)},
   txs   |-> UNION {TxsOf(b) : b \in ToSet(chain)},
   top   |-> Last(chain)]

\* every transaction of b has good inputs after b's parent, and no two collide
GoodBlock(b) ==
  LET before == ViewAfter(Ancestry[prev_id[b]]) IN
  /\ b \notin bad_reward
  /\ \A t \in TxsOf(b) : t \notin before.txs /\ ChainAccepts(before, t)
  /\ \A t, u \in TxsOf(b) : t # u => InputsOf(t) \cap InputsOf(u) = {}

GoodChain(chain) == \A b \in ToSet(chain) \ {genesis} : GoodBlock(b)

Work(n) == cumulative_difficulty[get_tail_id(n)]

\* the good chain with the most work
GoodTips == {b \in BlockId : GoodChain(Ancestry[b])}

BestTip == CHOOSE b \in GoodTips :
  \A c \in GoodTips : cumulative_difficulty[c] <= cumulative_difficulty[b]

\* what a node can be after a peer has sent it that chain, with its transactions
Synced(nodes) == {Deliver(n, Tail(Ancestry[BestTip]), Tx, {}) : n \in nodes}

------------------------------------------------------------------------------
(* Properties *)

\* After every batch the main chain is the ancestry of its top, each of its
\* blocks is good after its parent (so no key image is spent twice, though
\* handle_block_to_main_chain leaves double spends inside a block to the
\* database), and the tables hold exactly what its blocks hold.
ChainIsSound ==
  /\ node.main = Ancestry[get_tail_id(node)]
  /\ GoodChain(node.main)
  /\ View(node) = ViewAfter(node.main)

\* A block is listed in one place, on the main chain, as an alternative or as
\* invalid, whatever switches and rollbacks have moved it; and no alternative has
\* more work than the main chain: every block that would win is switched to when
\* it comes, or thrown out.
NoHeavierAlternative ==
  /\ ToSet(node.main) \cap (node.alt \cup node.invalid) = {}
  /\ node.alt \cap node.invalid = {}
  /\ \A b \in node.alt : cumulative_difficulty[b] <= Work(node)

\* The top changes only to one with more work, unless the operator pops blocks: of
\* two chains with equal work the first one seen stays, and a switch that fails
\* half-way puts back every block it took off.
TopOnlyGainsWork ==
  [][get_tail_id(node') # get_tail_id(node) =>
       Work(node') > Work(node) \/ \E k \in pop_counts : PopBlocks(k)]_vars

\* Whatever the node has been through, it adopts the good chain with the most work
\* once it has been sent it twice ("If its parent block is part of a known forked
\* chain, then we need to see if that chain is long enough to become the main
\* chain and re-org accordingly if so").  Once is not enough: an alternative block
\* that came without its transactions is known, so a second copy does not bring
\* them, and the switch to it has to fail first.
AdoptsBestChain ==
  \A n \in Synced(Synced({node})) : Work(n) = cumulative_difficulty[BestTip]

\* A block in m_invalid_blocks, which is refused from then on, really has a
\* transaction whose inputs fail after its parent.
InvalidIsInvalid == \A b \in node.invalid : ~GoodBlock(b)

\* Handling blocks loses no transaction and doubles none: what was in the pool or
\* on the main chain is in exactly one of them afterwards, a failed block, a switch
\* and its rollback included; only remove_stuck_transactions lets one go.
TxsSurvive ==
  [][\A t \in Tx : (InPool(pool, t) \/ t \in node.txs) =>
       \/ InPool(node'.pool, t) /\ t \notin node'.txs
       \/ ~InPool(node'.pool, t) /\ (t \in node'.txs \/ t \in node'.pool.timed_out)]_vars

\* The template a miner is handed from the cache can be mined on the top.
ServedTemplateIsMinable ==
  TemplateServed(node) =>
    /\ \A t \in node.btc.txs : InPool(pool, t) /\ t \notin node.txs /\ ChainAccepts(View(node), t)
    /\ \A t, u \in node.btc.txs : t # u => InputsOf(t) \cap InputsOf(u) = {}

\* "failed to find transaction input in key images": remove_transaction_keyimages
\* finds every transaction of the table under each of its key images.
KeyImagesAreFound == \A t \in Pooled : RemovedInputs(pool, t) = InputsOf(t)

\* The pool the node would load if it stopped now has the key images and the order
\* that it has in memory: handling blocks keeps the two in step.
MemoryIsWhatLoads ==
  LET r == init(pool.db) IN
  /\ r.ok
  /\ r.pool.images = pool.images
  /\ r.pool.sorted = pool.sorted
===============================================================================
