------------------------------ MODULE BlockQueue ------------------------------
(***************************************************************************)
(* The block download queue (src/cryptonote_protocol/block_queue.cpp).     *)
(*                                                                         *)
(* A span is a run of blocks, from start_block_height on, that one         *)
(* connection is downloading (its `blocks` are empty: it is scheduled) or  *)
(* has downloaded (it is filled).  requested_hashes and have_blocks index  *)
(* the hashes of the spans: reserve_span skips a requested hash, and a     *)
(* peer's chain entry may only start at a hash that is had, at the height  *)
(* have_blocks gives for it.                                               *)
(*                                                                         *)
(* The queue is one record, and each method of the class an operator from  *)
(* a queue to a queue, so that a caller that makes several calls composes  *)
(* them.  Every method holds the queue's mutex throughout, so each is one  *)
(* step.  The request time, the rate, the size and the origin of a span    *)
(* are left out: no method of the queue but the speed statistics reads     *)
(* them.                                                                   *)
(***************************************************************************)
EXTENDS Pruning, Sequences, SequencesExt, FiniteSetsExt

CONSTANTS
  Conns,   \* connection ids
  Hashes,  \* block hashes
  Chains   \* the chains peers may follow: Chains[k][h] is the block at height h

ASSUME BlockQueueAssumption == Chains \subseteq Seq(Hashes)

Span == [hashes : Seq(Hashes), blocks : Seq(Hashes),
         connection_id : Conns, nblocks : Nat \ {0}]

Filled(span) == span.blocks # << >>

IsQueue(q) ==
  /\ q = [blocks |-> q.blocks, requested_hashes |-> q.requested_hashes,
          have_blocks |-> q.have_blocks]
  /\ DOMAIN q.blocks \subseteq Nat
  /\ q.blocks \in [DOMAIN q.blocks -> Span]
  /\ q.requested_hashes \subseteq Hashes
  /\ DOMAIN q.have_blocks \subseteq Hashes
  /\ q.have_blocks \in [DOMAIN q.have_blocks -> Nat]

\* A std::set<span> ordered by start_block_height alone: at most one span
\* starts at a height, so the set is a function of the height.
Starts(q) == DOMAIN q.blocks

Without(f, S) == Restrict(f, DOMAIN f \ S)

\* std::set::insert and unordered_map::emplace: an existing entry stays.
Emplace(f, g) ==
  [x \in DOMAIN f \cup DOMAIN g |-> IF x \in DOMAIN f THEN f[x] ELSE g[x]]

HashesOf(q, S) == UNION {Range(q.blocks[s].hashes) : s \in S}

\* bug: the hashes of an erased span stay requested
Bug_erase_blocks_keeps_requested(q, S) ==
  [blocks           |-> Without(q.blocks, S),
   requested_hashes |-> q.requested_hashes,
   have_blocks      |-> Without(q.have_blocks, HashesOf(q, S))]

\* erase_block, for every span that starts in S
erase_blocks(q, S) ==
  [blocks           |-> Without(q.blocks, S),
   requested_hashes |-> q.requested_hashes \ HashesOf(q, S),
   have_blocks      |-> Without(q.have_blocks, HashesOf(q, S))]

insert(q, start, span) ==
  [q EXCEPT !.blocks = Emplace(@, [s \in {start} |-> span])]

set_span_hashes(q, start, conn, hashes) ==
  IF start \in Starts(q) /\ q.blocks[start].connection_id = conn
    THEN LET s == [q.blocks[start] EXCEPT !.hashes = hashes]
             e == erase_blocks(q, {start})
         IN  insert([e EXCEPT !.requested_hashes = @ \cup Range(hashes)],
                    start, s)
    ELSE q

flush_spans(q, conn, all) ==
  erase_blocks(q, {s \in Starts(q) : /\ q.blocks[s].connection_id = conn
                                     /\ all \/ ~Filled(q.blocks[s])})

\* bug: downloaded spans of a connection that is gone are flushed as well
Bug_flush_stale_spans_filled(q, live) ==
  erase_blocks(q, {s \in Starts(q) : q.blocks[s].connection_id \notin live})

flush_stale_spans(q, live) ==
  erase_blocks(q, {s \in Starts(q) : /\ ~Filled(q.blocks[s])
                                     /\ q.blocks[s].connection_id \notin live})

remove_spans(q, conn, start) ==
  erase_blocks(q, {s \in Starts(q) : /\ q.blocks[s].connection_id = conn
                                     /\ s <= start})

\* add_blocks with a number of blocks: a scheduled span
schedule_blocks(q, start, nblocks, conn) ==
  insert(q, start, [hashes |-> << >>, blocks |-> << >>,
                    connection_id |-> conn, nblocks |-> nblocks])

\* bug: the height of the first hash is one too high
Bug_HeightIn_off_by_one(hashes, start) ==
  [h \in Range(hashes) |-> start + Min({i \in DOMAIN hashes : hashes[i] = h})]

\* the heights at which the hashes of a span that starts at `start` are had
HeightIn(hashes, start) ==
  [h \in Range(hashes) |->
     start - 1 + Min({i \in DOMAIN hashes : hashes[i] = h})]

\* add_blocks with the blocks themselves: a filled span, which takes over the
\* hashes of the span it replaces, if there is one.
add_blocks(q, start, bcel, conn) ==
  LET new == [hashes |-> << >>, blocks |-> bcel,
              connection_id |-> conn, nblocks |-> Len(bcel)]
  IN  IF start \in Starts(q)
        THEN LET hashes == q.blocks[start].hashes
                 added  == insert(erase_blocks(q, {start}), start, new)
                 marked == [blocks |-> added.blocks,
                            requested_hashes |-> added.requested_hashes \cup Range(hashes),
                            have_blocks |-> Emplace(added.have_blocks,
                                                    HeightIn(hashes, start))]
             IN  set_span_hashes(marked, start, conn, hashes)
        ELSE insert(q, start, new)

------------------------------------------------------------------------------
(* reserve_span: `hashes` are the blocks the connection can send, the last   *)
(* of them at height `last`; `stripe` is the peer's pruning stripe and       *)
(* `local` the node's own, `remote` the height of the peer's chain.          *)

\* the least height, at or after `height`, of a hash that is not requested
SkipRequested(q, hashes, first, height) ==
  Min({h \in height..(first + Len(hashes)) :
         h = first + Len(hashes) \/ hashes[h - first + 1] \notin q.requested_hashes})

SpanStart(q, last, sync_pruned, stripe, remote, hashes) ==
  LET first  == last - Len(hashes) + 1
      start  == SkipRequested(q, hashes, first, first)
      next   == get_next_unpruned_block_height(start, remote, stripe)
      start2 == IF /\ ~sync_pruned
                   /\ next > start
                   /\ next < start + StripeSize THEN next ELSE start
  IN  IF start2 > last THEN start2 ELSE SkipRequested(q, hashes, first, start2)

\* Whether the span may hold the block at height h, its first one at `start`:
\* when full blocks are asked for the peer must have them, and when pruned ones
\* are, the span may not mix blocks we keep with blocks we do not.
Downloadable(h, start, sync_pruned, local, stripe, remote) ==
  IF sync_pruned
    THEN has_unpruned_block(h, remote, local) = has_unpruned_block(start, remote, local)
    ELSE has_unpruned_block(h, remote, stripe)

SpanLength(start, last, max_blocks, sync_pruned, local, stripe, remote) ==
  Max({n \in 0..max_blocks :
         /\ start + n <= last + 1
         /\ \A h \in start..(start + n - 1) :
              Downloadable(h, start, sync_pruned, local, stripe, remote)} \cup {0})

NoSpan == [start |-> 0, hashes |-> << >>]

\* bug: a span of no blocks is reserved
Bug_reserved_span_empty(q, last, max_blocks, sync_pruned, local, stripe, remote, hashes) ==
  LET first  == last - Len(hashes) + 1
      start  == SpanStart(q, last, sync_pruned, stripe, remote, hashes)
      length == SpanLength(start, last, max_blocks, sync_pruned, local, stripe, remote)
  IN  IF \/ hashes = << >> \/ max_blocks = 0 \/ Len(hashes) > last
        THEN NoSpan
        ELSE [start |-> start,
              hashes |-> SubSeq(hashes, start - first + 1, start - first + length)]

reserved_span(q, last, max_blocks, sync_pruned, local, stripe, remote, hashes) ==
  LET first  == last - Len(hashes) + 1
      start  == SpanStart(q, last, sync_pruned, stripe, remote, hashes)
      length == SpanLength(start, last, max_blocks, sync_pruned, local, stripe, remote)
  IN  IF \/ hashes = << >> \/ max_blocks = 0 \/ Len(hashes) > last \/ length = 0
        THEN NoSpan
        ELSE [start |-> start,
              hashes |-> SubSeq(hashes, start - first + 1, start - first + length)]

\* The span is returned to the caller whether or not the queue took it: when
\* another connection's span starts at the same height the queue is unchanged.
reserve_span(q, conn, span) ==
  set_span_hashes(schedule_blocks(q, span.start, Len(span.hashes), conn),
                  span.start, conn, span.hashes)

------------------------------------------------------------------------------
(* What the protocol handler reads off the queue *)

LastHeight(q, s) == s + q.blocks[s].nblocks - 1

get_max_block_height(q) == Max({LastHeight(q, s) : s \in Starts(q)} \cup {0})

\* bug: a span that starts right where the covered heights end counts as a gap
Bug_get_next_needed_height_adjacent(q, blockchain_height) ==
  LET Step(acc, s) ==
        IF acc.gap \/ LastHeight(q, s) < blockchain_height THEN acc
        ELSE IF s >= acc.covered THEN [acc EXCEPT !.gap = TRUE]
        ELSE [acc EXCEPT !.covered = Max({@, LastHeight(q, s) + 1})]
  IN  FoldLeft(Step, [covered |-> blockchain_height, gap |-> FALSE],
               SetToSortSeq(Starts(q), <)).covered

\* The scan of the spans by height, which stops at the first gap.
get_next_needed_height(q, blockchain_height) ==
  LET Step(acc, s) ==
        IF acc.gap \/ LastHeight(q, s) < blockchain_height THEN acc
        ELSE IF s > acc.covered THEN [acc EXCEPT !.gap = TRUE]
        ELSE [acc EXCEPT !.covered = Max({@, LastHeight(q, s) + 1})]
  IN  FoldLeft(Step, [covered |-> blockchain_height, gap |-> FALSE],
               SetToSortSeq(Starts(q), <)).covered

HasNext(q) == Starts(q) # {}
NextStart(q) == Min(Starts(q))

\* get_next_span: the lowest filled span
FilledStarts(q) == {s \in Starts(q) : Filled(q.blocks[s])}
get_next_span(q) == Min(FilledStarts(q))

\* get_next_span_if_scheduled: the lowest span of all, unless it is filled
NextIsScheduled(q) == HasNext(q) /\ ~Filled(q.blocks[NextStart(q)])

=============================================================================
