---------------------------- MODULE BlockDownload ----------------------------
(***************************************************************************)
(* The block queue under the calls the protocol handler makes of it        *)
(* (request_missing_objects, handle_response_get_objects,                  *)
(* try_add_next_blocks, on_callback and the drop_connection family of      *)
(* src/cryptonote_protocol/cryptonote_protocol_handler.inl), for any       *)
(* number of connections served by concurrent threads.                     *)
(*                                                                         *)
(* asked[c] is the span connection c has been asked for and not answered:  *)
(* m_expect_height and m_requested_objects of its context.  A peer may     *)
(* follow any of the chains and change to another one between two          *)
(* requests.                                                               *)
(***************************************************************************)
EXTENDS BlockQueue

CONSTANTS
  BlockSyncSizes,    \* the values get_block_sync_size takes
  PeerStripes,       \* the stripes of the peers (0: the peer does not prune)
  LocalStripe,       \* the node's own stripe
  SyncPrunedBlocks,  \* m_sync_pruned_blocks
  BPForkHeight       \* the height of the bulletproof fork

ASSUME BlockDownloadAssumption ==
  /\ BlockSyncSizes \subseteq Nat
  /\ PeerStripes \subseteq Seeds
  /\ LocalStripe \in Seeds
  /\ SyncPrunedBlocks \in BOOLEAN
  /\ BPForkHeight \in Nat

VARIABLES queue, asked

vars == <<queue, asked>>

EmptyQueue == [blocks |-> << >>, requested_hashes |-> {}, have_blocks |-> << >>]

Init ==
  /\ queue = EmptyQueue
  /\ asked = [c \in Conns |-> NoSpan]

\* The end of request_missing_objects: the next span of the hashes the peer still
\* has to send, from height `first` to the end of its chain, is reserved and
\* asked for.
ReserveSpan(c, chain, first, max_blocks, stripe) ==
  LET last        == Len(chain)
      hashes      == SubSeq(chain, first, last)
      sync_pruned == SyncPrunedBlocks /\ first >= BPForkHeight /\ LocalStripe # 0
      span        == reserved_span(queue, last, max_blocks, sync_pruned,
                                   LocalStripe, stripe, Len(chain) + 1, hashes)
  IN  /\ asked[c] = NoSpan
      /\ span # NoSpan
      /\ queue' = reserve_span(queue, c, span)
      /\ asked' = [asked EXCEPT ![c] = span]

\* request_missing_objects when the next span is late or there is nothing else
\* to ask for: the lowest span is asked of this connection as well, if no
\* connection has filled it yet.
RequestNextSpan(c) ==
  /\ asked[c] = NoSpan
  /\ NextIsScheduled(queue)
  /\ asked' = [asked EXCEPT ![c] = [start |-> NextStart(queue),
                                    hashes |-> queue.blocks[NextStart(queue)].hashes]]
  /\ UNCHANGED queue

\* handle_response_get_objects accepts an answer that is exactly what was asked.
HandleResponseGetObjects(c) ==
  /\ asked[c] # NoSpan
  /\ queue' = add_blocks(queue, asked[c].start, asked[c].hashes, c)
  /\ asked' = [asked EXCEPT ![c] = NoSpan]

\* on_callback for an idle peer: the request is forgotten, its span is not.
KickIdlePeer(c) ==
  /\ asked[c] # NoSpan
  /\ asked' = [asked EXCEPT ![c] = NoSpan]
  /\ UNCHANGED queue

\* drop_connection, drop_connections and on_connection_close
DropConnection(c, all) ==
  /\ queue' = flush_spans(queue, c, all)
  /\ asked' = [asked EXCEPT ![c] = NoSpan]

\* the first step of request_missing_objects
FlushStaleSpans(live) ==
  /\ queue' = flush_stale_spans(queue, live)
  /\ UNCHANGED asked

\* try_add_next_blocks is done with the lowest filled span: its blocks are on
\* the chain, or were refused, or are old.
RemoveNextSpan ==
  /\ FilledStarts(queue) # {}
  /\ LET s == get_next_span(queue)
     IN  queue' = remove_spans(queue, queue.blocks[s].connection_id, s)
  /\ UNCHANGED asked

Next ==
  \/ \E c \in Conns, chain \in Chains, max_blocks \in BlockSyncSizes,
        stripe \in PeerStripes :
       \E first \in 1..Len(chain) :
         ReserveSpan(c, chain, first, max_blocks, stripe)
  \/ \E c \in Conns : RequestNextSpan(c)
  \/ \E c \in Conns : HandleResponseGetObjects(c)
  \/ \E c \in Conns : KickIdlePeer(c)
  \/ \E c \in Conns, all \in BOOLEAN : DropConnection(c, all)
  \/ \E live \in SUBSET Conns : FlushStaleSpans(live)
  \/ RemoveNextSpan

Spec == Init /\ [][Next]_vars

------------------------------------------------------------------------------

TypeOK ==
  /\ IsQueue(queue)
  /\ asked \in [Conns -> [start : Nat, hashes : Seq(Hashes)]]

\* Every hash marked as requested belongs to a span of the queue.  A mark left
\* behind by a span that is gone would make reserve_span skip, for every peer
\* and for ever, a block that nobody is downloading.
NoStaleRequest == queue.requested_hashes \subseteq HashesOf(queue, Starts(queue))

\* Every hash marked as had is a hash of a filled span, at the height the mark
\* records (handle_response_chain_entry accepts a chain that starts there), and is
\* marked as requested: otherwise a block that waits in the queue would be
\* reserved and downloaded again.
HaveIsFilled ==
  \A h \in DOMAIN queue.have_blocks :
    /\ h \in queue.requested_hashes
    /\ \E s \in FilledStarts(queue) :
         LET i == queue.have_blocks[h] - s + 1
         IN  /\ i \in DOMAIN queue.blocks[s].hashes
             /\ queue.blocks[s].hashes[i] = h

\* The blocks that handle_response_chain_entry takes for proven are downloaded.
\* It does not hold: the answer of one connection may replace the span another
\* has reserved at the same height, on another chain, and takes over its hashes.
HaveIsDownloaded ==
  \A h \in DOMAIN queue.have_blocks :
    \E s \in FilledStarts(queue) : h \in Range(queue.blocks[s].blocks)

\* get_next_needed_height finds the first height, from the chain's on, that no
\* span covers, whatever the overlaps between the spans.
NextNeededIsFirstGap ==
  LET Covered(h) == \E s \in Starts(queue) : h \in s..LastHeight(queue, s)
      Top        == get_max_block_height(queue) + 1
  IN  \A height \in 1..Top :
        get_next_needed_height(queue, height) = Min({h \in height..Top : ~Covered(h)})

\* Blocks that have been downloaded leave the queue only when they are handed
\* to the core, when their connection is dropped, or when another answer for
\* the same height comes in: never because of a reservation or a stale flush.
DownloadsAreKept ==
  [][\A s \in FilledStarts(queue) :
       \/ s \in Starts(queue') /\ queue'.blocks[s].blocks = queue.blocks[s].blocks
       \/ RemoveNextSpan
       \/ DropConnection(queue.blocks[s].connection_id, TRUE)
       \/ \E c \in Conns : HandleResponseGetObjects(c) /\ asked[c].start = s]_vars
==============================================================================
