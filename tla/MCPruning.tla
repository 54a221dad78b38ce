------------------------------ MODULE MCPruning ------------------------------
(***************************************************************************)
(* The pruning arithmetic against its definition: a height moves up a      *)
(* growing chain, and every stripe is asked about at every pair of the two *)
(* heights.                                                                *)
(***************************************************************************)
EXTENDS Pruning, FiniteSetsExt

CONSTANT MaxHeight   \* bound on the height of the chain

VARIABLES at, blockchain_height

vars == <<at, blockchain_height>>

Init == at = 0 /\ blockchain_height = 1

Advance == at < blockchain_height /\ at' = at + 1 /\ UNCHANGED blockchain_height

Grow == /\ blockchain_height < MaxHeight
        /\ blockchain_height' = blockchain_height + 1
        /\ UNCHANGED at

Next == Advance \/ Grow

Spec == Init /\ [][Next]_vars

Unpruned(stripe) ==
  {h \in at..blockchain_height : has_unpruned_block(h, blockchain_height, stripe)}

\* get_next_unpruned_block_height is the least height, from block_height on,
\* whose full block a node of that stripe has: request_missing_objects and
\* reserve_span use it to skip exactly the blocks a peer cannot send.
NextUnprunedIsLeast ==
  \A stripe \in Seeds :
    get_next_unpruned_block_height(at, blockchain_height, stripe) = Min(Unpruned(stripe))

\* find_blockchain_supplement clips the hashes it offers at
\* get_next_pruned_block_height: from a block the node has in full, every block
\* below that height is one it has in full, and the clip leaves at least one.
ClippedSupplementIsFull ==
  \A stripe \in Seeds :
    LET stop == get_next_pruned_block_height(at, blockchain_height, stripe)
    IN  (at \in Unpruned(stripe) /\ at < blockchain_height) =>
          (stop > at /\ at..(stop - 1) \subseteq Unpruned(stripe))
==============================================================================
