------------------------------- MODULE Pruning -------------------------------
(***************************************************************************)
(* Block pruning arithmetic (src/common/pruning.cpp).                      *)
(*                                                                         *)
(* A pruned node keeps the full data of one stripe of blocks out of        *)
(* 2^CRYPTONOTE_PRUNING_LOG_STRIPES, and of the last                       *)
(* CRYPTONOTE_PRUNING_TIP_BLOCKS blocks.  A pruning seed packs the number  *)
(* of stripes and the stripe; since process_payload_sync_data refuses any  *)
(* other number of stripes than the configured one, a seed is represented  *)
(* here by its stripe, 0 standing for the seed 0 of a node that does not   *)
(* prune.                                                                  *)
(***************************************************************************)
EXTENDS Integers

CONSTANTS
  StripeSize,   \* CRYPTONOTE_PRUNING_STRIPE_SIZE, 4096
  TipBlocks,    \* CRYPTONOTE_PRUNING_TIP_BLOCKS, 5500
  Stripes       \* 1 << CRYPTONOTE_PRUNING_LOG_STRIPES, 8

ASSUME PruningAssumption ==
  /\ StripeSize \in Nat \ {0}
  /\ TipBlocks \in Nat
  /\ Stripes \in Nat \ {0}

Seeds == 0..Stripes

InTip(block_height, blockchain_height) ==
  block_height + TipBlocks >= blockchain_height

StripeOf(block_height) == ((block_height \div StripeSize) % Stripes) + 1

get_pruning_stripe(block_height, blockchain_height) ==
  IF InTip(block_height, blockchain_height) THEN 0 ELSE StripeOf(block_height)

has_unpruned_block(block_height, blockchain_height, stripe) ==
  \/ stripe = 0
  \/ get_pruning_stripe(block_height, blockchain_height) \in {0, stripe}

\* bug: the cycle is not advanced when the stripe's run of this cycle is over
Bug_NextStripeStart_same_cycle(block_height, stripe) ==
  LET cycle == (block_height \div StripeSize) \div Stripes
  IN  cycle * (StripeSize * Stripes) + (stripe - 1) * StripeSize

\* The start of the next run of blocks of `stripe`, at or after block_height.
NextStripeStart(block_height, stripe) ==
  LET cycle == (block_height \div StripeSize) \div Stripes
      skip  == IF stripe > StripeOf(block_height) THEN 0 ELSE 1
  IN  (cycle + skip) * (StripeSize * Stripes) + (stripe - 1) * StripeSize

get_next_unpruned_block_height(block_height, blockchain_height, stripe) ==
  LET h == NextStripeStart(block_height, stripe) IN
  IF has_unpruned_block(block_height, blockchain_height, stripe)
    THEN block_height
  ELSE IF h + TipBlocks > blockchain_height
    THEN IF blockchain_height < TipBlocks THEN 0
                                          ELSE blockchain_height - TipBlocks
    ELSE h

\* bug: the blocks of the tip, which every node keeps, are not let through
Bug_get_next_pruned_no_tip(block_height, blockchain_height, stripe) ==
  IF stripe = 0
    THEN blockchain_height
  ELSE IF StripeOf(block_height) # stripe
    THEN block_height
    ELSE get_next_unpruned_block_height(block_height, blockchain_height,
                                        1 + (stripe % Stripes))

get_next_pruned_block_height(block_height, blockchain_height, stripe) ==
  IF stripe = 0 \/ InTip(block_height, blockchain_height)
    THEN blockchain_height
  ELSE IF StripeOf(block_height) # stripe
    THEN block_height
    ELSE get_next_unpruned_block_height(block_height, blockchain_height,
                                        1 + (stripe % Stripes))
==============================================================================
