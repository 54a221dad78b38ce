----------------------------- MODULE DifficultyCache -----------------------------
(***************************************************************************)
(* What Blockchain keeps to compute the next block's difficulty            *)
(* (get_difficulty_for_next_block, src/cryptonote_core/blockchain.cpp).    *)
(*                                                                         *)
(*   height      m_timestamps_and_difficulties_height, 0 for none          *)
(*   reset       m_reset_timestamps_and_difficulties_height                *)
(*   timestamps  m_timestamps and m_difficulties                           *)
(*   top, diff   m_difficulty_for_next_block_top_hash and                  *)
(*               m_difficulty_for_next_block                               *)
(* A block stands for its timestamp and cumulative difficulty, and a       *)
(* difficulty for what next_difficulty computes it from: the blocks of the *)
(* window and the target time.                                             *)
(***************************************************************************)
EXTENDS HardFork

CONSTANTS
  DIFFICULTY_BLOCKS_COUNT,   \* blocks of a full window
  null_hash                  \* no block

ASSUME DifficultyAssumption ==
  /\ DIFFICULTY_BLOCKS_COUNT \in Nat \ {0}
  /\ null_hash \notin Block

NoDifficulty == [window |-> << >>, v1_target |-> TRUE]

\* height, reset and timestamps are of the window (a block stands for its timestamp
\* and its difficulty), top and diff of the difficulty computed from it
EmptyCache == [height |-> 0, reset |-> TRUE, timestamps |-> << >>,
               top |-> null_hash, diff |-> NoDifficulty]

get_difficulty_target(hf) == get_current_version(hf) < 2

\* the last blocks of the chain, without the genesis block
Window(chain) ==
  LET first == IF Len(chain) > DIFFICULTY_BLOCKS_COUNT
                 THEN Len(chain) - DIFFICULTY_BLOCKS_COUNT ELSE 1
  IN  SubSeq(chain, first + 1, Len(chain))

\* the kept window, moved on by the top block
NextWindow(timestamps, b) ==
  LET drop == IF Len(timestamps) >= DIFFICULTY_BLOCKS_COUNT
                THEN Len(timestamps) - DIFFICULTY_BLOCKS_COUNT + 1 ELSE 0
  IN  Append(SubSeq(timestamps, drop + 1, Len(timestamps)), b)

CanMoveOn(dc, chain) ==
  /\ ~dc.reset
  /\ dc.height # 0
  /\ Len(chain) - dc.height = 1
  /\ Len(dc.timestamps) >= DIFFICULTY_BLOCKS_COUNT

\* the cache after a call, its result being dc.diff
get_difficulty_for_next_block(dc, hf, chain) ==
  IF dc.top = chain[Len(chain)] THEN dc
  ELSE LET window == IF CanMoveOn(dc, chain)
                       THEN NextWindow(dc.timestamps, chain[Len(chain)]) ELSE Window(chain)
       IN  [height |-> Len(chain), reset |-> dc.reset, timestamps |-> window,
            top |-> chain[Len(chain)],
            diff |-> [window |-> window, v1_target |-> get_difficulty_target(hf)]]

\* mutant: clears the kept window only once
Bug_ResetWindow_once(dc) == [dc EXCEPT !.height = 0]

\* at the start of whatever may replace blocks
ResetWindow(dc) == [dc EXCEPT !.height = 0, !.reset = TRUE]

\* mutant: a window another thread has kept since the reset survives
Bug_batch_committed_keep(dc) == [dc EXCEPT !.reset = FALSE]

\* cleanup_handle_incoming_blocks, after a commit
batch_committed(dc) == IF dc.reset THEN [dc EXCEPT !.height = 0, !.reset = FALSE] ELSE dc
==================================================================================
