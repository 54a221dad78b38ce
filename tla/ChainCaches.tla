------------------------------- MODULE ChainCaches -------------------------------
(***************************************************************************)
(* The values Blockchain keeps in memory about its chain - the fork in     *)
(* force and the next block's difficulty - while blocks are added,         *)
(* switched and popped inside a batch that is committed or aborted, and    *)
(* another thread asks for the difficulty (get_info).                      *)
(*                                                                         *)
(* db is the database as the thread of the batch sees it, committed as     *)
(* every other thread does; hf and dc are shared and know no batch.  The   *)
(* loops of the methods are taken one turn at a time.  m_blockchain_lock   *)
(* is held while call is not "idle" and during a batch of pop_blocks or    *)
(* check_against_checkpoints ("own").                                      *)
(***************************************************************************)
EXTENDS DifficultyCache

CONSTANTS
  genesis,     \* the genesis block
  parent,      \* parent[b]: the block before b
  path,        \* path[b]: the chain from the genesis block to b
  work_ok,     \* work_ok[b]: b's work meets the difficulty of the chain up to its parent
  base,        \* the chain at the start: blocks that are never popped
  Failures     \* whether a write to the database fails: a subset of BOOLEAN

ASSUME ChainCachesAssumption ==
  /\ genesis \in Block
  /\ parent \in [Block -> Block \cup {null_hash}]
  /\ \A b \in Block : parent[b] = null_hash <=> b = genesis
  /\ path \in [Block -> Seq(Block)]
  /\ \A b \in Block :
       path[b] = IF b = genesis THEN <<b>> ELSE Append(path[parent[b]], b)
  /\ work_ok \in [Block -> BOOLEAN]
  /\ \E b \in Block : base = path[b]
  /\ Failures \subseteq BOOLEAN

VARIABLES
  db,         \* [chain, hf_versions, alt], with the writes of the batch
  committed,  \* the same as last committed
  hf,         \* m_hardfork
  dc,         \* the difficulty cache
  batch,      \* "none", "open", "closing" (a block was refused), "failed" (m_batch_success
              \* is false) or "own" (of pop_blocks or check_against_checkpoints)
  call,       \* the loop under way
  todo,       \* the blocks it has still to add
  undo,       \* disconnected_chain
  split,      \* split_height or rollback_height
  scan,       \* reorganize_from_block_height: the next height to add again
  stale       \* a batch was aborted since the start, or the chain shows that one was

vars == <<db, committed, hf, dc, batch, call, todo, undo, split, scan, stale>>

Idle == call = "idle"
NoLoop == UNCHANGED <<call, todo, undo, split, scan>>

RightVersion(b, height) ==
  /\ major_version[b] = get_ideal_version(height)
  /\ minor_version[b] >= get_ideal_version(height)

Versions(chain) == [i \in DOMAIN chain |-> major_version[chain[i]]]

Init ==
  /\ db = [chain |-> base, hf_versions |-> Versions(base), alt |-> {}]
  /\ committed = db
  /\ hf = init(db)
  /\ dc = get_difficulty_for_next_block(EmptyCache, hf, db.chain)
  /\ batch = "none"
  /\ call = "idle"
  /\ todo = << >> /\ undo = << >> /\ split = 0 /\ scan = 0
  /\ stale = FALSE

------------------------------------------------------------------------------
(* handle_block_to_main_chain and pop_block_from_blockchain *)

\* the difficulty of the block after a chain, computed from the chain alone
DifficultyOn(chain) ==
  [window |-> Window(chain), v1_target |-> get_ideal_version(Len(chain)) < 2]

\* check_hash: the verdict against a wrong difficulty may be either
MeetsDifficulty(b, diff, lucky) == IF diff = DifficultyOn(db.chain) THEN work_ok[b] ELSE lucky

NextDifficulty == get_difficulty_for_next_block(dc, hf, db.chain)

Passes(b, lucky) == check(hf, b) /\ MeetsDifficulty(b, NextDifficulty.diff, lucky)

\* the block passes and is written; add_block calls HardFork::add at its end
AddBlock(b, lucky) ==
  /\ Passes(b, lucky)
  /\ dc' = NextDifficulty
  /\ hf' = add(hf, b, ChainHeight(db))
  /\ db' = [db EXCEPT !.chain = Append(@, b),
                      !.hf_versions = set_hard_fork_version(hf, @, ChainHeight(db))]

\* it does not pass, or the database throws
RefuseBlock(b, lucky, throws) ==
  /\ throws \/ ~Passes(b, lucky)
  /\ dc' = IF check(hf, b) THEN NextDifficulty ELSE dc
  /\ batch' = IF throws /\ Passes(b, lucky) THEN "failed"
              ELSE IF batch = "open" THEN "closing" ELSE batch

PopBlock ==
  LET popped == [db EXCEPT !.chain = SubSeq(@, 1, Len(@) - 1)]
  IN  /\ db' = popped
      /\ dc' = ResetWindow(dc)
      /\ hf' = on_block_popped(hf, popped)

------------------------------------------------------------------------------
(* A batch of incoming blocks *)

PrepareHandleIncomingBlocks ==
  /\ Idle /\ batch = "none"
  /\ batch' = "open"
  /\ NoLoop
  /\ UNCHANGED <<db, committed, hf, dc, stale>>

IsKnown(b) == b \in Range(db.chain) \cup db.alt

HandleBlockOnTop(b, lucky, throws) ==
  /\ Idle /\ batch = "open"
  /\ ~IsKnown(b)
  /\ parent[b] = Top(db)
  /\ \/ AddBlock(b, lucky) /\ ~throws /\ UNCHANGED batch
     \/ RefuseBlock(b, lucky, throws) /\ UNCHANGED <<db, hf>>
  /\ NoLoop
  /\ UNCHANGED <<committed, stale>>

\* build_alt_chain: where the alternative blocks up to b begin
AltStart(b) ==
  Min({i \in DOMAIN path[b] : \A j \in i..Len(path[b]) : path[b][j] \in db.alt \cup {b}})
Connects(b) ==
  LET i == AltStart(b)
  IN  /\ i > 1
      /\ i <= Len(db.chain) + (IF i = Len(path[b]) THEN 1 ELSE 0)
      /\ db.chain[i - 1] = path[b][i - 1]

\* handle_alternative_block; which of two chains has more work is left open
HandleAlternativeBlock(b, heavier) ==
  /\ Idle /\ batch = "open"
  /\ ~IsKnown(b)
  /\ parent[b] # Top(db)
  /\ dc' = ResetWindow(dc)
  /\ \/ /\ \/ ~check_for_height(hf, b, Len(path[b]) - 1)
           \/ ~IsKnown(parent[b])
           \/ Connects(b) /\ ~work_ok[b]
        /\ batch' = "closing"
        /\ UNCHANGED <<db, call, todo, undo>>
     \/ /\ IsKnown(parent[b]) /\ ~Connects(b)
        /\ UNCHANGED <<db, batch, call, todo, undo>>
     \/ /\ check_for_height(hf, b, Len(path[b]) - 1)
        /\ IsKnown(parent[b]) /\ Connects(b)
        /\ work_ok[b]
        /\ db' = [db EXCEPT !.alt = @ \cup {b}]
        /\ IF heavier
             THEN /\ call' = "switch_pop"
                  /\ todo' = SubSeq(path[b], AltStart(b), Len(path[b]))
                  /\ undo' = << >>
             ELSE UNCHANGED <<call, todo, undo>>
        /\ UNCHANGED batch
  /\ UNCHANGED <<committed, hf, split, scan, stale>>

CleanupHandleIncomingBlocks(throws) ==
  /\ Idle /\ batch \in {"open", "closing", "failed"}
  /\ batch' = "none"
  /\ \/ /\ batch # "failed" /\ ~throws
        /\ committed' = db
        /\ dc' = batch_committed(dc)
        /\ UNCHANGED <<db, stale>>
     \/ /\ batch = "failed" \/ throws
        /\ db' = committed
        /\ stale' = TRUE
        /\ UNCHANGED <<committed, dc>>
  /\ NoLoop
  /\ UNCHANGED hf

------------------------------------------------------------------------------
(* switch_to_alternative_blockchain *)

SwitchPop ==
  /\ call = "switch_pop"
  /\ Top(db) # parent[Head(todo)]
  /\ PopBlock
  /\ undo' = <<Top(db)>> \o undo
  /\ UNCHANGED <<committed, batch, call, todo, split, scan, stale>>

SwitchPopped ==
  /\ call = "switch_pop"
  /\ Top(db) = parent[Head(todo)]
  /\ split' = ChainHeight(db)
  /\ call' = "switch_add"
  /\ UNCHANGED <<db, committed, hf, dc, batch, todo, undo, scan, stale>>

\* a block that fails is forgotten with those after it, and the old chain comes back
SwitchAdd(lucky, throws) ==
  /\ call = "switch_add"
  /\ todo # << >>
  /\ \/ /\ AddBlock(Head(todo), lucky) /\ ~throws
        /\ todo' = Tail(todo)
        /\ UNCHANGED <<batch, call>>
     \/ /\ RefuseBlock(Head(todo), lucky, throws)
        /\ db' = [db EXCEPT !.alt = @ \ Range(todo)]
        /\ call' = "rollback_pop"
        /\ todo' = << >>
        /\ UNCHANGED hf
  /\ UNCHANGED <<committed, undo, split, scan, stale>>

\* the blocks of the old chain that pass as alternatives, each with those before it
Disconnected ==
  {undo[i] : i \in {j \in DOMAIN undo : \A k \in 1..j :
     work_ok[undo[k]] /\ check_for_height(hf, undo[k], Len(path[undo[k]]) - 1)}}

\* discard: a checkpoint made the node switch
SwitchEnd(discard) ==
  /\ call = "switch_add"
  /\ todo = << >>
  /\ db' = [db EXCEPT !.alt =
              (@ \cup (IF discard THEN {} ELSE Disconnected)) \ Range(db.chain)]
  /\ dc' = IF discard THEN dc ELSE ResetWindow(dc)
  /\ hf' = reorganize_from_block_height(hf, db, split - 1)
  /\ call' = "reorganize"
  /\ scan' = split
  /\ UNCHANGED <<committed, batch, todo, undo, split, stale>>

------------------------------------------------------------------------------
(* rollback_blockchain_switching, and the end of HardFork's reorganize *)

RollbackPop ==
  /\ call = "rollback_pop"
  /\ ChainHeight(db) # split
  /\ PopBlock
  /\ UNCHANGED <<committed, batch, call, todo, undo, split, scan, stale>>

RollbackPopped ==
  /\ call = "rollback_pop"
  /\ ChainHeight(db) = split
  /\ dc' = ResetWindow(dc)
  /\ hf' = reorganize_from_block_height(hf, db, split - 1)
  /\ call' = "rollback_add"
  /\ todo' = undo
  /\ UNCHANGED <<db, committed, batch, undo, split, scan, stale>>

\* a block of the old chain that fails ends the rollback ("PANIC!")
RollbackAdd(lucky, throws) ==
  /\ call = "rollback_add"
  /\ todo # << >>
  /\ \/ /\ AddBlock(Head(todo), lucky) /\ ~throws
        /\ todo' = Tail(todo)
        /\ UNCHANGED <<batch, call, undo, split>>
     \/ /\ RefuseBlock(Head(todo), lucky, throws)
        /\ todo' = << >> /\ undo' = << >> /\ split' = 0
        /\ call' = "idle"
        /\ UNCHANGED <<db, hf>>
  /\ UNCHANGED <<committed, scan, stale>>

RollbackEnd ==
  /\ call = "rollback_add"
  /\ todo = << >>
  /\ hf' = reorganize_from_block_height(hf, db, split - 1)
  /\ call' = "reorganize"
  /\ scan' = split
  /\ UNCHANGED <<db, committed, dc, batch, todo, undo, split, stale>>

ReorganizeStep ==
  /\ call = "reorganize"
  /\ scan < ChainHeight(db)
  /\ LET b == db.chain[scan + 1]
     IN  /\ hf' = IF check(hf, b) THEN add(hf, b, scan) ELSE hf
         /\ db' = IF check(hf, b)
                   THEN [db EXCEPT !.hf_versions = set_hard_fork_version(hf, @, scan)]
                   ELSE db
  /\ scan' = scan + 1
  /\ UNCHANGED <<committed, dc, batch, call, todo, undo, split, stale>>

ReorganizeEnd ==
  /\ call = "reorganize"
  /\ scan = ChainHeight(db)
  /\ call' = "idle"
  /\ undo' = << >> /\ split' = 0 /\ scan' = 0
  /\ UNCHANGED <<db, committed, hf, dc, batch, todo, stale>>

------------------------------------------------------------------------------
(* pop_blocks and check_against_checkpoints, in a batch of their own *)

PopBlocksBegin ==
  /\ Idle /\ batch = "none"
  /\ batch' = "own"
  /\ call' = "pop"
  /\ UNCHANGED <<db, committed, hf, dc, todo, undo, split, scan, stale>>

PopBlocksStep ==
  /\ call = "pop"
  /\ ChainHeight(db) > Len(base)
  /\ PopBlock
  /\ UNCHANGED <<committed, batch, call, todo, undo, split, scan, stale>>

\* enough blocks are popped, or the database fails
PopBlocksEnd(throws) ==
  /\ call = "pop"
  /\ call' = "idle"
  /\ batch' = "none"
  /\ \/ ~throws /\ committed' = db /\ UNCHANGED <<db, stale>>
     \/ throws /\ db' = committed /\ stale' = TRUE /\ UNCHANGED committed
  /\ UNCHANGED <<hf, dc, todo, undo, split, scan>>

\* the chain does not pass a checkpoint: it is cut to two blocks below it
CheckAgainstCheckpoints(rollback_height) ==
  /\ Idle /\ batch = "none"
  /\ batch' = "own"
  /\ call' = "rollback_pop"
  /\ split' = rollback_height
  /\ UNCHANGED <<db, committed, hf, dc, todo, undo, scan, stale>>

CheckpointsEnd ==
  /\ Idle /\ batch = "own"
  /\ committed' = db
  /\ batch' = "none"
  /\ NoLoop
  /\ UNCHANGED <<db, hf, dc, stale>>

------------------------------------------------------------------------------
(* Another thread, and a restart *)

\* get_difficulty_for_next_block in a thread outside the batch: an answer that is
\* not at hand takes m_blockchain_lock
GetInfo ==
  /\ Idle /\ batch # "own"
  /\ dc' = get_difficulty_for_next_block(dc, hf, committed.chain)
  /\ NoLoop
  /\ UNCHANGED <<db, committed, hf, batch, stale>>

\* init pops the blocks at the top that have not their height's version
SoundHeight(chain) ==
  Max({i \in DOMAIN chain :
         get_ideal_version(i - 1) <= 1 \/ get_ideal_version(i - 1) = major_version[chain[i]]})

ChainIsSound(chain) ==
  \A i \in (Len(base) + 1)..Len(chain) : RightVersion(chain[i], i - 1) /\ work_ok[chain[i]]

Restart ==
  LET height == SoundHeight(committed.chain)
      kept   == [committed EXCEPT !.chain = SubSeq(@, 1, height), !.alt = {}]
      popped == height < Len(committed.chain)
      loaded == init(committed)
      first  == get_difficulty_for_next_block(EmptyCache, loaded, committed.chain)
  IN  /\ db' = kept
      /\ committed' = kept
      /\ hf' = IF popped THEN reorganize_from_block_height(loaded, kept, height - 1) ELSE loaded
      /\ dc' = IF popped THEN ResetWindow(first) ELSE first
      /\ batch' = "none"
      /\ call' = "idle"
      /\ todo' = << >> /\ undo' = << >> /\ split' = 0 /\ scan' = 0
      /\ stale' = ~ChainIsSound(kept.chain)

\* bound: the database fails once between two starts
Failing == IF stale THEN Failures \ {TRUE} ELSE Failures

Next ==
  \/ PrepareHandleIncomingBlocks
  \/ \E b \in Block, lucky \in BOOLEAN, throws \in Failing : HandleBlockOnTop(b, lucky, throws)
  \/ \E b \in Block, heavier \in BOOLEAN : HandleAlternativeBlock(b, heavier)
  \/ \E throws \in Failing : CleanupHandleIncomingBlocks(throws)
  \/ SwitchPop \/ SwitchPopped
  \/ \E lucky \in BOOLEAN, throws \in Failing : SwitchAdd(lucky, throws)
  \/ \E discard \in BOOLEAN : SwitchEnd(discard)
  \/ RollbackPop \/ RollbackPopped
  \/ \E lucky \in BOOLEAN, throws \in Failing : RollbackAdd(lucky, throws)
  \/ RollbackEnd \/ ReorganizeStep \/ ReorganizeEnd
  \/ PopBlocksBegin \/ PopBlocksStep
  \/ \E throws \in Failing : PopBlocksEnd(throws)
  \/ \E h \in Len(base)..(ChainHeight(db) - 3) : CheckAgainstCheckpoints(h)
  \/ CheckpointsEnd
  \/ GetInfo \/ Restart

Spec == Init /\ [][Next]_vars

------------------------------------------------------------------------------
(* Properties *)

\* The difficulty kept for a top block is the one its chain determines, although the
\* window it is computed from is moved on block by block, in one thread for the
\* chain of the batch and in another for the committed one, across switches, pops
\* and aborted batches ("it might just give us something a bit out of date").
CachedDifficultyIsRight ==
  dc.top # null_hash => dc.diff = DifficultyOn(path[dc.top])

\* Unless a batch was aborted, the fork in force is the one scheduled for the next
\* block's height whenever a block is judged, whatever was popped and put back.
VersionFollowsChain ==
  ~stale /\ call # "reorganize" =>
    get_current_version(hf) = get_ideal_version(ChainHeight(db))

\* on_block_popped takes a vote off the end of the window, which is never empty,
\* and reads the version of the popped height, which is always there.
PopFindsItsVotes ==
  /\ Len(hf.versions) \in 1..window_size
  /\ Len(db.hf_versions) >= Len(db.chain)

\* Unless a batch was aborted, the version table that get, on_block_popped and init
\* read has the scheduled version of every height of the chain.
VersionTableFollowsChain ==
  ~stale => \A i \in DOMAIN db.chain : db.hf_versions[i] = get_ideal_version(i - 1)

\* The fork in force, the votes and the table of versions follow the chain.
ForkFollowsChain == VersionFollowsChain /\ PopFindsItsVotes /\ VersionTableFollowsChain

\* Unless a batch was aborted, a block that obeys the rules of its height and has
\* the work its chain asks for is not refused.
GoodBlocksAreTaken ==
  [][\A b \in Block, lucky \in BOOLEAN :
       /\ HandleBlockOnTop(b, lucky, FALSE)
       /\ ~stale /\ RightVersion(b, ChainHeight(db)) /\ work_ok[b]
       => db'.chain = Append(db.chain, b)]_vars

\* The caches cannot be seen: every block is added, popped, committed or lost as if
\* its rules had been computed from the chain each time.
Rules == INSTANCE ChainRules WITH
  chain <- db.chain, committed <- committed.chain, trusted <- ~stale

CachesAreTransparent == Rules!Spec
==================================================================================
