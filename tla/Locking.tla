--------------------------------- MODULE Locking ---------------------------------
(***************************************************************************)
(* The locks of the node and the transactions of its database.             *)
(*                                                                         *)
(* A call of a thread is a program: the locks it takes and gives back, its *)
(* batches, its read transactions and its writes, in the order of the      *)
(* code.  The locks are recursive.  The database is LMDB with the layer of *)
(* db_lmdb.cpp above it: one batch at a time, owned by a thread; a read    *)
(* transaction per thread; and a map that grows only while no transaction  *)
(* is active, which a gate before every new transaction brings about.      *)
(***************************************************************************)
EXTENDS Integers, Sequences, TLC

CONSTANTS
  Thread,     \* the threads of the node
  Calls,      \* the calls they make: a set of names of Program
  MaxCalls,   \* bound: calls a thread makes
  NoThread    \* nobody

VARIABLES
  owner,    \* owner[l]: the thread that holds the lock l
  depth,    \* depth[l]: how often it has taken it
  batch,    \* m_writer while m_batch_active, or nobody
  gate,     \* creation_gate: the thread that has closed it, or nobody
  active,   \* active[t]: t's share of num_active_txns
  reading,  \* reading[t]: m_rf_txn, t's read transaction is in use
  frames,   \* frames[t]: for each batch or read t has asked for, if it is the one that began it
  code,     \* code[t]: what t's call has still to do
  calls     \* calls[t]: the calls t has begun

vars == <<owner, depth, batch, gate, active, reading, frames, code, calls>>

incoming   == "m_incoming_tx_lock"
pool       == "m_tx_pool"
chain      == "m_blockchain_lock"
difficulty == "m_difficulty_lock"
Lock == {incoming, pool, chain, difficulty}

------------------------------------------------------------------------------
(* Programs *)

Instr(op) == <<[op |-> op, on |-> ""]>>
Take(l) == <<[op |-> "lock", on |-> l]>>
Give(l) == <<[op |-> "unlock", on |-> l]>>
Holding(l, body) == Take(l) \o body \o Give(l)

\* TXN_PREFIX_RDONLY or db_rtxn_guard
Reading(body) == Instr("read_start") \o body \o Instr("read_stop")

\* batch_start ... batch_stop; a batch of the thread that is open already is used
LockedTXN(body) == Instr("batch_start") \o body \o Instr("batch_stop")

Write == Instr("write")

\* a method of tx_memory_pool that changes the pool
PoolWrite == Holding(pool, Holding(chain, LockedTXN(Write)))

pop_block_from_blockchain == Holding(chain, Write \o PoolWrite)

\* with a reorganization it pops blocks as well
add_new_block(reorganize) ==
  Holding(pool, Holding(chain,
    Reading(<< >>) \o (IF reorganize THEN pop_block_from_blockchain ELSE << >>) \o Write))

prepare_handle_incoming_blocks == Take(pool) \o Holding(chain, Instr("batch_wait"))

\* mutant: the locks the other way round
Bug_update_blockchain_pruning_order == Holding(chain, Holding(pool, Instr("prune")))

update_blockchain_pruning == Holding(pool, Holding(chain, Instr("prune")))

\* mutant: the pool is given back before the batch ends
Bug_cleanup_handle_incoming_blocks_early ==
  Give(pool) \o Holding(chain, Instr("batch_stop")) \o update_blockchain_pruning

cleanup_handle_incoming_blocks ==
  Holding(chain, Instr("batch_stop")) \o Give(pool) \o update_blockchain_pruning

create_block_template == Holding(pool, Holding(chain, Reading(<< >>)))

\* blocks of a peer that is synchronized from, or a block that was mined
handle_incoming_blocks ==
  Holding(incoming, prepare_handle_incoming_blocks \o add_new_block(FALSE)
                      \o add_new_block(TRUE) \o cleanup_handle_incoming_blocks)

handle_single_incoming_block ==
  Holding(incoming, prepare_handle_incoming_blocks \o add_new_block(FALSE)
                      \o create_block_template \o cleanup_handle_incoming_blocks)

handle_incoming_tx ==
  Holding(incoming, Holding(pool, Holding(chain, Reading(<< >>)) \o PoolWrite \o PoolWrite))

on_transactions_relayed == Holding(incoming, PoolWrite)

get_difficulty_for_next_block ==
  Reading(<< >>) \o Holding(difficulty, << >>)
    \o Holding(chain, Reading(<< >>) \o Holding(difficulty, << >>))

\* mutant: the read transaction begins before the lock is taken
Bug_handle_get_objects_early == Reading(Holding(chain, Reading(<< >>)))

handle_get_objects == Holding(chain, Reading(Reading(<< >>)))

pop_blocks == Holding(pool, Holding(chain, LockedTXN(pop_block_from_blockchain)))

check_against_checkpoints(rollback) ==
  Holding(chain, LockedTXN(Reading(<< >>)
                             \o (IF rollback THEN pop_block_from_blockchain ELSE << >>)))

\* reads inside a read, without m_blockchain_lock
get_output_histogram == Reading(Reading(<< >>))

Program ==
  [ blocks       |-> handle_incoming_blocks,
    block        |-> handle_single_incoming_block,
    tx           |-> handle_incoming_tx,
    relayed      |-> on_transactions_relayed,
    idle         |-> PoolWrite,
    template     |-> create_block_template,
    get_info     |-> get_difficulty_for_next_block,
    get_objects  |-> handle_get_objects,
    pop_blocks   |-> pop_blocks,
    checkpoints  |-> check_against_checkpoints(FALSE),
    rollback     |-> check_against_checkpoints(TRUE),
    histogram    |-> get_output_histogram ]

ASSUME LockingAssumption ==
  /\ Calls \subseteq DOMAIN Program
  /\ MaxCalls \in Nat
  /\ NoThread \notin Thread

Init ==
  /\ owner = [l \in Lock |-> NoThread]
  /\ depth = [l \in Lock |-> 0]
  /\ batch = NoThread
  /\ gate = NoThread
  /\ active = [t \in Thread |-> 0]
  /\ reading = [t \in Thread |-> FALSE]
  /\ frames = [t \in Thread |-> << >>]
  /\ code = [t \in Thread |-> << >>]
  /\ calls = [t \in Thread |-> 0]

------------------------------------------------------------------------------
(* Steps *)

\* t begins a call
Begin(t) ==
  /\ code[t] = << >>
  /\ calls[t] < MaxCalls
  /\ calls' = [calls EXCEPT ![t] = @ + 1]
  /\ \E c \in Calls : code' = [code EXCEPT ![t] = Program[c]]
  /\ UNCHANGED <<owner, depth, batch, gate, active, reading, frames>>

Next_op(t, op) == code[t] # << >> /\ Head(code[t]).op = op
Done(t) == code' = [code EXCEPT ![t] = Tail(@)] /\ UNCHANGED calls
Push(t, began) == frames' = [frames EXCEPT ![t] = <<began>> \o @]
Pop(t) == frames' = [frames EXCEPT ![t] = Tail(@)]

TakeLock(t) ==
  LET l == Head(code[t]).on
  IN  /\ Next_op(t, "lock")
      /\ owner[l] \in {NoThread, t}
      /\ owner' = [owner EXCEPT ![l] = t]
      /\ depth' = [depth EXCEPT ![l] = @ + 1]
      /\ Done(t)
      /\ UNCHANGED <<batch, gate, active, reading, frames>>

GiveLock(t) ==
  LET l == Head(code[t]).on
  IN  /\ Next_op(t, "unlock")
      /\ owner' = [owner EXCEPT ![l] = IF depth[l] = 1 THEN NoThread ELSE @]
      /\ depth' = [depth EXCEPT ![l] = @ - 1]
      /\ Done(t)
      /\ UNCHANGED <<batch, gate, active, reading, frames>>

\* block_rtxn_start, behind the gate even if t has a transaction already
ReadStart(t) ==
  LET began == batch # t /\ ~reading[t]
  IN  /\ Next_op(t, "read_start")
      /\ gate = NoThread
      /\ reading' = [reading EXCEPT ![t] = @ \/ began]
      /\ active' = [active EXCEPT ![t] = @ + (IF began THEN 1 ELSE 0)]
      /\ Push(t, began)
      /\ Done(t)
      /\ UNCHANGED <<owner, depth, batch, gate>>

\* block_rtxn_stop, if the guard is active
ReadStop(t) ==
  LET began == Head(frames[t])
  IN  /\ Next_op(t, "read_stop")
      /\ reading' = [reading EXCEPT ![t] = @ /\ ~began]
      /\ active' = [active EXCEPT ![t] = @ - (IF began THEN 1 ELSE 0)]
      /\ Pop(t)
      /\ Done(t)
      /\ UNCHANGED <<owner, depth, batch, gate>>

Resize == Instr("close_gate") \o Instr("resize")

\* batch_start; in prepare_handle_incoming_blocks a batch that is open is waited for
BatchStart(t, need_resize) ==
  LET wait  == Next_op(t, "batch_wait")
      rest  == Tail(code[t])
      again == Give(chain) \o Give(pool) \o Take(pool) \o Take(chain)
      begin == (IF need_resize THEN Resize ELSE << >>) \o Instr("begin")
  IN  /\ wait \/ Next_op(t, "batch_start")
      /\ frames' = [frames EXCEPT ![t] =
                      IF wait /\ batch # NoThread THEN @ ELSE <<batch = NoThread>> \o @]
      /\ code' = [code EXCEPT ![t] = IF batch = NoThread THEN begin \o rest
                                     ELSE IF wait THEN again \o @ ELSE rest]
      /\ UNCHANGED <<owner, depth, batch, gate, active, reading, calls>>

\* do_resize: prevent_new_txns, then wait_no_active_txns
CloseGate(t) ==
  /\ Next_op(t, "close_gate")
  /\ gate = NoThread
  /\ gate' = t
  /\ Done(t)
  /\ UNCHANGED <<owner, depth, batch, active, reading, frames>>

ResizeMap(t) ==
  /\ Next_op(t, "resize")
  /\ \A u \in Thread : active[u] = 0
  /\ gate' = NoThread
  /\ Done(t)
  /\ UNCHANGED <<owner, depth, batch, active, reading, frames>>

\* the batch transaction begins; t's read transaction is given up for it
BatchBegin(t) ==
  /\ Next_op(t, "begin")
  /\ gate = NoThread
  /\ batch' = t
  /\ active' = [active EXCEPT ![t] = @ + 1]
  /\ reading' = [reading EXCEPT ![t] = FALSE]
  /\ Done(t)
  /\ UNCHANGED <<owner, depth, gate, frames>>

BatchStop(t) ==
  LET began == Head(frames[t])
  IN  /\ Next_op(t, "batch_stop")
      /\ batch' = IF began THEN NoThread ELSE batch
      /\ active' = [active EXCEPT ![t] = @ - (IF began THEN 1 ELSE 0)]
      /\ Pop(t)
      /\ Done(t)
      /\ UNCHANGED <<owner, depth, gate, reading>>

WriteInBatch(t) ==
  /\ Next_op(t, "write")
  /\ Done(t)
  /\ UNCHANGED <<owner, depth, batch, gate, active, reading, frames>>

\* prune_worker has a write transaction of its own: LMDB makes it wait for a batch
Prune(t) ==
  /\ Next_op(t, "prune")
  /\ gate = NoThread
  /\ batch = NoThread
  /\ Done(t)
  /\ UNCHANGED <<owner, depth, batch, gate, active, reading, frames>>

Run(t) ==
  \/ TakeLock(t) \/ GiveLock(t)
  \/ ReadStart(t) \/ ReadStop(t)
  \/ \E need_resize \in BOOLEAN : BatchStart(t, need_resize)
  \/ CloseGate(t) \/ ResizeMap(t)
  \/ BatchBegin(t) \/ BatchStop(t)
  \/ WriteInBatch(t) \/ Prune(t)

Next == \E t \in Thread : Begin(t) \/ Run(t)

\* a thread that can go on does
Spec == Init /\ [][Next]_vars /\ \A t \in Thread : WF_vars(Run(t))

------------------------------------------------------------------------------
(* Properties *)

\* "Something which takes the blockchain lock may never take the txpool lock if it
\* has not provably taken the txpool lock earlier": no call takes a lock when it
\* holds only locks that come after it (prepare_handle_incoming_blocks).
After == (incoming :> {pool, chain, difficulty}) @@ (pool :> {chain, difficulty})
           @@ (chain :> {difficulty}) @@ (difficulty :> {})

LockOrder ==
  \A t \in Thread : Next_op(t, "lock") =>
    LET l == Head(code[t]).on
    IN  owner[l] # t => \A m \in After[l] : owner[m] # t

\* Every write is made in a batch of its own thread (block_wtxn_start throws if the
\* batch is another thread's), and pruning finds no batch open.
WritesAreOwn ==
  \A t \in Thread :
    /\ Next_op(t, "write") => batch = t
    /\ Next_op(t, "prune") => batch = NoThread

\* A batch begins when there is none and nobody else is about to begin one, the map
\* being resized for it or not (batch_start throws "m_write_txn already in use").
Opening(t) == \E op \in {"close_gate", "resize", "begin"} : Next_op(t, op)

BatchStartsAlone ==
  \A t, u \in Thread : Opening(t) /\ t # u => ~Opening(u) /\ batch # u

\* None of the exceptions that a mix-up of batches between threads would raise is
\* ever thrown.
BatchesAreApart == WritesAreOwn /\ BatchStartsAlone

\* Every call returns: no set of threads waits for each other's locks, transactions
\* and gate for ever, and no thread tries for ever to start a batch.
EveryCallReturns == \A t \in Thread : []<>(code[t] = << >>)
==================================================================================
