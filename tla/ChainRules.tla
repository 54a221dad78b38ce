------------------------------- MODULE ChainRules -------------------------------
(***************************************************************************)
(* What the chain's caches promise: every block is judged by the version   *)
(* and the difficulty that its chain alone determines, as if both were     *)
(* computed from the genesis block each time.                              *)
(***************************************************************************)
EXTENDS DifficultyCache

CONSTANTS
  parent,    \* parent[b]: the block before b
  work_ok,   \* work_ok[b]: b's work meets the difficulty of the chain up to its parent
  base       \* blocks that stay: the chain is never cut below them

VARIABLES
  chain,      \* the chain the blocks are added to
  committed,  \* the chain as last committed
  trusted     \* no batch has been aborted since the node started

Valid(b, c) ==
  /\ parent[b] = c[Len(c)]
  /\ major_version[b] = get_ideal_version(Len(c))
  /\ minor_version[b] >= get_ideal_version(Len(c))
  /\ work_ok[b]

Init ==
  /\ chain = base
  /\ committed = base
  /\ trusted = TRUE

Add(b) ==
  /\ trusted => Valid(b, chain)
  /\ chain' = Append(chain, b)
  /\ UNCHANGED <<committed, trusted>>

Pop ==
  /\ Len(chain) > Len(base)
  /\ chain' = SubSeq(chain, 1, Len(chain) - 1)
  /\ UNCHANGED <<committed, trusted>>

Commit ==
  /\ committed' = chain
  /\ UNCHANGED <<chain, trusted>>

\* a batch is aborted
Abort ==
  /\ chain' = committed
  /\ trusted' = FALSE
  /\ UNCHANGED committed

\* a crash or a stop: the node trusts what it finds if it is sound
Restart ==
  /\ \E k \in 1..Len(committed) : committed' = SubSeq(committed, 1, k)
  /\ chain' = committed'
  /\ trusted' \in BOOLEAN
  /\ trusted => trusted' /\ committed' = committed

Next ==
  \/ \E b \in Block : Add(b)
  \/ Pop \/ Commit \/ Abort \/ Restart

Spec == Init /\ [][Next]_<<chain, committed, trusted>>
==================================================================================
