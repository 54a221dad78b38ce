-------------------------------- MODULE HardFork --------------------------------
(***************************************************************************)
(* The rules in force (HardFork, src/cryptonote_basic/hardfork.cpp).       *)
(*                                                                         *)
(* hf is the object in memory: hf.versions the window of votes, hf.index   *)
(* the current fork.  last_versions counts the votes of the window, so it  *)
(* is computed from it.  The database is a record whose fields chain (the  *)
(* blocks by height, genesis first) and hf_versions (the version in force  *)
(* by height) are sequences: height h is position h + 1.  pop_block leaves *)
(* hf_versions as it is, so that it may be longer than the chain.          *)
(***************************************************************************)
EXTENDS Integers, Sequences, FiniteSets, FiniteSetsExt

CONSTANTS
  Block,          \* block ids
  major_version,  \* major_version[b]: the version the block b obeys
  minor_version,  \* minor_version[b]: the version the block b votes for
  heights,        \* the forks: a sequence of [version, height, threshold]
  window_size     \* blocks considered in voting

Version == Nat

ASSUME HardForkAssumption ==
  /\ major_version \in [Block -> Version]
  /\ minor_version \in [Block -> Version]
  /\ heights \in Seq([version : Version, height : Nat, threshold : 0..100])
  /\ Len(heights) > 0
  /\ \A m, n \in DOMAIN heights : m < n =>
       heights[m].version < heights[n].version /\ heights[m].height < heights[n].height
  /\ window_size \in Nat \ {0}

\* m_hardfork is a record: versions, the votes of the window, and index, the fork in force

ChainHeight(db) == Len(db.chain)
Top(db) == db.chain[Len(db.chain)]

get_current_version(hf) == heights[hf.index].version

get_effective_version(voting_version) ==
  LET max_version == heights[Len(heights)].version
  IN  IF voting_version > max_version THEN max_version ELSE voting_version

get_ideal_version(height) ==
  heights[Max({1} \cup {n \in DOMAIN heights : height >= heights[n].height})].version

------------------------------------------------------------------------------

\* the votes for fork n or a later one, and how many it needs
Votes(hf, n) ==
  Cardinality({i \in DOMAIN hf.versions :
    \E m \in n..Len(heights) : hf.versions[i] = heights[m].version})
Threshold(n) == (window_size * heights[n].threshold + 99) \div 100

get_voted_fork_index(hf, height) ==
  LET voted == {n \in DOMAIN heights :
                  height >= heights[n].height /\ Votes(hf, n) >= Threshold(n)}
  IN  IF voted = {} THEN hf.index ELSE Max(voted)

\* a fork is entered when it is voted, and not left
RaiseIndex(hf, height) ==
  LET voted == get_voted_fork_index(hf, height)
  IN  IF voted > hf.index THEN [hf EXCEPT !.index = voted] ELSE hf

do_check(b, n) ==
  /\ major_version[b] = heights[n].version
  /\ minor_version[b] >= heights[n].version

check(hf, b) == do_check(b, hf.index)
check_for_height(hf, b, height) == do_check(b, get_voted_fork_index(hf, height))

\* the window as a push to its end leaves it
PushVote(versions, v) ==
  LET drop == IF Len(versions) >= window_size THEN Len(versions) - window_size + 1 ELSE 0
  IN  Append(SubSeq(versions, drop + 1, Len(versions)), v)

\* mutant: looks up the fork of the block's own height
Bug_add_own_height(hf, b, height) ==
  RaiseIndex([hf EXCEPT !.versions =
                PushVote(hf.versions, get_effective_version(minor_version[b]))], height)

\* HardFork::add in memory, once its check has passed
add(hf, b, height) ==
  RaiseIndex([hf EXCEPT !.versions =
                PushVote(hf.versions, get_effective_version(minor_version[b]))], height + 1)

\* and what it writes: the version in force at that height
set_hard_fork_version(hf, hf_versions, height) ==
  IF height < Len(hf_versions) THEN [hf_versions EXCEPT ![height + 1] = get_current_version(hf)]
                               ELSE Append(hf_versions, get_current_version(hf))

\* one block has left db.chain
on_block_popped(hf, db) ==
  [versions |-> <<db.hf_versions[Len(db.chain) + 1]>>
                  \o SubSeq(hf.versions, 1, Len(hf.versions) - 1),
   index    |-> Max({1} \cup {n \in DOMAIN heights : ChainHeight(db) >= heights[n].height})]

\* the votes of the blocks of heights first..last
ChainVotes(db, first, last) ==
  [i \in 1..(last - first + 1) |-> get_effective_version(minor_version[db.chain[first + i]])]

\* mutant: does not go back to the version of that height
Bug_reorganize_from_block_height_keep(hf, db, height) ==
  LET rescan == IF height >= window_size - 1 THEN height - (window_size - 1) ELSE 0
  IN  RaiseIndex([hf EXCEPT !.versions = ChainVotes(db, rescan, height)], height + 1)

\* reorganize_from_block_height before it adds the blocks above `height` again
reorganize_from_block_height(hf, db, height) ==
  LET rescan        == IF height >= window_size - 1 THEN height - (window_size - 1) ELSE 0
      start_version == IF height = 0 THEN heights[1].version ELSE db.hf_versions[height + 1]
      kept          == {n \in 1..hf.index : heights[n].version <= start_version}
  IN  RaiseIndex([versions |-> ChainVotes(db, rescan, height),
                  index    |-> Max({1} \cup kept)], height + 1)

\* init, from the database alone
init(db) ==
  LET height == ChainHeight(db)
      first  == IF height > window_size THEN height - window_size ELSE 0
      lastv  == db.hf_versions[height]
      same   == {n \in DOMAIN heights : heights[n].version = lastv}
  IN  RaiseIndex([versions |-> ChainVotes(db, first, height - 1),
                  index    |-> Min({Len(heights)} \cup same)], height)
==================================================================================
