-------------------------- MODULE DiskSpace_proofs --------------------------
(***************************************************************************)
(* Proofs about DiskSpace, for any number of clients, pools and blocks.    *)
(***************************************************************************)
EXTENDS DiskSpace, TLAPS

USE DiskSpaceConstants

-----------------------------------------------------------------------------
(* The inductive invariant *)

\* Who is in bpools_sem and in commit_sem, and what he does there.
SemInv ==
    /\ committer # NoClient => stage[committer] \in {"write", "flush"}
    /\ \A c \in Clients : stage[c] \in {"write", "flush"} => committer = c
    /\ at # "out" => stage[owner] = IF op = "extflush" THEN "flush" ELSE "work"
    /\ \A c \in Clients : stage[c] = "flush" => owner = c /\ op = "extflush"
    /\ at = "out" <=> op = "none"
    /\ op = "extflush" => at = "flush"
    /\ at \in {"out"} \/ op = "extflush" => ~taken_from_pool
    /\ at \in {"fill", "grow"} \/ op = "get_big_block" => taken_from_pool
    /\ at = "take" => op \in {"get_block", "expand"}

\* The places a block may be in have no block in common, ...
PlacesApart ==
    /\ fil_free \cap (free_blocks \cup pre_free_blocks \cup refs \cup lost) = {}
    /\ free_blocks \cap (pre_free_blocks \cup refs \cup lost) = {}
    /\ pre_free_blocks \cap (refs \cup lost) = {}
    /\ refs \cap lost = {}
\* ... nor have they with the blocks of the transactions, except that a block
\* to be freed is referenced until commit writes the page.
ItemsApart ==
    \A c \in Clients :
        /\ alloc[c] \cap (fil_free \cup free_blocks \cup pre_free_blocks \cup refs \cup lost) = {}
        /\ freed[c] \cap (fil_free \cup free_blocks \cup pre_free_blocks \cup lost) = {}
ClientsApart ==
    \A c, d \in Clients : c # d => /\ alloc[c] \cap alloc[d] = {}
                                   /\ freed[c] \cap (freed[d] \cup alloc[d]) = {}

\* No block is forgotten, and no block is made up.
Covered ==
    \A b \in Existing :
        \/ b \in fil_free \cup free_blocks \cup pre_free_blocks \cup refs \cup lost
        \/ \E c \in Clients : b \in alloc[c] \cup freed[c]
OnlyExisting ==
    /\ fil_free \cup free_dirty \cup refs \cup refs_dirty \subseteq Existing
    /\ free_blocks \cup pre_free_blocks \cup lost \subseteq Existing
    /\ \A c \in Clients : alloc[c] \cup freed[c] \subseteq Existing

\* The items of the logs fit the state of the blocks.
ItemsInv ==
    \A c \in Clients :
        /\ stage[c] = "work" => freed[c] \subseteq refs \cup alloc[c]
        /\ stage[c] = "write" => unwritten = (alloc[c] \ freed[c]) \cup (freed[c] \cap refs)
        /\ stage[c] \in {"flush", "allocs"} => alloc[c] \subseteq freed[c] /\ freed[c] \cap refs = {}
        /\ sapo[c].on /\ stage[c] = "work" => sapo[c].freed \subseteq refs \cup sapo[c].alloc

\* What a failure of the computer may find on the disc.
DiscInv ==
    /\ ~ExpandUnflushed => MayBeFree \cap MayBeReferenced = {}
    /\ free_blocks \cap MayBeReferenced = {}
    /\ ~taken_from_pool => free_blocks \cap free_dirty = {}
    /\ \A c \in Clients : alloc[c] \cap MayBeReferenced = {}
    /\ \A c \in Clients : alloc[c] \cap free_dirty # {} =>
                            owner = c /\ at = "flush" /\ op # "extflush"

Counted == PlacesApart /\ ItemsApart /\ ClientsApart /\ Covered /\ OnlyExisting /\ ItemsInv
Protected == FlushPeriod /\ ~flush_left_out

Inv == /\ TypeOK /\ SemInv /\ SavepointItemsKept
       /\ ~damaged => Counted
       /\ ~damaged /\ Protected => DiscInv

-----------------------------------------------------------------------------
(* Types *)

\* The blocks of a lower pool end before the blocks of a higher one begin.
LEMMA PoolArithmetic ==
    ASSUME NEW m \in Nat, NEW n \in Nat, m < n
    PROVE  (m + 1) * PoolSize <= n * PoolSize
<1>1. PICK k \in Nat : n = m + 1 + k
  BY n - m - 1 \in Nat, n = m + 1 + (n - m - 1)
<1>2. n * PoolSize = (m + 1) * PoolSize + k * PoolSize
  BY <1>1
<1>3. k * PoolSize >= 0
  OBVIOUS
<1>4. (m + 1) * PoolSize \in Nat /\ k * PoolSize \in Nat
  OBVIOUS
<1> QED BY <1>2, <1>3, <1>4

\* The blocks of a pool are blocks of the file.
LEMMA PoolInFile ==
    ASSUME NEW pool \in Nat, pool < MaxPools
    PROVE  FullPool(pool) \subseteq Blocks
<1>1. (pool + 1) * PoolSize <= MaxPools * PoolSize
  BY PoolArithmetic
<1>2. pool * PoolSize \in Nat /\ (pool + 1) * PoolSize \in Nat /\ MaxPools * PoolSize \in Nat
  OBVIOUS
<1> QED BY <1>1, <1>2 DEF FullPool, Blocks

\* A new pool has no block of the pools there are.
LEMMA PoolsApart ==
    ASSUME TypeOK
    PROVE  FullPool(bpool_count) \cap Existing = {}
<1>1. SUFFICES ASSUME NEW pool \in 0 .. bpool_count - 1, NEW b \in FullPool(pool)
               PROVE  b \notin FullPool(bpool_count)
  BY DEF Existing
<1>2. bpool_count \in Nat /\ pool \in Nat /\ pool < bpool_count
  BY DEF TypeOK
<1>3. (pool + 1) * PoolSize <= bpool_count * PoolSize
  BY <1>2, PoolArithmetic
<1>4. pool * PoolSize \in Nat /\ (pool + 1) * PoolSize \in Nat
      /\ bpool_count * PoolSize \in Nat /\ (bpool_count + 1) * PoolSize \in Nat
  BY <1>2
<1> QED BY <1>2, <1>3, <1>4 DEF FullPool

\* add_new_pool makes the file longer by exactly the blocks of the new pool.
LEMMA ExistingGrows ==
    ASSUME TypeOK, bpool_count' = bpool_count + 1
    PROVE  Existing' = Existing \cup FullPool(bpool_count)
<1>1. bpool_count \in Nat BY DEF TypeOK
<1>2. 0 .. bpool_count' - 1 = (0 .. bpool_count - 1) \cup {bpool_count}
  BY <1>1
<1>3. \A pool : FullPool(pool)' = FullPool(pool)
  BY DEF FullPool
<1> QED BY <1>2 DEF Existing, FullPool

\* The blocks of the file depend on the number of pools only.
LEMMA ExistingKept ==
    ASSUME bpool_count' = bpool_count
    PROVE  Existing' = Existing
  BY DEF Existing, FullPool

\* search_pool goes on to a pool that is in the file, round the end too.
LEMMA PoolNumber ==
    ASSUME TypeOK
    PROVE  FollowingPool \in 0 .. bpool_count - 1
<1>1. bpool_count \in Nat \ {0} /\ next_pool + 1 \in Nat
  BY DEF TypeOK
<1> QED BY <1>1 DEF FollowingPool

\* The state after the first start has the types.
LEMMA TypeInit == Init => TypeOK
<1>1. FullPool(0) \subseteq Blocks
  BY PoolInFile
<1>2. NoSapo \in Items
  BY DEF Items, NoSapo
<1>3. Init => sapo \in [Clients -> Items]
  BY <1>2 DEF Init
<1>4. Init => /\ taken_from_pool \in BOOLEAN /\ flush_left_out \in BOOLEAN
              /\ damaged \in BOOLEAN /\ backup \in BOOLEAN
  BY DEF Init
<1> QED BY <1>1, <1>3, <1>4 DEF Init, TypeOK

\* What the operations inside bpools_sem do with the pools and lists.
LEMMA TypeInSemaphore ==
    ASSUME TypeOK,
           \/ search_pool \/ search_pool_error \/ add_new_pool \/ no_new_pool
           \/ search_big_block \/ search_big_block_error
           \/ get_block \/ expand_table_blocks \/ expand_err2 \/ expand_err1
           \/ \E pool \in Pools : save_to_pool(pool)
           \/ flush_and_time
    PROVE  TypeOK'
<1>0. \A bits \in read_bpool(next_pool) : bits \subseteq Blocks
  <2>1. FullPool(next_pool) \subseteq Blocks
    BY PoolInFile DEF TypeOK
  <2> QED BY <2>1 DEF read_bpool, InPool, TypeOK
<1>1. CASE search_pool
  <2>1. next_pool' \in 0 .. bpool_count' - 1 /\ cyc' \in Nat /\ at' \in {"take", "grow", "fill"}
    BY <1>1, PoolNumber DEF search_pool, NextPool, TypeOK
  <2>2. PICK bits \in read_bpool(next_pool), S \in SUBSET Blocks :
             free_blocks' = free_blocks \cup S /\ take_bits(bits, S)
    BY <1>0, <1>1 DEF search_pool, Found, Lowest
  <2>3. free_blocks' \subseteq Blocks /\ fil_free' \subseteq Blocks /\ free_dirty' \subseteq Blocks
    BY <1>0, <2>2 DEF take_bits, TypeOK
  <2>4. damaged' \in BOOLEAN
    BY <2>2 DEF take_bits
  <2> QED BY <1>1, <2>1, <2>3, <2>4 DEF search_pool, TypeOK, modeVars, itemVars, commitVars
<1>11. CASE search_pool_error
  <2>1. free_blocks' \subseteq Blocks
    BY <1>0, <1>11 DEF search_pool_error, Found, Lowest, TypeOK
  <2>2. taken_from_pool' \in BOOLEAN /\ damaged' \in BOOLEAN /\ flush_left_out' \in BOOLEAN
    BY <1>11 DEF search_pool_error, Leave
  <2> QED BY <1>11, <2>1, <2>2 DEF search_pool_error, Leave, TypeOK, fileVars, modeVars, itemVars,
                                   commitVars
<1>2. CASE add_new_pool
  <2>1. FullPool(bpool_count) \subseteq Blocks
    BY <1>2, PoolInFile DEF add_new_pool, TypeOK
  <2> QED BY <1>2, <2>1 DEF add_new_pool, set_bits, TypeOK, modeVars, itemVars, commitVars, histVars
<1>3. CASE no_new_pool
  BY <1>3 DEF no_new_pool, Leave, TypeOK, fileVars, listVars, modeVars, itemVars, commitVars
<1>4. CASE search_big_block
  <2>1. next_pool' \in 0 .. bpool_count' - 1 /\ cyc' \in Nat /\ at' \in {"flush", "grow", "fill"}
    BY <1>4, PoolNumber DEF search_big_block, NextPool, TypeOK
  <2>2. /\ fil_free' \subseteq Blocks /\ free_dirty' \subseteq Blocks /\ lost' \subseteq Blocks
        /\ alloc' \in [Clients -> SUBSET Blocks] /\ damaged' \in BOOLEAN
    <3>1. CASE UNCHANGED <<fil_free, free_dirty, damaged, alloc, lost>>
      BY <3>1 DEF TypeOK
    <3>2. ASSUME NEW bits \in read_bpool(next_pool), NEW S \in SUBSET bits, take_bits(bits, S),
                 \/ alloc' = [alloc EXCEPT ![owner] = @ \cup S] /\ UNCHANGED lost
                 \/ lost' = lost \cup S /\ UNCHANGED alloc
          PROVE  /\ fil_free' \subseteq Blocks /\ free_dirty' \subseteq Blocks
                 /\ lost' \subseteq Blocks
                 /\ alloc' \in [Clients -> SUBSET Blocks] /\ damaged' \in BOOLEAN
      <4>1. bits \subseteq Blocks /\ S \subseteq Blocks
        BY <1>0
      <4>2. damaged' \in BOOLEAN
        BY <3>2 DEF take_bits
      <4>3. lost' \subseteq Blocks /\ alloc' \in [Clients -> SUBSET Blocks]
        BY <3>2, <4>1 DEF TypeOK
      <4> QED BY <3>2, <4>1, <4>2, <4>3 DEF take_bits, TypeOK
    <3>3. \A bits : \A start \in FreeBigBlocks(bits) : BigBlock(start) \in SUBSET bits
      BY DEF FreeBigBlocks
    <3> QED BY <1>4, <3>1, <3>2, <3>3 DEF search_big_block
  <2> QED BY <1>4, <2>1, <2>2
        DEF search_big_block, TypeOK, modeVars, commitVars
<1>12. CASE search_big_block_error
  <2>1. taken_from_pool' \in BOOLEAN /\ flush_left_out' \in BOOLEAN
    BY <1>12 DEF search_big_block_error, Leave
  <2> QED BY <1>12, <2>1 DEF search_big_block_error, Leave, TypeOK, fileVars, listVars, modeVars,
                             itemVars, commitVars
<1>5. CASE get_block
  <2>1. CASE taken_from_pool
    BY <1>5, <2>1 DEF get_block, unlock_allocation, TypeOK, fileVars, commitVars, histVars
  <2>2. CASE ~taken_from_pool
    <3>1. taken_from_pool' \in BOOLEAN
      BY <1>5, <2>2 DEF get_block, unlock_allocation, Leave
    <3> QED
    BY <1>5, <2>2, <3>1 DEF get_block, unlock_allocation, Leave, TypeOK, fileVars, commitVars, histVars
  <2> QED BY <2>1, <2>2
<1>6. CASE expand_table_blocks
  BY <1>6 DEF expand_table_blocks, unlock_allocation, Leave, TypeOK, itemVars, commitVars, histVars
<1>7. CASE expand_err2
  <2>1. CASE taken_from_pool
    BY <1>7, <2>1 DEF expand_err2, unlock_allocation, TypeOK, fileVars, itemVars, commitVars
  <2>2. CASE ~taken_from_pool
    <3>1. taken_from_pool' \in BOOLEAN
      BY <1>7, <2>2 DEF expand_err2, unlock_allocation, Leave
    <3> QED
    BY <1>7, <2>2, <3>1 DEF expand_err2, unlock_allocation, Leave, TypeOK, fileVars, itemVars, commitVars
  <2> QED BY <2>1, <2>2
<1>8. CASE expand_err1
  BY <1>8 DEF expand_err1, Leave, TypeOK, fileVars, itemVars, commitVars
<1>9. ASSUME NEW pool \in Pools, save_to_pool(pool)
      PROVE  TypeOK'
  <2>1. next_pool' \in 0 .. bpool_count' - 1
    BY <1>9 DEF save_to_pool, Smaller, Pools, TypeOK
  <2>2. /\ free_blocks' \subseteq Blocks /\ fil_free' \subseteq Blocks
        /\ free_dirty' \subseteq Blocks /\ lost' \subseteq Blocks
    BY <1>9 DEF save_to_pool, InPool, set_bits, TypeOK
  <2> QED BY <1>9, <2>1, <2>2 DEF save_to_pool, TypeOK, modeVars, semVars, itemVars, commitVars
<1>10. CASE flush_and_time
  <2>1. /\ free_dirty' \subseteq Blocks /\ refs_dirty' \subseteq Blocks
        /\ flush_left_out' \in BOOLEAN
    BY <1>10 DEF flush_and_time, flush, no_flush, FlushFileBuffers, TypeOK
  <2>2. taken_from_pool' \in BOOLEAN
    BY <1>10 DEF flush_and_time, Leave
  <2> QED BY <1>10, <2>1, <2>2 DEF flush_and_time, deallocation_move, Leave, TypeOK, modeVars,
                                   itemVars
<1> QED BY <1>1, <1>2, <1>3, <1>4, <1>5, <1>6, <1>7, <1>8, <1>9, <1>10, <1>11, <1>12

\* Operations of a client outside bpools_sem keep the types.
LEMMA TypeOfClient ==
    ASSUME TypeOK, NEW c \in Clients,
           \/ lock_and_alloc(c, "get_block", 1) \/ get_locked_block(c) \/ get_big_block(c)
           \/ \E n \in 1 .. MaxExpand : lock_and_alloc(c, "expand", n)
           \/ disable_flush(c) \/ enable_flush(c)
           \/ \E block \in Blocks : free_block(c, block)
           \/ create_savepoint(c) \/ rollback_to_savepoint(c) \/ destroy_savepoint(c)
           \/ roll_back(c) \/ commit(c)
           \/ no_extflush(c) \/ extflush(c) \/ commit_allocs(c)
    PROVE  TypeOK'
<1>1. ASSUME NEW n \in Nat, NEW o \in {"get_block", "expand"}, lock_and_alloc(c, o, n)
      PROVE  TypeOK'
  <2>1. Max(n, BLOCK_FILL_LIMIT) \in Nat
    BY DEF Max
  <2>2. taken_from_pool' \in BOOLEAN
    BY <1>1 DEF lock_and_alloc
  <2> QED BY <1>1, <2>1, <2>2 DEF lock_and_alloc, Enters, Requests, TypeOK, fileVars, listVars,
                            modeVars, itemVars, commitVars
<1>2. CASE get_locked_block(c)
  BY <1>2 DEF get_locked_block, Requests, TypeOK, fileVars, modeVars, semVars, commitVars
<1>3. CASE get_big_block(c)
  BY <1>3 DEF get_big_block, Requests, TypeOK, fileVars, listVars, modeVars, itemVars, commitVars
<1>4. CASE disable_flush(c) \/ enable_flush(c)
  BY <1>4 DEF disable_flush, enable_flush, Requests, TypeOK, fileVars, listVars, semVars, itemVars,
              commitVars, histVars
<1>5. ASSUME NEW block \in Blocks, free_block(c, block)
      PROVE  TypeOK'
  <2>1. CASE DropsAlloc(c, block)
    BY <1>5, <2>1 DEF free_block, release_block_safe, release_block_direct, Requests, TypeOK,
                      fileVars, modeVars, semVars, commitVars
  <2>2. CASE ~DropsAlloc(c, block)
    BY <1>5, <2>2 DEF free_block, Requests, TypeOK, fileVars, modeVars, semVars, commitVars
  <2> QED BY <2>1, <2>2
<1>6. CASE create_savepoint(c)
  <2>1. [on |-> TRUE, alloc |-> alloc[c], freed |-> freed[c]] \in Items
    BY DEF TypeOK, Items
  <2> QED BY <1>6, <2>1 DEF create_savepoint, Requests, TypeOK, fileVars, listVars, modeVars,
                            semVars, commitVars
<1>7. CASE rollback_to_savepoint(c)
  BY <1>7 DEF rollback_to_savepoint, release_block_direct, Requests, TypeOK, fileVars, modeVars,
              semVars, commitVars
<1>8. NoSapo \in Items
  BY DEF Items, NoSapo
<1>9. CASE destroy_savepoint(c)
  BY <1>8, <1>9 DEF destroy_savepoint, TypeOK, fileVars, listVars, modeVars, semVars, commitVars,
                    histVars
<1>10. CASE roll_back(c)
  BY <1>8, <1>10 DEF roll_back, release_block_direct, Requests, TypeOK, fileVars, modeVars,
                     semVars, commitVars
<1>11. CASE commit(c)
  BY <1>11 DEF commit, Requests, TypeOK, fileVars, listVars, modeVars, semVars, itemVars
<1>12. CASE no_extflush(c) \/ extflush(c)
  BY <1>12 DEF no_extflush, extflush, Enters, TypeOK, fileVars, listVars, modeVars, semVars,
               itemVars, histVars
<1>13. CASE commit_allocs(c)
  BY <1>8, <1>13 DEF commit_allocs, release_block_safe, release_block_direct, TypeOK, fileVars,
                     modeVars, semVars, histVars
<1> QED BY <1>1, <1>2, <1>3, <1>4, <1>5, <1>6, <1>7, <1>9, <1>10, <1>11, <1>12, <1>13

\* Every step keeps the types.
LEMMA TypeNext ==
    ASSUME TypeOK, [Next]_vars
    PROVE  TypeOK'
<1>1. CASE finish \/ UNCHANGED vars
  BY <1>1 DEF finish, vars, TypeOK, fileVars, listVars, modeVars, semVars, itemVars, commitVars,
              histVars
<1>2. ASSUME NEW block \in Blocks, write_reference(block)
      PROVE  TypeOK'
  BY <1>2 DEF write_reference, TypeOK, listVars, modeVars, semVars, histVars
<1>3. NoSapo \in Items
  BY DEF Items, NoSapo
<1>4. CASE close_block_cache
  <2>1. /\ taken_from_pool' \in BOOLEAN /\ backup' \in BOOLEAN /\ flush_left_out' \in BOOLEAN
        /\ sapo' \in [Clients -> Items]
    BY <1>3, <1>4 DEF close_block_cache, EmptyMemory, Leave, FlushFileBuffers
  <2>2. fil_free' \subseteq Blocks /\ lost' \subseteq Blocks
    BY <1>4 DEF close_block_cache, Forgotten, deallocation_move, TypeOK
  <2> QED
  BY <1>4, <2>1, <2>2 DEF close_block_cache, FlushFileBuffers, EmptyMemory, Leave, TypeOK
<1>6. CASE do_backup2 \/ synchronize
  <2>1. backup' \in BOOLEAN /\ flush_left_out' \in BOOLEAN
    BY <1>6 DEF do_backup2, synchronize, FlushFileBuffers, TypeOK
  <2> QED BY <1>6, <2>1 DEF do_backup2, synchronize, FlushFileBuffers, Requests, TypeOK, fileVars,
                            listVars, semVars, itemVars, commitVars
<1>5. CASE crash
  <2>1. /\ fil_free' \subseteq Blocks /\ refs' \subseteq Blocks
        /\ Existing \subseteq Blocks
    <3>1. ASSUME NEW pool \in 0 .. bpool_count - 1
          PROVE  FullPool(pool) \subseteq Blocks
      BY PoolInFile DEF TypeOK
    <3> QED BY <1>5, <3>1 DEF crash, Outcomes, Existing, TypeOK
  <2>2. /\ taken_from_pool' \in BOOLEAN /\ damaged' \in BOOLEAN /\ backup' \in BOOLEAN
        /\ sapo' \in [Clients -> Items]
    BY <1>3, <1>5 DEF crash, EmptyMemory, Leave
  <2> QED BY <1>5, <2>1, <2>2 DEF crash, EmptyMemory, Leave, TypeOK
<1> QED BY <1>1, <1>2, <1>4, <1>5, <1>6, TypeInSemaphore, TypeOfClient DEF Next

\* The variables keep their types: the next pool to be searched exists,
\* bpools_sem has an owner exactly when an operation is in it.
THEOREM TypeCorrect == Spec => []TypeOK
  BY TypeInit, TypeNext, PTL DEF Spec

-----------------------------------------------------------------------------
(* bpools_sem and savepoints *)

\* What the client inside bpools_sem is doing, and that the others are out of
\* it, stays consistent in every step.
LEMMA SemaphoreNext ==
    ASSUME TypeOK, SemInv, [Next]_vars
    PROVE  SemInv'
<1> USE DEF TypeOK, SemInv
<1>1. CASE finish \/ UNCHANGED vars
  BY <1>1 DEF finish, vars, semVars, commitVars
<1>2. ASSUME NEW c \in Clients, NEW n \in Nat, NEW o \in {"get_block", "expand"},
             lock_and_alloc(c, o, n)
      PROVE  SemInv'
  BY <1>2 DEF lock_and_alloc, Enters, commitVars
<1>3. ASSUME NEW c \in Clients, get_big_block(c)
      PROVE  SemInv'
  BY <1>3 DEF get_big_block, Enters, commitVars
<1>4. ASSUME NEW c \in Clients,
             \/ get_locked_block(c) \/ disable_flush(c) \/ enable_flush(c)
             \/ \E block \in Blocks : free_block(c, block)
             \/ create_savepoint(c) \/ rollback_to_savepoint(c) \/ destroy_savepoint(c)
             \/ roll_back(c)
      PROVE  SemInv'
  <2>1. UNCHANGED <<semVars, commitVars>>
    BY <1>4 DEF get_locked_block, disable_flush, enable_flush, free_block, create_savepoint,
                rollback_to_savepoint, destroy_savepoint, roll_back
  <2> QED BY <2>1 DEF semVars, commitVars
<1>5. ASSUME NEW c \in Clients, commit(c)
      PROVE  SemInv'
  BY <1>5 DEF commit, Working, semVars
<1>6. ASSUME NEW c \in Clients, no_extflush(c) \/ extflush(c)
      PROVE  SemInv'
  BY <1>6 DEF no_extflush, extflush, Enters, semVars
<1>7. ASSUME NEW c \in Clients, commit_allocs(c)
      PROVE  SemInv'
  BY <1>7 DEF commit_allocs, Enters, semVars
<1>8. CASE search_pool
  BY <1>8 DEF search_pool, NextPool, commitVars
<1>9. CASE add_new_pool \/ no_new_pool \/ search_pool_error \/ search_big_block_error
  BY <1>9 DEF add_new_pool, no_new_pool, search_pool_error, search_big_block_error, Leave,
              commitVars
<1>20. CASE do_backup2 \/ synchronize
  BY <1>20 DEF do_backup2, synchronize, semVars, commitVars
<1>10. CASE search_big_block
  BY <1>10 DEF search_big_block, NextPool, commitVars
<1>11. CASE get_block
  BY <1>11 DEF get_block, unlock_allocation, Leave, commitVars
<1>12. CASE expand_table_blocks
  BY <1>12 DEF expand_table_blocks, unlock_allocation, commitVars
<1>13. CASE expand_err2
  BY <1>13 DEF expand_err2, unlock_allocation, Leave, commitVars
<1>14. CASE expand_err1
  BY <1>14 DEF expand_err1, Leave, commitVars
<1>15. ASSUME NEW pool \in Pools, save_to_pool(pool)
       PROVE  SemInv'
  BY <1>15 DEF save_to_pool, semVars, commitVars
<1>16. CASE flush_and_time
  BY <1>16 DEF flush_and_time, Leave
<1>17. ASSUME NEW block \in Blocks, write_reference(block)
       PROVE  SemInv'
  BY <1>17 DEF write_reference, semVars
<1>18. CASE close_block_cache
  BY <1>18 DEF close_block_cache, EmptyMemory, Leave
<1>19. CASE crash
  BY <1>19 DEF crash, EmptyMemory, Leave
<1> QED BY <1>1, <1>2, <1>3, <1>4, <1>5, <1>6, <1>7, <1>8, <1>9, <1>10, <1>11, <1>12, <1>13,
           <1>14, <1>15, <1>16, <1>17, <1>18, <1>19, <1>20 DEF Next

\* No step takes from the log an item registered before the savepoint.
LEMMA SavepointsNext ==
    ASSUME TypeOK, SemInv, SavepointItemsKept, [Next]_vars
    PROVE  SavepointItemsKept'
<1> USE DEF TypeOK, SavepointItemsKept, NoSapo
<1>1. CASE UNCHANGED <<itemVars, stage>>
  BY <1>1 DEF itemVars
<1>2. ASSUME NEW c \in Clients, get_locked_block(c)
      PROVE  SavepointItemsKept'
  BY <1>2 DEF get_locked_block, commitVars
<1>3. ASSUME NEW c \in Clients, NEW block \in Blocks, free_block(c, block)
      PROVE  SavepointItemsKept'
  BY <1>3 DEF free_block, DropsAlloc, commitVars
<1>4. ASSUME NEW c \in Clients, create_savepoint(c)
      PROVE  SavepointItemsKept'
  BY <1>4 DEF create_savepoint, commitVars
<1>5. ASSUME NEW c \in Clients, rollback_to_savepoint(c)
      PROVE  SavepointItemsKept'
  BY <1>5 DEF rollback_to_savepoint, Working, commitVars
<1>6. ASSUME NEW c \in Clients, destroy_savepoint(c)
      PROVE  SavepointItemsKept'
  BY <1>6 DEF destroy_savepoint, commitVars
<1>7. ASSUME NEW c \in Clients, roll_back(c)
      PROVE  SavepointItemsKept'
  BY <1>7 DEF roll_back, commitVars
<1>8. ASSUME NEW c \in Clients, commit(c) \/ no_extflush(c) \/ extflush(c)
      PROVE  SavepointItemsKept'
  BY <1>8 DEF commit, no_extflush, extflush, itemVars
<1>9. ASSUME NEW c \in Clients, commit_allocs(c)
      PROVE  SavepointItemsKept'
  BY <1>9 DEF commit_allocs
<1>10. CASE get_block
  BY <1>10 DEF get_block, commitVars
<1>11. CASE search_big_block
  BY <1>11 DEF search_big_block, commitVars
<1>12. CASE flush_and_time
  <2>1. CASE op = "extflush"
    BY <1>12, <2>1 DEF flush_and_time, itemVars
  <2>2. CASE op # "extflush"
    BY <1>1, <1>12, <2>2 DEF flush_and_time
  <2> QED BY <2>1, <2>2
<1>13. ASSUME NEW block \in Blocks, write_reference(block)
       PROVE  SavepointItemsKept'
  BY <1>13 DEF write_reference
<1>14. CASE close_block_cache \/ crash
  BY <1>14 DEF close_block_cache, crash, EmptyMemory
<1>15. CASE \/ \E c \in Clients : \/ lock_and_alloc(c, "get_block", 1) \/ get_big_block(c)
                                  \/ \E n \in 1 .. MaxExpand : lock_and_alloc(c, "expand", n)
                                  \/ disable_flush(c) \/ enable_flush(c)
            \/ search_pool \/ search_pool_error \/ add_new_pool \/ no_new_pool
            \/ search_big_block_error \/ do_backup2 \/ synchronize
            \/ expand_table_blocks \/ expand_err2 \/ expand_err1
            \/ \E pool \in Pools : save_to_pool(pool)
            \/ finish \/ UNCHANGED vars
  <2>1. UNCHANGED <<itemVars, stage>>
    BY <1>15 DEF lock_and_alloc, get_big_block, disable_flush, enable_flush, search_pool,
                 search_pool_error, add_new_pool, no_new_pool, search_big_block_error, do_backup2,
                 synchronize, expand_table_blocks, expand_err2, expand_err1, save_to_pool, finish, vars, commitVars
  <2> QED BY <1>1, <2>1
<1> QED BY <1>2, <1>3, <1>4, <1>5, <1>6, <1>7, <1>8, <1>9, <1>10, <1>11, <1>12, <1>13,
           <1>14, <1>15 DEF Next

-----------------------------------------------------------------------------
(* The places of the blocks *)

\* Nothing that Counted speaks of is changed, but the stage of a client.
LEMMA CountedKept ==
    ASSUME Counted, UNCHANGED <<fileVars, free_blocks, pre_free_blocks, lost, itemVars, commitVars>>
    PROVE  Counted'
  BY ExistingKept DEF Counted, PlacesApart, ItemsApart, ClientsApart, Covered, OnlyExisting, ItemsInv,
       fileVars, itemVars, commitVars

\* The steps of commit before the freed blocks are returned move no block.
LEMMA CountedCommit ==
    ASSUME TypeOK, SemInv, Counted, NEW c \in Clients,
           commit(c) \/ no_extflush(c) \/ extflush(c)
    PROVE  Counted'
<1> USE DEF TypeOK, Counted
<1>1. UNCHANGED <<fileVars, free_blocks, pre_free_blocks, lost, itemVars>>
  BY DEF commit, no_extflush, extflush, listVars, histVars
<1>2. PlacesApart' /\ ItemsApart' /\ ClientsApart' /\ Covered' /\ OnlyExisting'
  BY <1>1, ExistingKept DEF PlacesApart, ItemsApart, ClientsApart, Covered, OnlyExisting, fileVars, itemVars
<1>3. ItemsInv'
  <2>1. CASE commit(c)
    BY <1>1, <2>1 DEF commit, Working, ItemsInv, ItemsApart, SemInv, fileVars, itemVars
  <2>2. CASE no_extflush(c) \/ extflush(c)
    BY <1>1, <2>2 DEF no_extflush, extflush, ItemsInv, ItemsApart, SemInv, fileVars, itemVars
  <2> QED BY <2>1, <2>2
<1> QED BY <1>2, <1>3

\* Blocks move between the pools and the lists, or become lost or referenced
\* out of a transaction.
LEMMA CountedMove ==
    ASSUME TypeOK, Counted, UNCHANGED <<bpool_count, itemVars, commitVars>>,
           PlacesApart',
           fil_free' \cup free_blocks' \cup pre_free_blocks' \cup refs' \cup lost'
              = fil_free \cup free_blocks \cup pre_free_blocks \cup refs \cup lost,
           refs \subseteq refs', free_dirty' \cup refs_dirty' \subseteq Existing
    PROVE  Counted'
<1> USE DEF Counted, itemVars, commitVars
<1>1. Existing' = Existing
  BY ExistingKept
<1>2. ItemsApart'
  BY DEF ItemsApart, PlacesApart
<1>3. ClientsApart' /\ Covered' /\ OnlyExisting'
  BY <1>1 DEF ClientsApart, Covered, OnlyExisting
<1>4. ItemsInv'
  BY DEF ItemsInv, ItemsApart
<1> QED BY <1>2, <1>3, <1>4

\* What save_to_pool does with the blocks of the list, its errors included.
LEMMA Saved ==
    ASSUME NEW pool \in Pools, save_to_pool(pool)
    PROVE  \E S \in SUBSET free_blocks, unread \in SUBSET fil_free :
             /\ free_blocks' = free_blocks \ S
             /\ \/ /\ fil_free' = fil_free \cup S /\ free_dirty' = free_dirty \cup S
                   /\ lost' = lost
                \/ /\ fil_free' = fil_free /\ free_dirty' = free_dirty
                   /\ lost' = lost \cup S
                \/ /\ fil_free' = (fil_free \ unread) \cup S
                   /\ free_dirty' = free_dirty \cup unread \cup S
                   /\ lost' = lost \cup (unread \ S)
<1>1. InPool(fil_free, pool) \in SUBSET fil_free
  BY DEF InPool
<1>2. \A S \in SUBSET InPool(free_blocks, pool) : S \in SUBSET free_blocks
  BY DEF InPool
<1> QED BY <1>1, <1>2 DEF save_to_pool, set_bits

\* If the pool was read, lock_and_alloc moves blocks that are free in it.
LEMMA Searched ==
    ASSUME search_pool, ~damaged'
    PROVE  \E S \in SUBSET fil_free : /\ free_blocks' = free_blocks \cup S
                                      /\ fil_free' = fil_free \ S
                                      /\ free_dirty' = free_dirty \cup S
<1>1. PICK bits : \E S \in Found(bits) : free_blocks' = free_blocks \cup S /\ take_bits(bits, S)
  BY DEF search_pool
<1>2. PICK S \in Found(bits) : free_blocks' = free_blocks \cup S /\ take_bits(bits, S)
  BY <1>1
<1>3. bits \subseteq fil_free /\ S \subseteq bits
  BY <1>2 DEF take_bits, Found, Lowest
<1> QED BY <1>2, <1>3 DEF take_bits

\* The same for get_big_block, whose blocks go to the log or are lost.
LEMMA SearchedBig ==
    ASSUME TypeOK, owner \in Clients, search_big_block, ~damaged'
    PROVE  \E S \in SUBSET fil_free :
              /\ fil_free' = fil_free \ S /\ free_dirty' = free_dirty \cup S
              /\ at' = "flush" \/ (S = {} /\ at' # "flush")
              /\ \A d \in Clients \ {owner} : alloc'[d] = alloc[d]
              /\ \/ alloc'[owner] = alloc[owner] \cup S /\ lost' = lost
                 \/ alloc' = alloc /\ lost' = lost \cup S
<1>1. CASE NextPool /\ UNCHANGED <<fil_free, free_dirty, alloc, lost>>
  <2>1. at' # "flush"
    BY <1>1 DEF NextPool
  <2>2. /\ fil_free \ {} = fil_free /\ free_dirty \cup {} = free_dirty /\ lost \cup {} = lost
        /\ {} \in SUBSET fil_free
    OBVIOUS
  <2> QED BY <1>1, <2>1, <2>2
<1>2. ASSUME NEW bits, NEW start \in FreeBigBlocks(bits), take_bits(bits, BigBlock(start)),
             \/ alloc' = [alloc EXCEPT ![owner] = @ \cup BigBlock(start)] /\ UNCHANGED lost
             \/ lost' = lost \cup BigBlock(start) /\ UNCHANGED alloc
      PROVE  /\ BigBlock(start) \in SUBSET fil_free
             /\ fil_free' = fil_free \ BigBlock(start)
             /\ free_dirty' = free_dirty \cup BigBlock(start)
             /\ \A d \in Clients \ {owner} : alloc'[d] = alloc[d]
             /\ \/ alloc'[owner] = alloc[owner] \cup BigBlock(start) /\ lost' = lost
                \/ alloc' = alloc /\ lost' = lost \cup BigBlock(start)
  <2>1. bits \subseteq fil_free /\ BigBlock(start) \subseteq bits
    BY <1>2 DEF take_bits, FreeBigBlocks
  <2>2. fil_free' = fil_free \ BigBlock(start) /\ free_dirty' = free_dirty \cup BigBlock(start)
    BY <1>2, <2>1 DEF take_bits
  <2>3. alloc \in [Clients -> SUBSET Blocks]
    BY DEF TypeOK
  <2> HIDE DEF BigBlock
  <2> QED BY <1>2, <2>1, <2>2, <2>3
<1> QED BY <1>1, <1>2 DEF search_big_block

\* Blocks moved inside bpools_sem between pools, lists and the client stay in
\* one place each, unless a pool is unreadable.
LEMMA CountedInSemaphore ==
    ASSUME TypeOK, SemInv, Counted, ~damaged',
           \/ search_pool \/ expand_table_blocks \/ expand_err2 \/ expand_err1
           \/ \E pool \in Pools : save_to_pool(pool)
    PROVE  Counted'
<1> USE DEF Counted
<1>1. CASE search_pool
  <2>1. PICK S \in SUBSET fil_free : /\ free_blocks' = free_blocks \cup S
                                     /\ fil_free' = fil_free \ S
                                     /\ free_dirty' = free_dirty \cup S
    BY <1>1, Searched
  <2>2. UNCHANGED <<bpool_count, itemVars, commitVars, pre_free_blocks, refs, refs_dirty, lost>>
    BY <1>1 DEF search_pool
  <2>3. PlacesApart'
    BY <2>1, <2>2 DEF PlacesApart
  <2> QED BY <2>1, <2>2, <2>3, CountedMove DEF PlacesApart, OnlyExisting
<1>2. CASE expand_table_blocks
  <2>1. PICK S \in SUBSET free_blocks : /\ free_blocks' = free_blocks \ S
                                        /\ refs' = refs \cup S
                                        /\ refs_dirty' = refs_dirty \cup S
    BY <1>2 DEF expand_table_blocks
  <2>2. UNCHANGED <<bpool_count, itemVars, commitVars, pre_free_blocks, fil_free, free_dirty, lost>>
    BY <1>2 DEF expand_table_blocks, histVars
  <2>3. PlacesApart'
    BY <2>1, <2>2 DEF PlacesApart
  <2> QED BY <2>1, <2>2, <2>3, CountedMove DEF PlacesApart, OnlyExisting
<1>3. CASE expand_err2 \/ expand_err1
  <2>1. PICK S \in SUBSET free_blocks : free_blocks' = free_blocks \ S /\ lost' = lost \cup S
    BY <1>3 DEF expand_err2, expand_err1
  <2>2. UNCHANGED <<fileVars, itemVars, commitVars, pre_free_blocks>>
    BY <1>3 DEF expand_err2, expand_err1
  <2>3. PlacesApart'
    BY <2>1, <2>2 DEF PlacesApart, fileVars
  <2> QED BY <2>1, <2>2, <2>3, CountedMove DEF PlacesApart, OnlyExisting, fileVars
<1>4. ASSUME NEW pool \in Pools, save_to_pool(pool)
      PROVE  Counted'
  <2>1. /\ PlacesApart'
        /\ fil_free' \cup free_blocks' \cup lost' = fil_free \cup free_blocks \cup lost
        /\ free_dirty' \subseteq Existing
    <3>1. PICK S \in SUBSET free_blocks, unread \in SUBSET fil_free :
             /\ free_blocks' = free_blocks \ S
             /\ \/ /\ fil_free' = fil_free \cup S /\ free_dirty' = free_dirty \cup S
                   /\ lost' = lost
                \/ /\ fil_free' = fil_free /\ free_dirty' = free_dirty
                   /\ lost' = lost \cup S
                \/ /\ fil_free' = (fil_free \ unread) \cup S
                   /\ free_dirty' = free_dirty \cup unread \cup S
                   /\ lost' = lost \cup (unread \ S)
      BY <1>4, Saved
    <3>2. UNCHANGED <<pre_free_blocks, refs>>
      BY <1>4 DEF save_to_pool
    <3>3. free_dirty' \subseteq Existing
      BY <3>1 DEF OnlyExisting
    <3>4. fil_free' \cup free_blocks' \cup lost' = fil_free \cup free_blocks \cup lost
      BY <3>1
    <3> QED BY <3>1, <3>2, <3>3, <3>4 DEF PlacesApart
  <2>2. UNCHANGED <<bpool_count, itemVars, commitVars, pre_free_blocks, refs, refs_dirty>>
    BY <1>4 DEF save_to_pool
  <2> QED BY <2>1, <2>2, CountedMove DEF OnlyExisting
<1> QED BY <1>1, <1>2, <1>3, <1>4

\* The blocks of a new pool were in no place before.
LEMMA CountedNewPool ==
    ASSUME TypeOK, Counted, add_new_pool
    PROVE  Counted'
<1> USE DEF Counted
<1>1. /\ fil_free' = fil_free \cup FullPool(bpool_count)
      /\ free_dirty' = free_dirty \cup FullPool(bpool_count)
      /\ UNCHANGED <<refs, refs_dirty, free_blocks, pre_free_blocks, lost, itemVars, commitVars>>
  BY DEF add_new_pool, set_bits, histVars
<1>2. Existing' = Existing \cup FullPool(bpool_count) /\ FullPool(bpool_count) \cap Existing = {}
  BY ExistingGrows, PoolsApart DEF add_new_pool
<1>3. PlacesApart' /\ ItemsApart'
  BY <1>1, <1>2 DEF PlacesApart, ItemsApart, OnlyExisting, itemVars
<1>4. ClientsApart' /\ Covered' /\ OnlyExisting' /\ ItemsInv'
  BY <1>1, <1>2 DEF ClientsApart, Covered, OnlyExisting, ItemsInv, itemVars, commitVars
<1> QED BY <1>3, <1>4

\* The flush changes no place but that of the predeallocated blocks.
LEMMA CountedFlush ==
    ASSUME TypeOK, SemInv, Counted, flush_and_time
    PROVE  Counted'
<1> USE DEF Counted
<1>1. /\ free_blocks' = free_blocks \cup pre_free_blocks /\ pre_free_blocks' = {}
      /\ free_dirty' \subseteq free_dirty /\ refs_dirty' \subseteq refs_dirty
      /\ UNCHANGED <<fil_free, refs, bpool_count, itemVars, unwritten, lost>>
  BY DEF flush_and_time, deallocation_move, flush, no_flush, FlushFileBuffers
<1>2. Existing' = Existing
  BY <1>1, ExistingKept
<1>3. PlacesApart' /\ ItemsApart' /\ ClientsApart' /\ Covered' /\ OnlyExisting'
  BY <1>1, <1>2 DEF PlacesApart, ItemsApart, ClientsApart, Covered, OnlyExisting, itemVars
<1>4. \A c \in Clients : \/ stage'[c] = stage[c]
                         \/ stage[c] = "flush" /\ stage'[c] = "allocs"
  BY DEF flush_and_time, SemInv, TypeOK
<1>5. ItemsInv'
  BY <1>1, <1>4 DEF ItemsInv, itemVars
<1> QED BY <1>3, <1>5

\* A client takes free blocks, or gives back blocks that it has allocated
\* and withdraws items; the references are not changed.
LEMMA CountedItems ==
    ASSUME TypeOK, TypeOK', Counted, NEW c \in Clients,
           UNCHANGED <<refs, refs_dirty, bpool_count, lost, unwritten, stage>>,
           PlacesApart',
           \A d \in Clients \ {c} : alloc'[d] = alloc[d] /\ freed'[d] = freed[d] /\ sapo'[d] = sapo[d],
           fil_free' \cup free_blocks' \cup pre_free_blocks' \cup alloc'[c]
              = fil_free \cup free_blocks \cup pre_free_blocks \cup alloc[c],
           alloc'[c] \cap (fil_free' \cup free_blocks' \cup pre_free_blocks') = {},
           free_dirty' \subseteq Existing,
           stage[c] = "work",
           freed'[c] \subseteq refs \cup alloc[c],
           freed'[c] \subseteq refs \cup alloc'[c],
           sapo'[c].on => sapo'[c].freed \subseteq refs \cup sapo'[c].alloc,
           \A d \in Clients \ {c} : freed'[c] \cap freed[d] = {}
    PROVE  Counted'
<1> USE DEF Counted
<1>1. Existing' = Existing
  BY ExistingKept
<1>2. ItemsApart'
  BY DEF ItemsApart, ClientsApart, PlacesApart
<1>3. ClientsApart'
  BY DEF ClientsApart, ItemsApart
<1>4. Covered' /\ OnlyExisting'
  BY <1>1 DEF Covered, OnlyExisting, ItemsInv
<1>5. ItemsInv'
  BY DEF ItemsInv
<1> QED BY <1>2, <1>3, <1>4, <1>5

\* A block handed out leaves free_blocks or its pool for the client's log.
LEMMA CountedAlloc ==
    ASSUME TypeOK, TypeOK', SemInv, Counted, ~damaged',
           \/ get_block \/ search_big_block
           \/ \E c \in Clients : get_locked_block(c)
    PROVE  Counted'
<1> USE DEF Counted
<1>1. CASE get_block
  <2>1. owner \in Clients /\ stage[owner] = "work"
    BY <1>1 DEF get_block, TypeOK, SemInv
  <2>2. PICK block \in free_blocks : /\ free_blocks' = free_blocks \ {block}
                                     /\ alloc' = [alloc EXCEPT ![owner] = @ \cup {block}]
    BY <1>1 DEF get_block
  <2>3. UNCHANGED <<fileVars, pre_free_blocks, lost, freed, sapo, commitVars>>
    BY <1>1 DEF get_block, histVars
  <2>4. alloc'[owner] = alloc[owner] \cup {block}
    BY <2>1, <2>2 DEF TypeOK
  <2>5. PlacesApart'
    BY <2>2, <2>3 DEF PlacesApart, fileVars
  <2>6. alloc'[owner] \cap (fil_free' \cup free_blocks' \cup pre_free_blocks') = {}
    BY <2>1, <2>2, <2>3, <2>4 DEF PlacesApart, ItemsApart, fileVars
  <2> QED BY <2>1, <2>2, <2>3, <2>4, <2>5, <2>6, CountedItems
          DEF fileVars, commitVars, ItemsInv, OnlyExisting, ClientsApart, TypeOK
<1>2. ASSUME NEW c \in Clients, get_locked_block(c)
      PROVE  Counted'
  <2>2. PICK block \in free_blocks : /\ free_blocks' = free_blocks \ {block}
                                     /\ alloc' = [alloc EXCEPT ![c] = @ \cup {block}]
    BY <1>2 DEF get_locked_block
  <2>3. /\ UNCHANGED <<fileVars, pre_free_blocks, lost, freed, sapo, commitVars>>
        /\ stage[c] = "work"
    BY <1>2 DEF get_locked_block, histVars
  <2>4. alloc'[c] = alloc[c] \cup {block}
    BY <2>2 DEF TypeOK
  <2>5. PlacesApart'
    BY <2>2, <2>3 DEF PlacesApart, fileVars
  <2>6. alloc'[c] \cap (fil_free' \cup free_blocks' \cup pre_free_blocks') = {}
    BY <2>2, <2>3, <2>4 DEF PlacesApart, ItemsApart, fileVars
  <2> QED BY <2>2, <2>3, <2>4, <2>5, <2>6, CountedItems
          DEF fileVars, commitVars, ItemsInv, OnlyExisting, ClientsApart, TypeOK
<1>3. CASE search_big_block
  <2>1. owner \in Clients /\ stage[owner] = "work"
    BY <1>3 DEF search_big_block, TypeOK, SemInv
  <2>2. PICK S \in SUBSET fil_free :
              /\ fil_free' = fil_free \ S /\ free_dirty' = free_dirty \cup S
              /\ \A d \in Clients \ {owner} : alloc'[d] = alloc[d]
              /\ \/ alloc'[owner] = alloc[owner] \cup S /\ lost' = lost
                 \/ alloc' = alloc /\ lost' = lost \cup S
    BY <1>3, <2>1, SearchedBig
  <2>3. UNCHANGED <<refs, refs_dirty, bpool_count, free_blocks, pre_free_blocks, freed, sapo, commitVars>>
    BY <1>3 DEF search_big_block
  <2>4. PlacesApart'
    BY <2>2, <2>3 DEF PlacesApart
  <2>5. CASE alloc'[owner] = alloc[owner] \cup S /\ lost' = lost
    <3>1. alloc'[owner] \cap (fil_free' \cup free_blocks' \cup pre_free_blocks') = {}
      BY <2>1, <2>2, <2>3, <2>5 DEF PlacesApart, ItemsApart
    <3> QED BY <2>1, <2>2, <2>3, <2>4, <2>5, <3>1, CountedItems
          DEF commitVars, ItemsInv, OnlyExisting, ClientsApart, TypeOK
  <2>6. CASE alloc' = alloc /\ lost' = lost \cup S
    BY <2>2, <2>3, <2>4, <2>6, CountedMove DEF OnlyExisting, itemVars
  <2> QED BY <2>2, <2>5, <2>6
<1> QED BY <1>1, <1>2, <1>3

\* Freeing a block, savepoints and rollback move blocks between the log, the
\* pages and pre_free_blocks only.
LEMMA CountedLog ==
    ASSUME TypeOK, TypeOK', SavepointItemsKept, Counted, NEW c \in Clients,
           \/ \E block \in Blocks : free_block(c, block)
           \/ create_savepoint(c) \/ rollback_to_savepoint(c) \/ destroy_savepoint(c)
           \/ roll_back(c)
    PROVE  Counted'
<1> USE DEF Counted
<1>1. /\ UNCHANGED <<fileVars, lost, commitVars>> /\ stage[c] = "work"
  BY DEF free_block, create_savepoint, rollback_to_savepoint, destroy_savepoint, roll_back, Working,
         histVars
<1>2. ASSUME NEW block \in Blocks, free_block(c, block), DropsAlloc(c, block)
      PROVE  Counted'
  <2>1. /\ block \in alloc[c] /\ \A d \in Clients : block \notin freed[d]
        /\ alloc' = [alloc EXCEPT ![c] = @ \ {block}]
        /\ \/ pre_free_blocks' = pre_free_blocks \cup {block} /\ free_blocks' = free_blocks
           \/ free_blocks' = free_blocks \cup {block} /\ pre_free_blocks' = pre_free_blocks
        /\ UNCHANGED <<freed, sapo>>
    BY <1>2 DEF free_block, DropsAlloc, Freed, release_block_safe, release_block_direct
  <2>2. alloc'[c] = alloc[c] \ {block}
    BY <2>1 DEF TypeOK
  <2>3. PlacesApart'
    BY <1>1, <2>1 DEF PlacesApart, ItemsApart, fileVars
  <2>4. alloc'[c] \cap (fil_free' \cup free_blocks' \cup pre_free_blocks') = {}
    BY <1>1, <2>1, <2>2 DEF ItemsApart, fileVars
  <2>5. freed'[c] \subseteq refs \cup alloc'[c]
    BY <1>1, <2>1, <2>2 DEF ItemsInv
  <2> QED BY <1>1, <2>1, <2>2, <2>3, <2>4, <2>5, CountedItems
          DEF fileVars, commitVars, ItemsInv, OnlyExisting, ClientsApart, TypeOK
<1>3. ASSUME NEW block \in Blocks, free_block(c, block), ~DropsAlloc(c, block)
      PROVE  Counted'
  <2>1. /\ block \in refs \cup alloc[c] /\ \A d \in Clients : block \notin freed[d]
        /\ freed' = [freed EXCEPT ![c] = @ \cup {block}]
        /\ UNCHANGED <<free_blocks, pre_free_blocks, alloc, sapo>>
    BY <1>3 DEF free_block, Freed
  <2>2. freed'[c] = freed[c] \cup {block}
    BY <2>1 DEF TypeOK
  <2>3. PlacesApart'
    BY <1>1, <2>1 DEF PlacesApart, fileVars
  <2> QED BY <1>1, <2>1, <2>2, <2>3, CountedItems
          DEF fileVars, commitVars, ItemsInv, ItemsApart, OnlyExisting, ClientsApart, TypeOK
<1>4. CASE create_savepoint(c)
  <2>1. /\ sapo'[c] = [on |-> TRUE, alloc |-> alloc[c], freed |-> freed[c]]
        /\ \A d \in Clients \ {c} : sapo'[d] = sapo[d]
        /\ UNCHANGED <<free_blocks, pre_free_blocks, alloc, freed>>
    BY <1>4 DEF create_savepoint, listVars, TypeOK
  <2>2. PlacesApart'
    BY <1>1, <2>1 DEF PlacesApart, fileVars
  <2> QED BY <1>1, <2>1, <2>2, CountedItems
          DEF fileVars, commitVars, ItemsInv, ItemsApart, OnlyExisting, ClientsApart
<1>5. CASE destroy_savepoint(c)
  <2>1. /\ ~sapo'[c].on
        /\ \A d \in Clients \ {c} : sapo'[d] = sapo[d]
        /\ UNCHANGED <<free_blocks, pre_free_blocks, alloc, freed>>
    BY <1>5 DEF destroy_savepoint, listVars, NoSapo, TypeOK
  <2>2. PlacesApart'
    BY <1>1, <2>1 DEF PlacesApart, fileVars
  <2> QED BY <1>1, <2>1, <2>2, CountedItems
          DEF fileVars, commitVars, ItemsInv, ItemsApart, OnlyExisting, ClientsApart
<1>6. CASE rollback_to_savepoint(c)
  <2>1. /\ sapo[c].on /\ free_blocks' = free_blocks \cup (alloc[c] \ sapo[c].alloc)
        /\ alloc'[c] = alloc[c] \cap sapo[c].alloc
        /\ freed'[c] = freed[c] \cap sapo[c].freed
        /\ \A d \in Clients \ {c} : alloc'[d] = alloc[d] /\ freed'[d] = freed[d]
        /\ UNCHANGED <<pre_free_blocks, sapo>>
    BY <1>6 DEF rollback_to_savepoint, release_block_direct, TypeOK
  <2>2. /\ sapo[c].alloc \subseteq alloc[c]
        /\ sapo[c].freed \subseteq freed[c]
        /\ sapo[c].freed \subseteq refs \cup sapo[c].alloc
    BY <1>1, <2>1 DEF SavepointItemsKept, ItemsInv
  <2>3. PlacesApart'
    BY <1>1, <2>1 DEF PlacesApart, ItemsApart, fileVars
  <2>4. alloc'[c] \cap (fil_free' \cup free_blocks' \cup pre_free_blocks') = {}
    BY <1>1, <2>1 DEF ItemsApart, fileVars
  <2> QED BY <1>1, <2>1, <2>2, <2>3, <2>4, CountedItems
          DEF fileVars, commitVars, OnlyExisting, ClientsApart
<1>7. CASE roll_back(c)
  <2>1. /\ free_blocks' = free_blocks \cup alloc[c]
        /\ alloc'[c] = {} /\ freed'[c] = {} /\ ~sapo'[c].on
        /\ \A d \in Clients \ {c} : alloc'[d] = alloc[d] /\ freed'[d] = freed[d] /\ sapo'[d] = sapo[d]
        /\ UNCHANGED pre_free_blocks
    BY <1>7 DEF roll_back, release_block_direct, NoSapo, TypeOK
  <2>2. PlacesApart'
    BY <1>1, <2>1 DEF PlacesApart, ItemsApart, fileVars
  <2> QED BY <1>1, <2>1, <2>2, CountedItems DEF fileVars, commitVars, OnlyExisting
<1> QED BY <1>2, <1>3, <1>4, <1>5, <1>6, <1>7

\* commit writes the references, and releases the freed blocks when it has
\* left commit_sem.
LEMMA CountedWrite ==
    ASSUME TypeOK, TypeOK', SemInv, SavepointItemsKept, Counted, NEW block \in Blocks,
           write_reference(block)
    PROVE  Counted'
<1> USE DEF Counted
<1> DEFINE c == committer
<1>1. c \in Clients /\ stage[c] = "write" /\ block \in unwritten
  BY DEF write_reference, TypeOK
<1>2. /\ unwritten = (alloc[c] \ freed[c]) \cup (freed[c] \cap refs)
      /\ \A d \in Clients \ {c} : stage[d] # "write"
  BY <1>1 DEF ItemsInv, SemInv
<1>3. /\ UNCHANGED <<fil_free, free_dirty, bpool_count, free_blocks, pre_free_blocks, lost, freed, sapo, stage>>
      /\ refs_dirty' = refs_dirty \cup {block}
      /\ unwritten' = unwritten \ {block}
  BY DEF write_reference, listVars, histVars
<1>4. Existing' = Existing
  BY <1>3, ExistingKept
<1> HIDE DEF c
<1>5. CASE block \in freed[c]
  <2>1. refs' = refs \ {block} /\ alloc' = alloc /\ block \in refs
    BY <1>1, <1>2, <1>5 DEF write_reference, c
  <2>2. PlacesApart' /\ ItemsApart' /\ ClientsApart'
    BY <1>3, <2>1 DEF PlacesApart, ItemsApart, ClientsApart
  <2>3. Covered' /\ OnlyExisting'
    BY <1>1, <1>3, <1>4, <1>5, <2>1 DEF Covered, OnlyExisting
  <2>4. ItemsInv'
    BY <1>1, <1>2, <1>3, <1>5, <2>1 DEF ItemsInv, ItemsApart, ClientsApart, SavepointItemsKept
  <2> QED BY <2>2, <2>3, <2>4
<1>6. CASE block \notin freed[c]
  <2>1. /\ refs' = refs \cup {block} /\ block \in alloc[c]
        /\ alloc'[c] = alloc[c] \ {block}
        /\ \A d \in Clients \ {c} : alloc'[d] = alloc[d]
    BY <1>1, <1>2, <1>6 DEF write_reference, c, TypeOK
  <2>2. PlacesApart' /\ ItemsApart' /\ ClientsApart'
    BY <1>1, <1>3, <2>1 DEF PlacesApart, ItemsApart, ClientsApart
  <2>3. Covered' /\ OnlyExisting'
    BY <1>1, <1>3, <1>4, <2>1 DEF Covered, OnlyExisting
  <2>4. ItemsInv'
    BY <1>1, <1>2, <1>3, <1>6, <2>1 DEF ItemsInv, ItemsApart, ClientsApart
  <2> QED BY <2>2, <2>3, <2>4
<1> QED BY <1>5, <1>6

\* commit_allocs returns freed blocks once each, to the right list.
LEMMA CountedRelease ==
    ASSUME TypeOK, Counted, NEW c \in Clients, commit_allocs(c)
    PROVE  Counted'
<1> USE DEF Counted
<1>1. /\ UNCHANGED <<fileVars, lost, unwritten>>
      /\ \/ pre_free_blocks' = pre_free_blocks \cup freed[c] /\ free_blocks' = free_blocks
         \/ free_blocks' = free_blocks \cup freed[c] /\ pre_free_blocks' = pre_free_blocks
      /\ alloc'[c] = {} /\ freed'[c] = {} /\ ~sapo'[c].on /\ stage'[c] = "work"
      /\ \A d \in Clients \ {c} : /\ alloc'[d] = alloc[d] /\ freed'[d] = freed[d]
                                  /\ sapo'[d] = sapo[d] /\ stage'[d] = stage[d]
  BY DEF commit_allocs, release_block_safe, release_block_direct, NoSapo, histVars, TypeOK
<1>2. alloc[c] \subseteq freed[c] /\ freed[c] \cap refs = {}
  BY DEF commit_allocs, ItemsInv
<1>3. Existing' = Existing
  BY <1>1, ExistingKept DEF fileVars
<1>4. PlacesApart' /\ ItemsApart' /\ ClientsApart'
  BY <1>1, <1>2 DEF PlacesApart, ItemsApart, ClientsApart, fileVars
<1>5. Covered' /\ OnlyExisting'
  BY <1>1, <1>2, <1>3 DEF Covered, OnlyExisting, fileVars
<1>6. ItemsInv'
  BY <1>1 DEF ItemsInv, fileVars
<1> QED BY <1>4, <1>5, <1>6

\* The end of the server writes both lists back to the pools, or loses blocks
\* when a pool cannot be read or written.
LEMMA CountedClose ==
    ASSUME TypeOK, Counted, close_block_cache
    PROVE  Counted'
<1> USE DEF Counted
<1>1. /\ free_dirty' = {} /\ refs_dirty' = {} /\ free_blocks' = {} /\ pre_free_blocks' = {}
      /\ UNCHANGED <<refs, bpool_count>>
      /\ \A c \in Clients : /\ alloc[c] = {} /\ freed[c] = {} /\ alloc'[c] = {} /\ freed'[c] = {}
                            /\ ~sapo'[c].on /\ stage'[c] = "work"
  BY DEF close_block_cache, FlushFileBuffers, EmptyMemory, NoSapo
<1>2. PICK forgotten \in SUBSET (fil_free \cup free_blocks \cup pre_free_blocks) :
           /\ fil_free' = (fil_free \cup free_blocks \cup pre_free_blocks) \ forgotten
           /\ lost' = lost \cup forgotten
  <2>1. PICK unwritable, unreadable :
           /\ fil_free' = (fil_free \cup deallocation_move) \ Forgotten(unwritable, unreadable)
           /\ lost' = lost \cup Forgotten(unwritable, unreadable)
    BY DEF close_block_cache
  <2>2. Forgotten(unwritable, unreadable) \in SUBSET (fil_free \cup free_blocks \cup pre_free_blocks)
    BY DEF Forgotten, deallocation_move
  <2> QED BY <2>1, <2>2 DEF deallocation_move
<1>3. Existing' = Existing
  BY <1>1, ExistingKept
<1>4. PlacesApart' /\ ItemsApart' /\ ClientsApart'
  BY <1>1, <1>2 DEF PlacesApart, ItemsApart, ClientsApart
<1>5. Covered' /\ OnlyExisting' /\ ItemsInv'
  BY <1>1, <1>2, <1>3 DEF Covered, OnlyExisting, ItemsInv
<1> QED BY <1>4, <1>5

\* What the failure of the computer leaves on the disc.
LEMMA CountedCrash ==
    ASSUME TypeOK, Counted, DiscInv, ~ExpandUnflushed, crash
    PROVE  Counted' /\ fil_free' \cap refs' = {}
<1> USE DEF Counted
<1>1. /\ fil_free' \subseteq MayBeFree /\ refs' \subseteq MayBeReferenced
      /\ free_dirty' = {} /\ refs_dirty' = {} /\ free_blocks' = {} /\ pre_free_blocks' = {}
      /\ UNCHANGED bpool_count /\ lost' = Existing \ (fil_free' \cup refs')
      /\ \A c \in Clients : /\ alloc'[c] = {} /\ freed'[c] = {}
                            /\ ~sapo'[c].on /\ stage'[c] = "work"
  BY DEF crash, Outcomes, EmptyMemory, NoSapo, MayBeFree, MayBeReferenced
<1>2. Existing' = Existing
  BY <1>1, ExistingKept
<1>3. fil_free' \cap refs' = {}
  BY <1>1 DEF DiscInv
<1>4. PlacesApart' /\ ItemsApart' /\ ClientsApart'
  BY <1>1, <1>3 DEF PlacesApart, ItemsApart, ClientsApart
<1>5. Covered' /\ OnlyExisting' /\ ItemsInv'
  BY <1>1, <1>2 DEF Covered, OnlyExisting, ItemsInv, MayBeFree, MayBeReferenced
<1> QED BY <1>3, <1>4, <1>5

\* The end of a backup changes no place.
LEMMA CountedSynchronize ==
    ASSUME Counted, synchronize
    PROVE  Counted'
<1>1. /\ UNCHANGED <<fil_free, refs, bpool_count, free_blocks, pre_free_blocks, lost, itemVars,
                      commitVars>>
      /\ free_dirty' = {} /\ refs_dirty' = {}
  BY DEF synchronize, FlushFileBuffers, listVars
<1> QED BY <1>1, ExistingKept DEF Counted, PlacesApart, ItemsApart, ClientsApart, Covered,
           OnlyExisting, ItemsInv, itemVars, commitVars

\* Every step that damages nothing, but the failure of the computer.
LEMMA CountedNext ==
    ASSUME TypeOK, TypeOK', SemInv, SavepointItemsKept, Counted, [Next]_vars, ~crash, ~damaged'
    PROVE  Counted'
<1>1. CASE \/ \E c \in Clients : \/ lock_and_alloc(c, "get_block", 1) \/ get_big_block(c)
                                 \/ \E n \in 1 .. MaxExpand : lock_and_alloc(c, "expand", n)
                                 \/ disable_flush(c) \/ enable_flush(c)
           \/ no_new_pool \/ search_big_block_error \/ do_backup2 \/ finish \/ UNCHANGED vars
  <2>1. UNCHANGED <<fileVars, free_blocks, pre_free_blocks, lost, itemVars, commitVars>>
    BY <1>1 DEF lock_and_alloc, get_big_block, disable_flush, enable_flush, no_new_pool,
                search_big_block_error, do_backup2, finish, vars, listVars, histVars
  <2> QED BY <2>1, CountedKept
<1>2. ~search_pool_error
  BY DEF search_pool_error
<1> QED BY <1>1, <1>2, CountedSynchronize, CountedCommit, CountedInSemaphore, CountedNewPool, CountedFlush, CountedAlloc,
           CountedLog, CountedWrite, CountedRelease, CountedClose DEF Next

-----------------------------------------------------------------------------
(* The disc *)

\* Steps that change nothing that DiscInv speaks of but leave bpools_sem or
\* enter it.
LEMMA DiscKept ==
    ASSUME DiscInv, UNCHANGED <<fileVars, free_blocks, alloc, semVars>>
    PROVE  DiscInv'
  BY DEF DiscInv, ExpandUnflushed, MayBeFree, MayBeReferenced, fileVars, semVars

\* Entering bpools_sem changes nothing on the disc.
LEMMA DiscEnter ==
    ASSUME TypeOK, SemInv, DiscInv, NEW c \in Clients,
           \/ lock_and_alloc(c, "get_block", 1) \/ get_big_block(c) \/ extflush(c)
           \/ \E n \in 1 .. MaxExpand : lock_and_alloc(c, "expand", n)
    PROVE  DiscInv'
<1>1. UNCHANGED <<fileVars, free_blocks, alloc>> /\ owner = NoClient
  BY DEF lock_and_alloc, get_big_block, extflush, Enters, listVars, itemVars
<1>2. at = "out" /\ op = "none" /\ ~taken_from_pool
  BY <1>1 DEF TypeOK, SemInv
<1>3. ~ExpandUnflushed'
  BY DEF lock_and_alloc, get_big_block, extflush, ExpandUnflushed
<1> QED BY <1>1, <1>2, <1>3 DEF DiscInv, ExpandUnflushed, MayBeFree, MayBeReferenced, fileVars

\* Inside bpools_sem bits are flushed before the blocks they belonged to can be
\* allocated, if no flush was left out.
LEMMA DiscInSemaphore ==
    ASSUME TypeOK, SemInv, Counted, DiscInv, ~flush_left_out', ~damaged',
           \/ search_pool \/ search_pool_error \/ add_new_pool \/ no_new_pool
           \/ search_big_block \/ search_big_block_error
           \/ get_block \/ expand_table_blocks \/ expand_err2 \/ expand_err1
           \/ \E pool \in Pools : save_to_pool(pool)
           \/ flush_and_time
    PROVE  DiscInv'
<1> USE DEF DiscInv, ExpandUnflushed, MayBeFree, MayBeReferenced, Counted
<1>1. CASE search_pool
  <2>1. PICK S \in SUBSET fil_free : /\ free_blocks' = free_blocks \cup S
                                     /\ fil_free' = fil_free \ S
                                     /\ free_dirty' = free_dirty \cup S
    BY <1>1, Searched
  <2>2. /\ UNCHANGED <<refs, refs_dirty, alloc, taken_from_pool>>
        /\ at = "fill" /\ at' # "flush" /\ taken_from_pool
    BY <1>1 DEF search_pool, NextPool, itemVars, SemInv
  <2> QED BY <2>1, <2>2 DEF ItemsApart
<1>2. CASE add_new_pool
  <2>1. /\ fil_free' = fil_free \cup FullPool(bpool_count)
        /\ free_dirty' = free_dirty \cup FullPool(bpool_count)
        /\ UNCHANGED <<refs, refs_dirty, free_blocks, alloc, taken_from_pool>>
        /\ at = "grow" /\ at' # "flush" /\ taken_from_pool
    BY <1>2 DEF add_new_pool, set_bits, itemVars, SemInv
  <2> QED BY <2>1, PoolsApart DEF OnlyExisting
<1>3. CASE no_new_pool \/ search_big_block_error
  <2>1. free_dirty = {} /\ at \in {"grow", "fill"} /\ at' # "flush"
    BY <1>3 DEF no_new_pool, search_big_block_error, Leave
  <2> QED BY <1>3, <2>1 DEF no_new_pool, search_big_block_error, fileVars, listVars, itemVars
<1>11. CASE search_pool_error
  BY <1>11 DEF search_pool_error
<1>4. CASE search_big_block
  <2>1. owner \in Clients /\ taken_from_pool /\ at = "fill"
    BY <1>4 DEF search_big_block, TypeOK, SemInv
  <2>2. PICK S \in SUBSET fil_free :
              /\ fil_free' = fil_free \ S /\ free_dirty' = free_dirty \cup S
              /\ at' = "flush" \/ (S = {} /\ at' # "flush")
              /\ \A d \in Clients \ {owner} : alloc'[d] = alloc[d]
              /\ alloc'[owner] = alloc[owner] \cup S \/ alloc' = alloc
    BY <1>4, <2>1, SearchedBig
  <2>3. /\ UNCHANGED <<refs, refs_dirty, free_blocks, owner, op, taken_from_pool>>
        /\ op = "get_big_block"
    BY <1>4 DEF search_big_block
  <2> QED BY <2>1, <2>2, <2>3 DEF ItemsApart
<1>5. CASE get_block
  <2>1. owner \in Clients /\ at = "take" /\ op = "get_block"
    BY <1>5 DEF get_block, TypeOK
  <2>2. PICK block \in free_blocks : /\ free_blocks' = free_blocks \ {block}
                                     /\ alloc' = [alloc EXCEPT ![owner] = @ \cup {block}]
    BY <1>5 DEF get_block
  <2>3. /\ alloc'[owner] = alloc[owner] \cup {block}
        /\ \A d \in Clients \ {owner} : alloc'[d] = alloc[d]
    BY <2>1, <2>2 DEF TypeOK
  <2> QED BY <1>5, <2>1, <2>2, <2>3 DEF get_block, unlock_allocation, Leave, fileVars
<1>6. CASE expand_table_blocks
  <2>1. PICK S \in SUBSET free_blocks : /\ free_blocks' = free_blocks \ S
                                        /\ refs' = refs \cup S
                                        /\ refs_dirty' = refs_dirty \cup S
    BY <1>6 DEF expand_table_blocks
  <2>2. /\ UNCHANGED <<fil_free, free_dirty, alloc, taken_from_pool, op>>
        /\ at = "take" /\ at' = "flush" /\ op = "expand"
    BY <1>6 DEF expand_table_blocks, unlock_allocation, itemVars
  <2> QED BY <2>1, <2>2 DEF ItemsApart
<1>7. CASE expand_err2
  BY <1>7 DEF expand_err2, unlock_allocation, Leave, fileVars, itemVars
<1>8. CASE expand_err1
  BY <1>8 DEF expand_err1, Leave, fileVars, itemVars
<1>9. ASSUME NEW pool \in Pools, save_to_pool(pool)
      PROVE  DiscInv'
  <2>1. PICK S \in SUBSET free_blocks : /\ free_blocks' = free_blocks \ S
                                        /\ fil_free' \subseteq fil_free \cup S
                                        /\ free_dirty' \subseteq free_dirty \cup fil_free \cup S
    BY <1>9, Saved
  <2>2. UNCHANGED <<refs, refs_dirty, alloc, semVars>>
    BY <1>9 DEF save_to_pool, itemVars
  <2> QED BY <2>1, <2>2 DEF PlacesApart, ItemsApart, semVars
<1>10. CASE flush_and_time
  <2>1. /\ free_dirty' = {} /\ refs_dirty' = {} /\ free_blocks' = free_blocks \cup pre_free_blocks
        /\ UNCHANGED <<fil_free, refs, alloc>>
    BY <1>10 DEF flush_and_time, flush, no_flush, FlushFileBuffers, deallocation_move, itemVars
  <2> QED BY <2>1 DEF PlacesApart, ItemsApart
<1> QED BY <1>1, <1>2, <1>3, <1>4, <1>5, <1>6, <1>7, <1>8, <1>9, <1>10, <1>11

\* Steps outside bpools_sem touch no unflushed bit of an allocated block.
LEMMA DiscOfClient ==
    ASSUME TypeOK, SemInv, Counted, DiscInv, FlushPeriod, NEW c \in Clients,
           \/ get_locked_block(c)
           \/ \E block \in Blocks : free_block(c, block)
           \/ rollback_to_savepoint(c) \/ roll_back(c) \/ commit_allocs(c)
    PROVE  DiscInv'
<1> USE DEF DiscInv, ExpandUnflushed, MayBeFree, MayBeReferenced, Counted
<1>1. UNCHANGED <<fileVars, semVars>>
  BY DEF get_locked_block, free_block, rollback_to_savepoint, roll_back, commit_allocs
<1>2. Enters(c) => at = "out" /\ ~taken_from_pool /\ op = "none"
  BY DEF Enters, TypeOK, SemInv
<1>3. CASE get_locked_block(c)
  <2>1. PICK block \in free_blocks : /\ free_blocks' = free_blocks \ {block}
                                     /\ alloc' = [alloc EXCEPT ![c] = @ \cup {block}]
    BY <1>3 DEF get_locked_block
  <2>2. /\ alloc'[c] = alloc[c] \cup {block}
        /\ \A d \in Clients \ {c} : alloc'[d] = alloc[d]
    BY <2>1 DEF TypeOK
  <2> QED BY <1>1, <1>2, <1>3, <2>1, <2>2 DEF get_locked_block, fileVars, semVars
<1>4. ASSUME \E block \in Blocks : free_block(c, block)
      PROVE  DiscInv'
  <2>1. /\ free_blocks' = free_blocks
        /\ \A d \in Clients : alloc'[d] \subseteq alloc[d]
    BY <1>4 DEF free_block, release_block_safe, TypeOK
  <2> QED BY <1>1, <2>1 DEF fileVars, semVars
<1>5. CASE rollback_to_savepoint(c) \/ roll_back(c)
  <2>1. /\ Enters(c) /\ free_blocks' \subseteq free_blocks \cup alloc[c]
        /\ \A d \in Clients : alloc'[d] \subseteq alloc[d]
    BY <1>5 DEF rollback_to_savepoint, roll_back, release_block_direct, TypeOK
  <2> QED BY <1>1, <1>2, <2>1 DEF fileVars, semVars
<1>6. CASE commit_allocs(c)
  <2>1. /\ free_blocks' = free_blocks
        /\ \A d \in Clients : alloc'[d] \subseteq alloc[d]
    BY <1>6 DEF commit_allocs, release_block_safe, TypeOK
  <2> QED BY <1>1, <2>1 DEF fileVars, semVars
<1> QED BY <1>3, <1>4, <1>5, <1>6

\* A block written to a page of the database is free nowhere on the disc: the
\* commit has begun after the flush that ends its allocation.
LEMMA DiscWrite ==
    ASSUME TypeOK, SemInv, Counted, DiscInv, NEW block \in Blocks, write_reference(block)
    PROVE  DiscInv'
<1> USE DEF DiscInv, ExpandUnflushed, MayBeFree, MayBeReferenced, Counted
<1> DEFINE c == committer
<1>1. c \in Clients /\ stage[c] = "write" /\ block \in unwritten
  BY DEF write_reference, TypeOK
<1>2. unwritten = (alloc[c] \ freed[c]) \cup (freed[c] \cap refs)
  BY <1>1 DEF ItemsInv
<1>3. alloc[c] \cap free_dirty = {}
  BY <1>1 DEF SemInv
<1>4. /\ UNCHANGED <<fil_free, free_dirty, free_blocks, semVars>>
      /\ refs_dirty' = refs_dirty \cup {block}
  BY DEF write_reference, listVars
<1> HIDE DEF c
<1>5. CASE block \in freed[c]
  <2>1. refs' = refs \ {block} /\ alloc' = alloc /\ block \in refs
    BY <1>1, <1>2, <1>5 DEF write_reference, c
  <2> QED BY <1>4, <2>1 DEF semVars
<1>6. CASE block \notin freed[c]
  <2>1. /\ refs' = refs \cup {block} /\ block \in alloc[c]
        /\ alloc'[c] = alloc[c] \ {block}
        /\ \A d \in Clients \ {c} : alloc'[d] = alloc[d]
    BY <1>1, <1>2, <1>6 DEF write_reference, c, TypeOK
  <2>2. /\ block \notin fil_free \cup free_dirty \cup free_blocks
        /\ \A d \in Clients : block \notin alloc'[d]
    BY <1>1, <1>3, <2>1 DEF ItemsApart, ClientsApart
  <2> QED BY <1>1, <1>4, <2>1, <2>2 DEF semVars
<1> QED BY <1>5, <1>6

\* When everything is flushed, the disc is what the server sees.
LEMMA DiscFlushed ==
    ASSUME Counted', free_dirty' = {}, refs_dirty' = {}
    PROVE  DiscInv'
  BY DEF DiscInv, MayBeFree, MayBeReferenced, Counted, PlacesApart, ItemsApart

-----------------------------------------------------------------------------
(* Theorems *)

\* A damage stays, and a flush that was left out stays noted until the next
\* one that is made.
LEMMA HistoryNext ==
    ASSUME TypeOK, [Next]_vars, ~crash
    PROVE  /\ damaged => damaged'
           /\ (flush_left_out => flush_left_out') \/ (free_dirty' = {} /\ refs_dirty' = {})
<1>1. CASE no_new_pool \/ expand_err1 \/ search_big_block_error
  <2>1. damaged' = damaged
    BY <1>1 DEF no_new_pool, expand_err1, search_big_block_error
  <2>2. flush_left_out => flush_left_out'
    BY <1>1, Zenon DEF no_new_pool, expand_err1, search_big_block_error
  <2> QED BY <2>1, <2>2
<1>6. CASE search_pool_error
  BY <1>6, Zenon DEF search_pool_error
<1>2. CASE flush_and_time \/ synchronize \/ close_block_cache
  BY <1>2 DEF flush_and_time, flush, no_flush, FlushFileBuffers, synchronize, close_block_cache
<1>3. CASE \E c \in Clients :
              \/ lock_and_alloc(c, "get_block", 1) \/ get_locked_block(c) \/ get_big_block(c)
              \/ \E n \in 1 .. MaxExpand : lock_and_alloc(c, "expand", n)
              \/ disable_flush(c) \/ enable_flush(c)
              \/ \E block \in Blocks : free_block(c, block)
              \/ create_savepoint(c) \/ rollback_to_savepoint(c) \/ destroy_savepoint(c)
              \/ roll_back(c) \/ commit(c)
              \/ no_extflush(c) \/ extflush(c) \/ commit_allocs(c)
  <2>1. UNCHANGED <<damaged, flush_left_out>>
    BY <1>3, ZenonT(60) DEF lock_and_alloc, get_locked_block, get_big_block, disable_flush, enable_flush,
       free_block, create_savepoint, rollback_to_savepoint, destroy_savepoint, roll_back,
       commit, no_extflush, extflush, commit_allocs, histVars
  <2> QED BY <2>1
<1>4. CASE search_pool \/ search_big_block
  <2>1. UNCHANGED flush_left_out
    BY <1>4 DEF search_pool, search_big_block
  <2>2. damaged => damaged'
    BY <1>4 DEF search_pool, search_big_block, take_bits
  <2> QED BY <2>1, <2>2
<1>5. CASE \/ add_new_pool \/ do_backup2
           \/ get_block \/ expand_table_blocks \/ expand_err2
           \/ \E pool \in Pools : save_to_pool(pool)
           \/ \E block \in Blocks : write_reference(block)
           \/ finish \/ UNCHANGED vars
  <2>1. UNCHANGED <<damaged, flush_left_out>>
    BY <1>5 DEF add_new_pool, do_backup2, get_block, expand_table_blocks,
       expand_err2, save_to_pool, write_reference, finish, vars, histVars
  <2> QED BY <2>1
<1> QED BY <1>1, <1>2, <1>3, <1>4, <1>5, <1>6 DEF Next

\* The invariant holds after the first start.
LEMMA InvInit == Init => Inv
<1> SUFFICES ASSUME Init PROVE Inv
  OBVIOUS
<1>1. TypeOK
  BY TypeInit
<1>2. /\ fil_free = FullPool(0) \ SystemBlocks /\ refs = SystemBlocks
      /\ free_dirty = {} /\ refs_dirty = {} /\ free_blocks = {} /\ pre_free_blocks = {} /\ lost = {}
      /\ \A c \in Clients : /\ alloc[c] = {} /\ freed[c] = {} /\ ~sapo[c].on /\ stage[c] = "work"
  BY DEF Init, NoSapo
<1>3. Existing = FullPool(0)
  <2>1. 0 .. bpool_count - 1 = {0}
    BY DEF Init
  <2> QED BY <2>1 DEF Existing
<1>4. SemInv /\ SavepointItemsKept
  BY <1>2 DEF Init, SemInv, SavepointItemsKept
<1>5. Counted
  BY <1>2, <1>3 DEF Counted, PlacesApart, ItemsApart, ClientsApart, Covered, OnlyExisting, ItemsInv
<1>6. DiscInv
  BY <1>2 DEF DiscInv, MayBeFree, MayBeReferenced
<1> QED BY <1>1, <1>4, <1>5, <1>6 DEF Inv

\* Every step keeps the invariant.
LEMMA InvNext ==
    ASSUME Inv, [Next]_vars
    PROVE  Inv'
<1> USE DEF Inv
<1>1. TypeOK' /\ SemInv' /\ SavepointItemsKept'
  BY TypeNext, SemaphoreNext, SavepointsNext
<1>2. CASE crash
  <2>1. ~damaged' => ~damaged /\ Protected /\ ~ExpandUnflushed
    BY <1>2 DEF crash, Protected
  <2>2. ~damaged' => Counted' /\ fil_free' \cap refs' = {}
    BY <1>2, <2>1, CountedCrash
  <2>3. ~damaged' => DiscInv'
    BY <1>2, <2>2, DiscFlushed DEF crash
  <2> QED BY <1>1, <2>2, <2>3
<1>3. CASE ~crash
  <2>1. /\ damaged => damaged'
        /\ (flush_left_out => flush_left_out') \/ (free_dirty' = {} /\ refs_dirty' = {})
    BY <1>3, HistoryNext
  <2>2. ~damaged' => Counted'
    BY <1>1, <1>3, <2>1, CountedNext
  <2>3. ASSUME ~damaged', Protected'
        PROVE  DiscInv'
    <3>1. CASE free_dirty' = {} /\ refs_dirty' = {}
      BY <2>2, <2>3, <3>1, DiscFlushed
    <3>2. CASE ~(free_dirty' = {} /\ refs_dirty' = {})
      <4>1. TypeOK /\ SemInv /\ Counted /\ DiscInv /\ FlushPeriod /\ ~flush_left_out'
        BY <2>1, <2>3, <3>2 DEF Protected
      <4>2. CASE \/ \E c \in Clients : \/ disable_flush(c) \/ enable_flush(c)
                                       \/ create_savepoint(c) \/ destroy_savepoint(c)
                                       \/ commit(c) \/ no_extflush(c)
                 \/ do_backup2 \/ finish \/ UNCHANGED vars
        <5>1. UNCHANGED <<fileVars, free_blocks, alloc, semVars>>
          BY <4>2 DEF disable_flush, enable_flush, create_savepoint, destroy_savepoint, commit,
                      no_extflush, do_backup2, finish, vars, listVars, itemVars
        <5> QED BY <4>1, <5>1, DiscKept
      <4>3. ~synchronize /\ ~close_block_cache
        BY <3>2 DEF synchronize, close_block_cache, FlushFileBuffers
      <4> QED BY <1>3, <2>3, <4>1, <4>2, <4>3, DiscEnter, DiscInSemaphore, DiscOfClient, DiscWrite
              DEF Next
    <3> QED BY <3>1, <3>2
  <2> QED BY <1>1, <2>2, <2>3
<1> QED BY <1>2, <1>3

\* The places, in the form of the property.
LEMMA CountedPlaces ==
    ASSUME Counted
    PROVE  BlocksAccounted
<1> USE DEF Counted
<1>1. \A c \in Clients : Held(c) \cap (fil_free \cup free_blocks \cup pre_free_blocks \cup refs \cup lost) = {}
  BY DEF Held, ItemsApart
<1>2. \A c, d \in Clients : c # d => Held(c) \cap Held(d) = {}
  BY DEF Held, ClientsApart
<1>3. Existing = fil_free \cup free_blocks \cup pre_free_blocks \cup refs \cup lost
                   \cup UNION {Held(c) : c \in Clients}
  BY DEF Held, Covered, OnlyExisting
<1>4. /\ Places[1] = fil_free /\ Places[2] = free_blocks /\ Places[3] = pre_free_blocks
      /\ Places[4] = refs /\ Places[5] = lost
  BY DEF Places
<1>5. \A i \in 1 .. 5 : i = 1 \/ i = 2 \/ i = 3 \/ i = 4 \/ i = 5
  OBVIOUS
<1>6. \A i, j \in 1 .. 5 : i # j => Places[i] \cap Places[j] = {}
  BY <1>4, <1>5 DEF PlacesApart
<1>7. \A c \in Clients : \A i \in 1 .. 5 : Places[i] \cap Held(c) = {}
  BY <1>1, <1>4, <1>5
<1> HIDE DEF Places
<1> QED BY <1>2, <1>3, <1>6, <1>7 DEF BlocksAccounted

\* The invariant behind all theorems of this module.
LEMMA InvAlways == Spec => []Inv
  BY InvInit, InvNext, PTL DEF Spec

\* Every block is in exactly one place, whatever the clients do and wherever
\* the computer fails: no block is allocated twice and none is forgotten by
\* lock_and_alloc, get_big_block, free_block, the savepoints, commit_allocs,
\* reduce_free_blocks and deallocation_move.  Blocks given up by errors are
\* exactly those of lost; the claim ends with an error of lock_and_alloc or
\* get_big_block in reading a pool, or of lock_and_alloc in writing it.
THEOREM BlocksAreAccounted == Spec => []BlocksAccounted
<1>1. Inv => BlocksAccounted
  BY CountedPlaces DEF Inv, BlocksAccounted
<1> QED BY <1>1, InvAlways, PTL

\* With flushing on, no block is free and referenced on the disc at the same
\* time, and no block that can be allocated is still referenced there, except
\* between a flush that was left out and the next one that was made.
THEOREM DiscIsSafe == Spec => []SafeOnDisc
<1>1. Inv => SafeOnDisc
  BY DEF Inv, SafeOnDisc, Protected, DiscInv
<1> QED BY <1>1, InvAlways, PTL

\* Items registered before a savepoint stay in the log as long as it exists.
THEOREM SavepointKeepsItems == Spec => []SavepointItemsKept
<1>1. Inv => SavepointItemsKept
  BY DEF Inv
<1> QED BY <1>1, InvAlways, PTL
=============================================================================
