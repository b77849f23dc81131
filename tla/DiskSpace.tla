----------------------------- MODULE DiskSpace -----------------------------
(***************************************************************************)
(* Allocation of blocks of the database file (t_disk_space_management) and *)
(* of the blocks allocated and freed by transactions (t_log).              *)
(*                                                                         *)
(* A free block is in the bitmap of a pool in the file, in free_blocks     *)
(* (may be allocated), or in pre_free_blocks (must wait for a flush).      *)
(* What was written since the last flush may be lost when the computer     *)
(* fails: free_dirty and refs_dirty are the blocks whose bit in the pool,  *)
(* and the reference to them in a page of the database, may then be        *)
(* either the new one or the old one.                                      *)
(*                                                                         *)
(* A stay in bpools_sem is cut into the steps that write to the file;      *)
(* the lists are sets, as a block of any place may be the last in a list.  *)
(***************************************************************************)
EXTENDS Integers, FiniteSets

CONSTANTS Clients, NoClient,
          PoolSize,           \* 8*BLOCKSIZE in the code
          MaxPools,           \* bound: length of the file
          SystemBlocks,       \* blocks referenced when the database is new
          FREE_LIMIT_UP, FREE_LIMIT_DOWN, BLOCK_FILL_LIMIT,
          ByteSize,           \* 8: a big block begins with a byte of the bitmap
          BigSize,            \* SMALL_BLOCKS_PER_BIG_BLOCK
          MaxExpand,          \* bound: blocks added to a table at once
          MaxCrashes,         \* bound: failures of the computer
          MaxRequests,        \* bound: operations of the clients
          FlushPeriod, FlushOnCommit,     \* properties of the server
          Imports,            \* clients that import data or alter tables
          MayFail             \* operations that may fail: "pool" (write_bpool), "read"
                              \* (read_bpool), "extend" (of the file), "expand" (of a table)

Pools == 0 .. MaxPools - 1
PoolOf(block) == block \div PoolSize
\* full_bpool: all blocks of a pool but the first, which holds the bitmap.
FullPool(pool) == pool * PoolSize + 1 .. (pool + 1) * PoolSize - 1
Blocks == 0 .. MaxPools * PoolSize - 1

ASSUME DiskSpaceConstants ==
    /\ PoolSize \in Nat \ {0} /\ MaxPools \in Nat \ {0}
    /\ SystemBlocks \subseteq FullPool(0)
    /\ FREE_LIMIT_UP \in Nat /\ FREE_LIMIT_DOWN \in Nat
    /\ BLOCK_FILL_LIMIT \in Nat /\ FREE_LIMIT_DOWN <= FREE_LIMIT_UP
    /\ ByteSize \in Nat \ {0} /\ BigSize \in Nat \ {0} /\ MaxExpand \in Nat /\ MaxCrashes \in Nat
    /\ MaxRequests \in Nat
    /\ FlushPeriod \in BOOLEAN /\ FlushOnCommit \in BOOLEAN
    /\ Imports \subseteq Clients
    /\ NoClient \notin Clients

VARIABLES
  \* the database file
    fil_free,       \* blocks whose bit is set in the pools
    free_dirty,     \* bits changed since the last flush
    refs,           \* blocks the pages of the database refer to
    refs_dirty,     \* references changed since the last flush
    bpool_count,
  \* t_disk_space_management
    free_blocks, pre_free_blocks, next_pool,
    importing,      \* clients that have called disable_flush
    backup,         \* a hot backup runs: backup_support is set
    kept,           \* a client that has left bpools_sem locked
    locked_by,
  \* the client in bpools_sem
    owner, op, at, want, cyc, taken_from_pool,
  \* transaction logs
    alloc, freed,   \* TAG_ALLOC_PAGE and TAG_FREE_PAGE items
    sapo,           \* the items when the savepoint was created
    stage,          \* work, write, allocs: progress of the commit
    committer,      \* the client in commit_sem
    unwritten,      \* blocks whose references commit has yet to write
  \* history
    lost,           \* blocks nobody knows of
    flush_left_out, \* a flush was skipped, and none has been made since then
    damaged,        \* the pools became wrong: a failure of the computer since then,
                    \* or an error in reading or writing a pool
    crashes, requests

fileVars == <<fil_free, free_dirty, refs, refs_dirty, bpool_count>>
listVars == <<free_blocks, pre_free_blocks, next_pool>>
modeVars == <<importing, backup, kept, locked_by>>
semVars == <<owner, op, at, want, cyc, taken_from_pool>>
itemVars == <<alloc, freed, sapo>>
commitVars == <<stage, committer, unwritten>>
histVars == <<lost, flush_left_out, damaged, crashes, requests>>
vars == <<fileVars, listVars, modeVars, semVars, itemVars, commitVars, histVars>>

Existing == UNION {FullPool(pool) : pool \in 0 .. bpool_count - 1}
Items == [on : BOOLEAN, alloc : SUBSET Blocks, freed : SUBSET Blocks]
NoSapo == [on |-> FALSE, alloc |-> {}, freed |-> {}]

TypeOK ==
    /\ fil_free \subseteq Blocks /\ free_dirty \subseteq Blocks
    /\ refs \subseteq Blocks /\ refs_dirty \subseteq Blocks
    /\ bpool_count \in 1 .. MaxPools
    /\ free_blocks \subseteq Blocks /\ pre_free_blocks \subseteq Blocks
    /\ next_pool \in 0 .. bpool_count - 1
    /\ importing \subseteq Imports /\ backup \in BOOLEAN
    /\ kept \in Clients \cup {NoClient}
    /\ locked_by \in Clients \cup {NoClient}
    /\ owner \in Clients \cup {NoClient}
    /\ op \in {"none", "get_block", "get_big_block", "expand", "extflush"}
    /\ at \in {"out", "fill", "grow", "take", "flush"}
    /\ owner = NoClient <=> at = "out"
    /\ want \in Nat /\ cyc \in Nat
    /\ taken_from_pool \in BOOLEAN
    /\ alloc \in [Clients -> SUBSET Blocks]
    /\ freed \in [Clients -> SUBSET Blocks]
    /\ sapo \in [Clients -> Items]
    /\ stage \in [Clients -> {"work", "write", "flush", "allocs"}]
    /\ committer \in Clients \cup {NoClient}
    /\ unwritten \subseteq Blocks
    /\ lost \subseteq Blocks
    /\ flush_left_out \in BOOLEAN /\ damaged \in BOOLEAN
    /\ crashes \in 0 .. MaxCrashes /\ requests \in 0 .. MaxRequests

Init ==
    /\ fil_free = FullPool(0) \ SystemBlocks /\ free_dirty = {}
    /\ refs = SystemBlocks /\ refs_dirty = {} /\ bpool_count = 1
    /\ free_blocks = {} /\ pre_free_blocks = {} /\ next_pool = 0
    /\ importing = {} /\ backup = FALSE /\ kept = NoClient /\ locked_by = NoClient
    /\ owner = NoClient /\ op = "none" /\ at = "out" /\ want = 0
    /\ cyc = 0 /\ taken_from_pool = FALSE
    /\ alloc = [c \in Clients |-> {}] /\ freed = [c \in Clients |-> {}]
    /\ sapo = [c \in Clients |-> NoSapo]
    /\ stage = [c \in Clients |-> "work"]
    /\ committer = NoClient /\ unwritten = {}
    /\ lost = {} /\ flush_left_out = FALSE /\ damaged = FALSE /\ crashes = 0
    /\ requests = 0

-----------------------------------------------------------------------------
(* bpools_sem and the pools *)

\* bpools_sem may be entered again by the client that has kept it.
Enters(c) == owner = NoClient /\ kept \in {NoClient, c}
Requests == requests < MaxRequests /\ requests' = requests + 1
\* The temporary stores of the operation have no meaning out of bpools_sem.
Leave == /\ owner' = NoClient /\ op' = "none" /\ at' = "out"
         /\ want' = 0 /\ cyc' = 0 /\ taken_from_pool' = FALSE

\* The lists and logs of a server that has just been started.  A broken
\* backup is completed before the threads start.
EmptyMemory ==
    /\ free_blocks' = {} /\ pre_free_blocks' = {} /\ next_pool' = 0
    /\ importing' = {} /\ backup' = FALSE /\ kept' = NoClient /\ locked_by' = NoClient
    /\ Leave
    /\ alloc' = [c \in Clients |-> {}] /\ freed' = [c \in Clients |-> {}]
    /\ sapo' = [c \in Clients |-> NoSapo]
    /\ stage' = [c \in Clients |-> "work"]
    /\ committer' = NoClient /\ unwritten' = {}

\* Changes of the bits in the pools.
set_bits(S) ==
    /\ fil_free' = fil_free \cup S
    /\ free_dirty' = free_dirty \cup S

InPool(S, pool) == {b \in S : PoolOf(b) = pool}
\* The bits of a pool that is searched: all blocks of an unreadable one.
read_bpool(pool) ==
    {InPool(fil_free, pool)} \cup (IF "read" \in MayFail THEN {FullPool(pool)} ELSE {})
\* The blocks S are taken from the bits read and the pool is written.  Blocks
\* in use become free if it was unreadable.
take_bits(bits, S) ==
    /\ fil_free' = (fil_free \cup bits) \ S
    /\ free_dirty' = free_dirty \cup S \cup (bits \ fil_free)
    /\ damaged' = (damaged \/ ~(bits \subseteq fil_free))

Max(m, n) == IF m < n THEN n ELSE m
Smaller(m, n) == IF m < n THEN m ELSE n

\* The beginning of lock_and_alloc, in get_block and expand_table_blocks.
lock_and_alloc(c, operation, count) ==
    /\ stage[c] = "work" /\ Enters(c) /\ Requests
    /\ operation = "get_block" => locked_by # c
    /\ owner' = c /\ op' = operation /\ cyc' = 0
    /\ IF count <= Cardinality(free_blocks)
       THEN at' = "take" /\ want' = count /\ taken_from_pool' = FALSE
       ELSE at' = "fill" /\ want' = Max(count, BLOCK_FILL_LIMIT)
            /\ taken_from_pool' = TRUE
    /\ UNCHANGED <<fileVars, listVars, modeVars, itemVars, commitVars, lost, flush_left_out,
                   damaged, crashes>>

\* Another pool is to be searched.
\* Slip: the search does not return to the first pool.
PoolAfterLast == next_pool + 1
FollowingPool == (next_pool + 1) % bpool_count
NextPool ==
    /\ next_pool' = FollowingPool
    /\ cyc' = cyc + 1
    /\ at' = IF cyc + 1 > bpool_count THEN "grow" ELSE "fill"

\* The lowest n blocks of a set.
Lowest(n, S) ==
    {L \in SUBSET S : Cardinality(L) = n /\ \A b \in L, d \in S \ L : b < d}

\* What lock_and_alloc finds in the bits of a pool.
Lack == want - Cardinality(free_blocks)
Found(bits) == Lowest(Smaller(Lack, Cardinality(bits)), bits)

\* A turn of the loop of lock_and_alloc: bits of a pool are moved to the list.
search_pool ==
    /\ at = "fill" /\ op # "get_big_block"
    /\ \E bits \in read_bpool(next_pool) : \E S \in Found(bits) :
          /\ free_blocks' = free_blocks \cup S
          /\ take_bits(bits, S)
          /\ IF Cardinality(S) = Lack
             THEN at' = "take" /\ UNCHANGED <<next_pool, cyc>>
             ELSE NextPool
    /\ UNCHANGED <<refs, refs_dirty, bpool_count, pre_free_blocks, modeVars, owner,
                   op, want, taken_from_pool, itemVars, commitVars, lost, flush_left_out,
                   crashes, requests>>

\* The pool cannot be written: the blocks stay in the list, and free in the
\* pool.  The request ends with OUT_OF_BLOCKS.
search_pool_error ==
    /\ at = "fill" /\ op # "get_big_block" /\ "pool" \in MayFail
    /\ \E bits \in read_bpool(next_pool) : \E S \in Found(bits) \ {{}} :
          free_blocks' = free_blocks \cup S
    /\ damaged' = TRUE
    /\ Leave
    /\ flush_left_out' = (flush_left_out \/ free_dirty # {})
    /\ UNCHANGED <<fileVars, pre_free_blocks, next_pool, modeVars, itemVars, commitVars, lost,
                   crashes, requests>>

add_new_pool ==
    /\ at = "grow" /\ bpool_count < MaxPools
    /\ set_bits(FullPool(bpool_count))
    /\ next_pool' = bpool_count
    /\ bpool_count' = bpool_count + 1
    /\ at' = "fill"
    /\ UNCHANGED <<refs, refs_dirty, free_blocks, pre_free_blocks, modeVars, owner, op,
                   want, cyc, taken_from_pool, itemVars, commitVars, histVars>>

\* The pool cannot be written: the request ends with OUT_OF_BLOCKS, blocks
\* found before stay in the list and the pools they are from are not flushed.
no_new_pool ==
    /\ at = "grow" /\ "pool" \in MayFail
    /\ Leave
    /\ flush_left_out' = (flush_left_out \/ free_dirty # {})
    /\ UNCHANGED <<fileVars, listVars, modeVars, itemVars, commitVars, lost, damaged, crashes, requests>>

\* unlock_allocation: flush_and_time if something is to be flushed.
unlock_allocation(flush) ==
    /\ IF flush THEN at' = "flush" /\ UNCHANGED <<owner, op, want, cyc, taken_from_pool>>
       ELSE Leave
    /\ locked_by' = NoClient

\* take_block_from_cache and page_allocated, for alloc_block.
get_block ==
    /\ at = "take" /\ op = "get_block"
    /\ \E block \in free_blocks :
          /\ free_blocks' = free_blocks \ {block}
          /\ alloc' = [alloc EXCEPT ![owner] = @ \cup {block}]
    /\ unlock_allocation(taken_from_pool)
    /\ UNCHANGED <<fileVars, pre_free_blocks, next_pool, importing, backup, kept, freed,
                   sapo, commitVars, histVars>>

\* get_block of the client which has locked the allocation.
get_locked_block(c) ==
    /\ stage[c] = "work" /\ Enters(c) /\ Requests /\ locked_by = c
    /\ \E block \in free_blocks :
          /\ free_blocks' = free_blocks \ {block}
          /\ alloc' = [alloc EXCEPT ![c] = @ \cup {block}]
    /\ UNCHANGED <<fileVars, pre_free_blocks, next_pool, modeVars, semVars, freed, sapo,
                   commitVars, lost, flush_left_out,
                   damaged, crashes>>

\* expand_table_blocks between the locking and the unlocking: new blocks are
\* referenced from the basic block of the table, out of the transaction.
\* want may be raised to BLOCK_FILL_LIMIT, the table takes fewer blocks then.
expand_table_blocks ==
    /\ at = "take" /\ op = "expand"
    /\ \E S \in SUBSET free_blocks :
          /\ Cardinality(S) \in 1 .. Smaller(want, MaxExpand)
          /\ free_blocks' = free_blocks \ S
          /\ refs' = refs \cup S
          /\ refs_dirty' = refs_dirty \cup S
    /\ unlock_allocation(TRUE)
    /\ UNCHANGED <<fil_free, free_dirty, bpool_count, pre_free_blocks, next_pool, importing,
                   backup, kept, itemVars, commitVars, histVars>>

\* Its errors: changes of the basic block are dropped, the blocks are not
\* returned.  After err2 the allocation is unlocked, after err1 it is not.
expand_err2 ==
    /\ at = "take" /\ op = "expand" /\ "expand" \in MayFail
    /\ \E S \in SUBSET free_blocks :
          /\ Cardinality(S) <= Smaller(want, MaxExpand)
          /\ free_blocks' = free_blocks \ S
          /\ lost' = lost \cup S
    /\ unlock_allocation(taken_from_pool)
    /\ UNCHANGED <<fileVars, pre_free_blocks, next_pool, importing, backup, kept,
                   itemVars, commitVars, flush_left_out, damaged, crashes, requests>>

expand_err1 ==
    /\ at = "take" /\ op = "expand" /\ "expand" \in MayFail
    /\ \E S \in SUBSET free_blocks :
          /\ Cardinality(S) <= Smaller(want, MaxExpand)
          /\ free_blocks' = free_blocks \ S
          /\ lost' = lost \cup S
    /\ Leave
    /\ kept' = owner /\ locked_by' = owner
    /\ flush_left_out' = (flush_left_out \/ taken_from_pool)
    /\ UNCHANGED <<fileVars, pre_free_blocks, next_pool, importing, backup, itemVars,
                   commitVars, damaged, crashes, requests>>

\* get_big_block takes adjacent blocks from a pool.
BigBlock(start) == start .. start + BigSize - 1
FreeBigBlocks(bits) == {start \in Blocks : start % ByteSize = 0 /\ BigBlock(start) \subseteq bits}

get_big_block(c) ==
    /\ stage[c] = "work" /\ Enters(c) /\ Requests
    /\ owner' = c /\ op' = "get_big_block" /\ at' = "fill" /\ cyc' = 0
    /\ want' = BigSize /\ taken_from_pool' = TRUE
    /\ UNCHANGED <<fileVars, listVars, modeVars, itemVars, commitVars, lost, flush_left_out,
                   damaged, crashes>>

\* If the file cannot be extended after the flush, the blocks are lost.
search_big_block ==
    /\ at = "fill" /\ op = "get_big_block"
    /\ \E bits \in read_bpool(next_pool) :
          \/ \E start \in FreeBigBlocks(bits) :
                /\ \A other \in FreeBigBlocks(bits) : start <= other
                /\ take_bits(bits, BigBlock(start))
                /\ \/ /\ alloc' = [alloc EXCEPT ![owner] = @ \cup BigBlock(start)]
                      /\ UNCHANGED lost
                   \/ /\ "extend" \in MayFail
                      /\ lost' = lost \cup BigBlock(start)
                      /\ UNCHANGED alloc
                /\ at' = "flush"
                /\ UNCHANGED <<next_pool, cyc>>
          \/ /\ FreeBigBlocks(bits) = {}
             /\ NextPool
             /\ UNCHANGED <<fil_free, free_dirty, damaged, alloc, lost>>
    /\ UNCHANGED <<refs, refs_dirty, bpool_count, free_blocks, pre_free_blocks, modeVars,
                   owner, op, want, taken_from_pool, freed, sapo, commitVars,
                   flush_left_out, crashes, requests>>

\* The pool with the big block cannot be written.
search_big_block_error ==
    /\ at = "fill" /\ op = "get_big_block" /\ "pool" \in MayFail
    /\ \E bits \in read_bpool(next_pool) : FreeBigBlocks(bits) # {}
    /\ Leave
    /\ flush_left_out' = (flush_left_out \/ free_dirty # {})
    /\ UNCHANGED <<fileVars, listVars, modeVars, itemVars, commitVars, lost, damaged,
                   crashes, requests>>

-----------------------------------------------------------------------------
(* Flushing *)

\* The pool with the most blocks in the list.
Best(pool) ==
    \A other \in Pools :
        LET m == Cardinality(InPool(free_blocks, pool))
            n == Cardinality(InPool(free_blocks, other))
        IN  n < m \/ (n = m /\ pool <= other)

\* A turn of the loop of reduce_free_blocks.  The blocks leave the list even
\* if the pool cannot be written; an unreadable pool is taken for an empty
\* one, whose free blocks are then forgotten.
save_to_pool(pool) ==
    /\ at = "flush" /\ Cardinality(free_blocks) > FREE_LIMIT_UP
    /\ Best(pool)
    /\ LET here == InPool(free_blocks, pool)
           unread == InPool(fil_free, pool)
           excess == Cardinality(free_blocks) - FREE_LIMIT_DOWN
       IN  \E S \in SUBSET here :
              /\ Cardinality(S) = Smaller(excess, Cardinality(here))
              /\ free_blocks' = free_blocks \ S
              /\ \/ set_bits(S) /\ UNCHANGED lost
                 \/ /\ "pool" \in MayFail
                    /\ lost' = lost \cup S
                    /\ UNCHANGED <<fil_free, free_dirty>>
                 \/ /\ "read" \in MayFail
                    /\ fil_free' = (fil_free \ unread) \cup S
                    /\ free_dirty' = free_dirty \cup unread \cup S
                    /\ lost' = lost \cup (unread \ S)
    /\ next_pool' = Smaller(pool, next_pool)
    /\ UNCHANGED <<refs, refs_dirty, bpool_count, pre_free_blocks, modeVars, semVars,
                   itemVars, commitVars, flush_left_out, damaged, crashes, requests>>

\* deallocation_move.
\* Slip: the blocks are forgotten.
ForgottenMove == free_blocks
deallocation_move == free_blocks \cup pre_free_blocks

\* ffa.flush does nothing during a hot backup.
FlushFileBuffers == free_dirty' = {} /\ refs_dirty' = {} /\ flush_left_out' = FALSE
no_flush == flush_left_out' = TRUE /\ UNCHANGED <<free_dirty, refs_dirty>>
flush == IF backup THEN no_flush ELSE FlushFileBuffers

\* The rest of flush_and_time, or of extflush.
Flushes == op = "extflush" \/ (importing = {} /\ FlushPeriod)
flush_and_time ==
    /\ at = "flush" /\ Cardinality(free_blocks) <= FREE_LIMIT_UP
    /\ IF Flushes THEN flush ELSE no_flush
    /\ free_blocks' = deallocation_move /\ pre_free_blocks' = {}
    /\ Leave
    /\ IF op = "extflush"
       THEN stage' = [stage EXCEPT ![owner] = "allocs"] /\ committer' = NoClient
       ELSE UNCHANGED <<stage, committer>>
    /\ UNCHANGED <<fil_free, refs, bpool_count, next_pool, modeVars, itemVars, unwritten, lost,
                   damaged, crashes, requests>>

\* A hot backup begins between commits.  The pages written from then on go to
\* an auxiliary file; they get to the database file when the backup ends, or
\* when the server is started after a failure.
do_backup2 ==
    /\ ~backup /\ committer = NoClient /\ Requests
    /\ backup' = TRUE
    /\ UNCHANGED <<fileVars, listVars, importing, kept, locked_by, semVars, itemVars,
                   commitVars, lost, flush_left_out, damaged, crashes>>
\* synchronize: "until unprepare() the flush was blocked, flushing now".
synchronize ==
    /\ backup
    /\ backup' = FALSE
    /\ FlushFileBuffers
    /\ UNCHANGED <<fil_free, refs, bpool_count, listVars, importing, kept, locked_by, semVars,
                   itemVars, commitVars, lost, damaged, crashes, requests>>

\* disable_flush and enable_flush around an import or ALTER TABLE.
disable_flush(c) ==
    /\ c \in Imports \ importing /\ stage[c] = "work" /\ Requests
    /\ owner # c
    /\ importing' = importing \cup {c}
    /\ UNCHANGED <<fileVars, listVars, backup, kept, locked_by, semVars, itemVars, commitVars,
                   lost, flush_left_out, damaged,
                   crashes>>
enable_flush(c) ==
    /\ c \in importing /\ stage[c] = "work"
    /\ owner # c
    /\ importing' = importing \ {c}
    /\ UNCHANGED <<fileVars, listVars, backup, kept, locked_by, semVars, itemVars, commitVars,
                   histVars>>

-----------------------------------------------------------------------------
(* Transactions *)

Working(c) == stage[c] = "work" /\ owner # c
Freed == UNION {freed[c] : c \in Clients}

\* release_block_safe and release_block_direct for the blocks of a set.
release_block_direct(S) ==
    /\ free_blocks' = free_blocks \cup S
    /\ UNCHANGED pre_free_blocks
release_block_safe(S) ==
    IF FlushPeriod
    THEN pre_free_blocks' = pre_free_blocks \cup S /\ UNCHANGED free_blocks
    ELSE release_block_direct(S)

\* Slip: the savepoint is not taken into account.
DropsAllocAlways(c, block) == block \in alloc[c]
\* page_deallocated: the block was allocated in the same transaction.
DropsAlloc(c, block) == ~sapo[c].on /\ block \in alloc[c]

\* t_translog::free_block.
free_block(c, block) ==
    /\ Working(c) /\ Requests
    /\ block \in (refs \cup alloc[c]) \ Freed
    /\ IF DropsAlloc(c, block)
       THEN /\ Enters(c)
            /\ alloc' = [alloc EXCEPT ![c] = @ \ {block}]
            /\ release_block_safe({block})
            /\ UNCHANGED freed
       ELSE /\ freed' = [freed EXCEPT ![c] = @ \cup {block}]
            /\ UNCHANGED <<alloc, free_blocks, pre_free_blocks>>
    /\ UNCHANGED <<fileVars, next_pool, modeVars, semVars, sapo, commitVars, lost, flush_left_out, damaged,
                   crashes>>

\* t_savepoints::create, rollback and destroy.
create_savepoint(c) ==
    /\ Working(c) /\ Requests /\ ~sapo[c].on
    /\ sapo' = [sapo EXCEPT ![c] = [on |-> TRUE, alloc |-> alloc[c], freed |-> freed[c]]]
    /\ UNCHANGED <<fileVars, listVars, modeVars, semVars, alloc, freed, commitVars,
                   lost, flush_left_out, damaged,
                   crashes>>

rollback_to_savepoint(c) ==
    /\ Working(c) /\ Requests /\ sapo[c].on /\ Enters(c)
    /\ release_block_direct(alloc[c] \ sapo[c].alloc)
    /\ alloc' = [alloc EXCEPT ![c] = @ \cap sapo[c].alloc]
    /\ freed' = [freed EXCEPT ![c] = @ \cap sapo[c].freed]
    /\ UNCHANGED <<fileVars, next_pool, modeVars, semVars, sapo, commitVars, lost, flush_left_out, damaged,
                   crashes>>

destroy_savepoint(c) ==
    /\ Working(c) /\ sapo[c].on
    /\ sapo' = [sapo EXCEPT ![c] = NoSapo]
    /\ UNCHANGED <<fileVars, listVars, modeVars, semVars, alloc, freed, commitVars,
                   histVars>>

\* rollback_allocs and the destruction of savepoints.
roll_back(c) ==
    /\ Working(c) /\ Requests /\ alloc[c] \cup freed[c] # {} /\ Enters(c)
    /\ release_block_direct(alloc[c])
    /\ alloc' = [alloc EXCEPT ![c] = {}]
    /\ freed' = [freed EXCEPT ![c] = {}]
    /\ sapo' = [sapo EXCEPT ![c] = NoSapo]
    /\ UNCHANGED <<fileVars, next_pool, modeVars, semVars, commitVars, lost, flush_left_out, damaged,
                   crashes>>

\* commit: pages with references are written one after another.
commit(c) ==
    /\ Working(c) /\ Requests /\ committer = NoClient
    /\ alloc[c] \cup freed[c] # {}
    /\ committer' = c
    /\ stage' = [stage EXCEPT ![c] = "write"]
    /\ unwritten' = (alloc[c] \ freed[c]) \cup (freed[c] \ alloc[c])
    /\ UNCHANGED <<fileVars, listVars, modeVars, semVars, itemVars, lost, flush_left_out, damaged,
                   crashes>>

write_reference(block) ==
    /\ committer # NoClient /\ stage[committer] = "write" /\ block \in unwritten
    /\ IF block \in freed[committer]
       THEN refs' = refs \ {block} /\ UNCHANGED alloc
       ELSE /\ refs' = refs \cup {block}
            /\ alloc' = [alloc EXCEPT ![committer] = @ \ {block}]
    /\ refs_dirty' = refs_dirty \cup {block}
    /\ unwritten' = unwritten \ {block}
    /\ UNCHANGED <<fil_free, free_dirty, bpool_count, listVars, modeVars, semVars, freed,
                   sapo, stage, committer, histVars>>

\* extflush at the end of commit_sem: it is not the time to flush, ...
no_extflush(c) ==
    /\ committer = c /\ stage[c] = "write" /\ unwritten = {}
    /\ importing # {} \/ ~FlushOnCommit
    /\ stage' = [stage EXCEPT ![c] = "allocs"]
    /\ committer' = NoClient
    /\ UNCHANGED <<fileVars, listVars, modeVars, semVars, itemVars, unwritten, histVars>>

\* ... or it enters bpools_sem.
extflush(c) ==
    /\ committer = c /\ stage[c] = "write" /\ unwritten = {}
    /\ importing = {} /\ (FlushOnCommit \/ FlushPeriod)
    /\ Enters(c)
    /\ stage' = [stage EXCEPT ![c] = "flush"]
    /\ owner' = c /\ op' = "extflush" /\ at' = "flush"
    /\ UNCHANGED <<fileVars, listVars, modeVars, want, cyc, taken_from_pool, itemVars,
                   committer, unwritten, histVars>>

\* commit_allocs and the destruction of savepoints.
commit_allocs(c) ==
    /\ stage[c] = "allocs" /\ Enters(c)
    /\ release_block_safe(freed[c])
    /\ alloc' = [alloc EXCEPT ![c] = {}]
    /\ freed' = [freed EXCEPT ![c] = {}]
    /\ sapo' = [sapo EXCEPT ![c] = NoSapo]
    /\ stage' = [stage EXCEPT ![c] = "work"]
    /\ UNCHANGED <<fileVars, next_pool, modeVars, semVars, committer, unwritten, histVars>>

-----------------------------------------------------------------------------
(* The end of the server *)

\* What save_to_pool loses when it cannot write some pools or read others.
Forgotten(unwritable, unreadable) ==
    {b \in deallocation_move : PoolOf(b) \in unwritable}
      \cup {b \in fil_free : PoolOf(b) \in unreadable \ unwritable}

\* close_block_cache when the server is stopped, and its next start.  Errors
\* of save_to_pool as above.  disc_close waits for the end of a hot backup,
\* which flushes.
close_block_cache ==
    /\ owner = NoClient /\ kept = NoClient /\ importing = {}
    /\ \A c \in Clients : stage[c] = "work" /\ alloc[c] \cup freed[c] = {}
    /\ LET saved == {pool \in Pools : InPool(deallocation_move, pool) # {}}
       IN  \E unwritable \in SUBSET saved, unreadable \in SUBSET saved :
              /\ unwritable # {} => "pool" \in MayFail
              /\ unreadable # {} => "read" \in MayFail
              /\ fil_free' = (fil_free \cup deallocation_move) \ Forgotten(unwritable, unreadable)
              /\ lost' = lost \cup Forgotten(unwritable, unreadable)
    /\ FlushFileBuffers
    /\ EmptyMemory
    /\ UNCHANGED <<refs, bpool_count, damaged, crashes, requests>>

\* expand_table_blocks writes the basic block before the flush that makes the
\* change of the pool lasting: a failure in between leaves the blocks free in
\* the pool and referenced.
ExpandUnflushed == at = "flush" /\ op = "expand"

\* The computer fails: what was not flushed may be on the disc or not.
Outcomes(S, dirty) == {T \in SUBSET (S \cup dirty) : S \ dirty \subseteq T}
crash ==
    /\ crashes < MaxCrashes
    /\ crashes' = crashes + 1
    /\ fil_free' \in Outcomes(fil_free, free_dirty)
    /\ refs' \in Outcomes(refs, refs_dirty)
    /\ free_dirty' = {} /\ refs_dirty' = {}
    /\ EmptyMemory
    /\ lost' = Existing \ (fil_free' \cup refs')
    /\ damaged' = (damaged \/ ~FlushPeriod \/ flush_left_out \/ ExpandUnflushed)
    /\ UNCHANGED <<bpool_count, flush_left_out, requests>>

\* The clients have nothing more to do.
finish == requests = MaxRequests /\ UNCHANGED vars

Next ==
    \/ \E c \in Clients :
          \/ lock_and_alloc(c, "get_block", 1) \/ get_locked_block(c) \/ get_big_block(c)
          \/ \E n \in 1 .. MaxExpand : lock_and_alloc(c, "expand", n)
          \/ disable_flush(c) \/ enable_flush(c)
          \/ \E block \in Blocks : free_block(c, block)
          \/ create_savepoint(c) \/ rollback_to_savepoint(c) \/ destroy_savepoint(c)
          \/ roll_back(c) \/ commit(c)
          \/ no_extflush(c) \/ extflush(c) \/ commit_allocs(c)
    \/ search_pool \/ search_pool_error \/ add_new_pool \/ no_new_pool
    \/ search_big_block \/ search_big_block_error
    \/ get_block \/ expand_table_blocks \/ expand_err2 \/ expand_err1
    \/ \E pool \in Pools : save_to_pool(pool)
    \/ flush_and_time \/ do_backup2 \/ synchronize
    \/ \E block \in Blocks : write_reference(block)
    \/ close_block_cache \/ crash \/ finish

Spec == Init /\ [][Next]_vars

-----------------------------------------------------------------------------
(* Properties *)

\* Blocks a transaction has taken from the lists or from the database.
Held(c) == alloc[c] \cup (freed[c] \ refs)

\* Every block is in one place: free in a pool, in one of the two lists,
\* referenced from the database, held by one transaction, or lost by an
\* error or failure.  A block in two places would be allocated twice; a
\* block in none would never be used again.  Two errors of lock_and_alloc do
\* put a block in two places and are excepted as damage: a pool that cannot
\* be written (see NeverReleasesFree), and one that is taken for free because
\* it cannot be read.
Places == <<fil_free, free_blocks, pre_free_blocks, refs, lost>>
BlocksAccounted ==
    ~damaged =>
        /\ Existing = fil_free \cup free_blocks \cup pre_free_blocks \cup refs \cup lost
                        \cup UNION {Held(c) : c \in Clients}
        /\ \A i, j \in 1 .. 5 : i # j => Places[i] \cap Places[j] = {}
        /\ \A c \in Clients : \A i \in 1 .. 5 : Places[i] \cap Held(c) = {}
        /\ \A c, d \in Clients : c # d => Held(c) \cap Held(d) = {}

\* A failure of the computer at any moment finds no block that is both free
\* in a pool and referenced, and no block that may be allocated, or is
\* allocated by a running transaction, is still referenced on the disc.
\* Excepted are the window ExpandUnflushed and the time from a flush that was
\* left out (during an import or a hot backup, or by an error) to the next
\* one that was made.
MayBeFree == fil_free \cup free_dirty
MayBeReferenced == refs \cup refs_dirty
SafeOnDisc ==
    FlushPeriod /\ ~flush_left_out /\ ~damaged /\ ~ExpandUnflushed =>
        /\ MayBeFree \cap MayBeReferenced = {}
        /\ free_blocks \cap MayBeReferenced = {}
        /\ \A c \in Clients : alloc[c] \cap MayBeReferenced = {}

\* What deallocation_move demands: a flush before any of the blocks moved to
\* free_blocks can be allocated, whatever else is going on.
FlushedBeforeAllocated ==
    FlushPeriod /\ ~damaged => free_blocks \cap refs_dirty = {}

\* What save_to_pool asserts ("Releasing 2 a free block"): the blocks it moves
\* from the list are not free in the pool.
NeverReleasesFree ==
    [][\A pool \in Pools :
          save_to_pool(pool) => (free_blocks \ free_blocks') \cap fil_free = {}]_vars

\* As long as a savepoint exists, the blocks allocated and freed before it
\* stay registered: rollback gives back neither a block that was allocated
\* before the savepoint nor one whose freeing it has to repeat in commit.
\* page_deallocated must not forget an allocation because of this.
SavepointItemsKept ==
    \A c \in Clients : sapo[c].on /\ stage[c] = "work" =>
        sapo[c].alloc \subseteq alloc[c] /\ sapo[c].freed \subseteq freed[c]

=============================================================================
