# Verification of the 602SQL server kernel

TLA+ models of the part of the 602SQL server where threads, locks, private
copies of pages and crashes meet; TLC runs that check the models on small
instances; TLAPS proofs for every instance. `PROJECT.json` maps each definition
to the source lines it translates and lists the runs, hazards, findings and
theorems. Line numbers below are those of `src/src/srv/`.

## 1. The system

602SQL is a relational server. Every client has a thread of the server (its
`cdp`). Below the SQL engine the kernel works with *pages* of one database file
(FIL), cached in *frames*; a transaction works on private copies of pages and
`commit` merges them into the file. The repository has no tests and no
design documents; the comments and the `AXIOM`s in the source are its
specification.

| Component | Source | State | Operations | Correct when |
|---|---|---|---|---|
| Block I/O locks | frame.cpp 37-153 | `dadrs[60]`, `last_used`, list `waiting_for_dadr`, a semaphore per client | `wait_lock`, `is_locked`, `unlock` | one thread at a time does I/O on a block; no wakeup is lost; waiting ends |
| Record and page locks | frame.cpp 2730-3125, frame.h | `lockbase` of each table: hash table of locks; log entry `LOCK_TAG` | `record_lock`, `record_unlock`, `page_lock`, `remove_my_tmplocks`, `unlock_user`, `remove_the_lock` | incompatible locks never coexist; locks end with their transaction; the table never loses a lock |
| Waiting for a lock | frame.cpp 2680-2730, 3265-3420 | `waits_for`, `lock_tbdf`, `time_limit` of each client; `cs_deadlock`; `hLockOpenEvent` | `wait_record_lock_error`, `is_deadlock`, `trace_lock_chain`, `lock_opened` | a granted request has its lock; deadlocks are found; waits end |
| Transaction file | frame.cpp 1130-1290, swbcdp.h | `alloc_map`, `srch_start`, `tjc_init_limit`, the file | `get_swap_block`, `free_swap_block`, `save_block`, `save_tjc_block`, `free_tjc_blocks`, `invalidate_tjc_block` | a block has one user; none is lost |
| Private pages and commit | frame.cpp 560-1130, kurzor.cpp 4811-5165 | frames and swaps of each page and client; `translog` | `fix_priv_page`, `get_frame`, `wr_changes`, `remove_changes`, `make_swapped`, `commit`, `roll_back` | a commit never overwrites another one; nothing of a rolled back transaction stays |
| Restart | maintan.cpp 1096-1127, dispatch.cpp 1800-1822 | TJC blocks of the transaction file | `restoring_actions`, `frame_management_reset` | after a crash a transaction is in the file as a whole or not at all |
| Frame cache | frame.cpp 160-560, 640-900 | `fcbs`, hash chains, fix counts, LRU | `get_frame`, `fix_any_page`, `unfix_page` | one shared frame per page; a fixed frame is not taken |
| Log and savepoints | frame.cpp 1661-2257, 2498-2678, comptab.cpp 3090-3192, 5310-5403 | items of changes, allocations, locks; list of savepoints with copies of pages | `page_changed`, `create`, `rollback`, `destroy`, atomic blocks | rollback to a savepoint undoes exactly what came after it |
| Index synchronisation | frame.cpp 1295-1658, 2861-2923 | `t_index_uad`, root locks | `lock_all_index_roots`, merging of private index changes | replayed index changes equal the committed ones |
| Disk space | ffa.cpp 2000-2414, table.cpp 1211-1310 | free list, predeallocated list, pools on the disc | `get_block`, `get_big_block`, `release_block_safe`, `deallocation_move`, `extflush` | a block is allocated once; it is not reused before a flush |
| Integrity check planning | maintan.cpp 1131-1208 | plan and state of the check | planning steps | the check starts when planned and once |
| File access, B-trees, heap, tables, cursors, SQL, rights, dispatcher, network, replication, fulltext, backup, client libraries | other files | | | see section 8 |

How they interact. A client thread calls all of it directly. The shared state
is guarded by critical sections: `cs_frame` (frames, `dadrs`), `cs_locks` (lock
tables), `cs_deadlock` (walks over chains of waiting clients), `cs_trans`
(`alloc_map`), `bpools_sem` (free blocks of the file), `commit_sem` (one secured
commit at a time). The hard behaviour
is where one of them is left: `wait_lock` leaves `cs_frame` to sleep;
`wr_changes` leaves it to write; `is_deadlock` takes `cs_locks` anew for every
link of the chain; `get_swap_block` reads `srch_start` before it enters
`cs_trans`; `commit` leaves `commit_sem` before it rolls back; `get_frame` swaps the victim
outside `cs_frame`; blocks are flushed while others free more; and the server
may die between any two writes. These places are the hazards of `PROJECT.json`.

## 2. Modules

One stay inside a critical section is one action.

**`DadrLocks`** (class `dadr_locks_class`). State: the array, `last_used`, the
waiting list (a set; that its links are never used twice is `NotQueuedTwice`, which
is proved), the semaphores, and for each thread the cells of its first lock
(`outer`) and of the lock `get_frame` takes on the victim's block (`inner`).
Actions: `wait_lock`, `wait_lock_victim`, `lock_retry`, `sem_wait`, `SleepEnd`
(the two seconds when the array is full), `unlock_victim`, `unlock`. Here any
thread may lock any block; who really does is in the next module.

**`FrameCache`** (frame.cpp 160-1070) puts the frames on top of `DadrLocks`, which
it EXTENDS: each of its steps does a step of `DadrLocks` or leaves it alone.
State: `fcbs` (page, owner, dirty, fix count, membership in a chain, contents),
`swaps` (swap control blocks), the pages on the disc, the log of each client,
the frames it has fixed, and `op`, the call it is in with its local variables.
`cs` is the client that stays in `cs_frame` in the middle of a call; it is left
exactly where the code leaves it. Actions: `fix_page` (the entry of
`fix_any_page` and `fix_priv_page`), `wait_for_block` and `retry_page` (the lock
of the page), `fix_own`, `fix_shared`, `fix_get_frame`, `read_block`,
`load_block`, `unfix_page`; `get_frame` in its outcomes `get_frame`,
`get_frame_swapping`, `retry_victim`, `sleep_for_frame`, `no_frame`,
`save_block`; `rec_changed`; `commit` with `wr_changes`, `write_block`,
`update_swapped`, `load_other`, `wr_end`; `roll_back` with `remove_changes`; and the
failing outcomes of reads, swaps and the search of a frame. Its abstractions:
- any frame that may be the victim may be chosen (the LRU times are left out),
  and chains have no order;
- a page has one record of each client, FALSE until it is changed; a commit
  writes a record, the copies of others get it;
- SecureTransactions is off (the journal is in `SecureCommit`), system, new and
  long-object pages and index pages are not here;
- a client calls `commit` with no frame fixed (the code only warns of it, 909-911)
  and does not fix a page it has fixed already (which would add one to `fixnum`);
- errors of writing a page are left out: the code does not look at them (627-637,
  966, 1062). The sleep of a client with many frames fixed (368-372) only delays
  it, and `no_frame` is one step although the code leaves `cs_frame` to warn
  (402-404) before it returns;
- where the code loses a page, `broken` becomes TRUE and the model ends. This
  happens in two places. `get_frame` (410-434) takes the victim out of its chain
  and calls `wait_lock`, which leaves `cs_frame` and sleeps if the array is full:
  who looks for the page meanwhile does not find it (`fix_misses`, `wr_misses`,
  `update_misses`, `remove_misses`). And when no frame is found while `wr_changes`
  unswaps a page, its swap control block is out of the chain already and nobody
  puts it back (`wr_err`; 616-625, 955, 1003).

**`Locks`** (lock API and waits). State: `locks`, a bag of locks for each
client, object and type; `logged`; the registered request of each client
(`waits_for`, `want`, `timed`, `expired`), the state of the walk in
`cs_deadlock`. Actions are the handlers `wait_record_lock_error`,
`record_unlock`, `remove_my_tmplocks`, `unlock_user`, `remove_user_rlocks`,
`remove_the_lock`, `request_init`, and the steps of a wait: `RegisterRequest`,
`enter_is_deadlock`, `is_deadlock` (one link of the chain), `trace_lock_chain`
(one link of the trace, with the lock attempt it makes), `GiveVerdict`,
`EndOrWait`, `wait_for_lock_opened`, `SleepTimeout`, `lock_opened`.
`unlock_user` (3113) takes any user; it is called with the client's own
(kurzor.cpp 1409, 2059), and so it is here. `remove_user_rlocks` calls `lock_opened`
before it leaves `cs_locks` (3062); here this is a step of its own, as in the
other handlers, which gives more interleavings and not fewer.
`try_locking` returns a set: which blocking client it meets first depends on
the order of cells, which is not here. It models one table; page locks use the
same class and are the instance without `FULLTABLE`. The event is that of the
Linux build: a broadcast reaches only those who sleep, and a client without a
time limit calls `pthread_cond_wait`.

**`LockTable`** (class `t_locktable`) is the hash table with open addressing
under `Locks`: `insert`, `resize` cell by cell (`rehash`), `remove_lock`,
`simple_remove_lock`, `unlock_user_tab`, `remove_my_tmplocks` with its
shrinking. **`LockBag`** is its abstract specification: a bag of locks in which each
request changes exactly what it is about. `Add` adds one lock; `Remove` removes or
converts one lock of an object, owner and type that is there; `Drop` takes all locks
of an owner, all its temporary ones, or all of an owner on an object, and no other.
While the table is being copied (`copying`) the bag does not change and no other
request is served; `EndCopying` adds the one lock that was waiting, if any.
`IsLockBag` says that the table implements this:
`Bag == INSTANCE LockBag WITH bag <- ...` counts the cells of the table and the
cells `resize` has still to copy, so a cell that is left out or copied twice is a
change of the bag in the middle of copying. This justifies the bag in `Locks`.

**`Transactor`** (class `t_transactor`) is the allocation of blocks in the
transaction file, with the unprotected read of `srch_start` as a step of its
own. `held` is a history variable: who has got which block. It is checked by itself
(`swap_blocks`: two threads take blocks of several cells) and under
`Savepoints`, which adds what the blocks are used for.

**`Savepoints`** (class `t_savepoints`, the SQL statements SAVEPOINT, RELEASE and
ROLLBACK TO, atomic blocks with UNDO and REDO) EXTENDS `Transactor`: the copies of
pages in a savepoint are in blocks taken and returned by its actions. State: the
committed pages, each client's log with its private copies and change maps, the
list of savepoints, the atomic blocks being executed, and the progress of loops
that take or free one block after another. Pages of records have a change map;
a page of `FullPages` is changed as a whole and may be freed. The histories
`mine` and `ref` say what a client should see and what the file should hold.
`Forgotten` are the blocks a client holds and no savepoint of it needs. Left out:
savepoints identified by a number (`sapo_target`, comptab.cpp 5290-5303, 5382), the
checks that a statement is not in a trigger or an expression (5317-5322,
5351-5356), the restore of an index page as a whole (2636; it behaves as a page
of `FullPages`), and a failed write of a copy (it ends as a full file does).
The constant `Programs` names four things an SQL program may do for which the
code gives a wrong result: to change a record that another client has committed
after the savepoint, to free a page changed before the savepoint, to name in an
atomic block a savepoint from outside of it, and to use a savepoint that UNDO has
gone past. The passing run leaves them out, `savepoint_stale` has the first; the
others are in section 4.

**`DiskSpace`** (class `t_disk_space_management`, the allocation items of `t_log`,
`expand_table_blocks`). State: `fil_free` and `refs` (bits of pools and references
in the file) with the parts of them that are not flushed yet, the lists
`free_blocks` and `pre_free_blocks`, who is in `bpools_sem` and where, clients that
suppress flushes during an import, whether a hot backup runs, the items of each
client's transaction and savepoint. Actions: `lock_and_alloc`, `search_pool`,
`search_pool_error`, `add_new_pool`, `no_new_pool`, `unlock_allocation`, `get_block`,
`expand_table_blocks`, `get_big_block`, `search_big_block`, `search_big_block_error`,
`save_to_pool`, `flush_and_time`, `extflush`, `disable_flush`, `enable_flush`,
`do_backup2`, `synchronize`, `free_block`, `create_savepoint`, `rollback_to_savepoint`,
`destroy_savepoint`, `roll_back`, `commit`, `write_reference`, `commit_allocs`,
`close_block_cache` (the end of the server and its next start), `crash`. A crash is a
failure of the computer: of everything written since the last flush any part may be
lost, each bit and each reference on its own. Lists are sets; a block is allocated to
a client, referenced by pages, or free in one place. What goes wrong is in three
history variables:
- `lost`: blocks nobody will find again. The errors of `expand_table_blocks`, a
  `save_to_pool` that cannot read or write the pool, a big block for which the file
  cannot be extended (2376), and what a crash forgets;
- `flush_left_out`: `deallocation_move` was done without a flush: during an import,
  during a hot backup (`ffa.flush` does nothing then, 1057), or because a request
  ended with an error after pools had been written. A real flush ends it;
- `damaged`: the pools are wrong. A pool that could not be read was taken for one that
  is all free (2242, 2353), a pool could not be written after its blocks had got to
  the list (2266), or the computer failed while `flush_left_out`, while
  `ExpandUnflushed`, or with flushing off.

`MayFail` says which operations may fail. The contents of the auxiliary file of a
backup are not here: pages are written to it and it is copied back when the backup
ends, or by the next start; what matters to the blocks is that nothing is
flushed until then.

**`SecureCommit`** composes private pages, the transaction file, `commit`,
crashes and `restoring_actions`, for a server with SecureTransactions on. The
content of a page is the set of changes made in it, so that "the copy has lost
a committed change" and "the page has a change of a rolled back transaction"
can be said. `core[c][p]` is the sequence of frames of client `c` for page `p`
(normally one at most), `swapdadr` its swap, `shared` the shared frame of the
pages in `SystemPages`, `log` the private pages in the client's log. Actions:
`fix_priv_page`, `unswap_block`, `page_changed`, `get_frame` (somebody takes
the frame), `fix_any_page`, `get_shared_frame`, `roll_back`; `commit`,
`make_swapped`, `save_dependent`, `save_leader`, `save_tjc_fails`,
`wr_nothing`, `wr_changes` and `write_block` (before and after the write
outside `cs_frame`), `end_of_commit`; `crash`, `init_tables`, and the steps of
`restoring_actions`: `load_tjc`, `restore_pair`, `follow_chain`,
`transaction_restored`, `end_of_restoring`. Its abstractions:
- a crash is a kill of the process: writes that returned are kept, in order;
- a rollback is one step, and so is `get_swap_block` (its race is in
  `Transactor`);
- pages have records (the `chngmap` case of `wr_changes`): clients change
  different records of a page, which the locks of `Locks` ensure. Index pages
  are in the log as private pages too, so the TJC has them, but their merging
  is index synchronisation;
- `todo` is visited in any order: the order of the hashed log is arbitrary;
- what `commit` does after it leaves `commit_sem` with an error is the call of
  `roll_back`, a step that comes later (`failed`).

**`MC*`** modules add symmetry sets and constant values for the runs;
**`*_proofs`** modules hold the theorems.

## 3. Runs

| Run | Shows |
|---|---|
| `frames` | Two clients change and read pages in a cache of two frames with two block locks; both resources run out; reads and swaps fail. `FixedViewExact`: a client that fixes a page sees the committed records and its own changes. `CommitExact`: the file gets exactly what was committed. `PrivateCopiesCurrent`: no private copy lacks another client's commit. `ChangedPageFound`: a changed page of the log is in core or swapped, at every moment somebody may look. `BlockIOExclusive`, `NoLostWakeup` of the block locks under their real callers, and with fairness `WaitingEnds`: nobody waits on its semaphore for ever, except for the lock of a victim or after a lost page. |
| `locks_waits` | Two clients, locks of a record and of the whole catalog table, conversion of WLOCK to TMPWLOCK; waits that end by a grant, a limit, a break or lack of memory. `NoConflictingLocks`, `TempLocksLogged`, `GrantedIsHeld`; with fairness `TimedWaitEnds`: with a time limit the call returns even if nobody ever releases a lock. |
| `locks_cycle` | Three clients, exclusive locks on three records, no limits: `NoSleepingCycle`, the clients of a deadlock do not all sleep, also if they closed the cycle at the same moment, and with locks removed by an administrator. |
| `locks_event` (violation) | `FreeLockIsNoticed`: finding 1. |
| `lock_table` | Table of 0, 6 and 12 cells, colliding objects, wrap-around, shrinking: `CountsExact`, `SearchEnds`, `LocksReachable` and the refinement `IsLockBag`: a request changes the bag by what it asks for, copying a table changes nothing. |
| `savepoints` | Two clients, named savepoints, atomic blocks and UNDO, a transaction file that may be full. `ViewExact`: after a rollback to a savepoint a client sees exactly what it saw then, and others' commits. `CommittedExact`: a commit loses nothing and adds nothing. `AtomicIndexExact`: the index an atomic block remembers is that of its savepoint. `CopiesHeld`: the blocks of savepoints belong to their client and to one savepoint. `OnlyFailedCreateForgets`: no step but the error exit of `create` leaves a block allocated that no savepoint needs. |
| `savepoint_stale` (violation) | `CommittedExact` for a program that changes a record committed by another client after the savepoint: finding 4. |
| `swap_blocks` | Two threads take and free swap blocks and TJC blocks of three cells. `BlocksExclusive`: although the start of a search may be stale, no block is handed out twice. |
| `commit_shared_pages` | Two clients on the same two pages, swapping at any moment, swaps that fail: `CopiesCurrent` (no commit is overwritten by another one), `SwapSpaceExact`, `CopiesLogged`, `OneLeader`. |
| `commit_crash` | One client, two transactions, a page whose shared frame others read and drop, two crashes anywhere, journal writes that fail: `Durable`, `OnlyCommitted`, `OneLeader`, `SharedCurrent`, and with fairness `StartEnds`. |
| `disk_space` | Two clients, pools, both lists, flushes and their suppression, tables and big blocks, savepoints, hot backups, pools that cannot be read or written, other errors, a failure of the computer and a restart. `BlocksAccounted`: until `damaged`, every block is in exactly one place; the blocks the error paths of the code lose are one of them. `SafeOnDisc`: whatever part of the unflushed writes is lost, no block is both referenced and free, from each real flush to the next one left out. `SavepointItemsKept`: what a rollback to a savepoint must return is still in the log. |
| `commit_reused_block` (violation) | `OnlyCommitted` with a second client: finding 2. |

Four more configurations reproduce findings of section 4. They are not in the list of
runs; TLC ends each of them with a violation.

| Configuration | Violates |
|---|---|
| `MCSecureCommit_failed.cfg` | `CopiesLogged` after a failed journal write: finding 3 |
| `MCTransactor_start.cfg` | `NoFreeBelowStart`: finding 5 |
| `MCDiskSpace_write.cfg` | the action property `NeverReleasesFree`: finding 6 |
| `MCDiskSpace_backup.cfg` | `FlushedBeforeAllocated`: finding 7 |

### Bounds

| Bound | Code | Runs | Why it is enough |
|---|---|---|---|
| `MaxDadrLocks` | 60 | 2 | full as soon as both clients have a lock; the proofs hold for any number |
| `Dadrs`, `Frames`, `MaxFix` | file, memory | 3, 2, 1 | fewer frames than pages, and none free when both clients have one fixed; one page is changed by both clients |
| `MaxCells` | none | 1 | cells of a client on an object. A client that has one cannot ask for a second one before it is converted or released, except through the trace of a timeout, which may add one more |
| `ChainLimit` | 10 | 3, 4 | a cycle of all clients is shorter, so a limit reached only by a longer chain is met and passed |
| `MaxSize`, `MaxLocks` | memory | 12, 4 | the table is created, grows and shrinks once; a failure to grow is possible at each size |
| `ProductOf` of FULLTABLE | 17*(2^32-1) mod 2^32 = 2^32-17 | 23 | the same remainder for tables of 6, 12 and 24 cells |
| `CellSize` | 32 | 2-4 | one TJC block and one or two swap blocks; in `swap_blocks` several cells are in use; in `savepoints` the file may be full |
| `Cells` | file | 1-4 | in `SecureCommit` enough for all copies and journals of the instance (the code makes the file longer); `Transactor` has the case when `alloc_map` cannot grow |
| `TjcPairs` | 511 | 1, 2 | with two pages a commit has one TJC block, or a leader and a dependent |
| `MaxTrans`, `MaxCrashes` | none | 1-2 | a second transaction finds what the first one or a crash left behind; the second crash may hit the restart |
| `MaxSapos`, `MaxNumber` | 1000, 0x7fff | 2, 3 | the limit is reached; numbers wrap round |
| `MaxWrites`, `MaxStatements` | none | 3, 4 | a change before, between and after two savepoints; two of them can be nested, destroyed and recreated |
| `PoolSize`, `MaxPools` | 32768, file | 3, 2 | the first pool is used up and the second added or not |
| `FREE_LIMIT_UP`, `FREE_LIMIT_DOWN`, `BLOCK_FILL_LIMIT` | 800, 150, 400 | 1, 1, 2 | the list is filled from a pool and emptied to one |
| `MaxRequests` | none | 5 | allocate, free, commit, and a second client that reuses the block |
| `Explored` (constraint of `disk_space`) | | | states with `damaged` are reached and checked, and not continued: nothing but types and `SavepointItemsKept` is claimed of them. An import or a backup that runs, and a failure of the computer, take the place of one request each: three requests are left for free, commit and get_block during a backup, four after or before a failure |

Symmetry is used in safety runs only, on sets whose members nothing
distinguishes. Deadlock is checked except in `locks_cycle`: with
`pthread_cond_wait` all clients may sleep for ever beside a free lock, which is
finding 1. `SecureCommit`, `DiskSpace` and `Savepoints` stop only when the bound of
transactions, requests or statements is reached (`finish`), `FrameCache` only when
a page is lost (`Lost`).

### Fairness

Threads of the operating system that can run do run: weak fairness of the steps
of a thread that depend on nobody (`CallStep` in `FrameCache`, `WaitStep` in
`Locks`, `start` in `SecureCommit`). Entering
`cs_deadlock` and the passing of a time limit get strong fairness: the section
is free again and again and a critical section does not starve a thread for
ever; the clock goes on while others walk. No fairness is assumed of requests:
nobody has to ask for a lock or to release one, and the crash is never forced.

## 4. Findings

1. **A client without a time limit may sleep beside a free lock** (`locks_event`,
   frame.cpp 2720). The comment at 2680 describes how a broadcast is missed and
   says the wait has a timeout of 100 ms. On Windows it has; on Linux
   `time_limit == 0` means `pthread_cond_wait` without one. If no other client
   ever unlocks anything the client sleeps for ever.
2. **A released swap block is still in a valid journal** (`commit_reused_block`,
   frame.cpp 958). `wr_changes` frees the swap block of each page it writes,
   but the leader stays valid until the end of `commit` (kurzor.cpp 5133). If
   another client's page is swapped to the freed block and the server dies,
   `restoring_actions` copies that page, uncommitted and of another number, over
   the committed one. With one client, and so without reuse, `commit_crash`
   shows that the protocol is right.
3. **A copy survives its rollback** (`MCSecureCommit_failed.cfg`, frame.cpp 1054). After a
   commit that could not write its journal a page is both in core and swapped,
   as frame.cpp 1033 says. Between that and `roll_back`, which is called outside
   `commit_sem`, the commit of another client unswaps the copy to a second
   frame. `remove_changes` removes one frame only; the other one is used by the
   client's next transaction, with the rolled back changes in it.

4. **Rollback to a savepoint brings an old value back** (`savepoint_stale`,
   frame.cpp 2609). The comment says that the change map of a page is not reduced
   by a rollback, "no harm". The copy of a page in the savepoint is not updated by
   the commits of other clients. If a client changes a record that another one
   has committed after the savepoint and then rolls back to the savepoint, the
   record of the old copy is taken, it stays in the change map, and commit writes
   the old value over the committed one.

5. **Free swap blocks below the start of the search** (`MCTransactor_start.cfg`,
   frame.cpp 1148). swbcdp.h 216 states the axiom "no free blocks in alloc_map below
   srch_start". `get_swap_block` reads `srch_start` outside `cs_trans`; another thread
   frees a lower block and lowers `srch_start`; the first one finds a block from its
   old start and raises `srch_start` over the free one, which is unused until a
   block below it is freed. The file gets longer; no block is handed out
   twice (`swap_blocks`).
6. **Blocks in the list and free in the pool** (`MCDiskSpace_write.cfg`, ffa.cpp 2266).
   `lock_and_alloc` puts blocks to `free_blocks` before it writes their pool, and its
   error exit leaves them there. They can be found in the pool a second time, so they
   may be allocated twice. The trace ends at the moment the code itself notices it:
   `save_to_pool` reports "Releasing 2 a free block" (2113).
7. **No flush during a hot backup** (`MCDiskSpace_backup.cfg`, ffa.cpp 1057). 2086 says that a
   flush must be done before predeallocated blocks can be allocated. During a hot backup
   `ffa.flush` returns at once and `flush_and_time` goes on with `deallocation_move`, so
   a block freed by a commit can be allocated and overwritten before anything of that
   commit is on the disc. If the computer fails then, an old page may refer to a block
   with new contents.

Other disagreements between comments and code met while modelling. The models
have this behaviour, and no run is devoted to it:
- `get_frame` says at frame.cpp 432 that `wait_lock` does not wait because the
  block was checked before. With the array of 60 locks full it does wait (113
  notes that this has happened), outside `cs_frame`, with the victim out of its
  chain: a changed page is not found, another copy of it is read from the disc.
  `FrameCache` has this as `broken`. And a thread that sleeps so holds its first
  lock; if all the others do the same, they retry for ever and the axiom at 45
  does not hold. `WaitingEnds` excepts threads at a victim.
- `unswap_block` (616-625) loses the swap control block when `get_frame` fails;
  in `commit` the caller (955, 1003) goes on without an error, with the change of
  the page lost.
- `drop_page_changes` is "called ONLY when" (2003) a page was allocated directly;
  it is called for every page a transaction frees, so rollback to a savepoint
  cannot restore a page changed before the savepoint and freed after it.
- An atomic block remembers the index of its savepoint (comptab.cpp 3105) and
  rolls back to it (3167) or destroys it (3187). A RELEASE or ROLLBACK TO of an
  outer savepoint inside the block shifts the indexes. UNDO keeps the savepoints
  made inside the block (3168), so a later ROLLBACK TO one of them brings undone
  changes back.
- When `create` of a savepoint fails (2598-2603), the swap blocks it has written
  stay allocated until the next start of the server. `OnlyFailedCreateForgets` has this
  exit as its only exception.
- `expand_table_blocks` on its error path (table.cpp 1298) leaves `bpools_sem`
  locked, against the comment at 1211, and its blocks are lost.
- `bas_acc.close` (table.cpp 1284) writes references to new blocks before the pool
  they came from is flushed: a crash of the computer in between leaves them
  referenced and free (`ExpandUnflushed`, excepted in `SafeOnDisc`).
- With flushing disabled for an import, `flush_and_time` (ffa.cpp 2179) moves the
  predeallocated blocks without a flush, although 2235 asks for it
  (`flush_left_out`).
- A pool that cannot be read is taken for a free one when blocks are looked for
  (2242, 2353) and for an empty one when blocks are returned to it (2104). `damaged`
  and `lost` have these.
- When a time limit passes, `trace_lock_chain` calls `record_lock` (3300) and
  may get the lock, yet the client is told of an error. The comment at 3364 says
  an error means that the lock was not granted. `TempLocksLogged` shows that a
  temporary lock is released at the end of the transaction anyway.
- The links of a chain are asked in different stays in `cs_locks` (3326), so
  `is_deadlock` may refuse a request although there was no cycle at any moment.
- `is_deadlock` follows one conflicting owner of each lock (3326). A client that waits
  for two readers follows one of them; if that one leaves while the client is
  between the walk and the sleep, it misses the broadcast and sleeps on a cycle
  with the other reader. Hence `NoSleepingCycle` is about exclusive locks.
- `remove_lock` turns WLOCK to TMPWLOCK (2953) without looking for an existing
  TMPWLOCK, so a client may have two of them although frame.h 257 says that
  temporary locks are only once in the table.
- ANY_LOCK in `record_unlock` removes the first lock found (2958); wbdefs.h 200
  reads as if it meant all of them.
- `make_swapped` masks a failed swap (1109): the page is missing from the
  journal and a crash may leave half a transaction. Hence crashes and failing
  swaps are in different runs.
- TJC blocks saved before a failure of `save_tjc_block` stay allocated in
  `alloc_map` until the next start.

## 5. Proofs

All theorems are about the specifications without fairness and hold for every
value of the constants that satisfies the `ASSUME`s of the modules (sizes are
natural numbers, special values differ from ordinary ones). Each is
`Spec => []P`, from an inductive invariant, or an implementation `Spec1 => Spec2`.
A theorem that holds for a part of the behaviours only (one client, no failing
writes, ordinary programs) has that part as a hypothesis on the constants,
`ASSUME H PROVE Spec => []P`. Outside of it the property is false, by a finding of
section 4, or the entry below says why.

- **`DadrLocks_proofs`**: `TypeCorrect`, `BlockIOIsExclusive`, `NoWakeupIsLost`,
  `NeverQueuedTwice`. The properties are not inductive alone: exclusiveness
  depends on the scan seeing every used cell (`UsedCellsScanned`: no used cell
  above `last_used`, though `unlock` lowers it by one only), on a block being in
  one cell only (`OneCellPerBlock`) and on cells of threads being used and
  different (`HeldCellsUsed`, `HeldCellsOwn`). The wakeup depends on what a
  registered thread waits for (`Waiters`, `Pending`). There is a lemma per
  outcome of `wait_lock` and one for `unlock`.
- **`FrameCache_proofs`**: `ImplementsDadrLocks` (`FrameSpec => Spec`): whatever the
  cache does, the block locks see only the operations of their class, so
  everything proved in `DadrLocks_proofs` holds under the real callers;
  `FrameIOIsExclusive` is that for `BlockIOExclusive` and `NoLostWakeup`.
  `FrameTypeCorrect` is the type invariant. Both need `FrameInv`: the types of
  calls, control blocks and swaps, `CallVariables` (which local variables of a
  call have a value at which place: a call that waits has a page, one that writes
  has a frame) and `PrivateHasPage` (a private frame has a page, so that the
  victim's lock is asked for a real block). Lemmas say that a step changes one
  call, one control block or one swap at a time.
- **`FrameContents_proofs`**: `FixedViewIsExact`, `CommitIsExact`,
  `PrivateCopiesAreCurrent` and `ChangedPageIsFound`, what clients see and what
  commits write, for any number of clients, pages, frames and block locks, with
  reads and swaps that fail. They follow from `CacheInv`, which is about the states
  before the code loses a page (`broken`; the model ends there) and has six parts.
  `CallsInv` and `LockingInv` say which variables and which block locks a call has at
  each place; with the invariant of `DadrLocks` it follows that the pages calls work
  with are apart (`LockedApart`), and this is why a page can be saved, loaded or
  written outside `cs_frame`. `UseInv`: `fixnum` is the number of clients that have
  the frame fixed or work with it, so a victim is nobody else's. `CopiesInv`: a client
  has one private copy of a page, in core or swapped, and a swap in progress belongs
  to one call. `ContentsInv`: a private copy has the client's last change and the
  commits of the others (a swapped copy only after the committer has got to it), a
  changed page is there until it is written, and the file has what was committed.
  `SharedInv`: shared copies are as the file. None of the four properties is
  inductive without all the parts: what commit writes depends on which copy it finds,
  that on who may be swapping it, and that on the block locks.
- **`Locks_proofs`**: `TypeCorrect`, `LocksAreCompatible`, `TempLocksAreLogged`
  from `LocksInv == TypeOK /\ Walk /\ NoConflictingLocks /\ TempLocksLogged`.
  `Walk` says that a client inside `is_deadlock` is the one in `cs_deadlock` and
  that the chain stands at a client. Every step changes the locks in one of the
  ways of `LockChange` (a grant, a removal or conversion, a mass removal); that
  each of them keeps the two properties is proved once, whoever makes the step.
  `GrantedLockIsHeld` (if no administrator removes locks, `~AdminUnlocks`; else he may
  remove the granted lock) needs `Waits`: a client with a registered request is
  between `RegisterRequest` and `EndOrWait`, so it releases nothing.
  `ExclusiveDeadlockIsFound` is `NoSleepingCycle` for exclusive locks of records, any
  number of clients and any chain limit. The strengthening is `CyclesWatched`: of
  every set of clients that wait for each other somebody has still to look, or
  walks inside the set, or has a verdict on one of them. A walk that is inside such
  a set cannot leave it, because an exclusive lock has one owner (`HeldUsed`,
  `NoConflictingLocks`), and the last one to register has still to look.
- **`LockTable_proofs`**: `TypeCorrect`, `CountersAreExact`, `SearchesEnd`,
  `LocksAreReachable` from
  `TableInv == TypeOK /\ CountsExact /\ Room /\ LocksReachable`. `Room` is the
  strengthening: outside `resize` fewer cells are used than there are, and
  inside it the new table has room for what is still to be copied and for the
  lock that waits. It follows from the limits 3/4 and 4/5 in
  `no_space_for_new_lock`, for every size that 6, 12, 24... may reach.
  `ImplementsLockBag` (`Spec => IsLockBag`): the table is the bag of locks that `Locks`
  takes it for, and each of its steps is the step of `LockBag` for the same request,
  or leaves the bag alone. A step that writes one cell changes the number of cells
  with one lock by one. During `resize` the bag is the new table and the rest of the
  old one, and `rehash` moves one lock from the second to the first: for `LockBag`
  nothing happens. The last step of the copying is `EndCopying`.
- **`Savepoints_proofs`** begins with `Transactor`: `TypeCorrect`, `BlocksAreExclusive`
  from `TransactorInv == TypeOK /\ BlocksExclusive`, which is inductive as it stands.
  About savepoints it has `ImplementsTransactor` (`SavepointsSpec => Spec`) and from
  it that no block of a savepoint has two holders, for savepoints use the transaction
  file only through its operations. Whether the blocks held are still needed is
  `NothingElseForgotten`: the error exit of `create` loses the copies it has made, and
  no other step of any client loses a block. It needs that the copies of different
  savepoints are in different blocks (`HeldInv`) and that no blocks wait to be freed
  when `create` begins (`JobInv`). For any program
  `SavepointTypesCorrect` (`Types`; `get_number` finds a number because there are more
  of them than savepoints) and `CopiesAreHeld` (`HeldInv`: every copy is in a block of
  its own; `WriteInv`, `JobInv`: how far `create` and `commit` have got).
  `AtomicIndexIsExact` if no program names a savepoint of an outer atomic block
  (`InnerNamed`), from `AtomicInv`, which says where the savepoints of the open blocks
  are. `ViewIsExact` and `CommittedIsExact` for programs that do nothing of
  `ProgramKinds` (`Ordinary`): neither that, nor name a savepoint UNDO has gone past,
  nor free a page changed before a savepoint, nor change a record another client
  has committed since (finding 4; for the others see the list in section 4). `PrivateInv`: a private page has the changes that are to be committed
  over the records of the database. It is kept by rollback because of `SapoInv`:
  what a savepoint has copied, and what the pages without a copy have, gives
  `PrivateInv` again for the changes made before it, and savepoints are nested.
  `FileInv` says the same of a `commit` half done: pages already written have the
  changes, the others do not yet, and nobody else has changed their records.
- **`SecureCommit_proofs`**: for any clients, crashes and failing writes
  `CommitTypeCorrect`, `SwapSpaceIsExact`, `OneLeaderAtMost`, `SharedIsCurrent`, from
  `CommitInv` (the TJC chain being written is apart from swap blocks, and the start
  has read no page that it has still to restore). `CopiesAreCurrent` and
  `CopiesAreLogged` need `CopyInv` (copies in frames and swapped, also of pages a
  commit has half processed) and hold if no journal write fails or there is one
  client (`Undisturbed`; else finding 3). `DurableWithoutCrashes` is `Durable` and
  `OnlyCommitted` for any number of clients: `HistoryInv` relates transactions to
  what was written, `DiskInv` says which pages of the running commit are already
  in the file. `DurableOverCrashes` is the same with any number of crashes, at any
  step of a commit and of a start, for one client and swaps that do not fail.
  `JournalInv`: while the leader is valid the chain has all pages of the commit,
  and their copies are still in their blocks, freed or not. `RecoveryInv`: what the
  start has restored so far and what the rest of the chain will restore give the
  committed pages. With more clients the freed blocks may be overwritten, which is
  finding 2, and with a failing swap the journal lacks a page.
- **`DiskSpace_proofs`**: `TypeCorrect`, `BlocksAreAccounted`, `DiscIsSafe`,
  `SavepointKeepsItems`. The invariant `Inv` has `SemInv` (what the client inside
  `bpools_sem` holds at each place), `SavepointItemsKept`, and until `damaged` `Counted`
  (places, items and clients are apart, together they cover the file, and items of a
  savepoint belong to its client) and, with flushing on and no flush left out,
  `DiscInv`. The strengthening in `DiscInv` is about time: a block of `free_blocks` has no
  unflushed bit unless the client inside has just taken it from a pool, and then it
  flushes before it leaves. `DiscInv` begins to hold again with the first real flush
  after one left out, because nothing is dirty then (lemma `DiscFlushed`). So the two
  theorems say nothing after the events listed under `damaged` in section 2, and
  `DiscIsSafe` nothing between a flush left out and the next one: there the code
  breaks the properties (findings 6 and 7, `ExpandUnflushed`). They do
  cover unwritable pools in `save_to_pool` and `add_new_pool`, files that cannot be
  extended, failing tables, and failures of the computer at any other moment.

Only model-checked: liveness (`WaitingEnds`, `TimedWaitEnds`, `StartEnds`), which
the prover does not do. Every safety property of a passing run is stated by a
theorem, some under the hypotheses named above. The theorem `NeverQueuedTwice` has
no run. The properties only violated by a configuration are false and have none.

## 6. Plan

Done, in this order: block I/O locks, record locks and waits, lock table with its
abstract bag, transaction file, secured commit with crashes, disk space,
savepoints, frame cache on the block locks. To come:

1. `IndexSync` (1295-1658, 2861-2923): conflicts on index roots, composed with
   the waits of `Locks`, and the unregistered wait as a source of deadlock.
2. Integrity check planning (maintan.cpp 1131-1208).
3. In `FrameCache` new pages, pages of long objects and the journal; in `DiskSpace`
   the pieces of blocks.
4. Theorems about the modules above.

## 7. Running

In this directory: `tlc -workers 2 -config MCLocks_waits.cfg MCLocks` checks a
run (`PROJECT.json` has the module and the cfg of each one),
`tlapm Locks_proofs.tla` checks proofs. Definitions marked "Slip" are what
the code would be with a plausible bug; the list `mutants` says which definition
each one replaces and which property notices it.

## 8. Not modelled

Most of the repository is not the kernel: the administration client, editors and
dialogs, the client library, the ODBC driver, the SQL compiler, mail and
replication, and vendored code. The modules cover the part of `src/src/srv` where
threads and crashes meet, a small share of all the lines.

Besides the components of the plan: reading and writing of files (`t_ffa`: its
effect is `disk` in `SecureCommit` and `disc` in `FrameCache`; caches of the
operating system are only in `DiskSpace`, torn writes nowhere), B-trees and the heap (sequential algorithms on
byte layouts), the SQL compiler and executor, rights, the dispatcher and the
network (input, output and one large switch), replication, fulltext, backup (but for
its effect on flushes, which is in `DiskSpace`), the
client libraries and the common libraries. The 32-bit clock of `time_limit` and
the size of a transaction file over 4 GB are hazards that the abstract clock and
the small file do not show. Page writes without SecureTransactions give no promise
on a crash, so there is nothing to check.
