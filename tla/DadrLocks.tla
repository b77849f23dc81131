----------------------------- MODULE DadrLocks -----------------------------
(***************************************************************************)
(* The lock on a disc block number that a client thread holds while it    *)
(* does I/O on the block outside cs_frame (class dadr_locks_class).        *)
(*                                                                         *)
(* All the data is protected by cs_frame, so one stay inside cs_frame is   *)
(* one action.  A thread takes a first lock in fix_any_page,               *)
(* fix_priv_page, wr_changes, remove_changes, remove_private_page or       *)
(* make_swapped, and while it holds it, get_frame may take a second one on *)
(* the block of the frame it evicts, after checking that it is not locked. *)
(* FrameCache has the whole operations; here any of them may take locks.   *)
(* The linked list waiting_for_dadr is a set here: its order is never      *)
(* used, and NotQueuedTwice says that the dws.next links stay a list.      *)
(***************************************************************************)
EXTENDS Integers

CONSTANTS Clients,        \* client threads (cdp_t)
          Dadrs,          \* block numbers, all different from NoDadr
          NoDadr,         \* the value 0 of a free cell
          MaxDadrLocks    \* MAX_DADR_LOCKS, 60 in the code

ASSUME MaxDadrLocksAssumption == MaxDadrLocks \in Nat \ {0}
ASSUME NoDadrAssumption == NoDadr \notin Dadrs

Slots == 0 .. MaxDadrLocks - 1
NoSlot == -1              \* dl_ind == -1: nothing locked

VARIABLES dadrs,             \* the array of locked block numbers
          last_used,         \* no cell above it is in use
          waiting_for_dadr,  \* threads registered for a release
          locking_dadr,      \* the dadr argument of the wait_lock call a
                             \* thread is in; wait_lock registers it in dws
          sem,               \* dws.hSemaphore of a thread
          pc,                \* where a thread is
          outer,             \* cell of its first lock, or NoSlot
          inner              \* cell of the lock get_frame took, or NoSlot

vars == <<dadrs, last_used, waiting_for_dadr, locking_dadr, sem, pc, outer,
          inner>>

TypeOK ==
    /\ dadrs \in [Slots -> Dadrs \cup {NoDadr}]
    /\ last_used \in -1 .. MaxDadrLocks - 1
    /\ waiting_for_dadr \in SUBSET Clients
    /\ locking_dadr \in [Clients -> Dadrs \cup {NoDadr}]
    /\ sem \in [Clients -> 0 .. 1]
    /\ pc \in [Clients -> {"run", "semaphore", "sleep", "retry"}]
    /\ outer \in [Clients -> Slots \cup {NoSlot}]
    /\ inner \in [Clients -> Slots \cup {NoSlot}]

Init ==
    /\ dadrs = [i \in Slots |-> NoDadr]
    /\ last_used = -1
    /\ waiting_for_dadr = {}
    /\ locking_dadr = [c \in Clients |-> NoDadr]
    /\ sem = [c \in Clients |-> 0]
    /\ pc = [c \in Clients |-> "run"]
    /\ outer = [c \in Clients |-> NoSlot]
    /\ inner = [c \in Clients |-> NoSlot]

-----------------------------------------------------------------------------
\* What the code would be with a plausible slip; PROJECT.json names the
\* definition each one stands in for, and the property that notices it.

\* The scan stops before the cell last_used.
IsLockedShort(d) == \E i \in 0 .. last_used - 1 : dadrs[i] = d

\* unlock leaves the threads it wakes in the list.
ReleaseKeepsQueue(ind) ==
    LET woken == {w \in waiting_for_dadr : locking_dadr[w] = dadrs[ind]} IN
    /\ dadrs' = [dadrs EXCEPT ![ind] = NoDadr]
    /\ last_used' = IF ind = last_used THEN last_used - 1 ELSE last_used
    /\ waiting_for_dadr' = waiting_for_dadr
    /\ sem' = [w \in Clients |-> IF w \in woken THEN sem[w] + 1 ELSE sem[w]]

\* unlock wakes threads only when it frees the last cell (a misplaced brace).
ReleaseWakesAtEnd(ind) ==
    LET woken == {w \in waiting_for_dadr :
                    locking_dadr[w] = dadrs[ind] /\ ind = last_used} IN
    /\ dadrs' = [dadrs EXCEPT ![ind] = NoDadr]
    /\ last_used' = IF ind = last_used THEN last_used - 1 ELSE last_used
    /\ waiting_for_dadr' = waiting_for_dadr \ woken
    /\ sem' = [w \in Clients |-> IF w \in woken THEN sem[w] + 1 ELSE sem[w]]

-----------------------------------------------------------------------------
\* Only the cells up to last_used are looked at.
IsLocked(d) == \E i \in 0 .. last_used : dadrs[i] = d

\* The scan remembers the last free cell it passes; without one, the array
\* grows.
FreeCells == {i \in 0 .. last_used : dadrs[i] = NoDadr}
CellFor(fr) ==
    \/ fr \in FreeCells /\ \A i \in FreeCells : i <= fr
    \/ FreeCells = {} /\ fr = last_used + 1

\* The block is locked: register for the release, leave cs_frame and wait.
WaitForRelease(c, d) ==
    /\ IsLocked(d)
    /\ waiting_for_dadr' = waiting_for_dadr \cup {c}
    /\ pc' = [pc EXCEPT ![c] = "semaphore"]
    /\ locking_dadr' = [locking_dadr EXCEPT ![c] = d]
    /\ UNCHANGED <<dadrs, last_used, sem, outer, inner>>

\* The array is full: leave cs_frame and sleep for two seconds.
ArrayFull == FreeCells = {} /\ last_used >= MaxDadrLocks - 1

SleepForCell(c, d) ==
    /\ ~IsLocked(d)
    /\ ArrayFull
    /\ pc' = [pc EXCEPT ![c] = "sleep"]
    /\ locking_dadr' = [locking_dadr EXCEPT ![c] = d]
    /\ UNCHANGED <<dadrs, last_used, waiting_for_dadr, sem, outer, inner>>

\* Lock the block in the free cell found, or in a new one at the end.
EnterLocked(c, d) == \E fr \in Slots :
    /\ ~IsLocked(d)
    /\ CellFor(fr)
    /\ dadrs' = [dadrs EXCEPT ![fr] = d]
    /\ last_used' = IF fr > last_used THEN fr ELSE last_used
    /\ IF outer[c] = NoSlot
       THEN outer' = [outer EXCEPT ![c] = fr] /\ UNCHANGED inner
       ELSE inner' = [inner EXCEPT ![c] = fr] /\ UNCHANGED outer
    /\ pc' = [pc EXCEPT ![c] = "run"]
    /\ locking_dadr' = [locking_dadr EXCEPT ![c] = NoDadr]
    /\ UNCHANGED <<waiting_for_dadr, sem>>

\* One pass of wait_lock inside cs_frame, from lock_retry on.
Attempt(c, d) ==
    \/ WaitForRelease(c, d)
    \/ SleepForCell(c, d)
    \/ EnterLocked(c, d)

\* The first lock of an operation on a page.
wait_lock(c, d) ==
    /\ pc[c] = "run"
    /\ outer[c] = NoSlot
    /\ inner[c] = NoSlot
    /\ Attempt(c, d)

\* get_frame locks the block of the frame it is going to swap, in the same
\* stay inside cs_frame in which is_locked told it that the block is free.
wait_lock_victim(c, d) ==
    /\ pc[c] = "run"
    /\ outer[c] # NoSlot
    /\ inner[c] = NoSlot
    /\ ~IsLocked(d)
    /\ Attempt(c, d)

\* goto lock_retry, once the thread is back in cs_frame.
lock_retry(c) ==
    /\ pc[c] = "retry"
    /\ Attempt(c, locking_dadr[c])

sem_wait(c) ==
    /\ pc[c] = "semaphore"
    /\ sem[c] > 0
    /\ sem' = [sem EXCEPT ![c] = @ - 1]
    /\ pc' = [pc EXCEPT ![c] = "retry"]
    /\ UNCHANGED <<dadrs, last_used, waiting_for_dadr, locking_dadr, outer,
                   inner>>

SleepEnd(c) ==
    /\ pc[c] = "sleep"
    /\ pc' = [pc EXCEPT ![c] = "retry"]
    /\ UNCHANGED <<dadrs, last_used, waiting_for_dadr, locking_dadr, sem, outer,
                   inner>>

\* Free the cell and post the semaphore of every thread waiting for the block.
Release(ind) ==
    LET woken == {w \in waiting_for_dadr : locking_dadr[w] = dadrs[ind]} IN
    /\ dadrs' = [dadrs EXCEPT ![ind] = NoDadr]
    /\ last_used' = IF ind = last_used THEN last_used - 1 ELSE last_used
    /\ waiting_for_dadr' = waiting_for_dadr \ woken
    /\ sem' = [w \in Clients |-> IF w \in woken THEN sem[w] + 1 ELSE sem[w]]

\* get_frame ends: the victim is in the swap file, its block is unlocked.
unlock_victim(c) ==
    /\ pc[c] = "run"
    /\ inner[c] # NoSlot
    /\ Release(inner[c])
    /\ inner' = [inner EXCEPT ![c] = NoSlot]
    /\ UNCHANGED <<locking_dadr, pc, outer>>

\* The operation on the page ends, with or without a get_frame in it.
unlock(c) ==
    /\ pc[c] = "run"
    /\ outer[c] # NoSlot
    /\ inner[c] = NoSlot
    /\ Release(outer[c])
    /\ outer' = [outer EXCEPT ![c] = NoSlot]
    /\ UNCHANGED <<locking_dadr, pc, inner>>

ClientStep(c) ==
    \/ lock_retry(c)
    \/ sem_wait(c)
    \/ SleepEnd(c)
    \/ unlock_victim(c)
    \/ unlock(c)

Next == \E c \in Clients :
            \/ \E d \in Dadrs : wait_lock(c, d) \/ wait_lock_victim(c, d)
            \/ ClientStep(c)

Spec == Init /\ [][Next]_vars

-----------------------------------------------------------------------------
\* The blocks a thread has locked.
BlocksOf(c) == {dadrs[i] : i \in {outer[c], inner[c]} \ {NoSlot}}

(***************************************************************************)
(* Two threads never do I/O on the same block at the same time, although   *)
(* wait_lock reuses cells in the middle of the array and unlock moves      *)
(* last_used down one cell only.                                           *)
(***************************************************************************)
BlockIOExclusive ==
    \A c, e \in Clients : c # e => BlocksOf(c) \cap BlocksOf(e) = {}

(***************************************************************************)
(* The race of the class comment: unlock may post before the waiter        *)
(* reaches sem_wait.  A thread that would really block is still in the     *)
(* list, and the block it waits for is still locked, so the unlock that is *)
(* to come posts its semaphore.                                            *)
(***************************************************************************)
NoLostWakeup ==
    \A c \in Clients :
        pc[c] = "semaphore" /\ sem[c] = 0 =>
            c \in waiting_for_dadr /\ IsLocked(locking_dadr[c])

(***************************************************************************)
(* A thread that comes back from wait_lock is out of the list (its dws     *)
(* cell can be linked again) and its semaphore is not left posted, so its  *)
(* next wait does not end at once for an old release.                      *)
(***************************************************************************)
NotQueuedTwice ==
    \A c \in Clients :
        pc[c] # "semaphore" => c \notin waiting_for_dadr /\ sem[c] = 0
=============================================================================
