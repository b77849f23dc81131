-------------------------- MODULE DadrLocks_proofs --------------------------
(***************************************************************************)
(* Proofs about DadrLocks for any number of threads, blocks and cells.     *)
(*                                                                         *)
(* BlockIOExclusive and NoLostWakeup are not inductive: that a block has   *)
(* one cell depends on no used cell being above last_used, and that a      *)
(* released block is locked nowhere else depends on the block having one   *)
(* cell.  Inv adds those facts and who holds which cell.                   *)
(***************************************************************************)
EXTENDS DadrLocks, TLAPS

\* A used cell is in the part of the array the scans look at.
UsedCellsScanned == \A i \in Slots : dadrs[i] # NoDadr => i <= last_used

\* A block is in one cell only.
OneCellPerBlock ==
    \A i, j \in Slots : dadrs[i] = dadrs[j] /\ dadrs[i] # NoDadr => i = j

\* A cell a thread holds is in use, and no other thread holds it.
HeldCellsUsed ==
    \A c \in Clients :
        /\ outer[c] # NoSlot => dadrs[outer[c]] # NoDadr
        /\ inner[c] # NoSlot => dadrs[inner[c]] # NoDadr

HeldCellsOwn ==
    /\ \A c, e \in Clients :
          c # e =>
            /\ outer[c] # NoSlot => outer[c] # outer[e] /\ outer[c] # inner[e]
            /\ inner[c] # NoSlot => inner[c] # inner[e] /\ inner[c] # outer[e]
    /\ \A c \in Clients : outer[c] # NoSlot => outer[c] # inner[c]

\* A registered thread waits for its semaphore, unposted, for a locked block.
Waiters ==
    \A c \in waiting_for_dadr :
        /\ pc[c] = "semaphore" /\ sem[c] = 0
        /\ locking_dadr[c] \in Dadrs

\* A thread inside wait_lock has a block to ask for and no victim locked.
Pending ==
    \A c \in Clients :
        pc[c] \in {"semaphore", "sleep", "retry"} =>
            locking_dadr[c] \in Dadrs /\ inner[c] = NoSlot

Inv ==
    /\ TypeOK
    /\ UsedCellsScanned
    /\ OneCellPerBlock
    /\ HeldCellsUsed
    /\ HeldCellsOwn
    /\ Waiters
    /\ Pending
    /\ NoLostWakeup
    /\ NotQueuedTwice

-----------------------------------------------------------------------------
\* No block is locked and nobody waits at the start.
LEMMA InitInv == Init => Inv
BY MaxDadrLocksAssumption, NoDadrAssumption
   DEF Init, Inv, TypeOK, UsedCellsScanned, OneCellPerBlock, HeldCellsUsed,
       HeldCellsOwn, Waiters, Pending, NoLostWakeup, NotQueuedTwice, Slots,
       NoSlot

\* A thread that registers for a release in wait_lock is in the list, and the
\* block it registers for is locked.
LEMMA WaitStep ==
    ASSUME Inv, NEW c \in Clients, NEW d \in Dadrs,
           pc[c] \in {"run", "retry"}, inner[c] = NoSlot,
           WaitForRelease(c, d)
    PROVE  Inv'
<1> USE NoDadrAssumption DEF Inv, WaitForRelease
<1>1. TypeOK'
  BY DEF TypeOK
<1>2. UsedCellsScanned' /\ OneCellPerBlock'
  BY DEF UsedCellsScanned, OneCellPerBlock
<1>3. HeldCellsUsed' /\ HeldCellsOwn'
  BY DEF HeldCellsUsed, HeldCellsOwn
<1>4. Waiters'
  BY DEF Waiters, NotQueuedTwice, TypeOK
<1>5. Pending'
  BY DEF Pending, TypeOK
<1>6. NoLostWakeup'
  BY DEF NoLostWakeup, IsLocked, TypeOK
<1>7. NotQueuedTwice'
  BY DEF NotQueuedTwice, TypeOK
<1> QED
  BY <1>1, <1>2, <1>3, <1>4, <1>5, <1>6, <1>7

\* Sleeping for a free cell changes nothing but the thread.
LEMMA SleepStep ==
    ASSUME Inv, NEW c \in Clients, NEW d \in Dadrs,
           pc[c] \in {"run", "retry"}, inner[c] = NoSlot,
           SleepForCell(c, d)
    PROVE  Inv'
BY DEF Inv, SleepForCell, TypeOK, UsedCellsScanned, OneCellPerBlock,
       HeldCellsUsed, HeldCellsOwn, Waiters, Pending, NoLostWakeup,
       NotQueuedTwice, IsLocked

(***************************************************************************)
(* The cell taken was free, so nobody held it; the block was in no scanned *)
(* cell, so, by UsedCellsScanned, in no cell at all.                       *)
(***************************************************************************)
LEMMA EnterStep ==
    ASSUME Inv, NEW c \in Clients, NEW d \in Dadrs,
           pc[c] \in {"run", "retry"}, inner[c] = NoSlot,
           EnterLocked(c, d)
    PROVE  Inv'
<1> USE NoDadrAssumption, MaxDadrLocksAssumption DEF Inv
<1>1. PICK fr \in Slots :
        /\ ~IsLocked(d)
        /\ CellFor(fr)
        /\ dadrs' = [dadrs EXCEPT ![fr] = d]
        /\ last_used' = IF fr > last_used THEN fr ELSE last_used
        /\ IF outer[c] = NoSlot
           THEN outer' = [outer EXCEPT ![c] = fr] /\ UNCHANGED inner
           ELSE inner' = [inner EXCEPT ![c] = fr] /\ UNCHANGED outer
        /\ pc' = [pc EXCEPT ![c] = "run"]
        /\ locking_dadr' = [locking_dadr EXCEPT ![c] = NoDadr]
        /\ UNCHANGED <<waiting_for_dadr, sem>>
  BY DEF EnterLocked
<1>2. dadrs[fr] = NoDadr
  BY <1>1 DEF CellFor, FreeCells, UsedCellsScanned, TypeOK, Slots
<1>3. \A i \in Slots : dadrs[i] # d
  BY <1>1 DEF IsLocked, UsedCellsScanned, TypeOK, Slots
<1>4. TypeOK'
  BY <1>1, SMTT(60) DEF TypeOK, Slots
<1>5. UsedCellsScanned'
  BY <1>1 DEF UsedCellsScanned, TypeOK, Slots
<1>6. OneCellPerBlock'
  BY <1>1, <1>3 DEF OneCellPerBlock, TypeOK
<1>7. HeldCellsUsed'
  BY <1>1 DEF HeldCellsUsed, TypeOK, Slots, NoSlot
<1>8. \A e \in Clients : outer[e] # fr /\ inner[e] # fr
  BY <1>2 DEF HeldCellsUsed, TypeOK, Slots, NoSlot
<1>9. HeldCellsOwn'
  <2>1. CASE outer[c] = NoSlot
    BY <1>1, <1>8, <2>1 DEF HeldCellsOwn, TypeOK, Slots, NoSlot
  <2>2. CASE outer[c] # NoSlot
    BY <1>1, <1>8, <2>2 DEF HeldCellsOwn, TypeOK, Slots, NoSlot
  <2> QED
    BY <2>1, <2>2
<1>10. Waiters'
  BY <1>1 DEF Waiters, NotQueuedTwice, TypeOK
<1>11. Pending'
  BY <1>1 DEF Pending, TypeOK
<1>12. NoLostWakeup'
  <2> SUFFICES ASSUME NEW w \in Clients, pc'[w] = "semaphore", sem'[w] = 0
               PROVE  /\ w \in waiting_for_dadr'
                      /\ IsLocked(locking_dadr[w])'
    BY DEF NoLostWakeup
  <2>1. pc[w] = "semaphore" /\ sem[w] = 0
    BY <1>1 DEF TypeOK
  <2>2. w \in waiting_for_dadr /\ IsLocked(locking_dadr[w])
    BY <2>1 DEF NoLostWakeup
  <2>3. PICK i \in 0 .. last_used : dadrs[i] = locking_dadr[w]
    BY <2>2 DEF IsLocked
  <2>4. i # fr /\ i \in Slots
    BY <1>2, <2>2, <2>3 DEF Waiters, TypeOK, Slots
  <2>5. i \in 0 .. last_used' /\ dadrs'[i] = locking_dadr'[w]
    BY <1>1, <2>3, <2>4 DEF TypeOK, Slots
  <2> QED
    BY <1>1, <2>2, <2>5 DEF IsLocked
<1>13. NotQueuedTwice'
  BY <1>1 DEF NotQueuedTwice, TypeOK
<1> QED
  BY <1>4, <1>5, <1>6, <1>7, <1>9, <1>10, <1>11, <1>12, <1>13

\* One pass of wait_lock, by its three outcomes.
LEMMA AttemptStep ==
    ASSUME Inv, NEW c \in Clients, NEW d \in Dadrs,
           pc[c] \in {"run", "retry"}, inner[c] = NoSlot,
           Attempt(c, d)
    PROVE  Inv'
BY WaitStep, SleepStep, EnterStep DEF Attempt

\* A thread passes its semaphore only after its release.
LEMMA SemWaitStep ==
    ASSUME Inv, NEW c \in Clients, sem_wait(c)
    PROVE  Inv'
<1> USE DEF Inv, sem_wait
<1>1. c \notin waiting_for_dadr /\ sem[c] = 1 /\ locking_dadr[c] \in Dadrs
  BY DEF Waiters, Pending, TypeOK
<1>2. TypeOK'
  BY <1>1 DEF TypeOK
<1>3. UsedCellsScanned' /\ OneCellPerBlock' /\ HeldCellsUsed' /\ HeldCellsOwn'
  BY DEF UsedCellsScanned, OneCellPerBlock, HeldCellsUsed, HeldCellsOwn
<1>4. Waiters' /\ Pending'
  BY <1>1 DEF Waiters, Pending, TypeOK
<1>5. NoLostWakeup' /\ NotQueuedTwice'
  BY <1>1 DEF NoLostWakeup, NotQueuedTwice, IsLocked, TypeOK
<1> QED
  BY <1>2, <1>3, <1>4, <1>5

\* The end of the sleep changes nothing but the thread.
LEMMA SleepEndStep ==
    ASSUME Inv, NEW c \in Clients, SleepEnd(c)
    PROVE  Inv'
BY DEF Inv, SleepEnd, TypeOK, UsedCellsScanned, OneCellPerBlock,
       HeldCellsUsed, HeldCellsOwn, Waiters, Pending, NoLostWakeup,
       NotQueuedTwice, IsLocked

(***************************************************************************)
(* The block of the released cell is in no other cell, so the threads that *)
(* wait for it are exactly those posted; the others wait for a block in a  *)
(* cell that is still scanned, because last_used passes over the released  *)
(* cell only.                                                              *)
(***************************************************************************)
LEMMA ReleaseStep ==
    ASSUME Inv, NEW c \in Clients, NEW ind \in Slots,
           pc[c] = "run", Release(ind),
           UNCHANGED <<locking_dadr, pc>>,
           \/ /\ ind = inner[c]
              /\ inner' = [inner EXCEPT ![c] = NoSlot]
              /\ outer' = outer
           \/ /\ ind = outer[c]
              /\ outer' = [outer EXCEPT ![c] = NoSlot]
              /\ inner' = inner
    PROVE  Inv'
<1> USE NoDadrAssumption, MaxDadrLocksAssumption DEF Inv
<1> DEFINE woken == {w \in waiting_for_dadr : locking_dadr[w] = dadrs[ind]}
<1>1. /\ dadrs' = [dadrs EXCEPT ![ind] = NoDadr]
      /\ last_used' = IF ind = last_used THEN last_used - 1 ELSE last_used
      /\ waiting_for_dadr' = waiting_for_dadr \ woken
      /\ sem' = [w \in Clients |-> IF w \in woken THEN sem[w] + 1 ELSE sem[w]]
  BY DEF Release
<1>2. c \notin waiting_for_dadr /\ \A w \in waiting_for_dadr : sem[w] = 0
  BY DEF Waiters
<1>3. TypeOK'
  <2>1. sem' \in [Clients -> 0 .. 1]
    BY <1>1, <1>2 DEF TypeOK
  <2>2. last_used' \in -1 .. MaxDadrLocks - 1
    BY <1>1 DEF TypeOK, Slots
  <2>3. outer' \in [Clients -> Slots \cup {NoSlot}]
    BY DEF TypeOK
  <2>4. inner' \in [Clients -> Slots \cup {NoSlot}]
    BY DEF TypeOK
  <2> QED
    BY <1>1, <2>1, <2>2, <2>3, <2>4 DEF TypeOK
<1>4. UsedCellsScanned'
  BY <1>1 DEF UsedCellsScanned, TypeOK, Slots
<1>5. OneCellPerBlock'
  BY <1>1 DEF OneCellPerBlock, TypeOK
<1>6. HeldCellsOwn'
  BY DEF HeldCellsOwn, TypeOK
<1>7. \A e \in Clients : outer'[e] # ind /\ inner'[e] # ind
  BY DEF HeldCellsOwn, TypeOK, Slots, NoSlot
<1>8. HeldCellsUsed'
  <2>1. \A e \in Clients : /\ outer'[e] \in {outer[e], NoSlot}
                            /\ inner'[e] \in {inner[e], NoSlot}
    BY DEF TypeOK
  <2>2. \A i \in Slots : i # ind => dadrs'[i] = dadrs[i]
    BY <1>1 DEF TypeOK
  <2> QED
    BY <1>3, <1>7, <2>1, <2>2 DEF HeldCellsUsed, TypeOK
<1>9. Waiters'
  BY <1>1, <1>2 DEF Waiters, TypeOK
<1>10. Pending'
  BY DEF Pending, TypeOK
<1>11. NoLostWakeup'
  <2> SUFFICES ASSUME NEW w \in Clients, pc'[w] = "semaphore", sem'[w] = 0
               PROVE  /\ w \in waiting_for_dadr'
                      /\ IsLocked(locking_dadr[w])'
    BY DEF NoLostWakeup
  <2>1. pc[w] = "semaphore" /\ w \notin woken /\ sem[w] = 0
    BY <1>1, <1>2 DEF TypeOK
  <2>2. w \in waiting_for_dadr /\ IsLocked(locking_dadr[w])
    BY <2>1 DEF NoLostWakeup
  <2>3. PICK i \in 0 .. last_used : dadrs[i] = locking_dadr[w]
    BY <2>2 DEF IsLocked
  <2>4. i # ind /\ i \in Slots
    BY <2>1, <2>2, <2>3 DEF TypeOK, Slots
  <2>5. i \in 0 .. last_used' /\ dadrs'[i] = locking_dadr'[w]
    BY <1>1, <2>3, <2>4 DEF TypeOK, Slots
  <2> QED
    BY <1>1, <2>1, <2>2, <2>5 DEF IsLocked
<1>12. NotQueuedTwice'
  BY <1>1, <1>2 DEF NotQueuedTwice, Waiters, TypeOK
<1> QED
  BY <1>3, <1>4, <1>5, <1>6, <1>8, <1>9, <1>10, <1>11, <1>12

-----------------------------------------------------------------------------
\* Every step of a thread keeps the invariant.
LEMMA NextInv == Inv /\ [Next]_vars => Inv'
<1> SUFFICES ASSUME Inv, [Next]_vars PROVE Inv'
  OBVIOUS
<1>1. ASSUME NEW c \in Clients, NEW d \in Dadrs, wait_lock(c, d)
      PROVE  Inv'
  BY <1>1, AttemptStep DEF wait_lock
<1>2. ASSUME NEW c \in Clients, NEW d \in Dadrs, wait_lock_victim(c, d)
      PROVE  Inv'
  BY <1>2, AttemptStep DEF wait_lock_victim
<1>3. ASSUME NEW c \in Clients, lock_retry(c)
      PROVE  Inv'
  BY <1>3, AttemptStep DEF lock_retry, Inv, Pending
<1>4. ASSUME NEW c \in Clients, sem_wait(c)
      PROVE  Inv'
  BY <1>4, SemWaitStep
<1>5. ASSUME NEW c \in Clients, SleepEnd(c)
      PROVE  Inv'
  BY <1>5, SleepEndStep
<1>6. ASSUME NEW c \in Clients, unlock_victim(c)
      PROVE  Inv'
  BY <1>6, ReleaseStep DEF unlock_victim, Inv, TypeOK
<1>7. ASSUME NEW c \in Clients, unlock(c)
      PROVE  Inv'
  BY <1>7, ReleaseStep DEF unlock, Inv, TypeOK
<1>8. CASE UNCHANGED vars
  BY <1>8 DEF vars, Inv, TypeOK, UsedCellsScanned, OneCellPerBlock,
              HeldCellsUsed, HeldCellsOwn, Waiters, Pending, NoLostWakeup,
              NotQueuedTwice, IsLocked
<1> QED
  BY <1>1, <1>2, <1>3, <1>4, <1>5, <1>6, <1>7, <1>8 DEF Next, ClientStep

(***************************************************************************)
(* Inv holds in every reachable state, in particular TypeOK: no semaphore  *)
(* is posted twice for one wait, no index leaves the array.                *)
(***************************************************************************)
THEOREM Invariance == Spec => []Inv
BY InitInv, NextInv, PTL DEF Spec

\* Every variable of dadr_locks_class and of its callers keeps its range.
THEOREM TypeCorrect == Spec => []TypeOK
<1>1. Inv => TypeOK
  BY DEF Inv
<1> QED
  BY <1>1, Invariance, PTL

\* wait_lock and unlock keep two threads from doing I/O on one block.
THEOREM BlockIOIsExclusive == Spec => []BlockIOExclusive
<1>1. Inv => BlockIOExclusive
  <2> SUFFICES ASSUME Inv, NEW c \in Clients, NEW e \in Clients, c # e,
                      NEW i \in {outer[c], inner[c]} \ {NoSlot},
                      NEW j \in {outer[e], inner[e]} \ {NoSlot}
               PROVE  dadrs[i] # dadrs[j]
    BY DEF BlockIOExclusive, BlocksOf
  <2>1. i \in Slots /\ j \in Slots
    BY DEF Inv, TypeOK
  <2>2. i # j
    BY DEF Inv, HeldCellsOwn
  <2>3. dadrs[i] # NoDadr
    BY DEF Inv, HeldCellsUsed
  <2> QED
    BY <2>1, <2>2, <2>3 DEF Inv, OneCellPerBlock
<1> QED
  BY <1>1, Invariance, PTL

\* The release of a block reaches every thread that waits for it, also one
\* that has left cs_frame and not yet reached sem_wait.
THEOREM NoWakeupIsLost == Spec => []NoLostWakeup
<1>1. Inv => NoLostWakeup
  BY DEF Inv
<1> QED
  BY <1>1, Invariance, PTL

\* A thread is linked into waiting_for_dadr at most once.
THEOREM NeverQueuedTwice == Spec => []NotQueuedTwice
<1>1. Inv => NotQueuedTwice
  BY DEF Inv
<1> QED
  BY <1>1, Invariance, PTL
=============================================================================
