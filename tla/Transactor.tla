----------------------------- MODULE Transactor -----------------------------
(***************************************************************************)
(* Allocation of blocks of the transaction file (t_transactor).  A cell of *)
(* the file has one block for the journals of commits (TJC) and CellSize-1 *)
(* blocks for swapped pages.  get_swap_block reads srch_start before it    *)
(* enters cs_trans, so its two parts are two actions; SecureCommit, which  *)
(* is about the contents of the blocks, takes them as one.                 *)
(***************************************************************************)
EXTENDS Integers

CONSTANTS Threads,
          CellSize,       \* 32 in the code
          Cells,          \* bound: length of the file
          NoCell

FileLength == CellSize * Cells
Blocks == 0 .. FileLength - 1
TjcBlocks == {b \in Blocks : b % CellSize = 0}
SwapBlocks == Blocks \ TjcBlocks

ASSUME TransactorConstants ==
    /\ CellSize \in Nat /\ CellSize > 1
    /\ Cells \in Nat
    /\ NoCell \notin Nat

VARIABLES alloc_map,      \* blocks in use
          srch_start,
          cell,           \* the cell in which a thread will begin its search
          held            \* blocks a thread has got and has to return

vars == <<alloc_map, srch_start, cell, held>>

TypeOK ==
    /\ alloc_map \subseteq Blocks
    /\ srch_start \in 0 .. FileLength
    /\ cell \in [Threads -> Nat \cup {NoCell}]
    /\ held \in [Threads -> SUBSET Blocks]

Init ==
    /\ alloc_map = {} /\ srch_start = 0
    /\ cell = [t \in Threads |-> NoCell]
    /\ held = [t \in Threads |-> {}]

\* The lowest block of a set.
IsLowest(block, S) == block \in S /\ \A b \in S : block <= b

\* get_swap_block before it enters cs_trans.
get_swap_block(t) ==
    /\ cell[t] = NoCell
    /\ cell' = [cell EXCEPT ![t] = srch_start \div CellSize]
    /\ UNCHANGED <<alloc_map, srch_start, held>>

\* Blocks the search may find: cells before the first one are not seen.
FreeFrom(c) == {b \in SwapBlocks \ alloc_map : b \div CellSize >= c}

\* Slip: the bit is not set.
WithBitKept(block) == alloc_map
WithBit(block) == alloc_map \cup {block}

\* The next search starts behind the block found.
StartAfter(block) == block + 1

\* get_swap_block in cs_trans.
find_swap_block(t) ==
    /\ cell[t] # NoCell
    /\ \E block \in FreeFrom(cell[t]) :
          /\ IsLowest(block, FreeFrom(cell[t]))
          /\ alloc_map' = WithBit(block)
          /\ srch_start' = StartAfter(block)
          /\ held' = [held EXCEPT ![t] = @ \cup {block}]
    /\ cell' = [cell EXCEPT ![t] = NoCell]

\* alloc_map cannot be made longer: get_swap_block returns 0.
no_swap_block(t) ==
    /\ cell[t] # NoCell
    /\ FreeFrom(cell[t]) = {}
    /\ cell' = [cell EXCEPT ![t] = NoCell]
    /\ UNCHANGED <<alloc_map, srch_start, held>>

\* A swap is dropped, or its write has failed in save_block.
free_swap_block(t, block) ==
    /\ cell[t] = NoCell
    /\ block \in held[t] \cap SwapBlocks
    /\ alloc_map' = alloc_map \ {block}
    /\ srch_start' = IF block < srch_start THEN block ELSE srch_start
    /\ held' = [held EXCEPT ![t] = @ \ {block}]
    /\ UNCHANGED cell

save_tjc_block(t) ==
    /\ cell[t] = NoCell
    /\ \E block \in TjcBlocks \ alloc_map :
          /\ IsLowest(block, TjcBlocks \ alloc_map)
          /\ alloc_map' = WithBit(block)
          /\ held' = [held EXCEPT ![t] = @ \cup {block}]
    /\ UNCHANGED <<srch_start, cell>>

\* All TJC blocks of a commit are returned together.
free_tjc_blocks(t) ==
    /\ cell[t] = NoCell
    /\ held[t] \cap TjcBlocks # {}
    /\ alloc_map' = alloc_map \ (held[t] \cap TjcBlocks)
    /\ held' = [held EXCEPT ![t] = @ \ TjcBlocks]
    /\ UNCHANGED <<srch_start, cell>>

Next ==
    \E t \in Threads :
        \/ get_swap_block(t) \/ find_swap_block(t) \/ no_swap_block(t)
        \/ \E block \in SwapBlocks : free_swap_block(t, block)
        \/ save_tjc_block(t) \/ free_tjc_blocks(t)

Spec == Init /\ [][Next]_vars

-----------------------------------------------------------------------------
\* No block is handed out while somebody has it, and alloc_map has just the
\* blocks that were handed out and not returned, even when a search begins in
\* a cell that other threads have emptied or filled since srch_start was read.
BlocksExclusive ==
    /\ alloc_map = UNION {held[t] : t \in Threads}
    /\ \A t, u \in Threads : t # u => held[t] \cap held[u] = {}

\* What the declaration of srch_start says: "axiom: no free blocks in alloc_map
\* below srch_start".  A free block below it is out of use until a lower one
\* is freed, and the file grows instead.
NoFreeBelowStart == \A b \in SwapBlocks \ alloc_map : b >= srch_start

=============================================================================
