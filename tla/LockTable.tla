----------------------------- MODULE LockTable -----------------------------
(***************************************************************************)
(* The hash table of locks with open addressing (t_locktable).  A removed  *)
(* lock leaves an invalid cell, which a search passes and an insertion may *)
(* use; a search ends at an empty cell.  All operations are inside         *)
(* cs_locks.  resize is taken one old cell at a time: its loop is a        *)
(* sequence of steps (rehash) nothing else comes between.                  *)
(*                                                                         *)
(* Which locks may be in the table together is the matter of Locks; here   *)
(* any lock may be added.                                                  *)
(***************************************************************************)
EXTENDS Integers, FiniteSets

CONSTANTS Objects,        \* record or page numbers, FULLTABLE
          Owners,         \* client numbers
          UsedTypes,      \* lock types in use
          Product,        \* 17*object in 32 bits
          MaxSize,        \* bound: memory for the table
          MaxLocks,       \* bound: locks in the table
          EMPTY_CELL, INVALID_CELL, NoLock

INITIAL_SIZE == 6
LockTypes == {"RLOCK", "WLOCK", "TMPRLOCK", "TMPWLOCK"}
LockValues == [object : Objects, owner : Owners, locktype : UsedTypes]

ASSUME TableConstants ==
    /\ Product \in [Objects -> Nat]
    /\ UsedTypes \subseteq LockTypes
    /\ "WLOCK" \in UsedTypes => "TMPWLOCK" \in UsedTypes
    /\ MaxSize \in Nat /\ MaxLocks \in Nat
    /\ EMPTY_CELL # INVALID_CELL
    /\ EMPTY_CELL \notin LockValues /\ INVALID_CELL \notin LockValues
    /\ NoLock \notin LockValues

VARIABLES table_size, locks, valid_cells, used_cells,
          rehashing,      \* resize is in its loop
          old_locks, prev_table_size,    \* the table it copies
          j,              \* the next cell to copy
          todo            \* lock that add_lock inserts after resize

vars == <<table_size, locks, valid_cells, used_cells, rehashing, old_locks,
          prev_table_size, j, todo>>
resizeVars == <<rehashing, old_locks, prev_table_size, j, todo>>

Cells == LockValues \cup {EMPTY_CELL, INVALID_CELL}
Indices(n) == 0..(n - 1)

TypeOK ==
    /\ table_size \in Nat
    /\ locks \in [Indices(table_size) -> Cells]
    /\ valid_cells \in Nat /\ used_cells \in Nat
    /\ rehashing \in BOOLEAN
    /\ prev_table_size \in Nat
    /\ old_locks \in [Indices(prev_table_size) -> Cells]
    /\ j \in 0..prev_table_size
    /\ todo \in LockValues \cup {NoLock}

NoTable == [i \in Indices(0) |-> EMPTY_CELL]

Init ==
    /\ table_size = 0
    /\ locks = NoTable
    /\ valid_cells = 0
    /\ used_cells = 0
    /\ rehashing = FALSE
    /\ old_locks = NoTable
    /\ prev_table_size = 0
    /\ j = 0
    /\ todo = NoLock
-----------------------------------------------------------------------------
is_valid(cell) == cell \notin {EMPTY_CELL, INVALID_CELL}

\* Slip: resize sets table_size after it has inserted the data.
HashOfOldTable(object) ==
    Product[object] % (IF rehashing /\ prev_table_size > 0 THEN prev_table_size
                       ELSE table_size)

hash(object) == Product[object] % table_size

\* The cells a search that starts at h has passed when it gets to i.
Passed(h, i) == IF h <= i THEN h..(i - 1)
                ELSE (h..(table_size - 1)) \cup (0..(i - 1))

\* find_first_cell, find_next_cell: the search for an object gets to cell i.
IsSearched(object, i) ==
    \A k \in Passed(hash(object), i) \cup {i} : locks[k] # EMPTY_CELL

\* The lock is written to the first cell that holds none.
insert(l) ==
    \E i \in Indices(table_size) :
        /\ ~is_valid(locks[i])
        /\ \A k \in Passed(hash(l.object), i) : is_valid(locks[k])
        /\ locks' = [locks EXCEPT ![i] = l]
        /\ valid_cells' = valid_cells + 1
        /\ used_cells' = used_cells + (IF locks[i] = EMPTY_CELL THEN 1 ELSE 0)
        /\ UNCHANGED table_size

\* Slip: only the valid cells count.
NoSpaceByValid == valid_cells >= table_size

no_space_for_new_lock ==
    \/ valid_cells >= (table_size \div 4) * 3
    \/ used_cells >= (table_size \div 5) * 4

bigger_table_size == IF table_size > 0 THEN 2 * table_size ELSE INITIAL_SIZE

\* resize up to its loop: a new empty table.
resize(n, old, l) ==
    /\ table_size' = n
    /\ locks' = [i \in Indices(n) |-> EMPTY_CELL]
    /\ valid_cells' = 0
    /\ used_cells' = 0
    /\ rehashing' = TRUE
    /\ old_locks' = old
    /\ prev_table_size' = table_size
    /\ j' = 0
    /\ todo' = l

\* Slip: resize leaves out the last cell.
LastCellLost == j + 1 >= prev_table_size

AllCopied == j >= prev_table_size

rehash ==
    /\ rehashing
    /\ ~AllCopied
    /\ IF is_valid(old_locks[j]) THEN insert(old_locks[j])
       ELSE UNCHANGED <<table_size, locks, valid_cells, used_cells>>
    /\ j' = j + 1
    /\ UNCHANGED <<rehashing, old_locks, prev_table_size, todo>>

\* The old table is freed and add_lock inserts its lock.
end_of_resize ==
    /\ rehashing
    /\ AllCopied
    /\ IF todo = NoLock THEN UNCHANGED <<table_size, locks, valid_cells, used_cells>>
       ELSE insert(todo)
    /\ rehashing' = FALSE
    /\ old_locks' = NoTable
    /\ prev_table_size' = 0
    /\ j' = 0
    /\ todo' = NoLock

\* add_lock when try_locking found that the lock must be added.  If there is no
\* memory for a bigger table nothing happens.
add_lock(l) ==
    /\ ~rehashing
    /\ valid_cells < MaxLocks
    /\ \/ ~no_space_for_new_lock /\ insert(l) /\ UNCHANGED resizeVars
       \/ /\ no_space_for_new_lock
          /\ bigger_table_size <= MaxSize
          /\ resize(bigger_table_size, locks, l)
       \/ no_space_for_new_lock /\ UNCHANGED vars

Owned(i, owner) == is_valid(locks[i]) /\ locks[i].owner = owner

\* remove_lock would remove what is in cell i.
Matches(i, object, owner, type) ==
    /\ Owned(i, owner)
    /\ locks[i].object = object
    /\ type \in {locks[i].locktype, "ANY_LOCK"}

\* The first matching lock on the way is removed, WLOCK becomes TMPWLOCK.
remove_lock(object, owner, type) ==
    /\ ~rehashing
    /\ valid_cells > 0
    /\ \E i \in Indices(table_size) :
          /\ Matches(i, object, owner, type)
          /\ IsSearched(object, i)
          /\ \A k \in Passed(hash(object), i) : ~Matches(k, object, owner, type)
          /\ IF type = "WLOCK"
             THEN /\ locks' = [locks EXCEPT ![i].locktype = "TMPWLOCK"]
                  /\ UNCHANGED valid_cells
             ELSE /\ locks' = [locks EXCEPT ![i] = INVALID_CELL]
                  /\ valid_cells' = valid_cells - 1
    /\ UNCHANGED <<table_size, used_cells, resizeVars>>

Without(S) == [i \in Indices(table_size) |-> IF i \in S THEN INVALID_CELL ELSE locks[i]]

\* Slip: a pass is counted as one lock.
ValidAfterOne(S) == IF S = {} THEN valid_cells ELSE valid_cells - 1

\* Slip: the counter is lowered for every cell of the pass.
ValidAfterPass(S) == valid_cells - Cardinality(Indices(table_size))

ValidAfter(S) == valid_cells - Cardinality(S)

\* simple_remove_lock, and unlock_user_tab for all objects.
RemoveCells(S) ==
    /\ ~rehashing
    /\ valid_cells > 0
    /\ locks' = Without(S)
    /\ valid_cells' = ValidAfter(S)
    /\ UNCHANGED <<table_size, used_cells, resizeVars>>

simple_remove_lock(owner, object, type) ==
    RemoveCells({i \in Indices(table_size) : Matches(i, object, owner, type)})

unlock_user_tab(owner) ==
    RemoveCells({i \in Indices(table_size) : Owned(i, owner)})

\* Temporary locks are removed; a table that is almost empty is made small, if
\* there is memory.
remove_my_tmplocks(owner) ==
    LET S == {i \in Indices(table_size) :
                 Owned(i, owner) /\ locks[i].locktype \in {"TMPRLOCK", "TMPWLOCK"}}
        is_almost_empty == ValidAfter(S) <= 3 /\ table_size > INITIAL_SIZE
    IN  \/ RemoveCells(S)
        \/ /\ ~rehashing
           /\ valid_cells > 0
           /\ is_almost_empty
           /\ resize(INITIAL_SIZE, Without(S), NoLock)

Next ==
    \/ rehash
    \/ end_of_resize
    \/ \E l \in LockValues : add_lock(l)
    \/ \E o \in Objects, c \in Owners, t \in UsedTypes \cup {"ANY_LOCK"} :
          remove_lock(o, c, t) \/ simple_remove_lock(c, o, t)
    \/ \E c \in Owners : unlock_user_tab(c) \/ remove_my_tmplocks(c)

Spec == Init /\ [][Next]_vars
-----------------------------------------------------------------------------
Valid == {i \in Indices(table_size) : is_valid(locks[i])}
Used == {i \in Indices(table_size) : locks[i] # EMPTY_CELL}

(***************************************************************************)
(* The counters that decide on the size of the table say what is in it,    *)
(* also after invalid cells are used again and in the middle of resize.    *)
(***************************************************************************)
CountsExact ==
    /\ valid_cells = Cardinality(Valid)
    /\ used_cells = Cardinality(Used)

(***************************************************************************)
(* There is always an empty cell: the loops of try_locking, remove_lock    *)
(* and do_I_have_lock that pass the cells of an object, and the loop of    *)
(* insert, end.                                                            *)
(***************************************************************************)
SearchEnds == table_size > 0 => Used # Indices(table_size)

(***************************************************************************)
(* Every lock is found: no empty cell is between the hash of its object    *)
(* and its cell.  A lock out of reach would be granted to somebody else.   *)
(***************************************************************************)
LocksReachable == \A i \in Valid : IsSearched(locks[i].object, i)

\* The locks of the table and those resize has still to copy.
BagOf(l) == Cardinality({i \in Indices(table_size) : locks[i] = l})
            + Cardinality({i \in Indices(prev_table_size) : i >= j /\ old_locks[i] = l})

(***************************************************************************)
(* The table implements a bag of locks: each request has the effect it     *)
(* asks for on the bag, and resize, one cell after another, neither loses  *)
(* nor doubles a lock until the request that has called it ends.           *)
(***************************************************************************)
Bag == INSTANCE LockBag WITH bag <- [l \in LockValues |-> BagOf(l)],
                             copying <- rehashing, pending <- todo
IsLockBag == Bag!Spec
=============================================================================
