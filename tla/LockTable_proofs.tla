-------------------------- MODULE LockTable_proofs --------------------------
(***************************************************************************)
(* Proofs about LockTable for any set of objects, owners and sizes.        *)
(*                                                                         *)
(* SearchEnds is not inductive: while resize copies, it needs to know that *)
(* the locks still to come fit in.  Room says so: outside resize the used  *)
(* cells are fewer than all cells, and during resize the new table has no  *)
(* invalid cell and room for the rest and for the lock to be added.        *)
(***************************************************************************)
EXTENDS LockTable, FiniteSetTheorems, TLAPS

\* Valid cells of the old table resize has still to copy.
Rest == {i \in Indices(prev_table_size) : i >= j /\ is_valid(old_locks[i])}

Room ==
    /\ ~rehashing => /\ table_size > 0 => used_cells < table_size
                     /\ table_size = 0 => used_cells = 0
    /\ rehashing =>
          /\ used_cells = valid_cells
          /\ valid_cells + Cardinality(Rest) + (IF todo = NoLock THEN 0 ELSE 1)
                < table_size

TableInv == TypeOK /\ CountsExact /\ Room /\ LocksReachable

\* Valid, empty and invalid cells are apart.
LEMMA CellKinds ==
  /\ \A l \in LockValues : is_valid(l)
  /\ \A x \in Cells : is_valid(x) => x \in LockValues
  /\ ~is_valid(EMPTY_CELL) /\ ~is_valid(INVALID_CELL)
  /\ EMPTY_CELL # INVALID_CELL
  BY TableConstants DEF is_valid, Cells

\* A table before its first lock.
LEMMA NoTableTyped == NoTable \in [Indices(0) -> Cells]
  BY DEF NoTable, Cells

\* Sets of cells of a table are finite.
LEMMA FiniteSubsets ==
  ASSUME NEW n \in Nat, NEW S \in SUBSET Indices(n)
  PROVE  IsFiniteSet(S) /\ Cardinality(S) \in Nat /\ Cardinality(S) <= n
  <1>1. IsFiniteSet(Indices(n)) /\ Cardinality(Indices(n)) = n
    BY FS_Interval DEF Indices
  <1>2. IsFiniteSet(S) /\ Cardinality(S) <= Cardinality(Indices(n))
    BY <1>1, FS_Subset
  <1> QED BY <1>1, <1>2, FS_CardinalityType

\* Used cells that are fewer than all cells leave an empty one.
LEMMA RoomMeansEmpty ==
  ASSUME TypeOK, CountsExact, Room
  PROVE  SearchEnds
  <1>1. Rest \in SUBSET Indices(prev_table_size) /\ Used \in SUBSET Indices(table_size)
    BY DEF Rest, Used
  <1>2. Cardinality(Rest) \in Nat
    BY <1>1, FiniteSubsets DEF TypeOK
  <1>3. table_size > 0 => used_cells < table_size
    BY <1>2 DEF Room, TypeOK
  <1>4. table_size \in Nat /\ Cardinality(Indices(table_size)) = table_size
    BY FS_Interval DEF Indices, TypeOK
  <1>5. used_cells = Cardinality(Used)
    BY DEF CountsExact
  <1> QED BY <1>3, <1>4, <1>5 DEF SearchEnds

\* hash gives a cell of the table.
LEMMA HashInRange ==
  ASSUME TypeOK, table_size > 0, NEW o \in Objects
  PROVE  hash(o) \in Indices(table_size)
  <1>1. Product[o] \in Nat /\ table_size \in Nat
    BY TableConstants DEF TypeOK
  <1> QED BY <1>1 DEF hash, Indices

\* A search passes cells of the table only.
LEMMA PassedInRange ==
  ASSUME TypeOK, NEW h \in Indices(table_size), NEW i \in Indices(table_size)
  PROVE  Passed(h, i) \subseteq Indices(table_size)
  BY DEF Passed, Indices, TypeOK

\* What insert does to the cells and to the counters.
LEMMA InsertKeeps ==
  ASSUME TypeOK, CountsExact, LocksReachable, NEW l \in LockValues, insert(l)
  PROVE  /\ table_size' = table_size
         /\ locks' \in [Indices(table_size) -> Cells]
         /\ valid_cells' = valid_cells + 1
         /\ used_cells' \in {used_cells, used_cells + 1}
         /\ used_cells = valid_cells => used_cells' = valid_cells'
         /\ CountsExact'
         /\ LocksReachable'
  <1> USE DEF Indices
  <1>1. PICK i \in Indices(table_size) :
           /\ ~is_valid(locks[i])
           /\ \A k \in Passed(hash(l.object), i) : is_valid(locks[k])
           /\ locks' = [locks EXCEPT ![i] = l]
           /\ valid_cells' = valid_cells + 1
           /\ used_cells' = used_cells + (IF locks[i] = EMPTY_CELL THEN 1 ELSE 0)
           /\ UNCHANGED table_size
    BY DEF insert
  <1>2. locks \in [Indices(table_size) -> Cells] /\ table_size \in Nat
    BY DEF TypeOK
  <1>3. is_valid(l) /\ l # EMPTY_CELL /\ l \in Cells
    BY CellKinds DEF Cells
  <1>4. locks' \in [Indices(table_size) -> Cells]
    BY <1>1, <1>2, <1>3
  <1>5. Valid' = Valid \cup {i} /\ i \notin Valid
    BY <1>1, <1>2, <1>3 DEF Valid
  <1>6. Used' = Used \cup {i}
    BY <1>1, <1>2, <1>3 DEF Used
  <1>7. IsFiniteSet(Valid) /\ IsFiniteSet(Used)
    <2>1. Valid \in SUBSET Indices(table_size) /\ Used \in SUBSET Indices(table_size)
      BY DEF Valid, Used
    <2> QED BY <1>2, <2>1, FiniteSubsets
  <1>8. Cardinality(Valid') = Cardinality(Valid) + 1
    BY <1>5, <1>7, FS_AddElement
  <1>9. Cardinality(Used') = IF i \in Used THEN Cardinality(Used) ELSE Cardinality(Used) + 1
    BY <1>6, <1>7, FS_AddElement
  <1>10. i \in Used <=> locks[i] # EMPTY_CELL
    BY DEF Used
  <1>11. CountsExact'
    BY <1>1, <1>8, <1>9, <1>10 DEF CountsExact, TypeOK
  <1>12. used_cells = valid_cells => used_cells' = valid_cells'
    <2>1. ASSUME used_cells = valid_cells PROVE locks[i] = EMPTY_CELL
      <3>1. Valid \in SUBSET Used
        BY CellKinds DEF Valid, Used
      <3>2. Valid = Used
        BY <1>7, <2>1, <3>1, FS_Subset DEF CountsExact
      <3> QED BY <1>5, <3>2 DEF Used
    <2> QED BY <1>1, <2>1
  <1>13. LocksReachable'
    <2> SUFFICES ASSUME NEW k \in Valid'
                 PROVE  IsSearched(locks[k].object, k)'
      BY DEF LocksReachable
    <2>0. k \in Indices(table_size) /\ i \in Indices(table_size)
      BY <1>1 DEF Valid
    <2>1. \A x \in Indices(table_size) : locks[x] # EMPTY_CELL => locks'[x] # EMPTY_CELL
      BY <1>1, <1>2, <1>3
    <2>2. CASE k = i
      <3>1. locks'[k] = l /\ l.object \in Objects
        BY <1>1, <1>2, <2>2 DEF LockValues
      <3>2. hash(l.object) \in Indices(table_size)
        BY <3>1, HashInRange, <1>1, <1>2
      <3>3. \A x \in Passed(hash(l.object), i) : locks[x] # EMPTY_CELL
        BY <1>1, CellKinds
      <3>4. Passed(hash(l.object), i) \subseteq Indices(table_size)
        BY <3>2, PassedInRange
      <3>5. \A x \in Passed(hash(l.object), i) \cup {i} : locks'[x] # EMPTY_CELL
        BY <2>1, <2>2, <3>1, <3>3, <3>4, <1>3
      <3> QED BY <1>1, <2>2, <3>1, <3>5 DEF IsSearched, Passed, hash
    <2>3. CASE k # i
      <3>1. k \in Valid /\ locks'[k] = locks[k]
        BY <1>1, <1>2, <1>5, <2>3
      <3>2. locks[k] \in LockValues
        BY <1>2, <3>1, CellKinds DEF Valid
      <3>3. locks[k].object \in Objects
        BY <3>2 DEF LockValues
      <3>4. \A x \in Passed(hash(locks[k].object), k) \cup {k} : locks[x] # EMPTY_CELL
        BY <3>1 DEF LocksReachable, IsSearched
      <3>5. Passed(hash(locks[k].object), k) \cup {k} \subseteq Indices(table_size)
        <4>1. hash(locks[k].object) \in Indices(table_size)
          BY <1>2, <2>0, <3>3, HashInRange
        <4> QED BY <2>0, <4>1, PassedInRange
      <3>6. \A x \in Passed(hash(locks[k].object), k) \cup {k} : locks'[x] # EMPTY_CELL
        BY <2>1, <3>4, <3>5
      <3> QED BY <1>1, <3>1, <3>6 DEF IsSearched, Passed, hash
    <2> QED BY <2>2, <2>3
  <1>14. used_cells' \in {used_cells, used_cells + 1}
    BY <1>1 DEF TypeOK
  <1> QED BY <1>1, <1>4, <1>11, <1>12, <1>13, <1>14

\* A cell keeps being in use if a lock in it is changed or invalidated, so nothing
\* gets out of reach.
LEMMA ReachableAfter ==
  ASSUME TypeOK, LocksReachable, UNCHANGED table_size,
         NEW f \in [Indices(table_size) -> Cells], locks' = f,
         \A i \in Indices(table_size) : locks[i] # EMPTY_CELL => f[i] # EMPTY_CELL,
         \A i \in Indices(table_size) : is_valid(f[i]) =>
             is_valid(locks[i]) /\ f[i].object = locks[i].object
  PROVE  LocksReachable'
  <1> SUFFICES ASSUME NEW k \in Valid'
               PROVE  IsSearched(locks[k].object, k)'
    BY DEF LocksReachable
  <1>1. k \in Indices(table_size) /\ is_valid(f[k])
    BY DEF Valid
  <1>2. k \in Valid /\ f[k].object = locks[k].object
    BY <1>1 DEF Valid
  <1>3. locks[k].object \in Objects /\ table_size > 0
    <2>1. locks[k] \in LockValues
      BY <1>1, <1>2, CellKinds DEF Valid, TypeOK
    <2> QED BY <1>1, <2>1 DEF LockValues, Indices, TypeOK
  <1>4. Passed(hash(locks[k].object), k) \subseteq Indices(table_size)
    BY <1>1, <1>3, HashInRange, PassedInRange
  <1>5. \A x \in Passed(hash(locks[k].object), k) \cup {k} : locks[x] # EMPTY_CELL
    BY <1>2 DEF LocksReachable, IsSearched
  <1>6. \A x \in Passed(hash(locks[k].object), k) \cup {k} : f[x] # EMPTY_CELL
    BY <1>1, <1>4, <1>5
  <1> QED BY <1>2, <1>6 DEF IsSearched, Passed, hash

\* Cells of a set of valid ones are freed.
LEMMA WithoutKeeps ==
  ASSUME TypeOK, CountsExact, NEW S \in SUBSET Valid
  PROVE  /\ Without(S) \in [Indices(table_size) -> Cells]
         /\ ValidAfter(S) \in Nat
         /\ ValidAfter(S) <= valid_cells
         /\ {i \in Indices(table_size) : is_valid(Without(S)[i])} = Valid \ S
         /\ Cardinality(Valid \ S) = ValidAfter(S)
         /\ {i \in Indices(table_size) : Without(S)[i] # EMPTY_CELL} = Used
         /\ \A i \in Indices(table_size) :
               /\ locks[i] # EMPTY_CELL => Without(S)[i] # EMPTY_CELL
               /\ is_valid(Without(S)[i]) => Without(S)[i] = locks[i]
  <1>1. S \in SUBSET Indices(table_size) /\ Valid \in SUBSET Indices(table_size)
    BY DEF Valid
  <1>2. IsFiniteSet(Valid) /\ IsFiniteSet(S) /\ Cardinality(S) \in Nat
        /\ Cardinality(Valid \ S) \in Nat
    BY <1>1, FiniteSubsets DEF TypeOK
  <1>3. Cardinality(Valid \ S) = Cardinality(Valid) - Cardinality(S)
    <2>1. Valid \cap S = S
      OBVIOUS
    <2> QED BY <1>2, <2>1, FS_Difference
  <1>4. /\ ValidAfter(S) = Cardinality(Valid \ S)
        /\ ValidAfter(S) <= valid_cells
    BY <1>2, <1>3 DEF ValidAfter, CountsExact, TypeOK
  <1>5. Without(S) \in [Indices(table_size) -> Cells]
    BY DEF Without, TypeOK, Cells
  <1>6. {i \in Indices(table_size) : is_valid(Without(S)[i])} = Valid \ S
    BY CellKinds DEF Without, Valid
  <1>7. {i \in Indices(table_size) : Without(S)[i] # EMPTY_CELL} = Used
    BY CellKinds DEF Without, Valid, Used
  <1>8. \A i \in Indices(table_size) :
               /\ locks[i] # EMPTY_CELL => Without(S)[i] # EMPTY_CELL
               /\ is_valid(Without(S)[i]) => Without(S)[i] = locks[i]
    BY CellKinds DEF Without
  <1> QED BY <1>2, <1>4, <1>5, <1>6, <1>7, <1>8

\* simple_remove_lock and unlock_user_tab keep the invariant.
LEMMA RemoveCellsKeeps ==
  ASSUME TableInv, NEW S \in SUBSET Valid, RemoveCells(S)
  PROVE  TableInv'
  <1> USE DEF TableInv
  <1>1. /\ ~rehashing /\ locks' = Without(S) /\ valid_cells' = ValidAfter(S)
        /\ UNCHANGED <<table_size, used_cells, rehashing, old_locks,
                       prev_table_size, j, todo>>
    BY DEF RemoveCells, resizeVars
  <1>2. TypeOK'
    BY <1>1, WithoutKeeps DEF TypeOK
  <1>3. Valid' = Valid \ S /\ Used' = Used
    BY <1>1, WithoutKeeps DEF Valid, Used
  <1>4. CountsExact'
    BY <1>1, <1>3, WithoutKeeps DEF CountsExact
  <1>5. Room'
    BY <1>1 DEF Room
  <1>6. LocksReachable'
    <2>1. Without(S) \in [Indices(table_size) -> Cells]
      BY WithoutKeeps
    <2>2. \A i \in Indices(table_size) :
             /\ locks[i] # EMPTY_CELL => Without(S)[i] # EMPTY_CELL
             /\ is_valid(Without(S)[i]) =>
                   is_valid(locks[i]) /\ Without(S)[i].object = locks[i].object
      BY WithoutKeeps
    <2> QED BY <1>1, <2>1, <2>2, ReachableAfter
  <1> QED BY <1>2, <1>4, <1>5, <1>6

\* The lock in cell i becomes l, on the same object.
LEMMA ConvertKeeps ==
  ASSUME TableInv, NEW i \in Valid, NEW l \in LockValues,
         l.object = locks[i].object, locks' = [locks EXCEPT ![i] = l], ~rehashing,
         UNCHANGED <<table_size, valid_cells, used_cells, rehashing, old_locks,
                     prev_table_size, j, todo>>
  PROVE  TableInv'
  <1> USE DEF TableInv
  <1>1. /\ i \in Indices(table_size) /\ is_valid(locks[i])
        /\ locks \in [Indices(table_size) -> Cells] /\ l \in Cells
        /\ is_valid(l) /\ l # EMPTY_CELL /\ locks[i] # EMPTY_CELL
    BY CellKinds DEF Valid, TypeOK, Cells
  <1>2. Indices(table_size)' = Indices(table_size)
    BY DEF Indices
  <1>3. TypeOK'
    BY <1>1, <1>2 DEF TypeOK
  <1>4. Valid' = Valid /\ Used' = Used
    BY <1>1, <1>2 DEF Valid, Used
  <1>5. CountsExact'
    BY <1>4 DEF CountsExact
  <1>6. Room'
    BY DEF Room
  <1>7. LocksReachable'
    <2>1. locks' \in [Indices(table_size) -> Cells]
      BY <1>1
    <2>2. \A k \in Indices(table_size) :
             /\ locks[k] # EMPTY_CELL => locks'[k] # EMPTY_CELL
             /\ is_valid(locks'[k]) => is_valid(locks[k]) /\ locks'[k].object = locks[k].object
      BY <1>1
    <2> QED BY <2>1, <2>2, ReachableAfter
  <1> QED BY <1>3, <1>5, <1>6, <1>7

\* remove_lock keeps the invariant, with removal and with conversion.
LEMMA RemoveLockKeeps ==
  ASSUME TableInv, NEW o \in Objects, NEW c \in Owners,
         NEW t \in UsedTypes \cup {"ANY_LOCK"}, remove_lock(o, c, t)
  PROVE  TableInv'
  <1> USE DEF TableInv
  <1>1. PICK i \in Indices(table_size) :
          /\ Matches(i, o, c, t)
          /\ IF t = "WLOCK"
             THEN /\ locks' = [locks EXCEPT ![i].locktype = "TMPWLOCK"]
                  /\ UNCHANGED valid_cells
             ELSE /\ locks' = [locks EXCEPT ![i] = INVALID_CELL]
                  /\ valid_cells' = valid_cells - 1
    BY DEF remove_lock
  <1>2. ~rehashing /\ valid_cells > 0 /\ UNCHANGED <<table_size, used_cells, resizeVars>>
    BY DEF remove_lock
  <1>3. i \in Valid
    BY <1>1 DEF Matches, Owned, Valid
  <1>4. CASE t = "WLOCK"
    <2> DEFINE l == [locks[i] EXCEPT !.locktype = "TMPWLOCK"]
    <2>1. locks[i] \in LockValues
      BY <1>3, CellKinds DEF Valid, TypeOK
    <2>2. "TMPWLOCK" \in UsedTypes
      BY <1>1, <1>4, <2>1, TableConstants DEF Matches, LockValues, LockTypes
    <2>3. l \in LockValues /\ l.object = locks[i].object
      BY <2>1, <2>2 DEF LockValues
    <2>4. locks' = [locks EXCEPT ![i] = l]
      BY <1>1, <1>4 DEF TypeOK
    <2> HIDE DEF l
    <2> QED BY <1>1, <1>2, <1>3, <1>4, <2>3, <2>4, ConvertKeeps DEF resizeVars
  <1>5. CASE t # "WLOCK"
    <2>1. locks' = Without({i})
      BY <1>1, <1>5 DEF Without, TypeOK
    <2>2. Cardinality({i}) = 1
      BY FS_Singleton
    <2>3. valid_cells' = ValidAfter({i})
      BY <1>1, <1>5, <2>2 DEF ValidAfter
    <2>4. RemoveCells({i})
      BY <1>2, <2>1, <2>3 DEF RemoveCells
    <2> QED BY <1>3, <2>4, RemoveCellsKeeps
  <1> QED BY <1>4, <1>5

\* resize starts with an empty table that has room for what it will copy.
LEMMA ResizeKeeps ==
  ASSUME TableInv, ~rehashing, NEW n \in Nat, NEW old \in [Indices(table_size) -> Cells],
         NEW l \in LockValues \cup {NoLock},
         resize(n, old, l),
         Cardinality({i \in Indices(table_size) : is_valid(old[i])})
             + (IF l = NoLock THEN 0 ELSE 1) < n
  PROVE  TableInv'
  <1> USE DEF TableInv
  <1>1. locks' \in [Indices(n) -> Cells] /\ \A i \in Indices(n) : locks'[i] = EMPTY_CELL
    BY DEF resize, Cells
  <1>2. Indices(table_size)' = Indices(n) /\ Indices(prev_table_size)' = Indices(table_size)
    BY DEF resize, Indices
  <1>3. TypeOK'
    <2>1. j' \in 0..prev_table_size'
      BY DEF resize, TypeOK
    <2> QED BY <1>1, <1>2, <2>1 DEF resize, TypeOK
  <1>4. Valid' = {} /\ Used' = {}
    BY <1>1, <1>2, CellKinds DEF Valid, Used
  <1>5. CountsExact'
    BY <1>4, FS_EmptySet DEF CountsExact, resize
  <1>6. Room'
    <2>1. \A i \in Indices(table_size) : i >= 0
      BY DEF Indices, TypeOK
    <2>2. Rest' = {i \in Indices(table_size) : is_valid(old[i])}
      BY <1>2, <2>1 DEF Rest, resize
    <2>3. Cardinality({i \in Indices(table_size) : is_valid(old[i])}) \in Nat
      BY FiniteSubsets DEF TypeOK
    <2> QED BY <2>2, <2>3 DEF Room, resize
  <1>7. LocksReachable'
    BY <1>4 DEF LocksReachable
  <1> QED BY <1>3, <1>5, <1>6, <1>7

\* add_lock keeps the invariant: it inserts, grows or gives up.
LEMMA AddLockKeeps ==
  ASSUME TableInv, NEW l \in LockValues, add_lock(l)
  PROVE  TableInv'
  <1> USE DEF TableInv
  <1>1. CASE ~no_space_for_new_lock /\ insert(l) /\ UNCHANGED resizeVars
    <2>1. ~rehashing /\ ~rehashing'
      BY <1>1 DEF add_lock, resizeVars
    <2>2. /\ table_size' = table_size
          /\ locks' \in [Indices(table_size) -> Cells]
          /\ valid_cells' = valid_cells + 1
          /\ used_cells' \in {used_cells, used_cells + 1}
          /\ CountsExact' /\ LocksReachable'
      BY <1>1, InsertKeeps
    <2>3. TypeOK'
      BY <1>1, <2>2 DEF TypeOK, resizeVars
    <2>4. used_cells + 1 < table_size
      BY <1>1 DEF no_space_for_new_lock, TypeOK
    <2>5. Room'
      BY <2>1, <2>2, <2>4 DEF Room, TypeOK
    <2> QED BY <2>2, <2>3, <2>5
  <1>2. CASE resize(bigger_table_size, locks, l)
    <2>1. ~rehashing
      BY DEF add_lock
    <2>2. bigger_table_size \in Nat /\ bigger_table_size > used_cells + 1
      BY <2>1 DEF bigger_table_size, INITIAL_SIZE, Room, TypeOK
    <2>3. Cardinality(Valid) <= Cardinality(Used)
      <3>1. Valid \in SUBSET Used /\ Used \in SUBSET Indices(table_size)
        BY CellKinds DEF Valid, Used
      <3>2. IsFiniteSet(Used)
        BY <3>1, FiniteSubsets DEF TypeOK
      <3> QED BY <3>1, <3>2, FS_Subset
    <2>4. Cardinality({i \in Indices(table_size) : is_valid(locks[i])}) + 1 < bigger_table_size
      BY <2>2, <2>3 DEF Valid, CountsExact, TypeOK
    <2>5. locks \in [Indices(table_size) -> Cells]
      BY DEF TypeOK
    <2>6. l # NoLock
      BY TableConstants
    <2> QED BY <1>2, <2>1, <2>2, <2>4, <2>5, <2>6, ResizeKeeps
  <1>3. CASE UNCHANGED vars
    BY <1>3 DEF vars, TypeOK, CountsExact, Valid, Used, Room, Rest, LocksReachable,
                IsSearched, Passed, hash
  <1> QED BY <1>1, <1>2, <1>3 DEF add_lock

\* remove_my_tmplocks keeps the invariant, with and without shrinking.
LEMMA TmpLocksKeeps ==
  ASSUME TableInv, NEW c \in Owners, remove_my_tmplocks(c)
  PROVE  TableInv'
  <1> USE DEF TableInv
  <1> DEFINE S == {i \in Indices(table_size) :
                     Owned(i, c) /\ locks[i].locktype \in {"TMPRLOCK", "TMPWLOCK"}}
  <1>1. S \in SUBSET Valid
    BY DEF Owned, Valid
  <1>2. CASE RemoveCells(S)
    BY <1>1, <1>2, RemoveCellsKeeps
  <1>3. CASE /\ ~rehashing /\ ValidAfter(S) <= 3
             /\ resize(INITIAL_SIZE, Without(S), NoLock)
    <2> HIDE DEF S
    <2>1. /\ Without(S) \in [Indices(table_size) -> Cells]
          /\ Cardinality({i \in Indices(table_size) : is_valid(Without(S)[i])}) = ValidAfter(S)
          /\ ValidAfter(S) \in Nat
      BY <1>1, WithoutKeeps
    <2>2. ValidAfter(S) + 0 < INITIAL_SIZE /\ INITIAL_SIZE \in Nat
      BY <1>3, <2>1 DEF INITIAL_SIZE
    <2> QED BY <1>3, <2>1, <2>2, ResizeKeeps
  <1> QED BY <1>2, <1>3 DEF remove_my_tmplocks

\* One turn of the loop of resize moves at most one lock from Rest to the table.
LEMMA RehashKeeps ==
  ASSUME TableInv, rehash
  PROVE  TableInv'
  <1> USE DEF TableInv
  <1>1. /\ rehashing /\ j \in Indices(prev_table_size) /\ j' = j + 1
        /\ UNCHANGED <<rehashing, old_locks, prev_table_size, todo>>
    BY DEF rehash, AllCopied, TypeOK, Indices
  <1>2. /\ IsFiniteSet(Rest) /\ Cardinality(Rest) \in Nat
        /\ IsFiniteSet(Rest') /\ Cardinality(Rest') \in Nat
    <2>1. Rest \in SUBSET Indices(prev_table_size) /\ Rest' \in SUBSET Indices(prev_table_size)
      BY <1>1 DEF Rest, Indices
    <2> QED BY <2>1, FiniteSubsets DEF TypeOK
  <1>3. Rest' = Rest \ {j}
    <2>1. \A i \in Indices(prev_table_size) : i >= j + 1 <=> i >= j /\ i # j
      BY <1>1 DEF Indices, TypeOK
    <2> QED BY <1>1, <2>1 DEF Rest, Indices
  <1>4. j \in Rest <=> is_valid(old_locks[j])
    BY <1>1 DEF Rest, Indices, TypeOK
  <1>5. Cardinality(Rest') = IF is_valid(old_locks[j]) THEN Cardinality(Rest) - 1
                             ELSE Cardinality(Rest)
    BY <1>2, <1>3, <1>4, FS_RemoveElement
  <1>6. j' \in 0..prev_table_size'
    BY <1>1 DEF Indices, TypeOK
  <1>7. CASE is_valid(old_locks[j])
    <2>1. old_locks[j] \in LockValues
      BY <1>1, <1>7, CellKinds DEF TypeOK
    <2>2. insert(old_locks[j])
      BY <1>7 DEF rehash
    <2>3. /\ table_size' = table_size
          /\ locks' \in [Indices(table_size) -> Cells]
          /\ valid_cells' = valid_cells + 1
          /\ used_cells' \in {used_cells, used_cells + 1}
          /\ used_cells = valid_cells => used_cells' = valid_cells'
          /\ CountsExact' /\ LocksReachable'
      BY <2>1, <2>2, InsertKeeps
    <2>4. TypeOK'
      BY <1>1, <1>6, <2>3 DEF TypeOK
    <2>5. Room'
      BY <1>1, <1>2, <1>5, <1>7, <2>3 DEF Room, TypeOK
    <2> QED BY <2>3, <2>4, <2>5
  <1>8. CASE ~is_valid(old_locks[j])
    <2>1. UNCHANGED <<table_size, locks, valid_cells, used_cells>>
      BY <1>8 DEF rehash
    <2>2. TypeOK'
      BY <1>1, <1>6, <2>1 DEF TypeOK
    <2>3. CountsExact' /\ LocksReachable'
      BY <2>1 DEF CountsExact, Valid, Used, LocksReachable, IsSearched, Passed, hash
    <2>4. Room'
      BY <1>1, <1>5, <1>8, <2>1 DEF Room
    <2> QED BY <2>2, <2>3, <2>4
  <1> QED BY <1>7, <1>8

\* The end of resize leaves room for the lock of add_lock.
LEMMA EndOfResizeKeeps ==
  ASSUME TableInv, end_of_resize
  PROVE  TableInv'
  <1> USE DEF TableInv
  <1>1. /\ rehashing /\ ~rehashing' /\ old_locks' = NoTable /\ prev_table_size' = 0
        /\ j' = 0 /\ todo' = NoLock
    BY DEF end_of_resize
  <1>2. Cardinality(Rest) \in Nat
    <2>1. Rest \in SUBSET Indices(prev_table_size)
      BY DEF Rest
    <2> QED BY <2>1, FiniteSubsets DEF TypeOK
  <1>3. used_cells = valid_cells /\ valid_cells + (IF todo = NoLock THEN 0 ELSE 1) < table_size
    BY <1>1, <1>2 DEF Room, TypeOK
  <1>4. /\ old_locks' \in [Indices(prev_table_size)' -> Cells]
        /\ j' \in 0..prev_table_size' /\ prev_table_size' \in Nat
        /\ todo' \in LockValues \cup {NoLock} /\ rehashing' \in BOOLEAN
    <2>1. rehashing' = FALSE
      BY DEF end_of_resize
    <2>2. 0 \in 0..0
      OBVIOUS
    <2> QED BY <1>1, <2>1, <2>2, NoTableTyped
  <1>5. CASE todo = NoLock
    <2>1. UNCHANGED <<table_size, locks, valid_cells, used_cells>>
      BY <1>5 DEF end_of_resize
    <2>2. TypeOK'
      BY <1>4, <2>1 DEF TypeOK
    <2>3. CountsExact' /\ LocksReachable'
      BY <2>1 DEF CountsExact, Valid, Used, LocksReachable, IsSearched, Passed, hash
    <2>4. Room'
      BY <1>1, <1>3, <1>5, <2>1 DEF Room, TypeOK
    <2> QED BY <2>2, <2>3, <2>4
  <1>6. CASE todo # NoLock
    <2>1. todo \in LockValues /\ insert(todo)
      BY <1>6 DEF end_of_resize, TypeOK
    <2>2. /\ table_size' = table_size
          /\ locks' \in [Indices(table_size) -> Cells]
          /\ valid_cells' = valid_cells + 1
          /\ used_cells' \in {used_cells, used_cells + 1}
          /\ CountsExact' /\ LocksReachable'
      BY <2>1, InsertKeeps
    <2>3. TypeOK'
      BY <1>4, <2>2 DEF TypeOK
    <2>4. Room'
      BY <1>1, <1>3, <1>6, <2>2 DEF Room, TypeOK
    <2> QED BY <2>2, <2>3, <2>4
  <1> QED BY <1>5, <1>6

\* A table without cells.
LEMMA TableInit == Init => TableInv
  <1> SUFFICES ASSUME Init PROVE TableInv
    OBVIOUS
  <1>1. Indices(table_size) = {} /\ Indices(prev_table_size) = {}
    BY DEF Init, Indices
  <1>2. TypeOK
    <2>1. 0 \in 0..0
      OBVIOUS
    <2> QED BY <2>1, NoTableTyped DEF Init, TypeOK
  <1>3. Valid = {} /\ Used = {}
    BY <1>1 DEF Valid, Used
  <1> QED BY <1>2, <1>3, FS_EmptySet DEF TableInv, CountsExact, Room, LocksReachable, Init

\* Every operation keeps the invariant.
LEMMA TableNext == TableInv /\ [Next]_vars => TableInv'
  <1> SUFFICES ASSUME TableInv, [Next]_vars PROVE TableInv'
    OBVIOUS
  <1>1. CASE rehash
    BY <1>1, RehashKeeps
  <1>2. CASE end_of_resize
    BY <1>2, EndOfResizeKeeps
  <1>3. ASSUME NEW l \in LockValues, add_lock(l) PROVE TableInv'
    BY <1>3, AddLockKeeps
  <1>4. ASSUME NEW o \in Objects, NEW c \in Owners, NEW t \in UsedTypes \cup {"ANY_LOCK"},
               remove_lock(o, c, t)
        PROVE  TableInv'
    BY <1>4, RemoveLockKeeps
  <1>5. ASSUME NEW o \in Objects, NEW c \in Owners, NEW t \in UsedTypes \cup {"ANY_LOCK"},
               simple_remove_lock(c, o, t)
        PROVE  TableInv'
    <2>1. {i \in Indices(table_size) : Matches(i, o, c, t)} \in SUBSET Valid
      BY DEF Matches, Owned, Valid
    <2> QED BY <1>5, <2>1, RemoveCellsKeeps DEF simple_remove_lock
  <1>6. ASSUME NEW c \in Owners, unlock_user_tab(c) PROVE TableInv'
    <2>1. {i \in Indices(table_size) : Owned(i, c)} \in SUBSET Valid
      BY DEF Owned, Valid
    <2> QED BY <1>6, <2>1, RemoveCellsKeeps DEF unlock_user_tab
  <1>7. ASSUME NEW c \in Owners, remove_my_tmplocks(c) PROVE TableInv'
    BY <1>7, TmpLocksKeeps
  <1>8. CASE UNCHANGED vars
    BY <1>8 DEF vars, TableInv, TypeOK, CountsExact, Valid, Used, Room, Rest,
                LocksReachable, IsSearched, Passed, hash
  <1> QED BY <1>1, <1>2, <1>3, <1>4, <1>5, <1>6, <1>7, <1>8 DEF Next

\* The inductive invariant of the hash table, for any sequence of operations
\* of t_locktable.
THEOREM TableInvariance == Spec => []TableInv
  BY TableInit, TableNext, PTL DEF Spec

(***************************************************************************)
(* The table, its counters and the state of resize keep their types; the   *)
(* counter of valid cells does not get below zero.                         *)
(***************************************************************************)
THEOREM TypeCorrect == Spec => []TypeOK
  <1>1. TableInv => TypeOK
    BY DEF TableInv
  <1> QED BY <1>1, TableInvariance, PTL

(***************************************************************************)
(* valid_cells and used_cells say how many cells hold a lock and how many  *)
(* are not empty.                                                          *)
(***************************************************************************)
THEOREM CountersAreExact == Spec => []CountsExact
  <1>1. TableInv => CountsExact
    BY DEF TableInv
  <1> QED BY <1>1, TableInvariance, PTL

(***************************************************************************)
(* A table with cells has an empty one, whatever locks were added, removed *)
(* and converted and whenever it was resized: no search loops for ever.    *)
(***************************************************************************)
THEOREM SearchesEnd == Spec => []SearchEnds
  <1>1. TableInv => SearchEnds
    BY RoomMeansEmpty DEF TableInv
  <1> QED BY <1>1, TableInvariance, PTL

(***************************************************************************)
(* A search for an object gets to each of its locks.                       *)
(***************************************************************************)
THEOREM LocksAreReachable == Spec => []LocksReachable
  <1>1. TableInv => LocksReachable
    BY DEF TableInv
  <1> QED BY <1>1, TableInvariance, PTL
-----------------------------------------------------------------------------
(* The table implements a bag *)

\* Cells of a table of n cells that hold l.
CellsWith(n, f, l) == {i \in Indices(n) : f[i] = l}

\* Cells of the old table with l that resize has still to copy.
UncopiedWith(l) == {i \in Indices(prev_table_size) : i >= j /\ old_locks[i] = l}

\* Outside resize there is no old table.
Idle == ~rehashing => prev_table_size = 0

\* The sets the bag is counted from are finite.
LEMMA CountsTyped ==
  ASSUME TypeOK, NEW l
  PROVE  /\ IsFiniteSet(CellsWith(table_size, locks, l))
         /\ Cardinality(CellsWith(table_size, locks, l)) \in Nat
         /\ IsFiniteSet(UncopiedWith(l)) /\ Cardinality(UncopiedWith(l)) \in Nat
         /\ BagOf(l) = Cardinality(CellsWith(table_size, locks, l))
                       + Cardinality(UncopiedWith(l))
         /\ BagOf(l) \in Nat
  <1>1. /\ CellsWith(table_size, locks, l) \in SUBSET Indices(table_size)
        /\ UncopiedWith(l) \in SUBSET Indices(prev_table_size)
    BY DEF CellsWith, UncopiedWith
  <1>2. BagOf(l) = Cardinality(CellsWith(table_size, locks, l))
                   + Cardinality(UncopiedWith(l))
    BY DEF BagOf, CellsWith, UncopiedWith
  <1> QED BY <1>1, <1>2, FiniteSubsets DEF TypeOK

\* g has the cells with l that f has, less the cell i, which holds x.
WriteCounted(n, f, i, x, g, l) ==
  Cardinality(CellsWith(n, g, l))
    = Cardinality(CellsWith(n, f, l)) - (IF f[i] = l THEN 1 ELSE 0) + (IF x = l THEN 1 ELSE 0)

\* What the number of cells with l becomes when x is written to cell i.
LEMMA OneCellWritten ==
  ASSUME NEW n \in Nat, NEW f \in [Indices(n) -> Cells], NEW i \in Indices(n), NEW x, NEW l,
         NEW g, g = [f EXCEPT ![i] = x]
  PROVE  WriteCounted(n, f, i, x, g, l)
  <1> USE DEF WriteCounted
  <1> DEFINE Old == CellsWith(n, f, l)
             New == CellsWith(n, g, l)
  <1>1. IsFiniteSet(Old) /\ Cardinality(Old) \in Nat
    <2>1. Old \in SUBSET Indices(n)
      BY DEF CellsWith
    <2> QED BY <2>1, FiniteSubsets
  <1>2. IsFiniteSet(Old \ {i}) /\ Cardinality(Old \ {i}) \in Nat
    <2>1. Old \ {i} \in SUBSET Indices(n)
      BY DEF CellsWith
    <2> QED BY <2>1, FiniteSubsets
  <1>3. Cardinality(Old \ {i}) = Cardinality(Old) - (IF f[i] = l THEN 1 ELSE 0)
    <2>1. i \in Old <=> f[i] = l
      BY DEF CellsWith
    <2>2. Cardinality(Old \ {i}) = IF i \in Old THEN Cardinality(Old) - 1 ELSE Cardinality(Old)
      BY <1>1, FS_RemoveElement
    <2> HIDE DEF Old
    <2> QED BY <1>1, <2>1, <2>2
  <1>4. CASE x = l
    <2>1. New = (Old \ {i}) \cup {i} /\ i \notin Old \ {i}
      BY <1>4 DEF CellsWith
    <2> HIDE DEF Old, New
    <2>2. Cardinality(New) = Cardinality(Old \ {i}) + 1
      BY <1>2, <2>1, FS_AddElement
    <2>3. Cardinality(New) = Cardinality(Old) - (IF f[i] = l THEN 1 ELSE 0) + 1
      BY <1>1, <1>2, <1>3, <2>2
    <2> QED BY <1>4, <2>3 DEF Old, New
  <1>5. CASE x # l
    <2>1. New = Old \ {i}
      BY <1>5 DEF CellsWith
    <2> HIDE DEF Old, New
    <2>2. Cardinality(New) = Cardinality(Old) - (IF f[i] = l THEN 1 ELSE 0) + 0
      BY <1>1, <1>2, <1>3, <2>1
    <2> QED BY <1>5, <2>2 DEF Old, New
  <1> QED BY <1>4, <1>5

\* One lock more in the bag.
Plus(l) == \A k \in LockValues : BagOf(k)' = BagOf(k) + (IF k = l THEN 1 ELSE 0)
\* One lock less.
Minus(l) == \A k \in LockValues : BagOf(k)' = BagOf(k) - (IF k = l THEN 1 ELSE 0)
\* The same locks.
Same == \A k \in LockValues : BagOf(k)' = BagOf(k)

\* insert makes one lock more of the cells of the table.
LEMMA InsertCounts ==
  ASSUME TypeOK, NEW l \in LockValues, insert(l), NEW k \in LockValues
  PROVE  Cardinality(CellsWith(table_size, locks, k)')
           = Cardinality(CellsWith(table_size, locks, k)) + (IF k = l THEN 1 ELSE 0)
  <1>1. PICK i \in Indices(table_size) :
           /\ ~is_valid(locks[i])
           /\ locks' = [locks EXCEPT ![i] = l]
           /\ UNCHANGED table_size
    BY DEF insert
  <1>2. locks[i] # k
    BY <1>1, CellKinds
  <1>3. CellsWith(table_size, locks, k)' = CellsWith(table_size, locks', k)
    BY <1>1 DEF CellsWith, Indices
  <1>4. WriteCounted(table_size, locks, i, l, locks', k)
    <2>1. table_size \in Nat /\ locks \in [Indices(table_size) -> Cells]
      BY DEF TypeOK
    <2> QED BY <1>1, <2>1, OneCellWritten, ZenonT(60)
  <1>5. Cardinality(CellsWith(table_size, locks, k)) \in Nat
    BY CountsTyped
  <1> HIDE DEF CellsWith
  <1> QED BY <1>2, <1>3, <1>4, <1>5 DEF WriteCounted

\* While nothing is copied the bag is the table.
LEMMA IdleBag ==
  ASSUME TypeOK, Idle, ~rehashing, NEW l
  PROVE  UncopiedWith(l) = {} /\ BagOf(l) = Cardinality(CellsWith(table_size, locks, l))
  <1>1. UncopiedWith(l) = {}
    BY DEF Idle, UncopiedWith, Indices
  <1> QED BY <1>1, CountsTyped, FS_EmptySet

\* insert outside resize makes the bag one lock bigger.
LEMMA InsertAdds ==
  ASSUME TypeOK, TypeOK', Idle, Idle', ~rehashing, ~rehashing',
         NEW l \in LockValues, insert(l)
  PROVE  Plus(l)
  <1> SUFFICES ASSUME NEW k \in LockValues
               PROVE  BagOf(k)' = BagOf(k) + (IF k = l THEN 1 ELSE 0)
    BY DEF Plus
  <1>1. BagOf(k) = Cardinality(CellsWith(table_size, locks, k))
    BY IdleBag
  <1>2. BagOf(k)' = Cardinality(CellsWith(table_size, locks, k)')
    <2>1. UncopiedWith(k)' = {}
      BY DEF Idle, UncopiedWith, Indices
    <2>2. BagOf(k)' = Cardinality(CellsWith(table_size, locks, k)') + Cardinality(UncopiedWith(k)')
      BY DEF BagOf, CellsWith, UncopiedWith
    <2>3. Cardinality(CellsWith(table_size, locks, k)') \in Nat
      <3>1. CellsWith(table_size, locks, k)' \in SUBSET Indices(table_size')
        BY DEF CellsWith, Indices
      <3> QED BY <3>1, FiniteSubsets DEF TypeOK
    <2> QED BY <2>1, <2>2, <2>3, FS_EmptySet
  <1>3. Cardinality(CellsWith(table_size, locks, k)')
           = Cardinality(CellsWith(table_size, locks, k)) + (IF k = l THEN 1 ELSE 0)
    BY InsertCounts
  <1> QED BY <1>1, <1>2, <1>3

\* A turn of the loop of resize moves a lock from the old table to the new one.
LEMMA RehashSame ==
  ASSUME TypeOK, rehash
  PROVE  Same
  <1> SUFFICES ASSUME NEW k \in LockValues PROVE BagOf(k)' = BagOf(k)
    BY DEF Same
  <1>1. /\ j \in Indices(prev_table_size) /\ j' = j + 1
        /\ UNCHANGED <<rehashing, old_locks, prev_table_size, todo>>
    BY DEF rehash, AllCopied, TypeOK, Indices
  <1>2. UncopiedWith(k)' = UncopiedWith(k) \ {j}
    <2>1. \A i \in Indices(prev_table_size) : i >= j + 1 <=> i >= j /\ i # j
      BY <1>1 DEF Indices, TypeOK
    <2> QED BY <1>1, <2>1 DEF UncopiedWith, Indices
  <1>3. j \in UncopiedWith(k) <=> old_locks[j] = k
    BY <1>1 DEF UncopiedWith, Indices, TypeOK
  <1>4. Cardinality(UncopiedWith(k)') = Cardinality(UncopiedWith(k))
                                       - (IF old_locks[j] = k THEN 1 ELSE 0)
    <2>1. IsFiniteSet(UncopiedWith(k)) /\ Cardinality(UncopiedWith(k)) \in Nat
      BY CountsTyped
    <2>2. Cardinality(UncopiedWith(k) \ {j}) =
             IF j \in UncopiedWith(k) THEN Cardinality(UncopiedWith(k)) - 1
             ELSE Cardinality(UncopiedWith(k))
      BY <2>1, FS_RemoveElement
    <2> HIDE DEF UncopiedWith
    <2> QED BY <1>2, <1>3, <2>1, <2>2
  <1>5. Cardinality(CellsWith(table_size, locks, k)')
           = Cardinality(CellsWith(table_size, locks, k)) + (IF old_locks[j] = k THEN 1 ELSE 0)
    <2>1. CASE is_valid(old_locks[j])
      <3>1. old_locks[j] \in LockValues
        BY <1>1, <2>1, CellKinds DEF TypeOK
      <3>2. insert(old_locks[j])
        BY <2>1 DEF rehash
      <3>3. Cardinality(CellsWith(table_size, locks, k)')
             = Cardinality(CellsWith(table_size, locks, k)) + (IF k = old_locks[j] THEN 1 ELSE 0)
        BY <3>1, <3>2, InsertCounts
      <3> QED BY <3>3
    <2>2. CASE ~is_valid(old_locks[j])
      <3>1. UNCHANGED <<table_size, locks>> /\ old_locks[j] # k
        BY <2>2, CellKinds DEF rehash
      <3>2. CellsWith(table_size, locks, k)' = CellsWith(table_size, locks, k)
        BY <3>1 DEF CellsWith, Indices
      <3>3. Cardinality(CellsWith(table_size, locks, k)) \in Nat
        BY CountsTyped
      <3> QED BY <3>1, <3>2, <3>3
    <2> QED BY <2>1, <2>2
  <1>6. BagOf(k)' = Cardinality(CellsWith(table_size, locks, k)') + Cardinality(UncopiedWith(k)')
    BY DEF BagOf, CellsWith, UncopiedWith
  <1>7. /\ BagOf(k) = Cardinality(CellsWith(table_size, locks, k)) + Cardinality(UncopiedWith(k))
        /\ Cardinality(CellsWith(table_size, locks, k)) \in Nat
        /\ Cardinality(UncopiedWith(k)) \in Nat
    BY CountsTyped
  <1> QED BY <1>4, <1>5, <1>6, <1>7

\* The new table has all locks when resize ends; add_lock then inserts its own.
LEMMA EndOfResizeAdds ==
  ASSUME TableInv, end_of_resize
  PROVE  IF todo = NoLock THEN Same ELSE Plus(todo)
  <1>1. TableInv'
    BY EndOfResizeKeeps
  <1>2. TypeOK /\ TypeOK' /\ j >= prev_table_size /\ prev_table_size' = 0 /\ prev_table_size \in Nat
    BY <1>1 DEF TableInv, end_of_resize, AllCopied, TypeOK
  <1>3. \A k : UncopiedWith(k) = {} /\ UncopiedWith(k)' = {}
    <2> TAKE k
    <2>1. UncopiedWith(k) = {}
      BY <1>2 DEF UncopiedWith, Indices, TypeOK
    <2>2. UncopiedWith(k)' = {}
      BY <1>2 DEF UncopiedWith, Indices
    <2> QED BY <2>1, <2>2
  <1>4. ASSUME NEW k \in LockValues
        PROVE  /\ BagOf(k) = Cardinality(CellsWith(table_size, locks, k))
               /\ BagOf(k)' = Cardinality(CellsWith(table_size, locks, k)')
    <2>1. BagOf(k) = Cardinality(CellsWith(table_size, locks, k))
      BY <1>2, <1>3, CountsTyped, FS_EmptySet
    <2>2. BagOf(k)' = Cardinality(CellsWith(table_size, locks, k)') + Cardinality(UncopiedWith(k)')
      BY DEF BagOf, CellsWith, UncopiedWith
    <2>3. Cardinality(CellsWith(table_size, locks, k)') \in Nat
      <3>1. CellsWith(table_size, locks, k)' \in SUBSET Indices(table_size')
        BY DEF CellsWith, Indices
      <3> QED BY <1>2, <3>1, FiniteSubsets DEF TypeOK
    <2> QED BY <1>3, <2>1, <2>2, <2>3, FS_EmptySet
  <1>5. CASE todo = NoLock
    <2>1. UNCHANGED <<table_size, locks>>
      BY <1>5 DEF end_of_resize
    <2>2. \A k : CellsWith(table_size, locks, k)' = CellsWith(table_size, locks, k)
      BY <2>1 DEF CellsWith, Indices
    <2> QED BY <1>4, <1>5, <2>2 DEF Same
  <1>6. CASE todo # NoLock
    <2>1. todo \in LockValues /\ insert(todo)
      BY <1>2, <1>6 DEF end_of_resize, TypeOK
    <2>2. \A k \in LockValues : Cardinality(CellsWith(table_size, locks, k)')
             = Cardinality(CellsWith(table_size, locks, k)) + (IF k = todo THEN 1 ELSE 0)
      BY <1>2, <2>1, InsertCounts
    <2> QED BY <1>4, <1>6, <2>2 DEF Plus
  <1> QED BY <1>5, <1>6

\* When resize starts the bag is what it found in the old table.
LEMMA ResizeCounts ==
  ASSUME TypeOK, NEW n \in Nat, NEW old \in [Indices(table_size) -> Cells], NEW l,
         resize(n, old, l), NEW k \in LockValues
  PROVE  BagOf(k)' = Cardinality(CellsWith(table_size, old, k))
  <1>1. CellsWith(table_size, locks, k)' = {}
    BY CellKinds DEF CellsWith, resize, Indices
  <1>2. UncopiedWith(k)' = CellsWith(table_size, old, k)
    <2>1. \A i \in Indices(table_size) : i >= 0
      BY DEF Indices, TypeOK
    <2> QED BY <2>1 DEF UncopiedWith, CellsWith, resize, Indices
  <1>3. BagOf(k)' = Cardinality(CellsWith(table_size, locks, k)') + Cardinality(UncopiedWith(k)')
    BY DEF BagOf, CellsWith, UncopiedWith
  <1>4. Cardinality(CellsWith(table_size, old, k)) \in Nat
    <2>1. CellsWith(table_size, old, k) \in SUBSET Indices(table_size)
      BY DEF CellsWith
    <2> QED BY <2>1, FiniteSubsets DEF TypeOK
  <1> QED BY <1>1, <1>2, <1>3, <1>4, FS_EmptySet

\* What leaves the table when all cells with the locks of a set are freed.
LEMMA WithoutCounts ==
  ASSUME TypeOK, NEW K, NEW S, S = {i \in Valid : locks[i] \in K},
         NEW k \in LockValues
  PROVE  Cardinality(CellsWith(table_size, Without(S), k))
            = IF k \in K THEN 0 ELSE Cardinality(CellsWith(table_size, locks, k))
  <1>1. CASE k \in K
    <2>1. CellsWith(table_size, Without(S), k) = {}
      BY <1>1, CellKinds DEF CellsWith, Without, Valid
    <2> QED BY <1>1, <2>1, FS_EmptySet
  <1>2. CASE k \notin K
    <2>1. CellsWith(table_size, Without(S), k) = CellsWith(table_size, locks, k)
      BY <1>2, CellKinds DEF CellsWith, Without, Valid
    <2> QED BY <1>2, <2>1
  <1> QED BY <1>1, <1>2

\* The locks of a set are dropped and no other one.
Dropped(K) == \A k \in LockValues : BagOf(k)' = IF k \in K THEN 0 ELSE BagOf(k)

\* simple_remove_lock, unlock_user_tab and remove_my_tmplocks drop all locks of
\* a kind, with shrinking too.
LEMMA RemovalDrops ==
  ASSUME TypeOK, TypeOK', Idle, Idle', ~rehashing,
         NEW K, NEW S, S = {i \in Valid : locks[i] \in K},
         RemoveCells(S) \/ \E n \in Nat : resize(n, Without(S), NoLock)
  PROVE  Dropped(K)
  <1> SUFFICES ASSUME NEW k \in LockValues
               PROVE  BagOf(k)' = IF k \in K THEN 0 ELSE BagOf(k)
    BY DEF Dropped
  <1>1. BagOf(k) = Cardinality(CellsWith(table_size, locks, k))
    BY IdleBag
  <1>2. Cardinality(CellsWith(table_size, Without(S), k))
            = IF k \in K THEN 0 ELSE Cardinality(CellsWith(table_size, locks, k))
    BY WithoutCounts
  <1>3. CASE RemoveCells(S)
    <2>1. /\ locks' = Without(S) /\ table_size' = table_size
          /\ UNCHANGED <<prev_table_size, rehashing>>
      BY <1>3 DEF RemoveCells, resizeVars
    <2>2. CellsWith(table_size, locks, k)' = CellsWith(table_size, Without(S), k)
      BY <2>1 DEF CellsWith, Indices
    <2>3. UncopiedWith(k)' = {}
      BY <2>1 DEF Idle, UncopiedWith, Indices
    <2>4. BagOf(k)' = Cardinality(CellsWith(table_size, locks, k)') + Cardinality(UncopiedWith(k)')
      BY DEF BagOf, CellsWith, UncopiedWith
    <2>5. Cardinality(CellsWith(table_size, Without(S), k)) \in Nat
      <3>1. CellsWith(table_size, Without(S), k) \in SUBSET Indices(table_size)
        BY DEF CellsWith
      <3> QED BY <3>1, FiniteSubsets DEF TypeOK
    <2> QED BY <1>1, <1>2, <2>2, <2>3, <2>4, <2>5, FS_EmptySet
  <1>4. ASSUME NEW n \in Nat, resize(n, Without(S), NoLock)
        PROVE  BagOf(k)' = IF k \in K THEN 0 ELSE BagOf(k)
    <2>1. Without(S) \in [Indices(table_size) -> Cells]
      BY DEF Without, TypeOK, Cells
    <2> QED BY <1>1, <1>2, <1>4, <2>1, ResizeCounts
  <1> QED BY <1>3, <1>4

\* One write lock becomes a temporary one.
Converted(l) ==
  /\ l.locktype = "WLOCK" /\ [l EXCEPT !.locktype = "TMPWLOCK"] \in LockValues
  /\ \A k \in LockValues :
        BagOf(k)' = BagOf(k) - (IF k = l THEN 1 ELSE 0)
                             + (IF k = [l EXCEPT !.locktype = "TMPWLOCK"] THEN 1 ELSE 0)

\* remove_lock takes out one of the locks it is asked about, or converts one.
LEMMA RemoveLockCounts ==
  ASSUME TypeOK, TypeOK', Idle, NEW o \in Objects, NEW c \in Owners,
         NEW t \in UsedTypes \cup {"ANY_LOCK"}, remove_lock(o, c, t)
  PROVE  \E l \in Bag!Asked(o, c, t) :
            BagOf(l) > 0 /\ (IF t = "WLOCK" THEN Converted(l) ELSE Minus(l))
  <1>1. PICK i \in Indices(table_size) :
          /\ Matches(i, o, c, t)
          /\ IF t = "WLOCK"
             THEN locks' = [locks EXCEPT ![i].locktype = "TMPWLOCK"]
             ELSE locks' = [locks EXCEPT ![i] = INVALID_CELL]
    BY DEF remove_lock
  <1>2. ~rehashing /\ UNCHANGED <<table_size, prev_table_size, old_locks, j>>
    BY DEF remove_lock, resizeVars
  <1> DEFINE l == locks[i]
             New(k) == Cardinality(CellsWith(table_size, locks, k)')
             Had(k) == Cardinality(CellsWith(table_size, locks, k))
  <1>3. l \in LockValues
    BY <1>1, CellKinds DEF Matches, Owned, TypeOK
  <1>a. l \in Bag!Asked(o, c, t)
    BY <1>1, <1>3 DEF Matches, Owned, Bag!Asked, Bag!LockValues, LockValues
  <1>4. \A k \in LockValues : BagOf(k) = Had(k) /\ Had(k) \in Nat
    BY <1>2, IdleBag, CountsTyped
  <1>5. \A k \in LockValues : BagOf(k)' = New(k)
    <2> SUFFICES ASSUME NEW k \in LockValues PROVE BagOf(k)' = New(k)
      OBVIOUS
    <2>1. BagOf(k)' = New(k) + Cardinality(UncopiedWith(k)')
      BY DEF BagOf, CellsWith, UncopiedWith
    <2>2. UncopiedWith(k)' = {}
      BY <1>2 DEF Idle, UncopiedWith, Indices
    <2>3. New(k) \in Nat
      <3>1. CellsWith(table_size, locks, k)' \in SUBSET Indices(table_size')
        BY DEF CellsWith, Indices
      <3> QED BY <3>1, FiniteSubsets DEF TypeOK
    <2> QED BY <2>1, <2>2, <2>3, FS_EmptySet
  <1>6. BagOf(l) > 0
    <2>1. i \in CellsWith(table_size, locks, l)
      BY DEF CellsWith
    <2>2. Cardinality(CellsWith(table_size, locks, l)) # 0
      BY <2>1, CountsTyped, FS_EmptySet
    <2> QED BY <1>3, <1>4, <2>2
  <1>7. ASSUME NEW x, locks' = [locks EXCEPT ![i] = x]
        PROVE  \A k \in LockValues :
                 BagOf(k)' = BagOf(k) - (IF k = l THEN 1 ELSE 0) + (IF k = x THEN 1 ELSE 0)
    <2> SUFFICES ASSUME NEW k \in LockValues
                 PROVE  New(k) = Had(k) - (IF k = l THEN 1 ELSE 0) + (IF k = x THEN 1 ELSE 0)
      BY <1>4, <1>5
    <2>1. CellsWith(table_size, locks, k)' = CellsWith(table_size, locks', k)
      BY <1>2, <1>7 DEF CellsWith, Indices
    <2>2. WriteCounted(table_size, locks, i, x, locks', k)
      <3>1. table_size \in Nat /\ locks \in [Indices(table_size) -> Cells]
        BY DEF TypeOK
      <3> QED BY <1>7, <3>1, OneCellWritten, ZenonT(60)
    <2> QED BY <2>1, <2>2 DEF WriteCounted
  <1>8. CASE t = "WLOCK"
    <2> DEFINE x == [l EXCEPT !.locktype = "TMPWLOCK"]
    <2>1. l.locktype = "WLOCK" /\ "TMPWLOCK" \in UsedTypes
      BY <1>1, <1>3, <1>8, TableConstants DEF Matches, LockValues, LockTypes
    <2>2. x \in LockValues
      BY <1>3, <2>1 DEF LockValues
    <2>3. locks' = [locks EXCEPT ![i] = x]
      BY <1>1, <1>8 DEF TypeOK
    <2>4. \A k \in LockValues :
             BagOf(k)' = BagOf(k) - (IF k = l THEN 1 ELSE 0) + (IF k = x THEN 1 ELSE 0)
      <3> HIDE DEF x
      <3> QED BY <1>7, <2>3
    <2>5. Converted(l)
      BY <2>1, <2>2, <2>4 DEF Converted
    <2> QED BY <1>8, <1>a, <1>6, <2>5
  <1>9. CASE t # "WLOCK"
    <2>1. locks' = [locks EXCEPT ![i] = INVALID_CELL]
      BY <1>1, <1>9
    <2>2. \A k \in LockValues : k # INVALID_CELL
      BY TableConstants
    <2>3. \A k \in LockValues :
             BagOf(k)' = BagOf(k) - (IF k = l THEN 1 ELSE 0)
                                  + (IF k = INVALID_CELL THEN 1 ELSE 0)
      BY <1>7, <2>1
    <2>4. \A k \in LockValues : BagOf(k) \in Nat
      BY <1>4
    <2>5. Minus(l)
      <3> HIDE DEF l
      <3> QED BY <2>2, <2>3, <2>4 DEF Minus
    <2> QED BY <1>9, <1>a, <1>6, <2>5
  <1> QED BY <1>8, <1>9

\* The old table is freed at the end of resize.
LEMMA IdleNext == Idle /\ [Next]_vars => Idle'
  <1> SUFFICES ASSUME Idle, [Next]_vars PROVE Idle'
    OBVIOUS
  <1>1. CASE rehash
    BY <1>1 DEF rehash, Idle
  <1>2. CASE end_of_resize
    BY <1>2 DEF end_of_resize, Idle
  <1>3. ASSUME NEW l \in LockValues, add_lock(l) PROVE Idle'
    BY <1>3 DEF add_lock, resize, resizeVars, vars, Idle
  <1>4. ASSUME NEW o \in Objects, NEW c \in Owners, NEW t \in UsedTypes \cup {"ANY_LOCK"},
               remove_lock(o, c, t) \/ simple_remove_lock(c, o, t)
        PROVE  Idle'
    BY <1>4 DEF remove_lock, simple_remove_lock, RemoveCells, resizeVars, Idle
  <1>5. ASSUME NEW c \in Owners, unlock_user_tab(c) \/ remove_my_tmplocks(c) PROVE Idle'
    BY <1>5 DEF unlock_user_tab, remove_my_tmplocks, RemoveCells, resize, resizeVars, Idle
  <1>6. CASE UNCHANGED vars
    BY <1>6 DEF vars, Idle
  <1> QED BY <1>1, <1>2, <1>3, <1>4, <1>5, <1>6 DEF Next

\* The bag the table stands for.
TheBag == [l \in LockValues |-> BagOf(l)]

\* It counts locks, before and after a step.
LEMMA BagTyped ==
  ASSUME TypeOK, TypeOK'
  PROVE  /\ TheBag \in [LockValues -> Nat] /\ TheBag' \in [LockValues -> Nat]
         /\ \A l \in LockValues : TheBag[l] = BagOf(l) /\ TheBag'[l] = BagOf(l)'
  <1>1. \A l \in LockValues : BagOf(l) \in Nat
    BY CountsTyped
  <1>2. \A l \in LockValues : BagOf(l)' \in Nat
    <2> SUFFICES ASSUME NEW l \in LockValues PROVE BagOf(l)' \in Nat
      OBVIOUS
    <2>1. /\ {i \in Indices(table_size) : locks[i] = l}' \in SUBSET Indices(table_size')
          /\ {i \in Indices(prev_table_size) : i >= j /\ old_locks[i] = l}'
                \in SUBSET Indices(prev_table_size')
      BY DEF Indices
    <2>2. table_size' \in Nat /\ prev_table_size' \in Nat
      BY DEF TypeOK
    <2>3. /\ Cardinality({i \in Indices(table_size) : locks[i] = l})' \in Nat
          /\ Cardinality({i \in Indices(prev_table_size) : i >= j /\ old_locks[i] = l})' \in Nat
      BY <2>1, <2>2, FiniteSubsets
    <2> QED BY <2>3 DEF BagOf
  <1> QED BY <1>1, <1>2 DEF TheBag

\* Plus, Same and Dropped as the bag says them.
LEMMA PlusOfBag ==
  ASSUME TypeOK, TypeOK', NEW l \in LockValues, Plus(l)
  PROVE  TheBag' = [TheBag EXCEPT ![l] = @ + 1]
  <1>1. \A k \in LockValues : TheBag'[k] = IF k = l THEN TheBag[k] + 1 ELSE TheBag[k]
    BY BagTyped DEF Plus
  <1> QED BY <1>1, BagTyped

\* The same locks are the same bag.
LEMMA SameOfBag == Same => TheBag' = TheBag
  BY DEF Same, TheBag

\* add_lock adds its lock, starts to grow with the same locks, or does nothing.
LEMMA AddLockIsAdd ==
  ASSUME TypeOK, TypeOK', Idle, Idle', NEW l \in LockValues, add_lock(l)
  PROVE  [Bag!Next]_<<TheBag, rehashing, todo>>
  <1>1. ~rehashing /\ l \in Bag!LockValues
    BY DEF add_lock, Bag!LockValues, LockValues
  <1>2. CASE ~no_space_for_new_lock /\ insert(l) /\ UNCHANGED resizeVars
    <2>1. ~rehashing' /\ UNCHANGED <<rehashing, todo>>
      BY <1>1, <1>2 DEF resizeVars
    <2>2. Plus(l)
      BY <1>1, <1>2, <2>1, InsertAdds
    <2>3. TheBag' = [TheBag EXCEPT ![l] = @ + 1]
      BY <2>2, PlusOfBag
    <2>4. Bag!Add(l)
      BY <1>1, <2>1, <2>3 DEF Bag!Add, Bag!Plus, TheBag
    <2> QED BY <1>1, <2>4 DEF Bag!Next
  <1>3. CASE resize(bigger_table_size, locks, l)
    <2>1. bigger_table_size \in Nat /\ locks \in [Indices(table_size) -> Cells]
      BY DEF bigger_table_size, INITIAL_SIZE, TypeOK
    <2>2. \A k \in LockValues : BagOf(k)' = Cardinality(CellsWith(table_size, locks, k))
      BY <1>3, <2>1, ResizeCounts
    <2>3. \A k \in LockValues : BagOf(k) = Cardinality(CellsWith(table_size, locks, k))
      BY <1>1, IdleBag
    <2>4. TheBag' = TheBag
      BY <2>2, <2>3, SameOfBag DEF Same
    <2>5. rehashing' = TRUE /\ todo' = l
      BY <1>3 DEF resize
    <2>6. Bag!AddLater(l)
      BY <1>1, <2>4, <2>5 DEF Bag!AddLater, TheBag
    <2> QED BY <1>1, <2>6 DEF Bag!Next
  <1>4. CASE UNCHANGED vars
    <2>1. Same /\ UNCHANGED <<rehashing, todo>>
      BY <1>4 DEF vars, Same, BagOf, Indices
    <2> QED BY <2>1, SameOfBag
  <1> QED BY <1>2, <1>3, <1>4 DEF add_lock

\* remove_lock takes one lock or makes a write lock temporary.
LEMMA RemoveLockIsRemove ==
  ASSUME TypeOK, TypeOK', Idle, NEW o \in Objects, NEW c \in Owners,
         NEW t \in UsedTypes \cup {"ANY_LOCK"}, remove_lock(o, c, t)
  PROVE  Bag!Next
  <1>1. PICK l \in Bag!Asked(o, c, t) :
            BagOf(l) > 0 /\ (IF t = "WLOCK" THEN Converted(l) ELSE Minus(l))
    BY RemoveLockCounts
  <1>2. l \in LockValues /\ ~rehashing /\ UNCHANGED <<rehashing, todo>>
    BY DEF Bag!Asked, Bag!LockValues, LockValues, remove_lock, resizeVars
  <1>3. TheBag[l] > 0
    BY <1>1, <1>2, BagTyped
  <1>4. CASE t # "WLOCK"
    <2>1. \A k \in LockValues : TheBag'[k] = IF k = l THEN TheBag[k] - 1 ELSE TheBag[k]
      BY <1>1, <1>4, BagTyped DEF Minus
    <2>2. TheBag' = [TheBag EXCEPT ![l] = @ - 1]
      BY <1>2, <2>1, BagTyped
    <2>3. Bag!Remove(o, c, t)
      BY <1>2, <1>3, <1>4, <2>2 DEF Bag!Remove, TheBag
    <2> QED BY <2>3 DEF Bag!Next
  <1>5. CASE t = "WLOCK"
    <2> DEFINE x == [l EXCEPT !.locktype = "TMPWLOCK"]
    <2>0. x \in LockValues /\ x # l
      BY <1>1, <1>2, <1>5 DEF Converted, LockValues
    <2>1. \A k \in LockValues :
             TheBag'[k] = TheBag[k] - (IF k = l THEN 1 ELSE 0) + (IF k = x THEN 1 ELSE 0)
      BY <1>1, <1>5, BagTyped DEF Converted
    <2>x. x = Bag!Temporary(l)
      BY DEF Bag!Temporary
    <2> HIDE DEF x
    <2>2. \A k \in LockValues :
             TheBag'[k] = [TheBag EXCEPT ![l] = @ - 1, ![x] = @ + 1][k]
      <3> SUFFICES ASSUME NEW k \in LockValues
                   PROVE  TheBag'[k] = [TheBag EXCEPT ![l] = @ - 1, ![x] = @ + 1][k]
        OBVIOUS
      <3>1. /\ TheBag[k] \in Nat /\ TheBag[l] \in Nat /\ TheBag[x] \in Nat
            /\ TheBag \in [LockValues -> Nat]
        BY <1>2, <2>0, BagTyped
      <3> QED BY <1>2, <2>0, <2>1, <3>1
    <2>3. TheBag' = [TheBag EXCEPT ![l] = @ - 1, ![x] = @ + 1]
      BY <2>2, BagTyped
    <2>4. Bag!Remove(o, c, t)
      BY <1>2, <1>3, <1>5, <2>3, <2>x DEF Bag!Remove, TheBag
    <2> QED BY <2>4 DEF Bag!Next
  <1> QED BY <1>4, <1>5

\* Cells are freed: the bag drops the locks of a set.
LEMMA RemovalIsDrop ==
  ASSUME TypeOK, TypeOK', Idle, Idle', NEW K, NEW S, S = {i \in Valid : locks[i] \in K}
  PROVE  /\ RemoveCells(S) => Bag!Drop(K)
         /\ ~rehashing /\ resize(INITIAL_SIZE, Without(S), NoLock) => Bag!DropAndShrink(K)
  <1>0. Bag!LockValues = LockValues /\ INITIAL_SIZE \in Nat
    BY DEF Bag!LockValues, LockValues, INITIAL_SIZE
  <1>1. ASSUME Dropped(K)
        PROVE  TheBag' = [l \in Bag!LockValues |-> IF l \in K THEN 0 ELSE TheBag[l]]
    BY <1>0, <1>1, BagTyped DEF Dropped
  <1>2. ASSUME RemoveCells(S) PROVE Bag!Drop(K)
    <2>1. ~rehashing /\ UNCHANGED <<rehashing, todo>>
      BY <1>2 DEF RemoveCells, resizeVars
    <2>2. Dropped(K)
      BY <1>2, <2>1, RemovalDrops
    <2>3. TheBag' = [l \in Bag!LockValues |-> IF l \in K THEN 0 ELSE TheBag[l]]
      BY <1>1, <2>2
    <2> QED BY <2>1, <2>3 DEF Bag!Drop, TheBag
  <1>3. ASSUME ~rehashing, resize(INITIAL_SIZE, Without(S), NoLock)
        PROVE  Bag!DropAndShrink(K)
    <2>1. rehashing' = TRUE /\ todo' = NoLock
      BY <1>3 DEF resize
    <2>2. Dropped(K)
      BY <1>0, <1>3, RemovalDrops
    <2>3. TheBag' = [l \in Bag!LockValues |-> IF l \in K THEN 0 ELSE TheBag[l]]
      BY <1>1, <2>2
    <2> QED BY <1>3, <2>1, <2>3 DEF Bag!DropAndShrink, TheBag
  <1> QED BY <1>2, <1>3

\* The end of resize adds the lock that waited for it.
LEMMA EndOfResizeIsEnd ==
  ASSUME TableInv, TableInv', end_of_resize
  PROVE  Bag!EndCopying
  <1>1. rehashing /\ rehashing' = FALSE /\ todo' = NoLock /\ TypeOK /\ TypeOK'
    BY DEF end_of_resize, TableInv
  <1>2. IF todo = NoLock THEN Same ELSE Plus(todo)
    BY EndOfResizeAdds
  <1>3. CASE todo = NoLock
    <2>1. TheBag' = TheBag
      BY <1>2, <1>3, SameOfBag
    <2> QED BY <1>1, <1>3, <2>1 DEF Bag!EndCopying, TheBag
  <1>4. CASE todo # NoLock
    <2>1. todo \in LockValues
      BY <1>1, <1>4 DEF TypeOK
    <2>2. TheBag' = [TheBag EXCEPT ![todo] = @ + 1]
      BY <1>1, <1>2, <1>4, <2>1, PlusOfBag
    <2> QED BY <1>1, <1>4, <2>2 DEF Bag!EndCopying, Bag!Plus, TheBag
  <1> QED BY <1>3, <1>4

\* A step of the table is a step of the bag or does not change it.
LEMMA StepOfBag ==
  ASSUME TableInv, TableInv', Idle, Idle', [Next]_vars
  PROVE  [Bag!Next]_<<TheBag, rehashing, todo>>
  <1>0. TypeOK /\ TypeOK'
    BY DEF TableInv
  <1>1. CASE rehash
    <2>1. Same /\ UNCHANGED <<rehashing, todo>>
      BY <1>0, <1>1, RehashSame DEF rehash
    <2> QED BY <2>1, SameOfBag
  <1>2. CASE end_of_resize
    BY <1>2, EndOfResizeIsEnd DEF Bag!Next
  <1>3. ASSUME NEW l \in LockValues, add_lock(l) PROVE [Bag!Next]_<<TheBag, rehashing, todo>>
    BY <1>0, <1>3, AddLockIsAdd
  <1>4. ASSUME NEW o \in Objects, NEW c \in Owners, NEW t \in UsedTypes \cup {"ANY_LOCK"},
               remove_lock(o, c, t)
        PROVE  Bag!Next
    BY <1>0, <1>4, RemoveLockIsRemove
  <1>k. \A i \in Valid : locks[i] \in LockValues
    BY <1>0, CellKinds DEF Valid, TypeOK
  <1>5. ASSUME NEW o \in Objects, NEW c \in Owners, NEW t \in UsedTypes \cup {"ANY_LOCK"},
               simple_remove_lock(c, o, t)
        PROVE  Bag!Next
    <2> DEFINE S == {i \in Indices(table_size) : Matches(i, o, c, t)}
               K == Bag!Asked(o, c, t)
    <2>1. S = {i \in Valid : locks[i] \in K}
      BY <1>k DEF Matches, Owned, Valid, Bag!Asked, Bag!LockValues, LockValues
    <2>2. RemoveCells(S)
      BY <1>5 DEF simple_remove_lock
    <2> HIDE DEF S, K
    <2>3. Bag!Drop(K)
      BY <1>0, <2>1, <2>2, RemovalIsDrop
    <2> QED BY <2>3 DEF K, Bag!Next
  <1>6. ASSUME NEW c \in Owners, unlock_user_tab(c) PROVE Bag!Next
    <2> DEFINE S == {i \in Indices(table_size) : Owned(i, c)}
               K == Bag!OwnedBy(c)
    <2>1. S = {i \in Valid : locks[i] \in K}
      BY <1>k DEF Owned, Valid, Bag!OwnedBy, Bag!LockValues, LockValues
    <2>2. RemoveCells(S)
      BY <1>6 DEF unlock_user_tab
    <2> HIDE DEF S, K
    <2>3. Bag!Drop(K)
      BY <1>0, <2>1, <2>2, RemovalIsDrop
    <2> QED BY <2>3 DEF K, Bag!Next
  <1>7. ASSUME NEW c \in Owners, remove_my_tmplocks(c) PROVE Bag!Next
    <2> DEFINE S == {i \in Indices(table_size) :
                       Owned(i, c) /\ locks[i].locktype \in {"TMPRLOCK", "TMPWLOCK"}}
               K == Bag!TemporaryOf(c)
    <2>1. S = {i \in Valid : locks[i] \in K}
      BY <1>k DEF Owned, Valid, Bag!TemporaryOf, Bag!OwnedBy, Bag!LockValues, LockValues
    <2>2. RemoveCells(S) \/ (~rehashing /\ resize(INITIAL_SIZE, Without(S), NoLock))
      BY <1>7 DEF remove_my_tmplocks
    <2> HIDE DEF S, K
    <2>3. Bag!Drop(K) \/ Bag!DropAndShrink(K)
      BY <1>0, <2>1, <2>2, RemovalIsDrop
    <2> QED BY <2>3 DEF K, Bag!Next
  <1>8. CASE UNCHANGED vars
    <2>1. Same /\ UNCHANGED <<rehashing, todo>>
      BY <1>8 DEF vars, Same, BagOf, Indices
    <2> QED BY <2>1, SameOfBag
  <1> QED BY <1>1, <1>2, <1>3, <1>4, <1>5, <1>6, <1>7, <1>8 DEF Next

\* At first the bag is empty.
LEMMA InitOfBag == Init => Bag!Init
  <1> SUFFICES ASSUME Init PROVE Bag!Init
    OBVIOUS
  <1>1. \A l \in LockValues : BagOf(l) = 0
    <2> SUFFICES ASSUME NEW l \in LockValues PROVE BagOf(l) = 0
      OBVIOUS
    <2>1. Indices(table_size) = {} /\ Indices(prev_table_size) = {}
      BY DEF Init, Indices
    <2>2. /\ {i \in Indices(table_size) : locks[i] = l} = {}
          /\ {i \in Indices(prev_table_size) : i >= j /\ old_locks[i] = l} = {}
      BY <2>1
    <2> QED BY <2>2, FS_EmptySet DEF BagOf
  <1>2. Bag!LockValues = LockValues
    BY DEF Bag!LockValues, LockValues
  <1> QED BY <1>1, <1>2 DEF Bag!Init, Init

(***************************************************************************)
(* The hash table implements the bag of locks that Locks takes it for:     *)
(* add_lock adds its lock and no other, remove_lock takes one lock it is   *)
(* asked about, the other removals drop all locks of their kind and no     *)
(* other, and while resize copies the cells, growing or shrinking, the bag *)
(* stays the same until the lock that waited for it is added, for any      *)
(* objects, owners, hash function and sizes.                               *)
(***************************************************************************)
THEOREM ImplementsLockBag == Spec => IsLockBag
  <1>1. Init => Bag!Init /\ Idle
    BY InitOfBag DEF Init, Idle
  <1>2. TableInv /\ TableInv' /\ Idle /\ Idle' /\ [Next]_vars
           => [Bag!Next]_<<TheBag, rehashing, todo>>
    BY StepOfBag
  <1> QED BY <1>1, <1>2, IdleNext, TableInvariance, PTL
          DEF Spec, IsLockBag, Bag!Spec, Bag!bagVars, TheBag
=============================================================================
