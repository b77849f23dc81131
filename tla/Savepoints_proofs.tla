------------------------- MODULE Savepoints_proofs --------------------------
(***************************************************************************)
(* Proofs about the allocation in the transaction file, for any threads    *)
(* and any length of the file, and about savepoints, for any number of     *)
(* clients, pages, records, savepoints, atomic blocks and swap blocks.     *)
(*                                                                         *)
(* Savepoints uses the transaction file only as Transactor allows, so what *)
(* is proved about Transactor first holds for the blocks of savepoints.    *)
(* The invariant of savepoints is a conjunction of parts, of which the     *)
(* later ones need the earlier ones:                                       *)
(*   Types       the types; a savepoint being created is there;            *)
(*   HeldInv     each copy of a page is in a block of its own (WriteInv:   *)
(*               no block is left to be freed when commit begins);         *)
(*   JobInv      how far create and commit have got;                       *)
(*   AtomicInv   which savepoints are those of the atomic blocks;          *)
(*   PrivateInv  the private pages have the changes that are to be         *)
(*               committed, on the records of the database;                *)
(*   SapoInv     what rollback copies back gives PrivateInv again;         *)
(*   FileInv     what commit has written so far.                           *)
(* Types, HeldInv and JobInv give that no block is lost but by the error   *)
(* exit of create (NothingElseForgotten).                                  *)
(* The first three hold for any SQL programs, AtomicInv where savepoints   *)
(* of an outer atomic block are not named (InnerNamed), the last three for *)
(* ordinary programs only (Ordinary).                                      *)
(***************************************************************************)
EXTENDS Savepoints, FiniteSetTheorems, SequenceTheorems, WellFoundedInduction,
        TLAPS

\* The blocks in use are those the threads hold, and no block has two
\* holders: inductive with the type invariant as it stands.
TransactorInv == TypeOK /\ BlocksExclusive

\* Blocks of both kinds are numbers below the length of the file.
LEMMA BlockNumbers ==
    /\ FileLength \in Nat
    /\ SwapBlocks \subseteq Blocks /\ TjcBlocks \subseteq Blocks
    /\ \A b \in Blocks : b \in Nat /\ b + 1 \in 0 .. FileLength
    /\ SwapBlocks \cap TjcBlocks = {}
<1>1. FileLength \in Nat  BY TransactorConstants DEF FileLength
<1>2. QED  BY <1>1 DEF Blocks, SwapBlocks, TjcBlocks

\* A thread that takes a free block and sets its bit keeps the holders apart.
LEMMA TakeBlock ==
    ASSUME TransactorInv, NEW t \in Threads, NEW block \in Blocks \ alloc_map,
           alloc_map' = alloc_map \cup {block},
           held' = [held EXCEPT ![t] = @ \cup {block}]
    PROVE  /\ alloc_map' \subseteq Blocks
           /\ held' \in [Threads -> SUBSET Blocks]
           /\ BlocksExclusive'
<1> USE DEF TransactorInv, TypeOK
<1>1. alloc_map' \subseteq Blocks  OBVIOUS
<1>2. held' \in [Threads -> SUBSET Blocks]  OBVIOUS
<1>3. \A u \in Threads : held'[u] = IF u = t THEN held[t] \cup {block} ELSE held[u]
  OBVIOUS
<1>4. alloc_map' = UNION {held'[u] : u \in Threads}
  BY <1>3 DEF BlocksExclusive
<1>5. \A u, v \in Threads : u # v => held'[u] \cap held'[v] = {}
  <2> SUFFICES ASSUME NEW u \in Threads, NEW v \in Threads, u # v
               PROVE  held'[u] \cap held'[v] = {}
    OBVIOUS
  <2>1. block \notin held[u] /\ block \notin held[v]  BY DEF BlocksExclusive
  <2>2. held[u] \cap held[v] = {}  BY DEF BlocksExclusive
  <2>3. QED  BY <1>3, <2>1, <2>2
<1>6. QED  BY <1>1, <1>2, <1>4, <1>5 DEF BlocksExclusive

\* A thread that returns blocks it holds keeps the rest as it was.
LEMMA ReturnBlocks ==
    ASSUME TransactorInv, NEW t \in Threads, NEW S \in SUBSET held[t],
           alloc_map' = alloc_map \ S,
           held' = [held EXCEPT ![t] = @ \ S]
    PROVE  /\ alloc_map' \subseteq Blocks
           /\ held' \in [Threads -> SUBSET Blocks]
           /\ BlocksExclusive'
<1> USE DEF TransactorInv, TypeOK
<1>1. alloc_map' \subseteq Blocks  OBVIOUS
<1>2. held' \in [Threads -> SUBSET Blocks]  OBVIOUS
<1>3. \A u \in Threads : held'[u] = IF u = t THEN held[t] \ S ELSE held[u]
  OBVIOUS
<1>4. \A u \in Threads : u # t => held[u] \cap S = {}
  BY DEF BlocksExclusive
<1>5. \A u \in Threads : held'[u] = held[u] \ S
  BY <1>3, <1>4
<1>6. alloc_map = UNION {held[u] : u \in Threads}  BY DEF BlocksExclusive
<1>7. alloc_map' = UNION {held'[u] : u \in Threads}
  BY <1>5, <1>6
<1>8. \A u, v \in Threads : u # v => held'[u] \cap held'[v] = {}
  BY <1>5 DEF BlocksExclusive
<1>9. QED  BY <1>1, <1>2, <1>7, <1>8 DEF BlocksExclusive

\* At the start all blocks are free.
LEMMA InitInv == Init => TransactorInv
<1> SUFFICES ASSUME Init PROVE TransactorInv  OBVIOUS
<1>1. TypeOK  BY BlockNumbers DEF Init, TypeOK
<1>2. \A t \in Threads : held[t] = {}  BY DEF Init
<1>3. alloc_map = UNION {held[t] : t \in Threads}  BY <1>2 DEF Init
<1>4. QED  BY <1>1, <1>2, <1>3 DEF TransactorInv, BlocksExclusive

\* Every operation of t_transactor keeps the invariant.
LEMMA NextInv == TransactorInv /\ [Next]_vars => TransactorInv'
<1> SUFFICES ASSUME TransactorInv, [Next]_vars PROVE TransactorInv'
  OBVIOUS
<1>1. ASSUME NEW t \in Threads, get_swap_block(t) PROVE TransactorInv'
  <2>1. srch_start \div CellSize \in Nat
    BY BlockNumbers, TransactorConstants DEF TransactorInv, TypeOK
  <2>2. cell' \in [Threads -> Nat \cup {NoCell}]
    BY <1>1, <2>1 DEF get_swap_block, TransactorInv, TypeOK
  <2>3. TypeOK'  BY <1>1, <2>2 DEF get_swap_block, TransactorInv, TypeOK
  <2>4. BlocksExclusive'
    BY <1>1 DEF get_swap_block, TransactorInv, BlocksExclusive
  <2>5. QED  BY <2>3, <2>4 DEF TransactorInv
<1>2. ASSUME NEW t \in Threads, find_swap_block(t) PROVE TransactorInv'
  <2>1. PICK block \in FreeFrom(cell[t]) :
          /\ alloc_map' = alloc_map \cup {block}
          /\ srch_start' = block + 1
          /\ held' = [held EXCEPT ![t] = @ \cup {block}]
    BY <1>2 DEF find_swap_block, WithBit, StartAfter
  <2>2. block \in Blocks \ alloc_map
    BY BlockNumbers DEF FreeFrom
  <2>3. /\ alloc_map' \subseteq Blocks
        /\ held' \in [Threads -> SUBSET Blocks]
        /\ BlocksExclusive'
    BY <2>1, <2>2, TakeBlock
  <2>4. srch_start' \in 0 .. FileLength  BY <2>1, <2>2, BlockNumbers
  <2>5. cell' \in [Threads -> Nat \cup {NoCell}]
    BY <1>2 DEF find_swap_block, TransactorInv, TypeOK
  <2>6. QED  BY <2>3, <2>4, <2>5 DEF TransactorInv, TypeOK
<1>3. ASSUME NEW t \in Threads, NEW block \in SwapBlocks, free_swap_block(t, block)
      PROVE  TransactorInv'
  <2>1. {block} \in SUBSET held[t]  BY <1>3 DEF free_swap_block
  <2>2. /\ alloc_map' \subseteq Blocks
        /\ held' \in [Threads -> SUBSET Blocks]
        /\ BlocksExclusive'
    BY <1>3, <2>1, ReturnBlocks DEF free_swap_block
  <2>3. srch_start' \in 0 .. FileLength
    BY <1>3, BlockNumbers DEF free_swap_block, TransactorInv, TypeOK
  <2>4. QED  BY <1>3, <2>2, <2>3 DEF free_swap_block, TransactorInv, TypeOK
<1>4. ASSUME NEW t \in Threads, save_tjc_block(t) PROVE TransactorInv'
  <2>1. PICK block \in TjcBlocks \ alloc_map :
          /\ alloc_map' = alloc_map \cup {block}
          /\ held' = [held EXCEPT ![t] = @ \cup {block}]
    BY <1>4 DEF save_tjc_block, WithBit
  <2>2. block \in Blocks \ alloc_map  BY BlockNumbers
  <2>3. /\ alloc_map' \subseteq Blocks
        /\ held' \in [Threads -> SUBSET Blocks]
        /\ BlocksExclusive'
    BY <2>1, <2>2, TakeBlock
  <2>4. QED  BY <1>4, <2>3 DEF save_tjc_block, TransactorInv, TypeOK
<1>5. ASSUME NEW t \in Threads, free_tjc_blocks(t) PROVE TransactorInv'
  <2> DEFINE S == held[t] \cap TjcBlocks
  <2>1. S \in SUBSET held[t]  OBVIOUS
  <2>2. alloc_map' = alloc_map \ S  BY <1>5 DEF free_tjc_blocks
  <2>3. held' = [held EXCEPT ![t] = @ \ S]
    <3>1. held[t] \ S = held[t] \ TjcBlocks  OBVIOUS
    <3>2. QED  BY <1>5, <3>1 DEF free_tjc_blocks
  <2> HIDE DEF S
  <2>4. /\ alloc_map' \subseteq Blocks
        /\ held' \in [Threads -> SUBSET Blocks]
        /\ BlocksExclusive'
    BY <2>1, <2>2, <2>3, ReturnBlocks
  <2>5. QED  BY <1>5, <2>4 DEF free_tjc_blocks, TransactorInv, TypeOK
<1>6. ASSUME NEW t \in Threads, no_swap_block(t) PROVE TransactorInv'
  BY <1>6 DEF no_swap_block, TransactorInv, TypeOK, BlocksExclusive
<1>7. CASE UNCHANGED vars
  BY <1>7 DEF vars, TransactorInv, TypeOK, BlocksExclusive
<1>8. QED  BY <1>1, <1>2, <1>3, <1>4, <1>5, <1>6, <1>7 DEF Next

\* The inductive invariant holds in every reachable state.
THEOREM TransactorInvariance == Spec => []TransactorInv
BY InitInv, NextInv, PTL DEF Spec

\* Type invariant of t_transactor; srch_start stays within the file.
THEOREM TypeCorrect == Spec => []TypeOK
<1>1. TransactorInv => TypeOK  BY DEF TransactorInv
<1>2. QED  BY <1>1, TransactorInvariance, PTL

\* get_swap_block and save_tjc_block never hand out a block that is in use,
\* although srch_start is read before cs_trans is entered.
THEOREM BlocksAreExclusive == Spec => []BlocksExclusive
<1>1. TransactorInv => BlocksExclusive  BY DEF TransactorInv
<1>2. QED  BY <1>1, TransactorInvariance, PTL
-----------------------------------------------------------------------------
\* A step of a client is a step of Transactor, or does not touch the file.
LEMMA StepOfTransactor ==
    ASSUME [SavepointsNext]_allVars
    PROVE  [Next]_vars
<1>1. CASE UNCHANGED allVars
  BY <1>1 DEF allVars
<1>2. CASE finish
  BY <1>2 DEF finish, allVars
<1>3. ASSUME NEW t \in Threads, NEW p \in Pages,
             \/ fix_priv_page(t, p) \/ page_changed(t, p) \/ free_block(t, p)
             \/ \E r \in Records : rec_changed(t, p, r)
             \/ save_block(t, p) \/ wr_changes(t, p)
      PROVE  [Next]_vars
  <2>1. CASE save_block(t, p)
    BY <2>1 DEF save_block, Next
  <2>2. CASE fix_priv_page(t, p) \/ free_block(t, p) \/ wr_changes(t, p)
    BY <2>2 DEF fix_priv_page, free_block, wr_changes
  <2>3. CASE page_changed(t, p) \/ \E r \in Records : rec_changed(t, p, r)
    BY <2>3 DEF page_changed, rec_changed, change
  <2> QED BY <1>3, <2>1, <2>2, <2>3
<1>4. ASSUME NEW t \in Threads, save_begins(t) \/ save_fails(t) \/ create_ends(t)
      PROVE  [Next]_vars
  BY <1>4 DEF save_begins, save_fails, create_ends, Next
<1>5. ASSUME NEW t \in Threads, NEW block \in SwapBlocks, drop_block(t, block)
      PROVE  [Next]_vars
  BY <1>5 DEF drop_block, Next
<1>6. ASSUME NEW t \in Threads, NEW name \in Names,
             \/ sql_stmt_sapo(t, name) \/ sql_stmt_rel_sapo(t, name)
             \/ rollback_to_savepoint(t, name)
      PROVE  [Next]_vars
  BY <1>6 DEF sql_stmt_sapo, sql_stmt_rel_sapo, rollback_to_savepoint
<1>7. ASSUME NEW t \in Threads,
             \/ begin_atomic(t) \/ undo_block(t) \/ end_atomic(t)
             \/ roll_back(t) \/ commit(t) \/ commit_ends(t)
      PROVE  [Next]_vars
  <2>1. CASE begin_atomic(t) \/ undo_block(t) \/ end_atomic(t) \/ roll_back(t)
    BY <2>1 DEF begin_atomic, undo_block, end_atomic, roll_back
  <2>2. CASE commit(t) \/ commit_ends(t)
    BY <2>2 DEF commit, commit_ends, Next
  <2> QED BY <1>7, <2>1, <2>2
<1> QED BY <1>1, <1>2, <1>3, <1>4, <1>5, <1>6, <1>7 DEF SavepointsNext

\* Clients with savepoints use the transaction file the way Transactor says:
\* create, destroy and commit change the map of blocks in no other way.
THEOREM ImplementsTransactor == SavepointsSpec => Spec
<1>1. SavepointsInit => Init
  BY DEF SavepointsInit
<1>2. [SavepointsNext]_allVars => [Next]_vars
  BY StepOfTransactor
<1> QED BY <1>1, <1>2, PTL DEF SavepointsSpec, Spec

\* No swap block is given to two clients, whatever they do with savepoints.
\* (Whether a holder still needs its blocks is NothingElseForgotten.)
COROLLARY SavepointBlocksExclusive == SavepointsSpec => []BlocksExclusive
  BY ImplementsTransactor, BlocksAreExclusive, PTL

-----------------------------------------------------------------------------
(* Sequences and lowest elements *)

\* The elements of a sequence.
LEMMA SeqFacts ==
  ASSUME NEW S, NEW s \in Seq(S)
  PROVE  /\ Len(s) \in Nat /\ DOMAIN s = 1 .. Len(s)
         /\ \A i \in 1 .. Len(s) : s[i] \in S
  BY LenProperties, ElementOfSeq

\* A sequence cut off after n elements: destroy_from.
LEMMA PrefixFacts ==
  ASSUME NEW S, NEW s \in Seq(S), NEW n \in 0 .. Len(s)
  PROVE  /\ SubSeq(s, 1, n) \in Seq(S) /\ Len(SubSeq(s, 1, n)) = n
         /\ \A i \in 1 .. n : SubSeq(s, 1, n)[i] = s[i]
  <1>1. Len(s) \in Nat /\ \A i \in 1 .. Len(s) : s[i] \in S
    BY SeqFacts
  <1>2. \A i \in 1 .. n : s[i] \in S
    BY <1>1
  <1>3. n \in Int /\ 1 \in Int
    BY <1>1
  <1>4. /\ SubSeq(s, 1, n) \in Seq(S)
        /\ Len(SubSeq(s, 1, n)) = IF 1 <= n THEN n - 1 + 1 ELSE 0
        /\ \A i \in 1 .. n - 1 + 1 : SubSeq(s, 1, n)[i] = s[1 + i - 1]
    BY <1>2, <1>3, SubSeqProperties
  <1> QED BY <1>1, <1>4

\* The savepoints that destroy_from destroys.
LEMMA SuffixFacts ==
  ASSUME NEW S, NEW s \in Seq(S), NEW i \in Nat \ {0}
  PROVE  /\ SubSeq(s, i, Len(s)) \in Seq(S)
         /\ Len(SubSeq(s, i, Len(s))) = IF i <= Len(s) THEN Len(s) - i + 1 ELSE 0
         /\ \A k \in 1 .. Len(s) - i + 1 : SubSeq(s, i, Len(s))[k] = s[i + k - 1]
  <1>1. Len(s) \in Nat /\ \A k \in 1 .. Len(s) : s[k] \in S
    BY SeqFacts
  <1>2. \A k \in i .. Len(s) : s[k] \in S
    BY <1>1
  <1> QED BY <1>1, <1>2, SubSeqProperties

\* A sequence without its i-th element.
LEMMA WithoutFacts ==
  ASSUME NEW S, NEW s \in Seq(S), NEW i \in 1 .. Len(s)
  PROVE  /\ Without(s, i) \in Seq(S) /\ Len(Without(s, i)) = Len(s) - 1
         /\ \A k \in 1 .. Len(s) - 1 : Without(s, i)[k] = IF k < i THEN s[k] ELSE s[k + 1]
  <1>1. Len(s) \in Nat /\ \A k \in 1 .. Len(s) : s[k] \in S
    BY SeqFacts
  <1>2. i - 1 \in 0 .. Len(s) /\ i + 1 \in Nat \ {0}
    BY <1>1
  <1> DEFINE a == SubSeq(s, 1, i - 1)
             b == SubSeq(s, i + 1, Len(s))
  <1>3. /\ a \in Seq(S) /\ Len(a) = i - 1
        /\ \A k \in 1 .. i - 1 : a[k] = s[k]
    BY <1>2, PrefixFacts
  <1>4. /\ b \in Seq(S) /\ Len(b) = Len(s) - i
        /\ \A k \in 1 .. Len(s) - i : b[k] = s[i + k]
    <2>1. /\ b \in Seq(S)
          /\ Len(b) = IF i + 1 <= Len(s) THEN Len(s) - (i + 1) + 1 ELSE 0
          /\ \A k \in 1 .. Len(s) - (i + 1) + 1 : b[k] = s[(i + 1) + k - 1]
      BY <1>2, SuffixFacts
    <2> HIDE DEF b
    <2>2. Len(s) - (i + 1) + 1 = Len(s) - i
      BY <1>1
    <2>3. ASSUME NEW k \in 1 .. Len(s) - i PROVE b[k] = s[i + k]
      <3>1. (i + 1) + k - 1 = i + k
        BY <1>1
      <3> QED BY <2>1, <2>2, <3>1
    <2>4. Len(b) = Len(s) - i
      BY <1>1, <2>1
    <2> QED BY <2>1, <2>3, <2>4
  <1> HIDE DEF a, b
  <1>5. /\ a \o b \in Seq(S) /\ Len(a \o b) = Len(a) + Len(b)
        /\ \A k \in 1 .. Len(a) + Len(b) : (a \o b)[k] = IF k <= Len(a) THEN a[k] ELSE b[k - Len(a)]
    BY <1>3, <1>4, ConcatProperties
  <1>6. Len(a) + Len(b) = Len(s) - 1
    BY <1>1, <1>3, <1>4
  <1>7. ASSUME NEW k \in 1 .. Len(s) - 1
        PROVE  (a \o b)[k] = IF k < i THEN s[k] ELSE s[k + 1]
    <2>1. CASE k < i
      <3>1. k \in 1 .. i - 1
        BY <2>1, <1>1
      <3>2. (a \o b)[k] = a[k]
        BY <1>3, <1>5, <1>6, <3>1
      <3> QED BY <1>3, <2>1, <3>1, <3>2
    <2>2. CASE ~(k < i)
      <3>1. k - (i - 1) \in 1 .. Len(s) - i /\ i + (k - (i - 1)) = k + 1 /\ ~(k <= i - 1)
        BY <1>1, <2>2
      <3>2. (a \o b)[k] = b[k - (i - 1)]
        BY <1>3, <1>5, <1>6, <3>1
      <3> QED BY <1>4, <2>2, <3>1, <3>2
    <2> QED BY <2>1, <2>2
  <1> QED BY <1>5, <1>6, <1>7 DEF Without, a, b

\* A set of natural numbers has a lowest element.
LEMMA LowestExists ==
  ASSUME NEW S, S \subseteq Nat, S # {}
  PROVE  \E x \in S : \A y \in S : x <= y
  <1>1. IsWellFoundedOn(OpToRel(<, Nat), Nat)
    BY NatLessThanWellFounded
  <1>2. PICK x \in S : \A y \in S : ~(<<y, x>> \in OpToRel(<, Nat))
    BY <1>1, WFMin, Zenon
  <1>3. \A y \in S : ~(y < x)
    <2> SUFFICES ASSUME NEW y \in S, y < x PROVE FALSE
      OBVIOUS
    <2>1. <<y, x>> \in Nat \X Nat /\ <<y, x>>[1] < <<y, x>>[2]
      OBVIOUS
    <2>2. <<y, x>> \in OpToRel(<, Nat)
      BY <2>1, Zenon DEF OpToRel
    <2> QED BY <1>2, <2>2
  <1>4. \A y \in S : x <= y
    BY <1>3
  <1> QED BY <1>4

\* A set of numbers up to n has a highest element.
LEMMA HighestExists ==
  ASSUME NEW n \in Nat, NEW S, S \subseteq 1 .. n, S # {}
  PROVE  \E x \in S : \A y \in S : y <= x
  <1> DEFINE T == {n - x : x \in S}
  <1>1. T \subseteq Nat /\ T # {}
    <2>1. ASSUME NEW x \in S PROVE n - x \in Nat
      OBVIOUS
    <2> QED BY <2>1
  <1>2. PICK z \in T : \A y \in T : z <= y
    BY <1>1, LowestExists
  <1>3. PICK x \in S : z = n - x
    BY <1>2
  <1>4. \A y \in S : n - x <= n - y
    BY <1>2, <1>3
  <1>5. \A y \in S : y <= x
    BY <1>4
  <1> QED BY <1>5

-----------------------------------------------------------------------------
(* Types *)

\* Maps from the pages of a savepoint to the blocks with their copies.
PairMaps == UNION {[S -> SwapBlocks] : S \in SUBSET Pages}

\* A savepoint (t_savepoint), and an atomic block that is being executed.
Sapo == [id : Names \cup Numbers, atomic : BOOLEAN, undone : BOOLEAN, pairs : PairMaps,
         freed : SUBSET FullPages, mark : Changes]
AtomicBlock == [num : Names \cup Numbers, ind : Nat \ {0}, mark : Changes]

\* Contents after n changes of pages.
ContentsTo(n) == [Records -> 0 .. n]

PageTypes ==
    /\ writes \in 0 .. MaxWrites /\ statements \in 0 .. MaxStatements
    /\ fil \in [Pages -> ContentsTo(writes)]
    /\ tdata \in [SwapBlocks -> ContentsTo(writes)]
    /\ released \subseteq FullPages
    /\ lock \in [Pages -> [Records -> Threads \cup {NoThread}]]
    /\ ref \in [Pages -> Contents]

LogTypes ==
    /\ log \in [Threads -> SUBSET Pages]
    /\ copy \in [Threads -> [Pages -> ContentsTo(writes)]]
    /\ chngmap \in [Threads -> [Pages -> SUBSET Records]]
    /\ freed \in [Threads -> SUBSET FullPages]
    /\ mine \in [Threads -> Changes]

SapoTypes ==
    /\ sapos \in [Threads -> Seq(Sapo)]
    /\ \A t \in Threads : Len(sapos[t]) <= MaxSapos
    /\ last_num \in [Threads -> 0 .. MaxNumber]
    /\ blocks \in [Threads -> Seq(AtomicBlock)]
    /\ job \in [Threads -> {"run", "save", "write"}]
    /\ todo \in [Threads -> SUBSET Pages]
    /\ drop \in [Threads -> SUBSET SwapBlocks]
    /\ \A t \in Threads : job[t] = "save" => Len(sapos[t]) # 0

Types == TransactorInv /\ PageTypes /\ LogTypes /\ SapoTypes

\* The marks of unchanged records and of freed pages are no values.
LEMMA MarkFacts ==
    /\ None \notin Values /\ Gone \notin Values /\ None # Gone
    /\ Gone \notin Nat /\ None \notin Nat
    /\ NoChanges \in Changes
  <1>1. MaxWrites \in Nat
    BY SavepointConstants
  <1>2. /\ None \notin Values /\ Gone \notin Values /\ None # Gone
        /\ Gone \notin Nat /\ None \notin Nat
    BY <1>1 DEF None, Gone, Values
  <1>3. NoChanges \in Changes
    BY DEF NoChanges, Changes
  <1> QED BY <1>2, <1>3

\* Contents are within the bounds of later contents, too.
LEMMA ContentsFacts ==
  ASSUME NEW m \in Nat, NEW n \in Nat, m <= n
  PROVE  /\ ContentsTo(m) \subseteq ContentsTo(n)
         /\ n <= MaxWrites => ContentsTo(m) \subseteq Contents
         /\ Blank \in ContentsTo(n)
  <1>1. MaxWrites \in Nat
    BY SavepointConstants
  <1> QED BY <1>1 DEF ContentsTo, Contents, Values, Blank

\* A savepoint without copies.
LEMMA NoPairs ==
    /\ << >> \in PairMaps /\ DOMAIN << >> = {}
  <1>1. << >> \in Seq(SwapBlocks) /\ Len(<< >>) = 0
    BY EmptySeq
  <1>2. DOMAIN << >> = 1 .. 0 /\ << >> \in [1 .. 0 -> SwapBlocks]
    BY <1>1, LenProperties
  <1>3. 1 .. 0 = {}
    OBVIOUS
  <1> QED BY <1>2, <1>3 DEF PairMaps

\* A page is added to the copies of a savepoint.
WithPair(m, p, b) == [q \in DOMAIN m \cup {p} |-> IF q = p THEN b ELSE m[q]]

\* The other copies are where they were.
LEMMA AddPair ==
  ASSUME NEW m \in PairMaps, NEW p \in Pages, NEW b \in SwapBlocks
  PROVE  /\ WithPair(m, p, b) \in PairMaps
         /\ DOMAIN WithPair(m, p, b) = DOMAIN m \cup {p} /\ WithPair(m, p, b)[p] = b
         /\ \A q \in DOMAIN m : q # p => WithPair(m, p, b)[q] = m[q]
  <1>1. PICK S \in SUBSET Pages : m \in [S -> SwapBlocks]
    BY DEF PairMaps
  <1>2. S \cup {p} \in SUBSET Pages /\ WithPair(m, p, b) \in [S \cup {p} -> SwapBlocks]
    BY <1>1 DEF WithPair
  <1>3. WithPair(m, p, b) \in PairMaps
    BY <1>2 DEF PairMaps
  <1> QED BY <1>1, <1>3 DEF WithPair

\* The pages of a savepoint and the blocks of their copies.
LEMMA PairFacts ==
  ASSUME NEW m \in PairMaps
  PROVE  /\ DOMAIN m \subseteq Pages
         /\ \A p \in DOMAIN m : m[p] \in SwapBlocks
         /\ Range(m) = {m[p] : p \in DOMAIN m} /\ Range(m) \subseteq SwapBlocks
  <1>1. PICK S \in SUBSET Pages : m \in [S -> SwapBlocks]
    BY DEF PairMaps
  <1> QED BY <1>1 DEF Range

\* The savepoints of a client and their parts.
LEMMA SapoFacts ==
  ASSUME NEW s \in Seq(Sapo)
  PROVE  /\ Len(s) \in Nat /\ DOMAIN s = 1 .. Len(s)
         /\ \A i \in 1 .. Len(s) :
               /\ s[i] \in Sapo /\ s[i].id \in Names \cup Numbers
               /\ s[i].pairs \in PairMaps /\ s[i].mark \in Changes
               /\ s[i].freed \subseteq FullPages
               /\ s[i].atomic \in BOOLEAN /\ s[i].undone \in BOOLEAN
  <1>1. /\ Len(s) \in Nat /\ DOMAIN s = 1 .. Len(s)
        /\ \A i \in 1 .. Len(s) : s[i] \in Sapo
    BY SeqFacts
  <1>2. ASSUME NEW x \in Sapo
        PROVE  /\ x.id \in Names \cup Numbers
               /\ x.pairs \in PairMaps /\ x.mark \in Changes
               /\ x.freed \subseteq FullPages
               /\ x.atomic \in BOOLEAN /\ x.undone \in BOOLEAN
    BY DEF Sapo
  <1> QED BY <1>1, <1>2

\* All copies are in swap blocks.
LEMMA BlocksOfFacts ==
  ASSUME NEW s \in Seq(Sapo)
  PROVE  /\ BlocksOf(s) \subseteq SwapBlocks
         /\ \A b : b \in BlocksOf(s) <=>
               \E i \in 1 .. Len(s) : \E p \in DOMAIN s[i].pairs : b = s[i].pairs[p]
  <1>1. /\ DOMAIN s = 1 .. Len(s)
        /\ \A i \in 1 .. Len(s) : s[i].pairs \in PairMaps
    BY SapoFacts
  <1>2. \A i \in 1 .. Len(s) : /\ Range(s[i].pairs) = {s[i].pairs[p] : p \in DOMAIN s[i].pairs}
                               /\ Range(s[i].pairs) \subseteq SwapBlocks
    BY <1>1, PairFacts
  <1>3. ASSUME NEW b
        PROVE  b \in BlocksOf(s) <=>
               \E i \in 1 .. Len(s) : \E p \in DOMAIN s[i].pairs : b = s[i].pairs[p]
    <2>1. b \in BlocksOf(s) <=> \E i \in 1 .. Len(s) : b \in Range(s[i].pairs)
      BY <1>1 DEF BlocksOf
    <2>2. \A i \in 1 .. Len(s) : b \in Range(s[i].pairs) <=>
             \E p \in DOMAIN s[i].pairs : b = s[i].pairs[p]
      BY <1>2
    <2> QED BY <2>1, <2>2
  <1>4. BlocksOf(s) \subseteq SwapBlocks
    BY <1>1, <1>2 DEF BlocksOf
  <1> QED BY <1>3, <1>4

\* find_sapo returns the first savepoint of an id.
LEMMA FindSapo ==
  ASSUME NEW t \in Threads, sapos[t] \in Seq(Sapo), NEW id
  PROVE  /\ find_sapo(t, id) \in 0 .. Len(sapos[t])
         /\ find_sapo(t, id) = 0 => \A j \in 1 .. Len(sapos[t]) : sapos[t][j].id # id
         /\ find_sapo(t, id) # 0 =>
               /\ sapos[t][find_sapo(t, id)].id = id
               /\ \A j \in 1 .. Len(sapos[t]) : sapos[t][j].id = id => find_sapo(t, id) <= j
  <1>1. Len(sapos[t]) \in Nat /\ DOMAIN sapos[t] = 1 .. Len(sapos[t])
    BY SapoFacts
  <1> DEFINE found == {i \in DOMAIN sapos[t] : sapos[t][i].id = id}
             low == CHOOSE i \in found : \A j \in found : i <= j
  <1>2. find_sapo(t, id) = IF found = {} THEN 0 ELSE low
    BY DEF find_sapo
  <1>3. \A j \in 1 .. Len(sapos[t]) : sapos[t][j].id = id <=> j \in found
    BY <1>1
  <1>4. found \subseteq 1 .. Len(sapos[t])
    BY <1>1
  <1>5. CASE found = {}
    BY <1>1, <1>2, <1>3, <1>5
  <1>6. CASE found # {}
    <2>1. found \subseteq Nat
      BY <1>1, <1>4
    <2>2. \E i \in found : \A j \in found : i <= j
      BY <1>6, <2>1, LowestExists
    <2>3. low \in found /\ \A j \in found : low <= j
      BY <2>2
    <2> HIDE DEF low
    <2>4. find_sapo(t, id) = low
      BY <1>2, <1>6
    <2>5. low \in 1 .. Len(sapos[t]) /\ sapos[t][low].id = id
      BY <1>4, <2>3
    <2> HIDE DEF found
    <2>6. low \in 0 .. Len(sapos[t]) /\ low # 0
      BY <1>1, <2>5
    <2> QED BY <1>3, <2>3, <2>4, <2>5, <2>6
  <1> QED BY <1>5, <1>6

\* find_atomic_index returns the last atomic savepoint.
LEMMA FindAtomic ==
  ASSUME NEW t \in Threads, sapos[t] \in Seq(Sapo)
  PROVE  /\ find_atomic_index(t) \in 0 .. Len(sapos[t])
         /\ \A j \in 1 .. Len(sapos[t]) : sapos[t][j].atomic => j <= find_atomic_index(t)
  <1>1. Len(sapos[t]) \in Nat /\ DOMAIN sapos[t] = 1 .. Len(sapos[t])
    BY SapoFacts
  <1> DEFINE found == {i \in DOMAIN sapos[t] : sapos[t][i].atomic}
             high == CHOOSE i \in found : \A j \in found : j <= i
  <1>2. find_atomic_index(t) = IF found = {} THEN 0 ELSE high
    BY DEF find_atomic_index
  <1>3. \A j \in 1 .. Len(sapos[t]) : sapos[t][j].atomic <=> j \in found
    BY <1>1
  <1>4. found \subseteq 1 .. Len(sapos[t])
    BY <1>1
  <1>5. CASE found = {}
    BY <1>1, <1>2, <1>3, <1>5
  <1>6. CASE found # {}
    <2>1. \E i \in found : \A j \in found : j <= i
      BY <1>1, <1>4, <1>6, HighestExists
    <2>2. high \in found /\ \A j \in found : j <= high
      BY <2>1
    <2> HIDE DEF high
    <2>3. find_atomic_index(t) = high
      BY <1>2, <1>6
    <2>4. high \in 1 .. Len(sapos[t])
      BY <1>4, <2>2
    <2> HIDE DEF found
    <2> QED BY <1>1, <1>3, <2>2, <2>3, <2>4
  <1> QED BY <1>5, <1>6

\* Remainders are natural numbers.
LEMMA ModFacts ==
  ASSUME NEW a \in Int, NEW n \in Nat, n > 0
  PROVE  a % n \in Nat
  OBVIOUS

\* The numbers up to n are n.
LEMMA IntervalFacts ==
  ASSUME NEW n \in Nat
  PROVE  IsFiniteSet(1 .. n) /\ Cardinality(1 .. n) = n
  BY FS_Interval

\* There are more numbers than savepoints: get_number finds an unused one.
LEMMA GetNumber ==
  ASSUME NEW t \in Threads, sapos[t] \in Seq(Sapo), Len(sapos[t]) <= MaxSapos,
         last_num[t] \in 0 .. MaxNumber
  PROVE  /\ get_number(t) \in Numbers
         /\ \A j \in 1 .. Len(sapos[t]) : sapos[t][j].id # get_number(t)
  <1>1. Len(sapos[t]) \in Nat
    BY SapoFacts
  <1>2. MaxNumber \in Nat /\ MaxSapos \in Nat /\ MaxSapos < MaxNumber
    BY SavepointConstants
  <1> DEFINE unused == {n \in Numbers : find_sapo(t, n) = 0}
             steps(n) == (n + MaxNumber - Successor(last_num[t])) % MaxNumber
             places == {steps(n) : n \in unused}
             next == CHOOSE n \in unused : \A m \in unused : steps(n) <= steps(m)
  <1>3. unused # {}
    <2> SUFFICES ASSUME unused = {} PROVE FALSE
      OBVIOUS
    <2>1. \A n \in Numbers : find_sapo(t, n) # 0
      OBVIOUS
    <2> HIDE DEF unused
    <2> DEFINE place == [n \in Numbers |-> find_sapo(t, n)]
    <2>2. \A n \in Numbers : /\ find_sapo(t, n) \in 0 .. Len(sapos[t])
                             /\ sapos[t][find_sapo(t, n)].id = n
      BY <2>1, FindSapo
    <2>3. place \in [Numbers -> 1 .. Len(sapos[t])]
      BY <1>1, <2>1, <2>2
    <2>4. IsFiniteSet(Numbers) /\ Cardinality(Numbers) = MaxNumber
      BY <1>2, IntervalFacts DEF Numbers
    <2>5. /\ IsFiniteSet(1 .. Len(sapos[t]))
          /\ Cardinality(1 .. Len(sapos[t])) = Len(sapos[t])
      BY <1>1, IntervalFacts
    <2> HIDE DEF place
    <2>6. Cardinality(1 .. Len(sapos[t])) < Cardinality(Numbers)
      BY <1>1, <1>2, <2>4, <2>5
    <2>7. PICK x \in Numbers, y \in Numbers : x # y /\ place[x] = place[y]
      BY <2>3, <2>4, <2>5, <2>6, FS_PigeonHole
    <2> QED BY <2>2, <2>7 DEF place
  <1>4. \A n \in unused : steps(n) \in Nat
    <2>1. ASSUME NEW n \in Numbers PROVE steps(n) \in Nat
      <3>1. n \in Int /\ Successor(last_num[t]) \in Int
        BY <1>2 DEF Numbers, Successor
      <3>2. MaxNumber \in Nat /\ MaxNumber > 0
        BY <1>2
      <3>3. n + MaxNumber - Successor(last_num[t]) \in Int
        BY <3>1, <3>2
      <3> HIDE DEF unused
      <3> QED BY <3>2, <3>3, ModFacts
    <2> QED BY <2>1
  <1>5. PICK z \in places : \A y \in places : z <= y
    <2>1. places \subseteq Nat /\ places # {}
      BY <1>3, <1>4
    <2> HIDE DEF places
    <2> QED BY <2>1, LowestExists
  <1>6. \E n \in unused : \A m \in unused : steps(n) <= steps(m)
    <2>1. PICK n \in unused : z = steps(n)
      BY <1>5
    <2>2. \A m \in unused : steps(m) \in places
      OBVIOUS
    <2> HIDE DEF unused, places, steps
    <2> QED BY <1>5, <2>1, <2>2
  <1>7. next \in unused
    <2> HIDE DEF unused, steps
    <2> QED BY <1>6
  <1>8. get_number(t) = next
    BY DEF get_number
  <1> HIDE DEF next
  <1>9. get_number(t) \in Numbers /\ find_sapo(t, get_number(t)) = 0
    BY <1>7, <1>8
  <1> QED BY <1>9, FindSapo

-----------------------------------------------------------------------------
(* What the parts of actions do *)

\* A function changed for one client.
OnlyFor(t, f, g) == \A u \in Threads : u # t => g[u] = f[u]

\* The first n elements of a sequence of savepoints.
FirstOf(s, n, s1) ==
    s1 \in Seq(Sapo) /\ Len(s1) = n /\ \A k \in 1 .. n : s1[k] = s[k]

\* A savepoint without copies is added to a sequence.
AddedTo(s, s1) ==
    /\ s1 \in Seq(Sapo) /\ Len(s1) = Len(s) + 1
    /\ \A k \in 1 .. Len(s) : s1[k] = s[k]

\* The savepoints of one client change.
LEMMA SaposChange ==
  ASSUME SapoTypes, NEW t \in Threads, NEW s \in Seq(Sapo), Len(s) <= MaxSapos,
         sapos' = [sapos EXCEPT ![t] = s]
  PROVE  /\ sapos' \in [Threads -> Seq(Sapo)] /\ sapos'[t] = s
         /\ OnlyFor(t, sapos, sapos')
         /\ \A u \in Threads : Len(sapos'[u]) <= MaxSapos
  <1>1. sapos' \in [Threads -> Seq(Sapo)] /\ sapos'[t] = s /\ OnlyFor(t, sapos, sapos')
    BY DEF SapoTypes, OnlyFor
  <1>2. \A u \in Threads : Len(sapos'[u]) <= MaxSapos
    BY <1>1 DEF SapoTypes, OnlyFor
  <1> QED BY <1>1, <1>2

\* What destroy_from leaves, and the blocks it has to free.
LEMMA DestroyFacts ==
  ASSUME SapoTypes, NEW t \in Threads, NEW i \in Nat \ {0}, destroy_from(t, i),
         NEW n, n = IF i > Len(sapos[t]) THEN Len(sapos[t]) ELSE i - 1
  PROVE  /\ n \in 0 .. Len(sapos[t])
         /\ sapos' \in [Threads -> Seq(Sapo)] /\ FirstOf(sapos[t], n, sapos'[t])
         /\ OnlyFor(t, sapos, sapos')
         /\ \A u \in Threads : Len(sapos'[u]) <= MaxSapos
         /\ drop' \in [Threads -> SUBSET SwapBlocks] /\ OnlyFor(t, drop, drop')
         /\ \A b : b \in drop'[t] <=>
               \E k \in n + 1 .. Len(sapos[t]) : \E p \in DOMAIN sapos[t][k].pairs :
                  b = sapos[t][k].pairs[p]
  <1> DEFINE s == sapos[t]
             rest == SubSeq(s, i, Len(s))
  <1>1. s \in Seq(Sapo) /\ Len(s) \in Nat /\ Len(s) <= MaxSapos /\ MaxSapos \in Nat
    BY SapoFacts, SavepointConstants DEF SapoTypes
  <1>2. n \in 0 .. Len(s)
    BY <1>1
  <1>3. FirstOf(s, n, SubSeq(s, 1, n))
    BY <1>1, <1>2, PrefixFacts DEF FirstOf
  <1>4. sapos' = [sapos EXCEPT ![t] = SubSeq(s, 1, n)]
    BY DEF destroy_from, SapoTypes
  <1>5. SubSeq(s, 1, n) \in Seq(Sapo) /\ Len(SubSeq(s, 1, n)) <= MaxSapos
    BY <1>1, <1>2, <1>3 DEF FirstOf
  <1>6. /\ sapos' \in [Threads -> Seq(Sapo)] /\ sapos'[t] = SubSeq(s, 1, n)
        /\ OnlyFor(t, sapos, sapos')
        /\ \A u \in Threads : Len(sapos'[u]) <= MaxSapos
    BY <1>4, <1>5, SaposChange
  <1>7. /\ rest \in Seq(Sapo)
        /\ Len(rest) = IF i <= Len(s) THEN Len(s) - i + 1 ELSE 0
        /\ \A k \in 1 .. Len(s) - i + 1 : rest[k] = s[i + k - 1]
    BY <1>1, SuffixFacts
  <1>8. drop' = [drop EXCEPT ![t] = BlocksOf(rest)]
    BY DEF destroy_from
  <1> HIDE DEF rest
  <1>9. /\ BlocksOf(rest) \subseteq SwapBlocks
        /\ \A b : b \in BlocksOf(rest) <=>
              \E k \in 1 .. Len(rest) : \E p \in DOMAIN rest[k].pairs : b = rest[k].pairs[p]
    BY <1>7, BlocksOfFacts
  <1>10. /\ drop' \in [Threads -> SUBSET SwapBlocks] /\ OnlyFor(t, drop, drop')
         /\ drop'[t] = BlocksOf(rest)
    BY <1>8, <1>9 DEF SapoTypes, OnlyFor
  <1>11. ASSUME NEW b
         PROVE  (\E k \in 1 .. Len(rest) : \E p \in DOMAIN rest[k].pairs : b = rest[k].pairs[p])
                <=> \E k \in n + 1 .. Len(s) : \E p \in DOMAIN s[k].pairs : b = s[k].pairs[p]
    <2>1. CASE i > Len(s)
      <3>1. 1 .. Len(rest) = {} /\ n + 1 .. Len(s) = {}
        BY <1>1, <1>7, <2>1
      <3> QED BY <3>1
    <2>2. CASE ~(i > Len(s))
      <3>1. n + 1 = i /\ Len(rest) = Len(s) - i + 1
        BY <1>1, <1>7, <2>2
      <3>2. ASSUME NEW k \in 1 .. Len(rest)
            PROVE  i + k - 1 \in n + 1 .. Len(s) /\ rest[k] = s[i + k - 1]
        <4>1. k \in 1 .. Len(s) - i + 1 /\ i + k - 1 \in n + 1 .. Len(s)
          BY <1>1, <3>1
        <4> QED BY <1>7, <4>1
      <3>3. \A k \in n + 1 .. Len(s) : k - i + 1 \in 1 .. Len(rest) /\ rest[k - i + 1] = s[k]
        <4> SUFFICES ASSUME NEW k \in n + 1 .. Len(s)
                     PROVE  k - i + 1 \in 1 .. Len(rest) /\ rest[k - i + 1] = s[k]
          OBVIOUS
        <4>1. k - i + 1 \in 1 .. Len(rest) /\ i + (k - i + 1) - 1 = k
          BY <1>1, <3>1
        <4>2. rest[k - i + 1] = s[i + (k - i + 1) - 1]
          BY <3>2, <4>1
        <4> QED BY <4>1, <4>2
      <3>4. ASSUME NEW k \in 1 .. Len(rest), NEW p \in DOMAIN rest[k].pairs,
                   b = rest[k].pairs[p]
            PROVE  \E l \in n + 1 .. Len(s) : \E q \in DOMAIN s[l].pairs : b = s[l].pairs[q]
        <4>1. i + k - 1 \in n + 1 .. Len(s) /\ rest[k] = s[i + k - 1]
          BY <3>2
        <4> QED BY <3>4, <4>1
      <3>5. ASSUME NEW k \in n + 1 .. Len(s), NEW p \in DOMAIN s[k].pairs, b = s[k].pairs[p]
            PROVE  \E l \in 1 .. Len(rest) : \E q \in DOMAIN rest[l].pairs :
                      b = rest[l].pairs[q]
        <4>1. k - i + 1 \in 1 .. Len(rest) /\ rest[k - i + 1] = s[k]
          BY <3>3
        <4> QED BY <3>5, <4>1
      <3> QED BY <3>4, <3>5
    <2> QED BY <2>1, <2>2
  <1>12. ASSUME NEW b
         PROVE  b \in drop'[t] <=>
               \E k \in n + 1 .. Len(sapos[t]) : \E p \in DOMAIN sapos[t][k].pairs :
                  b = sapos[t][k].pairs[p]
    <2>1. b \in BlocksOf(rest) <=>
            \E k \in 1 .. Len(rest) : \E p \in DOMAIN rest[k].pairs : b = rest[k].pairs[p]
      BY <1>9, Zenon
    <2>2. b \in drop'[t] <=> b \in BlocksOf(rest)
      BY <1>10, Zenon
    <2> QED BY <2>1, <2>2, <1>11, Zenon
  <1>13. n \in 0 .. Len(sapos[t]) /\ FirstOf(sapos[t], n, sapos'[t])
    BY <1>2, <1>3, <1>6
  <1> HIDE DEF s
  <1> QED BY <1>6, <1>10, <1>12, <1>13

\* The sequence to which create adds a savepoint.
LEMMA WithoutSapo ==
  ASSUME SapoTypes, NEW t \in Threads, NEW i \in 1 .. Len(sapos[t])
  PROVE  /\ Without(sapos[t], i) \in Seq(Sapo)
         /\ Len(Without(sapos[t], i)) = Len(sapos[t]) - 1
         /\ \A k \in 1 .. Len(sapos[t]) - 1 :
               Without(sapos[t], i)[k] = sapos[t][IF k < i THEN k ELSE k + 1]
  <1>1. sapos[t] \in Seq(Sapo) /\ Len(sapos[t]) \in Nat
    BY SapoFacts DEF SapoTypes
  <1> QED BY <1>1, WithoutFacts

\* What create begins with.
Created(t, s, id, atomic) ==
    LET n == Len(s) + 1
    IN  /\ sapos' \in [Threads -> Seq(Sapo)] /\ AddedTo(s, sapos'[t])
        /\ OnlyFor(t, sapos, sapos')
        /\ \A u \in Threads : Len(sapos'[u]) <= MaxSapos
        /\ Len(sapos'[t]) = n /\ n # 0
        /\ sapos'[t][n].id = id /\ sapos'[t][n].atomic = atomic
        /\ sapos'[t][n].undone = FALSE /\ sapos'[t][n].pairs = << >>
        /\ sapos'[t][n].freed = freed[t] /\ sapos'[t][n].mark = mine[t]
        /\ job' \in [Threads -> {"run", "save", "write"}] /\ job'[t] = "save"
        /\ OnlyFor(t, job, job')
        /\ todo' \in [Threads -> SUBSET Pages] /\ todo'[t] = log[t]
        /\ OnlyFor(t, todo, todo')

\* The new savepoint is the last one and has no copies yet.
LEMMA CreateFacts ==
  ASSUME SapoTypes, LogTypes, NEW t \in Threads, NEW s \in Seq(Sapo),
         NEW id \in Names \cup Numbers, NEW atomic \in BOOLEAN,
         create(t, s, id, atomic)
  PROVE  Created(t, s, id, atomic)
  <1> DEFINE new == [id |-> id, atomic |-> atomic, undone |-> FALSE, pairs |-> << >>,
                     freed |-> freed[t], mark |-> mine[t]]
             n == Len(s) + 1
  <1>1. << >> \in PairMaps
    BY NoPairs
  <1>2. new \in Sapo
    BY <1>1 DEF Sapo, LogTypes
  <1>3. /\ new.id = id /\ new.atomic = atomic /\ new.undone = FALSE /\ new.pairs = << >>
        /\ new.freed = freed[t] /\ new.mark = mine[t]
    OBVIOUS
  <1>4. sapos' = [sapos EXCEPT ![t] = Append(s, new)] /\ ~(Len(s) >= MaxSapos)
    BY DEF create, TooMany
  <1> HIDE DEF new
  <1>5. /\ Len(s) \in Nat /\ MaxSapos \in Nat
    BY SapoFacts, SavepointConstants
  <1>6. /\ Append(s, new) \in Seq(Sapo) /\ Len(Append(s, new)) = Len(s) + 1
        /\ \A k \in 1 .. Len(s) : Append(s, new)[k] = s[k]
        /\ Append(s, new)[Len(s) + 1] = new
    BY <1>2, AppendProperties
  <1>7. Len(Append(s, new)) <= MaxSapos
    BY <1>4, <1>5, <1>6
  <1>8. /\ sapos' \in [Threads -> Seq(Sapo)] /\ sapos'[t] = Append(s, new)
        /\ OnlyFor(t, sapos, sapos')
        /\ \A u \in Threads : Len(sapos'[u]) <= MaxSapos
    BY <1>4, <1>6, <1>7, SaposChange
  <1>9. AddedTo(s, Append(s, new))
    BY <1>6 DEF AddedTo
  <1>10. n # 0
    BY <1>5
  <1>11. Append(s, new)[n] = new
    BY <1>6
  <1>12. /\ job' \in [Threads -> {"run", "save", "write"}] /\ job'[t] = "save"
         /\ OnlyFor(t, job, job')
         /\ todo' \in [Threads -> SUBSET Pages] /\ todo'[t] = log[t]
         /\ OnlyFor(t, todo, todo')
    BY DEF create, SapoTypes, LogTypes, OnlyFor
  <1>13. Len(sapos'[t]) = n /\ sapos'[t][n] = new
    BY <1>6, <1>8, <1>11
  <1> HIDE DEF n
  <1>14. AddedTo(s, sapos'[t])
    BY <1>8, <1>9
  <1> QED BY <1>3, <1>8, <1>10, <1>12, <1>13, <1>14 DEF Created, n

\* The block found by get_swap_block is held by nobody.
LEMMA FindFacts ==
  ASSUME TransactorInv, NEW t \in Threads, find_swap_block(t)
  PROVE  \E b \in SwapBlocks :
            /\ held' = [held EXCEPT ![t] = @ \cup {b}]
            /\ held'[t] \ held[t] = {b}
            /\ \A u \in Threads : b \notin held[u]
  <1>1. PICK b \in FreeFrom(cell[t]) : held' = [held EXCEPT ![t] = @ \cup {b}]
    BY DEF find_swap_block
  <1>2. b \in SwapBlocks /\ b \notin alloc_map
    BY DEF FreeFrom
  <1>3. \A u \in Threads : b \notin held[u]
    BY <1>2 DEF TransactorInv, BlocksExclusive
  <1>4. held'[t] = held[t] \cup {b}
    BY <1>1 DEF TransactorInv, TypeOK
  <1>5. held'[t] \ held[t] = {b}
    BY <1>3, <1>4
  <1> QED BY <1>1, <1>2, <1>3, <1>5

\* What save_block does: one more page has its copy, in a new block.
Saved(t, p, b) ==
    LET n == Len(sapos[t])
    IN  /\ held' = [held EXCEPT ![t] = @ \cup {b}]
        /\ \A u \in Threads : b \notin held[u]
        /\ tdata' = [tdata EXCEPT ![b] = copy[t][p]]
        /\ sapos' \in [Threads -> Seq(Sapo)] /\ OnlyFor(t, sapos, sapos')
        /\ \A u \in Threads : Len(sapos'[u]) = Len(sapos[u])
        /\ n \in 1 .. Len(sapos[t])
        /\ \A k \in 1 .. Len(sapos[t]) : k # n => sapos'[t][k] = sapos[t][k]
        /\ sapos'[t][n].id = sapos[t][n].id
        /\ sapos'[t][n].atomic = sapos[t][n].atomic
        /\ sapos'[t][n].undone = sapos[t][n].undone
        /\ sapos'[t][n].freed = sapos[t][n].freed
        /\ sapos'[t][n].mark = sapos[t][n].mark
        /\ DOMAIN sapos'[t][n].pairs = DOMAIN sapos[t][n].pairs \cup {p}
        /\ sapos'[t][n].pairs[p] = b
        /\ \A q \in DOMAIN sapos[t][n].pairs :
              q # p => sapos'[t][n].pairs[q] = sapos[t][n].pairs[q]

\* save_block writes to a block that was free.
LEMMA SaveFacts ==
  ASSUME Types, NEW t \in Threads, NEW p \in Pages, save_block(t, p)
  PROVE  \E b \in SwapBlocks : Saved(t, p, b)
  <1> DEFINE s == sapos[t]
             n == Len(sapos[t])
  <1>1. /\ s \in Seq(Sapo) /\ Len(s) \in Nat /\ n \in 1 .. Len(s)
        /\ DOMAIN s = 1 .. Len(s) /\ s[n] \in Sapo /\ s[n].pairs \in PairMaps
    <2>1. s \in Seq(Sapo) /\ Len(s) # 0
      BY DEF Types, SapoTypes, save_block
    <2>2. Len(s) \in Nat
      BY <2>1, SapoFacts
    <2>3. n \in 1 .. Len(s)
      BY <2>1, <2>2
    <2> QED BY <2>1, <2>2, <2>3, SapoFacts
  <1> HIDE DEF n
  <1>2. PICK b \in SwapBlocks : /\ held' = [held EXCEPT ![t] = @ \cup {b}]
                                /\ held'[t] \ held[t] = {b}
                                /\ \A u \in Threads : b \notin held[u]
    BY FindFacts DEF save_block, Types
  <1>3. /\ tdata' = [tdata EXCEPT ![b] = copy[t][p]]
        /\ sapos' = [sapos EXCEPT ![t][Len(sapos[t])].pairs =
                        [q \in DOMAIN @ \cup {p} |-> IF q = p THEN b ELSE @[q]]]
    BY <1>2 DEF save_block
  <1> DEFINE m == WithPair(s[n].pairs, p, b)
             new == [s[n] EXCEPT !.pairs = m]
             s1 == [s EXCEPT ![n] = new]
  <1>4. /\ m \in PairMaps /\ DOMAIN m = DOMAIN s[n].pairs \cup {p} /\ m[p] = b
        /\ \A q \in DOMAIN s[n].pairs : q # p => m[q] = s[n].pairs[q]
    <2> HIDE DEF s
    <2> QED BY <1>1, AddPair, ZenonT(60)
  <1>5. sapos' = [sapos EXCEPT ![t] = s1]
    BY <1>3 DEF WithPair, n
  <1> HIDE DEF m
  <1>6. /\ new \in Sapo /\ new.pairs = m
        /\ new.id = s[n].id /\ new.atomic = s[n].atomic /\ new.undone = s[n].undone
        /\ new.freed = s[n].freed /\ new.mark = s[n].mark
    <2> HIDE DEF s
    <2> QED BY <1>1, <1>4 DEF Sapo
  <1> HIDE DEF new
  <1>7. /\ s1 \in Seq(Sapo) /\ Len(s1) = Len(s)
        /\ \A k \in 1 .. Len(s) : s1[k] = IF k = n THEN new ELSE s[k]
    <2> HIDE DEF s
    <2> QED BY <1>1, <1>6, ExceptSeq
  <1> HIDE DEF s1
  <1>8. /\ sapos' \in [Threads -> Seq(Sapo)] /\ sapos'[t] = s1 /\ OnlyFor(t, sapos, sapos')
    BY <1>5, <1>7 DEF OnlyFor, Types, SapoTypes
  <1>9. \A u \in Threads : Len(sapos'[u]) = Len(sapos[u])
    BY <1>7, <1>8 DEF OnlyFor
  <1>10. sapos'[t][n] = new
    BY <1>1, <1>7, <1>8
  <1>11. \A k \in 1 .. Len(sapos[t]) : k # n => sapos'[t][k] = sapos[t][k]
    BY <1>7, <1>8
  <1>12. /\ sapos'[t][n].id = sapos[t][n].id
         /\ sapos'[t][n].atomic = sapos[t][n].atomic
         /\ sapos'[t][n].undone = sapos[t][n].undone
         /\ sapos'[t][n].freed = sapos[t][n].freed
         /\ sapos'[t][n].mark = sapos[t][n].mark
    BY <1>6, <1>10
  <1>13. /\ DOMAIN sapos'[t][n].pairs = DOMAIN sapos[t][n].pairs \cup {p}
         /\ sapos'[t][n].pairs[p] = b
         /\ \A q \in DOMAIN sapos[t][n].pairs :
               q # p => sapos'[t][n].pairs[q] = sapos[t][n].pairs[q]
    BY <1>4, <1>6, <1>10
  <1>14. n \in 1 .. Len(sapos[t])
    BY <1>1
  <1> HIDE DEF s
  <1> QED BY <1>2, <1>3, <1>8, <1>9, <1>11, <1>12, <1>13, <1>14 DEF Saved, n

\* A function on 1 .. n is a sequence of length n.
LEMMA FunctionIsSeq ==
  ASSUME NEW S, NEW n \in Nat, NEW f \in [1 .. n -> S]
  PROVE  f \in Seq(S) /\ Len(f) = n
  <1>1. f \in Seq(S)
    BY SeqDef
  <1>2. 1 .. n = 1 .. Len(f) /\ Len(f) \in Nat
    BY <1>1, LenProperties
  <1> QED BY <1>1, <1>2

\* What an UNDO handler does to the savepoints.
LEMMA UndoFacts ==
  ASSUME SapoTypes, NEW t \in Threads, undo_block(t)
  PROVE  /\ sapos' \in [Threads -> Seq(Sapo)] /\ OnlyFor(t, sapos, sapos')
         /\ \A u \in Threads : Len(sapos'[u]) = Len(sapos[u])
         /\ \A k \in 1 .. Len(sapos[t]) :
               /\ sapos'[t][k].id = sapos[t][k].id
               /\ sapos'[t][k].atomic = sapos[t][k].atomic
               /\ sapos'[t][k].pairs = sapos[t][k].pairs
               /\ sapos'[t][k].freed = sapos[t][k].freed
               /\ sapos'[t][k].mark = sapos[t][k].mark
               /\ sapos'[t][k].undone <=> sapos[t][k].undone \/ k > Innermost(t).ind
  <1> DEFINE s == sapos[t]
             s1 == [i \in DOMAIN s |-> [s[i] EXCEPT !.undone = s[i].undone \/ i > Innermost(t).ind]]
  <1>1. /\ s \in Seq(Sapo) /\ Len(s) \in Nat /\ DOMAIN s = 1 .. Len(s)
        /\ \A i \in 1 .. Len(s) : s[i] \in Sapo
    BY SapoFacts DEF SapoTypes
  <1>2. sapos' = [sapos EXCEPT ![t] = s1]
    BY Zenon DEF undo_block
  <1> HIDE DEF s
  <1>3. ASSUME NEW x \in Sapo, NEW b \in BOOLEAN
        PROVE  /\ [x EXCEPT !.undone = b] \in Sapo
               /\ [x EXCEPT !.undone = b].id = x.id
               /\ [x EXCEPT !.undone = b].atomic = x.atomic
               /\ [x EXCEPT !.undone = b].pairs = x.pairs
               /\ [x EXCEPT !.undone = b].freed = x.freed
               /\ [x EXCEPT !.undone = b].mark = x.mark
               /\ [x EXCEPT !.undone = b].undone = b
    BY DEF Sapo
  <1>4. ASSUME NEW k \in 1 .. Len(s)
        PROVE  /\ s1[k] \in Sapo
               /\ s1[k].id = s[k].id /\ s1[k].atomic = s[k].atomic
               /\ s1[k].pairs = s[k].pairs /\ s1[k].freed = s[k].freed
               /\ s1[k].mark = s[k].mark
               /\ s1[k].undone <=> s[k].undone \/ k > Innermost(t).ind
    <2> DEFINE past == s[k].undone \/ k > Innermost(t).ind
    <2>1. s1[k] = [s[k] EXCEPT !.undone = past]
      BY <1>1
    <2>2. s[k] \in Sapo /\ past \in BOOLEAN
      BY <1>1
    <2> HIDE DEF past, s1
    <2>3. /\ s1[k] \in Sapo
          /\ s1[k].id = s[k].id /\ s1[k].atomic = s[k].atomic
          /\ s1[k].pairs = s[k].pairs /\ s1[k].freed = s[k].freed
          /\ s1[k].mark = s[k].mark
          /\ s1[k].undone = past
      BY <1>3, <2>1, <2>2
    <2> QED BY <2>3 DEF past
  <1>5. s1 \in [1 .. Len(s) -> Sapo]
    <2>1. DOMAIN s1 = 1 .. Len(s) /\ s1 = [i \in 1 .. Len(s) |-> s1[i]]
      BY <1>1
    <2> HIDE DEF s1
    <2> QED BY <1>4, <2>1
  <1> HIDE DEF s1
  <1>6. s1 \in Seq(Sapo) /\ Len(s1) = Len(s)
    BY <1>1, <1>5, FunctionIsSeq
  <1>7. /\ sapos' \in [Threads -> Seq(Sapo)] /\ OnlyFor(t, sapos, sapos')
        /\ sapos'[t] = s1
    BY <1>2, <1>6 DEF SapoTypes, OnlyFor
  <1>8. \A u \in Threads : Len(sapos'[u]) = Len(sapos[u])
    BY <1>6, <1>7 DEF OnlyFor, s
  <1> QED BY <1>4, <1>7, <1>8 DEF s

\* Blank pages, empty maps.
LEMMA BlankFacts ==
  /\ [p \in Pages |-> {}] \in [Pages -> SUBSET Records]
  /\ \A n \in Nat : [p \in Pages |-> Blank] \in [Pages -> ContentsTo(n)]
  <1>1. \A n \in Nat : Blank \in ContentsTo(n)
    BY DEF Blank, ContentsTo
  <1> QED BY <1>1

\* Changed records have the next value.
LEMMA ChangeTypes ==
  ASSUME PageTypes, LogTypes, NEW t \in Threads, NEW p \in Pages, NEW S \in SUBSET Records,
         p \notin freed[t], change(t, p, S)
  PROVE  PageTypes' /\ LogTypes'
  <1>1. MaxWrites \in Nat /\ writes \in Nat /\ writes < MaxWrites /\ writes' = writes + 1
    <2>1. writes < MaxWrites /\ writes' = writes + 1
      BY DEF change
    <2> QED BY <2>1, SavepointConstants DEF PageTypes
  <1>2. ContentsTo(writes) \subseteq ContentsTo(writes')
    BY <1>1, ContentsFacts
  <1>3. \A r \in Records : View(t, p, r) \in 0 .. writes
    BY DEF View, PageTypes, LogTypes, ContentsTo
  <1> DEFINE c == [r \in Records |-> View(t, p, r) + (IF r \in S THEN 1 ELSE 0)]
             m == [r \in Records |-> IF r \in S THEN c[r] ELSE mine[t][p][r]]
  <1>4. \A r \in Records : View(t, p, r) + (IF r \in S THEN 1 ELSE 0) \in 0 .. writes'
    BY <1>1, <1>3
  <1>5. c \in ContentsTo(writes')
    BY <1>4 DEF ContentsTo
  <1>6. copy' = [copy EXCEPT ![t][p] = c]
    BY DEF change
  <1> HIDE DEF c
  <1>7. copy' \in [Threads -> [Pages -> ContentsTo(writes')]] /\ copy'[t][p] = c
    <2>1. copy \in [Threads -> [Pages -> ContentsTo(writes')]]
      BY <1>2 DEF LogTypes
    <2> QED BY <1>5, <1>6, <2>1
  <1>8. mine' = [mine EXCEPT ![t][p] = m]
    BY <1>7 DEF change
  <1>9. m \in [Records -> Values \cup {None, Gone}]
    <2>1. \A r \in Records : c[r] \in Values
      BY <1>1, <1>5 DEF ContentsTo, Values
    <2>2. \A r \in Records : mine[t][p][r] \in Values \cup {None, Gone}
      BY DEF LogTypes, Changes
    <2> QED BY <2>1, <2>2
  <1> HIDE DEF m
  <1>10. mine' \in [Threads -> Changes]
    BY <1>8, <1>9 DEF LogTypes, Changes
  <1>11. /\ log' \in [Threads -> SUBSET Pages]
         /\ chngmap' \in [Threads -> [Pages -> SUBSET Records]]
         /\ freed' \in [Threads -> SUBSET FullPages]
    BY DEF change, LogTypes
  <1>12. LogTypes'
    BY <1>7, <1>10, <1>11 DEF LogTypes
  <1>13. lock' \in [Pages -> [Records -> Threads \cup {NoThread}]]
    BY DEF change, Locked, PageTypes
  <1>14. /\ fil' \in [Pages -> ContentsTo(writes')]
         /\ tdata' \in [SwapBlocks -> ContentsTo(writes')]
    BY <1>2 DEF change, PageTypes
  <1>15. writes' \in 0 .. MaxWrites
    BY <1>1
  <1>16. PageTypes'
    BY <1>13, <1>14, <1>15 DEF change, PageTypes
  <1> QED BY <1>12, <1>16

\* Rolling back to a savepoint.
LEMMA RollbackTypes ==
  ASSUME PageTypes, LogTypes, SapoTypes, NEW t \in Threads, NEW i \in 1 .. Len(sapos[t]),
         NEW goal \in Changes, rollback(t, i, goal), writes' = writes
  PROVE  LogTypes'
  <1> DEFINE m == sapos[t][i].pairs
             f == sapos[t][i].freed
  <1>1. m \in PairMaps /\ f \subseteq FullPages
    BY SapoFacts DEF SapoTypes
  <1>2. /\ DOMAIN m \subseteq Pages
        /\ \A p \in DOMAIN m : m[p] \in SwapBlocks
    BY <1>1, PairFacts
  <1>3. /\ log' = [log EXCEPT ![t] = @ \cap DOMAIN m]
        /\ copy' = [copy EXCEPT ![t] =
              [p \in Pages |-> IF p \notin log[t] \cap DOMAIN m THEN Blank
                               ELSE Restored(t, p, tdata[m[p]])]]
        /\ chngmap' = [chngmap EXCEPT ![t] =
              [p \in Pages |-> IF p \in log[t] \cap DOMAIN m THEN @[p] ELSE {}]]
        /\ freed' = [freed EXCEPT ![t] = @ \cap f]
        /\ mine' = [mine EXCEPT ![t] = goal]
    BY DEF rollback
  <1> HIDE DEF m, f
  <1>4. writes \in Nat /\ Blank \in ContentsTo(writes)
    <2>1. writes \in Nat
      BY SavepointConstants DEF PageTypes
    <2> QED BY <2>1, ContentsFacts
  <1>5. ASSUME NEW p \in log[t] \cap DOMAIN m
        PROVE  Restored(t, p, tdata[m[p]]) \in ContentsTo(writes)
    <2>1. tdata[m[p]] \in ContentsTo(writes) /\ copy[t][p] \in ContentsTo(writes)
      BY <1>2 DEF PageTypes, LogTypes
    <2> QED BY <2>1 DEF Restored, ContentsTo
  <1>6. copy' \in [Threads -> [Pages -> ContentsTo(writes)]]
    BY <1>3, <1>4, <1>5 DEF LogTypes
  <1>7. /\ log' \in [Threads -> SUBSET Pages]
        /\ chngmap' \in [Threads -> [Pages -> SUBSET Records]]
        /\ freed' \in [Threads -> SUBSET FullPages]
        /\ mine' \in [Threads -> Changes]
    BY <1>3 DEF LogTypes
  <1> QED BY <1>6, <1>7 DEF LogTypes

\* The end of a transaction.
LEMMA TerminatedTypes ==
  ASSUME PageTypes, LogTypes, NEW t \in Threads, Terminated(t), writes' = writes
  PROVE  LogTypes' /\ lock' \in [Pages -> [Records -> Threads \cup {NoThread}]]
  <1>1. writes \in Nat
    BY SavepointConstants DEF PageTypes
  <1>2. /\ [p \in Pages |-> {}] \in [Pages -> SUBSET Records]
        /\ [p \in Pages |-> Blank] \in [Pages -> ContentsTo(writes)]
    BY <1>1, BlankFacts
  <1>3. /\ log' \in [Threads -> SUBSET Pages]
        /\ copy' \in [Threads -> [Pages -> ContentsTo(writes)]]
        /\ chngmap' \in [Threads -> [Pages -> SUBSET Records]]
        /\ freed' \in [Threads -> SUBSET FullPages]
        /\ mine' \in [Threads -> Changes]
    BY <1>2, MarkFacts DEF Terminated, LogTypes
  <1>4. lock' \in [Pages -> [Records -> Threads \cup {NoThread}]]
    BY DEF Terminated, PageTypes
  <1> QED BY <1>3, <1>4 DEF LogTypes

-----------------------------------------------------------------------------
(* Every step keeps the types *)

\* Steps of a client that change neither a page nor the log.
LEMMA SamePages ==
  ASSUME PageTypes, LogTypes, UNCHANGED pageVars, UNCHANGED <<ref, writes>>,
         statements' = statements \/ Statement
  PROVE  PageTypes' /\ (UNCHANGED logVars /\ UNCHANGED mine => LogTypes')
  <1>1. statements' \in 0 .. MaxStatements
    BY SavepointConstants DEF PageTypes, Statement
  <1>2. PageTypes'
    BY <1>1 DEF PageTypes, pageVars
  <1>3. UNCHANGED logVars /\ UNCHANGED mine => LogTypes'
    BY DEF LogTypes, logVars
  <1> QED BY <1>2, <1>3

\* Steps of a client that change no savepoint.
LEMMA SameSapos ==
  ASSUME SapoTypes, UNCHANGED sapoVars,
         job' \in [Threads -> {"run", "save", "write"}],
         \A u \in Threads : job'[u] = "save" => job[u] = "save",
         todo' \in [Threads -> SUBSET Pages], drop' \in [Threads -> SUBSET SwapBlocks]
  PROVE  SapoTypes'
  BY DEF SapoTypes, sapoVars

\* fix_priv_page.
LEMMA FixTypes ==
  ASSUME PageTypes, LogTypes, SapoTypes, NEW t \in Threads, NEW p \in Pages,
         fix_priv_page(t, p)
  PROVE  PageTypes' /\ LogTypes' /\ SapoTypes'
  <1>1. PageTypes'
    BY DEF fix_priv_page, PageTypes, pageVars
  <1>2. LogTypes'
    BY DEF fix_priv_page, LogTypes, PageTypes
  <1>3. SapoTypes'
    BY DEF fix_priv_page, SapoTypes, sapoVars, jobVars
  <1> QED BY <1>1, <1>2, <1>3

\* rec_changed and page_changed.
LEMMA ChangedTypes ==
  ASSUME PageTypes, LogTypes, SapoTypes, NEW t \in Threads, NEW p \in Pages,
         page_changed(t, p) \/ \E r \in Records : rec_changed(t, p, r)
  PROVE  PageTypes' /\ LogTypes' /\ SapoTypes'
  <1>1. \E S \in SUBSET Records : p \notin freed[t] /\ change(t, p, S)
    <2>1. CASE page_changed(t, p)
      BY <2>1 DEF page_changed
    <2>2. ASSUME NEW r \in Records, rec_changed(t, p, r)
          PROVE  \E S \in SUBSET Records : p \notin freed[t] /\ change(t, p, S)
      <3>1. p \notin freed[t] /\ {r} \in SUBSET Records /\ change(t, p, {r})
        BY <2>2 DEF rec_changed, LogTypes
      <3> QED BY <3>1
    <2> QED BY <2>1, <2>2
  <1>2. PICK S \in SUBSET Records : p \notin freed[t] /\ change(t, p, S)
    BY <1>1
  <1>3. PageTypes' /\ LogTypes'
    BY <1>2, ChangeTypes
  <1>4. UNCHANGED <<sapoVars, jobVars>>
    BY <1>2 DEF change
  <1>5. SapoTypes'
    BY <1>4 DEF SapoTypes, sapoVars, jobVars
  <1> QED BY <1>3, <1>5

\* free_block.
LEMMA FreeTypes ==
  ASSUME PageTypes, LogTypes, SapoTypes, NEW t \in Threads, NEW p \in Pages,
         free_block(t, p)
  PROVE  PageTypes' /\ LogTypes' /\ SapoTypes'
  <1>1. /\ lock' = [lock EXCEPT ![p] = [r \in Records |-> IF r \in Records THEN t ELSE @[r]]]
        /\ log' = [log EXCEPT ![t] = @ \ {p}]
        /\ chngmap' = [chngmap EXCEPT ![t][p] = {}]
        /\ copy' = [copy EXCEPT ![t][p] = Blank]
        /\ freed' = [freed EXCEPT ![t] = @ \cup {p}]
        /\ mine' = [mine EXCEPT ![t][p] = [r \in Records |-> Gone]]
        /\ UNCHANGED <<fil, tdata, released, sapoVars, jobVars, ref, writes>>
        /\ Statement /\ p \in FullPages
    BY DEF free_block, Locked
  <1>2. statements' \in 0 .. MaxStatements
    BY <1>1, SavepointConstants DEF PageTypes, Statement
  <1>3. lock' \in [Pages -> [Records -> Threads \cup {NoThread}]]
    BY <1>1 DEF PageTypes
  <1>4. PageTypes'
    BY <1>1, <1>2, <1>3 DEF PageTypes
  <1>5. Blank \in ContentsTo(writes)
    BY DEF Blank, ContentsTo, PageTypes
  <1>6. copy' \in [Threads -> [Pages -> ContentsTo(writes)]]
    BY <1>1, <1>5 DEF LogTypes
  <1>7. mine' \in [Threads -> Changes]
    BY <1>1 DEF LogTypes, Changes
  <1>8. /\ log' \in [Threads -> SUBSET Pages]
        /\ chngmap' \in [Threads -> [Pages -> SUBSET Records]]
        /\ freed' \in [Threads -> SUBSET FullPages]
    BY <1>1 DEF LogTypes
  <1>9. LogTypes'
    BY <1>1, <1>6, <1>7, <1>8 DEF LogTypes
  <1>10. SapoTypes'
    BY <1>1 DEF SapoTypes, sapoVars, jobVars
  <1> QED BY <1>4, <1>9, <1>10

\* save_block.
LEMMA SaveTypes ==
  ASSUME Types, NEW t \in Threads, NEW p \in Pages, save_block(t, p)
  PROVE  PageTypes' /\ LogTypes' /\ SapoTypes'
  <1>1. PICK b \in SwapBlocks :
            /\ tdata' = [tdata EXCEPT ![b] = copy[t][p]]
            /\ sapos' \in [Threads -> Seq(Sapo)]
            /\ \A u \in Threads : Len(sapos'[u]) = Len(sapos[u])
    <2>1. PICK b \in SwapBlocks : Saved(t, p, b)
      BY SaveFacts
    <2> QED BY <2>1 DEF Saved
  <1>2. /\ todo' = [todo EXCEPT ![t] = @ \ {p}]
        /\ UNCHANGED <<fil, released, lock, logVars, last_num, blocks, job, drop, mine, ref,
                       writes, statements>>
    BY DEF save_block
  <1>3. tdata' \in [SwapBlocks -> ContentsTo(writes)]
    BY <1>1 DEF Types, PageTypes, LogTypes
  <1>4. PageTypes'
    BY <1>2, <1>3 DEF Types, PageTypes
  <1>5. LogTypes'
    BY <1>2 DEF Types, LogTypes, logVars
  <1>6. todo' \in [Threads -> SUBSET Pages]
    BY <1>2 DEF Types, SapoTypes
  <1>7. /\ \A u \in Threads : Len(sapos'[u]) <= MaxSapos
        /\ \A u \in Threads : job'[u] = "save" => Len(sapos'[u]) # 0
    BY <1>1, <1>2 DEF Types, SapoTypes
  <1>8. SapoTypes'
    BY <1>1, <1>2, <1>6, <1>7 DEF Types, SapoTypes
  <1> QED BY <1>4, <1>5, <1>8

\* The savepoint that could not be completed is removed.
LEMMA FailFacts ==
  ASSUME SapoTypes, NEW t \in Threads, save_fails(t), NEW n, n = Len(sapos[t]) - 1
  PROVE  /\ n \in 0 .. Len(sapos[t])
         /\ sapos' \in [Threads -> Seq(Sapo)] /\ FirstOf(sapos[t], n, sapos'[t])
         /\ OnlyFor(t, sapos, sapos')
         /\ \A u \in Threads : Len(sapos'[u]) <= MaxSapos
  <1>1. /\ sapos[t] \in Seq(Sapo) /\ Len(sapos[t]) \in Nat /\ Len(sapos[t]) # 0
        /\ Len(sapos[t]) <= MaxSapos /\ MaxSapos \in Nat
    BY SapoFacts, SavepointConstants DEF save_fails, SapoTypes
  <1>2. n \in 0 .. Len(sapos[t])
    BY <1>1
  <1>3. FirstOf(sapos[t], n, SubSeq(sapos[t], 1, n))
    BY <1>1, <1>2, PrefixFacts DEF FirstOf
  <1>4. sapos' = [sapos EXCEPT ![t] = SubSeq(sapos[t], 1, n)]
    BY DEF save_fails
  <1>5. SubSeq(sapos[t], 1, n) \in Seq(Sapo) /\ Len(SubSeq(sapos[t], 1, n)) <= MaxSapos
    BY <1>1, <1>2, <1>3 DEF FirstOf
  <1>6. /\ sapos' \in [Threads -> Seq(Sapo)] /\ sapos'[t] = SubSeq(sapos[t], 1, n)
        /\ OnlyFor(t, sapos, sapos')
        /\ \A u \in Threads : Len(sapos'[u]) <= MaxSapos
    BY <1>4, <1>5, SaposChange
  <1> QED BY <1>2, <1>3, <1>6

\* An atomic block begins: it knows its savepoint by the number.
LEMMA EndFacts ==
  ASSUME SapoTypes, LogTypes, NEW t \in Threads, create_ends(t),
         NEW n, n = Len(sapos[t])
  PROVE  /\ n \in 1 .. Len(sapos[t])
         /\ blocks' \in [Threads -> Seq(AtomicBlock)] /\ OnlyFor(t, blocks, blocks')
         /\ ~sapos[t][n].atomic => blocks' = blocks
         /\ sapos[t][n].atomic =>
              /\ Len(blocks'[t]) = Len(blocks[t]) + 1
              /\ \A k \in 1 .. Len(blocks[t]) : blocks'[t][k] = blocks[t][k]
              /\ blocks'[t][Len(blocks[t]) + 1] =
                   [num |-> sapos[t][n].id, ind |-> find_sapo(t, sapos[t][n].id),
                    mark |-> mine[t]]
  <1>1. sapos[t] \in Seq(Sapo) /\ Len(sapos[t]) \in Nat /\ n \in 1 .. Len(sapos[t])
    <2>1. sapos[t] \in Seq(Sapo) /\ Len(sapos[t]) # 0
      BY DEF create_ends, SapoTypes
    <2>2. Len(sapos[t]) \in Nat
      BY <2>1, SapoFacts
    <2> QED BY <2>1, <2>2
  <1>2. sapos[t][n].id \in Names \cup Numbers
    BY <1>1, SapoFacts
  <1> DEFINE id == sapos[t][n].id
             new == [num |-> id, ind |-> find_sapo(t, id), mark |-> mine[t]]
  <1>3. find_sapo(t, id) \in Nat \ {0}
    <2> HIDE DEF id
    <2>1. find_sapo(t, id) \in 0 .. Len(sapos[t]) /\ find_sapo(t, id) # 0
      <3>1. sapos[t][n].id = id
        BY DEF id
      <3> QED BY <1>1, <3>1, FindSapo
    <2> QED BY <1>1, <2>1
  <1>4. new \in AtomicBlock
    BY <1>2, <1>3 DEF AtomicBlock, LogTypes
  <1>5. blocks' = IF sapos[t][n].atomic THEN [blocks EXCEPT ![t] = Append(blocks[t], new)]
                  ELSE blocks
    BY DEF create_ends
  <1> HIDE DEF new
  <1>6. blocks[t] \in Seq(AtomicBlock)
    BY DEF SapoTypes
  <1>7. /\ Append(blocks[t], new) \in Seq(AtomicBlock)
        /\ Len(Append(blocks[t], new)) = Len(blocks[t]) + 1
        /\ \A k \in 1 .. Len(blocks[t]) : Append(blocks[t], new)[k] = blocks[t][k]
        /\ Append(blocks[t], new)[Len(blocks[t]) + 1] = new
    BY <1>4, <1>6, AppendProperties
  <1>8. CASE ~sapos[t][n].atomic
    <2>1. blocks' = blocks
      BY <1>5, <1>8
    <2> QED BY <1>1, <1>8, <2>1 DEF OnlyFor, SapoTypes
  <1>9. CASE sapos[t][n].atomic
    <2>1. blocks' = [blocks EXCEPT ![t] = Append(blocks[t], new)]
      BY <1>5, <1>9
    <2>2. /\ blocks' \in [Threads -> Seq(AtomicBlock)] /\ OnlyFor(t, blocks, blocks')
          /\ blocks'[t] = Append(blocks[t], new)
      BY <2>1, <1>7 DEF OnlyFor, SapoTypes
    <2> QED BY <1>1, <1>7, <1>9, <2>2 DEF new
  <1> QED BY <1>8, <1>9

\* The innermost atomic block.
LEMMA InnermostFacts ==
  ASSUME SapoTypes, NEW t \in Threads, blocks[t] # << >>
  PROVE  /\ Len(blocks[t]) \in Nat \ {0} /\ DOMAIN blocks[t] = 1 .. Len(blocks[t])
         /\ Innermost(t) = blocks[t][Len(blocks[t])]
         /\ Innermost(t) \in AtomicBlock
         /\ Innermost(t).ind \in Nat \ {0} /\ Innermost(t).mark \in Changes
  <1>1. blocks[t] \in Seq(AtomicBlock)
    BY DEF SapoTypes
  <1>2. Len(blocks[t]) \in Nat \ {0} /\ DOMAIN blocks[t] = 1 .. Len(blocks[t])
    BY <1>1, EmptySeq, SeqFacts
  <1>3. blocks[t][Len(blocks[t])] \in AtomicBlock
    <2>1. Len(blocks[t]) \in 1 .. Len(blocks[t])
      BY <1>2
    <2> QED BY <1>1, <2>1, SeqFacts
  <1> QED BY <1>2, <1>3 DEF Innermost, AtomicBlock

\* An atomic block is left.
LEMMA LeftBlock ==
  ASSUME SapoTypes, NEW t \in Threads, end_atomic(t)
  PROVE  /\ blocks' \in [Threads -> Seq(AtomicBlock)] /\ OnlyFor(t, blocks, blocks')
         /\ Len(blocks'[t]) = Len(blocks[t]) - 1
         /\ \A k \in 1 .. Len(blocks[t]) - 1 : blocks'[t][k] = blocks[t][k]
  <1>1. blocks[t] \in Seq(AtomicBlock) /\ Len(blocks[t]) \in Nat \ {0}
    BY InnermostFacts DEF SapoTypes, end_atomic
  <1> DEFINE n == Len(blocks[t]) - 1
  <1>2. n \in 0 .. Len(blocks[t])
    BY <1>1
  <1>3. blocks' = [blocks EXCEPT ![t] = SubSeq(blocks[t], 1, n)]
    BY DEF end_atomic
  <1> HIDE DEF n
  <1>4. /\ SubSeq(blocks[t], 1, n) \in Seq(AtomicBlock) /\ Len(SubSeq(blocks[t], 1, n)) = n
        /\ \A k \in 1 .. n : SubSeq(blocks[t], 1, n)[k] = blocks[t][k]
    BY <1>1, <1>2, PrefixFacts
  <1>5. /\ blocks' \in [Threads -> Seq(AtomicBlock)] /\ OnlyFor(t, blocks, blocks')
        /\ blocks'[t] = SubSeq(blocks[t], 1, n)
    BY <1>3, <1>4 DEF SapoTypes, OnlyFor
  <1> QED BY <1>4, <1>5 DEF n

\* A step of one client.
ClientStep(t) ==
    \/ \E p \in Pages :
          \/ fix_priv_page(t, p) \/ page_changed(t, p) \/ free_block(t, p)
          \/ \E r \in Records : rec_changed(t, p, r)
          \/ save_block(t, p) \/ wr_changes(t, p)
    \/ save_begins(t) \/ save_fails(t) \/ create_ends(t)
    \/ \E block \in SwapBlocks : drop_block(t, block)
    \/ \E name \in Names : \/ sql_stmt_sapo(t, name) \/ sql_stmt_rel_sapo(t, name)
                           \/ rollback_to_savepoint(t, name)
    \/ begin_atomic(t) \/ undo_block(t) \/ end_atomic(t)
    \/ roll_back(t) \/ commit(t) \/ commit_ends(t)

\* A step is a step of a client or changes nothing.
LEMMA StepOfClient ==
    ASSUME [SavepointsNext]_allVars
    PROVE  (\E t \in Threads : ClientStep(t)) \/ UNCHANGED allVars
  <1>1. SavepointsNext => (\E t \in Threads : ClientStep(t)) \/ finish
    BY ZenonT(60) DEF SavepointsNext, ClientStep
  <1> QED BY <1>1 DEF finish

\* The savepoint SAVEPOINT creates again is destroyed before.
StatementSapos(t, name) ==
    IF find_sapo(t, name) = 0 THEN sapos[t] ELSE Without(sapos[t], find_sapo(t, name))

\* What is left of the savepoints when SAVEPOINT begins.
LEMMA StatementFacts ==
  ASSUME SapoTypes, NEW t \in Threads, NEW name
  PROVE  /\ find_sapo(t, name) \in 0 .. Len(sapos[t])
         /\ StatementSapos(t, name) \in Seq(Sapo)
         /\ find_sapo(t, name) = 0 => StatementSapos(t, name) = sapos[t]
         /\ find_sapo(t, name) # 0 =>
              /\ Len(StatementSapos(t, name)) = Len(sapos[t]) - 1
              /\ \A k \in 1 .. Len(sapos[t]) - 1 : StatementSapos(t, name)[k] =
                    sapos[t][IF k < find_sapo(t, name) THEN k ELSE k + 1]
  <1> DEFINE i == find_sapo(t, name)
  <1>1. sapos[t] \in Seq(Sapo) /\ Len(sapos[t]) \in Nat
    BY SapoFacts DEF SapoTypes
  <1>2. i \in 0 .. Len(sapos[t])
    BY <1>1, FindSapo
  <1>3. StatementSapos(t, name) = IF i = 0 THEN sapos[t] ELSE Without(sapos[t], i)
    BY DEF StatementSapos
  <1> HIDE DEF i
  <1>4. CASE i = 0
    BY <1>1, <1>2, <1>3, <1>4 DEF i
  <1>5. CASE i # 0
    <2>1. i \in 1 .. Len(sapos[t])
      BY <1>1, <1>2, <1>5
    <2>2. /\ Without(sapos[t], i) \in Seq(Sapo)
          /\ Len(Without(sapos[t], i)) = Len(sapos[t]) - 1
          /\ \A k \in 1 .. Len(sapos[t]) - 1 :
               Without(sapos[t], i)[k] = sapos[t][IF k < i THEN k ELSE k + 1]
      BY <2>1, WithoutSapo
    <2>3. StatementSapos(t, name) = Without(sapos[t], i)
      BY <1>3, <1>5
    <2> QED BY <1>2, <1>5, <2>2, <2>3 DEF i
  <1> QED BY <1>4, <1>5

\* A savepoint that was found.
LEMMA FoundSapo ==
  ASSUME SapoTypes, NEW t \in Threads, NEW id, find_sapo(t, id) # 0
  PROVE  /\ find_sapo(t, id) \in 1 .. Len(sapos[t]) /\ Len(sapos[t]) \in Nat
         /\ find_sapo(t, id) \in Nat \ {0} /\ find_sapo(t, id) + 1 \in Nat \ {0}
         /\ sapos[t][find_sapo(t, id)].mark \in Changes
  <1>1. sapos[t] \in Seq(Sapo) /\ Len(sapos[t]) \in Nat
    BY SapoFacts DEF SapoTypes
  <1>2. find_sapo(t, id) \in 0 .. Len(sapos[t])
    BY <1>1, FindSapo
  <1>3. find_sapo(t, id) \in 1 .. Len(sapos[t])
    BY <1>1, <1>2
  <1> QED BY <1>1, <1>3, SapoFacts

\* Savepoints are destroyed.
LEMMA DestroyTypes ==
  ASSUME SapoTypes, NEW t \in Threads, NEW i \in Nat \ {0}, destroy_from(t, i),
         UNCHANGED <<last_num, todo>>, blocks' \in [Threads -> Seq(AtomicBlock)],
         job' = job \/ job' = [job EXCEPT ![t] = "run"], job[t] # "save"
  PROVE  SapoTypes'
  <1> DEFINE n == IF i > Len(sapos[t]) THEN Len(sapos[t]) ELSE i - 1
  <1>1. /\ sapos' \in [Threads -> Seq(Sapo)]
        /\ OnlyFor(t, sapos, sapos')
        /\ \A u \in Threads : Len(sapos'[u]) <= MaxSapos
        /\ drop' \in [Threads -> SUBSET SwapBlocks]
    <2>1. n = IF i > Len(sapos[t]) THEN Len(sapos[t]) ELSE i - 1
      OBVIOUS
    <2> HIDE DEF n
    <2> QED BY <2>1, DestroyFacts
  <1>2. /\ \A u \in Threads : u # t => job'[u] = job[u]
        /\ job'[t] # "save" /\ job' \in [Threads -> {"run", "save", "write"}]
    BY DEF SapoTypes
  <1>3. \A u \in Threads : job'[u] = "save" => Len(sapos'[u]) # 0
    BY <1>1, <1>2 DEF OnlyFor, SapoTypes
  <1> QED BY <1>1, <1>2, <1>3 DEF SapoTypes

\* Every step of a client keeps the types.
LEMMA TypesOfClient ==
  ASSUME Types, NEW t \in Threads, ClientStep(t)
  PROVE  PageTypes' /\ LogTypes' /\ SapoTypes'
  <1> USE DEF Types
  <1>1. ASSUME NEW p \in Pages,
               \/ fix_priv_page(t, p) \/ page_changed(t, p) \/ free_block(t, p)
               \/ \E r \in Records : rec_changed(t, p, r)
               \/ save_block(t, p)
        PROVE  PageTypes' /\ LogTypes' /\ SapoTypes'
    <2>1. CASE fix_priv_page(t, p)
      BY <2>1, FixTypes
    <2>2. CASE page_changed(t, p) \/ \E r \in Records : rec_changed(t, p, r)
      BY <2>2, ChangedTypes
    <2>3. CASE free_block(t, p)
      BY <2>3, FreeTypes
    <2>4. CASE save_block(t, p)
      BY <2>4, SaveTypes
    <2> QED BY <1>1, <2>1, <2>2, <2>3, <2>4
  <1>2. ASSUME NEW p \in Pages, wr_changes(t, p) PROVE PageTypes' /\ LogTypes' /\ SapoTypes'
    <2>1. /\ todo' = [todo EXCEPT ![t] = @ \ {p}]
          /\ UNCHANGED <<tdata, released, lock, log, chngmap, freed, sapoVars, job, drop,
                         mine, ref, writes, statements>>
      BY <1>2 DEF wr_changes
    <2>2. fil' \in [Pages -> ContentsTo(writes)]
      <3>1. copy[t][p] \in ContentsTo(writes) /\ fil \in [Pages -> ContentsTo(writes)]
        BY DEF PageTypes, LogTypes
      <3>2. fil' = fil \/ fil' = [fil EXCEPT ![p] = copy[t][p]]
        BY <1>2 DEF wr_changes
      <3> QED BY <3>1, <3>2
    <2>3. \A u \in Threads : copy'[u] \in [Pages -> ContentsTo(writes)]
      <3>1. \A u \in Threads : Merged(t, p, u) \in ContentsTo(writes)
        BY DEF Merged, LogTypes, ContentsTo
      <3>2. \A u \in Threads : copy[u] \in [Pages -> ContentsTo(writes)]
        BY DEF LogTypes
      <3>3. CASE chngmap[t][p] = {}
        BY <1>2, <3>2, <3>3 DEF wr_changes
      <3>4. CASE chngmap[t][p] # {}
        <4>1. copy' = [u \in Threads |->
                          IF u # t /\ p \in log[u]
                          THEN [copy[u] EXCEPT ![p] = Merged(t, p, u)] ELSE copy[u]]
          BY <1>2, <3>4 DEF wr_changes
        <4> QED BY <3>1, <3>2, <4>1
      <3> QED BY <3>3, <3>4
    <2>4. copy' \in [Threads -> [Pages -> ContentsTo(writes)]]
      <3>1. copy' = [u \in Threads |-> copy'[u]]
        BY <1>2 DEF wr_changes, LogTypes
      <3> QED BY <2>3, <3>1
    <2>5. PageTypes' /\ LogTypes'
      BY <2>1, <2>2, <2>4 DEF PageTypes, LogTypes
    <2>6. SapoTypes'
      BY <2>1 DEF SapoTypes, sapoVars
    <2> QED BY <2>5, <2>6
  <1>3. CASE save_begins(t)
    BY <1>3 DEF save_begins, savepointVars, pageVars, logVars, sapoVars, jobVars,
                PageTypes, LogTypes, SapoTypes
  <1>4. CASE save_fails(t)
    <2>1. /\ sapos' \in [Threads -> Seq(Sapo)]
          /\ \A u \in Threads : Len(sapos'[u]) <= MaxSapos
          /\ OnlyFor(t, sapos, sapos')
      BY <1>4, FailFacts
    <2>2. /\ UNCHANGED <<pageVars, logVars, last_num, blocks, drop, mine, ref, writes, statements>>
          /\ job' = [job EXCEPT ![t] = "run"] /\ todo' = [todo EXCEPT ![t] = {}]
      BY <1>4 DEF save_fails
    <2>3. PageTypes' /\ LogTypes'
      BY <2>2, SamePages
    <2>4. \A u \in Threads : job'[u] = "save" => Len(sapos'[u]) # 0
      BY <2>1, <2>2 DEF SapoTypes, OnlyFor
    <2>5. SapoTypes'
      BY <2>1, <2>2, <2>4 DEF SapoTypes
    <2> QED BY <2>3, <2>5
  <1>5. CASE create_ends(t)
    <2>1. blocks' \in [Threads -> Seq(AtomicBlock)]
      BY <1>5, EndFacts
    <2>2. /\ UNCHANGED <<pageVars, logVars, sapos, last_num, todo, drop, mine, ref, writes,
                         statements>>
          /\ job' = [job EXCEPT ![t] = "run"]
      BY <1>5 DEF create_ends
    <2>3. PageTypes' /\ LogTypes'
      BY <2>2, SamePages
    <2>4. SapoTypes'
      BY <2>1, <2>2 DEF SapoTypes
    <2> QED BY <2>3, <2>4
  <1>6. ASSUME NEW block \in SwapBlocks, drop_block(t, block)
        PROVE  PageTypes' /\ LogTypes' /\ SapoTypes'
    <2>1. /\ drop' = [drop EXCEPT ![t] = @ \ {block}]
          /\ tdata' = [tdata EXCEPT ![block] = Blank]
          /\ UNCHANGED <<fil, released, lock, logVars, sapoVars, job, todo, mine, ref, writes,
                         statements>>
      BY <1>6 DEF drop_block
    <2>2. Blank \in ContentsTo(writes)
      BY DEF Blank, ContentsTo, PageTypes
    <2>3. PageTypes' /\ LogTypes'
      BY <2>1, <2>2 DEF PageTypes, LogTypes, logVars
    <2>4. SapoTypes'
      BY <2>1 DEF SapoTypes, sapoVars
    <2> QED BY <2>3, <2>4
  <1>7. ASSUME NEW name \in Names, sql_stmt_sapo(t, name)
        PROVE  PageTypes' /\ LogTypes' /\ SapoTypes'
    <2> DEFINE i == find_sapo(t, name)
               s == StatementSapos(t, name)
    <2>1. /\ create(t, s, name, FALSE)
          /\ drop' = [drop EXCEPT ![t] = IF i = 0 THEN {} ELSE BlocksOfOne(t, i)]
          /\ UNCHANGED <<vars, pageVars, logVars, last_num, blocks, mine, ref, writes>>
          /\ Statement
      BY <1>7 DEF sql_stmt_sapo, StatementSapos
    <2>2. i \in 0 .. Len(sapos[t]) /\ s \in Seq(Sapo)
      BY StatementFacts
    <2> HIDE DEF s, i
    <2>3. /\ sapos' \in [Threads -> Seq(Sapo)] /\ OnlyFor(t, sapos, sapos')
          /\ \A u \in Threads : Len(sapos'[u]) <= MaxSapos
          /\ Len(sapos'[t]) # 0
          /\ job' \in [Threads -> {"run", "save", "write"}] /\ OnlyFor(t, job, job')
          /\ todo' \in [Threads -> SUBSET Pages]
      <3>1. FALSE \in BOOLEAN /\ name \in Names \cup Numbers
        OBVIOUS
      <3>2. Created(t, s, name, FALSE)
        BY <2>1, <2>2, <3>1, CreateFacts, ZenonT(60)
      <3> QED BY <3>2 DEF Created
    <2>4. i # 0 => BlocksOfOne(t, i) \subseteq SwapBlocks
      <3> SUFFICES ASSUME i # 0 PROVE BlocksOfOne(t, i) \subseteq SwapBlocks
        OBVIOUS
      <3>1. Len(sapos[t]) \in Nat /\ sapos[t] \in Seq(Sapo)
        BY SapoFacts DEF SapoTypes
      <3>2. i \in 1 .. Len(sapos[t])
        BY <2>2, <3>1
      <3> QED BY <3>1, <3>2, SapoFacts, PairFacts DEF BlocksOfOne
    <2>5. drop' \in [Threads -> SUBSET SwapBlocks]
      BY <2>1, <2>4 DEF SapoTypes
    <2>6. \A u \in Threads : job'[u] = "save" => Len(sapos'[u]) # 0
      BY <2>3 DEF OnlyFor, SapoTypes
    <2>7. SapoTypes'
      BY <2>1, <2>3, <2>5, <2>6 DEF SapoTypes
    <2>8. PageTypes' /\ LogTypes'
      BY <2>1, SamePages
    <2> QED BY <2>7, <2>8
  <1>8. CASE begin_atomic(t)
    <2> DEFINE n == get_number(t)
               s == sapos[t]
    <2>1. /\ create(t, s, n, TRUE)
          /\ last_num' = [last_num EXCEPT ![t] = n]
          /\ UNCHANGED <<vars, pageVars, logVars, blocks, drop, mine, ref, writes>>
          /\ Statement
      BY <1>8 DEF begin_atomic
    <2>2. s \in Seq(Sapo) /\ n \in Numbers
      BY GetNumber DEF SapoTypes
    <2> HIDE DEF s, n
    <2>3. /\ sapos' \in [Threads -> Seq(Sapo)] /\ OnlyFor(t, sapos, sapos')
          /\ \A u \in Threads : Len(sapos'[u]) <= MaxSapos
          /\ Len(sapos'[t]) # 0
          /\ job' \in [Threads -> {"run", "save", "write"}] /\ OnlyFor(t, job, job')
          /\ todo' \in [Threads -> SUBSET Pages]
      <3>1. TRUE \in BOOLEAN /\ n \in Names \cup Numbers
        BY <2>2
      <3>2. Created(t, s, n, TRUE)
        BY <2>1, <2>2, <3>1, CreateFacts, ZenonT(60)
      <3> QED BY <3>2 DEF Created
    <2>4. \A u \in Threads : job'[u] = "save" => Len(sapos'[u]) # 0
      BY <2>3 DEF OnlyFor, SapoTypes
    <2>5. last_num' \in [Threads -> 0 .. MaxNumber]
      BY <2>1, <2>2 DEF SapoTypes, Numbers
    <2>6. SapoTypes'
      BY <2>1, <2>3, <2>4, <2>5 DEF SapoTypes
    <2>7. PageTypes' /\ LogTypes'
      BY <2>1, SamePages
    <2> QED BY <2>6, <2>7
  <1>9. ASSUME NEW name \in Names, sql_stmt_rel_sapo(t, name)
        PROVE  PageTypes' /\ LogTypes' /\ SapoTypes'
    <2>1. /\ find_sapo(t, name) # 0 /\ destroy_from(t, find_sapo(t, name))
          /\ UNCHANGED <<vars, pageVars, logVars, last_num, blocks, job, todo, mine, ref, writes>>
          /\ Statement /\ job[t] = "run"
      BY <1>9 DEF sql_stmt_rel_sapo, Ready
    <2>2. find_sapo(t, name) \in Nat \ {0}
      BY <2>1, FoundSapo
    <2>3. SapoTypes'
      <3>1. blocks' \in [Threads -> Seq(AtomicBlock)]
        BY <2>1 DEF SapoTypes
      <3> QED BY <2>1, <2>2, <3>1, DestroyTypes
    <2>4. PageTypes' /\ LogTypes'
      BY <2>1, SamePages
    <2> QED BY <2>3, <2>4
  <1>10. ASSUME NEW name \in Names, rollback_to_savepoint(t, name)
         PROVE  PageTypes' /\ LogTypes' /\ SapoTypes'
    <2> DEFINE i == find_sapo(t, name)
    <2>1. /\ i # 0 /\ destroy_from(t, i + 1) /\ rollback(t, i, sapos[t][i].mark)
          /\ UNCHANGED <<vars, pageVars, last_num, blocks, job, todo, ref, writes>>
          /\ Statement /\ job[t] = "run"
      BY <1>10 DEF rollback_to_savepoint, Ready
    <2>2. i \in 1 .. Len(sapos[t]) /\ i + 1 \in Nat \ {0} /\ sapos[t][i].mark \in Changes
      BY <2>1, FoundSapo
    <2> HIDE DEF i
    <2>3. SapoTypes'
      <3>1. blocks' \in [Threads -> Seq(AtomicBlock)]
        BY <2>1 DEF SapoTypes
      <3> QED BY <2>1, <2>2, <3>1, DestroyTypes
    <2>4. LogTypes'
      BY <2>1, <2>2, RollbackTypes
    <2>5. PageTypes'
      BY <2>1, SamePages
    <2> QED BY <2>3, <2>4, <2>5
  <1>11. CASE undo_block(t)
    <2> DEFINE i == Innermost(t).ind
               goal == Innermost(t).mark
    <2>1. /\ i \in DOMAIN sapos[t] /\ rollback(t, i, goal)
          /\ UNCHANGED <<vars, pageVars, last_num, blocks, jobVars, ref, writes>>
          /\ Statement /\ job[t] = "run" /\ blocks[t] # << >>
      BY <1>11 DEF undo_block, Ready
    <2>2. i \in 1 .. Len(sapos[t]) /\ goal \in Changes
      BY <2>1, InnermostFacts, SapoFacts DEF SapoTypes
    <2> HIDE DEF i, goal
    <2>3. LogTypes'
      BY <2>1, <2>2, RollbackTypes
    <2>4. PageTypes'
      BY <2>1, SamePages
    <2>5. /\ sapos' \in [Threads -> Seq(Sapo)]
          /\ \A u \in Threads : Len(sapos'[u]) = Len(sapos[u])
      BY <1>11, UndoFacts
    <2>6. SapoTypes'
      BY <2>1, <2>5 DEF SapoTypes, jobVars
    <2> QED BY <2>3, <2>4, <2>6
  <1>12. CASE end_atomic(t)
    <2> DEFINE i == Innermost(t).ind
    <2>1. /\ destroy_from(t, i) /\ job[t] = "run" /\ blocks[t] # << >>
          /\ UNCHANGED <<vars, pageVars, logVars, last_num, job, todo, mine, ref, writes,
                         statements>>
      BY <1>12 DEF end_atomic, Ready
    <2>2. i \in Nat \ {0}
      BY <2>1, InnermostFacts
    <2>3. blocks' \in [Threads -> Seq(AtomicBlock)]
      BY <1>12, LeftBlock
    <2> HIDE DEF i
    <2>4. SapoTypes'
      BY <2>1, <2>2, <2>3, DestroyTypes
    <2>5. PageTypes' /\ LogTypes'
      BY <2>1, SamePages
    <2> QED BY <2>4, <2>5
  <1>13. CASE roll_back(t)
    <2>1. /\ Terminated(t) /\ destroy_from(t, 1) /\ Statement /\ job[t] = "run"
          /\ UNCHANGED <<vars, fil, tdata, released, last_num, blocks, job, todo, ref, writes>>
      BY <1>13 DEF roll_back, Terminated, MayTerminate, Ready
    <2>2. LogTypes' /\ lock' \in [Pages -> [Records -> Threads \cup {NoThread}]]
      BY <2>1, TerminatedTypes
    <2>3. statements' \in 0 .. MaxStatements
      BY <2>1, SavepointConstants DEF PageTypes, Statement
    <2>4. PageTypes'
      BY <2>1, <2>2, <2>3 DEF PageTypes
    <2>5. SapoTypes'
      <3>1. blocks' \in [Threads -> Seq(AtomicBlock)]
        BY <2>1 DEF SapoTypes
      <3> QED BY <2>1, <3>1, DestroyTypes
    <2> QED BY <2>2, <2>4, <2>5
  <1>14. CASE commit(t)
    <2>1. /\ job' = [job EXCEPT ![t] = "write"] /\ todo' = [todo EXCEPT ![t] = log[t]]
          /\ UNCHANGED <<pageVars, logVars, sapoVars, drop, mine, ref, writes>>
          /\ Statement
      BY <1>14 DEF commit
    <2>2. PageTypes' /\ LogTypes'
      BY <2>1, SamePages
    <2>3. SapoTypes'
      BY <2>1 DEF SapoTypes, LogTypes, sapoVars
    <2> QED BY <2>2, <2>3
  <1>15. CASE commit_ends(t)
    <2>1. /\ Terminated(t) /\ destroy_from(t, 1) /\ job[t] = "write"
          /\ job' = [job EXCEPT ![t] = "run"]
          /\ released' = released \cup freed[t]
          /\ ref' = [p \in Pages |-> [r \in Records |->
                 IF mine[t][p][r] \in Values THEN mine[t][p][r] ELSE ref[p][r]]]
          /\ UNCHANGED <<fil, tdata, last_num, blocks, todo, writes, statements>>
      BY <1>15 DEF commit_ends, Terminated
    <2>2. LogTypes' /\ lock' \in [Pages -> [Records -> Threads \cup {NoThread}]]
      BY <2>1, TerminatedTypes
    <2>3. ref' \in [Pages -> Contents]
      BY <2>1 DEF PageTypes, Contents
    <2>4. released' \subseteq FullPages
      BY <2>1 DEF PageTypes, LogTypes
    <2>5. PageTypes'
      BY <2>1, <2>2, <2>3, <2>4 DEF PageTypes
    <2>6. SapoTypes'
      <3>1. blocks' \in [Threads -> Seq(AtomicBlock)]
        BY <2>1 DEF SapoTypes
      <3>2. job[t] # "save" /\ 1 \in Nat \ {0}
        BY <2>1
      <3> QED BY <2>1, <3>1, <3>2, DestroyTypes
    <2> QED BY <2>2, <2>5, <2>6
  <1> HIDE DEF Types
  <1> QED BY <1>1, <1>2, <1>3, <1>4, <1>5, <1>6, <1>7, <1>8, <1>9, <1>10, <1>11, <1>12,
             <1>13, <1>14, <1>15 DEF ClientStep

\* At the start there are no savepoints, and all pages are blank.
LEMMA TypesInit == SavepointsInit => Types
  <1> SUFFICES ASSUME SavepointsInit PROVE Types
    OBVIOUS
  <1>1. TransactorInv
    BY InitInv DEF SavepointsInit
  <1>2. writes = 0 /\ statements = 0 /\ MaxWrites \in Nat /\ MaxStatements \in Nat
    BY SavepointConstants DEF SavepointsInit
  <1>3. Blank \in ContentsTo(0) /\ Blank \in Contents
    BY <1>2 DEF Blank, ContentsTo, Contents, Values
  <1>4. PageTypes
    BY <1>2, <1>3 DEF SavepointsInit, PageTypes
  <1>5. LogTypes
    BY <1>2, <1>3, MarkFacts DEF SavepointsInit, LogTypes
  <1>6. SapoTypes
    <2>1. << >> \in Seq(Sapo) /\ << >> \in Seq(AtomicBlock) /\ Len(<< >>) = 0
      BY EmptySeq
    <2>2. sapos = [t \in Threads |-> << >>] /\ blocks = [t \in Threads |-> << >>]
      BY DEF SavepointsInit
    <2>3. MaxSapos \in Nat /\ MaxNumber \in Nat
      BY SavepointConstants
    <2>4. /\ sapos \in [Threads -> Seq(Sapo)] /\ blocks \in [Threads -> Seq(AtomicBlock)]
          /\ \A t \in Threads : Len(sapos[t]) <= MaxSapos
      BY <2>1, <2>2, <2>3
    <2>5. /\ last_num \in [Threads -> 0 .. MaxNumber]
          /\ job \in [Threads -> {"run", "save", "write"}]
          /\ \A t \in Threads : job[t] = "run"
          /\ todo \in [Threads -> SUBSET Pages]
          /\ drop \in [Threads -> SUBSET SwapBlocks]
      BY <2>3 DEF SavepointsInit
    <2> QED BY <2>4, <2>5 DEF SapoTypes
  <1> QED BY <1>1, <1>4, <1>5, <1>6 DEF Types

\* The types are an invariant.
LEMMA TypesNext == Types /\ [SavepointsNext]_allVars => Types'
  <1> SUFFICES ASSUME Types, [SavepointsNext]_allVars PROVE Types'
    OBVIOUS
  <1>1. TransactorInv'
    BY StepOfTransactor, NextInv DEF Types
  <1>2. ASSUME NEW t \in Threads, ClientStep(t)
        PROVE  PageTypes' /\ LogTypes' /\ SapoTypes'
    BY <1>2, TypesOfClient
  <1>3. ASSUME UNCHANGED allVars
        PROVE  PageTypes' /\ LogTypes' /\ SapoTypes'
    <2>1. /\ UNCHANGED <<fil, tdata, released, lock, log, copy, chngmap, freed>>
          /\ UNCHANGED <<sapos, last_num, blocks, job, todo, drop>>
          /\ UNCHANGED <<mine, ref, writes, statements>>
      BY <1>3 DEF allVars, savepointVars, pageVars, logVars, sapoVars, jobVars
    <2>2. PageTypes'
      BY <2>1 DEF Types, PageTypes
    <2>3. LogTypes'
      BY <2>1 DEF Types, LogTypes
    <2>4. SapoTypes'
      BY <2>1 DEF Types, SapoTypes
    <2> QED BY <2>2, <2>3, <2>4
  <1>4. (\E t \in Threads : ClientStep(t)) \/ UNCHANGED allVars
    BY StepOfClient
  <1>5. PageTypes' /\ LogTypes' /\ SapoTypes'
    BY <1>2, <1>3, <1>4
  <1> QED BY <1>1, <1>5 DEF Types

\* They imply the types the runs check.
LEMMA TypesImplied == Types => SavepointsTypeOK
  <1> SUFFICES ASSUME Types PROVE SavepointsTypeOK
    OBVIOUS
  <1>1. TypeOK
    BY DEF Types, TransactorInv
  <1>2. writes \in Nat /\ writes <= MaxWrites /\ writes \in 0 .. MaxWrites
    BY SavepointConstants DEF Types, PageTypes
  <1>3. ContentsTo(writes) \subseteq Contents
    BY <1>2, ContentsFacts
  <1>4. /\ fil \in [Pages -> Contents] /\ tdata \in [SwapBlocks -> Contents]
        /\ copy \in [Threads -> [Pages -> Contents]]
    BY <1>3 DEF Types, PageTypes, LogTypes
  <1>5. ASSUME NEW t \in Threads
        PROVE  /\ Len(sapos[t]) <= MaxSapos
               /\ \A i \in DOMAIN sapos[t] :
                     /\ sapos[t][i].id \in Names \cup Numbers
                     /\ DOMAIN sapos[t][i].pairs \subseteq Pages
                     /\ sapos[t][i].mark \in Changes
               /\ \A i \in DOMAIN blocks[t] : blocks[t][i].mark \in Changes
    <2>1. Len(sapos[t]) <= MaxSapos /\ sapos[t] \in Seq(Sapo) /\ blocks[t] \in Seq(AtomicBlock)
      BY DEF Types, SapoTypes
    <2>2. \A i \in DOMAIN sapos[t] :
             /\ sapos[t][i].id \in Names \cup Numbers
             /\ sapos[t][i].pairs \in PairMaps
             /\ sapos[t][i].mark \in Changes
      BY <2>1, SapoFacts
    <2>3. \A i \in DOMAIN blocks[t] : blocks[t][i] \in AtomicBlock
      BY <2>1, SeqFacts
    <2>4. \A i \in DOMAIN blocks[t] : blocks[t][i].mark \in Changes
      BY <2>3 DEF AtomicBlock
    <2> QED BY <2>1, <2>2, <2>4, PairFacts
  <1> QED BY <1>1, <1>2, <1>4, <1>5 DEF SavepointsTypeOK, Types, PageTypes, LogTypes, SapoTypes

\* Types of the savepoints, the private pages and the swap blocks.  The
\* number that get_number gives is never one in use, since MAX_SAPOS is less
\* than 0x7fff, and no statement leaves a page without a copy it needs.
THEOREM SavepointTypesCorrect == SavepointsSpec => []SavepointsTypeOK
<1>1. SavepointsInit => Types
  BY TypesInit
<1>2. Types /\ [SavepointsNext]_allVars => Types'
  BY TypesNext
<1> QED BY <1>1, <1>2, TypesImplied, PTL DEF SavepointsSpec

-----------------------------------------------------------------------------
(* Clients do not disturb each other *)

\* A client changes its own log and its own savepoints only.
OwnParts(t) ==
    /\ OnlyFor(t, log, log') /\ OnlyFor(t, chngmap, chngmap') /\ OnlyFor(t, freed, freed')
    /\ OnlyFor(t, mine, mine')
    /\ OnlyFor(t, sapos, sapos') /\ OnlyFor(t, blocks, blocks')
    /\ OnlyFor(t, job, job') /\ OnlyFor(t, todo, todo') /\ OnlyFor(t, drop, drop')
    /\ OnlyFor(t, held, held')


\* Other clients' blocks of the transaction file.
LEMMA HeldOnly ==
  ASSUME Types, NEW t \in Threads,
         \/ UNCHANGED vars \/ get_swap_block(t) \/ find_swap_block(t) \/ no_swap_block(t)
         \/ \E block \in SwapBlocks : free_swap_block(t, block)
         \/ save_tjc_block(t) \/ free_tjc_blocks(t)
  PROVE  OnlyFor(t, held, held')
  <1>1. held \in [Threads -> SUBSET Blocks]
    BY DEF Types, TransactorInv, TypeOK
  <1>2. held' = held \/ \E S : held' = [held EXCEPT ![t] = S]
    <2>1. CASE UNCHANGED vars \/ get_swap_block(t) \/ no_swap_block(t)
      BY <2>1 DEF vars, get_swap_block, no_swap_block
    <2>2. CASE find_swap_block(t)
      BY <2>2 DEF find_swap_block
    <2>3. CASE \E block \in SwapBlocks : free_swap_block(t, block)
      BY <2>3 DEF free_swap_block
    <2>4. CASE save_tjc_block(t)
      BY <2>4 DEF save_tjc_block
    <2>5. CASE free_tjc_blocks(t)
      BY <2>5 DEF free_tjc_blocks
    <2> QED BY <2>1, <2>2, <2>3, <2>4, <2>5
  <1> QED BY <1>1, <1>2 DEF OnlyFor

\* rollback and the end of a transaction change the client's own log.
LEMMA LogOnly ==
  ASSUME Types, NEW t \in Threads,
         \/ \E i \in Nat, goal \in Changes : rollback(t, i, goal)
         \/ Terminated(t)
  PROVE  /\ OnlyFor(t, log, log') /\ OnlyFor(t, chngmap, chngmap')
         /\ OnlyFor(t, freed, freed') /\ OnlyFor(t, mine, mine')
         /\ OnlyFor(t, copy, copy')
  <1>1. CASE Terminated(t)
    BY <1>1 DEF Terminated, OnlyFor, Types, LogTypes
  <1>2. ASSUME NEW i \in Nat, NEW goal \in Changes, rollback(t, i, goal)
        PROVE  /\ OnlyFor(t, log, log') /\ OnlyFor(t, chngmap, chngmap')
               /\ OnlyFor(t, freed, freed') /\ OnlyFor(t, mine, mine')
               /\ OnlyFor(t, copy, copy')
    BY <1>2 DEF rollback, OnlyFor, Types, LogTypes
  <1> QED BY <1>1, <1>2

\* The parts of actions on savepoints.
LEMMA SaposOnly ==
  ASSUME Types, NEW t \in Threads, NEW i \in Nat, destroy_from(t, i)
  PROVE  OnlyFor(t, sapos, sapos') /\ OnlyFor(t, drop, drop')
  BY DEF destroy_from, OnlyFor, Types, SapoTypes

\* Every step of a client leaves the parts of the others alone.
LEMMA OthersKept ==
  ASSUME Types, NEW t \in Threads, ClientStep(t)
  PROVE  OwnParts(t)
  <1> USE DEF OwnParts
  <1>1. ASSUME NEW p \in Pages, fix_priv_page(t, p) PROVE OwnParts(t)
    <2>1. OnlyFor(t, held, held')
      BY <1>1, HeldOnly DEF fix_priv_page
    <2> QED BY <1>1, <2>1 DEF fix_priv_page, OnlyFor, sapoVars, jobVars, Types, LogTypes
  <1>2. ASSUME NEW p \in Pages, NEW S, change(t, p, S) PROVE OwnParts(t)
    <2>1. OnlyFor(t, held, held')
      BY <1>2, HeldOnly DEF change
    <2>2. /\ log' = [log EXCEPT ![t] = @ \cup {p}]
          /\ chngmap' = [chngmap EXCEPT ![t][p] = @ \cup S]
          /\ \E x : mine' = [mine EXCEPT ![t][p] = x]
          /\ UNCHANGED <<freed, sapoVars, jobVars>>
      BY <1>2 DEF change
    <2> QED BY <2>1, <2>2 DEF OnlyFor, sapoVars, jobVars, Types, LogTypes
  <1>3. ASSUME NEW p \in Pages, page_changed(t, p) \/ \E r \in Records : rec_changed(t, p, r)
        PROVE  OwnParts(t)
    BY <1>2, <1>3 DEF page_changed, rec_changed
  <1>4. ASSUME NEW p \in Pages, free_block(t, p) PROVE OwnParts(t)
    <2>1. OnlyFor(t, held, held')
      BY <1>4, HeldOnly DEF free_block
    <2> QED BY <1>4, <2>1 DEF free_block, OnlyFor, sapoVars, jobVars, Types, LogTypes
  <1>5. ASSUME NEW p \in Pages, save_block(t, p) PROVE OwnParts(t)
    <2>1. OnlyFor(t, held, held')
      BY <1>5, HeldOnly DEF save_block
    <2>2. OnlyFor(t, sapos, sapos')
      <3>1. PICK b \in SwapBlocks : Saved(t, p, b)
        BY <1>5, SaveFacts
      <3> QED BY <3>1 DEF Saved
    <2> QED BY <1>5, <2>1, <2>2 DEF save_block, OnlyFor, logVars, Types, SapoTypes
  <1>6. ASSUME NEW p \in Pages, wr_changes(t, p) PROVE OwnParts(t)
    <2>1. OnlyFor(t, held, held')
      BY <1>6, HeldOnly DEF wr_changes
    <2> QED BY <1>6, <2>1 DEF wr_changes, OnlyFor, sapoVars, Types, SapoTypes
  <1>7. CASE save_begins(t)
    <2>1. OnlyFor(t, held, held')
      BY <1>7, HeldOnly DEF save_begins
    <2> QED BY <1>7, <2>1 DEF save_begins, OnlyFor, savepointVars, logVars, sapoVars, jobVars
  <1>8. CASE save_fails(t)
    <2>1. OnlyFor(t, held, held')
      BY <1>8, HeldOnly DEF save_fails
    <2> QED BY <1>8, <2>1 DEF save_fails, OnlyFor, logVars, Types, SapoTypes
  <1>9. CASE create_ends(t)
    <2>1. OnlyFor(t, held, held')
      BY <1>9, HeldOnly DEF create_ends
    <2>2. OnlyFor(t, blocks, blocks')
      BY <1>9, EndFacts DEF Types
    <2> QED BY <1>9, <2>1, <2>2 DEF create_ends, OnlyFor, logVars, Types, SapoTypes
  <1>10. ASSUME NEW block \in SwapBlocks, drop_block(t, block) PROVE OwnParts(t)
    <2>1. OnlyFor(t, held, held')
      BY <1>10, HeldOnly DEF drop_block
    <2> QED BY <1>10, <2>1 DEF drop_block, OnlyFor, logVars, sapoVars, Types, SapoTypes
  <1>11. ASSUME NEW name \in Names, sql_stmt_sapo(t, name) PROVE OwnParts(t)
    <2>1. OnlyFor(t, held, held')
      BY <1>11, HeldOnly DEF sql_stmt_sapo
    <2>2. \E s : create(t, s, name, FALSE)
      BY <1>11 DEF sql_stmt_sapo
    <2>3. OnlyFor(t, sapos, sapos') /\ OnlyFor(t, job, job') /\ OnlyFor(t, todo, todo')
      BY <2>2 DEF create, OnlyFor, Types, SapoTypes
    <2>4. OnlyFor(t, drop, drop')
      BY <1>11 DEF sql_stmt_sapo, OnlyFor, Types, SapoTypes
    <2> QED BY <1>11, <2>1, <2>3, <2>4 DEF sql_stmt_sapo, OnlyFor, logVars
  <1>12. ASSUME NEW name \in Names, sql_stmt_rel_sapo(t, name) PROVE OwnParts(t)
    <2>1. OnlyFor(t, held, held')
      BY <1>12, HeldOnly DEF sql_stmt_rel_sapo
    <2>2. OnlyFor(t, sapos, sapos') /\ OnlyFor(t, drop, drop')
      BY <1>12, FoundSapo, SaposOnly DEF sql_stmt_rel_sapo, Types
    <2> QED BY <1>12, <2>1, <2>2 DEF sql_stmt_rel_sapo, OnlyFor, logVars
  <1>13. ASSUME NEW name \in Names, rollback_to_savepoint(t, name) PROVE OwnParts(t)
    <2> DEFINE i == find_sapo(t, name)
    <2>1. OnlyFor(t, held, held')
      BY <1>13, HeldOnly DEF rollback_to_savepoint
    <2>2. /\ i # 0 /\ rollback(t, i, sapos[t][i].mark) /\ destroy_from(t, i + 1)
          /\ UNCHANGED <<vars, pageVars, last_num, blocks, job, todo, ref, writes>>
      BY <1>13 DEF rollback_to_savepoint
    <2>3. i \in Nat /\ i + 1 \in Nat /\ sapos[t][i].mark \in Changes
      BY <2>2, FoundSapo DEF Types
    <2> HIDE DEF i
    <2>4. OnlyFor(t, sapos, sapos') /\ OnlyFor(t, drop, drop')
      BY <2>2, <2>3, SaposOnly
    <2>5. /\ OnlyFor(t, log, log') /\ OnlyFor(t, chngmap, chngmap')
          /\ OnlyFor(t, freed, freed') /\ OnlyFor(t, mine, mine')
      BY <2>2, <2>3, LogOnly
    <2> QED BY <2>1, <2>2, <2>4, <2>5 DEF OnlyFor
  <1>14. CASE begin_atomic(t)
    <2>1. OnlyFor(t, held, held')
      BY <1>14, HeldOnly DEF begin_atomic
    <2>2. \E s, n : create(t, s, n, TRUE)
      BY <1>14 DEF begin_atomic
    <2>3. OnlyFor(t, sapos, sapos') /\ OnlyFor(t, job, job') /\ OnlyFor(t, todo, todo')
      BY <2>2 DEF create, OnlyFor, Types, SapoTypes
    <2> QED BY <1>14, <2>1, <2>3 DEF begin_atomic, OnlyFor, logVars
  <1>15. CASE undo_block(t)
    <2>1. OnlyFor(t, held, held')
      BY <1>15, HeldOnly DEF undo_block
    <2>2. OnlyFor(t, sapos, sapos')
      BY <1>15, UndoFacts DEF Types
    <2>3. /\ Innermost(t).ind \in Nat /\ Innermost(t).mark \in Changes
          /\ rollback(t, Innermost(t).ind, Innermost(t).mark)
      BY <1>15, InnermostFacts DEF undo_block, Types
    <2>4. /\ OnlyFor(t, log, log') /\ OnlyFor(t, chngmap, chngmap')
          /\ OnlyFor(t, freed, freed') /\ OnlyFor(t, mine, mine')
      BY <2>3, LogOnly
    <2> QED BY <1>15, <2>1, <2>2, <2>4 DEF undo_block, OnlyFor, jobVars
  <1>16. CASE end_atomic(t)
    <2>1. OnlyFor(t, held, held')
      BY <1>16, HeldOnly DEF end_atomic
    <2>2. OnlyFor(t, blocks, blocks')
      BY <1>16, LeftBlock DEF Types
    <2>3. Innermost(t).ind \in Nat /\ destroy_from(t, Innermost(t).ind)
      BY <1>16, InnermostFacts DEF end_atomic, Types
    <2>4. OnlyFor(t, sapos, sapos') /\ OnlyFor(t, drop, drop')
      BY <2>3, SaposOnly
    <2> QED BY <1>16, <2>1, <2>2, <2>4 DEF end_atomic, OnlyFor, logVars
  <1>17. CASE roll_back(t)
    <2>1. OnlyFor(t, held, held')
      BY <1>17, HeldOnly DEF roll_back
    <2>2. Terminated(t) /\ destroy_from(t, 1)
      BY <1>17 DEF roll_back, Terminated
    <2>3. OnlyFor(t, sapos, sapos') /\ OnlyFor(t, drop, drop')
      BY <2>2, SaposOnly
    <2>4. /\ OnlyFor(t, log, log') /\ OnlyFor(t, chngmap, chngmap')
          /\ OnlyFor(t, freed, freed') /\ OnlyFor(t, mine, mine')
      BY <2>2, LogOnly
    <2> QED BY <1>17, <2>1, <2>3, <2>4 DEF roll_back, OnlyFor
  <1>18. CASE commit(t)
    <2>1. OnlyFor(t, held, held')
      BY <1>18, HeldOnly DEF commit
    <2> QED BY <1>18, <2>1 DEF commit, OnlyFor, logVars, sapoVars, Types, SapoTypes
  <1>19. CASE commit_ends(t)
    <2>1. OnlyFor(t, held, held')
      BY <1>19, HeldOnly DEF commit_ends
    <2>2. Terminated(t) /\ destroy_from(t, 1)
      BY <1>19 DEF commit_ends, Terminated
    <2>3. OnlyFor(t, sapos, sapos') /\ OnlyFor(t, drop, drop')
      BY <2>2, SaposOnly
    <2>4. /\ OnlyFor(t, log, log') /\ OnlyFor(t, chngmap, chngmap')
          /\ OnlyFor(t, freed, freed') /\ OnlyFor(t, mine, mine')
      BY <2>2, LogOnly
    <2>5. OnlyFor(t, job, job') /\ OnlyFor(t, todo, todo') /\ OnlyFor(t, blocks, blocks')
      BY <1>19 DEF commit_ends, OnlyFor, Types, SapoTypes
    <2> QED BY <2>1, <2>3, <2>4, <2>5
  <1> HIDE DEF OwnParts
  <1> QED BY <1>1, <1>3, <1>4, <1>5, <1>6, <1>7, <1>8, <1>9, <1>10, <1>11, <1>12, <1>13,
             <1>14, <1>15, <1>16, <1>17, <1>18, <1>19 DEF ClientStep

-----------------------------------------------------------------------------
(* The copies of savepoints stay in blocks of their own *)

\* The copies of the savepoints s are in blocks of h, each in its own, and
\* none is in a block of d, which destroy will free.
HeldBy(s, d, h) ==
    /\ d \subseteq h
    /\ \A i \in 1 .. Len(s) : \A p \in DOMAIN s[i].pairs :
          s[i].pairs[p] \in h /\ s[i].pairs[p] \notin d
    /\ \A i, j \in 1 .. Len(s) :
          \A p \in DOMAIN s[i].pairs : \A q \in DOMAIN s[j].pairs :
             s[i].pairs[p] = s[j].pairs[q] => i = j /\ p = q

HeldInv ==
    \A t \in Threads : HeldBy(sapos[t], drop[t], held[t])

WriteInv ==
    \A t \in Threads : job[t] = "write" => drop[t] = {}

\* The savepoints s1 are some of s, f has their places there; the blocks of d1
\* were to be freed before or are of savepoints of s that are not among them.
Remain(s, s1, f) ==
    /\ f \in [1 .. Len(s1) -> 1 .. Len(s)]
    /\ \A i, j \in 1 .. Len(s1) : f[i] = f[j] => i = j
    /\ \A i \in 1 .. Len(s1) : s1[i].pairs = s[f[i]].pairs

OfOthers(s, s1, f, d, d1) ==
    \A b \in d1 : b \in d \/ \E k \in 1 .. Len(s) : \E p \in DOMAIN s[k].pairs :
                               b = s[k].pairs[p] /\ \A i \in 1 .. Len(s1) : f[i] # k

\* Some savepoints remain; the blocks of the other ones are to be freed.
LEMMA SomeRemain ==
  ASSUME NEW s, NEW s1, NEW d, NEW d1, NEW h, HeldBy(s, d, h),
         NEW f, Remain(s, s1, f), OfOthers(s, s1, f, d, d1)
  PROVE  HeldBy(s1, d1, h)
  <1> USE DEF Remain, OfOthers
  <1>1. d1 \subseteq h
    BY DEF HeldBy
  <1>2. ASSUME NEW i \in 1 .. Len(s1), NEW p \in DOMAIN s1[i].pairs
        PROVE  s1[i].pairs[p] \in h /\ s1[i].pairs[p] \notin d1
    <2>1. /\ f[i] \in 1 .. Len(s) /\ p \in DOMAIN s[f[i]].pairs
          /\ s1[i].pairs[p] = s[f[i]].pairs[p]
      OBVIOUS
    <2>2. s1[i].pairs[p] \in h /\ s1[i].pairs[p] \notin d
      BY <2>1 DEF HeldBy
    <2>3. ASSUME NEW k \in 1 .. Len(s), NEW q \in DOMAIN s[k].pairs,
                 s1[i].pairs[p] = s[k].pairs[q]
          PROVE  f[i] = k
      BY <2>1, <2>3 DEF HeldBy
    <2>4. ASSUME s1[i].pairs[p] \in d1 PROVE FALSE
      <3>1. PICK k \in 1 .. Len(s) : \E q \in DOMAIN s[k].pairs :
               s1[i].pairs[p] = s[k].pairs[q] /\ \A j \in 1 .. Len(s1) : f[j] # k
        BY <2>2, <2>4
      <3> QED BY <2>3, <3>1
    <2> QED BY <2>2, <2>4
  <1>3. ASSUME NEW i \in 1 .. Len(s1), NEW j \in 1 .. Len(s1),
               NEW p \in DOMAIN s1[i].pairs, NEW q \in DOMAIN s1[j].pairs,
               s1[i].pairs[p] = s1[j].pairs[q]
        PROVE  i = j /\ p = q
    <2>1. /\ f[i] \in 1 .. Len(s) /\ f[j] \in 1 .. Len(s)
          /\ p \in DOMAIN s[f[i]].pairs /\ q \in DOMAIN s[f[j]].pairs
          /\ s[f[i]].pairs[p] = s[f[j]].pairs[q]
      BY <1>3
    <2>2. f[i] = f[j] /\ p = q
      BY <2>1 DEF HeldBy
    <2> QED BY <2>2
  <1> QED BY <1>1, <1>2, <1>3 DEF HeldBy

\* The first savepoints remain.
LEMMA FirstRemain ==
  ASSUME NEW s \in Seq(Sapo), NEW s1, NEW n \in 0 .. Len(s), FirstOf(s, n, s1),
         NEW d, NEW d1, NEW h, HeldBy(s, d, h),
         \A b \in d1 : b \in d \/ \E k \in n + 1 .. Len(s) : \E p \in DOMAIN s[k].pairs :
                                    b = s[k].pairs[p]
  PROVE  HeldBy(s1, d1, h)
  <1> DEFINE f == [k \in 1 .. Len(s1) |-> k]
  <1>1. s1 \in Seq(Sapo) /\ Len(s1) = n /\ \A k \in 1 .. n : s1[k] = s[k]
    BY DEF FirstOf
  <1>2. Len(s) \in Nat
    BY SapoFacts
  <1>3. f \in [1 .. Len(s1) -> 1 .. Len(s)] /\ \A k \in 1 .. Len(s1) : f[k] = k
    BY <1>1, <1>2
  <1> HIDE DEF f
  <1>4. \A i, j \in 1 .. Len(s1) : f[i] = f[j] => i = j
    BY <1>3
  <1>5. \A i \in 1 .. Len(s1) : s1[i].pairs = s[f[i]].pairs
    BY <1>1, <1>3
  <1>6. ASSUME NEW b \in d1
        PROVE  b \in d \/ \E k \in 1 .. Len(s) : \E p \in DOMAIN s[k].pairs :
                                    b = s[k].pairs[p] /\ \A i \in 1 .. Len(s1) : f[i] # k
    <2>1. ASSUME NEW k \in n + 1 .. Len(s), NEW p \in DOMAIN s[k].pairs, b = s[k].pairs[p]
          PROVE  \E l \in 1 .. Len(s) : \E q \in DOMAIN s[l].pairs :
                                    b = s[l].pairs[q] /\ \A i \in 1 .. Len(s1) : f[i] # l
      <3>1. k \in 1 .. Len(s) /\ \A i \in 1 .. Len(s1) : f[i] # k
        BY <1>1, <1>2, <1>3
      <3> QED BY <2>1, <3>1
    <2> QED BY <2>1
  <1>7. Remain(s, s1, f)
    BY <1>3, <1>4, <1>5 DEF Remain
  <1>8. OfOthers(s, s1, f, d, d1)
    BY <1>6 DEF OfOthers
  <1> QED BY <1>7, <1>8, SomeRemain

\* A savepoint without copies needs no block.
LEMMA AddedHeld ==
  ASSUME NEW s \in Seq(Sapo), NEW s1, AddedTo(s, s1), s1[Len(s) + 1].pairs = << >>,
         NEW d, NEW h, HeldBy(s, d, h)
  PROVE  HeldBy(s1, d, h)
  <1>1. /\ s1 \in Seq(Sapo) /\ Len(s1) = Len(s) + 1 /\ Len(s) \in Nat
        /\ \A k \in 1 .. Len(s) : s1[k] = s[k]
    BY SapoFacts DEF AddedTo
  <1>2. ASSUME NEW k \in 1 .. Len(s1), NEW p \in DOMAIN s1[k].pairs
        PROVE  k \in 1 .. Len(s) /\ s1[k] = s[k]
    <2>1. k # Len(s) + 1
      BY NoPairs
    <2>2. k \in 1 .. Len(s)
      BY <1>1, <2>1
    <2> QED BY <1>1, <2>2
  <1>3. d \subseteq h
    BY DEF HeldBy
  <1>4. ASSUME NEW i \in 1 .. Len(s1), NEW p \in DOMAIN s1[i].pairs
        PROVE  s1[i].pairs[p] \in h /\ s1[i].pairs[p] \notin d
    BY <1>2 DEF HeldBy
  <1>5. ASSUME NEW i \in 1 .. Len(s1), NEW j \in 1 .. Len(s1),
               NEW p \in DOMAIN s1[i].pairs, NEW q \in DOMAIN s1[j].pairs,
               s1[i].pairs[p] = s1[j].pairs[q]
        PROVE  i = j /\ p = q
    <2>1. /\ i \in 1 .. Len(s) /\ j \in 1 .. Len(s)
          /\ s1[i] = s[i] /\ s1[j] = s[j]
      BY <1>2
    <2> QED BY <1>5, <2>1 DEF HeldBy
  <1> QED BY <1>3, <1>4, <1>5 DEF HeldBy

\* A new block for a copy of the last savepoint.
LEMMA SavedHeld ==
  ASSUME Types, HeldInv, NEW t \in Threads, NEW p \in Pages, NEW b \in SwapBlocks,
         Saved(t, p, b), drop' = drop
  PROVE  HeldBy(sapos'[t], drop'[t], held'[t])
  <1> DEFINE s == sapos[t]
             s1 == sapos'[t]
             n == Len(sapos[t])
  <1>1. /\ held'[t] = held[t] \cup {b} /\ b \notin held[t]
        /\ Len(s1) = n /\ n \in 1 .. n
        /\ \A k \in 1 .. n : k # n => s1[k] = s[k]
        /\ DOMAIN s1[n].pairs = DOMAIN s[n].pairs \cup {p}
        /\ s1[n].pairs[p] = b
        /\ \A q \in DOMAIN s[n].pairs : q # p => s1[n].pairs[q] = s[n].pairs[q]
    BY DEF Saved, Types, TransactorInv, TypeOK
  <1>2. HeldBy(s, drop[t], held[t])
    BY DEF HeldInv
  <1> HIDE DEF s, s1, n
  <1>3. n = Len(s)
    BY DEF n, s
  <1>4. ASSUME NEW i \in 1 .. Len(s1), NEW q \in DOMAIN s1[i].pairs
        PROVE  \/ i = n /\ q = p /\ s1[i].pairs[q] = b
               \/ /\ i \in 1 .. Len(s) /\ q \in DOMAIN s[i].pairs
                  /\ s1[i].pairs[q] = s[i].pairs[q]
    BY <1>1, <1>3
  <1>5. drop[t] \subseteq held[t]
    BY <1>2 DEF HeldBy
  <1>6. ASSUME NEW i \in 1 .. Len(s1), NEW q \in DOMAIN s1[i].pairs
        PROVE  s1[i].pairs[q] \in held'[t] /\ s1[i].pairs[q] \notin drop[t]
    <2>1. CASE i = n /\ q = p /\ s1[i].pairs[q] = b
      BY <1>1, <1>5, <2>1
    <2>2. CASE i \in 1 .. Len(s) /\ q \in DOMAIN s[i].pairs /\ s1[i].pairs[q] = s[i].pairs[q]
      BY <1>1, <1>2, <2>2 DEF HeldBy
    <2> QED BY <1>4, <2>1, <2>2
  <1>7. ASSUME NEW i \in 1 .. Len(s), NEW q \in DOMAIN s[i].pairs
        PROVE  s[i].pairs[q] # b
    BY <1>1, <1>2 DEF HeldBy
  <1>8. ASSUME NEW i \in 1 .. Len(s1), NEW j \in 1 .. Len(s1),
               NEW q \in DOMAIN s1[i].pairs, NEW r \in DOMAIN s1[j].pairs,
               s1[i].pairs[q] = s1[j].pairs[r]
        PROVE  i = j /\ q = r
    <2>1. \/ i = n /\ q = p /\ s1[i].pairs[q] = b
          \/ /\ i \in 1 .. Len(s) /\ q \in DOMAIN s[i].pairs
             /\ s1[i].pairs[q] = s[i].pairs[q]
      BY <1>4
    <2>2. \/ j = n /\ r = p /\ s1[j].pairs[r] = b
          \/ /\ j \in 1 .. Len(s) /\ r \in DOMAIN s[j].pairs
             /\ s1[j].pairs[r] = s[j].pairs[r]
      BY <1>4
    <2>3. CASE s1[i].pairs[q] = b
      BY <1>7, <1>8, <2>1, <2>2, <2>3
    <2>4. CASE s1[i].pairs[q] # b
      <3>1. /\ i \in 1 .. Len(s) /\ q \in DOMAIN s[i].pairs
            /\ j \in 1 .. Len(s) /\ r \in DOMAIN s[j].pairs
            /\ s[i].pairs[q] = s[j].pairs[r]
        BY <1>8, <2>1, <2>2, <2>4
      <3> QED BY <1>2, <3>1 DEF HeldBy
    <2> QED BY <2>3, <2>4
  <1>9. drop[t] \subseteq held'[t]
    BY <1>1, <1>5
  <1> QED BY <1>6, <1>8, <1>9 DEF HeldBy, s1

\* The same savepoints, perhaps marked as undone, and more blocks.
LEMMA SameHeld ==
  ASSUME NEW s \in Seq(Sapo), NEW s1, Len(s1) = Len(s),
         \A k \in 1 .. Len(s) : s1[k].pairs = s[k].pairs,
         NEW d, NEW h, NEW h1, h \subseteq h1, HeldBy(s, d, h)
  PROVE  HeldBy(s1, d, h1)
  <1>1. d \subseteq h1
    BY DEF HeldBy
  <1>2. ASSUME NEW i \in 1 .. Len(s1), NEW p \in DOMAIN s1[i].pairs
        PROVE  s1[i].pairs[p] \in h1 /\ s1[i].pairs[p] \notin d
    BY DEF HeldBy
  <1>3. ASSUME NEW i \in 1 .. Len(s1), NEW j \in 1 .. Len(s1),
               NEW p \in DOMAIN s1[i].pairs, NEW q \in DOMAIN s1[j].pairs,
               s1[i].pairs[p] = s1[j].pairs[q]
        PROVE  i = j /\ p = q
    BY <1>3 DEF HeldBy
  <1> QED BY <1>1, <1>2, <1>3 DEF HeldBy

\* A block that destroy frees is none of a copy.
LEMMA DroppedHeld ==
  ASSUME NEW s, NEW d, NEW h, HeldBy(s, d, h), NEW S, S \subseteq d
  PROVE  HeldBy(s, d \ S, h \ S)
  BY DEF HeldBy

\* destroy_from, when no block is left of an earlier one.
LEMMA DestroyHeld ==
  ASSUME Types, HeldInv, NEW t \in Threads, NEW i \in Nat \ {0}, destroy_from(t, i)
  PROVE  HeldBy(sapos'[t], drop'[t], held[t])
  <1> DEFINE n == IF i > Len(sapos[t]) THEN Len(sapos[t]) ELSE i - 1
  <1>1. /\ n \in 0 .. Len(sapos[t]) /\ FirstOf(sapos[t], n, sapos'[t])
        /\ \A b : b \in drop'[t] <=>
               \E k \in n + 1 .. Len(sapos[t]) : \E p \in DOMAIN sapos[t][k].pairs :
                  b = sapos[t][k].pairs[p]
    <2>1. n = IF i > Len(sapos[t]) THEN Len(sapos[t]) ELSE i - 1
      OBVIOUS
    <2> HIDE DEF n
    <2> QED BY <2>1, DestroyFacts DEF Types
  <1> HIDE DEF n
  <1>2. sapos[t] \in Seq(Sapo) /\ HeldBy(sapos[t], drop[t], held[t])
    BY DEF Types, SapoTypes, HeldInv
  <1> QED BY <1>1, <1>2, FirstRemain

\* A statement of another kind: the blocks and the copies stay.
LEMMA KeptHeld ==
  ASSUME Types, HeldInv, NEW t \in Threads, UNCHANGED <<sapos, drop>>,
         held[t] \subseteq held'[t]
  PROVE  HeldBy(sapos'[t], drop'[t], held'[t])
  <1>1. sapos[t] \in Seq(Sapo) /\ HeldBy(sapos[t], drop[t], held[t])
    BY DEF Types, SapoTypes, HeldInv
  <1>2. HeldBy(sapos[t], drop[t], held'[t])
    BY <1>1, SameHeld
  <1> QED BY <1>2

\* SAVEPOINT: the savepoint of the name gives up its blocks.
LEMMA StatementHeld ==
  ASSUME Types, HeldInv, NEW t \in Threads, NEW name, sql_stmt_sapo(t, name)
  PROVE  HeldBy(StatementSapos(t, name), drop'[t], held[t])
  <1> DEFINE i == find_sapo(t, name)
             s == sapos[t]
             s1 == StatementSapos(t, name)
  <1>1. /\ i \in 0 .. Len(s) /\ s \in Seq(Sapo) /\ s1 \in Seq(Sapo) /\ Len(s) \in Nat
        /\ i = 0 => s1 = s
        /\ i # 0 => /\ Len(s1) = Len(s) - 1
                    /\ \A k \in 1 .. Len(s) - 1 : s1[k] = s[IF k < i THEN k ELSE k + 1]
    BY StatementFacts, SapoFacts DEF Types, SapoTypes
  <1>2. HeldBy(s, drop[t], held[t]) /\ drop[t] = {}
    BY DEF HeldInv, sql_stmt_sapo, Ready
  <1>3. drop'[t] = IF i = 0 THEN {} ELSE BlocksOfOne(t, i)
    BY DEF sql_stmt_sapo, Types, SapoTypes
  <1>4. i # 0 => BlocksOfOne(t, i) = {s[i].pairs[p] : p \in DOMAIN s[i].pairs}
    <2> SUFFICES ASSUME i # 0
                 PROVE  BlocksOfOne(t, i) = {s[i].pairs[p] : p \in DOMAIN s[i].pairs}
      OBVIOUS
    <2>1. s[i].pairs \in PairMaps
      <3>1. i \in 1 .. Len(s)
        BY <1>1
      <3> HIDE DEF i, s
      <3> QED BY <1>1, <3>1, SapoFacts
    <2> QED BY <2>1, PairFacts DEF BlocksOfOne
  <1> HIDE DEF i, s1, s
  <1>5. CASE i = 0
    <2>1. s1 = s /\ drop'[t] = drop[t]
      BY <1>1, <1>2, <1>3, <1>5
    <2> QED BY <1>2, <2>1 DEF s1
  <1>6. CASE i # 0
    <2> DEFINE f == [k \in 1 .. Len(s1) |-> IF k < i THEN k ELSE k + 1]
               d1 == drop'[t]
    <2>1. i \in 1 .. Len(s) /\ Len(s1) = Len(s) - 1
      BY <1>1, <1>6
    <2>2. \A k \in 1 .. Len(s1) : /\ f[k] = IF k < i THEN k ELSE k + 1
                                  /\ f[k] \in 1 .. Len(s) /\ f[k] # i
      BY <1>1, <2>1
    <2>3. f \in [1 .. Len(s1) -> 1 .. Len(s)]
      BY <2>2
    <2>4. \A k \in 1 .. Len(s1) : s1[k].pairs = s[f[k]].pairs
      BY <1>1, <1>6, <2>1, <2>2
    <2> HIDE DEF f
    <2>5. \A k, l \in 1 .. Len(s1) : f[k] = f[l] => k = l
      BY <1>1, <2>1, <2>2
    <2>6. d1 = {s[i].pairs[p] : p \in DOMAIN s[i].pairs}
      BY <1>3, <1>4, <1>6
    <2> HIDE DEF d1
    <2>7. \A b \in d1 : b \in drop[t] \/ \E k \in 1 .. Len(s) : \E p \in DOMAIN s[k].pairs :
                           b = s[k].pairs[p] /\ \A j \in 1 .. Len(s1) : f[j] # k
      BY <2>1, <2>2, <2>6
    <2>8. HeldBy(s1, d1, held[t])
      <3>1. Remain(s, s1, f)
        BY <2>3, <2>4, <2>5 DEF Remain
      <3>2. OfOthers(s, s1, f, drop[t], d1)
        BY <2>7 DEF OfOthers
      <3> QED BY <1>2, <3>1, <3>2, SomeRemain
    <2> QED BY <2>8 DEF d1, s1
  <1> QED BY <1>5, <1>6

\* Every step of a client keeps its own copies.
LEMMA HeldOfClient ==
  ASSUME Types, HeldInv, WriteInv, NEW t \in Threads, ClientStep(t)
  PROVE  HeldBy(sapos'[t], drop'[t], held'[t]) /\ (job'[t] = "write" => drop'[t] = {})
  <1> DEFINE Good == HeldBy(sapos'[t], drop'[t], held'[t]) /\ (job'[t] = "write" => drop'[t] = {})
  <1>0. (job'[t] = job[t] /\ drop'[t] = drop[t]) => (job'[t] = "write" => drop'[t] = {})
    BY DEF WriteInv
  <1>1. ASSUME NEW p \in Pages,
               \/ fix_priv_page(t, p) \/ page_changed(t, p) \/ free_block(t, p)
               \/ \E r \in Records : rec_changed(t, p, r)
               \/ wr_changes(t, p)
        PROVE  Good
    <2>1. UNCHANGED <<sapos, drop, held, job>>
      <3>1. CASE page_changed(t, p) \/ \E r \in Records : rec_changed(t, p, r)
        BY <3>1 DEF page_changed, rec_changed, change, vars, sapoVars, jobVars
      <3>2. CASE fix_priv_page(t, p)
        BY <3>2 DEF fix_priv_page, vars, sapoVars, jobVars
      <3>3. CASE free_block(t, p)
        BY <3>3 DEF free_block, vars, sapoVars, jobVars
      <3>4. CASE wr_changes(t, p)
        BY <3>4 DEF wr_changes, vars, sapoVars, jobVars
      <3> QED BY <1>1, <3>1, <3>2, <3>3, <3>4
    <2> QED BY <1>0, <2>1, KeptHeld
  <1>2. ASSUME NEW p \in Pages, save_block(t, p) PROVE Good
    <2>1. PICK b \in SwapBlocks : Saved(t, p, b)
      BY <1>2, SaveFacts
    <2>2. UNCHANGED <<drop, job>> /\ job[t] = "save"
      BY <1>2 DEF save_block
    <2>3. HeldBy(sapos'[t], drop'[t], held'[t])
      BY <2>1, <2>2, SavedHeld
    <2> QED BY <2>2, <2>3
  <1>3. CASE save_begins(t)
    <2>1. UNCHANGED <<sapos, drop, held, job>>
      BY <1>3 DEF save_begins, get_swap_block, savepointVars, sapoVars, jobVars
    <2> QED BY <1>0, <2>1, KeptHeld
  <1>4. CASE save_fails(t)
    <2> DEFINE n == Len(sapos[t]) - 1
    <2>1. n \in 0 .. Len(sapos[t]) /\ FirstOf(sapos[t], n, sapos'[t])
      <3>1. n = Len(sapos[t]) - 1
        OBVIOUS
      <3> HIDE DEF n
      <3> QED BY <1>4, <3>1, FailFacts DEF Types
    <2> HIDE DEF n
    <2>2. UNCHANGED <<drop, held>> /\ job'[t] = "run"
      BY <1>4 DEF save_fails, no_swap_block, Types, SapoTypes
    <2>3. sapos[t] \in Seq(Sapo) /\ HeldBy(sapos[t], drop[t], held[t])
      BY DEF Types, SapoTypes, HeldInv
    <2>4. HeldBy(sapos'[t], drop[t], held[t])
      BY <2>1, <2>3, FirstRemain
    <2> QED BY <2>2, <2>4
  <1>5. CASE create_ends(t)
    <2>1. UNCHANGED <<sapos, drop, held>> /\ job'[t] = "run"
      BY <1>5 DEF create_ends, vars, Types, SapoTypes
    <2> QED BY <2>1, KeptHeld
  <1>6. ASSUME NEW block \in SwapBlocks, drop_block(t, block) PROVE Good
    <2>1. /\ block \in drop[t] /\ drop'[t] = drop[t] \ {block} /\ held'[t] = held[t] \ {block}
          /\ UNCHANGED <<sapos, job>>
      BY <1>6 DEF drop_block, IsLowest, free_swap_block, sapoVars, Types, SapoTypes,
                  TransactorInv, TypeOK
    <2>2. HeldBy(sapos[t], drop[t] \ {block}, held[t] \ {block})
      <3>1. HeldBy(sapos[t], drop[t], held[t]) /\ {block} \subseteq drop[t]
        BY <2>1 DEF HeldInv
      <3> QED BY <3>1, DroppedHeld
    <2> QED BY <2>1, <2>2 DEF WriteInv
  <1>7. ASSUME NEW name \in Names, sql_stmt_sapo(t, name) PROVE Good
    <2> DEFINE s == StatementSapos(t, name)
    <2>1. s \in Seq(Sapo) /\ HeldBy(s, drop'[t], held[t])
      BY <1>7, StatementFacts, StatementHeld DEF Types
    <2>2. create(t, s, name, FALSE) /\ UNCHANGED vars
      BY <1>7 DEF sql_stmt_sapo, StatementSapos
    <2> HIDE DEF s
    <2>3. Created(t, s, name, FALSE)
      <3>1. name \in Names \cup Numbers /\ FALSE \in BOOLEAN /\ SapoTypes /\ LogTypes
        BY DEF Types
      <3> QED BY <2>1, <2>2, <3>1, CreateFacts, ZenonT(60)
    <2>4. AddedTo(s, sapos'[t]) /\ sapos'[t][Len(s) + 1].pairs = << >> /\ job'[t] = "save"
      BY <2>3 DEF Created
    <2>5. HeldBy(sapos'[t], drop'[t], held[t])
      BY <2>1, <2>4, AddedHeld
    <2> QED BY <2>2, <2>4, <2>5 DEF vars
  <1>8. CASE begin_atomic(t)
    <2> DEFINE s == sapos[t]
               n == get_number(t)
    <2>1. s \in Seq(Sapo) /\ HeldBy(s, drop[t], held[t]) /\ n \in Numbers
      BY GetNumber DEF Types, SapoTypes, HeldInv
    <2>2. create(t, s, n, TRUE) /\ UNCHANGED <<vars, drop>>
      BY <1>8 DEF begin_atomic
    <2> HIDE DEF s, n
    <2>3. Created(t, s, n, TRUE)
      <3>1. n \in Names \cup Numbers /\ TRUE \in BOOLEAN /\ SapoTypes /\ LogTypes
        BY <2>1 DEF Types
      <3> QED BY <2>1, <2>2, <3>1, CreateFacts, ZenonT(60)
    <2>4. AddedTo(s, sapos'[t]) /\ sapos'[t][Len(s) + 1].pairs = << >> /\ job'[t] = "save"
      BY <2>3 DEF Created
    <2>5. HeldBy(sapos'[t], drop[t], held[t])
      BY <2>1, <2>4, AddedHeld
    <2> QED BY <2>2, <2>4, <2>5 DEF vars
  <1>9. ASSUME NEW name \in Names, sql_stmt_rel_sapo(t, name) PROVE Good
    <2>1. /\ find_sapo(t, name) \in Nat \ {0} /\ destroy_from(t, find_sapo(t, name))
          /\ UNCHANGED <<held, job>> /\ job[t] = "run"
      BY <1>9, FoundSapo DEF sql_stmt_rel_sapo, Ready, vars, Types
    <2> QED BY <2>1, DestroyHeld
  <1>10. ASSUME NEW name \in Names, rollback_to_savepoint(t, name) PROVE Good
    <2>1. /\ find_sapo(t, name) + 1 \in Nat \ {0} /\ destroy_from(t, find_sapo(t, name) + 1)
          /\ UNCHANGED <<held, job>> /\ job[t] = "run"
      BY <1>10, FoundSapo DEF rollback_to_savepoint, Ready, vars, Types
    <2> QED BY <2>1, DestroyHeld
  <1>11. CASE undo_block(t)
    <2>1. /\ Len(sapos'[t]) = Len(sapos[t])
          /\ \A k \in 1 .. Len(sapos[t]) : sapos'[t][k].pairs = sapos[t][k].pairs
      BY <1>11, UndoFacts DEF Types
    <2>2. UNCHANGED <<drop, held, job>>
      BY <1>11 DEF undo_block, vars, jobVars
    <2>3. sapos[t] \in Seq(Sapo) /\ HeldBy(sapos[t], drop[t], held[t])
      BY DEF Types, SapoTypes, HeldInv
    <2>4. HeldBy(sapos'[t], drop[t], held[t])
      BY <2>1, <2>3, SameHeld
    <2> QED BY <1>0, <2>2, <2>4
  <1>12. CASE end_atomic(t)
    <2>1. /\ Innermost(t).ind \in Nat \ {0} /\ destroy_from(t, Innermost(t).ind)
          /\ UNCHANGED <<held, job>> /\ job[t] = "run"
      BY <1>12, InnermostFacts DEF end_atomic, Ready, vars, Types
    <2> QED BY <2>1, DestroyHeld
  <1>13. CASE roll_back(t)
    <2>1. /\ destroy_from(t, 1) /\ UNCHANGED <<held, job>> /\ job[t] = "run"
      BY <1>13 DEF roll_back, Terminated, MayTerminate, Ready, vars
    <2>2. 1 \in Nat \ {0}
      OBVIOUS
    <2> QED BY <2>1, <2>2, DestroyHeld
  <1>14. CASE commit(t)
    <2>1. UNCHANGED <<sapos, drop>> /\ held[t] \subseteq held'[t] /\ drop[t] = {}
      BY <1>14 DEF commit, save_tjc_block, MayTerminate, Ready, sapoVars, Types,
                   TransactorInv, TypeOK
    <2> QED BY <2>1, KeptHeld
  <1>15. CASE commit_ends(t)
    <2>1. /\ destroy_from(t, 1) /\ job'[t] = "run" /\ held'[t] = held[t] \ TjcBlocks
      BY <1>15 DEF commit_ends, Terminated, free_tjc_blocks, Types, SapoTypes,
                   TransactorInv, TypeOK
    <2>2. 1 \in Nat \ {0}
      OBVIOUS
    <2>3. HeldBy(sapos'[t], drop'[t], held[t])
      BY <2>1, <2>2, DestroyHeld
    <2>4. SapoTypes'
      BY TypesOfClient
    <2>5. sapos'[t] \in Seq(Sapo) /\ drop'[t] \subseteq SwapBlocks
      BY <2>4 DEF SapoTypes
    <2>6. \A i \in 1 .. Len(sapos'[t]) : \A p \in DOMAIN sapos'[t][i].pairs :
             sapos'[t][i].pairs[p] \in SwapBlocks
      BY <2>5, SapoFacts, PairFacts
    <2>7. HeldBy(sapos'[t], drop'[t], held'[t])
      BY <2>1, <2>3, <2>5, <2>6, BlockNumbers DEF HeldBy
    <2> QED BY <2>1, <2>7
  <1> QED BY <1>1, <1>2, <1>3, <1>4, <1>5, <1>6, <1>7, <1>8, <1>9, <1>10, <1>11, <1>12,
             <1>13, <1>14, <1>15 DEF ClientStep

\* The copies of other clients are kept, too.
LEMMA HeldNext == Types /\ HeldInv /\ WriteInv /\ [SavepointsNext]_allVars
                    => HeldInv' /\ WriteInv'
  <1> SUFFICES ASSUME Types, HeldInv, WriteInv, [SavepointsNext]_allVars
               PROVE  HeldInv' /\ WriteInv'
    OBVIOUS
  <1>1. ASSUME NEW t \in Threads, ClientStep(t) PROVE HeldInv' /\ WriteInv'
    <2>1. HeldBy(sapos'[t], drop'[t], held'[t]) /\ (job'[t] = "write" => drop'[t] = {})
      BY <1>1, HeldOfClient
    <2>2. OwnParts(t)
      BY <1>1, OthersKept
    <2>3. \A u \in Threads : u # t => /\ sapos'[u] = sapos[u] /\ drop'[u] = drop[u]
                                     /\ held'[u] = held[u] /\ job'[u] = job[u]
      BY <2>2 DEF OwnParts, OnlyFor
    <2>4. \A u \in Threads : u # t => HeldBy(sapos'[u], drop'[u], held'[u])
      BY <2>3 DEF HeldInv
    <2> QED BY <2>1, <2>3, <2>4 DEF HeldInv, WriteInv
  <1>2. ASSUME UNCHANGED allVars PROVE HeldInv' /\ WriteInv'
    <2>1. UNCHANGED <<sapos, drop, held, job>>
      BY <1>2 DEF allVars, savepointVars, vars, sapoVars, jobVars
    <2> QED BY <2>1 DEF HeldInv, WriteInv, HeldBy
  <1>3. (\E t \in Threads : ClientStep(t)) \/ UNCHANGED allVars
    BY StepOfClient
  <1> QED BY <1>1, <1>2, <1>3

\* At the start there are no copies.
LEMMA HeldStart == SavepointsInit => HeldInv /\ WriteInv
  <1> SUFFICES ASSUME SavepointsInit PROVE HeldInv /\ WriteInv
    OBVIOUS
  <1>1. \A t \in Threads : sapos[t] = << >> /\ drop[t] = {} /\ held[t] = {}
    BY DEF SavepointsInit, Init
  <1>2. 1 .. Len(<< >>) = {}
    BY EmptySeq
  <1> QED BY <1>1, <1>2 DEF HeldInv, WriteInv, HeldBy

\* The property of the runs in the words of HeldBy.
LEMMA HeldImplied == Types /\ HeldInv => CopiesHeld
  <1> SUFFICES ASSUME Types, HeldInv, NEW t \in Threads
               PROVE  /\ BlocksOf(sapos[t]) \cup drop[t] \subseteq held[t]
                      /\ BlocksOf(sapos[t]) \cap drop[t] = {}
                      /\ \A i, j \in DOMAIN sapos[t] :
                           \A p \in DOMAIN sapos[t][i].pairs :
                             \A q \in DOMAIN sapos[t][j].pairs :
                               sapos[t][i].pairs[p] = sapos[t][j].pairs[q] => i = j /\ p = q
    BY DEF CopiesHeld
  <1>1. sapos[t] \in Seq(Sapo) /\ HeldBy(sapos[t], drop[t], held[t])
    BY DEF Types, SapoTypes, HeldInv
  <1>2. DOMAIN sapos[t] = 1 .. Len(sapos[t])
    BY <1>1, SapoFacts
  <1>3. \A b : b \in BlocksOf(sapos[t]) <=>
           \E i \in 1 .. Len(sapos[t]) : \E p \in DOMAIN sapos[t][i].pairs :
              b = sapos[t][i].pairs[p]
    BY <1>1, BlocksOfFacts
  <1>4. \A b \in BlocksOf(sapos[t]) : b \in held[t] /\ b \notin drop[t]
    BY <1>1, <1>3 DEF HeldBy
  <1>5. drop[t] \subseteq held[t]
    BY <1>1 DEF HeldBy
  <1> QED BY <1>1, <1>2, <1>4, <1>5 DEF HeldBy

\* The copies of the pages of a savepoint stay in swap blocks that its client
\* holds, a block of its own for each, until destroy frees them: neither
\* RELEASE, SAVEPOINT of a name in use, ROLLBACK TO nor the end of an atomic
\* block or a transaction frees a block that another savepoint needs, whatever
\* SQL programs do.
THEOREM CopiesAreHeld == SavepointsSpec => []CopiesHeld
<1>1. SavepointsInit => Types /\ HeldInv /\ WriteInv
  BY TypesInit, HeldStart
<1>2. Types /\ HeldInv /\ WriteInv /\ [SavepointsNext]_allVars => Types' /\ HeldInv' /\ WriteInv'
  BY TypesNext, HeldNext
<1>3. Types /\ HeldInv /\ WriteInv => CopiesHeld
  BY HeldImplied
<1> QED BY <1>1, <1>2, <1>3, PTL DEF SavepointsSpec

-----------------------------------------------------------------------------
(* Atomic blocks and their savepoints *)

\* The last savepoint is being created; jb is what the client does.
Unfinished(s, jb, i) == jb = "save" /\ i = Len(s)

\* The atomic blocks bl have their own savepoints among s, in the order of
\* their nesting, no other savepoint is atomic.
AtomicOK(s, bl, jb) ==
    /\ \A k \in 1 .. Len(bl) :
          /\ bl[k].ind \in 1 .. Len(s) /\ ~Unfinished(s, jb, bl[k].ind)
          /\ s[bl[k].ind].atomic /\ ~s[bl[k].ind].undone
          /\ s[bl[k].ind].id = bl[k].num /\ s[bl[k].ind].mark = bl[k].mark
    /\ \A k, l \in 1 .. Len(bl) : k < l => bl[k].ind < bl[l].ind
    /\ \A i \in 1 .. Len(s) :
          s[i].atomic => Unfinished(s, jb, i) \/ \E k \in 1 .. Len(bl) : bl[k].ind = i
    /\ jb = "save" /\ s[Len(s)].atomic =>
          \A i \in 1 .. Len(s) : s[i].id = s[Len(s)].id => i = Len(s)
    /\ jb = "write" => Len(bl) = 0

AtomicInv == \A t \in Threads : AtomicOK(sapos[t], blocks[t], job[t])

\* Savepoints behind all atomic ones are destroyed.
LEMMA AtomicFirst ==
  ASSUME NEW s \in Seq(Sapo), NEW bl \in Seq(AtomicBlock), AtomicOK(s, bl, "run"),
         NEW s1, NEW n \in 0 .. Len(s), FirstOf(s, n, s1),
         \A i \in 1 .. Len(s) : s[i].atomic => i <= n
  PROVE  AtomicOK(s1, bl, "run")
  <1>1. /\ s1 \in Seq(Sapo) /\ Len(s1) = n /\ \A k \in 1 .. n : s1[k] = s[k]
        /\ Len(s) \in Nat /\ Len(bl) \in Nat
    BY SapoFacts, SeqFacts DEF FirstOf
  <1>2. \A i : ~Unfinished(s1, "run", i) /\ ~Unfinished(s, "run", i)
    BY DEF Unfinished
  <1>3. \A i \in 1 .. n : i \in 1 .. Len(s)
    BY <1>1
  <1>4. ASSUME NEW k \in 1 .. Len(bl)
        PROVE  bl[k].ind \in 1 .. n
    <2>1. bl[k].ind \in 1 .. Len(s) /\ s[bl[k].ind].atomic
      BY DEF AtomicOK
    <2>2. bl[k].ind <= n
      BY <2>1
    <2> QED BY <1>1, <2>1, <2>2
  <1>5. ASSUME NEW k \in 1 .. Len(bl)
        PROVE  /\ bl[k].ind \in 1 .. Len(s1) /\ ~Unfinished(s1, "run", bl[k].ind)
               /\ s1[bl[k].ind].atomic /\ ~s1[bl[k].ind].undone
               /\ s1[bl[k].ind].id = bl[k].num /\ s1[bl[k].ind].mark = bl[k].mark
    <2>1. s1[bl[k].ind] = s[bl[k].ind] /\ bl[k].ind \in 1 .. Len(s1)
      BY <1>1, <1>4
    <2> QED BY <1>2, <2>1 DEF AtomicOK
  <1>6. \A k, l \in 1 .. Len(bl) : k < l => bl[k].ind < bl[l].ind
    BY DEF AtomicOK
  <1>7. ASSUME NEW i \in 1 .. Len(s1), s1[i].atomic
        PROVE  \E k \in 1 .. Len(bl) : bl[k].ind = i
    <2>1. i \in 1 .. Len(s) /\ s[i].atomic
      BY <1>1, <1>3, <1>7
    <2> QED BY <1>2, <2>1 DEF AtomicOK
  <1> QED BY <1>5, <1>6, <1>7 DEF AtomicOK

\* A savepoint of the same name behind all atomic ones is destroyed.
LEMMA AtomicWithout ==
  ASSUME NEW s \in Seq(Sapo), NEW bl \in Seq(AtomicBlock), AtomicOK(s, bl, "run"),
         NEW s1 \in Seq(Sapo), NEW i \in 1 .. Len(s), Len(s1) = Len(s) - 1,
         \A k \in 1 .. Len(s) - 1 : s1[k] = s[IF k < i THEN k ELSE k + 1],
         \A j \in 1 .. Len(s) : s[j].atomic => j < i
  PROVE  AtomicOK(s1, bl, "run")
  <1>1. Len(s) \in Nat /\ Len(bl) \in Nat
    BY SapoFacts, SeqFacts
  <1>2. \A j : ~Unfinished(s1, "run", j) /\ ~Unfinished(s, "run", j)
    BY DEF Unfinished
  <1>3. \A j \in 1 .. Len(s) : j < i => j \in 1 .. Len(s1) /\ s1[j] = s[j]
    BY <1>1
  <1>4. ASSUME NEW k \in 1 .. Len(bl)
        PROVE  bl[k].ind \in 1 .. Len(s1) /\ s1[bl[k].ind] = s[bl[k].ind]
    <2>1. bl[k].ind \in 1 .. Len(s) /\ s[bl[k].ind].atomic
      BY DEF AtomicOK
    <2> QED BY <1>3, <2>1
  <1>5. ASSUME NEW j \in 1 .. Len(s1), s1[j].atomic
        PROVE  \E k \in 1 .. Len(bl) : bl[k].ind = j
    <2>1. CASE j < i
      <3>1. j \in 1 .. Len(s) /\ s[j].atomic
        BY <1>1, <1>3, <1>5, <2>1
      <3> QED BY <1>2, <3>1 DEF AtomicOK
    <2>2. CASE ~(j < i)
      <3>1. j + 1 \in 1 .. Len(s) /\ s1[j] = s[j + 1] /\ ~(j + 1 < i)
        BY <1>1, <2>2
      <3> QED BY <1>5, <3>1
    <2> QED BY <2>1, <2>2
  <1> QED BY <1>1, <1>2, <1>4, <1>5 DEF AtomicOK

\* The beginning of create.
LEMMA AtomicAdded ==
  ASSUME NEW s \in Seq(Sapo), NEW bl \in Seq(AtomicBlock), AtomicOK(s, bl, "run"),
         NEW s1, AddedTo(s, s1),
         s1[Len(s) + 1].atomic => \A i \in 1 .. Len(s) : s[i].id # s1[Len(s) + 1].id
  PROVE  AtomicOK(s1, bl, "save")
  <1>1. /\ s1 \in Seq(Sapo) /\ Len(s1) = Len(s) + 1 /\ \A k \in 1 .. Len(s) : s1[k] = s[k]
        /\ Len(s) \in Nat /\ Len(bl) \in Nat
    BY SapoFacts, SeqFacts DEF AddedTo
  <1>2. \A i \in 1 .. Len(s) : i \in 1 .. Len(s1) /\ ~Unfinished(s1, "save", i)
    BY <1>1 DEF Unfinished
  <1>3. \A i \in 1 .. Len(s1) : i \in 1 .. Len(s) \/ i = Len(s1)
    BY <1>1
  <1>4. \A i : ~Unfinished(s, "run", i)
    BY DEF Unfinished
  <1>5. ASSUME NEW i \in 1 .. Len(s1), s1[i].atomic
        PROVE  Unfinished(s1, "save", i) \/ \E k \in 1 .. Len(bl) : bl[k].ind = i
    <2>1. CASE i = Len(s1)
      BY <2>1 DEF Unfinished
    <2>2. CASE i \in 1 .. Len(s)
      BY <1>1, <1>4, <1>5, <2>2 DEF AtomicOK
    <2> QED BY <1>3, <2>1, <2>2
  <1>6. s1[Len(s1)].atomic => \A i \in 1 .. Len(s1) : s1[i].id = s1[Len(s1)].id => i = Len(s1)
    BY <1>1, <1>3
  <1>7. ASSUME NEW k \in 1 .. Len(bl)
        PROVE  /\ bl[k].ind \in 1 .. Len(s1) /\ ~Unfinished(s1, "save", bl[k].ind)
               /\ s1[bl[k].ind].atomic /\ ~s1[bl[k].ind].undone
               /\ s1[bl[k].ind].id = bl[k].num /\ s1[bl[k].ind].mark = bl[k].mark
    <2>1. bl[k].ind \in 1 .. Len(s)
      BY DEF AtomicOK
    <2>2. s1[bl[k].ind] = s[bl[k].ind]
      BY <1>1, <2>1
    <2> QED BY <1>2, <2>1, <2>2 DEF AtomicOK
  <1>8. \A k, l \in 1 .. Len(bl) : k < l => bl[k].ind < bl[l].ind
    BY DEF AtomicOK
  <1> QED BY <1>5, <1>6, <1>7, <1>8 DEF AtomicOK

\* A savepoint that could not be completed is removed.
LEMMA AtomicFails ==
  ASSUME NEW s \in Seq(Sapo), NEW bl \in Seq(AtomicBlock), AtomicOK(s, bl, "save"),
         NEW s1, NEW n \in 0 .. Len(s), n = Len(s) - 1, FirstOf(s, n, s1)
  PROVE  AtomicOK(s1, bl, "run")
  <1>1. /\ s1 \in Seq(Sapo) /\ Len(s1) = n /\ \A k \in 1 .. n : s1[k] = s[k]
        /\ Len(s) \in Nat /\ Len(bl) \in Nat
    BY SapoFacts, SeqFacts DEF FirstOf
  <1>2. \A i : ~Unfinished(s1, "run", i)
    BY DEF Unfinished
  <1>3. \A i \in 1 .. n : i \in 1 .. Len(s) /\ ~Unfinished(s, "save", i)
    BY <1>1 DEF Unfinished
  <1>4. ASSUME NEW k \in 1 .. Len(bl)
        PROVE  bl[k].ind \in 1 .. n
    <2>1. bl[k].ind \in 1 .. Len(s) /\ bl[k].ind # Len(s)
      BY DEF AtomicOK, Unfinished
    <2> QED BY <1>1, <2>1
  <1>5. ASSUME NEW k \in 1 .. Len(bl)
        PROVE  /\ bl[k].ind \in 1 .. Len(s1) /\ ~Unfinished(s1, "run", bl[k].ind)
               /\ s1[bl[k].ind].atomic /\ ~s1[bl[k].ind].undone
               /\ s1[bl[k].ind].id = bl[k].num /\ s1[bl[k].ind].mark = bl[k].mark
    <2>1. s1[bl[k].ind] = s[bl[k].ind] /\ bl[k].ind \in 1 .. Len(s1)
      BY <1>1, <1>4
    <2> QED BY <1>2, <2>1 DEF AtomicOK
  <1>6. \A k, l \in 1 .. Len(bl) : k < l => bl[k].ind < bl[l].ind
    BY DEF AtomicOK
  <1>7. ASSUME NEW i \in 1 .. Len(s1), s1[i].atomic
        PROVE  \E k \in 1 .. Len(bl) : bl[k].ind = i
    <2>1. i \in 1 .. Len(s) /\ ~Unfinished(s, "save", i) /\ s[i].atomic
      BY <1>1, <1>3, <1>7
    <2> QED BY <2>1 DEF AtomicOK
  <1> QED BY <1>5, <1>6, <1>7 DEF AtomicOK

\* Savepoints whose ids, marks and kinds are as they were.
LEMMA AtomicSame ==
  ASSUME NEW s, NEW bl \in Seq(AtomicBlock), NEW jb, AtomicOK(s, bl, jb),
         Len(s) \in Nat, NEW s1, Len(s1) = Len(s),
         \A k \in 1 .. Len(s) :
            /\ s1[k].id = s[k].id /\ s1[k].atomic = s[k].atomic /\ s1[k].mark = s[k].mark
            /\ s1[k].undone => s[k].undone \/ \A l \in 1 .. Len(bl) : bl[l].ind < k,
         Len(s) # 0 \/ jb # "save"
  PROVE  AtomicOK(s1, bl, jb)
  <1>1. \A i : Unfinished(s1, jb, i) <=> Unfinished(s, jb, i)
    BY DEF Unfinished
  <1>2. ASSUME NEW k \in 1 .. Len(bl)
        PROVE  ~s1[bl[k].ind].undone
    <2>1. bl[k].ind \in 1 .. Len(s) /\ ~s[bl[k].ind].undone
      BY DEF AtomicOK
    <2>2. ~(bl[k].ind < bl[k].ind)
      BY <2>1
    <2> QED BY <2>1, <2>2
  <1>3. jb = "save" => Len(s) \in 1 .. Len(s)
    OBVIOUS
  <1>4. ASSUME NEW k \in 1 .. Len(bl)
        PROVE  /\ bl[k].ind \in 1 .. Len(s1) /\ ~Unfinished(s1, jb, bl[k].ind)
               /\ s1[bl[k].ind].atomic
               /\ s1[bl[k].ind].id = bl[k].num /\ s1[bl[k].ind].mark = bl[k].mark
    <2>1. bl[k].ind \in 1 .. Len(s)
      BY DEF AtomicOK
    <2> QED BY <1>1, <2>1 DEF AtomicOK
  <1>5. \A i \in 1 .. Len(s1) :
          s1[i].atomic => Unfinished(s1, jb, i) \/ \E k \in 1 .. Len(bl) : bl[k].ind = i
    BY <1>1 DEF AtomicOK
  <1>6. jb = "save" /\ s1[Len(s1)].atomic =>
          \A i \in 1 .. Len(s1) : s1[i].id = s1[Len(s1)].id => i = Len(s1)
    BY <1>3 DEF AtomicOK
  <1>7. (\A k, l \in 1 .. Len(bl) : k < l => bl[k].ind < bl[l].ind) /\ (jb = "write" => Len(bl) = 0)
    BY DEF AtomicOK
  <1> QED BY <1>2, <1>4, <1>5, <1>6, <1>7 DEF AtomicOK

\* The savepoint of an atomic block is complete: it is found by its number.
LEMMA AtomicBegins ==
  ASSUME NEW s \in Seq(Sapo), NEW bl \in Seq(AtomicBlock), AtomicOK(s, bl, "save"),
         Len(s) # 0, s[Len(s)].atomic, ~s[Len(s)].undone,
         NEW bl1 \in Seq(AtomicBlock), Len(bl1) = Len(bl) + 1,
         \A k \in 1 .. Len(bl) : bl1[k] = bl[k],
         bl1[Len(bl) + 1].num = s[Len(s)].id,
         bl1[Len(bl) + 1].ind \in 1 .. Len(s),
         s[bl1[Len(bl) + 1].ind].id = s[Len(s)].id,
         bl1[Len(bl) + 1].mark = s[Len(s)].mark
  PROVE  AtomicOK(s, bl1, "run")
  <1>1. Len(s) \in Nat /\ Len(bl) \in Nat /\ Len(s) \in 1 .. Len(s)
    BY SapoFacts, SeqFacts
  <1>2. bl1[Len(bl) + 1].ind = Len(s)
    BY DEF AtomicOK
  <1>3. \A k \in 1 .. Len(bl1) : k \in 1 .. Len(bl) \/ k = Len(bl) + 1
    BY <1>1
  <1>4. \A i : ~Unfinished(s, "run", i)
    BY DEF Unfinished
  <1>5. ASSUME NEW k \in 1 .. Len(bl)
        PROVE  bl1[k] = bl[k] /\ bl[k].ind \in 1 .. Len(s) /\ bl[k].ind # Len(s)
    BY DEF AtomicOK, Unfinished
  <1>6. ASSUME NEW k \in 1 .. Len(bl1)
        PROVE  /\ bl1[k].ind \in 1 .. Len(s)
               /\ s[bl1[k].ind].atomic /\ ~s[bl1[k].ind].undone
               /\ s[bl1[k].ind].id = bl1[k].num /\ s[bl1[k].ind].mark = bl1[k].mark
    <2>1. CASE k = Len(bl) + 1
      BY <1>1, <1>2, <2>1
    <2>2. CASE k \in 1 .. Len(bl)
      BY <2>2, <1>5 DEF AtomicOK
    <2> QED BY <1>3, <2>1, <2>2
  <1>7. ASSUME NEW k \in 1 .. Len(bl1), NEW l \in 1 .. Len(bl1), k < l
        PROVE  bl1[k].ind < bl1[l].ind
    <2>1. k \in 1 .. Len(bl)
      BY <1>1, <1>7
    <2>2. CASE l = Len(bl) + 1
      BY <1>1, <1>2, <1>5, <2>1, <2>2
    <2>3. CASE l \in 1 .. Len(bl)
      BY <1>5, <1>7, <2>1, <2>3 DEF AtomicOK
    <2> QED BY <1>3, <2>2, <2>3
  <1>8. ASSUME NEW i \in 1 .. Len(s), s[i].atomic
        PROVE  \E k \in 1 .. Len(bl1) : bl1[k].ind = i
    <2>1. CASE i = Len(s)
      BY <1>1, <1>2, <2>1
    <2>2. CASE i # Len(s)
      <3>1. PICK k \in 1 .. Len(bl) : bl[k].ind = i
        BY <1>8, <2>2 DEF AtomicOK, Unfinished
      <3> QED BY <1>1, <1>5, <3>1
    <2> QED BY <2>1, <2>2
  <1> QED BY <1>4, <1>6, <1>7, <1>8 DEF AtomicOK

\* An ordinary savepoint is complete.
LEMMA AtomicCompleted ==
  ASSUME NEW s, NEW bl, AtomicOK(s, bl, "save"), ~s[Len(s)].atomic
  PROVE  AtomicOK(s, bl, "run")
  <1>1. \A i \in 1 .. Len(s) : s[i].atomic => ~Unfinished(s, "save", i)
    BY DEF Unfinished
  <1>2. \A i : ~Unfinished(s, "run", i)
    BY DEF Unfinished
  <1> QED BY <1>1, <1>2 DEF AtomicOK

\* The innermost atomic block is left.
LEMMA AtomicEnds ==
  ASSUME NEW s \in Seq(Sapo), NEW bl \in Seq(AtomicBlock), AtomicOK(s, bl, "run"),
         NEW m \in Nat \ {0}, Len(bl) = m,
         NEW bl1 \in Seq(AtomicBlock), Len(bl1) = m - 1, \A k \in 1 .. m - 1 : bl1[k] = bl[k],
         NEW s1, NEW n \in 0 .. Len(s), n = bl[m].ind - 1, FirstOf(s, n, s1)
  PROVE  AtomicOK(s1, bl1, "run")
  <1>1. /\ s1 \in Seq(Sapo) /\ Len(s1) = n /\ \A k \in 1 .. n : s1[k] = s[k]
        /\ Len(s) \in Nat
    BY SapoFacts DEF FirstOf
  <1>2. \A i : ~Unfinished(s1, "run", i) /\ ~Unfinished(s, "run", i)
    BY DEF Unfinished
  <1>3. m \in 1 .. m /\ \A k \in 1 .. m - 1 : k \in 1 .. m /\ k < m
    OBVIOUS
  <1>4. bl[m].ind \in 1 .. Len(s)
    BY <1>3 DEF AtomicOK
  <1>5. ASSUME NEW k \in 1 .. m - 1
        PROVE  bl1[k] = bl[k] /\ bl[k].ind \in 1 .. n
    <2>1. bl[k].ind \in 1 .. Len(s) /\ bl[k].ind < bl[m].ind
      BY <1>3 DEF AtomicOK
    <2> QED BY <1>1, <1>4, <2>1
  <1>6. ASSUME NEW i \in 1 .. n, s1[i].atomic
        PROVE  \E k \in 1 .. m - 1 : bl1[k].ind = i
    <2>1. i \in 1 .. Len(s) /\ s[i].atomic /\ i # bl[m].ind
      BY <1>1, <1>4, <1>6
    <2>2. PICK k \in 1 .. m : bl[k].ind = i
      BY <1>2, <2>1 DEF AtomicOK
    <2>3. k \in 1 .. m - 1
      BY <2>1, <2>2
    <2> QED BY <2>2, <2>3
  <1>7. ASSUME NEW k \in 1 .. m - 1
        PROVE  /\ s1[bl1[k].ind].atomic /\ ~s1[bl1[k].ind].undone
               /\ s1[bl1[k].ind].id = bl1[k].num /\ s1[bl1[k].ind].mark = bl1[k].mark
    <2>1. bl1[k] = bl[k] /\ s1[bl[k].ind] = s[bl[k].ind] /\ k \in 1 .. Len(bl)
      BY <1>1, <1>3, <1>5
    <2> QED BY <2>1 DEF AtomicOK
  <1>8. \A k, l \in 1 .. m - 1 : k < l => bl1[k].ind < bl1[l].ind
    BY <1>3, <1>5 DEF AtomicOK
  <1> QED BY <1>1, <1>2, <1>5, <1>6, <1>7, <1>8 DEF AtomicOK

-----------------------------------------------------------------------------
(* The progress of create and of commit *)

\* While a client creates its last savepoint, this one has the marks and the
\* freed pages of the moment, and copies of the private pages visited so far.
JobOK(s, jb, td, lg, fr, mn) ==
    /\ jb = "run" => td = {}
    /\ jb = "write" => td \subseteq lg
    /\ jb = "save" =>
         /\ s[Len(s)].undone = FALSE
         /\ s[Len(s)].freed = fr /\ s[Len(s)].mark = mn
         /\ DOMAIN s[Len(s)].pairs \subseteq lg
         /\ td = lg \ DOMAIN s[Len(s)].pairs

JobInv ==
    \A t \in Threads : JobOK(sapos[t], job[t], todo[t], log[t], freed[t], mine[t])

\* The client does neither.
LEMMA JobRuns ==
  ASSUME Types, NEW t \in Threads, JobInv, job[t] = "run", UNCHANGED <<job, todo>>
  PROVE  JobOK(sapos'[t], job'[t], todo'[t], log'[t], freed'[t], mine'[t])
  BY DEF JobInv, JobOK

\* Nothing that matters changes.
LEMMA JobKept ==
  ASSUME Types, NEW t \in Threads, JobInv, UNCHANGED <<sapos, job, todo, log, freed, mine>>
  PROVE  JobOK(sapos'[t], job'[t], todo'[t], log'[t], freed'[t], mine'[t])
  BY DEF JobInv, JobOK

\* create begins.
LEMMA JobCreates ==
  ASSUME Types, NEW t \in Threads, NEW s, NEW id, NEW atomic, Created(t, s, id, atomic),
         UNCHANGED <<log, freed, mine>>
  PROVE  JobOK(sapos'[t], job'[t], todo'[t], log'[t], freed'[t], mine'[t])
  <1>1. /\ sapos'[t][Len(sapos'[t])].undone = FALSE
        /\ sapos'[t][Len(sapos'[t])].pairs = << >>
        /\ sapos'[t][Len(sapos'[t])].freed = freed[t]
        /\ sapos'[t][Len(sapos'[t])].mark = mine[t]
        /\ job'[t] = "save" /\ todo'[t] = log[t]
    BY DEF Created
  <1> QED BY <1>1, NoPairs DEF JobOK

\* A client makes progress.
LEMMA JobOfClient ==
  ASSUME Types, JobInv, NEW t \in Threads, ClientStep(t)
  PROVE  JobOK(sapos'[t], job'[t], todo'[t], log'[t], freed'[t], mine'[t])
  <1> DEFINE Good == JobOK(sapos'[t], job'[t], todo'[t], log'[t], freed'[t], mine'[t])
  <1>1. ASSUME NEW p \in Pages,
               \/ fix_priv_page(t, p) \/ page_changed(t, p) \/ free_block(t, p)
               \/ \E r \in Records : rec_changed(t, p, r)
        PROVE  Good
    <2>1. job[t] = "run" /\ UNCHANGED <<job, todo>>
      <3>1. CASE page_changed(t, p) \/ \E r \in Records : rec_changed(t, p, r)
        BY <3>1 DEF page_changed, rec_changed, change, Ready, jobVars
      <3>2. CASE fix_priv_page(t, p)
        BY <3>2 DEF fix_priv_page, Ready, jobVars
      <3>3. CASE free_block(t, p)
        BY <3>3 DEF free_block, Ready, jobVars
      <3> QED BY <1>1, <3>1, <3>2, <3>3
    <2> QED BY <2>1, JobRuns
  <1>2. ASSUME NEW p \in Pages, save_block(t, p) PROVE Good
    <2> DEFINE n == Len(sapos[t])
    <2>1. PICK b \in SwapBlocks : Saved(t, p, b)
      BY <1>2, SaveFacts
    <2>2. /\ Len(sapos'[t]) = n
          /\ sapos'[t][n].undone = sapos[t][n].undone
          /\ sapos'[t][n].freed = sapos[t][n].freed
          /\ sapos'[t][n].mark = sapos[t][n].mark
          /\ DOMAIN sapos'[t][n].pairs = DOMAIN sapos[t][n].pairs \cup {p}
      BY <2>1 DEF Saved
    <2>3. /\ job[t] = "save" /\ p \in todo[t] /\ todo'[t] = todo[t] \ {p}
          /\ UNCHANGED <<log, freed, mine, job>>
      BY <1>2 DEF save_block, logVars, Types, SapoTypes
    <2>4. JobOK(sapos[t], job[t], todo[t], log[t], freed[t], mine[t])
      BY DEF JobInv
    <2>5. /\ sapos[t][n].undone = FALSE
          /\ sapos[t][n].freed = freed[t] /\ sapos[t][n].mark = mine[t]
          /\ DOMAIN sapos[t][n].pairs \subseteq log[t]
          /\ todo[t] = log[t] \ DOMAIN sapos[t][n].pairs
      BY <2>3, <2>4 DEF JobOK
    <2> QED BY <2>2, <2>3, <2>5 DEF JobOK
  <1>3. ASSUME NEW p \in Pages, wr_changes(t, p) PROVE Good
    <2>1. /\ job[t] = "write" /\ todo'[t] = todo[t] \ {p}
          /\ UNCHANGED <<log, job>>
      BY <1>3 DEF wr_changes, Types, SapoTypes
    <2> QED BY <2>1 DEF JobInv, JobOK
  <1>4. CASE save_begins(t)
    BY <1>4, JobKept DEF save_begins, savepointVars, sapoVars, jobVars, logVars
  <1>5. CASE save_fails(t)
    <2>1. job'[t] = "run" /\ todo'[t] = {}
      BY <1>5 DEF save_fails, Types, SapoTypes
    <2> QED BY <2>1 DEF JobOK
  <1>6. CASE create_ends(t)
    <2>1. job'[t] = "run" /\ todo'[t] = {}
      BY <1>6 DEF create_ends, Types, SapoTypes
    <2> QED BY <2>1 DEF JobOK
  <1>7. ASSUME NEW block \in SwapBlocks, drop_block(t, block) PROVE Good
    BY <1>7, JobKept DEF drop_block, sapoVars, logVars
  <1>8. ASSUME NEW name \in Names, sql_stmt_sapo(t, name) PROVE Good
    <2> DEFINE s == StatementSapos(t, name)
    <2>1. s \in Seq(Sapo)
      BY StatementFacts DEF Types
    <2>2. create(t, s, name, FALSE) /\ UNCHANGED <<log, freed, mine>>
      BY <1>8 DEF sql_stmt_sapo, StatementSapos, logVars
    <2> HIDE DEF s
    <2>3. Created(t, s, name, FALSE)
      <3>1. name \in Names \cup Numbers /\ FALSE \in BOOLEAN /\ SapoTypes /\ LogTypes
        BY DEF Types
      <3> QED BY <2>1, <2>2, <3>1, CreateFacts, ZenonT(60)
    <2> QED BY <2>2, <2>3, JobCreates
  <1>9. CASE begin_atomic(t)
    <2> DEFINE s == sapos[t]
               n == get_number(t)
    <2>1. s \in Seq(Sapo) /\ n \in Numbers
      BY GetNumber DEF Types, SapoTypes
    <2>2. create(t, s, n, TRUE) /\ UNCHANGED <<log, freed, mine>>
      BY <1>9 DEF begin_atomic, logVars
    <2> HIDE DEF s, n
    <2>3. Created(t, s, n, TRUE)
      <3>1. n \in Names \cup Numbers /\ TRUE \in BOOLEAN /\ SapoTypes /\ LogTypes
        BY <2>1 DEF Types
      <3> QED BY <2>1, <2>2, <3>1, CreateFacts, ZenonT(60)
    <2> QED BY <2>2, <2>3, JobCreates
  <1>10. ASSUME NEW name \in Names,
                sql_stmt_rel_sapo(t, name) \/ rollback_to_savepoint(t, name)
         PROVE  Good
    <2>1. job[t] = "run" /\ UNCHANGED <<job, todo>>
      BY <1>10 DEF sql_stmt_rel_sapo, rollback_to_savepoint, Ready
    <2> QED BY <2>1, JobRuns
  <1>11. CASE undo_block(t) \/ end_atomic(t) \/ roll_back(t)
    <2>1. job[t] = "run" /\ UNCHANGED <<job, todo>>
      BY <1>11 DEF undo_block, end_atomic, roll_back, MayTerminate, Ready, jobVars
    <2> QED BY <2>1, JobRuns
  <1>12. CASE commit(t)
    <2>1. job'[t] = "write" /\ todo'[t] = log[t] /\ log' = log
      BY <1>12 DEF commit, logVars, Types, SapoTypes
    <2> QED BY <2>1 DEF JobOK
  <1>13. CASE commit_ends(t)
    <2>1. job'[t] = "run" /\ todo'[t] = {}
      BY <1>13 DEF commit_ends, Types, SapoTypes
    <2> QED BY <2>1 DEF JobOK
  <1> QED BY <1>1, <1>2, <1>3, <1>4, <1>5, <1>6, <1>7, <1>8, <1>9, <1>10, <1>11, <1>12,
             <1>13 DEF ClientStep

\* The progress of other clients is not disturbed.
LEMMA JobNext == Types /\ JobInv /\ [SavepointsNext]_allVars => JobInv'
  <1> SUFFICES ASSUME Types, JobInv, [SavepointsNext]_allVars PROVE JobInv'
    OBVIOUS
  <1>1. ASSUME NEW t \in Threads, ClientStep(t) PROVE JobInv'
    <2>1. JobOK(sapos'[t], job'[t], todo'[t], log'[t], freed'[t], mine'[t])
      BY <1>1, JobOfClient
    <2>2. \A u \in Threads : u # t => /\ sapos'[u] = sapos[u] /\ job'[u] = job[u]
                                     /\ todo'[u] = todo[u] /\ log'[u] = log[u]
                                     /\ freed'[u] = freed[u] /\ mine'[u] = mine[u]
      BY <1>1, OthersKept DEF OwnParts, OnlyFor
    <2>3. \A u \in Threads : u # t =>
             JobOK(sapos'[u], job'[u], todo'[u], log'[u], freed'[u], mine'[u])
      BY <2>2 DEF JobInv
    <2> QED BY <2>1, <2>3 DEF JobInv
  <1>2. ASSUME UNCHANGED allVars PROVE JobInv'
    <2>1. UNCHANGED <<sapos, job, todo, log, freed, mine>>
      BY <1>2 DEF allVars, savepointVars, sapoVars, jobVars, logVars
    <2> QED BY <2>1 DEF JobInv
  <1>3. (\E t \in Threads : ClientStep(t)) \/ UNCHANGED allVars
    BY StepOfClient
  <1> QED BY <1>1, <1>2, <1>3

\* At the start no client does anything.
LEMMA JobStart == SavepointsInit => JobInv
  <1> SUFFICES ASSUME SavepointsInit, NEW t \in Threads
               PROVE  JobOK(sapos[t], job[t], todo[t], log[t], freed[t], mine[t])
    BY DEF JobInv
  <1>1. job[t] = "run" /\ todo[t] = {}
    BY DEF SavepointsInit
  <1> QED BY <1>1 DEF JobOK

-----------------------------------------------------------------------------
(* No swap block is forgotten *)

\* Savepoints have the same copies.
LEMMA SameBlocks ==
  ASSUME NEW s \in Seq(Sapo), NEW s1 \in Seq(Sapo), Len(s1) = Len(s),
         \A k \in 1 .. Len(s) : s1[k].pairs = s[k].pairs
  PROVE  BlocksOf(s1) = BlocksOf(s)
  <1>1. \A b : b \in BlocksOf(s) <=>
           \E i \in 1 .. Len(s) : \E p \in DOMAIN s[i].pairs : b = s[i].pairs[p]
    BY BlocksOfFacts
  <1>2. \A b : b \in BlocksOf(s1) <=>
           \E i \in 1 .. Len(s1) : \E p \in DOMAIN s1[i].pairs : b = s1[i].pairs[p]
    BY BlocksOfFacts
  <1>3. ASSUME NEW b PROVE b \in BlocksOf(s1) <=> b \in BlocksOf(s)
    <2>1. ASSUME b \in BlocksOf(s1) PROVE b \in BlocksOf(s)
      <3>1. PICK i \in 1 .. Len(s) : \E p \in DOMAIN s1[i].pairs : b = s1[i].pairs[p]
        BY <1>2, <2>1
      <3> QED BY <1>1, <3>1
    <2>2. ASSUME b \in BlocksOf(s) PROVE b \in BlocksOf(s1)
      <3>1. PICK i \in 1 .. Len(s) : \E p \in DOMAIN s[i].pairs : b = s[i].pairs[p]
        BY <1>1, <2>2
      <3> QED BY <1>2, <3>1
    <2> QED BY <2>1, <2>2
  <1> QED BY <1>3

\* The first n savepoints and the other ones have all the copies.
LEMMA SplitBlocks ==
  ASSUME NEW s \in Seq(Sapo), NEW n \in 0 .. Len(s), NEW s1, FirstOf(s, n, s1), NEW d,
         \A b : b \in d <=> \E k \in n + 1 .. Len(s) : \E p \in DOMAIN s[k].pairs :
                               b = s[k].pairs[p]
  PROVE  BlocksOf(s1) \cup d = BlocksOf(s)
  <1>0. Len(s) \in Nat /\ s1 \in Seq(Sapo) /\ Len(s1) = n /\ \A k \in 1 .. n : s1[k] = s[k]
    BY SapoFacts DEF FirstOf
  <1>1. \A b : b \in BlocksOf(s) <=>
           \E i \in 1 .. Len(s) : \E p \in DOMAIN s[i].pairs : b = s[i].pairs[p]
    BY BlocksOfFacts
  <1>2. \A b : b \in BlocksOf(s1) <=>
           \E i \in 1 .. Len(s1) : \E p \in DOMAIN s1[i].pairs : b = s1[i].pairs[p]
    BY <1>0, BlocksOfFacts
  <1>3. \A k : k \in 1 .. Len(s) <=> k \in 1 .. n \/ k \in n + 1 .. Len(s)
    BY <1>0
  <1>4. ASSUME NEW b PROVE b \in BlocksOf(s1) \/ b \in d <=> b \in BlocksOf(s)
    BY <1>0, <1>1, <1>2, <1>3
  <1> QED BY <1>4

\* destroy_from frees the copies of all savepoints it destroys.
LEMMA DestroyBlocks ==
  ASSUME SapoTypes, NEW t \in Threads, NEW i \in Nat \ {0}, destroy_from(t, i)
  PROVE  BlocksOf(sapos'[t]) \cup drop'[t] = BlocksOf(sapos[t])
  <1>1. PICK n : n = IF i > Len(sapos[t]) THEN Len(sapos[t]) ELSE i - 1
    OBVIOUS
  <1>2. /\ n \in 0 .. Len(sapos[t]) /\ FirstOf(sapos[t], n, sapos'[t])
        /\ \A b : b \in drop'[t] <=>
              \E k \in n + 1 .. Len(sapos[t]) : \E p \in DOMAIN sapos[t][k].pairs :
                 b = sapos[t][k].pairs[p]
    <2>1. n \in 0 .. Len(sapos[t]) /\ FirstOf(sapos[t], n, sapos'[t])
      BY <1>1, DestroyFacts
    <2>2. ASSUME NEW b
          PROVE  b \in drop'[t] <=>
                   \E k \in n + 1 .. Len(sapos[t]) : \E p \in DOMAIN sapos[t][k].pairs :
                      b = sapos[t][k].pairs[p]
      BY <1>1, DestroyFacts
    <2> QED BY <2>1, <2>2
  <1>3. sapos[t] \in Seq(Sapo)
    BY DEF SapoTypes
  <1> QED BY <1>2, <1>3, SplitBlocks

\* A new savepoint has no copies.
LEMMA AddedBlocks ==
  ASSUME NEW s \in Seq(Sapo), NEW s1, AddedTo(s, s1), s1[Len(s) + 1].pairs = << >>
  PROVE  BlocksOf(s1) = BlocksOf(s)
  <1>0. /\ Len(s) \in Nat /\ s1 \in Seq(Sapo) /\ Len(s1) = Len(s) + 1
        /\ \A k \in 1 .. Len(s) : s1[k] = s[k]
    BY SapoFacts DEF AddedTo
  <1>1. \A b : b \in BlocksOf(s) <=>
           \E i \in 1 .. Len(s) : \E p \in DOMAIN s[i].pairs : b = s[i].pairs[p]
    BY BlocksOfFacts
  <1>2. \A b : b \in BlocksOf(s1) <=>
           \E i \in 1 .. Len(s1) : \E p \in DOMAIN s1[i].pairs : b = s1[i].pairs[p]
    BY <1>0, BlocksOfFacts
  <1>3. DOMAIN s1[Len(s) + 1].pairs = {}
    BY NoPairs
  <1>4. \A k : k \in 1 .. Len(s1) <=> k \in 1 .. Len(s) \/ k = Len(s) + 1
    BY <1>0
  <1>5. ASSUME NEW b PROVE b \in BlocksOf(s1) <=> b \in BlocksOf(s)
    <2>1. ASSUME b \in BlocksOf(s1) PROVE b \in BlocksOf(s)
      <3>1. PICK i \in 1 .. Len(s1) : \E p \in DOMAIN s1[i].pairs : b = s1[i].pairs[p]
        BY <1>2, <2>1
      <3>2. i \in 1 .. Len(s)
        BY <1>3, <1>4, <3>1
      <3> QED BY <1>0, <1>1, <3>1, <3>2
    <2>2. ASSUME b \in BlocksOf(s) PROVE b \in BlocksOf(s1)
      <3>1. PICK i \in 1 .. Len(s) : \E p \in DOMAIN s[i].pairs : b = s[i].pairs[p]
        BY <1>1, <2>2
      <3>2. i \in 1 .. Len(s1) /\ s1[i] = s[i]
        BY <1>0, <1>4
      <3> QED BY <1>2, <3>1, <3>2
    <2> QED BY <2>1, <2>2
  <1> QED BY <1>5

\* SAVEPOINT of a name in use frees the copies of the old savepoint.
LEMMA StatementBlocks ==
  ASSUME Types, NEW t \in Threads, NEW name, sql_stmt_sapo(t, name)
  PROVE  BlocksOf(StatementSapos(t, name)) \cup drop'[t] = BlocksOf(sapos[t])
  <1> DEFINE i == find_sapo(t, name)
             s == sapos[t]
             s1 == StatementSapos(t, name)
  <1>1. /\ i \in 0 .. Len(s) /\ s \in Seq(Sapo) /\ s1 \in Seq(Sapo) /\ Len(s) \in Nat
        /\ i = 0 => s1 = s
        /\ i # 0 => /\ Len(s1) = Len(s) - 1
                    /\ \A k \in 1 .. Len(s) - 1 : s1[k] = s[IF k < i THEN k ELSE k + 1]
    BY StatementFacts, SapoFacts DEF Types, SapoTypes
  <1>2. drop'[t] = IF i = 0 THEN {} ELSE BlocksOfOne(t, i)
    BY DEF sql_stmt_sapo, Types, SapoTypes
  <1>3. CASE i = 0
    BY <1>1, <1>2, <1>3
  <1>4. CASE i # 0
    <2>1. i \in 1 .. Len(s)
      BY <1>1, <1>4
    <2>2. s[i].pairs \in PairMaps
      <3> HIDE DEF i, s
      <3> QED BY <1>1, <2>1, SapoFacts
    <2>3. drop'[t] = {s[i].pairs[p] : p \in DOMAIN s[i].pairs}
      BY <1>2, <1>4, <2>2, PairFacts DEF BlocksOfOne
    <2> DEFINE d == drop'[t]
    <2> HIDE DEF d
    <2>4. \A b : b \in BlocksOf(s) <=>
             \E k \in 1 .. Len(s) : \E p \in DOMAIN s[k].pairs : b = s[k].pairs[p]
      BY <1>1, BlocksOfFacts
    <2>5. \A b : b \in BlocksOf(s1) <=>
             \E k \in 1 .. Len(s1) : \E p \in DOMAIN s1[k].pairs : b = s1[k].pairs[p]
      BY <1>1, BlocksOfFacts
    <2>6. \A k \in 1 .. Len(s1) : \E l \in 1 .. Len(s) : s1[k] = s[l]
      <3> SUFFICES ASSUME NEW k \in 1 .. Len(s1) PROVE \E l \in 1 .. Len(s) : s1[k] = s[l]
        OBVIOUS
      <3>1. CASE k < i
        BY <1>1, <1>4, <3>1
      <3>2. CASE ~(k < i)
        <4>1. k + 1 \in 1 .. Len(s) /\ s1[k] = s[k + 1]
          BY <1>1, <1>4, <3>2
        <4> QED BY <4>1
      <3> QED BY <3>1, <3>2
    <2>7. \A l \in 1 .. Len(s) : l = i \/ \E k \in 1 .. Len(s1) : s1[k] = s[l]
      <3> SUFFICES ASSUME NEW l \in 1 .. Len(s), l # i PROVE \E k \in 1 .. Len(s1) : s1[k] = s[l]
        OBVIOUS
      <3>1. CASE l < i
        <4>1. l \in 1 .. Len(s1) /\ s1[l] = s[l]
          BY <1>1, <1>4, <2>1, <3>1
        <4> QED BY <4>1
      <3>2. CASE ~(l < i)
        <4>1. l - 1 \in 1 .. Len(s1) /\ ~(l - 1 < i) /\ (l - 1) + 1 = l
          BY <1>1, <1>4, <2>1, <3>2
        <4>2. s1[l - 1] = s[l]
          BY <1>1, <1>4, <4>1
        <4> QED BY <4>1, <4>2
      <3> QED BY <3>1, <3>2
    <2>8. \A b : b \in d <=> \E p \in DOMAIN s[i].pairs : b = s[i].pairs[p]
      BY <2>3 DEF d
    <2>9. ASSUME NEW b PROVE b \in BlocksOf(s1) \/ b \in d <=> b \in BlocksOf(s)
      <3>1. ASSUME b \in BlocksOf(s1) PROVE b \in BlocksOf(s)
        BY <2>4, <2>5, <2>6, <3>1
      <3>2. ASSUME b \in d PROVE b \in BlocksOf(s)
        BY <2>1, <2>4, <2>8, <3>2
      <3>3. ASSUME b \in BlocksOf(s) PROVE b \in BlocksOf(s1) \/ b \in d
        BY <2>4, <2>5, <2>7, <2>8, <3>3
      <3> QED BY <3>1, <3>2, <3>3
    <2>10. BlocksOf(s1) \cup d = BlocksOf(s)
      BY <2>9
    <2> QED BY <2>10 DEF s, s1, d
  <1> QED BY <1>3, <1>4

\* What is held without need stays so if the blocks in use are the same.
LEMMA SameForgotten ==
  ASSUME NEW t \in Threads, held'[t] \cap SwapBlocks = held[t] \cap SwapBlocks,
         BlocksOf(sapos'[t]) \cup drop'[t] = BlocksOf(sapos[t]) \cup drop[t]
  PROVE  Forgotten(t)' = Forgotten(t)
  <1>1. Forgotten(t)' = (held'[t] \cap SwapBlocks) \ (BlocksOf(sapos'[t]) \cup drop'[t])
    BY DEF Forgotten, BlocksOf
  <1> QED BY <1>1 DEF Forgotten

\* What a step of the client itself forgets.
Forgets(t) ==
    \/ Forgotten(t)' = Forgotten(t)
    \/ /\ save_fails(t)
       /\ Forgotten(t)' = Forgotten(t) \cup BlocksOfOne(t, Len(sapos[t]))

\* save_block has a copy in the new block and keeps the copies it had.
LEMMA SavedForgets ==
  ASSUME Types, JobInv, NEW t \in Threads, NEW p \in Pages, save_block(t, p)
  PROVE  Forgotten(t)' = Forgotten(t)
  <1>1. PICK b \in SwapBlocks : Saved(t, p, b)
    BY SaveFacts
  <1> DEFINE s == sapos[t]
             s1 == sapos'[t]
             n == Len(sapos[t])
  <1>2. /\ s \in Seq(Sapo) /\ s1 \in Seq(Sapo) /\ Len(s1) = Len(s) /\ n \in 1 .. Len(s)
        /\ \A k \in 1 .. Len(s) : k # n => s1[k] = s[k]
        /\ DOMAIN s1[n].pairs = DOMAIN s[n].pairs \cup {p}
        /\ s1[n].pairs[p] = b
        /\ \A q \in DOMAIN s[n].pairs : q # p => s1[n].pairs[q] = s[n].pairs[q]
    BY <1>1 DEF Saved, Types, SapoTypes
  <1>3. p \notin DOMAIN s[n].pairs /\ drop' = drop
    BY DEF JobInv, JobOK, save_block
  <1>4. held'[t] = held[t] \cup {b} /\ b \notin held[t]
    BY <1>1 DEF Saved, Types, TransactorInv, TypeOK
  <1> HIDE DEF s, s1, n
  <1>5. \A x : x \in BlocksOf(s) <=>
           \E i \in 1 .. Len(s) : \E q \in DOMAIN s[i].pairs : x = s[i].pairs[q]
    BY <1>2, BlocksOfFacts
  <1>6. \A x : x \in BlocksOf(s1) <=>
           \E i \in 1 .. Len(s1) : \E q \in DOMAIN s1[i].pairs : x = s1[i].pairs[q]
    BY <1>2, BlocksOfFacts
  <1>7. ASSUME NEW x PROVE x \in BlocksOf(s1) <=> x \in BlocksOf(s) \/ x = b
    <2>1. ASSUME x \in BlocksOf(s1) PROVE x \in BlocksOf(s) \/ x = b
      <3>1. PICK i \in 1 .. Len(s) : \E q \in DOMAIN s1[i].pairs : x = s1[i].pairs[q]
        BY <1>2, <1>6, <2>1
      <3> QED BY <1>2, <1>5, <3>1
    <2>2. ASSUME x \in BlocksOf(s) PROVE x \in BlocksOf(s1)
      <3>1. PICK i \in 1 .. Len(s) : \E q \in DOMAIN s[i].pairs : x = s[i].pairs[q]
        BY <1>5, <2>2
      <3>2. \E q \in DOMAIN s1[i].pairs : x = s1[i].pairs[q]
        BY <1>2, <1>3, <3>1
      <3> QED BY <1>2, <1>6, <3>2
    <2>3. b \in BlocksOf(s1)
      BY <1>2, <1>6
    <2> QED BY <2>1, <2>2, <2>3
  <1>8. Forgotten(t)' = (held'[t] \cap SwapBlocks) \ (BlocksOf(s1) \cup drop'[t])
    BY DEF Forgotten, BlocksOf, s1
  <1>9. Forgotten(t) = (held[t] \cap SwapBlocks) \ (BlocksOf(s) \cup drop[t])
    BY DEF Forgotten, s
  <1> QED BY <1>3, <1>4, <1>7, <1>8, <1>9

\* The error exit of create forgets the copies of the savepoint.
LEMMA FailForgets ==
  ASSUME Types, HeldInv, NEW t \in Threads, save_fails(t)
  PROVE  Forgotten(t)' = Forgotten(t) \cup BlocksOfOne(t, Len(sapos[t]))
  <1> DEFINE s == sapos[t]
             s1 == sapos'[t]
             N == Len(sapos[t])
             one == BlocksOfOne(t, Len(sapos[t]))
  <1>1. PICK n : n = Len(sapos[t]) - 1
    OBVIOUS
  <1>2. n \in 0 .. Len(s) /\ FirstOf(s, n, s1)
    BY <1>1, FailFacts DEF Types
  <1>3. /\ s \in Seq(Sapo) /\ N \in Nat /\ N # 0 /\ N \in 1 .. N /\ n + 1 = N
        /\ HeldBy(s, drop[t], held[t])
    <2>1. s \in Seq(Sapo) /\ N # 0 /\ HeldBy(s, drop[t], held[t])
      BY DEF Types, SapoTypes, HeldInv, save_fails
    <2>2. N \in Nat
      BY <2>1, SapoFacts
    <2> QED BY <1>1, <2>1, <2>2
  <1>4. UNCHANGED <<drop, held>>
    BY DEF save_fails, no_swap_block
  <1>5. s[N].pairs \in PairMaps
    <2> HIDE DEF s, N
    <2>1. Len(s) = N
      BY DEF s, N
    <2> QED BY <1>3, <2>1, SapoFacts
  <1>6. one = {s[N].pairs[p] : p \in DOMAIN s[N].pairs} /\ one \subseteq SwapBlocks
    BY <1>5, PairFacts DEF BlocksOfOne
  <1>7. \A b : b \in one <=> \E k \in n + 1 .. Len(s) : \E p \in DOMAIN s[k].pairs :
                                b = s[k].pairs[p]
    <2>1. \A k : k \in n + 1 .. Len(s) <=> k = N
      BY <1>3
    <2> HIDE DEF s, N, one
    <2> QED BY <1>6, <2>1
  <1> HIDE DEF one
  <1>8. BlocksOf(s1) \cup one = BlocksOf(s)
    BY <1>2, <1>3, <1>7, SplitBlocks
  <1>9. \A b : b \in BlocksOf(s1) <=>
           \E i \in 1 .. Len(s1) : \E q \in DOMAIN s1[i].pairs : b = s1[i].pairs[q]
    BY <1>2, BlocksOfFacts DEF FirstOf
  <1>10. \A k \in 1 .. Len(s1) : s1[k] = s[k] /\ k # N /\ k \in 1 .. N
    BY <1>2, <1>3 DEF FirstOf
  <1>11. \A b \in one : b \in held[t] /\ b \notin drop[t] /\ b \notin BlocksOf(s1)
    <2> HIDE DEF s, s1, N
    <2>0. N \in 1 .. Len(s) /\ 1 .. N = 1 .. Len(s)
      BY <1>3 DEF s, N
    <2> SUFFICES ASSUME NEW b \in one
                 PROVE  b \in held[t] /\ b \notin drop[t] /\ b \notin BlocksOf(s1)
      OBVIOUS
    <2>1. PICK p \in DOMAIN s[N].pairs : b = s[N].pairs[p]
      BY <1>6
    <2>2. b \in held[t] /\ b \notin drop[t]
      BY <1>3, <2>0, <2>1 DEF HeldBy
    <2>3. ASSUME b \in BlocksOf(s1) PROVE FALSE
      <3>1. PICK i \in 1 .. Len(s1) : \E q \in DOMAIN s1[i].pairs : b = s1[i].pairs[q]
        BY <1>9, <2>3
      <3>2. s1[i] = s[i] /\ i # N /\ i \in 1 .. Len(s)
        BY <1>10, <2>0
      <3>3. PICK q \in DOMAIN s[i].pairs : b = s[i].pairs[q]
        BY <3>1, <3>2
      <3>4. \A k, l \in 1 .. Len(s) :
              \A x \in DOMAIN s[k].pairs : \A y \in DOMAIN s[l].pairs :
                 s[k].pairs[x] = s[l].pairs[y] => k = l /\ x = y
        BY <1>3 DEF HeldBy
      <3>5. i = N
        BY <2>0, <2>1, <3>2, <3>3, <3>4
      <3> QED BY <3>2, <3>5
    <2> QED BY <2>2, <2>3
  <1>12. Forgotten(t)' = (held'[t] \cap SwapBlocks) \ (BlocksOf(s1) \cup drop'[t])
    BY DEF Forgotten, BlocksOf
  <1>13. Forgotten(t) = (held[t] \cap SwapBlocks) \ (BlocksOf(s) \cup drop[t])
    BY DEF Forgotten
  <1> HIDE DEF s, s1, N
  <1>14. Forgotten(t)' = Forgotten(t) \cup one
    BY <1>4, <1>6, <1>8, <1>11, <1>12, <1>13
  <1> QED BY <1>14 DEF one

\* Every step of a client.
LEMMA ForgottenByClient ==
  ASSUME Types, HeldInv, WriteInv, JobInv, NEW t \in Threads, ClientStep(t)
  PROVE  Forgets(t)
  <1>0. SapoTypes /\ LogTypes /\ sapos[t] \in Seq(Sapo)
    BY DEF Types, SapoTypes
  <1>1. ASSUME UNCHANGED <<sapos, drop, held>> PROVE Forgotten(t)' = Forgotten(t)
    BY <1>1, SameForgotten
  <1>2. ASSUME NEW p \in Pages,
               \/ fix_priv_page(t, p) \/ page_changed(t, p) \/ free_block(t, p)
               \/ \E r \in Records : rec_changed(t, p, r)
               \/ wr_changes(t, p)
        PROVE  Forgotten(t)' = Forgotten(t)
    <2>1. CASE page_changed(t, p) \/ \E r \in Records : rec_changed(t, p, r)
      BY <1>1, <2>1 DEF page_changed, rec_changed, change, vars, sapoVars, jobVars
    <2>2. CASE fix_priv_page(t, p)
      BY <1>1, <2>2 DEF fix_priv_page, vars, sapoVars, jobVars
    <2>3. CASE free_block(t, p)
      BY <1>1, <2>3 DEF free_block, vars, sapoVars, jobVars
    <2>4. CASE wr_changes(t, p)
      BY <1>1, <2>4 DEF wr_changes, vars, sapoVars, jobVars
    <2> QED BY <1>2, <2>1, <2>2, <2>3, <2>4
  <1>3. ASSUME NEW p \in Pages, save_block(t, p) PROVE Forgotten(t)' = Forgotten(t)
    BY <1>3, SavedForgets
  <1>4. CASE save_begins(t)
    BY <1>1, <1>4 DEF save_begins, get_swap_block, savepointVars, sapoVars, jobVars, Forgets
  <1>5. CASE save_fails(t)
    BY <1>5, FailForgets DEF Forgets
  <1>6. CASE create_ends(t)
    BY <1>1, <1>6 DEF create_ends, vars, Forgets
  <1>7. ASSUME NEW block \in SwapBlocks, drop_block(t, block) PROVE Forgotten(t)' = Forgotten(t)
    <2>1. /\ block \in drop[t] /\ drop'[t] = drop[t] \ {block} /\ held'[t] = held[t] \ {block}
          /\ sapos' = sapos
      BY <1>7 DEF drop_block, IsLowest, free_swap_block, sapoVars, Types, SapoTypes,
                  TransactorInv, TypeOK
    <2>2. block \notin BlocksOf(sapos[t])
      BY <2>1, HeldImplied DEF CopiesHeld
    <2>3. Forgotten(t)' = (held'[t] \cap SwapBlocks) \ (BlocksOf(sapos[t]) \cup drop'[t])
      BY <2>1 DEF Forgotten, BlocksOf
    <2> QED BY <2>1, <2>2, <2>3 DEF Forgotten
  <1>8. ASSUME NEW name \in Names, sql_stmt_sapo(t, name) PROVE Forgotten(t)' = Forgotten(t)
    <2>1. PICK s : s = StatementSapos(t, name)
      OBVIOUS
    <2>2. /\ s \in Seq(Sapo) /\ BlocksOf(s) \cup drop'[t] = BlocksOf(sapos[t])
          /\ drop[t] = {}
      BY <1>0, <1>8, <2>1, StatementFacts, StatementBlocks DEF sql_stmt_sapo, Ready
    <2>3. create(t, s, name, FALSE) /\ held' = held
      BY <1>8, <2>1 DEF sql_stmt_sapo, StatementSapos, vars
    <2>4. Created(t, s, name, FALSE)
      <3>1. name \in Names \cup Numbers /\ FALSE \in BOOLEAN
        OBVIOUS
      <3> QED BY <1>0, <2>2, <2>3, <3>1, CreateFacts, ZenonT(60)
    <2>5. AddedTo(s, sapos'[t]) /\ sapos'[t][Len(s) + 1].pairs = << >>
      BY <2>4 DEF Created
    <2>6. BlocksOf(sapos'[t]) = BlocksOf(s)
      BY <2>2, <2>5, AddedBlocks
    <2> QED BY <2>2, <2>3, <2>6, SameForgotten
  <1>9. CASE begin_atomic(t)
    <2>1. PICK n : n = get_number(t)
      OBVIOUS
    <2>2. n \in Names \cup Numbers /\ TRUE \in BOOLEAN
      <3>1. get_number(t) \in Numbers
        BY <1>0, GetNumber DEF SapoTypes
      <3> QED BY <2>1, <3>1
    <2>3. create(t, sapos[t], n, TRUE) /\ UNCHANGED <<held, drop>>
      BY <1>9, <2>1 DEF begin_atomic, vars
    <2>4. Created(t, sapos[t], n, TRUE)
      BY <1>0, <2>2, <2>3, CreateFacts, ZenonT(60)
    <2>5. AddedTo(sapos[t], sapos'[t]) /\ sapos'[t][Len(sapos[t]) + 1].pairs = << >>
      BY <2>4 DEF Created
    <2>6. BlocksOf(sapos'[t]) = BlocksOf(sapos[t])
      BY <1>0, <2>5, AddedBlocks
    <2> QED BY <2>3, <2>6, SameForgotten DEF Forgets
  <1>10. ASSUME NEW i \in Nat \ {0}, destroy_from(t, i), drop[t] = {},
                held'[t] \cap SwapBlocks = held[t] \cap SwapBlocks
         PROVE  Forgotten(t)' = Forgotten(t)
    <2>1. BlocksOf(sapos'[t]) \cup drop'[t] = BlocksOf(sapos[t])
      BY <1>0, <1>10, DestroyBlocks
    <2> QED BY <1>10, <2>1, SameForgotten
  <1>11. ASSUME NEW name \in Names, sql_stmt_rel_sapo(t, name) PROVE Forgotten(t)' = Forgotten(t)
    <2>1. /\ find_sapo(t, name) \in Nat \ {0} /\ destroy_from(t, find_sapo(t, name))
          /\ held' = held /\ drop[t] = {}
      BY <1>0, <1>11, FoundSapo DEF sql_stmt_rel_sapo, Ready, vars
    <2> QED BY <1>10, <2>1
  <1>12. ASSUME NEW name \in Names, rollback_to_savepoint(t, name)
         PROVE  Forgotten(t)' = Forgotten(t)
    <2>1. /\ find_sapo(t, name) + 1 \in Nat \ {0} /\ destroy_from(t, find_sapo(t, name) + 1)
          /\ held' = held /\ drop[t] = {}
      BY <1>0, <1>12, FoundSapo DEF rollback_to_savepoint, Ready, vars
    <2> QED BY <1>10, <2>1
  <1>13. CASE undo_block(t)
    <2>1. /\ Len(sapos'[t]) = Len(sapos[t])
          /\ \A k \in 1 .. Len(sapos[t]) : sapos'[t][k].pairs = sapos[t][k].pairs
      BY <1>13, UndoFacts DEF Types
    <2>2. UNCHANGED <<drop, held>>
      BY <1>13 DEF undo_block, vars, jobVars
    <2>3. SapoTypes'
      BY TypesOfClient
    <2>4. sapos'[t] \in Seq(Sapo)
      BY <2>3 DEF SapoTypes
    <2>5. BlocksOf(sapos'[t]) = BlocksOf(sapos[t])
      BY <1>0, <2>1, <2>4, SameBlocks
    <2> QED BY <2>2, <2>5, SameForgotten DEF Forgets
  <1>14. CASE end_atomic(t)
    <2>1. /\ Innermost(t).ind \in Nat \ {0} /\ destroy_from(t, Innermost(t).ind)
          /\ held' = held /\ drop[t] = {}
      BY <1>0, <1>14, InnermostFacts DEF end_atomic, Ready, vars
    <2> QED BY <1>10, <2>1 DEF Forgets
  <1>15. CASE roll_back(t)
    <2>1. destroy_from(t, 1) /\ held' = held /\ drop[t] = {} /\ 1 \in Nat \ {0}
      BY <1>15 DEF roll_back, Terminated, MayTerminate, Ready, vars
    <2> QED BY <1>10, <2>1 DEF Forgets
  <1>16. CASE commit(t)
    <2>1. UNCHANGED <<sapos, drop>>
      BY <1>16 DEF commit, sapoVars
    <2>2. PICK b \in TjcBlocks : held' = [held EXCEPT ![t] = @ \cup {b}]
      BY <1>16 DEF commit, save_tjc_block
    <2>3. held'[t] = held[t] \cup {b}
      BY <2>2 DEF Types, TransactorInv, TypeOK
    <2>4. held'[t] \cap SwapBlocks = held[t] \cap SwapBlocks
      BY <2>3, BlockNumbers
    <2> QED BY <2>1, <2>4, SameForgotten DEF Forgets
  <1>17. CASE commit_ends(t)
    <2>1. /\ destroy_from(t, 1) /\ held'[t] = held[t] \ TjcBlocks /\ drop[t] = {} /\ 1 \in Nat \ {0}
      BY <1>17 DEF commit_ends, Terminated, free_tjc_blocks, Types, WriteInv,
                   TransactorInv, TypeOK
    <2>2. held'[t] \cap SwapBlocks = held[t] \cap SwapBlocks
      BY <2>1, BlockNumbers
    <2> QED BY <1>10, <2>1, <2>2 DEF Forgets
  <1> QED BY <1>2, <1>3, <1>4, <1>5, <1>6, <1>7, <1>8, <1>9, <1>11, <1>12, <1>13, <1>14,
             <1>15, <1>16, <1>17 DEF ClientStep, Forgets

\* A step of one client forgets nothing of another one.
LEMMA ForgottenNext ==
  ASSUME Types, HeldInv, WriteInv, JobInv, [SavepointsNext]_allVars
  PROVE  \A t \in Threads : Forgets(t)
  <1>1. ASSUME NEW t \in Threads, ClientStep(t), NEW u \in Threads PROVE Forgets(u)
    <2>1. CASE u = t
      BY <1>1, <2>1, ForgottenByClient
    <2>2. CASE u # t
      <3>1. sapos'[u] = sapos[u] /\ drop'[u] = drop[u] /\ held'[u] = held[u]
        BY <1>1, <2>2, OthersKept DEF OwnParts, OnlyFor
      <3>2. Forgotten(u)' = Forgotten(u)
        BY <3>1, SameForgotten
      <3> QED BY <3>2 DEF Forgets
    <2> QED BY <2>1, <2>2
  <1>2. ASSUME UNCHANGED allVars, NEW u \in Threads PROVE Forgets(u)
    <2>1. UNCHANGED <<sapos, drop, held>>
      BY <1>2 DEF allVars, savepointVars, vars, sapoVars, jobVars
    <2>2. Forgotten(u)' = Forgotten(u)
      BY <2>1, SameForgotten
    <2> QED BY <2>2 DEF Forgets
  <1> QED BY <1>1, <1>2, StepOfClient

\* Swap blocks are lost only by the error exit of create, which loses the
\* copies of the savepoint it was creating: every other destruction of
\* savepoints, in whatever order SQL programs do it and whatever other clients
\* do meanwhile, frees every block that no remaining savepoint needs.
THEOREM NothingElseForgotten == SavepointsSpec => OnlyFailedCreateForgets
<1>1. SavepointsInit => Types /\ HeldInv /\ WriteInv /\ JobInv
  BY TypesInit, HeldStart, JobStart
<1>2. Types /\ HeldInv /\ WriteInv /\ JobInv /\ [SavepointsNext]_allVars
        => Types' /\ HeldInv' /\ WriteInv' /\ JobInv'
  BY TypesNext, HeldNext, JobNext
<1>3. Types /\ HeldInv /\ WriteInv /\ JobInv /\ [SavepointsNext]_allVars
        => \A t \in Threads : Forgets(t)
  BY ForgottenNext
<1>4. Types /\ HeldInv /\ WriteInv /\ JobInv /\ [SavepointsNext]_allVars
        => [\A t \in Threads :
          \/ Forgotten(t)' = Forgotten(t)
          \/ /\ save_fails(t)
             /\ Forgotten(t)' = Forgotten(t) \cup BlocksOfOne(t, Len(sapos[t]))]_allVars
  BY <1>3 DEF Forgets
<1> QED BY <1>1, <1>2, <1>4, PTL DEF SavepointsSpec, OnlyFailedCreateForgets

\* In an atomic block programs name only savepoints of this block.
InnerNamed == "outer savepoint" \notin Programs

\* Nothing is being created before and after: the job does not matter.
LEMMA AtomicJob ==
  ASSUME NEW s, NEW bl, NEW ja, NEW jb, AtomicOK(s, bl, ja), ja # "save", jb # "save",
         jb = "write" => Len(bl) = 0
  PROVE  AtomicOK(s, bl, jb)
  <1>1. \A i : ~Unfinished(s, ja, i) /\ ~Unfinished(s, jb, i)
    BY DEF Unfinished
  <1> QED BY <1>1 DEF AtomicOK

\* A transaction ends only outside of atomic blocks.
LEMMA NoAtomicBlock ==
  ASSUME Types, AtomicInv, NEW t \in Threads, MayTerminate(t)
  PROVE  Len(blocks[t]) = 0 /\ \A i \in 1 .. Len(sapos[t]) : ~sapos[t][i].atomic
  <1>1. /\ sapos[t] \in Seq(Sapo) /\ Len(sapos[t]) \in Nat
        /\ blocks[t] \in Seq(AtomicBlock) /\ Len(blocks[t]) \in Nat
    BY SapoFacts, SeqFacts DEF Types, SapoTypes
  <1>2. \A i \in 1 .. Len(sapos[t]) : sapos[t][i].atomic => i <= 0
    BY <1>1, FindAtomic DEF MayTerminate
  <1>3. \A i \in 1 .. Len(sapos[t]) : ~sapos[t][i].atomic
    BY <1>1, <1>2
  <1>4. ASSUME Len(blocks[t]) # 0 PROVE FALSE
    <2>1. 1 \in 1 .. Len(blocks[t])
      BY <1>1, <1>4
    <2> QED BY <1>3, <2>1 DEF AtomicInv, AtomicOK
  <1> QED BY <1>3, <1>4

\* A savepoint in the innermost atomic block is behind all atomic ones.
LEMMA BehindAtomic ==
  ASSUME Types, NEW t \in Threads, NEW i \in 1 .. Len(sapos[t]), Inner(t, i)
  PROVE  \A j \in 1 .. Len(sapos[t]) : sapos[t][j].atomic => j < i
  <1>1. sapos[t] \in Seq(Sapo) /\ Len(sapos[t]) \in Nat
    BY SapoFacts DEF Types, SapoTypes
  <1>2. /\ find_atomic_index(t) \in 0 .. Len(sapos[t])
        /\ \A j \in 1 .. Len(sapos[t]) : sapos[t][j].atomic => j <= find_atomic_index(t)
    BY <1>1, FindAtomic
  <1>3. find_atomic_index(t) < i
    BY <1>1 DEF Inner
  <1> QED BY <1>1, <1>2, <1>3

\* Savepoints behind all atomic ones are destroyed, no atomic block is left.
LEMMA AtomicDestroyed ==
  ASSUME Types, AtomicInv, NEW t \in Threads, NEW i \in Nat \ {0}, destroy_from(t, i),
         \A j \in 1 .. Len(sapos[t]) : sapos[t][j].atomic => j < i,
         job[t] # "save", job'[t] = "run", UNCHANGED blocks
  PROVE  AtomicOK(sapos'[t], blocks'[t], job'[t])
  <1> DEFINE n == IF i > Len(sapos[t]) THEN Len(sapos[t]) ELSE i - 1
  <1>1. n \in 0 .. Len(sapos[t]) /\ FirstOf(sapos[t], n, sapos'[t])
    <2>1. n = IF i > Len(sapos[t]) THEN Len(sapos[t]) ELSE i - 1
      OBVIOUS
    <2> HIDE DEF n
    <2> QED BY <2>1, DestroyFacts DEF Types
  <1>2. /\ sapos[t] \in Seq(Sapo) /\ Len(sapos[t]) \in Nat /\ blocks[t] \in Seq(AtomicBlock)
    BY SapoFacts DEF Types, SapoTypes
  <1>3. \A j \in 1 .. Len(sapos[t]) : sapos[t][j].atomic => j <= n
    BY <1>2
  <1> HIDE DEF n
  <1>4. AtomicOK(sapos[t], blocks[t], "run")
    <2>1. AtomicOK(sapos[t], blocks[t], job[t])
      BY DEF AtomicInv
    <2> QED BY <2>1, AtomicJob
  <1>5. AtomicOK(sapos'[t], blocks[t], "run")
    BY <1>1, <1>2, <1>3, <1>4, AtomicFirst
  <1> QED BY <1>5

\* The atomic blocks of a client that makes a step.
LEMMA AtomicOfClient ==
  ASSUME Types, JobInv, AtomicInv, NEW t \in Threads, ClientStep(t),
         InnerNamed
  PROVE  AtomicOK(sapos'[t], blocks'[t], job'[t])
  <1> DEFINE Good == AtomicOK(sapos'[t], blocks'[t], job'[t])
  <1>1. /\ sapos[t] \in Seq(Sapo) /\ Len(sapos[t]) \in Nat /\ blocks[t] \in Seq(AtomicBlock)
        /\ Len(blocks[t]) \in Nat /\ sapos'[t] \in Seq(Sapo) /\ blocks'[t] \in Seq(AtomicBlock)
        /\ AtomicOK(sapos[t], blocks[t], job[t])
    <2>1. SapoTypes'
      BY TypesOfClient
    <2> QED BY <2>1, SapoFacts, SeqFacts DEF Types, SapoTypes, AtomicInv
  <1>2. ASSUME NEW p \in Pages,
               \/ fix_priv_page(t, p) \/ page_changed(t, p) \/ free_block(t, p)
               \/ \E r \in Records : rec_changed(t, p, r)
               \/ wr_changes(t, p)
        PROVE  Good
    <2>1. UNCHANGED <<sapos, blocks, job>>
      <3>1. CASE page_changed(t, p) \/ \E r \in Records : rec_changed(t, p, r)
        BY <3>1 DEF page_changed, rec_changed, change, sapoVars, jobVars
      <3>2. CASE fix_priv_page(t, p)
        BY <3>2 DEF fix_priv_page, sapoVars, jobVars
      <3>3. CASE free_block(t, p)
        BY <3>3 DEF free_block, sapoVars, jobVars
      <3>4. CASE wr_changes(t, p)
        BY <3>4 DEF wr_changes, sapoVars, jobVars
      <3> QED BY <1>2, <3>1, <3>2, <3>3, <3>4
    <2> QED BY <1>1, <2>1
  <1>3. ASSUME NEW p \in Pages, save_block(t, p) PROVE Good
    <2>1. PICK b \in SwapBlocks : Saved(t, p, b)
      BY <1>3, SaveFacts
    <2>2. UNCHANGED <<blocks, job>>
      BY <1>3 DEF save_block
    <2>3. /\ Len(sapos'[t]) = Len(sapos[t]) /\ Len(sapos[t]) # 0
          /\ \A k \in 1 .. Len(sapos[t]) :
               /\ sapos'[t][k].id = sapos[t][k].id
               /\ sapos'[t][k].atomic = sapos[t][k].atomic
               /\ sapos'[t][k].mark = sapos[t][k].mark
               /\ sapos'[t][k].undone = sapos[t][k].undone
      BY <2>1 DEF Saved
    <2>4. AtomicOK(sapos'[t], blocks[t], job[t])
      BY <1>1, <2>3, AtomicSame
    <2> QED BY <2>2, <2>4
  <1>4. CASE save_begins(t)
    <2>1. UNCHANGED <<sapos, blocks, job>>
      BY <1>4 DEF save_begins, savepointVars, sapoVars, jobVars
    <2> QED BY <1>1, <2>1
  <1>5. CASE save_fails(t)
    <2> DEFINE n == Len(sapos[t]) - 1
    <2>1. n \in 0 .. Len(sapos[t]) /\ FirstOf(sapos[t], n, sapos'[t])
      <3>1. n = Len(sapos[t]) - 1
        OBVIOUS
      <3> HIDE DEF n
      <3> QED BY <1>5, <3>1, FailFacts DEF Types
    <2>2. n = Len(sapos[t]) - 1
      OBVIOUS
    <2> HIDE DEF n
    <2>3. job[t] = "save" /\ job'[t] = "run" /\ UNCHANGED blocks
      BY <1>5 DEF save_fails, Types, SapoTypes
    <2>4. AtomicOK(sapos[t], blocks[t], "save")
      BY <1>1, <2>3
    <2>5. AtomicOK(sapos'[t], blocks[t], "run")
      BY <1>1, <2>1, <2>2, <2>4, AtomicFails
    <2> QED BY <2>3, <2>5
  <1>6. CASE create_ends(t)
    <2> DEFINE n == Len(sapos[t])
               m == Len(blocks[t]) + 1
    <2>1. job[t] = "save" /\ job'[t] = "run" /\ UNCHANGED sapos
      BY <1>6 DEF create_ends, Types, SapoTypes
    <2>2. AtomicOK(sapos[t], blocks[t], "save")
      BY <1>1, <2>1
    <2>3. n = Len(sapos[t]) /\ n \in 1 .. Len(sapos[t]) /\ Len(sapos[t]) # 0
      BY <1>1, <2>1 DEF Types, SapoTypes
    <2> HIDE DEF n
    <2>4. /\ ~sapos[t][n].atomic => blocks' = blocks
          /\ sapos[t][n].atomic =>
              /\ Len(blocks'[t]) = Len(blocks[t]) + 1
              /\ \A k \in 1 .. Len(blocks[t]) : blocks'[t][k] = blocks[t][k]
              /\ blocks'[t][Len(blocks[t]) + 1] =
                   [num |-> sapos[t][n].id, ind |-> find_sapo(t, sapos[t][n].id),
                    mark |-> mine[t]]
      BY <1>6, <2>3, EndFacts DEF Types
    <2>5. CASE ~sapos[t][n].atomic
      <3>1. AtomicOK(sapos[t], blocks[t], "run")
        BY <2>2, <2>3, <2>5, AtomicCompleted
      <3> QED BY <2>1, <2>4, <2>5, <3>1
    <2>6. CASE sapos[t][n].atomic
      <3> DEFINE id == sapos[t][n].id
      <3>1. /\ blocks'[t][m].num = id /\ blocks'[t][m].ind = find_sapo(t, id)
            /\ blocks'[t][m].mark = mine[t]
        BY <2>4, <2>6
      <3>2. sapos[t][n].undone = FALSE /\ sapos[t][n].mark = mine[t]
        BY <2>1, <2>3 DEF JobInv, JobOK
      <3>3. find_sapo(t, id) \in 1 .. Len(sapos[t]) /\ sapos[t][find_sapo(t, id)].id = id
        <4>1. id = sapos[t][n].id
          OBVIOUS
        <4> HIDE DEF id
        <4>2. find_sapo(t, id) \in 0 .. Len(sapos[t]) /\ find_sapo(t, id) # 0
          BY <1>1, <2>3, <4>1, FindSapo
        <4> QED BY <1>1, <4>2, FindSapo
      <3>4. Len(blocks'[t]) = m /\ \A k \in 1 .. Len(blocks[t]) : blocks'[t][k] = blocks[t][k]
        BY <2>4, <2>6
      <3>5. AtomicOK(sapos[t], blocks'[t], "run")
        BY <1>1, <2>2, <2>3, <2>6, <3>1, <3>2, <3>3, <3>4, AtomicBegins
      <3> QED BY <2>1, <3>5
    <2> QED BY <2>5, <2>6
  <1>7. ASSUME NEW block \in SwapBlocks, drop_block(t, block) PROVE Good
    <2>1. UNCHANGED <<sapos, blocks, job>>
      BY <1>7 DEF drop_block, sapoVars
    <2> QED BY <1>1, <2>1
  <1>8. ASSUME NEW name \in Names, sql_stmt_sapo(t, name) PROVE Good
    <2> DEFINE i == find_sapo(t, name)
               s == StatementSapos(t, name)
    <2>1. /\ create(t, s, name, FALSE) /\ Inner(t, i) /\ job[t] = "run" /\ UNCHANGED blocks
      BY <1>8, ZenonT(60) DEF sql_stmt_sapo, StatementSapos, Ready, InnerNamed
    <2>2. /\ i \in 0 .. Len(sapos[t])
          /\ s \in Seq(Sapo)
          /\ i = 0 => s = sapos[t]
          /\ i # 0 => /\ Len(s) = Len(sapos[t]) - 1
                      /\ \A k \in 1 .. Len(sapos[t]) - 1 :
                            s[k] = sapos[t][IF k < i THEN k ELSE k + 1]
      BY StatementFacts DEF Types
    <2> HIDE DEF i, s
    <2>3. AtomicOK(sapos[t], blocks[t], "run")
      BY <1>1, <2>1
    <2>4. AtomicOK(s, blocks[t], "run")
      <3>1. CASE i = 0
        BY <2>2, <2>3, <3>1
      <3>2. CASE i # 0
        <4>1. i \in 1 .. Len(sapos[t])
          BY <1>1, <2>2, <3>2
        <4>2. \A j \in 1 .. Len(sapos[t]) : sapos[t][j].atomic => j < i
          BY <2>1, <4>1, BehindAtomic
        <4> QED BY <1>1, <2>2, <2>3, <3>2, <4>1, <4>2, AtomicWithout
      <3> QED BY <3>1, <3>2
    <2>5. Created(t, s, name, FALSE)
      <3>1. name \in Names \cup Numbers /\ FALSE \in BOOLEAN /\ SapoTypes /\ LogTypes
        BY DEF Types
      <3> QED BY <2>1, <2>2, <3>1, CreateFacts, ZenonT(60)
    <2>6. AddedTo(s, sapos'[t]) /\ sapos'[t][Len(s) + 1].atomic = FALSE /\ job'[t] = "save"
      BY <2>5 DEF Created
    <2>7. AtomicOK(sapos'[t], blocks[t], "save")
      BY <1>1, <2>2, <2>4, <2>6, AtomicAdded
    <2> QED BY <2>1, <2>6, <2>7
  <1>9. CASE begin_atomic(t)
    <2> DEFINE s == sapos[t]
               n == get_number(t)
    <2>1. /\ create(t, s, n, TRUE) /\ job[t] = "run" /\ UNCHANGED blocks
      BY <1>9 DEF begin_atomic, Ready
    <2>2. s \in Seq(Sapo) /\ n \in Numbers /\ \A j \in 1 .. Len(s) : s[j].id # n
      BY GetNumber DEF Types, SapoTypes
    <2>3. AtomicOK(s, blocks[t], "run")
      BY <1>1, <2>1
    <2> HIDE DEF s, n
    <2>4. Created(t, s, n, TRUE)
      <3>1. n \in Names \cup Numbers /\ TRUE \in BOOLEAN /\ SapoTypes /\ LogTypes
        BY <2>2 DEF Types
      <3> QED BY <2>1, <2>2, <3>1, CreateFacts, ZenonT(60)
    <2>5. AddedTo(s, sapos'[t]) /\ sapos'[t][Len(s) + 1].id = n /\ job'[t] = "save"
      BY <2>4 DEF Created
    <2>6. AtomicOK(sapos'[t], blocks[t], "save")
      BY <1>1, <2>2, <2>3, <2>5, AtomicAdded
    <2> QED BY <2>1, <2>5, <2>6
  <1>10. ASSUME NEW name \in Names, sql_stmt_rel_sapo(t, name) PROVE Good
    <2> DEFINE i == find_sapo(t, name)
    <2>1. /\ i # 0 /\ Inner(t, i) /\ destroy_from(t, i) /\ job[t] = "run"
          /\ UNCHANGED <<blocks, job>>
      BY <1>10, ZenonT(60) DEF sql_stmt_rel_sapo, Ready, InnerNamed
    <2>2. i \in 1 .. Len(sapos[t]) /\ i \in Nat \ {0}
      BY <2>1, FoundSapo DEF Types
    <2> HIDE DEF i
    <2>3. \A j \in 1 .. Len(sapos[t]) : sapos[t][j].atomic => j < i
      BY <2>1, <2>2, BehindAtomic
    <2> QED BY <2>1, <2>2, <2>3, AtomicDestroyed
  <1>11. ASSUME NEW name \in Names, rollback_to_savepoint(t, name) PROVE Good
    <2> DEFINE i == find_sapo(t, name)
    <2>1. /\ i # 0 /\ Inner(t, i) /\ destroy_from(t, i + 1) /\ job[t] = "run"
          /\ UNCHANGED <<blocks, job>>
      BY <1>11 DEF rollback_to_savepoint, Ready
    <2>2. i \in 1 .. Len(sapos[t]) /\ i + 1 \in Nat \ {0}
      BY <2>1, FoundSapo DEF Types
    <2> HIDE DEF i
    <2>3. \A j \in 1 .. Len(sapos[t]) : sapos[t][j].atomic => j < i + 1
      <3>1. \A j \in 1 .. Len(sapos[t]) : sapos[t][j].atomic => j < i
        BY <2>1, <2>2, BehindAtomic
      <3>2. i \in Int /\ \A j \in 1 .. Len(sapos[t]) : j \in Int
        BY <1>1, <2>2
      <3>3. \A j \in Int : j < i => j < i + 1
        BY <3>2
      <3> QED BY <3>1, <3>2, <3>3
    <2> QED BY <2>1, <2>2, <2>3, AtomicDestroyed
  <1>12. CASE undo_block(t)
    <2> DEFINE m == Len(blocks[t])
    <2>1. job[t] = "run" /\ UNCHANGED <<blocks, job>> /\ blocks[t] # << >>
      BY <1>12 DEF undo_block, Ready, jobVars
    <2>2. m \in Nat \ {0} /\ Innermost(t) = blocks[t][m]
      BY <2>1, InnermostFacts DEF Types
    <2>3. ASSUME NEW l \in 1 .. m
          PROVE  blocks[t][l].ind \in Nat /\ blocks[t][l].ind <= blocks[t][m].ind
                 /\ blocks[t][m].ind \in Nat
      <3>1. m \in 1 .. m /\ (l = m \/ l < m)
        BY <2>2
      <3>2. /\ blocks[t][l].ind \in 1 .. Len(sapos[t]) /\ blocks[t][m].ind \in 1 .. Len(sapos[t])
            /\ l < m => blocks[t][l].ind < blocks[t][m].ind
        BY <1>1, <3>1 DEF AtomicOK
      <3> QED BY <1>1, <3>1, <3>2
    <2> HIDE DEF m
    <2>4. /\ Len(sapos'[t]) = Len(sapos[t])
          /\ \A k \in 1 .. Len(sapos[t]) :
               /\ sapos'[t][k].id = sapos[t][k].id
               /\ sapos'[t][k].atomic = sapos[t][k].atomic
               /\ sapos'[t][k].mark = sapos[t][k].mark
               /\ sapos'[t][k].undone <=> sapos[t][k].undone \/ k > Innermost(t).ind
      BY <1>12, UndoFacts DEF Types
    <2>5. ASSUME NEW k \in 1 .. Len(sapos[t]), sapos'[t][k].undone
          PROVE  sapos[t][k].undone \/ \A l \in 1 .. Len(blocks[t]) : blocks[t][l].ind < k
      <3>1. CASE sapos[t][k].undone
        BY <3>1
      <3>2. CASE k > Innermost(t).ind
        <4>1. m = Len(blocks[t])
          BY DEF m
        <4> QED BY <1>1, <2>2, <2>3, <3>2, <4>1
      <3> QED BY <2>4, <2>5, <3>1, <3>2
    <2>6. AtomicOK(sapos'[t], blocks[t], job[t])
      BY <1>1, <2>1, <2>4, <2>5, AtomicSame
    <2> QED BY <2>1, <2>6
  <1>13. CASE end_atomic(t)
    <2> DEFINE m == Len(blocks[t])
               i == Innermost(t).ind
               n == IF i > Len(sapos[t]) THEN Len(sapos[t]) ELSE i - 1
    <2>1. /\ job[t] = "run" /\ UNCHANGED job /\ blocks[t] # << >> /\ destroy_from(t, i)
      BY <1>13 DEF end_atomic, Ready
    <2>2. m \in Nat \ {0} /\ i = blocks[t][m].ind /\ i \in Nat \ {0}
      BY <2>1, InnermostFacts DEF Types
    <2>3. i \in 1 .. Len(sapos[t])
      <3>1. m \in 1 .. m
        BY <2>2
      <3> QED BY <1>1, <2>2, <3>1 DEF AtomicOK
    <2>4. n = i - 1
      BY <1>1, <2>3
    <2>5. n \in 0 .. Len(sapos[t]) /\ FirstOf(sapos[t], n, sapos'[t])
      <3>1. n = IF i > Len(sapos[t]) THEN Len(sapos[t]) ELSE i - 1
        OBVIOUS
      <3> HIDE DEF n, i
      <3> QED BY <2>1, <2>2, <3>1, DestroyFacts DEF Types
    <2>6. Len(blocks'[t]) = m - 1 /\ \A k \in 1 .. m - 1 : blocks'[t][k] = blocks[t][k]
      BY <1>13, LeftBlock DEF Types
    <2>7. m = Len(blocks[t])
      OBVIOUS
    <2>8. AtomicOK(sapos[t], blocks[t], "run")
      BY <1>1, <2>1
    <2> HIDE DEF m, n, i
    <2>9. n = blocks[t][m].ind - 1
      BY <2>2, <2>4
    <2>10. AtomicOK(sapos'[t], blocks'[t], "run")
      BY <1>1, <2>2, <2>5, <2>6, <2>7, <2>8, <2>9, AtomicEnds
    <2> QED BY <2>1, <2>10
  <1>14. CASE roll_back(t)
    <2>1. /\ destroy_from(t, 1) /\ job[t] = "run" /\ UNCHANGED <<blocks, job>> /\ MayTerminate(t)
      BY <1>14 DEF roll_back, Terminated, MayTerminate, Ready
    <2>2. 1 \in Nat \ {0} /\ \A j \in 1 .. Len(sapos[t]) : sapos[t][j].atomic => j < 1
      BY <2>1, NoAtomicBlock
    <2> QED BY <2>1, <2>2, AtomicDestroyed
  <1>15. CASE commit(t)
    <2>1. job[t] = "run" /\ job'[t] = "write" /\ UNCHANGED <<sapos, blocks>> /\ MayTerminate(t)
      BY <1>15 DEF commit, MayTerminate, Ready, sapoVars, Types, SapoTypes
    <2>2. Len(blocks[t]) = 0
      BY <2>1, NoAtomicBlock
    <2>3. AtomicOK(sapos[t], blocks[t], "write")
      BY <1>1, <2>1, <2>2, AtomicJob
    <2> QED BY <2>1, <2>3
  <1>16. CASE commit_ends(t)
    <2>1. destroy_from(t, 1) /\ job[t] = "write" /\ job'[t] = "run" /\ UNCHANGED blocks
      BY <1>16 DEF commit_ends, Terminated, Types, SapoTypes
    <2>2. \A j \in 1 .. Len(sapos[t]) : ~sapos[t][j].atomic
      <3>1. Len(blocks[t]) = 0
        BY <1>1, <2>1 DEF AtomicOK
      <3>2. 1 .. Len(blocks[t]) = {}
        BY <3>1
      <3>3. \A i : ~Unfinished(sapos[t], job[t], i)
        BY <2>1 DEF Unfinished
      <3> QED BY <1>1, <3>2, <3>3 DEF AtomicOK
    <2>3. 1 \in Nat \ {0} /\ \A j \in 1 .. Len(sapos[t]) : sapos[t][j].atomic => j < 1
      BY <2>2
    <2> QED BY <2>1, <2>3, AtomicDestroyed
  <1> QED BY <1>2, <1>3, <1>4, <1>5, <1>6, <1>7, <1>8, <1>9, <1>10, <1>11, <1>12,
             <1>13, <1>14, <1>15, <1>16 DEF ClientStep

\* Atomic blocks of other clients are not disturbed.
LEMMA AtomicNext ==
  ASSUME InnerNamed, Types, JobInv, AtomicInv, [SavepointsNext]_allVars
  PROVE  AtomicInv'
  <1>1. ASSUME NEW t \in Threads, ClientStep(t) PROVE AtomicInv'
    <2>1. AtomicOK(sapos'[t], blocks'[t], job'[t])
      BY <1>1, AtomicOfClient
    <2>2. \A u \in Threads : u # t => /\ sapos'[u] = sapos[u] /\ job'[u] = job[u]
                                     /\ blocks'[u] = blocks[u]
      BY <1>1, OthersKept DEF OwnParts, OnlyFor
    <2>3. \A u \in Threads : u # t => AtomicOK(sapos'[u], blocks'[u], job'[u])
      BY <2>2 DEF AtomicInv
    <2> QED BY <2>1, <2>3 DEF AtomicInv
  <1>2. ASSUME UNCHANGED allVars PROVE AtomicInv'
    <2>1. UNCHANGED <<sapos, blocks, job>>
      BY <1>2 DEF allVars, savepointVars, sapoVars, jobVars
    <2> QED BY <2>1 DEF AtomicInv
  <1>3. (\E t \in Threads : ClientStep(t)) \/ UNCHANGED allVars
    BY StepOfClient
  <1> QED BY <1>1, <1>2, <1>3

\* At the start there are no atomic blocks.
LEMMA AtomicStart == SavepointsInit => AtomicInv
  <1> SUFFICES ASSUME SavepointsInit, NEW t \in Threads
               PROVE  AtomicOK(sapos[t], blocks[t], job[t])
    BY DEF AtomicInv
  <1>1. sapos[t] = << >> /\ blocks[t] = << >> /\ job[t] = "run"
    BY DEF SavepointsInit
  <1>2. Len(<< >>) = 0 /\ 1 .. 0 = {}
    BY EmptySeq
  <1> QED BY <1>1, <1>2 DEF AtomicOK

\* There are as many atomic savepoints as atomic blocks.
LEMMA AtomicCount ==
  ASSUME NEW s \in Seq(Sapo), NEW bl \in Seq(AtomicBlock), NEW jb, AtomicOK(s, bl, jb),
         jb # "save"
  PROVE  Cardinality({i \in DOMAIN s : s[i].atomic}) = Len(bl)
  <1> DEFINE A == {i \in DOMAIN s : s[i].atomic}
             K == 1 .. Len(bl)
             f == [k \in K |-> bl[k].ind]
  <1>1. DOMAIN s = 1 .. Len(s) /\ Len(s) \in Nat /\ Len(bl) \in Nat
    BY SapoFacts, SeqFacts
  <1>2. \A k \in K : bl[k].ind \in 1 .. Len(s) /\ s[bl[k].ind].atomic
    BY DEF AtomicOK
  <1>3. f \in [K -> A]
    BY <1>1, <1>2
  <1>4. ASSUME NEW k \in K, NEW l \in K, f[k] = f[l] PROVE k = l
    <2>1. bl[k].ind = bl[l].ind /\ bl[k].ind \in 1 .. Len(s)
      BY <1>2, <1>4
    <2>2. /\ k < l => bl[k].ind < bl[l].ind
          /\ l < k => bl[l].ind < bl[k].ind
      BY DEF AtomicOK
    <2>3. ~(k < l) /\ ~(l < k)
      BY <1>1, <2>1, <2>2
    <2> QED BY <1>1, <2>3
  <1>5. ASSUME NEW i \in A PROVE \E k \in K : f[k] = i
    <2>1. PICK k \in K : bl[k].ind = i
      BY <1>1 DEF AtomicOK, Unfinished
    <2> QED BY <2>1
  <1> HIDE DEF A, f
  <1>6. f \in Injection(K, A) /\ f \in Surjection(K, A)
    BY <1>3, <1>4, <1>5 DEF Injection, Surjection, IsInjective
  <1>7. ExistsBijection(K, A)
    BY <1>6 DEF ExistsBijection, Bijection
  <1>8. IsFiniteSet(K) /\ Cardinality(K) = Len(bl)
    BY <1>1, IntervalFacts
  <1>9. Cardinality(A) = Len(bl)
    BY <1>7, <1>8, FS_Bijection
  <1> QED BY <1>9 DEF A

\* The property of the runs in the words of AtomicOK.
LEMMA AtomicImplied == Types /\ AtomicInv => AtomicIndexExact
  <1> SUFFICES ASSUME Types, AtomicInv, NEW t \in Threads, job[t] # "save"
               PROVE  /\ \A i \in DOMAIN blocks[t] :
                           /\ blocks[t][i].ind \in DOMAIN sapos[t]
                           /\ sapos[t][blocks[t][i].ind].atomic
                           /\ sapos[t][blocks[t][i].ind].id = blocks[t][i].num
                      /\ Cardinality({i \in DOMAIN sapos[t] : sapos[t][i].atomic})
                           = Len(blocks[t])
    BY DEF AtomicIndexExact
  <1>1. /\ sapos[t] \in Seq(Sapo) /\ blocks[t] \in Seq(AtomicBlock)
        /\ AtomicOK(sapos[t], blocks[t], job[t])
    BY DEF Types, SapoTypes, AtomicInv
  <1>2. DOMAIN sapos[t] = 1 .. Len(sapos[t]) /\ DOMAIN blocks[t] = 1 .. Len(blocks[t])
    BY <1>1, SeqFacts
  <1>3. Cardinality({i \in DOMAIN sapos[t] : sapos[t][i].atomic}) = Len(blocks[t])
    BY <1>1, AtomicCount
  <1> QED BY <1>1, <1>2, <1>3 DEF AtomicOK

\* Where programs name only savepoints of their own atomic block, sapo_ind is
\* always the index of the block's own savepoint, there are as many atomic
\* savepoints as blocks, and both stand in the same order: UNDO goes back to
\* the BEGIN of its block, and find_atomic_index lets COMMIT pass exactly
\* when no block is being executed.
THEOREM AtomicIndexIsExact ==
  ASSUME InnerNamed
  PROVE  SavepointsSpec => []AtomicIndexExact
<1>1. SavepointsInit => Types /\ JobInv /\ AtomicInv
  BY TypesInit, JobStart, AtomicStart
<1>2. Types /\ JobInv /\ AtomicInv /\ [SavepointsNext]_allVars
        => Types' /\ JobInv' /\ AtomicInv'
  BY TypesNext, JobNext, AtomicNext
<1>3. Types /\ AtomicInv => AtomicIndexExact
  BY AtomicImplied
<1> QED BY <1>1, <1>2, <1>3, PTL DEF SavepointsSpec

-----------------------------------------------------------------------------
(* What a client sees of a record *)

\* A record of a private page has the value that the client wants to commit,
\* or the value in the database if the client has no change of it.  Only the
\* owner of a record's lock has it in its map of changes.
RecordOK(t, p, r) ==
    /\ p \in log[t] => p \notin freed[t]
    /\ p \notin log[t] => r \notin chngmap[t][p]
    /\ mine[t][p][r] = Gone <=> p \in freed[t]
    /\ mine[t][p][r] \in Values =>
         p \in log[t] /\ r \in chngmap[t][p] /\ copy[t][p][r] = mine[t][p][r]
    /\ p \in log[t] /\ mine[t][p][r] = None => copy[t][p][r] = fil[p][r]
    /\ r \in chngmap[t][p] => lock[p][r] = t

PrivateOK(t) == \A p \in Pages, r \in Records : RecordOK(t, p, r)

PrivateInv == \A t \in Threads : PrivateOK(t)

\* The changes of a client are values, none, or that the page is freed.
MineOK(t) == \A p \in Pages, r \in Records : mine[t][p][r] \in Values \cup {None, Gone}

\* They are of this kind by their type.
LEMMA MineTypes ==
  ASSUME Types, NEW t \in Threads
  PROVE  MineOK(t)
  BY DEF Types, LogTypes, Changes, MineOK

\* A client sees what it should see.
LEMMA ViewIsExpected ==
  ASSUME Types, NEW t \in Threads, NEW p \in Pages, NEW r \in Records, RecordOK(t, p, r)
  PROVE  View(t, p, r) = Expected(t, p, r)
  <1>1. mine[t][p][r] \in Values \cup {None, Gone}
    BY MineTypes DEF MineOK
  <1>2. CASE p \in freed[t]
    <2>1. mine[t][p][r] = Gone /\ Gone # None
      BY <1>2, MarkFacts DEF RecordOK
    <2> QED BY <1>2, <2>1 DEF View, Expected
  <1>3. CASE p \notin freed[t] /\ p \in log[t]
    <2>1. CASE mine[t][p][r] \in Values
      <3>1. copy[t][p][r] = mine[t][p][r] /\ mine[t][p][r] # None
        BY <2>1, MarkFacts DEF RecordOK
      <3> QED BY <1>3, <3>1 DEF View, Expected
    <2>2. CASE mine[t][p][r] = None
      <3>1. copy[t][p][r] = fil[p][r]
        BY <1>3, <2>2 DEF RecordOK
      <3> QED BY <1>3, <2>2, <3>1 DEF View, Expected
    <2>3. mine[t][p][r] # Gone
      BY <1>3 DEF RecordOK
    <2> QED BY <1>1, <2>1, <2>2, <2>3
  <1>4. CASE p \notin freed[t] /\ p \notin log[t]
    <2>1. mine[t][p][r] = None
      BY <1>1, <1>4 DEF RecordOK
    <2> QED BY <1>4, <2>1 DEF View, Expected
  <1> QED BY <1>2, <1>3, <1>4

\* A record that a client does not touch.
LEMMA RecordKept ==
  ASSUME NEW t \in Threads, NEW p \in Pages, NEW r \in Records, RecordOK(t, p, r),
         p \in log'[t] <=> p \in log[t], p \in freed'[t] <=> p \in freed[t],
         r \in chngmap'[t][p] <=> r \in chngmap[t][p],
         mine'[t][p][r] = mine[t][p][r], copy'[t][p][r] = copy[t][p][r],
         fil'[p][r] = fil[p][r], lock[p][r] = t => lock'[p][r] = t
  PROVE  RecordOK(t, p, r)'
  BY DEF RecordOK

\* fix_priv_page: the private page is that of the database.
LEMMA FixRecords ==
  ASSUME Types, PrivateInv, NEW t \in Threads, NEW p \in Pages, fix_priv_page(t, p)
  PROVE  PrivateOK(t)'
  <1> SUFFICES ASSUME NEW q \in Pages, NEW r \in Records PROVE RecordOK(t, q, r)'
    BY DEF PrivateOK
  <1>1. /\ log' = [log EXCEPT ![t] = @ \cup {p}] /\ copy' = [copy EXCEPT ![t][p] = fil[p]]
        /\ UNCHANGED <<fil, lock, chngmap, freed, mine>>
        /\ p \notin log[t] \cup FullPages
    BY DEF fix_priv_page, pageVars
  <1>2. RecordOK(t, q, r) /\ mine[t][q][r] \in Values \cup {None, Gone}
    BY MineTypes DEF PrivateInv, PrivateOK, MineOK
  <1>3. CASE q # p
    <2>1. /\ q \in log'[t] <=> q \in log[t]
          /\ copy'[t][q][r] = copy[t][q][r]
      BY <1>1, <1>3 DEF Types, LogTypes
    <2> QED BY <1>1, <1>2, <2>1, RecordKept
  <1>4. CASE q = p
    <2>1. q \in log'[t] /\ copy'[t][q][r] = fil'[q][r]
      BY <1>1, <1>4 DEF Types, LogTypes
    <2>2. q \notin freed[t] /\ q \notin log[t]
      BY <1>1, <1>4 DEF Types, LogTypes
    <2>3. mine[t][q][r] = None /\ r \notin chngmap[t][q]
      BY <1>2, <2>2 DEF RecordOK
    <2>4. None # Gone /\ None \notin Values
      BY MarkFacts
    <2> QED BY <1>1, <2>1, <2>2, <2>3, <2>4 DEF RecordOK
  <1> QED BY <1>3, <1>4

\* change: the changed records are to be committed.
LEMMA ChangeRecords ==
  ASSUME Types, PrivateInv, NEW t \in Threads, NEW p \in Pages, NEW S \in SUBSET Records,
         p \notin freed[t], change(t, p, S)
  PROVE  PrivateOK(t)'
  <1> SUFFICES ASSUME NEW q \in Pages, NEW r \in Records PROVE RecordOK(t, q, r)'
    BY DEF PrivateOK
  <1> DEFINE c == [x \in Records |-> View(t, p, x) + (IF x \in S THEN 1 ELSE 0)]
             m == [x \in Records |-> IF x \in S THEN copy'[t][p][x] ELSE mine[t][p][x]]
             k == [x \in Records |-> IF x \in S THEN t ELSE lock[p][x]]
  <1>1. /\ lock' = [lock EXCEPT ![p] = k]
        /\ copy' = [copy EXCEPT ![t][p] = c]
        /\ log' = [log EXCEPT ![t] = @ \cup {p}]
        /\ chngmap' = [chngmap EXCEPT ![t][p] = @ \cup S]
        /\ mine' = [mine EXCEPT ![t][p] = m]
        /\ UNCHANGED <<fil, freed>>
    BY DEF change, Locked
  <1>2. RecordOK(t, q, r) /\ mine[t][q][r] \in Values \cup {None, Gone}
    BY MineTypes DEF PrivateInv, PrivateOK, MineOK
  <1>3. CASE q # p
    <2> HIDE DEF c, m, k
    <2>1. /\ q \in log'[t] <=> q \in log[t]
          /\ copy'[t][q][r] = copy[t][q][r] /\ mine'[t][q][r] = mine[t][q][r]
          /\ chngmap'[t][q] = chngmap[t][q] /\ lock'[q] = lock[q]
      BY <1>1, <1>3 DEF Types, LogTypes, PageTypes, Changes
    <2> QED BY <1>1, <1>2, <2>1, RecordKept
  <1>4. CASE q = p
    <2>1. c[r] = View(t, p, r) + (IF r \in S THEN 1 ELSE 0)
          /\ m[r] = (IF r \in S THEN copy'[t][p][r] ELSE mine[t][p][r])
          /\ k[r] = (IF r \in S THEN t ELSE lock[p][r])
      OBVIOUS
    <2> HIDE DEF c, m, k
    <2>2. /\ p \in log'[t] /\ copy'[t][p] = c /\ mine'[t][p] = m
          /\ chngmap'[t][p] = chngmap[t][p] \cup S /\ lock'[p] = k
      BY <1>1 DEF Types, LogTypes, PageTypes, Changes
    <2>3. p \notin freed'[t] /\ mine[t][p][r] # Gone
      BY <1>1, <1>2, <1>4 DEF RecordOK
    <2>4. PageTypes' /\ LogTypes'
      BY ChangeTypes DEF Types
    <2>5. copy'[t][p][r] \in Values /\ copy'[t][p][r] # None /\ copy'[t][p][r] # Gone
      <3>1. copy'[t][p] \in Contents
        <4>1. writes' \in Nat /\ writes' <= MaxWrites
          BY <2>4, SavepointConstants DEF PageTypes
        <4>2. ContentsTo(writes') \subseteq Contents
          BY <4>1, ContentsFacts
        <4> QED BY <2>4, <4>2 DEF LogTypes
      <3>2. copy'[t][p][r] \in Values
        BY <3>1 DEF Contents
      <3> QED BY <3>2, MarkFacts
    <2>6. CASE r \in S
      <3>1. mine'[t][p][r] = copy'[t][p][r] /\ r \in chngmap'[t][p] /\ lock'[p][r] = t
        BY <2>1, <2>2, <2>6
      <3> QED BY <1>4, <2>2, <2>3, <2>5, <3>1 DEF RecordOK
    <2>7. CASE r \notin S
      <3>1. /\ mine'[t][p][r] = mine[t][p][r] /\ lock'[p][r] = lock[p][r]
            /\ r \in chngmap'[t][p] <=> r \in chngmap[t][p]
        BY <2>1, <2>2, <2>7
      <3>2. copy'[t][p][r] = View(t, p, r)
        <4>1. View(t, p, r) \in Int
          <5>1. writes \in Nat
            BY SavepointConstants DEF Types, PageTypes
          <5>2. View(t, p, r) \in 0 .. writes
            BY DEF View, Types, PageTypes, LogTypes, ContentsTo
          <5> QED BY <5>1, <5>2
        <4> QED BY <2>1, <2>2, <2>7, <4>1
      <3>3. copy'[t][p][r] = Expected(t, p, r)
        BY <1>2, <1>4, <3>2, ViewIsExpected
      <3>4. CASE mine[t][p][r] = None
        <4>1. copy'[t][p][r] = fil'[p][r]
          BY <1>1, <3>3, <3>4 DEF Expected
        <4>2. r \in chngmap[t][p] => lock[p][r] = t
          BY <1>2, <1>4 DEF RecordOK
        <4> QED BY <1>4, <2>2, <2>3, <3>1, <3>4, <4>1, <4>2, MarkFacts DEF RecordOK
      <3>5. CASE mine[t][p][r] \in Values
        <4>1. copy'[t][p][r] = mine'[t][p][r]
          BY <3>1, <3>3, <3>5, MarkFacts DEF Expected
        <4>2. r \in chngmap[t][p] /\ lock[p][r] = t
          BY <1>2, <1>4, <3>5 DEF RecordOK
        <4> QED BY <1>4, <2>2, <2>3, <3>1, <3>5, <4>1, <4>2, MarkFacts DEF RecordOK
      <3> QED BY <1>2, <1>4, <2>3, <3>4, <3>5
    <2> QED BY <2>6, <2>7
  <1> QED BY <1>3, <1>4

\* free_block: the page is gone.
LEMMA FreeRecords ==
  ASSUME Types, PrivateInv, NEW t \in Threads, NEW p \in Pages, free_block(t, p)
  PROVE  PrivateOK(t)'
  <1> SUFFICES ASSUME NEW q \in Pages, NEW r \in Records PROVE RecordOK(t, q, r)'
    BY DEF PrivateOK
  <1> DEFINE m == [x \in Records |-> Gone]
             k == [x \in Records |-> IF x \in Records THEN t ELSE lock[p][x]]
  <1>1. /\ lock' = [lock EXCEPT ![p] = k]
        /\ log' = [log EXCEPT ![t] = @ \ {p}]
        /\ chngmap' = [chngmap EXCEPT ![t][p] = {}]
        /\ copy' = [copy EXCEPT ![t][p] = Blank]
        /\ freed' = [freed EXCEPT ![t] = @ \cup {p}]
        /\ mine' = [mine EXCEPT ![t][p] = m]
        /\ UNCHANGED fil
    BY DEF free_block, Locked
  <1>2. RecordOK(t, q, r)
    BY DEF PrivateInv, PrivateOK
  <1>3. CASE q # p
    <2> HIDE DEF m, k
    <2>1. /\ q \in log'[t] <=> q \in log[t]
          /\ q \in freed'[t] <=> q \in freed[t]
          /\ copy'[t][q][r] = copy[t][q][r] /\ mine'[t][q][r] = mine[t][q][r]
          /\ chngmap'[t][q] = chngmap[t][q] /\ lock'[q] = lock[q]
      BY <1>1, <1>3 DEF Types, LogTypes, PageTypes, Changes
    <2> QED BY <1>1, <1>2, <2>1, RecordKept
  <1>4. CASE q = p
    <2>1. m[r] = Gone
      OBVIOUS
    <2> HIDE DEF m, k
    <2>2. /\ q \notin log'[t] /\ q \in freed'[t] /\ chngmap'[t][q] = {}
          /\ mine'[t][q] = m
      BY <1>1, <1>4 DEF Types, LogTypes, Changes
    <2> QED BY <2>1, <2>2, MarkFacts DEF RecordOK
  <1> QED BY <1>3, <1>4

\* The end of a transaction: no private pages.
LEMMA TerminatedRecords ==
  ASSUME Types, NEW t \in Threads, Terminated(t)
  PROVE  PrivateOK(t)'
  <1> SUFFICES ASSUME NEW q \in Pages, NEW r \in Records PROVE RecordOK(t, q, r)'
    BY DEF PrivateOK
  <1>1. /\ log'[t] = {} /\ chngmap'[t][q] = {} /\ freed'[t] = {} /\ mine'[t] = NoChanges
    BY DEF Terminated, Types, LogTypes
  <1>2. NoChanges[q][r] = None
    BY DEF NoChanges
  <1> QED BY <1>1, <1>2, MarkFacts DEF RecordOK

-----------------------------------------------------------------------------
(* What savepoints keep *)

\* The copies of a savepoint x have the values of its mark; where the mark has
\* no change and rollback would copy the record back, the value of the
\* database.
CopyOK(x, ch, td, fl) ==
    \A p \in DOMAIN x.pairs, r \in Records :
        /\ x.mark[p][r] \in Values => td[x.pairs[p]][r] = x.mark[p][r]
        /\ x.mark[p][r] = None /\ r \in ch[p] => td[x.pairs[p]][r] = fl[p][r]

\* What was changed before the savepoint is still in the log.
KeptOK(x, lg, ch, fr) ==
    /\ x.freed \subseteq fr
    /\ \A p \in Pages, r \in Records :
        /\ x.mark[p][r] = Gone <=> p \in x.freed
        /\ x.mark[p][r] \in Values => p \in DOMAIN x.pairs /\ p \in lg /\ r \in ch[p]

\* The later savepoint y has copies of the pages changed before x.
Nested(x, y) ==
    /\ x.freed \subseteq y.freed
    /\ \A p \in Pages, r \in Records : x.mark[p][r] \in Values => p \in DOMAIN y.pairs

SaposOK(s, jb, lg, ch, fr, td, fl) ==
    /\ \A i \in 1 .. Len(s) : ~s[i].undone => CopyOK(s[i], ch, td, fl)
    /\ \A i \in 1 .. Len(s) :
          ~s[i].undone /\ ~Unfinished(s, jb, i) => KeptOK(s[i], lg, ch, fr)
    /\ \A i, j \in 1 .. Len(s) :
          i < j /\ ~s[i].undone /\ ~s[j].undone /\ ~Unfinished(s, jb, j) => Nested(s[i], s[j])

\* Savepoints are of no use any more when commit writes the pages.
SapoInv ==
    \A t \in Threads : job[t] # "write" =>
        SaposOK(sapos[t], job[t], log[t], chngmap[t], freed[t], tdata, fil)

\* Savepoints of one client and of a later moment: f has their places.
SameSapo(x, y) ==
    /\ y.pairs = x.pairs /\ y.mark = x.mark /\ y.freed = x.freed
    /\ ~y.undone => ~x.undone

Selected(s, ja, s1, jb, f) ==
    /\ \A i \in 1 .. Len(s1) : f[i] \in 1 .. Len(s) /\ SameSapo(s[f[i]], s1[i])
    /\ \A i, j \in 1 .. Len(s1) : i < j => f[i] < f[j]
    /\ \A i \in 1 .. Len(s1) : ~Unfinished(s1, jb, i) => ~Unfinished(s, ja, f[i])

\* The parts of SaposOK depend on these fields only.
LEMMA SameSapoOK ==
  ASSUME NEW x, NEW y, SameSapo(x, y), NEW lg, NEW ch, NEW fr, NEW td, NEW fl
  PROVE  /\ CopyOK(x, ch, td, fl) => CopyOK(y, ch, td, fl)
         /\ KeptOK(x, lg, ch, fr) => KeptOK(y, lg, ch, fr)
  BY DEF SameSapo, CopyOK, KeptOK

\* So do the relations of two savepoints.
LEMMA SameNested ==
  ASSUME NEW x, NEW y, NEW x1, NEW y1, SameSapo(x, x1), SameSapo(y, y1), Nested(x, y)
  PROVE  Nested(x1, y1)
  BY DEF SameSapo, Nested

\* Some of the savepoints remain, some may be marked as undone.
LEMMA SaposSelected ==
  ASSUME NEW s, NEW ja, NEW s1, NEW jb, NEW f, Selected(s, ja, s1, jb, f),
         NEW lg, NEW ch, NEW fr, NEW td, NEW fl, SaposOK(s, ja, lg, ch, fr, td, fl)
  PROVE  SaposOK(s1, jb, lg, ch, fr, td, fl)
  <1>1. ASSUME NEW i \in 1 .. Len(s1), ~s1[i].undone
        PROVE  f[i] \in 1 .. Len(s) /\ ~s[f[i]].undone /\ SameSapo(s[f[i]], s1[i])
    BY <1>1 DEF Selected, SameSapo
  <1>2. ASSUME NEW i \in 1 .. Len(s1), ~s1[i].undone
        PROVE  CopyOK(s1[i], ch, td, fl)
    <2>1. CopyOK(s[f[i]], ch, td, fl)
      BY <1>1, <1>2 DEF SaposOK
    <2> QED BY <1>1, <1>2, <2>1, SameSapoOK
  <1>3. ASSUME NEW i \in 1 .. Len(s1), ~s1[i].undone, ~Unfinished(s1, jb, i)
        PROVE  KeptOK(s1[i], lg, ch, fr)
    <2>1. ~Unfinished(s, ja, f[i])
      BY <1>3 DEF Selected
    <2>2. KeptOK(s[f[i]], lg, ch, fr)
      BY <1>1, <1>3, <2>1 DEF SaposOK
    <2> QED BY <1>1, <1>3, <2>2, SameSapoOK
  <1>4. ASSUME NEW i \in 1 .. Len(s1), NEW j \in 1 .. Len(s1), i < j,
               ~s1[i].undone, ~s1[j].undone, ~Unfinished(s1, jb, j)
        PROVE  Nested(s1[i], s1[j])
    <2>1. f[i] < f[j] /\ ~Unfinished(s, ja, f[j])
      BY <1>4 DEF Selected
    <2>2. Nested(s[f[i]], s[f[j]])
      BY <1>1, <1>4, <2>1 DEF SaposOK
    <2> QED BY <1>1, <1>4, <2>2, SameNested
  <1> QED BY <1>2, <1>3, <1>4 DEF SaposOK

\* The first savepoints remain; the last one may have been unfinished.
LEMMA SaposFirst ==
  ASSUME NEW s \in Seq(Sapo), NEW ja, NEW s1, NEW n \in 0 .. Len(s), FirstOf(s, n, s1),
         ja # "save" \/ n < Len(s),
         NEW lg, NEW ch, NEW fr, NEW td, NEW fl, SaposOK(s, ja, lg, ch, fr, td, fl)
  PROVE  SaposOK(s1, "run", lg, ch, fr, td, fl)
  <1> DEFINE f == [i \in 1 .. Len(s1) |-> i]
  <1>1. /\ s1 \in Seq(Sapo) /\ Len(s1) = n /\ \A k \in 1 .. n : s1[k] = s[k]
        /\ Len(s) \in Nat
    BY SapoFacts DEF FirstOf
  <1>2. \A i \in 1 .. Len(s1) : f[i] = i /\ i \in 1 .. Len(s) /\ (ja # "save" \/ i # Len(s))
    BY <1>1
  <1> HIDE DEF f
  <1>3. \A i \in 1 .. Len(s1) : SameSapo(s[i], s1[i])
    BY <1>1 DEF SameSapo
  <1>4. \A i \in 1 .. Len(s1) : ~Unfinished(s, ja, i)
    BY <1>2 DEF Unfinished
  <1>5. Selected(s, ja, s1, "run", f)
    BY <1>2, <1>3, <1>4 DEF Selected
  <1> QED BY <1>5, SaposSelected

\* One savepoint is taken out.
LEMMA SaposWithout ==
  ASSUME NEW s \in Seq(Sapo), NEW s1 \in Seq(Sapo), NEW i \in 1 .. Len(s),
         Len(s1) = Len(s) - 1,
         \A k \in 1 .. Len(s) - 1 : s1[k] = s[IF k < i THEN k ELSE k + 1],
         NEW lg, NEW ch, NEW fr, NEW td, NEW fl, SaposOK(s, "run", lg, ch, fr, td, fl)
  PROVE  SaposOK(s1, "run", lg, ch, fr, td, fl)
  <1> DEFINE f == [k \in 1 .. Len(s1) |-> IF k < i THEN k ELSE k + 1]
  <1>1. Len(s) \in Nat
    BY SapoFacts
  <1>2. \A k \in 1 .. Len(s1) : f[k] = (IF k < i THEN k ELSE k + 1) /\ f[k] \in 1 .. Len(s)
    BY <1>1
  <1>3. \A k, l \in 1 .. Len(s1) : k < l => f[k] < f[l]
    BY <1>1
  <1> HIDE DEF f
  <1>4. \A k \in 1 .. Len(s1) : s1[k] = s[f[k]]
    BY <1>1, <1>2
  <1>5. \A k \in 1 .. Len(s1) : SameSapo(s[f[k]], s1[k])
    BY <1>4 DEF SameSapo
  <1>6. \A k : ~Unfinished(s, "run", k)
    BY DEF Unfinished
  <1>7. Selected(s, "run", s1, "run", f)
    BY <1>2, <1>3, <1>5, <1>6 DEF Selected
  <1> QED BY <1>7, SaposSelected

\* A savepoint without copies is added.
LEMMA SaposAdded ==
  ASSUME NEW s \in Seq(Sapo), NEW s1, AddedTo(s, s1), s1[Len(s) + 1].pairs = << >>,
         NEW lg, NEW ch, NEW fr, NEW td, NEW fl, SaposOK(s, "run", lg, ch, fr, td, fl)
  PROVE  SaposOK(s1, "save", lg, ch, fr, td, fl)
  <1>1. /\ s1 \in Seq(Sapo) /\ Len(s1) = Len(s) + 1 /\ \A k \in 1 .. Len(s) : s1[k] = s[k]
        /\ Len(s) \in Nat
    BY SapoFacts DEF AddedTo
  <1>2. \A i \in 1 .. Len(s1) : i \in 1 .. Len(s) \/ i = Len(s) + 1
    BY <1>1
  <1>3. ASSUME NEW i \in 1 .. Len(s1), ~Unfinished(s1, "save", i)
        PROVE  i \in 1 .. Len(s) /\ ~Unfinished(s, "run", i)
    BY <1>1, <1>2, <1>3 DEF Unfinished
  <1>4. ASSUME NEW i \in 1 .. Len(s1), ~s1[i].undone PROVE CopyOK(s1[i], ch, td, fl)
    <2>1. CASE i \in 1 .. Len(s)
      BY <1>1, <1>4, <2>1 DEF SaposOK
    <2>2. CASE i = Len(s) + 1
      <3>1. DOMAIN s1[i].pairs = {}
        BY <2>2, NoPairs
      <3> QED BY <3>1 DEF CopyOK
    <2> QED BY <1>2, <2>1, <2>2
  <1>5. ASSUME NEW i \in 1 .. Len(s1), ~s1[i].undone, ~Unfinished(s1, "save", i)
        PROVE  KeptOK(s1[i], lg, ch, fr)
    <2>1. i \in 1 .. Len(s) /\ ~Unfinished(s, "run", i) /\ s1[i] = s[i]
      BY <1>1, <1>3, <1>5
    <2> QED BY <1>5, <2>1 DEF SaposOK
  <1>6. ASSUME NEW i \in 1 .. Len(s1), NEW j \in 1 .. Len(s1), i < j,
               ~s1[i].undone, ~s1[j].undone, ~Unfinished(s1, "save", j)
        PROVE  Nested(s1[i], s1[j])
    <2>1. j \in 1 .. Len(s) /\ ~Unfinished(s, "run", j) /\ s1[j] = s[j]
      BY <1>1, <1>3, <1>6
    <2>2. i \in 1 .. Len(s)
      BY <1>1, <1>6, <2>1
    <2>3. s1[i] = s[i]
      BY <1>1, <2>2
    <2> QED BY <1>6, <2>1, <2>2, <2>3 DEF SaposOK
  <1> QED BY <1>4, <1>5, <1>6 DEF SaposOK

\* The log, the copies or the database change.
LEMMA SaposContext ==
  ASSUME NEW s, NEW jb, NEW lg, NEW ch, NEW fr, NEW td, NEW fl,
         NEW lg1, NEW ch1, NEW fr1, NEW td1, NEW fl1,
         SaposOK(s, jb, lg, ch, fr, td, fl),
         \A i \in 1 .. Len(s) : ~s[i].undone =>
            /\ CopyOK(s[i], ch, td, fl) => CopyOK(s[i], ch1, td1, fl1)
            /\ KeptOK(s[i], lg, ch, fr) => KeptOK(s[i], lg1, ch1, fr1)
  PROVE  SaposOK(s, jb, lg1, ch1, fr1, td1, fl1)
  BY DEF SaposOK

\* The last savepoint is completed: it has copies of all private pages.
LEMMA SaposCompleted ==
  ASSUME NEW s \in Seq(Sapo), Len(s) # 0,
         NEW lg, NEW ch, NEW fr, NEW td, NEW fl, SaposOK(s, "save", lg, ch, fr, td, fl),
         s[Len(s)].freed = fr, lg \subseteq DOMAIN s[Len(s)].pairs,
         KeptOK(s[Len(s)], lg, ch, fr)
  PROVE  SaposOK(s, "run", lg, ch, fr, td, fl)
  <1>1. Len(s) \in Nat /\ \A i \in 1 .. Len(s) : i # Len(s) => ~Unfinished(s, "save", i)
    BY SapoFacts DEF Unfinished
  <1>2. \A i \in 1 .. Len(s) : ~s[i].undone => CopyOK(s[i], ch, td, fl)
    BY DEF SaposOK
  <1>3. \A i \in 1 .. Len(s) : ~s[i].undone => KeptOK(s[i], lg, ch, fr)
    BY <1>1 DEF SaposOK
  <1>4. ASSUME NEW i \in 1 .. Len(s), NEW j \in 1 .. Len(s), i < j,
               ~s[i].undone, ~s[j].undone
        PROVE  Nested(s[i], s[j])
    <2>1. CASE j # Len(s)
      BY <1>1, <1>4, <2>1 DEF SaposOK
    <2>2. CASE j = Len(s)
      <3>1. s[i].freed \subseteq fr
            /\ \A p \in Pages, r \in Records : s[i].mark[p][r] \in Values => p \in lg
        BY <1>3, <1>4 DEF KeptOK
      <3> QED BY <2>2, <3>1 DEF Nested
    <2> QED BY <2>1, <2>2
  <1> QED BY <1>2, <1>3, <1>4 DEF SaposOK

-----------------------------------------------------------------------------
(* Rolling back to a savepoint *)

\* Savepoints up to the i-th one remain usable after a rollback to it.
LEMMA SaposRolledBack ==
  ASSUME NEW s \in Seq(Sapo), NEW s1 \in Seq(Sapo), NEW i \in 1 .. Len(s), ~s[i].undone,
         Len(s1) <= Len(s), \A k \in 1 .. Len(s1) : SameSapo(s[k], s1[k]),
         \A k \in 1 .. Len(s1) : ~s1[k].undone => k <= i,
         NEW lg, NEW ch, NEW fr, NEW td, NEW fl, SaposOK(s, "run", lg, ch, fr, td, fl),
         NEW lg1, NEW ch1, NEW fr1,
         lg1 = lg \cap DOMAIN s[i].pairs, fr1 = fr \cap s[i].freed,
         \A p \in Pages : ch1[p] = IF p \in lg1 THEN ch[p] ELSE {}
  PROVE  SaposOK(s1, "run", lg1, ch1, fr1, td, fl)
  <1> DEFINE f == [k \in 1 .. Len(s1) |-> k]
  <1>1. Len(s) \in Nat /\ Len(s1) \in Nat
    BY SapoFacts
  <1>2. \A k \in 1 .. Len(s1) : f[k] = k /\ k \in 1 .. Len(s)
    BY <1>1
  <1> HIDE DEF f
  <1>3. \A k : ~Unfinished(s, "run", k) /\ ~Unfinished(s1, "run", k)
    BY DEF Unfinished
  <1>4. Selected(s, "run", s1, "run", f)
    BY <1>2, <1>3 DEF Selected
  <1>5. SaposOK(s1, "run", lg, ch, fr, td, fl)
    BY <1>4, SaposSelected
  <1>6. KeptOK(s[i], lg, ch, fr)
    BY <1>3 DEF SaposOK
  <1>7. ASSUME NEW k \in 1 .. Len(s1), ~s1[k].undone, CopyOK(s1[k], ch, td, fl)
        PROVE  CopyOK(s1[k], ch1, td, fl)
    <2>1. DOMAIN s1[k].pairs \subseteq Pages
      BY SapoFacts, PairFacts
    <2> QED BY <1>7, <2>1 DEF CopyOK
  <1>8. ASSUME NEW k \in 1 .. Len(s1), ~s1[k].undone, KeptOK(s1[k], lg, ch, fr)
        PROVE  KeptOK(s1[k], lg1, ch1, fr1)
    <2>1. /\ s1[k].freed = s[k].freed /\ s1[k].mark = s[k].mark /\ ~s[k].undone
          /\ k \in 1 .. Len(s) /\ k <= i
      BY <1>2, <1>8 DEF SameSapo
    <2>2. s[k].freed \subseteq s[i].freed
          /\ \A p \in Pages, r \in Records : s[k].mark[p][r] \in Values => p \in DOMAIN s[i].pairs
      <3>1. CASE k = i
        BY <1>6, <3>1 DEF KeptOK
      <3>2. CASE k # i
        <4>1. k < i
          BY <1>1, <2>1, <3>2
        <4>2. Nested(s[k], s[i])
          BY <1>3, <2>1, <4>1 DEF SaposOK
        <4> QED BY <4>2 DEF Nested
      <3> QED BY <3>1, <3>2
    <2>3. s1[k].freed \subseteq fr1
      BY <1>8, <2>1, <2>2 DEF KeptOK
    <2>4. ASSUME NEW p \in Pages, NEW r \in Records, s1[k].mark[p][r] \in Values
          PROVE  p \in DOMAIN s1[k].pairs /\ p \in lg1 /\ r \in ch1[p]
      <3>1. p \in DOMAIN s1[k].pairs /\ p \in lg /\ r \in ch[p]
        BY <1>8, <2>4 DEF KeptOK
      <3>2. p \in lg1
        BY <2>1, <2>2, <2>4, <3>1
      <3> QED BY <3>1, <3>2
    <2> QED BY <1>8, <2>3, <2>4 DEF KeptOK
  <1> QED BY <1>5, <1>7, <1>8, SaposContext

\* A rollback to the i-th of the savepoints s leaves s1 of them, and the log
\* lg1, ch1, fr1 of lg, ch, fr.
RolledBack(s, s1, i, lg, ch, fr, lg1, ch1, fr1) ==
    /\ i \in 1 .. Len(s) /\ ~s[i].undone
    /\ Len(s1) <= Len(s) /\ \A k \in 1 .. Len(s1) : SameSapo(s[k], s1[k])
    /\ \A k \in 1 .. Len(s1) : ~s1[k].undone => k <= i
    /\ lg1 = lg \cap DOMAIN s[i].pairs /\ fr1 = fr \cap s[i].freed
    /\ \A p \in Pages : ch1[p] = IF p \in lg1 THEN ch[p] ELSE {}

\* They are right after it.
LEMMA SaposAfterRollback ==
  ASSUME NEW s, s \in Seq(Sapo), NEW s1, s1 \in Seq(Sapo), NEW i,
         NEW lg, NEW ch, NEW fr, NEW td, NEW fl, NEW lg1, NEW ch1, NEW fr1,
         RolledBack(s, s1, i, lg, ch, fr, lg1, ch1, fr1),
         SaposOK(s, "run", lg, ch, fr, td, fl)
  PROVE  SaposOK(s1, "run", lg1, ch1, fr1, td, fl)
  <1>1. /\ i \in 1 .. Len(s) /\ ~s[i].undone
        /\ Len(s1) <= Len(s) /\ \A k \in 1 .. Len(s1) : SameSapo(s[k], s1[k])
        /\ \A k \in 1 .. Len(s1) : ~s1[k].undone => k <= i
        /\ lg1 = lg \cap DOMAIN s[i].pairs /\ fr1 = fr \cap s[i].freed
        /\ \A p \in Pages : ch1[p] = IF p \in lg1 THEN ch[p] ELSE {}
    BY DEF RolledBack
  <1> QED BY <1>1, SaposRolledBack

\* What rollback does to a record.
LEMMA RollbackFacts ==
  ASSUME Types, NEW t \in Threads, NEW i \in 1 .. Len(sapos[t]), NEW goal \in Changes,
         rollback(t, i, goal)
  PROVE  /\ log'[t] = log[t] \cap DOMAIN sapos[t][i].pairs
         /\ freed'[t] = freed[t] \cap sapos[t][i].freed
         /\ mine'[t] = goal
         /\ \A p \in Pages : chngmap'[t][p] = IF p \in log'[t] THEN chngmap[t][p] ELSE {}
         /\ \A p \in log'[t], r \in Records :
               copy'[t][p][r] = IF r \in chngmap[t][p] THEN tdata[sapos[t][i].pairs[p]][r]
                                ELSE copy[t][p][r]
  <1> DEFINE m == sapos[t][i].pairs
  <1>1. /\ log' = [log EXCEPT ![t] = @ \cap DOMAIN m]
        /\ copy' = [copy EXCEPT ![t] =
              [p \in Pages |-> IF p \notin log[t] \cap DOMAIN m THEN Blank
                               ELSE Restored(t, p, tdata[m[p]])]]
        /\ chngmap' = [chngmap EXCEPT ![t] =
              [p \in Pages |-> IF p \in log[t] \cap DOMAIN m THEN @[p] ELSE {}]]
        /\ freed' = [freed EXCEPT ![t] = @ \cap sapos[t][i].freed]
        /\ mine' = [mine EXCEPT ![t] = goal]
    BY DEF rollback
  <1> HIDE DEF m
  <1>2. /\ log'[t] = log[t] \cap DOMAIN m
        /\ freed'[t] = freed[t] \cap sapos[t][i].freed
        /\ mine'[t] = goal
    BY <1>1 DEF Types, LogTypes
  <1>3. \A p \in Pages : chngmap'[t][p] = IF p \in log'[t] THEN chngmap[t][p] ELSE {}
    BY <1>1, <1>2 DEF Types, LogTypes
  <1>4. ASSUME NEW p \in log'[t], NEW r \in Records
        PROVE  copy'[t][p][r] = IF r \in chngmap[t][p] THEN tdata[m[p]][r] ELSE copy[t][p][r]
    <2>1. p \in Pages /\ p \in log[t] \cap DOMAIN m
      BY <1>2 DEF Types, LogTypes
    <2>2. copy'[t][p] = Restored(t, p, tdata[m[p]])
      BY <1>1, <2>1 DEF Types, LogTypes
    <2> QED BY <2>2 DEF Restored
  <1> QED BY <1>2, <1>3, <1>4 DEF m

\* After a rollback the records are as they were marked, or as committed.
LEMMA RollbackRecords ==
  ASSUME Types, PrivateInv, NEW t \in Threads, NEW i \in 1 .. Len(sapos[t]),
         rollback(t, i, sapos[t][i].mark), UNCHANGED <<fil, lock>>,
         CopyOK(sapos[t][i], chngmap[t], tdata, fil),
         KeptOK(sapos[t][i], log[t], chngmap[t], freed[t])
  PROVE  PrivateOK(t)'
  <1> DEFINE x == sapos[t][i]
  <1>1. x.mark \in Changes
    BY SapoFacts DEF Types, SapoTypes
  <1>2. /\ log'[t] = log[t] \cap DOMAIN x.pairs
        /\ freed'[t] = freed[t] \cap x.freed
        /\ mine'[t] = x.mark
        /\ \A p \in Pages : chngmap'[t][p] = IF p \in log'[t] THEN chngmap[t][p] ELSE {}
        /\ \A p \in log'[t], r \in Records :
               copy'[t][p][r] = IF r \in chngmap[t][p] THEN tdata[x.pairs[p]][r]
                                ELSE copy[t][p][r]
    BY <1>1, RollbackFacts
  <1>3. CopyOK(x, chngmap[t], tdata, fil) /\ KeptOK(x, log[t], chngmap[t], freed[t])
    OBVIOUS
  <1> HIDE DEF x
  <1>4. freed'[t] = x.freed
    BY <1>2, <1>3 DEF KeptOK
  <1>5. ASSUME NEW q \in Pages, NEW r \in Records PROVE RecordOK(t, q, r)'
    <2>1. RecordOK(t, q, r) /\ mine[t][q][r] \in Values \cup {None, Gone}
      BY MineTypes DEF PrivateInv, PrivateOK, MineOK
    <2>2. mine'[t][q][r] = Gone <=> q \in freed'[t]
      BY <1>2, <1>3, <1>4 DEF KeptOK
    <2>3. r \in chngmap'[t][q] => lock'[q][r] = t
      BY <1>2, <2>1 DEF RecordOK
    <2>4. q \in log'[t] => q \notin freed'[t]
      BY <1>2, <2>1 DEF RecordOK
    <2>5. q \notin log'[t] => r \notin chngmap'[t][q]
      BY <1>2
    <2>6. ASSUME mine'[t][q][r] \in Values
          PROVE  q \in log'[t] /\ r \in chngmap'[t][q] /\ copy'[t][q][r] = mine'[t][q][r]
      <3>1. q \in DOMAIN x.pairs /\ q \in log[t] /\ r \in chngmap[t][q]
        BY <1>2, <1>3, <2>6 DEF KeptOK
      <3>2. tdata[x.pairs[q]][r] = x.mark[q][r]
        BY <1>2, <1>3, <2>6, <3>1 DEF CopyOK
      <3> QED BY <1>2, <3>1, <3>2
    <2>7. ASSUME q \in log'[t], mine'[t][q][r] = None
          PROVE  copy'[t][q][r] = fil'[q][r]
      <3>1. q \in log[t] /\ q \in DOMAIN x.pairs
        BY <1>2, <2>7
      <3>2. CASE r \in chngmap[t][q]
        <4>1. tdata[x.pairs[q]][r] = fil[q][r]
          BY <1>2, <1>3, <2>7, <3>1, <3>2 DEF CopyOK
        <4> QED BY <1>2, <2>7, <3>2, <4>1
      <3>3. CASE r \notin chngmap[t][q]
        <4>1. mine[t][q][r] = None
          BY <2>1, <3>1, <3>3 DEF RecordOK
        <4>2. copy[t][q][r] = fil[q][r]
          BY <2>1, <3>1, <4>1 DEF RecordOK
        <4> QED BY <1>2, <2>7, <3>3, <4>2
      <3> QED BY <3>2, <3>3
    <2> QED BY <2>2, <2>3, <2>4, <2>5, <2>6, <2>7 DEF RecordOK
  <1> QED BY <1>5 DEF PrivateOK

-----------------------------------------------------------------------------
(* What a step does to the records of all clients *)

\* Locks of other clients stay.
LocksKept(t) ==
    \A u \in Threads, p \in Pages, r \in Records :
        u # t /\ lock[p][r] = u => lock'[p][r] = u

\* Locks are taken only where they are free.
LEMMA LockedKept ==
  ASSUME Types, NEW t \in Threads, NEW p \in Pages, NEW S \in SUBSET Records,
         Lockable(t, p, S), lock' = Locked(t, p, S)
  PROVE  LocksKept(t)
  <1> SUFFICES ASSUME NEW u \in Threads, NEW q \in Pages, NEW r \in Records,
                      u # t, lock[q][r] = u
               PROVE  lock'[q][r] = u
    BY DEF LocksKept
  <1> DEFINE k == [x \in Records |-> IF x \in S THEN t ELSE lock[p][x]]
  <1>1. lock' = [lock EXCEPT ![p] = k]
    BY DEF Locked
  <1>2. k[r] = IF r \in S THEN t ELSE lock[p][r]
    OBVIOUS
  <1> HIDE DEF k
  <1>3. CASE q = p
    <2>1. r \notin S
      <3>1. u # NoThread
        BY SavepointConstants
      <3> QED BY <1>3, <3>1 DEF Lockable
    <2>2. lock'[q] = k
      BY <1>1, <1>3 DEF Types, PageTypes
    <2> QED BY <1>2, <1>3, <2>1, <2>2
  <1>4. CASE q # p
    BY <1>1, <1>4 DEF Types, PageTypes
  <1> QED BY <1>3, <1>4

\* The locks of a transaction that ends are released.
LEMMA TerminatedKept ==
  ASSUME Types, NEW t \in Threads, Terminated(t)
  PROVE  LocksKept(t) /\ OnlyFor(t, copy, copy')
  <1>1. lock' = [p \in Pages |-> [r \in Records |->
                    IF lock[p][r] = t THEN NoThread ELSE lock[p][r]]]
    BY DEF Terminated
  <1>2. LocksKept(t)
    BY <1>1 DEF LocksKept
  <1>3. OnlyFor(t, copy, copy')
    BY DEF Terminated, OnlyFor, Types, LogTypes
  <1> QED BY <1>2, <1>3

\* Only wr_changes touches the database and pages of other clients.
LEMMA PagesKept ==
  ASSUME Types, NEW t \in Threads, ClientStep(t), \A p \in Pages : ~wr_changes(t, p)
  PROVE  UNCHANGED fil /\ LocksKept(t) /\ OnlyFor(t, copy, copy')
  <1> DEFINE Good == UNCHANGED fil /\ LocksKept(t) /\ OnlyFor(t, copy, copy')
  <1>1. UNCHANGED lock => LocksKept(t)
    BY DEF LocksKept
  <1>2. UNCHANGED copy => OnlyFor(t, copy, copy')
    BY DEF OnlyFor
  <1>3. ASSUME NEW p \in Pages, fix_priv_page(t, p) PROVE Good
    <2>1. UNCHANGED <<fil, lock>>
      BY <1>3 DEF fix_priv_page, pageVars
    <2>2. OnlyFor(t, copy, copy')
      BY <1>3 DEF fix_priv_page, OnlyFor, Types, LogTypes
    <2> QED BY <1>1, <2>1, <2>2
  <1>4. ASSUME NEW p \in Pages, NEW S \in SUBSET Records, change(t, p, S) PROVE Good
    <2>1. Lockable(t, p, S) /\ lock' = Locked(t, p, S) /\ UNCHANGED fil
      BY <1>4 DEF change
    <2>2. OnlyFor(t, copy, copy')
      BY <1>4 DEF change, OnlyFor, Types, LogTypes
    <2> QED BY <2>1, <2>2, LockedKept
  <1>5. ASSUME NEW p \in Pages, page_changed(t, p) \/ \E r \in Records : rec_changed(t, p, r)
        PROVE  Good
    <2>1. \E S \in SUBSET Records : change(t, p, S)
      <3>1. CASE page_changed(t, p)
        BY <3>1 DEF page_changed
      <3>2. ASSUME NEW r \in Records, rec_changed(t, p, r)
            PROVE  \E S \in SUBSET Records : change(t, p, S)
        <4>1. {r} \in SUBSET Records /\ change(t, p, {r})
          BY <3>2 DEF rec_changed
        <4> QED BY <4>1
      <3> QED BY <1>5, <3>1, <3>2
    <2> QED BY <1>4, <2>1
  <1>6. ASSUME NEW p \in Pages, free_block(t, p) PROVE Good
    <2>1. Lockable(t, p, Records) /\ lock' = Locked(t, p, Records) /\ UNCHANGED fil
      BY <1>6 DEF free_block
    <2>2. OnlyFor(t, copy, copy')
      BY <1>6 DEF free_block, OnlyFor, Types, LogTypes
    <2>3. LocksKept(t)
      BY <2>1, LockedKept
    <2> QED BY <2>1, <2>2, <2>3
  <1>7. ASSUME NEW p \in Pages, save_block(t, p) PROVE Good
    BY <1>1, <1>2, <1>7 DEF save_block, logVars
  <1>8. CASE save_begins(t) \/ save_fails(t) \/ create_ends(t)
    BY <1>1, <1>2, <1>8 DEF save_begins, save_fails, create_ends, savepointVars, pageVars, logVars
  <1>9. ASSUME NEW block \in SwapBlocks, drop_block(t, block) PROVE Good
    BY <1>1, <1>2, <1>9 DEF drop_block, logVars
  <1>10. ASSUME NEW name \in Names, sql_stmt_sapo(t, name) \/ sql_stmt_rel_sapo(t, name)
         PROVE  Good
    BY <1>1, <1>2, <1>10 DEF sql_stmt_sapo, sql_stmt_rel_sapo, pageVars, logVars
  <1>11. ASSUME NEW name \in Names, rollback_to_savepoint(t, name) PROVE Good
    <2> DEFINE i == find_sapo(t, name)
    <2>1. /\ i # 0 /\ rollback(t, i, sapos[t][i].mark) /\ UNCHANGED <<fil, lock>>
      BY <1>11 DEF rollback_to_savepoint, pageVars
    <2>2. i \in Nat /\ sapos[t][i].mark \in Changes
      BY <2>1, FoundSapo DEF Types
    <2> HIDE DEF i
    <2> QED BY <1>1, <2>1, <2>2, LogOnly
  <1>12. CASE begin_atomic(t) \/ end_atomic(t)
    BY <1>1, <1>2, <1>12 DEF begin_atomic, end_atomic, pageVars, logVars
  <1>13. CASE undo_block(t)
    <2>1. /\ rollback(t, Innermost(t).ind, Innermost(t).mark) /\ UNCHANGED <<fil, lock>>
          /\ Innermost(t).ind \in Nat /\ Innermost(t).mark \in Changes
      BY <1>13, InnermostFacts DEF undo_block, pageVars, Types
    <2> QED BY <1>1, <2>1, LogOnly
  <1>14. CASE roll_back(t) \/ commit_ends(t)
    <2>1. Terminated(t) /\ UNCHANGED fil
      BY <1>14 DEF roll_back, commit_ends
    <2> QED BY <2>1, TerminatedKept
  <1>15. CASE commit(t)
    BY <1>1, <1>2, <1>15 DEF commit, pageVars, logVars
  <1> QED BY <1>3, <1>5, <1>6, <1>7, <1>8, <1>9, <1>10, <1>11, <1>12, <1>13, <1>14, <1>15
          DEF ClientStep

\* Swap blocks of other clients stay as they are.
SwapKept(t) ==
    \A u \in Threads : u # t => \A b \in held[u] \cap SwapBlocks : tdata'[b] = tdata[b]

\* They are written only by the client that holds them.
LEMMA SwapBlocksKept ==
  ASSUME Types, HeldInv, NEW t \in Threads, ClientStep(t)
  PROVE  SwapKept(t)
  <1>1. UNCHANGED tdata => SwapKept(t)
    BY DEF SwapKept
  <1>2. ASSUME NEW p \in Pages, save_block(t, p) PROVE SwapKept(t)
    <2>1. PICK b \in SwapBlocks : Saved(t, p, b)
      BY <1>2, SaveFacts
    <2>2. tdata' = [tdata EXCEPT ![b] = copy[t][p]] /\ \A u \in Threads : b \notin held[u]
      BY <2>1 DEF Saved
    <2> QED BY <2>2 DEF SwapKept, Types, PageTypes
  <1>3. ASSUME NEW block \in SwapBlocks, drop_block(t, block) PROVE SwapKept(t)
    <2>1. block \in drop[t] /\ tdata' = [tdata EXCEPT ![block] = Blank]
      BY <1>3 DEF drop_block, IsLowest
    <2>2. block \in held[t]
      BY <2>1 DEF HeldInv, HeldBy
    <2>3. \A u \in Threads : u # t => block \notin held[u]
      BY <2>2 DEF Types, TransactorInv, BlocksExclusive
    <2> QED BY <2>1, <2>3 DEF SwapKept, Types, PageTypes
  <1>4. ASSUME NEW p \in Pages,
               \/ fix_priv_page(t, p) \/ page_changed(t, p) \/ free_block(t, p)
               \/ \E r \in Records : rec_changed(t, p, r)
               \/ wr_changes(t, p)
        PROVE  UNCHANGED tdata
    <2>1. CASE page_changed(t, p) \/ \E r \in Records : rec_changed(t, p, r)
      BY <2>1 DEF page_changed, rec_changed, change
    <2>2. CASE fix_priv_page(t, p)
      BY <2>2 DEF fix_priv_page, pageVars
    <2>3. CASE free_block(t, p) \/ wr_changes(t, p)
      BY <2>3 DEF free_block, wr_changes
    <2> QED BY <1>4, <2>1, <2>2, <2>3
  <1>5. CASE save_begins(t) \/ save_fails(t) \/ create_ends(t)
    BY <1>1, <1>5 DEF save_begins, save_fails, create_ends, savepointVars, pageVars
  <1>6. ASSUME NEW name \in Names,
               \/ sql_stmt_sapo(t, name) \/ sql_stmt_rel_sapo(t, name)
               \/ rollback_to_savepoint(t, name)
        PROVE  UNCHANGED tdata
    BY <1>6 DEF sql_stmt_sapo, sql_stmt_rel_sapo, rollback_to_savepoint, pageVars
  <1>7. CASE begin_atomic(t) \/ undo_block(t) \/ end_atomic(t)
    BY <1>1, <1>7 DEF begin_atomic, undo_block, end_atomic, pageVars
  <1>8. CASE roll_back(t) \/ commit(t) \/ commit_ends(t)
    BY <1>1, <1>8 DEF roll_back, commit, commit_ends, pageVars
  <1> QED BY <1>1, <1>2, <1>3, <1>4, <1>5, <1>6, <1>7, <1>8 DEF ClientStep

\* wr_changes: changed records get into the database and into all private
\* copies of the page, no other record changes.
Written(t, p) ==
    /\ \A q \in Pages, r \in Records : q # p \/ r \notin chngmap[t][p] =>
          /\ fil'[q][r] = fil[q][r]
          /\ \A u \in Threads : copy'[u][q][r] = copy[u][q][r]
    /\ \A r \in Records : r \in chngmap[t][p] =>
          /\ fil'[p][r] = copy[t][p][r] /\ copy'[t][p][r] = copy[t][p][r]
          /\ \A u \in Threads : p \in log[u] => copy'[u][p][r] = fil'[p][r]
    /\ UNCHANGED <<log, chngmap, freed, mine, lock>>
    /\ p \in log[t]

\* The page is written as a whole, but a record that the client has not
\* changed is that of the database.
LEMMA WriteFacts ==
  ASSUME Types, JobInv, PrivateInv, NEW t \in Threads, NEW p \in Pages, wr_changes(t, p)
  PROVE  Written(t, p)
  <1>1. /\ p \in log[t] /\ UNCHANGED <<log, chngmap, freed, mine, lock>>
    BY DEF wr_changes, JobInv, JobOK
  <1>2. CASE chngmap[t][p] = {}
    <2>1. UNCHANGED <<fil, copy>>
      BY <1>2 DEF wr_changes
    <2> QED BY <1>1, <1>2, <2>1 DEF Written
  <1>3. CASE chngmap[t][p] # {}
    <2>1. /\ fil' = [fil EXCEPT ![p] = copy[t][p]]
          /\ copy' = [u \in Threads |->
                        IF u # t /\ p \in log[u]
                        THEN [copy[u] EXCEPT ![p] = Merged(t, p, u)] ELSE copy[u]]
      BY <1>3 DEF wr_changes
    <2>2. /\ fil'[p] = copy[t][p] /\ \A q \in Pages : q # p => fil'[q] = fil[q]
          /\ copy'[t] = copy[t]
          /\ \A u \in Threads, q \in Pages : q # p => copy'[u][q] = copy[u][q]
          /\ \A u \in Threads : u # t /\ p \in log[u] => copy'[u][p] = Merged(t, p, u)
          /\ \A u \in Threads : u # t /\ p \notin log[u] => copy'[u][p] = copy[u][p]
      BY <2>1 DEF Types, PageTypes, LogTypes
    <2>3. ASSUME NEW u \in Threads, NEW r \in Records
          PROVE  Merged(t, p, u)[r] = IF r \in chngmap[t][p] THEN copy[t][p][r] ELSE copy[u][p][r]
      BY DEF Merged
    <2>4. ASSUME NEW r \in Records, r \notin chngmap[t][p]
          PROVE  copy[t][p][r] = fil[p][r]
      <3>1. RecordOK(t, p, r) /\ mine[t][p][r] \in Values \cup {None, Gone}
        BY MineTypes DEF PrivateInv, PrivateOK, MineOK
      <3>2. mine[t][p][r] = None
        BY <1>1, <2>4, <3>1 DEF RecordOK
      <3> QED BY <1>1, <3>1, <3>2 DEF RecordOK
    <2>5. ASSUME NEW q \in Pages, NEW r \in Records, q # p \/ r \notin chngmap[t][p],
                 NEW u \in Threads
          PROVE  fil'[q][r] = fil[q][r] /\ copy'[u][q][r] = copy[u][q][r]
      <3>1. CASE q # p
        BY <2>2, <3>1
      <3>2. CASE q = p
        <4>1. fil'[q][r] = fil[q][r]
          BY <2>2, <2>4, <2>5, <3>2
        <4>2. copy'[u][q][r] = copy[u][q][r]
          BY <2>2, <2>3, <2>5, <3>2
        <4> QED BY <4>1, <4>2
      <3> QED BY <3>1, <3>2
    <2>6. ASSUME NEW r \in Records, r \in chngmap[t][p]
          PROVE  /\ fil'[p][r] = copy[t][p][r] /\ copy'[t][p][r] = copy[t][p][r]
                 /\ \A u \in Threads : p \in log[u] => copy'[u][p][r] = fil'[p][r]
      BY <2>2, <2>3, <2>6
    <2> QED BY <1>1, <2>5, <2>6 DEF Written
  <1> QED BY <1>2, <1>3

-----------------------------------------------------------------------------
(* The private pages stay right *)

\* SQL programs as the manual describes them, and records that no other
\* client has committed since a savepoint has a copy of the page.
Ordinary == Programs = {}

\* wr_changes leaves all clients with what they should see.
LEMMA WriteRecords ==
  ASSUME Types, JobInv, PrivateInv, NEW t \in Threads, NEW p \in Pages, wr_changes(t, p),
         NEW u \in Threads
  PROVE  PrivateOK(u)'
  <1> SUFFICES ASSUME NEW q \in Pages, NEW r \in Records PROVE RecordOK(u, q, r)'
    BY DEF PrivateOK
  <1>1. Written(t, p)
    BY WriteFacts
  <1>2. RecordOK(u, q, r) /\ RecordOK(t, q, r)
    BY DEF PrivateInv, PrivateOK
  <1>3. UNCHANGED <<log, chngmap, freed, mine, lock>>
    BY <1>1 DEF Written
  <1>4. CASE q # p \/ r \notin chngmap[t][p]
    <2>1. fil'[q][r] = fil[q][r] /\ copy'[u][q][r] = copy[u][q][r]
      BY <1>1, <1>4 DEF Written
    <2> QED BY <1>2, <1>3, <2>1, RecordKept
  <1>5. CASE q = p /\ r \in chngmap[t][p]
    <2>1. /\ fil'[q][r] = copy[t][q][r] /\ copy'[t][q][r] = copy[t][q][r]
          /\ q \in log[u] => copy'[u][q][r] = fil'[q][r]
      BY <1>1, <1>5 DEF Written
    <2>2. lock[q][r] = t
      BY <1>2, <1>5 DEF RecordOK
    <2>3. CASE u = t
      BY <1>2, <1>3, <2>1, <2>3 DEF RecordOK
    <2>4. CASE u # t
      <3>1. r \notin chngmap[u][q]
        BY <1>2, <2>2, <2>4 DEF RecordOK
      <3>2. mine[u][q][r] \notin Values
        BY <1>2, <3>1 DEF RecordOK
      <3> QED BY <1>2, <1>3, <2>1, <3>1, <3>2 DEF RecordOK
    <2> QED BY <2>3, <2>4
  <1> QED BY <1>4, <1>5

\* Other clients see what they should, too.
LEMMA PrivateOfOthers ==
  ASSUME Types, JobInv, PrivateInv, NEW t \in Threads, ClientStep(t),
         NEW u \in Threads, u # t
  PROVE  PrivateOK(u)'
  <1>1. CASE \E p \in Pages : wr_changes(t, p)
    BY <1>1, WriteRecords
  <1>2. CASE \A p \in Pages : ~wr_changes(t, p)
    <2> SUFFICES ASSUME NEW q \in Pages, NEW r \in Records PROVE RecordOK(u, q, r)'
      BY DEF PrivateOK
    <2>1. UNCHANGED fil /\ LocksKept(t) /\ OnlyFor(t, copy, copy')
      BY <1>2, PagesKept
    <2>2. /\ log'[u] = log[u] /\ chngmap'[u] = chngmap[u] /\ freed'[u] = freed[u]
          /\ mine'[u] = mine[u]
      BY OthersKept DEF OwnParts, OnlyFor
    <2>3. copy'[u] = copy[u] /\ (lock[q][r] = u => lock'[q][r] = u)
      BY <2>1 DEF OnlyFor, LocksKept
    <2>4. RecordOK(u, q, r)
      BY DEF PrivateInv, PrivateOK
    <2> QED BY <2>1, <2>2, <2>3, <2>4, RecordKept
  <1> QED BY <1>1, <1>2

\* The savepoint to which a statement rolls back is good.
LEMMA GoodSapo ==
  ASSUME SapoInv, NEW t \in Threads, job[t] = "run", NEW i \in 1 .. Len(sapos[t]),
         ~sapos[t][i].undone
  PROVE  /\ SaposOK(sapos[t], "run", log[t], chngmap[t], freed[t], tdata, fil)
         /\ CopyOK(sapos[t][i], chngmap[t], tdata, fil)
         /\ KeptOK(sapos[t][i], log[t], chngmap[t], freed[t])
  <1>1. SaposOK(sapos[t], job[t], log[t], chngmap[t], freed[t], tdata, fil)
    BY DEF SapoInv
  <1>2. ~Unfinished(sapos[t], job[t], i)
    BY DEF Unfinished
  <1>3. /\ CopyOK(sapos[t][i], chngmap[t], tdata, fil)
        /\ KeptOK(sapos[t][i], log[t], chngmap[t], freed[t])
    BY <1>1, <1>2 DEF SaposOK
  <1>4. SaposOK(sapos[t], "run", log[t], chngmap[t], freed[t], tdata, fil)
    BY <1>1
  <1> QED BY <1>3, <1>4

\* ROLLBACK TO goes to a savepoint that was not undone.
LEMMA ToSavepoint ==
  ASSUME Types, Ordinary, NEW t \in Threads, NEW name \in Names,
         rollback_to_savepoint(t, name), NEW i, i = find_sapo(t, name)
  PROVE  /\ job[t] = "run" /\ UNCHANGED job /\ i \in 1 .. Len(sapos[t])
         /\ ~sapos[t][i].undone /\ rollback(t, i, sapos[t][i].mark)
         /\ destroy_from(t, i + 1) /\ i + 1 \in Nat \ {0} /\ i \in Nat
         /\ UNCHANGED <<fil, tdata, lock>>
  <1>1. /\ job[t] = "run" /\ UNCHANGED job /\ i # 0 /\ Usable(t, i)
        /\ rollback(t, i, sapos[t][i].mark) /\ destroy_from(t, i + 1)
        /\ UNCHANGED <<fil, tdata, lock>>
    BY DEF rollback_to_savepoint, Ready, pageVars
  <1>2. ~sapos[t][i].undone
    BY <1>1, ZenonT(60) DEF Usable, Ordinary
  <1>3. i \in 1 .. Len(sapos[t]) /\ i + 1 \in Nat \ {0} /\ i \in Nat
    BY <1>1, FoundSapo DEF Types
  <1> QED BY <1>1, <1>2, <1>3

\* A handler goes to the savepoint of its block.
LEMMA ToBegin ==
  ASSUME Types, AtomicInv, NEW t \in Threads, undo_block(t), NEW i, i = Innermost(t).ind
  PROVE  /\ job[t] = "run" /\ UNCHANGED job /\ i \in 1 .. Len(sapos[t])
         /\ ~sapos[t][i].undone /\ rollback(t, i, sapos[t][i].mark)
         /\ UNCHANGED <<fil, tdata, lock>>
  <1> DEFINE m == Len(blocks[t])
  <1>1. /\ job[t] = "run" /\ UNCHANGED job /\ blocks[t] # << >>
        /\ rollback(t, Innermost(t).ind, Innermost(t).mark)
        /\ UNCHANGED <<fil, tdata, lock>>
    BY DEF undo_block, Ready, pageVars, jobVars
  <1>2. m \in 1 .. m /\ Innermost(t) = blocks[t][m]
    BY <1>1, InnermostFacts DEF Types
  <1>3. /\ i \in 1 .. Len(sapos[t]) /\ ~sapos[t][i].undone
        /\ sapos[t][i].mark = Innermost(t).mark
    BY <1>2 DEF AtomicInv, AtomicOK
  <1> QED BY <1>1, <1>3

\* A client sees what it should after its own steps.
LEMMA PrivateOfClient ==
  ASSUME Types, JobInv, AtomicInv, PrivateInv, SapoInv, Ordinary,
         NEW t \in Threads, ClientStep(t)
  PROVE  PrivateOK(t)'
  <1>1. ASSUME UNCHANGED <<fil, lock, log, copy, chngmap, freed, mine>> PROVE PrivateOK(t)'
    BY <1>1, RecordKept DEF PrivateInv, PrivateOK
  <1>2. ASSUME NEW p \in Pages,
               \/ fix_priv_page(t, p) \/ page_changed(t, p) \/ free_block(t, p)
               \/ \E r \in Records : rec_changed(t, p, r)
               \/ wr_changes(t, p)
        PROVE  PrivateOK(t)'
    <2>1. CASE page_changed(t, p)
      BY <2>1, ChangeRecords DEF page_changed
    <2>2. ASSUME NEW r \in Records, rec_changed(t, p, r) PROVE PrivateOK(t)'
      <3>1. p \notin freed[t] /\ {r} \in SUBSET Records /\ change(t, p, {r})
        BY <2>2 DEF rec_changed, Types, LogTypes
      <3> QED BY <3>1, ChangeRecords
    <2> QED BY <1>2, <2>1, <2>2, FixRecords, FreeRecords, WriteRecords
  <1>3. ASSUME NEW p \in Pages, save_block(t, p) PROVE PrivateOK(t)'
    BY <1>1, <1>3 DEF save_block, logVars
  <1>4. CASE save_begins(t) \/ save_fails(t) \/ create_ends(t)
    BY <1>1, <1>4 DEF save_begins, save_fails, create_ends, savepointVars, pageVars, logVars
  <1>5. ASSUME NEW block \in SwapBlocks, drop_block(t, block) PROVE PrivateOK(t)'
    BY <1>1, <1>5 DEF drop_block, logVars
  <1>6. ASSUME NEW name \in Names, sql_stmt_sapo(t, name) \/ sql_stmt_rel_sapo(t, name)
        PROVE  PrivateOK(t)'
    BY <1>1, <1>6 DEF sql_stmt_sapo, sql_stmt_rel_sapo, pageVars, logVars
  <1>7. ASSUME NEW name \in Names, rollback_to_savepoint(t, name) PROVE PrivateOK(t)'
    <2> DEFINE i == find_sapo(t, name)
    <2>0. i = find_sapo(t, name)
      OBVIOUS
    <2> HIDE DEF i
    <2>1. /\ job[t] = "run" /\ i \in 1 .. Len(sapos[t])
          /\ ~sapos[t][i].undone /\ rollback(t, i, sapos[t][i].mark)
          /\ UNCHANGED <<fil, lock>>
      BY <1>7, <2>0, ToSavepoint
    <2>2. /\ CopyOK(sapos[t][i], chngmap[t], tdata, fil)
          /\ KeptOK(sapos[t][i], log[t], chngmap[t], freed[t])
      BY <2>1, GoodSapo
    <2> QED BY <2>1, <2>2, RollbackRecords
  <1>8. CASE undo_block(t)
    <2> DEFINE i == Innermost(t).ind
    <2>0. i = Innermost(t).ind
      OBVIOUS
    <2> HIDE DEF i
    <2>1. /\ job[t] = "run" /\ i \in 1 .. Len(sapos[t])
          /\ ~sapos[t][i].undone /\ rollback(t, i, sapos[t][i].mark)
          /\ UNCHANGED <<fil, lock>>
      BY <1>8, <2>0, ToBegin
    <2>2. /\ CopyOK(sapos[t][i], chngmap[t], tdata, fil)
          /\ KeptOK(sapos[t][i], log[t], chngmap[t], freed[t])
      BY <2>1, GoodSapo
    <2> QED BY <2>1, <2>2, RollbackRecords
  <1>9. CASE begin_atomic(t) \/ end_atomic(t) \/ commit(t)
    BY <1>1, <1>9 DEF begin_atomic, end_atomic, commit, pageVars, logVars
  <1>10. CASE roll_back(t) \/ commit_ends(t)
    BY <1>10, TerminatedRecords DEF roll_back, commit_ends
  <1> QED BY <1>2, <1>3, <1>4, <1>5, <1>6, <1>7, <1>8, <1>9, <1>10 DEF ClientStep

-----------------------------------------------------------------------------
(* The savepoints stay right *)

\* The savepoints of a client and its log, in the next state.
NextSaposOK(t) ==
    SaposOK(sapos'[t], job'[t], log'[t], chngmap'[t], freed'[t], tdata', fil')

\* Savepoints of other clients: their copies are in their own blocks, and the
\* records they have changed are locked.
LEMMA SapoOfOthers ==
  ASSUME Types, HeldInv, JobInv, PrivateInv, SapoInv, NEW t \in Threads, ClientStep(t),
         NEW u \in Threads, u # t, job'[u] # "write"
  PROVE  NextSaposOK(u)
  <1>1. /\ log'[u] = log[u] /\ chngmap'[u] = chngmap[u] /\ freed'[u] = freed[u]
        /\ sapos'[u] = sapos[u] /\ job'[u] = job[u]
    BY OthersKept DEF OwnParts, OnlyFor
  <1>2. SaposOK(sapos[u], job[u], log[u], chngmap[u], freed[u], tdata, fil)
    BY <1>1 DEF SapoInv
  <1>3. SwapKept(t)
    BY SwapBlocksKept
  <1>4. ASSUME NEW q \in Pages, NEW r \in Records, r \in chngmap[u][q]
        PROVE  fil'[q][r] = fil[q][r]
    <2>1. CASE \A p \in Pages : ~wr_changes(t, p)
      BY <2>1, PagesKept
    <2>2. ASSUME NEW p \in Pages, wr_changes(t, p) PROVE fil'[q][r] = fil[q][r]
      <3>1. Written(t, p)
        BY <2>2, WriteFacts
      <3>2. RecordOK(u, q, r) /\ RecordOK(t, q, r)
        BY DEF PrivateInv, PrivateOK
      <3>3. r \notin chngmap[t][q]
        BY <1>4, <3>2 DEF RecordOK
      <3> QED BY <3>1, <3>3 DEF Written
    <2> QED BY <2>1, <2>2
  <1>5. ASSUME NEW i \in 1 .. Len(sapos[u]), CopyOK(sapos[u][i], chngmap[u], tdata, fil)
        PROVE  CopyOK(sapos[u][i], chngmap[u], tdata', fil')
    <2>1. sapos[u] \in Seq(Sapo) /\ sapos[u][i].pairs \in PairMaps
      BY SapoFacts DEF Types, SapoTypes
    <2>2. ASSUME NEW p \in DOMAIN sapos[u][i].pairs
          PROVE  p \in Pages /\ tdata'[sapos[u][i].pairs[p]] = tdata[sapos[u][i].pairs[p]]
      <3>1. p \in Pages /\ sapos[u][i].pairs[p] \in SwapBlocks
        BY <2>1, PairFacts
      <3>2. sapos[u][i].pairs[p] \in held[u]
        BY DEF HeldInv, HeldBy
      <3> QED BY <1>3, <3>1, <3>2 DEF SwapKept
    <2> QED BY <1>4, <1>5, <2>2 DEF CopyOK
  <1>6. SaposOK(sapos[u], job[u], log[u], chngmap[u], freed[u], tdata', fil')
    BY <1>2, <1>5, SaposContext
  <1> QED BY <1>1, <1>6 DEF NextSaposOK

\* The savepoints of a client and its log.
LEMMA SaposBefore ==
  ASSUME Types, SapoInv, NEW t \in Threads, job[t] # "write"
  PROVE  /\ sapos[t] \in Seq(Sapo) /\ Len(sapos[t]) \in Nat
         /\ SaposOK(sapos[t], job[t], log[t], chngmap[t], freed[t], tdata, fil)
  BY SapoFacts DEF Types, SapoTypes, SapoInv

\* fix_priv_page: the log grows.
LEMMA FixSapos ==
  ASSUME Types, SapoInv, NEW t \in Threads, NEW p \in Pages, fix_priv_page(t, p)
  PROVE  NextSaposOK(t)
  <1>1. /\ job[t] = "run" /\ log[t] \subseteq log'[t]
        /\ UNCHANGED <<sapos, job, chngmap, freed, tdata, fil>>
    BY DEF fix_priv_page, Ready, pageVars, sapoVars, jobVars, Types, LogTypes
  <1>2. SaposOK(sapos[t], job[t], log[t], chngmap[t], freed[t], tdata, fil)
    BY <1>1, SaposBefore
  <1>3. ASSUME NEW x, KeptOK(x, log[t], chngmap[t], freed[t])
        PROVE  KeptOK(x, log'[t], chngmap[t], freed[t])
    BY <1>1, <1>3 DEF KeptOK
  <1>4. SaposOK(sapos[t], job[t], log'[t], chngmap[t], freed[t], tdata, fil)
    BY <1>2, <1>3, SaposContext
  <1> QED BY <1>1, <1>4 DEF NextSaposOK

\* A changed record is copied back by a rollback from now on; the copies of
\* savepoints have its value in the database.
LEMMA ChangeSapos ==
  ASSUME Types, SapoInv, Ordinary, NEW t \in Threads, NEW p \in Pages, NEW S \in SUBSET Records,
         change(t, p, S)
  PROVE  NextSaposOK(t)
  <1>1. /\ job[t] = "run" /\ log[t] \subseteq log'[t]
        /\ chngmap' = [chngmap EXCEPT ![t][p] = @ \cup S]
        /\ UNCHANGED <<sapos, job, freed, tdata, fil>>
    BY DEF change, Ready, sapoVars, jobVars, Types, LogTypes
  <1>2. ~Stale(t, p, S)
    BY ZenonT(60) DEF change, Ordinary
  <1>3. /\ sapos[t] \in Seq(Sapo) /\ DOMAIN sapos[t] = 1 .. Len(sapos[t])
        /\ SaposOK(sapos[t], job[t], log[t], chngmap[t], freed[t], tdata, fil)
    BY <1>1, SaposBefore, SapoFacts
  <1>4. /\ chngmap'[t][p] = chngmap[t][p] \cup S
        /\ \A q \in Pages : q # p => chngmap'[t][q] = chngmap[t][q]
    BY <1>1 DEF Types, LogTypes
  <1>5. ASSUME NEW x, KeptOK(x, log[t], chngmap[t], freed[t])
        PROVE  KeptOK(x, log'[t], chngmap'[t], freed[t])
    BY <1>1, <1>4, <1>5 DEF KeptOK
  <1>6. ASSUME NEW i \in 1 .. Len(sapos[t]), CopyOK(sapos[t][i], chngmap[t], tdata, fil)
        PROVE  CopyOK(sapos[t][i], chngmap'[t], tdata, fil)
    <2>1. DOMAIN sapos[t][i].pairs \subseteq Pages
      BY <1>3, SapoFacts, PairFacts
    <2>2. ASSUME p \in DOMAIN sapos[t][i].pairs, NEW r \in S \ chngmap[t][p]
          PROVE  tdata[sapos[t][i].pairs[p]][r] = fil[p][r]
      BY <1>2, <1>3, <2>2 DEF Stale
    <2>3. ASSUME NEW q \in DOMAIN sapos[t][i].pairs, NEW r \in Records,
                 sapos[t][i].mark[q][r] = None, r \in chngmap'[t][q]
          PROVE  tdata[sapos[t][i].pairs[q]][r] = fil[q][r]
      <3>1. CASE r \in chngmap[t][q]
        BY <1>6, <2>3, <3>1 DEF CopyOK
      <3>2. CASE r \notin chngmap[t][q]
        BY <1>4, <2>1, <2>2, <2>3, <3>2
      <3> QED BY <3>1, <3>2
    <2> QED BY <1>6, <2>3 DEF CopyOK
  <1>7. SaposOK(sapos[t], job[t], log'[t], chngmap'[t], freed[t], tdata, fil)
    BY <1>3, <1>5, <1>6, SaposContext
  <1> QED BY <1>1, <1>7 DEF NextSaposOK

\* A page is freed that no savepoint has a change of.
LEMMA FreeSapos ==
  ASSUME Types, SapoInv, Ordinary, NEW t \in Threads, NEW p \in Pages, free_block(t, p)
  PROVE  NextSaposOK(t)
  <1>1. /\ job[t] = "run" /\ log' = [log EXCEPT ![t] = @ \ {p}]
        /\ chngmap' = [chngmap EXCEPT ![t][p] = {}]
        /\ freed' = [freed EXCEPT ![t] = @ \cup {p}]
        /\ UNCHANGED <<sapos, job, tdata, fil>>
    BY DEF free_block, Ready, sapoVars, jobVars
  <1>2. \A i \in DOMAIN sapos[t] : \A r \in Records : sapos[t][i].mark[p][r] = None
    BY ZenonT(60) DEF free_block, Ordinary
  <1>3. /\ sapos[t] \in Seq(Sapo) /\ DOMAIN sapos[t] = 1 .. Len(sapos[t])
        /\ SaposOK(sapos[t], job[t], log[t], chngmap[t], freed[t], tdata, fil)
    BY <1>1, SaposBefore, SapoFacts
  <1>4. /\ chngmap'[t][p] = {} /\ log'[t] = log[t] \ {p} /\ freed'[t] = freed[t] \cup {p}
        /\ \A q \in Pages : q # p => chngmap'[t][q] = chngmap[t][q]
    BY <1>1 DEF Types, LogTypes
  <1>5. ASSUME NEW i \in 1 .. Len(sapos[t]), KeptOK(sapos[t][i], log[t], chngmap[t], freed[t])
        PROVE  KeptOK(sapos[t][i], log'[t], chngmap'[t], freed'[t])
    <2>1. \A q \in Pages, r \in Records : sapos[t][i].mark[q][r] \in Values => q # p
      BY <1>2, <1>3, MarkFacts
    <2> QED BY <1>4, <1>5, <2>1 DEF KeptOK
  <1>6. ASSUME NEW i \in 1 .. Len(sapos[t]), CopyOK(sapos[t][i], chngmap[t], tdata, fil)
        PROVE  CopyOK(sapos[t][i], chngmap'[t], tdata, fil)
    <2>1. DOMAIN sapos[t][i].pairs \subseteq Pages
      BY <1>3, SapoFacts, PairFacts
    <2>2. \A q \in Pages, r \in Records : r \in chngmap'[t][q] => r \in chngmap[t][q]
      BY <1>4
    <2> QED BY <1>6, <2>1, <2>2 DEF CopyOK
  <1>7. SaposOK(sapos[t], job[t], log'[t], chngmap'[t], freed'[t], tdata, fil)
    BY <1>3, <1>5, <1>6, SaposContext
  <1> QED BY <1>1, <1>7 DEF NextSaposOK

\* destroy frees blocks without a copy that is needed.
LEMMA DropSapos ==
  ASSUME Types, HeldInv, SapoInv, NEW t \in Threads, NEW block \in SwapBlocks,
         drop_block(t, block), job[t] # "write"
  PROVE  NextSaposOK(t)
  <1>1. /\ block \in drop[t] /\ tdata' = [tdata EXCEPT ![block] = Blank]
        /\ UNCHANGED <<sapos, job, log, chngmap, freed, fil>>
    BY DEF drop_block, IsLowest, sapoVars, logVars
  <1>2. /\ sapos[t] \in Seq(Sapo)
        /\ SaposOK(sapos[t], job[t], log[t], chngmap[t], freed[t], tdata, fil)
    BY SaposBefore
  <1>3. ASSUME NEW i \in 1 .. Len(sapos[t]), CopyOK(sapos[t][i], chngmap[t], tdata, fil)
        PROVE  CopyOK(sapos[t][i], chngmap[t], tdata', fil)
    <2>1. ASSUME NEW p \in DOMAIN sapos[t][i].pairs
          PROVE  tdata'[sapos[t][i].pairs[p]] = tdata[sapos[t][i].pairs[p]]
      <3>1. sapos[t][i].pairs[p] # block
        BY <1>1 DEF HeldInv, HeldBy
      <3> QED BY <1>1, <3>1
    <2> QED BY <1>3, <2>1 DEF CopyOK
  <1>4. SaposOK(sapos[t], job[t], log[t], chngmap[t], freed[t], tdata', fil)
    BY <1>2, <1>3, SaposContext
  <1> QED BY <1>1, <1>4 DEF NextSaposOK

\* save_block: the new copy is that of the private page.
LEMMA SaveSapos ==
  ASSUME Types, HeldInv, JobInv, PrivateInv, SapoInv, NEW t \in Threads, NEW p \in Pages,
         save_block(t, p)
  PROVE  NextSaposOK(t)
  <1> DEFINE n == Len(sapos[t])
  <1>1. PICK b \in SwapBlocks : Saved(t, p, b)
    BY SaveFacts
  <1>2. /\ b \notin held[t] /\ tdata' = [tdata EXCEPT ![b] = copy[t][p]]
        /\ Len(sapos'[t]) = n /\ n \in 1 .. n
        /\ \A k \in 1 .. n : k # n => sapos'[t][k] = sapos[t][k]
        /\ sapos'[t][n].undone = sapos[t][n].undone
        /\ sapos'[t][n].mark = sapos[t][n].mark
        /\ DOMAIN sapos'[t][n].pairs = DOMAIN sapos[t][n].pairs \cup {p}
        /\ sapos'[t][n].pairs[p] = b
        /\ \A q \in DOMAIN sapos[t][n].pairs :
              q # p => sapos'[t][n].pairs[q] = sapos[t][n].pairs[q]
    BY <1>1 DEF Saved
  <1>3. /\ job[t] = "save" /\ p \in todo[t]
        /\ UNCHANGED <<log, copy, chngmap, freed, job, fil, mine>>
    BY DEF save_block, logVars
  <1>4. JobOK(sapos[t], job[t], todo[t], log[t], freed[t], mine[t])
    BY DEF JobInv
  <1>5. sapos[t][n].undone = FALSE /\ sapos[t][n].mark = mine[t] /\ p \in log[t]
    BY <1>3, <1>4 DEF JobOK
  <1>6. /\ sapos[t] \in Seq(Sapo) /\ n \in Nat
        /\ SaposOK(sapos[t], "save", log[t], chngmap[t], freed[t], tdata, fil)
    BY <1>3, SaposBefore
  <1>7. ASSUME NEW k \in 1 .. n, NEW q \in DOMAIN sapos[t][k].pairs
        PROVE  tdata'[sapos[t][k].pairs[q]] = tdata[sapos[t][k].pairs[q]]
    <2>1. sapos[t][k].pairs[q] # b
      BY <1>2 DEF HeldInv, HeldBy
    <2> QED BY <1>2, <2>1
  <1>8. tdata'[b] = copy[t][p]
    BY <1>2 DEF Types, PageTypes
  <1> HIDE DEF n
  <1>9. ASSUME NEW k \in 1 .. n, k # n, CopyOK(sapos[t][k], chngmap[t], tdata, fil)
        PROVE  CopyOK(sapos'[t][k], chngmap[t], tdata', fil)
    <2>1. sapos'[t][k] = sapos[t][k]
      BY <1>2, <1>9
    <2> QED BY <1>7, <1>9, <2>1 DEF CopyOK
  <1>10. CopyOK(sapos'[t][n], chngmap[t], tdata', fil)
    <2>1. CopyOK(sapos[t][n], chngmap[t], tdata, fil)
      BY <1>2, <1>5, <1>6 DEF SaposOK, n
    <2>2. ASSUME NEW q \in DOMAIN sapos'[t][n].pairs, NEW r \in Records
          PROVE  /\ sapos'[t][n].mark[q][r] \in Values
                      => tdata'[sapos'[t][n].pairs[q]][r] = sapos'[t][n].mark[q][r]
                 /\ sapos'[t][n].mark[q][r] = None /\ r \in chngmap[t][q]
                      => tdata'[sapos'[t][n].pairs[q]][r] = fil[q][r]
      <3>1. CASE q = p
        <4>1. RecordOK(t, p, r)
          BY DEF PrivateInv, PrivateOK
        <4>2. tdata'[sapos'[t][n].pairs[q]][r] = copy[t][p][r]
          BY <1>2, <1>8, <3>1
        <4>3. sapos'[t][n].mark[q][r] = mine[t][p][r]
          BY <1>2, <1>5, <3>1
        <4>4. mine[t][p][r] \in Values => copy[t][p][r] = mine[t][p][r]
          BY <4>1 DEF RecordOK
        <4>5. mine[t][p][r] = None => copy[t][p][r] = fil[p][r]
          BY <1>5, <4>1 DEF RecordOK
        <4> QED BY <3>1, <4>2, <4>3, <4>4, <4>5
      <3>2. CASE q # p
        <4>1. /\ q \in DOMAIN sapos[t][n].pairs
              /\ sapos'[t][n].pairs[q] = sapos[t][n].pairs[q]
          BY <1>2, <3>2
        <4>2. tdata'[sapos'[t][n].pairs[q]] = tdata[sapos[t][n].pairs[q]]
          BY <1>2, <1>7, <4>1
        <4>3. sapos'[t][n].mark = sapos[t][n].mark
          BY <1>2
        <4>4. /\ sapos[t][n].mark[q][r] \in Values
                   => tdata[sapos[t][n].pairs[q]][r] = sapos[t][n].mark[q][r]
              /\ sapos[t][n].mark[q][r] = None /\ r \in chngmap[t][q]
                   => tdata[sapos[t][n].pairs[q]][r] = fil[q][r]
          BY <2>1, <4>1 DEF CopyOK
        <4> QED BY <4>2, <4>3, <4>4
      <3> QED BY <3>1, <3>2
    <2> QED BY <2>2 DEF CopyOK
  <1>11. ASSUME NEW k \in 1 .. Len(sapos'[t]), ~sapos'[t][k].undone
         PROVE  CopyOK(sapos'[t][k], chngmap[t], tdata', fil)
    <2>1. CASE k = n
      BY <1>10, <2>1
    <2>2. CASE k # n
      <3>1. k \in 1 .. n /\ sapos'[t][k] = sapos[t][k]
        BY <1>2, <2>2
      <3>2. CopyOK(sapos[t][k], chngmap[t], tdata, fil)
        BY <1>6, <1>11, <3>1 DEF SaposOK, n
      <3> QED BY <1>9, <2>2, <3>1, <3>2
    <2> QED BY <2>1, <2>2
  <1>12. ASSUME NEW k \in 1 .. n, ~Unfinished(sapos'[t], "save", k)
         PROVE  k # n /\ sapos'[t][k] = sapos[t][k] /\ ~Unfinished(sapos[t], "save", k)
    <2>1. k # n
      BY <1>2, <1>12 DEF Unfinished
    <2> QED BY <1>2, <2>1 DEF Unfinished, n
  <1>13. ASSUME NEW k \in 1 .. Len(sapos'[t]), ~sapos'[t][k].undone,
                ~Unfinished(sapos'[t], "save", k)
         PROVE  KeptOK(sapos'[t][k], log[t], chngmap[t], freed[t])
    BY <1>2, <1>6, <1>12, <1>13 DEF SaposOK, n
  <1>14. ASSUME NEW i \in 1 .. Len(sapos'[t]), NEW j \in 1 .. Len(sapos'[t]), i < j,
                ~sapos'[t][i].undone, ~sapos'[t][j].undone, ~Unfinished(sapos'[t], "save", j)
         PROVE  Nested(sapos'[t][i], sapos'[t][j])
    <2>1. i \in 1 .. n /\ j \in 1 .. n
      BY <1>2, <1>14
    <2>2. j # n /\ sapos'[t][j] = sapos[t][j] /\ ~Unfinished(sapos[t], "save", j)
      BY <1>12, <1>14, <2>1
    <2>3. i # n
      BY <1>6, <1>14, <2>1, <2>2
    <2>4. sapos'[t][i] = sapos[t][i]
      BY <1>2, <2>1, <2>3
    <2> QED BY <1>6, <1>14, <2>1, <2>2, <2>4 DEF SaposOK, n
  <1>15. SaposOK(sapos'[t], "save", log[t], chngmap[t], freed[t], tdata', fil)
    BY <1>11, <1>13, <1>14 DEF SaposOK
  <1> QED BY <1>3, <1>15 DEF NextSaposOK

\* create ends: the last savepoint has a copy of each private page.
LEMMA EndSapos ==
  ASSUME Types, JobInv, PrivateInv, SapoInv, NEW t \in Threads, create_ends(t)
  PROVE  NextSaposOK(t)
  <1> DEFINE n == Len(sapos[t])
             x == sapos[t][n]
  <1>1. /\ job[t] = "save" /\ job'[t] = "run" /\ todo[t] = {}
        /\ UNCHANGED <<sapos, log, chngmap, freed, tdata, fil>>
    BY DEF create_ends, pageVars, logVars, Types, SapoTypes
  <1>2. JobOK(sapos[t], job[t], todo[t], log[t], freed[t], mine[t])
    BY DEF JobInv
  <1>3. /\ x.freed = freed[t] /\ x.mark = mine[t]
        /\ DOMAIN x.pairs \subseteq log[t] /\ log[t] \subseteq DOMAIN x.pairs
    BY <1>1, <1>2 DEF JobOK
  <1>4. /\ sapos[t] \in Seq(Sapo) /\ n # 0
        /\ SaposOK(sapos[t], "save", log[t], chngmap[t], freed[t], tdata, fil)
    BY <1>1, SaposBefore DEF Types, SapoTypes
  <1>5. KeptOK(x, log[t], chngmap[t], freed[t])
    <2> HIDE DEF x
    <2>1. ASSUME NEW p \in Pages, NEW r \in Records
          PROVE  /\ x.mark[p][r] = Gone <=> p \in x.freed
                 /\ x.mark[p][r] \in Values
                      => p \in DOMAIN x.pairs /\ p \in log[t] /\ r \in chngmap[t][p]
      <3>1. RecordOK(t, p, r)
        BY DEF PrivateInv, PrivateOK
      <3> QED BY <1>3, <3>1 DEF RecordOK
    <2> QED BY <1>3, <2>1 DEF KeptOK
  <1>6. SaposOK(sapos[t], "run", log[t], chngmap[t], freed[t], tdata, fil)
    BY <1>3, <1>4, <1>5, SaposCompleted
  <1> QED BY <1>1, <1>6 DEF NextSaposOK

\* The last savepoints are destroyed.
LEMMA DestroySapos ==
  ASSUME Types, SapoInv, NEW t \in Threads, job[t] = "run", job' = job, NEW i \in Nat \ {0},
         destroy_from(t, i), UNCHANGED <<log, chngmap, freed, tdata, fil>>
  PROVE  NextSaposOK(t)
  <1> DEFINE n == IF i > Len(sapos[t]) THEN Len(sapos[t]) ELSE i - 1
  <1>1. n = IF i > Len(sapos[t]) THEN Len(sapos[t]) ELSE i - 1
    OBVIOUS
  <1> HIDE DEF n
  <1>2. n \in 0 .. Len(sapos[t]) /\ FirstOf(sapos[t], n, sapos'[t])
    BY <1>1, DestroyFacts DEF Types
  <1>3. /\ sapos[t] \in Seq(Sapo)
        /\ SaposOK(sapos[t], "run", log[t], chngmap[t], freed[t], tdata, fil)
    BY SaposBefore
  <1>4. SaposOK(sapos'[t], "run", log[t], chngmap[t], freed[t], tdata, fil)
    BY <1>2, <1>3, SaposFirst
  <1> QED BY <1>4 DEF NextSaposOK

\* After a transaction there are no savepoints.
LEMMA TerminatedSapos ==
  ASSUME Types, NEW t \in Threads, Terminated(t)
  PROVE  NextSaposOK(t)
  <1>1. 1 \in Nat \ {0} /\ destroy_from(t, 1) /\ SapoTypes
    BY DEF Terminated, Types
  <1>2. Len(sapos[t]) \in Nat
    BY SapoFacts DEF Types, SapoTypes
  <1> DEFINE n == IF 1 > Len(sapos[t]) THEN Len(sapos[t]) ELSE 1 - 1
  <1>3. n = IF 1 > Len(sapos[t]) THEN Len(sapos[t]) ELSE 1 - 1
    OBVIOUS
  <1>4. n = 0
    BY <1>2
  <1> HIDE DEF n
  <1>5. FirstOf(sapos[t], n, sapos'[t])
    BY <1>1, <1>3, DestroyFacts
  <1>6. Len(sapos'[t]) = 0
    BY <1>4, <1>5 DEF FirstOf
  <1>7. 1 .. Len(sapos'[t]) = {}
    BY <1>6
  <1> QED BY <1>7 DEF NextSaposOK, SaposOK

\* create begins: the new savepoint has no copies yet.
LEMMA CreatedSapos ==
  ASSUME Types, NEW t \in Threads, NEW s \in Seq(Sapo), NEW id, NEW atomic,
         SaposOK(s, "run", log[t], chngmap[t], freed[t], tdata, fil),
         Created(t, s, id, atomic), UNCHANGED <<log, chngmap, freed, tdata, fil>>
  PROVE  NextSaposOK(t)
  <1>1. AddedTo(s, sapos'[t]) /\ sapos'[t][Len(s) + 1].pairs = << >> /\ job'[t] = "save"
    BY DEF Created
  <1>2. SaposOK(sapos'[t], "save", log[t], chngmap[t], freed[t], tdata, fil)
    BY <1>1, SaposAdded
  <1> QED BY <1>1, <1>2 DEF NextSaposOK

\* SAVEPOINT name.
LEMMA StatementSaposOK ==
  ASSUME Types, SapoInv, NEW t \in Threads, NEW name \in Names, sql_stmt_sapo(t, name)
  PROVE  NextSaposOK(t)
  <1> DEFINE i == find_sapo(t, name)
             s == StatementSapos(t, name)
  <1>1. /\ create(t, s, name, FALSE) /\ job[t] = "run"
        /\ UNCHANGED <<log, chngmap, freed, tdata, fil>>
    BY DEF sql_stmt_sapo, StatementSapos, Ready, pageVars, logVars
  <1>2. /\ i \in 0 .. Len(sapos[t]) /\ s \in Seq(Sapo)
        /\ i = 0 => s = sapos[t]
        /\ i # 0 => /\ Len(s) = Len(sapos[t]) - 1
                    /\ \A k \in 1 .. Len(sapos[t]) - 1 :
                          s[k] = sapos[t][IF k < i THEN k ELSE k + 1]
    BY StatementFacts DEF Types
  <1> HIDE DEF i, s
  <1>3. /\ sapos[t] \in Seq(Sapo) /\ Len(sapos[t]) \in Nat
        /\ SaposOK(sapos[t], "run", log[t], chngmap[t], freed[t], tdata, fil)
    BY <1>1, SaposBefore
  <1>4. SaposOK(s, "run", log[t], chngmap[t], freed[t], tdata, fil)
    <2>1. CASE i = 0
      BY <1>2, <1>3, <2>1
    <2>2. CASE i # 0
      <3>1. i \in 1 .. Len(sapos[t])
        BY <1>2, <1>3, <2>2
      <3> QED BY <1>2, <1>3, <2>2, <3>1, SaposWithout
    <2> QED BY <2>1, <2>2
  <1>5. Created(t, s, name, FALSE)
    <2>1. name \in Names \cup Numbers /\ FALSE \in BOOLEAN /\ SapoTypes /\ LogTypes
      BY DEF Types
    <2> QED BY <1>1, <1>2, <2>1, CreateFacts, ZenonT(60)
  <1> QED BY <1>1, <1>2, <1>4, <1>5, CreatedSapos

\* BEGIN ATOMIC.
LEMMA BeginSapos ==
  ASSUME Types, SapoInv, NEW t \in Threads, begin_atomic(t)
  PROVE  NextSaposOK(t)
  <1> DEFINE s == sapos[t]
             n == get_number(t)
  <1>1. /\ create(t, s, n, TRUE) /\ job[t] = "run"
        /\ UNCHANGED <<log, chngmap, freed, tdata, fil>>
    BY DEF begin_atomic, Ready, pageVars, logVars
  <1>2. n \in Numbers
    BY GetNumber DEF Types, SapoTypes
  <1>3. s \in Seq(Sapo) /\ SaposOK(s, "run", log[t], chngmap[t], freed[t], tdata, fil)
    BY <1>1, SaposBefore
  <1> HIDE DEF s, n
  <1>4. Created(t, s, n, TRUE)
    <2>1. n \in Names \cup Numbers /\ TRUE \in BOOLEAN /\ SapoTypes /\ LogTypes
      BY <1>2 DEF Types
    <2> QED BY <1>1, <1>3, <2>1, CreateFacts, ZenonT(60)
  <1> QED BY <1>1, <1>3, <1>4, CreatedSapos

\* ROLLBACK TO SAVEPOINT name.
LEMMA ToSapos ==
  ASSUME Types, SapoInv, Ordinary, NEW t \in Threads, NEW name \in Names,
         rollback_to_savepoint(t, name)
  PROVE  NextSaposOK(t)
  <1> DEFINE i == find_sapo(t, name)
             n == IF i + 1 > Len(sapos[t]) THEN Len(sapos[t]) ELSE i + 1 - 1
  <1>1. i = find_sapo(t, name) /\ n = IF i + 1 > Len(sapos[t]) THEN Len(sapos[t]) ELSE i + 1 - 1
    OBVIOUS
  <1> HIDE DEF i, n
  <1>2. /\ job[t] = "run" /\ UNCHANGED job /\ i \in 1 .. Len(sapos[t])
        /\ ~sapos[t][i].undone /\ rollback(t, i, sapos[t][i].mark)
        /\ destroy_from(t, i + 1) /\ i + 1 \in Nat \ {0} /\ i \in Nat
        /\ UNCHANGED <<fil, tdata, lock>>
    BY <1>1, ToSavepoint
  <1>3. SaposOK(sapos[t], "run", log[t], chngmap[t], freed[t], tdata, fil)
    BY <1>2, GoodSapo
  <1>4. /\ sapos[t] \in Seq(Sapo) /\ Len(sapos[t]) \in Nat /\ sapos[t][i].mark \in Changes
    BY <1>2, SapoFacts DEF Types, SapoTypes
  <1>5. n \in 0 .. Len(sapos[t]) /\ FirstOf(sapos[t], n, sapos'[t])
    BY <1>1, <1>2, DestroyFacts DEF Types
  <1>6. n = i
    BY <1>1, <1>2, <1>4
  <1>7. /\ sapos'[t] \in Seq(Sapo) /\ Len(sapos'[t]) = i
        /\ \A k \in 1 .. i : sapos'[t][k] = sapos[t][k]
    BY <1>5, <1>6 DEF FirstOf
  <1>8. /\ Len(sapos'[t]) <= Len(sapos[t])
        /\ \A k \in 1 .. Len(sapos'[t]) : k <= i
    BY <1>2, <1>4, <1>7
  <1>9. \A k \in 1 .. Len(sapos'[t]) : SameSapo(sapos[t][k], sapos'[t][k])
    BY <1>7 DEF SameSapo
  <1>10. /\ log'[t] = log[t] \cap DOMAIN sapos[t][i].pairs
         /\ freed'[t] = freed[t] \cap sapos[t][i].freed
         /\ \A p \in Pages : chngmap'[t][p] = IF p \in log'[t] THEN chngmap[t][p] ELSE {}
    BY <1>2, <1>4, RollbackFacts
  <1>11. SaposOK(sapos'[t], "run", log'[t], chngmap'[t], freed'[t], tdata, fil)
    <2>1. RolledBack(sapos[t], sapos'[t], i, log[t], chngmap[t], freed[t],
                     log'[t], chngmap'[t], freed'[t])
      BY <1>2, <1>8, <1>9, <1>10 DEF RolledBack
    <2> QED BY <1>3, <1>4, <1>7, <2>1, SaposAfterRollback
  <1> QED BY <1>2, <1>11 DEF NextSaposOK

\* UNDO: later savepoints stay, but are not to be used any more.
LEMMA UndoSapos ==
  ASSUME Types, AtomicInv, SapoInv, NEW t \in Threads, undo_block(t)
  PROVE  NextSaposOK(t)
  <1> DEFINE i == Innermost(t).ind
  <1>1. i = Innermost(t).ind
    OBVIOUS
  <1> HIDE DEF i
  <1>2. /\ job[t] = "run" /\ UNCHANGED job /\ i \in 1 .. Len(sapos[t])
        /\ ~sapos[t][i].undone /\ rollback(t, i, sapos[t][i].mark)
        /\ UNCHANGED <<fil, tdata, lock>>
    BY <1>1, ToBegin
  <1>3. SaposOK(sapos[t], "run", log[t], chngmap[t], freed[t], tdata, fil)
    BY <1>2, GoodSapo
  <1>4. /\ sapos[t] \in Seq(Sapo) /\ Len(sapos[t]) \in Nat /\ sapos[t][i].mark \in Changes
    BY <1>2, SapoFacts DEF Types, SapoTypes
  <1>5. /\ sapos' \in [Threads -> Seq(Sapo)] /\ Len(sapos'[t]) = Len(sapos[t])
        /\ \A k \in 1 .. Len(sapos[t]) :
             /\ sapos'[t][k].pairs = sapos[t][k].pairs
             /\ sapos'[t][k].freed = sapos[t][k].freed
             /\ sapos'[t][k].mark = sapos[t][k].mark
             /\ sapos'[t][k].undone <=> sapos[t][k].undone \/ k > i
    BY <1>1, UndoFacts DEF Types
  <1>6. /\ sapos'[t] \in Seq(Sapo) /\ Len(sapos'[t]) <= Len(sapos[t])
    BY <1>4, <1>5
  <1>7. \A k \in 1 .. Len(sapos'[t]) : SameSapo(sapos[t][k], sapos'[t][k])
    BY <1>5 DEF SameSapo
  <1>8. \A k \in 1 .. Len(sapos'[t]) : ~sapos'[t][k].undone => k <= i
    <2>1. i \in Nat
      BY <1>2
    <2> QED BY <1>4, <1>5, <2>1
  <1>9. /\ log'[t] = log[t] \cap DOMAIN sapos[t][i].pairs
        /\ freed'[t] = freed[t] \cap sapos[t][i].freed
        /\ \A p \in Pages : chngmap'[t][p] = IF p \in log'[t] THEN chngmap[t][p] ELSE {}
    BY <1>2, <1>4, RollbackFacts
  <1>10. SaposOK(sapos'[t], "run", log'[t], chngmap'[t], freed'[t], tdata, fil)
    <2>1. RolledBack(sapos[t], sapos'[t], i, log[t], chngmap[t], freed[t],
                     log'[t], chngmap'[t], freed'[t])
      BY <1>2, <1>6, <1>7, <1>8, <1>9 DEF RolledBack
    <2> QED BY <1>3, <1>4, <1>6, <2>1, SaposAfterRollback
  <1> QED BY <1>2, <1>10 DEF NextSaposOK

\* A client's savepoints stay right in its own steps.
LEMMA SapoOfClient ==
  ASSUME Types, HeldInv, JobInv, AtomicInv, PrivateInv, SapoInv, Ordinary,
         NEW t \in Threads, ClientStep(t), job'[t] # "write"
  PROVE  NextSaposOK(t)
  <1>1. ASSUME NEW p \in Pages,
               \/ fix_priv_page(t, p) \/ page_changed(t, p) \/ free_block(t, p)
               \/ \E r \in Records : rec_changed(t, p, r)
        PROVE  NextSaposOK(t)
    <2>1. CASE page_changed(t, p) \/ \E r \in Records : rec_changed(t, p, r)
      <3>1. PICK S \in SUBSET Records : change(t, p, S)
        BY <2>1 DEF page_changed, rec_changed
      <3> QED BY <3>1, ChangeSapos
    <2> QED BY <1>1, <2>1, FixSapos, FreeSapos
  <1>2. ASSUME NEW p \in Pages, save_block(t, p) PROVE NextSaposOK(t)
    BY <1>2, SaveSapos
  <1>3. ASSUME NEW p \in Pages, wr_changes(t, p) PROVE NextSaposOK(t)
    BY <1>3 DEF wr_changes
  <1>4. CASE save_begins(t)
    <2>1. UNCHANGED <<sapos, job, log, chngmap, freed, tdata, fil>> /\ job[t] = "save"
      BY <1>4 DEF save_begins, savepointVars, pageVars, logVars, sapoVars, jobVars
    <2> QED BY <2>1, SaposBefore DEF NextSaposOK
  <1>5. CASE save_fails(t)
    <2> DEFINE n == Len(sapos[t]) - 1
    <2>1. /\ job[t] = "save" /\ job'[t] = "run"
          /\ UNCHANGED <<log, chngmap, freed, tdata, fil>>
      BY <1>5 DEF save_fails, pageVars, logVars, Types, SapoTypes
    <2>2. /\ sapos[t] \in Seq(Sapo) /\ Len(sapos[t]) \in Nat
          /\ SaposOK(sapos[t], "save", log[t], chngmap[t], freed[t], tdata, fil)
      BY <2>1, SaposBefore
    <2>3. n = Len(sapos[t]) - 1 /\ n < Len(sapos[t])
      BY <2>2
    <2> HIDE DEF n
    <2>4. n \in 0 .. Len(sapos[t]) /\ FirstOf(sapos[t], n, sapos'[t])
      BY <1>5, <2>3, FailFacts DEF Types
    <2>5. SaposOK(sapos'[t], "run", log[t], chngmap[t], freed[t], tdata, fil)
      BY <2>2, <2>3, <2>4, SaposFirst
    <2> QED BY <2>1, <2>5 DEF NextSaposOK
  <1>6. CASE create_ends(t)
    BY <1>6, EndSapos
  <1>7. ASSUME NEW block \in SwapBlocks, drop_block(t, block) PROVE NextSaposOK(t)
    <2>1. UNCHANGED job
      BY <1>7 DEF drop_block
    <2> QED BY <1>7, <2>1, DropSapos
  <1>8. ASSUME NEW name \in Names, sql_stmt_sapo(t, name) PROVE NextSaposOK(t)
    BY <1>8, StatementSaposOK
  <1>9. ASSUME NEW name \in Names, sql_stmt_rel_sapo(t, name) PROVE NextSaposOK(t)
    <2> DEFINE i == find_sapo(t, name)
    <2>1. /\ job[t] = "run" /\ UNCHANGED job /\ i # 0 /\ destroy_from(t, i)
          /\ UNCHANGED <<log, chngmap, freed, tdata, fil>>
      BY <1>9 DEF sql_stmt_rel_sapo, Ready, pageVars, logVars
    <2>2. i \in Nat \ {0}
      BY <2>1, FoundSapo DEF Types
    <2> HIDE DEF i
    <2> QED BY <2>1, <2>2, DestroySapos
  <1>10. ASSUME NEW name \in Names, rollback_to_savepoint(t, name) PROVE NextSaposOK(t)
    BY <1>10, ToSapos
  <1>11. CASE begin_atomic(t)
    BY <1>11, BeginSapos
  <1>12. CASE undo_block(t)
    BY <1>12, UndoSapos
  <1>13. CASE end_atomic(t)
    <2> DEFINE i == Innermost(t).ind
    <2>1. /\ job[t] = "run" /\ UNCHANGED job /\ blocks[t] # << >> /\ destroy_from(t, i)
          /\ UNCHANGED <<log, chngmap, freed, tdata, fil>>
      BY <1>13 DEF end_atomic, Ready, pageVars, logVars
    <2>2. i \in Nat \ {0}
      BY <2>1, InnermostFacts DEF Types
    <2> HIDE DEF i
    <2> QED BY <2>1, <2>2, DestroySapos
  <1>14. CASE commit(t)
    <2>1. job'[t] = "write"
      BY <1>14 DEF commit, Types, SapoTypes
    <2> QED BY <2>1
  <1>15. CASE roll_back(t) \/ commit_ends(t)
    BY <1>15, TerminatedSapos DEF roll_back, commit_ends
  <1> QED BY <1>1, <1>2, <1>3, <1>4, <1>5, <1>6, <1>7, <1>8, <1>9, <1>10, <1>11, <1>12,
             <1>13, <1>14, <1>15 DEF ClientStep

-----------------------------------------------------------------------------
(* The view of a client *)

\* All clients' private pages and savepoints stay right.
LEMMA ViewNext ==
  ASSUME Types, HeldInv, JobInv, AtomicInv, PrivateInv, SapoInv, Ordinary,
         [SavepointsNext]_allVars
  PROVE  PrivateInv' /\ SapoInv'
  <1>1. ASSUME NEW t \in Threads, ClientStep(t) PROVE PrivateInv' /\ SapoInv'
    <2>1. ASSUME NEW u \in Threads PROVE PrivateOK(u)'
      BY <1>1, PrivateOfClient, PrivateOfOthers
    <2>2. ASSUME NEW u \in Threads, job'[u] # "write" PROVE NextSaposOK(u)
      BY <1>1, <2>2, SapoOfClient, SapoOfOthers
    <2> QED BY <2>1, <2>2 DEF PrivateInv, SapoInv, NextSaposOK
  <1>2. ASSUME UNCHANGED allVars PROVE PrivateInv' /\ SapoInv'
    <2>1. UNCHANGED <<fil, tdata, lock, log, copy, chngmap, freed, mine, sapos, job>>
      BY <1>2 DEF allVars, savepointVars, pageVars, logVars, sapoVars, jobVars
    <2>2. PrivateInv'
      BY <2>1 DEF PrivateInv, PrivateOK, RecordOK
    <2>3. SapoInv'
      BY <2>1 DEF SapoInv
    <2> QED BY <2>2, <2>3
  <1>3. (\E t \in Threads : ClientStep(t)) \/ UNCHANGED allVars
    BY StepOfClient
  <1> QED BY <1>1, <1>2, <1>3

\* At the start there are no private pages and no savepoints.
LEMMA ViewStart == SavepointsInit => PrivateInv /\ SapoInv
  <1> SUFFICES ASSUME SavepointsInit PROVE PrivateInv /\ SapoInv
    OBVIOUS
  <1>1. ASSUME NEW t \in Threads, NEW p \in Pages, NEW r \in Records PROVE RecordOK(t, p, r)
    <2>1. log[t] = {} /\ chngmap[t][p] = {} /\ freed[t] = {} /\ mine[t] = NoChanges
      BY DEF SavepointsInit
    <2>2. NoChanges[p][r] = None
      BY DEF NoChanges
    <2> QED BY <2>1, <2>2, MarkFacts DEF RecordOK
  <1>2. ASSUME NEW t \in Threads
        PROVE  SaposOK(sapos[t], job[t], log[t], chngmap[t], freed[t], tdata, fil)
    <2>1. sapos[t] = << >>
      BY DEF SavepointsInit
    <2>2. Len(<< >>) = 0 /\ 1 .. 0 = {}
      BY EmptySeq
    <2> QED BY <2>1, <2>2 DEF SaposOK
  <1> QED BY <1>1, <1>2 DEF PrivateInv, PrivateOK, SapoInv

\* Ordinary programs name only savepoints of their own atomic block.
LEMMA OrdinaryInner == Ordinary => InnerNamed
  BY ZenonT(60) DEF Ordinary, InnerNamed

\* The invariant of ordinary programs.
ViewInv ==
    Types /\ HeldInv /\ WriteInv /\ JobInv /\ AtomicInv /\ PrivateInv /\ SapoInv

\* It implies that clients see what they should.
LEMMA ViewImplied == ViewInv => ViewExact
  <1> SUFFICES ASSUME ViewInv, NEW t \in Threads, NEW p \in Pages \ released, NEW r \in Records
               PROVE  View(t, p, r) = Expected(t, p, r)
    BY DEF ViewExact
  <1>1. RecordOK(t, p, r)
    BY DEF ViewInv, PrivateInv, PrivateOK
  <1> QED BY <1>1, ViewIsExpected DEF ViewInv

\* The invariant is kept.
LEMMA ViewInvNext ==
  ASSUME Ordinary, ViewInv, [SavepointsNext]_allVars
  PROVE  ViewInv'
  <1>1. Types /\ HeldInv /\ WriteInv /\ JobInv /\ AtomicInv /\ PrivateInv /\ SapoInv
    BY DEF ViewInv
  <1>2. Types'
    BY <1>1, TypesNext
  <1>3. HeldInv' /\ WriteInv'
    BY <1>1, HeldNext
  <1>4. JobInv'
    BY <1>1, JobNext
  <1>5. AtomicInv'
    BY <1>1, OrdinaryInner, AtomicNext
  <1>6. PrivateInv' /\ SapoInv'
    BY <1>1, ViewNext
  <1> QED BY <1>2, <1>3, <1>4, <1>5, <1>6 DEF ViewInv

\* It holds at the start.
LEMMA ViewInvStart == SavepointsInit => ViewInv
  BY TypesInit, HeldStart, JobStart, AtomicStart, ViewStart DEF ViewInv

\* Rolling back to a savepoint or to the BEGIN of an atomic block gives a
\* client exactly the changes it had made then, on the committed values of all
\* other records, whatever the interleaving with other clients and their
\* commits; where SQL programs are the ordinary ones of the manual and no
\* record is changed that another client has committed since a savepoint has
\* a copy of it.
THEOREM ViewIsExact ==
  ASSUME Ordinary
  PROVE  SavepointsSpec => []ViewExact
<1>1. SavepointsInit => ViewInv
  BY ViewInvStart
<1>2. ViewInv /\ [SavepointsNext]_allVars => ViewInv'
  BY ViewInvNext
<1>3. ViewInv => ViewExact
  BY ViewImplied
<1> QED BY <1>1, <1>2, <1>3, PTL DEF SavepointsSpec

-----------------------------------------------------------------------------
(* The committed contents of the database *)

\* commit has written a change to the page of the database, but has not ended.
InFile(t, p, r) == job[t] = "write" /\ p \in log[t] \ todo[t] /\ mine[t][p][r] \in Values

\* commit_sem.
OneWriter == \A t, u \in Threads : job[t] = "write" /\ job[u] = "write" => t = u

\* The page has the changes that were written, else what was committed before.
FileOK(p, r) ==
    /\ \A t \in Threads : InFile(t, p, r) => fil[p][r] = mine[t][p][r]
    /\ (\A t \in Threads : ~InFile(t, p, r)) => fil[p][r] = ref[p][r]

FileInv == OneWriter /\ \A p \in Pages, r \in Records : FileOK(p, r)

\* Only commit writes to the database, and only its end counts.
LEMMA NotCommit ==
  ASSUME Types, WriteInv, NEW t \in Threads, ClientStep(t),
         \A p \in Pages : ~wr_changes(t, p), ~commit(t), ~commit_ends(t)
  PROVE  job[t] # "write" /\ job'[t] # "write" /\ UNCHANGED ref
  <1> DEFINE Good == job[t] # "write" /\ job'[t] # "write" /\ UNCHANGED ref
  <1>1. ASSUME job[t] = "run" \/ job[t] = "save",
               UNCHANGED job \/ job'[t] = "run" \/ job'[t] = "save", UNCHANGED ref
        PROVE  Good
    BY <1>1
  <1>2. ASSUME NEW p \in Pages,
               \/ fix_priv_page(t, p) \/ page_changed(t, p) \/ free_block(t, p)
               \/ \E r \in Records : rec_changed(t, p, r)
        PROVE  Good
    <2>1. CASE page_changed(t, p) \/ \E r \in Records : rec_changed(t, p, r)
      BY <2>1 DEF page_changed, rec_changed, change, Ready, jobVars
    <2>2. CASE fix_priv_page(t, p)
      BY <2>2 DEF fix_priv_page, Ready, jobVars
    <2>3. CASE free_block(t, p)
      BY <2>3 DEF free_block, Ready, jobVars
    <2> QED BY <1>2, <2>1, <2>2, <2>3
  <1>3. ASSUME NEW p \in Pages, save_block(t, p) PROVE Good
    BY <1>3 DEF save_block
  <1>4. CASE save_begins(t)
    BY <1>4 DEF save_begins, savepointVars, jobVars
  <1>5. CASE save_fails(t)
    <2>1. job[t] = "save" /\ job'[t] = "run" /\ UNCHANGED ref
      BY <1>5 DEF save_fails, Types, SapoTypes
    <2> QED BY <2>1
  <1>6. CASE create_ends(t)
    <2>1. job[t] = "save" /\ job'[t] = "run" /\ UNCHANGED ref
      BY <1>6 DEF create_ends, Types, SapoTypes
    <2> QED BY <2>1
  <1>7. ASSUME NEW block \in SwapBlocks, drop_block(t, block) PROVE Good
    <2>1. drop[t] # {} /\ UNCHANGED <<job, ref>>
      BY <1>7 DEF drop_block, IsLowest
    <2> QED BY <2>1 DEF WriteInv
  <1>8. ASSUME NEW name \in Names, sql_stmt_sapo(t, name) PROVE Good
    <2>1. /\ \E s : create(t, s, name, FALSE)
          /\ job[t] = "run" /\ UNCHANGED ref
      BY <1>8 DEF sql_stmt_sapo, Ready
    <2>2. job'[t] = "save"
      BY <2>1 DEF create, Types, SapoTypes
    <2> QED BY <2>1, <2>2
  <1>9. ASSUME NEW name \in Names, sql_stmt_rel_sapo(t, name) \/ rollback_to_savepoint(t, name)
        PROVE  Good
    BY <1>9 DEF sql_stmt_rel_sapo, rollback_to_savepoint, Ready
  <1>10. CASE begin_atomic(t)
    <2>1. /\ \E s, n : create(t, s, n, TRUE)
          /\ job[t] = "run" /\ UNCHANGED ref
      BY <1>10 DEF begin_atomic, Ready
    <2>2. job'[t] = "save"
      BY <2>1 DEF create, Types, SapoTypes
    <2> QED BY <2>1, <2>2
  <1>11. CASE undo_block(t) \/ end_atomic(t) \/ roll_back(t)
    BY <1>11 DEF undo_block, end_atomic, roll_back, MayTerminate, Ready, jobVars
  <1> QED BY <1>2, <1>3, <1>4, <1>5, <1>6, <1>7, <1>8, <1>9, <1>10, <1>11 DEF ClientStep

\* Pages written by commit have its changes.
LEMMA FileWritten ==
  ASSUME ViewInv, FileInv, NEW t \in Threads, NEW p \in Pages, wr_changes(t, p)
  PROVE  FileInv'
  <1>1. /\ job[t] = "write" /\ todo' = [todo EXCEPT ![t] = @ \ {p}]
        /\ p \in todo[t] /\ UNCHANGED <<job, ref>>
    BY DEF wr_changes
  <1>2. Types /\ JobInv /\ PrivateInv
    BY DEF ViewInv
  <1>3. Written(t, p)
    BY <1>2, WriteFacts
  <1>4. UNCHANGED <<log, mine>> /\ p \in log[t]
    BY <1>3 DEF Written
  <1>5. /\ todo'[t] = todo[t] \ {p}
        /\ \A u \in Threads : u # t => todo'[u] = todo[u]
    BY <1>1, <1>2 DEF Types, SapoTypes
  <1>6. OneWriter'
    BY <1>1 DEF FileInv, OneWriter
  <1>7. \A u \in Threads : u # t => job[u] # "write"
    BY <1>1 DEF FileInv, OneWriter
  <1>8. ASSUME NEW q \in Pages, NEW r \in Records PROVE FileOK(q, r)'
    <2>1. FileOK(q, r)
      BY DEF FileInv
    <2>2. \A u \in Threads : u # t => ~InFile(u, q, r) /\ ~InFile(u, q, r)'
      BY <1>1, <1>7 DEF InFile
    <2>3. CASE q = p /\ mine[t][p][r] \in Values
      <3>1. RecordOK(t, p, r)
        BY <1>2 DEF PrivateInv, PrivateOK
      <3>2. r \in chngmap[t][p] /\ copy[t][p][r] = mine[t][p][r]
        BY <2>3, <3>1 DEF RecordOK
      <3>3. fil'[p][r] = mine'[t][p][r]
        BY <1>3, <1>4, <3>2 DEF Written
      <3>4. InFile(t, q, r)'
        BY <1>1, <1>4, <1>5, <2>3 DEF InFile
      <3> QED BY <2>2, <2>3, <3>3, <3>4 DEF FileOK
    <2>4. CASE q # p \/ mine[t][p][r] \notin Values
      <3>1. fil'[q][r] = fil[q][r]
        <4>1. CASE q # p \/ r \notin chngmap[t][p]
          BY <1>3, <4>1 DEF Written
        <4>2. CASE q = p /\ r \in chngmap[t][p] /\ mine[t][p][r] \notin Values
          <5>1. RecordOK(t, p, r) /\ mine[t][p][r] \in Values \cup {None, Gone}
            BY <1>2, MineTypes DEF PrivateInv, PrivateOK, MineOK
          <5>2. mine[t][p][r] = None
            BY <1>4, <4>2, <5>1 DEF RecordOK
          <5>3. copy[t][p][r] = fil[p][r]
            BY <1>4, <5>1, <5>2 DEF RecordOK
          <5> QED BY <1>3, <4>2, <5>3 DEF Written
        <4> QED BY <2>4, <4>1, <4>2
      <3>2. InFile(t, q, r)' <=> InFile(t, q, r)
        BY <1>1, <1>4, <1>5, <2>4 DEF InFile
      <3>3. mine'[t][q][r] = mine[t][q][r] /\ ref'[q][r] = ref[q][r]
        BY <1>1, <1>4
      <3> QED BY <2>1, <2>2, <3>1, <3>2, <3>3 DEF FileOK
    <2> QED BY <2>3, <2>4
  <1> QED BY <1>6, <1>8 DEF FileInv

\* The end of commit finds all its changes in the database.
LEMMA FileCommitted ==
  ASSUME ViewInv, FileInv, NEW t \in Threads, commit_ends(t)
  PROVE  FileInv'
  <1>1. /\ job[t] = "write" /\ todo[t] = {} /\ job' = [job EXCEPT ![t] = "run"]
        /\ UNCHANGED fil
        /\ ref' = [p \in Pages |-> [r \in Records |->
                     IF mine[t][p][r] \in Values THEN mine[t][p][r] ELSE ref[p][r]]]
    BY DEF commit_ends
  <1>2. \A u \in Threads : job'[u] # "write"
    BY <1>1 DEF FileInv, OneWriter, ViewInv, Types, SapoTypes
  <1>3. OneWriter'
    BY <1>2 DEF OneWriter
  <1>4. ASSUME NEW p \in Pages, NEW r \in Records PROVE FileOK(p, r)'
    <2>1. FileOK(p, r) /\ RecordOK(t, p, r)
      BY DEF FileInv, ViewInv, PrivateInv, PrivateOK
    <2>2. \A u \in Threads : ~InFile(u, p, r)'
      BY <1>2 DEF InFile
    <2>3. ref'[p][r] = IF mine[t][p][r] \in Values THEN mine[t][p][r] ELSE ref[p][r]
      BY <1>1
    <2>4. CASE mine[t][p][r] \in Values
      <3>1. InFile(t, p, r)
        BY <1>1, <2>1, <2>4 DEF InFile, RecordOK
      <3>2. fil[p][r] = mine[t][p][r]
        BY <2>1, <3>1 DEF FileOK
      <3> QED BY <1>1, <2>2, <2>3, <2>4, <3>2 DEF FileOK
    <2>5. CASE mine[t][p][r] \notin Values
      <3>1. \A u \in Threads : ~InFile(u, p, r)
        BY <1>1, <2>5 DEF InFile, FileInv, OneWriter
      <3>2. fil[p][r] = ref[p][r]
        BY <2>1, <3>1 DEF FileOK
      <3> QED BY <1>1, <2>2, <2>3, <2>5, <3>2 DEF FileOK
    <2> QED BY <2>4, <2>5
  <1> QED BY <1>3, <1>4 DEF FileInv

\* Nothing of the kind changes.
LEMMA FileKept ==
  ASSUME NEW p \in Pages, NEW r \in Records, FileOK(p, r),
         fil'[p][r] = fil[p][r], ref'[p][r] = ref[p][r],
         \A u \in Threads : /\ InFile(u, p, r)' <=> InFile(u, p, r)
                            /\ InFile(u, p, r) => mine'[u][p][r] = mine[u][p][r]
  PROVE  FileOK(p, r)'
  BY DEF FileOK

\* The database is as committed after every step.
LEMMA FileNext ==
  ASSUME ViewInv, FileInv, [SavepointsNext]_allVars
  PROVE  FileInv'
  <1>1. ASSUME NEW t \in Threads, ClientStep(t), \A p \in Pages : ~wr_changes(t, p),
               ~commit_ends(t)
        PROVE  FileInv'
    <2>1. Types /\ WriteInv
      BY DEF ViewInv
    <2>2. /\ \A u \in Threads : u # t => /\ job'[u] = job[u] /\ log'[u] = log[u]
                                        /\ todo'[u] = todo[u] /\ mine'[u] = mine[u]
      BY <1>1, <2>1, OthersKept DEF OwnParts, OnlyFor
    <2>3. UNCHANGED fil
      BY <1>1, <2>1, PagesKept
    <2>4. CASE commit(t)
      <3>1. /\ \A u \in Threads : job[u] # "write"
            /\ todo'[t] = log'[t] /\ UNCHANGED ref
        BY <2>1, <2>4 DEF commit, logVars, Types, SapoTypes
      <3>2. OneWriter'
        BY <2>2, <3>1 DEF OneWriter
      <3>3. ASSUME NEW p \in Pages, NEW r \in Records PROVE FileOK(p, r)'
        <4>1. FileOK(p, r)
          BY DEF FileInv
        <4>2. ASSUME NEW u \in Threads PROVE ~InFile(u, p, r) /\ ~InFile(u, p, r)'
          <5>1. CASE u = t
            BY <3>1, <5>1 DEF InFile
          <5>2. CASE u # t
            BY <2>2, <3>1, <5>2 DEF InFile
          <5> QED BY <5>1, <5>2
        <4> QED BY <2>3, <3>1, <4>1, <4>2, FileKept
      <3> QED BY <3>2, <3>3 DEF FileInv
    <2>5. CASE ~commit(t)
      <3>1. job[t] # "write" /\ job'[t] # "write" /\ UNCHANGED ref
        BY <1>1, <2>1, <2>5, NotCommit
      <3>2. OneWriter'
        BY <2>2, <3>1 DEF FileInv, OneWriter
      <3>3. ASSUME NEW p \in Pages, NEW r \in Records PROVE FileOK(p, r)'
        <4>1. FileOK(p, r)
          BY DEF FileInv
        <4>2. ASSUME NEW u \in Threads
              PROVE  /\ InFile(u, p, r)' <=> InFile(u, p, r)
                     /\ InFile(u, p, r) => mine'[u][p][r] = mine[u][p][r]
          <5>1. CASE u = t
            BY <3>1, <5>1 DEF InFile
          <5>2. CASE u # t
            BY <2>2, <5>2 DEF InFile
          <5> QED BY <5>1, <5>2
        <4> QED BY <2>3, <3>1, <4>1, <4>2, FileKept
      <3> QED BY <3>2, <3>3 DEF FileInv
    <2> QED BY <2>4, <2>5
  <1>2. ASSUME UNCHANGED allVars PROVE FileInv'
    <2>1. UNCHANGED <<fil, ref, job, log, todo, mine>>
      BY <1>2 DEF allVars, savepointVars, pageVars, logVars, jobVars
    <2> QED BY <2>1 DEF FileInv, OneWriter, FileOK, InFile
  <1>3. (\E t \in Threads : ClientStep(t)) \/ UNCHANGED allVars
    BY StepOfClient
  <1> QED BY <1>1, <1>2, <1>3, FileWritten, FileCommitted

\* The database is empty at the start.
LEMMA FileStart == SavepointsInit => FileInv
  <1> SUFFICES ASSUME SavepointsInit PROVE FileInv
    OBVIOUS
  <1>1. /\ \A t \in Threads : job[t] = "run"
        /\ \A p \in Pages : fil[p] = Blank /\ ref[p] = Blank
    BY DEF SavepointsInit
  <1> QED BY <1>1 DEF FileInv, OneWriter, FileOK, InFile

\* A record has the committed value, or the one that commit is writing.
LEMMA FileImplied == FileInv => CommittedExact
  <1> SUFFICES ASSUME FileInv, NEW p \in Pages, NEW r \in Records
               PROVE  \/ fil[p][r] = ref[p][r]
                      \/ \E t \in Threads : job[t] = "write" /\ fil[p][r] = mine[t][p][r]
    BY DEF CommittedExact
  <1>1. FileOK(p, r)
    BY DEF FileInv
  <1> QED BY <1>1 DEF FileOK, InFile

\* commit writes whole pages, and still the database has exactly what the
\* transactions have committed: all changes that were not rolled back, and no
\* value of a record that another client has changed; for ordinary SQL
\* programs (see ViewIsExact).
THEOREM CommittedIsExact ==
  ASSUME Ordinary
  PROVE  SavepointsSpec => []CommittedExact
<1>1. SavepointsInit => ViewInv /\ FileInv
  BY ViewInvStart, FileStart
<1>2. ViewInv /\ FileInv /\ [SavepointsNext]_allVars => ViewInv' /\ FileInv'
  BY ViewInvNext, FileNext
<1>3. FileInv => CommittedExact
  BY FileImplied
<1> QED BY <1>1, <1>2, <1>3, PTL DEF SavepointsSpec
=============================================================================
