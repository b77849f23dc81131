------------------------- MODULE SecureCommit_proofs -------------------------
(***************************************************************************)
(* Theorems about private copies, the secured commit and its recovery.     *)
(*                                                                         *)
(* For any clients, crashes and failed writes: the variables keep their    *)
(* types, the swap space is exact, a running server has the leader of the  *)
(* running commit only, and shared copies are current (CommitInv).         *)
(*                                                                         *)
(* When no commit fails to write a TJC block, or there is one client:      *)
(* private copies are current and are in the log (CopyInv).                *)
(*                                                                         *)
(* What is committed is in the database file and nothing else is: for any  *)
(* clients without crashes (DiskInv), and for one client over any number   *)
(* of crashes, wherever they hit (JournalInv, RecoveryInv).  With several  *)
(* clients and crashes it is not so: see OnlyCommitted in MCSecureCommit.  *)
(***************************************************************************)
EXTENDS SecureCommit, FiniteSetTheorems, SequenceTheorems, WellFoundedInduction, TLAPS

Length == CellSize * Cells

\* The block chosen is one of the set, and no other is below it.
LEMMA MinFacts ==
  ASSUME NEW S, S \subseteq Nat, S # {}
  PROVE  Min(S) \in S /\ \A y \in S : Min(S) <= y
  <1>1. IsWellFoundedOn(OpToRel(<, Nat), Nat)
    BY NatLessThanWellFounded
  <1>2. PICK x \in S : \A y \in S : ~(<<y, x>> \in OpToRel(<, Nat))
    BY <1>1, WFMin
  <1>3. \A y \in S : ~(y < x)
    <2> SUFFICES ASSUME NEW y \in S, y < x PROVE FALSE
      OBVIOUS
    <2>1. <<y, x>> \in Nat \X Nat /\ <<y, x>>[1] < <<y, x>>[2]
      OBVIOUS
    <2>2. <<y, x>> \in OpToRel(<, Nat)
      BY <2>1, Zenon DEF OpToRel
    <2> QED BY <1>2, <2>2
  <1>4. \A y \in S : x <= y
    BY <1>3
  <1> QED BY <1>4 DEF Min

\* TJC blocks and swap blocks are two kinds of blocks of the transaction file.
LEMMA BlockFacts ==
  /\ Length \in Nat
  /\ TjcBlocks \subseteq 0 .. Length - 1
  /\ SwapBlocks \subseteq 0 .. Length - 1
  /\ SwapBlocks \cap TjcBlocks = {}
  /\ NoBlock \notin SwapBlocks /\ NoBlock \notin TjcBlocks
  <1>1. Length \in Nat
    BY CommitConstants DEF Length
  <1>2. TjcBlocks \subseteq 0 .. Length - 1
    BY CommitConstants DEF TjcBlocks, Length
  <1> QED BY <1>1, <1>2 DEF SwapBlocks, NoBlock, Length

\* A number lies in its cell.
LEMMA CellStart ==
  ASSUME NEW n \in Nat
  PROVE  CellSize * (n \div CellSize) <= n /\ n < CellSize * (n \div CellSize) + CellSize
  BY CommitConstants

\* A swap block lies in its cell after the TJC block.
LEMMA CellBase ==
  ASSUME NEW b \in SwapBlocks
  PROVE  /\ CellSize * (b \div CellSize) \in TjcBlocks
         /\ CellSize * (b \div CellSize) < b
  <1>1. b \in Nat /\ b < CellSize * Cells
    BY BlockFacts DEF Length
  <1>2. b \div CellSize \in 0 .. Cells - 1
    BY <1>1, CommitConstants
  <1>3. CellSize * (b \div CellSize) \in TjcBlocks
    BY <1>2 DEF TjcBlocks
  <1>4. CellSize * (b \div CellSize) <= b
    BY <1>1, CellStart, Zenon
  <1>5. CellSize * (b \div CellSize) # b
    BY <1>3, BlockFacts
  <1>6. CellSize * (b \div CellSize) \in Nat
    <2>1. \A x \in TjcBlocks : x \in Nat
      BY BlockFacts
    <2> QED BY <1>3, <2>1, Zenon
  <1> QED BY <1>1, <1>3, <1>4, <1>5, <1>6

\* What Front, Last and RemoveAt make of the frames of a page.
LEMMA ShortSeq ==
  ASSUME NEW T, NEW s \in Seq(T)
  PROVE  /\ s = << >> <=> Len(s) = 0
         /\ Len(s) = 1 => s = <<s[1]>> /\ s[1] \in T /\ DOMAIN s = {1}
         /\ Len(s) > 0 => /\ Front(s) \in Seq(T) /\ Len(Front(s)) = Len(s) - 1
                          /\ Last(s) \in T
         /\ \A i \in DOMAIN s : RemoveAt(s, i) \in Seq(T) /\ Len(RemoveAt(s, i)) = Len(s) - 1
  <1>1. s = << >> <=> Len(s) = 0
    OBVIOUS
  <1>2. ASSUME Len(s) = 1 PROVE s = <<s[1]>> /\ s[1] \in T /\ DOMAIN s = {1}
    <2>1. DOMAIN s = 1 .. 1 /\ 1 .. 1 = {1} /\ s[1] \in T
      BY <1>2
    <2>2. <<s[1]>> \in Seq(T) /\ Len(<<s[1]>>) = 1 /\ <<s[1]>>[1] = s[1]
      BY <2>1
    <2>3. \A i \in 1 .. Len(s) : s[i] = <<s[1]>>[i]
      BY <1>2, <2>2
    <2>4. s = <<s[1]>>
      BY <1>2, <2>2, <2>3, SeqEqual
    <2> QED BY <2>1, <2>4
  <1>3. ASSUME Len(s) > 0
        PROVE  Front(s) \in Seq(T) /\ Len(Front(s)) = Len(s) - 1 /\ Last(s) \in T
    <2>1. PICK i \in 1 .. Len(s) : i = Len(s)
      BY <1>3
    <2>2. SubSeq(s, 1, i - 1) \in Seq(T) /\ Len(SubSeq(s, 1, i - 1)) = i - 1 /\ s[i] \in T
      BY <2>1
    <2> QED BY <2>1, <2>2, Zenon DEF Front, Last
  <1>4. ASSUME NEW i \in DOMAIN s
        PROVE  RemoveAt(s, i) \in Seq(T) /\ Len(RemoveAt(s, i)) = Len(s) - 1
    <2>1. i \in 1 .. Len(s) /\ Len(s) \in Nat
      OBVIOUS
    <2>2. /\ SubSeq(s, 1, i - 1) \in Seq(T) /\ Len(SubSeq(s, 1, i - 1)) = i - 1
          /\ SubSeq(s, i + 1, Len(s)) \in Seq(T) /\ Len(SubSeq(s, i + 1, Len(s))) = Len(s) - i
      BY <2>1
    <2>3. /\ RemoveAt(s, i) \in Seq(T)
          /\ Len(RemoveAt(s, i)) = (i - 1) + (Len(s) - i)
      BY <2>2, ConcatProperties DEF RemoveAt
    <2> QED BY <2>1, <2>3
  <1> QED BY <1>1, <1>2, <1>3, <1>4

-----------------------------------------------------------------------------
(* Swap blocks *)

SwapTable == [Clients -> [Pages -> SwapBlocks \cup {NoBlock}]]

\* SwapSpaceExact for a map am and swaps sw, block by block.
ExactFor(am, sw) ==
    /\ \A b \in SwapBlocks : b \in am <=> \E c \in Clients, p \in Pages : sw[c][p] = b
    /\ \A c, d \in Clients : \A p, q \in Pages :
          sw[c][p] # NoBlock /\ sw[c][p] = sw[d][q] => c = d /\ p = q

\* The block get_swap_block returns is free.
LEMMA NewBlockFree ==
  ASSUME FreeBlocks # {}
  PROVE  NewBlock \in SwapBlocks \ alloc_map
  <1>1. FreeBlocks \subseteq SwapBlocks \ alloc_map
    BY DEF FreeBlocks
  <1>2. SwapBlocks \subseteq Nat
    BY BlockFacts
  <1>3. FreeBlocks \subseteq Nat
    BY <1>1, <1>2
  <1> QED BY <1>1, <1>3, MinFacts DEF NewBlock

\* A copy that had no swap gets a free block.
LEMMA TakeSwap ==
  ASSUME NEW am, NEW sw \in SwapTable, ExactFor(am, sw), NEW c \in Clients, NEW p \in Pages,
         sw[c][p] = NoBlock, NEW b \in SwapBlocks \ am
  PROVE  /\ [sw EXCEPT ![c][p] = b] \in SwapTable
         /\ ExactFor(am \cup {b}, [sw EXCEPT ![c][p] = b])
  <1> DEFINE new == [sw EXCEPT ![c][p] = b]
  <1>1. new \in SwapTable
    BY DEF SwapTable
  <1>2. \A d \in Clients, q \in Pages : new[d][q] = IF d = c /\ q = p THEN b ELSE sw[d][q]
    BY DEF SwapTable
  <1> HIDE DEF new
  <1>3. \A d \in Clients, q \in Pages : sw[d][q] # b
    BY DEF ExactFor
  <1>4. ASSUME NEW x \in SwapBlocks
        PROVE  x \in am \cup {b} <=> \E d \in Clients, q \in Pages : new[d][q] = x
    <2>1. x # NoBlock
      BY BlockFacts
    <2>2. x \in am <=> \E d \in Clients, q \in Pages : sw[d][q] = x
      BY DEF ExactFor
    <2>3. CASE x = b
      BY <1>2, <2>3
    <2>4. CASE x # b
      BY <1>2, <2>1, <2>2, <2>4
    <2> QED BY <2>3, <2>4
  <1>5. ASSUME NEW d \in Clients, NEW e \in Clients, NEW q \in Pages, NEW r \in Pages,
               new[d][q] # NoBlock, new[d][q] = new[e][r]
        PROVE  d = e /\ q = r
    <2>1. sw[d][q] # NoBlock /\ sw[d][q] = sw[e][r] => d = e /\ q = r
      BY DEF ExactFor
    <2> QED BY <1>2, <1>3, <1>5, <2>1
  <1>6. ExactFor(am \cup {b}, new)
    BY <1>4, <1>5 DEF ExactFor
  <1> QED BY <1>1, <1>6 DEF new

FileTypes ==
    /\ disk \in [Pages -> SUBSET Changes]
    /\ tdata \in [SwapBlocks -> SUBSET Changes]
    /\ tjc \in [TjcBlocks -> Journals]

MapTypes ==
    /\ alloc_map \subseteq SwapBlocks \cup TjcBlocks
    /\ srch_start \in 0 .. CellSize * Cells
    /\ tjc_init_limit \in 0 .. CellSize * Cells

CopyTypes ==
    /\ core \in [Clients -> [Pages -> Seq(SUBSET Changes)]]
    /\ swapdadr \in SwapTable
    /\ shared \in [SystemPages -> (SUBSET Changes) \cup {NotCached}]

TranTypes ==
    /\ trans \in [Clients -> 1 .. MaxTrans + 1]
    /\ log \in [Clients -> SUBSET Pages]
    /\ failed \in [Clients -> BOOLEAN]

CommitTypes ==
    /\ stage \in {"idle", "save", "write"}
    /\ committer \in Clients \cup {NoClient}
    /\ todo \subseteq Pages
    /\ core_tjc \subseteq Pairs /\ IsFiniteSet(core_tjc) /\ Cardinality(core_tjc) <= TjcPairs
    /\ tjc_all \in Seq(TjcBlocks)
    /\ writing \in Pages \cup {NoPage}

StartTypes ==
    /\ mode \in {"up", "init", "restoring"}
    /\ tjc_block \in TjcBlocks \cup {CellSize * Cells}
    /\ chain \in TjcBlocks \cup {NoBlock}
    /\ crashes \in 0 .. MaxCrashes

HistoryTypes ==
    /\ written \subseteq Changes
    /\ committed \subseteq Trans

Types == FileTypes /\ MapTypes /\ CopyTypes /\ TranTypes /\ CommitTypes /\ StartTypes
         /\ HistoryTypes

\* What save_block does to the files and to the map.
LEMMA SaveBlock ==
  ASSUME FileTypes, MapTypes, NEW x \in SUBSET Changes, save_block(x)
  PROVE  /\ NewBlock \in SwapBlocks \ alloc_map
         /\ alloc_map' = alloc_map \cup {NewBlock}
         /\ tdata' = [tdata EXCEPT ![NewBlock] = x]
         /\ tdata' \in [SwapBlocks -> SUBSET Changes]
         /\ MapTypes'
         /\ \/ UNCHANGED <<tjc, tjc_init_limit>>
            \/ \E b \in TjcBlocks : /\ b > tjc_init_limit /\ b < tjc_init_limit'
                                    /\ tjc' = [tjc EXCEPT ![b] = InvalidJournal]
         /\ tjc' \in [TjcBlocks -> Journals]
  <1>1. NewBlock \in SwapBlocks \ alloc_map
    BY NewBlockFree DEF save_block
  <1>2. NewBlock \in Nat /\ NewBlock + 1 \in 0 .. CellSize * Cells
        /\ NewBlock \in 0 .. CellSize * Cells
    BY <1>1, BlockFacts DEF Length
  <1>3. InvalidJournal \in Journals
    BY DEF InvalidJournal, Journals, Tags
  <1>4. PICK b \in TjcBlocks : b = CellSize * (NewBlock \div CellSize) /\ b < NewBlock
    BY <1>1, CellBase
  <1>5. /\ alloc_map' = alloc_map \cup {NewBlock}
        /\ srch_start' = NewBlock + 1
        /\ tdata' = [tdata EXCEPT ![NewBlock] = x]
        /\ IF b > tjc_init_limit
           THEN tjc' = [tjc EXCEPT ![b] = InvalidJournal] /\ tjc_init_limit' = NewBlock
           ELSE UNCHANGED <<tjc, tjc_init_limit>>
    BY <1>4, Zenon DEF save_block
  <1> HIDE DEF NewBlock
  <1>6. MapTypes'
    BY <1>1, <1>2, <1>5 DEF MapTypes
  <1>7. tdata' \in [SwapBlocks -> SUBSET Changes]
    BY <1>1, <1>5 DEF FileTypes
  <1>8. CASE b > tjc_init_limit
    <2>1. tjc' \in [TjcBlocks -> Journals]
      BY <1>3, <1>5, <1>8 DEF FileTypes
    <2> QED BY <1>1, <1>4, <1>5, <1>6, <1>7, <1>8, <2>1
  <1>9. CASE ~(b > tjc_init_limit)
    <2>1. tjc' \in [TjcBlocks -> Journals]
      BY <1>5, <1>9 DEF FileTypes
    <2> QED BY <1>1, <1>5, <1>6, <1>7, <1>9, <2>1
  <1> QED BY <1>8, <1>9

\* What save_tjc_block does.
LEMMA SaveTjc ==
  ASSUME FileTypes, MapTypes, NEW j \in Journals, save_tjc_block(j)
  PROVE  /\ NewJournal \in TjcBlocks \ alloc_map
         /\ \A b \in TjcBlocks \ alloc_map : NewJournal <= b
         /\ alloc_map' = alloc_map \cup {NewJournal}
         /\ tjc' = [tjc EXCEPT ![NewJournal] = j]
         /\ tjc' \in [TjcBlocks -> Journals]
         /\ tjc_init_limit' = NewJournal + 1
         /\ UNCHANGED tdata
         /\ MapTypes'
  <1>1. TjcBlocks \subseteq Nat /\ FreeJournals \subseteq TjcBlocks /\ FreeJournals # {}
    BY BlockFacts DEF FreeJournals, save_tjc_block
  <1>2. NewJournal \in FreeJournals /\ \A b \in FreeJournals : NewJournal <= b
    BY <1>1, MinFacts DEF NewJournal
  <1> HIDE DEF NewJournal
  <1>3. NewJournal \in TjcBlocks \ alloc_map /\ \A b \in TjcBlocks \ alloc_map : NewJournal <= b
    BY <1>2 DEF FreeJournals
  <1>4. NewJournal + 1 \in 0 .. CellSize * Cells
    BY <1>3, BlockFacts DEF Length
  <1>5. /\ alloc_map' = alloc_map \cup {NewJournal}
        /\ tjc' = [tjc EXCEPT ![NewJournal] = j]
        /\ tjc_init_limit' = NewJournal + 1
        /\ UNCHANGED <<srch_start, tdata>>
    BY DEF save_tjc_block, InitLimit
  <1>6. tjc' \in [TjcBlocks -> Journals]
    BY <1>3, <1>5 DEF FileTypes
  <1>7. MapTypes'
    BY <1>3, <1>4, <1>5 DEF MapTypes
  <1> QED BY <1>3, <1>5, <1>6, <1>7

\* What free_swap_block does.
LEMMA FreeSwaps ==
  ASSUME MapTypes, NEW S \in SUBSET SwapBlocks, free_swap_blocks(S)
  PROVE  /\ MapTypes'
         /\ alloc_map' = alloc_map \ S
         /\ UNCHANGED tjc_init_limit
  <1>1. S \cup {srch_start} \subseteq 0 .. CellSize * Cells
    BY BlockFacts DEF Length, MapTypes
  <1>2. 0 .. CellSize * Cells \subseteq Nat
    OBVIOUS
  <1>3. Min(S \cup {srch_start}) \in S \cup {srch_start}
    BY <1>1, <1>2, MinFacts
  <1> QED BY <1>1, <1>3 DEF free_swap_blocks, MapTypes

-----------------------------------------------------------------------------
(* The inductive invariant *)

\* A page of a client is in core and swapped only in a commit, or after one
\* that failed.
Doubled(c, p) ==
    /\ p \in log[c]
    /\ \/ failed[c]
       \/ /\ committer = c
          /\ (stage = "save" /\ p \notin todo) \/ (stage = "write" /\ p \in todo)

\* Two frames of one page belong to a client whose commit failed.
PageFrames(c, p) ==
    /\ \/ Len(core[c][p]) = 0
       \/ Len(core[c][p]) = 1
       \/ Len(core[c][p]) = 2 /\ failed[c] /\ p \in log[c] /\ swapdadr[c][p] = NoBlock
    /\ core[c][p] # << >> /\ swapdadr[c][p] # NoBlock => Doubled(c, p)

Frames == \A c \in Clients, p \in Pages : PageFrames(c, p)

\* Where a commit and the start of the server are.
Control ==
    /\ stage = "idle" <=> committer = NoClient
    /\ stage # "idle" => mode = "up" /\ ~failed[committer] /\ todo \subseteq log[committer]
    /\ \A c \in Clients :
          log[c] # {} \/ failed[c] \/ committer = c => trans[c] \in 1 .. MaxTrans
    /\ mode # "up" => /\ core = NoCopies /\ swapdadr = NoSwaps /\ alloc_map = {}
                      /\ \A c \in Clients : log[c] = {} /\ ~failed[c]

\* The page that wr_changes writes is in core, changed and not swapped.
WritingInv ==
    writing # NoPage =>
        /\ stage = "write" /\ writing \in todo
        /\ core[committer][writing] # << >> /\ swapdadr[committer][writing] = NoBlock
        /\ HasChanged(committer, writing)

\* The leader of a commit is below the blocks that save_block clears; the
\* leaders restoring_actions has not got to are the only ones.
LeaderSafe == stage = "write" => tjc_all # << >> /\ tjc_init_limit > Last(tjc_all)
LeadersAhead ==
    mode # "up" => \A b \in Leaders : b >= tjc_block

LeaderInv == OneLeader /\ LeaderSafe /\ LeadersAhead
             /\ (chain # NoBlock => mode = "restoring" /\ tjc_block \in TjcBlocks)

CommitInv == Types /\ Control /\ WritingInv /\ Frames /\ SwapSpaceExact /\ LeaderInv
             /\ SharedCurrent

-----------------------------------------------------------------------------
\* What is left of the frames of a page.
LEMMA FrameCounts ==
  ASSUME NEW T, NEW s \in Seq(T)
  PROVE  /\ Len(s) = 0 <=> s = << >>
         /\ s # << >> => s[1] \in T /\ 1 \in DOMAIN s
         /\ s # << >> => Last(s) \in T
         /\ Len(s) = 1 => /\ LeftFrames(s) = << >> /\ Front(s) = << >> /\ DOMAIN s = {1}
                          /\ Last(s) = s[1] /\ s = <<s[1]>>
                          /\ \A i \in DOMAIN s : RemoveAt(s, i) = << >>
         /\ Len(s) = 2 => /\ Len(LeftFrames(s)) = 1 /\ Len(Front(s)) = 1
                          /\ \A i \in DOMAIN s : Len(RemoveAt(s, i)) = 1
         /\ LeftFrames(s) \in Seq(T)
         /\ s # << >> => Front(s) \in Seq(T)
         /\ \A i \in DOMAIN s : s[i] \in T /\ RemoveAt(s, i) \in Seq(T)
  <1>1. Len(s) = 0 <=> s = << >>
    BY ShortSeq
  <1>2. s # << >> => s[1] \in T /\ 1 \in DOMAIN s
    OBVIOUS
  <1>3. s # << >> => Last(s) \in T /\ Front(s) \in Seq(T)
    BY ShortSeq
  <1>4. LeftFrames(s) \in Seq(T)
    BY <1>3 DEF LeftFrames
  <1>5. \A i \in DOMAIN s : s[i] \in T /\ RemoveAt(s, i) \in Seq(T)
    BY ShortSeq
  <1>6. ASSUME Len(s) = 1
        PROVE  /\ LeftFrames(s) = << >> /\ Front(s) = << >> /\ DOMAIN s = {1}
               /\ Last(s) = s[1] /\ s = <<s[1]>>
               /\ \A i \in DOMAIN s : RemoveAt(s, i) = << >>
    <2>1. Front(s) \in Seq(T) /\ Len(Front(s)) = 0
      BY <1>6, ShortSeq
    <2>2. Front(s) = << >>
      BY <2>1
    <2>3. ASSUME NEW i \in DOMAIN s PROVE RemoveAt(s, i) = << >>
      <3>1. RemoveAt(s, i) \in Seq(T) /\ Len(RemoveAt(s, i)) = 0
        BY <1>6, ShortSeq
      <3> HIDE DEF RemoveAt
      <3> QED BY <3>1
    <2>4. DOMAIN s = {1} /\ s = <<s[1]>>
      BY <1>6, ShortSeq
    <2>5. Last(s) = s[1]
      BY <1>6 DEF Last
    <2> QED BY <2>2, <2>3, <2>4, <2>5 DEF LeftFrames
  <1>7. ASSUME Len(s) = 2
        PROVE  /\ Len(LeftFrames(s)) = 1 /\ Len(Front(s)) = 1
               /\ \A i \in DOMAIN s : Len(RemoveAt(s, i)) = 1
    <2>1. s # << >>
      BY <1>7
    <2>2. Len(Front(s)) = 1 /\ \A i \in DOMAIN s : Len(RemoveAt(s, i)) = 1
      <3>1. Len(s) > 0 /\ Len(s) - 1 = 1
        BY <1>7
      <3>2. Len(Front(s)) = Len(s) - 1 /\ \A i \in DOMAIN s : Len(RemoveAt(s, i)) = Len(s) - 1
        BY <3>1, ShortSeq, Zenon
      <3> QED BY <3>1, <3>2, Zenon
    <2> QED BY <2>1, <2>2 DEF LeftFrames
  <1> QED BY <1>1, <1>2, <1>3, <1>4, <1>5, <1>6, <1>7

\* A table of the copies after one of them is replaced.
LEMMA SetCopy ==
  ASSUME NEW T, NEW f \in [Clients -> [Pages -> T]], NEW c \in Clients, NEW p \in Pages,
         NEW x \in T
  PROVE  /\ [f EXCEPT ![c][p] = x] \in [Clients -> [Pages -> T]]
         /\ \A d \in Clients, q \in Pages :
               [f EXCEPT ![c][p] = x][d][q] = IF d = c /\ q = p THEN x ELSE f[d][q]
  OBVIOUS

\* The invariant leaves to TypeOK what it says of the length of core.
LEMMA InvTypeOK == CommitInv => TypeOK
  <1> SUFFICES ASSUME CommitInv PROVE TypeOK
    OBVIOUS
  <1>1. \A c \in Clients, p \in Pages : Len(core[c][p]) <= 2
    <2> TAKE c \in Clients, p \in Pages
    <2>1. Len(core[c][p]) = 0 \/ Len(core[c][p]) = 1 \/ Len(core[c][p]) = 2
      BY DEF CommitInv, Frames, PageFrames
    <2>2. CASE Len(core[c][p]) = 0
      BY <2>2
    <2>3. CASE Len(core[c][p]) = 1
      BY <2>3
    <2>4. CASE Len(core[c][p]) = 2
      BY <2>4
    <2> QED BY <2>1, <2>2, <2>3, <2>4
  <1> QED BY <1>1 DEF CommitInv, Types, FileTypes, MapTypes, CopyTypes, TranTypes, CommitTypes,
                      StartTypes, HistoryTypes, TypeOK, SwapTable

\* The tables of a server that has just been started.
LEMMA EmptyTables ==
  /\ NoCopies \in [Clients -> [Pages -> Seq(SUBSET Changes)]]
  /\ \A c \in Clients, p \in Pages : NoCopies[c][p] = << >> /\ Len(NoCopies[c][p]) = 0
  /\ NoSwaps \in SwapTable
  /\ \A c \in Clients, p \in Pages : NoSwaps[c][p] = NoBlock
  /\ NothingCached \in [SystemPages -> (SUBSET Changes) \cup {NotCached}]
  /\ \A p \in SystemPages : NothingCached[p] = NotCached
  /\ ExactFor({}, NoSwaps)
  <1>1. << >> \in Seq(SUBSET Changes) /\ Len(<< >>) = 0
    OBVIOUS
  <1>2. NoCopies \in [Clients -> [Pages -> Seq(SUBSET Changes)]]
    BY <1>1, Zenon DEF NoCopies
  <1>3. \A c \in Clients, p \in Pages : NoCopies[c][p] = << >> /\ Len(NoCopies[c][p]) = 0
    BY <1>1 DEF NoCopies
  <1>4. NoSwaps \in SwapTable /\ \A c \in Clients, p \in Pages : NoSwaps[c][p] = NoBlock
    BY DEF NoSwaps, SwapTable
  <1>5. NothingCached \in [SystemPages -> (SUBSET Changes) \cup {NotCached}]
    <2>1. NotCached \in (SUBSET Changes) \cup {NotCached}
      BY Zenon
    <2> QED BY <2>1, Zenon DEF NothingCached
  <1>6. \A p \in SystemPages : NothingCached[p] = NotCached
    BY DEF NothingCached
  <1>7. ExactFor({}, NoSwaps)
    BY <1>4, BlockFacts DEF ExactFor
  <1> QED BY <1>2, <1>3, <1>4, <1>5, <1>6, <1>7

\* 0 is the first TJC block or, in an empty file, the length of the file.
LEMMA FirstJournal == 0 \in TjcBlocks \cup {CellSize * Cells}
  <1>1. CASE Cells = 0
    BY <1>1, CommitConstants
  <1>2. CASE Cells > 0
    <2>1. 0 \in 0 .. Cells - 1 /\ CellSize * 0 = 0
      BY <1>2, CommitConstants
    <2> QED BY <2>1, CommitConstants DEF TjcBlocks
  <1> QED BY <1>1, <1>2, CommitConstants

\* The variables of a server without a commit are of their types.
LEMMA IdleCommit ==
  ASSUME stage' = "idle", committer' = NoClient, todo' \subseteq Pages, core_tjc' = {},
         tjc_all' = << >>, writing' \in Pages \cup {NoPage}
  PROVE  CommitTypes'
  <1>1. IsFiniteSet({}) /\ Cardinality({}) = 0
    BY FS_EmptySet
  <1>2. << >> \in Seq(TjcBlocks)
    OBVIOUS
  <1>3. 0 <= TjcPairs
    BY CommitConstants
  <1> QED BY <1>1, <1>2, <1>3 DEF CommitTypes

\* The state of a new database file.
LEMMA InitCommitInv == Init => CommitInv
  <1> SUFFICES ASSUME Init PROVE CommitInv
    OBVIOUS
  <1>1. InvalidJournal \in Journals
    BY DEF InvalidJournal, Journals, Tags
  <1>2. FileTypes /\ HistoryTypes
    BY <1>1 DEF Init, FileTypes, HistoryTypes
  <1>3. CellSize * Cells \in Nat
    BY BlockFacts DEF Length
  <1>4. MapTypes
    BY <1>3 DEF Init, MapTypes
  <1>5. CopyTypes
    BY EmptyTables, Zenon DEF Init, CopyTypes
  <1>6. TranTypes
    BY CommitConstants DEF Init, TranTypes
  <1>7. CommitTypes
    <2>1. IsFiniteSet({}) /\ Cardinality({}) = 0 /\ 0 <= TjcPairs
      BY FS_EmptySet, CommitConstants
    <2> QED BY <2>1, CommitConstants DEF Init, CommitTypes
  <1>9. StartTypes
    BY FirstJournal, CommitConstants DEF Init, StartTypes
  <1>10. Types
    BY <1>2, <1>4, <1>5, <1>6, <1>7, <1>9 DEF Types
  <1>11. Control
    BY CommitConstants DEF Init, Control
  <1>12. WritingInv
    BY DEF Init, WritingInv
  <1>13. Frames
    BY EmptyTables, Zenon DEF Frames, PageFrames, Init
  <1>14. SwapSpaceExact
    BY EmptyTables, Zenon DEF Init, SwapSpaceExact, ExactFor
  <1>15. LeaderInv
    BY DEF Init, LeaderInv, OneLeader, Leaders, LeaderSafe, LeadersAhead, InvalidJournal
  <1>16. SharedCurrent
    BY EmptyTables DEF Init, SharedCurrent
  <1> QED BY <1>10, <1>11, <1>12, <1>13, <1>14, <1>15, <1>16 DEF CommitInv

-----------------------------------------------------------------------------
\* Groups of variables that a step leaves alone keep their types.
LEMMA KeptTypes ==
  /\ FileTypes /\ UNCHANGED fileVars => FileTypes'
  /\ MapTypes /\ UNCHANGED mapVars => MapTypes'
  /\ CopyTypes /\ UNCHANGED copyVars => CopyTypes'
  /\ TranTypes /\ UNCHANGED tranVars => TranTypes'
  /\ CommitTypes /\ UNCHANGED commitVars => CommitTypes'
  /\ StartTypes /\ UNCHANGED startVars => StartTypes'
  /\ HistoryTypes /\ UNCHANGED <<written, committed>> => HistoryTypes'
  BY DEF FileTypes, MapTypes, CopyTypes, TranTypes, CommitTypes, StartTypes, HistoryTypes,
         fileVars, mapVars, copyVars, tranVars, commitVars, startVars, SwapTable

\* Steps that do not touch what LeaderInv is about.
LEMMA LeaderFrame ==
  ASSUME LeaderInv, UNCHANGED <<tjc, mode, stage, tjc_all, tjc_init_limit, tjc_block, chain>>
  PROVE  LeaderInv'
  BY DEF LeaderInv, OneLeader, Leaders, LeaderSafe, LeadersAhead

\* A step that invalidates no leader of a running commit.
LEMMA LastIsBlock ==
  ASSUME CommitTypes, tjc_all # << >>
  PROVE  Last(tjc_all) \in TjcBlocks /\ Last(tjc_all) \in Int
  <1>1. Last(tjc_all) \in TjcBlocks
    BY FrameCounts DEF CommitTypes
  <1>2. \A x \in TjcBlocks : x \in Int
    BY BlockFacts
  <1> QED BY <1>1, <1>2, Zenon

\* save_block does not clear the leader of the commit that is writing.
LEMMA LeaderSaveBlock ==
  ASSUME LeaderInv, FileTypes, MapTypes, CommitTypes, mode = "up",
         UNCHANGED <<mode, stage, tjc_all, tjc_block, chain>>, MapTypes',
         \/ UNCHANGED <<tjc, tjc_init_limit>>
         \/ \E b \in TjcBlocks : /\ b > tjc_init_limit /\ b < tjc_init_limit'
                                 /\ tjc' = [tjc EXCEPT ![b] = InvalidJournal]
  PROVE  LeaderInv'
  <1>1. CASE UNCHANGED <<tjc, tjc_init_limit>>
    BY <1>1, LeaderFrame
  <1>2. ASSUME NEW b \in TjcBlocks, b > tjc_init_limit, b < tjc_init_limit',
               tjc' = [tjc EXCEPT ![b] = InvalidJournal]
        PROVE  LeaderInv'
    <2>1. \A x \in TjcBlocks : tjc'[x] = IF x = b THEN InvalidJournal ELSE tjc[x]
      BY <1>2 DEF FileTypes
    <2>2. InvalidJournal.tag # "VALID_TJC_LEADER"
      BY DEF InvalidJournal
    <2>3. Leaders' = Leaders \ {b}
      BY <2>1, <2>2 DEF Leaders
    <2>4. tjc_init_limit \in Int /\ tjc_init_limit' \in Int /\ b \in Int
      <3>1. \A x \in TjcBlocks : x \in Int
        BY BlockFacts
      <3> QED BY <3>1 DEF MapTypes
    <2> HIDE DEF Leaders
    <2>5. CASE stage = "write"
      <3>1. Last(tjc_all) \in Int /\ tjc_all # << >> /\ tjc_init_limit > Last(tjc_all)
        BY <2>5, LastIsBlock DEF LeaderInv, LeaderSafe
      <3>2. Last(tjc_all) # b /\ tjc_init_limit' > Last(tjc_all)
        BY <1>2, <2>4, <3>1
      <3>3. Leaders = {Last(tjc_all)}
        BY <2>5, <3>1 DEF LeaderInv, OneLeader
      <3> QED BY <2>3, <2>5, <3>1, <3>2, <3>3, Zenon DEF LeaderInv, OneLeader, LeaderSafe, LeadersAhead
    <2>6. CASE stage # "write"
      <3>1. Leaders = {}
        BY <2>6 DEF LeaderInv, OneLeader
      <3> QED BY <2>3, <2>6, <3>1, Zenon DEF LeaderInv, OneLeader, LeaderSafe, LeadersAhead
    <2> QED BY <2>5, <2>6
  <1> QED BY <1>1, <1>2

\* SwapSpaceExact is the property of the map and of the table of swaps.
LEMMA ExactSpace ==
  /\ SwapSpaceExact <=> ExactFor(alloc_map, swapdadr)
  /\ SwapSpaceExact' <=> ExactFor(alloc_map', swapdadr')
  BY Zenon DEF SwapSpaceExact, ExactFor

\* The frames after those of one page are replaced.
LEMMA CoreSet ==
  ASSUME CopyTypes, NEW c \in Clients, NEW p \in Pages, NEW x \in Seq(SUBSET Changes),
         core' = [core EXCEPT ![c][p] = x]
  PROVE  /\ core' \in [Clients -> [Pages -> Seq(SUBSET Changes)]]
         /\ \A d \in Clients, q \in Pages :
               core'[d][q] = IF d = c /\ q = p THEN x ELSE core[d][q]
  <1> DEFINE T == Seq(SUBSET Changes)
  <1>1. x \in T /\ core \in [Clients -> [Pages -> T]]
    BY DEF CopyTypes
  <1> HIDE DEF T
  <1>2. /\ core' \in [Clients -> [Pages -> T]]
        /\ \A d \in Clients, q \in Pages :
              core'[d][q] = IF d = c /\ q = p THEN x ELSE core[d][q]
    BY <1>1, SetCopy
  <1> QED BY <1>2 DEF T

\* The swaps after that of one page is replaced.
LEMMA SwapSet ==
  ASSUME CopyTypes, NEW c \in Clients, NEW p \in Pages, NEW b \in SwapBlocks \cup {NoBlock},
         swapdadr' = [swapdadr EXCEPT ![c][p] = b]
  PROVE  /\ swapdadr' \in SwapTable
         /\ \A d \in Clients, q \in Pages :
               swapdadr'[d][q] = IF d = c /\ q = p THEN b ELSE swapdadr[d][q]
  <1> DEFINE T == SwapBlocks \cup {NoBlock}
  <1>1. b \in T /\ swapdadr \in [Clients -> [Pages -> T]]
    BY DEF CopyTypes, SwapTable
  <1> HIDE DEF T
  <1>2. /\ swapdadr' \in [Clients -> [Pages -> T]]
        /\ \A d \in Clients, q \in Pages :
              swapdadr'[d][q] = IF d = c /\ q = p THEN b ELSE swapdadr[d][q]
    BY <1>1, SetCopy
  <1> QED BY <1>2 DEF T, SwapTable

\* The page being written is safe from what other clients do.
LEMMA WritingKept ==
  ASSUME WritingInv, UNCHANGED <<writing, stage, todo, committer>>, written \subseteq written',
         writing # NoPage => /\ core'[committer][writing] # << >>
                             /\ swapdadr'[committer][writing] = NoBlock
                             /\ trans'[committer] = trans[committer]
  PROVE  WritingInv'
  BY DEF WritingInv, HasChanged, MyChange

\* A commit that is running has its client.
LEMMA CommitterIsClient ==
  ASSUME Control, CommitTypes, stage # "idle"
  PROVE  committer \in Clients /\ committer # NoClient
  BY DEF Control, CommitTypes

\* fix_priv_page keeps the invariant.
LEMMA StaysFixPriv ==
  ASSUME CommitInv, NEW c \in Clients, NEW p \in Pages, fix_priv_page(c, p)
  PROVE  CommitInv'
  <1>1. /\ UNCHANGED fileVars /\ UNCHANGED mapVars /\ UNCHANGED <<swapdadr, shared>>
        /\ UNCHANGED <<trans, failed>> /\ UNCHANGED commitVars /\ UNCHANGED startVars
        /\ UNCHANGED <<written, committed>>
        /\ core' = [core EXCEPT ![c][p] = <<Loaded(p)>>]
        /\ log' = [log EXCEPT ![c] = @ \cup {p}]
        /\ core[c][p] = << >> /\ swapdadr[c][p] = NoBlock
        /\ mode = "up" /\ committer # c /\ ~failed[c] /\ trans[c] <= MaxTrans
    BY DEF fix_priv_page, Works
  <1>2. Loaded(p) \in SUBSET Changes
    BY DEF CommitInv, Types, FileTypes, CopyTypes, Loaded
  <1>3. <<Loaded(p)>> \in Seq(SUBSET Changes) /\ Len(<<Loaded(p)>>) = 1
    BY <1>2
  <1>4. /\ core' \in [Clients -> [Pages -> Seq(SUBSET Changes)]]
        /\ \A d \in Clients, q \in Pages :
              core'[d][q] = IF d = c /\ q = p THEN <<Loaded(p)>> ELSE core[d][q]
    <2>1. CopyTypes
      BY DEF CommitInv, Types
    <2> QED BY <1>1, <1>3, <2>1, CoreSet, ZenonT(60)
  <1>5. /\ log' \in [Clients -> SUBSET Pages]
        /\ \A d \in Clients : log'[d] = IF d = c THEN log[c] \cup {p} ELSE log[d]
    BY <1>1 DEF CommitInv, Types, TranTypes
  <1>6. Types'
    <2>1. CopyTypes'
      BY <1>1, <1>4 DEF CommitInv, Types, CopyTypes
    <2>2. TranTypes'
      BY <1>1, <1>5 DEF CommitInv, Types, TranTypes
    <2> QED BY <1>1, <2>1, <2>2, KeptTypes DEF CommitInv, Types
  <1>7. Control'
    <2>1. trans[c] \in 1 .. MaxTrans
      BY <1>1 DEF CommitInv, Types, TranTypes
    <2> QED BY <1>1, <1>5, <2>1, CommitterIsClient
            DEF CommitInv, Types, CommitTypes, Control, commitVars, startVars, mapVars
  <1>8. WritingInv'
    <2>1. writing # NoPage => committer \in Clients /\ writing \in Pages
      BY CommitterIsClient DEF CommitInv, Types, CommitTypes, WritingInv
    <2> QED BY <1>1, <1>4, <2>1, WritingKept DEF CommitInv, commitVars, WritingInv
  <1>9. Frames'
    <2> SUFFICES ASSUME NEW d \in Clients, NEW q \in Pages PROVE PageFrames(d, q)'
      BY DEF Frames
    <2>1. PageFrames(d, q)
      BY DEF CommitInv, Frames
    <2>2. CASE d = c /\ q = p
      BY <1>1, <1>3, <1>4, <2>2 DEF PageFrames
    <2>3. CASE ~(d = c /\ q = p)
      BY <1>1, <1>4, <1>5, <2>1, <2>3 DEF PageFrames, Doubled, commitVars
    <2> QED BY <2>2, <2>3
  <1>10. SwapSpaceExact'
    BY <1>1, ExactSpace DEF CommitInv, mapVars
  <1>11. LeaderInv'
    BY <1>1, LeaderFrame DEF CommitInv, mapVars, fileVars, commitVars, startVars
  <1>12. SharedCurrent'
    BY <1>1 DEF CommitInv, SharedCurrent, fileVars, startVars
  <1> QED BY <1>6, <1>7, <1>8, <1>9, <1>10, <1>11, <1>12 DEF CommitInv

\* page_changed keeps the invariant.
LEMMA StaysPageChanged ==
  ASSUME CommitInv, NEW c \in Clients, NEW p \in Pages, page_changed(c, p)
  PROVE  CommitInv'
  <1> DEFINE x == [core[c][p] EXCEPT ![1] = @ \cup {MyChange(c, p)}]
  <1>1. /\ UNCHANGED fileVars /\ UNCHANGED mapVars /\ UNCHANGED <<swapdadr, shared>>
        /\ UNCHANGED <<trans, failed>> /\ UNCHANGED commitVars /\ UNCHANGED startVars
        /\ UNCHANGED committed /\ written' = written \cup {MyChange(c, p)}
        /\ core' = [core EXCEPT ![c][p][1] = @ \cup {MyChange(c, p)}]
        /\ log' = [log EXCEPT ![c] = @ \cup {p}]
        /\ core[c][p] # << >>
        /\ mode = "up" /\ committer # c /\ ~failed[c] /\ trans[c] <= MaxTrans
    BY DEF page_changed, Works
  <1>2. trans[c] \in 1 .. MaxTrans
    BY <1>1 DEF CommitInv, Types, TranTypes
  <1>3. MyChange(c, p) \in Changes
    BY <1>2 DEF MyChange, Changes
  <1>4. x \in Seq(SUBSET Changes) /\ Len(x) = Len(core[c][p]) /\ x # << >>
    <2>1. core[c][p] \in Seq(SUBSET Changes)
      BY DEF CommitInv, Types, CopyTypes
    <2>2. core[c][p][1] \cup {MyChange(c, p)} \in SUBSET Changes
      BY <1>1, <1>3, <2>1, FrameCounts
    <2> QED BY <1>1, <2>1, <2>2
  <1>5. core' = [core EXCEPT ![c][p] = x]
    BY <1>1
  <1> HIDE DEF x
  <1>6. /\ core' \in [Clients -> [Pages -> Seq(SUBSET Changes)]]
        /\ \A d \in Clients, q \in Pages :
              core'[d][q] = IF d = c /\ q = p THEN x ELSE core[d][q]
    <2>1. CopyTypes
      BY DEF CommitInv, Types
    <2> QED BY <1>4, <1>5, <2>1, CoreSet, ZenonT(60)
  <1>7. /\ log' \in [Clients -> SUBSET Pages]
        /\ \A d \in Clients : log'[d] = IF d = c THEN log[c] \cup {p} ELSE log[d]
    BY <1>1 DEF CommitInv, Types, TranTypes
  <1>8. Types'
    <2>1. CopyTypes'
      BY <1>1, <1>6 DEF CommitInv, Types, CopyTypes
    <2>2. TranTypes'
      BY <1>1, <1>7 DEF CommitInv, Types, TranTypes
    <2>3. HistoryTypes'
      BY <1>1, <1>3 DEF CommitInv, Types, HistoryTypes
    <2> QED BY <1>1, <2>1, <2>2, <2>3, KeptTypes DEF CommitInv, Types
  <1>9. Control'
    BY <1>1, <1>2, <1>7, CommitterIsClient
       DEF CommitInv, Types, CommitTypes, Control, commitVars, startVars, mapVars
  <1>10. WritingInv'
    <2>1. writing # NoPage => committer \in Clients /\ writing \in Pages
      BY CommitterIsClient DEF CommitInv, Types, CommitTypes, WritingInv
    <2> QED BY <1>1, <1>6, <2>1, WritingKept DEF CommitInv, commitVars, WritingInv
  <1>11. Frames'
    <2> SUFFICES ASSUME NEW d \in Clients, NEW q \in Pages PROVE PageFrames(d, q)'
      BY DEF Frames
    <2>1. PageFrames(d, q)
      BY DEF CommitInv, Frames
    <2>2. CASE d = c /\ q = p
      BY <1>1, <1>4, <1>6, <2>1, <2>2 DEF PageFrames, Doubled, commitVars
    <2>3. CASE ~(d = c /\ q = p)
      BY <1>1, <1>6, <1>7, <2>1, <2>3 DEF PageFrames, Doubled, commitVars
    <2> QED BY <2>2, <2>3
  <1>12. SwapSpaceExact'
    BY <1>1, ExactSpace DEF CommitInv, mapVars
  <1>13. LeaderInv'
    BY <1>1, LeaderFrame DEF CommitInv, mapVars, fileVars, commitVars, startVars
  <1>14. SharedCurrent'
    BY <1>1 DEF CommitInv, SharedCurrent, fileVars, startVars
  <1> QED BY <1>8, <1>9, <1>10, <1>11, <1>12, <1>13, <1>14 DEF CommitInv

\* The pages in D[c], of every client c, lose their swaps, whose blocks are S.
SwapsDropped(D) ==
    \A c \in Clients, p \in Pages :
        swapdadr'[c][p] = IF p \in D[c] THEN NoBlock ELSE swapdadr[c][p]

SwapsOf(D, S) ==
    \A b \in SwapBlocks : b \in S <=>
        \E c \in Clients, p \in Pages : p \in D[c] /\ swapdadr[c][p] = b

\* Copies lose their swaps and the blocks are freed.
LEMMA DropSwaps ==
  ASSUME CopyTypes, SwapSpaceExact, NEW S, alloc_map' = alloc_map \ S,
         NEW D \in [Clients -> SUBSET Pages], SwapsDropped(D), SwapsOf(D, S)
  PROVE  SwapSpaceExact'
  <1> USE DEF SwapsDropped, SwapsOf
  <1>1. NoBlock \notin SwapBlocks
    BY BlockFacts
  <1>2. \A c, d \in Clients : \A p, q \in Pages :
          swapdadr[c][p] # NoBlock /\ swapdadr[c][p] = swapdadr[d][q] => c = d /\ p = q
    BY DEF SwapSpaceExact
  <1>3. ASSUME NEW x \in SwapBlocks
        PROVE  x \in alloc_map \ S <=> \E d \in Clients, q \in Pages : swapdadr'[d][q] = x
    <2>1. x \in alloc_map <=> \E d \in Clients, q \in Pages : swapdadr[d][q] = x
      BY DEF SwapSpaceExact
    <2>2. ASSUME x \in alloc_map \ S
          PROVE  \E d \in Clients, q \in Pages : swapdadr'[d][q] = x
      BY <2>1, <2>2
    <2>3. ASSUME NEW d \in Clients, NEW q \in Pages, swapdadr'[d][q] = x
          PROVE  x \in alloc_map \ S
      <3>1. swapdadr[d][q] = x /\ q \notin D[d]
        BY <1>1, <2>3
      <3>2. \A c \in Clients, p \in Pages : swapdadr[c][p] = x => c = d /\ p = q
        BY <1>1, <1>2, <3>1
      <3> QED BY <2>1, <3>1, <3>2
    <2> QED BY <2>2, <2>3
  <1>4. ASSUME NEW d \in Clients, NEW e \in Clients, NEW q \in Pages, NEW r \in Pages,
               swapdadr'[d][q] # NoBlock, swapdadr'[d][q] = swapdadr'[e][r]
        PROVE  d = e /\ q = r
    BY <1>2, <1>4
  <1> QED BY <1>3, <1>4 DEF SwapSpaceExact

\* The copy of a page loses its swap and the block is freed.
LEMMA ReleaseOne ==
  ASSUME MapTypes, CopyTypes, SwapSpaceExact, NEW c \in Clients, NEW p \in Pages,
         swapdadr' = [swapdadr EXCEPT ![c][p] = NoBlock], free_swap_blocks(Swapped(c, p))
  PROVE  /\ MapTypes' /\ SwapSpaceExact' /\ UNCHANGED tjc_init_limit
         /\ swapdadr' \in SwapTable
         /\ \A d \in Clients, q \in Pages :
               swapdadr'[d][q] = IF d = c /\ q = p THEN NoBlock ELSE swapdadr[d][q]
  <1>1. /\ swapdadr' \in SwapTable
        /\ \A d \in Clients, q \in Pages :
              swapdadr'[d][q] = IF d = c /\ q = p THEN NoBlock ELSE swapdadr[d][q]
    <2>1. NoBlock \in SwapBlocks \cup {NoBlock}
      OBVIOUS
    <2> HIDE DEF NoBlock
    <2> QED BY <2>1, SwapSet, ZenonT(60)
  <1>2. swapdadr[c][p] \in SwapBlocks \cup {NoBlock}
    BY DEF CopyTypes, SwapTable
  <1>3. /\ Swapped(c, p) \in SUBSET SwapBlocks
        /\ \A b \in SwapBlocks : b \in Swapped(c, p) <=> swapdadr[c][p] = b
    BY <1>2, BlockFacts DEF Swapped
  <1>4. MapTypes' /\ alloc_map' = alloc_map \ Swapped(c, p) /\ UNCHANGED tjc_init_limit
    BY <1>3, FreeSwaps
  <1> DEFINE D == [d \in Clients |-> IF d = c THEN {p} ELSE {}]
  <1>5. D \in [Clients -> SUBSET Pages] /\ \A d \in Clients, q \in Pages : q \in D[d] <=> d = c /\ q = p
    OBVIOUS
  <1> HIDE DEF D
  <1>6. SwapsDropped(D)
    BY <1>1, <1>5 DEF SwapsDropped
  <1>7. SwapsOf(D, Swapped(c, p))
    BY <1>3, <1>5 DEF SwapsOf
  <1>8. SwapSpaceExact'
    BY <1>4, <1>5, <1>6, <1>7, DropSwaps
  <1> QED BY <1>1, <1>4, <1>8

\* A copy without a swap gets a new block.
LEMMA SwapOne ==
  ASSUME FileTypes, MapTypes, CopyTypes, SwapSpaceExact, NEW c \in Clients, NEW p \in Pages,
         swapdadr[c][p] = NoBlock, NEW x \in SUBSET Changes, save_block(x),
         swapdadr' = [swapdadr EXCEPT ![c][p] = NewBlock]
  PROVE  /\ SwapSpaceExact' /\ swapdadr' \in SwapTable
         /\ \A d \in Clients, q \in Pages :
               swapdadr'[d][q] = IF d = c /\ q = p THEN NewBlock ELSE swapdadr[d][q]
  <1>1. NewBlock \in SwapBlocks \ alloc_map /\ alloc_map' = alloc_map \cup {NewBlock}
    BY SaveBlock
  <1> HIDE DEF NewBlock
  <1>2. /\ swapdadr' \in SwapTable
        /\ \A d \in Clients, q \in Pages :
              swapdadr'[d][q] = IF d = c /\ q = p THEN NewBlock ELSE swapdadr[d][q]
    <2>1. NewBlock \in SwapBlocks \cup {NoBlock}
      BY <1>1
    <2> QED BY <2>1, SwapSet, ZenonT(60)
  <1>3. swapdadr \in SwapTable /\ ExactFor(alloc_map, swapdadr)
    BY ExactSpace DEF CopyTypes
  <1>4. ExactFor(alloc_map \cup {NewBlock}, [swapdadr EXCEPT ![c][p] = NewBlock])
    BY <1>1, <1>3, TakeSwap
  <1>5. SwapSpaceExact'
    BY <1>1, <1>4, ExactSpace
  <1> QED BY <1>2, <1>5

\* unswap_block keeps the invariant.
LEMMA StaysUnswap ==
  ASSUME CommitInv, NEW c \in Clients, NEW p \in Pages, unswap_block(c, p)
  PROVE  CommitInv'
  <1> DEFINE x == tdata[swapdadr[c][p]]
  <1>1. /\ UNCHANGED fileVars /\ UNCHANGED shared
        /\ UNCHANGED tranVars /\ UNCHANGED commitVars /\ UNCHANGED startVars
        /\ UNCHANGED <<written, committed>>
        /\ core' = [core EXCEPT ![c][p] = <<x>>]
        /\ swapdadr' = [swapdadr EXCEPT ![c][p] = NoBlock]
        /\ free_swap_blocks(Swapped(c, p))
        /\ swapdadr[c][p] # NoBlock
        /\ mode = "up" /\ committer # c
    BY DEF unswap_block, Works
  <1>2. x \in SUBSET Changes
    BY <1>1 DEF CommitInv, Types, FileTypes, CopyTypes, SwapTable
  <1> HIDE DEF x
  <1>3. <<x>> \in Seq(SUBSET Changes) /\ Len(<<x>>) = 1
    BY <1>2
  <1>4. /\ core' \in [Clients -> [Pages -> Seq(SUBSET Changes)]]
        /\ \A d \in Clients, q \in Pages :
              core'[d][q] = IF d = c /\ q = p THEN <<x>> ELSE core[d][q]
    <2>1. CopyTypes
      BY DEF CommitInv, Types
    <2> QED BY <1>1, <1>3, <2>1, CoreSet, ZenonT(60)
  <1>5. /\ MapTypes' /\ SwapSpaceExact' /\ UNCHANGED tjc_init_limit
        /\ swapdadr' \in SwapTable
        /\ \A d \in Clients, q \in Pages :
              swapdadr'[d][q] = IF d = c /\ q = p THEN NoBlock ELSE swapdadr[d][q]
    BY <1>1, ReleaseOne DEF CommitInv, Types
  <1>6. Types'
    <2>1. CopyTypes'
      BY <1>1, <1>4, <1>5 DEF CommitInv, Types, CopyTypes
    <2> QED BY <1>1, <1>5, <2>1, KeptTypes DEF CommitInv, Types
  <1>7. Control'
    BY <1>1, CommitterIsClient DEF CommitInv, Control, commitVars, startVars, tranVars
  <1>8. WritingInv'
    <2>1. writing # NoPage => committer \in Clients /\ writing \in Pages
      BY CommitterIsClient DEF CommitInv, Types, CommitTypes, WritingInv
    <2> QED BY <1>1, <1>4, <1>5, <2>1, WritingKept DEF CommitInv, commitVars, tranVars, WritingInv
  <1>9. Frames'
    <2> SUFFICES ASSUME NEW d \in Clients, NEW q \in Pages PROVE PageFrames(d, q)'
      BY DEF Frames
    <2>1. PageFrames(d, q)
      BY DEF CommitInv, Frames
    <2>2. CASE d = c /\ q = p
      BY <1>3, <1>4, <1>5, <2>2 DEF PageFrames
    <2>3. CASE ~(d = c /\ q = p)
      BY <1>1, <1>4, <1>5, <2>1, <2>3 DEF PageFrames, Doubled, commitVars, tranVars
    <2> QED BY <2>2, <2>3
  <1>10. LeaderInv'
    BY <1>1, <1>5, LeaderFrame DEF CommitInv, fileVars, commitVars, startVars
  <1>11. SharedCurrent'
    BY <1>1 DEF CommitInv, SharedCurrent, fileVars, startVars
  <1> QED BY <1>5, <1>6, <1>7, <1>8, <1>9, <1>10, <1>11 DEF CommitInv

\* get_frame keeps the invariant.
LEMMA StaysGetFrame ==
  ASSUME CommitInv, NEW c \in Clients, NEW p \in Pages, get_frame(c, p)
  PROVE  CommitInv'
  <1>1. PICK i \in DOMAIN core[c][p] :
        /\ core' = [core EXCEPT ![c][p] = RemoveAt(@, i)]
        /\ IF MustSwap(c, p, i)
           THEN /\ save_block(core[c][p][i])
                /\ swapdadr' = [swapdadr EXCEPT ![c][p] = NewBlock]
           ELSE UNCHANGED <<mapVars, swapdadr, tdata, tjc>>
    BY Zenon DEF get_frame
  <1>2. /\ UNCHANGED disk /\ UNCHANGED shared
        /\ UNCHANGED tranVars /\ UNCHANGED commitVars /\ UNCHANGED startVars
        /\ UNCHANGED <<written, committed>>
        /\ mode = "up" /\ p # writing
    BY DEF get_frame
  <1>3. core[c][p] \in Seq(SUBSET Changes)
    BY DEF CommitInv, Types, CopyTypes
  <1> DEFINE x == core[c][p][i]
             s == RemoveAt(core[c][p], i)
  <1>4. x \in SUBSET Changes /\ s \in Seq(SUBSET Changes)
    BY <1>3, FrameCounts
  <1>5. /\ Len(core[c][p]) = 1 => s = << >>
        /\ Len(core[c][p]) = 2 => Len(s) = 1
        /\ Len(core[c][p]) # 0
    BY <1>3, FrameCounts
  <1>6. core' = [core EXCEPT ![c][p] = s]
    BY <1>1
  <1> HIDE DEF s
  <1>7. /\ core' \in [Clients -> [Pages -> Seq(SUBSET Changes)]]
        /\ \A d \in Clients, q \in Pages :
              core'[d][q] = IF d = c /\ q = p THEN s ELSE core[d][q]
    <2>1. CopyTypes
      BY DEF CommitInv, Types
    <2> QED BY <1>4, <1>6, <2>1, CoreSet, ZenonT(60)
  <1>8. /\ swapdadr' \in SwapTable /\ SwapSpaceExact' /\ FileTypes' /\ MapTypes' /\ LeaderInv'
        /\ \A d \in Clients, q \in Pages : ~(d = c /\ q = p) => swapdadr'[d][q] = swapdadr[d][q]
        /\ swapdadr'[c][p] # swapdadr[c][p] => swapdadr[c][p] = NoBlock
    <2>1. CASE MustSwap(c, p, i)
      <3>1. save_block(x) /\ swapdadr' = [swapdadr EXCEPT ![c][p] = NewBlock]
        BY <1>1, <2>1
      <3>2. swapdadr[c][p] = NoBlock
        BY <2>1 DEF MustSwap
      <3> HIDE DEF x
      <3>3. /\ SwapSpaceExact' /\ swapdadr' \in SwapTable
            /\ \A d \in Clients, q \in Pages :
                  swapdadr'[d][q] = IF d = c /\ q = p THEN NewBlock ELSE swapdadr[d][q]
        BY <1>4, <3>1, <3>2, SwapOne DEF CommitInv, Types
      <3>4. /\ MapTypes' /\ tdata' \in [SwapBlocks -> SUBSET Changes]
            /\ \/ UNCHANGED <<tjc, tjc_init_limit>>
               \/ \E b \in TjcBlocks : /\ b > tjc_init_limit /\ b < tjc_init_limit'
                                       /\ tjc' = [tjc EXCEPT ![b] = InvalidJournal]
            /\ tjc' \in [TjcBlocks -> Journals]
        BY <1>4, <3>1, SaveBlock DEF CommitInv, Types
      <3>5. FileTypes'
        BY <1>2, <3>4 DEF CommitInv, Types, FileTypes
      <3>6. LeaderInv'
        BY <1>2, <3>4, LeaderSaveBlock, Zenon DEF CommitInv, Types, commitVars, startVars
      <3> QED BY <3>2, <3>3, <3>4, <3>5, <3>6
    <2>2. CASE ~MustSwap(c, p, i)
      <3>1. UNCHANGED mapVars /\ UNCHANGED <<swapdadr, tdata, tjc>>
        BY <1>1, <2>2
      <3>2. SwapSpaceExact' /\ MapTypes'
        BY <3>1, ExactSpace, KeptTypes DEF CommitInv, mapVars, Types
      <3>3. FileTypes' /\ swapdadr' \in SwapTable
        BY <1>2, <3>1 DEF CommitInv, Types, FileTypes, CopyTypes
      <3>4. LeaderInv'
        BY <1>2, <3>1, LeaderFrame DEF CommitInv, mapVars, commitVars, startVars
      <3> QED BY <3>1, <3>2, <3>3, <3>4
    <2> QED BY <2>1, <2>2
  <1>9. Types'
    <2>1. CopyTypes'
      BY <1>2, <1>7, <1>8 DEF CommitInv, Types, CopyTypes
    <2> QED BY <1>2, <1>8, <2>1, KeptTypes DEF CommitInv, Types
  <1>10. Control'
    BY <1>2, CommitterIsClient DEF CommitInv, Control, commitVars, startVars, tranVars
  <1>11. WritingInv'
    <2>1. writing # NoPage => committer \in Clients /\ writing \in Pages
      BY CommitterIsClient DEF CommitInv, Types, CommitTypes, WritingInv
    <2> QED BY <1>2, <1>7, <1>8, <2>1, WritingKept DEF CommitInv, commitVars, tranVars, WritingInv
  <1>12. Frames'
    <2> SUFFICES ASSUME NEW d \in Clients, NEW q \in Pages PROVE PageFrames(d, q)'
      BY DEF Frames
    <2>1. PageFrames(d, q)
      BY DEF CommitInv, Frames
    <2>2. CASE d = c /\ q = p
      <3>1. core'[d][q] = s
        BY <1>7, <2>2
      <3>2. CASE Len(core[c][p]) = 1
        <4>1. Len(s) = 0 /\ s = << >>
          BY <1>5, <3>2
        <4> QED BY <3>1, <4>1 DEF PageFrames
      <3>3. CASE Len(core[c][p]) = 2
        <4>1. Len(s) = 1 /\ failed[c] /\ c = d /\ q = p /\ p \in log[c]
          BY <1>5, <2>1, <2>2, <3>3 DEF PageFrames
        <4> QED BY <1>2, <3>1, <4>1 DEF PageFrames, Doubled, tranVars
      <3> QED BY <1>5, <2>1, <2>2, <3>2, <3>3 DEF PageFrames
    <2>3. CASE ~(d = c /\ q = p)
      BY <1>2, <1>7, <1>8, <2>1, <2>3 DEF PageFrames, Doubled, commitVars, tranVars
    <2> QED BY <2>2, <2>3
  <1>13. SharedCurrent'
    BY <1>2 DEF CommitInv, SharedCurrent, startVars
  <1> QED BY <1>8, <1>9, <1>10, <1>11, <1>12, <1>13 DEF CommitInv

\* Shared copies come and go.
LEMMA StaysShared ==
  ASSUME CommitInv, NEW p \in SystemPages, fix_any_page(p) \/ get_shared_frame(p)
  PROVE  CommitInv'
  <1>1. /\ UNCHANGED fileVars /\ UNCHANGED mapVars /\ UNCHANGED <<core, swapdadr>>
        /\ UNCHANGED tranVars /\ UNCHANGED commitVars /\ UNCHANGED startVars
        /\ UNCHANGED <<written, committed>> /\ mode = "up"
        /\ \/ shared' = [shared EXCEPT ![p] = disk[p]]
           \/ shared' = [shared EXCEPT ![p] = NotCached]
    BY DEF fix_any_page, get_shared_frame
  <1>2. disk[p] \in SUBSET Changes
    BY CommitConstants DEF CommitInv, Types, FileTypes
  <1>3. Types'
    <2>1. CopyTypes'
      BY <1>1, <1>2 DEF CommitInv, Types, CopyTypes
    <2> QED BY <1>1, <2>1, KeptTypes DEF CommitInv, Types
  <1>4. Control' /\ WritingInv'
    BY <1>1 DEF CommitInv, Control, WritingInv, HasChanged, MyChange, commitVars, startVars,
               tranVars, mapVars
  <1>5. Frames'
    BY <1>1 DEF CommitInv, Frames, PageFrames, Doubled, commitVars, tranVars
  <1>6. SwapSpaceExact'
    BY <1>1, ExactSpace DEF CommitInv, mapVars
  <1>7. LeaderInv'
    BY <1>1, LeaderFrame DEF CommitInv, fileVars, mapVars, commitVars, startVars
  <1>8. SharedCurrent'
    BY <1>1 DEF CommitInv, Types, CopyTypes, SharedCurrent, fileVars, startVars
  <1> QED BY <1>3, <1>4, <1>5, <1>6, <1>7, <1>8 DEF CommitInv

\* roll_back keeps the invariant.
LEMMA StaysRollBack ==
  ASSUME CommitInv, NEW c \in Clients, roll_back(c)
  PROVE  CommitInv'
  <1> DEFINE Dropped == UNION {Swapped(c, p) : p \in log[c]}
  <1>1. /\ UNCHANGED fileVars /\ UNCHANGED shared /\ UNCHANGED commitVars
        /\ UNCHANGED startVars /\ UNCHANGED <<written, committed>>
        /\ core' = [core EXCEPT ![c] =
               [p \in Pages |-> IF p \in log[c] THEN LeftFrames(@[p]) ELSE @[p]]]
        /\ swapdadr' = [swapdadr EXCEPT ![c] =
               [p \in Pages |-> IF p \in log[c] THEN NoBlock ELSE @[p]]]
        /\ free_swap_blocks(Dropped)
        /\ log' = [log EXCEPT ![c] = {}]
        /\ failed' = [failed EXCEPT ![c] = FALSE]
        /\ trans' = [trans EXCEPT ![c] = @ + 1]
        /\ mode = "up" /\ committer # c /\ (failed[c] \/ log[c] # {}) /\ writing \notin log[c]
    BY DEF roll_back
  <1>2. \A d \in Clients, q \in Pages : core[d][q] \in Seq(SUBSET Changes)
    BY DEF CommitInv, Types, CopyTypes
  <1>3. \A q \in Pages : LeftFrames(core[c][q]) \in Seq(SUBSET Changes)
    BY <1>2, FrameCounts
  <1>4. core' \in [Clients -> [Pages -> Seq(SUBSET Changes)]]
    BY <1>1, <1>2, <1>3 DEF CommitInv, Types, CopyTypes
  <1>5. \A d \in Clients, q \in Pages :
            core'[d][q] = IF d = c /\ q \in log[c] THEN LeftFrames(core[d][q]) ELSE core[d][q]
    BY <1>1 DEF CommitInv, Types, CopyTypes
  <1>6. swapdadr' \in SwapTable
    BY <1>1 DEF CommitInv, Types, CopyTypes, SwapTable
  <1>7. \A d \in Clients, q \in Pages :
            swapdadr'[d][q] = IF d = c /\ q \in log[c] THEN NoBlock ELSE swapdadr[d][q]
    BY <1>1 DEF CommitInv, Types, CopyTypes, SwapTable
  <1>8. trans[c] \in 1 .. MaxTrans
    BY <1>1 DEF CommitInv, Control
  <1>9. /\ TranTypes'
        /\ \A d \in Clients : /\ log'[d] = IF d = c THEN {} ELSE log[d]
                              /\ failed'[d] = IF d = c THEN FALSE ELSE failed[d]
                              /\ trans'[d] = IF d = c THEN trans[c] + 1 ELSE trans[d]
    BY <1>1, <1>8, CommitConstants DEF CommitInv, Types, TranTypes
  <1>10. /\ Dropped \in SUBSET SwapBlocks
         /\ \A b \in SwapBlocks : b \in Dropped <=> \E p \in log[c] : swapdadr[c][p] = b
    <2>1. \A p \in Pages : swapdadr[c][p] \in SwapBlocks \cup {NoBlock}
      BY DEF CommitInv, Types, CopyTypes, SwapTable
    <2>2. log[c] \subseteq Pages
      BY DEF CommitInv, Types, TranTypes
    <2> QED BY <2>1, <2>2, BlockFacts DEF Swapped
  <1> HIDE DEF Dropped
  <1>11. MapTypes' /\ alloc_map' = alloc_map \ Dropped /\ UNCHANGED tjc_init_limit
    BY <1>1, <1>10, FreeSwaps DEF CommitInv, Types
  <1>12. SwapSpaceExact'
    <2> DEFINE D == [d \in Clients |-> IF d = c THEN log[c] ELSE {}]
    <2>1. log[c] \subseteq Pages
      BY DEF CommitInv, Types, TranTypes
    <2>2. /\ D \in [Clients -> SUBSET Pages]
          /\ \A d \in Clients, q \in Pages : q \in D[d] <=> d = c /\ q \in log[c]
      BY <2>1
    <2> HIDE DEF D
    <2>3. SwapsDropped(D)
      BY <1>7, <2>2 DEF SwapsDropped
    <2>4. SwapsOf(D, Dropped)
      BY <1>10, <2>1, <2>2 DEF SwapsOf
    <2> QED BY <1>11, <2>2, <2>3, <2>4, DropSwaps DEF CommitInv, Types
  <1>13. Types'
    <2>1. CopyTypes'
      BY <1>1, <1>4, <1>6 DEF CommitInv, Types, CopyTypes
    <2> QED BY <1>1, <1>9, <1>11, <2>1, KeptTypes DEF CommitInv, Types
  <1>14. Control'
    <2>1. stage # "idle" => committer \in Clients
      BY CommitterIsClient DEF CommitInv, Types
    <2> QED BY <1>1, <1>9, <2>1 DEF CommitInv, Control, commitVars, startVars
  <1>15. WritingInv'
    <2>1. writing # NoPage => committer \in Clients /\ writing \in Pages
      BY CommitterIsClient DEF CommitInv, Types, CommitTypes, WritingInv
    <2> QED BY <1>1, <1>5, <1>7, <1>9, <2>1, WritingKept DEF CommitInv, commitVars, WritingInv
  <1>16. Frames'
    <2> SUFFICES ASSUME NEW d \in Clients, NEW q \in Pages PROVE PageFrames(d, q)'
      BY DEF Frames
    <2>1. PageFrames(d, q)
      BY DEF CommitInv, Frames
    <2>2. CASE d = c /\ q \in log[c]
      <3>1. core'[d][q] = LeftFrames(core[d][q]) /\ swapdadr'[d][q] = NoBlock
        BY <1>5, <1>7, <2>2
      <3>2. Len(LeftFrames(core[d][q])) = 0 \/ Len(LeftFrames(core[d][q])) = 1
        <4>1. CASE Len(core[d][q]) = 0
          BY <1>2, <4>1, FrameCounts DEF LeftFrames
        <4>2. CASE Len(core[d][q]) = 1
          <5>1. LeftFrames(core[d][q]) = << >> /\ Len(<< >>) = 0
            BY <1>2, <4>2, FrameCounts
          <5> QED BY <5>1, Zenon
        <4>3. CASE Len(core[d][q]) = 2
          BY <1>2, <4>3, FrameCounts
        <4> QED BY <2>1, <4>1, <4>2, <4>3 DEF PageFrames
      <3> QED BY <3>1, <3>2 DEF PageFrames
    <2>3. CASE ~(d = c /\ q \in log[c])
      BY <1>1, <1>5, <1>7, <1>9, <2>1, <2>3 DEF PageFrames, Doubled, commitVars
    <2> QED BY <2>2, <2>3
  <1>17. LeaderInv'
    BY <1>1, <1>11, LeaderFrame DEF CommitInv, fileVars, commitVars, startVars
  <1>18. SharedCurrent'
    BY <1>1 DEF CommitInv, SharedCurrent, fileVars, startVars
  <1> QED BY <1>12, <1>13, <1>14, <1>15, <1>16, <1>17, <1>18 DEF CommitInv

\* Without a commit in its second phase there is no leader.
LEMMA NoLeaderYet ==
  ASSUME LeaderInv, stage # "write", mode = "up"
  PROVE  Leaders = {}
  BY DEF LeaderInv, OneLeader

\* commit keeps the invariant.
LEMMA StaysCommit ==
  ASSUME CommitInv, NEW c \in Clients, commit(c)
  PROVE  CommitInv'
  <1>1. /\ UNCHANGED fileVars /\ UNCHANGED mapVars /\ UNCHANGED copyVars
        /\ UNCHANGED tranVars /\ UNCHANGED startVars /\ UNCHANGED writing
        /\ UNCHANGED <<written, committed>>
        /\ committer' = c /\ stage' = "save" /\ todo' = log[c]
        /\ core_tjc' = {} /\ tjc_all' = << >>
        /\ committer = NoClient /\ mode = "up" /\ ~failed[c] /\ trans[c] <= MaxTrans
    BY DEF commit, Works
  <1>2. stage = "idle" /\ writing = NoPage
    BY <1>1 DEF CommitInv, Control, WritingInv
  <1>3. log[c] \subseteq Pages /\ trans[c] \in 1 .. MaxTrans
    BY <1>1 DEF CommitInv, Types, TranTypes
  <1>4. Types'
    <2>1. IsFiniteSet({}) /\ Cardinality({}) = 0 /\ 0 <= TjcPairs
      BY FS_EmptySet, CommitConstants
    <2>2. CommitTypes'
      BY <1>1, <1>3, <2>1 DEF CommitInv, Types, CommitTypes
    <2> QED BY <1>1, <2>2, KeptTypes DEF CommitInv, Types
  <1>5. Control'
    BY <1>1, <1>3, CommitConstants
       DEF CommitInv, Control, mapVars, copyVars, tranVars, startVars
  <1>6. WritingInv'
    BY <1>1, <1>2 DEF WritingInv
  <1>7. Frames'
    BY <1>1, <1>2, CommitConstants DEF CommitInv, Frames, PageFrames, Doubled, copyVars, tranVars
  <1>8. SwapSpaceExact'
    BY <1>1, ExactSpace DEF CommitInv, mapVars, copyVars
  <1>9. LeaderInv'
    <2>1. Leaders' = {}
      BY <1>1, <1>2, NoLeaderYet DEF CommitInv, Leaders, fileVars
    <2> QED BY <1>1, <2>1 DEF CommitInv, LeaderInv, OneLeader, LeaderSafe, LeadersAhead, startVars
  <1>10. SharedCurrent'
    BY <1>1 DEF CommitInv, SharedCurrent, fileVars, copyVars, startVars
  <1> QED BY <1>4, <1>5, <1>6, <1>7, <1>8, <1>9, <1>10 DEF CommitInv

\* A pair is added to the TJC block being built.
LEMMA PairAdded ==
  ASSUME CommitTypes, ~Full, NEW pr \in Pairs
  PROVE  /\ core_tjc \cup {pr} \subseteq Pairs /\ IsFiniteSet(core_tjc \cup {pr})
         /\ Cardinality(core_tjc \cup {pr}) <= TjcPairs
  <1>1. Cardinality(core_tjc) \in Nat /\ Cardinality(core_tjc) < TjcPairs
    BY FS_CardinalityType, CommitConstants DEF CommitTypes, Full
  <1>2. /\ IsFiniteSet(core_tjc \cup {pr})
        /\ Cardinality(core_tjc \cup {pr}) = Cardinality(core_tjc)
           \/ Cardinality(core_tjc \cup {pr}) = Cardinality(core_tjc) + 1
    BY FS_AddElement DEF CommitTypes
  <1>3. Cardinality(core_tjc \cup {pr}) <= TjcPairs
    BY <1>1, <1>2, CommitConstants
  <1> QED BY <1>2, <1>3 DEF CommitTypes

\* make_swapped keeps the invariant.
LEMMA StaysMakeSwapped ==
  ASSUME CommitInv, NEW p \in Pages, make_swapped(p)
  PROVE  CommitInv'
  <1>1. /\ UNCHANGED disk /\ UNCHANGED <<core, shared>> /\ UNCHANGED tranVars
        /\ UNCHANGED <<stage, committer, tjc_all, writing>> /\ UNCHANGED startVars
        /\ UNCHANGED <<written, committed>>
        /\ mode = "up" /\ stage = "save" /\ p \in todo /\ todo' = todo \ {p} /\ ~Full
    BY DEF make_swapped
  <1>2. committer \in Clients /\ ~failed[committer] /\ todo \subseteq log[committer]
    BY <1>1, CommitterIsClient DEF CommitInv, Types, Control
  <1>3. core[committer][p] # << >> => swapdadr[committer][p] = NoBlock
    <2>1. PageFrames(committer, p)
      BY <1>2 DEF CommitInv, Frames
    <2> QED BY <1>1, <1>2, <2>1 DEF PageFrames, Doubled
  <1>4. core[committer][p] \in Seq(SUBSET Changes)
    BY <1>2 DEF CommitInv, Types, CopyTypes
  <1>5. /\ swapdadr' \in SwapTable /\ SwapSpaceExact' /\ FileTypes' /\ MapTypes' /\ LeaderInv'
        /\ \A d \in Clients, q \in Pages :
              ~(d = committer /\ q = p) => swapdadr'[d][q] = swapdadr[d][q]
        /\ core_tjc' \subseteq Pairs /\ IsFiniteSet(core_tjc') /\ Cardinality(core_tjc') <= TjcPairs
    <2>1. CASE core[committer][p] # << >> /\ save_block(core[committer][p][1]) /\ Swaps(p, NewBlock)
      <3> DEFINE x == core[committer][p][1]
      <3>1. x \in SUBSET Changes
        BY <1>4, <2>1, FrameCounts
      <3>2. save_block(x) /\ swapdadr' = [swapdadr EXCEPT ![committer][p] = NewBlock]
            /\ core_tjc' = core_tjc \cup {<<p, NewBlock>>}
        BY <2>1 DEF Swaps, Me
      <3>3. swapdadr[committer][p] = NoBlock
        BY <1>3, <2>1
      <3> HIDE DEF x
      <3>4. /\ SwapSpaceExact' /\ swapdadr' \in SwapTable
            /\ \A d \in Clients, q \in Pages :
                  swapdadr'[d][q] = IF d = committer /\ q = p THEN NewBlock ELSE swapdadr[d][q]
        BY <1>2, <3>1, <3>2, <3>3, SwapOne DEF CommitInv, Types
      <3>5. /\ MapTypes' /\ tdata' \in [SwapBlocks -> SUBSET Changes]
            /\ \/ UNCHANGED <<tjc, tjc_init_limit>>
               \/ \E b \in TjcBlocks : /\ b > tjc_init_limit /\ b < tjc_init_limit'
                                       /\ tjc' = [tjc EXCEPT ![b] = InvalidJournal]
            /\ tjc' \in [TjcBlocks -> Journals]
            /\ NewBlock \in SwapBlocks
        BY <3>1, <3>2, SaveBlock DEF CommitInv, Types
      <3>6. FileTypes'
        BY <1>1, <3>5 DEF CommitInv, Types, FileTypes
      <3>7. LeaderInv'
        BY <1>1, <3>5, LeaderSaveBlock, Zenon DEF CommitInv, Types, startVars
      <3> HIDE DEF NewBlock
      <3>8. <<p, NewBlock>> \in Pairs
        BY <3>5 DEF Pairs
      <3>9. /\ core_tjc' \subseteq Pairs /\ IsFiniteSet(core_tjc')
            /\ Cardinality(core_tjc') <= TjcPairs
        BY <1>1, <3>2, <3>8, PairAdded DEF CommitInv, Types
      <3> QED BY <3>4, <3>5, <3>6, <3>7, <3>9
    <2>2. CASE save_block_fails /\ UNCHANGED <<core_tjc, swapdadr>>
      <3>1. /\ FreeBlocks # {} /\ srch_start' = NewBlock
            /\ UNCHANGED <<alloc_map, tjc_init_limit, tdata, tjc, core_tjc, swapdadr>>
        BY <2>2 DEF save_block_fails
      <3>2. NewBlock \in 0 .. CellSize * Cells
        <4>1. NewBlock \in SwapBlocks
          BY <3>1, NewBlockFree
        <4> HIDE DEF NewBlock
        <4> QED BY <4>1, BlockFacts DEF Length
      <3> HIDE DEF NewBlock
      <3>3. MapTypes'
        BY <3>1, <3>2 DEF CommitInv, Types, MapTypes
      <3>4. FileTypes' /\ swapdadr' \in SwapTable
        BY <1>1, <3>1 DEF CommitInv, Types, FileTypes, CopyTypes
      <3>5. SwapSpaceExact'
        BY <3>1, ExactSpace DEF CommitInv
      <3>6. LeaderInv'
        BY <1>1, <3>1, LeaderFrame DEF CommitInv, startVars
      <3> QED BY <3>1, <3>3, <3>4, <3>5, <3>6 DEF CommitInv, Types, CommitTypes
    <2>3. CASE /\ swapdadr[committer][p] # NoBlock
               /\ Swaps(p, swapdadr[committer][p]) /\ UNCHANGED <<mapVars, tdata, tjc>>
      <3>1. /\ core_tjc' = core_tjc \cup {<<p, swapdadr[committer][p]>>}
            /\ swapdadr' = swapdadr /\ UNCHANGED mapVars /\ UNCHANGED <<tdata, tjc>>
        BY <1>2, <2>3 DEF Swaps, Me, CommitInv, Types, CopyTypes, SwapTable
      <3>2. <<p, swapdadr[committer][p]>> \in Pairs
        BY <1>2, <2>3 DEF CommitInv, Types, CopyTypes, SwapTable, Pairs
      <3>3. /\ core_tjc' \subseteq Pairs /\ IsFiniteSet(core_tjc')
            /\ Cardinality(core_tjc') <= TjcPairs
        BY <1>1, <3>1, <3>2, PairAdded DEF CommitInv, Types
      <3>4. MapTypes' /\ SwapSpaceExact'
        BY <3>1, ExactSpace, KeptTypes DEF CommitInv, mapVars, Types
      <3>5. FileTypes' /\ swapdadr' \in SwapTable
        BY <1>1, <3>1 DEF CommitInv, Types, FileTypes, CopyTypes
      <3>6. LeaderInv'
        BY <1>1, <3>1, LeaderFrame DEF CommitInv, startVars, mapVars
      <3> QED BY <3>1, <3>3, <3>4, <3>5, <3>6
    <2>4. CASE UNCHANGED <<mapVars, tdata, tjc, core_tjc, swapdadr>>
      <3>1. UNCHANGED mapVars /\ UNCHANGED <<tdata, tjc, core_tjc, swapdadr>>
        BY <2>4
      <3>4. MapTypes' /\ SwapSpaceExact'
        BY <3>1, ExactSpace, KeptTypes DEF CommitInv, mapVars, Types
      <3>5. FileTypes' /\ swapdadr' \in SwapTable
        BY <1>1, <3>1 DEF CommitInv, Types, FileTypes, CopyTypes
      <3>6. LeaderInv'
        BY <1>1, <3>1, LeaderFrame DEF CommitInv, startVars, mapVars
      <3> QED BY <3>1, <3>4, <3>5, <3>6 DEF CommitInv, Types, CommitTypes
    <2> QED BY <2>1, <2>2, <2>3, <2>4, Zenon DEF make_swapped, Me
  <1>6. Types'
    <2>1. CopyTypes'
      BY <1>1, <1>5 DEF CommitInv, Types, CopyTypes
    <2>2. CommitTypes'
      BY <1>1, <1>5 DEF CommitInv, Types, CommitTypes
    <2> QED BY <1>1, <1>5, <2>1, <2>2, KeptTypes DEF CommitInv, Types
  <1>7. Control'
    BY <1>1 DEF CommitInv, Control, tranVars, startVars
  <1>8. WritingInv'
    BY <1>1 DEF CommitInv, WritingInv
  <1>9. Frames'
    <2> SUFFICES ASSUME NEW d \in Clients, NEW q \in Pages PROVE PageFrames(d, q)'
      BY DEF Frames
    <2>1. PageFrames(d, q)
      BY DEF CommitInv, Frames
    <2>2. CASE d = committer /\ q = p
      BY <1>1, <1>2, <2>1, <2>2 DEF PageFrames, Doubled, tranVars
    <2>3. CASE ~(d = committer /\ q = p)
      BY <1>1, <1>5, <2>1, <2>3 DEF PageFrames, Doubled, tranVars
    <2> QED BY <2>2, <2>3
  <1>10. SharedCurrent'
    BY <1>1 DEF CommitInv, SharedCurrent, startVars
  <1> QED BY <1>5, <1>6, <1>7, <1>8, <1>9, <1>10 DEF CommitInv

\* The link of a new TJC block.
LEMMA LinkType ==
  ASSUME CommitTypes
  PROVE  Link \in TjcBlocks \cup {NoBlock}
  BY LastIsBlock DEF Link

\* save_dependent keeps the invariant.
LEMMA StaysSaveDependent ==
  ASSUME CommitInv, save_dependent
  PROVE  CommitInv'
  <1> DEFINE j == [tag |-> "VALID_TJC_DEPENDENT", link |-> Link, pairs |-> core_tjc]
  <1>1. /\ UNCHANGED disk /\ UNCHANGED copyVars /\ UNCHANGED tranVars
        /\ UNCHANGED <<stage, committer, todo, writing>> /\ UNCHANGED startVars
        /\ UNCHANGED <<written, committed>>
        /\ mode = "up" /\ stage = "save" /\ save_tjc_block(j)
        /\ tjc_all' = Append(tjc_all, NewJournal) /\ core_tjc' = {}
    BY DEF save_dependent
  <1>2. j \in Journals /\ j.tag # "VALID_TJC_LEADER"
    BY LinkType DEF CommitInv, Types, CommitTypes, Journals, Tags
  <1> HIDE DEF j
  <1>3. /\ NewJournal \in TjcBlocks \ alloc_map
        /\ alloc_map' = alloc_map \cup {NewJournal}
        /\ tjc' = [tjc EXCEPT ![NewJournal] = j]
        /\ tjc' \in [TjcBlocks -> Journals]
        /\ UNCHANGED tdata
        /\ MapTypes'
    BY <1>1, <1>2, SaveTjc DEF CommitInv, Types
  <1> HIDE DEF NewJournal
  <1>4. Types'
    <2>1. IsFiniteSet({}) /\ Cardinality({}) = 0 /\ 0 <= TjcPairs
      BY FS_EmptySet, CommitConstants
    <2>2. CommitTypes'
      BY <1>1, <1>3, <2>1 DEF CommitInv, Types, CommitTypes
    <2>3. FileTypes'
      BY <1>1, <1>3 DEF CommitInv, Types, FileTypes
    <2> QED BY <1>1, <1>3, <2>2, <2>3, KeptTypes DEF CommitInv, Types
  <1>5. Control'
    BY <1>1 DEF CommitInv, Control, tranVars, startVars, copyVars
  <1>6. WritingInv'
    BY <1>1 DEF CommitInv, WritingInv
  <1>7. Frames'
    BY <1>1 DEF CommitInv, Frames, PageFrames, Doubled, copyVars, tranVars
  <1>8. SwapSpaceExact'
    BY <1>1, <1>3, BlockFacts DEF CommitInv, SwapSpaceExact, copyVars
  <1>9. LeaderInv'
    <2>1. Leaders = {}
      BY <1>1, NoLeaderYet DEF CommitInv
    <2>2. Leaders' = {}
      BY <1>2, <1>3, <2>1 DEF Leaders, CommitInv, Types, FileTypes
    <2> QED BY <1>1, <2>2 DEF CommitInv, LeaderInv, OneLeader, LeaderSafe, LeadersAhead, startVars
  <1>10. SharedCurrent'
    BY <1>1 DEF CommitInv, SharedCurrent, copyVars, startVars
  <1> QED BY <1>4, <1>5, <1>6, <1>7, <1>8, <1>9, <1>10 DEF CommitInv

\* save_leader keeps the invariant.
LEMMA StaysSaveLeader ==
  ASSUME CommitInv, save_leader
  PROVE  CommitInv'
  <1> DEFINE j == [tag |-> "VALID_TJC_LEADER", link |-> Link, pairs |-> core_tjc]
  <1>1. /\ UNCHANGED disk /\ UNCHANGED copyVars /\ UNCHANGED tranVars
        /\ UNCHANGED <<committer, core_tjc, writing>> /\ UNCHANGED startVars
        /\ UNCHANGED written
        /\ mode = "up" /\ stage = "save" /\ save_tjc_block(j)
        /\ tjc_all' = Append(tjc_all, NewJournal)
        /\ stage' = "write" /\ todo' = log[committer]
        /\ committed' = committed \cup {<<committer, trans[committer]>>}
    BY DEF save_leader, Me, MyTrans
  <1>2. j \in Journals /\ j.tag = "VALID_TJC_LEADER"
    BY LinkType DEF CommitInv, Types, CommitTypes, Journals, Tags
  <1> HIDE DEF j
  <1>3. /\ NewJournal \in TjcBlocks \ alloc_map
        /\ alloc_map' = alloc_map \cup {NewJournal}
        /\ tjc' = [tjc EXCEPT ![NewJournal] = j]
        /\ tjc' \in [TjcBlocks -> Journals]
        /\ tjc_init_limit' = NewJournal + 1
        /\ UNCHANGED tdata
        /\ MapTypes'
    BY <1>1, <1>2, SaveTjc DEF CommitInv, Types
  <1> HIDE DEF NewJournal
  <1>4. /\ committer \in Clients /\ committer # NoClient /\ ~failed[committer]
        /\ log[committer] \subseteq Pages /\ trans[committer] \in 1 .. MaxTrans
    BY <1>1, CommitterIsClient DEF CommitInv, Types, Control, TranTypes
  <1>5. Types'
    <2>1. CommitTypes'
      BY <1>1, <1>3, <1>4 DEF CommitInv, Types, CommitTypes
    <2>2. FileTypes'
      BY <1>1, <1>3 DEF CommitInv, Types, FileTypes
    <2>3. HistoryTypes'
      BY <1>1, <1>4 DEF CommitInv, Types, HistoryTypes, Trans
    <2> QED BY <1>1, <1>3, <2>1, <2>2, <2>3, KeptTypes DEF CommitInv, Types
  <1>6. Control'
    BY <1>1, <1>4 DEF CommitInv, Control, tranVars, startVars, copyVars
  <1>7. WritingInv'
    BY <1>1 DEF CommitInv, WritingInv
  <1>8. Frames'
    BY <1>1 DEF CommitInv, Frames, PageFrames, Doubled, copyVars, tranVars
  <1>9. SwapSpaceExact'
    BY <1>1, <1>3, BlockFacts DEF CommitInv, SwapSpaceExact, copyVars
  <1>10. LeaderInv'
    <2>1. Leaders = {}
      BY <1>1, NoLeaderYet DEF CommitInv
    <2>2. Leaders' = {NewJournal}
      BY <1>2, <1>3, <2>1 DEF Leaders, CommitInv, Types, FileTypes
    <2>3. tjc_all' # << >> /\ Last(tjc_all') = NewJournal
      BY <1>1, <1>3 DEF Last, CommitInv, Types, CommitTypes
    <2>4. tjc_init_limit' > NewJournal
      <3>1. \A x \in TjcBlocks : x \in Int
        BY BlockFacts
      <3> QED BY <1>3, <3>1
    <2> QED BY <1>1, <2>2, <2>3, <2>4
            DEF CommitInv, LeaderInv, OneLeader, LeaderSafe, LeadersAhead, startVars
  <1>11. SharedCurrent'
    BY <1>1 DEF CommitInv, SharedCurrent, copyVars, startVars
  <1> QED BY <1>5, <1>6, <1>7, <1>8, <1>9, <1>10, <1>11 DEF CommitInv

\* save_tjc_fails keeps the invariant.
LEMMA StaysSaveTjcFails ==
  ASSUME CommitInv, save_tjc_fails
  PROVE  CommitInv'
  <1>1. /\ UNCHANGED fileVars /\ UNCHANGED <<alloc_map, srch_start>> /\ UNCHANGED copyVars
        /\ UNCHANGED <<trans, log, writing>> /\ UNCHANGED startVars
        /\ UNCHANGED <<written, committed>>
        /\ mode = "up" /\ stage = "save" /\ tjc_init_limit' = 0
        /\ failed' = [failed EXCEPT ![committer] = TRUE]
        /\ stage' = "idle" /\ committer' = NoClient /\ todo' = {}
        /\ core_tjc' = {} /\ tjc_all' = << >>
    BY DEF save_tjc_fails, Me
  <1>2. /\ committer \in Clients /\ committer # NoClient
        /\ trans[committer] \in 1 .. MaxTrans
    BY <1>1, CommitterIsClient DEF CommitInv, Types, Control
  <1>3. writing = NoPage
    BY <1>1 DEF CommitInv, WritingInv
  <1>4. \A d \in Clients : failed'[d] = IF d = committer THEN TRUE ELSE failed[d]
    BY <1>1 DEF CommitInv, Types, TranTypes
  <1>5. Types'
    <2>1. CommitTypes'
      BY <1>1, <1>3, IdleCommit
    <2>2. TranTypes'
      BY <1>1 DEF CommitInv, Types, TranTypes
    <2>3. MapTypes'
      <3>1. CellSize * Cells \in Nat
        BY BlockFacts DEF Length
      <3> QED BY <1>1, <3>1 DEF CommitInv, Types, MapTypes
    <2> QED BY <1>1, <2>1, <2>2, <2>3, KeptTypes DEF CommitInv, Types
  <1>6. Control'
    BY <1>1, <1>2, <1>4, CommitConstants DEF CommitInv, Control, startVars, copyVars
  <1>7. WritingInv'
    BY <1>1, <1>3 DEF WritingInv
  <1>8. Frames'
    <2> SUFFICES ASSUME NEW d \in Clients, NEW q \in Pages PROVE PageFrames(d, q)'
      BY DEF Frames
    <2>1. PageFrames(d, q)
      BY DEF CommitInv, Frames
    <2> QED BY <1>1, <1>2, <1>4, <2>1 DEF PageFrames, Doubled, copyVars
  <1>9. SwapSpaceExact'
    BY <1>1, ExactSpace DEF CommitInv, copyVars
  <1>10. LeaderInv'
    <2>1. Leaders' = {}
      BY <1>1, NoLeaderYet DEF CommitInv, Leaders, fileVars
    <2> QED BY <1>1, <2>1 DEF CommitInv, LeaderInv, OneLeader, LeaderSafe, LeadersAhead, startVars
  <1>11. SharedCurrent'
    BY <1>1 DEF CommitInv, SharedCurrent, fileVars, copyVars, startVars
  <1> QED BY <1>5, <1>6, <1>7, <1>8, <1>9, <1>10, <1>11 DEF CommitInv

\* The frames of the client that commits are single.
LEMMA CommitterFrames ==
  ASSUME CommitInv, stage # "idle", NEW p \in Pages
  PROVE  /\ core[committer][p] \in Seq(SUBSET Changes)
         /\ Len(core[committer][p]) = 0 \/ Len(core[committer][p]) = 1
         /\ LeftFrames(core[committer][p]) = << >>
         /\ core[committer][p] # << >> =>
               Front(core[committer][p]) = << >> /\ Last(core[committer][p]) = core[committer][p][1]
  <1>1. committer \in Clients /\ ~failed[committer]
    BY CommitterIsClient DEF CommitInv, Types, Control
  <1>2. core[committer][p] \in Seq(SUBSET Changes)
    BY <1>1 DEF CommitInv, Types, CopyTypes
  <1>3. Len(core[committer][p]) = 0 \/ Len(core[committer][p]) = 1
    BY <1>1 DEF CommitInv, Frames, PageFrames
  <1>4. CASE Len(core[committer][p]) = 0
    <2>1. core[committer][p] = << >>
      BY <1>2, <1>4, FrameCounts
    <2> QED BY <1>2, <1>3, <2>1 DEF LeftFrames
  <1>5. CASE Len(core[committer][p]) = 1
    BY <1>2, <1>3, <1>5, FrameCounts
  <1> QED BY <1>3, <1>4, <1>5

\* wr_nothing keeps the invariant.
LEMMA StaysWrNothing ==
  ASSUME CommitInv, NEW p \in Pages, wr_nothing(p)
  PROVE  CommitInv'
  <1>1. /\ UNCHANGED fileVars /\ UNCHANGED shared /\ UNCHANGED tranVars
        /\ UNCHANGED <<stage, committer, core_tjc, tjc_all, writing>> /\ UNCHANGED startVars
        /\ UNCHANGED <<written, committed>>
        /\ mode = "up" /\ stage = "write" /\ writing = NoPage
        /\ core' = [core EXCEPT ![committer][p] = LeftFrames(@)]
        /\ swapdadr' = [swapdadr EXCEPT ![committer][p] = NoBlock]
        /\ free_swap_blocks(Swapped(committer, p))
        /\ todo' = todo \ {p}
    BY DEF wr_nothing, Me
  <1>2. committer \in Clients
    BY <1>1, CommitterIsClient DEF CommitInv, Types
  <1>3. LeftFrames(core[committer][p]) = << >>
    BY <1>1, CommitterFrames
  <1>4. core' = [core EXCEPT ![committer][p] = << >>]
    BY <1>1, <1>3
  <1>5. << >> \in Seq(SUBSET Changes) /\ Len(<< >>) = 0
    OBVIOUS
  <1>6. /\ core' \in [Clients -> [Pages -> Seq(SUBSET Changes)]]
        /\ \A d \in Clients, q \in Pages :
              core'[d][q] = IF d = committer /\ q = p THEN << >> ELSE core[d][q]
    <2>1. CopyTypes
      BY DEF CommitInv, Types
    <2> QED BY <1>2, <1>4, <1>5, <2>1, CoreSet, ZenonT(60)
  <1>7. /\ MapTypes' /\ SwapSpaceExact' /\ UNCHANGED tjc_init_limit
        /\ swapdadr' \in SwapTable
        /\ \A d \in Clients, q \in Pages :
              swapdadr'[d][q] = IF d = committer /\ q = p THEN NoBlock ELSE swapdadr[d][q]
    BY <1>1, <1>2, ReleaseOne DEF CommitInv, Types
  <1>8. Types'
    <2>1. CopyTypes'
      BY <1>1, <1>6, <1>7 DEF CommitInv, Types, CopyTypes
    <2>2. CommitTypes'
      BY <1>1 DEF CommitInv, Types, CommitTypes
    <2> QED BY <1>1, <1>7, <2>1, <2>2, KeptTypes DEF CommitInv, Types
  <1>9. Control'
    BY <1>1 DEF CommitInv, Control, tranVars, startVars
  <1>10. WritingInv'
    BY <1>1 DEF WritingInv
  <1>11. Frames'
    <2> SUFFICES ASSUME NEW d \in Clients, NEW q \in Pages PROVE PageFrames(d, q)'
      BY DEF Frames
    <2>1. PageFrames(d, q)
      BY DEF CommitInv, Frames
    <2>2. CASE d = committer /\ q = p
      BY <1>5, <1>6, <1>7, <2>2, Zenon DEF PageFrames
    <2>3. CASE ~(d = committer /\ q = p)
      BY <1>1, <1>6, <1>7, <2>1, <2>3 DEF PageFrames, Doubled, tranVars
    <2> QED BY <2>2, <2>3
  <1>12. LeaderInv'
    BY <1>1, <1>7, LeaderFrame DEF CommitInv, fileVars, startVars
  <1>13. SharedCurrent'
    BY <1>1 DEF CommitInv, SharedCurrent, fileVars, startVars
  <1> QED BY <1>7, <1>8, <1>9, <1>10, <1>11, <1>12, <1>13 DEF CommitInv

\* wr_changes keeps the invariant.
LEMMA StaysWrChanges ==
  ASSUME CommitInv, NEW p \in Pages, wr_changes(p)
  PROVE  CommitInv'
  <1> DEFINE s == IF core[committer][p] = << >> THEN <<tdata[swapdadr[committer][p]]>>
                  ELSE core[committer][p]
  <1>1. /\ UNCHANGED fileVars /\ UNCHANGED shared /\ UNCHANGED tranVars
        /\ UNCHANGED <<stage, committer, core_tjc, tjc_all, todo>> /\ UNCHANGED startVars
        /\ UNCHANGED <<written, committed>>
        /\ mode = "up" /\ stage = "write" /\ writing' = p /\ p \in todo
        /\ HasChanged(committer, p)
        /\ core[committer][p] # << >> \/ swapdadr[committer][p] # NoBlock
        /\ core' = [core EXCEPT ![committer][p] = s]
        /\ swapdadr' = [swapdadr EXCEPT ![committer][p] = NoBlock]
        /\ free_swap_blocks(Swapped(committer, p))
    BY DEF wr_changes, Me
  <1>2. committer \in Clients
    BY <1>1, CommitterIsClient DEF CommitInv, Types
  <1>3. s \in Seq(SUBSET Changes) /\ Len(s) = 1 /\ s # << >>
    <2>1. CASE core[committer][p] = << >>
      <3>1. tdata[swapdadr[committer][p]] \in SUBSET Changes
        BY <1>1, <1>2, <2>1 DEF CommitInv, Types, FileTypes, CopyTypes, SwapTable
      <3> QED BY <2>1, <3>1
    <2>2. CASE core[committer][p] # << >>
      BY <1>1, <2>2, CommitterFrames
    <2> QED BY <2>1, <2>2
  <1> HIDE DEF s
  <1>4. /\ core' \in [Clients -> [Pages -> Seq(SUBSET Changes)]]
        /\ \A d \in Clients, q \in Pages :
              core'[d][q] = IF d = committer /\ q = p THEN s ELSE core[d][q]
    <2>1. CopyTypes
      BY DEF CommitInv, Types
    <2> QED BY <1>1, <1>2, <1>3, <2>1, CoreSet, ZenonT(60)
  <1>5. /\ MapTypes' /\ SwapSpaceExact' /\ UNCHANGED tjc_init_limit
        /\ swapdadr' \in SwapTable
        /\ \A d \in Clients, q \in Pages :
              swapdadr'[d][q] = IF d = committer /\ q = p THEN NoBlock ELSE swapdadr[d][q]
    BY <1>1, <1>2, ReleaseOne DEF CommitInv, Types
  <1>6. Types'
    <2>1. CopyTypes'
      BY <1>1, <1>4, <1>5 DEF CommitInv, Types, CopyTypes
    <2>2. CommitTypes'
      BY <1>1 DEF CommitInv, Types, CommitTypes
    <2> QED BY <1>1, <1>5, <2>1, <2>2, KeptTypes DEF CommitInv, Types
  <1>7. Control'
    BY <1>1 DEF CommitInv, Control, tranVars, startVars
  <1>8. WritingInv'
    BY <1>1, <1>2, <1>3, <1>4, <1>5 DEF WritingInv, HasChanged, MyChange, tranVars
  <1>9. Frames'
    <2> SUFFICES ASSUME NEW d \in Clients, NEW q \in Pages PROVE PageFrames(d, q)'
      BY DEF Frames
    <2>1. PageFrames(d, q)
      BY DEF CommitInv, Frames
    <2>2. CASE d = committer /\ q = p
      BY <1>3, <1>4, <1>5, <2>2, Zenon DEF PageFrames
    <2>3. CASE ~(d = committer /\ q = p)
      BY <1>1, <1>4, <1>5, <2>1, <2>3 DEF PageFrames, Doubled, tranVars
    <2> QED BY <2>2, <2>3
  <1>10. LeaderInv'
    BY <1>1, <1>5, LeaderFrame DEF CommitInv, fileVars, startVars
  <1>11. SharedCurrent'
    BY <1>1 DEF CommitInv, SharedCurrent, fileVars, startVars
  <1> QED BY <1>5, <1>6, <1>7, <1>8, <1>9, <1>10, <1>11 DEF CommitInv

\* What the frames of another client become when a page is committed.
LEMMA MergedCounts ==
  ASSUME CommitInv, NEW c \in Clients, NEW p \in Pages, committer \in Clients,
         trans[committer] \in 1 .. MaxTrans
  PROVE  /\ MergedFrames(c, p) \in Seq(SUBSET Changes)
         /\ Len(MergedFrames(c, p)) = IF swapdadr[c][p] = NoBlock THEN Len(core[c][p])
                                      ELSE 1 + Len(core[c][p])
  <1> DEFINE u == IF swapdadr[c][p] = NoBlock THEN << >> ELSE <<tdata[swapdadr[c][p]]>>
             f == u \o core[c][p]
  <1>1. core[c][p] \in Seq(SUBSET Changes)
    BY DEF CommitInv, Types, CopyTypes
  <1>2. u \in Seq(SUBSET Changes) /\ Len(u) = IF swapdadr[c][p] = NoBlock THEN 0 ELSE 1
    <2>1. swapdadr[c][p] # NoBlock => tdata[swapdadr[c][p]] \in SUBSET Changes
      BY DEF CommitInv, Types, FileTypes, CopyTypes, SwapTable
    <2>2. CASE swapdadr[c][p] = NoBlock
      <3>1. << >> \in Seq(SUBSET Changes) /\ Len(<< >>) = 0
        OBVIOUS
      <3>2. u = << >>
        BY <2>2
      <3> HIDE DEF u
      <3> QED BY <2>2, <3>1, <3>2
    <2>3. CASE swapdadr[c][p] # NoBlock
      <3> DEFINE x == tdata[swapdadr[c][p]]
      <3>1. u = <<x>> /\ x \in SUBSET Changes
        BY <2>1, <2>3
      <3> HIDE DEF x, u
      <3>2. <<x>> \in Seq(SUBSET Changes) /\ Len(<<x>>) = 1
        BY <3>1
      <3> QED BY <2>3, <3>1, <3>2, Zenon
    <2> QED BY <2>2, <2>3
  <1> HIDE DEF u
  <1>3. f \in Seq(SUBSET Changes) /\ Len(f) = Len(u) + Len(core[c][p])
    BY <1>1, <1>2, ConcatProperties
  <1> HIDE DEF f
  <1>4. MyChange(committer, p) \in Changes
    BY DEF MyChange, Changes
  <1>5. \A i \in DOMAIN f : Merged(f[i], p) \in SUBSET Changes
    BY <1>3, <1>4 DEF Merged, Me
  <1>6. MergedFrames(c, p) = [i \in DOMAIN f |-> Merged(f[i], p)]
    BY Zenon DEF MergedFrames, f, u
  <1> HIDE DEF Merged
  <1>7. DOMAIN f = 1 .. Len(f) /\ Len(f) \in Nat
    BY <1>3
  <1>8. MergedFrames(c, p) = [i \in 1 .. Len(f) |-> Merged(f[i], p)]
    BY <1>6, <1>7
  <1>9. MergedFrames(c, p) \in Seq(SUBSET Changes) /\ Len(MergedFrames(c, p)) = Len(f)
    <2> DEFINE g == [i \in 1 .. Len(f) |-> Merged(f[i], p)]
    <2>1. \A i \in 1 .. Len(f) : Merged(f[i], p) \in SUBSET Changes
      BY <1>5, <1>7
    <2>2. g \in Seq(SUBSET Changes) /\ Len(g) = Len(f)
      BY <1>7, <2>1
    <2> QED BY <1>8, <2>2
  <1>10. Len(f) = IF swapdadr[c][p] = NoBlock THEN Len(core[c][p]) ELSE 1 + Len(core[c][p])
    <2>1. Len(core[c][p]) \in Nat
      BY <1>1
    <2>2. CASE swapdadr[c][p] = NoBlock
      <3>1. Len(f) = 0 + Len(core[c][p])
        BY <1>2, <1>3, <2>2
      <3> QED BY <2>1, <2>2, <3>1
    <2>3. CASE swapdadr[c][p] # NoBlock
      BY <1>2, <1>3, <2>3
    <2> QED BY <2>2, <2>3
  <1> QED BY <1>9, <1>10

\* write_block keeps the invariant.
LEMMA StaysWriteBlock ==
  ASSUME CommitInv, write_block
  PROVE  CommitInv'
  <1> DEFINE p == writing
             page == Last(core[committer][p])
             Dropped == UNION {Swapped(c, p) : c \in Clients}
  <1>1. /\ UNCHANGED <<tdata, tjc>> /\ UNCHANGED tranVars
        /\ UNCHANGED <<stage, committer, core_tjc, tjc_all>> /\ UNCHANGED startVars
        /\ UNCHANGED <<written, committed>>
        /\ mode = "up" /\ writing # NoPage /\ writing' = NoPage
        /\ disk' = [disk EXCEPT ![p] = page]
        /\ core' = [c \in Clients |-> [core[c] EXCEPT ![p] =
                       IF c = committer THEN Front(@) ELSE MergedFrames(c, p)]]
        /\ swapdadr' = [c \in Clients |-> [swapdadr[c] EXCEPT ![p] = NoBlock]]
        /\ free_swap_blocks(Dropped)
        /\ shared' = UpdatedShared(p, page)
        /\ todo' = todo \ {p}
    BY DEF write_block, Me
  <1>2. /\ p \in Pages /\ stage = "write" /\ committer \in Clients
        /\ core[committer][p] # << >> /\ ~failed[committer]
        /\ trans[committer] \in 1 .. MaxTrans
    BY <1>1, CommitterIsClient DEF CommitInv, Types, CommitTypes, Control, WritingInv
  <1>3. /\ Front(core[committer][p]) = << >>
        /\ page \in SUBSET Changes
    <2>1. core[committer][p] \in Seq(SUBSET Changes) /\ Front(core[committer][p]) = << >>
      BY <1>2, CommitterFrames
    <2> QED BY <1>2, <2>1, FrameCounts
  <1>4. << >> \in Seq(SUBSET Changes) /\ Len(<< >>) = 0
    OBVIOUS
  <1> HIDE DEF page, p
  <1> DEFINE New(c) == IF c = committer THEN << >> ELSE MergedFrames(c, p)
  <1>5. \A c \in Clients : New(c) \in Seq(SUBSET Changes)
    BY <1>2, <1>4, MergedCounts
  <1>6. core' = [c \in Clients |-> [core[c] EXCEPT ![p] = New(c)]]
    BY <1>1, <1>3
  <1> HIDE DEF New
  <1>7. core' \in [Clients -> [Pages -> Seq(SUBSET Changes)]]
    BY <1>5, <1>6 DEF CommitInv, Types, CopyTypes
  <1>8. \A d \in Clients, q \in Pages : core'[d][q] = IF q = p THEN New(d) ELSE core[d][q]
    BY <1>6 DEF CommitInv, Types, CopyTypes
  <1>9. /\ swapdadr' \in SwapTable
        /\ \A d \in Clients, q \in Pages :
              swapdadr'[d][q] = IF q = p THEN NoBlock ELSE swapdadr[d][q]
    BY <1>1 DEF CommitInv, Types, CopyTypes, SwapTable
  <1>10. /\ Dropped \in SUBSET SwapBlocks
         /\ \A b \in SwapBlocks : b \in Dropped <=> \E c \in Clients : swapdadr[c][p] = b
    <2>1. \A c \in Clients : swapdadr[c][p] \in SwapBlocks \cup {NoBlock}
      BY <1>2 DEF CommitInv, Types, CopyTypes, SwapTable
    <2> QED BY <2>1, BlockFacts DEF Swapped
  <1> HIDE DEF Dropped
  <1>11. MapTypes' /\ alloc_map' = alloc_map \ Dropped /\ UNCHANGED tjc_init_limit
    BY <1>1, <1>10, FreeSwaps DEF CommitInv, Types
  <1>12. SwapSpaceExact'
    <2> DEFINE D == [d \in Clients |-> {p}]
    <2>1. /\ D \in [Clients -> SUBSET Pages]
          /\ \A d \in Clients, q \in Pages : q \in D[d] <=> q = p
      BY <1>2
    <2> HIDE DEF D
    <2>2. SwapsDropped(D)
      BY <1>9, <2>1 DEF SwapsDropped
    <2>3. SwapsOf(D, Dropped)
      BY <1>2, <1>10, <2>1 DEF SwapsOf
    <2> QED BY <1>11, <2>1, <2>2, <2>3, DropSwaps DEF CommitInv, Types
  <1>13. \A q \in SystemPages : shared'[q] = IF q = p THEN page ELSE shared[q]
    BY <1>1 DEF UpdatedShared
  <1>14. Types'
    <2>1. shared' \in [SystemPages -> (SUBSET Changes) \cup {NotCached}]
      BY <1>1, <1>3 DEF UpdatedShared, CommitInv, Types, CopyTypes
    <2>2. CopyTypes'
      BY <1>7, <1>9, <2>1 DEF CopyTypes
    <2>3. FileTypes'
      BY <1>1, <1>3 DEF CommitInv, Types, FileTypes
    <2>4. CommitTypes'
      BY <1>1 DEF CommitInv, Types, CommitTypes
    <2> QED BY <1>1, <1>11, <2>2, <2>3, <2>4, KeptTypes DEF CommitInv, Types
  <1>15. Control'
    BY <1>1 DEF CommitInv, Control, tranVars, startVars
  <1>16. WritingInv'
    BY <1>1 DEF WritingInv
  <1>17. Frames'
    <2> SUFFICES ASSUME NEW d \in Clients, NEW q \in Pages PROVE PageFrames(d, q)'
      BY DEF Frames
    <2>1. PageFrames(d, q)
      BY DEF CommitInv, Frames
    <2>2. CASE q = p /\ d = committer
      <3>1. core'[d][q] = << >> /\ swapdadr'[d][q] = NoBlock
        BY <1>8, <1>9, <2>2 DEF New
      <3> QED BY <1>4, <3>1, Zenon DEF PageFrames
    <2>3. CASE q = p /\ d # committer
      <3>1. core'[d][q] = MergedFrames(d, p) /\ swapdadr'[d][q] = NoBlock
        BY <1>8, <1>9, <2>3 DEF New
      <3>2. Len(MergedFrames(d, p)) = IF swapdadr[d][p] = NoBlock THEN Len(core[d][p])
                                      ELSE 1 + Len(core[d][p])
        BY <1>2, MergedCounts
      <3>3. CASE swapdadr[d][p] = NoBlock
        BY <1>1, <2>1, <2>3, <3>1, <3>2, <3>3 DEF PageFrames, tranVars
      <3>4. CASE swapdadr[d][p] # NoBlock /\ Len(core[d][p]) = 0
        BY <3>1, <3>2, <3>4 DEF PageFrames
      <3>5. CASE swapdadr[d][p] # NoBlock /\ Len(core[d][p]) = 1
        <4>1. Len(MergedFrames(d, p)) = 2
          BY <3>2, <3>5
        <4>2. core[d][p] # << >>
          BY <3>5
        <4>3. failed'[d] /\ p \in log'[d]
          BY <1>1, <2>1, <2>3, <3>5, <4>2 DEF PageFrames, Doubled, tranVars
        <4> QED BY <2>3, <3>1, <4>1, <4>3 DEF PageFrames
      <3> QED BY <2>1, <2>3, <3>3, <3>4, <3>5 DEF PageFrames
    <2>4. CASE q # p
      BY <1>1, <1>8, <1>9, <2>1, <2>4 DEF PageFrames, Doubled, tranVars
    <2> QED BY <2>2, <2>3, <2>4
  <1>18. LeaderInv'
    BY <1>1, <1>11, LeaderFrame DEF CommitInv, startVars
  <1>19. SharedCurrent'
    <2>1. \A q \in SystemPages : disk'[q] = IF q = p THEN page ELSE disk[q]
      BY <1>1, CommitConstants DEF CommitInv, Types, FileTypes
    <2> QED BY <1>1, <1>13, <2>1 DEF CommitInv, SharedCurrent, startVars
  <1> QED BY <1>12, <1>14, <1>15, <1>16, <1>17, <1>18, <1>19 DEF CommitInv

\* The blocks left after a TJC block is invalidated.
LEMMA Invalidated ==
  ASSUME FileTypes, NEW b \in TjcBlocks, tjc' = invalidate_tjc_block(b)
  PROVE  tjc' \in [TjcBlocks -> Journals] /\ Leaders' = Leaders \ {b}
  <1>1. tjc[b] \in Journals
    BY DEF FileTypes
  <1>2. /\ [tjc[b] EXCEPT !.tag = "TJC_INVALID"] \in Journals
        /\ [tjc[b] EXCEPT !.tag = "TJC_INVALID"].tag = "TJC_INVALID"
    BY <1>1 DEF Journals, Tags
  <1>3. tjc' = [tjc EXCEPT ![b] = [tjc[b] EXCEPT !.tag = "TJC_INVALID"]]
    BY DEF invalidate_tjc_block
  <1> DEFINE j == [tjc[b] EXCEPT !.tag = "TJC_INVALID"]
  <1> HIDE DEF j
  <1>4. tjc' = [tjc EXCEPT ![b] = j] /\ j \in Journals /\ j.tag # "VALID_TJC_LEADER"
    BY <1>2, <1>3 DEF j
  <1>5. tjc' \in [TjcBlocks -> Journals] /\ \A x \in TjcBlocks : tjc'[x] = IF x = b THEN j ELSE tjc[x]
    BY <1>4 DEF FileTypes
  <1> QED BY <1>4, <1>5 DEF Leaders

\* end_of_commit keeps the invariant.
LEMMA StaysEndOfCommit ==
  ASSUME CommitInv, end_of_commit
  PROVE  CommitInv'
  <1> DEFINE freed == {tjc_all[i] : i \in DOMAIN tjc_all}
  <1>1. /\ UNCHANGED <<disk, tdata, srch_start, tjc_init_limit>> /\ UNCHANGED copyVars
        /\ UNCHANGED <<failed, todo, writing>> /\ UNCHANGED startVars
        /\ UNCHANGED <<written, committed>>
        /\ mode = "up" /\ stage = "write" /\ todo = {}
        /\ tjc' = IF tjc_all = << >> THEN tjc ELSE invalidate_tjc_block(Last(tjc_all))
        /\ alloc_map' = alloc_map \ freed
        /\ log' = [log EXCEPT ![committer] = {}]
        /\ trans' = [trans EXCEPT ![committer] = @ + 1]
        /\ stage' = "idle" /\ committer' = NoClient
        /\ core_tjc' = {} /\ tjc_all' = << >>
    BY DEF end_of_commit, Me
  <1>2. /\ committer \in Clients /\ committer # NoClient /\ ~failed[committer]
        /\ trans[committer] \in 1 .. MaxTrans
        /\ tjc_all # << >> /\ writing = NoPage
    BY <1>1, CommitterIsClient DEF CommitInv, Types, Control, LeaderInv, LeaderSafe, WritingInv
  <1>3. freed \subseteq TjcBlocks
    BY DEF CommitInv, Types, CommitTypes
  <1> HIDE DEF freed
  <1>4. Last(tjc_all) \in TjcBlocks
    BY <1>2, LastIsBlock DEF CommitInv, Types
  <1>5. tjc' \in [TjcBlocks -> Journals] /\ Leaders' = Leaders \ {Last(tjc_all)}
    BY <1>1, <1>2, <1>4, Invalidated DEF CommitInv, Types
  <1>6. /\ TranTypes'
        /\ \A d \in Clients : /\ log'[d] = IF d = committer THEN {} ELSE log[d]
                              /\ trans'[d] = IF d = committer THEN trans[committer] + 1 ELSE trans[d]
    BY <1>1, <1>2, CommitConstants DEF CommitInv, Types, TranTypes
  <1>7. Types'
    <2>1. CommitTypes'
      BY <1>1, <1>2, IdleCommit
    <2>2. FileTypes'
      BY <1>1, <1>5 DEF CommitInv, Types, FileTypes
    <2>3. MapTypes'
      BY <1>1 DEF CommitInv, Types, MapTypes
    <2> QED BY <1>1, <1>6, <2>1, <2>2, <2>3, KeptTypes DEF CommitInv, Types
  <1>8. Control'
    BY <1>1, <1>2, <1>6, CommitConstants DEF CommitInv, Control, startVars, copyVars
  <1>9. WritingInv'
    BY <1>1, <1>2 DEF WritingInv
  <1>10. Frames'
    BY <1>1, <1>2, <1>6 DEF CommitInv, Frames, PageFrames, Doubled, copyVars
  <1>11. SwapSpaceExact'
    BY <1>1, <1>3, BlockFacts DEF CommitInv, SwapSpaceExact, copyVars
  <1>12. LeaderInv'
    <2>1. Leaders' = {}
      BY <1>1, <1>2, <1>5 DEF CommitInv, LeaderInv, OneLeader
    <2> QED BY <1>1, <2>1 DEF CommitInv, LeaderInv, OneLeader, LeaderSafe, LeadersAhead, startVars
  <1>13. SharedCurrent'
    BY <1>1 DEF CommitInv, SharedCurrent, copyVars, startVars
  <1> QED BY <1>7, <1>8, <1>9, <1>10, <1>11, <1>12, <1>13 DEF CommitInv

\* A crash keeps the invariant.
LEMMA StaysCrash ==
  ASSUME CommitInv, crash
  PROVE  CommitInv'
  <1>1. /\ UNCHANGED fileVars /\ UNCHANGED <<written, committed>>
        /\ crashes < MaxCrashes /\ crashes' = crashes + 1 /\ mode' = "init"
        /\ alloc_map' = {} /\ srch_start' = 0 /\ tjc_init_limit' = 0
        /\ core' = NoCopies /\ swapdadr' = NoSwaps /\ shared' = NothingCached
        /\ log' = [c \in Clients |-> {}]
        /\ failed' = [c \in Clients |-> FALSE]
        /\ trans' = [c \in Clients |->
               IF log[c] # {} /\ trans[c] <= MaxTrans THEN trans[c] + 1 ELSE trans[c]]
        /\ stage' = "idle" /\ committer' = NoClient
        /\ todo' = {} /\ core_tjc' = {} /\ tjc_all' = << >> /\ writing' = NoPage
        /\ tjc_block' = 0 /\ chain' = NoBlock
    BY DEF crash
  <1>2. Types'
    <2>1. CellSize * Cells \in Nat
      BY BlockFacts DEF Length
    <2>2. MapTypes'
      BY <1>1, <2>1 DEF MapTypes
    <2>3. CopyTypes'
      BY <1>1, EmptyTables, Zenon DEF CopyTypes
    <2>4. TranTypes'
      BY <1>1, CommitConstants DEF CommitInv, Types, TranTypes
    <2>5. CommitTypes'
      BY <1>1, IdleCommit
    <2>6. StartTypes'
      BY <1>1, FirstJournal, CommitConstants DEF CommitInv, Types, StartTypes
    <2> QED BY <1>1, <2>2, <2>3, <2>4, <2>5, <2>6, KeptTypes DEF CommitInv, Types
  <1>3. Control'
    BY <1>1, CommitConstants DEF Control
  <1>4. WritingInv'
    BY <1>1 DEF WritingInv
  <1>5. Frames'
    BY <1>1, EmptyTables, Zenon DEF Frames, PageFrames
  <1>6. SwapSpaceExact'
    BY <1>1, EmptyTables, ExactSpace
  <1>7. LeaderInv'
    <2>1. \A b \in TjcBlocks : b >= 0
      BY BlockFacts
    <2> QED BY <1>1, <2>1 DEF LeaderInv, OneLeader, LeaderSafe, LeadersAhead, Leaders
  <1>8. SharedCurrent'
    BY <1>1 DEF SharedCurrent
  <1> QED BY <1>2, <1>3, <1>4, <1>5, <1>6, <1>7, <1>8 DEF CommitInv

\* The TJC block after a TJC block, or the end of the file.
LEMMA JournalStep ==
  ASSUME NEW b \in TjcBlocks
  PROVE  /\ b + CellSize \in TjcBlocks \cup {CellSize * Cells}
         /\ \A x \in TjcBlocks : x >= b /\ x # b => x >= b + CellSize
  <1>1. PICK k \in 0 .. Cells - 1 : b = CellSize * k
    BY DEF TjcBlocks
  <1>2. b + CellSize = CellSize * (k + 1) /\ k + 1 \in 0 .. Cells
    BY <1>1, CommitConstants
  <1>3. b + CellSize \in TjcBlocks \cup {CellSize * Cells}
    <2>1. CASE k + 1 = Cells
      BY <1>2, <2>1
    <2>2. CASE k + 1 # Cells
      <3>1. k + 1 \in 0 .. Cells - 1
        BY <1>1, <2>2, CommitConstants
      <3> QED BY <1>2, <3>1 DEF TjcBlocks
    <2> QED BY <2>1, <2>2
  <1>4. ASSUME NEW x \in TjcBlocks, x >= b, x # b PROVE x >= b + CellSize
    <2>1. PICK m \in 0 .. Cells - 1 : x = CellSize * m
      BY DEF TjcBlocks
    <2>2. m >= k + 1
      BY <1>1, <1>4, <2>1, CommitConstants
    <2>3. CellSize * m >= CellSize * (k + 1)
      BY <1>1, <2>1, <2>2, CommitConstants
    <2> QED BY <1>2, <2>1, <2>3
  <1> QED BY <1>3, <1>4

\* While the server starts, no client has anything and no commit runs.
LEMMA StartKeeps ==
  ASSUME CommitInv, mode # "up", UNCHANGED mapVars, UNCHANGED <<core, swapdadr>>,
         UNCHANGED tranVars, UNCHANGED <<stage, committer, core_tjc, tjc_all, writing>>,
         UNCHANGED <<written, committed>>, FileTypes', StartTypes', todo' \subseteq Pages,
         shared' \in [SystemPages -> (SUBSET Changes) \cup {NotCached}]
  PROVE  /\ Types' /\ Control' /\ WritingInv' /\ Frames' /\ SwapSpaceExact'
         /\ stage' = "idle" /\ stage = "idle"
  <1>1. stage = "idle"
    BY DEF CommitInv, Control
  <1>2. Types'
    <2>1. CopyTypes'
      BY DEF CommitInv, Types, CopyTypes
    <2>2. CommitTypes'
      BY DEF CommitInv, Types, CommitTypes
    <2> QED BY <2>1, <2>2, KeptTypes DEF CommitInv, Types
  <1>3. Control'
    BY <1>1 DEF CommitInv, Control, tranVars, mapVars
  <1>4. WritingInv'
    BY <1>1 DEF CommitInv, WritingInv
  <1>5. Frames'
    BY <1>1 DEF CommitInv, Frames, PageFrames, Doubled, tranVars
  <1>6. SwapSpaceExact'
    BY ExactSpace DEF CommitInv, mapVars
  <1> QED BY <1>1, <1>2, <1>3, <1>4, <1>5, <1>6

\* init_tables keeps the invariant.
LEMMA StaysInitTables ==
  ASSUME CommitInv, init_tables
  PROVE  CommitInv'
  <1>1. /\ UNCHANGED fileVars /\ UNCHANGED mapVars /\ UNCHANGED <<core, swapdadr>>
        /\ UNCHANGED tranVars /\ UNCHANGED commitVars
        /\ UNCHANGED <<tjc_block, chain, crashes>> /\ UNCHANGED <<written, committed>>
        /\ mode = "init" /\ mode' = "restoring"
    BY DEF init_tables
  <1>2. PICK S \in SUBSET SystemPages :
            shared' = [p \in SystemPages |-> IF p \in S THEN disk[p] ELSE NotCached]
    BY DEF init_tables
  <1>3. \A p \in SystemPages : disk[p] \in SUBSET Changes
    BY CommitConstants DEF CommitInv, Types, FileTypes
  <1>4. shared' \in [SystemPages -> (SUBSET Changes) \cup {NotCached}]
    BY <1>2, <1>3
  <1>5. FileTypes' /\ StartTypes' /\ todo' \subseteq Pages
    BY <1>1, KeptTypes DEF CommitInv, Types, StartTypes, CommitTypes, commitVars
  <1>6. Types' /\ Control' /\ WritingInv' /\ Frames' /\ SwapSpaceExact' /\ stage' = "idle"
    BY <1>1, <1>4, <1>5, StartKeeps DEF commitVars
  <1>7. LeaderInv'
    BY <1>1, <1>6 DEF CommitInv, LeaderInv, OneLeader, LeaderSafe, LeadersAhead, Leaders, fileVars
  <1>8. SharedCurrent'
    BY <1>1 DEF SharedCurrent
  <1> QED BY <1>6, <1>7, <1>8 DEF CommitInv

\* The pages of a TJC block.
LEMMA JournalPages ==
  ASSUME FileTypes, NEW b \in TjcBlocks
  PROVE  /\ PagesOf(tjc[b]) \subseteq Pages
         /\ \A pair \in tjc[b].pairs : pair[1] \in Pages /\ pair[2] \in SwapBlocks
                                       /\ tdata[pair[2]] \in SUBSET Changes
  <1>1. tjc[b].pairs \subseteq Pages \X SwapBlocks
    BY DEF FileTypes, Journals, Pairs
  <1>2. \A pair \in tjc[b].pairs : pair[1] \in Pages /\ pair[2] \in SwapBlocks
    BY <1>1
  <1> QED BY <1>2 DEF PagesOf, FileTypes

\* restoring_actions goes to the next TJC block.
LEMMA JournalPassed ==
  ASSUME CommitInv, NextJournal, tjc_block \in TjcBlocks, mode = "restoring",
         UNCHANGED <<mode, stage, tjc_all, tjc_init_limit>>, Leaders' \subseteq Leaders \ {tjc_block}
  PROVE  LeaderInv' /\ tjc_block' \in TjcBlocks \cup {CellSize * Cells}
         /\ chain' = NoBlock /\ todo' = {}
  <1>1. tjc_block' = tjc_block + CellSize /\ chain' = NoBlock /\ todo' = {}
    BY DEF NextJournal
  <1>2. \A b \in Leaders : b \in TjcBlocks /\ b >= tjc_block
    BY DEF CommitInv, LeaderInv, LeadersAhead, Leaders
  <1>3. stage = "idle"
    BY DEF CommitInv, Control
  <1>4. \A b \in Leaders' : b >= tjc_block'
    <2> SUFFICES ASSUME NEW b \in Leaders' PROVE b >= tjc_block'
      OBVIOUS
    <2> HIDE DEF Leaders
    <2>1. b \in TjcBlocks /\ b >= tjc_block /\ b # tjc_block
      BY <1>2
    <2>2. b >= tjc_block + CellSize
      BY <2>1, JournalStep
    <2> QED BY <1>1, <2>2
  <1>5. tjc_block' \in TjcBlocks \cup {CellSize * Cells}
    BY <1>1, JournalStep
  <1> QED BY <1>1, <1>3, <1>4, <1>5 DEF LeaderInv, OneLeader, LeaderSafe, LeadersAhead

\* load_tjc keeps the invariant.
LEMMA StaysLoadTjc ==
  ASSUME CommitInv, load_tjc
  PROVE  CommitInv'
  <1>1. /\ UNCHANGED fileVars /\ UNCHANGED mapVars /\ UNCHANGED copyVars
        /\ UNCHANGED tranVars /\ UNCHANGED <<stage, committer, core_tjc, tjc_all, writing>>
        /\ UNCHANGED <<mode, crashes>> /\ UNCHANGED <<written, committed>>
        /\ mode = "restoring" /\ chain = NoBlock /\ tjc_block \in TjcBlocks
        /\ IF tjc[tjc_block].tag = "VALID_TJC_LEADER"
           THEN /\ chain' = tjc_block
                /\ todo' = PagesOf(tjc[tjc_block])
                /\ UNCHANGED tjc_block
           ELSE NextJournal
    BY DEF load_tjc, Restores
  <1>2. /\ LeaderInv' /\ todo' \subseteq Pages
        /\ tjc_block' \in TjcBlocks \cup {CellSize * Cells} /\ chain' \in TjcBlocks \cup {NoBlock}
    <2>1. CASE tjc[tjc_block].tag = "VALID_TJC_LEADER"
      <3>1. PagesOf(tjc[tjc_block]) \subseteq Pages
        BY <1>1, JournalPages DEF CommitInv, Types
      <3>2. LeaderInv'
        BY <1>1, <2>1 DEF CommitInv, LeaderInv, OneLeader, LeaderSafe, LeadersAhead, Leaders,
                          fileVars, mapVars
      <3> QED BY <1>1, <2>1, <3>1, <3>2 DEF CommitInv, Types, StartTypes
    <2>2. CASE tjc[tjc_block].tag # "VALID_TJC_LEADER"
      <3>1. Leaders' \subseteq Leaders \ {tjc_block}
        BY <1>1, <2>2 DEF Leaders, fileVars
      <3>2. /\ LeaderInv' /\ tjc_block' \in TjcBlocks \cup {CellSize * Cells}
            /\ chain' = NoBlock /\ todo' = {}
        BY <1>1, <2>2, <3>1, JournalPassed DEF mapVars
      <3> QED BY <3>2
    <2> QED BY <2>1, <2>2
  <1>3. FileTypes' /\ StartTypes'
    BY <1>1, <1>2, KeptTypes DEF CommitInv, Types, StartTypes
  <1>4. shared' \in [SystemPages -> (SUBSET Changes) \cup {NotCached}]
    BY <1>1 DEF CommitInv, Types, CopyTypes, copyVars
  <1>5. Types' /\ Control' /\ WritingInv' /\ Frames' /\ SwapSpaceExact'
    BY <1>1, <1>2, <1>3, <1>4, StartKeeps DEF copyVars
  <1>6. SharedCurrent'
    BY <1>1 DEF SharedCurrent
  <1> QED BY <1>2, <1>5, <1>6 DEF CommitInv

\* restore_pair keeps the invariant.
LEMMA StaysRestorePair ==
  ASSUME CommitInv, restore_pair
  PROVE  CommitInv'
  <1>1. /\ UNCHANGED <<tdata, tjc>> /\ UNCHANGED mapVars /\ UNCHANGED copyVars
        /\ UNCHANGED tranVars /\ UNCHANGED <<stage, committer, core_tjc, tjc_all, writing>>
        /\ UNCHANGED startVars /\ UNCHANGED <<written, committed>>
        /\ mode = "restoring" /\ chain # NoBlock
    BY DEF restore_pair, Restores
  <1>2. PICK pair \in tjc[chain].pairs :
          /\ disk' = [disk EXCEPT ![pair[1]] = tdata[pair[2]]]
          /\ todo' = todo \ {pair[1]}
    BY DEF restore_pair
  <1>3. chain \in TjcBlocks
    BY <1>1 DEF CommitInv, Types, StartTypes
  <1>4. pair[1] \in Pages /\ tdata[pair[2]] \in SUBSET Changes
    BY <1>3, JournalPages DEF CommitInv, Types
  <1>5. FileTypes' /\ StartTypes' /\ todo' \subseteq Pages
    <2>1. FileTypes'
      BY <1>1, <1>2, <1>4 DEF CommitInv, Types, FileTypes
    <2>2. todo' \subseteq Pages
      BY <1>2 DEF CommitInv, Types, CommitTypes
    <2> QED BY <1>1, <2>1, <2>2, KeptTypes DEF CommitInv, Types
  <1>6. shared' \in [SystemPages -> (SUBSET Changes) \cup {NotCached}]
    BY <1>1 DEF CommitInv, Types, CopyTypes, copyVars
  <1>7. Types' /\ Control' /\ WritingInv' /\ Frames' /\ SwapSpaceExact'
    BY <1>1, <1>5, <1>6, StartKeeps DEF copyVars
  <1>8. LeaderInv'
    BY <1>1, LeaderFrame DEF CommitInv, mapVars, startVars
  <1>9. SharedCurrent'
    BY <1>1 DEF SharedCurrent, startVars
  <1> QED BY <1>7, <1>8, <1>9 DEF CommitInv

\* follow_chain keeps the invariant.
LEMMA StaysFollowChain ==
  ASSUME CommitInv, follow_chain
  PROVE  CommitInv'
  <1>1. /\ UNCHANGED fileVars /\ UNCHANGED mapVars /\ UNCHANGED copyVars
        /\ UNCHANGED tranVars /\ UNCHANGED <<stage, committer, core_tjc, tjc_all, writing>>
        /\ UNCHANGED <<mode, tjc_block, crashes>> /\ UNCHANGED <<written, committed>>
        /\ mode = "restoring" /\ chain # NoBlock /\ Dependent(tjc[chain].link)
        /\ chain' = tjc[chain].link /\ todo' = PagesOf(tjc[chain'])
    BY DEF follow_chain, Restores
  <1>2. chain \in TjcBlocks /\ tjc_block \in TjcBlocks
    BY <1>1 DEF CommitInv, Types, StartTypes, LeaderInv
  <1>3. tjc[chain].link \in TjcBlocks \cup {NoBlock}
    BY <1>2 DEF CommitInv, Types, FileTypes, Journals
  <1>4. chain' \in TjcBlocks
    BY <1>1, <1>3 DEF Dependent
  <1>5. FileTypes' /\ StartTypes' /\ todo' \subseteq Pages
    <2>1. PagesOf(tjc[chain']) \subseteq Pages
      BY <1>4, JournalPages DEF CommitInv, Types
    <2>2. StartTypes'
      BY <1>1, <1>4 DEF CommitInv, Types, StartTypes
    <2> QED BY <1>1, <2>1, <2>2, KeptTypes DEF CommitInv, Types
  <1>6. shared' \in [SystemPages -> (SUBSET Changes) \cup {NotCached}]
    BY <1>1 DEF CommitInv, Types, CopyTypes, copyVars
  <1>7. Types' /\ Control' /\ WritingInv' /\ Frames' /\ SwapSpaceExact'
    BY <1>1, <1>5, <1>6, StartKeeps DEF copyVars
  <1>8. LeaderInv'
    BY <1>1, <1>2 DEF CommitInv, LeaderInv, OneLeader, LeaderSafe, LeadersAhead, Leaders,
                      fileVars, mapVars
  <1>9. SharedCurrent'
    BY <1>1 DEF SharedCurrent
  <1> QED BY <1>7, <1>8, <1>9 DEF CommitInv

\* transaction_restored keeps the invariant.
LEMMA StaysTransactionRestored ==
  ASSUME CommitInv, transaction_restored
  PROVE  CommitInv'
  <1>1. /\ UNCHANGED <<disk, tdata>> /\ UNCHANGED mapVars /\ UNCHANGED copyVars
        /\ UNCHANGED tranVars /\ UNCHANGED <<stage, committer, core_tjc, tjc_all, writing>>
        /\ UNCHANGED <<mode, crashes>> /\ UNCHANGED <<written, committed>>
        /\ mode = "restoring" /\ chain # NoBlock
        /\ tjc' = invalidate_tjc_block(tjc_block) /\ NextJournal
    BY DEF transaction_restored, Restores
  <1>2. tjc_block \in TjcBlocks
    BY <1>1 DEF CommitInv, LeaderInv
  <1>3. tjc' \in [TjcBlocks -> Journals] /\ Leaders' = Leaders \ {tjc_block}
    BY <1>1, <1>2, Invalidated DEF CommitInv, Types
  <1>4. /\ LeaderInv' /\ tjc_block' \in TjcBlocks \cup {CellSize * Cells}
        /\ chain' = NoBlock /\ todo' = {}
    <2> HIDE DEF Leaders
    <2> QED BY <1>1, <1>2, <1>3, JournalPassed DEF mapVars
  <1>5. FileTypes' /\ StartTypes' /\ todo' \subseteq Pages
    <2>1. FileTypes'
      BY <1>1, <1>3 DEF CommitInv, Types, FileTypes
    <2>2. StartTypes'
      BY <1>1, <1>4 DEF CommitInv, Types, StartTypes
    <2> QED BY <1>4, <2>1, <2>2
  <1>6. shared' \in [SystemPages -> (SUBSET Changes) \cup {NotCached}]
    BY <1>1 DEF CommitInv, Types, CopyTypes, copyVars
  <1>7. Types' /\ Control' /\ WritingInv' /\ Frames' /\ SwapSpaceExact'
    BY <1>1, <1>5, <1>6, StartKeeps DEF copyVars
  <1>8. SharedCurrent'
    BY <1>1 DEF SharedCurrent
  <1> QED BY <1>4, <1>7, <1>8 DEF CommitInv

\* end_of_restoring keeps the invariant.
LEMMA StaysEndOfRestoring ==
  ASSUME CommitInv, end_of_restoring
  PROVE  CommitInv'
  <1>1. /\ UNCHANGED fileVars /\ UNCHANGED mapVars /\ UNCHANGED <<core, swapdadr>>
        /\ UNCHANGED tranVars /\ UNCHANGED commitVars
        /\ UNCHANGED <<chain, crashes>> /\ UNCHANGED <<written, committed>>
        /\ mode = "restoring" /\ chain = NoBlock /\ tjc_block \notin TjcBlocks
        /\ mode' = "up" /\ tjc_block' = 0 /\ shared' = NothingCached
    BY DEF end_of_restoring, Restores, ResetFrames
  <1>2. FileTypes' /\ StartTypes' /\ todo' \subseteq Pages
    <2>1. StartTypes'
      BY <1>1, FirstJournal DEF CommitInv, Types, StartTypes
    <2> QED BY <1>1, <2>1, KeptTypes DEF CommitInv, Types, CommitTypes, commitVars
  <1>3. shared' \in [SystemPages -> (SUBSET Changes) \cup {NotCached}]
    BY <1>1, EmptyTables
  <1>4. /\ Types' /\ Control' /\ WritingInv' /\ Frames' /\ SwapSpaceExact'
        /\ stage' = "idle" /\ stage = "idle"
    BY <1>1, <1>2, <1>3, StartKeeps DEF commitVars
  <1>5. LeaderInv'
    <2>1. tjc_block = Length
      BY <1>1 DEF CommitInv, Types, StartTypes, Length
    <2>2. \A b \in TjcBlocks : b < Length /\ b \in Int
      BY BlockFacts
    <2>3. Leaders = {}
      <3> SUFFICES ASSUME NEW b \in Leaders PROVE FALSE
        OBVIOUS
      <3>1. b \in TjcBlocks /\ b >= tjc_block
        BY <1>1 DEF CommitInv, LeaderInv, LeadersAhead, Leaders
      <3>2. Length \in Nat
        BY BlockFacts
      <3> HIDE DEF Leaders, Length
      <3> QED BY <2>1, <2>2, <3>1, <3>2
    <2>4. Leaders' = {}
      BY <1>1, <2>3 DEF Leaders, fileVars
    <2> QED BY <1>1, <1>4, <2>4 DEF LeaderInv, OneLeader, LeaderSafe, LeadersAhead
  <1>6. SharedCurrent'
    BY <1>1, EmptyTables DEF SharedCurrent
  <1> QED BY <1>4, <1>5, <1>6 DEF CommitInv

\* A step that changes nothing.
LEMMA StaysStutter ==
  ASSUME CommitInv, UNCHANGED vars
  PROVE  CommitInv'
  <1>1. /\ UNCHANGED fileVars /\ UNCHANGED mapVars /\ UNCHANGED copyVars
        /\ UNCHANGED tranVars /\ UNCHANGED commitVars /\ UNCHANGED startVars
        /\ UNCHANGED <<written, committed>>
    BY DEF vars
  <1>2. Types'
    BY <1>1, KeptTypes DEF CommitInv, Types
  <1>3. Control' /\ WritingInv'
    BY <1>1 DEF CommitInv, Control, WritingInv, HasChanged, MyChange, commitVars, startVars,
               tranVars, mapVars, copyVars
  <1>4. Frames'
    BY <1>1 DEF CommitInv, Frames, PageFrames, Doubled, commitVars, tranVars, copyVars
  <1>5. SwapSpaceExact'
    BY <1>1, ExactSpace DEF CommitInv, mapVars, copyVars
  <1>6. LeaderInv'
    BY <1>1, LeaderFrame DEF CommitInv, fileVars, mapVars, commitVars, startVars
  <1>7. SharedCurrent'
    BY <1>1 DEF CommitInv, SharedCurrent, fileVars, startVars, copyVars
  <1> QED BY <1>2, <1>3, <1>4, <1>5, <1>6, <1>7 DEF CommitInv

\* Every step of the server keeps the invariant.
LEMMA CommitInvStays == CommitInv /\ [Next]_vars => CommitInv'
  <1> SUFFICES ASSUME CommitInv, [Next]_vars PROVE CommitInv'
    OBVIOUS
  <1>1. ASSUME NEW c \in Clients, work(c) PROVE CommitInv'
    <2>1. ASSUME NEW p \in Pages, fix_priv_page(c, p) \/ unswap_block(c, p)
                                  \/ page_changed(c, p) \/ get_frame(c, p)
          PROVE  CommitInv'
      BY <2>1, StaysFixPriv, StaysUnswap, StaysPageChanged, StaysGetFrame
    <2> QED BY <1>1, <2>1, StaysRollBack, StaysCommit DEF work
  <1>2. ASSUME NEW p \in SystemPages, fix_any_page(p) \/ get_shared_frame(p) PROVE CommitInv'
    BY <1>2, StaysShared
  <1>3. ASSUME commit_step PROVE CommitInv'
    <2>1. ASSUME NEW p \in Pages, make_swapped(p) \/ wr_nothing(p) \/ wr_changes(p)
          PROVE  CommitInv'
      BY <2>1, StaysMakeSwapped, StaysWrNothing, StaysWrChanges
    <2> QED BY <1>3, <2>1, StaysSaveDependent, StaysSaveLeader, StaysSaveTjcFails,
               StaysWriteBlock, StaysEndOfCommit DEF commit_step
  <1>4. ASSUME start PROVE CommitInv'
    BY <1>4, StaysInitTables, StaysLoadTjc, StaysRestorePair, StaysFollowChain,
       StaysTransactionRestored, StaysEndOfRestoring DEF start, restoring_actions
  <1>5. ASSUME finish \/ UNCHANGED vars PROVE CommitInv'
    BY <1>5, StaysStutter DEF finish
  <1> QED BY <1>1, <1>2, <1>3, <1>4, <1>5, StaysCrash DEF Next

\* The invariant of private pages, of the journal and of the start holds in
\* every state, for any clients, pages and file, any crashes and failed writes.
THEOREM CommitInvariance == Spec => []CommitInv
  BY InitCommitInv, CommitInvStays, PTL DEF Spec

\* The variables keep their types, in particular all block numbers lie in the
\* transaction file and a client has at most two frames with a page.
THEOREM CommitTypeCorrect == Spec => []TypeOK
  BY CommitInvariance, InvTypeOK, PTL

\* get_swap_block, drop_swap, unswap_block and remove_changes keep the map of
\* the transaction file and the swapped copies in step: no block is lost and
\* none is used twice, over crashes and failed writes too.
THEOREM SwapSpaceIsExact == Spec => []SwapSpaceExact
  <1>1. CommitInv => SwapSpaceExact
    BY DEF CommitInv
  <1> QED BY <1>1, CommitInvariance, PTL

\* A running server has the leader of the commit that writes its pages and no
\* other: neither save_block nor a failed commit or restoring_actions leaves one.
THEOREM OneLeaderAtMost == Spec => []OneLeader
  <1>1. CommitInv => OneLeader
    BY DEF CommitInv, LeaderInv
  <1> QED BY <1>1, CommitInvariance, PTL

\* Shared copies in frames are what the file has, so what clients load from
\* them is, in spite of commits, of the pages read before restoring_actions.
THEOREM SharedIsCurrent == Spec => []SharedCurrent
  <1>1. CommitInv => SharedCurrent
    BY DEF CommitInv
  <1> QED BY <1>1, CommitInvariance, PTL

-----------------------------------------------------------------------------
(* Private copies are current *)

\* No client can have a failed commit while another one commits.
OneClient == \A c, d \in Clients : c = d
Undisturbed == "tjc" \notin MayFail \/ OneClient

HasCopy(c, p) == core[c][p] # << >> \/ swapdadr[c][p] # NoBlock
\* The commit of the client has written its page.
Done(c, p) == committer = c /\ stage = "write" /\ p \notin todo

\* The copy a client has of a page is current, and the client has a copy of
\* every page it has changed until the commit writes it.
CopyOK(c, p) ==
    /\ core[c][p] = << >> \/ core[c][p] = <<Current(c, p)>>
    /\ swapdadr[c][p] # NoBlock => tdata[swapdadr[c][p]] = Current(c, p)
    /\ HasCopy(c, p) => p \in log[c] /\ ~Done(c, p)
    /\ HasChanged(c, p) => /\ p \in log[c]
                           /\ HasCopy(c, p) \/ (Done(c, p) /\ MyChange(c, p) \in disk[p])
    /\ MyChange(c, p) \in disk[p] => Done(c, p)

\* All contents are made of changes of this and of earlier transactions.
OldChanges ==
    /\ \A p \in Pages : disk[p] \subseteq written
    /\ \A b \in SwapBlocks : tdata[b] \subseteq written
    /\ \A c \in Clients, p \in Pages : \A n \in 1 .. MaxTrans :
          <<p, c, n>> \in written => n <= trans[c]

CopyInv ==
    /\ "tjc" \notin MayFail => \A c \in Clients : ~failed[c]
    /\ OldChanges
    /\ \A c \in Clients, p \in Pages : CopyOK(c, p)

\* A client's copy of a page which a step leaves alone.
LEMMA CopyKept ==
  ASSUME NEW c \in Clients, NEW p \in Pages, CopyOK(c, p),
         core'[c][p] = core[c][p], swapdadr'[c][p] = swapdadr[c][p],
         swapdadr[c][p] # NoBlock => tdata'[swapdadr[c][p]] = tdata[swapdadr[c][p]],
         disk'[p] = disk[p], trans'[c] = trans[c], p \in log[c] => p \in log'[c],
         MyChange(c, p) \in written' <=> MyChange(c, p) \in written,
         Done(c, p)' <=> Done(c, p)
  PROVE  CopyOK(c, p)'
  <1>1. MyChange(c, p)' = MyChange(c, p)
    BY DEF MyChange
  <1>2. HasChanged(c, p)' <=> HasChanged(c, p)
    BY <1>1 DEF HasChanged
  <1>3. Current(c, p)' = Current(c, p)
    BY <1>1, <1>2 DEF Current
  <1>4. HasCopy(c, p)' <=> HasCopy(c, p)
    BY DEF HasCopy
  <1> QED BY <1>1, <1>2, <1>3, <1>4 DEF CopyOK

\* Blocks with swapped copies keep what they have when another one is saved.
LEMMA SwapsKept ==
  ASSUME SwapSpaceExact, CopyTypes, FileTypes, MapTypes, NEW x \in SUBSET Changes, save_block(x)
  PROVE  /\ \A c \in Clients, p \in Pages :
               swapdadr[c][p] # NoBlock => tdata'[swapdadr[c][p]] = tdata[swapdadr[c][p]]
         /\ tdata'[NewBlock] = x
         /\ \A b \in SwapBlocks : tdata'[b] = x \/ tdata'[b] = tdata[b]
  <1>1. NewBlock \in SwapBlocks \ alloc_map /\ tdata' = [tdata EXCEPT ![NewBlock] = x]
    BY SaveBlock
  <1> HIDE DEF NewBlock
  <1>2. \A b \in SwapBlocks : tdata'[b] = IF b = NewBlock THEN x ELSE tdata[b]
    BY <1>1 DEF FileTypes
  <1>3. ASSUME NEW c \in Clients, NEW p \in Pages, swapdadr[c][p] # NoBlock
        PROVE  tdata'[swapdadr[c][p]] = tdata[swapdadr[c][p]]
    <2>1. swapdadr[c][p] \in SwapBlocks
      BY <1>3 DEF CopyTypes, SwapTable
    <2>2. swapdadr[c][p] \in alloc_map
      BY <2>1 DEF SwapSpaceExact
    <2> QED BY <1>1, <1>2, <2>1, <2>2
  <1> QED BY <1>1, <1>2, <1>3

\* What a client would find in its copy has only changes that were made.
LEMMA CurrentIsOld ==
  ASSUME OldChanges, NEW c \in Clients, NEW p \in Pages
  PROVE  Current(c, p) \subseteq written
  BY DEF OldChanges, Current, HasChanged

\* In a new database file nobody has a copy.
LEMMA InitCopyInv == Init => CopyInv
  <1> SUFFICES ASSUME Init PROVE CopyInv
    OBVIOUS
  <1>1. OldChanges
    BY DEF Init, OldChanges
  <1>2. ASSUME NEW c \in Clients, NEW p \in Pages PROVE CopyOK(c, p)
    <2>1. core[c][p] = << >> /\ swapdadr[c][p] = NoBlock /\ disk[p] = {} /\ ~HasChanged(c, p)
      BY EmptyTables DEF Init, HasChanged
    <2> QED BY <2>1 DEF CopyOK, HasCopy
  <1>3. \A c \in Clients : ~failed[c]
    BY DEF Init
  <1> QED BY <1>1, <1>2, <1>3 DEF CopyInv

\* fix_priv_page keeps the copies current.
LEMMA CopyFixPriv ==
  ASSUME CommitInv, CopyInv, NEW c \in Clients, NEW p \in Pages, fix_priv_page(c, p)
  PROVE  CopyInv'
  <1>1. /\ UNCHANGED <<disk, tdata>> /\ UNCHANGED swapdadr
        /\ UNCHANGED <<trans, failed>> /\ UNCHANGED commitVars
        /\ UNCHANGED <<written, committed>>
        /\ core' = [core EXCEPT ![c][p] = <<Loaded(p)>>]
        /\ log' = [log EXCEPT ![c] = @ \cup {p}]
        /\ core[c][p] = << >> /\ swapdadr[c][p] = NoBlock
        /\ mode = "up" /\ committer # c
    BY DEF fix_priv_page, Works, fileVars
  <1>2. Loaded(p) \in SUBSET Changes
    BY DEF CommitInv, Types, FileTypes, CopyTypes, Loaded
  <1>3. <<Loaded(p)>> \in Seq(SUBSET Changes)
    BY <1>2
  <1>4. \A d \in Clients, q \in Pages :
            core'[d][q] = IF d = c /\ q = p THEN <<Loaded(p)>> ELSE core[d][q]
    <2>1. CopyTypes
      BY DEF CommitInv, Types
    <2> QED BY <1>1, <1>3, <2>1, CoreSet, ZenonT(60)
  <1>5. \A d \in Clients : log'[d] = IF d = c THEN log[c] \cup {p} ELSE log[d]
    BY <1>1 DEF CommitInv, Types, TranTypes
  <1>6. Loaded(p) = disk[p]
    BY <1>1 DEF Loaded, CommitInv, SharedCurrent
  <1>7. ASSUME NEW d \in Clients, NEW q \in Pages PROVE CopyOK(d, q)'
    <2>1. CopyOK(d, q)
      BY DEF CopyInv
    <2>2. Done(d, q)' <=> Done(d, q)
      BY <1>1 DEF Done, commitVars
    <2>3. CASE d = c /\ q = p
      <3>1. ~HasChanged(c, p) /\ ~Done(c, p)
        BY <1>1, <2>1, <2>3 DEF CopyOK, HasCopy, Done
      <3>2. Current(c, p)' = disk[p] /\ ~HasChanged(c, p)' /\ MyChange(c, p)' = MyChange(c, p)
        BY <1>1, <3>1 DEF Current, HasChanged, MyChange
      <3>3. core'[c][p] = <<disk[p]>> /\ swapdadr'[c][p] = NoBlock /\ p \in log'[c]
        BY <1>1, <1>4, <1>5, <1>6
      <3> QED BY <1>1, <2>1, <2>2, <2>3, <3>1, <3>2, <3>3 DEF CopyOK, HasCopy
    <2>4. CASE ~(d = c /\ q = p)
      BY <1>1, <1>4, <1>5, <2>1, <2>2, <2>4, CopyKept
    <2> QED BY <2>3, <2>4
  <1>8. OldChanges'
    BY <1>1 DEF CopyInv, OldChanges
  <1> QED BY <1>1, <1>7, <1>8 DEF CopyInv

\* A client that is not committing has its pages in core or swapped, not both.
LEMMA NotDoubled ==
  ASSUME CommitInv, NEW c \in Clients, NEW p \in Pages, ~failed[c], committer # c,
         core[c][p] # << >>
  PROVE  swapdadr[c][p] = NoBlock
  BY DEF CommitInv, Frames, PageFrames, Doubled

\* page_changed keeps the copies current.
LEMMA CopyPageChanged ==
  ASSUME CommitInv, CopyInv, NEW c \in Clients, NEW p \in Pages, page_changed(c, p)
  PROVE  CopyInv'
  <1> DEFINE x == Current(c, p) \cup {MyChange(c, p)}
  <1>1. /\ UNCHANGED <<disk, tdata>> /\ UNCHANGED swapdadr
        /\ UNCHANGED <<trans, failed>> /\ UNCHANGED commitVars
        /\ written' = written \cup {MyChange(c, p)}
        /\ core' = [core EXCEPT ![c][p][1] = @ \cup {MyChange(c, p)}]
        /\ log' = [log EXCEPT ![c] = @ \cup {p}]
        /\ core[c][p] # << >> /\ ~HasChanged(c, p)
        /\ mode = "up" /\ committer # c /\ ~failed[c] /\ trans[c] <= MaxTrans
    BY DEF page_changed, Works, fileVars
  <1>2. core[c][p] = <<Current(c, p)>> /\ swapdadr[c][p] = NoBlock
    BY <1>1, NotDoubled DEF CopyInv, CopyOK
  <1>3. core' = [core EXCEPT ![c][p] = <<x>>]
    <2>1. [core[c][p] EXCEPT ![1] = core[c][p][1] \cup {MyChange(c, p)}] = <<x>>
      BY <1>2
    <2>2. core' = [core EXCEPT ![c][p] =
                     [core[c][p] EXCEPT ![1] = core[c][p][1] \cup {MyChange(c, p)}]]
      BY <1>1
    <2> HIDE DEF x
    <2> QED BY <2>1, <2>2
  <1>4. \A d \in Clients, q \in Pages : core'[d][q] = IF d = c /\ q = p THEN <<x>> ELSE core[d][q]
    <2> HIDE DEF x
    <2> QED BY <1>3 DEF CommitInv, Types, CopyTypes
  <1>5. \A d \in Clients : log'[d] = IF d = c THEN log[c] \cup {p} ELSE log[d]
    BY <1>1 DEF CommitInv, Types, TranTypes
  <1>6. trans[c] \in 1 .. MaxTrans
    BY <1>1 DEF CommitInv, Types, TranTypes
  <1>7. ASSUME NEW d \in Clients, NEW q \in Pages PROVE CopyOK(d, q)'
    <2>1. CopyOK(d, q)
      BY DEF CopyInv
    <2>2. Done(d, q)' <=> Done(d, q)
      BY <1>1 DEF Done, commitVars
    <2>3. CASE d = c /\ q = p
      <3>1. MyChange(c, p)' = MyChange(c, p) /\ HasChanged(c, p)'
        BY <1>1 DEF MyChange, HasChanged
      <3>2. Current(c, p)' = x
        BY <1>1, <3>1 DEF Current
      <3>3. core'[c][p] = <<x>> /\ swapdadr'[c][p] = NoBlock /\ p \in log'[c]
        BY <1>1, <1>2, <1>4, <1>5
      <3>4. ~Done(c, p)' /\ MyChange(c, p) \notin disk[p]
        BY <1>1, <2>1, <2>2, <2>3 DEF CopyOK, Done
      <3> HIDE DEF x
      <3> QED BY <1>1, <2>3, <3>1, <3>2, <3>3, <3>4 DEF CopyOK, HasCopy
    <2>4. CASE ~(d = c /\ q = p)
      <3>1. MyChange(d, q) # MyChange(c, p)
        BY <2>4 DEF MyChange
      <3>2. core'[d][q] = core[d][q]
        BY <1>4, <2>4
      <3> QED BY <1>1, <1>5, <2>1, <2>2, <3>1, <3>2, CopyKept
    <2> QED BY <2>3, <2>4
  <1>8. OldChanges'
    <2>1. \A d \in Clients, q \in Pages : \A n \in 1 .. MaxTrans :
              <<q, d, n>> \in written' => n <= trans'[d]
      BY <1>1, <1>6 DEF CopyInv, OldChanges, MyChange
    <2> QED BY <1>1, <2>1 DEF CopyInv, OldChanges
  <1> QED BY <1>1, <1>7, <1>8 DEF CopyInv

\* unswap_block keeps the copies current.
LEMMA CopyUnswap ==
  ASSUME CommitInv, CopyInv, NEW c \in Clients, NEW p \in Pages, unswap_block(c, p)
  PROVE  CopyInv'
  <1>1. /\ UNCHANGED <<disk, tdata>> /\ UNCHANGED tranVars /\ UNCHANGED commitVars
        /\ UNCHANGED <<written, committed>>
        /\ core' = [core EXCEPT ![c][p] = <<tdata[swapdadr[c][p]]>>]
        /\ swapdadr' = [swapdadr EXCEPT ![c][p] = NoBlock]
        /\ swapdadr[c][p] # NoBlock
    BY DEF unswap_block, fileVars
  <1>2. tdata[swapdadr[c][p]] = Current(c, p)
    BY <1>1 DEF CopyInv, CopyOK
  <1>3. \A d \in Clients, q \in Pages :
            core'[d][q] = IF d = c /\ q = p THEN <<Current(c, p)>> ELSE core[d][q]
    BY <1>1, <1>2 DEF CommitInv, Types, CopyTypes
  <1>4. \A d \in Clients, q \in Pages :
            swapdadr'[d][q] = IF d = c /\ q = p THEN NoBlock ELSE swapdadr[d][q]
    BY <1>1 DEF CommitInv, Types, CopyTypes, SwapTable
  <1>5. ASSUME NEW d \in Clients, NEW q \in Pages PROVE CopyOK(d, q)'
    <2>1. CopyOK(d, q)
      BY DEF CopyInv
    <2>2. Done(d, q)' <=> Done(d, q)
      BY <1>1 DEF Done, commitVars
    <2>3. CASE d = c /\ q = p
      <3>1. MyChange(c, p)' = MyChange(c, p) /\ (HasChanged(c, p)' <=> HasChanged(c, p))
        BY <1>1 DEF MyChange, HasChanged, tranVars
      <3>2. Current(c, p)' = Current(c, p)
        BY <1>1, <3>1 DEF Current
      <3>3. core'[c][p] = <<Current(c, p)>> /\ swapdadr'[c][p] = NoBlock
        BY <1>3, <1>4
      <3> QED BY <1>1, <2>1, <2>2, <2>3, <3>1, <3>2, <3>3 DEF CopyOK, HasCopy, tranVars
    <2>4. CASE ~(d = c /\ q = p)
      BY <1>1, <1>3, <1>4, <2>1, <2>2, <2>4, CopyKept DEF tranVars
    <2> QED BY <2>3, <2>4
  <1>6. OldChanges'
    BY <1>1 DEF CopyInv, OldChanges, tranVars
  <1> QED BY <1>1, <1>5, <1>6 DEF CopyInv, tranVars

\* get_frame keeps the copies current.
LEMMA CopyGetFrame ==
  ASSUME CommitInv, CopyInv, NEW c \in Clients, NEW p \in Pages, get_frame(c, p)
  PROVE  CopyInv'
  <1>1. PICK i \in DOMAIN core[c][p] :
        /\ core' = [core EXCEPT ![c][p] = RemoveAt(@, i)]
        /\ IF MustSwap(c, p, i)
           THEN /\ save_block(core[c][p][i])
                /\ swapdadr' = [swapdadr EXCEPT ![c][p] = NewBlock]
           ELSE UNCHANGED <<mapVars, swapdadr, tdata, tjc>>
    BY Zenon DEF get_frame
  <1>2. /\ UNCHANGED disk /\ UNCHANGED tranVars /\ UNCHANGED commitVars
        /\ UNCHANGED <<written, committed>>
    BY DEF get_frame
  <1>3. CopyOK(c, p)
    BY DEF CopyInv
  <1>4. core[c][p] = <<Current(c, p)>> /\ i = 1 /\ core[c][p] # << >>
    <2>1. core[c][p] # << >>
      OBVIOUS
    <2>2. core[c][p] = <<Current(c, p)>>
      BY <1>3, <2>1 DEF CopyOK
    <2> QED BY <2>2
  <1>5. Current(c, p) \in SUBSET Changes
    BY <1>4, CurrentIsOld DEF CopyInv, CommitInv, Types, HistoryTypes
  <1>6. core' = [core EXCEPT ![c][p] = << >>]
    <2>1. core[c][p] \in Seq(SUBSET Changes) /\ Len(core[c][p]) = 1
      BY <1>4, <1>5
    <2>2. RemoveAt(core[c][p], i) = << >>
      BY <2>1, FrameCounts
    <2> QED BY <1>1, <2>2
  <1>7. \A d \in Clients, q \in Pages : core'[d][q] = IF d = c /\ q = p THEN << >> ELSE core[d][q]
    BY <1>6 DEF CommitInv, Types, CopyTypes
  <1>8. CASE MustSwap(c, p, i)
    <2> DEFINE x == Current(c, p)
    <2>1. save_block(x) /\ swapdadr' = [swapdadr EXCEPT ![c][p] = NewBlock]
      BY <1>1, <1>4, <1>8
    <2>2. swapdadr[c][p] = NoBlock
      BY <1>8 DEF MustSwap
    <2>3. x \in SUBSET Changes /\ x \subseteq written
      BY <1>5, CurrentIsOld DEF CopyInv
    <2> HIDE DEF x
    <2>4. \A d \in Clients, q \in Pages :
              swapdadr'[d][q] = IF d = c /\ q = p THEN NewBlock ELSE swapdadr[d][q]
      BY <2>1, <2>2, <2>3, SwapOne DEF CommitInv, Types
    <2>5. /\ \A d \in Clients, q \in Pages :
                 swapdadr[d][q] # NoBlock => tdata'[swapdadr[d][q]] = tdata[swapdadr[d][q]]
          /\ tdata'[NewBlock] = x
          /\ \A b \in SwapBlocks : tdata'[b] = x \/ tdata'[b] = tdata[b]
      BY <2>1, <2>3, SwapsKept DEF CommitInv, Types
    <2>6. NewBlock # NoBlock
      BY <2>1, <2>3, SaveBlock, BlockFacts DEF CommitInv, Types
    <2> HIDE DEF NewBlock
    <2>7. ASSUME NEW d \in Clients, NEW q \in Pages PROVE CopyOK(d, q)'
      <3>1. CopyOK(d, q)
        BY DEF CopyInv
      <3>2. Done(d, q)' <=> Done(d, q)
        BY <1>2 DEF Done, commitVars
      <3>3. CASE d = c /\ q = p
        <4>1. MyChange(c, p)' = MyChange(c, p) /\ (HasChanged(c, p)' <=> HasChanged(c, p))
          BY <1>2 DEF MyChange, HasChanged, tranVars
        <4>2. Current(c, p)' = x
          BY <1>2, <4>1 DEF Current, x
        <4>3. core'[c][p] = << >> /\ swapdadr'[c][p] = NewBlock /\ tdata'[swapdadr'[c][p]] = x
          BY <1>7, <2>4, <2>5
        <4>4. HasCopy(c, p)
          BY <1>4 DEF HasCopy
        <4> QED BY <1>2, <2>6, <3>1, <3>2, <3>3, <4>1, <4>2, <4>3, <4>4
                DEF CopyOK, HasCopy, tranVars
      <3>4. CASE ~(d = c /\ q = p)
        BY <1>2, <1>7, <2>4, <2>5, <3>1, <3>2, <3>4, CopyKept DEF tranVars
      <3> QED BY <3>3, <3>4
    <2>8. OldChanges'
      BY <1>2, <2>3, <2>5 DEF CopyInv, OldChanges, tranVars
    <2> QED BY <1>2, <2>7, <2>8 DEF CopyInv, tranVars
  <1>9. CASE ~MustSwap(c, p, i)
    <2>1. UNCHANGED <<swapdadr, tdata>>
      BY <1>1, <1>9
    <2>2. ASSUME NEW d \in Clients, NEW q \in Pages PROVE CopyOK(d, q)'
      <3>1. CopyOK(d, q)
        BY DEF CopyInv
      <3>2. Done(d, q)' <=> Done(d, q)
        BY <1>2 DEF Done, commitVars
      <3>3. CASE d = c /\ q = p
        <4>1. MyChange(c, p)' = MyChange(c, p) /\ (HasChanged(c, p)' <=> HasChanged(c, p))
          BY <1>2 DEF MyChange, HasChanged, tranVars
        <4>2. Current(c, p)' = Current(c, p)
          BY <1>2, <4>1 DEF Current
        <4>3. core'[c][p] = << >> /\ swapdadr'[c][p] = swapdadr[c][p]
          BY <1>7, <2>1
        <4>4. HasCopy(c, p)
          BY <1>4 DEF HasCopy
        <4>5. HasChanged(c, p) => swapdadr[c][p] # NoBlock
          <5> SUFFICES ASSUME HasChanged(c, p), swapdadr[c][p] = NoBlock PROVE FALSE
            OBVIOUS
          <5>1. ~Dirty(c, p, i)
            BY <1>9 DEF MustSwap
          <5>2. MyChange(c, p) \in core[c][p][i] /\ MyChange(c, p) \notin disk[p]
            BY <1>3, <1>4, <4>4 DEF CopyOK, Current
          <5>3. trans[c] \in 1 .. MaxTrans
            BY DEF HasChanged, MyChange, CommitInv, Types, HistoryTypes, Changes
          <5> QED BY <5>1, <5>2, <5>3 DEF Dirty, MyChange
        <4> QED BY <1>2, <2>1, <3>1, <3>2, <3>3, <4>1, <4>2, <4>3, <4>4, <4>5
                DEF CopyOK, HasCopy, tranVars
      <3>4. CASE ~(d = c /\ q = p)
        BY <1>2, <1>7, <2>1, <3>1, <3>2, <3>4, CopyKept DEF tranVars
      <3> QED BY <3>3, <3>4
    <2>3. OldChanges'
      BY <1>2, <2>1 DEF CopyInv, OldChanges, tranVars
    <2> QED BY <1>2, <2>2, <2>3 DEF CopyInv, tranVars
  <1> QED BY <1>8, <1>9

\* A client starts its next transaction without copies and changes.
LEMMA CopyNextTrans ==
  ASSUME CopyInv, NEW c \in Clients, NEW p \in Pages, core'[c][p] = << >>,
         swapdadr'[c][p] = NoBlock, trans[c] \in 1 .. MaxTrans, trans'[c] = trans[c] + 1,
         UNCHANGED written, disk'[p] \subseteq written, written \subseteq Changes
  PROVE  CopyOK(c, p)'
  <1>1. MyChange(c, p)' \notin written
    <2>1. MyChange(c, p)' = <<p, c, trans[c] + 1>>
      BY DEF MyChange
    <2>2. <<p, c, trans[c] + 1>> \in written => trans[c] + 1 \in 1 .. MaxTrans
      BY DEF Changes
    <2>3. <<p, c, trans[c] + 1>> \in written => trans[c] + 1 <= trans[c]
      BY <2>2 DEF CopyInv, OldChanges
    <2> QED BY <2>1, <2>3
  <1> QED BY <1>1 DEF CopyOK, HasCopy, HasChanged

\* Transactions that end leave only older changes.
LEMMA OldStays ==
  ASSUME OldChanges, UNCHANGED written,
         \A d \in Clients : trans[d] \in Int /\ trans[d] <= trans'[d] /\ trans'[d] \in Int,
         \A q \in Pages : disk'[q] \subseteq written,
         \A b \in SwapBlocks : tdata'[b] \subseteq written
  PROVE  OldChanges'
  <1>1. ASSUME NEW d \in Clients, NEW q \in Pages, NEW n \in 1 .. MaxTrans, <<q, d, n>> \in written
        PROVE  n <= trans'[d]
    <2>1. n <= trans[d]
      BY <1>1 DEF OldChanges
    <2>2. n \in Int /\ trans[d] \in Int /\ trans[d] <= trans'[d] /\ trans'[d] \in Int
      OBVIOUS
    <2> QED BY <2>1, <2>2
  <1> QED BY <1>1 DEF OldChanges

\* roll_back keeps the copies current.
LEMMA CopyRollBack ==
  ASSUME CommitInv, CopyInv, NEW c \in Clients, roll_back(c)
  PROVE  CopyInv'
  <1>1. /\ UNCHANGED <<disk, tdata>> /\ UNCHANGED commitVars /\ UNCHANGED <<written, committed>>
        /\ core' = [core EXCEPT ![c] =
               [p \in Pages |-> IF p \in log[c] THEN LeftFrames(@[p]) ELSE @[p]]]
        /\ swapdadr' = [swapdadr EXCEPT ![c] =
               [p \in Pages |-> IF p \in log[c] THEN NoBlock ELSE @[p]]]
        /\ log' = [log EXCEPT ![c] = {}]
        /\ failed' = [failed EXCEPT ![c] = FALSE]
        /\ trans' = [trans EXCEPT ![c] = @ + 1]
        /\ failed[c] \/ log[c] # {}
    BY DEF roll_back, fileVars
  <1>2. \A d \in Clients, q \in Pages :
            core'[d][q] = IF d = c /\ q \in log[c] THEN LeftFrames(core[d][q]) ELSE core[d][q]
    BY <1>1 DEF CommitInv, Types, CopyTypes
  <1>3. \A d \in Clients, q \in Pages :
            swapdadr'[d][q] = IF d = c /\ q \in log[c] THEN NoBlock ELSE swapdadr[d][q]
    BY <1>1 DEF CommitInv, Types, CopyTypes, SwapTable
  <1>4. trans[c] \in 1 .. MaxTrans
    BY <1>1 DEF CommitInv, Control
  <1>5. \A d \in Clients : /\ log'[d] = IF d = c THEN {} ELSE log[d]
                           /\ failed'[d] = IF d = c THEN FALSE ELSE failed[d]
                           /\ trans'[d] = IF d = c THEN trans[c] + 1 ELSE trans[d]
    BY <1>1 DEF CommitInv, Types, TranTypes
  <1>6. ASSUME NEW d \in Clients, NEW q \in Pages PROVE CopyOK(d, q)'
    <2>1. CopyOK(d, q)
      BY DEF CopyInv
    <2>2. CASE d = c
      <3>1. core'[c][q] = << >> /\ swapdadr'[c][q] = NoBlock
        <4>1. CASE q \in log[c]
          <5>1. LeftFrames(core[c][q]) = << >>
            <6>1. CASE core[c][q] = << >>
              BY <6>1 DEF LeftFrames
            <6>2. CASE core[c][q] # << >>
              <7>1. core[c][q] = <<Current(c, q)>>
                BY <2>1, <2>2, <6>2 DEF CopyOK
              <7>2. core[c][q] \in Seq(SUBSET Changes) /\ Len(core[c][q]) = 1
                BY <7>1 DEF CommitInv, Types, CopyTypes
              <7> QED BY <7>2, FrameCounts
            <6> QED BY <6>1, <6>2
          <5> QED BY <1>2, <1>3, <4>1, <5>1
        <4>2. CASE q \notin log[c]
          BY <1>2, <1>3, <2>1, <2>2, <4>2 DEF CopyOK, HasCopy
        <4> QED BY <4>1, <4>2
      <3>2. disk'[q] \subseteq written /\ written \subseteq Changes
        BY <1>1 DEF CopyInv, OldChanges, CommitInv, Types, HistoryTypes
      <3> QED BY <1>1, <1>4, <1>5, <2>2, <3>1, <3>2, CopyNextTrans
    <2>3. CASE d # c
      <3>1. Done(d, q)' <=> Done(d, q)
        BY <1>1 DEF Done, commitVars
      <3> QED BY <1>1, <1>2, <1>3, <1>5, <2>1, <2>3, <3>1, CopyKept
    <2> QED BY <2>2, <2>3
  <1>7. OldChanges'
    <2>1. ASSUME NEW d \in Clients
          PROVE  trans[d] \in Int /\ trans[d] <= trans'[d] /\ trans'[d] \in Int
      <3>3. trans[d] \in Int
        BY DEF CommitInv, Types, TranTypes
      <3>1. CASE d = c
        <4>1. trans'[d] = trans[d] + 1
          BY <1>5, <3>1
        <4> QED BY <3>3, <4>1
      <3>2. CASE d # c
        <4>1. trans'[d] = trans[d]
          BY <1>5, <3>2
        <4> QED BY <3>3, <4>1
      <3> QED BY <3>1, <3>2
    <2>2. /\ \A q \in Pages : disk'[q] \subseteq written
          /\ \A b \in SwapBlocks : tdata'[b] \subseteq written
      BY <1>1 DEF CopyInv, OldChanges
    <2> QED BY <1>1, <2>1, <2>2, OldStays DEF CopyInv
  <1> QED BY <1>5, <1>6, <1>7 DEF CopyInv

\* A step of commit that leaves all copies and the pages done alone.
LEMMA CopiesKept ==
  ASSUME CopyInv, UNCHANGED <<disk, tdata, core, swapdadr, trans, log, written>>,
         "tjc" \notin MayFail => UNCHANGED failed,
         \A c \in Clients, p \in Pages : Done(c, p)' <=> Done(c, p)
  PROVE  CopyInv'
  <1>1. ASSUME NEW d \in Clients, NEW q \in Pages PROVE CopyOK(d, q)'
    <2>1. CopyOK(d, q)
      BY DEF CopyInv
    <2> QED BY <2>1, CopyKept
  <1>2. OldChanges'
    BY DEF CopyInv, OldChanges
  <1> QED BY <1>1, <1>2 DEF CopyInv

\* commit keeps the copies current.
LEMMA CopyCommit ==
  ASSUME CommitInv, CopyInv, NEW c \in Clients, commit(c)
  PROVE  CopyInv'
  <1>1. /\ UNCHANGED <<disk, tdata, core, swapdadr, trans, log, written, failed>>
        /\ stage' = "save" /\ committer = NoClient
    BY DEF commit, fileVars, copyVars, tranVars
  <1>2. stage = "idle"
    BY <1>1 DEF CommitInv, Control
  <1> QED BY <1>1, <1>2, CopiesKept DEF Done

\* The work with shared pages keeps the copies current.
LEMMA CopyShared ==
  ASSUME CommitInv, CopyInv, NEW p \in SystemPages, fix_any_page(p) \/ get_shared_frame(p)
  PROVE  CopyInv'
  <1>1. UNCHANGED <<disk, tdata, core, swapdadr, trans, log, written, failed>>
        /\ UNCHANGED commitVars
    BY DEF fix_any_page, get_shared_frame, fileVars, tranVars
  <1> QED BY <1>1, CopiesKept DEF Done, commitVars

\* save_dependent keeps the copies current.
LEMMA CopySaveDependent ==
  ASSUME CommitInv, CopyInv, save_dependent
  PROVE  CopyInv'
  <1>1. UNCHANGED <<disk, tdata, core, swapdadr, trans, log, written, failed>>
        /\ stage = "save" /\ stage' = "save"
    BY DEF save_dependent, save_tjc_block, copyVars, tranVars
  <1> QED BY <1>1, CopiesKept DEF Done

\* save_tjc_fails keeps the copies current.
LEMMA CopySaveTjcFails ==
  ASSUME CommitInv, CopyInv, save_tjc_fails
  PROVE  CopyInv'
  <1>1. UNCHANGED <<disk, tdata, core, swapdadr, trans, log, written>>
        /\ stage = "save" /\ stage' = "idle" /\ "tjc" \in MayFail
    BY DEF save_tjc_fails, fileVars, copyVars
  <1> QED BY <1>1, CopiesKept DEF Done

\* save_leader keeps the copies current.
LEMMA CopySaveLeader ==
  ASSUME CommitInv, CopyInv, save_leader
  PROVE  CopyInv'
  <1>1. /\ UNCHANGED <<disk, tdata, core, swapdadr, trans, log, written, failed, committer>>
        /\ stage = "save" /\ stage' = "write" /\ todo' = log[committer]
    BY DEF save_leader, save_tjc_block, copyVars, tranVars, Me
  <1>2. ASSUME NEW d \in Clients, NEW q \in Pages PROVE CopyOK(d, q)'
    <2>1. CopyOK(d, q)
      BY DEF CopyInv
    <2>2. Done(d, q)' <=> d = committer /\ q \notin log[d]
      BY <1>1 DEF Done
    <2>3. ~Done(d, q)
      BY <1>1 DEF Done
    <2>4. /\ MyChange(d, q)' = MyChange(d, q) /\ (HasChanged(d, q)' <=> HasChanged(d, q))
          /\ (HasCopy(d, q)' <=> HasCopy(d, q))
      BY <1>1 DEF MyChange, HasChanged, HasCopy
    <2>5. Current(d, q)' = Current(d, q)
      BY <1>1, <2>4 DEF Current
    <2> QED BY <1>1, <2>1, <2>2, <2>3, <2>4, <2>5 DEF CopyOK
  <1>3. OldChanges'
    BY <1>1 DEF CopyInv, OldChanges
  <1> QED BY <1>1, <1>2, <1>3 DEF CopyInv

\* make_swapped keeps the copies current.
LEMMA CopyMakeSwapped ==
  ASSUME CommitInv, CopyInv, NEW p \in Pages, make_swapped(p)
  PROVE  CopyInv'
  <1>1. /\ UNCHANGED disk /\ UNCHANGED core /\ UNCHANGED tranVars
        /\ UNCHANGED <<stage, committer>> /\ UNCHANGED written
        /\ mode = "up" /\ stage = "save" /\ p \in todo
    BY DEF make_swapped
  <1>2. committer \in Clients /\ committer # NoClient
    BY <1>1, CommitterIsClient DEF CommitInv, Types
  <1>3. core[committer][p] # << >> => swapdadr[committer][p] = NoBlock
    <2>1. PageFrames(committer, p) /\ ~failed[committer]
      BY <1>1, <1>2 DEF CommitInv, Frames, Control
    <2> QED BY <1>1, <1>2, <2>1 DEF PageFrames, Doubled
  <1>4. CopyOK(committer, p)
    BY <1>2 DEF CopyInv
  <1>5. \A d \in Clients, q \in Pages : Done(d, q)' <=> Done(d, q)
    BY <1>1 DEF Done
  <1>6. CASE core[committer][p] # << >> /\ save_block(core[committer][p][1]) /\ Swaps(p, NewBlock)
    <2> DEFINE x == Current(committer, p)
    <2>1. core[committer][p] = <<x>> /\ core[committer][p][1] = x
      BY <1>4, <1>6 DEF CopyOK
    <2>2. save_block(x) /\ swapdadr' = [swapdadr EXCEPT ![committer][p] = NewBlock]
      BY <1>6, <2>1 DEF Swaps, Me
    <2>3. swapdadr[committer][p] = NoBlock
      BY <1>3, <1>6
    <2>4. x \in SUBSET Changes /\ x \subseteq written
      BY <1>2, CurrentIsOld DEF CopyInv, CommitInv, Types, HistoryTypes
    <2> HIDE DEF x
    <2>5. \A d \in Clients, q \in Pages :
              swapdadr'[d][q] = IF d = committer /\ q = p THEN NewBlock ELSE swapdadr[d][q]
      BY <1>2, <2>2, <2>3, <2>4, SwapOne DEF CommitInv, Types
    <2>6. /\ \A d \in Clients, q \in Pages :
                 swapdadr[d][q] # NoBlock => tdata'[swapdadr[d][q]] = tdata[swapdadr[d][q]]
          /\ tdata'[NewBlock] = x
          /\ \A b \in SwapBlocks : tdata'[b] = x \/ tdata'[b] = tdata[b]
      BY <2>2, <2>4, SwapsKept DEF CommitInv, Types
    <2> HIDE DEF NewBlock
    <2>7. ASSUME NEW d \in Clients, NEW q \in Pages PROVE CopyOK(d, q)'
      <3>1. CopyOK(d, q) /\ (Done(d, q)' <=> Done(d, q))
        BY <1>5 DEF CopyInv
      <3>2. CASE d = committer /\ q = p
        <4>1. /\ MyChange(d, q)' = MyChange(d, q) /\ (HasChanged(d, q)' <=> HasChanged(d, q))
              /\ HasCopy(d, q)' /\ HasCopy(d, q)
          BY <1>1, <1>6, <3>2 DEF MyChange, HasChanged, HasCopy, tranVars
        <4>2. Current(d, q)' = x
          BY <1>1, <3>2, <4>1 DEF Current, x
        <4>3. core'[d][q] = <<x>> /\ tdata'[swapdadr'[d][q]] = x
          BY <1>1, <2>1, <2>5, <2>6, <3>2
        <4> QED BY <1>1, <3>1, <4>1, <4>2, <4>3 DEF CopyOK, tranVars
      <3>3. CASE ~(d = committer /\ q = p)
        BY <1>1, <2>5, <2>6, <3>1, <3>3, CopyKept DEF tranVars
      <3> QED BY <3>2, <3>3
    <2>8. OldChanges'
      BY <1>1, <2>4, <2>6 DEF CopyInv, OldChanges, tranVars
    <2> QED BY <1>1, <2>7, <2>8 DEF CopyInv, tranVars
  <1>7. CASE UNCHANGED <<tdata, swapdadr>>
    BY <1>1, <1>5, <1>7, CopiesKept DEF tranVars
  <1>8. Swaps(p, swapdadr[committer][p]) => UNCHANGED swapdadr
    BY <1>2 DEF Swaps, Me, CommitInv, Types, CopyTypes, SwapTable
  <1> QED BY <1>6, <1>7, <1>8 DEF make_swapped, Me, save_block_fails

\* wr_nothing keeps the copies current.
LEMMA CopyWrNothing ==
  ASSUME CommitInv, CopyInv, NEW p \in Pages, wr_nothing(p)
  PROVE  CopyInv'
  <1>1. /\ UNCHANGED <<disk, tdata>> /\ UNCHANGED tranVars /\ UNCHANGED <<stage, committer>>
        /\ UNCHANGED written /\ mode = "up" /\ stage = "write" /\ p \in todo
        /\ ~HasChanged(committer, p)
           \/ (core[committer][p] = << >> /\ swapdadr[committer][p] = NoBlock)
        /\ core' = [core EXCEPT ![committer][p] = LeftFrames(@)]
        /\ swapdadr' = [swapdadr EXCEPT ![committer][p] = NoBlock]
        /\ todo' = todo \ {p}
    BY DEF wr_nothing, Me, fileVars
  <1>2. committer \in Clients
    BY <1>1, CommitterIsClient DEF CommitInv, Types
  <1>3. LeftFrames(core[committer][p]) = << >>
    BY <1>1, CommitterFrames
  <1>4. \A d \in Clients, q \in Pages :
            core'[d][q] = IF d = committer /\ q = p THEN << >> ELSE core[d][q]
    BY <1>1, <1>3 DEF CommitInv, Types, CopyTypes
  <1>5. \A d \in Clients, q \in Pages :
            swapdadr'[d][q] = IF d = committer /\ q = p THEN NoBlock ELSE swapdadr[d][q]
    BY <1>1 DEF CommitInv, Types, CopyTypes, SwapTable
  <1>6. ASSUME NEW d \in Clients, NEW q \in Pages PROVE CopyOK(d, q)'
    <2>1. CopyOK(d, q)
      BY DEF CopyInv
    <2>2. CASE d = committer /\ q = p
      <3>1. ~Done(d, q) /\ Done(d, q)'
        BY <1>1, <2>2 DEF Done
      <3>2. ~HasChanged(d, q)
        BY <1>1, <2>1, <2>2, <3>1 DEF CopyOK, HasCopy
      <3>3. MyChange(d, q)' = MyChange(d, q) /\ ~HasChanged(d, q)'
        BY <1>1, <3>2 DEF MyChange, HasChanged, tranVars
      <3>4. core'[d][q] = << >> /\ swapdadr'[d][q] = NoBlock
        BY <1>4, <1>5, <2>2
      <3> QED BY <3>1, <3>3, <3>4 DEF CopyOK, HasCopy
    <2>3. CASE ~(d = committer /\ q = p)
      <3>1. Done(d, q)' <=> Done(d, q)
        BY <1>1, <2>3 DEF Done
      <3> QED BY <1>1, <1>4, <1>5, <2>1, <2>3, <3>1, CopyKept DEF tranVars
    <2> QED BY <2>2, <2>3
  <1>7. OldChanges'
    BY <1>1 DEF CopyInv, OldChanges, tranVars
  <1> QED BY <1>1, <1>6, <1>7 DEF CopyInv, tranVars

\* wr_changes keeps the copies current.
LEMMA CopyWrChanges ==
  ASSUME CommitInv, CopyInv, NEW p \in Pages, wr_changes(p)
  PROVE  CopyInv'
  <1> DEFINE s == IF core[committer][p] = << >> THEN <<tdata[swapdadr[committer][p]]>>
                  ELSE core[committer][p]
  <1>1. /\ UNCHANGED <<disk, tdata>> /\ UNCHANGED tranVars /\ UNCHANGED <<stage, committer, todo>>
        /\ UNCHANGED written /\ mode = "up" /\ stage = "write" /\ p \in todo
        /\ core[committer][p] # << >> \/ swapdadr[committer][p] # NoBlock
        /\ core' = [core EXCEPT ![committer][p] = s]
        /\ swapdadr' = [swapdadr EXCEPT ![committer][p] = NoBlock]
    BY DEF wr_changes, Me, fileVars
  <1>2. committer \in Clients
    BY <1>1, CommitterIsClient DEF CommitInv, Types
  <1>3. s = <<Current(committer, p)>>
    BY <1>1, <1>2 DEF CopyInv, CopyOK
  <1> HIDE DEF s
  <1>4. \A d \in Clients, q \in Pages :
            core'[d][q] = IF d = committer /\ q = p THEN <<Current(committer, p)>> ELSE core[d][q]
    BY <1>1, <1>3 DEF CommitInv, Types, CopyTypes
  <1>5. \A d \in Clients, q \in Pages :
            swapdadr'[d][q] = IF d = committer /\ q = p THEN NoBlock ELSE swapdadr[d][q]
    BY <1>1 DEF CommitInv, Types, CopyTypes, SwapTable
  <1>6. ASSUME NEW d \in Clients, NEW q \in Pages PROVE CopyOK(d, q)'
    <2>1. CopyOK(d, q) /\ (Done(d, q)' <=> Done(d, q))
      BY <1>1 DEF CopyInv, Done
    <2>2. CASE d = committer /\ q = p
      <3>1. MyChange(d, q)' = MyChange(d, q) /\ (HasChanged(d, q)' <=> HasChanged(d, q))
        BY <1>1 DEF MyChange, HasChanged, tranVars
      <3>2. Current(d, q)' = Current(d, q)
        BY <1>1, <3>1 DEF Current
      <3>3. core'[d][q] = <<Current(d, q)>> /\ swapdadr'[d][q] = NoBlock
        BY <1>4, <1>5, <2>2
      <3>4. HasCopy(d, q) /\ HasCopy(d, q)'
        BY <1>1, <2>2, <3>3 DEF HasCopy
      <3> QED BY <1>1, <2>1, <3>1, <3>2, <3>3, <3>4 DEF CopyOK, tranVars
    <2>3. CASE ~(d = committer /\ q = p)
      BY <1>1, <1>4, <1>5, <2>1, <2>3, CopyKept DEF tranVars
    <2> QED BY <2>2, <2>3
  <1>7. OldChanges'
    BY <1>1 DEF CopyInv, OldChanges, tranVars
  <1> QED BY <1>1, <1>6, <1>7 DEF CopyInv, tranVars

\* With no failed commits around, a client has one copy of a page, and
\* wr_changes merges the changes of the commit into it.
LEMMA MergedCurrent ==
  ASSUME CommitInv, CopyInv, Undisturbed, NEW c \in Clients, NEW p \in Pages,
         committer \in Clients, c # committer
  PROVE  MergedFrames(c, p) =
             IF HasCopy(c, p) THEN <<Current(c, p) \cup {MyChange(committer, p)}>> ELSE << >>
  <1>1. CopyOK(c, p) /\ ~failed[c]
    BY DEF CopyInv, Undisturbed, OneClient
  <1>2. core[c][p] # << >> => swapdadr[c][p] = NoBlock
    BY <1>1, NotDoubled
  <1> DEFINE u == IF swapdadr[c][p] = NoBlock THEN << >> ELSE <<tdata[swapdadr[c][p]]>>
             f == u \o core[c][p]
  <1>3. f = IF HasCopy(c, p) THEN <<Current(c, p)>> ELSE << >>
    <2> DEFINE x == Current(c, p)
    <2>1. << >> \o <<x>> = <<x>> /\ <<x>> \o << >> = <<x>> /\ << >> \o << >> = << >>
      OBVIOUS
    <2>2. CASE swapdadr[c][p] = NoBlock /\ core[c][p] = << >>
      <3>1. f = << >> \o << >>
        BY <2>2
      <3> HIDE DEF f
      <3> QED BY <2>1, <2>2, <3>1, Zenon DEF HasCopy
    <2>3. CASE swapdadr[c][p] # NoBlock
      <3>1. f = <<x>> \o << >>
        BY <1>1, <1>2, <2>3 DEF CopyOK
      <3> HIDE DEF f
      <3> QED BY <2>1, <2>3, <3>1, Zenon DEF HasCopy
    <2>4. CASE swapdadr[c][p] = NoBlock /\ core[c][p] # << >>
      <3>1. f = << >> \o <<x>>
        BY <1>1, <2>4 DEF CopyOK
      <3> HIDE DEF f
      <3> QED BY <2>1, <2>4, <3>1, Zenon DEF HasCopy
    <2> QED BY <2>2, <2>3, <2>4
  <1>4. MergedFrames(c, p) = [i \in DOMAIN f |-> Merged(f[i], p)]
    BY Zenon DEF MergedFrames
  <1> HIDE DEF f
  <1>5. CASE HasCopy(c, p)
    <2> DEFINE x == Current(c, p)
    <2>1. f = <<x>>
      BY <1>3, <1>5
    <2> HIDE DEF x
    <2>2. DOMAIN f = 1 .. 1 /\ f[1] = x
      BY <2>1
    <2> HIDE DEF Merged
    <2>3. [i \in 1 .. 1 |-> Merged(f[i], p)] = <<Merged(x, p)>>
      BY <2>2
    <2>4. Merged(x, p) = x \cup {MyChange(committer, p)}
      BY DEF Merged, Me
    <2> QED BY <1>4, <1>5, <2>2, <2>3, <2>4 DEF x
  <1>6. CASE ~HasCopy(c, p)
    <2>1. f = << >>
      BY <1>3, <1>6
    <2> HIDE DEF Merged
    <2> QED BY <1>4, <1>6, <2>1
  <1> QED BY <1>5, <1>6

\* write_block keeps the copies current.
LEMMA CopyWriteBlock ==
  ASSUME CommitInv, CopyInv, Undisturbed, write_block
  PROVE  CopyInv'
  <1> DEFINE p == writing
             page == Last(core[committer][p])
  <1>1. /\ UNCHANGED tdata /\ UNCHANGED tranVars /\ UNCHANGED <<stage, committer>>
        /\ UNCHANGED written /\ mode = "up" /\ writing # NoPage
        /\ disk' = [disk EXCEPT ![p] = page]
        /\ core' = [c \in Clients |-> [core[c] EXCEPT ![p] =
                       IF c = committer THEN Front(@) ELSE MergedFrames(c, p)]]
        /\ swapdadr' = [c \in Clients |-> [swapdadr[c] EXCEPT ![p] = NoBlock]]
        /\ todo' = todo \ {p}
    BY DEF write_block, Me
  <1>2. /\ p \in Pages /\ stage = "write" /\ committer \in Clients /\ p \in todo
        /\ core[committer][p] # << >> /\ HasChanged(committer, p)
    BY <1>1, CommitterIsClient DEF CommitInv, Types, CommitTypes, Control, WritingInv
  <1>3. /\ Front(core[committer][p]) = << >> /\ page = core[committer][p][1]
    BY <1>2, CommitterFrames
  <1>4. page = disk[p] \cup {MyChange(committer, p)}
    <2>1. core[committer][p] = <<Current(committer, p)>>
      BY <1>2 DEF CopyInv, CopyOK
    <2> QED BY <1>2, <1>3, <2>1 DEF Current
  <1> HIDE DEF page, p
  <1>5. \A d \in Clients, q \in Pages :
            core'[d][q] = IF q = p THEN IF d = committer THEN << >> ELSE MergedFrames(d, p)
                          ELSE core[d][q]
    BY <1>1, <1>3 DEF CommitInv, Types, CopyTypes
  <1>6. \A d \in Clients, q \in Pages :
            swapdadr'[d][q] = IF q = p THEN NoBlock ELSE swapdadr[d][q]
    BY <1>1 DEF CommitInv, Types, CopyTypes, SwapTable
  <1>7. \A q \in Pages : disk'[q] = IF q = p THEN disk[p] \cup {MyChange(committer, p)} ELSE disk[q]
    BY <1>1, <1>4 DEF CommitInv, Types, FileTypes
  <1>8. ASSUME NEW d \in Clients, NEW q \in Pages PROVE CopyOK(d, q)'
    <2>1. CopyOK(d, q)
      BY DEF CopyInv
    <2>2. MyChange(d, q)' = MyChange(d, q) /\ (HasChanged(d, q)' <=> HasChanged(d, q))
      BY <1>1 DEF MyChange, HasChanged, tranVars
    <2>3. CASE q = p /\ d = committer
      <3>1. core'[d][q] = << >> /\ swapdadr'[d][q] = NoBlock /\ Done(d, q)'
        BY <1>1, <1>2, <1>5, <1>6, <2>3 DEF Done
      <3>2. MyChange(d, q) \in disk'[q] /\ q \in log'[d]
        BY <1>1, <1>2, <1>7, <2>1, <2>3 DEF CopyOK, tranVars
      <3> QED BY <2>2, <3>1, <3>2 DEF CopyOK, HasCopy
    <2>4. CASE q = p /\ d # committer
      <3>1. MergedFrames(d, p) =
               IF HasCopy(d, p) THEN <<Current(d, p) \cup {MyChange(committer, p)}>> ELSE << >>
        BY <1>2, <2>4, MergedCurrent
      <3>2. Current(d, q)' = Current(d, q) \cup {MyChange(committer, p)}
        BY <1>2, <1>7, <2>2, <2>4 DEF Current
      <3>3. core'[d][q] = IF HasCopy(d, q) THEN <<Current(d, q)'>> ELSE << >>
        BY <1>5, <2>4, <3>1, <3>2
      <3>4. swapdadr'[d][q] = NoBlock
        BY <1>6, <2>4
      <3>5. HasCopy(d, q)' <=> HasCopy(d, q)
        BY <3>3, <3>4 DEF HasCopy
      <3>6. ~Done(d, q)' /\ ~Done(d, q)
        BY <1>1, <2>4 DEF Done
      <3>7. MyChange(d, q) # MyChange(committer, p)
        BY <2>4 DEF MyChange
      <3>8. MyChange(d, q) \notin disk'[q]
        BY <1>7, <2>1, <2>4, <3>6, <3>7 DEF CopyOK
      <3> QED BY <1>1, <2>1, <2>2, <3>3, <3>4, <3>5, <3>6, <3>8 DEF CopyOK, tranVars
    <2>5. CASE q # p
      <3>1. Done(d, q)' <=> Done(d, q)
        BY <1>1, <2>5 DEF Done
      <3> QED BY <1>1, <1>5, <1>6, <1>7, <2>1, <2>5, <3>1, CopyKept DEF tranVars
    <2> QED BY <2>3, <2>4, <2>5
  <1>9. OldChanges'
    <2>1. \A q \in Pages : disk'[q] \subseteq written
      BY <1>2, <1>7 DEF CopyInv, OldChanges, HasChanged
    <2> QED BY <1>1, <2>1 DEF CopyInv, OldChanges, tranVars
  <1> QED BY <1>1, <1>8, <1>9 DEF CopyInv, tranVars

\* end_of_commit keeps the copies current.
LEMMA CopyEndOfCommit ==
  ASSUME CommitInv, CopyInv, end_of_commit
  PROVE  CopyInv'
  <1>1. /\ UNCHANGED <<disk, tdata, core, swapdadr, failed, written>>
        /\ mode = "up" /\ stage = "write" /\ todo = {}
        /\ log' = [log EXCEPT ![committer] = {}]
        /\ trans' = [trans EXCEPT ![committer] = @ + 1]
        /\ committer' = NoClient /\ stage' = "idle"
    BY DEF end_of_commit, Me, copyVars
  <1>2. committer \in Clients /\ trans[committer] \in 1 .. MaxTrans
    BY <1>1, CommitterIsClient DEF CommitInv, Types, Control
  <1>3. \A d \in Clients : /\ log'[d] = IF d = committer THEN {} ELSE log[d]
                           /\ trans'[d] = IF d = committer THEN trans[d] + 1 ELSE trans[d]
    BY <1>1 DEF CommitInv, Types, TranTypes
  <1>4. /\ \A q \in Pages : disk'[q] \subseteq written
        /\ \A b \in SwapBlocks : tdata'[b] \subseteq written
    BY <1>1 DEF CopyInv, OldChanges
  <1>5. ASSUME NEW d \in Clients, NEW q \in Pages PROVE CopyOK(d, q)'
    <2>1. CopyOK(d, q)
      BY DEF CopyInv
    <2>2. CASE d = committer
      <3>1. core'[d][q] = << >> /\ swapdadr'[d][q] = NoBlock
        BY <1>1, <2>1, <2>2 DEF CopyOK, HasCopy, Done
      <3>2. written \subseteq Changes /\ trans'[d] = trans[d] + 1 /\ trans[d] \in 1 .. MaxTrans
        BY <1>2, <1>3, <2>2 DEF CommitInv, Types, HistoryTypes
      <3> QED BY <1>1, <1>4, <3>1, <3>2, CopyNextTrans
    <2>3. CASE d # committer
      <3>1. ~Done(d, q)' /\ ~Done(d, q)
        BY <1>1, <2>3 DEF Done
      <3> QED BY <1>1, <1>3, <2>1, <2>3, <3>1, CopyKept
    <2> QED BY <2>2, <2>3
  <1>6. OldChanges'
    <2>1. ASSUME NEW d \in Clients
          PROVE  trans[d] \in Int /\ trans[d] <= trans'[d] /\ trans'[d] \in Int
      <3>1. trans[d] \in Int
        BY DEF CommitInv, Types, TranTypes
      <3>2. trans'[d] = trans[d] \/ trans'[d] = trans[d] + 1
        BY <1>3
      <3>3. CASE trans'[d] = trans[d]
        BY <3>1, <3>3
      <3>4. CASE trans'[d] = trans[d] + 1
        BY <3>1, <3>4
      <3> QED BY <3>2, <3>3, <3>4
    <2> QED BY <1>1, <1>4, <2>1, OldStays DEF CopyInv
  <1> QED BY <1>1, <1>5, <1>6 DEF CopyInv

\* A crash keeps the copies current.
LEMMA CopyCrash ==
  ASSUME CommitInv, CopyInv, crash
  PROVE  CopyInv'
  <1>1. /\ UNCHANGED <<disk, tdata, written>>
        /\ core' = NoCopies /\ swapdadr' = NoSwaps
        /\ failed' = [c \in Clients |-> FALSE]
        /\ trans' = [c \in Clients |->
               IF log[c] # {} /\ trans[c] <= MaxTrans THEN trans[c] + 1 ELSE trans[c]]
    BY DEF crash, fileVars
  <1>2. \A d \in Clients : trans'[d] = IF log[d] # {} THEN trans[d] + 1 ELSE trans[d]
    <2> SUFFICES ASSUME NEW d \in Clients
                 PROVE  trans'[d] = IF log[d] # {} THEN trans[d] + 1 ELSE trans[d]
      OBVIOUS
    <2>1. log[d] # {} => trans[d] <= MaxTrans
      BY DEF CommitInv, Control
    <2> QED BY <1>1, <2>1
  <1>3. /\ \A q \in Pages : disk'[q] \subseteq written
        /\ \A b \in SwapBlocks : tdata'[b] \subseteq written
    BY <1>1 DEF CopyInv, OldChanges
  <1>4. ASSUME NEW d \in Clients, NEW q \in Pages PROVE CopyOK(d, q)'
    <2>1. CopyOK(d, q)
      BY DEF CopyInv
    <2>2. core'[d][q] = << >> /\ swapdadr'[d][q] = NoBlock
      BY <1>1, EmptyTables
    <2>3. CASE log[d] # {}
      <3>1. /\ written \subseteq Changes /\ trans'[d] = trans[d] + 1
            /\ trans[d] \in 1 .. MaxTrans
        BY <1>2, <2>3 DEF CommitInv, Types, HistoryTypes, Control
      <3> QED BY <1>1, <1>3, <2>2, <3>1, CopyNextTrans
    <2>4. CASE log[d] = {}
      <3>1. MyChange(d, q)' = MyChange(d, q) /\ MyChange(d, q) \notin written
        BY <1>2, <2>1, <2>4 DEF MyChange, CopyOK, HasChanged
      <3> QED BY <1>1, <1>3, <2>2, <3>1 DEF CopyOK, HasCopy, HasChanged
    <2> QED BY <2>3, <2>4
  <1>5. OldChanges'
    <2>1. ASSUME NEW d \in Clients
          PROVE  trans[d] \in Int /\ trans[d] <= trans'[d] /\ trans'[d] \in Int
      <3>1. trans[d] \in Int
        BY DEF CommitInv, Types, TranTypes
      <3>2. trans'[d] = trans[d] \/ trans'[d] = trans[d] + 1
        BY <1>2
      <3>3. CASE trans'[d] = trans[d]
        BY <3>1, <3>3
      <3>4. CASE trans'[d] = trans[d] + 1
        BY <3>1, <3>4
      <3> QED BY <3>2, <3>3, <3>4
    <2> QED BY <1>1, <1>3, <2>1, OldStays DEF CopyInv
  <1>6. \A c \in Clients : ~failed'[c]
    BY <1>1
  <1> QED BY <1>4, <1>5, <1>6 DEF CopyInv

\* While the server starts there are no copies to keep current.
LEMMA CopyStart ==
  ASSUME CommitInv, CopyInv, start
  PROVE  CopyInv'
  <1>1. /\ mode # "up" /\ UNCHANGED <<core, swapdadr, tdata, written, trans, log, failed>>
    BY DEF start, init_tables, restoring_actions, load_tjc, restore_pair, follow_chain,
           transaction_restored, end_of_restoring, Restores, copyVars, tranVars, fileVars
  <1>2. \A q \in Pages : disk'[q] \subseteq written
    <2>1. CASE restore_pair
      <3>1. PICK pair \in tjc[chain].pairs : disk' = [disk EXCEPT ![pair[1]] = tdata[pair[2]]]
        BY <2>1 DEF restore_pair
      <3>2. chain \in TjcBlocks
        BY <2>1 DEF restore_pair, CommitInv, Types, StartTypes
      <3>3. pair[1] \in Pages /\ pair[2] \in SwapBlocks
        BY <3>2, JournalPages DEF CommitInv, Types
      <3>4. tdata[pair[2]] \subseteq written
        BY <3>3 DEF CopyInv, OldChanges
      <3> DEFINE x == tdata[pair[2]]
                 r == pair[1]
      <3>5. disk' = [disk EXCEPT ![r] = x] /\ x \subseteq written
        BY <3>1, <3>4
      <3> HIDE DEF x, r
      <3>6. \A q \in Pages : disk'[q] = x \/ disk'[q] = disk[q]
        BY <3>5 DEF CommitInv, Types, FileTypes
      <3> QED BY <3>5, <3>6 DEF CopyInv, OldChanges
    <2>2. CASE ~restore_pair
      <3>1. UNCHANGED disk
        BY <2>2 DEF start, init_tables, restoring_actions, load_tjc, follow_chain,
               transaction_restored, end_of_restoring, fileVars
      <3> QED BY <3>1 DEF CopyInv, OldChanges
    <2> QED BY <2>1, <2>2
  <1>3. ASSUME NEW d \in Clients, NEW q \in Pages PROVE CopyOK(d, q)'
    <2>1. CopyOK(d, q) /\ log[d] = {}
      BY <1>1 DEF CopyInv, CommitInv, Control
    <2>2. core'[d][q] = << >> /\ swapdadr'[d][q] = NoBlock
      BY <1>1, EmptyTables DEF CommitInv, Control
    <2>3. MyChange(d, q)' = MyChange(d, q) /\ MyChange(d, q) \notin written
      BY <1>1, <2>1 DEF MyChange, CopyOK, HasChanged
    <2> QED BY <1>1, <1>2, <2>2, <2>3 DEF CopyOK, HasCopy, HasChanged
  <1>4. OldChanges'
    BY <1>1, <1>2 DEF CopyInv, OldChanges
  <1> QED BY <1>1, <1>3, <1>4 DEF CopyInv

\* Every step keeps the copies current, when no failed commit leaves copies
\* that another client's commit would not update.
LEMMA CopyInvStays ==
  ASSUME Undisturbed, CommitInv, CopyInv, [Next]_vars
  PROVE  CopyInv'
  <1>1. ASSUME NEW c \in Clients, work(c) PROVE CopyInv'
    <2>1. ASSUME NEW p \in Pages, fix_priv_page(c, p) \/ unswap_block(c, p)
                                  \/ page_changed(c, p) \/ get_frame(c, p)
          PROVE  CopyInv'
      BY <2>1, CopyFixPriv, CopyUnswap, CopyPageChanged, CopyGetFrame
    <2> QED BY <1>1, <2>1, CopyRollBack, CopyCommit DEF work
  <1>2. ASSUME NEW p \in SystemPages, fix_any_page(p) \/ get_shared_frame(p) PROVE CopyInv'
    BY <1>2, CopyShared
  <1>3. ASSUME commit_step PROVE CopyInv'
    <2>1. ASSUME NEW p \in Pages, make_swapped(p) \/ wr_nothing(p) \/ wr_changes(p)
          PROVE  CopyInv'
      BY <2>1, CopyMakeSwapped, CopyWrNothing, CopyWrChanges
    <2> QED BY <1>3, <2>1, CopySaveDependent, CopySaveLeader, CopySaveTjcFails,
               CopyWriteBlock, CopyEndOfCommit DEF commit_step
  <1>4. ASSUME finish \/ UNCHANGED vars PROVE CopyInv'
    <2>1. UNCHANGED <<disk, tdata, core, swapdadr, trans, log, written, failed>>
          /\ UNCHANGED <<committer, stage, todo>>
      BY <1>4 DEF finish, vars, fileVars, copyVars, tranVars, commitVars
    <2> QED BY <2>1, CopiesKept DEF Done
  <1> QED BY <1>1, <1>2, <1>3, <1>4, CopyCrash, CopyStart DEF Next

\* The copies are current and in the log in every state.
THEOREM CopyInvariance ==
  ASSUME Undisturbed
  PROVE  Spec => [](CommitInv /\ CopyInv)
  <1>1. Init => CommitInv /\ CopyInv
    BY InitCommitInv, InitCopyInv
  <1>2. CommitInv /\ CopyInv /\ [Next]_vars => CommitInv' /\ CopyInv'
    BY CommitInvStays, CopyInvStays
  <1> QED BY <1>1, <1>2, PTL DEF Spec

\* wr_changes, which writes whole pages, undoes no commit of another client:
\* every copy, in a frame or swapped, has what was committed since it was made.
THEOREM CopiesAreCurrent ==
  ASSUME Undisturbed
  PROVE  Spec => []CopiesCurrent
  <1>1. CopyInv => CopiesCurrent
    <2> SUFFICES ASSUME CopyInv, NEW c \in Clients, NEW p \in Pages
                 PROVE  /\ \A i \in DOMAIN core[c][p] : core[c][p][i] = Current(c, p)
                        /\ swapdadr[c][p] # NoBlock => tdata[swapdadr[c][p]] = Current(c, p)
      BY DEF CopiesCurrent
    <2>1. CopyOK(c, p)
      BY DEF CopyInv
    <2>2. ASSUME core[c][p] = <<Current(c, p)>>
          PROVE  \A i \in DOMAIN core[c][p] : core[c][p][i] = Current(c, p)
      <3> DEFINE x == Current(c, p)
      <3> HIDE DEF x
      <3>1. \A i \in DOMAIN <<x>> : <<x>>[i] = x
        OBVIOUS
      <3> QED BY <2>2, <3>1 DEF x
    <2>3. ASSUME core[c][p] = << >>
          PROVE  \A i \in DOMAIN core[c][p] : core[c][p][i] = Current(c, p)
      <3>1. DOMAIN << >> = {}
        OBVIOUS
      <3> QED BY <2>3, <3>1
    <2> QED BY <2>1, <2>2, <2>3 DEF CopyOK
  <1> QED BY <1>1, CopyInvariance, PTL

\* commit and roll_back, which visit the pages in the log, leave no copy over.
THEOREM CopiesAreLogged ==
  ASSUME Undisturbed
  PROVE  Spec => []CopiesLogged
  <1>1. CopyInv => CopiesLogged
    BY DEF CopyInv, CopyOK, HasCopy, CopiesLogged
  <1> QED BY <1>1, CopyInvariance, PTL

-----------------------------------------------------------------------------
(* The database file has what was committed *)

\* A transaction that saved its leader is over, or it is writing its pages.
HistoryInv ==
    /\ stage # "idle" => log[committer] # {}
    /\ \A c \in Clients : \A n \in 1 .. MaxTrans : <<c, n>> \in committed =>
          n <= trans[c] /\ (n = trans[c] => committer = c /\ stage = "write")

\* The changes of a page by transactions that saved their leader.
Comm(p) == {ch \in written : ch[1] = p /\ <<ch[2], ch[3]>> \in committed}

\* A commit that writes its pages has written those not in todo.
DiskInv ==
    mode = "up" => \A p \in Pages :
        /\ stage # "write" \/ p \notin todo => disk[p] = Comm(p)
        /\ stage = "write" => Current(committer, p) = Comm(p)

\* Steps that end no transaction and commit none.
LEMMA HistoryKept ==
  ASSUME HistoryInv, UNCHANGED <<committed, trans>>,
         stage' # "idle" => log'[committer'] # {},
         stage = "write" => stage' = "write" /\ committer' = committer
  PROVE  HistoryInv'
  BY DEF HistoryInv

\* A client's work does not commit its transaction, and roll_back ends it.
LEMMA HistoryClient ==
  ASSUME CommitInv, HistoryInv, NEW c \in Clients, work(c)
  PROVE  HistoryInv'
  <1>1. UNCHANGED <<committed>>
    BY DEF work, fix_priv_page, unswap_block, page_changed, get_frame, roll_back, commit
  <1>2. stage # "idle" => committer \in Clients
    BY CommitterIsClient DEF CommitInv, Types
  <1>3. CASE roll_back(c)
    <2>1. /\ UNCHANGED <<stage, committer>> /\ committer # c
          /\ log' = [log EXCEPT ![c] = {}] /\ trans' = [trans EXCEPT ![c] = @ + 1]
      BY <1>3 DEF roll_back, commitVars
    <2>2. \A d \in Clients : /\ log'[d] = IF d = c THEN {} ELSE log[d]
                             /\ trans'[d] = IF d = c THEN trans[d] + 1 ELSE trans[d]
                             /\ trans[d] \in Int
      BY <2>1 DEF CommitInv, Types, TranTypes
    <2>3. ASSUME NEW d \in Clients, NEW n \in 1 .. MaxTrans, <<d, n>> \in committed
          PROVE  n <= trans'[d] /\ (n = trans'[d] => committer = d /\ stage = "write")
      <3>1. n <= trans[d] /\ (n = trans[d] => committer = d /\ stage = "write")
        BY <2>3 DEF HistoryInv
      <3>2. CASE d = c
        <4>1. trans'[d] = trans[d] + 1 /\ trans[d] \in Int /\ n \in Int
          BY <2>2, <3>2
        <4>2. n <= trans'[d] /\ n # trans'[d]
          BY <3>1, <4>1
        <4> QED BY <4>2
      <3>3. CASE d # c
        BY <2>2, <3>1, <3>3
      <3> QED BY <3>2, <3>3
    <2>4. stage # "idle" => log'[committer] # {}
      BY <1>2, <2>1, <2>2 DEF HistoryInv
    <2> QED BY <1>1, <2>1, <2>3, <2>4 DEF HistoryInv
  <1>4. CASE commit(c)
    <2>1. UNCHANGED <<trans, log>> /\ stage' = "save" /\ committer' = c /\ log[c] # {}
          /\ committer = NoClient
      BY <1>4 DEF commit, tranVars
    <2>2. stage = "idle"
      BY <2>1 DEF CommitInv, Control
    <2> QED BY <1>1, <2>1, <2>2, HistoryKept
  <1>5. CASE ~roll_back(c) /\ ~commit(c)
    <2>1. PICK p \in Pages : \/ fix_priv_page(c, p) \/ unswap_block(c, p)
                             \/ page_changed(c, p) \/ get_frame(c, p)
      BY <1>5 DEF work
    <2>2. /\ UNCHANGED <<trans, stage, committer>>
          /\ log' = log \/ log' = [log EXCEPT ![c] = @ \cup {p}]
      BY <2>1 DEF fix_priv_page, unswap_block, page_changed, get_frame, tranVars, commitVars
    <2>3. \A d \in Clients : log[d] \subseteq log'[d]
      BY <2>2 DEF CommitInv, Types, TranTypes
    <2>4. stage # "idle" => log'[committer] # {}
      BY <1>2, <2>3 DEF HistoryInv
    <2> QED BY <1>1, <2>2, <2>4, HistoryKept
  <1> QED BY <1>3, <1>4, <1>5

\* A transaction gets its next number.
LEMMA HistoryNext ==
  ASSUME CommitInv, HistoryInv, UNCHANGED committed, stage' = "idle",
         NEW T \in SUBSET Clients, stage = "write" => committer \in T,
         \A d \in Clients : trans'[d] = IF d \in T THEN trans[d] + 1 ELSE trans[d]
  PROVE  HistoryInv'
  <1>1. ASSUME NEW d \in Clients, NEW n \in 1 .. MaxTrans, <<d, n>> \in committed
        PROVE  n <= trans'[d] /\ n # trans'[d]
    <2>1. n <= trans[d] /\ (n = trans[d] => committer = d /\ stage = "write")
      BY <1>1 DEF HistoryInv
    <2>2. trans[d] \in Int /\ n \in Int
      BY DEF CommitInv, Types, TranTypes
    <2>3. CASE d \in T
      <3>1. trans'[d] = trans[d] + 1
        BY <2>3
      <3> QED BY <2>1, <2>2, <3>1
    <2>4. CASE d \notin T
      <3>1. trans'[d] = trans[d] /\ n # trans[d]
        BY <2>1, <2>4
      <3> QED BY <2>1, <3>1
    <2> QED BY <2>3, <2>4
  <1> QED BY <1>1 DEF HistoryInv

\* The end of a commit and a crash end transactions.
LEMMA HistoryEnd ==
  ASSUME CommitInv, HistoryInv, end_of_commit \/ crash
  PROVE  HistoryInv'
  <1>1. UNCHANGED committed /\ stage' = "idle"
    BY DEF end_of_commit, crash
  <1>2. CASE end_of_commit
    <2>1. committer \in Clients /\ trans' = [trans EXCEPT ![committer] = @ + 1]
      BY <1>2, CommitterIsClient DEF end_of_commit, Me, CommitInv, Types
    <2>2. \A d \in Clients : trans'[d] = IF d \in {committer} THEN trans[d] + 1 ELSE trans[d]
      BY <2>1 DEF CommitInv, Types, TranTypes
    <2> QED BY <1>1, <2>1, <2>2, HistoryNext
  <1>3. CASE crash
    <2> DEFINE T == {d \in Clients : log[d] # {}}
    <2>1. trans' = [c \in Clients |->
              IF log[c] # {} /\ trans[c] <= MaxTrans THEN trans[c] + 1 ELSE trans[c]]
      BY <1>3 DEF crash
    <2>2. ASSUME NEW d \in Clients PROVE trans'[d] = IF d \in T THEN trans[d] + 1 ELSE trans[d]
      <3>1. log[d] # {} => trans[d] <= MaxTrans
        BY DEF CommitInv, Control
      <3> QED BY <2>1, <3>1
    <2>3. stage = "write" => committer \in T
      BY CommitterIsClient DEF CommitInv, Types, HistoryInv
    <2>4. T \in SUBSET Clients
      OBVIOUS
    <2> HIDE DEF T
    <2> QED BY <1>1, <2>2, <2>3, <2>4, HistoryNext
  <1> QED BY <1>2, <1>3

\* Every step keeps the numbers of committed transactions in order.
LEMMA HistoryInvStays ==
  ASSUME CommitInv, HistoryInv, [Next]_vars
  PROVE  HistoryInv'
  <1>1. stage # "idle" => committer \in Clients
    BY CommitterIsClient DEF CommitInv, Types
  <1>2. ASSUME NEW p \in SystemPages, fix_any_page(p) \/ get_shared_frame(p) PROVE HistoryInv'
    BY <1>2, HistoryKept DEF HistoryInv, fix_any_page, get_shared_frame, commitVars, tranVars
  <1>3. ASSUME NEW p \in Pages, make_swapped(p) \/ wr_nothing(p) \/ wr_changes(p)
        PROVE  HistoryInv'
    BY <1>3, HistoryKept DEF HistoryInv, make_swapped, wr_nothing, wr_changes, tranVars
  <1>4. ASSUME save_dependent \/ write_block PROVE HistoryInv'
    BY <1>4, HistoryKept DEF HistoryInv, save_dependent, write_block, tranVars
  <1>5. ASSUME save_tjc_fails PROVE HistoryInv'
    BY <1>5, HistoryKept DEF save_tjc_fails
  <1>6. ASSUME save_leader PROVE HistoryInv'
    <2>1. /\ UNCHANGED <<committer, trans, log>> /\ stage = "save" /\ stage' = "write"
          /\ committed' = committed \cup {<<committer, trans[committer]>>}
      BY <1>6 DEF save_leader, tranVars, MyTrans, Me
    <2>2. ASSUME NEW d \in Clients, NEW n \in 1 .. MaxTrans, <<d, n>> \in committed'
          PROVE  n <= trans[d] /\ (n = trans[d] => committer = d)
      <3>1. CASE <<d, n>> \in committed
        BY <3>1 DEF HistoryInv
      <3>2. CASE d = committer /\ n = trans[committer]
        BY <3>2
      <3> QED BY <2>1, <2>2, <3>1, <3>2
    <2> QED BY <2>1, <2>2 DEF HistoryInv
  <1>7. ASSUME start PROVE HistoryInv'
    <2>1. UNCHANGED <<committed, trans, log, stage, committer>>
      BY <1>7 DEF start, init_tables, restoring_actions, load_tjc, restore_pair, follow_chain,
             transaction_restored, end_of_restoring, tranVars, commitVars
    <2> QED BY <2>1, HistoryKept DEF HistoryInv
  <1>8. ASSUME finish \/ UNCHANGED vars PROVE HistoryInv'
    <2>1. UNCHANGED <<committed, trans, log, stage, committer>>
      BY <1>8 DEF finish, vars, tranVars, commitVars
    <2> QED BY <2>1, HistoryKept DEF HistoryInv
  <1>9. ASSUME commit_step PROVE HistoryInv'
    BY <1>3, <1>4, <1>5, <1>6, <1>9, HistoryEnd DEF commit_step
  <1> QED BY <1>2, <1>7, <1>8, <1>9, HistoryClient, HistoryEnd DEF Next

\* Steps that neither write pages nor commit a transaction.
LEMMA DiskKept ==
  ASSUME DiskInv, UNCHANGED <<disk, written, committed, mode>>,
         \/ UNCHANGED <<stage, committer, todo>>
            /\ (stage = "write" => trans'[committer] = trans[committer])
         \/ stage # "write" /\ stage' # "write"
  PROVE  DiskInv'
  <1>1. \A p \in Pages : Comm(p)' = Comm(p)
    BY DEF Comm
  <1>2. stage' = "write" => /\ UNCHANGED <<stage, committer, todo>>
                            /\ \A p \in Pages : Current(committer, p)' = Current(committer, p)
    BY DEF Current, HasChanged, MyChange
  <1> QED BY <1>1, <1>2 DEF DiskInv

\* A change of an open transaction is not one of the committed ones.
LEMMA DiskPageChanged ==
  ASSUME CommitInv, HistoryInv, DiskInv, NEW c \in Clients, NEW p \in Pages, page_changed(c, p)
  PROVE  DiskInv'
  <1>1. /\ UNCHANGED <<disk, committed, mode, stage, committer, todo, trans>>
        /\ written' = written \cup {<<p, c, trans[c]>>}
        /\ committer # c /\ trans[c] <= MaxTrans
    BY DEF page_changed, Works, fileVars, commitVars, startVars, MyChange
  <1>2. <<c, trans[c]>> \notin committed
    <2>1. trans[c] \in 1 .. MaxTrans
      BY <1>1 DEF CommitInv, Types, TranTypes
    <2> QED BY <1>1, <2>1 DEF HistoryInv
  <1>3. \A q \in Pages : Comm(q)' = Comm(q)
    BY <1>1, <1>2 DEF Comm
  <1>4. \A q \in Pages : Current(committer, q)' = Current(committer, q)
    BY <1>1 DEF Current, HasChanged, MyChange
  <1> QED BY <1>1, <1>3, <1>4 DEF DiskInv

\* The transaction whose leader is saved commits its changes, no others.
LEMMA DiskSaveLeader ==
  ASSUME CommitInv, CopyInv, HistoryInv, DiskInv, save_leader
  PROVE  DiskInv'
  <1>1. /\ UNCHANGED <<disk, written, mode, committer, trans>>
        /\ committed' = committed \cup {<<committer, trans[committer]>>}
        /\ mode = "up" /\ stage = "save" /\ stage' = "write" /\ todo' = log[committer]
    BY DEF save_leader, save_tjc_block, startVars, tranVars, MyTrans, Me
  <1>2. \A q \in Pages : disk[q] = Comm(q)
    BY <1>1 DEF DiskInv
  <1>3. ASSUME NEW q \in Pages PROVE Comm(q)' = Current(committer, q)'
    <2>1. \A ch \in written : ch = <<ch[1], ch[2], ch[3]>>
      BY DEF CommitInv, Types, HistoryTypes, Changes
    <2> DEFINE ct == trans[committer]
               mine == <<q, committer, ct>>
    <2>2. Comm(q)' = Comm(q) \cup (IF mine \in written THEN {mine} ELSE {})
      <3>1. ASSUME NEW ch
            PROVE  ch \in Comm(q)' <=> ch \in Comm(q) \/ (ch = mine /\ mine \in written)
        <4>1. CASE ch \notin written
          BY <1>1, <4>1 DEF Comm
        <4>2. CASE ch \in written
          <5>1. ch = <<ch[1], ch[2], ch[3]>>
            BY <2>1, <4>2
          <5>2. ch \in Comm(q)' <=> ch[1] = q /\ (<<ch[2], ch[3]>> \in committed
                                                  \/ <<ch[2], ch[3]>> = <<committer, ct>>)
            BY <1>1, <4>2 DEF Comm
          <5>3. ch \in Comm(q) <=> ch[1] = q /\ <<ch[2], ch[3]>> \in committed
            BY <4>2 DEF Comm
          <5>4. <<ch[2], ch[3]>> = <<committer, ct>> <=> ch[2] = committer /\ ch[3] = ct
            OBVIOUS
          <5>5. ch = mine <=> ch[1] = q /\ ch[2] = committer /\ ch[3] = ct
            BY <5>1
          <5> QED BY <4>2, <5>2, <5>3, <5>4, <5>5, Zenon
        <4> QED BY <4>1, <4>2
      <3> QED BY <3>1
    <2>3. Current(committer, q)' = disk[q] \cup (IF mine \in written THEN {mine} ELSE {})
      BY <1>1 DEF Current, HasChanged, MyChange
    <2> QED BY <1>2, <2>2, <2>3
  <1>4. ASSUME NEW q \in Pages, q \notin log[committer] PROVE disk'[q] = Comm(q)'
    <2>1. committer \in Clients
      BY <1>1, CommitterIsClient DEF CommitInv, Types
    <2>2. CopyOK(committer, q)
      BY <1>4, <2>1 DEF CopyInv
    <2>3. ~HasChanged(committer, q)
      BY <1>4, <2>2 DEF CopyOK
    <2>4. ~HasChanged(committer, q)'
      BY <1>1, <2>3 DEF HasChanged, MyChange
    <2>5. Current(committer, q)' = disk'[q]
      BY <2>4 DEF Current
    <2> QED BY <1>3, <2>5
  <1> QED BY <1>1, <1>3, <1>4 DEF DiskInv

\* A page that wr_changes does not write has nothing new.
LEMMA DiskWrNothing ==
  ASSUME CommitInv, CopyInv, DiskInv, NEW p \in Pages, wr_nothing(p)
  PROVE  DiskInv'
  <1>1. /\ UNCHANGED <<disk, written, committed, mode, stage, committer, trans>>
        /\ mode = "up" /\ stage = "write" /\ p \in todo /\ todo' = todo \ {p}
        /\ ~HasChanged(committer, p)
           \/ (core[committer][p] = << >> /\ swapdadr[committer][p] = NoBlock)
    BY DEF wr_nothing, fileVars, startVars, tranVars, Me
  <1>2. committer \in Clients
    BY <1>1, CommitterIsClient DEF CommitInv, Types
  <1>3. ~HasChanged(committer, p)
    BY <1>1, <1>2 DEF CopyInv, CopyOK, HasCopy, Done
  <1>4. \A q \in Pages : Comm(q)' = Comm(q)
    BY <1>1 DEF Comm
  <1>5. \A q \in Pages : Current(committer, q)' = Current(committer, q)
    BY <1>1 DEF Current, HasChanged, MyChange
  <1>6. Current(committer, p) = disk[p]
    BY <1>3 DEF Current
  <1> QED BY <1>1, <1>4, <1>5, <1>6 DEF DiskInv

\* The page written is what the client's copy is; what the client will find in
\* its pages is the same as before.
LEMMA WriteBlockKeepsCurrent ==
  ASSUME CommitInv, CopyInv, write_block, NEW p, p = writing, NEW c, c = committer
  PROVE  /\ UNCHANGED <<written, committed, mode, stage, committer, trans>>
         /\ mode = "up" /\ stage = "write" /\ p \in Pages /\ c \in Clients /\ todo' = todo \ {p}
         /\ \A q \in Pages : disk'[q] = IF q = p THEN Current(c, p) ELSE disk[q]
         /\ \A q \in Pages : /\ Current(c, q)' = Current(c, q)
                             /\ HasChanged(c, q)' <=> HasChanged(c, q)
  <1> DEFINE page == Last(core[c][p])
  <1>1. /\ UNCHANGED <<written, committed, mode, stage, committer, trans>>
        /\ mode = "up" /\ writing # NoPage
        /\ disk' = [disk EXCEPT ![p] = page] /\ todo' = todo \ {p}
    BY DEF write_block, startVars, tranVars, Me
  <1>2. /\ p \in Pages /\ stage = "write" /\ c \in Clients
        /\ core[c][p] # << >> /\ HasChanged(c, p)
    BY <1>1, CommitterIsClient DEF CommitInv, Types, CommitTypes, Control, WritingInv
  <1>3. page = core[c][p][1]
    BY <1>2, CommitterFrames
  <1>4. page = Current(c, p) /\ MyChange(c, p) \in page
    <2>1. core[c][p] = <<Current(c, p)>>
      BY <1>2 DEF CopyInv, CopyOK
    <2> QED BY <1>2, <1>3, <2>1 DEF Current
  <1> HIDE DEF page
  <1>5. \A q \in Pages : disk'[q] = IF q = p THEN page ELSE disk[q]
    BY <1>1 DEF CommitInv, Types, FileTypes
  <1>6. ASSUME NEW q \in Pages
        PROVE  Current(c, q)' = Current(c, q) /\ (HasChanged(c, q)' <=> HasChanged(c, q))
    <2>1. MyChange(c, q)' = MyChange(c, q)
      BY <1>1 DEF MyChange
    <2>2. HasChanged(c, q)' <=> HasChanged(c, q)
      BY <1>1, <2>1 DEF HasChanged
    <2>3. CASE q = p
      <3>1. Current(c, q)' = page \cup {MyChange(c, q)}
        BY <1>2, <1>5, <2>1, <2>2, <2>3 DEF Current
      <3> QED BY <1>4, <2>2, <2>3, <3>1
    <2>4. CASE q # p
      BY <1>5, <2>1, <2>2, <2>4 DEF Current
    <2> QED BY <2>3, <2>4
  <1> QED BY <1>1, <1>2, <1>4, <1>5, <1>6

\* The page written has what its transaction commits.
LEMMA DiskWriteBlock ==
  ASSUME CommitInv, CopyInv, DiskInv, write_block,
         NEW p, p = writing, NEW c, c = committer
  PROVE  DiskInv'
  <1>1. /\ UNCHANGED <<written, committed, mode, stage, committer, trans>>
        /\ mode = "up" /\ stage = "write" /\ p \in Pages /\ todo' = todo \ {p}
        /\ \A q \in Pages : disk'[q] = IF q = p THEN Current(c, p) ELSE disk[q]
        /\ \A q \in Pages : Current(c, q)' = Current(c, q)
    BY WriteBlockKeepsCurrent
  <1>2. \A q \in Pages : Comm(q)' = Comm(q)
    BY <1>1 DEF Comm
  <1>3. ASSUME NEW q \in Pages, q \notin todo' PROVE disk'[q] = Comm(q)'
    <2>1. CASE q = p
      BY <1>1, <1>2, <2>1 DEF DiskInv
    <2>2. CASE q # p
      BY <1>1, <1>2, <1>3, <2>2 DEF DiskInv
    <2> QED BY <2>1, <2>2
  <1>4. \A q \in Pages : Current(c, q)' = Comm(q)'
    BY <1>1, <1>2 DEF DiskInv
  <1>5. \A q \in Pages : Current(committer, q)' = Comm(q)'
    BY <1>1, <1>4 DEF Current, HasChanged, MyChange
  <1> QED BY <1>1, <1>3, <1>5 DEF DiskInv

\* When commit ends, all its pages have been written.
LEMMA DiskEndOfCommit ==
  ASSUME DiskInv, end_of_commit
  PROVE  DiskInv'
  <1>1. /\ UNCHANGED <<disk, written, committed, mode>> /\ mode = "up"
        /\ todo = {} /\ stage' = "idle"
    BY DEF end_of_commit, startVars
  <1>2. \A q \in Pages : Comm(q)' = Comm(q)
    BY <1>1 DEF Comm
  <1> QED BY <1>1, <1>2 DEF DiskInv

\* A running server keeps the database file and the committed transactions
\* in step.
LEMMA DiskRunning ==
  ASSUME CommitInv, CopyInv, HistoryInv, DiskInv, [Next]_vars, ~crash, ~start
  PROVE  DiskInv'
  <1>1. stage # "idle" => committer \in Clients
    BY CommitterIsClient DEF CommitInv, Types
  <1>2. ASSUME NEW c \in Clients, work(c) PROVE DiskInv'
    <2>1. CASE roll_back(c)
      <3>1. /\ UNCHANGED <<disk, written, committed, mode, stage, committer, todo>>
            /\ committer # c /\ trans' = [trans EXCEPT ![c] = @ + 1]
        BY <2>1 DEF roll_back, fileVars, commitVars, startVars
      <3>2. \A d \in Clients : d # c => trans'[d] = trans[d]
        BY <3>1 DEF CommitInv, Types, TranTypes
      <3> QED BY <1>1, <3>1, <3>2, DiskKept
    <2>2. CASE commit(c)
      <3>1. /\ UNCHANGED <<disk, written, committed, mode>> /\ stage' = "save"
            /\ committer = NoClient
        BY <2>2 DEF commit, fileVars, startVars
      <3>2. stage = "idle"
        BY <3>1 DEF CommitInv, Control
      <3> QED BY <3>1, <3>2, DiskKept
    <2>3. ASSUME NEW p \in Pages, fix_priv_page(c, p) \/ unswap_block(c, p) \/ get_frame(c, p)
          PROVE  DiskInv'
      <3>1. UNCHANGED <<disk, written, committed, mode, stage, committer, todo, trans>>
        BY <2>3 DEF fix_priv_page, unswap_block, get_frame, fileVars, commitVars, startVars,
                    tranVars
      <3> QED BY <3>1, DiskKept
    <2> QED BY <1>2, <2>1, <2>2, <2>3, DiskPageChanged DEF work
  <1>3. ASSUME NEW p \in SystemPages, fix_any_page(p) \/ get_shared_frame(p) PROVE DiskInv'
    <2>1. UNCHANGED <<disk, written, committed, mode, stage, committer, todo, trans>>
      BY <1>3 DEF fix_any_page, get_shared_frame, fileVars, commitVars, startVars, tranVars
    <2> QED BY <2>1, DiskKept
  <1>4. ASSUME commit_step PROVE DiskInv'
    <2>1. ASSUME NEW p \in Pages, make_swapped(p) PROVE DiskInv'
      <3>1. UNCHANGED <<disk, written, committed, mode, stage>> /\ stage = "save"
        BY <2>1 DEF make_swapped, startVars
      <3> QED BY <3>1, DiskKept
    <2>2. ASSUME NEW p \in Pages, wr_changes(p) PROVE DiskInv'
      <3>1. UNCHANGED <<disk, written, committed, mode, stage, committer, todo, trans>>
        BY <2>2 DEF wr_changes, fileVars, startVars, tranVars
      <3> QED BY <3>1, DiskKept
    <2>3. ASSUME save_dependent \/ save_tjc_fails PROVE DiskInv'
      <3>1. UNCHANGED <<disk, written, committed, mode>> /\ stage = "save" /\ stage' # "write"
        BY <2>3 DEF save_dependent, save_tjc_fails, startVars, fileVars
      <3> QED BY <3>1, DiskKept
    <2> QED BY <1>4, <2>1, <2>2, <2>3, DiskWrNothing, DiskSaveLeader, DiskWriteBlock,
               DiskEndOfCommit DEF commit_step
  <1>5. ASSUME finish \/ UNCHANGED vars PROVE DiskInv'
    <2>1. UNCHANGED <<disk, written, committed, mode, stage, committer, todo, trans>>
      BY <1>5 DEF finish, vars, fileVars, commitVars, startVars, tranVars
    <2> QED BY <2>1, DiskKept
  <1> QED BY <1>2, <1>3, <1>4, <1>5 DEF Next

-----------------------------------------------------------------------------
(* Durability of a server that does not crash *)

\* What the invariants say of the database file, of a server that is up.
LEMMA DiskProperties ==
  ASSUME CommitInv, HistoryInv, DiskInv, mode = "up"
  PROVE  Durable /\ OnlyCommitted
  <1>1. Durable
    <2> SUFFICES ASSUME Quiet, NEW ch \in written, <<ch[2], ch[3]>> \in committed
                 PROVE  ch \in disk[ch[1]]
      BY DEF Durable
    <2>1. stage # "write"
      BY DEF Quiet, CommitInv, Control
    <2>2. ch[1] \in Pages
      BY DEF CommitInv, Types, HistoryTypes, Changes
    <2>3. ch \in Comm(ch[1])
      BY DEF Comm
    <2> QED BY <2>1, <2>2, <2>3 DEF DiskInv
  <1>2. ASSUME NEW p \in Pages, NEW ch \in disk[p]
        PROVE  ch[1] = p /\ <<ch[2], ch[3]>> \in committed
    <2>1. disk[p] \subseteq Comm(p)
      <3>1. CASE stage # "write"
        BY <3>1 DEF DiskInv
      <3>2. CASE stage = "write"
        BY <3>2 DEF DiskInv, Current
      <3> QED BY <3>1, <3>2
    <2> QED BY <2>1 DEF Comm
  <1> QED BY <1>1, <1>2 DEF OnlyCommitted

\* Nothing is committed in a new database file, and it is empty.
LEMMA InitHistoryDisk == Init => HistoryInv /\ DiskInv
  BY DEF Init, HistoryInv, DiskInv, Comm

\* Only a crash stops a server, and only end_of_restoring ends its start.
LEMMA ModeChanges ==
  ASSUME [Next]_vars, ~crash, ~start
  PROVE  UNCHANGED mode
  <1>1. ASSUME NEW c \in Clients, work(c) PROVE UNCHANGED mode
    BY <1>1 DEF work, fix_priv_page, unswap_block, page_changed, get_frame, roll_back, commit,
                startVars
  <1>2. ASSUME commit_step PROVE UNCHANGED mode
    BY <1>2 DEF commit_step, make_swapped, wr_nothing, wr_changes, save_dependent, save_leader,
                save_tjc_fails, write_block, end_of_commit, startVars
  <1> QED BY <1>1, <1>2 DEF Next, fix_any_page, get_shared_frame, finish, vars, startVars

\* A server that never crashes stays up.
StaysUp == mode = "up"

\* The server stays up.
LEMMA NoCrash ==
  ASSUME MaxCrashes = 0, CommitInv, StaysUp, [Next]_vars
  PROVE  ~crash /\ ~start /\ StaysUp'
  <1>1. ~crash
    BY DEF CommitInv, Types, StartTypes, crash
  <1>2. ~start
    BY DEF start, StaysUp, init_tables, restoring_actions, load_tjc, restore_pair, follow_chain,
           transaction_restored, end_of_restoring, Restores
  <1>3. StaysUp'
    BY <1>1, <1>2, ModeChanges DEF StaysUp
  <1> QED BY <1>1, <1>2, <1>3

\* Without crashes, what is committed is in the database file and nothing
\* else is, whatever several clients and the swapping of pages do meanwhile.
THEOREM DurableWithoutCrashes ==
  ASSUME Undisturbed, MaxCrashes = 0
  PROVE  Spec => [](Durable /\ OnlyCommitted)
  <1> DEFINE Inv == CommitInv /\ CopyInv /\ HistoryInv /\ DiskInv /\ StaysUp
  <1>1. Init => Inv
    BY InitCommitInv, InitCopyInv, InitHistoryDisk DEF Init, StaysUp
  <1>2. Inv /\ [Next]_vars => Inv'
    BY CommitInvStays, CopyInvStays, HistoryInvStays, DiskRunning, NoCrash
  <1>3. Inv => Durable /\ OnlyCommitted
    BY DiskProperties DEF StaysUp
  <1> HIDE DEF Inv
  <1> QED BY <1>1, <1>2, <1>3, PTL DEF Spec

-----------------------------------------------------------------------------
(* The journal of a commit *)

\* The TJC blocks in s are linked from the last one to the first; the tag of
\* the last one is given.
Chained(s, last) ==
    \A i \in 1 .. Len(s) :
        /\ tjc[s[i]].tag = IF i = Len(s) THEN last ELSE "VALID_TJC_DEPENDENT"
        /\ tjc[s[i]].link = IF i = 1 THEN NoBlock ELSE s[i - 1]

InChain(s, p, b) == \E i \in 1 .. Len(s) : <<p, b>> \in tjc[s[i]].pairs

\* Page p has been saved to swap block b for the commit.
Saved(p, b) == InChain(tjc_all, p, b) \/ (stage = "save" /\ <<p, b>> \in core_tjc)

ChainInv ==
    stage # "idle" =>
        Chained(tjc_all, IF stage = "write" THEN "VALID_TJC_LEADER" ELSE "VALID_TJC_DEPENDENT")

\* The TJC blocks saved are in use, and save_block will not clear them.
SavedBlocks ==
    stage # "idle" => \A i \in 1 .. Len(tjc_all) :
        /\ tjc_all[i] \in alloc_map /\ tjc_all[i] < tjc_init_limit
        /\ \A n \in TjcBlocks \ alloc_map : tjc_all[i] < n

\* The blocks in the pairs have the pages as they will be.
PairsInv ==
    stage # "idle" => \A p \in Pages, b \in SwapBlocks : Saved(p, b) =>
        /\ tdata[b] = Current(committer, p)
        /\ stage = "save" => swapdadr[committer][p] = b

\* No changed page is left out of the journal.
ChangesSaved ==
    stage # "idle" => \A p \in Pages : HasChanged(committer, p) =>
        (stage = "save" /\ p \in todo) \/ \E b \in SwapBlocks : Saved(p, b)

\* A page which is yet to be written does not need a new swap block.
SwapsUsed ==
    stage = "write" => \A p \in todo : HasChanged(committer, p) =>
        writing = p \/ swapdadr[committer][p] # NoBlock

JournalInv == ChainInv /\ SavedBlocks /\ PairsInv /\ ChangesSaved /\ SwapsUsed

\* Without a commit there is no journal.
LEMMA NoJournal ==
  ASSUME stage' = "idle"
  PROVE  JournalInv'
  BY DEF JournalInv, ChainInv, SavedBlocks, PairsInv, ChangesSaved, SwapsUsed

\* What a page will be does not depend on the copies of it.
LEMMA CurrentKept ==
  ASSUME NEW c, UNCHANGED <<disk, written, trans>>
  PROVE  \A p \in Pages : /\ Current(c, p)' = Current(c, p)
                          /\ HasChanged(c, p)' <=> HasChanged(c, p)
  BY DEF Current, HasChanged, MyChange

\* The TJC blocks of the commit are left alone.
LEMMA ChainKept ==
  ASSUME ChainInv, SavedBlocks, CommitTypes, MapTypes, stage # "idle",
         UNCHANGED <<stage, tjc_all>>, tjc_init_limit' \in Int,
         tjc_init_limit' >= tjc_init_limit,
         \A i \in 1 .. Len(tjc_all) : tjc'[tjc_all[i]] = tjc[tjc_all[i]],
         \A b \in TjcBlocks : b \in alloc_map' <=> b \in alloc_map
  PROVE  /\ ChainInv' /\ SavedBlocks'
         /\ \A p \in Pages, b \in SwapBlocks : InChain(tjc_all, p, b)' <=> InChain(tjc_all, p, b)
  <1>1. ChainInv'
    BY DEF ChainInv, Chained
  <1>2. \A p \in Pages, b \in SwapBlocks : InChain(tjc_all, p, b)' <=> InChain(tjc_all, p, b)
    BY DEF InChain
  <1>3. \A i \in 1 .. Len(tjc_all) : tjc_all[i] \in TjcBlocks
    BY DEF CommitTypes
  <1>4. \A x \in TjcBlocks : x \in Int
    BY BlockFacts
  <1>5. tjc_init_limit \in Int
    BY DEF MapTypes
  <1>6. SavedBlocks'
    <2> SUFFICES ASSUME NEW i \in 1 .. Len(tjc_all)
                 PROVE  /\ tjc_all[i] \in alloc_map' /\ tjc_all[i] < tjc_init_limit'
                        /\ \A n \in TjcBlocks \ alloc_map' : tjc_all[i] < n
      BY DEF SavedBlocks
    <2>1. /\ tjc_all[i] \in alloc_map /\ tjc_all[i] < tjc_init_limit
          /\ \A n \in TjcBlocks \ alloc_map : tjc_all[i] < n
      BY DEF SavedBlocks
    <2>2. tjc_all[i] < tjc_init_limit'
      BY <1>3, <1>4, <1>5, <2>1
    <2> QED BY <1>3, <2>1, <2>2
  <1> QED BY <1>1, <1>2, <1>6

\* save_block clears no TJC block of the commit.
LEMMA SaveKeepsChain ==
  ASSUME CommitInv, ChainInv, SavedBlocks, stage # "idle", UNCHANGED <<stage, tjc_all>>,
         NEW x \in SUBSET Changes, save_block(x)
  PROVE  /\ ChainInv' /\ SavedBlocks'
         /\ \A p \in Pages, b \in SwapBlocks : InChain(tjc_all, p, b)' <=> InChain(tjc_all, p, b)
  <1>1. /\ NewBlock \in SwapBlocks /\ alloc_map' = alloc_map \cup {NewBlock} /\ MapTypes'
        /\ \/ UNCHANGED <<tjc, tjc_init_limit>>
           \/ \E b \in TjcBlocks : /\ b > tjc_init_limit /\ b < tjc_init_limit'
                                   /\ tjc' = [tjc EXCEPT ![b] = InvalidJournal]
    BY SaveBlock DEF CommitInv, Types
  <1> HIDE DEF NewBlock
  <1>2. \A b \in TjcBlocks : b \in alloc_map' <=> b \in alloc_map
    BY <1>1, BlockFacts
  <1>3. tjc_init_limit \in Int /\ tjc_init_limit' \in Int
    BY <1>1 DEF CommitInv, Types, MapTypes
  <1>4. \A y \in TjcBlocks : y \in Int
    BY BlockFacts
  <1>5. tjc_init_limit' >= tjc_init_limit
    BY <1>1, <1>3, <1>4
  <1>6. ASSUME NEW i \in 1 .. Len(tjc_all) PROVE tjc'[tjc_all[i]] = tjc[tjc_all[i]]
    <2>1. tjc_all[i] \in TjcBlocks /\ tjc_all[i] \in Int
      BY <1>4 DEF CommitInv, Types, CommitTypes
    <2>2. tjc_all[i] < tjc_init_limit
      BY DEF SavedBlocks
    <2>3. ASSUME NEW b \in TjcBlocks, b > tjc_init_limit, tjc' = [tjc EXCEPT ![b] = InvalidJournal]
          PROVE  tjc'[tjc_all[i]] = tjc[tjc_all[i]]
      <3>1. b # tjc_all[i]
        BY <1>3, <1>4, <2>1, <2>2, <2>3
      <3> QED BY <2>1, <2>3, <3>1 DEF CommitInv, Types, FileTypes
    <2> QED BY <1>1, <2>3
  <1> QED BY <1>2, <1>3, <1>5, <1>6, ChainKept DEF CommitInv, Types

\* Steps that leave the journal and the pages alone.
LEMMA JournalKept ==
  ASSUME CommitInv, JournalInv, stage # "idle",
         UNCHANGED <<disk, tdata, tjc, tjc_init_limit, trans, stage, committer, todo, core_tjc,
                     tjc_all, writing, written>>,
         UNCHANGED <<alloc_map, swapdadr>>
  PROVE  JournalInv'
  <1>1. /\ ChainInv' /\ SavedBlocks'
        /\ \A p \in Pages, b \in SwapBlocks : InChain(tjc_all, p, b)' <=> InChain(tjc_all, p, b)
    <2>1. tjc_init_limit' \in Int /\ tjc_init_limit' >= tjc_init_limit
      BY DEF CommitInv, Types, MapTypes
    <2> QED BY <2>1, ChainKept DEF JournalInv, CommitInv, Types
  <1>2. \A p \in Pages, b \in SwapBlocks : Saved(p, b)' <=> Saved(p, b)
    BY <1>1 DEF Saved
  <1>3. \A p \in Pages : /\ Current(committer, p)' = Current(committer, p)
                         /\ HasChanged(committer, p)' <=> HasChanged(committer, p)
    BY DEF Current, HasChanged, MyChange
  <1>4. PairsInv'
    BY <1>2, <1>3 DEF JournalInv, PairsInv
  <1>5. ChangesSaved' /\ SwapsUsed'
    <2>1. todo \subseteq Pages
      BY DEF CommitInv, Types, CommitTypes
    <2>2. ChangesSaved'
      BY <1>2, <1>3 DEF JournalInv, ChangesSaved
    <2>3. SwapsUsed'
      BY <1>3, <2>1 DEF JournalInv, SwapsUsed
    <2> QED BY <2>2, <2>3
  <1> QED BY <1>1, <1>4, <1>5 DEF JournalInv

\* A commit starts with an empty journal and all its pages to visit.
LEMMA JournalCommit ==
  ASSUME CommitInv, CopyInv, NEW c \in Clients, commit(c)
  PROVE  JournalInv'
  <1>1. /\ stage' = "save" /\ committer' = c /\ todo' = log[c] /\ core_tjc' = {}
        /\ tjc_all' = << >> /\ UNCHANGED <<written, trans, swapdadr>>
    BY DEF commit, tranVars, copyVars
  <1>2. Len(tjc_all') = 0
    BY <1>1
  <1>3. \A p \in Pages, b \in SwapBlocks : ~Saved(p, b)'
    BY <1>1, <1>2 DEF Saved, InChain
  <1>4. \A p \in Pages : HasChanged(c, p)' => p \in log[c]
    BY <1>1 DEF HasChanged, MyChange, CopyInv, CopyOK
  <1>5. \A p \in Pages : HasChanged(committer, p)' => p \in todo'
    <2>1. \A p \in Pages : HasChanged(committer, p)' <=> HasChanged(c, p)'
      BY <1>1, Zenon DEF HasChanged, MyChange
    <2> QED BY <1>1, <1>4, <2>1, Zenon
  <1>6. ChainInv' /\ SavedBlocks'
    BY <1>2 DEF ChainInv, Chained, SavedBlocks
  <1>7. PairsInv' /\ ChangesSaved' /\ SwapsUsed'
    BY <1>1, <1>3, <1>5 DEF PairsInv, ChangesSaved, SwapsUsed
  <1> QED BY <1>6, <1>7 DEF JournalInv

\* The journal of a transaction grows in the first loop of commit: a page gets a
\* swap block, which is the one in its pair.
LEMMA JournalSaveBlock ==
  ASSUME CommitInv, CopyInv, JournalInv, stage = "save", NEW c, c = committer,
         UNCHANGED <<disk, trans, written, stage, committer, tjc_all>>,
         NEW p \in Pages, swapdadr[c][p] = NoBlock,
         save_block(Current(c, p)), swapdadr' = [swapdadr EXCEPT ![c][p] = NewBlock],
         \/ todo' = todo \ {p} /\ core_tjc' = core_tjc \cup {<<p, NewBlock>>}
         \/ UNCHANGED <<todo, core_tjc>>
  PROVE  JournalInv'
  <1> DEFINE x == Current(c, p)
  <1>1. c \in Clients
    BY CommitterIsClient DEF CommitInv, Types
  <1>2. x \in SUBSET Changes
    BY <1>1, CurrentIsOld DEF CopyInv, CommitInv, Types, HistoryTypes
  <1>3. \A q \in Pages : /\ Current(c, q)' = Current(c, q)
                         /\ HasChanged(c, q)' <=> HasChanged(c, q)
    BY CurrentKept
  <1>4. save_block(x)
    OBVIOUS
  <1>5. Current(c, p) = x
    OBVIOUS
  <1> HIDE DEF x
  <1>6. /\ ChainInv' /\ SavedBlocks'
        /\ \A q \in Pages, b \in SwapBlocks : InChain(tjc_all, q, b)' <=> InChain(tjc_all, q, b)
    BY <1>2, <1>4, SaveKeepsChain DEF JournalInv
  <1>7. /\ \A d \in Clients, q \in Pages :
               swapdadr[d][q] # NoBlock => tdata'[swapdadr[d][q]] = tdata[swapdadr[d][q]]
        /\ tdata'[NewBlock] = x
    BY <1>2, <1>4, SwapsKept DEF CommitInv, Types
  <1>8. NewBlock \in SwapBlocks
    BY <1>2, <1>4, SaveBlock DEF CommitInv, Types
  <1>9. \A q \in Pages : swapdadr'[c][q] = IF q = p THEN NewBlock ELSE swapdadr[c][q]
    <2>1. /\ FileTypes /\ MapTypes /\ CopyTypes /\ SwapSpaceExact /\ swapdadr[c][p] = NoBlock
          /\ swapdadr' = [swapdadr EXCEPT ![c][p] = NewBlock]
      BY DEF CommitInv, Types
    <2>2. \A d \in Clients, q \in Pages :
              swapdadr'[d][q] = IF d = c /\ q = p THEN NewBlock ELSE swapdadr[d][q]
      BY <1>1, <1>2, <1>4, <2>1, SwapOne, ZenonT(60)
    <2> QED BY <1>1, <2>2
  <1> HIDE DEF NewBlock
  <1>10. \A q \in Pages, b \in SwapBlocks :
            Saved(q, b) => b = swapdadr[c][q] /\ b # NoBlock /\ tdata[b] = Current(c, q)
    BY BlockFacts DEF JournalInv, PairsInv
  <1>11. ASSUME NEW q \in Pages, NEW b \in SwapBlocks, Saved(q, b)'
         PROVE  Saved(q, b) \/ (q = p /\ b = NewBlock)
    BY <1>6, <1>11 DEF Saved
  <1>12. \A q \in Pages, b \in SwapBlocks : Saved(q, b) => Saved(q, b)'
    BY <1>6 DEF Saved
  <1>13. ASSUME NEW q \in Pages, NEW b \in SwapBlocks, Saved(q, b)'
         PROVE  tdata'[b] = Current(c, q)' /\ swapdadr'[c][q] = b
    <2>1. CASE q = p /\ b = NewBlock
      BY <1>3, <1>5, <1>7, <1>9, <2>1
    <2>2. CASE Saved(q, b)
      <3>1. b = swapdadr[c][q] /\ b # NoBlock /\ tdata[b] = Current(c, q) /\ q # p
        BY <1>10, <2>2
      <3> QED BY <1>1, <1>3, <1>7, <1>9, <3>1
    <2> QED BY <1>11, <1>13, <2>1, <2>2
  <1>14. PairsInv'
    BY <1>13, Zenon DEF PairsInv
  <1>15. ChangesSaved'
    <2> SUFFICES ASSUME NEW q \in Pages, HasChanged(c, q)'
                 PROVE  q \in todo' \/ \E b \in SwapBlocks : Saved(q, b)'
      BY Zenon DEF ChangesSaved
    <2>1. q \in todo \/ \E b \in SwapBlocks : Saved(q, b)
      BY <1>3 DEF JournalInv, ChangesSaved
    <2>2. CASE q \in todo /\ q \notin todo'
      <3>1. q = p /\ <<p, NewBlock>> \in core_tjc'
        BY <2>2
      <3> QED BY <1>8, <3>1 DEF Saved
    <2> QED BY <1>12, <2>1, <2>2
  <1>16. SwapsUsed'
    BY DEF SwapsUsed
  <1> QED BY <1>6, <1>14, <1>15, <1>16 DEF JournalInv

\* A page gets into the journal, or it has not been changed.
LEMMA JournalVisit ==
  ASSUME CommitInv, JournalInv, stage = "save", NEW c, c = committer, NEW p \in Pages,
         UNCHANGED <<disk, tdata, tjc, tjc_init_limit, trans, stage, committer, tjc_all, writing,
                     written, alloc_map, swapdadr>>,
         todo' = todo \ {p}, NEW x, x = swapdadr[c][p],
         \/ x \in SwapBlocks /\ tdata[x] = Current(c, p)
            /\ core_tjc' = core_tjc \cup {<<p, x>>}
         \/ UNCHANGED core_tjc /\ ~HasChanged(c, p)
  PROVE  JournalInv'
  <1>1. /\ ChainInv' /\ SavedBlocks'
        /\ \A q \in Pages, b \in SwapBlocks : InChain(tjc_all, q, b)' <=> InChain(tjc_all, q, b)
    <2>1. tjc_init_limit' \in Int /\ tjc_init_limit' >= tjc_init_limit
      BY DEF CommitInv, Types, MapTypes
    <2> QED BY <2>1, ChainKept DEF JournalInv, CommitInv, Types
  <1>2. \A q \in Pages : /\ Current(c, q)' = Current(c, q)
                         /\ HasChanged(c, q)' <=> HasChanged(c, q)
    BY CurrentKept
  <1>3. ASSUME NEW q \in Pages, NEW b \in SwapBlocks, Saved(q, b)'
        PROVE  tdata'[b] = Current(c, q)' /\ swapdadr'[c][q] = b
    <2>1. CASE Saved(q, b)
      BY <1>2, <2>1 DEF JournalInv, PairsInv
    <2>2. CASE ~Saved(q, b)
      <3>1. q = p /\ b = x /\ tdata[b] = Current(c, p)
        BY <1>1, <1>3, <2>2 DEF Saved
      <3> QED BY <1>2, <3>1
    <2> QED BY <2>1, <2>2
  <1>4. PairsInv'
    BY <1>3, Zenon DEF PairsInv
  <1>5. ASSUME NEW q \in Pages, HasChanged(c, q)'
        PROVE  q \in todo' \/ \E b \in SwapBlocks : Saved(q, b)'
    <2>1. q \in todo \/ \E b \in SwapBlocks : Saved(q, b)
      BY <1>2, <1>5 DEF JournalInv, ChangesSaved
    <2>2. \A b \in SwapBlocks : Saved(q, b) => Saved(q, b)'
      BY <1>1 DEF Saved
    <2>3. CASE q = p
      <3>1. x \in SwapBlocks /\ <<p, x>> \in core_tjc'
        BY <1>2, <1>5, <2>3
      <3> QED BY <2>3, <3>1 DEF Saved
    <2> QED BY <2>1, <2>2, <2>3
  <1>6. ChangesSaved'
    BY <1>5, Zenon DEF ChangesSaved
  <1>7. SwapsUsed'
    BY DEF SwapsUsed
  <1> QED BY <1>1, <1>4, <1>6, <1>7 DEF JournalInv

\* make_swapped adds the page to the TJC block being built.
LEMMA JournalMakeSwapped ==
  ASSUME "swap" \notin MayFail, CommitInv, CopyInv, JournalInv, NEW p \in Pages, make_swapped(p),
         NEW c, c = committer
  PROVE  JournalInv'
  <1>1. /\ UNCHANGED <<disk, trans, written, stage, committer, tjc_all, writing>>
        /\ stage = "save" /\ todo' = todo \ {p} /\ p \in todo
    BY DEF make_swapped, tranVars
  <1>2. c \in Clients /\ ~failed[c]
    BY <1>1, CommitterIsClient DEF CommitInv, Types, Control
  <1>3. CopyOK(c, p) /\ ~Done(c, p)
    BY <1>1, <1>2 DEF CopyInv, Done
  <1>4. swapdadr[c][p] \in SwapBlocks \cup {NoBlock}
    BY <1>2 DEF CommitInv, Types, CopyTypes, SwapTable
  <1>5. CASE core[c][p] # << >>
    <2>1. save_block(core[c][p][1]) /\ Swaps(p, NewBlock)
      BY <1>5 DEF make_swapped, save_block_fails, Me
    <2>2. core[c][p][1] = Current(c, p)
      BY <1>3, <1>5 DEF CopyOK
    <2>3. swapdadr[c][p] = NoBlock
      <3>1. PageFrames(c, p)
        BY <1>2 DEF CommitInv, Frames
      <3> QED BY <1>1, <1>2, <1>5, <3>1 DEF PageFrames, Doubled
    <2>4. save_block(Current(c, p)) /\ swapdadr' = [swapdadr EXCEPT ![c][p] = NewBlock]
          /\ core_tjc' = core_tjc \cup {<<p, NewBlock>>}
      BY <2>1, <2>2 DEF Swaps, Me
    <2> QED BY <1>1, <2>3, <2>4, JournalSaveBlock
  <1>6. CASE core[c][p] = << >> /\ swapdadr[c][p] # NoBlock
    <2>1. Swaps(p, swapdadr[c][p]) /\ UNCHANGED mapVars /\ UNCHANGED <<tdata, tjc>>
      BY <1>6 DEF make_swapped, Me
    <2>2. UNCHANGED swapdadr /\ core_tjc' = core_tjc \cup {<<p, swapdadr[c][p]>>}
      BY <1>2, <2>1 DEF Swaps, Me, CommitInv, Types, CopyTypes, SwapTable
    <2>3. swapdadr[c][p] \in SwapBlocks /\ tdata[swapdadr[c][p]] = Current(c, p)
      BY <1>3, <1>4, <1>6 DEF CopyOK
    <2> QED BY <1>1, <2>1, <2>2, <2>3, JournalVisit DEF mapVars
  <1>7. CASE core[c][p] = << >> /\ swapdadr[c][p] = NoBlock
    <2>1. UNCHANGED mapVars /\ UNCHANGED <<tdata, tjc, core_tjc, swapdadr>>
      BY <1>7 DEF make_swapped, Me
    <2>2. ~HasChanged(c, p)
      BY <1>3, <1>7 DEF CopyOK, HasCopy
    <2> QED BY <1>1, <2>1, <2>2, JournalVisit DEF mapVars
  <1> QED BY <1>5, <1>6, <1>7

\* A frame taken from the client that commits leaves the journal as it was: a
\* page it has to swap has not been visited yet.
LEMMA JournalGetFrame ==
  ASSUME CommitInv, CopyInv, JournalInv, stage # "idle", NEW c, c = committer,
         NEW p \in Pages, get_frame(c, p)
  PROVE  JournalInv'
  <1>1. PICK i \in DOMAIN core[c][p] :
            IF MustSwap(c, p, i)
            THEN save_block(core[c][p][i]) /\ swapdadr' = [swapdadr EXCEPT ![c][p] = NewBlock]
            ELSE UNCHANGED mapVars /\ UNCHANGED <<swapdadr, tdata, tjc>>
    BY Zenon DEF get_frame
  <1>2. UNCHANGED disk /\ UNCHANGED tranVars /\ UNCHANGED commitVars /\ UNCHANGED written
        /\ p # writing
    BY DEF get_frame
  <1>3. c \in Clients
    BY CommitterIsClient DEF CommitInv, Types
  <1>4. CopyOK(c, p)
    BY <1>3 DEF CopyInv
  <1>5. core[c][p] # << >> /\ core[c][p][i] = Current(c, p)
    <2>1. core[c][p] # << >>
      BY <1>1
    <2>2. core[c][p] = <<Current(c, p)>>
      BY <1>4, <2>1 DEF CopyOK
    <2> DEFINE x == Current(c, p)
    <2> HIDE DEF x
    <2>3. \A k \in DOMAIN <<x>> : <<x>>[k] = x
      OBVIOUS
    <2> QED BY <1>1, <2>1, <2>2, <2>3 DEF x
  <1>6. CASE ~MustSwap(c, p, i)
    <2>1. UNCHANGED mapVars /\ UNCHANGED <<swapdadr, tdata, tjc>>
      BY <1>1, <1>6
    <2> QED BY <1>2, <2>1, JournalKept DEF mapVars, tranVars, commitVars
  <1>7. CASE MustSwap(c, p, i)
    <2>1. save_block(Current(c, p)) /\ swapdadr' = [swapdadr EXCEPT ![c][p] = NewBlock]
          /\ swapdadr[c][p] = NoBlock
      BY <1>1, <1>5, <1>7 DEF MustSwap
    <2>2. CASE stage = "save"
      BY <1>2, <2>1, <2>2, JournalSaveBlock DEF tranVars, commitVars
    <2>3. CASE stage = "write"
      <3>1. HasChanged(c, p)
        BY <1>5, <1>7 DEF MustSwap, Dirty, Current
      <3>2. p \in todo
        BY <1>4, <1>5, <2>3 DEF CopyOK, HasCopy, Done
      <3> QED BY <1>2, <2>1, <2>3, <3>1, <3>2 DEF JournalInv, SwapsUsed
    <2> QED BY <2>2, <2>3 DEF CommitInv, Types, CommitTypes
  <1> QED BY <1>6, <1>7

\* A TJC block with the pairs is added to the chain.
LEMMA JournalSaveTjc ==
  ASSUME CommitInv, JournalInv, stage = "save", NEW tag, tag \in Tags,
         save_tjc_block([tag |-> tag, link |-> Link, pairs |-> core_tjc]),
         tjc_all' = Append(tjc_all, NewJournal),
         \/ stage' = "save" /\ tag = "VALID_TJC_DEPENDENT" /\ core_tjc' = {}
         \/ stage' = "write" /\ tag = "VALID_TJC_LEADER"
  PROVE  /\ ChainInv' /\ SavedBlocks'
         /\ \A p \in Pages, b \in SwapBlocks : Saved(p, b)' <=> Saved(p, b)
  <1> DEFINE j == [tag |-> tag, link |-> Link, pairs |-> core_tjc]
             n == Len(tjc_all)
  <1>1. j \in Journals
    BY LinkType DEF CommitInv, Types, CommitTypes, Journals
  <1>2. j.tag = tag /\ j.link = Link /\ j.pairs = core_tjc
    OBVIOUS
  <1>3. save_tjc_block(j)
    OBVIOUS
  <1> HIDE DEF j
  <1>4. /\ NewJournal \in TjcBlocks \ alloc_map
        /\ \A b \in TjcBlocks \ alloc_map : NewJournal <= b
        /\ alloc_map' = alloc_map \cup {NewJournal}
        /\ tjc' = [tjc EXCEPT ![NewJournal] = j]
        /\ tjc_init_limit' = NewJournal + 1
    BY <1>1, <1>3, SaveTjc DEF CommitInv, Types
  <1> HIDE DEF NewJournal
  <1>5. tjc_all \in Seq(TjcBlocks) /\ n \in Nat
    BY DEF CommitInv, Types, CommitTypes
  <1>6. /\ Len(tjc_all') = n + 1 /\ tjc_all'[n + 1] = NewJournal
        /\ \A i \in 1 .. n : tjc_all'[i] = tjc_all[i] /\ tjc_all[i] \in TjcBlocks
    BY <1>4, <1>5
  <1>7. \A b \in TjcBlocks : tjc'[b] = IF b = NewJournal THEN j ELSE tjc[b]
    BY <1>4 DEF CommitInv, Types, FileTypes
  <1>8. \A i \in 1 .. n : tjc_all[i] \in alloc_map
    BY DEF JournalInv, SavedBlocks
  <1>9. \A i \in 1 .. n : tjc'[tjc_all'[i]] = tjc[tjc_all[i]]
    BY <1>4, <1>6, <1>7, <1>8
  <1>10. tjc'[tjc_all'[n + 1]] = j
    BY <1>4, <1>6, <1>7
  <1>11. ASSUME NEW i \in 1 .. n + 1
         PROVE  /\ tjc'[tjc_all'[i]].tag = IF i = n + 1 THEN tag ELSE "VALID_TJC_DEPENDENT"
                /\ tjc'[tjc_all'[i]].link = IF i = 1 THEN NoBlock ELSE tjc_all'[i - 1]
    <2>1. CASE i = n + 1
      <3>1. j.link = IF i = 1 THEN NoBlock ELSE tjc_all[n]
        <4>1. i = 1 <=> tjc_all = << >>
          BY <1>5, <2>1
        <4> QED BY <1>2, <4>1 DEF Link, Last
      <3>2. i # 1 => tjc_all'[i - 1] = tjc_all[n]
        BY <1>5, <1>6, <2>1
      <3> QED BY <1>2, <1>10, <2>1, <3>1, <3>2
    <2>2. CASE i # n + 1
      <3>1. i \in 1 .. n
        BY <1>5, <2>2
      <3>2. /\ tjc[tjc_all[i]].tag = "VALID_TJC_DEPENDENT"
            /\ tjc[tjc_all[i]].link = IF i = 1 THEN NoBlock ELSE tjc_all[i - 1]
        BY <3>1 DEF JournalInv, ChainInv, Chained
      <3>3. i # 1 => tjc_all'[i - 1] = tjc_all[i - 1]
        BY <1>5, <1>6, <3>1
      <3> QED BY <1>9, <2>2, <3>1, <3>2, <3>3
    <2> QED BY <2>1, <2>2
  <1>12. ChainInv'
    <2>1. tag = IF stage' = "write" THEN "VALID_TJC_LEADER" ELSE "VALID_TJC_DEPENDENT"
      OBVIOUS
    <2> QED BY <1>6, <1>11, <2>1 DEF ChainInv, Chained
  <1>13. \A y \in TjcBlocks : y \in Int
    BY BlockFacts
  <1>14. ASSUME NEW i \in 1 .. n + 1
         PROVE  /\ tjc_all'[i] \in alloc_map' /\ tjc_all'[i] < tjc_init_limit'
                /\ \A m \in TjcBlocks \ alloc_map' : tjc_all'[i] < m
    <2>1. CASE i = n + 1
      <3>1. \A m \in TjcBlocks \ alloc_map' : NewJournal <= m /\ NewJournal # m /\ m \in Int
        BY <1>4, <1>13
      <3> QED BY <1>4, <1>6, <1>13, <2>1, <3>1
    <2>2. CASE i # n + 1
      <3>1. i \in 1 .. n
        BY <1>5, <2>2
      <3>2. /\ tjc_all[i] \in alloc_map
            /\ \A m \in TjcBlocks \ alloc_map : tjc_all[i] < m
        BY <3>1 DEF JournalInv, SavedBlocks
      <3>3. tjc_all'[i] = tjc_all[i] /\ tjc_all[i] \in Int
        BY <1>6, <1>13, <3>1
      <3>4. tjc_all[i] < NewJournal /\ NewJournal \in Int
        BY <1>4, <1>13, <3>2
      <3> QED BY <1>4, <3>2, <3>3, <3>4
    <2> QED BY <2>1, <2>2
  <1>15. SavedBlocks'
    BY <1>6, <1>14 DEF SavedBlocks
  <1>16. ASSUME NEW p \in Pages, NEW b \in SwapBlocks PROVE Saved(p, b)' <=> Saved(p, b)
    <2>1. InChain(tjc_all, p, b)' <=> \E i \in 1 .. n + 1 : <<p, b>> \in tjc'[tjc_all'[i]].pairs
      BY <1>6 DEF InChain
    <2>2. InChain(tjc_all, p, b) <=> \E i \in 1 .. n : <<p, b>> \in tjc[tjc_all[i]].pairs
      BY DEF InChain
    <2>3. \A i \in 1 .. n + 1 : i \in 1 .. n \/ i = n + 1
      BY <1>5
    <2>4. 1 .. n \subseteq 1 .. n + 1 /\ n + 1 \in 1 .. n + 1
      BY <1>5
    <2>5. InChain(tjc_all, p, b)' <=> InChain(tjc_all, p, b) \/ <<p, b>> \in core_tjc
      <3> HIDE DEF n
      <3> QED BY <1>2, <1>9, <1>10, <2>1, <2>2, <2>3, <2>4
    <2> QED BY <2>5 DEF Saved
  <1> QED BY <1>12, <1>15, <1>16

\* A full TJC block is saved and another one is started.
LEMMA JournalSaveDependent ==
  ASSUME CommitInv, JournalInv, save_dependent, NEW c, c = committer
  PROVE  JournalInv'
  <1>1. /\ UNCHANGED <<disk, trans, written, stage, committer, todo, writing, swapdadr>>
        /\ stage = "save" /\ core_tjc' = {} /\ tjc_all' = Append(tjc_all, NewJournal)
        /\ save_tjc_block([tag |-> "VALID_TJC_DEPENDENT", link |-> Link, pairs |-> core_tjc])
    BY DEF save_dependent, tranVars, copyVars
  <1>2. UNCHANGED tdata
    BY <1>1 DEF save_tjc_block
  <1>3. "VALID_TJC_DEPENDENT" \in Tags
    BY DEF Tags
  <1>4. /\ ChainInv' /\ SavedBlocks'
        /\ \A p \in Pages, b \in SwapBlocks : Saved(p, b)' <=> Saved(p, b)
    BY <1>1, <1>3, JournalSaveTjc
  <1>5. \A q \in Pages : /\ Current(committer, q)' = Current(committer, q)
                         /\ HasChanged(committer, q)' <=> HasChanged(committer, q)
    BY <1>1 DEF Current, HasChanged, MyChange
  <1>6. PairsInv'
    BY <1>1, <1>2, <1>4, <1>5 DEF JournalInv, PairsInv
  <1>7. ChangesSaved'
    BY <1>1, <1>4, <1>5 DEF JournalInv, ChangesSaved
  <1>8. SwapsUsed'
    BY <1>1 DEF SwapsUsed
  <1> QED BY <1>4, <1>6, <1>7, <1>8 DEF JournalInv

\* When the leader is saved every changed page is in the journal.
LEMMA JournalSaveLeader ==
  ASSUME CommitInv, JournalInv, save_leader
  PROVE  JournalInv'
  <1>1. /\ UNCHANGED <<disk, trans, log, written, committer, writing, swapdadr>>
        /\ stage = "save" /\ stage' = "write" /\ todo = {} /\ todo' = log[committer]
        /\ tjc_all' = Append(tjc_all, NewJournal)
        /\ save_tjc_block([tag |-> "VALID_TJC_LEADER", link |-> Link, pairs |-> core_tjc])
    BY DEF save_leader, tranVars, copyVars, Me
  <1>2. UNCHANGED tdata
    BY <1>1 DEF save_tjc_block
  <1>3. "VALID_TJC_LEADER" \in Tags
    BY DEF Tags
  <1>4. /\ ChainInv' /\ SavedBlocks'
        /\ \A p \in Pages, b \in SwapBlocks : Saved(p, b)' <=> Saved(p, b)
    BY <1>1, <1>3, JournalSaveTjc
  <1>5. \A q \in Pages : /\ Current(committer, q)' = Current(committer, q)
                         /\ HasChanged(committer, q)' <=> HasChanged(committer, q)
    BY <1>1 DEF Current, HasChanged, MyChange
  <1>6. \A q \in Pages : HasChanged(committer, q) => \E b \in SwapBlocks : Saved(q, b)
    BY <1>1 DEF JournalInv, ChangesSaved
  <1>7. PairsInv'
    BY <1>1, <1>2, <1>4, <1>5 DEF JournalInv, PairsInv
  <1>8. ChangesSaved'
    BY <1>1, <1>4, <1>5, <1>6 DEF ChangesSaved
  <1>9. SwapsUsed'
    <2>1. log[committer] \subseteq Pages
      BY <1>1, CommitterIsClient DEF CommitInv, Types, TranTypes
    <2>2. ASSUME NEW q \in Pages, HasChanged(committer, q) PROVE swapdadr[committer][q] # NoBlock
      <3>1. PICK b \in SwapBlocks : Saved(q, b)
        BY <1>6, <2>2
      <3>2. swapdadr[committer][q] = b
        BY <1>1, <3>1 DEF JournalInv, PairsInv
      <3> QED BY <3>2, BlockFacts
    <2> QED BY <1>1, <1>5, <2>1, <2>2 DEF SwapsUsed
  <1> QED BY <1>4, <1>7, <1>8, <1>9 DEF JournalInv

\* The second loop of commit: pages are written and swaps released.
LEMMA JournalWriting ==
  ASSUME CommitInv, JournalInv, stage = "write", NEW c, c = committer,
         UNCHANGED <<tdata, tjc, tjc_init_limit, stage, committer, tjc_all>>,
         NEW S \in SUBSET SwapBlocks, alloc_map' = alloc_map \ S,
         \A q \in Pages : /\ Current(c, q)' = Current(c, q)
                          /\ HasChanged(c, q)' <=> HasChanged(c, q),
         todo' \subseteq todo,
         \A q \in todo' : writing' = q \/ (writing # q /\ swapdadr'[c][q] = swapdadr[c][q])
  PROVE  JournalInv'
  <1>1. /\ ChainInv' /\ SavedBlocks'
        /\ \A q \in Pages, b \in SwapBlocks : InChain(tjc_all, q, b)' <=> InChain(tjc_all, q, b)
    <2>1. tjc_init_limit' \in Int /\ tjc_init_limit' >= tjc_init_limit
      BY DEF CommitInv, Types, MapTypes
    <2>2. \A b \in TjcBlocks : b \in alloc_map' <=> b \in alloc_map
      BY BlockFacts
    <2> QED BY <2>1, <2>2, ChainKept DEF JournalInv, CommitInv, Types
  <1>2. \A q \in Pages, b \in SwapBlocks : Saved(q, b)' <=> Saved(q, b)
    BY <1>1 DEF Saved
  <1>3. PairsInv'
    <2>1. \A q \in Pages, b \in SwapBlocks : Saved(q, b)' => tdata'[b] = Current(c, q)'
      BY <1>2 DEF JournalInv, PairsInv
    <2> QED BY <2>1, Zenon DEF PairsInv
  <1>4. ChangesSaved'
    <2>1. \A q \in Pages : HasChanged(c, q)' => \E b \in SwapBlocks : Saved(q, b)'
      BY <1>2 DEF JournalInv, ChangesSaved
    <2> QED BY <2>1, Zenon DEF ChangesSaved
  <1>5. SwapsUsed'
    <2>1. todo \subseteq Pages
      BY DEF CommitInv, Types, CommitTypes
    <2>2. ASSUME NEW q \in todo', HasChanged(c, q)'
          PROVE  writing' = q \/ swapdadr'[c][q] # NoBlock
      <3>1. q \in todo /\ q \in Pages /\ HasChanged(c, q)
        BY <2>1, <2>2
      <3> QED BY <2>2, <3>1 DEF JournalInv, SwapsUsed
    <2> QED BY <2>2, Zenon DEF SwapsUsed
  <1> QED BY <1>1, <1>3, <1>4, <1>5 DEF JournalInv

\* The swap of a page which need not be written is released, its content stays.
LEMMA JournalWrNothing ==
  ASSUME CommitInv, JournalInv, NEW p \in Pages, wr_nothing(p), NEW c, c = committer
  PROVE  JournalInv'
  <1>1. /\ UNCHANGED <<disk, tdata, tjc, trans, written, stage, committer, tjc_all, writing>>
        /\ stage = "write" /\ writing = NoPage /\ todo' = todo \ {p}
        /\ swapdadr' = [swapdadr EXCEPT ![c][p] = NoBlock]
        /\ free_swap_blocks(Swapped(c, p))
    BY DEF wr_nothing, Me, fileVars, tranVars
  <1>2. c \in Clients /\ NoPage \notin todo
    BY <1>1, CommitterIsClient, CommitConstants DEF CommitInv, Types, CommitTypes
  <1>3. Swapped(c, p) \in SUBSET SwapBlocks
    BY <1>2 DEF Swapped, CommitInv, Types, CopyTypes, SwapTable
  <1>4. alloc_map' = alloc_map \ Swapped(c, p) /\ UNCHANGED tjc_init_limit
    BY <1>1 DEF free_swap_blocks
  <1>5. \A q \in Pages : q # p => swapdadr'[c][q] = swapdadr[c][q]
    BY <1>1, <1>2 DEF CommitInv, Types, CopyTypes, SwapTable
  <1>6. \A q \in todo' : writing # q /\ swapdadr'[c][q] = swapdadr[c][q]
    BY <1>1, <1>2, <1>5 DEF CommitInv, Types, CommitTypes
  <1>7. \A q \in Pages : /\ Current(c, q)' = Current(c, q)
                         /\ HasChanged(c, q)' <=> HasChanged(c, q)
    BY <1>1, CurrentKept
  <1> QED BY <1>1, <1>3, <1>4, <1>6, <1>7, JournalWriting

\* The swap of the page being written is released, its content stays.
LEMMA JournalWrChanges ==
  ASSUME CommitInv, JournalInv, NEW p \in Pages, wr_changes(p), NEW c, c = committer
  PROVE  JournalInv'
  <1>1. /\ UNCHANGED <<disk, tdata, tjc, trans, written, stage, committer, tjc_all, todo>>
        /\ stage = "write" /\ writing = NoPage /\ writing' = p
        /\ swapdadr' = [swapdadr EXCEPT ![c][p] = NoBlock]
        /\ free_swap_blocks(Swapped(c, p))
    BY DEF wr_changes, Me, fileVars, tranVars
  <1>2. c \in Clients /\ NoPage \notin todo
    BY <1>1, CommitterIsClient, CommitConstants DEF CommitInv, Types, CommitTypes
  <1>3. Swapped(c, p) \in SUBSET SwapBlocks
    BY <1>2 DEF Swapped, CommitInv, Types, CopyTypes, SwapTable
  <1>4. alloc_map' = alloc_map \ Swapped(c, p) /\ UNCHANGED tjc_init_limit
    BY <1>1 DEF free_swap_blocks
  <1>5. \A q \in Pages : q # p => swapdadr'[c][q] = swapdadr[c][q]
    BY <1>1, <1>2 DEF CommitInv, Types, CopyTypes, SwapTable
  <1>6. \A q \in todo' : writing' = q \/ (writing # q /\ swapdadr'[c][q] = swapdadr[c][q])
    BY <1>1, <1>2, <1>5 DEF CommitInv, Types, CommitTypes
  <1>7. \A q \in Pages : /\ Current(c, q)' = Current(c, q)
                         /\ HasChanged(c, q)' <=> HasChanged(c, q)
    BY <1>1, CurrentKept
  <1> QED BY <1>1, <1>3, <1>4, <1>6, <1>7, JournalWriting

\* The page written is as the journal has it.
LEMMA JournalWriteBlock ==
  ASSUME CommitInv, CopyInv, JournalInv, write_block, NEW c, c = committer
  PROVE  JournalInv'
  <1>1. PICK p : p = writing
    OBVIOUS
  <1>2. /\ UNCHANGED <<stage, committer>> /\ stage = "write" /\ p \in Pages /\ c \in Clients
        /\ todo' = todo \ {p}
        /\ \A q \in Pages : /\ Current(c, q)' = Current(c, q)
                            /\ HasChanged(c, q)' <=> HasChanged(c, q)
    BY <1>1, WriteBlockKeepsCurrent
  <1> DEFINE S == UNION {Swapped(d, p) : d \in Clients}
  <1>3. /\ UNCHANGED <<tdata, tjc, tjc_all>>
        /\ swapdadr' = [d \in Clients |-> [swapdadr[d] EXCEPT ![p] = NoBlock]]
        /\ free_swap_blocks(S)
    BY <1>1 DEF write_block
  <1>4. S \in SUBSET SwapBlocks
    BY <1>2 DEF Swapped, CommitInv, Types, CopyTypes, SwapTable
  <1> HIDE DEF S
  <1>5. alloc_map' = alloc_map \ S /\ UNCHANGED tjc_init_limit
    BY <1>3 DEF free_swap_blocks
  <1>6. \A q \in Pages : q # p => swapdadr'[c][q] = swapdadr[c][q]
    BY <1>2, <1>3 DEF CommitInv, Types, CopyTypes, SwapTable
  <1>7. \A q \in todo' : writing' = q \/ (writing # q /\ swapdadr'[c][q] = swapdadr[c][q])
    BY <1>1, <1>2, <1>6 DEF CommitInv, Types, CommitTypes
  <1>8. /\ UNCHANGED <<tdata, tjc, tjc_init_limit, stage, committer, tjc_all>>
        /\ todo' \subseteq todo
    BY <1>2, <1>3, <1>5
  <1>9. alloc_map' = alloc_map \ S
    BY <1>5
  <1> QED BY <1>2, <1>4, <1>7, <1>8, <1>9, JournalWriting

\* The journal of a single client's commit is complete and in order.
LEMMA JournalInvStays ==
  ASSUME OneClient, "swap" \notin MayFail, CommitInv, CopyInv, JournalInv, [Next]_vars
  PROVE  JournalInv'
  <1>1. stage # "idle" => committer \in Clients
    BY CommitterIsClient DEF CommitInv, Types
  <1>2. CASE stage = "idle"
    <2>1. ASSUME NEW c \in Clients, commit(c) PROVE JournalInv'
      BY <2>1, JournalCommit
    <2>2. ASSUME NEW c \in Clients, work(c), ~commit(c) PROVE stage' = "idle"
      <3>1. roll_back(c) => stage' = "idle"
        <4>1. roll_back(c) => UNCHANGED stage
          BY DEF roll_back, commitVars
        <4> QED BY <1>2, <4>1
      <3>2. ASSUME NEW p \in Pages, fix_priv_page(c, p) \/ unswap_block(c, p)
                                    \/ page_changed(c, p) \/ get_frame(c, p)
            PROVE  stage' = "idle"
        BY <1>2, <3>2 DEF fix_priv_page, unswap_block, page_changed, get_frame, commitVars
      <3> QED BY <2>2, <3>1, <3>2 DEF work
    <2>3. ASSUME \/ \E p \in SystemPages : fix_any_page(p) \/ get_shared_frame(p)
                 \/ finish \/ UNCHANGED vars
          PROVE  stage' = "idle"
      BY <1>2, <2>3 DEF fix_any_page, get_shared_frame, finish, vars, commitVars
    <2>4. ~commit_step
      BY <1>2 DEF commit_step, make_swapped, wr_nothing, wr_changes, save_dependent, save_leader,
                  save_tjc_fails, write_block, end_of_commit, CommitInv, WritingInv
    <2>5. crash \/ start => stage' = "idle"
      BY <1>2 DEF crash, start, init_tables, restoring_actions, load_tjc, restore_pair,
                  follow_chain, transaction_restored, end_of_restoring, commitVars
    <2> QED BY <2>1, <2>2, <2>3, <2>4, <2>5, NoJournal DEF Next
  <1>3. CASE stage # "idle"
    <2>1. ASSUME NEW d \in Clients, work(d) PROVE JournalInv'
      <3>1. d = committer
        BY <1>1, <1>3 DEF OneClient
      <3>2. ~commit(d) /\ ~roll_back(d)
        BY <3>1 DEF commit, roll_back, Works
      <3>3. \A p \in Pages : ~fix_priv_page(d, p) /\ ~unswap_block(d, p) /\ ~page_changed(d, p)
        BY <3>1 DEF fix_priv_page, unswap_block, page_changed, Works
      <3>4. PICK p \in Pages : get_frame(d, p)
        BY <2>1, <3>2, <3>3 DEF work
      <3> QED BY <1>3, <3>1, <3>4, JournalGetFrame
    <2>2. ASSUME \/ \E p \in SystemPages : fix_any_page(p) \/ get_shared_frame(p)
                 \/ finish \/ UNCHANGED vars
          PROVE  JournalInv'
      <3>1. UNCHANGED <<disk, tdata, tjc, tjc_init_limit, trans, stage, committer, todo, core_tjc,
                        tjc_all, writing, written>>
            /\ UNCHANGED <<alloc_map, swapdadr>>
        BY <2>2 DEF fix_any_page, get_shared_frame, finish, vars, fileVars, mapVars, tranVars,
                    commitVars, copyVars
      <3> QED BY <1>3, <3>1, JournalKept
    <2>3. ASSUME commit_step PROVE JournalInv'
      <3>1. ASSUME NEW p \in Pages, make_swapped(p) \/ wr_nothing(p) \/ wr_changes(p)
            PROVE  JournalInv'
        BY <3>1, JournalMakeSwapped, JournalWrNothing, JournalWrChanges
      <3>2. ASSUME save_tjc_fails \/ end_of_commit PROVE JournalInv'
        BY <3>2, NoJournal DEF save_tjc_fails, end_of_commit
      <3> QED BY <2>3, <3>1, <3>2, JournalSaveDependent, JournalSaveLeader, JournalWriteBlock
              DEF commit_step
    <2>4. ASSUME crash PROVE JournalInv'
      BY <2>4, NoJournal DEF crash
    <2>5. ~start
      BY <1>3 DEF CommitInv, Control, start, init_tables, restoring_actions, load_tjc,
                  restore_pair, follow_chain, transaction_restored, end_of_restoring, Restores
    <2> QED BY <2>1, <2>2, <2>3, <2>4, <2>5 DEF Next
  <1> QED BY <1>2, <1>3

-----------------------------------------------------------------------------
(* Recovery after a crash *)

\* The TJC blocks of the transaction whose leader is valid have all the swap
\* blocks with its pages.
RecoveryLog(s) ==
    /\ s \in Seq(TjcBlocks) /\ s # << >>
    /\ Chained(s, "VALID_TJC_LEADER")
    /\ Leaders = {Last(s)}
    /\ \A p \in Pages, b \in SwapBlocks : InChain(s, p, b) => tdata[b] = Comm(p)

\* Page p is in the first k blocks of the chain.
Pending(s, k, p) == \E i \in 1 .. k, b \in SwapBlocks : <<p, b>> \in tjc[s[i]].pairs

\* How far restoring_actions has got with the chain: what is not restored yet
\* is in the block it is at, or in those it will get to.
InBlock(s, k, p) ==
    disk[p] = Comm(p) \/ (p \in todo /\ p \in PagesOf(tjc[s[k]])) \/ Pending(s, k - 1, p)

Progress(s) ==
    IF chain = NoBlock
    THEN \A p \in Pages : disk[p] = Comm(p) \/ Pending(s, Len(s), p)
    ELSE /\ tjc_block = Last(s)
         /\ \E k \in 1 .. Len(s) : chain = s[k] /\ \A p \in Pages : InBlock(s, k, p)

\* Nothing is left to restore.
Restored == Leaders = {} /\ chain = NoBlock /\ \A p \in Pages : disk[p] = Comm(p)

\* While the server starts, the database file has nothing uncommitted, and
\* what it lacks of committed transactions is in the journal.
RecoveryInv ==
    mode # "up" =>
        /\ \A p \in Pages : disk[p] \subseteq Comm(p)
        /\ Restored \/ \E s : RecoveryLog(s) /\ Progress(s)

\* The first and the last block of a chain.
LEMMA ChainEnds ==
  ASSUME NEW s \in Seq(TjcBlocks), s # << >>
  PROVE  /\ Len(s) \in Nat \ {0} /\ Last(s) = s[Len(s)] /\ Last(s) \in TjcBlocks
         /\ \A i \in 1 .. Len(s) : s[i] \in TjcBlocks
  BY DEF Last

\* A page which is in a TJC block has a pair there.
LEMMA PageHasPair ==
  ASSUME FileTypes, NEW b \in TjcBlocks, NEW p \in PagesOf(tjc[b])
  PROVE  \E x \in SwapBlocks : <<p, x>> \in tjc[b].pairs
  <1>1. PICK pair \in tjc[b].pairs : p = pair[1]
    BY DEF PagesOf
  <1>2. tjc[b].pairs \subseteq Pages \X SwapBlocks
    BY DEF FileTypes, Journals, Pairs
  <1>3. pair = <<p, pair[2]>> /\ pair[2] \in SwapBlocks
    BY <1>1, <1>2
  <1> QED BY <1>3

\* The committed changes and the chain are as before.
LEMMA RecoveryFrame ==
  ASSUME UNCHANGED <<written, committed>>
  PROVE  /\ \A p \in Pages : Comm(p)' = Comm(p)
         /\ UNCHANGED <<tdata, tjc>> =>
               /\ \A s : RecoveryLog(s) => RecoveryLog(s)'
               /\ \A s, k : \A p \in Pages : Pending(s, k, p) => Pending(s, k, p)'
               /\ Leaders' = Leaders
  <1>1. \A p \in Pages : Comm(p)' = Comm(p)
    BY DEF Comm
  <1>2. ASSUME UNCHANGED <<tdata, tjc>>
        PROVE  /\ \A s : RecoveryLog(s) => RecoveryLog(s)'
               /\ \A s, k : \A p \in Pages : Pending(s, k, p) => Pending(s, k, p)'
               /\ Leaders' = Leaders
    <2>1. Leaders' = Leaders
      BY <1>2 DEF Leaders
    <2>2. ASSUME NEW s, RecoveryLog(s) PROVE RecoveryLog(s)'
      <3>1. Chained(s, "VALID_TJC_LEADER")'
        BY <1>2, <2>2 DEF RecoveryLog, Chained
      <3>2. \A p \in Pages, b \in SwapBlocks : InChain(s, p, b)' => tdata'[b] = Comm(p)'
        BY <1>1, <1>2, <2>2 DEF RecoveryLog, InChain
      <3> QED BY <2>1, <2>2, <3>1, <3>2 DEF RecoveryLog
    <2>3. \A s, k : \A p \in Pages : Pending(s, k, p) => Pending(s, k, p)'
      BY <1>2 DEF Pending
    <2> QED BY <2>1, <2>2, <2>3
  <1> QED BY <1>1, <1>2

\* A crash in the second loop of commit leaves the journal of the transaction.
LEMMA CrashInWrite ==
  ASSUME CommitInv, DiskInv, JournalInv, stage = "write", mode = "up"
  PROVE  /\ RecoveryLog(tjc_all)
         /\ \A p \in Pages : /\ disk[p] = Comm(p) \/ Pending(tjc_all, Len(tjc_all), p)
                             /\ disk[p] \subseteq Comm(p)
  <1>1. tjc_all \in Seq(TjcBlocks) /\ tjc_all # << >> /\ Leaders = {Last(tjc_all)}
    BY DEF CommitInv, Types, CommitTypes, LeaderInv, LeaderSafe, OneLeader
  <1>2. Chained(tjc_all, "VALID_TJC_LEADER")
    BY DEF JournalInv, ChainInv
  <1>3. \A p \in Pages : Current(committer, p) = Comm(p)
    BY DEF DiskInv
  <1>4. \A p \in Pages, b \in SwapBlocks : InChain(tjc_all, p, b) => tdata[b] = Comm(p)
    BY <1>3 DEF JournalInv, PairsInv, Saved
  <1>5. ASSUME NEW p \in Pages
        PROVE  /\ disk[p] = Comm(p) \/ Pending(tjc_all, Len(tjc_all), p)
               /\ disk[p] \subseteq Comm(p)
    <2>1. CASE ~HasChanged(committer, p)
      BY <1>3, <2>1 DEF Current
    <2>2. CASE HasChanged(committer, p)
      <3>1. PICK b \in SwapBlocks : Saved(p, b)
        BY <2>2 DEF JournalInv, ChangesSaved
      <3>2. InChain(tjc_all, p, b)
        BY <3>1 DEF Saved
      <3> QED BY <1>3, <3>2 DEF InChain, Pending, Current
    <2> QED BY <2>1, <2>2
  <1> QED BY <1>1, <1>2, <1>4, <1>5 DEF RecoveryLog

\* A crash of a running server, in commit or out of it, and one on the start.
LEMMA RecoveryCrash ==
  ASSUME CommitInv, DiskInv, JournalInv, RecoveryInv, crash
  PROVE  RecoveryInv'
  <1>1. UNCHANGED <<disk, tdata, tjc, written, committed>> /\ chain' = NoBlock
    BY DEF crash, fileVars
  <1>2. \A p \in Pages : Comm(p)' = Comm(p)
    BY <1>1, RecoveryFrame
  <1>3. /\ \A s : RecoveryLog(s) => RecoveryLog(s)'
        /\ \A s, k : \A p \in Pages : Pending(s, k, p) => Pending(s, k, p)'
        /\ Leaders' = Leaders
    BY <1>1, RecoveryFrame
  <1>4. CASE mode = "up" /\ stage # "write"
    <2>1. Leaders = {}
      BY <1>4 DEF CommitInv, LeaderInv, OneLeader
    <2>2. \A p \in Pages : disk[p] = Comm(p)
      BY <1>4 DEF DiskInv
    <2> QED BY <1>1, <1>2, <1>3, <2>1, <2>2 DEF RecoveryInv, Restored
  <1>5. CASE mode = "up" /\ stage = "write"
    <2>1. /\ RecoveryLog(tjc_all)
          /\ \A p \in Pages : /\ disk[p] = Comm(p) \/ Pending(tjc_all, Len(tjc_all), p)
                              /\ disk[p] \subseteq Comm(p)
      BY <1>5, CrashInWrite
    <2>2. PICK s : s = tjc_all
      OBVIOUS
    <2>3. RecoveryLog(s)' /\ Progress(s)'
      BY <1>1, <1>2, <1>3, <2>1, <2>2 DEF Progress
    <2> QED BY <1>1, <1>2, <2>1, <2>3 DEF RecoveryInv
  <1>6. CASE mode # "up"
    <2>1. \A p \in Pages : disk'[p] \subseteq Comm(p)'
      BY <1>1, <1>2, <1>6 DEF RecoveryInv
    <2>2. CASE Restored
      BY <1>1, <1>2, <1>3, <2>1, <2>2 DEF RecoveryInv, Restored
    <2>3. ASSUME NEW s, RecoveryLog(s), Progress(s) PROVE Progress(s)'
      <3>1. ASSUME NEW p \in Pages PROVE disk[p] = Comm(p) \/ Pending(s, Len(s), p)
        <4>1. CASE chain = NoBlock
          BY <2>3, <4>1 DEF Progress
        <4>2. CASE chain # NoBlock
          <5>1. PICK k \in 1 .. Len(s) : InBlock(s, k, p)
            BY <2>3, <4>2 DEF Progress
          <5>2. s[k] \in TjcBlocks /\ Len(s) \in Nat
            BY <2>3, ChainEnds DEF RecoveryLog
          <5>3. CASE p \in PagesOf(tjc[s[k]])
            BY <5>2, <5>3, PageHasPair DEF Pending, CommitInv, Types
          <5>4. CASE Pending(s, k - 1, p)
            <6>1. 1 .. k - 1 \subseteq 1 .. Len(s)
              BY <5>2
            <6> QED BY <5>4, <6>1 DEF Pending
          <5> QED BY <5>1, <5>3, <5>4 DEF InBlock
        <4> QED BY <4>1, <4>2
      <3> QED BY <1>1, <1>2, <1>3, <3>1 DEF Progress
    <2> QED BY <1>3, <1>6, <2>1, <2>2, <2>3 DEF RecoveryInv
  <1> QED BY <1>4, <1>5, <1>6

\* Steps of the start that leave the files and the chain alone.
LEMMA RecoveryKept ==
  ASSUME RecoveryInv, UNCHANGED <<disk, tdata, tjc, written, committed, chain, todo>>,
         UNCHANGED tjc_block \/ chain = NoBlock, mode # "up"
  PROVE  RecoveryInv'
  <1>1. \A p \in Pages : Comm(p)' = Comm(p)
    BY RecoveryFrame
  <1>2. /\ \A s : RecoveryLog(s) => RecoveryLog(s)'
        /\ \A s, k : \A p \in Pages : Pending(s, k, p) => Pending(s, k, p)'
        /\ Leaders' = Leaders
    BY RecoveryFrame
  <1>3. \A p \in Pages : disk'[p] \subseteq Comm(p)'
    BY <1>1 DEF RecoveryInv
  <1>4. CASE Restored
    BY <1>1, <1>2, <1>3, <1>4 DEF RecoveryInv, Restored
  <1>5. ASSUME NEW s, RecoveryLog(s), Progress(s) PROVE Progress(s)'
    <2>1. CASE chain = NoBlock
      BY <1>1, <1>2, <1>5, <2>1 DEF Progress
    <2>2. CASE chain # NoBlock
      <3>1. PICK k \in 1 .. Len(s) : chain = s[k] /\ \A p \in Pages : InBlock(s, k, p)
        BY <1>5, <2>2 DEF Progress
      <3>2. \A p \in Pages : InBlock(s, k, p)'
        BY <1>1, <1>2, <3>1 DEF InBlock, PagesOf
      <3> QED BY <1>5, <2>2, <3>1, <3>2 DEF Progress
    <2> QED BY <2>1, <2>2
  <1> QED BY <1>2, <1>3, <1>4, <1>5 DEF RecoveryInv

\* load_tjc finds the leader, if there is one, and starts with its block.
LEMMA RecoveryLoad ==
  ASSUME CommitInv, RecoveryInv, load_tjc
  PROVE  RecoveryInv'
  <1>1. /\ UNCHANGED <<disk, tdata, tjc, written, committed, mode>>
        /\ mode = "restoring" /\ chain = NoBlock /\ tjc_block \in TjcBlocks
        /\ IF tjc[tjc_block].tag = "VALID_TJC_LEADER"
           THEN /\ chain' = tjc_block
                /\ todo' = PagesOf(tjc[tjc_block])
                /\ UNCHANGED tjc_block
           ELSE NextJournal
    BY DEF load_tjc, Restores, fileVars
  <1>2. \A p \in Pages : Comm(p)' = Comm(p)
    BY <1>1, RecoveryFrame
  <1>3. /\ \A s : RecoveryLog(s) => RecoveryLog(s)'
        /\ \A s, k : \A p \in Pages : Pending(s, k, p) => Pending(s, k, p)'
        /\ Leaders' = Leaders
    BY <1>1, RecoveryFrame
  <1>4. \A p \in Pages : disk'[p] \subseteq Comm(p)'
    BY <1>1, <1>2 DEF RecoveryInv
  <1>5. CASE tjc[tjc_block].tag # "VALID_TJC_LEADER"
    <2>1. chain' = NoBlock
      BY <1>1, <1>5 DEF NextJournal
    <2>2. CASE Restored
      BY <1>1, <1>2, <1>3, <1>4, <2>1, <2>2 DEF RecoveryInv, Restored
    <2>3. ASSUME NEW s, RecoveryLog(s), Progress(s) PROVE Progress(s)'
      BY <1>1, <1>2, <1>3, <2>1, <2>3 DEF Progress
    <2> QED BY <1>1, <1>3, <1>4, <2>2, <2>3 DEF RecoveryInv
  <1>6. CASE tjc[tjc_block].tag = "VALID_TJC_LEADER"
    <2>1. tjc_block \in Leaders
      BY <1>1, <1>6 DEF Leaders
    <2>2. PICK s : RecoveryLog(s) /\ Progress(s)
      BY <1>1, <2>1 DEF RecoveryInv, Restored
    <2>3. tjc_block = Last(s)
      BY <2>1, <2>2 DEF RecoveryLog
    <2>4. /\ Len(s) \in Nat \ {0} /\ s[Len(s)] = tjc_block
          /\ \A i \in 1 .. Len(s) : s[i] \in TjcBlocks
      BY <2>2, <2>3, ChainEnds DEF RecoveryLog
    <2>5. /\ chain' = tjc_block /\ UNCHANGED tjc_block /\ todo' = PagesOf(tjc[tjc_block])
      BY <1>1, <1>6
    <2>6. ASSUME NEW p \in Pages PROVE InBlock(s, Len(s), p)'
      <3>1. disk[p] = Comm(p) \/ Pending(s, Len(s), p)
        BY <1>1, <2>2 DEF Progress
      <3>2. CASE Pending(s, Len(s), p)
        <4>1. PICK i \in 1 .. Len(s), b \in SwapBlocks : <<p, b>> \in tjc[s[i]].pairs
          BY <3>2 DEF Pending
        <4>2. CASE i = Len(s)
          <5>1. <<p, b>>[1] = p
            OBVIOUS
          <5>2. p \in PagesOf(tjc[tjc_block])
            BY <2>4, <4>1, <4>2, <5>1 DEF PagesOf
          <5> QED BY <1>1, <2>4, <2>5, <5>2 DEF InBlock
        <4>3. CASE i # Len(s)
          <5>1. i \in 1 .. Len(s) - 1
            BY <2>4, <4>3
          <5>2. Pending(s, Len(s) - 1, p)
            BY <4>1, <5>1 DEF Pending
          <5> QED BY <1>3, <5>2 DEF InBlock
        <4> QED BY <4>2, <4>3
      <3> QED BY <1>1, <1>2, <3>1, <3>2 DEF InBlock
    <2>7. Progress(s)'
      <3>1. Len(s) \in 1 .. Len(s) /\ chain' # NoBlock
        BY <1>1, <2>4, <2>5, BlockFacts
      <3> QED BY <2>3, <2>4, <2>5, <2>6, <3>1 DEF Progress
    <2> QED BY <1>3, <1>4, <2>2, <2>7 DEF RecoveryInv
  <1> QED BY <1>5, <1>6

\* A page is restored from its swap block.
LEMMA RecoveryPair ==
  ASSUME CommitInv, RecoveryInv, restore_pair
  PROVE  RecoveryInv'
  <1>1. /\ UNCHANGED <<tdata, tjc, written, committed, mode, tjc_block, chain>>
        /\ mode = "restoring" /\ chain # NoBlock
    BY DEF restore_pair, Restores, startVars
  <1>2. PICK pair \in tjc[chain].pairs :
          /\ disk' = [disk EXCEPT ![pair[1]] = tdata[pair[2]]]
          /\ todo' = todo \ {pair[1]}
    BY DEF restore_pair
  <1>3. \A p \in Pages : Comm(p)' = Comm(p)
    BY <1>1, RecoveryFrame
  <1>4. /\ \A s : RecoveryLog(s) => RecoveryLog(s)'
        /\ \A s, k : \A p \in Pages : Pending(s, k, p) => Pending(s, k, p)'
    BY <1>1, RecoveryFrame
  <1>5. PICK s : RecoveryLog(s) /\ Progress(s)
    BY <1>1 DEF RecoveryInv, Restored
  <1>6. PICK k \in 1 .. Len(s) : chain = s[k] /\ \A p \in Pages : InBlock(s, k, p)
    BY <1>1, <1>5 DEF Progress
  <1>7. chain \in TjcBlocks
    BY <1>1 DEF CommitInv, Types, StartTypes
  <1>8. PICK q \in Pages, b \in SwapBlocks : pair = <<q, b>> /\ q = pair[1] /\ b = pair[2]
    <2>1. tjc[chain].pairs \subseteq Pages \X SwapBlocks
      BY <1>7 DEF CommitInv, Types, FileTypes, Journals, Pairs
    <2> QED BY <2>1
  <1>9. tdata[b] = Comm(q)
    BY <1>5, <1>6, <1>8 DEF RecoveryLog, InChain
  <1>10. \A p \in Pages : disk'[p] = IF p = q THEN Comm(q) ELSE disk[p]
    BY <1>2, <1>8, <1>9 DEF CommitInv, Types, FileTypes
  <1>11. ASSUME NEW p \in Pages PROVE InBlock(s, k, p)'
    <2>1. CASE p = q
      BY <1>3, <1>10, <2>1 DEF InBlock
    <2>2. CASE p # q
      <3>1. p \in todo => p \in todo'
        BY <1>2, <1>8, <2>2
      <3> QED BY <1>1, <1>3, <1>4, <1>6, <1>10, <2>2, <3>1 DEF InBlock, PagesOf
    <2> QED BY <2>1, <2>2
  <1>12. Progress(s)'
    BY <1>1, <1>5, <1>6, <1>11 DEF Progress
  <1>13. \A p \in Pages : disk'[p] \subseteq Comm(p)'
    BY <1>1, <1>3, <1>10 DEF RecoveryInv
  <1> QED BY <1>4, <1>5, <1>12, <1>13 DEF RecoveryInv

\* A TJC block is followed by the one before it in the chain, and the first
\* one by none.
LEMMA ChainStep ==
  ASSUME NEW s, RecoveryLog(s), NEW k \in 1 .. Len(s)
  PROVE  /\ k = 1 => ~Dependent(tjc[s[k]].link)
         /\ k # 1 => /\ k - 1 \in 1 .. Len(s) /\ tjc[s[k]].link = s[k - 1]
                     /\ s[k - 1] \in TjcBlocks /\ Dependent(tjc[s[k]].link)
  <1>1. /\ Len(s) \in Nat \ {0} /\ \A i \in 1 .. Len(s) : s[i] \in TjcBlocks
    BY ChainEnds DEF RecoveryLog
  <1>2. tjc[s[k]].link = IF k = 1 THEN NoBlock ELSE s[k - 1]
    BY DEF RecoveryLog, Chained
  <1>3. ASSUME k # 1 PROVE k - 1 \in 1 .. Len(s) /\ k - 1 # Len(s)
    BY <1>1, <1>3
  <1>4. ASSUME k # 1 PROVE tjc[s[k - 1]].tag = "VALID_TJC_DEPENDENT"
    BY <1>3, <1>4 DEF RecoveryLog, Chained
  <1>5. ASSUME k # 1 PROVE s[k - 1] \in TjcBlocks /\ s[k - 1] # NoBlock
    BY <1>1, <1>3, <1>5, BlockFacts
  <1> QED BY <1>2, <1>3, <1>4, <1>5 DEF Dependent

\* When a block is done, the pages left are in those before it in the chain.
LEMMA RecoveryFollow ==
  ASSUME CommitInv, RecoveryInv, follow_chain
  PROVE  RecoveryInv'
  <1>1. /\ UNCHANGED <<disk, tdata, tjc, written, committed, mode, tjc_block>>
        /\ mode = "restoring" /\ chain # NoBlock /\ todo = {}
        /\ Dependent(tjc[chain].link)
        /\ chain' = tjc[chain].link /\ todo' = PagesOf(tjc[chain'])
    BY DEF follow_chain, Restores, fileVars
  <1>2. \A p \in Pages : Comm(p)' = Comm(p)
    BY <1>1, RecoveryFrame
  <1>3. /\ \A s : RecoveryLog(s) => RecoveryLog(s)'
        /\ \A s, k : \A p \in Pages : Pending(s, k, p) => Pending(s, k, p)'
    BY <1>1, RecoveryFrame
  <1>4. PICK s : RecoveryLog(s) /\ Progress(s)
    BY <1>1 DEF RecoveryInv, Restored
  <1>5. PICK k \in 1 .. Len(s) : chain = s[k] /\ \A p \in Pages : InBlock(s, k, p)
    BY <1>1, <1>4 DEF Progress
  <1>6. k # 1 /\ k - 1 \in 1 .. Len(s) /\ chain' = s[k - 1] /\ s[k - 1] \in TjcBlocks
    BY <1>1, <1>4, <1>5, ChainStep
  <1>7. ASSUME NEW p \in Pages PROVE InBlock(s, k - 1, p)'
    <2>1. disk[p] = Comm(p) \/ Pending(s, k - 1, p)
      BY <1>1, <1>5 DEF InBlock
    <2>2. CASE Pending(s, k - 1, p)
      <3>1. PICK i \in 1 .. k - 1, b \in SwapBlocks : <<p, b>> \in tjc[s[i]].pairs
        BY <2>2 DEF Pending
      <3>2. CASE i = k - 1
        <4>1. <<p, b>>[1] = p
          OBVIOUS
        <4>2. p \in PagesOf(tjc[s[k - 1]])
          BY <3>1, <3>2, <4>1 DEF PagesOf
        <4> QED BY <1>1, <1>6, <4>2 DEF InBlock
      <3>3. CASE i # k - 1
        <4>1. i \in 1 .. (k - 1) - 1
          BY <1>6, <3>3
        <4>2. Pending(s, (k - 1) - 1, p)
          BY <3>1, <4>1 DEF Pending
        <4> QED BY <1>3, <4>2 DEF InBlock
      <3> QED BY <3>2, <3>3
    <2> QED BY <1>1, <1>2, <2>1, <2>2 DEF InBlock
  <1>8. Progress(s)'
    <2>1. tjc_block' = Last(s) /\ chain' # NoBlock
      BY <1>1, <1>4, <1>6, BlockFacts DEF Progress
    <2> QED BY <1>6, <1>7, <2>1 DEF Progress
  <1>9. \A p \in Pages : disk'[p] \subseteq Comm(p)'
    BY <1>1, <1>2 DEF RecoveryInv
  <1> QED BY <1>3, <1>4, <1>8, <1>9 DEF RecoveryInv

\* The first block of the chain is the last one restored.
LEMMA RecoveryDone ==
  ASSUME CommitInv, RecoveryInv, transaction_restored
  PROVE  RecoveryInv'
  <1>1. /\ UNCHANGED <<disk, written, committed, mode>>
        /\ mode = "restoring" /\ chain # NoBlock /\ todo = {}
        /\ ~Dependent(tjc[chain].link)
        /\ tjc' = invalidate_tjc_block(tjc_block) /\ chain' = NoBlock
    BY DEF transaction_restored, Restores, NextJournal
  <1>2. \A p \in Pages : Comm(p)' = Comm(p)
    BY <1>1, RecoveryFrame
  <1>3. PICK s : RecoveryLog(s) /\ Progress(s)
    BY <1>1 DEF RecoveryInv, Restored
  <1>4. PICK k \in 1 .. Len(s) : chain = s[k] /\ \A p \in Pages : InBlock(s, k, p)
    BY <1>1, <1>3 DEF Progress
  <1>5. k = 1
    BY <1>1, <1>3, <1>4, ChainStep
  <1>6. \A p \in Pages : ~Pending(s, k - 1, p)
    BY <1>5 DEF Pending
  <1>7. \A p \in Pages : disk[p] = Comm(p)
    BY <1>1, <1>4, <1>6 DEF InBlock
  <1>8. Leaders = {tjc_block} /\ tjc_block \in TjcBlocks
    BY <1>1, <1>3, ChainEnds DEF Progress, RecoveryLog
  <1>9. Leaders' = {}
    <2>1. Leaders' = Leaders \ {tjc_block}
      BY <1>1, <1>8, Invalidated DEF CommitInv, Types
    <2> QED BY <1>8, <2>1
  <1> QED BY <1>1, <1>2, <1>7, <1>9 DEF RecoveryInv, Restored

\* The server is up when there is nothing left to restore.
LEMMA DiskRestored ==
  ASSUME CommitInv, RecoveryInv, end_of_restoring
  PROVE  DiskInv' /\ RecoveryInv'
  <1>1. /\ UNCHANGED <<disk, written, committed, stage>> /\ mode' = "up"
        /\ mode = "restoring" /\ chain = NoBlock /\ tjc_block \notin TjcBlocks
    BY DEF end_of_restoring, Restores, fileVars, commitVars
  <1>2. Leaders = {}
    <2> SUFFICES ASSUME NEW b \in Leaders PROVE FALSE
      OBVIOUS
    <2>1. b \in TjcBlocks /\ b >= tjc_block
      BY <1>1 DEF Leaders, CommitInv, LeaderInv, LeadersAhead
    <2>2. tjc_block = Length
      BY <1>1 DEF CommitInv, Types, StartTypes, Length
    <2>3. Length \in Nat /\ b \in 0 .. Length - 1
      BY <2>1, BlockFacts
    <2> QED BY <2>1, <2>2, <2>3
  <1>3. Restored
    <2>1. \A s : ~RecoveryLog(s)
      BY <1>2 DEF RecoveryLog
    <2> QED BY <1>1, <2>1 DEF RecoveryInv
  <1>4. \A p \in Pages : Comm(p)' = Comm(p)
    BY <1>1, RecoveryFrame
  <1>5. stage' # "write"
    BY <1>1 DEF CommitInv, Control
  <1>6. DiskInv'
    BY <1>1, <1>3, <1>4, <1>5 DEF DiskInv, Restored
  <1> QED BY <1>1, <1>6 DEF RecoveryInv

\* Nobody works while the server starts.
LEMMA NobodyWorks ==
  ASSUME [Next]_vars, CommitInv, mode # "up", ~crash, ~start
  PROVE  UNCHANGED vars
  <1>1. ASSUME NEW c \in Clients, work(c) PROVE FALSE
    BY <1>1 DEF work, fix_priv_page, unswap_block, page_changed, get_frame, roll_back, commit,
                Works
  <1>2. ~commit_step
    BY DEF commit_step, make_swapped, wr_nothing, wr_changes, save_dependent, save_leader,
           save_tjc_fails, write_block, end_of_commit
  <1>3. \A p \in SystemPages : ~fix_any_page(p) /\ ~get_shared_frame(p)
    BY DEF fix_any_page, get_shared_frame
  <1> QED BY <1>1, <1>2, <1>3 DEF Next, finish

RestartInv == DiskInv /\ JournalInv /\ RecoveryInv

\* Every step keeps the database file, the journal and the start in step.
LEMMA RestartInvStays ==
  ASSUME OneClient, "swap" \notin MayFail, CommitInv, CopyInv, HistoryInv, RestartInv,
         [Next]_vars
  PROVE  RestartInv'
  <1> USE DEF RestartInv
  <1>1. JournalInv'
    BY JournalInvStays
  <1>2. ASSUME crash PROVE DiskInv' /\ RecoveryInv'
    <2>1. mode' # "up"
      BY <1>2 DEF crash
    <2> QED BY <1>2, <2>1, RecoveryCrash DEF DiskInv
  <1>3. ASSUME start PROVE DiskInv' /\ RecoveryInv'
    <2>1. mode # "up"
      <3>1. init_tables => mode # "up"
        BY DEF init_tables
      <3>2. restoring_actions => mode # "up"
        BY DEF restoring_actions, load_tjc, restore_pair, follow_chain, transaction_restored,
               end_of_restoring, Restores
      <3> QED BY <1>3, <3>1, <3>2 DEF start
    <2>2. ASSUME init_tables PROVE RecoveryInv' /\ mode' # "up"
      <3>1. UNCHANGED <<disk, tdata, tjc, written, committed, chain, todo, tjc_block>>
            /\ mode' # "up"
        BY <2>2 DEF init_tables, fileVars, commitVars
      <3> QED BY <2>1, <3>1, RecoveryKept
    <2>3. ASSUME load_tjc \/ restore_pair \/ follow_chain \/ transaction_restored
          PROVE  RecoveryInv' /\ mode' # "up"
      <3>1. mode' # "up"
        <4>1. mode = "restoring" /\ UNCHANGED mode
          BY <2>3 DEF load_tjc, restore_pair, follow_chain, transaction_restored, Restores,
                      startVars
        <4> QED BY <4>1
      <3> QED BY <2>3, <3>1, RecoveryLoad, RecoveryPair, RecoveryFollow, RecoveryDone
    <2> QED BY <1>3, <2>2, <2>3, DiskRestored DEF start, restoring_actions, DiskInv
  <1>4. ASSUME ~crash, ~start PROVE DiskInv' /\ RecoveryInv'
    <2>1. UNCHANGED mode
      BY <1>4, ModeChanges
    <2>2. CASE mode = "up"
      <3>1. DiskInv'
        BY <1>4, DiskRunning
      <3>2. mode' = "up"
        BY <2>1, <2>2
      <3> QED BY <3>1, <3>2 DEF RecoveryInv
    <2>3. CASE mode # "up"
      <3>1. UNCHANGED vars
        BY <1>4, <2>3, NobodyWorks
      <3>2. UNCHANGED <<disk, tdata, tjc, written, committed, chain, todo, tjc_block>>
        BY <3>1 DEF vars, fileVars, commitVars, startVars
      <3>3. RecoveryInv'
        BY <2>3, <3>2, RecoveryKept
      <3>4. mode' # "up"
        BY <2>1, <2>3
      <3> QED BY <3>3, <3>4 DEF DiskInv
    <2> QED BY <2>2, <2>3
  <1> QED BY <1>1, <1>2, <1>3, <1>4

\* Whatever the point of a commit or of a start at which the server crashes,
\* and however often, a client finds all it has committed and nothing else.
THEOREM DurableOverCrashes ==
  ASSUME OneClient, "swap" \notin MayFail
  PROVE  Spec => [](Durable /\ OnlyCommitted)
  <1> DEFINE Inv == CommitInv /\ CopyInv /\ HistoryInv /\ RestartInv
  <1>1. Init => Inv
    <2> SUFFICES ASSUME Init PROVE JournalInv /\ RecoveryInv
      BY InitCommitInv, InitCopyInv, InitHistoryDisk DEF RestartInv
    <2>1. stage = "idle" /\ mode = "up"
      BY DEF Init
    <2> QED BY <2>1 DEF JournalInv, ChainInv, SavedBlocks, PairsInv, ChangesSaved, SwapsUsed,
                        RecoveryInv
  <1>2. Inv /\ [Next]_vars => Inv'
    <2>1. Undisturbed
      BY DEF Undisturbed
    <2> QED BY <2>1, CommitInvStays, CopyInvStays, HistoryInvStays, RestartInvStays
  <1>3. Inv => Durable /\ OnlyCommitted
    <2> SUFFICES ASSUME Inv PROVE Durable /\ OnlyCommitted
      OBVIOUS
    <2>1. CASE mode = "up"
      BY <2>1, DiskProperties DEF RestartInv
    <2>2. CASE mode # "up"
      BY <2>2 DEF RestartInv, RecoveryInv, Durable, Quiet, OnlyCommitted, Comm
    <2> QED BY <2>1, <2>2
  <1> HIDE DEF Inv
  <1> QED BY <1>1, <1>2, <1>3, PTL DEF Spec

==============================================================================
