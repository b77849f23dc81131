---------------------------- MODULE SecureCommit ----------------------------
(***************************************************************************)
(* Private copies of pages, their swapping to the transaction file, the    *)
(* secured commit (SecureTransactions) with its journal blocks (TJC), and  *)
(* the repair of a broken commit on the next start (restoring_actions).    *)
(*                                                                         *)
(* The content of a page is the set of changes <<page, client, n>> it has, *)
(* n being the number of the client's transaction.  Clients change         *)
(* different records of a page (the record locks are the matter of Locks). *)
(* A stay in cs_frame or cs_trans is one action; what is done with a page  *)
(* under its dadr-lock (DadrLocks) is not interrupted on that page.        *)
(*                                                                         *)
(* A crash kills the server: memory is lost, finished writes are not.      *)
(***************************************************************************)
EXTENDS Integers, SequencesExt

CONSTANTS Clients,
          Pages,
          SystemPages,    \* pages whose shared copies are modelled
          CellSize,       \* 32 in the code: a TJC block and 31 swap blocks
          Cells,          \* bound: length of the transaction file
          TjcPairs,       \* pairs in a TJC block
          MaxTrans,       \* bound: transactions of a client
          MaxCrashes,     \* bound: crashes of the server
          MayFail,        \* writes that may fail: "swap", "tjc"
          NoClient, NoPage

Trans == Clients \X (1 .. MaxTrans)
Changes == Pages \X Clients \X (1 .. MaxTrans)
TjcBlocks == {CellSize * k : k \in 0 .. Cells - 1}
SwapBlocks == (0 .. CellSize * Cells - 1) \ TjcBlocks
NoBlock == -1
NotCached == {NoPage}
Tags == {"TJC_INVALID", "VALID_TJC_LEADER", "VALID_TJC_DEPENDENT"}
Pairs == Pages \X SwapBlocks
Journals == [tag : Tags, link : TjcBlocks \cup {NoBlock}, pairs : SUBSET Pairs]
InvalidJournal == [tag |-> "TJC_INVALID", link |-> NoBlock, pairs |-> {}]

ASSUME CommitConstants ==
    /\ CellSize \in Nat /\ CellSize > 1
    /\ Cells \in Nat /\ TjcPairs \in Nat \ {0}
    /\ MaxTrans \in Nat /\ MaxCrashes \in Nat
    /\ SystemPages \subseteq Pages
    /\ MayFail \subseteq {"swap", "tjc"}
    /\ NoClient \notin Clients /\ NoPage \notin Pages

VARIABLES 
  \* the files
    disk,           \* contents of the pages in the database file
    tdata,          \* contents of the swap blocks
    tjc,            \* contents of the TJC blocks
  \* t_transactor
    alloc_map,      \* blocks in use
    srch_start,
    tjc_init_limit,
  \* control blocks of frames and swaps
    core,           \* contents of the frames with a client's copy of a page
    swapdadr,       \* the block to which the copy is swapped
    shared,         \* shared copy of a system page
  \* transactions
    trans,          \* number of the client's transaction
    log,            \* its private pages
    failed,         \* commit has failed, roll_back has not been called
  \* commit
    stage,          \* idle, save, write: progress of the commit
    committer,      \* the client in commit_sem
    todo,           \* pages the loop has yet to visit
    core_tjc,       \* pairs in the TJC block being built
    tjc_all,        \* TJC blocks saved
    writing,        \* the page wr_changes writes
  \* start of the server
    mode,           \* up, init, restoring
    tjc_block,      \* the TJC block restoring_actions has got to
    chain,          \* the TJC block being processed, or NoBlock
    crashes,
  \* history
    written,        \* all changes ever made
    committed       \* transactions that have saved their leader

fileVars == <<disk, tdata, tjc>>
mapVars == <<alloc_map, srch_start, tjc_init_limit>>
copyVars == <<core, swapdadr, shared>>
tranVars == <<trans, log, failed>>
commitVars == <<stage, committer, todo, core_tjc, tjc_all, writing>>
startVars == <<mode, tjc_block, chain, crashes>>
vars == <<fileVars, mapVars, copyVars, tranVars, commitVars, startVars,
          written, committed>>

TypeOK ==
    /\ disk \in [Pages -> SUBSET Changes]
    /\ tdata \in [SwapBlocks -> SUBSET Changes]
    /\ tjc \in [TjcBlocks -> Journals]
    /\ alloc_map \subseteq SwapBlocks \cup TjcBlocks
    /\ srch_start \in 0 .. CellSize * Cells
    /\ tjc_init_limit \in 0 .. CellSize * Cells
    /\ core \in [Clients -> [Pages -> Seq(SUBSET Changes)]]
    /\ \A c \in Clients, p \in Pages : Len(core[c][p]) <= 2
    /\ swapdadr \in [Clients -> [Pages -> SwapBlocks \cup {NoBlock}]]
    /\ shared \in [SystemPages -> (SUBSET Changes) \cup {NotCached}]
    /\ trans \in [Clients -> 1 .. MaxTrans + 1]
    /\ log \in [Clients -> SUBSET Pages]
    /\ failed \in [Clients -> BOOLEAN]
    /\ stage \in {"idle", "save", "write"}
    /\ committer \in Clients \cup {NoClient}
    /\ todo \subseteq Pages
    /\ core_tjc \subseteq Pairs /\ Cardinality(core_tjc) <= TjcPairs
    /\ tjc_all \in Seq(TjcBlocks)
    /\ writing \in Pages \cup {NoPage}
    /\ mode \in {"up", "init", "restoring"}
    /\ tjc_block \in TjcBlocks \cup {CellSize * Cells}
    /\ chain \in TjcBlocks \cup {NoBlock}
    /\ crashes \in 0 .. MaxCrashes
    /\ written \subseteq Changes
    /\ committed \subseteq Trans

NoCopies == [c \in Clients |-> [p \in Pages |-> << >>]]
NoSwaps == [c \in Clients |-> [p \in Pages |-> NoBlock]]
NothingCached == [p \in SystemPages |-> NotCached]

Init ==
    /\ disk = [p \in Pages |-> {}]
    /\ tdata = [b \in SwapBlocks |-> {}]
    /\ tjc = [b \in TjcBlocks |-> InvalidJournal]
    /\ alloc_map = {} /\ srch_start = 0 /\ tjc_init_limit = 0
    /\ core = NoCopies /\ swapdadr = NoSwaps /\ shared = NothingCached
    /\ trans = [c \in Clients |-> 1]
    /\ log = [c \in Clients |-> {}]
    /\ failed = [c \in Clients |-> FALSE]
    /\ stage = "idle" /\ committer = NoClient
    /\ todo = {} /\ core_tjc = {} /\ tjc_all = << >> /\ writing = NoPage
    /\ mode = "up" /\ tjc_block = 0 /\ chain = NoBlock /\ crashes = 0
    /\ written = {} /\ committed = {}

-----------------------------------------------------------------------------
(* t_transactor *)

\* Swap blocks get_swap_block may find: it starts in the cell of srch_start.
FreeBlocks ==
    {b \in SwapBlocks \ alloc_map : b \div CellSize >= srch_start \div CellSize}
NewBlock == Min(FreeBlocks)

\* get_swap_block and save_block.
save_block(content) ==
    /\ FreeBlocks # {}
    /\ alloc_map' = alloc_map \cup {NewBlock}
    /\ srch_start' = NewBlock + 1
    /\ tdata' = [tdata EXCEPT ![NewBlock] = content]
    /\ LET base == CellSize * (NewBlock \div CellSize)
       IN  IF base > tjc_init_limit
           THEN /\ tjc' = [tjc EXCEPT ![base] = InvalidJournal]
                /\ tjc_init_limit' = NewBlock
           ELSE UNCHANGED <<tjc, tjc_init_limit>>

\* save_block that cannot write: the block is allocated and freed again.
save_block_fails ==
    /\ "swap" \in MayFail
    /\ FreeBlocks # {}
    /\ srch_start' = NewBlock
    /\ UNCHANGED <<alloc_map, tjc_init_limit, tdata, tjc>>

\* free_swap_block for all blocks of a set.
free_swap_blocks(S) ==
    /\ alloc_map' = alloc_map \ S
    /\ srch_start' = Min(S \cup {srch_start})
    /\ UNCHANGED tjc_init_limit

FreeJournals == TjcBlocks \ alloc_map
NewJournal == Min(FreeJournals)

\* Slip: the limit is not moved.
InitLimitKept(block) == tjc_init_limit
InitLimit(block) == block + 1

save_tjc_block(journal) ==
    /\ FreeJournals # {}
    /\ alloc_map' = alloc_map \cup {NewJournal}
    /\ tjc' = [tjc EXCEPT ![NewJournal] = journal]
    /\ tjc_init_limit' = InitLimit(NewJournal)
    /\ UNCHANGED <<srch_start, tdata>>

\* The file after invalidate_tjc_block.
\* Slip: the leader stays valid.
TjcStaysValid(block) == tjc
invalidate_tjc_block(block) == [tjc EXCEPT ![block].tag = "TJC_INVALID"]

-----------------------------------------------------------------------------
(* A client works with pages *)

Swapped(c, p) == IF swapdadr[c][p] = NoBlock THEN {} ELSE {swapdadr[c][p]}
MyChange(c, p) == <<p, c, trans[c]>>
HasChanged(c, p) == MyChange(c, p) \in written

Works(c) ==
    /\ mode = "up"
    /\ committer # c
    /\ ~failed[c]
    /\ trans[c] <= MaxTrans

\* What a new private copy of a page has: a shared copy or the page read.
Loaded(p) == IF p \in SystemPages /\ shared[p] # NotCached THEN shared[p] ELSE disk[p]

\* fix_priv_page of a page the client has no copy of.
fix_priv_page(c, p) ==
    /\ Works(c)
    /\ core[c][p] = << >> /\ swapdadr[c][p] = NoBlock
    /\ core' = [core EXCEPT ![c][p] = <<Loaded(p)>>]
    /\ log' = [log EXCEPT ![c] = @ \cup {p}]
    /\ UNCHANGED <<fileVars, mapVars, swapdadr, shared, trans, failed,
                   commitVars, startVars, written, committed>>

\* fix_priv_page of a page which is swapped (unswap_block).
unswap_block(c, p) ==
    /\ Works(c)
    /\ core[c][p] = << >> /\ swapdadr[c][p] # NoBlock
    /\ p # writing
    /\ core' = [core EXCEPT ![c][p] = <<tdata[swapdadr[c][p]]>>]
    /\ swapdadr' = [swapdadr EXCEPT ![c][p] = NoBlock]
    /\ free_swap_blocks(Swapped(c, p))
    /\ UNCHANGED <<fileVars, shared, tranVars, commitVars, startVars, written,
                   committed>>

\* The client writes to its copy; t_log::page_changed.
page_changed(c, p) ==
    /\ Works(c)
    /\ core[c][p] # << >>
    /\ ~HasChanged(c, p)
    /\ core' = [core EXCEPT ![c][p][1] = @ \cup {MyChange(c, p)}]
    /\ log' = [log EXCEPT ![c] = @ \cup {p}]
    /\ written' = written \cup {MyChange(c, p)}
    /\ UNCHANGED <<fileVars, mapVars, swapdadr, shared, trans, failed,
                   commitVars, startVars, committed>>

\* Dirty: the frame has changes of its owner which are not saved.
Dirty(c, p, i) == \E n \in 1 .. MaxTrans : <<p, c, n>> \in core[c][p][i] \ disk[p]
\* Slip: a second swap of a page which is in core and swapped.
MustSwapDirty(c, p, i) == Dirty(c, p, i)
\* Only a dirty page which is not swapped yet has to be swapped.
MustSwap(c, p, i) == Dirty(c, p, i) /\ swapdadr[c][p] = NoBlock

\* get_frame, called by anybody, takes a frame with a private page.
get_frame(c, p) ==
    /\ mode = "up"
    /\ p # writing
    /\ \E i \in DOMAIN core[c][p] :
        /\ core' = [core EXCEPT ![c][p] = RemoveAt(@, i)]
        /\ IF MustSwap(c, p, i)
           THEN /\ save_block(core[c][p][i])
                /\ swapdadr' = [swapdadr EXCEPT ![c][p] = NewBlock]
           ELSE UNCHANGED <<mapVars, swapdadr, tdata, tjc>>
    /\ UNCHANGED <<disk, shared, tranVars, commitVars, startVars, written,
                   committed>>

\* fix_any_page reads a page which is not in core.
fix_any_page(p) ==
    /\ mode = "up"
    /\ p # writing
    /\ shared[p] = NotCached
    /\ shared' = [shared EXCEPT ![p] = disk[p]]
    /\ UNCHANGED <<fileVars, mapVars, core, swapdadr, tranVars, commitVars,
                   startVars, written, committed>>

\* get_frame takes a frame with a shared page.
get_shared_frame(p) ==
    /\ mode = "up"
    /\ shared[p] # NotCached
    /\ shared' = [shared EXCEPT ![p] = NotCached]
    /\ UNCHANGED <<fileVars, mapVars, core, swapdadr, tranVars, commitVars,
                   startVars, written, committed>>

\* Copies of a page left to a client by remove_changes: my_core is the last
\* frame in the chain, swaps are dropped.
\* Slip: the frame is kept.
LeftAllFrames(s) == s
LeftFrames(s) == IF s = << >> THEN s ELSE Front(s)

roll_back(c) ==
    /\ mode = "up"
    /\ committer # c
    /\ failed[c] \/ log[c] # {}
    /\ writing \notin log[c]
    /\ core' = [core EXCEPT ![c] =
                  [p \in Pages |-> IF p \in log[c] THEN LeftFrames(@[p]) ELSE @[p]]]
    /\ swapdadr' = [swapdadr EXCEPT ![c] =
                  [p \in Pages |-> IF p \in log[c] THEN NoBlock ELSE @[p]]]
    /\ free_swap_blocks(UNION {Swapped(c, p) : p \in log[c]})
    /\ log' = [log EXCEPT ![c] = {}]
    /\ failed' = [failed EXCEPT ![c] = FALSE]
    /\ trans' = [trans EXCEPT ![c] = @ + 1]
    /\ UNCHANGED <<fileVars, shared, commitVars, startVars, written, committed>>

-----------------------------------------------------------------------------
(* commit *)

Me == committer
MyTrans == <<Me, trans[Me]>>

commit(c) ==
    /\ Works(c)
    /\ committer = NoClient
    /\ log[c] # {}
    /\ committer' = c
    /\ stage' = "save" /\ todo' = log[c]
    /\ core_tjc' = {} /\ tjc_all' = << >>
    /\ UNCHANGED <<fileVars, mapVars, copyVars, tranVars, writing, startVars,
                   written, committed>>

\* Slip: one pair more.
FullLate == Cardinality(core_tjc) = TjcPairs + 1
Full == Cardinality(core_tjc) = TjcPairs
\* tjc_block_link, which ends the chain when no block has been saved.
\* Slip: the link starts with 0.
LinkFromZero == IF tjc_all = << >> THEN 0 ELSE Last(tjc_all)
Link == IF tjc_all = << >> THEN NoBlock ELSE Last(tjc_all)

\* The body of the loop over the changed pages: make_swapped.
Swaps(p, block) ==
    /\ core_tjc' = core_tjc \cup {<<p, block>>}
    /\ swapdadr' = [swapdadr EXCEPT ![Me][p] = block]

make_swapped(p) ==
    /\ mode = "up" /\ stage = "save"
    /\ p \in todo
    /\ ~Full
    /\ todo' = todo \ {p}
    /\ \/ /\ core[Me][p] # << >>
          /\ save_block(core[Me][p][1])
          /\ Swaps(p, NewBlock)
       \/ /\ core[Me][p] # << >>
          /\ save_block_fails
          /\ UNCHANGED <<core_tjc, swapdadr>>
       \/ /\ core[Me][p] = << >> /\ swapdadr[Me][p] # NoBlock
          /\ Swaps(p, swapdadr[Me][p])
          /\ UNCHANGED <<mapVars, tdata, tjc>>
       \/ /\ core[Me][p] = << >> /\ swapdadr[Me][p] = NoBlock
          /\ UNCHANGED <<mapVars, tdata, tjc, core_tjc, swapdadr>>
    /\ UNCHANGED <<disk, core, shared, tranVars, stage, committer, tjc_all,
                   writing, startVars, written, committed>>

save_dependent ==
    /\ mode = "up" /\ stage = "save"
    /\ todo # {} /\ Full
    /\ save_tjc_block([tag |-> "VALID_TJC_DEPENDENT", link |-> Link,
                       pairs |-> core_tjc])
    /\ tjc_all' = Append(tjc_all, NewJournal)
    /\ core_tjc' = {}
    /\ UNCHANGED <<disk, copyVars, tranVars, stage, committer, todo, writing,
                   startVars, written, committed>>

save_leader ==
    /\ mode = "up" /\ stage = "save"
    /\ todo = {}
    /\ save_tjc_block([tag |-> "VALID_TJC_LEADER", link |-> Link,
                       pairs |-> core_tjc])
    /\ tjc_all' = Append(tjc_all, NewJournal)
    /\ stage' = "write"
    /\ todo' = log[Me]
    /\ committed' = committed \cup {MyTrans}
    /\ UNCHANGED <<disk, copyVars, tranVars, committer, core_tjc, writing,
                   startVars, written>>

\* save_tjc_block cannot write its block: commit leaves commit_sem; it calls
\* roll_back then.  The blocks in tjc_all stay allocated.
save_tjc_fails ==
    /\ mode = "up" /\ stage = "save"
    /\ "tjc" \in MayFail
    /\ todo = {} \/ Full
    /\ tjc_init_limit' = 0
    /\ failed' = [failed EXCEPT ![Me] = TRUE]
    /\ stage' = "idle" /\ committer' = NoClient /\ todo' = {}
    /\ core_tjc' = {} /\ tjc_all' = << >>
    /\ UNCHANGED <<fileVars, alloc_map, srch_start, copyVars, trans, log, writing,
                   startVars, written, committed>>

\* wr_changes of a page that was not changed, or has no copy any more.
wr_nothing(p) ==
    /\ mode = "up" /\ stage = "write" /\ writing = NoPage
    /\ p \in todo
    /\ ~HasChanged(Me, p) \/ (core[Me][p] = << >> /\ swapdadr[Me][p] = NoBlock)
    /\ core' = [core EXCEPT ![Me][p] = LeftFrames(@)]
    /\ swapdadr' = [swapdadr EXCEPT ![Me][p] = NoBlock]
    /\ free_swap_blocks(Swapped(Me, p))
    /\ todo' = todo \ {p}
    /\ UNCHANGED <<fileVars, shared, tranVars, stage, committer, core_tjc,
                   tjc_all, writing, startVars, written, committed>>

\* First part of wr_changes: the copy is in core, its swap is released.
wr_changes(p) ==
    /\ mode = "up" /\ stage = "write" /\ writing = NoPage
    /\ p \in todo
    /\ HasChanged(Me, p)
    /\ core[Me][p] # << >> \/ swapdadr[Me][p] # NoBlock
    /\ core' = [core EXCEPT ![Me][p] =
                  IF @ = << >> THEN <<tdata[swapdadr[Me][p]]>> ELSE @]
    /\ swapdadr' = [swapdadr EXCEPT ![Me][p] = NoBlock]
    /\ free_swap_blocks(Swapped(Me, p))
    /\ writing' = p
    /\ UNCHANGED <<fileVars, shared, tranVars, stage, committer, todo, core_tjc,
                   tjc_all, startVars, written, committed>>

\* The changed records are copied to the other copies of the page; the
\* swapped ones return to core.
Merged(content, p) == content \cup {MyChange(Me, p)}
\* Slip: swapped copies return to core as they were.
MergedInCore(c, p) ==
    (IF swapdadr[c][p] = NoBlock THEN << >> ELSE <<tdata[swapdadr[c][p]]>>)
       \o [i \in DOMAIN core[c][p] |-> Merged(core[c][p][i], p)]
MergedFrames(c, p) ==
    LET unswapped == IF swapdadr[c][p] = NoBlock THEN << >>
                     ELSE <<tdata[swapdadr[c][p]]>>
        frames == unswapped \o core[c][p]
    IN  [i \in DOMAIN frames |-> Merged(frames[i], p)]

UpdatedShared(p, page) ==
    [q \in SystemPages |-> IF q = p THEN page ELSE shared[q]]

\* Second part of wr_changes: write_block and the update of other copies.
\* The client's frame becomes a shared page.
write_block ==
    /\ mode = "up" /\ writing # NoPage
    /\ LET p == writing
           page == Last(core[Me][p])
       IN  /\ disk' = [disk EXCEPT ![p] = page]
           /\ core' = [c \in Clients |-> [core[c] EXCEPT ![p] =
                         IF c = Me THEN Front(@) ELSE MergedFrames(c, p)]]
           /\ swapdadr' = [c \in Clients |-> [swapdadr[c] EXCEPT ![p] = NoBlock]]
           /\ free_swap_blocks(UNION {Swapped(c, p) : c \in Clients})
           /\ shared' = UpdatedShared(p, page)
           /\ todo' = todo \ {p}
    /\ writing' = NoPage
    /\ UNCHANGED <<tdata, tjc, tranVars, stage, committer, core_tjc, tjc_all,
                   startVars, written, committed>>

\* The end of commit: the leader is invalidated and TJC blocks are freed.
end_of_commit ==
    /\ mode = "up" /\ stage = "write"
    /\ todo = {}
    /\ tjc' = IF tjc_all = << >> THEN tjc
              ELSE invalidate_tjc_block(Last(tjc_all))
    /\ alloc_map' = alloc_map \ {tjc_all[i] : i \in DOMAIN tjc_all}
    /\ log' = [log EXCEPT ![Me] = {}]
    /\ trans' = [trans EXCEPT ![Me] = @ + 1]
    /\ stage' = "idle" /\ committer' = NoClient
    /\ core_tjc' = {} /\ tjc_all' = << >>
    /\ UNCHANGED <<disk, tdata, srch_start, tjc_init_limit, copyVars, failed,
                   todo, writing, startVars, written, committed>>

-----------------------------------------------------------------------------
(* A crash and the start of the server *)

crash ==
    /\ crashes < MaxCrashes
    /\ crashes' = crashes + 1
    /\ mode' = "init"
    /\ alloc_map' = {} /\ srch_start' = 0 /\ tjc_init_limit' = 0
    /\ core' = NoCopies /\ swapdadr' = NoSwaps /\ shared' = NothingCached
    /\ log' = [c \in Clients |-> {}]
    /\ failed' = [c \in Clients |-> FALSE]
    /\ trans' = [c \in Clients |->
                   IF log[c] # {} /\ trans[c] <= MaxTrans THEN trans[c] + 1 ELSE trans[c]]
    /\ stage' = "idle" /\ committer' = NoClient
    /\ todo' = {} /\ core_tjc' = {} /\ tjc_all' = << >> /\ writing' = NoPage
    /\ tjc_block' = 0 /\ chain' = NoBlock
    /\ UNCHANGED <<fileVars, written, committed>>

\* The server reads its system tables before it calls restoring_actions.
init_tables ==
    /\ mode = "init"
    /\ \E S \in SUBSET SystemPages :
          shared' = [p \in SystemPages |-> IF p \in S THEN disk[p] ELSE NotCached]
    /\ mode' = "restoring"
    /\ UNCHANGED <<fileVars, mapVars, core, swapdadr, tranVars, commitVars,
                   tjc_block, chain, crashes, written, committed>>

\* The loop of restoring_actions over the TJC blocks.  todo has the pages of
\* the pairs of the block in chain that are yet to be restored.
PagesOf(journal) == {pair[1] : pair \in journal.pairs}

Restores == mode = "restoring"
NextJournal ==
    /\ tjc_block' = tjc_block + CellSize
    /\ chain' = NoBlock /\ todo' = {}

load_tjc ==
    /\ Restores /\ chain = NoBlock /\ tjc_block \in TjcBlocks
    /\ IF tjc[tjc_block].tag = "VALID_TJC_LEADER"
       THEN /\ chain' = tjc_block
            /\ todo' = PagesOf(tjc[tjc_block])
            /\ UNCHANGED tjc_block
       ELSE NextJournal
    /\ UNCHANGED <<fileVars, mapVars, copyVars, tranVars, stage, committer,
                   core_tjc, tjc_all, writing, mode, crashes, written, committed>>

restore_pair ==
    /\ Restores /\ chain # NoBlock
    /\ \E pair \in tjc[chain].pairs :
          /\ pair[1] \in todo
          /\ disk' = [disk EXCEPT ![pair[1]] = tdata[pair[2]]]
          /\ todo' = todo \ {pair[1]}
    /\ UNCHANGED <<tdata, tjc, mapVars, copyVars, tranVars, stage, committer,
                   core_tjc, tjc_all, writing, startVars, written, committed>>

\* Slip: dependent blocks are not recognized.
DependentLeader(block) == block # NoBlock /\ tjc[block].tag = "VALID_TJC_LEADER"
Dependent(block) == block # NoBlock /\ tjc[block].tag = "VALID_TJC_DEPENDENT"

follow_chain ==
    /\ Restores /\ chain # NoBlock /\ todo = {}
    /\ Dependent(tjc[chain].link)
    /\ chain' = tjc[chain].link
    /\ todo' = PagesOf(tjc[chain'])
    /\ UNCHANGED <<fileVars, mapVars, copyVars, tranVars, stage, committer,
                   core_tjc, tjc_all, writing, mode, tjc_block, crashes, written,
                   committed>>

transaction_restored ==
    /\ Restores /\ chain # NoBlock /\ todo = {}
    /\ ~Dependent(tjc[chain].link)
    /\ tjc' = invalidate_tjc_block(tjc_block)
    /\ NextJournal
    /\ UNCHANGED <<disk, tdata, mapVars, copyVars, tranVars, stage, committer,
                   core_tjc, tjc_all, writing, mode, crashes, written, committed>>

\* Slip: the frames are not emptied.
FramesKept == shared
\* What frame_management_reset leaves in the frames.
ResetFrames == NothingCached

\* The frames are set up again with the size from the server's properties.
end_of_restoring ==
    /\ Restores /\ chain = NoBlock /\ tjc_block \notin TjcBlocks
    /\ mode' = "up" /\ tjc_block' = 0
    /\ shared' = ResetFrames
    /\ UNCHANGED <<fileVars, mapVars, core, swapdadr, tranVars, commitVars, chain,
                   crashes, written, committed>>

restoring_actions ==
    \/ load_tjc \/ restore_pair \/ follow_chain \/ transaction_restored
    \/ end_of_restoring

-----------------------------------------------------------------------------
\* All clients have run their transactions.
Finished == mode = "up" /\ \A c \in Clients : trans[c] > MaxTrans
finish == Finished /\ UNCHANGED vars

work(c) ==
    \/ \E p \in Pages : \/ fix_priv_page(c, p) \/ unswap_block(c, p)
                       \/ page_changed(c, p) \/ get_frame(c, p)
    \/ roll_back(c) \/ commit(c)

commit_step ==
    \/ \E p \in Pages : make_swapped(p) \/ wr_nothing(p) \/ wr_changes(p)
    \/ save_dependent \/ save_leader \/ save_tjc_fails
    \/ write_block \/ end_of_commit

start == init_tables \/ restoring_actions

Next ==
    \/ \E c \in Clients : work(c)
    \/ \E p \in SystemPages : fix_any_page(p) \/ get_shared_frame(p)
    \/ commit_step
    \/ crash
    \/ start
    \/ finish

Spec == Init /\ [][Next]_vars
\* The thread that starts the server runs.
FairSpec == Spec /\ WF_vars(start)

-----------------------------------------------------------------------------
(* Properties *)

\* A swap block belongs to one copy and all blocks in use belong to some:
\* get_swap_block never hands out a block that holds a copy, and drop_swap,
\* unswap_block and remove_changes never forget to free one.
SwapSpaceExact ==
    /\ \A b \in SwapBlocks :
          b \in alloc_map <=> \E c \in Clients, p \in Pages : swapdadr[c][p] = b
    /\ \A c, d \in Clients : \A p, q \in Pages :
          swapdadr[c][p] # NoBlock /\ swapdadr[c][p] = swapdadr[d][q] => c = d /\ p = q

\* A private copy, in a frame or swapped, is the page in the database plus
\* the owner's change, whatever other clients have committed since it was
\* made: wr_changes writes whole pages and must not undo their commits.
Current(c, p) == disk[p] \cup (IF HasChanged(c, p) THEN {MyChange(c, p)} ELSE {})
CopiesCurrent ==
    \A c \in Clients, p \in Pages :
        /\ \A i \in DOMAIN core[c][p] : core[c][p][i] = Current(c, p)
        /\ swapdadr[c][p] # NoBlock => tdata[swapdadr[c][p]] = Current(c, p)

\* A client's copies are among the private pages of its log: commit and
\* rollback visit only these, a copy out of the log would outlive the
\* transaction.
CopiesLogged ==
    \A c \in Clients : \A p \in Pages \ log[c] :
        core[c][p] = << >> /\ swapdadr[c][p] = NoBlock

\* The transaction file of a running server has one leader, of the commit
\* that is writing its pages, and none otherwise.  A lost leader loses the
\* transaction in a crash, a forgotten one would be replayed later.
Leaders == {b \in TjcBlocks : tjc[b].tag = "VALID_TJC_LEADER"}
OneLeader ==
    mode = "up" =>
        Leaders = IF stage = "write" /\ tjc_all # << >> THEN {Last(tjc_all)} ELSE {}

\* Shared copies of pages in frames are what the database file has: commits
\* update them, and no copy read before restoring_actions is used after it.
SharedCurrent ==
    mode = "up" => \A p \in SystemPages : shared[p] \in {NotCached, disk[p]}

Quiet == mode = "up" /\ committer = NoClient

\* When no commit is running, all changes of the transactions that have
\* saved their leader are in the database file, after a crash anywhere in
\* commit and in restoring_actions too.
Durable ==
    Quiet => \A ch \in written :
                <<ch[2], ch[3]>> \in committed => ch \in disk[ch[1]]

\* A page of the database file has only changes of that page, made by
\* transactions that have saved their leader: neither commit nor
\* restoring_actions writes anything of an open or rolled back transaction.
OnlyCommitted ==
    \A p \in Pages : \A ch \in disk[p] :
        ch[1] = p /\ <<ch[2], ch[3]>> \in committed

\* The start of the server ends: no TJC chain is walked for ever.
StartEnds == mode # "up" ~> mode = "up"

=============================================================================
