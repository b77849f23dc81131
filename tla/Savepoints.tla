----------------------------- MODULE Savepoints -----------------------------
(***************************************************************************)
(* Savepoints of a transaction (t_savepoints), the statements SAVEPOINT,   *)
(* RELEASE, ROLLBACK TO and atomic blocks with UNDO and REDO handlers, on  *)
(* private copies of pages that other clients change, too.  A savepoint    *)
(* has copies of the private pages in swap blocks: all blocks are taken    *)
(* and returned by the actions of Transactor, whose threads are the        *)
(* clients.                                                                *)
(*                                                                         *)
(* A page of records has a map of changed records, a full page (a block of *)
(* a long object) is changed as a whole and may be freed.  Swapping of     *)
(* private pages and failures during commit are the matter of              *)
(* SecureCommit, blocks of the database file of DiskSpace.                 *)
(***************************************************************************)
EXTENDS Transactor, Sequences, FiniteSets, Functions

CONSTANTS Pages, Records,
          FullPages,      \* pages with FULL_CHNGMAP
          SapoThreads,    \* clients that create savepoints
          Names,          \* names of savepoints
          MaxNumber,      \* 0x7fff: numbers of unnamed savepoints
          MaxSapos,       \* 1000 in create
          MaxWrites,      \* bound: changes of pages
          MaxStatements,  \* bound: other statements
          Programs,       \* what SQL programs may do beyond the ordinary
          NoThread

\* A change of a record another client has committed after a savepoint was
\* created; freeing a page changed before a savepoint; naming a savepoint of
\* the outer scope in an atomic block, or one that UNDO has gone past.
ProgramKinds == {"stale record", "freed page", "outer savepoint", "undone savepoint"}

ASSUME SavepointConstants ==
    /\ FullPages \subseteq Pages /\ Records # {} /\ SapoThreads \subseteq Threads
    /\ MaxNumber \in Nat /\ MaxSapos \in Nat /\ MaxSapos < MaxNumber
    /\ MaxWrites \in Nat /\ MaxStatements \in Nat
    /\ Programs \subseteq ProgramKinds
    /\ NoThread \notin Threads

VARIABLES
    fil,            \* committed contents of the pages
    tdata,          \* contents of the swap blocks
    released,       \* pages freed by a commit
    lock,           \* record locks, held until the end of the transaction
  \* the transaction log
    log,            \* private pages
    copy,           \* their contents
    chngmap,        \* changed records
    freed,          \* freed pages
  \* t_savepoints
    sapos, last_num,
    blocks,         \* atomic blocks being executed, with their sapo_ind
  \* a client's progress
    job,            \* run, save: in create, write: in commit
    todo,           \* pages the loop has yet to visit
    drop,           \* swap blocks destroy has yet to free
  \* history
    mine,           \* changes of a client that are to be committed
    ref,            \* what the database should contain
    writes, statements

pageVars == <<fil, tdata, released, lock>>
logVars == <<log, copy, chngmap, freed>>
sapoVars == <<sapos, last_num, blocks>>
jobVars == <<job, todo, drop>>
savepointVars == <<pageVars, logVars, sapoVars, jobVars, mine, ref, writes, statements>>
allVars == <<vars, savepointVars>>

None == -1
Gone == -2
Values == 0 .. MaxWrites
Contents == [Records -> Values]
Changes == [Pages -> [Records -> Values \cup {None, Gone}]]
NoChanges == [p \in Pages |-> [r \in Records |-> None]]
Blank == [r \in Records |-> 0]
Numbers == 1 .. MaxNumber

SavepointsTypeOK ==
    /\ TypeOK
    /\ fil \in [Pages -> Contents]
    /\ tdata \in [SwapBlocks -> Contents]
    /\ released \subseteq FullPages
    /\ lock \in [Pages -> [Records -> Threads \cup {NoThread}]]
    /\ log \in [Threads -> SUBSET Pages]
    /\ copy \in [Threads -> [Pages -> Contents]]
    /\ chngmap \in [Threads -> [Pages -> SUBSET Records]]
    /\ freed \in [Threads -> SUBSET FullPages]
    /\ \A t \in Threads :
          /\ Len(sapos[t]) <= MaxSapos
          /\ \A i \in DOMAIN sapos[t] :
                /\ sapos[t][i].id \in Names \cup Numbers
                /\ DOMAIN sapos[t][i].pairs \subseteq Pages
                /\ sapos[t][i].mark \in Changes
          /\ \A i \in DOMAIN blocks[t] : blocks[t][i].mark \in Changes
    /\ last_num \in [Threads -> 0 .. MaxNumber]
    /\ job \in [Threads -> {"run", "save", "write"}]
    /\ todo \in [Threads -> SUBSET Pages]
    /\ drop \in [Threads -> SUBSET SwapBlocks]
    /\ mine \in [Threads -> Changes]
    /\ ref \in [Pages -> Contents]
    /\ writes \in 0 .. MaxWrites /\ statements \in 0 .. MaxStatements

SavepointsInit ==
    /\ Init
    /\ fil = [p \in Pages |-> Blank] /\ tdata = [b \in SwapBlocks |-> Blank]
    /\ released = {} /\ lock = [p \in Pages |-> [r \in Records |-> NoThread]]
    /\ log = [t \in Threads |-> {}]
    /\ copy = [t \in Threads |-> [p \in Pages |-> Blank]]
    /\ chngmap = [t \in Threads |-> [p \in Pages |-> {}]]
    /\ freed = [t \in Threads |-> {}]
    /\ sapos = [t \in Threads |-> << >>] /\ last_num = [t \in Threads |-> 0]
    /\ blocks = [t \in Threads |-> << >>]
    /\ job = [t \in Threads |-> "run"] /\ todo = [t \in Threads |-> {}]
    /\ drop = [t \in Threads |-> {}]
    /\ mine = [t \in Threads |-> NoChanges] /\ ref = [p \in Pages |-> Blank]
    /\ writes = 0 /\ statements = 0

Ready(t) == job[t] = "run" /\ drop[t] = {}
Statement == statements < MaxStatements /\ statements' = statements + 1

-----------------------------------------------------------------------------
(* Work with pages *)

\* A page of records becomes private before it is changed; page_private.
fix_priv_page(t, p) ==
    /\ Ready(t) /\ p \notin log[t] \cup FullPages
    /\ log' = [log EXCEPT ![t] = @ \cup {p}]
    /\ copy' = [copy EXCEPT ![t][p] = fil[p]]
    /\ UNCHANGED <<vars, pageVars, chngmap, freed, sapoVars, jobVars, mine, ref, writes,
                   statements>>

\* What a client sees of a record.
View(t, p, r) ==
    IF p \in freed[t] THEN Gone ELSE IF p \in log[t] THEN copy[t][p][r] ELSE fil[p][r]

Lockable(t, p, S) == \A r \in S : lock[p][r] \in {NoThread, t}
Locked(t, p, S) ==
    [lock EXCEPT ![p] = [r \in Records |-> IF r \in S THEN t ELSE @[r]]]

\* A saved copy has another value of a record than the database.
Stale(t, p, S) ==
    \E i \in DOMAIN sapos[t] :
        /\ p \in DOMAIN sapos[t][i].pairs
        /\ \E r \in S \ chngmap[t][p] : tdata[sapos[t][i].pairs[p]][r] # fil[p][r]

\* The records S are changed in the private page: rec_changed, page_changed.
change(t, p, S) ==
    /\ Ready(t) /\ writes < MaxWrites /\ Lockable(t, p, S)
    /\ "stale record" \in Programs \/ ~Stale(t, p, S)
    /\ lock' = Locked(t, p, S)
    /\ writes' = writes + 1
    /\ copy' = [copy EXCEPT ![t][p] =
                  [r \in Records |-> View(t, p, r) + (IF r \in S THEN 1 ELSE 0)]]
    /\ log' = [log EXCEPT ![t] = @ \cup {p}]
    /\ chngmap' = [chngmap EXCEPT ![t][p] = @ \cup S]
    /\ mine' = [mine EXCEPT ![t][p] =
                  [r \in Records |-> IF r \in S THEN copy'[t][p][r] ELSE @[r]]]
    /\ UNCHANGED <<vars, fil, tdata, released, freed, sapoVars, jobVars, ref, statements>>

rec_changed(t, p, r) == p \in log[t] \ FullPages /\ change(t, p, {r})
page_changed(t, p) == p \in FullPages \ (freed[t] \cup released) /\ change(t, p, Records)

\* free_block of a page allocated by an earlier transaction:
\* drop_page_changes and page_deallocated.
free_block(t, p) ==
    /\ Ready(t) /\ Statement
    /\ p \in FullPages \ (freed[t] \cup released) /\ Lockable(t, p, Records)
    /\ "freed page" \in Programs
         \/ \A i \in DOMAIN sapos[t] : \A r \in Records : sapos[t][i].mark[p][r] = None
    /\ lock' = Locked(t, p, Records)
    /\ log' = [log EXCEPT ![t] = @ \ {p}]
    /\ chngmap' = [chngmap EXCEPT ![t][p] = {}]
    /\ copy' = [copy EXCEPT ![t][p] = Blank]
    /\ freed' = [freed EXCEPT ![t] = @ \cup {p}]
    /\ mine' = [mine EXCEPT ![t][p] = [r \in Records |-> Gone]]
    /\ UNCHANGED <<vars, fil, tdata, released, sapoVars, jobVars, ref, writes>>

-----------------------------------------------------------------------------
(* t_savepoints *)

\* Index of a savepoint, 0 if there is none (the first one of the same id).
find_sapo(t, id) ==
    LET found == {i \in DOMAIN sapos[t] : sapos[t][i].id = id}
    IN  IF found = {} THEN 0 ELSE CHOOSE i \in found : \A j \in found : i <= j

\* Index of the last atomic savepoint, 0 if there is none.
find_atomic_index(t) ==
    LET found == {i \in DOMAIN sapos[t] : sapos[t][i].atomic}
    IN  IF found = {} THEN 0 ELSE CHOOSE i \in found : \A j \in found : j <= i

\* get_number: the next number, after MaxNumber comes 1.
Successor(n) == IF n >= MaxNumber THEN 1 ELSE n + 1
\* Slip: the numbers in use are not skipped.
NumberAfter(t) == Successor(last_num[t])
get_number(t) ==
    LET unused == {n \in Numbers : find_sapo(t, n) = 0}
        steps(n) == (n + MaxNumber - Successor(last_num[t])) % MaxNumber
    IN  CHOOSE n \in unused : \A m \in unused : steps(n) <= steps(m)

\* Slip: the blocks of a savepoint that is created again are not freed.
RecreatedNone(t, i) == {}
\* Slip: the blocks of the following savepoints are freed, too.
RecreatedAll(t, i) == UNION {Range(sapos[t][j].pairs) : j \in i .. Len(sapos[t])}
\* Blocks freed by the destruction of one savepoint.
BlocksOfOne(t, i) == Range(sapos[t][i].pairs)
\* Swap blocks with the copies of the savepoints in a sequence.
BlocksOf(s) == UNION {Range(s[i].pairs) : i \in DOMAIN s}

\* Savepoints from the i-th on, or only the i-th one, are destroyed.
destroy_from(t, i) ==
    /\ sapos' = [sapos EXCEPT ![t] = SubSeq(@, 1, IF i > Len(@) THEN Len(@) ELSE i - 1)]
    /\ drop' = [drop EXCEPT ![t] = BlocksOf(SubSeq(sapos[t], i, Len(sapos[t])))]

Without(s, i) == SubSeq(s, 1, i - 1) \o SubSeq(s, i + 1, Len(s))

\* Slip: one savepoint more.
TooManyLate(s) == Len(s) > MaxSapos
TooMany(s) == Len(s) >= MaxSapos

\* create, its beginning: a savepoint without copies is appended to s.
create(t, s, id, atomic) ==
    /\ ~TooMany(s)
    /\ sapos' = [sapos EXCEPT ![t] =
                   Append(s, [id |-> id, atomic |-> atomic, undone |-> FALSE,
                              pairs |-> << >>, freed |-> freed[t], mark |-> mine[t]])]
    /\ job' = [job EXCEPT ![t] = "save"]
    /\ todo' = [todo EXCEPT ![t] = log[t]]

\* The loop of create: save_block for one page, ...
save_begins(t) ==
    /\ job[t] = "save" /\ drop[t] = {} /\ todo[t] # {}
    /\ get_swap_block(t)
    /\ UNCHANGED savepointVars
\* ... which finds a block and writes the page to it, ...
save_block(t, p) ==
    /\ job[t] = "save" /\ p \in todo[t]
    /\ find_swap_block(t)
    /\ \E block \in held'[t] \ held[t] :
          /\ tdata' = [tdata EXCEPT ![block] = copy[t][p]]
          /\ sapos' = [sapos EXCEPT ![t][Len(sapos[t])].pairs =
                          [q \in DOMAIN @ \cup {p} |-> IF q = p THEN block ELSE @[q]]]
    /\ todo' = [todo EXCEPT ![t] = @ \ {p}]
    /\ UNCHANGED <<fil, released, lock, logVars, last_num, blocks, job, drop, mine, ref,
                   writes, statements>>
\* ... or does not: err2, the blocks written before are not freed.
save_fails(t) ==
    /\ job[t] = "save"
    /\ no_swap_block(t)
    /\ sapos' = [sapos EXCEPT ![t] = SubSeq(@, 1, Len(@) - 1)]
    /\ job' = [job EXCEPT ![t] = "run"]
    /\ todo' = [todo EXCEPT ![t] = {}]
    /\ UNCHANGED <<pageVars, logVars, last_num, blocks, drop, mine, ref, writes, statements>>
\* The end of create; an atomic block looks for its savepoint by the number.
create_ends(t) ==
    /\ job[t] = "save" /\ drop[t] = {} /\ todo[t] = {}
    /\ job' = [job EXCEPT ![t] = "run"]
    /\ LET new == sapos[t][Len(sapos[t])]
       IN  blocks' = IF new.atomic
                     THEN [blocks EXCEPT ![t] =
                             Append(@, [num |-> new.id, ind |-> find_sapo(t, new.id),
                                        mark |-> mine[t]])]
                     ELSE blocks
    /\ UNCHANGED <<vars, pageVars, logVars, sapos, last_num, todo, drop, mine, ref, writes,
                   statements>>

\* A block of destroyed savepoints is freed; its contents have no meaning.
drop_block(t, block) ==
    /\ IsLowest(block, drop[t])
    /\ free_swap_block(t, block)
    /\ drop' = [drop EXCEPT ![t] = @ \ {block}]
    /\ tdata' = [tdata EXCEPT ![block] = Blank]
    /\ UNCHANGED <<fil, released, lock, logVars, sapoVars, job, todo, mine, ref, writes, statements>>

\* What rollback makes of a page the savepoint has a copy of.
\* Slip: the whole page is copied back.
RestoredWhole(t, p, saved) == saved
Restored(t, p, saved) ==
    [r \in Records |-> IF r \in chngmap[t][p] THEN saved[r] ELSE copy[t][p][r]]

\* rollback to the i-th savepoint; goal is what the program asks for.
rollback(t, i, goal) ==
    LET sapo == sapos[t][i]
        saved == DOMAIN sapo.pairs
    IN  /\ log' = [log EXCEPT ![t] = @ \cap saved]
        /\ copy' = [copy EXCEPT ![t] =
              [p \in Pages |-> IF p \notin log[t] \cap saved THEN Blank
                               ELSE Restored(t, p, tdata[sapo.pairs[p]])]]
        /\ chngmap' = [chngmap EXCEPT ![t] =
              [p \in Pages |-> IF p \in log[t] \cap saved THEN @[p] ELSE {}]]
        /\ freed' = [freed EXCEPT ![t] = @ \cap sapo.freed]
        /\ mine' = [mine EXCEPT ![t] = goal]

-----------------------------------------------------------------------------
(* Statements *)

\* The savepoint i was created in the innermost atomic block.
Inner(t, i) == i = 0 \/ find_atomic_index(t) < i
Usable(t, i) ==
    /\ "undone savepoint" \in Programs \/ i = 0 \/ ~sapos[t][i].undone

\* SAVEPOINT name: an existing one is destroyed and created again.
sql_stmt_sapo(t, name) ==
    LET i == find_sapo(t, name)
    IN  /\ t \in SapoThreads /\ Ready(t) /\ Statement
        /\ "outer savepoint" \in Programs \/ Inner(t, i)
        /\ create(t, IF i = 0 THEN sapos[t] ELSE Without(sapos[t], i), name, FALSE)
        /\ drop' = [drop EXCEPT ![t] = IF i = 0 THEN {} ELSE BlocksOfOne(t, i)]
        /\ UNCHANGED <<vars, pageVars, logVars, last_num, blocks, mine, ref, writes>>

\* RELEASE SAVEPOINT name.
sql_stmt_rel_sapo(t, name) ==
    LET i == find_sapo(t, name)
    IN  /\ Ready(t) /\ Statement /\ i # 0
        /\ "outer savepoint" \in Programs \/ Inner(t, i)
        /\ destroy_from(t, i)
        /\ UNCHANGED <<vars, pageVars, logVars, last_num, blocks, job, todo, mine, ref, writes>>

\* ROLLBACK TO SAVEPOINT name, not outside the atomic block.
rollback_to_savepoint(t, name) ==
    LET i == find_sapo(t, name)
    IN  /\ Ready(t) /\ Statement /\ i # 0 /\ Inner(t, i) /\ Usable(t, i)
        /\ rollback(t, i, sapos[t][i].mark)
        /\ destroy_from(t, i + 1)
        /\ UNCHANGED <<vars, pageVars, last_num, blocks, job, todo, ref, writes>>

\* BEGIN ATOMIC.
begin_atomic(t) ==
    /\ t \in SapoThreads /\ Ready(t) /\ Statement
    /\ create(t, sapos[t], get_number(t), TRUE)
    /\ last_num' = [last_num EXCEPT ![t] = get_number(t)]
    /\ UNCHANGED <<vars, pageVars, logVars, blocks, drop, mine, ref, writes>>

Innermost(t) == blocks[t][Len(blocks[t])]

\* An UNDO or REDO handler of the innermost block: roll back to its BEGIN.
\* An index which is not valid (see AtomicIndexExact) has no defined effect.
undo_block(t) ==
    /\ Ready(t) /\ Statement /\ blocks[t] # << >>
    /\ Innermost(t).ind \in DOMAIN sapos[t]
    /\ rollback(t, Innermost(t).ind, Innermost(t).mark)
    /\ sapos' = [sapos EXCEPT ![t] =
                   [i \in DOMAIN @ |->
                      [@[i] EXCEPT !.undone = sapos[t][i].undone \/ i > Innermost(t).ind]]]
    /\ UNCHANGED <<vars, pageVars, last_num, blocks, jobVars, ref, writes>>

\* The end of an atomic block.
end_atomic(t) ==
    /\ Ready(t) /\ blocks[t] # << >>
    /\ destroy_from(t, Innermost(t).ind)
    /\ blocks' = [blocks EXCEPT ![t] = SubSeq(@, 1, Len(@) - 1)]
    /\ UNCHANGED <<vars, pageVars, logVars, last_num, job, todo, mine, ref, writes, statements>>

\* The end of a transaction: the log is emptied, locks and savepoints removed.
Terminated(t) ==
    /\ log' = [log EXCEPT ![t] = {}]
    /\ copy' = [copy EXCEPT ![t] = [p \in Pages |-> Blank]]
    /\ chngmap' = [chngmap EXCEPT ![t] = [p \in Pages |-> {}]]
    /\ freed' = [freed EXCEPT ![t] = {}]
    /\ mine' = [mine EXCEPT ![t] = NoChanges]
    /\ lock' = [p \in Pages |-> [r \in Records |->
                  IF lock[p][r] = t THEN NoThread ELSE lock[p][r]]]
    /\ destroy_from(t, 1)

\* Neither COMMIT nor ROLLBACK is allowed in an atomic block.
MayTerminate(t) == Ready(t) /\ find_atomic_index(t) = 0

roll_back(t) ==
    /\ MayTerminate(t) /\ Statement
    /\ Terminated(t)
    /\ UNCHANGED <<vars, fil, tdata, released, last_num, blocks, job, todo, ref, writes>>

\* commit of a non-empty transaction, in commit_sem.
commit(t) ==
    /\ MayTerminate(t) /\ Statement /\ log[t] \cup freed[t] # {}
    /\ \A u \in Threads : job[u] # "write"
    /\ save_tjc_block(t)
    /\ job' = [job EXCEPT ![t] = "write"]
    /\ todo' = [todo EXCEPT ![t] = log[t]]
    /\ UNCHANGED <<pageVars, logVars, sapoVars, drop, mine, ref, writes>>

\* wr_changes for a copy of the page of another client.
\* Slip: the other copies are left as they are.
NotMerged(t, p, u) == copy[u][p]
Merged(t, p, u) ==
    [r \in Records |-> IF r \in chngmap[t][p] THEN copy[t][p][r] ELSE copy[u][p][r]]

\* wr_changes: the whole page is written, changed records go to other copies.
wr_changes(t, p) ==
    /\ job[t] = "write" /\ p \in todo[t]
    /\ todo' = [todo EXCEPT ![t] = @ \ {p}]
    /\ IF chngmap[t][p] = {} THEN UNCHANGED <<fil, copy>>
       ELSE /\ fil' = [fil EXCEPT ![p] = copy[t][p]]
            /\ copy' = [u \in Threads |->
                          IF u # t /\ p \in log[u]
                          THEN [copy[u] EXCEPT ![p] = Merged(t, p, u)] ELSE copy[u]]
    /\ UNCHANGED <<vars, tdata, released, lock, log, chngmap, freed, sapoVars, job, drop,
                   mine, ref, writes, statements>>

\* The rest of commit.
commit_ends(t) ==
    /\ job[t] = "write" /\ todo[t] = {}
    /\ free_tjc_blocks(t)
    /\ job' = [job EXCEPT ![t] = "run"]
    /\ released' = released \cup freed[t]
    /\ Terminated(t)
    /\ ref' = [p \in Pages |-> [r \in Records |->
                 IF mine[t][p][r] \in Values THEN mine[t][p][r] ELSE ref[p][r]]]
    /\ UNCHANGED <<fil, tdata, last_num, blocks, todo, writes, statements>>

\* The clients have nothing more to do.
finish == statements = MaxStatements /\ UNCHANGED allVars

SavepointsNext ==
    \/ \E t \in Threads :
          \/ \E p \in Pages :
                \/ fix_priv_page(t, p) \/ page_changed(t, p) \/ free_block(t, p)
                \/ \E r \in Records : rec_changed(t, p, r)
                \/ save_block(t, p) \/ wr_changes(t, p)
          \/ save_begins(t) \/ save_fails(t) \/ create_ends(t)
          \/ \E block \in SwapBlocks : drop_block(t, block)
          \/ \E name \in Names : \/ sql_stmt_sapo(t, name) \/ sql_stmt_rel_sapo(t, name)
                                 \/ rollback_to_savepoint(t, name)
          \/ begin_atomic(t) \/ undo_block(t) \/ end_atomic(t)
          \/ roll_back(t) \/ commit(t) \/ commit_ends(t)
    \/ finish

SavepointsSpec == SavepointsInit /\ [][SavepointsNext]_allVars

-----------------------------------------------------------------------------
(* Properties *)

\* What a client should see: its own changes that were not rolled back, and
\* the committed values of all other records.
Expected(t, p, r) ==
    IF mine[t][p][r] # None THEN mine[t][p][r] ELSE fil[p][r]

\* Rolling back to a savepoint or to the BEGIN of an atomic block gives the
\* state at the time of its creation, with what others have committed since:
\* the changes made before it are kept, the later ones are gone, whichever
\* pages and savepoints rollback finds.
ViewExact ==
    \A t \in Threads, p \in Pages \ released, r \in Records :
        View(t, p, r) = Expected(t, p, r)

\* The database has what the transactions have committed: commit writes all
\* changes that were not rolled back and, writing whole pages, destroys no
\* change of another client ("The list of changes in the page is not reduced
\* ... -> no harm").
CommittedExact ==
    \A p \in Pages, r \in Records :
        \/ fil[p][r] = ref[p][r]
        \/ \E t \in Threads : job[t] = "write" /\ fil[p][r] = mine[t][p][r]

\* sapo_ind of an atomic block being executed is the index of its own
\* savepoint, and only these blocks have atomic savepoints: UNDO goes back to
\* the BEGIN, and COMMIT is allowed again when the blocks are left.
AtomicIndexExact ==
    \A t \in Threads : job[t] # "save" =>
        /\ \A i \in DOMAIN blocks[t] :
              LET ind == blocks[t][i].ind
              IN  /\ ind \in DOMAIN sapos[t]
                  /\ sapos[t][ind].atomic /\ sapos[t][ind].id = blocks[t][i].num
        /\ Cardinality({i \in DOMAIN sapos[t] : sapos[t][i].atomic}) = Len(blocks[t])

\* The copies of savepoints are in blocks their client holds, each in its
\* own: no block is freed by destroy while a savepoint needs it.
CopiesHeld ==
    \A t \in Threads :
        /\ BlocksOf(sapos[t]) \cup drop[t] \subseteq held[t]
        /\ BlocksOf(sapos[t]) \cap drop[t] = {}
        /\ \A i, j \in DOMAIN sapos[t] :
              \A p \in DOMAIN sapos[t][i].pairs : \A q \in DOMAIN sapos[t][j].pairs :
                  sapos[t][i].pairs[p] = sapos[t][j].pairs[q] => i = j /\ p = q

\* Swap blocks a client holds without need: no savepoint has its copy there
\* and destroy is not about to free them.
Forgotten(t) == (held[t] \cap SwapBlocks) \ (BlocksOf(sapos[t]) \cup drop[t])

\* The only way to lose swap blocks is the error exit err2 of create, which
\* loses the copies made so far; whatever RELEASE, SAVEPOINT of a name in use,
\* ROLLBACK TO, the end of an atomic block or of a transaction destroys,
\* every block of it is freed, and no forgotten block comes back into use.
OnlyFailedCreateForgets ==
    [][\A t \in Threads :
          \/ Forgotten(t)' = Forgotten(t)
          \/ /\ save_fails(t)
             /\ Forgotten(t)' = Forgotten(t) \cup BlocksOfOne(t, Len(sapos[t]))]_allVars

=============================================================================
