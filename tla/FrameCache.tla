---------------------------- MODULE FrameCache -----------------------------
(***************************************************************************)
(* The cache of pages: core frames and swap control blocks in the hash     *)
(* chains, fixing of shared and private pages, the choice of a victim and  *)
(* its swapping, and what commit and rollback do with the copies of a page *)
(* (frame.cpp 160-1070), on top of the block locks of DadrLocks.           *)
(*                                                                         *)
(* All the data is protected by cs_frame.  cs is the client that is inside *)
(* in the middle of a call: its next step belongs to the same stay, and    *)
(* nobody else makes a step.  cs_frame is left where the code leaves it:   *)
(* for I/O, for a block lock, and to sleep for a free frame.               *)
(*                                                                         *)
(* A page has one record of each client (record locks give it the right to *)
(* change it), which is FALSE until it is changed.  The order of a chain,  *)
(* the LRU times and the numbers of swap blocks are left out: any frame    *)
(* that may be the victim may be chosen.                                   *)
(*                                                                         *)
(* Where the code loses a page, the model stops following it: see broken.  *)
(***************************************************************************)
EXTENDS DadrLocks, FiniteSets

CONSTANTS Frames,      \* core frames
          NoFrame,     \* NOFCBNUM
          NoClient,    \* the owner ANY_PAGE of a shared page
          Reads,       \* the pages that a client fixes to read them
          Writes,      \* the pages that it fixes to change them
          MaxFix,      \* bound: frames a client has fixed at a time
          IOFails      \* reading of blocks and writing of swaps may fail

ASSUME NoFrameAssumption == NoFrame \notin Frames
ASSUME NoClientAssumption == NoClient \notin Clients
ASSUME WorkAssumption == /\ Reads \in [Clients -> SUBSET Dadrs]
                         /\ Writes \in [Clients -> SUBSET Dadrs]
ASSUME IOFailsAssumption == IOFails \in BOOLEAN

VARIABLES cs,       \* the client that stays inside cs_frame, or NoClient
          fcbs,     \* control blocks of the core frames, with the contents
          swaps,    \* swap control block of a client and a page
          disc,     \* the pages in the database file
          log,      \* pages in the log of a client (CHANGE_TAG)
          changed,  \* those of them with a change map
          mine,     \* what a client has last written to its records
          fixed,    \* frames a client has fixed
          failed,   \* roll_back_error: the transaction must be rolled back
          op,       \* the call a client is in
          broken    \* a page was lost: the model ends

tranVars == <<log, changed, mine, failed>>
frameVars == <<cs, fcbs, swaps, disc, log, changed, mine, fixed, failed, op,
               broken>>
allVars == <<vars, frameVars>>

Contents == [Clients -> BOOLEAN]
Blank == [c \in Clients |-> FALSE]

\* A control block without a page: in the chain of block 0, ready for use.
EmptyFcb == [blockdadr |-> NoDadr, owner |-> NoClient, dirty |-> FALSE,
             fixnum |-> 0, chained |-> TRUE, data |-> Blank]

\* A swap control block: in its chain with the swap still being written, in
\* its chain, or taken out of the chain to be loaded.
NoSwap == [is |-> "none", data |-> Blank]
SwapStates == {"none", "saving", "saved", "taken"}

Fcb == [blockdadr : Dadrs \cup {NoDadr}, owner : Clients \cup {NoClient},
        dirty : BOOLEAN, fixnum : Nat, chained : BOOLEAN, data : Contents]

Op == [call : {"none", "fix_any_page", "fix_priv_page", "commit", "roll_back"},
       at : {"run", "locking", "locked", "get_frame", "victim", "saving",
             "reading", "loading", "next", "writing", "update", "error"},
       page : Dadrs \cup {NoDadr},         \* the page worked on
       owner : Clients \cup {NoClient},    \* whose swapped copy is loaded
       the : Frames \cup {NoFrame},        \* thefcbn of wr_changes
       frame : Frames \cup {NoFrame},      \* the frame get_frame is getting
       todo : SUBSET Dadrs]               \* pages of the log still to do

Idle == [call |-> "none", at |-> "run", page |-> NoDadr, owner |-> NoClient,
         the |-> NoFrame, frame |-> NoFrame, todo |-> {}]

FrameTypeOK ==
    /\ TypeOK
    /\ cs \in Clients \cup {NoClient}
    /\ fcbs \in [Frames -> Fcb]
    /\ swaps \in [Clients -> [Dadrs -> [is : SwapStates, data : Contents]]]
    /\ disc \in [Dadrs -> Contents]
    /\ log \in [Clients -> SUBSET Dadrs]
    /\ changed \in [Clients -> SUBSET Dadrs]
    /\ mine \in [Clients -> [Dadrs -> BOOLEAN]]
    /\ fixed \in [Clients -> SUBSET Frames]
    /\ failed \in [Clients -> BOOLEAN]
    /\ op \in [Clients -> Op]
    /\ broken \in BOOLEAN

FrameInit ==
    /\ Init
    /\ cs = NoClient
    /\ fcbs = [f \in Frames |-> EmptyFcb]
    /\ swaps = [c \in Clients |-> [p \in Dadrs |-> NoSwap]]
    /\ disc = [p \in Dadrs |-> Blank]
    /\ log = [c \in Clients |-> {}]
    /\ changed = [c \in Clients |-> {}]
    /\ mine = [c \in Clients |-> [p \in Dadrs |-> FALSE]]
    /\ fixed = [c \in Clients |-> {}]
    /\ failed = [c \in Clients |-> FALSE]
    /\ op = [c \in Clients |-> Idle]
    /\ broken = FALSE
-----------------------------------------------------------------------------
\* The step of a call made inside cs_frame: entering it, or going on in it.
At(c, step) == ~broken /\ cs \in {c, NoClient} /\ op[c].at = step

\* What a search of the chain of page p finds.
CoreOf(o, p) ==
    {f \in Frames : fcbs[f].chained /\ fcbs[f].blockdadr = p
                                    /\ fcbs[f].owner = o}
Swapped(o, p) == swaps[o][p].is \in {"saving", "saved"}

\* Private pages that get_frame has taken out of their chain and not yet put
\* to a swap control block, because its wait_lock has met a full array.
OutOfChains ==
    {<<fcbs[op[c].frame].owner, fcbs[op[c].frame].blockdadr>> :
        c \in {d \in Clients : op[d].at = "victim"}}

\* The page of owner o is looked for, or has to be updated, and is lost.
PageLost == broken' = TRUE /\ UNCHANGED <<vars, cs, fcbs, swaps, disc,
                                           tranVars, fixed, op>>

\* A fixing call ends with the frame f: the page is unlocked in the same stay.
Done(c, f, fcb) ==
    /\ fcbs' = [fcbs EXCEPT ![f] = fcb]
    /\ fixed' = [fixed EXCEPT ![c] = @ \cup {f}]
    /\ op' = [op EXCEPT ![c] = Idle]
    /\ cs' = NoClient
    /\ unlock(c)

-----------------------------------------------------------------------------
\* Locking of the page, the first thing fix_any_page, fix_priv_page,
\* wr_changes and remove_changes do.

\* Inside cs_frame with the page locked, or outside it waiting.
LockPage(c, p, call, todo) ==
    /\ wait_lock(c, p)
    /\ IF pc'[c] = "run"
       THEN cs' = c /\ op' = [op EXCEPT ![c] =
                [Idle EXCEPT !.call = call, !.at = "locked", !.page = p,
                             !.todo = todo]]
       ELSE cs' = NoClient /\ op' = [op EXCEPT ![c] =
                [Idle EXCEPT !.call = call, !.at = "locking", !.page = p,
                             !.todo = todo]]
    /\ UNCHANGED <<fcbs, swaps, disc, tranVars, fixed, broken>>

fix_page(c, p, call) ==
    /\ At(c, "run")
    /\ ~failed[c]
    /\ p \in IF call = "fix_priv_page" THEN Writes[c] ELSE Reads[c]
    /\ Cardinality(fixed[c]) < MaxFix
    /\ \A f \in fixed[c] : fcbs[f].blockdadr # p
    /\ LockPage(c, p, call, {})

\* The next page of the log, in any order.
next_page(c, p) ==
    /\ At(c, "next")
    /\ p \in op[c].todo
    /\ LockPage(c, p, op[c].call, op[c].todo \ {p})

\* Outside cs_frame.
wait_for_block(c) ==
    /\ ~broken
    /\ sem_wait(c) \/ SleepEnd(c)
    /\ UNCHANGED frameVars

retry_page(c) ==
    /\ At(c, "locking")
    /\ lock_retry(c)
    /\ IF pc'[c] = "run"
       THEN cs' = c /\ op' = [op EXCEPT ![c].at = "locked"]
       ELSE cs' = NoClient /\ op' = op
    /\ UNCHANGED <<fcbs, swaps, disc, tranVars, fixed, broken>>
-----------------------------------------------------------------------------
\* get_frame and its callers up to the I/O on the frame.

Victims == {f \in Frames : /\ fcbs[f].fixnum = 0
                           /\ \/ fcbs[f].blockdadr = NoDadr
                              \/ ~IsLocked(fcbs[f].blockdadr)}

\* The page has to be loaded from the file (o = NoClient), or the swapped copy
\* of o has to be loaded: its control block is taken out of the chain now.
NeedFrame(c, o) ==
    /\ op' = [op EXCEPT ![c].at = "get_frame", ![c].owner = o]
    /\ swaps' = IF o = NoClient THEN swaps
                ELSE [swaps EXCEPT ![o][op[c].page].is = "taken"]
    /\ cs' = c
    /\ UNCHANGED <<vars, disc, tranVars, fixed, broken>>

\* All frames are fixed or their pages are locked: Sleep(10) outside cs_frame.
sleep_for_frame(c) ==
    /\ At(c, "get_frame")
    /\ Victims = {}
    /\ cs' = NoClient
    /\ UNCHANGED <<vars, fcbs, swaps, disc, tranVars, fixed, op, broken>>

\* After GET_FRAME_RETRY_LIMIT sleeps, or on a break: FRAMES_EXHAUSTED,
\* REQUEST_BREAKED.
no_frame(c) ==
    /\ At(c, "get_frame")
    /\ Victims = {}
    /\ op' = [op EXCEPT ![c].at = "error"]
    /\ cs' = c
    /\ UNCHANGED <<vars, fcbs, swaps, disc, tranVars, fixed, broken>>

\* get_frame returns f; cs_frame is left for reading.
GotFrame(c, f) ==
    /\ fcbs' = [fcbs EXCEPT ![f] =
           [EmptyFcb EXCEPT !.fixnum = 1, !.chained = FALSE,
                            !.blockdadr = IF op[c].owner = NoClient
                                          THEN op[c].page ELSE NoDadr]]
    /\ op' = [op EXCEPT ![c].frame = f,
                        ![c].at = IF op[c].owner = NoClient
                                  THEN "reading" ELSE "loading"]
    /\ cs' = NoClient

\* The victim is taken out of its chain; a changed private page that is not
\* swapped has to be swapped.
MustSwap(f) ==
    /\ fcbs[f].owner # NoClient
    /\ fcbs[f].dirty
    /\ ~Swapped(fcbs[f].owner, fcbs[f].blockdadr)

get_frame(c, f) ==
    /\ At(c, "get_frame")
    /\ f \in Victims
    /\ ~MustSwap(f)
    /\ GotFrame(c, f)
    /\ UNCHANGED <<vars, swaps, disc, tranVars, fixed, broken>>

\* Slip: the control block is put into the chain when the swap is written
\* (what the code did once, as its comment says).
BeginSwapLate(c, f) == UNCHANGED swaps

\* swap_block: the swap control block is in the chain before cs_frame is left.
BeginSwap(c, f) ==
    swaps' = [swaps EXCEPT ![fcbs[f].owner][fcbs[f].blockdadr] =
                  [is |-> "saving", data |-> Blank]]

get_frame_swapping(c, f) ==
    /\ At(c, "get_frame")
    /\ f \in Victims
    /\ MustSwap(f)
    /\ wait_lock_victim(c, fcbs[f].blockdadr)
    /\ fcbs' = [fcbs EXCEPT ![f].fixnum = 1, ![f].chained = FALSE]
    /\ IF pc'[c] = "run"
       THEN BeginSwap(c, f) /\ op' = [op EXCEPT ![c].frame = f, ![c].at = "saving"]
       ELSE swaps' = swaps /\ op' = [op EXCEPT ![c].frame = f, ![c].at = "victim"]
    /\ cs' = NoClient
    /\ UNCHANGED <<disc, tranVars, fixed, broken>>

\* The wait that "does not wait" goes on.
retry_victim(c) ==
    /\ At(c, "victim")
    /\ lock_retry(c)
    /\ IF pc'[c] = "run"
       THEN BeginSwap(c, op[c].frame) /\ op' = [op EXCEPT ![c].at = "saving"]
       ELSE swaps' = swaps /\ op' = op
    /\ UNCHANGED <<cs, fcbs, disc, tranVars, fixed, broken>>

\* The swap is written; back in cs_frame it is completed, and the frame is
\* free for the page it was got for.
save_block(c) ==
    LET f == op[c].frame IN
    /\ At(c, "saving")
    /\ unlock_victim(c)
    /\ swaps' = [swaps EXCEPT ![fcbs[f].owner][fcbs[f].blockdadr] =
                     [is |-> "saved", data |-> fcbs[f].data]]
    /\ GotFrame(c, f)
    /\ UNCHANGED <<disc, tranVars, fixed, broken>>

\* It cannot be written (or fcbs cannot grow): the page goes back into its
\* chain; TOO_COMPLEX_TRANS.
save_block_fails(c) ==
    LET f == op[c].frame IN
    /\ At(c, "saving")
    /\ IOFails
    /\ unlock_victim(c)
    /\ swaps' = [swaps EXCEPT ![fcbs[f].owner][fcbs[f].blockdadr] = NoSwap]
    /\ fcbs' = [fcbs EXCEPT ![f].fixnum = 0, ![f].chained = TRUE]
    /\ op' = [op EXCEPT ![c].frame = NoFrame, ![c].at = "error"]
    /\ cs' = c
    /\ UNCHANGED <<disc, tranVars, fixed, broken>>
-----------------------------------------------------------------------------
\* fix_any_page and fix_priv_page with the page locked.

Fixing(c) == op[c].call \in {"fix_any_page", "fix_priv_page"}
Private(c) == op[c].call = "fix_priv_page"

\* Slip: a page that another client has fixed is taken too.
SharedForFixed(c) == CoreOf(NoClient, op[c].page)

\* fix_priv_page turns a shared page to a private one only if it is not fixed.
SharedFor(c) ==
    {f \in CoreOf(NoClient, op[c].page) : Private(c) => fcbs[f].fixnum = 0}

\* My own page is in core.
fix_own(c, f) ==
    /\ At(c, "locked")
    /\ Fixing(c)
    /\ f \in CoreOf(c, op[c].page)
    /\ Done(c, f, [fcbs[f] EXCEPT !.fixnum = @ + 1])
    /\ UNCHANGED <<swaps, disc, tranVars, broken>>

\* A shared page is in core.
fix_shared(c, f) ==
    LET p == op[c].page IN
    /\ At(c, "locked")
    /\ Fixing(c)
    /\ CoreOf(c, p) = {} /\ ~Swapped(c, p)
    /\ <<c, p>> \notin OutOfChains
    /\ f \in SharedFor(c)
    /\ Done(c, f, IF Private(c)
                  THEN [fcbs[f] EXCEPT !.fixnum = 1, !.dirty = FALSE, !.owner = c]
                  ELSE [fcbs[f] EXCEPT !.fixnum = @ + 1])
    /\ log' = IF Private(c) THEN [log EXCEPT ![c] = @ \cup {p}] ELSE log
    /\ UNCHANGED <<swaps, disc, changed, mine, failed, broken>>

\* My own page is swapped, or the page has to be read from the file.
fix_get_frame(c) ==
    LET p == op[c].page IN
    /\ At(c, "locked")
    /\ Fixing(c)
    /\ CoreOf(c, p) = {}
    /\ <<c, p>> \notin OutOfChains
    /\ \/ Swapped(c, p) /\ NeedFrame(c, c)
       \/ ~Swapped(c, p) /\ SharedFor(c) = {} /\ NeedFrame(c, NoClient)
    /\ fcbs' = fcbs

\* My own page is nowhere, because a victim is out of its chain.
fix_misses(c) ==
    /\ At(c, "locked")
    /\ Fixing(c)
    /\ <<c, op[c].page>> \in OutOfChains
    /\ PageLost

\* The block is read; the page is shared, or mine and in my log.
read_block(c) ==
    LET p == op[c].page IN
    /\ At(c, "reading")
    /\ Done(c, op[c].frame,
            [blockdadr |-> p, owner |-> IF Private(c) THEN c ELSE NoClient,
             dirty |-> FALSE, fixnum |-> 1, chained |-> TRUE,
             data |-> disc[p]])
    /\ log' = IF Private(c) THEN [log EXCEPT ![c] = @ \cup {p}] ELSE log
    /\ UNCHANGED <<swaps, disc, changed, mine, failed, broken>>

\* UNREADABLE_BLOCK: the frame is returned empty.
read_block_fails(c) ==
    /\ At(c, "reading")
    /\ IOFails
    /\ fcbs' = [fcbs EXCEPT ![op[c].frame] = EmptyFcb]
    /\ op' = [op EXCEPT ![c].frame = NoFrame, ![c].at = "error"]
    /\ cs' = c
    /\ UNCHANGED <<vars, swaps, disc, tranVars, fixed, broken>>

\* unswap_block after get_frame: what the swap control block says about the
\* page, and what is in the swap block, is in the frame now.
Unswapped(c) ==
    [blockdadr |-> op[c].page, owner |-> op[c].owner, dirty |-> TRUE,
     fixnum |-> 1, chained |-> TRUE,
     data |-> swaps[op[c].owner][op[c].page].data]

load_block(c) ==
    /\ At(c, "loading")
    /\ Fixing(c)
    /\ Done(c, op[c].frame, Unswapped(c))
    /\ swaps' = [swaps EXCEPT ![c][op[c].page] = NoSwap]
    /\ UNCHANGED <<disc, tranVars, broken>>

\* fix_err.  A swap control block that was taken is lost; the error makes the
\* transaction roll back.
fix_err(c) ==
    /\ At(c, "error")
    /\ Fixing(c)
    /\ unlock(c)
    /\ swaps' = IF op[c].owner = NoClient THEN swaps
                ELSE [swaps EXCEPT ![c][op[c].page] = NoSwap]
    /\ failed' = [failed EXCEPT ![c] = TRUE]
    /\ op' = [op EXCEPT ![c] = Idle]
    /\ cs' = NoClient
    /\ UNCHANGED <<fcbs, disc, log, changed, mine, fixed, broken>>

\* UNFIX_PAGE does not let the number of fixes go below 0 ("Unfix state 1").
Unfix(n) == IF n > 0 THEN n - 1 ELSE 0

unfix_page(c, f) ==
    /\ At(c, "run")
    /\ f \in fixed[c]
    /\ fcbs' = [fcbs EXCEPT ![f].fixnum = Unfix(@)]
    /\ fixed' = [fixed EXCEPT ![c] = @ \ {f}]
    /\ UNCHANGED <<vars, cs, swaps, disc, tranVars, op, broken>>

\* Slip: the frame is not marked as dirty.
rec_changed_clean(c, f) ==
    LET p == fcbs[f].blockdadr IN
    /\ At(c, "run")
    /\ ~failed[c]
    /\ f \in fixed[c]
    /\ fcbs[f].owner = c
    /\ ~mine[c][p]
    /\ mine' = [mine EXCEPT ![c][p] = TRUE]
    /\ fcbs' = [fcbs EXCEPT ![f].data[c] = TRUE]
    /\ log' = [log EXCEPT ![c] = @ \cup {p}]
    /\ changed' = [changed EXCEPT ![c] = @ \cup {p}]
    /\ UNCHANGED <<vars, cs, swaps, disc, fixed, failed, op, broken>>

\* The client changes its record in a fixed private page, if it has not done
\* so yet (bound: one change of a record, repeated after a rollback).
rec_changed(c, f) ==
    LET p == fcbs[f].blockdadr IN
    /\ At(c, "run")
    /\ ~failed[c]
    /\ f \in fixed[c]
    /\ fcbs[f].owner = c
    /\ ~mine[c][p]
    /\ mine' = [mine EXCEPT ![c][p] = TRUE]
    /\ fcbs' = [fcbs EXCEPT ![f].dirty = TRUE, ![f].data[c] = TRUE]
    /\ log' = [log EXCEPT ![c] = @ \cup {p}]
    /\ changed' = [changed EXCEPT ![c] = @ \cup {p}]
    /\ UNCHANGED <<vars, cs, swaps, disc, fixed, failed, op, broken>>
-----------------------------------------------------------------------------
\* commit: wr_changes for every page of the log, one client at a time
\* (commit_sem).

commit(c) ==
    /\ At(c, "run")
    /\ ~failed[c] /\ fixed[c] = {} /\ log[c] # {}
    /\ \A e \in Clients : op[e].call # "commit"
    /\ op' = [op EXCEPT ![c] = [Idle EXCEPT !.call = "commit", !.at = "next",
                                            !.todo = log[c]]]
    /\ UNCHANGED <<vars, cs, fcbs, swaps, disc, tranVars, fixed, broken>>

\* ex: the page is done.
PageDone(c) ==
    /\ unlock(c)
    /\ op' = [op EXCEPT ![c] = [Idle EXCEPT !.call = op[c].call, !.at = "next",
                                            !.todo = op[c].todo]]
    /\ cs' = c

\* Nothing is changed in the page: the private copy in core, if there is one,
\* becomes shared, a swapped one is dropped.  Nor is a page written that is not
\* found.
wr_nothing(c) ==
    LET p == op[c].page IN
    /\ At(c, "locked")
    /\ op[c].call = "commit"
    /\ \/ p \notin changed[c]
       \/ /\ CoreOf(c, p) = {} /\ ~Swapped(c, p)
          /\ <<c, p>> \notin OutOfChains
    /\ fcbs' = [f \in Frames |-> IF f \in CoreOf(c, p)
                                 THEN [fcbs[f] EXCEPT !.owner = NoClient]
                                 ELSE fcbs[f]]
    /\ swaps' = [swaps EXCEPT ![c][p] = NoSwap]
    /\ PageDone(c)
    /\ UNCHANGED <<disc, tranVars, fixed, broken>>

\* The page is fixed, cs_frame is left for writing.
Write(c, f) ==
    /\ op' = [op EXCEPT ![c].the = f, ![c].frame = NoFrame,
                        ![c].owner = NoClient, ![c].at = "writing"]
    /\ cs' = NoClient

wr_changes(c) ==
    LET p == op[c].page IN
    /\ At(c, "locked")
    /\ op[c].call = "commit"
    /\ p \in changed[c]
    /\ \/ \E f \in CoreOf(c, p) :
            /\ fcbs' = [fcbs EXCEPT ![f].fixnum = @ + 1]
            /\ Write(c, f)
            /\ swaps' = [swaps EXCEPT ![c][p] = NoSwap]
            /\ UNCHANGED <<vars, disc, tranVars, fixed, broken>>
       \/ /\ CoreOf(c, p) = {} /\ Swapped(c, p)
          /\ NeedFrame(c, c)
          /\ fcbs' = fcbs

\* "page not found: was not changed & was removed": it is out of its chain.
wr_misses(c) ==
    /\ At(c, "locked")
    /\ op[c].call = "commit"
    /\ <<c, op[c].page>> \in OutOfChains
    /\ PageLost

\* The swapped page to be written is in core.
load_changes(c) ==
    /\ At(c, "loading")
    /\ op[c].call = "commit"
    /\ op[c].owner = c
    /\ fcbs' = [fcbs EXCEPT ![op[c].frame] = Unswapped(c)]
    /\ swaps' = [swaps EXCEPT ![c][op[c].page] = NoSwap]
    /\ Write(c, op[c].frame)
    /\ UNCHANGED <<vars, disc, tranVars, fixed, broken>>

\* The page is written; the changed record is copied to the other copies of
\* the page that are in core.
UpdateCore(c) ==
    LET p == op[c].page  the == op[c].the IN
    [f \in Frames |->
        IF f = the THEN [fcbs[f] EXCEPT !.dirty = FALSE]
        ELSE IF fcbs[f].chained /\ fcbs[f].blockdadr = p /\ fcbs[f].owner # c
        THEN [fcbs[f] EXCEPT !.data[c] = fcbs[the].data[c]]
        ELSE fcbs[f]]

write_block(c) ==
    LET p == op[c].page IN
    /\ At(c, "writing")
    /\ \A e \in Clients \ {c} : <<e, p>> \notin OutOfChains
    /\ disc' = [disc EXCEPT ![p] = fcbs[op[c].the].data]
    /\ fcbs' = UpdateCore(c)
    /\ op' = [op EXCEPT ![c].at = "update"]
    /\ cs' = c
    /\ UNCHANGED <<vars, swaps, tranVars, fixed, broken>>

\* Another client's copy is out of its chain and does not get the change.
update_misses(c) ==
    /\ At(c, "writing")
    /\ \E e \in Clients \ {c} : <<e, op[c].page>> \in OutOfChains
    /\ PageLost

\* A swapped copy of another client has to be unswapped to get the change.
update_swapped(c, o) ==
    /\ At(c, "update")
    /\ o # c /\ Swapped(o, op[c].page)
    /\ NeedFrame(c, o)
    /\ fcbs' = fcbs

load_other(c) ==
    /\ At(c, "loading")
    /\ op[c].call = "commit"
    /\ op[c].owner # c
    /\ fcbs' = [fcbs EXCEPT ![op[c].frame] =
                   [Unswapped(c) EXCEPT !.data[c] = fcbs[op[c].the].data[c],
                                        !.fixnum = 0]]
    /\ swaps' = [swaps EXCEPT ![op[c].owner][op[c].page] = NoSwap]
    /\ op' = [op EXCEPT ![c].at = "update", ![c].frame = NoFrame,
                        ![c].owner = NoClient]
    /\ cs' = c
    /\ UNCHANGED <<vars, disc, tranVars, fixed, broken>>

\* Slip: the swapped copies of the others are left as they are.
wr_end_early(c) ==
    /\ At(c, "update")
    /\ fcbs' = [fcbs EXCEPT ![op[c].the].owner = NoClient,
                            ![op[c].the].fixnum = Unfix(@)]
    /\ PageDone(c)
    /\ UNCHANGED <<swaps, disc, tranVars, fixed, broken>>

\* ex1: the written page becomes shared.
wr_end(c) ==
    /\ At(c, "update")
    /\ \A o \in Clients \ {c} : ~Swapped(o, op[c].page)
    /\ fcbs' = [fcbs EXCEPT ![op[c].the].owner = NoClient,
                            ![op[c].the].fixnum = Unfix(@)]
    /\ PageDone(c)
    /\ UNCHANGED <<swaps, disc, tranVars, fixed, broken>>

\* get_frame has failed in unswap_block: the page of the transaction is not
\* written, or the other client's changes are lost.
wr_err(c) ==
    /\ At(c, "error")
    /\ op[c].call = "commit"
    /\ PageLost

end_of_commit(c) ==
    /\ At(c, "next")
    /\ op[c].call = "commit"
    /\ op[c].todo = {}
    /\ log' = [log EXCEPT ![c] = {}]
    /\ changed' = [changed EXCEPT ![c] = {}]
    /\ op' = [op EXCEPT ![c] = Idle]
    /\ cs' = NoClient
    /\ UNCHANGED <<vars, fcbs, swaps, disc, mine, fixed, failed, broken>>
-----------------------------------------------------------------------------
\* roll_back: remove_changes for every page of the log.

roll_back(c) ==
    /\ At(c, "run")
    /\ failed[c] \/ log[c] # {}
    /\ op' = [op EXCEPT ![c] = [Idle EXCEPT !.call = "roll_back",
                                            !.at = "next", !.todo = log[c]]]
    /\ UNCHANGED <<vars, cs, fcbs, swaps, disc, tranVars, fixed, broken>>

\* My copy of a page that is still fixed gets the contents of a shared page or
\* of the file and stays mine; a copy that is not fixed is dropped.
Removed(c, f) ==
    LET p == op[c].page IN
    CASE fcbs[f].fixnum = 0 -> {EmptyFcb}
      [] fcbs[f].fixnum # 0 /\ p \notin changed[c] -> {fcbs[f]}
      [] OTHER -> {[fcbs[f] EXCEPT !.data = d] :
                     d \in IF CoreOf(NoClient, p) = {} THEN {disc[p]}
                           ELSE {fcbs[g].data : g \in CoreOf(NoClient, p)}}

remove_changes(c) ==
    LET p == op[c].page IN
    /\ At(c, "locked")
    /\ op[c].call = "roll_back"
    /\ <<c, p>> \notin OutOfChains
    /\ \/ CoreOf(c, p) = {} /\ fcbs' = fcbs
       \/ \E f \in CoreOf(c, p) : \E b \in Removed(c, f) :
              fcbs' = [fcbs EXCEPT ![f] = b]
    /\ swaps' = [swaps EXCEPT ![c][p] = NoSwap]
    /\ mine' = [mine EXCEPT ![c][p] = disc[p][c]]
    /\ changed' = [changed EXCEPT ![c] = @ \ {p}]
    /\ PageDone(c)
    /\ UNCHANGED <<disc, log, fixed, failed, broken>>

\* The copy is out of its chain and stays after the rollback.
remove_misses(c) ==
    /\ At(c, "locked")
    /\ op[c].call = "roll_back"
    /\ <<c, op[c].page>> \in OutOfChains
    /\ PageLost

end_of_roll_back(c) ==
    /\ At(c, "next")
    /\ op[c].call = "roll_back"
    /\ op[c].todo = {}
    /\ log' = [log EXCEPT ![c] = {}]
    /\ failed' = [failed EXCEPT ![c] = FALSE]
    /\ op' = [op EXCEPT ![c] = Idle]
    /\ cs' = NoClient
    /\ UNCHANGED <<vars, fcbs, swaps, disc, changed, mine, fixed, broken>>
-----------------------------------------------------------------------------
\* The steps of a call that has begun.
CallStep(c) ==
    \/ \E p \in Dadrs : next_page(c, p)
    \/ wait_for_block(c) \/ retry_page(c) \/ retry_victim(c)
    \/ sleep_for_frame(c) \/ no_frame(c)
    \/ \E f \in Frames : get_frame(c, f) \/ get_frame_swapping(c, f)
    \/ save_block(c) \/ save_block_fails(c)
    \/ \E f \in Frames : fix_own(c, f) \/ fix_shared(c, f)
    \/ fix_get_frame(c) \/ fix_misses(c)
    \/ read_block(c) \/ read_block_fails(c) \/ load_block(c) \/ fix_err(c)
    \/ wr_nothing(c) \/ wr_changes(c) \/ wr_misses(c) \/ load_changes(c)
    \/ write_block(c) \/ update_misses(c)
    \/ \E o \in Clients : update_swapped(c, o)
    \/ load_other(c) \/ wr_end(c) \/ wr_err(c) \/ end_of_commit(c)
    \/ remove_changes(c) \/ remove_misses(c) \/ end_of_roll_back(c)

\* What a client begins when it likes.
Call(c) ==
    \/ \E p \in Dadrs : \E call \in {"fix_any_page", "fix_priv_page"} :
           fix_page(c, p, call)
    \/ \E f \in Frames : unfix_page(c, f) \/ rec_changed(c, f)
    \/ commit(c)
    \/ roll_back(c)

Lost == broken /\ UNCHANGED allVars

FrameNext == (\E c \in Clients : Call(c) \/ CallStep(c)) \/ Lost

FrameSpec == FrameInit /\ [][FrameNext]_allVars

\* A thread inside a call runs on: I/O ends, sleeps end.  Nobody has to call.
FrameFairSpec == FrameSpec /\ \A c \in Clients : WF_allVars(CallStep(c))
-----------------------------------------------------------------------------
\* The committer c has written page p and is copying the change to the swaps.
Updating(c, p) == op[c].call = "commit" /\ op[c].page = p /\ op[c].the # NoFrame
                                        /\ op[c].at # "writing"

(***************************************************************************)
(* What a client reads and writes in the frames it has fixed: the frame    *)
(* still holds the page, as a shared page or as its own one, shared pages  *)
(* are as they were last committed, and its own page has the client's own  *)
(* last change, whatever was evicted, swapped, loaded, committed or rolled *)
(* back in between.                                                        *)
(***************************************************************************)
FixedViewExact ==
    ~broken => \A c \in Clients : \A f \in fixed[c] :
        LET b == fcbs[f]  p == b.blockdadr IN
        /\ b.chained /\ p # NoDadr /\ b.fixnum > 0
        /\ b.owner \in {c, NoClient}
        /\ b.owner = NoClient => b.data = disc[p]
        /\ b.owner = c => b.data[c] = mine[c][p]

(***************************************************************************)
(* After a commit the file has what the client has written, after a        *)
(* rollback the client works with what the file has, although pages were   *)
(* evicted, swapped and loaded in between ("page not found: was not        *)
(* changed & was removed").                                                *)
(***************************************************************************)
CommitExact ==
    ~broken => \A c \in Clients : \A p \in Dadrs \ changed[c] :
                   disc[p][c] = mine[c][p]

(***************************************************************************)
(* Commit writes whole pages, so every private copy of a page, in core or  *)
(* swapped, has what the other clients have committed in it; otherwise the *)
(* next commit of its owner would overwrite their changes.  A swapped copy *)
(* lags behind only until the committer that has the page locked gets to   *)
(* it.                                                                     *)
(***************************************************************************)
PrivateCopiesCurrent ==
    ~broken => \A o \in Clients, p \in Dadrs : \A e \in Clients \ {o} :
        /\ \A f \in CoreOf(o, p) : fcbs[f].data[e] = disc[p][e]
        /\ swaps[o][p].is = "saved" =>
               swaps[o][p].data[e] = disc[p][e] \/ Updating(e, p)

(***************************************************************************)
(* The problem of the beginning swap, as the comment at the end of         *)
(* frame.cpp calls it: a changed page that somebody swaps or unswaps is    *)
(* found by its owner at any moment, once, and with the last change in it. *)
(***************************************************************************)
ChangedPageFound ==
    ~broken => \A c \in Clients : \A p \in changed[c] :
        \/ failed[c]
        \/ op[c].call = "commit" /\ p \notin op[c].todo
        \/ <<c, p>> \in OutOfChains
        \/ /\ swaps[c][p].is = "none"
           /\ \E f \in CoreOf(c, p) : /\ CoreOf(c, p) = {f}
                                      /\ fcbs[f].data[c] = mine[c][p]
        \/ /\ CoreOf(c, p) = {}
           /\ \/ swaps[c][p].is \in {"saved", "taken"} /\ swaps[c][p].data[c] = mine[c][p]
              \/ swaps[c][p].is = "saving" /\ IsLocked(p)

(***************************************************************************)
(* "My waiting will end, because every lock will be removed" (the axiom    *)
(* above dadr_locks_class), unless a thread is looking for a cell for the  *)
(* page it evicts in a full array: that one keeps its first lock.          *)
(***************************************************************************)
WaitingEnds ==
    \A c \in Clients :
        []<>(\/ pc[c] # "semaphore"
             \/ \E d \in Clients : op[d].at = "victim"
             \/ broken)
=============================================================================
