------------------------ MODULE FrameContents_proofs ------------------------
(***************************************************************************)
(* What clients see in the frame cache and what their commits write, for   *)
(* any number of clients, pages, frames and block locks.                   *)
(*                                                                         *)
(* The code may lose a page (a victim out of its chain, a swap that cannot *)
(* be loaded in a commit) and the model ends there (broken), so the        *)
(* invariant CacheInv is about the states before that.  Its parts:         *)
(*   CallsInv     which local variables of a call have a value where, and  *)
(*                what the log of the transaction has then;                *)
(*   LockingInv   which block locks a call has where; with the invariant   *)
(*                of DadrLocks the pages that calls work with are apart;   *)
(*   UseInv       fixnum counts the users of a frame, and the frame that   *)
(*                get_frame has taken is nobody else's;                    *)
(*   CopiesInv    a client has one private copy of a page, in core or      *)
(*                swapped, and a swap in progress belongs to a call;       *)
(*   ContentsInv  private copies have the last change of the client and    *)
(*                what the others have committed, and the file has what    *)
(*                was committed;                                           *)
(*   SharedInv    shared copies are as the file.                           *)
(* Each action has a lemma per part that it can disturb.                   *)
(***************************************************************************)
EXTENDS FrameCache_proofs, FiniteSetTheorems

\* Where a call has a frame from get_frame that is in no chain.
Getting == {"victim", "saving", "reading", "loading"}

\* Where a call that loads a swapped copy may be.
Loads == {"get_frame", "victim", "saving", "loading", "error"}

\* Which local variables of a call have a value where.
CallShape(c) ==
    /\ op[c].call = "none" <=> op[c].at = "run"
    /\ op[c].at \in {"run", "next"} <=> op[c].page = NoDadr
    /\ op[c].at = "next" => op[c].call \in {"commit", "roll_back"}
    /\ op[c].frame # NoFrame <=> op[c].at \in Getting
    /\ op[c].call = "roll_back" => op[c].at \in {"next", "locking", "locked"}
    /\ op[c].at \in {"writing", "update"} => op[c].the # NoFrame
    /\ op[c].the # NoFrame =>
          op[c].call = "commit" /\ op[c].at \in Loads \cup {"writing", "update"}
    /\ op[c].owner # NoClient => op[c].at \in Loads
    /\ op[c].at = "loading" => op[c].owner # NoClient
    /\ op[c].at = "reading" => Fixing(c) /\ op[c].owner = NoClient
    /\ Fixing(c) => op[c].owner \in {c, NoClient} /\ op[c].at \notin {"writing", "update"}
    /\ op[c].call = "commit" /\ op[c].at \in Loads =>
          op[c].owner # NoClient /\ (op[c].owner = c <=> op[c].the = NoFrame)

\* The log and the state of the transaction at the steps of a call.
TranShape(c) ==
    /\ changed[c] \subseteq log[c]
    /\ Fixing(c) => ~failed[c]
    /\ op[c].call = "commit" => fixed[c] = {} /\ ~failed[c]
    /\ op[c].call = "roll_back" => changed[c] \subseteq op[c].todo \cup {op[c].page}
    /\ op[c].call = "commit" => op[c].page \notin op[c].todo

CallsInv == \A c \in Clients : CallShape(c) /\ TranShape(c)

\* The page of the frame that get_frame is swapping.
VictimPage(c) == fcbs[op[c].frame].blockdadr

\* The call has its page locked.
HoldsPage(c) == op[c].at \notin {"run", "next", "locking"}

\* Which block locks a call has where.
Locking(c) ==
    /\ outer[c] # NoSlot <=> HoldsPage(c)
    /\ HoldsPage(c) => dadrs[outer[c]] = op[c].page
    /\ inner[c] # NoSlot <=> op[c].at = "saving"
    /\ op[c].at = "saving" => dadrs[inner[c]] = VictimPage(c)
    /\ pc[c] = "run" <=> op[c].at \notin {"locking", "victim"}
    /\ op[c].at = "locking" => locking_dadr[c] = op[c].page
    /\ op[c].at = "victim" => locking_dadr[c] = VictimPage(c)

LockingInv == \A c \in Clients : Locking(c)

\* fixnum is the number of clients that have fixed the frame or work with it.
Uses(c, f) == f \in fixed[c] \/ op[c].the = f \/ op[c].frame = f
Users(f) == {c \in Clients : Uses(c, f)}
Counted(f) == IsFiniteSet(Users(f)) /\ fcbs[f].fixnum = Cardinality(Users(f))

\* The frame of get_frame: nobody else has it, and it is in no chain.
GotUse(c, f) ==
    op[c].frame = f =>
        /\ ~fcbs[f].chained
        /\ f \notin fixed[c] /\ op[c].the # f
        /\ \A e \in Clients \ {c} : ~Uses(e, f)
        /\ op[c].at \in {"victim", "saving"} <=> fcbs[f].owner # NoClient
        /\ op[c].at \in {"victim", "saving"} => fcbs[f].dirty

\* A fixed frame has a page, a shared one or that of the client.
FixedUse(c, f) ==
    f \in fixed[c] =>
        /\ fcbs[f].blockdadr # NoDadr
        /\ fcbs[f].owner \in {c, NoClient}
        /\ Fixing(c) => fcbs[f].blockdadr # op[c].page

\* The frame that commit writes from is that of the client's page.
TheUse(c, f) ==
    op[c].the = f => fcbs[f].owner = c /\ fcbs[f].blockdadr = op[c].page

Chained(f) == ~fcbs[f].chained => \E c \in Clients : op[c].frame = f

UseInv == \A f \in Frames : /\ Counted(f) /\ Chained(f)
                            /\ \A c \in Clients : GotUse(c, f) /\ FixedUse(c, f) /\ TheUse(c, f)

\* Private copies of a page in core.
Copies(o, p) == {f \in Frames : fcbs[f].owner = o /\ fcbs[f].blockdadr = p}

Saves(e, o, p) ==
    op[e].at = "saving" /\ fcbs[op[e].frame].owner = o /\ VictimPage(e) = p

\* A client has one copy of a page, in core or swapped; a swap control block is
\* "saving" or "taken" while somebody saves or loads the copy.
OneCopy(o, p) ==
    /\ \A f, g \in Copies(o, p) : f = g
    /\ Copies(o, p) # {} => swaps[o][p].is \in {"none", "saving"}
    /\ swaps[o][p].is = "saving" <=> \E e \in Clients : Saves(e, o, p)
    /\ swaps[o][p].is = "taken" <=> \E e \in Clients : op[e].page = p /\ op[e].owner = o

\* fix_priv_page that reads a page has looked for the copy of the client.
NoCopyYet(o, p) ==
    op[o].call = "fix_priv_page" /\ op[o].page = p /\ op[o].owner = NoClient
    /\ op[o].at \notin {"locking", "locked"} =>
        Copies(o, p) = {} /\ swaps[o][p].is = "none"

CopiesInv == \A o \in Clients, p \in Dadrs : OneCopy(o, p) /\ NoCopyYet(o, p)

\* The commit of o has found its copy of p.
Finished(o, p) ==
    op[o].call = "commit" /\ p \notin op[o].todo /\ (op[o].page # p \/ op[o].the # NoFrame)

Found(o, p) ==
    (\E f \in Copies(o, p) : fcbs[f].dirty) \/ swaps[o][p].is \in {"saved", "taken"}

\* A copy has the last change of its client and the commits of the others.
CoreData(o, p) ==
    \A f \in Copies(o, p) : /\ fcbs[f].data[o] = mine[o][p]
                            /\ \A e \in Clients \ {o} : fcbs[f].data[e] = disc[p][e]
SwapData(o, p) ==
    swaps[o][p].is \in {"saved", "taken"} =>
        /\ swaps[o][p].data[o] = mine[o][p]
        /\ \A e \in Clients \ {o} : swaps[o][p].data[e] = disc[p][e] \/ Updating(e, p)

\* A changed page is there until it is written.
ChangeThere(o, p) == p \in changed[o] /\ ~failed[o] /\ ~Finished(o, p) => Found(o, p)

\* The commit of o has written p.
Written(o, p) == Finished(o, p) /\ ~(op[o].page = p /\ op[o].at = "writing")

\* The file has what the client has written.
FileData(o, p) ==
    p \notin changed[o] \/ Written(o, p) => disc[p][o] = mine[o][p]

ContentsInv ==
    \A o \in Clients, p \in Dadrs :
        CoreData(o, p) /\ SwapData(o, p) /\ ChangeThere(o, p) /\ FileData(o, p)

\* A shared copy of a page is what the file has.
SharedOK(f) ==
    fcbs[f].chained /\ fcbs[f].owner = NoClient /\ fcbs[f].blockdadr # NoDadr =>
        fcbs[f].data = disc[fcbs[f].blockdadr]

SharedInv == \A f \in Frames : SharedOK(f)

Good == CallsInv /\ LockingInv /\ UseInv /\ CopiesInv /\ ContentsInv /\ SharedInv

CacheInv == ~broken => Good
-----------------------------------------------------------------------------
\* Pages locked by calls are apart.
PagesApart ==
    /\ \A c, e \in Clients : c # e /\ HoldsPage(c) /\ HoldsPage(e) => op[c].page # op[e].page
    /\ \A c, e \in Clients : op[c].at = "saving" /\ HoldsPage(e) => VictimPage(c) # op[e].page
    /\ \A c, e \in Clients : c # e /\ op[c].at = "saving" /\ op[e].at = "saving" =>
                                 VictimPage(c) # VictimPage(e)

\* What calls have locked is locked for get_frame.
PagesLocked ==
    /\ \A c \in Clients : HoldsPage(c) => IsLocked(op[c].page)
    /\ \A c \in Clients : op[c].at = "saving" => IsLocked(VictimPage(c))

\* The block locks keep the pages of calls apart.
LEMMA LockedApart ==
  ASSUME Inv, LockingInv
  PROVE  PagesApart /\ PagesLocked
  <1>1. /\ outer \in [Clients -> Slots \cup {NoSlot}] /\ inner \in [Clients -> Slots \cup {NoSlot}]
        /\ dadrs \in [Slots -> Dadrs \cup {NoDadr}] /\ last_used \in -1 .. MaxDadrLocks - 1
    BY DEF Inv, TypeOK
  <1>2. NoSlot \notin Slots
    BY DEF NoSlot, Slots
  <1>3. PagesApart
    BY <1>1, <1>2 DEF PagesApart, Inv, LockingInv, Locking, OneCellPerBlock, HeldCellsUsed,
       HeldCellsOwn, HoldsPage
  <1>4. ASSUME NEW i \in Slots, dadrs[i] # NoDadr
        PROVE  IsLocked(dadrs[i])
    BY <1>1, <1>4, MaxDadrLocksAssumption DEF Inv, UsedCellsScanned, Slots, IsLocked
  <1>5. PagesLocked
    BY <1>1, <1>2, <1>4 DEF PagesLocked, Inv, LockingInv, Locking, HeldCellsUsed, HoldsPage
  <1> QED BY <1>3, <1>5

-----------------------------------------------------------------------------
\* What the steps do, field by field.

\* The call of c after a step; the others are where they were.
OpIs(c, call, at, page, owner, the, frame, todo) ==
    /\ op'[c].call = call /\ op'[c].at = at /\ op'[c].page = page /\ op'[c].owner = owner
    /\ op'[c].the = the /\ op'[c].frame = frame /\ op'[c].todo = todo
    /\ \A e \in Clients \ {c} : op'[e] = op[e]

\* c moves on in its call.
OpAt(c, at, owner, the, frame) ==
    OpIs(c, op[c].call, at, op[c].page, owner, the, frame, op[c].todo)

\* c is idle.
OpIdle(c) == OpIs(c, "none", "run", NoDadr, NoClient, NoFrame, NoFrame, {})

\* c is between two pages of its log.
OpNext(c) == OpIs(c, op[c].call, "next", NoDadr, NoClient, NoFrame, NoFrame, op[c].todo)

\* c begins with a page, and has it locked or not.
OpLock(c, call, p, todo) ==
    \/ pc'[c] = "run" /\ OpIs(c, call, "locked", p, NoClient, NoFrame, NoFrame, todo)
    \/ pc'[c] # "run" /\ OpIs(c, call, "locking", p, NoClient, NoFrame, NoFrame, todo)

\* Frame f changes only.
OneFrame(f) == \A g \in Frames \ {f} : fcbs'[g] = fcbs[g]
FcbIs(f, page, owner, dirty, fixnum, chained, data) ==
    /\ fcbs'[f].blockdadr = page /\ fcbs'[f].owner = owner /\ fcbs'[f].dirty = dirty
    /\ fcbs'[f].fixnum = fixnum /\ fcbs'[f].chained = chained /\ fcbs'[f].data = data
    /\ OneFrame(f)

\* A swap control block changes only.
OneSwap(o, p) == \A e \in Clients, q \in Dadrs : e # o \/ q # p => swaps'[e][q] = swaps[e][q]
SwapIs(o, p, is, data) ==
    swaps'[o][p].is = is /\ swaps'[o][p].data = data /\ OneSwap(o, p)

\* The types used to read the fields.
CallTypes == /\ op \in [Clients -> Op] /\ fcbs \in [Frames -> Fcb]
             /\ swaps \in [Clients -> [Dadrs -> SwapBlock]]

\* The invariant gives the types of calls, frames and swap control blocks.
LEMMA Typed == ASSUME FrameInv PROVE CallTypes
  BY DEF FrameInv, OpInv, FcbInv, SwapInv, CallTypes

\* Steps that set a call anew.
LEMMA OpSet ==
  ASSUME op \in [Clients -> Op], NEW c \in Clients, NEW call, NEW at, NEW p, NEW todo,
         op' = [op EXCEPT ![c] = [Idle EXCEPT !.call = call, !.at = at, !.page = p, !.todo = todo]]
  PROVE  OpIs(c, call, at, p, NoClient, NoFrame, NoFrame, todo)
  BY DEF OpIs, Idle

\* A call between two pages.
LEMMA OpSetNext ==
  ASSUME op \in [Clients -> Op], NEW c \in Clients, NEW call, NEW at, NEW todo,
         op' = [op EXCEPT ![c] = [Idle EXCEPT !.call = call, !.at = at, !.todo = todo]]
  PROVE  OpIs(c, call, at, NoDadr, NoClient, NoFrame, NoFrame, todo)
  BY DEF OpIs, Idle

\* A call that ends.
LEMMA OpSetIdle ==
  ASSUME op \in [Clients -> Op], NEW c \in Clients, op' = [op EXCEPT ![c] = Idle]
  PROVE  OpIdle(c)
  BY DEF OpIs, OpIdle, Idle

\* Steps that set fields of a call.
LEMMA OpMove ==
  ASSUME op \in [Clients -> Op], NEW c \in Clients, NEW at
  PROVE  /\ op' = [op EXCEPT ![c].at = at] => OpAt(c, at, op[c].owner, op[c].the, op[c].frame)
         /\ \A f : op' = [op EXCEPT ![c].frame = f, ![c].at = at] =>
                     OpAt(c, at, op[c].owner, op[c].the, f)
         /\ \A o : op' = [op EXCEPT ![c].at = at, ![c].owner = o] =>
                     OpAt(c, at, o, op[c].the, op[c].frame)
         /\ \A f, o, t : op' = [op EXCEPT ![c].the = t, ![c].frame = f, ![c].owner = o, ![c].at = at] =>
                     OpAt(c, at, o, t, f)
         /\ \A f, o : op' = [op EXCEPT ![c].at = at, ![c].frame = f, ![c].owner = o] =>
                     OpAt(c, at, o, op[c].the, f)
  <1>1. op' = [op EXCEPT ![c].at = at] => OpAt(c, at, op[c].owner, op[c].the, op[c].frame)
    BY DEF OpAt, OpIs, Op
  <1>2. ASSUME NEW f, op' = [op EXCEPT ![c].frame = f, ![c].at = at]
        PROVE  OpAt(c, at, op[c].owner, op[c].the, f)
    BY <1>2 DEF OpAt, OpIs, Op
  <1>3. ASSUME NEW o, op' = [op EXCEPT ![c].at = at, ![c].owner = o]
        PROVE  OpAt(c, at, o, op[c].the, op[c].frame)
    BY <1>3 DEF OpAt, OpIs, Op
  <1>4. ASSUME NEW f, NEW o, NEW t,
               op' = [op EXCEPT ![c].the = t, ![c].frame = f, ![c].owner = o, ![c].at = at]
        PROVE  OpAt(c, at, o, t, f)
    BY <1>4 DEF OpAt, OpIs, Op
  <1>5. ASSUME NEW f, NEW o, op' = [op EXCEPT ![c].at = at, ![c].frame = f, ![c].owner = o]
        PROVE  OpAt(c, at, o, op[c].the, f)
    BY <1>5 DEF OpAt, OpIs, Op
  <1> QED BY <1>1, <1>2, <1>3, <1>4, <1>5

\* One control block is replaced.
LEMMA FcbSet ==
  ASSUME fcbs \in [Frames -> Fcb], NEW f \in Frames, NEW b, fcbs' = [fcbs EXCEPT ![f] = b]
  PROVE  FcbIs(f, b.blockdadr, b.owner, b.dirty, b.fixnum, b.chained, b.data)
  BY DEF FcbIs, OneFrame

\* Steps that set fields of a control block.
LEMMA FcbField ==
  ASSUME fcbs \in [Frames -> Fcb], NEW f \in Frames
  PROVE  /\ \A n : fcbs' = [fcbs EXCEPT ![f].fixnum = n] =>
              FcbIs(f, fcbs[f].blockdadr, fcbs[f].owner, fcbs[f].dirty, n, fcbs[f].chained, fcbs[f].data)
         /\ \A n, x : fcbs' = [fcbs EXCEPT ![f].fixnum = n, ![f].chained = x] =>
              FcbIs(f, fcbs[f].blockdadr, fcbs[f].owner, fcbs[f].dirty, n, x, fcbs[f].data)
         /\ \A n, o : fcbs' = [fcbs EXCEPT ![f].owner = o, ![f].fixnum = n] =>
              FcbIs(f, fcbs[f].blockdadr, o, fcbs[f].dirty, n, fcbs[f].chained, fcbs[f].data)
  BY DEF FcbIs, OneFrame, Fcb

\* A swap control block is set.
LEMMA SwapSet ==
  ASSUME swaps \in [Clients -> [Dadrs -> SwapBlock]], NEW o \in Clients, NEW p \in Dadrs, NEW is, NEW data,
         swaps' = [swaps EXCEPT ![o][p] = [is |-> is, data |-> data]]
  PROVE  SwapIs(o, p, is, data)
  BY DEF SwapIs, OneSwap

\* A swap control block is taken out of its chain.
LEMMA SwapTake ==
  ASSUME swaps \in [Clients -> [Dadrs -> SwapBlock]], NEW o \in Clients, NEW p \in Dadrs, NEW s,
         swaps' = [swaps EXCEPT ![o][p].is = s]
  PROVE  SwapIs(o, p, s, swaps[o][p].data)
  BY DEF SwapIs, OneSwap, SwapBlock

\* A swap control block is dropped.
LEMMA SwapNone ==
  ASSUME swaps \in [Clients -> [Dadrs -> SwapBlock]], NEW o \in Clients, NEW p \in Dadrs,
         swaps' = [swaps EXCEPT ![o][p] = NoSwap]
  PROVE  SwapIs(o, p, "none", Blank)
  BY SwapSet DEF NoSwap

-----------------------------------------------------------------------------
SameTran == UNCHANGED <<log, changed, mine, failed>>
SameData == UNCHANGED <<fcbs, swaps, disc, fixed, broken>> /\ SameTran

\* A page is begun with.
LEMMA LockPageEff ==
  ASSUME CallTypes, NEW c \in Clients, NEW p, NEW call, NEW todo, LockPage(c, p, call, todo)
  PROVE  OpLock(c, call, p, todo) /\ SameData /\ wait_lock(c, p)
  BY OpSet DEF LockPage, OpLock, SameData, SameTran, tranVars, CallTypes

\* fix_page begins a call.
LEMMA FixPageEff ==
  ASSUME CallTypes, NEW c \in Clients, NEW p, NEW call, fix_page(c, p, call)
  PROVE  /\ ~broken /\ op[c].at = "run" /\ ~failed[c]
         /\ \A f \in fixed[c] : fcbs[f].blockdadr # p
         /\ OpLock(c, call, p, {}) /\ SameData /\ wait_lock(c, p)
  BY LockPageEff DEF fix_page, At

\* next_page takes a page of the log.
LEMMA NextPageEff ==
  ASSUME CallTypes, NEW c \in Clients, NEW p, next_page(c, p)
  PROVE  /\ ~broken /\ op[c].at = "next" /\ p \in op[c].todo
         /\ OpLock(c, op[c].call, p, op[c].todo \ {p}) /\ SameData /\ wait_lock(c, p)
  BY LockPageEff DEF next_page, At

\* wait_for_block changes the block locks only.
LEMMA WaitForBlockEff ==
  ASSUME NEW c \in Clients, wait_for_block(c)
  PROVE  ~broken /\ UNCHANGED op /\ SameData /\ (sem_wait(c) \/ SleepEnd(c))
  BY DEF wait_for_block, frameVars, SameData, SameTran

\* retry_page has the page locked or waits on.
LEMMA RetryPageEff ==
  ASSUME CallTypes, NEW c \in Clients, retry_page(c)
  PROVE  /\ ~broken /\ op[c].at = "locking" /\ lock_retry(c) /\ SameData
         /\ \/ pc'[c] = "run" /\ OpAt(c, "locked", op[c].owner, op[c].the, op[c].frame)
            \/ pc'[c] # "run" /\ UNCHANGED op
  BY OpMove DEF retry_page, At, SameData, SameTran, tranVars, CallTypes

\* retry_victim begins the swap or waits on.
LEMMA RetryVictimEff ==
  ASSUME FrameInv, NEW c \in Clients, retry_victim(c)
  PROVE  /\ ~broken /\ op[c].at = "victim" /\ lock_retry(c)
         /\ UNCHANGED <<fcbs, disc, fixed, broken>> /\ SameTran
         /\ \/ /\ pc'[c] = "run" /\ OpAt(c, "saving", op[c].owner, op[c].the, op[c].frame)
               /\ BeginSwap(c, op[c].frame)
            \/ pc'[c] # "run" /\ UNCHANGED <<op, swaps>>
  BY Typed, OpMove DEF retry_victim, At, SameTran, tranVars, CallTypes

\* BeginSwap puts the swap control block into its chain.
LEMMA BeginSwapEff ==
  ASSUME CallTypes, NEW c, NEW f \in Frames, fcbs[f].owner \in Clients, fcbs[f].blockdadr \in Dadrs,
         BeginSwap(c, f)
  PROVE  SwapIs(fcbs[f].owner, fcbs[f].blockdadr, "saving", Blank)
  BY SwapSet, Zenon DEF CallTypes, BeginSwap

\* sleep_for_frame changes nothing but cs.
LEMMA SleepForFrameEff ==
  ASSUME NEW c \in Clients, sleep_for_frame(c)
  PROVE  ~broken /\ UNCHANGED <<op, vars>> /\ SameData
  BY DEF sleep_for_frame, At, SameData, SameTran, tranVars

\* no_frame ends in the error path of the call.
LEMMA NoFrameEff ==
  ASSUME CallTypes, NEW c \in Clients, no_frame(c)
  PROVE  /\ ~broken /\ op[c].at = "get_frame" /\ SameData /\ UNCHANGED vars
         /\ OpAt(c, "error", op[c].owner, op[c].the, op[c].frame)
  BY OpMove DEF no_frame, At, SameData, SameTran, tranVars, CallTypes

\* A frame for c: its call loads the page from the file or the copy of owner.
LEMMA GotFrameEff ==
  ASSUME CallTypes, NEW c \in Clients, NEW f \in Frames, GotFrame(c, f)
  PROVE  /\ \/ /\ op[c].owner = NoClient
               /\ OpAt(c, "reading", op[c].owner, op[c].the, f)
               /\ FcbIs(f, op[c].page, NoClient, FALSE, 1, FALSE, Blank)
            \/ /\ op[c].owner # NoClient
               /\ OpAt(c, "loading", op[c].owner, op[c].the, f)
               /\ FcbIs(f, NoDadr, NoClient, FALSE, 1, FALSE, Blank)
  <1> DEFINE b(d) == [EmptyFcb EXCEPT !.fixnum = 1, !.chained = FALSE, !.blockdadr = d]
  <1>1. \A d : /\ b(d).blockdadr = d /\ b(d).owner = NoClient /\ b(d).dirty = FALSE
               /\ b(d).fixnum = 1 /\ b(d).chained = FALSE /\ b(d).data = Blank
    BY DEF EmptyFcb
  <1>2. fcbs' = [fcbs EXCEPT ![f] = b(IF op[c].owner = NoClient THEN op[c].page ELSE NoDadr)]
    BY DEF GotFrame
  <1> HIDE DEF b
  <1>3. op' = [op EXCEPT ![c].frame = f,
                         ![c].at = IF op[c].owner = NoClient THEN "reading" ELSE "loading"]
    BY DEF GotFrame
  <1>4. CASE op[c].owner = NoClient
    <2>1. OpAt(c, "reading", op[c].owner, op[c].the, f)
      BY <1>3, <1>4, OpMove DEF CallTypes
    <2>2. FcbIs(f, op[c].page, NoClient, FALSE, 1, FALSE, Blank)
      <3>1. fcbs' = [fcbs EXCEPT ![f] = b(op[c].page)]
        BY <1>2, <1>4
      <3>2. FcbIs(f, b(op[c].page).blockdadr, b(op[c].page).owner, b(op[c].page).dirty, b(op[c].page).fixnum,
                  b(op[c].page).chained, b(op[c].page).data)
        BY <3>1, FcbSet DEF CallTypes
      <3> QED BY <1>1, <3>2 DEF FcbIs
    <2> QED BY <1>4, <2>1, <2>2
  <1>5. CASE op[c].owner # NoClient
    <2>1. OpAt(c, "loading", op[c].owner, op[c].the, f)
      BY <1>3, <1>5, OpMove DEF CallTypes
    <2>2. FcbIs(f, NoDadr, NoClient, FALSE, 1, FALSE, Blank)
      <3>1. fcbs' = [fcbs EXCEPT ![f] = b(NoDadr)]
        BY <1>2, <1>5
      <3>2. FcbIs(f, b(NoDadr).blockdadr, b(NoDadr).owner, b(NoDadr).dirty, b(NoDadr).fixnum,
                  b(NoDadr).chained, b(NoDadr).data)
        BY <3>1, FcbSet DEF CallTypes
      <3> QED BY <1>1, <3>2 DEF FcbIs
    <2> QED BY <1>5, <2>1, <2>2
  <1> QED BY <1>4, <1>5

\* get_frame gets a frame that need not be swapped.
LEMMA GetFrameEff ==
  ASSUME NEW c \in Clients, NEW f \in Frames, get_frame(c, f)
  PROVE  /\ ~broken /\ op[c].at = "get_frame" /\ f \in Victims /\ ~MustSwap(f) /\ GotFrame(c, f)
         /\ UNCHANGED <<vars, swaps, disc, fixed, broken>> /\ SameTran
  BY DEF get_frame, At, SameTran, tranVars

\* get_frame_swapping takes a copy out of its chain.
LEMMA GetFrameSwappingEff ==
  ASSUME FrameInv, NEW c \in Clients, NEW f \in Frames, get_frame_swapping(c, f)
  PROVE  /\ ~broken /\ op[c].at = "get_frame" /\ f \in Victims /\ MustSwap(f)
         /\ wait_lock_victim(c, fcbs[f].blockdadr)
         /\ FcbIs(f, fcbs[f].blockdadr, fcbs[f].owner, fcbs[f].dirty, 1, FALSE, fcbs[f].data)
         /\ UNCHANGED <<disc, fixed, broken>> /\ SameTran
         /\ \/ /\ pc'[c] = "run" /\ OpAt(c, "saving", op[c].owner, op[c].the, f)
               /\ BeginSwap(c, f)
            \/ /\ pc'[c] # "run" /\ OpAt(c, "victim", op[c].owner, op[c].the, f)
               /\ UNCHANGED swaps
  <1>1. CallTypes
    BY Typed
  <1>2. FcbIs(f, fcbs[f].blockdadr, fcbs[f].owner, fcbs[f].dirty, 1, FALSE, fcbs[f].data)
    BY <1>1, FcbField DEF CallTypes, get_frame_swapping
  <1>3. \/ /\ pc'[c] = "run" /\ OpAt(c, "saving", op[c].owner, op[c].the, f)
           /\ BeginSwap(c, f)
        \/ /\ pc'[c] # "run" /\ OpAt(c, "victim", op[c].owner, op[c].the, f)
           /\ UNCHANGED swaps
    BY <1>1, OpMove DEF CallTypes, get_frame_swapping
  <1> QED BY <1>2, <1>3 DEF get_frame_swapping, At, SameTran, tranVars

-----------------------------------------------------------------------------
\* The frame a call works with is a frame.
LEMMA FrameIs ==
  ASSUME FrameInv, NEW c \in Clients, op[c].at \in Getting
  PROVE  op[c].frame \in Frames /\ op[c].page \in Dadrs
  BY CallIs DEF FrameInv, CallOK, Getting

\* The page a call works with is a page.
LEMMA PageIs ==
  ASSUME FrameInv, NEW c \in Clients, op[c].at \notin {"run", "next"}
  PROVE  op[c].page \in Dadrs
  BY CallIs DEF FrameInv, CallOK

\* The copy being swapped is that of a client.
LEMMA VictimIs ==
  ASSUME FrameInv, UseInv, NEW c \in Clients, op[c].at \in {"victim", "saving"}
  PROVE  fcbs[op[c].frame].owner \in Clients /\ fcbs[op[c].frame].blockdadr \in Dadrs
  <1>1. op[c].frame \in Frames
    BY FrameIs DEF Getting
  <1>2. fcbs[op[c].frame].owner # NoClient
    BY <1>1 DEF UseInv, GotUse
  <1>3. fcbs[op[c].frame] \in Fcb
    BY <1>1 DEF FrameInv, FcbInv
  <1> QED BY <1>1, <1>2, <1>3 DEF FrameInv, FcbInv, PrivateHasPage, Fcb

\* save_block ends the swap and gets the frame.
LEMMA SaveBlockEff ==
  ASSUME FrameInv, UseInv, NEW c \in Clients, save_block(c)
  PROVE  /\ ~broken /\ op[c].at = "saving" /\ unlock_victim(c) /\ GotFrame(c, op[c].frame)
         /\ UNCHANGED <<disc, fixed, broken>> /\ SameTran
         /\ SwapIs(fcbs[op[c].frame].owner, VictimPage(c), "saved", fcbs[op[c].frame].data)
  <1>1. CallTypes
    BY Typed
  <1>2. op[c].at = "saving"
    BY DEF save_block, At
  <1>3. fcbs[op[c].frame].owner \in Clients /\ VictimPage(c) \in Dadrs
    BY <1>2, VictimIs DEF VictimPage
  <1>4. swaps' = [swaps EXCEPT ![fcbs[op[c].frame].owner][VictimPage(c)] =
                     [is |-> "saved", data |-> fcbs[op[c].frame].data]]
    BY DEF save_block, VictimPage
  <1>5. SwapIs(fcbs[op[c].frame].owner, VictimPage(c), "saved", fcbs[op[c].frame].data)
    BY <1>1, <1>3, <1>4, SwapSet, Zenon DEF CallTypes
  <1> QED BY <1>5 DEF save_block, At, SameTran, tranVars

\* save_block_fails puts the copy back.
LEMMA SaveBlockFailsEff ==
  ASSUME FrameInv, UseInv, NEW c \in Clients, save_block_fails(c)
  PROVE  LET f == op[c].frame IN
         /\ ~broken /\ op[c].at = "saving" /\ unlock_victim(c)
         /\ FcbIs(f, fcbs[f].blockdadr, fcbs[f].owner, fcbs[f].dirty, 0, TRUE, fcbs[f].data)
         /\ OpAt(c, "error", op[c].owner, op[c].the, NoFrame)
         /\ UNCHANGED <<disc, fixed, broken>> /\ SameTran
         /\ SwapIs(fcbs[f].owner, VictimPage(c), "none", Blank)
  <1>1. CallTypes
    BY Typed
  <1>2. op[c].at = "saving"
    BY DEF save_block_fails, At
  <1>3. fcbs[op[c].frame].owner \in Clients /\ VictimPage(c) \in Dadrs /\ op[c].frame \in Frames
    BY <1>2, VictimIs, FrameIs DEF VictimPage, Getting
  <1>4. swaps' = [swaps EXCEPT ![fcbs[op[c].frame].owner][VictimPage(c)] = NoSwap]
    BY DEF save_block_fails, VictimPage
  <1>5. SwapIs(fcbs[op[c].frame].owner, VictimPage(c), "none", Blank)
    BY <1>1, <1>3, <1>4, SwapNone, Zenon DEF CallTypes
  <1>6. fcbs' = [fcbs EXCEPT ![op[c].frame].fixnum = 0, ![op[c].frame].chained = TRUE]
        /\ op' = [op EXCEPT ![c].frame = NoFrame, ![c].at = "error"]
    BY DEF save_block_fails
  <1>7. FcbIs(op[c].frame, fcbs[op[c].frame].blockdadr, fcbs[op[c].frame].owner,
              fcbs[op[c].frame].dirty, 0, TRUE, fcbs[op[c].frame].data)
    BY <1>1, <1>3, <1>6, FcbField DEF CallTypes
  <1>8. OpAt(c, "error", op[c].owner, op[c].the, NoFrame)
    BY <1>1, <1>6, OpMove DEF CallTypes
  <1> QED BY <1>5, <1>7, <1>8 DEF save_block_fails, At, SameTran, tranVars

\* The end of a fixing call.
LEMMA DoneEff ==
  ASSUME CallTypes, NEW c \in Clients, NEW f \in Frames, NEW b, Done(c, f, b),
         fixed \in [Clients -> SUBSET Frames]
  PROVE  /\ OpIdle(c) /\ unlock(c)
         /\ FcbIs(f, b.blockdadr, b.owner, b.dirty, b.fixnum, b.chained, b.data)
         /\ fixed'[c] = fixed[c] \cup {f}
         /\ \A e \in Clients \ {c} : fixed'[e] = fixed[e]
  BY OpSetIdle, FcbSet DEF Done, CallTypes

\* fix_own fixes the copy of the client.
LEMMA FixOwnEff ==
  ASSUME FrameInv, NEW c \in Clients, NEW f \in Frames, fix_own(c, f)
  PROVE  /\ ~broken /\ op[c].at = "locked" /\ Fixing(c) /\ f \in CoreOf(c, op[c].page)
         /\ OpIdle(c) /\ unlock(c)
         /\ FcbIs(f, fcbs[f].blockdadr, fcbs[f].owner, fcbs[f].dirty, fcbs[f].fixnum + 1,
                  fcbs[f].chained, fcbs[f].data)
         /\ fixed'[c] = fixed[c] \cup {f}
         /\ \A e \in Clients \ {c} : fixed'[e] = fixed[e]
         /\ UNCHANGED <<swaps, disc, broken>> /\ SameTran
  <1> DEFINE b == [fcbs[f] EXCEPT !.fixnum = @ + 1]
  <1>1. CallTypes /\ fixed \in [Clients -> SUBSET Frames]
    BY Typed DEF FrameInv, OtherInv
  <1>2. /\ b.blockdadr = fcbs[f].blockdadr /\ b.owner = fcbs[f].owner /\ b.dirty = fcbs[f].dirty
        /\ b.fixnum = fcbs[f].fixnum + 1 /\ b.chained = fcbs[f].chained /\ b.data = fcbs[f].data
    BY <1>1 DEF CallTypes, Fcb
  <1>3. Done(c, f, b)
    BY DEF fix_own
  <1> HIDE DEF b
  <1>4. /\ OpIdle(c) /\ unlock(c)
        /\ FcbIs(f, b.blockdadr, b.owner, b.dirty, b.fixnum, b.chained, b.data)
        /\ fixed'[c] = fixed[c] \cup {f}
        /\ \A e \in Clients \ {c} : fixed'[e] = fixed[e]
    BY <1>1, <1>3, DoneEff
  <1>5. FcbIs(f, fcbs[f].blockdadr, fcbs[f].owner, fcbs[f].dirty, fcbs[f].fixnum + 1,
              fcbs[f].chained, fcbs[f].data)
    BY <1>2, <1>4 DEF FcbIs
  <1> QED BY <1>4, <1>5 DEF fix_own, At, SameTran, tranVars

\* fix_shared fixes a shared page or makes it private.
LEMMA FixSharedEff ==
  ASSUME FrameInv, NEW c \in Clients, NEW f \in Frames, fix_shared(c, f)
  PROVE  LET p == op[c].page IN
         /\ ~broken /\ op[c].at = "locked" /\ Fixing(c) /\ f \in CoreOf(NoClient, p)
         /\ CoreOf(c, p) = {} /\ ~Swapped(c, p) /\ <<c, p>> \notin OutOfChains
         /\ OpIdle(c) /\ unlock(c)
         /\ \/ /\ Private(c) /\ fcbs[f].fixnum = 0
               /\ FcbIs(f, fcbs[f].blockdadr, c, FALSE, 1, fcbs[f].chained, fcbs[f].data)
               /\ log'[c] = log[c] \cup {p}
            \/ /\ ~Private(c)
               /\ FcbIs(f, fcbs[f].blockdadr, fcbs[f].owner, fcbs[f].dirty, fcbs[f].fixnum + 1,
                        fcbs[f].chained, fcbs[f].data)
               /\ log'[c] = log[c]
         /\ \A e \in Clients \ {c} : log'[e] = log[e]
         /\ fixed'[c] = fixed[c] \cup {f}
         /\ \A e \in Clients \ {c} : fixed'[e] = fixed[e]
         /\ UNCHANGED <<swaps, disc, changed, mine, failed, broken>>
  <1> DEFINE b1 == [fcbs[f] EXCEPT !.fixnum = 1, !.dirty = FALSE, !.owner = c]
             b2 == [fcbs[f] EXCEPT !.fixnum = @ + 1]
  <1>1. CallTypes /\ fixed \in [Clients -> SUBSET Frames] /\ log \in [Clients -> SUBSET Dadrs]
    BY Typed DEF FrameInv, OtherInv
  <1>2. /\ b1.blockdadr = fcbs[f].blockdadr /\ b1.owner = c /\ b1.dirty = FALSE
        /\ b1.fixnum = 1 /\ b1.chained = fcbs[f].chained /\ b1.data = fcbs[f].data
    BY <1>1 DEF CallTypes, Fcb
  <1>3. /\ b2.blockdadr = fcbs[f].blockdadr /\ b2.owner = fcbs[f].owner /\ b2.dirty = fcbs[f].dirty
        /\ b2.fixnum = fcbs[f].fixnum + 1 /\ b2.chained = fcbs[f].chained /\ b2.data = fcbs[f].data
    BY <1>1 DEF CallTypes, Fcb
  <1>4. Done(c, f, IF Private(c) THEN b1 ELSE b2)
    BY DEF fix_shared
  <1> HIDE DEF b1, b2
  <1>5. \E b \in {b1, b2} : (b = IF Private(c) THEN b1 ELSE b2) /\ Done(c, f, b)
    BY <1>4
  <1>6. PICK b \in {b1, b2} : (b = IF Private(c) THEN b1 ELSE b2) /\ Done(c, f, b)
    BY <1>5
  <1>7. /\ OpIdle(c) /\ unlock(c)
        /\ FcbIs(f, b.blockdadr, b.owner, b.dirty, b.fixnum, b.chained, b.data)
        /\ fixed'[c] = fixed[c] \cup {f}
        /\ \A e \in Clients \ {c} : fixed'[e] = fixed[e]
    BY <1>1, <1>6, DoneEff
  <1>8. /\ Private(c) => FcbIs(f, fcbs[f].blockdadr, c, FALSE, 1, fcbs[f].chained, fcbs[f].data)
        /\ ~Private(c) => FcbIs(f, fcbs[f].blockdadr, fcbs[f].owner, fcbs[f].dirty,
                                fcbs[f].fixnum + 1, fcbs[f].chained, fcbs[f].data)
    BY <1>2, <1>3, <1>6, <1>7 DEF FcbIs
  <1>9. /\ log'[c] = IF Private(c) THEN log[c] \cup {op[c].page} ELSE log[c]
        /\ \A e \in Clients \ {c} : log'[e] = log[e]
    BY <1>1 DEF fix_shared
  <1>10. f \in CoreOf(NoClient, op[c].page) /\ (Private(c) => fcbs[f].fixnum = 0)
    BY DEF fix_shared, SharedFor
  <1> QED BY <1>7, <1>8, <1>9, <1>10 DEF fix_shared, At

-----------------------------------------------------------------------------
\* c asks for a frame to load the page, or the swapped copy of o.
LEMMA NeedFrameEff ==
  ASSUME FrameInv, NEW c \in Clients, NEW o \in Clients \cup {NoClient}, NeedFrame(c, o),
         op[c].page \in Dadrs
  PROVE  /\ OpAt(c, "get_frame", o, op[c].the, op[c].frame)
         /\ o = NoClient => UNCHANGED swaps
         /\ o \in Clients => SwapIs(o, op[c].page, "taken", swaps[o][op[c].page].data)
         /\ UNCHANGED <<vars, disc, fixed, broken>> /\ SameTran
  <1>1. CallTypes
    BY Typed
  <1>2. op' = [op EXCEPT ![c].at = "get_frame", ![c].owner = o]
    BY DEF NeedFrame
  <1>3. OpAt(c, "get_frame", o, op[c].the, op[c].frame)
    BY <1>1, <1>2, OpMove DEF CallTypes
  <1>4. ASSUME o \in Clients
        PROVE  SwapIs(o, op[c].page, "taken", swaps[o][op[c].page].data)
    <2>1. o # NoClient
      BY <1>4, NoClientAssumption
    <2>2. swaps' = [swaps EXCEPT ![o][op[c].page].is = "taken"]
      BY <2>1 DEF NeedFrame
    <2> QED BY <1>1, <1>4, <2>2, SwapTake DEF CallTypes
  <1> QED BY <1>3, <1>4 DEF NeedFrame, SameTran, tranVars

\* fix_get_frame asks for a frame.
LEMMA FixGetFrameEff ==
  ASSUME NEW c \in Clients, fix_get_frame(c)
  PROVE  /\ ~broken /\ op[c].at = "locked" /\ Fixing(c) /\ UNCHANGED fcbs
         /\ CoreOf(c, op[c].page) = {} /\ <<c, op[c].page>> \notin OutOfChains
         /\ \/ Swapped(c, op[c].page) /\ NeedFrame(c, c)
            \/ ~Swapped(c, op[c].page) /\ NeedFrame(c, NoClient)
  BY DEF fix_get_frame, At

\* update_swapped asks for a frame for the copy of another client.
LEMMA UpdateSwappedEff ==
  ASSUME NEW c \in Clients, NEW o, update_swapped(c, o)
  PROVE  /\ ~broken /\ op[c].at = "update" /\ UNCHANGED fcbs
         /\ o # c /\ Swapped(o, op[c].page) /\ NeedFrame(c, o)
  BY DEF update_swapped, At

\* read_block ends the fixing with the page of the file.
LEMMA ReadBlockEff ==
  ASSUME FrameInv, NEW c \in Clients, read_block(c)
  PROVE  /\ ~broken /\ op[c].at = "reading" /\ OpIdle(c) /\ unlock(c)
         /\ FcbIs(op[c].frame, op[c].page, IF Private(c) THEN c ELSE NoClient, FALSE, 1, TRUE,
                  disc[op[c].page])
         /\ log'[c] = IF Private(c) THEN log[c] \cup {op[c].page} ELSE log[c]
         /\ \A e \in Clients \ {c} : log'[e] = log[e]
         /\ fixed'[c] = fixed[c] \cup {op[c].frame}
         /\ \A e \in Clients \ {c} : fixed'[e] = fixed[e]
         /\ UNCHANGED <<swaps, disc, changed, mine, failed, broken>>
  <1> DEFINE b == [blockdadr |-> op[c].page, owner |-> IF Private(c) THEN c ELSE NoClient,
                   dirty |-> FALSE, fixnum |-> 1, chained |-> TRUE, data |-> disc[op[c].page]]
  <1>1. CallTypes /\ fixed \in [Clients -> SUBSET Frames] /\ log \in [Clients -> SUBSET Dadrs]
    BY Typed DEF FrameInv, OtherInv
  <1>2. op[c].at = "reading" /\ op[c].frame \in Frames
    BY FrameIs DEF read_block, At, Getting
  <1>3. /\ b.blockdadr = op[c].page /\ b.owner = (IF Private(c) THEN c ELSE NoClient)
        /\ b.dirty = FALSE /\ b.fixnum = 1 /\ b.chained = TRUE /\ b.data = disc[op[c].page]
    OBVIOUS
  <1>4. Done(c, op[c].frame, b)
    BY DEF read_block
  <1> HIDE DEF b
  <1>5. /\ OpIdle(c) /\ unlock(c)
        /\ FcbIs(op[c].frame, b.blockdadr, b.owner, b.dirty, b.fixnum, b.chained, b.data)
        /\ fixed'[c] = fixed[c] \cup {op[c].frame}
        /\ \A e \in Clients \ {c} : fixed'[e] = fixed[e]
    BY <1>1, <1>2, <1>4, DoneEff
  <1>6. FcbIs(op[c].frame, op[c].page, IF Private(c) THEN c ELSE NoClient, FALSE, 1, TRUE,
              disc[op[c].page])
    BY <1>3, <1>5 DEF FcbIs
  <1>7. /\ log'[c] = IF Private(c) THEN log[c] \cup {op[c].page} ELSE log[c]
        /\ \A e \in Clients \ {c} : log'[e] = log[e]
    BY <1>1 DEF read_block
  <1> QED BY <1>5, <1>6, <1>7 DEF read_block, At

\* A frame is made empty.
LEMMA EmptyEff ==
  ASSUME CallTypes, NEW f \in Frames, fcbs' = [fcbs EXCEPT ![f] = EmptyFcb]
  PROVE  FcbIs(f, NoDadr, NoClient, FALSE, 0, TRUE, Blank)
  BY DEF CallTypes, FcbIs, OneFrame, EmptyFcb

\* read_block_fails returns the frame.
LEMMA ReadBlockFailsEff ==
  ASSUME FrameInv, NEW c \in Clients, read_block_fails(c)
  PROVE  /\ ~broken /\ op[c].at = "reading"
         /\ OpAt(c, "error", op[c].owner, op[c].the, NoFrame)
         /\ FcbIs(op[c].frame, NoDadr, NoClient, FALSE, 0, TRUE, Blank)
         /\ UNCHANGED <<vars, swaps, disc, fixed, broken>> /\ SameTran
  <1>1. CallTypes
    BY Typed
  <1>2. op[c].at = "reading" /\ op[c].frame \in Frames
    BY FrameIs DEF read_block_fails, At, Getting
  <1>3. FcbIs(op[c].frame, NoDadr, NoClient, FALSE, 0, TRUE, Blank)
    BY <1>1, <1>2, EmptyEff DEF read_block_fails
  <1>4. op' = [op EXCEPT ![c].frame = NoFrame, ![c].at = "error"]
    BY DEF read_block_fails
  <1>5. OpAt(c, "error", op[c].owner, op[c].the, NoFrame)
    BY <1>1, <1>4, OpMove DEF CallTypes
  <1> QED BY <1>3, <1>5 DEF read_block_fails, At, SameTran, tranVars

\* The fields of an unswapped control block.
LEMMA UnswappedIs ==
  ASSUME NEW c
  PROVE  LET b == Unswapped(c) IN
         /\ b.blockdadr = op[c].page /\ b.owner = op[c].owner /\ b.dirty = TRUE
         /\ b.fixnum = 1 /\ b.chained = TRUE /\ b.data = swaps[op[c].owner][op[c].page].data
  BY DEF Unswapped

\* load_block ends the fixing with the swapped copy.
LEMMA LoadBlockEff ==
  ASSUME FrameInv, NEW c \in Clients, load_block(c)
  PROVE  /\ ~broken /\ op[c].at = "loading" /\ Fixing(c) /\ OpIdle(c) /\ unlock(c)
         /\ FcbIs(op[c].frame, op[c].page, op[c].owner, TRUE, 1, TRUE,
                  swaps[op[c].owner][op[c].page].data)
         /\ fixed'[c] = fixed[c] \cup {op[c].frame}
         /\ \A e \in Clients \ {c} : fixed'[e] = fixed[e]
         /\ SwapIs(c, op[c].page, "none", Blank)
         /\ UNCHANGED <<disc, broken>> /\ SameTran
  <1>1. CallTypes /\ fixed \in [Clients -> SUBSET Frames]
    BY Typed DEF FrameInv, OtherInv
  <1>2. op[c].at = "loading" /\ op[c].frame \in Frames /\ op[c].page \in Dadrs
    BY FrameIs DEF load_block, At, Getting
  <1>3. /\ OpIdle(c) /\ unlock(c)
        /\ FcbIs(op[c].frame, Unswapped(c).blockdadr, Unswapped(c).owner, Unswapped(c).dirty,
                 Unswapped(c).fixnum, Unswapped(c).chained, Unswapped(c).data)
        /\ fixed'[c] = fixed[c] \cup {op[c].frame}
        /\ \A e \in Clients \ {c} : fixed'[e] = fixed[e]
    BY <1>1, <1>2, DoneEff DEF load_block
  <1>4. FcbIs(op[c].frame, op[c].page, op[c].owner, TRUE, 1, TRUE,
              swaps[op[c].owner][op[c].page].data)
    BY <1>3, UnswappedIs DEF FcbIs
  <1>5. SwapIs(c, op[c].page, "none", Blank)
    BY <1>1, <1>2, SwapNone DEF load_block, CallTypes
  <1> QED BY <1>3, <1>4, <1>5 DEF load_block, At, SameTran, tranVars

\* fix_err drops the swapped copy and fails the transaction.
LEMMA FixErrEff ==
  ASSUME FrameInv, NEW c \in Clients, fix_err(c)
  PROVE  /\ ~broken /\ op[c].at = "error" /\ Fixing(c) /\ OpIdle(c) /\ unlock(c)
         /\ op[c].owner = NoClient => UNCHANGED swaps
         /\ op[c].owner # NoClient => SwapIs(c, op[c].page, "none", Blank)
         /\ failed'[c] = TRUE /\ \A e \in Clients \ {c} : failed'[e] = failed[e]
         /\ UNCHANGED <<fcbs, disc, log, changed, mine, fixed, broken>>
  <1>1. CallTypes /\ failed \in [Clients -> BOOLEAN]
    BY Typed DEF FrameInv, OtherInv
  <1>2. op[c].page \in Dadrs
    BY PageIs DEF fix_err, At
  <1>3. OpIdle(c)
    BY <1>1, OpSetIdle DEF fix_err, CallTypes
  <1>4. ASSUME op[c].owner # NoClient PROVE SwapIs(c, op[c].page, "none", Blank)
    <2>1. swaps' = [swaps EXCEPT ![c][op[c].page] = NoSwap]
      BY <1>4 DEF fix_err
    <2> QED BY <1>1, <1>2, <2>1, SwapNone DEF CallTypes
  <1> QED BY <1>1, <1>3, <1>4 DEF fix_err, At

\* unfix_page unfixes one frame.
LEMMA UnfixPageEff ==
  ASSUME FrameInv, NEW c \in Clients, NEW f \in Frames, unfix_page(c, f)
  PROVE  /\ ~broken /\ op[c].at = "run" /\ f \in fixed[c]
         /\ FcbIs(f, fcbs[f].blockdadr, fcbs[f].owner, fcbs[f].dirty, Unfix(fcbs[f].fixnum),
                  fcbs[f].chained, fcbs[f].data)
         /\ fixed'[c] = fixed[c] \ {f}
         /\ \A e \in Clients \ {c} : fixed'[e] = fixed[e]
         /\ UNCHANGED <<vars, op, swaps, disc, broken>> /\ SameTran
  <1>1. CallTypes /\ fixed \in [Clients -> SUBSET Frames]
    BY Typed DEF FrameInv, OtherInv
  <1>2. fcbs' = [fcbs EXCEPT ![f].fixnum = Unfix(fcbs[f].fixnum)]
    BY <1>1 DEF unfix_page, CallTypes, Unfix
  <1>3. FcbIs(f, fcbs[f].blockdadr, fcbs[f].owner, fcbs[f].dirty, Unfix(fcbs[f].fixnum),
              fcbs[f].chained, fcbs[f].data)
    BY <1>1, <1>2, FcbField DEF CallTypes
  <1> QED BY <1>1, <1>3 DEF unfix_page, At, SameTran, tranVars

\* rec_changed writes to the record of the client.
LEMMA RecChangedEff ==
  ASSUME FrameInv, NEW c \in Clients, NEW f \in Frames, rec_changed(c, f)
  PROVE  LET p == fcbs[f].blockdadr IN
         /\ ~broken /\ op[c].at = "run" /\ ~failed[c] /\ f \in fixed[c] /\ fcbs[f].owner = c
         /\ FcbIs(f, p, c, TRUE, fcbs[f].fixnum, fcbs[f].chained, [fcbs[f].data EXCEPT ![c] = TRUE])
         /\ p \in Dadrs
         /\ mine'[c][p] = TRUE
         /\ \A e \in Clients, q \in Dadrs : e # c \/ q # p => mine'[e][q] = mine[e][q]
         /\ log'[c] = log[c] \cup {p} /\ changed'[c] = changed[c] \cup {p}
         /\ \A e \in Clients \ {c} : log'[e] = log[e] /\ changed'[e] = changed[e]
         /\ UNCHANGED <<vars, swaps, disc, fixed, failed, op, broken>>
  <1>1. CallTypes /\ log \in [Clients -> SUBSET Dadrs] /\ changed \in [Clients -> SUBSET Dadrs]
        /\ mine \in [Clients -> [Dadrs -> BOOLEAN]]
    BY Typed DEF FrameInv, OtherInv, DataInv
  <1>2. fcbs[f].owner = c /\ fcbs[f].blockdadr \in Dadrs
    BY NoClientAssumption DEF rec_changed, FrameInv, FcbInv, PrivateHasPage
  <1>3. fcbs' = [fcbs EXCEPT ![f].dirty = TRUE, ![f].data[c] = TRUE]
    BY DEF rec_changed
  <1>4. fcbs'[f] = [fcbs[f] EXCEPT !.dirty = TRUE, !.data[c] = TRUE] /\ OneFrame(f)
    BY <1>1, <1>3 DEF CallTypes, OneFrame
  <1>5. FcbIs(f, fcbs[f].blockdadr, c, TRUE, fcbs[f].fixnum, fcbs[f].chained,
              [fcbs[f].data EXCEPT ![c] = TRUE])
    BY <1>1, <1>2, <1>4 DEF CallTypes, Fcb, FcbIs
  <1>a. mine' = [mine EXCEPT ![c][fcbs[f].blockdadr] = TRUE]
    BY DEF rec_changed
  <1>6. /\ mine'[c][fcbs[f].blockdadr] = TRUE
        /\ \A e \in Clients, q \in Dadrs :
              e # c \/ q # fcbs[f].blockdadr => mine'[e][q] = mine[e][q]
    BY <1>1, <1>2, <1>a
  <1> QED BY <1>1, <1>2, <1>5, <1>6 DEF rec_changed, At

-----------------------------------------------------------------------------
\* commit begins with the log.
LEMMA CommitEff ==
  ASSUME FrameInv, NEW c \in Clients, commit(c)
  PROVE  /\ ~broken /\ op[c].at = "run" /\ ~failed[c] /\ fixed[c] = {}
         /\ OpIs(c, "commit", "next", NoDadr, NoClient, NoFrame, NoFrame, log[c])
         /\ UNCHANGED vars /\ SameData
  <1>1. CallTypes
    BY Typed
  <1>2. OpIs(c, "commit", "next", NoDadr, NoClient, NoFrame, NoFrame, log[c])
    BY <1>1, OpSetNext DEF commit, CallTypes
  <1> QED BY <1>2 DEF commit, At, SameData, SameTran, tranVars

\* roll_back begins with the log.
LEMMA RollBackEff ==
  ASSUME FrameInv, NEW c \in Clients, roll_back(c)
  PROVE  /\ ~broken /\ op[c].at = "run"
         /\ OpIs(c, "roll_back", "next", NoDadr, NoClient, NoFrame, NoFrame, log[c])
         /\ UNCHANGED vars /\ SameData
  <1>1. CallTypes
    BY Typed
  <1>2. OpIs(c, "roll_back", "next", NoDadr, NoClient, NoFrame, NoFrame, log[c])
    BY <1>1, OpSetNext DEF roll_back, CallTypes
  <1> QED BY <1>2 DEF roll_back, At, SameData, SameTran, tranVars

\* The page is unlocked and the call goes to the next one.
LEMMA PageDoneEff ==
  ASSUME CallTypes, NEW c \in Clients, PageDone(c)
  PROVE  OpNext(c) /\ unlock(c)
  BY OpSetNext DEF PageDone, OpNext, CallTypes

\* wr_nothing makes the copy shared.
LEMMA WrNothingEff ==
  ASSUME FrameInv, NEW c \in Clients, wr_nothing(c)
  PROVE  LET p == op[c].page IN
         /\ ~broken /\ op[c].at = "locked" /\ op[c].call = "commit" /\ OpNext(c) /\ unlock(c)
         /\ \/ p \notin changed[c]
            \/ CoreOf(c, p) = {} /\ ~Swapped(c, p) /\ <<c, p>> \notin OutOfChains
         /\ \A g \in Frames :
              /\ fcbs'[g].blockdadr = fcbs[g].blockdadr /\ fcbs'[g].dirty = fcbs[g].dirty
              /\ fcbs'[g].fixnum = fcbs[g].fixnum /\ fcbs'[g].chained = fcbs[g].chained
              /\ fcbs'[g].data = fcbs[g].data
              /\ fcbs'[g].owner = IF g \in CoreOf(c, p) THEN NoClient ELSE fcbs[g].owner
         /\ SwapIs(c, p, "none", Blank)
         /\ UNCHANGED <<disc, fixed, broken>> /\ SameTran
  <1>1. CallTypes
    BY Typed
  <1>2. op[c].page \in Dadrs
    BY PageIs DEF wr_nothing, At
  <1>3. OpNext(c) /\ unlock(c)
    BY <1>1, PageDoneEff DEF wr_nothing
  <1>4. SwapIs(c, op[c].page, "none", Blank)
    BY <1>1, <1>2, SwapNone DEF wr_nothing, CallTypes
  <1>5. \A g \in Frames :
              /\ fcbs'[g].blockdadr = fcbs[g].blockdadr /\ fcbs'[g].dirty = fcbs[g].dirty
              /\ fcbs'[g].fixnum = fcbs[g].fixnum /\ fcbs'[g].chained = fcbs[g].chained
              /\ fcbs'[g].data = fcbs[g].data
              /\ fcbs'[g].owner = IF g \in CoreOf(c, op[c].page) THEN NoClient ELSE fcbs[g].owner
    <2> SUFFICES ASSUME NEW g \in Frames
                 PROVE  /\ fcbs'[g].blockdadr = fcbs[g].blockdadr /\ fcbs'[g].dirty = fcbs[g].dirty
                        /\ fcbs'[g].fixnum = fcbs[g].fixnum /\ fcbs'[g].chained = fcbs[g].chained
                        /\ fcbs'[g].data = fcbs[g].data
                        /\ fcbs'[g].owner = IF g \in CoreOf(c, op[c].page) THEN NoClient
                                            ELSE fcbs[g].owner
      OBVIOUS
    <2>1. fcbs'[g] = IF g \in CoreOf(c, op[c].page) THEN [fcbs[g] EXCEPT !.owner = NoClient]
                     ELSE fcbs[g]
      BY DEF wr_nothing
    <2>2. fcbs[g] \in Fcb
      BY <1>1 DEF CallTypes
    <2> QED BY <2>1, <2>2 DEF Fcb
  <1> QED BY <1>3, <1>4, <1>5 DEF wr_nothing, At, SameTran, tranVars

\* Commit has the frame to write from.
LEMMA WriteEff ==
  ASSUME CallTypes, NEW c \in Clients, NEW f, Write(c, f)
  PROVE  OpAt(c, "writing", NoClient, f, NoFrame)
  BY OpMove DEF Write, CallTypes

\* wr_changes fixes the copy or asks for a frame for it.
LEMMA WrChangesEff ==
  ASSUME FrameInv, NEW c \in Clients, wr_changes(c)
  PROVE  LET p == op[c].page IN
         /\ ~broken /\ op[c].at = "locked" /\ op[c].call = "commit" /\ p \in changed[c]
         /\ \/ \E f \in CoreOf(c, p) :
                 /\ FcbIs(f, fcbs[f].blockdadr, fcbs[f].owner, fcbs[f].dirty, fcbs[f].fixnum + 1,
                          fcbs[f].chained, fcbs[f].data)
                 /\ OpAt(c, "writing", NoClient, f, NoFrame)
                 /\ SwapIs(c, p, "none", Blank)
                 /\ UNCHANGED <<vars, disc, fixed, broken>> /\ SameTran
            \/ CoreOf(c, p) = {} /\ Swapped(c, p) /\ NeedFrame(c, c) /\ UNCHANGED fcbs
  <1>1. CallTypes
    BY Typed
  <1>2. op[c].page \in Dadrs
    BY PageIs DEF wr_changes, At
  <1>3. ASSUME NEW f \in CoreOf(c, op[c].page), fcbs' = [fcbs EXCEPT ![f].fixnum = @ + 1],
               Write(c, f), swaps' = [swaps EXCEPT ![c][op[c].page] = NoSwap]
        PROVE  /\ FcbIs(f, fcbs[f].blockdadr, fcbs[f].owner, fcbs[f].dirty, fcbs[f].fixnum + 1,
                        fcbs[f].chained, fcbs[f].data)
               /\ OpAt(c, "writing", NoClient, f, NoFrame)
               /\ SwapIs(c, op[c].page, "none", Blank)
    <2>0. f \in Frames
      BY DEF CoreOf
    <2>1. fcbs' = [fcbs EXCEPT ![f].fixnum = fcbs[f].fixnum + 1]
      BY <1>1, <1>3, <2>0 DEF CallTypes
    <2>2. FcbIs(f, fcbs[f].blockdadr, fcbs[f].owner, fcbs[f].dirty, fcbs[f].fixnum + 1,
                fcbs[f].chained, fcbs[f].data)
      BY <1>1, <2>0, <2>1, FcbField DEF CallTypes
    <2>3. SwapIs(c, op[c].page, "none", Blank)
      BY <1>1, <1>2, <1>3, SwapNone DEF CallTypes
    <2> QED BY <1>1, <1>3, <2>2, <2>3, WriteEff
  <1> QED BY <1>3 DEF wr_changes, At, SameTran, tranVars

\* load_changes loads the copy to be written.
LEMMA LoadChangesEff ==
  ASSUME FrameInv, NEW c \in Clients, load_changes(c)
  PROVE  /\ ~broken /\ op[c].at = "loading" /\ op[c].call = "commit" /\ op[c].owner = c
         /\ FcbIs(op[c].frame, op[c].page, c, TRUE, 1, TRUE, swaps[c][op[c].page].data)
         /\ OpAt(c, "writing", NoClient, op[c].frame, NoFrame)
         /\ SwapIs(c, op[c].page, "none", Blank)
         /\ UNCHANGED <<vars, disc, fixed, broken>> /\ SameTran
  <1>1. CallTypes
    BY Typed
  <1>2. op[c].at = "loading" /\ op[c].frame \in Frames /\ op[c].page \in Dadrs
    BY FrameIs DEF load_changes, At, Getting
  <1>3. FcbIs(op[c].frame, Unswapped(c).blockdadr, Unswapped(c).owner, Unswapped(c).dirty,
              Unswapped(c).fixnum, Unswapped(c).chained, Unswapped(c).data)
    BY <1>1, <1>2, FcbSet DEF load_changes, CallTypes
  <1>4. FcbIs(op[c].frame, op[c].page, c, TRUE, 1, TRUE, swaps[c][op[c].page].data)
    BY <1>3, UnswappedIs DEF FcbIs, load_changes
  <1>5. SwapIs(c, op[c].page, "none", Blank)
    BY <1>1, <1>2, SwapNone DEF load_changes, CallTypes
  <1>6. OpAt(c, "writing", NoClient, op[c].frame, NoFrame)
    BY <1>1, WriteEff DEF load_changes
  <1> QED BY <1>4, <1>5, <1>6 DEF load_changes, At, SameTran, tranVars

\* load_other loads the copy of another client and updates it.
LEMMA LoadOtherEff ==
  ASSUME FrameInv, NEW c \in Clients, load_other(c)
  PROVE  LET o == op[c].owner  p == op[c].page IN
         /\ ~broken /\ op[c].at = "loading" /\ op[c].call = "commit" /\ o # c /\ o \in Clients
         /\ FcbIs(op[c].frame, p, o, TRUE, 0, TRUE,
                  [swaps[o][p].data EXCEPT ![c] = fcbs[op[c].the].data[c]])
         /\ OpAt(c, "update", NoClient, op[c].the, NoFrame)
         /\ SwapIs(o, p, "none", Blank)
         /\ UNCHANGED <<vars, disc, fixed, broken>> /\ SameTran
  <1>1. CallTypes
    BY Typed
  <1>2. op[c].at = "loading" /\ op[c].frame \in Frames /\ op[c].page \in Dadrs
    BY FrameIs DEF load_other, At, Getting
  <1>3. op[c].owner \in Clients
    BY <1>2, CallIs DEF FrameInv, CallOK
  <1> DEFINE b == [Unswapped(c) EXCEPT !.data[c] = fcbs[op[c].the].data[c], !.fixnum = 0]
  <1>4. /\ b.blockdadr = op[c].page /\ b.owner = op[c].owner /\ b.dirty = TRUE
        /\ b.fixnum = 0 /\ b.chained = TRUE
        /\ b.data = [swaps[op[c].owner][op[c].page].data EXCEPT ![c] = fcbs[op[c].the].data[c]]
    BY DEF Unswapped
  <1>5. fcbs' = [fcbs EXCEPT ![op[c].frame] = b]
    BY DEF load_other
  <1> HIDE DEF b
  <1>6. FcbIs(op[c].frame, b.blockdadr, b.owner, b.dirty, b.fixnum, b.chained, b.data)
    BY <1>1, <1>2, <1>5, FcbSet DEF CallTypes
  <1>7. FcbIs(op[c].frame, op[c].page, op[c].owner, TRUE, 0, TRUE,
              [swaps[op[c].owner][op[c].page].data EXCEPT ![c] = fcbs[op[c].the].data[c]])
    BY <1>4, <1>6 DEF FcbIs
  <1>8. SwapIs(op[c].owner, op[c].page, "none", Blank)
    BY <1>1, <1>2, <1>3, SwapNone DEF load_other, CallTypes
  <1>9. op' = [op EXCEPT ![c].at = "update", ![c].frame = NoFrame, ![c].owner = NoClient]
    BY DEF load_other
  <1>10. OpAt(c, "update", NoClient, op[c].the, NoFrame)
    BY <1>1, <1>9, OpMove DEF CallTypes
  <1> QED BY <1>3, <1>7, <1>8, <1>10 DEF load_other, At, SameTran, tranVars

\* What write_block does to a frame.
UpdatedFcb(c, g) ==
    /\ fcbs'[g].blockdadr = fcbs[g].blockdadr /\ fcbs'[g].owner = fcbs[g].owner
    /\ fcbs'[g].fixnum = fcbs[g].fixnum /\ fcbs'[g].chained = fcbs[g].chained
    /\ g # op[c].the => fcbs'[g].dirty = fcbs[g].dirty
    /\ IF g # op[c].the /\ fcbs[g].chained /\ fcbs[g].blockdadr = op[c].page /\ fcbs[g].owner # c
       THEN fcbs'[g].data = [fcbs[g].data EXCEPT ![c] = fcbs[op[c].the].data[c]]
       ELSE fcbs'[g].data = fcbs[g].data

\* write_block writes the page and updates the copies in core.
LEMMA WriteBlockEff ==
  ASSUME FrameInv, NEW c \in Clients, write_block(c)
  PROVE  /\ ~broken /\ op[c].at = "writing"
         /\ \A e \in Clients \ {c} : <<e, op[c].page>> \notin OutOfChains
         /\ \A q \in Dadrs : disc'[q] = IF q = op[c].page THEN fcbs[op[c].the].data ELSE disc[q]
         /\ \A g \in Frames : UpdatedFcb(c, g)
         /\ OpAt(c, "update", op[c].owner, op[c].the, op[c].frame)
         /\ UNCHANGED <<vars, swaps, fixed, broken>> /\ SameTran
  <1>1. CallTypes
    BY Typed
  <1>2. \A g \in Frames : UpdatedFcb(c, g)
    <2> SUFFICES ASSUME NEW g \in Frames PROVE UpdatedFcb(c, g)
      OBVIOUS
    <2>1. fcbs[g] \in Fcb
      BY <1>1 DEF CallTypes
    <2>2. fcbs' = UpdateCore(c)
      BY DEF write_block
    <2>3. fcbs'[g] = IF g = op[c].the THEN [fcbs[g] EXCEPT !.dirty = FALSE]
                     ELSE IF fcbs[g].chained /\ fcbs[g].blockdadr = op[c].page /\ fcbs[g].owner # c
                     THEN [fcbs[g] EXCEPT !.data[c] = fcbs[op[c].the].data[c]]
                     ELSE fcbs[g]
      BY <2>2 DEF UpdateCore
    <2> QED BY <2>1, <2>3 DEF Fcb, UpdatedFcb
  <1>3. op' = [op EXCEPT ![c].at = "update"]
    BY DEF write_block
  <1>4. OpAt(c, "update", op[c].owner, op[c].the, op[c].frame)
    BY <1>1, <1>3, OpMove DEF CallTypes
  <1>5. \A q \in Dadrs : disc'[q] = IF q = op[c].page THEN fcbs[op[c].the].data ELSE disc[q]
    BY DEF write_block, FrameInv, DataInv
  <1> QED BY <1>2, <1>4, <1>5 DEF write_block, At, SameTran, tranVars

\* wr_end makes the written copy shared.
LEMMA WrEndEff ==
  ASSUME FrameInv, NEW c \in Clients, wr_end(c)
  PROVE  LET f == op[c].the IN
         /\ ~broken /\ op[c].at = "update" /\ f \in Frames
         /\ \A o \in Clients \ {c} : ~Swapped(o, op[c].page)
         /\ FcbIs(f, fcbs[f].blockdadr, NoClient, fcbs[f].dirty, Unfix(fcbs[f].fixnum),
                  fcbs[f].chained, fcbs[f].data)
         /\ OpNext(c) /\ unlock(c)
         /\ UNCHANGED <<swaps, disc, fixed, broken>> /\ SameTran
  <1>1. CallTypes
    BY Typed
  <1>2. op[c].at = "update" /\ op[c].the \in Frames
    BY CallIs DEF wr_end, At, FrameInv, CallOK
  <1>3. fcbs' = [fcbs EXCEPT ![op[c].the].owner = NoClient,
                             ![op[c].the].fixnum = Unfix(fcbs[op[c].the].fixnum)]
    BY <1>1, <1>2 DEF wr_end, CallTypes, Fcb
  <1>4. FcbIs(op[c].the, fcbs[op[c].the].blockdadr, NoClient, fcbs[op[c].the].dirty,
              Unfix(fcbs[op[c].the].fixnum), fcbs[op[c].the].chained, fcbs[op[c].the].data)
    BY <1>1, <1>2, <1>3, FcbField DEF CallTypes
  <1>5. OpNext(c) /\ unlock(c)
    BY <1>1, PageDoneEff DEF wr_end
  <1> QED BY <1>2, <1>4, <1>5 DEF wr_end, At, SameTran, tranVars

\* end_of_commit empties the log.
LEMMA EndOfCommitEff ==
  ASSUME FrameInv, NEW c \in Clients, end_of_commit(c)
  PROVE  /\ ~broken /\ op[c].at = "next" /\ op[c].call = "commit" /\ op[c].todo = {} /\ OpIdle(c)
         /\ log'[c] = {} /\ changed'[c] = {}
         /\ \A e \in Clients \ {c} : log'[e] = log[e] /\ changed'[e] = changed[e]
         /\ UNCHANGED <<vars, fcbs, swaps, disc, mine, fixed, failed, broken>>
  <1>1. CallTypes /\ log \in [Clients -> SUBSET Dadrs] /\ changed \in [Clients -> SUBSET Dadrs]
    BY Typed DEF FrameInv, OtherInv
  <1>2. OpIdle(c)
    BY <1>1, OpSetIdle DEF end_of_commit, CallTypes
  <1> QED BY <1>1, <1>2 DEF end_of_commit, At

\* end_of_roll_back empties the log and clears the error.
LEMMA EndOfRollBackEff ==
  ASSUME FrameInv, NEW c \in Clients, end_of_roll_back(c)
  PROVE  /\ ~broken /\ op[c].at = "next" /\ op[c].call = "roll_back" /\ op[c].todo = {} /\ OpIdle(c)
         /\ log'[c] = {} /\ failed'[c] = FALSE
         /\ \A e \in Clients \ {c} : log'[e] = log[e] /\ failed'[e] = failed[e]
         /\ UNCHANGED <<vars, fcbs, swaps, disc, changed, mine, fixed, broken>>
  <1>1. CallTypes /\ log \in [Clients -> SUBSET Dadrs] /\ failed \in [Clients -> BOOLEAN]
    BY Typed DEF FrameInv, OtherInv
  <1>2. OpIdle(c)
    BY <1>1, OpSetIdle DEF end_of_roll_back, CallTypes
  <1> QED BY <1>1, <1>2 DEF end_of_roll_back, At

-----------------------------------------------------------------------------
\* remove_changes drops the copy or gives it the contents of the file.
LEMMA RemoveChangesEff ==
  ASSUME FrameInv, SharedInv, NEW c \in Clients, remove_changes(c)
  PROVE  LET p == op[c].page IN
         /\ ~broken /\ op[c].at = "locked" /\ op[c].call = "roll_back" /\ OpNext(c) /\ unlock(c)
         /\ <<c, p>> \notin OutOfChains
         /\ \/ CoreOf(c, p) = {} /\ UNCHANGED fcbs
            \/ \E f \in CoreOf(c, p) :
                 \/ fcbs[f].fixnum = 0 /\ FcbIs(f, NoDadr, NoClient, FALSE, 0, TRUE, Blank)
                 \/ /\ fcbs[f].fixnum # 0
                    /\ \E d : /\ FcbIs(f, fcbs[f].blockdadr, fcbs[f].owner, fcbs[f].dirty,
                                       fcbs[f].fixnum, fcbs[f].chained, d)
                              /\ (p \notin changed[c] /\ d = fcbs[f].data) \/ d = disc[p]
         /\ SwapIs(c, p, "none", Blank)
         /\ \A e \in Clients, q \in Dadrs :
               mine'[e][q] = IF e = c /\ q = p THEN disc[p][c] ELSE mine[e][q]
         /\ changed'[c] = changed[c] \ {p}
         /\ \A e \in Clients \ {c} : changed'[e] = changed[e]
         /\ UNCHANGED <<disc, log, fixed, failed, broken>>
  <1>1. CallTypes /\ changed \in [Clients -> SUBSET Dadrs]
        /\ mine \in [Clients -> [Dadrs -> BOOLEAN]] 
    BY Typed DEF FrameInv, OtherInv, DataInv
  <1>2. op[c].page \in Dadrs /\ op[c].page # NoDadr
    BY PageIs, NoDadrAssumption DEF remove_changes, At
  <1>3. OpNext(c) /\ unlock(c)
    BY <1>1, PageDoneEff DEF remove_changes
  <1>4. SwapIs(c, op[c].page, "none", Blank)
    BY <1>1, <1>2, SwapNone DEF remove_changes, CallTypes
  <1>5. \A e \in Clients, q \in Dadrs :
               mine'[e][q] = IF e = c /\ q = op[c].page THEN disc[op[c].page][c] ELSE mine[e][q]
    BY <1>1, <1>2 DEF remove_changes
  <1>6. ASSUME NEW f \in CoreOf(c, op[c].page), NEW b \in Removed(c, f), fcbs' = [fcbs EXCEPT ![f] = b]
        PROVE  \/ fcbs[f].fixnum = 0 /\ FcbIs(f, NoDadr, NoClient, FALSE, 0, TRUE, Blank)
               \/ /\ fcbs[f].fixnum # 0
                  /\ \E d : /\ FcbIs(f, fcbs[f].blockdadr, fcbs[f].owner, fcbs[f].dirty,
                                     fcbs[f].fixnum, fcbs[f].chained, d)
                            /\ \/ op[c].page \notin changed[c] /\ d = fcbs[f].data
                               \/ d = disc[op[c].page]
    <2>0. f \in Frames /\ fcbs[f] \in Fcb
      BY <1>1 DEF CoreOf, CallTypes
    <2>1. CASE fcbs[f].fixnum = 0
      <3>1. b = EmptyFcb
        BY <2>1 DEF Removed
      <3> QED BY <1>1, <1>6, <2>0, <2>1, <3>1, EmptyEff
    <2>2. CASE fcbs[f].fixnum # 0 /\ op[c].page \notin changed[c]
      <3>1. b = fcbs[f]
        BY <2>2 DEF Removed
      <3>2. FcbIs(f, fcbs[f].blockdadr, fcbs[f].owner, fcbs[f].dirty, fcbs[f].fixnum,
                  fcbs[f].chained, fcbs[f].data)
        BY <1>1, <1>6, <2>0, <3>1, FcbSet DEF CallTypes
      <3> QED BY <2>2, <3>2
    <2>3. CASE fcbs[f].fixnum # 0 /\ op[c].page \in changed[c]
      <3>1. b \in {[fcbs[f] EXCEPT !.data = d] :
                     d \in IF CoreOf(NoClient, op[c].page) = {} THEN {disc[op[c].page]}
                           ELSE {fcbs[g].data : g \in CoreOf(NoClient, op[c].page)}}
        BY <2>3 DEF Removed
      <3>2. PICK d : /\ b = [fcbs[f] EXCEPT !.data = d]
                     /\ d \in IF CoreOf(NoClient, op[c].page) = {} THEN {disc[op[c].page]}
                              ELSE {fcbs[g].data : g \in CoreOf(NoClient, op[c].page)}
        BY <3>1
      <3>3. d = disc[op[c].page]
        BY <1>2, <3>2 DEF CoreOf, SharedInv, SharedOK
      <3>4. /\ b.blockdadr = fcbs[f].blockdadr /\ b.owner = fcbs[f].owner /\ b.dirty = fcbs[f].dirty
            /\ b.fixnum = fcbs[f].fixnum /\ b.chained = fcbs[f].chained /\ b.data = d
        BY <2>0, <3>2 DEF Fcb
      <3>5. FcbIs(f, b.blockdadr, b.owner, b.dirty, b.fixnum, b.chained, b.data)
        BY <1>1, <1>6, <2>0, FcbSet DEF CallTypes
      <3>6. FcbIs(f, fcbs[f].blockdadr, fcbs[f].owner, fcbs[f].dirty, fcbs[f].fixnum,
                  fcbs[f].chained, d)
        BY <3>4, <3>5 DEF FcbIs
      <3> QED BY <2>3, <3>3, <3>6
    <2> QED BY <2>1, <2>2, <2>3
  <1>7. /\ changed'[c] = changed[c] \ {op[c].page}
        /\ \A e \in Clients \ {c} : changed'[e] = changed[e]
    BY <1>1 DEF remove_changes
  <1>8. \/ CoreOf(c, op[c].page) = {} /\ UNCHANGED fcbs
        \/ \E f \in CoreOf(c, op[c].page) : \E b \in Removed(c, f) : fcbs' = [fcbs EXCEPT ![f] = b]
    BY DEF remove_changes
  <1>9. /\ ~broken /\ op[c].at = "locked" /\ op[c].call = "roll_back"
        /\ <<c, op[c].page>> \notin OutOfChains
        /\ UNCHANGED <<disc, log, fixed, failed, broken>>
    BY DEF remove_changes, At
  <1>10. \/ CoreOf(c, op[c].page) = {} /\ UNCHANGED fcbs
         \/ \E f \in CoreOf(c, op[c].page) :
                 \/ fcbs[f].fixnum = 0 /\ FcbIs(f, NoDadr, NoClient, FALSE, 0, TRUE, Blank)
                 \/ /\ fcbs[f].fixnum # 0
                    /\ \E d : /\ FcbIs(f, fcbs[f].blockdadr, fcbs[f].owner, fcbs[f].dirty,
                                       fcbs[f].fixnum, fcbs[f].chained, d)
                              /\ \/ op[c].page \notin changed[c] /\ d = fcbs[f].data
                                 \/ d = disc[op[c].page]
    BY <1>6, <1>8
  <1> QED BY <1>3, <1>4, <1>5, <1>7, <1>9, <1>10
-----------------------------------------------------------------------------
\* The shape of calls is kept.

\* The variables of the other clients stay.
OthersStay(c) ==
    \A e \in Clients \ {c} :
        /\ op'[e] = op[e] /\ fixed'[e] = fixed[e] /\ changed'[e] = changed[e]
        /\ log'[e] = log[e] /\ failed'[e] = failed[e]

\* The calls of the others stay as they are.
LEMMA CallsStep ==
  ASSUME CallsInv, NEW c \in Clients, OthersStay(c), CallShape(c)', TranShape(c)'
  PROVE  CallsInv'
  <1> SUFFICES ASSUME NEW e \in Clients, e # c PROVE CallShape(e)' /\ TranShape(e)'
    BY DEF CallsInv
  <1>1. CallShape(e) /\ TranShape(e)
    BY DEF CallsInv
  <1>2. op'[e] = op[e] /\ fixed'[e] = fixed[e] /\ changed'[e] = changed[e] /\ log'[e] = log[e]
        /\ failed'[e] = failed[e]
    BY DEF OthersStay
  <1> QED BY <1>1, <1>2 DEF CallShape, TranShape, Fixing

\* A call ends.
LEMMA IdleShape ==
  ASSUME NEW c \in Clients, OpIdle(c), changed'[c] \subseteq log'[c]
  PROVE  CallShape(c)' /\ TranShape(c)'
  BY NoFrameAssumption, NoClientAssumption
     DEF OpIdle, OpIs, CallShape, TranShape, Fixing, Getting, Loads

\* A page of the log is done.
LEMMA NextShape ==
  ASSUME NEW c \in Clients, op[c] \in Op, CallShape(c), TranShape(c), OpNext(c), op[c].call \in {"commit", "roll_back"},
         UNCHANGED <<log, fixed, failed>>, changed'[c] \subseteq changed[c],
         op[c].call = "roll_back" => op[c].page \notin changed'[c]
  PROVE  CallShape(c)' /\ TranShape(c)'
  BY NoDadrAssumption DEF OpNext, OpIs, CallShape, TranShape, Fixing, Getting, Loads, Op

\* c begins with a page.
LEMMA LockShape ==
  ASSUME FrameInv, NEW c \in Clients, CallShape(c), TranShape(c), NEW call, NEW p \in Dadrs, NEW todo,
         OpLock(c, call, p, todo), SameTran, UNCHANGED fixed,
         \/ call \in {"fix_any_page", "fix_priv_page"} /\ ~failed[c]
         \/ call = op[c].call /\ op[c].at = "next" /\ todo = op[c].todo \ {p}
  PROVE  CallShape(c)' /\ TranShape(c)'
  <1>1. p # NoDadr
    BY NoDadrAssumption
  <1>2. CallShape(c)'
    BY <1>1 DEF OpLock, OpIs, CallShape, Fixing, Getting, Loads
  <1>3. TranShape(c)'
    <2>1. changed[c] \subseteq Dadrs
      BY DEF FrameInv, OtherInv
    <2> QED BY <2>1, NoDadrAssumption DEF OpLock, OpIs, CallShape, TranShape, Fixing, SameTran
  <1> QED BY <1>2, <1>3

\* c goes on in its call.
LEMMA MoveTran ==
  ASSUME NEW c \in Clients, TranShape(c), NEW at, NEW o, NEW t, NEW f, OpAt(c, at, o, t, f),
         UNCHANGED fixed, SameTran
  PROVE  TranShape(c)'
  BY DEF OpAt, OpIs, TranShape, Fixing, SameTran

\* The shape of the call that moves on.
LEMMA MoveShape ==
  ASSUME NEW c \in Clients, op[c] \in Op, CallShape(c), NEW at, NEW o, NEW t, NEW f, OpAt(c, at, o, t, f),
         op[c].at \notin {"run", "next"}, at \notin {"run", "next", "locking", "reading"},
         at = "locked" => o = NoClient /\ t = NoFrame /\ f = NoFrame,
         f # NoFrame <=> at \in Getting,
         op[c].call # "roll_back" \/ at = "locked",
         at \in {"writing", "update"} => t # NoFrame /\ op[c].call = "commit" /\ o = NoClient,
         at \notin {"locked", "writing", "update"} =>
            /\ at \in Loads
            /\ at = "loading" => o # NoClient
            /\ Fixing(c) => o \in {c, NoClient} /\ t = NoFrame
            /\ op[c].call = "commit" => o # NoClient /\ (o = c <=> t = NoFrame)
  PROVE  CallShape(c)'
  <1>1. op[c].call \in {"none", "fix_any_page", "fix_priv_page", "commit", "roll_back"}
    BY DEF Op
  <1> QED BY <1>1 DEF OpAt, OpIs, CallShape, Fixing, Getting, Loads

\* A call begins to read a block.
LEMMA ReadShape ==
  ASSUME NEW c \in Clients, op[c] \in Op, CallShape(c), NEW f, OpAt(c, "reading", NoClient, op[c].the, f),
         op[c].at \in {"get_frame", "saving"}, op[c].owner = NoClient, f # NoFrame
  PROVE  CallShape(c)'
  <1>1. op[c].call \in {"none", "fix_any_page", "fix_priv_page", "commit", "roll_back"}
    BY DEF Op
  <1> QED BY <1>1 DEF OpAt, OpIs, CallShape, Fixing, Getting, Loads

-----------------------------------------------------------------------------
\* The steps of a client that lose no page, one by one.
CacheStep(c) ==
    \/ \E p \in Dadrs : \/ next_page(c, p)
                        \/ \E call \in {"fix_any_page", "fix_priv_page"} : fix_page(c, p, call)
    \/ wait_for_block(c) \/ retry_page(c) \/ retry_victim(c)
    \/ sleep_for_frame(c) \/ no_frame(c)
    \/ \E f \in Frames : \/ get_frame(c, f) \/ get_frame_swapping(c, f)
                         \/ fix_own(c, f) \/ fix_shared(c, f)
                         \/ unfix_page(c, f) \/ rec_changed(c, f)
    \/ save_block(c) \/ save_block_fails(c)
    \/ fix_get_frame(c) \/ read_block(c) \/ read_block_fails(c) \/ load_block(c) \/ fix_err(c)
    \/ commit(c) \/ wr_nothing(c) \/ wr_changes(c) \/ load_changes(c) \/ write_block(c)
    \/ \E o \in Clients : update_swapped(c, o)
    \/ load_other(c) \/ wr_end(c) \/ end_of_commit(c)
    \/ roll_back(c) \/ remove_changes(c) \/ end_of_roll_back(c)

\* A step that loses no page is one of CacheStep.
LEMMA StepIs ==
  ASSUME [FrameNext]_allVars, ~broken, ~broken'
  PROVE  (\E c \in Clients : CacheStep(c)) \/ UNCHANGED allVars
  <1>1. ASSUME NEW c \in Clients, CallStep(c) PROVE CacheStep(c)
    <2>1. ~fix_misses(c) /\ ~wr_misses(c) /\ ~update_misses(c) /\ ~wr_err(c) /\ ~remove_misses(c)
      BY DEF fix_misses, wr_misses, update_misses, wr_err, remove_misses, PageLost
    <2> QED BY <1>1, <2>1 DEF CallStep, CacheStep
  <1>2. ASSUME NEW c \in Clients, Call(c) PROVE CacheStep(c)
    BY <1>2 DEF Call, CacheStep
  <1> QED BY <1>1, <1>2 DEF FrameNext, Lost

\* Every step keeps the shape of the calls.
LEMMA CallsKept ==
  ASSUME FrameInv, Good, NEW c \in Clients, CacheStep(c)
  PROVE  CallsInv'
  <1>0. CallTypes /\ op[c] \in Op /\ CallShape(c) /\ TranShape(c) /\ CallsInv /\ UseInv /\ SharedInv
    BY Typed DEF CallTypes, Good, CallsInv
  <1> USE NoFrameAssumption, NoClientAssumption
  <1>1. ASSUME NEW p \in Dadrs, next_page(c, p) PROVE CallsInv'
    <2>1. /\ op[c].at = "next" /\ OpLock(c, op[c].call, p, op[c].todo \ {p}) /\ SameData
      BY <1>0, <1>1, NextPageEff
    <2>2. CallShape(c)' /\ TranShape(c)'
      BY <1>0, <2>1, LockShape DEF SameData
    <2> QED BY <1>0, <2>1, <2>2, CallsStep DEF OpLock, OpIs, SameData, SameTran, OthersStay
  <1>2. ASSUME NEW p \in Dadrs, NEW call \in {"fix_any_page", "fix_priv_page"}, fix_page(c, p, call)
        PROVE CallsInv'
    <2>1. /\ op[c].at = "run" /\ OpLock(c, call, p, {}) /\ SameData /\ ~failed[c]
      BY <1>0, <1>2, FixPageEff
    <2>2. CallShape(c)' /\ TranShape(c)'
      BY <1>0, <2>1, LockShape DEF SameData
    <2> QED BY <1>0, <2>1, <2>2, CallsStep DEF OpLock, OpIs, SameData, SameTran, OthersStay
  <1>3. ASSUME UNCHANGED <<op, fixed>>, SameTran PROVE CallsInv'
    BY <1>0, <1>3 DEF SameTran, CallsInv, CallShape, TranShape, Fixing
  <1>4. ASSUME wait_for_block(c) \/ sleep_for_frame(c) PROVE CallsInv'
    BY <1>3, <1>4, WaitForBlockEff, SleepForFrameEff DEF SameData
  <1>5. ASSUME NEW at, NEW o, NEW t, NEW f, OpAt(c, at, o, t, f), CallShape(c)', UNCHANGED fixed, SameTran
        PROVE CallsInv'
    <2>1. TranShape(c)'
      BY <1>0, <1>5, MoveTran
    <2> QED BY <1>0, <1>5, <2>1, CallsStep DEF OpAt, OpIs, SameTran, OthersStay
  <1>6. ASSUME retry_page(c) PROVE CallsInv'
    <2>1. /\ op[c].at = "locking" /\ UNCHANGED fixed /\ SameTran
          /\ OpAt(c, "locked", op[c].owner, op[c].the, op[c].frame) \/ UNCHANGED op
      BY <1>0, <1>6, RetryPageEff DEF SameData
    <2>2. op[c].owner = NoClient /\ op[c].the = NoFrame /\ op[c].frame = NoFrame
      BY <1>0, <2>1 DEF CallShape, Loads, Getting
    <2>3. ASSUME OpAt(c, "locked", op[c].owner, op[c].the, op[c].frame) PROVE CallShape(c)'
      BY <1>0, <2>1, <2>2, <2>3, MoveShape DEF Getting
    <2> QED BY <1>3, <1>5, <2>1, <2>3
  <1>7. ASSUME op[c].at \in {"get_frame", "victim", "saving"},
               NEW at \in {"error", "victim", "saving"}, NEW f, f # NoFrame <=> at # "error",
               OpAt(c, at, op[c].owner, op[c].the, f),
               UNCHANGED fixed, SameTran
        PROVE CallsInv'
    <2>2. CallShape(c)'
      BY <1>0, <1>7, MoveShape DEF CallShape, Loads, Getting, Fixing
    <2> QED BY <1>5, <1>7, <2>2
  <1>8. ASSUME retry_victim(c) PROVE CallsInv'
    <2>1. /\ op[c].at = "victim" /\ UNCHANGED fixed /\ SameTran
          /\ OpAt(c, "saving", op[c].owner, op[c].the, op[c].frame) \/ UNCHANGED op
      BY <1>8, RetryVictimEff
    <2>2. op[c].frame # NoFrame
      BY <1>0, <2>1 DEF CallShape, Getting
    <2> QED BY <1>3, <1>7, <2>1, <2>2
  <1>9. ASSUME no_frame(c) PROVE CallsInv'
    <2>1. /\ op[c].at = "get_frame" /\ SameData
          /\ OpAt(c, "error", op[c].owner, op[c].the, op[c].frame)
      BY <1>0, <1>9, NoFrameEff
    <2>2. op[c].frame = NoFrame
      BY <1>0, <2>1 DEF CallShape, Getting
    <2> QED BY <1>7, <2>1, <2>2 DEF SameData
  <1>10. ASSUME NEW f \in Frames, op[c].at \in {"get_frame", "saving"}, GotFrame(c, f),
                UNCHANGED fixed, SameTran
         PROVE  CallsInv'
    <2>1. \/ op[c].owner = NoClient /\ OpAt(c, "reading", op[c].owner, op[c].the, f)
          \/ op[c].owner # NoClient /\ OpAt(c, "loading", op[c].owner, op[c].the, f)
      BY <1>0, <1>10, GotFrameEff
    <2>2. ASSUME op[c].owner = NoClient /\ OpAt(c, "reading", op[c].owner, op[c].the, f)
          PROVE  CallShape(c)'
      BY <1>0, <1>10, <2>2, ReadShape
    <2>3. ASSUME op[c].owner # NoClient /\ OpAt(c, "loading", op[c].owner, op[c].the, f)
          PROVE  CallShape(c)'
      BY <1>0, <1>10, <2>3, MoveShape DEF CallShape, Loads, Getting, Fixing
    <2> QED BY <1>5, <1>10, <2>1, <2>2, <2>3
  <1>11. ASSUME NEW f \in Frames, get_frame(c, f) PROVE CallsInv'
    BY <1>10, <1>11, GetFrameEff
  <1>12. ASSUME NEW f \in Frames, get_frame_swapping(c, f) PROVE CallsInv'
    <2>1. /\ op[c].at = "get_frame" /\ UNCHANGED fixed /\ SameTran
          /\ \/ OpAt(c, "saving", op[c].owner, op[c].the, f)
             \/ OpAt(c, "victim", op[c].owner, op[c].the, f)
      BY <1>12, GetFrameSwappingEff
    <2> QED BY <1>7, <2>1
  <1>13. ASSUME save_block(c) PROVE CallsInv'
    <2>1. /\ op[c].at = "saving" /\ GotFrame(c, op[c].frame) /\ UNCHANGED fixed /\ SameTran
      BY <1>0, <1>13, SaveBlockEff
    <2> QED BY <1>10, <2>1, FrameIs DEF Getting
  <1>14. ASSUME save_block_fails(c) PROVE CallsInv'
    BY <1>0, <1>7, <1>14, SaveBlockFailsEff
  <1>15. ASSUME OpIdle(c), OthersStay(c), changed'[c] \subseteq log'[c] PROVE CallsInv'
    BY <1>0, <1>15, IdleShape, CallsStep
  <1>16. ASSUME NEW f \in Frames, fix_own(c, f) PROVE CallsInv'
    <2>1. OpIdle(c) /\ SameTran /\ \A e \in Clients \ {c} : fixed'[e] = fixed[e]
      BY <1>16, FixOwnEff
    <2> QED BY <1>0, <1>15, <2>1 DEF OthersStay, OpIdle, OpIs, SameTran, TranShape
  <1>17. ASSUME NEW f \in Frames, fix_shared(c, f) PROVE CallsInv'
    <2>1. /\ OpIdle(c) /\ UNCHANGED <<changed, failed>> /\ \A e \in Clients \ {c} : fixed'[e] = fixed[e]
          /\ log[c] \subseteq log'[c] /\ \A e \in Clients \ {c} : log'[e] = log[e]
      BY <1>17, FixSharedEff
    <2> QED BY <1>0, <1>15, <2>1 DEF OthersStay, OpIdle, OpIs, TranShape
  <1>18. ASSUME NEW o \in Clients \cup {NoClient}, NeedFrame(c, o), op[c].page \in Dadrs,
                op[c].at \in {"locked", "update"},
                Fixing(c) => o \in {c, NoClient},
                op[c].call = "commit" => o # NoClient /\ (o = c <=> op[c].the = NoFrame),
                op[c].call # "roll_back"
         PROVE  CallsInv'
    <2>1. OpAt(c, "get_frame", o, op[c].the, op[c].frame) /\ UNCHANGED fixed /\ SameTran
      BY <1>18, NeedFrameEff
    <2>2. CallShape(c)'
      BY <1>0, <1>18, <2>1, MoveShape DEF CallShape, Loads, Getting, Fixing
    <2> QED BY <1>5, <2>1, <2>2
  <1>19. ASSUME fix_get_frame(c) PROVE CallsInv'
    <2>1. op[c].at = "locked" /\ Fixing(c) /\ (NeedFrame(c, c) \/ NeedFrame(c, NoClient))
      BY <1>19, FixGetFrameEff
    <2>2. op[c].page \in Dadrs /\ op[c].call # "commit" /\ op[c].call # "roll_back"
      BY <2>1, PageIs DEF Fixing
    <2> QED BY <1>18, <2>1, <2>2
  <1>20. ASSUME read_block(c) PROVE CallsInv'
    <2>1. /\ OpIdle(c) /\ UNCHANGED <<changed, failed>> /\ \A e \in Clients \ {c} : fixed'[e] = fixed[e]
          /\ log[c] \subseteq log'[c] /\ \A e \in Clients \ {c} : log'[e] = log[e]
      BY <1>20, ReadBlockEff
    <2> QED BY <1>0, <1>15, <2>1 DEF OthersStay, OpIdle, OpIs, TranShape
  <1>21. ASSUME read_block_fails(c) PROVE CallsInv'
    <2>1. op[c].at = "reading" /\ OpAt(c, "error", op[c].owner, op[c].the, NoFrame)
          /\ UNCHANGED fixed /\ SameTran
      BY <1>21, ReadBlockFailsEff
    <2>2. CallShape(c)'
      BY <1>0, <2>1, MoveShape DEF CallShape, Loads, Getting, Fixing
    <2> QED BY <1>5, <2>1, <2>2
  <1>22. ASSUME load_block(c) PROVE CallsInv'
    <2>1. OpIdle(c) /\ SameTran /\ \A e \in Clients \ {c} : fixed'[e] = fixed[e]
      BY <1>22, LoadBlockEff
    <2> QED BY <1>0, <1>15, <2>1 DEF OthersStay, OpIdle, OpIs, SameTran, TranShape
  <1>23. ASSUME fix_err(c) PROVE CallsInv'
    <2>1. OpIdle(c) /\ UNCHANGED <<log, changed, fixed>> /\ \A e \in Clients \ {c} : failed'[e] = failed[e]
      BY <1>23, FixErrEff
    <2> QED BY <1>0, <1>15, <2>1 DEF OthersStay, OpIdle, OpIs, TranShape
  <1>24. ASSUME NEW f \in Frames, unfix_page(c, f) PROVE CallsInv'
    <2>1. /\ op[c].at = "run" /\ UNCHANGED op /\ SameTran /\ \A e \in Clients \ {c} : fixed'[e] = fixed[e]
      BY <1>24, UnfixPageEff
    <2>2. CallShape(c)' /\ TranShape(c)'
      BY <1>0, <2>1 DEF CallShape, TranShape, Fixing, SameTran
    <2> QED BY <1>0, <2>1, <2>2, CallsStep DEF OthersStay, SameTran
  <1>25. ASSUME NEW f \in Frames, rec_changed(c, f) PROVE CallsInv'
    <2>1. /\ op[c].at = "run" /\ UNCHANGED <<op, fixed, failed>>
          /\ \E p : log'[c] = log[c] \cup {p} /\ changed'[c] = changed[c] \cup {p}
          /\ \A e \in Clients \ {c} : log'[e] = log[e] /\ changed'[e] = changed[e]
      BY <1>25, RecChangedEff
    <2>2. CallShape(c)' /\ TranShape(c)'
      BY <1>0, <2>1 DEF CallShape, TranShape, Fixing
    <2> QED BY <1>0, <2>1, <2>2, CallsStep DEF OthersStay
  <1>26. ASSUME commit(c) PROVE CallsInv'
    <2>1. /\ ~failed[c] /\ fixed[c] = {} /\ SameData
          /\ OpIs(c, "commit", "next", NoDadr, NoClient, NoFrame, NoFrame, log[c])
      BY <1>26, CommitEff
    <2>3. NoDadr \notin log[c]
      BY NoDadrAssumption DEF FrameInv, OtherInv
    <2>2. CallShape(c)' /\ TranShape(c)'
      BY <1>0, <2>1, <2>3 DEF OpIs, CallShape, TranShape, Fixing, SameData, SameTran, Loads, Getting
    <2> QED BY <1>0, <2>1, <2>2, CallsStep DEF OthersStay, SameData, SameTran, OpIs
  <1>27. ASSUME roll_back(c) PROVE CallsInv'
    <2>1. SameData /\ OpIs(c, "roll_back", "next", NoDadr, NoClient, NoFrame, NoFrame, log[c])
      BY <1>27, RollBackEff
    <2>2. CallShape(c)' /\ TranShape(c)'
      BY <1>0, <2>1 DEF OpIs, CallShape, TranShape, Fixing, SameData, SameTran, Loads, Getting
    <2> QED BY <1>0, <2>1, <2>2, CallsStep DEF OthersStay, SameData, SameTran, OpIs
  <1>28. ASSUME OpNext(c), op[c].call = "commit", UNCHANGED fixed, SameTran PROVE CallsInv'
    <2>1. CallShape(c)' /\ TranShape(c)'
      BY <1>0, <1>28, NextShape DEF SameTran
    <2> QED BY <1>0, <1>28, <2>1, CallsStep DEF OthersStay, SameTran, OpNext, OpIs
  <1>29. ASSUME wr_nothing(c) PROVE CallsInv'
    BY <1>28, <1>29, WrNothingEff
  <1>30. ASSUME op[c].call = "commit", op[c].at \in {"locked", "loading", "writing"},
                NEW at \in {"writing", "update"}, NEW t, t # NoFrame,
                OpAt(c, at, NoClient, t, NoFrame), UNCHANGED fixed, SameTran
         PROVE  CallsInv'
    <2>1. CallShape(c)'
      BY <1>0, <1>30, MoveShape DEF Getting, Fixing
    <2> QED BY <1>5, <1>30, <2>1
  <1>31. ASSUME wr_changes(c) PROVE CallsInv'
    <2>1. /\ op[c].at = "locked" /\ op[c].call = "commit"
          /\ \/ \E f \in CoreOf(c, op[c].page) : /\ OpAt(c, "writing", NoClient, f, NoFrame)
                                                 /\ UNCHANGED fixed /\ SameTran
             \/ NeedFrame(c, c)
      BY <1>31, WrChangesEff
    <2>2. op[c].page \in Dadrs /\ op[c].the = NoFrame /\ ~Fixing(c)
      BY <1>0, <2>1, PageIs DEF CallShape, Loads, Fixing
    <2>3. \A f \in CoreOf(c, op[c].page) : f # NoFrame
      BY DEF CoreOf
    <2> QED BY <1>18, <1>30, <2>1, <2>2, <2>3
  <1>32. ASSUME load_changes(c) PROVE CallsInv'
    <2>1. /\ op[c].at = "loading" /\ op[c].call = "commit" /\ UNCHANGED fixed /\ SameTran
          /\ OpAt(c, "writing", NoClient, op[c].frame, NoFrame)
      BY <1>32, LoadChangesEff
    <2>2. op[c].frame # NoFrame
      BY <1>0, <2>1 DEF CallShape, Getting
    <2> QED BY <1>30, <2>1, <2>2
  <1>33. ASSUME write_block(c) PROVE CallsInv'
    <2>1. /\ op[c].at = "writing" /\ UNCHANGED fixed /\ SameTran
          /\ OpAt(c, "update", op[c].owner, op[c].the, op[c].frame)
      BY <1>33, WriteBlockEff
    <2>2. op[c].the # NoFrame /\ op[c].owner = NoClient /\ op[c].frame = NoFrame /\ op[c].call = "commit"
      BY <1>0, <2>1 DEF CallShape, Getting, Loads
    <2> QED BY <1>30, <2>1, <2>2
  <1>34. ASSUME NEW o \in Clients, update_swapped(c, o) PROVE CallsInv'
    <2>1. op[c].at = "update" /\ o # c /\ NeedFrame(c, o)
      BY <1>34, UpdateSwappedEff
    <2>2. op[c].the # NoFrame /\ op[c].call = "commit" /\ op[c].page \in Dadrs
      BY <1>0, <2>1, PageIs DEF CallShape
    <2> QED BY <1>18, <2>1, <2>2 DEF Fixing
  <1>35. ASSUME load_other(c) PROVE CallsInv'
    <2>1. /\ op[c].at = "loading" /\ op[c].call = "commit" /\ UNCHANGED fixed /\ SameTran
          /\ OpAt(c, "update", NoClient, op[c].the, NoFrame) /\ op[c].owner # c
      BY <1>35, LoadOtherEff
    <2>2. op[c].the # NoFrame
      BY <1>0, <2>1 DEF CallShape, Loads
    <2> QED BY <1>30, <2>1, <2>2
  <1>36. ASSUME wr_end(c) PROVE CallsInv'
    <2>1. op[c].at = "update" /\ OpNext(c) /\ UNCHANGED fixed /\ SameTran
      BY <1>36, WrEndEff
    <2>2. op[c].call = "commit"
      BY <1>0, <2>1 DEF CallShape
    <2> QED BY <1>28, <2>1, <2>2
  <1>37. ASSUME end_of_commit(c) PROVE CallsInv'
    BY <1>15, <1>37, EndOfCommitEff DEF OthersStay, OpIdle, OpIs
  <1>38. ASSUME remove_changes(c) PROVE CallsInv'
    <2>1. /\ op[c].call = "roll_back" /\ OpNext(c) /\ changed'[c] = changed[c] \ {op[c].page}
          /\ \A e \in Clients \ {c} : changed'[e] = changed[e]
          /\ UNCHANGED <<log, fixed, failed>>
      BY <1>0, <1>38, RemoveChangesEff
    <2>2. CallShape(c)' /\ TranShape(c)'
      BY <1>0, <2>1, NextShape
    <2> QED BY <1>0, <2>1, <2>2, CallsStep DEF OthersStay, OpNext, OpIs
  <1>39. ASSUME end_of_roll_back(c) PROVE CallsInv'
    <2>1. /\ op[c].at = "next" /\ op[c].call = "roll_back" /\ op[c].todo = {} /\ OpIdle(c)
          /\ \A e \in Clients \ {c} : log'[e] = log[e] /\ failed'[e] = failed[e]
          /\ UNCHANGED <<changed, fixed>>
      BY <1>39, EndOfRollBackEff
    <2>2. changed[c] = {}
      <3>1. changed[c] \subseteq {NoDadr} /\ changed[c] \subseteq Dadrs
        BY <1>0, <2>1 DEF CallShape, TranShape, FrameInv, OtherInv
      <3> QED BY <3>1, NoDadrAssumption
    <2> QED BY <1>15, <2>1, <2>2 DEF OthersStay, OpIdle, OpIs
  <1> QED
    BY <1>1, <1>2, <1>4, <1>6, <1>8, <1>9, <1>11, <1>12, <1>13, <1>14, <1>16, <1>17, <1>19, <1>20,
       <1>21, <1>22, <1>23, <1>24, <1>25, <1>26, <1>27, <1>29, <1>31, <1>32, <1>33, <1>34, <1>35,
       <1>36, <1>37, <1>38, <1>39 DEF CacheStep

-----------------------------------------------------------------------------
\* The block locks of calls.

\* The locks of other clients stay.
LocksStay(c) ==
    \A e \in Clients \ {c} :
        /\ outer'[e] = outer[e] /\ inner'[e] = inner[e]
        /\ pc'[e] = pc[e] /\ locking_dadr'[e] = locking_dadr[e]
        /\ outer[e] # NoSlot => dadrs'[outer[e]] = dadrs[outer[e]]
        /\ inner[e] # NoSlot => dadrs'[inner[e]] = dadrs[inner[e]]

\* The pages being swapped by other clients stay in their frames.
VictimsStay(c) ==
    \A e \in Clients \ {c} :
        /\ op'[e] = op[e]
        /\ op[e].at \in {"victim", "saving"} =>
              /\ fcbs'[op[e].frame].blockdadr = fcbs[op[e].frame].blockdadr
              /\ fcbs'[op[e].frame].owner = fcbs[op[e].frame].owner

\* The block locks of the others stay as they are.
LEMMA LockingStep ==
  ASSUME LockingInv, NEW c \in Clients, LocksStay(c), VictimsStay(c), Locking(c)'
  PROVE  LockingInv'
  <1> SUFFICES ASSUME NEW e \in Clients, e # c PROVE Locking(e)'
    BY DEF LockingInv
  <1>1. Locking(e)
    BY DEF LockingInv
  <1> QED BY <1>1 DEF LocksStay, VictimsStay, Locking, HoldsPage, VictimPage

\* The types of the variables of the block locks.
LEMMA LockTypes ==
  ASSUME Inv
  PROVE  /\ dadrs \in [Slots -> Dadrs \cup {NoDadr}]
         /\ locking_dadr \in [Clients -> Dadrs \cup {NoDadr}]
         /\ pc \in [Clients -> {"run", "semaphore", "sleep", "retry"}]
         /\ outer \in [Clients -> Slots \cup {NoSlot}]
         /\ inner \in [Clients -> Slots \cup {NoSlot}]
         /\ NoSlot \notin Slots /\ last_used \in Int
  BY MaxDadrLocksAssumption DEF Inv, TypeOK, NoSlot, Slots

\* A pass of wait_lock: the block is locked in a cell that was free, or c waits.
LEMMA AttemptEff ==
  ASSUME Inv, NEW c \in Clients, NEW d \in Dadrs, Attempt(c, d), inner[c] = NoSlot
  PROVE  /\ LocksStay(c)
         /\ \/ /\ pc'[c] = "run" /\ outer[c] = NoSlot /\ outer'[c] # NoSlot
               /\ dadrs'[outer'[c]] = d /\ inner'[c] = NoSlot
            \/ /\ pc'[c] = "run" /\ outer[c] # NoSlot /\ outer'[c] = outer[c] /\ inner'[c] # NoSlot
               /\ dadrs'[inner'[c]] = d /\ dadrs'[outer[c]] = dadrs[outer[c]]
            \/ /\ pc'[c] # "run" /\ locking_dadr'[c] = d /\ UNCHANGED <<dadrs, outer, inner>>
  <1>0. /\ dadrs \in [Slots -> Dadrs \cup {NoDadr}]
        /\ locking_dadr \in [Clients -> Dadrs \cup {NoDadr}]
        /\ pc \in [Clients -> {"run", "semaphore", "sleep", "retry"}]
        /\ outer \in [Clients -> Slots \cup {NoSlot}]
        /\ inner \in [Clients -> Slots \cup {NoSlot}]
        /\ NoSlot \notin Slots /\ last_used \in Int
    BY LockTypes
  <1>1. ASSUME EnterLocked(c, d)
        PROVE  /\ LocksStay(c)
               /\ \/ /\ pc'[c] = "run" /\ outer[c] = NoSlot /\ outer'[c] # NoSlot
                     /\ dadrs'[outer'[c]] = d /\ inner'[c] = NoSlot
                  \/ /\ pc'[c] = "run" /\ outer[c] # NoSlot /\ outer'[c] = outer[c]
                     /\ inner'[c] # NoSlot
                     /\ dadrs'[inner'[c]] = d /\ dadrs'[outer[c]] = dadrs[outer[c]]
    <2>1. PICK fr \in Slots :
                /\ CellFor(fr)
                /\ dadrs' = [dadrs EXCEPT ![fr] = d]
                /\ IF outer[c] = NoSlot
                   THEN outer' = [outer EXCEPT ![c] = fr] /\ UNCHANGED inner
                   ELSE inner' = [inner EXCEPT ![c] = fr] /\ UNCHANGED outer
                /\ pc' = [pc EXCEPT ![c] = "run"]
                /\ locking_dadr' = [locking_dadr EXCEPT ![c] = NoDadr]
      BY <1>1 DEF EnterLocked
    <2>2. dadrs[fr] = NoDadr
      BY <1>0, <2>1 DEF CellFor, FreeCells, Inv, UsedCellsScanned
    <2>3. \A e \in Clients : /\ outer[e] # NoSlot => outer[e] # fr /\ outer[e] \in Slots
                             /\ inner[e] # NoSlot => inner[e] # fr /\ inner[e] \in Slots
      BY <1>0, <2>2 DEF Inv, HeldCellsUsed
    <2>4. LocksStay(c)
      BY <1>0, <2>1, <2>3 DEF LocksStay
    <2> QED BY <1>0, <2>1, <2>3, <2>4
  <1>2. ASSUME WaitForRelease(c, d) \/ SleepForCell(c, d)
        PROVE  LocksStay(c) /\ pc'[c] # "run" /\ locking_dadr'[c] = d
               /\ UNCHANGED <<dadrs, outer, inner>>
    BY <1>0, <1>2 DEF WaitForRelease, SleepForCell, LocksStay
  <1> QED BY <1>1, <1>2 DEF Attempt

\* unlock and unlock_victim release the lock of the client.
LEMMA ReleaseEff ==
  ASSUME Inv, NEW c \in Clients
  PROVE  /\ unlock(c) => /\ LocksStay(c) /\ outer'[c] = NoSlot /\ inner'[c] = NoSlot
                         /\ pc'[c] = "run"
         /\ unlock_victim(c) => /\ LocksStay(c) /\ outer'[c] = outer[c] /\ inner'[c] = NoSlot
                                /\ pc'[c] = "run"
                                /\ outer[c] # NoSlot => dadrs'[outer[c]] = dadrs[outer[c]]
  <1>0. /\ dadrs \in [Slots -> Dadrs \cup {NoDadr}]
        /\ locking_dadr \in [Clients -> Dadrs \cup {NoDadr}]
        /\ pc \in [Clients -> {"run", "semaphore", "sleep", "retry"}]
        /\ outer \in [Clients -> Slots \cup {NoSlot}]
        /\ inner \in [Clients -> Slots \cup {NoSlot}]
        /\ NoSlot \notin Slots /\ last_used \in Int
    BY LockTypes
  <1>1. HeldCellsOwn
    BY DEF Inv
  <1>2. ASSUME unlock(c)
        PROVE  LocksStay(c) /\ outer'[c] = NoSlot /\ inner'[c] = NoSlot /\ pc'[c] = "run"
    BY <1>0, <1>1, <1>2 DEF unlock, Release, LocksStay, HeldCellsOwn
  <1>3. ASSUME unlock_victim(c)
        PROVE  LocksStay(c) /\ outer'[c] = outer[c] /\ inner'[c] = NoSlot /\ pc'[c] = "run"
               /\ (outer[c] # NoSlot => dadrs'[outer[c]] = dadrs[outer[c]])
    BY <1>0, <1>1, <1>3 DEF unlock_victim, Release, LocksStay, HeldCellsOwn
  <1> QED BY <1>2, <1>3

\* A frame nobody uses has no fixes.
LEMMA NoUsers ==
  ASSUME UseInv, NEW f \in Frames
  PROVE  fcbs[f].fixnum = 0 <=> \A c \in Clients : ~Uses(c, f)
  <1>1. IsFiniteSet(Users(f)) /\ fcbs[f].fixnum = Cardinality(Users(f))
    BY DEF UseInv, Counted
  <1>2. Cardinality(Users(f)) = 0 <=> Users(f) = {}
    BY <1>1, FS_EmptySet
  <1> QED BY <1>1, <1>2 DEF Users

\* A frame in a chain, without fixes or used by c is not one another client
\* gets from get_frame.
LEMMA NotGot ==
  ASSUME UseInv, NEW c \in Clients, NEW f \in Frames,
         fcbs[f].chained \/ Uses(c, f) \/ fcbs[f].fixnum = 0,
         NEW e \in Clients \ {c}
  PROVE  op[e].frame # f
  <1>1. GotUse(e, f)
    BY DEF UseInv
  <1>2. fcbs[f].fixnum = 0 => ~Uses(e, f)
    BY NoUsers
  <1> QED BY <1>1, <1>2 DEF GotUse, Uses

\* A step on a frame that no other call gets leaves the victims of the others.
LEMMA OneFrameStays ==
  ASSUME FrameInv, UseInv, NEW c \in Clients, NEW f \in Frames, OneFrame(f),
         fcbs[f].chained \/ Uses(c, f) \/ fcbs[f].fixnum = 0,
         \A e \in Clients \ {c} : op'[e] = op[e]
  PROVE  VictimsStay(c)
  <1> SUFFICES ASSUME NEW e \in Clients \ {c}, op[e].at \in {"victim", "saving"}
               PROVE  fcbs'[op[e].frame] = fcbs[op[e].frame]
    BY DEF VictimsStay
  <1>1. op[e].frame \in Frames
    BY FrameIs DEF Getting
  <1>2. op[e].frame # f
    BY NotGot
  <1> QED BY <1>1, <1>2 DEF OneFrame

-----------------------------------------------------------------------------
\* Every step keeps the block locks of the calls.
LEMMA LockingKept ==
  ASSUME FrameInv, Inv, Good, NEW c \in Clients, CacheStep(c)
  PROVE  LockingInv'
  <1>0. CallTypes /\ CallShape(c) /\ UseInv /\ SharedInv /\ LockingInv /\ Locking(c)
    BY Typed DEF Good, CallsInv, LockingInv
  <1> USE NoFrameAssumption, NoClientAssumption
  <1>a. ASSUME UNCHANGED vars PROVE LocksStay(c)
    BY <1>a DEF vars, LocksStay
  <1>b. ASSUME UNCHANGED fcbs, \A e \in Clients \ {c} : op'[e] = op[e] PROVE VictimsStay(c)
    BY <1>b DEF VictimsStay
  <1>1. ASSUME NEW p \in Dadrs, NEW call, NEW todo, OpLock(c, call, p, todo), SameData, wait_lock(c, p)
        PROVE LockingInv'
    <2>1. /\ LocksStay(c)
          /\ \/ /\ pc'[c] = "run" /\ outer'[c] # NoSlot /\ dadrs'[outer'[c]] = p /\ inner'[c] = NoSlot
             \/ /\ pc'[c] # "run" /\ locking_dadr'[c] = p /\ outer'[c] = NoSlot /\ inner'[c] = NoSlot
      BY <1>1, AttemptEff DEF wait_lock
    <2>2. Locking(c)'
      BY <1>1, <2>1 DEF OpLock, OpIs, Locking, HoldsPage
    <2>3. VictimsStay(c)
      BY <1>1, <1>b DEF OpLock, OpIs, SameData
    <2> QED BY <1>0, <2>1, <2>2, <2>3, LockingStep
  <1>2. ASSUME NEW p \in Dadrs, next_page(c, p) PROVE LockingInv'
    BY <1>0, <1>1, <1>2, NextPageEff
  <1>3. ASSUME NEW p \in Dadrs, NEW call \in {"fix_any_page", "fix_priv_page"}, fix_page(c, p, call)
        PROVE LockingInv'
    BY <1>0, <1>1, <1>3, FixPageEff
  <1>4. ASSUME wait_for_block(c) PROVE LockingInv'
    <2>1. UNCHANGED <<op, fcbs>> /\ (sem_wait(c) \/ SleepEnd(c))
      BY <1>4, WaitForBlockEff DEF SameData
    <2>2. /\ pc[c] \in {"semaphore", "sleep"} /\ pc'[c] = "retry" /\ LocksStay(c)
          /\ UNCHANGED <<dadrs, locking_dadr, outer, inner>>
      BY <2>1, LockTypes DEF sem_wait, SleepEnd, LocksStay
    <2>3. Locking(c)'
      BY <1>0, <2>1, <2>2 DEF Locking, HoldsPage, VictimPage
    <2> QED BY <1>0, <1>b, <2>1, <2>2, <2>3, LockingStep
  <1>5. ASSUME retry_page(c) PROVE LockingInv'
    <2>1. /\ op[c].at = "locking" /\ lock_retry(c) /\ SameData
          /\ \/ pc'[c] = "run" /\ OpAt(c, "locked", op[c].owner, op[c].the, op[c].frame)
             \/ pc'[c] # "run" /\ UNCHANGED op
      BY <1>0, <1>5, RetryPageEff
    <2>2. op[c].page \in Dadrs /\ locking_dadr[c] = op[c].page /\ outer[c] = NoSlot /\ inner[c] = NoSlot
      BY <1>0, <2>1, PageIs DEF Locking, HoldsPage
    <2>3. /\ LocksStay(c)
          /\ \/ /\ pc'[c] = "run" /\ outer'[c] # NoSlot /\ dadrs'[outer'[c]] = op[c].page
                /\ inner'[c] = NoSlot
             \/ /\ pc'[c] # "run" /\ locking_dadr'[c] = op[c].page
                /\ outer'[c] = NoSlot /\ inner'[c] = NoSlot
      BY <2>1, <2>2, AttemptEff DEF lock_retry
    <2>4. Locking(c)'
      BY <2>1, <2>2, <2>3 DEF OpAt, OpIs, Locking, HoldsPage
    <2>5. VictimsStay(c)
      BY <1>b, <2>1 DEF OpAt, OpIs, SameData
    <2> QED BY <1>0, <2>3, <2>4, <2>5, LockingStep
  \* The lock of a victim: it is got, or c waits for it.
  <1>6. ASSUME NEW f \in Frames, fcbs[f].blockdadr \in Dadrs, Attempt(c, fcbs[f].blockdadr),
               HoldsPage(c), inner[c] = NoSlot, VictimsStay(c),
               fcbs'[f].blockdadr = fcbs[f].blockdadr, op'[c].page = op[c].page, op'[c].frame = f,
               \/ pc'[c] = "run" /\ op'[c].at = "saving"
               \/ pc'[c] # "run" /\ op'[c].at = "victim"
        PROVE  LockingInv'
    <2>1. outer[c] # NoSlot /\ dadrs[outer[c]] = op[c].page
      BY <1>0, <1>6 DEF Locking
    <2>2. /\ LocksStay(c) /\ outer'[c] = outer[c] /\ dadrs'[outer[c]] = dadrs[outer[c]]
          /\ \/ /\ pc'[c] = "run" /\ inner'[c] # NoSlot
                /\ dadrs'[inner'[c]] = fcbs[f].blockdadr
             \/ /\ pc'[c] # "run" /\ locking_dadr'[c] = fcbs[f].blockdadr /\ inner'[c] = NoSlot
      BY <1>6, <2>1, AttemptEff
    <2>3. Locking(c)'
      BY <1>6, <2>1, <2>2 DEF Locking, HoldsPage, VictimPage
    <2> QED BY <1>0, <1>6, <2>2, <2>3, LockingStep
  <1>7. ASSUME retry_victim(c) PROVE LockingInv'
    <2>1. /\ op[c].at = "victim" /\ lock_retry(c) /\ UNCHANGED fcbs
          /\ \/ pc'[c] = "run" /\ OpAt(c, "saving", op[c].owner, op[c].the, op[c].frame)
             \/ pc'[c] # "run" /\ UNCHANGED op
      BY <1>7, RetryVictimEff
    <2>2. op[c].frame \in Frames /\ fcbs[op[c].frame].blockdadr \in Dadrs
      BY <1>0, <2>1, FrameIs, VictimIs DEF Getting
    <2>3. Attempt(c, fcbs[op[c].frame].blockdadr) /\ HoldsPage(c) /\ inner[c] = NoSlot
      BY <1>0, <2>1 DEF Locking, lock_retry, HoldsPage, VictimPage
    <2>4. VictimsStay(c)
      BY <1>b, <2>1 DEF OpAt, OpIs
    <2>5. /\ op'[c].page = op[c].page /\ op'[c].frame = op[c].frame
          /\ \/ pc'[c] = "run" /\ op'[c].at = "saving"
             \/ pc'[c] # "run" /\ op'[c].at = "victim"
      BY <2>1 DEF OpAt, OpIs
    <2> QED BY <1>6, <2>1, <2>2, <2>3, <2>4, <2>5
  <1>8. ASSUME NEW f \in Frames, get_frame_swapping(c, f) PROVE LockingInv'
    <2>1. /\ op[c].at = "get_frame" /\ f \in Victims /\ MustSwap(f)
          /\ wait_lock_victim(c, fcbs[f].blockdadr)
          /\ fcbs'[f].blockdadr = fcbs[f].blockdadr /\ OneFrame(f)
          /\ \/ pc'[c] = "run" /\ OpAt(c, "saving", op[c].owner, op[c].the, f)
             \/ pc'[c] # "run" /\ OpAt(c, "victim", op[c].owner, op[c].the, f)
      BY <1>8, GetFrameSwappingEff DEF FcbIs
    <2>2. fcbs[f].blockdadr \in Dadrs
      BY <2>1 DEF MustSwap, FrameInv, FcbInv, PrivateHasPage
    <2>3. Attempt(c, fcbs[f].blockdadr) /\ HoldsPage(c) /\ inner[c] = NoSlot
      BY <2>1 DEF wait_lock_victim, HoldsPage
    <2>4. VictimsStay(c)
      BY <1>0, <2>1, OneFrameStays DEF Victims, OpAt, OpIs
    <2>5. /\ op'[c].page = op[c].page /\ op'[c].frame = f
          /\ \/ pc'[c] = "run" /\ op'[c].at = "saving"
             \/ pc'[c] # "run" /\ op'[c].at = "victim"
      BY <2>1 DEF OpAt, OpIs
    <2> QED BY <1>6, <2>1, <2>2, <2>3, <2>4, <2>5
  \* Steps without locking, inside or outside of the page's lock.
  <1>9. ASSUME UNCHANGED vars, VictimsStay(c), op'[c].page = op[c].page,
               HoldsPage(c) <=> HoldsPage(c)', op[c].at \notin {"saving", "victim", "locking"},
               op'[c].at \notin {"saving", "victim", "locking"}
        PROVE  LockingInv'
    <2>1. Locking(c)'
      BY <1>0, <1>9 DEF Locking, vars
    <2> QED BY <1>0, <1>a, <1>9, <2>1, LockingStep
  <1>10. ASSUME UNCHANGED <<vars, op, fcbs>> PROVE LockingInv'
    BY <1>0, <1>10 DEF vars, LockingInv, Locking, HoldsPage, VictimPage
  <1>11. ASSUME NEW at, NEW o, NEW t, NEW f, OpAt(c, at, o, t, f), UNCHANGED vars,
                VictimsStay(c), HoldsPage(c), op[c].at \notin {"saving", "victim"},
                at \notin {"saving", "victim", "run", "next", "locking"}
         PROVE  LockingInv'
    <2>1. HoldsPage(c) <=> HoldsPage(c)'
      BY <1>11 DEF OpAt, OpIs, HoldsPage
    <2> QED BY <1>9, <1>11, <2>1 DEF OpAt, OpIs, HoldsPage
  <1>12. ASSUME NEW f \in Frames, OneFrame(f), fcbs[f].chained \/ Uses(c, f) \/ fcbs[f].fixnum = 0,
                \A e \in Clients \ {c} : op'[e] = op[e]
         PROVE  VictimsStay(c)
    BY <1>0, <1>12, OneFrameStays
  <1>13. ASSUME sleep_for_frame(c) PROVE LockingInv'
    BY <1>10, <1>13, SleepForFrameEff DEF SameData
  <1>14. ASSUME no_frame(c) PROVE LockingInv'
    <2>1. /\ op[c].at = "get_frame" /\ UNCHANGED fcbs /\ UNCHANGED vars
          /\ OpAt(c, "error", op[c].owner, op[c].the, op[c].frame)
      BY <1>0, <1>14, NoFrameEff DEF SameData
    <2>2. VictimsStay(c)
      BY <1>b, <2>1 DEF OpAt, OpIs
    <2> QED BY <1>11, <2>1, <2>2 DEF HoldsPage
  <1>15. ASSUME NEW f \in Frames, get_frame(c, f) PROVE LockingInv'
    <2>1. /\ op[c].at = "get_frame" /\ f \in Victims /\ GotFrame(c, f) /\ UNCHANGED vars
      BY <1>15, GetFrameEff
    <2>2. /\ \/ OpAt(c, "reading", op[c].owner, op[c].the, f)
             \/ OpAt(c, "loading", op[c].owner, op[c].the, f)
          /\ OneFrame(f)
      BY <1>0, <2>1, GotFrameEff DEF FcbIs
    <2>3. VictimsStay(c)
      BY <1>12, <2>1, <2>2 DEF Victims, OpAt, OpIs
    <2> QED BY <1>11, <2>1, <2>2, <2>3 DEF HoldsPage
  <1>16. ASSUME unlock_victim(c), op[c].at = "saving", VictimsStay(c), NEW at, NEW o, NEW t, NEW f,
                OpAt(c, at, o, t, f), at \notin {"saving", "victim", "run", "next", "locking"}
         PROVE  LockingInv'
    <2>1. /\ LocksStay(c) /\ outer'[c] = outer[c] /\ inner'[c] = NoSlot /\ pc'[c] = "run"
          /\ outer[c] # NoSlot => dadrs'[outer[c]] = dadrs[outer[c]]
      BY <1>16, ReleaseEff
    <2>2. outer[c] # NoSlot /\ dadrs[outer[c]] = op[c].page
      BY <1>0, <1>16 DEF Locking, HoldsPage
    <2>3. Locking(c)'
      BY <1>16, <2>1, <2>2 DEF Locking, HoldsPage, OpAt, OpIs
    <2> QED BY <1>0, <1>16, <2>1, <2>3, LockingStep
  <1>17. ASSUME save_block(c) PROVE LockingInv'
    <2>1. op[c].at = "saving" /\ unlock_victim(c) /\ GotFrame(c, op[c].frame)
      BY <1>0, <1>17, SaveBlockEff
    <2>2. op[c].frame \in Frames
      BY <2>1, FrameIs DEF Getting
    <2>3. /\ \/ OpAt(c, "reading", op[c].owner, op[c].the, op[c].frame)
             \/ OpAt(c, "loading", op[c].owner, op[c].the, op[c].frame)
          /\ OneFrame(op[c].frame)
      BY <1>0, <2>1, <2>2, GotFrameEff DEF FcbIs
    <2>4. VictimsStay(c)
      BY <1>12, <2>2, <2>3 DEF Uses, OpAt, OpIs
    <2> QED BY <1>16, <2>1, <2>3, <2>4
  <1>18. ASSUME save_block_fails(c) PROVE LockingInv'
    <2>1. /\ op[c].at = "saving" /\ unlock_victim(c) /\ OneFrame(op[c].frame)
          /\ OpAt(c, "error", op[c].owner, op[c].the, NoFrame)
      BY <1>0, <1>18, SaveBlockFailsEff DEF FcbIs
    <2>2. op[c].frame \in Frames
      BY <2>1, FrameIs DEF Getting
    <2>4. VictimsStay(c)
      BY <1>12, <2>1, <2>2 DEF Uses, OpAt, OpIs
    <2> QED BY <1>16, <2>1, <2>4
  \* The page is done.
  <1>19. ASSUME unlock(c), VictimsStay(c), op'[c].at \in {"run", "next"}
         PROVE  LockingInv'
    <2>1. LocksStay(c) /\ outer'[c] = NoSlot /\ inner'[c] = NoSlot /\ pc'[c] = "run"
      BY <1>19, ReleaseEff
    <2>2. Locking(c)'
      BY <1>19, <2>1 DEF Locking, HoldsPage
    <2> QED BY <1>0, <1>19, <2>1, <2>2, LockingStep
  <1>20. ASSUME NEW f \in Frames, fix_own(c, f) \/ fix_shared(c, f) PROVE LockingInv'
    <2>1. OpIdle(c) /\ unlock(c) /\ OneFrame(f) /\ fcbs[f].chained
      BY <1>20, FixOwnEff, FixSharedEff DEF FcbIs, CoreOf
    <2>2. VictimsStay(c)
      BY <1>12, <2>1 DEF OpIdle, OpIs
    <2> QED BY <1>19, <2>1, <2>2 DEF OpIdle, OpIs
  <1>21. ASSUME read_block(c) \/ load_block(c) PROVE LockingInv'
    <2>1. /\ OpIdle(c) /\ unlock(c) /\ OneFrame(op[c].frame) /\ op[c].at \in Getting
      BY <1>21, ReadBlockEff, LoadBlockEff DEF FcbIs, Getting
    <2>2. op[c].frame \in Frames
      BY <2>1, FrameIs
    <2>3. VictimsStay(c)
      BY <1>12, <2>1, <2>2 DEF Uses, OpIdle, OpIs
    <2> QED BY <1>19, <2>1, <2>3 DEF OpIdle, OpIs
  <1>22. ASSUME read_block_fails(c) PROVE LockingInv'
    <2>1. /\ op[c].at = "reading" /\ OpAt(c, "error", op[c].owner, op[c].the, NoFrame)
          /\ UNCHANGED vars /\ OneFrame(op[c].frame)
      BY <1>22, ReadBlockFailsEff DEF FcbIs
    <2>2. op[c].frame \in Frames
      BY <2>1, FrameIs DEF Getting
    <2>3. VictimsStay(c)
      BY <1>12, <2>1, <2>2 DEF Uses, OpAt, OpIs
    <2> QED BY <1>11, <2>1, <2>3 DEF HoldsPage
  <1>23. ASSUME fix_err(c) PROVE LockingInv'
    <2>1. OpIdle(c) /\ unlock(c) /\ UNCHANGED fcbs
      BY <1>23, FixErrEff
    <2> QED BY <1>b, <1>19, <2>1 DEF OpIdle, OpIs
  <1>24. ASSUME NEW o \in Clients \cup {NoClient}, NeedFrame(c, o), UNCHANGED fcbs,
                op[c].at \in {"locked", "update"}
         PROVE  LockingInv'
    <2>0. op[c].page \in Dadrs
      BY <1>24, PageIs
    <2>1. OpAt(c, "get_frame", o, op[c].the, op[c].frame) /\ UNCHANGED vars
      BY <1>24, <2>0, NeedFrameEff
    <2>2. VictimsStay(c)
      BY <1>b, <1>24, <2>1 DEF OpAt, OpIs
    <2> QED BY <1>11, <1>24, <2>1, <2>2 DEF HoldsPage
  <1>25. ASSUME fix_get_frame(c) PROVE LockingInv'
    BY <1>24, <1>25, FixGetFrameEff
  <1>26. ASSUME NEW o \in Clients, update_swapped(c, o) PROVE LockingInv'
    BY <1>24, <1>26, UpdateSwappedEff
  <1>27. ASSUME NEW f \in Frames, unfix_page(c, f) \/ rec_changed(c, f) PROVE LockingInv'
    <2>1. op[c].at = "run" /\ f \in fixed[c] /\ OneFrame(f) /\ UNCHANGED <<vars, op>>
      BY <1>27, UnfixPageEff, RecChangedEff DEF FcbIs
    <2>2. VictimsStay(c)
      BY <1>12, <2>1 DEF Uses
    <2> QED BY <1>9, <2>1, <2>2 DEF HoldsPage
  <1>28. ASSUME commit(c) \/ roll_back(c) PROVE LockingInv'
    <2>1. \E call : /\ op[c].at = "run" /\ UNCHANGED <<vars, fcbs>>
                    /\ OpIs(c, call, "next", NoDadr, NoClient, NoFrame, NoFrame, log[c])
      BY <1>28, CommitEff, RollBackEff DEF SameData
    <2>2. op[c].page = NoDadr
      BY <1>0, <2>1 DEF CallShape
    <2> QED BY <1>b, <1>9, <2>1, <2>2 DEF OpIs, HoldsPage
  <1>29. ASSUME wr_nothing(c) PROVE LockingInv'
    <2>1. /\ OpNext(c) /\ unlock(c)
          /\ \A g \in Frames : /\ fcbs'[g].blockdadr = fcbs[g].blockdadr
                               /\ ~fcbs[g].chained => fcbs'[g].owner = fcbs[g].owner
      BY <1>29, WrNothingEff DEF CoreOf
    <2>2. \A e \in Clients \ {c} : op[e].at \in {"victim", "saving"} =>
             op[e].frame \in Frames /\ ~fcbs[op[e].frame].chained
      BY <1>0, FrameIs DEF Getting, UseInv, GotUse
    <2>3. VictimsStay(c)
      BY <2>1, <2>2 DEF VictimsStay, OpNext, OpIs
    <2> QED BY <1>19, <2>1, <2>3 DEF OpNext, OpIs
  <1>30. ASSUME wr_changes(c) PROVE LockingInv'
    <2>1. /\ op[c].at = "locked"
          /\ \/ \E f \in CoreOf(c, op[c].page) :
                  OneFrame(f) /\ OpAt(c, "writing", NoClient, f, NoFrame) /\ UNCHANGED vars
             \/ NeedFrame(c, c) /\ UNCHANGED fcbs
      BY <1>30, WrChangesEff DEF FcbIs
    <2>2. ASSUME NEW f \in CoreOf(c, op[c].page), OneFrame(f), OpAt(c, "writing", NoClient, f, NoFrame),
                 UNCHANGED vars
          PROVE  LockingInv'
      <3>1. VictimsStay(c)
        BY <1>12, <2>2 DEF CoreOf, OpAt, OpIs
      <3> QED BY <1>11, <2>1, <2>2, <3>1 DEF HoldsPage
    <2> QED BY <1>24, <2>1, <2>2
  <1>31. ASSUME load_changes(c) \/ load_other(c) PROVE LockingInv'
    <2>1. /\ op[c].at = "loading" /\ OneFrame(op[c].frame) /\ UNCHANGED vars
          /\ \/ OpAt(c, "writing", NoClient, op[c].frame, NoFrame)
             \/ OpAt(c, "update", NoClient, op[c].the, NoFrame)
      BY <1>31, LoadChangesEff, LoadOtherEff DEF FcbIs
    <2>2. op[c].frame \in Frames
      BY <2>1, FrameIs DEF Getting
    <2>3. VictimsStay(c)
      BY <1>12, <2>1, <2>2 DEF Uses, OpAt, OpIs
    <2> QED BY <1>11, <2>1, <2>3 DEF HoldsPage
  <1>32. ASSUME write_block(c) PROVE LockingInv'
    <2>1. /\ op[c].at = "writing" /\ \A g \in Frames : UpdatedFcb(c, g)
          /\ OpAt(c, "update", op[c].owner, op[c].the, op[c].frame) /\ UNCHANGED vars
      BY <1>32, WriteBlockEff
    <2>2. VictimsStay(c)
      BY <2>1, FrameIs DEF VictimsStay, OpAt, OpIs, Getting, UpdatedFcb
    <2> QED BY <1>11, <2>1, <2>2 DEF HoldsPage
  <1>33. ASSUME wr_end(c) PROVE LockingInv'
    <2>1. OpNext(c) /\ unlock(c) /\ OneFrame(op[c].the) /\ op[c].the \in Frames
      BY <1>33, WrEndEff DEF FcbIs
    <2>2. VictimsStay(c)
      BY <1>12, <2>1 DEF Uses, OpNext, OpIs
    <2> QED BY <1>19, <2>1, <2>2 DEF OpNext, OpIs
  <1>34. ASSUME end_of_commit(c) \/ end_of_roll_back(c) PROVE LockingInv'
    <2>1. op[c].at = "next" /\ OpIdle(c) /\ UNCHANGED <<vars, fcbs>>
      BY <1>34, EndOfCommitEff, EndOfRollBackEff
    <2>2. op[c].page = NoDadr
      BY <1>0, <2>1 DEF CallShape
    <2> QED BY <1>b, <1>9, <2>1, <2>2 DEF OpIdle, OpIs, HoldsPage
  <1>35. ASSUME remove_changes(c) PROVE LockingInv'
    <2>1. /\ OpNext(c) /\ unlock(c)
          /\ UNCHANGED fcbs \/ \E f \in CoreOf(c, op[c].page) : OneFrame(f)
      BY <1>0, <1>35, RemoveChangesEff DEF FcbIs
    <2>2. VictimsStay(c)
      BY <1>b, <1>12, <2>1 DEF CoreOf, OpNext, OpIs
    <2> QED BY <1>19, <2>1, <2>2 DEF OpNext, OpIs
  <1> QED
    BY <1>2, <1>3, <1>4, <1>5, <1>7, <1>8, <1>13, <1>14, <1>15, <1>17, <1>18, <1>20, <1>21, <1>22,
       <1>23, <1>25, <1>26, <1>27, <1>28, <1>29, <1>30, <1>31, <1>32, <1>33, <1>34, <1>35 DEF CacheStep

-----------------------------------------------------------------------------
\* Frames and their users.

\* A step of c on frame f: c begins or ends to use it and fixnum is as it should
\* be, and what the others who use it rely on stays.
FrameStep(c, f) ==
    /\ \/ (Uses(c, f)' <=> Uses(c, f)) /\ fcbs'[f].fixnum = fcbs[f].fixnum
       \/ ~Uses(c, f) /\ Uses(c, f)' /\ fcbs'[f].fixnum = fcbs[f].fixnum + 1
       \/ Uses(c, f) /\ ~Uses(c, f)' /\ fcbs'[f].fixnum = Unfix(fcbs[f].fixnum)
    /\ \/ \A e \in Clients \ {c} : ~Uses(e, f)
       \/ /\ fcbs'[f].blockdadr = fcbs[f].blockdadr /\ fcbs'[f].owner = fcbs[f].owner
          /\ fcbs'[f].chained = fcbs[f].chained
          /\ fcbs[f].chained \/ fcbs'[f].dirty = fcbs[f].dirty
          /\ Uses(c, f)' => fcbs[f].chained \/ Uses(c, f)
    /\ op[c].frame = f /\ op'[c].frame # f => fcbs'[f].chained
    /\ fcbs[f].chained /\ ~fcbs'[f].chained => op'[c].frame = f
    /\ GotUse(c, f)' /\ FixedUse(c, f)' /\ TheUse(c, f)'

CallsStay(c) == \A e \in Clients \ {c} : op'[e] = op[e] /\ fixed'[e] = fixed[e]

\* Who uses a frame does not change.
LEMMA UsesStay ==
  ASSUME NEW c \in Clients, CallsStay(c), NEW e \in Clients \ {c}, NEW f
  PROVE  Uses(e, f)' <=> Uses(e, f)
  BY DEF CallsStay, Uses

\* A frame whose users and fixnum stay is still counted.
LEMMA CountedStep ==
  ASSUME UseInv, NEW c \in Clients, NEW f \in Frames, CallsStay(c), FrameStep(c, f)
  PROVE  Counted(f)'
  <1>0. IsFiniteSet(Users(f)) /\ fcbs[f].fixnum = Cardinality(Users(f))
    BY DEF UseInv, Counted
  <1>1. Cardinality(Users(f)) \in Nat
    BY <1>0, FS_CardinalityType
  <1>2. CASE (Uses(c, f)' <=> Uses(c, f)) /\ fcbs'[f].fixnum = fcbs[f].fixnum
    <2>1. Users(f)' = Users(f)
      BY <1>2, UsesStay DEF Users
    <2> QED BY <1>0, <1>2, <2>1 DEF Counted
  <1>3. CASE ~Uses(c, f) /\ Uses(c, f)' /\ fcbs'[f].fixnum = fcbs[f].fixnum + 1
    <2>1. Users(f)' = Users(f) \cup {c} /\ c \notin Users(f)
      BY <1>3, UsesStay DEF Users
    <2>2. IsFiniteSet(Users(f) \cup {c})
          /\ Cardinality(Users(f) \cup {c}) = Cardinality(Users(f)) + 1
      BY <1>0, <2>1, FS_AddElement
    <2> QED BY <1>0, <1>3, <2>1, <2>2 DEF Counted
  <1>4. CASE Uses(c, f) /\ ~Uses(c, f)' /\ fcbs'[f].fixnum = Unfix(fcbs[f].fixnum)
    <2>1. Users(f)' = Users(f) \ {c} /\ c \in Users(f)
      BY <1>4, UsesStay DEF Users
    <2>2. IsFiniteSet(Users(f) \ {c})
          /\ Cardinality(Users(f) \ {c}) = Cardinality(Users(f)) - 1
      BY <1>0, <2>1, FS_RemoveElement
    <2>3. Cardinality(Users(f) \ {c}) \in Nat
      BY <2>2, FS_CardinalityType
    <2>4. Unfix(fcbs[f].fixnum) = Cardinality(Users(f)) - 1
      BY <1>0, <1>1, <2>2, <2>3 DEF Unfix
    <2> QED BY <1>4, <2>1, <2>2, <2>4 DEF Counted
  <1> QED BY <1>2, <1>3, <1>4 DEF FrameStep

\* Every frame and client on its own.
LEMMA UseStep ==
  ASSUME UseInv, NEW c \in Clients, CallsStay(c), \A f \in Frames : FrameStep(c, f)
  PROVE  UseInv'
  <1> SUFFICES ASSUME NEW f \in Frames
               PROVE  /\ Counted(f)' /\ Chained(f)'
                      /\ \A e \in Clients : GotUse(e, f)' /\ FixedUse(e, f)' /\ TheUse(e, f)'
    BY DEF UseInv
  <1>1. FrameStep(c, f)
    OBVIOUS
  <1>2. Counted(f)'
    BY <1>1, CountedStep
  <1>3. Chained(f)'
    <2> SUFFICES ASSUME ~fcbs'[f].chained PROVE \E d \in Clients : op'[d].frame = f
      BY DEF Chained
    <2>1. CASE fcbs[f].chained
      BY <1>1, <2>1 DEF FrameStep
    <2>2. CASE ~fcbs[f].chained
      <3>1. PICK d \in Clients : op[d].frame = f
        BY <2>2 DEF UseInv, Chained
      <3> QED BY <1>1, <3>1 DEF FrameStep, CallsStay
    <2> QED BY <2>1, <2>2
  <1>4. ASSUME NEW e \in Clients, e # c
        PROVE  GotUse(e, f)' /\ FixedUse(e, f)' /\ TheUse(e, f)'
    <2>0. /\ op'[e] = op[e] /\ fixed'[e] = fixed[e] /\ (Uses(e, f)' <=> Uses(e, f))
          /\ GotUse(e, f) /\ FixedUse(e, f) /\ TheUse(e, f)
      BY <1>4, UsesStay DEF CallsStay, UseInv
    <2>1. CASE ~Uses(e, f)
      BY <2>0, <2>1 DEF Uses, GotUse, FixedUse, TheUse
    <2>2. CASE Uses(e, f)
      <3>1. /\ fcbs'[f].blockdadr = fcbs[f].blockdadr /\ fcbs'[f].owner = fcbs[f].owner
            /\ fcbs'[f].chained = fcbs[f].chained
            /\ fcbs[f].chained \/ fcbs'[f].dirty = fcbs[f].dirty
            /\ Uses(c, f)' => fcbs[f].chained \/ Uses(c, f)
        BY <1>1, <1>4, <2>2 DEF FrameStep
      <3>2. FixedUse(e, f)' /\ TheUse(e, f)'
        BY <2>0, <3>1 DEF FixedUse, TheUse, Fixing
      <3>3. GotUse(e, f)'
        <4> SUFFICES ASSUME op[e].frame = f PROVE GotUse(e, f)'
          BY <2>0 DEF GotUse
        <4>1. ~fcbs[f].chained /\ \A d \in Clients \ {e} : ~Uses(d, f)
          BY <2>0 DEF GotUse
        <4>2. ~Uses(c, f)'
          BY <1>4, <3>1, <4>1
        <4>3. \A d \in Clients \ {e} : ~Uses(d, f)'
          BY <4>1, <4>2, UsesStay
        <4> QED BY <2>0, <3>1, <4>1, <4>3 DEF GotUse
      <3> QED BY <3>2, <3>3
    <2> QED BY <2>1, <2>2
  <1>5. GotUse(c, f)' /\ FixedUse(c, f)' /\ TheUse(c, f)'
    BY <1>1 DEF FrameStep
  <1> QED BY <1>2, <1>3, <1>4, <1>5

\* A frame the step leaves alone.
LEMMA StillFrame ==
  ASSUME UseInv, NEW c \in Clients, NEW g \in Frames, CallsStay(c), fcbs'[g] = fcbs[g],
         g \in fixed'[c] <=> g \in fixed[c], op'[c].the = g <=> op[c].the = g,
         op'[c].frame = g <=> op[c].frame = g,
         op[c].frame = g => (op'[c].at \in {"victim", "saving"} <=> op[c].at \in {"victim", "saving"}),
         op[c].the = g => op'[c].page = op[c].page,
         Fixing(c)' /\ g \in fixed[c] => fcbs[g].blockdadr # op'[c].page
  PROVE  FrameStep(c, g)
  <1>0. GotUse(c, g) /\ FixedUse(c, g) /\ TheUse(c, g)
    BY DEF UseInv
  <1>1. Uses(c, g)' <=> Uses(c, g)
    BY DEF Uses
  <1>2. FixedUse(c, g)' /\ TheUse(c, g)'
    BY <1>0 DEF FixedUse, TheUse
  <1>3. GotUse(c, g)'
    BY <1>0, UsesStay DEF GotUse
  <1> QED BY <1>1, <1>2, <1>3 DEF FrameStep

\* A step on one frame.
LEMMA OneUse ==
  ASSUME UseInv, NEW c \in Clients, NEW f \in Frames, CallsStay(c), OneFrame(f), FrameStep(c, f),
         op[c].frame \in {f, NoFrame}, op'[c].frame \in {f, NoFrame},
         \A g \in Frames \ {f} : /\ g \in fixed'[c] <=> g \in fixed[c]
                                 /\ op'[c].the = g <=> op[c].the = g,
         op'[c].the # NoFrame => op'[c].page = op[c].page,
         Fixing(c)' => Fixing(c) /\ op'[c].page = op[c].page
  PROVE  UseInv'
  <1> SUFFICES ASSUME NEW g \in Frames, g # f PROVE FrameStep(c, g)
    BY UseStep
  <1>1. g # NoFrame /\ FixedUse(c, g)
    BY NoFrameAssumption DEF UseInv
  <1>2. fcbs'[g] = fcbs[g]
    BY DEF OneFrame
  <1>3. Fixing(c)' /\ g \in fixed[c] => fcbs[g].blockdadr # op'[c].page
    BY <1>1 DEF FixedUse
  <1> QED BY <1>1, <1>2, <1>3, StillFrame

\* A step that leaves the frames and their use alone.
LEMMA NoUse ==
  ASSUME UseInv, NEW c \in Clients, CallsStay(c), UNCHANGED <<fcbs, fixed>>,
         op'[c].the = op[c].the, op'[c].frame = op[c].frame,
         op[c].frame # NoFrame => (op'[c].at \in {"victim", "saving"} <=> op[c].at \in {"victim", "saving"}),
         op[c].the # NoFrame => op'[c].page = op[c].page,
         Fixing(c)' => \A g \in fixed[c] : fcbs[g].blockdadr # op'[c].page
  PROVE  UseInv'
  <1> SUFFICES ASSUME NEW g \in Frames PROVE FrameStep(c, g)
    BY UseStep
  <1> QED BY NoFrameAssumption, StillFrame

-----------------------------------------------------------------------------
\* The frame of get_frame is used by its call only, once.
LEMMA GotOnce ==
  ASSUME UseInv, NEW c \in Clients, NEW f \in Frames, op[c].frame = f
  PROVE  /\ fcbs[f].fixnum = 1 /\ ~fcbs[f].chained /\ Uses(c, f)
         /\ f \notin fixed[c] /\ op[c].the # f
         /\ \A e \in Clients \ {c} : ~Uses(e, f)
  <1>1. /\ ~fcbs[f].chained /\ f \notin fixed[c] /\ op[c].the # f
        /\ \A e \in Clients \ {c} : ~Uses(e, f)
    BY DEF UseInv, GotUse
  <1>2. Users(f) = {c}
    BY <1>1 DEF Users, Uses
  <1>3. fcbs[f].fixnum = 1
    BY <1>2, FS_Singleton DEF UseInv, Counted
  <1> QED BY <1>1, <1>3 DEF Uses

\* A frame that is used but not being got is in its chain.
LEMMA UsedChained ==
  ASSUME UseInv, NEW c \in Clients, NEW f \in Frames, Uses(c, f), op[c].frame # f
  PROVE  fcbs[f].chained
  BY DEF UseInv, Chained, GotUse

\* A private page in its chain is used by its owner only.
LEMMA OwnerUses ==
  ASSUME UseInv, NEW c \in Clients, NEW f \in Frames, fcbs[f].owner = c, fcbs[f].chained,
         NEW e \in Clients \ {c}
  PROVE  ~Uses(e, f)
  BY NoClientAssumption DEF UseInv, GotUse, FixedUse, TheUse, Uses

\* Every step keeps the numbers of fixes.
LEMMA UseKept ==
  ASSUME FrameInv, Good, NEW c \in Clients, CacheStep(c)
  PROVE  UseInv'
  <1>0. CallTypes /\ CallShape(c) /\ TranShape(c) /\ UseInv /\ SharedInv
    BY Typed DEF Good, CallsInv
  <1> USE NoFrameAssumption, NoClientAssumption, NoDadrAssumption
  <1>a. op[c].at \notin Getting => op[c].frame = NoFrame
    BY <1>0 DEF CallShape
  <1>b. op[c].at \in {"run", "next", "locked", "locking"} => op[c].frame = NoFrame /\ op[c].the = NoFrame
    BY <1>0 DEF CallShape, Getting, Loads
  <1>1. ASSUME NEW p \in Dadrs, next_page(c, p) PROVE UseInv'
    <2>1. op[c].at = "next" /\ OpLock(c, op[c].call, p, op[c].todo \ {p}) /\ SameData
      BY <1>0, <1>1, NextPageEff
    <2>2. op[c].call \in {"commit", "roll_back"}
      BY <1>0, <2>1 DEF CallShape
    <2>3. CallsStay(c) /\ op'[c].the = op[c].the /\ op'[c].frame = op[c].frame /\ ~Fixing(c)'
      BY <1>b, <2>1, <2>2 DEF OpLock, OpIs, SameData, CallsStay, Fixing
    <2> QED BY <1>0, <1>b, <2>1, <2>3, NoUse DEF SameData
  <1>2. ASSUME NEW p \in Dadrs, NEW call \in {"fix_any_page", "fix_priv_page"}, fix_page(c, p, call)
        PROVE UseInv'
    <2>1. /\ op[c].at = "run" /\ OpLock(c, call, p, {}) /\ SameData
          /\ \A f \in fixed[c] : fcbs[f].blockdadr # p
      BY <1>0, <1>2, FixPageEff
    <2>3. /\ CallsStay(c) /\ op'[c].the = op[c].the /\ op'[c].frame = op[c].frame
          /\ op'[c].page = p
      BY <1>b, <2>1 DEF OpLock, OpIs, SameData, CallsStay
    <2> QED BY <1>0, <1>b, <2>1, <2>3, NoUse DEF SameData
  <1>3. ASSUME UNCHANGED <<op, fcbs, fixed>> PROVE UseInv'
    BY <1>0, <1>3 DEF UseInv, Counted, Users, Uses, Chained, GotUse, FixedUse, TheUse, Fixing
  <1>4. ASSUME wait_for_block(c) \/ sleep_for_frame(c) PROVE UseInv'
    BY <1>3, <1>4, WaitForBlockEff, SleepForFrameEff DEF SameData
  \* The call goes on with the same frames.
  <1>5. ASSUME NEW at, NEW o, OpAt(c, at, o, op[c].the, op[c].frame), UNCHANGED <<fcbs, fixed>>,
               op[c].frame # NoFrame => (at \in {"victim", "saving"} <=> op[c].at \in {"victim", "saving"})
        PROVE  UseInv'
    <2>1. /\ CallsStay(c) /\ op'[c].the = op[c].the /\ op'[c].frame = op[c].frame
          /\ op'[c].page = op[c].page /\ op'[c].at = at /\ (Fixing(c)' <=> Fixing(c))
      BY <1>5 DEF OpAt, OpIs, CallsStay, Fixing
    <2>2. Fixing(c) => \A g \in fixed[c] : fcbs[g].blockdadr # op[c].page
      BY <1>0 DEF FrameInv, OtherInv, UseInv, FixedUse
    <2> QED BY <1>0, <1>5, <2>1, <2>2, NoUse
  <1>6. ASSUME retry_page(c) PROVE UseInv'
    <2>1. /\ op[c].at = "locking" /\ SameData
          /\ \/ OpAt(c, "locked", op[c].owner, op[c].the, op[c].frame)
             \/ UNCHANGED op
      BY <1>0, <1>6, RetryPageEff
    <2> QED BY <1>b, <1>3, <1>5, <2>1 DEF SameData
  <1>7. ASSUME no_frame(c) PROVE UseInv'
    <2>1. /\ op[c].at = "get_frame" /\ SameData
          /\ OpAt(c, "error", op[c].owner, op[c].the, op[c].frame)
      BY <1>0, <1>7, NoFrameEff
    <2> QED BY <1>a, <1>5, <2>1 DEF SameData, Getting
  <1>8. ASSUME retry_victim(c) PROVE UseInv'
    <2>1. /\ op[c].at = "victim" /\ UNCHANGED <<fcbs, fixed>>
          /\ \/ OpAt(c, "saving", op[c].owner, op[c].the, op[c].frame)
             \/ UNCHANGED op
      BY <1>8, RetryVictimEff
    <2> QED BY <1>3, <1>5, <2>1
  <1>9. ASSUME NEW o \in Clients \cup {NoClient}, NeedFrame(c, o), UNCHANGED fcbs,
                op[c].at \in {"locked", "update"}
         PROVE  UseInv'
    <2>0. op[c].page \in Dadrs
      BY <1>9, PageIs
    <2>1. OpAt(c, "get_frame", o, op[c].the, op[c].frame) /\ UNCHANGED fixed
      BY <1>9, <2>0, NeedFrameEff
    <2> QED BY <1>a, <1>5, <1>9, <2>1 DEF Getting
  <1>10. ASSUME fix_get_frame(c) PROVE UseInv'
    BY <1>9, <1>10, FixGetFrameEff
  <1>11. ASSUME NEW o \in Clients, update_swapped(c, o) PROVE UseInv'
    BY <1>9, <1>11, UpdateSwappedEff
  \* c gets the frame f, or has it from the page that was swapped.
  <1>12. ASSUME NEW f \in Frames, GotFrame(c, f), UNCHANGED fixed,
                \/ op[c].frame = NoFrame /\ fcbs[f].fixnum = 0
                \/ op[c].frame = f
         PROVE  UseInv'
    <2>1. /\ op'[c].at \in {"reading", "loading"} /\ op'[c].frame = f
          /\ op'[c].the = op[c].the /\ op'[c].page = op[c].page /\ op'[c].call = op[c].call
          /\ \A e \in Clients \ {c} : op'[e] = op[e]
          /\ OneFrame(f) /\ fcbs'[f].owner = NoClient /\ fcbs'[f].fixnum = 1 /\ ~fcbs'[f].chained
      BY <1>0, <1>12, GotFrameEff DEF FcbIs, OpAt, OpIs
    <2>2. CallsStay(c) /\ (Fixing(c)' <=> Fixing(c))
      BY <1>12, <2>1 DEF CallsStay, Fixing
    <2>3. f \notin fixed[c] /\ op[c].the # f /\ \A e \in Clients \ {c} : ~Uses(e, f)
      BY <1>0, <1>12, GotOnce, NoUsers DEF Uses
    <2>4. \/ (Uses(c, f)' <=> Uses(c, f)) /\ fcbs'[f].fixnum = fcbs[f].fixnum
          \/ ~Uses(c, f) /\ Uses(c, f)' /\ fcbs'[f].fixnum = fcbs[f].fixnum + 1
      BY <1>0, <1>12, <2>1, <2>3, GotOnce DEF Uses
    <2>5. GotUse(c, f)'
      BY <1>12, <2>1, <2>2, <2>3, UsesStay DEF GotUse
    <2>6. FixedUse(c, f)' /\ TheUse(c, f)'
      BY <1>12, <2>1, <2>3 DEF FixedUse, TheUse
    <2>7. FrameStep(c, f)
      BY <2>1, <2>3, <2>4, <2>5, <2>6 DEF FrameStep
    <2> QED BY <1>0, <1>12, <2>1, <2>2, <2>7, OneUse
  <1>13. ASSUME NEW f \in Frames, get_frame(c, f) PROVE UseInv'
    BY <1>a, <1>12, <1>13, GetFrameEff DEF Victims, Getting
  <1>14. ASSUME save_block(c) PROVE UseInv'
    <2>1. op[c].at = "saving" /\ GotFrame(c, op[c].frame) /\ UNCHANGED fixed
      BY <1>0, <1>14, SaveBlockEff
    <2>2. op[c].frame \in Frames
      BY <2>1, FrameIs DEF Getting
    <2> QED BY <1>12, <2>1, <2>2
  <1>15. ASSUME NEW f \in Frames, get_frame_swapping(c, f) PROVE UseInv'
    <2>1. /\ op[c].at = "get_frame" /\ f \in Victims /\ MustSwap(f) /\ UNCHANGED fixed
          /\ FcbIs(f, fcbs[f].blockdadr, fcbs[f].owner, fcbs[f].dirty, 1, FALSE, fcbs[f].data)
          /\ \/ OpAt(c, "saving", op[c].owner, op[c].the, f)
             \/ OpAt(c, "victim", op[c].owner, op[c].the, f)
      BY <1>15, GetFrameSwappingEff
    <2>2. /\ op'[c].at \in {"victim", "saving"} /\ op'[c].frame = f
          /\ op'[c].the = op[c].the /\ op'[c].page = op[c].page /\ op'[c].call = op[c].call
          /\ \A e \in Clients \ {c} : op'[e] = op[e]
          /\ OneFrame(f) /\ fcbs'[f].owner # NoClient /\ fcbs'[f].fixnum = 1 /\ ~fcbs'[f].chained
          /\ fcbs'[f].dirty /\ fcbs[f].fixnum = 0
      BY <2>1 DEF FcbIs, OpAt, OpIs, MustSwap, Victims
    <2>3. CallsStay(c) /\ (Fixing(c)' <=> Fixing(c)) /\ op[c].frame = NoFrame
      BY <1>a, <2>1, <2>2 DEF CallsStay, Fixing, Getting
    <2>4. f \notin fixed[c] /\ op[c].the # f /\ ~Uses(c, f) /\ \A e \in Clients \ {c} : ~Uses(e, f)
      BY <1>0, <2>2, NoUsers DEF Uses
    <2>5. GotUse(c, f)'
      BY <2>1, <2>2, <2>3, <2>4, UsesStay DEF GotUse
    <2>6. FixedUse(c, f)' /\ TheUse(c, f)' /\ Uses(c, f)'
      BY <2>1, <2>2, <2>4 DEF FixedUse, TheUse, Uses
    <2>8. ~Uses(c, f) /\ Uses(c, f)' /\ fcbs'[f].fixnum = fcbs[f].fixnum + 1
      BY <2>2, <2>4, <2>6
    <2>9. op[c].frame # f /\ op'[c].frame = f
      BY <2>2, <2>3
    <2>7. FrameStep(c, f)
      BY <2>4, <2>5, <2>6, <2>8, <2>9 DEF FrameStep
    <2> QED BY <1>0, <2>1, <2>2, <2>3, <2>7, OneUse
  \* The frame that c was getting is free.
  <1>16. ASSUME op[c].frame \in Frames, OneFrame(op[c].frame), fcbs'[op[c].frame].fixnum = 0,
                fcbs'[op[c].frame].chained, UNCHANGED fixed, NEW at, NEW o, OpAt(c, at, o, op[c].the, NoFrame)
         PROVE  UseInv'
    <2>0. PICK f \in Frames : f = op[c].frame
      BY <1>16
    <2>1. /\ op'[c].frame = NoFrame /\ op'[c].the = op[c].the /\ op'[c].page = op[c].page
          /\ CallsStay(c) /\ (Fixing(c)' <=> Fixing(c))
      BY <1>16 DEF OpAt, OpIs, CallsStay, Fixing
    <2>2. /\ fcbs[f].fixnum = 1 /\ Uses(c, f) /\ f \notin fixed[c] /\ op[c].the # f
          /\ \A e \in Clients \ {c} : ~Uses(e, f)
      BY <1>0, <2>0, GotOnce
    <2>3. ~Uses(c, f)' /\ GotUse(c, f)' /\ FixedUse(c, f)' /\ TheUse(c, f)'
      <3>1. f \notin fixed'[c] /\ op'[c].the # f /\ op'[c].frame # f
        BY <1>16, <2>1, <2>2
      <3> QED BY <3>1 DEF Uses, GotUse, FixedUse, TheUse
    <2>4. FrameStep(c, f)
      BY <1>16, <2>0, <2>2, <2>3 DEF FrameStep, Unfix
    <2> QED BY <1>0, <1>16, <2>0, <2>1, <2>4, OneUse
  <1>17. ASSUME save_block_fails(c) PROVE UseInv'
    <2>1. /\ op[c].at = "saving" /\ fcbs'[op[c].frame].fixnum = 0 /\ fcbs'[op[c].frame].chained
          /\ OpAt(c, "error", op[c].owner, op[c].the, NoFrame) /\ UNCHANGED fixed
          /\ OneFrame(op[c].frame)
      BY <1>0, <1>17, SaveBlockFailsEff DEF FcbIs
    <2>2. op[c].frame \in Frames
      BY <2>1, FrameIs DEF Getting
    <2> QED BY <1>16, <2>1, <2>2
  <1>18. ASSUME read_block_fails(c) PROVE UseInv'
    <2>1. /\ op[c].at = "reading" /\ fcbs'[op[c].frame].fixnum = 0 /\ fcbs'[op[c].frame].chained
          /\ OpAt(c, "error", op[c].owner, op[c].the, NoFrame) /\ UNCHANGED fixed
          /\ OneFrame(op[c].frame)
      BY <1>18, ReadBlockFailsEff DEF FcbIs
    <2>2. op[c].frame \in Frames
      BY <2>1, FrameIs DEF Getting
    <2> QED BY <1>16, <2>1, <2>2
  <1>19. ASSUME load_other(c) PROVE UseInv'
    <2>1. /\ op[c].at = "loading" /\ fcbs'[op[c].frame].fixnum = 0 /\ fcbs'[op[c].frame].chained
          /\ OpAt(c, "update", NoClient, op[c].the, NoFrame) /\ UNCHANGED fixed
          /\ OneFrame(op[c].frame)
      BY <1>19, LoadOtherEff DEF FcbIs
    <2>2. op[c].frame \in Frames
      BY <2>1, FrameIs DEF Getting
    <2> QED BY <1>16, <2>1, <2>2
  \* A fixing call ends with the frame f, found in core.
  <1>20. ASSUME NEW f \in Frames, OpIdle(c), OneFrame(f), fcbs[f].chained, fcbs'[f].chained,
                op[c].at = "locked", Fixing(c), fcbs[f].blockdadr = op[c].page,
                fcbs'[f].blockdadr = fcbs[f].blockdadr, fcbs'[f].fixnum = fcbs[f].fixnum + 1,
                fcbs'[f].owner \in {c, NoClient}, fixed'[c] = fixed[c] \cup {f},
                \A e \in Clients \ {c} : fixed'[e] = fixed[e],
                fcbs'[f].owner = fcbs[f].owner \/ fcbs[f].fixnum = 0
         PROVE  UseInv'
    <2>1. /\ op'[c].frame = NoFrame /\ op'[c].the = NoFrame /\ ~Fixing(c)' /\ CallsStay(c)
          /\ op[c].frame = NoFrame /\ op[c].the = NoFrame /\ op[c].page \in Dadrs
      BY <1>b, <1>20, PageIs DEF OpIdle, OpIs, CallsStay, Fixing
    <2>2. f \notin fixed[c] /\ ~Uses(c, f) /\ Uses(c, f)'
      BY <1>0, <1>20, <2>1 DEF UseInv, FixedUse, Uses
    <2>3. GotUse(c, f)' /\ TheUse(c, f)' /\ FixedUse(c, f)'
      BY <1>20, <2>1 DEF GotUse, TheUse, FixedUse
    <2>4. fcbs[f].fixnum = 0 => \A e \in Clients \ {c} : ~Uses(e, f)
      BY <1>0, NoUsers
    <2>5. FrameStep(c, f)
      BY <1>20, <2>1, <2>2, <2>3, <2>4 DEF FrameStep
    <2> QED BY <1>0, <1>20, <2>1, <2>5, OneUse
  <1>21. ASSUME NEW f \in Frames, fix_own(c, f) PROVE UseInv'
    BY <1>20, <1>21, FixOwnEff DEF FcbIs, CoreOf
  <1>22. ASSUME NEW f \in Frames, fix_shared(c, f) PROVE UseInv'
    <2>1. /\ op[c].at = "locked" /\ Fixing(c) /\ f \in CoreOf(NoClient, op[c].page)
          /\ OpIdle(c) /\ fixed'[c] = fixed[c] \cup {f}
          /\ \A e \in Clients \ {c} : fixed'[e] = fixed[e]
          /\ \/ /\ fcbs[f].fixnum = 0
                /\ FcbIs(f, fcbs[f].blockdadr, c, FALSE, 1, fcbs[f].chained, fcbs[f].data)
             \/ FcbIs(f, fcbs[f].blockdadr, fcbs[f].owner, fcbs[f].dirty, fcbs[f].fixnum + 1,
                      fcbs[f].chained, fcbs[f].data)
      BY <1>22, FixSharedEff
    <2> QED BY <1>20, <2>1 DEF FcbIs, CoreOf
  \* A fixing call ends with the frame it was getting.
  <1>23. ASSUME read_block(c) \/ load_block(c) PROVE UseInv'
    <2>0. op[c].at \in {"reading", "loading"}
      BY <1>23, ReadBlockEff, LoadBlockEff
    <2>2. op[c].frame \in Frames /\ op[c].page \in Dadrs
      BY <2>0, FrameIs DEF Getting
    <2>f. PICK f \in Frames : f = op[c].frame
      BY <2>2
    <2>1. /\ OpIdle(c) /\ Fixing(c) /\ OneFrame(f)
          /\ fcbs'[f].blockdadr = op[c].page /\ fcbs'[f].fixnum = 1 /\ fcbs'[f].chained
          /\ fcbs'[f].owner \in {c, NoClient}
          /\ fixed'[c] = fixed[c] \cup {f} /\ \A e \in Clients \ {c} : fixed'[e] = fixed[e]
      BY <1>0, <1>23, <2>f, ReadBlockEff, LoadBlockEff DEF FcbIs, CallShape
    <2>3. fcbs[f].fixnum = 1 /\ Uses(c, f) /\ \A e \in Clients \ {c} : ~Uses(e, f)
      BY <1>0, <2>f, GotOnce
    <2>4. op[c].the = NoFrame
      BY <1>0, <2>1 DEF CallShape, Fixing
    <2>5. /\ op'[c].frame = NoFrame /\ op'[c].the = NoFrame /\ ~Fixing(c)' /\ CallsStay(c)
      BY <2>1 DEF OpIdle, OpIs, CallsStay, Fixing
    <2>6. GotUse(c, f)' /\ TheUse(c, f)' /\ FixedUse(c, f)' /\ Uses(c, f)'
      BY <2>1, <2>2, <2>5 DEF GotUse, TheUse, FixedUse, Uses
    <2>7. FrameStep(c, f)
      BY <2>1, <2>3, <2>6 DEF FrameStep
    <2> QED BY <1>0, <2>1, <2>f, <2>4, <2>5, <2>7, OneUse
  \* The frames stay; the call ends or a page is done.
  <1>24. ASSUME UNCHANGED <<fcbs, fixed>>, op[c].frame = NoFrame, op[c].the = NoFrame, NEW call,
                NEW at, NEW todo, call \in {"none", "commit", "roll_back"},
                OpIs(c, call, at, NoDadr, NoClient, NoFrame, NoFrame, todo)
         PROVE  UseInv'
    <2>1. CallsStay(c) /\ op'[c].the = NoFrame /\ op'[c].frame = NoFrame /\ ~Fixing(c)'
      BY <1>24 DEF OpIs, CallsStay, Fixing
    <2> QED BY <1>0, <1>24, <2>1, NoUse
  <1>25. ASSUME fix_err(c) PROVE UseInv'
    <2>1. op[c].at = "error" /\ Fixing(c) /\ OpIdle(c) /\ UNCHANGED <<fcbs, fixed>>
      BY <1>25, FixErrEff
    <2>2. op[c].frame = NoFrame /\ op[c].the = NoFrame
      BY <1>0, <2>1 DEF CallShape, Getting, Fixing
    <2> QED BY <1>24, <2>1, <2>2 DEF OpIdle
  <1>26. ASSUME commit(c) \/ roll_back(c) PROVE UseInv'
    <2>1. \E call \in {"commit", "roll_back"} :
             /\ op[c].at = "run" /\ UNCHANGED <<fixed, fcbs>>
             /\ OpIs(c, call, "next", NoDadr, NoClient, NoFrame, NoFrame, log[c])
      BY <1>26, CommitEff, RollBackEff DEF SameData
    <2> QED BY <1>b, <1>24, <2>1
  <1>27. ASSUME end_of_commit(c) \/ end_of_roll_back(c) PROVE UseInv'
    <2>1. op[c].at = "next" /\ OpIdle(c) /\ UNCHANGED <<fixed, fcbs>>
      BY <1>27, EndOfCommitEff, EndOfRollBackEff
    <2> QED BY <1>b, <1>24, <2>1 DEF OpIdle
  <1>28. ASSUME NEW f \in Frames, unfix_page(c, f) PROVE UseInv'
    <2>1. /\ op[c].at = "run" /\ f \in fixed[c] /\ UNCHANGED op /\ fixed'[c] = fixed[c] \ {f}
          /\ FcbIs(f, fcbs[f].blockdadr, fcbs[f].owner, fcbs[f].dirty, Unfix(fcbs[f].fixnum),
                  fcbs[f].chained, fcbs[f].data)
          /\ \A e \in Clients \ {c} : fixed'[e] = fixed[e]
      BY <1>28, UnfixPageEff
    <2>2. /\ OneFrame(f) /\ fcbs'[f].blockdadr = fcbs[f].blockdadr /\ fcbs'[f].owner = fcbs[f].owner
          /\ fcbs'[f].dirty = fcbs[f].dirty /\ fcbs'[f].fixnum = Unfix(fcbs[f].fixnum)
          /\ fcbs'[f].chained = fcbs[f].chained
      BY <2>1 DEF FcbIs
    <2>3. op[c].frame = NoFrame /\ op[c].the = NoFrame /\ ~Fixing(c) /\ CallsStay(c)
      BY <1>0, <1>b, <2>1 DEF CallShape, Fixing, CallsStay
    <2>4. Uses(c, f) /\ ~Uses(c, f)' /\ GotUse(c, f)' /\ FixedUse(c, f)' /\ TheUse(c, f)'
      BY <2>1, <2>3 DEF Uses, GotUse, FixedUse, TheUse
    <2>5. FrameStep(c, f)
      BY <2>1, <2>2, <2>3, <2>4 DEF FrameStep
    <2>6. ~Fixing(c)'
      BY <2>1, <2>3 DEF Fixing
    <2> QED BY <1>0, <2>1, <2>2, <2>3, <2>5, <2>6, OneUse
  \* A chained frame keeps its page, owner and fixes.
  <1>29. ASSUME NEW f \in Frames, fcbs[f].chained, fcbs'[f].chained,
                fcbs'[f].blockdadr = fcbs[f].blockdadr, fcbs'[f].owner = fcbs[f].owner,
                fcbs'[f].fixnum = fcbs[f].fixnum, UNCHANGED fixed, CallsStay(c),
                op'[c].frame = NoFrame, op'[c].the = op[c].the, op'[c].page = op[c].page \/ op[c].the = NoFrame,
                op[c].frame = NoFrame, ~Fixing(c)'
         PROVE  FrameStep(c, f)
    <2>1. Uses(c, f)' <=> Uses(c, f)
      BY <1>29 DEF Uses
    <2>2. FixedUse(c, f) /\ TheUse(c, f)
      BY <1>0 DEF UseInv
    <2>3. GotUse(c, f)' /\ FixedUse(c, f)' /\ TheUse(c, f)'
      BY <1>29, <2>2 DEF GotUse, FixedUse, TheUse
    <2> QED BY <1>29, <2>1, <2>3 DEF FrameStep
  <1>30. ASSUME NEW f \in Frames, rec_changed(c, f) PROVE UseInv'
    <2>1. /\ op[c].at = "run" /\ f \in fixed[c] /\ UNCHANGED <<op, fixed>> /\ OneFrame(f)
          /\ fcbs'[f].blockdadr = fcbs[f].blockdadr /\ fcbs'[f].owner = fcbs[f].owner
          /\ fcbs'[f].fixnum = fcbs[f].fixnum /\ fcbs'[f].chained = fcbs[f].chained
      <3>1. /\ op[c].at = "run" /\ f \in fixed[c] /\ fcbs[f].owner = c /\ UNCHANGED <<op, fixed>>
            /\ FcbIs(f, fcbs[f].blockdadr, c, TRUE, fcbs[f].fixnum, fcbs[f].chained,
                     [fcbs[f].data EXCEPT ![c] = TRUE])
        BY <1>30, RecChangedEff
      <3> QED BY <3>1 DEF FcbIs
    <2>2. op[c].frame = NoFrame /\ op[c].the = NoFrame /\ ~Fixing(c) /\ ~Fixing(c)' /\ CallsStay(c)
      BY <1>0, <1>b, <2>1 DEF CallShape, Fixing, CallsStay
    <2>3. fcbs[f].chained
      BY <1>0, <2>1, <2>2, UsedChained DEF Uses
    <2>4. FrameStep(c, f)
      BY <1>29, <2>1, <2>2, <2>3
    <2> QED BY <1>0, <2>1, <2>2, <2>4, OneUse
  <1>31. ASSUME wr_nothing(c) PROVE UseInv'
    <2>1. /\ op[c].at = "locked" /\ op[c].call = "commit" /\ OpNext(c) /\ UNCHANGED fixed
          /\ \A g \in Frames :
              /\ fcbs'[g].blockdadr = fcbs[g].blockdadr /\ fcbs'[g].dirty = fcbs[g].dirty
              /\ fcbs'[g].fixnum = fcbs[g].fixnum /\ fcbs'[g].chained = fcbs[g].chained
              /\ fcbs'[g].owner = IF g \in CoreOf(c, op[c].page) THEN NoClient ELSE fcbs[g].owner
      BY <1>31, WrNothingEff
    <2>2. /\ op'[c].frame = NoFrame /\ op'[c].the = NoFrame /\ ~Fixing(c)' /\ CallsStay(c)
          /\ op[c].frame = NoFrame /\ op[c].the = NoFrame /\ fixed[c] = {}
      BY <1>0, <1>b, <2>1 DEF OpNext, OpIs, CallsStay, Fixing, TranShape
    <2>3. ASSUME NEW g \in Frames PROVE FrameStep(c, g)
      <3>1. (Uses(c, g)' <=> Uses(c, g)) /\ GotUse(c, g)' /\ FixedUse(c, g)' /\ TheUse(c, g)'
        BY <2>1, <2>2 DEF Uses, GotUse, FixedUse, TheUse
      <3>2. g \in CoreOf(c, op[c].page) => \A e \in Clients \ {c} : ~Uses(e, g)
        BY <1>0, OwnerUses DEF CoreOf
      <3>3. ~Uses(c, g)
        BY <2>2 DEF Uses
      <3> QED BY <2>1, <2>2, <3>1, <3>2, <3>3 DEF FrameStep
    <2> QED BY <1>0, <2>2, <2>3, UseStep
  <1>32. ASSUME wr_changes(c) PROVE UseInv'
    <2>1. /\ op[c].at = "locked" /\ op[c].call = "commit"
          /\ \/ \E f \in CoreOf(c, op[c].page) :
                 /\ FcbIs(f, fcbs[f].blockdadr, fcbs[f].owner, fcbs[f].dirty, fcbs[f].fixnum + 1,
                          fcbs[f].chained, fcbs[f].data)
                 /\ OpAt(c, "writing", NoClient, f, NoFrame)
                 /\ UNCHANGED fixed
             \/ NeedFrame(c, c) /\ UNCHANGED fcbs
      BY <1>32, WrChangesEff
    <2>2. ASSUME NEW f \in CoreOf(c, op[c].page), UNCHANGED fixed,
                 FcbIs(f, fcbs[f].blockdadr, fcbs[f].owner, fcbs[f].dirty, fcbs[f].fixnum + 1,
                          fcbs[f].chained, fcbs[f].data),
                 OpAt(c, "writing", NoClient, f, NoFrame)
          PROVE  UseInv'
      <3>1. /\ f \in Frames /\ OneFrame(f) /\ fcbs'[f].blockdadr = fcbs[f].blockdadr
            /\ fcbs[f].blockdadr = op[c].page /\ fcbs[f].owner = c /\ fcbs'[f].owner = c
            /\ fcbs[f].chained /\ fcbs'[f].chained /\ fcbs'[f].fixnum = fcbs[f].fixnum + 1
        BY <2>2 DEF FcbIs, CoreOf
      <3>2. /\ op'[c].the = f /\ op'[c].frame = NoFrame /\ op'[c].page = op[c].page
            /\ ~Fixing(c)' /\ CallsStay(c)
            /\ op[c].frame = NoFrame /\ op[c].the = NoFrame /\ fixed[c] = {}
        BY <1>0, <1>b, <2>1, <2>2 DEF OpAt, OpIs, CallsStay, Fixing, TranShape
      <3>3. ~Uses(c, f) /\ Uses(c, f)' /\ GotUse(c, f)' /\ FixedUse(c, f)' /\ TheUse(c, f)'
        BY <2>2, <3>1, <3>2 DEF Uses, GotUse, FixedUse, TheUse
      <3>4. FrameStep(c, f)
        BY <3>1, <3>2, <3>3 DEF FrameStep
      <3> QED BY <1>0, <2>2, <3>1, <3>2, <3>4, OneUse
    <2> QED BY <1>9, <2>1, <2>2
  <1>33. ASSUME load_changes(c) PROVE UseInv'
    <2>2. op[c].frame \in Frames
      BY <1>33, LoadChangesEff, FrameIs DEF Getting
    <2>f. PICK f \in Frames : f = op[c].frame
      BY <2>2
    <2>1. /\ op[c].at = "loading" /\ op[c].call = "commit" /\ op[c].owner = c /\ OneFrame(f)
          /\ fcbs'[f].blockdadr = op[c].page /\ fcbs'[f].owner = c /\ fcbs'[f].fixnum = 1
          /\ fcbs'[f].chained /\ UNCHANGED fixed
          /\ OpAt(c, "writing", NoClient, f, NoFrame)
      BY <1>33, <2>f, LoadChangesEff DEF FcbIs
    <2>3. /\ fcbs[f].fixnum = 1 /\ Uses(c, f) /\ f \notin fixed[c]
          /\ \A e \in Clients \ {c} : ~Uses(e, f)
      BY <1>0, <2>f, GotOnce
    <2>4. op[c].the = NoFrame
      BY <1>0, <2>1 DEF CallShape, Loads
    <2>5. /\ op'[c].the = f /\ op'[c].frame = NoFrame /\ op'[c].page = op[c].page
          /\ ~Fixing(c)' /\ CallsStay(c)
      BY <2>1 DEF OpAt, OpIs, CallsStay, Fixing
    <2>6. GotUse(c, f)' /\ TheUse(c, f)' /\ FixedUse(c, f)' /\ Uses(c, f)'
      BY <2>1, <2>3, <2>5 DEF GotUse, TheUse, FixedUse, Uses
    <2>7. FrameStep(c, f)
      BY <2>1, <2>3, <2>6 DEF FrameStep
    <2> QED BY <1>0, <2>1, <2>f, <2>4, <2>5, <2>7, OneUse
  <1>34. ASSUME write_block(c) PROVE UseInv'
    <2>1. /\ op[c].at = "writing" /\ \A g \in Frames : UpdatedFcb(c, g) /\ UNCHANGED fixed
          /\ OpAt(c, "update", op[c].owner, op[c].the, op[c].frame)
      BY <1>34, WriteBlockEff
    <2>2. /\ op'[c].the = op[c].the /\ op'[c].frame = NoFrame /\ op[c].frame = NoFrame
          /\ op'[c].page = op[c].page /\ CallsStay(c) /\ ~Fixing(c)' /\ op'[c].at = "update"
      BY <1>0, <1>a, <2>1, WriteBlockEff, <1>34 DEF OpAt, OpIs, CallsStay, Fixing, Getting, CallShape
    <2>3. ASSUME NEW g \in Frames PROVE FrameStep(c, g)
      <3>1. UpdatedFcb(c, g)
        BY <2>1
      <3>2. CASE fcbs[g].chained
        BY <1>29, <2>1, <2>2, <3>1, <3>2, <1>34, WriteBlockEff DEF UpdatedFcb
      <3>3. CASE ~fcbs[g].chained
        <4>1. g # op[c].the
          BY <1>0, <2>2, <3>3, UsedChained DEF Uses
        <4>2. fcbs'[g].dirty = fcbs[g].dirty /\ fcbs'[g].chained = fcbs[g].chained
              /\ fcbs'[g].blockdadr = fcbs[g].blockdadr /\ fcbs'[g].owner = fcbs[g].owner
              /\ fcbs'[g].fixnum = fcbs[g].fixnum
          BY <3>1, <4>1 DEF UpdatedFcb
        <4>3. g \notin fixed[c] /\ UNCHANGED fixed
          BY <1>0, <1>34, <2>2, <3>3, UsedChained, WriteBlockEff DEF Uses
        <4>4. ~Uses(c, g) /\ ~Uses(c, g)'
          BY <2>2, <4>1, <4>3 DEF Uses
        <4>5. GotUse(c, g)' /\ FixedUse(c, g)' /\ TheUse(c, g)'
          BY <4>4 DEF Uses, GotUse, FixedUse, TheUse
        <4> QED BY <2>2, <4>2, <4>4, <4>5 DEF FrameStep
      <3> QED BY <3>2, <3>3
    <2> QED BY <1>0, <2>2, <2>3, UseStep
  <1>35. ASSUME wr_end(c) PROVE UseInv'
    <2>0. op[c].the \in Frames
      BY <1>35, WrEndEff
    <2>f. PICK f \in Frames : f = op[c].the
      BY <2>0
    <2>1. /\ op[c].at = "update" /\ f \in Frames /\ OneFrame(f) /\ fcbs'[f].chained = fcbs[f].chained
          /\ fcbs'[f].fixnum = Unfix(fcbs[f].fixnum) /\ OpNext(c) /\ UNCHANGED fixed
      BY <1>35, <2>f, WrEndEff DEF FcbIs
    <2>2. op[c].call = "commit" /\ fixed[c] = {} /\ op[c].frame = NoFrame
      BY <1>0, <1>a, <2>1 DEF CallShape, TranShape, Getting
    <2>3. Uses(c, f) /\ fcbs[f].owner = c
      BY <1>0, <2>f DEF Uses, UseInv, TheUse
    <2>4. fcbs[f].chained
      BY <1>0, <2>1, <2>2, <2>3, UsedChained
    <2>5. \A e \in Clients \ {c} : ~Uses(e, f)
      BY <1>0, <2>1, <2>3, <2>4, OwnerUses
    <2>6. /\ op'[c].the = NoFrame /\ op'[c].frame = NoFrame /\ ~Fixing(c)' /\ CallsStay(c)
      BY <2>1, <2>2 DEF OpNext, OpIs, CallsStay, Fixing
    <2>7. ~Uses(c, f)' /\ GotUse(c, f)' /\ FixedUse(c, f)' /\ TheUse(c, f)'
      BY <2>1, <2>2, <2>6 DEF Uses, GotUse, FixedUse, TheUse
    <2>8. FrameStep(c, f)
      BY <2>1, <2>2, <2>3, <2>4, <2>5, <2>7 DEF FrameStep
    <2> QED BY <1>0, <2>1, <2>f, <2>2, <2>6, <2>8, OneUse
  <1>36. ASSUME remove_changes(c) PROVE UseInv'
    <2>1. /\ op[c].at = "locked" /\ op[c].call = "roll_back" /\ OpNext(c) /\ UNCHANGED fixed
          /\ \/ UNCHANGED fcbs
             \/ \E f \in CoreOf(c, op[c].page) :
                 \/ fcbs[f].fixnum = 0 /\ FcbIs(f, NoDadr, NoClient, FALSE, 0, TRUE, Blank)
                 \/ \E d : FcbIs(f, fcbs[f].blockdadr, fcbs[f].owner, fcbs[f].dirty,
                                       fcbs[f].fixnum, fcbs[f].chained, d)
      BY <1>0, <1>36, RemoveChangesEff
    <2>2. /\ op'[c].the = NoFrame /\ op'[c].frame = NoFrame /\ ~Fixing(c)' /\ CallsStay(c)
          /\ op[c].frame = NoFrame /\ op[c].the = NoFrame
      BY <1>b, <2>1 DEF OpNext, OpIs, CallsStay, Fixing
    <2>3. CASE UNCHANGED fcbs
      BY <1>0, <2>1, <2>2, <2>3, NoUse
    <2>4. ASSUME NEW f \in CoreOf(c, op[c].page),
                 \/ fcbs[f].fixnum = 0 /\ FcbIs(f, NoDadr, NoClient, FALSE, 0, TRUE, Blank)
                 \/ \E d : FcbIs(f, fcbs[f].blockdadr, fcbs[f].owner, fcbs[f].dirty,
                                       fcbs[f].fixnum, fcbs[f].chained, d)
          PROVE  UseInv'
      <3>1. f \in Frames /\ fcbs[f].chained /\ OneFrame(f) /\ fcbs'[f].chained
            /\ fcbs'[f].fixnum = fcbs[f].fixnum
        BY <2>4 DEF CoreOf, FcbIs
      <3>2. FrameStep(c, f)
        <4>1. CASE fcbs[f].fixnum = 0
          <5>1. \A e \in Clients : ~Uses(e, f)
            BY <1>0, <3>1, <4>1, NoUsers
          <5>2. ~Uses(c, f)'
            BY <2>1, <2>2, <3>1, <5>1 DEF Uses
          <5>3. GotUse(c, f)' /\ FixedUse(c, f)' /\ TheUse(c, f)'
            BY <5>2 DEF Uses, GotUse, FixedUse, TheUse
          <5> QED BY <2>2, <3>1, <5>1, <5>2, <5>3 DEF FrameStep
        <4>2. CASE \E d : FcbIs(f, fcbs[f].blockdadr, fcbs[f].owner, fcbs[f].dirty,
                                       fcbs[f].fixnum, fcbs[f].chained, d)
          BY <1>29, <2>1, <2>2, <3>1, <4>2 DEF FcbIs
        <4> QED BY <2>4, <4>1, <4>2
      <3> QED BY <1>0, <2>1, <2>2, <3>1, <3>2, OneUse
    <2> QED BY <2>1, <2>3, <2>4
  <1> QED
    BY <1>1, <1>2, <1>4, <1>6, <1>7, <1>8, <1>10, <1>11, <1>13, <1>14, <1>15, <1>17, <1>18, <1>19,
       <1>21, <1>22, <1>23, <1>25, <1>26, <1>27, <1>28, <1>30, <1>31, <1>32, <1>33, <1>34, <1>35,
       <1>36 DEF CacheStep

-----------------------------------------------------------------------------
\* Copies of pages.

\* While c has a page locked and does not load it, no copy of it is being
\* swapped or loaded.
LEMMA LockedSwaps ==
  ASSUME FrameInv, Inv, Good, NEW c \in Clients, op[c].at \in {"locked", "writing", "update"},
         NEW o \in Clients
  PROVE  swaps[o][op[c].page].is \in {"none", "saved"}
  <1>0. op[c].page \in Dadrs /\ HoldsPage(c)
    BY PageIs DEF HoldsPage
  <1>1. PagesApart
    BY LockedApart DEF Good
  <1>2. OneCopy(o, op[c].page)
    BY <1>0 DEF Good, CopiesInv
  <1>3. swaps[o][op[c].page].is \in {"none", "saving", "saved", "taken"}
    BY <1>0 DEF FrameInv, SwapInv, SwapBlock, SwapStates
  <1>4. swaps[o][op[c].page].is # "saving"
    BY <1>0, <1>1, <1>2 DEF PagesApart, OneCopy, Saves
  <1>5. swaps[o][op[c].page].is # "taken"
    <2> SUFFICES ASSUME NEW e \in Clients, op[e].page = op[c].page, op[e].owner = o
                 PROVE  FALSE
      BY <1>2 DEF OneCopy
    <2>1. op[e].at \in Loads
      BY NoClientAssumption DEF Good, CallsInv, CallShape
    <2>2. HoldsPage(e) /\ e # c
      BY <2>1 DEF Loads, HoldsPage
    <2> QED BY <1>0, <1>1, <2>2 DEF PagesApart
  <1> QED BY <1>3, <1>4, <1>5

\* The copy that c loads: its control block is taken, and by c only.
LEMMA TakenCopy ==
  ASSUME FrameInv, Inv, Good, NEW c \in Clients, NEW o \in Clients, op[c].owner = o
  PROVE  /\ op[c].page \in Dadrs /\ HoldsPage(c)
         /\ swaps[o][op[c].page].is = "taken" /\ Copies(o, op[c].page) = {}
         /\ \A e \in Clients \ {c} : ~(op[e].page = op[c].page /\ op[e].owner = o)
         /\ \A e \in Clients : ~Saves(e, o, op[c].page)
         /\ \A e \in Clients \ {c} : ~Updating(e, op[c].page)
  <1>1. op[c].at \in Loads
    BY NoClientAssumption DEF Good, CallsInv, CallShape
  <1>2. op[c].page \in Dadrs /\ HoldsPage(c)
    BY <1>1, PageIs DEF HoldsPage, Loads
  <1>3. PagesApart
    BY LockedApart DEF Good
  <1>4. OneCopy(o, op[c].page)
    BY <1>2 DEF Good, CopiesInv
  <1>5. swaps[o][op[c].page].is = "taken"
    BY <1>4 DEF OneCopy
  <1>6. ASSUME NEW e \in Clients \ {c}, op[e].page = op[c].page
        PROVE  op[e].owner # o /\ ~Updating(e, op[c].page)
    <2>1. ~HoldsPage(e)
      BY <1>2, <1>3, <1>6 DEF PagesApart
    <2>2. op[e].owner = NoClient /\ op[e].the = NoFrame
      BY <2>1 DEF HoldsPage, Good, CallsInv, CallShape, Loads
    <2> QED BY <2>2, NoClientAssumption DEF Updating
  <1> QED BY <1>2, <1>4, <1>5, <1>6 DEF OneCopy, Updating

\* A private copy that is not in its chain is being evicted.
LEMMA UnchainedCopy ==
  ASSUME Good, NEW o \in Clients, NEW p \in Dadrs, NEW f \in Copies(o, p), ~fcbs[f].chained
  PROVE  <<o, p>> \in OutOfChains \/ swaps[o][p].is = "saving"
  <1>0. f \in Frames /\ fcbs[f].owner = o /\ fcbs[f].blockdadr = p /\ o # NoClient
    BY NoClientAssumption DEF Copies
  <1>1. PICK e \in Clients : op[e].frame = f
    BY <1>0 DEF Good, UseInv, Chained
  <1>2. op[e].at \in {"victim", "saving"}
    BY <1>0, <1>1 DEF Good, UseInv, GotUse
  <1>3. CASE op[e].at = "victim"
    BY <1>0, <1>1, <1>3 DEF OutOfChains
  <1>4. CASE op[e].at = "saving"
    <2>1. Saves(e, o, p)
      BY <1>0, <1>1, <1>4 DEF Saves, VictimPage
    <2> QED BY <2>1 DEF Good, CopiesInv, OneCopy
  <1> QED BY <1>2, <1>3, <1>4

\* All copies of a page locked and not loaded are in their chains.
LEMMA AllInCore ==
  ASSUME FrameInv, Inv, Good, NEW c \in Clients, op[c].at \in {"locked", "writing", "update"},
         NEW o \in Clients, <<o, op[c].page>> \notin OutOfChains
  PROVE  Copies(o, op[c].page) = CoreOf(o, op[c].page)
  <1>1. swaps[o][op[c].page].is # "saving" /\ op[c].page \in Dadrs
    BY LockedSwaps, PageIs
  <1> QED BY <1>1, UnchainedCopy DEF Copies, CoreOf
-----------------------------------------------------------------------------
\* The invariant of a client and a page.
CopyPair(o, p) == OneCopy(o, p) /\ NoCopyYet(o, p)
DataPair(o, p) == CoreData(o, p) /\ SwapData(o, p) /\ ChangeThere(o, p) /\ FileData(o, p)

\* fix_priv_page reads the page from the file.
Reads1(o, p) ==
    /\ op[o].call = "fix_priv_page" /\ op[o].page = p /\ op[o].owner = NoClient
    /\ op[o].at \notin {"locking", "locked"}

\* For the copies of o nothing changes in the call of c.
CallCopies(c, o, p) ==
    /\ Saves(c, o, p)' <=> Saves(c, o, p)
    /\ op'[c].page = p /\ op'[c].owner = o <=> op[c].page = p /\ op[c].owner = o
    /\ o = c /\ Reads1(c, p)' =>
          Reads1(c, p) \/ (Copies(c, p) = {} /\ swaps[c][p].is = "none")

\* For their contents nothing changes in the call of c.
CallData(c, o, p) ==
    /\ Updating(c, p) => Updating(c, p)'
    /\ o = c /\ p \in changed[c] =>
          /\ Finished(c, p)' <=> Finished(c, p)
          /\ Written(c, p)' <=> Written(c, p)

\* The copies of o stay, or one that is not needed is dropped.
CopyStays(o, p) ==
    /\ Copies(o, p)' \subseteq Copies(o, p)
    /\ \A f \in Copies(o, p)' : fcbs'[f].data = fcbs[f].data
    /\ Found(o, p) => Found(o, p)'
    /\ swaps'[o][p].is \in {"saved", "taken"} =>
          swaps[o][p].is \in {"saved", "taken"} /\ swaps'[o][p].data = swaps[o][p].data
    /\ disc'[p] = disc[p]

TranStays(o, p) ==
    /\ mine'[o][p] = mine[o][p] /\ (p \in changed'[o] <=> p \in changed[o])
    /\ failed[o] => failed'[o]

\* A step that is nothing to the copies keeps their number.
LEMMA CopyPairStep ==
  ASSUME NEW c \in Clients, NEW o \in Clients, NEW p \in Dadrs, VictimsStay(c), CopyPair(o, p),
         CallCopies(c, o, p), Copies(o, p)' \subseteq Copies(o, p),
         swaps'[o][p].is = swaps[o][p].is
  PROVE  CopyPair(o, p)'
  <1>1. \A e \in Clients : Saves(e, o, p)' <=> Saves(e, o, p)
    BY DEF VictimsStay, CallCopies, Saves, VictimPage
  <1>2. \A e \in Clients : op'[e].page = p /\ op'[e].owner = o <=> op[e].page = p /\ op[e].owner = o
    BY DEF VictimsStay, CallCopies
  <1>3. OneCopy(o, p)'
    BY <1>1, <1>2 DEF CopyPair, OneCopy
  <1>4. Reads1(o, p)' => Reads1(o, p) \/ (Copies(o, p) = {} /\ swaps[o][p].is = "none")
    BY DEF VictimsStay, CallCopies, Reads1
  <1>5. NoCopyYet(o, p)'
    BY <1>4 DEF CopyPair, NoCopyYet, Reads1
  <1> QED BY <1>3, <1>5 DEF CopyPair

\* A step that does not touch the file or the transaction keeps FileData.
LEMMA FileStep ==
  ASSUME NEW c \in Clients, NEW o \in Clients, NEW p \in Dadrs, VictimsStay(c), FileData(o, p),
         CallData(c, o, p), TranStays(o, p), disc'[p] = disc[p]
  PROVE  FileData(o, p)'
  BY DEF VictimsStay, CallData, Finished, Written, FileData, TranStays

\* A step that is nothing to the contents keeps them.
LEMMA DataPairStep ==
  ASSUME NEW c \in Clients, NEW o \in Clients, NEW p \in Dadrs, VictimsStay(c), DataPair(o, p),
         CallData(c, o, p), CopyStays(o, p), TranStays(o, p)
  PROVE  DataPair(o, p)'
  <1>1. CoreData(o, p)'
    BY DEF DataPair, CoreData, CopyStays, TranStays
  <1>2. \A e \in Clients : Updating(e, p) => Updating(e, p)'
    BY DEF VictimsStay, CallData, Updating
  <1>3. SwapData(o, p)'
    BY <1>2 DEF DataPair, SwapData, CopyStays, TranStays
  <1>4. p \in changed[o] =>
          /\ Finished(o, p)' <=> Finished(o, p)
          /\ Written(o, p)' <=> Written(o, p)
    BY DEF VictimsStay, CallData, Finished, Written
  <1>5. ChangeThere(o, p)'
    BY <1>4 DEF DataPair, ChangeThere, CopyStays, TranStays
  <1>6. FileData(o, p)'
    BY FileStep DEF DataPair, CopyStays
  <1> QED BY <1>1, <1>3, <1>5, <1>6 DEF DataPair

PairOK(o, p) == CopyPair(o, p) /\ DataPair(o, p)

\* A step that is nothing to a client and a page.
LEMMA PairStep ==
  ASSUME NEW c \in Clients, NEW o \in Clients, NEW p \in Dadrs, VictimsStay(c), PairOK(o, p),
         CallCopies(c, o, p), CallData(c, o, p), CopyStays(o, p), TranStays(o, p),
         swaps'[o][p].is = swaps[o][p].is
  PROVE  PairOK(o, p)'
  BY CopyPairStep, DataPairStep DEF PairOK, CopyStays

\* The invariant, for a client and a page.
LEMMA PairIs ==
  ASSUME Good, NEW o \in Clients, NEW p \in Dadrs
  PROVE  /\ PairOK(o, p) /\ OneCopy(o, p) /\ NoCopyYet(o, p) /\ CoreData(o, p) /\ SwapData(o, p)
         /\ ChangeThere(o, p) /\ FileData(o, p)
  BY DEF Good, CopiesInv, ContentsInv, PairOK, CopyPair, DataPair

\* The invariant, from all clients and pages.
LEMMA PairsAre ==
  ASSUME \A o \in Clients, p \in Dadrs : PairOK(o, p)'
  PROVE  CopiesInv' /\ ContentsInv'
  BY DEF CopiesInv, ContentsInv, PairOK, CopyPair, DataPair

\* A step on one frame leaves the other copies.
LEMMA FrameCopies ==
  ASSUME NEW f \in Frames, OneFrame(f), NEW o \in Clients, NEW p \in Dadrs,
         UNCHANGED disc, swaps'[o][p] = swaps[o][p],
         f \in Copies(o, p)' => f \in Copies(o, p) /\ fcbs'[f].data = fcbs[f].data,
         f \in Copies(o, p) /\ fcbs[f].dirty => f \in Copies(o, p)' /\ fcbs'[f].dirty
  PROVE  CopyStays(o, p)
  <1>1. \A g \in Frames \ {f} : fcbs'[g] = fcbs[g] /\ (g \in Copies(o, p)' <=> g \in Copies(o, p))
    BY DEF OneFrame, Copies
  <1>2. /\ Copies(o, p)' \subseteq Copies(o, p)
        /\ \A g \in Copies(o, p)' : fcbs'[g].data = fcbs[g].data
    BY <1>1 DEF Copies
  <1>3. ASSUME NEW g \in Copies(o, p), fcbs[g].dirty PROVE g \in Copies(o, p)' /\ fcbs'[g].dirty
    BY <1>1, <1>3 DEF Copies
  <1>4. Found(o, p) => Found(o, p)'
    BY <1>3 DEF Found
  <1> QED BY <1>2, <1>4 DEF CopyStays

\* A step that touches no frame leaves the copies.
LEMMA NoCopyStep ==
  ASSUME NEW o \in Clients, NEW p \in Dadrs, UNCHANGED <<fcbs, disc>>, swaps'[o][p] = swaps[o][p]
  PROVE  CopyStays(o, p)
  BY DEF CopyStays, Copies, Found

-----------------------------------------------------------------------------
\* No step of c changes the pages that others are swapping.
LEMMA VictimsKept ==
  ASSUME FrameInv, Good, NEW c \in Clients, CacheStep(c)
  PROVE  VictimsStay(c)
  <1>0. CallTypes /\ UseInv /\ SharedInv
    BY Typed DEF Good
  <1>1. ASSUME UNCHANGED fcbs, \A e \in Clients \ {c} : op'[e] = op[e] PROVE VictimsStay(c)
    BY <1>1 DEF VictimsStay
  <1>2. ASSUME NEW f \in Frames, OneFrame(f), fcbs[f].chained \/ Uses(c, f) \/ fcbs[f].fixnum = 0,
               \A e \in Clients \ {c} : op'[e] = op[e]
        PROVE  VictimsStay(c)
    BY <1>0, <1>2, OneFrameStays
  <1>3. ASSUME \/ \E p \in Dadrs : \/ next_page(c, p)
                                   \/ \E call \in {"fix_any_page", "fix_priv_page"} : fix_page(c, p, call)
               \/ wait_for_block(c) \/ retry_page(c) \/ sleep_for_frame(c) \/ no_frame(c)
        PROVE  VictimsStay(c)
    <2>1. UNCHANGED fcbs /\ \A e \in Clients \ {c} : op'[e] = op[e]
      BY <1>0, <1>3, NextPageEff, FixPageEff, WaitForBlockEff, RetryPageEff, SleepForFrameEff,
         NoFrameEff DEF OpLock, OpAt, OpIs, SameData
    <2> QED BY <1>1, <2>1
  <1>4. ASSUME retry_victim(c) \/ fix_err(c) \/ commit(c) \/ roll_back(c) \/ end_of_commit(c)
               \/ end_of_roll_back(c)
        PROVE  VictimsStay(c)
    <2>1. UNCHANGED fcbs /\ \A e \in Clients \ {c} : op'[e] = op[e]
      BY <1>0, <1>4, RetryVictimEff, FixErrEff, CommitEff, RollBackEff, EndOfCommitEff,
         EndOfRollBackEff DEF OpIdle, OpAt, OpIs, SameData
    <2> QED BY <1>1, <2>1
  <1>5. ASSUME NEW o \in Clients \cup {NoClient}, NeedFrame(c, o), UNCHANGED fcbs,
               op[c].at \in {"locked", "update"}
        PROVE  VictimsStay(c)
    BY <1>1, <1>5, PageIs, NeedFrameEff DEF OpAt, OpIs
  <1>6. ASSUME fix_get_frame(c) \/ \E o \in Clients : update_swapped(c, o) PROVE VictimsStay(c)
    BY <1>5, <1>6, FixGetFrameEff, UpdateSwappedEff
  <1>7. ASSUME NEW f \in Frames, get_frame(c, f) PROVE VictimsStay(c)
    <2>1. f \in Victims /\ GotFrame(c, f)
      BY <1>7, GetFrameEff
    <2>2. OneFrame(f) /\ \A e \in Clients \ {c} : op'[e] = op[e]
      BY <1>0, <2>1, GotFrameEff DEF FcbIs, OpAt, OpIs
    <2> QED BY <1>2, <2>1, <2>2 DEF Victims
  <1>8. ASSUME NEW f \in Frames, get_frame_swapping(c, f) PROVE VictimsStay(c)
    <2>1. f \in Victims /\ OneFrame(f) /\ \A e \in Clients \ {c} : op'[e] = op[e]
      BY <1>8, GetFrameSwappingEff DEF FcbIs, OpAt, OpIs
    <2> QED BY <1>2, <2>1 DEF Victims
  <1>9. ASSUME save_block(c) PROVE VictimsStay(c)
    <2>1. op[c].at = "saving" /\ GotFrame(c, op[c].frame)
      BY <1>0, <1>9, SaveBlockEff
    <2>2. op[c].frame \in Frames
      BY <2>1, FrameIs DEF Getting
    <2>3. OneFrame(op[c].frame) /\ \A e \in Clients \ {c} : op'[e] = op[e]
      BY <1>0, <2>1, <2>2, GotFrameEff DEF FcbIs, OpAt, OpIs
    <2> QED BY <1>2, <2>2, <2>3 DEF Uses
  <1>10. ASSUME save_block_fails(c) \/ read_block_fails(c) \/ load_changes(c) \/ load_other(c)
         PROVE  VictimsStay(c)
    <2>1. ASSUME save_block_fails(c)
          PROVE  /\ op[c].at \in Getting /\ OneFrame(op[c].frame)
                 /\ \A e \in Clients \ {c} : op'[e] = op[e]
      BY <1>0, <2>1, SaveBlockFailsEff DEF FcbIs, OpAt, OpIs, Getting
    <2>2. ASSUME load_other(c)
          PROVE  /\ op[c].at \in Getting /\ OneFrame(op[c].frame)
                 /\ \A e \in Clients \ {c} : op'[e] = op[e]
      BY <2>2, LoadOtherEff DEF FcbIs, OpAt, OpIs, Getting
    <2>3. /\ op[c].at \in Getting /\ OneFrame(op[c].frame)
          /\ \A e \in Clients \ {c} : op'[e] = op[e]
      BY <1>10, <2>1, <2>2, ReadBlockFailsEff, LoadChangesEff DEF FcbIs, OpAt, OpIs, Getting
    <2>4. op[c].frame \in Frames
      BY <2>3, FrameIs
    <2> QED BY <1>2, <2>3, <2>4 DEF Uses
  <1>11. ASSUME read_block(c) \/ load_block(c) PROVE VictimsStay(c)
    <2>1. /\ op[c].at \in Getting /\ OneFrame(op[c].frame)
          /\ \A e \in Clients \ {c} : op'[e] = op[e]
      BY <1>11, ReadBlockEff, LoadBlockEff DEF FcbIs, OpIdle, OpIs, Getting
    <2>2. op[c].frame \in Frames
      BY <2>1, FrameIs
    <2> QED BY <1>2, <2>1, <2>2 DEF Uses
  <1>12. ASSUME NEW f \in Frames, fix_own(c, f) \/ fix_shared(c, f) PROVE VictimsStay(c)
    <2>1. OneFrame(f) /\ fcbs[f].chained /\ \A e \in Clients \ {c} : op'[e] = op[e]
      BY <1>12, FixOwnEff, FixSharedEff DEF FcbIs, CoreOf, OpIdle, OpIs
    <2> QED BY <1>2, <2>1
  <1>13. ASSUME NEW f \in Frames, unfix_page(c, f) \/ rec_changed(c, f) PROVE VictimsStay(c)
    <2>1. f \in fixed[c] /\ OneFrame(f) /\ UNCHANGED op
      BY <1>13, UnfixPageEff, RecChangedEff DEF FcbIs
    <2> QED BY <1>2, <2>1 DEF Uses
  <1>14. ASSUME wr_nothing(c) PROVE VictimsStay(c)
    <2>1. /\ OpNext(c)
          /\ \A g \in Frames : /\ fcbs'[g].blockdadr = fcbs[g].blockdadr
                               /\ ~fcbs[g].chained => fcbs'[g].owner = fcbs[g].owner
      BY <1>14, WrNothingEff DEF CoreOf
    <2>2. \A e \in Clients \ {c} : op[e].at \in {"victim", "saving"} =>
             op[e].frame \in Frames /\ ~fcbs[op[e].frame].chained
      BY <1>0, FrameIs DEF Getting, UseInv, GotUse
    <2> QED BY <2>1, <2>2 DEF VictimsStay, OpNext, OpIs
  <1>15. ASSUME wr_changes(c) PROVE VictimsStay(c)
    <2>1. /\ op[c].at = "locked"
          /\ \/ \E f \in CoreOf(c, op[c].page) :
                  OneFrame(f) /\ \A e \in Clients \ {c} : op'[e] = op[e]
             \/ NeedFrame(c, c) /\ UNCHANGED fcbs
      BY <1>15, WrChangesEff DEF FcbIs, OpAt, OpIs
    <2> QED BY <1>2, <1>5, <2>1 DEF CoreOf
  <1>16. ASSUME write_block(c) PROVE VictimsStay(c)
    <2>1. /\ \A g \in Frames : UpdatedFcb(c, g)
          /\ \A e \in Clients \ {c} : op'[e] = op[e]
      BY <1>16, WriteBlockEff DEF OpAt, OpIs
    <2> QED BY <2>1, FrameIs DEF VictimsStay, Getting, UpdatedFcb
  <1>17. ASSUME wr_end(c) PROVE VictimsStay(c)
    <2>1. OneFrame(op[c].the) /\ op[c].the \in Frames /\ \A e \in Clients \ {c} : op'[e] = op[e]
      BY <1>17, WrEndEff DEF FcbIs, OpNext, OpIs
    <2> QED BY <1>2, <2>1 DEF Uses
  <1>18. ASSUME remove_changes(c) PROVE VictimsStay(c)
    <2>1. /\ \A e \in Clients \ {c} : op'[e] = op[e]
          /\ UNCHANGED fcbs \/ \E f \in CoreOf(c, op[c].page) : OneFrame(f)
      BY <1>0, <1>18, RemoveChangesEff DEF FcbIs, OpNext, OpIs
    <2> QED BY <1>1, <1>2, <2>1 DEF CoreOf
  <1> QED
    BY <1>3, <1>4, <1>6, <1>7, <1>8, <1>9, <1>10, <1>11, <1>12, <1>13, <1>14, <1>15, <1>16, <1>17,
       <1>18 DEF CacheStep

-----------------------------------------------------------------------------
\* Two contents that agree on every record are the same.
LEMMA SameContents ==
  ASSUME NEW x \in Contents, NEW y \in Contents, \A e \in Clients : x[e] = y[e]
  PROVE  x = y
  BY DEF Contents

\* The copy that commit has written, or has nothing to write of, is the page in
\* the file.
LEMMA WrittenCopy ==
  ASSUME FrameInv, Good, NEW c \in Clients, NEW p \in Dadrs, NEW f \in Copies(c, p),
         disc[p][c] = mine[c][p]
  PROVE  fcbs[f].data = disc[p]
  <1>1. f \in Frames /\ fcbs[f].data \in Contents /\ disc[p] \in Contents
    BY DEF Copies, FrameInv, FcbInv, Fcb, DataInv
  <1>2. CoreData(c, p)
    BY PairIs
  <1>3. \A e \in Clients : fcbs[f].data[e] = disc[p][e]
    BY <1>2 DEF CoreData
  <1> QED BY <1>1, <1>3, SameContents

\* The commit of c has written its page.
LEMMA PageWritten ==
  ASSUME FrameInv, Good, NEW c \in Clients, op[c].the # NoFrame, op[c].at # "writing"
  PROVE  disc[op[c].page][c] = mine[c][op[c].page]
  <1>1. op[c].call = "commit" /\ op[c].page \notin op[c].todo /\ op[c].at \in Loads \cup {"writing", "update"}
    BY DEF Good, CallsInv, CallShape, TranShape
  <1>2. op[c].page \in Dadrs
    BY <1>1, PageIs DEF Loads
  <1>3. FileData(c, op[c].page)
    BY <1>2, PairIs
  <1> QED BY <1>1, <1>3 DEF FileData, Finished, Written

\* The frame that commit writes from.
LEMMA TheCopy ==
  ASSUME FrameInv, Good, NEW c \in Clients, op[c].the # NoFrame
  PROVE  /\ op[c].the \in Frames /\ op[c].the \in Copies(c, op[c].page)
         /\ op[c].frame # op[c].the /\ fcbs[op[c].the].chained
  <1>1. op[c].the \in Frames
    BY CallIs DEF FrameInv, Op
  <1>2. /\ fcbs[op[c].the].owner = c /\ fcbs[op[c].the].blockdadr = op[c].page
        /\ op[c].frame # op[c].the
    BY <1>1 DEF Good, UseInv, TheUse, GotUse
  <1>3. fcbs[op[c].the].chained
    BY <1>1, <1>2, UsedChained DEF Uses, Good
  <1> QED BY <1>1, <1>2, <1>3 DEF Copies

\* A page that is neither in core nor swapped is not changed.
LEMMA NotChanged ==
  ASSUME FrameInv, Good, NEW o \in Clients, NEW p \in Dadrs, Copies(o, p) = {},
         swaps[o][p].is = "none", ~failed[o], ~Finished(o, p)
  PROVE  p \notin changed[o] /\ disc[p][o] = mine[o][p]
  <1>1. ChangeThere(o, p) /\ FileData(o, p)
    BY PairIs
  <1> QED BY <1>1 DEF ChangeThere, FileData, Found

\* A commit that finds no copy of its page has nothing to write.
LEMMA NothingToWrite ==
  ASSUME FrameInv, Inv, Good, NEW c \in Clients, wr_nothing(c)
  PROVE  op[c].page \notin changed[c] /\ disc[op[c].page][c] = mine[c][op[c].page]
  <1>1. /\ op[c].at = "locked" /\ op[c].call = "commit"
        /\ \/ op[c].page \notin changed[c]
           \/ CoreOf(c, op[c].page) = {} /\ ~Swapped(c, op[c].page)
              /\ <<c, op[c].page>> \notin OutOfChains
    BY WrNothingEff
  <1>2. op[c].page \in Dadrs
    BY <1>1, PageIs
  <1>3. ~failed[c] /\ op[c].the = NoFrame
    BY <1>1 DEF Good, CallsInv, CallShape, TranShape, Loads
  <1>4. CASE op[c].page \notin changed[c]
    BY <1>2, <1>4, PairIs DEF FileData
  <1>5. CASE CoreOf(c, op[c].page) = {} /\ ~Swapped(c, op[c].page)
             /\ <<c, op[c].page>> \notin OutOfChains
    <2>1. Copies(c, op[c].page) = {}
      BY <1>1, <1>5, AllInCore
    <2>2. swaps[c][op[c].page].is = "none"
      BY <1>1, <1>5, LockedSwaps DEF Swapped
    <2>3. ~Finished(c, op[c].page)
      BY <1>3 DEF Finished, Written
    <2> QED BY <1>2, <1>3, <2>1, <2>2, <2>3, NotChanged
  <1> QED BY <1>1, <1>4, <1>5

\* Every step keeps the shared pages as they are in the file.
LEMMA SharedKept ==
  ASSUME FrameInv, Inv, Good, NEW c \in Clients, CacheStep(c)
  PROVE  SharedInv'
  <1>0. CallTypes /\ CallShape(c) /\ TranShape(c) /\ UseInv /\ SharedInv
    BY Typed DEF Good, CallsInv
  <1> USE NoClientAssumption, NoDadrAssumption
  <1>1. ASSUME UNCHANGED <<fcbs, disc>> PROVE SharedInv'
    BY <1>0, <1>1 DEF SharedInv, SharedOK
  <1>2. ASSUME NEW f \in Frames, OneFrame(f), UNCHANGED disc, SharedOK(f)' PROVE SharedInv'
    BY <1>0, <1>2 DEF OneFrame, SharedInv, SharedOK
  <1>3. ASSUME \/ \E p \in Dadrs : \/ next_page(c, p)
                                   \/ \E call \in {"fix_any_page", "fix_priv_page"} : fix_page(c, p, call)
               \/ wait_for_block(c) \/ retry_page(c) \/ sleep_for_frame(c) \/ no_frame(c)
        PROVE  SharedInv'
    BY <1>0, <1>1, <1>3, NextPageEff, FixPageEff, WaitForBlockEff, RetryPageEff, SleepForFrameEff,
       NoFrameEff DEF SameData
  <1>4. ASSUME retry_victim(c) \/ fix_err(c) \/ commit(c) \/ roll_back(c) \/ end_of_commit(c)
               \/ end_of_roll_back(c)
        PROVE  SharedInv'
    BY <1>1, <1>4, RetryVictimEff, FixErrEff, CommitEff, RollBackEff, EndOfCommitEff,
       EndOfRollBackEff DEF SameData
  <1>5. ASSUME NEW o \in Clients \cup {NoClient}, NeedFrame(c, o), UNCHANGED fcbs,
               op[c].at \in {"locked", "update"}
        PROVE  SharedInv'
    BY <1>1, <1>5, PageIs, NeedFrameEff
  <1>6. ASSUME fix_get_frame(c) \/ \E o \in Clients : update_swapped(c, o) PROVE SharedInv'
    BY <1>5, <1>6, FixGetFrameEff, UpdateSwappedEff
  <1>7. ASSUME NEW f \in Frames, get_frame(c, f) \/ get_frame_swapping(c, f) PROVE SharedInv'
    <2>1. OneFrame(f) /\ ~fcbs'[f].chained /\ UNCHANGED disc
      BY <1>0, <1>7, GetFrameEff, GotFrameEff, GetFrameSwappingEff DEF FcbIs
    <2> QED BY <1>2, <2>1 DEF SharedOK
  <1>8. ASSUME NEW f \in Frames, f = op[c].frame, OneFrame(op[c].frame), UNCHANGED disc,
               \/ ~fcbs'[f].chained \/ fcbs'[f].owner # NoClient \/ fcbs'[f].blockdadr = NoDadr
               \/ fcbs'[f].data = disc[fcbs'[f].blockdadr]
        PROVE  SharedInv'
    BY <1>2, <1>8 DEF SharedOK
  <1>9. ASSUME save_block(c) PROVE SharedInv'
    <2>1. op[c].at = "saving" /\ GotFrame(c, op[c].frame) /\ UNCHANGED disc
      BY <1>0, <1>9, SaveBlockEff
    <2>2. op[c].frame \in Frames
      BY <2>1, FrameIs DEF Getting
    <2>3. OneFrame(op[c].frame) /\ ~fcbs'[op[c].frame].chained
      BY <1>0, <2>1, <2>2, GotFrameEff DEF FcbIs
    <2> QED BY <1>8, <2>1, <2>2, <2>3
  <1>10. ASSUME save_block_fails(c) PROVE SharedInv'
    <2>1. /\ op[c].at = "saving" /\ OneFrame(op[c].frame) /\ UNCHANGED disc
          /\ fcbs'[op[c].frame].owner = fcbs[op[c].frame].owner
      BY <1>0, <1>10, SaveBlockFailsEff DEF FcbIs
    <2>2. op[c].frame \in Frames /\ fcbs[op[c].frame].owner \in Clients
      BY <1>0, <2>1, FrameIs, VictimIs DEF Getting
    <2> QED BY <1>8, <2>1, <2>2
  <1>11. ASSUME read_block(c) \/ read_block_fails(c) PROVE SharedInv'
    <2>1. /\ op[c].at = "reading" /\ OneFrame(op[c].frame) /\ UNCHANGED disc
          /\ \/ fcbs'[op[c].frame].blockdadr = NoDadr
             \/ fcbs'[op[c].frame].data = disc[fcbs'[op[c].frame].blockdadr]
      BY <1>11, ReadBlockEff, ReadBlockFailsEff DEF FcbIs
    <2>2. op[c].frame \in Frames
      BY <2>1, FrameIs DEF Getting
    <2> QED BY <1>8, <2>1, <2>2
  <1>12. ASSUME load_block(c) \/ load_changes(c) \/ load_other(c) PROVE SharedInv'
    <2>1. /\ op[c].at = "loading" /\ OneFrame(op[c].frame) /\ UNCHANGED disc
          /\ fcbs'[op[c].frame].owner = op[c].owner
      <3>1. ASSUME load_other(c)
            PROVE  /\ op[c].at = "loading" /\ OneFrame(op[c].frame) /\ UNCHANGED disc
                   /\ fcbs'[op[c].frame].owner = op[c].owner
        BY <3>1, LoadOtherEff DEF FcbIs
      <3>2. ASSUME load_changes(c)
            PROVE  /\ op[c].at = "loading" /\ OneFrame(op[c].frame) /\ UNCHANGED disc
                   /\ fcbs'[op[c].frame].owner = op[c].owner
        <4>1. /\ op[c].at = "loading" /\ op[c].owner = c /\ UNCHANGED disc
              /\ FcbIs(op[c].frame, op[c].page, c, TRUE, 1, TRUE, swaps[c][op[c].page].data)
          BY <3>2, LoadChangesEff
        <4> QED BY <4>1 DEF FcbIs
      <3>3. ASSUME load_block(c)
            PROVE  /\ op[c].at = "loading" /\ OneFrame(op[c].frame) /\ UNCHANGED disc
                   /\ fcbs'[op[c].frame].owner = op[c].owner
        BY <3>3, LoadBlockEff DEF FcbIs
      <3> QED BY <1>12, <3>1, <3>2, <3>3
    <2>2. op[c].frame \in Frames /\ op[c].owner # NoClient
      BY <1>0, <2>1, FrameIs DEF Getting, CallShape
    <2> QED BY <1>8, <2>1, <2>2
  \* A frame with the same page and contents.
  <1>13. ASSUME NEW f \in Frames, OneFrame(f), UNCHANGED disc,
                fcbs'[f].owner # NoClient \/ fcbs'[f].owner = fcbs[f].owner,
                fcbs'[f].blockdadr = fcbs[f].blockdadr, fcbs'[f].chained = fcbs[f].chained,
                fcbs'[f].owner # NoClient \/ fcbs'[f].data = fcbs[f].data
         PROVE  SharedInv'
    <2>1. SharedOK(f)
      BY <1>0 DEF SharedInv
    <2>2. SharedOK(f)'
      BY <1>13, <2>1 DEF SharedOK
    <2> QED BY <1>2, <1>13, <2>2
  <1>14. ASSUME NEW f \in Frames, fix_own(c, f) \/ unfix_page(c, f) PROVE SharedInv'
    BY <1>13, <1>14, FixOwnEff, UnfixPageEff DEF FcbIs
  <1>15. ASSUME NEW f \in Frames, fix_shared(c, f) PROVE SharedInv'
    <2>1. /\ UNCHANGED disc
          /\ \/ FcbIs(f, fcbs[f].blockdadr, c, FALSE, 1, fcbs[f].chained, fcbs[f].data)
             \/ FcbIs(f, fcbs[f].blockdadr, fcbs[f].owner, fcbs[f].dirty, fcbs[f].fixnum + 1,
                      fcbs[f].chained, fcbs[f].data)
      BY <1>15, FixSharedEff
    <2> QED BY <1>13, <2>1 DEF FcbIs
  <1>16. ASSUME NEW f \in Frames, rec_changed(c, f) PROVE SharedInv'
    <2>1. /\ UNCHANGED disc
          /\ FcbIs(f, fcbs[f].blockdadr, c, TRUE, fcbs[f].fixnum, fcbs[f].chained,
                   [fcbs[f].data EXCEPT ![c] = TRUE])
      BY <1>16, RecChangedEff
    <2> QED BY <1>13, <2>1 DEF FcbIs
  <1>17. ASSUME wr_changes(c) PROVE SharedInv'
    <2>1. /\ op[c].at = "locked"
          /\ \/ \E f \in CoreOf(c, op[c].page) :
                 /\ FcbIs(f, fcbs[f].blockdadr, fcbs[f].owner, fcbs[f].dirty, fcbs[f].fixnum + 1,
                          fcbs[f].chained, fcbs[f].data)
                 /\ UNCHANGED disc
             \/ NeedFrame(c, c) /\ UNCHANGED fcbs
      BY <1>17, WrChangesEff
    <2> QED BY <1>5, <1>13, <2>1 DEF FcbIs, CoreOf
  <1>18. ASSUME wr_nothing(c) PROVE SharedInv'
    <2>1. /\ op[c].at = "locked" /\ UNCHANGED disc
          /\ \A g \in Frames :
              /\ fcbs'[g].blockdadr = fcbs[g].blockdadr /\ fcbs'[g].chained = fcbs[g].chained
              /\ fcbs'[g].data = fcbs[g].data
              /\ fcbs'[g].owner = IF g \in CoreOf(c, op[c].page) THEN NoClient ELSE fcbs[g].owner
      BY <1>18, WrNothingEff
    <2>2. op[c].page \in Dadrs /\ disc[op[c].page][c] = mine[c][op[c].page]
      BY <1>18, <2>1, PageIs, NothingToWrite
    <2>3. ASSUME NEW g \in Frames PROVE SharedOK(g)'
      <3>1. CASE g \in CoreOf(c, op[c].page)
        <4>1. g \in Copies(c, op[c].page) /\ fcbs[g].blockdadr = op[c].page
          BY <3>1 DEF CoreOf, Copies
        <4>2. fcbs[g].data = disc[op[c].page]
          BY <2>2, <4>1, WrittenCopy
        <4> QED BY <2>1, <4>1, <4>2 DEF SharedOK
      <3>2. CASE g \notin CoreOf(c, op[c].page)
        <4>1. SharedOK(g)
          BY <1>0 DEF SharedInv
        <4> QED BY <2>1, <3>2, <4>1 DEF SharedOK
      <3> QED BY <3>1, <3>2
    <2> QED BY <2>3 DEF SharedInv
  <1>19. ASSUME write_block(c) PROVE SharedInv'
    <2>1. /\ op[c].at = "writing" /\ \A g \in Frames : UpdatedFcb(c, g)
          /\ \A q \in Dadrs : disc'[q] = IF q = op[c].page THEN fcbs[op[c].the].data ELSE disc[q]
      BY <1>19, WriteBlockEff
    <2>2. op[c].page \in Dadrs /\ op[c].the # NoFrame
      BY <1>0, <2>1, PageIs DEF CallShape
    <2>3. op[c].the \in Frames /\ op[c].the \in Copies(c, op[c].page)
      BY <2>2, TheCopy
    <2>4. \A e \in Clients \ {c} : fcbs[op[c].the].data[e] = disc[op[c].page][e]
      BY <2>2, <2>3, PairIs DEF CoreData
    <2>5. ASSUME NEW g \in Frames, fcbs'[g].chained, fcbs'[g].owner = NoClient,
                 fcbs'[g].blockdadr # NoDadr
          PROVE  fcbs'[g].data = disc'[fcbs'[g].blockdadr]
      <3>1. UpdatedFcb(c, g) /\ SharedOK(g)
        BY <1>0, <2>1 DEF SharedInv
      <3>2. /\ fcbs[g].chained /\ fcbs[g].owner = NoClient /\ fcbs[g].blockdadr # NoDadr
            /\ fcbs'[g].blockdadr = fcbs[g].blockdadr /\ fcbs[g].blockdadr \in Dadrs
        BY <2>5, <3>1 DEF UpdatedFcb, FrameInv, FcbInv, Fcb
      <3>3. fcbs[g].data = disc[fcbs[g].blockdadr]
        BY <3>1, <3>2 DEF SharedOK
      <3>4. g # op[c].the
        BY <2>3, <3>2 DEF Copies
      <3>5. CASE fcbs[g].blockdadr = op[c].page
        <4>1. fcbs'[g].data = [fcbs[g].data EXCEPT ![c] = fcbs[op[c].the].data[c]]
          BY <3>1, <3>2, <3>4, <3>5 DEF UpdatedFcb
        <4>2. /\ fcbs[g].data \in [Clients -> BOOLEAN]
              /\ fcbs[op[c].the].data \in [Clients -> BOOLEAN]
          BY <2>3 DEF FrameInv, FcbInv, Fcb, Contents
        <4>3. /\ fcbs'[g].data \in Contents /\ fcbs[op[c].the].data \in Contents
              /\ \A e \in Clients : fcbs'[g].data[e] = fcbs[op[c].the].data[e]
          BY <2>4, <3>3, <3>5, <4>1, <4>2 DEF Contents
        <4>4. fcbs'[g].data = fcbs[op[c].the].data
          BY <4>3, SameContents
        <4> QED BY <2>1, <2>2, <3>2, <3>5, <4>4
      <3>6. CASE fcbs[g].blockdadr # op[c].page
        <4>1. fcbs'[g].data = fcbs[g].data
          BY <3>1, <3>6 DEF UpdatedFcb
        <4> QED BY <2>1, <3>2, <3>3, <3>6, <4>1
      <3> QED BY <3>5, <3>6
    <2> QED BY <2>5 DEF SharedInv, SharedOK
  <1>20. ASSUME wr_end(c) PROVE SharedInv'
    <2>1. /\ op[c].at = "update" /\ op[c].the \in Frames /\ OneFrame(op[c].the) /\ UNCHANGED disc
          /\ fcbs'[op[c].the].blockdadr = fcbs[op[c].the].blockdadr
          /\ fcbs'[op[c].the].data = fcbs[op[c].the].data
      BY <1>20, WrEndEff DEF FcbIs
    <2>2. op[c].the # NoFrame /\ op[c].page \in Dadrs
      BY <1>0, <2>1, PageIs DEF CallShape
    <2>3. op[c].the \in Copies(c, op[c].page) /\ disc[op[c].page][c] = mine[c][op[c].page]
      BY <2>1, <2>2, TheCopy, PageWritten
    <2>4. fcbs[op[c].the].data = disc[op[c].page] /\ fcbs[op[c].the].blockdadr = op[c].page
      BY <2>2, <2>3, WrittenCopy DEF Copies
    <2>5. PICK f \in Frames : f = op[c].the
      BY <2>1
    <2>6. SharedOK(f)'
      BY <2>1, <2>4, <2>5 DEF SharedOK
    <2> QED BY <1>2, <2>1, <2>5, <2>6
  <1>21. ASSUME remove_changes(c) PROVE SharedInv'
    <2>1. /\ op[c].at = "locked" /\ UNCHANGED disc
          /\ \/ UNCHANGED fcbs
             \/ \E f \in CoreOf(c, op[c].page) :
                 \/ FcbIs(f, NoDadr, NoClient, FALSE, 0, TRUE, Blank)
                 \/ \E d : FcbIs(f, fcbs[f].blockdadr, fcbs[f].owner, fcbs[f].dirty,
                                 fcbs[f].fixnum, fcbs[f].chained, d)
      BY <1>0, <1>21, RemoveChangesEff
    <2>2. ASSUME NEW f \in CoreOf(c, op[c].page), FcbIs(f, NoDadr, NoClient, FALSE, 0, TRUE, Blank)
          PROVE  SharedInv'
      BY <1>2, <2>1, <2>2 DEF FcbIs, CoreOf, SharedOK
    <2>3. ASSUME NEW f \in CoreOf(c, op[c].page), NEW d,
                 FcbIs(f, fcbs[f].blockdadr, fcbs[f].owner, fcbs[f].dirty, fcbs[f].fixnum,
                       fcbs[f].chained, d)
          PROVE  SharedInv'
      BY <1>13, <2>1, <2>3 DEF FcbIs, CoreOf
    <2> QED BY <1>1, <2>1, <2>2, <2>3
  <1> QED
    BY <1>3, <1>4, <1>6, <1>7, <1>9, <1>10, <1>11, <1>12, <1>14, <1>15, <1>16, <1>17, <1>18, <1>19,
       <1>20, <1>21 DEF CacheStep

-----------------------------------------------------------------------------
\* How calls go on.

\* c goes on and loads the same page.
LEMMA CallMoves ==
  ASSUME NEW c \in Clients, NEW at, NEW f, OpAt(c, at, op[c].owner, op[c].the, f),
         op[c].at \notin {"saving", "writing"}, at \notin {"saving", "writing"},
         op[c].at \in {"locking", "locked"} => at \in {"locking", "locked"},
         NEW o \in Clients, NEW p \in Dadrs
  PROVE  CallCopies(c, o, p) /\ CallData(c, o, p)
  <1>1. CallCopies(c, o, p)
    BY DEF OpAt, OpIs, CallCopies, Saves, Reads1
  <1>2. CallData(c, o, p)
    BY DEF OpAt, OpIs, CallData, Updating, Finished, Written
  <1> QED BY <1>1, <1>2

\* A call other than commit ends.
LEMMA CallEnds ==
  ASSUME NEW c \in Clients, OpIdle(c), op[c].at # "saving", op[c].call # "commit",
         NEW o \in Clients, NEW p \in Dadrs, ~(op[c].page = p /\ op[c].owner = o)
  PROVE  CallCopies(c, o, p) /\ CallData(c, o, p)
  <1> USE NoClientAssumption, NoDadrAssumption
  <1>1. CallCopies(c, o, p)
    BY DEF OpIdle, OpIs, CallCopies, Saves, Reads1
  <1>2. CallData(c, o, p)
    BY DEF OpIdle, OpIs, CallData, Updating, Finished, Written
  <1> QED BY <1>1, <1>2

\* A page is done: nothing changes for the other pages.
LEMMA PageEnds ==
  ASSUME NEW c \in Clients, OpNext(c), op[c].at \notin {"saving", "writing"}, op[c].owner = NoClient,
         NEW o \in Clients, NEW p \in Dadrs
  PROVE  /\ op[c].call \in {"commit", "roll_back"} => CallCopies(c, o, p)
         /\ p # op[c].page \/ op[c].call # "commit" \/ (o # c /\ op[c].the = NoFrame) =>
               CallData(c, o, p)
  <1> USE NoClientAssumption, NoDadrAssumption
  <1>1. op[c].call \in {"commit", "roll_back"} => CallCopies(c, o, p)
    BY DEF OpNext, OpIs, CallCopies, Saves, Reads1
  <1>2. p # op[c].page \/ op[c].call # "commit" \/ (o # c /\ op[c].the = NoFrame) =>
               CallData(c, o, p)
    BY DEF OpNext, OpIs, CallData, Updating, Finished, Written
  <1> QED BY <1>1, <1>2

\* A page is begun with.
LEMMA PageBegins ==
  ASSUME NEW c \in Clients, NEW call, NEW q, NEW todo, OpLock(c, call, q, todo),
         op[c].at \in {"run", "next"}, CallShape(c),
         \/ call # "commit" /\ op[c].call # "commit"
         \/ call = op[c].call /\ q \in op[c].todo /\ todo = op[c].todo \ {q},
         NEW o \in Clients, NEW p \in Dadrs
  PROVE  CallCopies(c, o, p) /\ CallData(c, o, p)
  <1> USE NoClientAssumption, NoDadrAssumption
  <1>1. op[c].owner = NoClient /\ op[c].the = NoFrame /\ op[c].page = NoDadr
    BY DEF CallShape, Loads
  <1>2. CallCopies(c, o, p)
    BY <1>1 DEF OpLock, OpIs, CallCopies, Saves, Reads1
  <1>3. CallData(c, o, p)
    BY <1>1 DEF OpLock, OpIs, CallData, Updating, Finished, Written
  <1> QED BY <1>2, <1>3

\* A step that leaves the transactions alone.
LEMMA TranSame ==
  ASSUME SameTran, NEW o \in Clients, NEW p \in Dadrs
  PROVE  TranStays(o, p)
  BY DEF SameTran, TranStays

\* A step on the call only.
LEMMA CallOnly ==
  ASSUME Good, NEW c \in Clients, VictimsStay(c), UNCHANGED <<fcbs, swaps, disc>>, SameTran,
         NEW o \in Clients, NEW p \in Dadrs, CallCopies(c, o, p), CallData(c, o, p)
  PROVE  PairOK(o, p)'
  BY PairIs, PairStep, NoCopyStep, TranSame

\* Steps that change nothing but the call, and perhaps wait.
LEMMA PairsQuiet ==
  ASSUME FrameInv, Good, NEW c \in Clients, VictimsStay(c), NEW o \in Clients, NEW p \in Dadrs,
         \/ \E q \in Dadrs : \/ next_page(c, q)
                             \/ \E call \in {"fix_any_page", "fix_priv_page"} : fix_page(c, q, call)
         \/ wait_for_block(c) \/ retry_page(c) \/ sleep_for_frame(c) \/ no_frame(c)
         \/ commit(c) \/ roll_back(c)
  PROVE  PairOK(o, p)'
  <1>0. CallTypes /\ CallShape(c) /\ TranShape(c)
    BY Typed DEF Good, CallsInv
  <1> USE NoClientAssumption, NoDadrAssumption, NoFrameAssumption
  <1>1. ASSUME NEW q \in Dadrs, next_page(c, q) PROVE PairOK(o, p)'
    <2>1. /\ op[c].at = "next" /\ q \in op[c].todo /\ OpLock(c, op[c].call, q, op[c].todo \ {q})
          /\ SameData
      BY <1>0, <1>1, NextPageEff
    <2>2. CallCopies(c, o, p) /\ CallData(c, o, p)
      BY <1>0, <2>1, PageBegins
    <2> QED BY <2>1, <2>2, CallOnly DEF SameData
  <1>2. ASSUME NEW q \in Dadrs, NEW call \in {"fix_any_page", "fix_priv_page"}, fix_page(c, q, call)
        PROVE  PairOK(o, p)'
    <2>1. op[c].at = "run" /\ OpLock(c, call, q, {}) /\ SameData
      BY <1>0, <1>2, FixPageEff
    <2>2. op[c].call # "commit"
      BY <1>0, <2>1 DEF CallShape
    <2>3. CallCopies(c, o, p) /\ CallData(c, o, p)
      BY <1>0, <2>1, <2>2, PageBegins
    <2> QED BY <2>1, <2>3, CallOnly DEF SameData
  <1>3. ASSUME UNCHANGED op, SameData PROVE PairOK(o, p)'
    <2>1. CallCopies(c, o, p)
      BY <1>3 DEF CallCopies, Saves, VictimPage, Reads1, SameData
    <2>2. CallData(c, o, p)
      BY <1>3 DEF CallData, Updating, Finished, Written
    <2> QED BY <1>3, <2>1, <2>2, CallOnly DEF SameData
  <1>4. ASSUME wait_for_block(c) \/ sleep_for_frame(c) PROVE PairOK(o, p)'
    BY <1>3, <1>4, WaitForBlockEff, SleepForFrameEff
  <1>5. ASSUME retry_page(c) \/ no_frame(c) PROVE PairOK(o, p)'
    <2>1. /\ SameData
          /\ \/ op[c].at = "locking" /\ OpAt(c, "locked", op[c].owner, op[c].the, op[c].frame)
             \/ op[c].at = "get_frame" /\ OpAt(c, "error", op[c].owner, op[c].the, op[c].frame)
             \/ UNCHANGED op
      BY <1>0, <1>5, RetryPageEff, NoFrameEff
    <2>2. CASE UNCHANGED op
      BY <1>3, <2>1, <2>2
    <2>3. CASE op[c].at = "locking" /\ OpAt(c, "locked", op[c].owner, op[c].the, op[c].frame)
      <3>1. CallCopies(c, o, p) /\ CallData(c, o, p)
        BY <2>3, CallMoves
      <3> QED BY <2>1, <3>1, CallOnly DEF SameData
    <2>4. CASE op[c].at = "get_frame" /\ OpAt(c, "error", op[c].owner, op[c].the, op[c].frame)
      <3>1. CallCopies(c, o, p) /\ CallData(c, o, p)
        <4>1. /\ op[c].at \notin {"saving", "writing"} /\ "error" \notin {"saving", "writing"}
              /\ op[c].at \notin {"locking", "locked"}
          BY <2>4
        <4> QED BY <2>4, <4>1, CallMoves
      <3> QED BY <2>1, <3>1, CallOnly DEF SameData
    <2> QED BY <2>1, <2>2, <2>3, <2>4
  <1>6. ASSUME commit(c) \/ roll_back(c) PROVE PairOK(o, p)'
    <2>1. \E call \in {"commit", "roll_back"} :
             /\ op[c].at = "run" /\ SameData
             /\ OpIs(c, call, "next", NoDadr, NoClient, NoFrame, NoFrame, log[c])
      BY <1>6, CommitEff, RollBackEff
    <2>2. op[c].call = "none" /\ op[c].page = NoDadr /\ op[c].owner = NoClient /\ changed[c] \subseteq log[c]
      BY <1>0, <2>1 DEF CallShape, TranShape, Loads
    <2>3. CallCopies(c, o, p)
      BY <2>1, <2>2 DEF OpIs, CallCopies, Saves, Reads1
    <2>4. CallData(c, o, p)
      BY <2>1, <2>2 DEF OpIs, CallData, Updating, Finished, Written
    <2> QED BY <2>1, <2>3, <2>4, CallOnly DEF SameData
  <1> QED BY <1>1, <1>2, <1>4, <1>5, <1>6

\* c asks for a frame for a page of the file, or for the swapped copy of o1.
LEMMA PairsNeedFrame ==
  ASSUME FrameInv, Inv, Good, NEW c \in Clients, VictimsStay(c), NEW o \in Clients, NEW p \in Dadrs,
         NEW o1 \in Clients \cup {NoClient}, NeedFrame(c, o1), UNCHANGED fcbs,
         op[c].at \in {"locked", "update"}, o1 \in Clients => Swapped(o1, op[c].page),
         o1 = NoClient => Copies(c, op[c].page) = {} /\ swaps[c][op[c].page].is = "none"
  PROVE  PairOK(o, p)'
  <1> USE NoClientAssumption
  <1>0. op[c].page \in Dadrs /\ op[c].owner = NoClient /\ HoldsPage(c)
    BY PageIs DEF Good, CallsInv, CallShape, Loads, HoldsPage
  <1>1. /\ OpAt(c, "get_frame", o1, op[c].the, op[c].frame) /\ SameTran /\ UNCHANGED disc
        /\ o1 = NoClient => UNCHANGED swaps
        /\ o1 \in Clients => SwapIs(o1, op[c].page, "taken", swaps[o1][op[c].page].data)
    BY <1>0, NeedFrameEff
  <1>2. CallData(c, o, p)
    BY <1>1 DEF OpAt, OpIs, CallData, Updating, Finished, Written
  <1>3. TranStays(o, p)
    BY <1>1, TranSame
  <1>4. CASE ~(o = o1 /\ p = op[c].page)
    <2>1. CallCopies(c, o, p)
      BY <1>0, <1>1, <1>4 DEF OpAt, OpIs, CallCopies, Saves, Reads1
    <2>2. swaps'[o][p] = swaps[o][p]
      BY <1>1, <1>4 DEF SwapIs, OneSwap
    <2> QED BY <1>1, <1>2, <1>3, <2>1, <2>2, PairIs, PairStep, NoCopyStep
  <1>5. CASE o = o1 /\ p = op[c].page
    <2>1. swaps[o][p].is = "saved"
      BY <1>5, LockedSwaps DEF Swapped
    <2>2. swaps'[o][p].is = "taken" /\ swaps'[o][p].data = swaps[o][p].data
      BY <1>1, <1>5 DEF SwapIs
    <2>3. OneCopy(o, p)
      BY PairIs
    <2>4. Copies(o, p) = {} /\ Copies(o, p)' = {}
      BY <2>1, <2>3 DEF OneCopy, Copies
    <2>5. CopyStays(o, p)
      BY <1>1, <2>1, <2>2, <2>4 DEF CopyStays, Found
    <2>6. DataPair(o, p)'
      BY <1>2, <1>3, <2>5, PairIs, DataPairStep DEF PairOK
    <2>7. \A e \in Clients : ~Saves(e, o, p)'
      BY <1>1, <2>1, <2>3 DEF OneCopy, Saves, VictimPage, VictimsStay, OpAt, OpIs
    <2>8. op'[c].page = p /\ op'[c].owner = o
      BY <1>1, <1>5 DEF OpAt, OpIs
    <2>9. OneCopy(o, p)'
      BY <2>2, <2>4, <2>7, <2>8 DEF OneCopy
    <2>10. NoCopyYet(o, p)'
      <3>1. CASE o = c
        BY <2>8, <3>1 DEF NoCopyYet
      <3>2. CASE o # c
        <4>1. ~Reads1(o, p)
          <5> SUFFICES ASSUME Reads1(o, p) PROVE FALSE
            OBVIOUS
          <5>1. HoldsPage(o) /\ op[o].page = op[c].page
            BY <1>5, NoDadrAssumption DEF Reads1, HoldsPage, Good, CallsInv, CallShape
          <5>2. PagesApart
            BY LockedApart DEF Good
          <5> QED BY <1>0, <3>2, <5>1, <5>2 DEF PagesApart
        <4> QED BY <3>2, <4>1 DEF VictimsStay, NoCopyYet, Reads1
      <3> QED BY <3>1, <3>2
    <2> QED BY <2>6, <2>9, <2>10 DEF PairOK, CopyPair
  <1> QED BY <1>4, <1>5

\* fix_get_frame and update_swapped keep the copies.
LEMMA PairsAsk ==
  ASSUME FrameInv, Inv, Good, NEW c \in Clients, VictimsStay(c), NEW o \in Clients, NEW p \in Dadrs,
         fix_get_frame(c) \/ \E o1 \in Clients : update_swapped(c, o1)
  PROVE  PairOK(o, p)'
  <1>1. ASSUME fix_get_frame(c) PROVE PairOK(o, p)'
    <2>1. /\ op[c].at = "locked" /\ UNCHANGED fcbs
          /\ CoreOf(c, op[c].page) = {} /\ <<c, op[c].page>> \notin OutOfChains
          /\ \/ Swapped(c, op[c].page) /\ NeedFrame(c, c)
             \/ ~Swapped(c, op[c].page) /\ NeedFrame(c, NoClient)
      BY <1>1, FixGetFrameEff
    <2>2. Copies(c, op[c].page) = {}
      BY <2>1, AllInCore
    <2>3. swaps[c][op[c].page].is \in {"none", "saved"}
      BY <2>1, LockedSwaps
    <2> QED BY <2>1, <2>2, <2>3, NoClientAssumption, PairsNeedFrame DEF Swapped
  <1>2. ASSUME NEW o1 \in Clients, update_swapped(c, o1) PROVE PairOK(o, p)'
    BY <1>2, UpdateSwappedEff, NoClientAssumption, PairsNeedFrame
  <1> QED BY <1>1, <1>2

-----------------------------------------------------------------------------
\* get_frame and the calls that fix pages.

\* Nobody else reads a page that c has locked.
LEMMA NoOtherReads ==
  ASSUME FrameInv, Inv, Good, NEW c \in Clients, HoldsPage(c), op[c].page \in Dadrs,
         NEW o \in Clients \ {c}
  PROVE  ~Reads1(o, op[c].page)
  <1> SUFFICES ASSUME Reads1(o, op[c].page) PROVE FALSE
    OBVIOUS
  <1>1. HoldsPage(o) /\ op[o].page = op[c].page
    BY NoDadrAssumption DEF Reads1, HoldsPage, Good, CallsInv, CallShape
  <1>2. PagesApart
    BY LockedApart DEF Good
  <1> QED BY <1>1, <1>2 DEF PagesApart

\* The steps of get_frame leave the transactions alone.
LEMMA GettingData ==
  ASSUME NEW c \in Clients, NEW at, NEW f, OpAt(c, at, op[c].owner, op[c].the, f),
         op[c].at # "writing", at # "writing", NEW o \in Clients, NEW p \in Dadrs
  PROVE  CallData(c, o, p)
  BY DEF OpAt, OpIs, CallData, Updating, Finished, Written

\* The frame that a call gets for a page.
LEMMA PairsGetFrame ==
  ASSUME FrameInv, Inv, Good, NEW c \in Clients, VictimsStay(c), NEW o \in Clients, NEW p \in Dadrs,
         NEW f \in Frames, get_frame(c, f)
  PROVE  PairOK(o, p)'
  <1>0. CallTypes
    BY Typed
  <1>1. /\ op[c].at = "get_frame" /\ f \in Victims /\ ~MustSwap(f) /\ GotFrame(c, f)
        /\ UNCHANGED <<swaps, disc>> /\ SameTran
    BY GetFrameEff
  <1>2. /\ \E at \in {"reading", "loading"} : OpAt(c, at, op[c].owner, op[c].the, f)
        /\ OneFrame(f) /\ fcbs'[f].owner = NoClient
    BY <1>0, <1>1, GotFrameEff DEF FcbIs
  <1>3. CallCopies(c, o, p) /\ CallData(c, o, p)
    <2>1. PICK at \in {"reading", "loading"} : OpAt(c, at, op[c].owner, op[c].the, f)
      BY <1>2
    <2>2. op[c].at \notin {"saving", "writing", "locking", "locked"} /\ at \notin {"saving", "writing"}
      BY <1>1, <2>1
    <2> QED BY <2>1, <2>2, CallMoves
  <1>4. ~(f \in Copies(o, p) /\ fcbs[f].dirty)
    <2> SUFFICES ASSUME f \in Copies(o, p), fcbs[f].dirty PROVE FALSE
      OBVIOUS
    <2>1. fcbs[f].owner = o /\ fcbs[f].blockdadr = p /\ o # NoClient /\ p # NoDadr
      BY NoClientAssumption, NoDadrAssumption DEF Copies
    <2>2. Swapped(o, p) /\ ~IsLocked(p)
      BY <1>1, <2>1 DEF MustSwap, Victims
    <2>3. OneCopy(o, p)
      BY PairIs
    <2>4. PICK e \in Clients : Saves(e, o, p)
      BY <2>2, <2>3 DEF OneCopy, Swapped
    <2>5. PagesLocked
      BY LockedApart DEF Good
    <2> QED BY <2>2, <2>4, <2>5 DEF Saves, PagesLocked
  <1>5. f \notin Copies(o, p)'
    BY <1>2, NoClientAssumption DEF Copies
  <1>6. CopyStays(o, p)
    BY <1>1, <1>2, <1>4, <1>5, FrameCopies
  <1> QED BY <1>1, <1>3, <1>6, PairIs, PairStep, TranSame

\* A frame is being swapped: its swap control block is in the chain.
LEMMA PairsSwapping ==
  ASSUME FrameInv, Good, NEW c \in Clients, VictimsStay(c), NEW o \in Clients, NEW p \in Dadrs,
         NEW f \in Frames, NEW o1 \in Clients, NEW p1 \in Dadrs,
         fcbs[f].owner = o1, fcbs[f].blockdadr = p1, op[c].at \in {"get_frame", "victim"},
         \A g \in Frames : /\ fcbs'[g].owner = fcbs[g].owner /\ fcbs'[g].blockdadr = fcbs[g].blockdadr
                           /\ fcbs'[g].dirty = fcbs[g].dirty /\ fcbs'[g].data = fcbs[g].data,
         SwapIs(o1, p1, "saving", Blank), OpAt(c, "saving", op[c].owner, op[c].the, f),
         UNCHANGED disc, SameTran
  PROVE  PairOK(o, p)'
  <1>1. CallData(c, o, p) /\ TranStays(o, p)
    BY GettingData, TranSame
  <1>2. Copies(o, p)' = Copies(o, p)
    BY DEF Copies
  <1>3. /\ op'[c].at = "saving" /\ op'[c].frame = f /\ op'[c].page = op[c].page
        /\ op'[c].owner = op[c].owner /\ op'[c].call = op[c].call
    BY DEF OpAt, OpIs
  <1>4. Reads1(o, p)' => Reads1(o, p)
    BY <1>3 DEF Reads1, VictimsStay
  <1>5. /\ \A g \in Copies(o, p) : fcbs'[g].data = fcbs[g].data /\ fcbs'[g].dirty = fcbs[g].dirty
    BY DEF Copies
  <1>6. CASE ~(o = o1 /\ p = p1)
    <2>1. swaps'[o][p] = swaps[o][p]
      BY <1>6 DEF SwapIs, OneSwap
    <2>2. CopyStays(o, p)
      BY <1>2, <1>5, <2>1 DEF CopyStays, Found
    <2>3. CallCopies(c, o, p)
      BY <1>3, <1>4, <1>6 DEF CallCopies, Saves, VictimPage
    <2> QED BY <1>1, <2>1, <2>2, <2>3, PairIs, PairStep
  <1>7. CASE o = o1 /\ p = p1
    <2>1. f \in Copies(o, p)
      BY <1>7 DEF Copies
    <2>2. OneCopy(o, p) /\ NoCopyYet(o, p) /\ PairOK(o, p)
      BY PairIs
    <2>3. swaps[o][p].is \in {"none", "saving"} /\ swaps'[o][p].is = "saving"
      BY <1>7, <2>1, <2>2 DEF OneCopy, SwapIs
    <2>4. CopyStays(o, p)
      BY <1>2, <1>5, <2>3 DEF CopyStays, Found
    <2>5. DataPair(o, p)'
      BY <1>1, <2>2, <2>4, DataPairStep DEF PairOK
    <2>6. Saves(c, o, p)'
      BY <1>3, <1>7 DEF Saves, VictimPage
    <2>7. \A e \in Clients : ~(op'[e].page = p /\ op'[e].owner = o)
      BY <1>3, <2>2, <2>3 DEF OneCopy, VictimsStay
    <2>8. OneCopy(o, p)'
      BY <1>2, <2>2, <2>3, <2>6, <2>7 DEF OneCopy
    <2>9. NoCopyYet(o, p)'
      BY <1>4, <2>1, <2>2 DEF NoCopyYet, Reads1
    <2> QED BY <2>5, <2>8, <2>9 DEF PairOK, CopyPair
  <1> QED BY <1>6, <1>7

\* retry_victim and get_frame_swapping keep the copies.
LEMMA PairsBeginSwap ==
  ASSUME FrameInv, Inv, Good, NEW c \in Clients, VictimsStay(c), NEW o \in Clients, NEW p \in Dadrs,
         retry_victim(c) \/ \E f \in Frames : get_frame_swapping(c, f)
  PROVE  PairOK(o, p)'
  <1>0. CallTypes /\ UseInv
    BY Typed DEF Good
  <1>1. ASSUME NEW f \in Frames, get_frame_swapping(c, f) PROVE PairOK(o, p)'
    <2>1. /\ op[c].at = "get_frame" /\ MustSwap(f) /\ UNCHANGED disc /\ SameTran
          /\ FcbIs(f, fcbs[f].blockdadr, fcbs[f].owner, fcbs[f].dirty, 1, FALSE, fcbs[f].data)
          /\ \/ OpAt(c, "saving", op[c].owner, op[c].the, f) /\ BeginSwap(c, f)
             \/ OpAt(c, "victim", op[c].owner, op[c].the, f) /\ UNCHANGED swaps
      BY <1>1, GetFrameSwappingEff
    <2>2. fcbs[f].owner \in Clients /\ fcbs[f].blockdadr \in Dadrs
      BY <2>1 DEF MustSwap, FrameInv, FcbInv, PrivateHasPage, Fcb
    <2>3. \A g \in Frames : /\ fcbs'[g].owner = fcbs[g].owner /\ fcbs'[g].blockdadr = fcbs[g].blockdadr
                            /\ fcbs'[g].dirty = fcbs[g].dirty /\ fcbs'[g].data = fcbs[g].data
      BY <2>1 DEF FcbIs, OneFrame
    <2>4. CASE OpAt(c, "saving", op[c].owner, op[c].the, f) /\ BeginSwap(c, f)
      <3>1. SwapIs(fcbs[f].owner, fcbs[f].blockdadr, "saving", Blank)
        BY <1>0, <2>2, <2>4, BeginSwapEff
      <3> QED BY <2>1, <2>2, <2>3, <2>4, <3>1, PairsSwapping
    <2>5. CASE OpAt(c, "victim", op[c].owner, op[c].the, f) /\ UNCHANGED swaps
      <3>1. CallCopies(c, o, p) /\ CallData(c, o, p)
        <4>1. op[c].at \notin {"saving", "writing", "locking", "locked"}
              /\ "victim" \notin {"saving", "writing"}
          BY <2>1
        <4> QED BY <2>5, <4>1, CallMoves
      <3>2. CopyStays(o, p)
        BY <2>1, <2>3, <2>5 DEF CopyStays, Copies, Found
      <3> QED BY <2>1, <2>5, <3>1, <3>2, PairIs, PairStep, TranSame
    <2> QED BY <2>1, <2>4, <2>5
  <1>2. ASSUME retry_victim(c) PROVE PairOK(o, p)'
    <2>1. /\ op[c].at = "victim" /\ UNCHANGED <<fcbs, disc>> /\ SameTran
          /\ \/ /\ OpAt(c, "saving", op[c].owner, op[c].the, op[c].frame)
                /\ BeginSwap(c, op[c].frame)
             \/ UNCHANGED <<op, swaps>>
      BY <1>2, RetryVictimEff
    <2>2. op[c].frame \in Frames /\ fcbs[op[c].frame].owner \in Clients
          /\ fcbs[op[c].frame].blockdadr \in Dadrs
      BY <1>0, <2>1, FrameIs, VictimIs DEF Getting
    <2>3. CASE UNCHANGED <<op, swaps>>
      <3>1. CallCopies(c, o, p) /\ CallData(c, o, p)
        BY <2>1, <2>3 DEF CallCopies, CallData, Saves, VictimPage, Reads1, Updating, Finished, Written
      <3> QED BY <2>1, <2>3, <3>1, CallOnly
    <2>4. CASE OpAt(c, "saving", op[c].owner, op[c].the, op[c].frame) /\ BeginSwap(c, op[c].frame)
      <3>1. SwapIs(fcbs[op[c].frame].owner, fcbs[op[c].frame].blockdadr, "saving", Blank)
        BY <1>0, <2>2, <2>4, BeginSwapEff
      <3>2. \E f \in Frames, o1 \in Clients, p1 \in Dadrs :
               f = op[c].frame /\ o1 = fcbs[f].owner /\ p1 = fcbs[f].blockdadr
        BY <2>2
      <3> QED BY <2>1, <2>4, <3>1, <3>2, PairsSwapping
    <2> QED BY <2>1, <2>3, <2>4
  <1> QED BY <1>1, <1>2

\* Two calls do not swap the same copy.
LEMMA OneSaver ==
  ASSUME FrameInv, Good, NEW c \in Clients, op[c].at = "saving",
         NEW o \in Clients, NEW p \in Dadrs, fcbs[op[c].frame].owner = o, VictimPage(c) = p
  PROVE  /\ op[c].frame \in Frames /\ op[c].frame \in Copies(o, p)
         /\ \A g \in Copies(o, p) : g = op[c].frame
         /\ swaps[o][p].is = "saving" /\ \A e \in Clients \ {c} : ~Saves(e, o, p)
         /\ \A e \in Clients : ~(op[e].page = p /\ op[e].owner = o)
         /\ ~Reads1(o, p)
  <1>1. op[c].frame \in Frames /\ op[c].frame \in Copies(o, p)
    BY FrameIs DEF Getting, Copies, VictimPage
  <1>2. OneCopy(o, p) /\ NoCopyYet(o, p)
    BY PairIs
  <1>3. \A g \in Copies(o, p) : g = op[c].frame
    BY <1>1, <1>2 DEF OneCopy
  <1>4. Saves(c, o, p) /\ swaps[o][p].is = "saving"
    BY <1>2 DEF OneCopy, Saves
  <1>5. ASSUME NEW e \in Clients \ {c}, Saves(e, o, p) PROVE FALSE
    <2>1. op[e].frame \in Frames /\ op[e].frame \in Copies(o, p)
      BY <1>5, FrameIs DEF Getting, Copies, VictimPage, Saves
    <2>2. op[e].frame = op[c].frame
      BY <1>3, <2>1
    <2> QED BY <1>1, <2>2, NotGot DEF Uses, Good
  <1>6. ~Reads1(o, p)
    BY <1>1, <1>2 DEF NoCopyYet, Reads1
  <1>7. \A e \in Clients : ~(op[e].page = p /\ op[e].owner = o)
    BY <1>2, <1>4 DEF OneCopy
  <1> QED BY <1>1, <1>3, <1>4, <1>5, <1>6, <1>7

-----------------------------------------------------------------------------
\* A copy is written to the swap file.
LEMMA PairsSaved ==
  ASSUME FrameInv, Inv, Good, NEW c \in Clients, VictimsStay(c), NEW o \in Clients, NEW p \in Dadrs,
         save_block(c)
  PROVE  PairOK(o, p)'
  <1> USE NoClientAssumption
  <1>0. CallTypes /\ UseInv
    BY Typed DEF Good
  <1>1. /\ op[c].at = "saving" /\ GotFrame(c, op[c].frame) /\ UNCHANGED disc /\ SameTran
        /\ SwapIs(fcbs[op[c].frame].owner, VictimPage(c), "saved", fcbs[op[c].frame].data)
    BY <1>0, SaveBlockEff
  <1>2. PICK f \in Frames, o1 \in Clients, p1 \in Dadrs :
            f = op[c].frame /\ o1 = fcbs[f].owner /\ p1 = fcbs[f].blockdadr
    BY <1>0, <1>1, FrameIs, VictimIs DEF Getting
  <1>3. PICK at \in {"reading", "loading"} :
            OpAt(c, at, op[c].owner, op[c].the, f) /\ OneFrame(f) /\ fcbs'[f].owner = NoClient
    BY <1>0, <1>1, <1>2, GotFrameEff DEF FcbIs
  <1>4. CallData(c, o, p) /\ TranStays(o, p)
    BY <1>1, <1>3, GettingData, TranSame
  <1>5. f \notin Copies(o, p)' /\ \A g \in Frames \ {f} : fcbs'[g] = fcbs[g]
    BY <1>3 DEF Copies, OneFrame
  <1>6. /\ op'[c].at # "saving" /\ op'[c].page = op[c].page /\ op'[c].owner = op[c].owner
        /\ op'[c].call = op[c].call
    BY <1>3 DEF OpAt, OpIs
  <1>7. Reads1(o, p)' => Reads1(o, p)
    BY <1>1, <1>6 DEF Reads1, VictimsStay
  <1>8. SwapIs(o1, p1, "saved", fcbs[f].data)
    BY <1>1, <1>2 DEF VictimPage
  <1>9. CASE o = o1 /\ p = p1
    <2>1. /\ \A g \in Copies(o, p) : g = f
          /\ f \in Copies(o, p)
          /\ \A e \in Clients \ {c} : ~Saves(e, o, p)
          /\ \A e \in Clients : ~(op[e].page = p /\ op[e].owner = o)
          /\ ~Reads1(o, p)
      BY <1>1, <1>2, <1>9, OneSaver DEF VictimPage
    <2>2. Copies(o, p)' = {}
      BY <1>5, <2>1 DEF Copies
    <2>3. swaps'[o][p].is = "saved" /\ swaps'[o][p].data = fcbs[f].data
      BY <1>8, <1>9 DEF SwapIs
    <2>4. \A e \in Clients : ~Saves(e, o, p)'
      BY <1>6, <2>1 DEF Saves, VictimPage, VictimsStay
    <2>5. \A e \in Clients : ~(op'[e].page = p /\ op'[e].owner = o)
      BY <1>6, <2>1 DEF VictimsStay
    <2>6. OneCopy(o, p)'
      BY <2>2, <2>3, <2>4, <2>5 DEF OneCopy
    <2>7. NoCopyYet(o, p)'
      BY <1>7, <2>1 DEF NoCopyYet, Reads1
    <2>8. CoreData(o, p) /\ FileData(o, p)
      BY PairIs
    <2>9. CoreData(o, p)'
      BY <2>2 DEF CoreData
    <2>10. SwapData(o, p)'
      BY <1>1, <1>4, <2>1, <2>3, <2>8 DEF SwapData, CoreData, TranStays
    <2>11. ChangeThere(o, p)'
      BY <2>3 DEF ChangeThere, Found
    <2>12. FileData(o, p)'
      BY <1>1, <1>4, <2>8, FileStep
    <2> QED BY <2>6, <2>7, <2>9, <2>10, <2>11, <2>12 DEF PairOK, CopyPair, DataPair
  <1>10. CASE ~(o = o1 /\ p = p1)
    <2>1. f \notin Copies(o, p)
      BY <1>2, <1>10 DEF Copies
    <2>2. swaps'[o][p] = swaps[o][p]
      BY <1>8, <1>10 DEF SwapIs, OneSwap
    <2>3. CopyStays(o, p)
      BY <1>1, <1>3, <1>5, <2>1, <2>2, FrameCopies
    <2>4. CallCopies(c, o, p)
      BY <1>2, <1>6, <1>7, <1>10 DEF CallCopies, Saves, VictimPage
    <2> QED BY <1>4, <2>2, <2>3, <2>4, PairIs, PairStep
  <1> QED BY <1>9, <1>10

\* A copy that cannot be swapped is back in its chain.
LEMMA PairsNotSaved ==
  ASSUME FrameInv, Inv, Good, NEW c \in Clients, VictimsStay(c), NEW o \in Clients, NEW p \in Dadrs,
         save_block_fails(c)
  PROVE  PairOK(o, p)'
  <1> USE NoClientAssumption
  <1>0. CallTypes /\ UseInv
    BY Typed DEF Good
  <1>1. /\ op[c].at = "saving" /\ UNCHANGED disc /\ SameTran
        /\ OpAt(c, "error", op[c].owner, op[c].the, NoFrame)
        /\ FcbIs(op[c].frame, fcbs[op[c].frame].blockdadr, fcbs[op[c].frame].owner,
                 fcbs[op[c].frame].dirty, 0, TRUE, fcbs[op[c].frame].data)
        /\ SwapIs(fcbs[op[c].frame].owner, VictimPage(c), "none", Blank)
    BY <1>0, SaveBlockFailsEff
  <1>2. PICK f \in Frames, o1 \in Clients, p1 \in Dadrs :
            f = op[c].frame /\ o1 = fcbs[f].owner /\ p1 = fcbs[f].blockdadr
    BY <1>0, <1>1, FrameIs, VictimIs DEF Getting
  <1>3. \A g \in Frames : /\ fcbs'[g].owner = fcbs[g].owner /\ fcbs'[g].blockdadr = fcbs[g].blockdadr
                          /\ fcbs'[g].dirty = fcbs[g].dirty /\ fcbs'[g].data = fcbs[g].data
    BY <1>1, <1>2 DEF FcbIs, OneFrame
  <1>4. CallData(c, o, p) /\ TranStays(o, p)
    <2>1. op[c].at # "writing" /\ "error" # "writing"
      BY <1>1
    <2> QED BY <1>1, <2>1, GettingData, TranSame
  <1>5. Copies(o, p)' = Copies(o, p)
    BY <1>3 DEF Copies
  <1>6. /\ op'[c].at # "saving" /\ op'[c].page = op[c].page /\ op'[c].owner = op[c].owner
        /\ op'[c].call = op[c].call
    BY <1>1 DEF OpAt, OpIs
  <1>7. Reads1(o, p)' => Reads1(o, p)
    BY <1>1, <1>6 DEF Reads1, VictimsStay
  <1>8. SwapIs(o1, p1, "none", Blank)
    BY <1>1, <1>2 DEF VictimPage
  <1>a. \A g \in Copies(o, p) : fcbs'[g].dirty = fcbs[g].dirty /\ fcbs'[g].data = fcbs[g].data
    BY <1>3 DEF Copies
  <1>9. CASE o = o1 /\ p = p1
    <2>1. /\ \A e \in Clients \ {c} : ~Saves(e, o, p)
          /\ \A e \in Clients : ~(op[e].page = p /\ op[e].owner = o)
          /\ ~Reads1(o, p) /\ swaps[o][p].is = "saving"
      <3>1. op[c].at = "saving" /\ fcbs[op[c].frame].owner = o /\ VictimPage(c) = p
        BY <1>1, <1>2, <1>9 DEF VictimPage
      <3> QED BY <3>1, OneSaver
    <2>2. swaps'[o][p].is = "none" /\ swaps'[o][p].is \notin {"saved", "taken"}
          /\ swaps[o][p].is \notin {"saved", "taken"}
      BY <1>8, <1>9, <2>1 DEF SwapIs
    <2>3. CopyStays(o, p)
      BY <1>1, <1>5, <1>a, <2>2 DEF CopyStays, Found
    <2>4. \A e \in Clients : ~Saves(e, o, p)'
      BY <1>6, <2>1 DEF Saves, VictimPage, VictimsStay
    <2>5. \A e \in Clients : ~(op'[e].page = p /\ op'[e].owner = o)
      BY <1>6, <2>1 DEF VictimsStay
    <2>6. OneCopy(o, p)'
      <3>1. OneCopy(o, p)
        BY PairIs
      <3> QED BY <1>5, <2>2, <2>4, <2>5, <3>1 DEF OneCopy
    <2>7. NoCopyYet(o, p)'
      BY <1>7, <2>1 DEF NoCopyYet, Reads1
    <2>8. DataPair(o, p)'
      BY <1>4, <2>3, PairIs, DataPairStep DEF PairOK
    <2> QED BY <2>6, <2>7, <2>8 DEF PairOK, CopyPair
  <1>10. CASE ~(o = o1 /\ p = p1)
    <2>2. swaps'[o][p] = swaps[o][p]
      BY <1>8, <1>10 DEF SwapIs, OneSwap
    <2>3. CopyStays(o, p)
      BY <1>1, <1>5, <1>a, <2>2 DEF CopyStays, Found
    <2>4. CallCopies(c, o, p)
      BY <1>2, <1>6, <1>7, <1>10 DEF CallCopies, Saves, VictimPage
    <2> QED BY <1>4, <2>2, <2>3, <2>4, PairIs, PairStep
  <1> QED BY <1>9, <1>10

\* Fixing of a page in core and unfixing leave the copies.
LEMMA PairsFixed ==
  ASSUME FrameInv, Inv, Good, NEW c \in Clients, VictimsStay(c), NEW o \in Clients, NEW p \in Dadrs,
         NEW f \in Frames, fix_own(c, f) \/ unfix_page(c, f) \/ (fix_shared(c, f) /\ ~Private(c))
  PROVE  PairOK(o, p)'
  <1> USE NoClientAssumption
  <1>0. CallShape(c)
    BY DEF Good, CallsInv
  <1>1. ASSUME NEW n, UNCHANGED <<swaps, disc, mine, changed, failed>>,
               FcbIs(f, fcbs[f].blockdadr, fcbs[f].owner, fcbs[f].dirty, n, fcbs[f].chained,
                     fcbs[f].data),
               op[c].at \in {"locked", "run"}, UNCHANGED op \/ (Fixing(c) /\ OpIdle(c))
        PROVE  PairOK(o, p)'
    <2>1. OneFrame(f) /\ fcbs'[f].data = fcbs[f].data /\ fcbs'[f].dirty = fcbs[f].dirty
          /\ (f \in Copies(o, p)' <=> f \in Copies(o, p))
      BY <1>1 DEF FcbIs, Copies
    <2>2. CopyStays(o, p)
      BY <1>1, <2>1, FrameCopies
    <2>3. TranStays(o, p)
      BY <1>1 DEF TranStays
    <2>4. op[c].owner = NoClient /\ op[c].at # "saving" /\ (Fixing(c) => op[c].call # "commit")
      BY <1>0, <1>1 DEF CallShape, Loads, Fixing
    <2>5. CallCopies(c, o, p) /\ CallData(c, o, p)
      <3>1. CASE UNCHANGED op
        BY <2>4, <3>1 DEF CallCopies, CallData, Saves, Reads1, Updating, Finished, Written
      <3>2. CASE Fixing(c) /\ OpIdle(c)
        BY <2>4, <3>2, CallEnds
      <3> QED BY <1>1, <3>1, <3>2
    <2> QED BY <1>1, <2>2, <2>3, <2>5, PairIs, PairStep
  <1>2. ASSUME fix_own(c, f) PROVE PairOK(o, p)'
    BY <1>1, <1>2, FixOwnEff DEF SameTran
  <1>3. ASSUME unfix_page(c, f) PROVE PairOK(o, p)'
    BY <1>1, <1>3, UnfixPageEff DEF SameTran
  <1>4. ASSUME fix_shared(c, f), ~Private(c) PROVE PairOK(o, p)'
    BY <1>1, <1>4, FixSharedEff
  <1> QED BY <1>2, <1>3, <1>4

\* c gets its own copy of its page, with the contents of the file.
LEMMA PairsNewCopy ==
  ASSUME FrameInv, Inv, Good, NEW c \in Clients, VictimsStay(c), NEW o \in Clients, NEW p \in Dadrs,
         NEW f \in Frames, NEW p1 \in Dadrs, op[c].page = p1, HoldsPage(c), op[c].at # "saving",
         OneFrame(f), fcbs[f].owner = NoClient, fcbs'[f].owner = c, fcbs'[f].blockdadr = p1,
         fcbs'[f].data = disc[p1], Copies(c, p1) = {}, swaps[c][p1].is = "none",
         Fixing(c), op[c].owner = NoClient, OpIdle(c),
         UNCHANGED <<swaps, disc, mine, changed, failed>>
  PROVE  PairOK(o, p)'
  <1> USE NoClientAssumption, NoDadrAssumption
  <1>1. op[c].call # "commit" /\ ~failed[c]
    BY DEF Fixing, Good, CallsInv, TranShape
  <1>2. CallCopies(c, o, p) /\ CallData(c, o, p) /\ TranStays(o, p)
    BY <1>1, CallEnds DEF TranStays
  <1>3. f \notin Copies(o, p)
    BY DEF Copies
  <1>4. CASE ~(o = c /\ p = p1)
    <2>1. f \notin Copies(o, p)'
      BY <1>4 DEF Copies
    <2>2. CopyStays(o, p)
      BY <1>3, <2>1, FrameCopies
    <2> QED BY <1>2, <2>2, PairIs, PairStep
  <1>5. CASE o = c /\ p = p1
    <2>1. \A g \in Copies(o, p)' : g = f
      BY <1>5 DEF OneFrame, Copies
    <2>2. ~Finished(c, p1)
      BY <1>1 DEF Finished, Written
    <2>3. p \notin changed[o] /\ disc[p][o] = mine[o][p]
      BY <1>1, <1>5, <2>2, NotChanged
    <2>4. OneCopy(o, p)
      BY PairIs
    <2>5. \A e \in Clients : ~Saves(e, o, p)'
      BY <1>2, <1>5, <2>4 DEF OneCopy, Saves, VictimPage, VictimsStay, CallCopies
    <2>6. \A e \in Clients : ~(op'[e].page = p /\ op'[e].owner = o)
      BY <1>2, <1>5, <2>4 DEF OneCopy, VictimsStay, CallCopies
    <2>7. OneCopy(o, p)'
      BY <1>5, <2>1, <2>5, <2>6 DEF OneCopy
    <2>8. NoCopyYet(o, p)'
      BY <1>5 DEF NoCopyYet, OpIdle, OpIs
    <2>9. CoreData(o, p)'
      BY <1>5, <2>1, <2>3 DEF CoreData
    <2>10. SwapData(o, p)' /\ ChangeThere(o, p)' /\ FileData(o, p)'
      BY <1>5, <2>3 DEF SwapData, ChangeThere, FileData
    <2> QED BY <2>7, <2>8, <2>9, <2>10 DEF PairOK, CopyPair, DataPair
  <1> QED BY <1>4, <1>5

\* fix_shared that makes a page private keeps the copies.
LEMMA PairsFixShared ==
  ASSUME FrameInv, Inv, Good, NEW c \in Clients, VictimsStay(c), NEW o \in Clients, NEW p \in Dadrs,
         NEW f \in Frames, fix_shared(c, f), Private(c)
  PROVE  PairOK(o, p)'
  <1>1. /\ op[c].at = "locked" /\ Fixing(c) /\ f \in CoreOf(NoClient, op[c].page)
        /\ CoreOf(c, op[c].page) = {} /\ ~Swapped(c, op[c].page)
        /\ <<c, op[c].page>> \notin OutOfChains
        /\ OpIdle(c) /\ UNCHANGED <<swaps, disc, changed, mine, failed>>
        /\ FcbIs(f, fcbs[f].blockdadr, c, FALSE, 1, fcbs[f].chained, fcbs[f].data)
    BY FixSharedEff
  <1>2. PICK p1 \in Dadrs : p1 = op[c].page
    BY <1>1, PageIs
  <1>3. /\ HoldsPage(c) /\ op[c].at # "saving" /\ op[c].owner = NoClient
    BY <1>1 DEF HoldsPage, Good, CallsInv, CallShape, Loads
  <1>4. Copies(c, p1) = {} /\ swaps[c][p1].is = "none"
    BY <1>1, <1>2, AllInCore, LockedSwaps DEF Swapped
  <1>5. fcbs[f].owner = NoClient /\ fcbs[f].chained /\ fcbs[f].blockdadr = p1
    BY <1>1, <1>2 DEF CoreOf
  <1>6. fcbs[f].data = disc[p1]
    BY <1>5, NoDadrAssumption DEF Good, SharedInv, SharedOK
  <1>7. OneFrame(f) /\ fcbs'[f].owner = c /\ fcbs'[f].blockdadr = p1 /\ fcbs'[f].data = disc[p1]
    BY <1>1, <1>5, <1>6 DEF FcbIs
  <1> QED BY <1>1, <1>2, <1>3, <1>4, <1>5, <1>7, PairsNewCopy

\* read_block, and its failure, keep the copies.
LEMMA PairsRead ==
  ASSUME FrameInv, Inv, Good, NEW c \in Clients, VictimsStay(c), NEW o \in Clients, NEW p \in Dadrs,
         read_block(c) \/ read_block_fails(c)
  PROVE  PairOK(o, p)'
  <1> USE NoClientAssumption
  <1>1. op[c].at = "reading"
    BY ReadBlockEff, ReadBlockFailsEff
  <1>2. PICK f \in Frames, p1 \in Dadrs : f = op[c].frame /\ p1 = op[c].page
    BY <1>1, FrameIs DEF Getting
  <1>3. /\ HoldsPage(c) /\ op[c].at # "saving" /\ op[c].owner = NoClient /\ Fixing(c)
        /\ op[c].call # "commit"
    BY <1>1 DEF HoldsPage, Good, CallsInv, CallShape, Fixing
  <1>4. fcbs[f].owner = NoClient
    BY <1>1, <1>2 DEF Good, UseInv, GotUse
  <1>5. ASSUME read_block(c) PROVE PairOK(o, p)'
    <2>1. /\ OpIdle(c) /\ UNCHANGED <<swaps, disc, changed, mine, failed>>
          /\ FcbIs(f, p1, IF Private(c) THEN c ELSE NoClient, FALSE, 1, TRUE, disc[p1])
      BY <1>2, <1>5, ReadBlockEff
    <2>2. CASE Private(c)
      <3>1. Copies(c, p1) = {} /\ swaps[c][p1].is = "none"
        <4>1. NoCopyYet(c, p1)
          BY PairIs
        <4> QED BY <1>1, <1>2, <1>3, <2>2, <4>1 DEF NoCopyYet, Private
      <3>2. OneFrame(f) /\ fcbs'[f].owner = c /\ fcbs'[f].blockdadr = p1 /\ fcbs'[f].data = disc[p1]
        BY <2>1, <2>2 DEF FcbIs
      <3> QED BY <1>2, <1>3, <1>4, <2>1, <3>1, <3>2, PairsNewCopy
    <2>3. CASE ~Private(c)
      <3>1. OneFrame(f) /\ f \notin Copies(o, p) /\ f \notin Copies(o, p)'
        BY <1>4, <2>1, <2>3 DEF FcbIs, Copies
      <3>2. CopyStays(o, p)
        BY <2>1, <3>1, FrameCopies
      <3>3. CallCopies(c, o, p) /\ CallData(c, o, p) /\ TranStays(o, p)
        BY <1>3, <2>1, CallEnds DEF TranStays
      <3> QED BY <2>1, <3>2, <3>3, PairIs, PairStep
    <2> QED BY <2>2, <2>3
  <1>6. ASSUME read_block_fails(c) PROVE PairOK(o, p)'
    <2>1. /\ OpAt(c, "error", op[c].owner, op[c].the, NoFrame)
          /\ FcbIs(f, NoDadr, NoClient, FALSE, 0, TRUE, Blank)
          /\ UNCHANGED <<swaps, disc>> /\ SameTran
      BY <1>2, <1>6, ReadBlockFailsEff
    <2>2. OneFrame(f) /\ f \notin Copies(o, p) /\ f \notin Copies(o, p)'
      BY <1>4, <2>1 DEF FcbIs, Copies
    <2>3. CopyStays(o, p)
      BY <2>1, <2>2, FrameCopies
    <2>4. CallCopies(c, o, p) /\ CallData(c, o, p)
      <3>1. /\ op[c].at \notin {"saving", "writing"} /\ "error" \notin {"saving", "writing"}
            /\ op[c].at \notin {"locking", "locked"}
        BY <1>1
      <3> QED BY <2>1, <3>1, CallMoves
    <2> QED BY <2>1, <2>3, <2>4, PairIs, PairStep, TranSame
  <1> QED BY <1>5, <1>6

-----------------------------------------------------------------------------
\* A step in which c gets the swapped copy of o1, with contents d, to its frame.
LoadedTo(c, f, o1, p1, d) ==
    /\ op[c].at = "loading" /\ f = op[c].frame /\ op[c].owner = o1 /\ op[c].page = p1
    /\ OneFrame(f) /\ fcbs'[f].owner = o1 /\ fcbs'[f].blockdadr = p1 /\ fcbs'[f].dirty = TRUE
    /\ fcbs'[f].data = d
    /\ d[o1] = mine[o1][p1] /\ \A e \in Clients \ {o1} : d[e] = disc[p1][e]
    /\ SwapIs(o1, p1, "none", Blank) /\ UNCHANGED disc /\ SameTran
    /\ op'[c].owner = NoClient /\ op'[c].at # "saving"

\* c has loaded the swapped copy of o1.
LEMMA PairsLoaded ==
  ASSUME FrameInv, Inv, Good, NEW c \in Clients, VictimsStay(c), NEW o \in Clients, NEW p \in Dadrs,
         NEW f \in Frames, NEW o1 \in Clients, NEW p1 \in Dadrs, NEW d,
         LoadedTo(c, f, o1, p1, d), ~Reads1(c, p)',
         ~(o = o1 /\ p = p1) => CallData(c, o, p), FileData(o1, p1)'
  PROVE  PairOK(o, p)'
  <1> USE NoClientAssumption
  <1>0. /\ op[c].at = "loading" /\ f = op[c].frame /\ op[c].owner = o1 /\ op[c].page = p1
        /\ OneFrame(f) /\ fcbs'[f].owner = o1 /\ fcbs'[f].blockdadr = p1 /\ fcbs'[f].dirty = TRUE
        /\ fcbs'[f].data = d
        /\ d[o1] = mine[o1][p1] /\ \A e \in Clients \ {o1} : d[e] = disc[p1][e]
        /\ SwapIs(o1, p1, "none", Blank) /\ UNCHANGED disc /\ SameTran
        /\ op'[c].owner = NoClient /\ op'[c].at # "saving"
    BY DEF LoadedTo
  <1>1. fcbs[f].owner = NoClient
    BY <1>0 DEF Good, UseInv, GotUse
  <1>2. f \notin Copies(o, p)
    BY <1>0, <1>1 DEF Copies
  <1>3. TranStays(o, p)
    BY <1>0, TranSame
  <1>4. CASE ~(o = o1 /\ p = p1)
    <2>1. f \notin Copies(o, p)' /\ swaps'[o][p] = swaps[o][p]
      BY <1>0, <1>4 DEF Copies, SwapIs, OneSwap
    <2>2. CopyStays(o, p)
      BY <1>0, <1>2, <2>1, FrameCopies
    <2>3. CallCopies(c, o, p)
      BY <1>0, <1>4 DEF CallCopies, Saves
    <2> QED BY <1>0, <1>3, <1>4, <2>1, <2>2, <2>3, PairIs, PairStep
  <1>5. CASE o = o1 /\ p = p1
    <2>1. /\ HoldsPage(c) /\ Copies(o1, p1) = {}
          /\ \A e \in Clients \ {c} : ~(op[e].page = p1 /\ op[e].owner = o1)
          /\ \A e \in Clients : ~Saves(e, o1, p1)
      BY <1>0, TakenCopy
    <2>2. f \in Copies(o, p)' /\ \A g \in Copies(o, p)' : g = f
      BY <1>0, <1>5, <2>1 DEF OneFrame, Copies
    <2>3. swaps'[o][p].is = "none" /\ swaps'[o][p].is \notin {"saved", "taken", "saving"}
      BY <1>0, <1>5 DEF SwapIs
    <2>4. \A e \in Clients : ~Saves(e, o, p)'
      BY <1>0, <1>5, <2>1 DEF Saves, VictimPage, VictimsStay
    <2>5. \A e \in Clients : ~(op'[e].page = p /\ op'[e].owner = o)
      BY <1>0, <1>5, <2>1 DEF VictimsStay
    <2>6. OneCopy(o, p)'
      BY <1>0, <2>2, <2>3, <2>4, <2>5 DEF OneCopy
    <2>7. NoCopyYet(o, p)'
      <3>1. CASE o = c
        BY <1>0, <3>1 DEF NoCopyYet, Reads1
      <3>2. CASE o # c
        <4>1. ~Reads1(o, p)
          BY <1>0, <1>5, <2>1, <3>2, NoOtherReads
        <4> QED BY <1>0, <3>2, <4>1 DEF VictimsStay, NoCopyYet, Reads1
      <3> QED BY <1>0, <3>1, <3>2
    <2>8. mine'[o][p] = mine[o][p] /\ disc'[p] = disc[p]
      BY <1>0, <1>3 DEF TranStays
    <2>9. CoreData(o, p)'
      BY <1>0, <1>5, <2>2, <2>8 DEF CoreData
    <2>10. SwapData(o, p)' /\ ChangeThere(o, p)'
      BY <1>0, <2>2, <2>3 DEF SwapData, ChangeThere, Found
    <2> QED BY <1>0, <1>5, <2>6, <2>7, <2>9, <2>10 DEF PairOK, CopyPair, DataPair
  <1> QED BY <1>4, <1>5

\* What is in the swapped copy that c loads.
LEMMA TakenData ==
  ASSUME FrameInv, Inv, Good, NEW c \in Clients, NEW o \in Clients, op[c].owner = o
  PROVE  LET d == swaps[o][op[c].page].data IN
         /\ d[o] = mine[o][op[c].page]
         /\ \A e \in Clients \ {o, c} : d[e] = disc[op[c].page][e]
  <1>1. /\ op[c].page \in Dadrs /\ swaps[o][op[c].page].is = "taken"
        /\ \A e \in Clients \ {c} : ~Updating(e, op[c].page)
    BY TakenCopy
  <1>2. SwapData(o, op[c].page)
    BY <1>1, PairIs
  <1> QED BY <1>1, <1>2 DEF SwapData

\* load_block keeps the copies.
LEMMA PairsLoadBlock ==
  ASSUME FrameInv, Inv, Good, NEW c \in Clients, VictimsStay(c), NEW o \in Clients, NEW p \in Dadrs,
         load_block(c)
  PROVE  PairOK(o, p)'
  <1> USE NoClientAssumption, NoDadrAssumption
  <1>1. /\ op[c].at = "loading" /\ Fixing(c) /\ OpIdle(c)
        /\ FcbIs(op[c].frame, op[c].page, op[c].owner, TRUE, 1, TRUE,
                 swaps[op[c].owner][op[c].page].data)
        /\ SwapIs(c, op[c].page, "none", Blank) /\ UNCHANGED disc /\ SameTran
    BY LoadBlockEff
  <1>2. PICK f \in Frames, p1 \in Dadrs : f = op[c].frame /\ p1 = op[c].page
    BY <1>1, FrameIs DEF Getting
  <1>3. op[c].owner = c /\ op[c].call # "commit"
    BY <1>1 DEF Good, CallsInv, CallShape, Fixing
  <1>4. PICK d : d = swaps[c][p1].data
    OBVIOUS
  <1>5. OneFrame(f) /\ fcbs'[f].owner = c /\ fcbs'[f].blockdadr = p1 /\ fcbs'[f].dirty = TRUE
        /\ fcbs'[f].data = d
    BY <1>1, <1>2, <1>3, <1>4 DEF FcbIs
  <1>6. d[c] = mine[c][p1] /\ \A e \in Clients \ {c} : d[e] = disc[p1][e]
    BY <1>2, <1>3, <1>4, TakenData
  <1>7. /\ op'[c].owner = NoClient /\ op'[c].at # "saving" /\ op'[c].call = "none" /\ ~Reads1(c, p)'
    BY <1>1 DEF OpIdle, OpIs, Reads1
  <1>8. ~(o = c /\ p = p1) => CallData(c, o, p)
    BY <1>1, <1>2, <1>3, CallEnds
  <1>9. FileData(c, p1)'
    <2>1. FileData(c, p1)
      BY PairIs
    <2>2. TranStays(c, p1)
      BY <1>1, TranSame
    <2> QED BY <1>1, <1>7, <2>1, <2>2 DEF FileData, Finished, Written, TranStays
  <1>10. SwapIs(c, p1, "none", Blank) /\ UNCHANGED disc /\ SameTran
    BY <1>1, <1>2
  <1>11. op[c].at = "loading" /\ f = op[c].frame /\ op[c].owner = c /\ op[c].page = p1
    BY <1>1, <1>2, <1>3
  <1>12. LoadedTo(c, f, c, p1, d)
    BY <1>5, <1>6, <1>7, <1>10, <1>11 DEF LoadedTo
  <1> QED BY <1>7, <1>8, <1>9, <1>12, PairsLoaded

\* load_changes keeps the copies.
LEMMA PairsLoadChanges ==
  ASSUME FrameInv, Inv, Good, NEW c \in Clients, VictimsStay(c), NEW o \in Clients, NEW p \in Dadrs,
         load_changes(c)
  PROVE  PairOK(o, p)'
  <1> USE NoClientAssumption, NoDadrAssumption
  <1>1. /\ op[c].at = "loading" /\ op[c].call = "commit" /\ op[c].owner = c
        /\ FcbIs(op[c].frame, op[c].page, c, TRUE, 1, TRUE, swaps[c][op[c].page].data)
        /\ OpAt(c, "writing", NoClient, op[c].frame, NoFrame)
        /\ SwapIs(c, op[c].page, "none", Blank) /\ UNCHANGED disc /\ SameTran
    BY LoadChangesEff
  <1>2. PICK f \in Frames, p1 \in Dadrs : f = op[c].frame /\ p1 = op[c].page
    BY <1>1, FrameIs DEF Getting
  <1>3. op[c].the = NoFrame
    BY <1>1 DEF Good, CallsInv, CallShape, Loads
  <1>4. PICK d : d = swaps[c][p1].data
    OBVIOUS
  <1>5. OneFrame(f) /\ fcbs'[f].owner = c /\ fcbs'[f].blockdadr = p1 /\ fcbs'[f].dirty = TRUE
        /\ fcbs'[f].data = d
    BY <1>1, <1>2, <1>4 DEF FcbIs
  <1>6. d[c] = mine[c][p1] /\ \A e \in Clients \ {c} : d[e] = disc[p1][e]
    BY <1>1, <1>2, <1>4, TakenData
  <1>a. /\ op'[c].owner = NoClient /\ op'[c].at = "writing" /\ op'[c].call = "commit"
        /\ op'[c].page = p1 /\ op'[c].todo = op[c].todo
    BY <1>1, <1>2 DEF OpAt, OpIs
  <1>7. /\ op'[c].owner = NoClient /\ op'[c].at # "saving" /\ ~Reads1(c, p)'
    BY <1>a DEF Reads1
  <1>8. ~(o = c /\ p = p1) => CallData(c, o, p)
    <2>1. ~Updating(c, p)
      BY <1>3 DEF Updating
    <2>2. o = c /\ p # p1 => (Finished(c, p)' <=> Finished(c, p)) /\ (Written(c, p)' <=> Written(c, p))
      BY <1>1, <1>2, <1>a DEF Finished, Written
    <2>3. p # p1 /\ o = c => CallData(c, o, p)
      BY <2>1, <2>2 DEF CallData
    <2> QED BY <2>1, <2>3 DEF CallData
  <1>9. FileData(c, p1)'
    <2>1. FileData(c, p1)
      BY PairIs
    <2>2. TranStays(c, p1)
      BY <1>1, TranSame
    <2> QED BY <1>1, <1>a, <2>1, <2>2 DEF FileData, Finished, Written, TranStays
  <1>10. SwapIs(c, p1, "none", Blank) /\ UNCHANGED disc /\ SameTran
    BY <1>1, <1>2
  <1>11. op[c].at = "loading" /\ f = op[c].frame /\ op[c].owner = c /\ op[c].page = p1
    BY <1>1, <1>2
  <1>12. LoadedTo(c, f, c, p1, d)
    BY <1>5, <1>6, <1>7, <1>10, <1>11 DEF LoadedTo
  <1> QED BY <1>7, <1>8, <1>9, <1>12, PairsLoaded

\* load_other keeps the copies.
LEMMA PairsLoadOther ==
  ASSUME FrameInv, Inv, Good, NEW c \in Clients, VictimsStay(c), NEW o \in Clients, NEW p \in Dadrs,
         load_other(c)
  PROVE  PairOK(o, p)'
  <1> USE NoClientAssumption, NoDadrAssumption
  <1>1. /\ op[c].at = "loading" /\ op[c].call = "commit" /\ op[c].owner # c /\ op[c].owner \in Clients
        /\ FcbIs(op[c].frame, op[c].page, op[c].owner, TRUE, 0, TRUE,
                 [swaps[op[c].owner][op[c].page].data EXCEPT ![c] = fcbs[op[c].the].data[c]])
        /\ OpAt(c, "update", NoClient, op[c].the, NoFrame)
        /\ SwapIs(op[c].owner, op[c].page, "none", Blank) /\ UNCHANGED disc /\ SameTran
    BY LoadOtherEff
  <1>2. PICK f \in Frames, p1 \in Dadrs, o1 \in Clients \ {c} :
            f = op[c].frame /\ p1 = op[c].page /\ o1 = op[c].owner
    BY <1>1, FrameIs DEF Getting
  <1>3. op[c].the # NoFrame
    BY <1>1 DEF Good, CallsInv, CallShape, Loads
  <1>4. PICK d : d = [swaps[o1][p1].data EXCEPT ![c] = fcbs[op[c].the].data[c]]
    OBVIOUS
  <1>5. OneFrame(f) /\ fcbs'[f].owner = o1 /\ fcbs'[f].blockdadr = p1 /\ fcbs'[f].dirty = TRUE
        /\ fcbs'[f].data = d
    <2>1. FcbIs(f, p1, o1, TRUE, 0, TRUE, d)
      BY <1>1, <1>2, <1>4
    <2> QED BY <2>1 DEF FcbIs
  <1>6. d[o1] = mine[o1][p1] /\ \A e \in Clients \ {o1} : d[e] = disc[p1][e]
    <2>1. swaps[o1][p1].data \in [Clients -> BOOLEAN]
      BY DEF FrameInv, SwapInv, SwapBlock, Contents
    <2>2. d[c] = fcbs[op[c].the].data[c] /\ \A e \in Clients \ {c} : d[e] = swaps[o1][p1].data[e]
      BY <1>4, <2>1
    <2>3. /\ swaps[o1][p1].data[o1] = mine[o1][p1]
          /\ \A e \in Clients \ {o1, c} : swaps[o1][p1].data[e] = disc[p1][e]
      BY <1>2, TakenData
    <2>4. op[c].the \in Copies(c, p1) /\ disc[p1][c] = mine[c][p1]
      BY <1>1, <1>2, <1>3, TheCopy, PageWritten
    <2>5. fcbs[op[c].the].data[c] = mine[c][p1]
      BY <2>4, PairIs DEF CoreData
    <2> QED BY <2>2, <2>3, <2>4, <2>5
  <1>a. /\ op'[c].owner = NoClient /\ op'[c].at = "update" /\ op'[c].call = "commit"
        /\ op'[c].page = p1 /\ op'[c].todo = op[c].todo /\ op'[c].the = op[c].the
    BY <1>1, <1>2 DEF OpAt, OpIs
  <1>7. /\ op'[c].owner = NoClient /\ op'[c].at # "saving" /\ ~Reads1(c, p)'
    BY <1>a DEF Reads1
  <1>8. CallData(c, o, p) /\ CallData(c, o1, p1)
    BY <1>1, <1>2, <1>a DEF CallData, Updating, Finished, Written
  <1>9. FileData(o1, p1)'
    BY <1>1, <1>8, PairIs, TranSame, FileStep
  <1>10. SwapIs(o1, p1, "none", Blank) /\ UNCHANGED disc /\ SameTran
    BY <1>1, <1>2
  <1>11. op[c].at = "loading" /\ f = op[c].frame /\ op[c].owner = o1 /\ op[c].page = p1
    BY <1>1, <1>2
  <1>12. LoadedTo(c, f, o1, p1, d)
    BY <1>5, <1>6, <1>7, <1>10, <1>11 DEF LoadedTo
  <1> QED BY <1>7, <1>8, <1>9, <1>12, PairsLoaded

\* fix_err keeps the copies: the transaction has failed.
LEMMA PairsFixErr ==
  ASSUME FrameInv, Inv, Good, NEW c \in Clients, VictimsStay(c), NEW o \in Clients, NEW p \in Dadrs,
         fix_err(c)
  PROVE  PairOK(o, p)'
  <1> USE NoClientAssumption, NoDadrAssumption
  <1>1. /\ op[c].at = "error" /\ Fixing(c) /\ OpIdle(c)
        /\ op[c].owner = NoClient => UNCHANGED swaps
        /\ op[c].owner # NoClient => SwapIs(c, op[c].page, "none", Blank)
        /\ failed'[c] = TRUE /\ \A e \in Clients \ {c} : failed'[e] = failed[e]
        /\ UNCHANGED <<fcbs, disc, changed, mine>>
    BY FixErrEff
  <1>2. /\ op[c].owner \in {c, NoClient} /\ op[c].call # "commit" /\ op[c].page \in Dadrs
    BY <1>1, PageIs DEF Good, CallsInv, CallShape, Fixing
  <1>3. TranStays(o, p)
    BY <1>1 DEF TranStays
  <1>4. CASE ~(op[c].page = p /\ op[c].owner = o)
    <2>1. CallCopies(c, o, p) /\ CallData(c, o, p)
      BY <1>1, <1>2, <1>4, CallEnds
    <2>2. swaps'[o][p] = swaps[o][p]
      BY <1>1, <1>2, <1>4 DEF SwapIs, OneSwap
    <2> QED BY <1>1, <1>3, <2>1, <2>2, PairIs, PairStep, NoCopyStep
  <1>5. CASE op[c].page = p /\ op[c].owner = o
    <2>1. /\ Copies(o, p) = {} /\ o = c
          /\ \A e \in Clients \ {c} : ~(op[e].page = p /\ op[e].owner = o)
          /\ \A e \in Clients : ~Saves(e, o, p)
      BY <1>2, <1>5, TakenCopy
    <2>2. Copies(o, p)' = {} /\ swaps'[o][p].is = "none"
      BY <1>1, <1>5, <2>1 DEF Copies, SwapIs
    <2>3. op'[c].at = "run" /\ op'[c].call = "none" /\ op'[c].owner = NoClient
      BY <1>1 DEF OpIdle, OpIs
    <2>4. \A e \in Clients : ~Saves(e, o, p)'
      BY <2>1, <2>3 DEF Saves, VictimPage, VictimsStay
    <2>5. \A e \in Clients : ~(op'[e].page = p /\ op'[e].owner = o)
      BY <2>1, <2>3 DEF VictimsStay
    <2>6. OneCopy(o, p)' /\ NoCopyYet(o, p)'
      BY <2>2, <2>4, <2>5 DEF OneCopy, NoCopyYet
    <2>7. CoreData(o, p)' /\ SwapData(o, p)' /\ ChangeThere(o, p)'
      BY <1>1, <2>1, <2>2 DEF CoreData, SwapData, ChangeThere
    <2>8. FileData(o, p)'
      BY <1>1, <2>1, <2>3, PairIs DEF FileData, Finished, Written
    <2> QED BY <2>6, <2>7, <2>8 DEF PairOK, CopyPair, DataPair
  <1> QED BY <1>4, <1>5

-----------------------------------------------------------------------------
\* The client changes its record in its copy.
LEMMA PairsRecChanged ==
  ASSUME FrameInv, Inv, Good, NEW c \in Clients, VictimsStay(c), NEW o \in Clients, NEW p \in Dadrs,
         NEW f \in Frames, rec_changed(c, f)
  PROVE  PairOK(o, p)'
  <1> USE NoClientAssumption
  <1>0. LET q1 == fcbs[f].blockdadr IN
         /\ ~broken /\ op[c].at = "run" /\ ~failed[c] /\ f \in fixed[c] /\ fcbs[f].owner = c
         /\ FcbIs(f, q1, c, TRUE, fcbs[f].fixnum, fcbs[f].chained, [fcbs[f].data EXCEPT ![c] = TRUE])
         /\ q1 \in Dadrs
         /\ mine'[c][q1] = TRUE
         /\ \A e \in Clients, q \in Dadrs : e # c \/ q # q1 => mine'[e][q] = mine[e][q]
         /\ log'[c] = log[c] \cup {q1} /\ changed'[c] = changed[c] \cup {q1}
         /\ \A e \in Clients \ {c} : log'[e] = log[e] /\ changed'[e] = changed[e]
         /\ UNCHANGED <<vars, swaps, disc, fixed, failed, op, broken>>
    BY RecChangedEff, Zenon
  <1>1. PICK p1 \in Dadrs : p1 = fcbs[f].blockdadr
    BY <1>0
  <1>2. /\ op[c].at = "run" /\ fcbs[f].owner = c
        /\ FcbIs(f, p1, c, TRUE, fcbs[f].fixnum, fcbs[f].chained, [fcbs[f].data EXCEPT ![c] = TRUE])
        /\ mine'[c][p1] = TRUE
        /\ \A e \in Clients, q \in Dadrs : e # c \/ q # p1 => mine'[e][q] = mine[e][q]
        /\ changed'[c] = changed[c] \cup {p1} /\ \A e \in Clients \ {c} : changed'[e] = changed[e]
        /\ UNCHANGED <<swaps, disc, failed, op>>
    BY <1>0, <1>1
  <1>3. op[c].call = "none"
    BY <1>2 DEF Good, CallsInv, CallShape
  <1>4. CallCopies(c, o, p) /\ CallData(c, o, p)
    BY <1>2 DEF CallCopies, CallData, Saves, Reads1, Updating, Finished, Written
  <1>5. OneFrame(f) /\ fcbs'[f].owner = c /\ fcbs'[f].blockdadr = p1 /\ fcbs'[f].dirty
        /\ fcbs'[f].data = [fcbs[f].data EXCEPT ![c] = TRUE]
    BY <1>2 DEF FcbIs
  <1>6. CASE ~(o = c /\ p = p1)
    <2>1. f \notin Copies(o, p) /\ f \notin Copies(o, p)'
      BY <1>1, <1>2, <1>5, <1>6 DEF Copies
    <2>2. CopyStays(o, p)
      BY <1>2, <1>5, <2>1, FrameCopies
    <2>3. TranStays(o, p)
      BY <1>2, <1>6 DEF TranStays
    <2> QED BY <1>2, <1>4, <2>2, <2>3, PairIs, PairStep
  <1>7. CASE o = c /\ p = p1
    <2>1. f \in Copies(o, p) /\ f \in Copies(o, p)'
      BY <1>1, <1>2, <1>5, <1>7 DEF Copies
    <2>2. \A g \in Frames \ {f} : g \in Copies(o, p)' => g \in Copies(o, p)
      BY <1>5 DEF OneFrame, Copies
    <2>3. OneCopy(o, p) /\ CoreData(o, p)
      BY PairIs
    <2>4. Copies(o, p)' \subseteq Copies(o, p) /\ \A g \in Copies(o, p)' : g = f
      BY <2>1, <2>2, <2>3 DEF OneCopy, Copies
    <2>5. CopyPair(o, p)'
      BY <1>2, <1>4, <2>4, PairIs, CopyPairStep DEF PairOK
    <2>6. swaps'[o][p].is \notin {"saved", "taken"}
      BY <1>2, <2>1, <2>3 DEF OneCopy
    <2>7. CoreData(o, p)'
      <3>1. fcbs[f].data \in [Clients -> BOOLEAN]
        BY DEF FrameInv, FcbInv, Fcb, Contents
      <3>2. fcbs'[f].data[c] = TRUE /\ \A e \in Clients \ {c} : fcbs'[f].data[e] = disc[p][e]
        BY <1>5, <1>7, <2>1, <2>3, <3>1 DEF CoreData
      <3>3. mine'[o][p] = TRUE
        BY <1>2, <1>7
      <3> QED BY <1>2, <1>7, <2>4, <3>2, <3>3 DEF CoreData
    <2>8. SwapData(o, p)' /\ ChangeThere(o, p)'
      BY <1>5, <2>1, <2>6 DEF SwapData, ChangeThere, Found
    <2>9. FileData(o, p)'
      BY <1>2, <1>3, <1>7 DEF FileData, Finished, Written
    <2> QED BY <2>5, <2>7, <2>8, <2>9 DEF PairOK, DataPair
  <1> QED BY <1>6, <1>7

\* A page without changes is done.
LEMMA PairsWrNothing ==
  ASSUME FrameInv, Inv, Good, NEW c \in Clients, VictimsStay(c), NEW o \in Clients, NEW p \in Dadrs,
         wr_nothing(c)
  PROVE  PairOK(o, p)'
  <1> USE NoClientAssumption
  <1>1. /\ op[c].at = "locked" /\ op[c].call = "commit" /\ OpNext(c)
        /\ \A g \in Frames :
              /\ fcbs'[g].blockdadr = fcbs[g].blockdadr /\ fcbs'[g].dirty = fcbs[g].dirty
              /\ fcbs'[g].data = fcbs[g].data
              /\ fcbs'[g].owner = IF g \in CoreOf(c, op[c].page) THEN NoClient ELSE fcbs[g].owner
        /\ SwapIs(c, op[c].page, "none", Blank)
        /\ UNCHANGED disc /\ SameTran
    BY WrNothingEff
  <1>2. PICK p1 \in Dadrs : p1 = op[c].page
    BY <1>1, PageIs
  <1>3. p1 \notin changed[c] /\ disc[p1][c] = mine[c][p1]
    BY <1>2, NothingToWrite
  <1>4. op[c].owner = NoClient /\ op[c].the = NoFrame
    BY <1>1 DEF Good, CallsInv, CallShape, Loads
  <1>5. op[c].at \notin {"saving", "writing"} /\ op[c].call \in {"commit", "roll_back"}
    BY <1>1
  <1>6. CallCopies(c, o, p) /\ TranStays(o, p)
    BY <1>1, <1>4, <1>5, PageEnds, TranSame
  <1>7. \A g \in Frames : /\ fcbs'[g].blockdadr = fcbs[g].blockdadr /\ fcbs'[g].dirty = fcbs[g].dirty
                          /\ fcbs'[g].data = fcbs[g].data
                          /\ fcbs'[g].owner = IF g \in CoreOf(c, p1) THEN NoClient ELSE fcbs[g].owner
    BY <1>1, <1>2
  <1>8. CASE ~(o = c /\ p = p1)
    <2>1. CallData(c, o, p)
      BY <1>1, <1>2, <1>4, <1>5, <1>8, PageEnds
    <2>2. swaps'[o][p] = swaps[o][p]
      BY <1>1, <1>2, <1>8 DEF SwapIs, OneSwap
    <2>3. Copies(o, p)' = Copies(o, p)
      BY <1>7, <1>8 DEF Copies, CoreOf
    <2>4. \A g \in Copies(o, p) : fcbs'[g].dirty = fcbs[g].dirty /\ fcbs'[g].data = fcbs[g].data
      BY <1>7 DEF Copies
    <2>5. CopyStays(o, p)
      BY <1>1, <2>2, <2>3, <2>4 DEF CopyStays, Found
    <2> QED BY <1>6, <2>1, <2>2, <2>5, PairIs, PairStep
  <1>9. CASE o = c /\ p = p1
    <2>1. swaps[o][p].is \in {"none", "saved"} /\ swaps'[o][p].is = "none"
      BY <1>1, <1>2, <1>9, LockedSwaps DEF SwapIs
    <2>2. OneCopy(o, p) /\ CoreData(o, p)
      BY PairIs
    <2>3. /\ Copies(o, p)' \subseteq Copies(o, p)
          /\ \A g \in Copies(o, p)' : fcbs'[g].data = fcbs[g].data
      BY <1>7 DEF Copies
    <2>4. \A e \in Clients : ~Saves(e, o, p)'
      BY <1>6, <2>1, <2>2 DEF OneCopy, Saves, VictimPage, VictimsStay, CallCopies
    <2>5. \A e \in Clients : ~(op'[e].page = p /\ op'[e].owner = o)
      BY <1>6, <2>1, <2>2 DEF OneCopy, VictimsStay, CallCopies
    <2>6. OneCopy(o, p)'
      BY <2>1, <2>2, <2>3, <2>4, <2>5 DEF OneCopy
    <2>7. NoCopyYet(o, p)'
      BY <1>1, <1>9 DEF NoCopyYet, OpNext, OpIs
    <2>8. CoreData(o, p)'
      BY <1>1, <1>6, <2>2, <2>3 DEF CoreData, TranStays
    <2>9. SwapData(o, p)'
      BY <2>1 DEF SwapData
    <2>10. ChangeThere(o, p)' /\ FileData(o, p)'
      BY <1>1, <1>3, <1>6, <1>9 DEF ChangeThere, FileData, TranStays
    <2> QED BY <2>6, <2>7, <2>8, <2>9, <2>10 DEF PairOK, CopyPair, DataPair
  <1> QED BY <1>8, <1>9

\* The copy to be written is in core, or has to be loaded.
LEMMA PairsWrChanges ==
  ASSUME FrameInv, Inv, Good, NEW c \in Clients, VictimsStay(c), NEW o \in Clients, NEW p \in Dadrs,
         wr_changes(c)
  PROVE  PairOK(o, p)'
  <1> USE NoClientAssumption, NoFrameAssumption
  <1>1. /\ op[c].at = "locked" /\ op[c].call = "commit" /\ op[c].page \in changed[c]
    BY WrChangesEff
  <1>2. PICK p1 \in Dadrs : p1 = op[c].page
    BY <1>1, PageIs
  <1>3. op[c].owner = NoClient /\ op[c].the = NoFrame /\ op[c].page \notin op[c].todo
    BY <1>1 DEF Good, CallsInv, CallShape, TranShape, Loads
  <1>4. ASSUME Swapped(c, op[c].page), NeedFrame(c, c), UNCHANGED fcbs
        PROVE  PairOK(o, p)'
    BY <1>1, <1>4, PairsNeedFrame
  <1>5. ASSUME NEW f \in CoreOf(c, op[c].page),
               FcbIs(f, fcbs[f].blockdadr, fcbs[f].owner, fcbs[f].dirty, fcbs[f].fixnum + 1,
                     fcbs[f].chained, fcbs[f].data),
               OpAt(c, "writing", NoClient, f, NoFrame), SwapIs(c, op[c].page, "none", Blank),
               UNCHANGED disc, SameTran
        PROVE  PairOK(o, p)'
    <2>1. f \in Frames /\ f # NoFrame /\ fcbs[f].owner = c /\ fcbs[f].blockdadr = p1
      BY <1>2, <1>5 DEF CoreOf
    <2>2. /\ \A g \in Frames : /\ fcbs'[g].owner = fcbs[g].owner /\ fcbs'[g].blockdadr = fcbs[g].blockdadr
                               /\ fcbs'[g].dirty = fcbs[g].dirty /\ fcbs'[g].data = fcbs[g].data
      BY <1>5, <2>1 DEF FcbIs, OneFrame
    <2>3. Copies(o, p)' = Copies(o, p) /\ TranStays(o, p)
      BY <1>5, <2>2, TranSame DEF Copies
    <2>4. \A g \in Copies(o, p) : fcbs'[g].dirty = fcbs[g].dirty /\ fcbs'[g].data = fcbs[g].data
      BY <2>2 DEF Copies
    <2>5. /\ op'[c].call = "commit" /\ op'[c].at = "writing" /\ op'[c].page = p1
          /\ op'[c].owner = NoClient /\ op'[c].the = f /\ op'[c].todo = op[c].todo
      BY <1>1, <1>2, <1>5 DEF OpAt, OpIs
    <2>6. CallCopies(c, o, p)
      BY <1>1, <1>3, <2>5 DEF CallCopies, Saves, Reads1
    <2>7. swaps[c][p1].is = "none" /\ swaps'[c][p1].is = "none"
      <3>1. f \in Copies(c, p1)
        BY <2>1 DEF Copies
      <3>2. OneCopy(c, p1)
        BY PairIs
      <3> QED BY <1>1, <1>2, <1>5, <3>1, <3>2, LockedSwaps DEF OneCopy, SwapIs
    <2>8. ~(o = c /\ p = p1) => swaps'[o][p] = swaps[o][p]
      BY <1>2, <1>5 DEF SwapIs, OneSwap
    <2>9. swaps'[o][p].is = swaps[o][p].is
      BY <2>7, <2>8
    <2>10. CASE ~(o = c /\ p = p1)
      <3>1. ~Updating(c, p)
        BY <1>3 DEF Updating
      <3>2. o = c => (Finished(c, p)' <=> Finished(c, p)) /\ (Written(c, p)' <=> Written(c, p))
        BY <1>1, <1>2, <2>5, <2>10 DEF Finished, Written
      <3>3. CallData(c, o, p)
        BY <3>1, <3>2 DEF CallData
      <3>4. CopyStays(o, p)
        BY <1>5, <2>3, <2>4, <2>8, <2>10 DEF CopyStays, Found
      <3> QED BY <2>3, <2>6, <2>9, <3>3, <3>4, PairIs, PairStep
    <2>11. CASE o = c /\ p = p1
      <3>1. CopyPair(o, p)'
        BY <2>3, <2>6, <2>9, PairIs, CopyPairStep DEF PairOK
      <3>2. CoreData(o, p)'
        <4>1. CoreData(o, p)
          BY PairIs
        <4> QED BY <1>5, <2>3, <2>4, <4>1 DEF CoreData, TranStays
      <3>3. SwapData(o, p)'
        BY <2>7, <2>11 DEF SwapData
      <3>4. Finished(c, p1)' /\ ~Written(c, p1)'
        BY <1>2, <1>3, <2>1, <2>5 DEF Finished, Written
      <3>5. ChangeThere(o, p)'
        BY <2>11, <3>4 DEF ChangeThere
      <3>6. FileData(o, p)'
        BY <1>1, <1>2, <2>3, <2>11, <3>4 DEF FileData, TranStays
      <3> QED BY <3>1, <3>2, <3>3, <3>5, <3>6 DEF PairOK, DataPair
    <2> QED BY <2>10, <2>11
  <1> QED BY <1>4, <1>5, WrChangesEff

-----------------------------------------------------------------------------
\* The page is written, and the other copies in core get the change.
LEMMA PairsWritten ==
  ASSUME FrameInv, Inv, Good, NEW c \in Clients, VictimsStay(c), NEW o \in Clients, NEW p \in Dadrs,
         write_block(c)
  PROVE  PairOK(o, p)'
  <1> USE NoClientAssumption
  <1>1. /\ op[c].at = "writing" /\ \A e \in Clients \ {c} : <<e, op[c].page>> \notin OutOfChains
        /\ \A q \in Dadrs : disc'[q] = IF q = op[c].page THEN fcbs[op[c].the].data ELSE disc[q]
        /\ \A g \in Frames : UpdatedFcb(c, g)
        /\ OpAt(c, "update", op[c].owner, op[c].the, op[c].frame)
        /\ UNCHANGED swaps /\ SameTran
    BY WriteBlockEff
  <1>2. /\ op[c].call = "commit" /\ op[c].page \notin op[c].todo /\ op[c].owner = NoClient
        /\ op[c].the # NoFrame
    BY <1>1 DEF Good, CallsInv, CallShape, TranShape, Loads
  <1>3. PICK p1 \in Dadrs, t \in Frames : p1 = op[c].page /\ t = op[c].the
    BY <1>1, <1>2, PageIs, TheCopy
  <1>4. /\ t \in Copies(c, p1) /\ fcbs[t].chained
        /\ fcbs[t].owner = c /\ fcbs[t].blockdadr = p1
    BY <1>2, <1>3, TheCopy DEF Copies
  <1>5. /\ fcbs[t].data[c] = mine[c][p1]
        /\ \A e \in Clients \ {c} : fcbs[t].data[e] = disc[p1][e]
    BY <1>4, PairIs DEF CoreData
  <1>6. disc'[p1] = fcbs[t].data /\ (p # p1 => disc'[p] = disc[p])
    BY <1>1, <1>3
  <1>7. /\ op'[c].call = "commit" /\ op'[c].at = "update" /\ op'[c].page = p1
        /\ op'[c].owner = NoClient /\ op'[c].the = op[c].the /\ op'[c].todo = op[c].todo
    BY <1>1, <1>2, <1>3 DEF OpAt, OpIs
  <1>8. CallCopies(c, o, p) /\ TranStays(o, p)
    BY <1>1, <1>2, <1>7, TranSame DEF CallCopies, Saves, Reads1
  <1>9. ASSUME NEW g \in Frames
        PROVE  /\ fcbs'[g].blockdadr = fcbs[g].blockdadr /\ fcbs'[g].owner = fcbs[g].owner
               /\ g # t => fcbs'[g].dirty = fcbs[g].dirty
               /\ IF g # t /\ fcbs[g].chained /\ fcbs[g].blockdadr = p1 /\ fcbs[g].owner # c
                  THEN fcbs'[g].data = [fcbs[g].data EXCEPT ![c] = fcbs[t].data[c]]
                  ELSE fcbs'[g].data = fcbs[g].data
    BY <1>1, <1>3 DEF UpdatedFcb
  <1>10. Copies(o, p)' = Copies(o, p)
    BY <1>9 DEF Copies
  <1>11. CopyPair(o, p)'
    BY <1>1, <1>8, <1>10, PairIs, CopyPairStep DEF PairOK
  <1>12. CASE p # p1
    <2>1. \A g \in Copies(o, p) : fcbs'[g].dirty = fcbs[g].dirty /\ fcbs'[g].data = fcbs[g].data
      BY <1>4, <1>9, <1>12 DEF Copies
    <2>2. CopyStays(o, p)
      BY <1>1, <1>6, <1>10, <1>12, <2>1 DEF CopyStays, Found
    <2>3. CallData(c, o, p)
      BY <1>1, <1>2, <1>3, <1>7, <1>12 DEF CallData, Updating, Finished, Written
    <2> QED BY <1>8, <1>11, <2>2, <2>3, PairIs, DataPairStep DEF PairOK
  <1>13. CASE p = p1 /\ o # c
    <2>1. Copies(o, p1) = CoreOf(o, p1)
      BY <1>1, <1>3, <1>13, AllInCore
    <2>2. CoreData(o, p) /\ SwapData(o, p) /\ ChangeThere(o, p) /\ FileData(o, p)
      BY PairIs
    <2>3. ASSUME NEW g \in Copies(o, p)
          PROVE  /\ fcbs'[g].dirty = fcbs[g].dirty
                 /\ fcbs'[g].data[o] = fcbs[g].data[o] /\ fcbs'[g].data[c] = fcbs[t].data[c]
                 /\ \A e \in Clients \ {c, o} : fcbs'[g].data[e] = fcbs[g].data[e]
      <3>1. g \in Frames /\ fcbs[g].chained /\ fcbs[g].blockdadr = p1 /\ fcbs[g].owner = o /\ g # t
        BY <1>4, <1>13, <2>1, <2>3 DEF CoreOf
      <3>2. fcbs'[g].data = [fcbs[g].data EXCEPT ![c] = fcbs[t].data[c]] /\ fcbs'[g].dirty = fcbs[g].dirty
        BY <1>9, <1>13, <3>1
      <3>3. fcbs[g].data \in [Clients -> BOOLEAN]
        BY <3>1 DEF FrameInv, FcbInv, Fcb, Contents
      <3> QED BY <1>13, <3>2, <3>3
    <2>4. mine'[o][p] = mine[o][p] /\ \A e \in Clients \ {c} : disc'[p][e] = disc[p][e]
      BY <1>5, <1>6, <1>8, <1>13 DEF TranStays
    <2>5. CoreData(o, p)'
      <3>1. ASSUME NEW g \in Copies(o, p)
            PROVE  fcbs'[g].data[o] = mine'[o][p] /\ fcbs'[g].data[c] = disc'[p][c]
        BY <1>6, <1>13, <2>2, <2>3, <2>4 DEF CoreData
      <3>2. ASSUME NEW g \in Copies(o, p), NEW e \in Clients \ {o, c}
            PROVE  fcbs'[g].data[e] = disc'[p][e]
        BY <2>2, <2>3, <2>4 DEF CoreData
      <3> QED BY <1>10, <3>1, <3>2 DEF CoreData
    <2>6. Updating(c, p)' /\ \A e \in Clients \ {c} : Updating(e, p) => Updating(e, p)'
      BY <1>2, <1>7, <1>13 DEF Updating, VictimsStay
    <2>7. SwapData(o, p)'
      BY <1>1, <1>13, <2>2, <2>4, <2>6 DEF SwapData
    <2>8. /\ Finished(o, p)' <=> Finished(o, p)
          /\ Written(o, p)' <=> Written(o, p)
      BY <1>13 DEF Finished, Written, VictimsStay
    <2>9. Found(o, p) => Found(o, p)'
      BY <1>1, <1>10, <2>3 DEF Found
    <2>10. ChangeThere(o, p)'
      BY <1>8, <2>2, <2>8, <2>9 DEF ChangeThere, TranStays
    <2>11. FileData(o, p)'
      BY <1>8, <1>13, <2>2, <2>4, <2>8 DEF FileData, TranStays
    <2> QED BY <1>11, <2>5, <2>7, <2>10, <2>11 DEF PairOK, DataPair
  <1>14. CASE p = p1 /\ o = c
    <2>1. OneCopy(o, p)
      BY PairIs
    <2>2. (\A g \in Copies(o, p) : g = t) /\ swaps[o][p].is \notin {"saved", "taken"}
      BY <1>4, <1>14, <2>1 DEF OneCopy
    <2>3. fcbs'[t].data = fcbs[t].data
      BY <1>9
    <2>4. mine'[o][p] = mine[o][p] /\ disc'[p] = fcbs[t].data
      BY <1>6, <1>8, <1>14 DEF TranStays
    <2>5. CoreData(o, p)'
      BY <1>5, <1>10, <1>14, <2>2, <2>3, <2>4 DEF CoreData
    <2>6. SwapData(o, p)'
      BY <1>1, <2>2 DEF SwapData
    <2>7. ChangeThere(o, p)'
      BY <1>2, <1>3, <1>7, <1>14 DEF ChangeThere, Finished
    <2>8. FileData(o, p)'
      BY <1>5, <1>14, <2>4 DEF FileData
    <2> QED BY <1>11, <2>5, <2>6, <2>7, <2>8 DEF PairOK, DataPair
  <1> QED BY <1>12, <1>13, <1>14

\* The written page becomes shared.
LEMMA PairsWrEnd ==
  ASSUME FrameInv, Inv, Good, NEW c \in Clients, VictimsStay(c), NEW o \in Clients, NEW p \in Dadrs,
         wr_end(c)
  PROVE  PairOK(o, p)'
  <1> USE NoClientAssumption, NoDadrAssumption
  <1>1. /\ op[c].at = "update" /\ \A e \in Clients \ {c} : ~Swapped(e, op[c].page)
        /\ op[c].the \in Frames /\ OneFrame(op[c].the) /\ fcbs'[op[c].the].owner = NoClient
        /\ OpNext(c) /\ UNCHANGED <<swaps, disc>> /\ SameTran
    BY WrEndEff DEF FcbIs
  <1>2. /\ op[c].call = "commit" /\ op[c].page \notin op[c].todo /\ op[c].owner = NoClient
        /\ op[c].the # NoFrame
    BY <1>1 DEF Good, CallsInv, CallShape, TranShape, Loads
  <1>3. PICK p1 \in Dadrs, t \in Frames : p1 = op[c].page /\ t = op[c].the
    BY <1>1, PageIs
  <1>4. t \in Copies(c, p1) /\ disc[p1][c] = mine[c][p1]
    BY <1>1, <1>2, <1>3, TheCopy, PageWritten
  <1>5. op[c].at \notin {"saving", "writing"} /\ op[c].call \in {"commit", "roll_back"}
    BY <1>1, <1>2
  <1>6. CallCopies(c, o, p) /\ TranStays(o, p)
    BY <1>1, <1>2, <1>5, PageEnds, TranSame
  <1>7. OneFrame(t) /\ t \notin Copies(o, p)'
    BY <1>1, <1>3 DEF Copies
  <1>8. CASE ~(o = c /\ p = p1)
    <2>1. t \notin Copies(o, p)
      BY <1>4, <1>8 DEF Copies
    <2>2. CopyStays(o, p)
      BY <1>1, <1>7, <2>1, FrameCopies
    <2>3. CopyPair(o, p)'
      BY <1>1, <1>6, <2>2, PairIs, CopyPairStep DEF PairOK, CopyStays
    <2>4. CASE p # p1
      <3>1. CallData(c, o, p)
        BY <1>1, <1>2, <1>3, <1>5, <2>4, PageEnds
      <3> QED BY <1>6, <2>2, <2>3, <3>1, PairIs, DataPairStep DEF PairOK
    <2>5. CASE p = p1
      <3>1. o # c /\ swaps[o][p].is = "none"
        BY <1>1, <1>3, <1>8, <2>5, LockedSwaps DEF Swapped
      <3>2. CoreData(o, p) /\ ChangeThere(o, p) /\ FileData(o, p)
        BY PairIs
      <3>3. CoreData(o, p)'
        BY <1>6, <2>2, <3>2 DEF CoreData, CopyStays, TranStays
      <3>4. SwapData(o, p)'
        BY <1>1, <3>1 DEF SwapData
      <3>5. /\ Finished(o, p)' <=> Finished(o, p)
            /\ Written(o, p)' <=> Written(o, p)
        BY <3>1 DEF Finished, Written, VictimsStay
      <3>6. ChangeThere(o, p)'
        BY <1>6, <2>2, <3>2, <3>5 DEF ChangeThere, CopyStays, TranStays
      <3>7. FileData(o, p)'
        BY <1>1, <1>6, <3>2, <3>5 DEF FileData, TranStays
      <3> QED BY <2>3, <3>3, <3>4, <3>6, <3>7 DEF PairOK, DataPair
    <2> QED BY <2>4, <2>5
  <1>9. CASE o = c /\ p = p1
    <2>1. OneCopy(o, p)
      BY PairIs
    <2>2. Copies(o, p)' = {} /\ swaps[o][p].is \notin {"saved", "taken"}
      BY <1>4, <1>7, <1>9, <2>1 DEF OneCopy, OneFrame, Copies
    <2>3. CopyPair(o, p)'
      BY <1>1, <1>6, <2>2, PairIs, CopyPairStep DEF PairOK
    <2>4. CoreData(o, p)' /\ SwapData(o, p)'
      BY <1>1, <2>2 DEF CoreData, SwapData
    <2>5. ChangeThere(o, p)'
      BY <1>1, <1>2, <1>3, <1>9 DEF ChangeThere, Finished, OpNext, OpIs
    <2>6. FileData(o, p)'
      BY <1>1, <1>4, <1>6, <1>9 DEF FileData, TranStays
    <2> QED BY <2>3, <2>4, <2>5, <2>6 DEF PairOK, DataPair
  <1> QED BY <1>8, <1>9

\* Commit and rollback end.
LEMMA PairsEnd ==
  ASSUME FrameInv, Inv, Good, NEW c \in Clients, VictimsStay(c), NEW o \in Clients, NEW p \in Dadrs,
         end_of_commit(c) \/ end_of_roll_back(c)
  PROVE  PairOK(o, p)'
  <1> USE NoClientAssumption, NoDadrAssumption
  <1> DEFINE Ended ==
        /\ op[c].at = "next" /\ op[c].todo = {} /\ OpIdle(c) /\ changed'[c] = {}
        /\ \A e \in Clients \ {c} : failed'[e] = failed[e] /\ changed'[e] = changed[e]
        /\ UNCHANGED <<fcbs, swaps, disc, mine>>
        /\ op[c].call = "commit" \/ changed[c] = {}
  <1>1. Ended
    <2>1. ASSUME end_of_commit(c) PROVE Ended
      BY <2>1, EndOfCommitEff
    <2>2. ASSUME end_of_roll_back(c) PROVE Ended
      <3>1. /\ op[c].at = "next" /\ op[c].call = "roll_back" /\ op[c].todo = {} /\ OpIdle(c)
            /\ \A e \in Clients \ {c} : failed'[e] = failed[e]
            /\ UNCHANGED <<fcbs, swaps, disc, changed, mine>>
        BY <2>2, EndOfRollBackEff
      <3>2. changed[c] \subseteq {NoDadr} /\ changed[c] \subseteq Dadrs
        BY <3>1 DEF Good, CallsInv, CallShape, TranShape, FrameInv, DataInv, OtherInv
      <3> QED BY <3>1, <3>2
    <2> QED BY <2>1, <2>2
  <1>2. op[c].page = NoDadr /\ op[c].owner = NoClient
    BY <1>1 DEF Good, CallsInv, CallShape, Loads
  <1>3. CallCopies(c, o, p)
    BY <1>1, <1>2 DEF CallCopies, Saves, Reads1, OpIdle, OpIs
  <1>4. CopyStays(o, p)
    BY <1>1, NoCopyStep
  <1>5. CopyPair(o, p)'
    BY <1>1, <1>3, <1>4, PairIs, CopyPairStep DEF PairOK, CopyStays
  <1>6. ~Updating(c, p)
    BY <1>2 DEF Updating
  <1>7. CASE o # c
    <2>1. CallData(c, o, p)
      BY <1>6, <1>7 DEF CallData
    <2>2. TranStays(o, p)
      BY <1>1, <1>7 DEF TranStays
    <2> QED BY <1>4, <1>5, <2>1, <2>2, PairIs, DataPairStep DEF PairOK
  <1>8. CASE o = c
    <2>1. CoreData(o, p) /\ SwapData(o, p) /\ FileData(o, p)
      BY PairIs
    <2>2. CoreData(o, p)'
      BY <1>1, <2>1 DEF CoreData, Copies
    <2>3. SwapData(o, p)'
      BY <1>1, <1>6, <2>1 DEF SwapData, VictimsStay, Updating
    <2>4. ChangeThere(o, p)'
      BY <1>1, <1>8 DEF ChangeThere
    <2>5. p \notin changed[c] \/ Written(c, p)
      BY <1>1, <1>2 DEF Finished, Written
    <2>6. FileData(o, p)'
      BY <1>1, <1>8, <2>1, <2>5 DEF FileData
    <2> QED BY <1>5, <2>2, <2>3, <2>4, <2>6 DEF PairOK, DataPair
  <1> QED BY <1>7, <1>8

\* The changes of a page are removed.
LEMMA PairsRemoved ==
  ASSUME FrameInv, Inv, Good, NEW c \in Clients, VictimsStay(c), NEW o \in Clients, NEW p \in Dadrs,
         remove_changes(c)
  PROVE  PairOK(o, p)'
  <1> USE NoClientAssumption, NoDadrAssumption
  <1>0. SharedInv
    BY DEF Good
  <1>1. /\ op[c].at = "locked" /\ op[c].call = "roll_back" /\ OpNext(c)
        /\ <<c, op[c].page>> \notin OutOfChains
        /\ SwapIs(c, op[c].page, "none", Blank)
        /\ \A e \in Clients, q \in Dadrs :
              mine'[e][q] = IF e = c /\ q = op[c].page THEN disc[op[c].page][c] ELSE mine[e][q]
        /\ changed'[c] = changed[c] \ {op[c].page}
        /\ \A e \in Clients \ {c} : changed'[e] = changed[e]
        /\ UNCHANGED <<disc, failed>>
    BY <1>0, RemoveChangesEff
  <1>2. \/ UNCHANGED fcbs /\ CoreOf(c, op[c].page) = {}
        \/ \E f \in CoreOf(c, op[c].page) :
             \/ FcbIs(f, NoDadr, NoClient, FALSE, 0, TRUE, Blank)
             \/ \E d : /\ FcbIs(f, fcbs[f].blockdadr, fcbs[f].owner, fcbs[f].dirty,
                                fcbs[f].fixnum, fcbs[f].chained, d)
                       /\ (op[c].page \notin changed[c] /\ d = fcbs[f].data) \/ d = disc[op[c].page]
    BY <1>0, RemoveChangesEff
  <1>3. PICK p1 \in Dadrs : p1 = op[c].page
    BY <1>1, PageIs
  <1>4. op[c].owner = NoClient /\ op[c].at \notin {"saving", "writing"}
        /\ op[c].call \in {"commit", "roll_back"} /\ op[c].call # "commit"
    BY <1>1 DEF Good, CallsInv, CallShape, Loads
  <1>5. CallCopies(c, o, p) /\ CallData(c, o, p)
    BY <1>1, <1>4, PageEnds
  <1>6. Copies(c, p1) = CoreOf(c, p1)
    BY <1>1, <1>3, AllInCore
  \* What happens to the frames.
  <1> DEFINE Emptied ==
        /\ \A g \in Frames \ Copies(c, p1) : fcbs'[g] = fcbs[g]
        /\ \A g \in Copies(c, p1) :
             \/ fcbs'[g].owner = NoClient
             \/ fcbs'[g].owner = c /\ fcbs'[g].blockdadr = p1 /\ fcbs'[g].data = disc[p1]
  <1>7. Emptied
    <2>1. CASE UNCHANGED fcbs /\ CoreOf(c, op[c].page) = {}
      BY <1>3, <1>6, <2>1
    <2>2. ASSUME NEW f \in CoreOf(c, op[c].page),
                 FcbIs(f, NoDadr, NoClient, FALSE, 0, TRUE, Blank)
          PROVE  Emptied
      <3>1. f \in Copies(c, p1) /\ \A g \in Copies(c, p1) : g = f
        BY <1>3, <1>6, <2>2, PairIs DEF OneCopy
      <3> QED BY <2>2, <3>1 DEF FcbIs, OneFrame
    <2>3. ASSUME NEW f \in CoreOf(c, op[c].page), NEW d,
                 FcbIs(f, fcbs[f].blockdadr, fcbs[f].owner, fcbs[f].dirty, fcbs[f].fixnum,
                       fcbs[f].chained, d),
                 (op[c].page \notin changed[c] /\ d = fcbs[f].data) \/ d = disc[op[c].page]
          PROVE  Emptied
      <3>1. f \in Copies(c, p1) /\ \A g \in Copies(c, p1) : g = f
        BY <1>3, <1>6, <2>3, PairIs DEF OneCopy
      <3>2. d = disc[p1]
        <4>1. CASE p1 \notin changed[c]
          <5>1. disc[p1][c] = mine[c][p1]
            BY <4>1, PairIs DEF FileData
          <5>2. fcbs[f].data = disc[p1]
            BY <3>1, <5>1, WrittenCopy
          <5> QED BY <1>3, <2>3, <5>2
        <4>2. CASE p1 \in changed[c]
          BY <1>3, <2>3, <4>2
        <4> QED BY <4>1, <4>2
      <3>3. fcbs[f].owner = c /\ fcbs[f].blockdadr = p1
        BY <3>1 DEF Copies
      <3> QED BY <2>3, <3>1, <3>2, <3>3 DEF FcbIs, OneFrame
    <2> QED BY <1>2, <2>1, <2>2, <2>3
  <1>8. CASE ~(o = c /\ p = p1)
    <2>1. swaps'[o][p] = swaps[o][p]
      BY <1>1, <1>3, <1>8 DEF SwapIs, OneSwap
    <2>2. TranStays(o, p)
      BY <1>1, <1>3, <1>8 DEF TranStays
    <2>3. \A g \in Copies(o, p) : g \in Frames /\ g \notin Copies(c, p1)
      BY <1>8 DEF Copies
    <2>4. \A g \in Copies(c, p1) : g \notin Copies(o, p)'
      BY <1>7, <1>8 DEF Copies
    <2>5. Copies(o, p)' = Copies(o, p) /\ \A g \in Copies(o, p) : fcbs'[g] = fcbs[g]
      BY <1>7, <2>3, <2>4 DEF Copies
    <2>6. CopyStays(o, p)
      BY <1>1, <2>1, <2>5 DEF CopyStays, Found
    <2> QED BY <1>5, <2>1, <2>2, <2>6, PairIs, PairStep
  <1>9. CASE o = c /\ p = p1
    <2>1. swaps[o][p].is \in {"none", "saved"} /\ swaps'[o][p].is = "none"
      BY <1>1, <1>3, <1>9, LockedSwaps DEF SwapIs
    <2>2. OneCopy(o, p)
      BY PairIs
    <2>3. /\ Copies(o, p)' \subseteq Copies(o, p)
          /\ \A g \in Copies(o, p)' : fcbs'[g].data = disc[p]
      BY <1>7, <1>9 DEF Copies
    <2>4. \A e \in Clients : ~Saves(e, o, p)'
      BY <1>5, <2>1, <2>2 DEF OneCopy, Saves, VictimPage, VictimsStay, CallCopies
    <2>5. \A e \in Clients : ~(op'[e].page = p /\ op'[e].owner = o)
      BY <1>5, <2>1, <2>2 DEF OneCopy, VictimsStay, CallCopies
    <2>6. OneCopy(o, p)'
      BY <2>1, <2>2, <2>3, <2>4, <2>5 DEF OneCopy
    <2>7. NoCopyYet(o, p)'
      BY <1>1, <1>9 DEF NoCopyYet, OpNext, OpIs
    <2>8. mine'[o][p] = disc[p][o] /\ p \notin changed'[o]
      BY <1>1, <1>3, <1>9
    <2>9. CoreData(o, p)'
      BY <1>1, <2>3, <2>8 DEF CoreData
    <2>10. SwapData(o, p)' /\ ChangeThere(o, p)' /\ FileData(o, p)'
      BY <1>1, <2>1, <2>8 DEF SwapData, ChangeThere, FileData
    <2> QED BY <2>6, <2>7, <2>9, <2>10 DEF PairOK, CopyPair, DataPair
  <1> QED BY <1>8, <1>9

-----------------------------------------------------------------------------
\* Every step keeps the copies and their contents.
LEMMA PairsKept ==
  ASSUME FrameInv, Inv, Good, NEW c \in Clients, CacheStep(c)
  PROVE  CopiesInv' /\ ContentsInv'
  <1>1. VictimsStay(c)
    BY VictimsKept
  <1>2. ASSUME NEW o \in Clients, NEW p \in Dadrs PROVE PairOK(o, p)'
    <2>1. ASSUME \/ \E q \in Dadrs : \/ next_page(c, q)
                                     \/ \E call \in {"fix_any_page", "fix_priv_page"} :
                                           fix_page(c, q, call)
                 \/ wait_for_block(c) \/ retry_page(c) \/ sleep_for_frame(c) \/ no_frame(c)
                 \/ commit(c) \/ roll_back(c)
          PROVE  PairOK(o, p)'
      BY <1>1, <2>1, PairsQuiet
    <2>2. ASSUME fix_get_frame(c) \/ \E o1 \in Clients : update_swapped(c, o1)
          PROVE  PairOK(o, p)'
      BY <1>1, <2>2, PairsAsk
    <2>3. ASSUME retry_victim(c) \/ \E f \in Frames : get_frame_swapping(c, f)
          PROVE  PairOK(o, p)'
      BY <1>1, <2>3, PairsBeginSwap
    <2>4. ASSUME NEW f \in Frames, get_frame(c, f) PROVE PairOK(o, p)'
      BY <1>1, <2>4, PairsGetFrame
    <2>5. ASSUME save_block(c) PROVE PairOK(o, p)'
      BY <1>1, <2>5, PairsSaved
    <2>6. ASSUME save_block_fails(c) PROVE PairOK(o, p)'
      BY <1>1, <2>6, PairsNotSaved
    <2>7. ASSUME NEW f \in Frames, fix_own(c, f) \/ unfix_page(c, f) PROVE PairOK(o, p)'
      BY <1>1, <2>7, PairsFixed
    <2>8. ASSUME NEW f \in Frames, fix_shared(c, f) PROVE PairOK(o, p)'
      BY <1>1, <2>8, PairsFixed, PairsFixShared
    <2>9. ASSUME read_block(c) \/ read_block_fails(c) PROVE PairOK(o, p)'
      BY <1>1, <2>9, PairsRead
    <2>10. ASSUME load_block(c) PROVE PairOK(o, p)'
      BY <1>1, <2>10, PairsLoadBlock
    <2>11. ASSUME load_changes(c) PROVE PairOK(o, p)'
      BY <1>1, <2>11, PairsLoadChanges
    <2>12. ASSUME load_other(c) PROVE PairOK(o, p)'
      BY <1>1, <2>12, PairsLoadOther
    <2>13. ASSUME fix_err(c) PROVE PairOK(o, p)'
      BY <1>1, <2>13, PairsFixErr
    <2>14. ASSUME NEW f \in Frames, rec_changed(c, f) PROVE PairOK(o, p)'
      BY <1>1, <2>14, PairsRecChanged
    <2>15. ASSUME wr_nothing(c) PROVE PairOK(o, p)'
      BY <1>1, <2>15, PairsWrNothing
    <2>16. ASSUME wr_changes(c) PROVE PairOK(o, p)'
      BY <1>1, <2>16, PairsWrChanges
    <2>17. ASSUME write_block(c) PROVE PairOK(o, p)'
      BY <1>1, <2>17, PairsWritten
    <2>18. ASSUME wr_end(c) PROVE PairOK(o, p)'
      BY <1>1, <2>18, PairsWrEnd
    <2>19. ASSUME end_of_commit(c) \/ end_of_roll_back(c) PROVE PairOK(o, p)'
      BY <1>1, <2>19, PairsEnd
    <2>20. ASSUME remove_changes(c) PROVE PairOK(o, p)'
      BY <1>1, <2>20, PairsRemoved
    <2> QED
      BY <2>1, <2>2, <2>3, <2>4, <2>5, <2>6, <2>7, <2>8, <2>9, <2>10, <2>11, <2>12, <2>13, <2>14,
         <2>15, <2>16, <2>17, <2>18, <2>19, <2>20 DEF CacheStep
  <1> QED BY <1>2, PairsAre

\* In the initial state all frames are empty and nobody is in a call.
LEMMA CacheInit ==
  ASSUME FrameInit
  PROVE  CacheInv
  <1> USE NoClientAssumption, NoFrameAssumption, NoDadrAssumption
  <1>1. /\ \A c \in Clients : /\ op[c].call = "none" /\ op[c].at = "run" /\ op[c].page = NoDadr
                              /\ op[c].owner = NoClient /\ op[c].the = NoFrame
                              /\ op[c].frame = NoFrame /\ op[c].todo = {}
                              /\ changed[c] = {} /\ fixed[c] = {} /\ ~failed[c]
                              /\ outer[c] = NoSlot /\ inner[c] = NoSlot /\ pc[c] = "run"
    BY DEF FrameInit, Idle, Init
  <1>2. \A f \in Frames : /\ fcbs[f].blockdadr = NoDadr /\ fcbs[f].owner = NoClient
                          /\ fcbs[f].fixnum = 0 /\ fcbs[f].chained
    BY DEF FrameInit, EmptyFcb
  <1>3. \A o \in Clients, p \in Dadrs : /\ swaps[o][p].is = "none" /\ disc[p][o] = mine[o][p]
                                        /\ Copies(o, p) = {}
    BY <1>2 DEF FrameInit, NoSwap, Blank, Copies
  <1>4. CallsInv
    BY <1>1 DEF CallsInv, CallShape, TranShape, Fixing, Getting, Loads
  <1>5. LockingInv
    BY <1>1 DEF LockingInv, Locking, HoldsPage
  <1>6. UseInv
    <2>1. \A f \in Frames : Users(f) = {}
      BY <1>1 DEF Users, Uses
    <2>2. \A f \in Frames : Counted(f)
      BY <1>2, <2>1, FS_EmptySet DEF Counted
    <2> QED BY <1>1, <1>2, <2>2 DEF UseInv, Chained, GotUse, FixedUse, TheUse
  <1>7. CopiesInv
    BY <1>1, <1>3 DEF CopiesInv, OneCopy, NoCopyYet, Saves
  <1>8. ContentsInv
    BY <1>1, <1>3 DEF ContentsInv, CoreData, SwapData, ChangeThere, FileData
  <1>9. SharedInv
    BY <1>2 DEF SharedInv, SharedOK
  <1> QED BY <1>4, <1>5, <1>6, <1>7, <1>8, <1>9 DEF CacheInv, Good

\* When a page is lost, the model ends.
LEMMA BrokenStays ==
  ASSUME [FrameNext]_allVars, broken
  PROVE  broken'
  <1>1. ASSUME NEW c \in Clients PROVE ~Call(c)
    BY DEF Call, fix_page, unfix_page, rec_changed, commit, roll_back, At
  <1>2. ASSUME NEW c \in Clients PROVE ~CallStep(c)
    <2>1. /\ \A p \in Dadrs : ~next_page(c, p)
          /\ ~wait_for_block(c) /\ ~retry_page(c) /\ ~retry_victim(c)
          /\ ~sleep_for_frame(c) /\ ~no_frame(c)
          /\ \A f \in Frames : ~get_frame(c, f) /\ ~get_frame_swapping(c, f)
          /\ ~save_block(c) /\ ~save_block_fails(c)
      BY DEF next_page, wait_for_block, retry_page, retry_victim, sleep_for_frame, no_frame,
         get_frame, get_frame_swapping, save_block, save_block_fails, At
    <2>2. /\ \A f \in Frames : ~fix_own(c, f) /\ ~fix_shared(c, f)
          /\ ~fix_get_frame(c) /\ ~fix_misses(c)
          /\ ~read_block(c) /\ ~read_block_fails(c) /\ ~load_block(c) /\ ~fix_err(c)
      BY DEF fix_own, fix_shared, fix_get_frame, fix_misses, read_block, read_block_fails,
         load_block, fix_err, At
    <2>3. /\ ~wr_nothing(c) /\ ~wr_changes(c) /\ ~wr_misses(c) /\ ~load_changes(c)
          /\ ~write_block(c) /\ ~update_misses(c) /\ \A o \in Clients : ~update_swapped(c, o)
          /\ ~load_other(c) /\ ~wr_end(c) /\ ~wr_err(c) /\ ~end_of_commit(c)
      BY DEF wr_nothing, wr_changes, wr_misses, load_changes, write_block, update_misses,
         update_swapped, load_other, wr_end, wr_err, end_of_commit, At
    <2>4. ~remove_changes(c) /\ ~remove_misses(c) /\ ~end_of_roll_back(c)
      BY DEF remove_changes, remove_misses, end_of_roll_back, At
    <2> QED BY <2>1, <2>2, <2>3, <2>4 DEF CallStep
  <1>3. UNCHANGED allVars
    BY <1>1, <1>2 DEF FrameNext, Lost
  <1> QED BY <1>3 DEF allVars, frameVars

\* CacheInv is inductive relative to FrameInv and the invariant of the locks.
LEMMA CacheNext ==
  ASSUME FrameInv, Inv, CacheInv, [FrameNext]_allVars
  PROVE  CacheInv'
  <1> SUFFICES ASSUME ~broken' PROVE Good'
    BY DEF CacheInv
  <1>1. ~broken
    BY BrokenStays
  <1>2. Good
    BY <1>1 DEF CacheInv
  <1>3. ASSUME NEW c \in Clients, CacheStep(c) PROVE Good'
    <2>1. CallsInv' /\ UseInv' /\ SharedInv'
      BY <1>2, <1>3, CallsKept, UseKept, SharedKept
    <2>2. LockingInv'
      BY <1>2, <1>3, LockingKept
    <2>3. CopiesInv' /\ ContentsInv'
      BY <1>2, <1>3, PairsKept
    <2> QED BY <2>1, <2>2, <2>3 DEF Good
  <1>4. CASE UNCHANGED allVars
    <2>1. /\ UNCHANGED <<op, fcbs, swaps, disc, log, changed, mine, fixed, failed>>
          /\ UNCHANGED <<dadrs, outer, inner, pc, locking_dadr>>
      BY <1>4 DEF allVars, frameVars, vars
    <2>2. CallsInv'
      BY <1>2, <2>1 DEF Good, CallsInv, CallShape, TranShape, Fixing
    <2>3. LockingInv'
      BY <1>2, <2>1 DEF Good, LockingInv, Locking, HoldsPage, VictimPage
    <2>4. UseInv'
      <3>1. \A f \in Frames : Users(f)' = Users(f)
        BY <2>1 DEF Users, Uses
      <3> QED BY <1>2, <2>1, <3>1 DEF Good, UseInv, Counted, Chained, GotUse, FixedUse, TheUse, Uses,
              Fixing
    <2>5. CopiesInv'
      BY <1>2, <2>1 DEF Good, CopiesInv, OneCopy, NoCopyYet, Copies, Saves, VictimPage
    <2>6. ContentsInv'
      BY <1>2, <2>1 DEF Good, ContentsInv, CoreData, SwapData, ChangeThere, FileData, Copies, Found,
         Finished, Written, Updating
    <2>7. SharedInv'
      BY <1>2, <2>1 DEF Good, SharedInv, SharedOK
    <2> QED BY <2>2, <2>3, <2>4, <2>5, <2>6, <2>7 DEF Good
  <1> QED BY <1>1, <1>3, <1>4, StepIs

\* The cache keeps its contents in order until a page is lost.
THEOREM CacheInvariant == FrameSpec => [](FrameInv /\ Inv /\ CacheInv)
<1>1. FrameInit => CacheInv
  BY CacheInit
<1>2. FrameInv /\ Inv /\ CacheInv /\ [FrameNext]_allVars => CacheInv'
  BY CacheNext
<1> QED
  BY <1>1, <1>2, FrameInvariant, ImplementsDadrLocks, Invariance, PTL DEF FrameSpec

(***************************************************************************)
(* What a client reads and writes through its fixed frames is exact.       *)
(***************************************************************************)
THEOREM FixedViewIsExact == FrameSpec => []FixedViewExact
<1>1. FrameInv /\ Inv /\ CacheInv => FixedViewExact
  <2> SUFFICES ASSUME FrameInv, Inv, Good, NEW c \in Clients, NEW f \in fixed[c]
               PROVE  LET b == fcbs[f]  p == b.blockdadr IN
                      /\ b.chained /\ p # NoDadr /\ b.fixnum > 0
                      /\ b.owner \in {c, NoClient}
                      /\ b.owner = NoClient => b.data = disc[p]
                      /\ b.owner = c => b.data[c] = mine[c][p]
    BY DEF FixedViewExact, CacheInv
  <2>1. f \in Frames /\ UseInv /\ Uses(c, f)
    BY DEF FrameInv, OtherInv, Good, Uses
  <2>2. /\ fcbs[f].blockdadr # NoDadr /\ fcbs[f].owner \in {c, NoClient}
        /\ op[c].frame # f
    BY <2>1 DEF UseInv, FixedUse, GotUse
  <2>3. fcbs[f].chained
    BY <2>1, <2>2, UsedChained
  <2>4. fcbs[f].fixnum > 0
    <3>1. fcbs[f].fixnum \in Nat /\ fcbs[f].fixnum # 0
      BY <2>1, NoUsers DEF FrameInv, FcbInv, Fcb
    <3> QED BY <3>1
  <2>5. fcbs[f].owner = NoClient => fcbs[f].data = disc[fcbs[f].blockdadr]
    BY <2>1, <2>2, <2>3 DEF Good, SharedInv, SharedOK
  <2>6. fcbs[f].owner = c => fcbs[f].data[c] = mine[c][fcbs[f].blockdadr]
    <3> SUFFICES ASSUME fcbs[f].owner = c PROVE fcbs[f].data[c] = mine[c][fcbs[f].blockdadr]
      OBVIOUS
    <3>1. fcbs[f].blockdadr \in Dadrs
      BY <2>1, <2>2 DEF FrameInv, FcbInv, Fcb
    <3>2. f \in Copies(c, fcbs[f].blockdadr)
      BY <2>1 DEF Copies
    <3> QED BY <3>1, <3>2, PairIs DEF CoreData
  <2> QED BY <2>2, <2>3, <2>4, <2>5, <2>6
<1> QED
  BY <1>1, CacheInvariant, PTL

(***************************************************************************)
(* After a commit the file has what the client has written, and after a    *)
(* rollback the client has what the file has.                              *)
(***************************************************************************)
THEOREM CommitIsExact == FrameSpec => []CommitExact
<1>1. FrameInv /\ Inv /\ CacheInv => CommitExact
  BY PairIs DEF CommitExact, CacheInv, FileData
<1> QED
  BY <1>1, CacheInvariant, PTL

(***************************************************************************)
(* Every private copy has what the other clients have committed in it.     *)
(***************************************************************************)
THEOREM PrivateCopiesAreCurrent == FrameSpec => []PrivateCopiesCurrent
<1>1. FrameInv /\ Inv /\ CacheInv => PrivateCopiesCurrent
  <2> SUFFICES ASSUME Good, NEW o \in Clients, NEW p \in Dadrs, NEW e \in Clients \ {o}
               PROVE  /\ \A f \in CoreOf(o, p) : fcbs[f].data[e] = disc[p][e]
                      /\ swaps[o][p].is = "saved" =>
                             swaps[o][p].data[e] = disc[p][e] \/ Updating(e, p)
    BY DEF PrivateCopiesCurrent, CacheInv
  <2>1. CoreData(o, p) /\ SwapData(o, p)
    BY PairIs
  <2> QED BY <2>1 DEF CoreData, SwapData, CoreOf, Copies
<1> QED
  BY <1>1, CacheInvariant, PTL

(***************************************************************************)
(* A changed page is found by its owner, once and with its last change,    *)
(* unless a victim out of its chain is that page (the model follows the    *)
(* code to there: see broken).                                             *)
(***************************************************************************)
THEOREM ChangedPageIsFound == FrameSpec => []ChangedPageFound
<1>1. FrameInv /\ Inv /\ CacheInv => ChangedPageFound
  <2> SUFFICES ASSUME FrameInv, Inv, Good, NEW c \in Clients, NEW p \in changed[c], ~failed[c],
                      ~(op[c].call = "commit" /\ p \notin op[c].todo), <<c, p>> \notin OutOfChains
               PROVE  \/ /\ swaps[c][p].is = "none"
                         /\ \E f \in CoreOf(c, p) : /\ CoreOf(c, p) = {f}
                                                    /\ fcbs[f].data[c] = mine[c][p]
                      \/ /\ CoreOf(c, p) = {}
                         /\ \/ /\ swaps[c][p].is \in {"saved", "taken"}
                               /\ swaps[c][p].data[c] = mine[c][p]
                            \/ swaps[c][p].is = "saving" /\ IsLocked(p)
    BY DEF ChangedPageFound, CacheInv
  <2>0. p \in Dadrs
    BY DEF FrameInv, OtherInv, DataInv
  <2>1. /\ OneCopy(c, p) /\ CoreData(c, p) /\ SwapData(c, p) /\ Found(c, p)
    BY <2>0, PairIs DEF ChangeThere, Finished
  <2>2. CASE swaps[c][p].is \in {"saved", "taken"}
    <3>1. Copies(c, p) = {}
      BY <2>1, <2>2 DEF OneCopy
    <3> QED BY <2>1, <2>2, <3>1 DEF SwapData, Copies, CoreOf
  <2>3. CASE swaps[c][p].is \notin {"saved", "taken"}
    <3>1. PICK f \in Copies(c, p) : \A g \in Copies(c, p) : g = f
      BY <2>1, <2>3 DEF Found, OneCopy
    <3>2. swaps[c][p].is \in {"none", "saving"}
      BY <2>1, <3>1 DEF OneCopy
    <3>3. CASE swaps[c][p].is = "none"
      <4>1. fcbs[f].chained
        BY <2>0, <3>3, UnchainedCopy
      <4>2. CoreOf(c, p) = {f}
        BY <3>1, <4>1 DEF CoreOf, Copies
      <4>3. fcbs[f].data[c] = mine[c][p]
        BY <2>1 DEF CoreData
      <4> QED BY <3>3, <4>2, <4>3
    <3>4. CASE swaps[c][p].is = "saving"
      <4>1. PICK e \in Clients : Saves(e, c, p)
        BY <2>1, <3>4 DEF OneCopy
      <4>2. op[e].at = "saving" /\ fcbs[op[e].frame].owner = c /\ VictimPage(e) = p
        BY <4>1 DEF Saves
      <4>3. op[e].frame \in Copies(c, p) /\ op[e].frame \in Frames
        BY <2>0, <4>2, OneSaver
      <4>4. ~fcbs[op[e].frame].chained
        BY <4>3, GotOnce DEF Good
      <4>5. CoreOf(c, p) = {}
        BY <3>1, <4>3, <4>4 DEF CoreOf, Copies
      <4>6. IsLocked(p)
        BY <4>2, LockedApart DEF Good, PagesLocked
      <4> QED BY <3>4, <4>5, <4>6
    <3> QED BY <3>2, <3>3, <3>4
  <2> QED BY <2>2, <2>3
<1> QED
  BY <1>1, CacheInvariant, PTL
=============================================================================
