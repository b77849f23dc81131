-------------------------- MODULE FrameCache_proofs -------------------------
(***************************************************************************)
(* The frame cache keeps its types, and it uses the block locks as         *)
(* DadrLocks allows: FrameSpec implements Spec of DadrLocks, so what is    *)
(* proved there holds for the block locks inside the cache.                *)
(***************************************************************************)
EXTENDS FrameCache, DadrLocks_proofs

\* A private frame has a page: get_frame asks only for locks of real blocks.
PrivateHasPage ==
    \A f \in Frames : fcbs[f].owner # NoClient => fcbs[f].blockdadr \in Dadrs

SwapBlock == [is : SwapStates, data : Contents]

\* What the local variables of a call of c are at its steps.
CallOK(c, o) ==
    /\ o.at \notin {"run", "next"} => o.page \in Dadrs
    /\ o.at \in {"victim", "saving", "reading", "loading"} => o.frame \in Frames
    /\ o.at = "loading" => o.owner \in Clients
    /\ o.at \in {"writing", "update"} => o.the \in Frames
    /\ o.call = "commit" /\ o.owner \notin {c, NoClient} => o.the \in Frames

CallVariables == \A c \in Clients : CallOK(c, op[c])

OpInv == op \in [Clients -> Op] /\ CallVariables
FcbInv == fcbs \in [Frames -> Fcb] /\ PrivateHasPage
SwapInv == swaps \in [Clients -> [Dadrs -> SwapBlock]]
DataInv == /\ disc \in [Dadrs -> Contents]
           /\ mine \in [Clients -> [Dadrs -> BOOLEAN]]
OtherInv == /\ cs \in Clients \cup {NoClient}
            /\ log \in [Clients -> SUBSET Dadrs]
            /\ changed \in [Clients -> SUBSET Dadrs]
            /\ fixed \in [Clients -> SUBSET Frames]
            /\ failed \in [Clients -> BOOLEAN]
            /\ broken \in BOOLEAN

\* The inductive invariant.
FrameInv == OpInv /\ FcbInv /\ SwapInv /\ DataInv /\ OtherInv
-----------------------------------------------------------------------------
\* One call, one control block or one swap control block changes at a time.

\* The call of one client changes to o.
LEMMA OpChanges ==
    ASSUME OpInv, NEW c \in Clients, NEW o \in Op, CallOK(c, o),
           op' = [op EXCEPT ![c] = o]
    PROVE  OpInv'
<1>1. op' \in [Clients -> Op]
  BY DEF OpInv
<1>2. \A e \in Clients : op'[e] = IF e = c THEN o ELSE op[e]
  BY DEF OpInv
<1>3. CallVariables'
  BY <1>2 DEF OpInv, CallVariables, CallOK
<1> QED
  BY <1>1, <1>3 DEF OpInv

\* One frame gets the control block b.
LEMMA FcbChanges ==
    ASSUME FcbInv, NEW f \in Frames, NEW b \in Fcb,
           b.owner # NoClient => b.blockdadr \in Dadrs,
           fcbs' = [fcbs EXCEPT ![f] = b]
    PROVE  FcbInv'
<1>1. \A e \in Frames : fcbs'[e] = IF e = f THEN b ELSE fcbs[e]
  BY DEF FcbInv
<1> QED
  BY <1>1 DEF FcbInv, PrivateHasPage

\* One swap control block changes to s.
LEMMA SwapChanges ==
    ASSUME SwapInv, NEW o \in Clients, NEW p \in Dadrs, NEW s \in SwapBlock,
           swaps' = [swaps EXCEPT ![o][p] = s]
    PROVE  SwapInv'
  BY DEF SwapInv

\* A control block stays one when a field of it changes; page and owner do not.
LEMMA FcbFields ==
    ASSUME NEW r \in Fcb
    PROVE  /\ \A i \in Nat : /\ [r EXCEPT !.fixnum = i] \in Fcb
                             /\ [r EXCEPT !.fixnum = i].owner = r.owner
                             /\ [r EXCEPT !.fixnum = i].blockdadr = r.blockdadr
           /\ \A x \in BOOLEAN :
                /\ [r EXCEPT !.chained = x] \in Fcb
                /\ [r EXCEPT !.chained = x].owner = r.owner
                /\ [r EXCEPT !.chained = x].blockdadr = r.blockdadr
           /\ \A x \in BOOLEAN :
                /\ [r EXCEPT !.dirty = x] \in Fcb
                /\ [r EXCEPT !.dirty = x].owner = r.owner
                /\ [r EXCEPT !.dirty = x].blockdadr = r.blockdadr
           /\ \A d \in Contents :
                /\ [r EXCEPT !.data = d] \in Fcb
                /\ [r EXCEPT !.data = d].owner = r.owner
                /\ [r EXCEPT !.data = d].blockdadr = r.blockdadr
           /\ \A d \in Dadrs \cup {NoDadr} :
                /\ [r EXCEPT !.blockdadr = d] \in Fcb
                /\ [r EXCEPT !.blockdadr = d].owner = r.owner
           /\ /\ [r EXCEPT !.owner = NoClient] \in Fcb
              /\ [r EXCEPT !.owner = NoClient].owner = NoClient
  BY DEF Fcb

\* The values that stand for no page.
LEMMA EmptyValues ==
    /\ EmptyFcb \in Fcb /\ EmptyFcb.owner = NoClient
    /\ NoSwap \in SwapBlock
    /\ Blank \in Contents
    /\ [is |-> "saving", data |-> Blank] \in SwapBlock
    /\ Idle \in Op
  BY DEF EmptyFcb, Fcb, NoSwap, SwapBlock, SwapStates, Blank, Contents, Idle, Op

\* What FrameInv says of the call of a client.
LEMMA CallIs ==
    ASSUME OpInv, NEW c \in Clients
    PROVE  op[c] \in Op /\ CallOK(c, op[c])
  BY DEF OpInv, CallVariables
-----------------------------------------------------------------------------
\* The parts of actions.

\* After LockPage the client waits for the page, or is inside with it.
LEMMA LockPageOp ==
    ASSUME FrameInv, NEW c \in Clients, NEW p \in Dadrs,
           NEW call \in {"none", "fix_any_page", "fix_priv_page", "commit",
                         "roll_back"},
           NEW todo \in SUBSET Dadrs, LockPage(c, p, call, todo)
    PROVE  OpInv' /\ cs' \in Clients \cup {NoClient}
<1> DEFINE o(at) == [Idle EXCEPT !.call = call, !.at = at, !.page = p,
                                 !.todo = todo]
<1>1. \A at \in {"locked", "locking"} : o(at) \in Op /\ CallOK(c, o(at))
  BY ZenonT(60) DEF Idle, Op, CallOK
<1>2. \/ op' = [op EXCEPT ![c] = o("locked")] /\ cs' = c
      \/ op' = [op EXCEPT ![c] = o("locking")] /\ cs' = NoClient
  BY DEF LockPage
<1> HIDE DEF o
<1>3. OpInv
  BY DEF FrameInv
<1> QED
  BY <1>1, <1>2, <1>3, OpChanges

\* NeedFrame takes the swapped copy of o, which may be another client's only
\* in the middle of wr_changes.
LEMMA NeedFrameOK ==
    ASSUME FrameInv, NEW c \in Clients, NEW o \in Clients \cup {NoClient},
           op[c].page \in Dadrs, o \in {c, NoClient} \/ op[c].the \in Frames,
           NeedFrame(c, o)
    PROVE  OpInv' /\ SwapInv'
<1> USE DEF FrameInv
<1> DEFINE r == [op[c] EXCEPT !.at = "get_frame", !.owner = o]
<1>1. op' = [op EXCEPT ![c] = r]
  BY DEF NeedFrame, OpInv
<1>2. r \in Op
  BY CallIs DEF Op
<1>3. CallOK(c, r)
  BY CallIs DEF Op, CallOK
<1>4. OpInv'
  <2> HIDE DEF r
  <2> QED BY <1>1, <1>2, <1>3, OpChanges
<1>5. CASE o = NoClient
  BY <1>4, <1>5 DEF NeedFrame, SwapInv
<1>6. CASE o # NoClient
  <2> DEFINE s == [swaps[o][op[c].page] EXCEPT !.is = "taken"]
  <2>1. s \in SwapBlock
    BY <1>6 DEF SwapInv, SwapBlock, SwapStates
  <2>2. swaps' = [swaps EXCEPT ![o][op[c].page] = s]
    BY <1>6 DEF NeedFrame
  <2> HIDE DEF s
  <2>3. SwapInv'
    BY <1>6, <2>1, <2>2, SwapChanges
  <2> QED BY <1>4, <2>3
<1> QED
  BY <1>5, <1>6

\* The frame got is out of all chains and shared.
LEMMA GotFrameOK ==
    ASSUME FrameInv, NEW c \in Clients, NEW f \in Frames, GotFrame(c, f),
           op[c].page \in Dadrs
    PROVE  OpInv' /\ FcbInv' /\ cs' \in Clients \cup {NoClient}
<1> USE DEF FrameInv
<1> DEFINE at == IF op[c].owner = NoClient THEN "reading" ELSE "loading"
           r == [op[c] EXCEPT !.frame = f, !.at = at]
           q == IF op[c].owner = NoClient THEN op[c].page ELSE NoDadr
           b == [EmptyFcb EXCEPT !.fixnum = 1, !.chained = FALSE,
                                 !.blockdadr = q]
<1>1. op' = [op EXCEPT ![c] = r]
  BY DEF GotFrame, OpInv
<1>2. r \in Op
  <2>1. op[c] \in Op /\ at \in {"reading", "loading"}
    BY CallIs
  <2> HIDE DEF at
  <2> QED BY <2>1, ZenonT(60) DEF Op
<1>3. CallOK(c, r)
  BY CallIs DEF Op, CallOK
<1>4. OpInv'
  <2> HIDE DEF r
  <2> QED BY <1>1, <1>2, <1>3, OpChanges
<1>5. b \in Fcb /\ b.owner = NoClient
  <2> DEFINE b1 == [EmptyFcb EXCEPT !.fixnum = 1]
             b2 == [b1 EXCEPT !.chained = FALSE]
  <2>1. b1 \in Fcb /\ b1.owner = NoClient
    <3>1. 1 \in Nat
      OBVIOUS
    <3> QED BY <3>1, EmptyValues, FcbFields, Zenon
  <2>2. b2 \in Fcb /\ b2.owner = NoClient
    <3> HIDE DEF b1
    <3> QED BY <2>1, FcbFields
  <2>3. q \in Dadrs \cup {NoDadr}
    OBVIOUS
  <2>4. b = [b2 EXCEPT !.blockdadr = q]
    OBVIOUS
  <2> HIDE DEF b, b2, q
  <2> QED BY <2>2, <2>3, <2>4, FcbFields
<1>6. fcbs' = [fcbs EXCEPT ![f] = b]
  BY DEF GotFrame
<1>7. FcbInv'
  <2> HIDE DEF b
  <2> QED BY <1>5, <1>6, FcbChanges
<1> QED
  BY <1>4, <1>7 DEF GotFrame

\* The call has ended.
LEMMA IdleOp ==
    ASSUME FrameInv, NEW c \in Clients, op' = [op EXCEPT ![c] = Idle]
    PROVE  OpInv'
<1>1. CallOK(c, Idle)
  BY DEF Idle, CallOK
<1> QED
  BY <1>1, OpChanges, EmptyValues DEF FrameInv

\* The call goes on with the next page.
LEMMA PageDoneOp ==
    ASSUME FrameInv, NEW c \in Clients, PageDone(c)
    PROVE  OpInv' /\ cs' \in Clients \cup {NoClient}
<1> DEFINE r == [Idle EXCEPT !.call = op[c].call, !.at = "next",
                             !.todo = op[c].todo]
<1>1. r \in Op /\ CallOK(c, r)
  BY CallIs DEF FrameInv, Idle, Op, CallOK
<1>2. op' = [op EXCEPT ![c] = r]
  BY DEF PageDone
<1> HIDE DEF r
<1> QED
  BY <1>1, <1>2, OpChanges DEF FrameInv, PageDone

\* commit writes the page in the frame f.
LEMMA WriteOp ==
    ASSUME FrameInv, NEW c \in Clients, NEW f \in Frames, Write(c, f),
           op[c].page \in Dadrs
    PROVE  OpInv' /\ cs' \in Clients \cup {NoClient}
<1> DEFINE r == [op[c] EXCEPT !.the = f, !.frame = NoFrame,
                              !.owner = NoClient, !.at = "writing"]
<1>1. r \in Op
  BY CallIs DEF FrameInv, Op
<1>2. CallOK(c, r)
  BY CallIs DEF FrameInv, Op, CallOK
<1>3. op' = [op EXCEPT ![c] = r]
  BY DEF Write, FrameInv, OpInv
<1> HIDE DEF r
<1> QED
  BY <1>1, <1>2, <1>3, OpChanges DEF FrameInv, Write

\* A frame's page and owner stay as they are.
LEMMA FcbStays ==
    ASSUME FcbInv, NEW f \in Frames, NEW b \in Fcb,
           b.owner = fcbs[f].owner, b.blockdadr = fcbs[f].blockdadr,
           fcbs' = [fcbs EXCEPT ![f] = b]
    PROVE  FcbInv'
<1>1. b.owner # NoClient => b.blockdadr \in Dadrs
  BY DEF FcbInv, PrivateHasPage
<1> QED
  BY <1>1, FcbChanges

\* The page loaded by unswap_block.
LEMMA UnswappedFcb ==
    ASSUME FrameInv, NEW c \in Clients, op[c].page \in Dadrs,
           op[c].owner \in Clients
    PROVE  /\ Unswapped(c) \in Fcb
           /\ Unswapped(c).blockdadr \in Dadrs
           /\ Unswapped(c).owner = op[c].owner
<1>1. swaps[op[c].owner][op[c].page].data \in Contents
  BY DEF FrameInv, SwapInv, SwapBlock
<1> QED
  BY <1>1 DEF Unswapped, Fcb
-----------------------------------------------------------------------------
\* Every action keeps FrameInv.

\* fix_page keeps FrameInv.
LEMMA fix_page_Inv ==
    ASSUME FrameInv, NEW c \in Clients,
           NEW p \in Dadrs,
           NEW call \in {"fix_any_page", "fix_priv_page"},
           fix_page(c, p, call)
    PROVE  FrameInv'
<1> USE NoClientAssumption, NoFrameAssumption, NoDadrAssumption DEF FrameInv
<1>1. OpInv'
  BY LockPageOp DEF fix_page
<1>2. FcbInv'
  BY DEF FcbInv, PrivateHasPage, Fcb, Op, CallVariables, CallOK, OpInv,
      DataInv, SwapInv, SwapBlock, At, LockPage, tranVars, Idle, fix_page
<1>3. SwapInv'
  BY DEF SwapInv, SwapBlock, SwapStates, FcbInv, Fcb, OpInv, Op, CallVariables,
      CallOK, Contents, At, LockPage, tranVars, Idle, fix_page
<1>4. DataInv'
  BY DEF DataInv, Contents, FcbInv, Fcb, OpInv, Op, At, LockPage, tranVars,
      Idle, fix_page
<1>5. OtherInv'
  BY LockPageOp DEF fix_page, LockPage, OtherInv, tranVars
<1> QED
  BY <1>1, <1>2, <1>3, <1>4, <1>5

\* next_page keeps FrameInv.
LEMMA next_page_Inv ==
    ASSUME FrameInv, NEW c \in Clients,
           NEW p \in Dadrs,
           next_page(c, p)
    PROVE  FrameInv'
<1> USE NoClientAssumption, NoFrameAssumption, NoDadrAssumption DEF FrameInv
<1>1. OpInv'
  <2>1. /\ op[c].call \in {"none", "fix_any_page", "fix_priv_page", "commit",
                          "roll_back"}
        /\ op[c].todo \ {p} \in SUBSET Dadrs
    BY CallIs DEF Op
  <2> QED BY <2>1, LockPageOp DEF next_page
<1>2. FcbInv'
  BY DEF FcbInv, PrivateHasPage, Fcb, Op, CallVariables, CallOK, OpInv,
      DataInv, SwapInv, SwapBlock, At, LockPage, tranVars, Idle, next_page
<1>3. SwapInv'
  BY DEF SwapInv, SwapBlock, SwapStates, FcbInv, Fcb, OpInv, Op, CallVariables,
      CallOK, Contents, At, LockPage, tranVars, Idle, next_page
<1>4. DataInv'
  BY DEF DataInv, Contents, FcbInv, Fcb, OpInv, Op, At, LockPage, tranVars,
      Idle, next_page
<1>5. OtherInv'
  BY DEF OtherInv, OpInv, Op, FcbInv, Fcb, PrivateHasPage, CallVariables,
      CallOK, At, LockPage, tranVars, Idle, next_page
<1> QED
  BY <1>1, <1>2, <1>3, <1>4, <1>5

\* wait_for_block keeps FrameInv.
LEMMA wait_for_block_Inv ==
    ASSUME FrameInv, NEW c \in Clients,
           wait_for_block(c)
    PROVE  FrameInv'
<1> USE NoClientAssumption, NoFrameAssumption, NoDadrAssumption DEF FrameInv
<1>1. OpInv'
  BY DEF OpInv, CallVariables, CallOK, wait_for_block, frameVars
<1>2. FcbInv'
  BY DEF FcbInv, PrivateHasPage, wait_for_block, frameVars
<1>3. SwapInv'
  BY DEF SwapInv, wait_for_block, frameVars
<1>4. DataInv'
  BY DEF DataInv, wait_for_block, frameVars
<1>5. OtherInv'
  BY DEF OtherInv, wait_for_block, frameVars
<1> QED
  BY <1>1, <1>2, <1>3, <1>4, <1>5

\* retry_page keeps FrameInv.
LEMMA retry_page_Inv ==
    ASSUME FrameInv, NEW c \in Clients,
           retry_page(c)
    PROVE  FrameInv'
<1> USE NoClientAssumption, NoFrameAssumption, NoDadrAssumption DEF FrameInv
<1>1. OpInv'
  <2>1. CASE op' = op
    BY <2>1 DEF OpInv, CallVariables, CallOK
  <2>2. CASE op' # op
    <3> DEFINE r == [op[c] EXCEPT !.at = "locked"]
    <3>1. op' = [op EXCEPT ![c] = r]
      BY <2>2 DEF retry_page, OpInv
    <3>2. r \in Op
      BY CallIs DEF Op
    <3>3. CallOK(c, r)
      BY CallIs DEF Op, CallOK, At, retry_page
    <3> HIDE DEF r
    <3> QED BY <3>1, <3>2, <3>3, OpChanges
  <2> QED BY <2>1, <2>2
<1>2. FcbInv'
  BY DEF FcbInv, PrivateHasPage, retry_page, tranVars
<1>3. SwapInv'
  BY DEF SwapInv, retry_page, tranVars
<1>4. DataInv'
  BY DEF DataInv, retry_page, tranVars
<1>5. OtherInv'
  BY DEF OtherInv, OpInv, Op, FcbInv, Fcb, PrivateHasPage, CallVariables,
      CallOK, At, tranVars, retry_page
<1> QED
  BY <1>1, <1>2, <1>3, <1>4, <1>5

\* sleep_for_frame keeps FrameInv.
LEMMA sleep_for_frame_Inv ==
    ASSUME FrameInv, NEW c \in Clients,
           sleep_for_frame(c)
    PROVE  FrameInv'
<1> USE NoClientAssumption, NoFrameAssumption, NoDadrAssumption DEF FrameInv
<1>1. OpInv'
  BY DEF OpInv, CallVariables, CallOK, sleep_for_frame, tranVars
<1>2. FcbInv'
  BY DEF FcbInv, PrivateHasPage, sleep_for_frame, tranVars
<1>3. SwapInv'
  BY DEF SwapInv, sleep_for_frame, tranVars
<1>4. DataInv'
  BY DEF DataInv, sleep_for_frame, tranVars
<1>5. OtherInv'
  BY DEF OtherInv, OpInv, Op, FcbInv, Fcb, PrivateHasPage, CallVariables,
      CallOK, At, Victims, tranVars, sleep_for_frame
<1> QED
  BY <1>1, <1>2, <1>3, <1>4, <1>5

\* no_frame keeps FrameInv.
LEMMA no_frame_Inv ==
    ASSUME FrameInv, NEW c \in Clients,
           no_frame(c)
    PROVE  FrameInv'
<1> USE NoClientAssumption, NoFrameAssumption, NoDadrAssumption DEF FrameInv
<1>1. OpInv'
  <2> DEFINE r == [op[c] EXCEPT !.at = "error"]
  <2>1. op' = [op EXCEPT ![c] = r]
    BY DEF no_frame, OpInv
  <2>2. r \in Op
    BY CallIs DEF Op
  <2>3. CallOK(c, r)
    BY CallIs DEF Op, CallOK, At, no_frame
  <2> HIDE DEF r
  <2> QED BY <2>1, <2>2, <2>3, OpChanges
<1>2. FcbInv'
  BY DEF FcbInv, PrivateHasPage, no_frame, tranVars
<1>3. SwapInv'
  BY DEF SwapInv, no_frame, tranVars
<1>4. DataInv'
  BY DEF DataInv, no_frame, tranVars
<1>5. OtherInv'
  BY DEF OtherInv, OpInv, Op, FcbInv, Fcb, PrivateHasPage, CallVariables,
      CallOK, At, Victims, tranVars, no_frame
<1> QED
  BY <1>1, <1>2, <1>3, <1>4, <1>5

\* get_frame keeps FrameInv.
LEMMA get_frame_Inv ==
    ASSUME FrameInv, NEW c \in Clients,
           NEW f \in Frames,
           get_frame(c, f)
    PROVE  FrameInv'
<1> USE NoClientAssumption, NoFrameAssumption, NoDadrAssumption DEF FrameInv
<1>1. OpInv'
  <2>1. op[c].page \in Dadrs
    BY CallIs DEF CallOK, At, get_frame
  <2> QED BY <2>1, GotFrameOK DEF get_frame
<1>2. FcbInv'
  <2>1. op[c].page \in Dadrs
    BY CallIs DEF CallOK, At, get_frame
  <2> QED BY <2>1, GotFrameOK DEF get_frame
<1>3. SwapInv'
  BY DEF SwapInv, get_frame, tranVars
<1>4. DataInv'
  BY DEF DataInv, get_frame, tranVars
<1>5. OtherInv'
  BY DEF OtherInv, OpInv, Op, FcbInv, Fcb, PrivateHasPage, CallVariables,
      CallOK, At, Swapped, GotFrame, MustSwap, Victims, tranVars, EmptyFcb,
      Blank, get_frame
<1> QED
  BY <1>1, <1>2, <1>3, <1>4, <1>5

\* get_frame_swapping keeps FrameInv.
LEMMA get_frame_swapping_Inv ==
    ASSUME FrameInv, NEW c \in Clients,
           NEW f \in Frames,
           get_frame_swapping(c, f)
    PROVE  FrameInv'
<1> USE NoClientAssumption, NoFrameAssumption, NoDadrAssumption DEF FrameInv
<1>1. OpInv'
  <2> DEFINE r(at) == [op[c] EXCEPT !.frame = f, !.at = at]
  <2>1. \/ op' = [op EXCEPT ![c] = r("saving")]
        \/ op' = [op EXCEPT ![c] = r("victim")]
    BY DEF get_frame_swapping, OpInv
  <2>2. \A at \in {"saving", "victim"} : r(at) \in Op
    BY CallIs, ZenonT(60) DEF Op
  <2>3. \A at \in {"saving", "victim"} : CallOK(c, r(at))
    BY CallIs DEF Op, CallOK, At, get_frame_swapping
  <2> HIDE DEF r
  <2> QED BY <2>1, <2>2, <2>3, OpChanges
<1>2. FcbInv'
  <2> DEFINE b1 == [fcbs[f] EXCEPT !.fixnum = 1]
             b == [b1 EXCEPT !.chained = FALSE]
  <2>1. b1 \in Fcb /\ b1.owner = fcbs[f].owner /\ b1.blockdadr = fcbs[f].blockdadr
    <3>1. 1 \in Nat
      OBVIOUS
    <3>2. fcbs[f] \in Fcb
      BY DEF FcbInv
    <3> QED BY <3>1, <3>2, FcbFields, Zenon
  <2>2. fcbs' = [fcbs EXCEPT ![f] = b]
    BY DEF get_frame_swapping, FcbInv
  <2>3. b \in Fcb /\ b.owner = b1.owner /\ b.blockdadr = b1.blockdadr
    <3> HIDE DEF b1
    <3> QED BY <2>1, FcbFields
  <2> HIDE DEF b1, b
  <2> QED BY <2>1, <2>2, <2>3, FcbStays
<1>3. SwapInv'
  <2>1. fcbs[f].owner \in Clients /\ fcbs[f].blockdadr \in Dadrs
    BY DEF FcbInv, Fcb, PrivateHasPage, get_frame_swapping, MustSwap
  <2>2. CASE swaps' = swaps
    BY <2>2 DEF SwapInv
  <2>3. CASE swaps' # swaps
    BY <2>1, <2>3, SwapChanges, EmptyValues DEF get_frame_swapping, BeginSwap
  <2> QED BY <2>2, <2>3
<1>4. DataInv'
  BY DEF DataInv, get_frame_swapping, tranVars
<1>5. OtherInv'
  BY DEF OtherInv, OpInv, Op, FcbInv, Fcb, PrivateHasPage, CallVariables,
      CallOK, At, Swapped, BeginSwap, MustSwap, Victims, tranVars, Blank,
      get_frame_swapping
<1> QED
  BY <1>1, <1>2, <1>3, <1>4, <1>5

\* retry_victim keeps FrameInv.
LEMMA retry_victim_Inv ==
    ASSUME FrameInv, NEW c \in Clients,
           retry_victim(c)
    PROVE  FrameInv'
<1> USE NoClientAssumption, NoFrameAssumption, NoDadrAssumption DEF FrameInv
<1>1. OpInv'
  <2>1. CASE op' = op
    BY <2>1 DEF OpInv, CallVariables, CallOK
  <2>2. CASE op' # op
    <3> DEFINE r == [op[c] EXCEPT !.at = "saving"]
    <3>1. op' = [op EXCEPT ![c] = r]
      BY <2>2 DEF retry_victim, OpInv
    <3>2. r \in Op
      BY CallIs DEF Op
    <3>3. CallOK(c, r)
      BY CallIs DEF Op, CallOK, At, retry_victim
    <3> HIDE DEF r
    <3> QED BY <3>1, <3>2, <3>3, OpChanges
  <2> QED BY <2>1, <2>2
<1>2. FcbInv'
  BY DEF FcbInv, PrivateHasPage, retry_victim, tranVars
<1>3. SwapInv'
  <2> DEFINE b == fcbs[op[c].frame]
             s == [is |-> "saving", data |-> Blank]
  <2>1. CASE swaps' = swaps
    BY <2>1 DEF SwapInv
  <2>2. CASE swaps' # swaps
    <3>1. swaps' = [swaps EXCEPT ![b.owner][b.blockdadr] = s]
      BY <2>2 DEF retry_victim, BeginSwap
    <3>2. s \in SwapBlock
      BY EmptyValues
    <3> HIDE DEF b, s
    <3> QED BY <3>1, <3>2 DEF SwapInv
  <2> QED BY <2>1, <2>2
<1>4. DataInv'
  BY DEF DataInv, retry_victim, tranVars
<1>5. OtherInv'
  BY DEF OtherInv, retry_victim, tranVars
<1> QED
  BY <1>1, <1>2, <1>3, <1>4, <1>5

\* save_block keeps FrameInv.
LEMMA save_block_Inv ==
    ASSUME FrameInv, NEW c \in Clients,
           save_block(c)
    PROVE  FrameInv'
<1> USE NoClientAssumption, NoFrameAssumption, NoDadrAssumption DEF FrameInv
<1>1. OpInv'
  <2>1. op[c].page \in Dadrs /\ op[c].frame \in Frames
    BY CallIs DEF CallOK, At, save_block
  <2> QED BY <2>1, GotFrameOK DEF save_block
<1>2. FcbInv'
  <2>1. op[c].page \in Dadrs /\ op[c].frame \in Frames
    BY CallIs DEF CallOK, At, save_block
  <2> QED BY <2>1, GotFrameOK DEF save_block
<1>3. SwapInv'
  BY DEF SwapInv, SwapBlock, SwapStates, FcbInv, Fcb, OpInv, Op, CallVariables,
      CallOK, Contents, At, GotFrame, tranVars, EmptyFcb, Blank, save_block
<1>4. DataInv'
  BY DEF DataInv, save_block, tranVars
<1>5. OtherInv'
  BY DEF OtherInv, OpInv, Op, FcbInv, Fcb, PrivateHasPage, CallVariables,
      CallOK, At, GotFrame, tranVars, EmptyFcb, Blank, save_block
<1> QED
  BY <1>1, <1>2, <1>3, <1>4, <1>5

\* save_block_fails keeps FrameInv.
LEMMA save_block_fails_Inv ==
    ASSUME FrameInv, NEW c \in Clients,
           save_block_fails(c)
    PROVE  FrameInv'
<1> USE NoClientAssumption, NoFrameAssumption, NoDadrAssumption DEF FrameInv
<1>1. OpInv'
  <2> DEFINE r == [op[c] EXCEPT !.frame = NoFrame, !.at = "error"]
  <2>1. op' = [op EXCEPT ![c] = r]
    BY DEF save_block_fails, OpInv
  <2>2. r \in Op
    BY CallIs DEF Op
  <2>3. CallOK(c, r)
    <3>0. op[c].at = "saving"
      BY DEF At, save_block_fails
    <3>1. op[c] \in Op /\ op[c].page \in Dadrs
      BY <3>0, CallIs DEF CallOK
    <3>2. /\ r.at = "error" /\ r.page = op[c].page /\ r.call = op[c].call
          /\ r.owner = op[c].owner /\ r.the = op[c].the
      BY <3>1 DEF Op
    <3>3. op[c].call = "commit" /\ op[c].owner \notin {c, NoClient} => op[c].the \in Frames
      BY CallIs DEF CallOK
    <3> HIDE DEF r
    <3> QED BY <3>1, <3>2, <3>3 DEF CallOK
  <2> HIDE DEF r
  <2> QED BY <2>1, <2>2, <2>3, OpChanges
<1>2. FcbInv'
  <2> DEFINE f == op[c].frame
  <2>0. f \in Frames
    BY CallIs DEF CallOK, At, save_block_fails
  <2> DEFINE b1 == [fcbs[f] EXCEPT !.fixnum = 0]
             b == [b1 EXCEPT !.chained = TRUE]
  <2>1. b1 \in Fcb /\ b1.owner = fcbs[f].owner /\ b1.blockdadr = fcbs[f].blockdadr
    <3>1. 0 \in Nat
      OBVIOUS
    <3>2. fcbs[f] \in Fcb
      BY <2>0 DEF FcbInv
    <3> QED BY <3>1, <3>2, FcbFields, Zenon
  <2>2. fcbs' = [fcbs EXCEPT ![f] = b]
    BY DEF save_block_fails, FcbInv
  <2>3. b \in Fcb /\ b.owner = b1.owner /\ b.blockdadr = b1.blockdadr
    <3> HIDE DEF b1
    <3> QED BY <2>1, FcbFields
  <2> HIDE DEF b1, b, f
  <2> QED BY <2>0, <2>1, <2>2, <2>3, FcbStays
<1>3. SwapInv'
  BY DEF SwapInv, SwapBlock, SwapStates, FcbInv, Fcb, OpInv, Op, CallVariables,
      CallOK, Contents, At, tranVars, NoSwap, Blank, save_block_fails
<1>4. DataInv'
  BY DEF DataInv, save_block_fails, tranVars
<1>5. OtherInv'
  BY DEF OtherInv, OpInv, Op, FcbInv, Fcb, PrivateHasPage, CallVariables,
      CallOK, At, tranVars, NoSwap, Blank, save_block_fails
<1> QED
  BY <1>1, <1>2, <1>3, <1>4, <1>5

\* fix_own keeps FrameInv.
LEMMA fix_own_Inv ==
    ASSUME FrameInv, NEW c \in Clients,
           NEW f \in Frames,
           fix_own(c, f)
    PROVE  FrameInv'
<1> USE NoClientAssumption, NoFrameAssumption, NoDadrAssumption DEF FrameInv
<1>1. OpInv'
  BY IdleOp DEF fix_own, Done
<1>2. FcbInv'
  <2> DEFINE b == [fcbs[f] EXCEPT !.fixnum = fcbs[f].fixnum + 1]
  <2>1. b \in Fcb /\ b.owner = fcbs[f].owner /\ b.blockdadr = fcbs[f].blockdadr
    <3>1. fcbs[f] \in Fcb
      BY DEF FcbInv
    <3>2. fcbs[f].fixnum + 1 \in Nat
      BY <3>1 DEF Fcb
    <3> QED BY <3>1, <3>2, FcbFields, Zenon
  <2>2. fcbs' = [fcbs EXCEPT ![f] = b]
    BY DEF fix_own, FcbInv, Done
  <2> HIDE DEF b
  <2> QED BY <2>1, <2>2, FcbStays
<1>3. SwapInv'
  BY DEF SwapInv, fix_own, tranVars
<1>4. DataInv'
  BY DEF DataInv, fix_own, tranVars
<1>5. OtherInv'
  BY DEF OtherInv, OpInv, Op, FcbInv, Fcb, PrivateHasPage, CallVariables,
      CallOK, At, CoreOf, Done, Fixing, tranVars, Idle, fix_own
<1> QED
  BY <1>1, <1>2, <1>3, <1>4, <1>5

\* fix_shared keeps FrameInv.
LEMMA fix_shared_Inv ==
    ASSUME FrameInv, NEW c \in Clients,
           NEW f \in Frames,
           fix_shared(c, f)
    PROVE  FrameInv'
<1> USE NoClientAssumption, NoFrameAssumption, NoDadrAssumption DEF FrameInv
<1>1. OpInv'
  BY IdleOp DEF fix_shared, Done
<1>2. FcbInv'
  <2>1. fcbs[f] \in Fcb /\ fcbs[f].blockdadr = op[c].page /\ op[c].page \in Dadrs
    BY CallIs DEF FcbInv, fix_shared, SharedFor, CoreOf, CallOK, At
  <2>2. CASE Private(c)
    <3> DEFINE b1 == [fcbs[f] EXCEPT !.fixnum = 1]
               b2 == [b1 EXCEPT !.dirty = FALSE]
               b == [b2 EXCEPT !.owner = c]
    <3>1. b1 \in Fcb /\ b1.blockdadr \in Dadrs
      <4>1. 1 \in Nat
        OBVIOUS
      <4>2. b1 \in Fcb /\ b1.blockdadr = fcbs[f].blockdadr
        BY <2>1, <4>1, FcbFields, Zenon
      <4> QED BY <2>1, <4>2
    <3>2. b2 \in Fcb /\ b2.blockdadr \in Dadrs
      <4> HIDE DEF b1
      <4> QED BY <3>1, FcbFields
    <3>3. b \in Fcb /\ b.blockdadr \in Dadrs
      <4> HIDE DEF b2
      <4> QED BY <3>2 DEF Fcb
    <3>4. fcbs' = [fcbs EXCEPT ![f] = b]
      BY <2>2 DEF fix_shared, Done
    <3> HIDE DEF b
    <3> QED BY <3>3, <3>4, FcbChanges
  <2>3. CASE ~Private(c)
    <3> DEFINE b == [fcbs[f] EXCEPT !.fixnum = fcbs[f].fixnum + 1]
    <3>1. fcbs[f].fixnum + 1 \in Nat
      BY <2>1 DEF Fcb
    <3>2. b \in Fcb /\ b.owner = fcbs[f].owner /\ b.blockdadr = fcbs[f].blockdadr
      BY <2>1, <3>1, FcbFields, Zenon
    <3>3. fcbs' = [fcbs EXCEPT ![f] = b]
      BY <2>3 DEF fix_shared, Done
    <3> HIDE DEF b
    <3> QED BY <3>2, <3>3, FcbStays
  <2> QED BY <2>2, <2>3
<1>3. SwapInv'
  BY DEF SwapInv, fix_shared
<1>4. DataInv'
  BY DEF DataInv, fix_shared
<1>5. OtherInv'
  BY DEF OtherInv, OpInv, Op, FcbInv, Fcb, PrivateHasPage, CallVariables,
      CallOK, At, CoreOf, Swapped, Done, Fixing, Private, SharedFor, Idle,
      fix_shared
<1> QED
  BY <1>1, <1>2, <1>3, <1>4, <1>5

\* fix_get_frame keeps FrameInv.
LEMMA fix_get_frame_Inv ==
    ASSUME FrameInv, NEW c \in Clients,
           fix_get_frame(c)
    PROVE  FrameInv'
<1> USE NoClientAssumption, NoFrameAssumption, NoDadrAssumption DEF FrameInv
<1>1. OpInv'
  <2>1. op[c].page \in Dadrs
    BY CallIs DEF CallOK, At, fix_get_frame
  <2>2. NeedFrame(c, c) \/ NeedFrame(c, NoClient)
    BY DEF fix_get_frame
  <2> QED BY <2>1, <2>2, NeedFrameOK
<1>2. FcbInv'
  BY DEF FcbInv, PrivateHasPage, Fcb, Op, CallVariables, CallOK, OpInv,
      DataInv, SwapInv, SwapBlock, At, CoreOf, Swapped, NeedFrame, Fixing,
      Private, SharedFor, tranVars, fix_get_frame
<1>3. SwapInv'
  <2>1. op[c].page \in Dadrs
    BY CallIs DEF CallOK, At, fix_get_frame
  <2>2. NeedFrame(c, c) \/ NeedFrame(c, NoClient)
    BY DEF fix_get_frame
  <2> QED BY <2>1, <2>2, NeedFrameOK
<1>4. DataInv'
  BY DEF DataInv, Contents, FcbInv, Fcb, OpInv, Op, At, CoreOf, Swapped,
      NeedFrame, Fixing, Private, SharedFor, tranVars, fix_get_frame
<1>5. OtherInv'
  BY DEF OtherInv, OpInv, Op, FcbInv, Fcb, PrivateHasPage, CallVariables,
      CallOK, At, CoreOf, Swapped, NeedFrame, Fixing, Private, SharedFor,
      tranVars, fix_get_frame
<1> QED
  BY <1>1, <1>2, <1>3, <1>4, <1>5

\* read_block keeps FrameInv.
LEMMA read_block_Inv ==
    ASSUME FrameInv, NEW c \in Clients,
           read_block(c)
    PROVE  FrameInv'
<1> USE NoClientAssumption, NoFrameAssumption, NoDadrAssumption DEF FrameInv
<1>1. OpInv'
  BY IdleOp DEF read_block, Done
<1>2. FcbInv'
  <2> DEFINE o == IF Private(c) THEN c ELSE NoClient
             b == [blockdadr |-> op[c].page, owner |-> o, dirty |-> FALSE,
                   fixnum |-> 1, chained |-> TRUE, data |-> disc[op[c].page]]
  <2>1. op[c].page \in Dadrs /\ op[c].frame \in Frames
    BY CallIs DEF CallOK, At, read_block
  <2>2. o \in Clients \cup {NoClient} /\ disc[op[c].page] \in Contents
    BY <2>1 DEF DataInv
  <2>3. b \in Fcb /\ b.blockdadr \in Dadrs
    <3> HIDE DEF o
    <3> QED BY <2>1, <2>2 DEF Fcb
  <2>4. fcbs' = [fcbs EXCEPT ![op[c].frame] = b]
    BY DEF read_block, Done
  <2> HIDE DEF b
  <2> QED BY <2>1, <2>3, <2>4, FcbChanges
<1>3. SwapInv'
  BY DEF SwapInv, read_block
<1>4. DataInv'
  BY DEF DataInv, read_block
<1>5. OtherInv'
  BY DEF OtherInv, OpInv, Op, FcbInv, Fcb, PrivateHasPage, CallVariables,
      CallOK, At, Done, Private, Idle, read_block
<1> QED
  BY <1>1, <1>2, <1>3, <1>4, <1>5

\* read_block_fails keeps FrameInv.
LEMMA read_block_fails_Inv ==
    ASSUME FrameInv, NEW c \in Clients,
           read_block_fails(c)
    PROVE  FrameInv'
<1> USE NoClientAssumption, NoFrameAssumption, NoDadrAssumption DEF FrameInv
<1>1. OpInv'
  <2> DEFINE r == [op[c] EXCEPT !.frame = NoFrame, !.at = "error"]
  <2>1. op' = [op EXCEPT ![c] = r]
    BY DEF read_block_fails, OpInv
  <2>2. r \in Op
    BY CallIs DEF Op
  <2>3. CallOK(c, r)
    BY CallIs DEF Op, CallOK, At, read_block_fails
  <2> HIDE DEF r
  <2> QED BY <2>1, <2>2, <2>3, OpChanges
<1>2. FcbInv'
  <2>1. op[c].frame \in Frames
    BY CallIs DEF CallOK, At, read_block_fails
  <2> QED BY <2>1, EmptyValues, FcbChanges DEF read_block_fails
<1>3. SwapInv'
  BY DEF SwapInv, read_block_fails, tranVars
<1>4. DataInv'
  BY DEF DataInv, read_block_fails, tranVars
<1>5. OtherInv'
  BY DEF OtherInv, OpInv, Op, FcbInv, Fcb, PrivateHasPage, CallVariables,
      CallOK, At, tranVars, EmptyFcb, Blank, read_block_fails
<1> QED
  BY <1>1, <1>2, <1>3, <1>4, <1>5

\* load_block keeps FrameInv.
LEMMA load_block_Inv ==
    ASSUME FrameInv, NEW c \in Clients,
           load_block(c)
    PROVE  FrameInv'
<1> USE NoClientAssumption, NoFrameAssumption, NoDadrAssumption DEF FrameInv
<1>1. OpInv'
  BY IdleOp DEF load_block, Done
<1>2. FcbInv'
  <2>1. op[c].page \in Dadrs /\ op[c].frame \in Frames /\ op[c].owner \in Clients
    BY CallIs DEF CallOK, At, load_block
  <2>2. fcbs' = [fcbs EXCEPT ![op[c].frame] = Unswapped(c)]
    BY DEF load_block, Done
  <2> QED BY <2>1, <2>2, UnswappedFcb, FcbChanges
<1>3. SwapInv'
  BY DEF SwapInv, SwapBlock, SwapStates, FcbInv, Fcb, OpInv, Op, CallVariables,
      CallOK, Contents, At, Done, Fixing, Unswapped, tranVars, Idle, NoSwap,
      Blank, load_block
<1>4. DataInv'
  BY DEF DataInv, load_block, tranVars
<1>5. OtherInv'
  BY DEF OtherInv, OpInv, Op, FcbInv, Fcb, PrivateHasPage, CallVariables,
      CallOK, At, Done, Fixing, Unswapped, tranVars, Idle, NoSwap, Blank,
      load_block
<1> QED
  BY <1>1, <1>2, <1>3, <1>4, <1>5

\* fix_err keeps FrameInv.
LEMMA fix_err_Inv ==
    ASSUME FrameInv, NEW c \in Clients,
           fix_err(c)
    PROVE  FrameInv'
<1> USE NoClientAssumption, NoFrameAssumption, NoDadrAssumption DEF FrameInv
<1>1. OpInv'
  BY IdleOp DEF fix_err
<1>2. FcbInv'
  BY DEF FcbInv, PrivateHasPage, fix_err
<1>3. SwapInv'
  BY DEF SwapInv, SwapBlock, SwapStates, FcbInv, Fcb, OpInv, Op, CallVariables,
      CallOK, Contents, At, Fixing, Idle, NoSwap, Blank, fix_err
<1>4. DataInv'
  BY DEF DataInv, fix_err
<1>5. OtherInv'
  BY DEF OtherInv, OpInv, Op, FcbInv, Fcb, PrivateHasPage, CallVariables,
      CallOK, At, Fixing, Idle, NoSwap, Blank, fix_err
<1> QED
  BY <1>1, <1>2, <1>3, <1>4, <1>5

\* unfix_page keeps FrameInv.
LEMMA unfix_page_Inv ==
    ASSUME FrameInv, NEW c \in Clients,
           NEW f \in Frames,
           unfix_page(c, f)
    PROVE  FrameInv'
<1> USE NoClientAssumption, NoFrameAssumption, NoDadrAssumption DEF FrameInv
<1>1. OpInv'
  BY DEF OpInv, CallVariables, CallOK, unfix_page, tranVars
<1>2. FcbInv'
  <2> DEFINE b == [fcbs[f] EXCEPT !.fixnum = Unfix(fcbs[f].fixnum)]
  <2>1. b \in Fcb /\ b.owner = fcbs[f].owner /\ b.blockdadr = fcbs[f].blockdadr
    <3>1. fcbs[f] \in Fcb
      BY DEF FcbInv
    <3>2. Unfix(fcbs[f].fixnum) \in Nat
      BY <3>1 DEF Fcb, Unfix
    <3> QED BY <3>1, <3>2, FcbFields, Zenon
  <2>2. fcbs' = [fcbs EXCEPT ![f] = b]
    BY DEF unfix_page, FcbInv
  <2> HIDE DEF b
  <2> QED BY <2>1, <2>2, FcbStays
<1>3. SwapInv'
  BY DEF SwapInv, unfix_page, tranVars
<1>4. DataInv'
  BY DEF DataInv, unfix_page, tranVars
<1>5. OtherInv'
  BY DEF OtherInv, OpInv, Op, FcbInv, Fcb, PrivateHasPage, CallVariables,
      CallOK, At, tranVars, unfix_page
<1> QED
  BY <1>1, <1>2, <1>3, <1>4, <1>5

\* rec_changed keeps FrameInv.
LEMMA rec_changed_Inv ==
    ASSUME FrameInv, NEW c \in Clients,
           NEW f \in Frames,
           rec_changed(c, f)
    PROVE  FrameInv'
<1> USE NoClientAssumption, NoFrameAssumption, NoDadrAssumption DEF FrameInv
<1>1. OpInv'
  BY DEF OpInv, CallVariables, CallOK, rec_changed
<1>2. FcbInv'
  <2> DEFINE d == [fcbs[f].data EXCEPT ![c] = TRUE]
             b1 == [fcbs[f] EXCEPT !.dirty = TRUE]
             b == [b1 EXCEPT !.data = d]
  <2>1. fcbs[f] \in Fcb
    BY DEF FcbInv
  <2>2. d \in Contents
    BY <2>1 DEF Fcb, Contents
  <2>3. /\ b1 \in Fcb /\ b1.owner = fcbs[f].owner
        /\ b1.blockdadr = fcbs[f].blockdadr /\ b1.data = fcbs[f].data
    BY <2>1, FcbFields DEF Fcb
  <2>4. fcbs' = [fcbs EXCEPT ![f] = b]
    BY <2>1 DEF rec_changed, FcbInv, Fcb
  <2>5. b \in Fcb /\ b.owner = b1.owner /\ b.blockdadr = b1.blockdadr
    <3> HIDE DEF b1, d
    <3> QED BY <2>2, <2>3, FcbFields
  <2> HIDE DEF b1, b
  <2> QED BY <2>3, <2>4, <2>5, FcbStays
<1>3. SwapInv'
  BY DEF SwapInv, rec_changed
<1>4. DataInv'
  <2>1. fcbs[f].blockdadr \in Dadrs
    BY DEF FcbInv, PrivateHasPage, rec_changed
  <2> QED BY <2>1 DEF DataInv, rec_changed
<1>5. OtherInv'
  <2>1. fcbs[f].blockdadr \in Dadrs
    BY DEF FcbInv, PrivateHasPage, rec_changed
  <2> QED BY <2>1 DEF OtherInv, rec_changed
<1> QED
  BY <1>1, <1>2, <1>3, <1>4, <1>5

\* commit keeps FrameInv.
LEMMA commit_Inv ==
    ASSUME FrameInv, NEW c \in Clients,
           commit(c)
    PROVE  FrameInv'
<1> USE NoClientAssumption, NoFrameAssumption, NoDadrAssumption DEF FrameInv
<1>1. OpInv'
  <2> DEFINE r == [Idle EXCEPT !.call = "commit", !.at = "next", !.todo = log[c]]
  <2>1. r \in Op /\ CallOK(c, r)
    BY DEF Idle, Op, CallOK, OtherInv
  <2>2. op' = [op EXCEPT ![c] = r]
    BY DEF commit
  <2> HIDE DEF r
  <2> QED BY <2>1, <2>2, OpChanges
<1>2. FcbInv'
  BY DEF FcbInv, PrivateHasPage, commit, tranVars
<1>3. SwapInv'
  BY DEF SwapInv, commit, tranVars
<1>4. DataInv'
  BY DEF DataInv, commit, tranVars
<1>5. OtherInv'
  BY DEF OtherInv, commit, tranVars
<1> QED
  BY <1>1, <1>2, <1>3, <1>4, <1>5

\* wr_nothing keeps FrameInv.
LEMMA wr_nothing_Inv ==
    ASSUME FrameInv, NEW c \in Clients,
           wr_nothing(c)
    PROVE  FrameInv'
<1> USE NoClientAssumption, NoFrameAssumption, NoDadrAssumption DEF FrameInv
<1>1. OpInv'
  BY PageDoneOp DEF wr_nothing
<1>2. FcbInv'
  <2>1. \A f \in Frames : /\ fcbs[f] \in Fcb
                          /\ [fcbs[f] EXCEPT !.owner = NoClient] \in Fcb
                          /\ [fcbs[f] EXCEPT !.owner = NoClient].owner = NoClient
    BY FcbFields DEF FcbInv
  <2>2. /\ fcbs' \in [Frames -> Fcb]
        /\ \A f \in Frames : \/ fcbs'[f] = fcbs[f]
                              \/ fcbs'[f] = [fcbs[f] EXCEPT !.owner = NoClient]
    BY <2>1 DEF wr_nothing
  <2> QED BY <2>1, <2>2 DEF FcbInv, PrivateHasPage
<1>3. SwapInv'
  <2>1. op[c].page \in Dadrs
    BY CallIs DEF CallOK, At, wr_nothing
  <2> QED BY <2>1, SwapChanges, EmptyValues DEF wr_nothing
<1>4. DataInv'
  BY DEF DataInv, wr_nothing, tranVars
<1>5. OtherInv'
  BY DEF OtherInv, OpInv, Op, FcbInv, Fcb, PrivateHasPage, CallVariables,
      CallOK, At, CoreOf, Swapped, PageDone, tranVars, Idle, NoSwap, Blank,
      wr_nothing
<1> QED
  BY <1>1, <1>2, <1>3, <1>4, <1>5

\* wr_changes keeps FrameInv.
LEMMA wr_changes_Inv ==
    ASSUME FrameInv, NEW c \in Clients,
           wr_changes(c)
    PROVE  FrameInv'
<1> USE NoClientAssumption, NoFrameAssumption, NoDadrAssumption DEF FrameInv
<1>1. OpInv'
  <2>1. op[c].page \in Dadrs
    BY CallIs DEF CallOK, At, wr_changes
  <2>2. CASE CoreOf(c, op[c].page) = {}
    BY <2>1, <2>2, NeedFrameOK DEF wr_changes
  <2>3. CASE CoreOf(c, op[c].page) # {}
    BY <2>1, <2>3, WriteOp DEF wr_changes, CoreOf
  <2> QED BY <2>2, <2>3
<1>2. FcbInv'
  <2>1. CASE fcbs' = fcbs
    BY <2>1 DEF FcbInv, PrivateHasPage
  <2>2. CASE fcbs' # fcbs
    <3>1. PICK f \in Frames : fcbs' = [fcbs EXCEPT ![f].fixnum = @ + 1]
      BY <2>2 DEF wr_changes, CoreOf
    <3> DEFINE b == [fcbs[f] EXCEPT !.fixnum = fcbs[f].fixnum + 1]
    <3>2. b \in Fcb /\ b.owner = fcbs[f].owner /\ b.blockdadr = fcbs[f].blockdadr
      <4>1. fcbs[f] \in Fcb
        BY DEF FcbInv
      <4>2. fcbs[f].fixnum + 1 \in Nat
        BY <4>1 DEF Fcb
      <4> QED BY <4>1, <4>2, FcbFields, Zenon
    <3>3. fcbs' = [fcbs EXCEPT ![f] = b]
      BY <3>1 DEF FcbInv
    <3> HIDE DEF b
    <3> QED BY <3>2, <3>3, FcbStays
  <2> QED BY <2>1, <2>2
<1>3. SwapInv'
  <2>1. op[c].page \in Dadrs
    BY CallIs DEF CallOK, At, wr_changes
  <2>2. CASE CoreOf(c, op[c].page) = {}
    BY <2>1, <2>2, NeedFrameOK DEF wr_changes
  <2>3. CASE CoreOf(c, op[c].page) # {}
    <3>1. swaps' = [swaps EXCEPT ![c][op[c].page] = NoSwap]
      BY <2>3 DEF wr_changes
    <3> QED BY <2>1, <3>1, SwapChanges, EmptyValues
  <2> QED BY <2>2, <2>3
<1>4. DataInv'
  BY DEF DataInv, wr_changes, NeedFrame, tranVars
<1>5. OtherInv'
  BY DEF OtherInv, OpInv, Op, FcbInv, Fcb, PrivateHasPage, CallVariables,
      CallOK, At, CoreOf, Swapped, NeedFrame, Write, tranVars, NoSwap, Blank,
      wr_changes
<1> QED
  BY <1>1, <1>2, <1>3, <1>4, <1>5

\* load_changes keeps FrameInv.
LEMMA load_changes_Inv ==
    ASSUME FrameInv, NEW c \in Clients,
           load_changes(c)
    PROVE  FrameInv'
<1> USE NoClientAssumption, NoFrameAssumption, NoDadrAssumption DEF FrameInv
<1>1. OpInv'
  <2>1. op[c].page \in Dadrs /\ op[c].frame \in Frames
    BY CallIs DEF CallOK, At, load_changes
  <2> QED BY <2>1, WriteOp DEF load_changes
<1>2. FcbInv'
  <2>1. op[c].page \in Dadrs /\ op[c].frame \in Frames /\ op[c].owner \in Clients
    BY CallIs DEF CallOK, At, load_changes
  <2>2. fcbs' = [fcbs EXCEPT ![op[c].frame] = Unswapped(c)]
    BY DEF load_changes
  <2> QED BY <2>1, <2>2, UnswappedFcb, FcbChanges
<1>3. SwapInv'
  BY DEF SwapInv, SwapBlock, SwapStates, FcbInv, Fcb, OpInv, Op, CallVariables,
      CallOK, Contents, At, Unswapped, Write, tranVars, NoSwap, Blank,
      load_changes
<1>4. DataInv'
  BY DEF DataInv, load_changes, tranVars
<1>5. OtherInv'
  BY DEF OtherInv, OpInv, Op, FcbInv, Fcb, PrivateHasPage, CallVariables,
      CallOK, At, Unswapped, Write, tranVars, NoSwap, Blank, load_changes
<1> QED
  BY <1>1, <1>2, <1>3, <1>4, <1>5

\* write_block keeps FrameInv.
LEMMA write_block_Inv ==
    ASSUME FrameInv, NEW c \in Clients,
           write_block(c)
    PROVE  FrameInv'
<1> USE NoClientAssumption, NoFrameAssumption, NoDadrAssumption DEF FrameInv
<1>1. OpInv'
  <2> DEFINE r == [op[c] EXCEPT !.at = "update"]
  <2>1. op' = [op EXCEPT ![c] = r]
    BY DEF write_block, OpInv
  <2>2. r \in Op
    BY CallIs DEF Op
  <2>3. CallOK(c, r)
    BY CallIs DEF Op, CallOK, At, write_block
  <2> HIDE DEF r
  <2> QED BY <2>1, <2>2, <2>3, OpChanges
<1>2. FcbInv'
  <2> DEFINE the == op[c].the
             d(f) == [fcbs[f].data EXCEPT ![c] = fcbs[the].data[c]]
  <2>1. the \in Frames
    BY CallIs DEF CallOK, At, write_block
  <2>2. \A f \in Frames : d(f) \in Contents
    BY <2>1 DEF FcbInv, Fcb, Contents
  <2>3. \A f \in Frames :
          \/ fcbs'[f] = fcbs[f]
          \/ fcbs'[f] = [fcbs[f] EXCEPT !.dirty = FALSE]
          \/ fcbs'[f] = [fcbs[f] EXCEPT !.data = d(f)]
    BY DEF write_block, UpdateCore
  <2>4. \A f \in Frames : fcbs[f] \in Fcb
    BY DEF FcbInv
  <2> HIDE DEF the, d
  <2>5. \A f \in Frames : /\ fcbs'[f] \in Fcb
                          /\ fcbs'[f].owner = fcbs[f].owner
                          /\ fcbs'[f].blockdadr = fcbs[f].blockdadr
    <3> SUFFICES ASSUME NEW f \in Frames
                 PROVE  /\ fcbs'[f] \in Fcb
                        /\ fcbs'[f].owner = fcbs[f].owner
                        /\ fcbs'[f].blockdadr = fcbs[f].blockdadr
      OBVIOUS
    <3>1. CASE fcbs'[f] = fcbs[f]
      BY <2>4, <3>1
    <3>2. CASE fcbs'[f] = [fcbs[f] EXCEPT !.dirty = FALSE]
      <4>1. FALSE \in BOOLEAN
        OBVIOUS
      <4> QED BY <2>4, <3>2, <4>1, FcbFields, Zenon
    <3>3. CASE fcbs'[f] = [fcbs[f] EXCEPT !.data = d(f)]
      <4>1. \A x \in Contents :
              LET b == [fcbs[f] EXCEPT !.data = x] IN
              /\ b \in Fcb
              /\ b.owner = fcbs[f].owner
              /\ b.blockdadr = fcbs[f].blockdadr
        BY <2>4, FcbFields
      <4> QED BY <2>2, <3>3, <4>1
    <3> QED BY <2>3, <3>1, <3>2, <3>3
  <2>6. fcbs' \in [Frames -> Fcb]
    BY <2>5 DEF write_block, UpdateCore
  <2> QED BY <2>5, <2>6 DEF FcbInv, PrivateHasPage
<1>3. SwapInv'
  BY DEF SwapInv, write_block, tranVars
<1>4. DataInv'
  <2>1. op[c].page \in Dadrs /\ op[c].the \in Frames
    BY CallIs DEF CallOK, At, write_block
  <2>2. fcbs[op[c].the].data \in Contents
    BY <2>1 DEF FcbInv, Fcb
  <2> QED BY <2>1, <2>2 DEF DataInv, write_block, tranVars
<1>5. OtherInv'
  BY DEF OtherInv, OpInv, Op, FcbInv, Fcb, PrivateHasPage, CallVariables,
      CallOK, At, UpdateCore, tranVars, write_block
<1> QED
  BY <1>1, <1>2, <1>3, <1>4, <1>5

\* update_swapped keeps FrameInv.
LEMMA update_swapped_Inv ==
    ASSUME FrameInv, NEW c \in Clients,
           NEW o \in Clients,
           update_swapped(c, o)
    PROVE  FrameInv'
<1> USE NoClientAssumption, NoFrameAssumption, NoDadrAssumption DEF FrameInv
<1>1. OpInv'
  <2>1. op[c].page \in Dadrs /\ op[c].the \in Frames
    BY CallIs DEF CallOK, At, update_swapped
  <2> QED BY <2>1, NeedFrameOK DEF update_swapped
<1>2. FcbInv'
  BY DEF FcbInv, PrivateHasPage, Fcb, Op, CallVariables, CallOK, OpInv,
      DataInv, SwapInv, SwapBlock, At, Swapped, NeedFrame, tranVars,
      update_swapped
<1>3. SwapInv'
  <2>1. op[c].page \in Dadrs /\ op[c].the \in Frames
    BY CallIs DEF CallOK, At, update_swapped
  <2> QED BY <2>1, NeedFrameOK DEF update_swapped
<1>4. DataInv'
  BY DEF DataInv, Contents, FcbInv, Fcb, OpInv, Op, At, Swapped, NeedFrame,
      tranVars, update_swapped
<1>5. OtherInv'
  BY DEF OtherInv, OpInv, Op, FcbInv, Fcb, PrivateHasPage, CallVariables,
      CallOK, At, Swapped, NeedFrame, tranVars, update_swapped
<1> QED
  BY <1>1, <1>2, <1>3, <1>4, <1>5

\* load_other keeps FrameInv.
LEMMA load_other_Inv ==
    ASSUME FrameInv, NEW c \in Clients,
           load_other(c)
    PROVE  FrameInv'
<1> USE NoClientAssumption, NoFrameAssumption, NoDadrAssumption DEF FrameInv
<1>1. OpInv'
  <2> DEFINE r == [op[c] EXCEPT !.at = "update", !.frame = NoFrame,
                            !.owner = NoClient]
  <2>1. op' = [op EXCEPT ![c] = r]
    BY DEF load_other, OpInv
  <2>2. r \in Op
    BY CallIs, ZenonT(60) DEF Op
  <2>3. CallOK(c, r)
    BY CallIs DEF Op, CallOK, At, load_other
  <2> HIDE DEF r
  <2> QED BY <2>1, <2>2, <2>3, OpChanges
<1>2. FcbInv'
  <2> DEFINE d == [Unswapped(c).data EXCEPT ![c] = fcbs[op[c].the].data[c]]
             b1 == [Unswapped(c) EXCEPT !.data = d]
             b == [b1 EXCEPT !.fixnum = 0]
  <2>1. /\ op[c].page \in Dadrs /\ op[c].frame \in Frames
        /\ op[c].owner \in Clients /\ op[c].the \in Frames
    BY CallIs DEF CallOK, At, load_other
  <2>2. Unswapped(c) \in Fcb /\ Unswapped(c).blockdadr \in Dadrs
    BY <2>1, UnswappedFcb
  <2>3. d \in Contents
    BY <2>1, <2>2 DEF FcbInv, Fcb, Contents
  <2>4. b1 \in Fcb /\ b1.blockdadr \in Dadrs
    <3> HIDE DEF d
    <3> QED BY <2>2, <2>3, FcbFields
  <2>5. b \in Fcb /\ b.blockdadr \in Dadrs
    <3> HIDE DEF b1
    <3>1. 0 \in Nat
      OBVIOUS
    <3>2. b \in Fcb /\ b.blockdadr = b1.blockdadr
      BY <2>4, <3>1, FcbFields, Zenon
    <3> QED BY <2>4, <3>2
  <2>6. fcbs' = [fcbs EXCEPT ![op[c].frame] = b]
    BY DEF load_other
  <2> HIDE DEF b
  <2> QED BY <2>1, <2>5, <2>6, FcbChanges
<1>3. SwapInv'
  BY DEF SwapInv, SwapBlock, SwapStates, FcbInv, Fcb, OpInv, Op, CallVariables,
      CallOK, Contents, At, Unswapped, tranVars, NoSwap, Blank, load_other
<1>4. DataInv'
  BY DEF DataInv, load_other, tranVars
<1>5. OtherInv'
  BY DEF OtherInv, OpInv, Op, FcbInv, Fcb, PrivateHasPage, CallVariables,
      CallOK, At, Unswapped, tranVars, NoSwap, Blank, load_other
<1> QED
  BY <1>1, <1>2, <1>3, <1>4, <1>5

\* wr_end keeps FrameInv.
LEMMA wr_end_Inv ==
    ASSUME FrameInv, NEW c \in Clients,
           wr_end(c)
    PROVE  FrameInv'
<1> USE NoClientAssumption, NoFrameAssumption, NoDadrAssumption DEF FrameInv
<1>1. OpInv'
  BY PageDoneOp DEF wr_end
<1>2. FcbInv'
  <2> DEFINE f == op[c].the
             b1 == [fcbs[f] EXCEPT !.owner = NoClient]
             b == [b1 EXCEPT !.fixnum = Unfix(b1.fixnum)]
  <2>1. f \in Frames /\ fcbs[f] \in Fcb
    BY CallIs DEF CallOK, At, wr_end, FcbInv
  <2>2. b1 \in Fcb /\ b1.owner = NoClient
    <3> HIDE DEF f
    <3> QED BY <2>1, FcbFields
  <2>3. b \in Fcb /\ b.owner = NoClient
    <3> HIDE DEF b1
    <3>1. Unfix(b1.fixnum) \in Nat
      BY <2>2 DEF Fcb, Unfix
    <3>2. b \in Fcb /\ b.owner = b1.owner
      BY <2>2, <3>1, FcbFields, Zenon
    <3> QED BY <2>2, <3>2
  <2>4. fcbs' = [fcbs EXCEPT ![f] = b]
    BY <2>1 DEF wr_end, FcbInv
  <2> HIDE DEF b, f
  <2> QED BY <2>1, <2>3, <2>4, FcbChanges
<1>3. SwapInv'
  BY DEF SwapInv, wr_end, tranVars
<1>4. DataInv'
  BY DEF DataInv, wr_end, tranVars
<1>5. OtherInv'
  BY DEF OtherInv, OpInv, Op, FcbInv, Fcb, PrivateHasPage, CallVariables,
      CallOK, At, Swapped, PageDone, tranVars, Idle, wr_end
<1> QED
  BY <1>1, <1>2, <1>3, <1>4, <1>5

\* end_of_commit keeps FrameInv.
LEMMA end_of_commit_Inv ==
    ASSUME FrameInv, NEW c \in Clients,
           end_of_commit(c)
    PROVE  FrameInv'
<1> USE NoClientAssumption, NoFrameAssumption, NoDadrAssumption DEF FrameInv
<1>1. OpInv'
  BY IdleOp DEF end_of_commit
<1>2. FcbInv'
  BY DEF FcbInv, PrivateHasPage, end_of_commit
<1>3. SwapInv'
  BY DEF SwapInv, end_of_commit
<1>4. DataInv'
  BY DEF DataInv, end_of_commit
<1>5. OtherInv'
  BY DEF OtherInv, OpInv, Op, FcbInv, Fcb, PrivateHasPage, CallVariables,
      CallOK, At, Idle, end_of_commit
<1> QED
  BY <1>1, <1>2, <1>3, <1>4, <1>5

\* roll_back keeps FrameInv.
LEMMA roll_back_Inv ==
    ASSUME FrameInv, NEW c \in Clients,
           roll_back(c)
    PROVE  FrameInv'
<1> USE NoClientAssumption, NoFrameAssumption, NoDadrAssumption DEF FrameInv
<1>1. OpInv'
  <2> DEFINE r == [Idle EXCEPT !.call = "roll_back", !.at = "next", !.todo = log[c]]
  <2>1. r \in Op /\ CallOK(c, r)
    BY DEF Idle, Op, CallOK, OtherInv
  <2>2. op' = [op EXCEPT ![c] = r]
    BY DEF roll_back
  <2> HIDE DEF r
  <2> QED BY <2>1, <2>2, OpChanges
<1>2. FcbInv'
  BY DEF FcbInv, PrivateHasPage, roll_back, tranVars
<1>3. SwapInv'
  BY DEF SwapInv, roll_back, tranVars
<1>4. DataInv'
  BY DEF DataInv, roll_back, tranVars
<1>5. OtherInv'
  BY DEF OtherInv, roll_back, tranVars
<1> QED
  BY <1>1, <1>2, <1>3, <1>4, <1>5

\* remove_changes keeps FrameInv.
LEMMA remove_changes_Inv ==
    ASSUME FrameInv, NEW c \in Clients,
           remove_changes(c)
    PROVE  FrameInv'
<1> USE NoClientAssumption, NoFrameAssumption, NoDadrAssumption DEF FrameInv
<1>1. OpInv'
  BY PageDoneOp DEF remove_changes
<1>2. FcbInv'
  <2>1. CASE fcbs' = fcbs
    BY <2>1 DEF FcbInv, PrivateHasPage
  <2>2. CASE fcbs' # fcbs
    <3>1. PICK f \in Frames : \E b \in Removed(c, f) : fcbs' = [fcbs EXCEPT ![f] = b]
      BY <2>2 DEF remove_changes, CoreOf
    <3>2. PICK b \in Removed(c, f) : fcbs' = [fcbs EXCEPT ![f] = b]
      BY <3>1
    <3>3. fcbs[f] \in Fcb /\ op[c].page \in Dadrs
      BY CallIs DEF FcbInv, CallOK, At, remove_changes
    <3>4. \/ b = EmptyFcb
          \/ b = fcbs[f]
          \/ \E d \in Contents : b = [fcbs[f] EXCEPT !.data = d]
      <4>1. \A g \in Frames : fcbs[g].data \in Contents
        BY DEF FcbInv, Fcb
      <4>2. disc[op[c].page] \in Contents
        BY <3>3 DEF DataInv
      <4> QED BY <4>1, <4>2 DEF Removed, CoreOf
    <3>5. CASE b = EmptyFcb
      BY <3>2, <3>5, EmptyValues, FcbChanges
    <3>6. CASE b # EmptyFcb
      <4>1. /\ b \in Fcb /\ b.owner = fcbs[f].owner
            /\ b.blockdadr = fcbs[f].blockdadr
        <5>1. CASE b = fcbs[f]
          BY <3>3, <5>1
        <5>2. ASSUME NEW d \in Contents, b = [fcbs[f] EXCEPT !.data = d]
              PROVE  /\ b \in Fcb /\ b.owner = fcbs[f].owner
                     /\ b.blockdadr = fcbs[f].blockdadr
          BY <3>3, <5>2, FcbFields, Zenon
        <5> QED BY <3>4, <3>6, <5>1, <5>2
      <4> QED BY <3>2, <4>1, FcbStays
    <3> QED BY <3>5, <3>6
  <2> QED BY <2>1, <2>2
<1>3. SwapInv'
  BY DEF SwapInv, SwapBlock, SwapStates, FcbInv, Fcb, OpInv, Op, CallVariables,
      CallOK, Contents, At, CoreOf, PageDone, Removed, Idle, EmptyFcb, NoSwap,
      Blank, remove_changes
<1>4. DataInv'
  <2>1. op[c].page \in Dadrs
    BY CallIs DEF CallOK, At, remove_changes
  <2>2. disc[op[c].page][c] \in BOOLEAN
    BY <2>1 DEF DataInv, Contents
  <2> QED BY <2>1, <2>2 DEF DataInv, remove_changes
<1>5. OtherInv'
  BY DEF OtherInv, OpInv, Op, FcbInv, Fcb, PrivateHasPage, CallVariables,
      CallOK, At, CoreOf, PageDone, Removed, Idle, EmptyFcb, NoSwap, Blank,
      remove_changes
<1> QED
  BY <1>1, <1>2, <1>3, <1>4, <1>5

\* end_of_roll_back keeps FrameInv.
LEMMA end_of_roll_back_Inv ==
    ASSUME FrameInv, NEW c \in Clients,
           end_of_roll_back(c)
    PROVE  FrameInv'
<1> USE NoClientAssumption, NoFrameAssumption, NoDadrAssumption DEF FrameInv
<1>1. OpInv'
  BY IdleOp DEF end_of_roll_back
<1>2. FcbInv'
  BY DEF FcbInv, PrivateHasPage, end_of_roll_back
<1>3. SwapInv'
  BY DEF SwapInv, end_of_roll_back
<1>4. DataInv'
  BY DEF DataInv, end_of_roll_back
<1>5. OtherInv'
  BY DEF OtherInv, OpInv, Op, FcbInv, Fcb, PrivateHasPage, CallVariables,
      CallOK, At, Idle, end_of_roll_back
<1> QED
  BY <1>1, <1>2, <1>3, <1>4, <1>5

\* The actions in which a page is lost change broken only.
LEMMA PageLost_Inv ==
    ASSUME FrameInv, PageLost
    PROVE  FrameInv'
  BY DEF FrameInv, PageLost, tranVars, OpInv, CallVariables, CallOK, FcbInv,
      PrivateHasPage, SwapInv, DataInv, OtherInv

\* FrameInv holds at the beginning.
LEMMA FrameInit_Inv == FrameInit => FrameInv
<1> SUFFICES ASSUME FrameInit PROVE FrameInv
  OBVIOUS
<1> USE EmptyValues DEF FrameInit
<1>1. OpInv
  <2>1. \A c \in Clients : CallOK(c, Idle)
    BY DEF Idle, CallOK
  <2> QED BY <2>1 DEF OpInv, CallVariables
<1>2. FcbInv
  BY DEF FcbInv, PrivateHasPage
<1>3. SwapInv
  BY DEF SwapInv
<1>4. DataInv
  BY DEF DataInv
<1>5. OtherInv
  BY DEF OtherInv
<1> QED
  BY <1>1, <1>2, <1>3, <1>4, <1>5 DEF FrameInv

\* Every step of the cache keeps FrameInv.
LEMMA FrameNext_Inv ==
    ASSUME FrameInv, [FrameNext]_allVars
    PROVE  FrameInv'
<1>1. CASE UNCHANGED allVars
  BY <1>1 DEF allVars, frameVars, FrameInv, OpInv, CallVariables, CallOK, FcbInv,
      PrivateHasPage, SwapInv, DataInv, OtherInv
<1>2. ASSUME NEW c \in Clients, Call(c)
      PROVE  FrameInv'
  BY <1>2, fix_page_Inv, unfix_page_Inv, rec_changed_Inv, commit_Inv,
      roll_back_Inv DEF Call
<1>3. ASSUME NEW c \in Clients, CallStep(c)
      PROVE  FrameInv'
  <2>1. CASE wait_for_block(c) \/ retry_page(c) \/ retry_victim(c)
              \/ sleep_for_frame(c) \/ no_frame(c) \/ save_block(c)
              \/ save_block_fails(c)
    BY <2>1, wait_for_block_Inv, retry_page_Inv, retry_victim_Inv,
        sleep_for_frame_Inv, no_frame_Inv, save_block_Inv, save_block_fails_Inv
  <2>2. ASSUME NEW f \in Frames,
               get_frame(c, f) \/ get_frame_swapping(c, f)
                   \/ fix_own(c, f) \/ fix_shared(c, f)
        PROVE  FrameInv'
    BY <2>2, get_frame_Inv, get_frame_swapping_Inv, fix_own_Inv, fix_shared_Inv
  <2>3. ASSUME NEW p \in Dadrs, next_page(c, p)
        PROVE  FrameInv'
    BY <2>3, next_page_Inv
  <2>4. CASE fix_get_frame(c) \/ read_block(c) \/ read_block_fails(c)
              \/ load_block(c) \/ fix_err(c)
    BY <2>4, fix_get_frame_Inv, read_block_Inv, read_block_fails_Inv,
        load_block_Inv, fix_err_Inv
  <2>5. CASE wr_nothing(c) \/ wr_changes(c) \/ load_changes(c)
              \/ write_block(c) \/ load_other(c) \/ wr_end(c)
              \/ end_of_commit(c)
    BY <2>5, wr_nothing_Inv, wr_changes_Inv, load_changes_Inv, write_block_Inv,
        load_other_Inv, wr_end_Inv, end_of_commit_Inv
  <2>6. ASSUME NEW o \in Clients, update_swapped(c, o)
        PROVE  FrameInv'
    BY <2>6, update_swapped_Inv
  <2>7. CASE remove_changes(c) \/ end_of_roll_back(c)
    BY <2>7, remove_changes_Inv, end_of_roll_back_Inv
  <2>8. CASE fix_misses(c) \/ wr_misses(c) \/ update_misses(c) \/ wr_err(c)
              \/ remove_misses(c)
    BY <2>8, PageLost_Inv DEF fix_misses, wr_misses, update_misses, wr_err,
        remove_misses
  <2> QED
    BY <1>3, <2>1, <2>2, <2>3, <2>4, <2>5, <2>6, <2>7, <2>8 DEF CallStep
<1>4. CASE Lost
  BY <1>1, <1>4 DEF Lost
<1> QED
  BY <1>1, <1>2, <1>3, <1>4 DEF FrameNext
-----------------------------------------------------------------------------
\* A step of the cache is a step of the block locks, or leaves them alone.
LEMMA FrameNextImplements ==
    ASSUME FrameInv, [FrameNext]_allVars
    PROVE  [Next]_vars
<1>1. CASE UNCHANGED allVars
  BY <1>1 DEF allVars
<1>2. ASSUME NEW c \in Clients, Call(c)
      PROVE  [Next]_vars
  <2>1. ASSUME NEW p \in Dadrs, NEW call, fix_page(c, p, call)
        PROVE  Next
    BY <2>1 DEF fix_page, LockPage, Next
  <2> QED
    BY <1>2, <2>1 DEF Call, unfix_page, rec_changed, commit, roll_back
<1>3. ASSUME NEW c \in Clients, CallStep(c)
      PROVE  [Next]_vars
  <2>1. CASE wait_for_block(c) \/ retry_page(c) \/ retry_victim(c)
              \/ save_block(c) \/ save_block_fails(c) \/ fix_err(c)
    BY <2>1 DEF wait_for_block, retry_page, retry_victim, save_block,
        save_block_fails, fix_err, Next, ClientStep
  <2>2. CASE sleep_for_frame(c) \/ no_frame(c) \/ fix_get_frame(c)
              \/ read_block_fails(c) \/ wr_changes(c) \/ load_changes(c)
              \/ write_block(c) \/ load_other(c) \/ end_of_commit(c)
              \/ end_of_roll_back(c)
    BY <2>2 DEF sleep_for_frame, no_frame, fix_get_frame, NeedFrame,
        read_block_fails, wr_changes, load_changes, write_block, load_other,
        end_of_commit, end_of_roll_back
  <2>3. ASSUME NEW f \in Frames, get_frame(c, f)
        PROVE  UNCHANGED vars
    BY <2>3 DEF get_frame
  <2>4. ASSUME NEW f \in Frames, get_frame_swapping(c, f)
        PROVE  Next
    <3>1. fcbs[f].blockdadr \in Dadrs
      BY <2>4 DEF FrameInv, FcbInv, PrivateHasPage, get_frame_swapping, MustSwap
    <3>2. wait_lock_victim(c, fcbs[f].blockdadr)
      BY <2>4 DEF get_frame_swapping
    <3> QED BY <3>1, <3>2 DEF Next
  <2>5. ASSUME NEW f \in Frames, fix_own(c, f) \/ fix_shared(c, f)
        PROVE  Next
    BY <2>5 DEF fix_own, fix_shared, Done, Next, ClientStep
  <2>6. CASE read_block(c) \/ load_block(c) \/ wr_nothing(c) \/ wr_end(c)
              \/ remove_changes(c)
    BY <2>6 DEF read_block, load_block, Done, wr_nothing, wr_end,
        remove_changes, PageDone, Next, ClientStep
  <2>7. ASSUME NEW p \in Dadrs, next_page(c, p)
        PROVE  Next
    BY <2>7 DEF next_page, LockPage, Next
  <2>8. ASSUME NEW o \in Clients, update_swapped(c, o)
        PROVE  UNCHANGED vars
    BY <2>8 DEF update_swapped, NeedFrame
  <2>9. CASE fix_misses(c) \/ wr_misses(c) \/ update_misses(c) \/ wr_err(c)
              \/ remove_misses(c)
    BY <2>9 DEF fix_misses, wr_misses, update_misses, wr_err, remove_misses,
        PageLost
  <2> QED
    BY <1>3, <2>1, <2>2, <2>3, <2>4, <2>5, <2>6, <2>7, <2>8, <2>9 DEF CallStep
<1>4. CASE Lost
  BY <1>1, <1>4 DEF Lost
<1> QED
  BY <1>1, <1>2, <1>3, <1>4 DEF FrameNext

\* FrameInv is an invariant of the cache.
THEOREM FrameInvariant == FrameSpec => []FrameInv
<1>1. FrameInit => FrameInv
  BY FrameInit_Inv
<1>2. FrameInv /\ [FrameNext]_allVars => FrameInv'
  BY FrameNext_Inv
<1> QED
  BY <1>1, <1>2, PTL DEF FrameSpec

(***************************************************************************)
(* The frame cache uses the block locks as DadrLocks says threads may: one *)
(* lock for the page of the operation, a second one only inside get_frame  *)
(* on a real block that is not locked, released in reverse order.          *)
(***************************************************************************)
THEOREM ImplementsDadrLocks == FrameSpec => Spec
<1>1. FrameInit => Init
  BY DEF FrameInit
<1>2. FrameInv /\ [FrameNext]_allVars => [Next]_vars
  BY FrameNextImplements
<1> QED
  BY <1>1, <1>2, FrameInvariant, PTL DEF FrameSpec, Spec

(***************************************************************************)
(* The type invariant of the frame cache and of the block locks in it.     *)
(***************************************************************************)
THEOREM FrameTypeCorrect == FrameSpec => []FrameTypeOK
<1>1. FrameInv /\ TypeOK => FrameTypeOK
  BY DEF FrameInv, FrameTypeOK, OpInv, FcbInv, SwapInv, SwapBlock, DataInv,
      OtherInv
<1> QED
  BY <1>1, FrameInvariant, ImplementsDadrLocks, TypeCorrect, PTL

(***************************************************************************)
(* In the frame cache as a whole, whatever it evicts, swaps or writes, no  *)
(* two threads do I/O on one block, and no release of a block is lost.     *)
(***************************************************************************)
THEOREM FrameIOIsExclusive == FrameSpec => [](BlockIOExclusive /\ NoLostWakeup)
  BY ImplementsDadrLocks, BlockIOIsExclusive, NoWakeupIsLost, PTL
=============================================================================
