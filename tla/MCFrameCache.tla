---------------------------- MODULE MCFrameCache ----------------------------
(***************************************************************************)
(* The instance of FrameCache for model checking: both clients change one  *)
(* page, each of them reads a page of its own, and c1 reads the changed    *)
(* page as a shared one too.                                               *)
(***************************************************************************)
EXTENDS FrameCache, TLC

CONSTANTS c1, c2, d1, d2, d3

ReadsOfBoth == (c1 :> {d1, d2}) @@ (c2 :> {d3})
WritesOfBoth == [c \in Clients |-> {d1}]
=============================================================================
