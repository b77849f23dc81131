---------------------------- MODULE MCTransactor ----------------------------
(***************************************************************************)
(* Instances of Transactor for TLC.  The threads may be exchanged.         *)
(***************************************************************************)
EXTENDS Transactor, TLC

Symmetry == Permutations(Threads)
=============================================================================
