---------------------------- MODULE MCSavepoints ----------------------------
(***************************************************************************)
(* Instances of Savepoints for TLC.  Names and records may be exchanged.   *)
(***************************************************************************)
EXTENDS Savepoints, TLC

Symmetry == Permutations(Names) \cup Permutations(Records)
=============================================================================
