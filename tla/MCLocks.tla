------------------------------ MODULE MCLocks ------------------------------
(***************************************************************************)
(* Instances of Locks for TLC.  Clients and records are interchangeable in *)
(* the safety runs.                                                        *)
(***************************************************************************)
EXTENDS Locks, TLC

Symmetry == Permutations(Clients) \cup Permutations(Records)
=============================================================================
