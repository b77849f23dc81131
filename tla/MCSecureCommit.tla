-------------------------- MODULE MCSecureCommit --------------------------
(***************************************************************************)
(* Instances of SecureCommit for TLC.  Clients may be exchanged, and pages *)
(* too where none are singled out as system pages.                         *)
(***************************************************************************)
EXTENDS SecureCommit

Symmetry == Permutations(Clients) \cup Permutations(Pages)
=============================================================================
