---------------------------- MODULE MCDiskSpace ----------------------------
(***************************************************************************)
(* Instances of DiskSpace for TLC.  Clients may be exchanged.              *)
(***************************************************************************)
EXTENDS DiskSpace, TLC

Symmetry == Permutations(Clients)

\* States that are reached and not continued from: those after a damage, of
\* which nothing but types and savepoints is claimed, and those where the
\* requests with the imports and backups that run and the failures are too many.
Modes == Cardinality(importing) + (IF backup THEN 1 ELSE 0) + crashes
Explored == ~damaged /\ requests + Modes <= MaxRequests
=============================================================================
