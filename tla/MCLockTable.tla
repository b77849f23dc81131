---------------------------- MODULE MCLockTable ----------------------------
(***************************************************************************)
(* Instances of LockTable for TLC.  2^32 - 17 is the product for FULLTABLE *)
(* (2^32 - 1); 23 has the same remainders for the sizes 6, 12 and 24.      *)
(***************************************************************************)
EXTENDS LockTable, TLC

CONSTANT FULLTABLE

ProductOf == [o \in Objects |-> IF o = FULLTABLE THEN 23 ELSE 17 * o]
=============================================================================
