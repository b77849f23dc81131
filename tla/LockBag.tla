------------------------------ MODULE LockBag ------------------------------
(***************************************************************************)
(* What a t_locktable promises: a bag of locks that changes only as its    *)
(* requests say.  A request may have to copy the table to another one;     *)
(* until it ends, the bag is the same and no other request is served.      *)
(***************************************************************************)
EXTENDS Naturals

CONSTANTS Objects, Owners, UsedTypes, NoLock

LockValues == [object : Objects, owner : Owners, locktype : UsedTypes]

VARIABLES bag,            \* how many times each lock is there
          copying,        \* the table is being copied
          pending         \* the lock that is added when it is copied

bagVars == <<bag, copying, pending>>

Init ==
    /\ bag = [l \in LockValues |-> 0]
    /\ copying = FALSE
    /\ pending = NoLock

Plus(l) == [bag EXCEPT ![l] = @ + 1]

\* A lock is added, ...
Add(l) ==
    /\ ~copying
    /\ bag' = Plus(l)
    /\ UNCHANGED <<copying, pending>>

\* ... or it has to wait for a bigger table.
AddLater(l) ==
    /\ ~copying
    /\ copying' = TRUE /\ pending' = l
    /\ UNCHANGED bag

\* The locks a request for an object, owner and type is about.
Asked(o, c, t) ==
    {l \in LockValues : l.object = o /\ l.owner = c /\ t \in {l.locktype, "ANY_LOCK"}}

Temporary(l) == [l EXCEPT !.locktype = "TMPWLOCK"]

\* One such lock is removed; a write lock becomes a temporary one.
Remove(o, c, t) ==
    /\ ~copying
    /\ \E l \in Asked(o, c, t) :
          /\ bag[l] > 0
          /\ bag' = IF t = "WLOCK" THEN [bag EXCEPT ![l] = @ - 1, ![Temporary(l)] = @ + 1]
                    ELSE [bag EXCEPT ![l] = @ - 1]
    /\ UNCHANGED <<copying, pending>>

OwnedBy(c) == {l \in LockValues : l.owner = c}
TemporaryOf(c) == {l \in OwnedBy(c) : l.locktype \in {"TMPRLOCK", "TMPWLOCK"}}

\* All locks of a kind are dropped and no other one, ...
Drop(S) ==
    /\ ~copying
    /\ bag' = [l \in LockValues |-> IF l \in S THEN 0 ELSE bag[l]]
    /\ UNCHANGED <<copying, pending>>

\* ... and the rest may be copied to a smaller table.
DropAndShrink(S) ==
    /\ ~copying
    /\ bag' = [l \in LockValues |-> IF l \in S THEN 0 ELSE bag[l]]
    /\ copying' = TRUE /\ pending' = NoLock

EndCopying ==
    /\ copying
    /\ bag' = IF pending = NoLock THEN bag ELSE Plus(pending)
    /\ copying' = FALSE /\ pending' = NoLock

Next ==
    \/ \E l \in LockValues : Add(l) \/ AddLater(l)
    \/ \E o \in Objects, c \in Owners, t \in UsedTypes \cup {"ANY_LOCK"} :
          Remove(o, c, t) \/ Drop(Asked(o, c, t))
    \/ \E c \in Owners : \/ Drop(OwnedBy(c)) \/ Drop(TemporaryOf(c))
                         \/ DropAndShrink(TemporaryOf(c))
    \/ EndCopying

Spec == Init /\ [][Next]_bagVars
=============================================================================
