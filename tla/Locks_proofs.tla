---------------------------- MODULE Locks_proofs ----------------------------
(***************************************************************************)
(* Proofs about Locks for any number of clients, records and cells.        *)
(*                                                                         *)
(* A step changes the lock table in one of four ways (LockChange): it adds *)
(* the lock of one request, removes or converts one lock, drops locks of a *)
(* client, or leaves the table alone.  Who does it, the owner of a lock or *)
(* a thread that walks the chain, matters only for the control state, so   *)
(* the invariants of the table are proved from LockChange, and the control *)
(* state (Walk) only says that a walk is at a client.                      *)
(***************************************************************************)
EXTENDS Locks, TLAPS

\* One client walks, it is at a client, and its verdict is about a client.
Walk ==
    /\ \A c \in Clients : pc[c] \in {"chain", "trace", "verdict"} =>
                              cs_deadlock = c /\ acdp \in Clients
    /\ \A c \in Clients : pc[c] \in {"trace", "verdict"} => verdict.who \in Clients

\* Locks of one client disappear, all temporary ones if its log forgets them.
Shrunk ==
    /\ locks' \in [Clients -> [Objects -> [LockTypes -> Nat]]]
    /\ logged' \in [Clients -> BOOLEAN]
    /\ \A c \in Clients, o \in Objects, t \in LockTypes :
          locks'[c][o][t] \in {0, locks[c][o][t]}
    /\ \A c \in Clients :
          \/ logged'[c] = logged[c]
          \/ \A o \in Objects, t \in LockTypes : IsTemp(t) => locks'[c][o][t] = 0

LockChange ==
    \/ UNCHANGED lockVars
    \/ \E c \in Clients, o \in Objects, t \in LockTypes : Granted(c, o, t)
    \/ \E c \in Clients, o \in Objects, t \in LockTypes \cup {"ANY_LOCK"},
          s \in LockTypes : Remove(c, o, t, s)
    \/ Shrunk

\* Which pairs of lock types are both for reading.
LEMMA TypesApart ==
    /\ \A t \in LockTypes : t # "ANY_LOCK"
    /\ \A s, t \in LockTypes : BothRead(s, t) <=>
          s \in {"RLOCK", "TMPRLOCK"} /\ t \in {"RLOCK", "TMPRLOCK"}
  BY DEF LockTypes, BothRead

\* What "add" means: nothing of another client is in the way.
LEMMA AddMeansFree ==
  ASSUME NEW c \in Clients, NEW o \in Objects, NEW t \in LockTypes,
         "add" \in try_locking(c, o, t)
  PROVE  /\ Blockers(c, FULLTABLE, t) = {}
         /\ o # FULLTABLE => Blockers(c, o, t) = {}
         /\ o = FULLTABLE => \A p \in Records : Blockers(c, p, t) = {}
  <1>1. "add" \notin Clients /\ "add" # "held"
    BY LockConstants
  <1>2. \A p : Blockers(c, p, t) \subseteq Clients
    BY DEF Blockers
  <1>3. "add" \notin FullTablePass(c, t)
    BY <1>1, <1>2 DEF FullTablePass
  <1>4. "add" \notin AllRecordsPass(c, t)
    BY <1>1, <1>2 DEF AllRecordsPass
  <1>5. "add" \notin RecordPass(c, o, t)
    BY <1>1, <1>2 DEF RecordPass
  <1>6. FullTablePass(c, t) = {}
    BY <1>3 DEF try_locking
  <1>7. Blockers(c, FULLTABLE, t) = {}
    BY <1>6 DEF FullTablePass
  <1>8. CASE o = FULLTABLE
    <2>1. AllRecordsPass(c, t) = {}
      BY <1>4, <1>6, <1>8 DEF try_locking
    <2> QED BY <2>1, <1>7, <1>8 DEF AllRecordsPass
  <1>9. CASE o # FULLTABLE
    <2>1. RecordPass(c, o, t) = {}
      BY <1>5, <1>6, <1>9 DEF try_locking
    <2> QED BY <2>1, <1>7, <1>9 DEF RecordPass
  <1> QED BY <1>8, <1>9

\* One more lock of c on o: the entries of the new table.
LEMMA GrantedEntries ==
  ASSUME TypeOK, NEW c \in Clients, NEW o \in Objects, NEW t \in LockTypes,
         Granted(c, o, t)
  PROVE  /\ locks' \in [Clients -> [Objects -> [LockTypes -> Nat]]]
         /\ logged' \in [Clients -> BOOLEAN]
         /\ \A d \in Clients, p \in Objects, s \in LockTypes :
               \/ locks'[d][p][s] = locks[d][p][s]
               \/ /\ d = c /\ p = o /\ s = t
                  /\ "add" \in try_locking(c, o, t)
         /\ \A d \in Clients : logged'[d] = (logged[d] \/ (d = c /\ IsTemp(t)))
  <1>1. \A x, y : (x \/ y) \in BOOLEAN
    OBVIOUS
  <1>2. logged' \in [Clients -> BOOLEAN] /\
        \A d \in Clients : logged'[d] = (logged[d] \/ (d = c /\ IsTemp(t)))
    BY DEF TypeOK, Granted
  <1>3. CASE UNCHANGED locks
    BY <1>2, <1>3 DEF TypeOK
  <1>4. CASE /\ "add" \in try_locking(c, o, t)
             /\ locks' = [locks EXCEPT ![c][o][t] = @ + 1]
    BY <1>2, <1>4 DEF TypeOK
  <1> QED BY <1>3, <1>4 DEF Granted

\* What remove_lock does to each number of cells.
LEMMA RemoveEntries ==
  ASSUME TypeOK, NEW c \in Clients, NEW o \in Objects,
         NEW t \in LockTypes \cup {"ANY_LOCK"}, NEW r \in LockTypes,
         Remove(c, o, t, r)
  PROVE  /\ locks' \in [Clients -> [Objects -> [LockTypes -> Nat]]]
         /\ logged' \in [Clients -> BOOLEAN]
         /\ \A d \in Clients, p \in Objects, s \in LockTypes :
               \/ locks'[d][p][s] <= locks[d][p][s]
               \/ /\ d = c /\ p = o /\ s = "TMPWLOCK" /\ r = "WLOCK"
                  /\ Has(c, o, "WLOCK")
         /\ \A d \in Clients : logged'[d] = (logged[d] \/ (d = c /\ r = "WLOCK"))
  <1>1. logged' \in [Clients -> BOOLEAN] /\
        \A d \in Clients : logged'[d] = (logged[d] \/ (d = c /\ r = "WLOCK"))
    BY DEF TypeOK, Remove
  <1>2. locks[c][o][r] \in Nat /\ locks[c][o][r] > 0
    BY DEF Remove, Has, TypeOK
  <1>3. CASE t = "WLOCK"
    <2> DEFINE new == [locks[c][o] EXCEPT !["WLOCK"] = @ - 1, !["TMPWLOCK"] = @ + 1]
    <2>1. r = "WLOCK"
      BY <1>3, TypesApart DEF Remove
    <2>2. locks' = [locks EXCEPT ![c] = [locks[c] EXCEPT ![o] = new]]
      BY <1>3 DEF Remove, TypeOK
    <2>3. locks[c][o] \in [LockTypes -> Nat]
      BY DEF TypeOK
    <2>4. /\ new \in [LockTypes -> Nat]
          /\ \A s \in LockTypes : new[s] <= locks[c][o][s] \/ s = "TMPWLOCK"
      BY <1>2, <2>1, <2>3 DEF LockTypes
    <2> HIDE DEF new
    <2> QED BY <1>1, <1>2, <2>1, <2>2, <2>4 DEF TypeOK, Has
  <1>4. CASE t # "WLOCK"
    <2> DEFINE new == [locks[c][o] EXCEPT ![r] = @ - 1]
    <2>1. locks' = [locks EXCEPT ![c] = [locks[c] EXCEPT ![o] = new]]
      BY <1>4 DEF Remove, TypeOK
    <2>2. locks[c][o] \in [LockTypes -> Nat]
      BY DEF TypeOK
    <2>3. /\ new \in [LockTypes -> Nat]
          /\ \A s \in LockTypes : new[s] <= locks[c][o][s]
      BY <1>2, <2>2
    <2> HIDE DEF new
    <2> QED BY <1>1, <1>2, <2>1, <2>3 DEF TypeOK
  <1> QED BY <1>3, <1>4

\* Adding a lock of c on o keeps the locks of the others compatible with it.
LEMMA GrantedKeepsApart ==
  ASSUME TypeOK, NoConflictingLocks,
         NEW c \in Clients, NEW o \in Objects, NEW t \in LockTypes,
         Granted(c, o, t)
  PROVE  NoConflictingLocks'
  <1> SUFFICES ASSUME NEW d \in Clients, NEW e \in Clients, d # e,
                      NEW p \in Objects, NEW q \in Objects, Overlap(p, q),
                      NEW s \in LockTypes, NEW u \in LockTypes,
                      Has(d, p, s)', Has(e, q, u)'
               PROVE  BothRead(s, u)
    BY DEF NoConflictingLocks, Overlap, BothRead
  <1>1. \A f \in Clients, x \in Objects, v \in LockTypes :
            Has(f, x, v)' => Has(f, x, v) \/ (f = c /\ x = o /\ v = t
                                              /\ "add" \in try_locking(c, o, t))
    BY GrantedEntries DEF Has
  <1>2. CASE Has(d, p, s) /\ Has(e, q, u)
    BY <1>2 DEF NoConflictingLocks
  <1>3. ASSUME "add" \in try_locking(c, o, t),
               NEW f \in Clients \ {c}, NEW x \in Objects, Overlap(o, x),
               NEW v \in LockTypes, Has(f, x, v)
        PROVE  BothRead(v, t)
    <2>1. Blockers(c, x, t) = {}
      <3>1. x = FULLTABLE \/ (x = o /\ o # FULLTABLE) \/ (x \in Records /\ o = FULLTABLE)
        BY <1>3 DEF Overlap, Objects
      <3> QED BY <3>1, AddMeansFree, <1>3
    <2> QED BY <2>1, <1>3 DEF Blockers
  <1>4. Overlap(q, p)
    BY DEF Overlap
  <1>5. CASE ~Has(d, p, s)
    <2>1. d = c /\ p = o /\ s = t /\ "add" \in try_locking(c, o, t)
      BY <1>1, <1>5
    <2>2. e \in Clients \ {c} /\ Has(e, q, u)
      BY <1>1, <2>1
    <2>3. BothRead(u, t)
      BY <1>3, <2>1, <2>2
    <2> QED BY <2>1, <2>3, TypesApart
  <1>6. CASE ~Has(e, q, u)
    <2>1. e = c /\ q = o /\ u = t /\ "add" \in try_locking(c, o, t)
      BY <1>1, <1>6
    <2>2. d \in Clients \ {c} /\ Has(d, p, s)
      BY <1>1, <2>1
    <2> QED BY <1>3, <1>4, <2>1, <2>2
  <1> QED BY <1>2, <1>5, <1>6

\* A lock that is left over or comes from the conversion of WLOCK conflicts with
\* nothing its source did not conflict with.
LEMMA RemoveKeepsApart ==
  ASSUME TypeOK, NoConflictingLocks,
         NEW c \in Clients, NEW o \in Objects,
         NEW t \in LockTypes \cup {"ANY_LOCK"}, NEW r \in LockTypes,
         Remove(c, o, t, r)
  PROVE  NoConflictingLocks'
  <1> SUFFICES ASSUME NEW d \in Clients, NEW e \in Clients, d # e,
                      NEW p \in Objects, NEW q \in Objects, Overlap(p, q),
                      NEW s \in LockTypes, NEW u \in LockTypes,
                      Has(d, p, s)', Has(e, q, u)'
               PROVE  BothRead(s, u)
    BY DEF NoConflictingLocks, Overlap, BothRead
  <1>1. \A f \in Clients, x \in Objects, v \in LockTypes :
            Has(f, x, v)' => Has(f, x, v) \/ (v = "TMPWLOCK" /\ Has(f, x, "WLOCK"))
    <2> TAKE f \in Clients, x \in Objects, v \in LockTypes
    <2>1. locks' \in [Clients -> [Objects -> [LockTypes -> Nat]]]
      BY RemoveEntries
    <2>2. locks \in [Clients -> [Objects -> [LockTypes -> Nat]]]
      BY DEF TypeOK
    <2>3. \/ locks'[f][x][v] <= locks[f][x][v]
          \/ v = "TMPWLOCK" /\ Has(f, x, "WLOCK")
      BY RemoveEntries
    <2> QED BY <2>1, <2>2, <2>3 DEF Has
  <1>2. "WLOCK" \in LockTypes /\ \A v \in LockTypes : ~BothRead("WLOCK", v) /\ ~BothRead(v, "WLOCK")
    BY DEF LockTypes, BothRead
  <1>3. Has(d, p, s) /\ Has(e, q, u)
    <2>1. \A v, w \in LockTypes : Has(d, p, v) /\ Has(e, q, w) => BothRead(v, w)
      BY DEF NoConflictingLocks
    <2> QED BY <1>1, <1>2, <2>1
  <1> QED BY <1>3 DEF NoConflictingLocks

\* No change of the locks makes two clients conflict.
LEMMA LockChangeKeepsApart ==
  ASSUME TypeOK, NoConflictingLocks, LockChange
  PROVE  NoConflictingLocks'
  <1>1. CASE UNCHANGED lockVars
    BY <1>1 DEF lockVars, NoConflictingLocks, Has
  <1>2. CASE Shrunk
    <2>1. \A c \in Clients, o \in Objects, t \in LockTypes : Has(c, o, t)' => Has(c, o, t)
      BY <1>2 DEF Shrunk, Has
    <2> QED BY <2>1 DEF NoConflictingLocks
  <1> QED BY <1>1, <1>2, GrantedKeepsApart, RemoveKeepsApart DEF LockChange

\* No change of the locks leaves a temporary one out of the log.
LEMMA LockChangeKeepsLog ==
  ASSUME TypeOK, TempLocksLogged, LockChange
  PROVE  TempLocksLogged'
  <1> SUFFICES ASSUME NEW d \in Clients, NEW p \in Objects, NEW s \in LockTypes,
                      Has(d, p, s)', IsTemp(s)
               PROVE  logged'[d]
    BY DEF TempLocksLogged, IsTemp
  <1>1. Has(d, p, s) => logged[d]
    BY DEF TempLocksLogged
  <1>2. CASE UNCHANGED lockVars
    BY <1>1, <1>2 DEF lockVars, Has
  <1>3. ASSUME NEW c \in Clients, NEW o \in Objects, NEW t \in LockTypes,
               Granted(c, o, t)
        PROVE  logged'[d]
    <2>1. /\ locks'[d][p][s] = locks[d][p][s] \/ (d = c /\ s = t)
          /\ logged'[d] = (logged[d] \/ (d = c /\ IsTemp(t)))
      BY <1>3, GrantedEntries
    <2> QED BY <1>1, <2>1 DEF Has
  <1>4. ASSUME NEW c \in Clients, NEW o \in Objects,
               NEW t \in LockTypes \cup {"ANY_LOCK"}, NEW r \in LockTypes,
               Remove(c, o, t, r)
        PROVE  logged'[d]
    <2>1. /\ locks'[d][p][s] <= locks[d][p][s] \/ (d = c /\ r = "WLOCK")
          /\ logged'[d] = (logged[d] \/ (d = c /\ r = "WLOCK"))
          /\ locks'[d][p][s] \in Nat
      BY <1>4, RemoveEntries
    <2>2. locks[d][p][s] \in Nat
      BY DEF TypeOK
    <2>3. Has(d, p, s) \/ (d = c /\ r = "WLOCK")
      BY <2>1, <2>2 DEF Has
    <2> QED BY <1>1, <2>1, <2>3
  <1>5. CASE Shrunk
    BY <1>1, <1>5, SMTT(60) DEF Shrunk, Has
  <1> QED BY <1>2, <1>3, <1>4, <1>5 DEF LockChange

\* Every change of the locks keeps their types.
LEMMA LockChangeTyped ==
  ASSUME TypeOK, LockChange
  PROVE  /\ locks' \in [Clients -> [Objects -> [LockTypes -> Nat]]]
         /\ logged' \in [Clients -> BOOLEAN]
  BY GrantedEntries, RemoveEntries DEF LockChange, Shrunk, TypeOK, lockVars

\* The removal of all locks of a kind takes locks away only.
LEMMA RemoveAllShrinks ==
  ASSUME TypeOK, NEW c \in Clients, NEW u \in Clients, NEW objs \in SUBSET Objects,
         NEW types \in SUBSET LockTypes, RemoveAll(c, u, objs, types),
         \/ UNCHANGED logged
         \/ /\ u = c /\ objs = Objects /\ types = {"TMPRLOCK", "TMPWLOCK"}
            /\ logged' = [logged EXCEPT ![c] = FALSE]
  PROVE  Shrunk
  <1> DEFINE new == [o \in Objects |-> IF o \in objs THEN Dropped(u, o, types)
                                       ELSE locks[u][o]]
  <1>1. locks \in [Clients -> [Objects -> [LockTypes -> Nat]]] /\ logged \in [Clients -> BOOLEAN]
    BY DEF TypeOK
  <1>2. locks' = [locks EXCEPT ![u] = new]
    BY DEF RemoveAll
  <1>3. \A o \in Objects : /\ new[o] \in [LockTypes -> Nat]
                           /\ \A t \in LockTypes : new[o][t] \in {0, locks[u][o][t]}
    BY <1>1 DEF Dropped
  <1>4. new \in [Objects -> [LockTypes -> Nat]]
    BY <1>3
  <1>5. objs = Objects /\ types = {"TMPRLOCK", "TMPWLOCK"} =>
            \A o \in Objects, t \in LockTypes : IsTemp(t) => new[o][t] = 0
    BY DEF Dropped, IsTemp
  <1>6. logged' \in [Clients -> BOOLEAN] /\
        \A d \in Clients : d # c \/ UNCHANGED logged => logged'[d] = logged[d]
    BY <1>1
  <1> HIDE DEF new
  <1>7. locks' \in [Clients -> [Objects -> [LockTypes -> Nat]]]
    BY <1>1, <1>2, <1>4
  <1>8. \A d \in Clients, o \in Objects, t \in LockTypes :
            locks'[d][o][t] \in {0, locks[d][o][t]}
    BY <1>1, <1>2, <1>3
  <1>9. ASSUME NEW d \in Clients, logged'[d] # logged[d],
               NEW o \in Objects, NEW t \in LockTypes, IsTemp(t)
        PROVE  locks'[d][o][t] = 0
    <2>1. d = c /\ ~UNCHANGED logged
      BY <1>6, <1>9
    <2>2. u = c /\ objs = Objects /\ types = {"TMPRLOCK", "TMPWLOCK"}
      BY <2>1
    <2>3. locks'[d] = new
      BY <1>1, <1>2, <2>1, <2>2
    <2> QED BY <1>5, <1>9, <2>2, <2>3
  <1> QED BY <1>6, <1>7, <1>8, <1>9 DEF Shrunk

\* As LockChange, when the lock that is added is one the clients ask for.
RequestChange ==
    \/ UNCHANGED lockVars
    \/ \E c \in Clients, o \in UsedObjects, t \in UsedTypes : Granted(c, o, t)
    \/ \E c \in Clients, o \in Objects, t \in LockTypes \cup {"ANY_LOCK"},
          s \in LockTypes : Remove(c, o, t, s)
    \/ Shrunk

\* A step of a running client.
LEMMA RequestChangesLocks ==
  ASSUME TypeOK, NEW c \in Clients, Request(c)
  PROVE  RequestChange
  <1>1. ASSUME NEW o \in UsedObjects, NEW t \in UsedTypes, wait_record_lock_error(c, o, t)
        PROVE  RequestChange
    BY <1>1 DEF wait_record_lock_error, BlockedBy, RequestChange
  <1>2. ASSUME NEW o \in UsedObjects, NEW t \in UsedTypes \cup {"ANY_LOCK"},
               record_unlock(c, o, t)
        PROVE  RequestChange
    <2>1. o \in Objects /\ t \in LockTypes \cup {"ANY_LOCK"}
      BY LockConstants
    <2> QED BY <1>2, <2>1 DEF record_unlock, NotFound, RequestChange
  <1>3. CASE request_init(c)
    BY <1>3 DEF request_init, RequestChange
  <1>4. CASE remove_my_tmplocks(c)
    <2>1. {"TMPRLOCK", "TMPWLOCK"} \in SUBSET LockTypes
      BY DEF LockTypes
    <2>2. Shrunk
      BY <1>4, <2>1, RemoveAllShrinks DEF remove_my_tmplocks
    <2> QED BY <2>2 DEF RequestChange
  <1>5. CASE unlock_user(c)
    <2>1. Shrunk
      BY <1>5, RemoveAllShrinks DEF unlock_user
    <2> QED BY <2>1 DEF RequestChange
  <1>6. CASE remove_user_rlocks(c)
    <2>1. {"RLOCK"} \in SUBSET LockTypes
      BY DEF LockTypes
    <2>2. Shrunk
      BY <1>6, <2>1, RemoveAllShrinks DEF remove_user_rlocks
    <2> QED BY <2>2 DEF RequestChange
  <1>7. ASSUME NEW u \in Clients, NEW o \in UsedObjects,
               NEW t \in UsedTypes \cup {"ANY_LOCK"}, remove_the_lock(c, u, o, t)
        PROVE  RequestChange
    <2> DEFINE types == IF t = "ANY_LOCK" THEN LockTypes ELSE {t}
    <2>1. {o} \in SUBSET Objects /\ types \in SUBSET LockTypes
      BY LockConstants
    <2>2. RemoveAll(c, u, {o}, types) /\ UNCHANGED logged
      BY <1>7 DEF remove_the_lock
    <2> HIDE DEF types
    <2>3. Shrunk
      BY <2>1, <2>2, RemoveAllShrinks
    <2> QED BY <2>3 DEF RequestChange
  <1> QED BY <1>1, <1>2, <1>3, <1>4, <1>5, <1>6, <1>7 DEF Request

\* A walk changes the locks only by granting the request of the client it is at.
LEMMA WalkChangesLocks ==
  ASSUME TypeOK, Walk, NEW c \in Clients, is_deadlock(c) \/ trace_lock_chain(c)
  PROVE  LockChange
  <1>1. acdp \in Clients
    BY DEF Walk, is_deadlock, trace_lock_chain
  <1>2. want[acdp].obj \in Objects /\ want[acdp].type \in LockTypes
    BY <1>1 DEF TypeOK
  <1>3. \/ Granted(acdp, want[acdp].obj, want[acdp].type)
        \/ UNCHANGED lockVars
    BY DEF is_deadlock, trace_lock_chain, NoMemory, BlockedBy
  <1> QED BY <1>1, <1>2, <1>3 DEF LockChange

\* Every step changes the locks in one of the ways of LockChange.
LEMMA NextChangesLocks ==
  ASSUME TypeOK, Walk, Next
  PROVE  LockChange
  <1> PICK c \in Clients :
            \/ Request(c) \/ SetBreak(c) \/ WaitStep(c) \/ Expire(c) \/ enter_is_deadlock(c)
    BY DEF Next
  <1>1. CASE Request(c)
    BY <1>1, RequestChangesLocks, LockConstants DEF RequestChange, LockChange
  <1>2. CASE is_deadlock(c) \/ trace_lock_chain(c)
    BY <1>2, WalkChangesLocks
  <1>3. CASE SetBreak(c) \/ Expire(c) \/ enter_is_deadlock(c) \/ lock_opened(c)
             \/ RegisterRequest(c) \/ GiveVerdict(c) \/ EndOrWait(c)
             \/ wait_for_lock_opened(c) \/ SleepTimeout(c)
    BY <1>3 DEF SetBreak, Expire, enter_is_deadlock, lock_opened, RegisterRequest,
                GiveVerdict, EndOrWait, wait_for_lock_opened, SleepTimeout, LockChange
  <1> QED BY <1>1, <1>2, <1>3 DEF WaitStep

\* TypeOK without the lock table.
ControlTypeOK ==
    /\ waits_for \in [Clients -> Outcomes \cup {"none", "waiting"}]
    /\ want \in [Clients -> [obj : Objects, type : LockTypes]]
    /\ timed \in [Clients -> BOOLEAN]
    /\ expired \in [Clients -> BOOLEAN]
    /\ break_request \in [Clients -> BOOLEAN]
    /\ pc \in [Clients -> {"run", "register", "detect", "chain", "trace",
                           "verdict", "check", "towait", "asleep", "opening"}]
    /\ cs_deadlock \in Clients \cup {NoClient}
    /\ acdp \in Clients \cup {NoClient}
    /\ counter \in Nat
    /\ passed \subseteq Clients
    /\ verdict \in [who : Clients \cup {NoClient}, what : Outcomes]

\* Requests of running clients keep the types and the walk.
LEMMA RequestKeepsControl ==
  ASSUME ControlTypeOK, Walk, NEW c \in Clients, Request(c)
  PROVE  ControlTypeOK' /\ Walk'
  <1>1. UNCHANGED <<waits_for, timed, expired, chainVars>>
    BY DEF Request, wait_record_lock_error, record_unlock, request_init,
           remove_my_tmplocks, unlock_user, remove_user_rlocks, remove_the_lock, RemoveAll
  <1>2. /\ \E l \in {"run", "register", "opening"} : pc' = [pc EXCEPT ![c] = l]
        /\ pc[c] = "run"
    <2>1. pc[c] = "run" => pc = [pc EXCEPT ![c] = "run"]
      BY DEF ControlTypeOK
    <2> QED BY <2>1 DEF Request, wait_record_lock_error, record_unlock, request_init,
           remove_my_tmplocks, unlock_user, remove_user_rlocks, remove_the_lock, RemoveAll, Goto
  <1>3. \/ UNCHANGED want
        \/ \E o \in Objects, t \in LockTypes :
              want' = [want EXCEPT ![c] = [obj |-> o, type |-> t]]
    BY LockConstants
       DEF Request, wait_record_lock_error, record_unlock, request_init,
           remove_my_tmplocks, unlock_user, remove_user_rlocks, remove_the_lock, RemoveAll
  <1>4. \/ UNCHANGED break_request
        \/ break_request' = [break_request EXCEPT ![c] = FALSE]
    BY DEF Request, wait_record_lock_error, record_unlock, request_init,
           remove_my_tmplocks, unlock_user, remove_user_rlocks, remove_the_lock, RemoveAll
  <1>5. want' \in [Clients -> [obj : Objects, type : LockTypes]]
    BY <1>3 DEF ControlTypeOK
  <1>6. ControlTypeOK'
    <2>1. break_request' \in [Clients -> BOOLEAN]
      BY <1>4 DEF ControlTypeOK
    <2>2. pc' \in [Clients -> {"run", "register", "detect", "chain", "trace",
                              "verdict", "check", "towait", "asleep", "opening"}]
      BY <1>2 DEF ControlTypeOK
    <2> QED BY <1>1, <1>5, <2>1, <2>2 DEF ControlTypeOK, chainVars
  <1>7. Walk'
    BY <1>1, <1>2 DEF ControlTypeOK, Walk, chainVars
  <1> QED BY <1>6, <1>7

\* The steps of a wait outside cs_deadlock, and what other threads do to it.
LEMMA WaitKeepsControl ==
  ASSUME ControlTypeOK, Walk, NEW c \in Clients,
         \/ SetBreak(c) \/ Expire(c) \/ lock_opened(c) \/ RegisterRequest(c)
         \/ EndOrWait(c) \/ wait_for_lock_opened(c) \/ SleepTimeout(c)
  PROVE  ControlTypeOK' /\ Walk'
  <1>1. UNCHANGED chainVars
    BY DEF SetBreak, Expire, lock_opened, RegisterRequest, EndOrWait,
           wait_for_lock_opened, SleepTimeout
  <1>2. CASE SetBreak(c) \/ Expire(c)
    BY <1>1, <1>2 DEF SetBreak, Expire, ControlTypeOK, Walk, chainVars
  <1>3. CASE lock_opened(c)
    BY <1>1, <1>3 DEF lock_opened, ControlTypeOK, Walk, chainVars
  <1>4. CASE RegisterRequest(c)
    <2>1. PICK limit \in BOOLEAN : timed' = [timed EXCEPT ![c] = limit]
      BY <1>4, LockConstants DEF RegisterRequest
    <2> QED BY <1>1, <1>4, <2>1
            DEF RegisterRequest, Goto, ControlTypeOK, Walk, chainVars
  <1>5. CASE EndOrWait(c)
    <2>1. NoWant \in [obj : Objects, type : LockTypes]
      BY DEF NoWant, Objects, LockTypes
    <2>2. CASE waits_for[c] = "waiting"
      BY <1>1, <1>5, <2>2 DEF EndOrWait, Goto, ControlTypeOK, Walk, chainVars
    <2>3. CASE waits_for[c] # "waiting"
      <3>1. /\ waits_for' = [waits_for EXCEPT ![c] = "none"]
            /\ want' = [want EXCEPT ![c] = NoWant]
            /\ timed' = [timed EXCEPT ![c] = FALSE]
            /\ expired' = [expired EXCEPT ![c] = FALSE]
            /\ pc' = [pc EXCEPT ![c] = "run"]
            /\ UNCHANGED break_request
        BY <1>5, <2>3 DEF EndOrWait, Goto
      <3>2. want' \in [Clients -> [obj : Objects, type : LockTypes]]
        BY <2>1, <3>1 DEF ControlTypeOK
      <3> QED BY <1>1, <3>1, <3>2 DEF ControlTypeOK, Walk, chainVars
    <2> QED BY <2>2, <2>3
  <1>6. CASE wait_for_lock_opened(c) \/ SleepTimeout(c)
    BY <1>1, <1>6 DEF wait_for_lock_opened, SleepTimeout, Goto, ControlTypeOK, Walk, chainVars
  <1> QED BY <1>2, <1>3, <1>4, <1>5, <1>6

\* Leaving cs_deadlock ends the walk.
LEMMA LeavingKeepsControl ==
  ASSUME ControlTypeOK, Walk, NEW c \in Clients, pc[c] \in {"chain", "trace", "verdict"},
         LeaveChain(c), waits_for' \in [Clients -> Outcomes \cup {"none", "waiting"}],
         UNCHANGED <<want, timed, expired, break_request>>
  PROVE  ControlTypeOK' /\ Walk'
  <1>1. \A d \in Clients : pc[d] \in {"chain", "trace", "verdict"} => d = c
    BY DEF Walk
  <1>2. NoVerdict \in [who : Clients \cup {NoClient}, what : Outcomes]
    BY DEF NoVerdict, Outcomes
  <1>3. ControlTypeOK'
    BY <1>2 DEF LeaveChain, Goto, ControlTypeOK
  <1>4. Walk'
    BY <1>1 DEF LeaveChain, Goto, ControlTypeOK, Walk
  <1> QED BY <1>3, <1>4

\* The steps inside cs_deadlock keep the types and the walk.
LEMMA ChainKeepsControl ==
  ASSUME ControlTypeOK, Walk, NEW c \in Clients,
         \/ enter_is_deadlock(c) \/ is_deadlock(c) \/ trace_lock_chain(c) \/ GiveVerdict(c)
  PROVE  ControlTypeOK' /\ Walk'
  <1>1. CASE enter_is_deadlock(c)
    BY <1>1, LockConstants DEF enter_is_deadlock, Goto, ControlTypeOK, Walk
  <1>2. CASE is_deadlock(c)
    <2>1. pc[c] = "chain" /\ acdp \in Clients /\ cs_deadlock = c
      BY <1>2 DEF is_deadlock, Walk
    <2>2. UNCHANGED <<want, timed, expired, break_request>>
      BY <1>2 DEF is_deadlock
    <2>3. CASE LeaveChain(c) /\ UNCHANGED waits_for
      BY <2>1, <2>2, <2>3, LeavingKeepsControl DEF ControlTypeOK
    <2>4. ASSUME NEW a \in Clients, NEW w \in Outcomes, TellAndLeave(c, a, w)
          PROVE  ControlTypeOK' /\ Walk'
      BY <2>1, <2>2, <2>4, LeavingKeepsControl DEF ControlTypeOK, TellAndLeave
    <2>5. ASSUME NEW a \in Clients, NEW w \in Outcomes, TraceFirst(c, a, w)
          PROVE  ControlTypeOK' /\ Walk'
      BY <2>1, <2>2, <2>5 DEF TraceFirst, Goto, ControlTypeOK, Walk
    <2>6. ASSUME NEW e \in Clients, FollowTo(e)
          PROVE  ControlTypeOK' /\ Walk'
      BY <2>1, <2>2, <2>6 DEF FollowTo, ControlTypeOK, Walk
    <2>7. {"locked", "memory", "cancelled", "timeout", "deadlock"} = Outcomes
      BY DEF Outcomes
    <2> QED BY <1>2, <2>1, <2>3, <2>4, <2>5, <2>6, <2>7 DEF is_deadlock
  <1>3. CASE trace_lock_chain(c)
    <2>1. pc[c] = "trace" /\ acdp \in Clients /\ verdict.who \in Clients
      BY <1>3 DEF trace_lock_chain, Walk
    <2>2. UNCHANGED <<waits_for, want, timed, expired, break_request,
                      cs_deadlock, counter, verdict>>
      BY <1>3 DEF trace_lock_chain
    <2>3. /\ UNCHANGED pc \/ pc' = [pc EXCEPT ![c] = "verdict"]
          /\ acdp' \in Clients
          /\ passed' \subseteq Clients
      BY <1>3, <2>1 DEF trace_lock_chain, Goto, ControlTypeOK
    <2> QED BY <2>1, <2>2, <2>3 DEF ControlTypeOK, Walk
  <1>4. CASE GiveVerdict(c)
    <2>1. verdict.who \in Clients /\ verdict.what \in Outcomes /\ pc[c] = "verdict"
      BY <1>4 DEF GiveVerdict, Walk, ControlTypeOK
    <2> QED BY <1>4, <2>1, LeavingKeepsControl DEF GiveVerdict, TellAndLeave, ControlTypeOK
  <1> QED BY <1>1, <1>2, <1>3, <1>4

\* The type invariant in its two parts.
LEMMA ControlIsPart == TypeOK <=> /\ locks \in [Clients -> [Objects -> [LockTypes -> Nat]]]
                                  /\ logged \in [Clients -> BOOLEAN]
                                  /\ ControlTypeOK
  BY DEF TypeOK, ControlTypeOK

\* The inductive invariant.
LocksInv == TypeOK /\ Walk /\ NoConflictingLocks /\ TempLocksLogged

\* At the start there are no locks and no walk.
LEMMA InitEstablishes == Init => LocksInv
  <1> SUFFICES ASSUME Init PROVE LocksInv
    OBVIOUS
  <1>1. TypeOK
    BY DEF Init, TypeOK, Outcomes, NoWant, NoVerdict, Objects, LockTypes
  <1>2. Walk
    BY DEF Init, Walk
  <1>3. \A c \in Clients, o \in Objects, t \in LockTypes : ~Has(c, o, t)
    BY DEF Init, Has
  <1> QED BY <1>1, <1>2, <1>3 DEF LocksInv, NoConflictingLocks, TempLocksLogged

\* Every step keeps the invariant.
LEMMA NextPreserves == LocksInv /\ [Next]_vars => LocksInv'
  <1> SUFFICES ASSUME LocksInv, [Next]_vars PROVE LocksInv'
    OBVIOUS
  <1> USE DEF LocksInv
  <1>1. CASE Next
    <2>1. LockChange
      BY <1>1, NextChangesLocks
    <2>2. ControlTypeOK' /\ Walk'
      BY <1>1, ControlIsPart, RequestKeepsControl, WaitKeepsControl, ChainKeepsControl
         DEF Next, WaitStep
    <2>3. TypeOK'
      BY <2>1, <2>2, LockChangeTyped DEF ControlTypeOK, TypeOK
    <2> QED BY <2>1, <2>2, <2>3, LockChangeKeepsApart, LockChangeKeepsLog
  <1>2. CASE UNCHANGED vars
    BY <1>2 DEF vars, TypeOK, Walk, NoConflictingLocks, TempLocksLogged, Has
  <1> QED BY <1>1, <1>2

\* The inductive invariant of the locks and of the walk of is_deadlock.
THEOREM LocksInvariance == Spec => []LocksInv
  BY InitEstablishes, NextPreserves, PTL DEF Spec

(***************************************************************************)
(* The variables of the lock table and of the waits keep their types; no   *)
(* count of locks gets below zero in remove_lock.                          *)
(***************************************************************************)
THEOREM TypeCorrect == Spec => []TypeOK
  <1>1. LocksInv => TypeOK
    BY DEF LocksInv
  <1> QED BY <1>1, LocksInvariance, PTL

(***************************************************************************)
(* Two clients never have incompatible locks on overlapping objects, with  *)
(* requests granted by their owners and by any thread that walks a chain.  *)
(***************************************************************************)
THEOREM LocksAreCompatible == Spec => []NoConflictingLocks
  <1>1. LocksInv => NoConflictingLocks
    BY DEF LocksInv
  <1> QED BY <1>1, LocksInvariance, PTL

(***************************************************************************)
(* Every temporary lock is on a table its owner's log knows, so the end of *)
(* the transaction removes it.                                             *)
(***************************************************************************)
THEOREM TempLocksAreLogged == Spec => []TempLocksLogged
  <1>1. LocksInv => TempLocksLogged
    BY DEF LocksInv
  <1> QED BY <1>1, LocksInvariance, PTL

-----------------------------------------------------------------------------
(***************************************************************************)
(* Requests of the clients.  A client with a registered request is between *)
(* RegisterRequest and EndOrWait, so it asks for nothing else and releases *)
(* nothing; want is then one of the requests the clients make.             *)
(***************************************************************************)
Waits ==
    /\ \A c \in Clients : waits_for[c] \in {"waiting", "locked"} =>
                              pc[c] \notin {"run", "register", "opening"}
    /\ \A c \in Clients : pc[c] \notin {"run", "opening"} =>
                              want[c].obj \in UsedObjects /\ want[c].type \in UsedTypes
    /\ \A c \in Clients : pc[c] \in {"trace", "verdict"} =>
                              verdict.what \in {"timeout", "deadlock"}

\* What a step of a running client does to its control state.
RequestShape(c) ==
    /\ pc[c] = "run"
    /\ UNCHANGED <<waits_for, chainVars>>
    /\ \/ UNCHANGED <<pc, want>>
       \/ pc' = [pc EXCEPT ![c] = "opening"] /\ UNCHANGED want
       \/ /\ pc' = [pc EXCEPT ![c] = "register"]
          /\ UNCHANGED locks
          /\ \E o \in UsedObjects, t \in UsedTypes :
                want' = [want EXCEPT ![c] = [obj |-> o, type |-> t]]

\* Every step of a running client is of that shape.
LEMMA RequestHasShape ==
  ASSUME TypeOK, NEW c \in Clients, Request(c)
  PROVE  RequestShape(c)
  <1>1. pc[c] = "run" => pc = [pc EXCEPT ![c] = "run"]
    BY DEF TypeOK
  <1>2. ASSUME NEW o \in UsedObjects, NEW t \in UsedTypes, wait_record_lock_error(c, o, t)
        PROVE  RequestShape(c)
    BY <1>2 DEF wait_record_lock_error, BlockedBy, lockVars, Goto, RequestShape
  <1>3. ASSUME NEW o \in UsedObjects, NEW t \in UsedTypes \cup {"ANY_LOCK"},
               record_unlock(c, o, t)
        PROVE  RequestShape(c)
    BY <1>3 DEF record_unlock, Goto, RequestShape
  <1>4. ASSUME pc[c] = "run", NEW u, NEW objs, NEW types, RemoveAll(c, u, objs, types)
        PROVE  RequestShape(c)
    BY <1>1, <1>4 DEF RemoveAll, Goto, RequestShape
  <1>5. CASE request_init(c)
    BY <1>5 DEF request_init, RequestShape
  <1> QED
    BY <1>2, <1>3, <1>4, <1>5
       DEF Request, remove_my_tmplocks, unlock_user, remove_user_rlocks, remove_the_lock

\* The steps of a wait, one by one, keep Waits.
LEMMA WaitsKept ==
  ASSUME TypeOK, Walk, Waits, [Next]_vars
  PROVE  Waits'
  <1>1. ASSUME NEW c \in Clients, Request(c)
        PROVE  Waits'
    <2>1. RequestShape(c)
      BY <1>1, RequestHasShape
    <2>2. UNCHANGED <<waits_for, verdict>> /\ pc[c] = "run"
      BY <2>1 DEF RequestShape, chainVars
    <2>3. CASE UNCHANGED <<pc, want>>
      BY <2>2, <2>3 DEF Waits
    <2>4. CASE pc' = [pc EXCEPT ![c] = "opening"] /\ UNCHANGED want
      BY <2>2, <2>4 DEF Waits, TypeOK
    <2>5. CASE /\ pc' = [pc EXCEPT ![c] = "register"]
               /\ \E o \in UsedObjects, t \in UsedTypes :
                     want' = [want EXCEPT ![c] = [obj |-> o, type |-> t]]
      <3>1. \A d \in Clients : d # c => want'[d] = want[d] /\ pc'[d] = pc[d]
        BY <2>5 DEF TypeOK
      <3>2. want'[c].obj \in UsedObjects /\ want'[c].type \in UsedTypes /\ pc'[c] = "register"
        BY <2>5 DEF TypeOK
      <3> QED BY <2>2, <3>1, <3>2 DEF Waits
    <2> QED BY <2>1, <2>3, <2>4, <2>5 DEF RequestShape
  <1>2. ASSUME NEW c \in Clients,
               SetBreak(c) \/ Expire(c) \/ wait_for_lock_opened(c) \/ SleepTimeout(c)
               \/ lock_opened(c) \/ enter_is_deadlock(c) \/ RegisterRequest(c)
        PROVE  Waits'
    <2>1. CASE SetBreak(c) \/ Expire(c)
      BY <2>1 DEF SetBreak, Expire, chainVars, Waits
    <2>2. CASE wait_for_lock_opened(c) \/ SleepTimeout(c)
      <3>1. /\ UNCHANGED <<waits_for, want, verdict>>
            /\ pc[c] \in {"towait", "asleep"}
            /\ pc' = [pc EXCEPT ![c] = "asleep"] \/ pc' = [pc EXCEPT ![c] = "detect"]
        BY <2>2 DEF wait_for_lock_opened, SleepTimeout, Goto, chainVars
      <3>2. /\ \A d \in Clients : d # c => pc'[d] = pc[d]
            /\ pc'[c] \in {"asleep", "detect"}
        BY <3>1 DEF TypeOK
      <3> QED BY <3>1, <3>2 DEF Waits
    <2>3. CASE lock_opened(c)
      BY <2>3 DEF lock_opened, chainVars, Waits, TypeOK
    <2>4. CASE enter_is_deadlock(c)
      BY <2>4 DEF enter_is_deadlock, Goto, Waits, TypeOK
    <2>5. CASE RegisterRequest(c)
      BY <2>5 DEF RegisterRequest, Goto, chainVars, Waits, TypeOK
    <2> QED BY <1>2, <2>1, <2>2, <2>3, <2>4, <2>5
  <1>3. ASSUME NEW c \in Clients, EndOrWait(c)
        PROVE  Waits'
    <2>1. CASE waits_for[c] = "waiting"
      BY <1>3, <2>1 DEF EndOrWait, Goto, chainVars, Waits, TypeOK
    <2>2. CASE waits_for[c] # "waiting"
      <3>1. /\ \A d \in Clients : d # c => /\ pc'[d] = pc[d] /\ want'[d] = want[d]
                                           /\ waits_for'[d] = waits_for[d]
            /\ pc'[c] = "run" /\ waits_for'[c] = "none" /\ verdict' = verdict
        BY <1>3, <2>2 DEF EndOrWait, Goto, chainVars, TypeOK
      <3> QED BY <3>1 DEF Waits
    <2> QED BY <2>1, <2>2
  <1>4. ASSUME NEW c \in Clients, LeaveChain(c), pc[c] \in {"chain", "verdict"},
               UNCHANGED want,
               \/ UNCHANGED waits_for
               \/ \E a \in Clients, w \in Outcomes :
                     /\ w # "locked" \/ waits_for[a] = "waiting"
                     /\ waits_for' = [waits_for EXCEPT ![a] = w]
        PROVE  Waits'
    <2>1. \A d \in Clients : waits_for'[d] \in {"waiting", "locked"} =>
                                 waits_for[d] \in {"waiting", "locked"}
      BY <1>4 DEF TypeOK, Outcomes
    <2>2. pc' = [pc EXCEPT ![c] = "check"]
      BY <1>4 DEF LeaveChain, Goto
    <2>3. \A d \in Clients : pc'[d] \notin {"trace", "verdict"}
      BY <1>4, <2>2 DEF Walk, TypeOK
    <2> QED BY <1>4, <2>1, <2>2, <2>3 DEF Waits, TypeOK
  <1>5. ASSUME NEW c \in Clients, is_deadlock(c)
        PROVE  Waits'
    <2>1. pc[c] = "chain" /\ acdp \in Clients /\ UNCHANGED want
      BY <1>5 DEF is_deadlock, Walk
    <2>2. CASE LeaveChain(c) /\ UNCHANGED waits_for
      BY <1>4, <2>1, <2>2
    <2>3. ASSUME NEW w \in {"locked", "memory", "cancelled"}, waits_for[acdp] = "waiting",
                 TellAndLeave(c, acdp, w)
          PROVE  Waits'
      <3>1. w \in Outcomes
        BY DEF Outcomes
      <3> QED BY <1>4, <2>1, <2>3, <3>1 DEF TellAndLeave
    <2>4. ASSUME NEW e \in Clients, NEW w \in {"timeout", "deadlock"}, TraceFirst(c, e, w)
          PROVE  Waits'
      BY <2>1, <2>4 DEF TraceFirst, Goto, Waits, TypeOK
    <2>5. ASSUME NEW e \in Clients, FollowTo(e)
          PROVE  Waits'
      BY <2>1, <2>5 DEF FollowTo, Waits
    <2> QED BY <1>5, <2>1, <2>2, <2>3, <2>4, <2>5 DEF is_deadlock
  <1>6. ASSUME NEW c \in Clients, trace_lock_chain(c)
        PROVE  Waits'
    <2>1. /\ UNCHANGED <<waits_for, want, verdict>> /\ pc[c] = "trace"
          /\ UNCHANGED pc \/ pc' = [pc EXCEPT ![c] = "verdict"]
      BY <1>6 DEF trace_lock_chain, Goto
    <2> QED BY <2>1 DEF Waits, TypeOK
  <1>7. ASSUME NEW c \in Clients, GiveVerdict(c)
        PROVE  Waits'
    <2>1. verdict.who \in Clients /\ verdict.what \in Outcomes /\ verdict.what # "locked"
      BY <1>7 DEF GiveVerdict, Walk, Waits, Outcomes
    <2> QED BY <1>4, <1>7, <2>1 DEF GiveVerdict, TellAndLeave
  <1>8. CASE UNCHANGED vars
    BY <1>8 DEF vars, Waits
  <1> QED BY <1>1, <1>2, <1>3, <1>5, <1>6, <1>7, <1>8 DEF Next, WaitStep

\* A grant takes no lock away, and the client has what it asked for, by the new
\* lock or by a stronger one of its own on the record or on the table.
LEMMA GrantedIsThere ==
  ASSUME TypeOK, NEW c \in Clients, NEW o \in Objects, NEW t \in LockTypes,
         Granted(c, o, t)
  PROVE  /\ \A d \in Clients, p \in Objects, s \in LockTypes :
               Has(d, p, s) => Has(d, p, s)'
         /\ \E p \in {o, FULLTABLE} :
               Has(c, p, t)' \/ (t = "TMPWLOCK" /\ Has(c, p, "WLOCK")')
  <1>1. CASE "held" \in try_locking(c, o, t) /\ UNCHANGED locks
    <2>1. "held" \notin Clients /\ "held" # "add"
      BY LockConstants
    <2>2. \A p : "held" \notin Blockers(c, p, t)
      BY <2>1 DEF Blockers
    <2>3. "held" \notin AllRecordsPass(c, t)
      BY <2>2 DEF AllRecordsPass
    <2>4. "held" \in FullTablePass(c, t) => Contained(c, FULLTABLE, t)
      BY <2>2 DEF FullTablePass
    <2>5. "held" \in RecordPass(c, o, t) => Contained(c, o, t)
      BY <2>1, <2>2 DEF RecordPass
    <2>6. Contained(c, FULLTABLE, t) \/ Contained(c, o, t)
      BY <1>1, <2>1, <2>3, <2>4, <2>5 DEF try_locking
    <2> QED BY <1>1, <2>6 DEF Contained, Has
  <1>2. CASE locks' = [locks EXCEPT ![c][o][t] = @ + 1]
    <2>1. /\ \A d \in Clients, p \in Objects, s \in LockTypes :
               locks'[d][p][s] = IF d = c /\ p = o /\ s = t THEN locks[c][o][t] + 1
                                 ELSE locks[d][p][s]
          /\ locks[c][o][t] \in Nat
      BY <1>2 DEF TypeOK
    <2> QED BY <2>1 DEF Has
  <1> QED BY <1>1, <1>2 DEF Granted

\* A running client changes locks of its own, or it removes locks of others.
LEMMA RequestChangesOwn ==
  ASSUME TypeOK, NEW c \in Clients, Request(c), NEW d \in Clients, d # c
  PROVE  locks'[d] = locks[d] \/ (AdminUnlocks /\ Shrunk)
  <1>1. ASSUME NEW o \in UsedObjects, NEW t \in UsedTypes, wait_record_lock_error(c, o, t)
        PROVE  locks'[d] = locks[d]
    <2>1. UNCHANGED locks \/ locks' = [locks EXCEPT ![c][o][t] = @ + 1]
      BY <1>1 DEF wait_record_lock_error, Granted, BlockedBy, lockVars
    <2> QED BY <2>1 DEF TypeOK
  <1>2. ASSUME NEW o \in UsedObjects, NEW t \in UsedTypes \cup {"ANY_LOCK"},
               record_unlock(c, o, t)
        PROVE  locks'[d] = locks[d]
    <2>1. \/ UNCHANGED locks
          \/ locks' = [locks EXCEPT ![c][o]["WLOCK"] = @ - 1, ![c][o]["TMPWLOCK"] = @ + 1]
          \/ \E s : locks' = [locks EXCEPT ![c][o][s] = @ - 1]
      BY <1>2 DEF record_unlock, Remove, NotFound, lockVars
    <2> QED BY <2>1 DEF TypeOK
  <1>3. ASSUME NEW objs, NEW types, RemoveAll(c, c, objs, types)
        PROVE  locks'[d] = locks[d]
    BY <1>3 DEF RemoveAll, TypeOK
  <1>4. ASSUME NEW u \in Clients, NEW o \in UsedObjects,
               NEW t \in UsedTypes \cup {"ANY_LOCK"}, remove_the_lock(c, u, o, t)
        PROVE  AdminUnlocks /\ Shrunk
    <2> DEFINE types == IF t = "ANY_LOCK" THEN LockTypes ELSE {t}
    <2>1. {o} \in SUBSET Objects /\ types \in SUBSET LockTypes
      BY LockConstants
    <2>2. AdminUnlocks /\ RemoveAll(c, u, {o}, types) /\ UNCHANGED logged
      BY <1>4 DEF remove_the_lock
    <2> HIDE DEF types
    <2> QED BY <2>1, <2>2, RemoveAllShrinks
  <1> QED BY <1>1, <1>2, <1>3, <1>4
          DEF Request, request_init, remove_my_tmplocks, unlock_user, remove_user_rlocks,
              lockVars

\* The locks of a client stay as long as it does not run.
LEMMA LocksOfWaitingKept ==
  ASSUME TypeOK, Walk, ~AdminUnlocks, [Next]_vars, NEW d \in Clients, pc[d] # "run"
  PROVE  \A o \in Objects, t \in LockTypes : Has(d, o, t) => Has(d, o, t)'
  <1>1. ASSUME NEW c \in Clients, Request(c)
        PROVE  locks'[d] = locks[d]
    <2>1. pc[c] = "run"
      BY <1>1, RequestHasShape DEF RequestShape
    <2> QED BY <1>1, <2>1, RequestChangesOwn
  <1>2. ASSUME NEW c \in Clients, is_deadlock(c) \/ trace_lock_chain(c)
        PROVE  \A o \in Objects, t \in LockTypes : Has(d, o, t) => Has(d, o, t)'
    <2>1. acdp \in Clients
      BY <1>2 DEF Walk, is_deadlock, trace_lock_chain
    <2>2. want[acdp].obj \in Objects /\ want[acdp].type \in LockTypes
      BY <2>1 DEF TypeOK
    <2>3. \/ Granted(acdp, want[acdp].obj, want[acdp].type)
          \/ UNCHANGED locks
      BY <1>2 DEF is_deadlock, trace_lock_chain, NoMemory, BlockedBy, lockVars
    <2> QED BY <2>1, <2>2, <2>3, GrantedIsThere DEF Has
  <1>3. ASSUME NEW c \in Clients,
               SetBreak(c) \/ Expire(c) \/ enter_is_deadlock(c) \/ lock_opened(c)
               \/ RegisterRequest(c) \/ GiveVerdict(c) \/ EndOrWait(c)
               \/ wait_for_lock_opened(c) \/ SleepTimeout(c)
        PROVE  UNCHANGED locks
    BY <1>3 DEF SetBreak, Expire, enter_is_deadlock, lock_opened, RegisterRequest,
                GiveVerdict, EndOrWait, wait_for_lock_opened, SleepTimeout, lockVars
  <1>4. CASE UNCHANGED vars
    BY <1>4 DEF vars, Has
  <1> QED BY <1>1, <1>2, <1>3, <1>4 DEF Next, WaitStep, Has

\* The invariant behind both results about waiting clients.
WaitsInv == LocksInv /\ Waits

\* Requests, chains and verdicts stay consistent in every state.
LEMMA WaitsInvariance == Spec => []WaitsInv
  <1>1. Init => Waits
    BY DEF Init, Waits
  <1>2. LocksInv /\ Waits /\ [Next]_vars => Waits'
    BY WaitsKept DEF LocksInv
  <1> QED BY <1>1, <1>2, LocksInvariance, PTL DEF Spec, WaitsInv

\* A step that leaves the client locked tells it so, or it was told before.
LEMMA LockedIsNew ==
  ASSUME TypeOK, Walk, Waits, [Next]_vars, NEW d \in Clients, waits_for'[d] = "locked"
  PROVE  \/ waits_for[d] = "locked" /\ want'[d] = want[d] /\ pc[d] # "run"
         \/ Granted(d, want[d].obj, want[d].type) /\ want'[d] = want[d]
  <1>1. ASSUME NEW c \in Clients, Request(c)
        PROVE  waits_for[d] = "locked" /\ want'[d] = want[d] /\ pc[d] # "run"
    <2>1. waits_for[d] = "locked" /\ pc[d] # "run" /\ pc[c] = "run"
      BY <1>1, RequestHasShape DEF RequestShape, Waits
    <2>2. want'[d] = want[d]
      BY <1>1, <2>1, RequestHasShape DEF RequestShape, TypeOK
    <2> QED BY <2>1, <2>2
  <1>2. ASSUME NEW c \in Clients,
               SetBreak(c) \/ Expire(c) \/ enter_is_deadlock(c) \/ lock_opened(c)
               \/ wait_for_lock_opened(c) \/ SleepTimeout(c) \/ trace_lock_chain(c)
        PROVE  waits_for'[d] = waits_for[d] /\ want'[d] = want[d]
    BY <1>2 DEF SetBreak, Expire, enter_is_deadlock, lock_opened,
                wait_for_lock_opened, SleepTimeout, trace_lock_chain
  <1>3. ASSUME NEW c \in Clients, RegisterRequest(c) \/ EndOrWait(c)
        PROVE  waits_for'[d] = waits_for[d] /\ want'[d] = want[d]
    BY <1>3 DEF RegisterRequest, EndOrWait, TypeOK
  <1>4. ASSUME NEW c \in Clients, GiveVerdict(c)
        PROVE  waits_for'[d] = waits_for[d] /\ want'[d] = want[d]
    <2>1. verdict.what # "locked"
      BY <1>4 DEF GiveVerdict, Waits
    <2> QED BY <1>4, <2>1 DEF GiveVerdict, TellAndLeave, TypeOK
  <1>5. ASSUME NEW c \in Clients, is_deadlock(c), waits_for[d] # "locked"
        PROVE  Granted(d, want[d].obj, want[d].type) /\ want'[d] = want[d]
    <2>1. /\ want' = want
          /\ \/ UNCHANGED waits_for
             \/ waits_for' = [waits_for EXCEPT ![acdp] = "memory"]
             \/ waits_for' = [waits_for EXCEPT ![acdp] = "cancelled"]
             \/ /\ waits_for' = [waits_for EXCEPT ![acdp] = "locked"]
                /\ Granted(acdp, want[acdp].obj, want[acdp].type)
      BY <1>5 DEF is_deadlock, TellAndLeave, TraceFirst, FollowTo
    <2> QED BY <1>5, <2>1 DEF TypeOK
  <1>6. ASSUME NEW c \in Clients, is_deadlock(c)
        PROVE  want' = want
    BY <1>6 DEF is_deadlock
  <1>7. CASE UNCHANGED vars
    BY <1>7 DEF vars, Waits
  <1>8. waits_for[d] = "locked" => pc[d] # "run"
    BY DEF Waits
  <1> QED BY <1>1, <1>2, <1>3, <1>4, <1>5, <1>6, <1>7, <1>8 DEF Next, WaitStep

\* The client has the lock it asked for, or the one that makes it unnecessary.
HasWanted(c) ==
    \E o \in {want[c].obj, FULLTABLE} :
        Has(c, o, want[c].type) \/ (want[c].type = "TMPWLOCK" /\ Has(c, o, "WLOCK"))

\* Every step keeps the promise made to a client.
LEMMA GrantedStaysHeld ==
  ASSUME LocksInv, Waits, ~AdminUnlocks, GrantedIsHeld, [Next]_vars
  PROVE  GrantedIsHeld'
  <1> USE DEF LocksInv
  <1> SUFFICES ASSUME NEW d \in Clients, waits_for'[d] = "locked"
               PROVE  HasWanted(d)'
    BY DEF GrantedIsHeld, HasWanted
  <1>1. want[d].obj \in Objects /\ FULLTABLE \in Objects /\ want[d].type \in LockTypes
        /\ "WLOCK" \in LockTypes
    BY DEF TypeOK, Objects, LockTypes
  <1>2. CASE waits_for[d] = "locked" /\ want'[d] = want[d] /\ pc[d] # "run"
    <2>1. PICK o \in {want[d].obj, FULLTABLE} :
             Has(d, o, want[d].type) \/ (want[d].type = "TMPWLOCK" /\ Has(d, o, "WLOCK"))
      BY <1>2 DEF GrantedIsHeld
    <2> QED BY <1>1, <1>2, <2>1, LocksOfWaitingKept DEF HasWanted, Has
  <1>3. CASE Granted(d, want[d].obj, want[d].type) /\ want'[d] = want[d]
    BY <1>1, <1>3, GrantedIsThere DEF HasWanted, Has
  <1> QED BY <1>2, <1>3, LockedIsNew

(***************************************************************************)
(* A client that is told its request was granted, by its own walk or by    *)
(* that of another thread, still has the lock when it wakes up and returns *)
(* from wait_record_lock_error; it may be the lock it asked for or the     *)
(* stronger one that made try_locking return "held".  Only the removal of  *)
(* locks by another client (remove_the_lock) could take it away.           *)
(***************************************************************************)
THEOREM GrantedLockIsHeld ==
  ASSUME ~AdminUnlocks
  PROVE  Spec => []GrantedIsHeld
  <1>1. Init => GrantedIsHeld
    BY DEF Init, GrantedIsHeld
  <1>2. WaitsInv /\ GrantedIsHeld /\ [Next]_vars => GrantedIsHeld'
    BY GrantedStaysHeld DEF WaitsInv
  <1> QED BY <1>1, <1>2, WaitsInvariance, PTL DEF Spec

-----------------------------------------------------------------------------
(***************************************************************************)
(* Deadlocks over exclusive locks.                                         *)
(***************************************************************************)
Exclusive == UsedTypes \subseteq {"WLOCK", "TMPWLOCK"} /\ FULLTABLE \notin UsedObjects

Holds(c, o) == \E t \in LockTypes : Has(c, o, t)

\* Only what the clients ask for is in the table; WLOCK may have been converted.
HeldUsed ==
    \A c \in Clients, o \in Objects, t \in LockTypes :
        Has(c, o, t) => /\ o \in UsedObjects
                        /\ t \in UsedTypes \/ (t = "TMPWLOCK" /\ "WLOCK" \in UsedTypes)

\* Everyone in S has a registered request for an object that another one holds.
Cyclic(S) ==
    \A c \in S : waits_for[c] = "waiting" /\ \E e \in S \ {c} : Holds(e, want[c].obj)

\* One of S will walk the chain, walks it and has not left S, or will tell a
\* member of S the outcome.
Watched(S) ==
    \/ \E c \in S : pc[c] = "detect"
    \/ \E c \in S : pc[c] = "chain" /\ acdp \in S
    \/ \E c \in S : pc[c] \in {"trace", "verdict"} /\ verdict.who \in S

CyclesWatched == \A S \in SUBSET Clients : S # {} /\ Cyclic(S) => Watched(S)

\* Steps that change no locks.
LEMMA LocksUnchanged ==
  ASSUME NEW c,
         \/ SetBreak(c) \/ Expire(c) \/ enter_is_deadlock(c) \/ lock_opened(c)
         \/ RegisterRequest(c) \/ GiveVerdict(c) \/ EndOrWait(c)
         \/ wait_for_lock_opened(c) \/ SleepTimeout(c)
  PROVE  UNCHANGED locks
  BY DEF SetBreak, Expire, enter_is_deadlock, lock_opened, RegisterRequest,
         GiveVerdict, EndOrWait, wait_for_lock_opened, SleepTimeout, lockVars

\* A walk grants at most the registered request of the client it is at.
LEMMA WalkGrants ==
  ASSUME TypeOK, Walk, Waits, NEW c \in Clients, is_deadlock(c) \/ trace_lock_chain(c)
  PROVE  \/ UNCHANGED locks
         \/ /\ acdp \in Clients /\ waits_for[acdp] = "waiting"
            /\ want[acdp].obj \in UsedObjects /\ want[acdp].type \in UsedTypes
            /\ Granted(acdp, want[acdp].obj, want[acdp].type)
  <1>1. acdp \in Clients
    BY DEF Walk, is_deadlock, trace_lock_chain
  <1>2. waits_for[acdp] = "waiting" =>
            want[acdp].obj \in UsedObjects /\ want[acdp].type \in UsedTypes
    BY <1>1 DEF Waits
  <1>3. \/ UNCHANGED locks
        \/ /\ waits_for[acdp] = "waiting"
           /\ Granted(acdp, want[acdp].obj, want[acdp].type)
    BY DEF is_deadlock, trace_lock_chain, NoMemory, BlockedBy, lockVars
  <1> QED BY <1>1, <1>2, <1>3

\* The locks in the table are always of the kinds the clients ask for.
LEMMA HeldUsedKept ==
  ASSUME TypeOK, Walk, Waits, HeldUsed, [Next]_vars
  PROVE  HeldUsed'
  <1>1. ASSUME RequestChange
        PROVE  HeldUsed'
    <2> SUFFICES ASSUME NEW d \in Clients, NEW p \in Objects, NEW s \in LockTypes,
                        Has(d, p, s)'
                 PROVE  /\ p \in UsedObjects
                        /\ s \in UsedTypes \/ (s = "TMPWLOCK" /\ "WLOCK" \in UsedTypes)
      BY DEF HeldUsed
    <2>1. "WLOCK" \in LockTypes /\ UsedObjects \subseteq Objects /\ UsedTypes \subseteq LockTypes
      BY LockConstants DEF LockTypes
    <2>2. CASE Has(d, p, s) \/ (s = "TMPWLOCK" /\ Has(d, p, "WLOCK"))
      BY <2>1, <2>2 DEF HeldUsed
    <2>3. CASE UNCHANGED lockVars \/ Shrunk
      BY <2>2, <2>3 DEF lockVars, Shrunk, Has
    <2>4. ASSUME NEW c \in Clients, NEW o \in UsedObjects, NEW t \in UsedTypes,
                 Granted(c, o, t)
          PROVE  Has(d, p, s) \/ (p = o /\ s = t)
      BY <2>1, <2>4, GrantedEntries DEF Has
    <2>5. ASSUME NEW c \in Clients, NEW o \in Objects,
                 NEW t \in LockTypes \cup {"ANY_LOCK"}, NEW r \in LockTypes,
                 Remove(c, o, t, r)
          PROVE  Has(d, p, s) \/ (s = "TMPWLOCK" /\ Has(d, p, "WLOCK"))
      <3>1. /\ locks'[d][p][s] <= locks[d][p][s] \/ (s = "TMPWLOCK" /\ Has(d, p, "WLOCK"))
            /\ locks'[d][p][s] \in Nat
        BY <2>5, RemoveEntries
      <3>2. locks[d][p][s] \in Nat
        BY DEF TypeOK
      <3> QED BY <3>1, <3>2 DEF Has
    <2> QED BY <1>1, <2>2, <2>3, <2>4, <2>5 DEF RequestChange
  <1>2. ASSUME UNCHANGED locks
        PROVE  HeldUsed'
    BY <1>2 DEF HeldUsed, Has
  <1>3. ASSUME NEW c \in Clients, is_deadlock(c) \/ trace_lock_chain(c)
        PROVE  HeldUsed'
    BY <1>1, <1>2, <1>3, WalkGrants DEF RequestChange
  <1>4. CASE UNCHANGED vars
    BY <1>2, <1>4 DEF vars
  <1> QED BY <1>1, <1>2, <1>3, <1>4, RequestChangesLocks, LocksUnchanged DEF Next, WaitStep

\* A waiting client comes to hold another object only if a walk adds its lock.
LEMMA HoldersChange ==
  ASSUME TypeOK, Walk, Waits, [Next]_vars,
         NEW d \in Clients, pc[d] # "run", NEW p \in Objects, Holds(d, p)'
  PROVE  \/ Holds(d, p)
         \/ /\ d = acdp /\ p = want[d].obj /\ p \in UsedObjects
            /\ want[d].type \in UsedTypes
            /\ "add" \in try_locking(d, p, want[d].type)
  <1>1. ASSUME NEW c \in Clients, Request(c)
        PROVE  Holds(d, p)
    <2>1. d # c
      BY <1>1, RequestHasShape DEF RequestShape
    <2>2. \A s \in LockTypes : Has(d, p, s)' => Has(d, p, s)
      <3>1. CASE locks'[d] = locks[d]
        BY <3>1 DEF Has
      <3>2. CASE Shrunk
        BY <3>2 DEF Shrunk, Has
      <3> QED BY <1>1, <2>1, <3>1, <3>2, RequestChangesOwn
    <2> QED BY <2>2 DEF Holds
  <1>2. ASSUME UNCHANGED locks
        PROVE  Holds(d, p)
    BY <1>2 DEF Holds, Has
  <1>3. ASSUME NEW c \in Clients, is_deadlock(c) \/ trace_lock_chain(c), ~Holds(d, p)
        PROVE  /\ d = acdp /\ p = want[d].obj /\ p \in UsedObjects
               /\ want[d].type \in UsedTypes
               /\ "add" \in try_locking(d, p, want[d].type)
    <2>1. /\ acdp \in Clients
          /\ want[acdp].obj \in UsedObjects /\ want[acdp].type \in UsedTypes
          /\ Granted(acdp, want[acdp].obj, want[acdp].type)
      BY <1>2, <1>3, WalkGrants
    <2>2. want[acdp].obj \in Objects /\ want[acdp].type \in LockTypes
      BY <2>1 DEF TypeOK
    <2>3. PICK s \in LockTypes : Has(d, p, s)'
      BY DEF Holds
    <2>4. ~Has(d, p, s)
      BY <1>3 DEF Holds
    <2>5. locks'[d][p][s] # locks[d][p][s]
      BY <2>3, <2>4 DEF Has
    <2> QED BY <2>1, <2>2, <2>5, GrantedEntries
  <1>4. CASE UNCHANGED vars
    BY <1>2, <1>4 DEF vars
  <1> QED BY <1>1, <1>2, <1>3, <1>4, LocksUnchanged DEF Next, WaitStep

\* An exclusive lock that is added has nobody in its way.
LEMMA ExclusiveAdd ==
  ASSUME Exclusive, NEW c \in Clients, NEW o \in UsedObjects, NEW t \in UsedTypes,
         "add" \in try_locking(c, o, t), NEW e \in Clients, e # c
  PROVE  ~Holds(e, o)
  <1>1. o \in Objects /\ t \in LockTypes /\ o # FULLTABLE
    BY LockConstants DEF Exclusive
  <1>2. Blockers(c, o, t) = {}
    BY <1>1, AddMeansFree
  <1>3. \A s \in LockTypes : ~BothRead(s, t)
    BY <1>1 DEF Exclusive, BothRead
  <1> QED BY <1>2, <1>3 DEF Blockers, Holds

\* Another client that holds the object is the only possible result.
LEMMA ExclusiveBlocked ==
  ASSUME Exclusive, TypeOK, HeldUsed, NoConflictingLocks,
         NEW c \in Clients, NEW o \in UsedObjects, NEW t \in UsedTypes,
         NEW e \in Clients, e # c, Holds(e, o)
  PROVE  try_locking(c, o, t) = {e}
  <1>1. o \in Objects /\ t \in LockTypes /\ o # FULLTABLE /\ FULLTABLE \in Objects
        /\ t \in {"WLOCK", "TMPWLOCK"} /\ c \notin {"held"} /\ e # "held"
        /\ {"RLOCK", "WLOCK", "TMPRLOCK", "TMPWLOCK"} = LockTypes
    BY LockConstants DEF Exclusive, Objects, LockTypes
  <1>2. \A d \in Clients, s \in LockTypes : ~Has(d, FULLTABLE, s)
    BY <1>1 DEF HeldUsed, Exclusive
  <1>3. FullTablePass(c, t) = {}
    BY <1>1, <1>2 DEF FullTablePass, Blockers, Contained
  <1>4. \A d \in Clients, s \in LockTypes : Has(d, o, s) => s \in {"WLOCK", "TMPWLOCK"}
    BY <1>1 DEF HeldUsed, Exclusive
  <1>5. \A d \in Clients, s \in LockTypes : d # e => ~Has(d, o, s)
    <2> SUFFICES ASSUME NEW d \in Clients, NEW s \in LockTypes, d # e, Has(d, o, s)
                 PROVE  FALSE
      OBVIOUS
    <2>1. PICK u \in LockTypes : Has(e, o, u)
      BY DEF Holds
    <2>2. Overlap(o, o)
      BY DEF Overlap
    <2>3. BothRead(s, u)
      BY <1>1, <2>1, <2>2 DEF NoConflictingLocks
    <2> QED BY <1>4, <2>1, <2>3 DEF BothRead
  <1>6. Blockers(c, o, t) = {e}
    <2>1. \A s \in LockTypes : ~BothRead(s, t)
      BY <1>1 DEF BothRead
    <2> QED BY <1>5, <2>1 DEF Blockers, Holds
  <1>7. RecordPass(c, o, t) = {e}
    <2>1. ~SelfConflict(c, o, t) /\ ~Contained(c, o, t)
      BY <1>1, <1>5 DEF SelfConflict, Contained
    <2> QED BY <1>6, <2>1 DEF RecordPass
  <1> QED BY <1>1, <1>3, <1>7 DEF try_locking

\* A set of sleeping clients that block each other is a cycle of holders.
LEMMA SleepingIsCyclic ==
  ASSUME Exclusive, TypeOK, HeldUsed, Waits,
         NEW S \in SUBSET Clients, SleepingCycle(S)
  PROVE  Cyclic(S)
  <1> SUFFICES ASSUME NEW c \in S
               PROVE  waits_for[c] = "waiting" /\ \E e \in S \ {c} : Holds(e, want[c].obj)
    BY DEF Cyclic
  <1> DEFINE o == want[c].obj
             t == want[c].type
  <1>1. c \in Clients /\ waits_for[c] = "waiting" /\ try_locking(c, o, t) \subseteq S
    BY DEF SleepingCycle
  <1>2. o \in UsedObjects /\ t \in UsedTypes
    BY <1>1 DEF Waits
  <1> HIDE DEF o, t
  <1>3. o \in Objects /\ o # FULLTABLE /\ FULLTABLE \in Objects
        /\ {"RLOCK", "WLOCK", "TMPRLOCK", "TMPWLOCK"} = LockTypes
    BY <1>2, LockConstants DEF Exclusive, Objects, LockTypes
  <1>4. "held" \notin S /\ "add" \notin S
    BY LockConstants
  <1>5. \A d \in Clients, s \in LockTypes : ~Has(d, FULLTABLE, s)
    BY <1>3 DEF HeldUsed, Exclusive
  <1>6. FullTablePass(c, t) = {}
    BY <1>1, <1>3, <1>5 DEF FullTablePass, Blockers, Contained
  <1>7. RecordPass(c, o, t) # {} /\ RecordPass(c, o, t) \subseteq S
    BY <1>1, <1>3, <1>4, <1>6 DEF try_locking
  <1>8. PICK e \in S : e \in RecordPass(c, o, t)
    BY <1>7
  <1>9. ~SelfConflict(c, o, t)
    BY <1>1, <1>2, <1>3 DEF SelfConflict, HeldUsed, Exclusive
  <1>10. e \in Blockers(c, o, t)
    BY <1>4, <1>8, <1>9 DEF RecordPass
  <1>11. e \in S \ {c} /\ Holds(e, o)
    BY <1>8, <1>10 DEF Blockers, Holds
  <1> QED BY <1>1, <1>11 DEF o

\* A set that is a cycle after a step was one before it, unless the step has just
\* registered the request of a member.
LEMMA CyclesAreOld ==
  ASSUME Exclusive, TypeOK, Walk, Waits, HeldUsed, NoConflictingLocks, [Next]_vars,
         NEW S \in SUBSET Clients, Cyclic(S)',
         \A c \in S : ~RegisterRequest(c)
  PROVE  Cyclic(S)
  <1>1. ASSUME NEW c \in S
        PROVE  waits_for[c] = "waiting" /\ want'[c] = want[c]
    <2>0. c \in Clients /\ waits_for'[c] = "waiting"
      BY <1>1 DEF Cyclic
    <2>1. ASSUME NEW d \in Clients, Request(d)
          PROVE  waits_for[c] = "waiting" /\ want'[c] = want[c]
      <3>1. waits_for[c] = "waiting" /\ pc[d] = "run" /\ pc[c] # "run"
        BY <2>0, <2>1, RequestHasShape DEF RequestShape, Waits
      <3>2. want'[c] = want[c]
        BY <2>0, <2>1, <3>1, RequestHasShape DEF RequestShape, TypeOK
      <3> QED BY <3>1, <3>2
    <2>2. ASSUME NEW d \in Clients,
                 SetBreak(d) \/ Expire(d) \/ enter_is_deadlock(d) \/ lock_opened(d)
                 \/ wait_for_lock_opened(d) \/ SleepTimeout(d) \/ trace_lock_chain(d)
          PROVE  UNCHANGED <<waits_for, want>>
      BY <2>2 DEF SetBreak, Expire, enter_is_deadlock, lock_opened,
                  wait_for_lock_opened, SleepTimeout, trace_lock_chain
    <2>3. ASSUME NEW d \in Clients, RegisterRequest(d)
          PROVE  waits_for[c] = "waiting" /\ want'[c] = want[c]
      BY <2>0, <2>3 DEF RegisterRequest, TypeOK
    <2>4. ASSUME NEW d \in Clients, EndOrWait(d)
          PROVE  waits_for[c] = "waiting" /\ want'[c] = want[c]
      BY <2>0, <2>4 DEF EndOrWait, TypeOK
    <2>5. ASSUME NEW d \in Clients, GiveVerdict(d)
          PROVE  waits_for[c] = "waiting" /\ want'[c] = want[c]
      <3>1. verdict.what # "waiting"
        BY <2>5 DEF GiveVerdict, Waits
      <3> QED BY <2>0, <2>5, <3>1 DEF GiveVerdict, TellAndLeave, TypeOK
    <2>6. ASSUME NEW d \in Clients, is_deadlock(d)
          PROVE  waits_for[c] = "waiting" /\ want'[c] = want[c]
      <3>1. /\ want' = want
            /\ \/ UNCHANGED waits_for
               \/ \E w \in {"locked", "memory", "cancelled"} :
                     waits_for' = [waits_for EXCEPT ![acdp] = w]
        BY <2>6 DEF is_deadlock, TellAndLeave, TraceFirst, FollowTo
      <3> QED BY <2>0, <3>1 DEF TypeOK
    <2>7. CASE UNCHANGED vars
      BY <2>0, <2>7 DEF vars
    <2> QED BY <2>0, <2>1, <2>2, <2>3, <2>4, <2>5, <2>6, <2>7 DEF Next, WaitStep
  <1>2. \A c \in S : want[c].obj \in Objects /\ pc[c] # "run"
    BY <1>1 DEF TypeOK, Waits
  <1>3. \A c \in S, p \in Objects :
            p = want[c].obj => \E e \in S \ {c} : Holds(e, p)'
    BY <1>1 DEF Cyclic, Holds, Has
  <1>4. ASSUME NEW c \in S
        PROVE  \E e \in S \ {c} : Holds(e, want[c].obj)
    <2>0. PICK p \in Objects : p = want[c].obj
      BY <1>2
    <2>1. PICK e \in S \ {c} : Holds(e, p)'
      BY <1>3, <2>0
    <2>2. CASE Holds(e, p)
      BY <2>0, <2>2
    <2>3. CASE ~Holds(e, p)
      <3>1. /\ e = acdp /\ p = want[e].obj /\ p \in UsedObjects
            /\ want[e].type \in UsedTypes
            /\ "add" \in try_locking(e, p, want[e].type)
        BY <1>2, <2>1, <2>3, HoldersChange
      <3>2. PICK f \in S \ {e} : Holds(f, p)'
        BY <1>3, <3>1
      <3>3. Holds(f, p)
        BY <1>2, <3>1, <3>2, HoldersChange
      <3> QED BY <3>1, <3>2, <3>3, ExclusiveAdd
    <2> QED BY <2>2, <2>3
  <1> QED BY <1>1, <1>4 DEF Cyclic

\* A walk that is inside a cycle ends by telling a member of it the outcome.
LEMMA WatchKept ==
  ASSUME Exclusive, TypeOK, Walk, Waits, HeldUsed, NoConflictingLocks, [Next]_vars,
         NEW S \in SUBSET Clients, Cyclic(S), Cyclic(S)', Watched(S)
  PROVE  Watched(S)'
  <1>1. ASSUME UNCHANGED <<acdp, verdict>>,
               \A d \in S : pc[d] \in {"detect", "chain", "trace", "verdict"} => pc'[d] = pc[d]
        PROVE  Watched(S)'
    BY <1>1 DEF Watched
  <1>2. ASSUME NEW c \in Clients, Request(c)
        PROVE  Watched(S)'
    BY <1>1, <1>2, RequestHasShape DEF RequestShape, chainVars, TypeOK
  <1>3. ASSUME NEW c \in Clients,
               SetBreak(c) \/ Expire(c) \/ lock_opened(c) \/ RegisterRequest(c)
               \/ EndOrWait(c) \/ wait_for_lock_opened(c) \/ SleepTimeout(c)
        PROVE  Watched(S)'
    <2>1. UNCHANGED <<acdp, verdict>>
      BY <1>3 DEF SetBreak, Expire, lock_opened, RegisterRequest, EndOrWait,
                  wait_for_lock_opened, SleepTimeout, chainVars
    <2>2. \/ UNCHANGED pc
          \/ lock_opened(c)
          \/ /\ pc[c] \in {"register", "check", "towait", "asleep"}
             /\ \E l : pc' = [pc EXCEPT ![c] = l]
      BY <1>3 DEF SetBreak, Expire, RegisterRequest, EndOrWait,
                  wait_for_lock_opened, SleepTimeout, Goto
    <2>3. \A d \in S : pc[d] \in {"detect", "chain", "trace", "verdict"} => pc'[d] = pc[d]
      BY <2>2 DEF lock_opened, TypeOK
    <2> QED BY <1>1, <2>1, <2>3
  <1>4. ASSUME NEW c \in Clients, enter_is_deadlock(c)
        PROVE  Watched(S)'
    <2>1. PICK d \in S : pc[d] = "detect"
      BY <1>4, LockConstants DEF enter_is_deadlock, Walk, Watched
    <2>2. acdp' = c /\ pc' = [pc EXCEPT ![c] = "chain"]
      BY <1>4 DEF enter_is_deadlock, Goto
    <2> QED BY <2>1, <2>2 DEF Watched, TypeOK
  <1>5. ASSUME NEW c \in Clients, pc[c] \in {"chain", "trace", "verdict"},
               \A d \in Clients : d # c => pc'[d] = pc[d],
               ~\/ c \in S /\ pc[c] = "chain" /\ acdp \in S
                \/ c \in S /\ pc[c] # "chain" /\ verdict.who \in S
        PROVE  Watched(S)'
    <2>1. \A d \in Clients : pc[d] \in {"chain", "trace", "verdict"} => d = c
      BY <1>5 DEF Walk
    <2>2. PICK d \in S : pc[d] = "detect"
      BY <1>5, <2>1 DEF Watched
    <2> QED BY <1>5, <2>2 DEF Watched
  <1>6. ASSUME NEW c \in Clients, is_deadlock(c)
        PROVE  Watched(S)'
    <2>1. pc[c] = "chain" /\ acdp \in Clients
      BY <1>6 DEF is_deadlock, Walk
    <2>2. \A d \in Clients : d # c => pc'[d] = pc[d]
      BY <1>6 DEF is_deadlock, LeaveChain, TellAndLeave, TraceFirst, FollowTo, Goto, TypeOK
    <2>3. CASE ~(c \in S /\ acdp \in S)
      BY <1>5, <2>1, <2>2, <2>3
    <2>4. CASE c \in S /\ acdp \in S
      <3>1. waits_for[acdp] = "waiting" /\ waits_for'[acdp] = "waiting"
        BY <2>4 DEF Cyclic
      <3>2. PICK e \in S \ {acdp} : Holds(e, want[acdp].obj)
        BY <2>4 DEF Cyclic
      <3>3. want[acdp].obj \in UsedObjects /\ want[acdp].type \in UsedTypes
        BY <2>1, <3>1 DEF Waits
      <3>4. try_locking(acdp, want[acdp].obj, want[acdp].type) = {e}
        BY <2>1, <3>2, <3>3, ExclusiveBlocked
      <3>5. e \in Clients /\ e # "add" /\ e # "held"
        BY LockConstants
      <3>6. ASSUME NEW w \in {"locked", "memory", "cancelled"}, TellAndLeave(c, acdp, w)
            PROVE  FALSE
        BY <2>1, <3>1, <3>6 DEF TellAndLeave, TypeOK
      <3>7. \/ TraceFirst(c, acdp, "timeout")
            \/ TraceFirst(c, e, "deadlock")
            \/ FollowTo(e)
        BY <1>6, <3>1, <3>4, <3>5, <3>6
           DEF is_deadlock, Granted, NoMemory, BlockedBy
      <3>8. ASSUME NEW a \in S, NEW w, TraceFirst(c, a, w)
            PROVE  Watched(S)'
        BY <2>4, <3>8 DEF TraceFirst, Goto, Watched, TypeOK
      <3>9. CASE FollowTo(e)
        BY <2>1, <2>4, <3>9 DEF FollowTo, Watched
      <3> QED BY <2>4, <3>7, <3>8, <3>9
    <2> QED BY <2>3, <2>4
  <1>7. ASSUME NEW c \in Clients, trace_lock_chain(c)
        PROVE  Watched(S)'
    <2>1. /\ pc[c] = "trace" /\ UNCHANGED verdict
          /\ UNCHANGED pc \/ pc' = [pc EXCEPT ![c] = "verdict"]
      BY <1>7 DEF trace_lock_chain, Goto
    <2>2. \A d \in Clients : d # c => pc'[d] = pc[d]
      BY <2>1 DEF TypeOK
    <2>3. pc'[c] \in {"trace", "verdict"}
      BY <2>1 DEF TypeOK
    <2>4. CASE c \in S /\ verdict.who \in S
      BY <2>1, <2>3, <2>4 DEF Watched
    <2> QED BY <1>5, <2>1, <2>2, <2>4
  <1>8. ASSUME NEW c \in Clients, GiveVerdict(c)
        PROVE  Watched(S)'
    <2>1. /\ pc[c] = "verdict"
          /\ pc' = [pc EXCEPT ![c] = "check"]
          /\ waits_for' = [waits_for EXCEPT ![verdict.who] = verdict.what]
      BY <1>8 DEF GiveVerdict, TellAndLeave, LeaveChain, Goto
    <2>2. verdict.what # "waiting"
      BY <2>1 DEF Waits
    <2>3. verdict.who \notin S
      BY <2>1, <2>2 DEF Cyclic, TypeOK
    <2> QED BY <1>5, <2>1, <2>3 DEF TypeOK
  <1>9. CASE UNCHANGED vars
    BY <1>1, <1>9 DEF vars
  <1> QED BY <1>2, <1>3, <1>4, <1>6, <1>7, <1>8, <1>9 DEF Next, WaitStep

\* The inductive invariant of the deadlock detection.
CycleInv == WaitsInv /\ HeldUsed /\ CyclesWatched

\* Every step keeps every cycle watched.
LEMMA CycleInvKept ==
  ASSUME Exclusive, CycleInv, [Next]_vars
  PROVE  CyclesWatched'
  <1> USE DEF CycleInv, WaitsInv, LocksInv
  <1> SUFFICES ASSUME NEW S \in SUBSET Clients, S # {}, Cyclic(S)'
               PROVE  Watched(S)'
    BY DEF CyclesWatched
  <1>1. CASE \E c \in S : RegisterRequest(c)
    BY <1>1 DEF RegisterRequest, Goto, Watched, TypeOK
  <1>2. CASE \A c \in S : ~RegisterRequest(c)
    <2>1. Cyclic(S)
      BY <1>2, CyclesAreOld
    <2>2. Watched(S)
      BY <2>1 DEF CyclesWatched
    <2> QED BY <2>1, <2>2, WatchKept
  <1> QED BY <1>1, <1>2

(***************************************************************************)
(* With exclusive locks on records no set of clients sleeps in             *)
(* wait_for_lock_opened while they wait for each other only, for any       *)
(* number of clients, any chain limit, with cancelled waits, and with      *)
(* clients that remove the locks of others: is_deadlock finds every cycle. *)
(***************************************************************************)
THEOREM ExclusiveDeadlockIsFound ==
  ASSUME Exclusive
  PROVE  Spec => []NoSleepingCycle
  <1>1. Init => HeldUsed /\ CyclesWatched
    <2> SUFFICES ASSUME Init PROVE HeldUsed /\ CyclesWatched
      OBVIOUS
    <2>1. \A c \in Clients, o \in Objects, t \in LockTypes : ~Has(c, o, t)
      BY DEF Init, Has
    <2>2. CyclesWatched
      BY DEF Init, CyclesWatched, Cyclic
    <2> QED BY <2>1, <2>2 DEF HeldUsed
  <1>2. CycleInv /\ [Next]_vars => (HeldUsed /\ CyclesWatched)'
    BY CycleInvKept, HeldUsedKept DEF CycleInv, WaitsInv, LocksInv
  <1>3. CycleInv => NoSleepingCycle
    <2> SUFFICES ASSUME CycleInv, NEW S \in SUBSET Clients, S # {}, SleepingCycle(S)
                 PROVE  FALSE
      BY DEF NoSleepingCycle
    <2>1. Cyclic(S)
      BY SleepingIsCyclic DEF CycleInv, WaitsInv, LocksInv
    <2>2. Watched(S)
      BY <2>1 DEF CycleInv, CyclesWatched
    <2> QED BY <2>2 DEF Watched, SleepingCycle
  <1> QED BY <1>1, <1>2, <1>3, WaitsInvariance, PTL DEF Spec, CycleInv
=============================================================================
