------------------------------- MODULE Locks -------------------------------
(***************************************************************************)
(* Record locks of one table (t_locktable tbdf->lockbase), the wait for a  *)
(* lock with deadlock detection (wait_record_lock_error, is_deadlock,      *)
(* trace_lock_chain) and the event hLockOpenEvent that ends the sleep of   *)
(* the waiting clients.                                                    *)
(*                                                                         *)
(* What is done inside one stay in cs_locks is one action.  The locks are  *)
(* a bag: locks[c][o][t] is the number of cells with owner c, object o and *)
(* type t (LockTable is about the cells).  The order of the cells decides  *)
(* only which blocking client try_locking returns, so the result is chosen *)
(* from a set.  The page locks (pg_lockbase) are the instance in which     *)
(* FULLTABLE is never asked for.                                           *)
(***************************************************************************)
EXTENDS Naturals, FiniteSets

CONSTANTS Clients,        \* clients, by applnum_perm
          Records,        \* record numbers of the table
          FULLTABLE,      \* the lock object that stands for all records
          UsedTypes,      \* lock types the clients ask for
          UsedObjects,    \* objects they ask for
          Breakable,      \* clients whose break_request may be set
          IsCatalog,      \* the table is TABTAB or OBJTAB
          ChainLimit,     \* 10 in is_deadlock
          MaxCells,       \* bound: cells of one client on one object
          TimedWaits,     \* which of cdp->time_limit # 0 / = 0 occur
          AdminUnlocks,   \* remove_the_lock is called
          NoClient

LockTypes == {"RLOCK", "WLOCK", "TMPRLOCK", "TMPWLOCK"}
Objects == Records \cup {FULLTABLE}

ASSUME LockConstants ==
    /\ FULLTABLE \notin Records
    /\ NoClient \notin Clients
    /\ {"add", "held"} \cap Clients = {}    \* results other than a client
    /\ UsedTypes \subseteq LockTypes
    /\ UsedObjects \subseteq Objects
    /\ Breakable \subseteq Clients
    /\ TimedWaits \subseteq BOOLEAN
    /\ IsCatalog \in BOOLEAN
    /\ AdminUnlocks \in BOOLEAN
    /\ ChainLimit \in Nat
    /\ MaxCells \in Nat

VARIABLES locks,          \* the lock table
          logged,         \* client's log has LOCK_TAG for the table
          waits_for,      \* state of a client's registered request
          want,           \* lock_tbdf / record_or_page / lock_type
          timed,          \* time_limit # 0
          expired,        \* the clock has passed time_limit
          break_request,
          pc,             \* where a client is
          cs_deadlock,    \* the client inside is_deadlock
          acdp,           \* the client the chain has got to
          counter,        \* length of the chain
          passed,         \* clients with KFL_PASSED_FLAG
          verdict         \* [who, what]: the state is_deadlock will assign

lockVars == <<locks, logged>>
chainVars == <<cs_deadlock, acdp, counter, passed, verdict>>
vars == <<locks, logged, waits_for, want, timed, expired, break_request, pc,
          cs_deadlock, acdp, counter, passed, verdict>>

Outcomes == {"locked", "memory", "cancelled", "timeout", "deadlock"}
NoWant == [obj |-> FULLTABLE, type |-> "RLOCK"]
NoVerdict == [who |-> NoClient, what |-> "timeout"]

TypeOK ==
    /\ locks \in [Clients -> [Objects -> [LockTypes -> Nat]]]
    /\ logged \in [Clients -> BOOLEAN]
    /\ waits_for \in [Clients -> Outcomes \cup {"none", "waiting"}]
    /\ want \in [Clients -> [obj : Objects, type : LockTypes]]
    /\ timed \in [Clients -> BOOLEAN]
    /\ expired \in [Clients -> BOOLEAN]
    /\ break_request \in [Clients -> BOOLEAN]
    /\ pc \in [Clients -> {"run", "register", "detect", "chain", "trace",
                           "verdict", "check", "towait", "asleep", "opening"}]
    /\ cs_deadlock \in Clients \cup {NoClient}
    /\ acdp \in Clients \cup {NoClient}
    /\ counter \in Nat
    /\ passed \subseteq Clients
    /\ verdict \in [who : Clients \cup {NoClient}, what : Outcomes]

Init ==
    /\ locks = [c \in Clients |-> [o \in Objects |-> [t \in LockTypes |-> 0]]]
    /\ logged = [c \in Clients |-> FALSE]
    /\ waits_for = [c \in Clients |-> "none"]
    /\ want = [c \in Clients |-> NoWant]
    /\ timed = [c \in Clients |-> FALSE]
    /\ expired = [c \in Clients |-> FALSE]
    /\ break_request = [c \in Clients |-> FALSE]
    /\ pc = [c \in Clients |-> "run"]
    /\ cs_deadlock = NoClient
    /\ acdp = NoClient
    /\ counter = 0
    /\ passed = {}
    /\ verdict = NoVerdict

-----------------------------------------------------------------------------
\* The lock table.

IsTemp(t) == t \in {"TMPRLOCK", "TMPWLOCK"}
BothRead(s, t) == {s, t} \subseteq {"RLOCK", "TMPRLOCK"}
Has(c, o, t) == locks[c][o][t] > 0

\* Other clients with a lock on o that does not go together with t.
Blockers(c, o, t) ==
    {e \in Clients \ {c} : \E s \in LockTypes : Has(e, o, s) /\ ~BothRead(s, t)}

\* My own lock makes the temporary one unnecessary.
Contained(c, o, t) ==
    \/ t = "TMPWLOCK" /\ (Has(c, o, "WLOCK") \/ Has(c, o, "TMPWLOCK"))
    \/ t = "TMPRLOCK" /\ Has(c, o, "TMPRLOCK")

\* On TABTAB and OBJTAB a client blocks itself.
SelfConflict(c, o, t) ==
    /\ IsCatalog
    /\ \/ t = "WLOCK" /\ Has(c, o, "RLOCK")
       \/ t = "RLOCK" /\ Has(c, o, "WLOCK")

\* What a pass over the cells of o may return: "held" or a blocking client.
FullTablePass(c, t) ==
    Blockers(c, FULLTABLE, t)
    \cup (IF Contained(c, FULLTABLE, t) THEN {"held"} ELSE {})

RecordPass(c, o, t) ==
    Blockers(c, o, t)
    \cup (IF SelfConflict(c, o, t) THEN {c} ELSE {})
    \cup (IF Contained(c, o, t) THEN {"held"} ELSE {})

\* Slip: a read lock on the table does not look at the records.
WriteOnlyRecordsPass(c, t) ==
    IF t \in {"RLOCK", "TMPRLOCK"} THEN {}
    ELSE UNION {Blockers(c, r, t) : r \in Records}

AllRecordsPass(c, t) == UNION {Blockers(c, r, t) : r \in Records}

\* The possible results; "add" stands for -1, the lock must be added.
try_locking(c, o, t) ==
    LET second == IF o = FULLTABLE THEN AllRecordsPass(c, t)
                  ELSE RecordPass(c, o, t)
    IN  IF FullTablePass(c, t) # {} THEN FullTablePass(c, t)
        ELSE IF second # {} THEN second
        ELSE {"add"}

CellsOn(c, o) ==
    locks[c][o]["RLOCK"] + locks[c][o]["WLOCK"] + locks[c][o]["TMPRLOCK"]
    + locks[c][o]["TMPWLOCK"]

\* record_lock, by its result.  trace_lock_chain may add the lock of a client
\* that goes on waiting, and so one more each time: MaxCells bounds this.
Granted(c, o, t) ==
    /\ \/ "held" \in try_locking(c, o, t) /\ UNCHANGED locks
       \/ /\ "add" \in try_locking(c, o, t)
          /\ CellsOn(c, o) <= MaxCells
          /\ locks' = [locks EXCEPT ![c][o][t] = @ + 1]
    /\ logged' = [logged EXCEPT ![c] = @ \/ IsTemp(t)]

NoMemory(c, o, t) ==
    /\ "add" \in try_locking(c, o, t)
    /\ UNCHANGED lockVars

BlockedBy(c, o, t, e) ==
    /\ e \in try_locking(c, o, t)
    /\ UNCHANGED lockVars

\* Slip: the temporary lock made from WLOCK is not entered in the log.
RemoveUnlogged(c, o, t, s) ==
    /\ Has(c, o, s)
    /\ t \in {s, "ANY_LOCK"}
    /\ locks' = IF t = "WLOCK"
                THEN [locks EXCEPT ![c][o]["WLOCK"] = @ - 1,
                                   ![c][o]["TMPWLOCK"] = @ + 1]
                ELSE [locks EXCEPT ![c][o][s] = @ - 1]
    /\ UNCHANGED logged

\* Slip: the owner of the cell is not compared.
RemoveOfAnyone(c, o, t, s) ==
    /\ \E e \in Clients : Has(e, o, s)
    /\ t \in {s, "ANY_LOCK"}
    /\ locks' = [locks EXCEPT ![c][o][s] = @ - 1]
    /\ logged' = [logged EXCEPT ![c] = @ \/ s = "WLOCK"]

\* remove_lock: the first cell found is of type s.  WLOCK becomes TMPWLOCK.
Remove(c, o, t, s) ==
    /\ Has(c, o, s)
    /\ t \in {s, "ANY_LOCK"}
    /\ locks' = IF t = "WLOCK"
                THEN [locks EXCEPT ![c][o]["WLOCK"] = @ - 1,
                                   ![c][o]["TMPWLOCK"] = @ + 1]
                ELSE [locks EXCEPT ![c][o][s] = @ - 1]
    /\ logged' = [logged EXCEPT ![c] = @ \/ s = "WLOCK"]

NotFound(c, o, t) ==
    /\ \A s \in LockTypes : t \in {s, "ANY_LOCK"} => ~Has(c, o, s)
    /\ UNCHANGED lockVars

-----------------------------------------------------------------------------
\* A running client.

Goto(c, l) == pc' = [pc EXCEPT ![c] = l]

\* wait_record_lock_error up to the first result of record_lock; an error of
\* memory leaves everything as it is.
wait_record_lock_error(c, o, t) ==
    /\ pc[c] = "run"
    /\ CellsOn(c, o) < MaxCells
    /\ \/ Granted(c, o, t) /\ UNCHANGED <<want, pc>>
       \/ \E e \in Clients :
             /\ BlockedBy(c, o, t, e)
             /\ want' = [want EXCEPT ![c] = [obj |-> o, type |-> t]]
             /\ Goto(c, "register")
    /\ UNCHANGED <<waits_for, timed, expired, break_request, chainVars>>

\* record_unlock, followed by lock_opened.
record_unlock(c, o, t) ==
    /\ pc[c] = "run"
    /\ NotFound(c, o, t) \/ \E s \in LockTypes : Remove(c, o, t, s)
    /\ Goto(c, "opening")
    /\ UNCHANGED <<waits_for, want, timed, expired, break_request, chainVars>>

Dropped(c, o, types) == [t \in LockTypes |-> IF t \in types THEN 0 ELSE locks[c][o][t]]

\* Removes the locks, then lock_opened if there were any.
RemoveAll(c, user, objs, types) ==
    /\ locks' = [locks EXCEPT ![user] =
                    [o \in Objects |-> IF o \in objs THEN Dropped(user, o, types)
                                       ELSE locks[user][o]]]
    /\ Goto(c, IF \E o \in objs, t \in types : Has(user, o, t)
               THEN "opening" ELSE "run")
    /\ UNCHANGED <<waits_for, want, timed, expired, break_request, chainVars>>

\* commit_allocs and rollback_allocs: the log tells where temporary locks are.
remove_my_tmplocks(c) ==
    /\ pc[c] = "run"
    /\ logged[c]
    /\ logged' = [logged EXCEPT ![c] = FALSE]
    /\ RemoveAll(c, c, Objects, {"TMPRLOCK", "TMPWLOCK"})

unlock_user(c) ==
    /\ pc[c] = "run"
    /\ RemoveAll(c, c, Objects, LockTypes)
    /\ UNCHANGED logged

\* The end of a request removes the client's read locks on pages.
remove_user_rlocks(c) ==
    /\ FULLTABLE \notin UsedObjects
    /\ pc[c] = "run"
    /\ RemoveAll(c, c, Objects, {"RLOCK"})
    /\ UNCHANGED logged

\* A client directly removes a lock of any user.
remove_the_lock(c, user, o, t) ==
    /\ AdminUnlocks
    /\ pc[c] = "run"
    /\ RemoveAll(c, user, {o}, IF t = "ANY_LOCK" THEN LockTypes ELSE {t})
    /\ UNCHANGED logged

\* Broadcast: it reaches only the clients that sleep now.
lock_opened(c) ==
    /\ pc[c] = "opening"
    /\ pc' = [e \in Clients |-> IF e = c THEN "run"
                                ELSE IF pc[e] = "asleep" THEN "detect"
                                ELSE pc[e]]
    /\ UNCHANGED <<lockVars, waits_for, want, timed, expired, break_request,
                   chainVars>>

\* Another thread wants the client to stop (kill, shutdown, network break).
SetBreak(c) ==
    /\ c \in Breakable
    /\ ~break_request[c]
    /\ break_request' = [break_request EXCEPT ![c] = TRUE]
    /\ UNCHANGED <<lockVars, waits_for, want, timed, expired, pc, chainVars>>

\* The client starts its next request.
request_init(c) ==
    /\ pc[c] = "run"
    /\ break_request[c]
    /\ break_request' = [break_request EXCEPT ![c] = FALSE]
    /\ UNCHANGED <<lockVars, waits_for, want, timed, expired, pc, chainVars>>

-----------------------------------------------------------------------------
\* A client that waits.

RegisterRequest(c) ==
    /\ pc[c] = "register"
    /\ waits_for' = [waits_for EXCEPT ![c] = "waiting"]
    /\ \E limit \in TimedWaits : timed' = [timed EXCEPT ![c] = limit]
    /\ Goto(c, "detect")
    /\ UNCHANGED <<lockVars, want, expired, break_request, chainVars>>

\* GetTickCount() gets beyond the time limit.  is_deadlock reads the clock when
\* it enters, so a limit that passes during a walk is seen in the next one.
Expire(c) ==
    /\ cs_deadlock = NoClient
    /\ waits_for[c] = "waiting"
    /\ timed[c] /\ ~expired[c]
    /\ expired' = [expired EXCEPT ![c] = TRUE]
    /\ UNCHANGED <<lockVars, waits_for, want, timed, break_request, pc,
                   chainVars>>

enter_is_deadlock(c) ==
    /\ pc[c] = "detect"
    /\ cs_deadlock = NoClient
    /\ cs_deadlock' = c
    /\ acdp' = c
    /\ counter' = 0
    /\ Goto(c, "chain")
    /\ UNCHANGED <<lockVars, waits_for, want, timed, expired, break_request,
                   passed, verdict>>

\* Leave cs_deadlock with client a (if any) told its outcome.
LeaveChain(c) ==
    /\ cs_deadlock' = NoClient
    /\ acdp' = NoClient
    /\ counter' = 0
    /\ passed' = {}
    /\ verdict' = NoVerdict
    /\ Goto(c, "check")

\* Slip: cdp is told instead of acdp.
TellAsker(c, a, outcome) ==
    /\ waits_for' = [waits_for EXCEPT ![c] = outcome]
    /\ LeaveChain(c)

TellAndLeave(c, a, outcome) ==
    /\ waits_for' = [waits_for EXCEPT ![a] = outcome]
    /\ LeaveChain(c)

\* trace_lock_chain(cdp) is called before the outcome is assigned.
TraceFirst(c, a, outcome) ==
    /\ verdict' = [who |-> a, what |-> outcome]
    /\ acdp' = c
    /\ Goto(c, "trace")
    /\ UNCHANGED <<waits_for, cs_deadlock, counter, passed>>

\* Slip: the chain ends at the first blocking client.
FollowNobody(e) == UNCHANGED waits_for /\ LeaveChain(cs_deadlock)

FollowTo(e) ==
    /\ acdp' = e
    /\ counter' = counter + 1
    /\ UNCHANGED <<waits_for, pc, cs_deadlock, passed, verdict>>

ChainEnds(e) == e = cs_deadlock \/ counter + 1 >= ChainLimit

\* One turn of the loop of is_deadlock.
is_deadlock(c) ==
    LET a == acdp
        o == want[a].obj
        t == want[a].type
    IN
    /\ pc[c] = "chain"
    /\ \/ waits_for[a] # "waiting" /\ LeaveChain(c)
          /\ UNCHANGED <<lockVars, waits_for>>
       \/ /\ waits_for[a] = "waiting"
          /\ \/ Granted(a, o, t) /\ TellAndLeave(c, a, "locked")
             \/ NoMemory(a, o, t) /\ TellAndLeave(c, a, "memory")
             \/ \E e \in Clients :
                   /\ BlockedBy(a, o, t, e)
                   /\ \/ break_request[a] /\ TellAndLeave(c, a, "cancelled")
                      \/ /\ ~break_request[a] /\ timed[a] /\ expired[a]
                         /\ TraceFirst(c, a, "timeout")
                      \/ /\ ~break_request[a] /\ ~(timed[a] /\ expired[a])
                         /\ IF ChainEnds(e) THEN TraceFirst(c, e, "deadlock")
                            ELSE FollowTo(e)
    /\ UNCHANGED <<want, timed, expired, break_request>>

\* One turn of the loop of trace_lock_chain: it calls record_lock again.
trace_lock_chain(c) ==
    LET a == acdp
        o == want[a].obj
        t == want[a].type
    IN
    /\ pc[c] = "trace"
    /\ \/ /\ waits_for[a] # "waiting" \/ a \in passed
          /\ Goto(c, "verdict")
          /\ UNCHANGED <<lockVars, acdp, passed>>
       \/ /\ waits_for[a] = "waiting" /\ a \notin passed
          /\ \/ Granted(a, o, t) /\ Goto(c, "verdict") /\ UNCHANGED <<acdp, passed>>
             \/ NoMemory(a, o, t) /\ Goto(c, "verdict") /\ UNCHANGED <<acdp, passed>>
             \/ \E e \in Clients :
                   /\ BlockedBy(a, o, t, e)
                   /\ passed' = passed \cup {a}
                   /\ IF break_request[a] THEN Goto(c, "verdict") /\ UNCHANGED acdp
                      ELSE acdp' = e /\ UNCHANGED pc
    /\ UNCHANGED <<waits_for, want, timed, expired, break_request,
                   cs_deadlock, counter, verdict>>

\* Slip: is_deadlock returns TRUE, but waits_for of the client is not assigned.
GiveVerdictUntold(c) ==
    /\ pc[c] = "verdict"
    /\ LeaveChain(c)
    /\ UNCHANGED <<lockVars, waits_for, want, timed, expired, break_request>>

\* acdp->waits_for = 5 or 6, then is_deadlock returns.
GiveVerdict(c) ==
    /\ pc[c] = "verdict"
    /\ TellAndLeave(c, verdict.who, verdict.what)
    /\ UNCHANGED <<lockVars, want, timed, expired, break_request>>

\* The tests of waits_for after is_deadlock: return, or wait.
EndOrWait(c) ==
    /\ pc[c] = "check"
    /\ IF waits_for[c] = "waiting"
       THEN Goto(c, "towait") /\ UNCHANGED <<waits_for, want, timed, expired>>
       ELSE /\ waits_for' = [waits_for EXCEPT ![c] = "none"]
            /\ want' = [want EXCEPT ![c] = NoWant]
            /\ timed' = [timed EXCEPT ![c] = FALSE]
            /\ expired' = [expired EXCEPT ![c] = FALSE]
            /\ Goto(c, "run")
    /\ UNCHANGED <<lockVars, break_request, chainVars>>

\* The mutex of hLockOpenEvent is taken: from now on a broadcast is heard.
wait_for_lock_opened(c) ==
    /\ pc[c] = "towait"
    /\ Goto(c, "asleep")
    /\ UNCHANGED <<lockVars, waits_for, want, timed, expired, break_request,
                   chainVars>>

\* pthread_cond_timedwait ends after 100 ms, pthread_cond_wait does not.
SleepTimeout(c) ==
    /\ pc[c] = "asleep"
    /\ timed[c]
    /\ Goto(c, "detect")
    /\ UNCHANGED <<lockVars, waits_for, want, timed, expired, break_request,
                   chainVars>>
-----------------------------------------------------------------------------
Request(c) ==
    \/ \E o \in UsedObjects, t \in UsedTypes : wait_record_lock_error(c, o, t)
    \/ \E o \in UsedObjects, t \in UsedTypes \cup {"ANY_LOCK"} : record_unlock(c, o, t)
    \/ request_init(c)
    \/ remove_my_tmplocks(c)
    \/ unlock_user(c)
    \/ remove_user_rlocks(c)
    \/ \E u \in Clients, o \in UsedObjects, t \in UsedTypes \cup {"ANY_LOCK"} :
          remove_the_lock(c, u, o, t)

WaitStep(c) ==
    \/ lock_opened(c)
    \/ RegisterRequest(c)
    \/ is_deadlock(c)
    \/ trace_lock_chain(c)
    \/ GiveVerdict(c)
    \/ EndOrWait(c)
    \/ wait_for_lock_opened(c)
    \/ SleepTimeout(c)

Next == \E c \in Clients :
            \/ Request(c)
            \/ SetBreak(c)
            \/ WaitStep(c)
            \/ Expire(c)
            \/ enter_is_deadlock(c)

Spec == Init /\ [][Next]_vars

\* Threads run on, time passes, and a critical section that is free again and
\* again is entered at last.  Nobody has to release a lock.
FairSpec ==
    /\ Spec
    /\ \A c \in Clients :
          /\ WF_vars(WaitStep(c))
          /\ SF_vars(Expire(c))
          /\ SF_vars(enter_is_deadlock(c))
-----------------------------------------------------------------------------
Overlap(o, p) == o = p \/ FULLTABLE \in {o, p}

(***************************************************************************)
(* No two clients have incompatible locks on overlapping objects, although *)
(* a request may be granted by any thread that walks the chain.            *)
(***************************************************************************)
NoConflictingLocks ==
    \A c, e \in Clients, o, p \in Objects, s, t \in LockTypes :
        c # e /\ Overlap(o, p) /\ Has(c, o, s) /\ Has(e, p, t) => BothRead(s, t)

(***************************************************************************)
(* "All temporary lock are registered in the transaction log": otherwise   *)
(* the end of the transaction would leave the lock in the table.           *)
(***************************************************************************)
TempLocksLogged ==
    \A c \in Clients, o \in Objects, t \in LockTypes :
        Has(c, o, t) /\ IsTemp(t) => logged[c]

(***************************************************************************)
(* A client that is told its request was granted has the lock, whichever   *)
(* thread got it for it and whatever happened before it woke up.           *)
(***************************************************************************)
GrantedIsHeld ==
    \A c \in Clients :
        waits_for[c] = "locked" =>
            LET t == want[c].type IN
            \E o \in {want[c].obj, FULLTABLE} :
                Has(c, o, t) \/ (t = "TMPWLOCK" /\ Has(c, o, "WLOCK"))

\* Everyone in S sleeps and is blocked by members of S only.
SleepingCycle(S) ==
    \A c \in S :
        /\ pc[c] = "asleep" /\ waits_for[c] = "waiting"
        /\ try_locking(c, want[c].obj, want[c].type) \subseteq S

(***************************************************************************)
(* A deadlock over exclusive locks is not slept over: the last client of a *)
(* cycle that looks at the chain sees all the others registered, also if   *)
(* the requests came at the same moment, and nobody needs a time limit to  *)
(* get out.  With shared locks it is not so: a client that waits for two   *)
(* readers follows only one of them, and when that one leaves while the    *)
(* client is between the walk and the sleep, it misses the broadcast and   *)
(* sleeps on the cycle with the other reader.                              *)
(***************************************************************************)
NoSleepingCycle == \A S \in (SUBSET Clients) \ {{}} : ~SleepingCycle(S)

(***************************************************************************)
(* With a time limit every call of wait_record_lock_error returns, even if *)
(* nobody ever releases a lock.                                            *)
(***************************************************************************)
TimedWaitEnds ==
    \A c \in Clients : pc[c] = "register" ~> pc[c] = "run"

(***************************************************************************)
(* "Temporarty solution: waiting for the event with timeout (100 ms)": a   *)
(* client does not sleep for ever beside the free lock it wants.           *)
(***************************************************************************)
FreeLockIsNoticed ==
    \A c \in Clients :
        []<>~(/\ pc[c] = "asleep"
              /\ try_locking(c, want[c].obj, want[c].type) = {"add"})
=============================================================================
