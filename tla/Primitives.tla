----------------------------- MODULE Primitives -----------------------------
(***************************************************************************)
(* The synchronisation primitives of unix/thread.c.  Every function calls  *)
(* one pthread or semaphore function and turns its error number into an    *)
(* SchErrCode; all a caller learns is that code.  The model keeps the two  *)
(* apart: what the pthread object is in (owner, readers, value, arrived),  *)
(* and what the callers conclude from the codes (thinks, credit, passed).  *)
(* Objects do not influence each other, so that a behaviour is about one   *)
(* object of one kind; the mutex has a conditional with it.  Callers use   *)
(* the objects as POSIX demands: they unlock what they think they hold,    *)
(* and delete what none of them thinks is in use.  schSemaphoreValue only  *)
(* reads; threads and signals are in TaskSch.                              *)
(***************************************************************************)
EXTENDS Integers, FiniteSets

CONSTANTS
    Threads,
    NoThread,
    SEM_VALUE_MAX,  \* what sem_post refuses to exceed
    MaxRounds       \* bound: how often a thread enters a barrier

ASSUME PrimThreadsAssumption ==
    IsFiniteSet(Threads) /\ Threads # {} /\ NoThread \notin Threads
ASSUME PrimBoundsAssumption == SEM_VALUE_MAX \in Nat /\ MaxRounds \in Nat

Blocking ==
    [mutex     |-> {"schMutexLock", "schMutexTryLock"},
     spinlock  |-> {"schLockSpinLock"},
     semaphore |-> {"schSemaphoreWait", "schSemaphoreTimedWait"},
     barrier   |-> {"schWaitBarrier"},
     rwlock    |-> {"schRWLockRead", "schRWLockWrite"}]
Kinds == DOMAIN Blocking
Functions == UNION {Blocking[x] : x \in Kinds}

OK == "SCH_OK"
UNKNOWN == "SCH_ERROR_UNKNOWN"

(* pthread_error_code2sch_error_code.  The error numbers that the cases do *)
(* not name, EINTR and EOVERFLOW among them, become SCH_ERROR_UNKNOWN.     *)
Translation ==
    [SUCCESS   |-> OK,
     ESRCH     |-> OK,
     ETIMEDOUT |-> "SCH_ERROR_TIMEOUT",
     EBUSY     |-> "SCH_ERROR_BUSY",
     EINVAL    |-> "SCH_ERROR_INVALID_ARG",
     EPERM     |-> "SCH_ERROR_PERMISSION_DENIED",
     EAGAIN    |-> "SCH_ERROR_LACK_OF_RESOURCES",
     ENOMEM    |-> "SCH_ERROR_NOMEM"]
Codes == {Translation[e] : e \in DOMAIN Translation} \cup {UNKNOWN}

RawNumber(e) == e
BusyIsFine(e) ==
    CASE e = "EBUSY" -> OK
      [] e \in DOMAIN Translation \ {"EBUSY"} -> Translation[e]
      [] OTHER -> UNKNOWN
SchError(e) == IF e \in DOMAIN Translation THEN Translation[e] ELSE UNKNOWN

VARIABLES
    kind,      \* what the object is
    life,      \* "none", "blank" (a barrier before schInitBarrier) or "live"
    owner,     \* who has locked the mutex, the spinlock or, to write, the rwlock
    readers,   \* who has locked the rwlock to read
    value,     \* the value of the semaphore
    asleep,    \* who waits for the conditional
    arrived,   \* who waits in the barrier
    released,  \* whom the barrier has let go, and who of them is told apart
    serial,
    at,        \* at[t]: the function t is in, or "out"
    code,      \* code[t]: what the function that t called last returned
    thinks,    \* thinks[t]: what t has locked, judging by the codes
    credit,    \* posts that returned SCH_OK less waits that did
    entered,   \* entered[t], passed[t]: how often t entered the barrier, and
    passed     \* how often it returned with SCH_OK

lockVars == <<owner, readers, asleep>>
barrierVars == <<arrived, released, serial, entered, passed>>
semVars == <<value, credit>>
vars == <<kind, life, lockVars, barrierVars, semVars, at, code, thinks>>

Init ==
    /\ kind \in Kinds
    /\ life = "none"
    /\ owner = NoThread /\ readers = {} /\ asleep = {}
    /\ value = 0 /\ credit = 0
    /\ arrived = {} /\ released = {} /\ serial = NoThread
    /\ at = [t \in Threads |-> "out"]
    /\ code = [t \in Threads |-> OK]
    /\ thinks = [t \in Threads |-> "nothing"]
    /\ entered = [t \in Threads |-> 0]
    /\ passed = [t \in Threads |-> 0]

----------------------------------------------------------------------------
(* t returns with code c; if it is SCH_OK t has what it asked for.         *)
Returns(t, c, what) ==
    /\ at' = [at EXCEPT ![t] = "out"]
    /\ code' = [code EXCEPT ![t] = c]
    /\ thinks' = [thinks EXCEPT ![t] = IF c = OK THEN what ELSE @]

Unused == \A t \in Threads : at[t] = "out" /\ thinks[t] = "nothing"
Idle == owner = NoThread /\ readers = {} /\ asleep = {} /\ arrived = {}

(* The create functions, and schInitBarrier for what schCreateBarrier has  *)
(* cleared.  What was allocated is not freed when the initialisation fails.*)
Create(t, e) ==
    /\ life \in {"none", "blank"}
    /\ e # "SUCCESS" => life = "blank" \/ kind # "barrier"
    /\ life' = IF SchError(e) # OK THEN life
               ELSE IF kind = "barrier" /\ life = "none" THEN "blank" ELSE "live"
    /\ value' = 0 /\ credit' = 0
    /\ released' = {} /\ serial' = NoThread
    /\ entered' = [u \in Threads |-> 0] /\ passed' = [u \in Threads |-> 0]
    /\ Returns(t, SchError(e), "nothing")
    /\ UNCHANGED <<kind, lockVars, arrived>>

(* The delete functions: the memory is freed whatever destroy returned.    *)
Delete(t) ==
    /\ life = "live" /\ Unused
    /\ life' = "none"
    /\ Returns(t, SchError(IF Idle THEN "SUCCESS" ELSE "EBUSY"), "nothing")
    /\ UNCHANGED <<kind, lockVars, barrierVars, semVars>>

(* A thread that has nothing locked calls a function that may block.       *)
Call(t, fn) ==
    /\ life = "live" /\ at[t] = "out" /\ thinks[t] = "nothing"
    /\ fn \in Blocking[kind]
    /\ at' = [at EXCEPT ![t] = fn]
    /\ IF kind = "barrier"
         THEN /\ entered[t] < MaxRounds
              /\ entered' = [entered EXCEPT ![t] = @ + 1]
         ELSE UNCHANGED entered
    /\ UNCHANGED <<kind, life, lockVars, semVars, arrived, released, serial,
                   passed, code, thinks>>

----------------------------------------------------------------------------
(* Mutex, spinlock and rwlock.                                             *)
Free == owner = NoThread /\ readers = {}

Locks(t, c) ==
    /\ Free /\ owner' = t
    /\ Returns(t, c, "exclusive")
    /\ UNCHANGED <<kind, life, readers, asleep, barrierVars, semVars>>

(* Returns with an error number and leaves the object alone.               *)
Refused(t, e) ==
    /\ Returns(t, SchError(e), "exclusive")
    /\ UNCHANGED <<kind, life, lockVars, barrierVars, semVars>>

schMutexLock(t) == at[t] = "schMutexLock" /\ Locks(t, SchError("SUCCESS"))
schLockSpinLock(t) == at[t] = "schLockSpinLock" /\ Locks(t, SchError("SUCCESS"))
schRWLockWrite(t) == at[t] = "schRWLockWrite" /\ Locks(t, SchError("SUCCESS"))

(* The timeout is a duration, but pthread_mutex_timedlock takes it for a   *)
(* time of day, and every duration of less than half a century has passed  *)
(* since 1970: a mutex that is not free is given up at once.               *)
TryLockTooLate(t) == at[t] = "schMutexTryLock" /\ Locks(t, SchError("ETIMEDOUT"))
schMutexTryLock(t) ==
    /\ at[t] = "schMutexTryLock"
    /\ \/ Locks(t, SchError("SUCCESS"))
       \/ ~Free /\ Refused(t, "ETIMEDOUT")

schTryLockSpinLock(t) ==
    /\ kind = "spinlock" /\ life = "live"
    /\ at[t] = "out" /\ thinks[t] = "nothing"
    /\ \/ Locks(t, SchError("SUCCESS"))
       \/ ~Free /\ Refused(t, "EBUSY")

schRWLockRead(t) ==
    /\ at[t] = "schRWLockRead" /\ owner = NoThread
    /\ readers' = readers \cup {t}
    /\ Returns(t, SchError("SUCCESS"), "shared")
    /\ UNCHANGED <<kind, life, owner, asleep, barrierVars, semVars>>

(* schMutexUnLock, schUnlockSpinLock, schRWLocUnLock.  Pool threads that   *)
(* unlock sch->mutex without holding it (sch.c:107) are not such callers.  *)
Unlock(t) ==
    /\ at[t] = "out" /\ thinks[t] # "nothing"
    /\ owner' = IF owner = t THEN NoThread ELSE owner
    /\ readers' = readers \ {t}
    /\ Returns(t, SchError("SUCCESS"), "nothing")
    /\ UNCHANGED <<kind, life, asleep, barrierVars, semVars>>

(* schConditionalWait gives the mutex back and sleeps until it is woken,   *)
(* by a signal or without one, and takes the mutex again.                  *)
schConditionalWait(t) ==
    /\ kind = "mutex" /\ at[t] = "out" /\ thinks[t] = "exclusive"
    /\ owner' = NoThread /\ asleep' = asleep \cup {t}
    /\ at' = [at EXCEPT ![t] = "schConditionalWait"]
    /\ thinks' = [thinks EXCEPT ![t] = "nothing"]
    /\ UNCHANGED <<kind, life, readers, barrierVars, semVars, code>>

Wake(t) ==
    /\ asleep' = asleep \ {t}
    /\ UNCHANGED <<kind, life, owner, readers, barrierVars, semVars, at,
                   code, thinks>>

SpuriousWakeup(t) == t \in asleep /\ Wake(t)

ConditionalReturn(t) ==
    /\ at[t] = "schConditionalWait" /\ t \notin asleep
    /\ Locks(t, SchError("SUCCESS"))

(* A signal wakes one of those who wait, and is lost if there is none.     *)
schConditionalSignal(t) ==
    /\ kind = "mutex" /\ life = "live" /\ at[t] = "out"
    /\ \/ \E u \in asleep : Wake(u)
       \/ asleep = {} /\ UNCHANGED vars

----------------------------------------------------------------------------
(* Semaphore.                                                              *)
Takes(t) ==
    /\ value > 0 /\ value' = value - 1
    /\ Returns(t, SchError("SUCCESS"), "nothing")
    /\ credit' = IF code'[t] = OK THEN credit - 1 ELSE credit
    /\ UNCHANGED <<kind, life, lockVars, barrierVars>>

NotTaken(t, e) ==
    /\ Returns(t, SchError(e), "nothing")
    /\ credit' = IF code'[t] = OK THEN credit - 1 ELSE credit
    /\ UNCHANGED <<kind, life, lockVars, barrierVars, value>>

(* A signal handler that runs while the thread waits ends the wait.        *)
schSemaphoreWait(t) ==
    at[t] = "schSemaphoreWait" /\ (Takes(t) \/ NotTaken(t, "EINTR"))

(* As with the mutex the deadline has passed when the call is made.        *)
schSemaphoreTimedWait(t) ==
    /\ at[t] = "schSemaphoreTimedWait"
    /\ Takes(t) \/ (value = 0 /\ NotTaken(t, "ETIMEDOUT"))

TryWaitSaysOk(t) ==
    /\ kind = "semaphore" /\ life = "live" /\ at[t] = "out"
    /\ Takes(t) \/ (value = 0 /\ NotTaken(t, "SUCCESS"))
schSemaphoreTryWait(t) ==
    /\ kind = "semaphore" /\ life = "live" /\ at[t] = "out"
    /\ Takes(t) \/ (value = 0 /\ NotTaken(t, "EAGAIN"))

schSemaphorePost(t) ==
    /\ kind = "semaphore" /\ life = "live" /\ at[t] = "out"
    /\ LET e == IF value = SEM_VALUE_MAX THEN "EOVERFLOW" ELSE "SUCCESS"
       IN  /\ value' = IF e = "SUCCESS" THEN value + 1 ELSE value
           /\ Returns(t, SchError(e), "nothing")
    /\ credit' = IF code'[t] = OK THEN credit + 1 ELSE credit
    /\ UNCHANGED <<kind, life, lockVars, barrierVars>>

----------------------------------------------------------------------------
(* Barrier: schInitBarrier is given the number of threads that meet.       *)
CountLess == Cardinality(Threads) - 1
Count == Cardinality(Threads)

Arrive(t) ==
    /\ at[t] = "schWaitBarrier" /\ t \notin arrived \cup released
    /\ IF Cardinality(arrived \cup {t}) = Count
         THEN /\ arrived' = {} /\ released' = released \cup arrived \cup {t}
              /\ serial' = t
         ELSE arrived' = arrived \cup {t} /\ UNCHANGED <<released, serial>>
    /\ UNCHANGED <<kind, life, lockVars, semVars, at, code, thinks, entered,
                   passed>>

(* One thread gets PTHREAD_BARRIER_SERIAL_THREAD and the others 0.         *)
PlainCode(e) == SchError(e)
BarrierCode(e) == IF e = "SERIAL_THREAD" THEN OK ELSE SchError(e)

schWaitBarrier(t) ==
    /\ t \in released
    /\ released' = released \ {t}
    /\ Returns(t, BarrierCode(IF t = serial THEN "SERIAL_THREAD" ELSE "SUCCESS"),
               "nothing")
    /\ passed' = [passed EXCEPT ![t] = IF code'[t] = OK THEN @ + 1 ELSE @]
    /\ UNCHANGED <<kind, life, lockVars, semVars, arrived, serial, entered>>

----------------------------------------------------------------------------
(* The steps of a thread that is in a call.                                *)
Step(t) ==
    \/ schMutexLock(t) \/ schMutexTryLock(t) \/ ConditionalReturn(t)
    \/ schLockSpinLock(t) \/ schRWLockRead(t) \/ schRWLockWrite(t)
    \/ schSemaphoreWait(t) \/ schSemaphoreTimedWait(t)
    \/ Arrive(t) \/ schWaitBarrier(t)

Next ==
    \E t \in Threads :
        \/ Step(t)
        \/ \E e \in {"SUCCESS", "EAGAIN", "ENOMEM"} : Create(t, e)
        \/ Delete(t)
        \/ \E fn \in Functions : Call(t, fn)
        \/ schTryLockSpinLock(t) \/ Unlock(t)
        \/ schConditionalWait(t) \/ schConditionalSignal(t) \/ SpuriousWakeup(t)
        \/ schSemaphoreTryWait(t) \/ schSemaphorePost(t)

Spec == Init /\ [][Next]_vars

----------------------------------------------------------------------------
(* Types; every function returns one of the codes of SchErrCode.           *)
PrimTypeOK ==
    /\ kind \in Kinds /\ life \in {"none", "blank", "live"}
    /\ owner \in Threads \cup {NoThread} /\ readers \subseteq Threads
    /\ value \in 0 .. SEM_VALUE_MAX /\ credit \in Int
    /\ asleep \subseteq Threads /\ arrived \subseteq Threads
    /\ released \subseteq Threads /\ serial \in Threads \cup {NoThread}
    /\ at \in [Threads -> Functions \cup {"out", "schConditionalWait"}]
    /\ code \in [Threads -> Codes]
    /\ thinks \in [Threads -> {"nothing", "shared", "exclusive"}]
    /\ entered \in [Threads -> 0 .. MaxRounds]
    /\ passed \in [Threads -> 0 .. MaxRounds]

(* Threads that go by the codes of the lock, try-lock and timed lock       *)
(* functions, and of schConditionalWait, are never together in a section   *)
(* that one of them has locked exclusively.                                *)
SectionsExclude ==
    \A t, u \in Threads :
        t # u /\ thinks[t] = "exclusive" => thinks[u] = "nothing"

(* A lock that is held is held by a thread that knows it, and will unlock  *)
(* it: no call that gave up, after a timeout or otherwise, has kept it.    *)
NoLockKept ==
    \A t \in Threads : /\ owner = t => thinks[t] = "exclusive"
                       /\ t \in readers => thinks[t] = "shared"

(* Each schSemaphorePost that returned SCH_OK pays for one wait that did:  *)
(* interrupted, timed out and refused calls, and posts at SEM_VALUE_MAX,   *)
(* neither take nor add anything.                                          *)
PostsPayForWaits == value = credit

(* No thread is through a barrier for the nth time before every thread has *)
(* come to it n times, however far ahead some of them are.                 *)
BarrierTogether == \A t, u \in Threads : passed[t] <= entered[u]

(* Whoever leaves the barrier is told SCH_OK, the one thread that gets     *)
(* PTHREAD_BARRIER_SERIAL_THREAD, which is no error number, like the rest. *)
BarrierSaysOk == \A t \in Threads : at[t] = "out" => passed[t] = entered[t]

=============================================================================
