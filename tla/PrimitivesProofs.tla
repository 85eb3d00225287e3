-------------------------- MODULE PrimitivesProofs --------------------------
(***************************************************************************)
(* What the primitives of unix/thread.c guarantee for any number of        *)
(* threads.                                                                *)
(***************************************************************************)
EXTENDS Primitives, TLAPS, FiniteSetTheorems

(* The codes of the error numbers that occur.                              *)
LEMMA CodeFacts ==
    /\ SchError("SUCCESS") = OK
    /\ \A e \in {"ETIMEDOUT", "EBUSY", "EAGAIN", "ENOMEM", "EINTR",
                "EOVERFLOW"} :
           SchError(e) # OK /\ SchError(e) \in Codes
    /\ BarrierCode("SERIAL_THREAD") = OK /\ BarrierCode("SUCCESS") = OK
    /\ OK \in Codes
<1>1. DOMAIN Translation = {"SUCCESS", "ESRCH", "ETIMEDOUT", "EBUSY", "EINVAL",
                            "EPERM", "EAGAIN", "ENOMEM"}
  BY DEF Translation
<1>2. SchError("SUCCESS") = OK
  BY <1>1 DEF SchError, Translation
<1>3. OK \in Codes
  BY <1>1 DEF Codes, Translation
<1>4. ASSUME NEW e \in {"ETIMEDOUT", "EBUSY", "EAGAIN", "ENOMEM"}
      PROVE  SchError(e) # OK /\ SchError(e) \in Codes
  <2>1. SchError(e) = Translation[e] /\ e \in DOMAIN Translation
    BY <1>1, <1>4 DEF SchError
  <2>2. Translation[e] # OK
    BY <1>4 DEF Translation, OK
  <2> QED BY <2>1, <2>2 DEF Codes
<1>5. ASSUME NEW e \in {"EINTR", "EOVERFLOW"}
      PROVE  SchError(e) # OK /\ SchError(e) \in Codes
  BY <1>1, <1>5 DEF SchError, Codes, OK, UNKNOWN
<1>6. BarrierCode("SERIAL_THREAD") = OK /\ BarrierCode("SUCCESS") = OK
  BY <1>2 DEF BarrierCode
<1> QED BY <1>2, <1>3, <1>4, <1>5, <1>6

(* What a lock is, who is in a call and what follows for what they think.  *)
LockCalls == {"schMutexLock", "schMutexTryLock", "schConditionalWait",
              "schLockSpinLock", "schRWLockRead", "schRWLockWrite"}

CallInv ==
    \A t \in Threads :
        /\ at[t] # "out" => thinks[t] = "nothing" /\ life = "live"
        /\ at[t] \in LockCalls => kind \in {"mutex", "spinlock", "rwlock"}
        /\ thinks[t] # "nothing" =>
               life = "live" /\ kind \in {"mutex", "spinlock", "rwlock"}

HolderInv ==
    /\ owner # NoThread => readers = {}
    /\ \A t \in Threads : /\ (owner = t <=> thinks[t] = "exclusive")
                           /\ (t \in readers <=> thinks[t] = "shared")

(* How often the barrier has let t go, whether t has returned or not.      *)
Meetings(t) == passed[t] + (IF t \in released THEN 1 ELSE 0)

BarrierInv ==
    /\ arrived \cap released = {}
    /\ \A t \in arrived \cup released : at[t] = "schWaitBarrier"
    /\ \A t \in Threads :
           entered[t] = passed[t] + (IF at[t] = "schWaitBarrier" THEN 1 ELSE 0)
    /\ \A t, u \in Threads : Meetings(t) = Meetings(u)

PrimInv == PrimTypeOK /\ CallInv /\ HolderInv /\ BarrierInv /\ PostsPayForWaits

(* Which functions belong to a lock, and which to a barrier.               *)
LEMMA BlockingFacts ==
    \A x \in Kinds : \A fn \in Blocking[x] :
        /\ fn # "out" /\ fn # "schConditionalWait"
        /\ fn \in LockCalls => x \in {"mutex", "spinlock", "rwlock"}
        /\ (fn = "schWaitBarrier" <=> x = "barrier")
<1>1. Kinds = {"mutex", "spinlock", "semaphore", "barrier", "rwlock"}
  BY DEF Kinds, Blocking
<1> QED BY <1>1 DEF Blocking, LockCalls

(* As many threads as there are are all of them.                           *)
LEMMA EverybodyThere ==
    ASSUME NEW S \in SUBSET Threads, Cardinality(S) = Cardinality(Threads)
    PROVE  S = Threads
BY FS_Subset, PrimThreadsAssumption

(* Types are kept, and every code is one of the enumeration.               *)
LEMMA TypeStep ==
    ASSUME PrimInv, [Next]_vars
    PROVE  PrimTypeOK'
<1> USE CodeFacts, PrimThreadsAssumption, PrimBoundsAssumption
        DEF PrimInv, PrimTypeOK, lockVars, barrierVars, semVars
<1>1. ASSUME NEW t \in Threads, schMutexLock(t) PROVE PrimTypeOK'
  BY <1>1 DEF schMutexLock, Locks, Free, Returns
<1>2. ASSUME NEW t \in Threads, schLockSpinLock(t) PROVE PrimTypeOK'
  BY <1>2 DEF schLockSpinLock, Locks, Free, Returns
<1>3. ASSUME NEW t \in Threads, schRWLockWrite(t) PROVE PrimTypeOK'
  BY <1>3 DEF schRWLockWrite, Locks, Free, Returns
<1>4. ASSUME NEW t \in Threads, schMutexTryLock(t) PROVE PrimTypeOK'
  BY <1>4 DEF schMutexTryLock, Locks, Free, Refused, Returns
<1>5. ASSUME NEW t \in Threads, ConditionalReturn(t) PROVE PrimTypeOK'
  BY <1>5 DEF ConditionalReturn, Locks, Free, Returns
<1>6. ASSUME NEW t \in Threads, schTryLockSpinLock(t) PROVE PrimTypeOK'
  BY <1>6 DEF schTryLockSpinLock, Locks, Free, Refused, Returns
<1>7. ASSUME NEW t \in Threads, schRWLockRead(t) PROVE PrimTypeOK'
  BY <1>7 DEF schRWLockRead, Returns
<1>8. ASSUME NEW t \in Threads, Unlock(t) PROVE PrimTypeOK'
  BY <1>8 DEF Unlock, Returns
<1>9. ASSUME NEW t \in Threads, schConditionalWait(t) PROVE PrimTypeOK'
  BY <1>9 DEF schConditionalWait
<1>10. ASSUME NEW t \in Threads, schConditionalSignal(t) PROVE PrimTypeOK'
  BY <1>10 DEF schConditionalSignal, Wake, vars
<1>11. ASSUME NEW t \in Threads, SpuriousWakeup(t) PROVE PrimTypeOK'
  BY <1>11 DEF SpuriousWakeup, Wake
<1>12. ASSUME NEW t \in Threads, schSemaphoreWait(t) PROVE PrimTypeOK'
  BY <1>12 DEF schSemaphoreWait, Takes, NotTaken, Returns
<1>13. ASSUME NEW t \in Threads, schSemaphoreTimedWait(t) PROVE PrimTypeOK'
  BY <1>13 DEF schSemaphoreTimedWait, Takes, NotTaken, Returns
<1>14. ASSUME NEW t \in Threads, schSemaphoreTryWait(t) PROVE PrimTypeOK'
  BY <1>14 DEF schSemaphoreTryWait, Takes, NotTaken, Returns
<1>15. ASSUME NEW t \in Threads, schSemaphorePost(t) PROVE PrimTypeOK'
  BY <1>15 DEF schSemaphorePost, Returns
<1>16. ASSUME NEW t \in Threads, Arrive(t) PROVE PrimTypeOK'
  BY <1>16 DEF Arrive
<1>17. ASSUME NEW t \in Threads, schWaitBarrier(t) PROVE PrimTypeOK'
  <2>1. passed[t] + 1 \in 0 .. MaxRounds
    BY <1>17 DEF schWaitBarrier, BarrierInv
  <2> QED BY <1>17, <2>1 DEF schWaitBarrier, Returns
<1>18. ASSUME NEW t \in Threads, Delete(t) PROVE PrimTypeOK'
  BY <1>18 DEF Delete, Unused, Returns
<1>19. ASSUME NEW t \in Threads, NEW e \in {"SUCCESS", "EAGAIN", "ENOMEM"},
Create(t, e)
      PROVE  PrimTypeOK'
  BY <1>19 DEF Create, Returns
<1>20. ASSUME NEW t \in Threads, NEW fn \in Functions, Call(t,
fn) PROVE PrimTypeOK'
  BY <1>20 DEF Call
<1>21. CASE UNCHANGED vars
  BY <1>21 DEF vars
<1> QED BY <1>1, <1>2, <1>3, <1>4, <1>5, <1>6, <1>7, <1>8, <1>9, <1>10, <1>11,
       <1>12, <1>13, <1>14, <1>15, <1>16, <1>17, <1>18, <1>19, <1>20,
       <1>21 DEF Next, Step

(* Who is in a call has nothing locked, and the object exists.             *)
LEMMA CallStep ==
    ASSUME PrimInv, [Next]_vars
    PROVE  CallInv'
<1> USE CodeFacts, PrimThreadsAssumption, PrimBoundsAssumption
        DEF PrimInv, PrimTypeOK, CallInv, LockCalls, lockVars, barrierVars,
            semVars
<1>1. ASSUME NEW t \in Threads, schMutexLock(t) PROVE CallInv'
  BY <1>1 DEF schMutexLock, Locks, Free, Returns
<1>2. ASSUME NEW t \in Threads, schLockSpinLock(t) PROVE CallInv'
  BY <1>2 DEF schLockSpinLock, Locks, Free, Returns
<1>3. ASSUME NEW t \in Threads, schRWLockWrite(t) PROVE CallInv'
  BY <1>3 DEF schRWLockWrite, Locks, Free, Returns
<1>4. ASSUME NEW t \in Threads, schMutexTryLock(t) PROVE CallInv'
  BY <1>4 DEF schMutexTryLock, Locks, Free, Refused, Returns
<1>5. ASSUME NEW t \in Threads, ConditionalReturn(t) PROVE CallInv'
  BY <1>5 DEF ConditionalReturn, Locks, Free, Returns
<1>6. ASSUME NEW t \in Threads, schTryLockSpinLock(t) PROVE CallInv'
  BY <1>6 DEF schTryLockSpinLock, Locks, Free, Refused, Returns
<1>7. ASSUME NEW t \in Threads, schRWLockRead(t) PROVE CallInv'
  BY <1>7 DEF schRWLockRead, Returns
<1>8. ASSUME NEW t \in Threads, Unlock(t) PROVE CallInv'
  BY <1>8 DEF Unlock, Returns
<1>9. ASSUME NEW t \in Threads, schConditionalWait(t) PROVE CallInv'
  BY <1>9 DEF schConditionalWait
<1>10. ASSUME NEW t \in Threads, schConditionalSignal(t) PROVE CallInv'
  BY <1>10 DEF schConditionalSignal, Wake, vars
<1>11. ASSUME NEW t \in Threads, SpuriousWakeup(t) PROVE CallInv'
  BY <1>11 DEF SpuriousWakeup, Wake
<1>12. ASSUME NEW t \in Threads, schSemaphoreWait(t) PROVE CallInv'
  BY <1>12 DEF schSemaphoreWait, Takes, NotTaken, Returns
<1>13. ASSUME NEW t \in Threads, schSemaphoreTimedWait(t) PROVE CallInv'
  BY <1>13 DEF schSemaphoreTimedWait, Takes, NotTaken, Returns
<1>14. ASSUME NEW t \in Threads, schSemaphoreTryWait(t) PROVE CallInv'
  BY <1>14 DEF schSemaphoreTryWait, Takes, NotTaken, Returns
<1>15. ASSUME NEW t \in Threads, schSemaphorePost(t) PROVE CallInv'
  BY <1>15 DEF schSemaphorePost, Returns
<1>16. ASSUME NEW t \in Threads, Arrive(t) PROVE CallInv'
  BY <1>16 DEF Arrive
<1>17. ASSUME NEW t \in Threads, schWaitBarrier(t) PROVE CallInv'
  BY <1>17 DEF schWaitBarrier, Returns
<1>18. ASSUME NEW t \in Threads, Delete(t) PROVE CallInv'
  BY <1>18 DEF Delete, Unused, Returns
<1>19. ASSUME NEW t \in Threads, NEW e \in {"SUCCESS", "EAGAIN", "ENOMEM"},
Create(t, e)
      PROVE  CallInv'
  BY <1>19 DEF Create, Returns
<1>20. ASSUME NEW t \in Threads, NEW fn \in Functions, Call(t,
fn) PROVE CallInv'
  BY <1>20, BlockingFacts DEF Call
<1>21. CASE UNCHANGED vars
  BY <1>21 DEF vars
<1> QED BY <1>1, <1>2, <1>3, <1>4, <1>5, <1>6, <1>7, <1>8, <1>9, <1>10, <1>11,
       <1>12, <1>13, <1>14, <1>15, <1>16, <1>17, <1>18, <1>19, <1>20,
       <1>21 DEF Next, Step

(* The object and what the threads conclude from the codes agree.          *)
LEMMA HolderStep ==
    ASSUME PrimInv, [Next]_vars
    PROVE  HolderInv'
<1> USE CodeFacts, PrimThreadsAssumption, PrimBoundsAssumption
        DEF PrimInv, PrimTypeOK, CallInv, HolderInv, LockCalls, lockVars,
            barrierVars, semVars
<1>1. ASSUME NEW t \in Threads, schMutexLock(t) PROVE HolderInv'
  BY <1>1 DEF schMutexLock, Locks, Free, Returns
<1>2. ASSUME NEW t \in Threads, schLockSpinLock(t) PROVE HolderInv'
  BY <1>2 DEF schLockSpinLock, Locks, Free, Returns
<1>3. ASSUME NEW t \in Threads, schRWLockWrite(t) PROVE HolderInv'
  BY <1>3 DEF schRWLockWrite, Locks, Free, Returns
<1>4. ASSUME NEW t \in Threads, schMutexTryLock(t) PROVE HolderInv'
  BY <1>4 DEF schMutexTryLock, Locks, Free, Refused, Returns
<1>5. ASSUME NEW t \in Threads, ConditionalReturn(t) PROVE HolderInv'
  BY <1>5 DEF ConditionalReturn, Locks, Free, Returns
<1>6. ASSUME NEW t \in Threads, schTryLockSpinLock(t) PROVE HolderInv'
  BY <1>6 DEF schTryLockSpinLock, Locks, Free, Refused, Returns
<1>7. ASSUME NEW t \in Threads, schRWLockRead(t) PROVE HolderInv'
  BY <1>7 DEF schRWLockRead, Returns
<1>8. ASSUME NEW t \in Threads, Unlock(t) PROVE HolderInv'
  <2>1. thinks' = [thinks EXCEPT ![t] = "nothing"]
    BY <1>8 DEF Unlock, Returns
  <2>2. CASE owner = t
    BY <1>8, <2>1, <2>2 DEF Unlock
  <2>3. CASE owner # t
    BY <1>8, <2>1, <2>3 DEF Unlock
  <2> QED BY <2>2, <2>3
<1>9. ASSUME NEW t \in Threads, schConditionalWait(t) PROVE HolderInv'
  <2>1. owner = t /\ readers' = {}
    BY <1>9 DEF schConditionalWait
  <2>2. \A u \in Threads \ {t} : thinks'[u] = thinks[u] /\ thinks[u] = "nothing"
    BY <1>9, <2>1 DEF schConditionalWait
  <2>3. thinks'[t] = "nothing" /\ owner' = NoThread
    BY <1>9 DEF schConditionalWait
  <2> QED BY <2>1, <2>2, <2>3
<1>10. ASSUME NEW t \in Threads, schConditionalSignal(t) PROVE HolderInv'
  BY <1>10 DEF schConditionalSignal, Wake, vars
<1>11. ASSUME NEW t \in Threads, SpuriousWakeup(t) PROVE HolderInv'
  BY <1>11 DEF SpuriousWakeup, Wake
<1>12. ASSUME NEW t \in Threads, schSemaphoreWait(t) PROVE HolderInv'
  BY <1>12 DEF schSemaphoreWait, Takes, NotTaken, Returns
<1>13. ASSUME NEW t \in Threads, schSemaphoreTimedWait(t) PROVE HolderInv'
  BY <1>13 DEF schSemaphoreTimedWait, Takes, NotTaken, Returns
<1>14. ASSUME NEW t \in Threads, schSemaphoreTryWait(t) PROVE HolderInv'
  BY <1>14 DEF schSemaphoreTryWait, Takes, NotTaken, Returns
<1>15. ASSUME NEW t \in Threads, schSemaphorePost(t) PROVE HolderInv'
  BY <1>15 DEF schSemaphorePost, Returns
<1>16. ASSUME NEW t \in Threads, Arrive(t) PROVE HolderInv'
  BY <1>16 DEF Arrive
<1>17. ASSUME NEW t \in Threads, schWaitBarrier(t) PROVE HolderInv'
  BY <1>17 DEF BarrierInv, schWaitBarrier, Returns
<1>18. ASSUME NEW t \in Threads, Delete(t) PROVE HolderInv'
  BY <1>18 DEF Delete, Unused, Returns
<1>19. ASSUME NEW t \in Threads, NEW e \in {"SUCCESS", "EAGAIN", "ENOMEM"},
Create(t, e)
      PROVE  HolderInv'
  BY <1>19 DEF Create, Returns
<1>20. ASSUME NEW t \in Threads, NEW fn \in Functions, Call(t,
fn) PROVE HolderInv'
  BY <1>20 DEF Call
<1>21. CASE UNCHANGED vars
  BY <1>21 DEF vars
<1> QED BY <1>1, <1>2, <1>3, <1>4, <1>5, <1>6, <1>7, <1>8, <1>9, <1>10, <1>11,
       <1>12, <1>13, <1>14, <1>15, <1>16, <1>17, <1>18, <1>19, <1>20,
       <1>21 DEF Next, Step

(* All threads have been let go equally often.                             *)
LEMMA BarrierStep ==
    ASSUME PrimInv, [Next]_vars
    PROVE  BarrierInv'
<1> USE CodeFacts, PrimThreadsAssumption, PrimBoundsAssumption
        DEF PrimInv, PrimTypeOK, CallInv, BarrierInv, Meetings, LockCalls,
            lockVars, barrierVars, semVars
<1>1. ASSUME NEW t \in Threads, schMutexLock(t) PROVE BarrierInv'
  BY <1>1 DEF schMutexLock, Locks, Free, Returns
<1>2. ASSUME NEW t \in Threads, schLockSpinLock(t) PROVE BarrierInv'
  BY <1>2 DEF schLockSpinLock, Locks, Free, Returns
<1>3. ASSUME NEW t \in Threads, schRWLockWrite(t) PROVE BarrierInv'
  BY <1>3 DEF schRWLockWrite, Locks, Free, Returns
<1>4. ASSUME NEW t \in Threads, schMutexTryLock(t) PROVE BarrierInv'
  BY <1>4 DEF schMutexTryLock, Locks, Free, Refused, Returns
<1>5. ASSUME NEW t \in Threads, ConditionalReturn(t) PROVE BarrierInv'
  BY <1>5 DEF ConditionalReturn, Locks, Free, Returns
<1>6. ASSUME NEW t \in Threads, schTryLockSpinLock(t) PROVE BarrierInv'
  BY <1>6 DEF schTryLockSpinLock, Locks, Free, Refused, Returns
<1>7. ASSUME NEW t \in Threads, schRWLockRead(t) PROVE BarrierInv'
  BY <1>7 DEF schRWLockRead, Returns
<1>8. ASSUME NEW t \in Threads, Unlock(t) PROVE BarrierInv'
  BY <1>8 DEF Unlock, Returns
<1>9. ASSUME NEW t \in Threads, schConditionalWait(t) PROVE BarrierInv'
  BY <1>9 DEF schConditionalWait
<1>10. ASSUME NEW t \in Threads, schConditionalSignal(t) PROVE BarrierInv'
  BY <1>10 DEF schConditionalSignal, Wake, vars
<1>11. ASSUME NEW t \in Threads, SpuriousWakeup(t) PROVE BarrierInv'
  BY <1>11 DEF SpuriousWakeup, Wake
<1>12. ASSUME NEW t \in Threads, schSemaphoreWait(t) PROVE BarrierInv'
  BY <1>12 DEF schSemaphoreWait, Takes, NotTaken, Returns
<1>13. ASSUME NEW t \in Threads, schSemaphoreTimedWait(t) PROVE BarrierInv'
  BY <1>13 DEF schSemaphoreTimedWait, Takes, NotTaken, Returns
<1>14. ASSUME NEW t \in Threads, schSemaphoreTryWait(t) PROVE BarrierInv'
  BY <1>14 DEF schSemaphoreTryWait, Takes, NotTaken, Returns
<1>15. ASSUME NEW t \in Threads, schSemaphorePost(t) PROVE BarrierInv'
  BY <1>15 DEF schSemaphorePost, Returns
<1>16. ASSUME NEW t \in Threads, Arrive(t) PROVE BarrierInv'
  <2>1. CASE Cardinality(arrived \cup {t}) = Count
    <3>1. arrived \cup {t} = Threads
      BY <2>1, EverybodyThere DEF Count
    <3>2. released = {}
      BY <1>16, <3>1 DEF Arrive
    <3>3. arrived' = {} /\ released' = Threads /\ UNCHANGED <<at, entered,
    passed>>
      BY <1>16, <2>1, <3>1, <3>2 DEF Arrive
    <3>4. \A u \in Threads : at[u] = "schWaitBarrier"
      BY <1>16, <3>1 DEF Arrive
    <3>5. \A u, v \in Threads : passed[u] = passed[v]
      BY <3>2
    <3> QED BY <3>3, <3>4, <3>5
  <2>2. CASE Cardinality(arrived \cup {t}) # Count
    BY <1>16, <2>2 DEF Arrive
  <2> QED BY <2>1, <2>2
<1>17. ASSUME NEW t \in Threads, schWaitBarrier(t) PROVE BarrierInv'
  BY <1>17 DEF schWaitBarrier, Returns
<1>18. ASSUME NEW t \in Threads, Delete(t) PROVE BarrierInv'
  BY <1>18 DEF Delete, Unused, Returns
<1>19. ASSUME NEW t \in Threads, NEW e \in {"SUCCESS", "EAGAIN", "ENOMEM"},
Create(t, e)
      PROVE  BarrierInv'
  BY <1>19 DEF Create, Returns
<1>20. ASSUME NEW t \in Threads, NEW fn \in Functions, Call(t,
fn) PROVE BarrierInv'
  BY <1>20, BlockingFacts DEF Call
<1>21. CASE UNCHANGED vars
  BY <1>21 DEF vars
<1> QED BY <1>1, <1>2, <1>3, <1>4, <1>5, <1>6, <1>7, <1>8, <1>9, <1>10, <1>11,
       <1>12, <1>13, <1>14, <1>15, <1>16, <1>17, <1>18, <1>19, <1>20,
       <1>21 DEF Next, Step

(* Only a call that returns SCH_OK changes the value.                      *)
LEMMA PostStep ==
    ASSUME PrimInv, [Next]_vars
    PROVE  PostsPayForWaits'
<1> USE CodeFacts, PrimThreadsAssumption, PrimBoundsAssumption
        DEF PrimInv, PrimTypeOK, PostsPayForWaits, lockVars, barrierVars,
            semVars
<1>1. ASSUME NEW t \in Threads, schMutexLock(t) PROVE PostsPayForWaits'
  BY <1>1 DEF schMutexLock, Locks, Free, Returns
<1>2. ASSUME NEW t \in Threads, schLockSpinLock(t) PROVE PostsPayForWaits'
  BY <1>2 DEF schLockSpinLock, Locks, Free, Returns
<1>3. ASSUME NEW t \in Threads, schRWLockWrite(t) PROVE PostsPayForWaits'
  BY <1>3 DEF schRWLockWrite, Locks, Free, Returns
<1>4. ASSUME NEW t \in Threads, schMutexTryLock(t) PROVE PostsPayForWaits'
  BY <1>4 DEF schMutexTryLock, Locks, Free, Refused, Returns
<1>5. ASSUME NEW t \in Threads, ConditionalReturn(t) PROVE PostsPayForWaits'
  BY <1>5 DEF ConditionalReturn, Locks, Free, Returns
<1>6. ASSUME NEW t \in Threads, schTryLockSpinLock(t) PROVE PostsPayForWaits'
  BY <1>6 DEF schTryLockSpinLock, Locks, Free, Refused, Returns
<1>7. ASSUME NEW t \in Threads, schRWLockRead(t) PROVE PostsPayForWaits'
  BY <1>7 DEF schRWLockRead, Returns
<1>8. ASSUME NEW t \in Threads, Unlock(t) PROVE PostsPayForWaits'
  BY <1>8 DEF Unlock, Returns
<1>9. ASSUME NEW t \in Threads, schConditionalWait(t) PROVE PostsPayForWaits'
  BY <1>9 DEF schConditionalWait
<1>10. ASSUME NEW t \in Threads, schConditionalSignal(t) PROVE PostsPayForWaits'
  BY <1>10 DEF schConditionalSignal, Wake, vars
<1>11. ASSUME NEW t \in Threads, SpuriousWakeup(t) PROVE PostsPayForWaits'
  BY <1>11 DEF SpuriousWakeup, Wake
<1>12. ASSUME NEW t \in Threads, schSemaphoreWait(t) PROVE PostsPayForWaits'
  BY <1>12 DEF schSemaphoreWait, Takes, NotTaken, Returns
<1>13. ASSUME NEW t \in Threads,
schSemaphoreTimedWait(t) PROVE PostsPayForWaits'
  BY <1>13 DEF schSemaphoreTimedWait, Takes, NotTaken, Returns
<1>14. ASSUME NEW t \in Threads, schSemaphoreTryWait(t) PROVE PostsPayForWaits'
  BY <1>14 DEF schSemaphoreTryWait, Takes, NotTaken, Returns
<1>15. ASSUME NEW t \in Threads, schSemaphorePost(t) PROVE PostsPayForWaits'
  BY <1>15 DEF schSemaphorePost, Returns
<1>16. ASSUME NEW t \in Threads, Arrive(t) PROVE PostsPayForWaits'
  BY <1>16 DEF Arrive
<1>17. ASSUME NEW t \in Threads, schWaitBarrier(t) PROVE PostsPayForWaits'
  BY <1>17 DEF schWaitBarrier, Returns
<1>18. ASSUME NEW t \in Threads, Delete(t) PROVE PostsPayForWaits'
  BY <1>18 DEF Delete, Unused, Returns
<1>19. ASSUME NEW t \in Threads, NEW e \in {"SUCCESS", "EAGAIN", "ENOMEM"},
Create(t, e)
      PROVE  PostsPayForWaits'
  BY <1>19 DEF Create, Returns
<1>20. ASSUME NEW t \in Threads, NEW fn \in Functions, Call(t,
fn) PROVE PostsPayForWaits'
  BY <1>20 DEF Call
<1>21. CASE UNCHANGED vars
  BY <1>21 DEF vars
<1> QED BY <1>1, <1>2, <1>3, <1>4, <1>5, <1>6, <1>7, <1>8, <1>9, <1>10, <1>11,
       <1>12, <1>13, <1>14, <1>15, <1>16, <1>17, <1>18, <1>19, <1>20,
       <1>21 DEF Next, Step

(* The inductive invariant.                                                *)
LEMMA PrimInvariant == Spec => []PrimInv
<1>1. Init => PrimInv
  <2> SUFFICES ASSUME Init PROVE PrimInv
    OBVIOUS
  <2> USE PrimThreadsAssumption, PrimBoundsAssumption DEF Init
  <2>1. PrimTypeOK
    BY CodeFacts DEF PrimTypeOK
  <2>2. CallInv /\ HolderInv /\ PostsPayForWaits
    BY DEF CallInv, HolderInv, LockCalls, PostsPayForWaits
  <2>3. BarrierInv
    BY DEF BarrierInv, Meetings
  <2> QED BY <2>1, <2>2, <2>3 DEF PrimInv
<1>2. PrimInv /\ [Next]_vars => PrimInv'
  BY TypeStep, CallStep, HolderStep, BarrierStep, PostStep DEF PrimInv
<1> QED BY <1>1, <1>2, PTL DEF Spec

(* Whatever the threads call, no two of them are in a section that one of  *)
(* them has locked exclusively, going by the return values of the lock,    *)
(* try-lock and wait functions alone (thread.c).                           *)
THEOREM CodesProtectSections == Spec => []SectionsExclude
<1>1. PrimInv => SectionsExclude
  BY PrimThreadsAssumption
     DEF PrimInv, HolderInv, SectionsExclude, PrimTypeOK
<1> QED BY <1>1, PrimInvariant, PTL

(* A lock that is held is held by a thread whose call reported success: no *)
(* call that timed out, was refused or was interrupted has kept it.        *)
THEOREM FailureKeepsNoLock == Spec => []NoLockKept
<1>1. PrimInv => NoLockKept
  BY PrimThreadsAssumption DEF PrimInv, HolderInv, NoLockKept, PrimTypeOK
<1> QED BY <1>1, PrimInvariant, PTL

(* The semaphore functions report exactly what they do: the value is the   *)
(* number of successful posts less that of successful waits.               *)
THEOREM SemaphoreBalances == Spec => []PostsPayForWaits
BY PrimInvariant, PTL DEF PrimInv

(* With as many threads as schInitBarrier was told of, nobody leaves a     *)
(* meeting before all have come to it.                                     *)
THEOREM BarrierHolds == Spec => []BarrierTogether
<1>1. PrimInv => BarrierTogether
  <2> SUFFICES ASSUME PrimInv PROVE BarrierTogether
    OBVIOUS
  <2> USE DEF PrimInv, PrimTypeOK, BarrierInv
  <2>1. \A t \in Threads : passed[t] <= Meetings(t) /\ Meetings(t) <= entered[t]
    BY DEF Meetings
  <2>2. \A t \in Threads : Meetings(t) \in Int
    BY DEF Meetings
  <2> QED BY <2>1, <2>2 DEF BarrierTogether
<1> QED BY <1>1, PrimInvariant, PTL

(* Whoever leaves a meeting is told SCH_OK, the one thread that gets       *)
(* PTHREAD_BARRIER_SERIAL_THREAD included.                                 *)
THEOREM BarrierTellsOk == Spec => []BarrierSaysOk
<1>1. PrimInv => BarrierSaysOk
  BY DEF PrimInv, PrimTypeOK, BarrierInv, BarrierSaysOk
<1> QED BY <1>1, PrimInvariant, PTL

(* Every field keeps its type and every call returns one of the codes.     *)
THEOREM PrimitivesTyped == Spec => []PrimTypeOK
BY PrimInvariant, PTL DEF PrimInv

=============================================================================
