--------------------------- MODULE TaskSchProofs ---------------------------
(***************************************************************************)
(* Theorems about the running scheduler, for any number of pools, slots,   *)
(* packages and application threads.                                       *)
(***************************************************************************)
EXTENDS TaskSch, RingArithmetic, FiniteSetTheorems, TLAPS

----------------------------------------------------------------------------
(* Types.  A call that uses its loop index to reach a pool has a pool      *)
(* there, and a pool thread about to dequeue has a package to take: only   *)
(* that thread makes its queue shorter, so the size it read at sch.c:80    *)
(* cannot be stale in the dangerous direction.                             *)

IndexInv ==
    \A c \in Clients :
        cpc[c] \in {"enqueue", "size", "flag", "raise", "scansize", "join"}
            => cidx[c] \in Pools

DequeueInv == \A p \in Pools : pc[p] = "dequeue" => size[p] > 0

TypeInv == TypeOK /\ IndexInv /\ DequeueInv

USE DEF ringVars, execVars, callVars, clientVars, poolVars, schVars, foreign,
        Full, Passed, Asleep, AllJoined, ClearRunning, AfterSignal

(* The slot after a slot.                                                  *)
LEMMA NextSlot ==
    ASSUME NEW s \in Slots
    PROVE  Advance(s) \in Slots
<1>1. s + 1 \in Nat
  BY ReservedAssumption DEF Slots
<1> QED BY <1>1, ReservedAssumption, DivMod DEF Slots, Advance

(* A loop index is a pool or the end of the loop.                          *)
LEMMA Indices ==
    /\ 0 \in 0 .. NumPools /\ NumPools \in 0 .. NumPools
    /\ \A i \in 0 .. NumPools : i # NumPools => i \in Pools
    /\ \A i \in 0 .. NumPools : i < NumPools => i \in Pools
    /\ \A i \in Pools : i \in 0 .. NumPools /\ i + 1 \in 0 .. NumPools
  BY PoolsAssumption DEF Pools

(* The state schCreateTaskPool leaves behind.                              *)
LEMMA TypeInit == Init => TypeInv
  BY PoolsAssumption, ReservedAssumption
  DEF Init, TypeInv, TypeOK, IndexInv, DequeueInv, Pools, Slots, PublicCalls,
      ExecPcs, ClientPcs

(* The steps of a pool thread keep the types.                              *)
LEMMA TypeExecutor ==
    ASSUME TypeInv, NEW p \in Pools, Executor(p)
    PROVE  TypeInv'
<1> USE PoolsAssumption, ReservedAssumption DEF TypeInv, TypeOK, IndexInv, DequeueInv
<1>1. CASE ExecStart(p)
  BY <1>1 DEF ExecStart, Exec, ExecPcs
<1>2. CASE ExecLoop(p)
  BY <1>2 DEF ExecLoop, Exec, ExecPcs
<1>3. CASE ExecDequeue(p)
  <2>1. Advance(head[p]) \in Slots
    BY NextSlot
  <2>2. head' \in [Pools -> Slots] /\ cur' \in [Pools -> Slots]
    BY <1>3, <2>1 DEF ExecDequeue, Dequeue
  <2>3. size' \in [Pools -> Nat]
    BY <1>3 DEF ExecDequeue, Exec, Dequeue
  <2> QED
    BY <1>3, <2>2, <2>3 DEF ExecDequeue, Exec, ExecPcs, Dequeue
<1>4. CASE ExecFetch(p)
  BY <1>4 DEF ExecFetch, Exec, ExecPcs
<1>5. CASE ExecReturn(p)
  BY <1>5, SMTT(30) DEF ExecReturn, Exec, ExecPcs
<1>6. CASE ExecIdle(p)
  BY <1>6 DEF ExecIdle, Exec, ExecPcs, setPoolIdle, Xor
<1>7. CASE ExecIdleAgain(p)
  BY <1>7 DEF ExecIdleAgain, Exec, ExecPcs, setPoolIdle, Xor
<1>8. CASE ExecReport(p)
  BY <1>8 DEF ExecReport, Exec, ExecPcs
<1>9. CASE ExecWait(p)
  BY <1>9 DEF ExecWait, schSignalWait, Exec, ExecPcs
<1>10. CASE ExecWake(p)
  BY <1>10 DEF ExecWake, Exec, ExecPcs, setPoolRunning, Xor
<1>11. CASE ExecExit(p)
  BY <1>11 DEF ExecExit, Exec, ExecPcs, setPoolTerminated, Xor
<1> QED
  BY <1>1, <1>2, <1>3, <1>4, <1>5, <1>6, <1>7, <1>8, <1>9, <1>10, <1>11
  DEF Executor

(* So do the steps of a client inside a call.                              *)
LEMMA TypeProceed ==
    ASSUME TypeInv, NEW c \in Clients, Proceed(c)
    PROVE  TypeInv'
<1> USE Indices DEF TypeInv, TypeOK, IndexInv, DequeueInv
<1>1. CASE RunCreate(c)
  BY <1>1 DEF RunCreate, schCreateThread, Goto, SetIdx, ClientPcs, ExecPcs
<1>2. CASE RunCreateFails(c)
  BY <1>2, SMTT(30) DEF RunCreateFails, Goto, SetIdx, ClientPcs
<1>3. CASE RunCreated(c)
  BY <1>3 DEF RunCreated, Goto, SetIdx, ClientPcs
<1>4. CASE RunRaise(c)
  BY <1>4 DEF RunRaise, Goto, SetIdx, ClientPcs, Raise, Signals
<1>5. CASE RunReturn(c)
  BY <1>5 DEF RunReturn, Goto, SetIdx, ClientPcs
<1>6. CASE SubmitEnqueue(c)
  <2> DEFINE q == cidx[c]
  <2>1. q \in Pools /\ job[c] \in Nat
    BY <1>6 DEF SubmitEnqueue, Goto
  <2>2. package' \in [Pools -> [Slots -> Nat]]
    BY <1>6, <2>1 DEF SubmitEnqueue, Enqueue
  <2>3. tail' \in [Pools -> Slots]
    BY <1>6, <2>1, NextSlot DEF SubmitEnqueue, Enqueue
  <2>4. size' \in [Pools -> Nat] /\ DequeueInv'
    BY <1>6, <2>1 DEF SubmitEnqueue, Enqueue
  <2>5. acc' \in [Pools -> Seq(Nat)]
    BY <1>6, <2>1 DEF SubmitEnqueue, Enqueue
  <2>6. cpc' \in [Clients -> ClientPcs] /\ IndexInv'
    BY <1>6, <2>1 DEF SubmitEnqueue, Goto, ClientPcs
  <2> QED
    BY <1>6, <2>2, <2>3, <2>4, <2>5, <2>6 DEF SubmitEnqueue, Enqueue
<1>7. CASE SubmitSize(c)
  BY <1>7 DEF SubmitSize, Goto, SetIdx, ClientPcs
<1>8. CASE SubmitFlag(c)
  BY <1>8 DEF SubmitFlag, Goto, SetIdx, ClientPcs
<1>9. CASE SubmitRaise(c)
  BY <1>9 DEF SubmitRaise, Goto, SetIdx, ClientPcs, Raise, Signals
<1>10. CASE WaitGate(c)
  BY <1>10 DEF WaitGate, Goto, SetIdx, ClientPcs
<1>11. CASE WaitFlag(c)
  BY <1>11 DEF WaitFlag, Goto, SetIdx, ClientPcs
<1>12. CASE WaitPoll(c)
  BY <1>12 DEF WaitPoll, Goto, SetIdx, ClientPcs, vars
<1>13. CASE WaitSize(c)
  BY <1>13 DEF WaitSize, Goto, SetIdx, ClientPcs
<1>14. CASE WaitReturn(c)
  BY <1>14 DEF WaitReturn, Goto, SetIdx, ClientPcs
<1>15. CASE StopRaise(c)
  BY <1>15 DEF StopRaise, Goto, SetIdx, ClientPcs, Raise, Signals
<1>16. CASE StopReturn(c)
  BY <1>16 DEF StopReturn, Goto, SetIdx, ClientPcs
<1>17. CASE TerminateKill(c)
  <2>1. PICK q \in Pools : q = cidx[c]
    BY <1>17 DEF TerminateKill
  <2>2. UNCHANGED <<schFlag, flag, ringVars, refThread, execVars, callVars>>
    BY <1>17 DEF TerminateKill
  <2>3. CASE pc[cidx[c]] # "none"
    <3>1. /\ cpc' = [cpc EXCEPT ![c] = "join"] /\ cidx' = cidx
          /\ pending' = [pending EXCEPT ![q] = pending[q] \cup {"TERM"}]
      BY <1>17, <2>1, <2>3 DEF TerminateKill, Goto, Raise
    <3> QED BY <2>1, <2>2, <3>1 DEF ClientPcs, Signals
  <2>4. CASE pc[cidx[c]] = "none"
    <3>1. /\ cpc' = [cpc EXCEPT ![c] = "kill"] /\ pending' = pending
          /\ cidx' = [cidx EXCEPT ![c] = q + 1]
      BY <1>17, <2>1, <2>4 DEF TerminateKill, Goto, SetIdx
    <3> QED BY <2>1, <2>2, <3>1 DEF ClientPcs
  <2> QED BY <2>3, <2>4
<1>18. CASE TerminateJoin(c)
  BY <1>18 DEF TerminateJoin, schWaitThread, Goto, SetIdx, ClientPcs, ExecPcs
<1>19. CASE TerminateReturn(c)
  BY <1>19 DEF TerminateReturn, Goto, SetIdx, ClientPcs
<1>20. CASE ReleaseFree(c)
  BY <1>20 DEF ReleaseFree, Goto, SetIdx, ClientPcs
<1> QED
  BY <1>1, <1>2, <1>3, <1>4, <1>5, <1>6, <1>7, <1>8, <1>9, <1>10,
     <1>11, <1>12, <1>13, <1>14, <1>15, <1>16, <1>17, <1>18, <1>19, <1>20
  DEF Proceed

(* And the steps that begin a call.                                        *)
LEMMA TypeBegin ==
    ASSUME TypeInv, NEW c \in Clients, Begin(c)
    PROVE  TypeInv'
<1> USE Indices DEF TypeInv, TypeOK, IndexInv, DequeueInv
<1>1. CASE RunCall(c)
  BY <1>1 DEF RunCall, Call, Goto, SetIdx, ClientPcs, PublicCalls
<1>2. ASSUME NEW p \in Pools, SubmitCall(c, p) PROVE TypeInv'
  <2>1. /\ cpc' = [cpc EXCEPT ![c] = "enqueue"] /\ cidx' = [cidx EXCEPT ![c] = p]
        /\ op' = [op EXCEPT ![c] = "submit"] /\ issued' = issued + 1
        /\ job' = [job EXCEPT ![c] = issued + 1]
        /\ UNCHANGED <<schVars, runs, failures>>
    BY <1>2 DEF SubmitCall, Call, Goto, SetIdx
  <2>2. /\ cpc' \in [Clients -> ClientPcs] /\ cidx' \in [Clients -> 0 .. NumPools]
        /\ IndexInv'
    BY <2>1 DEF ClientPcs
  <2>3. /\ op' \in [Clients -> PublicCalls] /\ issued' \in Nat
        /\ job' \in [Clients -> Nat]
    BY <2>1 DEF PublicCalls
  <2> QED BY <2>1, <2>2, <2>3
<1>3. CASE WaitCall(c)
  BY <1>3 DEF WaitCall, Call, Goto, SetIdx, ClientPcs, PublicCalls
<1>4. CASE StopCall(c)
  BY <1>4 DEF StopCall, Call, Goto, SetIdx, ClientPcs, PublicCalls
<1>5. CASE ReleaseCall(c)
  BY <1>5 DEF ReleaseCall, Call, Goto, SetIdx, ClientPcs, PublicCalls
<1> QED
  BY <1>1, <1>2, <1>3, <1>4, <1>5 DEF Begin

(* Every step keeps the types.                                             *)
LEMMA TypeStep == TypeInv /\ [Next]_vars => TypeInv'
<1> SUFFICES ASSUME TypeInv, [Next]_vars PROVE TypeInv'
  OBVIOUS
<1>1. ASSUME NEW p \in Pools, Executor(p) PROVE TypeInv'
  BY <1>1, TypeExecutor
<1>2. ASSUME NEW c \in Clients, Proceed(c) PROVE TypeInv'
  BY <1>2, TypeProceed
<1>3. ASSUME NEW c \in Clients, Begin(c) PROVE TypeInv'
  BY <1>3, TypeBegin
<1>4. CASE UNCHANGED vars
  BY <1>4 DEF vars, TypeInv, TypeOK, IndexInv, DequeueInv
<1> QED
  BY <1>1, <1>2, <1>3, <1>4 DEF Next, AfterRelease

(* The scheduler keeps its types: the ring indices stay inside the ring,   *)
(* and no pool thread takes the size of its queue below zero, although     *)
(* schPoolExecutor reads it before schQueueMutexEnDeQueue takes the lock.  *)
THEOREM TypeCorrect == Spec => []TypeOK
<1>1. TypeInv => TypeOK
  BY DEF TypeInv
<1> QED
  BY TypeInit, TypeStep, <1>1, PTL DEF Spec
----------------------------------------------------------------------------
(* What the steps leave alone.                                             *)

(* A pool thread touches nothing of the application threads.  Apart from   *)
(* its dequeue, its fetch and the return of a callback, it leaves the      *)
(* queues alone and neither starts nor ends holding a package.             *)
LEMMA ExecutorFrame ==
    ASSUME TypeInv, NEW p \in Pools, Executor(p)
    PROVE  /\ UNCHANGED <<clientVars, schFlag, refThread>>
           /\ pc[p] # "none" /\ pc'[p] # "none"
           /\ pc' = [pc EXCEPT ![p] = pc'[p]]
           /\ \/ ExecDequeue(p) \/ ExecFetch(p) \/ ExecReturn(p)
              \/ /\ ~Holds(p) /\ ~Holds(p)'
                 /\ UNCHANGED <<ringVars, ran>>
  BY DEF Executor, ExecStart, ExecLoop, ExecDequeue, ExecFetch, ExecReturn,
         ExecIdle, ExecIdleAgain, ExecReport, ExecWait, schSignalWait,
             ExecWake, ExecExit,
         Exec, Holds, Dequeue, TypeInv, TypeOK

(* A client is alone in moving itself, and only three steps of a call      *)
(* touch the queues or the threads.                                        *)
LEMMA ClientFrame ==
    ASSUME TypeInv, NEW c \in Clients, Proceed(c) \/ Begin(c)
    PROVE  /\ \A d \in Clients : d # c => cpc'[d] = cpc[d] /\ cidx'[d] = cidx[d]
           /\ ran' = ran
           /\ \/ RunCreate(c) \/ TerminateJoin(c) \/ SubmitEnqueue(c)
              \/ UNCHANGED <<ringVars, execVars>>
<1>1. CASE Proceed(c)
  BY <1>1 DEF Proceed, RunCreate, schCreateThread, RunCreateFails, RunCreated,
      RunRaise, RunReturn,
         SubmitEnqueue, SubmitSize, SubmitFlag, SubmitRaise, WaitGate,
         WaitFlag, WaitPoll, WaitSize, WaitReturn, StopRaise, StopReturn,
         TerminateKill, TerminateJoin, schWaitThread, TerminateReturn,
             ReleaseFree, Goto,
         SetIdx, vars, TypeInv, TypeOK
<1>2. CASE Begin(c)
  BY <1>2
     DEF Begin, RunCall, SubmitCall, WaitCall, StopCall, ReleaseCall, Call, Goto,
         SetIdx, TypeInv, TypeOK
<1> QED BY <1>1, <1>2

----------------------------------------------------------------------------
(* The ring.                                                               *)

(* Enqueue and dequeue keep the counters of a ring in step.               *)
LEMMA RingStep ==
    ASSUME TypeInv, RingConsistent, [Next]_vars
    PROVE  RingConsistent'
<1>1. CASE UNCHANGED ringVars
  BY <1>1 DEF RingConsistent
<1>2. ASSUME NEW p \in Pools, ExecDequeue(p) PROVE RingConsistent'
  <2>1. size[p] \in Nat \ {0} /\ head[p] \in 0 .. Reserved - 1
    BY <1>2 DEF ExecDequeue, Exec, TypeInv, TypeOK, DequeueInv, Slots
  <2>2. (((head[p] + 1) % Reserved) + (size[p] - 1)) % Reserved
          = (head[p] + size[p]) % Reserved
    BY <2>1, ReservedAssumption, ModDequeue
  <2> QED
    BY <1>2, <2>2 DEF ExecDequeue, Dequeue, Advance, RingConsistent, TypeInv,
                      TypeOK
<1>3. ASSUME NEW c \in Clients, SubmitEnqueue(c) PROVE RingConsistent'
  <2> DEFINE q == cidx[c]
  <2>1. q \in Pools
    BY <1>3 DEF SubmitEnqueue, Goto, TypeInv, IndexInv
  <2>2. head[q] + size[q] \in Nat
    BY <2>1 DEF TypeInv, TypeOK, Slots
  <2>3. (tail[q] + 1) % Reserved = (head[q] + size[q] + 1) % Reserved
    BY <2>1, <2>2, ReservedAssumption, ModSucc DEF RingConsistent
  <2>4. head[q] + (size[q] + 1) = head[q] + size[q] + 1
    BY <2>1 DEF TypeInv, TypeOK, Slots
  <2> QED
    BY <1>3, <2>1, <2>3, <2>4
    DEF SubmitEnqueue, Enqueue, Advance, RingConsistent, TypeInv, TypeOK
<1>4. ASSUME NEW p \in Pools, Executor(p) PROVE RingConsistent'
  BY <1>1, <1>2, <1>4, ExecutorFrame DEF ExecFetch, ExecReturn
<1>5. ASSUME NEW c \in Clients, Proceed(c) \/ Begin(c) PROVE RingConsistent'
  BY <1>1, <1>3, <1>5, ClientFrame
     DEF RunCreate, schCreateThread, TerminateJoin, schWaitThread
<1> QED
  BY <1>1, <1>4, <1>5 DEF Next, AfterRelease, vars

(* An empty ring is in step.                                               *)
LEMMA RingInit == Init => RingConsistent
<1>1. 0 % Reserved = 0
  BY ReservedAssumption, ModSmall
<1> QED BY <1>1 DEF Init, RingConsistent

(* The counters of every ring agree at all times, whatever the application *)
(* threads and the pool threads do, even when a queue has been overfilled. *)
THEOREM RingAlwaysConsistent == Spec => []RingConsistent
  BY RingInit, TypeInit, TypeStep, RingStep, PTL DEF Spec

----------------------------------------------------------------------------
(* Accounting, when at most one application thread starts the scheduler:   *)
(* schRunTaskSch refuses no second call, and would put a second thread on  *)
(* a pool.                                                                 *)

SoleRunner ==
    \A c, d \in Clients : "run" \in Calls[c] /\ "run" \in Calls[d] => c = d

(* The pools schRunTaskSch has not come to yet have no thread.             *)
CreateInv ==
    \A c \in Clients : cpc[c] = "create" =>
        /\ "run" \in Calls[c]
        /\ \A p \in Pools : p >= cidx[c] => pc[p] = "none"

(* TasksAccounted, with the package in progress as a number.               *)
AccountInv ==
    \A p \in Pools :
        Len(acc[p]) = Len(ran[p]) + size[p] + (IF Holds(p) THEN 1 ELSE 0)

(* No step gives a thread to a pool schRunTaskSch has not come to.         *)
LEMMA CreateStep ==
    ASSUME SoleRunner, TypeInv, CreateInv, [Next]_vars
    PROVE  CreateInv'
<1>1. ASSUME NEW p \in Pools, Executor(p) PROVE CreateInv'
  BY <1>1, ExecutorFrame DEF CreateInv, TypeInv, TypeOK
<1>2. ASSUME NEW c \in Clients, RunCreate(c) PROVE CreateInv'
  <2> SUFFICES ASSUME NEW d \in Clients, cpc'[d] = "create"
               PROVE  /\ "run" \in Calls[d]
                      /\ \A p \in Pools : p >= cidx'[d] => pc'[p] = "none"
    BY DEF CreateInv
  <2>1. cpc[c] = "create" /\ cpc[d] = "create"
    BY <1>2 DEF RunCreate, schCreateThread, Goto, TypeInv, TypeOK
  <2>2. d = c
    BY <2>1 DEF CreateInv, SoleRunner
  <2>3. cidx'[c] = cidx[c] + 1 /\ cidx[c] \in Int
    BY <1>2 DEF RunCreate, schCreateThread, SetIdx, TypeInv, TypeOK
  <2>4. \A p \in Pools : p # cidx[c] => pc'[p] = pc[p]
    BY <1>2 DEF RunCreate, schCreateThread, TypeInv, TypeOK
  <2>5. \A p \in Pools : p >= cidx[c] + 1 => p >= cidx[c] /\ p # cidx[c]
    BY <2>3 DEF Pools
  <2> QED BY <2>1, <2>2, <2>3, <2>4, <2>5 DEF CreateInv
<1>3. ASSUME NEW c \in Clients, TerminateJoin(c) PROVE CreateInv'
  BY <1>3 DEF TerminateJoin, schWaitThread, Goto, SetIdx, CreateInv, TypeInv,
      TypeOK, IndexInv
<1>4. ASSUME NEW c \in Clients, SubmitEnqueue(c) PROVE CreateInv'
  BY <1>4 DEF SubmitEnqueue, Goto, CreateInv, TypeInv, TypeOK
<1>5. ASSUME NEW c \in Clients, RunCall(c) PROVE CreateInv'
  BY <1>5 DEF RunCall, Call, Goto, SetIdx, CreateInv, TypeInv, TypeOK
<1>6. ASSUME NEW c \in Clients, Proceed(c) \/ Begin(c),
             ~RunCreate(c), ~TerminateJoin(c), ~SubmitEnqueue(c), ~RunCall(c)
      PROVE  CreateInv'
  <2>1. cpc'[c] # "create"
    <3>1. CASE Proceed(c)
      BY <1>6, <3>1
      DEF Proceed, RunCreate, schCreateThread, RunCreateFails, RunCreated,
          RunRaise, RunReturn,
          SubmitEnqueue, SubmitSize, SubmitFlag, SubmitRaise, WaitGate,
          WaitFlag, WaitPoll, WaitSize, WaitReturn, StopRaise, StopReturn,
          TerminateKill, TerminateJoin, schWaitThread, TerminateReturn,
              ReleaseFree, Goto,
          vars, TypeInv, TypeOK
    <3>2. CASE Begin(c)
      BY <1>6, <3>2
      DEF Begin, RunCall, SubmitCall, WaitCall, StopCall, ReleaseCall, Call, Goto,
          TypeInv, TypeOK
    <3> QED BY <1>6, <3>1, <3>2
  <2> QED BY <1>6, <2>1, ClientFrame DEF CreateInv
<1>7. CASE UNCHANGED vars
  BY <1>7 DEF CreateInv, vars
<1> QED
  BY <1>1, <1>2, <1>3, <1>4, <1>5, <1>6, <1>7 DEF Next, AfterRelease

(* No step loses count of a package.                                       *)
LEMMA AccountStep ==
    ASSUME TypeInv, CreateInv, AccountInv, [Next]_vars
    PROVE  AccountInv'
<1> DEFINE Balance(p) ==
      Len(acc[p]) = Len(ran[p]) + size[p] + (IF Holds(p) THEN 1 ELSE 0)
<1>0. \A p \in Pools :
        Balance(p) /\ Len(acc[p]) \in Nat /\ Len(ran[p]) \in Nat /\ size[p] \in Nat
  BY DEF AccountInv, TypeInv, TypeOK
<1> USE DEF AccountInv, Holds, TypeInv, TypeOK
<1>1. ASSUME NEW p \in Pools, ExecDequeue(p) PROVE AccountInv'
  <2>1. size'[p] = size[p] - 1 /\ ~Holds(p) /\ Holds(p)'
    BY <1>1 DEF ExecDequeue, Exec, Dequeue
  <2>2. UNCHANGED <<acc, ran>>
    BY <1>1 DEF ExecDequeue, Dequeue
  <2>3. \A q \in Pools : q # p => size'[q] = size[q] /\ pc'[q] = pc[q]
    BY <1>1 DEF ExecDequeue, Exec, Dequeue
  <2>4. Balance(p)'
    BY <1>0, <2>1, <2>2
  <2>5. \A q \in Pools : q # p => Balance(q)'
    BY <1>0, <2>2, <2>3
  <2> QED BY <2>4, <2>5
<1>2. ASSUME NEW p \in Pools, ExecFetch(p) PROVE AccountInv'
  BY <1>2 DEF ExecFetch, Exec
<1>3. ASSUME NEW p \in Pools, ExecReturn(p) PROVE AccountInv'
  <2>1. Len(ran'[p]) = Len(ran[p]) + 1
    BY <1>3 DEF ExecReturn
  <2>2. Holds(p) /\ ~Holds(p)'
    BY <1>3 DEF ExecReturn, Exec
  <2>3. \A q \in Pools : q # p => ran'[q] = ran[q] /\ pc'[q] = pc[q]
    BY <1>3 DEF ExecReturn, Exec
  <2>4. UNCHANGED <<acc, size>>
    BY <1>3 DEF ExecReturn
  <2>5. Balance(p)'
    BY <1>0, <2>1, <2>2, <2>4
  <2>6. \A q \in Pools : q # p => Balance(q)'
    BY <1>0, <2>3, <2>4
  <2> QED BY <2>5, <2>6
<1>4. ASSUME NEW p \in Pools, Executor(p) PROVE AccountInv'
  BY <1>1, <1>2, <1>3, <1>4, ExecutorFrame
<1>5. ASSUME NEW c \in Clients, RunCreate(c) PROVE AccountInv'
  <2>1. cidx[c] \in Pools /\ cidx[c] >= cidx[c] /\ cpc[c] = "create"
    BY <1>5, Indices DEF RunCreate, schCreateThread, Goto
  <2>2. pc[cidx[c]] = "none" /\ pc' = [pc EXCEPT ![cidx[c]] = "start"]
    BY <1>5, <2>1 DEF RunCreate, schCreateThread, CreateInv
  <2> QED BY <1>5, <2>1, <2>2 DEF RunCreate, schCreateThread
<1>6. ASSUME NEW c \in Clients, TerminateJoin(c) PROVE AccountInv'
  BY <1>6 DEF TerminateJoin, schWaitThread, Goto, IndexInv
<1>7. ASSUME NEW c \in Clients, SubmitEnqueue(c) PROVE AccountInv'
  <2>1. PICK q \in Pools : q = cidx[c]
    BY <1>7 DEF SubmitEnqueue, Goto, IndexInv
  <2>2. Len(acc'[q]) = Len(acc[q]) + 1 /\ size'[q] = size[q] + 1
    BY <1>7, <2>1 DEF SubmitEnqueue, Enqueue
  <2>3. \A p \in Pools : p # q => acc'[p] = acc[p] /\ size'[p] = size[p]
    BY <1>7, <2>1 DEF SubmitEnqueue, Enqueue
  <2>4. UNCHANGED <<ran, pc>>
    BY <1>7 DEF SubmitEnqueue
  <2>5. Balance(q)'
    BY <1>0, <2>1, <2>2, <2>4, SMTT(30)
  <2>6. \A p \in Pools : p # q => Balance(p)'
    BY <1>0, <2>3, <2>4
  <2> QED BY <2>5, <2>6
<1>8. ASSUME NEW c \in Clients, Proceed(c) \/ Begin(c) PROVE AccountInv'
  BY <1>5, <1>6, <1>7, <1>8, ClientFrame
<1>9. CASE UNCHANGED vars
  BY <1>9 DEF vars
<1> QED
  BY <1>4, <1>8, <1>9 DEF Next, AfterRelease

(* Nothing is accepted before the scheduler runs.                          *)
LEMMA AccountInit == Init => CreateInv /\ AccountInv
  BY DEF Init, CreateInv, AccountInv, Holds

(* Every package schSubmitTask accepted is queued, in progress or          *)
(* finished, for any number of threads that submit, wait and stop.         *)
THEOREM NothingLost == ASSUME SoleRunner PROVE Spec => []TasksAccounted
<1>1. AccountInv /\ TypeInv => TasksAccounted
  BY DEF AccountInv, TasksAccounted, InFlight, Holds, TypeInv, TypeOK
<1>2. CreateInv /\ TypeInv /\ [Next]_vars => CreateInv'
  BY CreateStep
<1> QED
  BY <1>1, <1>2, AccountInit, TypeInit, TypeStep, AccountStep, PTL DEF Spec

----------------------------------------------------------------------------
(* The bound of the queues.  taskSch.c:355 compares the size outside the   *)
(* lock, so it takes an application that submits from one thread only, or  *)
(* one that keeps no more packages unfinished than a queue has slots.      *)

SoleClient == \E c : Clients = {c}

(* The size that schSubmitTask checked still leaves a slot.                *)
ClaimInv == \A c \in Clients : cpc[c] = "enqueue" => size[cidx[c]] < Reserved

UnfinishedInv == \A p \in Pools : Unfinished(p) <= Outstanding

(* A client gets between the check and the enqueue, and out again, in two  *)
(* steps only.                                                             *)
LEMMA EnqueueFrame ==
    ASSUME TypeInv, NEW c \in Clients, Proceed(c) \/ Begin(c)
    PROVE  \/ SubmitEnqueue(c)
           \/ \E p \in Pools : SubmitCall(c, p)
           \/ /\ cpc[c] # "enqueue" /\ cpc'[c] # "enqueue"
              /\ UNCHANGED ringVars
<1>1. CASE Proceed(c)
  BY <1>1 DEF Proceed, RunCreate, schCreateThread, RunCreateFails, RunCreated,
      RunRaise, RunReturn,
         SubmitEnqueue, SubmitSize, SubmitFlag, SubmitRaise, WaitGate,
         WaitFlag, WaitPoll, WaitSize, WaitReturn, StopRaise, StopReturn,
         TerminateKill, TerminateJoin, schWaitThread, TerminateReturn,
             ReleaseFree, Goto,
         vars, TypeInv, TypeOK
<1>2. CASE Begin(c)
  BY <1>2 DEF Begin, RunCall, WaitCall, StopCall, ReleaseCall, Call, Goto, TypeInv,
         TypeOK
<1> QED BY <1>1, <1>2

(* Only an enqueue makes a queue longer.                                   *)
LEMMA ExecutorShrinks ==
    ASSUME TypeInv, NEW p \in Pools, Executor(p)
    PROVE  \A q \in Pools : size'[q] <= size[q]
<1>1. size' = size \/ size' = [size EXCEPT ![p] = size[p] - 1]
  BY ExecutorFrame DEF ExecDequeue, Dequeue, ExecFetch, ExecReturn
<1>2. size \in [Pools -> Nat]
  BY DEF TypeInv, TypeOK
<1> QED BY <1>1, <1>2

(* With one client, what the size check found stays true until the enqueue. *)
LEMMA ClaimStep ==
    ASSUME SoleClient, TypeInv, ClaimInv, QueueBound, [Next]_vars
    PROVE  ClaimInv' /\ QueueBound'
<1> USE ReservedAssumption DEF ClaimInv, QueueBound
<1>1. ASSUME NEW p \in Pools, Executor(p) PROVE ClaimInv' /\ QueueBound'
  <2>1. /\ UNCHANGED <<cpc, cidx>>
        /\ \A q \in Pools : size'[q] <= size[q] /\ size[q] \in Nat /\ size'[q] \in Nat
    BY <1>1, ExecutorFrame, ExecutorShrinks, TypeExecutor DEF TypeInv, TypeOK
  <2> QED BY <2>1 DEF TypeInv, IndexInv
<1>2. ASSUME NEW c \in Clients, SubmitEnqueue(c) PROVE ClaimInv' /\ QueueBound'
  <2>1. PICK q \in Pools : q = cidx[c] /\ cpc[c] = "enqueue"
    BY <1>2 DEF SubmitEnqueue, Goto, TypeInv, IndexInv
  <2>2. size' = [size EXCEPT ![q] = size[q] + 1] /\ size[q] < Reserved
    BY <1>2, <2>1 DEF SubmitEnqueue, Enqueue
  <2>3. QueueBound'
    BY <2>2 DEF TypeInv, TypeOK
  <2>4. \A d \in Clients : cpc'[d] # "enqueue"
    BY <1>2 DEF SubmitEnqueue, Goto, SoleClient, TypeInv, TypeOK
  <2> QED BY <2>3, <2>4
<1>3. ASSUME NEW c \in Clients, NEW p \in Pools, SubmitCall(c, p)
      PROVE  ClaimInv' /\ QueueBound'
  BY <1>3 DEF SubmitCall, Call, Goto, SetIdx, SoleClient, TypeInv, TypeOK
<1>4. ASSUME NEW c \in Clients, Proceed(c) \/ Begin(c)
      PROVE  ClaimInv' /\ QueueBound'
  BY <1>2, <1>3, <1>4, EnqueueFrame, ClientFrame
<1>5. CASE UNCHANGED vars
  BY <1>5 DEF vars
<1> QED
  BY <1>1, <1>4, <1>5 DEF Next, AfterRelease

(* With a single application thread no queue ever holds more packages than *)
(* it has slots.                                                           *)
THEOREM QueueBoundSoleClient == ASSUME SoleClient PROVE Spec => []QueueBound
<1>1. Init => ClaimInv /\ QueueBound
  BY ReservedAssumption DEF Init, ClaimInv, QueueBound
<1>2. TypeInv /\ ClaimInv /\ QueueBound /\ [Next]_vars => ClaimInv' /\ QueueBound'
  BY ClaimStep
<1> QED
  BY <1>1, <1>2, TypeInit, TypeStep, PTL DEF Spec

(* The clients between check and enqueue, one more or one less.            *)
LEMMA SubmittersFinite ==
    \A p : IsFiniteSet(Submitters(p)) /\ Cardinality(Submitters(p)) \in Nat
<1> TAKE p
<1>1. Submitters(p) \in SUBSET Clients
  BY DEF Submitters
<1>2. IsFiniteSet(Submitters(p))
  BY <1>1, ClientsAssumption, FS_Subset
<1> QED BY <1>2, FS_CardinalityType

(* The application's limit on unfinished packages is kept.                 *)
LEMMA UnfinishedStep ==
    ASSUME TypeInv, UnfinishedInv, [Next]_vars
    PROVE  UnfinishedInv'
<1>0. \A p \in Pools : Len(acc[p]) \in Nat /\ Len(ran[p]) \in Nat
  BY DEF TypeInv, TypeOK
<1>1. ASSUME NEW p \in Pools, Executor(p) PROVE UnfinishedInv'
  <2>1. \A q \in Pools : Submitters(q)' = Submitters(q)
    BY <1>1, ExecutorFrame DEF Submitters
  <2>2. acc' = acc
    BY <1>1, ExecutorFrame DEF ExecDequeue, Dequeue, ExecFetch, ExecReturn
  <2>3. ran' = ran \/ ran' = [ran EXCEPT ![p] = Append(ran[p], callback[p])]
    BY <1>1, ExecutorFrame DEF ExecDequeue, ExecFetch, ExecReturn
  <2>4. \A q \in Pools : Len(ran'[q]) = Len(ran[q]) \/ Len(ran'[q]) = Len(ran[q]) + 1
    <3>1. ran \in [Pools -> Seq(Nat)] /\ callback[p] \in Nat
      BY DEF TypeInv, TypeOK
    <3>2. Len(Append(ran[p], callback[p])) = Len(ran[p]) + 1
      BY <3>1
    <3> QED BY <2>3, <3>1, <3>2
  <2> SUFFICES ASSUME NEW q \in Pools PROVE Unfinished(q)' <= Outstanding
    BY DEF UnfinishedInv
  <2>5. PICK k \in Nat :
          k = Cardinality(Submitters(q)) /\ k = Cardinality(Submitters(q)')
    BY SubmittersFinite, <2>1
  <2>6. Len(acc[q]) - Len(ran[q]) + k <= Outstanding
    BY <2>5 DEF UnfinishedInv, Unfinished
  <2>7. Len(acc'[q]) - Len(ran'[q]) + k <= Outstanding
    BY <1>0, <2>2, <2>4, <2>6, OutstandingAssumption
  <2> QED BY <2>5, <2>7 DEF Unfinished
<1>2. ASSUME NEW c \in Clients, SubmitEnqueue(c) PROVE UnfinishedInv'
  <2>1. PICK q \in Pools : q = cidx[c] /\ cpc[c] = "enqueue"
    BY <1>2 DEF SubmitEnqueue, Goto, TypeInv, IndexInv
  <2>2. c \in Submitters(q) /\ Submitters(q)' = Submitters(q) \ {c}
    BY <1>2, <2>1 DEF SubmitEnqueue, Goto, Submitters, TypeInv, TypeOK
  <2>3. \A p \in Pools : p # q => Submitters(p)' = Submitters(p)
    BY <1>2, <2>1 DEF SubmitEnqueue, Goto, Submitters, TypeInv, TypeOK
  <2>4. Len(acc'[q]) = Len(acc[q]) + 1 /\ \A p \in Pools : p # q => acc'[p] = acc[p]
    BY <1>2, <2>1 DEF SubmitEnqueue, Enqueue, TypeInv, TypeOK
  <2>5. ran' = ran
    BY <1>2 DEF SubmitEnqueue
  <2>6. Unfinished(q)' <= Outstanding
    <3>a. PICK k \in Nat : k = Cardinality(Submitters(q))
      BY SubmittersFinite
    <3>b. Cardinality(Submitters(q) \ {c}) = k - 1
      BY <3>a, SubmittersFinite, <2>2, FS_RemoveElement
    <3>1. k = Cardinality(Submitters(q)) /\ k - 1 = Cardinality(Submitters(q)')
      BY <2>2, <3>a, <3>b, Zenon
    <3>c. PICK x \in Nat, y \in Nat : x = Len(acc[q]) /\ y = Len(ran[q])
      BY <1>0
    <3>2. x - y + k <= Outstanding
      BY <3>1, <3>c DEF UnfinishedInv, Unfinished
    <3>3. (x + 1) - y + (k - 1) <= Outstanding
      BY <3>2, OutstandingAssumption
    <3>4. Len(acc'[q]) = x + 1 /\ Len(ran'[q]) = y
      BY <2>4, <2>5, <3>c
    <3> QED BY <3>1, <3>3, <3>4 DEF Unfinished
  <2>7. \A p \in Pools : p # q => Unfinished(p)' <= Outstanding
    BY <2>3, <2>4, <2>5 DEF UnfinishedInv, Unfinished
  <2> QED BY <2>6, <2>7 DEF UnfinishedInv
<1>3. ASSUME NEW c \in Clients, NEW q \in Pools, SubmitCall(c, q)
      PROVE  UnfinishedInv'
  <2>1. c \notin Submitters(q) /\ Submitters(q)' = Submitters(q) \cup {c}
    BY <1>3 DEF SubmitCall, Call, Goto, SetIdx, Submitters, TypeInv, TypeOK
  <2>2. \A p \in Pools : p # q => Submitters(p)' = Submitters(p)
    BY <1>3 DEF SubmitCall, Call, Goto, SetIdx, Submitters, TypeInv, TypeOK
  <2>3. Unfinished(q) < Outstanding /\ UNCHANGED <<acc, ran>>
    BY <1>3 DEF SubmitCall
  <2>4. Unfinished(q)' <= Outstanding
    <3>a. PICK k \in Nat : k = Cardinality(Submitters(q))
      BY SubmittersFinite
    <3>b. Cardinality(Submitters(q) \cup {c}) = k + 1
      BY <3>a, SubmittersFinite, <2>1, FS_AddElement
    <3>1. k = Cardinality(Submitters(q)) /\ k + 1 = Cardinality(Submitters(q)')
      BY <2>1, <3>a, <3>b, Zenon
    <3>c. PICK x \in Nat, y \in Nat : x = Len(acc[q]) /\ y = Len(ran[q])
      BY <1>0
    <3>2. x - y + k < Outstanding
      BY <2>3, <3>1, <3>c DEF Unfinished
    <3>3. x - y + (k + 1) <= Outstanding
      BY <3>2, OutstandingAssumption
    <3>4. Len(acc'[q]) = x /\ Len(ran'[q]) = y
      BY <2>3, <3>c
    <3> QED BY <3>1, <3>3, <3>4 DEF Unfinished
  <2>5. \A p \in Pools : p # q => Unfinished(p)' <= Outstanding
    BY <2>2, <2>3 DEF UnfinishedInv, Unfinished
  <2> QED BY <2>4, <2>5 DEF UnfinishedInv
<1>4. ASSUME NEW c \in Clients, Proceed(c) \/ Begin(c) PROVE UnfinishedInv'
  <2>1. CASE /\ cpc[c] # "enqueue" /\ cpc'[c] # "enqueue"
             /\ UNCHANGED ringVars
    <3>1. \A q \in Pools : Submitters(q)' = Submitters(q)
      BY <1>4, <2>1, ClientFrame DEF Submitters
    <3>2. UNCHANGED <<acc, ran>>
      BY <1>4, <2>1, ClientFrame
    <3> QED BY <3>1, <3>2 DEF UnfinishedInv, Unfinished
  <2> QED BY <1>2, <1>3, <1>4, <2>1, EnqueueFrame
<1>5. CASE UNCHANGED vars
  BY <1>5 DEF vars, UnfinishedInv, Unfinished, Submitters
<1> QED
  BY <1>1, <1>4, <1>5 DEF Next, AfterRelease

(* Nothing is unfinished before the first submission.                      *)
LEMMA UnfinishedInit == Init => UnfinishedInv
<1> SUFFICES ASSUME Init, NEW p \in Pools PROVE Unfinished(p) <= Outstanding
  BY DEF UnfinishedInv
<1>1. Submitters(p) = {} /\ acc[p] = <<>> /\ ran[p] = <<>>
  BY DEF Init, Submitters
<1>2. Cardinality(Submitters(p)) = 0
  BY <1>1, FS_EmptySet
<1> QED BY <1>1, <1>2, OutstandingAssumption DEF Unfinished

=============================================================================
