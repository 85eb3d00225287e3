----------------------- MODULE TaskSchLifecycleProofs -----------------------
(***************************************************************************)
(* Start, wait, terminate and release of the scheduler, for an application *)
(* that drives it from one thread: one inductive invariant about the phase *)
(* that thread is in, and the properties that follow from it.              *)
(***************************************************************************)
EXTENDS TaskSchProofs

(* Inside schSubmitTask, schWaitTask, schStopTaskSch and                   *)
(* schTerminateTaskSch the scheduler is running; inside schRunTaskSch, and *)
(* once the pools are freed, it is not.                                    *)
RunningInv(c) ==
    /\ cpc[c] \in {"enqueue", "size", "flag", "raise", "gate", "scan",
                    "scansize", "stop", "kill", "join"} => Running
    /\ cpc[c] \in {"create", "start", "free", "released"} => ~Running

(* The only pool that exits is the one schTerminateTaskSch is joining, and *)
(* it has used up its SIGTERM when it has exited.                          *)
ExitInv(c) ==
    \A p \in Pools :
        /\ ("TERM" \in pending[p] \/ pc[p] \in {"exit", "exited"})
              => cpc[c] = "join" /\ cidx[c] = p
        /\ pc[p] = "exited" => "TERM" \notin pending[p]

Terminating(c) == cpc[c] \in {"kill", "join"}

(* Which pools have a thread: all of them while the scheduler runs, but    *)
(* for those already joined; the ones behind the index while it starts.    *)
AliveInv(c) ==
    \A p \in Pools :
        /\ Running /\ pc[p] = "none" => Terminating(c) /\ p < cidx[c]
        /\ Terminating(c) /\ p < cidx[c] => pc[p] = "none"
        /\ cpc[c] = "create" => (pc[p] = "none" <=> p >= cidx[c])
        /\ cpc[c] = "start" => pc[p] # "none"

(* Which queues are empty: all of them when the scheduler does not run or  *)
(* is being terminated, the ones already seen during a wait.               *)
EmptyInv(c) ==
    \A p \in Pools :
        (\/ ~Running \/ Terminating(c)
         \/ cpc[c] \in {"scan", "scansize"} /\ p < cidx[c]) => size[p] = 0

Phase(c) == RunningInv(c) /\ ExitInv(c) /\ AliveInv(c) /\ EmptyInv(c)
PhaseInv == \A c \in Clients : Phase(c)

(* Unless some thread could not be created, a scheduler that neither runs  *)
(* nor starts has none.                                                    *)
NoneLeftInv ==
    \A c \in Clients :
        failures = 0 /\ ~Running /\ cpc[c] \notin {"create", "start"}
        => \A p \in Pools : pc[p] = "none"

----------------------------------------------------------------------------
USE DEF ringVars, execVars, callVars, clientVars, poolVars, schVars, foreign,
        Full, Passed, Asleep, AllJoined, ClearRunning, AfterSignal

(* Pools are numbers.                                                      *)
LEMMA PoolsInt == Pools \subseteq Int
  BY PoolsAssumption DEF Pools

(* One step of an index.                                                   *)
LEMMA NextIndex ==
    \A p, q \in Pools :
        /\ (p >= q + 1) <=> (p >= q /\ p # q)
        /\ (p < q + 1) <=> (p < q \/ p = q)
  BY PoolsInt

(* The state schCreateTaskPool leaves behind.                              *)
LEMMA PhaseInit == Init => PhaseInv /\ NoneLeftInv
  BY DEF Init, PhaseInv, Phase, RunningInv, ExitInv, AliveInv, EmptyInv, NoneLeftInv,
         Running, Terminating

(* The steps of the pool threads.                                          *)
LEMMA PhaseExecutor ==
    ASSUME TypeInv, NEW c \in Clients, Phase(c), NEW p \in Pools, Executor(p)
    PROVE  Phase(c)'
<1>1. /\ UNCHANGED <<cpc, cidx, schFlag>>
      /\ pc[p] # "none" /\ pc'[p] # "none"
      /\ pc' = [pc EXCEPT ![p] = pc'[p]]
  BY ExecutorFrame
<1>2. RunningInv(c)'
  BY <1>1 DEF Phase, RunningInv, Running
<1>3. AliveInv(c)'
  BY <1>1 DEF Phase, AliveInv, Running, Terminating, TypeInv, TypeOK
<1>4. EmptyInv(c)'
  <2>1. \A q \in Pools : size[q] = 0 => size'[q] = 0
    <3>1. size \in [Pools -> Nat] /\ size' \in [Pools -> Nat]
      BY TypeExecutor DEF TypeInv, TypeOK
    <3> QED BY <3>1, ExecutorShrinks
  <2> QED BY <1>1, <2>1 DEF Phase, EmptyInv, Running, Terminating
<1>5. ExitInv(c)'
  <2>1. CASE ExecWait(p)
    <3>1. PICK sig \in pending[p] :
            /\ pc'[p] = IF sig = "TERM" THEN "exit" ELSE "wake"
            /\ pending' = [pending EXCEPT ![p] = pending[p] \ {sig}]
      BY <2>1 DEF ExecWait, schSignalWait, Exec, TypeInv, TypeOK
    <3>2. \A q \in Pools : q # p => pc'[q] = pc[q] /\ pending'[q] = pending[q]
      BY <1>1, <3>1 DEF TypeInv, TypeOK
    <3>3. "TERM" \in pending'[p] \/ pc'[p] \in {"exit", "exited"}
            => "TERM" \in pending[p]
      BY <3>1 DEF TypeInv, TypeOK
    <3>4. pc'[p] # "exited"
      BY <3>1
    <3> QED BY <1>1, <3>2, <3>3, <3>4 DEF Phase, ExitInv
  <2>2. CASE ExecExit(p)
    BY <1>1, <2>2 DEF ExecExit, Exec, Phase, ExitInv, TypeInv, TypeOK
  <2>3. CASE UNCHANGED pending /\ pc'[p] \notin {"exit", "exited"}
    BY <1>1, <2>3, SMTT(30) DEF Phase, ExitInv, TypeInv, TypeOK
  <2> QED
    BY <2>1, <2>2, <2>3
    DEF Executor, ExecStart, ExecLoop, ExecDequeue, ExecFetch, ExecReturn,
        ExecIdle, ExecIdleAgain, ExecReport, ExecWake, Exec, TypeInv, TypeOK
<1> QED BY <1>2, <1>3, <1>4, <1>5 DEF Phase

(* The steps of the client inside a call.                                  *)
LEMMA PhaseProceed ==
    ASSUME TypeInv, NEW c \in Clients, Phase(c), Proceed(c)
    PROVE  Phase(c)'
<1> USE Indices, PoolsInt
    DEF Phase, RunningInv, ExitInv, AliveInv, EmptyInv, Running,
        Terminating, TypeInv, TypeOK, IndexInv
<1>1. CASE RunCreate(c)
  <2>1. PICK q \in Pools : q = cidx[c] /\ cpc[c] = "create"
    BY <1>1 DEF RunCreate, schCreateThread, Goto
  <2>2. /\ cpc'[c] = "create" /\ cidx'[c] = q + 1
        /\ pc' = [pc EXCEPT ![q] = "start"]
        /\ pending' = [pending EXCEPT ![q] = {}]
        /\ UNCHANGED <<schFlag, size>>
    BY <1>1, <2>1 DEF RunCreate, schCreateThread, Goto, SetIdx
  <2>3. RunningInv(c)' /\ EmptyInv(c)'
    BY <2>1, <2>2
  <2>4. ExitInv(c)'
    BY <2>1, <2>2
  <2>5. AliveInv(c)'
    <3>1. ~Running /\ ~Running'
      BY <2>1, <2>2
    <3>2. \A p \in Pools : p >= q + 1 <=> (p >= q /\ p # q)
      BY NextIndex
    <3>3. \A p \in Pools : pc'[p] = "none" <=> (pc[p] = "none" /\ p # q)
      BY <2>2
    <3>4. \A p \in Pools : pc[p] = "none" <=> p >= q
      BY <2>1
    <3>5. \A p \in Pools : pc'[p] = "none" <=> p >= cidx'[c]
      BY ONLY <2>2, <3>2, <3>3, <3>4
    <3> QED BY ONLY <2>2, <3>1, <3>5 DEF AliveInv, Terminating, Running
  <2> QED BY <2>3, <2>4, <2>5
<1>2. CASE RunCreateFails(c)
  BY <1>2 DEF RunCreateFails, Goto, SetIdx
<1>3. CASE RunCreated(c)
  BY <1>3 DEF RunCreated, Goto, SetIdx
<1>4. CASE RunRaise(c)
  BY <1>4 DEF RunRaise, Goto, SetIdx, Raise
<1>5. CASE RunReturn(c)
  BY <1>5 DEF RunReturn, Goto, SetIdx
<1>6. CASE SubmitEnqueue(c)
  BY <1>6 DEF SubmitEnqueue, Goto, SetIdx, Enqueue
<1>7. CASE SubmitSize(c)
  BY <1>7 DEF SubmitSize, Goto, SetIdx
<1>8. CASE SubmitFlag(c)
  BY <1>8 DEF SubmitFlag, Goto, SetIdx
<1>9. CASE SubmitRaise(c)
  BY <1>9 DEF SubmitRaise, Goto, SetIdx, Raise
<1>10. CASE WaitGate(c)
  BY <1>10 DEF WaitGate, Goto, SetIdx
<1>11. CASE WaitFlag(c)
  BY <1>11 DEF WaitFlag, Goto, SetIdx
<1>12. CASE WaitPoll(c)
  BY <1>12 DEF WaitPoll, Goto, SetIdx, vars
<1>13. CASE WaitSize(c)
  BY <1>13 DEF WaitSize, Goto, SetIdx
<1>14. CASE WaitReturn(c)
  BY <1>14 DEF WaitReturn, Goto, SetIdx
<1>15. CASE StopRaise(c)
  BY <1>15 DEF StopRaise, Goto, SetIdx, Raise
<1>16. CASE StopReturn(c)
  BY <1>16 DEF StopReturn, Goto, SetIdx
<1>17. CASE TerminateKill(c)
  <2>1. PICK q \in Pools : q = cidx[c] /\ cpc[c] = "kill"
    BY <1>17 DEF TerminateKill, Goto
  <2>2. pc[q] # "none"
    BY <2>1
  <2>3. /\ cpc'[c] = "join" /\ cidx'[c] = q
        /\ pending' = [pending EXCEPT ![q] = pending[q] \cup {"TERM"}]
        /\ UNCHANGED <<schFlag, size, pc>>
    BY <1>17, <2>1, <2>2 DEF TerminateKill, Goto, Raise
  <2> QED BY <2>1, <2>2, <2>3
<1>18. CASE TerminateJoin(c)
  <2>1. PICK q \in Pools : q = cidx[c] /\ cpc[c] = "join"
    BY <1>18 DEF TerminateJoin, schWaitThread, Goto
  <2>2. /\ cpc'[c] = "kill" /\ cidx'[c] = q + 1 /\ pc[q] = "exited"
        /\ pc' = [pc EXCEPT ![q] = "none"]
        /\ UNCHANGED <<schFlag, size, pending>>
    BY <1>18, <2>1 DEF TerminateJoin, schWaitThread, Goto, SetIdx
  <2>3. RunningInv(c)' /\ EmptyInv(c)'
    BY <2>1, <2>2
  <2>4. ExitInv(c)'
    BY <2>1, <2>2
  <2>5. AliveInv(c)'
    <3>1. Running
      BY <2>1
    <3>2. \A p \in Pools : p < q + 1 <=> (p < q \/ p = q)
      BY NextIndex
    <3>3. \A p \in Pools : pc'[p] = "none" <=> (pc[p] = "none" \/ p = q)
      BY <2>2
    <3>4. \A p \in Pools : pc[p] = "none" <=> p < q
      BY <2>1, <3>1
    <3>5. \A p \in Pools : pc'[p] = "none" <=> p < cidx'[c]
      BY ONLY <2>2, <3>2, <3>3, <3>4
    <3> QED BY ONLY <2>2, <3>1, <3>5 DEF AliveInv, Terminating, Running
  <2> QED BY <2>3, <2>4, <2>5
<1>19. CASE TerminateReturn(c)
  BY <1>19 DEF TerminateReturn, Goto, SetIdx
<1>20. CASE ReleaseFree(c)
  BY <1>20 DEF ReleaseFree, Goto, SetIdx
<1> QED
  BY <1>1, <1>2, <1>3, <1>4, <1>5, <1>6, <1>7, <1>8, <1>9, <1>10,
     <1>11, <1>12, <1>13, <1>14, <1>15, <1>16, <1>17, <1>18, <1>19, <1>20
  DEF Proceed

(* The steps that begin a call.                                            *)
LEMMA PhaseBegin ==
    ASSUME TypeInv, NEW c \in Clients, Phase(c), Begin(c)
    PROVE  Phase(c)'
<1> USE Indices, PoolsInt
    DEF Phase, RunningInv, ExitInv, AliveInv, EmptyInv, Running,
        Terminating, TypeInv, TypeOK, IndexInv
<1>1. CASE RunCall(c)
  <2>1. 0 \in Pools /\ \A p \in Pools : p >= 0
    BY PoolsAssumption DEF Pools
  <2>2. /\ cpc[c] = "ready" /\ cpc'[c] = "create" /\ cidx'[c] = 0
        /\ \A p \in Pools : pc[p] = "none"
        /\ UNCHANGED <<schFlag, size, pending, pc>>
    BY <1>1 DEF RunCall, Call, Goto, SetIdx
  <2>3. ~Running
    BY <2>1, <2>2
  <2> QED BY <2>1, <2>2, <2>3
<1>2. ASSUME NEW p \in Pools, SubmitCall(c, p) PROVE Phase(c)'
  BY <1>2 DEF SubmitCall, Goto, SetIdx, Call
<1>3. CASE WaitCall(c)
  BY <1>3 DEF WaitCall, Goto, SetIdx, Call
<1>4. CASE StopCall(c)
  BY <1>4 DEF StopCall, Goto, SetIdx, Call
<1>5. CASE ReleaseCall(c)
  BY <1>5 DEF ReleaseCall, Goto, SetIdx, Call
<1> QED
  BY <1>1, <1>2, <1>3, <1>4, <1>5
  DEF Begin

(* With one client the phase is kept by every step.                        *)
LEMMA PhaseStep ==
    ASSUME SoleClient, TypeInv, PhaseInv, [Next]_vars
    PROVE  PhaseInv'
<1>1. PICK c : Clients = {c}
  BY DEF SoleClient
<1> SUFFICES Phase(c)'
  BY <1>1 DEF PhaseInv
<1>2. c \in Clients /\ Phase(c)
  BY <1>1 DEF PhaseInv
<1>3. ASSUME NEW p \in Pools, Executor(p) PROVE Phase(c)'
  BY <1>2, <1>3, PhaseExecutor
<1>4. CASE Proceed(c)
  BY <1>2, <1>4, PhaseProceed
<1>5. CASE Begin(c)
  BY <1>2, <1>5, PhaseBegin
<1>6. CASE UNCHANGED vars
  BY <1>2, <1>6
  DEF vars, Phase, RunningInv, ExitInv, AliveInv, EmptyInv, Running, Terminating
<1> QED
  BY <1>1, <1>3, <1>4, <1>5, <1>6 DEF Next, AfterRelease

(* The types, the accounting and the phase together.                       *)
LifecycleInv == TypeInv /\ CreateInv /\ AccountInv /\ PhaseInv

(* It holds throughout.                                                    *)
LEMMA LifecycleInvariant == ASSUME SoleClient PROVE Spec => []LifecycleInv
<1>1. SoleRunner
  BY DEF SoleClient, SoleRunner
<1>2. CreateInv /\ TypeInv /\ [Next]_vars => CreateInv'
  BY <1>1, CreateStep
<1>3. TypeInv /\ PhaseInv /\ [Next]_vars => PhaseInv'
  BY PhaseStep
<1>4. Init => PhaseInv
  BY PhaseInit
<1> QED
  BY <1>2, <1>3, <1>4, TypeInit, TypeStep, AccountInit, AccountStep, PTL
  DEF Spec, LifecycleInv

----------------------------------------------------------------------------
(* When schWaitTask has gone through all pools, no queue holds a package:  *)
(* no pool gets one back behind the scan.                                  *)
THEOREM WaitLeavesNoPackage ==
    ASSUME SoleClient PROVE Spec => []WaitEmptiesQueues
<1>1. LifecycleInv => WaitEmptiesQueues
  <2> SUFFICES ASSUME LifecycleInv, NEW c \in Clients, NEW p \in Pools,
                      cpc[c] = "scan", cidx[c] = NumPools
               PROVE  size[p] = 0
    BY DEF WaitEmptiesQueues
  <2>1. p < NumPools
    BY PoolsAssumption DEF Pools
  <2> QED BY <2>1 DEF LifecycleInv, PhaseInv, Phase, EmptyInv
<1> QED BY <1>1, LifecycleInvariant, PTL

(* A pool thread that schTerminateTaskSch makes exit has run every package *)
(* its pool ever accepted, although schWaitTask may return while callbacks *)
(* are still running.                                                      *)
THEOREM TerminateLosesNothing ==
    ASSUME SoleClient PROVE Spec => []TerminateDrains
<1>1. LifecycleInv => TerminateDrains
  <2> SUFFICES ASSUME LifecycleInv, NEW p \in Pools,
                      pc[p] \in {"none", "exited"}
               PROVE  Len(ran[p]) = Len(acc[p])
    BY DEF TerminateDrains
  <2>1. PICK c : c \in Clients
    BY DEF SoleClient
  <2>2. size[p] = 0
    BY <2>1 DEF LifecycleInv, PhaseInv, Phase, AliveInv, ExitInv, EmptyInv,
                Terminating
  <2>3. Len(acc[p]) = Len(ran[p]) + 0 + 0
    BY <2>2 DEF LifecycleInv, AccountInv, Holds
  <2>4. Len(ran[p]) \in Nat
    BY DEF LifecycleInv, TypeInv, TypeOK
  <2> QED BY <2>3, <2>4
<1> QED BY <1>1, LifecycleInvariant, PTL

(* No call of the application sends a signal to a pool whose thread was    *)
(* joined, or waits for such a thread a second time.                       *)
THEOREM SignalsReachThreads ==
    ASSUME SoleClient PROVE Spec => []NoSignalToJoinedThread
<1>1. LifecycleInv => NoSignalToJoinedThread
  <2> SUFFICES ASSUME LifecycleInv, NEW c \in Clients,
                      \/ cpc[c] \in {"raise", "join"}
                      \/ cpc[c] \in {"start", "stop", "kill"} /\ cidx[c] < NumPools
               PROVE  pc[cidx[c]] # "none"
    BY DEF NoSignalToJoinedThread
  <2>1. cidx[c] \in Pools
    BY Indices DEF LifecycleInv, TypeInv, TypeOK, IndexInv
  <2>2. ~(cidx[c] < cidx[c])
    BY <2>1, PoolsAssumption DEF Pools
  <2>3. cpc[c] = "start" \/ (Running /\ cpc[c] \in {"raise", "join", "stop", "kill"})
    BY DEF LifecycleInv, PhaseInv, Phase, RunningInv
  <2>4. /\ cpc[c] = "start" => pc[cidx[c]] # "none"
        /\ Running /\ pc[cidx[c]] = "none" => cidx[c] < cidx[c]
    BY <2>1 DEF LifecycleInv, PhaseInv, Phase, AliveInv
  <2> QED BY <2>2, <2>3, <2>4
<1> QED BY <1>1, LifecycleInvariant, PTL

(* If every thread so far could be created, schReleaseTaskSch frees the    *)
(* pools after all their threads are gone, across restarts too.            *)
THEOREM ReleaseIsLast ==
    ASSUME SoleClient PROVE Spec => []ReleaseAfterThreads
<1>1. Init => NoneLeftInv
  BY PhaseInit
<1>2. TypeInv /\ PhaseInv /\ NoneLeftInv /\ [Next]_vars => NoneLeftInv'
  <2> SUFFICES ASSUME TypeInv, PhaseInv, NoneLeftInv, [Next]_vars
               PROVE  NoneLeftInv'
    OBVIOUS
  <2>1. PICK c : Clients = {c}
    BY DEF SoleClient
  <2>2. c \in Clients /\ Phase(c)
    BY <2>1 DEF PhaseInv
  <2> DEFINE Idle == failures = 0 /\ ~Running /\ cpc[c] \notin {"create", "start"}
  <2>3. Idle => \A p \in Pools : pc[p] = "none"
    BY <2>1 DEF NoneLeftInv
  <2> SUFFICES ASSUME Idle' PROVE \A p \in Pools : pc'[p] = "none"
    BY <2>1 DEF NoneLeftInv
  <2>4. ASSUME NEW p \in Pools, Executor(p) PROVE FALSE
    <3>1. UNCHANGED <<schFlag, cpc, failures>> /\ pc[p] # "none"
      BY <2>4, ExecutorFrame
    <3> QED BY <2>3, <3>1 DEF Running
  <2>5. CASE TerminateReturn(c)
    <3>1. cpc[c] = "kill" /\ cidx[c] = NumPools /\ pc' = pc
      BY <2>5 DEF TerminateReturn, Goto
    <3>2. \A p \in Pools : p < NumPools
      BY PoolsAssumption DEF Pools
    <3> QED BY <2>2, <3>1, <3>2 DEF Phase, AliveInv, Terminating
  <2>6. CASE Proceed(c) /\ ~TerminateReturn(c)
    <3>1. Idle /\ pc' = pc
      BY <2>2, <2>6
      DEF Proceed, RunCreate, schCreateThread, RunCreateFails, RunCreated,
          RunRaise, RunReturn,
          SubmitEnqueue, SubmitSize, SubmitFlag, SubmitRaise, WaitGate,
          WaitFlag, WaitPoll, WaitSize, WaitReturn, StopRaise, StopReturn,
          TerminateKill, TerminateJoin, schWaitThread, ReleaseFree, Goto, vars,
              Phase,
          RunningInv, Running, TypeInv, TypeOK
    <3> QED BY <2>3, <3>1
  <2>7. CASE Begin(c)
    <3>1. Idle /\ pc' = pc
      BY <2>2, <2>7
      DEF Begin, RunCall, SubmitCall, WaitCall, StopCall, ReleaseCall, Call,
          Goto, Running, TypeInv, TypeOK
    <3> QED BY <2>3, <3>1
  <2>8. CASE UNCHANGED vars
    BY <2>3, <2>8 DEF vars, Running
  <2> QED
    BY <2>1, <2>4, <2>5, <2>6, <2>7, <2>8 DEF Next, AfterRelease
<1>3. LifecycleInv /\ NoneLeftInv => ReleaseAfterThreads
  BY DEF LifecycleInv, PhaseInv, Phase, RunningInv, NoneLeftInv,
         ReleaseAfterThreads
<1>4. LifecycleInv => TypeInv /\ PhaseInv
  BY DEF LifecycleInv
<1> QED
  BY <1>1, <1>2, <1>3, <1>4, LifecycleInvariant, PTL DEF Spec

----------------------------------------------------------------------------
(* In the first run of a scheduler a pool thread that has not yet blocked  *)
(* its signals has no bit set in its flags, so that the wait of            *)
(* schTerminateTaskSch cannot pass its pool.  Seen are the pools that wait *)
(* has found asleep.                                                       *)
Seen(c, p) ==
    \/ Terminating(c)
    \/ cpc[c] = "scan" /\ p < cidx[c]
    \/ cpc[c] = "scansize" /\ (p < cidx[c] \/ p = cidx[c])

MaskInv(c) ==
    runs \in {0, 1} => \A p \in Pools :
        /\ runs = 0 => cpc[c] # "create" /\ pc[p] = "none" /\ flag[p] = {}
        /\ pc[p] = "start" => flag[p] = {}
        /\ cpc[c] = "create" /\ p >= cidx[c] => flag[p] = {}
        /\ Seen(c, p) => pc[p] # "start"

(* The steps of the pool threads.                                          *)
LEMMA MaskExecutor ==
    ASSUME TypeInv, NEW c \in Clients, Phase(c), MaskInv(c),
           NEW q \in Pools, Executor(q)
    PROVE  MaskInv(c)'
<1>1. /\ UNCHANGED <<cpc, cidx, runs>>
      /\ pc[q] # "none" /\ pc'[q] # "none"
      /\ pc' = [pc EXCEPT ![q] = pc'[q]]
  BY ExecutorFrame
<1>2. /\ pc'[q] # "start"
      /\ flag'[q] # flag[q] => pc[q] # "start"
      /\ \A p \in Pools : p # q => flag'[p] = flag[p]
  BY DEF Executor, ExecStart, ExecLoop, ExecDequeue, ExecFetch, ExecReturn,
         ExecIdle, ExecIdleAgain, ExecReport, ExecWait, ExecWake, ExecExit,
         Exec, setPoolIdle, setPoolRunning, setPoolTerminated, TypeInv, TypeOK
<1>3. \A p \in Pools : p # q => pc'[p] = pc[p]
  BY <1>1 DEF TypeInv, TypeOK
<1>4. cpc[c] = "create" => ~(q >= cidx[c])
  BY <1>1 DEF Phase, AliveInv
<1> SUFFICES ASSUME runs \in {0, 1}, NEW p \in Pools
             PROVE  /\ runs = 0 => cpc[c] # "create" /\ pc'[p] = "none" /\ flag'[p] = {}
                    /\ pc'[p] = "start" => flag'[p] = {}
                    /\ cpc[c] = "create" /\ p >= cidx[c] => flag'[p] = {}
                    /\ Seen(c, p) => pc'[p] # "start"
  BY <1>1 DEF MaskInv, Seen, Terminating
<1>5. CASE p = q
  BY <1>1, <1>2, <1>4, <1>5 DEF MaskInv
<1>6. CASE p # q
  BY <1>2, <1>3, <1>6 DEF MaskInv
<1> QED BY <1>5, <1>6

(* The steps of the client.                                                *)
LEMMA MaskClient ==
    ASSUME TypeInv, NEW c \in Clients, Phase(c), MaskInv(c),
           Proceed(c) \/ Begin(c)
    PROVE  MaskInv(c)'
<1>0. /\ runs \in Nat /\ cpc \in [Clients -> ClientPcs]
      /\ cidx \in [Clients -> 0 .. NumPools] /\ pc \in [Pools -> ExecPcs]
  BY DEF TypeInv, TypeOK
<1>1. CASE RunCreate(c)
  <2>1. PICK q \in Pools : q = cidx[c] /\ cpc[c] = "create"
    BY <1>0, <1>1, Indices DEF RunCreate, Goto
  <2>2. /\ cpc'[c] = "create" /\ cidx'[c] = q + 1
        /\ pc' = [pc EXCEPT ![q] = "start"]
        /\ UNCHANGED <<flag, runs>>
    BY <1>0, <1>1, <2>1 DEF RunCreate, schCreateThread, Goto, SetIdx
  <2>3. \A p \in Pools : p >= q + 1 <=> (p >= q /\ p # q)
    BY NextIndex
  <2>4. q >= q
    BY PoolsInt
  <2> QED BY <1>0, <2>1, <2>2, <2>3, <2>4 DEF MaskInv, Seen, Terminating
<1>2. CASE RunCall(c)
  <2>1. /\ cpc'[c] = "create" /\ runs' = runs + 1
        /\ \A p \in Pools : pc[p] = "none"
        /\ UNCHANGED <<pc, flag>>
    BY <1>0, <1>2 DEF RunCall, Call, Goto, SetIdx
  <2>2. runs' \in {0, 1} => runs = 0 /\ runs' = 1
    BY <1>0, <2>1
  <2> QED BY <2>1, <2>2 DEF MaskInv, Seen, Terminating
<1>3. CASE TerminateJoin(c)
  <2>1. PICK q \in Pools : q = cidx[c] /\ cpc[c] = "join"
    BY <1>3 DEF TerminateJoin, Goto, TypeInv, IndexInv
  <2>2. /\ cpc'[c] = "kill" /\ pc' = [pc EXCEPT ![q] = "none"]
        /\ UNCHANGED <<flag, runs>>
    BY <1>0, <1>3, <2>1 DEF TerminateJoin, schWaitThread, Goto
  <2> QED BY <1>0, <2>1, <2>2 DEF MaskInv, Seen, Terminating
<1>4. CASE ReleaseFree(c)
  <2>1. /\ cpc'[c] = "released" /\ UNCHANGED <<pc, runs>>
        /\ \A p \in Pools : flag'[p] = {}
    BY <1>0, <1>4 DEF ReleaseFree, Goto
  <2> QED BY <2>1 DEF MaskInv, Seen, Terminating
<1>5. CASE WaitFlag(c)
  <2>1. PICK q \in Pools : q = cidx[c] /\ cpc[c] = "scan"
    BY <1>0, <1>5, Indices DEF WaitFlag, Goto
  <2>2. /\ "SLEEP" \in flag[q] /\ cpc'[c] = "scansize"
        /\ UNCHANGED <<pc, flag, runs, cidx>>
    BY <1>0, <1>5, <2>1 DEF WaitFlag, Goto
  <2>3. runs \in {0, 1} => pc[q] # "start"
    BY <2>2 DEF MaskInv
  <2> QED BY <2>1, <2>2, <2>3 DEF MaskInv, Seen, Terminating
<1>6. CASE WaitSize(c)
  <2>1. PICK q \in Pools : q = cidx[c] /\ cpc[c] = "scansize"
    BY <1>6 DEF WaitSize, Goto, TypeInv, IndexInv
  <2>2. /\ cpc'[c] = "scan" /\ cidx'[c] \in {q, q + 1}
        /\ UNCHANGED <<pc, flag, runs>>
    BY <1>0, <1>6, <2>1 DEF WaitSize, Goto, SetIdx
  <2>3. \A p \in Pools : p < q + 1 <=> (p < q \/ p = q)
    BY NextIndex
  <2> QED BY <2>1, <2>2, <2>3 DEF MaskInv, Seen, Terminating
<1>7. CASE WaitReturn(c)
  <2>1. \A p \in Pools : p < NumPools
    BY PoolsAssumption DEF Pools
  <2>2. /\ cpc[c] = "scan" /\ cpc'[c] \in {"ready", "kill"}
        /\ cidx[c] = NumPools
        /\ UNCHANGED <<pc, flag, runs>>
    BY <1>0, <1>7 DEF WaitReturn, Goto
  <2> QED BY <2>1, <2>2 DEF MaskInv, Seen, Terminating
<1>8. CASE WaitGate(c)
  <2>1. \A p \in Pools : ~(p < 0)
    BY PoolsAssumption DEF Pools
  <2>2. cpc'[c] = "scan" /\ cidx'[c] = 0 /\ UNCHANGED <<pc, flag, runs>>
    BY <1>0, <1>8 DEF WaitGate, Goto, SetIdx
  <2> QED BY <2>1, <2>2 DEF MaskInv, Seen, Terminating
<1>9. CASE TerminateKill(c)
  <2>1. /\ cpc[c] = "kill" /\ cpc'[c] \in {"kill", "join"}
        /\ UNCHANGED <<pc, flag, runs>>
    BY <1>0, <1>9 DEF TerminateKill, Goto
  <2> QED BY <2>1 DEF MaskInv, Seen, Terminating
<1>10. CASE /\ cpc'[c] \notin {"create", "scan", "scansize", "kill", "join"}
            /\ UNCHANGED <<pc, flag, runs>>
  BY <1>10 DEF MaskInv, Seen, Terminating
<1>11. CASE WaitPoll(c)
  BY <1>11 DEF WaitPoll, vars, MaskInv, Seen, Terminating
<1>12. CASE WaitCall(c)
  BY <1>0, <1>10, <1>12 DEF WaitCall, Call, Goto
<1>13. ASSUME NEW p \in Pools, SubmitCall(c, p) PROVE MaskInv(c)'
  BY <1>0, <1>10, <1>13 DEF SubmitCall, Call, Goto
<1>14. CASE StopCall(c) \/ ReleaseCall(c)
  BY <1>0, <1>10, <1>14 DEF StopCall, ReleaseCall, Call, Goto
<1>15. CASE RunCreateFails(c) \/ RunCreated(c) \/ RunRaise(c) \/ RunReturn(c)
  BY <1>0, <1>10, <1>15
  DEF RunCreateFails, RunCreated, RunRaise, RunReturn, Goto
<1>16. CASE SubmitEnqueue(c) \/ SubmitSize(c) \/ SubmitFlag(c) \/ SubmitRaise(c)
  BY <1>0, <1>10, <1>16
  DEF SubmitEnqueue, SubmitSize, SubmitFlag, SubmitRaise, Goto
<1>17. CASE StopRaise(c) \/ StopReturn(c) \/ TerminateReturn(c)
  BY <1>0, <1>10, <1>17 DEF StopRaise, StopReturn, TerminateReturn, Goto
<1> QED
  BY <1>1, <1>2, <1>3, <1>4, <1>5, <1>6, <1>7, <1>8, <1>9, <1>11, <1>12,
     <1>13, <1>14, <1>15, <1>16, <1>17 DEF Proceed, Begin

(* In the first run of a scheduler schTerminateTaskSch never sends SIGTERM *)
(* to a pool thread that has not blocked it yet, where it would end the    *)
(* whole process: the wait before it does not pass such a pool.            *)
THEOREM TermFindsSignalMasked ==
    ASSUME SoleClient PROVE Spec => []TermAfterMask
<1> DEFINE Masked == \A c \in Clients : MaskInv(c)
<1>1. Init => Masked
  BY DEF Init, MaskInv, Seen, Terminating
<1>2. LifecycleInv /\ Masked /\ [Next]_vars => Masked'
  <2> SUFFICES ASSUME LifecycleInv, Masked, [Next]_vars PROVE Masked'
    OBVIOUS
  <2>1. PICK c : Clients = {c}
    BY DEF SoleClient
  <2>2. c \in Clients /\ TypeInv /\ Phase(c) /\ MaskInv(c)
    BY <2>1 DEF LifecycleInv, PhaseInv
  <2> SUFFICES MaskInv(c)'
    BY <2>1
  <2>3. ASSUME NEW p \in Pools, Executor(p) PROVE MaskInv(c)'
    BY <2>2, <2>3, MaskExecutor
  <2>4. CASE Proceed(c) \/ Begin(c)
    BY <2>2, <2>4, MaskClient
  <2>5. CASE UNCHANGED vars
    BY <2>2, <2>5 DEF vars, MaskInv, Seen, Terminating
  <2> QED BY <2>1, <2>3, <2>4, <2>5 DEF Next, AfterRelease
<1>3. LifecycleInv /\ Masked => TermAfterMask
  BY DEF LifecycleInv, TypeInv, IndexInv, MaskInv, Seen, Terminating,
         TermAfterMask
<1> QED BY <1>1, <1>2, <1>3, LifecycleInvariant, PTL DEF Spec

----------------------------------------------------------------------------
(* While schTerminateTaskSch waits for a pool thread, its SIGTERM is still *)
(* pending for that thread or the thread has acted on it.                  *)
TermNotLost ==
    \A c \in Clients :
        cpc[c] = "join" => \/ "TERM" \in pending[cidx[c]]
                           \/ pc[cidx[c]] \in {"exit", "exited"}

(* The signal that schTerminateTaskSch sends is not lost wherever it finds *)
(* the thread, in a callback or before its first sigwait: the join at      *)
(* taskSch.c:310 never waits for a thread that nothing tells to exit.      *)
THEOREM TermIsTaken == ASSUME SoleClient PROVE Spec => []TermNotLost
<1>1. Init => TermNotLost
  BY DEF Init, TermNotLost
<1>2. TypeInv /\ TermNotLost /\ [Next]_vars => TermNotLost'
  <2> SUFFICES ASSUME TypeInv, TermNotLost, [Next]_vars PROVE TermNotLost'
    OBVIOUS
  <2>1. PICK c : Clients = {c}
    BY DEF SoleClient
  <2> DEFINE Told(p) == "TERM" \in pending[p] \/ pc[p] \in {"exit", "exited"}
  <2>2. c \in Clients /\ (cpc[c] = "join" => cidx[c] \in Pools /\ Told(cidx[c]))
    BY <2>1 DEF TermNotLost, TypeInv, IndexInv
  <2> SUFFICES ASSUME cpc'[c] = "join"
               PROVE  \/ "TERM" \in pending'[cidx'[c]]
                      \/ pc'[cidx'[c]] \in {"exit", "exited"}
    BY <2>1 DEF TermNotLost
  <2>3. ASSUME NEW p \in Pools, Executor(p)
        PROVE  UNCHANGED <<cpc, cidx>> /\ \A q \in Pools : Told(q) => Told(q)'
    <3>1. /\ UNCHANGED <<cpc, cidx>>
          /\ pc' = [pc EXCEPT ![p] = pc'[p]]
      BY <2>3, ExecutorFrame
    <3>2. CASE ExecWait(p)
      <4>1. PICK sig \in pending[p] :
              /\ pc'[p] = IF sig = "TERM" THEN "exit" ELSE "wake"
              /\ pc[p] = "wait"
              /\ pending' = [pending EXCEPT ![p] = pending[p] \ {sig}]
        BY <3>2 DEF ExecWait, schSignalWait, Exec, TypeInv, TypeOK
      <4>2. \A q \in Pools : q # p => pc'[q] = pc[q] /\ pending'[q] = pending[q]
        BY <3>1, <4>1 DEF TypeInv, TypeOK
      <4>3. Told(p) => Told(p)'
        BY <4>1 DEF TypeInv, TypeOK
      <4> QED BY <3>1, <4>2, <4>3
    <3>3. CASE ExecExit(p)
      BY <3>1, <3>3 DEF ExecExit, Exec, TypeInv, TypeOK
    <3>4. CASE UNCHANGED pending /\ pc[p] \notin {"exit", "exited"}
      BY <3>1, <3>4 DEF TypeInv, TypeOK
    <3> QED
      BY <2>3, <3>2, <3>3, <3>4
      DEF Executor, ExecStart, ExecLoop, ExecDequeue, ExecFetch, ExecReturn,
          ExecIdle, ExecIdleAgain, ExecReport, ExecWake, Exec
  <2>4. CASE TerminateKill(c)
    <3>1. PICK q \in Pools : q = cidx[c]
      BY <2>2, <2>4, Indices DEF TerminateKill, TypeInv, TypeOK
    <3>2. pc[cidx[c]] # "none"
      BY <2>2, <2>4 DEF TerminateKill, Goto, TypeInv, TypeOK
    <3>3. "TERM" \in pending'[q] /\ cidx' = cidx
      BY <2>4, <3>1, <3>2 DEF TerminateKill, Raise, TypeInv, TypeOK
    <3> QED BY <3>1, <3>3
  <2>5. CASE (Proceed(c) /\ ~TerminateKill(c)) \/ Begin(c)
    <3>1. cpc'[c] \in ClientPcs \ {"join"} \/ UNCHANGED vars
      BY <2>2, <2>5
      DEF Proceed, RunCreate, RunCreateFails, RunCreated, RunRaise, RunReturn,
          SubmitEnqueue, SubmitSize, SubmitFlag, SubmitRaise, WaitGate,
          WaitFlag, WaitPoll, WaitSize, WaitReturn, StopRaise, StopReturn,
          TerminateJoin, TerminateReturn, ReleaseFree, Begin, RunCall,
          SubmitCall, WaitCall, StopCall, ReleaseCall, Call, Goto, ClientPcs,
          TypeInv, TypeOK
    <3> QED BY <2>2, <3>1 DEF vars
  <2>6. CASE UNCHANGED vars
    BY <2>2, <2>6 DEF vars
  <2>7. CASE \E p \in Pools : Executor(p)
    BY <2>2, <2>3, <2>7
  <2> QED BY <2>1, <2>4, <2>5, <2>6, <2>7 DEF Next, AfterRelease
<1>3. LifecycleInv => TypeInv
  BY DEF LifecycleInv
<1> QED BY <1>1, <1>2, <1>3, LifecycleInvariant, PTL DEF Spec

=============================================================================
