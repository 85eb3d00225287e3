------------------------------ MODULE TaskSch ------------------------------
(***************************************************************************)
(* The running task scheduler: the pool threads (schPoolExecutor), the     *)
(* ring of packages each of them owns, the signals that wake them, and the *)
(* public calls of the application (run, submit, wait, stop, terminate,    *)
(* release).  Init is the state schCreateTaskPool leaves behind.           *)
(*                                                                         *)
(* One step is one access to memory that another thread also uses, or one  *)
(* signal.  schQueueMutexEnDeQueue is one step because all of it runs      *)
(* under sch->spinlock; the reads of pool->size and pool->flag outside the *)
(* lock are steps of their own.  The checks at the head of schSubmitTask   *)
(* (sch->flag, then pool->size) are one step.                              *)
(*                                                                         *)
(* Data left out: the contents of a package (a package is a number), the   *)
(* priorities that choose the pool of a package (any pool may be chosen,   *)
(* as with an explicit pPool), SCH_SIGNAL_DONE on the receiving side (it   *)
(* only shortens a timed poll), sch->mutex and sch->conditional (the one   *)
(* critical section of the library reads one atomic flag, and the unlock   *)
(* at sch.c:107 is of a mutex the thread does not hold) and the unused     *)
(* barrier.                                                                *)
(***************************************************************************)
EXTENDS Integers, Sequences, FiniteSets

CONSTANTS
    NumPools,       \* sch->num
    Reserved,       \* maxPackagesPool, the capacity of each pool's ring
    Clients,        \* the threads of the application that use the scheduler
    Calls,          \* Calls[c] is the set of public functions thread c calls
    Outstanding,    \* the application's own limit on unfinished packages at a
                    \* pool; the code sets none (none: MaxTasks or more)
    MaxTasks,       \* bound: packages the application submits
    MaxRuns,        \* bound: calls of schRunTaskSch
    ThreadsMayFail  \* may schCreateThread return NULL?

PublicCalls == {"run", "submit", "wait", "stop", "terminate", "release"}

ASSUME PoolsAssumption == NumPools \in Nat \ {0}
ASSUME ReservedAssumption == Reserved \in Nat \ {0}
ASSUME ClientsAssumption == IsFiniteSet(Clients)
ASSUME OutstandingAssumption == Outstanding \in Nat
ASSUME CallsAssumption == Calls \in [Clients -> SUBSET PublicCalls]
ASSUME BoundsAssumption == MaxTasks \in Nat /\ MaxRuns \in Nat
ASSUME FailAssumption == ThreadsMayFail \in BOOLEAN

Pools == 0 .. NumPools - 1
Slots == 0 .. Reserved - 1

VARIABLES
    schFlag,     \* bits set in sch->flag
    flag,        \* flag[p]: bits set in pool->flag
    head, tail, size, package,  \* the ring of each pool
    refThread,   \* refThread[p]: pool->schRefThread # NULL
    pending,     \* pending[p]: signals pending for the thread of pool p
    pc,          \* where the thread of pool p is; "none": pool->thread = NULL
    cur,         \* cur[p]: the slot the executor's package pointer points at
    callback,    \* callback[p]: the task whose callback is being invoked
    cpc, cidx,   \* where client c is, and its loop index (or chosen pool)
    op,          \* the public function client c is in
    job,         \* the package client c submits
    issued,      \* packages handed to schSubmitTask so far
    runs,        \* calls of schRunTaskSch so far
    failures,    \* calls of schRunTaskSch that could not create a thread
    acc,         \* history: acc[p] are the packages enqueued at p, in order
    ran          \* history: ran[p] are the tasks whose callback has returned

ringVars   == <<head, tail, size, package, acc>>
execVars   == <<pc, cur, callback, ran>>
callVars   == <<op, job, issued, runs, failures>>
clientVars == <<cpc, cidx, callVars>>
poolVars   == <<flag, ringVars, refThread, pending, execVars>>
schVars    == <<schFlag, poolVars>>
foreign    == <<schFlag, refThread, clientVars>>  \* a pool thread writes none
vars == <<schVars, clientVars>>

Signals == {"CONTINUE", "TERM"}

ExecPcs == {"none", "start", "loop", "dequeue", "fetch", "run", "idle",
            "idle2", "report", "wait", "wake", "exit", "exited"}

ClientPcs == {"ready", "create", "start", "enqueue", "size", "flag", "raise",
              "gate", "scan", "scansize", "stop", "kill", "join", "free",
              "released"}

----------------------------------------------------------------------------
(* atomic_fetch_xor on a set of bits.  SCH_FLAG_RUNNING, which             *)
(* setPoolRunning uses on a pool, is the same bit as SCH_POOL_RUNNING.     *)
Xor(bits, mask) == (bits \ mask) \cup (mask \ bits)

setPoolRunning(p) == flag' = [flag EXCEPT ![p] = Xor(@, {"SLEEP", "RUNNING"})]
setPoolIdle(p) == flag' = [flag EXCEPT ![p] = Xor(@, {"RUNNING", "SLEEP"})]
setPoolTerminated(p) ==
    flag' = [flag EXCEPT ![p] = Xor(@, {"RUNNING", "SLEEP", "TERMINATE"})]

(* schRaiseThreadSignal: a standard signal is pending at most once.        *)
Raise(p, sig) == pending' = [pending EXCEPT ![p] = @ \cup {sig}]

(* The next slot of a ring.  The operators before it are faulty variants,  *)
(* for the mutation tests, as they are wherever one has such neighbours.   *)
AdvanceNoWrap(i) == i + 1
AdvanceStays(i) == i
Advance(i) == (i + 1) % Reserved

DequeueKeepsSize(p) ==
    /\ cur' = [cur EXCEPT ![p] = head[p]]
    /\ head' = [head EXCEPT ![p] = Advance(@)]
    /\ UNCHANGED <<size, tail, package, acc>>

(* schQueueMutexEnDeQueue, both directions, under sch->spinlock.           *)
Enqueue(p, t) ==
    /\ package' = [package EXCEPT ![p][tail[p]] = t]
    /\ tail' = [tail EXCEPT ![p] = Advance(@)]
    /\ size' = [size EXCEPT ![p] = @ + 1]
    /\ acc' = [acc EXCEPT ![p] = Append(@, t)]
    /\ UNCHANGED head

Dequeue(p) ==
    /\ size' = [size EXCEPT ![p] = @ - 1]
    /\ cur' = [cur EXCEPT ![p] = head[p]]
    /\ head' = [head EXCEPT ![p] = Advance(@)]
    /\ UNCHANGED <<tail, package, acc>>

----------------------------------------------------------------------------
Init ==
    /\ schFlag = {"INIT"}
    /\ flag = [p \in Pools |-> {}]
    /\ head = [p \in Pools |-> 0]
    /\ tail = [p \in Pools |-> 0]
    /\ size = [p \in Pools |-> 0]
    /\ package = [p \in Pools |-> [s \in Slots |-> 0]]
    /\ refThread = [p \in Pools |-> TRUE]
    /\ pending = [p \in Pools |-> {}]
    /\ pc = [p \in Pools |-> "none"]
    /\ cur = [p \in Pools |-> 0]
    /\ callback = [p \in Pools |-> 0]
    /\ cpc = [c \in Clients |-> "ready"]
    /\ cidx = [c \in Clients |-> 0]
    /\ op = [c \in Clients |-> "run"]
    /\ job = [c \in Clients |-> 0]
    /\ issued = 0
    /\ runs = 0
    /\ failures = 0
    /\ acc = [p \in Pools |-> <<>>]
    /\ ran = [p \in Pools |-> <<>>]

----------------------------------------------------------------------------
(* The thread of pool p: schPoolExecutor.                                  *)

Exec(p, from, to) == pc[p] = from /\ pc' = [pc EXCEPT ![p] = to]

(* Waits on the conditional while the RUNNING bit is set; nobody clears    *)
(* the bit of a pool but its own thread.  Then the init callback runs.     *)
ExecStart(p) ==
    /\ "RUNNING" \notin flag[p]
    /\ Exec(p, "start", "loop")
    /\ UNCHANGED <<flag, ringVars, pending, cur, callback, ran, foreign>>

ExecLoop(p) ==
    /\ Exec(p, "loop", IF size[p] > 0 THEN "dequeue" ELSE "idle")
    /\ UNCHANGED <<flag, ringVars, pending, cur, callback, ran, foreign>>

ExecDequeue(p) ==
    /\ Exec(p, "dequeue", "fetch")
    /\ Dequeue(p)
    /\ UNCHANGED <<flag, pending, callback, ran, foreign>>

(* The callback is read through the pointer into the ring, after the       *)
(* spinlock was released, and invoked with that pointer.                   *)
ExecFetch(p) ==
    /\ Exec(p, "fetch", "run")
    /\ callback' = [callback EXCEPT ![p] = package[p][cur[p]]]
    /\ UNCHANGED <<flag, ringVars, pending, cur, ran, foreign>>

ExecReturn(p) ==
    /\ Exec(p, "run", "loop")
    /\ ran' = [ran EXCEPT ![p] = Append(@, callback[p])]
    /\ UNCHANGED <<flag, ringVars, pending, cur, callback, foreign>>

(* Between the two setPoolIdle the thread also unlocks sch->mutex, which   *)
(* no pool thread ever locks (sch.c:107).                                  *)
ExecIdle(p) ==
    /\ Exec(p, "idle", "idle2")
    /\ setPoolIdle(p)
    /\ UNCHANGED <<ringVars, pending, cur, callback, ran, foreign>>

ExecIdleAgain(p) ==
    /\ Exec(p, "idle2", "report")
    /\ setPoolIdle(p)
    /\ UNCHANGED <<ringVars, pending, cur, callback, ran, foreign>>

(* pthread_kill(schRefThread, SCH_SIGNAL_DONE).  With a NULL handle the    *)
(* thread does not get past this point.                                    *)
ExecReport(p) ==
    /\ refThread[p]
    /\ Exec(p, "report", "wait")
    /\ UNCHANGED <<flag, ringVars, pending, cur, callback, ran, foreign>>

(* The switch over the signal that sigwait took.  Nobody sends a pool any  *)
(* other signal than these two; the switch would ignore them.              *)
MissContinue(sig) == IF sig = "TERM" THEN "exit" ELSE "wait"
MissTerm(sig) == IF sig = "TERM" THEN "wait" ELSE "wake"
AfterSignal(sig) == IF sig = "TERM" THEN "exit" ELSE "wake"

(* sigwait takes any pending signal.                                       *)
schSignalWait(p, sig) == pending' = [pending EXCEPT ![p] = @ \ {sig}]

ExecWait(p) ==
    \E sig \in pending[p] :
        /\ Exec(p, "wait", AfterSignal(sig))
        /\ schSignalWait(p, sig)
        /\ UNCHANGED <<flag, ringVars, cur, callback, ran, foreign>>

ExecWake(p) ==
    /\ Exec(p, "wake", "loop")
    /\ setPoolRunning(p)
    /\ UNCHANGED <<ringVars, pending, cur, callback, ran, foreign>>

ExecExit(p) ==
    /\ Exec(p, "exit", "exited")
    /\ setPoolTerminated(p)
    /\ pending' = [pending EXCEPT ![p] = {}]
    /\ UNCHANGED <<ringVars, cur, callback, ran, foreign>>

Executor(p) ==
    \/ ExecStart(p) \/ ExecLoop(p) \/ ExecDequeue(p) \/ ExecFetch(p)
    \/ ExecReturn(p) \/ ExecIdle(p) \/ ExecIdleAgain(p) \/ ExecReport(p)
    \/ ExecWait(p) \/ ExecWake(p) \/ ExecExit(p)

----------------------------------------------------------------------------
(* The application.  A call that returns early because of the state of the *)
(* scheduler changes nothing and is not a step.                            *)

Goto(c, from, to) == cpc[c] = from /\ cpc' = [cpc EXCEPT ![c] = to]
SetIdx(c, i) == cidx' = [cidx EXCEPT ![c] = i]
Running == "RUNNING" \in schFlag

Call(c, fn, to) ==
    /\ fn \in Calls[c]
    /\ Goto(c, "ready", to)
    /\ op' = [op EXCEPT ![c] = fn]

(* The clients between the size check and the enqueue of schSubmitTask for *)
(* pool p, and the packages the application knows to be unfinished at p.   *)
Submitters(p) == {c \in Clients : cpc[c] = "enqueue" /\ cidx[c] = p}
Unfinished(p) == Len(acc[p]) - Len(ran[p]) + Cardinality(Submitters(p))

(* schRunTaskSch.  The code only requires INIT; the application is assumed *)
(* not to start a scheduler that has threads.                              *)
RunCall(c) ==
    /\ "INIT" \in schFlag
    /\ runs < MaxRuns
    /\ \A p \in Pools : pc[p] = "none"
    /\ Call(c, "run", "create")
    /\ SetIdx(c, 0)
    /\ runs' = runs + 1
    /\ UNCHANGED <<schVars, job, issued, failures>>

(* A new thread starts with no signal pending.                             *)
schCreateThread(p) ==
    /\ pc' = [pc EXCEPT ![p] = "start"]
    /\ pending' = [pending EXCEPT ![p] = {}]

RunCreate(c) ==
    /\ cidx[c] < NumPools
    /\ Goto(c, "create", "create")
    /\ schCreateThread(cidx[c])
    /\ SetIdx(c, cidx[c] + 1)
    /\ UNCHANGED <<schFlag, flag, ringVars, refThread, cur, callback, ran, callVars>>

(* schCreateThread returned NULL: schTerminateTaskSch is called, but the   *)
(* scheduler is not RUNNING yet, so it returns without doing anything.     *)
(* (A mutex that cannot be created makes it return without even that.)     *)
RunCreateFails(c) ==
    /\ ThreadsMayFail
    /\ cidx[c] < NumPools
    /\ Goto(c, "create", "ready")
    /\ failures' = failures + 1
    /\ UNCHANGED <<schVars, cidx, op, job, issued, runs>>

RunCreated(c) ==
    /\ cidx[c] = NumPools
    /\ Goto(c, "create", "start")
    /\ SetIdx(c, 0)
    /\ UNCHANGED <<schVars, callVars>>

RunRaise(c) ==
    /\ cidx[c] < NumPools
    /\ Goto(c, "start", "start")
    /\ Raise(cidx[c], "CONTINUE")
    /\ SetIdx(c, cidx[c] + 1)
    /\ UNCHANGED <<schFlag, flag, ringVars, refThread, execVars, callVars>>

RunReturn(c) ==
    /\ cidx[c] = NumPools
    /\ Goto(c, "start", "ready")
    /\ schFlag' = schFlag \cup {"RUNNING"}
    /\ UNCHANGED <<poolVars, cidx, callVars>>

FullOffByOne(p) == size[p] > Reserved
Full(p) == size[p] >= Reserved

(* schSubmitTask with a valid package; p is sch->dheap[0] or pPool.  A     *)
(* full queue is refused.                                                  *)
SubmitCall(c, p) ==
    /\ Running /\ "INIT" \in schFlag
    /\ issued < MaxTasks /\ Unfinished(p) < Outstanding
    /\ ~Full(p)
    /\ Call(c, "submit", "enqueue")
    /\ SetIdx(c, p)
    /\ issued' = issued + 1
    /\ job' = [job EXCEPT ![c] = issued + 1]
    /\ UNCHANGED <<schVars, runs, failures>>

SubmitEnqueue(c) ==
    /\ Goto(c, "enqueue", "size")
    /\ Enqueue(cidx[c], job[c])
    /\ UNCHANGED <<schFlag, flag, refThread, pending, execVars, cidx, callVars>>

SubmitSize(c) ==
    /\ Goto(c, "size", IF size[cidx[c]] <= 1 THEN "flag" ELSE "ready")
    /\ UNCHANGED <<schVars, cidx, callVars>>

TakenAsleep(p) == TRUE
Asleep(p) == "SLEEP" \in flag[p]

SubmitFlag(c) ==
    /\ Goto(c, "flag", IF Asleep(cidx[c]) THEN "raise" ELSE "ready")
    /\ UNCHANGED <<schVars, cidx, callVars>>

SubmitRaise(c) ==
    /\ Goto(c, "raise", "ready")
    /\ Raise(cidx[c], "CONTINUE")
    /\ UNCHANGED <<schFlag, flag, ringVars, refThread, execVars, cidx, callVars>>

(* schWaitTaskWait, alone or at the start of schTerminateTaskSch, which    *)
(* schReleaseTaskSch calls in turn.                                        *)
WaitCall(c) ==
    /\ Running
    /\ \E fn \in {"wait", "terminate", "release"} : Call(c, fn, "gate")
    /\ UNCHANGED <<schVars, cidx, job, issued, runs, failures>>

WaitGate(c) ==
    /\ Running
    /\ Goto(c, "gate", "scan")
    /\ SetIdx(c, 0)
    /\ UNCHANGED <<schVars, callVars>>

WaitFlag(c) ==
    /\ cidx[c] < NumPools
    /\ Asleep(cidx[c])
    /\ Goto(c, "scan", "scansize")
    /\ UNCHANGED <<schVars, cidx, callVars>>

(* schSignalWaitTimeOut for ten microseconds, then the same pool again.    *)
WaitPoll(c) ==
    /\ cpc[c] = "scan" /\ cidx[c] < NumPools
    /\ ~Asleep(cidx[c])
    /\ UNCHANGED vars

PassedAlways(p) == TRUE
Passed(p) == size[p] <= 0

WaitSize(c) ==
    /\ Goto(c, "scansize", "scan")
    /\ SetIdx(c, IF Passed(cidx[c]) THEN cidx[c] + 1 ELSE cidx[c])
    /\ UNCHANGED <<schVars, callVars>>

WaitReturn(c) ==
    /\ cidx[c] = NumPools
    /\ Goto(c, "scan", IF op[c] = "wait" THEN "ready" ELSE "kill")
    /\ SetIdx(c, 0)
    /\ UNCHANGED <<schVars, callVars>>

(* schStopTaskSch.                                                         *)
StopCall(c) ==
    /\ Running /\ "INIT" \in schFlag
    /\ Call(c, "stop", "stop")
    /\ SetIdx(c, 0)
    /\ UNCHANGED <<schVars, job, issued, runs, failures>>

StopRaise(c) ==
    /\ cidx[c] < NumPools
    /\ Goto(c, "stop", "stop")
    /\ Raise(cidx[c], "CONTINUE")
    /\ SetIdx(c, cidx[c] + 1)
    /\ UNCHANGED <<schFlag, flag, ringVars, refThread, execVars, callVars>>

StopReturn(c) ==
    /\ cidx[c] = NumPools
    /\ Goto(c, "stop", "ready")
    /\ UNCHANGED <<schVars, cidx, callVars>>

AllJoinedButOne(c) == cidx[c] >= NumPools - 1
AllJoined(c) == cidx[c] = NumPools
KeepRunning == UNCHANGED schFlag
ClearRunning == schFlag' = schFlag \ {"RUNNING"}

(* schTerminateTaskSch after its wait; a pool without a thread is skipped. *)
TerminateKill(c) ==
    /\ cidx[c] < NumPools
    /\ IF pc[cidx[c]] # "none"
         THEN /\ Goto(c, "kill", "join")
              /\ Raise(cidx[c], "TERM")
              /\ UNCHANGED cidx
         ELSE /\ Goto(c, "kill", "kill")
              /\ SetIdx(c, cidx[c] + 1)
              /\ UNCHANGED pending
    /\ UNCHANGED <<schFlag, flag, ringVars, refThread, execVars, callVars>>

(* pthread_join: blocks until the thread has returned.                     *)
schWaitThread(p) == pc[p] = "exited" /\ pc' = [pc EXCEPT ![p] = "none"]

TerminateJoin(c) ==
    /\ Goto(c, "join", "kill")
    /\ schWaitThread(cidx[c])
    /\ refThread' = [refThread EXCEPT ![cidx[c]] = FALSE]
    /\ SetIdx(c, cidx[c] + 1)
    /\ UNCHANGED <<schFlag, flag, ringVars, pending, cur, callback, ran, callVars>>

TerminateReturn(c) ==
    /\ AllJoined(c)
    /\ Goto(c, "kill", IF op[c] = "release" THEN "free" ELSE "ready")
    /\ ClearRunning
    /\ UNCHANGED <<poolVars, cidx, callVars>>

(* schReleaseTaskSch of a scheduler that is not running.                   *)
ReleaseCall(c) ==
    /\ ~Running
    /\ Call(c, "release", "free")
    /\ UNCHANGED <<schVars, cidx, job, issued, runs, failures>>

(* The rings and the pools are freed.  The INIT flag stays.                *)
ReleaseFree(c) ==
    /\ Goto(c, "free", "released")
    /\ flag' = [p \in Pools |-> {}]
    /\ UNCHANGED <<schFlag, ringVars, refThread, pending, execVars, cidx, callVars>>

(* Inside a call the application thread keeps going ...                    *)
Proceed(c) ==
    \/ RunCreate(c) \/ RunCreateFails(c) \/ RunCreated(c) \/ RunRaise(c)
    \/ RunReturn(c)
    \/ SubmitEnqueue(c) \/ SubmitSize(c) \/ SubmitFlag(c) \/ SubmitRaise(c)
    \/ WaitGate(c) \/ WaitFlag(c) \/ WaitPoll(c) \/ WaitSize(c) \/ WaitReturn(c)
    \/ StopRaise(c) \/ StopReturn(c)
    \/ TerminateKill(c) \/ TerminateJoin(c) \/ TerminateReturn(c)
    \/ ReleaseFree(c)

(* ... and between calls it decides what to call next.                     *)
Begin(c) ==
    \/ RunCall(c) \/ (\E p \in Pools : SubmitCall(c, p)) \/ WaitCall(c)
    \/ StopCall(c) \/ ReleaseCall(c)

(* After the release the process goes on without the scheduler.            *)
AfterRelease == (\E c \in Clients : cpc[c] = "released") /\ UNCHANGED vars

Next ==
    \/ \E p \in Pools : Executor(p)
    \/ \E c \in Clients : Proceed(c) \/ Begin(c)
    \/ AfterRelease

Spec == Init /\ [][Next]_vars

(* Threads are scheduled fairly and callbacks return; the application need *)
(* not make any call, but does not abandon one.                            *)
Fairness ==
    /\ \A p \in Pools : WF_vars(Executor(p))
    /\ \A c \in Clients : WF_vars(Proceed(c))

FairSpec == Spec /\ Fairness

----------------------------------------------------------------------------
(* Every field has the values the code allows; in particular the head and  *)
(* tail of every ring, and the slot a pool thread holds, stay inside the   *)
(* ring, and no pool thread takes the size of its queue below zero         *)
(* (sch.c:80 reads it before the lock is taken).                           *)
TypeOK ==
    /\ schFlag \in SUBSET {"INIT", "RUNNING"}
    /\ flag \in [Pools -> SUBSET {"TERMINATE", "RUNNING", "SLEEP"}]
    /\ head \in [Pools -> Slots]
    /\ tail \in [Pools -> Slots]
    /\ size \in [Pools -> Nat]
    /\ package \in [Pools -> [Slots -> Nat]]
    /\ refThread \in [Pools -> BOOLEAN]
    /\ pending \in [Pools -> SUBSET Signals]
    /\ pc \in [Pools -> ExecPcs]
    /\ cur \in [Pools -> Slots]
    /\ callback \in [Pools -> Nat]
    /\ cpc \in [Clients -> ClientPcs]
    /\ cidx \in [Clients -> 0 .. NumPools]
    /\ op \in [Clients -> PublicCalls]
    /\ job \in [Clients -> Nat]
    /\ issued \in Nat
    /\ runs \in Nat
    /\ failures \in Nat
    /\ acc \in [Pools -> Seq(Nat)]
    /\ ran \in [Pools -> Seq(Nat)]

----------------------------------------------------------------------------
(* The packages in the ring of p, and the one its thread holds.            *)
Contents(p) ==
    [i \in 1 .. size[p] |-> package[p][(head[p] + i - 1) % Reserved]]
Holds(p) == pc[p] \in {"fetch", "run"}
InFlight(p) == IF pc[p] = "fetch" THEN <<package[p][cur[p]]>>
               ELSE IF pc[p] = "run" THEN <<callback[p]>> ELSE <<>>

(* No queue holds more packages than schCreateTaskPool reserved slots for  *)
(* (taskSch.c:355 checks the size outside the lock).                       *)
QueueBound == \A p \in Pools : size[p] <= Reserved

(* The three counters of schQueueMutexEnDeQueue agree: tail is size slots  *)
(* after head, around the ring.                                            *)
RingConsistent ==
    \A p \in Pools : tail[p] = (head[p] + size[p]) % Reserved

(* A queue holds exactly the packages accepted last at its pool, in the    *)
(* order of their submission, whatever the pool thread does meanwhile.     *)
QueueIntact ==
    \A p \in Pools : \A i \in 1 .. size[p] :
        Contents(p)[i] = acc[p][Len(acc[p]) - size[p] + i]

(* Every accepted package is queued, held by the pool thread or finished:  *)
(* no race between schSubmitTask and schPoolExecutor loses count of one.   *)
TasksAccounted ==
    \A p \in Pools :
        Len(acc[p]) = Len(ran[p]) + Len(InFlight(p)) + size[p]

(* The package a pool thread works on is overwritten in its slot only by   *)
(* an enqueue that fills the queue (the dequeue at taskSch.c:423 frees the *)
(* slot before the callback has run).                                      *)
OverwriteOnlyWhenFull ==
    [][\A p \in Pools :
          (Holds(p) /\ package'[p][cur[p]] # package[p][cur[p]])
             => size'[p] = Reserved]_vars

(* While a callback runs, the package it was given stays the one that was  *)
(* dequeued.                                                               *)
HeldPackageIntact ==
    \A p \in Pools :
        Holds(p) => package[p][cur[p]] = acc[p][Len(ran[p]) + 1]

(* When schWaitTask has gone through all pools, no queue holds a package.  *)
WaitEmptiesQueues ==
    \A c \in Clients :
        (cpc[c] = "scan" /\ cidx[c] = NumPools)
            => \A p \in Pools : size[p] = 0

(* When schWaitTask has gone through all pools, their tasks are finished.  *)
WaitMeansFinished ==
    \A c \in Clients :
        (cpc[c] = "scan" /\ cidx[c] = NumPools)
            => \A p \in Pools : Len(ran[p]) = Len(acc[p])

(* A pool thread that has exited, as schTerminateTaskSch makes it do, has  *)
(* run every package its pool ever accepted.                               *)
TerminateDrains ==
    \A p \in Pools :
        pc[p] \in {"none", "exited"} => Len(ran[p]) = Len(acc[p])

(* When schReleaseTaskSch has freed the pools, no pool thread is left to   *)
(* use them, unless a schRunTaskSch gave up half-way (taskSch.c:259 stops  *)
(* none of the threads it had created).                                    *)
ReleaseAfterThreads ==
    ((\E c \in Clients : cpc[c] = "released") /\ failures = 0)
        => \A p \in Pools : pc[p] = "none"

(* The application never signals a pool whose thread was joined            *)
(* (pthread_kill with a stale or NULL handle), and a termination finds a   *)
(* thread in every pool, so that its check at taskSch.c:305 skips none.    *)
NoSignalToJoinedThread ==
    \A c \in Clients :
        (\/ cpc[c] \in {"raise", "join"}
         \/ cpc[c] \in {"start", "stop", "kill"} /\ cidx[c] < NumPools)
            => pc[cidx[c]] # "none"

(* SIGTERM reaches a pool thread only after it has blocked that signal     *)
(* (sch.c:51); before, the signal would end the whole process.  Holds for  *)
(* the first run of a scheduler: later the SLEEP bit may be left over.     *)
TermAfterMask ==
    \A c \in Clients :
        (cpc[c] = "join" /\ runs = 1) => pc[cidx[c]] # "start"

(* In the first run of a scheduler, a pool for which CONTINUE is pending   *)
(* runs every package it had accepted by then, whatever its SLEEP bit says *)
(* and wherever its thread is.  A restarted thread stops at the NULL       *)
(* handle of sch.c:114, and the property is false: MaxRuns = 1.            *)
ContinueDrains ==
    \A p \in Pools : \A k \in 0 .. MaxTasks :
        ("CONTINUE" \in pending[p] /\ Len(acc[p]) = k) ~> (Len(ran[p]) >= k)

(* In the first run of a scheduler (MaxRuns = 1, as above),                *)
(* schTerminateTaskSch returns once it has got past its wait: every pool   *)
(* thread it signals exits and is joined.                                  *)
TerminateReturns ==
    \A c \in Clients :
        (cpc[c] = "kill") ~> (cpc[c] \in {"ready", "released"})

(* schWaitTask returns: its scan of the pools comes to an end.             *)
WaitReturns ==
    \A c \in Clients :
        (cpc[c] = "scan") ~> (cpc[c] \notin {"scan", "scansize"})

(* Every package that schSubmitTask accepted is run.                       *)
SubmittedRuns ==
    \A p \in Pools : \A k \in 1 .. MaxTasks :
        (Len(acc[p]) >= k) ~> (Len(ran[p]) >= k)

(* The scheduler implements the promise of PoolSpec: first in, first out,  *)
(* one at a time, nothing lost and nothing run twice, drained when closed. *)
Promise == INSTANCE PoolSpec WITH
    Capacity <- Reserved,
    Tasks    <- 1 .. MaxTasks,
    open     <- {p \in Pools : pc[p] # "none"},
    queued   <- [p \in Pools |-> Contents(p)],
    running  <- [p \in Pools |-> InFlight(p)],
    finished <- ran

ImplementsPoolSpec == Promise!Spec

=============================================================================
