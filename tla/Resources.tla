----------------------------- MODULE Resources ------------------------------
(***************************************************************************)
(* What the scheduler allocates and frees: the handles of schTaskSch and   *)
(* of its pools through schCreateTaskPool, schRunTaskSch,                  *)
(* schTerminateTaskSch and schReleaseTaskSch, when any of the calls they   *)
(* make may fail, and the status codes they return.  The work of the pool  *)
(* threads is left out; schWaitTask at the start of a termination returns  *)
(* SCH_OK.  Of the application it is assumed that it runs only a scheduler *)
(* that is not running, and releases what it has created, or tried to      *)
(* create, once; the code checks neither.                                  *)
(***************************************************************************)
EXTENDS Integers, Sequences

CONSTANT NumPools  \* sch->num

ASSUME ResourcePoolsAssumption == NumPools \in Nat \ {0}

Pools == 0 .. NumPools - 1

(* SCH_OK and the error codes that occur here.                             *)
OK == 1
UNKNOWN == 0
INVALID_ARG == -1
INVALID_SCH == -2
INTERNAL == -4
LACK_OF_RESOURCES == -11
BUSY == -9
NOMEM == -10
PERMISSION_DENIED == -12
Codes == {OK, UNKNOWN, INVALID_ARG, INVALID_SCH, INTERNAL, LACK_OF_RESOURCES,
          BUSY, NOMEM, PERMISSION_DENIED}

(* The handles in the order in which they are created.                     *)
CreateOrder ==
    <<"pool", "dheap", "set", "spinlock", "mutex", "conditional", "barrier">>
SchHandles == {CreateOrder[i] : i \in 1 .. 7}
PoolHandles == {"package", "poolMutex", "poolSet", "thread"}
SyncObjects == {"mutex", "conditional", "barrier"}

(* What a handle points at: "raw" is an object whose memory was allocated  *)
(* and whose initialisation failed.                                        *)
Allocated == {"live", "raw"}
Values == Allocated \cup {"garbage", "null", "dangling"}

Events == {"uncleared", "createFailed", "failedReleased", "runFailed",
           "joinFailed"}

VARIABLES
    h,       \* h[x]: what the handle x of the scheduler points at
    ph,      \* ph[p][x]: the same for the handle x of pool p
    flag,    \* sch->flag
    made,    \* "yes": there is a scheduler; "failed": its creation failed;
             \* "no": none was created, or it was released
    pc, k,   \* where the call in progress is, and its loop index
    op,      \* the public function called last
    status,  \* its status, or what it has returned
    bad,     \* history: handles freed or followed when nothing was allocated
    lost,    \* history: handles given up or overwritten while allocated
    seen     \* history: which of Events have happened

handleVars == <<h, ph, bad, lost>>
vars == <<handleVars, flag, made, pc, k, op, status, seen>>

Init ==
    /\ h = [x \in SchHandles |-> "garbage"]
    /\ ph = [p \in Pools |-> [x \in PoolHandles |-> "garbage"]]
    /\ flag = {} /\ made = "no"
    /\ pc = "idle" /\ k = 0
    /\ op = "none" /\ status = OK
    /\ bad = {} /\ lost = {} /\ seen = {}

----------------------------------------------------------------------------
LiveHandles == {x \in SchHandles : h[x] = "live"}
AllocatedHandles == {x \in SchHandles : h[x] \in Allocated}
AllocatedOf(p) == {x \in PoolHandles : ph[p][x] \in Allocated}

(* What schRunTaskSch has given pool p when it goes on to the next one,    *)
(* and a pool that has none of it.                                         *)
Started(p) ==
    /\ ph[p]["thread"] = "live"
    /\ ph[p]["poolMutex"] \in Allocated
    /\ ph[p]["poolSet"] \in {"live", "null"}
Bare(p) == \A x \in {"thread", "poolMutex", "poolSet"} : ph[p][x] = "null"

(* sch_release_scheduler_resources: what it frees, and the NULL check.     *)
FreedButLock == {"pool", "dheap", "set"}
Freed == {"pool", "dheap", "set", "spinlock"}
GivenAlways(x) == TRUE
Given(x) == h[x] # "null"

ReleaseResources(wrong) ==
    /\ h' = [x \in SchHandles |->
                IF x \in Freed \cap AllocatedHandles THEN "dangling" ELSE h[x]]
    /\ bad' = bad \cup wrong
                  \cup {x \in Freed : Given(x) /\ h[x] \notin Allocated}

(* schCreateTaskPool of a structure that the application has cleared, or   *)
(* of what schAllocateTaskPool or an earlier use of it left there.         *)
CreateCall(clear) ==
    /\ pc = "idle" /\ made # "yes"
    /\ pc' = "create" /\ k' = 1 /\ op' = "create"
    /\ flag' = {} /\ made' = "no"
    /\ lost' = IF clear THEN lost \cup AllocatedHandles ELSE lost
    /\ h' = IF clear THEN [x \in SchHandles |-> "null"] ELSE h
    /\ seen' = IF clear THEN seen ELSE seen \cup {"uncleared"}
    /\ ph' = [p \in Pools |-> [x \in PoolHandles |-> "garbage"]]
    /\ UNCHANGED <<status, bad>>

SetHandle(x, v) ==
    /\ h' = [h EXCEPT ![x] = v]
    /\ lost' = lost \cup ({x} \cap AllocatedHandles)

CreateObject ==
    /\ pc = "create" /\ k <= 7
    /\ SetHandle(CreateOrder[k], "live")
    /\ k' = k + 1
    /\ UNCHANGED <<ph, flag, made, pc, op, status, bad, seen>>

(* A failed malloc and schCreateSignal return NULL; the other calls have   *)
(* stored what they allocated when its initialisation fails.               *)
FailureCodes(i) ==
    CASE i <= 2 -> {NOMEM}
      [] i = 3  -> {UNKNOWN}
      [] OTHER  -> {LACK_OF_RESOURCES, NOMEM, PERMISSION_DENIED}

CreateFails ==
    /\ pc = "create" /\ k <= 7
    /\ SetHandle(CreateOrder[k], IF k <= 3 THEN "null" ELSE "raw")
    /\ pc' = "error" /\ status' \in FailureCodes(k)
    /\ UNCHANGED <<ph, flag, made, k, op, bad, seen>>

CreateError ==
    /\ pc = "error"
    /\ ReleaseResources({})
    /\ made' = "failed" /\ seen' = seen \cup {"createFailed"}
    /\ pc' = "idle"
    /\ UNCHANGED <<ph, flag, k, op, status, lost>>

(* Nobody looks whether there was memory for the rings (taskSch.c:102).    *)
CreateDone(rings) ==
    /\ pc = "create" /\ k = 8
    /\ ph' = [p \in Pools |-> [x \in PoolHandles |->
                 IF x = "package" /\ p \in rings THEN "live" ELSE "null"]]
    /\ flag' = {"INIT"} /\ made' = "yes"
    /\ pc' = "idle" /\ status' = OK
    /\ UNCHANGED <<h, k, op, bad, lost, seen>>

----------------------------------------------------------------------------
(* schRunTaskSch.                                                          *)
RunCall ==
    /\ pc = "idle" /\ made = "yes" /\ flag = {"INIT"}
    /\ pc' = "run" /\ k' = 0 /\ op' = "run"
    /\ UNCHANGED <<handleVars, flag, made, status, seen>>

SetPoolHandles(p, to) ==
    /\ ph' = [ph EXCEPT ![p] = [x \in PoolHandles |->
                 IF x \in DOMAIN to THEN to[x] ELSE ph[p][x]]]
    /\ lost' = lost \cup (AllocatedOf(p) \cap DOMAIN to)
    /\ UNCHANGED <<h, bad>>

(* The negative codes of schCreateMutex (EAGAIN, ENOMEM, EPERM) count as   *)
(* success at taskSch.c:221, and leave a mutex that is not initialised.    *)
(* Without assertions schCreateSignal may return NULL, which is not        *)
(* checked either.                                                         *)
RunPool(mutex, set) ==
    /\ pc = "run" /\ k < NumPools
    /\ SetPoolHandles(k, [poolMutex |-> mutex, poolSet |-> set,
                          thread |-> "live"])
    /\ k' = k + 1
    /\ UNCHANGED <<flag, made, pc, op, status, seen>>

(* Only the code 0, SCH_ERROR_UNKNOWN, counts as a failed schCreateMutex.  *)
(* When a thread cannot be created schTerminateTaskSch is called, which    *)
(* returns at once.                                                        *)
RunFails(mutex, set) ==
    /\ pc = "run" /\ k < NumPools
    /\ \/ SetPoolHandles(k, [poolMutex |-> "raw"]) /\ status' = INTERNAL
       \/ /\ SetPoolHandles(k, [poolMutex |-> mutex, poolSet |-> set,
                                thread |-> "null"])
          /\ status' = INVALID_SCH
    /\ pc' = "idle" /\ seen' = seen \cup {"runFailed"}
    /\ UNCHANGED <<flag, made, k, op>>

(* schSetSignalThreadMask or the signal that starts a pool fails.          *)
RunGivesUp ==
    /\ pc = "run" /\ k \in {0, NumPools}
    /\ pc' = "idle" /\ status' = INTERNAL /\ seen' = seen \cup {"runFailed"}
    /\ UNCHANGED <<handleVars, flag, made, k, op>>

AllButOneStarted == k >= NumPools - 1
AllStarted == k = NumPools

RunDone ==
    /\ pc = "run" /\ AllStarted
    /\ flag' = flag \cup {"RUNNING"}
    /\ pc' = "idle" /\ status' = OK
    /\ UNCHANGED <<handleVars, made, k, op, seen>>

----------------------------------------------------------------------------
(* schTerminateTaskSch, also as the first call of schReleaseTaskSch.       *)
TerminateCall(fn) ==
    /\ pc = "idle" /\ made = "yes" /\ "RUNNING" \in flag
    /\ pc' = "kill" /\ k' = 0 /\ op' = fn /\ status' = OK
    /\ UNCHANGED <<handleVars, flag, made, seen>>

(* status &= code, bit by bit.  status starts with SCH_OK, so that it only *)
(* has its lowest bit, and that bit survives every odd code.               *)
LastCode(s, code) == code
BitAnd(s, code) == IF code % 2 = 1 THEN s ELSE 0

(* What is deleted before the handles of the pool are set to NULL.         *)
DeletedButMutex == {"poolSet"}
Deleted == {"poolMutex", "poolSet"}

(* One pool, if it has a thread.  schWaitThread and schDeleteMutex may     *)
(* fail (EDEADLK, EINVAL, EBUSY); a thread whose join failed is given up:  *)
(* its handle is set to NULL while it may still run.                       *)
TerminatePool(join, delete) ==
    LET gone == IF ph[k]["thread"] = "null" THEN {}
                ELSE {"thread", "poolMutex", "poolSet"}
    IN  /\ pc = "kill" /\ k < NumPools
        /\ ph' = [ph EXCEPT ![k] = [x \in PoolHandles |->
                     IF x \in gone THEN "null" ELSE ph[k][x]]]
        /\ lost' = lost \cup {x \in gone \cap AllocatedOf(k) :
                     IF x = "thread" THEN join # OK ELSE x \notin Deleted}
        /\ bad' = bad \cup {x \in gone \cap Deleted :
                     ph[k][x] \notin Allocated \cup {"null"}}
        /\ status' = BitAnd(BitAnd(status, join), delete)
        /\ seen' = IF join = OK THEN seen ELSE seen \cup {"joinFailed"}
        /\ k' = k + 1
        /\ UNCHANGED <<h, flag, made, pc, op>>

TerminateDone ==
    /\ pc = "kill" /\ k = NumPools
    /\ flag' = flag \ {"RUNNING"}
    /\ status' = IF status # 0 THEN OK ELSE UNKNOWN
    /\ pc' = IF op = "release" /\ status' = OK THEN "release" ELSE "idle"
    /\ UNCHANGED <<handleVars, made, k, op, seen>>

(* schReleaseTaskSch of a scheduler that does not run, or was not even     *)
(* initialised: schTerminateTaskSch says SCH_OK to both ...                *)
ReleaseCall ==
    /\ pc = "idle" /\ made # "no" /\ "RUNNING" \notin flag
    /\ pc' = "release" /\ op' = "release" /\ status' = OK
    /\ seen' = IF made = "failed" THEN seen \cup {"failedReleased"} ELSE seen
    /\ UNCHANGED <<handleVars, flag, made, k>>

(* ... and what follows a successful termination.  The rings are reached   *)
(* through sch->pool.  What a failed run left in the pools goes with them. *)
ReleaseFree ==
    /\ pc = "release"
    /\ ReleaseResources(IF h["pool"] = "live" THEN {} ELSE {"package"})
    /\ ph' = [p \in Pools |-> [x \in PoolHandles |-> "null"]]
    /\ lost' = lost \cup UNION {AllocatedOf(p) \ {"package"} : p \in Pools}
    /\ made' = "no" /\ pc' = "idle"
    /\ UNCHANGED <<flag, k, op, status, seen>>

Next ==
    \/ \E clear \in BOOLEAN : CreateCall(clear)
    \/ CreateObject \/ CreateFails \/ CreateError
    \/ \E rings \in SUBSET Pools : CreateDone(rings)
    \/ RunCall \/ RunGivesUp \/ RunDone
    \/ \E mutex \in Allocated, set \in {"live", "null"} :
           RunPool(mutex, set) \/ RunFails(mutex, set)
    \/ \E fn \in {"terminate", "release"} : TerminateCall(fn)
    \/ \E join \in {OK, INVALID_ARG, UNKNOWN}, delete \in {OK, BUSY} :
           TerminatePool(join, delete)
    \/ TerminateDone \/ ReleaseCall \/ ReleaseFree

Spec == Init /\ [][Next]_vars

----------------------------------------------------------------------------
(* Types; during a termination the combined status has at most the bit of  *)
(* SCH_OK.                                                                 *)
ResourceTypeOK ==
    /\ h \in [SchHandles -> Values]
    /\ ph \in [Pools -> [PoolHandles -> Values]]
    /\ flag \in SUBSET {"INIT", "RUNNING"}
    /\ made \in {"no", "failed", "yes"}
    /\ pc \in {"idle", "create", "error", "run", "kill", "release"}
    /\ k \in 0 .. NumPools + 8
    /\ op \in {"none", "create", "run", "terminate", "release"}
    /\ status \in Codes
    /\ pc = "kill" => status \in {OK, UNKNOWN}
    /\ bad \subseteq SchHandles \cup PoolHandles
    /\ lost \subseteq SchHandles \cup PoolHandles
    /\ seen \subseteq Events

(* What is freed is allocated, over any sequence of calls, with two        *)
(* exceptions that both begin with a failed schCreateTaskPool: it frees    *)
(* handles it never set if the structure was not cleared before            *)
(* (taskSch.c:134), and a schReleaseTaskSch of what it left behind frees   *)
(* all of it again (taskSch.c:289 lets that call through).  As long as     *)
(* every creation succeeds it does not matter what the structure held.     *)
BadFreeOnlyAfterFailedCreate ==
    bad # {} => /\ "createFailed" \in seen
                /\ seen \cap {"uncleared", "failedReleased"} # {}

(* schCreateTaskPool says SCH_OK exactly if it made all objects of the     *)
(* scheduler; otherwise nothing is left allocated but the three that the   *)
(* library never deletes (taskSch.c:134), and the scheduler cannot be run. *)
(* SCH_OK says nothing of the rings: taskSch.c:102 does not look.          *)
CreateStatusTells ==
    op = "create" /\ pc = "idle" =>
        IF status = OK THEN LiveHandles = SchHandles /\ flag = {"INIT"}
                       ELSE AllocatedHandles \subseteq SyncObjects /\ flag = {}

(* A scheduler that runs has a thread for every pool, and a mutex that is  *)
(* at least allocated, also when earlier calls of schRunTaskSch gave up    *)
(* half-way.  More the code does not check: the mutex may be uninitialised *)
(* (taskSch.c:221) and the signal set NULL.                                *)
RunningHasThreads ==
    "RUNNING" \in flag /\ pc = "idle" => \A p \in Pools : Started(p)

(* After SCH_OK from schReleaseTaskSch nothing is left in the handles of   *)
(* the scheduler but the three objects the library never deletes (what     *)
(* the pools lose is the subject of OnlyKnownLeaks).  Any other code means *)
(* that a join failed (taskSch.c:310): nothing of the scheduler has been   *)
(* freed and no pool has a handle left, so that a second call frees the    *)
(* rest, but the thread that was not joined is out of everybody's reach.   *)
ReleaseStatusTells ==
    op = "release" /\ pc = "idle" =>
        /\ "RUNNING" \notin flag
        /\ IF status = OK
             THEN AllocatedHandles \subseteq SyncObjects
             ELSE /\ "joinFailed" \in seen
                  /\ LiveHandles = SchHandles
                  /\ \A p \in Pools : Bare(p)

(* Whatever is created, run, terminated, released and created again, only  *)
(* these are ever lost: the three objects of the scheduler that nobody     *)
(* deletes; a thread, after a failed join or a failed run; the mutex and   *)
(* the signal set of a pool, after a failed run (taskSch.c:259).           *)
OnlyKnownLeaks ==
    /\ lost \subseteq SyncObjects \cup {"thread", "poolMutex", "poolSet"}
    /\ "runFailed" \notin seen => lost \subseteq SyncObjects \cup {"thread"}
    /\ seen \cap {"runFailed", "joinFailed"} = {} => lost \subseteq SyncObjects

=============================================================================
