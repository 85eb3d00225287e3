# A verification of task-scheduler

TLA+ models, TLC runs and TLAPS proofs for the task scheduler library in
`src/`. `PROJECT.json` lists the components, runs, mutants, findings, hazards
and theorems, and maps every definition to the source lines it models.

## The system

The library runs short callbacks on a fixed set of *pools*. A pool is a thread,
a ring of packages, a flag word and a priority. An application creates a
scheduler, runs it, submits packages, waits, terminates and releases it.

| Component | State | Operations | Talks to |
|---|---|---|---|
| Scheduler API (`src/src/taskSch.c`) | `sch->flag` (INIT, RUNNING), pools, `dheap`, spinlock, mutex, conditional, barrier, signal set | create, run, submit, wait, stop, terminate, release, clear (empty), setters | pools: shared memory, signals, join |
| Pool queue (`schQueueMutexEnDeQueue`) | `head`, `tail`, `size`, `package[]` | enqueue, dequeue, both under one spinlock | submitters and pool thread |
| Pool executor (`src/src/sch.c`) | `pool->flag` (RUNNING, SLEEP, TERMINATE), pending signals, `dheapPriority` | dequeue and run; go idle, report DONE, sigwait; wake; exit | ring, application thread |
| Heap of pools (`src/src/heapify.c`) | `dheap[]`, `dheapPriority` | `schHeapify`, `restoreDown` | called by submit; priorities written by pool threads |
| Unix primitives (`src/src/unix/thread.c`) | handles | threads, signals, spinlock, mutex, semaphore, rwlock, barrier, conditional | everything above |
| Pool allocator (`src/src/poolAllocator.c`) | free list | create, obtain, return, index, free | nothing |
| DLQueue (`src/src/queue.c`), Windows port, time | none | stubs; clock reads | - |

What is hard here:

* *Concurrency.* `pool->size`, `pool->flag` and the priorities are read outside
  the lock by threads that then act on what they read. A dequeued package is
  used through a pointer into the ring after the lock was released.
* *Wake-up protocol.* A pool sleeps in `sigwait`; a submitter sends CONTINUE
  only if it believes the pool sleeps. The signals are standard signals, which
  are not queued.
* *The SLEEP bit* is toggled with XOR: twice when a pool goes idle (sch.c:106,
  111) and once when it wakes (140). It is the parity of the wake-ups and not
  the state of the thread.
* *Shutdown and restart.* Terminate waits, signals and joins pool by pool;
  release frees the pools; handles cleared by one shutdown are used by the next
  run. A run that fails half-way leaves threads behind.
* *Partial failure.* Creation makes eight objects in a row, a run three per
  pool; each may fail, and error codes are combined with `&=`.
* *Return codes.* All a caller of a primitive learns is a code that one switch
  makes of an error number.
* *Limits.* A ring that is exactly full; a heap whose last parent has fewer
  children than the breadth; a semaphore at its maximum; an allocator whose
  list runs empty.

What makes each part correct:

* queue: never more packages than slots; first in, first out; nothing lost or
  run twice; a package in use is not overwritten;
* executor: an accepted package is run; a thread exits only when its queue is
  drained;
* API: wait returns, and only when the tasks are finished; terminate returns;
  memory is freed only after the threads that use it; signals go to live
  threads;
* heap: no access outside `dheap`, no pool lost, termination, least priority at
  the root;
* resources: only what is allocated is freed unless a creation failed, the
  status says what is there, nothing leaks in repeated use but what is named;
* primitives: threads that go by the codes exclude each other, failed calls keep
  nothing, posts pay for waits, a barrier lets nobody through early;
* allocator: no item is handed out twice or lost; indices tell items apart.

## Modules

| Module | What it is |
|---|---|
| `TaskSch` | the running scheduler: pool threads, rings, signals, public calls |
| `PoolSpec` | what the scheduler promises of its pools, without threads, ring or signals |
| `MCTaskSch` | sets of public calls for the TLC instances of `TaskSch` |
| `DHeap` | `schHeapify` inside `schSubmitTask`, one access per step |
| `MCDHeap` | callback durations for the TLC instances of `DHeap` |
| `PoolAllocator` | the fixed-size allocator, with the code's pointer arithmetic |
| `ItemPool` | what the allocator promises: a set of items, handed out and taken back |
| `Resources` | handles and status codes of create, run, terminate and release when calls fail |
| `Primitives` | mutex, conditional, spinlock, semaphore, barrier and rwlock, and their codes |
| `RingArithmetic` | lemmas about `%` |
| `TaskSchProofs` | types, ring, accounting and capacity |
| `TaskSchLifecycleProofs` | wait, terminate and release |
| `TaskSchQueueProofs` | contents of the rings, packages in use, refinement of `PoolSpec` |
| `DHeapProofs` | bounds of the heap, no pool lost, least priority at the root, progress |
| `PoolAllocatorProofs` | list, items, indices, refinement of `ItemPool` |
| `ResourcesProofs` | frees, status codes, leaks |
| `PrimitivesProofs` | exclusion, semaphore, barrier |

`TaskSch`, `DHeap` and `Resources` are three views of one scheduler. `TaskSch`
leaves out which pool the heap picks and what fails in a creation; `DHeap` leaves
out the rings; `Resources` leaves out the work of the threads. They meet in the
calls they share, and each is abstract where the other is detailed.

### TaskSch

Each field of the code that the control depends on is a variable of the same
name, indexed by pool; `schFlag` is `sch->flag`. `pc[p]` is the place of the
pool thread in `schPoolExecutor` (`"none"`: `pool->thread` is NULL), `cpc[c]`
the place of application thread `c` in the public function `op[c]`, and
`cidx[c]` its loop index or the chosen pool. `acc` and `ran` are histories:
what was enqueued and what has finished, per pool. A package is a number.

One step is one access to shared memory or one signal:

* executor: `ExecStart` (conditional wait and init callback), `ExecLoop` (the
  unlocked read of `size`), `ExecDequeue` (the locked dequeue), `ExecFetch` (the
  read through the slot pointer), `ExecReturn`, `ExecIdle` and `ExecIdleAgain`
  (the two toggles), `ExecReport` (DONE), `ExecWait` (`sigwait`), `ExecWake`,
  `ExecExit`;
* application: `Run*`, `Submit*`, `Wait*`, `Stop*`, `Terminate*`, `Release*`, in
  the order of the code. `WaitCall` starts `schWaitTask`, `schTerminateTaskSch`
  and `schReleaseTaskSch` of a running scheduler, since the latter two begin
  with the wait.

Abstractions:

* The pool of a package is any pool, as with an explicit `pPool`; which pool
  the heap picks is the subject of `DHeap`.
* SCH_SIGNAL_DONE has no effect on the receiver: it only shortens the timed
  poll of `schWaitTaskWait`, which repeats anyway (`WaitPoll`).
* `sch->mutex` and `sch->conditional` are left out. The one critical section, in
  `schWaitTaskWait`, reads one atomic flag, and the only waiter on the conditional
  waits for a bit that nobody but its own thread clears. A pool thread that goes
  idle also unlocks `sch->mutex` (sch.c:107), which no pool thread ever locks. In
  POSIX that is undefined or an error, and it may let a second application thread
  into that critical section; since all that happens there is the read of a flag,
  it changes nothing that is modelled.
* The spinlock makes `schQueueMutexEnDeQueue` one step: `Enqueue` and `Dequeue`
  touch nothing that is not under it but `size`, whose unlocked reads see it
  before or after.
* The checks of `sch->flag` and `pool->size` at the head of `schSubmitTask` are
  one step. The gap that matters, between the size check and the enqueue, is
  there.
* A call refused because of the state of the scheduler changes nothing and is
  not a step; return codes are not kept.
* A signal to a pool is pending at most once; `sigwait` may take any pending
  signal.
* `pthread_kill` with a NULL handle is undefined behaviour and usually ends the
  process; `ExecReport` does not get past it, so that one thread stops and the
  others go on.
* Every pool has its ring: what follows from a failed allocation of one is left
  out here (`Resources` has the allocation).

Assumptions about the application: it does not call `schRunTaskSch` while the
scheduler has threads (`RunCall`; the code does not refuse it), and `Outstanding`
is the number of unfinished packages it allows itself at one pool (the code sets
no such limit; a value of `MaxTasks` or more stands for none). A NULL package,
a package without callback and SIGINT to the process are not inputs.

### DHeap

`Heapify` is the call; `SmallerChild`, `TakeChild` and `SkipChild` are the scan
over the children with its two reads of a priority; `LeafReached`, `FetchPair`,
`OutOfOrder`, `InOrder`, `SwapFirst` and `SwapSecond` are the rest of
`restoreDown`; `ChooseLeast`, `ChooseGiven`, `PoolFull`, `LoadPriority` and
`StorePriority` the rest of `schSubmitTask` that touches pools or priorities.
`TaskStarts`, `TaskEnds`, `FindsNone` and `NoTasks` are what `schPoolExecutor`
does to the priority of its pool, between any two steps of a submission; the
look at the empty queue (`FindsNone`) and the store of 0 (`NoTasks`) are two steps,
so that a package may come in between. The history `still`
records whether a priority changed. `Active` are the pools whose threads take
steps; the theorems hold for every choice. A priority is a small number; `Cost` stands for the
1000 a submission adds, `Durations` for the measured times of the callbacks.

### PoolSpec

A pool that is open accepts up to `Capacity` packages, runs them one at a time
in the order of acceptance and is closed only when nothing is left.
`TaskSch!Promise` is the refinement mapping: the queue is the contents of the
ring read from `head`, the running package is what the thread got *through its
slot pointer*, so an overwritten slot breaks the refinement. A pool is open while it
has a thread; a termination closes them one by one and a restart opens them again.

### PoolAllocator and ItemPool

Addresses are byte offsets from `allocator->pool`; `next[n]` is the pointer in the
node at `n`. `Create` is `schPoolCreate` with `schInitPool`, `Obtain` and
`ObtainNone` are `schPoolObtain`, `Return` and `Free` the functions of that name.
`chain` is a history: the nodes that should be in the list, in order. `ItemPool`
has no list, only the sets of available and of held items; its variables are
mapped to the items of `chain`, `held` and `result`. The application returns only
items that it has. The contents of the items are left out.

### Resources

`h[x]` says what handle `x` of the scheduler points at (`"garbage"`: never set;
`"raw"`: memory whose initialisation failed; `"dangling"`: freed), `ph[p][x]` the
same for pool `p`. The names tell the two mutexes and the two signal sets apart
(`mutex` and `poolMutex`, `set` and `poolSet`). A creation is one step per object,
each of which may fail (`CreateFails`), then `CreateError` frees; the rings are
allocated at the end, and any of them may be NULL in a creation that returns
SCH_OK (`CreateDone`), because taskSch.c:102 does not look. A run is one step per
pool. `if (!schCreateMutex(...))` (taskSch.c:221) takes only the code 0 for a
failure; the codes of EAGAIN, ENOMEM and EPERM are negative and count as success,
so that `RunPool` goes on with a `"raw"` mutex, and with a NULL signal set if
`schCreateSignal` failed. A run fails at the code 0 or at the thread
(`RunFails`), before the first or after the last pool (`RunGivesUp`). A termination
is one step per pool, with the codes of the join and of the deletion of the mutex;
the handle of the thread becomes NULL even if the join failed. Codes have the
values of `SchErrCode`, because `&=` works on their bits.

`made` tells a scheduler that exists from one whose creation failed and from none
at all. A release of what a failed creation left is possible: `schTerminateTaskSch`
returns SCH_OK for a scheduler without INIT (taskSch.c:289), and
`schReleaseTaskSch` goes on to free. `bad`, `lost` and `seen` are histories: what
was freed or followed without being allocated, what was overwritten or given up
while allocated, and which failures have happened. After a wrong free the program
is in undefined behaviour; the model records it in `bad` and goes on with the
handle as it was. The application may clear the structure before it creates a
scheduler in it or not. It is assumed to run only a scheduler that does not run,
to create none in a structure that holds one, and to release what it created, or
failed to create, once.

### Primitives

A behaviour is about one object (`kind`) and any number of threads. Each function
of `unix/thread.c` is one action, named like it, or two where it blocks: `Call`
and the return. The pthread object (`owner`, `readers`, `value`, `asleep`,
`arrived`, `released`) is external and modelled after POSIX; what the callers
conclude from the codes is kept apart (`thinks`, `credit`, `passed`), so that a
wrong translation of an error number shows. `sem_wait` may be interrupted, a wait
for a conditional may end without a signal, `sem_post` fails at `SEM_VALUE_MAX`,
creation may fail. The timed functions give up at once on an object that is not
free: they pass a duration where POSIX takes a time of day (thread.c:306, 336).
Callers unlock only what they think they hold. The library itself does not keep to
that: its unlock at sch.c:107 is outside this assumption, and the theorems say
nothing of a mutex used like that.

## Runs

Passing:

| Run | Instance | Shows |
|---|---|---|
| `lifecycle` | 1 application thread, 2 pools of 2 slots, 2 packages, 2 runs, thread creation may fail | types; accounting across a restart; an empty queue at the end of a wait; exited threads have drained their pool; no free before the join unless a run failed; no signal to a joined thread; in the first run SIGTERM comes only after it was blocked; refinement of `PoolSpec` across shutdown and restart |
| `full_queue` | 1 pool of 2 slots, 5 packages, fair | capacity, ring counters and contents while the ring fills and wraps twice; a held package is overwritten only by the enqueue that fills the ring; in the first run a pool runs what it had accepted when CONTINUE is pending, and a termination past its wait returns |
| `submitters` | 2 application threads, 1 pool of 2 slots, 4 packages, at most 2 unfinished | under that discipline: no overwritten package, refinement of `PoolSpec` (with its capacity) |
| `heap` | 4 pools, breadth 2, two of their threads active, fair | while those threads change priorities at any step: bounds of the heap, no pool lost, every step of `schHeapify` a step forward, `schHeapify` returns; least priority at the root if none changed meanwhile |
| `allocator` | 6 nodes, items twice as large as a pointer | list intact, each item once, indices separate, refinement of `ItemPool` |
| `resources` | 2 pools, any number of creations, runs and releases | wrong frees only after a failed creation, what each status says of the handles, a thread for every pool while running, only known leaks |
| `primitives` | 3 threads, semaphore up to 2, 3 barrier rounds | exclusion by codes, no lock kept by a failed call, posts pay for waits, barrier |

Each property of a passing run has a mutant: a plausible error in a mapped
definition (`DequeueKeepsSize`, `FreedButLock`, ...; the faulty variants
stand before the definition they replace) with which TLC finds it violated.

Violated, one finding each; the counterexample is a behaviour of the code:

| Run | The code | The repository says |
|---|---|---|
| `early_wait` | `schWaitTask` returns while the last callback runs | "Wait for all pool to finish with all their tasks." (taskSch.h:421) |
| `endless_wait` | `schWaitTask` polls for ever with every pool idle and empty | the same |
| `lost_wakeup` | an accepted package is never run | "Wait in till additional packages has been added and continue signal has been issued." (sch.c:117) |
| `overwritten` | a package is overwritten while its callback runs | "Perform queue enqueue/deqeue that will prevent race condition." (internal/sch.h:30) |
| `overflow` | two submitters exceed the capacity | "Sets the max number of task on each pool can have in the queue at any given moment." (taskSch.h:267) |

More disagreements between the code and its comments, documentation or tests are
visible in the models and have no run of their own:

* A run that fails half-way calls `schTerminateTaskSch` before RUNNING is set,
  which returns at once: the threads made so far stay, and a release frees their
  pools, although taskSch.c:258 says "On Failure - Release resource and status.".
  `ReleaseAfterThreads` and `OnlyKnownLeaks` therefore say "unless a run failed".
* After a restart the handle that DONE is sent to is NULL (taskSch.c:313), the
  RUNNING bit of the first run can block a pool at its start (sch.c:63), and its
  SLEEP bit can let SIGTERM through before it is blocked (sch.c:53).
* The error path of `schCreateTaskPool` frees handles that were never set unless
  the application cleared the structure, although taskSch.c:134 says "Release
  resource in correct order if allocated."; `schAllocateTaskPool` does not clear
  it, and the example at taskSch.h:234 does not either. The path does not set the
  handles to NULL, so that a release after a failed creation frees them again.
  `BadFreeOnlyAfterFailedCreate` is the claim that is left.
* SCH_OK from `schCreateTaskPool` does not mean that the rings are there: the test
  at main.c:139-142 asks for rings of -2 packages and expects an error code, and no
  line of the code checks `maxPackagesPool` or the `malloc` of the rings.
* SCH_OK from `schReleaseTaskSch` does not mean that "all resources" are released
  (taskSch.h:276): the mutex, the conditional and the barrier are never deleted
  (and deleting a conditional would not free it), a failed run leaves threads,
  mutexes and signal sets, and odd error codes of a join leave SCH_OK although the
  thread was given up. `ReleaseStatusTells` and `OnlyKnownLeaks` say what is left.
* A mutex of a pool that could not be initialised counts as created (taskSch.c:221),
  and is used and later destroyed like the others.
* The timed lock and the timed wait do not wait: taskSch.h:817 says "timeout
  number of nanoseconds that it will wait.", and taskSch.h:859 promises the same of
  the semaphore. `schSemaphoreTryWait` returns
  SCH_ERROR_LACK_OF_RESOURCES where taskSch.h:854 names SCH_ERROR_TIMEOUT.
* taskSch.h:122 calls a code of one or more a success, taskSch.h:843 and 876 call
  "non-negative" one. By the second reading the 0 that EINTR and EOVERFLOW become
  (SCH_ERROR_UNKNOWN) would report a wait that took nothing and a post that added
  nothing as successful. `Primitives` takes SCH_OK for success; `PostsPayForWaits`
  is false by the other reading.
* A pool allocator of `num` nodes hands out `num - 1` items, and the index of an
  item is not the number of its node, although poolAllocator.h:113 says "Get the
  node index of a valid node.". `IndexSeparates` is what holds.
* Two threads that submit together can lose a pool from `dheap` (heapify.c:46):
  `NoPoolLost` fails for two callers.
* The pool at the root of the heap need not be the one with the least work ahead,
  as taskSch.c:346 has it: the end of a callback overwrites what the queued
  packages had added to the priority (sch.c:98).

`overwritten` and `submitters` belong together: the pointer into the ring is
safe exactly as long as queued and running packages together fit into it.

**Bounds.** Two slots are the least with which a ring can be empty, partly full
and full; five packages go around it twice and fill it with a package held. Two
pools are needed for one to move while a wait or a termination looks at the
other, and for a start that fails half-way. Two packages reach both parities of
the SLEEP bit. Two runs are the least for what one shutdown leaves to the next.
Five items and a list head give every permutation of the free list; an item
larger than a pointer makes the index differ from the node number. Three threads
are needed for one to overtake another at a barrier and for two readers beside a
writer; a semaphore that holds two passes through empty, one and full. Four pools
with breadth 2 give a heap of three levels, with two priorities that tell any two
pools apart; the breadth of the code is 4, and the theorems hold for every breadth.
`Active` lets the threads of pools 0 and 3 move, which start at the root and at the
bottom of the heap; the threads of the other two are held up for ever, and only
submissions change their priorities. `MaxTasks`, `MaxRuns` and `MaxPriority`
are guards of the calls the application makes and not of what the code does.
`full_queue` has one run, because its liveness properties are false after a
restart;
`Resources` and `PoolAllocator` need no bound. `lifecycle` does not check deadlock:
after a restart a pool thread
reports DONE through the handle that the first termination set to NULL
(taskSch.c:313), and stops there.

**Fairness.** `FairSpec` assumes weak fairness of each pool thread and of each
application thread inside a call: the operating system runs every runnable
thread, callbacks return. Nothing makes the application call anything. The
signals need no fairness of their own: a pending signal enables `sigwait`. In
`DHeap` only the submitting thread is fair; the pool threads may stop anywhere.

## Proofs

TLAPS proves the following for every number of pools, slots, packages and runs
(the assumptions on the constants are the named `ASSUME`s of the modules).

| Theorem | Statement | Extra assumption |
|---|---|---|
| `TypeCorrect` | `[]TypeOK` | - |
| `RingAlwaysConsistent` | `[]RingConsistent` | - |
| `NothingLost` | `[]TasksAccounted` | at most one thread calls `schRunTaskSch` |
| `QueueBoundSoleClient` | `[]QueueBound` | one application thread |
| `WaitLeavesNoPackage` | `[]WaitEmptiesQueues` | one application thread |
| `TerminateLosesNothing` | `[]TerminateDrains` | one application thread |
| `SignalsReachThreads` | `[]NoSignalToJoinedThread` | one application thread |
| `ReleaseIsLast` | `[]ReleaseAfterThreads` | one application thread |
| `TermFindsSignalMasked` | `[]TermAfterMask` | one application thread |
| `TermIsTaken` | `[]TermNotLost` | one application thread |
| `OverwriteNeedsFullQueue` | `OverwriteOnlyWhenFull` | one application thread, or disciplined |
| `QueueKeepsPackages` | `[]QueueIntact` | one application thread, or disciplined |
| `HeldPackageStays` | `[]HeldPackageIntact` | disciplined |
| `SchedulerImplementsPoolSpec` | `ImplementsPoolSpec` | disciplined; one application thread, or none that terminates or releases |
| `HeapTypeCorrect` | `[]HeapTypeOK` | - |
| `HeapKeepsPools` | `[]NoPoolLost` | one submitting thread |
| `HeapifyFindsLeast` | `[]LeastPriorityFirst` | one submitting thread |
| `HeapifyMovesOn` | `HeapifyAdvances` | - |
| `AllocatorTyped` | `[]AllocTypeOK` | - |
| `ListNeverBreaks` | `[]ListIntact` | - |
| `ItemsStayApart` | `[]EachItemOnce` | - |
| `IndicesSeparate` | `[]IndexSeparates` | - |
| `AllocatorImplementsItemPool` | `ImplementsItemPool` | - |
| `ResourcesTyped` | `[]ResourceTypeOK` | - |
| `BadFreesComeFromFailedCreates` | `[]BadFreeOnlyAfterFailedCreate` | - |
| `CreateTellsResources` | `[]CreateStatusTells` | - |
| `ReleaseTellsResources` | `[]ReleaseStatusTells` | - |
| `RunningPoolsHaveThreads` | `[]RunningHasThreads` | - |
| `LeaksAreKnown` | `[]OnlyKnownLeaks` | - |
| `PrimitivesTyped` | `[]PrimTypeOK` | - |
| `CodesProtectSections` | `[]SectionsExclude` | - |
| `FailureKeepsNoLock` | `[]NoLockKept` | - |
| `SemaphoreBalances` | `[]PostsPayForWaits` | - |
| `BarrierHolds` | `[]BarrierTogether` | - |
| `BarrierTellsOk` | `[]BarrierSaysOk` | - |

*Disciplined* means: at most one thread calls `schRunTaskSch`, and the
application keeps at most as many packages unfinished at a pool as the pool has
slots (`Outstanding <= Reserved`), with any number of submitting threads.
The extra assumptions are the ones that the violated runs show to be needed
(`overflow`, `overwritten`) or that the code leaves to its user.

The arguments:

* *Types.* `size` stays a natural number although the executor reads it outside
  the lock: only the pool's own thread decreases it, so `size > 0` still holds
  when the dequeue comes (`DequeueInv`). Loop indices are below the number of
  pools in the steps that use them (`IndexInv`).
* *Ring.* Modular arithmetic, in `RingArithmetic`.
* *Accounting.* Only a thread that is created on a pool that has one could
  forget a held package; `CreateInv` says the pools that `schRunTaskSch` has not
  reached have none.
* *Capacity.* With one thread, what the size check saw still holds at the
  enqueue (`ClaimInv`), because pool threads only make room. With several, the
  submitters between check and enqueue are counted with the unfinished packages
  (`UnfinishedInv`); there the bound is the application's own doing, not that of
  the check at taskSch.c:355, so it is a step of later proofs and no theorem.
* *Life cycle.* `Phase(c)` says in which phase of the calls the scheduler is
  running (`RunningInv`), which pool may exit (`ExitInv`: only the one being
  joined), which pools have a thread (`AliveInv`) and which queues are empty
  (`EmptyInv`). None is inductive alone: a queue stays empty because nobody
  submits during the phase, and a thread that exits has nothing left because its
  queue was empty before it was signalled.
* *First termination.* `MaskInv` follows the SLEEP bit of a thread that has not
  yet blocked its signals: in the first run it has no bit set, so the wait of a
  termination cannot have passed its pool (`Seen`), and SIGTERM is not sent.
* *Contents of a queue.* `CountInv` gathers types, counters, accounts and the room
  for what is about to be enqueued. An enqueue writes the slot `size` after the
  head, which is none of the queued ones while there is room (`ModDistinct`); a
  dequeue moves the window by one. Without room for the enqueue nothing of this
  holds, hence the two cases of the assumption.
* *Package in use.* `SlotInv` says that a pool thread works on the slot before the
  head, so that an enqueue hits it only as the last free slot (`ModLastSlot`). For a
  disciplined application `HeldRoomInv` excludes that: the package in use is
  unfinished too.
* *Refinement of `PoolSpec`.* `ExecDequeue` is `Start`, `ExecReturn` is `Finish`,
  `SubmitEnqueue` is `Accept`, `RunCreate` is `Open` and `TerminateJoin` is
  `Close`; every other step leaves the mapped variables alone. `ServeInv` gives what
  the guards need: a pool that is being submitted to has a thread, and one that is
  being joined has an empty queue. It follows from `Phase` for one application
  thread, and from `StayInv` if nobody shuts the scheduler down.
* *Heap.* `LocalsInv` gives the locals of `restoreDown` their values at each
  place. `SwapInv` says that between the two stores of a swap the only pool that
  may be missing is the one in `a`.
* *Least priority.* While the priorities stand still, every position from `layer` on
  is in order with its children but the one `restoreDown` is at, and the parent of
  that one is in order with its grandchildren (`SiftInv`), so that a swap keeps the
  order above. `ScanInv` and `PairInv` say that the child found is a least one. At
  the end the whole heap is in order; that the root is then least takes an induction
  over the positions, done with a least counterexample (`LeastNumber`, from the
  well-foundedness of the naturals), whose parent would be a smaller one.
* *Progress of the sift.* The child found lies below its parent (`DownInv`), for any
  number of callers: each step goes back in the outer loop, or down, or on to the
  next child, or on in the comparison, and all four are bounded by `HeapTypeOK`.
* *Allocator.* The list is compared with the history `chain`, so that an obtain
  and a return change it at the front only; no reachability is needed. Two nodes
  are at least an item and a pointer apart, so that dividing by the item size
  separates them.
* *Resources.* `HandleInv` splits the handles at the loop index: before it they
  are live; after it nothing is allocated but the three objects that nobody deletes,
  and every handle is NULL if no structure was left uncleared. `PoolInv` does the same
  for run and termination. `CallInv` ties the calls to `seen`: a release of a failed
  creation has been recorded, and a termination has lost the bit of SCH_OK only
  through a failed join. Neither is inductive without the properties themselves,
  which are part of the invariant: what a failed creation left behind decides what
  the next one overwrites.
* *Primitives.* `HolderInv` equates the owner of a lock with the thread that
  concludes it from its code; it needs `CallInv`, that a thread in a call has
  nothing locked. `BarrierInv` says that all threads have been released equally
  often; the last arrival means that all have arrived, by a count of a finite set.

Only model-checked: the liveness properties `ContinueDrains`, `TerminateReturns`
and `HeapifyReturns`, since the prover has neither fairness nor `ENABLED`. For two of
them the part that does not depend on scheduling is proved: `HeapifyMovesOn` for
`HeapifyReturns`, and `TermIsTaken` (the SIGTERM of a thread being joined is pending
or was acted on) for `TerminateReturns`. Every invariant, action property and
refinement that a passing run checks is stated by a theorem.

## Not modelled

* A second `schRunTaskSch` of a running scheduler; calls refused because of the
  state of the scheduler; invalid arguments; what a pool thread does with a ring
  that could not be allocated or with a mutex that is not initialised (undefined
  behaviour).
* `schDeleteThread`, `schSetThreadName`, and what `schSignalWaitTimeOut` returns
  after a timeout (an uninitialised value, which its one caller ignores).
* The SIGINT handler, and the exit of a pool thread that cannot set its mask.
* Stubs (`queue.c`, the Windows port, `schClearTask`, `schPoolResize`), clock
  reads, `schErrorMsg`, the setters of callbacks and user data: no state, or a
  single assignment.

## Plan

Left for later, in this order:

1. The safety part of `ContinueDrains`: a pool thread that took CONTINUE looks at
   its queue before it sleeps again.
2. The spinlock as steps of its own, and `TaskSch`'s atomic ring operations as
   its abstraction.
3. `TaskSch` composed with `DHeap`, so that the size and wake-up of a submission
   meet the pool the heap picked.
