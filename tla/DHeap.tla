------------------------------- MODULE DHeap -------------------------------
(***************************************************************************)
(* How schSubmitTask picks the pool of a package: schHeapify restores the  *)
(* heap order of sch->dheap by the pools' dheapPriority and the pool at    *)
(* the root is taken.  No lock protects the heap or the priorities: while  *)
(* an application thread sifts, every pool thread overwrites its own       *)
(* priority when a task ends and when it runs out of tasks.                *)
(*                                                                         *)
(* One step is one access to dheap or to a dheapPriority.  Of a pool only  *)
(* the length of its queue and where its thread is are kept; the size      *)
(* check of schSubmitTask and the enqueue are one step.  Priorities are    *)
(* times and the constant 1000; small numbers stand for both.              *)
(***************************************************************************)
EXTENDS Integers

CONSTANTS
    NumPools,    \* sch->num
    Breadth,     \* SCH_HEAP_BREATH
    Reserved,    \* maxPackagesPool
    Callers,     \* the threads of the application that submit packages
    Cost,        \* what schSubmitTask adds to the priority of a pool
    Durations,   \* the times a callback may take (taskInvoke)
    MaxPriority, \* bound: no priority grows beyond this
    Active       \* bound: the pools whose threads take steps

ASSUME HeapPoolsAssumption == NumPools \in Nat \ {0}
ASSUME BreadthAssumption == Breadth \in Nat \ {0}
ASSUME HeapReservedAssumption == Reserved \in Nat
ASSUME PriorityAssumption ==
    MaxPriority \in Nat /\ Cost \in Nat /\ Durations \subseteq 0 .. MaxPriority

Pools == 0 .. NumPools - 1
ASSUME ActiveAssumption == Active \subseteq Pools

Priorities == 0 .. MaxPriority
MAX == MaxPriority + 1   \* LONG_MAX: above every priority
Unset == -1              \* a local variable that has no value yet

VARIABLES
    dheap,          \* dheap[i]: the pool at position i of the heap
    dheapPriority,  \* dheapPriority[p]
    size,           \* size[p]: the packages queued at pool p
    at,             \* at[p]: is the thread of p about to look at its queue,
                    \* in a callback, or about to store that it has no tasks?
    hpc,            \* where caller c is in schSubmitTask
    layer,          \* i in schHeapify
    index,          \* index in restoreDown
    nth,            \* i in the scan over the children
    min_child, min_child_index,
    a, b,           \* the pools restoreDown compares and swaps
    pool, sum,      \* the chosen pool, and its priority about to be stored
    still           \* history: no priority has changed since c called
                    \* schHeapify

sharedVars == <<dheap, dheapPriority, size, at>>
scanVars == <<layer, index, nth, min_child, min_child_index>>
choiceVars == <<pool, sum>>
vars == <<sharedVars, hpc, scanVars, a, b, choiceVars, still>>

HeapPcs == {"idle", "scan", "take", "compare", "swap", "swap2", "choose",
            "load", "store"}

Init ==
    /\ dheap = [i \in Pools |-> i]
    /\ dheapPriority = [p \in Pools |-> 0]
    /\ size = [p \in Pools |-> 0]
    /\ at = [p \in Pools |-> "look"]
    /\ hpc = [c \in Callers |-> "idle"]
    /\ layer = [c \in Callers |-> 0]
    /\ index = [c \in Callers |-> 0]
    /\ nth = [c \in Callers |-> 1]
    /\ min_child = [c \in Callers |-> MAX]
    /\ min_child_index = [c \in Callers |-> Unset]
    /\ a = [c \in Callers |-> Unset]
    /\ b = [c \in Callers |-> Unset]
    /\ pool = [c \in Callers |-> Unset]
    /\ sum = [c \in Callers |-> Unset]
    /\ still = [c \in Callers |-> FALSE]

----------------------------------------------------------------------------
Set(f, c, v) == [f EXCEPT ![c] = v]
Goto(c, from, to) == hpc[c] = from /\ hpc' = Set(hpc, c, to)

(* Nobody has a lock when a priority is stored.                            *)
SetPriority(p, v) ==
    /\ dheapPriority' = Set(dheapPriority, p, v)
    /\ still' = [c \in Callers |-> still[c] /\ dheapPriority' = dheapPriority]

(* The parent of the last pool, the next child to look at, whether there   *)
(* is one, the pool a swap moves down, and where the sift goes on.  The    *)
(* operator before each is a faulty variant, for the mutation tests.       *)
RootOnly == 0
LastParentIndex == (NumPools - 1) \div Breadth
Child(c) == Breadth * index[c] + nth[c]
OneChildMore(c) == nth[c] <= Breadth + 1
MoreChildren(c) == nth[c] <= Breadth
ReadAgain(c) == dheap[index[c]]
Displaced(c) == a[c]
SamePosition(c) == index[c]
Below(c) == min_child_index[c]

(* The head of the loop of restoreDown, at position i.  The other locals   *)
(* of its body have no value yet.                                          *)
SiftAt(c, i) ==
    /\ index' = Set(index, c, i)
    /\ nth' = Set(nth, c, 1)
    /\ min_child' = Set(min_child, c, MAX)
    /\ min_child_index' = Set(min_child_index, c, Unset)
    /\ a' = Set(a, c, Unset) /\ b' = Set(b, c, Unset)

(* schSubmitTask calls schHeapify, whatever pPool is.  The bound on the    *)
(* priorities stops the application, not the code.                         *)
Heapify(c) ==
    /\ \E p \in Pools : dheapPriority[p] + Cost <= MaxPriority
    /\ Goto(c, "idle", "scan")
    /\ layer' = Set(layer, c, LastParentIndex)
    /\ SiftAt(c, LastParentIndex)
    /\ still' = Set(still, c, TRUE)
    /\ UNCHANGED <<sharedVars, choiceVars>>

(* Is the next child smaller than the smallest so far?  The priority of a  *)
(* child that is, is read a second time.                                   *)
SmallerChild(c) ==
    /\ MoreChildren(c) /\ Child(c) < NumPools
    /\ dheapPriority[dheap[Child(c)]] < min_child[c]
    /\ Goto(c, "scan", "take")
    /\ UNCHANGED <<sharedVars, scanVars, a, b, choiceVars, still>>

TakeChild(c) ==
    /\ Goto(c, "take", "scan")
    /\ min_child_index' = Set(min_child_index, c, Child(c))
    /\ min_child' = Set(min_child, c, dheapPriority[dheap[Child(c)]])
    /\ nth' = Set(nth, c, nth[c] + 1)
    /\ UNCHANGED <<sharedVars, layer, index, a, b, choiceVars, still>>

SkipChild(c) ==
    /\ MoreChildren(c)
    /\ Child(c) < NumPools => dheapPriority[dheap[Child(c)]] >= min_child[c]
    /\ Goto(c, "scan", "scan")
    /\ nth' = Set(nth, c, nth[c] + 1)
    /\ UNCHANGED <<sharedVars, layer, index, min_child, min_child_index, a, b,
                   choiceVars, still>>

(* A leaf: restoreDown returns, and schHeapify goes on at the position     *)
(* before, or returns.                                                     *)
LeafReached(c) ==
    /\ ~MoreChildren(c) /\ min_child[c] = MAX
    /\ Goto(c, "scan", IF layer[c] = 0 THEN "choose" ELSE "scan")
    /\ layer' = Set(layer, c, IF layer[c] = 0 THEN 0 ELSE layer[c] - 1)
    /\ SiftAt(c, layer'[c])
    /\ UNCHANGED <<sharedVars, choiceVars, still>>

FetchPair(c) ==
    /\ ~MoreChildren(c) /\ min_child[c] # MAX
    /\ Goto(c, "scan", "compare")
    /\ a' = Set(a, c, dheap[index[c]])
    /\ b' = Set(b, c, dheap[min_child_index[c]])
    /\ UNCHANGED <<sharedVars, scanVars, choiceVars, still>>

OutOfOrder(c) ==
    /\ Goto(c, "compare", "swap")
    /\ dheapPriority[a[c]] > dheapPriority[b[c]]
    /\ UNCHANGED <<sharedVars, scanVars, a, b, choiceVars, still>>

InOrder(c) ==
    /\ Goto(c, "compare", "scan")
    /\ dheapPriority[a[c]] <= dheapPriority[b[c]]
    /\ SiftAt(c, Below(c))
    /\ UNCHANGED <<sharedVars, layer, choiceVars, still>>

SwapFirst(c) ==
    /\ Goto(c, "swap", "swap2")
    /\ dheap' = Set(dheap, index[c], b[c])
    /\ UNCHANGED <<dheapPriority, size, at, scanVars, a, b, choiceVars, still>>

SwapSecond(c) ==
    /\ Goto(c, "swap2", "scan")
    /\ dheap' = Set(dheap, min_child_index[c], Displaced(c))
    /\ SiftAt(c, Below(c))
    /\ UNCHANGED <<dheapPriority, size, at, layer, choiceVars, still>>

(* The package goes to pool p unless its queue is full.                    *)
Assign(c, p) ==
    /\ size[p] < Reserved
    /\ dheapPriority[p] + Cost <= MaxPriority
    /\ Goto(c, "choose", "load")
    /\ pool' = Set(pool, c, p)
    /\ size' = Set(size, p, size[p] + 1)
    /\ UNCHANGED <<dheap, dheapPriority, at, scanVars, a, b, sum, still>>

ChooseLeast(c) == Assign(c, dheap[0])
ChooseGiven(c) == \E p \in Pools : Assign(c, p)   \* pPool # NULL

PoolFull(c) ==
    /\ \E p \in Pools : size[p] >= Reserved
    /\ Goto(c, "choose", "idle")
    /\ UNCHANGED <<sharedVars, scanVars, a, b, choiceVars, still>>

(* pool->dheapPriority += 1000, a load and a store.                        *)
LoadPriority(c) ==
    /\ Goto(c, "load", "store")
    /\ dheapPriority[pool[c]] + Cost <= MaxPriority
    /\ sum' = Set(sum, c, dheapPriority[pool[c]] + Cost)
    /\ UNCHANGED <<sharedVars, scanVars, a, b, pool, still>>

StorePriority(c) ==
    /\ Goto(c, "store", "idle")
    /\ SetPriority(pool[c], sum[c])
    /\ pool' = Set(pool, c, Unset)
    /\ sum' = Set(sum, c, Unset)
    /\ UNCHANGED <<dheap, size, at, scanVars, a, b>>

Submit(c) ==
    \/ SmallerChild(c) \/ TakeChild(c) \/ SkipChild(c) \/ LeafReached(c)
    \/ FetchPair(c) \/ OutOfOrder(c) \/ InOrder(c) \/ SwapFirst(c)
    \/ SwapSecond(c) \/ ChooseLeast(c) \/ ChooseGiven(c) \/ PoolFull(c)
    \/ LoadPriority(c) \/ StorePriority(c)

----------------------------------------------------------------------------
(* schPoolExecutor: a package is dequeued, its callback returns after t,   *)
(* and a pool has no more tasks.  A package may be submitted between the   *)
(* look at the empty queue and the store of 0.                             *)
TaskStarts(p) ==
    /\ at[p] = "look" /\ size[p] > 0
    /\ at' = Set(at, p, "callback")
    /\ size' = Set(size, p, size[p] - 1)
    /\ UNCHANGED <<dheap, dheapPriority, hpc, scanVars, a, b, choiceVars, still>>

TaskEnds(p, t) ==
    /\ at[p] = "callback"
    /\ at' = Set(at, p, "look")
    /\ SetPriority(p, t)
    /\ UNCHANGED <<dheap, size, hpc, scanVars, a, b, choiceVars>>

FindsNone(p) ==
    /\ at[p] = "look" /\ size[p] = 0
    /\ at' = Set(at, p, "none")
    /\ UNCHANGED <<dheap, dheapPriority, size, hpc, scanVars, a, b, choiceVars,
                   still>>

NoTasks(p) ==
    /\ at[p] = "none"
    /\ at' = Set(at, p, "look")
    /\ SetPriority(p, 0)
    /\ UNCHANGED <<dheap, size, hpc, scanVars, a, b, choiceVars>>

PoolThread(p) ==
    \/ TaskStarts(p) \/ FindsNone(p) \/ NoTasks(p)
    \/ \E t \in Durations : TaskEnds(p, t)

Next ==
    \/ \E c \in Callers : Heapify(c) \/ Submit(c)
    \/ \E p \in Active : PoolThread(p)

Spec == Init /\ [][Next]_vars

(* An application thread inside schSubmitTask keeps running; the pool      *)
(* threads may stop anywhere, and the application need not submit.         *)
FairSpec == Spec /\ \A c \in Callers : WF_vars(Submit(c))

----------------------------------------------------------------------------
(* Types; in particular restoreDown never leaves the bounds of dheap, and  *)
(* min_child_index is never used before it is set (heapify.c:25).          *)
HeapTypeOK ==
    /\ dheap \in [Pools -> Pools]
    /\ dheapPriority \in [Pools -> Priorities]
    /\ size \in [Pools -> Nat]
    /\ at \in [Pools -> {"look", "callback", "none"}]
    /\ hpc \in [Callers -> HeapPcs]
    /\ layer \in [Callers -> Pools]
    /\ index \in [Callers -> Pools]
    /\ nth \in [Callers -> 1 .. Breadth + 1]
    /\ min_child \in [Callers -> Priorities \cup {MAX}]
    /\ min_child_index \in [Callers -> Pools \cup {Unset}]
    /\ a \in [Callers -> Pools \cup {Unset}]
    /\ b \in [Callers -> Pools \cup {Unset}]
    /\ pool \in [Callers -> Pools \cup {Unset}]
    /\ sum \in [Callers -> Priorities \cup {Unset}]
    /\ still \in [Callers -> BOOLEAN]

(* schHeapify loses no pool: outside of a swap every pool is somewhere in  *)
(* dheap, however the pool threads change the priorities meanwhile, so no  *)
(* pool is cut off from new packages for good.                             *)
NoPoolLost ==
    (\A c \in Callers : hpc[c] # "swap2")
        => \A p \in Pools : \E i \in Pools : dheap[i] = p

(* If the priorities stood still meanwhile, schHeapify ends with a pool of *)
(* the least priority at the root, whatever earlier races left behind in   *)
(* dheap.                                                                  *)
LeastPriorityFirst ==
    \A c \in Callers : hpc[c] = "choose" /\ still[c] =>
        \A p \in Pools : dheapPriority[dheap[0]] <= dheapPriority[p]

(* Each step of schHeapify brings it closer to its end, whatever happens   *)
(* to the priorities and the heap meanwhile: it goes back to the position  *)
(* before the last one it started from, or else down in the heap, or else  *)
(* on to the next child, or else on in the comparison.  All four are       *)
(* bounded, so no change of the priorities makes restoreDown go in circles *)
(* (heapify.c:17, 50).                                                     *)
Stage == [scan |-> 0, take |-> 1, compare |-> 2, swap |-> 3, swap2 |-> 4]
Sifting(c) == hpc[c] \in DOMAIN Stage

Advances(c) ==
    \/ layer'[c] < layer[c]
    \/ /\ layer'[c] = layer[c]
       /\ \/ index'[c] > index[c]
          \/ /\ index'[c] = index[c]
             /\ \/ nth'[c] > nth[c]
                \/ nth'[c] = nth[c] /\ Stage[hpc'[c]] > Stage[hpc[c]]

HeapifyAdvances ==
    [][\A c \in Callers :
          Sifting(c) /\ Submit(c) => hpc'[c] = "choose" \/ Advances(c)]_vars

(* schHeapify comes to an end even if the priorities change under it all   *)
(* the time.                                                               *)
HeapifyReturns ==
    \A c \in Callers : (hpc[c] = "scan") ~> (hpc[c] = "choose")

=============================================================================
