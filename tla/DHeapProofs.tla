---------------------------- MODULE DHeapProofs ----------------------------
(***************************************************************************)
(* Theorems about the heap of pools, for any number of pools and any       *)
(* breadth of the heap, while the pool threads change the priorities.      *)
(***************************************************************************)
EXTENDS DHeap, RingArithmetic, WellFoundedInduction, TLAPS

USE DEF sharedVars, scanVars, choiceVars, MoreChildren, Displaced, Below

(* What the locals of one caller are worth in each step of restoreDown and *)
(* of schSubmitTask.                                                       *)
LocalsInv(c) ==
    /\ hpc[c] = "take" => nth[c] <= Breadth /\ Child(c) \in Pools
    /\ hpc[c] \in {"scan", "take"} /\ min_child[c] # MAX
          => min_child_index[c] \in Pools
    /\ hpc[c] \in {"compare", "swap", "swap2"}
          => min_child_index[c] \in Pools /\ a[c] \in Pools /\ b[c] \in Pools
    /\ hpc[c] \in {"load", "store"} => pool[c] \in Pools
    /\ hpc[c] = "store" => sum[c] \in Priorities

HeapTypeInv == HeapTypeOK /\ \A c \in Callers : LocalsInv(c)

(* The last parent lies in the heap.                                       *)
LEMMA LastParent == LastParentIndex \in Pools
<1>1. NumPools - 1 \in Nat /\ Breadth \in Nat \ {0}
  BY HeapPoolsAssumption, BreadthAssumption
<1>2. \A x \in Nat : \A d \in Nat \ {0} : x \div d \in 0 .. x
  BY SMTT(20)
<1>3. (NumPools - 1) \div Breadth \in 0 .. NumPools - 1
  BY <1>1, <1>2
<1> QED BY <1>3 DEF Pools, LastParentIndex

(* The root is a position, and a position before one is one.               *)
LEMMA Positions ==
    /\ 0 \in Pools
    /\ \A i \in Pools : i # 0 => i - 1 \in Pools
  BY HeapPoolsAssumption DEF Pools

(* A child inside the bounds is a position of the heap.                    *)
LEMMA ChildPosition ==
    ASSUME HeapTypeOK, NEW c \in Callers, Child(c) < NumPools
    PROVE  Child(c) \in Pools
<1>1. index[c] \in Nat /\ nth[c] \in Nat /\ Breadth \in Nat
  BY HeapPoolsAssumption, BreadthAssumption DEF HeapTypeOK, Pools
<1>2. Child(c) \in Nat
  BY <1>1 DEF Child
<1> QED BY <1>2, HeapPoolsAssumption DEF Pools

(* The types at the start.                                                 *)
LEMMA HeapTypeInit == Init => HeapTypeInv
<1> SUFFICES ASSUME Init PROVE HeapTypeInv
  OBVIOUS
<1>1. 1 \in 1 .. Breadth + 1 /\ 0 \in Priorities
  BY BreadthAssumption, PriorityAssumption DEF Priorities
<1> QED
  BY <1>1, Positions
  DEF Init, HeapTypeInv, HeapTypeOK, LocalsInv, HeapPcs

(* No step of schHeapify leaves the heap or uses a local without value.    *)
LEMMA HeapifyStep ==
    ASSUME HeapTypeInv, NEW c \in Callers,
           \/ Heapify(c) \/ SmallerChild(c) \/ TakeChild(c) \/ SkipChild(c)
           \/ LeafReached(c) \/ FetchPair(c) \/ OutOfOrder(c) \/ InOrder(c)
           \/ SwapFirst(c) \/ SwapSecond(c)
    PROVE  HeapTypeInv'
<1> USE DEF HeapTypeInv, HeapTypeOK, LocalsInv, HeapPcs, Set, Goto, Child
<1>1. 1 \in 1 .. Breadth + 1 /\ Breadth \in Nat
  BY BreadthAssumption
<1>2. \A n \in 1 .. Breadth + 1 : n <= Breadth => n + 1 \in 1 .. Breadth + 1
  BY <1>1
<1>3. CASE Heapify(c)
  BY <1>1, <1>3, LastParent DEF Heapify, SiftAt
<1>4. CASE SmallerChild(c)
  BY <1>4, ChildPosition DEF SmallerChild
<1>5. CASE TakeChild(c)
  BY <1>2, <1>5 DEF TakeChild
<1>6. CASE SkipChild(c)
  BY <1>2, <1>6 DEF SkipChild
<1>7. CASE LeafReached(c)
  BY <1>1, <1>7, Positions DEF LeafReached, SiftAt
<1>8. CASE FetchPair(c)
  BY <1>8 DEF FetchPair
<1>9. CASE OutOfOrder(c)
  BY <1>9 DEF OutOfOrder
<1>10. CASE InOrder(c)
  BY <1>1, <1>10 DEF InOrder, SiftAt
<1>11. CASE SwapFirst(c)
  BY <1>11 DEF SwapFirst
<1>12. CASE SwapSecond(c)
  BY <1>1, <1>12 DEF SwapSecond, SiftAt
<1> QED
  BY <1>3, <1>4, <1>5, <1>6, <1>7, <1>8, <1>9, <1>10, <1>11, <1>12

(* Nor does the rest of schSubmitTask.                                     *)
LEMMA AssignStep ==
    ASSUME HeapTypeInv, NEW c \in Callers,
           \/ ChooseLeast(c) \/ ChooseGiven(c) \/ PoolFull(c)
           \/ LoadPriority(c) \/ StorePriority(c)
    PROVE  HeapTypeInv'
<1> USE DEF HeapTypeInv, HeapTypeOK, LocalsInv, HeapPcs, Set, Goto, Child
<1>1. ASSUME NEW p \in Pools, Assign(c, p) PROVE HeapTypeInv'
  BY <1>1 DEF Assign
<1>2. CASE ChooseLeast(c) \/ ChooseGiven(c)
  BY <1>1, <1>2, Positions DEF ChooseLeast, ChooseGiven
<1>3. CASE PoolFull(c)
  BY <1>3 DEF PoolFull
<1>4. CASE LoadPriority(c)
  <2>1. dheapPriority[pool[c]] + Cost \in Priorities
    BY <1>4, PriorityAssumption DEF LoadPriority, Priorities
  <2> QED BY <1>4, <2>1 DEF LoadPriority
<1>5. CASE StorePriority(c)
  BY <1>5 DEF StorePriority, SetPriority
<1> QED
  BY <1>2, <1>3, <1>4, <1>5

(* A pool thread writes its priority and its count only.                   *)
LEMMA PoolThreadStep ==
    ASSUME HeapTypeInv, NEW p \in Pools, PoolThread(p)
    PROVE  HeapTypeInv'
<1> USE DEF HeapTypeInv, HeapTypeOK, LocalsInv, Set, Child
<1>1. 0 \in Priorities /\ Durations \subseteq Priorities
  BY PriorityAssumption DEF Priorities
<1>2. CASE NoTasks(p)
  BY <1>1, <1>2 DEF NoTasks, SetPriority
<1>3. CASE TaskStarts(p)
  <2>1. size[p] - 1 \in Nat
    BY <1>3 DEF TaskStarts
  <2> QED BY <1>3, <2>1 DEF TaskStarts
<1>4. ASSUME NEW t \in Durations, TaskEnds(p, t) PROVE HeapTypeInv'
  BY <1>1, <1>4 DEF TaskEnds, SetPriority
<1>5. CASE FindsNone(p)
  BY <1>5 DEF FindsNone
<1> QED
  BY <1>2, <1>3, <1>4, <1>5 DEF PoolThread

(* The steps together.                                                     *)
LEMMA HeapTypeStep ==
    ASSUME HeapTypeInv, [Next]_vars PROVE HeapTypeInv'
<1>1. CASE UNCHANGED vars
  BY <1>1 DEF HeapTypeInv, HeapTypeOK, LocalsInv, Child, vars
<1>2. ASSUME NEW c \in Callers, Heapify(c) \/ Submit(c) PROVE HeapTypeInv'
  BY <1>2, HeapifyStep, AssignStep DEF Submit
<1>3. ASSUME NEW p \in Pools, PoolThread(p) PROVE HeapTypeInv'
  BY <1>3, PoolThreadStep
<1> QED BY <1>1, <1>2, <1>3, ActiveAssumption DEF Next

(* For any number of pools, callers and any breadth, while the priorities  *)
(* change: restoreDown never reads or writes dheap outside its bounds and  *)
(* never uses min_child_index before it is set (heapify.c:12-52).          *)
THEOREM HeapTypeCorrect == Spec => []HeapTypeOK
<1>1. HeapTypeInv /\ [Next]_vars => HeapTypeInv'
  BY HeapTypeStep
<1>2. HeapTypeInv => HeapTypeOK
  BY DEF HeapTypeInv
<1> QED BY <1>1, <1>2, HeapTypeInit, PTL DEF Spec

----------------------------------------------------------------------------
(* Two callers that sift at the same time can lose a pool: each stores     *)
(* what it fetched before the other swapped.  With one caller the locals   *)
(* of restoreDown stay what the heap holds, and between the two stores of  *)
(* a swap the pool that is in a only is the one that was overwritten.      *)
SoleCaller == \E c : Callers = {c}

Complete == \A p \in Pools : \E i \in Pools : dheap[i] = p

SwapInv(c) ==
    /\ hpc[c] \in {"compare", "swap"} => a[c] = dheap[index[c]]
    /\ hpc[c] \in {"compare", "swap", "swap2"}
          => b[c] = dheap[min_child_index[c]]
    /\ hpc[c] # "swap2" => Complete
    /\ hpc[c] = "swap2" =>
          \A p \in Pools \ {a[c]} :
              \E i \in Pools \ {min_child_index[c]} : dheap[i] = p

(* The two stores of a swap.                                               *)
LEMMA SwapStep ==
    ASSUME HeapTypeInv, NEW c \in Callers, SwapInv(c),
           SwapFirst(c) \/ SwapSecond(c)
    PROVE  SwapInv(c)'
<1> USE DEF HeapTypeInv, HeapTypeOK, LocalsInv, Set, Goto
<1>1. CASE SwapFirst(c)
  <2> PICK i \in Pools, k \in Pools : i = index[c] /\ k = min_child_index[c]
    BY <1>1 DEF SwapFirst
  <2>1. /\ Complete
        /\ a[c] = dheap[i] /\ b[c] = dheap[k]
        /\ dheap' = [dheap EXCEPT ![i] = b[c]]
        /\ a' = a /\ b' = b /\ min_child_index' = min_child_index
        /\ hpc'[c] = "swap2"
    BY <1>1 DEF SwapFirst, SwapInv
  <2>2. dheap'[k] = dheap[k]
    BY <2>1
  <2>3. ASSUME NEW p \in Pools \ {a[c]}
        PROVE  \E j \in Pools \ {k} : dheap'[j] = p
    <3>1. PICK j \in Pools : dheap[j] = p
      BY <2>1 DEF Complete
    <3>2. CASE j = k
      <4>1. i # k /\ dheap'[i] = p
        BY <2>1, <2>3, <3>1, <3>2
      <4> QED BY <4>1
    <3>3. CASE j # k
      BY <2>1, <2>3, <3>1, <3>3
    <3> QED BY <3>2, <3>3
  <2> QED BY <2>1, <2>2, <2>3 DEF SwapInv
<1>2. CASE SwapSecond(c)
  <2> PICK k \in Pools : k = min_child_index[c]
    BY <1>2 DEF SwapSecond
  <2>1. /\ dheap' = [dheap EXCEPT ![k] = a[c]]
        /\ hpc'[c] = "scan"
        /\ \A p \in Pools \ {a[c]} : \E j \in Pools \ {k} : dheap[j] = p
    BY <1>2 DEF SwapSecond, SwapInv
  <2>2. ASSUME NEW p \in Pools PROVE \E j \in Pools : dheap'[j] = p
    <3>1. CASE p = a[c]
      BY <2>1, <3>1
    <3>2. CASE p # a[c]
      BY <2>1, <3>2
    <3> QED BY <3>1, <3>2
  <2> QED BY <2>1, <2>2 DEF SwapInv, Complete
<1> QED BY <1>1, <1>2

(* Every other step leaves dheap alone.                                    *)
LEMMA SwapUntouched ==
    ASSUME HeapTypeInv, NEW c \in Callers, SwapInv(c),
           \/ Heapify(c) \/ SmallerChild(c) \/ TakeChild(c) \/ SkipChild(c)
           \/ LeafReached(c) \/ FetchPair(c) \/ OutOfOrder(c) \/ InOrder(c)
           \/ ChooseLeast(c) \/ ChooseGiven(c) \/ PoolFull(c)
           \/ LoadPriority(c) \/ StorePriority(c)
           \/ \E p \in Pools : PoolThread(p)
           \/ UNCHANGED vars
    PROVE  SwapInv(c)'
<1> USE DEF HeapTypeInv, HeapTypeOK, Set, Goto, SwapInv, Complete
<1>1. CASE Heapify(c)
  BY <1>1 DEF Heapify, SiftAt
<1>2. CASE SmallerChild(c) \/ SkipChild(c)
  BY <1>2 DEF SmallerChild, SkipChild
<1>3. CASE TakeChild(c)
  BY <1>3 DEF TakeChild
<1>4. CASE LeafReached(c)
  BY <1>4 DEF LeafReached, SiftAt
<1>5. CASE FetchPair(c)
  BY <1>5 DEF FetchPair
<1>6. CASE OutOfOrder(c) \/ InOrder(c)
  BY <1>6 DEF OutOfOrder, InOrder, SiftAt
<1>7. CASE ChooseLeast(c) \/ ChooseGiven(c)
  BY <1>7 DEF ChooseLeast, ChooseGiven, Assign
<1>8. CASE PoolFull(c) \/ LoadPriority(c) \/ StorePriority(c)
  BY <1>8 DEF PoolFull, LoadPriority, StorePriority
<1>9. CASE \E p \in Pools : PoolThread(p)
  BY <1>9 DEF PoolThread, TaskStarts, FindsNone, NoTasks, TaskEnds
<1>10. CASE UNCHANGED vars
  BY <1>10 DEF vars
<1> QED
  BY <1>1, <1>2, <1>3, <1>4, <1>5, <1>6, <1>7, <1>8, <1>9, <1>10

(* One caller keeps all of this.                                           *)
LEMMA KeepsPoolsStep ==
    ASSUME NEW c, Callers = {c}, HeapTypeInv, SwapInv(c), [Next]_vars
    PROVE  HeapTypeInv' /\ SwapInv(c)'
<1>1. CASE UNCHANGED vars
  <2>1. HeapTypeInv'
    BY <1>1 DEF HeapTypeInv, HeapTypeOK, LocalsInv, Child, vars
  <2> QED BY <1>1, <2>1, SwapUntouched
<1>2. CASE Heapify(c) \/ Submit(c)
  BY <1>2, HeapifyStep, AssignStep, SwapStep, SwapUntouched DEF Submit
<1>3. CASE \E p \in Pools : PoolThread(p)
  BY <1>3, PoolThreadStep, SwapUntouched
<1> QED BY <1>1, <1>2, <1>3, ActiveAssumption DEF Next

(* With one thread submitting, schHeapify loses no pool, however the pool  *)
(* threads change the priorities while it sifts: a task submitted without  *)
(* pPool can still go to any pool (heapify.c:40-50).                       *)
THEOREM HeapKeepsPools == ASSUME SoleCaller PROVE Spec => []NoPoolLost
<1> PICK c : Callers = {c}
  BY DEF SoleCaller
<1>1. Init => SwapInv(c)
  <2> SUFFICES ASSUME Init PROVE SwapInv(c)
    OBVIOUS
  <2>1. hpc[c] = "idle" /\ \A p \in Pools : dheap[p] = p
    BY DEF Init
  <2> QED BY <2>1 DEF SwapInv, Complete
<1>2. ASSUME HeapTypeInv, SwapInv(c), [Next]_vars
      PROVE  HeapTypeInv' /\ SwapInv(c)'
  BY <1>2, KeepsPoolsStep
<1>3. SwapInv(c) => NoPoolLost
  BY DEF SwapInv, NoPoolLost, Complete
<1> QED BY <1>1, <1>2, <1>3, HeapTypeInit, PTL DEF Spec

----------------------------------------------------------------------------
(* The order of the heap.                                                  *)

(* A set of numbers that is not empty has a least element.                 *)
LEMMA LeastNumber ==
    ASSUME NEW T \in SUBSET Nat, T # {}
    PROVE  \E x \in T : \A y \in T : x <= y
<1> DEFINE R == OpToRel(<, Nat)
<1>1. IsWellFoundedOn(R, Nat)
  BY NatLessThanWellFounded
<1>2. \A y, x \in Nat : <<y, x>> \in R <=> y < x
  BY DEF OpToRel
<1> HIDE DEF R
<1>3. T \subseteq Nat
  OBVIOUS
<1>4. \E x \in T : \A y \in T : ~(<<y, x>> \in R)
  BY ONLY <1>1, <1>3, T # {}, WFMin
<1>5. ASSUME NEW x \in T, NEW y \in T, ~(<<y, x>> \in R) PROVE x <= y
  <2>1. x \in Nat /\ y \in Nat
    BY <1>3
  <2>2. ~(y < x)
    BY <1>2, <1>5, <2>1
  <2> QED BY <2>1, <2>2
<1> QED BY <1>4, <1>5

Children(i) == {j \in Pools : \E n \in 1 .. Breadth : j = Breadth * i + n}

(* Children lie after their parent, between the first and the last one.    *)
LEMMA ChildrenAbove ==
    ASSUME NEW i \in Pools, NEW j \in Children(i)
    PROVE  /\ j \in Pools /\ j > i
           /\ ~(j < Breadth * i + 1) /\ j < Breadth * i + (Breadth + 1)
<1>1. PICK n \in 1 .. Breadth : j = Breadth * i + n
  BY DEF Children
<1>2. i \in Nat /\ Breadth \in Nat /\ Breadth >= 1
  BY BreadthAssumption, HeapPoolsAssumption DEF Pools
<1>3. Breadth * i \in Nat /\ Breadth * i >= i
  BY <1>2, SMTT(20)
<1>4. PICK m \in Nat : m = Breadth * i
  BY <1>3
<1>5. j = m + n /\ m >= i
  BY <1>1, <1>3, <1>4
<1>6. j > i /\ ~(j < m + 1) /\ j < m + (Breadth + 1)
  BY <1>2, <1>5
<1> QED BY <1>4, <1>6 DEF Children

(* Nobody has two parents.                                                 *)
LEMMA OneParent ==
    ASSUME NEW i \in Pools, NEW k \in Pools, NEW j,
           j \in Children(i), j \in Children(k)
    PROVE  i = k
<1>1. \A x, y \in Pools : x < y => Breadth * x + Breadth <= Breadth * y
  <2> SUFFICES ASSUME NEW x \in Pools, NEW y \in Pools, x < y
               PROVE  Breadth * x + Breadth <= Breadth * y
    OBVIOUS
  <2>1. x \in Nat /\ y \in Nat /\ Breadth \in Nat
    BY BreadthAssumption, HeapPoolsAssumption DEF Pools
  <2>2. PICK d \in Nat : y = x + 1 + d
    <3>1. y - x - 1 \in Nat /\ y = x + 1 + (y - x - 1)
      BY <2>1
    <3> QED BY <3>1
  <2>3. Breadth * y = Breadth * x + Breadth + Breadth * d /\ Breadth * d \in Nat
    BY <2>1, <2>2, SMTT(20)
  <2>4. Breadth * x \in Nat
    BY <2>1, SMTT(20)
  <2> QED BY <2>1, <2>3, <2>4
<1>2. \A x \in Pools : Breadth * x \in Nat
  BY BreadthAssumption, HeapPoolsAssumption, SMTT(20) DEF Pools
<1>3. PICK m \in Nat, n \in Nat : m = Breadth * i /\ n = Breadth * k
  BY <1>2
<1>4. PICK x \in 1 .. Breadth, y \in 1 .. Breadth : j = m + x /\ j = n + y
  BY <1>3 DEF Children
<1>5. ~(m + Breadth <= n) /\ ~(n + Breadth <= m)
  BY <1>4, BreadthAssumption
<1>6. ~(i < k) /\ ~(k < i)
  BY <1>1, <1>3, <1>5
<1> QED BY <1>6, HeapPoolsAssumption DEF Pools

(* Everybody but the root has one.                                         *)
LEMMA HasParent ==
    ASSUME NEW j \in Pools, j # 0
    PROVE  \E i \in Pools : j \in Children(i) /\ i < j
<1>1. j - 1 \in Nat /\ j \in Nat /\ j - 1 < j
  BY HeapPoolsAssumption DEF Pools
<1>2. PICK q \in Nat, r \in 0 .. Breadth - 1 : j - 1 = Breadth * q + r
  BY <1>1, DivMod, BreadthAssumption
<1>3. Breadth * q \in Nat /\ Breadth * q >= q
  BY BreadthAssumption, SMTT(20)
<1>4. q <= j - 1
  <2>1. PICK m \in Nat : m = Breadth * q
    BY <1>3
  <2>2. j - 1 = m + r /\ m >= q
    BY <1>2, <1>3, <2>1
  <2> QED BY <1>1, <2>2, BreadthAssumption
<1>5. q \in Pools /\ q < j
  BY <1>1, <1>4, HeapPoolsAssumption DEF Pools
<1>6. r + 1 \in 1 .. Breadth /\ j = Breadth * q + (r + 1)
  <2>1. PICK m \in Nat : m = Breadth * q
    BY <1>3
  <2>2. j - 1 = m + r
    BY <1>2, <2>1
  <2>3. r + 1 \in 1 .. Breadth /\ j = m + (r + 1)
    BY <1>1, <2>2, BreadthAssumption
  <2> QED BY <2>1, <2>3
<1> QED BY <1>5, <1>6 DEF Children

(* Where schHeapify starts, no position behind has a child.                *)
LEMMA NoChildrenBehind ==
    ASSUME NEW i \in Pools, i >= LastParentIndex, i # LastParentIndex
    PROVE  Children(i) = {}
<1>1. NumPools - 1 \in Nat /\ Breadth \in Nat \ {0} /\ i \in Nat
  BY HeapPoolsAssumption, BreadthAssumption DEF Pools
<1>2. PICK q \in Nat, r \in 0 .. Breadth - 1 :
        q = LastParentIndex /\ NumPools - 1 = Breadth * q + r
  BY <1>1, DivMod DEF LastParentIndex
<1>3. PICK d \in Nat : i = q + 1 + d
  <2>1. i - q - 1 \in Nat /\ i = q + 1 + (i - q - 1)
    BY <1>1, <1>2
  <2> QED BY <2>1
<1>4. /\ Breadth * i = Breadth * q + Breadth + Breadth * d
      /\ Breadth * d \in Nat /\ Breadth * q \in Nat
  BY <1>1, <1>3, SMTT(20)
<1>5. PICK m \in Nat, e \in Nat : m = Breadth * q /\ e = Breadth * d
  BY <1>4
<1>6. NumPools - 1 = m + r /\ Breadth * i = m + Breadth + e
  BY <1>2, <1>4, <1>5
<1> SUFFICES ASSUME NEW j \in Pools, NEW n \in 1 .. Breadth,
                    j = Breadth * i + n
             PROVE  FALSE
  BY DEF Children
<1>7. j = m + Breadth + e + n
  BY <1>6
<1>8. j <= NumPools - 1
  BY HeapPoolsAssumption DEF Pools
<1> QED BY <1>1, <1>6, <1>7, <1>8

(* The priority of the pool at position i, and the heap order there.       *)
Prio(i) == dheapPriority[dheap[i]]
OrderedAt(i) == \A j \in Children(i) : Prio(i) <= Prio(j)

(* While the priorities stand still: restoreDown has put every position    *)
(* from layer on in order but the one it is at, and the parent of that one *)
(* is in order with its grandchildren, so that a swap does not harm it.    *)
SiftInv(c) ==
    hpc[c] \in {"scan", "take", "compare", "swap", "swap2"} =>
        /\ index[c] >= layer[c]
        /\ \A i \in Pools : i >= layer[c] /\ i # index[c] => OrderedAt(i)
        /\ \A i \in Pools : i >= layer[c] /\ index[c] \in Children(i)
              => \A j \in Children(index[c]) : Prio(i) <= Prio(j)

(* min_child is the least priority of the children scanned so far.         *)
ScanInv(c) ==
    hpc[c] \in {"scan", "take"} =>
        /\ \A j \in Children(index[c]) : j < Child(c) => min_child[c] <= Prio(j)
        /\ min_child[c] # MAX =>
              /\ min_child_index[c] \in Children(index[c])
              /\ min_child[c] = Prio(min_child_index[c])
        /\ hpc[c] = "take" => Prio(Child(c)) < min_child[c]

(* The child restoreDown compares with is one of the least.                *)
PairInv(c) ==
    hpc[c] \in {"compare", "swap", "swap2"} =>
        /\ min_child_index[c] \in Children(index[c])
        /\ \A j \in Children(index[c]) : Prio(min_child_index[c]) <= Prio(j)
        /\ hpc[c] # "compare" => dheapPriority[b[c]] < dheapPriority[a[c]]
        /\ hpc[c] = "swap2" => dheap[index[c]] = b[c]

SiftedInv(c) == hpc[c] = "choose" => \A i \in Pools : OrderedAt(i)

OrderInv(c) == SiftInv(c) /\ ScanInv(c) /\ PairInv(c) /\ SiftedInv(c)

(* Priorities are numbers below LONG_MAX, positions are numbers.           *)
LEMMA Numbers ==
    ASSUME HeapTypeInv
    PROVE  /\ \A i \in Pools : Prio(i) \in Int /\ Prio(i) < MAX
           /\ \A p \in Pools : dheapPriority[p] \in Int
           /\ Pools \subseteq Int
           /\ \A c \in Callers : min_child[c] \in Int
<1>1. /\ MAX \in Int /\ Pools \subseteq Int
      /\ \A x \in Priorities : x \in Int /\ x < MAX
  BY PriorityAssumption, HeapPoolsAssumption DEF Priorities, MAX, Pools
<1>2. /\ dheap \in [Pools -> Pools] /\ dheapPriority \in [Pools -> Priorities]
      /\ min_child \in [Callers -> Priorities \cup {MAX}]
  BY DEF HeapTypeInv, HeapTypeOK
<1> QED BY <1>1, <1>2 DEF Prio

(* A sift that begins at a position has seen none of its children.         *)
LEMMA SiftBegins ==
    ASSUME HeapTypeInv, NEW c \in Callers, NEW i \in Pools, SiftAt(c, i),
           hpc'[c] \in {"scan", "choose"}
    PROVE  ScanInv(c)' /\ PairInv(c)' /\ index'[c] = i
<1>1. index'[c] = i /\ nth'[c] = 1 /\ min_child'[c] = MAX
  BY DEF SiftAt, Set, HeapTypeInv, HeapTypeOK
<1>2. \A j \in Children(i) : ~(j < Breadth * i + 1)
  BY ChildrenAbove
<1> QED BY <1>1, <1>2 DEF ScanInv, PairInv, Child

(* The steps that leave dheap and the priorities alone.                    *)
LEMMA SameOrder ==
    ASSUME UNCHANGED <<dheap, dheapPriority>>
    PROVE  \A i : Prio(i)' = Prio(i) /\ (OrderedAt(i)' <=> OrderedAt(i))
  BY DEF Prio, OrderedAt

(* schHeapify starts at the last parent.                                   *)
LEMMA OrderHeapify ==
    ASSUME HeapTypeInv, NEW c \in Callers, Heapify(c)
    PROVE  OrderInv(c)'
<1>1. /\ hpc'[c] = "scan" /\ layer'[c] = LastParentIndex
      /\ SiftAt(c, LastParentIndex)
  BY DEF Heapify, Goto, Set, HeapTypeInv, HeapTypeOK
<1>2. ScanInv(c)' /\ PairInv(c)' /\ index'[c] = LastParentIndex
  BY <1>1, LastParent, SiftBegins
<1>3. LastParentIndex >= LastParentIndex
  BY LastParent, Numbers
<1>4. \A i \in Pools : i >= LastParentIndex /\ LastParentIndex \in Children(i)
         => FALSE
  BY ChildrenAbove, LastParent, Numbers
<1>5. \A i \in Pools : i >= LastParentIndex /\ i # LastParentIndex
         => OrderedAt(i)'
  BY NoChildrenBehind DEF OrderedAt
<1>6. SiftInv(c)'
  BY <1>1, <1>2, <1>3, <1>4, <1>5 DEF SiftInv
<1> QED BY <1>1, <1>2, <1>6 DEF OrderInv, SiftedInv

(* The scan over the children.                                             *)
LEMMA OrderScan ==
    ASSUME HeapTypeInv, NEW c \in Callers, OrderInv(c),
           SmallerChild(c) \/ TakeChild(c) \/ SkipChild(c)
    PROVE  OrderInv(c)'
<1>1. /\ hpc[c] \in {"scan", "take"} /\ hpc'[c] \in {"scan", "take"}
      /\ UNCHANGED <<dheap, dheapPriority, index, layer>>
  BY DEF SmallerChild, TakeChild, SkipChild, Goto, Set, HeapTypeInv, HeapTypeOK
<1>2. PICK i \in Pools : i = index[c]
  BY DEF HeapTypeInv, HeapTypeOK
<1>3. SiftInv(c)'
  BY <1>1, SameOrder DEF OrderInv, SiftInv
<1>4. /\ Child(c) \in Int
      /\ Child(c) < NumPools => Child(c) \in Pools
      /\ nth[c] <= Breadth /\ Child(c) \in Pools => Child(c) \in Children(i)
      /\ nth'[c] = nth[c] + 1 => Child(c)' = Child(c) + 1
  <2>1. /\ nth[c] \in 1 .. Breadth + 1 /\ i \in Nat /\ Breadth \in Nat
        /\ index'[c] = i
    BY <1>1, <1>2, HeapPoolsAssumption, BreadthAssumption
    DEF HeapTypeInv, HeapTypeOK, Pools
  <2>2. PICK m \in Nat : m = Breadth * i
    BY <2>1, SMTT(20)
  <2>3. Child(c) = m + nth[c] /\ Child(c)' = m + nth'[c]
    BY <1>2, <2>1, <2>2 DEF Child
  <2>4. Child(c) \in Nat
    BY <2>1, <2>3
  <2>5. Child(c) < NumPools => Child(c) \in Pools
    BY <2>4, HeapPoolsAssumption DEF Pools
  <2>6. nth[c] <= Breadth => nth[c] \in 1 .. Breadth
    BY <2>1
  <2>7. nth[c] <= Breadth /\ Child(c) \in Pools => Child(c) \in Children(i)
    BY <1>2, <2>6 DEF Child, Children
  <2>8. nth'[c] = nth[c] + 1 => Child(c)' = Child(c) + 1
    BY <2>1, <2>3
  <2> QED BY <2>4, <2>5, <2>7, <2>8
<1>5. CASE SmallerChild(c)
  <2>1. /\ hpc'[c] = "take" /\ UNCHANGED <<nth, min_child, min_child_index>>
        /\ Child(c) < NumPools /\ Prio(Child(c)) < min_child[c]
    BY <1>5 DEF SmallerChild, Goto, Set, HeapTypeInv, HeapTypeOK, Prio
  <2>2. Child(c)' = Child(c)
    BY <1>1, <2>1 DEF Child
  <2>3. ScanInv(c)'
    BY <1>1, <2>1, <2>2, SameOrder DEF OrderInv, ScanInv
  <2> QED BY <1>3, <2>1, <2>3 DEF OrderInv, PairInv, SiftedInv
<1>6. CASE TakeChild(c)
  <2>1. /\ hpc[c] = "take" /\ hpc'[c] = "scan"
        /\ min_child_index'[c] = Child(c) /\ min_child'[c] = Prio(Child(c))
        /\ nth'[c] = nth[c] + 1
    BY <1>6 DEF TakeChild, Goto, Set, HeapTypeInv, HeapTypeOK, Prio
  <2>2. /\ Child(c) \in Children(i) /\ Child(c) \in Pools
        /\ Child(c)' = Child(c) + 1
    BY <1>4, <2>1 DEF HeapTypeInv, LocalsInv
  <2>3. Prio(Child(c)) < min_child[c]
    BY <2>1 DEF OrderInv, ScanInv
  <2>4. ASSUME NEW j \in Children(i), j < Child(c) + 1
        PROVE  Prio(Child(c)) <= Prio(j)
    <3>1. j \in Pools /\ (j < Child(c) \/ j = Child(c))
      BY <1>4, <2>4, ChildrenAbove, Numbers
    <3>2. j < Child(c) => min_child[c] <= Prio(j)
      BY <1>2, <2>1 DEF OrderInv, ScanInv
    <3> QED BY <2>2, <2>3, <3>1, <3>2, Numbers
  <2>5. ScanInv(c)'
    BY <1>1, <1>2, <2>1, <2>2, <2>4, SameOrder DEF ScanInv
  <2> QED BY <1>3, <2>1, <2>5 DEF OrderInv, PairInv, SiftedInv
<1>7. CASE SkipChild(c)
  <2>1. /\ hpc[c] = "scan" /\ hpc'[c] = "scan" /\ nth'[c] = nth[c] + 1
        /\ UNCHANGED <<min_child, min_child_index>>
        /\ Child(c) < NumPools => Prio(Child(c)) >= min_child[c]
    BY <1>7 DEF SkipChild, Goto, Set, HeapTypeInv, HeapTypeOK, Prio
  <2>2. Child(c)' = Child(c) + 1
    BY <1>4, <2>1
  <2>3. ASSUME NEW j \in Children(i), j < Child(c) + 1
        PROVE  min_child[c] <= Prio(j)
    <3>1. j \in Pools /\ (j < Child(c) \/ j = Child(c)) /\ j < NumPools
      BY <1>4, <2>3, ChildrenAbove, Numbers, HeapPoolsAssumption DEF Pools
    <3>2. j < Child(c) => min_child[c] <= Prio(j)
      BY <1>2, <2>1 DEF OrderInv, ScanInv
    <3> QED BY <2>1, <3>1, <3>2, Numbers
  <2>4. ScanInv(c)'
    BY <1>1, <1>2, <2>1, <2>2, <2>3, SameOrder DEF OrderInv, ScanInv
  <2> QED BY <1>3, <2>1, <2>4 DEF OrderInv, PairInv, SiftedInv
<1> QED BY <1>5, <1>6, <1>7

(* A leaf, and the comparison with the least child.                        *)
LEMMA OrderCompare ==
    ASSUME HeapTypeInv, NEW c \in Callers, SwapInv(c), OrderInv(c),
           \/ LeafReached(c) \/ FetchPair(c) \/ OutOfOrder(c) \/ InOrder(c)
    PROVE  OrderInv(c)'
<1>1. UNCHANGED <<dheap, dheapPriority>>
  BY DEF LeafReached, FetchPair, OutOfOrder, InOrder
<1>2. PICK i \in Pools, l \in Pools : i = index[c] /\ l = layer[c]
  BY DEF HeapTypeInv, HeapTypeOK
<1>3. ASSUME ~MoreChildren(c), hpc[c] = "scan"
      PROVE  \A j \in Children(i) : min_child[c] <= Prio(j)
  <2>1. nth[c] = Breadth + 1
    BY <1>3, BreadthAssumption DEF HeapTypeInv, HeapTypeOK
  <2>2. \A j \in Children(i) : j < Child(c)
    BY <1>2, <2>1, ChildrenAbove DEF Child
  <2> QED BY <1>2, <1>3, <2>2 DEF OrderInv, ScanInv
<1>4. CASE LeafReached(c)
  <2>1. Children(i) = {}
    <3>1. hpc[c] = "scan" /\ min_child[c] = MAX /\ ~MoreChildren(c)
      BY <1>4 DEF LeafReached, Goto
    <3>2. \A j \in Children(i) : MAX <= Prio(j)
      BY <1>3, <3>1
    <3>3. \A j \in Children(i) : Prio(j) \in Int /\ Prio(j) < MAX
      BY ChildrenAbove, Numbers
    <3>4. MAX \in Int
      BY PriorityAssumption DEF MAX
    <3> QED BY <3>2, <3>3, <3>4
  <2>2. \A x \in Pools : x >= l => OrderedAt(x)
    BY <1>2, <1>4, <2>1 DEF OrderInv, SiftInv, LeafReached, Goto, OrderedAt
  <2>3. PICK n \in Pools : n = IF l = 0 THEN 0 ELSE l - 1
    BY Positions
  <2>4. /\ layer'[c] = n /\ hpc'[c] = IF l = 0 THEN "choose" ELSE "scan"
        /\ SiftAt(c, n)
    BY <1>2, <1>4, <2>3 DEF LeafReached, Goto, Set, HeapTypeInv, HeapTypeOK
  <2>5. ScanInv(c)' /\ PairInv(c)' /\ index'[c] = n
    BY <2>4, SiftBegins
  <2>6. /\ n >= n
        /\ \A x \in Pools : x >= n /\ x # n /\ l # 0 => x >= l
        /\ l = 0 => \A x \in Pools : x >= l
    BY <2>3, HeapPoolsAssumption DEF Pools
  <2>7. \A x \in Pools : x >= n => n \notin Children(x)
    BY ChildrenAbove, Numbers
  <2>8. SiftInv(c)'
    BY <1>1, <2>2, <2>4, <2>5, <2>6, <2>7, SameOrder DEF SiftInv
  <2>9. SiftedInv(c)'
    BY <1>1, <2>2, <2>4, <2>6, SameOrder DEF SiftedInv
  <2> QED BY <2>5, <2>8, <2>9 DEF OrderInv
<1>5. CASE FetchPair(c)
  <2>1. /\ hpc[c] = "scan" /\ hpc'[c] = "compare" /\ min_child[c] # MAX
        /\ ~MoreChildren(c)
        /\ UNCHANGED <<index, layer, min_child_index>>
    BY <1>5 DEF FetchPair, Goto, Set, HeapTypeInv, HeapTypeOK
  <2>2. /\ min_child_index[c] \in Children(i)
        /\ min_child[c] = Prio(min_child_index[c])
    BY <1>2, <2>1 DEF OrderInv, ScanInv
  <2>3. PairInv(c)'
    BY <1>1, <1>2, <1>3, <2>1, <2>2, SameOrder DEF PairInv
  <2>4. SiftInv(c)'
    BY <1>1, <2>1, SameOrder DEF OrderInv, SiftInv
  <2> QED BY <2>1, <2>3, <2>4 DEF OrderInv, ScanInv, SiftedInv
<1>6. CASE OutOfOrder(c)
  <2>1. /\ hpc[c] = "compare" /\ hpc'[c] = "swap"
        /\ dheapPriority[a[c]] > dheapPriority[b[c]]
        /\ UNCHANGED <<index, layer, min_child_index, a, b>>
    BY <1>6 DEF OutOfOrder, Goto, Set, HeapTypeInv, HeapTypeOK
  <2>2. dheapPriority[b[c]] < dheapPriority[a[c]]
    BY <2>1, Numbers DEF HeapTypeInv, LocalsInv
  <2>3. PairInv(c)'
    BY <1>1, <2>1, <2>2, SameOrder DEF OrderInv, PairInv
  <2>4. SiftInv(c)'
    BY <1>1, <2>1, SameOrder DEF OrderInv, SiftInv
  <2> QED BY <2>1, <2>3, <2>4 DEF OrderInv, ScanInv, SiftedInv
<1>7. CASE InOrder(c)
  <2>1. PICK k \in Pools : k = min_child_index[c] /\ hpc[c] = "compare"
    BY <1>7 DEF InOrder, Goto, HeapTypeInv, LocalsInv
  <2>2. /\ hpc'[c] = "scan" /\ SiftAt(c, k) /\ layer' = layer
        /\ dheapPriority[a[c]] <= dheapPriority[b[c]]
    BY <1>7, <2>1 DEF InOrder, Goto, Set, HeapTypeInv, HeapTypeOK
  <2>3. ScanInv(c)' /\ PairInv(c)' /\ index'[c] = k
    BY <2>2, SiftBegins
  <2>4. Prio(i) <= Prio(k)
    BY <1>2, <2>1, <2>2 DEF SwapInv, Prio
  <2>5. /\ k \in Children(i) /\ \A j \in Children(i) : Prio(k) <= Prio(j)
        /\ i >= l /\ \A x \in Pools : x >= l /\ x # i => OrderedAt(x)
    BY <1>2, <2>1 DEF OrderInv, PairInv, SiftInv
  <2>6. k >= l /\ k # i
    BY <2>5, ChildrenAbove, Numbers
  <2>7. OrderedAt(i)
    <3> SUFFICES ASSUME NEW j \in Children(i) PROVE Prio(i) <= Prio(j)
      BY DEF OrderedAt
    <3>1. j \in Pools /\ Prio(k) <= Prio(j)
      BY <2>5, ChildrenAbove
    <3> QED BY <2>4, <3>1, Numbers
  <2>8. \A j \in Children(k) : Prio(i) <= Prio(j)
    <3> TAKE j \in Children(k)
    <3>1. j \in Pools /\ Prio(k) <= Prio(j)
      BY <2>5, <2>6, ChildrenAbove DEF OrderedAt
    <3> QED BY <2>4, <3>1, Numbers
  <2>9. \A x \in Pools : k \in Children(x) => x = i
    BY <2>5, OneParent
  <2>10. SiftInv(c)'
    BY <1>1, <1>2, <2>2, <2>3, <2>5, <2>6, <2>7, <2>8, <2>9, SameOrder
    DEF SiftInv
  <2> QED BY <2>2, <2>3, <2>10 DEF OrderInv, SiftedInv
<1> QED BY <1>4, <1>5, <1>6, <1>7

(* The two stores of a swap.                                               *)
LEMMA OrderSwap ==
    ASSUME HeapTypeInv, NEW c \in Callers, SwapInv(c), OrderInv(c),
           SwapFirst(c) \/ SwapSecond(c)
    PROVE  OrderInv(c)'
<1>1. PICK i \in Pools, l \in Pools, k \in Pools :
        i = index[c] /\ l = layer[c] /\ k = min_child_index[c]
  BY DEF SwapFirst, SwapSecond, Goto, HeapTypeInv, HeapTypeOK, LocalsInv
<1>2. /\ hpc[c] \in {"swap", "swap2"} /\ a[c] \in Pools /\ b[c] \in Pools
      /\ dheapPriority' = dheapPriority /\ layer' = layer
  BY DEF SwapFirst, SwapSecond, Goto, HeapTypeInv, HeapTypeOK, LocalsInv
<1>3. /\ k \in Children(i) /\ \A j \in Children(i) : Prio(k) <= Prio(j)
      /\ i >= l /\ \A x \in Pools : x >= l /\ x # i => OrderedAt(x)
      /\ \A x \in Pools : x >= l /\ i \in Children(x)
            => \A j \in Children(i) : Prio(x) <= Prio(j)
      /\ dheapPriority[b[c]] < dheapPriority[a[c]]
      /\ Prio(k) = dheapPriority[b[c]]
  BY <1>1, <1>2 DEF OrderInv, PairInv, SiftInv, SwapInv, Prio
<1>4. k >= l /\ k # i
  BY <1>3, ChildrenAbove, Numbers
<1>5. \A x \in Pools : \A j \in Children(x) : j \in Pools /\ j # x
  BY ChildrenAbove, Numbers
<1>6. CASE SwapFirst(c)
  <2>1. /\ hpc'[c] = "swap2" /\ dheap' = [dheap EXCEPT ![i] = b[c]]
        /\ UNCHANGED <<index, min_child_index, a, b>>
    BY <1>1, <1>6 DEF SwapFirst, Goto, Set, HeapTypeInv, HeapTypeOK
  <2>2. \A x \in Pools : Prio(x)' = IF x = i THEN Prio(k) ELSE Prio(x)
    BY <1>2, <1>3, <2>1 DEF Prio, HeapTypeInv, HeapTypeOK
  <2>3. ASSUME NEW x \in Pools, x >= l, x # i, NEW j \in Children(x)
        PROVE  Prio(x)' <= Prio(j)'
    <3>1. CASE j = i
      BY <1>3, <2>2, <2>3, <3>1
    <3>2. CASE j # i
      BY <1>3, <1>5, <2>2, <2>3, <3>2 DEF OrderedAt
    <3> QED BY <3>1, <3>2
  <2>4. \A x \in Pools : x >= l /\ i \in Children(x)
            => \A j \in Children(i) : Prio(x)' <= Prio(j)'
    BY <1>3, <1>5, <2>2
  <2>5. SiftInv(c)'
    <3>1. index'[c] = i /\ layer'[c] = l
      BY <1>1, <1>2, <2>1
    <3>2. \A x \in Pools : x >= l /\ x # i => OrderedAt(x)'
      BY <2>3 DEF OrderedAt
    <3> QED BY <1>3, <2>4, <3>1, <3>2 DEF SiftInv
  <2>6. PairInv(c)'
    <3>1. \A j \in Children(i) : Prio(k)' <= Prio(j)'
      BY <1>3, <1>4, <1>5, <2>2
    <3>2. dheap'[i] = b[c]
      BY <2>1 DEF HeapTypeInv, HeapTypeOK
    <3> QED BY <1>1, <1>2, <1>3, <2>1, <3>1, <3>2 DEF PairInv
  <2> QED BY <2>1, <2>5, <2>6 DEF OrderInv, ScanInv, SiftedInv
<1>7. CASE SwapSecond(c)
  <2>1. /\ hpc[c] = "swap2" /\ hpc'[c] = "scan" /\ SiftAt(c, k)
        /\ dheap' = [dheap EXCEPT ![k] = a[c]]
    BY <1>1, <1>7 DEF SwapSecond, Goto, Set, HeapTypeInv, HeapTypeOK
  <2>2. ScanInv(c)' /\ PairInv(c)' /\ index'[c] = k
    BY <2>1, SiftBegins
  <2>3. \A x \in Pools :
            Prio(x)' = IF x = k THEN dheapPriority[a[c]] ELSE Prio(x)
    BY <1>2, <2>1 DEF Prio, HeapTypeInv, HeapTypeOK
  <2>4. Prio(i) = Prio(k)
    BY <1>1, <1>3, <2>1 DEF OrderInv, PairInv, Prio
  <2>5. ASSUME NEW x \in Pools, x >= l, x # k, NEW j \in Children(x)
        PROVE  Prio(x)' <= Prio(j)'
    <3>1. CASE x = i /\ j = k
      <4>1. Prio(x)' = dheapPriority[b[c]] /\ Prio(j)' = dheapPriority[a[c]]
        BY <1>3, <1>4, <2>3, <2>4, <3>1
      <4> QED BY <1>2, <1>3, <4>1, Numbers
    <3>2. CASE x = i /\ j # k
      BY <1>3, <1>4, <1>5, <2>3, <2>4, <3>2
    <3>3. CASE x # i
      <4>1. j # k
        BY <1>3, <3>3, OneParent
      <4> QED BY <1>3, <1>5, <2>3, <2>5, <3>3, <4>1 DEF OrderedAt
    <3> QED BY <3>1, <3>2, <3>3
  <2>6. \A x \in Pools : k \in Children(x) => x = i
    BY <1>3, OneParent
  <2>7. \A j \in Children(k) : Prio(i)' <= Prio(j)'
    BY <1>3, <1>4, <1>5, <2>3, <2>4 DEF OrderedAt
  <2>8. SiftInv(c)'
    <3>1. layer'[c] = l
      BY <1>1, <1>2
    <3>2. \A x \in Pools : x >= l /\ x # k => OrderedAt(x)'
      BY <2>5 DEF OrderedAt
    <3> QED BY <1>4, <2>2, <2>6, <2>7, <3>1, <3>2 DEF SiftInv
  <2> QED BY <2>1, <2>2, <2>8 DEF OrderInv, SiftedInv
<1> QED BY <1>6, <1>7

(* Nothing else touches the heap, and the priorities only with the note    *)
(* that they did not stand still.                                          *)
LEMMA OrderElsewhere ==
    ASSUME HeapTypeInv, NEW c \in Callers, OrderInv(c), still'[c],
           Callers = {c},
           \/ ChooseLeast(c) \/ ChooseGiven(c) \/ PoolFull(c)
           \/ LoadPriority(c) \/ StorePriority(c)
           \/ \E p \in Pools : PoolThread(p)
           \/ UNCHANGED vars
    PROVE  OrderInv(c)'
<1>1. CASE ChooseLeast(c) \/ ChooseGiven(c) \/ PoolFull(c) \/ LoadPriority(c)
           \/ StorePriority(c)
  <2>1. hpc'[c] \in {"load", "store", "idle"}
    BY <1>1
    DEF ChooseLeast, ChooseGiven, Assign, PoolFull, LoadPriority,
        StorePriority, Goto, Set, HeapTypeInv, HeapTypeOK
  <2> QED BY <2>1 DEF OrderInv, SiftInv, ScanInv, PairInv, SiftedInv
<1>2. CASE UNCHANGED <<dheap, dheapPriority, hpc, scanVars, a, b>>
  <2>1. Child(c)' = Child(c)
    BY <1>2 DEF Child
  <2> QED
    BY <1>2, <2>1, SameOrder DEF OrderInv, SiftInv, ScanInv, PairInv, SiftedInv
<1>3. CASE UNCHANGED vars
  BY <1>2, <1>3 DEF vars
<1>4. ASSUME NEW p \in Pools, PoolThread(p) PROVE OrderInv(c)'
  <2>1. \A v : SetPriority(p, v) => dheapPriority' = dheapPriority
    BY Zenon DEF SetPriority
  <2> QED
    BY <1>2, <1>4, <2>1 DEF PoolThread, TaskStarts, TaskEnds, FindsNone, NoTasks
<1> QED BY <1>1, <1>3, <1>4

(* A heap in order has its least priority at the root: the first position  *)
(* with less would have a parent with less.                                *)
LEMMA RootIsLeast ==
    ASSUME HeapTypeInv, \A i \in Pools : OrderedAt(i)
    PROVE  \A i \in Pools : Prio(0) <= Prio(i)
<1> DEFINE T == {i \in Pools : ~(Prio(0) <= Prio(i))}
<1> SUFFICES ASSUME T # {} PROVE FALSE
  OBVIOUS
<1>1. T \in SUBSET Nat
  BY HeapPoolsAssumption DEF Pools
<1>2. PICK x \in T : \A y \in T : x <= y
  BY <1>1, LeastNumber
<1>3. x # 0
  BY <1>2, Numbers, Positions
<1>4. PICK y \in Pools : x \in Children(y) /\ y < x
  BY <1>3, HasParent
<1>5. y \notin T
  BY <1>2, <1>4, Numbers
<1>6. Prio(0) <= Prio(y) /\ Prio(y) <= Prio(x)
  BY <1>4, <1>5 DEF OrderedAt
<1> QED BY <1>2, <1>4, <1>6, Numbers, Positions

(* With one thread submitting, if no pool thread changed a priority since  *)
(* schSubmitTask called schHeapify, the pool it takes from the root has    *)
(* the least priority of all, for any number of pools, any breadth, and    *)
(* whatever order earlier races left in dheap (heapify.c:12-62).           *)
THEOREM HeapifyFindsLeast ==
    ASSUME SoleCaller PROVE Spec => []LeastPriorityFirst
<1> PICK c : Callers = {c}
  BY DEF SoleCaller
<1> DEFINE Inv == /\ HeapTypeInv /\ SwapInv(c)
                  /\ still[c] => OrderInv(c)
<1>1. Init => Inv
  <2> SUFFICES ASSUME Init PROVE Inv
    OBVIOUS
  <2>1. hpc[c] = "idle" /\ \A p \in Pools : dheap[p] = p
    BY DEF Init
  <2>2. SwapInv(c)
    BY <2>1 DEF SwapInv, Complete
  <2>3. OrderInv(c)
    BY <2>1 DEF OrderInv, SiftInv, ScanInv, PairInv, SiftedInv
  <2> QED BY <2>2, <2>3, HeapTypeInit
<1>2. ASSUME Inv, [Next]_vars PROVE Inv'
  <2>1. HeapTypeInv' /\ SwapInv(c)'
    BY <1>2, KeepsPoolsStep
  <2> SUFFICES ASSUME still'[c] PROVE OrderInv(c)'
    BY <2>1
  <2>2. CASE Heapify(c)
    BY <1>2, <2>2, OrderHeapify
  <2>3. still[c] \/ Heapify(c)
    <3>1. CASE Submit(c) \/ \E p \in Pools : PoolThread(p)
      BY <3>1, Zenon
      DEF Submit, SmallerChild, TakeChild, SkipChild, LeafReached, FetchPair,
          OutOfOrder, InOrder, SwapFirst, SwapSecond, ChooseLeast,
          ChooseGiven, Assign, PoolFull, LoadPriority, StorePriority,
          SetPriority, PoolThread, TaskStarts, TaskEnds, FindsNone, NoTasks
    <3>2. CASE UNCHANGED vars
      BY <3>2, Zenon DEF vars
    <3> QED BY <1>2, <3>1, <3>2, ActiveAssumption DEF Next
  <2>4. ASSUME OrderInv(c), Submit(c) PROVE OrderInv(c)'
    BY <1>2, <2>4, OrderScan, OrderCompare, OrderSwap, OrderElsewhere DEF Submit
  <2>5. ASSUME OrderInv(c), (\E p \in Pools : PoolThread(p)) \/ UNCHANGED vars
        PROVE  OrderInv(c)'
    BY <1>2, <2>5, OrderElsewhere
  <2> QED BY <1>2, <2>2, <2>3, <2>4, <2>5, ActiveAssumption DEF Next
<1>3. Inv => LeastPriorityFirst
  <2> SUFFICES ASSUME Inv, hpc[c] = "choose", still[c], NEW p \in Pools
               PROVE  dheapPriority[dheap[0]] <= dheapPriority[p]
    BY DEF LeastPriorityFirst
  <2>1. PICK i \in Pools : dheap[i] = p
    BY DEF SwapInv, Complete
  <2>2. Prio(0) <= Prio(i)
    BY RootIsLeast DEF OrderInv, SiftedInv
  <2> QED BY <2>1, <2>2 DEF Prio
<1> HIDE DEF Inv
<1> QED BY <1>1, <1>2, <1>3, PTL DEF Spec

----------------------------------------------------------------------------
(* schHeapify goes forward.  The child that restoreDown has found, if any, *)
(* lies below the position it is at, whoever else writes to the heap.      *)
DownInv(c) ==
    (\/ hpc[c] \in {"scan", "take"} /\ min_child[c] # MAX
     \/ hpc[c] \in {"compare", "swap", "swap2"})
        => min_child_index[c] > index[c]

(* What the scan finds is a child, and the locals are the caller's own.    *)
LEMMA DownStep ==
    ASSUME HeapTypeInv, NEW c \in Callers, DownInv(c),
           \/ \E d \in Callers : Heapify(d) \/ Submit(d)
           \/ \E p \in Pools : PoolThread(p)
           \/ UNCHANGED vars
    PROVE  DownInv(c)'
<1> USE DEF HeapTypeInv, HeapTypeOK, Set, Goto
<1>1. CASE UNCHANGED <<hpc[c], index[c], min_child[c], min_child_index[c]>>
  BY <1>1 DEF DownInv
<1>2. CASE (\E p \in Pools : PoolThread(p)) \/ UNCHANGED vars
  BY <1>1, <1>2 DEF PoolThread, TaskStarts, TaskEnds, FindsNone, NoTasks, vars
<1>3. ASSUME NEW d \in Callers, d # c, Heapify(d) \/ Submit(d)
      PROVE  DownInv(c)'
  BY <1>1, <1>3
  DEF Heapify, Submit, SmallerChild, TakeChild, SkipChild, LeafReached,
      FetchPair, OutOfOrder, InOrder, SwapFirst, SwapSecond, ChooseLeast,
      ChooseGiven, Assign, PoolFull, LoadPriority, StorePriority, SiftAt
<1>4. CASE Heapify(c) \/ LeafReached(c) \/ InOrder(c) \/ SwapSecond(c)
  <2>1. hpc'[c] \in {"scan", "choose"} /\ min_child'[c] = MAX
    BY <1>4 DEF Heapify, LeafReached, InOrder, SwapSecond, SiftAt
  <2> QED BY <2>1 DEF DownInv
<1>5. CASE TakeChild(c)
  <2>1. /\ hpc[c] = "take" /\ index' = index
        /\ min_child_index'[c] = Child(c)
    BY <1>5 DEF TakeChild
  <2>2. Child(c) \in Children(index[c])
    BY <2>1 DEF LocalsInv, Child, Children
  <2>3. Child(c) > index[c]
    BY <2>2, ChildrenAbove
  <2> QED BY <2>1, <2>3 DEF DownInv
<1>6. CASE SmallerChild(c) \/ SkipChild(c) \/ FetchPair(c) \/ OutOfOrder(c)
           \/ SwapFirst(c)
  BY <1>6
  DEF SmallerChild, SkipChild, FetchPair, OutOfOrder, SwapFirst, DownInv
<1>7. CASE ChooseLeast(c) \/ ChooseGiven(c) \/ PoolFull(c) \/ LoadPriority(c)
           \/ StorePriority(c)
  BY <1>7
  DEF ChooseLeast, ChooseGiven, Assign, PoolFull, LoadPriority,
      StorePriority, DownInv
<1> QED BY <1>2, <1>3, <1>4, <1>5, <1>6, <1>7 DEF Submit

(* So each step of schHeapify is a step forward.                           *)
LEMMA AdvanceStep ==
    ASSUME HeapTypeInv, NEW c \in Callers, DownInv(c), Sifting(c), Submit(c)
    PROVE  hpc'[c] = "choose" \/ Advances(c)
<1> USE DEF HeapTypeInv, HeapTypeOK, Set, Goto, Stage
<1>1. /\ index[c] \in Int /\ layer[c] \in Int /\ nth[c] \in Int
  BY HeapPoolsAssumption, BreadthAssumption DEF Pools
<1>2. CASE SmallerChild(c) \/ FetchPair(c) \/ OutOfOrder(c) \/ SwapFirst(c)
  BY <1>2 DEF SmallerChild, FetchPair, OutOfOrder, SwapFirst, Advances
<1>3. CASE TakeChild(c) \/ SkipChild(c)
  BY <1>1, <1>3 DEF TakeChild, SkipChild, Advances
<1>4. CASE LeafReached(c)
  BY <1>1, <1>4 DEF LeafReached, Advances
<1>5. CASE InOrder(c) \/ SwapSecond(c)
  <2>1. index'[c] = min_child_index[c] /\ layer' = layer
    BY <1>5 DEF InOrder, SwapSecond, SiftAt
  <2>2. min_child_index[c] > index[c]
    BY <1>5 DEF InOrder, SwapSecond, DownInv
  <2> QED BY <2>1, <2>2 DEF Advances
<1>6. CASE ChooseLeast(c) \/ ChooseGiven(c) \/ PoolFull(c) \/ LoadPriority(c)
           \/ StorePriority(c)
  BY <1>6
  DEF ChooseLeast, ChooseGiven, Assign, PoolFull, LoadPriority,
      StorePriority, Sifting
<1> QED BY <1>2, <1>3, <1>4, <1>5, <1>6 DEF Submit

(* For any number of pools and submitting threads and any breadth, while   *)
(* the priorities and, with several submitters, the heap itself change:    *)
(* every step of schHeapify makes progress in an order that is bounded by  *)
(* HeapTypeOK, so that the loop of restoreDown cannot go in circles        *)
(* (heapify.c:17-51, 58-60).                                               *)
THEOREM HeapifyMovesOn == Spec => HeapifyAdvances
<1> DEFINE Inv == HeapTypeInv /\ \A c \in Callers : DownInv(c)
           Forward == \A c \in Callers :
                         Sifting(c) /\ Submit(c)
                            => hpc'[c] = "choose" \/ Advances(c)
<1>1. Init => Inv
  <2> SUFFICES ASSUME Init PROVE \A c \in Callers : DownInv(c)
    BY HeapTypeInit
  <2> QED BY DEF Init, DownInv
<1>2. ASSUME Inv, [Next]_vars PROVE Inv'
  <2>1. \A c \in Callers : DownInv(c)'
    BY <1>2, DownStep, ActiveAssumption DEF Next
  <2> QED BY <1>2, <2>1, HeapTypeStep
<1>3. Inv => Forward
  BY AdvanceStep
<1>4. Inv /\ [Next]_vars => [Forward]_vars
  BY <1>3
<1> HIDE DEF Inv
<1>5. Spec => [][Forward]_vars
  BY <1>1, <1>2, <1>4, PTL DEF Spec
<1> QED BY <1>5 DEF HeapifyAdvances

=============================================================================
