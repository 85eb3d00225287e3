------------------------ MODULE TaskSchQueueProofs --------------------------
(***************************************************************************)
(* What is in the rings: the queues hold the accepted packages in order,   *)
(* which slot a pool thread works on and when it is overwritten, and the   *)
(* scheduler implements PoolSpec.  schSubmitTask checks the size of a      *)
(* queue outside the lock, so each theorem names the discipline under      *)
(* which what was checked is still true at the enqueue.                    *)
(***************************************************************************)
EXTENDS TaskSchLifecycleProofs, SequenceTheorems

(* An application that keeps no more packages unfinished at a pool than    *)
(* the queue has slots, from any number of threads.                        *)
Disciplined == SoleRunner /\ Outstanding <= Reserved

(* The counters, the accounts and the room for what is about to be         *)
(* enqueued.                                                               *)
CountInv == TypeInv /\ RingConsistent /\ CreateInv /\ AccountInv /\ ClaimInv

(* The slot a pool thread works on is the one before the head.             *)
SlotInv == \A p \in Pools : Holds(p) => head[p] = Advance(cur[p])

(* A disciplined application leaves room for the package in progress too.  *)
HeldRoomInv ==
    \A c \in Clients :
        cpc[c] = "enqueue" /\ Holds(cidx[c]) => size[cidx[c]] + 1 < Reserved

USE DEF ringVars, execVars, callVars, clientVars, poolVars, schVars, foreign,
        Full, Passed, Asleep, AllJoined, ClearRunning, AfterSignal

----------------------------------------------------------------------------
(* Whoever is about to enqueue counts among the unfinished packages.       *)
LEMMA RoomLeft ==
    ASSUME Outstanding <= Reserved, TypeInv, AccountInv, UnfinishedInv
    PROVE  ClaimInv /\ HeldRoomInv
<1> SUFFICES ASSUME NEW c \in Clients, cpc[c] = "enqueue"
             PROVE  /\ size[cidx[c]] < Reserved
                    /\ Holds(cidx[c]) => size[cidx[c]] + 1 < Reserved
  BY DEF ClaimInv, HeldRoomInv
<1>1. PICK q \in Pools : q = cidx[c]
  BY DEF TypeInv, IndexInv
<1>2. Len(acc[q]) \in Nat /\ Len(ran[q]) \in Nat /\ size[q] \in Nat
  BY DEF TypeInv, TypeOK
<1>3. PICK k \in Nat : k = Cardinality(Submitters(q))
  BY SubmittersFinite
<1>4. k # 0
  <2>1. c \in Submitters(q)
    BY <1>1 DEF Submitters
  <2> QED BY <1>3, <2>1, SubmittersFinite, FS_EmptySet
<1>5. Len(acc[q]) - Len(ran[q]) + k <= Outstanding
  BY <1>3 DEF UnfinishedInv, Unfinished
<1>6. Len(acc[q]) = Len(ran[q]) + size[q] + (IF Holds(q) THEN 1 ELSE 0)
  BY DEF AccountInv
<1>7. CASE Holds(q)
  BY <1>1, <1>2, <1>4, <1>5, <1>6, <1>7, OutstandingAssumption,
     ReservedAssumption, SMTT(30)
<1>8. CASE ~Holds(q)
  BY <1>1, <1>2, <1>4, <1>5, <1>6, <1>8, OutstandingAssumption,
     ReservedAssumption
<1> QED BY <1>7, <1>8

(* The counters agree and there is room, for one client or a disciplined   *)
(* application.                                                            *)
LEMMA CountInvariant ==
    ASSUME SoleClient \/ Disciplined
    PROVE  Spec => []CountInv
<1>1. SoleRunner
  BY DEF SoleClient, SoleRunner, Disciplined
<1>2. TypeInv /\ CreateInv /\ [Next]_vars => CreateInv'
  BY <1>1, CreateStep
<1>3. CASE SoleClient
  <2>1. TypeInv /\ ClaimInv /\ QueueBound /\ [Next]_vars
          => ClaimInv' /\ QueueBound'
    BY <1>3, ClaimStep
  <2>2. Init => ClaimInv /\ QueueBound
    BY ReservedAssumption DEF Init, ClaimInv, QueueBound
  <2> QED
    BY <1>2, <2>1, <2>2, RingInit, RingStep, TypeInit, TypeStep, AccountInit,
       AccountStep, PTL
    DEF Spec, CountInv
<1>4. CASE Disciplined
  <2>1. TypeInv /\ AccountInv /\ UnfinishedInv => ClaimInv
    BY <1>4, RoomLeft DEF Disciplined
  <2> QED
    BY <1>2, <2>1, UnfinishedInit, UnfinishedStep, RingInit, RingStep,
       TypeInit, TypeStep, AccountInit, AccountStep, PTL
    DEF Spec, CountInv
<1> QED BY <1>3, <1>4

----------------------------------------------------------------------------
(* Holding a package.                                                      *)

(* A pool thread starts to hold a package by a dequeue only, and while it  *)
(* holds one it keeps its pointer.                                         *)
LEMMA HoldFrame ==
    ASSUME CountInv, [Next]_vars, NEW p \in Pools, Holds(p)'
    PROVE  \/ ExecDequeue(p)
           \/ Holds(p) /\ cur'[p] = cur[p] /\ head'[p] = head[p] /\ ran'[p] = ran[p]
<1>0. TypeInv
  BY DEF CountInv
<1> USE <1>0 DEF Holds
<1>1. ASSUME NEW q \in Pools, Executor(q)
      PROVE  \/ ExecDequeue(p)
             \/ Holds(p) /\ cur'[p] = cur[p] /\ head'[p] = head[p] /\ ran'[p] = ran[p]
  <2>1. CASE ExecDequeue(q)
    BY <2>1 DEF ExecDequeue, Exec, Dequeue, TypeInv, TypeOK
  <2>2. CASE ExecFetch(q)
    BY <2>2 DEF ExecFetch, Exec, TypeInv, TypeOK
  <2>3. CASE ExecReturn(q)
    BY <2>3 DEF ExecReturn, Exec, TypeInv, TypeOK
  <2>4. CASE ~Holds(q)' /\ UNCHANGED <<ringVars, ran>>
    <3>1. q # p
      BY <2>4
    <3>2. pc'[p] = pc[p]
      <4>1. pc' = [pc EXCEPT ![q] = pc'[q]]
        BY <1>1, ExecutorFrame
      <4> QED BY <3>1, <4>1 DEF TypeInv, TypeOK
    <3>3. cur' = cur
      BY <1>1, <2>4
      DEF Executor, ExecStart, ExecLoop, ExecDequeue, ExecFetch, ExecReturn,
          ExecIdle, ExecIdleAgain, ExecReport, ExecWait, ExecWake, ExecExit, Exec,
          TypeInv, TypeOK
    <3> QED BY <2>4, <3>2, <3>3
  <2> QED BY <1>1, <2>1, <2>2, <2>3, <2>4, ExecutorFrame
<1>2. ASSUME NEW c \in Clients, Proceed(c) \/ Begin(c)
      PROVE  Holds(p) /\ cur'[p] = cur[p] /\ head'[p] = head[p] /\ ran'[p] = ran[p]
  <2>1. CASE RunCreate(c)
    BY <2>1 DEF RunCreate, schCreateThread, TypeInv, TypeOK
  <2>2. CASE TerminateJoin(c)
    BY <2>2 DEF TerminateJoin, schWaitThread, TypeInv, TypeOK
  <2>3. CASE SubmitEnqueue(c)
    BY <2>3 DEF SubmitEnqueue, Enqueue
  <2> QED BY <1>2, <2>1, <2>2, <2>3, ClientFrame
<1> QED BY <1>1, <1>2 DEF Next, AfterRelease, vars

(* Only an enqueue writes a slot.                                          *)
LEMMA WriteFrame ==
    ASSUME CountInv, [Next]_vars
    PROVE  \/ \E c \in Clients : SubmitEnqueue(c)
           \/ \E p \in Pools : ExecDequeue(p)
           \/ UNCHANGED ringVars
<1>1. ASSUME NEW p \in Pools, Executor(p)
      PROVE  ExecDequeue(p) \/ UNCHANGED ringVars
  BY <1>1, ExecutorFrame DEF ExecFetch, ExecReturn, CountInv
<1>2. ASSUME NEW c \in Clients, Proceed(c) \/ Begin(c)
      PROVE  SubmitEnqueue(c) \/ UNCHANGED ringVars
  BY <1>2, ClientFrame DEF RunCreate, TerminateJoin, CountInv
<1> QED BY <1>1, <1>2 DEF Next, AfterRelease, vars

(* What an enqueue does to the ring of its pool, and to no other.          *)
LEMMA EnqueueEffect ==
    ASSUME CountInv, NEW c \in Clients, SubmitEnqueue(c), NEW q, q = cidx[c]
    PROVE  /\ q \in Pools /\ cpc[c] = "enqueue"
           /\ size[q] \in 0 .. Reserved - 1 /\ tail[q] \in Slots
           /\ tail[q] = (head[q] + size[q]) % Reserved
           /\ package' = [package EXCEPT ![q][tail[q]] = job[c]]
           /\ size' = [size EXCEPT ![q] = size[q] + 1]
           /\ acc' = [acc EXCEPT ![q] = Append(acc[q], job[c])]
           /\ job[c] \in Nat
           /\ UNCHANGED <<head, pc, cur, callback, ran>>
<1>1. q \in Pools /\ cpc[c] = "enqueue"
  BY DEF SubmitEnqueue, Goto, CountInv, TypeInv, IndexInv
<1>2. size[q] \in 0 .. Reserved - 1
  BY <1>1, ReservedAssumption DEF CountInv, ClaimInv, TypeInv, TypeOK
<1>3. tail[q] = (head[q] + size[q]) % Reserved
  BY <1>1 DEF CountInv, RingConsistent
<1> QED
  BY <1>1, <1>2, <1>3 DEF SubmitEnqueue, Enqueue, CountInv, TypeInv, TypeOK

(* The pointer of a pool thread stays one slot behind the head.            *)
LEMMA SlotStep ==
    ASSUME CountInv, SlotInv, [Next]_vars
    PROVE  SlotInv'
<1> SUFFICES ASSUME NEW p \in Pools, Holds(p)'
             PROVE  head'[p] = Advance(cur'[p])
  BY DEF SlotInv, Advance
<1>1. CASE ExecDequeue(p)
  BY <1>1 DEF ExecDequeue, Dequeue, CountInv, TypeInv, TypeOK
<1> QED BY <1>1, HoldFrame DEF SlotInv

(* A package in progress is overwritten by an enqueue only if that fills   *)
(* the queue.                                                              *)
LEMMA OverwriteStep ==
    ASSUME CountInv, SlotInv, [Next]_vars, NEW p \in Pools, Holds(p),
           package'[p][cur[p]] # package[p][cur[p]]
    PROVE  /\ size'[p] = Reserved /\ size[p] = Reserved - 1
           /\ \E c \in Clients : cpc[c] = "enqueue" /\ cidx[c] = p
<1>1. PICK c \in Clients : SubmitEnqueue(c)
  BY WriteFrame DEF ExecDequeue, Dequeue
<1> DEFINE q == cidx[c]
<1>2. /\ q \in Pools /\ cpc[c] = "enqueue"
      /\ size[q] \in 0 .. Reserved - 1 /\ tail[q] \in Slots
      /\ tail[q] = (head[q] + size[q]) % Reserved
      /\ package' = [package EXCEPT ![q][tail[q]] = job[c]]
      /\ size' = [size EXCEPT ![q] = size[q] + 1]
  BY <1>1, EnqueueEffect
<1>a. q = cidx[c]
  OBVIOUS
<1> HIDE DEF q
<1>3. /\ package \in [Pools -> [Slots -> Nat]] /\ size \in [Pools -> Nat]
      /\ cur[p] \in Slots
  BY DEF CountInv, TypeInv, TypeOK
<1>4. p = q /\ cur[p] = tail[p]
  BY <1>2, <1>3
<1>5. (((cur[p] + 1) % Reserved) + size[p]) % Reserved = cur[p]
  BY <1>2, <1>4 DEF SlotInv, Advance
<1>6. size[p] = Reserved - 1
  BY <1>2, <1>3, <1>4, <1>5, ModLastSlot, ReservedAssumption DEF Slots
<1> QED BY <1>2, <1>3, <1>4, <1>6, <1>a, ReservedAssumption

(* The state schCreateTaskPool leaves behind.                              *)
LEMMA QueueInit == Init => SlotInv /\ QueueIntact /\ HeldPackageIntact
  BY DEF Init, SlotInv, QueueIntact, HeldPackageIntact, Holds

(* The package whose callback runs is overwritten in its slot only when an *)
(* enqueue fills the queue, although the dequeue at taskSch.c:423 has      *)
(* given the slot back before the callback starts.                         *)
THEOREM OverwriteNeedsFullQueue ==
    ASSUME SoleClient \/ Disciplined
    PROVE  Spec => OverwriteOnlyWhenFull
<1>1. CountInv /\ SlotInv /\ [Next]_vars =>
        [\A p \in Pools :
            (Holds(p) /\ package'[p][cur[p]] # package[p][cur[p]])
                => size'[p] = Reserved]_vars
  BY OverwriteStep
<1> QED
  BY <1>1, QueueInit, CountInvariant, SlotStep, PTL
  DEF Spec, OverwriteOnlyWhenFull

----------------------------------------------------------------------------
(* The contents of the queues.                                             *)

(* The i-th package of the queue of p is the one it should be.             *)
InPlace(p, i) ==
    package[p][(head[p] + i - 1) % Reserved]
        = acc[p][Len(acc[p]) - size[p] + i]

(* QueueIntact is about the slots.                                         *)
LEMMA QueueSlots ==
    QueueIntact <=> \A p \in Pools : \A i \in 1 .. size[p] : InPlace(p, i)
  BY DEF QueueIntact, Contents, InPlace

(* The lengths that the indices are computed from.                         *)
LEMMA Lengths ==
    ASSUME CountInv, NEW p \in Pools
    PROVE  /\ size[p] \in Nat /\ Len(acc[p]) \in Nat /\ Len(ran[p]) \in Nat
           /\ acc[p] \in Seq(Nat)
           /\ head[p] \in 0 .. Reserved - 1
           /\ Len(acc[p]) >= Len(ran[p]) + size[p]
           /\ Holds(p) => Len(acc[p]) = Len(ran[p]) + size[p] + 1
           /\ ~Holds(p) => Len(acc[p]) = Len(ran[p]) + size[p]
<1>1. /\ size[p] \in Nat /\ Len(acc[p]) \in Nat /\ Len(ran[p]) \in Nat
      /\ acc[p] \in Seq(Nat) /\ head[p] \in 0 .. Reserved - 1
  BY DEF CountInv, TypeInv, TypeOK, Slots
<1>2. Len(acc[p]) = Len(ran[p]) + size[p] + (IF Holds(p) THEN 1 ELSE 0)
  BY DEF CountInv, AccountInv
<1> QED BY <1>1, <1>2

(* A dequeue moves every package up by one place.                          *)
LEMMA IntactDequeue ==
    ASSUME CountInv, QueueIntact, NEW p \in Pools, ExecDequeue(p)
    PROVE  QueueIntact'
<1>1. /\ size' = [size EXCEPT ![p] = size[p] - 1]
      /\ head' = [head EXCEPT ![p] = (head[p] + 1) % Reserved]
      /\ UNCHANGED <<package, acc>>
  BY DEF ExecDequeue, Dequeue, Advance
<1>2. size \in [Pools -> Nat] /\ head \in [Pools -> Slots]
  BY DEF CountInv, TypeInv, TypeOK
<1> SUFFICES ASSUME NEW q \in Pools, NEW i \in 1 .. size'[q]
             PROVE  package'[q][(head'[q] + i - 1) % Reserved]
                         = acc'[q][Len(acc'[q]) - size'[q] + i]
  BY DEF QueueIntact, Contents
<1>3. CASE q # p
  <2>1. size'[q] = size[q] /\ head'[q] = head[q]
    BY <1>1, <1>2, <1>3
  <2> QED BY <1>1, <2>1, QueueSlots DEF InPlace
<1>4. CASE q = p
  <2>1. size'[p] = size[p] - 1 /\ head'[p] = (head[p] + 1) % Reserved
    BY <1>1, <1>2
  <2>2. size[p] \in Nat /\ Len(acc[p]) \in Nat /\ head[p] \in 0 .. Reserved - 1
    BY Lengths
  <2>3. i \in Nat \ {0} /\ i + 1 \in 1 .. size[p]
    BY <1>4, <2>1, <2>2
  <2>4. (((head[p] + 1) % Reserved) + (i - 1)) % Reserved = (head[p] + i) % Reserved
    BY <2>2, <2>3, ModDequeue, ReservedAssumption
  <2>5. PICK k \in Nat : k = (head[p] + 1) % Reserved
    BY <2>2, ReservedAssumption, DivMod, SMTT(30)
  <2>6. /\ k + i - 1 = k + (i - 1)
        /\ head[p] + (i + 1) - 1 = head[p] + i
        /\ Len(acc[p]) - size[p] + (i + 1) = Len(acc[p]) - (size[p] - 1) + i
    BY <2>2, <2>3
  <2>7. InPlace(p, i + 1)
    BY <2>3, QueueSlots
  <2> QED BY <1>1, <1>4, <2>1, <2>4, <2>5, <2>6, <2>7 DEF InPlace
<1> QED BY <1>3, <1>4

(* An enqueue puts its package behind the others and overwrites none.      *)
LEMMA IntactEnqueue ==
    ASSUME CountInv, QueueIntact, NEW c \in Clients, SubmitEnqueue(c)
    PROVE  QueueIntact'
<1> DEFINE q == cidx[c]
<1>1. /\ q \in Pools
      /\ size[q] \in 0 .. Reserved - 1 /\ tail[q] \in Slots
      /\ tail[q] = (head[q] + size[q]) % Reserved
      /\ package' = [package EXCEPT ![q][tail[q]] = job[c]]
      /\ size' = [size EXCEPT ![q] = size[q] + 1]
      /\ acc' = [acc EXCEPT ![q] = Append(acc[q], job[c])]
      /\ job[c] \in Nat /\ head' = head
  BY EnqueueEffect
<1> HIDE DEF q
<1>2. /\ package \in [Pools -> [Slots -> Nat]] /\ size \in [Pools -> Nat]
      /\ acc \in [Pools -> Seq(Nat)]
  BY DEF CountInv, TypeInv, TypeOK
<1> SUFFICES ASSUME NEW p \in Pools, NEW i \in 1 .. size'[p]
             PROVE  package'[p][(head'[p] + i - 1) % Reserved]
                         = acc'[p][Len(acc'[p]) - size'[p] + i]
  BY DEF QueueIntact, Contents
<1>3. CASE p # q
  <2>1. size'[p] = size[p] /\ package'[p] = package[p] /\ acc'[p] = acc[p]
    BY <1>1, <1>2, <1>3
  <2> QED BY <1>1, <2>1, QueueSlots DEF InPlace
<1>4. CASE p = q
  <2> DEFINE n == Len(acc[q])
             s == size[q]
             h == head[q]
  <2>1. /\ s \in 0 .. Reserved - 1 /\ n \in Nat /\ h \in 0 .. Reserved - 1
        /\ n >= s /\ size'[q] = s + 1 /\ head'[q] = h
        /\ acc[q] \in Seq(Nat)
    <3>1. size'[q] = s + 1 /\ head'[q] = h
      BY <1>1, <1>2
    <3>2. /\ n \in Nat /\ s \in Nat /\ h \in 0 .. Reserved - 1 /\ acc[q] \in Seq(Nat)
          /\ n >= Len(ran[q]) + s /\ Len(ran[q]) \in Nat
      BY <1>1, Lengths
    <3> QED BY <1>1, <3>1, <3>2
  <2>2. acc'[q] = Append(acc[q], job[c])
    BY <1>1, <1>2
  <2>3. /\ Len(acc'[q]) = n + 1 /\ acc'[q][n + 1] = job[c]
        /\ \A k \in 1 .. n : acc'[q][k] = acc[q][k]
    BY <1>1, <2>1, <2>2
  <2>4. /\ package'[q][tail[q]] = job[c]
        /\ \A k \in Slots : k # tail[q] => package'[q][k] = package[q][k]
    BY <1>1, <1>2
  <2>5. tail[q] = (h + s) % Reserved
    BY <1>1
  <2>6. i \in 1 .. s + 1
    BY <1>4, <2>1
  <2> HIDE DEF n, s, h
  <2>7. CASE i = s + 1
    <3>1. h + i - 1 = h + s /\ (n + 1) - (s + 1) + i = n + 1
      BY <2>1, <2>7
    <3> QED BY <1>4, <2>1, <2>3, <2>4, <2>5, <3>1
  <2>8. CASE i \in 1 .. s
    <3>1. i - 1 \in 0 .. Reserved - 1 /\ i - 1 < s /\ h \in Nat
      BY <2>1, <2>8, ReservedAssumption
    <3>2. (h + (i - 1)) % Reserved # (h + s) % Reserved
      BY <2>1, <3>1, ModDistinct, ReservedAssumption
    <3>3. h + i - 1 = h + (i - 1) /\ h + (i - 1) \in Nat
      BY <2>1, <2>8
    <3>4. (h + i - 1) % Reserved \in Slots
      BY <3>3, DivMod, ReservedAssumption DEF Slots
    <3>5. package'[q][(h + i - 1) % Reserved] = package[q][(h + i - 1) % Reserved]
      BY <2>4, <2>5, <3>2, <3>3, <3>4
    <3>6. package[q][(h + i - 1) % Reserved] = acc[q][n - s + i]
      BY <1>1, <2>8, QueueSlots DEF InPlace, n, s, h
    <3>7. (n + 1) - (s + 1) + i = n - s + i /\ n - s + i \in 1 .. n
      BY <2>1, <2>8
    <3> QED BY <1>4, <2>1, <2>3, <3>5, <3>6, <3>7
  <2> QED BY <2>6, <2>7, <2>8, <2>1
<1> QED BY <1>3, <1>4

(* Every step keeps the queues intact.                                     *)
LEMMA IntactStep ==
    ASSUME CountInv, QueueIntact, [Next]_vars
    PROVE  QueueIntact'
<1>1. CASE UNCHANGED ringVars
  BY <1>1 DEF QueueIntact, Contents
<1> QED BY <1>1, WriteFrame, IntactDequeue, IntactEnqueue

(* At every moment a queue holds the packages its pool accepted last, each *)
(* in its place and in the order of submission, whatever the pool thread   *)
(* does meanwhile and however often the ring has wrapped around.           *)
THEOREM QueueKeepsPackages ==
    ASSUME SoleClient \/ Disciplined
    PROVE  Spec => []QueueIntact
  BY QueueInit, CountInvariant, IntactStep, PTL DEF Spec

(* What a pool has accepted is never forgotten.                            *)
LEMMA AcceptedGrows ==
    ASSUME CountInv, [Next]_vars, NEW p \in Pools, NEW k \in 1 .. Len(acc[p])
    PROVE  acc'[p][k] = acc[p][k]
<1>1. ASSUME NEW c \in Clients, SubmitEnqueue(c) PROVE acc'[p][k] = acc[p][k]
  <2> DEFINE q == cidx[c]
  <2>1. q \in Pools /\ job[c] \in Nat
        /\ acc' = [acc EXCEPT ![q] = Append(acc[q], job[c])]
    BY <1>1, EnqueueEffect
  <2>2. acc \in [Pools -> Seq(Nat)]
    BY DEF CountInv, TypeInv, TypeOK
  <2> HIDE DEF q
  <2>3. acc'[p] = acc[p] \/ acc'[p] = Append(acc[p], job[c])
    BY <2>1, <2>2
  <2> QED BY <2>1, <2>2, <2>3
<1> QED BY <1>1, WriteFrame DEF ExecDequeue, Dequeue

(* The package a pool thread has just taken is the next one in order, and  *)
(* a disciplined application overwrites it before the callback returns in  *)
(* no step.                                                                *)
LEMMA HeldStep ==
    ASSUME CountInv, SlotInv, QueueIntact, HeldRoomInv, HeldPackageIntact,
           [Next]_vars
    PROVE  HeldPackageIntact'
<1> SUFFICES ASSUME NEW p \in Pools, Holds(p)'
             PROVE  package'[p][cur'[p]] = acc'[p][Len(ran'[p]) + 1]
  BY DEF HeldPackageIntact
<1>1. CASE ExecDequeue(p)
  <2>1. /\ cur'[p] = head[p] /\ UNCHANGED <<package, acc, ran>>
        /\ ~Holds(p) /\ size[p] > 0
    BY <1>1 DEF ExecDequeue, Exec, Dequeue, Holds, CountInv, TypeInv, TypeOK,
                DequeueInv
  <2>2. /\ size[p] \in Nat /\ Len(ran[p]) \in Nat /\ head[p] \in 0 .. Reserved - 1
        /\ Len(acc[p]) = Len(ran[p]) + size[p]
    BY <2>1, Lengths
  <2>3. InPlace(p, 1)
    BY <2>1, <2>2, QueueSlots
  <2>4. (head[p] + 1 - 1) % Reserved = head[p]
    <3>1. head[p] + 1 - 1 = head[p]
      BY <2>2
    <3> QED BY <2>2, <3>1, ModSmall, ReservedAssumption
  <2>5. Len(acc[p]) - size[p] + 1 = Len(ran[p]) + 1
    BY <2>2
  <2> QED BY <2>1, <2>3, <2>4, <2>5 DEF InPlace
<1>2. CASE Holds(p) /\ cur'[p] = cur[p] /\ ran'[p] = ran[p]
  <2>1. package'[p][cur[p]] = package[p][cur[p]]
    <3> SUFFICES ASSUME package'[p][cur[p]] # package[p][cur[p]] PROVE FALSE
      OBVIOUS
    <3>1. PICK c \in Clients : cpc[c] = "enqueue" /\ cidx[c] = p
      BY <1>2, OverwriteStep
    <3>2. size[p] = Reserved - 1
      BY <1>2, OverwriteStep
    <3>3. size[p] + 1 < Reserved
      BY <1>2, <3>1 DEF HeldRoomInv
    <3> QED BY <3>2, <3>3, ReservedAssumption
  <2>2. Len(ran[p]) + 1 \in 1 .. Len(acc[p])
    BY <1>2, Lengths
  <2>3. acc'[p][Len(ran[p]) + 1] = acc[p][Len(ran[p]) + 1]
    BY <2>2, AcceptedGrows
  <2> QED BY <1>2, <2>1, <2>3 DEF HeldPackageIntact
<1> QED BY <1>1, <1>2, HoldFrame

(* With a disciplined application the package a callback was given stays   *)
(* the one that was dequeued until the callback returns, and it is the     *)
(* next one in the order of submission.                                    *)
THEOREM HeldPackageStays ==
    ASSUME Disciplined PROVE Spec => []HeldPackageIntact
<1>1. TypeInv /\ AccountInv /\ UnfinishedInv => HeldRoomInv
  BY RoomLeft DEF Disciplined
<1>2. CountInv => TypeInv /\ AccountInv
  BY DEF CountInv
<1>3. Spec => []CountInv
  BY CountInvariant
<1> QED
  BY <1>1, <1>2, <1>3, QueueInit, SlotStep, IntactStep, HeldStep,
     UnfinishedInit, UnfinishedStep, PTL
  DEF Spec

----------------------------------------------------------------------------
(* The promise of PoolSpec.  A pool accepts a package while it has a       *)
(* thread, and loses its thread when nothing is left.                      *)

ServeInv ==
    \A c \in Clients :
        /\ cpc[c] = "enqueue" => pc[cidx[c]] # "none"
        /\ cpc[c] = "join" => size[cidx[c]] = 0

JobInv == \A c \in Clients : cpc[c] = "enqueue" => job[c] \in 1 .. MaxTasks

(* A package gets its number when the call begins.                         *)
LEMMA JobStep ==
    ASSUME TypeInv, JobInv, [Next]_vars
    PROVE  JobInv'
<1>1. ASSUME NEW p \in Pools, Executor(p) PROVE JobInv'
  BY <1>1, ExecutorFrame DEF JobInv
<1>2. ASSUME NEW c \in Clients, NEW p \in Pools, SubmitCall(c, p) PROVE JobInv'
  <2>1. issued + 1 \in 1 .. MaxTasks
    BY <1>2, BoundsAssumption DEF SubmitCall, TypeInv, TypeOK
  <2> QED
    BY <1>2, <2>1 DEF SubmitCall, Call, Goto, JobInv, TypeInv, TypeOK
<1>3. ASSUME NEW c \in Clients, Proceed(c) \/ Begin(c) PROVE JobInv'
  <2>1. CASE \E p \in Pools : SubmitCall(c, p)
    BY <1>2, <2>1
  <2>2. CASE job' = job /\ cpc'[c] # "enqueue"
    BY <1>3, <2>2, ClientFrame DEF JobInv
  <2>3. CASE Proceed(c) /\ ~\E p \in Pools : SubmitCall(c, p)
    <3>1. job' = job
      BY <2>3
      DEF Proceed, RunCreate, RunCreateFails, RunCreated, RunRaise, RunReturn,
          SubmitEnqueue, SubmitSize, SubmitFlag, SubmitRaise, WaitGate,
          WaitFlag, WaitPoll, WaitSize, WaitReturn, StopRaise, StopReturn,
          TerminateKill, TerminateJoin, TerminateReturn, ReleaseFree, vars
    <3>2. cpc'[c] # "enqueue"
      BY <1>3, <2>3, EnqueueFrame DEF SubmitEnqueue, Goto, TypeInv, TypeOK
    <3> QED BY <2>2, <3>1, <3>2
  <2>4. CASE Begin(c) /\ ~\E p \in Pools : SubmitCall(c, p)
    BY <2>2, <2>4
    DEF Begin, RunCall, WaitCall, StopCall, ReleaseCall, Call, Goto, TypeInv,
        TypeOK
  <2> QED BY <1>3, <2>1, <2>3, <2>4
<1>4. CASE UNCHANGED vars
  BY <1>4 DEF vars, JobInv
<1> QED BY <1>1, <1>3, <1>4 DEF Next, AfterRelease

(* One client: the phase it is in tells.                                   *)
LEMMA ServeSoleClient == LifecycleInv => ServeInv
<1> SUFFICES ASSUME LifecycleInv, NEW c \in Clients
             PROVE  /\ cpc[c] = "enqueue" => pc[cidx[c]] # "none"
                    /\ cpc[c] = "join" => size[cidx[c]] = 0
  BY DEF ServeInv
<1>1. cpc[c] \in {"enqueue", "join"} => cidx[c] \in Pools
  BY DEF LifecycleInv, TypeInv, IndexInv
<1>2. Phase(c)
  BY DEF LifecycleInv, PhaseInv
<1> QED
  BY <1>1, <1>2 DEF Phase, RunningInv, AliveInv, EmptyInv, Terminating

----------------------------------------------------------------------------
(* The other case: several threads that submit, wait and stop, and none    *)
(* that shuts the scheduler down.                                          *)
NoShutdownCalls ==
    \A c \in Clients : Calls[c] \cap {"terminate", "release"} = {}

StayInv ==
    /\ Running => \A p \in Pools : pc[p] # "none"
    /\ \A c \in Clients :
          /\ cpc[c] \notin {"kill", "join", "free", "released"}
          /\ cpc[c] \in {"gate", "scan", "scansize"} => op[c] = "wait"
          /\ cpc[c] = "enqueue" => Running
          /\ cpc[c] = "start" => \A p \in Pools : pc[p] # "none"
          /\ cpc[c] = "create" => \A p \in Pools : p < cidx[c] => pc[p] # "none"

(* Nobody takes a thread away.                                             *)
LEMMA StayStep ==
    ASSUME NoShutdownCalls, TypeInv, StayInv, [Next]_vars
    PROVE  StayInv'
<1>1. ASSUME NEW p \in Pools, Executor(p) PROVE StayInv'
  BY <1>1, ExecutorFrame DEF StayInv, Running, TypeInv, TypeOK
<1>2. ASSUME NEW c \in Clients, RunCreate(c) PROVE StayInv'
  <2>1. PICK q \in Pools : q = cidx[c] /\ cpc[c] = "create"
    BY <1>2, Indices DEF RunCreate, Goto, TypeInv, TypeOK
  <2>2. /\ cpc' = cpc /\ cidx' = [cidx EXCEPT ![c] = q + 1]
        /\ pc' = [pc EXCEPT ![q] = "start"]
        /\ UNCHANGED <<schFlag, op>>
    BY <1>2, <2>1 DEF RunCreate, schCreateThread, Goto, SetIdx, TypeInv, TypeOK
  <2>3. \A p \in Pools : pc'[p] # "none" <=> (pc[p] # "none" \/ p = q)
    BY <2>2 DEF TypeInv, TypeOK
  <2>4. \A p \in Pools : p < q + 1 <=> (p < q \/ p = q)
    BY NextIndex
  <2>5. \A p \in Pools : p < cidx'[c] => pc'[p] # "none"
    BY <2>1, <2>2, <2>3, <2>4 DEF StayInv, TypeInv, TypeOK
  <2>6. \A d \in Clients : d # c => cidx'[d] = cidx[d]
    BY <2>2 DEF TypeInv, TypeOK
  <2> QED BY <2>2, <2>3, <2>5, <2>6 DEF StayInv, Running
<1>3. ASSUME NEW c \in Clients, Proceed(c), ~RunCreate(c) PROVE StayInv'
  <2>1. cpc[c] # "join"
    BY DEF StayInv
  <2>2. pc' = pc
    BY <1>3, <2>1, ClientFrame DEF TerminateJoin, SubmitEnqueue, Goto
  <2>3. \A d \in Clients : d # c => cpc'[d] = cpc[d] /\ cidx'[d] = cidx[d]
    BY <1>3, ClientFrame
  <2>4. op' = op
    BY <1>3
    DEF Proceed, RunCreate, RunCreateFails, RunCreated, RunRaise, RunReturn,
        SubmitEnqueue, SubmitSize, SubmitFlag, SubmitRaise, WaitGate,
        WaitFlag, WaitPoll, WaitSize, WaitReturn, StopRaise, StopReturn,
        TerminateKill, TerminateJoin, TerminateReturn, ReleaseFree, vars
  <2>5. /\ cpc'[c] \notin {"kill", "join", "free", "released", "enqueue", "create"}
        /\ cpc'[c] \in {"gate", "scan", "scansize"} => op[c] = "wait"
        /\ Running' => Running \/ cpc[c] = "start"
        /\ Running => Running'
        /\ cpc'[c] = "start" => cpc[c] = "start" \/ (cpc[c] = "create" /\ cidx[c] = NumPools)
    BY <1>3
    DEF Proceed, RunCreate, RunCreateFails, RunCreated, RunRaise, RunReturn,
        SubmitEnqueue, SubmitSize, SubmitFlag, SubmitRaise, WaitGate,
        WaitFlag, WaitPoll, WaitSize, WaitReturn, StopRaise, StopReturn,
        TerminateKill, TerminateJoin, TerminateReturn, ReleaseFree, vars,
        Goto, StayInv, Running, TypeInv, TypeOK
  <2>6. \A p \in Pools : p < NumPools
    BY PoolsAssumption DEF Pools
  <2> QED BY <2>2, <2>3, <2>4, <2>5, <2>6 DEF StayInv
<1>4. ASSUME NEW c \in Clients, Begin(c) PROVE StayInv'
  <2>1. /\ pc' = pc /\ schFlag' = schFlag
        /\ \A d \in Clients : d # c => cpc'[d] = cpc[d] /\ cidx'[d] = cidx[d]
                                       /\ op'[d] = op[d]
    BY <1>4
    DEF Begin, RunCall, SubmitCall, WaitCall, StopCall, ReleaseCall, Call, Goto,
        SetIdx, TypeInv, TypeOK
  <2>2. /\ cpc'[c] \in {"create", "enqueue", "gate", "stop"}
        /\ cpc'[c] = "create" => cidx'[c] = 0
        /\ cpc'[c] = "enqueue" => Running
        /\ cpc'[c] = "gate" => op'[c] = "wait"
    BY <1>4
    DEF Begin, RunCall, SubmitCall, WaitCall, StopCall, ReleaseCall, Call, Goto,
        SetIdx, TypeInv, TypeOK, NoShutdownCalls
  <2>3. \A p \in Pools : ~(p < 0)
    BY PoolsAssumption DEF Pools
  <2> QED BY <2>1, <2>2, <2>3 DEF StayInv, Running
<1>5. CASE UNCHANGED vars
  BY <1>5 DEF vars, StayInv, Running
<1> QED BY <1>1, <1>2, <1>3, <1>4, <1>5 DEF Next, AfterRelease

(* Nothing is running yet.                                                 *)
LEMMA StayInit == Init => StayInv /\ JobInv
  BY DEF Init, StayInv, JobInv, Running

(* A pool that is handed a package has a thread.                           *)
LEMMA ServeNoShutdown == TypeInv /\ StayInv => ServeInv
  BY DEF StayInv, ServeInv, TypeInv, IndexInv

----------------------------------------------------------------------------
(* The ring seen as a sequence.                                            *)

LEMMA ContentsSeq ==
    ASSUME CountInv, NEW p \in Pools
    PROVE  /\ Contents(p) \in Seq(Nat) /\ Len(Contents(p)) = size[p]
           /\ size[p] = 0 => Contents(p) = <<>>
           /\ size[p] # 0 => Contents(p) # <<>>
<1>1. size[p] \in Nat
  BY Lengths
<1>2. \A i \in 1 .. size[p] : package[p][(head[p] + i - 1) % Reserved] \in Nat
  <2> TAKE i \in 1 .. size[p]
  <2>1. head[p] + i - 1 \in Nat
    BY <1>1, Lengths, ReservedAssumption
  <2>2. (head[p] + i - 1) % Reserved \in Slots
    BY <2>1, DivMod, ReservedAssumption DEF Slots
  <2> QED BY <2>2 DEF CountInv, TypeInv, TypeOK
<1> QED BY <1>1, <1>2 DEF Contents

(* A dequeue takes the first package.                                      *)
LEMMA ContentsDequeue ==
    ASSUME CountInv, NEW p \in Pools, ExecDequeue(p)
    PROVE  /\ Contents(p) # <<>>
           /\ package[p][head[p]] = Head(Contents(p))
           /\ Contents(p)' = Tail(Contents(p))
           /\ \A q \in Pools : q # p => Contents(q)' = Contents(q)
<1>1. /\ size' = [size EXCEPT ![p] = size[p] - 1]
      /\ head' = [head EXCEPT ![p] = (head[p] + 1) % Reserved]
      /\ package' = package
  BY DEF ExecDequeue, Dequeue, Advance
<1>2. size \in [Pools -> Nat] /\ head \in [Pools -> Slots]
  BY DEF CountInv, TypeInv, TypeOK
<1>3. size[p] \in Nat \ {0} /\ head[p] \in 0 .. Reserved - 1
  BY Lengths DEF ExecDequeue, Exec, CountInv, TypeInv, DequeueInv
<1>4. Contents(p) \in Seq(Nat) /\ Len(Contents(p)) = size[p] /\ Contents(p) # <<>>
  BY <1>3, ContentsSeq
<1>5. package[p][head[p]] = Head(Contents(p))
  <2>1. (head[p] + 1 - 1) % Reserved = head[p]
    <3>1. head[p] + 1 - 1 = head[p]
      BY <1>3
    <3> QED BY <1>3, <3>1, ModSmall, ReservedAssumption
  <2>2. Contents(p)[1] = package[p][(head[p] + 1 - 1) % Reserved]
    BY <1>3 DEF Contents
  <2>3. Head(Contents(p)) = Contents(p)[1]
    BY <1>4
  <2> QED BY <2>1, <2>2, <2>3
<1>6. Contents(p)' = Tail(Contents(p))
  <2>1. size'[p] = size[p] - 1 /\ head'[p] = (head[p] + 1) % Reserved
    BY <1>1, <1>2
  <2>2. Contents(p)' = [i \in 1 .. size[p] - 1 |->
                          package[p][(((head[p] + 1) % Reserved) + i - 1) % Reserved]]
    BY <1>1, <2>1 DEF Contents
  <2>3. Tail(Contents(p)) = [i \in 1 .. size[p] - 1 |-> Contents(p)[i + 1]]
    <3>1. /\ Tail(Contents(p)) \in Seq(Nat) /\ Len(Tail(Contents(p))) = size[p] - 1
          /\ \A i \in 1 .. size[p] - 1 : Tail(Contents(p))[i] = Contents(p)[i + 1]
      BY <1>4, HeadTailProperties
    <3>2. size[p] - 1 \in Nat
      BY <1>3
    <3>3. ASSUME NEW t \in Seq(Nat), NEW n \in Nat, Len(t) = n
          PROVE  t = [i \in 1 .. n |-> t[i]]
      BY <3>3
    <3>4. Tail(Contents(p)) = [i \in 1 .. size[p] - 1 |-> Tail(Contents(p))[i]]
      BY <3>1, <3>2, <3>3
    <3> QED BY <3>1, <3>4
  <2>4. ASSUME NEW i \in 1 .. size[p] - 1
        PROVE  package[p][(((head[p] + 1) % Reserved) + i - 1) % Reserved]
                 = Contents(p)[i + 1]
    <3>1. (((head[p] + 1) % Reserved) + (i - 1)) % Reserved = (head[p] + i) % Reserved
      BY <1>3, ModDequeue, ReservedAssumption
    <3>a. head[p] + 1 \in Nat
      BY <1>3
    <3>2. PICK k \in Nat : k = (head[p] + 1) % Reserved
      BY <3>a, ReservedAssumption, DivMod
    <3>3. /\ k + i - 1 = k + (i - 1) /\ head[p] + (i + 1) - 1 = head[p] + i
          /\ i + 1 \in 1 .. size[p]
      BY <1>3
    <3>4. Contents(p)[i + 1] = package[p][(head[p] + (i + 1) - 1) % Reserved]
      BY <3>3 DEF Contents
    <3> QED BY <3>1, <3>2, <3>3, <3>4
  <2> QED BY <2>2, <2>3, <2>4
<1>7. \A q \in Pools : q # p => Contents(q)' = Contents(q)
  BY <1>1, <1>2 DEF Contents
<1> QED BY <1>4, <1>5, <1>6, <1>7

(* An enqueue appends one.                                                 *)
LEMMA ContentsEnqueue ==
    ASSUME CountInv, NEW c \in Clients, SubmitEnqueue(c), NEW q, q = cidx[c]
    PROVE  /\ Contents(q)' = Append(Contents(q), job[c])
           /\ \A p \in Pools : p # q => Contents(p)' = Contents(p)
<1>1. /\ q \in Pools
      /\ size[q] \in 0 .. Reserved - 1 /\ tail[q] \in Slots
      /\ tail[q] = (head[q] + size[q]) % Reserved
      /\ package' = [package EXCEPT ![q][tail[q]] = job[c]]
      /\ size' = [size EXCEPT ![q] = size[q] + 1]
      /\ job[c] \in Nat /\ head' = head
  BY EnqueueEffect
<1>2. package \in [Pools -> [Slots -> Nat]] /\ size \in [Pools -> Nat]
  BY DEF CountInv, TypeInv, TypeOK
<1>3. Contents(q) \in Seq(Nat) /\ Len(Contents(q)) = size[q]
  BY <1>1, ContentsSeq
<1>4. \A p \in Pools : p # q => Contents(p)' = Contents(p)
  BY <1>1, <1>2 DEF Contents
<1>5. Contents(q)' = [i \in 1 .. size[q] + 1 |->
                        package'[q][(head[q] + i - 1) % Reserved]]
  BY <1>1, <1>2 DEF Contents
<1>6. Append(Contents(q), job[c]) =
        [i \in 1 .. size[q] + 1 |-> IF i <= size[q] THEN Contents(q)[i] ELSE job[c]]
  BY <1>1, <1>3
<1>7. ASSUME NEW i \in 1 .. size[q] + 1
      PROVE  package'[q][(head[q] + i - 1) % Reserved]
                = IF i <= size[q] THEN Contents(q)[i] ELSE job[c]
  <2>1. head[q] \in 0 .. Reserved - 1 /\ size[q] \in Nat
    BY <1>1, Lengths
  <2>2. CASE i = size[q] + 1
    <3>1. head[q] + i - 1 = head[q] + size[q] /\ ~(i <= size[q])
      BY <2>1, <2>2
    <3> QED BY <1>1, <1>2, <3>1
  <2>3. CASE i \in 1 .. size[q]
    <3>1. /\ i - 1 \in 0 .. Reserved - 1 /\ i - 1 < size[q]
          /\ head[q] \in Nat /\ i <= size[q]
      BY <1>1, <2>1, <2>3, ReservedAssumption
    <3>2. (head[q] + (i - 1)) % Reserved # (head[q] + size[q]) % Reserved
      BY <1>1, <3>1, ModDistinct, ReservedAssumption
    <3>3. head[q] + i - 1 = head[q] + (i - 1) /\ head[q] + (i - 1) \in Nat
      BY <2>1, <2>3
    <3>4. (head[q] + i - 1) % Reserved \in Slots
      BY <3>3, DivMod, ReservedAssumption DEF Slots
    <3>5. package'[q][(head[q] + i - 1) % Reserved]
            = package[q][(head[q] + i - 1) % Reserved]
      BY <1>1, <1>2, <3>2, <3>3, <3>4
    <3>6. Contents(q)[i] = package[q][(head[q] + i - 1) % Reserved]
      BY <2>3 DEF Contents
    <3> QED BY <3>1, <3>5, <3>6
  <2> QED BY <2>1, <2>2, <2>3
<1>8. Contents(q)' = Append(Contents(q), job[c])
  BY <1>5, <1>6, <1>7
<1> QED BY <1>4, <1>8

----------------------------------------------------------------------------
(* The steps of the scheduler as steps of PoolSpec.                        *)

OpenPools == {p \in Pools : pc[p] # "none"}
QueuedAt == [p \in Pools |-> Contents(p)]
RunningAt == [p \in Pools |-> InFlight(p)]

RefineInv == CountInv /\ SlotInv /\ HeldRoomInv /\ ServeInv /\ JobInv

(* The pool thread takes a package.                                        *)
LEMMA PromiseStart ==
    ASSUME RefineInv, NEW p \in Pools, ExecDequeue(p)
    PROVE  Promise!Start(p)
<1>1. /\ Contents(p) # <<>> /\ package[p][head[p]] = Head(Contents(p))
      /\ Contents(p)' = Tail(Contents(p))
      /\ \A q \in Pools : q # p => Contents(q)' = Contents(q)
  BY ContentsDequeue DEF RefineInv
<1>2. /\ pc[p] = "dequeue" /\ pc' = [pc EXCEPT ![p] = "fetch"]
      /\ cur' = [cur EXCEPT ![p] = head[p]]
      /\ UNCHANGED <<package, callback, ran>>
  BY DEF ExecDequeue, Exec, Dequeue
<1>3. pc \in [Pools -> ExecPcs] /\ cur \in [Pools -> Slots]
  BY DEF RefineInv, CountInv, TypeInv, TypeOK
<1>4. InFlight(p) = <<>> /\ InFlight(p)' = <<package[p][head[p]]>>
  BY <1>2, <1>3 DEF InFlight
<1>5. \A q \in Pools : q # p => InFlight(q)' = InFlight(q)
  BY <1>2, <1>3 DEF InFlight
<1>6. p \in OpenPools /\ OpenPools' = OpenPools
  BY <1>2, <1>3 DEF OpenPools
<1>7. /\ RunningAt[p] = <<>> /\ QueuedAt[p] # <<>>
      /\ RunningAt' = [RunningAt EXCEPT ![p] = <<Head(QueuedAt[p])>>]
  BY <1>1, <1>4, <1>5 DEF RunningAt, QueuedAt
<1>8. QueuedAt' = [QueuedAt EXCEPT ![p] = Tail(QueuedAt[p])]
  BY <1>1 DEF QueuedAt
<1> QED
  BY <1>2, <1>6, <1>7, <1>8 DEF Promise!Start, OpenPools, QueuedAt, RunningAt

(* A callback returns.                                                     *)
LEMMA PromiseFinish ==
    ASSUME RefineInv, NEW p \in Pools, ExecReturn(p)
    PROVE  Promise!Finish(p)
<1>1. /\ pc[p] = "run" /\ pc' = [pc EXCEPT ![p] = "loop"]
      /\ ran' = [ran EXCEPT ![p] = Append(ran[p], callback[p])]
      /\ UNCHANGED <<ringVars, cur, callback>>
  BY DEF ExecReturn, Exec
<1>2. pc \in [Pools -> ExecPcs]
  BY DEF RefineInv, CountInv, TypeInv, TypeOK
<1>3. InFlight(p) = <<callback[p]>> /\ InFlight(p)' = <<>>
  BY <1>1, <1>2 DEF InFlight
<1>4. \A q \in Pools : q # p => InFlight(q)' = InFlight(q)
  BY <1>1, <1>2 DEF InFlight
<1>5. p \in OpenPools /\ OpenPools' = OpenPools
  BY <1>1, <1>2 DEF OpenPools
<1>6. QueuedAt' = QueuedAt
  BY <1>1 DEF QueuedAt, Contents
<1>7. /\ RunningAt[p] # <<>> /\ Head(RunningAt[p]) = callback[p]
      /\ RunningAt' = [RunningAt EXCEPT ![p] = <<>>]
  <2>1. <<callback[p]>> # <<>> /\ Head(<<callback[p]>>) = callback[p]
    OBVIOUS
  <2>2. RunningAt[p] = <<callback[p]>>
    BY <1>3 DEF RunningAt
  <2>3. RunningAt' = [RunningAt EXCEPT ![p] = <<>>]
    BY <1>3, <1>4, Zenon DEF RunningAt
  <2> QED BY <2>1, <2>2, <2>3
<1>8. ran' = [ran EXCEPT ![p] = Append(ran[p], Head(RunningAt[p]))]
  BY <1>1, <1>7
<1> QED
  BY <1>5, <1>6, <1>7, <1>8 DEF Promise!Finish, OpenPools, QueuedAt, RunningAt

(* A package is accepted.  The one in progress is left alone.              *)
LEMMA PromiseAccept ==
    ASSUME RefineInv, NEW c \in Clients, SubmitEnqueue(c)
    PROVE  \E q \in Pools : \E t \in 1 .. MaxTasks : Promise!Accept(q, t)
<1>0. PICK q : q = cidx[c]
  OBVIOUS
<1>1. /\ q \in Pools /\ cpc[c] = "enqueue"
      /\ size[q] \in 0 .. Reserved - 1
      /\ UNCHANGED <<pc, cur, callback, ran>>
  BY <1>0, EnqueueEffect DEF RefineInv
<1>2. job[c] \in 1 .. MaxTasks /\ pc[q] # "none"
  BY <1>0, <1>1 DEF RefineInv, JobInv, ServeInv
<1>3. /\ Contents(q)' = Append(Contents(q), job[c])
      /\ \A p \in Pools : p # q => Contents(p)' = Contents(p)
  <2>1. CountInv
    BY DEF RefineInv
  <2> QED BY <1>0, <2>1, ContentsEnqueue
<1>4. ASSUME NEW p \in Pools, Holds(p)
      PROVE  package'[p][cur[p]] = package[p][cur[p]]
  <2> SUFFICES ASSUME package'[p][cur[p]] # package[p][cur[p]] PROVE FALSE
    OBVIOUS
  <2>1. Next
    BY DEF Next, Proceed
  <2>2. /\ size[p] = Reserved - 1
        /\ \E d \in Clients : cpc[d] = "enqueue" /\ cidx[d] = p
    BY <1>4, <2>1, OverwriteStep DEF RefineInv
  <2>3. size[p] + 1 < Reserved
    BY <1>4, <2>2 DEF RefineInv, HeldRoomInv
  <2> QED BY <2>2, <2>3, ReservedAssumption
<1>5. RunningAt' = RunningAt
  BY <1>1, <1>4 DEF RunningAt, InFlight, Holds
<1>6. q \in OpenPools /\ OpenPools' = OpenPools
  BY <1>1, <1>2 DEF OpenPools
<1>7. Len(QueuedAt[q]) < Reserved
  <2>1. Len(Contents(q)) = size[q]
    BY <1>1, ContentsSeq DEF RefineInv
  <2> QED BY <1>1, <2>1, ReservedAssumption DEF QueuedAt
<1>8. QueuedAt' = [QueuedAt EXCEPT ![q] = Append(QueuedAt[q], job[c])]
  <2>1. QueuedAt[q] = Contents(q)
    BY <1>1 DEF QueuedAt
  <2>2. QueuedAt' = [QueuedAt EXCEPT ![q] = Append(Contents(q), job[c])]
    BY <1>1, <1>3, Zenon DEF QueuedAt
  <2> QED BY <2>1, <2>2
<1>9. Promise!Accept(q, job[c])
  BY <1>1, <1>5, <1>6, <1>7, <1>8
  DEF Promise!Accept, OpenPools, QueuedAt, RunningAt
<1> QED BY <1>1, <1>2, <1>9

(* schRunTaskSch gives a pool its thread, schTerminateTaskSch takes it.    *)
LEMMA PromiseOpenClose ==
    ASSUME RefineInv, NEW c \in Clients, RunCreate(c) \/ TerminateJoin(c)
    PROVE  \E q \in Pools : Promise!Open(q) \/ Promise!Close(q)
<1>1. /\ pc \in [Pools -> ExecPcs] /\ cidx[c] \in 0 .. NumPools
      /\ \A p \in Pools : p >= p
  BY PoolsAssumption DEF RefineInv, CountInv, TypeInv, TypeOK, Pools
<1>2. UNCHANGED <<ringVars, ran>>
  BY DEF RunCreate, TerminateJoin
<1>3. QueuedAt' = QueuedAt
  BY <1>2 DEF QueuedAt, Contents
<1>4. CASE RunCreate(c)
  <2>1. PICK q \in Pools : q = cidx[c]
    BY <1>1, <1>4, Indices DEF RunCreate
  <2>2. pc[q] = "none" /\ pc' = [pc EXCEPT ![q] = "start"]
    BY <1>1, <1>4, <2>1
    DEF RunCreate, schCreateThread, Goto, RefineInv, CountInv, CreateInv
  <2>3. RunningAt' = RunningAt
    BY <1>1, <1>4, <2>2 DEF RunningAt, InFlight, RunCreate
  <2>4. q \notin OpenPools /\ OpenPools' = OpenPools \cup {q}
    BY <1>1, <2>2 DEF OpenPools
  <2>5. Promise!Open(q)
    BY <1>2, <1>3, <2>3, <2>4 DEF Promise!Open, OpenPools, QueuedAt, RunningAt
  <2> QED BY <2>5
<1>5. CASE TerminateJoin(c)
  <2>1. PICK q \in Pools : q = cidx[c] /\ cpc[c] = "join"
    BY <1>5 DEF TerminateJoin, Goto, RefineInv, CountInv, TypeInv, IndexInv
  <2>2. pc[q] = "exited" /\ pc' = [pc EXCEPT ![q] = "none"] /\ size[q] = 0
    BY <1>5, <2>1 DEF TerminateJoin, schWaitThread, RefineInv, ServeInv
  <2>3. RunningAt' = RunningAt /\ RunningAt[q] = <<>>
    BY <1>1, <1>5, <2>2 DEF RunningAt, InFlight, TerminateJoin
  <2>4. q \in OpenPools /\ OpenPools' = OpenPools \ {q}
    BY <1>1, <2>2 DEF OpenPools
  <2>5. QueuedAt[q] = <<>>
    BY <2>2, ContentsSeq DEF QueuedAt, RefineInv
  <2>6. Promise!Close(q)
    BY <1>2, <1>3, <2>3, <2>4, <2>5
    DEF Promise!Close, OpenPools, QueuedAt, RunningAt
  <2> QED BY <2>6
<1> QED BY <1>4, <1>5

(* Every step of the scheduler is a step of PoolSpec or changes nothing    *)
(* there.                                                                  *)
LEMMA PromiseStep ==
    ASSUME RefineInv, [Next]_vars
    PROVE  [Promise!Next]_(Promise!vars)
<1>0. TypeInv
  BY DEF RefineInv, CountInv
<1> DEFINE Unseen == UNCHANGED <<OpenPools, QueuedAt, RunningAt, ran>>
<1>1. Unseen => UNCHANGED Promise!vars
  BY DEF Promise!vars, OpenPools, QueuedAt, RunningAt
<1>2. ASSUME NEW p \in Pools, Executor(p) PROVE Promise!Next \/ Unseen
  <2>1. CASE ExecDequeue(p)
    BY <2>1, PromiseStart DEF Promise!Next
  <2>2. CASE ExecReturn(p)
    BY <2>2, PromiseFinish DEF Promise!Next
  <2>3. CASE ExecFetch(p)
    BY <1>0, <2>3
    DEF ExecFetch, Exec, OpenPools, QueuedAt, Contents, RunningAt, InFlight,
        TypeInv, TypeOK
  <2>4. CASE ~Holds(p) /\ ~Holds(p)' /\ UNCHANGED <<ringVars, ran>>
    <3>1. /\ pc[p] # "none" /\ pc'[p] # "none"
          /\ pc' = [pc EXCEPT ![p] = pc'[p]]
      BY <1>0, <1>2, ExecutorFrame
    <3>2. OpenPools' = OpenPools /\ QueuedAt' = QueuedAt
      BY <1>0, <2>4, <3>1 DEF OpenPools, QueuedAt, Contents, TypeInv, TypeOK
    <3>3. ASSUME NEW q \in Pools PROVE InFlight(q)' = InFlight(q)
      <4>1. CASE q = p
        BY <2>4, <4>1 DEF InFlight, Holds
      <4>2. CASE q # p
        <5>1. ~Holds(q)' \/ (cur'[q] = cur[q] /\ callback'[q] = callback[q])
          BY <1>0, <1>2, <2>4, <4>2
          DEF Executor, ExecStart, ExecLoop, ExecDequeue, Dequeue, ExecFetch,
              ExecReturn, ExecIdle, ExecIdleAgain, ExecReport, ExecWait,
              ExecWake, ExecExit, Exec, TypeInv, TypeOK
        <5>2. pc'[q] = pc[q] /\ package' = package
          BY <1>0, <2>4, <3>1, <4>2 DEF TypeInv, TypeOK
        <5> QED BY <5>1, <5>2 DEF InFlight, Holds
      <4> QED BY <4>1, <4>2
    <3> QED BY <2>4, <3>2, <3>3 DEF RunningAt
  <2> QED BY <1>0, <1>2, <2>1, <2>2, <2>3, <2>4, ExecutorFrame
<1>3. ASSUME NEW c \in Clients, Proceed(c) \/ Begin(c)
      PROVE  Promise!Next \/ Unseen
  <2>1. CASE RunCreate(c) \/ TerminateJoin(c)
    BY <2>1, PromiseOpenClose DEF Promise!Next
  <2>2. CASE SubmitEnqueue(c)
    BY <2>2, PromiseAccept DEF Promise!Next
  <2>3. CASE UNCHANGED <<ringVars, execVars>>
    BY <2>3 DEF OpenPools, QueuedAt, Contents, RunningAt, InFlight
  <2> QED BY <1>0, <1>3, <2>1, <2>2, <2>3, ClientFrame
<1>4. CASE UNCHANGED vars
  BY <1>1, <1>4 DEF vars, OpenPools, QueuedAt, Contents, RunningAt, InFlight
<1> HIDE DEF Unseen
<1> QED BY <1>1, <1>2, <1>3, <1>4 DEF Next, AfterRelease

(* The scheduler implements PoolSpec: for an application that is           *)
(* disciplined and drives the scheduler from one thread, restarts and      *)
(* shutdown included, or from many threads that do not shut it down, every *)
(* pool runs exactly the accepted packages, one at a time and in their     *)
(* order, and gives up its thread only when none is left.                  *)
THEOREM SchedulerImplementsPoolSpec ==
    ASSUME Disciplined, SoleClient \/ NoShutdownCalls
    PROVE  Spec => ImplementsPoolSpec
<1>1. Init => Promise!Init
  BY DEF Init, Promise!Init, Contents, InFlight
<1>2. TypeInv /\ AccountInv /\ UnfinishedInv => HeldRoomInv
  BY RoomLeft DEF Disciplined
<1>3. CountInv => TypeInv /\ AccountInv
  BY DEF CountInv
<1>4. Spec => []ServeInv
  <2>1. CASE SoleClient
    BY <2>1, LifecycleInvariant, ServeSoleClient, PTL
  <2>2. CASE NoShutdownCalls
    <3>1. TypeInv /\ StayInv /\ [Next]_vars => StayInv'
      BY <2>2, StayStep
    <3> QED
      BY <3>1, TypeInit, TypeStep, StayInit, ServeNoShutdown, PTL DEF Spec
  <2> QED BY <2>1, <2>2
<1>5. Spec => []CountInv
  BY CountInvariant
<1>6. CountInv /\ SlotInv /\ HeldRoomInv /\ ServeInv /\ JobInv => RefineInv
  BY DEF RefineInv
<1> QED
  BY <1>1, <1>2, <1>3, <1>4, <1>5, <1>6, QueueInit, SlotStep, StayInit, JobStep,
     UnfinishedInit, UnfinishedStep, PromiseStep, PTL
  DEF Spec, ImplementsPoolSpec, Promise!Spec

=============================================================================
