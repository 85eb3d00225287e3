-------------------------- MODULE ResourcesProofs ---------------------------
(***************************************************************************)
(* What becomes of the handles of a scheduler, for any number of pools.    *)
(***************************************************************************)
EXTENDS Resources, TLAPS

(* Each handle has one place in the order of creation.                     *)
LEMMA OrderFacts ==
    /\ \A i \in 1 .. 7 : CreateOrder[i] \in SchHandles
    /\ \A x \in SchHandles : \E i \in 1 .. 7 : CreateOrder[i] = x
    /\ \A i, j \in 1 .. 7 : CreateOrder[i] = CreateOrder[j] => i = j
    /\ \A i \in 1 .. 7 : (CreateOrder[i] \in Freed <=> i <= 4)
                         /\ (CreateOrder[i] \in SyncObjects <=> i > 4)
    /\ Freed \subseteq SchHandles
    /\ \A x \in SchHandles : x \notin Freed => x \in SyncObjects
<1>1. \A i \in 1 .. 7 : i \in {1, 2, 3, 4, 5, 6, 7}
  OBVIOUS
<1>2. /\ CreateOrder[1] = "pool" /\ CreateOrder[2] = "dheap"
      /\ CreateOrder[3] = "set" /\ CreateOrder[4] = "spinlock"
      /\ CreateOrder[5] = "mutex" /\ CreateOrder[6] = "conditional"
      /\ CreateOrder[7] = "barrier"
  BY DEF CreateOrder
<1>3. \A i, j \in 1 .. 7 : CreateOrder[i] = CreateOrder[j] => i = j
  BY <1>1, <1>2
<1>4. \A i \in 1 .. 7 : (CreateOrder[i] \in Freed <=> i <= 4)
                       /\ (CreateOrder[i] \in SyncObjects <=> i > 4)
  BY <1>1, <1>2 DEF Freed, SyncObjects
<1>5. \A x \in SchHandles : \E i \in 1 .. 7 : CreateOrder[i] = x
  BY DEF SchHandles
<1>6. \A i \in 1 .. 7 : CreateOrder[i] \in SchHandles
  BY DEF SchHandles
<1>7. Freed \subseteq SchHandles
  BY <1>2, <1>6 DEF Freed
<1>8. \A x \in SchHandles : x \notin Freed => x \in SyncObjects
  BY <1>4, <1>5
<1> QED BY <1>3, <1>4, <1>5, <1>6, <1>7, <1>8

(* Where the call is, and what the flags and the status say there.         *)
CallInv ==
    /\ pc \in {"create", "error"} => made = "no" /\ op = "create" /\ flag = {}
    /\ pc = "create" => k \in 1 .. 8
    /\ pc = "error" => status # OK
    /\ pc \in {"run", "kill"} => made = "yes"
    /\ pc = "release" => made # "no"
    /\ pc = "run" => op = "run" /\ flag = {"INIT"} /\ k \in 0 .. NumPools
    /\ pc = "kill" =>
           /\ op \in {"terminate", "release"}
           /\ "RUNNING" \in flag
           /\ k \in 0 .. NumPools
           /\ status # OK => "joinFailed" \in seen
    /\ pc = "release" => op = "release" /\ status = OK /\ "RUNNING" \notin flag
    /\ "RUNNING" \in flag => made = "yes"
    /\ made = "failed" =>
           /\ "createFailed" \in seen
           /\ pc = "release" => "failedReleased" \in seen

(* The handles of the scheduler.                                           *)
HandleInv ==
    /\ made = "yes" => \A x \in SchHandles : h[x] = "live"
    /\ made # "yes" /\ pc \in {"idle", "release"} =>
           AllocatedHandles \subseteq SyncObjects
    /\ pc = "create" =>
           /\ \A i \in 1 .. 7 : i < k => h[CreateOrder[i]] = "live"
           /\ \A i \in 1 .. 7 : i >= k /\ h[CreateOrder[i]] \in Allocated
                                  => CreateOrder[i] \in SyncObjects
           /\ "uncleared" \notin seen =>
                  \A i \in 1 .. 7 : i >= k => h[CreateOrder[i]] = "null"
    /\ pc = "error" /\ "uncleared" \notin seen =>
           \A x \in SchHandles : h[x] \in {"null", "live", "raw"}

(* The handles of the pools.                                               *)
PoolInv ==
    /\ made = "yes" =>
           \A p \in Pools : \A x \in PoolHandles :
               ph[p][x] \in {"null", "live", "raw"}
    /\ made # "yes" =>
           \A p \in Pools : \A x \in PoolHandles : ph[p][x] \notin Allocated
    /\ pc = "run" =>
           \A p \in Pools : IF p < k THEN Started(p)
                            ELSE "runFailed" \notin seen => Bare(p)
    /\ pc = "kill" =>
           \A p \in Pools : IF p < k THEN Bare(p) ELSE Started(p)
    /\ made = "yes" /\ pc = "idle" /\ "RUNNING" \in flag =>
           \A p \in Pools : Started(p)
    /\ (/\ made = "yes" /\ pc \in {"idle", "release"}
        /\ "RUNNING" \notin flag /\ "runFailed" \notin seen) =>
           \A p \in Pools : Bare(p)

ResourceInv ==
    /\ ResourceTypeOK /\ CallInv /\ HandleInv /\ PoolInv
    /\ BadFreeOnlyAfterFailedCreate /\ CreateStatusTells
    /\ ReleaseStatusTells /\ OnlyKnownLeaks

(* Types are kept.                                                         *)
LEMMA TypeStep ==
    ASSUME ResourceInv, [Next]_vars
    PROVE  ResourceTypeOK'
<1> USE ResourcePoolsAssumption, OrderFacts
        DEF ResourceInv, Pools, handleVars, ResourceTypeOK, CallInv,
            Codes, OK, UNKNOWN, INVALID_ARG, INVALID_SCH, INTERNAL,
            LACK_OF_RESOURCES, BUSY, NOMEM, PERMISSION_DENIED, Values, Events,
            Allocated, AllocatedHandles, AllocatedOf, SchHandles, Freed,
            SyncObjects, PoolHandles
<1>1. CASE CreateObject
  BY <1>1 DEF CreateObject, SetHandle
<1>2. CASE CreateFails
  BY <1>2 DEF CreateFails, SetHandle, FailureCodes
<1>3. CASE CreateError
  BY <1>3 DEF CreateError, ReleaseResources, Given
<1>4. ASSUME NEW rings \in SUBSET Pools, CreateDone(rings)
      PROVE  ResourceTypeOK'
  BY <1>4 DEF CreateDone
<1>5. CASE RunCall
  BY <1>5 DEF RunCall
<1>6. ASSUME NEW mutex \in Allocated, NEW set \in {"live", "null"},
             RunPool(mutex, set)
      PROVE  ResourceTypeOK'
  BY <1>6 DEF RunPool, SetPoolHandles
<1>7. ASSUME NEW mutex \in Allocated, NEW set \in {"live", "null"},
             RunFails(mutex, set)
      PROVE  ResourceTypeOK'
  <2>1. CASE SetPoolHandles(k, [poolMutex |-> "raw"]) /\ status' = INTERNAL
    BY <1>7, <2>1 DEF RunFails, SetPoolHandles
  <2>2. CASE /\ SetPoolHandles(k, [poolMutex |-> mutex, poolSet |-> set,
                                   thread |-> "null"])
             /\ status' = INVALID_SCH
    BY <1>7, <2>2 DEF RunFails, SetPoolHandles
  <2> HIDE DEF ResourceTypeOK
  <2> QED BY <1>7, <2>1, <2>2 DEF RunFails
<1>8. CASE RunGivesUp
  BY <1>8 DEF RunGivesUp
<1>9. CASE RunDone
  BY <1>9 DEF RunDone, AllStarted
<1>10. CASE TerminateDone
  BY <1>10 DEF TerminateDone
<1>11. CASE ReleaseCall
  BY <1>11 DEF ReleaseCall
<1>12. CASE ReleaseFree
  BY <1>12 DEF ReleaseFree, ReleaseResources, Given
<1>13. ASSUME NEW clear \in BOOLEAN, CreateCall(clear)
      PROVE  ResourceTypeOK'
  BY <1>13 DEF CreateCall
<1>14. ASSUME NEW fn \in {"terminate", "release"}, TerminateCall(fn)
      PROVE  ResourceTypeOK'
  BY <1>14 DEF TerminateCall
<1>15. ASSUME NEW join \in {OK, INVALID_ARG, UNKNOWN},
             NEW delete \in {OK, BUSY}, TerminatePool(join, delete)
      PROVE  ResourceTypeOK'
  BY <1>15 DEF TerminatePool, BitAnd, Deleted
<1>16. CASE UNCHANGED vars
  BY <1>16 DEF vars
<1> HIDE DEF ResourceTypeOK
<1> QED
  BY <1>1, <1>2, <1>3, <1>4, <1>5, <1>6, <1>7, <1>8, <1>9, <1>10, <1>11, <1>12,
      <1>13, <1>14, <1>15, <1>16
     DEF Next

(* A call goes through its places in order, with the flags they need.      *)
LEMMA CallStep ==
    ASSUME ResourceInv, [Next]_vars
    PROVE  CallInv'
<1> USE ResourcePoolsAssumption, OrderFacts
        DEF ResourceInv, Pools, handleVars, ResourceTypeOK, CallInv,
            OK, UNKNOWN, INVALID_ARG, INVALID_SCH, INTERNAL, LACK_OF_RESOURCES,
            BUSY, NOMEM, PERMISSION_DENIED
<1>1. CASE CreateObject
  BY <1>1 DEF CreateObject, SetHandle
<1>2. CASE CreateFails
  BY <1>2 DEF CreateFails, SetHandle, FailureCodes
<1>3. CASE CreateError
  BY <1>3 DEF CreateError, ReleaseResources, Given
<1>4. ASSUME NEW rings \in SUBSET Pools, CreateDone(rings)
      PROVE  CallInv'
  BY <1>4 DEF CreateDone
<1>5. CASE RunCall
  BY <1>5 DEF RunCall
<1>6. ASSUME NEW mutex \in Allocated, NEW set \in {"live", "null"},
             RunPool(mutex, set)
      PROVE  CallInv'
  BY <1>6 DEF RunPool, SetPoolHandles
<1>7. ASSUME NEW mutex \in Allocated, NEW set \in {"live", "null"},
             RunFails(mutex, set)
      PROVE  CallInv'
  BY <1>7 DEF RunFails, SetPoolHandles
<1>8. CASE RunGivesUp
  BY <1>8 DEF RunGivesUp
<1>9. CASE RunDone
  BY <1>9 DEF RunDone, AllStarted
<1>10. CASE TerminateDone
  BY <1>10 DEF TerminateDone
<1>11. CASE ReleaseCall
  BY <1>11 DEF ReleaseCall
<1>12. CASE ReleaseFree
  BY <1>12 DEF ReleaseFree, ReleaseResources, Given
<1>13. ASSUME NEW clear \in BOOLEAN, CreateCall(clear)
      PROVE  CallInv'
  BY <1>13 DEF CreateCall
<1>14. ASSUME NEW fn \in {"terminate", "release"}, TerminateCall(fn)
      PROVE  CallInv'
  BY <1>14 DEF TerminateCall
<1>15. ASSUME NEW join \in {OK, INVALID_ARG, UNKNOWN},
             NEW delete \in {OK, BUSY}, TerminatePool(join, delete)
      PROVE  CallInv'
  <2>1. BitAnd(BitAnd(OK, OK), delete) = OK
    <3>1. OK % 2 = 1
      OBVIOUS
    <3>2. \A x, q \in Int : x = 2 * q + 1 => x % 2 = 1
      OBVIOUS
    <3>3. BUSY \in Int /\ -5 \in Int /\ BUSY = 2 * (-5) + 1
      OBVIOUS
    <3>4. BUSY % 2 = 1
      BY <3>2, <3>3, Zenon
    <3> QED BY <3>1, <3>4, Zenon DEF BitAnd
  <2>2. status' # OK => "joinFailed" \in seen'
    BY <1>15, <2>1, Zenon DEF TerminatePool
  <2>3. /\ pc = "kill" /\ k \in 0 .. NumPools - 1 /\ k' = k + 1
        /\ UNCHANGED <<flag, made, pc, op>>
    BY <1>15 DEF TerminatePool
  <2> QED BY <2>2, <2>3
<1>16. CASE UNCHANGED vars
  BY <1>16 DEF vars
<1> HIDE DEF CallInv
<1> QED
  BY <1>1, <1>2, <1>3, <1>4, <1>5, <1>6, <1>7, <1>8, <1>9, <1>10, <1>11, <1>12,
      <1>13, <1>14, <1>15, <1>16
     DEF Next

(* A created scheduler has all its handles, a failed creation keeps        *)
(* only the mutex, the conditional and the barrier.                        *)
LEMMA HandleStep ==
    ASSUME ResourceInv, [Next]_vars
    PROVE  HandleInv'
<1> USE ResourcePoolsAssumption, OrderFacts
        DEF ResourceInv, Pools, handleVars, ResourceTypeOK, CallInv,
            HandleInv, Allocated, AllocatedHandles
<1>1. CASE CreateObject
  BY <1>1 DEF CreateObject, SetHandle
<1>2. CASE CreateFails
  BY <1>2 DEF CreateFails, SetHandle, FailureCodes
<1>3. CASE CreateError
  BY <1>3 DEF CreateError, ReleaseResources, Given
<1>4. ASSUME NEW rings \in SUBSET Pools, CreateDone(rings)
      PROVE  HandleInv'
  BY <1>4, SMTT(30) DEF CreateDone
<1>5. CASE RunCall
  BY <1>5 DEF RunCall
<1>6. ASSUME NEW mutex \in Allocated, NEW set \in {"live", "null"},
             RunPool(mutex, set)
      PROVE  HandleInv'
  BY <1>6 DEF RunPool, SetPoolHandles
<1>7. ASSUME NEW mutex \in Allocated, NEW set \in {"live", "null"},
             RunFails(mutex, set)
      PROVE  HandleInv'
  BY <1>7 DEF RunFails, SetPoolHandles
<1>8. CASE RunGivesUp
  BY <1>8 DEF RunGivesUp
<1>9. CASE RunDone
  BY <1>9 DEF RunDone, AllStarted
<1>10. CASE TerminateDone
  BY <1>10 DEF TerminateDone
<1>11. CASE ReleaseCall
  BY <1>11 DEF ReleaseCall
<1>12. CASE ReleaseFree
  <2>1. \A x \in SchHandles : h'[x] \in Allocated => x \notin Freed
    BY <1>12 DEF ReleaseFree, ReleaseResources
  <2>2. made' = "no" /\ pc' = "idle"
    BY <1>12 DEF ReleaseFree
  <2> QED BY <2>1, <2>2
<1>13. ASSUME NEW clear \in BOOLEAN, CreateCall(clear)
      PROVE  HandleInv'
  BY <1>13 DEF CreateCall
<1>14. ASSUME NEW fn \in {"terminate", "release"}, TerminateCall(fn)
      PROVE  HandleInv'
  BY <1>14 DEF TerminateCall
<1>15. ASSUME NEW join \in {OK, INVALID_ARG, UNKNOWN},
             NEW delete \in {OK, BUSY}, TerminatePool(join, delete)
      PROVE  HandleInv'
  BY <1>15 DEF TerminatePool, BitAnd, Deleted
<1>16. CASE UNCHANGED vars
  BY <1>16 DEF vars
<1> HIDE DEF HandleInv
<1> QED
  BY <1>1, <1>2, <1>3, <1>4, <1>5, <1>6, <1>7, <1>8, <1>9, <1>10, <1>11, <1>12,
      <1>13, <1>14, <1>15, <1>16
     DEF Next

(* A run fills the pools in order and a termination empties them.          *)
LEMMA PoolStep ==
    ASSUME ResourceInv, [Next]_vars
    PROVE  PoolInv'
<1> USE ResourcePoolsAssumption, OrderFacts
        DEF ResourceInv, Pools, handleVars, ResourceTypeOK, CallInv,
            PoolInv, Started, Bare, Allocated, AllocatedOf, PoolHandles
<1>1. CASE CreateObject
  BY <1>1 DEF CreateObject, SetHandle
<1>2. CASE CreateFails
  BY <1>2 DEF CreateFails, SetHandle, FailureCodes
<1>3. CASE CreateError
  BY <1>3 DEF CreateError, ReleaseResources, Given
<1>4. ASSUME NEW rings \in SUBSET Pools, CreateDone(rings)
      PROVE  PoolInv'
  BY <1>4 DEF CreateDone
<1>5. CASE RunCall
  BY <1>5 DEF RunCall
<1>6. ASSUME NEW mutex \in Allocated, NEW set \in {"live", "null"},
             RunPool(mutex, set)
      PROVE  PoolInv'
  BY <1>6 DEF RunPool, SetPoolHandles
<1>7. ASSUME NEW mutex \in Allocated, NEW set \in {"live", "null"},
             RunFails(mutex, set)
      PROVE  PoolInv'
  BY <1>7 DEF RunFails, SetPoolHandles
<1>8. CASE RunGivesUp
  BY <1>8 DEF RunGivesUp
<1>9. CASE RunDone
  BY <1>9 DEF RunDone, AllStarted
<1>10. CASE TerminateDone
  BY <1>10 DEF TerminateDone
<1>11. CASE ReleaseCall
  BY <1>11 DEF ReleaseCall
<1>12. CASE ReleaseFree
  BY <1>12 DEF ReleaseFree, ReleaseResources, Given
<1>13. ASSUME NEW clear \in BOOLEAN, CreateCall(clear)
      PROVE  PoolInv'
  BY <1>13 DEF CreateCall
<1>14. ASSUME NEW fn \in {"terminate", "release"}, TerminateCall(fn)
      PROVE  PoolInv'
  BY <1>14 DEF TerminateCall
<1>15. ASSUME NEW join \in {OK, INVALID_ARG, UNKNOWN},
             NEW delete \in {OK, BUSY}, TerminatePool(join, delete)
      PROVE  PoolInv'
  BY <1>15 DEF TerminatePool, BitAnd, Deleted
<1>16. CASE UNCHANGED vars
  BY <1>16 DEF vars
<1> HIDE DEF PoolInv
<1> QED
  BY <1>1, <1>2, <1>3, <1>4, <1>5, <1>6, <1>7, <1>8, <1>9, <1>10, <1>11, <1>12,
      <1>13, <1>14, <1>15, <1>16
     DEF Next

(* Nothing but an allocated object is freed, until a creation fails.       *)
LEMMA FreeStep ==
    ASSUME ResourceInv, [Next]_vars
    PROVE  BadFreeOnlyAfterFailedCreate'
<1> USE ResourcePoolsAssumption, OrderFacts
        DEF ResourceInv, Pools, handleVars, ResourceTypeOK, CallInv,
            HandleInv, PoolInv, BadFreeOnlyAfterFailedCreate, Allocated,
            AllocatedHandles, PoolHandles
<1>1. CASE CreateObject
  BY <1>1 DEF CreateObject, SetHandle
<1>2. CASE CreateFails
  BY <1>2 DEF CreateFails, SetHandle, FailureCodes
<1>3. CASE CreateError
  BY <1>3 DEF CreateError, ReleaseResources, Given
<1>4. ASSUME NEW rings \in SUBSET Pools, CreateDone(rings)
      PROVE  BadFreeOnlyAfterFailedCreate'
  BY <1>4 DEF CreateDone
<1>5. CASE RunCall
  BY <1>5 DEF RunCall
<1>6. ASSUME NEW mutex \in Allocated, NEW set \in {"live", "null"},
             RunPool(mutex, set)
      PROVE  BadFreeOnlyAfterFailedCreate'
  BY <1>6 DEF RunPool, SetPoolHandles
<1>7. ASSUME NEW mutex \in Allocated, NEW set \in {"live", "null"},
             RunFails(mutex, set)
      PROVE  BadFreeOnlyAfterFailedCreate'
  BY <1>7 DEF RunFails, SetPoolHandles
<1>8. CASE RunGivesUp
  BY <1>8 DEF RunGivesUp
<1>9. CASE RunDone
  BY <1>9 DEF RunDone, AllStarted
<1>10. CASE TerminateDone
  BY <1>10 DEF TerminateDone
<1>11. CASE ReleaseCall
  BY <1>11 DEF ReleaseCall
<1>12. CASE ReleaseFree
  <2>1. seen' = seen
    BY <1>12 DEF ReleaseFree
  <2>2. CASE made = "yes"
    <3>1. h["pool"] = "live" /\ \A x \in Freed : h[x] \in Allocated
      BY <2>2 DEF Freed
    <3>2. bad' = bad
      BY <1>12, <3>1 DEF ReleaseFree, ReleaseResources
    <3> QED BY <2>1, <3>2
  <2>3. CASE made = "failed"
    BY <1>12, <2>1, <2>3 DEF ReleaseFree
  <2> QED BY <1>12, <2>2, <2>3 DEF ReleaseFree
<1>13. ASSUME NEW clear \in BOOLEAN, CreateCall(clear)
      PROVE  BadFreeOnlyAfterFailedCreate'
  BY <1>13 DEF CreateCall
<1>14. ASSUME NEW fn \in {"terminate", "release"}, TerminateCall(fn)
      PROVE  BadFreeOnlyAfterFailedCreate'
  BY <1>14 DEF TerminateCall
<1>15. ASSUME NEW join \in {OK, INVALID_ARG, UNKNOWN},
             NEW delete \in {OK, BUSY}, TerminatePool(join, delete)
      PROVE  BadFreeOnlyAfterFailedCreate'
  BY <1>15 DEF TerminatePool, BitAnd, Deleted
<1>16. CASE UNCHANGED vars
  BY <1>16 DEF vars
<1> HIDE DEF BadFreeOnlyAfterFailedCreate
<1> QED
  BY <1>1, <1>2, <1>3, <1>4, <1>5, <1>6, <1>7, <1>8, <1>9, <1>10, <1>11, <1>12,
      <1>13, <1>14, <1>15, <1>16
     DEF Next

(* A creation makes everything or undoes what it can.                      *)
LEMMA CreateStep ==
    ASSUME ResourceInv, [Next]_vars
    PROVE  CreateStatusTells'
<1> USE ResourcePoolsAssumption, OrderFacts
        DEF ResourceInv, Pools, handleVars, ResourceTypeOK, CallInv,
            HandleInv, CreateStatusTells, LiveHandles, AllocatedHandles,
            Allocated, OK, UNKNOWN, INVALID_ARG, INVALID_SCH, INTERNAL,
            LACK_OF_RESOURCES, BUSY, NOMEM, PERMISSION_DENIED
<1>1. CASE CreateObject
  BY <1>1 DEF CreateObject, SetHandle
<1>2. CASE CreateFails
  BY <1>2 DEF CreateFails, SetHandle, FailureCodes
<1>3. CASE CreateError
  BY <1>3 DEF CreateError, ReleaseResources, Given
<1>4. ASSUME NEW rings \in SUBSET Pools, CreateDone(rings)
      PROVE  CreateStatusTells'
  <2>1. \A i \in 1 .. 7 : h[CreateOrder[i]] = "live"
    BY <1>4 DEF CreateDone
  <2>2. h' = h /\ \A x \in SchHandles : h[x] = "live"
    BY <1>4, <2>1, SMTT(30) DEF CreateDone
  <2> QED BY <1>4, <2>2 DEF CreateDone
<1>5. CASE RunCall
  BY <1>5 DEF RunCall
<1>6. ASSUME NEW mutex \in Allocated, NEW set \in {"live", "null"},
             RunPool(mutex, set)
      PROVE  CreateStatusTells'
  BY <1>6 DEF RunPool, SetPoolHandles
<1>7. ASSUME NEW mutex \in Allocated, NEW set \in {"live", "null"},
             RunFails(mutex, set)
      PROVE  CreateStatusTells'
  BY <1>7 DEF RunFails, SetPoolHandles
<1>8. CASE RunGivesUp
  BY <1>8 DEF RunGivesUp
<1>9. CASE RunDone
  BY <1>9 DEF RunDone, AllStarted
<1>10. CASE TerminateDone
  BY <1>10 DEF TerminateDone
<1>11. CASE ReleaseCall
  BY <1>11 DEF ReleaseCall
<1>12. CASE ReleaseFree
  BY <1>12 DEF ReleaseFree, ReleaseResources, Given
<1>13. ASSUME NEW clear \in BOOLEAN, CreateCall(clear)
      PROVE  CreateStatusTells'
  BY <1>13 DEF CreateCall
<1>14. ASSUME NEW fn \in {"terminate", "release"}, TerminateCall(fn)
      PROVE  CreateStatusTells'
  BY <1>14 DEF TerminateCall
<1>15. ASSUME NEW join \in {OK, INVALID_ARG, UNKNOWN},
             NEW delete \in {OK, BUSY}, TerminatePool(join, delete)
      PROVE  CreateStatusTells'
  BY <1>15 DEF TerminatePool, BitAnd, Deleted
<1>16. CASE UNCHANGED vars
  BY <1>16 DEF vars
<1> HIDE DEF CreateStatusTells
<1> QED
  BY <1>1, <1>2, <1>3, <1>4, <1>5, <1>6, <1>7, <1>8, <1>9, <1>10, <1>11, <1>12,
      <1>13, <1>14, <1>15, <1>16
     DEF Next

(* A release frees everything or nothing.                                  *)
LEMMA ReleaseStep ==
    ASSUME ResourceInv, [Next]_vars
    PROVE  ReleaseStatusTells'
<1> USE ResourcePoolsAssumption, OrderFacts
        DEF ResourceInv, Pools, handleVars, ResourceTypeOK, CallInv,
            HandleInv, PoolInv, ReleaseStatusTells, LiveHandles,
            AllocatedHandles, AllocatedOf, Allocated, Bare, OK,
            UNKNOWN, INVALID_ARG, INVALID_SCH, INTERNAL, LACK_OF_RESOURCES,
            BUSY, NOMEM, PERMISSION_DENIED
<1>1. CASE CreateObject
  BY <1>1 DEF CreateObject, SetHandle
<1>2. CASE CreateFails
  BY <1>2 DEF CreateFails, SetHandle, FailureCodes
<1>3. CASE CreateError
  BY <1>3 DEF CreateError, ReleaseResources, Given
<1>4. ASSUME NEW rings \in SUBSET Pools, CreateDone(rings)
      PROVE  ReleaseStatusTells'
  BY <1>4 DEF CreateDone
<1>5. CASE RunCall
  BY <1>5 DEF RunCall
<1>6. ASSUME NEW mutex \in Allocated, NEW set \in {"live", "null"},
             RunPool(mutex, set)
      PROVE  ReleaseStatusTells'
  BY <1>6 DEF RunPool, SetPoolHandles
<1>7. ASSUME NEW mutex \in Allocated, NEW set \in {"live", "null"},
             RunFails(mutex, set)
      PROVE  ReleaseStatusTells'
  BY <1>7 DEF RunFails, SetPoolHandles
<1>8. CASE RunGivesUp
  BY <1>8 DEF RunGivesUp
<1>9. CASE RunDone
  BY <1>9 DEF RunDone, AllStarted
<1>10. CASE TerminateDone
  BY <1>10 DEF TerminateDone
<1>11. CASE ReleaseCall
  BY <1>11 DEF ReleaseCall
<1>12. CASE ReleaseFree
  <2>1. \A x \in SchHandles : h'[x] \in Allocated => x \notin Freed
    BY <1>12 DEF ReleaseFree, ReleaseResources
  <2>2. AllocatedHandles' \subseteq SyncObjects
    BY <2>1
  <2>3. status' = OK /\ "RUNNING" \notin flag'
    BY <1>12 DEF ReleaseFree
  <2> QED BY <2>2, <2>3
<1>13. ASSUME NEW clear \in BOOLEAN, CreateCall(clear)
      PROVE  ReleaseStatusTells'
  BY <1>13 DEF CreateCall
<1>14. ASSUME NEW fn \in {"terminate", "release"}, TerminateCall(fn)
      PROVE  ReleaseStatusTells'
  BY <1>14 DEF TerminateCall
<1>15. ASSUME NEW join \in {OK, INVALID_ARG, UNKNOWN},
             NEW delete \in {OK, BUSY}, TerminatePool(join, delete)
      PROVE  ReleaseStatusTells'
  BY <1>15 DEF TerminatePool, BitAnd, Deleted
<1>16. CASE UNCHANGED vars
  BY <1>16 DEF vars
<1> HIDE DEF ReleaseStatusTells
<1> QED
  BY <1>1, <1>2, <1>3, <1>4, <1>5, <1>6, <1>7, <1>8, <1>9, <1>10, <1>11, <1>12,
      <1>13, <1>14, <1>15, <1>16
     DEF Next

(* What may be allocated when its handle is overwritten or given up.       *)
LEMMA LeakStep ==
    ASSUME ResourceInv, [Next]_vars
    PROVE  OnlyKnownLeaks'
<1> USE ResourcePoolsAssumption, OrderFacts
        DEF ResourceInv, Pools, handleVars, ResourceTypeOK, CallInv,
            HandleInv, PoolInv, OnlyKnownLeaks, AllocatedHandles,
            AllocatedOf, Allocated, Bare, Started,
            SyncObjects, PoolHandles, OK, UNKNOWN, INVALID_ARG, INVALID_SCH,
            INTERNAL, LACK_OF_RESOURCES, BUSY, NOMEM, PERMISSION_DENIED
<1>1. CASE CreateObject
  <2>1. {CreateOrder[k]} \cap AllocatedHandles \subseteq SyncObjects
    BY <1>1 DEF CreateObject
  <2> QED BY <1>1, <2>1 DEF CreateObject, SetHandle
<1>2. CASE CreateFails
  <2>1. {CreateOrder[k]} \cap AllocatedHandles \subseteq SyncObjects
    BY <1>2 DEF CreateFails
  <2> QED BY <1>2, <2>1 DEF CreateFails, SetHandle
<1>3. CASE CreateError
  BY <1>3 DEF CreateError, ReleaseResources, Given
<1>4. ASSUME NEW rings \in SUBSET Pools, CreateDone(rings)
      PROVE  OnlyKnownLeaks'
  BY <1>4 DEF CreateDone
<1>5. CASE RunCall
  BY <1>5 DEF RunCall
<1>6. ASSUME NEW mutex \in Allocated, NEW set \in {"live", "null"},
             RunPool(mutex, set)
      PROVE  OnlyKnownLeaks'
  <2>1. /\ lost' \subseteq lost \cup {"poolMutex", "poolSet", "thread"}
        /\ "runFailed" \notin seen => lost' = lost
        /\ seen' = seen
    BY <1>6 DEF RunPool, SetPoolHandles
  <2> QED BY <2>1
<1>7. ASSUME NEW mutex \in Allocated, NEW set \in {"live", "null"},
             RunFails(mutex, set)
      PROVE  OnlyKnownLeaks'
  BY <1>7 DEF RunFails, SetPoolHandles
<1>8. CASE RunGivesUp
  BY <1>8 DEF RunGivesUp
<1>9. CASE RunDone
  BY <1>9 DEF RunDone, AllStarted
<1>10. CASE TerminateDone
  BY <1>10 DEF TerminateDone
<1>11. CASE ReleaseCall
  BY <1>11 DEF ReleaseCall
<1>12. CASE ReleaseFree
  <2>1. \A p \in Pools : made # "yes" \/ "runFailed" \notin seen
            => AllocatedOf(p) \ {"package"} = {}
    BY <1>12 DEF ReleaseFree
  <2>2. UNION {AllocatedOf(p) \ {"package"} : p \in Pools}
            \subseteq {"thread", "poolMutex", "poolSet"}
    OBVIOUS
  <2>3. "runFailed" \notin seen =>
            UNION {AllocatedOf(p) \ {"package"} : p \in Pools} = {}
    BY <1>12, <2>1 DEF ReleaseFree
  <2>4. /\ lost' = lost \cup UNION {AllocatedOf(p) \ {"package"} : p \in Pools}
        /\ seen' = seen
    BY <1>12 DEF ReleaseFree
  <2> HIDE DEF AllocatedOf
  <2> QED BY <2>2, <2>3, <2>4
<1>13. ASSUME NEW clear \in BOOLEAN, CreateCall(clear)
      PROVE  OnlyKnownLeaks'
  BY <1>13 DEF CreateCall
<1>14. ASSUME NEW fn \in {"terminate", "release"}, TerminateCall(fn)
      PROVE  OnlyKnownLeaks'
  BY <1>14 DEF TerminateCall
<1>15. ASSUME NEW join \in {OK, INVALID_ARG, UNKNOWN},
             NEW delete \in {OK, BUSY}, TerminatePool(join, delete)
      PROVE  OnlyKnownLeaks'
  BY <1>15 DEF TerminatePool, BitAnd, Deleted
<1>16. CASE UNCHANGED vars
  BY <1>16 DEF vars
<1> HIDE DEF OnlyKnownLeaks
<1> QED
  BY <1>1, <1>2, <1>3, <1>4, <1>5, <1>6, <1>7, <1>8, <1>9, <1>10, <1>11, <1>12,
      <1>13, <1>14, <1>15, <1>16
     DEF Next

(* The inductive invariant.                                                *)
LEMMA ResourceInvariant == Spec => []ResourceInv
<1>1. Init => ResourceInv
  <2> SUFFICES ASSUME Init PROVE ResourceInv
    OBVIOUS
  <2> USE ResourcePoolsAssumption DEF Init
  <2>1. ResourceTypeOK
    BY DEF ResourceTypeOK, Values, Codes, OK
  <2>2. CallInv /\ HandleInv /\ PoolInv
    BY DEF CallInv, HandleInv, PoolInv, AllocatedHandles, Allocated
  <2>3. /\ BadFreeOnlyAfterFailedCreate /\ CreateStatusTells
        /\ ReleaseStatusTells /\ OnlyKnownLeaks
    BY DEF BadFreeOnlyAfterFailedCreate, CreateStatusTells, ReleaseStatusTells,
           OnlyKnownLeaks
  <2> QED BY <2>1, <2>2, <2>3 DEF ResourceInv
<1>2. ResourceInv /\ [Next]_vars => ResourceInv'
  BY TypeStep, CallStep, HandleStep, PoolStep, FreeStep, CreateStep, ReleaseStep,
     LeakStep
     DEF ResourceInv
<1> QED BY <1>1, <1>2, PTL DEF Spec

(* Over any sequence of calls in which any step may fail, what is freed is *)
(* allocated, unless a schCreateTaskPool has failed and either it was      *)
(* given a structure that was not cleared or what it left behind was       *)
(* released (taskSch.c:20-29, 134-135, 289).                               *)
THEOREM BadFreesComeFromFailedCreates ==
    Spec => []BadFreeOnlyAfterFailedCreate
BY ResourceInvariant, PTL DEF ResourceInv

(* The status of schCreateTaskPool says whether the objects of the         *)
(* scheduler are there: all of them, or none but the three that nobody     *)
(* deletes.                                                                *)
THEOREM CreateTellsResources == Spec => []CreateStatusTells
BY ResourceInvariant, PTL DEF ResourceInv

(* What the status of schReleaseTaskSch says, with the codes of all joins  *)
(* and deletions combined: everything was freed but those three, or        *)
(* nothing was and a join failed.                                          *)
THEOREM ReleaseTellsResources == Spec => []ReleaseStatusTells
BY ResourceInvariant, PTL DEF ResourceInv

(* A running scheduler has a thread and the memory of a mutex for every    *)
(* pool, after any number of failed runs and of restarts.                  *)
THEOREM RunningPoolsHaveThreads == Spec => []RunningHasThreads
<1>1. ResourceInv => RunningHasThreads
  BY DEF ResourceInv, CallInv, PoolInv, RunningHasThreads
<1> QED BY <1>1, ResourceInvariant, PTL

(* What leaks, and after which failures.                                   *)
THEOREM LeaksAreKnown == Spec => []OnlyKnownLeaks
BY ResourceInvariant, PTL DEF ResourceInv

(* Every field keeps its type; in particular the combined status of a      *)
(* termination is SCH_OK or zero.                                          *)
THEOREM ResourcesTyped == Spec => []ResourceTypeOK
BY ResourceInvariant, PTL DEF ResourceInv

=============================================================================
