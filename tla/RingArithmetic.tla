--------------------------- MODULE RingArithmetic ---------------------------
(***************************************************************************)
(* Facts about positions in a ring of n slots: the arithmetic of the head  *)
(* and tail updates of schQueueMutexEnDeQueue (taskSch.c:425 and 428).     *)
(***************************************************************************)
EXTENDS Integers, TLAPS

(* Quotient and remainder of a position.                                   *)
LEMMA DivMod ==
    ASSUME NEW n \in Nat \ {0}, NEW x \in Nat
    PROVE  /\ x = n * (x \div n) + (x % n)
           /\ x \div n \in Nat
           /\ x % n \in 0 .. n - 1
  BY SMTT(20)

(* A decomposition into a multiple of n and a slot determines the slot.    *)
LEMMA ModUnique ==
    ASSUME NEW n \in Nat \ {0}, NEW q \in Nat, NEW r \in 0 .. n - 1
    PROVE  (n * q + r) % n = r
  BY SMTT(20)

(* A position inside the ring is its own slot.                             *)
LEMMA ModSmall ==
    ASSUME NEW n \in Nat \ {0}, NEW x \in 0 .. n - 1
    PROVE  x % n = x
  BY SMTT(20)

(* Once around the ring is the same slot.                                  *)
LEMMA ModAround ==
    ASSUME NEW n \in Nat \ {0}, NEW x \in Nat
    PROVE  (x + n) % n = x % n
<1> DEFINE q == x \div n
           r == x % n
<1>1. x = n * q + r /\ q \in Nat /\ r \in 0 .. n - 1
  BY DivMod
<1>2. x + n = n * (q + 1) + r
  BY <1>1
<1> HIDE DEF q, r
<1>3. (n * (q + 1) + r) % n = r
  <2>1. q + 1 \in Nat
    BY <1>1
  <2> QED BY <2>1, <1>1, ModUnique
<1> QED BY ONLY <1>2, <1>3 DEF r

(* Advancing a slot by one is advancing the position by one: the tail      *)
(* after an enqueue.                                                       *)
LEMMA ModSucc ==
    ASSUME NEW n \in Nat \ {0}, NEW x \in Nat
    PROVE  ((x % n) + 1) % n = (x + 1) % n
<1> DEFINE q == x \div n
           r == x % n
<1>1. x = n * q + r /\ q \in Nat /\ r \in 0 .. n - 1
  BY DivMod
<1>2. CASE r + 1 < n
  <2>1. x + 1 = n * q + (r + 1)
    BY <1>1
  <2>2. r + 1 \in 0 .. n - 1
    BY <1>1, <1>2
  <2> HIDE DEF q, r
  <2>3. (n * q + (r + 1)) % n = r + 1
    BY <2>2, <1>1, ModUnique
  <2>4. (r + 1) % n = r + 1
    BY <2>2, ModSmall
  <2> QED BY ONLY <2>1, <2>3, <2>4 DEF r
<1>3. CASE r + 1 = n
  <2>1. x + 1 = n * (q + 1) + 0
    BY <1>1, <1>3
  <2>2. q + 1 \in Nat /\ 0 \in 0 .. n - 1
    BY <1>1
  <2> HIDE DEF q, r
  <2>3. (n * (q + 1) + 0) % n = 0
    BY <2>2, ModUnique
  <2>4. (r + 1) % n = 0
    BY <1>3, SMT
  <2> QED BY ONLY <2>1, <2>3, <2>4 DEF r
<1> QED BY <1>1, <1>2, <1>3

(* Moving the head one slot on and counting one package less reaches the   *)
(* same tail: the ring after a dequeue.                                    *)
LEMMA ModDequeue ==
    ASSUME NEW n \in Nat \ {0}, NEW h \in 0 .. n - 1, NEW s \in Nat \ {0}
    PROVE  (((h + 1) % n) + (s - 1)) % n = (h + s) % n
<1>1. CASE h + 1 < n
  <2>1. (h + 1) % n = h + 1
    BY <1>1, ModSmall
  <2> QED BY <2>1
<1>2. CASE h + 1 = n
  <2>1. (h + 1) % n = 0
    BY <1>2, SMT
  <2>2. s - 1 \in Nat /\ h + s = (s - 1) + n
    BY <1>2
  <2>3. ((s - 1) + n) % n = (s - 1) % n
    BY <2>2, ModAround
  <2> QED BY <2>1, <2>2, <2>3
<1> QED BY <1>1, <1>2

(* Positions less than a round apart are different slots.                  *)
LEMMA ModDistinct ==
    ASSUME NEW n \in Nat \ {0}, NEW h \in Nat,
           NEW i \in 0 .. n - 1, NEW j \in 0 .. n - 1, i < j
    PROVE  (h + i) % n # (h + j) % n
<1> DEFINE q == (h + i) \div n
           s == (h + j) \div n
           r == (h + i) % n
<1> SUFFICES ASSUME (h + j) % n = r PROVE FALSE
  OBVIOUS
<1>0. h + i \in Nat /\ h + j \in Nat
  OBVIOUS
<1>1. h + i = n * q + r /\ q \in Nat /\ r \in 0 .. n - 1
  BY <1>0, DivMod
<1>2. h + j = n * s + r /\ s \in Nat
  BY <1>0, DivMod
<1> HIDE DEF q, s, r
<1>3. n * s - n * q = j - i /\ n * s \in Int /\ n * q \in Int
  BY <1>1, <1>2
<1>4. n * (s - q) = j - i
  BY <1>1, <1>2, <1>3
<1>5. j - i \in 1 .. n - 1 /\ s - q \in Int
  BY <1>1, <1>2
<1>6. \A d \in Int : n * d <= 0 \/ n * d >= n
  BY SMTT(20)
<1> QED BY <1>4, <1>5, <1>6

(* The tail is the slot before the head only when one slot is left.        *)
LEMMA ModLastSlot ==
    ASSUME NEW n \in Nat \ {0}, NEW c \in 0 .. n - 1, NEW s \in 0 .. n - 1,
           (((c + 1) % n) + s) % n = c
    PROVE  s = n - 1
<1> SUFFICES ASSUME s + 1 \in 0 .. n - 1 PROVE FALSE
  OBVIOUS
<1>1. (((c + 1) % n) + ((s + 1) - 1)) % n = (c + (s + 1)) % n
  BY ModDequeue
<1>2. (c + 0) % n # (c + (s + 1)) % n
  BY ModDistinct
<1>3. (s + 1) - 1 = s /\ (c + 0) % n = c
  BY ModSmall
<1> QED BY <1>1, <1>2, <1>3
=============================================================================
