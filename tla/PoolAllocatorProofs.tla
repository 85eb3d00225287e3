------------------------ MODULE PoolAllocatorProofs ------------------------
(***************************************************************************)
(* The pool allocator implements ItemPool, for any number of nodes and any *)
(* size of the items.                                                      *)
(***************************************************************************)
EXTENDS PoolAllocator, RingArithmetic, SequenceTheorems, TLAPS

----------------------------------------------------------------------------
(* Addresses.                                                              *)

(* Nodes lie apart: a later node has a larger address.                     *)
LEMMA NodesApart ==
    /\ Stride \in Nat \ {0}
    /\ \A i \in Nat : NodeAt(i) \in Nat
    /\ \A i, j \in Nat : i < j => NodeAt(i) + Stride <= NodeAt(j)
    /\ NodeAt(0) = 0
    /\ \A i \in Nat : NodeAt(i + 1) = NodeAt(i) + Stride
<1>1. Stride \in Nat \ {0}
  BY SizesAssumption DEF Stride
<1>2. ASSUME NEW i \in Nat, NEW j \in Nat, i < j
      PROVE  NodeAt(i) + Stride <= NodeAt(j)
  <2>1. PICK k \in Nat : j = i + 1 + k
    <3>1. j - i - 1 \in Nat /\ j = i + 1 + (j - i - 1)
      BY <1>2
    <3> QED BY <3>1
  <2>2. j * Stride = i * Stride + Stride + k * Stride /\ k * Stride \in Nat
        /\ i * Stride \in Nat
    BY <1>1, <2>1
  <2> QED BY <1>1, <2>2 DEF NodeAt
<1> QED BY <1>1, <1>2 DEF NodeAt

(* What the steps need to know of nodes and items.                         *)
LEMMA Addresses ==
    /\ 0 \in Nodes /\ Nodes \subseteq Nat /\ NULL \notin Nodes
    /\ \A n \in Nodes : n # 0 => Data(n) \in Items
    /\ \A n \in Nodes : NodeOf(Data(n)) = n
    /\ \A d \in Items : /\ d \in Nat /\ d # NULL
                        /\ NodeOf(d) \in Nodes /\ NodeOf(d) # 0
                        /\ Data(NodeOf(d)) = d
    /\ \A n \in Nodes : Link(n) \in Nodes \cup {NULL}
<1>1. 0 \in Nodes /\ Nodes \subseteq Nat /\ NULL \notin Nodes
  <2>1. 0 \in 0 .. Num - 1 /\ 0 .. Num - 1 \subseteq Nat
    BY NumAssumption
  <2>2. Nodes \subseteq Nat /\ 0 \in Nodes
    BY <2>1, NodesApart DEF Nodes
  <2> QED BY <2>2 DEF NULL
<1>2. ASSUME NEW n \in Nodes, n # 0 PROVE Data(n) \in Items
  <2>1. PICK i \in 0 .. Num - 1 : n = NodeAt(i)
    BY DEF Nodes
  <2>2. i \in 1 .. Num - 1
    BY <1>2, <2>1, NodesApart, NumAssumption
  <2> QED BY <2>1, <2>2 DEF Items
<1>3. ASSUME NEW n \in Nodes PROVE NodeOf(Data(n)) = n
  BY <1>1, SizesAssumption DEF NodeOf, Data
<1>4. ASSUME NEW d \in Items
      PROVE  /\ d \in Nat /\ d # NULL
             /\ NodeOf(d) \in Nodes /\ NodeOf(d) # 0 /\ Data(NodeOf(d)) = d
  <2>1. PICK i \in 1 .. Num - 1 : d = Data(NodeAt(i))
    BY DEF Items
  <2>2. NodeAt(i) \in Nodes /\ i \in Nat /\ 0 < i
    BY <2>1, NumAssumption DEF Nodes
  <2>3. NodeAt(i) # 0 /\ NodeAt(i) \in Nat
    <3>1. NodeAt(0) + Stride <= NodeAt(i)
      BY <2>2, NodesApart
    <3> QED BY <2>2, <3>1, NodesApart
  <2>4. NodeOf(d) = NodeAt(i)
    BY <2>1, <2>2, <1>3
  <2>5. d \in Nat /\ d # NULL
    BY <2>1, <2>3, SizesAssumption DEF Data, NULL
  <2> QED BY <2>1, <2>2, <2>3, <2>4, <2>5
<1>5. ASSUME NEW n \in Nodes, n # NodeAt(Num - 1) PROVE n + Stride \in Nodes
  <2>1. PICK i \in 0 .. Num - 1 : n = NodeAt(i)
    BY DEF Nodes
  <2>2. i + 1 \in 0 .. Num - 1 /\ i \in Nat
    BY <1>5, <2>1, NumAssumption
  <2> QED BY <2>1, <2>2, NodesApart DEF Nodes
<1> QED BY <1>1, <1>2, <1>3, <1>4, <1>5 DEF Link

(* Different items of the pool have different indices.                     *)
LEMMA IndicesDiffer ==
    ASSUME NEW d \in Items, NEW e \in Items, GetIndex(d) = GetIndex(e)
    PROVE  d = e
<1>1. ASSUME NEW i \in 1 .. Num - 1, NEW j \in 1 .. Num - 1, i < j
      PROVE  GetIndex(Data(NodeAt(i))) # GetIndex(Data(NodeAt(j)))
  <2> DEFINE x == Data(NodeAt(i))
             y == Data(NodeAt(j))
  <2>0. i \in Nat /\ j \in Nat
    BY NumAssumption
  <2>1. NodeAt(i) + Stride <= NodeAt(j) /\ NodeAt(i) \in Nat /\ NodeAt(j) \in Nat
    BY <1>1, <2>0, NodesApart
  <2>2. x \in Nat /\ y \in Nat /\ x + ItemSize < y
    BY <2>1, SizesAssumption DEF Data, Stride
  <2> HIDE DEF x, y
  <2>3. /\ x = ItemSize * (x \div ItemSize) + (x % ItemSize)
        /\ y = ItemSize * (y \div ItemSize) + (y % ItemSize)
        /\ x % ItemSize \in 0 .. ItemSize - 1 /\ y % ItemSize \in 0 .. ItemSize - 1
        /\ x \div ItemSize \in Nat /\ y \div ItemSize \in Nat
    BY <2>2, SizesAssumption, DivMod
  <2>4. x \div ItemSize # y \div ItemSize
    <3> DEFINE q == x \div ItemSize
               r == x % ItemSize
               s == y % ItemSize
    <3> SUFFICES ASSUME q = y \div ItemSize PROVE FALSE
      OBVIOUS
    <3>1. x = ItemSize * q + r /\ y = ItemSize * q + s
          /\ r \in 0 .. ItemSize - 1 /\ s \in 0 .. ItemSize - 1
          /\ ItemSize * q \in Nat
      BY <2>3, SizesAssumption
    <3> HIDE DEF q, r, s
    <3> QED BY <2>2, <3>1, SizesAssumption
  <2> QED BY <2>4 DEF GetIndex, x, y
<1>2. PICK i \in 1 .. Num - 1, j \in 1 .. Num - 1 :
        d = Data(NodeAt(i)) /\ e = Data(NodeAt(j))
  BY DEF Items
<1>3. i < j \/ j < i \/ i = j
  BY NumAssumption
<1> QED BY <1>1, <1>2, <1>3

----------------------------------------------------------------------------
(* The list.                                                               *)

AllocInv == AllocTypeOK /\ ListIntact /\ EachItemOnce

(* The nodes in the list are not the head, and their items are items.      *)
LEMMA ChainNodes ==
    ASSUME AllocInv, live = "yes", NEW i \in 1 .. Len(chain)
    PROVE  chain[i] \in Nodes /\ chain[i] # 0 /\ Data(chain[i]) \in Items \ held
<1>1. chain[i] \in Nodes
  BY DEF AllocInv, AllocTypeOK
<1>2. Data(chain[i]) \in Items \ held
  BY DEF AllocInv, EachItemOnce, Available
<1> QED BY <1>1, <1>2, Addresses

(* The list schInitPool builds.                                            *)
LEMMA CreateStep ==
    ASSUME Create PROVE AllocInv'
<1> DEFINE ch == [i \in 1 .. Num - 1 |-> NodeAt(i)]
<1>0. chain' = ch /\ live' = "yes" /\ held' = {} /\ result' = NULL
      /\ next' = [n \in Nodes |-> Link(n)]
  BY DEF Create
<1>1. \A i \in 1 .. Num - 1 : NodeAt(i) \in Nodes
  BY NumAssumption DEF Nodes
<1>2. ch \in Seq(Nodes) /\ Len(ch) = Num - 1
  <2>1. Num - 1 \in Nat
    BY NumAssumption
  <2>2. ch \in [1 .. Num - 1 -> Nodes]
    BY <1>1
  <2> QED BY <2>1, <2>2, LenProperties
<1>3. AllocTypeOK'
  BY <1>0, <1>2, Addresses DEF AllocTypeOK
<1>4. ASSUME NEW i \in 0 .. Num - 1
      PROVE  Link(NodeAt(i)) = IF i = Num - 1 THEN NULL ELSE NodeAt(i + 1)
  <2>1. i \in Nat /\ Num - 1 \in Nat
    BY NumAssumption
  <2>2. CASE i < Num - 1
    <3>1. NodeAt(i) # NodeAt(Num - 1)
      BY <2>1, <2>2, NodesApart
    <3> QED BY <2>1, <2>2, <3>1, NodesApart DEF Link
  <2>3. CASE i = Num - 1
    BY <2>3 DEF Link
  <2> QED BY <2>1, <2>2, <2>3
<1>5. ListIntact'
  <2>1. next'[0] = IF Num - 1 = 0 THEN NULL ELSE NodeAt(1)
    <3>1. 0 \in 0 .. Num - 1 /\ NodeAt(0) = 0 /\ 0 + 1 = 1
      BY NumAssumption, NodesApart
    <3>2. Link(0) = IF 0 = Num - 1 THEN NULL ELSE NodeAt(1)
      BY <1>4, <3>1
    <3> QED BY <1>0, <3>2, Addresses
  <2>2. ASSUME NEW i \in 1 .. Num - 1
        PROVE  next'[NodeAt(i)] = IF i = Num - 1 THEN NULL ELSE NodeAt(i + 1)
    <3>1. i \in 0 .. Num - 1
      BY NumAssumption
    <3> QED BY <1>0, <1>1, <1>4, <3>1
  <2>3. ch = <<>> <=> Num - 1 = 0
    BY <1>2, EmptySeq
  <2>4. \A i \in 1 .. Num - 1 : i # Num - 1 => i + 1 \in 1 .. Num - 1
    BY NumAssumption
  <2>5. Num - 1 # 0 => 1 \in 1 .. Num - 1
    BY NumAssumption
  <2> QED BY <1>0, <1>2, <2>1, <2>2, <2>3, <2>4, <2>5 DEF ListIntact
<1>6. EachItemOnce'
  <2>1. Available' = {Data(NodeAt(i)) : i \in 1 .. Num - 1}
    BY <1>0, <1>2 DEF Available
  <2>2. ASSUME NEW i \in 1 .. Num - 1, NEW j \in 1 .. Num - 1,
               NodeAt(i) = NodeAt(j)
        PROVE  i = j
    <3>1. i \in Nat /\ j \in Nat /\ (i < j \/ j < i \/ i = j)
      BY NumAssumption
    <3>2. \A k, l \in Nat : k < l => NodeAt(k) # NodeAt(l)
      BY NodesApart
    <3> QED BY <2>2, <3>1, <3>2
  <2> QED BY <1>0, <1>2, <2>1, <2>2 DEF EachItemOnce, Items
<1> QED BY <1>3, <1>5, <1>6 DEF AllocInv

(* Obtain takes the first node off the list.                               *)
LEMMA ObtainStep ==
    ASSUME AllocInv, Obtain
    PROVE  /\ AllocInv'
           /\ Data(next[0]) \in Available
           /\ Available' = Available \ {Data(next[0])}
<1> DEFINE t == next[0]
           rest == Tail(chain)
<1>1. chain \in Seq(Nodes) /\ chain # <<>> /\ t = chain[1] /\ live = "yes"
  BY DEF AllocInv, AllocTypeOK, ListIntact, Obtain
<1>2. 1 \in 1 .. Len(chain) /\ Len(chain) \in Nat
  BY <1>1, EmptySeq, LenProperties
<1>3. t \in Nodes /\ t # 0 /\ Data(t) \in Items \ held
  BY <1>1, <1>2, ChainNodes
<1>4. /\ rest \in Seq(Nodes) /\ Len(rest) = Len(chain) - 1
      /\ \A i \in 1 .. Len(rest) : rest[i] = chain[i + 1] /\ i + 1 \in 1 .. Len(chain)
  BY <1>1, <1>2
<1>5. /\ next' = [next EXCEPT ![0] = next[t]] /\ chain' = rest
      /\ held' = held \cup {Data(t)} /\ result' = Data(t) /\ live' = "yes"
  BY DEF Obtain, Second
<1> HIDE DEF rest
<1>6. next[t] = IF 1 = Len(chain) THEN NULL ELSE chain[1 + 1]
  BY <1>1, <1>2 DEF AllocInv, ListIntact
<1>7. AllocTypeOK'
  <2>1. next[t] \in Nodes \cup {NULL}
    BY <1>3 DEF AllocInv, AllocTypeOK
  <2> QED BY <1>3, <1>4, <1>5, <2>1, Addresses DEF AllocInv, AllocTypeOK
<1>8. ListIntact'
  <2>1. rest = <<>> <=> Len(chain) = 1
    BY <1>2, <1>4, EmptySeq
  <2>2. next'[0] = IF rest = <<>> THEN NULL ELSE rest[1]
    BY <1>2, <1>4, <1>5, <1>6, <2>1, Addresses DEF AllocInv, AllocTypeOK
  <2>3. ASSUME NEW i \in 1 .. Len(rest)
        PROVE  next'[rest[i]] = IF i = Len(rest) THEN NULL ELSE rest[i + 1]
    <3>1. rest[i] = chain[i + 1] /\ i + 1 \in 1 .. Len(chain)
      BY <1>4
    <3>2. next'[rest[i]] = next[chain[i + 1]]
      BY <1>1, <1>5, <3>1, ChainNodes DEF AllocInv, AllocTypeOK
    <3>3. next[chain[i + 1]]
            = IF i + 1 = Len(chain) THEN NULL ELSE chain[i + 1 + 1]
      BY <1>1, <3>1 DEF AllocInv, ListIntact
    <3>4. i = Len(rest) <=> i + 1 = Len(chain)
      BY <1>2, <1>4
    <3>5. i # Len(rest) => rest[i + 1] = chain[i + 1 + 1]
      BY <1>2, <1>4
    <3> QED BY <3>2, <3>3, <3>4, <3>5
  <2> QED BY <1>5, <2>2, <2>3 DEF ListIntact
<1>9. ASSUME NEW i \in 1 .. Len(chain), i # 1 PROVE Data(chain[i]) # Data(t)
  <2>1. chain[i] # t
    BY <1>1, <1>2, <1>9 DEF AllocInv, EachItemOnce
  <2> QED BY <1>1, <1>3, <2>1, ChainNodes, Addresses
<1>10. Available' = Available \ {Data(t)}
  <2>1. Available' = {Data(rest[i]) : i \in 1 .. Len(rest)}
    BY <1>5 DEF Available
  <2>2. \A i \in 1 .. Len(chain) : i # 1 =>
          i - 1 \in 1 .. Len(rest) /\ rest[i - 1] = chain[i]
    BY <1>2, <1>4
  <2>3. \A i \in 1 .. Len(rest) : Data(rest[i]) # Data(t)
    <3>1. \A i \in 1 .. Len(rest) : i + 1 # 1
      BY <1>2, <1>4
    <3>2. \A i \in 1 .. Len(rest) : Data(chain[i + 1]) # Data(t)
      BY <1>4, <1>9, <3>1
    <3> QED BY <1>4, <3>2
  <2>4. ASSUME NEW i \in 1 .. Len(rest)
        PROVE  Data(rest[i]) \in Available \ {Data(t)}
    BY <1>4, <2>3 DEF Available
  <2>5. ASSUME NEW i \in 1 .. Len(chain), Data(chain[i]) # Data(t)
        PROVE  Data(chain[i]) \in Available'
    <3>1. i # 1
      BY <1>1, <2>5
    <3> QED BY <2>1, <2>2, <3>1
  <2> QED BY <2>1, <2>4, <2>5 DEF Available
<1>11. EachItemOnce'
  <2>1. \A i, j \in 1 .. Len(rest) : rest[i] = rest[j] => i = j
    <3> SUFFICES ASSUME NEW i \in 1 .. Len(rest), NEW j \in 1 .. Len(rest),
                        rest[i] = rest[j]
                 PROVE  i = j
      OBVIOUS
    <3>1. i + 1 = j + 1
      BY <1>1, <1>4 DEF AllocInv, EachItemOnce
    <3> QED BY <3>1
  <2>2. Data(t) \in Available
    BY <1>1, <1>2 DEF Available
  <2> QED BY <1>1, <1>5, <1>10, <2>1, <2>2 DEF AllocInv, EachItemOnce
<1> QED BY <1>1, <1>2, <1>7, <1>8, <1>10, <1>11 DEF AllocInv, Available

(* Return puts the node of a held item in front of the list.               *)
LEMMA ReturnStep ==
    ASSUME AllocInv, NEW d \in Items, Return(d)
    PROVE  AllocInv' /\ Available' = Available \cup {d}
<1> DEFINE n == NodeOf(d)
           longer == <<n>> \o chain
<1>1. live = "yes" /\ d \in held /\ chain \in Seq(Nodes) /\ Len(chain) \in Nat
  BY LenProperties DEF Return, AllocInv, AllocTypeOK
<1>2. n \in Nodes /\ n # 0 /\ Data(n) = d
  BY Addresses
<1>3. /\ next' = [next EXCEPT ![n] = next[0], ![0] = n] /\ chain' = longer
      /\ held' = held \ {d} /\ live' = "yes" /\ result' = result
  BY DEF Return
<1> HIDE DEF n
<1>4. /\ longer \in Seq(Nodes) /\ Len(longer) = Len(chain) + 1 /\ longer # <<>>
      /\ longer[1] = n
      /\ \A i \in 1 .. Len(chain) : longer[i + 1] = chain[i]
  BY <1>1, <1>2
<1>5. \A i \in 1 .. Len(longer) : i = 1 \/ i - 1 \in 1 .. Len(chain)
  BY <1>1, <1>4
<1> HIDE DEF longer
<1>6. AllocTypeOK'
  BY <1>1, <1>2, <1>3, <1>4, Addresses DEF AllocInv, AllocTypeOK
<1>7. ASSUME NEW i \in 1 .. Len(chain) PROVE chain[i] # n
  BY <1>1, <1>2, ChainNodes
<1>8. ListIntact'
  <2>1. next'[0] = n /\ next'[n] = next[0]
    BY <1>2, <1>3, Addresses DEF AllocInv, AllocTypeOK
  <2>2. ASSUME NEW i \in 1 .. Len(chain) PROVE next'[chain[i]] = next[chain[i]]
    BY <1>1, <1>3, <1>7, ChainNodes DEF AllocInv, AllocTypeOK
  <2>3. next'[longer[1]] = IF 1 = Len(longer) THEN NULL ELSE longer[1 + 1]
    <3>1. next[0] = IF chain = <<>> THEN NULL ELSE chain[1]
      BY <1>1 DEF AllocInv, ListIntact
    <3>2. chain = <<>> <=> Len(chain) = 0
      BY <1>1, EmptySeq
    <3>3. chain # <<>> => 1 \in 1 .. Len(chain)
      BY <1>1, <3>2
    <3> QED BY <1>1, <1>4, <2>1, <3>1, <3>2, <3>3
  <2>4. ASSUME NEW i \in 1 .. Len(chain)
        PROVE  next'[longer[i + 1]]
                 = IF i + 1 = Len(longer) THEN NULL ELSE longer[i + 1 + 1]
    <3>1. next[chain[i]] = IF i = Len(chain) THEN NULL ELSE chain[i + 1]
      BY <1>1 DEF AllocInv, ListIntact
    <3>2. i # Len(chain) => i + 1 \in 1 .. Len(chain)
      BY <1>1
    <3>3. i + 1 = Len(longer) <=> i = Len(chain)
      BY <1>1, <1>4
    <3> QED BY <1>4, <2>2, <3>1, <3>2, <3>3
  <2>5. ASSUME NEW i \in 1 .. Len(longer)
        PROVE  next'[longer[i]] = IF i = Len(longer) THEN NULL ELSE longer[i + 1]
    <3>1. CASE i = 1
      BY <2>3, <3>1
    <3>2. CASE i - 1 \in 1 .. Len(chain)
      <4>1. i - 1 + 1 = i
        OBVIOUS
      <4> QED BY <2>4, <3>2, <4>1
    <3> QED BY <1>5, <3>1, <3>2
  <2> QED BY <1>3, <1>4, <2>1, <2>5 DEF ListIntact
<1>9. Available' = Available \cup {d}
  <2>1. Available' = {Data(longer[i]) : i \in 1 .. Len(longer)}
    BY <1>3 DEF Available
  <2>2. \A i \in 1 .. Len(chain) : i + 1 \in 1 .. Len(longer)
    BY <1>1, <1>4
  <2>3. 1 \in 1 .. Len(longer)
    BY <1>1, <1>4
  <2>4. \A i \in 1 .. Len(longer) :
          Data(longer[i]) = d \/ \E j \in 1 .. Len(chain) : longer[i] = chain[j]
    <3> SUFFICES ASSUME NEW i \in 1 .. Len(longer)
                 PROVE Data(longer[i]) = d
                       \/ \E j \in 1 .. Len(chain) : longer[i] = chain[j]
      OBVIOUS
    <3>1. CASE i = 1
      BY <1>2, <1>4, <3>1
    <3>2. CASE i - 1 \in 1 .. Len(chain)
      <4>1. i - 1 + 1 = i
        OBVIOUS
      <4> QED BY <1>4, <3>2, <4>1
    <3> QED BY <1>5, <3>1, <3>2
  <2>5. ASSUME NEW i \in 1 .. Len(chain) PROVE Data(chain[i]) \in Available'
    BY <1>4, <2>1, <2>2
  <2>6. d \in Available'
    BY <1>2, <1>4, <2>1, <2>3
  <2> QED BY <2>1, <2>4, <2>5, <2>6 DEF Available
<1>10. EachItemOnce'
  <2>1. ASSUME NEW i \in 1 .. Len(longer), NEW j \in 1 .. Len(longer),
               longer[i] = longer[j]
        PROVE  i = j
    <3>1. i \in Int /\ j \in Int /\ i - 1 + 1 = i /\ j - 1 + 1 = j
      OBVIOUS
    <3>2. ASSUME NEW k \in 1 .. Len(longer), k # 1
          PROVE  k - 1 \in 1 .. Len(chain) /\ longer[k] = chain[k - 1]
      <4>1. k - 1 \in 1 .. Len(chain) /\ k - 1 + 1 = k
        BY <1>5, <3>2
      <4> QED BY <1>4, <4>1
    <3>3. CASE i = 1 \/ j = 1
      BY <1>4, <1>7, <2>1, <3>2, <3>3
    <3>4. CASE i # 1 /\ j # 1
      <4>1. i - 1 = j - 1
        BY <1>1, <2>1, <3>2, <3>4 DEF AllocInv, EachItemOnce
      <4> QED BY <3>1, <4>1
    <3> QED BY <3>3, <3>4
  <2> QED BY <1>1, <1>3, <1>9, <2>1 DEF AllocInv, EachItemOnce
<1> QED BY <1>6, <1>8, <1>9, <1>10 DEF AllocInv

(* Without a pool there is nothing to say.                                 *)
LEMMA FreeStep == ASSUME AllocInv, Free PROVE AllocInv'
<1>1. <<>> \in Seq(Nodes)
  OBVIOUS
<1> QED BY <1>1 DEF Free, AllocInv, AllocTypeOK, ListIntact, EachItemOnce

(* The initial state.                                                      *)
LEMMA AllocInit == Init => AllocInv
<1>1. <<>> \in Seq(Nodes)
  OBVIOUS
<1> QED
  BY <1>1, Addresses DEF Init, AllocInv, AllocTypeOK, ListIntact, EachItemOnce

(* Every step keeps the list.                                              *)
LEMMA AllocStep == AllocInv /\ [Next]_vars => AllocInv'
<1> SUFFICES ASSUME AllocInv, [Next]_vars PROVE AllocInv'
  OBVIOUS
<1>1. CASE ObtainNone
  BY <1>1 DEF ObtainNone, AllocInv, AllocTypeOK, ListIntact, EachItemOnce,
              Available
<1>2. CASE UNCHANGED vars
  BY <1>2 DEF vars, AllocInv, AllocTypeOK, ListIntact, EachItemOnce, Available
<1> QED
  BY <1>1, <1>2, CreateStep, ObtainStep, ReturnStep, FreeStep DEF Next

----------------------------------------------------------------------------
(* It holds throughout.                                                    *)
LEMMA AllocInvariant == Spec => []AllocInv
BY AllocInit, AllocStep, PTL DEF Spec

(* Every link that schPoolObtain and schPoolReturn follow or store is a    *)
(* node of the pool or NULL, and the head node is never handed out.        *)
THEOREM AllocatorTyped == Spec => []AllocTypeOK
<1>1. AllocInv => AllocTypeOK
  BY DEF AllocInv
<1> QED BY <1>1, AllocInvariant, PTL

(* The list of available nodes is never broken, in any order of obtain and *)
(* return (poolAllocator.c: schPoolObtain, schPoolReturn).                 *)
THEOREM ListNeverBreaks == Spec => []ListIntact
<1>1. AllocInv => ListIntact
  BY DEF AllocInv
<1> QED BY <1>1, AllocInvariant, PTL

(* No item is in the list twice or while the application has it.           *)
THEOREM ItemsStayApart == Spec => []EachItemOnce
<1>1. AllocInv => EachItemOnce
  BY DEF AllocInv
<1> QED BY <1>1, AllocInvariant, PTL

(* schPoolGetIndex tells the items of the application apart, for every     *)
(* item size.                                                              *)
THEOREM IndicesSeparate == Spec => []IndexSeparates
<1>1. AllocInv => IndexSeparates
  BY IndicesDiffer DEF AllocInv, AllocTypeOK, IndexSeparates
<1> QED BY <1>1, AllocInvariant, PTL

(* The allocator is a pool of Num - 1 items: schPoolObtain hands out an    *)
(* item that nobody has, and NULL only if there is none.                   *)
THEOREM AllocatorImplementsItemPool == Spec => ImplementsItemPool
<1>1. Init => Promise!Init
  BY DEF Init, Promise!Init, Available
<1>2. AllocInv /\ [Next]_vars => [Promise!Next]_(Promise!vars)
  <2> SUFFICES ASSUME AllocInv, [Next]_vars
               PROVE  [Promise!Next]_(Promise!vars)
    OBVIOUS
  <2>1. CASE Create
    <3>1. Available' = Items
      <4>1. AllocInv'
        BY <2>1, CreateStep
      <4> QED BY <2>1, <4>1 DEF Create, AllocInv, EachItemOnce
    <3> QED BY <2>1, <3>1 DEF Create, Promise!Next, Promise!Create
  <2>2. CASE Obtain
    <3>1. Data(next[0]) \in Available /\ Available' = Available \ {Data(next[0])}
      BY <2>2, ObtainStep
    <3>2. Data(next[0]) \in Items
      BY <2>2, <3>1 DEF Obtain, AllocInv, EachItemOnce
    <3> QED BY <2>2, <3>1, <3>2 DEF Obtain, Promise!Next, Promise!Obtain
  <2>3. CASE ObtainNone
    <3>1. chain = <<>>
      <4> SUFFICES ASSUME chain # <<>> PROVE FALSE
        OBVIOUS
      <4>1. next[0] = chain[1] /\ 1 \in 1 .. Len(chain)
        BY <2>3, EmptySeq DEF ObtainNone, AllocInv, AllocTypeOK, ListIntact
      <4> QED BY <2>3, <4>1, ChainNodes, Addresses DEF ObtainNone
    <3>2. Available = {} /\ Available' = Available
      BY <2>3, <3>1 DEF ObtainNone, Available
    <3> QED BY <2>3, <3>2 DEF ObtainNone, Promise!Next, Promise!Refuse
  <2>4. ASSUME NEW d \in Items, Return(d) PROVE Promise!Next
    BY <2>4, ReturnStep DEF Return, Promise!Next, Promise!Return
  <2>5. CASE Free
    BY <2>5 DEF Free, Available, Promise!Next, Promise!Free
  <2>6. CASE UNCHANGED vars
    BY <2>6 DEF vars, Promise!vars, Available
  <2> QED BY <2>1, <2>2, <2>3, <2>4, <2>5, <2>6 DEF Next
<1> QED
  BY <1>1, <1>2, AllocInit, AllocStep, PTL
  DEF Spec, ImplementsItemPool, Promise!Spec

=============================================================================
