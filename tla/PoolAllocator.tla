--------------------------- MODULE PoolAllocator ----------------------------
(***************************************************************************)
(* The fixed-size allocator of poolAllocator.c.  A pool is one block of    *)
(* memory cut into nodes, each a next pointer followed by the item.  The   *)
(* first node is the head of the list of available nodes; its own item is  *)
(* never handed out.  Addresses are byte offsets from allocator->pool, so  *)
(* that the pointer arithmetic is the code's.  The contents of the items   *)
(* are left out, and schPoolResize, which does nothing.                    *)
(***************************************************************************)
EXTENDS Integers, Sequences

CONSTANTS
    Num,       \* alloc->num, the number of nodes
    ItemSize,  \* alloc->itemsize, in bytes
    Pointer    \* sizeof(void *), which is also sizeof(SchPoolNode)

(* With Num = 0 schInitPool writes the terminator before the block, and    *)
(* with ItemSize = 0 schPoolGetIndex divides by zero.                      *)
ASSUME NumAssumption == Num \in Nat \ {0}
ASSUME SizesAssumption == ItemSize \in Nat \ {0} /\ Pointer \in Nat \ {0}

NULL == -1

(* Where node i lies, the item of the node at n, and the node of item d.   *)
Stride == ItemSize + Pointer
NodeAt(i) == i * Stride
Data(n) == n + Pointer
NodeOf(d) == d - Pointer

Nodes == {NodeAt(i) : i \in 0 .. Num - 1}
Items == {Data(NodeAt(i)) : i \in 1 .. Num - 1}

(* The index schPoolGetIndex computes for item d.                          *)
GetIndexHalved(d) == d \div (2 * ItemSize)
GetIndex(d) == d \div ItemSize

VARIABLES
    next,    \* next[n]: the next pointer of the node at n
    live,    \* is there a pool? ("no", "yes")
    held,    \* the items the application has
    result,  \* what schPoolObtain returned last
    chain    \* history: the available nodes, in the order of the list

vars == <<next, live, held, result, chain>>

Init ==
    /\ next = [n \in Nodes |-> NULL]
    /\ live = "no"
    /\ held = {}
    /\ result = NULL
    /\ chain = <<>>

(* schPoolCreate and schInitPool.                                          *)
LinkOpenEnded(n) == n + Stride
Link(n) == IF n = NodeAt(Num - 1) THEN NULL ELSE n + Stride

Create ==
    /\ live = "no"
    /\ live' = "yes"
    /\ next' = [n \in Nodes |-> Link(n)]
    /\ held' = {}
    /\ result' = NULL
    /\ chain' = [i \in 1 .. Num - 1 |-> NodeAt(i)]

(* What takes the place of the first available node.                       *)
FirstStays == next[0]
Second == next[next[0]]

Obtain ==
    /\ live = "yes"
    /\ next[0] # NULL
    /\ next' = [next EXCEPT ![0] = Second]
    /\ held' = held \cup {Data(next[0])}
    /\ result' = Data(next[0])
    /\ chain' = Tail(chain)
    /\ UNCHANGED live

ObtainNone ==
    /\ live = "yes"
    /\ next[0] = NULL
    /\ result' = NULL
    /\ UNCHANGED <<next, live, held, chain>>

(* The application returns items it has.                                   *)
ReturnLosesRest(d) ==
    /\ live = "yes" /\ d \in held
    /\ next' = [next EXCEPT ![0] = NodeOf(d), ![NodeOf(d)] = NULL]
    /\ held' = held \ {d}
    /\ chain' = <<NodeOf(d)>> \o chain
    /\ UNCHANGED <<live, result>>

Return(d) ==
    /\ live = "yes" /\ d \in held
    /\ next' = [next EXCEPT ![NodeOf(d)] = next[0], ![0] = NodeOf(d)]
    /\ held' = held \ {d}
    /\ chain' = <<NodeOf(d)>> \o chain
    /\ UNCHANGED <<live, result>>

(* schPoolFree: every item is invalid afterwards.                          *)
Free ==
    /\ live = "yes"
    /\ live' = "no"
    /\ held' = {}
    /\ chain' = <<>>
    /\ UNCHANGED <<next, result>>

Next ==
    \/ Create \/ Obtain \/ ObtainNone \/ Free
    \/ \E d \in Items : Return(d)

Spec == Init /\ [][Next]_vars

----------------------------------------------------------------------------
(* Every pointer is the address of a node or NULL, and what is handed out  *)
(* is the item of a node other than the head.                              *)
AllocTypeOK ==
    /\ next \in [Nodes -> Nodes \cup {NULL}]
    /\ live \in {"no", "yes"}
    /\ held \subseteq Items
    /\ result \in Items \cup {NULL}
    /\ chain \in Seq(Nodes)

(* The list that starts in the head runs through the available nodes, all  *)
(* of them and in order, and ends (poolAllocator.c:19-28, 55-57, 73-74).   *)
ListIntact ==
    live = "yes" =>
        /\ next[0] = IF chain = <<>> THEN NULL ELSE chain[1]
        /\ \A i \in 1 .. Len(chain) :
               next[chain[i]] = IF i = Len(chain) THEN NULL ELSE chain[i + 1]

(* Each item is available or with the application and never both or twice  *)
(* in the list, whatever the order of obtain and return.                   *)
Available == {Data(chain[i]) : i \in 1 .. Len(chain)}

EachItemOnce ==
    live = "yes" =>
        /\ Available \cap held = {}
        /\ Available \cup held = Items
        /\ \A i, j \in 1 .. Len(chain) : chain[i] = chain[j] => i = j

(* Two items the application has never have the same index, although       *)
(* schPoolGetIndex divides by less than the distance of two nodes          *)
(* (poolAllocator.c:88): the indices are not those of the nodes, but they  *)
(* tell the items apart.                                                   *)
IndexSeparates ==
    \A d, e \in held : GetIndex(d) = GetIndex(e) => d = e

(* The allocator implements ItemPool: in particular schPoolObtain returns  *)
(* NULL only when all Num - 1 items are out, and otherwise an item nobody  *)
(* has.                                                                    *)
Promise == INSTANCE ItemPool WITH None <- NULL, available <- Available

ImplementsItemPool == Promise!Spec

=============================================================================
