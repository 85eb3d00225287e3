------------------------------ MODULE ItemPool ------------------------------
(***************************************************************************)
(* What the pool allocator promises: a fixed set of items, each of them    *)
(* either available or with the application, and refused to the            *)
(* application only when none is available.                                *)
(***************************************************************************)
CONSTANTS Items, None

VARIABLES available, held, result

vars == <<available, held, result>>

Init == available = {} /\ held = {} /\ result = None

Create ==
    /\ available' = Items
    /\ held' = {}
    /\ result' = None

Obtain(d) ==
    /\ d \in available
    /\ available' = available \ {d}
    /\ held' = held \cup {d}
    /\ result' = d

Refuse ==
    /\ available = {}
    /\ result' = None
    /\ UNCHANGED <<available, held>>

Return(d) ==
    /\ d \in held
    /\ available' = available \cup {d}
    /\ held' = held \ {d}
    /\ UNCHANGED result

Free ==
    /\ available' = {}
    /\ held' = {}
    /\ UNCHANGED result

Next == Create \/ Refuse \/ Free \/ \E d \in Items : Obtain(d) \/ Return(d)

Spec == Init /\ [][Next]_vars

=============================================================================
