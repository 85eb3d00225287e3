----------------------------- MODULE PoolSpec ------------------------------
(***************************************************************************)
(* What the scheduler promises of its pools: a pool that is open accepts   *)
(* packages up to its capacity, runs them one at a time in the order in    *)
(* which they were accepted, and is closed only when nothing is left.      *)
(***************************************************************************)
EXTENDS Naturals, Sequences

CONSTANTS Pools, Capacity, Tasks

VARIABLES
    open,      \* the pools that have a thread
    queued,    \* queued[p]: accepted and not started
    running,   \* running[p]: the task in progress, as a sequence of at most one
    finished   \* finished[p]: completed, in order

vars == <<open, queued, running, finished>>

Init ==
    /\ open = {}
    /\ queued = [p \in Pools |-> <<>>]
    /\ running = [p \in Pools |-> <<>>]
    /\ finished = [p \in Pools |-> <<>>]

Open(p) ==
    /\ p \notin open
    /\ open' = open \cup {p}
    /\ UNCHANGED <<queued, running, finished>>

Accept(p, t) ==
    /\ p \in open
    /\ Len(queued[p]) < Capacity
    /\ queued' = [queued EXCEPT ![p] = Append(@, t)]
    /\ UNCHANGED <<open, running, finished>>

Start(p) ==
    /\ p \in open
    /\ running[p] = <<>> /\ queued[p] # <<>>
    /\ running' = [running EXCEPT ![p] = <<Head(queued[p])>>]
    /\ queued' = [queued EXCEPT ![p] = Tail(@)]
    /\ UNCHANGED <<open, finished>>

Finish(p) ==
    /\ p \in open
    /\ running[p] # <<>>
    /\ finished' = [finished EXCEPT ![p] = Append(@, Head(running[p]))]
    /\ running' = [running EXCEPT ![p] = <<>>]
    /\ UNCHANGED <<open, queued>>

Close(p) ==
    /\ p \in open
    /\ queued[p] = <<>> /\ running[p] = <<>>
    /\ open' = open \ {p}
    /\ UNCHANGED <<queued, running, finished>>

Next ==
    \E p \in Pools :
        \/ Open(p) \/ Start(p) \/ Finish(p) \/ Close(p)
        \/ \E t \in Tasks : Accept(p, t)

Spec == Init /\ [][Next]_vars

=============================================================================
