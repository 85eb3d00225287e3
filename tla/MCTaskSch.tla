----------------------------- MODULE MCTaskSch -----------------------------
(* Instances of the running scheduler for TLC.                             *)
EXTENDS TaskSch

(* Every application thread may call everything. *)
AllCalls == [c \in Clients |-> PublicCalls]

(* Every application thread submits; none shuts the scheduler down. *)
NoShutdown == [c \in Clients |-> {"run", "submit", "wait", "stop"}]
=============================================================================
