------------------------------ MODULE MCDHeap ------------------------------
(* Instances of the pool heap for TLC. *)
EXTENDS DHeap

(* A callback is quicker than what a submission adds. *)
Short == {0}
=============================================================================
