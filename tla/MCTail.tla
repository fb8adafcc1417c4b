-------------------------------- MODULE MCTail --------------------------------
(* Tail on a small instance. *)
EXTENDS Tail
=============================================================================
