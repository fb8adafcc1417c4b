------------------------------ MODULE MCStorage ------------------------------
(* Storage on a small instance. *)
EXTENDS Storage
=============================================================================
