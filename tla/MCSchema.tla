-------------------------------- MODULE MCSchema --------------------------------
(* Schema for TLC. *)
EXTENDS Schema
=============================================================================
