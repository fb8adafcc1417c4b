----------------------------- MODULE MCPipeline -----------------------------
(* Pipeline on a small instance.  Events are interchangeable where the       *)
(* configuration singles none out.                                           *)
EXTENDS Pipeline, TLC

EventSymmetry == Permutations(Events \ (Refused \cup Rejected))
=============================================================================
