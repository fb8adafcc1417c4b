------------------------------ MODULE MCEnricher ------------------------------
(* Enricher for TLC.  Address 1 is private, 2 looks local and 3 is public. *)
EXTENDS Enricher
=============================================================================
