-------------------------------- MODULE MCFeed --------------------------------
(* Feed for TLC: two alerts of one address, and an export of the CSV files. *)
EXTENDS Feed

MCAlert ==
    <<[ip |-> "i1", type |-> "scan", severity |-> 2, time |-> 0],
      [ip |-> "i1", type |-> "command", severity |-> 3, time |-> 1]>>

MCRequests == {<<"csv">>}
=============================================================================
