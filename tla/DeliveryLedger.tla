--------------------------- MODULE DeliveryLedger ---------------------------
(***************************************************************************)
(* What the path from a sensor to the database promises of each event, and *)
(* nothing of how: once submitted it is held somewhere, until it is stored *)
(* for good; where the environment may lose it, it is lost for good.       *)
(***************************************************************************)
CONSTANTS
    Events,
    MayLose   \* the environment is one in which a held event can be lost

VARIABLE fate

Fates == {"unborn", "held", "stored", "lost"}

Moves ==
    {<<f, f>> : f \in Fates}
        \cup {<<"unborn", "held">>, <<"held", "stored">>}
        \cup (IF MayLose THEN {<<"held", "lost">>} ELSE {})

Init == fate = [e \in Events |-> "unborn"]

\* A transaction, an answer or a crash may decide several events at once.
Next ==
    /\ fate' \in [Events -> Fates]
    /\ \A e \in Events : <<fate[e], fate'[e]>> \in Moves

Spec == Init /\ [][Next]_fate
=============================================================================
