------------------------------- MODULE MCAlerts -------------------------------
(* Alerts on a small instance: one address, seen by two nodes, and three      *)
(* deployments, of one engine and of two that run the same rule.              *)
EXTENDS Alerts, TLC

CONSTANTS e1, e2, e3, ip1, n1, n2, s1, u1, g1, g2

Login(node) == [type |-> "login_attempt", ip |-> ip1, session |-> s1, node |-> node,
                user |-> u1, risk |-> 0]
Command(node) == [type |-> "command", ip |-> ip1, session |-> s1, node |-> node,
                  user |-> Null, risk |-> 3]

TwoLoginsAndACommand ==
    (e1 :> Login(n1)) @@ (e2 :> Login(n1)) @@ (e3 :> Command(n2))

OneOrTwoEngines ==
    {g1 :> <<"brute_force", "suspicious_command", "multi_node_scan">>,
     g1 :> <<"high_risk_ip", "suspicious_command">>,
     (g1 :> <<"brute_force", "multi_node_scan">>) @@ (g2 :> <<"multi_node_scan">>)}

OneScore == {<<80, 0>>}
=============================================================================
