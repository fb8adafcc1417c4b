------------------------------ MODULE MCBackfill ------------------------------
(* Backfill for TLC: the lines two honeypots may write. *)
EXTENDS Backfill

Naive(t) == [form |-> "naive", at |-> t]
Utc(t) == [form |-> "utc", at |-> t]

Incident(origin, id, t) ==
    [origin |-> origin, timestamp |-> Naive(t), id |-> id,
     protocol |-> "ftpd", remote_ip |-> "198.51.100.7"]

\* One connection with a login and three commands, of which one has no verb.
Record ==
    [type |-> "accept", timestamp |-> Naive(1), protocol |-> "ftpd", flat |-> TRUE,
     src_ip |-> "198.51.100.7", src_port |-> "2", dst_ip |-> "192.0.2.1", dst_port |-> "21",
     credentials |-> [username |-> <<"root">>, password |-> <<>>],
     ftp |-> [command |-> <<"PASS", "">>, arguments |-> <<"hunter2">>]]

Connects(id, t) == Incident("connection", id, t)

\* A password sent as an FTP command.
Pass(id, t) == Incident("command", id, t) @@ [command |-> "pass", arguments |-> "hunter2"]

Incidents == {Connects("s1", 1), Incident("free", "s1", 2)}

CowrieLine(eventid, t) ==
    [eventid |-> eventid, timestamp |-> Utc(t), session |-> "c1", src_ip |-> "198.51.100.7"]

\* A command, an attacker who presses Enter, a line without an address.
CowrieLines ==
    {CowrieLine("cowrie.command.input", 0) @@ [input |-> "ls"],
     CowrieLine("cowrie.command.input", 1) @@ [input |-> " "],
     [CowrieLine("cowrie.login.success", 1) EXCEPT !.src_ip = Null]}

\* One line; two archives, of which one may become; two sessions that overlap.
MCHistories ==
    [cowrie  |-> {<<<<CowrieLine("cowrie.session.connect", 0)>>>>},
     dionaea |-> {<<<<Pass("s2", 0)>>>>,
                  <<<<Connects("s2", 0)>>, <<Record>>>>,
                  <<<<Connects("s2", 0), Connects("s1", 1)>>>>}]

MCRaws == [cowrie |-> CowrieLines, dionaea |-> Incidents]
=============================================================================
