------------------------------- MODULE Adapters -------------------------------
(***************************************************************************)
(* The two mappers, nodes/cowrie/adapter.py and nodes/dionaea/adapter.py:  *)
(* one parsed log line in, zero or more envelopes of the contract out,     *)
(* without their event_id.  dionaea's keeps one thing between two lines:   *)
(* when each session was seen to open, in a dict (here the sequence of its *)
(* items, oldest first) of at most MaxTracked entries.                     *)
(*                                                                         *)
(* A line is a record with the fields the mapper reads.  Connection ids,   *)
(* addresses and texts are values; an origin of dionaea's stands for those *)
(* the adapter treats alike.                                               *)
(***************************************************************************)
EXTENDS Contract, Integers, Sequences, FiniteSets, SequencesExt

CONSTANTS
    Node,        \* SETTINGS.node_id of the sensor
    Protocol,    \* PROTOCOL of cowrie's adapter
    MaxTracked,  \* MAX_TRACKED_SESSIONS
    Unspecified  \* the addresses a listening socket reports

ASSUME TrackedAssumption == MaxTracked \in Nat \ {0}

ASSUME NullIsNoDuration == Null \notin Int

ASSUME NullIsNoList == Null \notin Seq(STRING \cup {Null})

Envelope(type, connection, ts, details) ==
    [node_id     |-> Node,
     event_type  |-> type,
     timestamp   |-> ts,
     session_id  |-> connection.session_id,
     attacker_ip |-> connection.attacker_ip,
     protocol    |-> connection.protocol,
     details     |-> details]

-----------------------------------------------------------------------------
(* Cowrie *)

EventTypeMap ==
    LET type(id) ==
            CASE id = "cowrie.session.connect"       -> "connection"
              [] id = "cowrie.login.failed"          -> "login_attempt"
              [] id = "cowrie.login.success"         -> "login_success"
              [] id = "cowrie.command.input"         -> "command"
              [] id = "cowrie.session.file_download" -> "file_download"
              [] id = "cowrie.session.closed"        -> "session_end"
    IN  [id \in {"cowrie.session.connect", "cowrie.login.failed", "cowrie.login.success",
                  "cowrie.command.input", "cowrie.session.file_download",
                  "cowrie.session.closed"} |-> type(id)]

BuildDetails(type, raw) ==
    CASE type = "login_attempt" ->
             [username |-> Get(raw, "username"), password |-> Get(raw, "password")]
      [] type = "login_success" -> [username |-> Get(raw, "username")]
      [] type = "command"       -> [command |-> Get(raw, "input")]
      [] type = "file_download" ->
             [download_url |-> Get(raw, "url"), file_hash |-> Get(raw, "shasum"),
              file_name    |-> Get(raw, "outfile")]
      [] type = "session_end"   ->
             [status |-> "closed", duration_seconds |-> Get(raw, "duration")]
      [] type = "connection"    ->
             [destination_ip   |-> Get(raw, "dst_ip"),
              destination_port |-> Get(raw, "dst_port"),
              source_port      |-> Get(raw, "src_port")]

CowrieEnvelopes(raw) ==
    LET eventid == Get(raw, "eventid")
        type == EventTypeMap[eventid]
    IN  IF eventid \notin DOMAIN EventTypeMap THEN <<>>
        ELSE <<Envelope(type,
                        [session_id  |-> Get(raw, "session"),
                         attacker_ip |-> Get(raw, "src_ip"),
                         protocol    |-> Protocol],
                        Get(raw, "timestamp"),
                        BuildDetails(type, raw))>>

-----------------------------------------------------------------------------
(* dionaea: the parts its two formats share *)

ProtocolMap ==
    [ftpd |-> "ftp", smbd |-> "smb", httpd |-> "http", mysqld |-> "mysql",
     mssqld |-> "mssql", SipSession |-> "sip", TftpServerHandler |-> "tftp",
     upnpd |-> "upnp", mqttd |-> "mqtt", Memcache |-> "memcache",
     mongod |-> "mongo", printerd |-> "printer", pptpd |-> "pptp",
     epmapper |-> "epmap"]

\* dionaea stamps in UTC without saying so.
ToUtcZ(ts) == IF ts # Null /\ ts.form = "naive" THEN [ts EXCEPT !.form = "utc"] ELSE ts

UsableIp(ip) == ip \in Addresses \ Unspecified

Shippable(protocol, ip) == protocol \in DOMAIN ProtocolMap /\ UsableIp(ip)

ConnectionOf(session, protocol, ip) ==
    [session_id |-> session, attacker_ip |-> ip, protocol |-> ProtocolMap[protocol]]

\* "password or None"
OrNull(v) == IF Truthy(v) THEN v ELSE Null

Masked == "***REDACTED***"

\* Mutant: the verb is compared as it was typed.
SecretAsTyped(verb) == verb = "PASS"

\* verb.upper() in SECRET_COMMANDS
Secret(verb) == verb \in {"PASS", "pass", "Pass"}

\* A verb and its arguments as one text, Null when there is no verb.
RenderCommand(verb, arguments) ==
    CASE ~Truthy(verb)      -> Null
      [] Truthy(verb) /\ Secret(verb) -> verb \o " " \o Masked
      [] Truthy(verb) /\ ~Secret(verb) ->
             IF Truthy(arguments) THEN verb \o " " \o arguments ELSE verb

-----------------------------------------------------------------------------
(* dionaea: the sessions' starts *)

Remembered(starts, s) == \E i \in DOMAIN starts : starts[i].session = s

PlaceOf(starts, s) == CHOOSE i \in DOMAIN starts : starts[i].session = s

\* Mutant: at the limit nothing more is remembered.
RememberStartUntilFull(starts, s, ts) ==
    IF Len(starts) >= MaxTracked \/ Remembered(starts, s)
    THEN starts ELSE Append(starts, [session |-> s, ts |-> ts])

\* _remember_start: at the limit the oldest entry goes, before the session is
\* looked up; a key that is in the dict keeps its place.
RememberStart(starts, s, ts) ==
    LET kept == IF Len(starts) >= MaxTracked THEN Tail(starts) ELSE starts
    IN  IF Remembered(kept, s) THEN [kept EXCEPT ![PlaceOf(kept, s)].ts = ts]
        ELSE Append(kept, [session |-> s, ts |-> ts])

\* _duration_since_start, Null when the session was not seen to open ...
DurationSinceStart(starts, s, end) ==
    IF Remembered(starts, s) THEN end.at - starts[PlaceOf(starts, s)].ts.at ELSE Null

\* ... and the pop it does.
ForgetStart(starts, s) ==
    IF Remembered(starts, s) THEN RemoveAt(starts, PlaceOf(starts, s)) ELSE starts

-----------------------------------------------------------------------------
(* dionaea: log_incident, one line per incident *)

KnownOrigins == {"connection", "login", "command", "download", "free"}

\* The early returns of from_incident that ship nothing and change nothing.
Representable(raw) ==
    /\ Get(raw, "timestamp") # Null
    /\ Truthy(Get(raw, "id"))
    /\ raw.origin \in KnownOrigins
    /\ Shippable(Get(raw, "protocol"), Get(raw, "remote_ip"))

IncidentDetails(starts, raw, ts) ==
    CASE raw.origin = "connection" ->
             [destination_ip   |-> Get(raw, "local_ip"),
              destination_port |-> Get(raw, "local_port"),
              source_port      |-> Get(raw, "remote_port")]
      [] raw.origin = "login" ->
             [username |-> Get(raw, "username"), password |-> OrNull(Get(raw, "password"))]
      [] raw.origin = "command" ->
             [command |-> RenderCommand(Get(raw, "command"), Get(raw, "arguments"))]
      [] raw.origin = "download" ->
             [download_url |-> Get(raw, "url"), file_hash |-> Get(raw, "md5hash"),
              file_name    |-> Get(raw, "file")]
      [] raw.origin = "free" ->
             LET duration == DurationSinceStart(starts, raw.id, ts)
             IN  IF duration = Null THEN [status |-> "closed"]
                 ELSE [status |-> "closed", duration_seconds |-> duration]

IncidentTypes ==
    [connection |-> "connection", login |-> "login_attempt", command |-> "command",
     download |-> "file_download", free |-> "session_end"]

FromIncident(starts, raw) ==
    LET ts == ToUtcZ(Get(raw, "timestamp"))
        details == IncidentDetails(starts, raw, ts)
    IN  IF \/ ~Representable(raw)
           \/ raw.origin = "command" /\ details.command = Null
        THEN <<>>
        ELSE <<Envelope(IncidentTypes[raw.origin],
                        ConnectionOf(raw.id, Get(raw, "protocol"), Get(raw, "remote_ip")),
                        ts, details)>>

StartsAfterIncident(starts, raw) ==
    CASE Representable(raw) /\ raw.origin = "connection" ->
             RememberStart(starts, raw.id, ToUtcZ(raw.timestamp))
      [] Representable(raw) /\ raw.origin = "free" -> ForgetStart(starts, raw.id)
      [] OTHER -> starts

-----------------------------------------------------------------------------
(* dionaea: log_json, one line per connection *)

\* flat_data is on: what would be a list of objects is an object of lists.
Flat(raw) == "flat" \in DOMAIN raw /\ raw.flat

\* "found.get(key) or []"
ListOf(found, key) == IF Get(found, key) = Null THEN <<>> ELSE found[key]

\* The credentials and the FTP commands come as a list of objects or, with
\* flat_data, as an object of lists, of which the second may be the shorter.
Pairs(found, flat, first, second) ==
    LET firsts == ListOf(found, first)
        seconds == ListOf(found, second)
    IN  IF flat
        THEN [i \in DOMAIN firsts |->
                 <<firsts[i], IF i \in DOMAIN seconds THEN seconds[i] ELSE Null>>]
        ELSE [i \in DOMAIN found |-> <<Get(found[i], first), Get(found[i], second)>>]

Credentials(raw) ==
    IF "credentials" \in DOMAIN raw
    THEN Pairs(raw.credentials, Flat(raw), "username", "password") ELSE <<>>

FtpCommands(raw) ==
    IF "ftp" \in DOMAIN raw
    THEN Pairs(raw.ftp, Flat(raw), "command", "arguments") ELSE <<>>

\* Those that render_command has a text for, in their order.
WithVerb(commands) ==
    LET kept == {i \in DOMAIN commands : Truthy(commands[i][1])}
    IN  [n \in 1 .. Cardinality(kept) |->
            commands[CHOOSE i \in kept : Cardinality(kept \cap 1 .. i) = n]]

\* The lists of a record are lists of objects or, with flat_data, of texts.
ListsAreLists(raw) ==
    \A key \in {"credentials", "ftp"} \cap DOMAIN raw :
        LET found == raw[key]
        IN  IF Flat(raw)
            THEN \A name \in DOMAIN found : ListOf(found, name) \in Seq(STRING \cup {Null})
            ELSE found \in Seq(Range(found))

\* minted_session_id hashes the five fields that identify the connection.
MintedSessionId(raw) ==
    ToString([key \in {"src_ip", "src_port", "dst_ip", "dst_port", "timestamp"} |-> Get(raw, key)])

FromConnectionRecord(raw) ==
    LET ts == ToUtcZ(Get(raw, "timestamp"))
        connection == ConnectionOf(MintedSessionId(raw), Get(raw, "protocol"), Get(raw, "src_ip"))
        opening == Envelope("connection", connection, ts,
                            [destination_ip   |-> Get(raw, "dst_ip"),
                             destination_port |-> Get(raw, "dst_port"),
                             source_port      |-> Get(raw, "src_port")])
        login(pair) == Envelope("login_attempt", connection, ts,
                                [username |-> pair[1], password |-> OrNull(pair[2])])
        command(pair) == Envelope("command", connection, ts,
                                  [command |-> RenderCommand(pair[1], pair[2])])
        rendered == WithVerb(FtpCommands(raw))
        closing == Envelope("session_end", connection, ts, [status |-> "closed"])
        logins == Credentials(raw)
    IN  IF \/ Get(raw, "type") \notin {"accept", "reject"}
           \/ ts = Null
           \/ ~Shippable(Get(raw, "protocol"), Get(raw, "src_ip"))
        THEN <<>>
        ELSE <<opening>> \o [i \in DOMAIN logins |-> login(logins[i])]
                \o [i \in DOMAIN rendered |-> command(rendered[i])] \o <<closing>>

-----------------------------------------------------------------------------

\* build_envelopes of the adapter of a honeypot ...
BuildEnvelopes(honeypot, starts, raw) ==
    CASE honeypot = "cowrie" -> CowrieEnvelopes(raw)
      [] honeypot = "dionaea" /\ "origin" \in DOMAIN raw -> FromIncident(starts, raw)
      [] honeypot = "dionaea" /\ "origin" \notin DOMAIN raw -> FromConnectionRecord(raw)

\* ... and what it leaves in _session_starts.
StartsAfter(honeypot, starts, raw) ==
    IF honeypot = "dionaea" /\ "origin" \in DOMAIN raw
    THEN StartsAfterIncident(starts, raw) ELSE starts
=============================================================================
