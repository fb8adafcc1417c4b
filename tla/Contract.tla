------------------------------- MODULE Contract -------------------------------
(***************************************************************************)
(* The event contract (Baseline v1.3), which four places enforce apart,    *)
(* because a sensor host cannot import the aggregator's code:              *)
(*                                                                         *)
(*   SensorAccepts    shipper/validator.py  validate_event                 *)
(*   BackfillAccepts  shipper/backfill.py   contract_problems              *)
(*   ModelAccepts     collector/models.py   Event, which judges a batch    *)
(*                                          as one                         *)
(*   StorageAccepts   common/db/validation.py validate_event, which judges *)
(*                                          each event of a batch          *)
(*                                                                         *)
(* An envelope is a function from the names of its fields, so that a field *)
(* that is absent is told apart from one that is null; `details` is one    *)
(* too.  A timestamp is its form and the moment it names.                  *)
(***************************************************************************)

CONSTANTS
    Null,        \* JSON null, and what dict.get answers for a missing key
    Addresses,   \* those ipaddress.ip_address parses
    ModelNodes,  \* the Literal of models.py
    KnownNodes   \* config.KNOWN_NODES, which the environment can extend

ASSUME NullIsNoAddress == {Null, "", " "} \cap Addresses = {}

EventTypes == {"connection", "login_attempt", "login_success", "command",
               "file_download", "session_end", "heartbeat"}

TopLevelFields == {"event_id", "node_id", "event_type", "timestamp",
                   "session_id", "attacker_ip", "protocol", "details"}

\* What a heartbeat has null, and nothing else has.
AttackerFields == {"session_id", "attacker_ip", "protocol"}

AllowedDetails ==
    [heartbeat     |-> {"status", "agent_version"},
     connection    |-> {"destination_ip", "destination_port", "source_port"},
     login_attempt |-> {"username", "password"},
     login_success |-> {"username"},
     command       |-> {"command"},
     file_download |-> {"download_url", "file_hash", "file_name"},
     session_end   |-> {"status", "duration_seconds"}]

RequiredDetails(type) ==
    CASE type = "login_attempt" -> {"username"}
      [] type = "command"       -> {"command"}
      [] type = "session_end"   -> {"status"}
      [] OTHER                  -> {}

AllowedProtocols ==
    {"ssh", "telnet", "ftp", "smb", "http", "mysql", "mssql", "sip",
     "tftp", "upnp", "mqtt", "memcache", "mongo", "printer", "pptp", "epmap"}

Get(f, key) == IF key \in DOMAIN f THEN f[key] ELSE Null

Truthy(v) == v \notin {Null, ""}

\* isinstance(v, str) and v.strip()
Filled(v) == v \notin {Null, "", " "}

\* What datetime.fromisoformat and pydantic read; the regular expression of
\* common/db takes the first form only.
ParsedForms == {"utc", "naive", "offset"}

-----------------------------------------------------------------------------

SensorAccepts(e) ==
    /\ TopLevelFields \subseteq DOMAIN e
    /\ e["event_type"] \in EventTypes
    /\ e["protocol"] = Null \/ e["protocol"] \in AllowedProtocols
    /\ DOMAIN e["details"] \subseteq AllowedDetails[e["event_type"]]
    /\ {"username", "password"} \cap DOMAIN e = {}

DownloadNamed(d) == Truthy(Get(d, "download_url")) \/ Truthy(Get(d, "file_hash"))

\* Mutant: a value that is there is enough, a blank one too.
BackfillAcceptsBlank(e) ==
    /\ SensorAccepts(e)
    /\ e["timestamp"] # Null /\ e["timestamp"].form \in ParsedForms
    /\ e["event_type"] # "heartbeat" =>
           /\ \A field \in AttackerFields : Truthy(e[field])
           /\ e["attacker_ip"] \in Addresses
    /\ \A key \in RequiredDetails(e["event_type"]) : Truthy(Get(e["details"], key))
    /\ e["event_type"] = "file_download" => DownloadNamed(e["details"])

BackfillAccepts(e) ==
    /\ SensorAccepts(e)
    /\ e["timestamp"] # Null /\ e["timestamp"].form \in ParsedForms
    /\ e["event_type"] # "heartbeat" =>
           /\ \A field \in AttackerFields : Truthy(e[field])
           /\ e["attacker_ip"] \in Addresses
    /\ \A key \in RequiredDetails(e["event_type"]) : Filled(Get(e["details"], key))
    /\ e["event_type"] = "file_download" => DownloadNamed(e["details"])

\* extra="forbid"; the id is a UUID wherever it is minted.
ModelAccepts(e) ==
    /\ DOMAIN e = TopLevelFields
    /\ e["node_id"] \in ModelNodes
    /\ e["event_type"] \in EventTypes
    /\ e["timestamp"] # Null /\ e["timestamp"].form \in ParsedForms
    /\ e["attacker_ip"] # Null => e["attacker_ip"] \in Addresses
    /\ IF e["event_type"] = "heartbeat"
       THEN /\ \A field \in AttackerFields : e[field] = Null
            /\ Filled(Get(e["details"], "status"))
       ELSE /\ \A field \in AttackerFields : Truthy(e[field])
            /\ \A key \in RequiredDetails(e["event_type"]) :
                   Filled(Get(e["details"], key))
            /\ e["event_type"] = "file_download" => DownloadNamed(e["details"])

\* _validate_details
DetailsAccepted(type, d) ==
    /\ DOMAIN d \subseteq AllowedDetails[type]
    /\ \A key \in RequiredDetails(type) : Truthy(Get(d, key))
    /\ type = "heartbeat" => Truthy(Get(d, "status"))
    /\ type = "file_download" => DownloadNamed(d)

StorageAccepts(e) ==
    /\ DOMAIN e = TopLevelFields
    /\ e["event_type"] \in EventTypes
    /\ e["node_id"] \in KnownNodes
    /\ e["timestamp"] # Null /\ e["timestamp"].form = "utc"
    /\ \A field \in AttackerFields :
           IF e["event_type"] = "heartbeat" THEN e[field] = Null ELSE Truthy(e[field])
    /\ e["protocol"] = Null \/ e["protocol"] \in AllowedProtocols
    /\ DetailsAccepted(e["event_type"], e["details"])
=============================================================================
