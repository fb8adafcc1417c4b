-------------------------------- MODULE Alerts --------------------------------
(***************************************************************************)
(* The alert engine: common/alerting/alert_engine.py and rules.py over the *)
(* events, reputation and alerts tables.                                   *)
(*                                                                         *)
(* Engines are passes that run independently: the cycle thread of serve, a *)
(* watch process, a command.  Each query and each transaction of a pass is *)
(* a step.  Events are stored in any order and with any timestamp, and     *)
(* operators change alerts and open them again, while passes run.  Times   *)
(* are minutes; severities are those of SEVERITY_ORDER.                    *)
(***************************************************************************)
EXTENDS Integers, FiniteSets, FiniteSetsExt, Functions, Sequences, SequencesExt

CONSTANTS
    Engines,       \* who may run passes
    Deployments,   \* the engines that do, with the ENABLED_RULES of their processes
    Events,        \* event ids
    Event,         \* what each event says: type, ip, session, node, user, risk
    Scores,        \* abuse and profile scores an address may be given, as pairs
    Window,        \* ALERT_WINDOW_MINUTES
    Cooldown,      \* ALERT_COOLDOWN_MINUTES
    BruteForceThreshold, CredentialSprayThreshold, MultiNodeScanThreshold,
    HighRiskScore, \* HIGH_RISK_SCORE_THRESHOLD
    Statuses,      \* what operators set an alert to
    MaxTime,       \* bound on clock and timestamps
    MaxFailure,    \* bound: rules that raise and passes that end early
    Null           \* SQL's NULL, and no row

Rules == {"brute_force", "credential_spray", "high_risk_ip", "suspicious_command",
          "malware_staging", "multi_node_scan", "post_auth_activity"}

Time == 0 .. MaxTime
Ips == {Event[e].ip : e \in Events} \ {Null}
Sessions == {Event[e].session : e \in Events} \ {Null}

ASSUME AlertsAssumption ==
    /\ \A d \in Deployments : /\ DOMAIN d \subseteq Engines
                               /\ \A g \in DOMAIN d : d[g] \in Seq(Rules) /\ d[g] # <<>>
    /\ {Window, Cooldown, BruteForceThreshold, CredentialSprayThreshold,
        MultiNodeScanThreshold, HighRiskScore, MaxTime, MaxFailure} \subseteq Nat
    /\ IsFiniteSet(Events)
    /\ \A e \in Events : Event[e].risk \in 0 .. 3
    /\ Scores \subseteq Nat \X Nat
    /\ Statuses \subseteq {"open", "acknowledged", "closed"}
    /\ Null \notin Nat

VARIABLES
    enabled,     \* the deployment: the rules of each engine, in their order
    log,         \* the timestamp each event is stored with, Null before that
    reputation,  \* the reputation row of each address
    alerts,      \* the alerts table: a row for each alert_id in its domain
    now,         \* SQLite's clock
    pc,          \* where each engine is
    since,       \* since, a local of evaluate
    rules,       \* the rules it has still to run in this pass
    findings,    \* its findings, those that are not yet persisted
    insert,      \* the finding insert_alert has found no recent alert for
    came,        \* history: the alerts that came up, or were opened again, since
    failures     \* failures so far

tables == <<log, reputation, alerts>>
engine == <<pc, since, rules, findings, insert>>
vars == <<tables, now, enabled, engine, came, failures>>

Init ==
    /\ enabled \in Deployments
    /\ log = [e \in Events |-> Null]
    /\ reputation = [ip \in Ips |-> Null]
    /\ alerts = <<>>
    /\ now = 0
    /\ pc = [g \in Engines |-> "idle"]
    /\ since = [g \in Engines |-> 0]
    /\ rules = [g \in Engines |-> <<>>]
    /\ findings = [g \in Engines |-> {}]
    /\ insert = [g \in Engines |-> Null]
    /\ came = [g \in Engines |-> {}]
    /\ failures = 0

\* What some engine runs.
Enabled == UNION {ToSet(enabled[g]) : g \in DOMAIN enabled}

-----------------------------------------------------------------------------
(* What else goes on *)

Tick ==
    /\ now < MaxTime
    /\ now' = now + 1
    /\ UNCHANGED <<tables, enabled, engine, came, failures>>

\* An event is stored, late or in order, or by a sensor whose clock is ahead.
StoreEvent(e, ts) ==
    /\ log[e] = Null
    /\ log' = [log EXCEPT ![e] = ts]
    /\ UNCHANGED <<reputation, alerts, now, enabled, engine, came, failures>>

\* upsert_reputation: an abuse score that could not be had keeps the one there is, and
\* the row is dated as the record is, which may be an old one from the cache.
UpsertReputation(ip, abuse, profile, updated) ==
    LET known == IF reputation[ip] = Null THEN 0 ELSE reputation[ip].abuse
    IN  /\ reputation' = [reputation EXCEPT ![ip] =
               [abuse |-> IF abuse = Null THEN known ELSE abuse,
                profile |-> profile, updated |-> updated]]
        /\ UNCHANGED <<log, alerts, now, enabled, engine, came, failures>>

\* With these alerts come up, for the engines between their check and their insert.
CameUp(ids) == [g \in Engines |-> IF pc[g] = "insert" THEN came[g] \cup ids ELSE {}]

\* The dashboard's only write: Ack, Close and Reopen.
SetAlertStatus(k, status) ==
    /\ alerts' = [alerts EXCEPT ![k].status = status]
    /\ came' = CameUp(IF status = "open" /\ alerts[k].status # "open" THEN {k} ELSE {})
    /\ UNCHANGED <<log, reputation, now, enabled, engine, failures>>

-----------------------------------------------------------------------------
(* The rules.  The id of an alert is its dedupe_key: the rule, what it is   *)
(* about, and what makes it recur.                                          *)

Finding(rule, about, recurs, ip, time, severity) ==
    [id |-> <<rule, about, recurs>>, ip |-> ip, time |-> time, severity |-> severity]

Bucket(time) == time \div Max({Window, 1})

Stored == {e \in Events : log[e] # Null}

\* Mutant: an event at the edge of the window is outside.
AfterSince(from) == {e \in Stored : log[e] > from}

\* timestamp >= :since
Seen(from) == {e \in Stored : log[e] >= from}

LastTs(S) == Max({log[e] : e \in S})

From(S, ip) == {e \in S : Event[e].ip = ip}

OfType(S, types) == {e \in S : Event[e].type \in types}

\* Mutant: one attempt too few.
BruteForceEarly(from) ==
    LET attempts(ip) == From(OfType(Seen(from), {"login_attempt"}), ip)
    IN  {Finding("brute_force", ip, <<Bucket(LastTs(attempts(ip)))>>, ip, LastTs(attempts(ip)), 2) :
            ip \in {ip \in Ips : attempts(ip) # {} /\
                                 Cardinality(attempts(ip)) + 1 >= BruteForceThreshold}}

BruteForce(from) ==
    LET attempts(ip) == From(OfType(Seen(from), {"login_attempt"}), ip)
    IN  {Finding("brute_force", ip, <<Bucket(LastTs(attempts(ip)))>>, ip, LastTs(attempts(ip)),
                 IF Cardinality(attempts(ip)) >= 4 * BruteForceThreshold THEN 3 ELSE 2) :
            ip \in {ip \in Ips : attempts(ip) # {} /\
                                 Cardinality(attempts(ip)) >= BruteForceThreshold}}

CredentialSpray(from) ==
    LET tries(ip) == {e \in From(OfType(Seen(from), {"login_attempt", "login_success"}), ip) :
                         Event[e].user # Null}
    IN  {Finding("credential_spray", ip, <<Bucket(LastTs(tries(ip)))>>, ip, LastTs(tries(ip)), 2) :
            ip \in {ip \in Ips : tries(ip) # {} /\
                Cardinality({Event[e].user : e \in tries(ip)}) >= CredentialSprayThreshold}}

HighRisk(from) ==
    {Finding("high_risk_ip", ip, <<reputation[ip].abuse \div 10, reputation[ip].profile \div 10>>,
             ip, reputation[ip].updated, 3) :
        ip \in {ip \in Ips : reputation[ip] # Null /\
            (reputation[ip].abuse >= HighRiskScore \/ reputation[ip].profile >= HighRiskScore)}}

SuspiciousCommand(from) ==
    {Finding("suspicious_command", e, <<>>, Event[e].ip, log[e], Event[e].risk) :
        e \in {e \in OfType(Seen(from), {"command"}) : Event[e].ip # Null /\ Event[e].risk > 0}}

MalwareStaging(from) ==
    {Finding("malware_staging", e, <<>>, Event[e].ip, log[e], 3) :
        e \in {e \in OfType(Seen(from), {"file_download"}) : Event[e].ip # Null}}

MultiNodeScan(from) ==
    LET nodes(ip) == Cardinality({Event[e].node : e \in From(Seen(from), ip)})
        last(ip) == LastTs(From(Seen(from), ip))
    IN  {Finding("multi_node_scan", ip, <<nodes(ip), Bucket(last(ip))>>, ip, last(ip),
                 IF nodes(ip) = 2 THEN 2 ELSE 3) :
            ip \in {ip \in Ips : From(Seen(from), ip) # {} /\ nodes(ip) >= MultiNodeScanThreshold}}

\* The join pairs each success of a session with each of its commands.
PostAuthActivity(from) ==
    LET logins(s, ip, n) == {e \in From(OfType(Stored, {"login_success"}), ip) :
                                Event[e].session = s /\ Event[e].node = n}
        commands(s) == {e \in OfType(Seen(from), {"command"}) : Event[e].session = s}
    IN  {Finding("post_auth_activity", Event[l].session,
                 <<Cardinality(logins(Event[l].session, Event[l].ip, Event[l].node))
                       * Cardinality(commands(Event[l].session))>>,
                 Event[l].ip, LastTs(commands(Event[l].session)), 3) :
            l \in {l \in OfType(Stored, {"login_success"}) :
                      /\ Event[l].session # Null /\ Event[l].ip # Null
                      /\ commands(Event[l].session) # {}}}

Rule(r, from) ==
    CASE r = "brute_force" -> BruteForce(from)
      [] r = "credential_spray" -> CredentialSpray(from)
      [] r = "high_risk_ip" -> HighRisk(from)
      [] r = "suspicious_command" -> SuspiciousCommand(from)
      [] r = "malware_staging" -> MalwareStaging(from)
      [] r = "multi_node_scan" -> MultiNodeScan(from)
      [] r = "post_auth_activity" -> PostAuthActivity(from)

-----------------------------------------------------------------------------
(* A pass: run_once *)

\* window_start: the newest event's timestamp, or the clock if there is none.
WindowStart == (IF Stored = {} THEN now ELSE LastTs(Stored)) - Window

Begin(g) ==
    /\ g \in DOMAIN enabled /\ pc[g] = "idle"
    /\ pc' = [pc EXCEPT ![g] = "evaluate"]
    /\ since' = [since EXCEPT ![g] = WindowStart]
    /\ rules' = [rules EXCEPT ![g] = enabled[g]]
    /\ UNCHANGED <<tables, now, enabled, findings, insert, came, failures>>

NextRule(g) ==
    /\ pc[g] = "evaluate"
    /\ rules' = [rules EXCEPT ![g] = Tail(@)]
    /\ pc' = [pc EXCEPT ![g] = IF Len(rules[g]) = 1 THEN "persist" ELSE @]
    /\ since' = [since EXCEPT ![g] = IF Len(rules[g]) = 1 THEN 0 ELSE @]

RunRule(g) ==
    /\ NextRule(g)
    /\ findings' = [findings EXCEPT ![g] = @ \cup Rule(Head(rules[g]), since[g])]
    /\ UNCHANGED <<tables, now, enabled, insert, came, failures>>

\* "A rule that raises is logged and skipped."
RuleRaises(g) ==
    /\ failures < MaxFailure
    /\ NextRule(g)
    /\ failures' = failures + 1
    /\ UNCHANGED <<tables, now, enabled, findings, insert, came>>

\* evaluate sorts by severity, then time, the highest first.
Foremost(S) ==
    {f \in S : \A h \in S : \/ f.severity > h.severity
                            \/ f.severity = h.severity /\ f.time >= h.time}

\* persist: no cooldown for the rules that are about one event.
CooldownOf(rule) == IF rule \in {"suspicious_command", "malware_staging"} THEN 0 ELSE Cooldown

\* Mutant: the age is counted backwards.
RecentBackwards(f) ==
    {k \in DOMAIN alerts :
        /\ alerts[k].ip = f.ip /\ k[1] = f.id[1]
        /\ alerts[k].status = "open"
        /\ alerts[k].time - now >= CooldownOf(f.id[1])}

\* An open alert for the same address and type, younger than the cooldown.
Recent(f) ==
    {k \in DOMAIN alerts :
        /\ alerts[k].ip = f.ip /\ k[1] = f.id[1]
        /\ alerts[k].status = "open"
        /\ now - alerts[k].time < CooldownOf(f.id[1])}

\* insert_alert up to its transaction; a finding that is cooled down is dropped.
CheckCooldown(g) ==
    /\ pc[g] = "persist"
    /\ \E f \in Foremost(findings[g]) :
        /\ findings' = [findings EXCEPT ![g] = @ \ {f}]
        /\ IF CooldownOf(f.id[1]) > 0 /\ Recent(f) # {}
           THEN UNCHANGED <<pc, insert>>
           ELSE /\ pc' = [pc EXCEPT ![g] = "insert"]
                /\ insert' = [insert EXCEPT ![g] = f]
    /\ UNCHANGED <<tables, now, enabled, since, rules, came, failures>>

Row(f) == [ip |-> f.ip, time |-> f.time, severity |-> f.severity, status |-> "open"]

\* Mutant: INSERT OR REPLACE.
InsertOrReplace(g) ==
    /\ pc[g] = "insert"
    /\ alerts' = [k \in DOMAIN alerts \cup {insert[g].id} |->
                     IF k = insert[g].id THEN Row(insert[g]) ELSE alerts[k]]
    /\ pc' = [pc EXCEPT ![g] = "persist"]
    /\ insert' = [insert EXCEPT ![g] = Null]
    /\ came' = [CameUp({insert[g].id} \ DOMAIN alerts) EXCEPT ![g] = {}]
    /\ UNCHANGED <<log, reputation, now, enabled, since, rules, findings, failures>>

\* INSERT OR IGNORE.
InsertAlert(g) ==
    /\ pc[g] = "insert"
    /\ alerts' = [k \in DOMAIN alerts \cup {insert[g].id} |->
                     IF k \in DOMAIN alerts THEN alerts[k] ELSE Row(insert[g])]
    /\ pc' = [pc EXCEPT ![g] = "persist"]
    /\ insert' = [insert EXCEPT ![g] = Null]
    /\ came' = [CameUp({insert[g].id} \ DOMAIN alerts) EXCEPT ![g] = {}]
    /\ UNCHANGED <<log, reputation, now, enabled, since, rules, findings, failures>>

Finish(g) ==
    /\ pc[g] = "persist"
    /\ findings[g] = {}
    /\ pc' = [pc EXCEPT ![g] = "idle"]
    /\ UNCHANGED <<tables, now, enabled, since, rules, findings, insert, came, failures>>

\* The database is locked for too long, or the process ends: nothing is kept.
PassFails(g) ==
    /\ failures < MaxFailure
    /\ pc[g] # "idle"
    /\ failures' = failures + 1
    /\ pc' = [pc EXCEPT ![g] = "idle"]
    /\ rules' = [rules EXCEPT ![g] = <<>>]
    /\ findings' = [findings EXCEPT ![g] = {}]
    /\ insert' = [insert EXCEPT ![g] = Null]
    /\ came' = [came EXCEPT ![g] = {}]
    /\ since' = [since EXCEPT ![g] = 0]
    /\ UNCHANGED <<tables, now, enabled>>

-----------------------------------------------------------------------------
EngineStep(g) ==
    \/ Begin(g)
    \/ RunRule(g)
    \/ CheckCooldown(g)
    \/ InsertAlert(g)
    \/ Finish(g)

Environment ==
    \/ Tick
    \/ \E e \in Events, ts \in Time : StoreEvent(e, ts)
    \/ \E ip \in Ips, s \in Scores, known \in BOOLEAN, updated \in 0 .. now :
          UpsertReputation(ip, IF known THEN s[1] ELSE Null, s[2], updated)
    \/ \E k \in DOMAIN alerts, status \in Statuses : SetAlertStatus(k, status)

Next ==
    \/ Environment
    \/ \E g \in DOMAIN enabled : EngineStep(g) \/ RuleRaises(g) \/ PassFails(g)

Spec == Init /\ [][Next]_vars

\* cycle_loop and cmd_watch catch what a pass raises and run the next one.
FairSpec == Spec /\ \A g \in Engines : WF_vars(EngineStep(g))

-----------------------------------------------------------------------------
(* Properties *)

AlertRow == [ip : Ips, time : Time, severity : 1 .. 3, status : {"open", "acknowledged", "closed"}]

IsFinding(f) ==
    /\ f = Finding(f.id[1], f.id[2], f.id[3], f.ip, f.time, f.severity)
    /\ f.id[1] \in Enabled
    /\ f.ip \in Ips /\ f.time \in Time /\ f.severity \in 1 .. 3

\* The tables and a pass keep their types; an engine between passes holds nothing.
TypeOK ==
    /\ enabled \in Deployments
    /\ log \in [Events -> Time \cup {Null}]
    /\ reputation \in [Ips -> [abuse : Nat, profile : Nat, updated : Time] \cup {Null}]
    /\ \A k \in DOMAIN alerts : k[1] \in Enabled /\ alerts[k] \in AlertRow
    /\ now \in Time
    /\ failures \in 0 .. MaxFailure
    /\ pc \in [Engines -> {"idle", "evaluate", "persist", "insert"}]
    /\ since \in [Engines -> Int]
    /\ rules \in [Engines -> Seq(Enabled)]
    /\ DOMAIN findings = Engines /\ DOMAIN insert = Engines
    /\ \A g \in Engines :
        /\ rules[g] # <<>> <=> pc[g] = "evaluate"
        /\ \A f \in findings[g] : IsFinding(f)
        /\ pc[g] = "idle" => findings[g] = {}
        /\ IF pc[g] = "insert" THEN IsFinding(insert[g]) ELSE insert[g] = Null
    /\ came \in [Engines -> SUBSET DOMAIN alerts]

\* The stored events an alert can rest on: those of its address, none newer than itself.
Basis(ip, time) == {e \in From(Stored, ip) : log[e] <= time}

InSession(s, type) == {e \in OfType(Stored, {type}) : Event[e].session = s}

Backed(id, ip, time) ==
    /\ id[1] = "brute_force" =>
           Cardinality(OfType(Basis(ip, time), {"login_attempt"})) >= BruteForceThreshold
    /\ id[1] = "credential_spray" =>
           Cardinality({Event[e].user : e \in Basis(ip, time)} \ {Null}) >= CredentialSprayThreshold
    /\ id[1] = "multi_node_scan" =>
           /\ Cardinality({Event[e].node : e \in Basis(ip, time)}) >= MultiNodeScanThreshold
           /\ id[3][1] \in 0 .. Cardinality({Event[e].node : e \in Basis(ip, time)})
    /\ id[1] \in {"suspicious_command", "malware_staging"} => id[2] \in Basis(ip, time)
    /\ id[1] = "post_auth_activity" =>
           InSession(id[2], "login_success") # {} /\ InSession(id[2], "command") # {}
    /\ id[1] # "high_risk_ip" => \E e \in Stored : log[e] = time

\* What an alert asserts is in the event log, in the amount that the rule demands,
\* whatever was stored between the queries of the pass and since.
Evidence == \A k \in DOMAIN alerts : Backed(k, alerts[k].ip, alerts[k].time)

\* "Will not produce a new alert while an earlier one is still open and younger
\* than" the cooldown: but for those that come up, or are opened again, when the
\* check is past and the transaction of the insert still to come.
CooldownRespected ==
    [][\A g \in Engines, k \in DOMAIN alerts' \ DOMAIN alerts :
          pc[g] = "insert" /\ insert[g].id = k /\ pc'[g] = "persist" /\ CooldownOf(k[1]) > 0 =>
              \A j \in DOMAIN alerts :
                  /\ j[1] = k[1] /\ alerts[j].ip = alerts'[k].ip
                  /\ alerts[j].status = "open"
                  /\ now - alerts[j].time < Cooldown
                  => j \in came[g]]_vars

\* However often a window is evaluated, an alert keeps the row it was made with,
\* and no pass opens again what an operator has acknowledged or closed.
NeverRewritten ==
    [][\A k \in DOMAIN alerts :
          /\ k \in DOMAIN alerts'
          /\ [alerts'[k] EXCEPT !.status = alerts[k].status] = alerts[k]
          /\ alerts'[k].status # alerts[k].status => UNCHANGED engine]_vars

CommandAlert(e) == <<"suspicious_command", e, <<>>>> \in DOMAIN alerts

AlertFor(rule, ip) == \E k \in DOMAIN alerts : k[1] = rule /\ alerts[k].ip = ip

\* No stored event is newer by more than the window.
Current == {e \in Stored : \A d \in Stored : log[d] - log[e] <= Window}

Suspicious(e) == Event[e].type = "command" /\ Event[e].risk > 0 /\ Event[e].ip # Null

AllAlerted ==
    \A rule \in Enabled :
        /\ rule = "suspicious_command" => \A e \in Current : Suspicious(e) => CommandAlert(e)
        /\ \A ip \in Ips :
            \/ /\ rule = "brute_force"
               /\ Cardinality(From(OfType(Current, {"login_attempt"}), ip)) >= BruteForceThreshold
            \/ /\ rule = "multi_node_scan"
               /\ Cardinality({Event[e].node : e \in From(Current, ip)}) >= MultiNodeScanThreshold
            \/ /\ rule = "high_risk_ip"
               /\ reputation[ip] # Null
               /\ Max({reputation[ip].abuse, reputation[ip].profile}) >= HighRiskScore
            => AlertFor(rule, ip)

\* Whatever rules raise and passes fail, again and again everything in the window
\* has been alerted: each command, and each address that a rule counts.
SeenInTheEnd == []<>AllAlerted
=============================================================================
