--------------------------------- MODULE Feed ---------------------------------
(***************************************************************************)
(* The threat feed: common/export/exporter.py, the two queries of          *)
(* common/db/database.py it reads, and the loops and commands of           *)
(* core/main.py that run it.                                               *)
(*                                                                         *)
(* Exporters are processes that share the output directory and the         *)
(* database and nothing else.  Each query, and the opening and the writing *)
(* of each file, is a step.  Alerts are numbers in the order of their rows.*)
(***************************************************************************)
EXTENDS Integers, FiniteSets, FiniteSetsExt, Sequences

CONSTANTS
    Loops,        \* the cycle thread of serve, and watch
    Commands,     \* one-off exports
    Requests,     \* what --format asks of one-off exports, as sequences of formats
    AlertIds,     \* alerts that may be raised
    Alert,        \* what each says: ip, type, severity (1..3), time
    Known,        \* what is known of every address to begin with
    MinSeverity,  \* FEED_MIN_SEVERITY, as a rank
    FeedStatuses, \* FEED_STATUSES
    FeedLimit,    \* limit=10_000
    MaxChange,    \* bound: changes of a status or a fact, one-off exports, exports that end early
    Null,         \* no row, no file
    Empty,        \* a file that has been opened for writing
    Spoilt        \* a file that two writers have mixed up

Formats == <<"json", "csv", "stix">>

Exporters == Loops \cup Commands

Statuses == {"open", "acknowledged", "closed"}

\* What speaks for an address being hostile: its two scores and the kinds of its activity.
Facts == {"abuse_score", "profile_score", "node_count", "download_count", "command_count"}

Ips == {Alert[a].ip : a \in AlertIds}

ASSUME FeedAssumption ==
    /\ Loops \cap Commands = {}
    /\ Requests \subseteq {<<"json">>, <<"csv">>, <<"stix">>, Formats}
    /\ AlertIds \subseteq Nat /\ IsFiniteSet(AlertIds)
    /\ \A a \in AlertIds : Alert[a].severity \in 1 .. 3 /\ Alert[a].time \in Nat
    /\ FeedStatuses \subseteq Statuses /\ Known \subseteq Facts
    /\ {MinSeverity, FeedLimit, MaxChange} \subseteq Nat
    /\ Null \notin Statuses

VARIABLES
    status,      \* the status of each alert, Null before it is raised
    facts,       \* what the reputation row and the events say of each address
    files,       \* the output directory
    pc,          \* where each exporter is
    formats,     \* the formats it has still to write, the one in hand first
    indicators,  \* the rows of its query for indicators
    listed,      \* the rows of its query for alerts
    names,       \* the files of this format that are not written yet
    changes,     \* changes so far
    during,      \* history: alerts publishable at some moment of its build
    throughout   \* history: alerts publishable at every moment of its build

tables == <<status, facts>>
export == <<pc, formats, indicators, listed, names>>
history == <<during, throughout>>
vars == <<tables, files, export, changes, history>>

NamesOf(format) ==
    CASE format = "json" -> <<"threat_feed.json">>
      [] format = "csv" -> <<"indicators.csv", "alerts.csv">>
      [] format = "stix" -> <<"threat_feed_stix.json">>

Names == {"threat_feed.json", "indicators.csv", "alerts.csv", "threat_feed_stix.json"}

Init ==
    /\ status = [a \in AlertIds |-> Null]
    /\ facts = [ip \in Ips |-> Known]
    /\ files = [n \in Names |-> Null]
    /\ pc = [e \in Exporters |-> "idle"]
    /\ formats = [e \in Exporters |-> <<>>]
    /\ indicators = [e \in Exporters |-> {}]
    /\ listed = [e \in Exporters |-> {}]
    /\ names = [e \in Exporters |-> <<>>]
    /\ changes = 0
    /\ during = [e \in Exporters |-> {}]
    /\ throughout = [e \in Exporters |-> {}]

-----------------------------------------------------------------------------
(* What is published *)

Publishable == {a \in AlertIds : status[a] \in FeedStatuses /\ Alert[a].severity >= MinSeverity}

\* What each fact adds to the 50 points that every address has.
Score(known) ==
    LET points(fact, n) == IF fact \in known THEN n ELSE 0
    IN  50 + points("abuse_score", 20) + points("profile_score", 10) + points("node_count", 10)
           + points("download_count", 10) + points("command_count", 5)

\* Mutant: no upper bound.
ConfidenceUnbounded(known) == Score(known)

\* _confidence
Confidence(known) == Min({Score(known), 100})

\* get_feed_indicators: the alerts of an address grouped, with what is known of it.
FeedRow(ip) ==
    LET own == {a \in Publishable : Alert[a].ip = ip}
    IN  [ip |-> ip, alert_count |-> Cardinality(own),
         alert_types |-> {Alert[a].type : a \in own},
         severity |-> Max({Alert[a].severity : a \in own}),
         known |-> facts[ip]]

\* _build_indicator
Indicator(row) ==
    [ip |-> row.ip, alert_count |-> row.alert_count, alert_types |-> row.alert_types,
     severity |-> row.severity, confidence |-> Confidence(row.known)]

Indicators == {Indicator(FeedRow(ip)) : ip \in {Alert[a].ip : a \in Publishable}}

Newer(a, b) ==
    \/ Alert[a].time > Alert[b].time
    \/ Alert[a].time = Alert[b].time /\ a < b

\* Mutant: the oldest of them.
NewestBackwards == {a \in Publishable : Cardinality({b \in Publishable : Newer(a, b)}) < FeedLimit}

\* get_alerts, newest first: the FeedLimit newest.
Newest == {a \in Publishable : Cardinality({b \in Publishable : Newer(b, a)}) < FeedLimit}

\* _build_alert
Listed == {[id |-> a, status |-> status[a], scored |-> "abuse_score" \in facts[Alert[a].ip]] :
              a \in Newest}

\* export_json writes all of a build.
JsonFeed(rows, alerts) == [indicators |-> rows, alerts |-> alerts]

\* export_csv writes one file of its indicators and one of its alerts.
CsvFile(name, rows, alerts) ==
    IF name = "indicators.csv" THEN [indicators |-> rows, alerts |-> {}]
    ELSE [indicators |-> {}, alerts |-> alerts]

\* export_stix writes a bundle of its indicators.
StixBundle(rows) == [indicators |-> rows, alerts |-> {}]

Content(name, rows, alerts) ==
    CASE name = "threat_feed.json" -> JsonFeed(rows, alerts)
      [] name \in {"indicators.csv", "alerts.csv"} -> CsvFile(name, rows, alerts)
      [] name = "threat_feed_stix.json" -> StixBundle(rows)

-----------------------------------------------------------------------------
(* What else goes on *)

\* The moments of a build are those between its two queries.
Watched(now) ==
    /\ during' = [e \in Exporters |-> IF pc[e] = "alerts" THEN during[e] \cup now ELSE during[e]]
    /\ throughout' = [e \in Exporters |->
                         IF pc[e] = "alerts" THEN throughout[e] \cap now ELSE throughout[e]]

\* An operator: set_alert_status.
SetStatus(a, s) ==
    /\ status[a] # Null
    /\ s # status[a]
    /\ changes < MaxChange
    /\ changes' = changes + 1
    /\ status' = [status EXCEPT ![a] = s]
    /\ Watched(Publishable')
    /\ UNCHANGED <<facts, files, export>>

\* The collector or the enricher; only a score can go down again.
Learn(ip, fact) ==
    /\ fact \notin facts[ip] \/ fact \in {"abuse_score", "profile_score"}
    /\ changes < MaxChange
    /\ changes' = changes + 1
    /\ facts' = [facts EXCEPT ![ip] = SymDiff(@, {fact})]
    /\ UNCHANGED <<status, files, export, history>>

-----------------------------------------------------------------------------
(* An export *)

Begin(e) ==
    /\ e \in Loops
    /\ pc[e] = "idle"
    /\ pc' = [pc EXCEPT ![e] = "detect"]
    /\ formats' = [formats EXCEPT ![e] = Formats]
    /\ UNCHANGED <<tables, files, indicators, listed, names, changes, history>>

\* Mutant: a cycle that raises no alert does not export.
DetectOrSkip(e, raised) ==
    /\ pc[e] = "detect"
    /\ pc' = [pc EXCEPT ![e] = IF raised = {} THEN "idle" ELSE "indicators"]
    /\ formats' = [formats EXCEPT ![e] = IF raised = {} THEN <<>> ELSE @]
    /\ status' = [a \in AlertIds |-> IF a \in raised THEN "open" ELSE status[a]]
    /\ Watched(Publishable')
    /\ UNCHANGED <<facts, files, indicators, listed, names, changes>>

\* run_cycle runs the alert engine before it exports.
Detect(e, raised) ==
    /\ pc[e] = "detect"
    /\ pc' = [pc EXCEPT ![e] = "indicators"]
    /\ status' = [a \in AlertIds |-> IF a \in raised THEN "open" ELSE status[a]]
    /\ Watched(Publishable')
    /\ UNCHANGED <<facts, files, formats, indicators, listed, names, changes>>

\* cmd_export
Command(e) ==
    /\ e \in Commands
    /\ pc[e] = "idle"
    /\ changes < MaxChange
    /\ changes' = changes + 1
    /\ pc' = [pc EXCEPT ![e] = "indicators"]
    /\ \E wanted \in Requests :
          formats' = [formats EXCEPT ![e] = wanted]
    /\ UNCHANGED <<tables, files, indicators, listed, names, history>>

\* build_feed, which every format runs for itself, is two queries.
ReadIndicators(e) ==
    /\ pc[e] = "indicators"
    /\ pc' = [pc EXCEPT ![e] = "alerts"]
    /\ indicators' = [indicators EXCEPT ![e] = Indicators]
    /\ during' = [during EXCEPT ![e] = Publishable]
    /\ throughout' = [throughout EXCEPT ![e] = Publishable]
    /\ UNCHANGED <<tables, files, formats, listed, names, changes>>

ReadAlerts(e) ==
    /\ pc[e] = "alerts"
    /\ pc' = [pc EXCEPT ![e] = "open"]
    /\ listed' = [listed EXCEPT ![e] = Listed]
    /\ names' = [names EXCEPT ![e] = NamesOf(Head(formats[e]))]
    /\ UNCHANGED <<tables, files, formats, indicators, changes, history>>

\* Opening a file for writing empties it.
Open(e) ==
    /\ pc[e] = "open"
    /\ pc' = [pc EXCEPT ![e] = "write"]
    /\ files' = [files EXCEPT ![Head(names[e])] = Empty]
    /\ UNCHANGED <<tables, formats, indicators, listed, names, changes, history>>

\* Nothing is in the file that was not written since: then the content is all there is.
\* What another exporter has written meanwhile is written over, perhaps only in part.
Write(e) ==
    LET name == Head(names[e])
        content == Content(name, indicators[e], listed[e])
        more == Tail(names[e]) # <<>>
        last == Len(formats[e]) = 1
    IN  /\ pc[e] = "write"
        /\ \E f \in {content} \cup (IF files[name] \in {Empty, content} THEN {} ELSE {Spoilt}) :
              files' = [files EXCEPT ![name] = f]
        /\ names' = [names EXCEPT ![e] = Tail(@)]
        /\ formats' = [formats EXCEPT ![e] = IF more THEN @ ELSE Tail(@)]
        /\ pc' = [pc EXCEPT ![e] = IF more THEN "open" ELSE IF last THEN "idle" ELSE "indicators"]
        /\ IF more THEN UNCHANGED <<indicators, listed, history>>
           ELSE /\ indicators' = [indicators EXCEPT ![e] = {}]
                /\ listed' = [listed EXCEPT ![e] = {}]
                /\ during' = [during EXCEPT ![e] = {}]
                /\ throughout' = [throughout EXCEPT ![e] = {}]
        /\ UNCHANGED <<tables, changes>>

\* A pass raises, the command fails, or the process is stopped: at any step, as the threads of
\* serve are daemons that are waited for five seconds.  A loop logs it, or is started again.
Ends(e) ==
    /\ pc[e] # "idle"
    /\ changes < MaxChange
    /\ changes' = changes + 1
    /\ pc' = [pc EXCEPT ![e] = "idle"]
    /\ formats' = [formats EXCEPT ![e] = <<>>]
    /\ names' = [names EXCEPT ![e] = <<>>]
    /\ indicators' = [indicators EXCEPT ![e] = {}]
    /\ listed' = [listed EXCEPT ![e] = {}]
    /\ during' = [during EXCEPT ![e] = {}]
    /\ throughout' = [throughout EXCEPT ![e] = {}]
    /\ UNCHANGED <<tables, files>>

-----------------------------------------------------------------------------
Step(e) ==
    \/ Begin(e)
    \/ \E raised \in SUBSET {a \in AlertIds : status[a] = Null} : Detect(e, raised)
    \/ ReadIndicators(e)
    \/ ReadAlerts(e)
    \/ Open(e)
    \/ Write(e)

Next ==
    \/ \E a \in AlertIds, s \in Statuses : SetStatus(a, s)
    \/ \E ip \in Ips, fact \in Facts : Learn(ip, fact)
    \/ \E e \in Exporters : Step(e) \/ Command(e) \/ Ends(e)

Spec == Init /\ [][Next]_vars

\* cycle_loop and cmd_watch go on after whatever a cycle raises, and an export is not left halfway.
FairSpec == Spec /\ \A e \in Exporters : WF_vars(Step(e))

-----------------------------------------------------------------------------
(* Properties *)

Row == [ip : Ips, alert_count : 0 .. Cardinality(AlertIds),
        alert_types : SUBSET {Alert[a].type : a \in AlertIds},
        severity : MinSeverity .. 3, confidence : 50 .. 100]

Item == [id : AlertIds, status : FeedStatuses, scored : BOOLEAN]

\* What is read and written has the shape and the range the feed promises, a confidence of at
\* most 100 among it, and an exporter has a build while it writes one.
TypeOK ==
    /\ status \in [AlertIds -> Statuses \cup {Null}]
    /\ facts \in [Ips -> SUBSET Facts]
    /\ DOMAIN files = Names
    /\ \A n \in Names :
        \/ files[n] \in {Null, Empty, Spoilt}
        \/ /\ files[n].indicators \subseteq Row
           /\ files[n].alerts \subseteq Item
    /\ pc \in [Exporters -> {"idle", "detect", "indicators", "alerts", "open", "write"}]
    /\ changes \in 0 .. MaxChange
    /\ \A e \in Exporters :
        /\ indicators[e] \subseteq Row /\ listed[e] \subseteq Item
        /\ pc[e] = "idle" <=> formats[e] = <<>>
        /\ pc[e] \in {"open", "write"} <=> names[e] # <<>>
        /\ throughout[e] \subseteq during[e] /\ during[e] \subseteq AlertIds

Ids(items) == {item.id : item \in items}

IpsOf(ids) == {Alert[a].ip : a \in ids}

\* Whatever the engine, operators and other exporters do between the queries of a build: it
\* publishes nothing that was not publishable while it ran, such as an alert closed before, and
\* leaves out nothing that was publishable all the while, unless newer alerts fill its limit.
BuildIsOfItsTime ==
    \A e \in Exporters : pc[e] \in {"open", "write"} =>
        /\ Ids(listed[e]) \subseteq during[e]
        /\ \A a \in throughout[e] \ Ids(listed[e]) :
              Cardinality({b \in Ids(listed[e]) : Newer(b, a)}) = FeedLimit
        /\ {row.ip : row \in indicators[e]} \subseteq IpsOf(during[e])
        /\ IpsOf(throughout[e]) \subseteq {row.ip : row \in indicators[e]}

\* Once nothing changes any more, each file of the feed is what the tables say, and is
\* never anything else again than that or just being rewritten: whatever was left torn by a
\* process that ended, or was mixed by two that wrote, or read before an alert was closed.
FilesCatchUp ==
    Loops # {} =>
        \A n \in Names :
            /\ []<>(files[n] = Content(n, Indicators, Listed))
            /\ <>[](files[n] \in {Empty, Content(n, Indicators, Listed)})
=============================================================================
