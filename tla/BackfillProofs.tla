----------------------------- MODULE BackfillProofs -----------------------------
(***************************************************************************)
(* What holds of the backfill for any log, any batch size and any number   *)
(* of runs, failures, kills and rotated files: what its filter lets        *)
(* through is refused by no check behind it; running it again never makes  *)
(* a second backfilled row of an event; a run over everything leaves only  *)
(* what storage failed on, unless files move under it; each file is read   *)
(* in its turn, from its first line down; a session lasts as long as the   *)
(* log says; no password typed as a command leaves.                        *)
(***************************************************************************)
EXTENDS Backfill, FiniteSetTheorems, SequenceTheorems, WellFoundedInduction, TLAPS

-----------------------------------------------------------------------------
(* The checks of the contract *)

\* What the envelope of a sensor has besides what the check looks at: the fields of
\* the baseline and no others, and the name of a node of the deployment.
Shipped(e) == DOMAIN e = TopLevelFields /\ e["node_id"] \in ModelNodes

\* A value with more to it than blanks is there.
LEMMA FilledIsTruthy == \A v : Filled(v) => Truthy(v)
  BY DEF Filled, Truthy

\* Every event that backfill's filter lets through is one the collector's model
\* takes, so no event it sends refuses the batch it is in (contract_problems:
\* "the collector refuses the whole batch").
THEOREM FilterSparesTheBatch ==
    ASSUME NEW e, Shipped(e), e["event_type"] # "heartbeat", BackfillAccepts(e)
    PROVE  ModelAccepts(e)
<1>1. e["event_type"] \in EventTypes
  BY DEF BackfillAccepts, SensorAccepts
<1>2. e["timestamp"] # Null /\ e["timestamp"].form \in ParsedForms
  BY DEF BackfillAccepts
<1>3. /\ \A field \in AttackerFields : Truthy(e[field])
      /\ e["attacker_ip"] \in Addresses
  BY DEF BackfillAccepts
<1>4. /\ \A key \in RequiredDetails(e["event_type"]) : Filled(Get(e["details"], key))
      /\ e["event_type"] = "file_download" => DownloadNamed(e["details"])
  BY DEF BackfillAccepts
<1> QED
  BY <1>1, <1>2, <1>3, <1>4 DEF ModelAccepts, Shipped

\* And storage rejects none of them, if the node is one it knows as well and the
\* timestamp is in UTC as both adapters write it.
THEOREM FilterSatisfiesStorage ==
    ASSUME NEW e, Shipped(e), e["event_type"] # "heartbeat", BackfillAccepts(e),
           e["node_id"] \in KnownNodes, e["timestamp"].form = "utc"
    PROVE  StorageAccepts(e)
<1>1. /\ e["event_type"] \in EventTypes
      /\ e["protocol"] = Null \/ e["protocol"] \in AllowedProtocols
      /\ DOMAIN e["details"] \subseteq AllowedDetails[e["event_type"]]
  BY DEF BackfillAccepts, SensorAccepts
<1>2. \A field \in AttackerFields : Truthy(e[field])
  BY DEF BackfillAccepts
<1>3. DetailsAccepted(e["event_type"], e["details"])
  <2>1. \A key \in RequiredDetails(e["event_type"]) : Truthy(Get(e["details"], key))
    BY FilledIsTruthy DEF BackfillAccepts
  <2>2. e["event_type"] = "file_download" => DownloadNamed(e["details"])
    BY DEF BackfillAccepts
  <2> QED
    BY <1>1, <2>1, <2>2 DEF DetailsAccepted
<1>4. e["timestamp"] # Null
  BY DEF BackfillAccepts
<1> QED
  BY <1>1, <1>2, <1>3, <1>4 DEF StorageAccepts, Shipped

-----------------------------------------------------------------------------
(* What the mappers make *)

\* An envelope as a mapper leaves it.
Draft(e) ==
    /\ DOMAIN e = TopLevelFields \ {"event_id"}
    /\ e["node_id"] = Node
    /\ e["event_type"] \in EventTypes \ {"heartbeat"}

Drafts(made) == \E S : made \in Seq(S) /\ \A e \in S : Draft(e)

\* Every envelope is one.
LEMMA EnvelopeIsDraft ==
    ASSUME NEW type \in EventTypes \ {"heartbeat"}, NEW connection, NEW ts, NEW details
    PROVE  Draft(Envelope(type, connection, ts, details))
  BY DEF Draft, Envelope, TopLevelFields

\* A list of one, or none.
LEMMA NoDraft == Drafts(<<>>)
<1>1. PICK S : S = {}
  OBVIOUS
<1>2. <<>> \in Seq(S) /\ \A e \in S : Draft(e)
  BY <1>1
<1> QED
  BY <1>2, Zenon DEF Drafts

LEMMA OneDraft ==
    ASSUME NEW e, Draft(e)
    PROVE  Drafts(<<e>>)
<1>1. PICK S : S = {e}
  OBVIOUS
<1>2. <<e>> \in Seq(S) /\ \A d \in S : Draft(d)
  BY <1>1
<1> QED
  BY <1>2, Zenon DEF Drafts

\* A list given by its length and its entries.
LEMMA ManyDrafts ==
    ASSUME NEW n \in Nat, NEW made, made = [i \in 1 .. n |-> made[i]],
           \A i \in 1 .. n : Draft(made[i])
    PROVE  Drafts(made)
<1>1. made \in [1 .. n -> {made[i] : i \in 1 .. n}]
  OBVIOUS
<1>2. PICK S : S = {made[i] : i \in 1 .. n}
  OBVIOUS
<1>3. made \in Seq(S)
  <2>1. made \in [1 .. n -> S]
    BY <1>1, <1>2, Zenon
  <2> QED
    BY ONLY n \in Nat, <2>1
<1>4. \A e \in S : Draft(e)
  BY <1>2
<1> QED
  BY <1>3, <1>4, Zenon DEF Drafts

\* Two lists, one after the other.
LEMMA JoinedDrafts ==
    ASSUME NEW m1, NEW m2, Drafts(m1), Drafts(m2)
    PROVE  Drafts(m1 \o m2)
<1>1. PICK S1 : m1 \in Seq(S1) /\ \A e \in S1 : Draft(e)
  BY DEF Drafts
<1>2. PICK S2 : m2 \in Seq(S2) /\ \A e \in S2 : Draft(e)
  BY DEF Drafts
<1>3. PICK S : S = S1 \cup S2
  OBVIOUS
<1>4. m1 \in Seq(S) /\ m2 \in Seq(S)
  BY <1>1, <1>2, <1>3
<1>5. m1 \o m2 \in Seq(S)
  BY ONLY <1>4
<1>6. \A e \in S : Draft(e)
  BY <1>1, <1>2, <1>3
<1> QED
  BY <1>5, <1>6, Zenon DEF Drafts

\* Cowrie's six kinds of lines.
LEMMA CowrieTypes ==
    \A id \in DOMAIN EventTypeMap : EventTypeMap[id] \in EventTypes \ {"heartbeat"}
  BY DEF EventTypeMap, EventTypes

LEMMA CowrieDrafts == \A raw : Drafts(CowrieEnvelopes(raw))
<1> SUFFICES ASSUME NEW raw PROVE Drafts(CowrieEnvelopes(raw))
  OBVIOUS
<1>1. CASE Get(raw, "eventid") \notin DOMAIN EventTypeMap
  BY <1>1, NoDraft DEF CowrieEnvelopes
<1>2. CASE Get(raw, "eventid") \in DOMAIN EventTypeMap
  <2>1. PICK type : type = EventTypeMap[Get(raw, "eventid")]
    OBVIOUS
  <2>2. type \in EventTypes \ {"heartbeat"}
    BY <1>2, <2>1, CowrieTypes
  <2>3. PICK connection, ts, details :
            CowrieEnvelopes(raw) = <<Envelope(type, connection, ts, details)>>
    BY <1>2, <2>1, Zenon DEF CowrieEnvelopes
  <2> QED
    BY <2>2, <2>3, EnvelopeIsDraft, OneDraft
<1> QED
  BY <1>1, <1>2

\* dionaea's incidents.
LEMMA IncidentDrafts == \A starts, raw : Drafts(FromIncident(starts, raw))
<1> SUFFICES ASSUME NEW starts, NEW raw PROVE Drafts(FromIncident(starts, raw))
  OBVIOUS
<1>1. CASE FromIncident(starts, raw) = <<>>
  BY <1>1, NoDraft
<1>2. CASE FromIncident(starts, raw) # <<>>
  <2>1. Representable(raw)
    BY <1>2, Zenon DEF FromIncident
  <2>2. PICK type : type = IncidentTypes[raw.origin]
    OBVIOUS
  <2>3. type \in EventTypes \ {"heartbeat"}
    BY <2>1, <2>2 DEF Representable, KnownOrigins, IncidentTypes, EventTypes
  <2>4. PICK connection, ts, details :
            FromIncident(starts, raw) = <<Envelope(type, connection, ts, details)>>
    BY <1>2, <2>2, Zenon DEF FromIncident
  <2> QED
    BY <2>3, <2>4, EnvelopeIsDraft, OneDraft
<1> QED
  BY <1>1, <1>2

\* dionaea's connection records.
LEMMA VerbsAreList ==
    ASSUME NEW commands, NEW n \in Nat, DOMAIN commands = 1 .. n
    PROVE  \E k \in Nat : DOMAIN WithVerb(commands) = 1 .. k
<1> DEFINE kept == {i \in DOMAIN commands : Truthy(commands[i][1])}
<1>1. IsFiniteSet(kept)
  BY FS_Interval, FS_Subset
<1>2. Cardinality(kept) \in Nat
  BY <1>1, FS_CardinalityType
<1>3. DOMAIN WithVerb(commands) = 1 .. Cardinality(kept)
  BY DEF WithVerb
<1> QED
  BY <1>2, <1>3

LEMMA ListHasLength ==
    ASSUME NEW S, NEW list \in Seq(S)
    PROVE  \E n \in Nat : DOMAIN list = 1 .. n
  OBVIOUS

LEMMA ListOfHasLength ==
    ASSUME NEW raw, ListsAreLists(raw), NEW key \in {"credentials", "ftp"} \cap DOMAIN raw,
           NEW first, NEW second
    PROVE  \E n \in Nat : DOMAIN Pairs(raw[key], Flat(raw), first, second) = 1 .. n
<1> DEFINE found == raw[key]
<1>1. IF Flat(raw)
      THEN \A name \in DOMAIN found : ListOf(found, name) \in Seq(STRING \cup {Null})
      ELSE found \in Seq(Range(found))
  BY DEF ListsAreLists
<1>2. CASE Flat(raw)
  <2>1. \E n \in Nat : DOMAIN ListOf(found, first) = 1 .. n
    <3>1. CASE first \in DOMAIN found
      <4>1. ListOf(found, first) \in Seq(STRING \cup {Null})
        BY <1>1, <1>2, <3>1
      <4> QED
        BY <4>1, ListHasLength
    <3>2. CASE first \notin DOMAIN found
      <4>1. ListOf(found, first) = <<>>
        BY <3>2 DEF ListOf, Get
      <4>2. DOMAIN <<>> = 1 .. 0
        OBVIOUS
      <4> QED
        BY <4>1, <4>2
    <3> QED
      BY <3>1, <3>2
  <2>2. DOMAIN Pairs(found, Flat(raw), first, second) = DOMAIN ListOf(found, first)
    BY <1>2 DEF Pairs
  <2> QED
    BY <2>1, <2>2
<1>3. CASE ~Flat(raw)
  <2>2. \E n \in Nat : DOMAIN found = 1 .. n
    BY <1>1, <1>3, ListHasLength
  <2>3. DOMAIN Pairs(found, Flat(raw), first, second) = DOMAIN found
    BY <1>3 DEF Pairs
  <2> QED
    BY <2>2, <2>3
<1> QED
  BY <1>2, <1>3

LEMMA RecordDrafts ==
    ASSUME NEW raw, ListsAreLists(raw)
    PROVE  Drafts(FromConnectionRecord(raw))
<1>1. CASE FromConnectionRecord(raw) = <<>>
  BY <1>1, NoDraft
<1>2. CASE FromConnectionRecord(raw) # <<>>
  <2>1. \E n \in Nat : DOMAIN Credentials(raw) = 1 .. n
    <3>1. CASE "credentials" \in DOMAIN raw
      BY <3>1, ListOfHasLength DEF Credentials
    <3>2. CASE "credentials" \notin DOMAIN raw
      <4>1. DOMAIN Credentials(raw) = 1 .. 0
        BY <3>2 DEF Credentials
      <4> QED
        BY <4>1
    <3> QED
      BY <3>1, <3>2
  <2>2. \E n \in Nat : DOMAIN FtpCommands(raw) = 1 .. n
    <3>1. CASE "ftp" \in DOMAIN raw
      BY <3>1, ListOfHasLength DEF FtpCommands
    <3>2. CASE "ftp" \notin DOMAIN raw
      <4>1. DOMAIN FtpCommands(raw) = 1 .. 0
        BY <3>2 DEF FtpCommands
      <4> QED
        BY <4>1
    <3> QED
      BY <3>1, <3>2
  <2>3. \E n \in Nat : DOMAIN WithVerb(FtpCommands(raw)) = 1 .. n
    BY <2>2, VerbsAreList
  <2>4. PICK ts : ts = ToUtcZ(Get(raw, "timestamp"))
    OBVIOUS
  <2>5. PICK connection :
            connection = ConnectionOf(MintedSessionId(raw), Get(raw, "protocol"), Get(raw, "src_ip"))
    OBVIOUS
  <2>6. PICK opening :
            opening = Envelope("connection", connection, ts,
                               [destination_ip   |-> Get(raw, "dst_ip"),
                                destination_port |-> Get(raw, "dst_port"),
                                source_port      |-> Get(raw, "src_port")])
    OBVIOUS
  <2>7. PICK closing : closing = Envelope("session_end", connection, ts, [status |-> "closed"])
    OBVIOUS
  <2>8. PICK found : found = Credentials(raw)
    OBVIOUS
  <2>9. PICK verbs : verbs = WithVerb(FtpCommands(raw))
    OBVIOUS
  <2>10. PICK logins :
            logins = [i \in DOMAIN found |->
                         Envelope("login_attempt", connection, ts,
                                  [username |-> found[i][1], password |-> OrNull(found[i][2])])]
    OBVIOUS
  <2>11. PICK commands :
            commands = [i \in DOMAIN verbs |->
                           Envelope("command", connection, ts,
                                    [command |-> RenderCommand(verbs[i][1], verbs[i][2])])]
    OBVIOUS
  <2>12. FromConnectionRecord(raw) = <<opening>> \o logins \o commands \o <<closing>>
    BY <1>2, <2>4, <2>5, <2>6, <2>7, <2>8, <2>9, <2>10, <2>11, Zenon DEF FromConnectionRecord
  <2>13. {"connection", "login_attempt", "command", "session_end"} \subseteq EventTypes \ {"heartbeat"}
    BY DEF EventTypes
  <2>14. Draft(opening) /\ Draft(closing)
    BY <2>6, <2>7, <2>13, EnvelopeIsDraft
  <2>15. Drafts(logins)
    <3>1. PICK n \in Nat : DOMAIN found = 1 .. n
      BY <2>1, <2>8
    <3>2. \A i \in 1 .. n : Draft(logins[i])
      BY <2>10, <2>13, <3>1, EnvelopeIsDraft
    <3>3. logins = [i \in 1 .. n |-> logins[i]]
      BY <2>10, <3>1
    <3> QED
      BY <3>2, <3>3, ManyDrafts
  <2>16. Drafts(commands)
    <3>1. PICK n \in Nat : DOMAIN verbs = 1 .. n
      BY <2>3, <2>9
    <3>2. \A i \in 1 .. n : Draft(commands[i])
      BY <2>11, <2>13, <3>1, EnvelopeIsDraft
    <3>3. commands = [i \in 1 .. n |-> commands[i]]
      BY <2>11, <3>1
    <3> QED
      BY <3>2, <3>3, ManyDrafts
  <2> QED
    BY <2>12, <2>14, <2>15, <2>16, OneDraft, JoinedDrafts
<1> QED
  BY <1>1, <1>2

\* Whatever the log holds, what is made of a line are drafts.
LEMMA MakesDrafts ==
    ASSUME NEW h \in DOMAIN Raws, NEW raw \in Lines(h) \ {Junk}, NEW starts
    PROVE  Drafts(BuildEnvelopes(h, starts, raw))
<1>1. h = "cowrie" \/ (h = "dionaea" /\ ListsAreLists(raw))
  BY BackfillAssumption, LogAssumption
<1> QED
  BY <1>1, CowrieDrafts, IncidentDrafts, RecordDrafts DEF BuildEnvelopes

-----------------------------------------------------------------------------
(* What each step does to the run *)

\* What a run has of its own, once it is started.
RunFields == {"pc", "since", "dry", "paths", "file", "line", "starts", "read", "made",
              "places", "next", "batch", "seen", "due", "rotated", "cut", "failed"}

\* The rest of the run is left as it was.
Rest(changed) ==
    /\ DOMAIN run' = RunFields
    /\ \A field \in RunFields \ changed : run'[field] = run[field]

\* What a process knows after one more line.
LEMMA AfterLineDoes ==
    ASSUME NEW r, {"starts", "read", "made"} \subseteq DOMAIN r, NEW raw, NEW after,
           after = AfterLine(r, raw)
    PROVE  /\ DOMAIN after = DOMAIN r
           /\ after.read = Append(r.read, raw)
           /\ raw = Junk => after.made = <<>> /\ after.starts = r.starts
           /\ raw # Junk => /\ after.made = BuildEnvelopes(honeypot, r.starts, raw)
                            /\ after.starts = StartsAfter(honeypot, r.starts, raw)
           /\ \A field \in DOMAIN r \ {"starts", "read", "made"} : after[field] = r[field]
<1>1. CASE raw = Junk
  <2>1. after = [r EXCEPT !.read = Append(@, raw), !.made = <<>>]
    BY <1>1, Zenon DEF AfterLine
  <2> QED
    BY <1>1, <2>1
<1>2. CASE raw # Junk
  <2>1. PICK made : made = BuildEnvelopes(honeypot, r.starts, raw)
    OBVIOUS
  <2>2. PICK starts : starts = StartsAfter(honeypot, r.starts, raw)
    OBVIOUS
  <2>3. after = [r EXCEPT !.made = made, !.starts = starts, !.read = Append(@, raw)]
    BY <1>2, <2>1, <2>2, Zenon DEF AfterLine
  <2>4. /\ DOMAIN after = DOMAIN r /\ after.made = made /\ after.starts = starts
        /\ after.read = Append(r.read, raw)
        /\ \A field \in DOMAIN r \ {"starts", "read", "made"} : after[field] = r[field]
    BY <2>3
  <2> QED
    BY <1>2, <2>1, <2>2, <2>4
<1> QED
  BY <1>1, <1>2

LEMMA StartDoes ==
    ASSUME NEW names, NEW since, NEW dry, Start(names, since, dry)
    PROVE  /\ DOMAIN run' = RunFields
           /\ run'.pc = "open" /\ run'.since = since /\ run'.dry = dry /\ run'.paths = names
           /\ run'.file = 0 /\ run'.line = 0 /\ run'.next = 1
           /\ run'.starts = <<>> /\ run'.read = <<>> /\ run'.made = <<>> /\ run'.places = <<>>
           /\ run'.batch = <<>> /\ run'.seen = {}
           /\ run'.rotated = FALSE /\ run'.cut = FALSE /\ run'.failed = {}
           /\ run'.due = IF names = AllNames /\ ~dry /\ since = Null
                         THEN {LineAt(place) : place \in Places} \ {Junk} ELSE {}
<1>1. PICK due : due = IF names = AllNames /\ ~dry /\ since = Null
                       THEN {LineAt(place) : place \in Places} \ {Junk} ELSE {}
  OBVIOUS
<1>2. run' = [pc      |-> "open",  since |-> since,  dry  |-> dry,
               paths   |-> names,
               file    |-> 0,       line  |-> 0,
               starts  |-> <<>>,    read  |-> <<>>,   made |-> <<>>, places |-> <<>>,
               next    |-> 1,
               batch   |-> <<>>,    seen  |-> {},
               due     |-> due,
               rotated |-> FALSE,   cut |-> FALSE,   failed |-> {}]
  BY <1>1, Zenon DEF Start
<1>3. DOMAIN run' = RunFields
  BY <1>2 DEF RunFields
<1> QED
  BY <1>1, <1>2, <1>3

LEMMA OpenDoes ==
    ASSUME DOMAIN run = RunFields, Open
    PROVE  /\ run.pc = "open" /\ run'.pc = "read" /\ run'.line = 0
           /\ run'.file = Opened(Earliest(run.paths))
           /\ run'.paths = run.paths \ {Earliest(run.paths)} /\ run'.cut = FALSE
           /\ Rest({"pc", "line", "file", "paths", "cut"})
<1>1. PICK name : name = Earliest(run.paths)
  OBVIOUS
<1>2. PICK file : file = Opened(name)
  OBVIOUS
<1>3. PICK paths : paths = run.paths \ {name}
  OBVIOUS
<1>4. run' = [run EXCEPT !.pc = "read", !.line = 0, !.file = file, !.paths = paths,
                         !.cut = FALSE]
  BY <1>1, <1>2, <1>3, Zenon DEF Open
<1>5. /\ run'.pc = "read" /\ run'.line = 0 /\ run'.file = file /\ run'.paths = paths
      /\ run'.cut = FALSE /\ Rest({"pc", "line", "file", "paths", "cut"})
  BY <1>4 DEF Rest, RunFields
<1> QED
  BY <1>1, <1>2, <1>3, <1>5 DEF Open

LEMMA ReadLineDoes ==
    ASSUME DOMAIN run = RunFields, ReadLine, NEW raw, raw = files[run.file][run.line + 1]
    PROVE  /\ run.pc = "read" /\ run.next > Len(run.made) /\ run.line < Len(files[run.file])
           /\ run'.line = run.line + 1 /\ run'.next = 1
           /\ run'.places = Append(run.places, <<run.file, run.line + 1>>)
           /\ run'.read = Append(run.read, raw)
           /\ raw = Junk => run'.made = <<>> /\ run'.starts = run.starts
           /\ raw # Junk => /\ run'.made = BuildEnvelopes(honeypot, run.starts, raw)
                            /\ run'.starts = StartsAfter(honeypot, run.starts, raw)
           /\ Rest({"line", "next", "places", "read", "made", "starts"})
<1>1. PICK after : after = AfterLine(run, raw)
  OBVIOUS
<1>2. /\ DOMAIN after = RunFields
      /\ after.read = Append(run.read, raw)
      /\ raw = Junk => after.made = <<>> /\ after.starts = run.starts
      /\ raw # Junk => /\ after.made = BuildEnvelopes(honeypot, run.starts, raw)
                       /\ after.starts = StartsAfter(honeypot, run.starts, raw)
      /\ \A field \in RunFields \ {"starts", "read", "made"} : after[field] = run[field]
  <2>1. {"starts", "read", "made"} \subseteq DOMAIN run
    BY DEF RunFields
  <2> QED
    BY <1>1, <2>1, AfterLineDoes
<1>3. run' = [after EXCEPT !.line = @ + 1, !.next = 1,
                           !.places = Append(@, <<run.file, run.line + 1>>)]
  BY <1>1, Zenon DEF ReadLine
<1>4. /\ after.line = run.line /\ after.places = run.places
  BY <1>2 DEF RunFields
<1>5. /\ DOMAIN run' = RunFields
      /\ run'.line = run.line + 1 /\ run'.next = 1
      /\ run'.places = Append(run.places, <<run.file, run.line + 1>>)
      /\ \A field \in RunFields \ {"line", "next", "places"} : run'[field] = after[field]
  BY <1>2, <1>3, <1>4 DEF RunFields
<1>6. run'.read = after.read /\ run'.made = after.made /\ run'.starts = after.starts
  BY <1>5 DEF RunFields
<1>7. Rest({"line", "next", "places", "read", "made", "starts"})
  BY <1>2, <1>5 DEF Rest
<1> QED
  BY <1>2, <1>5, <1>6, <1>7 DEF ReadLine, LineDone

LEMMA EndOfFileDoes ==
    ASSUME DOMAIN run = RunFields, EndOfFile
    PROVE  /\ run.pc = "read" /\ run.next > Len(run.made)
           /\ run.line = Len(files[run.file]) \/ run.cut
           /\ run'.pc = IF run.paths = {} THEN "last" ELSE "open"
           /\ Rest({"pc"})
<1>1. PICK pc : pc = IF run.paths = {} THEN "last" ELSE "open"
  OBVIOUS
<1>2. run' = [run EXCEPT !.pc = pc]
  BY <1>1, Zenon DEF EndOfFile
<1>3. run'.pc = pc /\ Rest({"pc"})
  BY <1>2 DEF Rest, RunFields
<1> QED
  BY <1>1, <1>3 DEF EndOfFile, LineDone

\* The handle on an emptied file goes on in what has been written since.
LEMMA ReadOnDoes ==
    ASSUME DOMAIN run = RunFields, ReadOn
    PROVE  /\ run.pc = "read" /\ run.next > Len(run.made) /\ run.cut
           /\ run'.file = Len(files) /\ run'.cut = FALSE
           /\ run'.line \in 0 .. Len(files[Len(files)])
           /\ run.line # 0 => run'.line # 0
           /\ Rest({"file", "line", "cut"})
<1>1. PICK skip \in (IF run.line = 0 THEN 0 ELSE 1) .. Len(files[Len(files)]) :
          run' = [run EXCEPT !.file = Len(files), !.line = skip, !.cut = FALSE]
  BY Zenon DEF ReadOn
<1>2. run'.file = Len(files) /\ run'.line = skip /\ run'.cut = FALSE
      /\ Rest({"file", "line", "cut"})
  BY <1>1 DEF Rest, RunFields
<1>3. skip \in 0 .. Len(files[Len(files)]) /\ (run.line # 0 => skip # 0)
  BY <1>1
<1> QED
  BY <1>2, <1>3 DEF ReadOn, LineDone

\* The envelope that is looked at, as Consider names it.
CurrentLine == run.read[Len(run.read)]
CurrentId == StableId(CurrentLine, run.next, run.made[run.next])
CurrentEnvelope == Identified(run.made[run.next], CurrentId)
CurrentItem == [id |-> CurrentId, raw |-> CurrentLine, place |-> run.next,
                envelope |-> CurrentEnvelope]
Inside == WithinSince(CurrentEnvelope.timestamp, run.since)
Joining == Inside /\ CurrentId \notin run.seen /\ BackfillAccepts(CurrentEnvelope)

LEMMA ConsiderRuns ==
    Consider => run # Idle /\ UNCHANGED <<honeypot, files, adapter, stored, faults>>
<1> SUFFICES ASSUME Consider
             PROVE  run # Idle /\ UNCHANGED <<honeypot, files, adapter, stored, faults>>
  OBVIOUS
<1>1. run.pc = "read" /\ UNCHANGED <<honeypot, files, adapter, stored, faults>>
  BY Zenon DEF Consider
<1> QED
  BY <1>1 DEF Idle

LEMMA ConsiderDoes ==
    ASSUME DOMAIN run = RunFields, Consider
    PROVE  /\ run.pc = "read" /\ ~(run.next > Len(run.made))
           /\ run'.batch = IF Joining THEN Append(run.batch, CurrentItem) ELSE run.batch
           /\ run'.next = run.next + 1
           /\ run'.seen = IF Inside THEN run.seen \cup {CurrentId} ELSE run.seen
           /\ run'.pc = IF run'.batch # run.batch /\ Full(run'.batch) THEN "post" ELSE "read"
           /\ Rest({"batch", "next", "seen", "pc"})
<1>1. PICK batch : batch = IF Joining THEN Append(run.batch, CurrentItem) ELSE run.batch
  OBVIOUS
<1>2. PICK seen : seen = IF Inside THEN run.seen \cup {CurrentId} ELSE run.seen
  OBVIOUS
<1>3. PICK pc : pc = IF batch # run.batch /\ Full(batch) THEN "post" ELSE "read"
  OBVIOUS
<1>4. run' = [run EXCEPT !.next = @ + 1, !.batch = batch,
                         !.seen = IF Inside THEN @ \cup {CurrentId} ELSE @, !.pc = pc]
  BY <1>1, <1>3, Zenon
  DEF Consider, Joining, Inside, CurrentItem, CurrentEnvelope, CurrentId, CurrentLine
<1>5. run' = [run EXCEPT !.next = @ + 1, !.batch = batch, !.seen = seen, !.pc = pc]
  BY <1>2, <1>4
<1>6. /\ run'.batch = batch /\ run'.next = run.next + 1 /\ run'.seen = seen /\ run'.pc = pc
      /\ Rest({"batch", "next", "seen", "pc"})
  BY <1>5 DEF Rest, RunFields
<1>7. run.pc = "read" /\ ~(run.next > Len(run.made))
  BY DEF Consider, LineDone
<1> QED
  BY <1>1, <1>2, <1>3, <1>6, <1>7, Zenon

\* What is left when a run goes on.
LEMMA FlushDoes ==
    ASSUME DOMAIN run = RunFields, Flush, run' # Idle
    PROVE  /\ run.pc \in {"post", "last"} /\ (run.dry \/ BatchAccepted)
           /\ run'.batch = <<>>
           /\ run'.pc = IF run.pc = "post" THEN "read" ELSE "done"
           /\ Rest({"batch", "pc"})
<1>1. run.dry \/ BatchAccepted
  BY DEF Flush
<1>2. PICK pc : pc = IF run.pc = "post" THEN "read" ELSE "done"
  OBVIOUS
<1>3. run' = [run EXCEPT !.batch = <<>>, !.pc = IF @ = "post" THEN "read" ELSE "done"]
  BY <1>1, Zenon DEF Flush
<1>4. run' = [run EXCEPT !.batch = <<>>, !.pc = pc]
  BY <1>2, <1>3
<1>5. run'.batch = <<>> /\ run'.pc = pc /\ Rest({"batch", "pc"})
  BY <1>4 DEF Rest, RunFields
<1> QED
  BY <1>1, <1>2, <1>5 DEF Flush

\* So does one of whose events some were rejected.
LEMMA SomeRejectedDoes ==
    ASSUME DOMAIN run = RunFields, SomeRejected
    PROVE  /\ run.pc \in {"post", "last"} /\ ~run.dry /\ BatchAccepted
           /\ run'.batch = <<>>
           /\ run'.pc = IF run.pc = "post" THEN "read" ELSE "done"
           /\ Rest({"batch", "pc", "failed"})
           /\ \E failed : /\ failed \subseteq Sent
                          /\ stored' = StoredWith(Sent \ failed)
                          /\ run'.failed = run.failed \cup failed
<1>1. PICK failed \in SUBSET Sent :
          /\ stored' = StoredWith(Sent \ failed)
          /\ run' = [run EXCEPT !.batch = <<>>, !.failed = @ \cup failed,
                                !.pc = IF @ = "post" THEN "read" ELSE "done"]
  BY Zenon DEF SomeRejected
<1>2. PICK pc : pc = IF run.pc = "post" THEN "read" ELSE "done"
  OBVIOUS
<1>3. PICK all : all = run.failed \cup failed
  OBVIOUS
<1>4. run' = [run EXCEPT !.batch = <<>>, !.failed = all, !.pc = pc]
  BY <1>1, <1>2, <1>3
<1>5. run'.batch = <<>> /\ run'.failed = all /\ run'.pc = pc /\ Rest({"batch", "pc", "failed"})
  BY <1>4 DEF Rest, RunFields
<1>6. run.pc \in {"post", "last"} /\ ~run.dry /\ BatchAccepted
  BY DEF SomeRejected
<1> QED
  BY <1>1, <1>2, <1>3, <1>5, <1>6

LEMMA RotateDoes ==
    ASSUME run # Idle => DOMAIN run = RunFields, Rotate
    PROVE  /\ Len(files) < MaxFiles /\ files' = Append(files, <<>>)
           /\ \/ run' = run
              \/ Rest({"rotated", "cut"}) /\ run # Idle
           /\ run.pc \in {"open", "read", "post"} =>
                  /\ run'.rotated = (run.rotated \/ Disturbed)
                  /\ run'.cut = (run.cut \/ Emptied)
<1>1. CASE run.pc \in {"open", "read", "post"}
  <2>1. PICK rotated : rotated = (run.rotated \/ Disturbed)
    OBVIOUS
  <2>2. PICK cut : cut = (run.cut \/ Emptied)
    OBVIOUS
  <2>0. run # Idle
    BY <1>1 DEF Idle
  <2>3. run' = [run EXCEPT !.rotated = rotated, !.cut = cut]
    <3>1. run' = [run EXCEPT !.rotated = @ \/ Disturbed, !.cut = @ \/ Emptied]
      BY <1>1, Zenon DEF Rotate
    <3> QED
      BY <2>1, <2>2, <3>1, Zenon
  <2>4. run'.rotated = rotated /\ run'.cut = cut /\ Rest({"rotated", "cut"})
    BY <2>0, <2>3 DEF Rest, RunFields
  <2> QED
    BY <2>0, <2>1, <2>2, <2>4 DEF Rotate
<1>2. CASE ~(run.pc \in {"open", "read", "post"})
  BY <1>2 DEF Rotate
<1> QED
  BY <1>1, <1>2

-----------------------------------------------------------------------------
(* One copy of each event *)

\* An item is named by the line it is of and its place in it.
Named(item) == item.id = StableId(item.raw, item.place, item.envelope)

\* The rows are named by what they are of, and no name is there twice.
Rows ==
    /\ \A row \in stored : Named(row)
    /\ \A r1, r2 \in stored : r1.id = r2.id => r1 = r2

\* The events that wait in a batch were seen, each of them once.
Batched(batch, seen) ==
    /\ \E S : batch \in Seq(S)
    /\ \A i \in DOMAIN batch : Named(batch[i]) /\ batch[i].id \in seen
    /\ \A i, j \in DOMAIN batch : batch[i].id = batch[j].id => i = j

Holds(r) == RunFields = DOMAIN r /\ Batched(r.batch, r.seen)

IInv == Rows /\ (run = Idle \/ (run.pc # "idle" /\ Holds(run)))

LEMMA Initially == Init => IInv
  BY DEF Init, IInv, Rows

\* INSERT OR IGNORE of items that have names of their own.
LEMMA StoredWithKeeps ==
    ASSUME Rows, NEW items,
           \A item \in items : Named(item),
           \A i1, i2 \in items : i1.id = i2.id => i1 = i2,
           stored' = StoredWith(items)
    PROVE  Rows'
<1>1. \A row \in stored' : \/ row \in stored
                           \/ /\ row \in items
                              /\ \A r \in stored : r.id # row.id
  BY DEF StoredWith
<1>2. \A row \in stored' : Named(row)
  BY <1>1 DEF Rows
<1>3. \A r1, r2 \in stored' : r1.id = r2.id => r1 = r2
  BY <1>1 DEF Rows
<1> QED
  BY <1>2, <1>3 DEF Rows, Named, StableId

\* A batch that is sent, or its first part, is such a set of items.
LEMMA SentIsNamed ==
    ASSUME Holds(run), NEW items, items \subseteq Sent
    PROVE  /\ \A item \in items : Named(item)
           /\ \A i1, i2 \in items : i1.id = i2.id => i1 = i2
  BY DEF Holds, Batched, Sent

-----------------------------------------------------------------------------
(* The steps of a run *)

LEMMA StartKeeps ==
    ASSUME IInv, NEW names, NEW since, NEW dry, Start(names, since, dry)
    PROVE  IInv'
<1>1. Batched(<<>>, {})
  BY DEF Batched
<1>2. Holds(run)' /\ run'.pc # "idle"
  <2>1. /\ DOMAIN run' = RunFields /\ run'.pc = "open"
        /\ run'.batch = <<>> /\ run'.seen = {}
    BY StartDoes
  <2> QED
    BY <1>1, <2>1 DEF Holds, Batched
<1>3. Rows'
  BY DEF Start, IInv, Rows
<1> QED
  BY <1>2, <1>3 DEF IInv

\* A step that leaves batch and seen as they are.
LEMMA SameBatch ==
    ASSUME IInv, UNCHANGED stored, run # Idle, DOMAIN run' = RunFields, run'.pc # "idle",
           run'.batch = run.batch, run'.seen = run.seen
    PROVE  IInv'
<1>1. Holds(run)'
  BY DEF IInv, Holds, Batched, Named, StableId
<1>2. Rows'
  BY DEF IInv, Rows
<1> QED
  BY <1>1, <1>2 DEF IInv

LEMMA ReadingKeeps == IInv /\ (Rotate \/ Open \/ ReadLine \/ EndOfFile \/ ReadOn) => IInv'
<1> SUFFICES ASSUME IInv, Rotate \/ Open \/ ReadLine \/ EndOfFile \/ ReadOn PROVE IInv'
  OBVIOUS
<1>0. run # Idle => DOMAIN run = RunFields /\ run.pc # "idle"
  BY DEF IInv, Holds
<1>1. stored' = stored
  BY DEF Rotate, Open, ReadLine, EndOfFile, ReadOn
<1>2. CASE run' = run
  BY <1>1, <1>2 DEF IInv, Rows, Holds, Batched, Named, StableId
<1>3. CASE Rotate /\ run' # run
  <2>1. run # Idle /\ Rest({"rotated", "cut"})
    BY <1>0, <1>3, RotateDoes
  <2>2. run'.pc = run.pc /\ run'.batch = run.batch /\ run'.seen = run.seen
    BY <2>1 DEF Rest, RunFields
  <2> QED
    BY <1>0, <1>1, <2>1, <2>2, SameBatch DEF Rest
<1>4. CASE Open \/ ReadLine \/ EndOfFile \/ ReadOn
  <2>1. run # Idle
    <3>1. run.pc \in {"open", "read"}
      BY <1>4, Zenon DEF Open, ReadLine, EndOfFile, ReadOn, LineDone
    <3> QED
      BY <3>1 DEF Idle
  <2>2. \/ Rest({"pc", "line", "file", "paths", "cut"})
        \/ Rest({"line", "next", "places", "read", "made", "starts"})
        \/ Rest({"pc"})
        \/ Rest({"file", "line", "cut"})
    BY <1>0, <1>4, <2>1, OpenDoes, ReadLineDoes, EndOfFileDoes, ReadOnDoes
  <2>3. DOMAIN run' = RunFields /\ run'.batch = run.batch /\ run'.seen = run.seen
    BY <2>2 DEF Rest, RunFields
  <2>4. run'.pc # "idle"
    <3>1. CASE Open \/ EndOfFile
      BY <1>0, <2>1, <3>1, OpenDoes, EndOfFileDoes
    <3>2. CASE ReadLine
      <4>1. run.pc = "read" /\ Rest({"line", "next", "places", "read", "made", "starts"})
        BY <1>0, <2>1, <3>2, ReadLineDoes
      <4> QED
        BY <4>1 DEF Rest, RunFields
    <3>3. CASE ReadOn
      <4>1. run.pc = "read" /\ Rest({"file", "line", "cut"})
        BY <1>0, <2>1, <3>3, ReadOnDoes
      <4> QED
        BY <4>1 DEF Rest, RunFields
    <3> QED
      BY <1>4, <3>1, <3>2, <3>3
  <2> QED
    BY <1>1, <2>1, <2>3, <2>4, SameBatch
<1> QED
  BY <1>2, <1>3, <1>4

\* An item that was not seen joins the batch.
LEMMA Joins ==
    ASSUME NEW batch, NEW seen, Batched(batch, seen), NEW item, Named(item), item.id \notin seen
    PROVE  Batched(Append(batch, item), seen \cup {item.id})
<1>1. PICK S : batch \in Seq(S)
  BY DEF Batched
<1>2. PICK T : batch \in Seq(T) /\ item \in T
  <2>1. batch \in Seq(S \cup {item}) /\ item \in S \cup {item}
    BY <1>1
  <2> QED
    BY <2>1
<1>3. PICK longer \in Seq(T) : longer = Append(batch, item)
  <2>1. Append(batch, item) \in Seq(T)
    BY ONLY <1>2
  <2> QED
    BY <2>1
<1>4. /\ Len(batch) \in Nat /\ DOMAIN batch = 1 .. Len(batch)
      /\ DOMAIN longer = 1 .. Len(batch) + 1
      /\ \A i \in 1 .. Len(batch) : longer[i] = batch[i]
      /\ longer[Len(batch) + 1] = item
  BY <1>2, <1>3
<1>5. \A i \in DOMAIN longer : i \in DOMAIN batch \/ i = Len(batch) + 1
  BY <1>4
<1>6. \A i \in DOMAIN longer : Named(longer[i]) /\ longer[i].id \in seen \cup {item.id}
  BY <1>4, <1>5, Zenon DEF Batched
<1>7. \A i, j \in DOMAIN longer : longer[i].id = longer[j].id => i = j
  <2> SUFFICES ASSUME NEW i \in DOMAIN longer, NEW j \in DOMAIN longer,
                      longer[i].id = longer[j].id
               PROVE  i = j
    OBVIOUS
  <2>1. \A k \in DOMAIN batch : longer[k].id \in seen
    BY <1>4, Zenon DEF Batched
  <2>2. CASE i \in DOMAIN batch /\ j \in DOMAIN batch
    BY <1>4, <2>2 DEF Batched
  <2>3. CASE i \notin DOMAIN batch \/ j \notin DOMAIN batch
    BY <1>4, <1>5, <2>1, <2>3
  <2> QED
    BY <2>2, <2>3
<1>8. Batched(longer, seen \cup {item.id})
  BY <1>3, <1>6, <1>7 DEF Batched
<1> QED
  BY <1>3, <1>8

LEMMA ConsiderKeeps == IInv /\ Consider => IInv'
<1> SUFFICES ASSUME IInv, Consider PROVE IInv'
  OBVIOUS
<1>0. run # Idle /\ DOMAIN run = RunFields /\ Batched(run.batch, run.seen)
  BY ConsiderRuns DEF IInv, Holds
<1>1. /\ run'.batch = IF Joining THEN Append(run.batch, CurrentItem) ELSE run.batch
      /\ run'.seen = IF Inside THEN run.seen \cup {CurrentId} ELSE run.seen
      /\ run'.pc \in {"post", "read"} /\ DOMAIN run' = RunFields
  BY <1>0, ConsiderDoes DEF Rest
<1>2. Named(CurrentItem) /\ CurrentItem.id = CurrentId
  BY DEF Named, CurrentItem, CurrentId, StableId
<1>3. Batched(run'.batch, run'.seen)
  <2>1. CASE Joining
    <3>1. PICK item : item = CurrentItem
      OBVIOUS
    <3>2. item.id \notin run.seen /\ run'.seen = run.seen \cup {item.id}
      BY <1>1, <1>2, <2>1, <3>1 DEF Joining
    <3>3. run'.batch = Append(run.batch, item) /\ Named(item)
      BY <1>1, <1>2, <2>1, <3>1
    <3> QED
      BY <1>0, <3>2, <3>3, Joins
  <2>2. CASE ~Joining
    <3>1. run'.batch = run.batch /\ run.seen \subseteq run'.seen
      BY <1>1, <2>2
    <3> QED
      BY <1>0, <3>1 DEF Batched
  <2> QED
    BY <2>1, <2>2
<1>4. Holds(run)'
  BY <1>1, <1>3 DEF Holds, Batched, Named, StableId
<1>5. Rows'
  BY DEF Consider, IInv, Rows, Named, StableId
<1> QED
  BY <1>1, <1>4, <1>5 DEF IInv

LEMMA FlushKeeps == IInv /\ Flush => IInv'
<1> SUFFICES ASSUME IInv, Flush PROVE IInv'
  OBVIOUS
<1>0. run # Idle /\ Holds(run) /\ DOMAIN run = RunFields
  BY DEF Flush, Idle, IInv, Holds
<1>1. Rows'
  <2>1. CASE stored' = stored
    BY <2>1 DEF IInv, Rows, Named, StableId
  <2>2. CASE stored' = StoredWith(Sent)
    BY <1>0, <2>2, SentIsNamed, StoredWithKeeps DEF IInv
  <2> QED
    BY <2>1, <2>2 DEF Flush
<1>2. ASSUME run' # Idle PROVE run'.pc # "idle" /\ Holds(run)'
  <2>1. run'.batch = <<>> /\ run'.pc \in {"read", "done"} /\ Rest({"batch", "pc"})
    BY <1>0, <1>2, FlushDoes
  <2>2. DOMAIN run' = RunFields
    BY <2>1 DEF Rest
  <2>3. Batched(<<>>, run'.seen)
    BY DEF Batched
  <2> QED
    BY <2>1, <2>2, <2>3 DEF Holds, Batched
<1> QED
  BY <1>1, <1>2 DEF IInv

LEMMA SomeRejectedKeeps == IInv /\ SomeRejected => IInv'
<1> SUFFICES ASSUME IInv, SomeRejected PROVE IInv'
  OBVIOUS
<1>0. run # Idle /\ Holds(run) /\ DOMAIN run = RunFields
  BY DEF SomeRejected, Idle, IInv, Holds
<1>1. PICK failed : stored' = StoredWith(Sent \ failed)
  BY <1>0, SomeRejectedDoes
<1>2. Rows'
  <2>1. PICK items : items = Sent \ failed
    OBVIOUS
  <2> QED
    BY <1>0, <1>1, <2>1, SentIsNamed, StoredWithKeeps DEF IInv
<1>3. /\ run'.batch = <<>> /\ run'.pc \in {"read", "done"} /\ Rest({"batch", "pc", "failed"})
  BY <1>0, SomeRejectedDoes
<1>4. DOMAIN run' = RunFields /\ Batched(<<>>, run'.seen)
  BY <1>3 DEF Rest, Batched
<1>5. Holds(run)'
  BY <1>3, <1>4 DEF Holds, Batched
<1> QED
  BY <1>2, <1>3, <1>5 DEF IInv

LEMMA EndingKeeps == IInv /\ (PostFails \/ Interrupted) => IInv'
<1> SUFFICES ASSUME IInv, PostFails \/ Interrupted PROVE IInv'
  OBVIOUS
<1>1. CASE PostFails
  <2>1. run # Idle /\ Holds(run)
    BY <1>1 DEF PostFails, Idle, IInv
  <2>2. PICK items \in SUBSET Sent :
            stored' = IF BatchAccepted THEN StoredWith(items) ELSE stored
    BY <1>1 DEF PostFails
  <2>4. Rows'
    <3>1. CASE stored' = stored
      BY <3>1 DEF IInv, Rows, Named, StableId
    <3>2. CASE stored' = StoredWith(items)
      BY <2>1, <3>2, SentIsNamed, StoredWithKeeps DEF IInv
    <3> QED
      BY <2>2, <3>1, <3>2
  <2> QED
    BY <1>1, <2>4 DEF PostFails, IInv
<1>2. CASE Interrupted
  BY <1>2 DEF Interrupted, IInv, Rows, Named, StableId
<1> QED
  BY <1>1, <1>2

-----------------------------------------------------------------------------
LEMMA Inductive == IInv /\ [Next]_vars => IInv'
<1> SUFFICES ASSUME IInv, [Next]_vars PROVE IInv'
  OBVIOUS
<1>1. ASSUME UNCHANGED <<run, stored>> PROVE IInv'
  BY <1>1 DEF IInv, Rows, Holds, Batched, Named, StableId
<1>2. ASSUME NEW names, NEW since, NEW dry, Start(names, since, dry) PROVE IInv'
  BY <1>2, StartKeeps
<1>3. \/ UNCHANGED <<run, stored>>
      \/ \E names \in SUBSET AllNames, since \in Cutoffs \cup {Null}, dry \in BOOLEAN :
             Start(names, since, dry)
      \/ Rotate \/ Open \/ ReadLine \/ EndOfFile \/ ReadOn \/ Consider
      \/ Flush \/ SomeRejected \/ PostFails \/ Interrupted
  BY DEF Next, vars, Write, StopAdapter, StartAdapter
<1> QED
  BY <1>1, <1>2, <1>3, ReadingKeeps, ConsiderKeeps, FlushKeeps, SomeRejectedKeeps, EndingKeeps

\* "Safe to run twice" (backfill.py): however often it is run, over which files, from which
\* cutoff and wherever it was stopped, no event of the log gets a second backfilled row.
THEOREM SafeToRunTwice == Spec => []OneCopyEach
<1>1. IInv => OneCopyEach
  BY DEF IInv, Rows, Named, StableId, OneCopyEach
<1>2. Spec => []IInv
  BY Initially, Inductive, PTL DEF Spec
<1> QED
  BY <1>1, <1>2, PTL

-----------------------------------------------------------------------------
(* The type invariant *)

\* The log, which only grows.
LogOK ==
    /\ honeypot \in DOMAIN Raws
    /\ files \in Seq(Seq(Lines(honeypot)))
    /\ Len(files) \in 1 .. MaxFiles
    /\ IsFiniteSet(Places) /\ Cardinality(Places) <= MaxLines

\* The sessions a process tracks.
Tracks(starts) == (\E S : starts \in Seq(S)) /\ Len(starts) <= MaxTracked

AdapterOK ==
    /\ DOMAIN adapter = {"up", "starts", "read", "made"}
    /\ adapter.up \in BOOLEAN
    /\ Tracks(adapter.starts)

\* How far a run has come.
Reading ==
    /\ run.pc \in RunPcs
    /\ run.paths \subseteq AllNames
    /\ run.file \in 0 .. Len(files) /\ run.line \in Nat
    /\ run.pc = "open" => run.paths # {}
    /\ run.pc \in {"read", "post", "last"} => run.file # 0

\* What it has made, and what waits to be sent.
Working ==
    /\ Drafts(run.made) /\ run.next \in Nat \ {0}
    /\ Tracks(run.starts)
    /\ Len(run.batch) <= BatchSize
    /\ run.pc \in {"open", "read", "last"} => Len(run.batch) < BatchSize

TypeInv ==
    /\ LogOK /\ AdapterOK /\ faults \in 0 .. MaxFault
    /\ run # Idle => Reading /\ Working

\* Of some paths, the earliest is one, older than all others but the live file's, which
\* only comes when there are no others.
LEMMA FirstOf ==
    ASSUME NEW E, E \subseteq Nat, E # {}
    PROVE  Min(E) \in E /\ \A j \in E : Min(E) <= j
<1> DEFINE Less == {p \in Nat \X Nat : p[1] < p[2]}
<1>1. IsWellFoundedOn(Less, Nat)
  BY NatLessThanWellFounded, Zenon DEF OpToRel
<1>2. PICK i \in E : \A j \in E : <<j, i>> \notin Less
  <2> HIDE DEF Less
  <2> QED
    BY <1>1, WFMin
<1>3. \A j \in E : i <= j
  <2> SUFFICES ASSUME NEW j \in E, j < i PROVE FALSE
    OBVIOUS
  <2>1. <<j, i>> \in Nat \X Nat
    OBVIOUS
  <2>2. <<j, i>> \in Less
    BY <2>1
  <2> QED
    BY <1>2, <2>2
<1> QED
  BY <1>3 DEF Min

LEMMA EarliestIs ==
    ASSUME NEW paths, paths \subseteq Nat, paths # {}
    PROVE  /\ Earliest(paths) \in paths
           /\ Earliest(paths) = Live => paths = {Live}
           /\ \A name \in paths \ {Live} : Earliest(paths) <= name
<1>1. CASE paths = {Live}
  BY <1>1 DEF Earliest
<1>2. CASE paths # {Live}
  <2>1. paths \ {Live} # {} /\ paths \ {Live} \subseteq Nat
    BY <1>2
  <2>2. Earliest(paths) = Min(paths \ {Live})
    BY <1>2 DEF Earliest
  <2> QED
    BY <2>1, <2>2, FirstOf
<1> QED
  BY <1>1, <1>2

\* The dict of starts never outgrows its limit.
LEMMA TrackingOne ==
    ASSUME NEW starts, Tracks(starts), NEW s, NEW ts
    PROVE  Tracks(RememberStart(starts, s, ts)) /\ Tracks(ForgetStart(starts, s))
<1>1. PICK S : starts \in Seq(S)
  BY DEF Tracks
<1>2. Len(starts) \in 0 .. MaxTracked
  BY <1>1 DEF Tracks
<1>3. Tracks(RememberStart(starts, s, ts))
  <2>1. PICK kept : kept = IF Len(starts) >= MaxTracked THEN Tail(starts) ELSE starts
    OBVIOUS
  <2>2. kept \in Seq(S) /\ Len(kept) + 1 <= MaxTracked
    <3>1. CASE Len(starts) >= MaxTracked
      <4>1. Len(starts) # 0
        BY <3>1, TrackedAssumption
      <4>2. starts # <<>>
        BY <4>1
      <4>3. Tail(starts) \in Seq(S) /\ Len(Tail(starts)) = Len(starts) - 1
        BY <1>1, <4>2
      <4> QED
        BY <1>2, <2>1, <3>1, <4>3, TrackedAssumption
    <3>2. CASE ~(Len(starts) >= MaxTracked)
      BY <1>1, <1>2, <2>1, <3>2, TrackedAssumption
    <3> QED
      BY <3>1, <3>2
  <2>3. CASE Remembered(kept, s)
    <3>1. PICK i : i = PlaceOf(kept, s)
      OBVIOUS
    <3>2. i \in DOMAIN kept
      BY <2>3, <3>1 DEF Remembered, PlaceOf
    <3>3. PICK item : item = [kept[i] EXCEPT !.ts = ts]
      OBVIOUS
    <3>4. RememberStart(starts, s, ts) = [kept EXCEPT ![i] = item]
      BY <2>1, <2>3, <3>1, <3>3 DEF RememberStart
    <3>5. PICK T : T = S \cup {item}
      OBVIOUS
    <3>6. kept \in Seq(T) /\ item \in T
      BY <2>2, <3>5
    <3>7. [kept EXCEPT ![i] = item] \in Seq(T) /\ Len([kept EXCEPT ![i] = item]) = Len(kept)
      BY <3>2, <3>6
    <3> QED
      BY <2>2, <3>4, <3>7, TrackedAssumption DEF Tracks
  <2>4. CASE ~Remembered(kept, s)
    <3>1. PICK item : item = [session |-> s, ts |-> ts]
      OBVIOUS
    <3>2. RememberStart(starts, s, ts) = Append(kept, item)
      BY <2>1, <2>4, <3>1, Zenon DEF RememberStart
    <3>3. PICK T : T = S \cup {item}
      OBVIOUS
    <3>4. kept \in Seq(T) /\ item \in T
      BY <2>2, <3>3
    <3>5. Append(kept, item) \in Seq(T) /\ Len(Append(kept, item)) = Len(kept) + 1
      BY <3>4
    <3> QED
      BY <2>2, <3>2, <3>5 DEF Tracks
  <2> QED
    BY <2>3, <2>4
<1>4. Tracks(ForgetStart(starts, s))
  <2>1. CASE ~Remembered(starts, s)
    BY <2>1 DEF ForgetStart
  <2>2. CASE Remembered(starts, s)
    <3>1. PICK i : i = PlaceOf(starts, s)
      OBVIOUS
    <3>2. i \in 1 .. Len(starts)
      BY <1>1, <2>2, <3>1 DEF Remembered, PlaceOf
    <3>3. ForgetStart(starts, s) = SubSeq(starts, 1, i - 1) \o SubSeq(starts, i + 1, Len(starts))
      BY <2>2, <3>1 DEF ForgetStart, RemoveAt
    <3>4. PICK k : k = i - 1
      OBVIOUS
    <3>5. PICK n : n = Len(starts)
      OBVIOUS
    <3>6. k \in Nat /\ n \in Nat /\ i \in Nat /\ k + 1 = i /\ i <= n
      BY <1>1, <3>2, <3>4, <3>5
    <3>7. PICK before : before = SubSeq(starts, 1, k)
      OBVIOUS
    <3>8. PICK after : after = SubSeq(starts, i + 1, n)
      OBVIOUS
    <3>9. before \in Seq(S) /\ Len(before) = k
      <4>1. k \in Int /\ \A j \in 1 .. k : starts[j] \in S
        BY <1>1, <3>2, <3>4, <3>5, <3>6
      <4>2. before \in Seq(S) /\ Len(before) = IF 1 <= k THEN k - 1 + 1 ELSE 0
        BY <3>7, <4>1, SubSeqProperties
      <4> QED
        BY ONLY <3>6, <4>2
    <3>10. after \in Seq(S) /\ Len(after) = n - i
      <4>1. i + 1 \in Int /\ n \in Int /\ \A j \in i + 1 .. n : starts[j] \in S
        BY <1>1, <3>2, <3>5, <3>6
      <4>2. after \in Seq(S) /\ Len(after) = IF i + 1 <= n THEN n - (i + 1) + 1 ELSE 0
        BY <3>8, <4>1, SubSeqProperties
      <4> QED
        BY ONLY <3>6, <4>2
    <3>11. before \o after \in Seq(S) /\ Len(before \o after) = k + (n - i)
      BY <3>9, <3>10, ConcatProperties
    <3>12. Len(before \o after) <= MaxTracked
      BY <1>2, <3>5, <3>6, <3>11, TrackedAssumption
    <3>13. ForgetStart(starts, s) = before \o after
      BY <3>3, <3>4, <3>5, <3>7, <3>8
    <3> QED
      BY <3>11, <3>12, <3>13 DEF Tracks
  <2> QED
    BY <2>1, <2>2
<1> QED
  BY <1>3, <1>4

LEMMA TrackingKeeps ==
    ASSUME NEW starts, Tracks(starts), NEW h, NEW raw
    PROVE  Tracks(StartsAfter(h, starts, raw))
<1>1. \/ StartsAfter(h, starts, raw) = starts
      \/ StartsAfter(h, starts, raw) = StartsAfterIncident(starts, raw)
  BY Zenon DEF StartsAfter
<1>2. \/ StartsAfterIncident(starts, raw) = starts
      \/ StartsAfterIncident(starts, raw) = RememberStart(starts, raw.id, ToUtcZ(raw.timestamp))
      \/ StartsAfterIncident(starts, raw) = ForgetStart(starts, raw.id)
  BY DEF StartsAfterIncident
<1> QED
  BY <1>1, <1>2, TrackingOne

\* A log has finitely many lines.
LEMMA FinitelyManyPlaces ==
    ASSUME NEW S, NEW log \in Seq(Seq(S))
    PROVE  IsFiniteSet(PlacesIn(log))
<1> DEFINE part == [f \in DOMAIN log |-> {f} \X DOMAIN log[f]]
           parts == {{f} \X DOMAIN log[f] : f \in DOMAIN log}
<1>1. DOMAIN log = 1 .. Len(log) /\ Len(log) \in Nat
  OBVIOUS
<1>2. IsFiniteSet(DOMAIN log)
  BY <1>1, FS_Interval
<1>3. part \in Surjection(DOMAIN log, parts)
  BY DEF Surjection
<1>4. IsFiniteSet(parts)
  <2> HIDE DEF part, parts
  <2> QED
    BY <1>2, <1>3, FS_Surjection DEF ExistsSurjection
<1>5. ASSUME NEW p \in parts PROVE IsFiniteSet(p)
  <2>1. PICK f \in DOMAIN log : p = {f} \X DOMAIN log[f]
    OBVIOUS
  <2>2. log[f] \in Seq(S)
    BY <1>1, <2>1
  <2>3. DOMAIN log[f] = 1 .. Len(log[f]) /\ Len(log[f]) \in Nat
    BY <2>2
  <2>4. IsFiniteSet(DOMAIN log[f])
    <3>1. PICK n \in Nat : DOMAIN log[f] = 1 .. n
      BY <2>3
    <3> QED
      BY <3>1, FS_Interval
  <2>5. IsFiniteSet({f})
    BY FS_Singleton
  <2> QED
    BY <2>1, <2>4, <2>5, FS_Product
<1>6. IsFiniteSet(UNION parts)
  <2> HIDE DEF parts
  <2> QED
    BY <1>4, <1>5, FS_UNION
<1> QED
  BY <1>6 DEF PlacesIn

\* A line on disk is a line of the honeypot's.
LEMMA LineOnDisk ==
    ASSUME LogOK, NEW f \in 1 .. Len(files), NEW i \in 1 .. Len(files[f])
    PROVE  files[f][i] \in Lines(honeypot)
<1>1. files[f] \in Seq(Lines(honeypot))
  BY DEF LogOK
<1> QED
  BY <1>1

\* What writing does: the live file grows by a line.
LEMMA WriteDoes ==
    ASSUME LogOK, NEW raw \in Raws[honeypot] \cup {Junk}, Write(raw)
    PROVE  /\ files' \in Seq(Seq(Lines(honeypot))) /\ Len(files') = Len(files)
           /\ \A f \in 1 .. Len(files) : f # Len(files) => files'[f] = files[f]
           /\ files'[Len(files)] = Append(files[Len(files)], raw)
           /\ honeypot' = honeypot
<1>1. PICK S : S = Lines(honeypot)
  OBVIOUS
<1>2. raw \in S
  BY <1>1 DEF Lines
<1>3. PICK n : n = Len(files)
  OBVIOUS
<1>4. files \in Seq(Seq(S)) /\ n \in DOMAIN files
  BY <1>1, <1>3 DEF LogOK
<1>5. files[n] \in Seq(S) /\ Append(files[n], raw) \in Seq(S)
  BY <1>2, <1>4
<1>6. PICK longer \in Seq(S) : longer = Append(files[n], raw)
  BY <1>5
<1>7. files' = [files EXCEPT ![n] = longer]
  BY <1>3, <1>6 DEF Write
<1>8. /\ files' \in Seq(Seq(S)) /\ Len(files') = n
      /\ \A f \in 1 .. n : f # n => files'[f] = files[f]
      /\ files'[n] = longer
  BY <1>3, <1>4, <1>6, <1>7
<1> QED
  BY <1>1, <1>3, <1>6, <1>8 DEF Write

\* A rotation starts a file.
LEMMA AppendedFile ==
    ASSUME LogOK, files' = Append(files, <<>>), honeypot' = honeypot
    PROVE  /\ files' \in Seq(Seq(Lines(honeypot))) /\ Len(files') = Len(files) + 1
           /\ \A f \in 1 .. Len(files) : files'[f] = files[f]
           /\ files'[Len(files) + 1] = <<>>
<1>1. PICK S : S = Seq(Lines(honeypot))
  OBVIOUS
<1>2. files \in Seq(S)
  BY <1>1 DEF LogOK
<1>3. PICK e \in S : e = <<>>
  <2>1. <<>> \in S
    BY <1>1
  <2> QED
    BY <2>1
<1>4. /\ Append(files, e) \in Seq(S) /\ Len(Append(files, e)) = Len(files) + 1
      /\ \A f \in 1 .. Len(files) : Append(files, e)[f] = files[f]
      /\ Append(files, e)[Len(files) + 1] = e
  BY <1>1, <1>2, <1>3
<1> QED
  BY <1>1, <1>3, <1>4

LEMMA LogKept ==
    LogOK /\ (Rotate \/ \E raw \in Raws[honeypot] \cup {Junk} : Write(raw)) => LogOK'
<1> SUFFICES ASSUME LogOK, Rotate \/ \E raw \in Raws[honeypot] \cup {Junk} : Write(raw)
             PROVE  LogOK'
  OBVIOUS
<1>0. /\ Len(files) \in Nat \ {0} /\ DOMAIN files = 1 .. Len(files)
      /\ \A f \in 1 .. Len(files) : DOMAIN files[f] = 1 .. Len(files[f]) /\ Len(files[f]) \in Nat
  <2>1. \A f \in 1 .. Len(files) : files[f] \in Seq(Lines(honeypot))
    BY DEF LogOK
  <2> QED
    BY <2>1 DEF LogOK
<1>1. CASE Rotate
  <2>1. Len(files) < MaxFiles /\ files' = Append(files, <<>>) /\ honeypot' = honeypot
    BY <1>1 DEF Rotate
  <2>2. /\ files' \in Seq(Seq(Lines(honeypot))) /\ Len(files') = Len(files) + 1
        /\ \A f \in 1 .. Len(files) : files'[f] = files[f]
        /\ files'[Len(files) + 1] = <<>>
    BY <2>1, AppendedFile
  <2>3. DOMAIN files' = 1 .. Len(files) + 1
    BY <2>2
  <2>4. Places' = Places
    <3>1. \A f, i : <<f, i>> \in Places' <=> f \in DOMAIN files' /\ i \in DOMAIN files'[f]
      BY DEF Places, PlacesIn
    <3>2. \A f, i : <<f, i>> \in Places <=> f \in DOMAIN files /\ i \in DOMAIN files[f]
      BY DEF Places, PlacesIn
    <3>3. DOMAIN <<>> = {}
      OBVIOUS
    <3>4. \A f, i : <<f, i>> \in Places' <=> <<f, i>> \in Places
      <4>1. PICK n \in Nat : n = Len(files)
        BY <1>0
      <4>2. /\ DOMAIN files = 1 .. n /\ DOMAIN files' = 1 .. n + 1
            /\ \A f \in 1 .. n : files'[f] = files[f]
            /\ files'[n + 1] = <<>>
        BY <1>0, <2>2, <2>3, <4>1
      <4>3. \A f \in DOMAIN files : f \in DOMAIN files' /\ files'[f] = files[f]
        BY <4>2
      <4>4. \A f \in DOMAIN files' : f \in DOMAIN files \/ DOMAIN files'[f] = {}
        <5>1. \A f \in DOMAIN files' : f \in DOMAIN files \/ f = n + 1
          BY <4>2
        <5> QED
          BY <3>3, <4>2, <5>1
      <4> QED
        BY <3>1, <3>2, <4>3, <4>4, Zenon
    <3>5. /\ \A p \in Places : p = <<p[1], p[2]>>
          /\ \A p \in Places' : p = <<p[1], p[2]>>
      BY DEF Places, PlacesIn
    <3> QED
      BY <3>4, <3>5
  <2> QED
    BY <2>1, <2>2, <2>4, BackfillAssumption DEF LogOK
<1>2. CASE \E raw \in Raws[honeypot] \cup {Junk} : Write(raw)
  <2>1. PICK raw \in Raws[honeypot] \cup {Junk} : Write(raw)
    BY <1>2
  <2>2. PICK n : n = Len(files)
    OBVIOUS
  <2>3. PICK m : m = Len(files[n]) + 1
    OBVIOUS
  <2>4. /\ files' \in Seq(Seq(Lines(honeypot))) /\ Len(files') = n
        /\ \A f \in 1 .. n : f # n => files'[f] = files[f]
        /\ files'[n] = Append(files[n], raw)
        /\ honeypot' = honeypot
    BY <2>1, <2>2, WriteDoes
  <2>5. DOMAIN files' = 1 .. n
    BY <2>4
  <2>6. /\ n \in Nat \ {0} /\ DOMAIN files[n] = 1 .. Len(files[n]) /\ Len(files[n]) \in Nat
        /\ files[n] \in Seq(Lines(honeypot))
    BY <1>0, <2>2 DEF LogOK
  <2>7. DOMAIN files'[n] = 1 .. m
    <3>1. raw \in Lines(honeypot)
      BY DEF Lines
    <3>2. Len(Append(files[n], raw)) = m /\ Append(files[n], raw) \in Seq(Lines(honeypot))
      BY <2>3, <2>6, <3>1
    <3> QED
      BY <2>4, <3>2
  <2>8. Places' = Places \cup {<<n, m>>}
    <3>1. \A f, i : <<f, i>> \in Places' <=> f \in DOMAIN files' /\ i \in DOMAIN files'[f]
      BY DEF Places, PlacesIn
    <3>2. \A f, i : <<f, i>> \in Places <=> f \in DOMAIN files /\ i \in DOMAIN files[f]
      BY DEF Places, PlacesIn
    <3>3. DOMAIN files'[n] = DOMAIN files[n] \cup {m}
      BY <2>3, <2>6, <2>7
    <3>4. \A f, i : <<f, i>> \in Places' <=> <<f, i>> \in Places \/ (f = n /\ i = m)
      <4>1. DOMAIN files' = DOMAIN files /\ n \in DOMAIN files
        BY <1>0, <2>2, <2>5, <2>6
      <4>2. \A f \in DOMAIN files : f # n => files'[f] = files[f]
        BY <1>0, <2>2, <2>4
      <4>3. \A f : f \in DOMAIN files' <=> f \in DOMAIN files
        BY <4>1
      <4>4. \A f \in DOMAIN files : f # n => \A i : i \in DOMAIN files'[f] <=> i \in DOMAIN files[f]
        BY <4>2
      <4>5. \A i : i \in DOMAIN files'[n] <=> i \in DOMAIN files[n] \/ i = m
        BY <3>3
      <4> QED
        BY <3>1, <3>2, <4>1, <4>3, <4>4, <4>5, Zenon
    <3>5. /\ \A p \in Places : p = <<p[1], p[2]>>
          /\ \A p \in Places' : p = <<p[1], p[2]>>
      BY DEF Places, PlacesIn
    <3>6. ASSUME NEW p \in Places' PROVE p \in Places \cup {<<n, m>>}
      BY <3>4, <3>5
    <3>7. ASSUME NEW p \in Places \cup {<<n, m>>} PROVE p \in Places'
      BY <3>4, <3>5
    <3> QED
      BY <3>6, <3>7
  <2>9. IsFiniteSet(Places') /\ Cardinality(Places') <= MaxLines
    <3>1. IsFiniteSet(Places) /\ Cardinality(Places) < MaxLines /\ Cardinality(Places) \in Nat
      BY <2>1, FS_CardinalityType DEF LogOK, Write
    <3>2. PICK p : p = <<n, m>>
      OBVIOUS
    <3>3. /\ IsFiniteSet(Places \cup {p})
          /\ \/ Cardinality(Places \cup {p}) = Cardinality(Places)
             \/ Cardinality(Places \cup {p}) = Cardinality(Places) + 1
      BY <3>1, FS_AddElement
    <3>4. PICK c : c = Cardinality(Places \cup {p})
      OBVIOUS
    <3>5. PICK d \in Nat : d = Cardinality(Places)
      BY <3>1
    <3>6. c <= MaxLines
      BY <3>1, <3>3, <3>4, <3>5, BackfillAssumption
    <3> QED
      BY <2>8, <3>2, <3>3, <3>4, <3>6
  <2> QED
    BY <2>2, <2>4, <2>9 DEF LogOK
<1> QED
  BY <1>1, <1>2

LEMMA TypesHold == Init => TypeInv
<1> SUFFICES ASSUME Init PROVE TypeInv
  OBVIOUS
<1>1. honeypot \in DOMAIN Raws /\ files \in Histories[honeypot]
  BY DEF Init
<1>2. /\ files \in Seq(Seq(Lines(honeypot)))
      /\ Len(files) \in 1 .. MaxFiles /\ Cardinality(Places) <= MaxLines
  BY <1>1, LogAssumption DEF Places
<1>3. IsFiniteSet(Places)
  BY <1>2, FinitelyManyPlaces DEF Places
<1>4. Tracks(<<>>)
  BY TrackedAssumption DEF Tracks
<1>5. AdapterOK
  <2>1. adapter = [up |-> TRUE, starts |-> <<>>, read |-> <<>>, made |-> <<>>]
    BY DEF Init
  <2>2. /\ DOMAIN adapter = {"up", "starts", "read", "made"}
        /\ adapter.up = TRUE /\ adapter.starts = <<>>
    BY <2>1
  <2> QED
    BY <1>4, <2>2 DEF AdapterOK
<1>6. run = Idle /\ faults = 0
  BY DEF Init
<1> QED
  BY <1>1, <1>2, <1>3, <1>5, <1>6, BackfillAssumption DEF TypeInv, LogOK

\* The adapter tracks no more than it may.
LEMMA AdapterKept ==
    ASSUME AdapterOK, [Next]_vars
    PROVE  AdapterOK'
<1>1. CASE adapter' = adapter
  BY <1>1 DEF AdapterOK
<1>2. CASE StopAdapter
  <2>1. adapter' = [up |-> FALSE, starts |-> <<>>, read |-> <<>>, made |-> <<>>]
    BY <1>2 DEF StopAdapter
  <2>2. /\ DOMAIN adapter' = {"up", "starts", "read", "made"}
        /\ adapter'.up = FALSE /\ adapter'.starts = <<>>
    BY <2>1
  <2>3. Tracks(<<>>)
    BY TrackedAssumption DEF Tracks
  <2> QED
    BY <2>2, <2>3 DEF AdapterOK
<1>3. CASE StartAdapter
  <2>1. adapter' = [adapter EXCEPT !.up = TRUE]
    BY <1>3 DEF StartAdapter
  <2>2. /\ DOMAIN adapter' = {"up", "starts", "read", "made"}
        /\ adapter'.up = TRUE /\ adapter'.starts = adapter.starts
    BY <2>1 DEF AdapterOK
  <2> QED
    BY <2>2 DEF AdapterOK
<1>4. ASSUME NEW raw, Write(raw), adapter' # adapter PROVE AdapterOK'
  <2>1. adapter' = AfterLine(adapter, raw)
    BY <1>4 DEF Write
  <2>2. /\ DOMAIN adapter' = DOMAIN adapter /\ adapter'.up = adapter.up
        /\ \/ adapter'.starts = adapter.starts
           \/ adapter'.starts = StartsAfter(honeypot, adapter.starts, raw)
    BY <2>1, AfterLineDoes DEF AdapterOK
  <2> QED
    BY <2>2, TrackingKeeps DEF AdapterOK
<1>5. \/ adapter' = adapter \/ StopAdapter \/ StartAdapter
      \/ \E raw : Write(raw)
  BY DEF Next, vars, Rotate, Start, Open, ReadLine, EndOfFile, ReadOn, Consider, Flush,
         SomeRejected, PostFails, Interrupted
<1> QED
  BY <1>1, <1>2, <1>3, <1>4, <1>5

LEMMA AllNamesIs ==
    ASSUME LogOK
    PROVE  /\ AllNames = 0 .. Len(files) - 1 /\ Len(files) \in Nat \ {0}
           /\ \A name \in AllNames : Opened(name) \in 1 .. Len(files)
           /\ \A name \in AllNames \ {Live} :
                  Opened(name) = IF DatedNames THEN name ELSE Len(files) - name
  BY DEF LogOK, AllNames, Live, Opened

\* The same of the names after a step.
LEMMA AllNamesPrime ==
    ASSUME LogOK'
    PROVE  \A name \in AllNames' : Opened(name)' \in 1 .. Len(files') /\ Len(files') \in Nat
  BY DEF LogOK, AllNames, Live, Opened

\* A step of a run: it has somewhere to go on, and its batch is not too big.
LEMMA RunKept ==
    ASSUME IInv, IInv', LogOK, LogOK', run # Idle => Reading /\ Working, [Next]_vars
    PROVE  run' # Idle => Reading' /\ Working'
<1> SUFFICES ASSUME run' # Idle PROVE Reading' /\ Working'
  OBVIOUS
<1>0. run # Idle => DOMAIN run = RunFields /\ \E S : run.batch \in Seq(S)
  BY DEF IInv, Holds, Batched
<1>1. CASE run' = run /\ files' = files
  BY <1>1 DEF Reading, Working, AllNames
<1>2. ASSUME NEW raw \in Raws[honeypot] \cup {Junk}, Write(raw) PROVE Reading' /\ Working'
  <2>1. Len(files') = Len(files) /\ run' = run
    BY <1>2, WriteDoes DEF Write
  <2> QED
    BY <2>1 DEF Reading, Working, AllNames
<1>3. CASE Rotate
  <2>1. Len(files') = Len(files) + 1
    BY <1>3, AppendedFile DEF Rotate
  <2>2. run # Idle
    BY <1>3 DEF Rotate, Idle
  <2>3. \A field \in RunFields \ {"rotated", "cut"} : run'[field] = run[field]
    BY <1>0, <1>3, <2>2, RotateDoes DEF Rest
  <2>4. /\ run'.pc = run.pc /\ run'.paths = run.paths /\ run'.file = run.file
        /\ run'.line = run.line /\ run'.made = run.made /\ run'.next = run.next
        /\ run'.starts = run.starts /\ run'.batch = run.batch
    BY <2>3 DEF RunFields
  <2>5. AllNames \subseteq AllNames' /\ 0 .. Len(files) \subseteq 0 .. Len(files')
    BY <2>1, AllNamesIs DEF AllNames
  <2> QED
    BY <2>2, <2>4, <2>5 DEF Reading, Working
<1>4. ASSUME NEW names \in SUBSET AllNames, NEW since, NEW dry, Start(names, since, dry)
      PROVE  Reading' /\ Working'
  <2>1. /\ run'.pc = "open" /\ run'.paths = names /\ run'.file = 0 /\ run'.line = 0
        /\ run'.next = 1 /\ run'.starts = <<>> /\ run'.made = <<>> /\ run'.batch = <<>>
    BY <1>4, StartDoes
  <2>2. files' = files /\ names # {}
    BY <1>4 DEF Start
  <2>3. Reading'
    BY <2>1, <2>2, AllNamesIs DEF Reading, RunPcs, AllNames
  <2>4. Tracks(<<>>)
    BY TrackedAssumption DEF Tracks
  <2> QED
    BY <2>1, <2>3, <2>4, NoDraft, BackfillAssumption DEF Working
<1>5. CASE Open
  <2>1. run # Idle
    BY <1>5 DEF Open, Idle
  <2>2. /\ run.pc = "open" /\ run'.pc = "read" /\ run'.line = 0
        /\ run'.file = Opened(Earliest(run.paths))
        /\ run'.paths = run.paths \ {Earliest(run.paths)}
        /\ Rest({"pc", "line", "file", "paths", "cut"})
    BY <1>0, <1>5, <2>1, OpenDoes
  <2>3. /\ run'.made = run.made /\ run'.next = run.next /\ run'.starts = run.starts
        /\ run'.batch = run.batch
    BY <2>2 DEF Rest, RunFields
  <2>4. files' = files
    BY <1>5 DEF Open
  <2>5. Earliest(run.paths) \in AllNames
    BY <2>1, <2>2, AllNamesIs, EarliestIs DEF Reading
  <2>6. run'.file \in 1 .. Len(files)
    BY <2>2, <2>5, AllNamesIs
  <2>7. Reading'
    BY <2>1, <2>2, <2>4, <2>6, AllNamesIs DEF Reading, RunPcs, AllNames
  <2> QED
    BY <2>1, <2>2, <2>3, <2>7 DEF Working
<1>6. CASE ReadLine
  <2>1. run # Idle
    BY <1>6 DEF ReadLine, LineDone, Idle
  <2>2. PICK raw : raw = files[run.file][run.line + 1]
    OBVIOUS
  <2>3. /\ run.pc = "read" /\ run.line < Len(files[run.file])
        /\ run'.line = run.line + 1 /\ run'.next = 1
        /\ raw = Junk => run'.made = <<>> /\ run'.starts = run.starts
        /\ raw # Junk => /\ run'.made = BuildEnvelopes(honeypot, run.starts, raw)
                         /\ run'.starts = StartsAfter(honeypot, run.starts, raw)
        /\ Rest({"line", "next", "places", "read", "made", "starts"})
    BY <1>0, <1>6, <2>1, <2>2, ReadLineDoes
  <2>4. /\ run'.pc = run.pc /\ run'.file = run.file /\ run'.paths = run.paths
        /\ run'.batch = run.batch
    BY <2>3 DEF Rest, RunFields
  <2>5. files' = files
    BY <1>6 DEF ReadLine
  <2>6. run.file \in 1 .. Len(files) /\ run.line \in Nat
    BY <2>1, <2>3 DEF Reading
  <2>7. raw \in Lines(honeypot)
    <3>1. run.line + 1 \in 1 .. Len(files[run.file])
      <4>1. files[run.file] \in Seq(Lines(honeypot))
        BY <2>6 DEF LogOK
      <4>2. Len(files[run.file]) \in Nat
        BY <4>1
      <4> QED
        BY <2>3, <2>6, <4>2
    <3> QED
      BY <2>2, <2>6, <3>1, LineOnDisk
  <2>8. Drafts(run'.made) /\ Tracks(run'.starts)
    <3>1. CASE raw = Junk
      BY <2>1, <2>3, <3>1, NoDraft DEF Working
    <3>2. CASE raw # Junk
      BY <2>1, <2>3, <2>7, <3>2, MakesDrafts, TrackingKeeps DEF Working, LogOK
    <3> QED
      BY <3>1, <3>2
  <2>9. Reading'
    BY <2>1, <2>3, <2>4, <2>5, <2>6 DEF Reading, AllNames
  <2> QED
    BY <2>1, <2>3, <2>4, <2>8, <2>9 DEF Working
<1>7. CASE EndOfFile
  <2>1. run # Idle
    BY <1>7 DEF EndOfFile, LineDone, Idle
  <2>2. /\ run.pc = "read" /\ run'.pc = IF run.paths = {} THEN "last" ELSE "open"
        /\ Rest({"pc"})
    BY <1>0, <1>7, <2>1, EndOfFileDoes
  <2>3. /\ run'.paths = run.paths /\ run'.file = run.file
        /\ run'.line = run.line /\ run'.made = run.made /\ run'.next = run.next
        /\ run'.starts = run.starts /\ run'.batch = run.batch
    BY <2>2 DEF Rest, RunFields
  <2>4. files' = files
    BY <1>7 DEF EndOfFile
  <2> QED
    BY <2>1, <2>2, <2>3, <2>4 DEF Reading, Working, RunPcs, AllNames
<1>8. CASE Consider
  <2>1. run # Idle
    BY <1>8, ConsiderRuns
  <2>2. /\ run.pc = "read"
        /\ run'.batch = IF Joining THEN Append(run.batch, CurrentItem) ELSE run.batch
        /\ run'.next = run.next + 1
        /\ run'.pc = IF run'.batch # run.batch /\ Full(run'.batch) THEN "post" ELSE "read"
        /\ Rest({"batch", "next", "seen", "pc"})
    BY <1>0, <1>8, <2>1, ConsiderDoes
  <2>3. /\ run'.paths = run.paths /\ run'.file = run.file
        /\ run'.line = run.line /\ run'.made = run.made /\ run'.starts = run.starts
    BY <2>2 DEF Rest, RunFields
  <2>4. files' = files
    BY <1>8, ConsiderRuns
  <2>5. Reading'
    BY <2>1, <2>2, <2>3, <2>4 DEF Reading, RunPcs, AllNames
  <2>6. Len(run.batch) \in Nat /\ Len(run.batch) < BatchSize
    BY <1>0, <2>1, <2>2 DEF Working
  <2>7. /\ Len(run'.batch) <= BatchSize
        /\ run'.pc # "post" => Len(run'.batch) < BatchSize
    <3>1. CASE run'.batch = run.batch
      BY <2>6, <3>1, BackfillAssumption
    <3>2. CASE run'.batch # run.batch
      <4>1. PICK S : run.batch \in Seq(S)
        BY <1>0, <2>1
      <4>2. PICK item : item = CurrentItem
        OBVIOUS
      <4>3. PICK T : T = S \cup {item}
        OBVIOUS
      <4>4. run.batch \in Seq(T) /\ item \in T
        BY <4>1, <4>3
      <4>5. Len(Append(run.batch, item)) = Len(run.batch) + 1
        BY <4>4
      <4>6. Len(run'.batch) = Len(run.batch) + 1
        BY <2>2, <3>2, <4>2, <4>5
      <4>7. run'.pc # "post" => ~(Len(run'.batch) >= BatchSize)
        BY <2>2, <3>2 DEF Full
      <4> QED
        BY <2>6, <4>6, <4>7, BackfillAssumption
    <3> QED
      BY <3>1, <3>2
  <2> QED
    BY <2>1, <2>2, <2>3, <2>5, <2>7 DEF Working
<1>9. CASE Flush
  <2>1. run # Idle
    BY <1>9 DEF Flush, Idle
  <2>2. /\ run.pc \in {"post", "last"} /\ run'.batch = <<>>
        /\ run'.pc = IF run.pc = "post" THEN "read" ELSE "done"
        /\ Rest({"batch", "pc"})
    BY <1>0, <1>9, <2>1, FlushDoes
  <2>3. /\ run'.paths = run.paths /\ run'.file = run.file
        /\ run'.line = run.line /\ run'.made = run.made /\ run'.next = run.next
        /\ run'.starts = run.starts
    BY <2>2 DEF Rest, RunFields
  <2>4. files' = files
    BY <1>9 DEF Flush
  <2>5. Reading'
    BY <2>1, <2>2, <2>3, <2>4 DEF Reading, RunPcs, AllNames
  <2> QED
    BY <2>1, <2>2, <2>3, <2>5, BackfillAssumption DEF Working
<1>10. CASE SomeRejected
  <2>1. run # Idle
    BY <1>10 DEF SomeRejected, Idle
  <2>2. /\ run.pc \in {"post", "last"} /\ run'.batch = <<>>
        /\ run'.pc = IF run.pc = "post" THEN "read" ELSE "done"
        /\ Rest({"batch", "pc", "failed"})
    BY <1>0, <1>10, <2>1, SomeRejectedDoes
  <2>3. /\ run'.paths = run.paths /\ run'.file = run.file
        /\ run'.line = run.line /\ run'.made = run.made /\ run'.next = run.next
        /\ run'.starts = run.starts
    BY <2>2 DEF Rest, RunFields
  <2>4. files' = files
    BY <1>10 DEF SomeRejected
  <2>5. Reading'
    BY <2>1, <2>2, <2>3, <2>4 DEF Reading, RunPcs, AllNames
  <2> QED
    BY <2>1, <2>2, <2>3, <2>5, BackfillAssumption DEF Working
<1>11. CASE ReadOn
  <2>1. run # Idle
    BY <1>11 DEF ReadOn, LineDone, Idle
  <2>2. /\ run.pc = "read" /\ run'.file = Len(files)
        /\ run'.line \in 0 .. Len(files[Len(files)])
        /\ Rest({"file", "line", "cut"})
    BY <1>0, <1>11, <2>1, ReadOnDoes
  <2>3. /\ run'.pc = run.pc /\ run'.paths = run.paths /\ run'.made = run.made
        /\ run'.next = run.next /\ run'.starts = run.starts /\ run'.batch = run.batch
    BY <2>2 DEF Rest, RunFields
  <2>4. files' = files
    BY <1>11 DEF ReadOn
  <2>5. run'.file \in 0 .. Len(files) /\ run'.file # 0 /\ run'.line \in Nat
    BY <2>2, AllNamesIs
  <2>6. Reading'
    BY <2>1, <2>2, <2>3, <2>4, <2>5 DEF Reading, RunPcs, AllNames
  <2> QED
    BY <2>1, <2>3, <2>6 DEF Working
<1>12. \/ run' = run /\ files' = files
       \/ \E raw \in Raws[honeypot] \cup {Junk} : Write(raw)
       \/ \E names \in SUBSET AllNames, since \in Cutoffs \cup {Null}, dry \in BOOLEAN :
              Start(names, since, dry)
       \/ Rotate \/ Open \/ ReadLine \/ EndOfFile \/ ReadOn \/ Consider
       \/ Flush \/ SomeRejected
  BY DEF Next, vars, StopAdapter, StartAdapter, PostFails, Interrupted
<1> QED
  BY <1>1, <1>2, <1>3, <1>4, <1>5, <1>6, <1>7, <1>8, <1>9, <1>10, <1>11, <1>12

LEMMA FaultsKept == faults \in 0 .. MaxFault /\ [Next]_vars => faults' \in 0 .. MaxFault
<1> SUFFICES ASSUME faults \in 0 .. MaxFault, [Next]_vars PROVE faults' \in 0 .. MaxFault
  OBVIOUS
<1>1. \/ faults' = faults
      \/ faults < MaxFault /\ faults' = faults + 1
  BY DEF Next, vars, Write, Rotate, StopAdapter, StartAdapter, Start, Open, ReadLine, EndOfFile,
         ReadOn, Consider, Flush, SomeRejected, PostFails, Interrupted
<1> QED
  BY <1>1, BackfillAssumption

LEMMA TypesKept == IInv /\ TypeInv /\ [Next]_vars => TypeInv'
<1> SUFFICES ASSUME IInv, TypeInv, [Next]_vars PROVE TypeInv'
  OBVIOUS
<1>1. LogOK'
  <2>1. \/ UNCHANGED <<honeypot, files>>
        \/ Rotate \/ \E raw \in Raws[honeypot] \cup {Junk} : Write(raw)
    BY DEF Next, vars, StopAdapter, StartAdapter, Start, Open, ReadLine, EndOfFile,
           ReadOn, Consider, Flush, SomeRejected, PostFails, Interrupted
  <2>2. CASE UNCHANGED <<honeypot, files>>
    BY <2>2 DEF TypeInv, LogOK, Places
  <2> QED
    BY <2>1, <2>2, LogKept DEF TypeInv
<1>2. IInv'
  BY Inductive
<1>3. AdapterOK'
  BY AdapterKept DEF TypeInv
<1>4. run' # Idle => Reading' /\ Working'
  BY <1>1, <1>2, RunKept DEF TypeInv
<1>5. faults' \in 0 .. MaxFault
  BY FaultsKept DEF TypeInv
<1> QED
  BY <1>1, <1>3, <1>4, <1>5 DEF TypeInv

\* The log, both processes and what waits to be sent keep their types and their bounds: a
\* batch never outgrows --batch-size, and no process tracks more sessions than it may.
THEOREM TypeCorrect == Spec => []TypeOK
<1>1. IInv /\ TypeInv => TypeOK
  <2> SUFFICES ASSUME IInv, TypeInv PROVE TypeOK
    OBVIOUS
  <2>1. run.pc \in RunPcs
    BY DEF TypeInv, Reading, Idle, RunPcs
  <2>2. ASSUME run.pc # "idle"
        PROVE  /\ Len(run.batch) <= BatchSize /\ Len(run.starts) <= MaxTracked
               /\ {item.id : item \in Sent} \subseteq run.seen
               /\ run.pc = "open" => run.paths # {}
               /\ run.pc \in {"read", "post", "last"} => run.file \in DOMAIN files
    <3>1. run # Idle
      BY <2>2 DEF Idle
    <3>2. Reading /\ Working /\ Holds(run)
      BY <3>1 DEF TypeInv, IInv
    <3>3. {item.id : item \in Sent} \subseteq run.seen
      BY <3>2 DEF Holds, Batched, Sent
    <3>4. run.pc \in {"read", "post", "last"} => run.file \in DOMAIN files
      BY <3>2 DEF Reading, TypeInv, LogOK
    <3> QED
      BY <3>2, <3>3, <3>4 DEF Reading, Working, Tracks
  <2> QED
    BY <2>1, <2>2 DEF TypeOK, TypeInv, LogOK, AdapterOK, Tracks
<1>2. Spec => []IInv
  BY Initially, Inductive, PTL DEF Spec
<1>3. Spec => []TypeInv
  BY <1>2, TypesHold, TypesKept, PTL DEF Spec
<1> QED
  BY <1>1, <1>2, <1>3, PTL

-----------------------------------------------------------------------------
(* No batch is refused *)

\* What waits to be sent is what the model takes.
Spares == run # Idle => \A i \in DOMAIN run.batch : ModelAccepts(run.batch[i].envelope)

\* The envelope that is looked at is one of a sensor.
LEMMA CurrentIsShipped ==
    ASSUME Node \in ModelNodes, Working, run.next <= Len(run.made)
    PROVE  Shipped(CurrentEnvelope) /\ CurrentEnvelope["event_type"] # "heartbeat"
<1>1. PICK S : run.made \in Seq(S) /\ \A e \in S : Draft(e)
  BY DEF Working, Drafts
<1>2. run.next \in 1 .. Len(run.made)
  BY <1>1 DEF Working
<1>3. PICK draft : draft = run.made[run.next]
  OBVIOUS
<1>4. Draft(draft)
  BY <1>1, <1>2, <1>3
<1>5. CurrentEnvelope = Identified(draft, CurrentId)
  BY <1>3 DEF CurrentEnvelope
<1>6. /\ DOMAIN CurrentEnvelope = TopLevelFields
      /\ CurrentEnvelope["node_id"] = Node
      /\ CurrentEnvelope["event_type"] = draft["event_type"]
  BY <1>4, <1>5 DEF Identified, Draft, TopLevelFields
<1> QED
  BY <1>4, <1>6 DEF Shipped, Draft

LEMMA SparesKept ==
    ASSUME Node \in ModelNodes, IInv, TypeInv, Spares, [Next]_vars
    PROVE  Spares'
<1> SUFFICES ASSUME run' # Idle
             PROVE  \A i \in DOMAIN run'.batch : ModelAccepts(run'.batch[i].envelope)
  BY DEF Spares
<1>0. run # Idle => DOMAIN run = RunFields /\ \E S : run.batch \in Seq(S)
  BY DEF IInv, Holds, Batched
<1>1. CASE run # Idle /\ run'.batch = run.batch
  BY <1>1 DEF Spares
<1>2. CASE run'.batch = <<>>
  <2>1. DOMAIN <<>> = {}
    OBVIOUS
  <2> QED
    BY <1>2, <2>1
<1>3. CASE Consider /\ run # Idle /\ run'.batch # run.batch
  <2>1. /\ run.next <= Len(run.made)
        /\ Joining /\ run'.batch = Append(run.batch, CurrentItem)
    <3>1. Working /\ \E S : run.made \in Seq(S)
      BY <1>3 DEF TypeInv, Working, Drafts
    <3>2. Len(run.made) \in Nat /\ run.next \in Nat
      BY <3>1 DEF Working
    <3>3. /\ ~(run.next > Len(run.made))
          /\ run'.batch = IF Joining THEN Append(run.batch, CurrentItem) ELSE run.batch
      BY <1>0, <1>3, ConsiderDoes
    <3>4. run.next <= Len(run.made)
      BY ONLY <3>2, <3>3
    <3> QED
      BY <1>3, <3>3, <3>4, Zenon
  <2>2. ModelAccepts(CurrentEnvelope)
    <3>1. Working
      BY <1>3 DEF TypeInv
    <3> QED
      BY <2>1, <3>1, CurrentIsShipped, FilterSparesTheBatch DEF Joining
  <2>3. PICK item : item = CurrentItem
    OBVIOUS
  <2>4. ModelAccepts(item.envelope)
    BY <2>2, <2>3 DEF CurrentItem
  <2>5. PICK S : run.batch \in Seq(S)
    BY <1>0, <1>3
  <2>6. PICK T : T = S \cup {item}
    OBVIOUS
  <2>7. run.batch \in Seq(T) /\ item \in T
    BY <2>5, <2>6
  <2>8. \A i \in DOMAIN Append(run.batch, item) :
            \/ i \in DOMAIN run.batch /\ Append(run.batch, item)[i] = run.batch[i]
            \/ Append(run.batch, item)[i] = item
    BY <2>7
  <2> QED
    BY <1>3, <2>1, <2>3, <2>4, <2>8 DEF Spares
<1>4. \/ run # Idle /\ run'.batch = run.batch
      \/ run'.batch = <<>>
      \/ Consider /\ run # Idle /\ run'.batch # run.batch
  <2>1. CASE run' = run
    BY <2>1
  <2>2. CASE Rotate
    <3>1. run' = run \/ (Rest({"rotated", "cut"}) /\ run # Idle)
      BY <1>0, <2>2, RotateDoes
    <3> QED
      BY <3>1 DEF Rest, RunFields
  <2>3. CASE \E names, since, dry : Start(names, since, dry)
    BY <2>3, StartDoes
  <2>4. CASE Open \/ ReadLine \/ EndOfFile \/ ReadOn
    <3>1. run # Idle
      <4>1. run.pc \in {"open", "read"}
        BY <2>4, Zenon DEF Open, ReadLine, EndOfFile, ReadOn, LineDone
      <4> QED
        BY <4>1 DEF Idle
    <3>2. \/ Rest({"pc", "line", "file", "paths", "cut"})
          \/ Rest({"line", "next", "places", "read", "made", "starts"})
          \/ Rest({"pc"}) \/ Rest({"file", "line", "cut"})
      BY <1>0, <2>4, <3>1, OpenDoes, ReadLineDoes, EndOfFileDoes, ReadOnDoes
    <3> QED
      BY <3>1, <3>2 DEF Rest, RunFields
  <2>5. CASE Consider
    BY <2>5, ConsiderRuns
  <2>6. CASE Flush \/ SomeRejected
    <3>1. run # Idle
      <4>1. run.pc \in {"post", "last"}
        BY <2>6, Zenon DEF Flush, SomeRejected
      <4> QED
        BY <4>1 DEF Idle
    <3> QED
      BY <1>0, <2>6, <3>1, FlushDoes, SomeRejectedDoes
  <2>7. \/ run' = run \/ Rotate \/ (\E names, since, dry : Start(names, since, dry))
        \/ Open \/ ReadLine \/ EndOfFile \/ ReadOn \/ Consider \/ Flush \/ SomeRejected
    BY DEF Next, vars, Write, StopAdapter, StartAdapter, PostFails, Interrupted
  <2> QED
    BY <2>1, <2>2, <2>3, <2>4, <2>5, <2>6, <2>7
<1> QED
  BY <1>1, <1>2, <1>3, <1>4

\* On a node that the collector's model knows, no batch ever holds an event for which it
\* would be refused as a whole, whatever the honeypot logged ("one bad event 422s the entire
\* POST", backfill.py).
THEOREM BatchesAreTaken ==
    ASSUME Node \in ModelNodes
    PROVE  Spec => []NoBatchRefused
<1>1. TypeInv /\ Spares => NoBatchRefused
  BY DEF TypeInv, Spares, NoBatchRefused, BatchAccepted, Sent, Idle
<1>2. Init => Spares
  BY DEF Init, Spares
<1>3. IInv /\ TypeInv /\ Spares /\ [Next]_vars => Spares'
  BY SparesKept
<1>4. Spec => []IInv
  BY Initially, Inductive, PTL DEF Spec
<1>5. Spec => []TypeInv
  BY <1>4, TypesHold, TypesKept, PTL DEF Spec
<1>6. Spec => []Spares
  BY <1>2, <1>3, <1>4, <1>5, PTL DEF Spec
<1> QED
  BY <1>1, <1>5, <1>6, PTL

-----------------------------------------------------------------------------
(* Each file in its turn *)

LEMMA SameHoneypot == [Next]_vars => honeypot' = honeypot
  BY DEF Next, vars, Write, Rotate, StopAdapter, StartAdapter, Start, Open, ReadLine, EndOfFile,
         ReadOn, Consider, Flush, SomeRejected, PostFails, Interrupted

\* A file is only cut under a run that notes it, and no name is left at the end.
Noted ==
    run # Idle =>
        /\ run.cut => run.rotated /\ ~DatedNames
        /\ run.pc \in {"last", "done"} => run.paths = {}

\* What the steps of a run leave as it was, in the order of their first letters.
Moves ==
    \/ Rest({"rotated", "cut"}) /\ Rotate
    \/ Rest({"pc"}) /\ EndOfFile
    \/ Rest({"file", "line", "cut"}) /\ ReadOn
    \/ Rest({"batch", "next", "seen", "pc"}) /\ Consider
    \/ Rest({"batch", "pc"}) /\ Flush
    \/ Rest({"batch", "pc", "failed"}) /\ SomeRejected
    \/ Rest({"pc", "line", "file", "paths", "cut"}) /\ Open
    \/ Rest({"line", "next", "places", "read", "made", "starts"}) /\ ReadLine

\* A run that is there after a step was started by it, or went on.
LEMMA StepOfRun ==
    ASSUME IInv, [Next]_vars, run' # Idle
    PROVE  \/ run' = run
           \/ \E names \in SUBSET AllNames : \E since, dry : Start(names, since, dry)
           \/ run # Idle /\ DOMAIN run = RunFields /\ Moves
<1>0. run # Idle => DOMAIN run = RunFields
  BY DEF IInv, Holds
<1>1. CASE Rotate
  <2>1. run' = run \/ (Rest({"rotated", "cut"}) /\ run # Idle)
    BY <1>0, <1>1, RotateDoes
  <2> QED
    BY <1>0, <1>1, <2>1 DEF Moves
<1>2. CASE EndOfFile \/ ReadOn \/ Consider \/ Flush \/ SomeRejected \/ Open \/ ReadLine
  <2>1. run # Idle
    <3>1. run.pc \in {"open", "read", "post", "last"}
      BY <1>2, Zenon DEF EndOfFile, ReadOn, Consider, Flush, SomeRejected, Open, ReadLine, LineDone
    <3> QED
      BY <3>1 DEF Idle
  <2>2. Moves
    <3>1. CASE EndOfFile
      BY <1>0, <2>1, <3>1, EndOfFileDoes DEF Moves
    <3>2. CASE ReadOn
      BY <1>0, <2>1, <3>2, ReadOnDoes DEF Moves
    <3>3. CASE Consider
      BY <1>0, <2>1, <3>3, ConsiderDoes DEF Moves
    <3>4. CASE Flush
      BY <1>0, <2>1, <3>4, FlushDoes DEF Moves
    <3>5. CASE SomeRejected
      BY <1>0, <2>1, <3>5, SomeRejectedDoes DEF Moves
    <3>6. CASE Open
      BY <1>0, <2>1, <3>6, OpenDoes DEF Moves
    <3>7. CASE ReadLine
      BY <1>0, <2>1, <3>7, ReadLineDoes DEF Moves
    <3> QED
      BY <1>2, <3>1, <3>2, <3>3, <3>4, <3>5, <3>6, <3>7
  <2> QED
    BY <1>0, <2>1, <2>2
<1>3. \/ run' = run
      \/ \E names \in SUBSET AllNames : \E since, dry : Start(names, since, dry)
      \/ Rotate \/ EndOfFile \/ ReadOn \/ Consider \/ Flush \/ SomeRejected \/ Open \/ ReadLine
  BY DEF Next, vars, Write, StopAdapter, StartAdapter, PostFails, Interrupted
<1> QED
  BY <1>1, <1>2, <1>3

LEMMA NotedKept ==
    ASSUME IInv, Noted, [Next]_vars
    PROVE  Noted'
<1> SUFFICES ASSUME run' # Idle
             PROVE  /\ run'.cut => run'.rotated /\ ~DatedNames
                    /\ run'.pc \in {"last", "done"} => run'.paths = {}
  BY SameHoneypot DEF Noted, DatedNames
<1>1. CASE run' = run
  BY <1>1 DEF Noted
<1>2. ASSUME NEW names, NEW since, NEW dry, Start(names, since, dry)
      PROVE  run'.cut = FALSE /\ run'.pc = "open"
  BY <1>2, StartDoes
<1>3. CASE run # Idle /\ DOMAIN run = RunFields /\ Moves
  <2>1. CASE Rest({"rotated", "cut"}) /\ Rotate
    <3>1. run'.pc = run.pc /\ run'.paths = run.paths
      BY <2>1 DEF Rest, RunFields
    <3>2. CASE run.pc \in {"open", "read", "post"}
      <4>1. run'.rotated = (run.rotated \/ Disturbed) /\ run'.cut = (run.cut \/ Emptied)
        BY <1>3, <2>1, <3>2, RotateDoes
      <4>2. Emptied => ~DatedNames /\ Disturbed
        BY DEF Emptied, Disturbed
      <4> QED
        BY <1>3, <3>1, <3>2, <4>1, <4>2 DEF Noted
    <3>3. CASE ~(run.pc \in {"open", "read", "post"})
      <4>1. run' = run
        BY <2>1, <3>3 DEF Rotate
      <4> QED
        BY <4>1 DEF Noted
    <3> QED
      BY <3>2, <3>3
  <2>2. CASE Rest({"pc"}) /\ EndOfFile
    <3>1. run'.cut = run.cut /\ run'.rotated = run.rotated /\ run'.paths = run.paths
      BY <2>2 DEF Rest, RunFields
    <3>2. run'.pc = IF run.paths = {} THEN "last" ELSE "open"
      BY <1>3, <2>2, EndOfFileDoes
    <3> QED
      BY <1>3, <3>1, <3>2 DEF Noted
  <2>3. CASE Rest({"file", "line", "cut"}) /\ ReadOn
    <3>1. run.pc = "read" /\ run'.cut = FALSE
      BY <1>3, <2>3, ReadOnDoes
    <3>2. run'.pc = run.pc
      BY <2>3 DEF Rest, RunFields
    <3> QED
      BY <3>1, <3>2
  <2>4. CASE Rest({"batch", "next", "seen", "pc"}) /\ Consider
    <3>1. run'.cut = run.cut /\ run'.rotated = run.rotated
      BY <2>4 DEF Rest, RunFields
    <3>2. run'.pc \in {"post", "read"}
      BY <1>3, <2>4, ConsiderDoes
    <3> QED
      BY <1>3, <3>1, <3>2 DEF Noted
  <2>5. CASE \/ Rest({"batch", "pc"}) /\ Flush
             \/ Rest({"batch", "pc", "failed"}) /\ SomeRejected
    <3>1. run'.cut = run.cut /\ run'.rotated = run.rotated /\ run'.paths = run.paths
      BY <2>5 DEF Rest, RunFields
    <3>2. run.pc \in {"post", "last"} /\ run'.pc = IF run.pc = "post" THEN "read" ELSE "done"
      BY <1>3, <2>5, FlushDoes, SomeRejectedDoes
    <3> QED
      BY <1>3, <3>1, <3>2 DEF Noted
  <2>6. CASE Rest({"pc", "line", "file", "paths", "cut"}) /\ Open
    BY <1>3, <2>6, OpenDoes
  <2>7. CASE Rest({"line", "next", "places", "read", "made", "starts"}) /\ ReadLine
    <3>1. /\ run'.cut = run.cut /\ run'.rotated = run.rotated /\ run'.pc = run.pc
          /\ run'.paths = run.paths
      BY <2>7 DEF Rest, RunFields
    <3> QED
      BY <1>3, <3>1 DEF Noted
  <2> QED
    BY <1>3, <2>1, <2>2, <2>3, <2>4, <2>5, <2>6, <2>7 DEF Moves
<1> QED
  BY <1>1, <1>2, <1>3, StepOfRun

\* The place of a file in the order of the names; of numbered ones the last is the live.
Turn(last, f) == IF DatedNames THEN f ELSE IF f = last THEN 0 ELSE 0 - f

Before(last, a, b) == Turn(last, a[1]) < Turn(last, b[1]) \/ (a[1] = b[1] /\ a[2] < b[2])

\* The lines read are in order and behind the reader; what it has still to open is ahead.
Ordered(last) ==
    /\ run.places \in Seq(Nat \X Nat)
    /\ \A i, j \in DOMAIN run.places : i < j => Before(last, run.places[i], run.places[j])
    /\ \A i \in DOMAIN run.places : Before(last, run.places[i], <<run.file, run.line + 1>>)
    /\ run.file = 0 => run.places = <<>>
    /\ run.file # 0 =>
           \A name \in run.paths : Turn(last, run.file) < Turn(last, Opened(name))
    /\ ~DatedNames => /\ run.file <= last
                      /\ \A i \in DOMAIN run.places : run.places[i][1] \in 1 .. last
                      /\ run.paths # {} => last = Len(files)

InOrder == run # Idle /\ (DatedNames \/ ~run.rotated) => \E last \in Nat : Ordered(last)

LEMMA TurnIs ==
    ASSUME NEW last \in Nat, NEW f \in Nat
    PROVE  Turn(last, f) \in Int
  BY DEF Turn

\* As a file is opened, it is the next in turn.
LEMMA OpenInTurn ==
    ASSUME IInv, TypeInv, NEW last \in Nat, Ordered(last), run # Idle, Open
    PROVE  Ordered(last)' \/ (~DatedNames /\ last # Len(files))
<1> SUFFICES ASSUME DatedNames \/ last = Len(files) PROVE Ordered(last)'
  OBVIOUS
<1>0. DOMAIN run = RunFields
  BY DEF IInv, Holds
<1>1. /\ AllNames = 0 .. Len(files) - 1 /\ Len(files) \in Nat \ {0}
      /\ \A name \in AllNames : Opened(name) \in 1 .. Len(files)
      /\ \A name \in AllNames \ {Live} :
             Opened(name) = IF DatedNames THEN name ELSE Len(files) - name
  BY AllNamesIs DEF TypeInv
<1>2. PICK name : name = Earliest(run.paths)
  OBVIOUS
<1>3. /\ run.pc = "open" /\ run'.line = 0 /\ run'.file = Opened(name)
      /\ run'.paths = run.paths \ {name} /\ UNCHANGED <<files, honeypot>>
  BY <1>0, <1>2, OpenDoes DEF Open
<1>4. run'.places = run.places
  <2>1. Rest({"pc", "line", "file", "paths", "cut"})
    BY <1>0, OpenDoes
  <2> QED
    BY <2>1 DEF Rest, RunFields
<1>5. /\ run.paths \subseteq 0 .. Len(files) - 1 /\ run.paths # {}
      /\ run.file \in Nat /\ run.line \in Nat
  BY <1>1, <1>3 DEF TypeInv, Reading
<1>6. /\ name \in run.paths
      /\ name = Live => run.paths = {Live}
      /\ \A other \in run.paths \ {Live} : name <= other
  BY <1>2, <1>5, EarliestIs
<1>7. run'.file \in 1 .. Len(files)
  BY <1>1, <1>3, <1>5, <1>6
<1>8. \A other \in AllNames : Turn(last, Opened(other))' = Turn(last, Opened(other))
  BY <1>3 DEF Turn, Opened, DatedNames
<1>9. \A i \in DOMAIN run.places : Turn(last, run.places[i][1]) < Turn(last, run'.file)
  <2> SUFFICES ASSUME NEW i \in DOMAIN run.places
               PROVE  Turn(last, run.places[i][1]) < Turn(last, run'.file)
    OBVIOUS
  <2>1. run.places \in Seq(Nat \X Nat)
    BY DEF Ordered
  <2>2. run.places[i][1] \in Nat /\ run.file # 0
    BY <2>1 DEF Ordered
  <2>3. Turn(last, run.file) < Turn(last, run'.file)
    BY <1>3, <1>6, <2>2 DEF Ordered
  <2>4. \/ Turn(last, run.places[i][1]) < Turn(last, run.file)
        \/ run.places[i][1] = run.file
    BY DEF Ordered, Before
  <2>5. /\ Turn(last, run.places[i][1]) \in Int /\ Turn(last, run.file) \in Int
        /\ Turn(last, run'.file) \in Int
    <3>1. run'.file \in Nat
      BY <1>1, <1>7
    <3> QED
      BY <1>5, <2>2, <3>1, TurnIs
  <2>6. CASE run.places[i][1] = run.file
    BY <2>3, <2>6
  <2>7. CASE Turn(last, run.places[i][1]) < Turn(last, run.file)
    BY <2>3, <2>5, <2>7
  <2> QED
    BY <2>4, <2>6, <2>7
<1>10. ASSUME NEW other \in run.paths, other # name
       PROVE  Turn(last, run'.file) < Turn(last, Opened(other))
  <2>1. name # Live /\ name \in 1 .. Len(files) - 1
    BY <1>5, <1>6, <1>10 DEF Live
  <2>2. run'.file = IF DatedNames THEN name ELSE Len(files) - name
    BY <1>1, <1>3, <2>1 DEF Live
  <2>3. CASE other = Live
    <3>1. Opened(other) = Len(files)
      BY <2>3 DEF Opened
    <3> QED
      BY <1>1, <2>1, <2>2, <3>1 DEF Turn
  <2>4. CASE other # Live
    <3>1. other \in 1 .. Len(files) - 1 /\ name < other
      BY <1>5, <1>6, <1>10, <2>1, <2>4 DEF Live
    <3>2. Opened(other) = IF DatedNames THEN other ELSE Len(files) - other
      BY <1>1, <2>4, <3>1 DEF Live
    <3> QED
      BY <1>1, <2>1, <2>2, <3>1, <3>2 DEF Turn
  <2> QED
    BY <2>3, <2>4
<1>11. \A f : Turn(last, f)' = Turn(last, f)
  BY <1>3 DEF Turn, DatedNames
<1>12. \A i \in DOMAIN run.places :
           Before(last, run.places[i], <<run'.file, run'.line + 1>>)
  BY <1>9 DEF Before
<1>13. \A other \in run'.paths : Turn(last, run'.file) < Turn(last, Opened(other))
  BY <1>3, <1>10
<1>14. ~DatedNames => /\ run'.file <= last
                      /\ \A i \in DOMAIN run.places : run.places[i][1] \in 1 .. last
                      /\ last = Len(files)
  BY <1>1, <1>7 DEF Ordered
<1>15. Ordered(last)'
  <2>1. DatedNames' = DatedNames /\ \A a, b : Before(last, a, b)' = Before(last, a, b)
    BY <1>3 DEF Before, Turn, DatedNames
  <2>2. \A f : Opened(f)' = Opened(f)
    BY <1>3 DEF Opened, DatedNames
  <2>3. /\ run'.places \in Seq(Nat \X Nat)
        /\ \A i, j \in DOMAIN run'.places :
               i < j => Before(last, run'.places[i], run'.places[j])
        /\ \A i \in DOMAIN run'.places :
               Before(last, run'.places[i], <<run'.file, run'.line + 1>>)
        /\ run'.file # 0
    BY <1>4, <1>7, <1>12 DEF Ordered
  <2>4. ~DatedNames => /\ run'.file <= last
                       /\ \A i \in DOMAIN run'.places : run'.places[i][1] \in 1 .. last
                       /\ last = Len(files')
    BY <1>3, <1>4, <1>14
  <2>5. \A other \in run'.paths : Turn(last, run'.file) < Turn(last, Opened(other)')
    BY <1>13, <2>2
  <2> QED
    BY <1>11, <2>1, <2>3, <2>4, <2>5 DEF Ordered
<1> QED
  BY <1>15

\* A line that is read is behind the reader.
LEMMA ReadInTurnKept ==
    ASSUME IInv, TypeInv, NEW last \in Nat, Ordered(last), run # Idle, ReadLine
    PROVE  Ordered(last)'
<1>0. DOMAIN run = RunFields
  BY DEF IInv, Holds
<1>2. PICK place : place = <<run.file, run.line + 1>>
  OBVIOUS
<1>3. /\ run'.line = run.line + 1 /\ run'.places = Append(run.places, place)
      /\ UNCHANGED <<files, honeypot>> /\ run.pc = "read"
  BY <1>0, <1>2, ReadLineDoes DEF ReadLine
<1>4. run'.file = run.file /\ run'.paths = run.paths
  <2>1. Rest({"line", "next", "places", "read", "made", "starts"})
    BY <1>0, ReadLineDoes
  <2> QED
    BY <2>1 DEF Rest, RunFields
<1>5. /\ run.file \in Nat \ {0} /\ run.line \in Nat /\ place \in Nat \X Nat
      /\ run.places \in Seq(Nat \X Nat)
  BY <1>2, <1>3 DEF TypeInv, Reading, Ordered
<1>6. PICK P : P = Nat \X Nat
  OBVIOUS
<1>7. PICK n \in Nat : n = Len(run.places)
  BY <1>5
<1>8. PICK longer : longer = Append(run.places, place)
  OBVIOUS
<1>9. /\ longer \in Seq(P) /\ DOMAIN longer = 1 .. n + 1 /\ DOMAIN run.places = 1 .. n
      /\ \A i \in 1 .. n : longer[i] = run.places[i]
      /\ longer[n + 1] = place
  BY <1>5, <1>6, <1>7, <1>8
<1>10. \A i \in 1 .. n : Before(last, longer[i], place)
  BY <1>2, <1>9 DEF Ordered
<1>11. PICK next : next = <<run.file, run.line + 2>>
  OBVIOUS
<1>12. place[1] = run.file /\ place[2] = run.line + 1 /\ next[1] = run.file
       /\ next[2] = run.line + 2
  BY <1>2, <1>11
<1>13. Before(last, place, next)
  BY <1>5, <1>12 DEF Before
<1>14. ASSUME NEW i \in 1 .. n + 1, NEW j \in 1 .. n + 1, i < j
       PROVE  Before(last, longer[i], longer[j])
  <2>1. i \in 1 .. n
    BY <1>14
  <2>2. CASE j \in 1 .. n
    BY <1>9, <1>14, <2>1, <2>2 DEF Ordered
  <2>3. CASE j = n + 1
    BY <1>9, <1>10, <2>1, <2>3
  <2> QED
    BY <2>2, <2>3
<1>15. ASSUME NEW i \in 1 .. n + 1 PROVE Before(last, longer[i], next)
  <2>1. CASE i = n + 1
    BY <1>9, <1>13, <2>1
  <2>2. CASE i # n + 1
    <3>1. PICK a : a = longer[i]
      OBVIOUS
    <3>2. i \in 1 .. n
      BY <2>2
    <3>3. a \in Nat \X Nat
      BY <1>6, <1>9, <3>1, <3>2
    <3>4. Turn(last, a[1]) < Turn(last, place[1]) \/ (a[1] = place[1] /\ a[2] < place[2])
      BY <1>10, <3>1, <3>2 DEF Before
    <3>5. Turn(last, a[1]) < Turn(last, next[1]) \/ (a[1] = next[1] /\ a[2] < next[2])
      BY <1>5, <1>12, <3>3, <3>4
    <3> QED
      BY <3>1, <3>5 DEF Before
  <2> QED
    BY <2>1, <2>2
<1>16. run.line + 2 = run'.line + 1
  BY <1>3, <1>5
<1>17. ~DatedNames => \A i \in 1 .. n + 1 : longer[i][1] \in 1 .. last
  <2> SUFFICES ASSUME ~DatedNames, NEW i \in 1 .. n + 1 PROVE longer[i][1] \in 1 .. last
    OBVIOUS
  <2>1. CASE i = n + 1
    <3>1. longer[i][1] = run.file /\ run.file <= last
      BY <1>9, <1>12, <2>1 DEF Ordered
    <3> QED
      BY <1>5, <3>1
  <2>2. CASE i # n + 1
    <3>1. i \in 1 .. n
      BY <2>2
    <3>2. run.places[i][1] \in 1 .. last
      BY <1>9, <3>1 DEF Ordered
    <3> QED
      BY <1>9, <3>1, <3>2
  <2> QED
    BY <2>1, <2>2
<1>18. /\ DatedNames' = DatedNames /\ \A a, b : Before(last, a, b)' = Before(last, a, b)
       /\ \A f : Turn(last, f)' = Turn(last, f) /\ Opened(f)' = Opened(f)
  BY <1>3 DEF Before, Turn, DatedNames, Opened
<1>19. /\ run'.places = longer /\ longer \in Seq(Nat \X Nat)
       /\ <<run'.file, run'.line + 1>> = next /\ run'.file # 0
  BY <1>3, <1>4, <1>5, <1>6, <1>8, <1>9, <1>11, <1>16
<1>20. \A other \in run'.paths : Turn(last, run'.file) < Turn(last, Opened(other))
  BY <1>4, <1>5 DEF Ordered
<1>21. /\ run'.places \in Seq(Nat \X Nat)
       /\ \A i, j \in DOMAIN run'.places :
              i < j => Before(last, run'.places[i], run'.places[j])
       /\ \A i \in DOMAIN run'.places :
              Before(last, run'.places[i], <<run'.file, run'.line + 1>>)
  BY <1>9, <1>14, <1>15, <1>19
<1>22. ~DatedNames => /\ run'.file <= last
                      /\ \A i \in DOMAIN run'.places : run'.places[i][1] \in 1 .. last
                      /\ run'.paths # {} => last = Len(files')
  BY <1>3, <1>4, <1>9, <1>17, <1>19 DEF Ordered
<1> QED
  BY <1>18, <1>19, <1>20, <1>21, <1>22 DEF Ordered

LEMMA InOrderKept ==
    ASSUME IInv, TypeInv, Noted, InOrder, [Next]_vars
    PROVE  InOrder'
<1> SUFFICES ASSUME run' # Idle, DatedNames \/ ~run'.rotated
             PROVE  \E last \in Nat : Ordered(last)'
  BY SameHoneypot DEF InOrder, DatedNames
<1>0. UNCHANGED honeypot /\ DatedNames' = DatedNames
  BY SameHoneypot DEF DatedNames
<1>1. /\ AllNames = 0 .. Len(files) - 1 /\ Len(files) \in Nat \ {0}
      /\ \A name \in AllNames : Opened(name) \in 1 .. Len(files)
      /\ \A name \in AllNames \ {Live} :
             Opened(name) = IF DatedNames THEN name ELSE Len(files) - name
  BY AllNamesIs DEF TypeInv
<1>2. ASSUME NEW names \in SUBSET AllNames, NEW since, NEW dry, Start(names, since, dry)
      PROVE  \E last \in Nat : Ordered(last)'
  <2>1. /\ run'.places = <<>> /\ run'.file = 0 /\ run'.line = 0 /\ run'.paths = names
        /\ files' = files
    BY <1>2, StartDoes DEF Start
  <2>2. DOMAIN <<>> = {} /\ <<>> \in Seq(Nat \X Nat)
    OBVIOUS
  <2>3. Ordered(Len(files))'
    BY <1>1, <2>1, <2>2 DEF Ordered
  <2> QED
    BY <1>1, <2>3
<1>3. CASE run # Idle /\ (DatedNames \/ ~run.rotated)
  <2>1. PICK last \in Nat : Ordered(last)
    BY <1>3 DEF InOrder
  <2>2. Reading
    BY <1>3 DEF TypeInv
  <2>3. /\ \A a, b : Before(last, a, b)' = Before(last, a, b)
        /\ \A f : Turn(last, f)' = Turn(last, f)
    BY <1>0 DEF Before, Turn, DatedNames
  <2>4. ASSUME /\ run'.places = run.places /\ run'.file = run.file /\ run'.line = run.line
               /\ run'.paths = run.paths,
               /\ \A name \in run.paths : Turn(last, Opened(name)) <= Turn(last, Opened(name)')
               /\ ~DatedNames => run.paths = {} \/ Len(files') = Len(files)
        PROVE  Ordered(last)'
    <3>1. ASSUME run.file # 0, NEW name \in run.paths
          PROVE  Turn(last, run.file) < Turn(last, Opened(name)')
      <4>1. Turn(last, run.file) < Turn(last, Opened(name))
        BY <2>1, <3>1 DEF Ordered
      <4>2. Opened(name) \in Nat /\ run.file \in Nat
        BY <1>1, <2>2, <3>1 DEF Reading
      <4>3. Opened(name)' \in Nat
        <5>1. LogOK'
          BY TypesKept DEF TypeInv
        <5>2. name \in AllNames'
          <6>1. Reading'
            BY TypesKept DEF TypeInv
          <6> QED
            BY <2>4, <3>1, <6>1 DEF Reading
        <5>3. \A n \in AllNames' : Opened(n)' \in 1 .. Len(files') /\ Len(files') \in Nat
          BY <5>1, AllNamesPrime
        <5> QED
          BY <5>2, <5>3
      <4>4. /\ Turn(last, run.file) \in Int /\ Turn(last, Opened(name)) \in Int
            /\ Turn(last, Opened(name)') \in Int
        BY <4>2, <4>3, TurnIs
      <4> QED
        BY <2>4, <3>1, <4>1, <4>4
    <3>2. /\ run'.places \in Seq(Nat \X Nat)
          /\ \A i, j \in DOMAIN run'.places :
                 i < j => Before(last, run'.places[i], run'.places[j])
          /\ \A i \in DOMAIN run'.places :
                 Before(last, run'.places[i], <<run'.file, run'.line + 1>>)
          /\ run'.file = 0 => run'.places = <<>>
      BY <2>1, <2>4 DEF Ordered
    <3>3. ~DatedNames => /\ run'.file <= last
                         /\ \A i \in DOMAIN run'.places : run'.places[i][1] \in 1 .. last
                         /\ run'.paths # {} => last = Len(files')
      BY <2>1, <2>4 DEF Ordered
    <3>4. run'.file # 0 =>
              \A name \in run'.paths : Turn(last, run'.file) < Turn(last, Opened(name)')
      BY <2>4, <3>1
    <3> QED
      BY <1>0, <2>3, <3>2, <3>3, <3>4 DEF Ordered
  <2>5. CASE /\ run'.places = run.places /\ run'.file = run.file /\ run'.line = run.line
             /\ run'.paths = run.paths
             /\ Len(files') = Len(files)
    <3>1. \A name : Opened(name)' = Opened(name)
      BY <1>0, <2>5 DEF Opened, DatedNames
    <3>2. \A name \in run.paths : Turn(last, Opened(name)) <= Turn(last, Opened(name)')
      <4> SUFFICES ASSUME NEW name \in run.paths
                   PROVE  Turn(last, Opened(name)) <= Turn(last, Opened(name))
        BY <3>1
      <4>1. Turn(last, Opened(name)) \in Int
        <5>1. Opened(name) \in Nat
          BY <1>1, <2>2 DEF Reading
        <5> QED
          BY <5>1, TurnIs
      <4> QED
        BY <4>1
    <3> QED
      BY <2>4, <2>5, <3>2
  <2>6. CASE Rotate
    <3>1. Len(files') = Len(files) + 1
      BY <2>6, AppendedFile DEF Rotate, TypeInv
    <3>2. /\ run'.places = run.places /\ run'.file = run.file /\ run'.line = run.line
          /\ run'.paths = run.paths
      <4>0. DOMAIN run = RunFields
        BY <1>3 DEF IInv, Holds
      <4>1. run' = run \/ Rest({"rotated", "cut"})
        BY <2>6, <4>0, RotateDoes
      <4> QED
        BY <4>1 DEF Rest, RunFields
    <3>3. ~DatedNames => run.paths = {}
      <4> SUFFICES ASSUME ~DatedNames PROVE run.paths = {}
        OBVIOUS
      <4>1. CASE run.pc \in {"open", "read", "post"}
        <5>0. DOMAIN run = RunFields
          BY <1>3 DEF IInv, Holds
        <5>1. run'.rotated = (run.rotated \/ Disturbed)
          BY <2>6, <4>1, <5>0, RotateDoes
        <5> QED
          BY <5>1 DEF Disturbed
      <4>2. CASE ~(run.pc \in {"open", "read", "post"})
        <5>1. run.pc \in {"last", "done"}
          BY <2>2, <4>2, <1>3 DEF Reading, RunPcs, IInv
        <5> QED
          BY <1>3, <5>1 DEF Noted
      <4> QED
        BY <4>1, <4>2
    <3>4. \A name \in run.paths : Turn(last, Opened(name)) <= Turn(last, Opened(name)')
      <4> SUFFICES ASSUME NEW name \in run.paths
                   PROVE  Turn(last, Opened(name)) <= Turn(last, Opened(name)')
        OBVIOUS
      <4>1. DatedNames /\ name \in Nat
        BY <1>1, <2>2, <3>3 DEF Reading
      <4>2. Opened(name) = IF name = Live THEN Len(files) ELSE name
        BY <4>1 DEF Opened
      <4>3. Opened(name)' = IF name = Live THEN Len(files) + 1 ELSE name
        BY <1>0, <3>1, <4>1 DEF Opened
      <4> QED
        BY <1>1, <4>1, <4>2, <4>3 DEF Turn
    <3> QED
      BY <2>4, <3>2, <3>3, <3>4
  <2>7. CASE Open
    <3>1. ~DatedNames => last = Len(files)
      <4>1. run.paths # {}
        BY <2>2, <2>7 DEF Reading, Open
      <4> QED
        BY <2>1, <4>1 DEF Ordered
    <3> QED
      BY <1>3, <2>1, <2>7, <3>1, OpenInTurn
  <2>8. CASE ReadLine
    BY <1>3, <2>1, <2>8, ReadInTurnKept
  <2>9. \/ /\ run'.places = run.places /\ run'.file = run.file /\ run'.line = run.line
           /\ run'.paths = run.paths
           /\ Len(files') = Len(files)
        \/ Rotate \/ Open \/ ReadLine
        \/ \E names \in SUBSET AllNames : \E since, dry : Start(names, since, dry)
    <3>1. CASE run' = run
      <4>1. \/ files' = files \/ Rotate
            \/ \E raw \in Raws[honeypot] \cup {Junk} : Write(raw)
        BY DEF Next, vars, StopAdapter, StartAdapter, Start, Open, ReadLine, EndOfFile, ReadOn,
               Consider, Flush, SomeRejected, PostFails, Interrupted
      <4>2. Len(files') = Len(files) \/ Rotate
        BY <4>1, WriteDoes DEF TypeInv
      <4> QED
        BY <3>1, <4>2
    <3>2. CASE Moves
      <4>1. CASE ReadOn
        <5>1. run.cut
          BY <1>3, <4>1, ReadOnDoes DEF IInv, Holds
        <5> QED
          BY <1>3, <5>1 DEF Noted
      <4>2. CASE \/ Rest({"pc"}) /\ EndOfFile
                 \/ Rest({"batch", "next", "seen", "pc"}) /\ Consider
                 \/ Rest({"batch", "pc"}) /\ Flush
                 \/ Rest({"batch", "pc", "failed"}) /\ SomeRejected
        <5>1. files' = files
          BY <4>2, ConsiderRuns DEF EndOfFile, Flush, SomeRejected
        <5> QED
          BY <4>2, <5>1 DEF Rest, RunFields
      <4> QED
        BY <3>2, <4>1, <4>2 DEF Moves
    <3> QED
      BY <3>1, <3>2, StepOfRun
  <2> QED
    BY <1>2, <2>1, <2>5, <2>6, <2>7, <2>8, <2>9
<1>4. CASE ~(run # Idle /\ (DatedNames \/ ~run.rotated))
  <2>1. CASE \E names \in SUBSET AllNames : \E since, dry : Start(names, since, dry)
    BY <1>2, <2>1
  <2>2. CASE run' = run
    BY <1>4, <2>2
  <2>3. CASE run # Idle /\ DOMAIN run = RunFields /\ Moves
    <3>1. CASE Rest({"rotated", "cut"}) /\ Rotate
      <4>1. CASE run.pc \in {"open", "read", "post"}
        BY <1>4, <2>3, <3>1, <4>1, RotateDoes
      <4>2. CASE ~(run.pc \in {"open", "read", "post"})
        BY <1>4, <2>3, <3>1, <4>2 DEF Rotate
      <4> QED
        BY <4>1, <4>2
    <3>2. CASE ~(Rest({"rotated", "cut"}) /\ Rotate)
      <4>1. run'.rotated = run.rotated
        BY <2>3, <3>2 DEF Moves, Rest, RunFields
      <4> QED
        BY <1>4, <2>3, <4>1
    <3> QED
      BY <3>1, <3>2
  <2> QED
    BY <2>1, <2>2, <2>3, StepOfRun
<1> QED
  BY <1>3, <1>4

\* No line of a run is read twice or before one above it, and each file is left for good before
\* the next: dated ones from the oldest, whatever is renamed on the way; numbered archives,
\* while none is renamed, from the newest, and the live file last.
THEOREM ReadInTurn == Spec => []FilesInTurn
<1>1. TypeInv /\ InOrder => FilesInTurn
  <2> SUFFICES ASSUME InOrder, run.pc # "idle", DatedNames \/ ~run.rotated,
                      NEW i \in DOMAIN run.places, NEW j \in DOMAIN run.places, i < j
               PROVE  IF run.places[i][1] = run.places[j][1]
                      THEN run.places[i][2] < run.places[j][2]
                      ELSE ReadBefore(run.places[i][1], run.places[j][1])
    BY DEF FilesInTurn
  <2>1. PICK last \in Nat : Ordered(last)
    BY DEF InOrder, Idle
  <2>2. PICK a : a = run.places[i]
    OBVIOUS
  <2>3. PICK b : b = run.places[j]
    OBVIOUS
  <2>4. run.places \in Seq(Nat \X Nat) /\ a \in Nat \X Nat /\ b \in Nat \X Nat
    BY <2>1, <2>2, <2>3 DEF Ordered
  <2>5. Before(last, a, b)
    BY <2>1, <2>2, <2>3 DEF Ordered
  <2>6. CASE a[1] = b[1]
    <3>1. Turn(last, a[1]) \in Int
      BY <2>4, TurnIs
    <3>2. a[2] < b[2]
      BY <2>5, <2>6, <3>1 DEF Before
    <3> QED
      BY <2>2, <2>3, <2>6, <3>2
  <2>7. CASE a[1] # b[1]
    <3>1. Turn(last, a[1]) < Turn(last, b[1])
      BY <2>5, <2>7 DEF Before
    <3>2. CASE DatedNames
      BY <2>2, <2>3, <2>7, <3>1, <3>2 DEF Turn, ReadBefore
    <3>3. CASE ~DatedNames
      <4>1. \A k \in DOMAIN run.places : run.places[k][1] \in 1 .. last
        BY <2>1, <3>3 DEF Ordered
      <4>2. a[1] \in 1 .. last /\ b[1] \in 1 .. last
        BY <2>2, <2>3, <4>1
      <4>3. CASE b[1] = last
        <5>1. \A place \in Range(run.places) : place[1] <= b[1]
          BY <4>1, <4>3 DEF Range
        <5> QED
          BY <2>2, <2>3, <2>7, <3>3, <5>1 DEF ReadBefore
      <4>4. CASE b[1] # last
        <5>1. b[1] < a[1]
          BY <3>1, <3>3, <4>2, <4>4 DEF Turn
        <5> QED
          BY <2>2, <2>3, <2>7, <3>3, <5>1 DEF ReadBefore
      <4> QED
        BY <4>3, <4>4
    <3> QED
      BY <3>2, <3>3
  <2> QED
    BY <2>6, <2>7
<1>2. Init => InOrder /\ Noted
  BY DEF Init, InOrder, Noted
<1>3. Spec => []IInv
  BY Initially, Inductive, PTL DEF Spec
<1>4. Spec => []TypeInv
  BY <1>3, TypesHold, TypesKept, PTL DEF Spec
<1>5. Spec => []Noted
  BY <1>2, <1>3, NotedKept, PTL DEF Spec
<1>6. Spec => []InOrder
  BY <1>2, <1>3, <1>4, <1>5, InOrderKept, PTL DEF Spec
<1> QED
  BY <1>1, <1>4, <1>6, PTL

-----------------------------------------------------------------------------
(* Nothing is left behind *)

\* The envelope waits to be sent, or is in the database, or storage failed on it.
Waits(raw, k) == \E i \in DOMAIN run.batch : run.batch[i].raw = raw /\ run.batch[i].place = k

Failed(raw, k) == \E item \in run.failed : item.raw = raw /\ item.place = k

Safe(raw, k) == Waits(raw, k) \/ IsStored(raw, k) \/ Failed(raw, k)

\* The lines of the run that it has still to read: further on in its file, or in one that a
\* name leads to which it has yet to open.
AheadAt(f, i) ==
    \/ run.pc \in {"read", "post"} /\ f = run.file /\ run.line < i
    \/ \E name \in run.paths : f = Opened(name)

Ahead(raw) ==
    \E f \in 1 .. Len(files) : \E i \in 1 .. Len(files[f]) : files[f][i] = raw /\ AheadAt(f, i)

\* The line whose envelopes are being looked at.
Current(raw) ==
    /\ run.pc \in {"read", "post"}
    /\ run.read # <<>> /\ CurrentLine = raw

Looked(raw) ==
    \A k \in Acceptable(raw) : <<raw, k>> \in run.seen \/ (Current(raw) /\ run.next <= k)

\* What is made of the line in hand is what its honeypot's mapper makes of it.
InHand ==
    /\ run.read \in Seq(Lines(honeypot))
    /\ IF run.read = <<>> \/ CurrentLine = Junk THEN run.made = <<>>
       ELSE \E starts : run.made = BuildEnvelopes(honeypot, starts, CurrentLine)

\* What was seen and is acceptable is safe, and can be stored.
SeenIsSafe ==
    /\ \A raw \in run.due : \A k \in Acceptable(raw) : <<raw, k>> \in run.seen => Safe(raw, k)
    /\ \A i \in DOMAIN run.batch :
           /\ run.batch[i].raw \in Lines(honeypot) \ {Junk}
           /\ run.batch[i].place \in Acceptable(run.batch[i].raw)
                  => StorageAccepts(run.batch[i].envelope)

Complete ==
    /\ run.due \subseteq Lines(honeypot) \ {Junk}
    /\ run.due # {} => run.since = Null /\ ~run.dry
    /\ run.pc \in {"last", "done"} => run.paths = {}
    /\ run.pc = "done" => run.batch = <<>>
    /\ ~run.rotated => \A raw \in run.due : Ahead(raw) \/ Looked(raw)

\* The checks of the aggregator, which a line's events pass or do not.
Taken(e) == ModelAccepts(e) /\ StorageAccepts(e)

\* The details of a session's end, with its duration or without.
Closing(d) ==
    /\ "status" \in DOMAIN d /\ d["status"] = "closed"
    /\ DOMAIN d \subseteq {"status", "duration_seconds"}

SameBut(e1, e2) ==
    /\ DOMAIN e1 = DOMAIN e2
    /\ \A field \in TopLevelFields \ {"event_id", "details"} : e1[field] = e2[field]
    /\ \/ e1["details"] = e2["details"]
       \/ /\ e1["event_type"] = "session_end"
          /\ Closing(e1["details"]) /\ Closing(e2["details"])

\* Neither the id nor a session's duration makes a difference to them.
LEMMA VerdictDepends ==
    ASSUME NEW e1, NEW e2, SameBut(e1, e2), Taken(e1)
    PROVE  Taken(e2)
<1>1. /\ DOMAIN e2 = DOMAIN e1
      /\ e2["node_id"] = e1["node_id"] /\ e2["event_type"] = e1["event_type"]
      /\ e2["timestamp"] = e1["timestamp"] /\ e2["session_id"] = e1["session_id"]
      /\ e2["attacker_ip"] = e1["attacker_ip"] /\ e2["protocol"] = e1["protocol"]
  BY DEF SameBut, TopLevelFields
<1>2. CASE e1["details"] = e2["details"]
  <2>1. ModelAccepts(e2)
    BY <1>1, <1>2 DEF Taken, ModelAccepts, AttackerFields
  <2>2. StorageAccepts(e2)
    BY <1>1, <1>2 DEF Taken, StorageAccepts, AttackerFields
  <2> QED
    BY <2>1, <2>2 DEF Taken
<1>3. CASE /\ e1["event_type"] = "session_end"
           /\ Closing(e1["details"]) /\ Closing(e2["details"])
  <2>1. Get(e2["details"], "status") = Get(e1["details"], "status")
    BY <1>3 DEF Closing, Get
  <2>2. RequiredDetails("session_end") = {"status"}
    BY DEF RequiredDetails
  <2>3. ModelAccepts(e2)
    BY <1>1, <1>3, <2>1, <2>2 DEF Taken, ModelAccepts, AttackerFields
  <2>4. DetailsAccepted("session_end", e2["details"])
    <3>1. DOMAIN e2["details"] \subseteq AllowedDetails["session_end"]
      BY <1>3 DEF Closing, AllowedDetails
    <3>2. Truthy(Get(e1["details"], "status"))
      BY <1>3, <2>2 DEF Taken, StorageAccepts, DetailsAccepted
    <3> QED
      BY <2>1, <2>2, <3>1, <3>2 DEF DetailsAccepted
  <2>5. StorageAccepts(e2)
    BY <1>1, <1>3, <2>4 DEF Taken, StorageAccepts, AttackerFields
  <2> QED
    BY <2>3, <2>5 DEF Taken
<1> QED
  BY <1>2, <1>3 DEF SameBut

\* The filter lets through whatever both of them take.
LEMMA TakenIsSent ==
    ASSUME NEW e, e["event_type"] # "heartbeat", Taken(e)
    PROVE  BackfillAccepts(e)
<1>1. /\ DOMAIN e = TopLevelFields /\ e["event_type"] \in EventTypes
      /\ e["timestamp"] # Null /\ e["timestamp"].form \in ParsedForms
      /\ e["protocol"] = Null \/ e["protocol"] \in AllowedProtocols
  BY DEF Taken, ModelAccepts, StorageAccepts
<1>2. DOMAIN e["details"] \subseteq AllowedDetails[e["event_type"]]
  BY DEF Taken, StorageAccepts, DetailsAccepted
<1>3. SensorAccepts(e)
  BY <1>1, <1>2 DEF SensorAccepts, TopLevelFields
<1>4. /\ \A field \in AttackerFields : Truthy(e[field])
      /\ \A key \in RequiredDetails(e["event_type"]) : Filled(Get(e["details"], key))
      /\ e["event_type"] = "file_download" => DownloadNamed(e["details"])
      /\ e["attacker_ip"] # Null => e["attacker_ip"] \in Addresses
  BY DEF Taken, ModelAccepts
<1>5. e["attacker_ip"] \in Addresses
  <2>1. Truthy(e["attacker_ip"])
    BY <1>4 DEF AttackerFields
  <2> QED
    BY <1>4, <2>1 DEF Truthy
<1> QED
  BY <1>1, <1>3, <1>4, <1>5 DEF BackfillAccepts

\* What is made of a line depends on the starts in a duration only.
LEMMA IncidentSame ==
    ASSUME NEW raw, NEW s1, NEW s2
    PROVE  /\ DOMAIN FromIncident(s1, raw) = DOMAIN FromIncident(s2, raw)
           /\ \A id1, id2 : \A k \in DOMAIN FromIncident(s1, raw) :
                  SameBut(Identified(FromIncident(s1, raw)[k], id1),
                          Identified(FromIncident(s2, raw)[k], id2))
<1> DEFINE m1 == FromIncident(s1, raw)
           m2 == FromIncident(s2, raw)
<1>1. PICK ts : ts = ToUtcZ(Get(raw, "timestamp"))
  OBVIOUS
<1>2. PICK d1 : d1 = IncidentDetails(s1, raw, ts)
  OBVIOUS
<1>3. PICK d2 : d2 = IncidentDetails(s2, raw, ts)
  OBVIOUS
<1>4. CASE ~Representable(raw)
  <2>1. m1 = <<>> /\ m2 = <<>>
    BY <1>4 DEF FromIncident
  <2>2. DOMAIN <<>> = {}
    OBVIOUS
  <2> QED
    BY <2>1, <2>2
<1>5. CASE Representable(raw)
  <2>1. PICK skipped \in BOOLEAN : skipped = (raw.origin = "command" /\ d1.command = Null)
    OBVIOUS
  <2>2. raw.origin # "free" => d1 = d2
    <3>1. raw.origin \in KnownOrigins
      BY <1>5 DEF Representable
    <3> QED
      BY <1>2, <1>3, <3>1 DEF IncidentDetails, KnownOrigins
  <2>3. raw.origin = "free" => Closing(d1) /\ Closing(d2)
    BY <1>2, <1>3 DEF IncidentDetails, Closing
  <2>4. PICK type : type = IncidentTypes[raw.origin]
    OBVIOUS
  <2>5. PICK c : c = ConnectionOf(raw.id, Get(raw, "protocol"), Get(raw, "remote_ip"))
    OBVIOUS
  <2>6. /\ m1 = IF skipped THEN <<>> ELSE <<Envelope(type, c, ts, d1)>>
        /\ m2 = IF skipped THEN <<>> ELSE <<Envelope(type, c, ts, d2)>>
    <3>1. skipped = (raw.origin = "command" /\ d2.command = Null)
      BY <2>1, <2>2
    <3> QED
      BY <1>1, <1>2, <1>3, <1>5, <2>1, <2>4, <2>5, <3>1, Zenon DEF FromIncident
  <2>7. CASE skipped
    <3>1. DOMAIN <<>> = {}
      OBVIOUS
    <3> QED
      BY <2>6, <2>7, <3>1
  <2>8. CASE ~skipped
    <3>1. PICK e1 : e1 = Envelope(type, c, ts, d1)
      OBVIOUS
    <3>2. PICK e2 : e2 = Envelope(type, c, ts, d2)
      OBVIOUS
    <3>3. m1 = <<e1>> /\ m2 = <<e2>>
      BY <2>6, <2>8, <3>1, <3>2
    <3>4. DOMAIN <<e1>> = {1} /\ DOMAIN <<e2>> = {1} /\ <<e1>>[1] = e1 /\ <<e2>>[1] = e2
      OBVIOUS
    <3>5. ASSUME NEW id1, NEW id2
          PROVE  SameBut(Identified(e1, id1), Identified(e2, id2))
      <4>1. PICK f1 : f1 = Identified(e1, id1)
        OBVIOUS
      <4>2. PICK f2 : f2 = Identified(e2, id2)
        OBVIOUS
      <4>3. DOMAIN e1 = DOMAIN e2 /\ TopLevelFields \ {"event_id"} \subseteq DOMAIN e1
        BY <3>1, <3>2 DEF Envelope, TopLevelFields
      <4>4. \A field \in TopLevelFields \ {"event_id", "details"} : e1[field] = e2[field]
        BY <3>1, <3>2 DEF Envelope, TopLevelFields
      <4>5. e1["details"] = d1 /\ e2["details"] = d2 /\ e1["event_type"] = type
        BY <3>1, <3>2 DEF Envelope
      <4>6. /\ DOMAIN f1 = DOMAIN e1 \cup {"event_id"} /\ DOMAIN f2 = DOMAIN e2 \cup {"event_id"}
            /\ \A field \in TopLevelFields \ {"event_id"} :
                   f1[field] = e1[field] /\ f2[field] = e2[field]
        BY <4>1, <4>2, <4>3 DEF Identified
      <4>7. /\ f1["details"] = d1 /\ f2["details"] = d2 /\ f1["event_type"] = type
        BY <4>5, <4>6 DEF TopLevelFields
      <4>8. raw.origin = "free" => type = "session_end"
        BY <2>4 DEF IncidentTypes
      <4>9. SameBut(f1, f2)
        BY <2>2, <2>3, <4>3, <4>4, <4>6, <4>7, <4>8 DEF SameBut
      <4> QED
        BY <4>1, <4>2, <4>9
    <3> QED
      BY <3>3, <3>4, <3>5
  <2> QED
    BY <2>7, <2>8
<1> QED
  BY <1>4, <1>5

LEMMA MadeSame ==
    ASSUME NEW h \in DOMAIN Raws, NEW raw \in Lines(h) \ {Junk}, NEW s1, NEW s2
    PROVE  /\ DOMAIN BuildEnvelopes(h, s1, raw) = DOMAIN BuildEnvelopes(h, s2, raw)
           /\ \A id1, id2 : \A k \in DOMAIN BuildEnvelopes(h, s1, raw) :
                  SameBut(Identified(BuildEnvelopes(h, s1, raw)[k], id1),
                          Identified(BuildEnvelopes(h, s2, raw)[k], id2))
<1>1. h = "cowrie" \/ h = "dionaea"
  BY BackfillAssumption
<1>2. PICK m1 : m1 = BuildEnvelopes(h, s1, raw)
  OBVIOUS
<1>3. PICK m2 : m2 = BuildEnvelopes(h, s2, raw)
  OBVIOUS
<1>4. CASE h = "dionaea" /\ "origin" \in DOMAIN raw
  <2>1. m1 = FromIncident(s1, raw) /\ m2 = FromIncident(s2, raw)
    BY <1>2, <1>3, <1>4 DEF BuildEnvelopes
  <2> QED
    BY <1>2, <1>3, <2>1, IncidentSame
<1>5. CASE ~(h = "dionaea" /\ "origin" \in DOMAIN raw)
  <2>1. m1 = m2
    BY <1>1, <1>2, <1>3, <1>5 DEF BuildEnvelopes
  <2>2. Drafts(m1)
    BY <1>2, MakesDrafts
  <2>3. ASSUME NEW k \in DOMAIN m1, NEW id1, NEW id2
        PROVE  SameBut(Identified(m1[k], id1), Identified(m1[k], id2))
    <3>1. PICK e : e = m1[k]
      OBVIOUS
    <3>2. DOMAIN e = TopLevelFields \ {"event_id"}
      <4>1. PICK S : m1 \in Seq(S) /\ \A x \in S : Draft(x)
        BY <2>2 DEF Drafts
      <4>2. e \in S
        BY <3>1, <4>1
      <4> QED
        BY <4>1, <4>2 DEF Draft
    <3>3. PICK f1 : f1 = Identified(e, id1)
      OBVIOUS
    <3>4. PICK f2 : f2 = Identified(e, id2)
      OBVIOUS
    <3>5. /\ DOMAIN f1 = DOMAIN f2
          /\ \A field \in TopLevelFields \ {"event_id"} : f1[field] = f2[field]
      BY <3>2, <3>3, <3>4 DEF Identified
    <3>6. f1["details"] = f2["details"]
      BY <3>5 DEF TopLevelFields
    <3> QED
      BY <3>1, <3>3, <3>4, <3>5, <3>6 DEF SameBut
  <2> QED
    BY <1>2, <1>3, <2>1, <2>3
<1> QED
  BY <1>4, <1>5

\* The events of a line that the aggregator takes are the same in every run.
LEMMA AcceptableIs ==
    ASSUME LogOK, NEW raw \in Lines(honeypot) \ {Junk}, NEW starts, NEW made,
           made = BuildEnvelopes(honeypot, starts, raw), NEW k, NEW id
    PROVE  /\ k \in Acceptable(raw) => k \in DOMAIN made
           /\ k \in DOMAIN made => (k \in Acceptable(raw) <=> Taken(Identified(made[k], id)))
<1>1. PICK plain : plain = BuildEnvelopes(honeypot, <<>>, raw)
  OBVIOUS
<1>2. DOMAIN made = DOMAIN plain
  BY <1>1, MadeSame DEF LogOK
<1>3. ASSUME NEW j \in DOMAIN made, NEW id1, NEW id2
      PROVE  Taken(Identified(made[j], id1)) <=> Taken(Identified(plain[j], id2))
  <2>1. SameBut(Identified(made[j], id1), Identified(plain[j], id2))
    BY <1>1, MadeSame DEF LogOK
  <2>2. SameBut(Identified(plain[j], id2), Identified(made[j], id1))
    <3>1. j \in DOMAIN plain
      BY <1>2
    <3> QED
      BY <1>1, <3>1, MadeSame DEF LogOK
  <2> QED
    BY <2>1, <2>2, VerdictDepends
<1>4. Acceptable(raw) = {j \in DOMAIN plain : Taken(Identified(plain[j], j))}
  BY <1>1 DEF Acceptable, Taken
<1> QED
  BY <1>2, <1>3, <1>4

\* The places of its events are counted from one.
LEMMA PlacesFromOne ==
    ASSUME LogOK, NEW raw \in Lines(honeypot) \ {Junk}
    PROVE  Acceptable(raw) \subseteq Nat \ {0}
<1>1. PICK plain : plain = BuildEnvelopes(honeypot, <<>>, raw)
  OBVIOUS
<1>2. PICK S : plain \in Seq(S)
  BY <1>1, MakesDrafts DEF Drafts, LogOK
<1>3. Acceptable(raw) \subseteq DOMAIN plain
  BY <1>1 DEF Acceptable
<1> QED
  BY <1>2, <1>3

\* What is acceptable of the line in hand is among what was made of it.
LEMMA InHandIs ==
    ASSUME LogOK, InHand, NEW raw \in Lines(honeypot) \ {Junk}, Current(raw), NEW k, NEW id
    PROVE  /\ k \in Acceptable(raw) => k \in DOMAIN run.made
           /\ k \in DOMAIN run.made =>
                  (k \in Acceptable(raw) <=> Taken(Identified(run.made[k], id)))
<1>1. PICK starts : run.made = BuildEnvelopes(honeypot, starts, raw)
  BY DEF InHand, Current
<1> QED
  BY <1>1, AcceptableIs

\* What is made is of the line in hand, after every step.
LEMMA InHandKept ==
    ASSUME IInv, TypeInv, run # Idle => InHand, [Next]_vars, run' # Idle
    PROVE  InHand'
<1>0. /\ run # Idle => DOMAIN run = RunFields
      /\ honeypot' = honeypot
  BY SameHoneypot DEF IInv, Holds
<1>1. CASE run # Idle /\ run'.read = run.read /\ run'.made = run.made
  BY <1>1, <1>0 DEF InHand, CurrentLine
<1>2. ASSUME NEW names, NEW since, NEW dry, Start(names, since, dry) PROVE InHand'
  <2>1. run'.read = <<>> /\ run'.made = <<>>
    BY <1>2, StartDoes
  <2> QED
    BY <2>1 DEF InHand
<1>3. CASE ReadLine
  <2>1. run # Idle
    BY <1>3 DEF ReadLine, LineDone, Idle
  <2>2. PICK raw : raw = files[run.file][run.line + 1]
    OBVIOUS
  <2>3. /\ run.pc = "read" /\ run.line < Len(files[run.file])
        /\ run'.read = Append(run.read, raw)
        /\ raw = Junk => run'.made = <<>>
        /\ raw # Junk => run'.made = BuildEnvelopes(honeypot, run.starts, raw)
    BY <1>0, <1>3, <2>1, <2>2, ReadLineDoes
  <2>4. raw \in Lines(honeypot)
    <3>1. run.file \in 1 .. Len(files) /\ run.line \in Nat
      BY <2>1, <2>3 DEF TypeInv, Reading
    <3>2. files[run.file] \in Seq(Lines(honeypot))
      BY <3>1 DEF TypeInv, LogOK
    <3>3. run.line + 1 \in 1 .. Len(files[run.file])
      BY <2>3, <3>1, <3>2
    <3> QED
      BY <2>2, <3>1, <3>3, LineOnDisk DEF TypeInv
  <2>5. PICK L : L = Lines(honeypot)
    OBVIOUS
  <2>6. run.read \in Seq(L) /\ raw \in L
    BY <2>1, <2>4, <2>5 DEF InHand
  <2>7. PICK longer : longer = Append(run.read, raw)
    OBVIOUS
  <2>8. longer \in Seq(L) /\ longer[Len(longer)] = raw /\ longer # <<>>
    BY <2>6, <2>7
  <2> QED
    BY <1>0, <2>3, <2>5, <2>7, <2>8 DEF InHand, CurrentLine
<1>4. \/ run # Idle /\ run'.read = run.read /\ run'.made = run.made
      \/ \E names, since, dry : Start(names, since, dry)
      \/ ReadLine
  <2>1. CASE Moves /\ run # Idle /\ ~ReadLine
    BY <2>1 DEF Moves, Rest, RunFields
  <2> QED
    BY <2>1, StepOfRun
<1> QED
  BY <1>1, <1>2, <1>3, <1>4

\* What is stored stays so, and what waits is stored when it is sent, but for what storage
\* fails on.
LEMMA SentIsStored ==
    ASSUME IInv, SeenIsSafe, run # Idle, NEW failed, stored' = StoredWith(Sent \ failed),
           NEW raw, NEW k \in Acceptable(raw), Safe(raw, k)
    PROVE  \/ IsStored(raw, k)' \/ Failed(raw, k)
           \/ \E item \in failed : item.raw = raw /\ item.place = k
<1>0. Holds(run) /\ Rows
  BY DEF IInv
<1>1. PICK items : items = Sent \ failed /\ stored' = StoredWith(items)
  OBVIOUS
<1>2. CASE IsStored(raw, k)
  BY <1>1, <1>2 DEF IsStored, StoredWith
<1>3. CASE Waits(raw, k)
  <2>1. PICK i \in DOMAIN run.batch : run.batch[i].raw = raw /\ run.batch[i].place = k
    BY <1>3 DEF Waits
  <2>2. PICK item : item = run.batch[i]
    OBVIOUS
  <2>3. item \in Sent /\ StorageAccepts(item.envelope) /\ item.raw = raw /\ item.place = k
    BY <2>1, <2>2 DEF SeenIsSafe, Sent
  <2>6. CASE item \in failed
    BY <2>3, <2>6
  <2>4. CASE item \notin failed /\ \A row \in stored : row.id # item.id
    <3>1. item \in stored'
      BY <1>1, <2>3, <2>4 DEF StoredWith
    <3> QED
      BY <2>3, <3>1 DEF IsStored
  <2>5. CASE \E row \in stored : row.id = item.id
    <3>1. PICK row \in stored : row.id = item.id
      BY <2>5
    <3>2. Named(row) /\ Named(item)
      BY <1>0, <2>2 DEF Rows, Holds, Batched
    <3>3. row.id = <<row.raw, row.place>> /\ item.id = <<raw, k>>
      BY <2>3, <3>2, Zenon DEF Named, StableId
    <3>4. row.raw = raw /\ row.place = k
      <4>1. <<row.raw, row.place>> = <<raw, k>>
        BY <3>1, <3>3
      <4> QED
        BY <4>1, Zenon
    <3> QED
      BY <1>1, <3>4 DEF StoredWith, IsStored
  <2> QED
    BY <2>4, <2>5, <2>6
<1> QED
  BY <1>2, <1>3 DEF Safe

\* An envelope that is looked at and acceptable waits from then on, and what waits can be
\* stored.
LEMMA SafeKept ==
    ASSUME IInv, TypeInv, run # Idle => InHand /\ SeenIsSafe /\ Complete, [Next]_vars,
           run' # Idle
    PROVE  SeenIsSafe'
<1>0. /\ run # Idle => DOMAIN run = RunFields /\ \E S : run.batch \in Seq(S)
      /\ honeypot' = honeypot
  BY SameHoneypot DEF IInv, Holds, Batched
<1>1. CASE /\ run # Idle /\ stored' = stored
           /\ run'.batch = run.batch /\ run'.seen = run.seen /\ run'.due = run.due
           /\ run'.failed = run.failed
  BY <1>1, <1>0 DEF SeenIsSafe, Safe, Waits, IsStored, Failed, Acceptable
<1>2. ASSUME NEW names, NEW since, NEW dry, Start(names, since, dry) PROVE SeenIsSafe'
  <2>1. run'.batch = <<>> /\ run'.seen = {}
    BY <1>2, StartDoes
  <2>2. DOMAIN <<>> = {}
    OBVIOUS
  <2> QED
    BY <2>1, <2>2 DEF SeenIsSafe
<1>3. CASE Consider
  <2>1. run # Idle
    BY <1>3, ConsiderRuns
  <2>2. /\ run.pc = "read" /\ ~(run.next > Len(run.made))
        /\ run'.batch = IF Joining THEN Append(run.batch, CurrentItem) ELSE run.batch
        /\ run'.seen = IF Inside THEN run.seen \cup {CurrentId} ELSE run.seen
        /\ Rest({"batch", "next", "seen", "pc"})
    BY <1>0, <1>3, <2>1, ConsiderDoes
  <2>3. run'.due = run.due /\ run'.failed = run.failed
    BY <2>2 DEF Rest, RunFields
  <2>4. stored' = stored
    BY <1>3, ConsiderRuns
  <2>5. PICK S : run.made \in Seq(S) /\ \A e \in S : Draft(e)
    BY <2>1 DEF TypeInv, Working, Drafts
  <2>6. run.next \in DOMAIN run.made
    BY <2>1, <2>2, <2>5 DEF TypeInv, Working
  <2>7. CurrentLine \in Lines(honeypot) \ {Junk} /\ Current(CurrentLine)
    <3>1. run.made # <<>>
      BY <2>5, <2>6
    <3>2. run.read # <<>> /\ CurrentLine # Junk
      BY <2>1, <3>1 DEF InHand
    <3>3. run.read \in Seq(Lines(honeypot))
      BY <2>1 DEF InHand
    <3>4. CurrentLine \in Lines(honeypot)
      BY <3>2, <3>3 DEF CurrentLine
    <3> QED
      BY <2>2, <3>2, <3>4 DEF Current
  <2>8. run.next \in Acceptable(CurrentLine) <=> Taken(CurrentEnvelope)
    BY <2>1, <2>6, <2>7, InHandIs DEF CurrentEnvelope, TypeInv
  <2>9. PICK item : item = CurrentItem
    OBVIOUS
  <2>10. /\ item.raw = CurrentLine /\ item.place = run.next
         /\ item.envelope = CurrentEnvelope
    BY <2>9 DEF CurrentItem
  <2>11. PICK T : T = S \cup {item}
    OBVIOUS
  <2>12. PICK B : run.batch \in Seq(B) /\ item \in B
    <3>1. PICK B : run.batch \in Seq(B)
      BY <1>0, <2>1
    <3>2. run.batch \in Seq(B \cup {item}) /\ item \in B \cup {item}
      BY <3>1
    <3> QED
      BY <3>2
  <2>13. PICK n \in Nat : n = Len(run.batch) /\ DOMAIN run.batch = 1 .. n
    BY <2>12
  <2>14. PICK longer : longer = Append(run.batch, item)
    OBVIOUS
  <2>15. /\ DOMAIN longer = 1 .. n + 1 /\ longer[n + 1] = item
         /\ \A i \in DOMAIN run.batch : longer[i] = run.batch[i]
    BY <2>12, <2>13, <2>14
  <2>16. run'.batch = IF Joining THEN longer ELSE run.batch
    BY <2>2, <2>9, <2>14
  <2>17. \A i \in DOMAIN run.batch : i \in DOMAIN run'.batch /\ run'.batch[i] = run.batch[i]
    BY <2>13, <2>15, <2>16
  <2>18. ASSUME NEW raw \in run.due, NEW k \in Acceptable(raw), <<raw, k>> \in run'.seen
         PROVE  Safe(raw, k)'
    <3>1. CASE <<raw, k>> \in run.seen
      <4>1. Safe(raw, k)
        BY <2>1, <2>18, <3>1 DEF SeenIsSafe
      <4>2. CASE Waits(raw, k)
        BY <2>17, <4>2 DEF Waits, Safe
      <4>3. CASE IsStored(raw, k)
        BY <2>4, <4>3 DEF IsStored, Safe
      <4>4. CASE Failed(raw, k)
        BY <2>3, <4>4 DEF Failed, Safe
      <4> QED
        BY <4>1, <4>2, <4>3, <4>4 DEF Safe
    <3>2. CASE <<raw, k>> \notin run.seen
      <4>1. Inside /\ CurrentId = <<raw, k>>
        BY <2>2, <2>18, <3>2
      <4>2. CurrentLine = raw /\ run.next = k
        <5>1. <<CurrentLine, run.next>> = <<raw, k>>
          BY <4>1, Zenon DEF CurrentId, StableId
        <5> QED
          BY <5>1, Zenon
      <4>3. CurrentEnvelope["event_type"] # "heartbeat"
        <5>1. PICK draft \in S : draft = run.made[run.next]
          BY <2>5, <2>6
        <5>2. Draft(draft)
          BY <2>5, <5>1
        <5> QED
          BY <5>1, <5>2 DEF Draft, CurrentEnvelope, Identified, TopLevelFields
      <4>4. Joining
        BY <2>8, <3>2, <4>1, <4>2, <4>3, TakenIsSent DEF Joining
      <4>5. run'.batch = longer /\ n + 1 \in DOMAIN longer
        BY <2>15, <2>16, <4>4
      <4> QED
        BY <2>10, <2>15, <4>2, <4>5 DEF Waits, Safe
    <3> QED
      BY <3>1, <3>2
  <2>19. ASSUME NEW i \in DOMAIN run'.batch
         PROVE  /\ run'.batch[i].raw \in Lines(honeypot) \ {Junk}
                /\ run'.batch[i].place \in Acceptable(run'.batch[i].raw)
                       => StorageAccepts(run'.batch[i].envelope)
    <3>1. CASE i \in DOMAIN run.batch
      BY <2>1, <2>17, <3>1 DEF SeenIsSafe
    <3>2. CASE i \notin DOMAIN run.batch
      <4>1. run'.batch[i] = item
        BY <2>13, <2>15, <2>16, <2>19, <3>2
      <4> QED
        BY <2>7, <2>8, <2>10, <4>1 DEF Taken
    <3> QED
      BY <3>1, <3>2
  <2> QED
    BY <1>0, <2>3, <2>18, <2>19 DEF SeenIsSafe, Acceptable
<1>4. CASE Flush \/ SomeRejected
  <2>1. run # Idle
    <3>1. run.pc \in {"post", "last"}
      BY <1>4, Zenon DEF Flush, SomeRejected
    <3> QED
      BY <3>1 DEF Idle
  <2>2. run'.batch = <<>> /\ (Rest({"batch", "pc"}) \/ Rest({"batch", "pc", "failed"}))
    BY <1>0, <1>4, <2>1, FlushDoes, SomeRejectedDoes
  <2>3. run'.seen = run.seen /\ run'.due = run.due
    BY <2>2 DEF Rest, RunFields
  <2>4. DOMAIN <<>> = {}
    OBVIOUS
  <2>5. ASSUME NEW raw \in run.due, NEW k \in Acceptable(raw), <<raw, k>> \in run.seen
        PROVE  Safe(raw, k)'
    <3>1. Safe(raw, k) /\ ~run.dry
      BY <2>1, <2>5 DEF SeenIsSafe, Complete
    <3>2. PICK failed : /\ stored' = StoredWith(Sent \ failed)
                        /\ run'.failed = run.failed \cup failed
      <4>1. CASE Flush
        <5>1. Rest({"batch", "pc"}) /\ BatchAccepted
          BY <1>0, <2>1, <3>1, <4>1, FlushDoes
        <5>2. run'.failed = run.failed \cup {}
          BY <5>1 DEF Rest, RunFields
        <5>3. stored' = StoredWith(Sent \ {})
          BY <3>1, <4>1, <5>1 DEF Flush
        <5> QED
          BY <5>2, <5>3
      <4>2. CASE SomeRejected
        BY <1>0, <2>1, <4>2, SomeRejectedDoes
      <4> QED
        BY <1>4, <4>1, <4>2
    <3>3. \/ IsStored(raw, k)' \/ Failed(raw, k)
          \/ \E item \in failed : item.raw = raw /\ item.place = k
      BY <2>1, <3>1, <3>2, SentIsStored
    <3> QED
      BY <3>2, <3>3 DEF Safe, Failed
  <2> QED
    BY <1>0, <2>2, <2>3, <2>4, <2>5 DEF SeenIsSafe, Acceptable
<1>5. \/ /\ run # Idle /\ stored' = stored
         /\ run'.batch = run.batch /\ run'.seen = run.seen /\ run'.due = run.due
         /\ run'.failed = run.failed
      \/ \E names, since, dry : Start(names, since, dry)
      \/ Consider \/ Flush \/ SomeRejected
  <2>1. CASE run' = run /\ stored' = stored
    BY <2>1
  <2>2. CASE Moves /\ run # Idle /\ ~(Consider \/ Flush \/ SomeRejected)
    <3>1. stored' = stored
      BY <2>2 DEF Moves, Rotate, EndOfFile, ReadOn, Open, ReadLine
    <3> QED
      BY <2>2, <3>1 DEF Moves, Rest, RunFields
  <2>3. CASE run' = run /\ stored' # stored
    BY <2>3 DEF Next, vars, Write, StopAdapter, StartAdapter, PostFails, Interrupted, Rotate,
                EndOfFile, ReadOn, Open, ReadLine, Start
  <2> QED
    BY <2>1, <2>2, <2>3, StepOfRun
<1> QED
  BY <1>1, <1>2, <1>3, <1>4, <1>5

\* A run that starts over everything has all of its lines ahead.
LEMMA StartIsDue ==
    ASSUME LogOK, NEW names \in SUBSET AllNames, NEW since, NEW dry, Start(names, since, dry)
    PROVE  Complete'
<1>1. /\ run'.pc = "open" /\ run'.since = since /\ run'.dry = dry /\ run'.paths = names
      /\ run'.due = IF names = AllNames /\ ~dry /\ since = Null
                    THEN {LineAt(place) : place \in Places} \ {Junk} ELSE {}
  BY StartDoes
<1>2. files' = files /\ honeypot' = honeypot
  BY DEF Start
<1>3. Len(files) \in Nat \ {0} /\ DOMAIN files = 1 .. Len(files)
  BY DEF LogOK
<1>4. ASSUME NEW raw \in run'.due
      PROVE  /\ raw \in Lines(honeypot) \ {Junk} /\ Ahead(raw)'
             /\ names = AllNames /\ ~dry /\ since = Null
  <2>1. names = AllNames /\ ~dry /\ since = Null
    BY <1>1, <1>4
  <2>2. PICK place \in Places : raw = LineAt(place) /\ raw # Junk
    BY <1>1, <1>4
  <2>3. PICK f \in DOMAIN files : \E i \in DOMAIN files[f] : place = <<f, i>>
    BY DEF Places, PlacesIn
  <2>4. PICK i \in DOMAIN files[f] : place = <<f, i>>
    BY <2>3
  <2>5. /\ f \in 1 .. Len(files) /\ i \in 1 .. Len(files[f]) /\ files[f][i] = raw
    <3>1. f \in 1 .. Len(files)
      BY <1>3
    <3>2. files[f] \in Seq(Lines(honeypot))
      BY <3>1 DEF LogOK
    <3>3. DOMAIN files[f] = 1 .. Len(files[f])
      BY <3>2
    <3> QED
      BY <2>2, <2>4, <3>1, <3>3 DEF LineAt
  <2>6. raw \in Lines(honeypot)
    BY <2>5, LineOnDisk
  <2>7. AheadAt(f, i)'
    <3>1. \E name \in AllNames : f = Opened(name)
      <4>1. CASE f = Len(files)
        BY <4>1 DEF AllNames, Opened
      <4>2. CASE f # Len(files) /\ DatedNames
        <5>1. f \in AllNames /\ f # Live
          BY <1>3, <2>5, <4>2 DEF AllNames, Live
        <5> QED
          BY <4>2, <5>1 DEF Opened
      <4>3. CASE f # Len(files) /\ ~DatedNames
        <5>1. PICK name : name = Len(files) - f
          OBVIOUS
        <5>2. name \in 1 .. Len(files) - 1 /\ name # 0 /\ Len(files) - name = f
          BY <1>3, <2>5, <4>3, <5>1
        <5> QED
          BY <4>3, <5>2 DEF AllNames, Opened, Live
      <4> QED
        BY <4>1, <4>2, <4>3
    <3>2. \A name \in AllNames : Opened(name)' = Opened(name)
      BY <1>2 DEF Opened, DatedNames
    <3> QED
      BY <1>1, <2>1, <3>1, <3>2 DEF AheadAt
  <2> QED
    BY <1>2, <2>1, <2>2, <2>5, <2>6, <2>7 DEF Ahead
<1> QED
  BY <1>1, <1>2, <1>4 DEF Complete

\* Nothing that is on disk is taken from it, or put elsewhere in it.
LEMMA LinesStay ==
    ASSUME LogOK, [Next]_vars, NEW f \in 1 .. Len(files), NEW i \in 1 .. Len(files[f])
    PROVE  f \in 1 .. Len(files') /\ i \in 1 .. Len(files'[f]) /\ files'[f][i] = files[f][i]
<1>1. files[f] \in Seq(Lines(honeypot)) /\ Len(files) \in Nat
  BY DEF LogOK
<1>2. CASE files' = files
  BY <1>2
<1>3. CASE Rotate
  <2>1. Len(files') = Len(files) + 1 /\ files'[f] = files[f]
    BY <1>3, AppendedFile DEF Rotate
  <2> QED
    BY <1>1, <2>1
<1>4. CASE \E raw \in Raws[honeypot] \cup {Junk} : Write(raw)
  <2>1. PICK raw \in Raws[honeypot] \cup {Junk} : Write(raw)
    BY <1>4
  <2>2. /\ Len(files') = Len(files)
        /\ f # Len(files) => files'[f] = files[f]
        /\ f = Len(files) => files'[f] = Append(files[f], raw)
    BY <2>1, WriteDoes
  <2>3. CASE f # Len(files)
    BY <2>2, <2>3
  <2>4. CASE f = Len(files)
    <3>1. raw \in Lines(honeypot)
      BY DEF Lines
    <3>2. PICK L : L = Lines(honeypot)
      OBVIOUS
    <3>3. files[f] \in Seq(L) /\ raw \in L
      BY <1>1, <3>1, <3>2
    <3>4. PICK longer : longer = Append(files[f], raw)
      OBVIOUS
    <3>5. i \in 1 .. Len(longer) /\ longer[i] = files[f][i]
      BY <3>3, <3>4
    <3> QED
      BY <2>2, <2>4, <3>4, <3>5
  <2> QED
    BY <2>3, <2>4
<1>5. files' = files \/ Rotate \/ \E raw \in Raws[honeypot] \cup {Junk} : Write(raw)
  BY DEF Next, vars, StopAdapter, StartAdapter, Start, Open, ReadLine, EndOfFile,
         ReadOn, Consider, Flush, SomeRejected, PostFails, Interrupted
<1> QED
  BY <1>2, <1>3, <1>4, <1>5

\* When a line is done with there is nothing left to look at in it.
LEMMA DoneLooked ==
    ASSUME TypeInv, InHand, run # Idle, run.next > Len(run.made),
           NEW raw \in Lines(honeypot) \ {Junk}, Looked(raw), NEW k \in Acceptable(raw)
    PROVE  <<raw, k>> \in run.seen
<1> SUFFICES ASSUME Current(raw), run.next <= k PROVE FALSE
  BY DEF Looked
<1>1. k \in DOMAIN run.made
  BY InHandIs DEF TypeInv
<1>2. PICK S : run.made \in Seq(S)
  BY DEF TypeInv, Working, Drafts
<1>3. k \in 1 .. Len(run.made) /\ Len(run.made) \in Nat /\ run.next \in Nat
  BY <1>1, <1>2 DEF TypeInv, Working
<1> QED
  BY <1>3

\* A line ahead is ahead until it is read, and from then on looked at.
LEMMA AheadKept ==
    ASSUME IInv, TypeInv, Noted, InHand, Complete, [Next]_vars, run # Idle, run' # Idle,
           ~\E names \in SUBSET AllNames : \E since, dry : Start(names, since, dry), ~run'.rotated,
           NEW raw \in Lines(honeypot) \ {Junk}, Ahead(raw)
    PROVE  Ahead(raw)' \/ Looked(raw)'
<1>0. LogOK /\ Reading /\ honeypot' = honeypot /\ DOMAIN run = RunFields
  BY SameHoneypot DEF TypeInv, IInv, Holds
<1>1. PICK f \in 1 .. Len(files) :
          \E i \in 1 .. Len(files[f]) : files[f][i] = raw /\ AheadAt(f, i)
  BY DEF Ahead
<1>2. PICK i \in 1 .. Len(files[f]) : files[f][i] = raw /\ AheadAt(f, i)
  BY <1>1
<1>3. f \in 1 .. Len(files') /\ i \in 1 .. Len(files'[f]) /\ files'[f][i] = raw
  BY <1>0, <1>2, LinesStay
<1>4. SUFFICES ASSUME ~AheadAt(f, i)' PROVE Looked(raw)'
  BY <1>3 DEF Ahead
<1>5. CASE run' = run /\ Len(files') = Len(files)
  <2>1. \A name : Opened(name)' = Opened(name)
    BY <1>0, <1>5 DEF Opened, DatedNames
  <2> QED
    BY <1>2, <1>4, <1>5, <2>1 DEF AheadAt
<1>6. CASE Rotate
  <2>1. run'.pc = run.pc /\ run'.paths = run.paths /\ run'.file = run.file /\ run'.line = run.line
    <3>1. run' = run \/ Rest({"rotated", "cut"})
      BY <1>0, <1>6, RotateDoes
    <3> QED
      BY <3>1 DEF Rest, RunFields
  <2>2. ASSUME NEW name \in run.paths PROVE DatedNames /\ name # Live
    <3>1. run.pc \in {"open", "read", "post"}
      BY <1>0, <2>2 DEF Complete, Reading, RunPcs, IInv
    <3>2. ~Disturbed
      BY <1>0, <1>6, <3>1, RotateDoes
    <3> QED
      BY <2>2, <3>2 DEF Disturbed
  <2>3. \A name \in run.paths : Opened(name)' = Opened(name)
    BY <1>0, <2>2 DEF Opened, DatedNames
  <2> QED
    BY <1>2, <1>4, <2>1, <2>3 DEF AheadAt
<1>7. CASE Open
  <2>1. PICK name : name = Earliest(run.paths)
    OBVIOUS
  <2>2. /\ run.pc = "open" /\ run'.pc = "read" /\ run'.line = 0
        /\ run'.file = Opened(name) /\ run'.paths = run.paths \ {name}
        /\ files' = files
    BY <1>0, <1>7, <2>1, OpenDoes DEF Open
  <2>3. i \in Nat \ {0} /\ f \in Nat
    <3>1. files[f] \in Seq(Lines(honeypot))
      BY <1>0 DEF LogOK
    <3> QED
      BY <3>1
  <2>4. f # run'.file
    BY <1>4, <2>2, <2>3 DEF AheadAt
  <2>5. PICK other \in run.paths : f = Opened(other)
    BY <1>2, <2>2 DEF AheadAt
  <2>6. other = name
    <3>1. Opened(other)' = Opened(other)
      BY <1>0, <2>2 DEF Opened, DatedNames
    <3> QED
      BY <1>4, <2>2, <2>5, <3>1 DEF AheadAt
  <2> QED
    BY <2>2, <2>4, <2>5, <2>6
<1>8. CASE ReadLine
  <2>1. PICK next : next = files[run.file][run.line + 1]
    OBVIOUS
  <2>2. /\ run.pc = "read" /\ run.next > Len(run.made) /\ run.line < Len(files[run.file])
        /\ run'.line = run.line + 1 /\ run'.next = 1
        /\ run'.read = Append(run.read, next)
        /\ Rest({"line", "next", "places", "read", "made", "starts"})
        /\ files' = files
    BY <1>0, <1>8, <2>1, ReadLineDoes DEF ReadLine
  <2>3. run'.pc = "read" /\ run'.paths = run.paths /\ run'.file = run.file
    BY <2>2 DEF Rest, RunFields
  <2>4. f = run.file /\ run.line < i /\ ~(run.line + 1 < i)
    <3>1. \A name : Opened(name)' = Opened(name)
      BY <1>0, <2>2 DEF Opened, DatedNames
    <3> QED
      BY <1>2, <1>4, <2>2, <2>3, <3>1 DEF AheadAt
  <2>5. i = run.line + 1
    <3>1. files[f] \in Seq(Lines(honeypot))
      BY <1>0 DEF LogOK
    <3>2. i \in Nat /\ run.line \in Nat
      BY <1>0, <3>1 DEF Reading
    <3> QED
      BY <2>4, <3>2
  <2>6. next = raw
    BY <1>2, <2>1, <2>4, <2>5
  <2>7. Current(raw)'
    <3>1. PICK L : L = Lines(honeypot)
      OBVIOUS
    <3>2. run.read \in Seq(L) /\ next \in L
      BY <2>6, <3>1 DEF InHand
    <3>3. PICK longer : longer = Append(run.read, next)
      OBVIOUS
    <3>4. longer # <<>> /\ longer[Len(longer)] = next
      BY <3>2, <3>3
    <3> QED
      BY <2>2, <2>3, <2>6, <3>3, <3>4 DEF Current, CurrentLine
  <2>8. \A k \in Acceptable(raw) : 1 <= k
    BY <1>0, PlacesFromOne
  <2> QED
    BY <1>0, <2>2, <2>7, <2>8 DEF Looked, Acceptable
<1>9. CASE EndOfFile \/ ReadOn
  <2>1. /\ run.pc = "read" /\ (run.line = Len(files[run.file]) \/ run.cut)
        /\ Rest({"pc"}) \/ Rest({"file", "line", "cut"})
        /\ files' = files
    BY <1>0, <1>9, EndOfFileDoes, ReadOnDoes DEF EndOfFile, ReadOn
  <2>2. run'.paths = run.paths /\ ~run.rotated
    BY <2>1 DEF Rest, RunFields
  <2>3. ~run.cut /\ ~ReadOn
    BY <1>0, <2>2, ReadOnDoes DEF Noted
  <2>4. \A name : Opened(name)' = Opened(name)
    BY <1>0, <2>1 DEF Opened, DatedNames
  <2>5. f = run.file /\ run.line < i
    BY <1>2, <1>4, <2>1, <2>2, <2>4 DEF AheadAt
  <2>6. files[f] \in Seq(Lines(honeypot))
    BY <1>0 DEF LogOK
  <2> QED
    BY <2>1, <2>3, <2>5, <2>6
<1>10. CASE Consider \/ Flush \/ SomeRejected
  <2>1. /\ \/ Rest({"batch", "next", "seen", "pc"}) \/ Rest({"batch", "pc"})
           \/ Rest({"batch", "pc", "failed"})
        /\ files' = files
    BY <1>0, <1>10, ConsiderDoes, FlushDoes, SomeRejectedDoes, ConsiderRuns DEF Flush, SomeRejected
  <2>2. run'.paths = run.paths /\ run'.file = run.file /\ run'.line = run.line
    BY <2>1 DEF Rest, RunFields
  <2>3. run'.pc \in {"read", "post"} \/ run.pc = "last"
    BY <1>0, <1>10, ConsiderDoes, FlushDoes, SomeRejectedDoes
  <2>4. \A name : Opened(name)' = Opened(name)
    BY <1>0, <2>1 DEF Opened, DatedNames
  <2> QED
    BY <1>2, <1>4, <2>1, <2>2, <2>3, <2>4 DEF AheadAt, Complete
<1>11. \/ run' = run /\ Len(files') = Len(files)
       \/ Rotate \/ Open \/ ReadLine \/ EndOfFile \/ ReadOn \/ Consider \/ Flush \/ SomeRejected
  <2>1. \/ run' = run /\ files' = files
        \/ \E w \in Raws[honeypot] \cup {Junk} : Write(w)
        \/ Rotate \/ Open \/ ReadLine \/ EndOfFile \/ ReadOn
        \/ Consider \/ Flush \/ SomeRejected
    BY DEF Next, vars, StopAdapter, StartAdapter, PostFails, Interrupted
  <2>2. ASSUME NEW w \in Raws[honeypot] \cup {Junk}, Write(w)
        PROVE  run' = run /\ Len(files') = Len(files)
    BY <1>0, <2>2, WriteDoes DEF Write
  <2> QED
    BY <2>1, <2>2
<1> QED
  BY <1>5, <1>6, <1>7, <1>8, <1>9, <1>10, <1>11

\* What was looked at stays so.
LEMMA LookedKept ==
    ASSUME IInv, TypeInv, InHand, Complete, [Next]_vars, run # Idle, run' # Idle,
           ~\E names \in SUBSET AllNames : \E since, dry : Start(names, since, dry),
           NEW raw \in run.due, raw \in Lines(honeypot) \ {Junk}, Looked(raw)
    PROVE  Looked(raw)'
<1>0. honeypot' = honeypot /\ DOMAIN run = RunFields
  BY SameHoneypot DEF IInv, Holds
<1>1. Acceptable(raw)' = Acceptable(raw)
  BY <1>0 DEF Acceptable
<1>2. ASSUME run'.seen = run.seen, run'.next = run.next, run'.read = run.read,
             run'.pc \in {"read", "post"} \/ run.pc \notin {"read", "post"}
      PROVE  Looked(raw)'
  BY <1>1, <1>2 DEF Looked, Current, CurrentLine
<1>3. CASE ReadLine \/ EndOfFile \/ ReadOn
  <2>1. run.next > Len(run.made)
    BY <1>0, <1>3, ReadLineDoes, EndOfFileDoes, ReadOnDoes
  <2>2. \A k \in Acceptable(raw) : <<raw, k>> \in run.seen
    BY <2>1, DoneLooked
  <2>3. run'.seen = run.seen
    <3>1. \/ Rest({"line", "next", "places", "read", "made", "starts"}) \/ Rest({"pc"})
          \/ Rest({"file", "line", "cut"})
      BY <1>0, <1>3, ReadLineDoes, EndOfFileDoes, ReadOnDoes
    <3> QED
      BY <3>1 DEF Rest, RunFields
  <2> QED
    BY <1>1, <2>2, <2>3 DEF Looked
<1>4. CASE Consider
  <2>1. /\ run.pc = "read" /\ run'.next = run.next + 1
        /\ run'.seen = IF Inside THEN run.seen \cup {CurrentId} ELSE run.seen
        /\ run'.pc \in {"read", "post"}
        /\ Rest({"batch", "next", "seen", "pc"})
    BY <1>0, <1>4, ConsiderDoes
  <2>2. run'.read = run.read /\ Inside
    <3>1. run.since = Null
      BY DEF Complete
    <3> QED
      BY <2>1, <3>1 DEF Rest, RunFields, Inside, WithinSince
  <2>3. run.next \in Nat /\ Acceptable(raw) \subseteq Nat
    BY PlacesFromOne DEF TypeInv, Working
  <2>4. ASSUME NEW k \in Acceptable(raw)
        PROVE  <<raw, k>> \in run'.seen \/ (Current(raw)' /\ run'.next <= k)
    <3>1. CASE <<raw, k>> \in run.seen
      BY <2>1, <3>1
    <3>2. CASE Current(raw) /\ run.next = k
      <4>1. CurrentId = <<raw, k>>
        BY <3>2, Zenon DEF CurrentId, StableId, Current
      <4> QED
        BY <2>1, <2>2, <4>1
    <3>3. CASE Current(raw) /\ run.next <= k /\ run.next # k
      <4>1. run.next + 1 <= k
        BY <2>3, <3>3
      <4> QED
        BY <2>1, <2>2, <3>3, <4>1 DEF Current, CurrentLine
    <3> QED
      BY <3>1, <3>2, <3>3 DEF Looked
  <2> QED
    BY <1>1, <2>4 DEF Looked
<1>5. CASE Rotate \/ Open \/ Flush \/ SomeRejected
  <2>1. run' = run \/ Rest({"rotated", "cut"}) \/ Rest({"pc", "line", "file", "paths", "cut"})
                   \/ Rest({"batch", "pc"}) \/ Rest({"batch", "pc", "failed"})
    BY <1>0, <1>5, RotateDoes, OpenDoes, FlushDoes, SomeRejectedDoes
  <2>2. run'.seen = run.seen /\ run'.next = run.next /\ run'.read = run.read
    BY <2>1 DEF Rest, RunFields
  <2>3. run'.pc \in {"read", "post"} \/ run.pc \notin {"read", "post"}
    <3>1. CASE Open \/ Flush \/ SomeRejected
      BY <1>0, <3>1, OpenDoes, FlushDoes, SomeRejectedDoes
    <3>2. CASE Rotate
      <4>1. run' = run \/ Rest({"rotated", "cut"})
        BY <1>0, <3>2, RotateDoes
      <4> QED
        BY <4>1 DEF Rest, RunFields
    <3> QED
      BY <1>5, <3>1, <3>2
  <2> QED
    BY <1>2, <2>2, <2>3
<1>6. CASE run' = run
  BY <1>2, <1>6
<1>7. \/ run' = run
      \/ Rotate \/ Open \/ ReadLine \/ EndOfFile \/ ReadOn \/ Consider \/ Flush \/ SomeRejected
  BY DEF Next, vars, Write, StopAdapter, StartAdapter, PostFails, Interrupted
<1> QED
  BY <1>3, <1>4, <1>5, <1>6, <1>7

LEMMA CompleteKept ==
    ASSUME IInv, TypeInv, Noted, run # Idle => InHand /\ Complete, [Next]_vars, run' # Idle
    PROVE  Complete'
<1>1. ASSUME NEW names \in SUBSET AllNames, NEW since, NEW dry, Start(names, since, dry)
      PROVE  Complete'
  BY <1>1, StartIsDue DEF TypeInv
<1>2. CASE ~\E names \in SUBSET AllNames : \E since, dry : Start(names, since, dry)
  <2>0. run # Idle /\ DOMAIN run = RunFields /\ honeypot' = honeypot
    BY <1>2, StepOfRun, SameHoneypot DEF IInv, Holds
  <2>1. /\ run'.due = run.due /\ run'.since = run.since /\ run'.dry = run.dry
        /\ run.rotated => run'.rotated
        /\ run'.pc \in {"last", "done"} => run'.paths = {}
        /\ run'.pc = "done" => run'.batch = <<>>
    <3>1. CASE run' = run
      BY <2>0, <3>1 DEF Complete
    <3>2. CASE Rotate
      <4>1. run' = run \/ Rest({"rotated", "cut"})
        BY <2>0, <3>2, RotateDoes
      <4>2. run.rotated => run'.rotated
        <5>1. CASE run.pc \in {"open", "read", "post"}
          BY <2>0, <3>2, <5>1, RotateDoes
        <5>2. CASE ~(run.pc \in {"open", "read", "post"})
          BY <3>2, <5>2 DEF Rotate
        <5> QED
          BY <5>1, <5>2
      <4> QED
        BY <2>0, <4>1, <4>2 DEF Rest, RunFields, Complete
    <3>3. CASE Open
      <4>1. Rest({"pc", "line", "file", "paths", "cut"}) /\ run'.pc = "read"
        BY <2>0, <3>3, OpenDoes
      <4> QED
        BY <4>1 DEF Rest, RunFields
    <3>4. CASE ReadLine
      <4>1. Rest({"line", "next", "places", "read", "made", "starts"}) /\ run.pc = "read"
        BY <2>0, <3>4, ReadLineDoes
      <4> QED
        BY <4>1 DEF Rest, RunFields
    <3>5. CASE EndOfFile
      <4>1. Rest({"pc"}) /\ run'.pc = IF run.paths = {} THEN "last" ELSE "open"
        BY <2>0, <3>5, EndOfFileDoes
      <4> QED
        BY <4>1 DEF Rest, RunFields
    <3>6. CASE Consider
      <4>1. Rest({"batch", "next", "seen", "pc"}) /\ run'.pc \in {"read", "post"}
        BY <2>0, <3>6, ConsiderDoes
      <4> QED
        BY <4>1 DEF Rest, RunFields
    <3>7. CASE Flush \/ SomeRejected
      <4>1. /\ Rest({"batch", "pc"}) \/ Rest({"batch", "pc", "failed"})
            /\ run'.batch = <<>> /\ run.pc \in {"post", "last"}
            /\ run'.pc = IF run.pc = "post" THEN "read" ELSE "done"
        BY <2>0, <3>7, FlushDoes, SomeRejectedDoes
      <4> QED
        BY <2>0, <4>1 DEF Rest, RunFields, Complete
    <3>8. CASE ReadOn
      <4>1. Rest({"file", "line", "cut"}) /\ run.pc = "read"
        BY <2>0, <3>8, ReadOnDoes
      <4> QED
        BY <4>1 DEF Rest, RunFields
    <3> QED
      BY <1>2, <3>1, <3>2, <3>3, <3>4, <3>5, <3>6, <3>7, <3>8, StepOfRun DEF Moves
  <2>2. ASSUME ~run'.rotated, NEW raw \in run'.due PROVE Ahead(raw)' \/ Looked(raw)'
    <3>1. raw \in Lines(honeypot) \ {Junk} /\ raw \in run.due /\ InHand /\ Complete
      BY <2>0, <2>1, <2>2 DEF Complete
    <3>2. Ahead(raw) \/ Looked(raw)
      BY <2>1, <2>2, <3>1 DEF Complete
    <3> QED
      BY <1>2, <2>0, <2>2, <3>1, <3>2, AheadKept, LookedKept
  <2> QED
    BY <2>0, <2>1, <2>2 DEF Complete
<1> QED
  BY <1>1, <1>2

\* A run over everything, without --since, that has come to its end has left none of the
\* events that were on disk when it began and that the collector would store, whatever was
\* written, renamed or refused meanwhile, but those storage failed on, unless the log was
\* rotated under it: the live file renamed before it was opened, or archives renumbered
\* while some were to come, or the file it was reading emptied.
THEOREM NothingLeftBehind == Spec => []BackfillComplete
<1> DEFINE Due == run # Idle => InHand /\ SeenIsSafe /\ Complete
<1>1. TypeInv /\ Due => BackfillComplete
  <2> SUFFICES ASSUME TypeInv, Due, run.pc = "done", ~run.rotated,
                      NEW raw \in run.due, NEW k \in Acceptable(raw)
               PROVE  IsStored(raw, k) \/ Failed(raw, k)
    BY DEF BackfillComplete, Failed
  <2>1. run # Idle /\ SeenIsSafe /\ Complete
    BY DEF Idle
  <2>2. ~Ahead(raw) /\ ~Current(raw)
    BY <2>1 DEF Complete, Ahead, AheadAt, Current
  <2>3. <<raw, k>> \in run.seen
    BY <2>1, <2>2 DEF Complete, Looked
  <2>4. DOMAIN run.batch = {}
    <3>1. run.batch = <<>>
      BY <2>1 DEF Complete
    <3> QED
      BY <3>1
  <2> QED
    BY <2>1, <2>3, <2>4 DEF SeenIsSafe, Safe, Waits
<1>2. Init => Due /\ Noted
  BY DEF Init, Noted
<1>3. IInv /\ TypeInv /\ Noted /\ Due /\ [Next]_vars => Due'
  <2> SUFFICES ASSUME IInv, TypeInv, Noted, Due, [Next]_vars, run' # Idle
               PROVE  InHand' /\ SeenIsSafe' /\ Complete'
    OBVIOUS
  <2>1. run # Idle => InHand /\ SeenIsSafe /\ Complete
    OBVIOUS
  <2> QED
    BY <2>1, InHandKept, SafeKept, CompleteKept
<1>4. Spec => []IInv
  BY Initially, Inductive, PTL DEF Spec
<1>5. Spec => []TypeInv
  BY <1>4, TypesHold, TypesKept, PTL DEF Spec
<1>7. Spec => []Noted
  <2> HIDE DEF Due
  <2> QED
    BY <1>2, <1>4, NotedKept, PTL DEF Spec
<1>6. Spec => []Due
  <2> HIDE DEF Due
  <2> QED
    BY <1>2, <1>3, <1>4, <1>5, <1>7, PTL DEF Spec
<1> QED
  <2> HIDE DEF Due
  <2> QED
    BY <1>1, <1>5, <1>6, PTL

-----------------------------------------------------------------------------
(* The durations are true *)

\* What the dict of starts says of the lines read so far: each session once; the start
\* of a session that is open, from the last line that opened it; a session at place k
\* has outlived, since a line that opened it, those behind it; and a session that is open
\* and not there has outlived as many as there is room for.
Dict(starts) ==
    /\ \A k \in DOMAIN starts : DOMAIN starts[k] = {"session", "ts"}
    /\ \A i, j \in DOMAIN starts : starts[i].session = starts[j].session => i = j

Dated(read, starts) ==
    \A k \in DOMAIN starts : \E i \in Opens(read, starts[k].session) :
        /\ \A j \in Opens(read, starts[k].session) : j <= i
        /\ starts[k].ts = ToUtcZ(read[i].timestamp)

Ranked(read, starts) ==
    \A k \in DOMAIN starts :
        \E i \in Opens(read, starts[k].session) : Tracked(read, i) >= Len(starts) - k

Ousted(read, starts) ==
    \A s : Opens(read, s) # {} /\ ~Remembered(starts, s) =>
        \E i \in Opens(read, s) : Tracked(read, i) >= MaxTracked

Clock(read, starts) ==
    Dict(starts) /\ Dated(read, starts) /\ Ranked(read, starts) /\ Ousted(read, starts)

\* A sequence without one of its elements.
LEMMA WithoutOne ==
    ASSUME NEW S, NEW s \in Seq(S), NEW i \in 1 .. Len(s)
    PROVE  /\ RemoveAt(s, i) \in Seq(S) /\ Len(RemoveAt(s, i)) = Len(s) - 1
           /\ \A k \in 1 .. Len(s) - 1 : RemoveAt(s, i)[k] = IF k < i THEN s[k] ELSE s[k + 1]
<1>1. PICK k : k = i - 1
  OBVIOUS
<1>2. PICK n : n = Len(s)
  OBVIOUS
<1>3. k \in Nat /\ n \in Nat /\ i \in Nat /\ k + 1 = i /\ i <= n
  BY <1>1, <1>2
<1>4. PICK before : before = SubSeq(s, 1, k)
  OBVIOUS
<1>5. PICK after : after = SubSeq(s, i + 1, n)
  OBVIOUS
<1>6. before \in Seq(S) /\ Len(before) = k /\ \A j \in 1 .. k : before[j] = s[j]
  <2>1. k \in Int /\ 1 \in Int /\ \A j \in 1 .. k : s[j] \in S
    BY <1>2, <1>3
  <2>2. /\ before \in Seq(S) /\ Len(before) = IF 1 <= k THEN k - 1 + 1 ELSE 0
        /\ \A j \in 1 .. k - 1 + 1 : before[j] = s[1 + j - 1]
    BY <1>4, <2>1, SubSeqProperties
  <2> QED
    BY ONLY <1>3, <2>2
<1>7. after \in Seq(S) /\ Len(after) = n - i /\ \A j \in 1 .. n - i : after[j] = s[i + j]
  <2>1. i + 1 \in Int /\ n \in Int /\ \A j \in i + 1 .. n : s[j] \in S
    BY <1>2, <1>3
  <2>2. /\ after \in Seq(S) /\ Len(after) = IF i + 1 <= n THEN n - (i + 1) + 1 ELSE 0
        /\ \A j \in 1 .. n - (i + 1) + 1 : after[j] = s[i + 1 + j - 1]
    BY <1>5, <2>1, SubSeqProperties
  <2> QED
    BY ONLY <1>3, <2>2
<1>8. PICK both : both = before \o after
  OBVIOUS
<1>9. /\ both \in Seq(S) /\ Len(both) = Len(before) + Len(after)
      /\ \A j \in 1 .. Len(before) + Len(after) :
             both[j] = IF j <= Len(before) THEN before[j] ELSE after[j - Len(before)]
  BY <1>6, <1>7, <1>8, ConcatProperties
<1>10. both \in Seq(S) /\ Len(both) = n - 1
  BY ONLY <1>3, <1>6, <1>7, <1>9
<1>11. ASSUME NEW j \in 1 .. n - 1 PROVE both[j] = IF j < i THEN s[j] ELSE s[j + 1]
  <2>1. both[j] = IF j <= k THEN before[j] ELSE after[j - k]
    BY ONLY <1>3, <1>6, <1>7, <1>9, <1>11
  <2>2. CASE j < i
    BY ONLY <1>3, <1>6, <1>11, <2>1, <2>2
  <2>3. CASE ~(j < i)
    <3>1. j - k \in 1 .. n - i /\ i + (j - k) = j + 1 /\ ~(j <= k)
      BY ONLY <1>3, <1>11, <2>3
    <3> QED
      BY ONLY <1>7, <2>1, <2>3, <3>1
  <2> QED
    BY <2>2, <2>3
<1>12. RemoveAt(s, i) = both
  BY <1>1, <1>2, <1>4, <1>5, <1>8 DEF RemoveAt
<1> QED
  BY <1>2, <1>10, <1>11, <1>12

\* After one more line, what opened a session does so still, unless the line ends it ...
LEMMA OlderOpens ==
    ASSUME NEW L, NEW read \in Seq(L), NEW raw \in L, NEW s, NEW i \in DOMAIN read
    PROVE  /\ i \in Opens(Append(read, raw), s) <=>
                  i \in Opens(read, s) /\ ~(IsIncident(raw, "free") /\ raw.id = s)
           /\ Append(read, raw)[i] = read[i]
<1>1. PICK n : n = Len(read)
  OBVIOUS
<1>2. PICK longer : longer = Append(read, raw)
  OBVIOUS
<1>3. /\ n \in Nat /\ DOMAIN read = 1 .. n /\ Len(longer) = n + 1
      /\ DOMAIN longer = 1 .. n + 1 /\ longer[n + 1] = raw
      /\ \A j \in 1 .. n : longer[j] = read[j]
  BY <1>1, <1>2
<1>4. i \in 1 .. n
  BY <1>3
<1>5. \A j \in i .. n : longer[j] = read[j]
  BY <1>3, <1>4
<1>6. i .. n + 1 = (i .. n) \cup {n + 1}
  BY <1>3, <1>4
<1>7. longer[i] = read[i] /\ i \in DOMAIN longer /\ i \in DOMAIN read
  BY <1>3, <1>4
<1>8. (\A j \in i .. n + 1 : ~(IsIncident(longer[j], "free") /\ longer[j].id = s))
      <=> /\ \A j \in i .. n : ~(IsIncident(read[j], "free") /\ read[j].id = s)
          /\ ~(IsIncident(raw, "free") /\ raw.id = s)
  BY <1>3, <1>5, <1>6, Zenon
<1>9. i \in Opens(longer, s) <=>
          i \in Opens(read, s) /\ ~(IsIncident(raw, "free") /\ raw.id = s)
  BY <1>1, <1>3, <1>7, <1>8 DEF Opens
<1> QED
  BY <1>2, <1>7, <1>9

\* ... and the line itself may.
LEMMA NewestOpens ==
    ASSUME NEW L, NEW read \in Seq(L), NEW raw \in L, NEW s
    PROVE  Len(read) + 1 \in Opens(Append(read, raw), s)
               <=> IsIncident(raw, "connection") /\ raw.id = s
<1>1. PICK n : n = Len(read)
  OBVIOUS
<1>2. PICK longer : longer = Append(read, raw)
  OBVIOUS
<1>3. n \in Nat /\ DOMAIN longer = 1 .. n + 1 /\ Len(longer) = n + 1 /\ longer[n + 1] = raw
  BY <1>1, <1>2
<1>4. n + 1 .. n + 1 = {n + 1} /\ n + 1 \in DOMAIN longer
  BY <1>3
<1>5. IsIncident(raw, "connection") => ~IsIncident(raw, "free")
  BY DEF IsIncident
<1>6. n + 1 \in Opens(longer, s) <=> IsIncident(raw, "connection") /\ raw.id = s
  BY <1>3, <1>4, <1>5, Zenon DEF Opens
<1> QED
  BY <1>1, <1>2, <1>6

\* In sum, by what the line is.
LEMMA OneMore ==
    ASSUME NEW L, NEW read \in Seq(L), NEW raw \in L, IsIncident(raw, "connection")
    PROVE  Opens(Append(read, raw), raw.id) = Opens(read, raw.id) \cup {Len(read) + 1}
<1>1. PICK now : now = Opens(Append(read, raw), raw.id)
  OBVIOUS
<1>2. PICK past : past = Opens(read, raw.id)
  OBVIOUS
<1>3. now \subseteq DOMAIN read \cup {Len(read) + 1} /\ past \subseteq DOMAIN read
  BY <1>1, <1>2 DEF Opens
<1>4. Len(read) + 1 \in now
  BY <1>1, NewestOpens
<1>5. ASSUME NEW i \in DOMAIN read PROVE i \in now <=> i \in past
  <2>1. ~IsIncident(raw, "free")
    BY DEF IsIncident
  <2> QED
    BY <1>1, <1>2, <2>1, OlderOpens
<1>6. now = past \cup {Len(read) + 1}
  BY <1>3, <1>4, <1>5
<1> QED
  BY <1>1, <1>2, <1>6

LEMMA SameAfter ==
    ASSUME NEW L, NEW read \in Seq(L), NEW raw \in L, NEW s,
           \/ raw.id # s
           \/ ~IsIncident(raw, "connection") /\ ~IsIncident(raw, "free")
    PROVE  Opens(Append(read, raw), s) = Opens(read, s)
<1>1. PICK now : now = Opens(Append(read, raw), s)
  OBVIOUS
<1>2. PICK past : past = Opens(read, s)
  OBVIOUS
<1>3. now \subseteq DOMAIN read \cup {Len(read) + 1} /\ past \subseteq DOMAIN read
  BY <1>1, <1>2 DEF Opens
<1>4. Len(read) + 1 \notin now
  BY <1>1, NewestOpens
<1>5. ASSUME NEW i \in DOMAIN read PROVE i \in now <=> i \in past
  BY <1>1, <1>2, OlderOpens
<1>6. now = past
  BY <1>3, <1>4, <1>5
<1> QED
  BY <1>1, <1>2, <1>6

LEMMA NoneAfter ==
    ASSUME NEW L, NEW read \in Seq(L), NEW raw \in L, IsIncident(raw, "free")
    PROVE  Opens(Append(read, raw), raw.id) = {}
<1> SUFFICES ASSUME NEW i \in Opens(Append(read, raw), raw.id) PROVE FALSE
  OBVIOUS
<1>1. i \in DOMAIN Append(read, raw)
  BY DEF Opens
<1>2. i \in DOMAIN read \/ i = Len(read) + 1
  BY <1>1
<1>3. CASE i \in DOMAIN read
  BY <1>3, OlderOpens
<1>4. CASE i = Len(read) + 1
  <2>1. IsIncident(raw, "connection")
    BY <1>4, NewestOpens
  <2> QED
    BY <2>1 DEF IsIncident
<1> QED
  BY <1>2, <1>3, <1>4

\* And how many connections there were since.
LEMMA TrackedAfter ==
    ASSUME NEW L, NEW read \in Seq(L), NEW raw \in L, NEW longer,
           longer = Append(read, raw), NEW i \in 1 .. Len(read) + 1
    PROVE  /\ Tracked(longer, i) \in Nat
           /\ i <= Len(read) =>
                  /\ Tracked(read, i) \in Nat
                  /\ Tracked(longer, i) = Tracked(read, i)
                                          + IF IsIncident(raw, "connection") THEN 1 ELSE 0
<1> DEFINE Since(lines) == {j \in i + 1 .. Len(lines) : IsIncident(lines[j], "connection")}
<1>1. PICK n : n = Len(read)
  OBVIOUS
<1>2. /\ n \in Nat /\ DOMAIN read = 1 .. n /\ Len(longer) = n + 1
      /\ longer[n + 1] = raw
      /\ \A j \in 1 .. n : longer[j] = read[j]
  BY <1>1
<1>3. IsFiniteSet(Since(read))
  <2>1. i + 1 \in Int /\ n \in Int
    BY <1>1, <1>2
  <2>2. IsFiniteSet(i + 1 .. n)
    BY <2>1, FS_Interval
  <2>3. Since(read) \subseteq i + 1 .. n
    BY <1>1
  <2> QED
    BY <2>2, <2>3, FS_Subset
<1>4. i <= n => Since(longer) = IF IsIncident(raw, "connection") THEN Since(read) \cup {n + 1}
                                ELSE Since(read)
  <2> SUFFICES ASSUME i <= n
               PROVE  Since(longer) = IF IsIncident(raw, "connection")
                                      THEN Since(read) \cup {n + 1} ELSE Since(read)
    OBVIOUS
  <2>1. i + 1 .. n + 1 = (i + 1 .. n) \cup {n + 1}
    BY <1>1, <1>2
  <2>2. \A j \in i + 1 .. n : longer[j] = read[j]
    BY <1>1, <1>2
  <2> QED
    BY <1>1, <1>2, <2>1, <2>2
<1>5. n + 1 \notin Since(read)
  BY <1>1, <1>2
<1>6. i = n + 1 => Since(longer) = {}
  BY <1>1, <1>2
<1>7. Tracked(longer, i) = Cardinality(Since(longer)) /\ Tracked(read, i) = Cardinality(Since(read))
  BY DEF Tracked
<1>8. Cardinality(Since(read)) \in Nat
  BY <1>3, FS_CardinalityType
<1>9. Cardinality(Since(read) \cup {n + 1}) = Cardinality(Since(read)) + 1
  <2> HIDE DEF Since
  <2> QED
    BY <1>3, <1>5, FS_AddElement
<1>10. Cardinality({}) = 0
  BY FS_EmptySet
<1> HIDE DEF Since
<1>11. i <= n \/ i = n + 1
  BY <1>1, <1>2
<1>12. CASE i <= n
  <2>1. CASE IsIncident(raw, "connection")
    <3>1. Cardinality(Since(longer)) = Cardinality(Since(read) \cup {n + 1})
      BY <1>4, <1>12, <2>1, Zenon
    <3>2. Tracked(longer, i) = Tracked(read, i) + 1 /\ Tracked(read, i) \in Nat
      BY <1>7, <1>8, <1>9, <3>1
    <3> QED
      BY <2>1, <3>2
  <2>2. CASE ~IsIncident(raw, "connection")
    <3>1. Cardinality(Since(longer)) = Cardinality(Since(read))
      BY <1>4, <1>12, <2>2, Zenon
    <3> QED
      BY <1>7, <1>8, <2>2, <3>1
  <2> QED
    BY <2>1, <2>2
<1>13. CASE i = n + 1
  <2>1. Cardinality(Since(longer)) = Cardinality({})
    BY <1>6, <1>13, Zenon
  <2>2. ~(i <= Len(read))
    BY <1>1, <1>2, <1>13
  <2> QED
    BY <1>7, <1>10, <2>1, <2>2
<1> QED
  BY <1>11, <1>12, <1>13

\* What remembering a start does: at the limit the first entry goes; one that is there
\* already stays where it is, with the new time.
LEMMA RememberIs ==
    ASSUME NEW starts, Tracks(starts), Dict(starts), NEW s, NEW ts,
           NEW later, later = RememberStart(starts, s, ts),
           NEW d, d = IF Len(starts) >= MaxTracked THEN 1 ELSE 0
    PROVE  /\ d \in {0, 1} /\ Len(starts) \in Nat /\ Len(later) \in Nat
           /\ DOMAIN starts = 1 .. Len(starts) /\ DOMAIN later = 1 .. Len(later)
           /\ Len(later) <= Len(starts) - d + 1
           /\ Dict(later) /\ Remembered(later, s)
           /\ \A k \in DOMAIN later :
                  IF later[k].session = s
                  THEN /\ later[k].ts = ts
                       /\ \/ k = Len(later)
                          \/ k + d \in DOMAIN starts /\ starts[k + d].session = s
                  ELSE k + d \in DOMAIN starts /\ later[k] = starts[k + d]
           /\ \A k \in DOMAIN starts : k > d => Remembered(later, starts[k].session)
<1>1. PICK S : starts \in Seq(S)
  BY DEF Tracks
<1>2. PICK n : n = Len(starts)
  OBVIOUS
<1>3. n \in Nat /\ DOMAIN starts = 1 .. n /\ d \in {0, 1} /\ d <= n
  BY <1>1, <1>2, TrackedAssumption
<1>4. PICK kept : kept = IF Len(starts) >= MaxTracked THEN Tail(starts) ELSE starts
  OBVIOUS
<1>5. /\ kept \in Seq(S) /\ Len(kept) = n - d
      /\ \A k \in 1 .. n - d : kept[k] = starts[k + d]
  <2>1. CASE Len(starts) >= MaxTracked
    <3>1. starts # <<>>
      <4>1. Len(starts) # 0
        BY <2>1, TrackedAssumption
      <4> QED
        BY <4>1
    <3>2. /\ Tail(starts) \in Seq(S) /\ Len(Tail(starts)) = Len(starts) - 1
          /\ \A k \in 1 .. Len(Tail(starts)) : Tail(starts)[k] = starts[k + 1]
      BY <1>1, <3>1, HeadTailProperties
    <3>3. kept = Tail(starts) /\ d = 1
      BY <1>4, <2>1
    <3> QED
      BY <1>2, <3>2, <3>3
  <2>2. CASE ~(Len(starts) >= MaxTracked)
    <3>1. kept = starts /\ d = 0
      BY <1>4, <2>2
    <3> QED
      BY <1>1, <1>2, <1>3, <3>1
  <2> QED
    BY <2>1, <2>2
<1>6. PICK m : m = n - d
  OBVIOUS
<1>7. m \in Nat /\ DOMAIN kept = 1 .. m /\ m + d = n
  BY <1>3, <1>5, <1>6
<1>8. /\ \A k \in 1 .. m : DOMAIN kept[k] = {"session", "ts"}
      /\ \A i, j \in 1 .. m : kept[i].session = kept[j].session => i = j
  <2>1. ASSUME NEW k \in 1 .. m PROVE k + d \in DOMAIN starts /\ kept[k] = starts[k + d]
    BY <1>3, <1>5, <1>7, <2>1
  <2>2. ASSUME NEW i \in 1 .. m, NEW j \in 1 .. m, kept[i].session = kept[j].session
        PROVE  i = j
    <3>1. i + d = j + d
      BY <2>1, <2>2 DEF Dict
    <3> QED
      BY <1>3, <3>1
  <2> QED
    BY <2>1, <2>2 DEF Dict
<1>9. ASSUME NEW k \in DOMAIN starts, k > d
      PROVE  \E j \in 1 .. m : kept[j].session = starts[k].session
  <2>1. k - d \in 1 .. m /\ k - d + d = k
    BY <1>3, <1>7, <1>9
  <2>2. kept[k - d] = starts[k - d + d]
    BY <1>5, <1>6, <2>1
  <2> QED
    BY <2>1, <2>2
<1>10. CASE Remembered(kept, s)
  <2>1. PICK i : i = PlaceOf(kept, s)
    OBVIOUS
  <2>2. i \in 1 .. m /\ kept[i].session = s
    BY <1>7, <1>10, <2>1 DEF Remembered, PlaceOf
  <2>3. PICK item : item = [kept[i] EXCEPT !.ts = ts]
    OBVIOUS
  <2>4. DOMAIN item = {"session", "ts"} /\ item.session = s /\ item.ts = ts
    BY <1>8, <2>2, <2>3
  <2>5. later = [kept EXCEPT ![i] = item]
    BY <1>4, <1>10, <2>1, <2>3 DEF RememberStart
  <2>6. /\ Len(later) = m /\ DOMAIN later = 1 .. m
        /\ \A j \in 1 .. m : later[j] = IF j = i THEN item ELSE kept[j]
    <3>1. PICK T : T = S \cup {item}
      OBVIOUS
    <3>2. kept \in Seq(T) /\ item \in T
      BY <1>5, <3>1
    <3>3. i \in 1 .. Len(kept) /\ Len(kept) = m
      BY <1>5, <1>6, <2>2
    <3>4. /\ later \in Seq(T) /\ Len(later) = Len(kept)
          /\ \A j \in 1 .. Len(kept) : later[j] = IF j = i THEN item ELSE kept[j]
      BY <2>5, <3>2, <3>3, ExceptSeq
    <3> QED
      BY <3>3, <3>4
  <2>7. \A j \in 1 .. m : later[j].session = kept[j].session
    BY <2>2, <2>4, <2>6
  <2>8. Dict(later)
    BY <1>8, <2>4, <2>6, <2>7 DEF Dict
  <2>9. Remembered(later, s)
    BY <2>2, <2>4, <2>6 DEF Remembered
  <2>10. ASSUME NEW k \in 1 .. m
         PROVE  IF later[k].session = s
                THEN later[k].ts = ts /\ k + d \in DOMAIN starts /\ starts[k + d].session = s
                ELSE k + d \in DOMAIN starts /\ later[k] = starts[k + d]
    <3>1. k + d \in DOMAIN starts /\ kept[k] = starts[k + d]
      BY <1>3, <1>5, <1>7, <2>10
    <3>2. later[k].session = s => k = i
      BY <1>8, <2>2, <2>7
    <3> QED
      BY <2>2, <2>4, <2>6, <3>1, <3>2
  <2>11. ASSUME NEW k \in DOMAIN starts, k > d PROVE Remembered(later, starts[k].session)
    BY <1>9, <2>6, <2>7, <2>11 DEF Remembered
  <2>12. Len(later) <= Len(starts) - d + 1
    BY <1>2, <1>3, <1>7, <2>6
  <2> QED
    BY <1>2, <1>3, <1>7, <2>6, <2>8, <2>9, <2>10, <2>11, <2>12
<1>11. CASE ~Remembered(kept, s)
  <2>1. PICK item : item = [session |-> s, ts |-> ts]
    OBVIOUS
  <2>2. DOMAIN item = {"session", "ts"} /\ item.session = s /\ item.ts = ts
    BY <2>1
  <2>3. later = Append(kept, item)
    BY <1>4, <1>11, <2>1, Zenon DEF RememberStart
  <2>4. /\ Len(later) = m + 1 /\ DOMAIN later = 1 .. m + 1 /\ later[m + 1] = item
        /\ \A j \in 1 .. m : later[j] = kept[j]
    <3>1. PICK T : T = S \cup {item}
      OBVIOUS
    <3>2. kept \in Seq(T) /\ item \in T /\ Len(kept) = m
      BY <1>5, <1>6, <3>1
    <3>3. /\ later \in Seq(T) /\ Len(later) = Len(kept) + 1 /\ later[Len(kept) + 1] = item
          /\ \A j \in 1 .. Len(kept) : later[j] = kept[j]
      BY <2>3, <3>2, AppendProperties
    <3> QED
      BY <3>2, <3>3
  <2>5. \A j \in 1 .. m : kept[j].session # s
    BY <1>7, <1>11 DEF Remembered
  <2>6. Dict(later)
    <3>1. \A k \in 1 .. m + 1 : k \in 1 .. m \/ k = m + 1
      BY <1>7
    <3>2. ASSUME NEW k \in 1 .. m + 1 PROVE DOMAIN later[k] = {"session", "ts"}
      BY <1>8, <2>2, <2>4, <3>1
    <3>3. ASSUME NEW i \in 1 .. m + 1, NEW j \in 1 .. m + 1,
                 later[i].session = later[j].session
          PROVE  i = j
      BY <1>8, <2>2, <2>4, <2>5, <3>1, <3>3
    <3> QED
      BY <2>4, <3>2, <3>3 DEF Dict
  <2>7. Remembered(later, s)
    <3>1. m + 1 \in DOMAIN later
      BY <1>7, <2>4
    <3> QED
      BY <2>2, <2>4, <3>1 DEF Remembered
  <2>8. ASSUME NEW k \in 1 .. m + 1
        PROVE  IF later[k].session = s THEN later[k].ts = ts /\ k = Len(later)
               ELSE k + d \in DOMAIN starts /\ later[k] = starts[k + d]
    <3>1. CASE k \in 1 .. m
      <4>1. k + d \in DOMAIN starts /\ kept[k] = starts[k + d]
        BY <1>3, <1>5, <1>7, <3>1
      <4> QED
        BY <2>4, <2>5, <3>1, <4>1
    <3>2. CASE k = m + 1
      BY <2>2, <2>4, <3>2
    <3> QED
      BY <1>7, <3>1, <3>2
  <2>9. ASSUME NEW k \in DOMAIN starts, k > d PROVE Remembered(later, starts[k].session)
    <3>1. PICK j \in 1 .. m : kept[j].session = starts[k].session
      BY <1>9, <2>9
    <3>2. j \in DOMAIN later
      BY <1>7, <2>4, <3>1
    <3> QED
      BY <2>4, <3>1, <3>2 DEF Remembered
  <2>10. Len(later) <= Len(starts) - d + 1 /\ Len(later) \in Nat
    BY <1>2, <1>3, <1>7, <2>4
  <2>11. DOMAIN later = 1 .. Len(later)
    BY <2>4
  <2> QED
    BY <1>2, <1>3, <2>4, <2>6, <2>7, <2>8, <2>9, <2>10, <2>11
<1> QED
  BY <1>10, <1>11

\* What forgetting one does.
LEMMA ForgetIs ==
    ASSUME NEW starts, Tracks(starts), Dict(starts), NEW s,
           NEW later, later = ForgetStart(starts, s)
    PROVE  /\ Dict(later)
           /\ \A k \in DOMAIN later :
                  /\ later[k].session # s
                  /\ \E j \in DOMAIN starts : /\ later[k] = starts[j]
                                              /\ Len(later) - k <= Len(starts) - j
                                              /\ Len(later) - k \in Int /\ Len(starts) - j \in Int
           /\ \A j \in DOMAIN starts :
                  starts[j].session # s => Remembered(later, starts[j].session)
<1>1. PICK S : starts \in Seq(S)
  BY DEF Tracks
<1>2. PICK n : n = Len(starts)
  OBVIOUS
<1>3. n \in Nat /\ DOMAIN starts = 1 .. n
  BY <1>1, <1>2
<1>4. CASE ~Remembered(starts, s)
  <2>1. later = starts
    BY <1>4 DEF ForgetStart
  <2>2. \A k \in 1 .. n : Len(starts) - k \in Int /\ Len(starts) - k <= Len(starts) - k
    BY <1>2, <1>3
  <2> QED
    BY <1>3, <1>4, <2>1, <2>2 DEF Remembered
<1>5. CASE Remembered(starts, s)
  <2>1. PICK i : i = PlaceOf(starts, s)
    OBVIOUS
  <2>2. i \in 1 .. n /\ starts[i].session = s
    BY <1>3, <1>5, <2>1 DEF Remembered, PlaceOf
  <2>3. later = RemoveAt(starts, i)
    BY <1>5, <2>1 DEF ForgetStart
  <2>4. /\ later \in Seq(S) /\ Len(later) = n - 1
        /\ \A k \in 1 .. n - 1 : later[k] = IF k < i THEN starts[k] ELSE starts[k + 1]
    BY <1>1, <1>2, <2>2, <2>3, WithoutOne
  <2>5. DOMAIN later = 1 .. n - 1
    BY <1>3, <2>2, <2>4
  <2>6. ASSUME NEW k \in 1 .. n - 1, NEW j, j = IF k < i THEN k ELSE k + 1
        PROVE  /\ j \in 1 .. n /\ j # i /\ later[k] = starts[j]
               /\ Len(later) - k <= Len(starts) - j
               /\ Len(later) - k \in Int /\ Len(starts) - j \in Int
    <3>1. n - 1 \in Int /\ i \in 1 .. n /\ n \in Nat
      BY <1>3, <2>2
    <3>2. CASE k < i
      <4>1. j = k /\ j \in 1 .. n /\ j # i /\ n - 1 - k <= n - j
        BY ONLY <2>6, <3>1, <3>2
      <4>2. later[k] = starts[j]
        BY <2>4, <2>6, <3>2
      <4> QED
        BY <1>2, <1>3, <2>4, <2>6, <4>1, <4>2
    <3>3. CASE ~(k < i)
      <4>1. j = k + 1 /\ j \in 1 .. n /\ j # i /\ n - 1 - k <= n - j
        BY ONLY <2>6, <3>1, <3>3
      <4>2. later[k] = starts[j]
        BY <2>4, <2>6, <3>3
      <4> QED
        BY <1>2, <1>3, <2>4, <2>6, <4>1, <4>2
    <3> QED
      BY <3>2, <3>3
  <2>7. ASSUME NEW k \in 1 .. n - 1
        PROVE  /\ later[k].session # s /\ DOMAIN later[k] = {"session", "ts"}
               /\ \E j \in 1 .. n : /\ later[k] = starts[j]
                                    /\ Len(later) - k <= Len(starts) - j
                                    /\ Len(later) - k \in Int /\ Len(starts) - j \in Int
    <3>1. PICK j : j = IF k < i THEN k ELSE k + 1
      OBVIOUS
    <3>2. /\ j \in 1 .. n /\ j # i /\ later[k] = starts[j]
          /\ Len(later) - k <= Len(starts) - j
          /\ Len(later) - k \in Int /\ Len(starts) - j \in Int
      BY <2>6, <3>1
    <3>3. starts[j].session # s /\ DOMAIN starts[j] = {"session", "ts"}
      BY <1>3, <2>2, <3>2 DEF Dict
    <3> QED
      BY <3>2, <3>3
  <2>8. ASSUME NEW k1 \in 1 .. n - 1, NEW k2 \in 1 .. n - 1,
               later[k1].session = later[k2].session
        PROVE  k1 = k2
    <3>1. PICK j1 : j1 = IF k1 < i THEN k1 ELSE k1 + 1
      OBVIOUS
    <3>2. PICK j2 : j2 = IF k2 < i THEN k2 ELSE k2 + 1
      OBVIOUS
    <3>3. /\ j1 \in 1 .. n /\ later[k1] = starts[j1]
          /\ j2 \in 1 .. n /\ later[k2] = starts[j2]
      BY <2>6, <3>1, <3>2
    <3>4. j1 = j2
      BY <1>3, <2>8, <3>3 DEF Dict
    <3> QED
      BY <1>3, <2>2, <3>1, <3>2, <3>4
  <2>9. ASSUME NEW j \in 1 .. n, starts[j].session # s
        PROVE  Remembered(later, starts[j].session)
    <3>1. PICK k : k = IF j < i THEN j ELSE j - 1
      OBVIOUS
    <3>2. j # i
      BY <2>2, <2>9
    <3>3. k \in 1 .. n - 1 /\ j = IF k < i THEN k ELSE k + 1
      BY <1>3, <2>2, <3>1, <3>2
    <3>4. later[k] = starts[j]
      BY <2>6, <3>3
    <3> QED
      BY <2>5, <3>3, <3>4 DEF Remembered
  <2>10. Dict(later)
    BY <2>5, <2>7, <2>8 DEF Dict
  <2>11. /\ \A k \in DOMAIN later :
                /\ later[k].session # s
                /\ \E j \in DOMAIN starts : /\ later[k] = starts[j]
                                            /\ Len(later) - k <= Len(starts) - j
                                            /\ Len(later) - k \in Int /\ Len(starts) - j \in Int
    <3> SUFFICES ASSUME NEW k \in DOMAIN later
                 PROVE  /\ later[k].session # s
                        /\ \E j \in DOMAIN starts :
                               /\ later[k] = starts[j]
                               /\ Len(later) - k <= Len(starts) - j
                               /\ Len(later) - k \in Int /\ Len(starts) - j \in Int
      OBVIOUS
    <3>1. k \in 1 .. n - 1
      BY <2>5
    <3> QED
      BY <1>3, <2>7, <3>1
  <2>12. \A j \in DOMAIN starts :
             starts[j].session # s => Remembered(later, starts[j].session)
    BY <1>3, <2>9
  <2> QED
    BY <2>10, <2>11, <2>12
<1> QED
  BY <1>4, <1>5

\* The clock is kept as a line is read that neither opens nor ends a session ...
LEMMA ClockIdles ==
    ASSUME NEW L, NEW read \in Seq(L), NEW raw \in L, NEW starts, Clock(read, starts),
           ~IsIncident(raw, "connection"), ~IsIncident(raw, "free")
    PROVE  Clock(Append(read, raw), starts)
<1>1. PICK longer : longer = Append(read, raw)
  OBVIOUS
<1>2. ASSUME NEW s PROVE Opens(longer, s) = Opens(read, s)
  <2>1. Opens(Append(read, raw), s) = Opens(read, s)
    BY SameAfter
  <2> QED
    BY <1>1, <2>1
<1>3. ASSUME NEW i \in DOMAIN read
      PROVE  longer[i] = read[i] /\ Tracked(longer, i) = Tracked(read, i)
  <2>1. i \in 1 .. Len(read) + 1 /\ i <= Len(read)
    OBVIOUS
  <2>2. longer[i] = read[i]
    BY <1>1, OlderOpens
  <2>3. Tracked(read, i) \in Nat /\ Tracked(longer, i) = Tracked(read, i) + 0
    BY <1>1, <2>1, TrackedAfter
  <2> QED
    BY <2>2, <2>3
<1>4. \A s : Opens(read, s) \subseteq DOMAIN read
  BY DEF Opens
<1>5. Dated(longer, starts)
  <2> SUFFICES ASSUME NEW k \in DOMAIN starts
               PROVE  \E i \in Opens(longer, starts[k].session) :
                          /\ \A j \in Opens(longer, starts[k].session) : j <= i
                          /\ starts[k].ts = ToUtcZ(longer[i].timestamp)
    BY DEF Dated
  <2>1. PICK i \in Opens(read, starts[k].session) :
            /\ \A j \in Opens(read, starts[k].session) : j <= i
            /\ starts[k].ts = ToUtcZ(read[i].timestamp)
    BY DEF Clock, Dated
  <2>2. longer[i] = read[i]
    BY <1>3, <1>4, <2>1
  <2>3. Opens(longer, starts[k].session) = Opens(read, starts[k].session)
    BY <1>2
  <2> QED
    BY <2>1, <2>2, <2>3
<1>6. Ranked(longer, starts)
  BY <1>2, <1>3, <1>4 DEF Clock, Ranked
<1>7. Ousted(longer, starts)
  BY <1>2, <1>3, <1>4 DEF Clock, Ousted
<1> QED
  BY <1>1, <1>5, <1>6, <1>7 DEF Clock

\* ... as one is read that opens a session ...
LEMMA ClockOpens ==
    ASSUME NEW L, NEW read \in Seq(L), NEW raw \in L, NEW starts, Tracks(starts),
           Clock(read, starts), IsIncident(raw, "connection"),
           NEW later, later = RememberStart(starts, raw.id, ToUtcZ(raw.timestamp))
    PROVE  Clock(Append(read, raw), later)
<1>1. PICK longer : longer = Append(read, raw)
  OBVIOUS
<1>2. PICK d : d = IF Len(starts) >= MaxTracked THEN 1 ELSE 0
  OBVIOUS
<1>3. PICK ts : ts = ToUtcZ(raw.timestamp)
  OBVIOUS
<1>4. PICK n : n = Len(read)
  OBVIOUS
<1>5. /\ d \in {0, 1} /\ Len(starts) \in Nat /\ Len(later) \in Nat
      /\ DOMAIN starts = 1 .. Len(starts) /\ DOMAIN later = 1 .. Len(later)
      /\ Len(later) <= Len(starts) - d + 1
      /\ Dict(later) /\ Remembered(later, raw.id)
      /\ \A k \in DOMAIN later :
             IF later[k].session = raw.id
             THEN /\ later[k].ts = ts
                  /\ \/ k = Len(later)
                     \/ k + d \in DOMAIN starts /\ starts[k + d].session = raw.id
             ELSE k + d \in DOMAIN starts /\ later[k] = starts[k + d]
      /\ \A k \in DOMAIN starts : k > d => Remembered(later, starts[k].session)
  BY <1>2, <1>3, RememberIs DEF Clock
<1>6. n \in Nat /\ DOMAIN read = 1 .. n /\ DOMAIN longer = 1 .. n + 1 /\ longer[n + 1] = raw
  BY <1>1, <1>4
<1>8. ASSUME NEW s
      PROVE  /\ Opens(read, s) \subseteq 1 .. n
             /\ raw.id = s => Opens(longer, s) = Opens(read, s) \cup {n + 1}
             /\ raw.id # s => Opens(longer, s) = Opens(read, s)
  <2>1. Opens(read, s) \subseteq DOMAIN read
    BY DEF Opens
  <2>2. Opens(Append(read, raw), raw.id) = Opens(read, raw.id) \cup {Len(read) + 1}
    BY OneMore
  <2>3. ASSUME raw.id # s PROVE Opens(Append(read, raw), s) = Opens(read, s)
    BY <2>3, SameAfter
  <2> QED
    BY <1>1, <1>4, <1>6, <2>1, <2>2, <2>3
<1>9. ASSUME NEW i \in 1 .. n
      PROVE  /\ longer[i] = read[i]
             /\ Tracked(read, i) \in Nat /\ Tracked(longer, i) = Tracked(read, i) + 1
  <2>1. i \in 1 .. Len(read) + 1 /\ i <= Len(read)
    BY <1>4, <1>6, <1>9
  <2>2. longer[i] = read[i]
    BY <1>1, <1>6, <1>9
  <2> QED
    BY <1>1, <2>1, <2>2, TrackedAfter
<1>10. Tracked(longer, n + 1) \in Nat
  <2>1. n + 1 \in 1 .. Len(read) + 1
    BY <1>4, <1>6
  <2> QED
    BY <1>1, <2>1, TrackedAfter
<1>11. Dated(longer, later)
  <2> SUFFICES ASSUME NEW k \in DOMAIN later
               PROVE  \E i \in Opens(longer, later[k].session) :
                          /\ \A j \in Opens(longer, later[k].session) : j <= i
                          /\ later[k].ts = ToUtcZ(longer[i].timestamp)
    BY DEF Dated
  <2>1. CASE later[k].session = raw.id
    <3>1. n + 1 \in Opens(longer, raw.id) /\ \A j \in Opens(longer, raw.id) : j <= n + 1
      BY <1>6, <1>8
    <3>2. later[k].ts = ts
      BY <1>5, <2>1
    <3> QED
      BY <1>3, <1>6, <2>1, <3>1, <3>2
  <2>2. CASE later[k].session # raw.id
    <3>1. k + d \in DOMAIN starts /\ later[k] = starts[k + d]
      BY <1>5, <2>2
    <3>2. PICK i \in Opens(read, starts[k + d].session) :
              /\ \A j \in Opens(read, starts[k + d].session) : j <= i
              /\ starts[k + d].ts = ToUtcZ(read[i].timestamp)
      BY <3>1 DEF Clock, Dated
    <3>3. Opens(longer, later[k].session) = Opens(read, starts[k + d].session)
      <4>1. PICK s : s = later[k].session
        OBVIOUS
      <4>2. s # raw.id /\ s = starts[k + d].session
        BY <2>2, <3>1, <4>1
      <4>3. Opens(longer, s) = Opens(read, s)
        BY <1>8, <4>2
      <4> QED
        BY <4>1, <4>2, <4>3, Zenon
    <3>4. longer[i] = read[i]
      BY <1>8, <1>9, <3>2
    <3> QED
      BY <3>1, <3>2, <3>3, <3>4
  <2> QED
    BY <2>1, <2>2
<1>12. Ranked(longer, later)
  <2> SUFFICES ASSUME NEW k \in DOMAIN later
               PROVE  \E i \in Opens(longer, later[k].session) :
                          Tracked(longer, i) >= Len(later) - k
    BY DEF Ranked
  <2>1. CASE k = Len(later) /\ later[k].session = raw.id
    <3>1. n + 1 \in Opens(longer, raw.id)
      BY <1>8
    <3>2. Tracked(longer, n + 1) >= Len(later) - k
      BY <1>5, <1>10, <2>1
    <3> QED
      BY <2>1, <3>1, <3>2
  <2>2. CASE ~(k = Len(later) /\ later[k].session = raw.id)
    <3>1. k + d \in DOMAIN starts /\ later[k].session = starts[k + d].session
      BY <1>5, <2>2
    <3>2. PICK i \in Opens(read, starts[k + d].session) :
              Tracked(read, i) >= Len(starts) - (k + d)
      BY <3>1 DEF Clock, Ranked
    <3>3. i \in Opens(longer, later[k].session) /\ i \in 1 .. n
      BY <1>8, <3>1, <3>2
    <3>4. Tracked(longer, i) = Tracked(read, i) + 1 /\ Tracked(read, i) \in Nat
      BY <1>9, <3>3
    <3>5. Tracked(longer, i) >= Len(later) - k
      <4>1. PICK t : t = Tracked(read, i)
        OBVIOUS
      <4>2. t \in Nat /\ t >= Len(starts) - (k + d) /\ Tracked(longer, i) = t + 1
        BY <3>2, <3>4, <4>1
      <4>3. k \in Nat /\ d \in Nat /\ Len(starts) \in Nat /\ Len(later) \in Nat
            /\ Len(later) <= Len(starts) - d + 1
        BY <1>5
      <4> QED
        BY ONLY <4>2, <4>3
    <3> QED
      BY <3>3, <3>5
  <2> QED
    BY <2>1, <2>2
<1>13. Ousted(longer, later)
  <2> SUFFICES ASSUME NEW s, Opens(longer, s) # {}, ~Remembered(later, s)
               PROVE  \E i \in Opens(longer, s) : Tracked(longer, i) >= MaxTracked
    BY DEF Ousted
  <2>1. s # raw.id
    BY <1>5
  <2>2. Opens(longer, s) = Opens(read, s) /\ Opens(read, s) \subseteq 1 .. n
    BY <1>8, <2>1
  <2>3. CASE ~Remembered(starts, s)
    <3>1. PICK i \in Opens(read, s) : Tracked(read, i) >= MaxTracked
      BY <2>2, <2>3 DEF Clock, Ousted
    <3>2. Tracked(longer, i) = Tracked(read, i) + 1 /\ Tracked(read, i) \in Nat
      BY <1>9, <2>2, <3>1
    <3> QED
      BY <2>2, <3>1, <3>2, TrackedAssumption
  <2>4. CASE Remembered(starts, s)
    <3>1. PICK k \in DOMAIN starts : starts[k].session = s
      BY <2>4 DEF Remembered
    <3>2. ~(k > d)
      BY <1>5, <3>1
    <3>3. k = 1 /\ d = 1
      BY <1>5, <3>1, <3>2
    <3>4. PICK i \in Opens(read, s) : Tracked(read, i) >= Len(starts) - 1
      BY <3>1, <3>3 DEF Clock, Ranked
    <3>5. Tracked(longer, i) = Tracked(read, i) + 1 /\ Tracked(read, i) \in Nat
      BY <1>9, <2>2, <3>4
    <3>6. Len(starts) >= MaxTracked
      BY <1>2, <3>3
    <3> QED
      BY <1>5, <2>2, <3>4, <3>5, <3>6, TrackedAssumption
  <2> QED
    BY <2>3, <2>4
<1> QED
  BY <1>1, <1>5, <1>11, <1>12, <1>13 DEF Clock

\* ... and as one is read that ends one.
LEMMA ClockEnds ==
    ASSUME NEW L, NEW read \in Seq(L), NEW raw \in L, NEW starts, Tracks(starts),
           Clock(read, starts), IsIncident(raw, "free"),
           NEW later, later = ForgetStart(starts, raw.id)
    PROVE  Clock(Append(read, raw), later)
<1>1. PICK longer : longer = Append(read, raw)
  OBVIOUS
<1>2. /\ Dict(later)
      /\ \A k \in DOMAIN later :
             /\ later[k].session # raw.id
             /\ \E j \in DOMAIN starts : /\ later[k] = starts[j]
                                         /\ Len(later) - k <= Len(starts) - j
                                         /\ Len(later) - k \in Int /\ Len(starts) - j \in Int
      /\ \A j \in DOMAIN starts :
             starts[j].session # raw.id => Remembered(later, starts[j].session)
  BY ForgetIs DEF Clock
<1>3. ~IsIncident(raw, "connection")
  BY DEF IsIncident
<1>4. ASSUME NEW s
      PROVE  /\ Opens(read, s) \subseteq DOMAIN read
             /\ raw.id = s => Opens(longer, s) = {}
             /\ raw.id # s => Opens(longer, s) = Opens(read, s)
  <2>1. Opens(read, s) \subseteq DOMAIN read
    BY DEF Opens
  <2>2. Opens(Append(read, raw), raw.id) = {}
    BY NoneAfter
  <2>3. ASSUME raw.id # s PROVE Opens(Append(read, raw), s) = Opens(read, s)
    BY <2>3, SameAfter
  <2> QED
    BY <1>1, <2>1, <2>2, <2>3
<1>5. ASSUME NEW i \in DOMAIN read
      PROVE  longer[i] = read[i] /\ Tracked(longer, i) = Tracked(read, i) /\ Tracked(read, i) \in Nat
  <2>1. i \in 1 .. Len(read) + 1 /\ i <= Len(read)
    OBVIOUS
  <2>2. longer[i] = read[i]
    BY <1>1, OlderOpens
  <2>3. Tracked(read, i) \in Nat /\ Tracked(longer, i) = Tracked(read, i) + 0
    BY <1>1, <1>3, <2>1, TrackedAfter
  <2> QED
    BY <2>2, <2>3
<1>6. Dated(longer, later)
  <2> SUFFICES ASSUME NEW k \in DOMAIN later
               PROVE  \E i \in Opens(longer, later[k].session) :
                          /\ \A j \in Opens(longer, later[k].session) : j <= i
                          /\ later[k].ts = ToUtcZ(longer[i].timestamp)
    BY DEF Dated
  <2>1. PICK m \in DOMAIN starts : later[k] = starts[m]
    BY <1>2
  <2>2. PICK i \in Opens(read, starts[m].session) :
            /\ \A j \in Opens(read, starts[m].session) : j <= i
            /\ starts[m].ts = ToUtcZ(read[i].timestamp)
    BY DEF Clock, Dated
  <2>3. Opens(longer, later[k].session) = Opens(read, starts[m].session)
    BY <1>2, <1>4, <2>1
  <2> QED
    BY <1>4, <1>5, <2>1, <2>2, <2>3
<1>7. Ranked(longer, later)
  <2> SUFFICES ASSUME NEW k \in DOMAIN later
               PROVE  \E i \in Opens(longer, later[k].session) :
                          Tracked(longer, i) >= Len(later) - k
    BY DEF Ranked
  <2>1. PICK m \in DOMAIN starts :
            /\ later[k] = starts[m]
            /\ Len(later) - k <= Len(starts) - m
            /\ Len(later) - k \in Int /\ Len(starts) - m \in Int
    BY <1>2
  <2>2. PICK i \in Opens(read, starts[m].session) : Tracked(read, i) >= Len(starts) - m
    BY DEF Clock, Ranked
  <2>3. Opens(longer, later[k].session) = Opens(read, starts[m].session)
    BY <1>2, <1>4, <2>1
  <2>4. Tracked(longer, i) = Tracked(read, i) /\ Tracked(read, i) \in Nat
    BY <1>4, <1>5, <2>2
  <2> QED
    BY <2>1, <2>2, <2>3, <2>4
<1>8. Ousted(longer, later)
  <2> SUFFICES ASSUME NEW s, Opens(longer, s) # {}, ~Remembered(later, s)
               PROVE  \E i \in Opens(longer, s) : Tracked(longer, i) >= MaxTracked
    BY DEF Ousted
  <2>1. s # raw.id /\ Opens(longer, s) = Opens(read, s)
    BY <1>4
  <2>2. ~Remembered(starts, s)
    BY <1>2, <2>1 DEF Remembered
  <2>3. PICK i \in Opens(read, s) : Tracked(read, i) >= MaxTracked
    BY <2>1, <2>2 DEF Clock, Ousted
  <2> QED
    BY <1>4, <1>5, <2>1, <2>3
<1> QED
  BY <1>1, <1>2, <1>6, <1>7, <1>8 DEF Clock

\* In short: whatever line is read.
LEMMA ClockKept ==
    ASSUME NEW L, NEW read \in Seq(L), NEW raw \in L, NEW starts, Tracks(starts),
           Clock(read, starts),
           NEW later, later = IF raw = Junk THEN starts ELSE StartsAfter("dionaea", starts, raw)
    PROVE  Clock(Append(read, raw), later)
<1>1. CASE IsIncident(raw, "connection")
  <2>1. /\ raw # Junk /\ "origin" \in DOMAIN raw
        /\ Representable(raw) /\ raw.origin = "connection"
    BY <1>1 DEF IsIncident
  <2>2. later = StartsAfterIncident(starts, raw)
    BY <2>1 DEF StartsAfter
  <2>3. later = RememberStart(starts, raw.id, ToUtcZ(raw.timestamp))
    BY <2>1, <2>2, Zenon DEF StartsAfterIncident
  <2> QED
    BY <1>1, <2>3, ClockOpens
<1>2. CASE IsIncident(raw, "free")
  <2>1. /\ raw # Junk /\ "origin" \in DOMAIN raw
        /\ Representable(raw) /\ raw.origin = "free"
    BY <1>2 DEF IsIncident
  <2>2. later = StartsAfterIncident(starts, raw)
    BY <2>1 DEF StartsAfter
  <2>3. later = ForgetStart(starts, raw.id)
    BY <2>1, <2>2 DEF StartsAfterIncident
  <2> QED
    BY <1>2, <2>3, ClockEnds
<1>3. CASE ~IsIncident(raw, "connection") /\ ~IsIncident(raw, "free")
  <2>1. later = starts
    <3>1. CASE raw = Junk
      BY <3>1
    <3>2. CASE raw # Junk /\ "origin" \notin DOMAIN raw
      BY <3>2 DEF StartsAfter
    <3>3. CASE raw # Junk /\ "origin" \in DOMAIN raw
      <4>1. /\ ~(Representable(raw) /\ raw.origin = "connection")
            /\ ~(Representable(raw) /\ raw.origin = "free")
        BY <1>3, <3>3 DEF IsIncident
      <4>2. later = StartsAfterIncident(starts, raw)
        BY <3>3 DEF StartsAfter
      <4> QED
        BY <4>1, <4>2 DEF StartsAfterIncident
    <3> QED
      BY <3>1, <3>2, <3>3
  <2> QED
    BY <1>3, <2>1, ClockIdles
<1> QED
  BY <1>1, <1>2, <1>3

\* A process that has read nothing remembers nothing.
LEMMA ClockStarts == Clock(<<>>, <<>>)
<1>1. DOMAIN <<>> = {}
  OBVIOUS
<1>2. \A s : Opens(<<>>, s) = {}
  BY <1>1 DEF Opens
<1> QED
  BY <1>1, <1>2 DEF Clock, Dict, Dated, Ranked, Ousted

\* A process: what it has read and remembers go together, and so do what it made of the
\* last line and what it remembered before.
Timed(read, starts, made) ==
    /\ read \in Seq(Lines(honeypot))
    /\ Clock(read, starts)
    /\ made # <<>> =>
           \E before, earlier, raw :
               /\ before \in Seq(Lines(honeypot)) /\ raw \in Lines(honeypot) \ {Junk}
               /\ read = Append(before, raw) /\ Clock(before, earlier)
               /\ made = BuildEnvelopes(honeypot, earlier, raw)

LEMMA TimedStarts == Timed(<<>>, <<>>, <<>>)
<1>1. PICK L : L = Lines(honeypot)
  OBVIOUS
<1>2. <<>> \in Seq(L)
  OBVIOUS
<1> QED
  BY <1>1, <1>2, ClockStarts DEF Timed

LEMMA TimedKept ==
    ASSUME honeypot = "dionaea", NEW read, NEW starts, NEW made, Tracks(starts),
           Timed(read, starts, made), NEW raw \in Lines(honeypot),
           NEW later, later = IF raw = Junk THEN starts ELSE StartsAfter(honeypot, starts, raw),
           NEW new, new = IF raw = Junk THEN <<>> ELSE BuildEnvelopes(honeypot, starts, raw)
    PROVE  Timed(Append(read, raw), later, new)
<1>1. PICK L : L = Lines(honeypot)
  OBVIOUS
<1>2. read \in Seq(L) /\ raw \in L /\ Clock(read, starts)
  BY <1>1 DEF Timed
<1>3. Append(read, raw) \in Seq(L)
  BY <1>2
<1>4. Clock(Append(read, raw), later)
  BY <1>2, ClockKept
<1>5. new # <<>> => /\ raw # Junk
                    /\ new = BuildEnvelopes(honeypot, starts, raw)
  OBVIOUS
<1> QED
  BY <1>1, <1>2, <1>3, <1>4, <1>5 DEF Timed

\* The last line of what was read, and what is before it.
LEMMA FrontAndLast ==
    ASSUME NEW L, NEW before \in Seq(L), NEW raw \in L
    PROVE  Front(Append(before, raw)) = before /\ Last(Append(before, raw)) = raw
<1>1. PICK longer : longer = Append(before, raw)
  OBVIOUS
<1>2. PICK n : n = Len(before)
  OBVIOUS
<1>3. /\ n \in Nat /\ Len(longer) = n + 1 /\ longer[n + 1] = raw
      /\ \A i \in 1 .. n : longer[i] = before[i] /\ before[i] \in L
  BY <1>1, <1>2
<1>4. PICK front : front = SubSeq(longer, 1, n)
  OBVIOUS
<1>5. front \in Seq(L) /\ Len(front) = n /\ \A i \in 1 .. n : front[i] = before[i]
  <2>1. 1 \in Int /\ n \in Int /\ \A i \in 1 .. n : longer[i] \in L
    BY <1>3
  <2>2. /\ front \in Seq(L) /\ Len(front) = IF 1 <= n THEN n - 1 + 1 ELSE 0
        /\ \A i \in 1 .. n - 1 + 1 : front[i] = longer[1 + i - 1]
    BY <1>4, <2>1, SubSeqProperties
  <2> QED
    BY ONLY <1>3, <2>2
<1>6. front = before
  BY <1>2, <1>5, SeqEqual
<1>7. n + 1 - 1 = n
  BY <1>3
<1>8. Front(longer) = front
  BY <1>3, <1>4, <1>7 DEF Front
<1> QED
  BY <1>1, <1>3, <1>6, <1>8 DEF Last

\* A line that is not skipped is dated.
LEMMA Moment ==
    ASSUME LogOK, NEW raw \in Lines(honeypot) \ {Junk}, Representable(raw)
    PROVE  /\ raw.timestamp = Get(raw, "timestamp") /\ raw.timestamp # Null
           /\ raw.timestamp.at \in Nat
           /\ ToUtcZ(raw.timestamp).at = raw.timestamp.at
<1>1. Get(raw, "timestamp") # Null
  BY DEF Representable
<1>2. Get(raw, "timestamp") = raw.timestamp
  BY <1>1 DEF Get
<1>3. Get(raw, "timestamp") \in {Null} \cup [form : STRING, at : Nat]
  BY LogAssumption DEF LogOK
<1>4. PICK ts : ts = raw.timestamp
  OBVIOUS
<1>5. ts \in [form : STRING, at : Nat]
  BY <1>1, <1>2, <1>3, <1>4
<1>6. ToUtcZ(ts).at = ts.at
  <2>1. ToUtcZ(ts) = ts \/ ToUtcZ(ts) = [ts EXCEPT !.form = "utc"]
    BY DEF ToUtcZ
  <2> QED
    BY <1>5, <2>1
<1> QED
  BY <1>1, <1>2, <1>4, <1>5, <1>6

\* The earlier the line, the more has been tracked since.
LEMMA TrackedFalls ==
    ASSUME NEW L, NEW read \in Seq(L), NEW i \in Nat, NEW j \in Nat, i <= j
    PROVE  /\ Tracked(read, i) \in Nat /\ Tracked(read, j) \in Nat
           /\ Tracked(read, i) >= Tracked(read, j)
<1>1. PICK n : n = Len(read)
  OBVIOUS
<1>2. n \in Nat
  BY <1>1
<1>3. PICK A : A = {k \in i + 1 .. n : IsIncident(read[k], "connection")}
  OBVIOUS
<1>4. PICK B : B = {k \in j + 1 .. n : IsIncident(read[k], "connection")}
  OBVIOUS
<1>5. i + 1 \in Int /\ n \in Int
  BY <1>2
<1>6. IsFiniteSet(i + 1 .. n)
  BY <1>5, FS_Interval
<1>7. A \subseteq i + 1 .. n /\ B \subseteq A
  BY <1>2, <1>3, <1>4
<1>8. IsFiniteSet(A)
  BY <1>6, <1>7, FS_Subset
<1>9. IsFiniteSet(B) /\ Cardinality(B) <= Cardinality(A)
  BY <1>7, <1>8, FS_Subset
<1>10. Cardinality(A) \in Nat /\ Cardinality(B) \in Nat
  BY <1>8, <1>9, FS_CardinalityType
<1>11. Tracked(read, i) = Cardinality(A) /\ Tracked(read, j) = Cardinality(B)
  BY <1>1, <1>3, <1>4 DEF Tracked
<1> QED
  BY <1>9, <1>10, <1>11

\* What ends a session says so of the session's own line.
LEMMA EndOfSession ==
    ASSUME NEW earlier, NEW raw, "origin" \in DOMAIN raw, NEW made, made = FromIncident(earlier, raw),
           NEW i \in DOMAIN made, made[i].event_type = "session_end",
           NEW ts, ts = ToUtcZ(Get(raw, "timestamp")),
           NEW duration, duration = DurationSinceStart(earlier, raw.id, ts)
    PROVE  /\ IsIncident(raw, "free") \/ raw = Junk
           /\ Representable(raw)
           /\ made[i].session_id = raw.id /\ made[i].timestamp = ts
           /\ IF duration = Null THEN "duration_seconds" \notin DOMAIN made[i].details
              ELSE /\ "duration_seconds" \in DOMAIN made[i].details
                   /\ made[i].details.duration_seconds = duration
<1>1. PICK d : d = IncidentDetails(earlier, raw, ts)
  OBVIOUS
<1>2. PICK skipped \in BOOLEAN : skipped = (raw.origin = "command" /\ d.command = Null)
  OBVIOUS
<1>3. PICK whence : whence = ConnectionOf(raw.id, Get(raw, "protocol"), Get(raw, "remote_ip"))
  OBVIOUS
<1>4. PICK type : type = IncidentTypes[raw.origin]
  OBVIOUS
<1>5. made = IF ~Representable(raw) \/ skipped THEN <<>> ELSE <<Envelope(type, whence, ts, d)>>
  BY <1>1, <1>2, <1>3, <1>4 DEF FromIncident
<1>6. DOMAIN <<>> = {}
  OBVIOUS
<1>7. Representable(raw) /\ made = <<Envelope(type, whence, ts, d)>>
  BY <1>5, <1>6
<1>8. i = 1
  BY <1>7
<1>9. PICK e : e = Envelope(type, whence, ts, d)
  OBVIOUS
<1>10. made[i] = e
  BY <1>7, <1>8, <1>9
<1>11. /\ e.event_type = type /\ e.timestamp = ts /\ e.details = d
       /\ e.session_id = whence.session_id
  BY <1>9 DEF Envelope
<1>12. whence.session_id = raw.id
  BY <1>3 DEF ConnectionOf
<1>13. raw.origin \in KnownOrigins
  BY <1>7 DEF Representable
<1>14. raw.origin = "free"
  <2>1. type = "session_end"
    BY <1>10, <1>11
  <2> QED
    BY <1>4, <1>13, <2>1 DEF KnownOrigins, IncidentTypes
<1>15. d = IF duration = Null THEN [status |-> "closed"]
           ELSE [status |-> "closed", duration_seconds |-> duration]
  BY <1>1, <1>14, Zenon DEF IncidentDetails
<1>16. IF duration = Null THEN "duration_seconds" \notin DOMAIN d
       ELSE "duration_seconds" \in DOMAIN d /\ d.duration_seconds = duration
  BY <1>15
<1> QED
  BY <1>7, <1>10, <1>11, <1>12, <1>14, <1>16 DEF IsIncident

LEMMA TimedIsTrue ==
    ASSUME LogOK, honeypot = "dionaea", NEW read, NEW starts, NEW made, Timed(read, starts, made),
           NEW i \in DOMAIN made, made[i].event_type = "session_end", "origin" \in DOMAIN Last(read),
           NEW before, before = Front(read),
           NEW opens, opens = Opens(before, made[i].session_id)
    PROVE  IF "duration_seconds" \in DOMAIN made[i].details
           THEN /\ opens # {}
                /\ made[i].details.duration_seconds =
                       made[i].timestamp.at - before[Max(opens)].timestamp.at
           ELSE opens = {} \/ Tracked(before, Min(opens)) >= MaxTracked
<1>1. DOMAIN <<>> = {}
  OBVIOUS
<1>2. made # <<>>
  BY <1>1
<1>3. PICK L : L = Lines(honeypot)
  OBVIOUS
<1>4. PICK front, earlier, raw :
          /\ front \in Seq(L) /\ raw \in L \ {Junk}
          /\ read = Append(front, raw) /\ Clock(front, earlier)
          /\ made = BuildEnvelopes(honeypot, earlier, raw)
  BY <1>2, <1>3 DEF Timed
<1>5. before = front /\ Last(read) = raw
  BY <1>4, FrontAndLast
<1>6. made = FromIncident(earlier, raw)
  BY <1>4, <1>5 DEF BuildEnvelopes
<1>7. PICK ts : ts = ToUtcZ(Get(raw, "timestamp"))
  OBVIOUS
<1>8. PICK duration : duration = DurationSinceStart(earlier, raw.id, ts)
  OBVIOUS
<1>9. /\ Representable(raw)
      /\ made[i].session_id = raw.id /\ made[i].timestamp = ts
      /\ IF duration = Null THEN "duration_seconds" \notin DOMAIN made[i].details
         ELSE /\ "duration_seconds" \in DOMAIN made[i].details
              /\ made[i].details.duration_seconds = duration
  BY <1>5, <1>6, <1>7, <1>8, EndOfSession
<1>10. opens = Opens(before, raw.id)
  BY <1>9
<1>11. ts.at \in Nat
  BY <1>3, <1>4, <1>7, <1>9, Moment
<1>12. opens \subseteq DOMAIN before /\ DOMAIN before = 1 .. Len(before) /\ Len(before) \in Nat
  BY <1>4, <1>5, <1>10 DEF Opens
<1>13. CASE Remembered(earlier, raw.id)
  <2>1. PICK k : k = PlaceOf(earlier, raw.id)
    OBVIOUS
  <2>2. k \in DOMAIN earlier /\ earlier[k].session = raw.id
    BY <1>13, <2>1 DEF Remembered, PlaceOf
  <2>3. PICK j \in opens : /\ \A m \in opens : m <= j
                           /\ earlier[k].ts = ToUtcZ(before[j].timestamp)
    BY <1>4, <1>5, <1>10, <2>2 DEF Clock, Dated
  <2>4. before[j] \in Lines(honeypot) \ {Junk} /\ Representable(before[j])
    <3>1. IsIncident(before[j], "connection")
      BY <1>10, <2>3 DEF Opens
    <3>2. before[j] \in L
      BY <1>4, <1>5, <1>12, <2>3
    <3> QED
      BY <1>3, <3>1, <3>2 DEF IsIncident
  <2>5. before[j].timestamp.at \in Nat /\ earlier[k].ts.at = before[j].timestamp.at
    BY <2>3, <2>4, Moment
  <2>6. duration = ts.at - before[j].timestamp.at
    BY <1>8, <1>13, <2>1, <2>5 DEF DurationSinceStart
  <2>7. duration \in Int
    BY <1>11, <2>5, <2>6
  <2>8. duration # Null
    BY <2>7, NullIsNoDuration
  <2>9. Max(opens) = j
    <3>1. opens \subseteq Nat
      BY <1>12
    <3>2. j \in opens /\ \A m \in opens : j >= m
      BY <2>3, <3>1
    <3>3. Max(opens) \in opens /\ \A m \in opens : Max(opens) >= m
      BY <3>2 DEF Max
    <3> QED
      BY <3>1, <3>2, <3>3
  <2> QED
    BY <1>9, <2>3, <2>6, <2>8, <2>9
<1>14. CASE ~Remembered(earlier, raw.id)
  <2>1. duration = Null
    BY <1>8, <1>14 DEF DurationSinceStart
  <2>2. ASSUME opens # {} PROVE Tracked(before, Min(opens)) >= MaxTracked
    <3>1. PICK j \in opens : Tracked(before, j) >= MaxTracked
      BY <1>4, <1>5, <1>10, <1>14, <2>2 DEF Clock, Ousted
    <3>2. opens \subseteq Nat
      BY <1>12
    <3>3. Min(opens) \in opens /\ Min(opens) <= j
      BY <2>2, <3>2, FirstOf
    <3>4. PICK m : m = Min(opens)
      OBVIOUS
    <3>5. m \in Nat /\ j \in Nat /\ m <= j
      BY <3>2, <3>3, <3>4
    <3>6. /\ Tracked(before, m) \in Nat /\ Tracked(before, j) \in Nat
          /\ Tracked(before, m) >= Tracked(before, j)
      BY <1>4, <1>5, <3>5, TrackedFalls
    <3>7. Tracked(before, m) >= MaxTracked
      BY <3>1, <3>6, TrackedAssumption
    <3> QED
      BY <3>4, <3>7
  <2> QED
    BY <1>9, <2>1, <2>2
<1> QED
  BY <1>13, <1>14

\* Both processes are timed.
AdapterTimed == Timed(adapter.read, adapter.starts, adapter.made)

RunTimed == Timed(run.read, run.starts, run.made)

TimesOK == honeypot = "dionaea" => AdapterTimed /\ (run # Idle => RunTimed)

LEMMA AdapterTimedKept ==
    ASSUME TypeInv, honeypot = "dionaea", AdapterTimed, [Next]_vars
    PROVE  AdapterTimed'
<1>0. honeypot' = honeypot /\ Lines(honeypot') = Lines(honeypot)
  BY SameHoneypot
<1>1. CASE adapter' = adapter
  BY <1>0, <1>1 DEF AdapterTimed, Timed
<1>2. CASE StopAdapter
  <2>1. adapter' = [up |-> FALSE, starts |-> <<>>, read |-> <<>>, made |-> <<>>]
    BY <1>2 DEF StopAdapter
  <2>2. adapter'.starts = <<>> /\ adapter'.read = <<>> /\ adapter'.made = <<>>
    BY <2>1
  <2> QED
    BY <1>0, <2>2, TimedStarts DEF AdapterTimed, Timed
<1>3. CASE StartAdapter
  <2>1. adapter' = [adapter EXCEPT !.up = TRUE]
    BY <1>3 DEF StartAdapter
  <2>2. /\ adapter'.starts = adapter.starts /\ adapter'.read = adapter.read
        /\ adapter'.made = adapter.made
    BY <2>1 DEF TypeInv, AdapterOK
  <2> QED
    BY <1>0, <2>2 DEF AdapterTimed, Timed
<1>4. ASSUME NEW raw \in Raws[honeypot] \cup {Junk}, Write(raw), adapter' # adapter
      PROVE  AdapterTimed'
  <2>1. adapter' = AfterLine(adapter, raw)
    BY <1>4 DEF Write
  <2>2. PICK starts : starts = adapter.starts
    OBVIOUS
  <2>3. PICK later : later = IF raw = Junk THEN starts ELSE StartsAfter(honeypot, starts, raw)
    OBVIOUS
  <2>4. PICK new : new = IF raw = Junk THEN <<>> ELSE BuildEnvelopes(honeypot, starts, raw)
    OBVIOUS
  <2>5. adapter'.read = Append(adapter.read, raw) /\ adapter'.starts = later /\ adapter'.made = new
    <3>1. {"starts", "read", "made"} \subseteq DOMAIN adapter
      BY DEF TypeInv, AdapterOK
    <3>2. PICK after : after = AfterLine(adapter, raw)
      OBVIOUS
    <3>3. /\ after.read = Append(adapter.read, raw)
          /\ raw = Junk => after.made = <<>> /\ after.starts = adapter.starts
          /\ raw # Junk => /\ after.made = BuildEnvelopes(honeypot, adapter.starts, raw)
                           /\ after.starts = StartsAfter(honeypot, adapter.starts, raw)
      BY <3>1, <3>2, AfterLineDoes
    <3> QED
      BY <2>1, <2>2, <2>3, <2>4, <3>2, <3>3
  <2>6. raw \in Lines(honeypot)
    BY DEF Lines
  <2>7. Tracks(starts) /\ Timed(adapter.read, starts, adapter.made)
    BY <2>2 DEF TypeInv, AdapterOK, AdapterTimed
  <2>8. Timed(Append(adapter.read, raw), later, new)
    BY <2>3, <2>4, <2>6, <2>7, TimedKept
  <2> QED
    BY <1>0, <2>5, <2>8 DEF AdapterTimed, Timed
<1>5. \/ adapter' = adapter \/ StopAdapter \/ StartAdapter
      \/ \E raw \in Raws[honeypot] \cup {Junk} : Write(raw)
  BY DEF Next, vars, Rotate, Start, Open, ReadLine, EndOfFile, ReadOn, Consider, Flush,
         SomeRejected, PostFails, Interrupted
<1> QED
  BY <1>1, <1>2, <1>3, <1>4, <1>5

LEMMA RunTimedKept ==
    ASSUME IInv, TypeInv, honeypot = "dionaea", run # Idle => RunTimed, [Next]_vars, run' # Idle
    PROVE  RunTimed'
<1>0. /\ run # Idle => DOMAIN run = RunFields
      /\ honeypot' = honeypot /\ Lines(honeypot') = Lines(honeypot)
  BY SameHoneypot DEF IInv, Holds
<1>1. CASE /\ run # Idle /\ run'.read = run.read /\ run'.made = run.made
           /\ run'.starts = run.starts
  BY <1>0, <1>1 DEF RunTimed, Timed
<1>2. ASSUME NEW names, NEW since, NEW dry, Start(names, since, dry) PROVE RunTimed'
  <2>1. run'.read = <<>> /\ run'.made = <<>> /\ run'.starts = <<>>
    BY <1>2, StartDoes
  <2> QED
    BY <1>0, <2>1, TimedStarts DEF RunTimed, Timed
<1>3. CASE ReadLine
  <2>1. run # Idle
    BY <1>3 DEF ReadLine, LineDone, Idle
  <2>2. PICK raw : raw = files[run.file][run.line + 1]
    OBVIOUS
  <2>3. PICK starts : starts = run.starts
    OBVIOUS
  <2>4. PICK later : later = IF raw = Junk THEN starts ELSE StartsAfter(honeypot, starts, raw)
    OBVIOUS
  <2>5. PICK new : new = IF raw = Junk THEN <<>> ELSE BuildEnvelopes(honeypot, starts, raw)
    OBVIOUS
  <2>6. /\ run.pc = "read" /\ run.line < Len(files[run.file])
        /\ run'.read = Append(run.read, raw)
        /\ raw = Junk => run'.made = <<>> /\ run'.starts = starts
        /\ raw # Junk => /\ run'.made = BuildEnvelopes(honeypot, starts, raw)
                         /\ run'.starts = StartsAfter(honeypot, starts, raw)
    BY <1>0, <1>3, <2>1, <2>2, <2>3, ReadLineDoes
  <2>7. run'.starts = later /\ run'.made = new
    BY <2>4, <2>5, <2>6
  <2>8. raw \in Lines(honeypot)
    <3>1. run.file \in 1 .. Len(files) /\ run.line \in Nat
      BY <2>1, <2>6 DEF TypeInv, Reading
    <3>2. files[run.file] \in Seq(Lines(honeypot))
      BY <3>1 DEF TypeInv, LogOK
    <3>3. run.line + 1 \in 1 .. Len(files[run.file])
      BY <2>6, <3>1, <3>2
    <3> QED
      BY <2>2, <3>1, <3>3, LineOnDisk DEF TypeInv
  <2>9. Tracks(starts) /\ Timed(run.read, starts, run.made)
    BY <2>1, <2>3 DEF TypeInv, Working, RunTimed
  <2>10. Timed(Append(run.read, raw), later, new)
    BY <2>4, <2>5, <2>8, <2>9, TimedKept
  <2> QED
    BY <1>0, <2>6, <2>7, <2>10 DEF RunTimed, Timed
<1>4. \/ /\ run # Idle /\ run'.read = run.read /\ run'.made = run.made
         /\ run'.starts = run.starts
      \/ \E names, since, dry : Start(names, since, dry)
      \/ ReadLine
  <2>1. CASE Moves /\ run # Idle /\ ~ReadLine
    BY <2>1 DEF Moves, Rest, RunFields
  <2> QED
    BY <2>1, StepOfRun
<1> QED
  BY <1>1, <1>2, <1>3, <1>4

LEMMA Clocked == Spec => [](TypeInv /\ TimesOK)
<1>1. Init => TimesOK
  <2> SUFFICES ASSUME Init PROVE AdapterTimed /\ run = Idle
    BY DEF TimesOK
  <2>1. adapter = [up |-> TRUE, starts |-> <<>>, read |-> <<>>, made |-> <<>>] /\ run = Idle
    BY DEF Init
  <2>2. adapter.starts = <<>> /\ adapter.read = <<>> /\ adapter.made = <<>>
    BY <2>1
  <2> QED
    BY <2>1, <2>2, TimedStarts DEF AdapterTimed
<1>2. IInv /\ TypeInv /\ TimesOK /\ [Next]_vars => TimesOK'
  <2> SUFFICES ASSUME IInv, TypeInv, TimesOK, [Next]_vars, honeypot' = "dionaea"
               PROVE  AdapterTimed' /\ (run' # Idle => RunTimed')
    BY DEF TimesOK
  <2>1. honeypot = "dionaea"
    BY SameHoneypot
  <2>2. AdapterTimed /\ (run # Idle => RunTimed)
    BY <2>1 DEF TimesOK
  <2>3. AdapterTimed'
    BY <2>1, <2>2, AdapterTimedKept
  <2>4. run' # Idle => RunTimed'
    BY <2>1, <2>2, RunTimedKept
  <2> QED
    BY <2>3, <2>4
<1>3. Spec => []IInv
  BY Initially, Inductive, PTL DEF Spec
<1>4. Spec => []TypeInv
  BY <1>3, TypesHold, TypesKept, PTL DEF Spec
<1>5. Spec => []TimesOK
  BY <1>1, <1>2, <1>3, <1>4, PTL DEF Spec
<1> QED
  BY <1>4, <1>5, PTL

\* The duration that a session ends with is the time since the process saw it open last,
\* live or in a backfill, however the sessions overlap; it is missing only when the process
\* did not see it open or had as many others to track since (_remember_start,
\* _duration_since_start).
THEOREM DurationsAreOfTheSession == Spec => []DurationsAreTrue
<1>1. TypeInv /\ TimesOK => DurationsAreTrue
  <2> SUFFICES ASSUME TypeInv, TimesOK, NEW p \in Processes, NEW i \in DOMAIN p.made,
                      honeypot = "dionaea", p.made[i].event_type = "session_end",
                      "origin" \in DOMAIN Last(p.read),
                      NEW e, e = p.made[i], NEW before, before = Front(p.read),
                      NEW opens, opens = Opens(before, e.session_id)
               PROVE  IF "duration_seconds" \in DOMAIN e.details
                      THEN /\ opens # {}
                           /\ e.details.duration_seconds =
                                  e.timestamp.at - before[Max(opens)].timestamp.at
                      ELSE opens = {} \/ Tracked(before, Min(opens)) >= MaxTracked
    BY Zenon DEF DurationsAreTrue
  <2>1. p = adapter \/ (p = run /\ run # Idle)
    BY DEF Processes, Idle
  <2>2. Timed(p.read, p.starts, p.made)
    BY <2>1 DEF TimesOK, AdapterTimed, RunTimed
  <2>3. PICK read : read = p.read
    OBVIOUS
  <2>4. PICK starts : starts = p.starts
    OBVIOUS
  <2>5. PICK made : made = p.made
    OBVIOUS
  <2>6. LogOK /\ Timed(read, starts, made) /\ i \in DOMAIN made /\ e = made[i]
    BY <2>2, <2>3, <2>4, <2>5 DEF TypeInv
  <2>7. made[i].event_type = "session_end" /\ "origin" \in DOMAIN Last(read)
        /\ before = Front(read) /\ opens = Opens(before, made[i].session_id)
    BY <2>3, <2>5
  <2>8. IF "duration_seconds" \in DOMAIN made[i].details
        THEN /\ opens # {}
             /\ made[i].details.duration_seconds =
                    made[i].timestamp.at - before[Max(opens)].timestamp.at
        ELSE opens = {} \/ Tracked(before, Min(opens)) >= MaxTracked
    BY <2>6, <2>7, TimedIsTrue
  <2> QED
    BY <2>6, <2>8
<1> QED
  BY <1>1, Clocked, PTL

-----------------------------------------------------------------------------
(* Passwords *)

\* What is typed after a secret verb makes no difference to a command.
LEMMA RenderedAlike ==
    ASSUME NEW verb, NEW text, NEW other, verb \in Verbs \/ text = other
    PROVE  RenderCommand(verb, text) = RenderCommand(verb, other)
<1>1. CASE text = other
  BY <1>1
<1>2. CASE verb \in Verbs
  <2>1. Secret(verb)
    BY <1>2 DEF Verbs, Secret
  <2> QED
    BY <2>1 DEF RenderCommand
<1> QED
  BY <1>1, <1>2

\* The commands of a line, and of the same line without a password, differ in no more.
Alike(P, Q) ==
    /\ DOMAIN Q = DOMAIN P
    /\ \A i \in DOMAIN P : Q[i][1] = P[i][1] /\ (P[i][1] \in Verbs \/ Q[i][2] = P[i][2])

LEMMA HiddenList ==
    ASSUME NEW S, Null \in S, NEW texts \in Seq(S), NEW verbs
    PROVE  [i \in DOMAIN texts |->
               IF i \in DOMAIN verbs /\ verbs[i] \in Verbs THEN Null ELSE texts[i]] \in Seq(S)
<1>1. Len(texts) \in Nat /\ DOMAIN texts = 1 .. Len(texts) /\ \A i \in DOMAIN texts : texts[i] \in S
  OBVIOUS
<1>2. \A i \in DOMAIN texts :
          (IF i \in DOMAIN verbs /\ verbs[i] \in Verbs THEN Null ELSE texts[i]) \in S
  BY <1>1
<1> QED
  BY <1>1, <1>2

LEMMA ListsAlike ==
    ASSUME NEW found, \A name \in DOMAIN found : ListOf(found, name) \in Seq(STRING \cup {Null})
    PROVE  Alike(Pairs(found, TRUE, "command", "arguments"),
                 Pairs(HideInLists(found), TRUE, "command", "arguments"))
<1> DEFINE verbs == ListOf(found, "command")
           texts == ListOf(found, "arguments")
           hidden == [i \in DOMAIN texts |->
                         IF i \in DOMAIN verbs /\ verbs[i] \in Verbs THEN Null ELSE texts[i]]
           new == HideInLists(found)
<1>1. DOMAIN new = DOMAIN found
  BY DEF HideInLists
<1>2. ListOf(new, "command") = verbs
  <2>1. "command" \in DOMAIN found => new["command"] = found["command"]
    BY DEF HideInLists
  <2> QED
    BY <1>1, <2>1, Zenon DEF ListOf, Get
<1>3. ListOf(new, "arguments") = hidden
  <2>1. CASE "arguments" \in DOMAIN found
    <3>1. new["arguments"] = hidden
      BY <2>1, Zenon DEF HideInLists
    <3>2. hidden # Null
      <4>1. texts \in Seq(STRING \cup {Null})
        BY <2>1
      <4>2. hidden \in Seq(STRING \cup {Null})
        <5>1. PICK S : S = STRING \cup {Null}
          OBVIOUS
        <5>2. Null \in S
          BY <5>1
        <5> HIDE DEF verbs, texts
        <5> QED
          BY <4>1, <5>1, <5>2, HiddenList
      <4> QED
        BY <4>2, NullIsNoList
    <3> QED
      BY <1>1, <2>1, <3>1, <3>2, Zenon DEF ListOf, Get
  <2>2. CASE "arguments" \notin DOMAIN found
    <3>1. texts = <<>> /\ ListOf(new, "arguments") = <<>>
      BY <1>1, <2>2, Zenon DEF ListOf, Get
    <3>2. \A s : s = <<>> => [i \in DOMAIN s |->
                         IF i \in DOMAIN verbs /\ verbs[i] \in Verbs THEN Null ELSE s[i]] = <<>>
      <4> HIDE DEF verbs
      <4> QED
        OBVIOUS
    <3> QED
      BY <3>1, <3>2, Zenon
  <2> QED
    BY <2>1, <2>2
<1>4. PICK vs : vs = verbs
  OBVIOUS
<1>5. PICK ts : ts = texts
  OBVIOUS
<1>6. PICK hs : hs = hidden
  OBVIOUS
<1>7. DOMAIN hs = DOMAIN ts
      /\ \A i \in DOMAIN ts : (i \in DOMAIN vs /\ vs[i] \in Verbs) \/ hs[i] = ts[i]
  BY <1>4, <1>5, <1>6
<1>8. PICK P : P = Pairs(found, TRUE, "command", "arguments")
  OBVIOUS
<1>9. PICK Q : Q = Pairs(HideInLists(found), TRUE, "command", "arguments")
  OBVIOUS
<1>10. P = [i \in DOMAIN vs |-> <<vs[i], IF i \in DOMAIN ts THEN ts[i] ELSE Null>>]
  BY <1>4, <1>5, <1>8, Zenon DEF Pairs
<1>11. Q = [i \in DOMAIN vs |-> <<vs[i], IF i \in DOMAIN hs THEN hs[i] ELSE Null>>]
  BY <1>2, <1>3, <1>4, <1>6, <1>9, Zenon DEF Pairs
<1>12. Alike(P, Q)
  <2>1. DOMAIN P = DOMAIN vs /\ DOMAIN Q = DOMAIN vs
    BY ONLY <1>10, <1>11
  <2>2. ASSUME NEW i \in DOMAIN vs
        PROVE  Q[i][1] = P[i][1] /\ (P[i][1] \in Verbs \/ Q[i][2] = P[i][2])
    <3>1. /\ P[i] = <<vs[i], IF i \in DOMAIN ts THEN ts[i] ELSE Null>>
          /\ Q[i] = <<vs[i], IF i \in DOMAIN hs THEN hs[i] ELSE Null>>
      BY <1>10, <1>11, <2>2
    <3> QED
      BY ONLY <1>7, <2>2, <3>1
  <2> QED
    BY <2>1, <2>2 DEF Alike
<1> QED
  BY <1>8, <1>9, <1>12

LEMMA ObjectsAlike ==
    ASSUME NEW found
    PROVE  Alike(Pairs(found, FALSE, "command", "arguments"),
                 Pairs([i \in DOMAIN found |-> Hide(found[i])], FALSE, "command", "arguments"))
<1>1. \A c : /\ Get(Hide(c), "command") = Get(c, "command")
             /\ Get(c, "command") \in Verbs \/ Get(Hide(c), "arguments") = Get(c, "arguments")
  BY DEF Hide, Get
<1>2. PICK new : new = [i \in DOMAIN found |-> Hide(found[i])]
  OBVIOUS
<1>3. DOMAIN new = DOMAIN found /\ \A i \in DOMAIN found : new[i] = Hide(found[i])
  BY <1>2
<1>4. PICK P : P = Pairs(found, FALSE, "command", "arguments")
  OBVIOUS
<1>5. PICK Q : Q = Pairs(new, FALSE, "command", "arguments")
  OBVIOUS
<1>6. P = [i \in DOMAIN found |-> <<Get(found[i], "command"), Get(found[i], "arguments")>>]
  BY <1>4, Zenon DEF Pairs
<1>7. Q = [i \in DOMAIN new |-> <<Get(new[i], "command"), Get(new[i], "arguments")>>]
  BY <1>5, Zenon DEF Pairs
<1>8. Alike(P, Q)
  BY <1>1, <1>3, <1>6, <1>7 DEF Alike
<1> QED
  BY <1>2, <1>4, <1>5, <1>8

\* What a password may change of a line.
LEMMA FieldsStay ==
    ASSUME NEW raw
    PROVE  /\ DOMAIN WithoutPassword(raw) = DOMAIN raw
           /\ \A key : key \notin {"ftp", "arguments"} =>
                  /\ Get(WithoutPassword(raw), key) = Get(raw, key)
                  /\ key \in DOMAIN raw => WithoutPassword(raw)[key] = raw[key]
           /\ Get(raw, "command") \in Verbs
                  \/ Get(WithoutPassword(raw), "arguments") = Get(raw, "arguments")
           /\ Flat(WithoutPassword(raw)) = Flat(raw)
<1> DEFINE new == WithoutPassword(raw)
<1>1. DOMAIN new = DOMAIN raw
  BY DEF WithoutPassword
<1>2. \A key \in DOMAIN raw : key # "ftp" => new[key] = Hide(raw)[key]
  BY DEF WithoutPassword
<1>3. \A key \in DOMAIN raw :
          key # "arguments" \/ Get(raw, "command") \notin Verbs => Hide(raw)[key] = raw[key]
  BY DEF Hide
<1>4. \A key \in DOMAIN raw : key \notin {"ftp", "arguments"} => new[key] = raw[key]
  BY <1>2, <1>3
<1>5. "arguments" \in DOMAIN raw /\ Get(raw, "command") \notin Verbs
          => new["arguments"] = raw["arguments"]
  BY <1>2, <1>3
<1> HIDE DEF new
<1>6. \A key : key \notin {"ftp", "arguments"} => Get(new, key) = Get(raw, key)
  BY <1>1, <1>4, Zenon DEF Get
<1>7. Get(raw, "command") \in Verbs \/ Get(new, "arguments") = Get(raw, "arguments")
  BY <1>1, <1>5, Zenon DEF Get
<1>8. Flat(new) = Flat(raw)
  <2>1. "flat" \in DOMAIN raw => new["flat"] = raw["flat"]
    BY <1>4
  <2> QED
    BY <1>1, <2>1 DEF Flat
<1> QED
  BY <1>1, <1>4, <1>6, <1>7, <1>8 DEF new

LEMMA CommandsAlike ==
    ASSUME NEW raw, ListsAreLists(raw)
    PROVE  Alike(FtpCommands(raw), FtpCommands(WithoutPassword(raw)))
<1> DEFINE new == WithoutPassword(raw)
<1>0. DOMAIN new = DOMAIN raw /\ Flat(new) = Flat(raw)
  BY FieldsStay
<1>1. CASE "ftp" \notin DOMAIN raw
  <2>1. FtpCommands(raw) = <<>> /\ FtpCommands(new) = <<>>
    BY <1>0, <1>1 DEF FtpCommands
  <2>2. Alike(<<>>, <<>>)
    BY DEF Alike
  <2> QED
    BY <2>1, <2>2
<1>2. CASE "ftp" \in DOMAIN raw
  <2>0. PICK found : found = raw.ftp
    OBVIOUS
  <2>1. CASE Flat(raw)
    <3>1. new.ftp = HideInLists(found)
      BY <1>2, <2>0, <2>1 DEF WithoutPassword
    <3>2. \A name \in DOMAIN found : ListOf(found, name) \in Seq(STRING \cup {Null})
      BY <1>2, <2>0, <2>1, Zenon DEF ListsAreLists
    <3>3. /\ FtpCommands(raw) = Pairs(found, TRUE, "command", "arguments")
          /\ FtpCommands(new) = Pairs(HideInLists(found), TRUE, "command", "arguments")
      <4>1. Flat(raw) = TRUE /\ Flat(new) = TRUE
        BY <1>0, <2>1 DEF Flat
      <4> QED
        BY <1>0, <1>2, <2>0, <3>1, <4>1, Zenon DEF FtpCommands
    <3> QED
      BY <3>2, <3>3, ListsAlike
  <2>2. CASE ~Flat(raw)
    <3>1. new.ftp = [i \in DOMAIN found |-> Hide(found[i])]
      BY <1>2, <2>0, <2>2 DEF WithoutPassword
    <3>2. /\ FtpCommands(raw) = Pairs(found, FALSE, "command", "arguments")
          /\ FtpCommands(new) =
                 Pairs([i \in DOMAIN found |-> Hide(found[i])], FALSE, "command", "arguments")
      <4>1. Flat(raw) = FALSE /\ Flat(new) = FALSE
        BY <1>0, <2>2
      <4> QED
        BY <1>0, <1>2, <2>0, <3>1, <4>1, Zenon DEF FtpCommands
    <3> QED
      BY <3>2, ObjectsAlike
  <2> QED
    BY <2>1, <2>2
<1> QED
  BY <1>1, <1>2

\* Counting the elements of a set of places one by one comes by every number.
LEMMA CountReaches ==
    ASSUME NEW m \in Nat, NEW kept \in SUBSET (1 .. m), NEW n \in 1 .. Cardinality(kept)
    PROVE  \E i \in kept : Cardinality(kept \cap 1 .. i) = n
<1> DEFINE count(i) == Cardinality(kept \cap 1 .. i)
           enough == {i \in Nat : count(i) >= n}
<1>1. \A i \in Nat : IsFiniteSet(kept \cap 1 .. i) /\ count(i) \in Nat
  <2> TAKE i \in Nat
  <2>1. IsFiniteSet(1 .. i)
    BY FS_Interval, 1 \in Int, i \in Int
  <2>2. IsFiniteSet(kept \cap 1 .. i)
    BY <2>1, FS_Subset, kept \cap 1 .. i \subseteq 1 .. i
  <2> QED
    BY <2>2, FS_CardinalityType
<1>2. IsFiniteSet(kept) /\ Cardinality(kept) \in Nat
  <2>1. IsFiniteSet(1 .. m)
    BY FS_Interval, 1 \in Int, m \in Int
  <2> QED
    BY <2>1, FS_Subset, FS_CardinalityType
<1>3. m \in enough
  <2>1. kept \cap 1 .. m = kept
    OBVIOUS
  <2> QED
    BY <1>2, <2>1
<1>4. PICK i \in enough : \A j \in enough : i <= j
  <2> HIDE DEF enough
  <2>1. enough \subseteq Nat
    BY DEF enough
  <2> QED
    BY <1>3, <2>1, FirstOf
<1>5. i # 0
  <2>1. kept \cap 1 .. 0 = {}
    OBVIOUS
  <2>2. count(0) = 0
    BY <2>1, FS_EmptySet, Zenon
  <2> QED
    BY <2>2
<1>6. i \in Nat /\ i - 1 \in Nat /\ i - 1 \notin enough
  BY <1>4, <1>5
<1>7. count(i - 1) < n /\ count(i) >= n
  <2>1. count(i - 1) \in Nat
    BY <1>1, <1>6
  <2> HIDE DEF count
  <2>2. n \in Nat
    BY <1>2
  <2>3. ~(count(i - 1) >= n) /\ count(i) >= n
    BY <1>4, <1>6
  <2> QED
    BY <2>1, <2>2, <2>3
<1>8. i \in kept
  <2> SUFFICES ASSUME i \notin kept PROVE FALSE
    OBVIOUS
  <2>1. kept \cap 1 .. i = kept \cap 1 .. i - 1
    BY <1>6
  <2>2. count(i) = count(i - 1)
    BY <2>1, Zenon
  <2> QED
    BY <1>1, <1>6, <1>7, <2>2
<1>9. count(i) = count(i - 1) + 1
  <2>1. kept \cap 1 .. i = (kept \cap 1 .. i - 1) \cup {i}
    BY <1>6, <1>8
  <2>2. i \notin kept \cap 1 .. i - 1
    BY <1>6
  <2>3. Cardinality((kept \cap 1 .. i - 1) \cup {i}) = Cardinality(kept \cap 1 .. i - 1) + 1
    BY <1>1, <1>6, <2>2, FS_AddElement
  <2> QED
    BY <2>1, <2>3
<1>10. count(i) = n
  BY <1>1, <1>6, <1>7, <1>9
<1> QED
  BY <1>8, <1>10

\* The commands at some places, in order.
At(kept, commands) ==
    [n \in 1 .. Cardinality(kept) |->
        commands[CHOOSE i \in kept : Cardinality(kept \cap 1 .. i) = n]]

LEMMA VerbsAlike ==
    ASSUME NEW m \in Nat, NEW P, NEW Q, DOMAIN P = 1 .. m, Alike(P, Q)
    PROVE  Alike(WithVerb(P), WithVerb(Q))
<1>1. PICK kept : kept = {i \in DOMAIN P : Truthy(P[i][1])}
  OBVIOUS
<1>2. kept = {i \in DOMAIN Q : Truthy(Q[i][1])}
  BY <1>1 DEF Alike
<1>3. \A R : WithVerb(R) = At({i \in DOMAIN R : Truthy(R[i][1])}, R)
  BY DEF WithVerb, At
<1>4. WithVerb(P) = At(kept, P)
  BY <1>1, <1>3, Zenon
<1>5. WithVerb(Q) = At(kept, Q)
  BY <1>2, <1>3, Zenon
<1>6. /\ DOMAIN WithVerb(P) = 1 .. Cardinality(kept)
      /\ DOMAIN WithVerb(Q) = 1 .. Cardinality(kept)
  BY <1>4, <1>5 DEF At
<1>7. ASSUME NEW n \in 1 .. Cardinality(kept)
      PROVE  /\ WithVerb(Q)[n][1] = WithVerb(P)[n][1]
             /\ WithVerb(P)[n][1] \in Verbs \/ WithVerb(Q)[n][2] = WithVerb(P)[n][2]
  <2>1. PICK i : i = CHOOSE j \in kept : Cardinality(kept \cap 1 .. j) = n
    OBVIOUS
  <2>2. i \in kept
    <3>1. kept \in SUBSET (1 .. m)
      BY <1>1
    <3>2. \E j \in kept : Cardinality(kept \cap 1 .. j) = n
      BY <3>1, <1>7, CountReaches
    <3> QED
      BY <2>1, <3>2, Zenon
  <2>3. WithVerb(P)[n] = P[i] /\ WithVerb(Q)[n] = Q[i]
    BY <1>4, <1>5, <1>7, <2>1, Zenon DEF At
  <2> QED
    BY <1>1, <2>2, <2>3 DEF Alike
<1> QED
  BY <1>6, <1>7 DEF Alike

\* Of a record of log_json the adapter makes the same without a password.
LEMMA RecordAlike ==
    ASSUME NEW raw, ListsAreLists(raw)
    PROVE  FromConnectionRecord(WithoutPassword(raw)) = FromConnectionRecord(raw)
<1>1. PICK new : new = WithoutPassword(raw)
  OBVIOUS
<1>2. \A key : key \notin {"ftp", "arguments"} => Get(new, key) = Get(raw, key)
  BY <1>1, FieldsStay
<1>3. MintedSessionId(new) = MintedSessionId(raw)
  <2>1. [key \in {"src_ip", "src_port", "dst_ip", "dst_port", "timestamp"} |-> Get(new, key)]
            = [key \in {"src_ip", "src_port", "dst_ip", "dst_port", "timestamp"} |-> Get(raw, key)]
    BY <1>2
  <2> QED
    BY <2>1, Zenon DEF MintedSessionId
<1>4. Credentials(new) = Credentials(raw)
  <2>1. DOMAIN new = DOMAIN raw /\ Flat(new) = Flat(raw)
        /\ ("credentials" \in DOMAIN raw => new.credentials = raw.credentials)
    BY <1>1, FieldsStay
  <2> QED
    BY <2>1, Zenon DEF Credentials
<1>5. PICK ts : ts = ToUtcZ(Get(raw, "timestamp"))
  OBVIOUS
<1>6. PICK connection :
          connection = ConnectionOf(MintedSessionId(raw), Get(raw, "protocol"), Get(raw, "src_ip"))
  OBVIOUS
<1>7. PICK opening :
          opening = Envelope("connection", connection, ts,
                             [destination_ip   |-> Get(raw, "dst_ip"),
                              destination_port |-> Get(raw, "dst_port"),
                              source_port      |-> Get(raw, "src_port")])
  OBVIOUS
<1>8. PICK closing : closing = Envelope("session_end", connection, ts, [status |-> "closed"])
  OBVIOUS
<1>9. PICK found : found = Credentials(raw)
  OBVIOUS
<1>10. PICK logins :
          logins = [i \in DOMAIN found |->
                       Envelope("login_attempt", connection, ts,
                                [username |-> found[i][1], password |-> OrNull(found[i][2])])]
  OBVIOUS
<1>11. PICK verbs : verbs = WithVerb(FtpCommands(raw))
  OBVIOUS
<1>12. PICK fewer : fewer = WithVerb(FtpCommands(new))
  OBVIOUS
<1>13. PICK commands :
          commands = [i \in DOMAIN verbs |->
                         Envelope("command", connection, ts,
                                  [command |-> RenderCommand(verbs[i][1], verbs[i][2])])]
  OBVIOUS
<1>14. commands = [i \in DOMAIN fewer |->
                      Envelope("command", connection, ts,
                               [command |-> RenderCommand(fewer[i][1], fewer[i][2])])]
  <2>1. Alike(FtpCommands(raw), FtpCommands(new))
    BY <1>1, CommandsAlike
  <2>2. \E n \in Nat : DOMAIN FtpCommands(raw) = 1 .. n
    <3>1. CASE "ftp" \in DOMAIN raw
      BY <3>1, ListOfHasLength DEF FtpCommands
    <3>2. CASE "ftp" \notin DOMAIN raw
      <4>1. DOMAIN FtpCommands(raw) = 1 .. 0
        BY <3>2 DEF FtpCommands
      <4> QED
        BY <4>1
    <3> QED
      BY <3>1, <3>2
  <2>3. Alike(verbs, fewer)
    BY <1>11, <1>12, <2>1, <2>2, VerbsAlike
  <2>4. \A i \in DOMAIN verbs :
            RenderCommand(fewer[i][1], fewer[i][2]) = RenderCommand(verbs[i][1], verbs[i][2])
    BY <2>3, RenderedAlike DEF Alike
  <2>5. DOMAIN fewer = DOMAIN verbs
    BY <2>3 DEF Alike
  <2> QED
    BY <1>13, <2>4, <2>5
<1>15. PICK refused \in BOOLEAN :
           refused = (\/ Get(raw, "type") \notin {"accept", "reject"}
                      \/ ts = Null
                      \/ ~Shippable(Get(raw, "protocol"), Get(raw, "src_ip")))
  OBVIOUS
<1>16. FromConnectionRecord(raw) =
           IF refused THEN <<>> ELSE <<opening>> \o logins \o commands \o <<closing>>
  BY <1>5, <1>6, <1>7, <1>8, <1>9, <1>10, <1>11, <1>13, <1>15, Zenon DEF FromConnectionRecord
<1>17. /\ ts = ToUtcZ(Get(new, "timestamp"))
       /\ connection = ConnectionOf(MintedSessionId(new), Get(new, "protocol"), Get(new, "src_ip"))
       /\ opening = Envelope("connection", connection, ts,
                             [destination_ip   |-> Get(new, "dst_ip"),
                              destination_port |-> Get(new, "dst_port"),
                              source_port      |-> Get(new, "src_port")])
       /\ found = Credentials(new)
       /\ refused = (\/ Get(new, "type") \notin {"accept", "reject"}
                     \/ ts = Null
                     \/ ~Shippable(Get(new, "protocol"), Get(new, "src_ip")))
  BY <1>2, <1>3, <1>4, <1>5, <1>6, <1>7, <1>9, <1>15
<1>18. FromConnectionRecord(new) =
           IF refused THEN <<>> ELSE <<opening>> \o logins \o commands \o <<closing>>
  BY <1>8, <1>10, <1>12, <1>14, <1>17, Zenon DEF FromConnectionRecord
<1> QED
  BY <1>1, <1>16, <1>18

\* And of a line of log_incident that does not end its session, whatever it remembers.
LEMMA IncidentAlike ==
    ASSUME NEW starts, NEW others, NEW raw, "origin" \in DOMAIN raw,
           NEW i \in DOMAIN FromIncident(starts, raw),
           FromIncident(starts, raw)[i].event_type # "session_end"
    PROVE  FromIncident(starts, raw)[i] = FromIncident(others, WithoutPassword(raw))[i]
<1>1. PICK new : new = WithoutPassword(raw)
  OBVIOUS
<1>2. /\ \A key : key \notin {"ftp", "arguments"} =>
              /\ Get(new, key) = Get(raw, key)
              /\ key \in DOMAIN raw => new[key] = raw[key]
      /\ Get(raw, "command") \in Verbs \/ Get(new, "arguments") = Get(raw, "arguments")
  BY <1>1, FieldsStay
<1>3. new.origin = raw.origin
  BY <1>2
<1>4. Representable(new) <=> Representable(raw)
  BY <1>2, <1>3 DEF Representable
<1>5. PICK ts : ts = ToUtcZ(Get(raw, "timestamp")) /\ ts = ToUtcZ(Get(new, "timestamp"))
  BY <1>2
<1>6. PICK d : d = IncidentDetails(starts, raw, ts)
  OBVIOUS
<1>7. PICK d2 : d2 = IncidentDetails(others, new, ts)
  OBVIOUS
<1>8. PICK type : type = IncidentTypes[raw.origin]
  OBVIOUS
<1>9. PICK whence : whence = ConnectionOf(raw.id, Get(raw, "protocol"), Get(raw, "remote_ip"))
  OBVIOUS
<1>10. PICK skipped \in BOOLEAN : skipped = (raw.origin = "command" /\ d.command = Null)
  OBVIOUS
<1>11. FromIncident(starts, raw) =
           IF ~Representable(raw) \/ skipped THEN <<>> ELSE <<Envelope(type, whence, ts, d)>>
  BY <1>5, <1>6, <1>8, <1>9, <1>10 DEF FromIncident
<1>12. DOMAIN <<>> = {}
  OBVIOUS
<1>13. /\ Representable(raw) /\ ~skipped
       /\ FromIncident(starts, raw) = <<Envelope(type, whence, ts, d)>>
  BY <1>11, <1>12
<1>14. raw.origin \in KnownOrigins \ {"free"}
  <2>1. i = 1
    BY <1>13
  <2>2. Envelope(type, whence, ts, d).event_type = type
    BY DEF Envelope
  <2>3. type # "session_end"
    BY <1>13, <2>1, <2>2
  <2> QED
    BY <1>8, <1>13, <2>3 DEF Representable, KnownOrigins, IncidentTypes
<1>15. new.id = raw.id
  <2>1. Get(raw, "id") # Null
    BY <1>13 DEF Representable, Truthy
  <2>2. "id" \in DOMAIN raw
    BY <2>1 DEF Get
  <2> QED
    BY <1>2, <2>2
<1>16. d2 = d
  <2>1. RenderCommand(Get(new, "command"), Get(new, "arguments"))
            = RenderCommand(Get(raw, "command"), Get(raw, "arguments"))
    BY <1>2, RenderedAlike
  <2>2. CASE raw.origin = "connection"
    BY <1>2, <1>3, <1>6, <1>7, <2>2, Zenon DEF IncidentDetails
  <2>3. CASE raw.origin = "login"
    BY <1>2, <1>3, <1>6, <1>7, <2>3, Zenon DEF IncidentDetails
  <2>4. CASE raw.origin = "command"
    BY <1>3, <1>6, <1>7, <2>1, <2>4, Zenon DEF IncidentDetails
  <2>5. CASE raw.origin = "download"
    BY <1>2, <1>3, <1>6, <1>7, <2>5, Zenon DEF IncidentDetails
  <2> QED
    BY <1>14, <2>2, <2>3, <2>4, <2>5 DEF KnownOrigins
<1>17. FromIncident(others, new) = <<Envelope(type, whence, ts, d)>>
  <2>1. whence = ConnectionOf(new.id, Get(new, "protocol"), Get(new, "remote_ip"))
    BY <1>2, <1>9, <1>15
  <2>2. type = IncidentTypes[new.origin] /\ skipped = (new.origin = "command" /\ d2.command = Null)
    BY <1>3, <1>8, <1>10, <1>16
  <2>3. FromIncident(others, new) =
            IF ~Representable(new) \/ skipped THEN <<>> ELSE <<Envelope(type, whence, ts, d2)>>
    BY <1>5, <1>7, <2>1, <2>2 DEF FromIncident
  <2> QED
    BY <1>4, <1>13, <1>16, <2>3
<1> QED
  BY <1>1, <1>13, <1>17

\* What an attacker types after FTP's PASS is in no event of dionaea's adapter, live or in a
\* backfill, whatever the line and its format: the adapter makes the same of the line without
\* (render_command).
THEOREM NoPasswordLeaves == Spec => []PasswordsStayInLogins
<1>1. TypeInv /\ TimesOK => PasswordsStayInLogins
  <2> SUFFICES ASSUME TypeInv, TimesOK, honeypot = "dionaea", NEW p \in Processes,
                      NEW i \in DOMAIN p.made, p.made[i].event_type # "session_end"
               PROVE  p.made[i] = BuildEnvelopes("dionaea", <<>>, WithoutPassword(Last(p.read)))[i]
    BY Zenon DEF PasswordsStayInLogins
  <2>1. p = adapter \/ (p = run /\ run # Idle)
    BY DEF Processes, Idle
  <2>2. Timed(p.read, p.starts, p.made)
    BY <2>1 DEF TimesOK, AdapterTimed, RunTimed
  <2>3. PICK made : made = p.made
    OBVIOUS
  <2>4. made # <<>>
    <3>1. DOMAIN <<>> = {}
      OBVIOUS
    <3> QED
      BY <2>3, <3>1
  <2>5. PICK L : L = Lines(honeypot)
    OBVIOUS
  <2>6. PICK before, earlier, raw :
            /\ before \in Seq(L) /\ raw \in L \ {Junk}
            /\ p.read = Append(before, raw)
            /\ made = BuildEnvelopes(honeypot, earlier, raw)
    BY <2>2, <2>3, <2>4, <2>5 DEF Timed
  <2>7. Last(p.read) = raw
    BY <2>6, FrontAndLast
  <2>8. DOMAIN WithoutPassword(raw) = DOMAIN raw
    BY FieldsStay
  <2>9. CASE "origin" \in DOMAIN raw
    <3>1. made = FromIncident(earlier, raw)
      BY <2>6, <2>9 DEF BuildEnvelopes
    <3>2. BuildEnvelopes("dionaea", <<>>, WithoutPassword(raw))
              = FromIncident(<<>>, WithoutPassword(raw))
      BY <2>8, <2>9 DEF BuildEnvelopes
    <3>3. i \in DOMAIN made /\ made[i].event_type # "session_end"
      BY <2>3
    <3>4. made[i] = FromIncident(<<>>, WithoutPassword(raw))[i]
      BY <2>9, <3>1, <3>3, IncidentAlike
    <3> QED
      BY <2>3, <2>7, <3>2, <3>4
  <2>10. CASE "origin" \notin DOMAIN raw
    <3>1. made = FromConnectionRecord(raw)
      BY <2>6, <2>10 DEF BuildEnvelopes
    <3>2. BuildEnvelopes("dionaea", <<>>, WithoutPassword(raw))
              = FromConnectionRecord(WithoutPassword(raw))
      BY <2>8, <2>10 DEF BuildEnvelopes
    <3>3. ListsAreLists(raw)
      BY <2>5, <2>6, LogAssumption DEF TypeInv, LogOK
    <3>4. made = FromConnectionRecord(WithoutPassword(raw))
      BY <3>1, <3>3, RecordAlike
    <3> QED
      BY <2>3, <2>7, <3>2, <3>4
  <2> QED
    BY <2>9, <2>10
<1> QED
  BY <1>1, Clocked, PTL
=============================================================================
