------------------------------- MODULE Backfill -------------------------------
(***************************************************************************)
(* One sensor's log, the adapter that maps it as it grows, and the one-off *)
(* program that ships what is on disk (shipper/run.py, shipper/backfill.py *)
(* and the two nodes' mappers in Adapters).                                *)
(*                                                                         *)
(* The log is a sequence of what its files hold, the live one last.        *)
(* Cowrie renames the live file to a dated name that stays; dionaea's is   *)
(* rotated by logrotate's copytruncate, which copies it to archive 1,      *)
(* empties it in place, and moves every older archive up by one.  A name   *)
(* is only looked up when its file is opened.                              *)
(* The adapter starts at the end of the log and sees what is written while *)
(* it is up (module Tail); how its events travel is module Pipeline's.     *)
(***************************************************************************)
EXTENDS Adapters, FiniteSets

CONSTANTS
    Raws,       \* the lines each honeypot may write: [honeypot -> set of lines]
    Histories,  \* what may be on disk to begin with, likewise
    Junk,       \* a line that is not JSON, or no object
    Cutoffs,    \* values of --since
    BatchSize,  \* --batch-size, at most the collector's MAX_BATCH_SIZE
    MaxLines,   \* bound on the lines written
    MaxFiles,   \* bound on the files, the live one included
    MaxFault    \* bound on failed or killed runs and stops of the adapter

ASSUME BackfillAssumption ==
    /\ {MaxLines, MaxFiles, MaxFault} \subseteq Nat
    /\ BatchSize \in Nat \ {0}
    /\ Cutoffs \subseteq Nat
    /\ DOMAIN Histories = DOMAIN Raws
    /\ DOMAIN Raws \subseteq {"cowrie", "dionaea"}
    \* "rotate 7", so that no archive is deleted, and none has two digits: the
    \* names are sorted as strings, and 10 would come before 2.
    /\ "dionaea" \in DOMAIN Raws => MaxFiles <= 8

\* The lines of a honeypot's log.
Lines(h) ==
    Raws[h] \cup {Junk} \cup UNION {UNION {Range(log[f]) : f \in DOMAIN log} : log \in Histories[h]}

\* Where the lines are: a file and a place in it.
PlacesIn(log) == UNION {{f} \X DOMAIN log[f] : f \in DOMAIN log}

ASSUME LogAssumption ==
    \A h \in DOMAIN Raws :
        /\ \A raw \in Lines(h) \ {Junk} :
               /\ Get(raw, "timestamp") \in {Null} \cup [form : STRING, at : Nat]
               /\ h = "dionaea" => ListsAreLists(raw)
        /\ \A log \in Histories[h] :
               /\ log \in Seq(Seq(Lines(h)))
               /\ Len(log) \in 1 .. MaxFiles /\ Cardinality(PlacesIn(log)) <= MaxLines

Live == 0

Idle == [pc |-> "idle"]

VARIABLES
    honeypot,  \* which of the two this sensor runs
    files,     \* what each file holds, oldest first
    adapter,   \* the live process: is it up, its starts, the lines it has read
    run,       \* the backfill in progress, or how the last one ended
    stored,    \* backfilled rows of `events`; raw and place say what each is of
    faults

vars == <<honeypot, files, adapter, run, stored, faults>>

Places == PlacesIn(files)

LineAt(place) == files[place[1]][place[2]]

Init ==
    /\ honeypot \in DOMAIN Raws
    /\ files \in Histories[honeypot]
    /\ adapter = [up |-> TRUE, starts |-> <<>>, read |-> <<>>, made |-> <<>>]
    /\ run = Idle
    /\ stored = {}
    /\ faults = 0

-----------------------------------------------------------------------------
(* The honeypot and its adapter *)

\* A process that has read one more line: what it makes of it, and what it
\* remembers.  (run_sensor and main skip junk alike.)
AfterLine(process, raw) ==
    IF raw = Junk THEN [process EXCEPT !.read = Append(@, Junk), !.made = <<>>]
    ELSE [process EXCEPT !.made = BuildEnvelopes(honeypot, process.starts, raw),
                         !.starts = StartsAfter(honeypot, process.starts, raw),
                         !.read = Append(@, raw)]

MomentOf(raw) == IF raw = Junk \/ Get(raw, "timestamp") = Null THEN 0 ELSE raw.timestamp.at

\* A line is dated no earlier than the lines before it.
Write(raw) ==
    /\ Cardinality(Places) < MaxLines
    /\ \A place \in Places : raw = Junk \/ MomentOf(LineAt(place)) <= MomentOf(raw)
    /\ files' = [files EXCEPT ![Len(files)] = Append(@, raw)]
    /\ adapter' = IF adapter.up THEN AfterLine(adapter, raw) ELSE adapter
    /\ UNCHANGED <<honeypot, run, stored, faults>>

\* An archive's name is its date (here its place), or how many are newer.
DatedNames == honeypot = "cowrie"

\* The run still has a name to open that this moves, or its file is emptied.
Disturbed ==
    IF DatedNames THEN Live \in run.paths ELSE run.paths # {} \/ run.file = Len(files)

Emptied == ~DatedNames /\ run.file = Len(files)

\* Noted in a run that it disturbs.
Rotate ==
    /\ Len(files) < MaxFiles /\ files[Len(files)] # <<>>
    /\ files' = Append(files, <<>>)
    /\ run' = IF run.pc \in {"open", "read", "post"}
              THEN [run EXCEPT !.rotated = @ \/ Disturbed, !.cut = @ \/ Emptied] ELSE run
    /\ UNCHANGED <<honeypot, adapter, stored, faults>>

StopAdapter ==
    /\ adapter.up /\ faults < MaxFault
    /\ adapter' = [up |-> FALSE, starts |-> <<>>, read |-> <<>>, made |-> <<>>]
    /\ faults' = faults + 1
    /\ UNCHANGED <<honeypot, files, run, stored>>

StartAdapter ==
    /\ ~adapter.up
    /\ adapter' = [adapter EXCEPT !.up = TRUE]
    /\ UNCHANGED <<honeypot, files, run, stored, faults>>

-----------------------------------------------------------------------------
(* A backfill *)

AllNames == {Live} \cup 1 .. Len(files) - 1

\* Mutant: names in their own order, the live file's first.
EarliestByName(paths) == Min(paths)

\* log_files sorts archives by their suffix, the file without one last: what comes
\* first of the paths left.  The oldest of the dated ones, the newest of the numbered.
Earliest(paths) == IF paths = {Live} THEN Live ELSE Min(paths \ {Live})

Opened(name) ==
    IF name = Live THEN Len(files) ELSE IF DatedNames THEN name ELSE Len(files) - name

\* Mutants: the index is left out; what is hashed is what the mapper made.
StableIdOfLine(raw, place, envelope) == <<raw, 1>>

StableIdOfEnvelope(raw, place, envelope) == <<envelope, place>>

\* stable_event_id, of the line and the event's place among those it makes.
StableId(raw, place, envelope) == <<raw, place>>

\* envelope["event_id"] = ..., the one field a mapper leaves off.
Identified(envelope, id) ==
    [field \in DOMAIN envelope \cup {"event_id"} |->
        IF field = "event_id" THEN id ELSE envelope[field]]

WithinSince(ts, since) ==
    since = Null \/ ts = Null \/ ts.form \notin ParsedForms \/ ts.at >= since

\* main's arguments: which files, --since and --dry-run.
Start(names, since, dry) ==
    /\ run.pc \in {"idle", "done"}
    /\ names # {}
    /\ run' = [pc      |-> "open",  since |-> since,  dry  |-> dry,
               paths   |-> names,
               file    |-> 0,       line  |-> 0,
               starts  |-> <<>>,    read  |-> <<>>,   made |-> <<>>, places |-> <<>>,
               next    |-> 1,
               batch   |-> <<>>,    seen  |-> {},
               due     |-> IF names = AllNames /\ ~dry /\ since = Null
                           THEN {LineAt(place) : place \in Places} \ {Junk} ELSE {},
               rotated |-> FALSE,   cut |-> FALSE,   failed |-> {}]
    /\ UNCHANGED <<honeypot, files, adapter, stored, faults>>

Open ==
    /\ run.pc = "open"
    /\ run' = [run EXCEPT !.pc = "read", !.line = 0, !.file = Opened(Earliest(run.paths)),
                          !.paths = @ \ {Earliest(@)}, !.cut = FALSE]
    /\ UNCHANGED <<honeypot, files, adapter, stored, faults>>

\* All the envelopes of the last line have been looked at.
LineDone == run.pc = "read" /\ run.next > Len(run.made)

ReadLine ==
    /\ LineDone /\ run.line < Len(files[run.file])
    /\ run' = [AfterLine(run, files[run.file][run.line + 1]) EXCEPT
                   !.line = @ + 1, !.next = 1,
                   !.places = Append(@, <<run.file, run.line + 1>>)]
    /\ UNCHANGED <<honeypot, files, adapter, stored, faults>>

\* A file that was emptied ends where it stood, or after the lines in the buffer.
EndOfFile ==
    /\ LineDone /\ (run.line = Len(files[run.file]) \/ run.cut)
    /\ run' = [run EXCEPT !.pc = IF run.paths = {} THEN "last" ELSE "open"]
    /\ UNCHANGED <<honeypot, files, adapter, stored, faults>>

\* It has grown again, beyond the place that was reached in it: the handle reads on
\* from there.  (The rest of a line is no JSON.)
ReadOn ==
    /\ LineDone /\ run.cut
    /\ \E skip \in (IF run.line = 0 THEN 0 ELSE 1) .. Len(files[Len(files)]) :
           run' = [run EXCEPT !.file = Len(files), !.line = skip, !.cut = FALSE]
    /\ UNCHANGED <<honeypot, files, adapter, stored, faults>>

\* Mutant: the batch may grow one beyond its size.
FullTooLate(batch) == Len(batch) > BatchSize

Full(batch) == Len(batch) >= BatchSize

\* The next envelope of the line: --since, the ids already seen, the contract.
Consider ==
    LET raw == run.read[Len(run.read)]
        id == StableId(raw, run.next, run.made[run.next])
        envelope == Identified(run.made[run.next], id)
        item == [id |-> id, raw |-> raw, place |-> run.next, envelope |-> envelope]
        inside == WithinSince(envelope.timestamp, run.since)
        fresh == inside /\ id \notin run.seen
        batch == IF fresh /\ BackfillAccepts(envelope) THEN Append(run.batch, item)
                                                       ELSE run.batch
    IN  /\ run.pc = "read" /\ ~LineDone
        /\ run' = [run EXCEPT !.next = @ + 1, !.batch = batch,
                              !.seen = IF inside THEN @ \cup {id} ELSE @,
                              !.pc = IF batch # run.batch /\ Full(batch) THEN "post" ELSE "read"]
        /\ UNCHANGED <<honeypot, files, adapter, stored, faults>>

Sent == {run.batch[i] : i \in DOMAIN run.batch}

BatchAccepted == \A item \in Sent : ModelAccepts(item.envelope)

\* INSERT OR IGNORE of each event that passes storage's own check.
StoredWith(items) ==
    stored \cup {item \in items : /\ StorageAccepts(item.envelope)
                                  /\ \A row \in stored : row.id # item.id}

\* flush: a dry run only forgets the batch.  When the model refuses one of the
\* events nothing of the batch is stored, and the answer ends the run.
Flush ==
    /\ run.pc \in {"post", "last"}
    /\ stored' = IF run.dry \/ ~BatchAccepted THEN stored ELSE StoredWith(Sent)
    /\ run' = IF ~run.dry /\ ~BatchAccepted THEN Idle
              ELSE [run EXCEPT !.batch = <<>>, !.pc = IF @ = "post" THEN "read" ELSE "done"]
    /\ UNCHANGED <<honeypot, files, adapter, faults>>

\* apply_events meets a StorageError for some of the events and counts them as
\* rejected in an answer of 200: to the run a batch like any other.
SomeRejected ==
    /\ run.pc \in {"post", "last"} /\ ~run.dry /\ BatchAccepted /\ faults < MaxFault
    /\ \E failed \in SUBSET Sent \ {{}} :
           /\ stored' = StoredWith(Sent \ failed)
           /\ run' = [run EXCEPT !.batch = <<>>, !.failed = @ \cup failed,
                                 !.pc = IF @ = "post" THEN "read" ELSE "done"]
    /\ faults' = faults + 1
    /\ UNCHANGED <<honeypot, files, adapter>>

\* The collector cannot be reached, or fails or stops being heard from after
\* it has stored some of the events: SystemExit too.
PostFails ==
    /\ run.pc \in {"post", "last"} /\ ~run.dry /\ run.batch # <<>> /\ faults < MaxFault
    /\ \E items \in SUBSET Sent :
           stored' = IF BatchAccepted THEN StoredWith(items) ELSE stored
    /\ run' = Idle
    /\ faults' = faults + 1
    /\ UNCHANGED <<honeypot, files, adapter>>

\* Also when a name listed before is missing as logrotate moves the archives.
Interrupted ==
    /\ run.pc \notin {"idle", "done"} /\ faults < MaxFault
    /\ run' = Idle
    /\ faults' = faults + 1
    /\ UNCHANGED <<honeypot, files, adapter, stored>>

Next ==
    \/ \E raw \in Raws[honeypot] \cup {Junk} : Write(raw)
    \/ Rotate \/ StopAdapter \/ StartAdapter
    \/ \E names \in SUBSET AllNames, since \in Cutoffs \cup {Null}, dry \in BOOLEAN :
           Start(names, since, dry)
    \/ Open \/ ReadLine \/ EndOfFile \/ ReadOn \/ Consider
    \/ Flush \/ SomeRejected \/ PostFails \/ Interrupted

Spec == Init /\ [][Next]_vars

-----------------------------------------------------------------------------

RunPcs == {"idle", "open", "read", "post", "last", "done"}

\* A run only ever holds a batch the collector takes, and each of its ids once;
\* neither process tracks more sessions than it may.
TypeOK ==
    /\ honeypot \in DOMAIN Raws
    /\ Cardinality(Places) <= MaxLines /\ Len(files) \in 1 .. MaxFiles
    /\ adapter.up \in BOOLEAN /\ Len(adapter.starts) <= MaxTracked
    /\ faults \in 0 .. MaxFault
    /\ run.pc \in RunPcs
    /\ run.pc # "idle" =>
           /\ Len(run.batch) <= BatchSize /\ Len(run.starts) <= MaxTracked
           /\ {item.id : item \in Sent} \subseteq run.seen
           /\ run.pc = "open" => run.paths # {}
           /\ run.pc \in {"read", "post", "last"} => run.file \in DOMAIN files

\* However often the program is run, over which files, from which cutoff and
\* wherever it was stopped, no event of the log gets a second backfilled row
\* ("Safe to run twice", backfill.py).
OneCopyEach ==
    \A r1, r2 \in stored : r1.raw = r2.raw /\ r1.place = r2.place => r1 = r2

\* The events of the line that the collector would store, by their place.
Acceptable(raw) ==
    LET made == BuildEnvelopes(honeypot, <<>>, raw)
    IN  {k \in DOMAIN made :
            LET e == Identified(made[k], k) IN ModelAccepts(e) /\ StorageAccepts(e)}

IsStored(raw, k) == \E row \in stored : row.raw = raw /\ row.place = k

\* A run over everything that has come to its end has left none of the events
\* that were on disk when it began, but those that storage failed on and the
\* collector named in a count only, and unless the log was rotated under it: a
\* name then leads to another file, or the file being read is emptied.
BackfillComplete ==
    run.pc = "done" /\ ~run.rotated =>
        \A raw \in run.due : \A k \in Acceptable(raw) :
            IsStored(raw, k) \/ \E item \in run.failed : item.raw = raw /\ item.place = k

\* No batch of a backfill holds an event for which the model would refuse the
\* whole batch, whatever the honeypot logged.
NoBatchRefused == run.pc # "idle" => BatchAccepted

\* Of two files read, the one that log_files' order puts first: the older, or of
\* numbered archives the newer, and a newest file after them.
ReadBefore(f, g) ==
    IF DatedNames THEN f < g ELSE g < f \/ \A place \in Range(run.places) : place[1] <= g

\* No line is read twice or before one above it, and each file is left for good before
\* the next.  Dated ones are read oldest first whatever is renamed on the way; numbered
\* archives are not, unless there is but one: newest first, while none is renamed, and
\* the live file last.  A session's end finds its start by this order.
FilesInTurn ==
    run.pc # "idle" /\ (DatedNames \/ ~run.rotated) =>
        \A i, j \in DOMAIN run.places : i < j =>
            LET a == run.places[i]  b == run.places[j]
            IN  IF a[1] = b[1] THEN a[2] < b[2] ELSE ReadBefore(a[1], b[1])

Processes == {adapter} \cup IF run.pc = "idle" THEN {} ELSE {run}

\* The verbs of FTP's PASS, in any case of letters.
Verbs == {"PASS", "pass", "Pass"}

\* A command, or commands as an object of lists, with nothing after PASS.
Hide(command) ==
    [key \in DOMAIN command |->
        IF key = "arguments" /\ Get(command, "command") \in Verbs THEN Null ELSE command[key]]

HideInLists(found) ==
    LET verbs == ListOf(found, "command")
        texts == ListOf(found, "arguments")
    IN  [key \in DOMAIN found |->
            IF key = "arguments"
            THEN [i \in DOMAIN texts |->
                     IF i \in DOMAIN verbs /\ verbs[i] \in Verbs THEN Null ELSE texts[i]]
            ELSE found[key]]

\* The same line, had the attacker typed nothing there.
WithoutPassword(raw) ==
    [key \in DOMAIN raw |->
        IF key # "ftp" THEN Hide(raw)[key]
        ELSE IF Flat(raw) THEN HideInLists(raw.ftp)
             ELSE [i \in DOMAIN raw.ftp |-> Hide(raw.ftp[i])]]

\* What an attacker typed after FTP's PASS is in nothing that dionaea's adapter makes
\* of the line, from either log: it makes the same of the line without.  (What ends a
\* session has no text in it; DurationsAreTrue is about its duration.)
PasswordsStayInLogins ==
    honeypot = "dionaea" =>
        \A p \in Processes : \A i \in DOMAIN p.made :
            p.made[i].event_type # "session_end" =>
                p.made[i] = BuildEnvelopes("dionaea", <<>>, WithoutPassword(Last(p.read)))[i]

\* A line of log_incident that is not skipped, of that origin.
IsIncident(raw, origin) ==
    raw # Junk /\ "origin" \in DOMAIN raw /\ raw.origin = origin /\ Representable(raw)

\* The lines read that open the session, since the last that ended it.
Opens(read, s) ==
    {i \in DOMAIN read :
        /\ IsIncident(read[i], "connection") /\ read[i].id = s
        /\ \A j \in i .. Len(read) : ~(IsIncident(read[j], "free") /\ read[j].id = s)}

\* How many connections there were since.
Tracked(read, i) ==
    Cardinality({j \in i + 1 .. Len(read) : IsIncident(read[j], "connection")})

\* The duration a session ends with is that since this process saw it open
\* last; it is missing only when it did not, or when so many connections came
\* since that the limit on the tracked ones may have dropped it.
DurationsAreTrue ==
    \A p \in Processes : \A i \in DOMAIN p.made :
        /\ honeypot = "dionaea" /\ p.made[i].event_type = "session_end"
        /\ "origin" \in DOMAIN Last(p.read)
        => LET e == p.made[i]
               before == Front(p.read)
               opens == Opens(before, e.session_id)
           IN  IF "duration_seconds" \in DOMAIN e.details
               THEN /\ opens # {}
                    /\ e.details.duration_seconds =
                           e.timestamp.at - before[Max(opens)].timestamp.at
               ELSE opens = {} \/ Tracked(before, Min(opens)) >= MaxTracked
=============================================================================
