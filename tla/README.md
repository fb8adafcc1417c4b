# TIADH in TLA+

TIADH collects what attackers do on distributed honeypots: sensors tail a
honeypot's log and ship events to a collector, a SQLite database keeps them,
rules turn them into alerts, an enricher scores addresses, an exporter writes a
feed and a dashboard shows all of it. This directory holds TLA+ models of the
parts of it that keep state while several things happen at once, the TLC
configurations that check them, and TLAPS proofs of what matters most.

Paths below are relative to the repository (`src/` in `PROJECT.json`).

## 1. Inventory

| Component | State it keeps | Operations | Talks to |
|---|---|---|---|
| Tailer (`nodes/shipper/.../tail.py`) | open file, offset, partial line | open, read lines, notice rotation or truncation | the honeypot's log; yields to the main loop |
| Sensor loop (`run.py`, `validator.py`, `settings.py`) | counters | mint an id, validate, submit | tailer, adapter, shipper |
| Adapters (`nodes/cowrie`, `nodes/dionaea`) | none / a bounded map of session starts | log record -> envelopes | sensor loop |
| Shipper (`ship.py`) | queue, batch, spool file | submit, heartbeat, batch, post, save, retry | collector over HTTP |
| Backfill (`backfill.py`) | ids seen, one batch | re-send the logs with stable ids | adapters, collector over HTTP |
| Collector (`core/collector`) | none of its own | authenticate, admit, apply a batch, housekeeping | storage |
| Storage (`common/db`) | tables nodes, events, sessions, reputation, alerts; schema version | create and migrate the schema; one transaction per method | everybody on the aggregator |
| Alert engine (`common/alerting`) | alerts | evaluate seven rules over a window, persist with cooldown | storage |
| Enricher (`core/enricher`) | address cache, reputation | select, look up, score, upsert | storage, two web services |
| Exporter (`common/export`) | feed files | build, scrub, write JSON, CSV, STIX | storage |
| Orchestrator (`core/main.py`) | none | one-off commands, `watch`, `serve` (collector, cycle and enricher threads) | all of the above |
| Configuration (`common/config.py`) | environment | find and merge .env files | everybody |
| Dashboard (`dashboard/`) | none; one write: alert status | queries and pages | storage, read-only |

What makes each of them correct, and hard to get right:

* **Shipper, collector.** An event that was submitted must reach the database
  once. Posts time out while the collector is still working, answers get lost,
  both sides crash, the disk fills up. The sender thread keeps a batch only in
  memory, in the spool, or on the wire, and must never let go of it in between.
* **Storage.** Events arrive in any order, more than once, from several request
  threads, with sweeps of stale sessions and nodes between them. The derived
  tables must be what the event log says, whatever that order was.
* **Tailer.** No line lost, none read twice, across rotation and truncation.
* **Alerts.** Each incident alerted once per cooldown, also with an engine in `serve`
  and another started by hand, and operators who open alerts again; late events
  still seen.
* **Enricher.** Every public address scored in the end; scores not lost.
* **Exporter.** Each of a feed's two queries publishes what was publishable while it
  was built; the files agree with the tables in the end; no secrets.
* **Contract.** Four different checks (the sensor's validator, backfill's, the
  request model, storage) must agree, or an event dies between two of them.
* **Backfill.** Safe to run twice, over logs that rotate meanwhile, stopped
  anywhere; nothing left out that storage could take and no rotation moved away; no
  event that costs the batch it is in.
* **Adapters.** A session's duration is paired across two lines by a bounded map;
  a password typed as an FTP command must not leave as a command.
* **Schema.** Every process that writes initialises it at its start, several at
  once beside a running collector, and its migration is not one transaction.

`PROJECT.json` lists every component with its status, and under `hazards` each
place where one of these can go wrong, with the properties that look at it.

## 2. Modules

| Module | What it is |
|---|---|
| `Storage` | the write path of nodes, events and sessions; one action per transaction |
| `Schema` | initialisation and migration of the database, statement by statement |
| `Shipper` | the sensor's queue, sender thread and spool |
| `Pipeline` | `Shipper` with the network and the collector |
| `DeliveryLedger` | what the pipeline promises of each event: unborn, held, stored or lost |
| `Tail` | the log tailer against a honeypot that writes, renames and empties its log |
| `Contract` | the four checks an event meets between the adapter and the database |
| `Adapters` | both honeypots' mappers from log lines to events; extends `Contract` |
| `Backfill` | a log, its live adapter and the program that ships what is on disk; extends `Adapters` |
| `Alerts` | the rules and the passes of the alert engine over events that keep arriving |
| `Enricher` | the enricher's workers, their caches and the reputation table |
| `Feed` | exporters that build and write the feed from tables that change |
| `MCStorage`, `MCSchema`, `MCPipeline`, `MCTail`, `MCBackfill`, `MCAlerts`, `MCEnricher`, `MCFeed` | each of them for TLC |
| `StorageProofs`, `SchemaProofs`, `PipelineProofs`, `TailProofs`, `BackfillProofs`, `AlertsProofs`, `EnricherProofs`, `FeedProofs` | what is proved of each of them |

The modules share no variables, and what one needs of another it takes in the
weakest form: `Alerts` and `Feed` let an event, a score or an alert appear at any
moment, `Backfill` lets a post fail after any part of a batch was stored, and
`Pipeline` needs of storage only which ids it has.

### Storage

`events`, `nodes` and `sessions` are the three tables as functions from primary
key to row or `NoRow`; `now` is SQLite's clock. `ApplyEvent(i, e)` is
`Database.apply_event` for an accepted event: the insert, `_touch_node` and
`_derive_session` in one step, because one transaction holds them.
`ApplyDuplicate` is the early `return "duplicate"`, which still commits the
insert of a node row. `UpsertNode`, `MarkStaleNodesOffline` and
`CloseStaleSessions` are the methods of those names. An event is any envelope
that `validate_event` lets through, so the model covers every order of arrival
and every timestamp, also one ahead of the clock. The five event types that open
or continue a session are one type, `activity`; a session_end is told apart by
the outcome it records. `attacker_ip` and `protocol` are kept from the first
event like `node`, and `password` from the last like `username`; these columns
are left out. Timestamps are numbers: `normalize_timestamp` gives the stored
strings one width, so that comparing them is comparing times.

### Shipper and Pipeline

`Shipper` has one action per thing the sender thread can do next: `Get` or
`GetTimesOut`, then `Flush` or `Wait`, then `LoadAndClear` or `NoRetry`, then
round again. `Flush` and `LoadAndClear` begin a post; `Sent` is any HTTP response
and `SendFails` any `RequestException`, after which `SavePending` appends the
batch to the spool. Deadlines are nondeterministic: whenever the loop asks
whether one has passed, both answers are possible, except that a full batch is
always sent. The spool is the list of its readable lines plus `tail`, its last
line if that has no newline; `Written(k, cut)` is an append that stopped after
`k` lines and a piece, and glues onto an unterminated line what comes next. Lines
that do not parse are skipped when loading, so a line, once garbled, leaves
nothing to model.

`Pipeline` adds the request in progress (`phase`, `todo`, `failed`, `code`), the
requests the sensor has given up on and the collector has not (`late`), and the
ids in the events table (`stored`). `Admissible` is what the collector lets in:
at most `CollectorMax` events, each of which parses; a wrong key (401) or a wrong
node id (403) would be refused in the same way and is not told apart. `Apply` is
one transaction; `ApplyFails` an event that `apply_events` counts as rejected,
for a ValidationError or a StorageError; `ServerError` an exception it does not
catch. `GiveUp` is the sensor's side of a lost request, a lost answer or a
timeout: the collector may never see the request or may finish it in `late`.
`Faults` says which crashes and errors the environment has. `exposed` is a
history variable: the events that were where a fault struck.

`DeliveryLedger` is the promise without the mechanism. `Pipeline!KeepsLedger`
maps an event to `stored` if it is in the database, to `held` if it is anywhere
on the sensor or in a request, and to `lost` if it was submitted and is nowhere.
The mapping makes two things checkable that no invariant says: a lost event does
not come back and a stored one does not go away. In an environment without
crashes of the sensor and without refusals `MayLose` (that is `Lossy`) is false,
and the ledger has no step that loses.

### Tail

`files` are the files that were ever the log, in the order they were created;
the index plays the inode and `path` is the one that has the name now. A file
holds pieces: `BeginLine` writes the first half of a line and `EndLine` the half
with the newline, so a read, a rename or a truncation can fall between them.
Renaming leaves the bytes where they are (logrotate's `create` and cowrie's own
rotation), `Truncate` empties the file in place (`copytruncate`).

The tailer is `tail_lines` with a program counter: `Open` or `OpenFails`, one
`ReadLine` per turn of `complete_lines` until `ReadNothing` or an unfinished
line, one `Yield` per line that was read and `Yielded` when none is left, `Check`
(`rotated_away`), then either the drain of the old file, its lines' `Yield`s and
`Close`, or `Size` and the next poll. `Yield` includes what `run_sensor` does with
a line: `got` are those that parse. `Restart` stops the
sensor anywhere; it comes back at the end of the file.

`excused` is a history variable for the lines no tailer could have read: erased
unread by a truncation, or written while none ran. Two things would be too fast
for a poll. A log that is renamed again before the first renaming was noticed is
assumed away (`Rename`). An emptied log that outgrows the cursor before its size
is compared is the constant `Outgrows`: without it nothing is missed, with it a
line may be (section 5).

### Alerts

`log` gives each stored event its timestamp; what an event says is the constant
`Event`, where `risk` stands for what `classify_command` makes of its command.
Each rule of `rules.py` is an operator from the start of the window to a set of
findings: its WHERE and GROUP BY are set filters, its HAVING a condition on a
cardinality. A finding's `id` is its dedupe key, kept as a tuple: that two keys never
share a UUIDv5 is taken for granted. `alerts` is the table, a function
whose domain is the ids it has. Time is counted in minutes, so `Bucket` is an
integer division. `enabled` is the deployment, chosen at the start from
`Deployments`: which engines there are (`serve`'s cycle, a `watch`, a command run by
hand) and the rules of each in their order.

A pass is `Begin` (the query of `window_start`), one `RunRule` per rule, one
`CheckCooldown` per finding with an `InsertAlert` after it unless the finding is
cooled down, and `Finish`. All of these read the tables as they are at that step:
nothing keeps the collector, the enricher or an operator from writing in between.
`RuleRaises` is the rule that is skipped, `PassFails` a pass that ends early.
`Foremost` is the sort: among the findings left, those no other precedes.
`SetAlertStatus` is the dashboard's Ack, Close and Reopen. `came` is a history
variable: the alerts that were inserted or opened again while an engine is between
its check of the cooldown and the transaction of its insert.

### Contract, Adapters and Backfill

`Contract` has the four checks as predicates on an envelope, which is a function
from field names, so that an absent field, a null, an empty text and a blank one
differ as they do to the code. `Adapters` translates `build_envelopes` of both
nodes: cowrie's table of event names, dionaea's two log formats (one line per
incident, one per connection, the latter with or without `flat_data`), the
masking of secrets and the map of session starts, which is a sequence because the
code drops its oldest entry. A line is a record of the fields the mapper reads.
`StartsAfter` is the mapper's only memory.

`Backfill` puts one honeypot's log, the live adapter and a run of `backfill.py`
side by side. `files` are the log's files, oldest first. What `Rotate` does depends on
the honeypot (`DatedNames`). Cowrie renames its live file to a dated name that stays.
dionaea's is rotated as its README says, by logrotate's `copytruncate`: the live file is
copied to archive 1 and emptied in place, and every older archive's name moves up by
one. The copy and the emptying are one step; what is written between them logrotate
itself loses. A run lists its names before it reads (`paths`), and a name is looked up
when it is opened (`Opened`), so it may by then lead to another file. `Earliest` picks
the next name as `log_files` sorts them: the suffixes ascending, which is oldest first
for dates and newest first for numbers, and the live file last. A file that is emptied
while it is read ends there, or goes on from the old offset once it has grown past it
(`ReadOn`); `cut` says that this has happened and `rotated` that a rotation disturbed
the run.

A run goes `Start` (arguments and `log_files`), `Open`, `ReadLine`, one `Consider` per
envelope (`--since`, ids already seen, `contract_problems`), `Flush` when the batch is
full or the files end. `StableId` is the id hashed from the line and the event's place
in it. `SomeRejected` is a 200 that counts some events as rejected, because
`apply_events` met a `StorageError`; the run goes on, and `failed`, a history variable,
has these events. `PostFails` stores any part of the batch before the answer is lost, and
`Interrupted` is Ctrl-C, a kill or a name that is gone. The rows other events have are
left out: `stored` has the backfilled ones, and a line that the adapter shipped live
has a second row with a random id beside it. `due` is a history variable: what was on
disk when a run over everything began.

### Enricher

`activity` is what the enricher reads of events and sessions, `reputation` the
table, and each worker has its `pc`, the addresses of its pass, the one in hand,
the record it is making, its `cache` and whether it has a key. `Select` is
`get_ips_needing_enrichment`, the limit before the private addresses are dropped;
`Take` the start of `get_threat_intel` with its system filter and cache;
`Located` and `LookupFails` the answer of ip-api; `Score` that of AbuseIPDB,
with the profile score and the decision to cache; `Save` is
`upsert_reputation`, and `SaveFails` the exception that `save_reputation_to_db`
swallows. Time is the age of each record in days: `Day` ages rows, caches and the
records being made alike, and ages past the limit are one. `answers` is a history
variable, the scores AbuseIPDB gave for an address. The geo columns are one flag:
`upsert_reputation` treats them alike.

### Feed

`status` and `facts` stand for the tables a feed reads: the alerts, and what the
reputation row and the events say of an address. `Indicators` is
`get_feed_indicators` with `_build_indicator`, `Listed` is `get_alerts` with
`_build_alert`. An export is, for each format, `ReadIndicators` and `ReadAlerts`
(the two queries of `build_feed`), then `Open` and `Write` for each file. `Open`
empties the file and `Write` fills it, so that another exporter, or the end of the
process (`Ends`), comes between; two writers of one file may leave a mixture
(`Spoilt`). `Begin` and `Detect` are `run_cycle` of the `serve` thread and of
`watch`, `Command` is the one-off `export`. `during` and `throughout` are history
variables: the alerts that were publishable at some moment, and at every moment,
between the two queries.

### Schema

`db` is the committed database and `work` what the open transaction sees; `lock`
is SQLite's write lock. `Inspect` to `Commit` are `_widen_session_protocols`,
`CreateTables` to `Stamp` the script after it. Python's `sqlite3` opens a
transaction only for the `INSERT` that copies the rows, so `DropView` and
`CreateMigrated` commit by themselves (`Autocommit`) and `CopyRows` takes the lock
that `Commit` gives back. `SwapNames` fails while the view exists (`RenameFails`):
SQLite will not rename a table when a view reads one that is gone, which happens
when a second process has put the view back. `TimeOut` is the busy timeout, which
the retry around transactions cannot undo. `Kill` discards `work`. `StoreSession`
is the collector's, refused for a new protocol while the old `CHECK` stands. The
database is absent at first or has the old table, stamped or not.

## 3. Runs

| Run | Instance | Shows |
|---|---|---|
| `storage_main` | 3 events, 2 nodes, 1 session, times 0..2 | derived tables agree with the log in all orders; sweeps reach every stale session and node |
| `pipeline_outages` | 3 events, batches of 2, collector limit 3 | nothing is lost to the network or a collector crash (the ledger without loss); no new batch is too large; all is stored after a finite outage |
| `pipeline_faults` | 4 events, one refused, one rejected, limit 2, every fault | every loss is one of the known ways, no event is held twice, a 200 accounts for its batch; the ledger with loss |
| `oversize_retry` | 3 events, limit 2, no fault but the network | finds a spool of two failed batches lost to its own retry |
| `tail_main` | 3 lines, 3 files, 2 truncations, a restart | every line read once, in order, none passed over; the tailer catches up |
| `backfill_main` | cowrie: 1 line and 3 kinds to come; dionaea: 1 or 2 lines, in one file or two, and 2 kinds to come; 3 lines and 3 files at most, batches of 2, one tracked session, one fault | no event gets two backfilled rows, none on disk is left out but what storage failed on or a rotation took away, no batch is refused, files are read in turn, durations are true, no password leaves as a command |
| `alerts_main` | 3 events of one address, 2 nodes, times 0..1, window 0; one engine with 3 or 2 rules, or two engines that share one; one failure | alerts rest on stored events, the cooldown holds but for what comes up between check and insert, nothing is rewritten, all that stays in the window is alerted |
| `enrich_main` | 3 addresses (one private, one taken for local), limit 2, one restart or lost write | scores are honest and justified, nothing known is forgotten, every public address is scored in the end |
| `enrich_starved` | 2 addresses, limit 1, no fault | finds an address that is never enriched |
| `feed_main` | 2 alerts of one address, a loop and a one-off export of the CSV files, limit 1, 2 changes | a build publishes what was publishable while it ran; every file ends up as the tables say |
| `schema_main` | 3 processes, 2 sessions, one kill | no session is lost; who is done has the wide table and the stamp; the view is back; the table ends wide unless a kill left `sessions_migrated` behind |
| `schema_again` | 1 process, one kill | finds the initialisation that fails for ever |

The type invariants of `Storage`, `Pipeline`, `Alerts`, `Schema` and `Enricher`
are not in a run: they are proved (section 4). Those of `Tail`, `Feed` and
`Backfill` are checked and proved.

Bounds. Three events are enough for an out-of-order arrival between two others
and for a batch, its retry and a fresh batch beside it; three points in time
order them in every way, with ties. `MaxLate` bounds abandoned requests that the
collector is still handling: two of them beside a live one give every overlap of
three handlers, and events of different requests only meet in `stored`. One
sensor suffices in `Pipeline`: event ids are minted per sensor, and sensors share
nothing but node and session rows, which `Storage` interleaves. The two
events of `pipeline_faults` that are neither refused nor rejected are
interchangeable, and it checks no liveness, so it uses symmetry on them.
In `alerts_main` there are two minutes: a window of zero minutes reaches no further
than the newest event's own, and a cooldown of one has run out at the next. Two
logins reach the threshold of a rule that
counts, the command of another node makes the address a scan. The three rules
that are not enabled there differ from those that are only in what they select.
Of the three deployments two have one engine, so that all four rules run, and one has
two engines with a rule in common: both can find the cooldown free before either
inserts. Operators acknowledge and open again, which does to the cooldown what closing
and opening does.
Three files are the one the tailer holds, one it has never seen and one that
replaced that; three lines let a half-written one meet each of them. A second
truncation matters because the first leaves the cursor at zero.
In `backfill_main` one connection record alone makes more events than a batch of two
takes, a second session pushes the one tracked session out, three files are an archive
and a live file that is rotated while a run has either before it, and
runs may follow each other without bound: only their results accumulate. It takes
most of its time, a million states in a minute or two, from every set of names a run
may be given. In
`enrich_main` a limit of two is filled by the private and the local-looking
address, so that the public one has to wait for a row to be young; an age limit of
zero has the two ages there are. In `feed_main` a limit of one makes two alerts too
many, and two changes are a close and the end of a process, or two of one kind. Three
processes in `schema_main` are one that migrates, one that inspected before and one
that puts the view back between them; two sessions are one of an old protocol and
one of a new.
`CHECK_DEADLOCK FALSE` appears only with `Storage`, whose clock and events run
out, and `Tail`, whose log does.

Fairness. `Storage!FairSpec` assumes that each sweep keeps running:
`_maintenance_loop` catches whatever a pass raises and sleeps again.
`Pipeline!Fairness` assumes that the sender loop goes on, that both of its
deadlines come round (strong, since each pass may find them not yet due), that a
post returns within its timeout, that a request thread runs to its end, that a
collector which is asked for ever is reachable in the end (strong), and that it
stops crashing. Nothing is assumed about answers: every one may be lost.
`Tail!FairSpec` assumes that `tail_lines` goes on, as it never returns, that a
line begun is ended and that a renamed log is replaced; nobody has to write a
line, to rotate or to restart anything. `Alerts!FairSpec` assumes that an engine
goes on with its pass and then with the next one, as `cycle_loop` and `cmd_watch`
do after any exception; a bounded number of rules and passes fail.
`Enricher!FairSpec` assumes that days pass, that the worker loop goes on, as it
catches everything, and that a service which is asked about one address for ever
answers in the end (strong: the quota resets every day). `Feed!FairSpec` assumes
that an exporter goes on with its steps; the loops begin again after whatever ends
them, one-off exports need not be started. `Schema!FairSpec` assumes that a process
takes its next step if it can, and that what has stopped is started again, as
every start of the system initialises the schema; it does not assume that the
lock is free often enough for anybody.

Every property has a mutant in `PROJECT.json`: an operator beside the definition
it mutates, with which TLC refutes the property. They are commented as such in
the modules and used by nothing else.

## 4. Proofs

`StorageProofs` proves `TypeOK`, five invariants and `NeverReopened` for any sets
of events, nodes and sessions, any timeouts and any bound on time. The
assumptions are `BoundAssumption` and `NullAssumption` of `Storage`: the bounds
are natural numbers and NULL and `NoRow` are not data. The invariant `IInv` is
the conjunction of all of them. They are not inductive one by one: that a
session starts at its earliest event is only kept by the insert of a new row if
no event of the session was stored without one, which is `RowsAreDerived`; the
same goes for `LastSeenIsLatest` and `EndIsRecorded`. The lemmas `AppliedLog`,
`AppliedNodes`, `AppliedSessions` and `SweptRows` say what a transaction does to
one row; the others say, one invariant each, that an accepted event keeps it.

`PipelineProofs` proves `TypeOK`, `NoSilentLoss`, `HeldOnce`, `AnswerAccounts`
and `FreshBatchFits` for any set of events, any limits, faults and number of
abandoned requests, from `ShipperAssumption` and `PipelineAssumption`, and
`KeepsLedger` for any finite set of events. The argument:

* `InStep` ties the sender's place to the request it waits for and `Handled` says
  that a request in progress forgets nothing; with them a 200 accounts for its
  batch (`AnswerAccounts`), the one fact conservation needs of the collector.
* `Conservation` then follows one event through each action: it moves between
  queue, batch, wire and spool, or is stored, or was exposed. What a torn write
  does to the spool is said once, by `WrittenAdds` and `WrittenKeeps`.
* `Uniqueness` needs the four places to be pairwise disjoint (`Distinct`) and an
  event about to be minted to be in none of them (`OnlyMinted`).
* `Refinement` rests on `NothingInvented` (a step holds or stores only what was
  held before or is minted now) and, for the lossless ledger, on `Quiet`: where
  no fault is lossy nothing is refused, rejected or torn. That no post is refused
  for its size is a counting argument, `WireFits`: the post repeats no event, so
  it is no longer than there are events.

`AlertsProofs` proves `TypeOK`, `Evidence` and `NeverRewritten` of `Alerts` for
all seven rules, any finite set of events, any thresholds and any number of
engines, from `AlertsAssumption`. `Evidence` is not inductive: a finding waits in
a pass while events are stored and other engines insert. `AllBacked` therefore
says of the findings of a pass, and of the one whose insert is under way, what
`Evidence` says of alerts. One lemma per rule shows that what its query returns
is backed when it is returned; `BackedStays` shows that it stays so, since the
event log only grows. `Greatest` supplies what the rules need of `Max`.
`CooldownHolds` proves `CooldownRespected` for any deployment and whatever operators set
alerts to. `Cool` is the invariant: from the check to the insert, two transactions, the
only younger open alerts of the rule and address are those in `came`. A step keeps what
an engine is about to insert or is its check (`HeldOrChecked`), what is open after it was
open before or is noted in `came` (`OpenOrCame`), and time makes no alert recent
(`RecentBefore`).

`EnricherProofs` proves `TypeOK`, `HonestScores`, `ProfileJustified` and
`NothingForgotten` for any number of workers and addresses, any limits and scores and
any number of restarts and lost writes, from `EnricherAssumption` and `NoRowIsNull`
(a row is not NULL). `HonestScores` is not inductive: a row is written from a
record, and a record perhaps from a cache that was filled days ago by another pass.
`IInv` says the same of all three (`Rows`, `Caches`, `Records`), and that a record
still being looked up is `Blank`. `GoodStays` carries it over any step, since
answers and activity only accumulate; `MadeIsGood` and `UpsertIsGood` are the two
steps that make a record; `Preserved` reduces each action to what it changed.
`FirstOf` (the least of the addresses left exists) needs that the order of the
natural numbers is well founded.

`SchemaProofs` proves `TypeOK`, `StartedMeansWide`, `ViewPutBack` and `RowsSurvive`
for any number of processes, sessions and kills, from `SchemaAssumption`. Its
invariant has four parts: `LockHeld`, that exactly a process between its INSERT and
its COMMIT holds the lock; `Transaction`, that what it has copied is every
session of `db`, because nobody else can write; `Progress`, what each process may rely on
after each statement, the table only ever getting wider (`Grows`); and `ViewOwed`,
that where the view is missing some process has yet to come past `CreateViews`.

`TailProofs` proves `TypeOK`, `InOrder` and `NothingMissed` for any number of lines,
files, truncations and restarts, from `TailAssumption`; `NothingMissed` under the
hypothesis `~Outgrows`, since with `Outgrows` it is false (section 5). Each has its
part of the invariant. `TypeInv` adds to the types that an unfinished line was begun.
`OrderInv` says that the lines are written in order (`FilesOrdered`), and that whatever
is still to be read is later than what was (`ReadInOrder`); that the tailer never goes
back to what it left needs `InPlace`, that a file is given up only for a newer one.
`CoverInv` says which bytes are whose: the fragment in `partial` is the text just
before the cursor (`Aligned`), every newline follows its text unless that was erased
(`Paired`), and a line that is all there was read, waits or is excused (`Covered`).
Most of the proof is about `readline`: `Fragment` and `WholeLine` say what it returns
at a cursor within a file that only grows or is emptied.

`FeedProofs` proves `TypeOK` and `BuildIsOfItsTime` for any finite set of alerts, any
limit, changes and number of exporters, from `FeedAssumption`. The invariant says what
a build has after its first query (`HalfBuilt`) and after its second (`Built`). The
newest alerts within a limit are a counting argument: those left out have `FeedLimit`
newer ones, which the lemmas on `Rank` give from `Newer` being a strict order.

`BackfillProofs` proves all of what `backfill_main` checks, for any lines, histories,
batch size, number of files, runs and faults, from `BackfillAssumption`,
`LogAssumption` (what is in a log is a line: its timestamp parses or is missing, its
lists are lists), `TrackedAssumption` and `NullIsNoAddress`, `NullIsNoDuration` and
`NullIsNoList`.

* `FilterSparesTheBatch` relates the checks: an event which `contract_problems` lets
  through is one `Event` of the collector takes, for all addresses, nodes and
  envelopes, provided it has exactly the fields of the baseline and a node of the
  deployment, as what the adapters make and backfill completes;
  `FilterSatisfiesStorage` that storage takes it as well, if its timestamp is in UTC.
  `BatchesAreTaken` (`NoBatchRefused`) carries the first to every batch (`Spares`),
  for a sensor whose node the collector's model knows.
* `SafeToRunTwice` (`OneCopyEach`), of backfilled rows: a row or an item of a batch is named by its line
  and its place in it, no name is stored twice, and a batch repeats none (`Batched`):
  each item entered it when its id was not in `seen` yet. What the mappers make of a
  line plays no part. That a batch may be stored in part before it is given up on is
  `SentIsNamed` for any part of it.
* `TypeCorrect` rests on `TypeInv`: the log only grows, a run's place in it is one that
  exists, and what a mapper makes of any line are envelopes (`MakesDrafts`).
* `ReadInTurn` (`FilesInTurn`): what was read is before the reader's place in the order
  of `log_files`, and the names left to open are after it: for dated names also once
  the live file has moved on, for numbered ones while nothing is rotated under the run.
* `NothingLeftBehind` (`BackfillComplete`): each line that was due is ahead of the
  reader or every event of it that the collector would store was seen (`Complete`), and
  what was seen waits in the batch, is stored or was rejected by storage (`SeenIsSafe`). That an event is
  acceptable does not depend on the duration it carries, which differs from one
  process to another, is `VerdictDepends`.
* `DurationsAreOfTheSession` (`DurationsAreTrue`): `Clock` relates the map of session
  starts to the lines read. Each entry is a session that is open, dated by the line
  that opened it last (`Dated`); its place says how many were opened after it
  (`Ranked`); and a session that is open and not in the map was pushed out by as many
  as the map holds (`Ousted`). `RememberIs` and `ForgetIs` say what the two operations
  do to the entries, whichever place the one concerned has.
* `NoPasswordLeaves` (`PasswordsStayInLogins`) compares two lines: `WithoutPassword` of
  a line differs from it in what follows a PASS, and the adapter makes the same of
  both (`RecordAlike`, `IncidentAlike`), for lists of objects and objects of lists.

Only model-checked: liveness (`AbandonedSessionsEnd`, `SilentNodesGoOffline`,
`EventuallyStored`, `EventuallyYielded`, `SeenInTheEnd`, `ScoredInTheEnd`,
`FilesCatchUp`, `WideInTheEnd`), which is out of the prover's reach, and what a run
refutes. Every invariant and every action property of the passing runs is proved.

## 5. Disagreements between the code and what it says

Three have a run that finds them, and are quoted under `findings`: the retry of a
long spool is refused and dropped (`oversize_retry`); a record from the address
cache keeps its row due for ever, and others out (`enrich_starved`); a migration
that was killed cannot be repeated (`schema_again`).

Others were met while modelling. Each is in the models as the code has it, and the
properties are stated so that they hold beside it:

* The end of a session is that of the last arrival, not of the latest event
  (`_derive_session`, `database.py:455` and `:487`).
* A sender that crashes during a retry loses the spool, which it has deleted
  before the post (`ship.py:161`). A batch answered 500 counts as delivered
  (`ship.py:123`). One event that does not parse refuses the batch it is in
  (`models.py:56`). `NoSilentLoss` lists all three as the ways to lose an event.
* The tailer passes over lines when the log is emptied and refilled past its cursor
  between two polls (`tail.py:150`); `Outgrows` is that case.
* An event that comes late, from a drained spool for one, is before the window of
  every later alert pass and never alerted (`alert_engine.py:60`); `SeenInTheEnd`
  asks only for what stays in the window.
* The cooldown is checked outside the transaction of the insert
  (`database.py:710-725`). A second engine, as when `alerts` is run by hand beside
  `serve`, or an alert that is opened again on the dashboard comes between the two, and
  there are two open alerts where one was to be: `alert_engine.py:6-9` says that the
  engine may "be run twice concurrently without producing corrupt or duplicated
  output". What holds is that the ids never collide into a rewritten row, and
  `CooldownRespected` but for what came up in between.
* `log_files` says that it reads "oldest first", and that this is right where "a
  *higher* number is older" (`backfill.py:38-48`). It sorts suffixes ascending, so
  under the logrotate numbering that dionaea's README prescribes it reads the newest
  archive first, and `10` before `2` (not in the model, whose archives are the seven of
  that README). It is not "only cosmetic either way": the adapter pairs a session's
  end with its start in the order of the lines, so a session that spans two archives
  ends without its duration in a backfill. `FilesInTurn` says what the order is, and
  `DurationsAreTrue` lets a duration be missing when no start was read before.
* A backfill stops at an answer that is not 200 and says "fix it and run this again"
  (`backfill.py:171-175`). But an event for which `apply_events` meets a `StorageError`,
  the database being locked for one, is counted as rejected in a 200
  (`database.py:423-425`), and the run goes on to its end without it. A second run
  would store it; the first prints only a count (`backfill.py:339-340`).
  `BackfillComplete` exempts these events.
* A backfill that lists its files before a rotation opens other files under the names
  it has (`log_files`): cowrie's renamed live file is skipped, dionaea's archives are
  each one newer than listed, and a live file that is emptied while it is read loses
  what was not read of it, or the beginning of what comes next.
  `BackfillComplete` exempts a run that a rotation disturbs in this way; running it
  again, with the log at rest, finds everything.
* "Safe to run twice" is true of backfills among themselves. What the live adapter has
  shipped has random ids and gets a second row from a backfill, as the READMEs of both
  nodes say (`nodes/dionaea/README.md:303-305`, `nodes/cowrie/README.md:216-218`);
  `OneCopyEach` is about backfilled rows.
* A migration that is killed after it has dropped the masked view leaves the
  dashboard without it until an initialisation comes to its end; `ViewPutBack` asks
  for it only then.

## 6. Not modelled

* The dashboard's queries, pages and drawing: they read. Its one write is
  `Alerts!SetAlertStatus`.
* Configuration: text is parsed once, at import, into what are constants here.
* `scrub` and `assert_no_secrets` of the exporter: no column that a feed is made of
  has a secret in it, so there is nothing they could do in the model. The wording of
  STIX.
* Authentication at the collector: a 401 or 403 refuses a post like a 422 does.
* Power loss: SQLite's and the file system's own durability are taken as given, a
  crash is one of a process.
* The retry of transactions in `transaction()`: a context manager cannot yield
  twice, so what the code says about trying again after "database is locked" never
  happens; an error leaves the method (`Schema!TimeOut`, `Pipeline!ServerError`).
* The size of the sensor's queue, which nothing bounds, and two renamings of the log
  between two polls of the tailer (`Rename` assumes them away).
* Demo data, the asset generator and the stub server.
