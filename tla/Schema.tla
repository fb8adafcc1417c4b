--------------------------------- MODULE Schema ---------------------------------
(***************************************************************************)
(* The schema of the central database and its one migration:               *)
(* Database.initialize_schema of common/db/database.py, run by every       *)
(* process that opens the database to write, while others store sessions.  *)
(*                                                                         *)
(* SQLite commits a DROP VIEW or a CREATE TABLE at once when no            *)
(* transaction is open, and Python's sqlite3 opens one only for the INSERT *)
(* that copies the rows.  What is committed is db; what the transaction    *)
(* has changed is work, which a crash or an error discards.                *)
(***************************************************************************)
EXTENDS Naturals

CONSTANTS
    Starters,  \* processes: serve, the one-off commands, the demo seeder
    Rows,      \* sessions that may be stored
    Modern,    \* those of a protocol that the old CHECK does not list
    MaxFault,  \* bound: processes killed
    Null       \* nobody holds the write lock

ASSUME SchemaAssumption ==
    /\ Starters # {} /\ Null \notin Starters
    /\ Modern \subseteq Rows /\ MaxFault \in Nat

VARIABLES
    db,      \* the committed database
    work,    \* what the open transaction sees
    lock,    \* the process that holds SQLite's write lock
    pc,      \* where each process is in initialize_schema
    faults   \* processes killed so far

vars == <<db, work, lock, pc, faults>>

schema_user_version == 13

\* The sessions table by its CHECK and its rows, whether there is a table
\* sessions_migrated and its rows, the view sessions_public and PRAGMA user_version.
Database == [table : {"absent", "narrow", "wide"}, rows : SUBSET Rows, migrated : BOOLEAN,
             copied : SUBSET Rows, view : BOOLEAN, version : {0, schema_user_version}]

\* No database yet, or one made before the protocols were added, stamped or not.
Empty == [table |-> "absent", rows |-> {}, migrated |-> FALSE, copied |-> {},
          view |-> FALSE, version |-> 0]
Old == [table : {"narrow"}, rows : SUBSET (Rows \ Modern), migrated : {FALSE}, copied : {{}},
        view : {TRUE}, version : {0, schema_user_version}]

Init ==
    /\ db \in {Empty} \cup Old
    /\ work = db
    /\ lock = Null
    /\ pc = [p \in Starters |-> "off"]
    /\ faults = 0

-----------------------------------------------------------------------------
(* initialize_schema *)

Goes(p, from, to) == pc[p] = from /\ pc' = [pc EXCEPT ![p] = to]

\* A statement outside a transaction: it needs the write lock and commits itself.
Autocommit(p, from, to, after) ==
    /\ lock = Null
    /\ Goes(p, from, to)
    /\ db' = after
    /\ UNCHANGED <<work, lock, faults>>

\* The operator runs a command, again perhaps, or serve's collector initialises once more.
Start(p) ==
    /\ pc[p] \in {"off", "failed", "done"}
    /\ pc' = [pc EXCEPT ![p] = "inspect"]
    /\ UNCHANGED <<db, work, lock, faults>>

\* Whether _widen_session_protocols has anything to do.
NarrowIfUnstamped(d) == d.table = "narrow" /\ d.version = 0
Narrow(d) == d.table = "narrow"

\* _widen_session_protocols reads the CHECK before any transaction.
Inspect(p) ==
    /\ Goes(p, "inspect", IF Narrow(db) THEN "drop view" ELSE "tables")
    /\ UNCHANGED <<db, work, lock, faults>>

DropView(p) == Autocommit(p, "drop view", "create", [db EXCEPT !.view = FALSE])

CreateMigrated(p) ==
    /\ ~db.migrated
    /\ Autocommit(p, "create", "copy", [db EXCEPT !.migrated = TRUE])

\* "table sessions_migrated already exists"
MigratedExists(p) ==
    /\ db.migrated
    /\ Autocommit(p, "create", "failed", db)

CopyRowsUnlocked(p) ==
    /\ lock = Null
    /\ Goes(p, "copy", "swap")
    /\ lock' = Null
    /\ work' = [db EXCEPT !.copied = db.rows]
    /\ UNCHANGED <<db, faults>>

\* The INSERT opens the transaction that the DROP, the RENAME and the COMMIT belong to.
CopyRows(p) ==
    /\ lock = Null
    /\ Goes(p, "copy", "swap")
    /\ lock' = p
    /\ work' = [db EXCEPT !.copied = db.rows]
    /\ UNCHANGED <<db, faults>>

\* DROP TABLE and RENAME, which SQLite refuses while the view reads a table that is gone.
SwapNames(p) ==
    /\ ~work.view
    /\ Goes(p, "swap", "commit")
    /\ work' = [work EXCEPT !.table = "wide", !.rows = work.copied, !.migrated = FALSE,
                          !.copied = {}]
    /\ UNCHANGED <<db, lock, faults>>

RenameFails(p) ==
    /\ work.view
    /\ Goes(p, "swap", "failed")
    /\ lock' = Null
    /\ work' = db
    /\ UNCHANGED <<db, faults>>

Commit(p) ==
    /\ Goes(p, "commit", "tables")
    /\ db' = work
    /\ lock' = Null
    /\ UNCHANGED <<work, faults>>

\* The script: CREATE TABLE IF NOT EXISTS, then CREATE VIEW IF NOT EXISTS, and the stamp.
CreateTables(p) ==
    Autocommit(p, "tables", "views", [db EXCEPT !.table = IF @ = "absent" THEN "wide" ELSE @])

CreateViewsOfAFreshDatabase(p) ==
    Autocommit(p, "views", "stamp", [db EXCEPT !.view = @ \/ db.version = 0])
CreateViews(p) == Autocommit(p, "views", "stamp", [db EXCEPT !.view = TRUE])

Stamp(p) == Autocommit(p, "stamp", "done", [db EXCEPT !.version = schema_user_version])

\* The busy timeout passes; transaction cannot try again, so the error leaves initialize_schema.
TimeOut(p) ==
    /\ lock \notin {Null, p}
    /\ pc[p] \in {"drop view", "create", "copy", "tables", "views", "stamp"}
    /\ pc' = [pc EXCEPT ![p] = "failed"]
    /\ UNCHANGED <<db, work, lock, faults>>

-----------------------------------------------------------------------------
(* What else goes on *)

\* The process dies; its open transaction is rolled back.
Kill(p) ==
    /\ faults < MaxFault
    /\ pc[p] \notin {"off", "failed", "done"}
    /\ faults' = faults + 1
    /\ pc' = [pc EXCEPT ![p] = "off"]
    /\ lock' = IF lock = p THEN Null ELSE lock
    /\ work' = IF lock = p THEN db ELSE work
    /\ UNCHANGED db

\* A running collector derives a session; the old CHECK refuses those of the new protocols.
StoreSession(r) ==
    /\ lock = Null
    /\ \/ db.table = "wide"
       \/ db.table = "narrow" /\ r \notin Modern
    /\ db' = [db EXCEPT !.rows = @ \cup {r}]
    /\ UNCHANGED <<work, lock, pc, faults>>

Step(p) ==
    \/ Start(p) \/ Inspect(p) \/ DropView(p) \/ CreateMigrated(p) \/ MigratedExists(p)
    \/ CopyRows(p) \/ SwapNames(p) \/ RenameFails(p) \/ Commit(p)
    \/ CreateTables(p) \/ CreateViews(p) \/ Stamp(p)

Next ==
    \/ \E p \in Starters : Step(p) \/ TimeOut(p) \/ Kill(p)
    \/ \E r \in Rows : StoreSession(r)

Spec == Init /\ [][Next]_vars

\* Operators start what has stopped, and a process that runs goes on.
FairSpec == Spec /\ \A p \in Starters : WF_vars(Step(p))

-----------------------------------------------------------------------------
(* Properties *)

\* The database, the transaction and the processes are what the code can make them.
TypeOK ==
    /\ db \in Database /\ work \in Database
    /\ lock \in Starters \cup {Null}
    /\ pc \in [Starters -> {"off", "inspect", "drop view", "create", "copy", "swap", "commit",
                            "tables", "views", "stamp", "done", "failed"}]
    /\ faults \in 0 .. MaxFault

\* No session that was stored is lost when the table is rebuilt, by however many
\* processes at once, with sessions stored between their steps and kills anywhere.
RowsSurvive == [][db.rows \subseteq db'.rows]_vars

\* A process that has initialised the schema has a sessions table of every
\* protocol, whatever version the database it found was stamped with, and also
\* when another process initialised or migrated it meanwhile.
StartedMeansWide ==
    \A p \in Starters : pc[p] = "done" => db.table = "wide" /\ db.version = schema_user_version

\* "The script that follows then puts back anything a migration had to drop":
\* when all have initialised, the masked view that the dashboard reads is there.
ViewPutBack == (\A p \in Starters : pc[p] = "done") => db.view

\* The table is widened in the end and stays so, unless a migration that was
\* killed left sessions_migrated behind, which then keeps it narrow for ever.
WideInTheEnd ==
    \/ <>[](db.table = "wide")
    \/ <>[](db.table = "narrow" /\ db.migrated)

\* "Safe to call repeatedly": a lone process that starts again never fails.
SafeToRepeat == \A p \in Starters : pc[p] # "failed"
=============================================================================
