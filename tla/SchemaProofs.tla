------------------------------ MODULE SchemaProofs ------------------------------
(***************************************************************************)
(* The migration keeps every row, and who has initialised the schema has   *)
(* the wide table, for any number of processes and any number of kills.    *)
(***************************************************************************)
EXTENDS Schema, TLAPS

\* A process is between its INSERT and its COMMIT exactly while it holds the lock.
LockHeld ==
    \A p \in Starters : lock = p <=> pc[p] \in {"swap", "commit"}

\* What is in the transaction while it is open; nothing is committed beside it.
Transaction ==
    \A p \in Starters :
        /\ pc[p] = "swap" => work.copied = db.rows
        /\ pc[p] = "commit" => work.rows = db.rows /\ work.table = "wide"
        /\ pc[p] \in {"swap", "commit"} => work.version = db.version

\* How far a process that is past the migration has come.
Progress ==
    \A p \in Starters :
        /\ pc[p] = "tables" => db.table # "narrow"
        /\ pc[p] \in {"views", "stamp", "done"} => db.table = "wide"
        /\ pc[p] = "done" => db.version = schema_user_version

\* While the view is missing some process has yet to put it back.
ViewOwed == db.view \/ \E p \in Starters : pc[p] \notin {"stamp", "done"}

IInv == TypeOK /\ LockHeld /\ Transaction /\ Progress /\ ViewOwed

\* What a step may do to the committed database: no row goes, a wide table stays
\* wide, no narrow one comes back and the stamp is not taken off.
Grows ==
    /\ db.rows \subseteq db'.rows
    /\ db.table = "wide" => db'.table = "wide"
    /\ db.table # "narrow" => db'.table # "narrow"
    /\ db.version = schema_user_version => db'.version = schema_user_version

LEMMA Initially == Init => IInv
<1> SUFFICES ASSUME Init PROVE IInv
  OBVIOUS
<1>1. db \in Database /\ db.rows \subseteq Rows
  <2>1. CASE db = Empty
    BY <2>1 DEF Empty, Database
  <2>2. CASE db \in Old
    BY <2>2, SchemaAssumption DEF Old, Database
  <2> QED
    BY <2>1, <2>2 DEF Init
<1>2. TypeOK
  BY <1>1, SchemaAssumption DEF Init, TypeOK
<1>3. LockHeld /\ Transaction /\ Progress /\ ViewOwed
  BY SchemaAssumption DEF Init, LockHeld, Transaction, Progress, ViewOwed
<1> QED
  BY <1>2, <1>3 DEF IInv

\* A statement that commits itself changes nothing under a transaction, because
\* none is open.
LEMMA AutocommitKeeps ==
    ASSUME IInv, NEW p \in Starters, NEW from, NEW to, NEW after \in Database,
           Autocommit(p, from, to, after), Grows,
           to \in {"create", "copy", "failed", "views", "stamp", "done"},
           to \in {"views", "stamp", "done"} => after.table = "wide",
           to = "done" => after.version = schema_user_version,
           to \in {"stamp", "done"} =>
               after.view \/ (from = "stamp" /\ after.view = db.view)
    PROVE  IInv'
<1> USE DEF IInv, Autocommit, Goes
<1>1. TypeOK'
  BY DEF TypeOK
<1>2. LockHeld'
  BY SchemaAssumption DEF LockHeld, TypeOK
<1>3. Transaction'
  <2>1. \A q \in Starters : pc[q] \notin {"swap", "commit"}
    BY SchemaAssumption DEF LockHeld
  <2> QED
    BY <2>1 DEF Transaction, TypeOK
<1>4. Progress'
  BY DEF Progress, TypeOK, Grows
<1>5. ViewOwed'
  BY DEF ViewOwed, TypeOK
<1> QED
  BY <1>1, <1>2, <1>3, <1>4, <1>5

\* A process that only moves on, or fails, between transactions.
LEMMA MoveKeeps ==
    ASSUME IInv, NEW p \in Starters, NEW to \in {"inspect", "drop view", "tables", "failed"},
           pc[p] \notin {"swap", "commit"}, pc' = [pc EXCEPT ![p] = to],
           to = "tables" => db.table # "narrow",
           UNCHANGED <<db, work, lock, faults>>
    PROVE  IInv'
<1> USE DEF IInv
<1>1. TypeOK'
  BY DEF TypeOK
<1>2. LockHeld' /\ Transaction' /\ Progress'
  BY DEF LockHeld, Transaction, Progress, TypeOK
<1>3. ViewOwed'
  BY DEF ViewOwed, TypeOK
<1> QED
  BY <1>1, <1>2, <1>3

\* Opening the transaction, and its statements.
LEMMA TransactionKeeps ==
    ASSUME IInv, NEW p \in Starters, CopyRows(p) \/ SwapNames(p) \/ RenameFails(p)
    PROVE  IInv' /\ db' = db
<1> USE DEF IInv
<1>0. db' = db
  BY DEF CopyRows, SwapNames, RenameFails
<1>1. CASE CopyRows(p)
  <2> USE <1>1 DEF CopyRows, Goes
  <2>1. TypeOK'
    BY DEF TypeOK, Database
  <2>2. LockHeld'
    BY SchemaAssumption DEF LockHeld, TypeOK
  <2>3. Transaction'
    BY SchemaAssumption DEF Transaction, LockHeld, TypeOK, Database
  <2>4. Progress' /\ ViewOwed'
    BY DEF Progress, ViewOwed, TypeOK
  <2> QED
    BY <1>0, <2>1, <2>2, <2>3, <2>4
<1>2. CASE SwapNames(p)
  <2> USE <1>2 DEF SwapNames, Goes
  <2>1. TypeOK'
    BY DEF TypeOK, Database
  <2>2. LockHeld'
    BY DEF LockHeld, TypeOK
  <2>3. Transaction'
    BY SchemaAssumption DEF Transaction, LockHeld, TypeOK, Database
  <2>4. Progress' /\ ViewOwed'
    BY DEF Progress, ViewOwed, TypeOK
  <2> QED
    BY <1>0, <2>1, <2>2, <2>3, <2>4
<1>3. CASE RenameFails(p)
  <2> USE <1>3 DEF RenameFails, Goes
  <2>1. TypeOK'
    BY DEF TypeOK
  <2>2. LockHeld'
    BY SchemaAssumption DEF LockHeld, TypeOK
  <2>3. Transaction'
    BY SchemaAssumption DEF Transaction, LockHeld, TypeOK
  <2>4. Progress' /\ ViewOwed'
    BY DEF Progress, ViewOwed, TypeOK
  <2> QED
    BY <1>0, <2>1, <2>2, <2>3, <2>4
<1> QED
  BY <1>1, <1>2, <1>3

LEMMA CommitKeeps ==
    ASSUME IInv, NEW p \in Starters, Commit(p)
    PROVE  IInv' /\ Grows
<1> USE DEF IInv, Commit, Goes
<1>1. /\ db'.rows = db.rows
      /\ db'.table = "wide"
      /\ db'.version = db.version
  BY DEF Transaction
<1>2. Grows
  BY <1>1 DEF Grows
<1>3. TypeOK'
  BY DEF TypeOK
<1>4. LockHeld'
  BY SchemaAssumption DEF LockHeld, TypeOK
<1>5. Transaction'
  BY SchemaAssumption DEF Transaction, LockHeld, TypeOK
<1>6. Progress'
  BY <1>1 DEF Progress, TypeOK
<1>7. ViewOwed'
  BY DEF ViewOwed, TypeOK
<1> QED
  BY <1>2, <1>3, <1>4, <1>5, <1>6, <1>7

LEMMA KillKeeps ==
    ASSUME IInv, NEW p \in Starters, Kill(p)
    PROVE  IInv' /\ db' = db
<1> USE DEF IInv, Kill
<1>1. TypeOK'
  <2>1. faults' \in 0 .. MaxFault
    <3>1. faults \in 0 .. MaxFault /\ MaxFault \in Nat
      BY SchemaAssumption DEF TypeOK
    <3>2. faults < MaxFault /\ faults' = faults + 1
      OBVIOUS
    <3> QED
      BY ONLY <3>1, <3>2
  <2>2. lock' \in Starters \cup {Null} /\ work' \in Database /\ db' \in Database
    BY DEF TypeOK
  <2> QED
    BY <2>1, <2>2 DEF TypeOK
<1>2. LockHeld'
  BY SchemaAssumption DEF LockHeld, TypeOK
<1>3. Transaction'
  BY SchemaAssumption DEF Transaction, LockHeld, TypeOK
<1>4. Progress' /\ ViewOwed'
  BY DEF Progress, ViewOwed, TypeOK
<1> QED
  BY <1>1, <1>2, <1>3, <1>4

LEMMA StoreKeeps ==
    ASSUME IInv, NEW r \in Rows, StoreSession(r)
    PROVE  IInv' /\ Grows
<1> USE DEF IInv, StoreSession
<1>1. Grows
  BY DEF Grows, TypeOK, Database
<1>2. TypeOK'
  BY DEF TypeOK, Database
<1>3. LockHeld'
  BY DEF LockHeld
<1>4. Transaction'
  BY SchemaAssumption DEF Transaction, LockHeld
<1>5. Progress' /\ ViewOwed'
  BY DEF Progress, ViewOwed, TypeOK, Database
<1> QED
  BY <1>1, <1>2, <1>3, <1>4, <1>5

LEMMA Inductive ==
    ASSUME IInv, [Next]_vars
    PROVE  IInv' /\ Grows
<1>0. UNCHANGED db => Grows
  BY DEF Grows
<1>1. CASE UNCHANGED vars
  BY <1>0, <1>1 DEF vars, IInv, TypeOK, LockHeld, Transaction, Progress, ViewOwed
<1>2. ASSUME NEW r \in Rows, StoreSession(r)
      PROVE  IInv' /\ Grows
  BY <1>2, StoreKeeps
<1>3. ASSUME NEW p \in Starters, Kill(p)
      PROVE  IInv' /\ Grows
  BY <1>0, <1>3, KillKeeps
<1>4. ASSUME NEW p \in Starters, Start(p) \/ Inspect(p) \/ TimeOut(p)
      PROVE  IInv' /\ Grows
  <2>1. PICK to \in {"inspect", "drop view", "tables", "failed"} :
            /\ pc' = [pc EXCEPT ![p] = to]
            /\ to = "tables" => db.table # "narrow"
    BY <1>4 DEF Start, Inspect, TimeOut, Goes, Narrow
  <2>2. pc[p] \notin {"swap", "commit"} /\ UNCHANGED <<db, work, lock, faults>>
    BY <1>4 DEF Start, Inspect, TimeOut, Goes
  <2> QED
    BY <1>0, <2>1, <2>2, MoveKeeps
<1>5. ASSUME NEW p \in Starters, CopyRows(p) \/ SwapNames(p) \/ RenameFails(p)
      PROVE  IInv' /\ Grows
  BY <1>0, <1>5, TransactionKeeps
<1>6. ASSUME NEW p \in Starters, Commit(p)
      PROVE  IInv' /\ Grows
  BY <1>6, CommitKeeps
<1>7. ASSUME NEW p \in Starters, DropView(p)
      PROVE  IInv' /\ Grows
  <2>1. db' = [db EXCEPT !.view = FALSE] /\ [db EXCEPT !.view = FALSE] \in Database
    BY <1>7 DEF DropView, Autocommit, IInv, TypeOK, Database
  <2>2. Grows
    BY <2>1 DEF Grows, IInv, TypeOK, Database
  <2> QED
    BY <1>7, <2>1, <2>2, AutocommitKeeps DEF DropView
<1>8. ASSUME NEW p \in Starters, CreateMigrated(p)
      PROVE  IInv' /\ Grows
  <2>1. db' = [db EXCEPT !.migrated = TRUE] /\ [db EXCEPT !.migrated = TRUE] \in Database
    BY <1>8 DEF CreateMigrated, Autocommit, IInv, TypeOK, Database
  <2>2. Grows
    BY <2>1 DEF Grows, IInv, TypeOK, Database
  <2> QED
    BY <1>8, <2>1, <2>2, AutocommitKeeps DEF CreateMigrated
<1>9. ASSUME NEW p \in Starters, MigratedExists(p)
      PROVE  IInv' /\ Grows
  <2>1. Grows
    BY <1>0, <1>9 DEF MigratedExists, Autocommit
  <2> QED
    BY <1>9, <2>1, AutocommitKeeps DEF MigratedExists, IInv, TypeOK
<1>10. ASSUME NEW p \in Starters, CreateTables(p)
       PROVE  IInv' /\ Grows
  <2> DEFINE after == [db EXCEPT !.table = IF @ = "absent" THEN "wide" ELSE @]
  <2>1. db' = after /\ after \in Database /\ pc[p] = "tables"
    BY <1>10 DEF CreateTables, Autocommit, Goes, IInv, TypeOK, Database
  <2>2. db.table # "narrow"
    BY <2>1 DEF IInv, Progress
  <2>3. after.table = "wide" /\ Grows
    BY <2>1, <2>2 DEF Grows, IInv, TypeOK, Database
  <2> QED
    BY <1>10, <2>1, <2>3, AutocommitKeeps DEF CreateTables
<1>11. ASSUME NEW p \in Starters, CreateViews(p)
       PROVE  IInv' /\ Grows
  <2> DEFINE after == [db EXCEPT !.view = TRUE]
  <2>1. db' = after /\ after \in Database /\ pc[p] = "views"
    BY <1>11 DEF CreateViews, Autocommit, Goes, IInv, TypeOK, Database
  <2>2. after.view /\ after.table = "wide" /\ Grows
    BY <2>1 DEF Grows, IInv, TypeOK, Database, Progress
  <2> QED
    BY <1>11, <2>1, <2>2, AutocommitKeeps DEF CreateViews
<1>12. ASSUME NEW p \in Starters, Stamp(p)
       PROVE  IInv' /\ Grows
  <2> DEFINE after == [db EXCEPT !.version = schema_user_version]
  <2>1. db' = after /\ after \in Database /\ pc[p] = "stamp"
    BY <1>12 DEF Stamp, Autocommit, Goes, IInv, TypeOK, Database
  <2>2. /\ after.version = schema_user_version /\ after.table = "wide"
        /\ after.view = db.view /\ Grows
    BY <2>1 DEF Grows, IInv, TypeOK, Database, Progress
  <2> QED
    BY <1>12, <2>1, <2>2, AutocommitKeeps DEF Stamp
<1> QED
  BY <1>1, <1>2, <1>3, <1>4, <1>5, <1>6, <1>7, <1>8, <1>9, <1>10, <1>11, <1>12
     DEF Next, Step

LEMMA Invariant == Spec => []IInv
<1>1. IInv /\ [Next]_vars => IInv'
  BY Inductive
<1> QED
  BY Initially, <1>1, PTL DEF Spec

\* The database and every transaction on it keep their types, for any processes.
THEOREM TypeCorrect == Spec => []TypeOK
<1>1. IInv => TypeOK
  BY DEF IInv
<1> QED
  BY <1>1, Invariant, PTL

\* Who has initialised the schema has the wide table with the stamp of this version,
\* whoever migrated it and whatever happened to the others.
THEOREM WideAfterStart == Spec => []StartedMeansWide
<1>1. IInv => StartedMeansWide
  BY DEF IInv, Progress, StartedMeansWide
<1> QED
  BY <1>1, Invariant, PTL

\* When all have initialised the schema, the masked view is there again.
THEOREM ViewIsBack == Spec => []ViewPutBack
<1>1. IInv => ViewPutBack
  BY DEF IInv, ViewOwed, ViewPutBack
<1> QED
  BY <1>1, Invariant, PTL

\* No step of a migration, its rollback included, loses a stored session.
THEOREM NoRowLost == Spec => RowsSurvive
<1>1. IInv /\ [Next]_vars => [db.rows \subseteq db'.rows]_vars
  BY Inductive DEF Grows
<1> QED
  BY <1>1, Invariant, PTL DEF Spec, RowsSurvive
=============================================================================
