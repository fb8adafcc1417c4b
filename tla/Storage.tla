------------------------------- MODULE Storage -------------------------------
(***************************************************************************)
(* The write path of the central database: the tables `nodes`, `events`    *)
(* and `sessions` (common/db/schema.sql) and the methods of                *)
(* common/db/database.py that change them on behalf of the collector.      *)
(*                                                                         *)
(* Each action is one `with self.transaction()` block, which the process's *)
(* write lock and SQLite make atomic; what interleaves is whole blocks,    *)
(* from the collector's request threads and from the maintenance loop.     *)
(* Events come in any order: sensors retry from a spool, so a session_end  *)
(* may be stored before the connection it ends.                            *)
(***************************************************************************)
EXTENDS Integers, FiniteSets

CONSTANTS
    EventIds,        \* primary keys of `events`
    Nodes,           \* primary keys of `nodes`
    Sessions,        \* primary keys of `sessions`
    Usernames,       \* values of details.username
    MaxTime,         \* bound on the clock and on event timestamps
    NodeTimeout,     \* config.NODE_OFFLINE_AFTER_SECONDS
    SessionTimeout,  \* config.SESSION_STALE_AFTER_SECONDS
    Null,            \* SQL NULL
    NoRow            \* "no row with this primary key"

Times == 0 .. MaxTime

\* "activity" stands for the five event types that open or continue a session;
\* a session_end is told apart by what its details.status makes of the session.
Ends == {"closed", "failed"}
EventTypes == {"heartbeat", "activity"} \cup Ends

\* What the derived tables read of an envelope.
Envelope == [node     : Nodes,
             session  : Sessions \cup {Null},
             type     : EventTypes,
             ts       : Times,
             username : Usernames \cup {Null}]

NodeRow == [status : {"online", "offline"}, last_seen : Times \cup {Null}]

SessionRow == [node     : Nodes,
               username : Usernames \cup {Null},
               start    : Times,
               end      : Times \cup {Null},
               status   : {"active"} \cup Ends]

ASSUME BoundAssumption ==
    /\ MaxTime \in Nat
    /\ NodeTimeout \in Nat
    /\ SessionTimeout \in Nat

ASSUME NullAssumption ==
    /\ Null \notin Times
    /\ Null \notin Sessions
    /\ Null \notin Usernames
    /\ NoRow \notin Envelope
    /\ NoRow \notin NodeRow
    /\ NoRow \notin SessionRow

VARIABLES
    events,    \* [EventIds -> Envelope \cup {NoRow}]
    nodes,     \* [Nodes -> NodeRow \cup {NoRow}]
    sessions,  \* [Sessions -> SessionRow \cup {NoRow}]
    now        \* SQLite's julianday('now'), in units of the model

vars == <<events, nodes, sessions, now>>

Stored == {i \in EventIds : events[i] # NoRow}

Init ==
    /\ events = [i \in EventIds |-> NoRow]
    /\ nodes = [n \in Nodes |-> NoRow]
    /\ sessions = [s \in Sessions |-> NoRow]
    /\ now = 0

-----------------------------------------------------------------------------
(* Ingestion *)

\* Mutant: the null rule is only checked one way round.
ValidEventLax(e) ==
    /\ e.type # "heartbeat" => e.session # Null
    /\ e.username # Null => e.type = "activity"

\* validate_event: session_id (like attacker_ip and protocol) is null for a
\* heartbeat and for nothing else; only the login events may carry a username.
ValidEvent(e) ==
    /\ e.type = "heartbeat" <=> e.session = Null
    /\ e.username # Null => e.type = "activity"

\* COALESCE(a, b)
Coalesce(a, b) == IF a # Null THEN a ELSE b

Later(a, b) == IF a = Null \/ b > a THEN b ELSE a

\* Mutant: MAX for MIN.
EarlierSwapped(a, b) == IF b > a THEN b ELSE a

Earlier(a, b) == IF b < a THEN b ELSE a

\* Mutant: the newest arrival wins, not the newest timestamp.
TouchedNodeRewinds(row, e) == [status |-> "online", last_seen |-> e.ts]

\* _touch_node: last_seen only moves forward; any new event puts the node
\* online.  A missing row was inserted just before (INSERT OR IGNORE).
TouchedNode(row, e) ==
    [status    |-> "online",
     last_seen |-> IF row = NoRow THEN e.ts ELSE Later(row.last_seen, e.ts)]

\* The row the UPSERT of _derive_session inserts ...
NewSession(e) ==
    [node     |-> e.node,
     username |-> e.username,
     start    |-> e.ts,
     end      |-> IF e.type \in Ends THEN e.ts ELSE Null,
     status   |-> IF e.type \in Ends THEN e.type ELSE "active"]

\* Mutants of the conflict clause: the first end is kept, the sweep's too; the
\* status is that of the last event.
MergedSessionKeepsEnd(row, new) ==
    [row EXCEPT !.username = Coalesce(new.username, @),
                !.start = Earlier(@, new.start),
                !.end = Coalesce(@, new.end),
                !.status = IF @ \in Ends /\ new.status \notin Ends THEN @ ELSE new.status]

MergedSessionReopens(row, new) ==
    [row EXCEPT !.username = Coalesce(new.username, @),
                !.start = Earlier(@, new.start),
                !.end = Coalesce(new.end, @),
                !.status = new.status]

\* ... and its ON CONFLICT(session_id) DO UPDATE.
MergedSession(row, new) ==
    [node     |-> row.node,
     username |-> Coalesce(new.username, row.username),
     start    |-> Earlier(row.start, new.start),
     end      |-> Coalesce(new.end, row.end),
     status   |-> IF new.status \in Ends THEN new.status
                  ELSE IF row.status \in Ends THEN row.status
                  ELSE "active"]

DerivedSession(row, e) ==
    IF row = NoRow THEN NewSession(e) ELSE MergedSession(row, NewSession(e))

OfflineNode == [status |-> "offline", last_seen |-> Null]

\* apply_event, for an event that validates and whose id is new ("accepted").
\* One that does not validate raises before the transaction and changes nothing.
ApplyEvent(i, e) ==
    /\ ValidEvent(e)
    /\ i \notin Stored
    /\ events' = [events EXCEPT ![i] = e]
    /\ nodes' = [nodes EXCEPT ![e.node] = TouchedNode(@, e)]
    /\ sessions' = IF e.type = "heartbeat" THEN sessions
                   ELSE [sessions EXCEPT ![e.session] = DerivedSession(@, e)]
    /\ UNCHANGED now

\* apply_event, for an id that is stored, sent by node n ("duplicate"): the return
\* commits the INSERT OR IGNORE of the node row and nothing else.
ApplyDuplicate(i, n) ==
    /\ i \in Stored
    /\ nodes' = [nodes EXCEPT ![n] = IF @ = NoRow THEN OfflineNode ELSE @]
    /\ UNCHANGED <<events, sessions, now>>

-----------------------------------------------------------------------------
(* Registration and housekeeping *)

\* upsert_node as its one caller uses it: no status and no last_seen, so only a
\* new row changes anything modelled here.
UpsertNode(n) ==
    /\ nodes[n] = NoRow
    /\ nodes' = [nodes EXCEPT ![n] = OfflineNode]
    /\ UNCHANGED <<events, sessions, now>>

StaleNode(n) ==
    /\ nodes[n] # NoRow
    /\ nodes[n].status = "online"
    /\ \/ nodes[n].last_seen = Null
       \/ now - nodes[n].last_seen > NodeTimeout

\* Mutant: only a node that never sent anything is flipped.
MarkUnseenNodesOffline ==
    /\ nodes' = [n \in Nodes |-> IF StaleNode(n) /\ nodes[n].last_seen = Null
                                 THEN [nodes[n] EXCEPT !.status = "offline"]
                                 ELSE nodes[n]]
    /\ UNCHANGED <<events, sessions, now>>

MarkStaleNodesOffline ==
    /\ nodes' = [n \in Nodes |-> IF StaleNode(n)
                                 THEN [nodes[n] EXCEPT !.status = "offline"]
                                 ELSE nodes[n]]
    /\ UNCHANGED <<events, sessions, now>>

EventsOf(s) == {i \in Stored : events[i].session = s}

\* now - MAX(timestamp) > timeout, over the session's events.  A session has an
\* event (RowsAreDerived), so the query's fallback to start_time is never used.
Silent(s) == \A i \in EventsOf(s) : now - events[i].ts > SessionTimeout

StaleSession(s) ==
    /\ sessions[s] # NoRow
    /\ sessions[s].status = "active"
    /\ Silent(s)

\* Mutant: the end is filled in, the status is forgotten.
SweptSessionStaysActive(row) == [row EXCEPT !.end = Coalesce(@, row.start)]

SweptSession(row) ==
    [row EXCEPT !.status = "failed", !.end = Coalesce(@, row.start)]

CloseStaleSessions ==
    /\ sessions' = [s \in Sessions |-> IF StaleSession(s)
                                       THEN SweptSession(sessions[s])
                                       ELSE sessions[s]]
    /\ UNCHANGED <<events, nodes, now>>

Tick ==
    /\ now < MaxTime
    /\ now' = now + 1
    /\ UNCHANGED <<events, nodes, sessions>>

Next ==
    \/ \E i \in EventIds, e \in Envelope : ApplyEvent(i, e)
    \/ \E i \in EventIds, n \in Nodes : ApplyDuplicate(i, n)
    \/ \E n \in Nodes : UpsertNode(n)
    \/ MarkStaleNodesOffline
    \/ CloseStaleSessions
    \/ Tick

Spec == Init /\ [][Next]_vars

\* _maintenance_loop survives every failed pass, so each sweep keeps running.
FairSpec ==
    /\ Spec
    /\ WF_vars(MarkStaleNodesOffline)
    /\ WF_vars(CloseStaleSessions)

-----------------------------------------------------------------------------
(* Properties *)

\* The tables hold rows of their declared types (schema.sql's CHECKs).
TypeOK ==
    /\ events \in [EventIds -> Envelope \cup {NoRow}]
    /\ nodes \in [Nodes -> NodeRow \cup {NoRow}]
    /\ sessions \in [Sessions -> SessionRow \cup {NoRow}]
    /\ now \in Times

\* The derived tables agree with the event log they are derived from: a session
\* row exists exactly when an event of that session is stored, it belongs to the
\* node of one of them, and every stored event's node has a row (the foreign key).
RowsAreDerived ==
    /\ \A s \in Sessions :
          /\ sessions[s] # NoRow <=> EventsOf(s) # {}
          /\ sessions[s] # NoRow =>
                \E i \in EventsOf(s) : events[i].node = sessions[s].node
    /\ \A i \in Stored : nodes[events[i].node] # NoRow

\* However late or reordered its events, a session starts at its earliest one
\* ("earliest start" in _derive_session).
StartIsEarliest ==
    \A s \in Sessions : sessions[s] # NoRow =>
        /\ \E i \in EventsOf(s) : sessions[s].start = events[i].ts
        /\ \A i \in EventsOf(s) : sessions[s].start <= events[i].ts

\* last_seen is the timestamp of the node's newest stored event: a spool drained
\* late does not rewind it, a duplicate does not move it (_touch_node).
EventsFrom(n) == {i \in Stored : events[i].node = n}

LastSeenIsLatest ==
    \A n \in Nodes : nodes[n] # NoRow =>
        IF EventsFrom(n) = {} THEN nodes[n].last_seen = Null
        ELSE /\ \E i \in EventsFrom(n) : nodes[n].last_seen = events[i].ts
             /\ \A i \in EventsFrom(n) : events[i].ts <= nodes[n].last_seen

\* A stored session_end decides how the session ended, whatever the sweep did
\* before it and whatever arrived after it: both the end time and the outcome
\* are those of one stored session_end.  Without one, the session is active and
\* open-ended, or the sweep failed it no earlier than its start.
EndsOf(s) == {i \in EventsOf(s) : events[i].type \in Ends}

EndIsRecorded ==
    \A s \in Sessions : sessions[s] # NoRow =>
        IF EndsOf(s) # {}
        THEN \E i \in EndsOf(s) : /\ sessions[s].end = events[i].ts
                                  /\ sessions[s].status = events[i].type
        ELSE \/ sessions[s].status = "active" /\ sessions[s].end = Null
             \/ sessions[s].status = "failed" /\ sessions[s].end # Null

\* A session never ends before it starts, in any order of arrival: the session
\* views subtract the two for a duration (database.py's get_session queries).
EndNotBeforeStart ==
    \A s \in Sessions : sessions[s] # NoRow /\ sessions[s].end # Null =>
        sessions[s].start <= sessions[s].end

\* "A closed session is never reopened by a late-arriving early event"
\* (_derive_session), not even one the sweep closed while its events were in a
\* sensor's spool.
NeverReopened ==
    [][\A s \in Sessions : sessions[s] # NoRow /\ sessions[s].status \in Ends =>
          sessions'[s] # NoRow /\ sessions'[s].status \in Ends]_vars

\* The counter of active sessions does not only grow: a session whose node died
\* is swept, unless an event makes it young again (close_stale_sessions).
AbandonedSessionsEnd == \A s \in Sessions : []<>~StaleSession(s)

\* A node that falls silent is shown offline, also when a late event from its
\* spool puts it online for a moment (mark_stale_nodes_offline).
SilentNodesGoOffline == \A n \in Nodes : []<>~StaleNode(n)
=============================================================================
