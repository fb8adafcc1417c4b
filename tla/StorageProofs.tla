---------------------------- MODULE StorageProofs ----------------------------
(***************************************************************************)
(* What Storage promises, for every number of events, nodes and sessions   *)
(* and every order of arrival.                                             *)
(***************************************************************************)
EXTENDS Storage, TLAPS

-----------------------------------------------------------------------------
(* What each action does to one row *)

\* An accepted event adds itself to the log, to its node's events and to its
\* session's events, and to nothing else.
LEMMA AppliedLog ==
    ASSUME TypeOK, NEW i \in EventIds, NEW e \in Envelope, ApplyEvent(i, e)
    PROVE  /\ events'[i] = e
           /\ \A j \in EventIds \ {i} : events'[j] = events[j]
           /\ Stored' = Stored \cup {i}
           /\ i \notin Stored
           /\ \A s \in Sessions :
                 EventsOf(s)' = IF e.session = s THEN EventsOf(s) \cup {i} ELSE EventsOf(s)
           /\ \A n \in Nodes :
                 EventsFrom(n)' = IF e.node = n THEN EventsFrom(n) \cup {i} ELSE EventsFrom(n)
<1>1. /\ events'[i] = e
      /\ \A j \in EventIds \ {i} : events'[j] = events[j]
      /\ i \notin Stored
  BY DEF TypeOK, ApplyEvent
<1>2. e # NoRow
  BY NullAssumption
<1>3. Stored' = Stored \cup {i}
  BY <1>1, <1>2 DEF Stored
<1>4. ASSUME NEW s \in Sessions
      PROVE EventsOf(s)' = IF e.session = s THEN EventsOf(s) \cup {i} ELSE EventsOf(s)
  BY <1>1, <1>3 DEF EventsOf, Stored
<1>5. ASSUME NEW n \in Nodes
      PROVE EventsFrom(n)' = IF e.node = n THEN EventsFrom(n) \cup {i} ELSE EventsFrom(n)
  BY <1>1, <1>3 DEF EventsFrom, Stored
<1> QED
  BY <1>1, <1>3, <1>4, <1>5

\* It changes the row of its own node only ...
LEMMA AppliedNodes ==
    ASSUME TypeOK, NEW i \in EventIds, NEW e \in Envelope, ApplyEvent(i, e)
    PROVE  /\ nodes'[e.node] = TouchedNode(nodes[e.node], e)
           /\ \A n \in Nodes \ {e.node} : nodes'[n] = nodes[n]
           /\ nodes'[e.node] \in NodeRow
<1>1. e.node \in Nodes /\ e.ts \in Times
  BY DEF Envelope
<1>2. /\ nodes'[e.node] = TouchedNode(nodes[e.node], e)
      /\ \A n \in Nodes \ {e.node} : nodes'[n] = nodes[n]
  BY <1>1 DEF TypeOK, ApplyEvent
<1>3. TouchedNode(nodes[e.node], e) \in NodeRow
  BY <1>1 DEF TypeOK, TouchedNode, NodeRow, Later
<1> QED
  BY <1>2, <1>3

\* ... and the row of its own session only, unless it is a heartbeat.
LEMMA AppliedSessions ==
    ASSUME TypeOK, NEW i \in EventIds, NEW e \in Envelope, ApplyEvent(i, e)
    PROVE  \A s \in Sessions :
              IF e.session = s
              THEN /\ sessions'[s] = DerivedSession(sessions[s], e)
                   /\ sessions'[s] \in SessionRow
              ELSE sessions'[s] = sessions[s]
<1>0. /\ e.node \in Nodes /\ e.ts \in Times /\ e.type \in EventTypes
      /\ e.session \in Sessions \cup {Null} /\ e.username \in Usernames \cup {Null}
      /\ e.type = "heartbeat" <=> e.session = Null
  BY DEF Envelope, ApplyEvent, ValidEvent
<1>1. SUFFICES ASSUME NEW s \in Sessions
      PROVE IF e.session = s
            THEN /\ sessions'[s] = DerivedSession(sessions[s], e)
                 /\ sessions'[s] \in SessionRow
            ELSE sessions'[s] = sessions[s]
  OBVIOUS
<1>2. CASE e.session # s
  BY <1>0, <1>2 DEF ApplyEvent, TypeOK
<1>3. CASE e.session = s
  <2>1. e.type # "heartbeat"
    BY <1>0, <1>3, NullAssumption
  <2>2. sessions'[s] = DerivedSession(sessions[s], e)
    BY <2>1, <1>3 DEF ApplyEvent, TypeOK
  <2>3. NewSession(e) \in SessionRow
    BY <1>0, <2>1 DEF NewSession, SessionRow, Ends
  <2>4. CASE sessions[s] = NoRow
    BY <2>2, <2>3, <2>4, <1>3 DEF DerivedSession
  <2>5. CASE sessions[s] # NoRow
    <3>1. sessions[s] \in SessionRow
      BY <2>5 DEF TypeOK
    <3>2. MergedSession(sessions[s], NewSession(e)) \in SessionRow
      BY <3>1, <2>3 DEF MergedSession, SessionRow, Coalesce, Earlier, Ends
    <3> QED
      BY <2>2, <3>2, <2>5, <1>3 DEF DerivedSession
  <2> QED
    BY <2>4, <2>5
<1> QED
  BY <1>2, <1>3

\* The sweep fails the stale sessions, where they started, and no other.
LEMMA SweptRows ==
    ASSUME TypeOK, CloseStaleSessions, NEW s \in Sessions, sessions[s] # NoRow
    PROVE  /\ sessions[s] \in SessionRow
           /\ sessions'[s] \in SessionRow
           /\ sessions'[s] # NoRow
           /\ sessions'[s].node = sessions[s].node
           /\ sessions'[s].start = sessions[s].start
           /\ \/ sessions'[s] = sessions[s]
              \/ /\ sessions[s].status = "active"
                 /\ sessions'[s].status = "failed"
                 /\ sessions'[s].end = Coalesce(sessions[s].end, sessions[s].start)
<1>1. sessions[s] \in SessionRow
  BY DEF TypeOK
<1>2. CASE StaleSession(s)
  <2>1. sessions'[s] = SweptSession(sessions[s])
    BY <1>2 DEF CloseStaleSessions
  <2>2. sessions'[s] \in SessionRow
    BY <1>1, <2>1 DEF SweptSession, SessionRow, Coalesce, Ends
  <2>3. /\ sessions'[s].node = sessions[s].node
        /\ sessions'[s].start = sessions[s].start
        /\ sessions'[s].status = "failed"
        /\ sessions'[s].end = Coalesce(sessions[s].end, sessions[s].start)
    BY <1>1, <2>1 DEF SweptSession, SessionRow
  <2> QED
    BY <1>1, <1>2, <2>2, <2>3, NullAssumption DEF StaleSession
<1>3. CASE ~StaleSession(s)
  BY <1>1, <1>3 DEF CloseStaleSessions
<1> QED
  BY <1>2, <1>3

-----------------------------------------------------------------------------
(* Type correctness *)

\* Every row that a transaction writes satisfies the schema's CHECKs, whatever
\* events arrive in whatever order.
THEOREM TypeCorrect == Spec => []TypeOK
<1>1. Init => TypeOK
  BY BoundAssumption DEF Init, TypeOK, Times
<1>2. TypeOK /\ [Next]_vars => TypeOK'
  <2> SUFFICES ASSUME TypeOK, [Next]_vars PROVE TypeOK'
    OBVIOUS
  <2>1. ASSUME NEW i \in EventIds, NEW e \in Envelope, ApplyEvent(i, e) PROVE TypeOK'
    <3>1. events' \in [EventIds -> Envelope \cup {NoRow}]
      BY <2>1 DEF TypeOK, ApplyEvent
    <3>2. nodes' \in [Nodes -> NodeRow \cup {NoRow}]
      <4>1. nodes' = [nodes EXCEPT ![e.node] = TouchedNode(@, e)]
        BY <2>1 DEF ApplyEvent
      <4> QED
        BY <4>1, <2>1, AppliedNodes DEF TypeOK
    <3>3. sessions' \in [Sessions -> SessionRow \cup {NoRow}]
      <4>1. sessions' = [s \in Sessions |-> sessions'[s]]
        BY <2>1 DEF TypeOK, ApplyEvent
      <4>2. \A s \in Sessions : sessions'[s] \in SessionRow \cup {NoRow}
        BY <2>1, AppliedSessions DEF TypeOK
      <4> QED
        BY <4>1, <4>2
    <3> QED
      BY <3>1, <3>2, <3>3, <2>1 DEF TypeOK, ApplyEvent
  <2>2. ASSUME NEW i \in EventIds, NEW n \in Nodes, ApplyDuplicate(i, n) PROVE TypeOK'
    BY <2>2 DEF TypeOK, ApplyDuplicate, OfflineNode, NodeRow
  <2>3. ASSUME NEW n \in Nodes, UpsertNode(n) PROVE TypeOK'
    BY <2>3 DEF TypeOK, UpsertNode, OfflineNode, NodeRow
  <2>4. CASE MarkStaleNodesOffline
    BY <2>4 DEF TypeOK, MarkStaleNodesOffline, StaleNode, NodeRow
  <2>5. CASE CloseStaleSessions
    <3>1. \A s \in Sessions : sessions'[s] \in SessionRow \cup {NoRow}
      BY <2>5, SweptRows DEF CloseStaleSessions, StaleSession, TypeOK
    <3> QED
      BY <3>1, <2>5 DEF TypeOK, CloseStaleSessions
  <2>6. CASE Tick
    BY <2>6, BoundAssumption DEF TypeOK, Tick, Times
  <2>7. CASE UNCHANGED vars
    BY <2>7 DEF TypeOK, vars
  <2> QED
    BY <2>1, <2>2, <2>3, <2>4, <2>5, <2>6, <2>7 DEF Next
<1> QED
  BY <1>1, <1>2, PTL DEF Spec

-----------------------------------------------------------------------------
(* The derived tables *)

\* The three facts about sessions and nodes lean on RowsAreDerived (a session
\* without a row has no event yet, and so has no earlier start to lose), and
\* EndNotBeforeStart leans on nothing but itself.
IInv ==
    /\ TypeOK
    /\ RowsAreDerived
    /\ StartIsEarliest
    /\ LastSeenIsLatest
    /\ EndIsRecorded
    /\ EndNotBeforeStart

\* RowsAreDerived is kept by a new event: its session and its node get a row.
LEMMA AppliedRows ==
    ASSUME TypeOK, RowsAreDerived,
           NEW i \in EventIds, NEW e \in Envelope, ApplyEvent(i, e)
    PROVE  RowsAreDerived'
<1>0. e.node \in Nodes /\ e # NoRow /\ i \notin Stored
  BY NullAssumption DEF Envelope, ApplyEvent
<1>1. ASSUME NEW s \in Sessions
      PROVE /\ sessions'[s] # NoRow <=> EventsOf(s)' # {}
            /\ sessions'[s] # NoRow =>
                  \E j \in EventsOf(s)' : events'[j].node = sessions'[s].node
  <2>1. CASE e.session # s
    <3>1. sessions'[s] = sessions[s] /\ EventsOf(s)' = EventsOf(s)
      BY <2>1, AppliedSessions, AppliedLog
    <3>2. \A j \in EventsOf(s) : events'[j] = events[j]
      BY <1>0, AppliedLog DEF EventsOf, Stored
    <3> QED
      BY <3>1, <3>2 DEF RowsAreDerived
  <2>2. CASE e.session = s
    <3>1. /\ EventsOf(s)' = EventsOf(s) \cup {i}
          /\ events'[i] = e
          /\ \A j \in EventsOf(s) : events'[j] = events[j]
      BY <2>2, <1>0, AppliedLog DEF EventsOf, Stored
    <3>2. /\ sessions'[s] = DerivedSession(sessions[s], e)
          /\ sessions'[s] # NoRow
      BY <2>2, AppliedSessions, NullAssumption
    <3>3. CASE sessions[s] = NoRow
      <4>1. sessions'[s].node = e.node
        BY <3>2, <3>3 DEF DerivedSession, NewSession
      <4> QED
        BY <3>1, <3>2, <4>1
    <3>4. CASE sessions[s] # NoRow
      <4>1. sessions'[s].node = sessions[s].node
        BY <3>2, <3>4 DEF DerivedSession, MergedSession
      <4>2. PICK j \in EventsOf(s) : events[j].node = sessions[s].node
        BY <3>4 DEF RowsAreDerived
      <4> QED
        BY <3>1, <3>2, <4>1, <4>2
    <3> QED
      BY <3>3, <3>4
  <2> QED
    BY <2>1, <2>2
<1>2. ASSUME NEW j \in Stored'
      PROVE nodes'[events'[j].node] # NoRow
  <2>1. CASE j = i
    BY <2>1, AppliedLog, AppliedNodes, NullAssumption
  <2>2. CASE j # i
    <3>1. j \in Stored /\ events'[j] = events[j] /\ events[j].node \in Nodes
      BY <2>2, AppliedLog DEF Stored, TypeOK, Envelope
    <3> QED
      BY <3>1, AppliedNodes, NullAssumption DEF RowsAreDerived
  <2> QED
    BY <2>1, <2>2
<1> QED
  BY <1>1, <1>2 DEF RowsAreDerived

\* So is StartIsEarliest: a later start cannot win over an earlier one.
LEMMA AppliedStart ==
    ASSUME TypeOK, RowsAreDerived, StartIsEarliest,
           NEW i \in EventIds, NEW e \in Envelope, ApplyEvent(i, e)
    PROVE  StartIsEarliest'
<1>1. SUFFICES ASSUME NEW s \in Sessions, sessions'[s] # NoRow
               PROVE  /\ \E j \in EventsOf(s)' : sessions'[s].start = events'[j].ts
                      /\ \A j \in EventsOf(s)' : sessions'[s].start <= events'[j].ts
  BY DEF StartIsEarliest
<1>2. /\ events'[i] = e
      /\ \A j \in EventsOf(s) : events'[j] = events[j] /\ events[j].ts \in Times
      /\ e.ts \in Times
  BY AppliedLog DEF EventsOf, Stored, TypeOK, Envelope
<1>3. CASE e.session # s
  <2>1. sessions'[s] = sessions[s] /\ EventsOf(s)' = EventsOf(s)
    BY <1>3, AppliedSessions, AppliedLog
  <2> QED
    BY <1>1, <1>2, <2>1 DEF StartIsEarliest
<1>4. CASE e.session = s
  <2>1. /\ EventsOf(s)' = EventsOf(s) \cup {i}
        /\ sessions'[s] = DerivedSession(sessions[s], e)
    BY <1>4, AppliedLog, AppliedSessions
  <2>2. CASE sessions[s] = NoRow
    <3>1. EventsOf(s) = {}
      BY <2>2 DEF RowsAreDerived
    <3>2. sessions'[s].start = e.ts
      BY <2>1, <2>2 DEF DerivedSession, NewSession
    <3> QED
      BY <1>2, <2>1, <3>1, <3>2, BoundAssumption DEF Times
  <2>3. CASE sessions[s] # NoRow
    <3>1. sessions'[s].start = Earlier(sessions[s].start, e.ts)
      BY <2>1, <2>3 DEF DerivedSession, MergedSession, NewSession
    <3>2. /\ \E j \in EventsOf(s) : sessions[s].start = events[j].ts
          /\ \A j \in EventsOf(s) : sessions[s].start <= events[j].ts
          /\ sessions[s].start \in Times
      BY <2>3 DEF StartIsEarliest, TypeOK, SessionRow
    <3> QED
      BY <1>2, <2>1, <3>1, <3>2, BoundAssumption DEF Earlier, Times
  <2> QED
    BY <2>2, <2>3
<1> QED
  BY <1>3, <1>4

\* So is LastSeenIsLatest: a node without a row has sent nothing, and an older
\* event does not rewind one that has.
LEMMA AppliedLastSeen ==
    ASSUME TypeOK, RowsAreDerived, LastSeenIsLatest,
           NEW i \in EventIds, NEW e \in Envelope, ApplyEvent(i, e)
    PROVE  LastSeenIsLatest'
<1>1. SUFFICES ASSUME NEW n \in Nodes, nodes'[n] # NoRow
               PROVE  IF EventsFrom(n)' = {} THEN nodes'[n].last_seen = Null
                      ELSE /\ \E j \in EventsFrom(n)' : nodes'[n].last_seen = events'[j].ts
                           /\ \A j \in EventsFrom(n)' : events'[j].ts <= nodes'[n].last_seen
  BY DEF LastSeenIsLatest
<1>2. /\ events'[i] = e
      /\ \A j \in EventsFrom(n) : events'[j] = events[j] /\ events[j].ts \in Times
      /\ e.ts \in Times
  BY AppliedLog DEF EventsFrom, Stored, TypeOK, Envelope
<1>3. CASE e.node # n
  <2>1. nodes'[n] = nodes[n] /\ EventsFrom(n)' = EventsFrom(n)
    BY <1>3, AppliedNodes, AppliedLog
  <2> QED
    BY <1>1, <1>2, <2>1 DEF LastSeenIsLatest
<1>4. CASE e.node = n
  <2>1. /\ EventsFrom(n)' = EventsFrom(n) \cup {i}
        /\ nodes'[n] = TouchedNode(nodes[n], e)
    BY <1>4, AppliedLog, AppliedNodes
  <2>2. CASE nodes[n] = NoRow \/ EventsFrom(n) = {}
    <3>1. EventsFrom(n) = {}
      BY <2>2 DEF RowsAreDerived, EventsFrom
    <3>2. nodes'[n].last_seen = e.ts
      BY <2>1, <2>2, <3>1 DEF TouchedNode, Later, LastSeenIsLatest
    <3> QED
      BY <1>2, <2>1, <3>1, <3>2, BoundAssumption DEF Times
  <2>3. CASE nodes[n] # NoRow /\ EventsFrom(n) # {}
    <3>1. nodes'[n].last_seen = Later(nodes[n].last_seen, e.ts)
      BY <2>1, <2>3 DEF TouchedNode
    <3>2. /\ \E j \in EventsFrom(n) : nodes[n].last_seen = events[j].ts
          /\ \A j \in EventsFrom(n) : events[j].ts <= nodes[n].last_seen
      BY <2>3 DEF LastSeenIsLatest
    <3>3. nodes[n].last_seen \in Times /\ nodes[n].last_seen # Null
      BY <1>2, <3>2, NullAssumption
    <3> QED
      BY <1>2, <2>1, <3>1, <3>2, <3>3, BoundAssumption DEF Later, Times
  <2> QED
    BY <2>2, <2>3
<1> QED
  BY <1>3, <1>4

\* EndIsRecorded: an end replaces whatever was recorded, and nothing else does.
LEMMA AppliedEnd ==
    ASSUME TypeOK, RowsAreDerived, EndIsRecorded,
           NEW i \in EventIds, NEW e \in Envelope, ApplyEvent(i, e)
    PROVE  EndIsRecorded'
<1>1. SUFFICES ASSUME NEW s \in Sessions, sessions'[s] # NoRow
               PROVE  IF EndsOf(s)' # {}
                      THEN \E j \in EndsOf(s)' : /\ sessions'[s].end = events'[j].ts
                                                 /\ sessions'[s].status = events'[j].type
                      ELSE \/ sessions'[s].status = "active" /\ sessions'[s].end = Null
                           \/ sessions'[s].status = "failed" /\ sessions'[s].end # Null
  BY DEF EndIsRecorded
<1>2. /\ events'[i] = e
      /\ \A j \in EventsOf(s) : events'[j] = events[j]
      /\ e.ts # Null
  BY AppliedLog, NullAssumption DEF EventsOf, Stored, Envelope
<1>3. CASE e.session # s
  <2>1. sessions'[s] = sessions[s] /\ EventsOf(s)' = EventsOf(s)
    BY <1>3, AppliedSessions, AppliedLog
  <2>2. EndsOf(s)' = EndsOf(s)
    BY <1>2, <2>1 DEF EndsOf
  <2> QED
    BY <1>1, <1>2, <2>1, <2>2 DEF EndIsRecorded, EndsOf
<1>4. CASE e.session = s
  <2>1. /\ EventsOf(s)' = EventsOf(s) \cup {i}
        /\ sessions'[s] = DerivedSession(sessions[s], e)
    BY <1>4, AppliedLog, AppliedSessions
  <2>2. CASE e.type \in Ends
    <3>1. i \in EndsOf(s)'
      BY <1>2, <2>1, <2>2 DEF EndsOf
    <3>2. sessions'[s].end = e.ts /\ sessions'[s].status = e.type
      BY <1>2, <2>1, <2>2 DEF DerivedSession, NewSession, MergedSession, Coalesce
    <3> QED
      BY <1>2, <3>1, <3>2
  <2>3. CASE e.type \notin Ends
    <3>1. EndsOf(s)' = EndsOf(s)
      BY <1>2, <2>1, <2>3 DEF EndsOf
    <3>2. CASE sessions[s] = NoRow
      <4>1. EndsOf(s) = {}
        BY <3>2 DEF RowsAreDerived, EndsOf
      <4>2. sessions'[s].status = "active" /\ sessions'[s].end = Null
        BY <2>1, <2>3, <3>2 DEF DerivedSession, NewSession
      <4> QED
        BY <3>1, <4>1, <4>2
    <3>3. CASE sessions[s] # NoRow
      <4>1. /\ sessions'[s].end = sessions[s].end
            /\ sessions'[s].status = IF sessions[s].status \in Ends
                                     THEN sessions[s].status ELSE "active"
        BY <2>1, <2>3, <3>3
           DEF DerivedSession, NewSession, MergedSession, Coalesce, Ends
      <4>2. sessions'[s].status = sessions[s].status
        BY <4>1, <3>3 DEF TypeOK, SessionRow
      <4> QED
        BY <1>2, <3>1, <3>3, <4>1, <4>2 DEF EndIsRecorded, EndsOf
    <3> QED
      BY <3>2, <3>3
  <2> QED
    BY <2>2, <2>3
<1> QED
  BY <1>3, <1>4

\* EndNotBeforeStart: whichever of the two an event moves, the start is a minimum
\* that the event takes part in.
LEMMA AppliedSpan ==
    ASSUME TypeOK, EndNotBeforeStart,
           NEW i \in EventIds, NEW e \in Envelope, ApplyEvent(i, e)
    PROVE  EndNotBeforeStart'
<1>1. SUFFICES ASSUME NEW s \in Sessions, sessions'[s] # NoRow, sessions'[s].end # Null
               PROVE  sessions'[s].start <= sessions'[s].end
  BY DEF EndNotBeforeStart
<1>2. CASE e.session # s
  BY <1>1, <1>2, AppliedSessions DEF EndNotBeforeStart
<1>3. CASE e.session = s
  <2>1. sessions'[s] = DerivedSession(sessions[s], e) /\ e.ts \in Times
    BY <1>3, AppliedSessions DEF Envelope
  <2>2. CASE sessions[s] = NoRow
    BY <1>1, <2>1, <2>2, BoundAssumption DEF DerivedSession, NewSession, Times
  <2>3. CASE sessions[s] # NoRow
    <3>1. /\ sessions[s].start \in Times
          /\ sessions[s].end \in Times \cup {Null}
          /\ sessions[s].end # Null => sessions[s].start <= sessions[s].end
      BY <2>3 DEF TypeOK, SessionRow, EndNotBeforeStart
    <3>2. /\ sessions'[s].start = Earlier(sessions[s].start, e.ts)
          /\ sessions'[s].end = e.ts \/ sessions'[s].end = sessions[s].end
      BY <2>1, <2>3 DEF DerivedSession, MergedSession, NewSession, Coalesce
    <3> QED
      BY <1>1, <2>1, <3>1, <3>2, BoundAssumption DEF Earlier, Times
  <2> QED
    BY <2>2, <2>3
<1> QED
  BY <1>2, <1>3

\* The sweep reads and keeps the log, and only ever ends an open session.
LEMMA SweepKeeps ==
    ASSUME IInv, CloseStaleSessions
    PROVE  /\ RowsAreDerived'
           /\ StartIsEarliest'
           /\ EndIsRecorded'
           /\ EndNotBeforeStart'
<1> USE DEF IInv
<1>1. /\ events' = events /\ nodes' = nodes
      /\ Stored' = Stored
      /\ \A s \in Sessions : EventsOf(s)' = EventsOf(s) /\ EndsOf(s)' = EndsOf(s)
  BY DEF CloseStaleSessions, Stored, EventsOf, EndsOf
<1>2. \A s \in Sessions : sessions'[s] # NoRow => sessions[s] # NoRow
  BY DEF CloseStaleSessions, StaleSession
<1>3. RowsAreDerived'
  BY <1>1, <1>2, SweptRows DEF RowsAreDerived
<1>4. StartIsEarliest'
  BY <1>1, <1>2, SweptRows DEF StartIsEarliest
<1>5. EndIsRecorded'
  <2>1. SUFFICES ASSUME NEW s \in Sessions, sessions'[s] # NoRow
                 PROVE  IF EndsOf(s) # {}
                        THEN \E j \in EndsOf(s) : /\ sessions'[s].end = events[j].ts
                                                  /\ sessions'[s].status = events[j].type
                        ELSE \/ sessions'[s].status = "active" /\ sessions'[s].end = Null
                             \/ sessions'[s].status = "failed" /\ sessions'[s].end # Null
    BY <1>1 DEF EndIsRecorded
  <2>2. CASE sessions'[s] = sessions[s]
    BY <2>1, <2>2 DEF EndIsRecorded
  <2>3. CASE sessions'[s] # sessions[s]
    <3>1. /\ sessions[s] # NoRow /\ sessions[s] \in SessionRow
          /\ sessions[s].status = "active"
          /\ sessions'[s].status = "failed"
          /\ sessions'[s].end = Coalesce(sessions[s].end, sessions[s].start)
      BY <1>2, <2>1, <2>3, SweptRows
    <3>2. EndsOf(s) = {}
      BY <3>1 DEF EndIsRecorded, EndsOf, Ends
    <3>3. sessions'[s].end # Null
      BY <3>1, NullAssumption DEF Coalesce, SessionRow
    <3> QED
      BY <3>1, <3>2, <3>3
  <2> QED
    BY <2>2, <2>3
<1>6. EndNotBeforeStart'
  <2>1. SUFFICES ASSUME NEW s \in Sessions, sessions'[s] # NoRow, sessions'[s].end # Null
                 PROVE  sessions'[s].start <= sessions'[s].end
    BY DEF EndNotBeforeStart
  <2>2. /\ sessions[s].start \in Times
        /\ sessions'[s].start = sessions[s].start
        /\ \/ sessions'[s].end = sessions[s].end
           \/ sessions'[s].end = Coalesce(sessions[s].end, sessions[s].start)
        /\ sessions[s].end # Null => sessions[s].start <= sessions[s].end
    BY <1>2, <2>1, SweptRows DEF EndNotBeforeStart, SessionRow
  <2> QED
    BY <2>1, <2>2, BoundAssumption DEF Coalesce, Times
<1> QED
  BY <1>3, <1>4, <1>5, <1>6

-----------------------------------------------------------------------------
(* The theorems *)

LEMMA Inductive == Spec => []IInv
<1>1. Init => IInv
  <2> SUFFICES ASSUME Init PROVE IInv
    OBVIOUS
  <2>1. TypeOK /\ Stored = {}
    BY BoundAssumption DEF Init, TypeOK, Times, Stored
  <2> QED
    BY <2>1 DEF Init, IInv, RowsAreDerived, StartIsEarliest, LastSeenIsLatest,
       EndIsRecorded, EndNotBeforeStart, EventsOf, EventsFrom
<1>2. IInv /\ TypeOK' /\ [Next]_vars => IInv'
  <2> SUFFICES ASSUME IInv, TypeOK', [Next]_vars PROVE IInv'
    OBVIOUS
  <2> USE DEF IInv
  <2>1. ASSUME NEW i \in EventIds, NEW e \in Envelope, ApplyEvent(i, e) PROVE IInv'
    BY <2>1, AppliedRows, AppliedStart, AppliedLastSeen, AppliedEnd, AppliedSpan
  <2>2. ASSUME \/ \E i \in EventIds, n \in Nodes : ApplyDuplicate(i, n)
               \/ \E n \in Nodes : UpsertNode(n)
               \/ MarkStaleNodesOffline
        PROVE IInv'
    <3>1. /\ events' = events /\ sessions' = sessions
          /\ Stored' = Stored
          /\ \A s \in Sessions : EventsOf(s)' = EventsOf(s) /\ EndsOf(s)' = EndsOf(s)
          /\ \A n \in Nodes : EventsFrom(n)' = EventsFrom(n)
      BY <2>2 DEF ApplyDuplicate, UpsertNode, MarkStaleNodesOffline,
                  Stored, EventsOf, EndsOf, EventsFrom
    <3>2. \A n \in Nodes :
            \/ nodes'[n] = NoRow /\ nodes[n] = NoRow
            \/ nodes'[n] # NoRow /\ nodes[n] # NoRow
                  /\ nodes'[n].last_seen = nodes[n].last_seen
            \/ nodes'[n] = OfflineNode /\ nodes[n] = NoRow
      <4>1. CASE \E i \in EventIds, n \in Nodes : ApplyDuplicate(i, n)
        BY <4>1 DEF ApplyDuplicate, TypeOK
      <4>2. CASE \E n \in Nodes : UpsertNode(n)
        BY <4>2 DEF UpsertNode, TypeOK
      <4>3. CASE MarkStaleNodesOffline
        <5> SUFFICES ASSUME NEW n \in Nodes, nodes[n] # NoRow
                     PROVE  /\ nodes'[n] # NoRow
                            /\ nodes'[n].last_seen = nodes[n].last_seen
          BY <4>3 DEF MarkStaleNodesOffline, StaleNode
        <5>1. nodes[n] \in NodeRow /\ nodes'[n] \in NodeRow \cup {NoRow}
          BY DEF TypeOK
        <5>2. nodes'[n] = nodes[n] \/ nodes'[n] = [nodes[n] EXCEPT !.status = "offline"]
          BY <4>3 DEF MarkStaleNodesOffline
        <5>3. [nodes[n] EXCEPT !.status = "offline"] \in NodeRow
          BY <5>1 DEF NodeRow
        <5> QED
          BY <5>1, <5>2, <5>3, NullAssumption DEF NodeRow
      <4> QED
        BY <2>2, <4>1, <4>2, <4>3
    <3>3. RowsAreDerived'
      <4>1. \A i \in Stored : events[i].node \in Nodes
        BY DEF TypeOK, Stored, Envelope
      <4>2. OfflineNode # NoRow
        BY NullAssumption DEF OfflineNode, NodeRow
      <4> QED
        BY <3>1, <3>2, <4>1, <4>2 DEF RowsAreDerived
    <3>4. LastSeenIsLatest'
      <4>1. \A n \in Nodes : nodes[n] = NoRow => EventsFrom(n) = {}
        BY DEF RowsAreDerived, EventsFrom
      <4>2. OfflineNode.last_seen = Null
        BY DEF OfflineNode
      <4> QED
        BY <3>1, <3>2, <4>1, <4>2 DEF LastSeenIsLatest
    <3> QED
      BY <3>1, <3>3, <3>4 DEF StartIsEarliest, EndIsRecorded, EndNotBeforeStart
  <2>3. CASE CloseStaleSessions
    <3>1. LastSeenIsLatest'
      BY <2>3 DEF CloseStaleSessions, LastSeenIsLatest, EventsFrom, Stored
    <3> QED
      BY <2>3, <3>1, SweepKeeps
  <2>4. CASE Tick \/ UNCHANGED vars
    <3>1. UNCHANGED <<events, nodes, sessions>>
      BY <2>4 DEF Tick, vars
    <3> QED
      BY <3>1 DEF RowsAreDerived, StartIsEarliest, LastSeenIsLatest, EndIsRecorded,
                  EndNotBeforeStart, EventsOf, EndsOf, EventsFrom, Stored
  <2> QED
    BY <2>1, <2>2, <2>3, <2>4 DEF Next
<1> QED
  BY <1>1, <1>2, TypeCorrect, PTL DEF Spec

\* The sessions and nodes tables never disagree with the event log.
THEOREM DerivedFromLog == Spec => []RowsAreDerived
BY Inductive, PTL DEF IInv

\* A session starts at its earliest stored event, in every order of arrival.
THEOREM EarliestStart == Spec => []StartIsEarliest
BY Inductive, PTL DEF IInv

\* A node was last seen at its newest stored event: nothing rewinds last_seen.
THEOREM LatestLastSeen == Spec => []LastSeenIsLatest
BY Inductive, PTL DEF IInv

\* A stored session_end decides how its session ended, whatever the sweep did.
THEOREM RecordedEnd == Spec => []EndIsRecorded
BY Inductive, PTL DEF IInv

\* No session ends before it starts.
THEOREM OrderedSpan == Spec => []EndNotBeforeStart
BY Inductive, PTL DEF IInv

\* No step reopens a session that has ended.
THEOREM NoReopening == Spec => NeverReopened
<1>1. TypeOK /\ TypeOK' /\ [Next]_vars =>
        [\A s \in Sessions : sessions[s] # NoRow /\ sessions[s].status \in Ends =>
            sessions'[s] # NoRow /\ sessions'[s].status \in Ends]_vars
  <2> SUFFICES ASSUME TypeOK, [Next]_vars, NEW s \in Sessions,
                      sessions[s] # NoRow, sessions[s].status \in Ends
               PROVE  sessions'[s] # NoRow /\ sessions'[s].status \in Ends
    OBVIOUS
  <2>1. ASSUME NEW i \in EventIds, NEW e \in Envelope, ApplyEvent(i, e)
        PROVE  sessions'[s] # NoRow /\ sessions'[s].status \in Ends
    <3>1. CASE e.session # s
      BY <2>1, <3>1, AppliedSessions
    <3>2. CASE e.session = s
      <4>1. sessions'[s] = DerivedSession(sessions[s], e) /\ sessions'[s] # NoRow
        BY <2>1, <3>2, AppliedSessions, NullAssumption
      <4> QED
        BY <4>1 DEF DerivedSession, MergedSession
    <3> QED
      BY <3>1, <3>2
  <2>2. CASE CloseStaleSessions
    BY <2>2, SweptRows DEF Ends
  <2>3. CASE UNCHANGED sessions
    BY <2>3
  <2> QED
    BY <2>1, <2>2, <2>3
       DEF Next, ApplyDuplicate, UpsertNode, MarkStaleNodesOffline, Tick, vars
<1> QED
  BY <1>1, TypeCorrect, PTL DEF Spec, NeverReopened
=============================================================================
