------------------------------ MODULE Pipeline ------------------------------
(***************************************************************************)
(* One sensor's Shipper, the network, and the collector that answers it    *)
(* (core/collector/app/main.py over Database.apply_events).                *)
(*                                                                         *)
(* A post is one request.  The collector handles it in a thread of its     *)
(* pool, one transaction per event, and does not know when the sensor has  *)
(* given up waiting: the abandoned request is handled to its end beside    *)
(* the retry.  `stored` is the primary key of the events table; what a     *)
(* stored event does to the other tables is module Storage.                *)
(***************************************************************************)
EXTENDS Shipper, FiniteSets

CONSTANTS
    CollectorMax,  \* settings.max_batch_size
    Refused,       \* events the request model does not parse (models.py)
    Rejected,      \* events it parses and validate_event does not accept
    Faults,        \* which faults the environment has, a subset of FaultKinds
    MaxLate        \* bound on abandoned requests in progress

FaultKinds == {"sensor_crash", "spool_error", "collector_crash",
               "server_error", "storage_error"}

ASSUME PipelineAssumption ==
    /\ CollectorMax \in Nat \ {0}
    /\ Refused \subseteq Events
    /\ Rejected \subseteq Events
    /\ Faults \subseteq FaultKinds
    /\ MaxLate \in Nat

VARIABLES
    phase,     \* of the request the sensor is waiting for
    todo,      \* its events the collector has yet to apply
    failed,    \* its events that apply_events counted as rejected
    code,      \* the status it was answered with
    late,      \* the todo of each abandoned request still in progress
    stored,    \* event_ids in the events table
    exposed    \* ghost: events that met one of the ways to be lost

collector == <<phase, todo, failed, code, late, stored>>
vars == <<sensor, collector, exposed>>

Init ==
    /\ SensorInit
    /\ phase = "none"
    /\ todo = <<>>
    /\ failed = {}
    /\ code = 0
    /\ late = {}
    /\ stored = {}
    /\ exposed = {}

-----------------------------------------------------------------------------
(* The sensor's own steps *)

Mint(e) == Submit(e) /\ UNCHANGED <<collector, exposed>>

Idle ==
    /\ Get \/ GetTimesOut \/ Wait \/ NoRetry
    /\ UNCHANGED <<collector, exposed>>

Request(events) ==
    /\ phase' = "travelling"
    /\ todo' = events
    /\ failed' = {}
    /\ code' = 0
    /\ UNCHANGED <<late, stored>>

PostBatch ==
    /\ Flush
    /\ Request(wire')
    /\ UNCHANGED exposed

RetryPending ==
    /\ LoadAndClear
    /\ IF pc' = "post" THEN Request(wire') ELSE UNCHANGED collector
    /\ UNCHANGED exposed

\* The events of lines that can no longer be parsed after a write onto an
\* unterminated line.
GluedEvents == IF tail = Clean THEN {} ELSE {tail, wire[1]} \cap Events

\* The events of a write that stopped before them.
Unsaved == ToSet(wire) \ ToSet(Pending)'

Save ==
    /\ SavePending
    /\ exposed' = exposed \cup GluedEvents
    /\ UNCHANGED collector

SenderDies ==
    /\ "spool_error" \in Faults
    /\ SaveFails
    /\ exposed' = exposed \cup Unsaved \cup GluedEvents
    /\ UNCHANGED collector

-----------------------------------------------------------------------------
(* The collector *)

\* receive_events turns away a batch that is too large, and FastAPI one whose
\* body has an event that does not parse.
Admissible(events) ==
    /\ Len(events) <= CollectorMax
    /\ ToSet(events) \cap Refused = {}

Accept ==
    /\ phase = "travelling"
    /\ Admissible(todo)
    /\ phase' = "handling"
    /\ UNCHANGED <<sensor, todo, failed, code, late, stored, exposed>>

Refuse ==
    /\ phase = "travelling"
    /\ ~Admissible(todo)
    /\ phase' = "answered"
    /\ code' = 422
    /\ todo' = <<>>
    /\ UNCHANGED <<sensor, failed, late, stored, exposed>>

\* apply_event of the next event: accepted or duplicate.
Apply ==
    /\ phase = "handling"
    /\ todo # <<>>
    /\ Head(todo) \notin Rejected
    /\ stored' = stored \cup {Head(todo)}
    /\ todo' = Tail(todo)
    /\ UNCHANGED <<sensor, phase, failed, code, late, exposed>>

\* Mutant: the event is skipped and not counted.
ApplyFailsUncounted ==
    /\ phase = "handling"
    /\ todo # <<>>
    /\ Head(todo) \in Rejected \/ "storage_error" \in Faults
    /\ todo' = Tail(todo)
    /\ UNCHANGED <<sensor, phase, failed, code, late, stored, exposed>>

\* ValidationError or StorageError: counted, and the batch goes on.
ApplyFails ==
    /\ phase = "handling"
    /\ todo # <<>>
    /\ Head(todo) \in Rejected \/ "storage_error" \in Faults
    /\ failed' = failed \cup {Head(todo)}
    /\ todo' = Tail(todo)
    /\ UNCHANGED <<sensor, phase, code, late, stored, exposed>>

Answer ==
    /\ phase = "handling"
    /\ todo = <<>>
    /\ phase' = "answered"
    /\ code' = 200
    /\ UNCHANGED <<sensor, todo, failed, late, stored, exposed>>

\* Any other exception leaves the rest of the batch unapplied: a locked database
\* does, for transaction() yields twice and contextlib turns that into RuntimeError.
ServerError ==
    /\ "server_error" \in Faults
    /\ phase = "handling"
    /\ todo # <<>>
    /\ phase' = "answered"
    /\ code' = 500
    /\ todo' = <<>>
    /\ UNCHANGED <<sensor, failed, late, stored, exposed>>

\* The same three for a request nobody waits for any more.
Rest(rest) == IF rest = <<>> THEN {} ELSE {rest}

ApplyLate(b) ==
    /\ Head(b) \notin Rejected
    /\ stored' = stored \cup {Head(b)}
    /\ late' = (late \ {b}) \cup Rest(Tail(b))
    /\ UNCHANGED <<sensor, phase, todo, failed, code, exposed>>

FailLate(b) ==
    /\ \/ /\ Head(b) \in Rejected \/ "storage_error" \in Faults
          /\ late' = (late \ {b}) \cup Rest(Tail(b))
       \/ /\ "server_error" \in Faults
          /\ late' = late \ {b}
    /\ UNCHANGED <<sensor, phase, todo, failed, code, stored, exposed>>

\* Mutant: commits that were answered for are not on disk yet.
CollectorCrashUnsynced ==
    /\ "collector_crash" \in Faults
    /\ late' = {}
    /\ phase' = IF phase \in {"travelling", "handling"} THEN "broken" ELSE phase
    /\ todo' = IF phase \in {"travelling", "handling"} THEN <<>> ELSE todo
    /\ stored' \in SUBSET stored
    /\ UNCHANGED <<sensor, failed, code, exposed>>

CollectorCrash ==
    /\ "collector_crash" \in Faults
    /\ late' = {}
    /\ IF phase \in {"travelling", "handling"}
       THEN phase' = "broken" /\ todo' = <<>>
       ELSE UNCHANGED <<phase, todo>>
    /\ UNCHANGED <<sensor, failed, code, stored, exposed>>

-----------------------------------------------------------------------------
(* The sensor stops waiting *)

Respond ==
    /\ phase = "answered"
    /\ Sent
    /\ phase' = "none"
    /\ exposed' = exposed \cup (IF code = 200 THEN failed ELSE ToSet(wire))
    /\ UNCHANGED <<todo, failed, code, late, stored>>

\* What becomes of the request: it never arrives, or the collector handles the
\* rest of it all the same.
Abandon ==
    /\ phase' = "none"
    /\ todo' = <<>>
    /\ \/ /\ phase # "handling" \/ todo = <<>>
          /\ UNCHANGED late
       \/ /\ phase \in {"travelling", "handling"}
          /\ todo # <<>>
          /\ Admissible(todo)
          /\ Cardinality(late) < MaxLate
          /\ late' = late \cup {todo}
    /\ UNCHANGED <<failed, code, stored>>

\* Mutant: a timeout counts as sent.
GiveUpForgets ==
    /\ Sent
    /\ Abandon
    /\ UNCHANGED exposed

\* Refused or reset connection, or five seconds without an answer.
GiveUp ==
    /\ SendFails
    /\ Abandon
    /\ UNCHANGED exposed

\* The process dies: what it held in memory, and what it was writing to disk.
SensorCrash ==
    /\ "sensor_crash" \in Faults
    /\ Restart
    /\ IF pc = "post" THEN Abandon ELSE UNCHANGED collector
    /\ exposed' = exposed \cup ToSet(queue) \cup ToSet(batch)
                    \cup IF pc = "save" THEN Unsaved \cup GluedEvents ELSE ToSet(wire)

-----------------------------------------------------------------------------
Next ==
    \/ \E e \in Events : Mint(e)
    \/ Idle \/ PostBatch \/ RetryPending \/ Save \/ SenderDies
    \/ Accept \/ Refuse \/ Apply \/ ApplyFails \/ Answer \/ ServerError
    \/ \E b \in late : ApplyLate(b) \/ FailLate(b)
    \/ CollectorCrash
    \/ Respond \/ GiveUp
    \/ SensorCrash

Spec == Init /\ [][Next]_vars

\* The sender loop never stops; both deadlines come round again and again; a
\* post returns within its timeout; a request thread runs to its end; and a
\* collector that is asked for ever is not unreachable, nor crashing, for ever.
Fairness ==
    /\ WF_vars(Idle \/ PostBatch \/ RetryPending \/ Save)
    /\ SF_vars(PostBatch)
    /\ SF_vars(RetryPending)
    /\ WF_vars(Respond \/ GiveUp)
    /\ SF_vars(Accept)
    /\ WF_vars(Apply \/ Answer)
    /\ \A e \in Events : WF_vars(\E b \in late : Head(b) = e /\ ApplyLate(b))
    /\ <>[][~CollectorCrash]_vars

FairSpec == Spec /\ Fairness

-----------------------------------------------------------------------------
(* Properties *)

TypeOK ==
    /\ SensorTypeOK
    /\ phase \in {"none", "travelling", "handling", "answered", "broken"}
    /\ todo \in Seq(Events)
    /\ failed \subseteq Events
    /\ code \in {0, 200, 422, 500}
    /\ late \subseteq Seq(Events) \ {<<>>}
    /\ stored \subseteq Events
    /\ exposed \subseteq Events

OnSensor == UNION {ToSet(q) : q \in {queue, batch, wire, Pending}}
InFlight == ToSet(todo) \cup UNION {ToSet(b) : b \in late}
Held == OnSensor \cup InFlight

\* Conservation: the sensor keeps an event that was submitted until the database
\* has it, unless it met a crash, a refusal, an error or a torn spool line.  In
\* particular no timeout, lost request, lost answer, late answer, retry or collector
\* crash loses one: the sensor never relies on a request in flight.
NoSilentLoss == minted \subseteq OnSensor \cup stored \cup exposed

\* Where the environment has no such fault, none is lost at all.
NothingLost == minted \subseteq OnSensor \cup stored

\* The sensor never holds an event twice, so a retry never multiplies the
\* backlog: what one post was given up on is in the spool once.
HeldOnce == IsInjective(queue \o batch \o wire \o Pending)

\* A 200 accounts for the whole batch: each of its events is stored, or counted
\* as rejected.  This is the answer on which the sensor forgets the batch.
AnswerAccounts ==
    phase = "answered" /\ code = 200 => ToSet(wire) \subseteq stored \cup failed

\* "A batch this size is sent the moment it fills" (ship.py): a batch of new
\* events is never larger than BATCH_MAX_EVENTS.
FreshBatchFits == pc = "post" /\ fresh => Len(wire) <= BatchMax

\* Every event submitted is stored in the end, through any finite outage of the
\* collector and any pattern of lost and late answers.
EventuallyStored == \A e \in Events : e \in minted ~> e \in stored

\* Sensor, network and collector together keep the abstract promise.
Fate(e) ==
    IF e \in stored THEN "stored"
    ELSE IF e \in Held THEN "held"
    ELSE IF e \in minted THEN "lost" ELSE "unborn"

\* The environment has a way to lose an event, an oversize retry among them.
Lossy ==
    \/ Faults \ {"collector_crash"} # {}
    \/ Refused # {} \/ Rejected # {}
    \/ Cardinality(Events) > CollectorMax

Ledger == INSTANCE DeliveryLedger WITH
    fate <- [e \in Events |-> Fate(e)],
    MayLose <- Lossy

KeepsLedger == Ledger!Spec
=============================================================================
