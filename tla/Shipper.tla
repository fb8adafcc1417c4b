------------------------------- MODULE Shipper -------------------------------
(***************************************************************************)
(* The outbound half of a sensor, nodes/shipper/src/shipper/ship.py: an    *)
(* in-memory queue that the adapter and the heartbeat thread fill, one     *)
(* sender thread that batches, posts and retries, and the spool file       *)
(* pending_events.jsonl that only that thread touches.                     *)
(*                                                                         *)
(* The clock is abstracted: whenever the loop asks whether a flush or a    *)
(* retry is due, either answer is possible.  What a post meets is the      *)
(* business of Pipeline, which conjoins the actions Flush, LoadAndClear,   *)
(* Sent and SendFails with the network and the collector.                  *)
(***************************************************************************)
EXTENDS Integers, Sequences, SequencesExt

CONSTANTS
    Events,      \* the events (heartbeats too) the sensor may ever submit
    BatchMax,    \* BATCH_MAX_EVENTS
    Clean,       \* the spool's last line is terminated
    Garbled      \* the spool ends in a piece of a line that is no JSON

ASSUME ShipperAssumption ==
    /\ BatchMax \in Nat \ {0}
    /\ Clean \notin Events
    /\ Garbled \notin Events
    /\ Clean # Garbled

VARIABLES
    minted,  \* events submitted so far
    queue,   \* Shipper.queue
    batch,   \* the loop's local `batch`
    wire,    \* the argument of the send_batch in progress
    fresh,   \* it came from `batch` (and not from the spool)
    spool,   \* the terminated, readable lines of the spool, in file order
    tail,    \* its unterminated last line: Clean, Garbled, or a whole event
    pc       \* where the sender thread is

sensor == <<minted, queue, batch, wire, fresh, spool, tail, pc>>

SensorInit ==
    /\ minted = {}
    /\ queue = <<>>
    /\ batch = <<>>
    /\ wire = <<>>
    /\ fresh = TRUE
    /\ spool = <<>>
    /\ tail = Clean
    /\ pc = "get"

-----------------------------------------------------------------------------
(* The threads that submit *)

Submit(e) ==
    /\ e \notin minted
    /\ minted' = minted \cup {e}
    /\ queue' = Append(queue, e)
    /\ UNCHANGED <<batch, wire, fresh, spool, tail, pc>>

-----------------------------------------------------------------------------
(* The sender thread: one pass of sender_loop is get, flush, retry *)

Get ==
    /\ pc = "get"
    /\ queue # <<>>
    /\ batch' = Append(batch, Head(queue))
    /\ queue' = Tail(queue)
    /\ pc' = "flush"
    /\ UNCHANGED <<minted, wire, fresh, spool, tail>>

\* queue.Empty, after at most a second
GetTimesOut ==
    /\ pc = "get"
    /\ queue = <<>>
    /\ pc' = "flush"
    /\ UNCHANGED <<minted, queue, batch, wire, fresh, spool, tail>>

\* Mutant: off by one.
WaitOffByOne ==
    /\ pc = "flush"
    /\ Len(batch) <= BatchMax
    /\ pc' = "retry"
    /\ UNCHANGED <<minted, queue, batch, wire, fresh, spool, tail>>

\* Neither due nor full, or nothing to send.
Wait ==
    /\ pc = "flush"
    /\ Len(batch) < BatchMax
    /\ pc' = "retry"
    /\ UNCHANGED <<minted, queue, batch, wire, fresh, spool, tail>>

\* Mutant: the flush deadline is never looked at.
FlushWhenFull ==
    /\ pc = "flush"
    /\ Len(batch) >= BatchMax
    /\ wire' = batch
    /\ batch' = <<>>
    /\ fresh' = TRUE
    /\ pc' = "post"
    /\ UNCHANGED <<minted, queue, spool, tail>>

\* send_batch(batch); the loop forgets the batch whatever comes of it.
Flush ==
    /\ pc = "flush"
    /\ batch # <<>>
    /\ wire' = batch
    /\ batch' = <<>>
    /\ fresh' = TRUE
    /\ pc' = "post"
    /\ UNCHANGED <<minted, queue, spool, tail>>

\* The retry is not due, or there is no spool to load.
NoRetry ==
    /\ pc = "retry"
    /\ pc' = "get"
    /\ UNCHANGED <<minted, queue, batch, wire, fresh, spool, tail>>

\* The lines load_and_clear_pending can parse.
Pending == IF tail \in Events THEN Append(spool, tail) ELSE spool

\* Mutant: an unterminated last line is not read.
LoadTerminatedLines ==
    /\ pc = "retry"
    /\ spool # <<>> \/ tail # Clean
    /\ spool' = <<>>
    /\ tail' = Clean
    /\ wire' = spool
    /\ fresh' = FALSE
    /\ pc' = IF spool = <<>> THEN "get" ELSE "post"
    /\ UNCHANGED <<minted, queue, batch>>

\* load_and_clear_pending, then send_batch of everything it returned.
LoadAndClear ==
    /\ pc = "retry"
    /\ spool # <<>> \/ tail # Clean
    /\ spool' = <<>>
    /\ tail' = Clean
    /\ wire' = Pending
    /\ fresh' = FALSE
    /\ pc' = IF Pending = <<>> THEN "get" ELSE "post"
    /\ UNCHANGED <<minted, queue, batch>>

\* Back in sender_loop after send_batch.
AfterSend == IF fresh THEN "retry" ELSE "get"

\* Any HTTP response at all, of any status.
Sent ==
    /\ pc = "post"
    /\ wire' = <<>>
    /\ pc' = AfterSend
    /\ UNCHANGED <<minted, queue, batch, fresh, spool, tail>>

\* requests.exceptions.RequestException
SendFails ==
    /\ pc = "post"
    /\ pc' = "save"
    /\ UNCHANGED <<minted, queue, batch, wire, fresh, spool, tail>>

-----------------------------------------------------------------------------
(* The spool *)

\* How a write that stops after k whole lines and a piece `cut` of the next one
\* can leave the file: cut = Clean is no piece, cut = wire[k + 1] the whole line
\* but its newline.
Cuts(k) == {Clean} \cup (IF k < Len(wire) THEN {Garbled, wire[k + 1]} ELSE {})

\* Appending to a file whose last line is unterminated glues the first new line
\* onto it, and neither of the two can be parsed any more.
Glued(k, cut) == tail # Clean /\ (k > 0 \/ cut # Clean)

Written(k, cut) ==
    /\ spool' = spool \o (IF Glued(k, cut) THEN SubSeq(wire, 2, k)
                                           ELSE SubSeq(wire, 1, k))
    /\ tail' = IF k = 0 /\ tail # Clean
               THEN IF cut = Clean THEN tail ELSE Garbled
               ELSE cut

SavePending ==
    /\ pc = "save"
    /\ Written(Len(wire), Clean)
    /\ wire' = <<>>
    /\ pc' = AfterSend
    /\ UNCHANGED <<minted, queue, batch, fresh>>

\* Mutant: the batch is put back although part of it is on disk.
SaveFailsAndRequeues ==
    /\ pc = "save"
    /\ \E k \in 0 .. Len(wire) - 1 : \E cut \in Cuts(k) : Written(k, cut)
    /\ queue' = wire \o queue
    /\ wire' = <<>>
    /\ pc' = AfterSend
    /\ UNCHANGED <<minted, batch, fresh>>

\* OSError: nothing above save_pending catches it, and the thread is gone while
\* the process tails on.
SaveFails ==
    /\ pc = "save"
    /\ \E k \in 0 .. Len(wire) - 1 : \E cut \in Cuts(k) : Written(k, cut)
    /\ wire' = <<>>
    /\ pc' = "dead"
    /\ UNCHANGED <<minted, queue, batch, fresh>>

\* The process dies, wherever its threads are, and is started again.
Restart ==
    /\ queue' = <<>>
    /\ batch' = <<>>
    /\ wire' = <<>>
    /\ fresh' = TRUE
    /\ pc' = "get"
    /\ IF pc = "save"
       THEN \E k \in 0 .. Len(wire) : \E cut \in Cuts(k) : Written(k, cut)
       ELSE UNCHANGED <<spool, tail>>
    /\ UNCHANGED minted

-----------------------------------------------------------------------------
SensorTypeOK ==
    /\ minted \subseteq Events
    /\ queue \in Seq(Events) /\ batch \in Seq(Events)
    /\ wire \in Seq(Events) /\ spool \in Seq(Events)
    /\ fresh \in BOOLEAN
    /\ tail \in Events \cup {Clean, Garbled}
    /\ pc \in {"get", "flush", "post", "save", "retry", "dead"}
=============================================================================
