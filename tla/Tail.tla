--------------------------------- MODULE Tail ---------------------------------
(***************************************************************************)
(* Following a honeypot's log, nodes/shipper/src/shipper/tail.py, and the  *)
(* loop of run.py that turns its lines into submitted events.              *)
(*                                                                         *)
(* A log line reaches the file in two writes, its text and its newline, so *)
(* that every read may find the last line half written.  The honeypot and  *)
(* logrotate are external and do what the module comment of tail.py says   *)
(* of them.  A log is not rotated twice between two polls; Outgrows says    *)
(* whether an emptied log may be longer than it was by the next poll.       *)
(***************************************************************************)
EXTENDS Integers, Sequences, FiniteSets, SequencesExt

CONSTANTS
    MaxLine,      \* bound: lines the honeypot writes
    MaxFile,      \* bound: files that are the log one after the other
    Rotation,     \* how the log is rotated, a subset of {"rename", "truncate"}
    MaxTruncate,  \* bound: truncations
    Outgrows,     \* an emptied log may pass the cursor before the next poll
    MaxRestart,   \* bound: restarts of the sensor
    None          \* no file

ASSUME TailAssumption ==
    /\ {MaxLine, MaxFile, MaxTruncate, MaxRestart} \subseteq Nat
    /\ Rotation \subseteq {"rename", "truncate"}
    /\ Outgrows \in BOOLEAN
    /\ None \notin Nat

Lines == 1 .. MaxLine
Piece == [line : Lines, newline : BOOLEAN]

VARIABLES
    files,       \* the pieces in each file, by inode
    path,        \* the inode the log's name stands for
    line,        \* the last line begun
    unfinished,  \* it lacks its newline
    truncated,   \* truncations so far
    restarts,    \* restarts so far
    handle,      \* the inode of f
    pos,         \* f.tell()
    fromStart,   \* from_start
    partial,     \* the unfinished tail of the file, carried from read to read
    lines,       \* the lines of this pass, not yielded yet
    pc,          \* where tail_lines is
    got,         \* the lines that became events, in order
    excused      \* ghost: lines out of every tailer's reach

world == <<files, path, line, unfinished, truncated>>
tailer == <<handle, pos, fromStart, partial, lines, pc, got>>
vars == <<world, tailer, restarts, excused>>

Init ==
    /\ files = <<>>
    /\ path = None
    /\ line = 0
    /\ unfinished = FALSE
    /\ truncated = 0
    /\ restarts = 0
    /\ handle = None
    /\ pos = 0
    /\ fromStart = FALSE
    /\ partial = <<>>
    /\ lines = <<>>
    /\ pc = "open"
    /\ got = <<>>
    /\ excused = {}

-----------------------------------------------------------------------------
(* The honeypot and logrotate *)

Create ==
    /\ path = None
    /\ Len(files) < MaxFile
    /\ files' = Append(files, <<>>)
    /\ path' = Len(files')
    /\ UNCHANGED <<line, unfinished, truncated, tailer, restarts, excused>>

\* The log was emptied, and the tailer has not looked since.
Shrunk == handle # None /\ Len(files[handle]) < pos

\* Unless it Outgrows, an emptied log does not reach the cursor before the tailer
\* looks at its size.
Grow(piece) ==
    /\ path # None
    /\ Shrunk /\ handle = path /\ ~Outgrows => Len(files[path]) + 1 < pos
    /\ files' = [files EXCEPT ![path] = Append(@, piece)]

BeginLine ==
    /\ ~unfinished
    /\ line < MaxLine
    /\ Grow([line |-> line + 1, newline |-> FALSE])
    /\ line' = line + 1
    /\ unfinished' = TRUE
    /\ UNCHANGED <<path, truncated, tailer, restarts, excused>>

EndLine ==
    /\ unfinished
    /\ Grow([line |-> line, newline |-> TRUE])
    /\ unfinished' = FALSE
    /\ UNCHANGED <<path, line, truncated, tailer, restarts, excused>>

\* "The rename is its final act on this file"; the tailer has noticed the rotation
\* before this one.
Rename ==
    /\ "rename" \in Rotation
    /\ path # None
    /\ ~unfinished
    /\ handle = path
    /\ ~Shrunk
    /\ path' = None
    /\ UNCHANGED <<files, line, unfinished, truncated, tailer, restarts, excused>>

Collected == UNION {{p.line : p \in ToSet(l)} : l \in ToSet(lines)}

\* copytruncate: what the tailer has not read is gone.
Truncate ==
    /\ "truncate" \in Rotation
    /\ truncated < MaxTruncate
    /\ path # None
    /\ files' = [files EXCEPT ![path] = <<>>]
    /\ truncated' = truncated + 1
    /\ excused' = excused \cup ({p.line : p \in ToSet(files[path])}
                                    \ (ToSet(got) \cup Collected))
    /\ UNCHANGED <<path, line, unfinished, tailer, restarts>>

-----------------------------------------------------------------------------
(* tail_lines *)

\* open_log: a missing log is waited for, and read from its start.
OpenFails ==
    /\ pc = "open"
    /\ path = None
    /\ fromStart' = TRUE
    /\ UNCHANGED <<world, handle, pos, partial, lines, pc, got, restarts, excused>>

\* The first file is opened at its end: what it holds is another run's.
Open ==
    /\ pc = "open"
    /\ path # None
    /\ handle' = path
    /\ pc' = "read"
    /\ IF fromStart
       THEN pos' = 0 /\ UNCHANGED excused
       ELSE /\ pos' = Len(files[path])
            /\ excused' = excused \cup {p.line : p \in ToSet(files[path])}
    /\ UNCHANGED <<world, fromStart, partial, lines, got, restarts>>

\* Where the loop over readline goes when it has read all there is.
AtEnd == IF pc = "read" THEN "yield" ELSE "last yield"

\* What readline returns: up to the first newline, or all there is.
Chunk ==
    LET rest == SubSeq(files[handle], pos + 1, Len(files[handle]))
        ends == {i \in DOMAIN rest : rest[i].newline}
    IN  IF ends = {} THEN rest
        ELSE SubSeq(rest, 1, CHOOSE i \in ends : \A j \in ends : i <= j)

\* One turn of complete_lines.
ReadLine ==
    /\ pc \in {"read", "drain"}
    /\ Chunk # <<>>
    /\ pos' = pos + Len(Chunk)
    /\ IF Last(Chunk).newline
       THEN /\ lines' = Append(lines, partial \o Chunk)
            /\ partial' = <<>>
            /\ UNCHANGED pc
       ELSE /\ partial' = partial \o Chunk
            /\ pc' = AtEnd
            /\ UNCHANGED lines
    /\ UNCHANGED <<world, handle, fromStart, got, restarts, excused>>

ReadNothing ==
    /\ pc \in {"read", "drain"}
    /\ Chunk = <<>>
    /\ pc' = AtEnd
    /\ UNCHANGED <<world, handle, pos, fromStart, partial, lines, got, restarts, excused>>

\* json.loads takes a line that is all there and nothing but one line.
Parses(l) ==
    /\ Len(l) = 2
    /\ l[1].line = l[2].line

\* `yield from lines`, one line at a time: run_sensor submits what it can parse.
Yield ==
    /\ pc \in {"yield", "last yield"}
    /\ lines # <<>>
    /\ got' = IF Parses(Head(lines)) THEN Append(got, Head(lines)[1].line) ELSE got
    /\ lines' = Tail(lines)
    /\ UNCHANGED <<world, handle, pos, fromStart, partial, pc, restarts, excused>>

Yielded ==
    /\ pc \in {"yield", "last yield"}
    /\ lines = <<>>
    /\ pc' = IF pc = "yield" THEN "check" ELSE "close"
    /\ UNCHANGED <<world, handle, pos, fromStart, partial, lines, got, restarts, excused>>

\* Mutants: what was written since the last read is left; nobody looks.
SwitchAtOnce ==
    /\ pc = "check"
    /\ pc' = IF path \notin {None, handle} THEN "close" ELSE "size"
    /\ UNCHANGED <<world, handle, pos, fromStart, partial, lines, got, restarts, excused>>

NeverSwitch ==
    /\ pc = "check"
    /\ pc' = "size"
    /\ UNCHANGED <<world, handle, pos, fromStart, partial, lines, got, restarts, excused>>

\* rotated_away, which is false while there is no new file.
Check ==
    /\ pc = "check"
    /\ pc' = IF path \notin {None, handle} THEN "drain" ELSE "size"
    /\ UNCHANGED <<world, handle, pos, fromStart, partial, lines, got, restarts, excused>>

\* Mutant: the handle is closed and kept.
CloseKeepsHandle ==
    /\ pc = "close"
    /\ partial' = <<>>
    /\ fromStart' = TRUE
    /\ pc' = "open"
    /\ UNCHANGED <<world, handle, pos, lines, got, restarts, excused>>

Close ==
    /\ pc = "close"
    /\ handle' = None
    /\ partial' = <<>>
    /\ fromStart' = TRUE
    /\ pc' = "open"
    /\ UNCHANGED <<world, pos, lines, got, restarts, excused>>

\* Mutant: off by one.
SizeOffByOne ==
    /\ pc = "size"
    /\ IF Len(files[handle]) <= pos
       THEN pos' = 0 /\ partial' = <<>>
       ELSE UNCHANGED <<pos, partial>>
    /\ pc' = "read"
    /\ UNCHANGED <<world, handle, fromStart, lines, got, restarts, excused>>

\* Shorter than the offset: emptied in place.  Else sleep.
Size ==
    /\ pc = "size"
    /\ IF Len(files[handle]) < pos
       THEN pos' = 0 /\ partial' = <<>>
       ELSE UNCHANGED <<pos, partial>>
    /\ pc' = "read"
    /\ UNCHANGED <<world, handle, fromStart, lines, got, restarts, excused>>

\* The sensor is started again, and what it had not submitted stays behind.
Restart ==
    /\ restarts < MaxRestart
    /\ restarts' = restarts + 1
    /\ handle' = None
    /\ pos' = 0
    /\ fromStart' = FALSE
    /\ partial' = <<>>
    /\ lines' = <<>>
    /\ pc' = "open"
    /\ excused' = excused \cup ((1 .. line) \ ToSet(got))
    /\ UNCHANGED <<world, got>>

-----------------------------------------------------------------------------
TailStep ==
    \/ OpenFails \/ Open \/ ReadLine \/ ReadNothing \/ Yield \/ Yielded
    \/ Check \/ Close \/ Size

Next ==
    \/ Create \/ BeginLine \/ EndLine \/ Rename \/ Truncate
    \/ TailStep \/ Restart

Spec == Init /\ [][Next]_vars

\* tail_lines never returns, and a honeypot that has begun a line ends it and
\* opens a new file after it renamed the old one.
FairSpec == Spec /\ WF_vars(TailStep) /\ WF_vars(EndLine) /\ WF_vars(Create)

-----------------------------------------------------------------------------
(* Properties *)

TypeOK ==
    /\ files \in Seq(Seq(Piece)) /\ Len(files) <= MaxFile
    /\ path \in DOMAIN files \cup {None}
    /\ line \in 0 .. MaxLine
    /\ unfinished \in BOOLEAN
    /\ truncated \in 0 .. MaxTruncate
    /\ restarts \in 0 .. MaxRestart
    /\ handle \in DOMAIN files \cup {None}
    /\ handle = None <=> pc = "open"
    /\ pos \in Nat
    /\ fromStart \in BOOLEAN
    /\ partial \in Seq(Piece)
    /\ lines \in Seq(Seq(Piece))
    /\ pc \in {"open", "read", "yield", "check", "drain", "last yield", "close", "size"}
    /\ got \in Seq(Lines)
    /\ excused \subseteq Lines

\* Every line becomes an event at most once, and in the order of the log: across
\* renames, truncations and restarts nothing is read a second time.
InOrder == \A i, j \in DOMAIN got : i < j => got[i] < got[j]

\* The lines the cursor has still to pass: after it, joined to the fragment in hand,
\* in an emptied file that will be read again, or in the file that replaced this one.
AheadIn(f, from) ==
    {files[f][i].line : i \in {i \in from + 2 .. Len(files[f]) :
        files[f][i].newline /\ files[f][i - 1] = [files[f][i] EXCEPT !.newline = FALSE]}}

Ahead ==
    (IF path \in {None, handle} THEN {} ELSE AheadIn(path, 0)) \cup
    (IF handle = None \/ pc = "close" THEN {}
     ELSE IF Shrunk THEN AheadIn(handle, 0)
     ELSE AheadIn(handle, pos) \cup
          IF partial # <<>> /\ pos < Len(files[handle]) /\ files[handle][pos + 1].newline
          THEN {l \in {files[handle][pos + 1].line} : l = Last(partial).line} ELSE {})

Finished == (1 .. line) \ (IF unfinished THEN {line} ELSE {})

\* "Yield every complete line written to `path`, forever, across rotation": each
\* line is an event, or about to be yielded, or ahead of the cursor, unless it was
\* erased unread or written while no tailer was running.
NothingMissed == Finished \subseteq ToSet(got) \cup Collected \cup Ahead \cup excused

\* And the cursor does come to it.
EventuallyYielded ==
    \A l \in Lines : l \in Finished ~> l \in ToSet(got) \cup excused
=============================================================================
