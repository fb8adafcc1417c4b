------------------------------- MODULE TailProofs -------------------------------
(***************************************************************************)
(* The tailer reads every line once, in order, and passes over none it can *)
(* reach, for any number of lines, files, truncations and restarts.        *)
(***************************************************************************)
EXTENDS Tail, SequenceTheorems, WellFoundedInduction, TLAPS

-----------------------------------------------------------------------------
(* Sequences *)

\* The elements of a sequence are its entries.
LEMMA Elements ==
    ASSUME NEW S, NEW s \in Seq(S)
    PROVE  /\ ToSet(s) = {s[i] : i \in 1 .. Len(s)}
           /\ ToSet(s) \subseteq S
<1>1. DOMAIN s = 1 .. Len(s) /\ \A i \in 1 .. Len(s) : s[i] \in S
  OBVIOUS
<1> QED
  BY <1>1 DEF ToSet

\* The empty sequence has none.
LEMMA EmptyElements == ToSet(<<>>) = {}
<1>1. DOMAIN <<>> = {}
  OBVIOUS
<1> QED
  BY <1>1 DEF ToSet

\* Append adds one.
LEMMA AppendElements ==
    ASSUME NEW S, NEW s \in Seq(S), NEW e \in S
    PROVE  /\ Append(s, e) \in Seq(S)
           /\ ToSet(Append(s, e)) = ToSet(s) \cup {e}
<1> DEFINE t == Append(s, e)
<1>1. /\ t \in Seq(S) /\ Len(s) \in Nat /\ Len(t) = Len(s) + 1
      /\ t[Len(s) + 1] = e
      /\ \A i \in 1 .. Len(s) : t[i] = s[i]
  OBVIOUS
<1>2. {t[i] : i \in 1 .. Len(t)} = {s[i] : i \in 1 .. Len(s)} \cup {e}
  BY <1>1
<1> QED
  BY <1>1, <1>2, Elements

\* The head and the elements of the tail are all there are.
LEMMA HeadTailElements ==
    ASSUME NEW S, NEW s \in Seq(S), s # <<>>
    PROVE  /\ Head(s) \in S
           /\ Tail(s) \in Seq(S)
           /\ ToSet(s) = {Head(s)} \cup ToSet(Tail(s))
<1>1. /\ Head(s) \in S /\ Tail(s) \in Seq(S) /\ Len(s) >= 1 /\ Len(s) \in Nat
      /\ Len(Tail(s)) = Len(s) - 1
      /\ \A i \in 1 .. Len(s) - 1 : Tail(s)[i] = s[i + 1]
      /\ Head(s) = s[1]
  OBVIOUS
<1>2. ASSUME NEW i \in 1 .. Len(s)
      PROVE s[i] = Head(s) \/ \E j \in 1 .. Len(Tail(s)) : s[i] = Tail(s)[j]
  <2>1. CASE i = 1
    BY <1>1, <2>1
  <2>2. CASE i # 1
    <3>1. i - 1 \in 1 .. Len(Tail(s)) /\ Tail(s)[i - 1] = s[i]
      BY <1>1, <2>2
    <3> QED
      BY <3>1
  <2> QED
    BY <2>1, <2>2
<1>3. \A j \in 1 .. Len(Tail(s)) : j + 1 \in 1 .. Len(s) /\ Tail(s)[j] = s[j + 1]
  BY <1>1
<1>4. {s[i] : i \in 1 .. Len(s)} = {Head(s)} \cup {Tail(s)[i] : i \in 1 .. Len(Tail(s))}
  BY <1>1, <1>2, <1>3
<1> QED
  BY <1>1, <1>4, Elements

\* A sequence is known from its length and its entries.
LEMMA OneLong ==
    ASSUME NEW S, NEW c \in Seq(S), Len(c) = 1
    PROVE  c = <<c[1]>>
<1>1. <<c[1]>> \in Seq(S) /\ Len(<<c[1]>>) = 1
  OBVIOUS
<1>2. \A i \in 1 .. Len(c) : c[i] = <<c[1]>>[i]
  OBVIOUS
<1> QED
  BY <1>1, <1>2, SeqEqual

LEMMA TwoLong ==
    ASSUME NEW S, NEW c \in Seq(S), Len(c) = 2
    PROVE  c = <<c[1], c[2]>>
<1>1. <<c[1], c[2]>> \in Seq(S) /\ Len(<<c[1], c[2]>>) = 2
  OBVIOUS
<1>2. \A i \in 1 .. Len(c) : c[i] = <<c[1], c[2]>>[i]
  OBVIOUS
<1> QED
  BY <1>1, <1>2, SeqEqual

LEMMA JoinedPair ==
    ASSUME NEW S, NEW x \in S, NEW y \in S
    PROVE  <<x>> \o <<y>> = <<x, y>>
<1>1. <<x>> \o <<y>> \in Seq(S) /\ <<x, y>> \in Seq(S) /\ Len(<<x>> \o <<y>>) = 2 /\ Len(<<x, y>>) = 2
  OBVIOUS
<1>2. \A i \in 1 .. 2 : (<<x>> \o <<y>>)[i] = <<x, y>>[i]
  OBVIOUS
<1> QED
  BY <1>1, <1>2, SeqEqual

-----------------------------------------------------------------------------
(* What readline returns *)

\* A nonempty set of positions has a first one.
LEMMA FirstOf ==
    ASSUME NEW E, E \subseteq Nat, E # {}
    PROVE  \E i \in E : \A j \in E : i <= j
<1> DEFINE Less == {p \in Nat \X Nat : p[1] < p[2]}
<1>1. IsWellFoundedOn(Less, Nat)
  BY NatLessThanWellFounded, Zenon DEF OpToRel
<1>2. PICK i \in E : \A j \in E : <<j, i>> \notin Less
  <2> HIDE DEF Less
  <2> QED
    BY <1>1, WFMin
<1>3. \A j \in E : ~(j < i)
  <2> SUFFICES ASSUME NEW j \in E, j < i PROVE FALSE
    OBVIOUS
  <2>1. <<j, i>> \in Nat \X Nat
    OBVIOUS
  <2>2. <<j, i>> \in Less
    BY <2>1
  <2> QED
    BY <1>2, <2>2
<1> QED
  BY <1>3

\* It is what follows the cursor, up to the first newline or the end of the file.
LEMMA ChunkIs ==
    ASSUME NEW s \in Seq(Piece), s = files[handle], pos \in Nat
    PROVE  /\ Chunk \in Seq(Piece)
           /\ pos >= Len(s) => Chunk = <<>>
           /\ pos < Len(s) =>
                /\ Len(Chunk) \in 1 .. Len(s) - pos
                /\ \A i \in 1 .. Len(Chunk) : Chunk[i] = s[pos + i]
                /\ \A i \in 1 .. Len(Chunk) - 1 : ~s[pos + i].newline
                /\ ~s[pos + Len(Chunk)].newline => pos + Len(Chunk) = Len(s)
<1> DEFINE rest == SubSeq(s, pos + 1, Len(s))
           ends == {i \in DOMAIN rest : rest[i].newline}
<1>1. /\ rest \in Seq(Piece)
      /\ pos >= Len(s) => rest = <<>> /\ Len(rest) = 0
      /\ pos < Len(s) => Len(rest) = Len(s) - pos
      /\ \A i \in 1 .. Len(rest) : rest[i] = s[pos + i]
      /\ DOMAIN rest = 1 .. Len(rest) /\ Len(rest) \in Nat
  OBVIOUS
<1>2. CASE ends = {}
  <2>1. Chunk = rest
    BY <1>2 DEF Chunk
  <2>2. \A i \in 1 .. Len(rest) : ~s[pos + i].newline
    BY <1>1, <1>2, ZenonT(60)
  <2> HIDE DEF rest, ends
  <2>3. CASE pos >= Len(s)
    BY <1>1, <2>1, <2>3
  <2>4. CASE pos < Len(s)
    <3>1. Len(Chunk) = Len(s) - pos /\ Len(s) \in Nat
      BY <1>1, <2>1, <2>4
    <3>2. \A i \in 1 .. Len(Chunk) : Chunk[i] = s[pos + i]
      BY <1>1, <2>1
    <3>3. \A i \in 1 .. Len(Chunk) - 1 : ~s[pos + i].newline
      BY <2>1, <2>2, <3>1
    <3>4. Len(Chunk) \in 1 .. Len(s) - pos /\ pos + Len(Chunk) = Len(s)
      BY <2>4, <3>1
    <3>5. Chunk \in Seq(Piece)
      BY <1>1, <2>1
    <3>6. ~(pos >= Len(s))
      BY <2>4, <3>1
    <3> QED
      BY <3>2, <3>3, <3>4, <3>5, <3>6
  <2> QED
    BY <2>3, <2>4
<1>3. CASE ends # {}
  <2> DEFINE k == CHOOSE i \in ends : \A j \in ends : i <= j
  <2>1. ends \subseteq Nat
    BY <1>1
  <2>2. k \in ends /\ \A j \in ends : k <= j
    BY <1>3, <2>1, FirstOf
  <2>3. Chunk = SubSeq(rest, 1, k)
    BY <1>3 DEF Chunk
  <2> HIDE DEF k
  <2>4. k \in 1 .. Len(rest) /\ rest[k].newline
    BY <1>1, <2>2
  <2>5. ASSUME NEW i \in 1 .. k - 1 PROVE ~rest[i].newline
    <3>1. i \in DOMAIN rest /\ ~(k <= i)
      BY <1>1, <2>4
    <3>2. i \notin ends
      BY <2>2, <3>1
    <3> QED
      BY <3>1, <3>2
  <2> HIDE DEF rest, ends
  <2>6. /\ Chunk \in Seq(Piece) /\ Len(Chunk) = k
        /\ \A i \in 1 .. k : Chunk[i] = rest[i]
    BY <1>1, <2>3, <2>4
  <2>7. pos < Len(s) /\ k \in 1 .. Len(s) - pos
    BY <1>1, <2>4
  <2>8. \A i \in 1 .. k : rest[i] = s[pos + i]
    BY <1>1, <2>4
  <2>9. s[pos + k].newline /\ ~(pos >= Len(s))
    BY <2>4, <2>7, <2>8
  <2>10. ASSUME NEW i \in 1 .. k - 1 PROVE ~s[pos + i].newline
    <3>1. i \in 1 .. k
      BY <2>7
    <3> QED
      BY <2>5, <2>8, <3>1
  <2> QED
    BY <2>6, <2>7, <2>8, <2>9, <2>10
<1> QED
  BY <1>2, <1>3
-----------------------------------------------------------------------------
(* The inductive invariant *)

\* A line that is unfinished was begun.
Begun == unfinished => line \in Lines

TypeInv == TypeOK /\ Begun

\* The last line that is all there.
Done == IF unfinished THEN line - 1 ELSE line

\* The lines a file ends after a place in it.
EndsIn(f, from) ==
    {files[f][i].line : i \in {i \in from + 1 .. Len(files[f]) : files[f][i].newline}}

\* Where the tailer reads on: an emptied file from its start.
Cursor == IF Shrunk THEN 0 ELSE pos

\* The lines whose newlines the tailer has still to read, in this file and in the next.
Coming ==
    (IF handle = None THEN {} ELSE EndsIn(handle, Cursor)) \cup
    (IF path \in {None, handle} \/ (handle = None /\ ~fromStart) THEN {} ELSE EndsIn(path, 0))

\* The line whose newline is the last piece of what was read.
Key(l) == Last(l).line

\* The lines that it has read, those waiting to be yielded among them.
Seen == ToSet(got) \cup {Key(l) : l \in ToSet(lines)}

\* The newest file is the log, and its successor is there before it is given up.
InPlace ==
    /\ path # None => path = Len(files)
    /\ handle = None => partial = <<>>
    /\ pc \in {"open", "check", "close", "size"} => lines = <<>>
    /\ pc \in {"drain", "last yield", "close"} => path \notin {None, handle}

\* Lines are written in the order of their numbers.
FilesOrdered ==
    /\ \A f \in DOMAIN files : \A i \in DOMAIN files[f] :
            files[f][i].newline => files[f][i].line <= Done
    /\ \A f, g \in DOMAIN files : \A i \in DOMAIN files[f], j \in DOMAIN files[g] :
            files[f][i].newline /\ files[g][j].newline /\ (f < g \/ (f = g /\ i < j))
                => files[f][i].line < files[g][j].line

\* And read so: what comes is later than all that was read.
ReadInOrder ==
    /\ Seen \subseteq 1 .. Done
    /\ \A s \in Seen, c \in Coming : s < c
    /\ InOrder
    /\ \A i, j \in DOMAIN lines : i < j => Key(lines[i]) < Key(lines[j])
    /\ \A i \in DOMAIN got, j \in DOMAIN lines : got[i] < Key(lines[j])

OrderInv == InPlace /\ FilesOrdered /\ ReadInOrder

\* A line without its newline is the last in the log, or excused if a truncation erased its text.
LogEnd ==
    unfinished =>
        /\ path # None
        /\ IF files[path] = <<>> THEN line \in excused
           ELSE Last(files[path]) = [line |-> line, newline |-> FALSE]

\* A newline follows its text, unless that was erased, and only in the log is a text without one.
Paired ==
    \A f \in DOMAIN files : \A i \in DOMAIN files[f] :
        /\ files[f][i].newline /\ i = 1 => files[f][i].line \in excused
        /\ files[f][i].newline /\ i # 1 =>
               files[f][i - 1] = [line |-> files[f][i].line, newline |-> FALSE]
        /\ ~files[f][i].newline =>
               IF i = Len(files[f]) THEN f = path /\ unfinished ELSE files[f][i + 1].newline

\* The fragment in hand is the text before the cursor, unless that line is excused.
Aligned ==
    handle # None =>
        /\ Shrunk => handle = path
        /\ ~Shrunk =>
            IF pos = 0 \/ files[handle][pos].newline THEN partial = <<>>
            ELSE \/ partial = <<files[handle][pos]>>
                 \/ partial = <<>> /\ files[handle][pos].line \in excused
        /\ pc \in {"last yield", "close"} => pos = Len(files[handle])

\* What is read and does not parse was excused before.
Whole == \A l \in ToSet(lines) : Parses(l) \/ (Len(l) = 1 /\ l[1].line \in excused)

\* The lines whose newlines wait for the tailer, and those of a log that it has still to open.
Waiting ==
    (IF handle = None THEN {} ELSE EndsIn(handle, Cursor)) \cup
    (IF path \in {None, handle} THEN {} ELSE EndsIn(path, 0))

\* A line that is all there was read, waits for the tailer or is excused.
Covered == 1 .. Done \subseteq Seen \cup Waiting \cup excused

CoverInv == LogEnd /\ Paired /\ Aligned /\ Whole /\ Covered

-----------------------------------------------------------------------------
(* Types *)

\* The bounds are numbers, and no file is not one.
LEMMA Bounds ==
    MaxLine \in Nat /\ MaxFile \in Nat /\ MaxTruncate \in Nat /\ MaxRestart \in Nat /\ None \notin Nat
  BY TailAssumption

\* What the types say, each on its own.
LEMMA FilesTyped ==
    ASSUME TypeOK
    PROVE  /\ files \in Seq(Seq(Piece)) /\ Len(files) \in Nat
           /\ DOMAIN files = 1 .. Len(files)
           /\ \A f \in 1 .. Len(files) : files[f] \in Seq(Piece)
           /\ path # None => path \in 1 .. Len(files)
           /\ handle # None => handle \in 1 .. Len(files)
<1>1. files \in Seq(Seq(Piece))
  BY DEF TypeOK
<1>2. path \in DOMAIN files \cup {None} /\ handle \in DOMAIN files \cup {None}
  BY Zenon DEF TypeOK
<1> QED
  BY <1>1, <1>2

LEMMA CountersTyped ==
    ASSUME TypeOK
    PROVE  /\ line \in Nat /\ line <= MaxLine /\ line \in 0 .. MaxLine
           /\ truncated \in Nat /\ restarts \in Nat /\ Len(files) <= MaxFile
           /\ pos \in Nat
<1>1. /\ line \in 0 .. MaxLine /\ truncated \in 0 .. MaxTruncate /\ restarts \in 0 .. MaxRestart
      /\ Len(files) <= MaxFile /\ pos \in Nat
  BY Zenon DEF TypeOK
<1> QED
  BY <1>1, Bounds

LEMMA TailerTyped ==
    ASSUME TypeOK
    PROVE  /\ handle = None <=> pc = "open"
           /\ partial \in Seq(Piece) /\ lines \in Seq(Seq(Piece)) /\ got \in Seq(Lines)
           /\ unfinished \in BOOLEAN /\ fromStart \in BOOLEAN
           /\ excused \subseteq Lines
  BY DEF TypeOK

\* A piece is of a line.
LEMMA PieceFields == \A p \in Piece : p.line \in Lines /\ p.newline \in BOOLEAN
  BY DEF Piece

LEMMA TypesHold == Init => TypeInv
<1>1. Init => /\ files = <<>> /\ <<>> \in Seq(Seq(Piece)) /\ Len(<<>>) = 0
              /\ <<>> \in Seq(Piece) /\ <<>> \in Seq(Lines)
  BY DEF Init
<1>2. Init => Begun
  BY DEF Init, Begun
<1>3. Init => TypeOK
  <2> SUFFICES ASSUME Init PROVE TypeOK
    OBVIOUS
  <2>1. /\ files \in Seq(Seq(Piece)) /\ Len(files) <= MaxFile
        /\ partial \in Seq(Piece) /\ lines \in Seq(Seq(Piece)) /\ got \in Seq(Lines)
    BY <1>1, Bounds DEF Init
  <2>2. line \in 0 .. MaxLine /\ truncated \in 0 .. MaxTruncate /\ restarts \in 0 .. MaxRestart
    BY Bounds DEF Init
  <2> QED
    BY <2>1, <2>2 DEF Init, TypeOK
<1> QED
  BY <1>2, <1>3 DEF TypeInv

\* The log grows by a piece.
LEMMA GrowTypes ==
    ASSUME TypeOK, NEW piece \in Piece, Grow(piece)
    PROVE  /\ files' \in Seq(Seq(Piece)) /\ Len(files') = Len(files)
           /\ DOMAIN files' = DOMAIN files
<1>1. files \in Seq(Seq(Piece)) /\ path \in DOMAIN files
  BY DEF TypeOK, Grow
<1>2. PICK file : file = Append(files[path], piece)
  OBVIOUS
<1>3. file \in Seq(Piece)
  BY <1>1, <1>2
<1>4. files' = [files EXCEPT ![path] = file]
  BY <1>2 DEF Grow
<1> HIDE DEF Piece
<1> QED
  BY <1>1, <1>3, <1>4

LEMMA BegunKept == TypeInv /\ [Next]_vars => Begun'
<1> SUFFICES ASSUME TypeInv, [Next]_vars PROVE Begun'
  OBVIOUS
<1>1. line \in 0 .. MaxLine /\ Begun
  BY DEF TypeInv, TypeOK
<1>2. CASE BeginLine
  BY <1>1, <1>2, Bounds DEF BeginLine, Begun, Lines
<1>3. CASE UNCHANGED <<line, unfinished>>
  BY <1>1, <1>3 DEF Begun
<1>4. CASE EndLine
  BY <1>4 DEF EndLine, Begun
<1>5. Create \/ Rename \/ Truncate \/ TailStep \/ Restart \/ UNCHANGED vars
        => UNCHANGED <<line, unfinished>>
  BY DEF Create, Rename, Truncate, TailStep, OpenFails, Open, ReadLine, ReadNothing, Yield, Yielded,
         Check, Close, Size, Restart, vars, world
<1> QED
  BY <1>2, <1>3, <1>4, <1>5 DEF Next

\* What the honeypot writes is a piece of a line.
LEMMA Written ==
    ASSUME TypeInv
    PROVE  /\ BeginLine => /\ [line |-> line + 1, newline |-> FALSE] \in Piece
                           /\ Grow([line |-> line + 1, newline |-> FALSE])
           /\ EndLine => /\ [line |-> line, newline |-> TRUE] \in Piece
                         /\ Grow([line |-> line, newline |-> TRUE])
<1>1. ASSUME BeginLine PROVE [line |-> line + 1, newline |-> FALSE] \in Piece
  BY <1>1, Bounds, CountersTyped DEF BeginLine, TypeInv, Piece, Lines
<1>2. ASSUME EndLine PROVE [line |-> line, newline |-> TRUE] \in Piece
  BY <1>2 DEF EndLine, TypeInv, Begun, Piece
<1> QED
  BY <1>1, <1>2 DEF BeginLine, EndLine

LEMMA WorldTypes ==
    TypeInv /\ (Create \/ BeginLine \/ EndLine \/ Rename \/ Truncate) => TypeOK'
<1> SUFFICES ASSUME TypeInv, Create \/ BeginLine \/ EndLine \/ Rename \/ Truncate
             PROVE  TypeOK'
  OBVIOUS
<1>0. TypeOK
  BY DEF TypeInv
<1>1. CASE Create
  <2>1. /\ files' \in Seq(Seq(Piece)) /\ Len(files') = Len(files) + 1
        /\ path' \in DOMAIN files' /\ DOMAIN files \subseteq DOMAIN files'
    <3>1. files \in Seq(Seq(Piece)) /\ <<>> \in Seq(Piece)
      BY <1>0, FilesTyped
    <3> QED
      BY <1>1, <3>1 DEF Create
  <2>2. Len(files') <= MaxFile
    BY <1>0, <1>1, <2>1, Bounds, FilesTyped DEF Create
  <2> QED
    BY <1>0, <1>1, <2>1, <2>2 DEF Create, TypeOK, tailer
<1>2. CASE BeginLine
  <2>1. line + 1 \in 0 .. MaxLine
    BY <1>0, <1>2, Bounds, CountersTyped DEF BeginLine
  <2> QED
    BY <1>0, <1>2, <2>1, Written, GrowTypes DEF BeginLine, TypeOK, tailer
<1>3. CASE EndLine
  BY <1>0, <1>3, Written, GrowTypes DEF EndLine, TypeOK, tailer
<1>4. CASE Rename
  BY <1>0, <1>4 DEF Rename, TypeOK, tailer
<1>5. CASE Truncate
  <2>1. files \in Seq(Seq(Piece)) /\ path \in DOMAIN files /\ <<>> \in Seq(Piece)
    BY <1>0, <1>5, FilesTyped DEF Truncate
  <2>2. /\ files' \in Seq(Seq(Piece)) /\ Len(files') = Len(files)
        /\ DOMAIN files' = DOMAIN files
    BY <1>5, <2>1 DEF Truncate
  <2>3. {p.line : p \in ToSet(files[path])} \subseteq Lines
    <3>1. ToSet(files[path]) \subseteq Piece
      BY <2>1 DEF ToSet
    <3> QED
      BY <3>1 DEF Piece
  <2>4. excused' \subseteq Lines
    BY <1>0, <1>5, <2>3 DEF Truncate, TypeOK
  <2>5. truncated' \in 0 .. MaxTruncate
    BY <1>0, <1>5, Bounds, CountersTyped DEF Truncate
  <2> QED
    BY <1>0, <1>5, <2>2, <2>4, <2>5 DEF Truncate, TypeOK, tailer
<1> QED
  BY <1>1, <1>2, <1>3, <1>4, <1>5

LEMMA TailTypes == TypeInv /\ (TailStep \/ Restart) => TypeOK'
<1> SUFFICES ASSUME TypeInv, TailStep \/ Restart
             PROVE  TypeOK'
  OBVIOUS
<1>0. TypeOK
  BY DEF TypeInv
<1>1. CASE OpenFails
  BY <1>0, <1>1 DEF OpenFails, TypeOK, world
<1>2. CASE Open
  <2>1. path \in DOMAIN files /\ files[path] \in Seq(Piece) /\ path # None
    BY <1>0, <1>2 DEF Open, TypeOK
  <2>2. ToSet(files[path]) \subseteq Piece
    BY <2>1 DEF ToSet
  <2>3. {p.line : p \in ToSet(files[path])} \subseteq Lines
    BY <2>2 DEF Piece
  <2>4. pos' \in Nat
    BY <1>2, <2>1 DEF Open
  <2>5. excused' \subseteq Lines
    BY <1>0, <1>2, <2>3 DEF Open, TypeOK
  <2> QED
    BY <1>0, <1>2, <2>1, <2>4, <2>5 DEF Open, TypeOK, world
<1>3. CASE ReadLine
  <2>1. handle \in DOMAIN files /\ files[handle] \in Seq(Piece) /\ pos \in Nat
    BY <1>0, <1>3, FilesTyped, TailerTyped, CountersTyped DEF ReadLine
  <2>2. Chunk \in Seq(Piece)
    BY <2>1, ChunkIs
  <2>3. partial \in Seq(Piece) /\ lines \in Seq(Seq(Piece))
    BY <1>0 DEF TypeOK
  <2>4. partial \o Chunk \in Seq(Piece) /\ pos + Len(Chunk) \in Nat
    BY <2>1, <2>2, <2>3
  <2>5. Append(lines, partial \o Chunk) \in Seq(Seq(Piece))
    BY <2>3, <2>4
  <2>6. pos' \in Nat /\ lines' \in Seq(Seq(Piece)) /\ partial' \in Seq(Piece)
    <3>1. <<>> \in Seq(Piece)
      OBVIOUS
    <3> QED
      BY <1>3, <2>3, <2>4, <2>5, <3>1, Zenon DEF ReadLine
  <2>7. /\ pc' \in {"read", "yield", "drain", "last yield"} /\ pc # "open"
        /\ UNCHANGED <<world, handle, fromStart, got, restarts, excused>>
    BY <1>3 DEF ReadLine, AtEnd
  <2> QED
    BY <1>0, <2>6, <2>7 DEF TypeOK, world
<1>4. CASE ReadNothing
  BY <1>0, <1>4 DEF ReadNothing, AtEnd, TypeOK, world
<1>5. CASE Yield
  <2>1. lines \in Seq(Seq(Piece)) /\ got \in Seq(Lines) /\ lines # <<>>
    BY <1>0, <1>5 DEF Yield, TypeOK
  <2>2. Tail(lines) \in Seq(Seq(Piece)) /\ Head(lines) \in Seq(Piece)
    BY <2>1
  <2>3. Parses(Head(lines)) => Head(lines)[1].line \in Lines
    <3>1. ASSUME Parses(Head(lines)) PROVE Head(lines)[1] \in Piece
      BY <2>2, <3>1 DEF Parses
    <3> QED
      BY <3>1, PieceFields
  <2>4. got' \in Seq(Lines) /\ lines' \in Seq(Seq(Piece))
    <3>1. CASE Parses(Head(lines))
      <4>1. PICK l \in Lines : l = Head(lines)[1].line
        BY <2>3, <3>1
      <4>2. got' = Append(got, l) /\ lines' = Tail(lines)
        BY <1>5, <3>1, <4>1 DEF Yield
      <4> QED
        BY <2>1, <2>2, <4>2
    <3>2. CASE ~Parses(Head(lines))
      BY <1>5, <2>1, <2>2, <3>2 DEF Yield
    <3> QED
      BY <3>1, <3>2
  <2> QED
    BY <1>0, <1>5, <2>4 DEF Yield, TypeOK, world
<1>6. CASE Yielded
  BY <1>0, <1>6 DEF Yielded, TypeOK, world
<1>7. CASE Check
  BY <1>0, <1>7 DEF Check, TypeOK, world
<1>8. CASE Close
  BY <1>0, <1>8 DEF Close, TypeOK, world
<1>9. CASE Size
  <2>1. <<>> \in Seq(Piece) /\ pos' \in Nat
    BY <1>0, <1>9, CountersTyped DEF Size
  <2>2. partial' \in Seq(Piece)
    BY <1>0, <1>9, <2>1, TailerTyped DEF Size
  <2> QED
    BY <1>0, <1>9, <2>1, <2>2 DEF Size, TypeOK, world
<1>10. CASE Restart
  <2>1. 1 .. line \subseteq Lines
    BY <1>0, Bounds, CountersTyped DEF Lines
  <2>2. restarts' \in 0 .. MaxRestart
    BY <1>0, <1>10, Bounds, CountersTyped DEF Restart
  <2> QED
    <3>1. excused' \subseteq Lines /\ pos' \in Nat /\ partial' \in Seq(Piece)
          /\ lines' \in Seq(Seq(Piece))
      <4>1. <<>> \in Seq(Piece) /\ <<>> \in Seq(Seq(Piece))
        OBVIOUS
      <4> QED
        BY <1>0, <1>10, <2>1, <4>1, TailerTyped DEF Restart
    <3> QED
      BY <1>0, <1>10, <2>2, <3>1 DEF Restart, TypeOK, world
<1> QED
  BY <1>1, <1>2, <1>3, <1>4, <1>5, <1>6, <1>7, <1>8, <1>9, <1>10 DEF TailStep

LEMMA TypesKept == TypeInv /\ [Next]_vars => TypeInv'
<1>1. TypeOK /\ UNCHANGED vars => TypeOK'
  BY DEF TypeOK, vars, world, tailer
<1> QED
  BY <1>1, WorldTypes, TailTypes, BegunKept DEF Next, TypeInv

\* The files, the cursor and what it holds keep their types, and the tailer has a file
\* open exactly when it is not about to open one.
THEOREM TypeCorrect == Spec => []TypeOK
<1>1. Spec => []TypeInv
  BY TypesHold, TypesKept, PTL DEF Spec
<1>2. TypeInv => TypeOK
  BY DEF TypeInv
<1> QED
  BY <1>1, <1>2, PTL
-----------------------------------------------------------------------------
(* Order *)

LEMMA OrderHolds == Init => OrderInv
<1>1. Init => /\ files = <<>> /\ got = <<>> /\ lines = <<>>
              /\ DOMAIN files = {} /\ DOMAIN got = {} /\ DOMAIN lines = {}
  BY DEF Init
<1>2. Init => InPlace
  BY DEF Init, InPlace
<1>3. Init => FilesOrdered
  BY <1>1 DEF FilesOrdered
<1>4. Init => Seen = {}
  BY <1>1, Zenon DEF Seen, ToSet
<1>5. Init => ReadInOrder
  BY <1>1, <1>4 DEF ReadInOrder, InOrder
<1> QED
  BY <1>2, <1>3, <1>5 DEF OrderInv

LEMMA InPlaceKept == TypeInv /\ InPlace /\ [Next]_vars => InPlace'
<1> SUFFICES ASSUME TypeInv, InPlace, [Next]_vars PROVE InPlace'
  OBVIOUS
<1>0. TypeOK
  BY DEF TypeInv
<1>1. CASE Create
  <2>1. path' = Len(files') /\ path' # handle /\ path' # None
    BY <1>0, <1>1, FilesTyped, Bounds DEF Create
  <2> QED
    BY <1>1, <2>1 DEF Create, InPlace, tailer
<1>2. CASE BeginLine \/ EndLine
  <2>1. PICK piece : piece \in Piece /\ Grow(piece)
    BY <1>2, Written, Zenon
  <2>2. Len(files') = Len(files)
    BY <1>0, <2>1, GrowTypes
  <2> QED
    BY <1>2, <2>2 DEF BeginLine, EndLine, InPlace, tailer
<1>3. CASE Rename
  BY <1>0, <1>3, TailerTyped DEF Rename, InPlace, tailer
<1>4. CASE Truncate
  <2>1. Len(files') = Len(files)
    BY <1>0, <1>4, FilesTyped DEF Truncate
  <2> QED
    BY <1>4, <2>1 DEF Truncate, InPlace, tailer
<1>5. CASE OpenFails \/ Open \/ Check \/ Close \/ Size \/ Restart
  BY <1>5 DEF OpenFails, Open, Check, Close, Size, Restart, InPlace, world
<1>6. CASE ReadLine \/ ReadNothing
  BY <1>0, <1>6, TailerTyped DEF ReadLine, ReadNothing, AtEnd, InPlace, world
<1>7. CASE Yield \/ Yielded
  BY <1>7 DEF Yield, Yielded, InPlace, world
<1>8. CASE UNCHANGED vars
  BY <1>8 DEF vars, world, tailer, InPlace
<1> QED
  BY <1>1, <1>2, <1>3, <1>4, <1>5, <1>6, <1>7, <1>8 DEF Next, TailStep

\* The log has one piece more, and nothing else is changed.
LEMMA GrownFile ==
    ASSUME TypeOK, NEW piece \in Piece, Grow(piece)
    PROVE  /\ path \in 1 .. Len(files) /\ Len(files[path]) \in Nat
           /\ DOMAIN files' = 1 .. Len(files) /\ Len(files') = Len(files)
           /\ \A f \in 1 .. Len(files) : f # path => files'[f] = files[f]
           /\ Len(files'[path]) = Len(files[path]) + 1
           /\ files'[path] = Append(files[path], piece)
           /\ \A i \in 1 .. Len(files[path]) : files'[path][i] = files[path][i]
           /\ files'[path][Len(files[path]) + 1] = piece
<1>1. /\ files \in Seq(Seq(Piece)) /\ DOMAIN files = 1 .. Len(files)
      /\ path \in 1 .. Len(files) /\ files[path] \in Seq(Piece)
  BY FilesTyped DEF Grow
<1>2. PICK file : file = Append(files[path], piece)
  OBVIOUS
<1>3. /\ file \in Seq(Piece) /\ Len(file) = Len(files[path]) + 1
      /\ Len(files[path]) \in Nat
      /\ \A i \in 1 .. Len(files[path]) : file[i] = files[path][i]
      /\ file[Len(files[path]) + 1] = piece
  BY <1>1, <1>2
<1>4. files' = [files EXCEPT ![path] = file]
  BY <1>2 DEF Grow
<1> HIDE DEF Piece
<1> QED
  BY <1>1, <1>2, <1>3, <1>4, GrowTypes
LEMMA DoneTyped ==
    ASSUME TypeInv
    PROVE  /\ Done \in Nat /\ Done <= line
           /\ unfinished => line = Done + 1
           /\ ~unfinished => line = Done
<1>1. line \in Nat
  BY CountersTyped DEF TypeInv
<1>2. unfinished => line >= 1
  BY DEF TypeInv, Begun, Lines
<1> QED
  BY <1>1, <1>2 DEF Done

LEMMA DoneNat == TypeInv => Done \in Nat
  BY DoneTyped

\* A step that moves no newline keeps the order, and so does one that adds a later one at the end.
LEMMA AddedAtTheEnd ==
    ASSUME FilesOrdered, Done \in Nat, Done' \in Nat, Done <= Done',
           \A f \in DOMAIN files : \A i \in DOMAIN files[f] : files[f][i].line \in Nat,
           DOMAIN files' \subseteq Nat,
           \A f \in DOMAIN files' : DOMAIN files'[f] \subseteq Nat,
           \A f \in DOMAIN files' : \A i \in DOMAIN files'[f] : files'[f][i].newline =>
               \/ f \in DOMAIN files /\ i \in DOMAIN files[f] /\ files'[f][i] = files[f][i]
               \/ /\ files'[f][i].line = Done' /\ Done < Done'
                  /\ \A g \in DOMAIN files' : g <= f
                  /\ \A j \in DOMAIN files'[f] : j <= i
    PROVE  FilesOrdered'
<1>1. ASSUME NEW f \in DOMAIN files', NEW i \in DOMAIN files'[f], files'[f][i].newline
      PROVE  files'[f][i].line <= Done'
  BY <1>1 DEF FilesOrdered
<1>2. ASSUME NEW f \in DOMAIN files', NEW g \in DOMAIN files',
             NEW i \in DOMAIN files'[f], NEW j \in DOMAIN files'[g],
             files'[f][i].newline, files'[g][j].newline, f < g \/ (f = g /\ i < j)
      PROVE  files'[f][i].line < files'[g][j].line
  <2>1. /\ f \in Nat /\ g \in Nat /\ i \in Nat /\ j \in Nat
    OBVIOUS
  <2>2. f \in DOMAIN files /\ i \in DOMAIN files[f] /\ files'[f][i] = files[f][i]
    <3> SUFFICES ASSUME /\ \A h \in DOMAIN files' : h <= f
                        /\ \A k \in DOMAIN files'[f] : k <= i
                 PROVE  FALSE
      BY <1>2
    <3>1. g <= f /\ (g = f => j <= i)
      OBVIOUS
    <3> QED
      BY <1>2, <2>1, <3>1
  <2>3. files'[f][i].line <= Done /\ files'[f][i].line \in Nat
    BY <1>2, <2>2 DEF FilesOrdered
  <2>4. CASE files'[g][j].line = Done' /\ Done < Done'
    BY <2>3, <2>4
  <2>5. CASE g \in DOMAIN files /\ j \in DOMAIN files[g] /\ files'[g][j] = files[g][j]
    BY <1>2, <2>2, <2>5 DEF FilesOrdered
  <2> QED
    BY <1>2, <2>4, <2>5
<1> QED
  BY <1>1, <1>2 DEF FilesOrdered

LEMMA FilesOrderedKept == TypeInv /\ InPlace /\ FilesOrdered /\ [Next]_vars => FilesOrdered'
<1> SUFFICES ASSUME TypeInv, InPlace, FilesOrdered, [Next]_vars PROVE FilesOrdered'
  OBVIOUS
<1>0. TypeOK /\ TypeInv' /\ TypeOK'
  BY TypesKept DEF TypeInv
<1>1. /\ files \in Seq(Seq(Piece)) /\ DOMAIN files = 1 .. Len(files) /\ Len(files) \in Nat
      /\ \A f \in 1 .. Len(files) : files[f] \in Seq(Piece)
  BY <1>0, FilesTyped
<1>2. /\ files' \in Seq(Seq(Piece)) /\ DOMAIN files' = 1 .. Len(files') /\ Len(files') \in Nat
      /\ \A f \in 1 .. Len(files') : files'[f] \in Seq(Piece)
  <2>1. files' \in Seq(Seq(Piece))
    BY <1>0, Zenon DEF TypeOK
  <2> QED
    BY <2>1
<1>3. \A f \in DOMAIN files : \A i \in DOMAIN files[f] : files[f][i].line \in Nat
  <2> SUFFICES ASSUME NEW f \in DOMAIN files, NEW i \in DOMAIN files[f]
               PROVE  files[f][i].line \in Nat
    OBVIOUS
  <2>1. files[f][i] \in Piece
    BY <1>1
  <2> QED
    BY <2>1, PieceFields DEF Lines
<1>4. DOMAIN files' \subseteq Nat /\ \A f \in DOMAIN files' : DOMAIN files'[f] \subseteq Nat
  BY <1>2
<1>5. Done \in Nat /\ Done' \in Nat
  <2>1. Done \in Nat /\ (Done \in Nat)'
    BY <1>0, DoneNat, PTL
  <2> QED
    BY <2>1
<1>6. CASE Create
  <2>1. Done' = Done
    BY <1>6 DEF Create, Done
  <2>2. \A f \in DOMAIN files' : \A i \in DOMAIN files'[f] :
           f \in DOMAIN files /\ i \in DOMAIN files[f] /\ files'[f][i] = files[f][i]
    BY <1>1, <1>6 DEF Create
  <2> QED
    BY <1>3, <1>4, <1>5, <2>1, <2>2, AddedAtTheEnd
<1>7. CASE BeginLine
  <2>1. Done' = Done
    BY <1>0, <1>7, CountersTyped DEF BeginLine, Done
  <2>2. PICK piece \in Piece : Grow(piece) /\ ~piece.newline
    BY <1>7, Written DEF BeginLine
  <2>3. ASSUME NEW f \in DOMAIN files', NEW i \in DOMAIN files'[f], files'[f][i].newline
        PROVE  f \in DOMAIN files /\ i \in DOMAIN files[f] /\ files'[f][i] = files[f][i]
    <3>1. f \in 1 .. Len(files) /\ i \in 1 .. Len(files'[f])
      BY <1>0, <1>2, <2>2, GrownFile
    <3>2. CASE f # path
      BY <1>0, <1>1, <2>2, <3>1, <3>2, GrownFile
    <3>3. CASE f = path
      <4>1. i \in 1 .. Len(files[path]) + 1 /\ Len(files[path]) \in Nat
            /\ i # Len(files[path]) + 1
        BY <1>0, <2>2, <2>3, <3>1, <3>3, GrownFile
      <4>2. i \in 1 .. Len(files[path])
        BY <4>1
      <4> QED
        BY <1>0, <1>1, <2>2, <3>1, <3>3, <4>2, GrownFile
    <3> QED
      BY <3>2, <3>3
  <2> QED
    BY <1>3, <1>4, <1>5, <2>1, <2>3, AddedAtTheEnd
<1>8. CASE EndLine
  <2>1. Done' = line /\ Done < Done'
    BY <1>0, <1>8, CountersTyped DEF EndLine, Done
  <2>2. PICK piece \in Piece : Grow(piece) /\ piece.line = line
    BY <1>8, Written DEF EndLine
  <2>3. path = Len(files) /\ Len(files') = Len(files)
    BY <1>0, <2>2, GrownFile, Bounds DEF InPlace, Grow
  <2>4. ASSUME NEW f \in DOMAIN files', NEW i \in DOMAIN files'[f], files'[f][i].newline
        PROVE  \/ f \in DOMAIN files /\ i \in DOMAIN files[f] /\ files'[f][i] = files[f][i]
               \/ /\ files'[f][i].line = Done' /\ Done < Done'
                  /\ \A g \in DOMAIN files' : g <= f
                  /\ \A j \in DOMAIN files'[f] : j <= i
    <3>1. CASE f = path /\ i = Len(files[path]) + 1
      <4>1. files'[f][i] = piece /\ Len(files'[f]) = i
        BY <1>0, <2>2, <3>1, GrownFile
      <4> QED
        BY <1>2, <2>1, <2>2, <2>3, <3>1, <4>1
    <3>2. CASE f = path /\ i # Len(files[path]) + 1
      <4>1. i \in 1 .. Len(files[path])
        BY <1>0, <1>2, <2>2, <3>2, GrownFile
      <4> QED
        BY <1>0, <1>1, <2>2, <3>2, <4>1, GrownFile
    <3>3. CASE f # path
      BY <1>0, <1>1, <1>2, <2>2, <3>3, GrownFile
    <3> QED
      BY <3>1, <3>2, <3>3
  <2> QED
    BY <1>3, <1>4, <1>5, <2>1, <2>4, AddedAtTheEnd
<1>9. CASE Truncate
  <2>1. Done' = Done
    BY <1>9 DEF Truncate, Done
  <2>2. \A f \in DOMAIN files' : \A i \in DOMAIN files'[f] :
           f \in DOMAIN files /\ i \in DOMAIN files[f] /\ files'[f][i] = files[f][i]
    BY <1>1, <1>9 DEF Truncate
  <2> QED
    BY <1>3, <1>4, <1>5, <2>1, <2>2, AddedAtTheEnd
<1>10. CASE UNCHANGED <<files, line, unfinished>>
  BY <1>10 DEF FilesOrdered, Done
<1>11. Rename \/ TailStep \/ Restart \/ UNCHANGED vars => UNCHANGED <<files, line, unfinished>>
  BY DEF Rename, TailStep, OpenFails, Open, ReadLine, ReadNothing, Yield, Yielded,
         Check, Close, Size, Restart, vars, world
<1> QED
  BY <1>6, <1>7, <1>8, <1>9, <1>10, <1>11 DEF Next
\* A step that reads nothing, and after which nothing older comes, keeps the order.
LEMMA NothingRead ==
    ASSUME ReadInOrder, UNCHANGED <<got, lines>>, Done \in Nat, Done' \in Nat, Done <= Done',
           \A c \in Coming' : c \in Coming \/ (c \in Nat /\ c > Done)
    PROVE  ReadInOrder'
<1>1. Seen' = Seen
  BY DEF Seen
<1>2. Seen \subseteq 1 .. Done /\ \A s \in Seen, c \in Coming : s < c
  BY DEF ReadInOrder
<1>3. Seen' \subseteq 1 .. Done'
  BY <1>1, <1>2
<1>4. ASSUME NEW s \in Seen', NEW c \in Coming' PROVE s < c
  <2>1. s \in 1 .. Done /\ s \in Seen
    BY <1>1, <1>2
  <2>2. CASE c \in Coming
    BY <1>2, <2>1, <2>2
  <2>3. CASE c \in Nat /\ c > Done
    BY <2>1, <2>3
  <2> QED
    BY <2>2, <2>3
<1> QED
  BY <1>3, <1>4 DEF ReadInOrder, InOrder

\* What comes, by its places.
LEMMA Comes ==
    \A c : c \in Coming <=>
        \/ /\ handle # None
           /\ \E i \in Cursor + 1 .. Len(files[handle]) :
                 files[handle][i].newline /\ c = files[handle][i].line
        \/ /\ path # None /\ path # handle /\ (handle # None \/ fromStart)
           /\ \E i \in 1 .. Len(files[path]) :
                 files[path][i].newline /\ c = files[path][i].line
  BY DEF Coming, EndsIn

\* Nothing older comes when the honeypot or logrotate has done something.
LEMMA WorldComes ==
    ASSUME TypeInv, InPlace, Create \/ BeginLine \/ EndLine \/ Rename \/ Truncate,
           NEW c \in Coming'
    PROVE  c \in Coming \/ (c \in Nat /\ c > Done)
<1>0. TypeOK
  BY DEF TypeInv
<1>1. /\ files \in Seq(Seq(Piece)) /\ DOMAIN files = 1 .. Len(files) /\ Len(files) \in Nat
      /\ \A f \in 1 .. Len(files) : files[f] \in Seq(Piece) /\ Len(files[f]) \in Nat
      /\ handle # None => handle \in 1 .. Len(files)
      /\ path # None => path \in 1 .. Len(files)
      /\ pos \in Nat
  BY <1>0, FilesTyped, CountersTyped
<1>2. UNCHANGED <<handle, pos, fromStart>>
  BY DEF Create, BeginLine, EndLine, Rename, Truncate, tailer
<1>3. \/ /\ handle # None
         /\ \E i \in Cursor' + 1 .. Len(files'[handle]) :
               files'[handle][i].newline /\ c = files'[handle][i].line
      \/ /\ path' # None /\ path' # handle /\ (handle # None \/ fromStart)
         /\ \E i \in 1 .. Len(files'[path']) :
               files'[path'][i].newline /\ c = files'[path'][i].line
  <2>1. handle' = handle /\ fromStart' = fromStart
    BY <1>2
  <2> QED
    BY <2>1 DEF Coming, EndsIn
<1>4. CASE Create
  <2>1. /\ path' = Len(files) + 1 /\ files'[path'] = <<>> /\ Len(files'[path']) = 0
        /\ handle # None => files'[handle] = files[handle]
    BY <1>1, <1>4 DEF Create
  <2>2. handle # None => Cursor' = Cursor
    BY <1>2, <2>1 DEF Cursor, Shrunk
  <2> QED
    BY <1>3, <2>1, <2>2, Comes
<1>5. CASE Rename
  <2>1. path' = None /\ files' = files /\ Cursor' = Cursor
    BY <1>2, <1>5 DEF Rename, Cursor, Shrunk
  <2> QED
    BY <1>3, <2>1, Comes
<1>6. CASE Truncate
  <2>1. /\ path' = path /\ path \in 1 .. Len(files) /\ files'[path] = <<>>
        /\ Len(files'[path]) = 0
        /\ \A f \in 1 .. Len(files) : f # path => files'[f] = files[f]
    BY <1>1, <1>6 DEF Truncate
  <2>2. handle # None /\ handle # path => Cursor' = Cursor /\ files'[handle] = files[handle]
    BY <1>1, <1>2, <2>1 DEF Cursor, Shrunk
  <2>3. Cursor' \in Nat
    BY <1>1, <1>2 DEF Cursor
  <2>4. \A k \in Nat : k + 1 .. 0 = {}
    OBVIOUS
  <2> QED
    <3>1. CASE handle = path
      <4>1. Cursor' + 1 .. Len(files'[handle]) = {}
        BY <2>1, <2>3, <2>4, <3>1
      <4> QED
        BY <1>3, <2>1, <3>1, <4>1
    <3>2. CASE handle # path
      <4>1. 1 .. Len(files'[path']) = {}
        BY <2>1
      <4> QED
        BY <1>3, <2>2, <3>2, <4>1, Comes
    <3> QED
      BY <3>1, <3>2
<1>7. CASE BeginLine \/ EndLine
  <2>1. PICK piece \in Piece : Grow(piece) /\ (piece.newline => piece.line \in Nat /\ piece.line > Done)
    <3>1. CASE BeginLine
      BY <3>1, Written DEF BeginLine
    <3>2. CASE EndLine
      <4>1. line \in Nat /\ line > Done
        BY <1>0, <3>2, DoneTyped, CountersTyped DEF EndLine
      <4> QED
        BY <3>2, <4>1, Written DEF EndLine
    <3> QED
      BY <1>7, <3>1, <3>2
  <2>2. path' = path
    BY <1>7 DEF BeginLine, EndLine
  <2>3. /\ path \in 1 .. Len(files) /\ Len(files'[path]) = Len(files[path]) + 1
        /\ \A f \in 1 .. Len(files) : f # path => files'[f] = files[f]
        /\ \A i \in 1 .. Len(files[path]) : files'[path][i] = files[path][i]
        /\ files'[path][Len(files[path]) + 1] = piece
    BY <1>0, <2>1, GrownFile
  <2>4. Cursor \in Nat /\ Cursor' \in Nat /\ (handle # None => Cursor <= Cursor')
    <3>1. handle # None => Len(files'[handle]) >= Len(files[handle]) /\ Len(files'[handle]) \in Nat
      <4>1. ASSUME handle # None, handle # path
            PROVE  files'[handle] = files[handle] /\ Len(files[handle]) \in Nat
        BY <1>1, <2>3, <4>1
      <4>2. Len(files[path]) \in Nat
        BY <1>1, <2>3
      <4> QED
        BY <2>3, <4>1, <4>2
    <3> QED
      BY <1>1, <1>2, <3>1 DEF Cursor, Shrunk
  <2>5. handle # None /\ handle # path => Cursor' = Cursor /\ files'[handle] = files[handle]
    BY <1>1, <1>2, <2>3 DEF Cursor, Shrunk
  <2>6. CASE /\ handle # None
             /\ \E i \in Cursor' + 1 .. Len(files'[handle]) :
                   files'[handle][i].newline /\ c = files'[handle][i].line
    <3>1. PICK i \in Cursor' + 1 .. Len(files'[handle]) :
                   files'[handle][i].newline /\ c = files'[handle][i].line
      BY <2>6
    <3>2. CASE handle # path
      BY <2>5, <2>6, <3>1, <3>2, Comes
    <3>3. CASE handle = path /\ i = Len(files[path]) + 1
      BY <2>1, <2>3, <3>1, <3>3
    <3>4. CASE handle = path /\ i # Len(files[path]) + 1
      <4>1. i \in Cursor + 1 .. Len(files[path]) /\ i \in 1 .. Len(files[path])
        <5>1. PICK n \in Nat : n = Len(files[path])
          BY <1>1, <2>3
        <5>2. PICK k \in Nat : k = Cursor
          BY <2>4
        <5>3. PICK k2 \in Nat : k2 = Cursor'
          BY <2>4
        <5>4. i \in k2 + 1 .. n + 1 /\ i # n + 1 /\ k <= k2
          BY <2>3, <2>4, <2>6, <3>4, <5>1, <5>2, <5>3
        <5>5. i \in k + 1 .. n /\ i \in 1 .. n
          BY <5>4
        <5> QED
          BY <5>1, <5>2, <5>5
      <4>2. files'[path][i] = files[path][i]
        BY <2>3, <4>1
      <4> QED
        BY <2>6, <3>1, <3>4, <4>1, <4>2, Comes
    <3> QED
      BY <3>2, <3>3, <3>4
  <2>7. CASE /\ path # None /\ path # handle /\ (handle # None \/ fromStart)
             /\ \E i \in 1 .. Len(files'[path]) :
                   files'[path][i].newline /\ c = files'[path][i].line
    <3>1. PICK i \in 1 .. Len(files'[path]) :
                   files'[path][i].newline /\ c = files'[path][i].line
      BY <2>7
    <3>2. CASE i = Len(files[path]) + 1
      BY <2>1, <2>3, <3>1, <3>2
    <3>3. CASE i # Len(files[path]) + 1
      <4>1. i \in 1 .. Len(files[path])
        BY <1>1, <2>3, <3>1, <3>3
      <4> QED
        BY <2>3, <2>7, <3>1, <4>1, Comes
    <3> QED
      BY <3>2, <3>3
  <2> QED
    BY <1>3, <2>2, <2>6, <2>7
<1> QED
  BY <1>4, <1>5, <1>6, <1>7
\* Nor when the tailer opens, looks or closes.
LEMMA LookingComes ==
    ASSUME TypeInv, InPlace,
           OpenFails \/ Open \/ ReadNothing \/ Yield \/ Yielded \/ Check \/ Close \/ Size,
           NEW c \in Coming'
    PROVE  c \in Coming
<1>0. TypeOK
  BY DEF TypeInv
<1>1. /\ \A f \in 1 .. Len(files) : Len(files[f]) \in Nat
      /\ handle # None => handle \in 1 .. Len(files)
      /\ path # None => path \in 1 .. Len(files)
      /\ pos \in Nat /\ (handle = None <=> pc = "open")
  <2>1. \A f \in 1 .. Len(files) : files[f] \in Seq(Piece)
    BY <1>0, FilesTyped
  <2> QED
    BY <1>0, <2>1, FilesTyped, CountersTyped, TailerTyped
<1>2. files' = files /\ path' = path
  BY DEF OpenFails, Open, ReadNothing, Yield, Yielded, Check, Close, Size, world
<1>3. \/ /\ handle' # None
         /\ \E i \in Cursor' + 1 .. Len(files[handle']) :
               files[handle'][i].newline /\ c = files[handle'][i].line
      \/ /\ path # None /\ path # handle' /\ (handle' # None \/ fromStart')
         /\ \E i \in 1 .. Len(files[path]) :
               files[path][i].newline /\ c = files[path][i].line
  BY <1>2 DEF Coming, EndsIn
<1>4. CASE OpenFails
  <2>1. handle' = None /\ path = None
    BY <1>1, <1>4 DEF OpenFails
  <2> QED
    BY <1>3, <2>1
<1>5. CASE Open
  <2>1. handle = None /\ handle' = path /\ path # None
    BY <1>1, <1>5 DEF Open
  <2>2. CASE fromStart
    <3>1. Cursor' = 0
      BY <1>2, <1>5, <2>1, <2>2 DEF Open, Cursor
    <3> QED
      BY <1>3, <2>1, <2>2, <3>1, Comes
  <2>3. CASE ~fromStart
    <3>1. pos' = Len(files[path]) /\ Len(files[path]) \in Nat
      BY <1>1, <1>5, <2>1, <2>3 DEF Open
    <3>2. Cursor' = Len(files[path])
      BY <1>2, <2>1, <3>1 DEF Cursor, Shrunk
    <3>3. Len(files[path]) + 1 .. Len(files[path]) = {}
      BY <3>1
    <3> QED
      BY <1>3, <2>1, <3>2, <3>3
  <2> QED
    BY <2>2, <2>3
<1>6. CASE ReadNothing \/ Yield \/ Yielded \/ Check
  <2>1. UNCHANGED <<handle, pos, fromStart>>
    BY <1>6 DEF ReadNothing, Yield, Yielded, Check
  <2>2. Cursor' = Cursor
    BY <1>2, <2>1 DEF Cursor, Shrunk
  <2> QED
    BY <1>3, <2>1, <2>2, Comes
<1>7. CASE Close
  <2>1. handle # None /\ handle' = None /\ path # None /\ path # handle
    BY <1>1, <1>7 DEF Close, InPlace
  <2> QED
    BY <1>3, <2>1, Comes
<1>8. CASE Size
  <2>1. handle # None /\ handle' = handle /\ fromStart' = fromStart
    BY <1>1, <1>8 DEF Size
  <2>2. CASE Shrunk
    <3>1. pos' = 0 /\ Cursor = 0
      BY <1>8, <2>2 DEF Size, Shrunk, Cursor
    <3>2. Cursor' = 0
      BY <1>2, <2>1, <3>1 DEF Cursor
    <3> QED
      BY <1>3, <2>1, <3>1, <3>2, Comes
  <2>3. CASE ~Shrunk
    <3>1. pos' = pos
      BY <1>8, <2>1, <2>3 DEF Size, Shrunk
    <3>2. Cursor' = Cursor
      BY <1>2, <2>1, <3>1 DEF Cursor, Shrunk
    <3> QED
      BY <1>3, <2>1, <3>2, Comes
  <2> QED
    BY <2>2, <2>3
<1> QED
  BY <1>4, <1>5, <1>6, <1>7, <1>8

\* What one turn of complete_lines reads is newer than all that was read, and older than all
\* that comes then.
LEMMA LineComes ==
    ASSUME TypeInv, InPlace, FilesOrdered, ReadLine
    PROVE  /\ \A c \in Coming' : c \in Coming
           /\ Last(Chunk).newline => /\ Last(Chunk).line \in Coming
                                     /\ Last(Chunk).line \in 1 .. Done
                                     /\ \A c \in Coming' : Last(Chunk).line < c
<1>0. TypeOK
  BY DEF TypeInv
<1>1. PICK s \in Seq(Piece) : s = files[handle]
  BY <1>0, FilesTyped, TailerTyped DEF ReadLine
<1>2. /\ handle \in DOMAIN files /\ handle # None /\ pos \in Nat
      /\ Len(s) \in Nat /\ DOMAIN s = 1 .. Len(s)
  BY <1>0, <1>1, FilesTyped, TailerTyped, CountersTyped DEF ReadLine
<1>3. PICK k \in 1 .. Len(s) - pos :
        /\ pos < Len(s) /\ k = Len(Chunk) /\ Last(Chunk) = s[pos + k]
        /\ \A i \in 1 .. k - 1 : ~s[pos + i].newline
  <2>1. pos < Len(s)
    BY <1>1, <1>2, ChunkIs DEF ReadLine
  <2>2. /\ Len(Chunk) \in 1 .. Len(s) - pos /\ Chunk[Len(Chunk)] = s[pos + Len(Chunk)]
        /\ \A i \in 1 .. Len(Chunk) - 1 : ~s[pos + i].newline
    BY <1>1, <1>2, <2>1, ChunkIs
  <2>3. Last(Chunk) = Chunk[Len(Chunk)]
    BY DEF Last
  <2> QED
    BY <2>1, <2>2, <2>3
<1>4. /\ files' = files /\ path' = path /\ handle' = handle /\ fromStart' = fromStart
      /\ pos' = pos + k
  BY <1>3 DEF ReadLine, world
<1>5. Cursor = pos /\ Cursor' = pos + k
  BY <1>1, <1>2, <1>3, <1>4 DEF Cursor, Shrunk
<1>6. ASSUME NEW c \in Coming'
      PROVE  /\ c \in Coming
             /\ s[pos + k].newline => s[pos + k].line < c
  <2>1. \/ \E i \in pos + k + 1 .. Len(s) : s[i].newline /\ c = s[i].line
        \/ /\ path # None /\ path # handle
           /\ \E i \in 1 .. Len(files[path]) :
                 files[path][i].newline /\ c = files[path][i].line
    BY <1>1, <1>2, <1>4, <1>5 DEF Coming, EndsIn
  <2>2. CASE \E i \in pos + k + 1 .. Len(s) : s[i].newline /\ c = s[i].line
    <3>1. PICK i \in pos + k + 1 .. Len(s) : s[i].newline /\ c = s[i].line
      BY <2>2
    <3>2. i \in pos + 1 .. Len(s) /\ i \in DOMAIN s /\ pos + k \in DOMAIN s /\ pos + k < i
      BY <1>2, <1>3
    <3>3. c \in Coming
      BY <1>1, <1>2, <1>5, <3>1, <3>2, Comes
    <3>4. s[pos + k].newline => s[pos + k].line < s[i].line
      BY <1>1, <1>2, <3>1, <3>2 DEF FilesOrdered
    <3> QED
      BY <3>1, <3>3, <3>4
  <2>3. CASE /\ path # None /\ path # handle
             /\ \E i \in 1 .. Len(files[path]) :
                   files[path][i].newline /\ c = files[path][i].line
    <3>1. PICK i \in 1 .. Len(files[path]) : files[path][i].newline /\ c = files[path][i].line
      BY <2>3
    <3>2. /\ path \in DOMAIN files /\ handle < path /\ i \in DOMAIN files[path]
          /\ pos + k \in DOMAIN s
      <4>1. path = Len(files) /\ handle \in 1 .. Len(files) /\ Len(files) \in Nat
            /\ path \in 1 .. Len(files) /\ DOMAIN files = 1 .. Len(files)
            /\ files[path] \in Seq(Piece)
        BY <1>0, <1>2, <2>3, FilesTyped DEF InPlace
      <4>2. handle < path
        BY <2>3, <4>1
      <4> QED
        BY <1>2, <1>3, <4>1, <4>2
    <3>3. c \in Coming
      BY <1>2, <2>3, <3>1, Comes
    <3>4. s[pos + k].newline => s[pos + k].line < files[path][i].line
      BY <1>1, <1>2, <3>1, <3>2 DEF FilesOrdered
    <3> QED
      BY <3>1, <3>3, <3>4
  <2> QED
    BY <2>1, <2>2, <2>3
<1>7. ASSUME s[pos + k].newline
      PROVE  s[pos + k].line \in Coming /\ s[pos + k].line \in 1 .. Done
  <2>1. pos + k \in pos + 1 .. Len(s) /\ pos + k \in DOMAIN s
    BY <1>2, <1>3
  <2>2. s[pos + k].line \in Coming
    BY <1>1, <1>2, <1>5, <1>7, <2>1, Comes
  <2>3. s[pos + k].line <= Done
    BY <1>1, <1>2, <1>7, <2>1 DEF FilesOrdered
  <2>4. s[pos + k].line \in Nat /\ s[pos + k].line >= 1
    <3>1. s[pos + k] \in Piece
      BY <1>1, <2>1
    <3> QED
      BY <3>1, PieceFields DEF Lines
  <2> QED
    BY <2>2, <2>3, <2>4, DoneTyped
<1> QED
  BY <1>3, <1>6, <1>7
\* The lines that are all there only become more.
LEMMA DoneGrows ==
    ASSUME TypeInv, [Next]_vars
    PROVE  Done \in Nat /\ Done' \in Nat /\ Done <= Done'
<1>1. TypeInv /\ TypeInv'
  BY TypesKept
<1>2. Done \in Nat /\ (Done \in Nat)'
  BY <1>1, DoneNat, PTL
<1>3. line \in Nat
  BY CountersTyped DEF TypeInv
<1>4. CASE BeginLine
  BY <1>2, <1>3, <1>4 DEF BeginLine, Done
<1>5. CASE EndLine
  BY <1>2, <1>3, <1>5 DEF EndLine, Done
<1>6. CASE UNCHANGED <<line, unfinished>>
  BY <1>2, <1>6 DEF Done
<1>7. Create \/ Rename \/ Truncate \/ TailStep \/ Restart \/ UNCHANGED vars
        => UNCHANGED <<line, unfinished>>
  BY DEF Create, Rename, Truncate, TailStep, OpenFails, Open, ReadLine, ReadNothing, Yield, Yielded,
         Check, Close, Size, Restart, vars, world
<1> QED
  BY <1>4, <1>5, <1>6, <1>7 DEF Next

\* A line is added to those that wait.
LEMMA CollectedInOrder ==
    ASSUME TypeInv, ReadInOrder, NEW l \in Seq(Piece), lines' = Append(lines, l), got' = got,
           Key(l) \in 1 .. Done, \A s \in Seen : s < Key(l), Done' = Done,
           \A c \in Coming' : c \in Coming /\ Key(l) < c
    PROVE  ReadInOrder'
<1>1. /\ lines \in Seq(Seq(Piece)) /\ got \in Seq(Lines)
      /\ DOMAIN lines = 1 .. Len(lines) /\ Len(lines) \in Nat
  BY TailerTyped DEF TypeInv
<1>2. /\ DOMAIN lines' = 1 .. Len(lines) + 1 /\ lines'[Len(lines) + 1] = l
      /\ \A i \in 1 .. Len(lines) : lines'[i] = lines[i]
  BY <1>1
<1>3. \A i \in DOMAIN lines : Key(lines[i]) \in Seen
  BY DEF Seen, ToSet
<1>4. \A i \in DOMAIN got : got[i] \in Seen
  BY DEF Seen, ToSet
<1>5. Seen' = Seen \cup {Key(l)}
  <2>1. ToSet(lines') = ToSet(lines) \cup {l}
    <3>1. l \in ToSet(lines')
      <4>1. Len(lines) + 1 \in DOMAIN lines'
        BY <1>1, <1>2
      <4> QED
        BY <1>2, <4>1 DEF ToSet
    <3>2. \A i \in DOMAIN lines : i \in DOMAIN lines' /\ lines'[i] = lines[i]
      BY <1>1, <1>2
    <3>3. \A i \in DOMAIN lines' : i \in DOMAIN lines \/ i = Len(lines) + 1
      BY <1>1, <1>2
    <3>4. ToSet(lines) \subseteq ToSet(lines')
      BY <3>2 DEF ToSet
    <3>5. ToSet(lines') \subseteq ToSet(lines) \cup {l}
      BY <1>2, <3>2, <3>3 DEF ToSet
    <3> QED
      BY <3>1, <3>4, <3>5
  <2> QED
    BY <2>1 DEF Seen
<1>6. Seen' \subseteq 1 .. Done' /\ \A s \in Seen', c \in Coming' : s < c
  BY <1>5 DEF ReadInOrder
<1>7. InOrder'
  BY DEF ReadInOrder, InOrder
<1>8. \A i, j \in DOMAIN lines' : i < j => Key(lines'[i]) < Key(lines'[j])
  <2> SUFFICES ASSUME NEW i \in DOMAIN lines', NEW j \in DOMAIN lines', i < j
               PROVE  Key(lines'[i]) < Key(lines'[j])
    OBVIOUS
  <2>1. i \in 1 .. Len(lines) /\ lines'[i] = lines[i]
    BY <1>1, <1>2
  <2>2. CASE j = Len(lines) + 1
    BY <1>1, <1>2, <1>3, <2>1, <2>2
  <2>3. CASE j # Len(lines) + 1
    <3>1. j \in 1 .. Len(lines) /\ lines'[j] = lines[j]
      BY <1>1, <1>2, <2>3
    <3> QED
      BY <1>1, <2>1, <3>1 DEF ReadInOrder
  <2> QED
    BY <2>2, <2>3
<1>9. \A i \in DOMAIN got', j \in DOMAIN lines' : got'[i] < Key(lines'[j])
  <2> SUFFICES ASSUME NEW i \in DOMAIN got, NEW j \in DOMAIN lines'
               PROVE  got[i] < Key(lines'[j])
    OBVIOUS
  <2>1. CASE j = Len(lines) + 1
    BY <1>2, <1>4, <2>1
  <2>2. CASE j # Len(lines) + 1
    <3>1. j \in 1 .. Len(lines)
      <4>1. j \in 1 .. Len(lines) + 1 /\ Len(lines) \in Nat
        BY <1>1, <1>2
      <4> QED
        BY <2>2, <4>1
    <3>2. j \in DOMAIN lines /\ lines'[j] = lines[j]
      BY <1>1, <1>2, <3>1
    <3> QED
      BY <3>2 DEF ReadInOrder
  <2> QED
    BY <2>1, <2>2
<1> QED
  BY <1>6, <1>7, <1>8, <1>9 DEF ReadInOrder

\* The first of them is yielded.
LEMMA YieldedInOrder ==
    ASSUME TypeInv, InPlace, ReadInOrder, Yield, Done' = Done,
           \A c \in Coming' : c \in Coming
    PROVE  ReadInOrder'
<1>1. /\ lines \in Seq(Seq(Piece)) /\ got \in Seq(Lines) /\ lines # <<>>
      /\ DOMAIN lines = 1 .. Len(lines) /\ Len(lines) \in Nat /\ 1 \in DOMAIN lines
      /\ DOMAIN got = 1 .. Len(got) /\ Len(got) \in Nat
  <2>1. lines \in Seq(Seq(Piece)) /\ got \in Seq(Lines) /\ lines # <<>>
    BY TailerTyped DEF TypeInv, Yield
  <2> QED
    BY <2>1
<1>2. PICK l \in Seq(Piece) : l = Head(lines) /\ l = lines[1]
  BY <1>1
<1>3. /\ DOMAIN lines' = 1 .. Len(lines) - 1
      /\ \A i \in 1 .. Len(lines) - 1 : i + 1 \in DOMAIN lines /\ lines'[i] = lines[i + 1]
  <2>1. lines' = Tail(lines)
    BY DEF Yield
  <2>2. /\ Tail(lines) \in Seq(Seq(Piece)) /\ Len(Tail(lines)) = Len(lines) - 1
        /\ \A i \in 1 .. Len(Tail(lines)) : Tail(lines)[i] = lines[i + 1]
    BY <1>1
  <2>3. DOMAIN lines' = 1 .. Len(lines) - 1
    BY <2>1, <2>2
  <2> QED
    BY <1>1, <2>1, <2>2, <2>3
<1>4. \A i \in DOMAIN lines : Key(lines[i]) \in Seen
  BY DEF Seen, ToSet
<1>5. ToSet(lines') \subseteq ToSet(lines)
  BY <1>3 DEF ToSet
<1>6. \A i, j \in DOMAIN lines' : i < j => Key(lines'[i]) < Key(lines'[j])
  <2> SUFFICES ASSUME NEW i \in DOMAIN lines', NEW j \in DOMAIN lines', i < j
               PROVE  Key(lines'[i]) < Key(lines'[j])
    OBVIOUS
  <2>1. /\ i + 1 \in DOMAIN lines /\ j + 1 \in DOMAIN lines /\ i + 1 < j + 1
        /\ lines'[i] = lines[i + 1] /\ lines'[j] = lines[j + 1]
    BY <1>1, <1>3
  <2> QED
    BY <2>1 DEF ReadInOrder
<1>7. CASE ~Parses(l)
  <2>1. got' = got
    BY <1>2, <1>7 DEF Yield
  <2>2. Seen' \subseteq Seen
    BY <1>5, <2>1 DEF Seen
  <2>3. Seen' \subseteq 1 .. Done' /\ \A s \in Seen', c \in Coming' : s < c
    BY <2>2 DEF ReadInOrder
  <2>4. \A i \in DOMAIN got', j \in DOMAIN lines' : got'[i] < Key(lines'[j])
    BY <1>3, <2>1 DEF ReadInOrder
  <2> QED
    BY <1>6, <2>1, <2>3, <2>4 DEF ReadInOrder, InOrder
<1>8. CASE Parses(l)
  <2>1. Key(l) = l[1].line
    <3>1. Last(l) = l[2] /\ l[1].line = l[2].line
      BY <1>8 DEF Parses, Last
    <3> QED
      BY <3>1 DEF Key
  <2>2. Key(l) \in Lines
    <3>1. l[1] \in Piece
      BY <1>8 DEF Parses
    <3> QED
      BY <2>1, <3>1, PieceFields
  <2>3. got' = Append(got, Key(l))
    BY <1>2, <1>8, <2>1 DEF Yield
  <2>4. /\ DOMAIN got' = 1 .. Len(got) + 1 /\ got'[Len(got) + 1] = Key(l)
        /\ \A i \in 1 .. Len(got) : got'[i] = got[i]
    BY <1>1, <2>2, <2>3
  <2>5. Key(l) \in Seen
    BY <1>1, <1>2, <1>4
  <2>6. Seen' \subseteq Seen
    <3>1. ToSet(got') \subseteq ToSet(got) \cup {Key(l)}
      <4> SUFFICES ASSUME NEW i \in DOMAIN got' PROVE got'[i] \in ToSet(got) \cup {Key(l)}
        BY DEF ToSet
      <4>1. CASE i = Len(got) + 1
        BY <2>4, <4>1
      <4>2. CASE i # Len(got) + 1
        <5>1. i \in DOMAIN got /\ got'[i] = got[i]
          BY <1>1, <2>4, <4>2
        <5> QED
          BY <5>1 DEF ToSet
      <4> QED
        BY <4>1, <4>2
    <3> QED
      BY <1>5, <2>5, <3>1 DEF Seen
  <2>7. Seen' \subseteq 1 .. Done' /\ \A s \in Seen', c \in Coming' : s < c
    BY <2>6 DEF ReadInOrder
  <2>8. InOrder'
    <3> SUFFICES ASSUME NEW i \in DOMAIN got', NEW j \in DOMAIN got', i < j
                 PROVE  got'[i] < got'[j]
      BY DEF InOrder
    <3>1. i \in DOMAIN got /\ got'[i] = got[i]
      BY <1>1, <2>4
    <3>2. CASE j = Len(got) + 1
      <4>1. got[i] < Key(l)
        BY <1>1, <1>2, <3>1 DEF ReadInOrder
      <4> QED
        BY <2>4, <3>1, <3>2, <4>1
    <3>3. CASE j # Len(got) + 1
      <4>1. j \in DOMAIN got /\ got'[j] = got[j]
        BY <1>1, <2>4, <3>3
      <4> QED
        BY <3>1, <4>1 DEF ReadInOrder, InOrder
    <3> QED
      BY <3>2, <3>3
  <2>9. \A i \in DOMAIN got', j \in DOMAIN lines' : got'[i] < Key(lines'[j])
    <3> SUFFICES ASSUME NEW i \in DOMAIN got', NEW j \in DOMAIN lines'
                 PROVE  got'[i] < Key(lines'[j])
      OBVIOUS
    <3>1. j + 1 \in DOMAIN lines /\ lines'[j] = lines[j + 1] /\ 1 < j + 1
      BY <1>1, <1>3
    <3>2. CASE i = Len(got) + 1
      BY <1>1, <1>2, <2>4, <3>1, <3>2 DEF ReadInOrder
    <3>3. CASE i # Len(got) + 1
      <4>1. i \in DOMAIN got /\ got'[i] = got[i]
        BY <1>1, <2>4, <3>3
      <4> QED
        BY <3>1, <4>1 DEF ReadInOrder
    <3> QED
      BY <3>2, <3>3
  <2> QED
    BY <1>6, <2>7, <2>8, <2>9 DEF ReadInOrder
<1> QED
  BY <1>7, <1>8
LEMMA ReadInOrderKept ==
    TypeInv /\ InPlace /\ FilesOrdered /\ ReadInOrder /\ [Next]_vars => ReadInOrder'
<1> SUFFICES ASSUME TypeInv, InPlace, FilesOrdered, ReadInOrder, [Next]_vars
             PROVE  ReadInOrder'
  OBVIOUS
<1>0. TypeOK /\ Done \in Nat /\ Done' \in Nat /\ Done <= Done'
  BY DoneGrows DEF TypeInv
<1>1. CASE Create \/ BeginLine \/ EndLine \/ Rename \/ Truncate
  <2>1. UNCHANGED <<got, lines>>
    BY <1>1 DEF Create, BeginLine, EndLine, Rename, Truncate, tailer
  <2> QED
    BY <1>0, <1>1, <2>1, WorldComes, NothingRead
<1>2. CASE OpenFails \/ Open \/ ReadNothing \/ Yielded \/ Check \/ Close \/ Size
  <2>1. UNCHANGED <<got, lines>>
    BY <1>2 DEF OpenFails, Open, ReadNothing, Yielded, Check, Close, Size
  <2> QED
    BY <1>0, <1>2, <2>1, LookingComes, NothingRead
<1>3. CASE ReadLine
  <2>1. Done' = Done /\ got' = got
    BY <1>3 DEF ReadLine, Done, world
  <2>2. CASE ~Last(Chunk).newline
    <3>1. UNCHANGED <<got, lines>>
      BY <1>3, <2>2 DEF ReadLine
    <3> QED
      BY <1>0, <1>3, <3>1, LineComes, NothingRead
  <2>3. CASE Last(Chunk).newline
    <3>1. /\ partial \in Seq(Piece) /\ Chunk \in Seq(Piece) /\ Chunk # <<>>
      BY <1>0, <1>3, FilesTyped, TailerTyped, CountersTyped, ChunkIs DEF ReadLine
    <3>2. PICK l \in Seq(Piece) : l = partial \o Chunk /\ Last(l) = Last(Chunk)
      <4>1. /\ partial \o Chunk \in Seq(Piece) /\ Len(partial \o Chunk) = Len(partial) + Len(Chunk)
            /\ (partial \o Chunk)[Len(partial) + Len(Chunk)] = Chunk[Len(Chunk)]
        BY <3>1
      <4> QED
        BY <4>1 DEF Last
    <3>3. lines' = Append(lines, l)
      BY <1>3, <2>3, <3>2 DEF ReadLine
    <3>4. /\ Key(l) \in Coming /\ Key(l) \in 1 .. Done
          /\ \A c \in Coming' : c \in Coming /\ Key(l) < c
      BY <1>3, <2>3, <3>2, LineComes DEF Key
    <3>5. \A s \in Seen : s < Key(l)
      BY <3>4 DEF ReadInOrder
    <3> QED
      BY <2>1, <3>3, <3>4, <3>5, CollectedInOrder
  <2> QED
    BY <2>2, <2>3
<1>4. CASE Yield
  <2>1. Done' = Done
    BY <1>4 DEF Yield, Done, world
  <2> QED
    BY <1>4, <2>1, LookingComes, YieldedInOrder
<1>5. CASE Restart
  <2>1. /\ got' = got /\ lines' = <<>> /\ Done' = Done /\ DOMAIN lines' = {}
    BY <1>5 DEF Restart, Done, world
  <2>2. Seen' \subseteq Seen
    BY <2>1 DEF Seen, ToSet
  <2>3. Coming' = {}
    BY <1>5 DEF Restart, Coming
  <2> QED
    BY <2>1, <2>2, <2>3 DEF ReadInOrder, InOrder
<1>6. CASE UNCHANGED vars
  <2>1. Seen' = Seen /\ Coming' = Coming /\ Done' = Done /\ got' = got /\ lines' = lines
    BY <1>6 DEF vars, world, tailer, Seen, Coming, EndsIn, Cursor, Shrunk, Done
  <2> QED
    BY <2>1 DEF ReadInOrder, InOrder
<1> QED
  BY <1>1, <1>2, <1>3, <1>4, <1>5, <1>6 DEF Next, TailStep

\* Across renames, truncations and restarts, and however an emptied log grows, no line is an
\* event twice, and none before an older one.
THEOREM ReadOnceInOrder == Spec => []InOrder
<1>1. TypeInv /\ OrderInv /\ [Next]_vars => OrderInv'
  BY InPlaceKept, FilesOrderedKept, ReadInOrderKept DEF OrderInv
<1>2. OrderInv => InOrder
  BY DEF OrderInv, ReadInOrder
<1> QED
  BY <1>1, <1>2, TypesHold, TypesKept, OrderHolds, PTL DEF Spec
-----------------------------------------------------------------------------
(* Nothing is passed over *)

\* What the tailer may leave behind only becomes more.
LEMMA ExcusedGrows == [Next]_vars => excused \subseteq excused'
  BY DEF Next, TailStep, Create, BeginLine, EndLine, Rename, Truncate, OpenFails, Open, ReadLine,
         ReadNothing, Yield, Yielded, Check, Close, Size, Restart, vars

\* The lines that are collected are those read and not yielded yet.
LEMMA CollectedSeen ==
    ASSUME TypeInv, Whole
    PROVE  Seen = ToSet(got) \cup Collected
<1>1. \A l \in ToSet(lines) : l \in Seq(Piece)
  BY TailerTyped DEF TypeInv, ToSet
<1>2. ASSUME NEW l \in ToSet(lines)
      PROVE  {p.line : p \in ToSet(l)} = {Key(l)}
  <2>1. l \in Seq(Piece)
    BY <1>1
  <2>2. CASE Parses(l)
    <3>1. DOMAIN l = {1, 2} /\ Last(l) = l[2] /\ l[1].line = l[2].line
      BY <2>1, <2>2 DEF Parses, Last
    <3>2. ToSet(l) = {l[1], l[2]}
      BY <3>1 DEF ToSet
    <3> QED
      BY <3>1, <3>2 DEF Key
  <2>3. CASE Len(l) = 1
    <3>1. DOMAIN l = {1} /\ Last(l) = l[1]
      BY <2>1, <2>3 DEF Last
    <3>2. ToSet(l) = {l[1]}
      BY <3>1 DEF ToSet
    <3> QED
      BY <3>1, <3>2 DEF Key
  <2> QED
    BY <2>2, <2>3 DEF Whole
<1>3. Collected = {Key(l) : l \in ToSet(lines)}
  BY <1>2 DEF Collected
<1> QED
  BY <1>3 DEF Seen

\* Finished are the lines up to the last that is all there.
LEMMA FinishedDone == TypeInv => Finished = 1 .. Done
<1> SUFFICES ASSUME TypeInv PROVE Finished = 1 .. Done
  OBVIOUS
<1>1. line \in Nat /\ Done \in Nat /\ (unfinished => line = Done + 1) /\ (~unfinished => line = Done)
  BY CountersTyped, DoneTyped DEF TypeInv
<1>2. CASE unfinished
  BY <1>1, <1>2 DEF Finished
<1>3. CASE ~unfinished
  BY <1>1, <1>3 DEF Finished
<1> QED
  BY <1>2, <1>3

LEMMA LogEndKept ==
    TypeInv /\ ReadInOrder /\ Whole /\ LogEnd /\ [Next]_vars => LogEnd'
<1> SUFFICES ASSUME TypeInv, ReadInOrder, Whole, LogEnd, [Next]_vars PROVE LogEnd'
  OBVIOUS
<1>0. TypeOK /\ excused \subseteq excused'
  BY ExcusedGrows DEF TypeInv
<1>1. CASE Create
  BY <1>1 DEF Create, LogEnd
<1>2. CASE BeginLine
  <2>1. PICK piece \in Piece : Grow(piece) /\ piece = [line |-> line', newline |-> FALSE]
    BY <1>2, Written DEF BeginLine
  <2>2. path' = path /\ path # None
    BY <1>2 DEF BeginLine, Grow
  <2>3. Len(files'[path]) \in Nat /\ Len(files'[path]) # 0 /\ Last(files'[path]) = piece
    BY <1>0, <2>1, GrownFile DEF Last
  <2>4. files'[path] # <<>>
    BY <2>3
  <2> QED
    BY <2>1, <2>2, <2>3, <2>4 DEF LogEnd
<1>3. CASE EndLine
  BY <1>3 DEF EndLine, LogEnd
<1>4. CASE Rename
  BY <1>4 DEF Rename, LogEnd
<1>5. CASE Truncate
  <2> SUFFICES ASSUME unfinished PROVE path' # None /\ files'[path'] = <<>> /\ line \in excused'
    BY <1>5 DEF LogEnd, Truncate
  <2>1. path' = path /\ path # None /\ files'[path] = <<>>
    BY <1>0, <1>5, FilesTyped DEF Truncate
  <2>2. CASE files[path] = <<>>
    BY <1>0, <2>1, <2>2 DEF LogEnd
  <2>3. CASE files[path] # <<>>
    <3>1. files[path] \in Seq(Piece)
      BY <1>0, <2>1, FilesTyped
    <3>2. Last(files[path]) \in ToSet(files[path])
      BY <2>3, <3>1 DEF Last, ToSet
    <3>3. line \in {p.line : p \in ToSet(files[path])}
      BY <2>3, <3>2 DEF LogEnd
    <3>4. line \notin Seen
      BY DoneTyped DEF ReadInOrder
    <3> QED
      BY <1>5, <2>1, <3>3, <3>4, CollectedSeen DEF Truncate
  <2> QED
    BY <2>1, <2>2, <2>3
<1>6. CASE UNCHANGED <<files, path, line, unfinished>>
  BY <1>0, <1>6 DEF LogEnd
<1>7. TailStep \/ Restart \/ UNCHANGED vars => UNCHANGED <<files, path, line, unfinished>>
  BY DEF TailStep, OpenFails, Open, ReadLine, ReadNothing, Yield, Yielded,
         Check, Close, Size, Restart, vars, world
<1> QED
  BY <1>1, <1>2, <1>3, <1>4, <1>5, <1>6, <1>7 DEF Next

\* A step keeps them paired.
LEMMA PairedKept == TypeInv /\ LogEnd /\ Paired /\ [Next]_vars => Paired'
<1> SUFFICES ASSUME TypeInv, LogEnd, Paired, [Next]_vars PROVE Paired'
  OBVIOUS
<1>0. TypeOK /\ excused \subseteq excused'
  BY ExcusedGrows DEF TypeInv
<1>1. /\ files \in Seq(Seq(Piece)) /\ DOMAIN files = 1 .. Len(files) /\ Len(files) \in Nat
      /\ \A f \in 1 .. Len(files) : files[f] \in Seq(Piece)
      /\ \A f \in 1 .. Len(files) : DOMAIN files[f] = 1 .. Len(files[f]) /\ Len(files[f]) \in Nat
  <2>1. \A f \in 1 .. Len(files) : files[f] \in Seq(Piece)
    BY <1>0, FilesTyped
  <2> QED
    BY <1>0, <2>1, FilesTyped
<1>2. CASE Create
  <2>1. /\ DOMAIN files' = 1 .. Len(files) + 1 /\ files'[Len(files) + 1] = <<>>
        /\ DOMAIN <<>> = {}
        /\ \A f \in 1 .. Len(files) : files'[f] = files[f]
    BY <1>1, <1>2 DEF Create
  <2>2. \A f \in DOMAIN files' : \A i \in DOMAIN files'[f] :
           f \in DOMAIN files /\ i \in DOMAIN files[f] /\ files'[f] = files[f]
    BY <1>1, <2>1
  <2>3. path = None /\ path \notin DOMAIN files
    BY <1>1, <1>2, Bounds DEF Create
  <2> QED
    <3>1. \A f \in DOMAIN files : \A i \in DOMAIN files[f] :
             ~files[f][i].newline => i # Len(files[f]) /\ files[f][i + 1].newline
      BY <2>3 DEF Paired
    <3> QED
      BY <1>0, <2>2, <3>1 DEF Paired
<1>3. CASE BeginLine \/ EndLine
  <2>1. PICK piece \in Piece : /\ Grow(piece)
                               /\ BeginLine => ~piece.newline
                               /\ EndLine => piece = [line |-> line, newline |-> TRUE]
    <3>1. BeginLine => ~EndLine
      BY DEF BeginLine, EndLine
    <3>2. CASE BeginLine
      BY <3>1, <3>2, Written
    <3>3. CASE EndLine
      BY <3>1, <3>3, Written
    <3> QED
      BY <1>3, <3>2, <3>3
  <2>2. PICK n \in Nat : n = Len(files[path])
    BY <1>0, <2>1, GrownFile
  <2>3. /\ path \in 1 .. Len(files) /\ DOMAIN files' = DOMAIN files
        /\ \A f \in DOMAIN files : f # path => files'[f] = files[f]
        /\ files'[path] = Append(files[path], piece)
        /\ Len(files'[path]) = n + 1
        /\ \A i \in 1 .. n : files'[path][i] = files[path][i]
        /\ files'[path][n + 1] = piece
    BY <1>0, <1>1, <2>1, <2>2, GrownFile
  <2>4. path' = path /\ excused' = excused /\ DOMAIN files[path] = 1 .. n
    BY <1>1, <1>3, <2>2, <2>3 DEF BeginLine, EndLine
  <2>5. files[path] \in Seq(Piece) /\ DOMAIN files'[path] = 1 .. n + 1
    <3>1. files[path] \in Seq(Piece)
      BY <1>1, <2>3
    <3> QED
      BY <2>2, <2>3, <3>1
  <2>6. ASSUME NEW f \in DOMAIN files', NEW i \in DOMAIN files'[f]
        PROVE /\ files'[f][i].newline /\ i = 1 => files'[f][i].line \in excused
              /\ files'[f][i].newline /\ i # 1 =>
                     files'[f][i - 1] = [line |-> files'[f][i].line, newline |-> FALSE]
              /\ ~files'[f][i].newline =>
                     IF i = Len(files'[f]) THEN f = path /\ unfinished' ELSE files'[f][i + 1].newline
    <3>1. CASE f # path
      <4>1. files'[f] = files[f] /\ f \in DOMAIN files /\ i \in DOMAIN files[f]
        BY <2>3, <3>1
      <4> QED
        <5>1. ~files[f][i].newline => i # Len(files[f])
          BY <3>1, <4>1 DEF Paired
        <5> QED
          BY <4>1, <5>1 DEF Paired
    <3>2. CASE f = path /\ i \in 1 .. n
      <4>1. files'[f][i] = files[f][i] /\ i \in DOMAIN files[f] /\ f \in DOMAIN files
        BY <2>3, <2>4, <3>2
      <4>2. i # 1 => i - 1 \in 1 .. n /\ files'[f][i - 1] = files[f][i - 1]
        BY <2>3, <3>2
      <4>3. i # Len(files'[f])
        BY <2>3, <3>2
      <4>4. ~files'[f][i].newline => files'[f][i + 1].newline
        <5>1. CASE i = n
          <6>0. i = Len(files[f])
            BY <2>2, <3>2, <5>1
          <6>1. ~files[f][i].newline => unfinished
            BY <4>1, <6>0 DEF Paired
          <6>2. ~files[f][i].newline => piece.newline
            BY <1>3, <2>1, <6>1 DEF BeginLine
          <6> QED
            BY <2>3, <3>2, <4>1, <5>1, <6>2
        <5>2. CASE i # n
          <6>1. i + 1 \in 1 .. n /\ files'[f][i + 1] = files[f][i + 1]
            BY <2>3, <3>2, <5>2
          <6> QED
            BY <2>2, <3>2, <4>1, <5>2, <6>1 DEF Paired
        <5> QED
          BY <5>1, <5>2
      <4> QED
        BY <4>1, <4>2, <4>3, <4>4 DEF Paired
    <3>3. CASE f = path /\ i = n + 1
      <4>1. files'[f][i] = piece /\ i = Len(files'[f])
        BY <2>3, <3>3
      <4>2. CASE BeginLine
        <5>1. ~piece.newline /\ unfinished'
          BY <2>1, <4>2 DEF BeginLine, EndLine
        <5> QED
          BY <3>3, <4>1, <5>1
      <4>3. CASE EndLine
        <5>1. piece = [line |-> line, newline |-> TRUE] /\ unfinished
          BY <2>1, <4>3 DEF BeginLine, EndLine
        <5>2. n = 0 => line \in excused
          <6>1. n = 0 => files[path] = <<>>
            <7> SUFFICES ASSUME n = 0 PROVE files[path] = <<>>
              OBVIOUS
            <7>1. Len(files[path]) = 0
              BY <2>2
            <7> QED
              BY <2>5, <7>1
          <6> QED
            BY <5>1, <6>1 DEF LogEnd
        <5>3. n # 0 => files'[path][n] = [line |-> line, newline |-> FALSE]
          <6>1. n # 0 => files[path] # <<>> /\ n \in 1 .. n /\ Last(files[path]) = files[path][n]
            BY <2>2, <2>5 DEF Last
          <6> QED
            BY <2>3, <5>1, <6>1 DEF LogEnd
        <5> QED
          BY <3>3, <4>1, <5>1, <5>2, <5>3
      <4> QED
        BY <1>3, <4>2, <4>3
    <3> QED
      BY <2>5, <3>1, <3>2, <3>3
  <2> QED
    BY <2>4, <2>6 DEF Paired
<1>4. CASE Rename
  BY <1>4 DEF Rename, Paired
<1>5. CASE Truncate
  <2>1. \A f \in DOMAIN files' : \A i \in DOMAIN files'[f] :
           f \in DOMAIN files /\ i \in DOMAIN files[f] /\ files'[f] = files[f]
    BY <1>1, <1>5 DEF Truncate
  <2> QED
    BY <1>0, <1>5, <2>1 DEF Truncate, Paired
<1>6. CASE UNCHANGED <<files, path, unfinished>>
  BY <1>0, <1>6 DEF Paired
<1>7. TailStep \/ Restart \/ UNCHANGED vars => UNCHANGED <<files, path, unfinished>>
  BY DEF TailStep, OpenFails, Open, ReadLine, ReadNothing, Yield, Yielded,
         Check, Close, Size, Restart, vars, world
<1> QED
  BY <1>2, <1>3, <1>4, <1>5, <1>6, <1>7 DEF Next

\* What one turn of complete_lines finds: the text of a line that is not all there, or the rest of a line.
Fragment(s) ==
    /\ ~s[pos + 1].newline /\ Len(s) = pos + 1
    /\ partial' = <<s[pos + 1]>>
    /\ pos' = pos + 1 /\ lines' = lines /\ pc' = AtEnd

WholeLine(s, l) ==
    /\ lines' = Append(lines, l) /\ partial' = <<>> /\ pc' = pc
    /\ pos' \in {pos + 1, pos + 2} /\ pos' \in 1 .. Len(s)
    /\ pos' = pos + 2 => ~s[pos + 1].newline
    /\ s[pos'].newline /\ Key(l) = s[pos'].line
    /\ Parses(l) \/ (Len(l) = 1 /\ l[1].line \in excused)

\* Of a file in which a text is followed by its newline, readline returns a text, a newline or both.
LEMMA ChunkShape ==
    ASSUME NEW s \in Seq(Piece), NEW c \in Seq(Piece), NEW n \in Nat, NEW p \in Nat, NEW k \in Nat,
           n = Len(s), k = Len(c), p < n, 1 <= k, k <= n - p,
           \A i \in 1 .. k : c[i] = s[p + i],
           \A i \in 1 .. k - 1 : ~s[p + i].newline,
           ~s[p + k].newline => p + k = n,
           \A i \in 1 .. n : ~s[i].newline /\ i # n => s[i + 1].newline
    PROVE  /\ p + 1 \in 1 .. n /\ s[p + 1] \in Piece
           /\ \/ c = <<s[p + 1]>> /\ ~s[p + 1].newline /\ n = p + 1
              \/ c = <<s[p + 1]>> /\ s[p + 1].newline
              \/ /\ c = <<s[p + 1], s[p + 2]>> /\ ~s[p + 1].newline /\ s[p + 2].newline
                 /\ p + 2 \in 1 .. n
<1>1. p + 1 \in 1 .. n /\ 1 \in 1 .. k
  OBVIOUS
<1>2. s[p + 1] \in Piece /\ c[1] = s[p + 1] /\ DOMAIN c = 1 .. k
  BY <1>1
<1>3. CASE k = 1
  <2>1. c = <<c[1]>>
    BY <1>3, OneLong
  <2> QED
    BY <1>1, <1>2, <1>3, <2>1
<1>4. CASE k # 1
  <2>1. 1 \in 1 .. k - 1 /\ 2 \in 1 .. k /\ p + 2 \in 1 .. n /\ p + 1 # n /\ (p + 1) + 1 = p + 2
    BY <1>4, SMTT(30)
  <2>2. ~s[p + 1].newline /\ c[2] = s[p + 2]
    BY <2>1
  <2>3. s[p + 2].newline
    BY <1>1, <2>1, <2>2
  <2>4. k = 2
    <3> SUFFICES ASSUME k # 2 PROVE FALSE
      OBVIOUS
    <3>1. 2 \in 1 .. k - 1
      BY <1>4
    <3> QED
      BY <2>3, <3>1
  <2>5. c = <<c[1], c[2]>>
    BY <2>4, TwoLong
  <2> QED
    BY <1>1, <1>2, <2>1, <2>2, <2>3, <2>5
<1> QED
  BY <1>3, <1>4

\* What the fragment in hand and the chunk make.
LEMMA LineParses ==
    ASSUME NEW s \in Seq(Piece), NEW n \in Nat, NEW p \in Nat, NEW q \in Seq(Piece), NEW X,
           n = Len(s), p + 1 \in 1 .. n,
           s[p + 1].newline /\ p + 1 = 1 => s[p + 1].line \in X,
           s[p + 1].newline /\ p # 0 => s[p] = [line |-> s[p + 1].line, newline |-> FALSE],
           IF p = 0 \/ s[p].newline THEN q = <<>>
           ELSE q = <<s[p]>> \/ (q = <<>> /\ s[p].line \in X),
           s[p + 1].newline
    PROVE  /\ q \o <<s[p + 1]>> \in Seq(Piece)
           /\ Key(q \o <<s[p + 1]>>) = s[p + 1].line
           /\ \/ Parses(q \o <<s[p + 1]>>)
              \/ Len(q \o <<s[p + 1]>>) = 1 /\ (q \o <<s[p + 1]>>)[1].line \in X
<1>1. PICK x \in Piece : x = s[p + 1]
  OBVIOUS
<1>2. p # 0 => s[p].line = x.line /\ ~s[p].newline
  BY <1>1
<1>3. CASE q = <<>>
  <2>1. q \o <<x>> = <<x>>
    BY <1>3
  <2>2. Len(<<x>>) = 1 /\ <<x>>[1] = x /\ <<x>> \in Seq(Piece)
    OBVIOUS
  <2>3. Key(<<x>>) = x.line
    BY <2>2 DEF Key, Last
  <2>4. x.line \in X
    BY <1>1, <1>2, <1>3
  <2> QED
    BY <1>1, <2>1, <2>2, <2>3, <2>4
<1>4. CASE q # <<>>
  <2>1. p # 0 /\ q = <<s[p]>>
    BY <1>4
  <2>2. PICK y \in Piece : y = s[p]
    BY <2>1
  <2>3. q \o <<x>> = <<y, x>>
    BY <2>1, <2>2, JoinedPair
  <2>4. Len(<<y, x>>) = 2 /\ <<y, x>>[1] = y /\ <<y, x>>[2] = x /\ <<y, x>> \in Seq(Piece)
    OBVIOUS
  <2>5. Key(<<y, x>>) = x.line /\ Parses(<<y, x>>)
    BY <1>2, <2>1, <2>2, <2>4 DEF Key, Last, Parses
  <2> QED
    BY <1>1, <2>3, <2>4, <2>5
<1> QED
  BY <1>3, <1>4

LEMMA LineShape ==
    ASSUME TypeInv, Paired, Aligned, ReadLine
    PROVE  \E s \in Seq(Piece) :
              /\ handle # None /\ s = files[handle] /\ pos < Len(s) /\ ~Shrunk
              /\ Fragment(s) \/ \E l \in Seq(Piece) : WholeLine(s, l)
<1>0. TypeOK
  BY DEF TypeInv
<1>1. PICK s \in Seq(Piece) : s = files[handle]
  BY <1>0, FilesTyped, TailerTyped DEF ReadLine
<1>2. PICK p \in Nat : p = pos
  BY <1>0, CountersTyped
<1>3. PICK q \in Seq(Piece) : q = partial
  BY <1>0, TailerTyped
<1>4. PICK n \in Nat : n = Len(s)
  OBVIOUS
<1>5. handle # None /\ handle \in DOMAIN files
  BY <1>0, FilesTyped, TailerTyped DEF ReadLine
<1>6. p < n
  BY <1>1, <1>2, <1>4, ChunkIs DEF ReadLine
<1>7. PICK c \in Seq(Piece) : c = Chunk
  BY <1>1, <1>2, ChunkIs
<1>8. PICK k \in Nat : k = Len(c)
  OBVIOUS
<1>9. /\ 1 <= k /\ k <= n - p
      /\ \A i \in 1 .. k : c[i] = s[p + i]
      /\ \A i \in 1 .. k - 1 : ~s[p + i].newline
      /\ ~s[p + k].newline => p + k = n
  <2>1. /\ k \in 1 .. n - p
        /\ \A i \in 1 .. k : c[i] = s[p + i]
        /\ \A i \in 1 .. k - 1 : ~s[p + i].newline
        /\ ~s[p + k].newline => p + k = n
    BY <1>1, <1>2, <1>4, <1>6, <1>7, <1>8, ChunkIs
  <2> QED
    BY <2>1
<1>10. \A i \in 1 .. n :
        /\ s[i].newline /\ i = 1 => s[i].line \in excused
        /\ s[i].newline /\ i # 1 => s[i - 1] = [line |-> s[i].line, newline |-> FALSE]
        /\ ~s[i].newline /\ i # n => s[i + 1].newline
  <2>1. DOMAIN files[handle] = 1 .. n
    BY <1>1, <1>4
  <2> QED
    BY <1>1, <1>4, <1>5, <2>1 DEF Paired
<1>11. ~Shrunk
  BY <1>1, <1>2, <1>4, <1>6 DEF Shrunk
<1>12. IF p = 0 \/ s[p].newline THEN q = <<>>
       ELSE q = <<s[p]>> \/ (q = <<>> /\ s[p].line \in excused)
  BY <1>1, <1>2, <1>3, <1>5, <1>11 DEF Aligned
<1>13. /\ p + 1 \in 1 .. n /\ s[p + 1] \in Piece
       /\ \/ c = <<s[p + 1]>> /\ ~s[p + 1].newline /\ n = p + 1
          \/ c = <<s[p + 1]>> /\ s[p + 1].newline
          \/ /\ c = <<s[p + 1], s[p + 2]>> /\ ~s[p + 1].newline /\ s[p + 2].newline
             /\ p + 2 \in 1 .. n
  <2>1. \A i \in 1 .. n : ~s[i].newline /\ i # n => s[i + 1].newline
    BY <1>10
  <2>2. /\ n = Len(s) /\ k = Len(c) /\ p < n /\ 1 <= k /\ k <= n - p
        /\ \A i \in 1 .. k : c[i] = s[p + i]
        /\ \A i \in 1 .. k - 1 : ~s[p + i].newline
        /\ ~s[p + k].newline => p + k = n
    BY <1>4, <1>6, <1>8, <1>9
  <2> QED
    BY ONLY <2>1, <2>2, ChunkShape, s \in Seq(Piece), c \in Seq(Piece), n \in Nat, p \in Nat, k \in Nat, SMTT(30)
<1>14. ~s[p + 1].newline => q = <<>>
  <2> SUFFICES ASSUME ~s[p + 1].newline, p # 0, ~s[p].newline PROVE FALSE
    BY <1>12
  <2>1. p \in 1 .. n /\ p # n
    BY <1>13
  <2> QED
    BY <1>10, <2>1
<1>15. /\ pos' = p + Len(c)
       /\ IF Last(c).newline
          THEN lines' = Append(lines, q \o c) /\ partial' = <<>> /\ pc' = pc
          ELSE partial' = q \o c /\ pc' = AtEnd /\ lines' = lines
  BY <1>2, <1>3, <1>7 DEF ReadLine
<1>16. PICK x \in Piece : x = s[p + 1]
  BY <1>13
<1>17. CASE c = <<x>> /\ ~x.newline /\ n = p + 1
  <2>1. q \o c = c
    BY <1>14, <1>16, <1>17, ConcatEmptySeq
  <2>0. Len(<<x>>) = 1 /\ <<x>>[1] = x
    OBVIOUS
  <2>4. Last(c) = x /\ Len(c) = 1
    BY <1>17, <2>0 DEF Last
  <2>2. partial' = <<x>> /\ pc' = AtEnd /\ lines' = lines /\ pos' = p + 1
    BY <1>15, <1>17, <2>1, <2>4
  <2>3. Fragment(s)
    BY <1>2, <1>4, <1>16, <1>17, <2>2 DEF Fragment
  <2> QED
    BY <1>1, <1>2, <1>4, <1>5, <1>6, <1>11, <2>3
<1>18. CASE c = <<x>> /\ x.newline
  <2>1. Last(c) = x /\ Len(c) = 1
    BY <1>18 DEF Last
  <2>2. lines' = Append(lines, q \o <<x>>) /\ partial' = <<>> /\ pc' = pc /\ pos' = p + 1
    BY <1>15, <1>18, <2>1
  <2>3. /\ q \o <<x>> \in Seq(Piece) /\ Key(q \o <<x>>) = x.line
        /\ \/ Parses(q \o <<x>>)
           \/ Len(q \o <<x>>) = 1 /\ (q \o <<x>>)[1].line \in excused
    <3>1. s[p + 1].newline /\ p + 1 = 1 => s[p + 1].line \in excused
      BY <1>10, <1>13
    <3>2. s[p + 1].newline /\ p # 0 => s[p] = [line |-> s[p + 1].line, newline |-> FALSE]
      <4>1. (p + 1) - 1 = p /\ (p # 0 => p + 1 # 1)
        OBVIOUS
      <4> QED
        BY <1>10, <1>13, <4>1
    <3>3. p + 1 \in 1 .. n /\ n = Len(s) /\ s[p + 1].newline
      BY <1>4, <1>13, <1>16, <1>18
    <3>4. /\ q \o <<s[p + 1]>> \in Seq(Piece)
          /\ Key(q \o <<s[p + 1]>>) = s[p + 1].line
          /\ \/ Parses(q \o <<s[p + 1]>>)
             \/ Len(q \o <<s[p + 1]>>) = 1 /\ (q \o <<s[p + 1]>>)[1].line \in excused
      BY <1>12, <3>1, <3>2, <3>3, LineParses
    <3> QED
      BY <1>16, <3>4, Zenon
  <2>4. PICK l \in Seq(Piece) : l = q \o <<x>>
    BY <2>3
  <2>5. p + 1 # p + 2
    OBVIOUS
  <2>6. WholeLine(s, l)
    BY <1>2, <1>4, <1>13, <1>16, <1>18, <2>2, <2>3, <2>4, <2>5 DEF WholeLine
  <2> QED
    BY <1>1, <1>2, <1>4, <1>5, <1>6, <1>11, <2>6
<1>19. ASSUME c = <<x, s[p + 2]>>, ~x.newline, s[p + 2].newline, p + 2 \in 1 .. n
       PROVE  \E l \in Seq(Piece) : WholeLine(s, l)
  <2>1. PICK y \in Piece : y = s[p + 2]
    BY <1>4, <1>19
  <2>0. Len(<<x, y>>) = 2 /\ <<x, y>>[1] = x /\ <<x, y>>[2] = y
    OBVIOUS
  <2>8. q \o c = c
    BY <1>14, <1>16, <1>19, ConcatEmptySeq
  <2>2. q \o c = c /\ Last(c) = y /\ Len(c) = 2 /\ c[1] = x /\ c[2] = y
    BY <1>19, <2>0, <2>1, <2>8 DEF Last
  <2>3. lines' = Append(lines, c) /\ partial' = <<>> /\ pc' = pc /\ pos' = p + 2
    BY <1>15, <1>19, <2>1, <2>2
  <2>4. x.line = y.line
    <3>1. (p + 2) - 1 = p + 1 /\ p + 2 # 1
      OBVIOUS
    <3>2. x = [line |-> y.line, newline |-> FALSE]
      BY <1>10, <1>16, <1>19, <2>1, <3>1
    <3> QED
      BY <3>2
  <2>5. Key(c) = y.line
    BY <2>2 DEF Key
  <2>6. Parses(c)
    BY <2>2, <2>4 DEF Parses
  <2>7. WholeLine(s, c)
    BY <1>2, <1>4, <1>13, <1>16, <1>19, <2>1, <2>3, <2>5, <2>6 DEF WholeLine
  <2> QED
    BY <2>7
<1> QED
  BY <1>1, <1>2, <1>4, <1>5, <1>6, <1>11, <1>13, <1>16, <1>17, <1>18, <1>19

LEMMA WholeKept ==
    TypeInv /\ Paired /\ Aligned /\ Whole /\ [Next]_vars => Whole'
<1> SUFFICES ASSUME TypeInv, Paired, Aligned, Whole, [Next]_vars PROVE Whole'
  OBVIOUS
<1>1. excused \subseteq excused' /\ lines \in Seq(Seq(Piece))
  BY ExcusedGrows, TailerTyped DEF TypeInv
<1>2. \A l \in ToSet(lines) : Parses(l) \/ (Len(l) = 1 /\ l[1].line \in excused')
  BY <1>1 DEF Whole
<1>3. CASE lines' = lines
  BY <1>2, <1>3 DEF Whole
<1>4. CASE ReadLine
  <2>1. PICK s \in Seq(Piece) : Fragment(s) \/ \E l \in Seq(Piece) : WholeLine(s, l)
    BY <1>4, LineShape
  <2>2. CASE \E l \in Seq(Piece) : WholeLine(s, l)
    <3>1. PICK l \in Seq(Piece) : WholeLine(s, l)
      BY <2>2
    <3>2. ToSet(lines') = ToSet(lines) \cup {l}
      BY <1>1, <3>1, AppendElements DEF WholeLine
    <3>3. Parses(l) \/ (Len(l) = 1 /\ l[1].line \in excused')
      BY <1>1, <3>1 DEF WholeLine
    <3> QED
      BY <1>2, <3>2, <3>3 DEF Whole
  <2> QED
    BY <1>3, <2>1, <2>2 DEF Fragment
<1>5. CASE Yield
  <2>1. ToSet(lines') \subseteq ToSet(lines)
    BY <1>1, <1>5, HeadTailElements DEF Yield
  <2> QED
    BY <1>2, <2>1 DEF Whole
<1>6. CASE Restart
  BY <1>6, EmptyElements DEF Restart, Whole
<1>7. lines' = lines \/ ReadLine \/ Yield \/ Restart
  BY DEF Next, TailStep, Create, BeginLine, EndLine, Rename, Truncate, OpenFails, Open,
         ReadNothing, Yielded, Check, Close, Size, vars, tailer
<1> QED
  BY <1>3, <1>4, <1>5, <1>6, <1>7

\* Only an emptied log changes under the tailer, by what is added to it.
LEMMA AlignedKept ==
    ~Outgrows /\ TypeInv /\ InPlace /\ Paired /\ Aligned /\ [Next]_vars => Aligned'
<1> SUFFICES ASSUME ~Outgrows, TypeInv, InPlace, Paired, Aligned, [Next]_vars PROVE Aligned'
  OBVIOUS
<1>0. TypeOK /\ excused \subseteq excused'
  BY ExcusedGrows DEF TypeInv
<1>1. /\ handle # None => handle \in 1 .. Len(files) /\ files[handle] \in Seq(Piece)
      /\ path # None => path \in 1 .. Len(files) /\ files[path] \in Seq(Piece)
      /\ DOMAIN files = 1 .. Len(files) /\ Len(files) \in Nat /\ pos \in Nat
  BY <1>0, FilesTyped, CountersTyped
<1>2. CASE handle' = None
  BY <1>2 DEF Aligned
\* The log of the tailer and all it knows of it stay as they are.
<1>3. ASSUME UNCHANGED <<handle, pos, partial>>, handle # None => files'[handle] = files[handle],
             handle # None /\ Shrunk => path' = handle,
             pc' \in {"last yield", "close"} => pc \in {"last yield", "close"}
      PROVE  Aligned'
  <2> SUFFICES ASSUME handle # None PROVE Aligned'
    BY <1>2, <1>3
  <2>1. Shrunk' = Shrunk
    BY <1>3 DEF Shrunk
  <2> QED
    BY <1>0, <1>3, <2>1 DEF Aligned
<1>4. CASE Create
  <2>1. handle # None => files'[handle] = files[handle]
    BY <1>1, <1>4 DEF Create
  <2>2. handle # None => ~Shrunk
    BY <1>4 DEF Create, Aligned
  <2> QED
    BY <1>3, <1>4, <2>1, <2>2 DEF Create, tailer
<1>5. CASE BeginLine \/ EndLine
  <2>1. PICK piece \in Piece : Grow(piece)
    BY <1>0, <1>5, Written
  <2>2. UNCHANGED <<handle, pos, partial, path, pc>>
    BY <1>5 DEF BeginLine, EndLine, tailer
  <2>3. CASE handle # path
    <3>1. handle # None => files'[handle] = files[handle]
      BY <1>0, <1>1, <2>1, <2>3, GrownFile
    <3>2. handle # None => ~Shrunk
      BY <2>3 DEF Aligned
    <3> QED
      BY <1>3, <2>2, <3>1, <3>2
  <2>4. CASE handle = path
    <3>1. PICK n \in Nat : n = Len(files[handle])
      BY <1>0, <2>1, <2>4, GrownFile
    <3>2. handle # None /\ Len(files'[handle]) = n + 1
          /\ \A i \in 1 .. n : files'[handle][i] = files[handle][i]
      BY <1>0, <2>1, <2>4, <3>1, GrownFile DEF Grow
    <3>3. Shrunk <=> n < pos
      BY <3>1, <3>2 DEF Shrunk
    <3>4. Shrunk' <=> n + 1 < pos
      BY <2>2, <3>2 DEF Shrunk
    <3>5. Shrunk => Shrunk'
      BY <2>1, <2>4, <3>1, <3>4 DEF Grow
    <3>6. pc \notin {"last yield", "close"}
      BY <2>4 DEF InPlace
    <3>7. CASE Shrunk'
      BY <2>2, <2>4, <3>6, <3>7 DEF Aligned
    <3>8. CASE ~Shrunk'
      <4>1. ~Shrunk /\ ~(n < pos)
        BY <3>3, <3>5, <3>8
      <4>2. pos = 0 \/ pos \in 1 .. n
        BY <1>1, <4>1
      <4>3. pos = 0 \/ files'[handle][pos] = files[handle][pos]
        BY <3>2, <4>2
      <4> QED
        BY <1>0, <2>2, <3>2, <3>6, <3>8, <4>1, <4>3 DEF Aligned
    <3> QED
      BY <3>7, <3>8
  <2> QED
    BY <2>3, <2>4
<1>6. CASE Rename
  BY <1>3, <1>6 DEF Rename, tailer
<1>7. CASE Truncate
  <2>1. UNCHANGED <<handle, pos, partial, path, pc>> /\ path # None
    BY <1>7 DEF Truncate, tailer
  <2>2. CASE handle # path
    <3>1. handle # None => files'[handle] = files[handle] /\ ~Shrunk
      BY <1>1, <1>7, <2>2 DEF Truncate, Aligned
    <3> QED
      BY <1>3, <2>1, <3>1
  <2>3. CASE handle = path
    <3>1. files'[handle] = <<>> /\ handle # None
      BY <1>1, <1>7, <2>1, <2>3 DEF Truncate
    <3>2. Shrunk' <=> 0 < pos
      BY <2>1, <3>1 DEF Shrunk
    <3>3. pos = 0 => partial = <<>>
      <4> SUFFICES ASSUME pos = 0 PROVE partial = <<>>
        OBVIOUS
      <4>1. ~Shrunk
        BY <1>1, <3>1 DEF Shrunk
      <4> QED
        BY <3>1, <4>1 DEF Aligned
    <3>4. pc \notin {"last yield", "close"}
      BY <2>3 DEF InPlace
    <3>5. ~Shrunk' => pos = 0
      BY <1>1, <3>2
    <3> QED
      BY <2>1, <2>3, <3>3, <3>4, <3>5 DEF Aligned
  <2> QED
    BY <2>2, <2>3
<1>8. CASE Open
  <2>1. /\ handle' = path /\ path' = path /\ path # None /\ files' = files
        /\ partial' = <<>> /\ pc' = "read"
    BY <1>0, <1>8, TailerTyped DEF Open, InPlace, world
  <2>2. PICK s \in Seq(Piece) : s = files[path]
    BY <1>1, <2>1
  <2>3. pos' = 0 \/ (pos' = Len(s) /\ {p.line : p \in ToSet(s)} \subseteq excused')
    BY <1>8, <2>2 DEF Open
  <2>4. pos' = 0 \/ (pos' \in 1 .. Len(s) /\ s[pos'].line \in excused')
    <3> SUFFICES ASSUME pos' # 0, pos' = Len(s), {p.line : p \in ToSet(s)} \subseteq excused'
                 PROVE  pos' \in 1 .. Len(s) /\ s[pos'].line \in excused'
      BY <2>3
    <3>1. pos' \in 1 .. Len(s)
      OBVIOUS
    <3>2. s[pos'] \in ToSet(s)
      BY <3>1 DEF ToSet
    <3> QED
      BY <3>1, <3>2
  <2>5. ~Shrunk'
    BY <2>1, <2>2, <2>4 DEF Shrunk
  <2> QED
    BY <2>1, <2>2, <2>4, <2>5 DEF Aligned
<1>9. CASE ReadLine
  <2>1. PICK s \in Seq(Piece) :
              /\ handle # None /\ s = files[handle] /\ pos < Len(s) /\ ~Shrunk
              /\ Fragment(s) \/ \E l \in Seq(Piece) : WholeLine(s, l)
    BY <1>0, <1>9, LineShape DEF TypeInv
  <2>2. handle' = handle /\ files' = files /\ path' = path /\ pc \in {"read", "drain"}
    BY <1>9 DEF ReadLine, world
  <2>3. CASE Fragment(s)
    <3>1. pos' = Len(s) /\ pos' # 0 /\ partial' = <<s[pos']>> /\ ~s[pos'].newline
      BY <1>1, <2>3 DEF Fragment
    <3>2. ~Shrunk'
      BY <1>1, <2>1, <2>2, <3>1 DEF Shrunk
    <3> QED
      BY <2>1, <2>2, <3>1, <3>2 DEF Aligned
  <2>4. CASE \E l \in Seq(Piece) : WholeLine(s, l)
    <3>1. pos' \in 1 .. Len(s) /\ s[pos'].newline /\ partial' = <<>> /\ pc' = pc
      BY <2>4 DEF WholeLine
    <3>2. ~Shrunk'
      BY <2>1, <2>2, <3>1 DEF Shrunk
    <3>3. pc' \notin {"last yield", "close"}
      BY <2>2, <3>1
    <3> QED
      BY <2>1, <2>2, <3>1, <3>2, <3>3 DEF Aligned
  <2> QED
    BY <2>1, <2>3, <2>4
<1>10. CASE ReadNothing
  <2>1. /\ UNCHANGED <<handle, pos, partial, path, files>> /\ handle # None
        /\ pc \in {"read", "drain"} /\ pc' = AtEnd
    BY <1>0, <1>10, TailerTyped DEF ReadNothing, world
  <2>2. PICK s \in Seq(Piece) : s = files[handle]
    BY <1>1, <2>1
  <2>3. ~(pos < Len(s))
    BY <1>1, <1>10, <2>2, ChunkIs DEF ReadNothing
  <2>4. Shrunk' = Shrunk
    BY <2>1 DEF Shrunk
  <2>5. pc' \in {"last yield", "close"} => pos = Len(s)
    <3> SUFFICES ASSUME pc = "drain" PROVE pos = Len(s)
      BY <2>1 DEF AtEnd
    <3>1. ~Shrunk
      BY <2>1 DEF InPlace, Aligned
    <3> QED
      BY <1>1, <2>1, <2>2, <2>3, <3>1 DEF Shrunk
  <2> QED
    BY <1>0, <2>1, <2>2, <2>4, <2>5 DEF Aligned
<1>11. CASE OpenFails \/ Yield \/ Yielded \/ Check
  <2>1. UNCHANGED <<handle, pos, partial, path, files>>
    BY <1>11 DEF OpenFails, Yield, Yielded, Check, world
  <2>2. pc' \in {"last yield", "close"} => pc \in {"last yield", "close"}
    BY <1>11 DEF OpenFails, Yield, Yielded, Check
  <2>3. handle # None /\ Shrunk => path' = handle
    BY <2>1 DEF Aligned
  <2> QED
    BY <1>3, <2>1, <2>2, <2>3
<1>12. CASE Close \/ Restart
  BY <1>2, <1>12 DEF Close, Restart
<1>13. CASE Size
  <2>1. UNCHANGED <<handle, path, files>> /\ pc' = "read" /\ handle # None
    BY <1>0, <1>13, TailerTyped DEF Size, world
  <2>2. CASE Shrunk
    <3>1. pos' = 0 /\ partial' = <<>>
      BY <1>13, <2>2 DEF Size, Shrunk
    <3>2. ~Shrunk'
      BY <1>1, <2>1, <3>1 DEF Shrunk
    <3> QED
      BY <2>1, <3>1, <3>2 DEF Aligned
  <2>3. CASE ~Shrunk
    <3>1. pos' = pos /\ partial' = partial
      BY <1>13, <2>1, <2>3 DEF Size, Shrunk
    <3> QED
      BY <1>3, <2>1, <2>3, <3>1
  <2> QED
    BY <2>2, <2>3
<1>14. CASE UNCHANGED vars
  <2>1. UNCHANGED <<handle, pos, partial, path, files, pc>>
    BY <1>14 DEF vars, world, tailer
  <2> QED
    BY <1>3, <2>1 DEF Aligned
<1> QED
  BY <1>4, <1>5, <1>6, <1>7, <1>8, <1>9, <1>10, <1>11, <1>12, <1>13, <1>14 DEF Next, TailStep

-----------------------------------------------------------------------------
(* No line is passed over *)

\* What waits, by its places.
LEMMA Waits ==
    \A c : c \in Waiting <=>
        \/ /\ handle # None
           /\ \E i \in Cursor + 1 .. Len(files[handle]) :
                 files[handle][i].newline /\ c = files[handle][i].line
        \/ /\ path # None /\ path # handle
           /\ \E i \in 1 .. Len(files[path]) :
                 files[path][i].newline /\ c = files[path][i].line
  BY DEF Waiting, EndsIn

\* A step keeps the lines covered that forgets nothing but what is excused.
LEMMA NothingForgotten ==
    ASSUME Covered, [Next]_vars, Done' = Done, Done \in Nat,
           \A l \in Seen \cup Waiting : l \in Seen' \cup Waiting' \cup excused'
    PROVE  Covered'
<1>1. \A l \in 1 .. Done : l \in Seen \cup Waiting \/ l \in excused
  BY DEF Covered
<1>2. \A l \in 1 .. Done : l \in Seen' \cup Waiting' \cup excused'
  BY <1>1, ExcusedGrows
<1> QED
  BY <1>2 DEF Covered

\* The honeypot and logrotate take nothing away that was not read, but for what is truncated.
LEMMA WorldWaits ==
    ASSUME ~Outgrows, TypeInv, Aligned, Whole,
           Create \/ BeginLine \/ EndLine \/ Rename \/ Truncate,
           NEW l \in Waiting
    PROVE  l \in Seen \cup Waiting' \cup excused'
<1>0. TypeOK
  BY DEF TypeInv
<1>1. /\ handle # None => handle \in 1 .. Len(files) /\ files[handle] \in Seq(Piece)
      /\ path # None => path \in 1 .. Len(files) /\ files[path] \in Seq(Piece)
      /\ DOMAIN files = 1 .. Len(files) /\ Len(files) \in Nat /\ pos \in Nat
  BY <1>0, FilesTyped, CountersTyped
<1>2. handle' = handle /\ pos' = pos
  BY DEF Create, BeginLine, EndLine, Rename, Truncate, tailer
<1>3. CASE Create
  <2>1. handle # None => files'[handle] = files[handle]
    BY <1>1, <1>3 DEF Create
  <2>2. Cursor' = Cursor
    BY <1>2, <2>1 DEF Cursor, Shrunk
  <2>3. path = None
    BY <1>3 DEF Create
  <2> QED
    BY <1>2, <2>1, <2>2, <2>3, Waits DEF Waiting, EndsIn
<1>4. CASE BeginLine \/ EndLine
  <2>1. PICK piece \in Piece : Grow(piece)
    BY <1>0, <1>4, Written
  <2>2. path' = path
    BY <1>4 DEF BeginLine, EndLine
  <2>3. ASSUME NEW f \in 1 .. Len(files), NEW i \in 1 .. Len(files[f])
        PROVE  i \in 1 .. Len(files'[f]) /\ files'[f][i] = files[f][i]
    <3>1. CASE f # path
      BY <1>0, <2>1, <3>1, GrownFile
    <3>2. CASE f = path
      BY <1>0, <2>1, <3>2, GrownFile
    <3> QED
      BY <3>1, <3>2
  <2>4. handle # None => Cursor' = Cursor
    <3> SUFFICES ASSUME handle # None PROVE Cursor' = Cursor
      OBVIOUS
    <3>1. CASE handle # path
      <4>1. files'[handle] = files[handle]
        BY <1>0, <1>1, <2>1, <3>1, GrownFile
      <4> QED
        BY <1>2, <4>1 DEF Cursor, Shrunk
    <3>2. CASE handle = path
      <4>1. PICK n \in Nat : n = Len(files[handle])
        BY <1>1
      <4>2. Len(files'[handle]) = n + 1
        BY <1>0, <2>1, <3>2, <4>1, GrownFile
      <4>3. (Shrunk <=> n < pos) /\ (Shrunk' <=> n + 1 < pos)
        BY <1>2, <4>1, <4>2 DEF Shrunk
      <4>4. Shrunk => n + 1 < pos
        BY <2>1, <3>2, <4>1 DEF Grow
      <4>5. CASE Shrunk
        <5>1. Shrunk'
          BY <4>3, <4>4, <4>5
        <5> QED
          BY <4>5, <5>1 DEF Cursor
      <4>6. CASE ~Shrunk
        <5>1. ~(n < pos)
          BY <4>3, <4>6
        <5>2. ~(n + 1 < pos)
          BY <1>1, <5>1
        <5>3. ~Shrunk'
          BY <4>3, <5>2
        <5> QED
          BY <1>2, <4>6, <5>3 DEF Cursor
      <4> QED
        BY <4>5, <4>6
    <3> QED
      BY <3>1, <3>2
  <2>5. ASSUME handle # None, NEW i \in Cursor + 1 .. Len(files[handle]),
               files[handle][i].newline, l = files[handle][i].line
        PROVE  l \in Waiting'
    <3>1. i \in 1 .. Len(files[handle])
      BY <1>1, <2>5 DEF Cursor
    <3>2. i \in 1 .. Len(files'[handle]) /\ files'[handle][i] = files[handle][i]
      BY <1>1, <2>3, <2>5, <3>1
    <3>3. i \in Cursor + 1 .. Len(files'[handle])
      BY <1>1, <2>5, <3>2 DEF Cursor
    <3>4. /\ handle' # None /\ i \in Cursor' + 1 .. Len(files'[handle'])
          /\ files'[handle'][i].newline /\ l = files'[handle'][i].line
      BY <1>2, <2>4, <2>5, <3>2, <3>3
    <3> QED
      BY <3>4 DEF Waiting, EndsIn
  <2>6. ASSUME path # None, path # handle, NEW i \in 1 .. Len(files[path]),
               files[path][i].newline, l = files[path][i].line
        PROVE  l \in Waiting'
    <3>1. i \in 1 .. Len(files'[path]) /\ files'[path][i] = files[path][i]
      BY <1>1, <2>3, <2>6
    <3> QED
      BY <1>2, <2>2, <2>6, <3>1 DEF Waiting, EndsIn
  <2> QED
    BY <2>5, <2>6, Waits
<1>5. CASE Rename
  <2>1. files' = files /\ path = handle
    BY <1>5 DEF Rename
  <2>2. Cursor' = Cursor
    BY <1>2, <2>1 DEF Cursor, Shrunk
  <2> QED
    BY <1>2, <2>1, <2>2 DEF Waiting, EndsIn
<1>6. CASE Truncate
  <2>1. path' = path /\ path # None
    BY <1>6 DEF Truncate
  <2>2. ASSUME NEW i \in 1 .. Len(files[path]), l = files[path][i].line
        PROVE  l \in Seen \cup excused'
    <3>1. files[path][i] \in ToSet(files[path])
      BY <1>1, <2>1 DEF ToSet
    <3>2. l \in {p.line : p \in ToSet(files[path])}
      BY <2>2, <3>1
    <3> QED
      BY <1>6, <3>2, CollectedSeen DEF Truncate
  <2>3. ASSUME handle # None, handle # path, NEW i \in Cursor + 1 .. Len(files[handle]),
               files[handle][i].newline, l = files[handle][i].line
        PROVE  l \in Waiting'
    <3>1. files'[handle] = files[handle]
      BY <1>1, <1>6, <2>1, <2>3 DEF Truncate
    <3>2. Cursor' = Cursor
      BY <1>2, <3>1 DEF Cursor, Shrunk
    <3> QED
      BY <1>2, <2>3, <3>1, <3>2 DEF Waiting, EndsIn
  <2>4. handle # None => \A i \in Cursor + 1 .. Len(files[handle]) : i \in 1 .. Len(files[handle])
    BY <1>1 DEF Cursor
  <2> QED
    BY <2>1, <2>2, <2>3, <2>4, Waits
<1> QED
  BY <1>3, <1>4, <1>5, <1>6

\* The line that is read is the first that waits; a step of the tailer passes over no other.
LEMMA ReadLineWaits ==
    ASSUME TypeInv, Paired, Aligned, ReadLine, NEW l \in Waiting
    PROVE  l \in Seen' \cup Waiting'
<1>1. PICK s \in Seq(Piece) :
          /\ handle # None /\ s = files[handle] /\ pos < Len(s) /\ ~Shrunk
          /\ Fragment(s) \/ \E k \in Seq(Piece) : WholeLine(s, k)
  BY LineShape
<1>2. pos \in Nat /\ lines \in Seq(Seq(Piece))
  BY CountersTyped, TailerTyped DEF TypeInv
<1>3. UNCHANGED <<handle, path, files>>
  BY DEF ReadLine, world
<1>4. PICK n \in Nat : n = Len(s)
  BY <1>1
<1>5. pos' \in 1 .. n /\ pos < pos' /\ \A i \in pos + 1 .. pos' - 1 : ~s[i].newline
  <2>1. CASE Fragment(s)
    BY <1>1, <1>2, <1>4, <2>1 DEF Fragment
  <2>2. CASE \E k \in Seq(Piece) : WholeLine(s, k)
    <3>1. /\ pos' \in {pos + 1, pos + 2} /\ pos' \in 1 .. n
          /\ pos' = pos + 2 => ~s[pos + 1].newline
      BY <1>4, <2>2 DEF WholeLine
    <3>2. PICK p \in Nat : p = pos
      BY <1>2
    <3>3. PICK q \in {p + 1, p + 2} : q = pos'
      BY <3>1, <3>2
    <3>4. q \in 1 .. n /\ p < q /\ (q = p + 2 => ~s[p + 1].newline)
      BY <3>1, <3>2, <3>3
    <3>5. \A i \in p + 1 .. q - 1 : q = p + 2 /\ i = p + 1
      <4>1. CASE q = p + 1
        BY <4>1
      <4>2. CASE q = p + 2
        BY <4>2
      <4> QED
        BY <3>3, <4>1, <4>2
    <3> QED
      BY <3>2, <3>3, <3>4, <3>5
  <2> QED
    BY <1>1, <2>1, <2>2
<1>6. s[pos'].newline => s[pos'].line \in Seen'
  <2> SUFFICES ASSUME s[pos'].newline PROVE s[pos'].line \in Seen'
    OBVIOUS
  <2>1. ~Fragment(s)
    BY DEF Fragment
  <2>2. PICK k \in Seq(Piece) : WholeLine(s, k)
    BY <1>1, <2>1
  <2>3. k \in ToSet(lines') /\ Key(k) = s[pos'].line
    BY <1>2, <2>2, AppendElements DEF WholeLine
  <2> QED
    BY <2>3 DEF Seen
<1>7. Cursor = pos /\ Cursor' = pos'
  <2>1. ~Shrunk'
    BY <1>1, <1>3, <1>4, <1>5 DEF Shrunk
  <2> QED
    BY <1>1, <2>1 DEF Cursor
<1>8. ASSUME NEW i \in pos + 1 .. n, s[i].newline, l = s[i].line
      PROVE  l \in Seen' \cup Waiting'
  <2>1. CASE i = pos'
    BY <1>6, <1>8, <2>1
  <2>2. CASE i # pos'
    <3>1. i \in pos' + 1 .. n
      <4>1. i \notin pos + 1 .. pos' - 1
        BY <1>5, <1>8
      <4>2. PICK p \in Nat : p = pos
        BY <1>2
      <4>3. PICK q \in 1 .. n : q = pos'
        BY <1>5
      <4>4. i \in p + 1 .. n /\ i \notin p + 1 .. q - 1 /\ i # q
        BY <1>8, <2>2, <4>1, <4>2, <4>3
      <4>5. i \in q + 1 .. n
        BY <4>4
      <4> QED
        BY <4>3, <4>5
    <3>2. /\ handle' # None /\ i \in Cursor' + 1 .. Len(files'[handle'])
          /\ files'[handle'][i].newline /\ l = files'[handle'][i].line
      BY <1>1, <1>3, <1>4, <1>7, <1>8, <3>1
    <3> QED
      BY <3>2 DEF Waiting, EndsIn
  <2> QED
    BY <2>1, <2>2
<1>9. ASSUME path # None, path # handle, NEW i \in 1 .. Len(files[path]),
             files[path][i].newline, l = files[path][i].line
      PROVE  l \in Waiting'
  BY <1>3, <1>9 DEF Waiting, EndsIn
<1>10. CASE \E i \in Cursor + 1 .. Len(files[handle]) :
               files[handle][i].newline /\ l = files[handle][i].line
  BY <1>1, <1>4, <1>7, <1>8, <1>10
<1> QED
  BY <1>9, <1>10, Waits

\* What is yielded became an event, or was excused.
LEMMA YieldSees ==
    ASSUME TypeInv, Whole, Yield, NEW l \in Seen
    PROVE  l \in Seen' \cup excused
<1>1. lines \in Seq(Seq(Piece)) /\ lines # <<>> /\ got \in Seq(Lines)
  BY TailerTyped DEF TypeInv, Yield
<1>2. PICK h \in Seq(Piece) : h = Head(lines)
  BY <1>1
<1>3. ToSet(lines) = {h} \cup ToSet(lines') /\ h \in ToSet(lines)
  BY <1>1, <1>2, HeadTailElements DEF Yield
<1>4. CASE Parses(h)
  <2>1. DOMAIN h = {1, 2} /\ Last(h) = h[2] /\ h[1].line = h[2].line /\ h[1] \in Piece
    BY <1>4 DEF Parses, Last
  <2>2. Key(h) = h[1].line /\ h[1].line \in Lines
    BY <2>1, PieceFields DEF Key
  <2>3. got' = Append(got, Key(h))
    BY <1>2, <1>4, <2>2 DEF Yield
  <2>4. ToSet(got') = ToSet(got) \cup {Key(h)}
    BY <1>1, <2>2, <2>3, AppendElements
  <2> QED
    BY <1>3, <2>4 DEF Seen
<1>5. CASE ~Parses(h)
  <2>1. Len(h) = 1 /\ h[1].line \in excused
    BY <1>3, <1>5 DEF Whole
  <2>2. Key(h) \in excused
    BY <2>1 DEF Key, Last
  <2>3. got' = got
    BY <1>2, <1>5 DEF Yield
  <2> QED
    BY <1>3, <2>2, <2>3 DEF Seen
<1> QED
  BY <1>4, <1>5

\* Nor is a line passed over when a file is opened, closed or begun again.
LEMMA LookingWaits ==
    ASSUME TypeInv, InPlace, Aligned,
           Open \/ Close \/ Size, NEW l \in Waiting
    PROVE  l \in Waiting' \cup excused'
<1>0. TypeOK
  BY DEF TypeInv
<1>1. /\ handle # None => handle \in 1 .. Len(files) /\ files[handle] \in Seq(Piece)
      /\ path # None => path \in 1 .. Len(files) /\ files[path] \in Seq(Piece)
      /\ pos \in Nat
  BY <1>0, FilesTyped, CountersTyped
<1>2. UNCHANGED <<files, path>>
  BY DEF Open, Close, Size, world
<1>3. CASE Open
  <2>1. handle = None /\ handle' = path /\ path # None
    BY <1>0, <1>3, TailerTyped DEF Open
  <2>2. PICK i \in 1 .. Len(files[path]) : files[path][i].newline /\ l = files[path][i].line
    BY <2>1, Waits
  <2>3. CASE pos' = 0
    <3>1. Cursor' = 0
      BY <2>3 DEF Cursor
    <3> QED
      BY <1>2, <2>1, <2>2, <3>1 DEF Waiting, EndsIn
  <2>4. CASE excused' = excused \cup {p.line : p \in ToSet(files[path])}
    <3>1. files[path][i] \in ToSet(files[path])
      BY <1>1, <2>1 DEF ToSet
    <3> QED
      BY <2>2, <2>4, <3>1
  <2> QED
    BY <1>3, <2>3, <2>4 DEF Open
<1>4. CASE Close
  <2>1. handle' = None /\ pc = "close" /\ handle # None /\ path \notin {None, handle}
    BY <1>0, <1>4, TailerTyped DEF Close, InPlace
  <2>2. ~Shrunk /\ pos = Len(files[handle])
    BY <2>1 DEF Aligned
  <2>3. Cursor = Len(files[handle])
    BY <2>2 DEF Cursor
  <2>4. \A i \in Cursor + 1 .. Len(files[handle]) : FALSE
    BY <1>1, <2>1, <2>3
  <2>5. l \in EndsIn(path, 0)
    BY <2>1, <2>4 DEF Waiting, EndsIn
  <2> QED
    BY <1>2, <2>1, <2>5 DEF Waiting, EndsIn
<1>5. CASE Size
  <2>1. handle' = handle
    BY <1>5 DEF Size
  <2>2. Cursor' = Cursor
    <3>1. CASE handle # None /\ Shrunk
      <4>1. pos' = 0
        BY <1>5, <3>1 DEF Size, Shrunk
      <4> QED
        BY <3>1, <4>1 DEF Cursor
    <3>2. CASE ~(handle # None /\ Shrunk)
      <4>1. ~Shrunk /\ handle # None
        BY <1>0, <1>5, <3>2, TailerTyped DEF Size, Shrunk
      <4>2. pos' = pos
        BY <1>5, <4>1 DEF Size, Shrunk
      <4> QED
        BY <1>2, <2>1, <4>1, <4>2 DEF Cursor, Shrunk
    <3> QED
      BY <3>1, <3>2
  <2> QED
    BY <1>2, <2>1, <2>2 DEF Waiting, EndsIn
<1> QED
  BY <1>3, <1>4, <1>5

LEMMA CoveredKept ==
    ~Outgrows /\ TypeInv /\ InPlace /\ Paired /\ Aligned /\ Whole /\ Covered /\ [Next]_vars
        => Covered'
<1> SUFFICES ASSUME ~Outgrows, TypeInv, InPlace, Paired, Aligned, Whole, Covered, [Next]_vars
             PROVE  Covered'
  OBVIOUS
<1>0. TypeOK /\ Done \in Nat /\ excused \subseteq excused'
  BY ExcusedGrows, DoneNat DEF TypeInv
<1>1. CASE EndLine
  <2>1. PICK piece : piece = [line |-> line, newline |-> TRUE] /\ piece \in Piece /\ Grow(piece)
    BY <1>1, Written
  <2>2. UNCHANGED <<handle, path, got, lines, pos>> /\ unfinished /\ ~unfinished' /\ line' = line
    BY <1>1 DEF EndLine, tailer
  <2>3. Done' = line /\ line = Done + 1
    BY <2>2, DoneTyped DEF Done
  <2>4. Seen' = Seen
    BY <2>2 DEF Seen
  <2>5. line \in Waiting'
    <3>1. PICK n \in Nat : n = Len(files[path])
      BY <1>0, <2>1, GrownFile
    <3>2. Len(files'[path]) = n + 1 /\ files'[path][n + 1] = piece /\ n + 1 \in 1 .. n + 1
      BY <1>0, <2>1, <3>1, GrownFile
    <3>3. path # None /\ piece.newline /\ piece.line = line
      BY <2>1 DEF Grow
    <3>4. CASE handle = path
      <4>1. (Shrunk <=> n < pos) /\ (Shrunk' <=> n + 1 < pos)
        BY <2>2, <3>1, <3>2, <3>3, <3>4 DEF Shrunk
      <4>2. Shrunk => n + 1 < pos
        BY <2>1, <3>1, <3>4 DEF Grow
      <4>3. PICK p \in Nat : p = pos
        BY <1>0, CountersTyped
      <4>4. ~Shrunk' => p <= n
        <5> SUFFICES ASSUME ~Shrunk' PROVE p <= n
          OBVIOUS
        <5>1. ~(n < p)
          BY <4>1, <4>2, <4>3
        <5> QED
          BY <5>1
      <4>5. PICK c \in 0 .. n : c = Cursor'
        BY <2>2, <4>3, <4>4 DEF Cursor
      <4>6. n + 1 \in c + 1 .. n + 1
        OBVIOUS
      <4>7. line \in EndsIn(handle, Cursor)'
        BY <2>2, <3>2, <3>3, <3>4, <4>5, <4>6 DEF EndsIn
      <4> QED
        BY <2>2, <3>3, <3>4, <4>7 DEF Waiting
    <3>5. CASE handle # path
      <4>1. line \in EndsIn(path, 0)'
        BY <2>2, <3>2, <3>3 DEF EndsIn
      <4> QED
        BY <2>2, <3>3, <3>5, <4>1 DEF Waiting
    <3> QED
      BY <3>4, <3>5
  <2>6. \A l \in 1 .. Done : l \in Seen' \cup Waiting' \cup excused'
    <3> SUFFICES ASSUME NEW l \in 1 .. Done PROVE l \in Seen' \cup Waiting' \cup excused'
      OBVIOUS
    <3>1. l \in Seen \cup Waiting \/ l \in excused
      BY DEF Covered
    <3>2. l \in Waiting => l \in Seen \cup Waiting' \cup excused'
      BY <1>1, WorldWaits
    <3> QED
      BY <1>0, <2>4, <3>1, <3>2
  <2>7. 1 .. Done' = 1 .. Done \cup {line}
    BY <1>0, <2>3
  <2> QED
    BY <2>5, <2>6, <2>7 DEF Covered
<1>2. CASE Create \/ BeginLine \/ Rename \/ Truncate
  <2>1. Done' = Done
    <3>1. CASE BeginLine
      <4>1. ~unfinished /\ unfinished' /\ line' = line + 1 /\ line \in Nat
        BY <1>0, <3>1, CountersTyped DEF BeginLine
      <4>2. line = Done
        BY <4>1 DEF Done
      <4>3. Done' = (line + 1) - 1
        BY <4>1 DEF Done
      <4> QED
        BY <4>1, <4>2, <4>3
    <3>2. CASE ~BeginLine
      <4>1. UNCHANGED <<line, unfinished>>
        BY <1>2, <3>2 DEF Create, Rename, Truncate
      <4> QED
        BY <4>1 DEF Done
    <3> QED
      BY <3>1, <3>2
  <2>2. Seen' = Seen
    <3>1. UNCHANGED <<got, lines>>
      BY <1>2 DEF Create, BeginLine, Rename, Truncate, tailer
    <3> QED
      BY <3>1 DEF Seen
  <2>3. \A l \in Waiting : l \in Seen \cup Waiting' \cup excused'
    BY <1>2, WorldWaits
  <2> QED
    BY <1>0, <2>1, <2>2, <2>3, NothingForgotten
<1>3. CASE TailStep \/ UNCHANGED vars
  <2>1. UNCHANGED <<files, path, line, unfinished>>
    BY <1>3 DEF TailStep, OpenFails, Open, ReadLine, ReadNothing, Yield, Yielded,
                Check, Close, Size, vars, world
  <2>2. Done' = Done
    BY <2>1 DEF Done
  <2>3. ASSUME UNCHANGED <<got, lines>> PROVE Seen' = Seen
    BY <2>3 DEF Seen
  <2>4. ASSUME UNCHANGED <<handle, pos>> PROVE Waiting' = Waiting
    BY <2>1, <2>4 DEF Waiting, EndsIn, Cursor, Shrunk
  <2>5. CASE ReadLine
    <3>1. \A l \in Waiting : l \in Seen' \cup Waiting'
      BY <2>5, ReadLineWaits
    <3>2. Seen \subseteq Seen'
      <4>1. ToSet(lines) \subseteq ToSet(lines') /\ got' = got
        <5>1. PICK s \in Seq(Piece) : Fragment(s) \/ \E k \in Seq(Piece) : WholeLine(s, k)
          BY <2>5, LineShape
        <5>2. lines' = lines \/ \E k \in Seq(Piece) : lines' = Append(lines, k)
          BY <5>1 DEF Fragment, WholeLine
        <5>3. lines \in Seq(Seq(Piece))
          BY <1>0, TailerTyped
        <5>4. ASSUME NEW k \in Seq(Piece), lines' = Append(lines, k)
              PROVE  ToSet(lines) \subseteq ToSet(lines')
          <6>1. ToSet(lines') = ToSet(lines) \cup {k}
            BY <5>3, <5>4, AppendElements
          <6> QED
            BY <6>1
        <5> QED
          BY <2>5, <5>2, <5>4 DEF ReadLine
      <4> QED
        BY <4>1 DEF Seen
    <3> QED
      BY <1>0, <2>2, <3>1, <3>2, NothingForgotten
  <2>6. CASE Yield
    <3>1. Waiting' = Waiting
      BY <2>4, <2>6 DEF Yield
    <3>2. \A l \in Seen : l \in Seen' \cup excused
      BY <2>6, YieldSees
    <3> QED
      BY <1>0, <2>2, <3>1, <3>2, NothingForgotten
  <2>7. CASE Open \/ Close \/ Size
    <3>1. Seen' = Seen
      BY <2>3, <2>7 DEF Open, Close, Size
    <3>2. \A l \in Waiting : l \in Waiting' \cup excused'
      BY <2>7, LookingWaits
    <3> QED
      BY <1>0, <2>2, <3>1, <3>2, NothingForgotten
  <2>8. CASE OpenFails \/ ReadNothing \/ Yielded \/ Check \/ UNCHANGED vars
    <3>1. UNCHANGED <<got, lines, handle, pos>>
      BY <2>8 DEF OpenFails, ReadNothing, Yielded, Check, vars, tailer
    <3> QED
      BY <1>0, <2>2, <2>3, <2>4, <3>1, NothingForgotten
  <2> QED
    BY <1>3, <2>5, <2>6, <2>7, <2>8 DEF TailStep
<1>4. CASE Restart
  <2>1. UNCHANGED <<got, line, unfinished>> /\ excused' = excused \cup ((1 .. line) \ ToSet(got))
    BY <1>4 DEF Restart, world
  <2>2. Done' = Done /\ Done <= line /\ line \in Nat
    BY <1>0, <2>1, DoneTyped, CountersTyped DEF Done
  <2>3. ToSet(got) \subseteq Seen'
    BY <2>1 DEF Seen
  <2>4. 1 .. Done \subseteq 1 .. line
    BY <1>0, <2>2
  <2> QED
    BY <2>1, <2>2, <2>3, <2>4 DEF Covered
<1> QED
  BY <1>1, <1>2, <1>3, <1>4 DEF Next

\* The text of a line is its piece without the newline.
LEMMA TextOf ==
    ASSUME NEW x \in Piece
    PROVE  [x EXCEPT !.newline = FALSE] = [line |-> x.line, newline |-> FALSE]
<1> DEFINE y == [x EXCEPT !.newline = FALSE]
           z == [line |-> x.line, newline |-> FALSE]
<1>1. x.line \in Lines
  BY DEF Piece
<1>2. y \in Piece /\ y.line = x.line /\ y.newline = FALSE
  BY DEF Piece
<1>3. z \in Piece /\ z.line = x.line /\ z.newline = FALSE
  BY <1>1 DEF Piece
<1> HIDE DEF y, z
<1>4. \A k \in {"line", "newline"} : y[k] = z[k]
  BY <1>2, <1>3
<1>5. y = z
  BY <1>2, <1>3, <1>4 DEF Piece
<1> QED
  BY <1>5 DEF y, z

\* What waits is what the cursor has still to pass, and lines that are excused.
LEMMA WaitingIsAhead ==
    ASSUME TypeInv, InPlace, Paired, Aligned, NEW l \in Waiting
    PROVE  l \in Ahead \cup excused
<1>0. TypeOK
  BY DEF TypeInv
<1>1. /\ handle # None => handle \in 1 .. Len(files) /\ files[handle] \in Seq(Piece)
      /\ path # None => path \in 1 .. Len(files) /\ files[path] \in Seq(Piece)
      /\ DOMAIN files = 1 .. Len(files) /\ pos \in Nat
  BY <1>0, FilesTyped, CountersTyped
<1>2. ASSUME NEW f \in 1 .. Len(files), files[f] \in Seq(Piece),
             NEW c \in Nat, NEW i \in c + 1 .. Len(files[f]),
             files[f][i].newline, l = files[f][i].line, i # c + 1 \/ i = 1
      PROVE  l \in AheadIn(f, c) \cup excused
  <2>1. PICK s \in Seq(Piece) : s = files[f]
    BY <1>2
  <2>2. i \in 1 .. Len(s) /\ DOMAIN s = 1 .. Len(s)
    BY <1>2, <2>1
  <2>3. CASE i = 1
    BY <1>1, <1>2, <2>1, <2>2, <2>3 DEF Paired
  <2>4. CASE i # 1
    <3>1. i \in c + 2 .. Len(s)
      BY <1>2, <2>1, <2>4
    <3>2. s[i - 1] = [line |-> s[i].line, newline |-> FALSE]
      BY <1>1, <1>2, <2>1, <2>2, <2>4 DEF Paired
    <3>3. s[i] \in Piece
      BY <2>2
    <3>4. [s[i] EXCEPT !.newline = FALSE] = [line |-> s[i].line, newline |-> FALSE]
      BY <3>3, TextOf
    <3> QED
      BY <1>2, <2>1, <3>1, <3>2, <3>4 DEF AheadIn
  <2> QED
    BY <2>3, <2>4
<1>3. CASE path # None /\ path # handle /\ \E i \in 1 .. Len(files[path]) :
               files[path][i].newline /\ l = files[path][i].line
  <2>1. PICK i \in 1 .. Len(files[path]) : files[path][i].newline /\ l = files[path][i].line
    BY <1>3
  <2>2. i \in 0 + 1 .. Len(files[path]) /\ (i # 0 + 1 \/ i = 1)
    OBVIOUS
  <2>3. l \in AheadIn(path, 0) \cup excused
    BY <1>1, <1>2, <1>3, <2>1, <2>2
  <2> QED
    BY <1>3, <2>3 DEF Ahead
<1>4. CASE handle # None /\ \E i \in Cursor + 1 .. Len(files[handle]) :
               files[handle][i].newline /\ l = files[handle][i].line
  <2>1. PICK i \in Cursor + 1 .. Len(files[handle]) :
             files[handle][i].newline /\ l = files[handle][i].line
    BY <1>4
  <2>2. PICK s \in Seq(Piece) : s = files[handle]
    BY <1>1, <1>4
  <2>3. PICK c \in Nat : c = Cursor
    BY <1>1 DEF Cursor
  <2>4. i \in c + 1 .. Len(s) /\ s[i].newline /\ l = s[i].line
    BY <2>1, <2>2, <2>3
  <2>5. pc # "close"
    <3> SUFFICES ASSUME pc = "close" PROVE FALSE
      OBVIOUS
    <3>1. ~Shrunk /\ pos = Len(files[handle])
      BY <1>4 DEF InPlace, Aligned
    <3>2. c = Len(s)
      BY <2>2, <2>3, <3>1 DEF Cursor
    <3> QED
      BY <2>4, <3>2
  <2>6. CASE i # c + 1 \/ i = 1
    <3>1. l \in AheadIn(handle, c) \cup excused
      BY <1>1, <1>2, <1>4, <2>2, <2>4, <2>6
    <3> QED
      BY <1>4, <2>3, <2>5, <3>1 DEF Ahead, Cursor
  <2>7. CASE i = c + 1 /\ i # 1
    <3>1. ~Shrunk /\ c = pos /\ c # 0
      BY <2>3, <2>7 DEF Cursor
    <3>2. /\ i - 1 = c /\ i \in 1 .. Len(s) /\ c < Len(s) /\ DOMAIN s = 1 .. Len(s)
      BY <2>4, <2>7
    <3>3. s[c] = [line |-> s[i].line, newline |-> FALSE]
      <4>1. handle \in DOMAIN files /\ i \in DOMAIN files[handle] /\ i # 1
            /\ files[handle][i].newline
        BY <1>1, <1>4, <2>2, <2>4, <2>7, <3>2
      <4>2. files[handle][i - 1] = [line |-> files[handle][i].line, newline |-> FALSE]
        BY <4>1 DEF Paired
      <4> QED
        BY <2>2, <3>2, <4>2, Zenon
    <3>4. s[c].line = l /\ ~s[c].newline
      BY <2>4, <3>3
    <3>5. partial = <<s[c]>> \/ l \in excused
      BY <1>4, <2>2, <3>1, <3>4 DEF Aligned
    <3>6. CASE partial = <<s[c]>>
      <4>1. Last(partial) = s[c] /\ partial # <<>>
        BY <3>6 DEF Last
      <4>2. l \in {k \in {s[c + 1].line} : k = Last(partial).line}
        BY <2>4, <2>7, <3>4, <4>1
      <4>3. pos < Len(files[handle]) /\ files[handle][pos + 1].newline
        BY <2>2, <2>4, <2>7, <3>1, <3>2
      <4> QED
        BY <1>4, <2>2, <2>5, <3>1, <4>1, <4>2, <4>3 DEF Ahead
    <3> QED
      BY <3>5, <3>6
  <2> QED
    BY <2>6, <2>7
<1> QED
  BY <1>3, <1>4, Waits

LEMMA CoverHolds == Init => CoverInv
<1> SUFFICES ASSUME Init PROVE CoverInv
  OBVIOUS
<1>1. LogEnd /\ Aligned
  BY DEF Init, LogEnd, Aligned
<1>2. Paired
  <2>1. DOMAIN files = {}
    BY DEF Init
  <2> QED
    BY <2>1 DEF Paired
<1>3. Whole
  BY EmptyElements DEF Init, Whole
<1>4. Covered
  <2>1. 1 .. Done = {}
    BY DEF Init, Done
  <2> QED
    BY <2>1 DEF Covered
<1> QED
  BY <1>1, <1>2, <1>3, <1>4 DEF CoverInv

LEMMA CoverIsEnough ==
    TypeInv /\ InPlace /\ CoverInv => NothingMissed
<1> SUFFICES ASSUME TypeInv, InPlace, CoverInv PROVE NothingMissed
  OBVIOUS
<1>1. \A l \in Waiting : l \in Ahead \cup excused
  BY WaitingIsAhead DEF CoverInv
<1>2. 1 .. Done \subseteq Seen \cup Waiting \cup excused
  BY DEF CoverInv, Covered
<1>3. Seen = ToSet(got) \cup Collected
  BY CollectedSeen DEF CoverInv
<1>4. Finished = 1 .. Done
  BY FinishedDone
<1> QED
  BY <1>1, <1>2, <1>3, <1>4 DEF NothingMissed

\* Unless an emptied log outgrows the cursor between two polls, no line that is all there
\* is passed over: it is an event, about to be yielded, ahead of the cursor or excused.
THEOREM NoLinePassedOver ==
    ASSUME ~Outgrows
    PROVE  Spec => []NothingMissed
<1>1. Init => TypeInv /\ OrderInv /\ CoverInv
  BY TypesHold, OrderHolds, CoverHolds
<1>2. TypeInv /\ OrderInv /\ CoverInv /\ [Next]_vars => (TypeInv /\ OrderInv /\ CoverInv)'
  BY TypesKept, InPlaceKept, FilesOrderedKept, ReadInOrderKept, LogEndKept, PairedKept,
     AlignedKept, WholeKept, CoveredKept DEF OrderInv, CoverInv
<1>3. TypeInv /\ OrderInv /\ CoverInv => NothingMissed
  BY CoverIsEnough DEF OrderInv
<1> QED
  BY <1>1, <1>2, <1>3, PTL DEF Spec
=============================================================================
