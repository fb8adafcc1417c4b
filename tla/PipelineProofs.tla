---------------------------- MODULE PipelineProofs ----------------------------
(***************************************************************************)
(* Conservation of events from the sensor to the database, and the         *)
(* refinement of DeliveryLedger, for any set of events, any batch sizes,   *)
(* any faults and any number of abandoned requests.                        *)
(***************************************************************************)
EXTENDS Pipeline, FiniteSetTheorems, TLAPS

-----------------------------------------------------------------------------
(* The elements of a sequence *)

\* The elements of a sequence are its entries.
LEMMA Elements ==
    ASSUME NEW S, NEW s \in Seq(S)
    PROVE  /\ ToSet(s) = {s[i] : i \in 1 .. Len(s)}
           /\ ToSet(s) \subseteq S
<1>1. DOMAIN s = 1 .. Len(s) /\ \A i \in 1 .. Len(s) : s[i] \in S
  OBVIOUS
<1> QED
  BY <1>1 DEF ToSet

\* The empty sequence has none.
LEMMA EmptyElements == ToSet(<<>>) = {}
<1>1. DOMAIN <<>> = {}
  OBVIOUS
<1> QED
  BY <1>1 DEF ToSet

\* Append adds one.
LEMMA AppendElements ==
    ASSUME NEW S, NEW s \in Seq(S), NEW e \in S
    PROVE  /\ Append(s, e) \in Seq(S)
           /\ ToSet(Append(s, e)) = ToSet(s) \cup {e}
<1> DEFINE t == Append(s, e)
<1>1. /\ t \in Seq(S) /\ Len(s) \in Nat /\ Len(t) = Len(s) + 1
      /\ t[Len(s) + 1] = e
      /\ \A i \in 1 .. Len(s) : t[i] = s[i]
  OBVIOUS
<1>2. {t[i] : i \in 1 .. Len(t)} = {s[i] : i \in 1 .. Len(s)} \cup {e}
  BY <1>1
<1> QED
  BY <1>1, <1>2, Elements

\* The head and the elements of the tail are all there are.
LEMMA HeadTailElements ==
    ASSUME NEW S, NEW s \in Seq(S), s # <<>>
    PROVE  /\ Head(s) \in S
           /\ Tail(s) \in Seq(S)
           /\ ToSet(s) = {Head(s)} \cup ToSet(Tail(s))
<1>1. /\ Head(s) \in S /\ Tail(s) \in Seq(S) /\ Len(s) >= 1 /\ Len(s) \in Nat
      /\ Len(Tail(s)) = Len(s) - 1
      /\ \A i \in 1 .. Len(s) - 1 : Tail(s)[i] = s[i + 1]
      /\ Head(s) = s[1]
  OBVIOUS
<1>2. ASSUME NEW i \in 1 .. Len(s)
      PROVE s[i] = Head(s) \/ \E j \in 1 .. Len(Tail(s)) : s[i] = Tail(s)[j]
  <2>1. CASE i = 1
    BY <1>1, <2>1
  <2>2. CASE i # 1
    <3>1. i - 1 \in 1 .. Len(Tail(s)) /\ Tail(s)[i - 1] = s[i]
      BY <1>1, <2>2
    <3> QED
      BY <3>1
  <2> QED
    BY <2>1, <2>2
<1>3. \A j \in 1 .. Len(Tail(s)) : j + 1 \in 1 .. Len(s) /\ Tail(s)[j] = s[j + 1]
  BY <1>1
<1>4. {s[i] : i \in 1 .. Len(s)} = {Head(s)} \cup {Tail(s)[i] : i \in 1 .. Len(Tail(s))}
  BY <1>1, <1>2, <1>3
<1> QED
  BY <1>1, <1>4, Elements

\* Concatenation unites them.
LEMMA ConcatElements ==
    ASSUME NEW S, NEW s \in Seq(S), NEW t \in Seq(S)
    PROVE  /\ s \o t \in Seq(S)
           /\ ToSet(s \o t) = ToSet(s) \cup ToSet(t)
<1>1. /\ s \o t \in Seq(S) /\ Len(s \o t) = Len(s) + Len(t)
      /\ Len(s) \in Nat /\ Len(t) \in Nat
      /\ \A i \in 1 .. Len(s) : (s \o t)[i] = s[i]
      /\ \A i \in Len(s) + 1 .. Len(s) + Len(t) : (s \o t)[i] = t[i - Len(s)]
  OBVIOUS
<1>2. \A i \in 1 .. Len(t) : i + Len(s) \in 1 .. Len(s \o t) /\ (s \o t)[i + Len(s)] = t[i]
  BY <1>1
<1>3. \A i \in 1 .. Len(s) : i \in 1 .. Len(s \o t) /\ (s \o t)[i] = s[i]
  BY <1>1
<1>4. \A i \in 1 .. Len(s \o t) :
        \/ i \in 1 .. Len(s)
        \/ i - Len(s) \in 1 .. Len(t) /\ (s \o t)[i] = t[i - Len(s)]
  BY <1>1
<1> DEFINE r == s \o t
<1>5. {r[i] : i \in 1 .. Len(r)}
        \subseteq {s[i] : i \in 1 .. Len(s)} \cup {t[i] : i \in 1 .. Len(t)}
  BY <1>3, <1>4
<1>6. {s[i] : i \in 1 .. Len(s)} \cup {t[i] : i \in 1 .. Len(t)}
        \subseteq {r[i] : i \in 1 .. Len(r)}
  BY <1>2, <1>3, Zenon
<1>7. /\ ToSet(r) = {r[i] : i \in 1 .. Len(r)}
      /\ ToSet(s) = {s[i] : i \in 1 .. Len(s)}
      /\ ToSet(t) = {t[i] : i \in 1 .. Len(t)}
  BY <1>1, Elements
<1> QED
  BY <1>1, <1>5, <1>6, <1>7

\* A part of a sequence has no other elements.
LEMMA SubSeqElements ==
    ASSUME NEW S, NEW s \in Seq(S), NEW a \in {1, 2}, NEW k \in 0 .. Len(s)
    PROVE  /\ SubSeq(s, a, k) \in Seq(S)
           /\ ToSet(SubSeq(s, a, k)) \subseteq ToSet(s)
<1>1. SubSeq(s, a, k) \in Seq(S)
  OBVIOUS
<1>2. \A i \in 1 .. Len(SubSeq(s, a, k)) :
        a + i - 1 \in 1 .. Len(s) /\ SubSeq(s, a, k)[i] = s[a + i - 1]
  OBVIOUS
<1> QED
  BY <1>1, <1>2 DEF ToSet

\* A whole sequence is its first element and the rest.
LEMMA WholeElements ==
    ASSUME NEW S, NEW s \in Seq(S), s # <<>>
    PROVE  /\ s[1] \in S
           /\ SubSeq(s, 1, Len(s)) = s
           /\ ToSet(s) = {s[1]} \cup ToSet(SubSeq(s, 2, Len(s)))
<1>1. Head(s) = s[1] /\ Tail(s) = SubSeq(s, 2, Len(s)) /\ SubSeq(s, 1, Len(s)) = s
  OBVIOUS
<1> QED
  BY <1>1, HeadTailElements

-----------------------------------------------------------------------------
(* Sequences without repetition *)

\* A sequence without repetition, by its indices.
LEMMA InjectiveByIndex ==
    ASSUME NEW S, NEW s \in Seq(S)
    PROVE  IsInjective(s) <=> \A i, j \in 1 .. Len(s) : s[i] = s[j] => i = j
<1>1. DOMAIN s = 1 .. Len(s)
  OBVIOUS
<1> QED
  BY <1>1 DEF IsInjective

\* The empty sequence has no repetition.
LEMMA EmptyInjective == IsInjective(<<>>)
<1>1. DOMAIN <<>> = {}
  OBVIOUS
<1> QED
  BY <1>1 DEF IsInjective

\* Two sequences repeat nothing together when neither does and they share nothing.
LEMMA InjectiveConcat ==
    ASSUME NEW S, NEW s \in Seq(S), NEW t \in Seq(S)
    PROVE  IsInjective(s \o t) <=> /\ IsInjective(s)
                                   /\ IsInjective(t)
                                   /\ ToSet(s) \cap ToSet(t) = {}
<1> DEFINE r == s \o t
<1>1. /\ r \in Seq(S) /\ Len(r) = Len(s) + Len(t)
      /\ Len(s) \in Nat /\ Len(t) \in Nat
      /\ \A i \in 1 .. Len(s) : r[i] = s[i]
      /\ \A i \in Len(s) + 1 .. Len(s) + Len(t) : r[i] = t[i - Len(s)]
  OBVIOUS
<1>2. /\ \A i \in 1 .. Len(s) : i \in 1 .. Len(r) /\ r[i] = s[i]
      /\ \A i \in 1 .. Len(t) : i + Len(s) \in 1 .. Len(r) /\ r[i + Len(s)] = t[i]
  BY <1>1
<1>3. ASSUME IsInjective(r)
      PROVE  IsInjective(s) /\ IsInjective(t) /\ ToSet(s) \cap ToSet(t) = {}
  <2>1. \A i, j \in 1 .. Len(r) : r[i] = r[j] => i = j
    BY <1>1, <1>3, InjectiveByIndex
  <2>2. \A i, j \in 1 .. Len(s) : s[i] = s[j] => i = j
    BY <1>2, <2>1
  <2>3. ASSUME NEW i \in 1 .. Len(t), NEW j \in 1 .. Len(t), t[i] = t[j]
        PROVE  i = j
    <3>1. i + Len(s) = j + Len(s)
      BY <1>2, <2>1, <2>3
    <3> QED
      BY <1>1, <3>1
  <2>4. ASSUME NEW i \in 1 .. Len(s), NEW j \in 1 .. Len(t), s[i] = t[j]
        PROVE  FALSE
    <3>1. i = j + Len(s)
      BY <1>2, <2>1, <2>4
    <3> QED
      BY <1>1, <3>1
  <2>5. ToSet(s) = {s[i] : i \in 1 .. Len(s)} /\ ToSet(t) = {t[i] : i \in 1 .. Len(t)}
    BY Elements
  <2>6. ToSet(s) \cap ToSet(t) = {}
    BY <2>4, <2>5
  <2> QED
    BY <2>2, <2>3, <2>6, InjectiveByIndex
<1>4. ASSUME IsInjective(s), IsInjective(t), ToSet(s) \cap ToSet(t) = {}
      PROVE  IsInjective(r)
  <2>1. /\ \A i, j \in 1 .. Len(s) : s[i] = s[j] => i = j
        /\ \A i, j \in 1 .. Len(t) : t[i] = t[j] => i = j
    BY <1>4, InjectiveByIndex
  <2>2. ToSet(s) = {s[i] : i \in 1 .. Len(s)} /\ ToSet(t) = {t[i] : i \in 1 .. Len(t)}
    BY Elements
  <2>3. \A i \in 1 .. Len(s), j \in 1 .. Len(t) : s[i] # t[j]
    BY <1>4, <2>2
  <2>4. ASSUME NEW i \in 1 .. Len(r), NEW j \in 1 .. Len(r), r[i] = r[j]
        PROVE  i = j
    <3>1. CASE i <= Len(s) /\ j <= Len(s)
      BY <1>1, <2>1, <2>4, <3>1
    <3>2. CASE i > Len(s) /\ j > Len(s)
      <4>1. /\ i - Len(s) \in 1 .. Len(t) /\ j - Len(s) \in 1 .. Len(t)
            /\ r[i] = t[i - Len(s)] /\ r[j] = t[j - Len(s)]
        BY <1>1, <3>2
      <4>2. i - Len(s) = j - Len(s)
        BY <2>1, <2>4, <4>1
      <4> QED
        BY <1>1, <4>2
    <3>3. CASE i <= Len(s) /\ j > Len(s)
      <4>1. i \in 1 .. Len(s) /\ j - Len(s) \in 1 .. Len(t) /\ s[i] = t[j - Len(s)]
        BY <1>1, <2>4, <3>3
      <4> QED
        BY <2>3, <4>1
    <3>4. CASE i > Len(s) /\ j <= Len(s)
      <4>1. j \in 1 .. Len(s) /\ i - Len(s) \in 1 .. Len(t) /\ s[j] = t[i - Len(s)]
        BY <1>1, <2>4, <3>4
      <4> QED
        BY <2>3, <4>1
    <3> QED
      BY <1>1, <3>1, <3>2, <3>3, <3>4
  <2> QED
    BY <1>1, <2>4, InjectiveByIndex
<1> QED
  BY <1>3, <1>4

\* Appending a new element repeats nothing.
LEMMA InjectiveAppend ==
    ASSUME NEW S, NEW s \in Seq(S), NEW e \in S
    PROVE  IsInjective(Append(s, e)) <=> IsInjective(s) /\ e \notin ToSet(s)
<1> DEFINE t == <<e>>
<1>1. t \in Seq(S) /\ Append(s, e) = s \o t /\ DOMAIN t = {1} /\ t[1] = e
  OBVIOUS
<1>2. IsInjective(t) /\ ToSet(t) = {e}
  BY <1>1 DEF IsInjective, ToSet
<1>3. IsInjective(s \o t) <=> IsInjective(s) /\ e \notin ToSet(s)
  <2> HIDE DEF t
  <2> QED
    BY <1>1, <1>2, InjectiveConcat
<1> QED
  BY <1>1, <1>3, Zenon

\* Of a sequence without repetition, the head is not in the tail.
LEMMA InjectiveHeadTail ==
    ASSUME NEW S, NEW s \in Seq(S), s # <<>>, IsInjective(s)
    PROVE  IsInjective(Tail(s)) /\ Head(s) \notin ToSet(Tail(s))
<1>1. /\ <<Head(s)>> \in Seq(S) /\ Tail(s) \in Seq(S) /\ s = <<Head(s)>> \o Tail(s)
      /\ DOMAIN <<Head(s)>> = {1} /\ <<Head(s)>>[1] = Head(s)
  OBVIOUS
<1>2. ToSet(<<Head(s)>>) = {Head(s)}
  BY <1>1 DEF ToSet
<1> QED
  BY <1>1, <1>2, InjectiveConcat, ZenonT(60)

\* A part of one has no repetition, and the next element is not in it.
LEMMA InjectiveSubSeq ==
    ASSUME NEW S, NEW s \in Seq(S), NEW a \in {1, 2}, NEW k \in 0 .. Len(s), IsInjective(s)
    PROVE  /\ IsInjective(SubSeq(s, a, k))
           /\ k < Len(s) => s[k + 1] \notin ToSet(SubSeq(s, a, k))
<1> DEFINE t == SubSeq(s, a, k)
<1>1. \A i, j \in 1 .. Len(s) : s[i] = s[j] => i = j
  BY InjectiveByIndex
<1>2. /\ t \in Seq(S)
      /\ \A i \in 1 .. Len(t) :
            a + i - 1 \in 1 .. Len(s) /\ a + i - 1 <= k /\ t[i] = s[a + i - 1]
      /\ Len(t) \in Nat
  OBVIOUS
<1>3. ASSUME NEW i \in 1 .. Len(t), NEW j \in 1 .. Len(t), t[i] = t[j]
      PROVE  i = j
  <2>1. a + i - 1 = a + j - 1
    BY <1>1, <1>2, <1>3
  <2> QED
    BY <1>2, <2>1
<1>4. ASSUME k < Len(s), NEW i \in 1 .. Len(t), t[i] = s[k + 1]
      PROVE  FALSE
  <2>1. a + i - 1 = k + 1
    BY <1>1, <1>2, <1>4
  <2> QED
    BY <1>2, <2>1
<1>5. ToSet(t) = {t[i] : i \in 1 .. Len(t)}
  BY <1>2, Elements
<1> QED
  BY <1>2, <1>3, <1>4, <1>5, InjectiveByIndex

-----------------------------------------------------------------------------
(* The inductive invariant *)

\* What the sender is doing, the request it waits for, and the queues agree.
InStep ==
    /\ phase = "none" <=> pc # "post"
    /\ wire = <<>> <=> pc \notin {"post", "save"}
    /\ phase \in {"none", "answered", "broken"} => todo = <<>>
    /\ ToSet(todo) \subseteq ToSet(wire)
    /\ phase = "travelling" => todo = wire
    /\ phase = "answered" => code \in {200, 422, 500}

\* A request in progress forgets no event.
Handled == phase = "handling" => ToSet(wire) \subseteq ToSet(todo) \cup stored \cup failed

\* The batch is flushed before it can outgrow the limit.
BatchFits ==
    /\ Len(batch) <= BatchMax
    /\ pc # "flush" => Len(batch) < BatchMax

\* HeldOnce in parts, so that a step need only be followed through the parts it
\* touches.
Distinct ==
    /\ IsInjective(queue) /\ IsInjective(batch) /\ IsInjective(wire) /\ IsInjective(Pending)
    /\ ToSet(queue) \cap ToSet(batch) = {}
    /\ ToSet(queue) \cap ToSet(wire) = {}
    /\ ToSet(queue) \cap ToSet(Pending) = {}
    /\ ToSet(batch) \cap ToSet(wire) = {}
    /\ ToSet(batch) \cap ToSet(Pending) = {}
    /\ ToSet(wire) \cap ToSet(Pending) = {}

\* Nothing is invented on the way.
OnlyMinted == Held \cup stored \subseteq minted

IInv ==
    /\ TypeOK
    /\ InStep
    /\ Handled
    /\ AnswerAccounts
    /\ NoSilentLoss
    /\ BatchFits
    /\ FreshBatchFits
    /\ Distinct
    /\ OnlyMinted

-----------------------------------------------------------------------------
(* What a write leaves in the spool *)

\* What load_and_clear_pending reads is the terminated lines and a whole last one.
LEMMA PendingElements ==
    ASSUME TypeOK
    PROVE  /\ Pending \in Seq(Events)
           /\ ToSet(spool) \subseteq ToSet(Pending)
           /\ ToSet(Pending) \subseteq ToSet(spool) \cup ({tail} \cap Events)
           /\ tail = Clean => Pending = spool
           /\ IsInjective(Pending) => IsInjective(spool)
<1>1. spool \in Seq(Events)
  BY DEF TypeOK, SensorTypeOK
<1>2. CASE tail \in Events
  <2>1. Pending = Append(spool, tail) /\ tail # Clean
    BY <1>2, ShipperAssumption DEF Pending
  <2>2. /\ Append(spool, tail) \in Seq(Events)
        /\ ToSet(Append(spool, tail)) = ToSet(spool) \cup {tail}
        /\ IsInjective(Append(spool, tail)) => IsInjective(spool)
    BY <1>1, <1>2, AppendElements, InjectiveAppend
  <2> QED
    BY <1>2, <2>1, <2>2
<1>3. CASE tail \notin Events
  BY <1>1, <1>3 DEF Pending
<1> QED
  BY <1>2, <1>3

\* A write adds to the spool a part of the batch, each event once, or nothing.
LEMMA WrittenAdds ==
    ASSUME TypeOK,
           NEW k \in 0 .. Len(wire), NEW cut \in Cuts(k), Written(k, cut)
    PROVE  /\ spool' \in Seq(Events)
           /\ tail' \in Events \cup {Clean, Garbled}
           /\ \/ Pending' = Pending
              \/ \E m \in Seq(Events) :
                    /\ Pending' = spool \o m
                    /\ ToSet(m) \subseteq ToSet(wire)
                    /\ IsInjective(wire) => IsInjective(m)
<1>1. /\ wire \in Seq(Events) /\ spool \in Seq(Events) /\ Len(wire) \in Nat
      /\ tail \in Events \cup {Clean, Garbled}
  BY DEF TypeOK, SensorTypeOK
<1>2. /\ cut \in Events \cup {Clean, Garbled}
      /\ cut \in Events => k < Len(wire) /\ cut = wire[k + 1]
  BY <1>1, ShipperAssumption DEF Cuts
<1>3. tail' \in Events \cup {Clean, Garbled}
  BY <1>1, <1>2 DEF Written
<1>4. CASE k = 0 /\ tail # Clean /\ cut = Clean
  <2>1. SubSeq(wire, 1, k) = <<>> /\ spool \o <<>> = spool
    BY <1>1, <1>4
  <2>2. ~Glued(k, cut)
    BY <1>4 DEF Glued
  <2>3. spool' = spool \o SubSeq(wire, 1, k) /\ tail' = tail
    BY <1>4, <2>2 DEF Written
  <2>4. spool' = spool
    BY <2>1, <2>3, Zenon
  <2>5. Pending' = Pending
    BY <2>3, <2>4 DEF Pending
  <2> QED
    BY <1>1, <1>3, <2>4, <2>5
<1>5. CASE ~(k = 0 /\ tail # Clean /\ cut = Clean)
  <2> DEFINE a == IF Glued(k, cut) THEN 2 ELSE 1
  <2> DEFINE t == SubSeq(wire, a, k)
  <2>1. a \in {1, 2} /\ spool' = spool \o t
    BY DEF Written
  <2>2. /\ t \in Seq(Events) /\ ToSet(t) \subseteq ToSet(wire)
        /\ IsInjective(wire) => IsInjective(t)
        /\ IsInjective(wire) /\ k < Len(wire) => wire[k + 1] \notin ToSet(t)
    BY <1>1, <2>1, SubSeqElements, InjectiveSubSeq
  <2> HIDE DEF t, a
  <2>3. spool' \in Seq(Events)
    BY <1>1, <2>1, <2>2
  <2>4. CASE tail' \in Events
    <3>1. tail' = cut /\ cut \in Events
      BY <1>5, <2>4, ShipperAssumption DEF Written
    <3> DEFINE m == Append(t, cut)
    <3>2. m \in Seq(Events) /\ ToSet(m) = ToSet(t) \cup {cut}
      BY <2>2, <3>1, AppendElements
    <3>3. ToSet(wire) = {wire[i] : i \in 1 .. Len(wire)}
      BY <1>1, Elements
    <3>4. cut \in ToSet(wire)
      BY <1>1, <1>2, <3>1, <3>3
    <3>5. IsInjective(wire) => IsInjective(m)
      <4>1. IsInjective(m) <=> IsInjective(t) /\ cut \notin ToSet(t)
        BY <2>2, <3>1, InjectiveAppend
      <4> QED
        BY <1>2, <2>2, <3>1, <4>1
    <3>6. Pending' = spool \o m
      <4>1. Pending' = Append(spool', cut)
        BY <2>4, <3>1 DEF Pending
      <4>2. Append(spool \o t, cut) = spool \o Append(t, cut)
        BY <1>1, <2>2, <3>1
      <4> QED
        BY <2>1, <4>1, <4>2
    <3> HIDE DEF m
    <3>7. \E q \in Seq(Events) : /\ Pending' = spool \o q
                                 /\ ToSet(q) \subseteq ToSet(wire)
                                 /\ IsInjective(wire) => IsInjective(q)
      BY <2>2, <3>2, <3>4, <3>5, <3>6
    <3> QED
      BY <1>3, <2>3, <3>7
  <2>5. CASE tail' \notin Events
    <3>1. Pending' = spool \o t
      BY <2>1, <2>5 DEF Pending
    <3>2. \E m \in Seq(Events) : /\ Pending' = spool \o m
                                 /\ ToSet(m) \subseteq ToSet(wire)
                                 /\ IsInjective(wire) => IsInjective(m)
      BY <2>2, <3>1
    <3> QED
      BY <1>3, <2>3, <3>2
  <2> QED
    BY <2>4, <2>5
<1> QED
  BY <1>4, <1>5

\* It takes nothing from it but what it glues together.
LEMMA WrittenKeeps ==
    ASSUME TypeOK,
           NEW k \in 0 .. Len(wire), NEW cut \in Cuts(k), Written(k, cut)
    PROVE  /\ ToSet(Pending) \subseteq ToSet(Pending)' \cup GluedEvents
           /\ k = Len(wire) /\ cut = Clean /\ wire # <<>>
                => ToSet(wire) \subseteq ToSet(Pending)' \cup GluedEvents
<1>1. /\ wire \in Seq(Events) /\ spool \in Seq(Events) /\ Len(wire) \in Nat
  BY DEF TypeOK, SensorTypeOK
<1>2. ToSet(spool') \subseteq ToSet(Pending')
  <2>1. spool' \in Seq(Events)
    BY WrittenAdds
  <2>2. CASE tail' \in Events
    <3>1. ToSet(Append(spool', tail')) = ToSet(spool') \cup {tail'}
      BY <2>1, <2>2, AppendElements
    <3> QED
      BY <2>2, <3>1 DEF Pending
  <2>3. CASE tail' \notin Events
    BY <2>3 DEF Pending
  <2> QED
    BY <2>2, <2>3
<1>3. ToSet(spool') = ToSet(spool) \cup
        ToSet(IF Glued(k, cut) THEN SubSeq(wire, 2, k) ELSE SubSeq(wire, 1, k))
  <2>1. SubSeq(wire, 1, k) \in Seq(Events) /\ SubSeq(wire, 2, k) \in Seq(Events)
    BY <1>1, SubSeqElements
  <2> QED
    BY <1>1, <2>1, ConcatElements, ZenonT(60) DEF Written
<1>4. ToSet(Pending) \subseteq ToSet(spool) \cup GluedEvents
  BY PendingElements, ShipperAssumption DEF GluedEvents
<1>5. ASSUME k = Len(wire), cut = Clean, wire # <<>>
      PROVE  ToSet(wire) \subseteq ToSet(spool') \cup GluedEvents
  <2>1. /\ wire[1] \in Events
        /\ SubSeq(wire, 1, k) = wire
        /\ ToSet(wire) = {wire[1]} \cup ToSet(SubSeq(wire, 2, k))
    BY <1>1, <1>5, WholeElements
  <2>2. CASE Glued(k, cut)
    <3>1. wire[1] \in GluedEvents
      BY <2>1, <2>2 DEF Glued, GluedEvents
    <3> QED
      BY <1>3, <2>1, <2>2, <3>1
  <2>3. CASE ~Glued(k, cut)
    BY <1>3, <2>1, <2>3
  <2> QED
    BY <2>2, <2>3
<1> QED
  BY <1>2, <1>3, <1>4, <1>5

-----------------------------------------------------------------------------
(* Type correctness *)

\* The assumptions on the constants.
LEMMA Names ==
    /\ Clean \notin Events /\ Garbled \notin Events /\ Clean # Garbled
    /\ BatchMax \in Nat /\ BatchMax > 0
BY ShipperAssumption

\* The initial state is well typed.
LEMMA InitTypes == Init => TypeOK
BY Names DEF Init, SensorInit, TypeOK, SensorTypeOK

\* What is left of an abandoned request is a request or nothing.
LEMMA RestType ==
    ASSUME NEW b \in Seq(Events), b # <<>>
    PROVE  /\ Rest(Tail(b)) \subseteq Seq(Events) \ {<<>>}
           /\ Head(b) \in Events
BY HeadTailElements DEF Rest

\* An abandoned request leaves no phase behind and at most one more late request.
LEMMA AbandonTypes ==
    ASSUME TypeOK, Abandon
    PROVE  /\ phase' = "none" /\ todo' = <<>>
           /\ late' \subseteq Seq(Events) \ {<<>>}
           /\ UNCHANGED <<failed, code, stored>>
BY DEF Abandon, TypeOK

\* One step per action.
LEMMA TypeStep == TypeOK /\ [Next]_vars => TypeOK'
<1> SUFFICES ASSUME TypeOK, [Next]_vars PROVE TypeOK'
  OBVIOUS
<1>0. /\ Pending \in Seq(Events) /\ <<>> \in Seq(Events)
      /\ ToSet(wire) \subseteq Events /\ ToSet(queue) \subseteq Events
      /\ ToSet(batch) \subseteq Events
  BY PendingElements, Elements DEF TypeOK, SensorTypeOK
<1>1. ASSUME NEW e \in Events, Mint(e) PROVE TypeOK'
  <2>1. Append(queue, e) \in Seq(Events)
    BY AppendElements DEF TypeOK, SensorTypeOK
  <2> QED
    BY <1>1, <2>1 DEF Mint, Submit, collector, TypeOK, SensorTypeOK
<1>2. CASE Get /\ UNCHANGED <<collector, exposed>>
  <2>1. Head(queue) \in Events /\ Tail(queue) \in Seq(Events)
    BY <1>2, HeadTailElements DEF Get, TypeOK, SensorTypeOK
  <2>2. Append(batch, Head(queue)) \in Seq(Events)
    BY <2>1, AppendElements DEF TypeOK, SensorTypeOK
  <2> QED
    BY <1>2, <2>1, <2>2 DEF Get, collector, TypeOK, SensorTypeOK
<1>3. CASE (GetTimesOut \/ Wait \/ NoRetry) /\ UNCHANGED <<collector, exposed>>
  BY <1>3 DEF GetTimesOut, Wait, NoRetry, collector, TypeOK, SensorTypeOK
<1>4. CASE PostBatch
  BY <1>0, <1>4 DEF PostBatch, Flush, Request, TypeOK, SensorTypeOK
<1>5. CASE RetryPending
  <2>1. CASE Pending = <<>>
    <3>1. /\ spool' = <<>> /\ tail' = Clean /\ wire' = Pending /\ fresh' = FALSE /\ pc' = "get"
          /\ UNCHANGED <<minted, queue, batch, collector, exposed>>
      BY <1>5, <2>1 DEF RetryPending, LoadAndClear
    <3> QED
      BY <1>0, <3>1, ZenonT(60) DEF collector, TypeOK, SensorTypeOK
  <2>2. CASE Pending # <<>>
    BY <1>0, <1>5, <2>2, ZenonT(60) DEF RetryPending, LoadAndClear, Request, TypeOK, SensorTypeOK
  <2> QED
    BY <2>1, <2>2
<1>6. CASE Save \/ SenderDies
  <2>1. \E k \in 0 .. Len(wire) : \E cut \in Cuts(k) : Written(k, cut)
    <3>1. Len(wire) \in 0 .. Len(wire) /\ 0 .. Len(wire) - 1 \subseteq 0 .. Len(wire)
      BY DEF TypeOK, SensorTypeOK
    <3>2. Clean \in Cuts(Len(wire))
      BY DEF Cuts
    <3> QED
      BY <1>6, <3>1, <3>2 DEF Save, SenderDies, SavePending, SaveFails
  <2>2. spool' \in Seq(Events) /\ tail' \in Events \cup {Clean, Garbled}
    BY <2>1, WrittenAdds
  <2>3. GluedEvents \subseteq Events /\ Unsaved \subseteq Events
    BY <1>0 DEF GluedEvents, Unsaved
  <2>4. /\ wire' = <<>> /\ pc' \in {"retry", "get", "dead"}
        /\ UNCHANGED <<minted, queue, batch, fresh, collector>>
        /\ exposed' \subseteq exposed \cup Unsaved \cup GluedEvents
    BY <1>6 DEF Save, SenderDies, SavePending, SaveFails, AfterSend
  <2> QED
    BY <1>0, <2>2, <2>3, <2>4 DEF collector, TypeOK, SensorTypeOK
<1>7. CASE Accept
  BY <1>7 DEF Accept, sensor, TypeOK, SensorTypeOK
<1>8. CASE Refuse
  BY <1>0, <1>8 DEF Refuse, sensor, TypeOK, SensorTypeOK
<1>9. CASE Answer
  BY <1>9 DEF Answer, sensor, TypeOK, SensorTypeOK
<1>10. CASE ServerError
  BY <1>0, <1>10 DEF ServerError, sensor, TypeOK, SensorTypeOK
<1>11. CASE CollectorCrash
  <2>0. late' = {} /\ UNCHANGED <<sensor, failed, code, stored, exposed>>
    BY <1>11, Zenon DEF CollectorCrash
  <2>1. \/ phase' = "broken" /\ todo' = <<>>
        \/ UNCHANGED <<phase, todo>>
    BY <1>11, Zenon DEF CollectorCrash
  <2>2. phase' \in {"none", "travelling", "handling", "answered", "broken"}
    BY <2>1, ZenonT(60) DEF TypeOK
  <2>3. todo' \in Seq(Events)
    BY <1>0, <2>1, ZenonT(60) DEF TypeOK
  <2> QED
    BY <2>0, <2>2, <2>3 DEF sensor, TypeOK, SensorTypeOK
<1>12. CASE Apply \/ ApplyFails
  <2>1. Head(todo) \in Events /\ Tail(todo) \in Seq(Events)
    BY <1>12, HeadTailElements DEF Apply, ApplyFails, TypeOK
  <2>2. /\ stored' \subseteq Events /\ failed' \subseteq Events /\ todo' \in Seq(Events)
        /\ UNCHANGED <<sensor, phase, code, late, exposed>>
    BY <1>12, <2>1 DEF Apply, ApplyFails, TypeOK
  <2> QED
    BY <2>2 DEF sensor, TypeOK, SensorTypeOK
<1>13. ASSUME NEW b \in late, ApplyLate(b) \/ FailLate(b) PROVE TypeOK'
  <2>1. b \in Seq(Events) /\ b # <<>>
    BY DEF TypeOK
  <2>2. Rest(Tail(b)) \subseteq Seq(Events) \ {<<>>} /\ Head(b) \in Events
    BY <2>1, RestType
  <2>3. /\ stored' \subseteq Events /\ late' \subseteq Seq(Events) \ {<<>>}
        /\ UNCHANGED <<sensor, phase, todo, failed, code, exposed>>
    BY <1>13, <2>2 DEF ApplyLate, FailLate, TypeOK
  <2> QED
    BY <2>3 DEF sensor, TypeOK, SensorTypeOK
<1>14. CASE Respond
  <2>1. /\ wire' = <<>> /\ pc' \in {"retry", "get"} /\ phase' = "none"
        /\ UNCHANGED <<minted, queue, batch, fresh, spool, tail, todo, failed, code, late, stored>>
        /\ exposed' \subseteq exposed \cup failed \cup ToSet(wire)
    BY <1>14 DEF Respond, Sent, AfterSend
  <2> QED
    BY <1>0, <2>1 DEF TypeOK, SensorTypeOK
<1>15. CASE GiveUp
  <2>1. /\ phase' = "none" /\ todo' = <<>>
        /\ late' \subseteq Seq(Events) \ {<<>>}
        /\ UNCHANGED <<failed, code, stored>>
    BY <1>15, AbandonTypes DEF GiveUp
  <2>2. /\ pc' = "save"
        /\ UNCHANGED <<minted, queue, batch, wire, fresh, spool, tail, exposed>>
    BY <1>15 DEF GiveUp, SendFails
  <2> QED
    BY <1>0, <2>1, <2>2 DEF TypeOK, SensorTypeOK
<1>16. CASE SensorCrash
  <2>1. spool' \in Seq(Events) /\ tail' \in Events \cup {Clean, Garbled}
    BY <1>16, WrittenAdds DEF SensorCrash, Restart, TypeOK, SensorTypeOK
  <2>2. GluedEvents \subseteq Events /\ Unsaved \subseteq Events
    BY <1>0 DEF GluedEvents, Unsaved
  <2>3. /\ phase' \in {"none", "travelling", "handling", "answered", "broken"}
        /\ todo' \in Seq(Events) /\ late' \subseteq Seq(Events) \ {<<>>}
        /\ UNCHANGED <<failed, code, stored>>
    <3>1. CASE pc = "post"
      BY <1>0, <1>16, <3>1, AbandonTypes, ZenonT(60) DEF SensorCrash, TypeOK
    <3>2. CASE pc # "post"
      BY <1>16, <3>2 DEF SensorCrash, collector, TypeOK
    <3> QED
      BY <3>1, <3>2
  <2>4. exposed' \subseteq Events
    BY <1>0, <1>16, <2>2 DEF SensorCrash, TypeOK
  <2>5. /\ queue' = <<>> /\ batch' = <<>> /\ wire' = <<>> /\ fresh' = TRUE
        /\ pc' = "get" /\ UNCHANGED minted
    BY <1>16 DEF SensorCrash, Restart
  <2> QED
    BY <1>0, <2>1, <2>3, <2>4, <2>5 DEF TypeOK, SensorTypeOK
<1>17. CASE UNCHANGED vars
  BY <1>17 DEF vars, sensor, collector, TypeOK, SensorTypeOK
<1> QED
  BY <1>1, <1>2, <1>3, <1>4, <1>5, <1>6, <1>7, <1>8, <1>9, <1>10, <1>11, <1>12, <1>13,
     <1>14, <1>15, <1>16, <1>17
     DEF Next, Idle

\* Every variable stays in its domain.
THEOREM TypeCorrect == Spec => []TypeOK
<1>1. Init => TypeOK
  BY InitTypes
<1>2. TypeOK /\ [Next]_vars => TypeOK'
  BY TypeStep
<1> QED
  BY <1>1, <1>2, PTL DEF Spec

-----------------------------------------------------------------------------
(* The sender, its request and the answer stay in step *)

\* Each action moves sender, request and queues together.
LEMMA InStepStep == TypeOK /\ InStep /\ [Next]_vars => InStep'
<1> SUFFICES ASSUME TypeOK, InStep, [Next]_vars PROVE InStep'
  OBVIOUS
<1>0. ToSet(<<>>) = {}
  BY EmptyElements
<1>1. ASSUME NEW e \in Events, Mint(e) PROVE InStep'
  BY <1>1 DEF Mint, Submit, collector, InStep
<1>2. CASE Idle
  BY <1>2 DEF Idle, Get, GetTimesOut, Wait, NoRetry, collector, InStep
<1>3. CASE PostBatch
  BY <1>3 DEF PostBatch, Flush, Request, InStep
<1>4. CASE RetryPending
  <2>1. CASE Pending = <<>>
    <3>1. pc = "retry" /\ wire' = <<>> /\ pc' = "get" /\ UNCHANGED collector
      BY <1>4, <2>1 DEF RetryPending, LoadAndClear
    <3> QED
      BY <1>0, <3>1 DEF collector, InStep
  <2>2. CASE Pending # <<>>
    <3>1. wire' = Pending /\ pc' = "post" /\ phase' = "travelling" /\ todo' = wire'
      BY <1>4, <2>2 DEF RetryPending, LoadAndClear, Request
    <3> QED
      BY <2>2, <3>1 DEF InStep
  <2> QED
    BY <2>1, <2>2
<1>5. CASE Save \/ SenderDies
  <2>1. pc = "save" /\ wire' = <<>> /\ pc' \in {"retry", "get", "dead"} /\ UNCHANGED collector
    BY <1>5 DEF Save, SenderDies, SavePending, SaveFails, AfterSend
  <2> QED
    BY <1>0, <2>1 DEF collector, InStep
<1>6. CASE Accept
  BY <1>6 DEF Accept, sensor, InStep
<1>7. CASE Refuse \/ ServerError
  BY <1>0, <1>7 DEF Refuse, ServerError, sensor, InStep
<1>8. CASE Answer
  BY <1>8 DEF Answer, sensor, InStep
<1>9. CASE Apply \/ ApplyFails
  <2>1. /\ phase = "handling" /\ UNCHANGED <<sensor, phase, code>>
        /\ todo' = Tail(todo) /\ todo # <<>>
    BY <1>9 DEF Apply, ApplyFails
  <2>2. ToSet(Tail(todo)) \subseteq ToSet(todo)
    BY <2>1, HeadTailElements DEF TypeOK
  <2> QED
    BY <2>1, <2>2 DEF sensor, InStep
<1>10. CASE CollectorCrash
  <2>1. CASE phase \in {"travelling", "handling"}
    BY <1>0, <1>10, <2>1 DEF CollectorCrash, sensor, InStep
  <2>2. CASE phase \notin {"travelling", "handling"}
    BY <1>10, <2>2 DEF CollectorCrash, sensor, InStep
  <2> QED
    BY <2>1, <2>2
<1>11. ASSUME NEW b \in late, ApplyLate(b) \/ FailLate(b) PROVE InStep'
  BY <1>11 DEF ApplyLate, FailLate, sensor, InStep
<1>12. CASE Respond
  <2>1. /\ wire' = <<>> /\ pc' \in {"retry", "get"} /\ phase' = "none"
        /\ UNCHANGED todo /\ todo = <<>>
    BY <1>12 DEF Respond, Sent, AfterSend, InStep
  <2> QED
    BY <1>0, <2>1 DEF InStep
<1>13. CASE GiveUp
  <2>1. /\ pc = "post" /\ pc' = "save" /\ phase' = "none" /\ todo' = <<>> /\ UNCHANGED wire
    BY <1>13 DEF GiveUp, SendFails, Abandon
  <2> QED
    BY <1>0, <2>1 DEF InStep
<1>14. CASE SensorCrash
  <2>1. wire' = <<>> /\ pc' = "get"
    BY <1>14 DEF SensorCrash, Restart
  <2>2. phase' = "none" /\ todo' = <<>>
    BY <1>14 DEF SensorCrash, Abandon, collector, InStep
  <2> QED
    BY <1>0, <2>1, <2>2 DEF InStep
<1>15. CASE UNCHANGED vars
  BY <1>15 DEF vars, sensor, collector, InStep
<1> QED
  BY <1>1, <1>2, <1>3, <1>4, <1>5, <1>6, <1>7, <1>8, <1>9, <1>10, <1>11, <1>12, <1>13,
     <1>14, <1>15 DEF Next

\* An event leaves todo into the database or the count of rejected.
LEMMA AnswerStep ==
    TypeOK /\ InStep /\ Handled /\ AnswerAccounts /\ [Next]_vars
        => Handled' /\ AnswerAccounts'
<1> SUFFICES ASSUME TypeOK, InStep, Handled, AnswerAccounts, [Next]_vars
             PROVE  Handled' /\ AnswerAccounts'
  OBVIOUS
<1>1. ASSUME phase' \in {"none", "travelling", "broken"}
      PROVE  Handled' /\ AnswerAccounts'
  BY <1>1 DEF Handled, AnswerAccounts
<1>2. ASSUME UNCHANGED <<phase, wire, todo, failed, code>>, stored \subseteq stored'
      PROVE  Handled' /\ AnswerAccounts'
  BY <1>2 DEF Handled, AnswerAccounts
<1>3. ASSUME NEW e \in Events, Mint(e) PROVE Handled' /\ AnswerAccounts'
  BY <1>2, <1>3 DEF Mint, Submit, collector
<1>4. CASE Idle
  BY <1>2, <1>4 DEF Idle, Get, GetTimesOut, Wait, NoRetry, collector
<1>5. CASE PostBatch
  BY <1>1, <1>5 DEF PostBatch, Request
<1>6. CASE RetryPending
  BY <1>1, <1>6 DEF RetryPending, LoadAndClear, Request, collector, InStep
<1>7. CASE Save \/ SenderDies
  BY <1>1, <1>7 DEF Save, SenderDies, SavePending, SaveFails, collector, InStep
<1>8. CASE Accept
  BY <1>8 DEF Accept, sensor, InStep, Handled, AnswerAccounts
<1>9. CASE Refuse \/ ServerError
  BY <1>9 DEF Refuse, ServerError, Handled, AnswerAccounts
<1>10. CASE Apply \/ ApplyFails
  <2>1. /\ phase' = "handling" /\ UNCHANGED wire /\ phase = "handling"
        /\ todo # <<>> /\ todo' = Tail(todo)
        /\ stored' \cup failed' = stored \cup failed \cup {Head(todo)}
    BY <1>10 DEF Apply, ApplyFails, sensor
  <2>2. ToSet(todo) = {Head(todo)} \cup ToSet(Tail(todo))
    BY <2>1, HeadTailElements DEF TypeOK
  <2> QED
    BY <2>1, <2>2 DEF Handled, AnswerAccounts
<1>11. CASE Answer
  BY <1>11, EmptyElements DEF Answer, sensor, Handled, AnswerAccounts
<1>12. CASE CollectorCrash
  BY <1>1, <1>2, <1>12 DEF CollectorCrash, sensor
<1>13. ASSUME NEW b \in late, ApplyLate(b) \/ FailLate(b) PROVE Handled' /\ AnswerAccounts'
  <2>1. UNCHANGED <<phase, wire, todo, failed, code>> /\ stored \subseteq stored'
    BY <1>13 DEF ApplyLate, FailLate, sensor
  <2> QED
    BY <1>2, <2>1
<1>14. CASE Respond \/ GiveUp
  BY <1>1, <1>14 DEF Respond, GiveUp, Abandon
<1>15. CASE SensorCrash
  BY <1>1, <1>15 DEF SensorCrash, Abandon, collector, InStep
<1>16. CASE UNCHANGED vars
  BY <1>2, <1>16 DEF vars, sensor, collector
<1> QED
  BY <1>3, <1>4, <1>5, <1>6, <1>7, <1>8, <1>9, <1>10, <1>11, <1>12, <1>13,
     <1>14, <1>15, <1>16 DEF Next

\* The batch is at the limit only on its way to be flushed.
LEMMA BatchStep ==
    TypeOK /\ InStep /\ BatchFits /\ FreshBatchFits /\ [Next]_vars
        => BatchFits' /\ FreshBatchFits'
<1> SUFFICES ASSUME TypeOK, InStep, BatchFits, FreshBatchFits, [Next]_vars
             PROVE  BatchFits' /\ FreshBatchFits'
  OBVIOUS
<1>0. /\ Len(batch) \in Nat /\ Len(<<>>) = 0 /\ BatchMax \in Nat /\ BatchMax > 0
  BY Names DEF TypeOK, SensorTypeOK
<1>1. ASSUME UNCHANGED <<batch, wire, fresh, pc>> PROVE BatchFits' /\ FreshBatchFits'
  BY <1>1 DEF BatchFits, FreshBatchFits
<1>2. ASSUME UNCHANGED batch, pc # "flush", pc' \notin {"flush", "post"}
      PROVE  BatchFits' /\ FreshBatchFits'
  BY <1>2 DEF BatchFits, FreshBatchFits
<1>3. ASSUME NEW e \in Events, Mint(e) PROVE BatchFits' /\ FreshBatchFits'
  BY <1>1, <1>3 DEF Mint, Submit
<1>4. CASE Idle
  <2>1. CASE Get
    <3>1. Len(batch') = Len(batch) + 1 /\ pc = "get" /\ pc' = "flush"
      BY <2>1 DEF Get, TypeOK, SensorTypeOK
    <3> QED
      BY <1>0, <3>1 DEF BatchFits, FreshBatchFits
  <2>2. CASE GetTimesOut \/ Wait \/ NoRetry
    BY <1>0, <2>2 DEF GetTimesOut, Wait, NoRetry, BatchFits, FreshBatchFits
  <2> QED
    BY <1>4, <2>1, <2>2 DEF Idle
<1>5. CASE PostBatch
  BY <1>0, <1>5 DEF PostBatch, Flush, BatchFits, FreshBatchFits
<1>6. CASE RetryPending
  BY <1>6 DEF RetryPending, LoadAndClear, BatchFits, FreshBatchFits
<1>7. CASE Save \/ SenderDies \/ Respond \/ GiveUp
  <2>1. UNCHANGED batch /\ pc # "flush" /\ pc' \notin {"flush", "post"}
    BY <1>7 DEF Save, SenderDies, SavePending, SaveFails, Respond, GiveUp, Sent, SendFails, AfterSend
  <2> QED
    BY <1>2, <2>1
<1>8. CASE \/ Accept \/ Refuse \/ Apply \/ ApplyFails \/ Answer \/ ServerError \/ CollectorCrash
           \/ \E b \in late : ApplyLate(b) \/ FailLate(b)
           \/ UNCHANGED vars
  <2>1. UNCHANGED sensor
    BY <1>8 DEF Accept, Refuse, Apply, ApplyFails, Answer, ServerError, CollectorCrash,
                ApplyLate, FailLate, vars
  <2> QED
    BY <1>1, <2>1 DEF sensor
<1>9. CASE SensorCrash
  BY <1>0, <1>9 DEF SensorCrash, Restart, BatchFits, FreshBatchFits
<1> QED
  BY <1>3, <1>4, <1>5, <1>6, <1>7, <1>8, <1>9 DEF Next

-----------------------------------------------------------------------------
(* Conservation *)

\* OnSensor and its next value, spelled out.
LEMMA OnSensorParts ==
    /\ OnSensor = ToSet(queue) \cup ToSet(batch) \cup ToSet(wire) \cup ToSet(Pending)
    /\ OnSensor' = ToSet(queue') \cup ToSet(batch') \cup ToSet(wire') \cup ToSet(Pending')
BY DEF OnSensor

\* The head of the queue only changes hands.
LEMMA GetElements ==
    ASSUME TypeOK, Get
    PROVE  /\ Head(queue) \in Events
           /\ ToSet(queue) = {Head(queue)} \cup ToSet(queue')
           /\ ToSet(batch') = ToSet(batch) \cup {Head(queue)}
<1>1. /\ Head(queue) \in Events
      /\ ToSet(queue) = {Head(queue)} \cup ToSet(Tail(queue))
  BY HeadTailElements DEF Get, TypeOK, SensorTypeOK
<1>2. ToSet(Append(batch, Head(queue))) = ToSet(batch) \cup {Head(queue)}
  BY <1>1, AppendElements DEF TypeOK, SensorTypeOK
<1> QED
  BY <1>1, <1>2 DEF Get

\* What a save leaves out of the spool it puts in exposed.
LEMMA SaveElements ==
    ASSUME TypeOK, InStep, Save \/ SenderDies
    PROVE  /\ wire' = <<>> /\ UNCHANGED <<minted, queue, batch, stored>>
           /\ exposed \subseteq exposed'
           /\ ToSet(wire) \cup ToSet(Pending) \subseteq ToSet(Pending)' \cup exposed'
<1>1. /\ wire' = <<>> /\ UNCHANGED <<minted, queue, batch, stored>> /\ wire # <<>>
      /\ exposed \subseteq exposed' /\ GluedEvents \subseteq exposed'
  BY DEF Save, SenderDies, SavePending, SaveFails, collector, InStep
<1>2. CASE Save
  <2>1. Written(Len(wire), Clean) /\ Clean \in Cuts(Len(wire)) /\ Len(wire) \in 0 .. Len(wire)
    BY <1>2 DEF Save, SavePending, Cuts, TypeOK, SensorTypeOK
  <2> QED
    BY <1>1, <2>1, WrittenKeeps
<1>3. CASE SenderDies
  <2>1. PICK k \in 0 .. Len(wire) - 1 : \E cut \in Cuts(k) : Written(k, cut)
    BY <1>3 DEF SenderDies, SaveFails
  <2>2. k \in 0 .. Len(wire)
    BY DEF TypeOK, SensorTypeOK
  <2>3. ToSet(Pending) \subseteq ToSet(Pending)' \cup GluedEvents
    BY <2>1, <2>2, WrittenKeeps
  <2>4. ToSet(wire) \subseteq ToSet(Pending)' \cup exposed'
    BY <1>3 DEF SenderDies, Unsaved
  <2> QED
    BY <1>1, <2>3, <2>4
<1> QED
  BY <1>2, <1>3

\* A crash takes what was in memory, and from the spool only what it tears.
LEMMA CrashElements ==
    ASSUME TypeOK, SensorCrash
    PROVE  /\ UNCHANGED <<minted, stored>>
           /\ exposed \subseteq exposed'
           /\ OnSensor \subseteq OnSensor' \cup exposed'
<1>1. /\ UNCHANGED <<minted, stored>> /\ exposed \subseteq exposed'
      /\ ToSet(queue) \cup ToSet(batch) \subseteq exposed'
  BY DEF SensorCrash, Restart, Abandon, collector
<1>2. CASE pc = "save"
  <2>1. GluedEvents \subseteq exposed' /\ Unsaved \subseteq exposed'
    BY <1>2 DEF SensorCrash
  <2>2. \E k \in 0 .. Len(wire) : \E cut \in Cuts(k) : Written(k, cut)
    BY <1>2 DEF SensorCrash, Restart
  <2>3. ToSet(Pending) \subseteq ToSet(Pending)' \cup GluedEvents
    BY <2>2, WrittenKeeps
  <2>4. ToSet(wire) \subseteq ToSet(Pending)' \cup exposed'
    BY <2>1 DEF Unsaved
  <2> QED
    BY <1>1, <2>1, <2>3, <2>4, OnSensorParts
<1>3. CASE pc # "save"
  <2>1. ToSet(wire) \subseteq exposed' /\ Pending' = Pending
    BY <1>3 DEF SensorCrash, Restart, Pending
  <2> QED
    BY <1>1, <2>1, OnSensorParts
<1> QED
  BY <1>2, <1>3

\* What leaves the sensor is stored or exposed.
LEMMA ConservationStep ==
    TypeOK /\ InStep /\ AnswerAccounts /\ NoSilentLoss /\ [Next]_vars => NoSilentLoss'
<1> SUFFICES ASSUME TypeOK, InStep, AnswerAccounts, NoSilentLoss, [Next]_vars
             PROVE  NoSilentLoss'
  OBVIOUS
<1>1. ASSUME UNCHANGED minted, stored \subseteq stored', exposed \subseteq exposed',
             OnSensor \subseteq OnSensor' \cup stored' \cup exposed'
      PROVE  NoSilentLoss'
  BY <1>1 DEF NoSilentLoss
<1>2. ASSUME UNCHANGED sensor, stored \subseteq stored', exposed \subseteq exposed'
      PROVE  NoSilentLoss'
  <2>1. Pending' = Pending
    BY <1>2 DEF sensor, Pending
  <2> QED
    BY <1>1, <1>2, <2>1, OnSensorParts DEF sensor
<1>3. ASSUME NEW e \in Events, Mint(e) PROVE NoSilentLoss'
  <2>1. ToSet(queue') = ToSet(queue) \cup {e}
    BY <1>3, AppendElements DEF Mint, Submit, TypeOK, SensorTypeOK
  <2>2. /\ UNCHANGED <<batch, wire, stored, exposed>> /\ minted' = minted \cup {e}
        /\ Pending' = Pending
    BY <1>3 DEF Mint, Submit, collector, Pending
  <2> QED
    BY <2>1, <2>2, OnSensorParts DEF NoSilentLoss
<1>4. CASE Idle
  <2>1. UNCHANGED <<minted, wire, stored, exposed>> /\ Pending' = Pending
    BY <1>4 DEF Idle, Get, GetTimesOut, Wait, NoRetry, collector, Pending
  <2>2. ToSet(queue) \cup ToSet(batch) \subseteq ToSet(queue') \cup ToSet(batch')
    BY <1>4, GetElements DEF Idle, GetTimesOut, Wait, NoRetry
  <2> QED
    BY <1>1, <2>1, <2>2, OnSensorParts
<1>5. CASE PostBatch
  <2>1. /\ UNCHANGED <<minted, queue, stored, exposed>> /\ Pending' = Pending
        /\ wire' = batch /\ wire = <<>>
    BY <1>5 DEF PostBatch, Flush, Request, Pending, InStep
  <2> QED
    BY <1>1, <2>1, OnSensorParts, EmptyElements
<1>6. CASE RetryPending
  <2>1. /\ UNCHANGED <<minted, queue, batch, stored, exposed>>
        /\ wire' = Pending /\ wire = <<>>
    BY <1>6 DEF RetryPending, LoadAndClear, Request, collector, InStep
  <2> QED
    BY <1>1, <2>1, OnSensorParts, EmptyElements
<1>7. CASE Save \/ SenderDies
  BY <1>1, <1>7, SaveElements, OnSensorParts
<1>8. CASE \/ Accept \/ Refuse \/ Apply \/ ApplyFails \/ Answer \/ ServerError \/ CollectorCrash
           \/ \E b \in late : ApplyLate(b) \/ FailLate(b)
           \/ UNCHANGED vars
  <2>1. UNCHANGED <<sensor, exposed>> /\ stored \subseteq stored'
    BY <1>8 DEF Accept, Refuse, Apply, ApplyFails, Answer, ServerError, CollectorCrash,
                ApplyLate, FailLate, vars, collector
  <2> QED
    BY <1>2, <2>1
<1>9. CASE Respond
  <2>1. /\ UNCHANGED <<minted, queue, batch, stored>> /\ Pending' = Pending
        /\ exposed \subseteq exposed'
    BY <1>9 DEF Respond, Sent, Pending
  <2>2. ToSet(wire) \subseteq stored \cup exposed'
    BY <1>9 DEF Respond, AnswerAccounts
  <2> QED
    BY <1>1, <2>1, <2>2, OnSensorParts
<1>10. CASE GiveUp
  <2>1. UNCHANGED <<minted, queue, batch, wire, stored, exposed>> /\ Pending' = Pending
    BY <1>10 DEF GiveUp, SendFails, Abandon, Pending
  <2> QED
    BY <1>1, <2>1, OnSensorParts
<1>11. CASE SensorCrash
  BY <1>1, <1>11, CrashElements
<1> QED
  BY <1>3, <1>4, <1>5, <1>6, <1>7, <1>8, <1>9, <1>10, <1>11 DEF Next

-----------------------------------------------------------------------------
(* Nothing is invented, and nothing comes back *)

\* InFlight and Held and their next values, spelled out.
LEMMA InFlightParts ==
    /\ InFlight = ToSet(todo) \cup UNION {ToSet(b) : b \in late}
    /\ InFlight' = ToSet(todo') \cup UNION {ToSet(b) : b \in late'}
    /\ Held = OnSensor \cup InFlight
    /\ Held' = OnSensor' \cup InFlight'
BY DEF InFlight, Held

\* An abandoned request is in flight still, or gone.
LEMMA AbandonElements ==
    ASSUME Abandon
    PROVE  UNCHANGED stored /\ InFlight' \subseteq InFlight
<1>1. UNCHANGED stored /\ todo' = <<>> /\ late' \subseteq late \cup {todo}
  BY DEF Abandon
<1>2. UNION {ToSet(b) : b \in late'} \subseteq ToSet(todo) \cup UNION {ToSet(b) : b \in late}
  BY <1>1
<1> QED
  BY <1>1, <1>2, InFlightParts, EmptyElements

\* A write brings nothing into the spool but the batch.
LEMMA SpoolTakesOnlyTheWire ==
    ASSUME TypeOK, \E k \in 0 .. Len(wire) : \E cut \in Cuts(k) : Written(k, cut)
    PROVE  ToSet(Pending)' \subseteq ToSet(Pending) \cup ToSet(wire)
<1>1. CASE Pending' = Pending
  BY <1>1
<1>2. CASE Pending' # Pending
  <2>1. PICK m \in Seq(Events) :
          /\ Pending' = spool \o m
          /\ ToSet(m) \subseteq ToSet(wire)
    BY <1>2, WrittenAdds
  <2>2. ToSet(spool \o m) = ToSet(spool) \cup ToSet(m)
    BY ConcatElements DEF TypeOK, SensorTypeOK
  <2>3. ToSet(Pending)' = ToSet(spool \o m)
    BY <2>1
  <2> QED
    BY <2>1, <2>2, <2>3, PendingElements
<1> QED
  BY <1>1, <1>2

\* Saving, whole or torn, is a write.
LEMMA SomeWrite ==
    ASSUME TypeOK, Save \/ SenderDies
    PROVE  \E k \in 0 .. Len(wire) : \E cut \in Cuts(k) : Written(k, cut)
<1>1. Len(wire) \in 0 .. Len(wire) /\ 0 .. Len(wire) - 1 \subseteq 0 .. Len(wire)
  BY DEF TypeOK, SensorTypeOK
<1>2. Clean \in Cuts(Len(wire))
  BY DEF Cuts
<1> QED
  BY <1>1, <1>2 DEF Save, SenderDies, SavePending, SaveFails

\* A step holds or stores nothing it did not hold before, but for what it mints.
LEMMA NothingInvented ==
    ASSUME TypeOK, InStep, [Next]_vars
    PROVE  /\ minted \subseteq minted' /\ minted' \ minted \subseteq Held'
           /\ stored \subseteq stored' /\ stored' \subseteq stored \cup Held
           /\ Held' \subseteq Held \cup (minted' \ minted)
<1> DEFINE Goal == /\ minted \subseteq minted' /\ minted' \ minted \subseteq Held'
                   /\ stored \subseteq stored' /\ stored' \subseteq stored \cup Held
                   /\ Held' \subseteq Held \cup (minted' \ minted)
<1>1. ASSUME UNCHANGED <<minted, stored, todo, late>>, OnSensor' \subseteq OnSensor
      PROVE  Goal
  BY <1>1, InFlightParts
<1>2. ASSUME UNCHANGED sensor
      PROVE  OnSensor' = OnSensor /\ UNCHANGED minted
  BY <1>2, OnSensorParts DEF sensor, Pending
<1>3. ASSUME NEW e \in Events, Mint(e) PROVE Goal
  <2>1. ToSet(queue') = ToSet(queue) \cup {e}
    BY <1>3, AppendElements DEF Mint, Submit, TypeOK, SensorTypeOK
  <2>2. /\ UNCHANGED <<batch, wire, stored, todo, late>> /\ minted' = minted \cup {e}
        /\ e \notin minted /\ Pending' = Pending
    BY <1>3 DEF Mint, Submit, collector, Pending
  <2> QED
    BY <2>1, <2>2, OnSensorParts, InFlightParts
<1>4. CASE Idle
  <2>1. UNCHANGED <<minted, wire, stored, todo, late>> /\ Pending' = Pending
    BY <1>4 DEF Idle, Get, GetTimesOut, Wait, NoRetry, collector, Pending
  <2>2. ToSet(queue') \cup ToSet(batch') \subseteq ToSet(queue) \cup ToSet(batch)
    BY <1>4, GetElements DEF Idle, GetTimesOut, Wait, NoRetry
  <2> QED
    BY <1>1, <2>1, <2>2, OnSensorParts
<1>5. CASE PostBatch
  <2>1. /\ UNCHANGED <<minted, queue, stored, late>> /\ Pending' = Pending
        /\ wire' = batch /\ batch' = <<>> /\ todo' = batch
    BY <1>5 DEF PostBatch, Flush, Request, Pending
  <2> QED
    BY <2>1, OnSensorParts, InFlightParts, EmptyElements
<1>6. CASE RetryPending
  <2>1. /\ UNCHANGED <<minted, queue, batch, stored, late>> /\ wire' = Pending
        /\ todo' = Pending \/ UNCHANGED todo
    BY <1>6 DEF RetryPending, LoadAndClear, Request, collector
  <2>2. Pending' = <<>>
    BY <1>6, Names DEF RetryPending, LoadAndClear, Pending
  <2> QED
    BY <2>1, <2>2, OnSensorParts, InFlightParts, EmptyElements
<1>7. CASE Save \/ SenderDies
  <2>1. /\ UNCHANGED <<minted, queue, batch, stored, todo, late>> /\ wire' = <<>>
    BY <1>7 DEF Save, SenderDies, SavePending, SaveFails, collector
  <2>2. ToSet(Pending)' \subseteq ToSet(Pending) \cup ToSet(wire)
    BY <1>7, SomeWrite, SpoolTakesOnlyTheWire
  <2> QED
    BY <1>1, <2>1, <2>2, OnSensorParts, EmptyElements
<1>8. CASE Accept \/ Refuse \/ Answer \/ ServerError \/ CollectorCrash \/ UNCHANGED vars
  <2>1. /\ UNCHANGED <<sensor, stored>> /\ todo' \in {todo, <<>>} /\ late' \in {late, {}}
    BY <1>8 DEF Accept, Refuse, Answer, ServerError, CollectorCrash, vars, collector
  <2>2. InFlight' \subseteq InFlight
    BY <2>1, InFlightParts, EmptyElements
  <2> QED
    BY <1>2, <2>1, <2>2, InFlightParts
<1>9. CASE Apply \/ ApplyFails
  <2>1. /\ UNCHANGED <<sensor, late>> /\ todo # <<>> /\ todo' = Tail(todo)
        /\ stored \subseteq stored' /\ stored' \subseteq stored \cup {Head(todo)}
    BY <1>9 DEF Apply, ApplyFails
  <2>2. ToSet(todo) = {Head(todo)} \cup ToSet(Tail(todo))
    BY <2>1, HeadTailElements DEF TypeOK
  <2>3. InFlight' \subseteq InFlight /\ stored' \subseteq stored \cup InFlight
    BY <2>1, <2>2, InFlightParts
  <2> QED
    BY <1>2, <2>1, <2>3, InFlightParts
<1>10. ASSUME NEW b \in late, ApplyLate(b) \/ FailLate(b) PROVE Goal
  <2>1. /\ UNCHANGED <<sensor, todo>>
        /\ stored \subseteq stored' /\ stored' \subseteq stored \cup {Head(b)}
        /\ late' \subseteq late \cup {Tail(b)}
    BY <1>10 DEF ApplyLate, FailLate, Rest
  <2>2. ToSet(b) = {Head(b)} \cup ToSet(Tail(b))
    BY HeadTailElements DEF TypeOK
  <2>3. UNION {ToSet(q) : q \in late'} \subseteq UNION {ToSet(q) : q \in late}
    BY <2>1, <2>2
  <2>4. InFlight' \subseteq InFlight /\ stored' \subseteq stored \cup InFlight
    BY <2>1, <2>2, <2>3, InFlightParts
  <2> QED
    BY <1>2, <2>1, <2>4, InFlightParts
<1>11. CASE Respond
  <2>1. /\ UNCHANGED <<minted, queue, batch, stored, todo, late>> /\ Pending' = Pending
        /\ wire' = <<>>
    BY <1>11 DEF Respond, Sent, Pending
  <2> QED
    BY <1>1, <2>1, OnSensorParts, EmptyElements
<1>12. CASE GiveUp
  <2>1. UNCHANGED <<minted, queue, batch, wire>> /\ Pending' = Pending /\ Abandon
    BY <1>12 DEF GiveUp, SendFails, Pending
  <2> QED
    BY <2>1, AbandonElements, OnSensorParts, InFlightParts
<1>13. CASE SensorCrash
  <2>1. UNCHANGED <<minted, stored>> /\ InFlight' \subseteq InFlight
    BY <1>13, AbandonElements, InFlightParts DEF SensorCrash, Restart, collector
  <2>2. queue' = <<>> /\ batch' = <<>> /\ wire' = <<>>
    BY <1>13 DEF SensorCrash, Restart
  <2>3. ToSet(Pending)' \subseteq ToSet(Pending) \cup ToSet(wire)
    BY <1>13, SpoolTakesOnlyTheWire DEF SensorCrash, Restart, Pending
  <2> QED
    BY <2>1, <2>2, <2>3, OnSensorParts, InFlightParts, EmptyElements
<1> QED
  BY <1>3, <1>4, <1>5, <1>6, <1>7, <1>8, <1>9, <1>10, <1>11, <1>12, <1>13 DEF Next

\* So all that is held or stored was minted.
LEMMA MintedStep ==
    TypeOK /\ InStep /\ OnlyMinted /\ [Next]_vars => OnlyMinted'
BY NothingInvented DEF OnlyMinted

-----------------------------------------------------------------------------
(* Each event is held once *)

\* The parts make the whole.
LEMMA DistinctIsHeldOnce == TypeOK /\ Distinct => HeldOnce
<1> SUFFICES ASSUME TypeOK, Distinct PROVE HeldOnce
  OBVIOUS
<1>1. /\ queue \in Seq(Events) /\ batch \in Seq(Events) /\ wire \in Seq(Events)
      /\ Pending \in Seq(Events)
  BY PendingElements DEF TypeOK, SensorTypeOK
<1>2. /\ IsInjective(queue) /\ IsInjective(batch) /\ IsInjective(wire) /\ IsInjective(Pending)
      /\ ToSet(queue) \cap ToSet(batch) = {}
      /\ (ToSet(queue) \cup ToSet(batch)) \cap ToSet(wire) = {}
      /\ (ToSet(queue) \cup ToSet(batch) \cup ToSet(wire)) \cap ToSet(Pending) = {}
  BY DEF Distinct
<1> HIDE DEF Pending
<1> DEFINE qb == queue \o batch
<1> DEFINE qbw == qb \o wire
<1>3. qb \in Seq(Events) /\ ToSet(qb) = ToSet(queue) \cup ToSet(batch) /\ IsInjective(qb)
  BY <1>1, <1>2, ConcatElements, InjectiveConcat
<1> HIDE DEF qb
<1>4. qbw \in Seq(Events) /\ ToSet(qbw) = ToSet(qb) \cup ToSet(wire) /\ IsInjective(qbw)
  BY <1>1, <1>2, <1>3, ConcatElements, InjectiveConcat
<1> HIDE DEF qbw
<1>5. IsInjective(qbw \o Pending)
  BY <1>1, <1>2, <1>3, <1>4, InjectiveConcat
<1> QED
  BY <1>5 DEF HeldOnce, qbw, qb

\* A write repeats nothing in the spool.
LEMMA WrittenDistinct ==
    ASSUME TypeOK, Distinct, \E k \in 0 .. Len(wire) : \E cut \in Cuts(k) : Written(k, cut)
    PROVE  IsInjective(Pending')
<1>1. CASE Pending' = Pending
  BY <1>1 DEF Distinct
<1>2. CASE Pending' # Pending
  <2>1. PICK m \in Seq(Events) :
          /\ Pending' = spool \o m
          /\ ToSet(m) \subseteq ToSet(wire)
          /\ IsInjective(wire) => IsInjective(m)
    BY <1>2, WrittenAdds
  <2>2. /\ spool \in Seq(Events) /\ IsInjective(spool)
        /\ ToSet(spool) \subseteq ToSet(Pending)
    BY PendingElements DEF Distinct, TypeOK, SensorTypeOK
  <2>4. IsInjective(m) /\ ToSet(spool) \cap ToSet(m) = {}
    BY <2>1, <2>2 DEF Distinct
  <2>3. IsInjective(spool \o m)
    BY <2>2, <2>4, InjectiveConcat
  <2> QED
    BY <2>1, <2>3, Zenon
<1> QED
  BY <1>1, <1>2

\* One step per action, each moving events from one place to another.
LEMMA DistinctStep ==
    TypeOK /\ InStep /\ Distinct /\ OnlyMinted /\ [Next]_vars => Distinct'
<1> SUFFICES ASSUME TypeOK, InStep, Distinct, OnlyMinted, [Next]_vars PROVE Distinct'
  OBVIOUS
<1>0. IsInjective(<<>>) /\ ToSet(<<>>) = {}
  BY EmptyInjective, EmptyElements
<1>1. ASSUME UNCHANGED <<queue, batch>>, Pending' = Pending, wire' \in {wire, <<>>}
      PROVE  Distinct'
  BY <1>0, <1>1 DEF Distinct
<1>2. ASSUME NEW e \in Events, Mint(e) PROVE Distinct'
  <2>1. e \notin OnSensor
    BY <1>2, InFlightParts DEF Mint, Submit, OnlyMinted
  <2>2. /\ UNCHANGED <<batch, wire>> /\ Pending' = Pending /\ queue' = Append(queue, e)
    BY <1>2 DEF Mint, Submit, Pending
  <2>3. /\ ToSet(queue') = ToSet(queue) \cup {e}
        /\ IsInjective(queue') <=> IsInjective(queue) /\ e \notin ToSet(queue)
    BY <2>2, AppendElements, InjectiveAppend DEF TypeOK, SensorTypeOK
  <2> QED
    BY <2>1, <2>2, <2>3, OnSensorParts DEF Distinct
<1>3. CASE Get /\ UNCHANGED <<collector, exposed>>
  <2>1. /\ Head(queue) \in Events
        /\ ToSet(queue) = {Head(queue)} \cup ToSet(queue')
        /\ ToSet(batch') = ToSet(batch) \cup {Head(queue)}
    BY <1>3, GetElements
  <2>2. /\ UNCHANGED wire /\ Pending' = Pending /\ queue # <<>>
        /\ queue' = Tail(queue) /\ batch' = Append(batch, Head(queue))
    BY <1>3 DEF Get, Pending
  <2>3. IsInjective(queue') /\ Head(queue) \notin ToSet(queue')
    BY <2>2, InjectiveHeadTail DEF Distinct, TypeOK, SensorTypeOK
  <2>4. IsInjective(batch') <=> IsInjective(batch) /\ Head(queue) \notin ToSet(batch)
    BY <2>1, <2>2, InjectiveAppend DEF TypeOK, SensorTypeOK
  <2>5. IsInjective(batch')
    BY <2>1, <2>4 DEF Distinct
  <2> QED
    BY <2>1, <2>2, <2>3, <2>5 DEF Distinct
<1>4. CASE (GetTimesOut \/ Wait \/ NoRetry) /\ UNCHANGED <<collector, exposed>>
  BY <1>1, <1>4 DEF GetTimesOut, Wait, NoRetry, Pending
<1>5. CASE PostBatch
  <2>1. UNCHANGED queue /\ Pending' = Pending /\ wire' = batch /\ batch' = <<>>
    BY <1>5 DEF PostBatch, Flush, Pending
  <2> QED
    BY <1>0, <2>1 DEF Distinct
<1>6. CASE RetryPending
  <2>1. /\ UNCHANGED <<queue, batch>> /\ wire' = Pending /\ Pending' = <<>>
    BY <1>6, Names DEF RetryPending, LoadAndClear, Pending
  <2> QED
    BY <1>0, <2>1 DEF Distinct
<1>7. CASE Save \/ SenderDies
  <2>1. UNCHANGED <<queue, batch>> /\ wire' = <<>>
    BY <1>7 DEF Save, SenderDies, SavePending, SaveFails
  <2>2. /\ ToSet(Pending)' \subseteq ToSet(Pending) \cup ToSet(wire)
        /\ IsInjective(Pending')
    BY <1>7, SomeWrite, SpoolTakesOnlyTheWire, WrittenDistinct
  <2> QED
    BY <1>0, <2>1, <2>2 DEF Distinct
<1>8. CASE \/ Accept \/ Refuse \/ Apply \/ ApplyFails \/ Answer \/ ServerError \/ CollectorCrash
           \/ \E b \in late : ApplyLate(b) \/ FailLate(b)
           \/ UNCHANGED vars
  <2>1. UNCHANGED sensor
    BY <1>8 DEF Accept, Refuse, Apply, ApplyFails, Answer, ServerError, CollectorCrash,
                ApplyLate, FailLate, vars
  <2> QED
    BY <1>1, <2>1 DEF sensor, Pending
<1>9. CASE Respond \/ GiveUp
  BY <1>1, <1>9 DEF Respond, Sent, GiveUp, SendFails, Pending
<1>10. CASE SensorCrash
  <2>1. queue' = <<>> /\ batch' = <<>> /\ wire' = <<>>
    BY <1>10 DEF SensorCrash, Restart
  <2>2. IsInjective(Pending')
    BY <1>10, WrittenDistinct DEF SensorCrash, Restart, Pending, Distinct
  <2> QED
    BY <1>0, <2>1, <2>2 DEF Distinct
<1> QED
  BY <1>2, <1>3, <1>4, <1>5, <1>6, <1>7, <1>8, <1>9, <1>10 DEF Next, Idle

-----------------------------------------------------------------------------
(* The invariant and what follows from it *)

\* The invariant holds at first.
LEMMA InitInvariant == Init => IInv
<1> SUFFICES ASSUME Init PROVE IInv
  OBVIOUS
<1>0. IsInjective(<<>>) /\ ToSet(<<>>) = {}
  BY EmptyInjective, EmptyElements
<1>1. TypeOK
  BY InitTypes
<1>2. Pending = <<>>
  BY Names DEF Init, SensorInit, Pending
<1>3. Distinct
  BY <1>0, <1>2 DEF Init, SensorInit, Distinct
<1>4. InStep /\ Handled /\ AnswerAccounts
  BY <1>0 DEF Init, SensorInit, InStep, Handled, AnswerAccounts
<1>5. BatchFits /\ FreshBatchFits
  BY Names DEF Init, SensorInit, BatchFits, FreshBatchFits
<1>6. NoSilentLoss
  BY DEF Init, SensorInit, NoSilentLoss
<1>7. OnlyMinted
  BY <1>0, <1>2, InFlightParts, OnSensorParts DEF Init, SensorInit, OnlyMinted
<1> QED
  BY <1>1, <1>3, <1>4, <1>5, <1>6, <1>7 DEF IInv

\* Every step preserves it.
LEMMA StepInvariant == IInv /\ [Next]_vars => IInv'
BY TypeStep, InStepStep, AnswerStep, BatchStep, ConservationStep, MintedStep, DistinctStep
   DEF IInv

\* The strengthening of the properties below that every step preserves.
THEOREM Inductive == Spec => []IInv
BY InitInvariant, StepInvariant, PTL DEF Spec

\* No timeout, lost request, lost or late answer, retry or collector crash loses an
\* event: it stays on the sensor until it is stored, or it met one of the ways to be lost.
THEOREM Conservation == Spec => []NoSilentLoss
<1>1. IInv => NoSilentLoss
  BY DEF IInv
<1> QED
  BY <1>1, Inductive, PTL

\* The queue, the batch, the post and the spool never hold an event twice.
THEOREM Uniqueness == Spec => []HeldOnce
<1>1. IInv => HeldOnce
  BY DistinctIsHeldOnce DEF IInv
<1> QED
  BY <1>1, Inductive, PTL

\* On a 200 every event of the batch is in the database or counted as rejected.
THEOREM Accounting == Spec => []AnswerAccounts
<1>1. IInv => AnswerAccounts
  BY DEF IInv
<1> QED
  BY <1>1, Inductive, PTL

\* A batch of new events never exceeds BATCH_MAX_EVENTS.
THEOREM FlushedInTime == Spec => []FreshBatchFits
<1>1. IInv => FreshBatchFits
  BY DEF IInv
<1> QED
  BY <1>1, Inductive, PTL

-----------------------------------------------------------------------------
(* The ledger *)

\* Where nothing can be lost nothing goes wrong.
Quiet ==
    /\ exposed = {} /\ failed = {} /\ tail = Clean
    /\ phase = "answered" => code = 200

\* No post carries more events than there are.
LEMMA WireFits ==
    ASSUME IInv, IsFiniteSet(Events)
    PROVE  Len(wire) <= Cardinality(Events)
<1>1. /\ wire \in Seq(Events) /\ Len(wire) \in Nat /\ DOMAIN wire = 1 .. Len(wire)
      /\ IsInjective(wire)
  BY DEF IInv, TypeOK, SensorTypeOK, Distinct
<1>2. wire \in [1 .. Len(wire) -> Events]
  BY <1>1
<1>3. wire \in Injection(1 .. Len(wire), Events)
  BY <1>1, <1>2 DEF IsInjective, Injection
<1>4. Cardinality(1 .. Len(wire)) <= Cardinality(Events)
  BY <1>3, FS_Injection
<1>5. Cardinality(1 .. Len(wire)) = Len(wire)
  BY <1>1, FS_Interval, SMTT(30)
<1> QED
  BY <1>4, <1>5

\* Without lossy faults no step refuses, rejects, tears or exposes anything.
LEMMA QuietStep ==
    ASSUME IInv, Quiet, [Next]_vars, ~Lossy, IsFiniteSet(Events)
    PROVE  Quiet'
<1>1. /\ \A f \in Faults : f = "collector_crash"
      /\ Refused = {} /\ Rejected = {} /\ Cardinality(Events) <= CollectorMax
  BY FS_CardinalityType, PipelineAssumption DEF Lossy
<1>2. ASSUME NEW e \in Events, Mint(e) PROVE Quiet'
  BY <1>2 DEF Mint, Submit, collector, Quiet
<1>3. CASE Idle
  BY <1>3 DEF Idle, Get, GetTimesOut, Wait, NoRetry, collector, Quiet
<1>4. CASE PostBatch
  BY <1>4 DEF PostBatch, Flush, Request, Quiet
<1>5. CASE RetryPending
  BY <1>5 DEF RetryPending, LoadAndClear, Request, collector, Quiet
<1>6. CASE Save
  BY <1>6 DEF Save, SavePending, Written, GluedEvents, collector, Quiet
<1>7. CASE Accept
  BY <1>7 DEF Accept, sensor, Quiet
<1>8. ~Refuse
  <2>1. phase = "travelling" => Len(todo) <= CollectorMax
    BY <1>1, WireFits, FS_CardinalityType, PipelineAssumption
       DEF IInv, InStep, TypeOK, SensorTypeOK
  <2> QED
    BY <1>1, <2>1 DEF Refuse, Admissible
<1>9. ~SenderDies /\ ~ServerError /\ ~ApplyFails /\ ~SensorCrash
  BY <1>1 DEF SenderDies, ServerError, ApplyFails, SensorCrash
<1>10. CASE Apply
  BY <1>10 DEF Apply, sensor, Quiet
<1>11. CASE Answer
  BY <1>11 DEF Answer, sensor, Quiet
<1>12. CASE CollectorCrash
  BY <1>12 DEF CollectorCrash, sensor, Quiet
<1>13. ASSUME NEW b \in late, ApplyLate(b) \/ FailLate(b) PROVE Quiet'
  BY <1>13 DEF ApplyLate, FailLate, sensor, Quiet
<1>14. CASE Respond
  BY <1>14 DEF Respond, Sent, Quiet
<1>15. CASE GiveUp
  BY <1>15 DEF GiveUp, SendFails, Abandon, Quiet
<1>16. CASE UNCHANGED vars
  BY <1>16 DEF vars, sensor, collector, Quiet
<1> QED
  BY <1>2, <1>3, <1>4, <1>5, <1>6, <1>7, <1>8, <1>9, <1>10, <1>11, <1>12, <1>13, <1>14,
     <1>15, <1>16 DEF Next

LInv == IInv /\ (~Lossy => Quiet)

\* The initial states agree.
LEMMA LedgerInit == Init => Ledger!Init
<1> SUFFICES ASSUME Init PROVE Ledger!Init
  OBVIOUS
<1>1. Held = {} /\ stored = {} /\ minted = {}
  <2>1. IInv
    BY InitInvariant
  <2> QED
    BY <2>1 DEF IInv, OnlyMinted, Init, SensorInit
<1>2. \A e \in Events : Fate(e) = "unborn"
  BY <1>1 DEF Fate
<1> QED
  BY <1>2 DEF Ledger!Init

\* Every step is one of the ledger or leaves it alone.
LEMMA LedgerStep ==
    ASSUME IsFiniteSet(Events), LInv, LInv', [Next]_vars
    PROVE  Ledger!Next
<1>1. /\ minted \subseteq minted' /\ minted' \ minted \subseteq Held'
      /\ stored \subseteq stored' /\ stored' \subseteq stored \cup Held
      /\ Held' \subseteq Held \cup (minted' \ minted)
      /\ Held \cup stored \subseteq minted
  BY NothingInvented DEF LInv, IInv, OnlyMinted
<1>2. ~Lossy => minted' \subseteq Held' \cup stored'
  <2>1. ~Lossy => ~Lossy'
    BY DEF Lossy
  <2>2. ~Lossy => exposed' = {} /\ NoSilentLoss'
    BY <2>1 DEF LInv, IInv, Quiet
  <2> QED
    BY <2>2, InFlightParts DEF NoSilentLoss
<1>3. ASSUME NEW e \in Events
      PROVE  /\ Fate(e) \in Ledger!Fates /\ Fate(e)' \in Ledger!Fates
             /\ <<Fate(e), Fate(e)'>> \in Ledger!Moves
  <2>1. Fate(e) \in Ledger!Fates /\ Fate(e)' \in Ledger!Fates
    BY DEF Fate, Ledger!Fates
  <2>2. CASE e \in stored
    BY <1>1, <2>1, <2>2 DEF Fate, Ledger!Moves
  <2>3. CASE e \in Held /\ e \notin stored
    <3>1. e \in minted'
      BY <1>1, <2>3
    <3>2. Fate(e)' \in {"held", "stored", "lost"} /\ Fate(e) = "held"
      BY <2>3, <3>1 DEF Fate
    <3>3. ~Lossy => Fate(e)' # "lost"
      BY <1>2, <3>1 DEF Fate
    <3> QED
      BY <2>1, <3>2, <3>3 DEF Ledger!Moves
  <2>4. CASE e \in minted /\ e \notin Held \cup stored
    BY <1>1, <2>1, <2>4 DEF Fate, Ledger!Moves
  <2>5. CASE e \notin minted
    <3>1. Fate(e) = "unborn" /\ Fate(e)' \in {"unborn", "held"}
      BY <1>1, <2>5 DEF Fate
    <3> QED
      BY <2>1, <3>1 DEF Ledger!Moves
  <2> QED
    BY <2>1, <2>2, <2>3, <2>4, <2>5
<1> QED
  BY <1>3 DEF Ledger!Next

\* Sensor, network and collector keep the promise of DeliveryLedger: an event is held
\* from its submission until it is stored for good, and one that is lost stays lost.
\* Without a lossy fault, and with no more events than fit into a batch, none is.
THEOREM Refinement ==
    ASSUME IsFiniteSet(Events)
    PROVE  Spec => KeepsLedger
<1>1. Init => LInv
  <2>1. Init => Quiet
    BY DEF Init, SensorInit, Quiet
  <2> QED
    BY <2>1, InitInvariant DEF LInv
<1>2. LInv /\ [Next]_vars => LInv'
  <2> SUFFICES ASSUME LInv, [Next]_vars PROVE LInv'
    OBVIOUS
  <2>1. IInv'
    BY StepInvariant DEF LInv
  <2>2. ~Lossy' => ~Lossy
    BY DEF Lossy
  <2>3. ~Lossy => Quiet'
    BY QuietStep DEF LInv
  <2> QED
    BY <2>1, <2>2, <2>3 DEF LInv
<1>3. Init => Ledger!Init
  BY LedgerInit
<1>4. LInv /\ LInv' /\ [Next]_vars => Ledger!Next
  BY LedgerStep
<1> QED
  BY <1>1, <1>2, <1>3, <1>4, PTL DEF Spec, KeepsLedger, Ledger!Spec
=============================================================================
