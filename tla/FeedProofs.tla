------------------------------- MODULE FeedProofs -------------------------------
(***************************************************************************)
(* What an export publishes is of the time of its build, for any number of *)
(* exporters, alerts and changes.                                          *)
(***************************************************************************)
EXTENDS Feed, FiniteSetTheorems, TLAPS

-----------------------------------------------------------------------------
(* The newest alerts *)

Rank(P, a) == Cardinality({b \in P : Newer(b, a)})

\* What is in the order of their time is in one order.
LEMMA NewerOrders ==
    /\ \A a \in AlertIds : ~Newer(a, a)
    /\ \A a, b \in AlertIds : a # b => Newer(a, b) \/ Newer(b, a)
    /\ \A a, b, c \in AlertIds : Newer(a, b) /\ Newer(b, c) => Newer(a, c)
<1>1. \A a \in AlertIds : a \in Nat /\ Alert[a].time \in Nat
  BY FeedAssumption
<1> QED
  BY <1>1 DEF Newer

LEMMA RankTyped ==
    ASSUME NEW P \in SUBSET AlertIds, NEW a \in P
    PROVE  /\ IsFiniteSet(P) /\ Cardinality(P) \in Nat
           /\ Rank(P, a) \in 0 .. Cardinality(P) - 1
<1>1. IsFiniteSet(P) /\ Cardinality(P) \in Nat
  BY FeedAssumption, FS_Subset, FS_CardinalityType
<1>2. a \notin {b \in P : Newer(b, a)}
  BY NewerOrders
<1>3. /\ IsFiniteSet(P \ {a}) /\ Cardinality(P \ {a}) = Cardinality(P) - 1
  BY <1>1, FS_RemoveElement
<1>4. {b \in P : Newer(b, a)} \in SUBSET (P \ {a})
  BY <1>2
<1>5. Cardinality({b \in P : Newer(b, a)}) <= Cardinality(P) - 1
  BY <1>3, <1>4, FS_Subset
<1>6. Cardinality({b \in P : Newer(b, a)}) \in Nat
  BY <1>3, <1>4, FS_Subset, FS_CardinalityType
<1> QED
  BY <1>1, <1>5, <1>6 DEF Rank

\* A newer alert has fewer before it.
LEMMA RankIsStrict ==
    ASSUME NEW P \in SUBSET AlertIds, NEW a \in P, NEW b \in P, Newer(b, a)
    PROVE  Rank(P, b) < Rank(P, a)
<1>1. IsFiniteSet(P)
  BY RankTyped
<1> DEFINE before == {c \in P : Newer(c, b)}
<1>2. b \notin before
  BY NewerOrders
<1>3. IsFiniteSet(before) /\ Cardinality(before) \in Nat
  BY <1>1, FS_Subset, FS_CardinalityType
<1>4. IsFiniteSet(before \cup {b}) /\ Cardinality(before \cup {b}) = Cardinality(before) + 1
  BY <1>2, <1>3, FS_AddElement
<1>5. before \cup {b} \in SUBSET {c \in P : Newer(c, a)}
  BY NewerOrders
<1>6. IsFiniteSet({c \in P : Newer(c, a)}) /\ Cardinality({c \in P : Newer(c, a)}) \in Nat
  BY <1>1, FS_Subset, FS_CardinalityType
<1>7. Cardinality(before \cup {b}) <= Cardinality({c \in P : Newer(c, a)})
  BY <1>5, <1>6, FS_Subset
<1> QED
  BY <1>3, <1>4, <1>6, <1>7 DEF Rank

\* The ranks of n alerts are 0 to n - 1.
LEMMA RanksAreAll ==
    ASSUME NEW P \in SUBSET AlertIds, NEW k \in 0 .. Cardinality(P) - 1
    PROVE  \E a \in P : Rank(P, a) = k
<1> DEFINE T == 0 .. Cardinality(P) - 1
           f == [a \in P |-> Rank(P, a)]
<1>1. IsFiniteSet(P) /\ Cardinality(P) \in Nat
  BY FeedAssumption, FS_Subset, FS_CardinalityType
<1>2. IsFiniteSet(T) /\ Cardinality(T) = Cardinality(P)
  BY <1>1, FS_Interval
<1>3. f \in [P -> T]
  BY RankTyped
<1>4. \A a, b \in P : a # b => f[a] # f[b]
  <2> SUFFICES ASSUME NEW a \in P, NEW b \in P, a # b PROVE Rank(P, a) # Rank(P, b)
    OBVIOUS
  <2>1. Rank(P, a) \in Nat /\ Rank(P, b) \in Nat
    BY RankTyped
  <2>2. Newer(a, b) \/ Newer(b, a)
    BY NewerOrders
  <2>3. Rank(P, a) < Rank(P, b) \/ Rank(P, b) < Rank(P, a)
    BY <2>2, RankIsStrict
  <2> QED
    BY <2>1, <2>3
<1>5. f \in Injection(P, T)
  <2> HIDE DEF f, T
  <2> QED
    BY <1>3, <1>4 DEF Injection, IsInjective
<1>6. f \in Surjection(P, T)
  <2> HIDE DEF f, T
  <2> QED
    BY <1>2, <1>5, FS_Injection
<1>7. \E a \in P : f[a] = k
  BY <1>6 DEF Surjection
<1> QED
  BY <1>7

\* Before an alert that is not among the newest there are as many as the limit allows.
LEMMA NewestFillTheLimit ==
    ASSUME NEW a \in Publishable, a \notin Newest
    PROVE  Cardinality({b \in Newest : Newer(b, a)}) = FeedLimit
<1> DEFINE P == Publishable
           L == FeedLimit
           T == 0 .. L - 1
           f == [b \in Newest |-> Rank(P, b)]
<1>0. P \in SUBSET AlertIds /\ L \in Nat
  BY FeedAssumption DEF Publishable
<1>1. Newest = {b \in P : Rank(P, b) < L}
  BY DEF Newest, Rank
<1>2. Rank(P, a) \in 0 .. Cardinality(P) - 1 /\ Cardinality(P) \in Nat /\ IsFiniteSet(P)
  BY <1>0, RankTyped
<1>3. L <= Rank(P, a)
  BY <1>0, <1>1, <1>2
<1> HIDE DEF P, L
<1>4. {b \in Newest : Newer(b, a)} = Newest
  <2> SUFFICES ASSUME NEW b \in Newest PROVE Newer(b, a)
    OBVIOUS
  <2>1. b \in P /\ Rank(P, b) < L /\ Rank(P, b) \in Nat
    BY <1>0, <1>1, RankTyped
  <2>2. a \in P /\ b # a
    BY DEF P
  <2>3. ~Newer(a, b)
    <3> SUFFICES ASSUME Newer(a, b) PROVE FALSE
      OBVIOUS
    <3>1. Rank(P, a) < Rank(P, b)
      BY <1>0, <2>1, <2>2, RankIsStrict
    <3> QED
      BY <1>0, <1>2, <1>3, <2>1, <3>1
  <2> QED
    BY <1>0, <2>1, <2>2, <2>3, NewerOrders
<1>5. IsFiniteSet(Newest)
  BY <1>1, <1>2, FS_Subset
<1>6. f \in [Newest -> T]
  <2>1. \A b \in Newest : Rank(P, b) \in 0 .. L - 1
    <3> SUFFICES ASSUME NEW b \in Newest PROVE Rank(P, b) \in 0 .. L - 1
      OBVIOUS
    <3>1. b \in P /\ Rank(P, b) < L /\ Rank(P, b) \in 0 .. Cardinality(P) - 1
      BY <1>0, <1>1, RankTyped
    <3> QED
      BY <1>0, <3>1
  <2> QED
    BY <2>1
<1>7. \A b, c \in Newest : f[b] = f[c] => b = c
  <2> SUFFICES ASSUME NEW b \in Newest, NEW c \in Newest, b # c PROVE Rank(P, b) # Rank(P, c)
    OBVIOUS
  <2>1. b \in P /\ c \in P /\ Rank(P, b) \in Nat /\ Rank(P, c) \in Nat
    BY <1>0, <1>1, RankTyped
  <2>2. Rank(P, b) < Rank(P, c) \/ Rank(P, c) < Rank(P, b)
    BY <1>0, <2>1, NewerOrders, RankIsStrict
  <2> QED
    BY <2>1, <2>2
<1>8. \A k \in T : \E b \in Newest : f[b] = k
  <2> SUFFICES ASSUME NEW k \in T PROVE \E b \in Newest : Rank(P, b) = k
    OBVIOUS
  <2>1. k \in 0 .. Cardinality(P) - 1 /\ k < L
    BY <1>0, <1>2, <1>3
  <2>2. PICK b \in P : Rank(P, b) = k
    BY <1>0, <2>1, RanksAreAll
  <2> QED
    BY <1>1, <2>1, <2>2
<1>9. ExistsBijection(Newest, T)
  <2> HIDE DEF f, T
  <2>1. f \in Injection(Newest, T) /\ f \in Surjection(Newest, T)
    BY <1>6, <1>7, <1>8 DEF Injection, IsInjective, Surjection
  <2> QED
    BY <2>1 DEF ExistsBijection, Bijection
<1>10. Cardinality(T) = L
  BY <1>0, FS_Interval
<1>11. Cardinality(Newest) = L
  BY <1>5, <1>9, <1>10, FS_Bijection
<1> QED
  BY <1>4, <1>11 DEF L

-----------------------------------------------------------------------------
(* The inductive invariant *)

FormatNames == {"json", "csv", "stix"}

Good(f) == f \in {Null, Empty, Spoilt} \/ (f.indicators \subseteq Row /\ f.alerts \subseteq Item)

Shape ==
    /\ status \in [AlertIds -> Statuses \cup {Null}]
    /\ facts \in [Ips -> SUBSET Facts]
    /\ DOMAIN files = Names /\ \A n \in Names : Good(files[n])
    /\ pc \in [Exporters -> {"idle", "detect", "indicators", "alerts", "open", "write"}]
    /\ changes \in 0 .. MaxChange
    /\ formats \in [Exporters -> Seq(FormatNames)]
    /\ names \in [Exporters -> Seq(Names)]
    /\ indicators \in [Exporters -> SUBSET Row]
    /\ listed \in [Exporters -> SUBSET Item]
    /\ during \in [Exporters -> SUBSET AlertIds]
    /\ throughout \in [Exporters -> SUBSET AlertIds]

Phase(e) ==
    /\ pc[e] = "idle" <=> formats[e] = <<>>
    /\ pc[e] \in {"open", "write"} <=> names[e] # <<>>
    /\ throughout[e] \subseteq during[e]

RowIps(e) == {row.ip : row \in indicators[e]}

\* What a build has read is of its time: between its queries, and when it has both.
HalfBuilt(e) ==
    pc[e] = "alerts" =>
        /\ throughout[e] \subseteq Publishable /\ Publishable \subseteq during[e]
        /\ RowIps(e) \subseteq IpsOf(during[e])
        /\ IpsOf(throughout[e]) \subseteq RowIps(e)

Built(e) ==
    pc[e] \in {"open", "write"} =>
        /\ Ids(listed[e]) \subseteq during[e]
        /\ \A a \in throughout[e] \ Ids(listed[e]) :
              Cardinality({b \in Ids(listed[e]) : Newer(b, a)}) = FeedLimit
        /\ RowIps(e) \subseteq IpsOf(during[e])
        /\ IpsOf(throughout[e]) \subseteq RowIps(e)

IInv == Shape /\ \A e \in Exporters : Phase(e) /\ HalfBuilt(e) /\ Built(e)

-----------------------------------------------------------------------------
(* What is read *)

LEMMA LeastOfTwo ==
    ASSUME NEW m \in Int, NEW n \in Int
    PROVE  Min({m, n}) \in {m, n} /\ Min({m, n}) <= m /\ Min({m, n}) <= n
<1>1. \E x \in {m, n} : \A y \in {m, n} : x <= y
  OBVIOUS
<1>2. Min({m, n}) \in {m, n} /\ \A y \in {m, n} : Min({m, n}) <= y
  BY <1>1 DEF Min
<1> QED
  BY <1>2

LEMMA MostOfThree ==
    ASSUME NEW S \in SUBSET (1 .. 3), S # {}
    PROVE  Max(S) \in S
<1>1. \E x \in S : \A y \in S : x >= y
  <2>1. CASE 3 \in S
    BY <2>1
  <2>2. CASE 3 \notin S /\ 2 \in S
    BY <2>2
  <2>3. CASE 3 \notin S /\ 2 \notin S
    <3>1. \A y \in S : y = 1
      BY <2>3
    <3>2. 1 \in S
      BY <3>1
    <3> QED
      BY <3>1, <3>2
  <2> QED
    BY <2>1, <2>2, <2>3
<1> QED
  BY <1>1 DEF Max

\* However much is known of an address, the confidence in it is from 50 to 100.
LEMMA ConfidenceTyped ==
    ASSUME NEW known
    PROVE  Confidence(known) \in 50 .. 100
<1>1. PICK n \in Int : n = Score(known) /\ n >= 50
  BY DEF Score
<1>2. Min({n, 100}) \in {n, 100} /\ Min({n, 100}) <= n /\ Min({n, 100}) <= 100
  BY LeastOfTwo
<1>3. Confidence(known) = Min({n, 100})
  BY <1>1 DEF Confidence
<1> QED
  BY <1>1, <1>2, <1>3

LEMMA IndicatorsTyped ==
    ASSUME Shape
    PROVE  Indicators \subseteq Row /\ {row.ip : row \in Indicators} = IpsOf(Publishable)
<1>1. ASSUME NEW p \in Publishable
      PROVE  Indicator(FeedRow(Alert[p].ip)) \in Row /\ Indicator(FeedRow(Alert[p].ip)).ip = Alert[p].ip
  <2> DEFINE own == {a \in Publishable : Alert[a].ip = Alert[p].ip}
             ranks == {Alert[a].severity : a \in own}
  <2>1. own \in SUBSET AlertIds /\ p \in own /\ p \in AlertIds
    BY DEF Publishable
  <2>2. Cardinality(own) \in 0 .. Cardinality(AlertIds)
    <3>1. IsFiniteSet(AlertIds)
      BY FeedAssumption
    <3>2. IsFiniteSet(own) /\ Cardinality(own) <= Cardinality(AlertIds)
      BY <2>1, <3>1, FS_Subset
    <3>3. Cardinality(own) \in Nat /\ Cardinality(AlertIds) \in Nat
      BY <3>1, <3>2, FS_CardinalityType
    <3> QED
      BY <3>2, <3>3
  <2>3. Max(ranks) \in MinSeverity .. 3
    <3>1. ranks \in SUBSET (1 .. 3) /\ ranks # {} /\ \A r \in ranks : r >= MinSeverity
      BY <2>1, FeedAssumption DEF Publishable
    <3>2. Max(ranks) \in ranks
      BY <3>1, MostOfThree
    <3> QED
      BY <3>1, <3>2, FeedAssumption
  <2>4. {Alert[a].type : a \in own} \in SUBSET {Alert[a].type : a \in AlertIds}
    BY <2>1
  <2>5. Alert[p].ip \in Ips
    BY <2>1 DEF Ips
  <2>6. FeedRow(Alert[p].ip) =
            [ip |-> Alert[p].ip, alert_count |-> Cardinality(own),
             alert_types |-> {Alert[a].type : a \in own}, severity |-> Max(ranks),
             known |-> facts[Alert[p].ip]]
    BY DEF FeedRow
  <2> HIDE DEF own, ranks
  <2>7. Indicator(FeedRow(Alert[p].ip)) =
            [ip |-> Alert[p].ip, alert_count |-> Cardinality(own),
             alert_types |-> {Alert[a].type : a \in own}, severity |-> Max(ranks),
             confidence |-> Confidence(facts[Alert[p].ip])]
    BY <2>6 DEF Indicator
  <2>8. Confidence(facts[Alert[p].ip]) \in 50 .. 100
    BY ConfidenceTyped
  <2> QED
    BY <2>2, <2>3, <2>4, <2>5, <2>7, <2>8, SMTT(30) DEF Row
<1> QED
  BY <1>1 DEF Indicators, IpsOf

LEMMA ListedTyped ==
    ASSUME Shape
    PROVE  Listed \subseteq Item /\ Ids(Listed) = Newest /\ Newest \subseteq Publishable
<1>1. Newest \subseteq Publishable
  BY DEF Newest
<1>2. ASSUME NEW a \in Newest
      PROVE  [id |-> a, status |-> status[a], scored |-> "abuse_score" \in facts[Alert[a].ip]] \in Item
  BY <1>1 DEF Publishable, Item
<1>3. Listed \subseteq Item
  BY <1>2 DEF Listed
<1>4. Ids(Listed) = Newest
  <2> DEFINE item(a) == [id |-> a, status |-> status[a], scored |-> "abuse_score" \in facts[Alert[a].ip]]
  <2>1. \A a : item(a).id = a
    OBVIOUS
  <2>2. Ids(Listed) = {item(a).id : a \in Newest}
    BY Zenon DEF Listed, Ids
  <2> QED
    BY <2>1, <2>2
<1> QED
  BY <1>1, <1>3, <1>4

-----------------------------------------------------------------------------
(* Every step *)

LEMMA Initially == Init => IInv
<1> SUFFICES ASSUME Init PROVE IInv
  OBVIOUS
<1>1. status \in [AlertIds -> Statuses \cup {Null}] /\ facts \in [Ips -> SUBSET Facts]
  BY FeedAssumption DEF Init
<1>2. DOMAIN files = Names /\ \A n \in Names : Good(files[n])
  BY DEF Init, Good
<1>3. /\ pc \in [Exporters -> {"idle", "detect", "indicators", "alerts", "open", "write"}]
      /\ changes \in 0 .. MaxChange
  BY FeedAssumption DEF Init
<1>4. /\ formats \in [Exporters -> Seq(FormatNames)]
      /\ names \in [Exporters -> Seq(Names)]
      /\ indicators \in [Exporters -> SUBSET Row]
      /\ listed \in [Exporters -> SUBSET Item]
      /\ during \in [Exporters -> SUBSET AlertIds]
      /\ throughout \in [Exporters -> SUBSET AlertIds]
  BY DEF Init
<1>5. ASSUME NEW e \in Exporters PROVE Phase(e) /\ HalfBuilt(e) /\ Built(e)
  BY DEF Init, Phase, HalfBuilt, Built
<1> QED
  BY <1>1, <1>2, <1>3, <1>4, <1>5 DEF IInv, Shape

\* A step that leaves an exporter alone leaves what it has, if no alert becomes publishable.
LEMMA LeftAlone ==
    ASSUME Shape, NEW e \in Exporters, Phase(e), HalfBuilt(e), Built(e),
           pc'[e] = pc[e], formats'[e] = formats[e], names'[e] = names[e],
           indicators'[e] = indicators[e], listed'[e] = listed[e],
           \/ Publishable' = Publishable /\ during'[e] = during[e] /\ throughout'[e] = throughout[e]
           \/ Watched(Publishable')
    PROVE  Phase(e)' /\ HalfBuilt(e)' /\ Built(e)'
<1>1. /\ during[e] \subseteq during'[e]
      /\ throughout'[e] \subseteq throughout[e]
      /\ pc[e] # "alerts" => during'[e] = during[e] /\ throughout'[e] = throughout[e]
      /\ pc[e] = "alerts" /\ HalfBuilt(e) =>
             throughout'[e] \subseteq Publishable' /\ Publishable' \subseteq during'[e]
      /\ throughout'[e] \subseteq during'[e]
  BY DEF Watched, HalfBuilt, Phase
<1>2. RowIps(e)' = RowIps(e) /\ Ids(listed[e])' = Ids(listed[e])
  BY DEF RowIps, Ids
<1>3. Phase(e)'
  BY <1>1 DEF Phase
<1>4. HalfBuilt(e)'
  BY <1>1, <1>2 DEF HalfBuilt, IpsOf
<1>5. Built(e)'
  BY <1>1, <1>2 DEF Built, IpsOf
<1> QED
  BY <1>3, <1>4, <1>5

LEMMA WatchedTyped ==
    ASSUME Shape, Watched(Publishable')
    PROVE  /\ during' \in [Exporters -> SUBSET AlertIds]
           /\ throughout' \in [Exporters -> SUBSET AlertIds]
<1>1. Publishable' \subseteq AlertIds
  BY DEF Publishable
<1> QED
  BY <1>1 DEF Watched, Shape

\* What an operator, the collector or the enricher changes.
LEMMA TablesKeep ==
    IInv /\ ((\E a \in AlertIds, s \in Statuses : SetStatus(a, s)) \/
             (\E ip \in Ips, fact \in Facts : Learn(ip, fact))) => IInv'
<1> SUFFICES ASSUME IInv,
                    (\E a \in AlertIds, s \in Statuses : SetStatus(a, s)) \/
                    (\E ip \in Ips, fact \in Facts : Learn(ip, fact))
             PROVE  IInv'
  OBVIOUS
<1>0. Shape
  BY DEF IInv
<1>1. UNCHANGED <<files, pc, formats, indicators, listed, names>>
  BY DEF SetStatus, Learn, export
<1>2. changes' \in 0 .. MaxChange
  <2>1. changes < MaxChange /\ changes' = changes + 1
    BY DEF SetStatus, Learn
  <2> QED
    BY <1>0, <2>1, FeedAssumption DEF Shape
<1>3. CASE \E a \in AlertIds, s \in Statuses : SetStatus(a, s)
  <2>1. status' \in [AlertIds -> Statuses \cup {Null}] /\ facts' = facts /\ Watched(Publishable')
    BY <1>0, <1>3 DEF SetStatus, Shape
  <2>2. Shape'
    BY <1>0, <1>1, <1>2, <2>1, WatchedTyped DEF Shape, Good
  <2> QED
    BY <1>0, <1>1, <2>1, <2>2, LeftAlone DEF IInv
<1>4. CASE \E ip \in Ips, fact \in Facts : Learn(ip, fact)
  <2>1. status' = status /\ UNCHANGED <<during, throughout>>
    BY <1>4 DEF Learn, history
  <2>2. facts' \in [Ips -> SUBSET Facts]
    BY <1>0, <1>4 DEF Learn, Shape, SymDiff
  <2>3. Publishable' = Publishable
    BY <2>1 DEF Publishable
  <2>4. Shape'
    BY <1>0, <1>1, <1>2, <2>1, <2>2 DEF Shape, Good
  <2> QED
    BY <1>0, <1>1, <2>1, <2>3, <2>4, LeftAlone DEF IInv
<1> QED
  BY <1>3, <1>4

\* A step of an exporter is a matter between it and the tables.
LEMMA OthersKeep ==
    ASSUME IInv, NEW e \in Exporters, Shape', Phase(e)', HalfBuilt(e)', Built(e)',
           \A x \in Exporters \ {e} :
               /\ pc'[x] = pc[x] /\ formats'[x] = formats[x] /\ names'[x] = names[x]
               /\ indicators'[x] = indicators[x] /\ listed'[x] = listed[x]
               /\ \/ Publishable' = Publishable /\ during'[x] = during[x] /\ throughout'[x] = throughout[x]
                  \/ Watched(Publishable')
    PROVE  IInv'
<1>1. ASSUME NEW x \in Exporters PROVE Phase(x)' /\ HalfBuilt(x)' /\ Built(x)'
  <2>1. CASE x = e
    BY <2>1
  <2>2. CASE x # e
    BY <2>2, LeftAlone DEF IInv
  <2> QED
    BY <2>1, <2>2
<1> QED
  BY <1>1 DEF IInv

LEMMA BeginKeeps ==
    ASSUME IInv, NEW e \in Exporters, Begin(e) \/ Command(e)
    PROVE  IInv'
<1>0. Shape
  BY DEF IInv
<1>1. PICK f \in Seq(FormatNames) : formats' = [formats EXCEPT ![e] = f] /\ f # <<>>
  <2>1. Formats \in Seq(FormatNames) /\ Formats # <<>>
    BY DEF Formats, FormatNames
  <2>2. \A wanted \in Requests : wanted \in Seq(FormatNames) /\ wanted # <<>>
    <3>1. /\ <<"json">> \in Seq(FormatNames) /\ <<"csv">> \in Seq(FormatNames)
          /\ <<"stix">> \in Seq(FormatNames)
          /\ <<"json">> # <<>> /\ <<"csv">> # <<>> /\ <<"stix">> # <<>>
      BY DEF FormatNames
    <3> QED
      BY <2>1, <3>1, FeedAssumption
  <2> QED
    BY <2>1, <2>2 DEF Begin, Command
<1>2. PICK p \in {"detect", "indicators"} : pc' = [pc EXCEPT ![e] = p]
  BY DEF Begin, Command
<1>3. UNCHANGED <<tables, files, indicators, listed, names, history>>
  BY DEF Begin, Command
<1>4. changes' \in 0 .. MaxChange
  BY <1>0, FeedAssumption DEF Begin, Command, Shape
<1>5. Publishable' = Publishable
  BY <1>3 DEF tables, Publishable
<1>6. Shape'
  BY <1>0, <1>1, <1>2, <1>3, <1>4 DEF Shape, Good, tables, history
<1>7. pc[e] = "idle" /\ names[e] = <<>>
  BY DEF Begin, Command, IInv, Phase
<1>8. pc'[e] = p /\ formats'[e] = f /\ names'[e] = <<>> /\ throughout'[e] \subseteq during'[e]
  BY <1>0, <1>1, <1>2, <1>3, <1>7 DEF Shape, history, IInv, Phase
<1>9. Phase(e)' /\ HalfBuilt(e)' /\ Built(e)'
  BY <1>1, <1>8 DEF Phase, HalfBuilt, Built
<1> QED
  BY <1>0, <1>1, <1>2, <1>3, <1>5, <1>6, <1>9, OthersKeep DEF Shape, history

LEMMA DetectKeeps ==
    ASSUME IInv, NEW e \in Exporters,
           NEW raised \in SUBSET {a \in AlertIds : status[a] = Null}, Detect(e, raised)
    PROVE  IInv'
<1>0. Shape
  BY DEF IInv
<1>1. /\ pc[e] = "detect" /\ pc' = [pc EXCEPT ![e] = "indicators"]
      /\ Watched(Publishable')
      /\ UNCHANGED <<facts, files, formats, indicators, listed, names, changes>>
  BY DEF Detect
<1>2. status' \in [AlertIds -> Statuses \cup {Null}]
  BY <1>0 DEF Detect, Shape, Statuses
<1>3. Shape'
  BY <1>0, <1>1, <1>2, WatchedTyped DEF Shape, Good
<1>4. pc'[e] = "indicators" /\ during'[e] = during[e] /\ throughout'[e] = throughout[e]
  BY <1>0, <1>1 DEF Shape, Watched
<1>5. Phase(e)' /\ HalfBuilt(e)' /\ Built(e)'
  BY <1>1, <1>4 DEF Phase, HalfBuilt, Built, IInv
<1> QED
  BY <1>0, <1>1, <1>3, <1>5, OthersKeep DEF Shape

\* The first query of a build, from which its history begins.
LEMMA ReadIndicatorsKeeps ==
    ASSUME IInv, NEW e \in Exporters, ReadIndicators(e)
    PROVE  IInv'
<1>0. Shape
  BY DEF IInv
<1>1. /\ pc[e] = "indicators" /\ pc' = [pc EXCEPT ![e] = "alerts"]
      /\ indicators' = [indicators EXCEPT ![e] = Indicators]
      /\ during' = [during EXCEPT ![e] = Publishable]
      /\ throughout' = [throughout EXCEPT ![e] = Publishable]
      /\ UNCHANGED <<status, facts, files, formats, listed, names, changes>>
  BY DEF ReadIndicators, tables
<1>2. Publishable' = Publishable
  BY <1>1 DEF Publishable
<1>3. Indicators \subseteq Row /\ {row.ip : row \in Indicators} = IpsOf(Publishable)
  BY <1>0, IndicatorsTyped
<1>4. Publishable \subseteq AlertIds
  BY DEF Publishable
<1>5. Shape'
  BY <1>0, <1>1, <1>3, <1>4 DEF Shape, Good
<1>6. /\ pc'[e] = "alerts" /\ indicators'[e] = Indicators
      /\ during'[e] = Publishable /\ throughout'[e] = Publishable
  BY <1>0, <1>1 DEF Shape
<1>7. Phase(e)' /\ Built(e)'
  BY <1>1, <1>6 DEF Phase, Built, IInv
<1>8. HalfBuilt(e)'
  BY <1>2, <1>3, <1>6 DEF HalfBuilt, RowIps, IpsOf
<1> QED
  BY <1>0, <1>1, <1>2, <1>5, <1>7, <1>8, OthersKeep DEF Shape

\* The second, whose limit the newest fill.
LEMMA ReadAlertsKeeps ==
    ASSUME IInv, NEW e \in Exporters, ReadAlerts(e)
    PROVE  IInv'
<1>0. Shape /\ Phase(e) /\ HalfBuilt(e)
  BY DEF IInv
<1>1. /\ pc[e] = "alerts" /\ pc' = [pc EXCEPT ![e] = "open"]
      /\ listed' = [listed EXCEPT ![e] = Listed]
      /\ names' = [names EXCEPT ![e] = NamesOf(Head(formats[e]))]
      /\ UNCHANGED <<status, facts, files, formats, indicators, changes, during, throughout>>
  BY DEF ReadAlerts, tables, history
<1>2. Publishable' = Publishable
  BY <1>1 DEF Publishable
<1>3. Listed \subseteq Item /\ Ids(Listed) = Newest /\ Newest \subseteq Publishable
  BY <1>0, ListedTyped
<1>4. PICK n \in Seq(Names) : n = NamesOf(Head(formats[e])) /\ n # <<>>
  <2>1. Head(formats[e]) \in FormatNames
    BY <1>0, <1>1 DEF Phase, Shape
  <2>2. /\ <<"threat_feed.json">> \in Seq(Names) /\ <<"threat_feed.json">> # <<>>
        /\ <<"indicators.csv", "alerts.csv">> \in Seq(Names) /\ <<"indicators.csv", "alerts.csv">> # <<>>
        /\ <<"threat_feed_stix.json">> \in Seq(Names) /\ <<"threat_feed_stix.json">> # <<>>
    BY DEF Names
  <2>3. NamesOf(Head(formats[e])) \in
            {<<"threat_feed.json">>, <<"indicators.csv", "alerts.csv">>, <<"threat_feed_stix.json">>}
    BY <2>1 DEF NamesOf, FormatNames
  <2> QED
    BY <2>2, <2>3
<1>5. Shape'
  BY <1>0, <1>1, <1>3, <1>4 DEF Shape, Good
<1>6. pc'[e] = "open" /\ listed'[e] = Listed /\ names'[e] = n
  BY <1>0, <1>1, <1>4 DEF Shape
<1>7. Phase(e)' /\ HalfBuilt(e)'
  BY <1>0, <1>1, <1>4, <1>6 DEF Phase, HalfBuilt
<1>8. Built(e)'
  <2>1. Newest \subseteq during[e]
    BY <1>0, <1>1, <1>3 DEF HalfBuilt
  <2>2. \A a \in throughout[e] \ Newest : Cardinality({b \in Newest : Newer(b, a)}) = FeedLimit
    BY <1>0, <1>1, NewestFillTheLimit DEF HalfBuilt
  <2>3. /\ Ids(listed[e])' = Newest /\ RowIps(e)' = RowIps(e)
        /\ during'[e] = during[e] /\ throughout'[e] = throughout[e]
    BY <1>1, <1>3, <1>6 DEF Ids, RowIps
  <2>4. RowIps(e) \subseteq IpsOf(during[e]) /\ IpsOf(throughout[e]) \subseteq RowIps(e)
    BY <1>0, <1>1 DEF HalfBuilt
  <2> QED
    BY <2>1, <2>2, <2>3, <2>4 DEF Built, IpsOf
<1> QED
  BY <1>0, <1>1, <1>2, <1>5, <1>7, <1>8, OthersKeep DEF Shape

LEMMA OpenKeeps ==
    ASSUME IInv, NEW e \in Exporters, Open(e)
    PROVE  IInv'
<1>0. Shape /\ Phase(e) /\ Built(e)
  BY DEF IInv
<1>1. /\ pc[e] = "open" /\ pc' = [pc EXCEPT ![e] = "write"]
      /\ files' = [files EXCEPT ![Head(names[e])] = Empty]
      /\ UNCHANGED <<status, facts, formats, indicators, listed, names, changes, during, throughout>>
  BY DEF Open, tables, history
<1>2. Publishable' = Publishable
  BY <1>1 DEF Publishable
<1>3. DOMAIN files' = Names /\ \A n \in Names : Good(files'[n])
  BY <1>0, <1>1 DEF Shape, Good
<1>4. Shape'
  BY <1>0, <1>1, <1>3 DEF Shape, Good
<1>5. pc'[e] = "write"
  BY <1>0, <1>1 DEF Shape
<1>6. Phase(e)' /\ HalfBuilt(e)' /\ Built(e)'
  BY <1>0, <1>1, <1>5 DEF Phase, HalfBuilt, Built, RowIps, IpsOf, Ids
<1> QED
  BY <1>0, <1>1, <1>2, <1>4, <1>6, OthersKeep DEF Shape

LEMMA WriteKeeps ==
    ASSUME IInv, NEW e \in Exporters, Write(e)
    PROVE  IInv'
<1>0. Shape /\ Phase(e) /\ Built(e)
  BY DEF IInv
<1> DEFINE more == Tail(names[e]) # <<>>
           last == Len(formats[e]) = 1
<1>1. /\ pc[e] = "write"
      /\ names' = [names EXCEPT ![e] = Tail(names[e])]
      /\ formats' = [formats EXCEPT ![e] = IF more THEN formats[e] ELSE Tail(formats[e])]
      /\ pc' = [pc EXCEPT ![e] = IF more THEN "open" ELSE IF last THEN "idle" ELSE "indicators"]
      /\ UNCHANGED <<status, facts, changes>>
  BY <1>0 DEF Write, tables, Shape
<1>2. /\ more => UNCHANGED <<indicators, listed, during, throughout>>
      /\ ~more => /\ indicators' = [indicators EXCEPT ![e] = {}]
                  /\ listed' = [listed EXCEPT ![e] = {}]
                  /\ during' = [during EXCEPT ![e] = {}]
                  /\ throughout' = [throughout EXCEPT ![e] = {}]
  BY DEF Write, history
<1>3. Publishable' = Publishable
  BY <1>1 DEF Publishable
<1>4. /\ names[e] \in Seq(Names) /\ names[e] # <<>> /\ Tail(names[e]) \in Seq(Names)
      /\ Head(names[e]) \in Names
      /\ formats[e] \in Seq(FormatNames) /\ formats[e] # <<>> /\ Tail(formats[e]) \in Seq(FormatNames)
      /\ Tail(formats[e]) = <<>> <=> Len(formats[e]) = 1
  <2>1. names[e] \in Seq(Names) /\ names[e] # <<>>
    BY <1>0, <1>1 DEF Phase, Shape
  <2>2. formats[e] \in Seq(FormatNames) /\ formats[e] # <<>>
    BY <1>0, <1>1 DEF Phase, Shape
  <2>3. Tail(names[e]) \in Seq(Names) /\ Head(names[e]) \in Names
    BY <2>1
  <2>4. Tail(formats[e]) \in Seq(FormatNames) /\ Len(Tail(formats[e])) = Len(formats[e]) - 1
    BY <2>2
  <2>5. Tail(formats[e]) = <<>> <=> Len(Tail(formats[e])) = 0
    <3>1. PICK rest \in Seq(FormatNames) : rest = Tail(formats[e])
      BY <2>4
    <3>2. rest = <<>> <=> Len(rest) = 0
      OBVIOUS
    <3> QED
      BY <3>1, <3>2
  <2>6. Len(formats[e]) \in Nat
    BY <2>2
  <2> QED
    BY <2>1, <2>2, <2>3, <2>4, <2>5, <2>6
<1>5. \A n \in Names : Good(Content(n, indicators[e], listed[e]))
  <2>1. indicators[e] \subseteq Row /\ listed[e] \subseteq Item
    BY <1>0 DEF Shape
  <2> QED
    BY <2>1 DEF Content, JsonFeed, CsvFile, StixBundle, Good, Names
<1>6. PICK f : files' = [files EXCEPT ![Head(names[e])] = f] /\ Good(f)
  <2>1. PICK f \in {Content(Head(names[e]), indicators[e], listed[e]), Spoilt} :
             files' = [files EXCEPT ![Head(names[e])] = f]
    BY DEF Write
  <2> QED
    BY <1>4, <1>5, <2>1 DEF Good
<1>7. DOMAIN files' = Names /\ \A n \in Names : Good(files'[n])
  BY <1>0, <1>6 DEF Shape
<1> HIDE DEF more, last
<1>8. Shape'
  <2>1. names' \in [Exporters -> Seq(Names)] /\ formats' \in [Exporters -> Seq(FormatNames)]
    BY <1>0, <1>1, <1>4 DEF Shape
  <2>2. pc' \in [Exporters -> {"idle", "detect", "indicators", "alerts", "open", "write"}]
    BY <1>0, <1>1 DEF Shape
  <2>3. /\ indicators' \in [Exporters -> SUBSET Row]
        /\ listed' \in [Exporters -> SUBSET Item]
        /\ during' \in [Exporters -> SUBSET AlertIds]
        /\ throughout' \in [Exporters -> SUBSET AlertIds]
    BY <1>0, <1>2 DEF Shape
  <2> QED
    BY <1>0, <1>1, <1>7, <2>1, <2>2, <2>3 DEF Shape, Good
<1>9. /\ names'[e] = Tail(names[e])
      /\ formats'[e] = IF more THEN formats[e] ELSE Tail(formats[e])
      /\ pc'[e] = IF more THEN "open" ELSE IF last THEN "idle" ELSE "indicators"
      /\ ~more => during'[e] = {} /\ throughout'[e] = {}
  BY <1>0, <1>1, <1>2 DEF Shape
<1>10. Phase(e)'
  <2>1. CASE more
    <3>1. names'[e] # <<>> /\ formats'[e] # <<>> /\ pc'[e] = "open"
      BY <1>4, <1>9, <2>1 DEF more
    <3> QED
      BY <1>0, <1>2, <2>1, <3>1 DEF Phase
  <2>2. CASE ~more
    <3>1. names'[e] = <<>> /\ formats'[e] = Tail(formats[e])
      BY <1>9, <2>2 DEF more
    <3>2. pc'[e] = IF formats'[e] = <<>> THEN "idle" ELSE "indicators"
      BY <1>4, <1>9, <2>2, <3>1 DEF last
    <3> QED
      BY <1>9, <2>2, <3>1, <3>2 DEF Phase
  <2> QED
    BY <2>1, <2>2
<1>11. HalfBuilt(e)' /\ Built(e)'
  <2>1. CASE more
    <3>1. pc'[e] = "open" /\ UNCHANGED <<indicators, listed, during, throughout>>
      BY <1>2, <1>9, <2>1
    <3>2. Built(e)'
      BY <1>0, <1>1, <3>1 DEF Built, RowIps, IpsOf, Ids
    <3> QED
      BY <3>1, <3>2 DEF HalfBuilt
  <2>2. CASE ~more
    BY <1>9, <2>2 DEF HalfBuilt, Built
  <2> QED
    BY <2>1, <2>2
<1>12. \A x \in Exporters \ {e} :
           /\ pc'[x] = pc[x] /\ formats'[x] = formats[x] /\ names'[x] = names[x]
           /\ indicators'[x] = indicators[x] /\ listed'[x] = listed[x]
           /\ during'[x] = during[x] /\ throughout'[x] = throughout[x]
  BY <1>0, <1>1, <1>2 DEF Shape
<1> QED
  BY <1>3, <1>8, <1>10, <1>11, <1>12, OthersKeep

LEMMA EndsKeeps ==
    ASSUME IInv, NEW e \in Exporters, Ends(e)
    PROVE  IInv'
<1>0. Shape
  BY DEF IInv
<1>1. /\ pc' = [pc EXCEPT ![e] = "idle"]
      /\ formats' = [formats EXCEPT ![e] = <<>>]
      /\ names' = [names EXCEPT ![e] = <<>>]
      /\ indicators' = [indicators EXCEPT ![e] = {}]
      /\ listed' = [listed EXCEPT ![e] = {}]
      /\ during' = [during EXCEPT ![e] = {}]
      /\ throughout' = [throughout EXCEPT ![e] = {}]
      /\ UNCHANGED <<status, facts, files>>
      /\ changes < MaxChange /\ changes' = changes + 1
  BY DEF Ends, tables
<1>2. changes' \in 0 .. MaxChange
  BY <1>0, <1>1, FeedAssumption DEF Shape
<1>3. Publishable' = Publishable
  BY <1>1 DEF Publishable
<1>4. Shape'
  BY <1>0, <1>1, <1>2 DEF Shape, Good
<1>5. Phase(e)' /\ HalfBuilt(e)' /\ Built(e)'
  BY <1>0, <1>1 DEF Shape, Phase, HalfBuilt, Built
<1> QED
  BY <1>0, <1>1, <1>3, <1>4, <1>5, OthersKeep DEF Shape

LEMMA Inductive == IInv /\ [Next]_vars => IInv'
<1> SUFFICES ASSUME IInv, [Next]_vars PROVE IInv'
  OBVIOUS
<1>1. ASSUME NEW e \in Exporters, Step(e) \/ Command(e) \/ Ends(e) PROVE IInv'
  BY <1>1, BeginKeeps, DetectKeeps, ReadIndicatorsKeeps, ReadAlertsKeeps, OpenKeeps, WriteKeeps,
     EndsKeeps DEF Step
<1>2. CASE UNCHANGED vars
  <2>1. UNCHANGED <<status, facts, files, pc, formats, indicators, listed, names, changes, during, throughout>>
    BY <1>2 DEF vars, tables, export, history
  <2>2. Publishable' = Publishable
    BY <2>1 DEF Publishable
  <2>3. Shape'
    BY <2>1 DEF IInv, Shape, Good
  <2> QED
    BY <2>1, <2>2, <2>3, LeftAlone DEF IInv
<1> QED
  BY <1>1, <1>2, TablesKeep DEF Next

\* What is read and written has the shape and the range that the feed promises.
THEOREM TypeCorrect == Spec => []TypeOK
<1>1. IInv => TypeOK
  BY DEF IInv, Shape, Phase, TypeOK, Good
<1> QED
  BY <1>1, Initially, Inductive, PTL DEF Spec

\* A build publishes nothing that was not publishable while it ran, and leaves out nothing that
\* was so all the while, unless as many newer alerts as the limit allows take its place.
THEOREM BuildsAreOfTheirTime == Spec => []BuildIsOfItsTime
<1>1. IInv => BuildIsOfItsTime
  BY DEF IInv, Built, RowIps, BuildIsOfItsTime
<1> QED
  BY <1>1, Initially, Inductive, PTL DEF Spec
=============================================================================
