----------------------------- MODULE AlertsProofs -----------------------------
(***************************************************************************)
(* What the alert engine keeps to whatever happens beside it: types,       *)
(* evidence and rows that are never rewritten, for any set of events, any  *)
(* number of engines with any rules, any thresholds and any operators; and *)
(* the cooldown, but for what comes up between its check and the insert.   *)
(***************************************************************************)
EXTENDS Alerts, FiniteSetTheorems, WellFoundedInduction, TLAPS

-----------------------------------------------------------------------------
(* The greatest of some timestamps, and images of finite sets *)

\* Of the elements of T, one has nothing above it: the sets of what is above an
\* element are well-founded under strict inclusion.
LEMMA Greatest ==
    ASSUME NEW n \in Nat, NEW T \in SUBSET (0 .. n), T # {}
    PROVE  /\ Max(T) \in T
           /\ \A t \in T : Max(T) >= t
<1> DEFINE Above(t) == {x \in T : x > t}
           Family == {Above(t) : t \in T}
<1>1. IsFiniteSet(T)
  <2>1. IsFiniteSet(0 .. n)
    BY FS_Interval, 0 \in Int, n \in Int
  <2> QED
    BY <2>1, FS_Subset
<1>2. IsWellFoundedOn(StrictSubsetOrdering(T), FiniteSubsetsOf(T))
  BY FS_StrictSubsetOrderingWellFounded
<1>3. Family \subseteq FiniteSubsetsOf(T) /\ Family # {}
  <2>1. FiniteSubsetsOf(T) = SUBSET T
    BY <1>1, FS_FiniteSubsetsOfFinite
  <2>2. \A t \in T : Above(t) \in SUBSET T
    OBVIOUS
  <2>3. Family \subseteq SUBSET T /\ Family # {}
    BY <2>2
  <2> QED
    BY <2>1, <2>3
<1>4. PICK A \in Family : \A B \in Family : <<B, A>> \notin StrictSubsetOrdering(T)
  <2> HIDE DEF Family
  <2> QED
    BY <1>2, <1>3, WFMin
<1>5. PICK m \in T : A = Above(m)
  BY <1>4
<1>6. ASSUME NEW t \in T PROVE m >= t
  <2> SUFFICES ASSUME t > m PROVE FALSE
    OBVIOUS
  <2>0. /\ T \subseteq Int
        /\ t \in Above(m) /\ t \notin Above(t)
    OBVIOUS
  <2>1. Above(t) \subseteq A /\ Above(t) # A
    <3>1. \A x \in T : x > t => x > m
      BY <2>0
    <3> QED
      BY <2>0, <3>1, <1>5
  <2>2. <<Above(t), A>> \in StrictSubsetOrdering(T)
    BY <2>1, <1>5 DEF StrictSubsetOrdering
  <2> QED
    BY <2>2, <1>4
<1> QED
  BY <1>6 DEF Max

\* A function takes a finite set to a finite set.
LEMMA ImageOfFinite ==
    ASSUME NEW S, IsFiniteSet(S), NEW f
    PROVE  IsFiniteSet({f[x] : x \in S})
<1> DEFINE T == {f[x] : x \in S}
           h == [x \in S |-> f[x]]
<1>1. h \in Surjection(S, T)
  BY DEF Surjection
<1> HIDE DEF h, T
<1>2. IsFiniteSet(T)
  BY <1>1, FS_Surjection
<1> QED
  BY <1>2 DEF T

\* The nodes and the users of some stored events are finitely many.
LEMMA FiniteParts ==
    ASSUME NEW S \in SUBSET Events
    PROVE  /\ IsFiniteSet(S)
           /\ IsFiniteSet({Event[e].node : e \in S})
           /\ IsFiniteSet({Event[e].user : e \in S})
<1>1. IsFiniteSet(S)
  BY AlertsAssumption, FS_Subset
<1> DEFINE node == [e \in S |-> Event[e].node]
           user == [e \in S |-> Event[e].user]
<1>2. IsFiniteSet({node[e] : e \in S}) /\ IsFiniteSet({user[e] : e \in S})
  <2> HIDE DEF node, user
  <2> QED
    BY <1>1, ImageOfFinite
<1>3. /\ {node[e] : e \in S} = {Event[e].node : e \in S}
      /\ {user[e] : e \in S} = {Event[e].user : e \in S}
  OBVIOUS
<1> QED
  BY <1>1, <1>2, <1>3

\* The last timestamp of some stored events is one of theirs, and none is later.
LEMMA LastTsOfStored ==
    ASSUME TypeOK, NEW S \in SUBSET Stored, S # {}
    PROVE  /\ LastTs(S) \in Time
           /\ \E e \in S : log[e] = LastTs(S)
           /\ \A e \in S : log[e] <= LastTs(S)
<1> DEFINE T == {log[e] : e \in S}
<1>1. T \in SUBSET (0 .. MaxTime) /\ T # {} /\ MaxTime \in Nat
  BY AlertsAssumption DEF TypeOK, Stored, Time
<1>2. Max(T) \in T /\ \A t \in T : Max(T) >= t
  <2> HIDE DEF T
  <2> QED
    BY <1>1, Greatest
<1>3. LastTs(S) = Max(T)
  BY DEF LastTs
<1> QED
  BY <1>1, <1>2, <1>3 DEF Time

\* Events of one address are below their last timestamp, so what is counted among
\* them is counted in what their finding can rest on.
LEMMA Counted ==
    ASSUME TypeOK, NEW ip, NEW S \in SUBSET From(Stored, ip), S # {}
    PROVE  /\ S \subseteq Basis(ip, LastTs(S))
           /\ IsFiniteSet(Basis(ip, LastTs(S)))
           /\ Cardinality({Event[e].node : e \in S})
                  <= Cardinality({Event[e].node : e \in Basis(ip, LastTs(S))})
           /\ LastTs(S) \in Time
           /\ \E e \in Stored : log[e] = LastTs(S)
<1> PICK B : B = Basis(ip, LastTs(S))
  OBVIOUS
<1>1. S \in SUBSET Stored
  BY DEF From
<1>2. /\ LastTs(S) \in Time
      /\ \E e \in S : log[e] = LastTs(S)
      /\ \A e \in S : log[e] <= LastTs(S)
  BY <1>1, LastTsOfStored
<1>3. S \subseteq B
  BY <1>2 DEF Basis
<1>4. B \in SUBSET Events /\ S \in SUBSET Events
  BY <1>1 DEF Basis, From, Stored
<1>5. IsFiniteSet(B) /\ IsFiniteSet({Event[e].node : e \in B})
  BY <1>4, FiniteParts
<1>6. {Event[e].node : e \in S} \in SUBSET {Event[e].node : e \in B}
  BY <1>3
<1>7. Cardinality({Event[e].node : e \in S}) <= Cardinality({Event[e].node : e \in B})
  BY <1>5, <1>6, FS_Subset
<1> QED
  BY <1>1, <1>2, <1>3, <1>5, <1>7

-----------------------------------------------------------------------------
(* Every rule returns findings that the event log backs *)

LEMMA BruteForceBacked ==
    ASSUME TypeOK, "brute_force" \in Enabled,
           NEW from \in Int, NEW f \in BruteForce(from)
    PROVE  IsFinding(f) /\ Backed(f.id, f.ip, f.time)
<1>1. PICK ip \in Ips, S \in SUBSET Stored, severity \in {2, 3} :
          /\ S = From(OfType(Seen(from), {"login_attempt"}), ip)
          /\ S # {} /\ Cardinality(S) >= BruteForceThreshold
          /\ f = Finding("brute_force", ip, <<Bucket(LastTs(S))>>, ip, LastTs(S), severity)
  BY DEF BruteForce, From, OfType, Seen
<1>2. PICK B : B = Basis(ip, LastTs(S))
  OBVIOUS
<1>3. /\ S \subseteq B /\ IsFiniteSet(B) /\ LastTs(S) \in Time
      /\ \E e \in Stored : log[e] = LastTs(S)
  <2>1. S \in SUBSET From(Stored, ip)
    BY <1>1 DEF From, OfType
  <2>2. S # {}
    BY <1>1
  <2>3. /\ S \subseteq Basis(ip, LastTs(S)) /\ IsFiniteSet(Basis(ip, LastTs(S)))
        /\ LastTs(S) \in Time /\ \E e \in Stored : log[e] = LastTs(S)
    BY <2>1, <2>2, Counted
  <2> QED
    BY <1>2, <2>3
<1>4. PICK A : A = OfType(B, {"login_attempt"})
  OBVIOUS
<1>5. Cardinality(A) >= BruteForceThreshold
  <2>1. S \in SUBSET A /\ A \in SUBSET B
    BY <1>1, <1>3, <1>4 DEF OfType, From
  <2>2. IsFiniteSet(A)
    BY <1>3, <2>1, FS_Subset
  <2>3. /\ Cardinality(S) <= Cardinality(A)
        /\ Cardinality(S) \in Nat /\ Cardinality(A) \in Nat
    BY <2>1, <2>2, FS_Subset, FS_CardinalityType
  <2> QED
    BY <2>3, <1>1, AlertsAssumption
<1>6. /\ IsFinding(f)
      /\ f.id = <<"brute_force", ip, <<Bucket(LastTs(S))>>>> /\ f.ip = ip /\ f.time = LastTs(S)
  <2>1. /\ f = Finding("brute_force", ip, <<Bucket(LastTs(S))>>, ip, LastTs(S), severity)
        /\ LastTs(S) \in Time /\ severity \in 1 .. 3
    BY <1>1, <1>3
  <2> QED
    BY <2>1 DEF IsFinding, Finding
<1>7. Backed(f.id, f.ip, f.time)
  BY <1>2, <1>3, <1>4, <1>5, <1>6 DEF Backed
<1> QED
  BY <1>6, <1>7

LEMMA CredentialSprayBacked ==
    ASSUME TypeOK, "credential_spray" \in Enabled,
           NEW from \in Int, NEW f \in CredentialSpray(from)
    PROVE  IsFinding(f) /\ Backed(f.id, f.ip, f.time)
<1>1. PICK ip \in Ips, S \in SUBSET Stored :
          /\ S = {e \in From(OfType(Seen(from), {"login_attempt", "login_success"}), ip) :
                     Event[e].user # Null}
          /\ S # {} /\ Cardinality({Event[e].user : e \in S}) >= CredentialSprayThreshold
          /\ f = Finding("credential_spray", ip, <<Bucket(LastTs(S))>>, ip, LastTs(S), 2)
  BY DEF CredentialSpray, From, OfType, Seen
<1>2. PICK B : B = Basis(ip, LastTs(S))
  OBVIOUS
<1>3. /\ S \subseteq B /\ IsFiniteSet(B) /\ LastTs(S) \in Time
      /\ \E e \in Stored : log[e] = LastTs(S)
  <2>1. S \in SUBSET From(Stored, ip)
    BY <1>1 DEF From, OfType
  <2>2. S # {}
    BY <1>1
  <2>3. LastTs(S) \in Time /\ \E e \in Stored : log[e] = LastTs(S)
    BY <2>1, <2>2, Counted
  <2>4. \A e \in S : log[e] <= LastTs(S)
    BY <2>2, LastTsOfStored
  <2>5. S \subseteq B
    BY <1>2, <2>1, <2>4 DEF Basis
  <2>6. B \in SUBSET Events
    BY <1>2 DEF Basis, From, Stored
  <2> QED
    BY <2>3, <2>5, <2>6, FiniteParts
<1>4. PICK U : U = {Event[e].user : e \in B} \ {Null}
  OBVIOUS
<1>5. Cardinality(U) >= CredentialSprayThreshold
  <2>1. PICK V : V = {Event[e].user : e \in S}
    OBVIOUS
  <2>2. V \in SUBSET U
    BY <1>1, <1>3, <1>4, <2>1
  <2>3. IsFiniteSet(U)
    <3>1. B \in SUBSET Events
      BY <1>2 DEF Basis, From, Stored
    <3>2. IsFiniteSet({Event[e].user : e \in B})
      BY <3>1, FiniteParts
    <3>3. U \in SUBSET {Event[e].user : e \in B}
      BY <1>4
    <3> QED
      BY <3>2, <3>3, FS_Subset
  <2>4. Cardinality(V) <= Cardinality(U) /\ Cardinality(V) \in Nat /\ Cardinality(U) \in Nat
    BY <2>2, <2>3, FS_Subset, FS_CardinalityType
  <2>5. Cardinality(V) >= CredentialSprayThreshold
    BY <1>1, <2>1
  <2> QED
    BY <2>4, <2>5, AlertsAssumption
<1>6. /\ IsFinding(f)
      /\ f.id = <<"credential_spray", ip, <<Bucket(LastTs(S))>>>> /\ f.ip = ip /\ f.time = LastTs(S)
  <2>1. /\ f = Finding("credential_spray", ip, <<Bucket(LastTs(S))>>, ip, LastTs(S), 2)
        /\ LastTs(S) \in Time /\ 2 \in 1 .. 3
    BY <1>1, <1>3
  <2> QED
    BY <2>1 DEF IsFinding, Finding
<1>7. Backed(f.id, f.ip, f.time)
  BY <1>2, <1>3, <1>4, <1>5, <1>6 DEF Backed
<1> QED
  BY <1>6, <1>7

LEMMA MultiNodeScanBacked ==
    ASSUME TypeOK, "multi_node_scan" \in Enabled,
           NEW from \in Int, NEW f \in MultiNodeScan(from)
    PROVE  IsFinding(f) /\ Backed(f.id, f.ip, f.time)
<1>1. PICK ip \in Ips :
          /\ From(Seen(from), ip) # {}
          /\ Cardinality({Event[e].node : e \in From(Seen(from), ip)}) >= MultiNodeScanThreshold
          /\ f = Finding("multi_node_scan", ip,
                         <<Cardinality({Event[e].node : e \in From(Seen(from), ip)}),
                           Bucket(LastTs(From(Seen(from), ip)))>>,
                         ip, LastTs(From(Seen(from), ip)),
                         IF Cardinality({Event[e].node : e \in From(Seen(from), ip)}) = 2
                         THEN 2 ELSE 3)
  BY DEF MultiNodeScan
<1>2. PICK S \in SUBSET Stored : S = From(Seen(from), ip)
  BY DEF From, Seen
<1>3. PICK B : B = Basis(ip, LastTs(S))
  OBVIOUS
<1>4. PICK c, d : c = Cardinality({Event[e].node : e \in S})
              /\ d = Cardinality({Event[e].node : e \in B})
  OBVIOUS
<1>5. PICK severity \in {2, 3} : severity = IF c = 2 THEN 2 ELSE 3
  OBVIOUS
<1>6. /\ S # {} /\ c >= MultiNodeScanThreshold
      /\ f = Finding("multi_node_scan", ip, <<c, Bucket(LastTs(S))>>, ip, LastTs(S), severity)
  BY <1>1, <1>2, <1>4, <1>5, Zenon
<1>7. /\ LastTs(S) \in Time /\ \E e \in Stored : log[e] = LastTs(S)
      /\ Cardinality({Event[e].node : e \in S}) <= Cardinality({Event[e].node : e \in B})
  <2>1. S \in SUBSET From(Stored, ip)
    BY <1>2 DEF From
  <2>2. S # {}
    BY <1>6
  <2>3. /\ LastTs(S) \in Time /\ \E e \in Stored : log[e] = LastTs(S)
        /\ Cardinality({Event[e].node : e \in S})
               <= Cardinality({Event[e].node : e \in Basis(ip, LastTs(S))})
    BY <2>1, <2>2, Counted
  <2> QED
    BY <1>3, <2>3
<1>8. c \in Nat /\ d \in Nat
  <2>1. S \in SUBSET Events /\ B \in SUBSET Events
    BY <1>3 DEF Basis, From, Stored
  <2>2. IsFiniteSet({Event[e].node : e \in S}) /\ IsFiniteSet({Event[e].node : e \in B})
    BY <2>1, FiniteParts
  <2> QED
    BY <2>2, <1>4, FS_CardinalityType
<1>9. d >= MultiNodeScanThreshold /\ c \in 0 .. d
  BY <1>4, <1>6, <1>7, <1>8, AlertsAssumption, SMTT(30)
<1>10. /\ IsFinding(f)
       /\ f.id = <<"multi_node_scan", ip, <<c, Bucket(LastTs(S))>>>>
       /\ f.ip = ip /\ f.time = LastTs(S)
  <2>1. /\ f = Finding("multi_node_scan", ip, <<c, Bucket(LastTs(S))>>, ip, LastTs(S), severity)
        /\ LastTs(S) \in Time /\ severity \in 1 .. 3
    BY <1>6, <1>7
  <2> QED
    BY <2>1 DEF IsFinding, Finding
<1>11. Backed(f.id, f.ip, f.time)
  <2>1. f.id[1] = "multi_node_scan" /\ f.id[3][1] = c
    BY <1>10
  <2>2. \E e \in Stored : log[e] = f.time
    BY <1>7, <1>10
  <2>3. Cardinality({Event[e].node : e \in Basis(f.ip, f.time)}) = d
    BY <1>3, <1>4, <1>10
  <2> QED
    BY <1>9, <2>1, <2>2, <2>3 DEF Backed
<1> QED
  BY <1>10, <1>11

\* The rules that are about one event rest on that event.
LEMMA OneEventBacked ==
    ASSUME TypeOK, NEW from \in Int, NEW f,
           \/ "suspicious_command" \in Enabled /\ f \in SuspiciousCommand(from)
           \/ "malware_staging" \in Enabled /\ f \in MalwareStaging(from)
    PROVE  IsFinding(f) /\ Backed(f.id, f.ip, f.time)
<1>1. PICK e \in Stored, rule \in Enabled, severity \in 1 .. 3 :
          /\ rule \in {"suspicious_command", "malware_staging"}
          /\ Event[e].ip # Null
          /\ f = Finding(rule, e, <<>>, Event[e].ip, log[e], severity)
  <2>1. CASE "suspicious_command" \in Enabled /\ f \in SuspiciousCommand(from)
    <3>1. PICK e \in OfType(Seen(from), {"command"}) :
              /\ Event[e].ip # Null /\ Event[e].risk > 0
              /\ f = Finding("suspicious_command", e, <<>>, Event[e].ip, log[e], Event[e].risk)
      BY <2>1 DEF SuspiciousCommand
    <3>2. e \in Stored /\ e \in Events
      BY DEF OfType, Seen, Stored
    <3>3. Event[e].risk \in 1 .. 3
      BY <3>1, <3>2, AlertsAssumption
    <3> QED
      BY <2>1, <3>1, <3>2, <3>3
  <2>2. CASE "malware_staging" \in Enabled /\ f \in MalwareStaging(from)
    BY <2>2 DEF MalwareStaging, OfType, Seen
  <2> QED
    BY <2>1, <2>2
<1>2. /\ f.id = <<rule, e, <<>>>> /\ f.ip = Event[e].ip
      /\ f.time = log[e] /\ f.severity = severity
  BY <1>1 DEF Finding
<1>3. f.ip \in Ips /\ f.time \in Time
  BY <1>1, <1>2 DEF Ips, Stored, TypeOK
<1>4. e \in Basis(f.ip, f.time)
  BY <1>2, <1>3 DEF Basis, From, Time
<1>5. IsFinding(f)
  BY <1>1, <1>2, <1>3 DEF IsFinding
<1>6. Backed(f.id, f.ip, f.time)
  BY <1>1, <1>2, <1>4 DEF Backed
<1> QED
  BY <1>5, <1>6

LEMMA HighRiskBacked ==
    ASSUME TypeOK, "high_risk_ip" \in Enabled,
           NEW from \in Int, NEW f \in HighRisk(from)
    PROVE  IsFinding(f) /\ Backed(f.id, f.ip, f.time)
<1>0. PICK ip \in Ips :
          /\ reputation[ip] # Null
          /\ \E band : f = Finding("high_risk_ip", ip, band, ip, reputation[ip].updated, 3)
  BY DEF HighRisk
<1>1. PICK band : f = Finding("high_risk_ip", ip, band, ip, reputation[ip].updated, 3)
  BY <1>0
<1>2. reputation[ip].updated \in Time
  BY <1>0 DEF TypeOK
<1>3. /\ f.id = <<"high_risk_ip", ip, band>> /\ f.ip = ip
      /\ f.time = reputation[ip].updated /\ f.severity = 3
  BY <1>1 DEF Finding
<1>4. IsFinding(f)
  BY <1>1, <1>2, <1>3 DEF IsFinding
<1>5. Backed(f.id, f.ip, f.time)
  BY <1>3 DEF Backed
<1> QED
  BY <1>4, <1>5

LEMMA PostAuthBacked ==
    ASSUME TypeOK, "post_auth_activity" \in Enabled,
           NEW from \in Int, NEW f \in PostAuthActivity(from)
    PROVE  IsFinding(f) /\ Backed(f.id, f.ip, f.time)
<1>1. PICK l \in OfType(Stored, {"login_success"}), C \in SUBSET Stored :
          /\ Event[l].ip # Null
          /\ C = {e \in OfType(Seen(from), {"command"}) : Event[e].session = Event[l].session}
          /\ C # {}
          /\ \E n : f = Finding("post_auth_activity", Event[l].session, n, Event[l].ip, LastTs(C), 3)
  BY DEF PostAuthActivity, OfType, Seen
<1> PICK count : f = Finding("post_auth_activity", Event[l].session, count, Event[l].ip, LastTs(C), 3)
  BY <1>1
<1>2. LastTs(C) \in Time /\ \E e \in Stored : log[e] = LastTs(C)
  BY <1>1, LastTsOfStored
<1>3. Event[l].ip \in Ips
  BY <1>1 DEF Ips, OfType, Stored
<1>4. /\ IsFinding(f)
      /\ f.id = <<"post_auth_activity", Event[l].session, count>>
      /\ f.ip = Event[l].ip /\ f.time = LastTs(C)
  <2>1. /\ f = Finding("post_auth_activity", Event[l].session, count, Event[l].ip, LastTs(C), 3)
        /\ LastTs(C) \in Time /\ 3 \in 1 .. 3
    BY <1>2
  <2> QED
    BY <1>3, <2>1 DEF IsFinding, Finding
<1>5. /\ InSession(Event[l].session, "login_success") # {}
      /\ InSession(Event[l].session, "command") # {}
  BY <1>1 DEF InSession, OfType, Seen
<1>6. Backed(f.id, f.ip, f.time)
  <2>1. f.id[1] = "post_auth_activity" /\ f.id[2] = Event[l].session
    BY <1>4
  <2>2. \E e \in Stored : log[e] = f.time
    BY <1>2, <1>4
  <2> QED
    BY <1>5, <2>1, <2>2 DEF Backed
<1> QED
  BY <1>4, <1>6

LEMMA EnabledOnes ==
    ASSUME TypeOK
    PROVE  /\ Enabled \subseteq Rules
           /\ \A g \in DOMAIN enabled :
                  /\ g \in Engines
                  /\ enabled[g] \in Seq(Enabled) /\ enabled[g] # <<>>
<1>1. enabled \in Deployments
  BY DEF TypeOK
<1>2. \A g \in DOMAIN enabled :
          g \in Engines /\ enabled[g] \in Seq(Rules) /\ enabled[g] # <<>>
  BY <1>1, AlertsAssumption
<1>3. Enabled \subseteq Rules
  BY <1>2 DEF Enabled, ToSet
<1>4. ASSUME NEW g \in DOMAIN enabled PROVE enabled[g] \in Seq(Enabled)
  <2>1. PICK list \in Seq(Rules) : list = enabled[g]
    BY <1>2
  <2>2. \A i \in 1 .. Len(list) : list[i] \in Enabled
    BY <2>1 DEF Enabled, ToSet
  <2> QED
    BY <2>1, <2>2
<1> QED
  BY <1>2, <1>3, <1>4

LEMMA RuleBacked ==
    ASSUME TypeOK, NEW r \in Enabled, NEW from \in Int, NEW f \in Rule(r, from)
    PROVE  IsFinding(f) /\ Backed(f.id, f.ip, f.time)
<1>1. r \in Rules
  BY EnabledOnes
<1> QED
  BY <1>1, BruteForceBacked, CredentialSprayBacked, MultiNodeScanBacked, OneEventBacked,
     HighRiskBacked, PostAuthBacked DEF Rule, Rules

-----------------------------------------------------------------------------
(* What is backed stays backed: nothing leaves the event log *)

LogGrows == \A e \in Stored : e \in Stored' /\ log'[e] = log[e]

LEMMA BackedStays ==
    ASSUME TypeOK, TypeOK', LogGrows
    PROVE  \A id, ip, time : Backed(id, ip, time) => Backed(id, ip, time)'
<1> SUFFICES ASSUME NEW id, NEW ip, NEW time, Backed(id, ip, time)
             PROVE  Backed(id, ip, time)'
  OBVIOUS
<1>1. PICK B, C : B = Basis(ip, time) /\ C = Basis(ip, time)'
  OBVIOUS
<1>2. B \subseteq C /\ C \subseteq Events
  BY <1>1 DEF LogGrows, Basis, From, Stored
<1>3. IsFiniteSet(C)
  BY <1>2, FiniteParts
<1>4. id[1] = "brute_force" => Cardinality(OfType(C, {"login_attempt"})) >= BruteForceThreshold
  <2> SUFFICES ASSUME id[1] = "brute_force"
               PROVE  Cardinality(OfType(C, {"login_attempt"})) >= BruteForceThreshold
    OBVIOUS
  <2>1. PICK S, T : S = OfType(B, {"login_attempt"}) /\ T = OfType(C, {"login_attempt"})
    OBVIOUS
  <2>2. Cardinality(S) >= BruteForceThreshold
    BY <1>1, <2>1 DEF Backed
  <2>3. S \in SUBSET T /\ T \in SUBSET C
    BY <1>2, <2>1 DEF OfType
  <2>4. IsFiniteSet(T)
    BY <1>3, <2>3, FS_Subset
  <2>5. Cardinality(S) <= Cardinality(T) /\ Cardinality(S) \in Nat /\ Cardinality(T) \in Nat
    BY <2>3, <2>4, FS_Subset, FS_CardinalityType
  <2> QED
    BY <2>1, <2>2, <2>5, AlertsAssumption
<1>5. id[1] = "credential_spray" =>
          Cardinality({Event[e].user : e \in C} \ {Null}) >= CredentialSprayThreshold
  <2> SUFFICES ASSUME id[1] = "credential_spray"
               PROVE  Cardinality({Event[e].user : e \in C} \ {Null}) >= CredentialSprayThreshold
    OBVIOUS
  <2>1. PICK S, T : S = {Event[e].user : e \in B} \ {Null} /\ T = {Event[e].user : e \in C} \ {Null}
    OBVIOUS
  <2>2. Cardinality(S) >= CredentialSprayThreshold
    BY <1>1, <2>1 DEF Backed
  <2>3. S \in SUBSET T /\ T \in SUBSET {Event[e].user : e \in C}
    BY <1>2, <2>1
  <2>4. IsFiniteSet(T)
    <3>1. IsFiniteSet({Event[e].user : e \in C})
      BY <1>2, FiniteParts
    <3> QED
      BY <2>3, <3>1, FS_Subset
  <2>5. Cardinality(S) <= Cardinality(T) /\ Cardinality(S) \in Nat /\ Cardinality(T) \in Nat
    BY <2>3, <2>4, FS_Subset, FS_CardinalityType
  <2>6. Cardinality(T) >= CredentialSprayThreshold
    BY <2>2, <2>5, AlertsAssumption
  <2> QED
    BY <2>1, <2>6
<1>6. id[1] = "multi_node_scan" =>
          /\ Cardinality({Event[e].node : e \in C}) >= MultiNodeScanThreshold
          /\ id[3][1] \in 0 .. Cardinality({Event[e].node : e \in C})
  <2> SUFFICES ASSUME id[1] = "multi_node_scan"
               PROVE  /\ Cardinality({Event[e].node : e \in C}) >= MultiNodeScanThreshold
                      /\ id[3][1] \in 0 .. Cardinality({Event[e].node : e \in C})
    OBVIOUS
  <2>1. PICK S, T : S = {Event[e].node : e \in B} /\ T = {Event[e].node : e \in C}
    OBVIOUS
  <2>2. Cardinality(S) >= MultiNodeScanThreshold /\ id[3][1] \in 0 .. Cardinality(S)
    BY <1>1, <2>1 DEF Backed
  <2>3. S \in SUBSET T
    BY <1>2, <2>1
  <2>4. IsFiniteSet(T)
    BY <1>2, <2>1, FiniteParts
  <2>5. Cardinality(S) <= Cardinality(T) /\ Cardinality(S) \in Nat /\ Cardinality(T) \in Nat
    BY <2>3, <2>4, FS_Subset, FS_CardinalityType
  <2>6. Cardinality(T) >= MultiNodeScanThreshold /\ id[3][1] \in 0 .. Cardinality(T)
    BY <2>2, <2>5, AlertsAssumption, SMTT(30)
  <2> QED
    BY <2>1, <2>6
<1>7. id[1] \in {"suspicious_command", "malware_staging"} => id[2] \in C
  BY <1>1, <1>2 DEF Backed
<1>8. id[1] = "post_auth_activity" =>
          InSession(id[2], "login_success")' # {} /\ InSession(id[2], "command")' # {}
  BY DEF Backed, InSession, OfType, LogGrows
<1>9. id[1] # "high_risk_ip" => \E e \in Stored' : log'[e] = time
  BY DEF Backed, LogGrows
<1> QED
  BY <1>1, <1>4, <1>5, <1>6, <1>7, <1>8, <1>9 DEF Backed

-----------------------------------------------------------------------------
(* The types *)

\* The rules a pass has left are enabled ones, and so is the one it runs.
LEMMA RulesLeft ==
    ASSUME TypeOK, NEW g \in Engines, pc[g] = "evaluate"
    PROVE  /\ Head(rules[g]) \in Enabled
           /\ Tail(rules[g]) \in Seq(Enabled)
           /\ Tail(rules[g]) # <<>> <=> Len(rules[g]) # 1
<1>1. PICK r \in Seq(Enabled) : r = rules[g] /\ r # <<>>
  BY DEF TypeOK
<1>2. Len(r) \in Nat /\ Len(r) # 0
  BY <1>1
<1>3. Head(r) \in Enabled /\ Tail(r) \in Seq(Enabled)
  BY <1>1
<1>4. Len(Tail(r)) = Len(r) - 1
  BY <1>1
<1>5. PICK t \in Seq(Enabled) : t = Tail(r)
  BY <1>3
<1>6. t # <<>> <=> Len(t) # 0
  OBVIOUS
<1>7. t # <<>> <=> Len(r) # 1
  BY <1>2, <1>4, <1>5, <1>6
<1> QED
  BY <1>1, <1>3, <1>5, <1>7

LEMMA WindowStartType == TypeOK => WindowStart \in Int
<1> SUFFICES ASSUME TypeOK PROVE WindowStart \in Int
  OBVIOUS
<1>1. Window \in Int /\ MaxTime \in Int
  BY AlertsAssumption
<1>2. Stored # {} => LastTs(Stored) \in Time
  BY LastTsOfStored
<1>3. now \in Time
  BY DEF TypeOK
<1>4. PICK t \in Time : t = IF Stored = {} THEN now ELSE LastTs(Stored)
  BY <1>2, <1>3
<1> QED
  BY <1>1, <1>4 DEF WindowStart, Time

LEMMA TypeInit == Init => TypeOK
<1> SUFFICES ASSUME Init PROVE TypeOK
  OBVIOUS
<1>1. 0 \in Time /\ 0 \in 0 .. MaxFailure
  BY AlertsAssumption DEF Time
<1>2. DOMAIN alerts = {}
  BY DEF Init
<1> QED
  BY <1>1, <1>2 DEF Init, TypeOK

LEMMA SameDeployment ==
    ASSUME [Next]_vars
    PROVE  /\ enabled' = enabled /\ Enabled' = Enabled
           /\ \A f : IsFinding(f)' <=> IsFinding(f)
<1>1. enabled' = enabled
  BY DEF Next, Environment, EngineStep, Tick, StoreEvent, UpsertReputation, SetAlertStatus, Begin,
         RunRule, RuleRaises, CheckCooldown, InsertAlert, Finish, PassFails, vars
<1>2. Enabled' = Enabled
  BY <1>1 DEF Enabled
<1> QED
  BY <1>1, <1>2 DEF IsFinding

LEMMA TypeStep == TypeOK /\ [Next]_vars => TypeOK'
<1> SUFFICES ASSUME TypeOK, [Next]_vars PROVE TypeOK'
  OBVIOUS
<1> USE AlertsAssumption
<1>0. /\ enabled' = enabled /\ Enabled' = Enabled
      /\ \A f : IsFinding(f)' <=> IsFinding(f)
  BY SameDeployment
<1>1. CASE Tick
  BY <1>0, <1>1 DEF Tick, TypeOK, Time, tables, engine
<1>2. CASE \E e \in Events, ts \in Time : StoreEvent(e, ts)
  BY <1>0, <1>2 DEF StoreEvent, TypeOK, engine
<1>3. CASE \E ip \in Ips, s \in Scores, known \in BOOLEAN, updated \in 0 .. now :
              UpsertReputation(ip, IF known THEN s[1] ELSE Null, s[2], updated)
  <2>1. PICK ip \in Ips, abuse \in Nat, profile \in Nat, known \in BOOLEAN, updated \in 0 .. now :
            UpsertReputation(ip, IF known THEN abuse ELSE Null, profile, updated)
    BY <1>3
  <2>2. PICK had \in Nat : had = IF reputation[ip] = Null THEN 0 ELSE reputation[ip].abuse
    BY DEF TypeOK
  <2>3. PICK row \in [abuse : Nat, profile : Nat, updated : Time] :
            reputation' = [reputation EXCEPT ![ip] = row]
    <3>1. updated \in Time
      BY DEF TypeOK, Time
    <3>2. PICK kept \in Nat : kept = IF ~ known THEN had ELSE abuse
      OBVIOUS
    <3>3. (IF known THEN abuse ELSE Null) = Null <=> ~ known
      OBVIOUS
    <3>4. reputation' = [reputation EXCEPT ![ip] =
                            [abuse |-> kept, profile |-> profile, updated |-> updated]]
      BY <2>1, <2>2, <3>2, <3>3 DEF UpsertReputation
    <3>5. [abuse |-> kept, profile |-> profile, updated |-> updated]
              \in [abuse : Nat, profile : Nat, updated : Time]
      BY <3>1
    <3> QED
      BY <3>4, <3>5
  <2>4. reputation' \in [Ips -> [abuse : Nat, profile : Nat, updated : Time] \cup {Null}]
    BY <2>3 DEF TypeOK
  <2>5. UNCHANGED <<log, alerts, now, engine, came, failures>>
    BY <2>1 DEF UpsertReputation
  <2> QED
    BY <1>0, <2>4, <2>5 DEF TypeOK, engine
<1>4. CASE \E k \in DOMAIN alerts, status \in Statuses : SetAlertStatus(k, status)
  <2>1. PICK k \in DOMAIN alerts, status \in Statuses : SetAlertStatus(k, status)
    BY <1>4
  <2>2. status \in {"open", "acknowledged", "closed"}
    OBVIOUS
  <2>3. alerts[k] \in AlertRow /\ [alerts[k] EXCEPT !.status = status] \in AlertRow
    BY <2>2, ZenonT(60) DEF TypeOK, AlertRow
  <2>4. \A j \in DOMAIN alerts' : j[1] \in Enabled /\ alerts'[j] \in AlertRow
    BY <1>0, <2>1, <2>3 DEF SetAlertStatus, TypeOK
  <2>5. came' \in [Engines -> SUBSET DOMAIN alerts']
    BY <2>1 DEF SetAlertStatus, CameUp, TypeOK
  <2> QED
    BY <1>0, <2>1, <2>4, <2>5 DEF SetAlertStatus, TypeOK, engine
<1>5. ASSUME NEW g \in Engines, Begin(g) PROVE TypeOK'
  <2>1. enabled[g] \in Seq(Enabled) /\ enabled[g] # <<>>
    BY <1>5, EnabledOnes DEF Begin
  <2>2. WindowStart \in Int
    BY WindowStartType
  <2>3. /\ pc' \in [Engines -> {"idle", "evaluate", "persist", "insert"}]
        /\ since' \in [Engines -> Int] /\ rules' \in [Engines -> Seq(Enabled)]
    BY <1>5, <2>1, <2>2 DEF Begin, TypeOK
  <2>4. ASSUME NEW h \in Engines
        PROVE  rules'[h] # <<>> <=> pc'[h] = "evaluate"
    BY <1>5, <2>1 DEF Begin, TypeOK
  <2> QED
    BY <1>0, <1>5, <2>3, <2>4 DEF Begin, TypeOK, tables
<1>6. ASSUME NEW g \in Engines, NextRule(g)
      PROVE  /\ pc' \in [Engines -> {"idle", "evaluate", "persist", "insert"}]
             /\ rules' \in [Engines -> Seq(Enabled)]
             /\ since' \in [Engines -> Int]
             /\ \A h \in Engines : rules'[h] # <<>> <=> pc'[h] = "evaluate"
             /\ \A h \in Engines : pc'[h] \in {"idle", "insert"} => pc[h] = pc'[h]
             /\ \A h \in Engines : pc[h] = "insert" => pc'[h] = "insert"
  <2>1. since' \in [Engines -> Int]
    <3>1. PICK t \in Int : t = IF Len(rules[g]) = 1 THEN 0 ELSE since[g]
      BY <1>6 DEF TypeOK
    <3>2. since' = [since EXCEPT ![g] = t]
      BY <1>6, <3>1 DEF NextRule
    <3> QED
      BY <3>2 DEF TypeOK
  <2>2. /\ pc[g] = "evaluate" /\ rules' = [rules EXCEPT ![g] = Tail(rules[g])]
        /\ pc' = [pc EXCEPT ![g] = IF Len(rules[g]) = 1 THEN "persist" ELSE pc[g]]
    BY <1>6 DEF NextRule
  <2> QED
    BY <2>1, <2>2, RulesLeft DEF TypeOK
<1>7. ASSUME NEW g \in Engines, RunRule(g) PROVE TypeOK'
  <2>1. PICK F : F = Rule(Head(rules[g]), since[g])
    OBVIOUS
  <2>2. \A f \in F : IsFinding(f)
    <3>1. Head(rules[g]) \in Enabled /\ since[g] \in Int
      BY <1>7, RulesLeft DEF RunRule, NextRule, TypeOK
    <3> QED
      BY <2>1, <3>1, RuleBacked
  <2>3. NextRule(g) /\ pc[g] = "evaluate"
    BY <1>7 DEF RunRule, NextRule
  <2>4. findings' = [findings EXCEPT ![g] = @ \cup F]
    BY <1>7, <2>1 DEF RunRule
  <2> QED
    BY <1>0, <1>6, <1>7, <2>2, <2>3, <2>4, SMTT(30) DEF RunRule, TypeOK, tables
<1>8. ASSUME NEW g \in Engines, RuleRaises(g) PROVE TypeOK'
  <2>1. NextRule(g) /\ failures' \in 0 .. MaxFailure
    BY <1>8 DEF RuleRaises, TypeOK
  <2> QED
    BY <1>0, <1>6, <1>8, <2>1 DEF RuleRaises, TypeOK, tables
<1>9. ASSUME NEW g \in Engines, CheckCooldown(g) PROVE TypeOK'
  <2>1. PICK f \in findings[g] :
            /\ pc[g] = "persist"
            /\ findings' = [findings EXCEPT ![g] = @ \ {f}]
            /\ \/ UNCHANGED <<pc, insert>>
               \/ /\ pc' = [pc EXCEPT ![g] = "insert"]
                  /\ insert' = [insert EXCEPT ![g] = f]
            /\ UNCHANGED <<tables, now, since, rules, came, failures>>
    BY <1>9 DEF CheckCooldown, Foremost
  <2>2. IsFinding(f)
    BY <2>1 DEF TypeOK
  <2> QED
    <3>1. \A h \in Engines : findings'[h] \subseteq findings[h]
      BY <2>1 DEF TypeOK
    <3>2. /\ DOMAIN findings' = Engines
          /\ \A h \in Engines : \A e \in findings'[h] : IsFinding(e)
      BY <2>1, <3>1 DEF TypeOK
    <3>3. UNCHANGED <<log, reputation, alerts, now, since, rules, came, failures>>
      BY <2>1 DEF tables
    <3>4. CASE UNCHANGED <<pc, insert>>
      <4>1. \A h \in Engines : pc'[h] = "idle" => findings'[h] = {}
        BY <3>1, <3>4 DEF TypeOK
      <4> QED
        BY <1>0, <3>2, <3>3, <3>4, <4>1 DEF TypeOK
    <3>5. CASE pc' = [pc EXCEPT ![g] = "insert"] /\ insert' = [insert EXCEPT ![g] = f]
      <4>1. /\ pc' \in [Engines -> {"idle", "evaluate", "persist", "insert"}]
            /\ DOMAIN insert' = Engines
            /\ pc'[g] = "insert" /\ insert'[g] = f
            /\ \A h \in Engines : h # g => pc'[h] = pc[h] /\ insert'[h] = insert[h]
        BY <3>5 DEF TypeOK
      <4>2. \A h \in Engines : /\ pc'[h] = "idle" => findings'[h] = {}
                               /\ rules'[h] # <<>> <=> pc'[h] = "evaluate"
        BY <2>1, <3>1, <3>3, <4>1 DEF TypeOK
      <4>3. \A h \in Engines : IF pc'[h] = "insert" THEN IsFinding(insert'[h])
                                                    ELSE insert'[h] = Null
        BY <2>2, <4>1 DEF TypeOK
      <4> QED
        BY <1>0, <3>2, <3>3, <4>1, <4>2, <4>3 DEF TypeOK
    <3> QED
      BY <2>1, <3>4, <3>5
<1>10. ASSUME NEW g \in Engines, InsertAlert(g) PROVE TypeOK'
  <2>1. pc[g] = "insert" /\ IsFinding(insert[g])
    BY <1>10 DEF InsertAlert, TypeOK
  <2>2. insert[g].id[1] \in Enabled /\ Row(insert[g]) \in AlertRow
    BY <2>1 DEF IsFinding, Row, AlertRow
  <2>3. \A k \in DOMAIN alerts' : k[1] \in Enabled /\ alerts'[k] \in AlertRow
    BY <1>0, <1>10, <2>2 DEF InsertAlert, TypeOK
  <2>4. came' \in [Engines -> SUBSET DOMAIN alerts']
    <3>1. DOMAIN alerts' = DOMAIN alerts \cup {insert[g].id}
      BY <1>10 DEF InsertAlert
    <3>2. PICK all : all = CameUp({insert[g].id} \ DOMAIN alerts)
      OBVIOUS
    <3>3. all \in [Engines -> SUBSET DOMAIN alerts']
      BY <3>1, <3>2 DEF CameUp, TypeOK
    <3>4. came' = [all EXCEPT ![g] = {}]
      BY <1>10, <3>2 DEF InsertAlert
    <3> QED
      BY <3>3, <3>4
  <2> QED
    BY <1>0, <1>10, <2>1, <2>3, <2>4 DEF InsertAlert, TypeOK
<1>11. ASSUME NEW g \in Engines, Finish(g) PROVE TypeOK'
  BY <1>0, <1>11 DEF Finish, TypeOK, tables
<1>12. ASSUME NEW g \in Engines, PassFails(g) PROVE TypeOK'
  BY <1>0, <1>12, SMTT(30) DEF PassFails, TypeOK, tables
<1>13. CASE UNCHANGED vars
  <2>1. UNCHANGED <<log, reputation, alerts, now, pc, since, rules, findings, insert, came, failures>>
    BY <1>13 DEF vars, tables, engine
  <2> QED
    BY <1>0, <2>1 DEF TypeOK
<1>14. \A g \in DOMAIN enabled : g \in Engines
  BY EnabledOnes
<1> QED
  BY <1>1, <1>2, <1>3, <1>4, <1>5, <1>7, <1>8, <1>9, <1>10, <1>11, <1>12, <1>13, <1>14
     DEF Next, Environment, EngineStep

-----------------------------------------------------------------------------
(* The evidence.  It is inductive with what the engines still hold: a finding *)
(* of a pass and the one whose insert is under way are backed as well.        *)

AllBacked ==
    /\ \A k \in DOMAIN alerts : \A row \in {alerts[k]} : Backed(k, row.ip, row.time)
    /\ \A g \in Engines : \A f \in findings[g] : Backed(f.id, f.ip, f.time)
    /\ \A g \in Engines : \A f \in {insert[g]} :
          pc[g] = "insert" => Backed(f.id, f.ip, f.time)

IInv == TypeOK /\ AllBacked

LEMMA BackedInit == Init => IInv
<1> SUFFICES ASSUME Init PROVE IInv
  OBVIOUS
<1>1. DOMAIN alerts = {} /\ \A g \in Engines : findings[g] = {} /\ pc[g] # "insert"
  BY DEF Init
<1> QED
  BY <1>1, TypeInit DEF IInv, AllBacked

LEMMA BackedStep == IInv /\ [Next]_vars => IInv'
<1> SUFFICES ASSUME IInv, [Next]_vars PROVE IInv'
  OBVIOUS
<1>1. TypeOK /\ AllBacked /\ TypeOK'
  BY TypeStep DEF IInv
<1>2. LogGrows
  <2>1. UNCHANGED log \/ \E e \in Events, ts \in Time : StoreEvent(e, ts)
    BY DEF Next, Environment, EngineStep, Tick, UpsertReputation, SetAlertStatus, Begin, NextRule,
           RunRule, RuleRaises, CheckCooldown, InsertAlert, Finish, PassFails, tables, engine, vars
  <2>2. CASE UNCHANGED log
    BY <2>2 DEF LogGrows, Stored
  <2>3. CASE \E e \in Events, ts \in Time : StoreEvent(e, ts)
    BY <1>1, <2>3 DEF StoreEvent, LogGrows, Stored, TypeOK
  <2> QED
    BY <2>1, <2>2, <2>3
<1>3. \A id, ip, time : Backed(id, ip, time) => Backed(id, ip, time)'
  BY <1>1, <1>2, BackedStays
<1>4. ASSUME UNCHANGED <<findings, insert>>,
             \A g \in Engines : pc'[g] = "insert" => pc[g] = "insert",
             \A k \in DOMAIN alerts' : /\ k \in DOMAIN alerts
                                       /\ alerts'[k].ip = alerts[k].ip
                                       /\ alerts'[k].time = alerts[k].time
      PROVE  AllBacked'
  BY <1>1, <1>3, <1>4 DEF AllBacked
<1>5. CASE Environment
  <2>1. UNCHANGED engine
    BY <1>5 DEF Environment, Tick, StoreEvent, UpsertReputation, SetAlertStatus
  <2>2. \A k \in DOMAIN alerts' : /\ k \in DOMAIN alerts
                                  /\ alerts'[k].ip = alerts[k].ip
                                  /\ alerts'[k].time = alerts[k].time
    <3>1. CASE UNCHANGED alerts
      BY <3>1
    <3>2. CASE \E j \in DOMAIN alerts, status \in Statuses : SetAlertStatus(j, status)
      <4>1. PICK j \in DOMAIN alerts, status \in Statuses :
                alerts' = [alerts EXCEPT ![j].status = status]
        BY <3>2 DEF SetAlertStatus
      <4>2. alerts[j] \in AlertRow
        BY <1>1 DEF TypeOK
      <4> QED
        BY <4>1, <4>2 DEF AlertRow
    <3> QED
      BY <1>5, <3>1, <3>2 DEF Environment, Tick, StoreEvent, UpsertReputation, tables
  <2> QED
    BY <1>1, <1>4, <2>1, <2>2 DEF engine, IInv
<1>6. ASSUME NEW g \in Engines, Begin(g) \/ Finish(g) \/ RuleRaises(g) PROVE IInv'
  <2>1. UNCHANGED <<alerts, findings, insert>>
    BY <1>6 DEF Begin, Finish, RuleRaises, tables
  <2>2. \A h \in Engines : pc'[h] = "insert" => pc[h] = "insert"
    BY <1>1, <1>6 DEF Begin, Finish, RuleRaises, NextRule, TypeOK
  <2> QED
    BY <1>1, <1>4, <2>1, <2>2 DEF IInv
<1>7. ASSUME NEW g \in Engines, RunRule(g) PROVE IInv'
  <2>1. PICK F : F = Rule(Head(rules[g]), since[g])
    OBVIOUS
  <2>2. \A f \in F : Backed(f.id, f.ip, f.time)
    <3>1. Head(rules[g]) \in Enabled /\ since[g] \in Int
      BY <1>1, <1>7, RulesLeft DEF RunRule, NextRule, TypeOK
    <3> QED
      BY <1>1, <2>1, <3>1, RuleBacked
  <2>3. /\ findings' = [findings EXCEPT ![g] = @ \cup F] /\ UNCHANGED <<alerts, insert>>
        /\ \A h \in Engines : pc'[h] = "insert" => pc[h] = "insert"
    BY <1>1, <1>7, <2>1 DEF RunRule, NextRule, TypeOK, tables
  <2>4. \A h \in Engines : \A f \in findings'[h] : Backed(f.id, f.ip, f.time)
    BY <1>1, <2>2, <2>3 DEF AllBacked, TypeOK
  <2> QED
    BY <1>1, <1>3, <2>3, <2>4 DEF IInv, AllBacked
<1>8. ASSUME NEW g \in Engines, CheckCooldown(g) PROVE IInv'
  <2>1. PICK f \in findings[g] :
            /\ findings' = [findings EXCEPT ![g] = @ \ {f}]
            /\ \/ UNCHANGED <<pc, insert>>
               \/ /\ pc' = [pc EXCEPT ![g] = "insert"]
                  /\ insert' = [insert EXCEPT ![g] = f]
            /\ UNCHANGED alerts
    BY <1>8 DEF CheckCooldown, Foremost, tables
  <2>2. \A h \in Engines : \A e \in findings'[h] : Backed(e.id, e.ip, e.time)
    BY <1>1, <2>1 DEF AllBacked, TypeOK
  <2>3. \A h \in Engines : \A e \in {insert'[h]} :
            pc'[h] = "insert" => Backed(e.id, e.ip, e.time)
    BY <1>1, <2>1 DEF AllBacked, TypeOK
  <2> QED
    BY <1>1, <1>3, <2>1, <2>2, <2>3 DEF IInv, AllBacked
<1>9. ASSUME NEW g \in Engines, InsertAlert(g) PROVE IInv'
  <2>1. /\ pc[g] = "insert" /\ UNCHANGED findings
        /\ \A h \in Engines : pc'[h] = "insert" => pc[h] = "insert" /\ insert'[h] = insert[h]
    BY <1>1, <1>9 DEF InsertAlert, TypeOK
  <2>2. PICK f \in {insert[g]} :
            /\ Backed(f.id, f.ip, f.time)
            /\ alerts' = [k \in DOMAIN alerts \cup {f.id} |->
                             IF k \in DOMAIN alerts THEN alerts[k] ELSE Row(f)]
    BY <1>1, <1>9, <2>1 DEF InsertAlert, AllBacked
  <2>3. Row(f).ip = f.ip /\ Row(f).time = f.time
    BY DEF Row
  <2>4. \A k \in DOMAIN alerts' : \A row \in {alerts'[k]} : Backed(k, row.ip, row.time)
    <3> SUFFICES ASSUME NEW k \in DOMAIN alerts', NEW row \in {alerts'[k]}
                 PROVE  Backed(k, row.ip, row.time)
      OBVIOUS
    <3>1. CASE k \in DOMAIN alerts
      BY <1>1, <2>2, <3>1 DEF AllBacked
    <3>2. CASE k \notin DOMAIN alerts
      BY <2>2, <2>3, <3>2
    <3> QED
      BY <3>1, <3>2
  <2> QED
    BY <1>1, <1>3, <2>1, <2>4 DEF IInv, AllBacked
<1>10. ASSUME NEW g \in Engines, PassFails(g) PROVE IInv'
  <2>1. /\ UNCHANGED alerts
        /\ \A h \in Engines : \A f \in findings'[h] : f \in findings[h]
        /\ \A h \in Engines : pc'[h] = "insert" => pc[h] = "insert" /\ insert'[h] = insert[h]
    BY <1>1, <1>10 DEF PassFails, TypeOK, tables
  <2> QED
    BY <1>1, <1>3, <2>1 DEF IInv, AllBacked
<1>11. CASE UNCHANGED vars
  BY <1>1, <1>4, <1>11 DEF vars, tables, engine, IInv
<1>12. \A g \in DOMAIN enabled : g \in Engines
  BY <1>1, EnabledOnes
<1> QED
  BY <1>5, <1>6, <1>7, <1>8, <1>9, <1>10, <1>11, <1>12 DEF Next, EngineStep

-----------------------------------------------------------------------------
\* The tables and a pass keep their types, and an engine between passes holds
\* nothing (alert_engine.py, run_once; database.py, insert_alert).
THEOREM TypeCorrect == Spec => []TypeOK
<1>1. Spec => []IInv
  BY BackedInit, BackedStep, PTL DEF Spec
<1>2. IInv => TypeOK
  BY DEF IInv
<1> QED
  BY <1>1, <1>2, PTL

\* Every alert rests on stored events in the amount its rule demands, whatever is
\* stored between the queries of a pass and whatever fails (rules.py).
THEOREM EvidenceHolds == Spec => []Evidence
<1>1. Spec => []IInv
  BY BackedInit, BackedStep, PTL DEF Spec
<1>2. IInv => Evidence
  BY DEF IInv, AllBacked, Evidence
<1> QED
  BY <1>1, <1>2, PTL

\* No step changes or removes an alert but for its status, and no engine changes
\* that (database.py, insert_alert: INSERT OR IGNORE).
THEOREM RowsStay == Spec => NeverRewritten
<1> DEFINE Stays(k) ==
               /\ k \in DOMAIN alerts'
               /\ [alerts'[k] EXCEPT !.status = alerts[k].status] = alerts[k]
               /\ alerts'[k].status # alerts[k].status => UNCHANGED engine
<1>1. ASSUME TypeOK, [Next]_vars PROVE \A k \in DOMAIN alerts : Stays(k)
  <2> SUFFICES ASSUME NEW k \in DOMAIN alerts PROVE Stays(k)
    OBVIOUS
  <2>1. alerts[k] \in AlertRow
    BY <1>1 DEF TypeOK
  <2>2. ASSUME k \in DOMAIN alerts', alerts'[k] = alerts[k] PROVE Stays(k)
    BY <2>1, <2>2 DEF AlertRow
  <2>3. CASE \E j \in DOMAIN alerts, status \in Statuses : SetAlertStatus(j, status)
    BY <2>1, <2>3 DEF SetAlertStatus, AlertRow
  <2>4. CASE \E g \in Engines : InsertAlert(g)
    BY <2>2, <2>4 DEF InsertAlert
  <2>5. CASE UNCHANGED alerts
    BY <2>2, <2>5
  <2>6. \/ UNCHANGED alerts
        \/ \E j \in DOMAIN alerts, status \in Statuses : SetAlertStatus(j, status)
        \/ \E g \in Engines : InsertAlert(g)
    BY <1>1, EnabledOnes DEF Next, Environment, EngineStep, Tick, StoreEvent, UpsertReputation, Begin,
                RunRule, RuleRaises, CheckCooldown, Finish, PassFails, tables, vars
  <2> QED
    BY <2>3, <2>4, <2>5, <2>6
<1>2. TypeOK /\ [Next]_vars => [\A k \in DOMAIN alerts : Stays(k)]_vars
  BY <1>1
<1> QED
  BY <1>2, TypeCorrect, PTL DEF Spec, NeverRewritten

-----------------------------------------------------------------------------
(* The cooldown.  Its check is a step before the insert: what has to hold in *)
(* between is that what is recent by now has come up since.                  *)

Cool(g) ==
    pc[g] = "insert" /\ CooldownOf(insert[g].id[1]) > 0 => Recent(insert[g]) \subseteq came[g]

\* Time makes no alert recent.
LEMMA RecentBefore ==
    ASSUME TypeOK, TypeOK', NEW f, now' >= now, NEW k \in Recent(f)',
           k \in DOMAIN alerts, alerts'[k].ip = alerts[k].ip, alerts'[k].time = alerts[k].time,
           alerts[k].status = "open"
    PROVE  k \in Recent(f)
<1>1. CooldownOf(f.id[1]) \in Nat
  BY AlertsAssumption DEF CooldownOf
<1>2. alerts[k].time \in Nat /\ now \in Nat /\ now' \in Nat
  BY DEF TypeOK, AlertRow, Time
<1>3. /\ alerts'[k].ip = f.ip /\ k[1] = f.id[1]
      /\ now' - alerts'[k].time < CooldownOf(f.id[1])
  BY DEF Recent
<1>4. now - alerts[k].time < CooldownOf(f.id[1])
  BY <1>1, <1>2, <1>3
<1> QED
  BY <1>3, <1>4 DEF Recent

\* What an engine holds between its check and its insert when a step is over, it held
\* before or has just checked, and nothing that had come up is forgotten.
LEMMA HeldOrChecked ==
    ASSUME TypeOK, [Next]_vars, NEW g \in Engines, pc'[g] = "insert"
    PROVE  \/ CheckCooldown(g)
           \/ pc[g] = "insert" /\ insert'[g] = insert[g] /\ came[g] \subseteq came'[g]
<1>1. \A h \in DOMAIN enabled : h \in Engines
  BY EnabledOnes
<1>2. CASE Environment
  BY <1>2 DEF Environment, Tick, StoreEvent, UpsertReputation, SetAlertStatus, CameUp, engine, TypeOK
<1>3. ASSUME NEW h \in Engines,
             Begin(h) \/ RunRule(h) \/ RuleRaises(h) \/ Finish(h) \/ PassFails(h)
      PROVE  pc[g] = "insert" /\ insert'[g] = insert[g] /\ came[g] \subseteq came'[g]
  BY <1>3 DEF Begin, RunRule, RuleRaises, NextRule, Finish, PassFails, TypeOK
<1>4. ASSUME NEW h \in Engines, InsertAlert(h)
      PROVE  pc[g] = "insert" /\ insert'[g] = insert[g] /\ came[g] \subseteq came'[g]
  <2>1. h # g /\ pc[g] = "insert" /\ insert'[g] = insert[g]
    BY <1>4 DEF InsertAlert, TypeOK
  <2>2. came'[g] = came[g] \cup ({insert[h].id} \ DOMAIN alerts)
    BY <1>4, <2>1 DEF InsertAlert, CameUp
  <2> QED
    BY <2>1, <2>2
<1>5. ASSUME NEW h \in Engines, CheckCooldown(h), h # g
      PROVE  pc[g] = "insert" /\ insert'[g] = insert[g] /\ came[g] \subseteq came'[g]
  BY <1>5 DEF CheckCooldown, TypeOK
<1>6. CASE UNCHANGED vars
  BY <1>6 DEF vars, engine
<1> QED
  BY <1>1, <1>2, <1>3, <1>4, <1>5, <1>6 DEF Next, EngineStep

\* What is open after a step was open before with the same address and time, or has come
\* up for whoever is between check and insert, before the step and after it.
LEMMA OpenOrCame ==
    ASSUME TypeOK, [Next]_vars, NEW g \in Engines, pc[g] = "insert", pc'[g] = "insert",
           NEW k \in DOMAIN alerts', alerts'[k].status = "open"
    PROVE  \/ k \in came'[g]
           \/ /\ k \in DOMAIN alerts /\ alerts[k].status = "open"
              /\ alerts'[k].ip = alerts[k].ip /\ alerts'[k].time = alerts[k].time
<1>1. CASE alerts' = alerts
  BY <1>1
<1>2. ASSUME NEW j \in DOMAIN alerts, NEW status \in Statuses, SetAlertStatus(j, status)
      PROVE  \/ k \in came'[g]
             \/ /\ k \in DOMAIN alerts /\ alerts[k].status = "open"
                /\ alerts'[k].ip = alerts[k].ip /\ alerts'[k].time = alerts[k].time
  <2>1. alerts[j] \in AlertRow
    BY DEF TypeOK
  <2>2. alerts' = [alerts EXCEPT ![j].status = status]
    BY <1>2 DEF SetAlertStatus
  <2>3. /\ k \in DOMAIN alerts /\ alerts'[k].ip = alerts[k].ip
        /\ alerts'[k].time = alerts[k].time
        /\ IF k = j THEN alerts'[k].status = status ELSE alerts'[k].status = alerts[k].status
    BY <2>1, <2>2 DEF AlertRow
  <2>4. came'[g] = came[g] \cup (IF status = "open" /\ alerts[j].status # "open" THEN {j} ELSE {})
    BY <1>2 DEF SetAlertStatus, CameUp
  <2> QED
    BY <2>3, <2>4
<1>3. ASSUME NEW h \in Engines, InsertAlert(h)
      PROVE  k \in came'[g] \/ (k \in DOMAIN alerts /\ alerts'[k] = alerts[k])
  <2>1. h # g
    BY <1>3 DEF InsertAlert, TypeOK
  <2>2. came'[g] = came[g] \cup ({insert[h].id} \ DOMAIN alerts)
    BY <1>3, <2>1 DEF InsertAlert, CameUp
  <2>3. k = insert[h].id \/ k \in DOMAIN alerts
    BY <1>3 DEF InsertAlert
  <2>4. CASE k \in DOMAIN alerts
    <3>1. alerts'[k] = alerts[k]
      BY <1>3, <2>4 DEF InsertAlert
    <3> QED
      BY <2>4, <3>1
  <2>5. CASE k \notin DOMAIN alerts
    <3>1. k \in {insert[h].id} \ DOMAIN alerts
      BY <2>3, <2>5
    <3> QED
      BY <2>2, <3>1
  <2> QED
    BY <2>4, <2>5
<1>4. \/ alerts' = alerts
      \/ \E j \in DOMAIN alerts, status \in Statuses : SetAlertStatus(j, status)
      \/ \E h \in Engines : InsertAlert(h)
  BY EnabledOnes DEF Next, Environment, EngineStep, Tick, StoreEvent, UpsertReputation, Begin,
     RunRule, RuleRaises, CheckCooldown, Finish, PassFails, tables, vars
<1> QED
  BY <1>1, <1>2, <1>3, <1>4

LEMMA CoolKept ==
    ASSUME TypeOK, NEW g \in Engines, Cool(g), [Next]_vars
    PROVE  Cool(g)'
<1> SUFFICES ASSUME pc'[g] = "insert", CooldownOf(insert'[g].id[1]) > 0, NEW k \in Recent(insert[g])'
             PROVE  k \in came'[g]
  BY DEF Cool
<1>1. TypeOK'
  BY TypeStep
<1>2. CASE CheckCooldown(g) /\ pc[g] # "insert"
  <2>1. PICK f \in findings[g] :
            IF CooldownOf(f.id[1]) > 0 /\ Recent(f) # {}
            THEN UNCHANGED <<pc, insert>>
            ELSE pc' = [pc EXCEPT ![g] = "insert"] /\ insert' = [insert EXCEPT ![g] = f]
    BY <1>2 DEF CheckCooldown, Foremost
  <2>2. insert'[g] = f /\ ~(CooldownOf(f.id[1]) > 0 /\ Recent(f) # {})
    BY <1>2, <2>1 DEF TypeOK
  <2>3. UNCHANGED <<alerts, now>>
    BY <1>2 DEF CheckCooldown, tables
  <2>4. Recent(insert[g])' = Recent(f)
    BY <2>2, <2>3 DEF Recent
  <2> QED
    BY <2>2, <2>4
<1>3. CASE pc[g] = "insert" /\ insert'[g] = insert[g] /\ came[g] \subseteq came'[g]
  <2>1. now' >= now
    <3>1. now' = now \/ now' = now + 1
      BY DEF Next, Environment, EngineStep, Tick, StoreEvent, UpsertReputation, SetAlertStatus,
             Begin, RunRule, RuleRaises, CheckCooldown, InsertAlert, Finish, PassFails, vars
    <3>2. now \in Nat
      BY DEF TypeOK, Time
    <3> QED
      BY <3>1, <3>2
  <2>2. PICK f : f = insert[g]
    OBVIOUS
  <2>3. k \in DOMAIN alerts' /\ alerts'[k].status = "open" /\ k \in Recent(f)'
    <3>1. Recent(insert[g])' = Recent(f)'
      BY <1>3, <2>2 DEF Recent
    <3> QED
      BY <3>1 DEF Recent
  <2>4. k \in came'[g] \/ k \in Recent(f)
    BY <1>1, <1>3, <2>1, <2>3, OpenOrCame, RecentBefore
  <2>5. Recent(f) \subseteq came[g]
    BY <1>3, <2>2 DEF Cool
  <2> QED
    BY <1>3, <2>4, <2>5
<1> QED
  BY <1>2, <1>3, HeldOrChecked DEF CheckCooldown

\* No alert of a rule with a cooldown is inserted beside an open one of the same address
\* that is younger, but for those that another engine inserts, or an operator opens again,
\* between this engine's check and its insert: for any number of engines, whatever rules
\* they run, and whatever operators do (database.py, insert_alert, which checks before its
\* transaction).
THEOREM CooldownHolds == Spec => CooldownRespected
<1> DEFINE Fresh(g, k) ==
               pc[g] = "insert" /\ insert[g].id = k /\ pc'[g] = "persist" /\ CooldownOf(k[1]) > 0 =>
                   \A j \in DOMAIN alerts :
                       /\ j[1] = k[1] /\ alerts[j].ip = alerts'[k].ip
                       /\ alerts[j].status = "open"
                       /\ now - alerts[j].time < Cooldown
                       => j \in came[g]
           AllCool == \A g \in Engines : Cool(g)
<1>1. ASSUME TypeOK, AllCool, [Next]_vars
      PROVE  \A g \in Engines, k \in DOMAIN alerts' \ DOMAIN alerts : Fresh(g, k)
  <2> SUFFICES ASSUME NEW g \in Engines, NEW k \in DOMAIN alerts' \ DOMAIN alerts,
                      pc[g] = "insert", insert[g].id = k, pc'[g] = "persist", CooldownOf(k[1]) > 0,
                      NEW j \in DOMAIN alerts, j[1] = k[1], alerts[j].ip = alerts'[k].ip,
                      alerts[j].status = "open", now - alerts[j].time < Cooldown
               PROVE  j \in came[g]
    OBVIOUS
  <2>1. PICK h \in Engines : InsertAlert(h)
    <3>1. \A i \in DOMAIN alerts, status \in Statuses :
              SetAlertStatus(i, status) => DOMAIN alerts' = DOMAIN alerts
      BY DEF SetAlertStatus
    <3>2. \/ alerts' = alerts
          \/ \E i \in DOMAIN alerts, status \in Statuses : SetAlertStatus(i, status)
          \/ \E h \in Engines : InsertAlert(h)
      BY <1>1, EnabledOnes DEF Next, Environment, EngineStep, Tick, StoreEvent, UpsertReputation,
         Begin, RunRule, RuleRaises, CheckCooldown, Finish, PassFails, tables, vars
    <3> QED
      BY <3>1, <3>2
  <2>2. h = g /\ k = insert[g].id /\ alerts'[k] = Row(insert[g])
    <3>1. h = g
      BY <1>1, <2>1 DEF InsertAlert, TypeOK
    <3> QED
      BY <2>1, <3>1 DEF InsertAlert
  <2>3. CooldownOf(k[1]) = Cooldown
    BY AlertsAssumption DEF CooldownOf
  <2>4. PICK f : f = insert[g]
    OBVIOUS
  <2>5. Recent(f) \subseteq came[g]
    BY <1>1, <2>4 DEF Cool
  <2>6. alerts'[k].ip = f.ip
    BY <2>2, <2>4 DEF Row
  <2> QED
    BY <2>3, <2>4, <2>5, <2>6 DEF Recent
<1>2. TypeOK /\ AllCool /\ [Next]_vars =>
          [\A g \in Engines, k \in DOMAIN alerts' \ DOMAIN alerts : Fresh(g, k)]_vars
  BY <1>1
<1>3. Init => AllCool
  BY DEF Init, Cool
<1>4. TypeOK /\ AllCool /\ [Next]_vars => AllCool'
  BY CoolKept, SMTT(30)
<1>5. Spec => []AllCool
  BY <1>3, <1>4, TypeCorrect, PTL DEF Spec
<1> QED
  BY <1>2, <1>5, TypeCorrect, PTL DEF Spec, CooldownRespected
=============================================================================
