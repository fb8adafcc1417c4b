----------------------------- MODULE EnricherProofs -----------------------------
(***************************************************************************)
(* No row claims a score that nobody gave or an activity that nobody       *)
(* stored, and nothing known is forgotten, for any number of workers and   *)
(* addresses, any limits and any number of restarts and lost writes.       *)
(***************************************************************************)
EXTENDS Enricher, WellFoundedInduction, TLAPS

\* The smaller of two numbers.
LEMMA MinOfTwo ==
    ASSUME NEW a \in Int, NEW b \in Int
    PROVE  Min({a, b}) = IF a <= b THEN a ELSE b
<1>1. CASE a <= b
  BY <1>1 DEF Min
<1>2. CASE ~(a <= b)
  BY <1>2 DEF Min
<1> QED
  BY <1>1, <1>2

\* What a pass still has to take has a first.
LEMMA FirstOf ==
    ASSUME NEW S \in SUBSET Nat, S # {}
    PROVE  Min(S) \in S
<1> DEFINE Less == {ss \in Nat \X Nat : ss[1] < ss[2]}
<1>1. IsWellFoundedOn(Less, Nat)
  BY NatLessThanWellFounded, Zenon DEF OpToRel
<1>2. PICK n \in S : \A m \in S : <<m, n>> \notin Less
  <2> HIDE DEF Less
  <2> QED
    BY <1>1, WFMin
<1>3. ASSUME NEW m \in S PROVE n <= m
  <2>1. m \in Nat /\ n \in Nat
    OBVIOUS
  <2>2. <<m, n>> \in Nat \X Nat /\ <<m, n>>[1] = m /\ <<m, n>>[2] = n
    BY <2>1
  <2>3. m < n => <<m, n>> \in Less
    BY <2>2, Zenon
  <2> HIDE DEF Less
  <2> QED
    BY <1>2, <2>1, <2>3
<1> QED
  BY <1>3 DEF Min

-----------------------------------------------------------------------------
(* The invariant *)

\* What HonestScores says of a row, of any record about an address.
Honest(i, r) ==
    /\ r.abuse \in answers[i] \cup {Null}
    /\ r.abuse # Null <=> "AbuseIPDB" \in r.source

\* What ProfileJustified says of a row.
Justified(i, r) ==
    \/ r.profile = 0
    \/ \E a \in answers[i] \cup {0} :
          r.profile <= Min({100, a + 5 * activity[i].sessions + 2 * activity[i].commands})

Good(i, r) == (i \notin Bridge => Honest(i, r)) /\ Justified(i, r)

Blank(r) == r.abuse = Null /\ r.profile = 0 /\ r.source = {}

Rows == \A i \in Ips : reputation[i] # Null => Good(i, reputation[i])

Caches ==
    \A w \in Workers, i \in Ips : cache[w][i] # Null => Good(i, cache[w][i])

\* A record that is looked up is blank; one that is saved is good.
Records ==
    \A w \in Workers :
        /\ pc[w] \in {"locate", "score"} => Blank(record[w])
        /\ pc[w] = "save" => Good(ip[w], record[w])

IInv == TypeOK /\ Rows /\ Caches /\ Records

-----------------------------------------------------------------------------
(* Types *)

LEMMA ScoreInRange ==
    ASSUME NEW abuse \in 0 .. 100 \cup {Null},
           NEW seen \in [sessions : Nat, commands : Nat]
    PROVE  /\ ProfileScore(abuse, seen) \in 0 .. 100
           /\ \E a \in {abuse, 0} \ {Null} :
                 ProfileScore(abuse, seen) <=
                     Min({100, a + 5 * seen.sessions + 2 * seen.commands})
<1> DEFINE a == IF abuse = Null THEN 0 ELSE abuse
           s == Min({5 * seen.sessions, 25})
           c == Min({2 * seen.commands, 25})
<1>1. a \in 0 .. 100 /\ a \in {abuse, 0} \ {Null}
  BY EnricherAssumption
<1>2. seen.sessions \in Nat /\ seen.commands \in Nat
  OBVIOUS
<1>3. s \in Nat /\ s <= 5 * seen.sessions
  BY <1>2, MinOfTwo
<1>4. c \in Nat /\ c <= 2 * seen.commands
  BY <1>2, MinOfTwo
<1>5. ProfileScore(abuse, seen) = Min({100, a + s + c})
  BY DEF ProfileScore
<1> HIDE DEF a, s, c
<1>6. Min({100, a + s + c}) = IF 100 <= a + s + c THEN 100 ELSE a + s + c
  BY <1>1, <1>3, <1>4, MinOfTwo
<1>7. Min({100, a + 5 * seen.sessions + 2 * seen.commands}) =
          IF 100 <= a + 5 * seen.sessions + 2 * seen.commands THEN 100
          ELSE a + 5 * seen.sessions + 2 * seen.commands
  BY <1>1, <1>2, MinOfTwo
<1>8. Min({100, a + s + c}) \in 0 .. 100
  BY <1>1, <1>3, <1>4, <1>6
<1>9. Min({100, a + s + c}) <= Min({100, a + 5 * seen.sessions + 2 * seen.commands})
  BY <1>1, <1>2, <1>3, <1>4, <1>6, <1>7
<1> QED
  BY <1>1, <1>5, <1>8, <1>9

LEMMA Initially == Init => IInv
<1> SUFFICES ASSUME Init PROVE IInv
  OBVIOUS
<1>1. Unknown \in Record
  BY EnricherAssumption DEF Unknown, Record, Age
<1>2. TypeOK
  <2>1. /\ activity \in [Ips -> [sessions : 0 .. MaxActivity, commands : 0 .. MaxActivity]]
        /\ faults \in 0 .. MaxFault
    BY EnricherAssumption DEF Init
  <2> QED
    BY <1>1, <2>1 DEF Init, TypeOK
<1>3. Rows /\ Caches /\ Records
  BY DEF Init, Rows, Caches, Records
<1> QED
  BY <1>2, <1>3 DEF IInv

\* Answers and activity only accumulate, so what was justified stays so.
LEMMA GoodStays ==
    ASSUME NEW i \in Ips, NEW r, r.profile \in 0 .. 100, Good(i, r), TypeOK, TypeOK',
           answers[i] \subseteq answers'[i],
           activity[i].sessions <= activity'[i].sessions,
           activity[i].commands <= activity'[i].commands,
           NEW q, q.abuse = r.abuse, q.profile = r.profile, q.source = r.source
    PROVE  Good(i, q)'
<1>1. i \notin Bridge => Honest(i, q)'
  BY DEF Good, Honest
<1>2. Justified(i, q)'
  <2>1. CASE r.profile = 0
    BY <2>1 DEF Justified
  <2>2. CASE r.profile # 0
    <3>1. PICK a \in answers[i] \cup {0} :
            r.profile <= Min({100, a + 5 * activity[i].sessions + 2 * activity[i].commands})
      BY <2>2 DEF Good, Justified
    <3>2. a \in Nat
      BY EnricherAssumption DEF TypeOK
    <3>3. /\ activity[i].sessions \in Nat /\ activity[i].commands \in Nat
          /\ activity'[i].sessions \in Nat /\ activity'[i].commands \in Nat
      BY EnricherAssumption DEF TypeOK
    <3> DEFINE before == a + 5 * activity[i].sessions + 2 * activity[i].commands
               after == a + 5 * activity'[i].sessions + 2 * activity'[i].commands
    <3>4. before \in Int /\ after \in Int /\ before <= after
      BY <3>2, <3>3
    <3> HIDE DEF before, after
    <3>5. Min({100, before}) = (IF 100 <= before THEN 100 ELSE before)
      BY <3>4, MinOfTwo
    <3>6. Min({100, after}) = (IF 100 <= after THEN 100 ELSE after)
      BY <3>4, MinOfTwo
    <3>7. r.profile <= Min({100, before})
      BY <3>1 DEF before
    <3>8. q.profile <= Min({100, after})
      BY <3>4, <3>5, <3>6, <3>7
    <3>9. a \in answers'[i] \cup {0}
      OBVIOUS
    <3> QED
      BY <3>8, <3>9 DEF Justified, after
  <2> QED
    BY <2>1, <2>2
<1> QED
  BY <1>1, <1>2 DEF Good

-----------------------------------------------------------------------------
(* Types *)

LEMMA OlderIsARecord ==
    ASSUME NEW r
    PROVE  /\ r \in Record => Older(r) \in Record
           /\ r \in Record \cup {Null} => Older(r) \in Record \cup {Null}
           /\ r # Null /\ r \in Record =>
                 /\ Older(r) # Null
                 /\ Older(r).abuse = r.abuse /\ Older(r).located = r.located
                 /\ Older(r).source = r.source /\ Older(r).profile = r.profile
<1>1. CASE r = Null
  BY <1>1 DEF Older
<1>2. CASE r # Null /\ r \in Record
  <2>1. r.age \in Age /\ MaxAge \in Nat
    BY <1>2, EnricherAssumption DEF Record
  <2>2. PICK n \in Age : n = (IF r.age > MaxAge THEN r.age ELSE r.age + 1)
    BY <2>1 DEF Age
  <2>3. Older(r) = [r EXCEPT !.age = n]
    BY <1>2, <2>2 DEF Older
  <2>4. [r EXCEPT !.age = n] \in Record
    BY <1>2 DEF Record
  <2>5. /\ [r EXCEPT !.age = n].abuse = r.abuse /\ [r EXCEPT !.age = n].located = r.located
        /\ [r EXCEPT !.age = n].source = r.source /\ [r EXCEPT !.age = n].profile = r.profile
    BY <1>2 DEF Record
  <2> QED
    BY <1>2, <2>3, <2>4, <2>5, NoRowIsNull
<1>3. CASE r # Null /\ r \notin Record
  BY <1>3
<1> QED
  BY <1>1, <1>2, <1>3

\* The record that Score makes.
Made(w, reply, seen) ==
    [record[w] EXCEPT !.abuse = AbuseScore(reply), !.located = TRUE,
        !.source = {"ip-api"} \cup IF AbuseScore(reply) = Null THEN {} ELSE {"AbuseIPDB"},
        !.profile = ProfileScore(AbuseScore(reply), seen)]

LEMMA MadeIsARecord ==
    ASSUME TypeOK, NEW w \in Workers, NEW reply \in Scores \cup {Null},
           NEW seen \in [sessions : Nat, commands : Nat]
    PROVE  /\ Made(w, reply, seen) \in Record
           /\ Made(w, reply, seen).abuse = AbuseScore(reply)
           /\ Made(w, reply, seen).source =
                 {"ip-api"} \cup IF AbuseScore(reply) = Null THEN {} ELSE {"AbuseIPDB"}
           /\ Made(w, reply, seen).profile = ProfileScore(AbuseScore(reply), seen)
<1>1. AbuseScore(reply) \in 0 .. 100 \cup {Null}
  BY EnricherAssumption DEF AbuseScore
<1>2. PICK abuse \in 0 .. 100 \cup {Null} : abuse = AbuseScore(reply)
  BY <1>1
<1>3. PICK profile \in 0 .. 100 : profile = ProfileScore(abuse, seen)
  BY ScoreInRange
<1>4. PICK source \in SUBSET Sources :
          source = {"ip-api"} \cup IF abuse = Null THEN {} ELSE {"AbuseIPDB"}
  BY DEF Sources
<1>5. Made(w, reply, seen) = [record[w] EXCEPT !.abuse = abuse, !.located = TRUE,
                                               !.source = source, !.profile = profile]
  BY <1>2, <1>3, <1>4, Zenon DEF Made
<1>6. record[w] \in Record
  BY DEF TypeOK
<1>7. Made(w, reply, seen) \in Record
  BY <1>5, <1>6 DEF Record
<1>8. /\ Made(w, reply, seen).abuse = abuse
      /\ Made(w, reply, seen).source = source
      /\ Made(w, reply, seen).profile = profile
  BY <1>5, <1>6 DEF Record
<1> QED
  BY <1>2, <1>3, <1>4, <1>7, <1>8, Zenon

LEMMA UpsertIsARecord ==
    ASSUME NEW old \in Record \cup {Null}, NEW new \in Record
    PROVE  Upsert(old, new) \in Record
<1>1. CASE old = Null
  BY <1>1 DEF Upsert
<1>2. CASE old # Null
  BY <1>2 DEF Upsert, Either, Record
<1> QED
  BY <1>1, <1>2

-----------------------------------------------------------------------------
(* The actions *)

LEMMA DayKeeps == IInv /\ Day => IInv'
<1> SUFFICES ASSUME IInv, Day PROVE IInv'
  OBVIOUS
<1>1. TypeOK'
  <2>1. reputation' \in [Ips -> Record \cup {Null}]
    BY OlderIsARecord DEF Day, IInv, TypeOK
  <2>2. record' \in [Workers -> Record]
    BY OlderIsARecord DEF Day, IInv, TypeOK
  <2>3. cache' \in [Workers -> [Ips -> Record \cup {Null}]]
    <3>1. ASSUME NEW w \in Workers
          PROVE  [i \in Ips |-> Older(cache[w][i])] \in [Ips -> Record \cup {Null}]
      BY OlderIsARecord DEF IInv, TypeOK
    <3> QED
      BY <3>1 DEF Day
  <2> QED
    BY <2>1, <2>2, <2>3 DEF Day, IInv, TypeOK
<1>2. ASSUME NEW i \in Ips, NEW r \in Record, r # Null, Good(i, r)
      PROVE  Good(i, Older(r))'
  <2>1. PICK q : q = Older(r)
    OBVIOUS
  <2>2. q.abuse = r.abuse /\ q.source = r.source /\ q.profile = r.profile
    BY <1>2, <2>1, OlderIsARecord
  <2>3. /\ Honest(i, q)' <=> Honest(i, r)
        /\ Justified(i, q)' <=> Justified(i, r)
    BY <2>2 DEF Day, worker, Honest, Justified
  <2> QED
    BY <1>2, <2>1, <2>3 DEF Good, Older
<1>3. Rows'
  <2> SUFFICES ASSUME NEW i \in Ips, reputation'[i] # Null
               PROVE  Good(i, reputation[i])'
    BY DEF Rows
  <2>1. reputation'[i] = Older(reputation[i]) /\ reputation[i] # Null
    BY DEF Day, Older
  <2>2. reputation[i] \in Record /\ Good(i, reputation[i])
    BY <2>1 DEF IInv, TypeOK, Rows
  <2>3. PICK r \in Record : r = reputation[i]
    BY <2>2
  <2>4. Good(i, Older(r))'
    BY <1>2, <2>1, <2>2, <2>3
  <2>5. Good(i, reputation[i])' <=> Good(i, Older(r))'
    BY <2>1, <2>3 DEF Good, Honest, Justified, Older
  <2> QED
    BY <2>4, <2>5
<1>4. Caches'
  <2> SUFFICES ASSUME NEW w \in Workers, NEW i \in Ips, cache'[w][i] # Null
               PROVE  Good(i, cache[w][i])'
    BY DEF Caches
  <2>1. cache'[w][i] = Older(cache[w][i]) /\ cache[w][i] # Null
    BY DEF Day, Older
  <2>2. cache[w][i] \in Record /\ Good(i, cache[w][i])
    BY <2>1 DEF IInv, TypeOK, Caches
  <2> QED
    BY <1>2, <2>1, <2>2 DEF Good, Honest, Justified
<1>5. Records'
  <2> SUFFICES ASSUME NEW w \in Workers
               PROVE  /\ pc[w] \in {"locate", "score"} => Blank(record[w])'
                      /\ pc[w] = "save" => Good(ip[w], record[w])'
    BY DEF Records, Day
  <2>1. record'[w] = Older(record[w]) /\ record[w] \in Record /\ record[w] # Null
    BY NoRowIsNull DEF Day, IInv, TypeOK
  <2>2. /\ record'[w].abuse = record[w].abuse /\ record'[w].source = record[w].source
        /\ record'[w].profile = record[w].profile
    BY <2>1, OlderIsARecord
  <2>3. pc[w] = "save" => ip[w] \in Ips
    BY DEF IInv, TypeOK
  <2>4. CASE pc[w] = "save"
    <3>1. PICK i \in Ips, r \in Record : i = ip[w] /\ r = record[w] /\ r # Null /\ Good(i, r)
      BY <2>1, <2>3, <2>4 DEF IInv, Records
    <3>2. Good(i, Older(r))'
      BY <1>2, <3>1
    <3>3. ip'[w] = i /\ record'[w] = Older(r)
      BY <2>1, <3>1 DEF Day
    <3>4. Good(ip[w], record[w])' <=> Good(i, Older(r))'
      BY <3>3 DEF Good, Honest, Justified, Older
    <3> QED
      BY <2>4, <3>2, <3>4
  <2>5. CASE pc[w] # "save"
    BY <2>2, <2>5 DEF IInv, Records, Blank
  <2> QED
    BY <2>4, <2>5
<1> QED
  BY <1>1, <1>3, <1>4, <1>5 DEF IInv

\* Where what is known of an address stays as it was, and what was answered and stored of
\* it only grows, the records stay good.
LEMMA Kept ==
    ASSUME IInv, TypeOK', NEW i \in Ips,
           answers[i] \subseteq answers'[i],
           activity[i].sessions <= activity'[i].sessions,
           activity[i].commands <= activity'[i].commands
    PROVE  \A r \in Record : Good(i, r) => Good(i, r)'
<1> SUFFICES ASSUME NEW r \in Record, Good(i, r) PROVE Good(i, r)'
  OBVIOUS
<1>1. r.profile \in 0 .. 100
  BY DEF Record
<1> QED
  BY <1>1, GoodStays DEF IInv

\* What a step has to show: what it did to a row, a cache or a worker's record, if anything.
LEMMA Preserved ==
    ASSUME IInv, TypeOK',
           \A i \in Ips : \A r \in Record : Good(i, r) => Good(i, r)',
           \A i \in Ips : \/ reputation'[i] = reputation[i]
                          \/ Good(i, reputation[i])',
           \A v \in Workers, i \in Ips : \/ cache'[v][i] \in {cache[v][i], Null}
                                         \/ Good(i, cache[v][i])',
           \A v \in Workers : \/ /\ pc'[v] = pc[v] /\ ip'[v] = ip[v]
                                 /\ record'[v] = record[v]
                              \/ pc'[v] \in {"wait", "next"}
                              \/ pc'[v] \in {"locate", "score"} /\ Blank(record[v])'
                              \/ pc'[v] = "save" /\ Good(ip[v], record[v])'
    PROVE  IInv'
<1>1. Rows'
  <2> SUFFICES ASSUME NEW i \in Ips, reputation'[i] # Null
               PROVE  Good(i, reputation[i])'
    BY DEF Rows
  <2>1. CASE reputation'[i] = reputation[i]
    <3>1. PICK r \in Record : r = reputation[i] /\ Good(i, r)
      BY <2>1 DEF IInv, TypeOK, Rows
    <3>2. Good(i, r)' /\ reputation'[i] = r
      BY <2>1, <3>1
    <3> QED
      BY <3>2 DEF Good, Honest, Justified
  <2> QED
    BY <2>1
<1>2. Caches'
  <2> SUFFICES ASSUME NEW w \in Workers, NEW i \in Ips, cache'[w][i] # Null
               PROVE  Good(i, cache[w][i])'
    BY DEF Caches
  <2>1. CASE cache'[w][i] = cache[w][i]
    <3>1. PICK r \in Record : r = cache[w][i] /\ Good(i, r)
      BY <2>1 DEF IInv, TypeOK, Caches
    <3>2. Good(i, r)' /\ cache'[w][i] = r
      BY <2>1, <3>1
    <3> QED
      BY <3>2 DEF Good, Honest, Justified
  <2> QED
    BY <2>1
<1>3. ASSUME NEW w \in Workers, pc'[w] = pc[w], ip'[w] = ip[w], record'[w] = record[w],
             pc[w] = "save"
      PROVE  Good(ip[w], record[w])'
  <2>1. PICK i \in Ips, r \in Record : i = ip[w] /\ r = record[w] /\ Good(i, r)
    BY <1>3 DEF IInv, TypeOK, Records
  <2>2. Good(i, r)'
    BY <2>1
  <2>3. record'[w] = r /\ ip'[w] = i
    BY <1>3, <2>1
  <2>4. Good(ip[w], record[w])' <=> Good(i, r)'
    BY <2>3 DEF Good, Honest, Justified
  <2> QED
    BY <2>2, <2>4
<1>4. Records'
  <2> SUFFICES ASSUME NEW w \in Workers
               PROVE  /\ pc'[w] \in {"locate", "score"} => Blank(record[w])'
                      /\ pc'[w] = "save" => Good(ip[w], record[w])'
    BY DEF Records
  <2>1. CASE pc'[w] = pc[w] /\ ip'[w] = ip[w] /\ record'[w] = record[w]
    <3>1. pc'[w] \in {"locate", "score"} => Blank(record[w])'
      BY <2>1 DEF IInv, Records, Blank
    <3> QED
      BY <1>3, <2>1, <3>1
  <2> QED
    BY <2>1
<1> QED
  BY <1>1, <1>2, <1>4 DEF IInv

LEMMA AttackKeeps == ASSUME IInv, NEW j \in Ips, Attack(j) PROVE IInv'
<1>0. /\ activity' \in [Ips -> [sessions : 0 .. MaxActivity, commands : 0 .. MaxActivity]]
      /\ \A i \in Ips : /\ activity[i].sessions <= activity'[i].sessions
                        /\ activity[i].commands <= activity'[i].commands
  <2>1. PICK most \in Nat : most = MaxActivity
    BY EnricherAssumption
  <2>2. activity \in [Ips -> [sessions : 0 .. most, commands : 0 .. most]]
    BY <2>1 DEF IInv, TypeOK
  <2>3. CASE /\ activity[j].sessions < most
             /\ activity' = [activity EXCEPT ![j].sessions = @ + 1]
    <3>1. PICK more \in [sessions : 0 .. most, commands : 0 .. most] :
              /\ more = [activity[j] EXCEPT !.sessions = @ + 1]
              /\ activity[j].sessions <= more.sessions
              /\ activity[j].commands <= more.commands
      <4>1. activity[j].sessions \in 0 .. most /\ activity[j].commands \in 0 .. most
        BY <2>2
      <4>2. activity[j].sessions + 1 \in 0 .. most
        BY <2>3, <4>1
      <4>3. [activity[j] EXCEPT !.sessions = @ + 1] =
                [sessions |-> activity[j].sessions + 1, commands |-> activity[j].commands]
        BY <2>2
      <4> QED
        BY <4>1, <4>2, <4>3
    <3>2. activity' = [activity EXCEPT ![j] = more]
      BY <2>2, <2>3, <3>1
    <3> QED
      BY <2>1, <2>2, <3>1, <3>2
  <2>4. CASE /\ activity[j].commands < most
             /\ activity' = [activity EXCEPT ![j].commands = @ + 1]
    <3>1. PICK more \in [sessions : 0 .. most, commands : 0 .. most] :
              /\ more = [activity[j] EXCEPT !.commands = @ + 1]
              /\ activity[j].sessions <= more.sessions
              /\ activity[j].commands <= more.commands
      <4>1. activity[j].sessions \in 0 .. most /\ activity[j].commands \in 0 .. most
        BY <2>2
      <4>2. activity[j].commands + 1 \in 0 .. most
        BY <2>4, <4>1
      <4>3. [activity[j] EXCEPT !.commands = @ + 1] =
                [sessions |-> activity[j].sessions, commands |-> activity[j].commands + 1]
        BY <2>2
      <4> QED
        BY <4>1, <4>2, <4>3
    <3>2. activity' = [activity EXCEPT ![j] = more]
      BY <2>2, <2>4, <3>1
    <3> QED
      BY <2>1, <2>2, <3>1, <3>2
  <2> QED
    BY <2>1, <2>3, <2>4 DEF Attack
<1>1. TypeOK'
  BY <1>0 DEF Attack, worker, IInv, TypeOK
<1>2. \A i \in Ips : \A r \in Record : Good(i, r) => Good(i, r)'
  BY <1>0, <1>1, Kept DEF Attack
<1>3. UNCHANGED <<reputation, pc, ip, record, cache>>
  BY DEF Attack, worker
<1> QED
  BY <1>1, <1>2, <1>3, Preserved

LEMMA RestartKeeps == ASSUME IInv, NEW w \in Workers, Restart(w) PROVE IInv'
<1>1. TypeOK'
  <2>1. Unknown \in Record
    BY EnricherAssumption DEF Unknown, Record, Age
  <2>2. faults' \in 0 .. MaxFault
    BY EnricherAssumption DEF Restart, IInv, TypeOK
  <2>3. keyed' \in [Workers -> BOOLEAN]
    BY DEF Restart, IInv, TypeOK
  <2>4. cache' \in [Workers -> [Ips -> Record \cup {Null}]]
    BY DEF Restart, IInv, TypeOK
  <2>5. /\ record' \in [Workers -> Record] /\ todo' \in [Workers -> SUBSET Ips]
        /\ UNCHANGED <<activity, reputation, answers>>
    BY <2>1 DEF Restart, IInv, TypeOK
  <2>6. /\ pc' \in [Workers -> {"wait", "next", "locate", "score", "save"}]
        /\ ip' \in [Workers -> Ips \cup {Null}]
        /\ \A v \in Workers : ip'[v] = Null <=> pc'[v] \in {"wait", "next"}
    BY DEF Restart, IInv, TypeOK
  <2> QED
    BY <2>2, <2>3, <2>4, <2>5, <2>6 DEF IInv, TypeOK
<1>2. \A i \in Ips : \A r \in Record : Good(i, r) => Good(i, r)'
  BY DEF Restart, Good, Honest, Justified
<1>3. /\ UNCHANGED reputation
      /\ \A v \in Workers, i \in Ips : cache'[v][i] \in {cache[v][i], Null}
      /\ \A v \in Workers : \/ pc'[v] = pc[v] /\ ip'[v] = ip[v] /\ record'[v] = record[v]
                            \/ pc'[v] = "wait"
  BY DEF Restart, IInv, TypeOK
<1> QED
  BY <1>1, <1>2, <1>3, Preserved

LEMMA SelectKeeps == ASSUME IInv, NEW w \in Workers, Select(w) \/ Done(w) PROVE IInv'
<1>1. TypeOK'
  <2>1. /\ pc' \in [Workers -> {"wait", "next", "locate", "score", "save"}]
        /\ \A v \in Workers : ip'[v] = Null <=> pc'[v] \in {"wait", "next"}
    BY DEF Select, Done, IInv, TypeOK
  <2>2. todo' \in [Workers -> SUBSET Ips]
    <3>1. NeedingEnrichment \in SUBSET Ips
      BY Zenon DEF NeedingEnrichment, Due, Seen
    <3> QED
      BY <3>1 DEF Select, Done, IInv, TypeOK
  <2> QED
    BY <2>1, <2>2 DEF Select, Done, IInv, TypeOK
<1>2. \A i \in Ips : \A r \in Record : Good(i, r) => Good(i, r)'
  BY DEF Select, Done, Good, Honest, Justified
<1>3. /\ UNCHANGED <<reputation, cache>>
      /\ \A v \in Workers : \/ pc'[v] = pc[v] /\ ip'[v] = ip[v] /\ record'[v] = record[v]
                            \/ pc'[v] \in {"wait", "next"}
  BY DEF Select, Done, IInv, TypeOK
<1> QED
  BY <1>1, <1>2, <1>3, Preserved

LEMMA LocatedKeeps == ASSUME IInv, NEW w \in Workers, Located(w) PROVE IInv'
<1>1. TypeOK'
  BY DEF Located, IInv, TypeOK
<1>2. \A i \in Ips : \A r \in Record : Good(i, r) => Good(i, r)'
  BY DEF Located, Good, Honest, Justified
<1>3. Blank(record[w]) /\ UNCHANGED record
  BY DEF Located, IInv, Records
<1>4. Blank(record[w])'
  BY <1>3 DEF Blank
<1>5. /\ UNCHANGED <<reputation, cache>>
      /\ \A v \in Workers : \/ pc'[v] = pc[v] /\ ip'[v] = ip[v] /\ record'[v] = record[v]
                            \/ v = w /\ pc'[v] = "score"
  BY DEF Located, IInv, TypeOK
<1> QED
  BY <1>1, <1>2, <1>4, <1>5, Preserved

LEMMA TakeKeeps == ASSUME IInv, NEW w \in Workers, Take(w) PROVE IInv'
<1>1. PICK i \in Ips : i = Min(todo[w])
  BY FirstOf, EnricherAssumption DEF Take, IInv, TypeOK
<1>2. PICK r \in Record :
          /\ record' = [record EXCEPT ![w] = r]
          /\ \/ /\ pc' = [pc EXCEPT ![w] = "save"]
                /\ \/ i \in Bridge /\ r.profile = 0
                   \/ r = cache[w][i] /\ cache[w][i] # Null
             \/ /\ pc' = [pc EXCEPT ![w] = "locate"]
                /\ r = Unknown
  <2>1. Unknown \in Record
    BY EnricherAssumption DEF Unknown, Record, Age
  <2>2. CASE i \in Bridge
    <3>0. PICK s \in SUBSET Sources : s = {"System Filter"}
      BY DEF Sources
    <3>1. PICK r \in Record :
              /\ r = [Unknown EXCEPT !.abuse = 0, !.located = TRUE, !.source = s]
              /\ r.profile = 0
      <4>1. PICK u \in Record : u = Unknown /\ u.profile = 0
        BY <2>1 DEF Unknown
      <4>2. /\ [u EXCEPT !.abuse = 0, !.located = TRUE, !.source = s] \in Record
            /\ [u EXCEPT !.abuse = 0, !.located = TRUE, !.source = s].profile = 0
        BY <4>1, ZenonT(60) DEF Record
      <4> QED
        BY <4>1, <4>2, Zenon
    <3>3. record' = [record EXCEPT ![w] = r] /\ pc' = [pc EXCEPT ![w] = "save"]
      BY <1>1, <2>2, <3>0, <3>1, Zenon DEF Take
    <3> QED
      BY <2>2, <3>1, <3>3
  <2>3. CASE i \notin Bridge /\ cache[w][i] # Null
    <3>1. PICK r \in Record : r = cache[w][i]
      BY <2>3 DEF IInv, TypeOK
    <3>2. record' = [record EXCEPT ![w] = r] /\ pc' = [pc EXCEPT ![w] = "save"]
      BY <1>1, <2>3, <3>1, Zenon DEF Take
    <3> QED
      BY <2>3, <3>1, <3>2
  <2>4. CASE i \notin Bridge /\ cache[w][i] = Null
    <3>1. record' = [record EXCEPT ![w] = Unknown] /\ pc' = [pc EXCEPT ![w] = "locate"]
      BY <1>1, <2>4, Zenon DEF Take
    <3> QED
      BY <2>1, <3>1
  <2> QED
    BY <2>2, <2>3, <2>4
<1>3. /\ todo' = [todo EXCEPT ![w] = todo[w] \ {i}] /\ ip' = [ip EXCEPT ![w] = i]
      /\ UNCHANGED <<activity, reputation, cache, keyed, faults, answers>>
  BY <1>1, Zenon DEF Take
<1>4. TypeOK'
  <2>1. /\ pc' \in [Workers -> {"wait", "next", "locate", "score", "save"}]
        /\ ip' \in [Workers -> Ips \cup {Null}]
        /\ \A v \in Workers : ip'[v] = Null <=> pc'[v] \in {"wait", "next"}
    BY <1>2, <1>3, EnricherAssumption DEF IInv, TypeOK
  <2>2. record' \in [Workers -> Record] /\ todo' \in [Workers -> SUBSET Ips]
    BY <1>2, <1>3 DEF IInv, TypeOK
  <2> QED
    BY <1>3, <2>1, <2>2 DEF IInv, TypeOK
<1>5. \A j \in Ips : \A q \in Record : Good(j, q) => Good(j, q)'
  BY <1>3 DEF Good, Honest, Justified
<1>6. pc'[w] \in {"save", "locate"} /\ record'[w] = r /\ ip'[w] = i
  BY <1>2, <1>3 DEF IInv, TypeOK
<1>7. ASSUME pc'[w] = "save" PROVE Good(ip[w], record[w])'
  <2>1. Good(i, r)'
    <3>1. \/ i \in Bridge /\ r.profile = 0
          \/ r = cache[w][i] /\ cache[w][i] # Null
      BY <1>2, <1>7 DEF IInv, TypeOK
    <3>2. CASE i \in Bridge /\ r.profile = 0
      BY <3>2 DEF Good, Justified
    <3>3. CASE r = cache[w][i] /\ cache[w][i] # Null
      <4>1. Good(i, r)
        BY <3>3 DEF IInv, Caches
      <4> QED
        BY <1>5, <4>1
    <3> QED
      BY <3>1, <3>2, <3>3
  <2>2. Good(ip[w], record[w])' <=> Good(i, r)'
    BY <1>6 DEF Good, Honest, Justified
  <2> QED
    BY <2>1, <2>2
<1>8. ASSUME pc'[w] = "locate" PROVE Blank(record[w])'
  <2>1. r = Unknown
    BY <1>2, <1>8 DEF IInv, TypeOK
  <2> QED
    BY <1>6, <2>1 DEF Blank, Unknown
<1>9. \A v \in Workers : \/ pc'[v] = pc[v] /\ ip'[v] = ip[v] /\ record'[v] = record[v]
                         \/ v = w
  BY <1>2, <1>3 DEF IInv, TypeOK
<1> QED
  BY <1>3, <1>4, <1>5, <1>6, <1>7, <1>8, <1>9, Preserved

LEMMA LookupFailsKeeps == ASSUME IInv, NEW w \in Workers, LookupFails(w) PROVE IInv'
<1>1. PICK r \in Record : /\ record' = [record EXCEPT ![w] = r]
                          /\ r.abuse = Null /\ r.profile = 0 /\ r.source = {"Error Fallback"}
  <2>1. record[w] \in Record /\ Blank(record[w])
    BY DEF LookupFails, IInv, TypeOK, Records
  <2>2. PICK s \in SUBSET Sources : s = {"Error Fallback"}
    BY DEF Sources
  <2>3. PICK r \in Record : r = [record[w] EXCEPT !.source = s]
    BY <2>1 DEF Record
  <2>4. r.abuse = Null /\ r.profile = 0 /\ r.source = s
    BY <2>1, <2>3 DEF Record, Blank
  <2>5. record' = [record EXCEPT ![w] = r]
    BY <2>2, <2>3 DEF LookupFails, IInv, TypeOK
  <2> QED
    BY <2>2, <2>4, <2>5
<1>2. TypeOK'
  <2>1. /\ pc' \in [Workers -> {"wait", "next", "locate", "score", "save"}]
        /\ \A v \in Workers : ip'[v] = Null <=> pc'[v] \in {"wait", "next"}
    BY DEF LookupFails, IInv, TypeOK
  <2>2. record' \in [Workers -> Record]
    BY <1>1 DEF IInv, TypeOK
  <2> QED
    BY <2>1, <2>2 DEF LookupFails, IInv, TypeOK
<1>3. \A j \in Ips : \A q \in Record : Good(j, q) => Good(j, q)'
  BY DEF LookupFails, Good, Honest, Justified
<1>4. pc'[w] = "save" /\ Good(ip[w], record[w])'
  <2>1. pc'[w] = "save" /\ record'[w] = r
    BY <1>1 DEF LookupFails, IInv, TypeOK
  <2> QED
    BY <1>1, <2>1, ZenonT(60) DEF Good, Honest, Justified
<1>5. \A v \in Workers : \/ pc'[v] = pc[v] /\ ip'[v] = ip[v] /\ record'[v] = record[v]
                         \/ v = w
  BY <1>1 DEF LookupFails, IInv, TypeOK
<1>6. UNCHANGED <<reputation, cache>>
  BY DEF LookupFails
<1> QED
  BY <1>2, <1>3, <1>4, <1>5, <1>6, Preserved

\* What Score makes is good: the score is one that was given, and the profile score follows
\* from it and the activity there is.
LEMMA MadeIsGood ==
    ASSUME TypeOK, NEW i \in Ips, NEW w \in Workers, NEW reply \in Scores \cup {Null},
           NEW seen \in {activity[i], NoMetrics}, UNCHANGED activity,
           reply # Null => reply \in answers'[i],
           NEW made, made = Made(w, reply, seen)
    PROVE  made \in Record /\ Good(i, made)'
<1> DEFINE abuse == AbuseScore(reply)
<1>1. /\ abuse \in 0 .. 100 \cup {Null}
      /\ abuse # Null => abuse = reply
  BY EnricherAssumption DEF AbuseScore
<1>2. /\ seen \in [sessions : Nat, commands : Nat]
      /\ seen.sessions <= activity[i].sessions /\ seen.commands <= activity[i].commands
      /\ activity[i].sessions \in Nat /\ activity[i].commands \in Nat
  <2>1. activity[i] \in [sessions : Nat, commands : Nat]
    BY EnricherAssumption DEF TypeOK
  <2> QED
    BY <2>1 DEF NoMetrics
<1>3. /\ made \in Record
      /\ made.abuse = abuse
      /\ made.source = {"ip-api"} \cup IF abuse = Null THEN {} ELSE {"AbuseIPDB"}
      /\ made.profile = ProfileScore(abuse, seen)
  BY <1>2, MadeIsARecord
<1>4. PICK a \in {abuse, 0} \ {Null} :
          ProfileScore(abuse, seen) <= Min({100, a + 5 * seen.sessions + 2 * seen.commands})
  BY <1>1, <1>2, ScoreInRange
<1>5. ProfileScore(abuse, seen) \in 0 .. 100
  BY <1>1, <1>2, ScoreInRange
<1> HIDE DEF abuse
<1>6. PICK m \in Record : m = made
  BY <1>3
<1>7. Honest(i, m)'
  <2>1. m.abuse \in answers'[i] \cup {Null}
    BY <1>1, <1>3, <1>6
  <2>2. m.abuse # Null <=> "AbuseIPDB" \in m.source
    BY <1>3, <1>6
  <2> QED
    BY <2>1, <2>2 DEF Honest
<1>8. Justified(i, m)'
  <2>1. a \in Nat /\ a \in answers'[i] \cup {0}
    BY <1>1, <1>4
  <2> DEFINE less == a + 5 * seen.sessions + 2 * seen.commands
             more == a + 5 * activity[i].sessions + 2 * activity[i].commands
  <2>2. less \in Int /\ more \in Int /\ less <= more
    BY <1>2, <2>1
  <2>3. m.profile \in Int /\ m.profile <= Min({100, less})
    BY <1>3, <1>4, <1>5, <1>6
  <2> HIDE DEF less, more
  <2>4. Min({100, less}) = (IF 100 <= less THEN 100 ELSE less)
    BY <2>2, MinOfTwo
  <2>5. Min({100, more}) = (IF 100 <= more THEN 100 ELSE more)
    BY <2>2, MinOfTwo
  <2>6. m.profile <= Min({100, more})
    BY <2>2, <2>3, <2>4, <2>5
  <2> QED
    BY <2>1, <2>6 DEF Justified, more
<1>9. Good(i, m)'
  BY <1>7, <1>8 DEF Good
<1>10. Good(i, made)' <=> Good(i, m)'
  BY <1>6 DEF Good, Honest, Justified
<1> QED
  BY <1>3, <1>9, <1>10

LEMMA ScoreKeeps ==
    ASSUME IInv, NEW w \in Workers, NEW reply \in Scores \cup {Null}, Score(w, reply)
    PROVE  IInv'
<1>1. PICK i \in Ips : i = ip[w]
  BY DEF Score, IInv, TypeOK
<1>0. PICK seen \in {activity[i], NoMetrics} :
          /\ record' = [record EXCEPT ![w] = Made(w, reply, seen)]
          /\ \/ cache' = cache
             \/ cache' = [cache EXCEPT ![w][i] = Made(w, reply, seen)]
  BY <1>1, Zenon DEF Score, Made
<1>2. PICK made : /\ made = Made(w, reply, seen)
                  /\ record' = [record EXCEPT ![w] = made]
                  /\ cache' = cache \/ cache' = [cache EXCEPT ![w][i] = made]
  BY <1>0
<1>3. /\ pc[w] = "score" /\ pc' = [pc EXCEPT ![w] = "save"]
      /\ answers' = IF reply = Null THEN answers
                    ELSE [answers EXCEPT ![i] = answers[i] \cup {reply}]
      /\ UNCHANGED <<activity, reputation, todo, ip, keyed, faults>>
  BY <1>1, Zenon DEF Score
<1>4. /\ answers' \in [Ips -> SUBSET Scores]
      /\ reply # Null => reply \in answers'[i]
      /\ \A j \in Ips : answers[j] \subseteq answers'[j]
  BY <1>3 DEF IInv, TypeOK
<1>5. made \in Record /\ Good(i, made)'
  BY <1>2, <1>3, <1>4, MadeIsGood DEF IInv
<1>6. TypeOK'
  <2>1. /\ pc' \in [Workers -> {"wait", "next", "locate", "score", "save"}]
        /\ \A v \in Workers : ip'[v] = Null <=> pc'[v] \in {"wait", "next"}
    BY <1>3 DEF IInv, TypeOK
  <2>2. record' \in [Workers -> Record]
    BY <1>2, <1>5 DEF IInv, TypeOK
  <2>3. CASE cache' = cache
    BY <1>3, <1>4, <2>1, <2>2, <2>3 DEF IInv, TypeOK
  <2>4. CASE cache' = [cache EXCEPT ![w][i] = made]
    <3>1. cache \in [Workers -> [Ips -> Record \cup {Null}]]
      BY DEF IInv, TypeOK
    <3>2. cache' \in [Workers -> [Ips -> Record \cup {Null}]]
      BY ONLY <1>5, <2>4, <3>1, w \in Workers, i \in Ips
    <3> QED
      BY <1>3, <1>4, <2>1, <2>2, <3>2 DEF IInv, TypeOK
  <2> QED
    BY <1>2, <2>3, <2>4
<1>7. \A j \in Ips : \A q \in Record : Good(j, q) => Good(j, q)'
  <2>1. \A j \in Ips : /\ activity[j].sessions <= activity'[j].sessions
                       /\ activity[j].commands <= activity'[j].commands
    BY <1>3, EnricherAssumption DEF IInv, TypeOK
  <2> QED
    BY <1>4, <1>6, <2>1, Kept
<1>8. pc'[w] = "save" /\ Good(ip[w], record[w])'
  <2>1. pc'[w] = "save" /\ ip'[w] = i /\ record'[w] = made
    BY <1>1, <1>2, <1>3 DEF IInv, TypeOK
  <2> QED
    BY <1>5, <2>1 DEF Good, Honest, Justified
<1>9. ASSUME NEW v \in Workers, NEW j \in Ips, cache'[v][j] # cache[v][j]
      PROVE  Good(j, cache[v][j])'
  <2>0. cache \in [Workers -> [Ips -> Record \cup {Null}]]
    BY DEF IInv, TypeOK
  <2>1. j = i /\ cache'[v][j] = made
    BY ONLY <1>2, <1>9, <2>0, w \in Workers, v \in Workers, i \in Ips, j \in Ips
  <2> QED
    BY <1>5, <2>1 DEF Good, Honest, Justified
<1>10. \A v \in Workers : \/ pc'[v] = pc[v] /\ ip'[v] = ip[v] /\ record'[v] = record[v]
                          \/ v = w
  BY <1>2, <1>3 DEF IInv, TypeOK
<1>11. UNCHANGED reputation
  BY <1>3
<1> QED
  BY <1>6, <1>7, <1>8, <1>9, <1>10, <1>11, Preserved

\* A row that is good stays good when a good record is merged into it.
LEMMA UpsertIsGood ==
    ASSUME TypeOK, NEW i \in Ips, NEW old \in Record \cup {Null}, NEW new \in Record,
           old # Null => Good(i, old), Good(i, new)
    PROVE  Good(i, Upsert(old, new))
<1>1. CASE old = Null
  BY <1>1 DEF Upsert
<1>2. CASE old # Null
  <2>1. /\ Upsert(old, new).abuse = Either(new.abuse, old.abuse)
        /\ Upsert(old, new).source = old.source \cup new.source
        /\ Upsert(old, new).profile = new.profile
    BY <1>2 DEF Upsert
  <2>2. i \notin Bridge => Honest(i, Upsert(old, new))
    <3> SUFFICES ASSUME i \notin Bridge PROVE Honest(i, Upsert(old, new))
      OBVIOUS
    <3>1. Honest(i, old) /\ Honest(i, new)
      BY <1>2 DEF Good
    <3> QED
      BY <2>1, <3>1 DEF Honest, Either
  <2>3. Justified(i, Upsert(old, new))
    BY <2>1 DEF Good, Justified
  <2> QED
    BY <2>2, <2>3 DEF Good
<1> QED
  BY <1>1, <1>2

LEMMA SaveKeeps == ASSUME IInv, NEW w \in Workers, Save(w) \/ SaveFails(w) PROVE IInv'
<1>1. PICK i \in Ips, new \in Record : i = ip[w] /\ new = record[w] /\ Good(i, new)
  BY DEF Save, SaveFails, Saved, IInv, TypeOK, Records
<1>2. PICK row : row = Upsert(reputation[i], new)
  OBVIOUS
<1>3. row \in Record
  BY <1>2, UpsertIsARecord DEF IInv, TypeOK
<1>4. Good(i, row)
  BY <1>1, <1>2, UpsertIsGood DEF IInv, TypeOK, Rows
<1>5. reputation' \in {reputation, [reputation EXCEPT ![i] = row]}
  BY <1>1, <1>2 DEF Save, SaveFails
<1>6. TypeOK'
  <2>1. Unknown \in Record
    BY EnricherAssumption DEF Unknown, Record, Age
  <2>2. /\ pc' \in [Workers -> {"wait", "next", "locate", "score", "save"}]
        /\ ip' \in [Workers -> Ips \cup {Null}]
        /\ \A v \in Workers : ip'[v] = Null <=> pc'[v] \in {"wait", "next"}
    BY DEF Save, SaveFails, Saved, IInv, TypeOK
  <2>3. reputation' \in [Ips -> Record \cup {Null}]
    BY <1>3, <1>5 DEF IInv, TypeOK
  <2>4. faults' \in 0 .. MaxFault
    BY EnricherAssumption DEF Save, SaveFails, IInv, TypeOK
  <2>5. record' \in [Workers -> Record]
    BY <2>1 DEF Save, SaveFails, Saved, IInv, TypeOK
  <2> QED
    BY <2>2, <2>3, <2>4, <2>5 DEF Save, SaveFails, Saved, IInv, TypeOK
<1>7. \A j \in Ips : \A q \in Record : Good(j, q) => Good(j, q)'
  BY DEF Save, SaveFails, Saved, Good, Honest, Justified
<1>8. ASSUME NEW j \in Ips, reputation'[j] # reputation[j]
      PROVE  Good(j, reputation[j])'
  <2>1. j = i /\ reputation'[j] = row
    BY <1>5, <1>8 DEF IInv, TypeOK
  <2>2. Good(i, row)'
    BY <1>3, <1>4, <1>7
  <2> QED
    BY <2>1, <2>2 DEF Good, Honest, Justified
<1>9. \A v \in Workers : \/ pc'[v] = pc[v] /\ ip'[v] = ip[v] /\ record'[v] = record[v]
                         \/ pc'[v] = "next"
  BY DEF Save, SaveFails, Saved, IInv, TypeOK
<1>10. UNCHANGED cache
  BY DEF Save, SaveFails, Saved
<1> QED
  BY <1>6, <1>7, <1>8, <1>9, <1>10, Preserved

-----------------------------------------------------------------------------
(* The theorems *)

LEMMA Inductive == IInv /\ [Next]_vars => IInv'
<1> SUFFICES ASSUME IInv, [Next]_vars PROVE IInv'
  OBVIOUS
<1>1. CASE Day
  BY <1>1, DayKeeps
<1>2. ASSUME NEW i \in Ips, Attack(i) PROVE IInv'
  BY <1>2, AttackKeeps
<1>3. ASSUME NEW w \in Workers, Pass(w) PROVE IInv'
  <2>1. ASSUME NEW reply \in Scores \cup {Null}, Score(w, reply) PROVE IInv'
    BY <2>1, ScoreKeeps
  <2> QED
    BY <1>3, <2>1, SelectKeeps, TakeKeeps, LocatedKeeps, LookupFailsKeeps, SaveKeeps DEF Pass
<1>4. ASSUME NEW w \in Workers, Restart(w) PROVE IInv'
  BY <1>4, RestartKeeps
<1>5. CASE UNCHANGED vars
  <2>1. UNCHANGED <<activity, reputation, worker, faults, answers>>
    BY <1>5 DEF vars
  <2>2. TypeOK'
    BY <2>1 DEF worker, IInv, TypeOK
  <2>3. \A j \in Ips : \A q \in Record : Good(j, q) => Good(j, q)'
    BY <2>1 DEF Good, Honest, Justified
  <2> QED
    BY <2>1, <2>2, <2>3, Preserved DEF worker
<1> QED
  BY <1>1, <1>2, <1>3, <1>4, <1>5 DEF Next

LEMMA Invariant == Spec => []IInv
<1> QED
  BY Initially, Inductive, PTL DEF Spec

\* Rows, records and caches keep their types (get_threat_intel, upsert_reputation), whatever
\* workers, days, restarts and lost writes do.
THEOREM TypeCorrect == Spec => []TypeOK
<1>1. IInv => TypeOK
  BY DEF IInv
<1> QED
  BY <1>1, Invariant, PTL

\* No row claims a score that AbuseIPDB did not give for that address (_fetch_abuse_score,
\* upsert_reputation), but for those of the system filter.
THEOREM Honesty == Spec => []HonestScores
<1>1. IInv => HonestScores
  BY DEF IInv, Rows, Good, Honest, HonestScores
<1> QED
  BY <1>1, Invariant, PTL

\* No profile score claims more than the activity stored and the scores given
\* (calculate_dynamic_profile_score), from however old a record it was written.
THEOREM Justification == Spec => []ProfileJustified
<1>1. IInv => ProfileJustified
  BY DEF IInv, Rows, Good, Justified, ProfileJustified
<1> QED
  BY <1>1, Invariant, PTL

\* What is true of a row before and after a step that forgets nothing.
Keeps(old, new) ==
    old # Null =>
        /\ new # Null
        /\ old.located => new.located
        /\ old.abuse # Null => new.abuse # Null
        /\ old.source \subseteq new.source

\* upsert_reputation forgets nothing, whichever worker wrote the row and whichever writes it
\* now; and nothing else but time touches a row.
THEOREM NothingIsForgotten == Spec => NothingForgotten
<1>1. ASSUME IInv, [Next]_vars, NEW i \in Ips
      PROVE  Keeps(reputation[i], reputation'[i])
  <2>0. reputation[i] \in Record \cup {Null}
    BY <1>1 DEF IInv, TypeOK
  <2>1. CASE reputation'[i] = reputation[i]
    BY <2>1 DEF Keeps
  <2>2. CASE Day
    <3>1. reputation'[i] = Older(reputation[i])
      BY <2>2 DEF Day
    <3> QED
      BY <2>0, <3>1, OlderIsARecord DEF Keeps
  <2>3. ASSUME NEW w \in Workers, Save(w) PROVE Keeps(reputation[i], reputation'[i])
    <3>1. PICK new \in Record : new = record[w]
      BY <1>1 DEF IInv, TypeOK
    <3>2. reputation'[i] \in {reputation[i], Upsert(reputation[i], new)}
      BY <1>1, <2>3, <3>1 DEF Save, IInv, TypeOK
    <3>3. Keeps(reputation[i], Upsert(reputation[i], new))
      <4> SUFFICES ASSUME reputation[i] # Null
                   PROVE  Keeps(reputation[i], Upsert(reputation[i], new))
        BY DEF Keeps
      <4>1. Upsert(reputation[i], new) # Null
        BY <2>0, UpsertIsARecord, NoRowIsNull
      <4> QED
        BY <4>1 DEF Upsert, Either, Keeps
    <3> QED
      BY <2>1, <3>2, <3>3
  <2>4. Day \/ (\E w \in Workers : Save(w)) \/ UNCHANGED reputation
    BY <1>1 DEF Next, vars, Attack, Pass, Select, Take, Located, LookupFails, Score,
                SaveFails, Done, Restart
  <2> QED
    BY <2>1, <2>2, <2>3, <2>4
<1>2. IInv /\ [Next]_vars =>
        [\A i \in Ips : reputation[i] # Null =>
          /\ reputation'[i] # Null
          /\ reputation[i].located => reputation'[i].located
          /\ reputation[i].abuse # Null => reputation'[i].abuse # Null
          /\ reputation[i].source \subseteq reputation'[i].source]_vars
  BY <1>1 DEF Keeps
<1> QED
  BY <1>2, Invariant, PTL DEF Spec, NothingForgotten
=============================================================================
