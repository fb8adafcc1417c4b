------------------------------- MODULE Enricher -------------------------------
(***************************************************************************)
(* The enricher: core/enricher/enrich.py over the reputation table.        *)
(*                                                                         *)
(* Workers are processes: the thread of serve and the standalone script.   *)
(* Each query, each answer of ip-api and of AbuseIPDB and each transaction *)
(* of a pass is a step.  Addresses are numbers, in the order of ORDER BY.  *)
(* Time is kept as ages in days, capped one past MaxAge: older is the same.*)
(***************************************************************************)
EXTENDS Integers, FiniteSets, FiniteSetsExt

CONSTANTS
    Workers,      \* processes that run run_worker_loop
    Ips,          \* attacker addresses
    Private,      \* those that _is_private_ip filters out
    Bridge,       \* those that begin with "172." and are not private
    Scores,       \* scores AbuseIPDB may answer
    Limit,        \* limit=50
    MaxAge,       \* max_age_days=7
    MaxActivity,  \* bound on sessions and on distinct commands of an address
    MaxFault,     \* bound: restarts and writes that fail
    Null          \* None, SQL's NULL, and no row

ASSUME EnricherAssumption ==
    /\ Ips \subseteq Nat
    /\ Private \subseteq Ips /\ Bridge \subseteq Ips \ Private
    /\ Scores \subseteq 0 .. 100
    /\ {Limit, MaxAge, MaxActivity, MaxFault} \subseteq Nat
    /\ Null \notin Nat

VARIABLES
    activity,    \* sessions and distinct commands stored of each address
    reputation,  \* the reputation row of each address
    pc,          \* where each worker is
    todo,        \* pending_ips not yet taken
    ip,          \* ip_address
    record,      \* the record get_threat_intel is making
    cache,       \* IP_CACHE
    keyed,       \* ABUSEIPDB_API_KEY is set
    faults,      \* faults so far
    answers      \* history: the scores AbuseIPDB has given for each address

worker == <<pc, todo, ip, record, cache, keyed>>
vars == <<activity, reputation, worker, faults, answers>>

Age == 0 .. MaxAge + 1

Sources == {"ip-api", "AbuseIPDB", "Error Fallback", "System Filter"}

\* A reputation row, and the record it is made from; located stands for the geo columns.
Record == [abuse : 0 .. 100 \cup {Null}, located : BOOLEAN, source : SUBSET Sources,
           profile : 0 .. 100, age : Age]

ASSUME NoRowIsNull == Null \notin Record

\* What get_threat_intel has of an address when it reads the clock.
Unknown == [abuse |-> Null, located |-> FALSE, source |-> {}, profile |-> 0, age |-> 0]

Init ==
    /\ activity = [i \in Ips |-> [sessions |-> 0, commands |-> 0]]
    /\ reputation = [i \in Ips |-> Null]
    /\ pc = [w \in Workers |-> "wait"]
    /\ todo = [w \in Workers |-> {}]
    /\ ip = [w \in Workers |-> Null]
    /\ record = [w \in Workers |-> Unknown]
    /\ cache = [w \in Workers |-> [i \in Ips |-> Null]]
    /\ keyed \in [Workers -> BOOLEAN]
    /\ faults = 0
    /\ answers = [i \in Ips |-> {}]

-----------------------------------------------------------------------------
(* What else goes on *)

Older(r) == IF r = Null THEN Null ELSE [r EXCEPT !.age = IF @ > MaxAge THEN @ ELSE @ + 1]

\* A day passes for everything that carries a last_updated.
Day ==
    /\ reputation' = [i \in Ips |-> Older(reputation[i])]
    /\ record' = [w \in Workers |-> Older(record[w])]
    /\ cache' = [w \in Workers |-> [i \in Ips |-> Older(cache[w][i])]]
    /\ UNCHANGED <<activity, pc, todo, ip, keyed, faults, answers>>

\* An event is stored: a new session of the address, or a command it has not used.
Attack(i) ==
    /\ \/ /\ activity[i].sessions < MaxActivity
          /\ activity' = [activity EXCEPT ![i].sessions = @ + 1]
       \/ /\ activity[i].commands < MaxActivity
          /\ activity' = [activity EXCEPT ![i].commands = @ + 1]
    /\ UNCHANGED <<reputation, worker, faults, answers>>

\* The process is stopped and started again, perhaps with another .env.
Restart(w) ==
    /\ faults < MaxFault
    /\ faults' = faults + 1
    /\ pc' = [pc EXCEPT ![w] = "wait"]
    /\ todo' = [todo EXCEPT ![w] = {}]
    /\ ip' = [ip EXCEPT ![w] = Null]
    /\ record' = [record EXCEPT ![w] = Unknown]
    /\ cache' = [cache EXCEPT ![w] = [i \in Ips |-> Null]]
    /\ \E k \in BOOLEAN : keyed' = [keyed EXCEPT ![w] = k]
    /\ UNCHANGED <<activity, reputation, answers>>

-----------------------------------------------------------------------------
(* A pass of run_worker_loop *)

Seen == {i \in Ips : activity[i].sessions + activity[i].commands > 0}

Due == {i \in Seen : reputation[i] = Null \/ reputation[i].age > MaxAge}

\* get_ips_needing_enrichment: private addresses are filtered out of the first Limit.
NeedingEnrichment == {i \in Due : Cardinality({j \in Due : j < i}) < Limit} \ Private

Select(w) ==
    /\ pc[w] = "wait"
    /\ NeedingEnrichment # {}
    /\ todo' = [todo EXCEPT ![w] = NeedingEnrichment]
    /\ pc' = [pc EXCEPT ![w] = "next"]
    /\ UNCHANGED <<activity, reputation, ip, record, cache, keyed, faults, answers>>

\* get_threat_intel: the clock, then the system filter, then the cache.
Take(w) ==
    /\ pc[w] = "next"
    /\ todo[w] # {}
    /\ LET i == Min(todo[w])
           known == i \in Bridge \/ cache[w][i] # Null
       IN  /\ todo' = [todo EXCEPT ![w] = @ \ {i}]
           /\ ip' = [ip EXCEPT ![w] = i]
           /\ record' = [record EXCEPT ![w] =
                  IF i \in Bridge THEN [Unknown EXCEPT !.abuse = 0, !.located = TRUE,
                                                       !.source = {"System Filter"}]
                  ELSE IF known THEN cache[w][i] ELSE Unknown]
           /\ pc' = [pc EXCEPT ![w] = IF known THEN "save" ELSE "locate"]
    /\ UNCHANGED <<activity, reputation, cache, keyed, faults, answers>>

Located(w) ==
    /\ pc[w] = "locate"
    /\ pc' = [pc EXCEPT ![w] = "score"]
    /\ UNCHANGED <<activity, reputation, todo, ip, record, cache, keyed, faults, answers>>

\* ip-api does not answer, or not with success: the fallback record.
LookupFails(w) ==
    /\ pc[w] = "locate"
    /\ record' = [record EXCEPT ![w].source = {"Error Fallback"}]
    /\ pc' = [pc EXCEPT ![w] = "save"]
    /\ UNCHANGED <<activity, reputation, todo, ip, cache, keyed, faults, answers>>

\* Mutant: the weights are swapped.
ProfileScoreSwapped(abuse, seen) ==
    Min({100, (IF abuse = Null THEN 0 ELSE abuse)
                  + Min({2 * seen.sessions, 25}) + Min({5 * seen.commands, 25})})

\* calculate_dynamic_profile_score
ProfileScore(abuse, seen) ==
    Min({100, (IF abuse = Null THEN 0 ELSE abuse)
                  + Min({5 * seen.sessions, 25}) + Min({2 * seen.commands, 25})})

\* What is left of the activity if its query raises.
NoMetrics == [sessions |-> 0, commands |-> 0]

\* Mutant: no answer is taken for a clean address.
AbuseScoreOrZero(reply) == IF reply \in Scores THEN reply ELSE 0

\* _fetch_abuse_score: a quota, an error and a missing key are None.
AbuseScore(reply) == IF reply \in Scores THEN reply ELSE Null

\* Mutant: incomplete records are cached, too.
CompleteAnyway(w, abuse) == TRUE

\* The records that are cached: those with a score, or without a key to get one.
Complete(w, abuse) == abuse # Null \/ ~keyed[w]

\* The rest of get_threat_intel, once the address is located.
Score(w, reply) ==
    /\ pc[w] = "score"
    /\ reply # Null => keyed[w] /\ reply \in Scores
    /\ \E seen \in {activity[ip[w]], NoMetrics} :
          LET abuse == AbuseScore(reply)
              made == [record[w] EXCEPT
                          !.abuse = abuse, !.located = TRUE,
                          !.source = {"ip-api"} \cup IF abuse = Null THEN {} ELSE {"AbuseIPDB"},
                          !.profile = ProfileScore(abuse, seen)]
          IN  /\ record' = [record EXCEPT ![w] = made]
              /\ cache' = IF Complete(w, abuse) THEN [cache EXCEPT ![w][ip[w]] = made] ELSE cache
    /\ answers' = IF reply = Null THEN answers ELSE [answers EXCEPT ![ip[w]] = @ \cup {reply}]
    /\ pc' = [pc EXCEPT ![w] = "save"]
    /\ UNCHANGED <<activity, reputation, todo, ip, keyed, faults>>

Either(new, old) == IF new = Null THEN old ELSE new

\* Mutant: ON CONFLICT without COALESCE.
UpsertPlain(old, new) == new

\* upsert_reputation: NULLs keep what there is, sources accumulate, and the time is taken over.
Upsert(old, new) ==
    IF old = Null THEN new
    ELSE [abuse |-> Either(new.abuse, old.abuse),
          located |-> new.located \/ old.located,
          source |-> old.source \cup new.source,
          profile |-> new.profile,
          age |-> new.age]

Saved(w) ==
    /\ pc[w] = "save"
    /\ pc' = [pc EXCEPT ![w] = "next"]
    /\ ip' = [ip EXCEPT ![w] = Null]
    /\ record' = [record EXCEPT ![w] = Unknown]
    /\ UNCHANGED <<activity, todo, cache, keyed, answers>>

Save(w) ==
    /\ Saved(w)
    /\ reputation' = [reputation EXCEPT ![ip[w]] = Upsert(@, record[w])]
    /\ UNCHANGED faults

\* save_reputation_to_db swallows what its transaction raises.
SaveFails(w) ==
    /\ faults < MaxFault
    /\ faults' = faults + 1
    /\ Saved(w)
    /\ UNCHANGED reputation

Done(w) ==
    /\ pc[w] = "next"
    /\ todo[w] = {}
    /\ pc' = [pc EXCEPT ![w] = "wait"]
    /\ UNCHANGED <<activity, reputation, todo, ip, record, cache, keyed, faults, answers>>

-----------------------------------------------------------------------------
Pass(w) ==
    \/ Select(w)
    \/ Take(w)
    \/ Located(w)
    \/ LookupFails(w)
    \/ \E reply \in Scores \cup {Null} : Score(w, reply)
    \/ Save(w)
    \/ SaveFails(w)
    \/ Done(w)

Next ==
    \/ Day
    \/ \E i \in Ips : Attack(i)
    \/ \E w \in Workers : Pass(w) \/ Restart(w)

Spec == Init /\ [][Next]_vars

\* The loop goes on whatever happens in it; days pass; and a service that is asked about
\* an address for ever answers in the end, as its quota resets.
FairSpec ==
    /\ Spec
    /\ WF_vars(Day)
    /\ \A w \in Workers :
        /\ WF_vars(Pass(w))
        /\ \A i \in Ips :
            /\ SF_vars(ip[w] = i /\ Located(w))
            /\ SF_vars(ip[w] = i /\ \E reply \in Scores : Score(w, reply))

-----------------------------------------------------------------------------
(* Properties *)

\* Rows, records and caches keep their types; a worker has an address while it works on one.
TypeOK ==
    /\ activity \in [Ips -> [sessions : 0 .. MaxActivity, commands : 0 .. MaxActivity]]
    /\ reputation \in [Ips -> Record \cup {Null}]
    /\ pc \in [Workers -> {"wait", "next", "locate", "score", "save"}]
    /\ todo \in [Workers -> SUBSET Ips]
    /\ ip \in [Workers -> Ips \cup {Null}]
    /\ record \in [Workers -> Record]
    /\ cache \in [Workers -> [Ips -> Record \cup {Null}]]
    /\ keyed \in [Workers -> BOOLEAN]
    /\ faults \in 0 .. MaxFault
    /\ answers \in [Ips -> SUBSET Scores]
    /\ \A w \in Workers : ip[w] = Null <=> pc[w] \in {"wait", "next"}

\* "A rate limit or a missing key must not be recorded as this address is clean": a score
\* was given by AbuseIPDB for that address, which the sources then and only then name.  The
\* exception are the addresses the system filter takes for local ones.
HonestScores ==
    \A i \in Ips \ Bridge : reputation[i] # Null =>
        /\ reputation[i].abuse \in answers[i] \cup {Null}
        /\ reputation[i].abuse # Null <=> "AbuseIPDB" \in reputation[i].source

\* Whichever worker, pass or outage writes last, what an earlier one knew stays: the place,
\* that there is a score, and where the row's data came from.
NothingForgotten ==
    [][\A i \in Ips : reputation[i] # Null =>
          /\ reputation'[i] # Null
          /\ reputation[i].located => reputation'[i].located
          /\ reputation[i].abuse # Null => reputation'[i].abuse # Null
          /\ reputation[i].source \subseteq reputation'[i].source]_vars

\* A profile score stays within 0..100 and never claims more than the stored activity and
\* the scores given justify, however old the record is that it was written from.
ProfileJustified ==
    \A i \in Ips : reputation[i] # Null =>
        \/ reputation[i].profile = 0
        \/ \E a \in answers[i] \cup {0} :
              reputation[i].profile <=
                  Min({100, a + 5 * activity[i].sessions + 2 * activity[i].commands})

\* The addresses that are looked up at all.
Public == Ips \ (Private \cup Bridge)

\* While no more addresses are due than one query returns, each public one has a score in
\* the end and for good, through outages, restarts and lost writes: an incomplete record is
\* not cached, so that the address is asked about again when its row has aged.
ScoredInTheEnd ==
    \A i \in Public :
        []<>(i \in Seen) /\ <>[](Cardinality(Seen) <= Limit) /\ <>[](\A w \in Workers : keyed[w])
            => <>[](reputation[i] # Null /\ reputation[i].abuse # Null)

\* "Polling the database for un-enriched or stale attacker IPs and feeding them into our
\* pipeline": every public address that was seen is enriched in the end.
AllEnriched == \A i \in Public : [](i \in Seen => <>(reputation[i] # Null))
=============================================================================
