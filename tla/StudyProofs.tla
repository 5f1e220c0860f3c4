----------------------------- MODULE StudyProofs ----------------------------
(***************************************************************************)
(* Proofs about studies, for every number of them, of options, answers,    *)
(* other appends and faults: the inductive invariant of StudyInvariant,    *)
(* and from it what the evidence of a study says of its providers.         *)
(***************************************************************************)
EXTENDS StudyInvariant, RuleLemmas

-----------------------------------------------------------------------------
(* The log.                                                                *)

\* A sequence begins with itself, and still begins so when something is appended.
LEMMA PrefixReflexive ==
  ASSUME NEW S, NEW t \in Seq(S)
  PROVE  IsPrefix(t, t)
  BY DEF IsPrefix

LEMMA PrefixOfAppend ==
  ASSUME NEW S, NEW s \in Seq(S), NEW t \in Seq(S), NEW e \in S, IsPrefix(s, t)
  PROVE  IsPrefix(s, Append(t, e))
<1> DEFINE u == Append(t, e)
<1>1. /\ Len(s) \in Nat /\ Len(t) \in Nat /\ Len(s) <= Len(t) /\ Len(u) = Len(t) + 1
      /\ u \in Seq(S)
  BY DEF IsPrefix
<1>2. \A i \in 1 .. Len(t) : u[i] = t[i]
  OBVIOUS
<1>3. SubSeq(u, 1, Len(s)) = SubSeq(t, 1, Len(s))
  BY <1>1, <1>2
<1>4. QED
  BY <1>1, <1>3 DEF IsPrefix

LEMMA EventTypes ==
  ASSUME NEW events \in Seq(Events)
  PROVE  \A k \in DOMAIN events : events[k].id \in EventIds /\ events[k].details \in EventDetails
<1>1. \A k \in DOMAIN events : events[k] \in Events
  OBVIOUS
<1>2. QED
  BY <1>1 DEF Events

\* What an append does to the log.
Grown(id, details) ==
  /\ Len(log') = Len(log) + 1
  /\ DOMAIN log = 1 .. Len(log)
  /\ DOMAIN log' = 1 .. Len(log) + 1
  /\ \A k \in DOMAIN log : log'[k] = log[k]
  /\ \A k \in DOMAIN log : log[k].id # id
  /\ log'[Len(log) + 1].id = id
  /\ log'[Len(log) + 1].details = details

LEMMA AppendGrows ==
  ASSUME LogInv, NEW id \in EventIds, NEW details \in EventDetails, Log!append(id, details)
  PROVE  Grown(id, details) /\ LogInv'
<1> DEFINE n == Len(log) + 1
           record == [id |-> id, sequence |-> n, details |-> details]
           event == Log!buildEvent(id, n, Log!HeadHash(log), details)
<1>1. log \in Seq(Events) /\ Len(log) \in Nat /\ DOMAIN log = 1 .. Len(log)
  BY DEF LogInv
<1>2. /\ \A k \in DOMAIN log : log[k].id # id
      /\ log' = Append(log, event)
  BY <1>1 DEF Log!append, Log!FreshId
<1>3. Log!HeadHash(log) \in Seq(Records)
  <2>1. CASE log = << >>
    BY <2>1 DEF Log!HeadHash, Log!GENESIS_HASH
  <2>2. CASE log # << >>
    <3>1. log[Len(log)] \in Events
      BY <1>1, <2>2
    <3>2. QED
      BY <3>1, <2>2 DEF Log!HeadHash, Events
  <2>3. QED
    BY <2>1, <2>2
<1>4. record \in Records
  BY <1>1 DEF Records
<1>5. event = [id |-> id, sequence |-> n, details |-> details,
               previousHash |-> Log!HeadHash(log),
               eventHash |-> Append(Log!HeadHash(log), record)]
  BY DEF Log!buildEvent
<1>6. event \in Events
  <2>1. n \in Nat /\ Append(Log!HeadHash(log), record) \in Seq(Records)
    BY <1>1, <1>3, <1>4
  <2>2. QED
    BY <1>3, <1>5, <2>1 DEF Events
<1> HIDE DEF event
<1>7. log' \in Seq(Events) /\ Len(log') = n /\ DOMAIN log' = 1 .. n
  BY <1>1, <1>2, <1>6
<1>8. /\ \A k \in DOMAIN log : log'[k] = log[k]
      /\ log'[n] = event
  BY <1>1, <1>2, <1>6
<1>9. Grown(id, details)
  BY <1>1, <1>2, <1>5, <1>7, <1>8 DEF Grown
<1>10. UniqueIds'
  BY <1>1, <1>7, <1>8, <1>9 DEF UniqueIds, LogInv, Grown
<1>11. Chained'
  <2> SUFFICES ASSUME NEW k \in 1 .. n, NEW j \in 1 .. k
               PROVE  IsPrefix(log'[j].eventHash, log'[k].eventHash)
    BY <1>7 DEF Chained
  <2>1. CASE k # n
    <3>1. k \in DOMAIN log /\ j \in DOMAIN log
      BY <1>1, <2>1
    <3>2. QED
      BY <3>1, <1>8 DEF LogInv, Chained
  <2>2. CASE k = n /\ j = n
    <3>1. event.eventHash \in Seq(Records)
      BY <1>6 DEF Events
    <3>2. QED
      BY <2>2, <3>1, <1>8, PrefixReflexive
  <2>3. CASE k = n /\ j # n
    <3>1. j \in DOMAIN log /\ Len(log) \in DOMAIN log /\ log # << >> /\ j \in 1 .. Len(log)
      BY <1>1, <2>3
    <3>2. IsPrefix(log[j].eventHash, log[Len(log)].eventHash)
      BY <3>1 DEF LogInv, Chained
    <3>3. Log!HeadHash(log) = log[Len(log)].eventHash
      BY <3>1 DEF Log!HeadHash
    <3>4. log[j] \in Events
      BY <1>1, <3>1
    <3>5. log[j].eventHash \in Seq(Records)
      BY <3>4 DEF Events
    <3>6. IsPrefix(log[j].eventHash, Append(Log!HeadHash(log), record))
      BY <1>3, <1>4, <3>2, <3>3, <3>5, PrefixOfAppend
    <3>7. QED
      BY <2>3, <3>1, <3>6, <1>5, <1>8
  <2>4. QED
    BY <2>1, <2>2, <2>3
<1>12. QED
  BY <1>7, <1>9, <1>10, <1>11 DEF LogInv

\* Where an event is, and that it is nowhere.
LEMMA AtFinds ==
  ASSUME LogInv, NEW s, NEW which, NEW k \in DOMAIN log, log[k].id = <<s, which>>
  PROVE  At(s, which) = k
<1> DEFINE I == {i \in 1 .. Len(log) : log[i].id = <<s, which>>}
<1>1. DOMAIN log = 1 .. Len(log) /\ Len(log) \in Nat
  BY DEF LogInv
<1>2. I = {k}
  BY <1>1 DEF LogInv, UniqueIds
<1>3. At(s, which) = IF I # {} THEN Min(I) ELSE 0
  BY DEF At, SelectInSeq
<1>4. Min(I) = k
  BY <1>1, <1>2 DEF Min
<1>5. QED
  BY <1>2, <1>3, <1>4

LEMMA AtMisses ==
  ASSUME LogInv, NEW s, NEW which, ~ Recorded(s, which)
  PROVE  At(s, which) = 0
<1>1. DOMAIN log = 1 .. Len(log)
  BY DEF LogInv
<1>2. {i \in 1 .. Len(log) : log[i].id = <<s, which>>} = {}
  BY <1>1 DEF Recorded
<1>3. QED
  BY <1>2 DEF At, SelectInSeq

-----------------------------------------------------------------------------
(* The outcome.                                                            *)

\* The results of a study are as many as its calls, and complete where the answer
\* was something.
LEMMA ResultsOfCalls ==
  ASSUME Types, NEW s \in Studies,
         NEW n \in Nat, DOMAIN calls[s] = 1 .. n
  PROVE  LET results == providerResults(s)
         IN  /\ DOMAIN results = 1 .. n
             /\ Len(results) = n
             /\ {i \in DOMAIN results : results[i].status = "completed"} = Answered(s)
             /\ \A i \in 1 .. n : results[i].provider = calls[s][i].provider
<1> DEFINE results == providerResults(s)
<1>1. DOMAIN results = 1 .. n
  BY DEF providerResults
<1>2. Len(results) = n
  BY <1>1
<1>3. ASSUME NEW i \in 1 .. n
      PROVE  /\ results[i].provider = calls[s][i].provider
             /\ results[i].status = "completed" <=> i \in Answered(s)
  <2>1. results[i] = providerResult(calls[s][i].provider, calls[s][i].answer)
    BY DEF providerResults
  <2>2. CASE Usable(calls[s][i].answer)
    BY <2>1, <2>2 DEF providerResult, Usable, Answered
  <2>3. CASE ~ Usable(calls[s][i].answer)
    BY <2>1, <2>3 DEF providerResult, Usable, Answered
  <2>4. QED
    BY <2>2, <2>3
<1> HIDE DEF results
<1>4. {i \in DOMAIN results : results[i].status = "completed"} = Answered(s)
  BY <1>1, <1>3 DEF Answered
<1>5. QED
  BY <1>1, <1>2, <1>3, <1>4 DEF results

\* The names of the providers that completed are those of the calls answered.
LEMMA SuccessfulAreAnswered ==
  ASSUME Types, NEW s \in Studies, NEW n \in Nat, DOMAIN calls[s] = 1 .. n
  PROVE  LET names == successful(providerResults(s))
         IN  /\ Answered(s) \in SUBSET (1 .. n)
             /\ Cardinality(Answered(s)) \in 0 .. n
             /\ Cardinality(Answered(s)) = n <=> Answered(s) = 1 .. n
             /\ Cardinality(Answered(s)) = 0 <=> Answered(s) = {}
             /\ Len(names) = Cardinality(Answered(s))
             /\ names = << >> <=> Answered(s) = {}
             /\ \A i \in Answered(s) : names[Place(i, Answered(s))] = calls[s][i].provider
<1> DEFINE results == providerResults(s)
           asked == [i \in DOMAIN results |-> results[i].provider]
           names == successful(results)
<1>1. Answered(s) \in SUBSET (1 .. n)
  BY DEF Answered
<1>2. /\ DOMAIN results = 1 .. n
      /\ {i \in DOMAIN results : results[i].status = "completed"} = Answered(s)
      /\ \A i \in 1 .. n : results[i].provider = calls[s][i].provider
  BY ResultsOfCalls
<1>3. names = filter(asked, Answered(s))
  BY <1>2 DEF successful
<1>4. \A i \in 1 .. n : asked[i] = calls[s][i].provider
  BY <1>2
<1> HIDE DEF asked, results, names
<1>5. DOMAIN names = 1 .. Cardinality(Answered(s)) /\ Len(names) = Cardinality(Answered(s))
  BY <1>1, <1>3, FilterLength
<1>6. /\ Cardinality(Answered(s)) \in 0 .. n
      /\ Cardinality(Answered(s)) = n <=> Answered(s) = 1 .. n
      /\ Cardinality(Answered(s)) = 0 <=> Answered(s) = {}
  BY <1>1, IndexesAreFinite
<1>7. ASSUME NEW i \in Answered(s)
      PROVE  names[Place(i, Answered(s))] = calls[s][i].provider
  <2>1. filter(asked, Answered(s))[Place(i, Answered(s))] = asked[i]
    BY <1>1, FilterKeeps
  <2>2. QED
    BY <1>1, <1>3, <1>4, <2>1
<1>8. names = << >> <=> Answered(s) = {}
  BY <1>1, <1>3, FilterEmpty
<1>9. QED
  BY <1>1, <1>5, <1>6, <1>7, <1>8 DEF names, results

-----------------------------------------------------------------------------
(* The inductive invariant: a study whose step it is not.                  *)

LEMMA LogOfInvariant == ASSUME SInv PROVE LogInv
  BY DEF SInv, Types, LogInv

\* A step that appends nothing, or an event of another call, and leaves a study's
\* variables alone, leaves it as it was.
LEMMA StudyStays ==
  ASSUME SInv, NEW s \in Studies,
         phase'[s] = phase[s], kept'[s] = kept[s], calls'[s] = calls[s], result'[s] = result[s],
         \/ log' = log
         \/ \E id, details : Grown(id, details) /\ id \notin {<<s, "started">>, <<s, "completed">>}
  PROVE  StudyInv(s)'
<1>1. Len(log) \in Nat /\ DOMAIN log = 1 .. Len(log)
  BY DEF SInv, Types
<1>2. /\ \A k \in DOMAIN log : k \in DOMAIN log' /\ log'[k] = log[k]
      /\ \A k \in DOMAIN log' : log'[k].id \in {<<s, "started">>, <<s, "completed">>} =>
           k \in DOMAIN log
      /\ DOMAIN log' \subseteq Nat
  <2>1. CASE log' = log
    BY <1>1, <2>1
  <2>2. CASE \E id, details : Grown(id, details) /\ id \notin {<<s, "started">>, <<s, "completed">>}
    BY <1>1, <2>2 DEF Grown
  <2>3. QED
    BY <2>1, <2>2
<1>3. StudyInv(s)
  BY DEF SInv
<1>4. /\ Recorded(s, "started")' <=> Recorded(s, "started")
      /\ Recorded(s, "completed")' <=> Recorded(s, "completed")
  BY <1>2 DEF Recorded
<1>5. Phased(s)'
  BY <1>3, <1>4 DEF StudyInv, Phased
<1>6. /\ providerResults(s)' = providerResults(s)
      /\ OutcomeEvent(s)' = OutcomeEvent(s)
      /\ Settled(s)' <=> Settled(s)
      /\ \A o : CalledFor(s, o)' <=> CalledFor(s, o)
  BY DEF providerResults, OutcomeEvent, Settled, CalledFor
<1>7. Opening(s)'
  BY <1>2, <1>3, <1>6 DEF StudyInv, Opening
<1>8. Closing(s)'
  <2> SUFFICES ASSUME NEW k \in DOMAIN log', log'[k].id = <<s, "completed">>
               PROVE  /\ Settled(s)
                      /\ log'[k].details = OutcomeEvent(s)
                      /\ \E j \in 1 .. k - 1 : log'[j].id = <<s, "started">>
    BY <1>6 DEF Closing
  <2>1. k \in DOMAIN log /\ k \in 1 .. Len(log) /\ log'[k] = log[k]
    BY <1>1, <1>2
  <2>2. \A j \in 1 .. k - 1 : j \in DOMAIN log /\ log'[j] = log[j]
    BY <1>1, <1>2, <2>1
  <2>3. QED
    BY <2>1, <2>2, <1>3 DEF StudyInv, Closing
<1>9. Returned(s)'
  <2> SUFFICES ASSUME phase[s] = "returned"
               PROVE  Returned(s)'
    BY DEF Returned
  <2>1. PICK m \in DOMAIN log : /\ result[s].auditDigest = log[m].eventHash
                               /\ \A k \in DOMAIN log : log[k].id = <<s, "completed">> => k <= m
    BY <1>3 DEF StudyInv, Returned
  <2>2. /\ m \in DOMAIN log'
        /\ result'[s].auditDigest = log'[m].eventHash
        /\ \A k \in DOMAIN log' : log'[k].id = <<s, "completed">> => k <= m
    BY <1>2, <2>1
  <2>3. QED
    BY <1>3, <1>6, <2>2 DEF StudyInv, Returned
<1>10. QED
  BY <1>5, <1>7, <1>8, <1>9 DEF StudyInv

\* A step that ends a study without a result, and does nothing else.
LEMMA StudyStops ==
  ASSUME SInv, NEW s \in Studies, NEW how \in {"threw", "dead"}, End(s, how),
         UNCHANGED <<log, kept, calls, result>>, faults' \in 0 .. MaxFaults
  PROVE  SInv'
<1>1. phase' = [phase EXCEPT ![s] = how] /\ phase \in [Studies -> {"ready", "reasoning", "recorded", "returned", "threw", "dead"}]
  BY DEF End, SInv, Types, TypeOK
<1>2. Types'
  BY <1>1 DEF SInv, Types, TypeOK
<1>3. UniqueIds' /\ Chained' /\ ProvidersSeeCleanText'
  BY DEF SInv, UniqueIds, Chained, ProvidersSeeCleanText
<1>4. ASSUME NEW t \in Studies
      PROVE  StudyInv(t)'
  <2>1. CASE t # s
    BY <1>1, <2>1, StudyStays
  <2>2. CASE t = s
    <3>1. phase'[t] = how
      BY <1>1, <2>2
    <3>2. StudyInv(t)
      BY DEF SInv
    <3>3. Phased(t)'
      BY <3>1, <3>2 DEF StudyInv, Phased, Recorded
    <3>4. Opening(t)'
      BY <3>2 DEF StudyInv, Opening, CalledFor
    <3>5. Closing(t)'
      BY <3>2 DEF StudyInv, Closing, Settled, OutcomeEvent, providerResults
    <3>6. Returned(t)'
      BY <3>1 DEF Returned
    <3>7. QED
      BY <3>3, <3>4, <3>5, <3>6 DEF StudyInv
  <2>3. QED
    BY <2>1, <2>2
<1>5. QED
  BY <1>2, <1>3, <1>4 DEF SInv

-----------------------------------------------------------------------------
(* The inductive invariant: the steps of a study.                          *)

Flags == {<< >>, <<"personal_data_redacted">>}

\* What sanitizeObjective returns has nothing that either expression matches.
LEMMA SanitizedIsClean ==
  ASSUME NEW input, NEW stillMatches
  PROVE  LET preflight == sanitizeObjective(input, stillMatches)
         IN  /\ preflight.safetyFlags \in Flags
             /\ preflight.accepted => /\ ~ HasKind(preflight.objective, "secret")
                                     /\ ~ HasKind(preflight.objective, "personal")
<1> DEFINE raw == slice(input, OBJECTIVE_BOUND, stillMatches)
           preflight == sanitizeObjective(input, stillMatches)
<1>1. /\ preflight.objective = redact(raw)
      /\ preflight.accepted => ~ HasKind(raw, "secret")
      /\ preflight.safetyFlags \in Flags
  BY DEF sanitizeObjective, Flags
<1> HIDE DEF raw, preflight
<1>2. ~ HasKind(redact(raw), "personal")
  BY DEF redact, HasKind, PERSONAL_MARKER, Piece
<1>3. HasKind(redact(raw), "secret") => HasKind(raw, "secret")
  BY DEF redact, HasKind, PERSONAL_MARKER, Piece
<1>4. QED
  BY <1>1, <1>2, <1>3 DEF preflight

\* The start is recorded: its event is the only one of the study so far.
LEMMA StartKeeps ==
  ASSUME SInv, NEW s \in Studies, NEW o \in Options, NEW preflight, Start(s, o, preflight),
         preflight.safetyFlags \in Flags,
         preflight.accepted => /\ ~ HasKind(preflight.objective, "secret")
                               /\ ~ HasKind(preflight.objective, "personal")
  PROVE  SInv'
<1> DEFINE id == <<s, "started">>
           details == startedEvent(o, preflight.safetyFlags)
           asked == [i \in DOMAIN o.providers |->
                       [provider  |-> o.providers[i],
                        objective |-> preflight.objective,
                        answer    |-> Pending]]
<1>1. /\ phase[s] = "ready"
      /\ Log!append(id, details)
      /\ phase' = [phase EXCEPT ![s] = "reasoning"]
      /\ kept' = [kept EXCEPT ![s] = [validationOnly |-> o.validationOnly,
                                      providerCount  |-> Len(o.providers),
                                      safetyFlags    |-> preflight.safetyFlags]]
      /\ calls' = [calls EXCEPT ![s] = asked]
      /\ UNCHANGED <<result, faults>>
      /\ ~ HasKind(preflight.objective, "secret")
      /\ ~ HasKind(preflight.objective, "personal")
  BY DEF Start
<1>2. id \in EventIds /\ details \in EventDetails
  BY DEF EventIds, EventDetails, Flags
<1>3. LogInv
  BY LogOfInvariant
<1> HIDE DEF id, details, asked
<1>4. Grown(id, details) /\ LogInv'
  BY <1>1, <1>2, <1>3, AppendGrows
<1>5. o.validationOnly \in BOOLEAN /\ Len(o.providers) \in ProviderCounts
  BY StudyAssumption DEF ProviderCounts
<1>6. /\ phase'[s] = "reasoning"
      /\ kept'[s].validationOnly = o.validationOnly
      /\ kept'[s].providerCount = Len(o.providers)
      /\ kept'[s].safetyFlags = preflight.safetyFlags
      /\ calls'[s] = asked
  BY <1>1 DEF SInv, Types, TypeOK
<1>7. ASSUME NEW t \in Studies, t # s
      PROVE  /\ phase'[t] = phase[t] /\ kept'[t] = kept[t]
             /\ calls'[t] = calls[t] /\ result'[t] = result[t]
  BY <1>1, <1>7 DEF SInv, Types, TypeOK
<1>8. Types'
  <2>1. /\ phase' \in [Studies -> {"ready", "reasoning", "recorded", "returned", "threw", "dead"}]
        /\ DOMAIN calls' = Studies /\ DOMAIN result' = Studies /\ faults' \in 0 .. MaxFaults
    BY <1>1 DEF SInv, Types, TypeOK
  <2>2. kept' \in [Studies -> [validationOnly : BOOLEAN,
                               providerCount  : ProviderCounts,
                               safetyFlags    : {<< >>, <<"personal_data_redacted">>}]]
    BY <1>1, <1>5 DEF SInv, Types, TypeOK, Flags
  <2>3. \A t \in Studies : \A i \in DOMAIN calls'[t] : calls'[t][i].answer \in Answers \cup {Pending}
    BY <1>6, <1>7 DEF SInv, Types, TypeOK, asked
  <2>4. log' \in Seq(Events)
    BY <1>4 DEF LogInv
  <2>5. \A k \in DOMAIN log' : log'[k].id \in EventIds /\ log'[k].details \in EventDetails
    BY <2>4, EventTypes
  <2>7. \A t \in Studies :
          /\ calls'[t] = [i \in DOMAIN calls'[t] |-> calls'[t][i]]
          /\ \A i \in DOMAIN calls'[t] : DOMAIN calls'[t][i] = {"provider", "objective", "answer"}
    BY <1>6, <1>7 DEF SInv, Types, asked
  <2>6. QED
    BY <2>1, <2>2, <2>3, <2>4, <2>5, <2>7 DEF Types, TypeOK
<1>9. ProvidersSeeCleanText'
  BY <1>1, <1>6, <1>7 DEF SInv, ProvidersSeeCleanText, asked
<1>10. ASSUME NEW t \in Studies, t # s
       PROVE  StudyInv(t)'
  <2>1. id \notin {<<t, "started">>, <<t, "completed">>}
    BY <1>10 DEF id
  <2>2. QED
    BY <1>4, <1>7, <1>10, <2>1, StudyStays
<1>11. StudyInv(s)'
  <2>1. StudyInv(s) /\ ~ Recorded(s, "started") /\ ~ Recorded(s, "completed") /\ Len(log) \in Nat
    BY <1>1 DEF SInv, StudyInv, Phased, Types
  <2>2. /\ \A k \in DOMAIN log' : log'[k].id = <<s, "started">> => log'[k].details = details
        /\ \A k \in DOMAIN log' : log'[k].id # <<s, "completed">>
        /\ Len(log) + 1 \in DOMAIN log' /\ log'[Len(log) + 1].id = <<s, "started">>
    BY <2>1, <1>4 DEF Grown, Recorded, id
  <2>3. Phased(s)'
    BY <2>2, <1>6 DEF Phased, Recorded
  <2>4. CalledFor(s, o)'
    BY <1>6 DEF CalledFor, asked
  <2>5. Opening(s)'
    BY <2>2, <2>4, <1>6 DEF Opening, details
  <2>6. Closing(s)' /\ Returned(s)'
    BY <2>2, <1>6 DEF Closing, Returned
  <2>7. QED
    BY <2>3, <2>5, <2>6 DEF StudyInv
<1>12. QED
  BY <1>4, <1>8, <1>9, <1>10, <1>11 DEF SInv, LogInv

\* An answer arrives while the study waits: there is no outcome yet.
LEMMA SettleKeeps ==
  ASSUME SInv, NEW s \in Studies, NEW i, NEW answer \in Answers, Settle(s, i, answer)
  PROVE  SInv'
<1>1. /\ phase[s] = "reasoning"
      /\ i \in DOMAIN calls[s]
      /\ calls' = [calls EXCEPT ![s] = [calls[s] EXCEPT ![i] = [calls[s][i] EXCEPT !.answer = answer]]]
      /\ UNCHANGED <<log, phase, kept, result, faults>>
  BY DEF Settle, SInv, Types
<1>2. /\ DOMAIN calls' = Studies
      /\ DOMAIN calls'[s] = DOMAIN calls[s]
      /\ \A t \in Studies : t # s => calls'[t] = calls[t]
      /\ \A j \in DOMAIN calls[s] : j # i => calls'[s][j] = calls[s][j]
      /\ calls'[s][i] = [calls[s][i] EXCEPT !.answer = answer]
  BY <1>1 DEF SInv, Types
<1>3. /\ DOMAIN calls'[s][i] = {"provider", "objective", "answer"}
      /\ calls'[s][i].provider = calls[s][i].provider
      /\ calls'[s][i].objective = calls[s][i].objective
      /\ calls'[s][i].answer = answer
  BY <1>1, <1>2 DEF SInv, Types
<1>4. Types'
  <2>1. \A t \in Studies : \A j \in DOMAIN calls'[t] :
          /\ DOMAIN calls'[t][j] = {"provider", "objective", "answer"}
          /\ calls'[t][j].answer \in Answers \cup {Pending}
    BY <1>1, <1>2, <1>3 DEF SInv, Types, TypeOK
  <2>2. calls'[s] = [j \in DOMAIN calls'[s] |-> calls'[s][j]]
    BY <1>1 DEF SInv, Types
  <2>3. \A t \in Studies : calls'[t] = [j \in DOMAIN calls'[t] |-> calls'[t][j]]
    BY <1>2, <2>2 DEF SInv, Types
  <2>4. QED
    BY <1>1, <1>2, <2>1, <2>3 DEF SInv, Types, TypeOK
<1>5. UniqueIds' /\ Chained'
  BY <1>1 DEF SInv, UniqueIds, Chained
<1>6. ProvidersSeeCleanText'
  BY <1>1, <1>2, <1>3 DEF SInv, ProvidersSeeCleanText
<1>7. ASSUME NEW t \in Studies, t # s
      PROVE  StudyInv(t)'
  BY <1>1, <1>2, <1>7, StudyStays
<1>8. StudyInv(s)'
  <2>1. StudyInv(s)
    BY DEF SInv
  <2>2. Phased(s)'
    BY <1>1, <2>1 DEF StudyInv, Phased, Recorded
  <2>3. \A o : CalledFor(s, o) => CalledFor(s, o)'
    BY <1>1, <1>2, <1>3 DEF CalledFor
  <2>4. Opening(s)'
    BY <1>1, <2>1, <2>3 DEF StudyInv, Opening
  <2>5. Closing(s)' /\ Returned(s)'
    BY <1>1, <2>1 DEF StudyInv, Phased, Recorded, Closing, Returned
  <2>6. QED
    BY <2>2, <2>4, <2>5 DEF StudyInv
<1>9. QED
  BY <1>4, <1>5, <1>6, <1>7, <1>8 DEF SInv

\* The caller changes the options: there is no outcome yet that was made of them.
LEMMA AlterKeeps ==
  ASSUME SInv, NEW s \in Studies, NEW altered \in Altered, Alter(s, altered)
  PROVE  SInv'
<1>1. /\ s \in Altering
      /\ phase[s] = "reasoning"
      /\ kept' = [kept EXCEPT ![s] = [validationOnly |-> altered.validationOnly,
                                      providerCount  |-> Len(altered.providers),
                                      safetyFlags    |-> kept[s].safetyFlags]]
      /\ UNCHANGED <<log, phase, calls, result, faults>>
  BY DEF Alter
<1>2. altered.validationOnly \in BOOLEAN /\ Len(altered.providers) \in ProviderCounts
  BY StudyAssumption DEF ProviderCounts
<1>3. /\ kept'[s].safetyFlags = kept[s].safetyFlags
      /\ \A t \in Studies : t # s => kept'[t] = kept[t]
  BY <1>1 DEF SInv, Types, TypeOK
<1>4. kept' \in [Studies -> [validationOnly : BOOLEAN,
                             providerCount  : ProviderCounts,
                             safetyFlags    : {<< >>, <<"personal_data_redacted">>}]]
  BY <1>1, <1>2 DEF SInv, Types, TypeOK
<1>5. Types'
  BY <1>1, <1>4 DEF SInv, Types, TypeOK
<1>6. UniqueIds' /\ Chained' /\ ProvidersSeeCleanText'
  BY <1>1 DEF SInv, UniqueIds, Chained, ProvidersSeeCleanText
<1>7. ASSUME NEW t \in Studies, t # s
      PROVE  StudyInv(t)'
  BY <1>1, <1>3, <1>7, StudyStays
<1>8. StudyInv(s)'
  <2>1. StudyInv(s)
    BY DEF SInv
  <2>2. Phased(s)'
    BY <1>1, <2>1 DEF StudyInv, Phased, Recorded
  <2>3. \A o : CalledFor(s, o) => CalledFor(s, o)'
    BY <1>1 DEF CalledFor
  <2>4. Opening(s)'
    BY <1>1, <1>3, <2>1, <2>3 DEF StudyInv, Opening
  <2>5. Closing(s)' /\ Returned(s)'
    BY <1>1, <2>1 DEF StudyInv, Phased, Recorded, Closing, Returned
  <2>6. QED
    BY <2>2, <2>4, <2>5 DEF StudyInv
<1>9. QED
  BY <1>5, <1>6, <1>7, <1>8 DEF SInv

\* The outcome is an event of the options the start was recorded for.
LEMMA OutcomeIsAnEvent ==
  ASSUME SInv, NEW s \in Studies, phase[s] = "reasoning", Settled(s)
  PROVE  OutcomeEvent(s) \in EventDetails
<1>1. StudyInv(s)
  BY DEF SInv
<1>2. PICK m \in DOMAIN log : log[m].id = <<s, "started">>
  BY <1>1 DEF StudyInv, Phased, Recorded
<1>3. PICK o \in Options : CalledFor(s, o)
  BY <1>1, <1>2 DEF StudyInv, Opening
<1> DEFINE answers == [i \in DOMAIN o.providers |-> calls[s][i].answer]
<1>4. answers \in [DOMAIN o.providers -> Answers]
  BY <1>3 DEF Settled, CalledFor, SInv, Types, TypeOK
<1>5. providerResults(s) = [i \in DOMAIN o.providers |-> providerResult(o.providers[i], answers[i])]
  BY <1>3 DEF providerResults, CalledFor
<1>6. providerResults(s) \in Results(o)
  BY <1>4, <1>5 DEF Results
<1>7. kept[s].validationOnly \in BOOLEAN /\ kept[s].providerCount \in ProviderCounts
  BY DEF SInv, Types, TypeOK
<1>8. QED
  BY <1>6, <1>7 DEF EventDetails, OutcomeEvent

\* All answers are there and the ledger takes the outcome.
LEMMA RecordKeeps ==
  ASSUME SInv, NEW s \in Studies, Record(s)
  PROVE  SInv'
<1> DEFINE id == <<s, "completed">>
           details == OutcomeEvent(s)
<1>1. /\ phase[s] = "reasoning"
      /\ Settled(s)
      /\ Log!append(id, details)
      /\ phase' = [phase EXCEPT ![s] = "recorded"]
      /\ UNCHANGED <<kept, calls, result, faults>>
  BY DEF Record
<1>2. /\ StudyInv(s) /\ ~ Recorded(s, "completed") /\ LogInv
      /\ Len(log) \in Nat /\ DOMAIN log = 1 .. Len(log)
  BY <1>1, LogOfInvariant DEF SInv, StudyInv, Phased, Types
<1>3. PICK m \in DOMAIN log : log[m].id = <<s, "started">>
  BY <1>1, <1>2 DEF StudyInv, Phased, Recorded
<1>5. details \in EventDetails
  BY <1>1, OutcomeIsAnEvent
<1>6. id \in EventIds
  BY DEF EventIds
<1>7. Grown(id, details) /\ LogInv'
  <2> HIDE DEF id, details
  <2>1. QED
    BY <1>1, <1>2, <1>5, <1>6, AppendGrows
<1>8. Types'
  <2>1. log' \in Seq(Events)
    BY <1>7 DEF LogInv
  <2>2. \A k \in DOMAIN log' : log'[k].id \in EventIds /\ log'[k].details \in EventDetails
    BY <2>1, EventTypes
  <2>3. QED
    BY <1>1, <2>1, <2>2 DEF SInv, Types, TypeOK
<1>9. ProvidersSeeCleanText'
  BY <1>1 DEF SInv, ProvidersSeeCleanText
<1>10. phase'[s] = "recorded" /\ \A t \in Studies : t # s => phase'[t] = phase[t]
  BY <1>1 DEF SInv, Types, TypeOK
<1>11. ASSUME NEW t \in Studies, t # s
       PROVE  StudyInv(t)'
  <2>1. id \notin {<<t, "started">>, <<t, "completed">>}
    BY <1>11
  <2>2. QED
    BY <1>1, <1>7, <1>10, <1>11, <2>1, StudyStays
<1>12. StudyInv(s)'
  <2> HIDE DEF details
  <2>1. /\ \A k \in DOMAIN log' : log'[k].id = <<s, "completed">> => k = Len(log) + 1
        /\ \A k \in DOMAIN log' : log'[k].id = <<s, "started">> => k \in DOMAIN log
        /\ \A k \in DOMAIN log : k \in DOMAIN log' /\ log'[k] = log[k]
        /\ Len(log) + 1 \in DOMAIN log'
        /\ log'[Len(log) + 1].id = <<s, "completed">>
        /\ log'[Len(log) + 1].details = details
    BY <1>2, <1>7 DEF Grown, Recorded
  <2>2. Phased(s)'
    BY <1>3, <1>10, <2>1 DEF Phased, Recorded
  <2>3. \A p : CalledFor(s, p)' <=> CalledFor(s, p)
    BY <1>1 DEF CalledFor
  <2>4. Opening(s)'
    BY <1>1, <1>2, <2>1, <2>3 DEF StudyInv, Opening
  <2>5. /\ Settled(s)'
        /\ OutcomeEvent(s)' = OutcomeEvent(s)
    BY <1>1 DEF Settled, OutcomeEvent, providerResults
  <2>6. m \in 1 .. (Len(log) + 1) - 1 /\ log'[m].id = <<s, "started">>
    BY <1>2, <1>3, <2>1
  <2>7. Closing(s)'
    BY <1>1, <2>1, <2>5, <2>6 DEF Closing, details
  <2>8. Returned(s)'
    BY <1>10 DEF Returned
  <2>9. QED
    BY <2>2, <2>4, <2>7, <2>8 DEF StudyInv
<1>13. QED
  BY <1>7, <1>8, <1>9, <1>11, <1>12 DEF SInv, LogInv

\* The digest is of a log that has the outcome's event.
LEMMA ReturnKeeps ==
  ASSUME SInv, NEW s \in Studies, Return(s)
  PROVE  SInv'
<1>1. /\ phase[s] = "recorded"
      /\ phase' = [phase EXCEPT ![s] = "returned"]
      /\ DOMAIN result' = Studies
      /\ \A t \in Studies : t # s => result'[t] = result[t]
      /\ result'[s].status = studyStatus(providerResults(s), kept[s].providerCount)
      /\ result'[s].lessonCandidate = lessonCandidate(kept[s].validationOnly, providerResults(s))
      /\ result'[s].safetyFlags = kept[s].safetyFlags
      /\ result'[s].auditDigest = Log!HeadHash(log)
      /\ UNCHANGED <<log, kept, calls, faults>>
  BY DEF Return, End, SInv, Types
<1>2. StudyInv(s) /\ LogInv /\ Len(log) \in Nat /\ DOMAIN log = 1 .. Len(log)
  BY LogOfInvariant DEF SInv, Types
<1>3. PICK c \in DOMAIN log : log[c].id = <<s, "completed">>
  BY <1>1, <1>2 DEF StudyInv, Phased, Recorded
<1>4. Types'
  BY <1>1 DEF SInv, Types, TypeOK
<1>5. UniqueIds' /\ Chained' /\ ProvidersSeeCleanText'
  BY <1>1 DEF SInv, UniqueIds, Chained, ProvidersSeeCleanText
<1>6. phase'[s] = "returned" /\ \A t \in Studies : t # s => phase'[t] = phase[t]
  BY <1>1 DEF SInv, Types, TypeOK
<1>7. ASSUME NEW t \in Studies, t # s
      PROVE  StudyInv(t)'
  BY <1>1, <1>6, <1>7, StudyStays
<1>8. StudyInv(s)'
  <2>1. Phased(s)'
    BY <1>1, <1>2, <1>3, <1>6 DEF StudyInv, Phased, Recorded
  <2>2. Opening(s)'
    BY <1>1, <1>2 DEF StudyInv, Opening, CalledFor
  <2>3. Closing(s)'
    BY <1>1, <1>2 DEF StudyInv, Closing, Settled, OutcomeEvent, providerResults
  <2>4. Log!HeadHash(log) = log[Len(log)].eventHash /\ Len(log) \in DOMAIN log
    BY <1>2, <1>3 DEF Log!HeadHash
  <2>5. \E m \in DOMAIN log' :
          /\ result'[s].auditDigest = log'[m].eventHash
          /\ \A k \in DOMAIN log' : log'[k].id = <<s, "completed">> => k <= m
    BY <1>1, <1>2, <2>4
  <2>6. providerResults(s)' = providerResults(s)
    BY <1>1 DEF providerResults
  <2>7. Returned(s)'
    BY <1>1, <2>5, <2>6 DEF Returned
  <2>8. QED
    BY <2>1, <2>2, <2>3, <2>7 DEF StudyInv
<1>9. QED
  BY <1>4, <1>5, <1>7, <1>8 DEF SInv

\* Another call's event is none of a study's.
LEMMA OtherKeeps ==
  ASSUME SInv, NEW a \in Others, Other(a)
  PROVE  SInv'
<1>1. /\ Log!append(<<a, "other">>, OtherEvent)
      /\ UNCHANGED <<phase, kept, calls, result, faults>>
  BY DEF Other
<1>2. /\ <<a, "other">> \in EventIds
      /\ OtherEvent \in EventDetails
      /\ LogInv
  BY LogOfInvariant DEF EventIds, EventDetails
<1>3. Grown(<<a, "other">>, OtherEvent) /\ LogInv'
  BY <1>1, <1>2, AppendGrows
<1>4. Types'
  <2>1. log' \in Seq(Events)
    BY <1>3 DEF LogInv
  <2>2. \A k \in DOMAIN log' : log'[k].id \in EventIds /\ log'[k].details \in EventDetails
    BY <2>1, EventTypes
  <2>3. QED
    BY <1>1, <2>1, <2>2 DEF SInv, Types, TypeOK
<1>5. ProvidersSeeCleanText'
  BY <1>1 DEF SInv, ProvidersSeeCleanText
<1>6. ASSUME NEW t \in Studies
      PROVE  StudyInv(t)'
  <2>1. <<a, "other">> \notin {<<t, "started">>, <<t, "completed">>}
    OBVIOUS
  <2>2. QED
    BY <1>1, <1>3, <2>1, StudyStays
<1>7. QED
  BY <1>3, <1>4, <1>5, <1>6 DEF SInv, LogInv

-----------------------------------------------------------------------------
(* The inductive invariant of the specification.                           *)

LEMMA InitEstablishes ==
  ASSUME Init
  PROVE  SInv
<1>1. log = << >> /\ \A s \in Studies : phase[s] = "ready" /\ calls[s] = << >>
  BY DEF Init, Log!Init
<1>2. Types
  BY <1>1, StudyAssumption DEF Init, Types, TypeOK, NothingKept, ProviderCounts
<1>3. UniqueIds /\ Chained /\ ProvidersSeeCleanText
  BY <1>1 DEF UniqueIds, Chained, ProvidersSeeCleanText
<1>4. \A s \in Studies : StudyInv(s)
  BY <1>1 DEF StudyInv, Phased, Opening, Closing, Returned, Recorded
<1>5. QED
  BY <1>2, <1>3, <1>4 DEF SInv

LEMMA CallKeeps ==
  ASSUME SInv, NEW s \in Studies, Call(s)
  PROVE  SInv'
<1>1. PICK o \in Options, stillMatches \in BOOLEAN :
        LET preflight == sanitizeObjective(o.objective, stillMatches)
        IN  Reject(s, preflight) \/ Start(s, o, preflight) \/ StartThrows(s, preflight)
  BY DEF Call
<1>2. PICK preflight :
        /\ preflight = sanitizeObjective(o.objective, stillMatches)
        /\ Reject(s, preflight) \/ Start(s, o, preflight) \/ StartThrows(s, preflight)
  BY <1>1
<1>3. faults \in 0 .. MaxFaults /\ MaxFaults \in Nat
  BY StudyAssumption DEF SInv, Types, TypeOK
<1>4. CASE Reject(s, preflight)
  BY <1>3, <1>4, StudyStops DEF Reject
<1>5. CASE Start(s, o, preflight)
  <2>1. /\ preflight.safetyFlags \in Flags
        /\ preflight.accepted => /\ ~ HasKind(preflight.objective, "secret")
                                /\ ~ HasKind(preflight.objective, "personal")
    BY <1>2, SanitizedIsClean
  <2>2. QED
    BY <1>5, <2>1, StartKeeps
<1>6. CASE StartThrows(s, preflight)
  BY <1>3, <1>6, StudyStops DEF StartThrows, Fault
<1>7. QED
  BY <1>2, <1>4, <1>5, <1>6

LEMMA NextKeeps ==
  ASSUME SInv, [Next]_vars
  PROVE  SInv'
<1>1. faults \in 0 .. MaxFaults /\ MaxFaults \in Nat
  BY StudyAssumption DEF SInv, Types, TypeOK
<1>2. ASSUME NEW s \in Studies, Call(s)
      PROVE  SInv'
  BY <1>2, CallKeeps
<1>3. ASSUME NEW s \in Studies, Provide(s)
      PROVE  SInv'
  BY <1>3, SettleKeeps DEF Provide
<1>11. ASSUME NEW s \in Studies, Caller(s)
       PROVE  SInv'
  BY <1>11, AlterKeeps DEF Caller
<1>4. ASSUME NEW s \in Studies, Progress(s)
      PROVE  SInv'
  BY <1>4, RecordKeeps, ReturnKeeps DEF Progress
<1>5. ASSUME NEW s \in Studies, RecordThrows(s)
      PROVE  SInv'
  BY <1>1, <1>5, StudyStops DEF RecordThrows, Fault
<1>6. ASSUME NEW s \in Studies, ReturnThrows(s)
      PROVE  SInv'
  BY <1>1, <1>6, StudyStops DEF ReturnThrows, Fault
<1>7. ASSUME NEW s \in Studies, Crash(s)
      PROVE  SInv'
  BY <1>1, <1>7, StudyStops DEF Crash, Fault
<1>8. ASSUME NEW a \in Others, Other(a)
      PROVE  SInv'
  BY <1>8, OtherKeeps
<1>9. CASE UNCHANGED vars
  <2>1. UNCHANGED <<log, phase, kept, calls, result, faults>>
    BY <1>9 DEF vars
  <2>2. Types' /\ UniqueIds' /\ Chained' /\ ProvidersSeeCleanText'
    BY <2>1 DEF SInv, Types, TypeOK, UniqueIds, Chained, ProvidersSeeCleanText
  <2>3. \A s \in Studies : StudyInv(s)'
    BY <2>1, StudyStays
  <2>4. QED
    BY <2>2, <2>3 DEF SInv
<1>10. QED
  BY <1>2, <1>3, <1>4, <1>5, <1>6, <1>7, <1>8, <1>9, <1>11 DEF Next

\* The inductive invariant holds in every state of every behaviour.
THEOREM InvariantHolds == Spec => []SInv
<1>1. Init => SInv
  BY InitEstablishes
<1>2. SInv /\ [Next]_vars => SInv'
  BY NextKeeps
<1>3. QED
  BY <1>1, <1>2, PTL DEF Spec

-----------------------------------------------------------------------------
(* What follows from it.                                                   *)

\* Every variable has its type.
THEOREM TypeCorrect == Spec => []TypeOK
<1>1. SInv => TypeOK
  BY DEF SInv, Types
<1>2. QED
  BY <1>1, InvariantHolds, PTL

\* No provider is given a text with anything that either expression matches.
THEOREM CleanTextOnly == Spec => []ProvidersSeeCleanText
<1>1. SInv => ProvidersSeeCleanText
  BY DEF SInv
<1>2. QED
  BY <1>1, InvariantHolds, PTL

\* Where the two events of a study are, and what they are about.
LEMMA EventsOfStudy ==
  ASSUME SInv, NEW s \in Studies, At(s, "completed") # 0
  PROVE  \E c \in DOMAIN log, j \in 1 .. At(s, "completed") - 1, o \in Options :
           /\ At(s, "completed") = c
           /\ At(s, "started") = j
           /\ log[c].id = <<s, "completed">>
           /\ log[c].details = OutcomeEvent(s)
           /\ log[j].details = startedEvent(o, kept[s].safetyFlags)
           /\ CalledFor(s, o)
           /\ Settled(s)
<1>1. LogInv /\ StudyInv(s) /\ DOMAIN log = 1 .. Len(log) /\ Len(log) \in Nat
  BY LogOfInvariant DEF SInv, Types
<1>2. PICK c \in DOMAIN log : log[c].id = <<s, "completed">>
  BY <1>1, AtMisses DEF Recorded
<1>3. At(s, "completed") = c
  BY <1>1, <1>2, AtFinds
<1>4. /\ Settled(s)
      /\ log[c].details = OutcomeEvent(s)
  BY <1>1, <1>2 DEF StudyInv, Closing
<1>5. PICK j \in 1 .. c - 1 : log[j].id = <<s, "started">>
  BY <1>1, <1>2 DEF StudyInv, Closing
<1>6. j \in DOMAIN log
  BY <1>1, <1>2, <1>5
<1>7. At(s, "started") = j
  BY <1>1, <1>5, <1>6, AtFinds
<1>8. PICK o \in Options : log[j].details = startedEvent(o, kept[s].safetyFlags) /\ CalledFor(s, o)
  BY <1>1, <1>5, <1>6 DEF StudyInv, Opening
<1>9. QED
  BY <1>2, <1>3, <1>4, <1>5, <1>7, <1>8

\* The two events of a study bracket its providers.
THEOREM EventsBracket == Spec => []EventsBracketProviders
<1>1. ASSUME SInv, NEW s \in Studies, calls[s] # << >>
      PROVE  At(s, "started") # 0
  <2>1. LogInv /\ StudyInv(s) /\ DOMAIN log = 1 .. Len(log) /\ Len(log) \in Nat
    BY <1>1, LogOfInvariant DEF SInv, Types
  <2>2. PICK k \in DOMAIN log : log[k].id = <<s, "started">>
    BY <1>1, <2>1 DEF StudyInv, Phased, Recorded
  <2>3. At(s, "started") = k
    BY <2>1, <2>2, AtFinds
  <2>4. QED
    BY <2>1, <2>2, <2>3
<1>2. ASSUME SInv, NEW s \in Studies, At(s, "completed") # 0
      PROVE  /\ At(s, "started") \in 1 .. At(s, "completed") - 1
             /\ \A i \in DOMAIN calls[s] : calls[s][i].answer # Pending
  BY <1>2, EventsOfStudy DEF Settled
<1>3. SInv => EventsBracketProviders
  BY <1>1, <1>2 DEF EventsBracketProviders
<1>4. QED
  BY <1>3, InvariantHolds, PTL

\* The outcome tells who answered, in order, and whether all, some or none did.
THEOREM OutcomeIsOfTheAnswers == Spec => []EvidenceMatchesAnswers
<1>1. ASSUME SInv, NEW s \in Studies, At(s, "completed") # 0
      PROVE  LET outcome == log[At(s, "completed")].details
             IN  /\ Len(outcome.successfulProviders) = Cardinality(Answered(s))
                 /\ \A i \in Answered(s) :
                      outcome.successfulProviders[Cardinality({j \in Answered(s) : j <= i})]
                        = calls[s][i].provider
                 /\ outcome.outcome = "denied" <=> Answered(s) = {}
                 /\ s \notin Altering =>
                      /\ outcome.status = "completed" <=> Answered(s) = DOMAIN calls[s]
                      /\ outcome.status = "failed" <=> Answered(s) = {} /\ calls[s] # << >>
  <2> DEFINE outcome == log[At(s, "completed")].details
             results == providerResults(s)
  <2>1. PICK o \in Options :
          /\ outcome = OutcomeEvent(s)
          /\ CalledFor(s, o)
    BY <1>1, EventsOfStudy
  <2>2. PICK n \in Nat : DOMAIN calls[s] = 1 .. n
    BY <2>1, StudyAssumption DEF CalledFor
  <2>3. Types
    BY <1>1 DEF SInv
  <2>4. /\ Cardinality(Answered(s)) \in 0 .. n
        /\ Cardinality(Answered(s)) = n <=> Answered(s) = 1 .. n
        /\ Len(successful(results)) = Cardinality(Answered(s))
        /\ successful(results) = << >> <=> Answered(s) = {}
        /\ \A i \in Answered(s) : successful(results)[Place(i, Answered(s))] = calls[s][i].provider
    BY <2>2, <2>3, SuccessfulAreAnswered
  <2>5. s \notin Altering => kept[s].providerCount = n
    <3>1. DOMAIN calls[s] = DOMAIN o.providers
      BY <2>1 DEF CalledFor
    <3>2. o.providers \in Seq(STRING)
      BY StudyAssumption
    <3>3. Len(o.providers) \in Nat /\ DOMAIN o.providers = 1 .. Len(o.providers)
      BY <3>2
    <3>4. Len(o.providers) = n
      BY <2>2, <3>1, <3>3
    <3>5. QED
      BY <2>1, <3>4 DEF CalledFor
  <2>6. calls[s] = << >> <=> n = 0
    BY <2>2, <2>3 DEF Types
  <2> HIDE DEF outcome, results
  <2>7. /\ outcome.successfulProviders = successful(results)
        /\ outcome.status = studyStatus(results, kept[s].providerCount)
        /\ outcome.outcome = IF successful(results) # << >> THEN "recorded" ELSE "denied"
    BY <2>1 DEF OutcomeEvent, completedEvent, results
  <2>8. ASSUME s \notin Altering
        PROVE  /\ outcome.status = "completed" <=> Answered(s) = DOMAIN calls[s]
               /\ outcome.status = "failed" <=> Answered(s) = {} /\ calls[s] # << >>
    <3>1. CASE Answered(s) = 1 .. n
      BY <2>2, <2>4, <2>5, <2>6, <2>7, <2>8, <3>1 DEF studyStatus
    <3>2. CASE Answered(s) # 1 .. n
      BY <2>2, <2>4, <2>5, <2>6, <2>7, <2>8, <3>2 DEF studyStatus
    <3>3. QED
      BY <3>1, <3>2
  <2>9. outcome.outcome = "denied" <=> Answered(s) = {}
    BY <2>4, <2>7
  <2>10. QED
    BY <2>4, <2>7, <2>8, <2>9 DEF Place, outcome
<1>2. SInv => EvidenceMatchesAnswers
  BY <1>1 DEF EvidenceMatchesAnswers
<1>3. QED
  BY <1>2, InvariantHolds, PTL

\* A lesson is reported for two calls that were answered with a text, and never for
\* fewer; with the options left alone, for all but a validation-only study.
THEOREM LessonsAreEarned == Spec => []LessonsNeedTwoCompletions
<1>1. ASSUME SInv, NEW s \in Studies, At(s, "completed") # 0
      PROVE  LET opened == log[At(s, "started")].details
                 outcome == log[At(s, "completed")].details
             IN  /\ outcome.lessonCreated => Cardinality(Answered(s)) >= 2
                 /\ s \notin Altering =>
                      (outcome.lessonCreated <=>
                         ~ opened.validationOnly /\ Cardinality(Answered(s)) >= 2)
  <2> DEFINE opened == log[At(s, "started")].details
             outcome == log[At(s, "completed")].details
             results == providerResults(s)
  <2>1. PICK o \in Options :
          /\ outcome = OutcomeEvent(s)
          /\ opened = startedEvent(o, kept[s].safetyFlags)
          /\ CalledFor(s, o)
    BY <1>1, EventsOfStudy
  <2>2. PICK n \in Nat : DOMAIN calls[s] = 1 .. n
    BY <2>1, StudyAssumption DEF CalledFor
  <2>3. Len(successful(results)) = Cardinality(Answered(s))
    BY <1>1, <2>2, SuccessfulAreAnswered DEF SInv
  <2> HIDE DEF outcome, opened, results
  <2>4. /\ outcome.lessonCreated = (lessonCandidate(kept[s].validationOnly, results) # NoLesson)
        /\ opened.validationOnly = o.validationOnly
    BY <2>1 DEF OutcomeEvent, completedEvent, startedEvent, results
  <2>5. lessonCandidate(kept[s].validationOnly, results) # NoLesson
          <=> ~ kept[s].validationOnly /\ Len(successful(results)) >= 2
    BY DEF lessonCandidate, NoLesson
  <2>6. s \notin Altering => kept[s].validationOnly = opened.validationOnly
    BY <2>1, <2>4 DEF CalledFor
  <2>7. QED
    BY <2>3, <2>4, <2>5, <2>6 DEF outcome, opened
<1>2. SInv => LessonsNeedTwoCompletions
  BY <1>1 DEF LessonsNeedTwoCompletions
<1>3. QED
  BY <1>2, InvariantHolds, PTL

\* A study returns what the evidence says of it, with the digest of a chain that
\* has both its events.
THEOREM ResultsHaveEvidence == Spec => []ResultsAreEvidenced
<1>1. ASSUME SInv, NEW s \in Studies, phase[s] = "returned"
      PROVE  LET opened == log[At(s, "started")]
                 outcome == log[At(s, "completed")]
             IN  /\ result[s].status = outcome.details.status
                 /\ result[s].lessonCandidate.sourceProviders =
                      IF outcome.details.lessonCreated THEN outcome.details.successfulProviders
                      ELSE << >>
                 /\ result[s].safetyFlags = opened.details.safetyFlags
                 /\ IsPrefix(outcome.eventHash, result[s].auditDigest)
  <2> DEFINE opened == log[At(s, "started")]
             outcome == log[At(s, "completed")]
             results == providerResults(s)
  <2>1. LogInv /\ StudyInv(s) /\ DOMAIN log = 1 .. Len(log) /\ Len(log) \in Nat
    BY <1>1, LogOfInvariant DEF SInv, Types
  <2>2. PICK k \in DOMAIN log : log[k].id = <<s, "completed">>
    BY <1>1, <2>1 DEF StudyInv, Phased, Recorded
  <2>3. At(s, "completed") # 0
    BY <2>1, <2>2, AtFinds
  <2>4. PICK c \in DOMAIN log, o \in Options :
          /\ At(s, "completed") = c
          /\ log[c].id = <<s, "completed">>
          /\ outcome.details = OutcomeEvent(s)
          /\ opened.details = startedEvent(o, kept[s].safetyFlags)
    BY <1>1, <2>3, EventsOfStudy
  <2>5. /\ result[s].status = studyStatus(results, kept[s].providerCount)
        /\ result[s].lessonCandidate = lessonCandidate(kept[s].validationOnly, results)
        /\ result[s].safetyFlags = kept[s].safetyFlags
    BY <1>1, <2>1 DEF StudyInv, Returned
  <2>6. PICK m \in DOMAIN log :
          /\ result[s].auditDigest = log[m].eventHash
          /\ \A i \in DOMAIN log : log[i].id = <<s, "completed">> => i <= m
    BY <1>1, <2>1 DEF StudyInv, Returned
  <2>7. IsPrefix(outcome.eventHash, result[s].auditDigest)
    <3>1. c \in 1 .. m
      BY <2>1, <2>4, <2>6
    <3>2. IsPrefix(log[c].eventHash, log[m].eventHash)
      BY <3>1, <2>1 DEF LogInv, Chained
    <3>3. QED
      BY <3>2, <2>4, <2>6
  <2> HIDE DEF outcome, opened, results
  <2>8. /\ outcome.details.status = studyStatus(results, kept[s].providerCount)
        /\ outcome.details.successfulProviders = successful(results)
        /\ outcome.details.lessonCreated =
             (lessonCandidate(kept[s].validationOnly, results) # NoLesson)
        /\ opened.details.safetyFlags = kept[s].safetyFlags
    BY <2>4 DEF OutcomeEvent, completedEvent, startedEvent, results
  <2>9. lessonCandidate(kept[s].validationOnly, results).sourceProviders =
          IF lessonCandidate(kept[s].validationOnly, results) # NoLesson
          THEN successful(results) ELSE << >>
    BY DEF lessonCandidate, NoLesson
  <2>10. QED
    BY <2>5, <2>7, <2>8, <2>9 DEF outcome, opened
<1>2. SInv => ResultsAreEvidenced
  BY <1>1 DEF ResultsAreEvidenced
<1>3. QED
  BY <1>2, InvariantHolds, PTL

-----------------------------------------------------------------------------
(* Studies and their ledger.                                               *)

\* Studies, and the calls around them, do nothing to the ledger but append to it as
\* AuditLog says: what is proved of a ledger that implements AuditLog holds under
\* any number of studies.
THEOREM StudiesAppendToTheLog == Spec => Log!Spec
<1>1. Init => Log!Init
  BY DEF Init
<1>2. ASSUME SInv, [Next]_vars
      PROVE  [Log!Next]_log
  <2>1. ASSUME NEW s \in Studies, NEW o \in Options, NEW preflight,
               preflight.safetyFlags \in Flags, Start(s, o, preflight)
        PROVE  Log!Next
    <3>1. <<s, "started">> \in EventIds /\ startedEvent(o, preflight.safetyFlags) \in EventDetails
      BY <2>1 DEF EventIds, EventDetails, Flags
    <3>2. Log!append(<<s, "started">>, startedEvent(o, preflight.safetyFlags))
      BY <2>1 DEF Start
    <3>3. QED
      BY <3>1, <3>2 DEF Log!Next
  <2>2. ASSUME NEW s \in Studies, Call(s)
        PROVE  [Log!Next]_log
    <3>1. PICK o \in Options, stillMatches \in BOOLEAN :
            LET preflight == sanitizeObjective(o.objective, stillMatches)
            IN  Reject(s, preflight) \/ Start(s, o, preflight) \/ StartThrows(s, preflight)
      BY <2>2 DEF Call
    <3>2. PICK preflight :
            /\ preflight = sanitizeObjective(o.objective, stillMatches)
            /\ Reject(s, preflight) \/ Start(s, o, preflight) \/ StartThrows(s, preflight)
      BY <3>1
    <3>3. preflight.safetyFlags \in Flags
      BY <3>2, SanitizedIsClean
    <3>4. CASE Reject(s, preflight) \/ StartThrows(s, preflight)
      BY <3>4 DEF Reject, StartThrows
    <3>5. CASE Start(s, o, preflight)
      BY <3>3, <3>5, <2>1
    <3>6. QED
      BY <3>2, <3>4, <3>5
  <2>3. ASSUME NEW s \in Studies, Record(s)
        PROVE  Log!Next
    <3>1. <<s, "completed">> \in EventIds
      BY DEF EventIds
    <3>2. OutcomeEvent(s) \in EventDetails
      BY <1>2, <2>3, OutcomeIsAnEvent DEF Record
    <3>3. Log!append(<<s, "completed">>, OutcomeEvent(s))
      BY <2>3 DEF Record
    <3>4. QED
      BY <3>1, <3>2, <3>3 DEF Log!Next
  <2>4. ASSUME NEW a \in Others, Other(a)
        PROVE  Log!Next
    <3>1. <<a, "other">> \in EventIds /\ OtherEvent \in EventDetails
      BY DEF EventIds, EventDetails
    <3>2. Log!append(<<a, "other">>, OtherEvent)
      BY <2>4 DEF Other
    <3>3. QED
      BY <3>1, <3>2 DEF Log!Next
  <2>5. ASSUME NEW s \in Studies,
               \/ Provide(s) \/ Caller(s) \/ Return(s)
               \/ RecordThrows(s) \/ ReturnThrows(s) \/ Crash(s)
        PROVE  UNCHANGED log
    BY <2>5 DEF Provide, Settle, Caller, Alter, Return, RecordThrows, ReturnThrows, Crash
  <2>6. CASE UNCHANGED vars
    BY <2>6 DEF vars
  <2>7. QED
    BY <1>2, <2>2, <2>3, <2>4, <2>5, <2>6 DEF Next, Progress
<1>3. QED
  BY <1>1, <1>2, InvariantHolds, PTL DEF Spec, Log!Spec
=============================================================================
