-------------------------- MODULE StudyProperties ---------------------------
(***************************************************************************)
(* What studies are to guarantee about their providers, their evidence and *)
(* their end.                                                              *)
(***************************************************************************)
EXTENDS Study

\* Every variable has its type.
TypeOK ==
  /\ phase \in [Studies -> {"ready", "reasoning", "recorded", "returned", "threw", "dead"}]
  /\ kept \in [Studies -> [validationOnly : BOOLEAN,
                           providerCount  : ProviderCounts,
                           safetyFlags    : {<< >>, <<"personal_data_redacted">>}]]
  /\ \A s \in Studies : \A i \in DOMAIN calls[s] : calls[s][i].answer \in Answers \cup {Pending}
  /\ \A k \in DOMAIN log : log[k].id \in EventIds /\ log[k].details \in EventDetails
  /\ faults \in 0 .. MaxFaults

\* Where an event of a study is in the log, or 0.
At(s, which) == SelectInSeq(log, LAMBDA event : event.id = <<s, which>>)

\* Whatever appends in between, the two events of a study bracket its providers:
\* one is asked only when the start is recorded, and the outcome is recorded
\* after the start and when no provider can answer any more.  (harness.ts:202-251)
EventsBracketProviders ==
  \A s \in Studies :
    /\ calls[s] # << >> => At(s, "started") # 0
    /\ At(s, "completed") # 0 =>
         /\ At(s, "started") \in 1 .. At(s, "completed") - 1
         /\ \A i \in DOMAIN calls[s] : calls[s][i].answer # Pending

\* "Credential-bearing input is rejected before provider invocation.  Common
\* personal data is redacted before provider invocation" (README.md:73-74): no
\* text a provider was ever given has a piece that either expression matches.
ProvidersSeeCleanText ==
  \A s \in Studies : \A i \in DOMAIN calls[s] :
    ~ HasKind(calls[s][i].objective, "secret") /\ ~ HasKind(calls[s][i].objective, "personal")

\* The calls of a study that were answered with something.
Answered(s) ==
  {i \in DOMAIN calls[s] : calls[s][i].answer.kind = "text" /\ calls[s][i].answer.length > 0}

\* The evidence tells the outcome as it was, also of a study whose caller got an
\* exception or whose neighbours recorded in between: who answered, in the order
\* they were listed, and denied when none did, even if none was asked; of a study
\* whose options were left alone, also whether it was all, some or none of those
\* asked (harness.ts:226, 238 read the options again).  (harness.ts:225-255)
EvidenceMatchesAnswers ==
  \A s \in Studies :
    At(s, "completed") # 0 =>
      LET outcome == log[At(s, "completed")].details
      IN  /\ Len(outcome.successfulProviders) = Cardinality(Answered(s))
          /\ \A i \in Answered(s) :
               outcome.successfulProviders[Cardinality({j \in Answered(s) : j <= i})]
                 = calls[s][i].provider
          /\ outcome.outcome = "denied" <=> Answered(s) = {}
          /\ s \notin Altering =>
               /\ outcome.status = "completed" <=> Answered(s) = DOMAIN calls[s]
               /\ outcome.status = "failed" <=> Answered(s) = {} /\ calls[s] # << >>

\* A lesson is reported if and only if two calls of providers were answered with a
\* text and the study is not validation only, which the event that opened it tells
\* as long as its caller leaves its options alone.  "Single-provider studies cannot
\* create promotion state" and "at least two successful providers" (README.md:70-71)
\* ask for more: the code counts results, and one provider that is listed twice
\* earns a lesson, as it does in this run.  (harness.ts:224-236)
LessonsNeedTwoCompletions ==
  \A s \in Studies :
    At(s, "completed") # 0 =>
      LET opened == log[At(s, "started")].details
          outcome == log[At(s, "completed")].details
      IN  /\ outcome.lessonCreated => Cardinality(Answered(s)) >= 2
          /\ s \notin Altering =>
               (outcome.lessonCreated <=>
                  ~ opened.validationOnly /\ Cardinality(Answered(s)) >= 2)

\* What a study returns is what the evidence says of it, and the digest it returns
\* is of a chain that has both its events, although others may have appended
\* before digest was called and the caller may have changed the options since the
\* study opened.  (harness.ts:238-265)
ResultsAreEvidenced ==
  \A s \in Studies :
    phase[s] = "returned" =>
      LET opened == log[At(s, "started")]
          outcome == log[At(s, "completed")]
      IN  /\ result[s].status = outcome.details.status
          /\ result[s].lessonCandidate.sourceProviders =
               IF outcome.details.lessonCreated THEN outcome.details.successfulProviders ELSE << >>
          /\ result[s].safetyFlags = opened.details.safetyFlags
          /\ IsPrefix(outcome.eventHash, result[s].auditDigest)

\* A study ends once its own providers have answered, whether they succeed or fail
\* and whatever the providers of other studies do.
StudiesEndOnceAnswered ==
  \A s \in Studies :
    phase[s] = "reasoning" /\ (\A i \in DOMAIN calls[s] : calls[s][i].answer # Pending)
      ~> phase[s] \in {"returned", "threw", "dead"}

-----------------------------------------------------------------------------
(* What documentation says, and the code does not do. *)

\* "Reasoning providers receive a bounded objective" (ARCHITECTURE.md:80),
\* "objective is bounded to 4000 characters" (benchmark.ts:255).
ObjectivesAreBounded ==
  \A s \in Studies : \A i \in DOMAIN calls[s] :
    TextLength(calls[s][i].objective) <= OBJECTIVE_BOUND
=============================================================================
