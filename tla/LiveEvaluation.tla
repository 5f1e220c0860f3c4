--------------------------- MODULE LiveEvaluation ---------------------------
(***************************************************************************)
(* The live evaluation command (src/examples/openai-evaluation.ts): an     *)
(* OpenAI adapter is constructed from the environment, the matrix is run   *)
(* with it, and its report becomes evidence (src/src/evaluation-           *)
(* evidence.ts) and an exit code.  A program that embeds the harness       *)
(* instead runs a study of its own with the adapter.                       *)
(***************************************************************************)
EXTENDS EvaluationMatrix

CONSTANT Settings  \* what an environment variable may be: missing, blank or set

VARIABLES
  stage,     \* start, running the matrix, studying, or ended
  model,     \* the adapter's model
  evidence,  \* what is printed
  exitCode

command == <<stage, model, evidence, exitCode>>
vars == <<studyVars, matrix, command>>

NoEvidence == [schemaVersion |-> 0]
DefaultModel == "gpt-5.6-luna"

Init ==
  /\ MatrixInit
  /\ stage = "start"
  /\ model = "missing"
  /\ evidence = NoEvidence
  /\ exitCode = 0

-----------------------------------------------------------------------------
\* a ?? b: an empty variable is not a missing one.
Or(a, b) == IF a = "missing" THEN b ELSE a

boundedOptional(value) == IF value \in {"missing", "blank"} THEN None ELSE value

Failed(r) == filter(r.results, {i \in DOMAIN r.results : ~ r.results[i].passed})

buildOpenAIEvaluationEvidence(configured, r, tag, sha) ==
  [schemaVersion         |-> 1,
   tag                   |-> boundedOptional(tag),
   commitSha             |-> boundedOptional(sha),
   model                 |-> configured,
   liveProviderCallCount |-> 2,
   evaluationCaseCount   |-> Len(r.results),
   passed                |-> r.passed,
   failedCaseCount       |-> Len(Failed(r)),
   criticalRegressions   |-> r.criticalRegressions,
   evaluation            |-> r]

\* The command ends with an uncaught exception.
Abort == stage' = "ended" /\ exitCode' = 1

\* The environment is read and the adapter constructed.
Configure(apiKey, chosen) ==
  LET adapterOptions == [apiKey          |-> apiKey,
                         model           |-> Or(chosen, DefaultModel),
                         maxOutputTokens |-> "missing",
                         timeoutMs       |-> "missing"]
  IN  /\ stage = "start"
      /\ IF Live!Constructible(adapterOptions)
         THEN /\ stage' \in {"running", "studying"}
              /\ model' = adapterOptions.model
              /\ UNCHANGED exitCode
         ELSE Abort /\ UNCHANGED model
      /\ UNCHANGED <<studyVars, matrix, evidence>>

\* The report is in: the evidence is built and printed.
Conclusion(tag, releaseSha, githubSha) ==
  /\ stage = "running"
  /\ Finished
  /\ evidence' = buildOpenAIEvaluationEvidence(model, report, tag, Or(releaseSha, githubSha))
  /\ exitCode' = IF evidence'.passed THEN 0 ELSE 1
  /\ stage' = "ended"
  /\ UNCHANGED <<studyVars, matrix, model>>

\* The embedding program's study, and its end.
OwnStudy ==
  /\ stage = "studying"
  /\ \/ (\E o \in StudyOptions : RunStudy(o)) /\ UNCHANGED stage
     \/ StudyProgress /\ UNCHANGED stage
     \/ StudyEnded /\ stage' = "ended" /\ UNCHANGED studyVars
  /\ UNCHANGED <<matrix, model, evidence, exitCode>>

\* The code runs on whenever it does not wait for the network.
Progress ==
  \/ stage = "running" /\ Matrix /\ UNCHANGED command
  \/ OwnStudy
  \/ \E apiKey, chosen \in Settings : Configure(apiKey, chosen)
  \/ \E tag, releaseSha, githubSha \in Settings : Conclusion(tag, releaseSha, githubSha)

Next ==
  \/ Progress
  \/ Network /\ UNCHANGED <<matrix, command>>

Spec == Init /\ [][Next]_vars

\* The code of the command runs on, and the adapter's timer fires.
FairSpec ==
  /\ Spec
  /\ WF_vars(Progress)
  /\ WF_vars(Timer /\ UNCHANGED <<matrix, command>>)
=============================================================================
