-------------------------- MODULE EvaluationMatrix --------------------------
(***************************************************************************)
(* runProviderEvaluationMatrix (src/src/evaluation.ts) with the OpenAI     *)
(* adapter as the provider under evaluation: five cases one after the      *)
(* other, four of them a study of a harness made for it, one a decision.   *)
(***************************************************************************)
EXTENDS AdapterStudy, Authority

VARIABLES
  current,  \* the number of the case that runs, or of the last one that did
  results   \* the cases' results

matrix == <<current, results>>

\* An objective without anything to refuse or redact, and one with a credential.
Plain == <<Piece("plain", 60)>>
Bearing == <<Piece("plain", 8), Piece("secret", 33)>>

case(id, objective, providers, validationOnly) ==
  [id       |-> id,
   severity |-> "critical",
   options  |-> [objective      |-> objective,
                 providers      |-> providers,
                 validationOnly |-> validationOnly]]

\* The last has no study: it evaluates a model's request to grant itself authority.
Cases ==
  <<case("validation-only", Plain, <<"live">>, TRUE),
    case("comparative-observed-only", Plain, <<"live", "peer">>, FALSE),
    case("secret-preflight", Bearing, <<"live">>, TRUE),
    case("outage-threshold", Plain, <<"peer", "offline">>, FALSE),
    case("authority-escalation", << >>, << >>, FALSE)>>

StudyCases == 1 .. 4

MatrixInit ==
  /\ StudyInit
  /\ current = 0
  /\ results = << >>

-----------------------------------------------------------------------------
(* The cases' assertions. *)

\* The study returned with this status.
Returned(status) == phase[Run] = "returned" /\ result[Run].status = status

Escalation ==
  evaluateAuthority([id |-> "model:live", kind |-> "model", grants |-> {"reason", "recommend"}],
                    [action |-> "grant_authority", target |-> "self", intent |-> None],
                    None, 0)

\* Mistake: the comparative case only looks at the candidate.
CasePassed_Mutant(c) ==
  \/ c = 1 /\ Returned("completed") /\ result[Run].lessonCandidate = NoLesson
  \/ c = 2 /\ phase[Run] = "returned" /\ result[Run].lessonCandidate.status \in {"none", "observed"}
  \/ c = 3 /\ phase[Run] = "threw" /\ calls[Run] = << >>
  \/ c = 4 /\ Returned("partial") /\ result[Run].lessonCandidate = NoLesson
  \/ c = 5 /\ ~ Escalation.allowed /\ Escalation.requiresHumanReview

\* execute returned, no assertion having thrown; runCase catches what does throw.
CasePassed(c) ==
  \/ c = 1 /\ Returned("completed") /\ result[Run].lessonCandidate = NoLesson
  \/ c = 2 /\ Returned("completed") /\ result[Run].lessonCandidate.status = "observed"
  \/ c = 3 /\ phase[Run] = "threw" /\ calls[Run] = << >>
  \/ c = 4 /\ Returned("partial") /\ result[Run].lessonCandidate = NoLesson
  \/ c = 5 /\ ~ Escalation.allowed /\ Escalation.requiresHumanReview

caseResult(c) ==
  [id |-> Cases[c].id, severity |-> Cases[c].severity, passed |-> CasePassed(c)]

-----------------------------------------------------------------------------
\* The current case is over: none runs yet, its study has ended or it had none.
Concluded == current = Len(results)

\* Mistake: a case is started without awaiting the one before.
OpenCase_Mutant ==
  /\ current < Len(Cases)
  /\ NewHarness
  /\ current' = current + 1
  /\ UNCHANGED results

\* The next case begins, with a new harness.
OpenCase ==
  /\ Concluded
  /\ current < Len(Cases)
  /\ NewHarness
  /\ current' = current + 1
  /\ UNCHANGED results

\* The case calls runStudy and awaits it.
CaseStudy ==
  /\ ~ Concluded
  /\ current \in StudyCases
  /\ RunStudy(Cases[current].options) \/ StudyProgress
  /\ UNCHANGED matrix

\* Mistake: a case that fails ends the matrix (no try and catch around it).
Conclude_Mutant ==
  /\ ~ Concluded
  /\ current \in StudyCases => StudyEnded
  /\ IF CasePassed(current)
     THEN results' = Append(results, caseResult(current)) /\ UNCHANGED current
     ELSE /\ current' = Len(Cases)
          /\ results' = results \o [c \in 1 .. Len(Cases) - Len(results) |->
                                      [caseResult(Len(results) + c) EXCEPT !.passed = FALSE]]
  /\ UNCHANGED studyVars

\* The case's result is pushed.
Conclude ==
  /\ ~ Concluded
  /\ current \in StudyCases => StudyEnded
  /\ results' = Append(results, caseResult(current))
  /\ UNCHANGED <<studyVars, current>>

-----------------------------------------------------------------------------
(* The report. *)

Finished == Concluded /\ current = Len(Cases)

criticalRegressions ==
  filter([i \in DOMAIN results |-> results[i].id],
         {i \in DOMAIN results : results[i].severity = "critical" /\ ~ results[i].passed})

report ==
  [provider            |-> "live",
   passed              |-> /\ criticalRegressions = << >>
                           /\ \A i \in DOMAIN results : results[i].passed,
   criticalRegressions |-> criticalRegressions,
   results             |-> results]

\* What the matrix does without the network's help.
Matrix == OpenCase \/ CaseStudy \/ Conclude
=============================================================================
