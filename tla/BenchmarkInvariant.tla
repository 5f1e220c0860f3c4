------------------------- MODULE BenchmarkInvariant -------------------------
(***************************************************************************)
(* What holds of the benchmark (Benchmark) in every state, and makes the   *)
(* properties of BenchmarkProperties inductive.                            *)
(***************************************************************************)
EXTENDS BenchmarkProperties

\* What the loop may have pushed.
Outcomes == {outcome(i, TRUE) : i \in 1 .. 50} \cup {outcome(i, FALSE) : i \in 1 .. 50}

\* The loop is somewhere in the fifty scenarios, which it leaves as they were put
\* together, and only a scenario that has run can have regressed.
TypeOK ==
  /\ cases = AllScenarios
  /\ results \in Seq(Outcomes)
  /\ Len(results) <= 50
  /\ regressed \subseteq 1 .. Len(results)

\* Each result is that of the scenario at its place, and passed unless it regressed.
ResultsAreTheScenarios ==
  \A i \in 1 .. Len(results) :
    /\ results[i].id = cases[i].id
    /\ results[i].category = cases[i].category
    /\ results[i].severity = cases[i].severity
    /\ results[i].passed <=> i \notin regressed

\* The report is made once every scenario has run, from what stays as it is.
ReportIsOfTheResults ==
  report # NoReport =>
    /\ Len(results) = 50
    /\ report.scenarioCount = Len(results)
    /\ report.passed <=> criticalRegressions = << >> /\ \A i \in 1 .. Len(results) : results[i].passed
    /\ report.criticalRegressions = criticalRegressions
    /\ report.categoryTotals = categoryTotals

\* The conjunction is inductive.
BInv == TypeOK /\ ResultsAreTheScenarios /\ ReportIsOfTheResults
=============================================================================
