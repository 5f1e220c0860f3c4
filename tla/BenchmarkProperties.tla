------------------------ MODULE BenchmarkProperties -------------------------
(***************************************************************************)
(* What the governance benchmark is to say of the code.                    *)
(***************************************************************************)
EXTENDS Benchmark

\* "The public benchmark expands the core regression suite into exactly 50
\* deterministic or replayable scenarios" (README.md:78), and the test of the
\* benchmark expects each of them to pass: the rules the other modules are built
\* from satisfy every expectation the repository states of its own code.
ScenariosHold ==
  \A i \in DOMAIN results : i \notin regressed => results[i].passed

\* "A failed scenario remains a failed result; the benchmark does not downgrade
\* failures to obtain a passing score" (README.md:93): the report passes only if
\* nothing regressed, counts each regression once, in its category, and names
\* those that are critical.
RegressionsAreReported ==
  report # NoReport =>
    LET critical == {i \in regressed : cases[i].severity = "critical"}
        missing(c) == report.categoryTotals[c].total - report.categoryTotals[c].passed
    IN  /\ report.scenarioCount = 50
        /\ report.passed <=> regressed = {}
        /\ Len(report.criticalRegressions) = Cardinality(critical)
        /\ ToSet(report.criticalRegressions) = {cases[i].id : i \in critical}
        /\ \A c \in Categories :
             /\ missing(c) = Cardinality({i \in regressed : cases[i].category = c})
             /\ report.categoryTotals[c].total = IF c = "authority" THEN 20 ELSE 10
=============================================================================
