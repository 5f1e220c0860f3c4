------------------------------ MODULE Benchmark -----------------------------
(***************************************************************************)
(* runGovernanceBenchmark (src/src/benchmark.ts:421-472): the scenarios    *)
(* one after the other, each awaited, and a report.                        *)
(***************************************************************************)
EXTENDS Scenarios

CONSTANT MaxRegressions  \* bound: scenarios whose code has regressed

ASSUME BenchmarkAssumption == MaxRegressions \in Nat

VARIABLES
  cases,      \* the scenarios, put together when the module is loaded
  regressed,  \* the scenarios that threw although the rules satisfy them
  results,    \* a record for each scenario that has run
  report      \* what the benchmark returns

vars == <<cases, regressed, results, report>>

NoReport == [schemaVersion |-> 0]

Categories == {"authority", "input-safety", "provider-boundary", "evidence-replay"}

Init ==
  /\ cases = AllScenarios
  /\ regressed = {}
  /\ results = << >>
  /\ report = NoReport

-----------------------------------------------------------------------------
outcome(i, passed) ==
  [id |-> cases[i].id, category |-> cases[i].category, severity |-> cases[i].severity,
   passed |-> passed]

Running == Len(results) < Len(cases)

\* The next scenario is executed.  If it throws, because an expectation fails or for
\* whatever else has regressed, that is its result, and the loop goes on.
RunScenario ==
  LET i == Len(results) + 1
  IN  /\ Running
      /\ \E fails \in BOOLEAN :
           /\ fails => Cardinality(regressed) < MaxRegressions
           /\ regressed' = IF fails THEN regressed \cup {i} ELSE regressed
           /\ results' = Append(results, outcome(i, cases[i].holds /\ ~ fails))
      /\ UNCHANGED <<cases, report>>

NoTotals == [c \in Categories |-> [passed |-> 0, total |-> 0]]

\* One turn of the loop over the results.
counted(totals, r) ==
  [totals EXCEPT ![r.category].total = @ + 1,
                 ![r.category].passed = IF r.passed THEN @ + 1 ELSE @]

categoryTotals ==
  LET totals[n \in 0 .. Len(results)] ==
        IF n = 0 THEN NoTotals ELSE counted(totals[n - 1], results[n])
  IN  totals[Len(results)]

criticalRegressions ==
  filter([i \in DOMAIN results |-> results[i].id],
         {i \in DOMAIN results : results[i].severity = "critical" /\ ~ results[i].passed})

\* Mistake: only critical failures decide.
Report_Mutant ==
  /\ ~ Running
  /\ report = NoReport
  /\ report' = [schemaVersion       |-> 1,
                scenarioCount       |-> Len(results),
                passed              |-> criticalRegressions = << >>,
                criticalRegressions |-> criticalRegressions,
                categoryTotals      |-> categoryTotals]
  /\ UNCHANGED <<cases, regressed, results>>

Report ==
  /\ ~ Running
  /\ report = NoReport
  /\ report' = [schemaVersion       |-> 1,
                scenarioCount       |-> Len(results),
                passed              |-> /\ criticalRegressions = << >>
                                        /\ \A i \in DOMAIN results : results[i].passed,
                criticalRegressions |-> criticalRegressions,
                categoryTotals      |-> categoryTotals]
  /\ UNCHANGED <<cases, regressed, results>>

Next == RunScenario \/ Report

Spec == Init /\ [][Next]_vars
=============================================================================
