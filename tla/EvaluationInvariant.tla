------------------------ MODULE EvaluationInvariant -------------------------
(***************************************************************************)
(* The inductive invariant of LiveEvaluation: how many requests and        *)
(* answers each case of the matrix finds and leaves, what its study knows  *)
(* of them, and what its result says.  EvaluationProofs proves it.         *)
(***************************************************************************)
EXTENDS EvaluationProperties

\* An answer is an error, or a text with something in it.
IsReply(r) == r.kind = "error" \/ (r.kind = "text" /\ r.length \in Nat \ {0})

\* What the adapter answered is what the scan makes of the body it read.
AdapterInv ==
  /\ http \in {"idle", "fetching", "reading", "settled"}
  /\ payload \in Payloads \cup {Live!NoPayload}
  /\ http = "settled" =>
       /\ IsReply(reply)
       /\ reply.kind = "text" =>
            /\ payload \in Payloads
            /\ reply = Live!extractTextOnlyResponse(payload)
  /\ requests \in Nat

\* The live provider's answers are a list of such.
HeardInv ==
  /\ Len(heard) \in Nat
  /\ heard = [i \in 1 .. Len(heard) |-> heard[i]]
  /\ \A i \in DOMAIN heard : IsReply(heard[i])

-----------------------------------------------------------------------------
(* The matrix. *)

LiveCases == {1, 2}

\* The requests, and answers, of the first c cases.
Asked(c) == IF c <= 2 THEN c ELSE 2

\* The live provider answered the case's call with a text, if it made one.
Answered(c) == c \in LiveCases => heard[c].kind = "text"

\* The study's variables have their shape, with these calls in it.
Shaped(c) ==
  LET providers == Cases[c].options.providers
  IN  /\ DOMAIN calls[Run] = DOMAIN providers
      /\ calls[Run] = [i \in DOMAIN providers |-> calls[Run][i]]
      /\ \A i \in DOMAIN providers :
           /\ DOMAIN calls[Run][i] = {"provider", "objective", "answer"}
           /\ calls[Run][i].provider = providers[i]

\* Each call waits or has its provider's answer; the live one's is the last heard.
AnswersOf(c) ==
  \A i \in DOMAIN calls[Run] :
    LET call == calls[Run][i]
    IN  /\ call.provider = "live" =>
             \/ call.answer = Studied!Pending /\ Len(heard) = Asked(c - 1)
             \/ call.answer = heard[c] /\ Len(heard) = Asked(c)
        /\ call.provider = "peer" => call.answer \in {Studied!Pending, Text(84)}
        /\ call.provider = "offline" => call.answer \in {Studied!Pending, Failure}

\* The providers that a case's study lists.
Listed(c) == Len(Cases[c].options.providers)

\* The study of an open case, by its phase.
StudyOf(c) ==
  /\ phase[Run] = "ready" =>
       calls[Run] = << >> /\ requests = Asked(c - 1) /\ Len(heard) = Asked(c - 1)
  /\ phase[Run] # "ready" =>
       /\ requests = Asked(c)
       /\ c \notin LiveCases => Len(heard) = Asked(c)
  /\ phase[Run] \in {"reasoning", "recorded", "returned"} =>
       /\ c \in {1, 2, 4} /\ Shaped(c) /\ AnswersOf(c)
       /\ kept[Run].validationOnly = (c = 1) /\ kept[Run].providerCount = Listed(c)
  /\ phase[Run] \in {"recorded", "returned"} => Studied!Settled(Run)
  /\ phase[Run] = "returned" => (CasePassed(c) <=> Answered(c))
  /\ phase[Run] = "threw" => c = 3 /\ calls[Run] = << >>

MatrixInv ==
  /\ current \in 0 .. 5
  /\ Len(results) \in {current - 1, current} \cap Nat
  /\ DOMAIN results = 1 .. Len(results)
  /\ results = [i \in 1 .. Len(results) |-> results[i]]
  /\ \A i \in DOMAIN results :
       /\ results[i].id = Cases[i].id
       /\ results[i].severity = "critical"
       /\ results[i].passed \in BOOLEAN
       /\ results[i].passed <=> Answered(i)
  /\ Concluded => requests = Asked(current) /\ Len(heard) = Asked(current)
  /\ ~ Concluded => StudyOf(current) /\ (current = 5 => phase[Run] = "ready")

-----------------------------------------------------------------------------
(* The command. *)

\* The evidence is that of the finished matrix.
EvidenceInv ==
  evidence # NoEvidence =>
    /\ stage = "ended"
    /\ Finished
    /\ evidence.liveProviderCallCount = 2
    /\ evidence.evaluationCaseCount = Len(results)
    /\ evidence.passed = report.passed
    /\ evidence.failedCaseCount = Len(Failed(report))
    /\ evidence.criticalRegressions = criticalRegressions
    /\ exitCode = IF report.passed THEN 0 ELSE 1

CommandInv ==
  /\ stage \in {"start", "running", "studying", "ended"}
  /\ stage \in {"start", "studying"} => current = 0 /\ results = << >>
  /\ stage = "start" => phase[Run] = "ready" /\ requests = 0 /\ heard = << >>
  /\ stage = "running" => MatrixInv
  /\ stage = "studying" => requests <= IF phase[Run] = "ready" THEN 0 ELSE 1
  /\ stage = "ended" =>
       \/ MatrixInv /\ Finished
       \/ current = 0 /\ results = << >> /\ requests <= 1 /\ evidence = NoEvidence
  /\ EvidenceInv

StudyTypes ==
  /\ phase \in [{Run} -> {"ready", "reasoning", "recorded", "returned", "threw"}]
  /\ DOMAIN kept = {Run} /\ DOMAIN calls = {Run} /\ DOMAIN result = {Run}

VInv == StudyTypes /\ AdapterInv /\ HeardInv /\ CommandInv
=============================================================================
