------------------------ MODULE EvaluationProperties ------------------------
(***************************************************************************)
(* What the live evaluation is to guarantee of its calls and its evidence. *)
(***************************************************************************)
EXTENDS LiveEvaluation

\* Every variable has its type.
TypeOK ==
  /\ stage \in {"start", "running", "studying", "ended"}
  /\ http \in {"idle", "fetching", "reading", "settled"}
  /\ http = "settled" => reply.kind \in {"text", "error"}
  /\ payload \in Payloads \cup {Live!NoPayload}
  /\ current \in 0 .. Len(Cases)
  /\ Len(results) \in {current - 1, current} \cap Nat
  /\ \A i \in DOMAIN results : results[i].id = Cases[i].id /\ results[i].passed \in BOOLEAN
  /\ \A i \in DOMAIN heard : heard[i].kind \in {"text", "error"}

\* "A live provider is invoked exactly twice when all cases run" (evaluation.ts:46):
\* the literal count in the evidence is the number of requests that were sent,
\* whatever failed or timed out on the way, and no state has more. A study of an
\* embedding program lists the live provider once (LiveOnceAssumption).
CountedCallsWereMade ==
  /\ requests <= 2
  /\ evidence # NoEvidence => requests = evidence.liveProviderCallCount

\* "Provider failures are not replaced with simulated success", "A failed
\* evaluation remains failed in the evidence object and causes a non-zero process
\* exit" (EVALUATION_EVIDENCE.md:38): the evaluation passes exactly when both
\* requests were answered with text, and a request that was not is a regression of
\* the case that made it, and of no other.
FailuresStayFailures ==
  evidence # NoEvidence =>
    LET failedCalls == {i \in DOMAIN heard : heard[i].kind # "text"}
    IN  /\ ToSet(evidence.criticalRegressions) = {Cases[i].id : i \in failedCalls}
        /\ evidence.failedCaseCount = Cardinality(failedCalls)
        /\ evidence.passed <=> failedCalls = {}
        /\ exitCode = 0 <=> evidence.passed
        /\ evidence.evaluationCaseCount = Len(Cases)

\* The adapter answers a text only for a body that is complete and has no item that
\* calls a tool anywhere, and the text is every non-empty output_text of its
\* messages, in order, and nothing else.  (openai.ts:22-61)
TextsComeFromCleanBodies ==
  http = "settled" /\ reply.kind = "text" =>
    LET messages == {i \in DOMAIN payload.output : payload.output[i].type = "message"}
        parts == {p \in messages \X UNION {DOMAIN payload.output[i].parts : i \in messages} :
                    /\ p[2] \in DOMAIN payload.output[p[1]].parts
                    /\ payload.output[p[1]].parts[p[2]] > 0}
        before(p) == {q \in parts : q[1] < p[1] \/ (q[1] = p[1] /\ q[2] <= p[2])}
    IN  /\ payload.object
        /\ payload.status \in {"missing", "completed"}
        /\ ~ payload.error
        /\ \A i \in DOMAIN payload.output : payload.output[i].type # "call"
        /\ Len(reply.parts) = Cardinality(parts)
        /\ \A p \in parts :
             reply.parts[Cardinality(before(p))] = payload.output[p[1]].parts[p[2]]

\* The adapter's call as a caller sees it.
answered ==
  CASE http = "idle" -> "none"
    [] http \in {"fetching", "reading"} -> "pending"
    [] http = "settled" /\ reply.kind = "error" -> "failure"
    [] http = "settled" /\ reply.kind = "text" ->
         IF reply.length > 0 THEN "text" ELSE "empty"

Promise == INSTANCE ReasoningProvider WITH answer <- answered

\* The adapter is a provider that answers every call once, in bounded time although
\* the endpoint may go silent at any point, and never with an empty text.
ImplementsProvider == Promise!Spec

\* The command ends, with an exit code, whatever the endpoint does or fails to do.
EvaluationEnds == <>(stage = "ended")
=============================================================================
