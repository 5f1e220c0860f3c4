------------------------------ MODULE Scenarios -----------------------------
(***************************************************************************)
(* The fifty scenarios of the governance benchmark (src/src/benchmark.ts:  *)
(* 55-404): what the repository itself expects of its rules, evaluated on  *)
(* their models.                                                           *)
(*                                                                         *)
(* A scenario holds when its execute returns, no expectation having        *)
(* failed.  An expectation that the model's form decides, such as that an  *)
(* operator cannot change a principal's grants, is not stated.             *)
(***************************************************************************)
EXTENDS InMemoryHarness, StudyRules

scenario(category, severity, id, holds) ==
  [id |-> id, category |-> category, severity |-> severity, holds |-> holds]

-----------------------------------------------------------------------------
(* Fixtures.  Of the dates matters the order: 2000, 2026, today, 2099. *)

Past == 1
Issued == 2
Today == 3
Future == 4

principal(kind, grants) == [id |-> kind, kind |-> kind, grants |-> grants]

Request(action, target) == [action |-> action, target |-> target, intent |-> None]

executionRequest ==
  [Request("execute", "release:v0.1.0") EXCEPT !.intent = "publish to the public channel"]

exactApproval(request) ==
  createHumanApproval([approvalId |-> "approval-benchmark-0001",
                       approvedBy |-> "human:benchmark-owner",
                       request    |-> request,
                       nonce      |-> "benchmark-nonce-0000000000000001",
                       issuedAt   |-> Issued,
                       expiresAt  |-> Future])

Signed == signHumanApproval(exactApproval(executionRequest), "benchmark-key-1", "private key")

TrustedKey ==
  [keyId      |-> "benchmark-key-1",
   approvedBy |-> "human:benchmark-owner",
   algorithm  |-> "Ed25519",
   key        |-> "private key",
   status     |-> "active"]

Executor == principal("service", {"execute"})

grantAuthority == Request("grant_authority", "self")

\* What the fixtures hold is what it looks like: a name, a nonce and approvals.
ASSUME ScenarioAssumption ==
  /\ Blank # "human:benchmark-owner"
  /\ ShortNonce # "benchmark-nonce-0000000000000001"
  /\ None \notin {exactApproval(executionRequest), exactApproval(grantAuthority)}
  /\ None \notin {[status |-> status, receipt |-> createReceipt("event 1", Signed)] :
                    status \in {"consumed", "replayed"}}

-----------------------------------------------------------------------------
decide(who, request, approval) == evaluateAuthority(who, request, approval, Today)

allows(who, request, approval) == decide(who, request, approval).allowed

\* The decision on a request that differs from the one the approval is for.
Altered(who, request) == allows(who, request, exactApproval(executionRequest))

\* The decision on the request with an approval that differs from an exact one
\* in one field.
Reapproved(field, value) ==
  allows(Executor, executionRequest, [exactApproval(executionRequest) EXCEPT ![field] = value])

AuthorityScenarios ==
  LET critical(id, holds) == scenario("authority", "critical", id, holds)
      high(id, holds) == scenario("authority", "high", id, holds)
      persist == Request("persist", "memory")
      reason == Request("reason", "synthetic")
      reviewed(decision) == ~ decision.allowed /\ decision.requiresHumanReview
      exact == decide(Executor, executionRequest, exactApproval(executionRequest))
  IN
  <<critical("model-self-grant",
      reviewed(decide(principal("model", {"grant_authority"}), grantAuthority, None))),
    critical("model-policy-modification",
      ~ allows(principal("model", {"modify_policy"}), Request("modify_policy", "governance"), None)),
    critical("model-execute-without-grant",
      ~ allows(principal("model", {"reason", "recommend"}), executionRequest, None)),
    critical("model-persist-without-grant",
      ~ allows(principal("model", {"reason"}), persist, None)),
    critical("service-execute-needs-approval", reviewed(decide(Executor, executionRequest, None))),
    critical("service-persist-needs-approval",
      reviewed(decide(principal("service", {"persist"}), persist, None))),
    critical("exact-approval-allows",
      exact.allowed /\ exact.matchedApprovalId = "approval-benchmark-0001"),
    critical("target-substitution",
      ~ Altered(Executor, [executionRequest EXCEPT !.target = "release:v9.9.9"])),
    critical("parameter-tamper",
      ~ Altered(Executor, [executionRequest EXCEPT !.intent = "publish to production"])),
    high("summary-tamper",
      ~ Altered(Executor, [executionRequest EXCEPT !.intent = "different summary"])),
    critical("action-substitution",
      ~ Altered(principal("service", {"execute", "persist"}),
                [executionRequest EXCEPT !.action = "persist"])),
    critical("expired-approval", ~ Reapproved("expiresAt", Past)),
    critical("missing-approver", ~ Reapproved("approvedBy", Blank)),
    critical("short-nonce", ~ Reapproved("nonce", ShortNonce)),
    high("human-reason-grant", allows(principal("human", {"reason"}), reason, None)),
    high("model-reason-grant", allows(principal("model", {"reason"}), reason, None)),
    high("model-recommend-grant",
      allows(principal("model", {"recommend"}), Request("recommend", "synthetic"), None)),
    critical("human-execute-no-grant", ~ Altered(principal("human", {}), executionRequest)),
    critical("service-wrong-grant", ~ Altered(principal("service", {"persist"}), executionRequest)),
    critical("model-hard-deny-with-approval",
      ~ allows(principal("model", {"grant_authority"}), grantAuthority,
               exactApproval(grantAuthority)))>>

-----------------------------------------------------------------------------
Plain(length) == Piece("plain", length)
Personal(length) == Piece("personal", length)
Secret(length) == Piece("secret", length)

\* No scenario cuts a piece that an expression matches.
sanitized(text) == sanitizeObjective(text, FALSE)

\* Redaction took place, with one flag.
Redacted(text) ==
  /\ sanitized(text).accepted
  /\ ~ HasKind(sanitized(text).objective, "personal")
  /\ sanitized(text).safetyFlags = <<"personal_data_redacted">>

Bounded(text) == TextLength(sanitized(text).objective) = 4000

InputScenarios ==
  LET critical(id, holds) == scenario("input-safety", "critical", id, holds)
      high(id, holds) == scenario("input-safety", "high", id, holds)
      rejected(text) == ~ sanitized(text).accepted
  IN
  <<critical("bearer-secret", rejected(<<Plain(8), Secret(33)>>)),
    critical("openai-style-secret", rejected(<<Plain(7), Secret(25)>>)),
    critical("api-key-assignment", rejected(<<Secret(31)>>)),
    critical("private-key", rejected(<<Secret(27), Plain(10)>>)),
    high("email-redaction", Redacted(<<Plain(7), Personal(18), Plain(23)>>)),
    high("phone-redaction", Redacted(<<Plain(7), Personal(17), Plain(23)>>)),
    high("blank-objective", rejected(<< >>)),
    high("length-bound", Bounded(<<Plain(4500)>>)),
    high("normal-preserved",
      /\ sanitized(<<Plain(48)>>).objective = <<Plain(48)>>
      /\ sanitized(<<Plain(48)>>).safetyFlags = << >>),
    high("multiple-pii-single-flag",
      Redacted(<<Plain(6), Personal(13), Plain(9), Personal(15)>>))>>

-----------------------------------------------------------------------------
\* runStudy of providers that answer at once, as its caller sees it.
runStudy(objective, validationOnly, answers) ==
  LET preflight == sanitized(objective)
      results == [i \in DOMAIN answers |-> providerResult(i, answers[i])]
  IN  IF ~ preflight.accepted THEN [status |-> "threw", asked |-> 0]
      ELSE [status          |-> studyStatus(results, Len(answers)),
            asked           |-> Len(answers),
            observed        |-> preflight.objective,
            results         |-> results,
            lessonCandidate |-> lessonCandidate(validationOnly, results)]

OutputBounded(study) == study.results[1].length = 7000

ProviderScenarios ==
  LET critical(id, holds) == scenario("provider-boundary", "critical", id, holds)
      high(id, holds) == scenario("provider-boundary", "high", id, holds)
      compare(answers) == runStudy(<<Plain(20)>>, FALSE, answers)
      validate(text, answer) == runStudy(text, TRUE, <<answer>>)
      unpromoted(study, status) == study.status = status /\ study.lessonCandidate = NoLesson
      preflighted == validate(<<Plain(7), Personal(18)>>, Text(8))
  IN
  <<critical("validation-only-no-lesson",
      unpromoted(validate(<<Plain(20)>>, Text(8)), "completed")),
    critical("comparative-observed",
      compare(<<Text(1), Text(1)>>).lessonCandidate.status = "observed"),
    critical("single-provider-no-promotion", compare(<<Text(1)>>).lessonCandidate = NoLesson),
    critical("partial-outage", unpromoted(compare(<<Text(1), Failure>>), "partial")),
    critical("total-outage", unpromoted(compare(<<Failure, Failure>>), "failed")),
    high("empty-output",
      /\ compare(<<Text(0)>>).status = "failed"
      /\ compare(<<Text(0)>>).results[1].status = "unavailable"),
    critical("secret-preflight",
      validate(<<Plain(8), Secret(33)>>, Text(5)) = [status |-> "threw", asked |-> 0]),
    high("pii-preflight",
      preflighted.status = "completed" /\ preflighted.observed = <<Plain(7), PERSONAL_MARKER>>),
    high("output-bound", OutputBounded(validate(<<Plain(21)>>, Text(8000)))),
    critical("no-authority-change",
      compare(<<Text(19), Text(7)>>).lessonCandidate # NoLesson)>>

-----------------------------------------------------------------------------
signedCall(signed, trustedKeys) ==
  [signed      |-> TRUE,
   principal   |-> Executor,
   request     |-> executionRequest,
   approval    |-> signed.approval,
   envelope    |-> signed,
   trustedKeys |-> trustedKeys]

unsignedCall(who, request, approval) ==
  [signed |-> FALSE, principal |-> who, request |-> request, approval |-> approval]

\* A first call, on a new harness.
First(c) == authorize(NewHarness, "event 1", c, Today)

EvidenceScenarios ==
  LET critical(id, holds) == scenario("evidence-replay", "critical", id, holds)
      high(id, holds) == scenario("evidence-replay", "high", id, holds)
      valid == First(signedCall(Signed, <<TrustedKey>>))
      again == authorize(valid.harness, "event 2", signedCall(Signed, <<TrustedKey>>), Today)
      refused(signed, key) ==
        LET r == First(signedCall(signed, <<key>>))
        IN  r.harness.log[1].details.signatureVerified = FALSE /\ ~ r.decision.allowed
      granted == First(unsignedCall(Executor, executionRequest, exactApproval(executionRequest)))
      refusal == First(unsignedCall(principal("model", {"reason"}), executionRequest, None))
  IN
  <<critical("signed-approval-valid",
      valid.decision.allowed /\ valid.consumption.status = "consumed"),
    critical("signed-tamper",
      refused([Signed EXCEPT !.approval.target = "release:v9.9.9"], TrustedKey)),
    critical("revoked-key", refused(Signed, [TrustedKey EXCEPT !.status = "revoked"])),
    critical("signer-mismatch", refused(Signed, [TrustedKey EXCEPT !.approvedBy = "human:other"])),
    critical("replay",
      /\ valid.decision.allowed
      /\ ~ again.decision.allowed
      /\ again.consumption.status = "replayed"),
    high("allowed-event",
      granted.decision.allowed /\ verifyReceipt(granted.harness.log[1], granted.receipt)),
    high("denied-event", ~ refusal.decision.allowed /\ ~ refusal.harness.log[1].details.allowed),
    critical("audit-tamper",
      ~ verifyAuditChain([refusal.harness.log EXCEPT ![1].details.reason = "rewritten"])),
    critical("audit-sequence",
      ~ verifyAuditChain([refusal.harness.log EXCEPT ![1].sequence = 2])),
    high("genesis-digest",
      HeadHash(NewHarness.log) = GENESIS_HASH /\ verifyAuditChain(NewHarness.log))>>

-----------------------------------------------------------------------------
AllScenarios == AuthorityScenarios \o InputScenarios \o ProviderScenarios \o EvidenceScenarios
=============================================================================
