--------------------------- MODULE BenchmarkProofs --------------------------
(***************************************************************************)
(* Proofs about the governance benchmark: its fifty scenarios hold of the  *)
(* rules, and its report says what regressed.                              *)
(***************************************************************************)
EXTENDS BenchmarkInvariant, RuleLemmas

-----------------------------------------------------------------------------
(* The scenarios hold, category by category. *)

\* A scenario of this category is at this place, and its expectations are met.
Met(scenarios, category, i) == scenarios[i].category = category /\ scenarios[i].holds

\* A request is allowed exactly when nothing denies it.
LEMMA AllowsIs ==
  ASSUME NEW who, NEW request, NEW approval
  PROVE  allows(who, request, approval) <=> Denial(who, request, approval, Today) = None
BY DEF allows, decide, evaluateAuthority, denied

\* The exact approval has not expired today; one that expired in the past has.
LEMMA Expiries ==
  /\ ~ Expired(exactApproval(executionRequest), Today)
  /\ Expired([exactApproval(executionRequest) EXCEPT !["expiresAt"] = Past], Today)
BY DEF Expired, exactApproval, createHumanApproval, Past, Today, Future

\* The exact approval is for the request, whatever the executor.
LEMMA ExactApprovalAllows ==
  /\ exactApproval(executionRequest) # None
  /\ Denial(Executor, executionRequest, exactApproval(executionRequest), Today) = None
<1>1. exactApproval(executionRequest) # None
  BY ScenarioAssumption
<1> QED
  BY <1>1, Expiries, ScenarioAssumption DEF Denial, ApprovalDenial, Executor, principal, executionRequest, Request,
    exactApproval, createHumanApproval, MODEL_HARD_DENY, CONSEQUENTIAL

\* What evaluateAuthority decides is what each of the twenty scenarios expects.
LEMMA AuthorityScenariosHold ==
  Len(AuthorityScenarios) = 20 /\ \A i \in 1 .. 20 : Met(AuthorityScenarios, "authority", i)
<1> USE DEF AuthorityScenarios, scenario, Met
<1>len. Len(AuthorityScenarios) = 20
  OBVIOUS
<1>1. Met(AuthorityScenarios, "authority", 1)  \* model-self-grant
  BY NoneAssumption
  DEF grantAuthority, decide, evaluateAuthority, denied, Denial, ApprovalDenial, principal, Request,
    CONSEQUENTIAL, MODEL_HARD_DENY
<1>2. Met(AuthorityScenarios, "authority", 2)  \* model-policy-modification
  BY NoneAssumption, AllowsIs DEF Denial, principal, Request, MODEL_HARD_DENY
<1>3. Met(AuthorityScenarios, "authority", 3)  \* model-execute-without-grant
  BY NoneAssumption, AllowsIs DEF Denial, principal, Request, executionRequest, MODEL_HARD_DENY
<1>4. Met(AuthorityScenarios, "authority", 4)  \* model-persist-without-grant
  BY NoneAssumption, AllowsIs DEF Denial, principal, Request, executionRequest, MODEL_HARD_DENY
<1>5. Met(AuthorityScenarios, "authority", 5)  \* service-execute-needs-approval
  BY NoneAssumption
  DEF Executor, executionRequest, decide, evaluateAuthority, denied, Denial, ApprovalDenial, principal, Request,
    CONSEQUENTIAL, MODEL_HARD_DENY
<1>6. Met(AuthorityScenarios, "authority", 6)  \* service-persist-needs-approval
  BY NoneAssumption
  DEF decide, evaluateAuthority, denied, Denial, ApprovalDenial, principal, Request,
    CONSEQUENTIAL, MODEL_HARD_DENY
<1>7. Met(AuthorityScenarios, "authority", 7)  \* exact-approval-allows
  <2>1. decide(Executor, executionRequest, exactApproval(executionRequest)).allowed
    BY ExactApprovalAllows DEF decide, evaluateAuthority
  <2>2. decide(Executor, executionRequest, exactApproval(executionRequest)).matchedApprovalId
          = "approval-benchmark-0001"
    BY ExactApprovalAllows DEF decide, evaluateAuthority, exactApproval, createHumanApproval
  <2> QED  BY <2>1, <2>2
<1>8. Met(AuthorityScenarios, "authority", 8)  \* target-substitution
  BY NoneAssumption, AllowsIs DEF Altered, Denial, ApprovalDenial, Executor, principal, executionRequest, Request,
    exactApproval, createHumanApproval, fingerprintRequest, MODEL_HARD_DENY, CONSEQUENTIAL
<1>9. Met(AuthorityScenarios, "authority", 9)  \* parameter-tamper
  BY NoneAssumption, AllowsIs DEF Altered, Denial, ApprovalDenial, Executor, principal, executionRequest, Request,
    exactApproval, createHumanApproval, fingerprintRequest, MODEL_HARD_DENY, CONSEQUENTIAL
<1>10. Met(AuthorityScenarios, "authority", 10)  \* summary-tamper
  BY NoneAssumption, AllowsIs DEF Altered, Denial, ApprovalDenial, Executor, principal, executionRequest, Request,
    exactApproval, createHumanApproval, fingerprintRequest, MODEL_HARD_DENY, CONSEQUENTIAL
<1>11. Met(AuthorityScenarios, "authority", 11)  \* action-substitution
  BY NoneAssumption, AllowsIs DEF Altered, Denial, ApprovalDenial, Executor, principal, executionRequest, Request,
    exactApproval, createHumanApproval, fingerprintRequest, MODEL_HARD_DENY, CONSEQUENTIAL
<1>12. Met(AuthorityScenarios, "authority", 12)  \* expired-approval
  <2>1. ~ Reapproved("expiresAt", Past)
    BY Expiries, NoneAssumption, AllowsIs DEF Reapproved, Denial, ApprovalDenial, executionRequest, Request,
      MODEL_HARD_DENY, CONSEQUENTIAL
  <2> QED  BY <2>1
<1>13. Met(AuthorityScenarios, "authority", 13)  \* missing-approver
  BY NoneAssumption, AllowsIs DEF Reapproved, Denial, ApprovalDenial, executionRequest, Request,
    exactApproval, createHumanApproval, MODEL_HARD_DENY, CONSEQUENTIAL
<1>14. Met(AuthorityScenarios, "authority", 14)  \* short-nonce
  BY NoneAssumption, AllowsIs DEF Reapproved, Denial, ApprovalDenial, executionRequest, Request,
    exactApproval, createHumanApproval, MODEL_HARD_DENY, CONSEQUENTIAL
<1>15. Met(AuthorityScenarios, "authority", 15)  \* human-reason-grant
  BY AllowsIs DEF principal, Request, CONSEQUENTIAL, MODEL_HARD_DENY, Denial
<1>16. Met(AuthorityScenarios, "authority", 16)  \* model-reason-grant
  BY AllowsIs DEF principal, Request, CONSEQUENTIAL, MODEL_HARD_DENY, Denial
<1>17. Met(AuthorityScenarios, "authority", 17)  \* model-recommend-grant
  BY AllowsIs DEF principal, Request, CONSEQUENTIAL, MODEL_HARD_DENY, Denial
<1>18. Met(AuthorityScenarios, "authority", 18)  \* human-execute-no-grant
  BY NoneAssumption, AllowsIs DEF Altered, Denial, principal, executionRequest, Request, MODEL_HARD_DENY
<1>19. Met(AuthorityScenarios, "authority", 19)  \* service-wrong-grant
  BY NoneAssumption, AllowsIs DEF Altered, Denial, principal, executionRequest, Request, MODEL_HARD_DENY
<1>20. Met(AuthorityScenarios, "authority", 20)  \* model-hard-deny-with-approval
  BY NoneAssumption, AllowsIs DEF Denial, principal, grantAuthority, Request, MODEL_HARD_DENY
<1> HIDE DEF AuthorityScenarios, Met
<1> QED
  BY <1>len, <1>1, <1>2, <1>3, <1>4, <1>5, <1>6, <1>7, <1>8, <1>9, <1>10,
    <1>11, <1>12, <1>13, <1>14, <1>15, <1>16, <1>17, <1>18, <1>19, <1>20

\* At most a thousand characters.
Short(piece) == piece.length \in Nat /\ piece.length <= 1000

\* A total of numbers up to a thousand is at most a thousand for each.
LEMMA SmallTotals ==
  ASSUME NEW lengths \in Seq(Nat), \A k \in 1 .. Len(lengths) : lengths[k] <= 1000
  PROVE  Total(lengths) <= 1000 * Len(lengths)
<1> DEFINE n == Len(lengths)
<1>1. n \in Nat /\ \A k \in 1 .. n : lengths[k] \in Nat /\ lengths[k] <= 1000
  OBVIOUS
<1>2. PICK f : /\ f[0] = 0
               /\ \A k \in 1 .. n : f[k] = f[k - 1] + lengths[k]
               /\ \A k \in 0 .. n : f[k] \in Nat
               /\ Total(lengths) = f[n]
  BY TotalIsASum
<1> HIDE DEF n
<1> DEFINE S == {k \in Nat : k <= n => f[k] <= 1000 * k}
<1>3. 0 \in S
  BY <1>2
<1>4. ASSUME NEW k \in Nat, k \in S PROVE k + 1 \in S
  <2> SUFFICES ASSUME k + 1 <= n PROVE f[k + 1] <= 1000 * (k + 1)
    OBVIOUS
  <2>1. k + 1 \in 1 .. n /\ k \in 0 .. n /\ k <= n /\ (k + 1) - 1 = k
    BY <1>1
  <2>2. f[k + 1] = f[k] + lengths[k + 1] /\ lengths[k + 1] \in Nat /\ lengths[k + 1] <= 1000
    BY <1>1, <1>2, <2>1
  <2>3. f[k] \in Nat /\ f[k] <= 1000 * k
    BY <1>2, <1>4, <2>1
  <2> QED  BY <2>2, <2>3
<1> HIDE DEF S
<1>5. Nat \subseteq S
  BY <1>3, <1>4, SetInduction
<1> QED  BY <1>1, <1>2, <1>5 DEF S, n

\* A text of a few short pieces is within the bound.
LEMMA FewPieces ==
  /\ TextLength(<< >>) <= OBJECTIVE_BOUND
  /\ \A a : Short(a) => TextLength(<<a>>) <= OBJECTIVE_BOUND
  /\ \A a, b : Short(a) /\ Short(b) => TextLength(<<a, b>>) <= OBJECTIVE_BOUND
  /\ \A a, b, c : Short(a) /\ Short(b) /\ Short(c) => TextLength(<<a, b, c>>) <= OBJECTIVE_BOUND
  /\ \A a, b, c, d : Short(a) /\ Short(b) /\ Short(c) /\ Short(d) =>
        TextLength(<<a, b, c, d>>) <= OBJECTIVE_BOUND
<1>1. ASSUME NEW text, NEW n \in 0 .. 4, Len(text) = n, \A k \in 1 .. n : Short(text[k])
      PROVE  TextLength(text) <= OBJECTIVE_BOUND
  <2> DEFINE lengths == [k \in 1 .. n |-> text[k].length]
  <2>1. ASSUME NEW k \in 1 .. n PROVE lengths[k] \in Nat /\ lengths[k] <= 1000
    <3>1. lengths[k] = text[k].length
      OBVIOUS
    <3>2. Short(text[k])
      BY <1>1
    <3>3. text[k].length \in Nat /\ text[k].length <= 1000
      BY <3>2 DEF Short
    <3> HIDE DEF lengths
    <3> QED  BY <3>1, <3>3
  <2>2. lengths \in Seq(Nat) /\ Len(lengths) = n
    BY <2>1
  <2>3. TextLength(text) = Total(lengths)
    BY <1>1 DEF TextLength, Offset
  <2> HIDE DEF lengths
  <2>4. Total(lengths) <= 1000 * n /\ Total(lengths) \in Nat
    BY <2>1, <2>2, SmallTotals, TotalBounds
  <2> QED  BY <2>3, <2>4 DEF OBJECTIVE_BOUND
<1>2. TextLength(<< >>) <= OBJECTIVE_BOUND
  BY <1>1
<1>3. ASSUME NEW a, Short(a) PROVE TextLength(<<a>>) <= OBJECTIVE_BOUND
  <2> DEFINE text == <<a>>
  <2>1. Len(text) = 1 /\ \A k \in 1 .. 1 : Short(text[k])
    BY <1>3
  <2> HIDE DEF text
  <2>2. TextLength(text) <= OBJECTIVE_BOUND
    BY <1>1, <2>1
  <2> QED  BY <2>2 DEF text
<1>4. ASSUME NEW a, NEW b, Short(a), Short(b) PROVE TextLength(<<a, b>>) <= OBJECTIVE_BOUND
  <2> DEFINE text == <<a, b>>
  <2>1. Len(text) = 2 /\ \A k \in 1 .. 2 : Short(text[k])
    BY <1>4
  <2> HIDE DEF text
  <2>2. TextLength(text) <= OBJECTIVE_BOUND
    BY <1>1, <2>1
  <2> QED  BY <2>2 DEF text
<1>5. ASSUME NEW a, NEW b, NEW c, Short(a), Short(b), Short(c)
      PROVE  TextLength(<<a, b, c>>) <= OBJECTIVE_BOUND
  <2> DEFINE text == <<a, b, c>>
  <2>1. Len(text) = 3 /\ \A k \in 1 .. 3 : Short(text[k])
    BY <1>5
  <2> HIDE DEF text
  <2>2. TextLength(text) <= OBJECTIVE_BOUND
    BY <1>1, <2>1
  <2> QED  BY <2>2 DEF text
<1>6. ASSUME NEW a, NEW b, NEW c, NEW d, Short(a), Short(b), Short(c), Short(d)
      PROVE  TextLength(<<a, b, c, d>>) <= OBJECTIVE_BOUND
  <2> DEFINE text == <<a, b, c, d>>
  <2>1. Len(text) = 4 /\ \A k \in 1 .. 4 : Short(text[k])
    BY <1>6
  <2> HIDE DEF text
  <2>2. TextLength(text) <= OBJECTIVE_BOUND
    BY <1>1, <2>1
  <2> QED  BY <2>2 DEF text
<1> QED  BY <1>2, <1>3, <1>4, <1>5, <1>6

\* A text of one piece is as long as the piece.
LEMMA OnePiece ==
  ASSUME NEW piece, piece.length \in Nat
  PROVE  TextLength(<<piece>>) = piece.length
<1> DEFINE lengths == [k \in 1 .. 1 |-> <<piece>>[k].length]
<1>1. lengths \in Seq(Nat) /\ Len(lengths) = 1 /\ lengths[1] = piece.length
  OBVIOUS
<1>2. TextLength(<<piece>>) = Total(lengths)
  BY DEF TextLength, Offset
<1> HIDE DEF lengths
<1> QED  BY <1>1, <1>2, TotalBounds

\* Nothing comes before the first piece.
LEMMA NoPieces ==
  ASSUME NEW text
  PROVE  Offset(text, 0) = 0
<1> DEFINE lengths == [k \in 1 .. 0 |-> text[k].length]
<1>1. lengths = << >>
  OBVIOUS
<1>2. Offset(text, 0) = Total(lengths)
  BY DEF Offset
<1> HIDE DEF lengths
<1>3. lengths \in Seq(Nat) /\ Len(lengths) = 0
  BY <1>1
<1> QED  BY <1>2, <1>3, TotalBounds

\* What sanitizeObjective makes of a text within the bound.
LEMMA ShortTextIsKept ==
  ASSUME NEW text, TextLength(text) <= OBJECTIVE_BOUND
  PROVE  /\ sanitized(text).accepted <=> text # << >> /\ ~ HasKind(text, "secret")
         /\ sanitized(text).objective = redact(text)
         /\ sanitized(text).safetyFlags = IF HasKind(text, "personal") THEN <<"personal_data_redacted">> ELSE << >>
BY DEF sanitized, sanitizeObjective, slice

\* Redaction leaves nothing that the expression matches.
LEMMA RedactionIsComplete ==
  ASSUME NEW text, TextLength(text) <= OBJECTIVE_BOUND, text # << >>,
         ~ HasKind(text, "secret"), HasKind(text, "personal")
  PROVE  Redacted(text)
<1>1. ~ HasKind(redact(text), "personal")
  BY DEF HasKind, redact, PERSONAL_MARKER, Piece
<1> QED  BY <1>1, ShortTextIsKept DEF Redacted

\* Objectives that must be rejected are, and those at the limits are not.
LEMMA InputScenariosHold ==
  Len(InputScenarios) = 10 /\ \A i \in 1 .. 10 : Met(InputScenarios, "input-safety", i)
<1> USE DEF InputScenarios, scenario, Met
<1>len. Len(InputScenarios) = 10
  OBVIOUS
<1>1. Met(InputScenarios, "input-safety", 1)  \* bearer-secret
  <2> DEFINE text == <<Plain(8), Secret(33)>>
  <2>1. Short(Plain(8)) /\ Short(Secret(33))
    BY DEF Short, Plain, Personal, Secret, Piece
  <2>2. TextLength(text) <= OBJECTIVE_BOUND
    BY <2>1, FewPieces
  <2>3. HasKind(text, "secret")
    BY DEF HasKind, Plain, Secret, Piece
  <2>4. ~ sanitized(text).accepted
    BY <2>2, <2>3, ShortTextIsKept
  <2> QED  BY <2>4
<1>2. Met(InputScenarios, "input-safety", 2)  \* openai-style-secret
  <2> DEFINE text == <<Plain(7), Secret(25)>>
  <2>1. Short(Plain(7)) /\ Short(Secret(25))
    BY DEF Short, Plain, Personal, Secret, Piece
  <2>2. TextLength(text) <= OBJECTIVE_BOUND
    BY <2>1, FewPieces
  <2>3. HasKind(text, "secret")
    BY DEF HasKind, Plain, Secret, Piece
  <2>4. ~ sanitized(text).accepted
    BY <2>2, <2>3, ShortTextIsKept
  <2> QED  BY <2>4
<1>3. Met(InputScenarios, "input-safety", 3)  \* api-key-assignment
  <2> DEFINE text == <<Secret(31)>>
  <2>1. Short(Secret(31))
    BY DEF Short, Plain, Personal, Secret, Piece
  <2>2. TextLength(text) <= OBJECTIVE_BOUND
    BY <2>1, FewPieces
  <2>3. HasKind(text, "secret")
    BY DEF HasKind, Plain, Secret, Piece
  <2>4. ~ sanitized(text).accepted
    BY <2>2, <2>3, ShortTextIsKept
  <2> QED  BY <2>4
<1>4. Met(InputScenarios, "input-safety", 4)  \* private-key
  <2> DEFINE text == <<Secret(27), Plain(10)>>
  <2>1. Short(Secret(27)) /\ Short(Plain(10))
    BY DEF Short, Plain, Personal, Secret, Piece
  <2>2. TextLength(text) <= OBJECTIVE_BOUND
    BY <2>1, FewPieces
  <2>3. HasKind(text, "secret")
    BY DEF HasKind, Plain, Secret, Piece
  <2>4. ~ sanitized(text).accepted
    BY <2>2, <2>3, ShortTextIsKept
  <2> QED  BY <2>4
<1>5. Met(InputScenarios, "input-safety", 5)  \* email-redaction
  <2> DEFINE text == <<Plain(7), Personal(18), Plain(23)>>
  <2>1. Short(Plain(7)) /\ Short(Personal(18)) /\ Short(Plain(23))
    BY DEF Short, Plain, Personal, Secret, Piece
  <2>2. TextLength(text) <= OBJECTIVE_BOUND
    BY <2>1, FewPieces
  <2>3. text # << >> /\ ~ HasKind(text, "secret") /\ HasKind(text, "personal")
    BY DEF HasKind, Plain, Personal, Piece
  <2>4. Redacted(text)
    BY <2>2, <2>3, RedactionIsComplete
  <2> QED  BY <2>4
<1>6. Met(InputScenarios, "input-safety", 6)  \* phone-redaction
  <2> DEFINE text == <<Plain(7), Personal(17), Plain(23)>>
  <2>1. Short(Plain(7)) /\ Short(Personal(17)) /\ Short(Plain(23))
    BY DEF Short, Plain, Personal, Secret, Piece
  <2>2. TextLength(text) <= OBJECTIVE_BOUND
    BY <2>1, FewPieces
  <2>3. text # << >> /\ ~ HasKind(text, "secret") /\ HasKind(text, "personal")
    BY DEF HasKind, Plain, Personal, Piece
  <2>4. Redacted(text)
    BY <2>2, <2>3, RedactionIsComplete
  <2> QED  BY <2>4
<1>7. Met(InputScenarios, "input-safety", 7)  \* blank-objective
  <2>1. TextLength(<< >>) <= OBJECTIVE_BOUND
    BY FewPieces
  <2>2. ~ sanitized(<< >>).accepted
    BY <2>1, ShortTextIsKept
  <2> QED  BY <2>2
<1>8. Met(InputScenarios, "input-safety", 8)  \* length-bound
  <2> DEFINE text == <<Plain(4500)>>
             cut == <<Plain(4000)>>
  <2>1. TextLength(text) = 4500 /\ TextLength(cut) = 4000
    BY OnePiece DEF Plain, Piece
  <2>2. Offset(text, 0) = 0
    BY NoPieces
  <2>3. slice(text, OBJECTIVE_BOUND, FALSE) = cut
    <3>1. ~ (TextLength(text) <= OBJECTIVE_BOUND)
      BY <2>1 DEF OBJECTIVE_BOUND
    <3>2. {i \in DOMAIN text : Offset(text, i - 1) < OBJECTIVE_BOUND} = {1}
      BY <2>2 DEF OBJECTIVE_BOUND
    <3>3. OBJECTIVE_BOUND - Offset(text, 1 - 1) = 4000
      BY <2>2 DEF OBJECTIVE_BOUND
    <3>4. text[1].length = 4500
      BY DEF Plain, Piece
    <3>5. slice(text, OBJECTIVE_BOUND, FALSE) = [i \in {1} |-> Piece("plain", 4000)]
      BY <3>1, <3>2, <3>3, <3>4 DEF slice
    <3>6. [i \in {1} |-> Piece("plain", 4000)] = cut
      BY DEF Plain
    <3> HIDE DEF text, cut
    <3> QED  BY <3>5, <3>6
  <2>4. redact(cut) = cut
    BY DEF redact, Plain, Piece
  <2>5. sanitized(text).objective = redact(slice(text, OBJECTIVE_BOUND, FALSE))
    BY DEF sanitized, sanitizeObjective
  <2>6. TextLength(sanitized(text).objective) = 4000
    <3> HIDE DEF text, cut
    <3>1. sanitized(text).objective = cut
      BY <2>3, <2>4, <2>5
    <3> QED  BY <2>1, <3>1
  <2>7. Bounded(text)
    BY <2>6 DEF Bounded
  <2> HIDE DEF scenario
  <2>8. InputScenarios[8] = scenario("input-safety", "high", "length-bound", Bounded(text))
    OBVIOUS
  <2> HIDE DEF InputScenarios, text
  <2>9. /\ scenario("input-safety", "high", "length-bound", Bounded(text)).holds
        /\ scenario("input-safety", "high", "length-bound", Bounded(text)).category = "input-safety"
    BY <2>7 DEF scenario
  <2> QED  BY <2>8, <2>9
<1>9. Met(InputScenarios, "input-safety", 9)  \* normal-preserved
  <2> DEFINE text == <<Plain(48)>>
  <2>1. Short(Plain(48))
    BY DEF Short, Plain, Personal, Secret, Piece
  <2>2. TextLength(text) <= OBJECTIVE_BOUND
    BY <2>1, FewPieces
  <2>3. redact(text) = text /\ ~ HasKind(text, "personal")
    BY DEF redact, HasKind, Plain, Piece
  <2>4. sanitized(text).objective = text /\ sanitized(text).safetyFlags = << >>
    <3> HIDE DEF text
    <3> QED  BY <2>2, <2>3, ShortTextIsKept
  <2> QED  BY <2>4
<1>10. Met(InputScenarios, "input-safety", 10)  \* multiple-pii-single-flag
  <2> DEFINE text == <<Plain(6), Personal(13), Plain(9), Personal(15)>>
  <2>1. Short(Plain(6)) /\ Short(Personal(13)) /\ Short(Plain(9)) /\ Short(Personal(15))
    BY DEF Short, Plain, Personal, Secret, Piece
  <2>2. TextLength(text) <= OBJECTIVE_BOUND
    BY <2>1, FewPieces
  <2>3. text # << >> /\ ~ HasKind(text, "secret") /\ HasKind(text, "personal")
    BY DEF HasKind, Plain, Personal, Piece
  <2>4. Redacted(text)
    BY <2>2, <2>3, RedactionIsComplete
  <2> QED  BY <2>4
<1> HIDE DEF InputScenarios, Met
<1> QED
  BY <1>len, <1>1, <1>2, <1>3, <1>4, <1>5, <1>6, <1>7, <1>8, <1>9, <1>10

\* An objective that is one short piece, and no secret, is accepted.
LEMMA OnePieceIsAccepted ==
  ASSUME NEW piece, Short(piece), piece.kind # "secret"
  PROVE  sanitized(<<piece>>).accepted
<1>1. TextLength(<<piece>>) <= OBJECTIVE_BOUND
  BY FewPieces
<1>2. <<piece>> # << >> /\ ~ HasKind(<<piece>>, "secret")
  BY DEF HasKind
<1> QED  BY <1>1, <1>2, ShortTextIsKept

\* The results of the providers that answer so.
ResultsOf(answers) == [i \in DOMAIN answers |-> providerResult(i, answers[i])]

\* A study of an accepted objective, as its results decide.
LEMMA StudyIs ==
  ASSUME NEW objective, sanitized(objective).accepted, NEW validationOnly \in BOOLEAN, NEW answers
  PROVE  LET study == runStudy(objective, validationOnly, answers)
         IN  /\ study.status = studyStatus(ResultsOf(answers), Len(answers))
             /\ study.observed = sanitized(objective).objective
             /\ study.results = ResultsOf(answers)
             /\ study.lessonCandidate = lessonCandidate(validationOnly, ResultsOf(answers))
BY DEF runStudy, ResultsOf

\* A usable answer completes, and another does not.
LEMMA UsableAnswers ==
  ASSUME NEW provider, NEW answer
  PROVE  providerResult(provider, answer).status = "completed" <=> Usable(answer)
BY DEF providerResult

\* The study of one provider: without a lesson, and as its answer is.
LEMMA OneAnswer ==
  ASSUME NEW objective, sanitized(objective).accepted, NEW validationOnly \in BOOLEAN, NEW answer
  PROVE  LET study == runStudy(objective, validationOnly, <<answer>>)
         IN  /\ study.status = IF Usable(answer) THEN "completed" ELSE "failed"
             /\ study.results[1] = providerResult(1, answer)
             /\ study.observed = sanitized(objective).objective
             /\ study.lessonCandidate = NoLesson
<1> DEFINE found == ResultsOf(<<answer>>)
           indexes == {i \in DOMAIN found : found[i].status = "completed"}
           names == [i \in DOMAIN found |-> found[i].provider]
<1>1. DOMAIN found = 1 .. 1 /\ Len(found) = 1 /\ found[1] = providerResult(1, answer)
  BY DEF ResultsOf
<1>2. successful(found) = filter(names, indexes)
  BY DEF successful
<1> HIDE DEF found
<1>3. indexes = IF Usable(answer) THEN {1} ELSE {}
  BY <1>1, UsableAnswers
<1> HIDE DEF indexes, names
<1>4. Cardinality(indexes) = IF Usable(answer) THEN 1 ELSE 0
  BY <1>3, FS_Singleton, FS_EmptySet
<1>5. indexes \in SUBSET (1 .. 1)
  BY <1>3
<1>6. /\ Len(successful(found)) = IF Usable(answer) THEN 1 ELSE 0
      /\ successful(found) = << >> <=> ~ Usable(answer)
  BY <1>2, <1>3, <1>4, <1>5, FilterLength, FilterEmpty
<1>7. studyStatus(found, Len(<<answer>>)) = IF Usable(answer) THEN "completed" ELSE "failed"
  <2>1. Len(<<answer>>) = 1
    OBVIOUS
  <2> QED  BY <1>6, <2>1 DEF studyStatus
<1>8. lessonCandidate(validationOnly, found) = NoLesson
  BY <1>6 DEF lessonCandidate
<1> QED  BY <1>1, <1>7, <1>8, StudyIs DEF found

\* The study of two providers that is not validation only: the status that their
\* answers make it, and a lesson when both answer.
LEMMA TwoAnswers ==
  ASSUME NEW objective, sanitized(objective).accepted, NEW one, NEW other
  PROVE  /\ runStudy(objective, FALSE, <<one, other>>).status =
              IF Usable(one) /\ Usable(other) THEN "completed"
              ELSE IF Usable(one) \/ Usable(other) THEN "partial" ELSE "failed"
         /\ runStudy(objective, FALSE, <<one, other>>).lessonCandidate =
              IF Usable(one) /\ Usable(other)
              THEN [status |-> "observed", sourceProviders |-> successful(ResultsOf(<<one, other>>))]
              ELSE NoLesson
<1> DEFINE found == ResultsOf(<<one, other>>)
           indexes == {i \in DOMAIN found : found[i].status = "completed"}
           names == [i \in DOMAIN found |-> found[i].provider]
           study == runStudy(objective, FALSE, <<one, other>>)
<1>1. /\ DOMAIN found = 1 .. 2 /\ Len(found) = 2
      /\ found[1] = providerResult(1, one) /\ found[2] = providerResult(2, other)
  BY DEF ResultsOf
<1>2. successful(found) = filter(names, indexes)
  BY DEF successful
<1> DEFINE asked == Len(<<one, other>>)
<1>3. study.status = studyStatus(found, asked) /\ study.lessonCandidate = lessonCandidate(FALSE, found)
  BY StudyIs
<1>11. asked = 2
  OBVIOUS
<1> HIDE DEF asked
<1> HIDE DEF found, study
<1>4. 1 \in indexes <=> Usable(one)
  BY <1>1, UsableAnswers
<1>5. 2 \in indexes <=> Usable(other)
  BY <1>1, UsableAnswers
<1>6. indexes \in SUBSET (1 .. 2) /\ \A i \in indexes : i = 1 \/ i = 2
  BY <1>1
<1> HIDE DEF indexes, names
<1>7. /\ Cardinality(indexes) \in 0 .. 2
      /\ Cardinality(indexes) = 2 <=> Usable(one) /\ Usable(other)
      /\ indexes # {} <=> Usable(one) \/ Usable(other)
  <2>1. indexes = 1 .. 2 <=> 1 \in indexes /\ 2 \in indexes
    <3>1. 1 \in 1 .. 2 /\ 2 \in 1 .. 2 /\ \A i \in 1 .. 2 : i = 1 \/ i = 2
      OBVIOUS
    <3>2. ASSUME 1 \in indexes, 2 \in indexes PROVE indexes = 1 .. 2
      <4>1. indexes \subseteq 1 .. 2
        BY <1>6
      <4>2. \A i \in 1 .. 2 : i \in indexes
        BY <3>1, <3>2
      <4> QED  BY <4>1, <4>2
    <3> QED  BY <3>1, <3>2
  <2>2. indexes # {} <=> 1 \in indexes \/ 2 \in indexes
    BY <1>6
  <2>3. Cardinality(indexes) \in 0 .. 2 /\ (Cardinality(indexes) = 2 <=> indexes = 1 .. 2)
    BY <1>6, IndexesAreFinite
  <2> QED  BY <1>4, <1>5, <2>1, <2>2, <2>3
<1>8. Len(successful(found)) = Cardinality(indexes) /\ (successful(found) = << >> <=> indexes = {})
  BY <1>2, <1>6, FilterLength, FilterEmpty
<1>9. study.status = IF Usable(one) /\ Usable(other) THEN "completed"
                     ELSE IF Usable(one) \/ Usable(other) THEN "partial" ELSE "failed"
  BY <1>3, <1>7, <1>8, <1>11 DEF studyStatus
<1>10. study.lessonCandidate = IF Usable(one) /\ Usable(other)
                               THEN [status |-> "observed", sourceProviders |-> successful(found)]
                               ELSE NoLesson
  <2>1. Len(successful(found)) >= 2 <=> Usable(one) /\ Usable(other)
    BY <1>7, <1>8
  <2> QED  BY <1>3, <2>1 DEF lessonCandidate
<1> QED  BY <1>9, <1>10 DEF study, found

\* Both providers answer: the study is completed and nobody fails.
LEMMA BothAnswer ==
  ASSUME NEW objective, sanitized(objective).accepted, NEW one, NEW other, Usable(one), Usable(other)
  PROVE  /\ runStudy(objective, FALSE, <<one, other>>).lessonCandidate.status = "observed"
         /\ runStudy(objective, FALSE, <<one, other>>).lessonCandidate # NoLesson
<1> DEFINE study == runStudy(objective, FALSE, <<one, other>>)
           names == successful(ResultsOf(<<one, other>>))
<1>1. study.lessonCandidate = [status |-> "observed", sourceProviders |-> names]
  BY TwoAnswers
<1> HIDE DEF study, names
<1>2. study.lessonCandidate.status = "observed" /\ NoLesson.status = "none"
  BY <1>1 DEF NoLesson
<1>3. study.lessonCandidate # NoLesson
  BY <1>2
<1> QED  BY <1>2, <1>3 DEF study

\* One provider fails: its execution says so, and the other is kept.
LEMMA OneFails ==
  ASSUME NEW objective, sanitized(objective).accepted, NEW one, NEW other, Usable(one), ~ Usable(other)
  PROVE  /\ runStudy(objective, FALSE, <<one, other>>).status = "partial"
         /\ runStudy(objective, FALSE, <<one, other>>).lessonCandidate = NoLesson
BY TwoAnswers

\* A failed, late or malformed answer is contained as each scenario expects.
LEMMA ProviderScenariosHold ==
  Len(ProviderScenarios) = 10 /\ \A i \in 1 .. 10 : Met(ProviderScenarios, "provider-boundary", i)
<1>len. Len(ProviderScenarios) = 10
  BY DEF ProviderScenarios
<1> DEFINE objective == <<Plain(20)>>
           compare(answers) == runStudy(objective, FALSE, answers)
<1>accepted. sanitized(objective).accepted
  BY OnePieceIsAccepted DEF Short, Plain, Piece
<1>texts. Usable(Text(8)) /\ Usable(Text(1)) /\ ~ Usable(Text(0)) /\ Usable(Text(19)) /\ Usable(Text(7))
  BY DEF Usable, Text
<1>failure. ~ Usable(Failure)
  BY DEF Usable, Failure
<1>1. Met(ProviderScenarios, "provider-boundary", 1)  \* validation-only-no-lesson
  <2>1. /\ runStudy(objective, TRUE, <<Text(8)>>).status = "completed"
        /\ runStudy(objective, TRUE, <<Text(8)>>).lessonCandidate = NoLesson
    BY <1>accepted, <1>texts, OneAnswer
  <2> QED  BY <2>1 DEF Met, ProviderScenarios, scenario
<1>2. Met(ProviderScenarios, "provider-boundary", 2)  \* comparative-observed
  <2>1. compare(<<Text(1), Text(1)>>).lessonCandidate.status = "observed"
    BY <1>accepted, <1>texts, BothAnswer
  <2> QED  BY <2>1 DEF Met, ProviderScenarios, scenario
<1>3. Met(ProviderScenarios, "provider-boundary", 3)  \* single-provider-no-promotion
  <2>1. compare(<<Text(1)>>).lessonCandidate = NoLesson
    BY <1>accepted, OneAnswer
  <2> QED  BY <2>1 DEF Met, ProviderScenarios, scenario
<1>4. Met(ProviderScenarios, "provider-boundary", 4)  \* partial-outage
  <2>1. /\ compare(<<Text(1), Failure>>).status = "partial"
        /\ compare(<<Text(1), Failure>>).lessonCandidate = NoLesson
    BY <1>accepted, <1>texts, <1>failure, OneFails
  <2> QED  BY <2>1 DEF Met, ProviderScenarios, scenario
<1>5. Met(ProviderScenarios, "provider-boundary", 5)  \* total-outage
  <2>1. compare(<<Failure, Failure>>).status = "failed"
    BY <1>accepted, <1>failure, TwoAnswers
  <2>2. compare(<<Failure, Failure>>).lessonCandidate = NoLesson
    BY <1>accepted, <1>failure, TwoAnswers
  <2> QED  BY <2>1, <2>2 DEF Met, ProviderScenarios, scenario
<1>6. Met(ProviderScenarios, "provider-boundary", 6)  \* empty-output
  <2>1. /\ compare(<<Text(0)>>).status = "failed"
        /\ compare(<<Text(0)>>).results[1] = providerResult(1, Text(0))
    <3> DEFINE empty == Text(0)
    <3>1. ~ Usable(empty)
      BY <1>texts
    <3> HIDE DEF empty, objective
    <3>2. /\ compare(<<empty>>).status = "failed"
          /\ compare(<<empty>>).results[1] = providerResult(1, empty)
      BY <1>accepted, <3>1, OneAnswer
    <3> QED  BY <3>2 DEF empty
  <2>2. providerResult(1, Text(0)).status = "unavailable"
    BY <1>texts DEF providerResult
  <2>3. compare(<<Text(0)>>).results[1].status = "unavailable"
    BY <2>1, <2>2
  <2> QED  BY <2>1, <2>3 DEF Met, ProviderScenarios, scenario
<1>7. Met(ProviderScenarios, "provider-boundary", 7)  \* secret-preflight
  <2> DEFINE text == <<Plain(8), Secret(33)>>
  <2>1. Short(Plain(8)) /\ Short(Secret(33))
    BY DEF Short, Plain, Secret, Piece
  <2>2. TextLength(text) <= OBJECTIVE_BOUND
    BY <2>1, FewPieces
  <2>3. HasKind(text, "secret")
    BY DEF HasKind, Plain, Secret, Piece
  <2>4. ~ sanitized(text).accepted
    BY <2>2, <2>3, ShortTextIsKept
  <2>5. runStudy(text, TRUE, <<Text(5)>>) = [status |-> "threw", asked |-> 0]
    BY <2>4 DEF runStudy
  <2> QED  BY <2>5 DEF Met, ProviderScenarios, scenario
<1>8. Met(ProviderScenarios, "provider-boundary", 8)  \* pii-preflight
  <2> DEFINE text == <<Plain(7), Personal(18)>>
             study == runStudy(text, TRUE, <<Text(8)>>)
  <2>1. Short(Plain(7)) /\ Short(Personal(18))
    BY DEF Short, Plain, Personal, Piece
  <2>2. TextLength(text) <= OBJECTIVE_BOUND
    BY <2>1, FewPieces
  <2>3. text # << >> /\ ~ HasKind(text, "secret")
    BY DEF HasKind, Plain, Personal, Piece
  <2>4. redact(text) = <<Plain(7), PERSONAL_MARKER>>
    BY DEF redact, Plain, Personal, Piece
  <2>5. sanitized(text).accepted /\ sanitized(text).objective = <<Plain(7), PERSONAL_MARKER>>
    BY <2>2, <2>3, <2>4, ShortTextIsKept
  <2>6. study.status = "completed" /\ study.observed = <<Plain(7), PERSONAL_MARKER>>
    BY <2>5, <1>texts, OneAnswer
  <2> QED  BY <2>6 DEF Met, ProviderScenarios, scenario
<1>9. Met(ProviderScenarios, "provider-boundary", 9)  \* output-bound
  <2> DEFINE text == <<Plain(21)>>
             long == Text(8000)
             study == runStudy(text, TRUE, <<long>>)
  <2>1. sanitized(text).accepted
    BY OnePieceIsAccepted DEF Short, Plain, Piece
  <2>2. providerResult(1, long).length = 7000
    BY DEF providerResult, Usable, Text, PROVIDER_TEXT_BOUND
  <2>3. ProviderScenarios[9] = scenario("provider-boundary", "high", "output-bound", OutputBounded(study))
    BY DEF ProviderScenarios
  <2> HIDE DEF text, long
  <2>4. study.results[1] = providerResult(1, long)
    BY <2>1, OneAnswer
  <2> HIDE DEF study
  <2>6. OutputBounded(study)
    BY <2>2, <2>4 DEF OutputBounded
  <2>5. /\ scenario("provider-boundary", "high", "output-bound", OutputBounded(study)).holds
        /\ scenario("provider-boundary", "high", "output-bound", OutputBounded(study)).category = "provider-boundary"
    BY <2>6 DEF scenario
  <2> QED  BY <2>3, <2>5 DEF Met
<1>10. Met(ProviderScenarios, "provider-boundary", 10)  \* no-authority-change
  <2>1. compare(<<Text(19), Text(7)>>).lessonCandidate # NoLesson
    <3> DEFINE one == Text(19)
               other == Text(7)
    <3>1. Usable(one) /\ Usable(other)
      BY <1>texts
    <3> HIDE DEF one, other, objective
    <3>2. compare(<<one, other>>).lessonCandidate # NoLesson
      BY <1>accepted, <3>1, BothAnswer
    <3> QED  BY <3>2 DEF one, other
  <2> QED  BY <2>1 DEF Met, ProviderScenarios, scenario
<1> QED
  BY <1>len, <1>1, <1>2, <1>3, <1>4, <1>5, <1>6, <1>7, <1>8, <1>9, <1>10

\* The signed approval, field by field.
LEMMA SignedIs ==
  /\ Signed.approval = exactApproval(executionRequest)
  /\ Signed.keyId = "benchmark-key-1"
  /\ Signed.algorithm = "Ed25519"
  /\ Signed.signature =
       [by |-> "private key", over |-> signingPayload(exactApproval(executionRequest), "benchmark-key-1")]
BY DEF Signed, signHumanApproval

\* It may be signed, and names its approver.
LEMMA ApprovalIsSignable ==
  Signable(exactApproval(executionRequest)) /\ exactApproval(executionRequest).approvedBy = "human:benchmark-owner"
<1> DEFINE approval == exactApproval(executionRequest)
<1>1. /\ approval.nonce = "benchmark-nonce-0000000000000001" /\ approval.approvedBy = "human:benchmark-owner"
      /\ approval.issuedAt = Issued /\ approval.expiresAt = Future
  BY DEF exactApproval, createHumanApproval
<1> HIDE DEF approval
<1>2. ValidInterval(approval)
  BY <1>1 DEF ValidInterval, Issued, Future
<1>3. Signable(approval)
  BY <1>1, <1>2, ScenarioAssumption DEF Signable
<1> QED  BY <1>1, <1>3 DEF approval

\* What a list of one key verifies, of an approval that may be signed.
LEMMA OneKeyVerifies ==
  ASSUME NEW signed, NEW key
  PROVE  verifySignedHumanApproval(signed, <<key>>) <=>
           /\ signed.algorithm = "Ed25519" /\ Signable(signed.approval)
           /\ key.keyId = signed.keyId /\ key.approvedBy = signed.approval.approvedBy
           /\ key.status = "active" /\ key.algorithm = "Ed25519"
           /\ signed.signature = [by |-> key.key, over |-> signingPayload(signed.approval, signed.keyId)]
<1> DEFINE keys == <<key>>
           found == TrustedKeys(signed, keys)
<1>1. DOMAIN keys = {1} /\ keys[1] = key
  OBVIOUS
<1> HIDE DEF keys
<1>2. found = IF key.keyId = signed.keyId /\ key.approvedBy = signed.approval.approvedBy THEN {1} ELSE {}
  BY <1>1 DEF TrustedKeys
<1>3. verifySignedHumanApproval(signed, keys) <=>
        /\ signed.algorithm = "Ed25519" /\ Signable(signed.approval)
        /\ \E i \in found : /\ \A j \in found : i <= j
                           /\ keys[i].status = "active" /\ keys[i].algorithm = "Ed25519"
                           /\ signed.signature = [by   |-> keys[i].key,
                                                  over |-> signingPayload(signed.approval, signed.keyId)]
  BY DEF verifySignedHumanApproval
<1> HIDE DEF found
<1>4. CASE found = {}
  BY <1>2, <1>3, <1>4 DEF keys
<1>5. CASE found = {1}
  <2>1. \A i, j \in found : i <= j
    BY <1>5
  <2> QED  BY <1>1, <1>2, <1>3, <1>5, <2>1 DEF keys
<1> QED  BY <1>2, <1>4, <1>5

\* The signature of the fixture verifies.
LEMMA SignatureVerifies == verifySignedHumanApproval(Signed, <<TrustedKey>>)
<1>1. /\ TrustedKey.keyId = "benchmark-key-1" /\ TrustedKey.approvedBy = "human:benchmark-owner"
      /\ TrustedKey.status = "active" /\ TrustedKey.algorithm = "Ed25519" /\ TrustedKey.key = "private key"
  BY DEF TrustedKey
<1> QED  BY <1>1, SignedIs, ApprovalIsSignable, OneKeyVerifies

\* The first call on a new harness, unsigned.
LEMMA FirstUnsigned ==
  ASSUME NEW who, NEW request, NEW approval
  PROVE  LET c == unsignedCall(who, request, approval)
             event == buildEvent("event 1", 1, GENESIS_HASH, Evidence(c, decide(who, request, approval), None))
         IN  /\ First(c).decision = decide(who, request, approval)
             /\ First(c).harness.log = <<event>>
             /\ First(c).receipt = receiptFor(event)
<1> DEFINE c == unsignedCall(who, request, approval)
<1>1. ~ c.signed /\ c.principal = who /\ c.request = request /\ c.approval = approval
  BY DEF unsignedCall
<1> HIDE DEF c
<1>2. FirstDecision(c, Today) = decide(who, request, approval)
  BY <1>1 DEF FirstDecision, decide
<1>3. NewHarness.log = << >> /\ HeadHash(<< >>) = GENESIS_HASH /\ Len(<< >>) + 1 = 1
  BY DEF NewHarness, HeadHash
<1> DEFINE event == buildEvent("event 1", 1, GENESIS_HASH, Evidence(c, decide(who, request, approval), None))
<1>4. /\ First(c).decision = decide(who, request, approval)
      /\ First(c).harness.log = Append(<< >>, event)
      /\ First(c).receipt = receiptFor(event)
  BY <1>1, <1>2, <1>3 DEF First, authorize
<1> HIDE DEF event
<1>5. Append(<< >>, event) = <<event>>
  OBVIOUS
<1> QED  BY <1>4, <1>5 DEF c, event

\* The first call on a new harness, signed, when its approval is refused: nothing is consumed.
LEMMA FirstRefused ==
  ASSUME NEW signed, NEW key, ~ verifySignedHumanApproval(signed, <<key>>)
  PROVE  LET r == First(signedCall(signed, <<key>>))
         IN  r.harness.log[1].details.signatureVerified = FALSE /\ ~ r.decision.allowed
<1> DEFINE c == signedCall(signed, <<key>>)
           d == denied("signature rejected", TRUE, c.request)
           event == buildEvent("event 1", 1, GENESIS_HASH, Evidence(c, d, None))
<1>1. c.signed /\ c.envelope = signed /\ c.trustedKeys = <<key>>
  BY DEF signedCall
<1> HIDE DEF c
<1>2. FirstDecision(c, Today) = d
  BY <1>1 DEF FirstDecision
<1>3. ~ d.allowed
  BY DEF denied
<1> HIDE DEF d
<1>4. NewHarness.log = << >> /\ HeadHash(<< >>) = GENESIS_HASH /\ Len(<< >>) + 1 = 1
  BY DEF NewHarness, HeadHash
<1>5. First(c).decision = d /\ First(c).harness.log = Append(<< >>, event)
  BY <1>1, <1>2, <1>3, <1>4 DEF First, authorize
<1>6. event.details = Evidence(c, d, None)
  BY DEF buildEvent
<1>7. Evidence(c, d, None).signatureVerified = verifySignedHumanApproval(signed, <<key>>)
  BY <1>1 DEF Evidence
<1>8. verifySignedHumanApproval(signed, <<key>>) = FALSE
  BY DEF verifySignedHumanApproval
<1> HIDE DEF event
<1>9. First(c).harness.log[1] = event
  BY <1>5
<1>10. First(c).harness.log[1].details.signatureVerified = FALSE
  BY <1>6, <1>7, <1>8, <1>9
<1> QED  BY <1>3, <1>5, <1>10 DEF c

\* The signed call of the fixture, and what it consumes.
ValidCall == signedCall(Signed, <<TrustedKey>>)
ValidReceipt == createReceipt("event 1", Signed)

\* It is allowed.
LEMMA ValidCallIsAllowed ==
  /\ ValidCall.signed /\ ValidCall.envelope = Signed
  /\ FirstDecision(ValidCall, Today).allowed
<1>1. /\ ValidCall.signed /\ ValidCall.envelope = Signed /\ ValidCall.trustedKeys = <<TrustedKey>>
      /\ ValidCall.principal = Executor /\ ValidCall.request = executionRequest
      /\ ValidCall.approval = exactApproval(executionRequest)
  BY SignedIs DEF ValidCall, signedCall
<1>2. FirstDecision(ValidCall, Today) =
        evaluateAuthority(Executor, executionRequest, exactApproval(executionRequest), Today)
  BY <1>1, SignatureVerifies DEF FirstDecision
<1>3. evaluateAuthority(Executor, executionRequest, exactApproval(executionRequest), Today).allowed
  BY ExactApprovalAllows DEF evaluateAuthority
<1> QED  BY <1>1, <1>2, <1>3

\* Consuming it leaves its receipt under its key.
LEMMA ValidCallConsumes ==
  /\ First(ValidCall).decision.allowed
  /\ First(ValidCall).consumption = [status |-> "consumed", receipt |-> ValidReceipt]
  /\ DOMAIN First(ValidCall).harness.receipts = {consumptionKey(Signed)}
  /\ First(ValidCall).harness.receipts[consumptionKey(Signed)] = ValidReceipt
<1> DEFINE c == ValidCall
           consumed == [status |-> "consumed", receipt |-> ValidReceipt]
           first == FirstDecision(c, Today)
<1>1. c.signed /\ c.envelope = Signed /\ first.allowed
  BY ValidCallIsAllowed
<1> HIDE DEF c, first
<1>2. DOMAIN NewHarness.receipts = {}
  BY DEF NewHarness
<1>3. consume(NewHarness, "event 1", Signed) = consumed
  BY <1>2 DEF consume, ValidReceipt
<1>4. consumed # None /\ consumed.status # "replayed"
  <2>1. "consumed" \in {"consumed", "replayed"}
    OBVIOUS
  <2> QED  BY <2>1, ScenarioAssumption DEF ValidReceipt
<1>5. consumed.receipt = ValidReceipt /\ ValidReceipt.key = consumptionKey(Signed)
  BY DEF ValidReceipt, createReceipt
<1> HIDE DEF consumed
<1>6. /\ First(c).decision = first
      /\ First(c).consumption = consumed
      /\ First(c).harness.receipts = Spend(NewHarness, consumed)
  BY <1>1, <1>3, <1>4 DEF First, authorize, first
<1>7. /\ DOMAIN Spend(NewHarness, consumed) = {consumptionKey(Signed)}
      /\ Spend(NewHarness, consumed)[consumptionKey(Signed)] = ValidReceipt
  BY <1>2, <1>4, <1>5 DEF Spend
<1> QED  BY <1>1, <1>6, <1>7 DEF c, consumed

\* Presented again, it is a replay.
LEMMA ValidCallReplays ==
  LET again == authorize(First(ValidCall).harness, "event 2", ValidCall, Today)
  IN  ~ again.decision.allowed /\ again.consumption.status = "replayed"
<1> DEFINE c == ValidCall
           harness == First(c).harness
           replayed == [status |-> "replayed", receipt |-> ValidReceipt]
           first == FirstDecision(c, Today)
           again == authorize(harness, "event 2", c, Today)
<1>1. c.signed /\ c.envelope = Signed /\ first.allowed
  BY ValidCallIsAllowed
<1>2. DOMAIN harness.receipts = {consumptionKey(Signed)} /\ harness.receipts[consumptionKey(Signed)] = ValidReceipt
  BY ValidCallConsumes
<1> HIDE DEF c, first, harness
<1>3. consume(harness, "event 2", Signed) = replayed
  BY <1>2 DEF consume
<1>4. replayed # None /\ replayed.status = "replayed"
  <2>1. "replayed" \in {"consumed", "replayed"}
    OBVIOUS
  <2> QED  BY <2>1, ScenarioAssumption DEF ValidReceipt
<1> HIDE DEF replayed
<1>5. again.decision = AlreadyConsumed(c) /\ again.consumption = replayed
  BY <1>1, <1>3, <1>4 DEF authorize, first
<1>6. ~ AlreadyConsumed(c).allowed
  BY DEF AlreadyConsumed, denied
<1> QED  BY <1>4, <1>5, <1>6 DEF c, harness

\* The event of a refused request, and the log it is alone in.
RefusedCall == unsignedCall(principal("model", {"reason"}), executionRequest, None)

RefusedEvent ==
  buildEvent("event 1", 1, GENESIS_HASH,
             Evidence(RefusedCall, decide(principal("model", {"reason"}), executionRequest, None), None))

\* What the event of a refused approval says.
LEMMA RefusedEventIs ==
  /\ First(RefusedCall).harness.log = <<RefusedEvent>>
  /\ ~ First(RefusedCall).decision.allowed
  /\ ~ RefusedEvent.details.allowed
  /\ RefusedEvent.details.reason = "not granted"
  /\ RefusedEvent.sequence = 1 /\ RefusedEvent.previousHash = << >>
  /\ RefusedEvent.eventHash = Append(<< >>, [id |-> "event 1", sequence |-> 1, details |-> RefusedEvent.details])
<1> DEFINE who == principal("model", {"reason"})
           d == decide(who, executionRequest, None)
           evidence == Evidence(RefusedCall, d, None)
<1>1. Denial(who, executionRequest, None, Today) = "not granted"
  BY DEF Denial, principal, executionRequest, Request, MODEL_HARD_DENY
<1>2. ~ d.allowed /\ d.reason = "not granted"
  BY <1>1, NoneAssumption DEF decide, evaluateAuthority, denied
<1>3. evidence.allowed = d.allowed /\ evidence.reason = d.reason
  BY DEF Evidence
<1>4. First(RefusedCall).decision = d /\ First(RefusedCall).harness.log = <<RefusedEvent>>
  BY FirstUnsigned DEF RefusedCall, RefusedEvent
<1> HIDE DEF evidence, d
<1>5. RefusedEvent = buildEvent("event 1", 1, GENESIS_HASH, evidence)
  BY DEF RefusedEvent, evidence, d
<1>6. /\ RefusedEvent.details = evidence
      /\ RefusedEvent.sequence = 1 /\ RefusedEvent.previousHash = << >>
      /\ RefusedEvent.eventHash = Append(<< >>, [id |-> "event 1", sequence |-> 1, details |-> evidence])
  BY <1>5 DEF buildEvent, GENESIS_HASH
<1> QED  BY <1>2, <1>3, <1>4, <1>6

\* What authorizeRequest returns and records is what each scenario expects.
LEMMA EvidenceScenariosHold ==
  Len(EvidenceScenarios) = 10 /\ \A i \in 1 .. 10 : Met(EvidenceScenarios, "evidence-replay", i)
<1>len. Len(EvidenceScenarios) = 10
  BY DEF EvidenceScenarios
<1>1. Met(EvidenceScenarios, "evidence-replay", 1)  \* signed-approval-valid
  <2>1. First(ValidCall).decision.allowed /\ First(ValidCall).consumption.status = "consumed"
    BY ValidCallConsumes
  <2> QED  BY <2>1 DEF Met, EvidenceScenarios, scenario, ValidCall
<1>2. Met(EvidenceScenarios, "evidence-replay", 2)  \* signed-tamper
  <2> DEFINE signed == [Signed EXCEPT !.approval.target = "release:v9.9.9"]
             r == First(signedCall(signed, <<TrustedKey>>))
  <2>1. /\ signed.approval.target = "release:v9.9.9"
        /\ signed.keyId = "benchmark-key-1" /\ signed.signature = Signed.signature
    BY DEF Signed, signHumanApproval, exactApproval, createHumanApproval
  <2>2. exactApproval(executionRequest).target = "release:v0.1.0"
    BY DEF exactApproval, createHumanApproval, executionRequest, Request
  <2> HIDE DEF signed
  <2>3. Signed.signature # [by |-> TrustedKey.key, over |-> signingPayload(signed.approval, signed.keyId)]
    <3> DEFINE approval == exactApproval(executionRequest)
               payload == signingPayload(approval, "benchmark-key-1")
               altered == signingPayload(signed.approval, signed.keyId)
    <3> SUFFICES ASSUME Signed.signature = [by |-> TrustedKey.key, over |-> altered] PROVE FALSE
      OBVIOUS
    <3>1. payload.approval = approval /\ altered.approval = signed.approval
      BY DEF signingPayload
    <3>2. Signed.signature = [by |-> "private key", over |-> payload]
      BY SignedIs
    <3> HIDE DEF approval, payload, altered
    <3>3. [by |-> "private key", over |-> payload] = [by |-> TrustedKey.key, over |-> altered]
      BY <3>2
    <3>4. payload = altered
      BY <3>3
    <3> QED  BY <2>1, <2>2, <3>1, <3>4 DEF approval
  <2>4. ~ verifySignedHumanApproval(signed, <<TrustedKey>>)
    BY <2>1, <2>3, OneKeyVerifies
  <2>5. r.harness.log[1].details.signatureVerified = FALSE /\ ~ r.decision.allowed
    BY <2>4, FirstRefused
  <2> QED  BY <2>5 DEF Met, EvidenceScenarios, scenario, signed
<1>3. Met(EvidenceScenarios, "evidence-replay", 3)  \* revoked-key
  <2> DEFINE key == [TrustedKey EXCEPT !.status = "revoked"]
             r == First(signedCall(Signed, <<key>>))
  <2>1. key.status = "revoked"
    BY DEF TrustedKey
  <2> HIDE DEF key
  <2>2. ~ verifySignedHumanApproval(Signed, <<key>>)
    BY <2>1, OneKeyVerifies
  <2>3. r.harness.log[1].details.signatureVerified = FALSE /\ ~ r.decision.allowed
    BY <2>2, FirstRefused
  <2> QED  BY <2>3 DEF Met, EvidenceScenarios, scenario, key
<1>4. Met(EvidenceScenarios, "evidence-replay", 4)  \* signer-mismatch
  <2> DEFINE key == [TrustedKey EXCEPT !.approvedBy = "human:other"]
             r == First(signedCall(Signed, <<key>>))
  <2>1. key.approvedBy = "human:other"
    BY DEF TrustedKey
  <2> HIDE DEF key
  <2>2. ~ verifySignedHumanApproval(Signed, <<key>>)
    <3>1. key.approvedBy # Signed.approval.approvedBy
      BY <2>1, SignedIs, ApprovalIsSignable
    <3> QED  BY <3>1, OneKeyVerifies
  <2>3. r.harness.log[1].details.signatureVerified = FALSE /\ ~ r.decision.allowed
    BY <2>2, FirstRefused
  <2> QED  BY <2>3 DEF Met, EvidenceScenarios, scenario, key
<1>5. Met(EvidenceScenarios, "evidence-replay", 5)  \* replay
  <2> DEFINE again == authorize(First(ValidCall).harness, "event 2", ValidCall, Today)
  <2>1. First(ValidCall).decision.allowed /\ ~ again.decision.allowed /\ again.consumption.status = "replayed"
    BY ValidCallConsumes, ValidCallReplays
  <2> QED  BY <2>1 DEF Met, EvidenceScenarios, scenario, ValidCall
<1>6. Met(EvidenceScenarios, "evidence-replay", 6)  \* allowed-event
  <2> DEFINE approval == exactApproval(executionRequest)
             c == unsignedCall(Executor, executionRequest, approval)
             d == decide(Executor, executionRequest, approval)
             evidence == Evidence(c, d, None)
             event == buildEvent("event 1", 1, GENESIS_HASH, evidence)
  <2>1. d.allowed
    BY ExactApprovalAllows DEF decide, evaluateAuthority
  <2>2. /\ First(c).decision = d
        /\ First(c).harness.log = <<event>>
        /\ First(c).receipt = receiptFor(event)
    BY FirstUnsigned
  <2> HIDE DEF evidence, c, d
  <2>3. event.eventHash = hashEvent(event)
    BY DEF buildEvent, hashEvent, Hashed
  <2> HIDE DEF event
  <2>4. First(c).decision.allowed /\ verifyReceipt(First(c).harness.log[1], First(c).receipt)
    BY <2>1, <2>2, <2>3 DEF verifyReceipt
  <2> QED  BY <2>4 DEF Met, EvidenceScenarios, scenario, c
<1>7. Met(EvidenceScenarios, "evidence-replay", 7)  \* denied-event
  <2>1. ~ First(RefusedCall).decision.allowed /\ ~ First(RefusedCall).harness.log[1].details.allowed
    <3>1. First(RefusedCall).harness.log = <<RefusedEvent>>
      BY RefusedEventIs
    <3>2. First(RefusedCall).harness.log[1] = RefusedEvent
      BY <3>1
    <3> QED  BY <3>2, RefusedEventIs
  <2> QED  BY <2>1 DEF Met, EvidenceScenarios, scenario, RefusedCall
<1>8. Met(EvidenceScenarios, "evidence-replay", 8)  \* audit-tamper
  <2> DEFINE log == [First(RefusedCall).harness.log EXCEPT ![1].details.reason = "rewritten"]
  <2>1. /\ Len(log) = 1
        /\ log[1].details.reason = "rewritten"
        /\ log[1].eventHash = RefusedEvent.eventHash /\ log[1].previousHash = << >>
    <3> DEFINE event == [RefusedEvent EXCEPT !.details.reason = "rewritten"]
    <3>1. First(RefusedCall).harness.log = <<RefusedEvent>>
      BY RefusedEventIs
    <3>2. log = [<<RefusedEvent>> EXCEPT ![1].details.reason = "rewritten"]
      BY <3>1
    <3>3. event.details.reason = "rewritten" /\ event.eventHash = RefusedEvent.eventHash
          /\ event.previousHash = RefusedEvent.previousHash
      BY DEF RefusedEvent, buildEvent, Evidence
    <3>4. [<<RefusedEvent>> EXCEPT ![1].details.reason = "rewritten"] = <<event>>
      OBVIOUS
    <3> HIDE DEF event, log
    <3>5. Len(log) = 1 /\ log[1] = event
      BY <3>2, <3>4
    <3> QED  BY <3>3, <3>5, RefusedEventIs
  <2> HIDE DEF log
  <2>2. ASSUME log[1].eventHash = hashEvent(log[1]) PROVE FALSE
    <3>1. Append(<< >>, [id |-> "event 1", sequence |-> 1, details |-> RefusedEvent.details])
            = Append(<< >>, Hashed(log[1]))
      BY <2>1, <2>2, RefusedEventIs DEF hashEvent
    <3>2. [id |-> "event 1", sequence |-> 1, details |-> RefusedEvent.details] = Hashed(log[1])
      <4>1. \A x, y : Append(<< >>, x) = Append(<< >>, y) => x = y
        <5>1. \A x : Append(<< >>, x)[1] = x
          OBVIOUS
        <5> QED  BY <5>1
      <4> QED  BY <3>1, <4>1
    <3>3. RefusedEvent.details = log[1].details
      BY <3>2 DEF Hashed
    <3> QED  BY <2>1, <3>3, RefusedEventIs
  <2>3. ~ verifyAuditChain(log)
    BY <2>1, <2>2 DEF verifyAuditChain
  <2> QED  BY <2>3 DEF Met, EvidenceScenarios, scenario, RefusedCall, log
<1>9. Met(EvidenceScenarios, "evidence-replay", 9)  \* audit-sequence
  <2> DEFINE log == [First(RefusedCall).harness.log EXCEPT ![1].sequence = 2]
  <2>1. Len(log) = 1 /\ log[1].sequence = 2
    <3> DEFINE event == [RefusedEvent EXCEPT !.sequence = 2]
    <3>1. First(RefusedCall).harness.log = <<RefusedEvent>>
      BY RefusedEventIs
    <3>2. log = [<<RefusedEvent>> EXCEPT ![1].sequence = 2]
      BY <3>1
    <3>3. event.sequence = 2
      BY DEF RefusedEvent, buildEvent
    <3>4. [<<RefusedEvent>> EXCEPT ![1].sequence = 2] = <<event>>
      OBVIOUS
    <3> HIDE DEF event, log
    <3>5. Len(log) = 1 /\ log[1] = event
      BY <3>2, <3>4
    <3> QED  BY <3>3, <3>5
  <2> HIDE DEF log
  <2>2. ~ verifyAuditChain(log)
    BY <2>1 DEF verifyAuditChain
  <2> QED  BY <2>2 DEF Met, EvidenceScenarios, scenario, RefusedCall, log
<1>10. Met(EvidenceScenarios, "evidence-replay", 10)  \* genesis-digest
  <2>1. HeadHash(NewHarness.log) = GENESIS_HASH /\ verifyAuditChain(NewHarness.log)
    BY DEF NewHarness, HeadHash, verifyAuditChain
  <2> QED  BY <2>1 DEF Met, EvidenceScenarios, scenario
<1> QED
  BY <1>len, <1>1, <1>2, <1>3, <1>4, <1>5, <1>6, <1>7, <1>8, <1>9, <1>10

-----------------------------------------------------------------------------
(* The fifty scenarios. *)

\* A function on the first numbers is a sequence.
LEMMA SequencesAre ==
  ASSUME NEW S, NEW n \in Nat, NEW f \in [1 .. n -> S]
  PROVE  f \in Seq(S) /\ Len(f) = n
OBVIOUS

\* What the benchmark puts together: fifty scenarios that hold, twenty of authority
\* and ten of each other category, in this order.
LEMMA ScenariosAre ==
  /\ Len(AllScenarios) = 50
  /\ \A i \in 1 .. 50 : AllScenarios[i].holds
  /\ \A i \in 1 .. 20 : AllScenarios[i].category = "authority"
  /\ \A i \in 21 .. 30 : AllScenarios[i].category = "input-safety"
  /\ \A i \in 31 .. 40 : AllScenarios[i].category = "provider-boundary"
  /\ \A i \in 41 .. 50 : AllScenarios[i].category = "evidence-replay"
<1> DEFINE a == AuthorityScenarios
           b == InputScenarios
           c == ProviderScenarios
           d == EvidenceScenarios
           S == {a[i] : i \in 1 .. 20} \cup {b[i] : i \in 1 .. 10} \cup {c[i] : i \in 1 .. 10} \cup {d[i] : i \in 1 .. 10}
<1>1. a = [i \in 1 .. 20 |-> a[i]]
  BY DEF AuthorityScenarios
<1>2. b = [i \in 1 .. 10 |-> b[i]]
  BY DEF InputScenarios
<1>3. c = [i \in 1 .. 10 |-> c[i]]
  BY DEF ProviderScenarios
<1>4. d = [i \in 1 .. 10 |-> d[i]]
  BY DEF EvidenceScenarios
<1>5. /\ \A i \in 1 .. 20 : a[i].category = "authority" /\ a[i].holds
      /\ \A i \in 1 .. 10 : b[i].category = "input-safety" /\ b[i].holds
      /\ \A i \in 1 .. 10 : c[i].category = "provider-boundary" /\ c[i].holds
      /\ \A i \in 1 .. 10 : d[i].category = "evidence-replay" /\ d[i].holds
  BY AuthorityScenariosHold, InputScenariosHold, ProviderScenariosHold, EvidenceScenariosHold DEF Met
<1>6. AllScenarios = ((a \o b) \o c) \o d
  BY DEF AllScenarios
<1> HIDE DEF a, b, c, d
<1>7. a \in [1 .. 20 -> S] /\ b \in [1 .. 10 -> S] /\ c \in [1 .. 10 -> S] /\ d \in [1 .. 10 -> S]
  BY <1>1, <1>2, <1>3, <1>4
<1> HIDE DEF S
<1>8. a \in Seq(S) /\ b \in Seq(S) /\ c \in Seq(S) /\ d \in Seq(S)
  BY <1>7, SequencesAre
<1>lengths. Len(a) = 20 /\ Len(b) = 10 /\ Len(c) = 10 /\ Len(d) = 10
  BY <1>7, SequencesAre
<1> DEFINE ab == a \o b
           abc == ab \o c
<1>ab. ab = a \o b
  OBVIOUS
<1>abc. abc = ab \o c
  OBVIOUS
<1>all. AllScenarios = abc \o d
  BY <1>6
<1> HIDE DEF ab, abc
<1>types. a \in Seq(S) /\ b \in Seq(S) /\ c \in Seq(S) /\ d \in Seq(S) /\ ab \in Seq(S) /\ abc \in Seq(S)
  <2>1. ab \in Seq(S)
    BY <1>8, <1>ab
  <2>2. abc \in Seq(S)
    BY <1>8, <2>1, <1>abc
  <2> QED  BY <1>8, <2>1, <2>2
<1>9. /\ ab \in Seq(S) /\ Len(ab) = Len(a) + Len(b)
      /\ \A i \in 1 .. Len(a) : ab[i] = a[i]
      /\ \A i \in Len(a) + 1 .. Len(a) + Len(b) : ab[i] = b[i - Len(a)]
  <2>1. ab \in Seq(S) /\ Len(ab) = Len(a) + Len(b)
    BY <1>8, <1>ab
  <2>2. ASSUME NEW i \in 1 .. Len(a) PROVE ab[i] = a[i]
    BY <1>8, <1>ab
  <2>3. ASSUME NEW i \in Len(a) + 1 .. Len(a) + Len(b) PROVE ab[i] = b[i - Len(a)]
    BY <1>types, <1>ab
  <2> QED  BY <2>1, <2>2, <2>3
<1>10. /\ abc \in Seq(S) /\ Len(abc) = Len(ab) + Len(c)
       /\ \A i \in 1 .. Len(ab) : abc[i] = ab[i]
       /\ \A i \in Len(ab) + 1 .. Len(ab) + Len(c) : abc[i] = c[i - Len(ab)]
  <2>1. abc \in Seq(S) /\ Len(abc) = Len(ab) + Len(c)
    BY <1>types, <1>abc
  <2>2. ASSUME NEW i \in 1 .. Len(ab) PROVE abc[i] = ab[i]
    BY <1>types, <1>abc
  <2>3. ASSUME NEW i \in Len(ab) + 1 .. Len(ab) + Len(c) PROVE abc[i] = c[i - Len(ab)]
    BY <1>types, <1>abc
  <2> QED  BY <2>1, <2>2, <2>3
<1>11. /\ Len(AllScenarios) = Len(abc) + Len(d)
       /\ \A i \in 1 .. Len(abc) : AllScenarios[i] = abc[i]
       /\ \A i \in Len(abc) + 1 .. Len(abc) + Len(d) : AllScenarios[i] = d[i - Len(abc)]
  <2>1. AllScenarios \in Seq(S) /\ Len(AllScenarios) = Len(abc) + Len(d)
    BY <1>types, <1>all
  <2>2. ASSUME NEW i \in 1 .. Len(abc) PROVE AllScenarios[i] = abc[i]
    BY <1>types, <1>all
  <2>3. ASSUME NEW i \in Len(abc) + 1 .. Len(abc) + Len(d) PROVE AllScenarios[i] = d[i - Len(abc)]
    BY <1>types, <1>all
  <2> QED  BY <2>1, <2>2, <2>3
<1>len. Len(a) = 20 /\ Len(ab) = 30 /\ Len(abc) = 40 /\ Len(AllScenarios) = 50
  BY <1>lengths, <1>9, <1>10, <1>11
<1>12. ASSUME NEW i \in 1 .. 20
       PROVE  AllScenarios[i].category = "authority" /\ AllScenarios[i].holds
  <2>1. i \in 1 .. 20 /\ i \in 1 .. 30 /\ i \in 1 .. 40
    OBVIOUS
  <2>2. AllScenarios[i] = abc[i] /\ abc[i] = ab[i] /\ ab[i] = a[i]
    BY <1>len, <1>9, <1>10, <1>11, <2>1
  <2> QED  BY <1>5, <2>1, <2>2
<1>13. ASSUME NEW i \in 21 .. 30
       PROVE  AllScenarios[i].category = "input-safety" /\ AllScenarios[i].holds
  <2> DEFINE k == i - 20
  <2>1. i \in 1 .. 30 /\ i \in 1 .. 40 /\ k \in 1 .. 10 /\ i \in Len(a) + 1 .. Len(a) + Len(b)
    BY <1>lengths
  <2>2. AllScenarios[i] = abc[i] /\ abc[i] = ab[i]
    BY <1>len, <1>10, <1>11, <2>1
  <2>3. ab[i] = b[k]
    BY <1>len, <1>9, <2>1
  <2> HIDE DEF k
  <2> QED  BY <1>5, <2>1, <2>2, <2>3
<1>14. ASSUME NEW i \in 31 .. 40
       PROVE  AllScenarios[i].category = "provider-boundary" /\ AllScenarios[i].holds
  <2> DEFINE k == i - 30
  <2>1. i \in 1 .. 40 /\ k \in 1 .. 10 /\ i \in Len(ab) + 1 .. Len(ab) + Len(c)
    BY <1>lengths, <1>len
  <2>2. AllScenarios[i] = abc[i] /\ abc[i] = c[k]
    BY <1>len, <1>10, <1>11, <2>1
  <2> HIDE DEF k
  <2> QED  BY <1>5, <2>1, <2>2
<1>15. ASSUME NEW i \in 41 .. 50
       PROVE  AllScenarios[i].category = "evidence-replay" /\ AllScenarios[i].holds
  <2> DEFINE k == i - 40
  <2>1. k \in 1 .. 10 /\ i \in Len(abc) + 1 .. Len(abc) + Len(d)
    BY <1>lengths, <1>len
  <2>2. AllScenarios[i] = d[k]
    BY <1>len, <1>11, <2>1
  <2> HIDE DEF k
  <2> QED  BY <1>5, <2>1, <2>2
<1>16. \A i \in 1 .. 50 : i \in 1 .. 20 \/ i \in 21 .. 30 \/ i \in 31 .. 40 \/ i \in 41 .. 50
  OBVIOUS
<1> QED  BY <1>len, <1>12, <1>13, <1>14, <1>15, <1>16

-----------------------------------------------------------------------------
(* The totals by category count the results. *)

Totals == [Categories -> [passed : Nat, total : Nat]]

\* One turn of the loop adds the result to its category.
LEMMA CountedIs ==
  ASSUME NEW totals \in Totals, NEW r, r.category \in Categories
  PROVE  /\ counted(totals, r) \in Totals
         /\ \A c \in Categories :
              /\ counted(totals, r)[c].total = totals[c].total + IF r.category = c THEN 1 ELSE 0
              /\ counted(totals, r)[c].passed = totals[c].passed + IF r.category = c /\ r.passed THEN 1 ELSE 0
<1> DEFINE k == r.category
           one == [totals EXCEPT ![k].total = @ + 1]
           p == IF r.passed THEN totals[k].passed + 1 ELSE totals[k].passed
           new == [passed |-> p, total |-> totals[k].total + 1]
<1>1. totals[k] \in [passed : Nat, total : Nat] /\ p \in Nat
  BY DEF Totals
<1>2. one \in Totals /\ one[k].passed = totals[k].passed /\ one[k].total = totals[k].total + 1
      /\ \A c \in Categories : c # k => one[c] = totals[c]
  BY <1>1 DEF Totals
<1>3. counted(totals, r) = [one EXCEPT ![k].passed = p]
  BY <1>1, <1>2 DEF counted
<1> HIDE DEF p, one
<1>4. [one EXCEPT ![k].passed = p] \in Totals
  BY <1>1, <1>2 DEF Totals
<1>5. \A c \in Categories : c # k => [one EXCEPT ![k].passed = p][c] = totals[c]
  BY <1>2 DEF Totals
<1>6. [one EXCEPT ![k].passed = p][k].passed = p /\ [one EXCEPT ![k].passed = p][k].total = totals[k].total + 1
  BY <1>1, <1>2 DEF Totals
<1>7. \A c \in Categories : totals[c].total \in Nat /\ totals[c].passed \in Nat
  BY DEF Totals
<1>8. ASSUME NEW c \in Categories
      PROVE  /\ counted(totals, r)[c].total = totals[c].total + IF r.category = c THEN 1 ELSE 0
             /\ counted(totals, r)[c].passed = totals[c].passed + IF r.category = c /\ r.passed THEN 1 ELSE 0
  <2>1. CASE c = k
    BY <1>3, <1>6, <1>7, <2>1 DEF p
  <2>2. CASE c # k
    BY <1>3, <1>5, <1>7, <2>2
  <2> QED  BY <2>1, <2>2
<1> QED  BY <1>3, <1>4, <1>8

\* The loop, turn by turn.
LEMMA TotalsAre ==
  ASSUME Len(results) \in Nat, \A n \in 1 .. Len(results) : results[n].category \in Categories
  PROVE  \E f \in [0 .. Len(results) -> Totals] :
           /\ f[0] = NoTotals
           /\ \A n \in 1 .. Len(results) : f[n] = counted(f[n - 1], results[n])
           /\ categoryTotals = f[Len(results)]
<1> DEFINE m == Len(results)
           step == [x \in (1 .. m) \X Totals |-> counted(x[2], results[x[1]])]
           Loop(f) == f = [n \in 0 .. m |-> IF n = 0 THEN NoTotals ELSE counted(f[n - 1], results[n])]
           f == CHOOSE f : Loop(f)
<1>1. NoTotals \in Totals
  BY DEF NoTotals, Totals
<1>2. \A n \in 1 .. m, t \in Totals : counted(t, results[n]) \in Totals
  BY CountedIs
<1>3. step \in [(1 .. m) \X Totals -> Totals]
  BY <1>2
<1>4. \A n \in 1 .. m, t \in Totals : step[<<n, t>>] = counted(t, results[n])
  OBVIOUS
<1>5. m \in Nat
  OBVIOUS
<1>6. categoryTotals = f[m]
  BY DEF categoryTotals
<1> HIDE DEF step, m
<1>7. PICK g \in [0 .. m -> Totals] : Recursion(g, NoTotals, step, m)
  BY <1>1, <1>3, <1>5, RecursionExists
<1>8. \A n \in 0 .. m : n # 0 => step[<<n, g[n - 1]>>] = counted(g[n - 1], results[n])
  BY <1>4, <1>5
<1>9. Loop(g)
  BY <1>7, <1>8 DEF Recursion
<1>10. Loop(f)
  BY <1>9
<1> HIDE DEF f
<1>11. f[0] = NoTotals /\ \A n \in 1 .. m : f[n] = counted(f[n - 1], results[n])
  BY <1>5, <1>10
<1>12. f = [n \in 0 .. m |-> f[n]]
  BY <1>10
<1>13. \A n \in 0 .. m : f[n] \in Totals
  <2> DEFINE S == {n \in Nat : n <= m => f[n] \in Totals}
  <2>1. 0 \in S
    BY <1>1, <1>11
  <2>2. ASSUME NEW n \in Nat, n \in S PROVE n + 1 \in S
    <3> SUFFICES ASSUME n + 1 <= m PROVE f[n + 1] \in Totals
      OBVIOUS
    <3>1. n + 1 \in 1 .. m /\ n <= m /\ (n + 1) - 1 = n
      BY <1>5
    <3>2. f[n + 1] = counted(f[n], results[n + 1])
      BY <1>11, <3>1
    <3>3. f[n] \in Totals
      BY <2>2, <3>1
    <3> QED  BY <1>2, <3>1, <3>2, <3>3
  <2> HIDE DEF S
  <2>3. Nat \subseteq S
    BY <2>1, <2>2, SetInduction
  <2> QED  BY <1>5, <2>3 DEF S
<1>14. f \in [0 .. m -> Totals]
  BY <1>12, <1>13
<1> QED  BY <1>6, <1>11, <1>14 DEF m

\* How many of the numbers up to n are in a set.
UpTo(set, n) == Cardinality(set \cap (1 .. n))

\* One number more.
LEMMA OneMore ==
  ASSUME NEW n \in Nat, NEW set
  PROVE  /\ UpTo(set, 0) = 0
         /\ UpTo(set, n + 1) = UpTo(set, n) + IF n + 1 \in set THEN 1 ELSE 0
         /\ UpTo(set, n) \in Nat
<1>1. UpTo(set, 0) = 0
  <2>1. set \cap (1 .. 0) = {}
    OBVIOUS
  <2> QED  BY <2>1, FS_EmptySet DEF UpTo
<1> DEFINE A == set \cap (1 .. n)
           B == set \cap (1 .. n + 1)
<1>2. IsFiniteSet(A) /\ Cardinality(A) \in Nat
  <2>1. IsFiniteSet(1 .. n)
    BY FS_Interval
  <2> QED  BY <2>1, FS_Subset, FS_CardinalityType
<1>3. CASE n + 1 \in set
  <2>1. B = A \cup {n + 1} /\ n + 1 \notin A
    <3>1. \A i \in 1 .. n + 1 : i = n + 1 \/ i \in 1 .. n
      OBVIOUS
    <3>2. n + 1 \notin 1 .. n /\ n + 1 \in 1 .. n + 1 /\ \A i \in 1 .. n : i \in 1 .. n + 1
      OBVIOUS
    <3> QED  BY <1>3, <3>1, <3>2
  <2>2. Cardinality(B) = Cardinality(A) + 1
    <3> HIDE DEF A, B
    <3> QED  BY <1>2, <2>1, FS_AddElement
  <2> QED  BY <1>1, <1>2, <1>3, <2>2 DEF UpTo
<1>4. CASE n + 1 \notin set
  <2>1. B = A
    <3>1. \A i \in 1 .. n + 1 : i = n + 1 \/ i \in 1 .. n
      OBVIOUS
    <3>2. \A i \in 1 .. n : i \in 1 .. n + 1
      OBVIOUS
    <3> QED  BY <1>4, <3>1, <3>2
  <2> QED  BY <1>1, <1>2, <1>4, <2>1 DEF UpTo
<1> QED  BY <1>3, <1>4

\* The results of a category, and those of them that passed.
InCategory(c) == {i \in 1 .. Len(results) : results[i].category = c}
PassedIn(c) == {i \in 1 .. Len(results) : results[i].category = c /\ results[i].passed}

\* The totals are their numbers.
LEMMA TotalsCount ==
  ASSUME Len(results) \in Nat, \A n \in 1 .. Len(results) : results[n].category \in Categories,
         NEW c \in Categories
  PROVE  /\ categoryTotals[c].total = Cardinality(InCategory(c))
         /\ categoryTotals[c].passed = Cardinality(PassedIn(c))
<1> DEFINE m == Len(results)
<1>1. PICK f \in [0 .. m -> Totals] :
        /\ f[0] = NoTotals
        /\ \A n \in 1 .. m : f[n] = counted(f[n - 1], results[n])
        /\ categoryTotals = f[m]
  BY TotalsAre
<1>2. /\ InCategory(c) \subseteq 1 .. m /\ PassedIn(c) \subseteq 1 .. m
      /\ \A n \in 1 .. m : n \in InCategory(c) <=> results[n].category = c
      /\ \A n \in 1 .. m : n \in PassedIn(c) <=> results[n].category = c /\ results[n].passed
  BY DEF InCategory, PassedIn
<1>3. m \in Nat
  OBVIOUS
<1>4. \A n \in 1 .. m : results[n].category \in Categories
  OBVIOUS
<1> HIDE DEF m
<1> DEFINE S == {n \in Nat : n <= m => /\ f[n][c].total = UpTo(InCategory(c), n)
                                       /\ f[n][c].passed = UpTo(PassedIn(c), n)}
<1>5. 0 \in S
  <2>1. f[0][c].total = 0 /\ f[0][c].passed = 0
    BY <1>1 DEF NoTotals
  <2> QED  BY <2>1, OneMore
<1>6. ASSUME NEW n \in Nat, n \in S PROVE n + 1 \in S
  <2> SUFFICES ASSUME n + 1 <= m
               PROVE  /\ f[n + 1][c].total = UpTo(InCategory(c), n + 1)
                      /\ f[n + 1][c].passed = UpTo(PassedIn(c), n + 1)
    OBVIOUS
  <2>1. n + 1 \in 1 .. m /\ n \in 0 .. m /\ n <= m /\ (n + 1) - 1 = n
    BY <1>3
  <2>2. f[n + 1] = counted(f[n], results[n + 1]) /\ f[n] \in Totals
    BY <1>1, <2>1
  <2>3. /\ f[n + 1][c].total = f[n][c].total + IF results[n + 1].category = c THEN 1 ELSE 0
        /\ f[n + 1][c].passed = f[n][c].passed + IF results[n + 1].category = c /\ results[n + 1].passed THEN 1 ELSE 0
    BY <1>4, <2>1, <2>2, CountedIs
  <2>4. f[n][c].total = UpTo(InCategory(c), n) /\ f[n][c].passed = UpTo(PassedIn(c), n)
    BY <1>6, <2>1
  <2>5. /\ n + 1 \in InCategory(c) <=> results[n + 1].category = c
        /\ n + 1 \in PassedIn(c) <=> results[n + 1].category = c /\ results[n + 1].passed
    BY <1>2, <2>1
  <2>6. /\ UpTo(InCategory(c), n + 1) = UpTo(InCategory(c), n) + IF n + 1 \in InCategory(c) THEN 1 ELSE 0
        /\ UpTo(PassedIn(c), n + 1) = UpTo(PassedIn(c), n) + IF n + 1 \in PassedIn(c) THEN 1 ELSE 0
    BY OneMore
  <2> QED  BY <2>3, <2>4, <2>5, <2>6
<1> HIDE DEF S
<1>7. m \in S
  BY <1>3, <1>5, <1>6, SetInduction
<1>8. InCategory(c) \cap (1 .. m) = InCategory(c) /\ PassedIn(c) \cap (1 .. m) = PassedIn(c)
  BY <1>2
<1>9. f[m][c].total = UpTo(InCategory(c), m) /\ f[m][c].passed = UpTo(PassedIn(c), m)
  BY <1>3, <1>7 DEF S
<1>10. UpTo(InCategory(c), m) = Cardinality(InCategory(c)) /\ UpTo(PassedIn(c), m) = Cardinality(PassedIn(c))
  BY <1>8 DEF UpTo
<1> QED  BY <1>1, <1>9, <1>10

-----------------------------------------------------------------------------
(* The invariant. *)

\* Nothing has run.
LEMMA BInvInit == Init => BInv
<1> SUFFICES ASSUME Init PROVE BInv
  OBVIOUS
<1>1. cases = AllScenarios /\ regressed = {} /\ results = << >> /\ report = NoReport
  BY DEF Init
<1>2. TypeOK
  BY <1>1 DEF TypeOK
<1>3. ResultsAreTheScenarios
  BY <1>1 DEF ResultsAreTheScenarios
<1> QED  BY <1>1, <1>2, <1>3 DEF BInv, ReportIsOfTheResults

\* A scenario that runs passes unless something regressed.
LEMMA RunScenarioStep == BInv /\ RunScenario => BInv'
<1> SUFFICES ASSUME BInv, RunScenario PROVE BInv'
  OBVIOUS
<1> DEFINE n == Len(results)
           i == n + 1
<1>1. cases = AllScenarios /\ results \in Seq(Outcomes) /\ n \in Nat /\ n <= 50 /\ regressed \subseteq 1 .. n
  BY DEF BInv, TypeOK
<1>2. Len(cases) = 50 /\ \A k \in 1 .. 50 : cases[k].holds
  BY <1>1, ScenariosAre
<1>3. n < 50 /\ i \in 1 .. 50 /\ cases' = cases /\ report' = report
  <2>1. n < Len(cases) /\ cases' = cases /\ report' = report
    BY DEF RunScenario, Running
  <2> HIDE DEF n
  <2>2. n < 50
    BY <1>2, <2>1
  <2> QED  BY <1>1, <2>1, <2>2
<1>4. PICK fails \in BOOLEAN : /\ regressed' = IF fails THEN regressed \cup {i} ELSE regressed
                               /\ results' = Append(results, outcome(i, cases[i].holds /\ ~ fails))
  BY DEF RunScenario
<1> DEFINE new == outcome(i, cases[i].holds /\ ~ fails)
<1>5. /\ new.id = cases[i].id /\ new.category = cases[i].category /\ new.severity = cases[i].severity
      /\ new.passed <=> ~ fails
  BY <1>2, <1>3 DEF outcome
<1>7. Outcomes' = Outcomes
  BY <1>3 DEF Outcomes, outcome
<1>6. new \in Outcomes /\ new \in Outcomes'
  <2>1. new = outcome(i, TRUE) \/ new = outcome(i, FALSE)
    <3>1. CASE fails
      <4>1. (cases[i].holds /\ ~ fails) = FALSE
        BY <3>1
      <4> QED  BY <4>1
    <3>2. CASE ~ fails
      <4>1. (cases[i].holds /\ ~ fails) = TRUE
        BY <1>2, <1>3, <3>2
      <4> QED  BY <4>1
    <3> QED  BY <3>1, <3>2
  <2>2. outcome(i, TRUE) \in Outcomes /\ outcome(i, FALSE) \in Outcomes
    <3> HIDE DEF i
    <3> QED  BY <1>3 DEF Outcomes
  <2> HIDE DEF new, i
  <2>3. new \in Outcomes
    BY <2>1, <2>2
  <2> QED  BY <1>7, <2>3
<1> HIDE DEF new
<1>8. results' \in Seq(Outcomes) /\ Len(results') = i /\ results'[i] = new
  BY <1>1, <1>4, <1>6 DEF new
<1>9. \A k \in 1 .. n : results'[k] = results[k]
  BY <1>1, <1>4, <1>6 DEF new
<1>10. regressed' \subseteq 1 .. i /\ (i \in regressed' <=> fails) /\ \A k \in 1 .. n : k \in regressed' <=> k \in regressed
  <2>1. i \notin 1 .. n /\ i \in 1 .. i /\ \A k \in 1 .. n : k \in 1 .. i /\ k # i
    BY <1>1
  <2>2. i \notin regressed
    BY <1>1, <2>1
  <2> HIDE DEF i, n
  <2> QED  BY <1>1, <1>4, <2>1, <2>2
<1>11. TypeOK'
  BY <1>1, <1>3, <1>7, <1>8, <1>10 DEF TypeOK
<1>12. ResultsAreTheScenarios'
  <2> SUFFICES ASSUME NEW k \in 1 .. Len(results')
               PROVE  /\ results'[k].id = cases'[k].id
                      /\ results'[k].category = cases'[k].category
                      /\ results'[k].severity = cases'[k].severity
                      /\ results'[k].passed <=> k \notin regressed'
    BY DEF ResultsAreTheScenarios
  <2>1. CASE k = i
    BY <1>3, <1>5, <1>8, <1>10, <2>1
  <2>2. CASE k # i
    <3>1. k \in 1 .. n
      BY <1>1, <1>8, <2>2
    <3> QED  BY <1>3, <1>9, <1>10, <3>1 DEF BInv, ResultsAreTheScenarios
  <2> QED  BY <2>1, <2>2
<1>13. report = NoReport
  <2>1. report # NoReport => n = 50
    BY DEF BInv, ReportIsOfTheResults
  <2> HIDE DEF n
  <2> QED  BY <1>1, <1>3, <2>1
<1>14. ReportIsOfTheResults'
  BY <1>3, <1>13 DEF ReportIsOfTheResults, NoReport
<1> QED  BY <1>11, <1>12, <1>14 DEF BInv

\* The report is of the results as they are then.
LEMMA ReportStep == BInv /\ Report => BInv'
<1> SUFFICES ASSUME BInv, Report PROVE BInv'
  OBVIOUS
<1>1. cases' = cases /\ regressed' = regressed /\ results' = results
  BY DEF Report
<1>2. cases = AllScenarios /\ results \in Seq(Outcomes) /\ Len(results) <= 50
  BY DEF BInv, TypeOK
<1>3. Len(results) = 50
  <2> DEFINE n == Len(results)
             m == Len(cases)
  <2>1. m = 50
    BY <1>2, ScenariosAre
  <2>2. ~ (n < m) /\ n \in Nat /\ n <= 50
    BY <1>2 DEF Report, Running
  <2> HIDE DEF n, m
  <2>3. n = 50
    BY <2>1, <2>2
  <2> QED  BY <2>3 DEF n
<1>4. TypeOK'
  BY <1>1 DEF BInv, TypeOK, Outcomes, outcome
<1>5. ResultsAreTheScenarios'
  BY <1>1 DEF BInv, ResultsAreTheScenarios
<1>6. criticalRegressions' = criticalRegressions /\ categoryTotals' = categoryTotals
  BY <1>1 DEF criticalRegressions, categoryTotals
<1>7. /\ report'.scenarioCount = Len(results)
      /\ report'.criticalRegressions = criticalRegressions
      /\ report'.categoryTotals = categoryTotals
  BY DEF Report
<1>8. report'.passed <=> criticalRegressions = << >> /\ \A i \in DOMAIN results : results[i].passed
  BY DEF Report
<1>9. DOMAIN results = 1 .. Len(results)
  BY <1>2
<1>10. ReportIsOfTheResults'
  BY <1>1, <1>3, <1>6, <1>7, <1>8, <1>9 DEF ReportIsOfTheResults
<1> QED  BY <1>4, <1>5, <1>10 DEF BInv

\* In every state the results are those of the scenarios that have run, and the
\* report, once made, is of the results.
THEOREM BInvAlwaysHolds == Spec => []BInv
<1>1. BInv /\ [Next]_vars => BInv'
  <2> SUFFICES ASSUME BInv, [Next]_vars PROVE BInv'
    OBVIOUS
  <2>1. CASE RunScenario
    BY <2>1, RunScenarioStep
  <2>2. CASE Report
    BY <2>2, ReportStep
  <2>3. CASE UNCHANGED vars
    <3>1. cases' = cases /\ regressed' = regressed /\ results' = results /\ report' = report
      BY <2>3 DEF vars
    <3> QED  BY <3>1 DEF BInv, TypeOK, Outcomes, outcome, ResultsAreTheScenarios, ReportIsOfTheResults,
      criticalRegressions, categoryTotals
  <2> QED  BY <2>1, <2>2, <2>3 DEF Next
<1> QED  BY BInvInit, <1>1, PTL DEF Spec

\* The rules satisfy what the repository expects of its own code in each of the
\* fifty scenarios: one that has not regressed passes.
THEOREM ScenariosAlwaysHold == Spec => []ScenariosHold
<1>1. BInv => ScenariosHold
  <2> SUFFICES ASSUME BInv PROVE ScenariosHold
    OBVIOUS
  <2>1. DOMAIN results = 1 .. Len(results)
    BY DEF BInv, TypeOK
  <2> QED  BY <2>1 DEF BInv, ResultsAreTheScenarios, ScenariosHold
<1> QED  BY <1>1, BInvAlwaysHolds, PTL

-----------------------------------------------------------------------------
(* The report. *)

\* How many scenarios a category has.
LEMMA CategorySizes ==
  ASSUME BInv, Len(results) = 50, NEW c \in Categories
  PROVE  Cardinality(InCategory(c)) = IF c = "authority" THEN 20 ELSE 10
<1>1. \A i \in 1 .. 50 : results[i].category = AllScenarios[i].category
  BY DEF BInv, TypeOK, ResultsAreTheScenarios
<1>2. \A i \in 1 .. 50 : i \in 1 .. 20 \/ i \in 21 .. 30 \/ i \in 31 .. 40 \/ i \in 41 .. 50
  OBVIOUS
<1>3. \A i \in 1 .. 50 : results[i].category = IF i \in 1 .. 20 THEN "authority"
                                              ELSE IF i \in 21 .. 30 THEN "input-safety"
                                              ELSE IF i \in 31 .. 40 THEN "provider-boundary"
                                              ELSE "evidence-replay"
  BY <1>1, <1>2, ScenariosAre
<1>4. /\ \A i \in 1 .. 20 : i \in 1 .. 50
      /\ \A i \in 21 .. 30 : i \in 1 .. 50 /\ i \notin 1 .. 20
      /\ \A i \in 31 .. 40 : i \in 1 .. 50 /\ i \notin 1 .. 20 /\ i \notin 21 .. 30
      /\ \A i \in 41 .. 50 : i \in 1 .. 50 /\ i \notin 1 .. 20 /\ i \notin 21 .. 30 /\ i \notin 31 .. 40
  OBVIOUS
<1>5. InCategory(c) = {i \in 1 .. 50 : results[i].category = c}
  BY DEF InCategory
<1>6. /\ Cardinality(1 .. 20) = 20 /\ Cardinality(21 .. 30) = 10
      /\ Cardinality(31 .. 40) = 10 /\ Cardinality(41 .. 50) = 10
  <2>1. \A m, n \in Nat : m <= n => Cardinality(m .. n) = n - m + 1
    BY FS_Interval
  <2>2. Cardinality(1 .. 20) = 20
    <3> DEFINE m == 1
               n == 20
    <3>1. m \in Nat /\ n \in Nat /\ m <= n /\ n - m + 1 = 20
      OBVIOUS
    <3> HIDE DEF m, n
    <3>2. Cardinality(m .. n) = 20
      BY <2>1, <3>1
    <3> QED  BY <3>2 DEF m, n
  <2>3. Cardinality(21 .. 30) = 10
    <3> DEFINE m == 21
               n == 30
    <3>1. m \in Nat /\ n \in Nat /\ m <= n /\ n - m + 1 = 10
      OBVIOUS
    <3> HIDE DEF m, n
    <3>2. Cardinality(m .. n) = 10
      BY <2>1, <3>1
    <3> QED  BY <3>2 DEF m, n
  <2>4. Cardinality(31 .. 40) = 10
    <3> DEFINE m == 31
               n == 40
    <3>1. m \in Nat /\ n \in Nat /\ m <= n /\ n - m + 1 = 10
      OBVIOUS
    <3> HIDE DEF m, n
    <3>2. Cardinality(m .. n) = 10
      BY <2>1, <3>1
    <3> QED  BY <3>2 DEF m, n
  <2>5. Cardinality(41 .. 50) = 10
    <3> DEFINE m == 41
               n == 50
    <3>1. m \in Nat /\ n \in Nat /\ m <= n /\ n - m + 1 = 10
      OBVIOUS
    <3> HIDE DEF m, n
    <3>2. Cardinality(m .. n) = 10
      BY <2>1, <3>1
    <3> QED  BY <3>2 DEF m, n
  <2> QED  BY <2>2, <2>3, <2>4, <2>5
<1>7. CASE c = "authority"
  <2>1. InCategory(c) = 1 .. 20
    BY <1>2, <1>3, <1>4, <1>5, <1>7
  <2> QED  BY <1>6, <1>7, <2>1
<1>8. CASE c = "input-safety"
  <2>1. InCategory(c) = 21 .. 30
    BY <1>2, <1>3, <1>4, <1>5, <1>8
  <2> QED  BY <1>6, <1>8, <2>1
<1>9. CASE c = "provider-boundary"
  <2>1. InCategory(c) = 31 .. 40
    BY <1>2, <1>3, <1>4, <1>5, <1>9
  <2> QED  BY <1>6, <1>9, <2>1
<1>10. CASE c = "evidence-replay"
  <2>1. InCategory(c) = 41 .. 50
    BY <1>2, <1>3, <1>4, <1>5, <1>10
  <2> QED  BY <1>6, <1>10, <2>1
<1> QED  BY <1>7, <1>8, <1>9, <1>10 DEF Categories

\* What a category misses are its scenarios that regressed.
LEMMA MissingRegressed ==
  ASSUME BInv, Len(results) = 50, NEW c \in Categories
  PROVE  Cardinality(InCategory(c)) - Cardinality(PassedIn(c)) = Cardinality({i \in regressed : cases[i].category = c})
<1> DEFINE R == {i \in regressed : cases[i].category = c}
<1>1. regressed \subseteq 1 .. 50
  BY DEF BInv, TypeOK
<1>2. \A i \in 1 .. 50 : /\ results[i].category = cases[i].category
                         /\ results[i].passed <=> i \notin regressed
  BY DEF BInv, ResultsAreTheScenarios
<1>3. R \subseteq InCategory(c) /\ PassedIn(c) = InCategory(c) \ R
  BY <1>1, <1>2 DEF InCategory, PassedIn
<1>4. IsFiniteSet(InCategory(c)) /\ IsFiniteSet(R)
  <2>1. IsFiniteSet(1 .. 50)
    <3> DEFINE n == 50
    <3>1. n \in Nat
      OBVIOUS
    <3> HIDE DEF n
    <3>2. IsFiniteSet(1 .. n)
      BY <3>1, FS_Interval
    <3> QED  BY <3>2 DEF n
  <2>2. InCategory(c) \subseteq 1 .. 50
    BY DEF InCategory
  <2> QED  BY <1>3, <2>1, <2>2, FS_Subset
<1> HIDE DEF R
<1>5. Cardinality(InCategory(c) \ R) = Cardinality(InCategory(c)) - Cardinality(InCategory(c) \cap R)
  BY <1>4, FS_Difference
<1>6. InCategory(c) \cap R = R
  BY <1>3
<1>7. Cardinality(InCategory(c)) \in Nat /\ Cardinality(R) \in Nat
  BY <1>4, FS_CardinalityType
<1>8. Cardinality(InCategory(c)) - Cardinality(PassedIn(c)) = Cardinality(R)
  BY <1>3, <1>5, <1>6, <1>7
<1> QED  BY <1>8 DEF R

\* The critical regressions are the names of the critical scenarios that regressed,
\* each once.
LEMMA CriticalRegressionsAre ==
  ASSUME BInv
  PROVE  LET critical == {i \in regressed : cases[i].severity = "critical"}
         IN  /\ Len(criticalRegressions) = Cardinality(critical)
             /\ ToSet(criticalRegressions) = {cases[i].id : i \in critical}
             /\ criticalRegressions = << >> <=> critical = {}
<1> DEFINE critical == {i \in regressed : cases[i].severity = "critical"}
           indexes == {i \in DOMAIN results : results[i].severity = "critical" /\ ~ results[i].passed}
           ids == [i \in DOMAIN results |-> results[i].id]
<1>1. Len(results) \in Nat /\ regressed \subseteq 1 .. Len(results) /\ DOMAIN results = 1 .. Len(results)
  BY DEF BInv, TypeOK
<1>2. \A i \in 1 .. Len(results) : /\ results[i].severity = cases[i].severity
                                   /\ results[i].id = cases[i].id
                                   /\ results[i].passed <=> i \notin regressed
  BY DEF BInv, ResultsAreTheScenarios
<1> DEFINE D == DOMAIN results
<1>3. regressed \subseteq D
  BY <1>1
<1>4. \A i \in D : /\ results[i].severity = cases[i].severity
                   /\ results[i].id = cases[i].id
                   /\ results[i].passed <=> i \notin regressed
  BY <1>1, <1>2
<1>5. indexes = critical
  BY <1>3, <1>4
<1>6. \A i \in critical : ids[i] = cases[i].id
  BY <1>3, <1>4
<1>7. critical \in SUBSET (1 .. Len(results))
  BY <1>1
<1>8. criticalRegressions = filter(ids, indexes)
  BY DEF criticalRegressions
<1> HIDE DEF critical, indexes, ids
<1>9. criticalRegressions = filter(ids, critical)
  BY <1>5, <1>8
<1>10. Len(criticalRegressions) = Cardinality(critical)
  BY <1>1, <1>7, <1>9, FilterLength
<1>11. ToSet(criticalRegressions) = {ids[i] : i \in critical}
  <2>1. ToSet(filter(ids, critical)) = {ids[i] : i \in critical}
    BY <1>1, <1>7, FilterMembers
  <2> QED  BY <1>9, <2>1
<1>12. {ids[i] : i \in critical} = {cases[i].id : i \in critical}
  BY <1>6
<1>13. criticalRegressions = << >> <=> critical = {}
  BY <1>1, <1>7, <1>9, FilterEmpty
<1> QED  BY <1>10, <1>11, <1>12, <1>13 DEF critical

\* The report passes only if nothing regressed, counts each regression once, in its
\* category, and names those that are critical.
THEOREM RegressionsAlwaysAreReported == Spec => []RegressionsAreReported
<1>1. BInv => RegressionsAreReported
  <2> SUFFICES ASSUME BInv, report # NoReport
               PROVE  LET critical == {i \in regressed : cases[i].severity = "critical"}
                          missing(c) == report.categoryTotals[c].total - report.categoryTotals[c].passed
                      IN  /\ report.scenarioCount = 50
                          /\ report.passed <=> regressed = {}
                          /\ Len(report.criticalRegressions) = Cardinality(critical)
                          /\ ToSet(report.criticalRegressions) = {cases[i].id : i \in critical}
                          /\ \A c \in Categories :
                               /\ missing(c) = Cardinality({i \in regressed : cases[i].category = c})
                               /\ report.categoryTotals[c].total = IF c = "authority" THEN 20 ELSE 10
    BY DEF RegressionsAreReported
  <2> DEFINE critical == {i \in regressed : cases[i].severity = "critical"}
  <2>1. /\ Len(results) = 50
        /\ report.scenarioCount = Len(results)
        /\ report.criticalRegressions = criticalRegressions
        /\ report.categoryTotals = categoryTotals
    BY DEF BInv, ReportIsOfTheResults
  <2>2. report.passed <=> criticalRegressions = << >> /\ \A i \in 1 .. 50 : results[i].passed
    BY <2>1 DEF BInv, ReportIsOfTheResults
  <2>3. regressed \subseteq 1 .. 50 /\ \A i \in 1 .. 50 : results[i].passed <=> i \notin regressed
    BY <2>1 DEF BInv, TypeOK, ResultsAreTheScenarios
  <2>4. /\ Len(criticalRegressions) = Cardinality(critical)
        /\ ToSet(criticalRegressions) = {cases[i].id : i \in critical}
        /\ criticalRegressions = << >> <=> critical = {}
    BY <2>1, CriticalRegressionsAre
  <2>5. report.passed <=> regressed = {}
    <3>1. (\A i \in 1 .. 50 : results[i].passed) <=> regressed = {}
      BY <2>3
    <3>2. regressed = {} => critical = {}
      OBVIOUS
    <3> HIDE DEF critical
    <3> QED  BY <2>2, <2>4, <3>1, <3>2
  <2>6. ASSUME NEW c \in Categories
        PROVE  /\ report.categoryTotals[c].total - report.categoryTotals[c].passed
                    = Cardinality({i \in regressed : cases[i].category = c})
               /\ report.categoryTotals[c].total = IF c = "authority" THEN 20 ELSE 10
    <3>1. \A n \in 1 .. 50 : results[n].category \in Categories
      <4>1. \A n \in 1 .. 50 : results[n].category = AllScenarios[n].category
        BY <2>1 DEF BInv, TypeOK, ResultsAreTheScenarios
      <4>2. \A n \in 1 .. 50 : n \in 1 .. 20 \/ n \in 21 .. 30 \/ n \in 31 .. 40 \/ n \in 41 .. 50
        OBVIOUS
      <4>3. \A n \in 1 .. 50 : AllScenarios[n].category \in Categories
        BY <4>2, ScenariosAre DEF Categories
      <4> QED  BY <4>1, <4>3
    <3>2. /\ categoryTotals[c].total = Cardinality(InCategory(c))
          /\ categoryTotals[c].passed = Cardinality(PassedIn(c))
      BY <2>1, <3>1, TotalsCount
    <3>3. Cardinality(InCategory(c)) = IF c = "authority" THEN 20 ELSE 10
      BY <2>1, CategorySizes
    <3>4. Cardinality(InCategory(c)) - Cardinality(PassedIn(c)) = Cardinality({i \in regressed : cases[i].category = c})
      BY <2>1, MissingRegressed
    <3> QED  BY <2>1, <3>2, <3>3, <3>4
  <2> QED  BY <2>1, <2>4, <2>5, <2>6
<1> QED  BY <1>1, BInvAlwaysHolds, PTL
=============================================================================
