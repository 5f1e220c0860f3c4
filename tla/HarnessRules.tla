---------------------------- MODULE HarnessRules ----------------------------
(***************************************************************************)
(* What GovernanceHarness decides and records in an authorization (src/src *)
(* /harness.ts:62-198), as constant operators, whatever ledger and         *)
(* consumption store it is given.                                          *)
(*                                                                         *)
(* A call is a record of the arguments of authorize or, when signed, of    *)
(* authorizeSigned.                                                        *)
(***************************************************************************)
EXTENDS Authority, Consumption

\* The decision before the nonce is consumed; for authorize, the only one.
FirstDecision(c, now) ==
  IF c.signed /\ ~ verifySignedHumanApproval(c.envelope, c.trustedKeys)
  THEN denied("signature rejected", TRUE, c.request)
  ELSE evaluateAuthority(c.principal, c.request, c.approval, now)

\* The details of the event #recordAuthorization appends.  consumption stands
\* for approvalConsumed, approvalReplayDetected and consumptionRecordHash.
Evidence(c, d, consumption) ==
  [principal          |-> c.principal.id,
   requestFingerprint |-> d.requestFingerprint,
   approvalId         |-> IF c.approval = None THEN None ELSE c.approval.approvalId,
   approvedBy         |-> IF c.approval = None THEN None ELSE c.approval.approvedBy,
   approvalNonceHash  |-> IF c.approval = None THEN None ELSE c.approval.nonce,
   signatureVerified  |-> IF c.signed
                          THEN verifySignedHumanApproval(c.envelope, c.trustedKeys)
                          ELSE None,
   signingKeyId       |-> IF c.signed THEN c.envelope.keyId ELSE None,
   consumption        |-> consumption,
   allowed            |-> d.allowed,
   reason             |-> d.reason]

\* The decision on an approval whose nonce another call consumed.
AlreadyConsumed(c) == denied("already consumed", TRUE, c.request)
=============================================================================
