----------------------------- MODULE Authority ------------------------------
(***************************************************************************)
(* The decision rules, as constant operators: request fingerprints         *)
(* (src/src/integrity.ts), authority and approvals (src/src/authority.ts)  *)
(* and approval signatures (src/src/signatures.ts).                        *)
(*                                                                         *)
(* A fingerprint is identified with the data it is the SHA-256 of, and an  *)
(* Ed25519 signature with the pair of the private key and the payload it   *)
(* signs.  A request's summary and parameters are its intent: the value    *)
(* canonicalJson encodes, in which a missing one and null are the same.    *)
(* Dates are what Date.parse makes of them: a number, or Unparsable.       *)
(***************************************************************************)
EXTENDS Naturals, Sequences, SequencesExt

CONSTANTS
  None,        \* a field that is missing (undefined or null)
  Blank,       \* an identity that is empty once trimmed
  ShortNonce,  \* a nonce that is missing or shorter than 16 characters
  Unparsable,  \* a date that Date.parse answers NaN for
  Ambiguous    \* an intent that canonicalJson refuses to encode

\* None is neither a truth value nor the reason of a denial.
ASSUME NoneAssumption ==
  /\ None \notin BOOLEAN
  /\ None \notin {"hard deny", "not granted", "approval required", "no approver",
                 "no nonce", "expired", "fingerprint mismatch", "action mismatch"}

CONSEQUENTIAL == {"persist", "execute", "modify_policy", "grant_authority"}
MODEL_HARD_DENY == {"modify_policy", "grant_authority"}
AuthorityAction == {"reason", "recommend"} \cup CONSEQUENTIAL

-----------------------------------------------------------------------------
(* Fingerprints. *)

\* canonicalJson throws on an intent it cannot encode in one way only.
Fingerprintable(request) == request.intent # Ambiguous

fingerprintRequest(request) ==
  [action |-> request.action, target |-> request.target, intent |-> request.intent]

-----------------------------------------------------------------------------
(* Approvals. *)

\* createHumanApproval throws unless its options satisfy this.
Approvable(options) ==
  /\ options.approvedBy # Blank
  /\ options.nonce # ShortNonce
  /\ Unparsable \notin {options.issuedAt, options.expiresAt}
  /\ Fingerprintable(options.request)

createHumanApproval(options) ==
  [approvalId         |-> options.approvalId,
   approvedBy         |-> options.approvedBy,
   action             |-> options.request.action,
   target             |-> options.request.target,
   requestFingerprint |-> fingerprintRequest(options.request),
   nonce              |-> options.nonce,
   issuedAt           |-> options.issuedAt,
   expiresAt          |-> options.expiresAt]

\* Both dates parse and the expiry is the later one.
ValidInterval(approval) ==
  /\ approval.issuedAt \in Nat
  /\ approval.expiresAt \in Nat
  /\ approval.issuedAt < approval.expiresAt

signingPayload(approval, keyId) == [approval |-> approval, keyId |-> keyId]

\* What signHumanApproval requires of an approval, and verification checks again.
Signable(approval) == approval.nonce # ShortNonce /\ ValidInterval(approval)

signHumanApproval(approval, keyId, privateKey) ==
  [approval  |-> approval,
   keyId     |-> keyId,
   algorithm |-> "Ed25519",
   signature |-> [by |-> privateKey, over |-> signingPayload(approval, keyId)]]

\* Mistake: the key is looked up by its id alone.
TrustedKeys_Mutant(signed, trustedKeys) ==
  {i \in DOMAIN trustedKeys : trustedKeys[i].keyId = signed.keyId}

\* The keys trustedKeys.find accepts, of which it takes the first.
TrustedKeys(signed, trustedKeys) ==
  {i \in DOMAIN trustedKeys :
     /\ trustedKeys[i].keyId = signed.keyId
     /\ trustedKeys[i].approvedBy = signed.approval.approvedBy}

\* The field valid of what verifySignedHumanApproval returns.
verifySignedHumanApproval(signed, trustedKeys) ==
  /\ signed.algorithm = "Ed25519"
  /\ Signable(signed.approval)
  /\ \E i \in TrustedKeys(signed, trustedKeys) :
       /\ \A j \in TrustedKeys(signed, trustedKeys) : i <= j
       /\ trustedKeys[i].status = "active"
       /\ trustedKeys[i].algorithm = "Ed25519"
       /\ signed.signature = [by   |-> trustedKeys[i].key,
                              over |-> signingPayload(signed.approval, signed.keyId)]

-----------------------------------------------------------------------------
(* Authority. *)

\* Date.parse answers NaN for a date it cannot parse, and no number is below it.
Expired(approval, now) == approval.expiresAt \in Nat /\ approval.expiresAt <= now

\* Why a consequential request is denied, in the order of the early returns.
ApprovalDenial(request, approval, now) ==
  LET fingerprint == fingerprintRequest(request)
  IN IF approval = None THEN "approval required"
     ELSE IF approval.approvedBy = Blank THEN "no approver"
     ELSE IF approval.nonce = ShortNonce THEN "no nonce"
     ELSE IF Expired(approval, now) THEN "expired"
     ELSE IF approval.requestFingerprint # fingerprint THEN "fingerprint mismatch"
     ELSE IF approval.action # request.action \/ approval.target # request.target
          THEN "action mismatch"
     ELSE None

Denial(principal, request, approval, now) ==
  IF principal.kind = "model" /\ request.action \in MODEL_HARD_DENY THEN "hard deny"
  ELSE IF request.action \notin principal.grants THEN "not granted"
  ELSE IF request.action \in CONSEQUENTIAL THEN ApprovalDenial(request, approval, now)
  ELSE None

denied(reason, requiresHumanReview, request) ==
  [allowed             |-> FALSE,
   reason              |-> reason,
   requiresHumanReview |-> requiresHumanReview,
   requestFingerprint  |-> fingerprintRequest(request)]

\* An approval is named as matched also when the action needs none.
evaluateAuthority(principal, request, approval, now) ==
  LET reason == Denial(principal, request, approval, now)
  IN  IF reason # None
      THEN denied(reason, reason # "not granted" \/ request.action \in CONSEQUENTIAL, request)
      ELSE [allowed             |-> TRUE,
            reason              |-> "granted",
            requiresHumanReview |-> FALSE,
            requestFingerprint  |-> fingerprintRequest(request),
            matchedApprovalId   |-> IF approval = None THEN None ELSE approval.approvalId]
=============================================================================
