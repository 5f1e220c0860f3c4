------------------------- MODULE HarnessProperties --------------------------
(***************************************************************************)
(* What DurableHarness is to guarantee about approvals and evidence.       *)
(***************************************************************************)
EXTENDS DurableHarness

\* Every variable has its type.
TypeOK ==
  /\ step \in [Proc -> {"ready", "consume", "record", "digest"}]
  /\ \A p \in Proc :
       /\ step[p] # "ready" => task[p] \in Calls /\ decision[p] \in Decisions(task[p])
       /\ step[p] = "consume" => pc[p] = "idle"
       /\ step[p] \in {"record", "digest"} => stage[p] = "idle"
  /\ \A k \in Ledger!Written : files[k].details \in EventDetails

Written == Ledger!Written

\* The consumption key of the approval an event is about.
NonceOf(d) ==
  [approvedBy |-> d.approvedBy, signingKeyId |-> d.signingKeyId, nonceHash |-> d.approvalNonceHash]

\* The recorded events that allow an action on a signed approval.
IsGrant(d) == d.allowed /\ d.signatureVerified = TRUE
Grants == {k \in Written : IsGrant(files[k].details)}

\* "A consumed nonce cannot authorize the same action a second time through the
\* same durable consumption store" (SECURITY.md:15): whichever processes present
\* it, and whatever crashes and fails in between, one nonce of one signing key
\* is behind at most one recorded grant.
OneGrantPerNonce ==
  \A j, k \in Grants : NonceOf(files[j].details) = NonceOf(files[k].details) => j = k

\* An event that a call of p records agrees with the store: a grant on a signed
\* approval cites a consumption; a consumption that is cited is the one the store
\* holds under the nonce of the event's approval, and the process's own if and only
\* if the event allows what was asked.
AgreesWith(records, d, p) ==
  /\ IsGrant(d) => d.consumption # None /\ d.consumption.status = "consumed"
  /\ d.consumption # None =>
       /\ NonceOf(d) \in DOMAIN records
       /\ records[NonceOf(d)] = d.consumption.receipt
       /\ d.consumption.status = "consumed" <=> d.allowed
       /\ d.allowed => d.consumption.receipt.consumptionId[1] = p

\* What p's call is about to record as consumed, that very call consumed; what it
\* is about to record as a replay, another call had claimed.
CitesItsCall(p) ==
  details[p].consumption # None =>
    (details[p].consumption.status = "consumed"
       <=> details[p].consumption.receipt.consumptionId = <<p, consumes[p]>>)

\* The two directories agree, whatever fails between the claim and the append: no
\* recorded event contradicts the store, and none is handed to the ledger that
\* takes the consumption of another call, of any process, for its own.
\* (harness.ts:137-171)
EvidenceMatchesStore ==
  /\ \A k \in Written : AgreesWith(claims, files[k].details, files[k].id[1])
  /\ \A p \in Proc : step[p] = "record" => AgreesWith(claims, details[p], p) /\ CitesItsCall(p)

\* The decision a call returns is the one recorded in the event its receipt
\* names, and the digest it returns is of a chain that includes that event.
ResultsAreEvidenced ==
  \A p \in Proc :
    result[p].status = "returned" =>
      LET r == result[p]
      IN  /\ r.receipt.sequence \in Written
          /\ files[r.receipt.sequence].eventHash = r.receipt.eventHash
          /\ files[r.receipt.sequence].id[1] = p
          /\ files[r.receipt.sequence].details.allowed = r.decision.allowed
          /\ files[r.receipt.sequence].details.requestFingerprint = r.decision.requestFingerprint
          /\ IsPrefix(r.receipt.eventHash, r.auditDigest)

\* A denial that the signature or the authority rules make spends no nonce: every
\* claim was made by a call whose decision allowed at the time it was made.
\* (ARCHITECTURE.md:64)
DenialsSpendNothing ==
  [][\A k \in DOMAIN claims' \ DOMAIN claims :
       \E p \in Proc :
         /\ step[p] = "consume"
         /\ decision[p].allowed
         /\ consumptionKey(task[p].envelope) = k
         /\ verifySignedHumanApproval(task[p].envelope, task[p].trustedKeys)]_vars

\* However the early returns and the order of the trusted keys play together, an
\* action that is allowed was granted to its principal and, when consequential,
\* approved for that very intent; on the signed path by an approver whose own
\* active key signed the approval, until a date.  (SECURITY.md:9-13)
GrantsAreApproved ==
  \A p \in Proc :
    step[p] = "record" /\ decision[p].allowed =>
      LET c == task[p]
      IN  /\ c.request.action \in c.principal.grants
          /\ c.principal.kind = "model" => c.request.action \notin MODEL_HARD_DENY
          /\ c.request.action \in CONSEQUENTIAL =>
               c.approval # None /\ c.approval.requestFingerprint = fingerprintRequest(c.request)
          /\ c.signed => ValidInterval(c.approval)
          /\ c.signed =>
               \E i \in DOMAIN c.trustedKeys :
                 /\ c.trustedKeys[i].approvedBy = c.approval.approvedBy
                 /\ c.trustedKeys[i].status = "active"
                 /\ c.envelope.signature.by = c.trustedKeys[i].key

\* A call that created the claim of a nonce and may still be granted with it.
Holds(p, key) ==
  /\ step[p] # "ready"
  /\ task[p].signed
  /\ consumptionKey(task[p].envelope) = key
  /\ \/ step[p] = "consume" /\ (stage[p] \in {"write", "close"} \/ answer[p].status = "consumed")
     \/ step[p] = "record" /\ decision[p].allowed

\* A nonce that was spent without a grant: its call died, could not write or close
\* the claim, or could not append.
SpentInVain(key) ==
  /\ key \in DOMAIN claims
  /\ \A k \in Grants : NonceOf(files[k].details) # key
  /\ \A p \in Proc : ~ Holds(p, key)

\* A nonce spent in vain stays so: no later call is granted with it, although
\* nothing was ever recorded.
SpentInVainStays ==
  [][\A key \in DOMAIN claims : SpentInVain(key) => SpentInVain(key)']_vars

\* Every call ends, unless its process dies.
CallsEnd == \A p \in Proc : step[p] # "ready" ~> step[p] = "ready"

\* The two directories together implement the single use of nonces: the claims
\* are what is spent, the recorded grants are what a nonce authorized.
Approvals ==
  INSTANCE SingleUse WITH
    Nonces <- {consumptionKey(e) : e \in Envelopes},
    spent  <- DOMAIN claims,
    grants <- {<<NonceOf(files[k].details), k>> : k \in Grants}
ImplementsSingleUse == Approvals!Spec

-----------------------------------------------------------------------------
(* What documentation says, and the code does not do. *)

\* "A nonce is not consumed for [...] a request that does not match the approval"
\* (ARCHITECTURE.md:64): the claim of a nonce is made by a call for the very
\* request the approval was made for.
NonceSpentOnItsRequest ==
  [][\A k \in DOMAIN claims' \ DOMAIN claims :
       \E p \in Proc :
         /\ step[p] = "consume"
         /\ consumptionKey(task[p].envelope) = k
         /\ decision[p].requestFingerprint = task[p].envelope.approval.requestFingerprint]_vars

\* "records the authorization decision and consumption receipt in audit evidence"
\* (README.md:123, step 5 of authorizeSigned): where nothing crashes and no
\* system call of the ledger fails, the receipt of a nonce that a call consumed is
\* cited by an event once the calls have ended.
ConsumptionsAreRecorded ==
  faults = 0 /\ (\A p \in Proc : step[p] = "ready") =>
    \A r \in won : \E k \in Written :
      files[k].details.consumption # None /\ files[k].details.consumption.receipt = r
=============================================================================
