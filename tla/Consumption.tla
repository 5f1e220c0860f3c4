----------------------------- MODULE Consumption ----------------------------
(***************************************************************************)
(* Consumption keys and receipts (src/src/consumption.ts:15-56) as         *)
(* constant operators.  A SHA-256 is identified with what it hashes: the   *)
(* nonce hash with the nonce, the record hash with the whole receipt.      *)
(***************************************************************************)

\* Mistake: the key is that of the approval rather than that of its nonce.
consumptionKey_Mutant(signed) ==
  [approvedBy   |-> signed.approval.approvedBy,
   signingKeyId |-> signed.keyId,
   nonceHash    |-> signed.approval.approvalId]

consumptionKey(signed) ==
  [approvedBy   |-> signed.approval.approvedBy,
   signingKeyId |-> signed.keyId,
   nonceHash    |-> signed.approval.nonce]

createReceipt(id, signed) ==
  [consumptionId      |-> id,
   approvalId         |-> signed.approval.approvalId,
   key                |-> consumptionKey(signed),
   requestFingerprint |-> signed.approval.requestFingerprint]
=============================================================================
