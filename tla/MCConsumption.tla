--------------------------- MODULE MCConsumption ----------------------------
(***************************************************************************)
(* Instances of DirectoryConsumption for TLC.                              *)
(***************************************************************************)
EXTENDS ConsumptionProperties

CONSTANTS alice, k1, n1, n2, a1, a2

Signed(id, keyId, nonce) ==
  [approval |-> [approvalId |-> id, approvedBy |-> alice, nonce |-> nonce,
                 requestFingerprint |-> id],
   keyId    |-> keyId]

\* Two approvals of one nonce, and one of another nonce.
MCSignedApprovals == {Signed(a1, k1, n1), Signed(a2, k1, n1), Signed(a1, k1, n2)}
=============================================================================
