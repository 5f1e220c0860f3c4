----------------------------- MODULE MCHarness ------------------------------
(***************************************************************************)
(* Instances of DurableHarness for TLC: the calls the runs make.           *)
(***************************************************************************)
EXTENDS HarnessProperties, TLC

CONSTANTS alice, bob, k1, key1, a1, a2, n1, n2, svc, bot, t1, i1, i2

\* Principals and requests.
Service == [id |-> svc, kind |-> "service", grants |-> {"execute", "recommend"}]
Model == [id |-> bot, kind |-> "model", grants |-> {"recommend", "grant_authority"}]

Request(action, intent) == [action |-> action, target |-> t1, intent |-> intent]
Deploy == Request("execute", i1)

Escalate == Request("grant_authority", i1)

\* Approvals by alice, with expiry 2, signed under a key id.  The ids of approvals
\* and keys stand for ones createHumanApproval and signHumanApproval accept.
Options(id, nonce, request) ==
  [approvalId |-> id, approvedBy |-> alice, request |-> request, nonce |-> nonce,
   issuedAt |-> 0, expiresAt |-> 2]
Approval(id, nonce, request) == createHumanApproval(Options(id, nonce, request))
Envelope(id, nonce) == signHumanApproval(Approval(id, nonce, Deploy), k1, key1)

\* Neither function throws.
ASSUME ApprovalsExist ==
  \A id \in {a1, a2}, nonce \in {n1, n2}, request \in {Deploy, Escalate} :
    Approvable(Options(id, nonce, request)) /\ Signable(Approval(id, nonce, request))

TrustedKey(approver, status) ==
  [keyId |-> k1, approvedBy |-> approver, algorithm |-> "Ed25519", key |-> key1, status |-> status]
Trusted == <<TrustedKey(bob, "revoked"), TrustedKey(alice, "active")>>

SignedCall(principal, request, envelope, keys) ==
  [signed |-> TRUE, principal |-> principal, request |-> request,
   approval |-> envelope.approval, envelope |-> envelope, trustedKeys |-> keys]
UnsignedCall(principal, request, approval) ==
  [signed |-> FALSE, principal |-> principal, request |-> request, approval |-> approval]

\* The approved deployment; an approval of the same under another nonce, and one
\* that uses the nonce again.
DeployCall == SignedCall(Service, Deploy, Envelope(a1, n1), Trusted)
SecondCall == SignedCall(Service, Deploy, Envelope(a2, n2), Trusted)
SameNonceCall == SignedCall(Service, Deploy, Envelope(a2, n1), Trusted)

\* The deployment's approval presented with a request that needs none.
OtherActionCall == SignedCall(Service, Request("recommend", i1), Envelope(a1, n1), Trusted)

RaceCalls == {DeployCall}

\* An approval built by other means than createHumanApproval, which checks dates.
Dateless == [Approval(a1, n1, Deploy) EXCEPT !.expiresAt = Unparsable]

\* Every kind of call: granted, of another intent, under a revoked key, under a
\* key that is another approver's, by a principal without the grant, of an intent
\* that cannot be encoded; unsigned with and without approval, and a model that
\* asks for authority with an approval of it; on an approval whose expiry is not a
\* date, signed and unsigned.
EveryCall ==
  {DeployCall,
   SecondCall,
   SameNonceCall,
   OtherActionCall,
   SignedCall(Service, Request("execute", i2), Envelope(a1, n1), Trusted),
   SignedCall(Service, Deploy, Envelope(a1, n1), <<TrustedKey(alice, "revoked")>>),
   SignedCall(Service, Deploy, Envelope(a1, n1), <<TrustedKey(bob, "active")>>),
   SignedCall(Model, Deploy, Envelope(a1, n1), Trusted),
   SignedCall(Service, Request("execute", Ambiguous), Envelope(a1, n1), Trusted),
   UnsignedCall(Service, Deploy, Approval(a1, n1, Deploy)),
   UnsignedCall(Service, Deploy, None),
   UnsignedCall(Service, Request("recommend", i1), None),
   UnsignedCall(Model, Escalate, Approval(a1, n1, Escalate)),
   SignedCall(Service, Deploy, signHumanApproval(Dateless, k1, key1), Trusted),
   UnsignedCall(Service, Deploy, Dateless)}

MismatchedCalls == {OtherActionCall}

\* Bound of the race: three authorizations, so that after two that race one of the
\* processes, restarted or not, presents the approval again.
ThreeConsumes == \E p \in Proc : consumes[p] <= 1

Symmetry == Permutations(Proc)
=============================================================================
