----------------------- MODULE ConsumptionProperties ------------------------
(***************************************************************************)
(* What DirectoryConsumption is to guarantee.                              *)
(***************************************************************************)
EXTENDS DirectoryConsumption

\* Every variable has its type.
TypeOK ==
  /\ claims \in [DOMAIN claims -> Receipts \cup {Torn}]
  /\ DOMAIN claims \subseteq Keys
  /\ stage \in [Proc -> {"idle", "create", "write", "close", "inspect"}]
  /\ presented \in [Proc -> Receipts \cup {Torn}]
  /\ \A p \in Proc : stage[p] # "idle" => presented[p] \in Receipts /\ answer[p] = Pending
  /\ \A p \in Proc : stage[p] = "inspect" => Key(p) \in DOMAIN claims
  /\ answer \in [Proc -> Answers]
  /\ consumes \in [Proc -> 0 .. MaxConsumes]
  /\ won \subseteq Receipts

\* "Two processes sharing the same directory cannot both claim the same nonce"
\* (consumption.ts:80), whatever they race, crash and fail at: all that were
\* ever told their approval is consumed hold different keys, and the directory
\* keeps each one's receipt.
ConsumedOnce ==
  /\ \A r \in won : r.key \in DOMAIN claims /\ claims[r.key] = r
  /\ \A r, s \in won : r.key = s.key => r = s

\* A replay is reported with the receipt the directory holds for the nonce, never
\* with the reporting call's own; that receipt's call is the only one that can have
\* been told its approval is consumed, unless it threw or died after it had written
\* the claim, and then none ever is.
ReplaysNameTheClaim ==
  \A p \in Proc :
    answer[p].status = "replayed" =>
      LET receipt == answer[p].receipt
      IN /\ receipt.key \in DOMAIN claims
         /\ claims[receipt.key] = receipt
         /\ receipt.consumptionId # <<p, consumes[p]>>
         /\ \A r \in won : r.key = receipt.key => r = receipt

\* No step removes a claim or changes a receipt: what was consumed stays so.
ClaimsArePermanent ==
  [][\A k \in DOMAIN claims :
       /\ k \in DOMAIN claims'
       /\ claims[k] # Torn => claims'[k] = claims[k]]_vars

\* A claim is abandoned when its writer died, or failed to write it.
Abandoned(k) == claims[k] = Torn /\ \A p \in Proc : ~ (stage[p] = "write" /\ Key(p) = k)

\* An abandoned claim fails closed for ever: every call that presents its key
\* throws, none consumes, and none can even report a replay.
AbandonedClaimFailsClosed ==
  [][\A k \in DOMAIN claims :
       Abandoned(k) =>
         /\ claims'[k] = Torn
         /\ \A p \in Proc :
              stage[p] # "idle" /\ Key(p) = k => answer'[p].status \in {"pending", "threw"}]_vars

\* Every call of consume ends.
ConsumesEnd == \A p \in Proc : stage[p] # "idle" ~> stage[p] = "idle"

\* The directory store implements the atomic in-memory store.
Completed == [k \in {k \in DOMAIN claims : claims[k] # Torn} |-> claims[k]]
Atomic == INSTANCE ApprovalConsumption WITH receipts <- Completed
ImplementsApprovalConsumption == Atomic!Spec

-----------------------------------------------------------------------------
(* The inductive invariant. *)

\* The writer of a claim is the only one of its key, and finds it as it left it.
Writer(p) ==
  stage[p] = "write" =>
    /\ Key(p) \in DOMAIN claims
    /\ claims[Key(p)] = Torn
    /\ \A q \in Proc : stage[q] = "write" /\ Key(q) = Key(p) => q = p

\* What consume returns when the close succeeds is the receipt that is in the file.
Filled(p) == stage[p] = "close" => Key(p) \in DOMAIN claims /\ claims[Key(p)] = presented[p]

\* The receipt r was written by an earlier call than the one p runs or ran last.
IsNot(r, p) == r.consumptionId # <<p, consumes[p]>>

\* The id a call draws is on no complete claim until the call writes it.
FreshId(p) ==
  /\ stage[p] # "idle" => presented[p].consumptionId = <<p, consumes[p]>>
  /\ stage[p] \in {"create", "write", "inspect"} =>
       \A k \in DOMAIN claims : claims[k] # Torn => IsNot(claims[k], p)

\* A complete claim is filed under its key and carries the id of a call that was
\* made.
ClaimsOfCalls ==
  \A k \in DOMAIN claims : claims[k] # Torn =>
    /\ claims[k].key = k
    /\ claims[k].consumptionId[2] <= consumes[claims[k].consumptionId[1]]

\* What a call consumed, or reported as a replay, is a complete claim.
Claimed(r) == r.key \in DOMAIN claims /\ claims[r.key] = r

CInv ==
  /\ TypeOK
  /\ ClaimsOfCalls
  /\ \A r \in won : Claimed(r)
  /\ \A p \in Proc : Writer(p) /\ Filled(p) /\ FreshId(p)
  /\ \A p \in Proc : answer[p].status = "replayed" =>
       Claimed(answer[p].receipt) /\ IsNot(answer[p].receipt, p)
=============================================================================
