------------------------ MODULE ApprovalConsumption -------------------------
(***************************************************************************)
(* What every ApprovalConsumptionStore promises (src/src/consumption.ts),  *)
(* stated by the InMemoryApprovalConsumptionStore: consume is atomic, and  *)
(* the first to present a key keeps it.                                    *)
(***************************************************************************)
EXTENDS Consumption

CONSTANTS ConsumptionIds,  \* the values randomUUID() draws from
          SignedApprovals  \* what is presented to the store

VARIABLE receipts  \* #receipts: consumption key |-> receipt

Init == receipts = << >>

\* consume: a key that is there stays as it is (a replay), a new one is added.
consume(id, signed) ==
  LET key == consumptionKey(signed)
  IN  /\ key \notin DOMAIN receipts
      /\ receipts' = [k \in DOMAIN receipts \cup {key} |->
                        IF k = key THEN createReceipt(id, signed) ELSE receipts[k]]

Next == \E id \in ConsumptionIds, signed \in SignedApprovals : consume(id, signed)

Spec == Init /\ [][Next]_receipts
=============================================================================
