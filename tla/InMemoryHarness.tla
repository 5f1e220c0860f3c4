--------------------------- MODULE InMemoryHarness --------------------------
(***************************************************************************)
(* A GovernanceHarness with its own in-memory ledger and consumption store *)
(* (src/src/harness.ts:64-198), as one process sees it: a call runs from   *)
(* its beginning to its end without another in between, so it is a         *)
(* function from the harness and the arguments to the new harness and the  *)
(* result.                                                                 *)
(***************************************************************************)
EXTENDS HarnessRules, AuditChain

NewHarness == [log |-> << >>, receipts |-> << >>]

\* The first to present a key keeps it.
consume(harness, id, signed) ==
  LET key == consumptionKey(signed)
  IN  IF key \in DOMAIN harness.receipts
      THEN [status |-> "replayed", receipt |-> harness.receipts[key]]
      ELSE [status |-> "consumed", receipt |-> createReceipt(id, signed)]

\* Mistake: the consumption is looked up, and not kept.
Spend_Mutant(harness, consumption) == harness.receipts

Spend(harness, consumption) ==
  IF consumption = None THEN harness.receipts
  ELSE [key \in DOMAIN harness.receipts \cup {consumption.receipt.key} |->
          IF key \in DOMAIN harness.receipts THEN harness.receipts[key] ELSE consumption.receipt]

\* authorize and authorizeSigned, with the id their event and receipt draw.
authorize(harness, id, c, now) ==
  LET first == FirstDecision(c, now)
      consumption == IF c.signed /\ first.allowed THEN consume(harness, id, c.envelope) ELSE None
      replayed == consumption # None /\ consumption.status = "replayed"
      decision == IF replayed THEN AlreadyConsumed(c) ELSE first
      event == buildEvent(id, Len(harness.log) + 1, HeadHash(harness.log),
                          Evidence(c, decision, consumption))
  IN  [harness     |-> [log      |-> Append(harness.log, event),
                        receipts |-> Spend(harness, consumption)],
       decision    |-> decision,
       consumption |-> consumption,
       receipt     |-> receiptFor(event),
       auditDigest |-> event.eventHash]
=============================================================================
