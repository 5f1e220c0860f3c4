----------------------------- MODULE AuditChain -----------------------------
(***************************************************************************)
(* The hash chain of src/src/evidence.ts as constant operators: how an     *)
(* event is hashed and chained, when a chain verifies, what a receipt is.  *)
(*                                                                         *)
(* SHA-256 is taken to be collision free, so a hash is identified with the *)
(* data it is computed from.  An event's hash covers the previous event's  *)
(* hash, so unfolding it gives the sequence of all the hashed records up   *)
(* to that event: that sequence is the hash.                               *)
(***************************************************************************)
EXTENDS Naturals, Sequences

\* The previous hash of the first event ("0".repeat(64), which no event hashes to).
GENESIS_HASH == << >>

\* What hashEvent covers besides the previous hash.  The id stands for the
\* fields drawn afresh for each event (id and timestamp), details for the
\* fields the caller supplies (event, outcome and details).
Hashed(event) == [id |-> event.id, sequence |-> event.sequence, details |-> event.details]

hashEvent(event) == Append(event.previousHash, Hashed(event))

buildEvent(id, sequence, previousHash, details) ==
  [id           |-> id,
   sequence     |-> sequence,
   details      |-> details,
   previousHash |-> previousHash,
   eventHash    |-> Append(previousHash, [id |-> id, sequence |-> sequence, details |-> details])]

\* The hash of the last event of a ledger, as digest() returns it.
HeadHash(events) == IF events = << >> THEN GENESIS_HASH ELSE events[Len(events)].eventHash

\* The loop of verifyAuditChain, one conjunct per early return.
verifyAuditChain(events) ==
  \A i \in 1 .. Len(events) :
    /\ events[i].sequence = i
    /\ events[i].previousHash = IF i = 1 THEN GENESIS_HASH ELSE events[i - 1].eventHash
    /\ events[i].eventHash = hashEvent(events[i])

receiptFor(event) ==
  [eventId      |-> event.id,
   sequence     |-> event.sequence,
   eventHash    |-> event.eventHash,
   previousHash |-> event.previousHash]

verifyReceipt(event, receipt) ==
  /\ receiptFor(event) = receipt
  /\ event.eventHash = hashEvent(event)
=============================================================================
