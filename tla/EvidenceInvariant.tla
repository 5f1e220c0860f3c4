-------------------------- MODULE EvidenceInvariant -------------------------
(***************************************************************************)
(* What ResultsAreEvidenced of DurableHarness needs besides HInv: the hash *)
(* chain in the ledger's directory, and what a call knows of it between    *)
(* two system calls.  EvidenceProofs proves it.                            *)
(***************************************************************************)
EXTENDS HarnessInvariant

LedgerTypes ==
  /\ calls \in [Proc -> 0 .. MaxCalls]
  /\ Proc = DOMAIN opened /\ Proc = DOMAIN out /\ Proc = DOMAIN result

\* The recorded events are numbered without a gap, and the hash of each extends
\* the hashes of those before it.
Chained ==
  /\ IsFiniteSet(DOMAIN files)
  /\ \A k \in Written :
       /\ files[k] \in Ledger!Events
       /\ files[k].sequence = k
       /\ 1 .. k \subseteq Written
       /\ \A j \in 1 .. k : IsPrefix(files[j].eventHash, files[k].eventHash)

\* An event that was built follows the recorded ones below its number.
DraftExtends(p) ==
  pc[p] \in {"create", "write"} =>
    /\ draft[p] \in Ledger!Events
    /\ 1 .. draft[p].sequence - 1 \subseteq Written
    /\ \A j \in 1 .. draft[p].sequence - 1 :
         IsPrefix(files[j].eventHash, draft[p].eventHash)

\* What append returns when the close succeeds is the event that is in the file.
DraftFilled(p) ==
  pc[p] = "close" => draft[p].sequence \in Written /\ files[draft[p].sequence] = draft[p]

\* The event of this number and hash is recorded, by p, with this decision.
Evidenced(p, sequence, hash, d) ==
  /\ sequence \in Written
  /\ files[sequence].eventHash = hash
  /\ files[sequence].id[1] = p
  /\ files[sequence].details.allowed = d.allowed
  /\ files[sequence].details.requestFingerprint = d.requestFingerprint

\* A call that is past its fingerprint has drawn the id of its event.
Numbered(p) == step[p] \in {"record", "digest"} => calls[p] > 0

\* What append returned is evidence of the decision.
AppendEvidenced(p) ==
  step[p] = "record" /\ pc[p] = "idle" /\ out[p].ok =>
    Evidenced(p, out[p].sequence, out[p].hash, decision[p])

\* So is the receipt that is kept while digest runs; digest has seen its event,
\* and the hash it returned extends the receipt's.
DigestEvidenced(p) ==
  step[p] = "digest" =>
    LET receipt == result[p].receipt
    IN  /\ Evidenced(p, receipt.sequence, receipt.eventHash, decision[p])
        /\ pc[p] = "read" => receipt.sequence \in opened[p]
        /\ pc[p] = "idle" /\ out[p].ok => IsPrefix(receipt.eventHash, out[p].hash)

\* The result of the last call is evidenced for as long as it is the last.
ResultEvidenced(p) ==
  result[p].status = "returned" =>
    /\ Evidenced(p, result[p].receipt.sequence, result[p].receipt.eventHash, result[p].decision)
    /\ IsPrefix(result[p].receipt.eventHash, result[p].auditDigest)

\* What a process's locals say of the chain.
Knows(p) ==
  /\ DraftExtends(p)
  /\ DraftFilled(p)
  /\ Numbered(p)
  /\ AppendEvidenced(p)
  /\ DigestEvidenced(p)
  /\ ResultEvidenced(p)

EInv == LedgerTypes /\ Chained /\ \A p \in Proc : Knows(p)
=============================================================================
