-------------------------- MODULE LedgerInvariant ---------------------------
(***************************************************************************)
(* The inductive invariant of DirectoryLedger: what must hold between any  *)
(* two system calls for the properties of LedgerProperties to survive the  *)
(* next one.  LedgerProofs proves it.                                      *)
(***************************************************************************)
EXTENDS LedgerProperties

\* The recorded event a draft with sequence number n is chained to.
LinkOf(n) == IF n = 1 THEN GENESIS_HASH ELSE files[n - 1].eventHash

\* files holds the events 1 .. n, each numbered and chained, and perhaps a torn
\* file after them.
ChainTo(n) ==
  /\ Written = 1 .. n
  /\ DOMAIN files \subseteq 1 .. n + 1
  /\ \A k \in 1 .. n :
       /\ files[k].sequence = k
       /\ files[k].previousHash = LinkOf(k)
       /\ files[k].eventHash = hashEvent(files[k])

Chained == ChainTo(Cardinality(Written))

\* What append built is the successor of a recorded event, under the call's own id;
\* the listing it was built from is forgotten.
DraftFollows(p) ==
  pc[p] \in {"create", "write", "close"} =>
    /\ op[p] = "append"
    /\ opened[p] = {}
    /\ draft[p].id = <<p, calls[p]>>
    /\ draft[p].sequence - 1 \in Written \cup {0}
    /\ draft[p].previousHash = LinkOf(draft[p].sequence)
    /\ draft[p].eventHash = hashEvent(draft[p])
    /\ draft[p].sequence > floor[p] + attempt[p]

\* A process that created a file is the only one that will write it, and no
\* other process has created one.
Writer(p) ==
  pc[p] = "write" =>
    /\ draft[p].sequence \in DOMAIN files \ Written
    /\ \A q \in Proc : pc[q] = "write" => q = p

\* The id of a running append is on no recorded event until it has written it.
Unrecorded(p) ==
  op[p] = "append" /\ pc[p] \in Busy \ {"close"}
    => \A k \in Written : files[k].id # <<p, calls[p]>>

\* What append returns when the close succeeds is the event that is in the file.
Filled(p) ==
  pc[p] = "close" => draft[p].sequence \in Written /\ files[draft[p].sequence] = draft[p]

\* Recorded ids are those of calls that were made, each on one event.
IdsOfCalls ==
  /\ \A k \in Written : files[k].id[2] <= calls[files[k].id[1]]
  /\ RecordedOnce

\* The events of the past, and one more for each lost attempt, are in the
\* directory, and in what the process saw when it opened it.
SawThePast(p) ==
  /\ 1 .. floor[p] + attempt[p] \subseteq DOMAIN files
  /\ 1 .. floor[p] \subseteq Written
  /\ pc[p] = "read" => 1 .. floor[p] + attempt[p] \subseteq opened[p]

\* A returned answer names a recorded prefix at least as long as the past.
Answered(p) ==
  out[p].ok =>
    /\ out[p].op = op[p]
    /\ out[p].sequence \in Written \cup {0}
    /\ out[p].hash = LinkOf(out[p].sequence + 1)
    /\ out[p].sequence >= floor[p] + (IF op[p] = "append" THEN 1 ELSE 0)

\* The loop of append is left before its variable reaches the bound.
AttemptsLeft == \A p \in Proc : pc[p] \in Busy => attempt[p] < MaxAttempts

\* The conjunction is inductive: a draft is chained to a recorded event, so the
\* file that is created is the next one and writing it extends the chain; a
\* process that sees less than the past would answer or number below it.
IInv ==
  /\ TypeOK
  /\ Chained
  /\ IdsOfCalls
  /\ ReceiptsVerify
  /\ \A p \in Proc : DraftFollows(p) /\ Writer(p) /\ Filled(p)
  /\ \A p \in Proc : Unrecorded(p) /\ SawThePast(p) /\ Answered(p)
=============================================================================
