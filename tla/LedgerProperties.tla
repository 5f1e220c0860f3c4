-------------------------- MODULE LedgerProperties --------------------------
(***************************************************************************)
(* What DirectoryLedger is to guarantee.                                   *)
(***************************************************************************)
EXTENDS DirectoryLedger

\* Every variable has its type.
TypeOK ==
  /\ files \in [DOMAIN files -> Events \cup {Torn}]
  /\ DOMAIN files \subseteq Nat \ {0}
  /\ IsFiniteSet(DOMAIN files)
  /\ faults \in 0 .. MaxFaults
  /\ receipts \subseteq Receipts
  /\ pc \in [Proc -> Busy \cup {"down", "idle"}]
  /\ op \in [Proc -> Ops]
  /\ details \in [Proc -> Details]
  /\ attempt \in [Proc -> 0 .. MaxAttempts]
  /\ opened \in [Proc -> SUBSET DOMAIN files]
  /\ draft \in [Proc -> Events \cup {Torn}]
  /\ \A p \in Proc : pc[p] \in {"create", "write", "close"} => draft[p] \in Events
  /\ out \in [Proc -> Results]
  /\ calls \in [Proc -> 0 .. MaxCalls]
  /\ \A p \in Proc : op[p] = "append" => calls[p] # 0
  /\ floor \in [Proc -> Nat]

\* The recorded events, in the order of their file names.
Recorded == [k \in 1 .. Cardinality(Written) |-> files[k]]

\* The directory holds one unbroken chain whatever the writers' interleaving,
\* crashes and failed writes: files are numbered without a gap, only the last
\* can be torn, and the events before it verify.  (evidence.ts:118-120)
ChainIntact ==
  /\ Written = 1 .. Cardinality(Written)
  /\ DOMAIN files \ Written \subseteq {Cardinality(Written) + 1}
  /\ verifyAuditChain(Recorded)

\* No step removes a file or changes a recorded event: a competing writer
\* never overwrites or forks a sequence number it lost.  (ARCHITECTURE.md:74)
AppendOnly ==
  [][\A k \in DOMAIN files :
       /\ k \in DOMAIN files'
       /\ files[k] # Torn => files'[k] = files[k]]_vars

\* A receipt append returned verifies against the event of its sequence
\* number ever after, through crashes and restarts.  (ARCHITECTURE.md:76)
ReceiptsVerify ==
  \A r \in receipts : r.sequence \in Written /\ verifyReceipt(files[r.sequence], r)

\* An append that lost races and retried records its event at most once.
RecordedOnce ==
  \A j, k \in Written : files[j].id = files[k].id => j = k

\* An append that throws recorded nothing, whether it lost its last attempt,
\* found a file that does not parse, or met another error: unless what fails is
\* the close of the file its event is already in, its caller may call it again
\* without recording the event twice.  (evidence.ts:150-172)
RefusedAppendRecordsNothing ==
  [][\A p \in Proc :
       op[p] = "append" /\ pc[p] \in Busy \ {"close"} /\ pc'[p] = "idle" /\ ~ out'[p].ok
         => \A k \in Written' : files'[k].id # <<p, calls[p]>>]_vars

\* A call sees every event recorded before it began: what list and digest
\* return is never stale, and an event is numbered after all the events whose
\* append returned earlier.
CallsSeeThePast ==
  \A p \in Proc :
    out[p].ok => out[p].sequence >= floor[p] + (IF op[p] = "append" THEN 1 ELSE 0)

\* What a call returns is the ledger's own prefix of the length it names.
AnswersAreThePrefix ==
  \A p \in Proc :
    out[p].ok => out[p].hash = HeadHash(SubSeq(Recorded, 1, out[p].sequence))

\* A writer loses an attempt only to another writer: an append that exhausts
\* its attempts was overtaken by that many other events since its call began.
LostAttemptsAreOthersEvents ==
  \A p \in Proc : attempt[p] > 0 => Cardinality(DOMAIN files) >= floor[p] + attempt[p]

\* A file is abandoned when its writer died, or failed to write it.
Abandoned(k) ==
  files[k] = Torn /\ \A p \in Proc : ~ (pc[p] = "write" /\ draft[p].sequence = k)

\* One abandoned file is the end of the ledger: it records nothing more, and no
\* call succeeds except one that had read the directory, or at least opened it,
\* before the file was there.
\* (evidence.ts:137-147: every method first reads every file)
AbandonedFileEndsTheLedger ==
  [][\A k \in DOMAIN files :
       Abandoned(k) =>
         /\ files' = files
         /\ \A p \in Proc : out'[p].ok => out[p].ok \/ k \notin opened[p]]_vars

\* A bound of the system calls that the call of p still makes: five for each
\* attempt it has left.
StepsLeft(p) ==
  IF pc[p] \in Busy
  THEN 5 * (MaxAttempts - attempt[p])
         - [scan |-> 0, read |-> 1, create |-> 2, write |-> 3, close |-> 4][pc[p]]
  ELSE 0

Locals(p) == <<pc[p], op[p], details[p], attempt[p], opened[p], draft[p], out[p], calls[p], floor[p]>>

\* Either the step is one of p's call and brings it nearer to its end, or it does
\* not touch p.
Nearer(p) ==
  /\ StepsLeft(p) \in 1 .. 5 * MaxAttempts
  /\ StepsLeft(p)' < StepsLeft(p) \/ Locals(p)' = Locals(p)

\* Whatever other writers win meanwhile, no call makes more than 5 * MaxAttempts
\* steps: the retries of append end, whoever races it.  (evidence.ts:150-172)
CallsAreBounded == [][\A p \in Proc : pc[p] \in Busy => Nearer(p)]_vars

\* Every call ends, however its races turn out, unless its process dies.
CallsEnd == \A p \in Proc : pc[p] \in Busy ~> pc[p] \notin Busy

\* The directory ledger implements the atomic in-memory log.
Log == INSTANCE AuditLog WITH log <- Recorded
ImplementsAuditLog == Log!Spec

-----------------------------------------------------------------------------
(* What the documents say and the code does not do. *)

\* "A competing writer that wins the sequence causes the loser to reload and
\* retry" (ARCHITECTURE.md:74): without faults an append fails only for want of
\* attempts.
LosersRetry ==
  \A p \in Proc :
    op[p] = "append" /\ pc[p] = "idle" /\ ~ out[p].ok => attempt[p] = MaxAttempts

\* "The ledger therefore survives process restart" (ARCHITECTURE.md:76): the
\* constructor opens what an earlier process left.
RestartReopens ==
  \A p \in Proc : ~ (op[p] = "open" /\ pc[p] = "down" /\ out[p].op = "open")
=============================================================================
