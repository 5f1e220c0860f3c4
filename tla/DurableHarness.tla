--------------------------- MODULE DurableHarness ---------------------------
(***************************************************************************)
(* GovernanceHarness.authorize and authorizeSigned (src/src/harness.ts:    *)
(* 62-201) in processes that share a DirectoryAuditLedger and a            *)
(* DirectoryApprovalConsumptionStore.                                      *)
(*                                                                         *)
(* A call is synchronous code of one process, made of the system calls of  *)
(* the store and of the ledger, which interleave with those of the other   *)
(* processes: decide, consume the nonce, append the event, read the digest.*)
(* The two directories are independent: nothing undoes a claim when the    *)
(* append that should follow it fails.                                     *)
(***************************************************************************)
EXTENDS HarnessRules, FiniteSets

CONSTANTS
  Proc,         \* the processes
  Calls,        \* the arguments of the calls they make
  Times,        \* what Date.now() may answer; it is a wall clock and may go back
  Torn,         \* the contents of a file that is created but not completely written
  MaxAttempts,  \* attempts of one append (16 in the code)
  MaxCalls,     \* bound: ledger calls per process, two for each authorization
  MaxFaults,    \* bound: crashes and failures of the ledger, all processes together
  MaxConsumes   \* bound: calls of consume per process

VARIABLES
  files, pc, op, details, attempt, opened, draft, out, calls, faults, receipts, floor,
  claims, stage, presented, answer, consumes, won,
  step,      \* where each process is in authorize: ready, consume, record or digest
  task,      \* the arguments of its call
  decision,  \* the decision so far
  result     \* what its last call returned or that it threw

ledger == <<files, pc, op, details, attempt, opened, draft, out, calls, faults, receipts, floor>>
store == <<claims, stage, presented, answer, consumes, won>>
harness == <<step, task, decision, result>>
vars == <<ledger, store, harness>>

-----------------------------------------------------------------------------
(* What may be decided and recorded. *)

Envelopes == {c.envelope : c \in {c \in Calls : c.signed}}

\* What consume may have returned by the time the event is recorded.
StoreAnswers ==
  {[status |-> s, receipt |-> createReceipt(id, e)] :
     s \in {"consumed", "replayed"}, id \in Proc \X (1 .. MaxConsumes), e \in Envelopes}

Consumptions == {None} \cup StoreAnswers

Decisions(c) ==
  {FirstDecision(c, now) : now \in Times} \cup
  {denied(r, TRUE, c.request) : r \in {"store failed closed", "already consumed"}}

EventDetails ==
  UNION {{Evidence(c, d, x) : d \in Decisions(c), x \in Consumptions} :
           c \in {c \in Calls : Fingerprintable(c.request)}}

Ledger == INSTANCE DirectoryLedger WITH Details <- EventDetails
Store == INSTANCE DirectoryConsumption WITH SignedApprovals <- Envelopes

\* authorizeSigned takes the approval from the envelope.
ASSUME CallsAssumption ==
  \A c \in Calls :
    /\ c.signed \in BOOLEAN
    /\ c.signed => c.approval = c.envelope.approval /\ c.approval # None

\* What marks a missing field or a torn file is not data, and the bounds are numbers.
ASSUME HarnessAssumption ==
  /\ None \notin StoreAnswers
  /\ Torn \notin Store!Receipts
  /\ Torn \notin Ledger!Events
  /\ MaxConsumes \in Nat
  /\ MaxCalls \in Nat
  /\ MaxFaults \in Nat
  /\ MaxAttempts \in Nat \ {0}

\* Some call gets past its fingerprint, so that there is something to record.
ASSUME RecordableAssumption == \E c \in Calls : Fingerprintable(c.request)

-----------------------------------------------------------------------------
NoTask == [signed |-> FALSE]
NoDecision == [allowed |-> FALSE]
NoResult == [status |-> "none"]
Thrown == [status |-> "threw"]

Init ==
  /\ Ledger!Init
  /\ Store!Init
  /\ step = [p \in Proc |-> "ready"]
  /\ task = [p \in Proc |-> NoTask]
  /\ decision = [p \in Proc |-> NoDecision]
  /\ result = [p \in Proc |-> NoResult]

\* The process can call, within the bounds of the run.
Ready(p) ==
  /\ step[p] = "ready"
  /\ pc[p] = "idle"
  /\ calls[p] + 2 <= MaxCalls
  /\ consumes[p] < MaxConsumes

\* The call ends.
Finish(p, r) ==
  /\ step' = [step EXCEPT ![p] = "ready"]
  /\ task' = [task EXCEPT ![p] = NoTask]
  /\ decision' = [decision EXCEPT ![p] = NoDecision]
  /\ result' = [result EXCEPT ![p] = r]

\* #recordAuthorization calls append.
Record(p, c, d, consumption) ==
  /\ Ledger!Begin(p, "append", Evidence(c, d, consumption))
  /\ step' = [step EXCEPT ![p] = "record"]
  /\ task' = [task EXCEPT ![p] = c]
  /\ decision' = [decision EXCEPT ![p] = d]
  /\ result' = [result EXCEPT ![p] = NoResult]

\* fingerprintRequest throws, and with it the call: nothing is recorded.
AuthorizeThrows(p, c) ==
  /\ Ready(p)
  /\ ~ Fingerprintable(c.request)
  /\ Finish(p, Thrown)
  /\ UNCHANGED <<ledger, store>>

\* Mistake: the nonce is consumed before authority is evaluated.
AuthorizeSigned_Mutant(p, c) ==
  /\ Ready(p)
  /\ Fingerprintable(c.request)
  /\ \E now \in Times :
       LET d == FirstDecision(c, now)
       IN  /\ c.signed
           /\ Store!Consume(p, c.envelope)
           /\ step' = [step EXCEPT ![p] = "consume"]
           /\ task' = [task EXCEPT ![p] = c]
           /\ decision' = [decision EXCEPT ![p] = d]
           /\ result' = [result EXCEPT ![p] = NoResult]
  /\ UNCHANGED ledger

\* authorizeSigned with a decision that allows goes on to consume the nonce.
AuthorizeSigned(p, c) ==
  /\ Ready(p)
  /\ Fingerprintable(c.request)
  /\ \E now \in Times :
       LET d == FirstDecision(c, now)
       IN  /\ c.signed
           /\ d.allowed
           /\ Store!Consume(p, c.envelope)
           /\ step' = [step EXCEPT ![p] = "consume"]
           /\ task' = [task EXCEPT ![p] = c]
           /\ decision' = [decision EXCEPT ![p] = d]
           /\ result' = [result EXCEPT ![p] = NoResult]
  /\ UNCHANGED ledger

\* authorize, and authorizeSigned with a decision that denies, record it.
AuthorizeUnconsumed(p, c) ==
  /\ Ready(p)
  /\ Fingerprintable(c.request)
  /\ \E now \in Times :
       LET d == FirstDecision(c, now)
       IN  ~ (c.signed /\ d.allowed) /\ Record(p, c, d, None)
  /\ UNCHANGED store

\* Mistake: a store that throws is taken to have consumed.
Consumed_Mutant(p) ==
  /\ step[p] = "consume"
  /\ stage[p] = "idle"
  /\ IF answer[p].status = "replayed"
     THEN Record(p, task[p], AlreadyConsumed(task[p]), answer[p])
     ELSE Record(p, task[p], decision[p], None)
  /\ UNCHANGED store

\* Mistake: the answer of consume is not awaited.
ConsumedUnawaited_Mutant(p) ==
  /\ step[p] = "consume"
  /\ Record(p, task[p], decision[p], None)
  /\ UNCHANGED store

\* consume returned or threw: the final decision is recorded.
Consumed(p) ==
  /\ step[p] = "consume"
  /\ stage[p] = "idle"
  /\ \/ /\ answer[p].status = "threw"
        /\ Record(p, task[p], denied("store failed closed", TRUE, task[p].request), None)
     \/ /\ answer[p].status = "replayed"
        /\ Record(p, task[p], AlreadyConsumed(task[p]), answer[p])
     \/ /\ answer[p].status = "consumed"
        /\ Record(p, task[p], decision[p], answer[p])
  /\ UNCHANGED store

\* append returned: its receipt is kept and digest is called.
Appended(p) ==
  /\ step[p] = "record"
  /\ pc[p] = "idle"
  /\ out[p].ok
  /\ Ledger!Begin(p, "digest", details[p])
  /\ step' = [step EXCEPT ![p] = "digest"]
  /\ result' = [result EXCEPT ![p] =
                  [status |-> "none",
                   receipt |-> [sequence |-> out[p].sequence, eventHash |-> out[p].hash]]]
  /\ UNCHANGED <<store, task, decision>>

\* digest returned: so does the call.
Digested(p) ==
  /\ step[p] = "digest"
  /\ pc[p] = "idle"
  /\ out[p].ok
  /\ Finish(p, [status      |-> "returned",
                decision    |-> decision[p],
                receipt     |-> result[p].receipt,
                auditDigest |-> out[p].hash])
  /\ UNCHANGED <<ledger, store>>

\* append or digest threw: so does the call, whatever was consumed or recorded.
LedgerThrew(p) ==
  /\ step[p] \in {"record", "digest"}
  /\ pc[p] = "idle"
  /\ ~ out[p].ok
  /\ Finish(p, Thrown)
  /\ UNCHANGED <<ledger, store>>

-----------------------------------------------------------------------------
(* Faults. *)

\* The process dies, with what it had in memory.
Crash(p) ==
  /\ Ledger!Crash(p)
  /\ IF stage[p] = "idle" THEN UNCHANGED store ELSE Store!Crash(p)
  /\ Finish(p, NoResult)

\* It is started again and constructs its store, its ledger and its harness.
Restart(p) == Ledger!Restart(p) /\ UNCHANGED <<store, harness>>

\* A system call of the store, or of the ledger, fails.
StorageFails(p) ==
  \/ Store!StoreFails(p) /\ UNCHANGED <<ledger, harness>>
  \/ Ledger!StorageFails(p) /\ UNCHANGED <<store, harness>>

-----------------------------------------------------------------------------
\* What a running call does by itself.
Progress(p) ==
  \/ Store!Progress(p) /\ UNCHANGED <<ledger, harness>>
  \/ Ledger!Progress(p) /\ UNCHANGED <<store, harness>>
  \/ Consumed(p)
  \/ Appended(p)
  \/ Digested(p)
  \/ LedgerThrew(p)

Authorize(p) ==
  \E c \in Calls : AuthorizeThrows(p, c) \/ AuthorizeSigned(p, c) \/ AuthorizeUnconsumed(p, c)

Next == \E p \in Proc : Authorize(p) \/ Progress(p) \/ Crash(p) \/ Restart(p) \/ StorageFails(p)

Spec == Init /\ [][Next]_vars

\* A call is synchronous code: it runs on unless its process dies.
FairSpec == Spec /\ \A p \in Proc : WF_vars(Progress(p))
=============================================================================
