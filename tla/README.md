# Verification of the AMAN Governance Harness

TLA+ models of the harness in `src/src/`, checked with TLC on small instances. Every safety property that a passing run
checks is also proved with TLAPS for every value of the constants: any number of processes, calls, retries, faults,
providers, bodies and regressions. Liveness is model-checked.

## 1. The system

### Components

| Component | State | Operations | Correct when |
| --- | --- | --- | --- |
| Audit chain (`evidence.ts` 7-89) | none | `buildEvent`, `hashEvent`, `verifyAuditChain`, `receiptFor`, `verifyReceipt` | a chain verifies exactly when it is numbered and linked from genesis |
| `InMemoryAuditLedger` | `#events` | `append`, `list`, `verify`, `digest` | one chain that grows at its end |
| `DirectoryAuditLedger` | one file per event in a directory that processes share | constructor, `append`, `list`, `verify`, `digest` | the directory is one chain whatever races, crashes and failures; receipts verify for ever; an event is recorded once; answers are current prefixes |
| `InMemoryApprovalConsumptionStore` | `#receipts` | `consume` | the first to present a key keeps it |
| `DirectoryApprovalConsumptionStore` | one file per consumption key in a shared directory | `consume` | nobody consumes a key twice; a replay names the claim that is kept, never its own; what cannot be read fails closed |
| Fingerprints (`integrity.ts`) | none | `canonicalJson`, `fingerprintRequest` | injective on the intent; refuses what it cannot encode in one way |
| Authority (`authority.ts`) | none | `createHumanApproval`, `evaluateAuthority` | consequential actions need a grant and an approval of the very intent; hard denials hold |
| Signatures (`signatures.ts`) | none | `signHumanApproval`, `verifySignedHumanApproval` | valid only under an active key of the approver |
| `GovernanceHarness`, authorization | its ledger and store | `authorize`, `authorizeSigned` | one recorded grant per nonce; denials spend nothing; evidence and store agree; results are evidenced |
| `GovernanceHarness`, studies | none between calls | `runStudy` | a lesson needs two answers and a study that is not validation only; events bracket the providers |
| Preflight (`sanitize.ts`) | none | `sanitizeObjective` | no provider sees a credential |
| OpenAI adapter (`providers/openai.ts`) | options | `reason` | text only, bounded, every failure an error |
| Evaluation matrix, evidence, benchmark | none | `runProviderEvaluationMatrix`, `buildOpenAIEvaluationEvidence`, `runGovernanceBenchmark` | every failed case is reported, passed iff none failed |

### How they interact

`authorizeSigned` verifies the signature, evaluates authority, calls `consume` of the store, calls `append` of the ledger
and then `digest`. All of it is synchronous, so one process never interleaves with itself; the processes that share the
two directories interleave at their system calls. The directories are independent of each other: nothing undoes a claim
when the append that follows it fails.

`runStudy` is the only asynchronous code of the harness: it cleans the objective, appends that the study started, calls
every provider, awaits all of them, appends the outcome and reads the digest. While it waits, other studies and calls
append to the same ledger. One of the providers may be the OpenAI adapter, which sends one request and waits for a status
line and a body under one timer. The evaluation matrix runs four studies and a decision, each with a harness of its own;
the live command turns its report into evidence and an exit code. The benchmark runs fifty scenarios over the same rules.

### What is hard

* `writeFileSync(…, {flag: "wx"})` is an open, a write and a close. After the open the file is there and does not parse,
  and every method of every process reads every file; after the write it is complete, although the close may still fail
  and the caller be told that nothing happened.
* `readdir` is not atomic with respect to files created while it runs.
* A writer that loses a sequence number rebuilds its event and tries again, 16 times at most.
* A process can die between any two system calls, and any of them can fail.
* A nonce is consumed first and recorded later, elsewhere.
* Denials must leave before the nonce is consumed, on every early return.
* Providers answer in any order, fail, or never answer, between the two appends of their study, and the study's options
  may change meanwhile.
* The ledger can throw at the second append, when the providers' answers are already there.
* The adapter's endpoint can go silent before or within the body.
* An objective is cut, then searched, then made longer.
* A count that is written down as a literal must be the number of calls on every path.

The hazards are listed with their lines in `PROJECT.json`.

## 2. The models

| Module | Models | State and actions |
| --- | --- | --- |
| `AuditChain` | `evidence.ts` 7-89 | operators only |
| `AuditLog` | `InMemoryAuditLedger`, the promise of every ledger | `log`; `append` |
| `DirectoryLedger` | `DirectoryAuditLedger` | `files` is the directory, `pc` where a process is in its method, `draft` the event it built; one action per system call: `OpenDir`, `ReadVerified`/`ReadFails`, `CreateFile`/`LoseSequence`/`GiveUp`, `WriteEvent`, `CloseFile`; faults `StorageFails`, `Crash`, `Restart` |
| `LedgerProperties`, `LedgerInvariant`, `LedgerProofs`, `MCLedger` | | properties, inductive invariant, proofs, instances |
| `Consumption` | keys and receipts of `consumption.ts` | operators only |
| `ApprovalConsumption` | `InMemoryApprovalConsumptionStore`, the promise of every store | `receipts`; `consume` |
| `DirectoryConsumption` | `DirectoryApprovalConsumptionStore` | `claims` is the directory, `stage` where a process is in `consume`; `Consume`, `CreateClaim`/`FindClaim`, `WriteClaim`, `CloseClaim`, `ReadClaim`; faults `StoreFails`, `Crash` |
| `ConsumptionProperties`, `ConsumptionProofs`, `MCConsumption` | | properties and invariant, proofs, instances |
| `Authority` | `authority.ts`, `signatures.ts`, `fingerprintRequest` | operators only |
| `HarnessRules` | the first decision of a call, and the event it records | operators only |
| `SingleUse` | what the signed path promises of a nonce | `spent`, `grants`; `Spend`, `Grant` |
| `DurableHarness` | `authorize`, `authorizeSigned`, `#recordAuthorization` in processes | instances of `DirectoryLedger` and `DirectoryConsumption` that share their processes, and `step`, `task`, `decision`, `result` for the method's own locals: `AuthorizeSigned`/`AuthorizeUnconsumed`/`AuthorizeThrows`, `Consumed`, `Appended`, `Digested`, `LedgerThrew` |
| `InMemoryHarness` | the same in one process with in-memory state | a function from harness and arguments to harness and result |
| `HarnessProperties`, `HarnessInvariant`, `HarnessProofs`, `MCHarness` | | properties, inductive invariant, proofs, instances |
| `EvidenceInvariant`, `EvidenceProofs` | | what the harness's results need of the chain, and its proof; the theorems of `LedgerProofs` and `ConsumptionProofs` brought to the harness's own directories |
| `StudyRules` | `sanitizeObjective`, and what `runStudy` makes of answers | operators only |
| `Study` | `runStudy` | `log`, and for each study `phase`, `kept` (what it has across its await: its options as they are, and the flags), `calls` (of providers), `result`; `Reject`/`Start`/`StartThrows`, `Settle`, `Alter` (the caller changes the options object), `Record`/`RecordThrows`, `Return`/`ReturnThrows`, `Crash`, `Other` |
| `StudyProperties`, `StudyInvariant`, `StudyProofs`, `MCStudy` | | properties, inductive invariant, proofs, instances |
| `RuleLemmas` | | lemmas about what `filter` and `Total` return, for every list, and about lists that grow item by item |
| `ReasoningProvider` | what a study relies on in a provider that bounds its waiting | `answer`; `reason`, `refuse`, `settle` |
| `OpenAIProvider` | `OpenAIResponsesProvider` | `http`, `payload`, `reply`, `requests`; `Refuse`/`Send`, `Respond`, `RequestFails`, `ReadBody`, `BodyFails`, `TimesOut` |
| `AdapterStudy` | a study with the adapter and local providers | an instance of `Study` and one of `OpenAIProvider`; `RunStudy`, `SettleLive`, `SettleLocal` |
| `EvaluationMatrix` | `runProviderEvaluationMatrix` | `current`, `results`; `OpenCase`, `CaseStudy`, `Conclude` |
| `LiveEvaluation` | `examples/openai-evaluation.ts`, `buildOpenAIEvaluationEvidence` | `stage`, `model`, `evidence`, `exitCode`; `Configure`, `Conclusion`, and `OwnStudy` of a program that embeds the harness |
| `EvaluationProperties`, `EvaluationInvariant`, `EvaluationProofs`, `MCEvaluation` | | properties, inductive invariant, proofs, instance |
| `Scenarios` | the fifty scenarios of `benchmark.ts`, on the rules above | operators only |
| `Benchmark` | `runGovernanceBenchmark` | `cases`, `regressed`, `results`, `report`; `RunScenario`, `Report` |
| `BenchmarkProperties`, `BenchmarkInvariant`, `BenchmarkProofs` | | properties, inductive invariant, proofs |

A definition that ends in `_Mutant` is a plausible mistake in the definition after it. No specification uses it; each
checked property is also run against such a mistake, which must violate it.

### Abstractions

* **Hashes** are identified with what they hash: no collisions. A hash in the chain is the sequence of all records up to
  its event; a fingerprint is the request; an Ed25519 signature is the pair of key and payload.
* **Files.** A file is absent, torn or written; it is created by the open, filled by the write, and append or consume
  returns after the close. A call that fails, or a process that dies, before the write leaves a torn file, and after it
  a complete one: of an event or a claim whose call threw. A write that fails with only the final newline still to come
  leaves a text that parses; it is one that was written and whose close failed. Data once written is not lost (no model of
  a disk that forgets).
* **Reading a directory.** The code reads the listed files one by one. Files only go from absent to torn to written, and
  a written file never changes (`AppendOnly`, proved), so reading them one by one has the outcome of reading them all at
  some moment. Opening the directory and reading it stay two steps, and the listing may or may not include files created
  in between.
* **Ids** are unique: the call that draws one is its id. An event built again on a retry has the same id in the model,
  a fresh one in the code; that makes `RecordedOnce` a statement about calls.
* **Text.** Identities that are blank, nonces that are too short, dates that do not parse and intents that cannot be
  encoded are marked values (`Blank`, `ShortNonce`, `Unparsable`, `Ambiguous`). Reasons are short names; all reasons of a
  rejected signature are one.
* **Time** is a set of values any of which `Date.now()` may answer: a wall clock, which may go back.
* **Texts** of studies are sequences of pieces with lengths: what the secret expression matches, what the personal
  expression matches, the marker that replaces it, plain text. A piece that the bound of 4000 cuts in two may still match
  or not. Answers of providers are a length, or a failure.
* **Bodies** of the endpoint are what the scan tells apart: object or not, status, error, and items that call a tool, are
  messages with the lengths of their text parts, or are something else.
* **Options** of a study are an object of its caller. `runStudy` reads `validationOnly` and the number of providers again
  after the await; `Altering` are the studies whose callers change them meanwhile, to those of `Altered`. In the other
  studies of the run, and in the evaluation, they are left alone. A change of the list while the providers are being
  called, or of a provider's name, is not modelled.
* **The live provider** is listed once at most in a study of `AdapterStudy` (`LiveOnceAssumption`), as in every study of
  the repository. A study that lists it again would send a request for each place; the model has one request at a time.
* **The ledger of a study** is the abstract log, which `DirectoryLedger` is proved to implement, and may throw at any
  append or digest. A throw of the directory ledger that leaves a torn file is one after which every later call throws
  too, and one of a failing close may leave the event recorded; the runs allow one throw, without an event.
* **Regressions** of the benchmark are scenarios that throw although the rules satisfy them.
* **verify** answers false where `list` and `digest` throw; both are a result that is not ok.
* **Failing system calls.** Any system call of a running method may fail (`StorageFails`, `StoreFails`), the close included: the
  method throws and leaves what it has created, and written. In the ledger these failures count as faults, in the store they are not bounded.

## 3. The runs

| Run | Instance | Question |
| --- | --- | --- |
| `ledger_faults` | 2 processes, 2 calls each, 2 attempts, 2 faults | Is the directory one chain, append-only, an atomic log with answers that are its prefixes, and is what one call leaves behind right for the next: receipts, failures, retries, abandoned files? Does every call end? |
| `consumption_store` | 3 processes, 2 calls each, 3 approvals of 2 nonces, any number of failures and crashes | Is it an atomic first-come store that fails closed, and in which every call ends? |
| `harness_race` | 2 processes, 3 authorizations (constraint `ThreeConsumes`) of the same approval, 1 ledger fault, any number of store failures | Single use of the nonce, evidence that agrees with the store, results that are evidenced? |
| `harness_sequence` | 1 process, 2 of 15 kinds of call, before and after expiry, 1 ledger fault, any number of store failures | Does no denial spend a nonce, no nonce grant twice whatever approval carries it, is nothing allowed that was not approved, and does every call end? |
| `study_race` | 2 studies of 5 kinds, a change of the options of one, another append, 1 throw of the ledger or death | Is the evidence of each study right and ordered, do its providers see clean text, does it end once its own providers have answered? |
| `evaluation_live` | the five cases or one study, 36 bodies, every failure and silence of the endpoint | Do evidence and exit code say what happened? Is the adapter a provider that always answers? Does the command end? |
| `benchmark_report` | all fifty scenarios, any two of which regress | Do the rules satisfy what the repository expects of them? Does the report say exactly what regressed? |

**Bounds.** `MaxCalls`, `MaxConsumes` and `MaxFaults` bound how often the environment acts; `MaxAttempts` is the code's
16, lowered to 2 so that `GiveUp` is reached. A race for one sequence number needs two writers, and a call that meets
what another left behind two calls; both happen in the instances, as the mutants show. Two is enough for the approvals
too: one nonce to contend for and another to keep apart. All safety properties are also proved without bounds. Two studies are enough for one to append, fail or die within another; the kinds are one that lists one provider twice
and, as nothing in the code minds that, is a comparison like any other; a validation by two providers; a study of nobody;
one that is refused; and one whose objective is cut through a credential with an address behind it. The caller of one
study leaves a single provider in its options while it waits, and takes back that it is validation only. The bodies are all of up to two of five items, and one of each kind that is refused before the
scan; a part that comes after a tool call, or after an empty part, needs no third item. `MaxRegressions` is 2, so that a
critical and another regression meet, in one category and in two. The length bounds (4000, 7000) are the code's own.
The processes of `harness_race`, which checks no liveness, are symmetric; its constraint allows three authorizations
together, so that two race and the survivor or the restarted process presents the approval once more. Runs do not check deadlock: with their calls
used up the processes stop.

**Fairness.** `FairSpec` asks weak fairness of `Progress` only. For ledger, store and authorizations: the methods are
synchronous code without locks or waiting, so a process that is in one takes its next system call unless it dies. For
studies: from the last answer on the code runs by itself; nothing makes a provider answer. For the live evaluation: the
code, and the adapter's timer (`AbortSignal.timeout`), which fires when a wait lasts; nothing is asked of the endpoint.
Nothing is asked of callers, restarts or faults.

### Where documents and code differ

| Run | Document | Code |
| --- | --- | --- |
| `ledger_losers_retry` | ARCHITECTURE.md:74, losers reload and retry | a loser that reads the winner's unfinished file throws (`evidence.ts:139`) |
| `ledger_restart` | ARCHITECTURE.md:76, survives process restart | a crash between creation and write leaves a file no constructor gets past (`evidence.ts:128`) |
| `harness_mismatch` | ARCHITECTURE.md:64 and TRUST_MODEL.md:19, a request that does not match burns no nonce | with an action that is not consequential the approval is not compared, and is consumed (`authority.ts:74`, `harness.ts:156`) |
| `harness_unrecorded` | README.md:123, records decision and consumption | the append after the consumption can throw in a race (`harness.ts:81`) |
| `study_bound` | ARCHITECTURE.md:80 and benchmark.ts:255, providers receive an objective bounded to 4000 characters | the bound is applied before redaction, which can make the text longer (`sanitize.ts:15`) |

Four behaviours are in the models without a property against them.

* "Single-provider studies cannot create promotion state" and "at least two successful providers" (README.md:70-71,
  ARCHITECTURE.md:80, PROOF_POINTS.md:60-61) hold of providers that are listed once. The code counts results
  (`harness.ts:226`), so one provider that is listed twice and answers twice earns a lesson, as it does in
  `study_race`. `LessonsNeedTwoCompletions` states what the code keeps, two answers.
* A caller that changes its options object while it waits can turn a study whose opening event says validation only
  into one that reports a lesson, and a study of which a provider failed into a completed one.
  `LessonsNeedTwoCompletions` and `EvidenceMatchesAnswers` demand that the outcome fits the opening event only where
  the options were left alone; `ResultsAreEvidenced`, that what is returned is what is recorded, holds of all.
* A file whose close fails keeps the event of an append that threw, or the claim of a consume that threw. So
  `RefusedAppendRecordsNothing` is about the other ways an append throws, and `ReplaysNameTheClaim` says of a replay's
  receipt only that it is the one in the directory and that no call was told it consumed with another.
* An approval whose expiry does not parse is refused on the signed path (`GrantsAreApproved`), but on the unsigned
  path compares as not expired (`authority.ts:102`) and is accepted.

The benchmark's scenario for validation-only studies asks a single provider, so it would hold as well if the flag were
ignored; `LessonsNeedTwoCompletions` has the study with two completions that tells the difference.

## 4. The proofs

`LedgerProofs` and `ConsumptionProofs` hold for any set of processes, any recorded details and approvals, any bounds
(`BoundsAssumption`, `ConsumesAssumption`: the bounds are naturals) and a torn content that is not an event or receipt
(`TornAssumption`, `TornClaimAssumption`).

**Ledger.** None of the ledger's properties is inductive. `IInv` (module `LedgerInvariant`) adds what holds between two
system calls: files `1 .. n` are recorded and linked and at most `n + 1` is torn (`Chained`); a draft is linked to a
recorded event (`DraftFollows`), so the creation that succeeds is that of file `n + 1`, which is why two writers can never
have different torn files; the process that created a file is its only writer (`Writer`); a call has seen what was
recorded before it began and the events that beat it (`SawThePast`), so it cannot number below them. The step proof has
one case per action and one conjunct per case. That a listing yields its own prefix is the lemma about `SortedNames`: a
set of `m` numbers whose files verify is `1 .. m`. From `IInv` follow the invariants, and with `IInv` as an assumption on
the first state of a step the action properties (`AppendOnly`, `AbandonedFileEndsTheLedger`) and the refinement: writing
is the append of the abstract log, everything else a stutter.

**Store.** `CInv` adds that the writer of a claim is the only one of its key, and that the claim it has written and not
closed yet is its own receipt, which nobody else was told; so a complete claim is the receipt of the call that consumed,
or of one that threw or died before it could be told. The refinement maps the store to its complete claims: writing is
the abstract `consume`.

**Calls of the ledger are short.** `CallsAlwaysAreBounded` counts: a call makes at most `5 * MaxAttempts` steps of its
own, since each step of its process brings it nearer to its end (`StepsLeft`, from the place in the method and the
attempts left) and no step of another process touches it. That is what can be proved of `CallsEnd`: once the process is
scheduled, the call ends. It uses `AttemptsLeft`, that a running append has an attempt left.

Both specifications are also proved to keep their types (`TypeCorrect`), which the runs therefore need not check; the
inductive invariants were checked with TLC before they were proved.

**Harness.** `HarnessProofs` holds for any set of processes, calls (with any principals, requests, approvals, trusted
keys), times and bounds. It assumes that `authorizeSigned` takes its approval from the envelope (`CallsAssumption`) and
that what marks a missing field or a torn file is not data (`NoneAssumption`, `HarnessAssumption`). `HInv` (module
`HarnessInvariant`) says what the two directories and a call's locals have to do with each other between two system calls:
where in the call the ledger and the store can be (`Located`), what `consume`'s answer says of the claim (`Presents`),
what the event being appended cites (`Recording`, `Drafting`), and that a nonce has either one call that may still be
granted with it, the one that created its claim, or one grant (`Exclusive`). Single use across the crash between claim and append
is that last conjunct: the claim outlives the call, and no later call can come to own it. The proof shows that every
action is a step of one shape (`Moves`: claims change by creation and by the creator's write, files likewise, and a call
comes to be favoured only by creating its claim), that such a step keeps `HInv`, and reads the action properties
and the refinement of `SingleUse` off the same shape. `HInv` needs nothing of the hash chain, so it does not repeat
`IInv`. `GrantsAreApproved` unfolds the rules of `Authority`; it needs no invariant but that a decision is one of its
call's.

`ResultsAreEvidenced` does need the chain, and `EvidenceProofs` gives it in the terms of the harness: `EInv` (module
`EvidenceInvariant`) says that the recorded events are numbered without a gap and that the hash of each extends those of
all before it, that an event just built extends the recorded ones below its number, and that the receipt a call keeps
while it reads the digest is of an event that the digest's own `readdir` has in its listing. So no induction runs along
the chain: each write extends the prefixes it finds. Its further assumptions, in `HarnessAssumption`, are that a torn
file is not an event and that the bound on calls is a number.

**The harness over its directories.** `EvidenceProofs` then proves that what the harness does to its two directories is
what callers of `DirectoryLedger` and of `DirectoryConsumption` may do (`HarnessUsesDirectoryLedger`,
`HarnessUsesDirectoryStore`): each action of the harness is a call, a step, a fault or nothing of either component. So
every theorem of the two components holds of the harness, the refinements of `AuditLog` and `ApprovalConsumption`
included, for the chain and for the store at once (`HarnessLedgerKeepsItsPromises`, `HarnessStoreKeepsItsPromises`).
`CitationsAlwaysHold` needs both sides: an event's consumption receipt is the claim of its nonce, that of a grant was
returned by `consume` as consumed, and no call was told it consumed that nonce with another receipt.
`AuthorizationsAlwaysAreBounded` adds the steps of a call: at most `10 * MaxAttempts + 6` of its own, the two methods of the
ledger, the store's, and the harness's own between them. `RecordableAssumption`
says that the request of some call can be encoded; without it there is no event, and the ledger's assumption that there
are details to record fails.

**Studies.** `StudyProofs` holds for any set of studies with any options, any answers (texts of any length, or failures),
any other calls that append, and any number of throws and deaths (`StudyAssumption`: providers have names, an answer is a
text or a failure). `SInv` (module `StudyInvariant`) ties a study's locals to its two events wherever others' appends
have put them: an event is recorded once; the phase says which of the two there are; the start is that of options whose
providers were called, all of them; the outcome was recorded when every answer was there, of these answers, after the
start, and with the options as they were by then; the digest returned is the hash of an event not before the outcome's. The log grows at its end and each hash
extends those before it, which is what makes `ResultsAreEvidenced` survive the appends of others. `ProvidersSeeCleanText`
needs what cutting and redaction do to a list of pieces, `EvidenceMatchesAnswers` what `filter` does, for lists of any
length. `StudiesAppendToTheLog` says that a study uses its ledger as `AuditLog` allows, so that the ledger may be
`DirectoryLedger`, which implements it.

**Rules.** `RuleLemmas` proves of `filter` that it has as many members as there are indexes, each index's member at its
place, and nothing else; and of `Total`, a recursive function, that it exists and is at least each of its summands.
The library's induction theorems take an operator as parameter; here induction is over a *set* of numbers
(`SetInduction`, from the least element outside it), and recursion over a function that is given as a value
(`RecursionExists`), both of which can be cited.

**Live evaluation.** `EvaluationProofs` holds for any set of bodies with any number of items and parts, any studies of an
embedding program and any settings. `PayloadsAssumption` says that a body has a list of items with lists of text lengths,
which loses nothing: what is not an array the code scans as an empty one, and what is not an item as one to skip.
`VInv` (module `EvaluationInvariant`) counts: when case `c` begins, the first `c - 1` cases have sent and heard what they
ask of the live provider (`Asked`), and while its study runs, its one call of that provider waits or has the last answer
heard (`AnswersOf`). That answer decides the study's status, and so the case's assertions (`OutcomeOfCase`): a case has
passed exactly when its call was answered with a text, and the two cases that ask nobody pass by the preflight and by the
hard denial. `LiveOnceAssumption` says that a study lists the live provider once at most. `CountedCallsWereMade` and `FailuresStayFailures` follow once the matrix has concluded.
`TextsComeFromCleanBodies` compares the scan, a recursive function that adds up items, with a set of places in the body:
`TextsAreParts` shows, item by item, that the `k`-th text found is the part that has `k` parts up to it.
`AdapterKeepsPromise` is the safety half of `ImplementsProvider`: the adapter's steps, under the study and the matrix, are
those of `ReasoningProvider`.

**Benchmark.** `ScenariosAlwaysHold` is not an evaluation: for each of the fifty scenarios `BenchmarkProofs` derives what
the rules answer, for every choice of the marked values. The four lemmas of the categories (`AuthorityScenariosHold`,
`InputScenariosHold`, `ProviderScenariosHold`, `EvidenceScenariosHold`) have one step per scenario. They assume that the
marked values differ from what the fixtures hold (`ScenarioAssumption`, `NoneAssumption`). `BInv` (module
`BenchmarkInvariant`) says that the results are those of the scenarios run so far, at their places, passed unless they
regressed. `RegressionsAlwaysAreReported` follows for any number of regressions: `TotalsCount` shows, turn by turn, that
the loop over the results counts a category's members and those that passed (induction over the turns by
`SetInduction`), `CategorySizes` counts the categories, and `filter`'s lemmas name the critical ones.

The inductive invariants `SInv`, `EInv`, `VInv` and `BInv` were checked with TLC on the runs' instances before they were proved.

**Only model-checked.** Liveness: `CallsEnd` of the ledger and of the harness, `ConsumesEnd`, `StudiesEndOnceAnswered`,
`EvaluationEnds`, and that an answer of the adapter comes at all in `ImplementsProvider` (TLAPS does not reach fairness
and ENABLED here; of the first two, that a call takes boundedly many steps is proved). The documents' claims of section 3, which are violations.

## 5. Plan

1. Done: the ledger, the store, the signed and unsigned paths over both; proofs of all three.
2. Done: studies, the OpenAI adapter and its composition with a study, the evaluation matrix and its evidence, the
   benchmark's scenarios and report.
3. Done: proofs of `ResultsAreEvidenced` of the harness, of every safety property of studies and of the live evaluation,
   and of the safety half of the adapter's refinement.
4. Done: that the harness over its two directories keeps the promises of both and makes bounded calls, that the
   scenarios hold and that the benchmark's report counts what regressed.
5. Open: a property of the clock: the expiry is compared once, before the nonce is consumed and the event appended, so an
   approval can expire in between. And proofs of liveness, should the prover come to reach them.

## 6. Not modelled

* Canonical JSON text and its recursion over values, Ed25519 and PEM handling, the two regular expressions: data that the
  models take as given, with the outcomes the code distinguishes.
* File modes and directory creation; `deepFreeze` and `structuredClone` (the models have no aliasing).
* The package surface: re-exports, a version string, type declarations.
* `examples/authority-demo.ts`, a script that calls the harness once each way; `harness_sequence` and the scenarios have
  its calls.
