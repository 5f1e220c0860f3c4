------------------------------- MODULE Study --------------------------------
(***************************************************************************)
(* GovernanceHarness.runStudy (src/src/harness.ts:200-266): studies that   *)
(* run at the same time, in one process or in several, over one ledger,    *)
(* among other calls that append to it.                                    *)
(*                                                                         *)
(* runStudy is the harness's asynchronous code.  It runs without a break   *)
(* up to the point where every provider has been called, awaits all their  *)
(* answers, and runs without a break from there, when it reads its options *)
(* again: whether it is validation only and how many providers it has are  *)
(* those the caller's object has by then.  Between its last append and the *)
(* digest only other processes can act.  The ledger is any         *)
(* AuditLedger: append and digest may throw, as those of a directory do    *)
(* (DirectoryLedger implements AuditLog, and fails beyond it).             *)
(***************************************************************************)
EXTENDS StudyRules

CONSTANTS
  Studies,    \* the calls of runStudy
  Options,    \* the arguments they may have
  Answers,    \* what a provider may answer
  Altering,   \* those whose callers change the options object while they wait
  Altered,    \* the options they may change it to
  Others,     \* bound: the other calls that append an event
  MaxFaults   \* bound: throws of the ledger and deaths, all studies together

\* Providers have names, and answer with a text or fail.
ASSUME StudyAssumption ==
  /\ Altering \subseteq Studies /\ Altered \subseteq Options
  /\ MaxFaults \in Nat
  /\ \A o \in Options : o.validationOnly \in BOOLEAN /\ o.providers \in Seq(STRING)
  /\ \A a \in Answers : a \in [kind : {"text"}, length : Nat] \cup {Failure}

VARIABLES
  log,      \* the ledger
  phase,    \* where each study is
  kept,     \* what it has across the await: its options as they are, and safetyFlags
  calls,    \* its calls of providers: whom, with what text, and the answer
  result,   \* what it returned
  faults    \* faults so far

vars == <<log, phase, kept, calls, result, faults>>

OtherEvent == [event |-> "authority.denied", outcome |-> "denied"]

\* Every list of results a study of these options may end with.
Results(o) ==
  {[i \in DOMAIN o.providers |-> providerResult(o.providers[i], answers[i])] :
     answers \in [DOMAIN o.providers -> Answers]}

ProviderCounts == {0} \cup {Len(o.providers) : o \in Options}

EventDetails ==
  {OtherEvent}
  \cup {startedEvent(o, flags) : o \in Options, flags \in {<< >>, <<"personal_data_redacted">>}}
  \cup UNION {{completedEvent(validationOnly, providerCount, r) :
                 validationOnly \in BOOLEAN, providerCount \in ProviderCounts,
                 r \in Results(o)} : o \in Options}

EventIds == (Studies \X {"started", "completed"}) \cup (Others \X {"other"})

Log == INSTANCE AuditLog WITH Details <- EventDetails

NoResult == [status |-> "none"]
NothingKept == [validationOnly |-> FALSE, providerCount |-> 0, safetyFlags |-> << >>]
Pending == [kind |-> "pending"]

Init ==
  /\ Log!Init
  /\ phase = [s \in Studies |-> "ready"]
  /\ kept = [s \in Studies |-> NothingKept]
  /\ calls = [s \in Studies |-> << >>]
  /\ result = [s \in Studies |-> NoResult]
  /\ faults = 0

\* The study leaves its code, with an exception if it has no result.
End(s, how) == phase' = [phase EXCEPT ![s] = how]

Fault == faults < MaxFaults /\ faults' = faults + 1

-----------------------------------------------------------------------------
\* sanitizeObjective throws, and runStudy with it.
Reject(s, preflight) ==
  /\ phase[s] = "ready"
  /\ ~ preflight.accepted
  /\ End(s, "threw")
  /\ UNCHANGED <<log, kept, calls, result, faults>>

\* The objective passes, the start is recorded and every provider is called.
Start(s, o, preflight) ==
  /\ phase[s] = "ready"
  /\ preflight.accepted
  /\ Log!append(<<s, "started">>, startedEvent(o, preflight.safetyFlags))
  /\ phase' = [phase EXCEPT ![s] = "reasoning"]
  /\ kept' = [kept EXCEPT ![s] = [validationOnly |-> o.validationOnly,
                                  providerCount  |-> Len(o.providers),
                                  safetyFlags    |-> preflight.safetyFlags]]
  /\ calls' = [calls EXCEPT ![s] =
                 [i \in DOMAIN o.providers |->
                    [provider  |-> o.providers[i],
                     objective |-> preflight.objective,
                     answer    |-> Pending]]]
  /\ UNCHANGED <<result, faults>>

\* The ledger throws instead: no provider is called.
StartThrows(s, preflight) ==
  /\ phase[s] = "ready"
  /\ preflight.accepted
  /\ Fault
  /\ End(s, "threw")
  /\ UNCHANGED <<log, kept, calls, result>>

\* A provider answers; one that never does is a call that stays pending.
Settle(s, i, answer) ==
  /\ phase[s] = "reasoning"
  /\ i \in DOMAIN calls[s]
  /\ calls[s][i].answer = Pending
  /\ calls' = [calls EXCEPT ![s][i].answer = answer]
  /\ UNCHANGED <<log, phase, kept, result, faults>>

\* The caller changes the options object of a study that awaits its providers.
Alter(s, altered) ==
  /\ s \in Altering
  /\ phase[s] = "reasoning"
  /\ kept' = [kept EXCEPT ![s] = [validationOnly |-> altered.validationOnly,
                                  providerCount  |-> Len(altered.providers),
                                  safetyFlags    |-> kept[s].safetyFlags]]
  /\ UNCHANGED <<log, phase, calls, result, faults>>

\* Mistake: a provider that failed is waited for.
Settled_Mutant(s) == \A i \in DOMAIN calls[s] : calls[s][i].answer.kind = "text"

\* Mistake: the first answer decides (Promise.race).
SettledFirst_Mutant(s) ==
  calls[s] # << >> => \E i \in DOMAIN calls[s] : calls[s][i].answer # Pending

\* Promise.all: the catch of each call leaves none that could reject.
Settled(s) == \A i \in DOMAIN calls[s] : calls[s][i].answer # Pending

providerResults(s) ==
  [i \in DOMAIN calls[s] |-> providerResult(calls[s][i].provider, calls[s][i].answer)]

\* The event of a study's outcome, made of its answers and of its options as they are.
OutcomeEvent(s) ==
  completedEvent(kept[s].validationOnly, kept[s].providerCount, providerResults(s))

\* All providers have answered: the outcome is recorded.
Record(s) ==
  /\ phase[s] = "reasoning"
  /\ Settled(s)
  /\ Log!append(<<s, "completed">>, OutcomeEvent(s))
  /\ phase' = [phase EXCEPT ![s] = "recorded"]
  /\ UNCHANGED <<kept, calls, result, faults>>

\* The ledger throws instead: the answers are lost.
RecordThrows(s) ==
  /\ phase[s] = "reasoning"
  /\ Settled(s)
  /\ Fault
  /\ End(s, "threw")
  /\ UNCHANGED <<log, kept, calls, result>>

\* Mistake: the digest is the one of the study's start.
Return_Mutant(s) ==
  /\ phase[s] = "recorded"
  /\ result' = [result EXCEPT ![s] =
                  [status          |-> studyStatus(providerResults(s), kept[s].providerCount),
                   providerResults |-> providerResults(s),
                   lessonCandidate |-> lessonCandidate(kept[s].validationOnly, providerResults(s)),
                   safetyFlags     |-> kept[s].safetyFlags,
                   auditDigest     |-> LET started == SelectInSeq(log, LAMBDA e : e.id = <<s, "started">>)
                                       IN  log[started].eventHash]]
  /\ End(s, "returned")
  /\ UNCHANGED <<log, kept, calls, faults>>

\* digest is called and runStudy returns.
Return(s) ==
  /\ phase[s] = "recorded"
  /\ result' = [result EXCEPT ![s] =
                  [status          |-> studyStatus(providerResults(s), kept[s].providerCount),
                   providerResults |-> providerResults(s),
                   lessonCandidate |-> lessonCandidate(kept[s].validationOnly, providerResults(s)),
                   safetyFlags     |-> kept[s].safetyFlags,
                   auditDigest     |-> Log!HeadHash(log)]]
  /\ End(s, "returned")
  /\ UNCHANGED <<log, kept, calls, faults>>

\* digest throws: the outcome is in the evidence, and the caller gets an exception.
ReturnThrows(s) ==
  /\ phase[s] = "recorded"
  /\ Fault
  /\ End(s, "threw")
  /\ UNCHANGED <<log, kept, calls, result>>

\* The study's process dies while it awaits the providers.
Crash(s) ==
  /\ phase[s] = "reasoning"
  /\ Fault
  /\ End(s, "dead")
  /\ UNCHANGED <<log, kept, calls, result>>

\* Another call, of this harness or of another on the same directory, appends.
Other(a) ==
  /\ Log!append(<<a, "other">>, OtherEvent)
  /\ UNCHANGED <<phase, kept, calls, result, faults>>

-----------------------------------------------------------------------------
Caller(s) == \E altered \in Altered : Alter(s, altered)

\* What a study does by itself.
Progress(s) == Record(s) \/ Return(s)

Call(s) ==
  \E o \in Options, stillMatches \in BOOLEAN :
    LET preflight == sanitizeObjective(o.objective, stillMatches)
    IN  Reject(s, preflight) \/ Start(s, o, preflight) \/ StartThrows(s, preflight)

Provide(s) == \E i \in DOMAIN calls[s], answer \in Answers : Settle(s, i, answer)

Next ==
  \/ \E s \in Studies :
       \/ Call(s) \/ Caller(s) \/ Provide(s) \/ Progress(s)
       \/ RecordThrows(s) \/ ReturnThrows(s) \/ Crash(s)
  \/ \E a \in Others : Other(a)

Spec == Init /\ [][Next]_vars

\* A study whose providers have answered runs on; nothing makes a provider answer.
FairSpec == Spec /\ \A s \in Studies : WF_vars(Progress(s))
=============================================================================
