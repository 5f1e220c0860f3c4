---------------------------- MODULE AdapterStudy ----------------------------
(***************************************************************************)
(* A study whose live provider is the OpenAI adapter (src/src/harness.ts:  *)
(* 200-266 with src/src/providers/openai.ts), and whose other providers    *)
(* are local: "peer" answers at once, "offline" fails at once.             *)
(*                                                                         *)
(* The study's steps are those of Study, on an in-memory ledger of its     *)
(* own, which never throws; the live provider's are those of               *)
(* OpenAIProvider.  runStudy calls reason in the step that starts the      *)
(* study, and sees the answer in a later one.                              *)
(***************************************************************************)
EXTENDS StudyRules

CONSTANTS
  StudyOptions,  \* the studies that are run
  Payloads       \* the bodies the endpoint may send

\* A body that is an object has a list of items, each with a list of text lengths; what
\* is not an array the scan takes for an empty one.
ASSUME PayloadsAssumption ==
  \A body \in Payloads :
    /\ body.object \in BOOLEAN
    /\ body.object => body.output \in Seq([type : {"message", "call", "other"}, parts : Seq(Nat)])

\* Bound: a study lists the live provider once at most, as the repository's own do;
\* one that listed it again would call it again.
ASSUME LiveOnceAssumption ==
  \A o \in StudyOptions : \A i, j \in DOMAIN o.providers :
    o.providers[i] = "live" /\ o.providers[j] = "live" => i = j

VARIABLES
  log, phase, kept, calls, result, faults,  \* of Study
  http, payload, reply, requests,           \* of OpenAIProvider
  heard                                     \* history: the live provider's answers

study == <<log, phase, kept, calls, result, faults>>
adapter == <<http, payload, reply, requests>>
studyVars == <<study, adapter, heard>>

Run == "run"  \* the study, one at a time

Studied ==
  INSTANCE Study WITH
    Studies   <- {Run},
    Options   <- StudyOptions,
    Answers   <- {Text(84), Failure},
    Altering  <- {},
    Altered   <- {},
    Others    <- {},
    MaxFaults <- 0

Live == INSTANCE OpenAIProvider WITH Inputs <- {o.objective : o \in StudyOptions}

StudyInit == Studied!Init /\ Live!Init /\ heard = << >>

-----------------------------------------------------------------------------
\* new GovernanceHarness()
NewHarness ==
  /\ log' = << >>
  /\ phase' = [s \in {Run} |-> "ready"]
  /\ kept' = [s \in {Run} |-> Studied!NothingKept]
  /\ calls' = [s \in {Run} |-> << >>]
  /\ result' = [s \in {Run} |-> Studied!NoResult]
  /\ UNCHANGED <<faults, adapter, heard>>

\* runStudy up to its await: the live provider is called if it is one of the study's.
RunStudy(o) ==
  /\ \E stillMatches \in BOOLEAN :
       LET preflight == sanitizeObjective(o.objective, stillMatches)
       IN  \/ Studied!Reject(Run, preflight) /\ UNCHANGED adapter
           \/ /\ Studied!Start(Run, o, preflight)
              /\ IF "live" \in ToSet(o.providers)
                 THEN Live!reason(preflight.objective)
                 ELSE UNCHANGED adapter
  /\ UNCHANGED heard

\* The live provider's answer reaches the study.
SettleLive ==
  /\ http = "settled"
  /\ \E i \in DOMAIN calls[Run] :
       calls[Run][i].provider = "live" /\ Studied!Settle(Run, i, reply)
  /\ heard' = Append(heard, reply)
  /\ UNCHANGED adapter

SettleLocal ==
  /\ \E i \in DOMAIN calls[Run] :
       \/ calls[Run][i].provider = "peer" /\ Studied!Settle(Run, i, Text(84))
       \/ calls[Run][i].provider = "offline" /\ Studied!Settle(Run, i, Failure)
  /\ UNCHANGED <<adapter, heard>>

\* What the study does without the network's help once it has started.
StudyProgress ==
  \/ SettleLive
  \/ SettleLocal
  \/ Studied!Progress(Run) /\ UNCHANGED <<adapter, heard>>

StudyEnded == phase[Run] \in {"returned", "threw"}

\* What the adapter's pending request meets.
Network == (Live!Endpoint \/ Live!TimesOut) /\ UNCHANGED <<study, heard>>

Timer == Live!TimesOut /\ UNCHANGED <<study, heard>>
=============================================================================
