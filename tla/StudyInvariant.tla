--------------------------- MODULE StudyInvariant ---------------------------
(***************************************************************************)
(* The inductive invariant of Study: how the phase of a study, what it     *)
(* keeps across its await, its calls and what it returned hang together    *)
(* with its two events, wherever they are in the log.  StudyProofs proves  *)
(* it.                                                                     *)
(***************************************************************************)
EXTENDS StudyProperties

Records == [id : EventIds, sequence : Nat, details : EventDetails]

Events == [id : EventIds, sequence : Nat, details : EventDetails,
           previousHash : Seq(Records), eventHash : Seq(Records)]

Types ==
  /\ TypeOK
  /\ log \in Seq(Events)
  /\ DOMAIN calls = Studies
  /\ \A s \in Studies :
       /\ calls[s] = [i \in DOMAIN calls[s] |-> calls[s][i]]
       /\ \A i \in DOMAIN calls[s] : DOMAIN calls[s][i] = {"provider", "objective", "answer"}
  /\ DOMAIN result = Studies

\* No event is recorded twice, so At(s, which) is the only place of its event.
UniqueIds == \A j, k \in DOMAIN log : log[j].id = log[k].id => j = k

\* The hash of an event is one of a chain that has all the events before it.
Chained == \A k \in DOMAIN log : \A j \in 1 .. k : IsPrefix(log[j].eventHash, log[k].eventHash)

LogInv == log \in Seq(Events) /\ UniqueIds /\ Chained

Recorded(s, which) == \E k \in DOMAIN log : log[k].id = <<s, which>>

\* Which events there are says how far the study has come.
Phased(s) ==
  /\ phase[s] = "ready" => ~ Recorded(s, "started")
  /\ phase[s] = "reasoning" => Recorded(s, "started")
  /\ phase[s] \in {"ready", "reasoning"} => ~ Recorded(s, "completed")
  /\ phase[s] \in {"recorded", "returned"} => Recorded(s, "completed")
  /\ calls[s] # << >> => Recorded(s, "started")

\* The calls are those of the options the start was recorded for.
CalledFor(s, o) ==
  /\ s \notin Altering =>
       /\ kept[s].validationOnly = o.validationOnly
       /\ kept[s].providerCount = Len(o.providers)
  /\ DOMAIN calls[s] = DOMAIN o.providers
  /\ \A i \in DOMAIN calls[s] : calls[s][i].provider = o.providers[i]

Opening(s) ==
  \A k \in DOMAIN log : log[k].id = <<s, "started">> =>
    \E o \in Options :
      log[k].details = startedEvent(o, kept[s].safetyFlags) /\ CalledFor(s, o)

\* The outcome is recorded once, of answers that are all there.
Closing(s) ==
  \A k \in DOMAIN log : log[k].id = <<s, "completed">> =>
    /\ Settled(s)
    /\ log[k].details = OutcomeEvent(s)
    /\ \E j \in 1 .. k - 1 : log[j].id = <<s, "started">>

\* The result is made of the same answers, and its digest is the hash of the
\* outcome's event or of a later one.
Returned(s) ==
  phase[s] = "returned" =>
    /\ result[s].status = studyStatus(providerResults(s), kept[s].providerCount)
    /\ result[s].lessonCandidate = lessonCandidate(kept[s].validationOnly, providerResults(s))
    /\ result[s].safetyFlags = kept[s].safetyFlags
    /\ \E m \in DOMAIN log :
         /\ result[s].auditDigest = log[m].eventHash
         /\ \A k \in DOMAIN log : log[k].id = <<s, "completed">> => k <= m

StudyInv(s) == Phased(s) /\ Opening(s) /\ Closing(s) /\ Returned(s)

SInv ==
  /\ Types
  /\ UniqueIds
  /\ Chained
  /\ \A s \in Studies : StudyInv(s)
  /\ ProvidersSeeCleanText
=============================================================================
