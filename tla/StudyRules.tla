----------------------------- MODULE StudyRules -----------------------------
(***************************************************************************)
(* The rules of a study as constant operators: what sanitizeObjective does *)
(* to an objective (src/src/sanitize.ts) and what runStudy makes of the    *)
(* providers' answers (src/src/harness.ts:208-265).                        *)
(*                                                                         *)
(* A text is a sequence of pieces with their lengths: what the SECRET      *)
(* expression matches, what the PERSONAL expression matches, the marker    *)
(* that replaces the latter, and plain text in between.  A text that is    *)
(* empty once trimmed has no pieces.                                       *)
(***************************************************************************)
EXTENDS Naturals, Sequences, SequencesExt, FiniteSets

\* The members of a sequence that are at these indexes, in their order
\* (Array.prototype.filter): the n-th is the one that has n of the indexes up to it.
filter(seq, indexes) ==
  LET place(i) == Cardinality({j \in indexes : j <= i})
  IN  [n \in 1 .. Cardinality(indexes) |-> seq[CHOOSE i \in indexes : place(i) = n]]

OBJECTIVE_BOUND == 4000
PROVIDER_TEXT_BOUND == 7000

Piece(kind, length) == [kind |-> kind, length |-> length]

\* "[personal data removed]"
PERSONAL_MARKER == Piece("marker", 23)

\* The length of texts of these lengths, one after the other.
Total(lengths) ==
  LET total[n \in 0 .. Len(lengths)] == IF n = 0 THEN 0 ELSE total[n - 1] + lengths[n]
  IN  total[Len(lengths)]

\* The characters of the first n pieces.
Offset(text, n) == Total([k \in 1 .. n |-> text[k].length])

TextLength(text) == Offset(text, Len(text))

HasKind(text, kind) == \E i \in DOMAIN text : text[i].kind = kind

\* slice(0, bound).  A piece the bound cuts may still match its expression, or not.
slice(text, bound, stillMatches) ==
  LET kept == {i \in DOMAIN text : Offset(text, i - 1) < bound}
      room(i) == bound - Offset(text, i - 1)
  IN  IF TextLength(text) <= bound THEN text
      ELSE [i \in kept |->
              IF text[i].length <= room(i) THEN text[i]
              ELSE Piece(IF stillMatches THEN text[i].kind ELSE "plain", room(i))]

\* Mistake: only the first match is replaced (the expression without its g flag).
redact_Mutant(raw) ==
  LET found == SelectInSeq(raw, LAMBDA piece : piece.kind = "personal")
  IN  [i \in DOMAIN raw |-> IF i = found THEN PERSONAL_MARKER ELSE raw[i]]

redact(raw) ==
  [i \in DOMAIN raw |-> IF raw[i].kind = "personal" THEN PERSONAL_MARKER ELSE raw[i]]

\* Mistake: every match pushes the flag.
sanitizeObjective_Mutant(input, stillMatches) ==
  LET raw == slice(input, OBJECTIVE_BOUND, stillMatches)
      matches == SelectSeq(raw, LAMBDA piece : piece.kind = "personal")
  IN  [accepted    |-> raw # << >> /\ ~ HasKind(raw, "secret"),
       objective   |-> redact(raw),
       safetyFlags |-> [i \in DOMAIN matches |-> "personal_data_redacted"]]

\* accepted is whether it returns; it throws on a text without content or with a secret.
sanitizeObjective(input, stillMatches) ==
  LET raw == slice(input, OBJECTIVE_BOUND, stillMatches)
  IN  [accepted    |-> raw # << >> /\ ~ HasKind(raw, "secret"),
       objective   |-> redact(raw),
       safetyFlags |-> IF HasKind(raw, "personal") THEN <<"personal_data_redacted">> ELSE << >>]

-----------------------------------------------------------------------------
(* Providers' answers: a text of some length after trimming, or an error.  *)

Text(length) == [kind |-> "text", length |-> length]
Failure == [kind |-> "error"]

\* An answer that is a text with something in it.
Usable(answer) == answer.kind = "text" /\ answer.length > 0

providerResult(provider, answer) ==
  IF Usable(answer)
  THEN [provider |-> provider,
        status   |-> "completed",
        length   |-> IF answer.length > PROVIDER_TEXT_BOUND THEN PROVIDER_TEXT_BOUND
                     ELSE answer.length]
  ELSE [provider |-> provider, status |-> "unavailable", length |-> 0]

\* The names of the providers that completed, in the order they were listed.
successful(results) ==
  filter([i \in DOMAIN results |-> results[i].provider],
         {i \in DOMAIN results : results[i].status = "completed"})

NoLesson == [status |-> "none", sourceProviders |-> << >>]

\* Mistake: validation-only studies are not excepted.
lessonCandidate_Mutant(validationOnly, results) ==
  IF Len(successful(results)) >= 2
  THEN [status |-> "observed", sourceProviders |-> successful(results)]
  ELSE NoLesson

lessonCandidate(validationOnly, results) ==
  IF ~ validationOnly /\ Len(successful(results)) >= 2
  THEN [status |-> "observed", sourceProviders |-> successful(results)]
  ELSE NoLesson

\* Mistake: nothing succeeded is looked at first.
studyStatus_Mutant(results, providerCount) ==
  IF successful(results) = << >> THEN "failed"
  ELSE IF Len(successful(results)) = providerCount THEN "completed"
  ELSE "partial"

\* providerCount is the number of the options' providers when the status is made.
studyStatus(results, providerCount) ==
  IF Len(successful(results)) = providerCount THEN "completed"
  ELSE IF successful(results) # << >> THEN "partial"
  ELSE "failed"

-----------------------------------------------------------------------------
(* The events of a study. *)

startedEvent(options, safetyFlags) ==
  [event          |-> "study.started",
   outcome        |-> "recorded",
   providerCount  |-> Len(options.providers),
   validationOnly |-> options.validationOnly,
   safetyFlags    |-> safetyFlags]

completedEvent(validationOnly, providerCount, results) ==
  [event               |-> "study.completed",
   outcome             |-> IF successful(results) # << >> THEN "recorded" ELSE "denied",
   status              |-> studyStatus(results, providerCount),
   successfulProviders |-> successful(results),
   lessonCreated       |-> lessonCandidate(validationOnly, results) # NoLesson]
=============================================================================
