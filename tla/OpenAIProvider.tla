--------------------------- MODULE OpenAIProvider ---------------------------
(***************************************************************************)
(* OpenAIResponsesProvider (src/src/providers/openai.ts): one call of      *)
(* reason at a time, from its request to its answer.                       *)
(*                                                                         *)
(* The endpoint is the environment: it responds with a status, sends a     *)
(* body, or fails or stays silent at either.  The abort signal is started  *)
(* with the request and covers the body as well.                           *)
(***************************************************************************)
EXTENDS StudyRules

CONSTANTS
  Inputs,    \* the objectives it is given
  Payloads   \* the bodies the endpoint may send, as response.json() reads them

VARIABLES
  http,      \* where the call is: idle, fetching, reading or settled
  payload,   \* the body it read
  reply,     \* its answer
  requests   \* the requests sent so far

INPUT_BOUND == 4000

NoPayload == [object |-> FALSE]
NoReply == [kind |-> "pending"]

fail(reason) == [kind |-> "error", reason |-> reason]

-----------------------------------------------------------------------------
(* The constructor.  A number is what Math.floor makes of it; "missing" and   *)
(* "blank" are options that are absent or empty, "NaN" one that is not finite.*)

Default(option, default) == IF option = "missing" THEN default ELSE option

Within(number, low, high) == number \in Nat /\ low <= number /\ number <= high

\* The constructor throws unless its options satisfy this.
Constructible(options) ==
  /\ options.apiKey \notin {"missing", "blank"}
  /\ options.model # "blank"
  /\ Within(Default(options.maxOutputTokens, 900), 128, 4096)
  /\ Within(Default(options.timeoutMs, 30000), 1000, 120000)

-----------------------------------------------------------------------------
(* The scan of a body.  Of its items matter those that call a tool and the    *)
(* messages; of a message, the lengths of its trimmed output_text parts.      *)

\* The texts an item contributes.
textsOf(item) ==
  IF item.type = "message"
  THEN filter(item.parts, {j \in DOMAIN item.parts : item.parts[j] > 0})
  ELSE << >>

texts(output) ==
  LET found[n \in 0 .. Len(output)] ==
        IF n = 0 THEN << >> ELSE found[n - 1] \o textsOf(output[n])
  IN  found[Len(output)]

\* The parts are joined by line breaks.
joined(parts) ==
  [kind   |-> "text",
   length |-> Total(parts) + Len(parts) - 1,
   parts  |-> parts]

\* Mistake: the scan stops at the first message with text.
extractTextOnlyResponse_Mutant(body) ==
  LET found == SelectInSeq(body.output, LAMBDA item : textsOf(item) # << >>)
  IN  IF ~ body.object THEN fail("invalid object")
      ELSE IF body.status \notin {"missing", "completed"} THEN fail("not completed")
      ELSE IF body.error THEN fail("error response")
      ELSE IF found # 0 THEN joined(textsOf(body.output[found]))
      ELSE IF \E i \in DOMAIN body.output : body.output[i].type = "call" THEN fail("tool call")
      ELSE fail("no text")

\* Mistake: a response without text is answered with an empty one.
extractEmpty_Mutant(body) ==
  IF ~ body.object THEN fail("invalid object")
  ELSE IF body.status \notin {"missing", "completed"} THEN fail("not completed")
  ELSE IF body.error THEN fail("error response")
  ELSE IF \E i \in DOMAIN body.output : body.output[i].type = "call" THEN fail("tool call")
  ELSE IF texts(body.output) = << >> THEN [kind |-> "text", length |-> 0, parts |-> << >>]
  ELSE joined(texts(body.output))

extractTextOnlyResponse(body) ==
  IF ~ body.object THEN fail("invalid object")
  ELSE IF body.status \notin {"missing", "completed"} THEN fail("not completed")
  ELSE IF body.error THEN fail("error response")
  ELSE IF \E i \in DOMAIN body.output : body.output[i].type = "call" THEN fail("tool call")
  ELSE IF texts(body.output) = << >> THEN fail("no text")
  ELSE joined(texts(body.output))

-----------------------------------------------------------------------------
Init ==
  /\ http = "idle"
  /\ payload = NoPayload
  /\ reply = NoReply
  /\ requests = 0

\* reason throws, or its promise rejects or is fulfilled.
Answer(answer) == http' = "settled" /\ reply' = answer

\* The input is refused before anything is sent.
Refuse(input) ==
  /\ http \in {"idle", "settled"}
  /\ TextLength(input) \notin 1 .. INPUT_BOUND
  /\ Answer(fail("input"))
  /\ payload' = NoPayload
  /\ UNCHANGED requests

\* The request is sent, and the timer started.
Send(input) ==
  /\ http \in {"idle", "settled"}
  /\ TextLength(input) \in 1 .. INPUT_BOUND
  /\ http' = "fetching"
  /\ reply' = NoReply
  /\ payload' = NoPayload
  /\ requests' = requests + 1

reason(input) == Refuse(input) \/ Send(input)

\* The status line arrives.
Respond ==
  /\ http = "fetching"
  /\ \/ http' = "reading" /\ UNCHANGED reply
     \/ Answer(fail("http status"))
  /\ UNCHANGED <<payload, requests>>

RequestFails ==
  /\ http = "fetching"
  /\ Answer(fail("request failed or timed out"))
  /\ UNCHANGED <<payload, requests>>

\* The body arrives, and is scanned.
ReadBody(body) ==
  /\ http = "reading"
  /\ payload' = body
  /\ Answer(extractTextOnlyResponse(body))
  /\ UNCHANGED requests

\* The body breaks off or is not JSON.
BodyFails ==
  /\ http = "reading"
  /\ Answer(fail("invalid JSON"))
  /\ UNCHANGED <<payload, requests>>

\* Mistake: the signal is dropped once the status line is there.
TimesOut_Mutant ==
  /\ http = "fetching"
  /\ Answer(fail("request failed or timed out"))
  /\ UNCHANGED <<payload, requests>>

\* The timer fires: in either wait the promise rejects.  While the body is read, the
\* catch that is meant for bad JSON reports it.
TimesOut ==
  /\ \/ http = "fetching" /\ Answer(fail("request failed or timed out"))
     \/ http = "reading" /\ Answer(fail("invalid JSON"))
  /\ UNCHANGED <<payload, requests>>

Endpoint ==
  \/ Respond
  \/ RequestFails
  \/ BodyFails
  \/ \E body \in Payloads : ReadBody(body)

vars == <<http, payload, reply, requests>>

Next == (\E input \in Inputs : reason(input)) \/ Endpoint \/ TimesOut

\* AbortSignal.timeout fires if the call is still waiting; of the endpoint nothing is asked.
Spec == Init /\ [][Next]_vars /\ WF_vars(TimesOut)
=============================================================================
