---------------------------- MODULE MCEvaluation ----------------------------
(***************************************************************************)
(* An instance of LiveEvaluation for TLC: the bodies the endpoint sends.   *)
(***************************************************************************)
EXTENDS EvaluationProperties

Message(parts) == [type |-> "message", parts |-> parts]
ToolCall == [type |-> "call", parts |-> << >>]
Reasoning == [type |-> "other", parts |-> << >>]

\* Messages with and without text, tool calls and other items, in any order.
Items == {Message(<<30, 0>>), Message(<<0>>), Message(<<50, 30>>), ToolCall, Reasoning}
Outputs == BoundedSeq(Items, 2)

Body(status, error, output) ==
  [object |-> TRUE, status |-> status, error |-> error, output |-> output]

EveryBody ==
  {Body("completed", FALSE, output) : output \in Outputs}
  \cup {Body("missing", FALSE, <<Message(<<30>>)>>),
        Body("incomplete", FALSE, <<Message(<<30>>)>>),
        Body("completed", TRUE, <<Message(<<30>>)>>),
        [object |-> FALSE]}

\* The matrix's studies, and studies of an embedding program: one whose objective
\* grows beyond the adapter's bound when the address in it is redacted.
Lengthened == <<Piece("plain", 3990), Piece("personal", 10)>>

EveryStudy ==
  {Cases[c].options : c \in StudyCases}
  \cup {[objective |-> Lengthened, providers |-> <<"live", "peer">>, validationOnly |-> FALSE]}
============================================================================
