------------------------- MODULE ReasoningProvider --------------------------
(***************************************************************************)
(* What a study relies on in a provider (ReasoningProvider.reason, src/src *)
(* /harness.ts:29-32): each call of it is answered once, in its own time.  *)
(* This is the promise of a provider that bounds its waiting, and never    *)
(* answers an empty text: OpenAIProvider is checked to keep it.            *)
(***************************************************************************)
EXTENDS Naturals

VARIABLE answer  \* "none" before the first call, the last one's answer, or "pending"

Init == answer = "none"

reason == answer # "pending" /\ answer' = "pending"

\* A call may fail at once.
refuse == answer # "pending" /\ answer' = "failure"

settle == answer = "pending" /\ answer' \in {"text", "failure"}

Next == reason \/ refuse \/ settle

Spec == Init /\ [][Next]_answer /\ WF_answer(settle)
=============================================================================
