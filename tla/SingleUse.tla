----------------------------- MODULE SingleUse ------------------------------
(***************************************************************************)
(* What the signed path promises of every approval nonce (TRUST_MODEL.md,  *)
(* "Authorization order"): it is spent at most once and for ever, and it   *)
(* authorizes at most one recorded action, after it was spent.             *)
(* DurableHarness is checked to implement this.                            *)
(***************************************************************************)
CONSTANT Nonces

VARIABLES
  spent,   \* the nonces that were consumed
  grants   \* the pairs of a nonce and the recorded action it authorized

Init == spent = {} /\ grants = {}

Spend(n) == n \notin spent /\ spent' = spent \cup {n} /\ UNCHANGED grants

\* Some action that no nonce has authorized yet is recorded.
Grant(n) ==
  /\ n \in spent
  /\ \A grant \in grants : grant[1] # n
  /\ \E grant \in grants' :
       /\ grant[1] = n
       /\ \A other \in grants : other[2] # grant[2]
       /\ grants' = grants \cup {grant}
  /\ UNCHANGED spent

Next == \E n \in Nonces : Spend(n) \/ Grant(n)

Spec == Init /\ [][Next]_<<spent, grants>>
=============================================================================
