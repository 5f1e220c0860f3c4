------------------------ MODULE DirectoryConsumption ------------------------
(***************************************************************************)
(* DirectoryApprovalConsumptionStore (src/src/consumption.ts:82-125):      *)
(* processes that share one directory and claim approval nonces in it, one *)
(* file per consumption key.                                               *)
(*                                                                         *)
(* consume creates the file of the key exclusively (flag "wx"), writes its *)
(* receipt into it and closes it: three system calls.  Between the first   *)
(* two the claim exists and cannot be parsed; before the third it can,     *)
(* although consume has not returned.  When the file is already there,     *)
(* consume reads it.                                                       *)
(***************************************************************************)
EXTENDS Consumption, Naturals

CONSTANTS
  Proc,             \* the processes that share the directory
  SignedApprovals,  \* what they present
  Torn,             \* the contents of a claim that is not completely written
  MaxConsumes       \* bound: calls of consume per process

ASSUME ConsumesAssumption == MaxConsumes \in Nat

VARIABLES
  claims,     \* the directory: consumption key |-> receipt, or Torn
  stage,      \* where each process is in consume: idle, create, write, close or inspect
  presented,  \* the receipt consume has prepared for what it was given
  answer,     \* what its last call returned or that it threw
  consumes,   \* how many calls it made (with Proc, the supply of consumption ids)
  won         \* history: the receipts of the calls that consumed

vars == <<claims, stage, presented, answer, consumes, won>>

ConsumptionIds == Proc \X (1 .. MaxConsumes)

Receipts == {createReceipt(id, signed) : id \in ConsumptionIds, signed \in SignedApprovals}
Keys == {consumptionKey(signed) : signed \in SignedApprovals}

ASSUME TornClaimAssumption == Torn \notin Receipts

\* How a call looks that has not returned, that threw, and that returned.
Pending == [status |-> "pending", receipt |-> Torn]
Threw == [status |-> "threw", receipt |-> Torn]
Consumed(receipt) == [status |-> "consumed", receipt |-> receipt]
Replayed(receipt) == [status |-> "replayed", receipt |-> receipt]
Answers == {Pending, Threw} \cup {Consumed(r) : r \in Receipts} \cup {Replayed(r) : r \in Receipts}

-----------------------------------------------------------------------------
Init ==
  /\ claims = << >>
  /\ stage = [p \in Proc |-> "idle"]
  /\ presented = [p \in Proc |-> Torn]
  /\ answer = [p \in Proc |-> Pending]
  /\ consumes = [p \in Proc |-> 0]
  /\ won = {}

Key(p) == presented[p].key

\* consume is called and prepares its receipt.
Consume(p, signed) ==
  /\ stage[p] = "idle"
  /\ consumes[p] < MaxConsumes
  /\ consumes' = [consumes EXCEPT ![p] = @ + 1]
  /\ presented' = [presented EXCEPT ![p] = createReceipt(<<p, consumes[p] + 1>>, signed)]
  /\ answer' = [answer EXCEPT ![p] = Pending]
  /\ stage' = [stage EXCEPT ![p] = "create"]
  /\ UNCHANGED <<claims, won>>

\* The call ends.
Return(p, result) ==
  /\ answer' = [answer EXCEPT ![p] = result]
  /\ stage' = [stage EXCEPT ![p] = "idle"]
  /\ presented' = [presented EXCEPT ![p] = Torn]
  /\ UNCHANGED consumes

\* Mistake: open(path, "w"), which truncates a claim that is there.
CreateClaim_Mutant(p) ==
  /\ stage[p] = "create"
  /\ claims' = [k \in DOMAIN claims \cup {Key(p)} |-> IF k = Key(p) THEN Torn ELSE claims[k]]
  /\ stage' = [stage EXCEPT ![p] = "write"]
  /\ UNCHANGED <<presented, answer, consumes, won>>

\* open(path, "wx") succeeds: the claim exists and is empty.
CreateClaim(p) ==
  /\ stage[p] = "create"
  /\ Key(p) \notin DOMAIN claims
  /\ claims' = [k \in DOMAIN claims \cup {Key(p)} |-> IF k = Key(p) THEN Torn ELSE claims[k]]
  /\ stage' = [stage EXCEPT ![p] = "write"]
  /\ UNCHANGED <<presented, answer, consumes, won>>

\* EEXIST: another call has the key.
FindClaim(p) ==
  /\ stage[p] = "create"
  /\ Key(p) \in DOMAIN claims
  /\ stage' = [stage EXCEPT ![p] = "inspect"]
  /\ UNCHANGED <<claims, presented, answer, consumes, won>>

\* write(2) fills the file: the claim parses and verifies from now on.
WriteClaim(p) ==
  /\ stage[p] = "write"
  /\ claims' = [claims EXCEPT ![Key(p)] = presented[p]]
  /\ stage' = [stage EXCEPT ![p] = "close"]
  /\ UNCHANGED <<presented, answer, consumes, won>>

\* close(2) succeeds and consume returns the receipt it wrote.
CloseClaim(p) ==
  /\ stage[p] = "close"
  /\ won' = won \cup {presented[p]}
  /\ Return(p, Consumed(presented[p]))
  /\ UNCHANGED claims

\* Mistake: a claim that cannot be read is taken for the call's own.
ReadClaim_Mutant(p) ==
  /\ stage[p] = "inspect"
  /\ IF claims[Key(p)] = Torn
     THEN won' = won \cup {presented[p]} /\ Return(p, Consumed(presented[p]))
     ELSE won' = won /\ Return(p, Replayed(claims[Key(p)]))
  /\ UNCHANGED claims

\* Mistake: a replay returns the receipt just prepared, not the one in the file.
ReadClaimOwn_Mutant(p) ==
  /\ stage[p] = "inspect"
  /\ Return(p, IF claims[Key(p)] = Torn THEN Threw ELSE Replayed(presented[p]))
  /\ UNCHANGED <<claims, won>>

\* Mistake: consume waits until the existing claim can be read.
ReadClaimWaits_Mutant(p) ==
  /\ stage[p] = "inspect"
  /\ claims[Key(p)] # Torn
  /\ Return(p, Replayed(claims[Key(p)]))
  /\ UNCHANGED <<claims, won>>

\* The existing claim is read: a replay if it parses (its record hash then
\* verifies, as only complete receipts do), an exception if it is torn.
ReadClaim(p) ==
  /\ stage[p] = "inspect"
  /\ Return(p, IF claims[Key(p)] = Torn THEN Threw ELSE Replayed(claims[Key(p)]))
  /\ UNCHANGED <<claims, won>>

\* A system call fails with another error (no space, no permission): consume
\* throws, and a claim already created stays as it is.  If its receipt was written
\* (the close fails, or the write fails with only the newline still to come), then
\* consume throws although it claimed the nonce.
StoreFails(p) ==
  /\ stage[p] # "idle"
  /\ Return(p, Threw)
  /\ UNCHANGED <<claims, won>>

\* The process dies and is started again: it has no memory of the call.
Crash(p) ==
  /\ stage[p] # "idle"
  /\ Return(p, Pending)
  /\ UNCHANGED <<claims, won>>

\* What a running call does by itself.
Progress(p) ==
  \/ CreateClaim(p)
  \/ FindClaim(p)
  \/ WriteClaim(p)
  \/ CloseClaim(p)
  \/ ReadClaim(p)

Next ==
  \E p \in Proc :
    \/ \E signed \in SignedApprovals : Consume(p, signed)
    \/ Progress(p)
    \/ StoreFails(p)
    \/ Crash(p)

Spec == Init /\ [][Next]_vars

\* consume is synchronous code: it runs on unless its process dies.
FairSpec == Spec /\ \A p \in Proc : WF_vars(Progress(p))
=============================================================================
