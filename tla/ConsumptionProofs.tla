------------------------- MODULE ConsumptionProofs --------------------------
(***************************************************************************)
(* Proofs about DirectoryConsumption for any set of processes and of       *)
(* approvals, any number of calls, crashes and failures.                   *)
(***************************************************************************)
EXTENDS ConsumptionProperties, TLAPS

\* A receipt carries the key of what it was created for, and its own id.
LEMMA ReceiptFields ==
  ASSUME NEW id \in ConsumptionIds, NEW signed \in SignedApprovals
  PROVE  LET r == createReceipt(id, signed)
         IN  r \in Receipts /\ r.key \in Keys /\ r.consumptionId = id
<1>1. createReceipt(id, signed) \in Receipts
  BY DEF Receipts
<1>2. consumptionKey(signed) \in Keys
  BY DEF Keys
<1>3. /\ createReceipt(id, signed).key = consumptionKey(signed)
      /\ createReceipt(id, signed).consumptionId = id
  BY DEF createReceipt
<1> QED  BY <1>1, <1>2, <1>3

LEMMA ReceiptTypes ==
  ASSUME NEW r \in Receipts
  PROVE  r # Torn /\ r.key \in Keys /\ r.consumptionId \in ConsumptionIds
BY TornClaimAssumption DEF Receipts, createReceipt, Keys

LEMMA AnswerTypes ==
  /\ Pending \in Answers /\ Threw \in Answers
  /\ \A r \in Receipts : Consumed(r) \in Answers /\ Replayed(r) \in Answers
BY DEF Answers

-----------------------------------------------------------------------------
(* Type correctness. *)

LEMMA ReturnTypes ==
  ASSUME TypeOK, NEW p \in Proc, NEW result \in Answers, Return(p, result),
         DOMAIN claims \subseteq DOMAIN claims'
  PROVE  /\ stage' \in [Proc -> {"idle", "create", "write", "close", "inspect"}]
         /\ presented' \in [Proc -> Receipts \cup {Torn}]
         /\ \A q \in Proc : stage'[q] # "idle" => presented'[q] \in Receipts /\ answer'[q] = Pending
         /\ \A q \in Proc : stage'[q] = "inspect" => Key(q)' \in DOMAIN claims'
         /\ answer' \in [Proc -> Answers]
         /\ consumes' \in [Proc -> 0 .. MaxConsumes]
BY DEF TypeOK, Return, Key

LEMMA TypeStep == TypeOK /\ [Next]_vars => TypeOK'
<1> SUFFICES ASSUME TypeOK, [Next]_vars PROVE TypeOK'
  OBVIOUS
<1>1. ASSUME NEW p \in Proc, NEW signed \in SignedApprovals, Consume(p, signed) PROVE TypeOK'
  <2>1. consumes[p] + 1 \in 1 .. MaxConsumes
    BY <1>1, ConsumesAssumption DEF Consume, TypeOK
  <2>2. createReceipt(<<p, consumes[p] + 1>>, signed) \in Receipts
    BY <2>1, ReceiptFields DEF ConsumptionIds
  <2> QED  BY <1>1, <2>1, <2>2, AnswerTypes DEF Consume, TypeOK, Key
<1>2. ASSUME NEW p \in Proc, CreateClaim(p) PROVE TypeOK'
  <2>1. Key(p) \in Keys
    BY <1>2, ReceiptTypes DEF CreateClaim, TypeOK, Key
  <2> QED  BY <1>2, <2>1 DEF CreateClaim, TypeOK, Key
<1>3. ASSUME NEW p \in Proc, FindClaim(p) PROVE TypeOK'
  BY <1>3 DEF FindClaim, TypeOK, Key
<1>4. ASSUME NEW p \in Proc, WriteClaim(p) PROVE TypeOK'
  <2>1. /\ claims' \in [DOMAIN claims' -> Receipts \cup {Torn}]
        /\ DOMAIN claims' = DOMAIN claims
    BY <1>4 DEF WriteClaim, TypeOK
  <2> QED  BY <1>4, <2>1 DEF WriteClaim, TypeOK, Key
<1>8. ASSUME NEW p \in Proc, CloseClaim(p) PROVE TypeOK'
  <2>1. presented[p] \in Receipts /\ Consumed(presented[p]) \in Answers
    BY <1>8, AnswerTypes DEF CloseClaim, TypeOK
  <2> QED  BY <1>8, <2>1, ReturnTypes DEF CloseClaim, TypeOK
<1>5. ASSUME NEW p \in Proc, ReadClaim(p) PROVE TypeOK'
  <2>1. (IF claims[Key(p)] = Torn THEN Threw ELSE Replayed(claims[Key(p)])) \in Answers
    BY <1>5, AnswerTypes DEF TypeOK, ReadClaim
  <2> QED  BY <1>5, <2>1, ReturnTypes DEF ReadClaim, TypeOK
<1>6. ASSUME NEW p \in Proc, StoreFails(p) \/ Crash(p) PROVE TypeOK'
  BY <1>6, AnswerTypes, ReturnTypes DEF StoreFails, Crash, TypeOK
<1>7. CASE UNCHANGED vars
  BY <1>7 DEF vars, TypeOK, Key
<1> QED  BY <1>1, <1>2, <1>3, <1>4, <1>5, <1>6, <1>7, <1>8 DEF Next, Progress

LEMMA TypeInit == Init => TypeOK
BY ConsumesAssumption, AnswerTypes DEF Init, TypeOK

\* Every variable has its type in every reachable state.
THEOREM TypeCorrect == Spec => []TypeOK
BY TypeInit, TypeStep, PTL DEF Spec

-----------------------------------------------------------------------------
(* The inductive invariant. *)

\* What a step of another process leaves alone.
Same(q) ==
  /\ stage'[q] = stage[q] /\ presented'[q] = presented[q]
  /\ answer'[q] = answer[q] /\ consumes'[q] = consumes[q]

\* What p's last call reported as a replay is in the directory, and another call's.
ReplayNamed(p) ==
  answer[p].status = "replayed" => Claimed(answer[p].receipt) /\ IsNot(answer[p].receipt, p)

Mine(p) == Writer(p) /\ Filled(p) /\ FreshId(p) /\ ReplayNamed(p)

\* The invariant, process by process.
LEMMA InvariantParts ==
  CInv <=> /\ TypeOK /\ ClaimsOfCalls
           /\ \A r \in won : Claimed(r)
           /\ \A p \in Proc : Mine(p)
BY DEF CInv, Mine, ReplayNamed

LEMMA ReplayTypes ==
  ASSUME TypeOK, NEW p \in Proc, answer[p].status = "replayed"
  PROVE  answer[p].receipt \in Receipts
BY DEF TypeOK, Answers, Pending, Threw, Consumed, Replayed

\* A step that leaves the directory alone preserves the invariant when it
\* preserves it for the process that takes it.
LEMMA LocalStep ==
  ASSUME CInv, TypeOK', claims' = claims, \A r \in won' : Claimed(r), NEW p \in Proc,
         stage'[p] # "write", consumes'[p] >= consumes[p],
         \A q \in Proc \ {p} : Same(q), Mine(p)'
  PROVE  CInv'
<1>1. ClaimsOfCalls'
  <2>1. \A q \in Proc : consumes[q] \in Nat /\ consumes'[q] \in Nat /\ consumes'[q] >= consumes[q]
    BY ConsumesAssumption DEF CInv, TypeOK, Same
  <2>2. \A r \in Receipts : r.consumptionId[1] \in Proc /\ r.consumptionId[2] \in Nat
    BY ReceiptTypes DEF ConsumptionIds
  <2>3. \A k \in DOMAIN claims : claims[k] # Torn => claims[k] \in Receipts
    BY DEF CInv, TypeOK
  <2> QED  BY <2>1, <2>2, <2>3 DEF CInv, ClaimsOfCalls
<1>2. ASSUME NEW q \in Proc \ {p} PROVE Mine(q)'
  <2>1. Same(q) /\ Mine(q)
    BY InvariantParts
  <2>2. Writer(q)'
    BY <2>1 DEF CInv, Writer, Same, Key
  <2>3. Filled(q)' /\ FreshId(q)'
    BY <2>1 DEF Mine, Filled, FreshId, IsNot, Same, Key
  <2>4. ReplayNamed(q)'
    BY <2>1 DEF Mine, ReplayNamed, Claimed, IsNot, Same
  <2> QED  BY <2>2, <2>3, <2>4 DEF Mine
<1>3. \A r \in won' : Claimed(r)'
  BY DEF Claimed
<1> QED  BY <1>1, <1>2, <1>3 DEF CInv, Mine, ReplayNamed

LEMMA InvariantInit == Init => CInv
BY TypeInit DEF Init, CInv, ClaimsOfCalls, Writer, Filled, FreshId, Pending

LEMMA ConsumeStep ==
  ASSUME CInv, TypeOK', NEW p \in Proc, NEW signed \in SignedApprovals, Consume(p, signed)
  PROVE  CInv'
<1>1. consumes[p] \in Nat /\ consumes[p] + 1 \in 1 .. MaxConsumes
  BY ConsumesAssumption DEF Consume, CInv, TypeOK
<1>2. /\ claims' = claims /\ won' = won
      /\ stage'[p] = "create" /\ consumes'[p] = consumes[p] + 1 /\ answer'[p] = Pending
      /\ presented'[p].consumptionId = <<p, consumes[p] + 1>>
  BY <1>1, ReceiptFields DEF Consume, CInv, TypeOK, ConsumptionIds
<1>3. \A q \in Proc \ {p} : Same(q)
  BY DEF Consume, CInv, TypeOK, Same
<1>4. \A k \in DOMAIN claims : claims[k] # Torn => claims[k].consumptionId # <<p, consumes[p] + 1>>
  <2>1. \A k \in DOMAIN claims : claims[k] # Torn =>
          claims[k].consumptionId[2] <= consumes[claims[k].consumptionId[1]]
    BY DEF CInv, ClaimsOfCalls
  <2> QED  BY <1>1, <2>1
<1>5. Mine(p)'
  BY <1>2, <1>4 DEF Mine, Writer, Filled, FreshId, IsNot, ReplayNamed, Pending
<1> QED  BY <1>1, <1>2, <1>3, <1>5, LocalStep DEF CInv

\* A claim that is complete stays as it is when another is created or written.
LEMMA ClaimedStays ==
  ASSUME NEW r \in Receipts, Claimed(r),
         DOMAIN claims \subseteq DOMAIN claims',
         \A k \in DOMAIN claims : claims[k] # Torn => claims'[k] = claims[k]
  PROVE  r.key \in DOMAIN claims' /\ claims'[r.key] = r
BY ReceiptTypes DEF Claimed

LEMMA CreateClaimStep ==
  ASSUME CInv, TypeOK', NEW p \in Proc, CreateClaim(p)
  PROVE  CInv'
<1>1. /\ DOMAIN claims' = DOMAIN claims \cup {Key(p)} /\ Key(p) \notin DOMAIN claims
      /\ claims'[Key(p)] = Torn /\ \A k \in DOMAIN claims : claims'[k] = claims[k]
      /\ won' = won /\ presented' = presented /\ answer' = answer /\ consumes' = consumes
      /\ stage[p] = "create" /\ stage'[p] = "write"
      /\ \A q \in Proc \ {p} : stage'[q] = stage[q]
  BY DEF CreateClaim, CInv, TypeOK
<1>2. ClaimsOfCalls'
  BY <1>1 DEF CInv, ClaimsOfCalls
<1>3. ASSUME NEW q \in Proc PROVE Writer(q)'
  <2>1. \A r \in Proc : stage[r] = "write" => Key(r) \in DOMAIN claims
    BY DEF CInv, Writer
  <2> QED  BY <1>1, <2>1 DEF CInv, Writer, Key
<1>4. ASSUME NEW q \in Proc PROVE Filled(q)' /\ FreshId(q)'
  BY <1>1 DEF CInv, Filled, FreshId, IsNot, Key
<1>5. ASSUME NEW q \in Proc PROVE ReplayNamed(q)'
  BY <1>1 DEF CInv, ReplayNamed, Claimed, IsNot
<1>6. \A r \in won' : Claimed(r)'
  BY <1>1 DEF CInv, Claimed
<1> QED  BY <1>2, <1>3, <1>4, <1>5, <1>6 DEF CInv, ReplayNamed

LEMMA WriteClaimStep ==
  ASSUME CInv, TypeOK', NEW p \in Proc, WriteClaim(p)
  PROVE  CInv'
<1> DEFINE r == presented[p]
<1>1. /\ r \in Receipts /\ r # Torn /\ r.consumptionId = <<p, consumes[p]>>
      /\ r.key \in DOMAIN claims /\ claims[r.key] = Torn
      /\ \A q \in Proc : stage[q] = "write" /\ Key(q) = r.key => q = p
      /\ consumes[p] \in Nat
  BY ReceiptTypes, ConsumesAssumption DEF WriteClaim, CInv, TypeOK, Writer, FreshId, Key
<1>2. /\ DOMAIN claims' = DOMAIN claims /\ claims'[r.key] = r
      /\ \A k \in DOMAIN claims \ {r.key} : claims'[k] = claims[k]
      /\ \A k \in DOMAIN claims : claims[k] # Torn => claims'[k] = claims[k]
      /\ won' = won /\ consumes' = consumes /\ answer' = answer /\ presented' = presented
      /\ stage[p] = "write" /\ stage'[p] = "close"
  BY <1>1 DEF WriteClaim, CInv, TypeOK, Key
<1>3. \A q \in Proc \ {p} : Same(q)
  BY DEF WriteClaim, CInv, TypeOK, Same
<1>4. presented'[p] = r /\ Key(p) = r.key
  BY <1>2 DEF Key
<1> HIDE DEF r
<1>5. ClaimsOfCalls'
  BY <1>1, <1>2 DEF CInv, ClaimsOfCalls
<1>6. ASSUME NEW q \in Proc PROVE Writer(q)'
  <2>1. stage'[q] = "write" => q # p /\ stage[q] = "write" /\ presented'[q] = presented[q]
    BY <1>2, <1>3 DEF Same
  <2>2. stage[q] = "write" /\ q # p => Key(q) # r.key
    BY <1>1
  <2>3. \A o \in Proc : stage'[o] = "write" => stage[o] = "write" /\ presented'[o] = presented[o]
    BY <1>2, <1>3 DEF Same
  <2> QED  BY <1>2, <2>1, <2>2, <2>3 DEF CInv, Writer, Key
<1>7. ASSUME NEW q \in Proc PROVE Filled(q)' /\ FreshId(q)' /\ ReplayNamed(q)'
  <2>1. ReplayNamed(q)'
    <3>1. SUFFICES ASSUME answer[q].status = "replayed" PROVE ReplayNamed(q)'
      BY <1>2 DEF ReplayNamed
    <3>2. answer[q].receipt \in Receipts /\ Claimed(answer[q].receipt) /\ IsNot(answer[q].receipt, q)
      BY <3>1, ReplayTypes DEF CInv
    <3> QED  BY <1>2, <3>2, ClaimedStays DEF ReplayNamed, Claimed, IsNot
  <2>2. CASE q = p
    BY <1>1, <1>2, <1>4, <2>1, <2>2 DEF Filled, FreshId, Key
  <2>3. CASE q # p
    <3>1. stage'[q] = stage[q] /\ presented'[q] = presented[q] /\ consumes'[q] = consumes[q]
      BY <1>3, <2>3 DEF Same
    <3>2. Filled(q)'
      <4>1. SUFFICES ASSUME stage[q] = "close" PROVE Filled(q)'
        BY <3>1 DEF Filled
      <4>2. presented[q] \in Receipts /\ Claimed(presented[q])
        BY <4>1 DEF CInv, TypeOK, Filled, Claimed, Key
      <4> QED  BY <1>2, <3>1, <4>2, ClaimedStays DEF Filled, Key
    <3>3. FreshId(q)'
      <4>1. r.consumptionId # <<q, consumes[q]>>
        BY <1>1, <2>3
      <4> QED  BY <1>2, <3>1, <4>1 DEF CInv, FreshId, IsNot
    <3> QED  BY <2>1, <3>2, <3>3
  <2> QED  BY <2>2, <2>3
<1>8. \A w \in won' : Claimed(w)'
  BY <1>2, ClaimedStays DEF CInv, TypeOK, Claimed
<1> QED  BY <1>5, <1>6, <1>7, <1>8 DEF CInv, ReplayNamed

\* A call that ends, with what is in the directory if it names a receipt.
LEMMA EndStep ==
  ASSUME CInv, TypeOK', NEW p \in Proc, NEW result, Return(p, result), stage[p] # "idle",
         claims' = claims, \A r \in won' : Claimed(r),
         result.status = "replayed" => Claimed(result.receipt) /\ IsNot(result.receipt, p)
  PROVE  CInv'
<1>1. stage'[p] = "idle" /\ answer'[p] = result /\ consumes' = consumes /\ consumes[p] \in Nat
  BY ConsumesAssumption DEF Return, CInv, TypeOK
<1>2. \A q \in Proc \ {p} : Same(q)
  BY DEF Return, CInv, TypeOK, Same
<1>3. Mine(p)'
  BY <1>1 DEF CInv, Mine, Writer, Filled, FreshId, ReplayNamed, Claimed, IsNot
<1> QED  BY <1>1, <1>2, <1>3, LocalStep

LEMMA InvariantStep == CInv /\ [Next]_vars => CInv'
<1> SUFFICES ASSUME CInv, [Next]_vars PROVE CInv'
  OBVIOUS
<1>0. TypeOK /\ TypeOK' /\ \A r \in won : Claimed(r)
  BY TypeStep DEF CInv
<1>1. ASSUME NEW p \in Proc, NEW signed \in SignedApprovals, Consume(p, signed) PROVE CInv'
  BY <1>0, <1>1, ConsumeStep
<1>2. ASSUME NEW p \in Proc, CreateClaim(p) PROVE CInv'
  BY <1>0, <1>2, CreateClaimStep
<1>3. ASSUME NEW p \in Proc, FindClaim(p) PROVE CInv'
  <2>1. /\ claims' = claims /\ won' = won /\ stage[p] = "create" /\ stage'[p] = "inspect"
        /\ presented' = presented /\ answer' = answer /\ consumes' = consumes
        /\ consumes[p] \in Nat
    BY <1>3, ConsumesAssumption DEF FindClaim, CInv, TypeOK
  <2>2. \A q \in Proc \ {p} : Same(q)
    BY <1>3 DEF FindClaim, CInv, TypeOK, Same
  <2>3. Mine(p)'
    BY <2>1 DEF CInv, Mine, Writer, Filled, FreshId, IsNot, ReplayNamed, Claimed
  <2> QED  BY <1>0, <2>1, <2>2, <2>3, LocalStep
<1>4. ASSUME NEW p \in Proc, WriteClaim(p) PROVE CInv'
  BY <1>0, <1>4, WriteClaimStep
<1>5. ASSUME NEW p \in Proc, CloseClaim(p) PROVE CInv'
  <2> DEFINE r == presented[p]
  <2>1. Claimed(r)
    <3>1. r.key \in DOMAIN claims /\ claims[r.key] = r
      BY <1>5 DEF CloseClaim, CInv, Filled, Key
    <3> QED  BY <3>1 DEF Claimed
  <2>2. \A w \in won' : Claimed(w)
    BY <1>0, <1>5, <2>1 DEF CloseClaim
  <2>3. Return(p, Consumed(r)) /\ Consumed(r).status = "consumed" /\ stage[p] # "idle" /\ claims' = claims
    BY <1>5 DEF CloseClaim, Consumed
  <2> HIDE DEF r
  <2> QED  BY <1>0, <2>2, <2>3, EndStep
<1>6. ASSUME NEW p \in Proc, ReadClaim(p) PROVE CInv'
  <2> DEFINE result == IF claims[Key(p)] = Torn THEN Threw ELSE Replayed(claims[Key(p)])
  <2>1. result.status = "replayed" => Claimed(result.receipt) /\ IsNot(result.receipt, p)
    BY <1>0, <1>6 DEF Threw, Replayed, CInv, TypeOK, ClaimsOfCalls, FreshId, Claimed, ReadClaim
  <2>2. Return(p, result) /\ stage[p] # "idle" /\ claims' = claims /\ won' = won
    BY <1>6 DEF ReadClaim
  <2> HIDE DEF result
  <2> QED  BY <1>0, <2>1, <2>2, EndStep
<1>7. ASSUME NEW p \in Proc, StoreFails(p) \/ Crash(p) PROVE CInv'
  BY <1>0, <1>7, EndStep DEF StoreFails, Crash, Threw, Pending
<1>8. CASE UNCHANGED vars
  BY <1>8 DEF vars, CInv, TypeOK, ClaimsOfCalls, Writer, Filled, FreshId, Claimed, IsNot, Key
<1> QED  BY <1>1, <1>2, <1>3, <1>4, <1>5, <1>6, <1>7, <1>8 DEF Next, Progress

LEMMA Invariant == Spec => []CInv
BY InvariantInit, InvariantStep, PTL DEF Spec

\* However calls race, crash and fail, no two consume one key.
THEOREM ConsumedOnceAlways == Spec => []ConsumedOnce
<1>1. CInv => ConsumedOnce
  BY DEF CInv, Claimed, ConsumedOnce
<1> QED  BY <1>1, Invariant, PTL

\* A reported replay names the receipt in the directory, which is another call's
\* and the only one of its key that can have been told it consumed.
THEOREM ReplaysAlwaysNameTheClaim == Spec => []ReplaysNameTheClaim
<1>1. CInv => ReplaysNameTheClaim
  BY DEF CInv, Claimed, IsNot, ReplaysNameTheClaim
<1> QED  BY <1>1, Invariant, PTL

-----------------------------------------------------------------------------
(* Steps. *)

\* The ways a step can change the directory or answer a call.
LEMMA Steps ==
  ASSUME CInv, [Next]_vars
  PROVE  \/ \E p \in Proc : CreateClaim(p)
         \/ \E p \in Proc : WriteClaim(p)
         \/ /\ claims' = claims
            /\ \A p \in Proc :
                 answer'[p].status \in {"pending", "threw"}
                   \/ answer'[p] = answer[p]
                   \/ (stage[p] \in {"inspect", "close"} /\ claims[Key(p)] # Torn)
<1> DEFINE Quiet(p) == answer'[p].status \in {"pending", "threw"}
                         \/ answer'[p] = answer[p]
                         \/ (stage[p] \in {"inspect", "close"} /\ claims[Key(p)] # Torn)
<1>1. ASSUME NEW p \in Proc, NEW signed \in SignedApprovals, Consume(p, signed)
      PROVE  claims' = claims /\ \A q \in Proc : Quiet(q)
  BY <1>1 DEF Consume, CInv, TypeOK, Pending
<1>2. ASSUME NEW p \in Proc, FindClaim(p) PROVE claims' = claims /\ \A q \in Proc : Quiet(q)
  BY <1>2 DEF FindClaim
<1>3. ASSUME NEW p \in Proc, ReadClaim(p) PROVE claims' = claims /\ \A q \in Proc : Quiet(q)
  BY <1>3 DEF ReadClaim, Return, CInv, TypeOK, Threw
<1>4. ASSUME NEW p \in Proc, StoreFails(p) \/ Crash(p)
      PROVE  claims' = claims /\ \A q \in Proc : Quiet(q)
  BY <1>4 DEF StoreFails, Crash, Return, CInv, TypeOK, Threw, Pending
<1>5. CASE UNCHANGED vars
  BY <1>5 DEF vars
<1>6. ASSUME NEW p \in Proc, CloseClaim(p) PROVE claims' = claims /\ \A q \in Proc : Quiet(q)
  <2>1. claims[Key(p)] # Torn
    BY <1>6, ReceiptTypes DEF CloseClaim, CInv, TypeOK, Filled
  <2> QED  BY <1>6, <2>1 DEF CloseClaim, Return, CInv, TypeOK
<1> QED  BY <1>1, <1>2, <1>3, <1>4, <1>5, <1>6 DEF Next, Progress

\* No step removes a claim or changes a receipt.
THEOREM ClaimsAlwaysArePermanent == Spec => ClaimsArePermanent
<1>1. CInv /\ [Next]_vars =>
        [\A k \in DOMAIN claims :
           /\ k \in DOMAIN claims'
           /\ claims[k] # Torn => claims'[k] = claims[k]]_vars
  <2> SUFFICES ASSUME CInv, [Next]_vars, NEW k \in DOMAIN claims
               PROVE  k \in DOMAIN claims' /\ (claims[k] # Torn => claims'[k] = claims[k])
    OBVIOUS
  <2>1. ASSUME NEW p \in Proc, CreateClaim(p)
        PROVE  k \in DOMAIN claims' /\ claims'[k] = claims[k]
    BY <2>1 DEF CreateClaim
  <2>2. ASSUME NEW p \in Proc, WriteClaim(p)
        PROVE  k \in DOMAIN claims' /\ (claims[k] # Torn => claims'[k] = claims[k])
    BY <2>2 DEF WriteClaim, CInv, TypeOK, Writer
  <2> QED  BY <2>1, <2>2, Steps
<1> QED  BY <1>1, Invariant, PTL DEF Spec, ClaimsArePermanent

\* An abandoned claim stays torn, and every call that presents its key throws.
THEOREM AbandonedClaimAlwaysFailsClosed == Spec => AbandonedClaimFailsClosed
<1>1. CInv /\ [Next]_vars =>
        [\A k \in DOMAIN claims :
           Abandoned(k) =>
             /\ claims'[k] = Torn
             /\ \A p \in Proc :
                  stage[p] # "idle" /\ Key(p) = k => answer'[p].status \in {"pending", "threw"}]_vars
  <2> SUFFICES ASSUME CInv, [Next]_vars, NEW k \in DOMAIN claims, Abandoned(k)
               PROVE  /\ claims'[k] = Torn
                      /\ \A p \in Proc : stage[p] # "idle" /\ Key(p) = k
                           => answer'[p].status \in {"pending", "threw"}
    OBVIOUS
  <2>0. /\ claims[k] = Torn
        /\ \A p \in Proc : stage[p] # "idle" => answer[p].status \in {"pending", "threw"}
    BY DEF CInv, TypeOK, Abandoned, Pending
  <2>1. ASSUME NEW p \in Proc, CreateClaim(p)
        PROVE  claims'[k] = claims[k] /\ answer' = answer
    BY <2>1 DEF CreateClaim
  <2>2. ASSUME NEW p \in Proc, WriteClaim(p)
        PROVE  claims'[k] = claims[k] /\ answer' = answer
    BY <2>2 DEF WriteClaim, CInv, TypeOK, Abandoned
  <2> QED  BY <2>0, <2>1, <2>2, Steps
<1> QED  BY <1>1, Invariant, PTL DEF Spec, AbandonedClaimFailsClosed

\* Only WriteClaim changes the complete claims, and it adds the receipt of a new key.
LEMMA AtomicStep == CInv /\ CInv' /\ [Next]_vars => [Atomic!Next]_Completed
<1> SUFFICES ASSUME CInv, CInv', [Next]_vars PROVE [Atomic!Next]_Completed
  OBVIOUS
<1>1. ASSUME claims' = claims PROVE Completed' = Completed
  BY <1>1 DEF Completed
<1>2. ASSUME NEW p \in Proc, CreateClaim(p) PROVE Completed' = Completed
  BY <1>2 DEF CreateClaim, Completed
<1>3. ASSUME NEW p \in Proc, WriteClaim(p) PROVE Atomic!Next
  <2> DEFINE r == presented[p]
  <2>1. r \in Receipts /\ r # Torn /\ r.key \in DOMAIN claims /\ claims[r.key] = Torn
    BY <1>3, ReceiptTypes DEF WriteClaim, CInv, TypeOK, Writer, Key
  <2>2. PICK id \in ConsumptionIds, signed \in SignedApprovals : r = createReceipt(id, signed)
    BY <2>1 DEF Receipts
  <2>3. r.key = consumptionKey(signed)
    BY <2>2 DEF createReceipt
  <2>4. Completed' = [k \in DOMAIN Completed \cup {r.key} |-> IF k = r.key THEN r ELSE Completed[k]]
    BY <1>3, <2>1 DEF WriteClaim, Completed, Key
  <2>5. r.key \notin DOMAIN Completed
    BY <2>1 DEF Completed
  <2> HIDE DEF r
  <2>6. Atomic!consume(id, signed)
    BY <2>2, <2>3, <2>4, <2>5
       DEF Atomic!consume, Atomic!consumptionKey, consumptionKey,
           Atomic!createReceipt, createReceipt
  <2> QED  BY <2>6 DEF Atomic!Next
<1> QED  BY <1>1, <1>2, <1>3, Steps

\* The shared directory, with its races, crashes and failed calls, implements
\* the atomic store of one process.
THEOREM DirectoryImplementsAtomicStore == Spec => ImplementsApprovalConsumption
<1>1. Init => Atomic!Init
  BY DEF Init, Atomic!Init, Completed
<1> QED  BY <1>1, Invariant, AtomicStep, PTL DEF Spec, ImplementsApprovalConsumption, Atomic!Spec
=============================================================================
