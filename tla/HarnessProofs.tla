---------------------------- MODULE HarnessProofs ---------------------------
(***************************************************************************)
(* Proofs about DurableHarness for any set of processes, of calls and of   *)
(* times, and for any number of calls, crashes and failures.               *)
(***************************************************************************)
EXTENDS HarnessInvariant, TLAPS

-----------------------------------------------------------------------------
(* Lemmas about the operators. *)

\* A call that got past its fingerprint records one of the events' details.
LEMMA EvidenceType ==
  ASSUME NEW c \in Calls, Fingerprintable(c.request),
         NEW d \in Decisions(c), NEW x \in Consumptions
  PROVE  Evidence(c, d, x) \in EventDetails
BY DEF EventDetails

\* The store's receipts are those that Consumption describes.
LEMMA SameReceipts == \A id, a : Store!createReceipt(id, a) = createReceipt(id, a)
<1>1. \A a : consumptionKey(a) = [approvedBy   |-> a.approval.approvedBy,
                                  signingKeyId |-> a.keyId,
                                  nonceHash    |-> a.approval.nonce]
  BY DEF consumptionKey
<1>2. \A a : Store!consumptionKey(a) = consumptionKey(a)
  BY <1>1 DEF Store!consumptionKey
<1>3. \A id, a : createReceipt(id, a) = [consumptionId      |-> id,
                                        approvalId         |-> a.approval.approvalId,
                                        key                |-> consumptionKey(a),
                                        requestFingerprint |-> a.approval.requestFingerprint]
  BY DEF createReceipt
<1> QED  BY <1>2, <1>3 DEF Store!createReceipt

LEMMA StoreReceipts ==
  Store!Receipts = {createReceipt(id, a) : id \in Proc \X (1 .. MaxConsumes), a \in Envelopes}
BY SameReceipts DEF Store!Receipts, Store!ConsumptionIds

\* What an event cites is nothing or an answer about a receipt.
LEMMA Citations ==
  ASSUME NEW e \in EventDetails
  PROVE  e.consumption # None =>
           /\ e.consumption.status \in {"consumed", "replayed"}
           /\ e.consumption.receipt \in Store!Receipts
           /\ e.consumption.receipt # Torn
<1>1. PICK x \in Consumptions : \E c \in Calls : \E d \in Decisions(c) : e = Evidence(c, d, x)
  BY DEF EventDetails
<1>2. e.consumption = x
  BY <1>1 DEF Evidence
<1>3. x # None =>
        \E s \in {"consumed", "replayed"}, id \in Proc \X (1 .. MaxConsumes), a \in Envelopes :
          x = [status |-> s, receipt |-> createReceipt(id, a)]
  BY DEF Consumptions, StoreAnswers
<1>4. \A id \in Proc \X (1 .. MaxConsumes), a \in Envelopes : createReceipt(id, a) \in Store!Receipts
  BY StoreReceipts
<1> QED  BY <1>2, <1>3, <1>4, HarnessAssumption

\* Only a signed call that was allowed is a grant, under the nonce it presents.
LEMMA GrantedEvidence ==
  ASSUME NEW c \in Calls, NEW d, NEW x
  PROVE  /\ Evidence(c, d, x).consumption = x
         /\ Evidence(c, d, x).allowed = d.allowed
         /\ IsGrant(Evidence(c, d, x)) => c.signed /\ d.allowed
         /\ c.signed => NonceOf(Evidence(c, d, x)) = consumptionKey(c.envelope)
<1>1. IsGrant(Evidence(c, d, x)) => c.signed
  BY NoneAssumption DEF Evidence, IsGrant
<1>2. IsGrant(Evidence(c, d, x)) => d.allowed
  BY DEF Evidence, IsGrant
<1>3. c.signed => NonceOf(Evidence(c, d, x)) = consumptionKey(c.envelope)
  BY CallsAssumption DEF Evidence, NonceOf, consumptionKey
<1> QED  BY <1>1, <1>2, <1>3 DEF Evidence

\* The decision of a call that is allowed is its first one.
LEMMA AllowedIsFirst ==
  ASSUME NEW c \in Calls, NEW d \in Decisions(c), d.allowed
  PROVE  \E now \in Times : d = FirstDecision(c, now)
<1>1. \A reason : denied(reason, TRUE, c.request).allowed = FALSE
  BY DEF denied
<1>2. d \notin {denied(r, TRUE, c.request) : r \in {"store failed closed", "already consumed"}}
  BY <1>1
<1> QED  BY <1>2 DEF Decisions

\* A signed call that is allowed has a signature that verifies.
LEMMA AllowedIsVerified ==
  ASSUME NEW c \in Calls, NEW d \in Decisions(c), d.allowed, c.signed
  PROVE  verifySignedHumanApproval(c.envelope, c.trustedKeys)
<1>1. PICK now \in Times : d = FirstDecision(c, now)
  BY AllowedIsFirst
<1>2. denied("signature rejected", TRUE, c.request).allowed = FALSE
  BY DEF denied
<1> QED  BY <1>1, <1>2 DEF FirstDecision

-----------------------------------------------------------------------------
(* Steps of the ledger. *)

\* What a step of another process leaves alone.
Same(q) ==
  /\ step'[q] = step[q] /\ task'[q] = task[q] /\ decision'[q] = decision[q]
  /\ pc'[q] = pc[q] /\ op'[q] = op[q] /\ details'[q] = details[q] /\ draft'[q] = draft[q]
  /\ stage'[q] = stage[q] /\ presented'[q] = presented[q] /\ answer'[q] = answer[q]
  /\ consumes'[q] = consumes[q]

\* The only ways the files change: append creates one that is not there, and
\* writes into it the event it has built.
Writing(p) ==
  \/ files' = files /\ pc'[p] # "write"
  \/ /\ pc[p] = "create" /\ pc'[p] = "write" /\ draft'[p] = draft[p]
     /\ draft[p].sequence \notin DOMAIN files
     /\ files' = [k \in DOMAIN files \cup {draft[p].sequence} |->
                    IF k = draft[p].sequence THEN Torn ELSE files[k]]
  \/ /\ pc[p] = "write" /\ pc'[p] = "close"
     /\ files' = [files EXCEPT ![draft[p].sequence] = draft[p]]
     /\ step' = step /\ task' = task /\ decision' = decision

\* How a call of the ledger goes on.
LedgerGoesOn(p) ==
  /\ pc[p] \in Ledger!Busy
  /\ pc' \in [Proc -> Ledger!Busy \cup {"down", "idle"}]
  /\ DOMAIN draft' = Proc
  /\ op' = op /\ details' = details
  /\ \A q \in Proc \ {p} : pc'[q] = pc[q] /\ draft'[q] = draft[q]
  /\ pc'[p] = "down" => op[p] = "open"
  /\ pc[p] = "close" => pc'[p] \in {"down", "idle"}
  /\ pc'[p] \in {"create", "write", "close"} =>
       op[p] = "append" /\ draft'[p].details = details[p] /\ draft'[p].id[1] = p
  /\ Writing(p)

LEMMA LedgerGoesOnByItself ==
  ASSUME Types, NEW p \in Proc, Drafting(p), UNCHANGED harness,
         Ledger!Progress(p) \/ Ledger!StorageFails(p)
  PROVE  LedgerGoesOn(p)
<1> USE DEF Ledger!Busy, Types
<1>0. ASSUME files' = files, pc'[p] # "write" PROVE Writing(p)
  BY <1>0 DEF Writing
<1>1. CASE Ledger!OpenDir(p)
  BY <1>0, <1>1 DEF Ledger!OpenDir, Ledger!disk, LedgerGoesOn
<1>2. CASE Ledger!ReadVerified(p)
  <2>1. PICK S \in Ledger!Listings(p) : \E names \in Ledger!SortedNames(S) :
          Ledger!BuildNext(p, Ledger!Contents(names)) \/ Ledger!Answer(p, Ledger!Contents(names))
    BY <1>2 DEF Ledger!ReadVerified
  <2>2. PICK names \in Ledger!SortedNames(S) :
          Ledger!BuildNext(p, Ledger!Contents(names)) \/ Ledger!Answer(p, Ledger!Contents(names))
    BY <2>1
  <2> DEFINE events == Ledger!Contents(names)
  <2>3. files' = files /\ pc[p] = "read"
    BY <1>2 DEF Ledger!ReadVerified, Ledger!disk
  <2> HIDE DEF events
  <2>4. CASE Ledger!BuildNext(p, events)
    BY <1>0, <2>3, <2>4 DEF Ledger!BuildNext, Ledger!buildEvent, LedgerGoesOn
  <2>5. CASE Ledger!Answer(p, events)
    BY <1>0, <2>3, <2>5 DEF Ledger!Answer, Ledger!End, LedgerGoesOn
  <2> QED  BY <2>2, <2>4, <2>5 DEF events
<1>3. CASE Ledger!ReadFails(p)
  BY <1>0, <1>3 DEF Ledger!ReadFails, Ledger!disk, Ledger!Throw, Ledger!End, LedgerGoesOn
<1>4. CASE Ledger!CreateFile(p)
  <2>1. Writing(p)
    BY <1>4 DEF Ledger!CreateFile, Writing
  <2> QED  BY <1>4, <2>1 DEF Ledger!CreateFile, LedgerGoesOn, Drafting
<1>5. CASE Ledger!LoseSequence(p)
  BY <1>0, <1>5 DEF Ledger!LoseSequence, Ledger!disk, LedgerGoesOn
<1>6. CASE Ledger!GiveUp(p)
  BY <1>0, <1>6 DEF Ledger!GiveUp, Ledger!disk, LedgerGoesOn
<1>7. CASE Ledger!WriteEvent(p)
  <2>1. Writing(p)
    BY <1>7 DEF Ledger!WriteEvent, Writing, harness
  <2> QED  BY <1>7, <2>1 DEF Ledger!WriteEvent, LedgerGoesOn, Drafting
<1>8. CASE Ledger!CloseFile(p)
  BY <1>0, <1>8 DEF Ledger!CloseFile, Ledger!End, LedgerGoesOn
<1>9. CASE Ledger!StorageFails(p)
  BY <1>0, <1>9 DEF Ledger!StorageFails, Ledger!Throw, Ledger!End, LedgerGoesOn
<1> QED  BY <1>1, <1>2, <1>3, <1>4, <1>5, <1>6, <1>7, <1>8, <1>9 DEF Ledger!Progress

-----------------------------------------------------------------------------
(* What a step of any process may do. *)

\* The part of the invariant that is about one process.
Mine(p) == Located(p) /\ Tasked(p) /\ Presents(p) /\ Recording(p) /\ Drafting(p)

\* Whether the process's call created the claim of its nonce and may be granted.
Favoured(p) == Holds(p, Nonce(p))

\* The only ways the claims change: one is created by a call that was allowed
\* and found none, and the call that created it writes its receipt.
Claiming(p) ==
  \/ claims' = claims
  \/ /\ step[p] = "consume" /\ stage[p] = "create"
     /\ Nonce(p) \notin DOMAIN claims
     /\ claims' = [k \in DOMAIN claims \cup {Nonce(p)} |-> IF k = Nonce(p) THEN Torn ELSE claims[k]]
     /\ step' = step /\ task' = task /\ files' = files
  \/ /\ step[p] = "consume" /\ stage[p] = "write"
     /\ claims' = [claims EXCEPT ![Nonce(p)] = presented[p]]
     /\ step' = step /\ task' = task /\ files' = files

\* A call comes to be favoured only when it creates its claim, and goes on to
\* append once.
Favouring(p) ==
  /\ Favoured(p)' =>
       /\ Nonce(p)' = Nonce(p)
       /\ Favoured(p) \/ (Nonce(p) \notin DOMAIN claims /\ Nonce(p) \in DOMAIN claims')
  /\ Favoured(p)' /\ step[p] = "record" =>
       /\ step'[p] = "record"
       /\ pc'[p] \in Ledger!Busy \ {"close"} => pc[p] \in Ledger!Busy \ {"close"}

Moves(p) ==
  /\ Types'
  /\ \A q \in Proc \ {p} : Same(q)
  /\ Mine(p)'
  /\ ClaimsAreReceipts'
  /\ Claiming(p)
  /\ Writing(p)
  /\ Favouring(p)

-----------------------------------------------------------------------------
(* Such a step preserves the invariant. *)

\* Complete claims stay as they are.
LEMMA ClaimsGrow ==
  ASSUME HInv, NEW p \in Proc, Claiming(p)
  PROVE  \A k \in DOMAIN claims :
           k \in DOMAIN claims' /\ (claims[k] # Torn => claims'[k] = claims[k])
BY DEF HInv, Claiming, Presents

\* One call at a time is between creating the claim of a nonce and writing it.
LEMMA ClaimsOfOthers ==
  ASSUME HInv, NEW p \in Proc, Claiming(p), NEW q \in Proc \ {p},
         step[q] = "consume", stage[q] = "write"
  PROVE  Nonce(q) \in DOMAIN claims' /\ claims'[Nonce(q)] = Torn
<1>1. Nonce(q) \in DOMAIN claims /\ claims[Nonce(q)] = Torn /\ task[q].signed
  BY DEF HInv, Presents
<1>2. ASSUME step[p] = "consume", stage[p] = "write" PROVE Nonce(p) # Nonce(q)
  <2>1. task[p].signed
    BY <1>2 DEF HInv, Presents
  <2>2. MayGrant(p) /\ MayGrant(q)
    BY <1>1, <1>2, <2>1 DEF MayGrant, Holds, Nonce
  <2> QED  BY <2>2 DEF HInv, Exclusive
<1> QED  BY <1>1, <1>2 DEF Claiming

\* A claim that a step completes carries the id of the call that took it.
LEMMA NewClaim ==
  ASSUME HInv, NEW p \in Proc, Claiming(p), NEW k \in DOMAIN claims', claims'[k] # Torn
  PROVE  \/ k \in DOMAIN claims /\ claims'[k] = claims[k]
         \/ claims'[k].consumptionId[1] = p
<1>1. CASE step[p] = "consume" /\ stage[p] = "write"
  <2>1. presented[p] = Receipt(p)
    BY <1>1 DEF HInv, Presents
  <2>2. presented[p].consumptionId[1] = p
    BY <2>1 DEF Receipt, createReceipt
  <2> QED  BY <1>1, <2>2 DEF Claiming
<1>2. CASE ~ (step[p] = "consume" /\ stage[p] = "write")
  BY <1>2 DEF Claiming
<1> QED  BY <1>1, <1>2

\* And one process at a time between creating a file and writing it.
LEMMA FilesOfOthers ==
  ASSUME HInv, NEW p \in Proc, Writing(p), NEW q \in Proc \ {p}, pc[q] = "write"
  PROVE  /\ draft[q].sequence \in DOMAIN files' /\ files'[draft[q].sequence] = Torn
         /\ pc'[p] = "write" => draft'[p].sequence # draft[q].sequence
<1>1. draft[q].sequence \in DOMAIN files /\ files[draft[q].sequence] = Torn
  BY DEF HInv, Drafting
<1>2. pc[p] = "write" => draft[p].sequence # draft[q].sequence
  BY DEF HInv, OneWriter
<1> QED  BY <1>1, <1>2 DEF Writing

\* What agreed with the store still does.
LEMMA StillAgrees ==
  ASSUME HInv, NEW p \in Proc, Claiming(p), NEW d \in EventDetails, NEW q, AgreesWith(claims, d, q)
  PROVE  AgreesWith(claims', d, q)
<1>1. d.consumption # None => d.consumption.receipt # Torn
  BY Citations
<1> QED  BY <1>1, ClaimsGrow DEF AgreesWith

\* What a call records is an event's details.
LEMMA RecordedByCalls ==
  ASSUME HInv, NEW p \in Proc, step[p] = "record"
  PROVE  /\ details[p] \in EventDetails
         /\ AgreesWith(claims, details[p], p)
         /\ details[p].allowed = decision[p].allowed
         /\ IsGrant(details[p]) => Favoured(p) /\ NonceOf(details[p]) = Nonce(p)
<1>1. /\ task[p] \in Calls /\ Fingerprintable(task[p].request) /\ decision[p] \in Decisions(task[p])
      /\ AgreesWith(claims, details[p], p)
  BY DEF HInv, Tasked, Recording
<1>2. PICK x \in Consumptions : details[p] = Evidence(task[p], decision[p], x)
  BY DEF HInv, Recording
<1>3. details[p] \in EventDetails
  BY <1>1, <1>2, EvidenceType
<1>4. IsGrant(details[p]) => task[p].signed /\ decision[p].allowed /\ NonceOf(details[p]) = Nonce(p)
  BY <1>1, <1>2, GrantedEvidence DEF Nonce
<1>5. details[p].allowed = decision[p].allowed
  BY <1>1, <1>2, GrantedEvidence
<1> QED  BY <1>1, <1>3, <1>4, <1>5 DEF Favoured, Holds, Nonce

\* The claim of the nonce a signed call presents carries that nonce as its key.
LEMMA PresentedReceipt ==
  ASSUME HInv, NEW p \in Proc, step[p] = "consume", stage[p] # "idle"
  PROVE  /\ presented[p] \in Store!Receipts
         /\ presented[p].key = Nonce(p)
         /\ Own(presented[p], p)
<1>1. task[p] \in Calls /\ task[p].signed
  BY DEF HInv, Tasked, Presents
<1>2. PICK n \in 1 .. MaxConsumes :
        n = consumes[p] /\ presented[p] = createReceipt(<<p, n>>, task[p].envelope)
  BY HarnessAssumption DEF HInv, Types, Presents, Receipt
<1>3. task[p].envelope \in Envelopes
  BY <1>1 DEF Envelopes
<1>4. presented[p] \in Store!Receipts
  BY <1>2, <1>3, StoreReceipts
<1>5. presented[p].key = Nonce(p) /\ Own(presented[p], p)
  BY <1>2 DEF createReceipt, Nonce, Own
<1> QED  BY <1>4, <1>5

LEMMA OthersAreUndisturbed ==
  ASSUME HInv, NEW p \in Proc, Moves(p), NEW q \in Proc \ {p}
  PROVE  Mine(q)'
<1>1. Mine(q) /\ Same(q) /\ Claiming(p) /\ Writing(p)
  BY DEF HInv, Mine, Moves
<1>2. Located(q)' /\ Tasked(q)' /\ Drafting(q)'
  BY <1>1, FilesOfOthers DEF Mine, Same, Located, Tasked, Drafting
<1>3. Presents(q)'
  <2>1. /\ Nonce(q)' = Nonce(q) /\ step'[q] = step[q] /\ stage'[q] = stage[q]
        /\ task'[q] = task[q] /\ decision'[q] = decision[q]
        /\ answer'[q] = answer[q] /\ presented'[q] = presented[q]
        /\ consumes'[q] = consumes[q] /\ Receipt(q)' = Receipt(q)
    BY <1>1 DEF Same, Nonce, Receipt
  <2>2. ASSUME step[q] = "consume" PROVE Presents(q)'
    <3>1. Nonce(q) \in DOMAIN claims => Nonce(q) \in DOMAIN claims'
      BY <1>1, ClaimsGrow
    <3>2. Nonce(q) \in DOMAIN claims /\ claims[Nonce(q)] # Torn => claims'[Nonce(q)] = claims[Nonce(q)]
      BY <1>1, ClaimsGrow
    <3>3. stage[q] = "write" => claims'[Nonce(q)] = Torn
      BY <1>1, <2>2, ClaimsOfOthers
    <3>4. Presents(q)
      BY <1>1 DEF Mine
    <3>5. ASSUME \A k \in DOMAIN claims : claims[k] # Torn => ~ Own(claims[k], q)
          PROVE  \A k \in DOMAIN claims' : claims'[k] # Torn => ~ Own(claims'[k], q)
      BY <1>1, <3>5, NewClaim DEF Own
    <3>6. stage[q] \in {"create", "write", "inspect"} =>
            \A k \in DOMAIN claims' : claims'[k] # Torn => ~ Own(claims'[k], q)
      BY <2>2, <3>4, <3>5 DEF Presents
    <3>7. CASE stage[q] = "idle"
      BY <2>1, <2>2, <3>1, <3>2, <3>4, <3>7 DEF Presents, Own
    <3>8. CASE stage[q] # "idle"
      <4>1. presented[q] # Torn
        BY <2>2, <3>8, PresentedReceipt, HarnessAssumption
      <4> QED  BY <2>1, <2>2, <3>1, <3>2, <3>3, <3>4, <3>6, <3>8, <4>1 DEF Presents, Own
    <3> QED  BY <3>7, <3>8
  <2> QED  BY <2>1, <2>2 DEF Presents
<1>4. Recording(q)'
  <2>1. step[q] = "record" => AgreesWith(claims', details[q], q)
    BY <1>1, RecordedByCalls, StillAgrees
  <2>2. /\ details'[q] = details[q] /\ step'[q] = step[q] /\ task'[q] = task[q]
        /\ decision'[q] = decision[q] /\ consumes'[q] = consumes[q]
    BY <1>1 DEF Same
  <2> QED  BY <1>1, <2>1, <2>2 DEF Mine, Recording, CitesItsCall
<1> QED  BY <1>2, <1>3, <1>4 DEF Mine

\* An event a step records is that of a call that agrees with the store.
LEMMA NewEvent ==
  ASSUME HInv, NEW p \in Proc, Writing(p), NEW k \in Written',
         ~ (k \in Written /\ files'[k] = files[k])
  PROVE  /\ k = draft[p].sequence
         /\ files'[k].details = details[p] /\ files'[k].id[1] = p
         /\ step[p] = "record" /\ pc[p] = "write" /\ pc'[p] = "close"
         /\ step' = step /\ task' = task /\ decision' = decision
<1>1. /\ k = draft[p].sequence /\ files'[k] = draft[p]
      /\ pc[p] = "write" /\ pc'[p] = "close"
      /\ step' = step /\ task' = task /\ decision' = decision
  BY DEF Writing, Written, Ledger!Written
<1>2. draft[p].details = details[p] /\ draft[p].id[1] = p /\ op[p] = "append"
  BY <1>1 DEF HInv, Drafting
<1>3. step[p] = "record"
  BY <1>1, <1>2 DEF HInv, Types, Located, Ledger!Busy
<1> QED  BY <1>1, <1>2, <1>3

LEMMA EvidenceStep ==
  ASSUME HInv, NEW p \in Proc, Moves(p), \A q \in Proc : Mine(q)'
  PROVE  Recorded' /\ EvidenceMatchesStore'
<1> SUFFICES ASSUME NEW k \in Written'
             PROVE  /\ files'[k].details \in EventDetails
                    /\ AgreesWith(claims', files'[k].details, files'[k].id[1])
  BY DEF Recorded, EvidenceMatchesStore, Mine, Recording
<1>0. Writing(p) /\ Claiming(p)
  BY DEF Moves
<1>1. CASE k \in Written /\ files'[k] = files[k]
  BY <1>0, <1>1, StillAgrees DEF HInv, Recorded, EvidenceMatchesStore
<1>2. CASE ~ (k \in Written /\ files'[k] = files[k])
  <2>1. /\ files'[k].details = details[p] /\ files'[k].id[1] = p
        /\ step[p] = "record"
    BY <1>0, <1>2, NewEvent
  <2> QED  BY <1>0, <2>1, RecordedByCalls, StillAgrees
<1> QED  BY <1>1, <1>2

\* A grant that a step records is of a favoured call, the only one of its nonce,
\* and the call may not be granted again.
LEMMA NewGrant ==
  ASSUME HInv, NEW p \in Proc, Writing(p), NEW k \in Grants', ~ (k \in Grants /\ files'[k] = files[k])
  PROVE  /\ k = draft[p].sequence
         /\ MayGrant(p)
         /\ NonceOf(files'[k].details) = Nonce(p)
         /\ Nonce(p)' = Nonce(p)
         /\ ~ MayGrant(p)'
<1>1. k \in Written' /\ IsGrant(files'[k].details)
  BY DEF Grants
<1>2. ~ (k \in Written /\ files'[k] = files[k])
  BY <1>1 DEF Grants
<1>3. /\ k = draft[p].sequence /\ files'[k].details = details[p]
      /\ step[p] = "record" /\ pc[p] = "write" /\ pc'[p] = "close"
      /\ step' = step /\ task' = task
  BY <1>1, <1>2, NewEvent
<1>4. Favoured(p) /\ NonceOf(files'[k].details) = Nonce(p)
  BY <1>1, <1>3, RecordedByCalls
<1> QED  BY <1>3, <1>4 DEF MayGrant, Favoured, Nonce, Ledger!Busy

\* Who may be granted after a step could be before, or has just created its claim.
LEMMA NewChance ==
  ASSUME HInv, NEW p \in Proc, Moves(p), NEW q \in Proc, MayGrant(q)'
  PROVE  /\ Nonce(q)' = Nonce(q)
         /\ Nonce(q) \in DOMAIN claims'
         /\ MayGrant(q) \/ (q = p /\ Nonce(q) \notin DOMAIN claims)
<1>1. CASE q = p
  <2>1. Favoured(p)'
    BY <1>1 DEF MayGrant, Favoured
  <2>2. Nonce(p)' = Nonce(p) /\ (Favoured(p) \/ (Nonce(p) \notin DOMAIN claims /\ Nonce(p) \in DOMAIN claims'))
    BY <2>1 DEF Moves, Favouring
  <2>3. Favoured(p) => MayGrant(p)
    BY <1>1, <2>1 DEF Moves, Favouring, MayGrant, Favoured, Holds
  <2>4. MayGrant(p) => Nonce(p) \in DOMAIN claims'
    BY ClaimsGrow DEF HInv, Exclusive, Moves
  <2> QED  BY <1>1, <2>2, <2>3, <2>4
<1>2. CASE q # p
  <2>1. Same(q)
    BY <1>2 DEF Moves
  <2>2. Nonce(q)' = Nonce(q) /\ MayGrant(q)
    BY <2>1 DEF Same, Nonce, MayGrant, Holds
  <2> QED  BY <2>2, ClaimsGrow DEF HInv, Exclusive, Moves
<1> QED  BY <1>1, <1>2

LEMMA ExclusiveStep ==
  ASSUME HInv, NEW p \in Proc, Moves(p)
  PROVE  Exclusive'
<1>0. Writing(p)
  BY DEF Moves
<1>1. \A k \in Grants : NonceOf(files[k].details) \in DOMAIN claims
  BY DEF HInv, EvidenceMatchesStore, AgreesWith, Grants
<1>2. OneGrantPerNonce'
  <2> SUFFICES ASSUME NEW j \in Grants', NEW k \in Grants',
                      NonceOf(files'[j].details) = NonceOf(files'[k].details)
               PROVE  j = k
    BY DEF OneGrantPerNonce
  <2> DEFINE Old(i) == i \in Grants /\ files'[i] = files[i]
  <2>1. \A i \in Grants' : Old(i) \/ (i = draft[p].sequence /\ MayGrant(p)
                                       /\ NonceOf(files'[i].details) = Nonce(p))
    BY <1>0, NewGrant
  <2>2. MayGrant(p) => \A i \in Grants : NonceOf(files[i].details) # Nonce(p)
    BY DEF HInv, Exclusive
  <2>3. Old(j) /\ Old(k) => j = k
    BY DEF HInv, Exclusive, OneGrantPerNonce
  <2> QED  BY <2>1, <2>2, <2>3
<1>3. ASSUME NEW q \in Proc, MayGrant(q)'
      PROVE  /\ Nonce(q)' \in DOMAIN claims'
             /\ \A k \in Grants' : NonceOf(files'[k].details) # Nonce(q)'
             /\ \A r \in Proc : MayGrant(r)' /\ Nonce(r)' = Nonce(q)' => r = q
  <2>1. /\ Nonce(q)' = Nonce(q) /\ Nonce(q) \in DOMAIN claims'
        /\ MayGrant(q) \/ (q = p /\ Nonce(q) \notin DOMAIN claims)
    BY <1>3, NewChance
  <2>2. \A k \in Grants : NonceOf(files[k].details) # Nonce(q)
    BY <1>1, <2>1 DEF HInv, Exclusive
  <2>3. ASSUME NEW k \in Grants' PROVE NonceOf(files'[k].details) # Nonce(q)
    <3>1. CASE k \in Grants /\ files'[k] = files[k]
      BY <2>2, <3>1
    <3>2. CASE ~ (k \in Grants /\ files'[k] = files[k])
      <4>1. MayGrant(p) /\ NonceOf(files'[k].details) = Nonce(p) /\ ~ MayGrant(p)'
        BY <1>0, <3>2, NewGrant
      <4>2. q # p /\ MayGrant(q)
        BY <1>3, <2>1, <4>1
      <4> QED  BY <4>1, <4>2 DEF HInv, Exclusive
    <3> QED  BY <3>1, <3>2
  <2>4. ASSUME NEW r \in Proc, MayGrant(r)', Nonce(r)' = Nonce(q) PROVE r = q
    <3>1. /\ Nonce(r)' = Nonce(r)
          /\ MayGrant(r) \/ (r = p /\ Nonce(r) \notin DOMAIN claims)
      BY <2>4, NewChance
    <3>2. \A o \in Proc : MayGrant(o) => Nonce(o) \in DOMAIN claims
      BY DEF HInv, Exclusive
    <3>3. MayGrant(r) /\ MayGrant(q) => r = q
      BY <2>4, <3>1 DEF HInv, Exclusive
    <3> QED  BY <2>1, <2>4, <3>1, <3>2, <3>3
  <2> QED  BY <2>1, <2>3, <2>4
<1> QED  BY <1>2, <1>3 DEF Exclusive

LEMMA OneWriterStep ==
  ASSUME HInv, NEW p \in Proc, Moves(p)
  PROVE  OneWriter'
<1>1. \A q \in Proc \ {p} : pc'[q] = pc[q] /\ draft'[q] = draft[q]
  BY DEF Moves, Same
<1>2. \A q \in Proc \ {p} : pc[q] = "write" /\ pc'[p] = "write" =>
        draft'[p].sequence # draft[q].sequence
  BY FilesOfOthers DEF Moves
<1> QED  BY <1>1, <1>2 DEF HInv, OneWriter

LEMMA MovesPreserve ==
  ASSUME HInv, NEW p \in Proc, Moves(p)
  PROVE  HInv'
<1>1. \A q \in Proc : Mine(q)'
  BY OthersAreUndisturbed DEF Moves
<1>2. Types' /\ ClaimsAreReceipts'
  BY DEF Moves
<1>3. Recorded' /\ EvidenceMatchesStore'
  BY <1>1, EvidenceStep
<1> QED  BY <1>1, <1>2, <1>3, OneWriterStep, ExclusiveStep DEF HInv, Mine

-----------------------------------------------------------------------------
(* Every step is such a step. *)

\* A step that leaves the claims alone, and favours no call it did not favour.
LEMMA MovesAlone ==
  ASSUME HInv, NEW p \in Proc, Types', \A q \in Proc \ {p} : Same(q), Mine(p)',
         claims' = claims, consumes[p] <= consumes'[p], Writing(p), Favouring(p)
  PROVE  Moves(p)
<1>1. \A q \in Proc : consumes[q] <= consumes'[q] /\ consumes[q] \in Nat /\ consumes'[q] \in Nat
  BY HarnessAssumption DEF HInv, Types, Same
<1>2. ASSUME NEW k \in DOMAIN claims, claims[k] # Torn
      PROVE  /\ claims[k] \in Store!Receipts
             /\ claims[k].consumptionId[2] <= consumes'[claims[k].consumptionId[1]]
  <2>1. claims[k] \in Store!Receipts /\ claims[k].consumptionId[2] <= consumes[claims[k].consumptionId[1]]
    BY <1>2 DEF HInv, ClaimsAreReceipts
  <2>2. PICK id \in Proc \X (1 .. MaxConsumes) : claims[k].consumptionId = id
    BY <2>1, StoreReceipts DEF createReceipt
  <2> QED  BY <1>1, <2>1, <2>2, HarnessAssumption
<1> QED  BY <1>2 DEF Moves, Claiming, ClaimsAreReceipts

\* A step that calls no consume.
LEMMA SameConsumes ==
  ASSUME HInv, NEW p \in Proc, consumes' = consumes
  PROVE  consumes[p] <= consumes'[p]
BY HarnessAssumption DEF HInv, Types

LEMMA LedgerMoves ==
  ASSUME HInv, NEW p \in Proc, Ledger!Progress(p) \/ Ledger!StorageFails(p),
         UNCHANGED <<store, harness>>
  PROVE  Moves(p)
<1>0. UNCHANGED <<claims, stage, presented, answer, consumes, step, task, decision>>
  BY DEF store, harness
<1>1. LedgerGoesOn(p)
  BY LedgerGoesOnByItself DEF HInv
<1>2. Types'
  BY <1>0, <1>1 DEF LedgerGoesOn, HInv, Types
<1>3. \A q \in Proc \ {p} : Same(q)
  BY <1>0, <1>1 DEF LedgerGoesOn, Same
<1>4. Located(p)' /\ Drafting(p)'
  BY <1>0, <1>1 DEF LedgerGoesOn, Writing, HInv, Located, Drafting, Types, Ledger!Busy
<1>5. Tasked(p)' /\ Presents(p)' /\ Recording(p)'
  BY <1>0, <1>1 DEF LedgerGoesOn, HInv, Tasked, Presents, Recording, Nonce, Receipt, Own, CitesItsCall
<1>6. Favouring(p)
  BY <1>0, <1>1 DEF LedgerGoesOn, Favouring, Favoured, Holds, Nonce, HInv, Types, Ledger!Busy
<1> QED  BY <1>0, <1>1, <1>2, <1>3, <1>4, <1>5, <1>6, MovesAlone, SameConsumes DEF Mine, LedgerGoesOn

\* append is called with evidence of the call that agrees with the store.
LEMMA RecordMoves ==
  ASSUME HInv, NEW p \in Proc, stage[p] = "idle",
         NEW c \in Calls, Fingerprintable(c.request), NEW d \in Decisions(c), NEW x \in Consumptions,
         Record(p, c, d, x), UNCHANGED store,
         AgreesWith(claims, Evidence(c, d, x), p),
         x # None => (x.status = "consumed" <=> Own(x.receipt, p)),
         c.signed /\ d.allowed => Favoured(p) /\ task[p] = c /\ step[p] = "consume"
  PROVE  Moves(p)
<1>0. /\ UNCHANGED <<claims, stage, presented, answer, consumes, files, draft>>
      /\ pc[p] = "idle" /\ pc' = [pc EXCEPT ![p] = "scan"]
      /\ op' = [op EXCEPT ![p] = "append"]
      /\ details' = [details EXCEPT ![p] = Evidence(c, d, x)]
      /\ step' = [step EXCEPT ![p] = "record"]
      /\ task' = [task EXCEPT ![p] = c]
      /\ decision' = [decision EXCEPT ![p] = d]
  BY DEF store, Record, Ledger!Begin, Ledger!Start, Ledger!disk
<1>1. Types'
  BY <1>0 DEF HInv, Types, Ledger!Busy
<1>2. \A q \in Proc \ {p} : Same(q)
  BY <1>0 DEF Same, HInv, Types
<1>3. /\ step'[p] = "record" /\ task'[p] = c /\ decision'[p] = d /\ pc'[p] = "scan"
      /\ op'[p] = "append" /\ details'[p] = Evidence(c, d, x)
  BY <1>0 DEF HInv, Types
<1>4. Mine(p)'
  <2>1. CitesItsCall(p)'
    <3>1. Evidence(c, d, x).consumption = x
      BY GrantedEvidence
    <3> QED  BY <1>0, <1>3, <3>1 DEF CitesItsCall, Own
  <2> QED  BY <1>0, <1>3, <2>1 DEF Mine, Located, Tasked, Presents, Recording, Drafting, Ledger!Busy
<1>5. Writing(p)
  BY <1>0, <1>3 DEF Writing
<1>6. Favouring(p)
  BY <1>0, <1>3 DEF Favouring, Favoured, Holds, Nonce, Ledger!Busy
<1> QED  BY <1>0, <1>1, <1>2, <1>4, <1>5, <1>6, MovesAlone, SameConsumes

LEMMA FirstDecisionType ==
  ASSUME NEW c, NEW now \in Times
  PROVE  FirstDecision(c, now) \in Decisions(c)
BY DEF Decisions

LEMMA UnconsumedMoves ==
  ASSUME HInv, NEW p \in Proc, NEW c \in Calls, AuthorizeUnconsumed(p, c)
  PROVE  Moves(p)
<1>1. PICK now \in Times :
        ~ (c.signed /\ FirstDecision(c, now).allowed) /\ Record(p, c, FirstDecision(c, now), None)
  BY DEF AuthorizeUnconsumed
<1> DEFINE d == FirstDecision(c, now)
<1>2. /\ d \in Decisions(c) /\ None \in Consumptions /\ UNCHANGED store
      /\ step[p] = "ready" /\ Fingerprintable(c.request)
  BY FirstDecisionType DEF Consumptions, AuthorizeUnconsumed, Ready
<1>3. stage[p] = "idle"
  BY <1>2 DEF HInv, Located
<1> HIDE DEF d
<1>4. AgreesWith(claims, Evidence(c, d, None), p)
  BY <1>1, GrantedEvidence DEF AgreesWith, d
<1> QED  BY <1>1, <1>2, <1>3, <1>4, RecordMoves DEF d

\* What consume answers can be cited.
LEMMA AnswerIsCited ==
  ASSUME NEW r \in Store!Receipts
  PROVE  Store!Consumed(r) \in StoreAnswers /\ Store!Replayed(r) \in StoreAnswers
<1>1. PICK id \in Proc \X (1 .. MaxConsumes), a \in Envelopes : r = createReceipt(id, a)
  BY StoreReceipts
<1> QED  BY <1>1 DEF StoreAnswers, Store!Consumed, Store!Replayed

\* What a call that consumes will record is about the nonce it presents.
LEMMA EvidenceOfConsumer ==
  ASSUME HInv, NEW p \in Proc, step[p] = "consume", NEW d, NEW x
  PROVE  LET e == Evidence(task[p], d, x)
         IN  /\ e.consumption = x /\ e.allowed = d.allowed
             /\ IsGrant(e) => d.allowed
             /\ NonceOf(e) = Nonce(p)
<1>1. task[p] \in Calls /\ task[p].signed
  BY DEF HInv, Tasked, Presents
<1> QED  BY <1>1, GrantedEvidence DEF Nonce

LEMMA ConsumedMoves ==
  ASSUME HInv, NEW p \in Proc, Consumed(p)
  PROVE  Moves(p)
<1> DEFINE c == task[p]
           key == Nonce(p)
<1>0. step[p] = "consume" /\ stage[p] = "idle" /\ UNCHANGED store
  BY DEF Consumed
<1>1. /\ c \in Calls /\ Fingerprintable(c.request) /\ c.signed
      /\ decision[p] \in Decisions(c) /\ decision[p].allowed
      /\ denied("store failed closed", TRUE, c.request) \in Decisions(c)
      /\ AlreadyConsumed(c) \in Decisions(c)
  BY <1>0 DEF HInv, Tasked, Presents, Decisions, AlreadyConsumed
<1>2. /\ denied("store failed closed", TRUE, c.request).allowed = FALSE
      /\ AlreadyConsumed(c).allowed = FALSE
  BY DEF denied, AlreadyConsumed
<1>3. answer[p].status # "threw" =>
        /\ key \in DOMAIN claims /\ claims[key] # Torn /\ claims[key] \in Store!Receipts
        /\ \/ answer[p] = Store!Replayed(claims[key]) /\ ~ Own(claims[key], p)
           \/ answer[p] = Store!Consumed(claims[key]) /\ Own(claims[key], p)
  BY <1>0 DEF HInv, Presents, ClaimsAreReceipts, Store!Threw
<1>4. \A d, x :
        LET e == Evidence(c, d, x)
        IN  /\ e.consumption = x /\ e.allowed = d.allowed
            /\ IsGrant(e) => d.allowed
            /\ NonceOf(e) = key
  BY <1>0, EvidenceOfConsumer
<1>5. CASE answer[p].status = "threw"
           /\ Record(p, c, denied("store failed closed", TRUE, c.request), None)
  <2> DEFINE d == denied("store failed closed", TRUE, c.request)
  <2>1. AgreesWith(claims, Evidence(c, d, None), p)
    BY <1>2, <1>4 DEF AgreesWith
  <2>2. None \in Consumptions
    BY DEF Consumptions
  <2> HIDE DEF d
  <2> QED  BY <1>0, <1>1, <1>2, <1>5, <2>1, <2>2, RecordMoves DEF d
<1>6. CASE answer[p].status = "replayed" /\ Record(p, c, AlreadyConsumed(c), answer[p])
  <2>1. /\ answer[p] = Store!Replayed(claims[key]) /\ claims[key] \in Store!Receipts
        /\ ~ Own(claims[key], p)
    BY <1>3, <1>6 DEF Store!Consumed
  <2>2. answer[p] \in Consumptions
    BY <2>1, AnswerIsCited DEF Consumptions
  <2>3. answer[p].receipt = claims[key] /\ key \in DOMAIN claims
    BY <1>3, <1>6, <2>1 DEF Store!Replayed
  <2>4. AgreesWith(claims, Evidence(c, AlreadyConsumed(c), answer[p]), p)
    <3> DEFINE e == Evidence(c, AlreadyConsumed(c), answer[p])
    <3>1. e.consumption = answer[p] /\ e.allowed = FALSE /\ ~ IsGrant(e) /\ NonceOf(e) = key
      BY <1>2, <1>4
    <3> HIDE DEF e
    <3>2. AgreesWith(claims, e, p)
      BY <1>6, <2>3, <3>1 DEF AgreesWith
    <3> QED  BY <3>2 DEF e
  <2> QED  BY <1>0, <1>1, <1>2, <1>6, <2>1, <2>2, <2>3, <2>4, RecordMoves
<1>7. CASE answer[p].status = "consumed" /\ Record(p, c, decision[p], answer[p])
  <2>1. /\ answer[p] = Store!Consumed(claims[key]) /\ claims[key] \in Store!Receipts
        /\ Own(claims[key], p)
    BY <1>3, <1>7 DEF Store!Replayed
  <2>2. answer[p] \in StoreAnswers
    BY <2>1, AnswerIsCited
  <2>3. answer[p].receipt = claims[key] /\ key \in DOMAIN claims
    BY <1>3, <1>7, <2>1 DEF Store!Consumed
  <2>4. answer[p] # None /\ answer[p] \in Consumptions
    BY <2>2, HarnessAssumption DEF Consumptions
  <2>5. AgreesWith(claims, Evidence(c, decision[p], answer[p]), p)
    <3> DEFINE e == Evidence(c, decision[p], answer[p])
    <3>1. e.consumption = answer[p] /\ e.allowed /\ NonceOf(e) = key
      BY <1>1, <1>4
    <3> HIDE DEF e
    <3>2. AgreesWith(claims, e, p)
      BY <1>7, <2>1, <2>3, <2>4, <3>1 DEF AgreesWith, Own
    <3> QED  BY <3>2 DEF e
  <2>6. Favoured(p)
    BY <1>0, <1>1, <1>7 DEF Favoured, Holds, Nonce
  <2> QED  BY <1>0, <1>1, <1>7, <2>1, <2>3, <2>4, <2>5, <2>6, RecordMoves
<1> QED  BY <1>5, <1>6, <1>7 DEF Consumed

-----------------------------------------------------------------------------
(* Steps of the store. *)

\* What the steps of a running call of the store leave alone.
LEMMA StoreStep ==
  ASSUME HInv, NEW p \in Proc, stage[p] # "idle", UNCHANGED <<ledger, harness>>,
         NEW s \in {"idle", "create", "write", "close", "inspect"},
         stage' = [stage EXCEPT ![p] = s],
         DOMAIN presented' = Proc, DOMAIN answer' = Proc, consumes' = consumes,
         \A q \in Proc \ {p} : presented'[q] = presented[q] /\ answer'[q] = answer[q]
  PROVE  /\ step[p] = "consume" /\ pc[p] = "idle"
         /\ Types'
         /\ stage'[p] = s
         /\ step' = step /\ task' = task /\ decision' = decision /\ pc' = pc /\ files' = files
         /\ \A q \in Proc \ {p} : Same(q)
         /\ Located(p)' /\ Tasked(p)' /\ Recording(p)' /\ Drafting(p)'
         /\ Writing(p)
<1>1. UNCHANGED <<files, pc, op, details, draft, step, task, decision>>
  BY DEF ledger, harness
<1>2. step[p] = "consume" /\ pc[p] = "idle"
  BY DEF HInv, Located, Types
<1>3. Types' /\ stage'[p] = s
  BY <1>1 DEF HInv, Types
<1>4. \A q \in Proc \ {p} : Same(q)
  BY <1>1 DEF HInv, Types, Same
<1>5. Located(p)' /\ Tasked(p)' /\ Recording(p)' /\ Drafting(p)'
  BY <1>1, <1>2 DEF HInv, Located, Tasked, Recording, Drafting, CitesItsCall
<1>6. Writing(p)
  BY <1>1, <1>2 DEF Writing
<1> QED  BY <1>1, <1>2, <1>3, <1>4, <1>5, <1>6

LEMMA StoreMoves ==
  ASSUME HInv, NEW p \in Proc, Store!Progress(p) \/ Store!StoreFails(p), UNCHANGED <<ledger, harness>>
  PROVE  Moves(p)
<1>0. /\ \A q \in Proc : stage[q] # "idle" => step[q] = "consume"
      /\ step[p] = "consume" /\ stage[p] # "idle" =>
           /\ presented[p] \in Store!Receipts /\ presented[p].key = Nonce(p)
           /\ Own(presented[p], p) /\ presented[p] = Receipt(p)
           /\ Presents(p) /\ task[p].signed
           /\ answer[p] = Store!Pending
  BY PresentedReceipt DEF HInv, Located, Types, Presents
<1>1. CASE Store!CreateClaim(p)
  <2>1. /\ stage[p] = "create" /\ Nonce(p) \notin DOMAIN claims
        /\ claims' = [k \in DOMAIN claims \cup {Nonce(p)} |-> IF k = Nonce(p) THEN Torn ELSE claims[k]]
        /\ stage' = [stage EXCEPT ![p] = "write"]
        /\ UNCHANGED <<presented, answer, consumes>>
    BY <1>0, <1>1 DEF Store!CreateClaim, Store!Key
  <2>2. /\ step[p] = "consume" /\ stage'[p] = "write" /\ Types'
        /\ step' = step /\ task' = task /\ files' = files /\ decision' = decision
        /\ \A q \in Proc \ {p} : Same(q)
        /\ Located(p)' /\ Tasked(p)' /\ Recording(p)' /\ Drafting(p)'
        /\ Writing(p)
    BY <2>1, StoreStep DEF HInv, Types
  <2>3. Presents(p)'
    BY <1>0, <2>1, <2>2 DEF Presents, Nonce, Receipt, Own
  <2>4. ClaimsAreReceipts'
    BY <2>1 DEF HInv, ClaimsAreReceipts
  <2>5. Claiming(p)
    BY <2>1, <2>2 DEF Claiming
  <2>6. Favouring(p)
    BY <2>1, <2>2 DEF Favouring, Favoured, Nonce
  <2> QED  BY <2>2, <2>3, <2>4, <2>5, <2>6 DEF Moves, Mine
<1>2. CASE Store!FindClaim(p)
  <2>1. /\ stage[p] = "create" /\ Nonce(p) \in DOMAIN claims
        /\ stage' = [stage EXCEPT ![p] = "inspect"]
        /\ UNCHANGED <<claims, presented, answer, consumes>>
    BY <1>0, <1>2 DEF Store!FindClaim, Store!Key
  <2>2. /\ step[p] = "consume" /\ stage'[p] = "inspect" /\ Types'
        /\ step' = step /\ task' = task /\ files' = files /\ decision' = decision
        /\ \A q \in Proc \ {p} : Same(q)
        /\ Located(p)' /\ Tasked(p)' /\ Recording(p)' /\ Drafting(p)'
        /\ Writing(p)
    BY <2>1, StoreStep DEF HInv, Types
  <2>3. Presents(p)'
    BY <1>0, <2>1, <2>2 DEF Presents, Nonce, Receipt, Own
  <2>4. Favouring(p)
    BY <1>0, <2>1, <2>2 DEF Favouring, Favoured, Holds, Nonce, Store!Pending
  <2> QED  BY <2>1, <2>2, <2>3, <2>4, MovesAlone, SameConsumes DEF Mine
<1>3. CASE Store!WriteClaim(p)
  <2>1. /\ stage[p] = "write"
        /\ claims' = [claims EXCEPT ![Nonce(p)] = presented[p]]
        /\ stage' = [stage EXCEPT ![p] = "close"]
        /\ UNCHANGED <<presented, answer, consumes>>
    BY <1>0, <1>3 DEF Store!WriteClaim, Store!Key
  <2>2. /\ step[p] = "consume" /\ stage'[p] = "close" /\ Types'
        /\ step' = step /\ task' = task /\ files' = files /\ decision' = decision
        /\ \A q \in Proc \ {p} : Same(q)
        /\ Located(p)' /\ Tasked(p)' /\ Recording(p)' /\ Drafting(p)'
        /\ Writing(p)
    BY <2>1, StoreStep DEF HInv, Types
  <2>3. Nonce(p) \in DOMAIN claims /\ presented[p] # Torn /\ presented[p] \in Store!Receipts
    BY <1>0, <2>1, <2>2, HarnessAssumption DEF Presents
  <2>4. /\ DOMAIN claims' = DOMAIN claims /\ claims'[Nonce(p)] = presented[p]
        /\ \A k \in DOMAIN claims \ {Nonce(p)} : claims'[k] = claims[k]
    BY <2>1, <2>3
  <2>5. Presents(p)'
    BY <1>0, <2>1, <2>2, <2>3, <2>4 DEF Presents, Nonce, Receipt, Own
  <2>6. ClaimsAreReceipts'
    <3>1. presented[p].consumptionId[2] <= consumes[presented[p].consumptionId[1]]
      BY <1>0, <2>1, <2>2 DEF Own, HInv, Types
    <3> QED  BY <2>1, <2>3, <2>4, <3>1 DEF HInv, ClaimsAreReceipts
  <2>7. Claiming(p)
    BY <2>1, <2>2 DEF Claiming
  <2>8. Favouring(p)
    BY <1>0, <2>1, <2>2 DEF Favouring, Favoured, Holds, Nonce
  <2> QED  BY <2>2, <2>5, <2>6, <2>7, <2>8 DEF Moves, Mine
<1>4. ASSUME NEW r, stage[p] # "idle", Store!Return(p, r), claims' = claims,
             \/ r = Store!Threw
             \/ /\ Nonce(p) \in DOMAIN claims /\ claims[Nonce(p)] # Torn
                /\ r = Store!Replayed(claims[Nonce(p)]) /\ ~ Own(claims[Nonce(p)], p)
             \/ /\ Nonce(p) \in DOMAIN claims /\ claims[Nonce(p)] # Torn
                /\ r = Store!Consumed(claims[Nonce(p)]) /\ Own(claims[Nonce(p)], p)
                /\ stage[p] = "close"
      PROVE  Moves(p)
  <2>1. /\ stage' = [stage EXCEPT ![p] = "idle"]
        /\ answer' = [answer EXCEPT ![p] = r]
        /\ presented' = [presented EXCEPT ![p] = Torn]
        /\ consumes' = consumes
    BY <1>4 DEF Store!Return
  <2>2. /\ step[p] = "consume" /\ stage'[p] = "idle" /\ Types'
        /\ step' = step /\ task' = task /\ files' = files /\ decision' = decision
        /\ \A q \in Proc \ {p} : Same(q)
        /\ Located(p)' /\ Tasked(p)' /\ Recording(p)' /\ Drafting(p)'
        /\ Writing(p)
    BY <1>4, <2>1, StoreStep DEF HInv, Types
  <2>3. answer'[p] = r
    BY <2>1 DEF HInv, Types
  <2>4. r.status = "consumed" => stage[p] = "close"
    BY <1>4 DEF Store!Threw, Store!Replayed
  <2>5. Presents(p)'
    BY <1>0, <1>4, <2>1, <2>2, <2>3 DEF Presents, Nonce, Own
  <2>6. Favouring(p)
    BY <1>0, <2>2, <2>3, <2>4 DEF Favouring, Favoured, Holds, Nonce
  <2> QED  BY <1>4, <2>1, <2>2, <2>5, <2>6, MovesAlone, SameConsumes DEF Mine
<1>5. CASE Store!ReadClaim(p)
  <2>1. /\ stage[p] = "inspect" /\ Nonce(p) \in DOMAIN claims /\ presented[p].key = Nonce(p)
        /\ claims[Nonce(p)] # Torn => ~ Own(claims[Nonce(p)], p)
    BY <1>0, <1>5 DEF Store!ReadClaim, Presents
  <2>2. /\ Store!Return(p, IF claims[Nonce(p)] = Torn THEN Store!Threw
                           ELSE Store!Replayed(claims[Nonce(p)]))
        /\ claims' = claims
    BY <1>5, <2>1 DEF Store!ReadClaim, Store!Key
  <2> QED  BY <1>4, <2>1, <2>2
<1>6. CASE Store!CloseClaim(p)
  <2>1. /\ stage[p] = "close" /\ step[p] = "consume"
        /\ Store!Return(p, Store!Consumed(presented[p])) /\ claims' = claims
    BY <1>0, <1>6 DEF Store!CloseClaim
  <2>2. /\ Nonce(p) \in DOMAIN claims /\ claims[Nonce(p)] = presented[p]
        /\ claims[Nonce(p)] # Torn /\ Own(claims[Nonce(p)], p)
    BY <1>0, <2>1, HarnessAssumption DEF Presents
  <2> QED  BY <1>4, <2>1, <2>2
<1>7. CASE Store!StoreFails(p)
  BY <1>4, <1>7 DEF Store!StoreFails
<1> QED  BY <1>1, <1>2, <1>3, <1>5, <1>6, <1>7 DEF Store!Progress

-----------------------------------------------------------------------------
(* The other steps of a call, and faults. *)

\* authorizeSigned goes on to consume the nonce of an approval that allowed.
LEMMA SignedMoves ==
  ASSUME HInv, NEW p \in Proc, NEW c \in Calls, AuthorizeSigned(p, c)
  PROVE  Moves(p)
<1>1. PICK now \in Times :
        /\ c.signed /\ FirstDecision(c, now).allowed
        /\ Store!Consume(p, c.envelope)
        /\ step' = [step EXCEPT ![p] = "consume"]
        /\ task' = [task EXCEPT ![p] = c]
        /\ decision' = [decision EXCEPT ![p] = FirstDecision(c, now)]
  BY DEF AuthorizeSigned
<1> DEFINE d == FirstDecision(c, now)
           n == consumes[p] + 1
<1>2. d \in Decisions(c)
  BY FirstDecisionType
<1>3. /\ Fingerprintable(c.request) /\ pc[p] = "idle" /\ consumes[p] < MaxConsumes
      /\ UNCHANGED <<files, pc, op, details, draft>>
  BY DEF AuthorizeSigned, Ready, ledger
<1> HIDE DEF d
<1>4. /\ consumes' = [consumes EXCEPT ![p] = n]
      /\ presented' = [presented EXCEPT ![p] = createReceipt(<<p, n>>, c.envelope)]
      /\ answer' = [answer EXCEPT ![p] = Store!Pending]
      /\ stage' = [stage EXCEPT ![p] = "create"]
      /\ claims' = claims
  <2>1. Store!createReceipt(<<p, n>>, c.envelope) = createReceipt(<<p, n>>, c.envelope)
    BY SameReceipts
  <2> QED  BY <1>1, <2>1 DEF Store!Consume
<1>5. n \in 1 .. MaxConsumes
  BY <1>3, HarnessAssumption DEF HInv, Types
<1>6. Types'
  <2>1. n \in 0 .. MaxConsumes
    BY <1>5
  <2> HIDE DEF n
  <2>2. consumes' \in [Proc -> 0 .. MaxConsumes]
    BY <1>4, <2>1 DEF HInv, Types
  <2> QED  BY <1>1, <1>3, <1>4, <2>2 DEF HInv, Types
<1>7. \A q \in Proc \ {p} : Same(q)
  BY <1>1, <1>3, <1>4 DEF HInv, Types, Same
<1>8. /\ step'[p] = "consume" /\ task'[p] = c /\ decision'[p] = d /\ pc'[p] = "idle"
      /\ stage'[p] = "create" /\ answer'[p] = Store!Pending
      /\ presented'[p] = createReceipt(<<p, n>>, c.envelope)
  BY <1>1, <1>3, <1>4 DEF HInv, Types, d
<1> HIDE DEF n
<1>9. Mine(p)'
  <2>1. Located(p)' /\ Drafting(p)'
    BY <1>8 DEF Located, Drafting
  <2>2. Tasked(p)' /\ Recording(p)'
    BY <1>2, <1>3, <1>8 DEF Tasked, Recording
  <2>3. consumes'[p] = n /\ n # 0
    BY <1>4, <1>5 DEF HInv, Types
  <2>4. ASSUME NEW k \in DOMAIN claims, claims[k] # Torn
        PROVE  claims[k].consumptionId # <<p, n>>
    BY <1>3, <2>4 DEF HInv, Types, ClaimsAreReceipts, n
  <2>5. Presents(p)'
    BY <1>1, <1>4, <1>8, <2>3, <2>4 DEF Presents, Receipt, Own, d
  <2> QED  BY <2>1, <2>2, <2>5 DEF Mine
<1>10. Writing(p)
  BY <1>3, <1>8 DEF Writing
<1>11. Favouring(p)
  BY <1>8 DEF Favouring, Favoured, Holds, Store!Pending
<1>12. consumes[p] <= consumes'[p]
  BY <1>4, HarnessAssumption DEF HInv, Types, n
<1> QED  BY <1>4, <1>6, <1>7, <1>9, <1>10, <1>11, <1>12, MovesAlone

\* append returned and digest is called.
LEMMA AppendedMoves ==
  ASSUME HInv, NEW p \in Proc, Appended(p)
  PROVE  Moves(p)
<1>1. /\ UNCHANGED <<claims, stage, presented, answer, consumes, files, draft, task, decision>>
      /\ step[p] = "record" /\ pc[p] = "idle"
      /\ pc' = [pc EXCEPT ![p] = "scan"]
      /\ op' = [op EXCEPT ![p] = "digest"]
      /\ details' = [details EXCEPT ![p] = details[p]]
      /\ step' = [step EXCEPT ![p] = "digest"]
  BY DEF store, Appended, Ledger!Begin, Ledger!Start, Ledger!disk
<1>2. Types'
  BY <1>1 DEF HInv, Types, Ledger!Busy
<1>3. \A q \in Proc \ {p} : Same(q)
  BY <1>1 DEF Same, HInv, Types
<1>4. step'[p] = "digest" /\ pc'[p] = "scan" /\ op'[p] = "digest"
  BY <1>1 DEF HInv, Types
<1>5. Mine(p)'
  BY <1>1, <1>4 DEF HInv, Mine, Located, Tasked, Presents, Recording, Drafting
<1>6. Writing(p)
  BY <1>1, <1>4 DEF Writing
<1>7. Favouring(p)
  BY <1>4 DEF Favouring, Favoured, Holds
<1> QED  BY <1>1, <1>2, <1>3, <1>5, <1>6, <1>7, MovesAlone, SameConsumes

\* A call ends at location l.
LEMMA FinishMoves ==
  ASSUME HInv, NEW p \in Proc, NEW r, NEW l \in {"idle", "down"}, Finish(p, r),
         UNCHANGED <<files, claims, op, details, consumes>>,
         pc' = [pc EXCEPT ![p] = l], stage' = [stage EXCEPT ![p] = "idle"],
         DOMAIN draft' = Proc, DOMAIN presented' = Proc, DOMAIN answer' = Proc,
         \A q \in Proc \ {p} :
           draft'[q] = draft[q] /\ presented'[q] = presented[q] /\ answer'[q] = answer[q]
  PROVE  Moves(p)
<1>1. /\ step' = [step EXCEPT ![p] = "ready"]
      /\ task' = [task EXCEPT ![p] = NoTask]
      /\ decision' = [decision EXCEPT ![p] = NoDecision]
  BY DEF Finish
<1>2. Types'
  BY <1>1 DEF HInv, Types
<1>3. \A q \in Proc \ {p} : Same(q)
  BY <1>1 DEF Same, HInv, Types
<1>4. step'[p] = "ready" /\ pc'[p] = l /\ stage'[p] = "idle"
  BY <1>1 DEF HInv, Types
<1>5. Mine(p)'
  BY <1>4 DEF Mine, Located, Tasked, Presents, Recording, Drafting, Ledger!Busy
<1>6. Writing(p)
  BY <1>4 DEF Writing
<1>7. Favouring(p)
  BY <1>4 DEF Favouring, Favoured, Holds
<1> QED  BY <1>2, <1>3, <1>5, <1>6, <1>7, MovesAlone, SameConsumes

LEMMA ReturnMoves ==
  ASSUME HInv, NEW p \in Proc,
         Digested(p) \/ LedgerThrew(p) \/ \E c \in Calls : AuthorizeThrows(p, c)
  PROVE  Moves(p)
<1>1. UNCHANGED <<ledger, store>> /\ pc[p] = "idle" /\ step[p] # "consume"
  BY DEF Digested, LedgerThrew, AuthorizeThrows, Ready
<1>2. PICK r : Finish(p, r)
  BY DEF Digested, LedgerThrew, AuthorizeThrows
<1>3. stage[p] = "idle"
  BY <1>1 DEF HInv, Types, Located
<1>4. /\ UNCHANGED <<files, claims, op, details, consumes, pc, stage, draft, presented, answer>>
  BY <1>1 DEF ledger, store
<1>5. pc' = [pc EXCEPT ![p] = "idle"] /\ stage' = [stage EXCEPT ![p] = "idle"]
  BY <1>1, <1>3, <1>4 DEF HInv, Types
<1>6. DOMAIN draft' = Proc /\ DOMAIN presented' = Proc /\ DOMAIN answer' = Proc
  BY <1>4 DEF HInv, Types
<1> QED  BY <1>2, <1>4, <1>5, <1>6, FinishMoves

LEMMA CrashMoves ==
  ASSUME HInv, NEW p \in Proc, Crash(p)
  PROVE  Moves(p)
<1>1. /\ UNCHANGED <<files, op, details>>
      /\ pc' = [pc EXCEPT ![p] = "down"]
      /\ draft' = [draft EXCEPT ![p] = Torn]
  BY DEF Crash, Ledger!Crash, Ledger!End
<1>2. /\ UNCHANGED <<claims, consumes>>
      /\ stage' = [stage EXCEPT ![p] = "idle"]
      /\ DOMAIN presented' = Proc /\ DOMAIN answer' = Proc
      /\ \A q \in Proc \ {p} : presented'[q] = presented[q] /\ answer'[q] = answer[q]
  <2>1. CASE stage[p] = "idle"
    BY <2>1 DEF Crash, store, HInv, Types
  <2>2. CASE stage[p] # "idle"
    BY <2>2 DEF Crash, Store!Crash, Store!Return, HInv, Types
  <2> QED  BY <2>1, <2>2
<1>3. /\ DOMAIN draft' = Proc
      /\ \A q \in Proc \ {p} : draft'[q] = draft[q]
  BY <1>1 DEF HInv, Types
<1>4. Finish(p, NoResult)
  BY DEF Crash
<1> QED  BY <1>1, <1>2, <1>3, <1>4, FinishMoves

LEMMA RestartMoves ==
  ASSUME HInv, NEW p \in Proc, Restart(p)
  PROVE  Moves(p)
<1>1. UNCHANGED <<files, draft, claims, stage, presented, answer, consumes, step, task, decision>>
  BY DEF Restart, Ledger!Restart, Ledger!Start, Ledger!disk, store, harness
<1>2. /\ pc[p] = "down" /\ pc' = [pc EXCEPT ![p] = "scan"]
      /\ op' = [op EXCEPT ![p] = "open"]
      /\ details' = [details EXCEPT ![p] = details[p]]
  BY DEF Restart, Ledger!Restart, Ledger!Start
<1>3. step[p] = "ready" /\ step'[p] = "ready"
  BY <1>1, <1>2 DEF HInv, Types, Located
<1>4. Types'
  BY <1>1, <1>2 DEF HInv, Types, Ledger!Busy
<1>5. \A q \in Proc \ {p} : Same(q)
  BY <1>1, <1>2 DEF HInv, Types, Same
<1>6. pc'[p] = "scan" /\ op'[p] = "open" /\ stage'[p] = stage[p]
  BY <1>1, <1>2 DEF HInv, Types
<1>7. Mine(p)'
  BY <1>3, <1>6 DEF HInv, Mine, Located, Tasked, Presents, Recording, Drafting
<1>8. Writing(p)
  BY <1>1, <1>6 DEF Writing
<1>9. Favouring(p)
  BY <1>3 DEF Favouring, Favoured, Holds
<1> QED  BY <1>1, <1>4, <1>5, <1>7, <1>8, <1>9, MovesAlone, SameConsumes

\* What p does.
Acting(p) == Authorize(p) \/ Progress(p) \/ Crash(p) \/ Restart(p) \/ StorageFails(p)

LEMMA ActingMoves ==
  ASSUME HInv, NEW p \in Proc, Acting(p)
  PROVE  Moves(p)
<1>1. CASE Authorize(p)
  BY <1>1, ReturnMoves, SignedMoves, UnconsumedMoves DEF Authorize
<1>2. CASE Progress(p)
  BY <1>2, StoreMoves, LedgerMoves, ConsumedMoves, AppendedMoves, ReturnMoves DEF Progress
<1>3. CASE StorageFails(p)
  BY <1>3, StoreMoves, LedgerMoves DEF StorageFails
<1> QED  BY <1>1, <1>2, <1>3, CrashMoves, RestartMoves DEF Acting

\* Every step of the specification moves one process.
LEMMA EveryStepMoves ==
  ASSUME HInv, Next
  PROVE  \E p \in Proc : Moves(p)
BY ActingMoves DEF Next, Acting

-----------------------------------------------------------------------------
(* The invariant, and what follows from it. *)

LEMMA InvariantInit == Init => HInv
<1> SUFFICES ASSUME Init PROVE HInv
  OBVIOUS
<1>1. /\ files = << >> /\ claims = << >>
      /\ pc = [p \in Proc |-> "idle"] /\ op = [p \in Proc |-> "none"]
      /\ step = [p \in Proc |-> "ready"] /\ stage = [p \in Proc |-> "idle"]
      /\ consumes = [p \in Proc |-> 0]
  BY DEF Init, Ledger!Init, Store!Init
<1>2. Types
  <2>1. 0 \in 0 .. MaxConsumes
    BY HarnessAssumption
  <2>2. /\ DOMAIN details = Proc /\ DOMAIN draft = Proc
        /\ DOMAIN presented = Proc /\ DOMAIN answer = Proc
    BY DEF Init, Ledger!Init, Store!Init
  <2> QED  BY <1>1, <2>1, <2>2 DEF Init, Types, Ledger!Busy
<1>3. \A p \in Proc : Mine(p)
  BY <1>1 DEF Mine, Located, Tasked, Presents, Recording, Drafting, Ledger!Busy
<1>4. Written = {} /\ DOMAIN claims = {}
  BY <1>1 DEF Written, Ledger!Written
<1>5. ClaimsAreReceipts /\ Recorded /\ EvidenceMatchesStore
  BY <1>1, <1>4 DEF ClaimsAreReceipts, Recorded, EvidenceMatchesStore
<1>6. Exclusive /\ OneWriter
  BY <1>1, <1>4 DEF OneWriter, Exclusive, MayGrant, OneGrantPerNonce, Grants
<1> QED  BY <1>2, <1>3, <1>5, <1>6 DEF HInv, Mine

LEMMA InvariantStep == HInv /\ [Next]_vars => HInv'
<1> SUFFICES ASSUME HInv, [Next]_vars PROVE HInv'
  OBVIOUS
<1>1. CASE Next
  BY <1>1, EveryStepMoves, MovesPreserve
<1>2. CASE UNCHANGED vars
  <2> USE <1>2 DEF vars, ledger, store, harness
  <2>1. Types' /\ ClaimsAreReceipts'
    BY DEF HInv, Types, ClaimsAreReceipts
  <2>2. \A p \in Proc : Nonce(p)' = Nonce(p) /\ (MayGrant(p)' <=> MayGrant(p))
    BY DEF Nonce, MayGrant, Holds
  <2>3. Written' = Written /\ Grants' = Grants
    BY DEF Written, Ledger!Written, Grants
  <2>4. \A p \in Proc : Mine(p)'
    BY DEF HInv, Mine, Located, Tasked, Presents, Recording, Drafting, Nonce, Receipt, Own, CitesItsCall
  <2>5. Recorded' /\ EvidenceMatchesStore'
    BY <2>3 DEF HInv, Recorded, EvidenceMatchesStore, CitesItsCall
  <2>6. Exclusive' /\ OneWriter'
    BY <2>2, <2>3 DEF HInv, OneWriter, Exclusive, OneGrantPerNonce
  <2> QED  BY <2>1, <2>4, <2>5, <2>6 DEF HInv, Mine
<1> QED  BY <1>1, <1>2

LEMMA Invariant == Spec => []HInv
BY InvariantInit, InvariantStep, PTL DEF Spec

\* Every variable has its type in every reachable state.
THEOREM TypeCorrect == Spec => []TypeOK
<1>1. HInv => TypeOK
  BY DEF HInv, Types, Located, Tasked, Recorded, Written, TypeOK
<1> QED  BY <1>1, Invariant, PTL

\* Whichever processes present it, and whatever crashes and fails in between,
\* one nonce is behind at most one recorded grant.
THEOREM OneGrantPerNonceAlways == Spec => []OneGrantPerNonce
<1>1. HInv => OneGrantPerNonce
  BY DEF HInv, Exclusive
<1> QED  BY <1>1, Invariant, PTL

\* Every recorded event agrees with the consumption store about its nonce.
THEOREM EvidenceAlwaysMatchesStore == Spec => []EvidenceMatchesStore
<1>1. HInv => EvidenceMatchesStore
  BY DEF HInv
<1> QED  BY <1>1, Invariant, PTL

-----------------------------------------------------------------------------
(* Authority. *)

\* A consequential request passes with an approval of that very intent.
LEMMA ApprovalDenies ==
  ASSUME NEW request, NEW approval, NEW now, ApprovalDenial(request, approval, now) = None
  PROVE  approval # None /\ approval.requestFingerprint = fingerprintRequest(request)
BY NoneAssumption DEF ApprovalDenial

LEMMA DenialDenies ==
  ASSUME NEW principal, NEW request, NEW approval, NEW now,
         Denial(principal, request, approval, now) = None
  PROVE  /\ request.action \in principal.grants
         /\ principal.kind = "model" => request.action \notin MODEL_HARD_DENY
         /\ request.action \in CONSEQUENTIAL =>
              approval # None /\ approval.requestFingerprint = fingerprintRequest(request)
BY NoneAssumption, ApprovalDenies DEF Denial

\* What a decision that allows implies about the call's arguments.
LEMMA AllowedIsAuthorized ==
  ASSUME NEW c \in Calls, NEW d \in Decisions(c), d.allowed
  PROVE  \E now \in Times : Denial(c.principal, c.request, c.approval, now) = None
<1>1. PICK now \in Times : d = FirstDecision(c, now)
  BY AllowedIsFirst
<1>2. \A reason, review : denied(reason, review, c.request).allowed = FALSE
  BY DEF denied
<1>3. d = evaluateAuthority(c.principal, c.request, c.approval, now)
  BY <1>1, <1>2 DEF FirstDecision
<1> QED  BY <1>2, <1>3 DEF evaluateAuthority

LEMMA VerifiedByActiveKey ==
  ASSUME NEW signed, NEW trustedKeys, verifySignedHumanApproval(signed, trustedKeys)
  PROVE  /\ ValidInterval(signed.approval)
         /\ \E i \in DOMAIN trustedKeys :
              /\ trustedKeys[i].approvedBy = signed.approval.approvedBy
              /\ trustedKeys[i].status = "active"
              /\ signed.signature.by = trustedKeys[i].key
BY DEF verifySignedHumanApproval, Signable, TrustedKeys

\* An action that is allowed was granted, and when consequential approved for
\* its intent, on the signed path under an active key of its approver.
THEOREM GrantsAlwaysAreApproved == Spec => []GrantsAreApproved
<1>1. HInv => GrantsAreApproved
  <2> SUFFICES ASSUME HInv, NEW p \in Proc, step[p] = "record", decision[p].allowed
               PROVE  LET c == task[p]
                      IN  /\ c.request.action \in c.principal.grants
                          /\ c.principal.kind = "model" => c.request.action \notin MODEL_HARD_DENY
                          /\ c.request.action \in CONSEQUENTIAL =>
                               /\ c.approval # None
                               /\ c.approval.requestFingerprint = fingerprintRequest(c.request)
                          /\ c.signed => ValidInterval(c.approval)
                          /\ c.signed =>
                               \E i \in DOMAIN c.trustedKeys :
                                 /\ c.trustedKeys[i].approvedBy = c.approval.approvedBy
                                 /\ c.trustedKeys[i].status = "active"
                                 /\ c.envelope.signature.by = c.trustedKeys[i].key
    BY DEF GrantsAreApproved
  <2>1. task[p] \in Calls /\ decision[p] \in Decisions(task[p])
    BY DEF HInv, Tasked
  <2>2. PICK now \in Times : Denial(task[p].principal, task[p].request, task[p].approval, now) = None
    BY <2>1, AllowedIsAuthorized
  <2>3. task[p].signed => /\ verifySignedHumanApproval(task[p].envelope, task[p].trustedKeys)
                          /\ task[p].approval = task[p].envelope.approval
    BY <2>1, AllowedIsVerified, CallsAssumption
  <2> QED  BY <2>2, <2>3, DenialDenies, VerifiedByActiveKey
<1> QED  BY <1>1, Invariant, PTL

-----------------------------------------------------------------------------
(* Steps. *)

\* Only a call that was allowed spends a nonce.
THEOREM DenialsAlwaysSpendNothing == Spec => DenialsSpendNothing
<1>1. HInv /\ [Next]_vars =>
        [\A k \in DOMAIN claims' \ DOMAIN claims :
           \E p \in Proc :
             /\ step[p] = "consume"
             /\ decision[p].allowed
             /\ consumptionKey(task[p].envelope) = k
             /\ verifySignedHumanApproval(task[p].envelope, task[p].trustedKeys)]_vars
  <2> SUFFICES ASSUME HInv, Next, NEW k \in DOMAIN claims' \ DOMAIN claims
               PROVE  \E p \in Proc :
                        /\ step[p] = "consume"
                        /\ decision[p].allowed
                        /\ consumptionKey(task[p].envelope) = k
                        /\ verifySignedHumanApproval(task[p].envelope, task[p].trustedKeys)
    OBVIOUS
  <2>1. PICK p \in Proc : Moves(p)
    BY EveryStepMoves
  <2>2. step[p] = "consume" /\ k = Nonce(p)
    BY <2>1 DEF Moves, Claiming
  <2>3. decision[p].allowed /\ verifySignedHumanApproval(task[p].envelope, task[p].trustedKeys)
    BY <2>2, AllowedIsVerified DEF HInv, Tasked, Presents
  <2> QED  BY <2>2, <2>3 DEF Nonce
<1> QED  BY <1>1, Invariant, PTL DEF Spec, DenialsSpendNothing

\* A nonce spent in vain is never granted with later.
THEOREM SpentInVainAlwaysStays == Spec => SpentInVainStays
<1>1. HInv /\ [Next]_vars =>
        [\A key \in DOMAIN claims : SpentInVain(key) => SpentInVain(key)']_vars
  <2> SUFFICES ASSUME HInv, Next, NEW key \in DOMAIN claims, SpentInVain(key)
               PROVE  SpentInVain(key)'
    OBVIOUS
  <2>1. PICK p \in Proc : Moves(p)
    BY EveryStepMoves
  <2>2. key \in DOMAIN claims'
    BY <2>1, ClaimsGrow DEF Moves
  <2>3. ASSUME NEW k \in Grants' PROVE NonceOf(files'[k].details) # key
    <3>1. CASE k \in Grants /\ files'[k] = files[k]
      BY <3>1 DEF SpentInVain
    <3>2. CASE ~ (k \in Grants /\ files'[k] = files[k])
      BY <2>1, <3>2, NewGrant DEF Moves, MayGrant, SpentInVain
    <3> QED  BY <3>1, <3>2
  <2>4. ASSUME NEW q \in Proc, Holds(q, key)' PROVE FALSE
    <3>1. Nonce(q)' = key
      BY <2>4 DEF Holds, Nonce
    <3>2. CASE q = p
      <4>1. Favoured(p)'
        BY <2>4, <3>1, <3>2 DEF Favoured
      <4>2. Nonce(p) = key /\ (Favoured(p) \/ Nonce(p) \notin DOMAIN claims)
        BY <2>1, <3>1, <3>2, <4>1 DEF Moves, Favouring
      <4> QED  BY <4>2 DEF Favoured, SpentInVain
    <3>3. CASE q # p
      <4>1. Same(q)
        BY <2>1, <3>3 DEF Moves
      <4>2. Holds(q, key)
        BY <2>4, <4>1 DEF Holds, Same
      <4> QED  BY <4>2 DEF SpentInVain
    <3> QED  BY <3>2, <3>3
  <2> QED  BY <2>2, <2>3, <2>4 DEF SpentInVain
<1> QED  BY <1>1, Invariant, PTL DEF Spec, SpentInVainStays

-----------------------------------------------------------------------------
(* Refinement. *)

\* What Approvals takes for grants.
Granted == {<<NonceOf(files[k].details), k>> : k \in Grants}
NonceKeys == {consumptionKey(e) : e \in Envelopes}

\* A step that records no event changes no grant.
LEMMA SameGrants ==
  ASSUME NEW p \in Proc, Writing(p), pc[p] # "write"
  PROVE  Granted' = Granted
<1>1. Written' = Written /\ \A k \in Written : files'[k] = files[k]
  BY DEF Writing, Written, Ledger!Written
<1>2. Grants' = Grants
  BY <1>1 DEF Grants
<1> QED  BY <1>1, <1>2 DEF Granted, Grants

\* Writing an event grants at most its call's nonce.
LEMMA WriteGrants ==
  ASSUME HInv, NEW p \in Proc, Writing(p), pc[p] = "write", claims' = claims, Granted' # Granted
  PROVE  \E n \in NonceKeys : Approvals!Grant(n)
<1> DEFINE s == draft[p].sequence
<1>1. /\ s \in DOMAIN files /\ files[s] = Torn
      /\ draft[p].details = details[p] /\ op[p] = "append"
  BY DEF HInv, Drafting
<1>2. step[p] = "record"
  BY <1>1 DEF HInv, Types, Located, Ledger!Busy
<1>3. s \notin Written /\ Written' \subseteq Written \cup {s}
      /\ \A k \in Written : k \in Written' /\ files'[k] = files[k]
  BY <1>1 DEF Writing, Written, Ledger!Written
<1>4. Grants \subseteq Grants' /\ Grants' \subseteq Grants \cup {s} /\ s \notin Grants
  BY <1>3 DEF Grants
<1>5. \A k \in Grants : files'[k] = files[k]
  BY <1>3 DEF Grants
<1>6. s \in Grants'
  BY <1>4, <1>5 DEF Granted
<1>7. files'[s].details = details[p]
  BY <1>1, <1>6 DEF Writing, Grants, Written, Ledger!Written
<1>8. IsGrant(details[p])
  BY <1>6, <1>7 DEF Grants
<1>9. Favoured(p) /\ NonceOf(details[p]) = Nonce(p) /\ MayGrant(p)
  BY <1>2, <1>8, RecordedByCalls DEF MayGrant, Favoured, Ledger!Busy
<1>10. Nonce(p) \in DOMAIN claims /\ \A k \in Grants : NonceOf(files[k].details) # Nonce(p)
  BY <1>9 DEF HInv, Exclusive
<1>11. Nonce(p) \in NonceKeys
  BY <1>2, <1>9 DEF HInv, Tasked, Favoured, Holds, NonceKeys, Envelopes, Nonce
<1>12. Grants' = Grants \cup {s}
  BY <1>4, <1>6
<1>13. Granted' = Granted \cup {<<Nonce(p), s>>}
  BY <1>5, <1>7, <1>9, <1>12 DEF Granted
<1>14. \A grant \in Granted : grant[1] # Nonce(p) /\ grant[2] # s
  BY <1>4, <1>10 DEF Granted
<1> HIDE DEF s
<1>15. PICK n \in NonceKeys : n = Nonce(p)
  BY <1>11
<1>16. Approvals!Grant(n)
  BY <1>10, <1>13, <1>14, <1>15 DEF Approvals!Grant, Granted
<1> QED  BY <1>16

\* A claim is created, and spends its nonce, or an event is written.
LEMMA RefinedStep ==
  ASSUME HInv, Next, ~ (DOMAIN claims' = DOMAIN claims /\ Granted' = Granted)
  PROVE  \E n \in NonceKeys : Approvals!Spend(n) \/ Approvals!Grant(n)
<1>1. PICK p \in Proc : Moves(p)
  BY EveryStepMoves
<1>2. Claiming(p) /\ Writing(p)
  BY <1>1 DEF Moves
<1>3. CASE claims' = claims
  <2>1. pc[p] = "write"
    BY <1>2, <1>3, SameGrants
  <2> QED  BY <1>2, <1>3, <2>1, WriteGrants
<1>4. CASE claims' # claims
  <2>1. files' = files /\ step[p] = "consume" /\ task[p].signed /\ task[p] \in Calls
    BY <1>2, <1>4 DEF Claiming, HInv, Tasked, Presents
  <2>2. Granted' = Granted
    BY <2>1 DEF Granted, Grants, Written, Ledger!Written
  <2>3. Nonce(p) \notin DOMAIN claims /\ DOMAIN claims' = DOMAIN claims \cup {Nonce(p)}
    BY <1>2, <1>4, <2>2 DEF Claiming
  <2>4. PICK n \in NonceKeys : n = Nonce(p)
    BY <2>1 DEF NonceKeys, Envelopes, Nonce
  <2>5. Approvals!Spend(n)
    BY <2>2, <2>3, <2>4 DEF Approvals!Spend, Granted
  <2> QED  BY <2>5
<1> QED  BY <1>3, <1>4

\* The two directories together, whatever fails between them, implement the
\* single use of nonces.
THEOREM DirectoriesImplementSingleUse == Spec => ImplementsSingleUse
<1>1. Init => Approvals!Init
  BY DEF Init, Ledger!Init, Store!Init, Approvals!Init, Grants, Written, Ledger!Written
<1>2. HInv /\ [Next]_vars => [Approvals!Next]_<<DOMAIN claims, Granted>>
  <2>1. ASSUME UNCHANGED vars PROVE claims' = claims /\ Granted' = Granted
    BY <2>1 DEF vars, ledger, store, Granted, Grants, Written, Ledger!Written
  <2>2. ASSUME HInv, Next, ~ (DOMAIN claims' = DOMAIN claims /\ Granted' = Granted)
        PROVE  \E n \in NonceKeys : Approvals!Spend(n) \/ Approvals!Grant(n)
    BY <2>2, RefinedStep
  <2> QED  BY <2>1, <2>2 DEF Approvals!Next, NonceKeys
<1> QED  BY <1>1, <1>2, Invariant, PTL DEF Spec, ImplementsSingleUse, Approvals!Spec, Granted
=============================================================================
