-------------------------- MODULE HarnessInvariant --------------------------
(***************************************************************************)
(* The inductive invariant of DurableHarness: how the place of a process   *)
(* in its call, the two directories and the call's own locals hang         *)
(* together between any two system calls.  HarnessProofs proves it.        *)
(***************************************************************************)
EXTENDS HarnessProperties

Types ==
  /\ step \in [Proc -> {"ready", "consume", "record", "digest"}]
  /\ pc \in [Proc -> Ledger!Busy \cup {"down", "idle"}]
  /\ stage \in [Proc -> {"idle", "create", "write", "close", "inspect"}]
  /\ consumes \in [Proc -> 0 .. MaxConsumes]
  /\ Proc = DOMAIN op /\ Proc = DOMAIN details /\ Proc = DOMAIN draft
  /\ Proc = DOMAIN presented /\ Proc = DOMAIN answer
  /\ Proc = DOMAIN task /\ Proc = DOMAIN decision

\* Between calls a process only constructs its ledger; within one it runs the
\* method its step is at.
Located(p) ==
  /\ step[p] = "ready" => stage[p] = "idle" /\ (pc[p] \in Ledger!Busy => op[p] = "open")
  /\ step[p] = "consume" => pc[p] = "idle"
  /\ step[p] = "record" => stage[p] = "idle" /\ pc[p] # "down" /\ op[p] = "append"
  /\ step[p] = "digest" => stage[p] = "idle" /\ pc[p] # "down" /\ op[p] = "digest"

\* The arguments and the decision are those of a call that got past its fingerprint.
Tasked(p) ==
  step[p] # "ready" =>
    /\ task[p] \in Calls
    /\ Fingerprintable(task[p].request)
    /\ decision[p] \in Decisions(task[p])

\* The nonce the process's call presents.
Nonce(p) == consumptionKey(task[p].envelope)

\* The receipt prepared by the consume that p runs, and the id that receipt carries.
Receipt(p) == createReceipt(<<p, consumes[p]>>, task[p].envelope)
Own(r, p) == r.consumptionId = <<p, consumes[p]>>

\* A nonce is presented by a call that was allowed; what consume answers is about
\* the claim that is in the store, which is the call's own if it consumed.
Presents(p) ==
  step[p] = "consume" =>
    /\ task[p].signed
    /\ decision[p].allowed
    /\ consumes[p] # 0
    /\ stage[p] # "idle" => answer[p] = Store!Pending /\ presented[p] = Receipt(p)
    /\ stage[p] \in {"create", "write", "inspect"} =>
         \A k \in DOMAIN claims : claims[k] # Torn => ~ Own(claims[k], p)
    /\ stage[p] \in {"write", "close", "inspect"} => Nonce(p) \in DOMAIN claims
    /\ stage[p] = "write" => claims[Nonce(p)] = Torn
    /\ stage[p] = "close" => claims[Nonce(p)] = presented[p]
    /\ stage[p] = "idle" =>
         \/ answer[p] = Store!Threw
         \/ /\ Nonce(p) \in DOMAIN claims
            /\ claims[Nonce(p)] # Torn
            /\ \/ answer[p] = Store!Replayed(claims[Nonce(p)]) /\ ~ Own(claims[Nonce(p)], p)
               \/ answer[p] = Store!Consumed(claims[Nonce(p)]) /\ Own(claims[Nonce(p)], p)

\* What append was given is evidence of the call, and agrees with the store.
Recording(p) ==
  step[p] = "record" =>
    /\ \E x \in Consumptions : details[p] = Evidence(task[p], decision[p], x)
    /\ AgreesWith(claims, details[p], p)
    /\ CitesItsCall(p)

\* An event that was built records what append was given, under the process's
\* id, and is written into a file that has no contents.
Drafting(p) ==
  /\ pc[p] \in {"create", "write", "close"} =>
       op[p] = "append" /\ draft[p].details = details[p] /\ draft[p].id[1] = p
  /\ pc[p] = "write" =>
       draft[p].sequence \in DOMAIN files /\ files[draft[p].sequence] = Torn

\* A complete claim is a receipt of a consume that was called.
ClaimsAreReceipts ==
  \A k \in DOMAIN claims : claims[k] # Torn =>
    /\ claims[k] \in Store!Receipts
    /\ claims[k].consumptionId[2] <= consumes[claims[k].consumptionId[1]]

Recorded == \A k \in Written : files[k].details \in EventDetails

\* No two processes write into the same file.
OneWriter ==
  \A p, q \in Proc :
    pc[p] = "write" /\ pc[q] = "write" /\ draft[p].sequence = draft[q].sequence => p = q

\* A call that created the claim of its nonce, and whose grant is not written yet.
MayGrant(p) ==
  /\ step[p] # "ready"
  /\ Holds(p, Nonce(p))
  /\ step[p] = "record" => pc[p] \in Ledger!Busy \ {"close"}

\* A nonce has one call that may be granted with it or one grant, never two of these.
Exclusive ==
  /\ \A p \in Proc :
       MayGrant(p) =>
         /\ Nonce(p) \in DOMAIN claims
         /\ \A k \in Grants : NonceOf(files[k].details) # Nonce(p)
         /\ \A q \in Proc : MayGrant(q) /\ Nonce(q) = Nonce(p) => q = p
  /\ OneGrantPerNonce

HInv ==
  /\ Types
  /\ \A p \in Proc :
       Located(p) /\ Tasked(p) /\ Presents(p) /\ Recording(p) /\ Drafting(p)
  /\ ClaimsAreReceipts
  /\ Recorded
  /\ EvidenceMatchesStore
  /\ OneWriter
  /\ Exclusive
=============================================================================
