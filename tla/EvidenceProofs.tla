---------------------------- MODULE EvidenceProofs --------------------------
(***************************************************************************)
(* Proofs about the evidence of DurableHarness: the chain in the ledger's  *)
(* directory, and that every result is recorded in it, for any set of      *)
(* processes and calls and any number of crashes and failures.  What is    *)
(* proved of a ledger and of a store is then brought to the two that the   *)
(* harness shares, which gives the bound on the steps of a call.           *)
(***************************************************************************)
EXTENDS EvidenceInvariant, HarnessProofs, FiniteSetTheorems, SequenceTheorems

-----------------------------------------------------------------------------
(* Hashes. *)

\* A hash extends itself, and what it extends is extended by the next one.
LEMMA HashExtendsItself ==
  ASSUME NEW S, NEW t \in Seq(S)
  PROVE  IsPrefix(t, t)
  BY DEF IsPrefix

LEMMA NextHashExtends ==
  ASSUME NEW S, NEW s \in Seq(S), NEW t \in Seq(S), NEW e \in S, IsPrefix(s, t)
  PROVE  IsPrefix(s, Append(t, e))
<1> DEFINE u == Append(t, e)
<1>1. /\ Len(s) \in Nat /\ Len(t) \in Nat /\ Len(s) <= Len(t) /\ Len(u) = Len(t) + 1
      /\ u \in Seq(S)
  BY DEF IsPrefix
<1>2. \A i \in 1 .. Len(t) : u[i] = t[i]
  OBVIOUS
<1>3. SubSeq(u, 1, Len(s)) = SubSeq(t, 1, Len(s))
  BY <1>1, <1>2
<1> QED  BY <1>1, <1>3 DEF IsPrefix

-----------------------------------------------------------------------------
(* Reading the directory. *)

\* The sets of the ledger are counted as sets are counted here.
LEMMA SameCardinality == \A S : Ledger!Cardinality(S) = Cardinality(S)
BY DEF Ledger!Cardinality, Cardinality

\* What a verified listing proves: it is of the first m events, and its last hash
\* is that of event m.
LEMMA VerifiedListing ==
  ASSUME Chained, NEW S \in SUBSET DOMAIN files, NEW names \in Ledger!SortedNames(S),
         Ledger!Readable(Ledger!Contents(names))
  PROVE  LET events == Ledger!Contents(names)
             m == Len(events)
         IN  /\ m \in Nat
             /\ S = 1 .. m
             /\ S \subseteq Written
             /\ m > 0 => Ledger!HeadHash(events) = files[m].eventHash
             /\ m = 0 => Ledger!HeadHash(events) = << >>
<1> DEFINE events == Ledger!Contents(names)
           m == Cardinality(S)
<1>1. IsFiniteSet(S) /\ m \in Nat
  BY FS_Subset, FS_CardinalityType DEF Chained
<1>2. names \in [1 .. m -> S]
  BY SameCardinality DEF Ledger!SortedNames
<1>3. events \in [1 .. m -> {files[k] : k \in S}]
  BY <1>2 DEF Ledger!Contents
<1>4. events \in Seq({files[k] : k \in S}) /\ Len(events) = m
  BY <1>1, <1>3, SeqDef, LenProperties
<1>5. ASSUME NEW i \in 1 .. m PROVE names[i] = i /\ i \in Written /\ events[i] = files[i]
  <2>1. events[i] = files[names[i]] /\ names[i] \in S
    BY <1>2 DEF Ledger!Contents
  <2>2. events[i] # Torn /\ events[i].sequence = i
    BY <1>4 DEF Ledger!Readable, Ledger!verifyAuditChain
  <2>3. names[i] \in Written
    BY <2>1, <2>2 DEF Written, Ledger!Written
  <2>4. files[names[i]].sequence = names[i]
    BY <2>3 DEF Chained
  <2> QED  BY <2>1, <2>2, <2>3, <2>4
<1>6. S = 1 .. m
  <2>1. 1 .. m \subseteq S
    BY <1>2, <1>5
  <2>2. Cardinality(1 .. m) = m
    BY <1>1, FS_Interval
  <2> QED  BY <1>1, <2>1, <2>2, FS_Subset
<1>7. S \subseteq Written
  BY <1>5, <1>6
<1>8. ASSUME m > 0 PROVE Ledger!HeadHash(events) = files[m].eventHash
  <2>1. events # << >>
    BY <1>1, <1>4, <1>8, EmptySeq
  <2>2. events[m] = files[m]
    BY <1>1, <1>5, <1>8
  <2> QED  BY <1>4, <2>1, <2>2 DEF Ledger!HeadHash
<1>9. ASSUME m = 0 PROVE Ledger!HeadHash(events) = << >>
  BY <1>4, <1>9, EmptySeq DEF Ledger!HeadHash, Ledger!GENESIS_HASH
<1> QED  BY <1>1, <1>4, <1>6, <1>7, <1>8, <1>9

\* The hash a verified listing ends with is one, and extends that of its every event.
LEMMA ListedHash ==
  ASSUME Chained, NEW S \in SUBSET DOMAIN files, NEW names \in Ledger!SortedNames(S),
         Ledger!Readable(Ledger!Contents(names))
  PROVE  LET hash == Ledger!HeadHash(Ledger!Contents(names))
         IN  /\ hash \in Ledger!Hashes
             /\ \A j \in S : files[j].eventHash \in Ledger!Hashes /\ IsPrefix(files[j].eventHash, hash)
<1> DEFINE m == Len(Ledger!Contents(names))
           hash == Ledger!HeadHash(Ledger!Contents(names))
<1>1. /\ m \in Nat /\ S = 1 .. m /\ S \subseteq Written
      /\ m > 0 => hash = files[m].eventHash
      /\ m = 0 => hash = << >>
  BY VerifiedListing
<1> HIDE DEF m, hash
<1>2. \A j \in S : files[j].eventHash \in Ledger!Hashes
  BY <1>1 DEF Chained, Ledger!Events
<1>3. CASE m = 0
  <2>1. << >> \in Ledger!Hashes
    BY EmptySeq DEF Ledger!Hashes
  <2> QED  BY <1>1, <1>3, <2>1 DEF hash
<1>4. CASE m > 0
  <2>1. m \in S /\ m \in Written
    BY <1>1, <1>4
  <2>2. \A j \in S : IsPrefix(files[j].eventHash, files[m].eventHash)
    BY <1>1, <2>1 DEF Chained
  <2> QED  BY <1>1, <1>2, <1>4, <2>1, <2>2 DEF hash
<1> QED  BY <1>1, <1>3, <1>4

-----------------------------------------------------------------------------
(* What a step of any process may do. *)

\* Recorded events stay as they are.
Grows == Written \subseteq Written' /\ \A k \in Written : files'[k] = files[k]

\* What a step of another process leaves alone.
Kept(q) ==
  /\ step'[q] = step[q] /\ decision'[q] = decision[q] /\ result'[q] = result[q]
  /\ pc'[q] = pc[q] /\ calls'[q] = calls[q] /\ draft'[q] = draft[q]
  /\ opened'[q] = opened[q] /\ out'[q] = out[q]

Acts(p) ==
  /\ LedgerTypes'
  /\ Chained'
  /\ Grows
  /\ \A q \in Proc \ {p} : Kept(q)
  /\ Knows(p)'

LEMMA EvidenceStays ==
  ASSUME Grows, NEW p, NEW n, NEW hash, NEW d, Evidenced(p, n, hash, d)
  PROVE  Evidenced(p, n, hash, d)'
BY DEF Grows, Evidenced

LEMMA ResultStays ==
  ASSUME Grows, NEW p, result'[p] = result[p], ResultEvidenced(p)
  PROVE  ResultEvidenced(p)'
BY DEF Grows, Evidenced, ResultEvidenced

LEMMA KnowsStays ==
  ASSUME Grows, NEW p \in Proc, Kept(p), Knows(p)
  PROVE  Knows(p)'
<1>1. DraftExtends(p)' /\ DraftFilled(p)'
  BY DEF Kept, Knows, DraftExtends, DraftFilled, Grows
<1>2. Numbered(p)' /\ AppendEvidenced(p)'
  BY DEF Kept, Knows, Numbered, AppendEvidenced, Evidenced, Grows
<1>3. DigestEvidenced(p)'
  BY DEF Kept, Knows, DigestEvidenced, Evidenced, Grows
<1>4. ResultEvidenced(p)'
  BY ResultStays DEF Kept, Knows
<1> QED  BY <1>1, <1>2, <1>3, <1>4 DEF Knows

LEMMA ActsPreserve ==
  ASSUME EInv, NEW p \in Proc, Acts(p)
  PROVE  EInv'
BY KnowsStays DEF EInv, Acts

\* A step that does not touch the directory.
LEMMA FilesStay ==
  ASSUME Chained, files' = files
  PROVE  Chained' /\ Grows
BY DEF Chained, Grows, Written, Ledger!Written

\* A process that runs append records evidence of its call's decision.
LEMMA Appending ==
  ASSUME HInv, NEW p \in Proc, pc[p] \in Ledger!Busy, op[p] = "append"
  PROVE  /\ step[p] = "record"
         /\ details[p] \in EventDetails
         /\ details[p].allowed = decision[p].allowed
         /\ details[p].requestFingerprint = decision[p].requestFingerprint
<1>1. step[p] = "record"
  BY DEF HInv, Types, Located, Ledger!Busy
<1>2. PICK x \in Consumptions : details[p] = Evidence(task[p], decision[p], x)
  BY <1>1 DEF HInv, Recording
<1>3. details[p] \in EventDetails
  BY <1>1, <1>2, EvidenceType DEF HInv, Tasked
<1> QED  BY <1>1, <1>2, <1>3 DEF Evidence

-----------------------------------------------------------------------------
(* Steps of the ledger. *)

\* The event append builds from a verified listing follows all it read.
LEMMA BuildActs ==
  ASSUME HInv, EInv, NEW p \in Proc, pc[p] = "read", UNCHANGED <<files, harness>>,
         NEW S \in SUBSET DOMAIN files, NEW names \in Ledger!SortedNames(S),
         Ledger!Readable(Ledger!Contents(names)), Ledger!BuildNext(p, Ledger!Contents(names))
  PROVE  Acts(p)
<1> DEFINE events == Ledger!Contents(names)
           m == Len(events)
           hash == Ledger!HeadHash(events)
           next == Ledger!buildEvent(<<p, calls[p]>>, m + 1, hash, details[p])
<1>1. /\ op[p] = "append" /\ draft' = [draft EXCEPT ![p] = next]
      /\ pc' = [pc EXCEPT ![p] = "create"] /\ opened' = [opened EXCEPT ![p] = {}]
      /\ UNCHANGED <<op, details, attempt, out, calls, floor>>
  BY DEF Ledger!BuildNext
<1>2. m \in Nat /\ S = 1 .. m /\ S \subseteq Written
  BY VerifiedListing DEF EInv
<1>3. /\ hash \in Ledger!Hashes
      /\ \A j \in S : files[j].eventHash \in Ledger!Hashes /\ IsPrefix(files[j].eventHash, hash)
  BY ListedHash DEF EInv
<1>4. step[p] = "record" /\ details[p] \in EventDetails /\ calls[p] \in 1 .. MaxCalls
  BY <1>1, Appending DEF EInv, LedgerTypes, Knows, Numbered, Ledger!Busy
<1> HIDE DEF events, m, hash
<1> DEFINE hashed == [id |-> <<p, calls[p]>>, sequence |-> m + 1, details |-> details[p]]
<1>5. hashed \in Ledger!HashedRecords
  BY <1>2, <1>4 DEF Ledger!HashedRecords, Ledger!EventIds
<1>6. next = [id |-> <<p, calls[p]>>, sequence |-> m + 1, details |-> details[p],
              previousHash |-> hash, eventHash |-> Append(hash, hashed)]
  BY DEF Ledger!buildEvent
<1> HIDE DEF hashed, next
<1>7. Append(hash, hashed) \in Ledger!Hashes
  BY <1>3, <1>5, AppendProperties DEF Ledger!Hashes
<1>8. next \in Ledger!Events /\ next.sequence = m + 1
  BY <1>2, <1>3, <1>4, <1>6, <1>7 DEF Ledger!Events, Ledger!EventIds
<1>9. ASSUME NEW j \in S PROVE IsPrefix(files[j].eventHash, next.eventHash)
  BY <1>3, <1>5, <1>6, NextHashExtends DEF Ledger!Hashes
<1>10. pc'[p] = "create" /\ draft'[p] = next /\ step'[p] = "record"
  BY <1>1, <1>4 DEF HInv, Types, harness
<1>11. Chained' /\ Grows /\ Written' = Written
  BY FilesStay DEF EInv, Written, Ledger!Written
<1>12. DraftExtends(p)'
  BY <1>2, <1>8, <1>9, <1>10, <1>11 DEF DraftExtends
<1>13. Knows(p)'
  BY <1>1, <1>4, <1>10, <1>11, <1>12, ResultStays
     DEF EInv, Knows, DraftFilled, Numbered, AppendEvidenced, DigestEvidenced, harness
<1>14. LedgerTypes' /\ \A q \in Proc \ {p} : Kept(q)
  BY <1>1 DEF EInv, LedgerTypes, Kept, HInv, Types, harness
<1> QED  BY <1>11, <1>13, <1>14 DEF Acts

\* digest returns a hash that extends the receipt's.
LEMMA AnswerActs ==
  ASSUME HInv, EInv, NEW p \in Proc, pc[p] = "read", UNCHANGED <<files, harness>>,
         NEW S \in Ledger!Listings(p), NEW names \in Ledger!SortedNames(S),
         Ledger!Readable(Ledger!Contents(names)), Ledger!Answer(p, Ledger!Contents(names))
  PROVE  Acts(p)
<1> DEFINE m == Len(Ledger!Contents(names))
           hash == Ledger!HeadHash(Ledger!Contents(names))
<1>1. S \in SUBSET DOMAIN files /\ opened[p] \subseteq S
  BY DEF Ledger!Listings
<1>2. /\ op[p] # "append" /\ pc' = [pc EXCEPT ![p] = "idle"]
      /\ out' = [out EXCEPT ![p] = [op |-> op[p], ok |-> TRUE, sequence |-> m, hash |-> hash]]
      /\ opened' = [opened EXCEPT ![p] = {}] /\ draft' = [draft EXCEPT ![p] = Torn]
      /\ UNCHANGED <<op, details, attempt, calls, floor>>
  BY DEF Ledger!Answer, Ledger!End
<1>3. \A j \in S : IsPrefix(files[j].eventHash, hash)
  BY <1>1, ListedHash DEF EInv
<1> HIDE DEF m, hash
<1>4. pc'[p] = "idle" /\ out'[p].hash = hash /\ step'[p] = step[p] /\ step[p] # "record"
  BY <1>2 DEF HInv, Types, Located, EInv, LedgerTypes, harness
<1>5. Chained' /\ Grows
  BY FilesStay DEF EInv
<1>6. DigestEvidenced(p)'
  <2> SUFFICES ASSUME step[p] = "digest" PROVE DigestEvidenced(p)'
    BY <1>4 DEF DigestEvidenced
  <2> DEFINE receipt == result[p].receipt
  <2>1. Evidenced(p, receipt.sequence, receipt.eventHash, decision[p]) /\ receipt.sequence \in opened[p]
    BY DEF EInv, Knows, DigestEvidenced
  <2>2. IsPrefix(receipt.eventHash, hash)
    BY <1>1, <1>3, <2>1 DEF Evidenced
  <2>3. Evidenced(p, receipt.sequence, receipt.eventHash, decision[p])'
    BY <1>5, <2>1 DEF Grows, Evidenced, harness
  <2> QED  BY <1>4, <2>2, <2>3 DEF DigestEvidenced, harness
<1>7. Knows(p)'
  BY <1>2, <1>4, <1>5, <1>6, ResultStays
     DEF EInv, Knows, DraftExtends, DraftFilled, Numbered, AppendEvidenced, harness
<1>8. LedgerTypes' /\ \A q \in Proc \ {p} : Kept(q)
  BY <1>2 DEF EInv, LedgerTypes, Kept, HInv, Types, harness
<1> QED  BY <1>5, <1>7, <1>8 DEF Acts

\* A step that leaves a process without an event to write and without an answer.
LEMMA IdleActs ==
  ASSUME HInv, EInv, NEW p \in Proc, UNCHANGED <<files, calls, harness>>,
         LedgerTypes', \A q \in Proc \ {p} : Kept(q),
         pc'[p] \in {"idle", "down", "scan", "read"},
         pc'[p] = "idle" => ~ out'[p].ok,
         pc'[p] = "read" => opened'[p] = DOMAIN files
  PROVE  Acts(p)
<1>1. Chained' /\ Grows
  BY FilesStay DEF EInv
<1>2. Written \subseteq DOMAIN files
  BY DEF Written, Ledger!Written
<1>3. DigestEvidenced(p)'
  BY <1>1, <1>2 DEF EInv, Knows, DigestEvidenced, Evidenced, Grows, harness
<1>4. Knows(p)'
  BY <1>1, <1>3, ResultStays
     DEF EInv, Knows, DraftExtends, DraftFilled, Numbered, AppendEvidenced, harness
<1> QED  BY <1>1, <1>4 DEF Acts

\* The file that is created is not an event.
LEMMA CreateActs ==
  ASSUME HInv, EInv, NEW p \in Proc, Ledger!CreateFile(p), UNCHANGED harness
  PROVE  Acts(p)
<1> DEFINE n == draft[p].sequence
<1>1. /\ pc[p] = "create" /\ n \notin DOMAIN files
      /\ files' = [k \in DOMAIN files \cup {n} |-> IF k = n THEN Torn ELSE files[k]]
      /\ pc' = [pc EXCEPT ![p] = "write"]
      /\ UNCHANGED <<op, details, attempt, opened, draft, out, calls, floor>>
  BY DEF Ledger!CreateFile
<1> HIDE DEF n
<1>2. Written' = Written /\ \A k \in Written : files'[k] = files[k]
  BY <1>1 DEF Written, Ledger!Written
<1>3. IsFiniteSet(DOMAIN files')
  BY <1>1, FS_AddElement DEF EInv, Chained
<1>4. Chained' /\ Grows
  BY <1>2, <1>3 DEF EInv, Chained, Grows
<1>5. pc'[p] = "write" /\ step'[p] = step[p]
  BY <1>1 DEF HInv, Types, harness
<1>6. DraftExtends(p)'
  BY <1>1, <1>2, <1>5 DEF EInv, Knows, DraftExtends
<1>7. DigestEvidenced(p)'
  <2>1. DigestEvidenced(p) /\ UNCHANGED <<decision, result>>
    BY DEF EInv, Knows, harness
  <2> QED  BY <1>2, <1>5, <2>1 DEF DigestEvidenced, Evidenced
<1>8. Knows(p)'
  BY <1>1, <1>4, <1>5, <1>6, <1>7, ResultStays
     DEF EInv, Knows, DraftFilled, Numbered, AppendEvidenced, harness
<1>9. LedgerTypes' /\ \A q \in Proc \ {p} : Kept(q)
  BY <1>1 DEF EInv, LedgerTypes, Kept, HInv, Types, harness
<1> QED  BY <1>4, <1>8, <1>9 DEF Acts

\* Writing an event extends the chain.
LEMMA WriteActs ==
  ASSUME HInv, EInv, NEW p \in Proc, Ledger!WriteEvent(p), UNCHANGED harness
  PROVE  Acts(p)
<1> DEFINE n == draft[p].sequence
<1>1. /\ pc[p] = "write" /\ pc' = [pc EXCEPT ![p] = "close"]
      /\ files' = [files EXCEPT ![n] = draft[p]]
      /\ UNCHANGED <<op, details, attempt, opened, draft, out, calls, floor>>
  BY DEF Ledger!WriteEvent
<1>2. /\ n \in DOMAIN files /\ files[n] = Torn
      /\ op[p] = "append"
  BY <1>1 DEF HInv, Drafting
<1>3. /\ draft[p] \in Ledger!Events /\ 1 .. n - 1 \subseteq Written
      /\ \A j \in 1 .. n - 1 : IsPrefix(files[j].eventHash, draft[p].eventHash)
  BY <1>1 DEF EInv, Knows, DraftExtends
<1>4. n \in Nat \ {0} /\ draft[p].eventHash \in Ledger!Hashes /\ draft[p] # Torn
  BY <1>3, HarnessAssumption DEF Ledger!Events
<1> HIDE DEF n
<1>5. /\ DOMAIN files' = DOMAIN files /\ files'[n] = draft[p]
      /\ \A k \in DOMAIN files \ {n} : files'[k] = files[k]
  BY <1>1, <1>2
<1>6. Written' = Written \cup {n} /\ n \notin Written
  BY <1>2, <1>4, <1>5 DEF Written, Ledger!Written
<1>7. Grows
  BY <1>5, <1>6 DEF Grows, Written, Ledger!Written
<1>8. ASSUME NEW k \in Written, NEW j \in 1 .. k
      PROVE  /\ files'[k] \in Ledger!Events /\ files'[k].sequence = k
             /\ j \in Written' /\ IsPrefix(files'[j].eventHash, files'[k].eventHash)
  BY <1>7 DEF EInv, Chained, Grows
<1>9. \A k \in Written : k \in Nat \ {0}
  BY DEF EInv, Chained, Ledger!Events
<1>10. ASSUME NEW j \in 1 .. n
       PROVE  j \in Written' /\ IsPrefix(files'[j].eventHash, files'[n].eventHash)
  <2>1. CASE j = n
    BY <1>4, <1>5, <1>6, <2>1, HashExtendsItself DEF Ledger!Hashes
  <2>2. CASE j # n
    <3>1. j \in 1 .. n - 1
      BY <1>4, <2>2
    <3> QED  BY <1>3, <1>5, <1>7, <3>1 DEF Grows
  <2> QED  BY <2>1, <2>2
<1>11. Chained'
  <2>1. \A k \in Written : k \in 1 .. k
    BY <1>9
  <2>2. \A k \in Written' :
          /\ files'[k] \in Ledger!Events /\ files'[k].sequence = k
          /\ 1 .. k \subseteq Written'
          /\ \A j \in 1 .. k : IsPrefix(files'[j].eventHash, files'[k].eventHash)
    BY <1>3, <1>5, <1>6, <1>8, <1>10, <2>1 DEF n
  <2> QED  BY <1>5, <2>2 DEF EInv, Chained
<1>12. step'[p] = "record" /\ pc'[p] = "close" /\ draft'[p] = draft[p] /\ draft'[p].sequence = n
  BY <1>1, <1>2, Appending DEF HInv, Types, Ledger!Busy, harness, n
<1>13. DraftFilled(p)'
  BY <1>5, <1>6, <1>12 DEF DraftFilled
<1>14. Knows(p)'
  BY <1>1, <1>7, <1>12, <1>13, ResultStays
     DEF EInv, Knows, DraftExtends, Numbered, AppendEvidenced, DigestEvidenced, harness
<1>15. LedgerTypes' /\ \A q \in Proc \ {p} : Kept(q)
  BY <1>1 DEF EInv, LedgerTypes, Kept, HInv, Types, harness
<1> QED  BY <1>7, <1>11, <1>14, <1>15 DEF Acts

\* What append returns is the evidence of its call.
LEMMA CloseActs ==
  ASSUME HInv, EInv, NEW p \in Proc, Ledger!CloseFile(p), UNCHANGED harness
  PROVE  Acts(p)
<1> DEFINE n == draft[p].sequence
<1>1. /\ pc[p] = "close" /\ pc' = [pc EXCEPT ![p] = "idle"] /\ files' = files
      /\ out' = [out EXCEPT ![p] = [op       |-> "append",
                                    ok       |-> TRUE,
                                    sequence |-> n,
                                    hash     |-> draft[p].eventHash]]
      /\ opened' = [opened EXCEPT ![p] = {}] /\ draft' = [draft EXCEPT ![p] = Torn]
      /\ UNCHANGED <<op, details, attempt, calls, floor>>
  BY DEF Ledger!CloseFile, Ledger!End
<1>2. /\ op[p] = "append" /\ draft[p].details = details[p] /\ draft[p].id[1] = p
  BY <1>1 DEF HInv, Drafting
<1>3. n \in Written /\ files[n] = draft[p]
  BY <1>1 DEF EInv, Knows, DraftFilled
<1>4. /\ step'[p] = "record" /\ decision' = decision
      /\ details[p].allowed = decision[p].allowed
      /\ details[p].requestFingerprint = decision[p].requestFingerprint
  BY <1>1, <1>2, Appending DEF Ledger!Busy, harness
<1>5. /\ pc'[p] = "idle" /\ out'[p].sequence = n /\ out'[p].hash = draft[p].eventHash
  BY <1>1 DEF HInv, Types, EInv, LedgerTypes
<1>6. Chained' /\ Grows /\ Written' = Written
  BY <1>1, FilesStay DEF EInv, Written, Ledger!Written
<1> HIDE DEF n
<1>7. AppendEvidenced(p)'
  BY <1>1, <1>2, <1>3, <1>4, <1>5, <1>6 DEF AppendEvidenced, Evidenced
<1>8. Knows(p)'
  BY <1>1, <1>4, <1>5, <1>6, <1>7, ResultStays
     DEF EInv, Knows, DraftExtends, DraftFilled, Numbered, DigestEvidenced, harness
<1>9. LedgerTypes' /\ \A q \in Proc \ {p} : Kept(q)
  BY <1>1 DEF EInv, LedgerTypes, Kept, HInv, Types, harness
<1> QED  BY <1>6, <1>8, <1>9 DEF Acts

\* Every system call of the ledger.
LEMMA LedgerActs ==
  ASSUME HInv, EInv, NEW p \in Proc, Ledger!Progress(p) \/ Ledger!StorageFails(p), UNCHANGED harness
  PROVE  Acts(p)
<1> USE DEF HInv, EInv, Types, LedgerTypes, Kept, harness, Ledger!disk
<1>1. CASE Ledger!OpenDir(p)
  BY <1>1, IdleActs DEF Ledger!OpenDir
<1>2. CASE Ledger!ReadVerified(p)
  <2>1. PICK S \in Ledger!Listings(p) : \E names \in Ledger!SortedNames(S) :
          /\ Ledger!Readable(Ledger!Contents(names))
          /\ Ledger!BuildNext(p, Ledger!Contents(names)) \/ Ledger!Answer(p, Ledger!Contents(names))
    BY <1>2 DEF Ledger!ReadVerified
  <2>2. PICK names \in Ledger!SortedNames(S) :
          /\ Ledger!Readable(Ledger!Contents(names))
          /\ Ledger!BuildNext(p, Ledger!Contents(names)) \/ Ledger!Answer(p, Ledger!Contents(names))
    BY <2>1
  <2>3. S \in SUBSET DOMAIN files /\ pc[p] = "read" /\ files' = files
    BY <1>2 DEF Ledger!ReadVerified, Ledger!Listings
  <2>4. CASE Ledger!BuildNext(p, Ledger!Contents(names))
    BY <2>2, <2>3, <2>4, BuildActs
  <2>5. CASE Ledger!Answer(p, Ledger!Contents(names))
    BY <2>2, <2>3, <2>5, AnswerActs
  <2> QED  BY <2>2, <2>4, <2>5
<1>3. CASE Ledger!ReadFails(p) \/ Ledger!StorageFails(p)
  <2>1. Ledger!Throw(p) /\ files' = files
    BY <1>3 DEF Ledger!ReadFails, Ledger!StorageFails
  <2>2. PICK l \in {"down", "idle"} : Ledger!End(p, l, Ledger!Thrown(op[p]))
    BY <2>1 DEF Ledger!Throw
  <2>3. ~ Ledger!Thrown(op[p]).ok
    BY DEF Ledger!Thrown
  <2> QED  BY <2>1, <2>2, <2>3, IdleActs DEF Ledger!End
<1>4. CASE Ledger!CreateFile(p)
  BY <1>4, CreateActs
<1>5. CASE Ledger!LoseSequence(p)
  BY <1>5, IdleActs DEF Ledger!LoseSequence
<1>6. CASE Ledger!GiveUp(p)
  BY <1>6, IdleActs DEF Ledger!GiveUp, Ledger!Thrown
<1>7. CASE Ledger!WriteEvent(p)
  BY <1>7, WriteActs
<1>8. CASE Ledger!CloseFile(p)
  BY <1>8, CloseActs
<1> QED  BY <1>1, <1>2, <1>3, <1>4, <1>5, <1>6, <1>7, <1>8 DEF Ledger!Progress

-----------------------------------------------------------------------------
(* Steps of the calls. *)

\* append is called.
LEMMA RecordActs ==
  ASSUME HInv, EInv, NEW p \in Proc, NEW c, NEW d, NEW x, Record(p, c, d, x)
  PROVE  Acts(p)
<1>1. /\ UNCHANGED <<files, opened, draft>>
      /\ pc' = [pc EXCEPT ![p] = "scan"] /\ calls[p] < MaxCalls
      /\ calls' = [calls EXCEPT ![p] = @ + 1]
      /\ out' = [out EXCEPT ![p] = Ledger!NoResult]
      /\ step' = [step EXCEPT ![p] = "record"] /\ decision' = [decision EXCEPT ![p] = d]
      /\ result' = [result EXCEPT ![p] = NoResult]
  BY DEF Record, Ledger!Begin, Ledger!Start, Ledger!disk
<1>2. calls[p] + 1 \in 0 .. MaxCalls
  BY <1>1, HarnessAssumption DEF EInv, LedgerTypes
<1>3. LedgerTypes' /\ \A q \in Proc \ {p} : Kept(q)
  BY <1>1, <1>2 DEF EInv, LedgerTypes, HInv, Types, Kept
<1>4. pc'[p] = "scan" /\ step'[p] = "record" /\ result'[p].status = "none" /\ calls'[p] > 0
  BY <1>1, <1>2 DEF EInv, LedgerTypes, HInv, Types, NoResult
<1>5. Knows(p)'
  BY <1>4 DEF Knows, DraftExtends, DraftFilled, Numbered, AppendEvidenced, DigestEvidenced, ResultEvidenced
<1> QED  BY <1>1, <1>3, <1>5, FilesStay DEF EInv, Acts

\* append returned and digest is called.
LEMMA AppendedActs ==
  ASSUME HInv, EInv, NEW p \in Proc, Appended(p)
  PROVE  Acts(p)
<1> DEFINE receipt == [sequence |-> out[p].sequence, eventHash |-> out[p].hash]
<1>1. /\ UNCHANGED <<files, opened, draft, decision>>
      /\ step[p] = "record" /\ pc[p] = "idle" /\ out[p].ok
      /\ pc' = [pc EXCEPT ![p] = "scan"] /\ calls[p] < MaxCalls
      /\ calls' = [calls EXCEPT ![p] = @ + 1]
      /\ out' = [out EXCEPT ![p] = Ledger!NoResult]
      /\ step' = [step EXCEPT ![p] = "digest"]
      /\ result' = [result EXCEPT ![p] = [status |-> "none", receipt |-> receipt]]
  BY DEF Appended, Ledger!Begin, Ledger!Start, Ledger!disk
<1>2. calls[p] + 1 \in 0 .. MaxCalls
  BY <1>1, HarnessAssumption DEF EInv, LedgerTypes
<1>3. LedgerTypes' /\ \A q \in Proc \ {p} : Kept(q)
  BY <1>1, <1>2 DEF EInv, LedgerTypes, HInv, Types, Kept
<1>4. /\ pc'[p] = "scan" /\ step'[p] = "digest" /\ calls'[p] > 0
      /\ result'[p].status = "none" /\ result'[p].receipt = receipt
  BY <1>1, <1>2 DEF EInv, LedgerTypes, HInv, Types
<1>5. Chained' /\ Grows
  BY <1>1, FilesStay DEF EInv
<1>6. Evidenced(p, out[p].sequence, out[p].hash, decision[p])
  BY <1>1 DEF EInv, Knows, AppendEvidenced
<1>7. DigestEvidenced(p)'
  BY <1>1, <1>4, <1>5, <1>6 DEF DigestEvidenced, Evidenced, Grows
<1>8. Knows(p)'
  BY <1>4, <1>7 DEF Knows, DraftExtends, DraftFilled, Numbered, AppendEvidenced, ResultEvidenced
<1> QED  BY <1>3, <1>5, <1>8 DEF Acts

\* A call ends, with a result that is evidenced, or begins to consume.
LEMMA ResultActs ==
  ASSUME HInv, EInv, NEW p \in Proc, NEW l \in {"ready", "consume"}, NEW d, NEW r,
         UNCHANGED <<ledger>>, pc[p] \notin Ledger!Busy \/ op[p] = "open",
         step' = [step EXCEPT ![p] = l], decision' = [decision EXCEPT ![p] = d],
         result' = [result EXCEPT ![p] = r],
         r.status = "returned" =>
           /\ Evidenced(p, r.receipt.sequence, r.receipt.eventHash, r.decision)
           /\ IsPrefix(r.receipt.eventHash, r.auditDigest)
  PROVE  Acts(p)
<1>1. UNCHANGED <<files, pc, calls, draft, opened, out>>
  BY DEF ledger
<1>2. LedgerTypes' /\ \A q \in Proc \ {p} : Kept(q)
  BY <1>1 DEF EInv, LedgerTypes, HInv, Types, Kept
<1>3. Chained' /\ Grows
  BY <1>1, FilesStay DEF EInv
<1>4. step'[p] \in {"ready", "consume"} /\ result'[p] = r
  BY DEF EInv, LedgerTypes, HInv, Types
<1>5. DraftExtends(p)' /\ DraftFilled(p)'
  BY <1>1, <1>3 DEF EInv, Knows, DraftExtends, DraftFilled, Grows
<1>6. ResultEvidenced(p)'
  BY <1>3, <1>4 DEF ResultEvidenced, Evidenced, Grows
<1>7. Knows(p)'
  BY <1>4, <1>5, <1>6 DEF Knows, Numbered, AppendEvidenced, DigestEvidenced
<1> QED  BY <1>2, <1>3, <1>7 DEF Acts

\* digest returned: the call returns its decision, receipt and digest.
LEMMA DigestedActs ==
  ASSUME HInv, EInv, NEW p \in Proc, Digested(p)
  PROVE  Acts(p)
<1> DEFINE r == [status      |-> "returned",
                 decision    |-> decision[p],
                 receipt     |-> result[p].receipt,
                 auditDigest |-> out[p].hash]
<1>1. /\ Evidenced(p, r.receipt.sequence, r.receipt.eventHash, r.decision)
      /\ IsPrefix(r.receipt.eventHash, r.auditDigest)
  BY DEF Digested, EInv, Knows, DigestEvidenced
<1>2. /\ UNCHANGED <<ledger>> /\ pc[p] \notin Ledger!Busy
      /\ step' = [step EXCEPT ![p] = "ready"]
      /\ decision' = [decision EXCEPT ![p] = NoDecision]
      /\ result' = [result EXCEPT ![p] = r]
  BY DEF Digested, Finish, Ledger!Busy
<1> HIDE DEF r
<1> QED  BY <1>1, <1>2, ResultActs

\* A call throws, or starts to consume its nonce.
LEMMA OtherCallActs ==
  ASSUME HInv, EInv, NEW p \in Proc,
         LedgerThrew(p) \/ \E c \in Calls : AuthorizeThrows(p, c) \/ AuthorizeSigned(p, c)
  PROVE  Acts(p)
<1>1. CASE LedgerThrew(p) \/ \E c \in Calls : AuthorizeThrows(p, c)
  <2>1. Finish(p, Thrown) /\ UNCHANGED <<ledger>> /\ pc[p] = "idle"
    BY <1>1 DEF LedgerThrew, AuthorizeThrows, Ready
  <2>2. Thrown.status # "returned"
    BY DEF Thrown
  <2> QED  BY <2>1, <2>2, ResultActs DEF Finish, Ledger!Busy
<1>2. ASSUME NEW c \in Calls, AuthorizeSigned(p, c) PROVE Acts(p)
  <2>1. PICK now \in Times :
          /\ step' = [step EXCEPT ![p] = "consume"]
          /\ decision' = [decision EXCEPT ![p] = FirstDecision(c, now)]
          /\ result' = [result EXCEPT ![p] = NoResult]
    BY <1>2 DEF AuthorizeSigned
  <2>2. UNCHANGED <<ledger>> /\ pc[p] = "idle"
    BY <1>2 DEF AuthorizeSigned, Ready
  <2>3. NoResult.status # "returned"
    BY DEF NoResult
  <2> QED  BY <2>1, <2>2, <2>3, ResultActs DEF Ledger!Busy
<1> QED  BY <1>1, <1>2

\* The process dies, and constructs its ledger again.
LEMMA CrashActs ==
  ASSUME HInv, EInv, NEW p \in Proc, Crash(p)
  PROVE  Acts(p)
<1>1. /\ UNCHANGED <<files, calls>>
      /\ pc' = [pc EXCEPT ![p] = "down"] /\ out' = [out EXCEPT ![p] = Ledger!NoResult]
      /\ opened' = [opened EXCEPT ![p] = {}] /\ draft' = [draft EXCEPT ![p] = Torn]
      /\ step' = [step EXCEPT ![p] = "ready"] /\ decision' = [decision EXCEPT ![p] = NoDecision]
      /\ result' = [result EXCEPT ![p] = NoResult]
  BY DEF Crash, Ledger!Crash, Ledger!End, Finish
<1>2. pc'[p] = "down" /\ step'[p] = "ready" /\ result'[p].status = "none"
  BY <1>1 DEF EInv, LedgerTypes, HInv, Types, NoResult
<1>3. LedgerTypes' /\ \A q \in Proc \ {p} : Kept(q)
  BY <1>1 DEF EInv, LedgerTypes, HInv, Types, Kept
<1>4. Knows(p)'
  BY <1>2 DEF Knows, DraftExtends, DraftFilled, Numbered, AppendEvidenced, DigestEvidenced, ResultEvidenced
<1> QED  BY <1>1, <1>3, <1>4, FilesStay DEF EInv, Acts

LEMMA RestartActs ==
  ASSUME HInv, EInv, NEW p \in Proc, Restart(p)
  PROVE  Acts(p)
<1>1. /\ UNCHANGED <<files, calls, opened, draft, harness>>
      /\ pc' = [pc EXCEPT ![p] = "scan"] /\ out' = [out EXCEPT ![p] = Ledger!NoResult]
  BY DEF Restart, Ledger!Restart, Ledger!Start, Ledger!disk
<1>2. pc'[p] = "scan"
  BY <1>1 DEF HInv, Types
<1>3. LedgerTypes' /\ \A q \in Proc \ {p} : Kept(q)
  BY <1>1 DEF EInv, LedgerTypes, HInv, Types, Kept, harness
<1> QED  BY <1>1, <1>2, <1>3, IdleActs

\* The store's own steps are none of the ledger's.
LEMMA StoreActs ==
  ASSUME EInv, NEW p \in Proc, UNCHANGED <<ledger, harness>>
  PROVE  Acts(p)
<1> USE DEF ledger, harness
<1>1. LedgerTypes' /\ Chained' /\ Grows
  BY FilesStay DEF EInv, LedgerTypes
<1>2. \A q \in Proc : Kept(q)
  BY DEF Kept
<1> QED  BY <1>1, <1>2, KnowsStays DEF EInv, Acts

LEMMA EveryStepActs ==
  ASSUME HInv, EInv, Next
  PROVE  \E p \in Proc : Acts(p)
<1>1. PICK p \in Proc : Authorize(p) \/ Progress(p) \/ Crash(p) \/ Restart(p) \/ StorageFails(p)
  BY DEF Next
<1>2. CASE Authorize(p)
  <2>1. PICK c \in Calls : AuthorizeThrows(p, c) \/ AuthorizeSigned(p, c) \/ AuthorizeUnconsumed(p, c)
    BY <1>2 DEF Authorize
  <2>2. CASE AuthorizeUnconsumed(p, c)
    BY <2>2, RecordActs DEF AuthorizeUnconsumed
  <2> QED  BY <2>1, <2>2, OtherCallActs
<1>3. CASE Progress(p)
  <2>1. CASE Consumed(p)
    BY <2>1, RecordActs DEF Consumed
  <2> QED  BY <1>3, <2>1, StoreActs, LedgerActs, AppendedActs, DigestedActs, OtherCallActs DEF Progress
<1>4. CASE StorageFails(p)
  BY <1>4, StoreActs, LedgerActs DEF StorageFails
<1> QED  BY <1>1, <1>2, <1>3, <1>4, CrashActs, RestartActs

-----------------------------------------------------------------------------
(* The invariant, and what follows from it. *)

LEMMA ActsInit == Init => EInv
<1> SUFFICES ASSUME Init PROVE EInv
  OBVIOUS
<1>1. /\ files = << >> /\ pc = [p \in Proc |-> "idle"] /\ calls = [p \in Proc |-> 0]
      /\ step = [p \in Proc |-> "ready"] /\ result = [p \in Proc |-> NoResult]
      /\ opened = [p \in Proc |-> {}] /\ DOMAIN out = Proc
  BY DEF Init, Ledger!Init
<1>2. Written = {} /\ IsFiniteSet(DOMAIN files)
  <2>1. DOMAIN files = {}
    BY <1>1
  <2> QED  BY <2>1, FS_EmptySet DEF Written, Ledger!Written
<1>3. LedgerTypes
  BY <1>1, HarnessAssumption DEF LedgerTypes
<1>4. \A p \in Proc : Knows(p)
  BY <1>1 DEF Knows, DraftExtends, DraftFilled, Numbered, AppendEvidenced, DigestEvidenced, ResultEvidenced, NoResult
<1> QED  BY <1>2, <1>3, <1>4 DEF EInv, Chained

LEMMA ActsStep == HInv /\ EInv /\ [Next]_vars => EInv'
<1> SUFFICES ASSUME HInv, EInv, [Next]_vars PROVE EInv'
  OBVIOUS
<1>1. CASE Next
  BY <1>1, EveryStepActs, ActsPreserve
<1>2. CASE UNCHANGED vars
  <2> USE <1>2 DEF vars, ledger, harness
  <2>1. LedgerTypes' /\ Chained' /\ Grows
    BY FilesStay DEF EInv, LedgerTypes
  <2>2. \A q \in Proc : Kept(q)
    BY DEF Kept
  <2> QED  BY <2>1, <2>2, KnowsStays DEF EInv
<1> QED  BY <1>1, <1>2

\* In every reachable state the directory is one hash chain, and what each call
\* knows of it is true.
THEOREM ChainBehindCalls == Spec => []EInv
BY ActsInit, ActsStep, Invariant, PTL DEF Spec

\* For any number of processes, crashes and failures, the decision a call returns
\* is the one in the event its receipt names, and the digest it returns is of a
\* chain that includes that event.
THEOREM ResultsAlwaysAreEvidenced == Spec => []ResultsAreEvidenced
<1>1. EInv => ResultsAreEvidenced
  BY DEF EInv, Knows, ResultEvidenced, Evidenced, ResultsAreEvidenced
<1> QED  BY <1>1, ChainBehindCalls, PTL

-----------------------------------------------------------------------------
(* The harness uses its two directories as DirectoryLedger and              *)
(* DirectoryConsumption describe them: what is proved of each directory,    *)
(* whoever calls it, holds of the directories that the harness shares.      *)

DirectoryLog == INSTANCE LedgerProofs WITH Details <- EventDetails
DirectoryStore == INSTANCE ConsumptionProofs WITH SignedApprovals <- Envelopes

-----------------------------------------------------------------------------
(* The assumptions of the two modules. *)

\* An event can be recorded.
LEMMA EventsCanBeRecorded == EventDetails # {}
<1>1. PICK c \in Calls : Fingerprintable(c.request)
  BY RecordableAssumption
<1> DEFINE d == denied("store failed closed", TRUE, c.request)
<1>2. d \in Decisions(c) /\ None \in Consumptions
  BY DEF Decisions, Consumptions
<1> HIDE DEF d
<1>3. Evidence(c, d, None) \in EventDetails
  BY <1>1, <1>2, EvidenceType
<1> QED  BY <1>3

\* The ledger's bounds are those of the harness.
LEMMA LedgerBounds ==
  /\ EventDetails # {}
  /\ MaxAttempts \in Nat \ {0}
  /\ MaxCalls \in Nat
  /\ MaxFaults \in Nat
BY EventsCanBeRecorded, HarnessAssumption

\* A torn file is told from an event.
LEMMA TornIsNoEvent == Torn \notin DirectoryLog!Events
<1>1. Ledger!Events = DirectoryLog!Events
  BY DEF Ledger!Events, DirectoryLog!Events, Ledger!Hashes, DirectoryLog!Hashes,
         Ledger!HashedRecords, DirectoryLog!HashedRecords, Ledger!EventIds, DirectoryLog!EventIds
<1> QED  BY <1>1, HarnessAssumption

\* Nor is it a receipt.
LEMMA TornIsNoReceipt == Torn \notin DirectoryStore!Receipts
<1>1. \A id, a : Store!createReceipt(id, a) = DirectoryStore!createReceipt(id, a)
  BY DEF Store!createReceipt, DirectoryStore!createReceipt, Store!consumptionKey, DirectoryStore!consumptionKey
<1>2. Store!Receipts = DirectoryStore!Receipts
  BY <1>1 DEF Store!Receipts, DirectoryStore!Receipts, Store!ConsumptionIds, DirectoryStore!ConsumptionIds
<1> QED  BY <1>2, HarnessAssumption

-----------------------------------------------------------------------------
(* The ledger's steps. *)

\* A method of the ledger that the harness begins is a caller's call.
LEMMA BeginIsACall ==
  ASSUME NEW p \in Proc, NEW method \in {"append", "digest"}, NEW d \in EventDetails,
         Ledger!Begin(p, method, d)
  PROVE  DirectoryLog!Call(p)
<1>1. DirectoryLog!Begin(p, method, d)
  BY SameCardinality DEF Ledger!Begin, DirectoryLog!Begin, Ledger!Start, DirectoryLog!Start, Ledger!disk, DirectoryLog!disk,
     Ledger!Written, DirectoryLog!Written, Ledger!NoResult, DirectoryLog!NoResult,
     Ledger!Thrown, DirectoryLog!Thrown, Ledger!Reads, DirectoryLog!Reads,
     Ledger!GENESIS_HASH, DirectoryLog!GENESIS_HASH,
     Ledger!Cardinality, DirectoryLog!Cardinality
<1>2. method \in DirectoryLog!Reads \cup {"append"}
  BY DEF DirectoryLog!Reads
<1> QED  BY <1>1, <1>2 DEF DirectoryLog!Call

\* What the operators of the ledger compute.
LEMMA SameReading ==
  /\ \A events : Ledger!Readable(events) <=> DirectoryLog!Readable(events)
  /\ \A events : Ledger!HeadHash(events) = DirectoryLog!HeadHash(events)
  /\ \A names : Ledger!Contents(names) = DirectoryLog!Contents(names)
  /\ \A S : Ledger!SortedNames(S) = DirectoryLog!SortedNames(S)
  /\ \A p : Ledger!Listings(p) = DirectoryLog!Listings(p)
<1>1. \A S : Ledger!SortedNames(S) = DirectoryLog!SortedNames(S)
  BY DEF Ledger!SortedNames, DirectoryLog!SortedNames, Ledger!Cardinality, DirectoryLog!Cardinality
<1>2. \A events : Ledger!HeadHash(events) = DirectoryLog!HeadHash(events)
  BY DEF Ledger!HeadHash, DirectoryLog!HeadHash, Ledger!GENESIS_HASH, DirectoryLog!GENESIS_HASH
<1>3. \A e : Ledger!hashEvent(e) = DirectoryLog!hashEvent(e)
  BY DEF Ledger!hashEvent, DirectoryLog!hashEvent, Ledger!Hashed, DirectoryLog!Hashed
<1>4. \A events : Ledger!verifyAuditChain(events) <=> DirectoryLog!verifyAuditChain(events)
  BY <1>2, <1>3 DEF Ledger!verifyAuditChain, DirectoryLog!verifyAuditChain, Ledger!GENESIS_HASH, DirectoryLog!GENESIS_HASH
<1>5. \A events : Ledger!Readable(events) <=> DirectoryLog!Readable(events)
  BY <1>4 DEF Ledger!Readable, DirectoryLog!Readable
<1> QED  BY <1>1, <1>2, <1>5 DEF Ledger!Contents, DirectoryLog!Contents, Ledger!Listings, DirectoryLog!Listings

\* A method that returns.
LEMMA SameEnd ==
  ASSUME NEW p, NEW l, NEW r
  PROVE  Ledger!End(p, l, r) <=> DirectoryLog!End(p, l, r)
BY DEF Ledger!End, DirectoryLog!End

\* One that throws.
LEMMA SameThrow ==
  ASSUME NEW p
  PROVE  Ledger!Throw(p) <=> DirectoryLog!Throw(p)
BY SameEnd DEF Ledger!Throw, DirectoryLog!Throw, Ledger!Thrown, DirectoryLog!Thrown,
               Ledger!GENESIS_HASH, DirectoryLog!GENESIS_HASH

\* What a running call of the ledger does by itself.
LEMMA SameProgress ==
  ASSUME NEW p \in Proc, Ledger!Progress(p)
  PROVE  DirectoryLog!Progress(p)
<1> USE DEF Ledger!disk, DirectoryLog!disk
<1>1. CASE Ledger!OpenDir(p)
  BY <1>1 DEF Ledger!OpenDir, DirectoryLog!OpenDir, DirectoryLog!Progress
<1>2. CASE Ledger!ReadVerified(p)
  <2>1. \A id, n, h, d : Ledger!buildEvent(id, n, h, d) = DirectoryLog!buildEvent(id, n, h, d)
    BY DEF Ledger!buildEvent, DirectoryLog!buildEvent, Ledger!hashEvent, DirectoryLog!hashEvent,
           Ledger!Hashed, DirectoryLog!Hashed
  <2>2. \A events : Ledger!BuildNext(p, events) => DirectoryLog!BuildNext(p, events)
    BY <2>1, SameReading DEF Ledger!BuildNext, DirectoryLog!BuildNext
  <2>3. \A events : Ledger!Answer(p, events) => DirectoryLog!Answer(p, events)
    BY SameReading, SameEnd DEF Ledger!Answer, DirectoryLog!Answer
  <2> QED  BY <1>2, <2>2, <2>3, SameReading
           DEF Ledger!ReadVerified, DirectoryLog!ReadVerified, DirectoryLog!Progress
<1>3. CASE Ledger!ReadFails(p)
  BY <1>3, SameReading, SameThrow DEF Ledger!ReadFails, DirectoryLog!ReadFails, DirectoryLog!Progress
<1>4. CASE Ledger!CreateFile(p)
  BY <1>4 DEF Ledger!CreateFile, DirectoryLog!CreateFile, DirectoryLog!Progress
<1>5. CASE Ledger!LoseSequence(p)
  BY <1>5 DEF Ledger!LoseSequence, DirectoryLog!LoseSequence, DirectoryLog!Progress
<1>6. CASE Ledger!GiveUp(p)
  BY <1>6 DEF Ledger!GiveUp, DirectoryLog!GiveUp, DirectoryLog!Progress, Ledger!Thrown, DirectoryLog!Thrown,
              Ledger!GENESIS_HASH, DirectoryLog!GENESIS_HASH
<1>7. CASE Ledger!WriteEvent(p)
  BY <1>7 DEF Ledger!WriteEvent, DirectoryLog!WriteEvent, DirectoryLog!Progress
<1>8. CASE Ledger!CloseFile(p)
  BY <1>8, SameEnd DEF Ledger!CloseFile, DirectoryLog!CloseFile, DirectoryLog!Progress,
              Ledger!receiptFor, DirectoryLog!receiptFor
<1> QED  BY <1>1, <1>2, <1>3, <1>4, <1>5, <1>6, <1>7, <1>8 DEF Ledger!Progress

\* What happens to a process.
LEMMA SameEnvironment ==
  ASSUME NEW p \in Proc, Ledger!StorageFails(p) \/ Ledger!Crash(p) \/ Ledger!Restart(p)
  PROVE  DirectoryLog!Environment(p)
<1>1. CASE Ledger!StorageFails(p)
  BY <1>1, SameThrow DEF Ledger!StorageFails, DirectoryLog!StorageFails, DirectoryLog!Environment,
                         Ledger!Fault, DirectoryLog!Fault, Ledger!Busy, DirectoryLog!Busy
<1>2. CASE Ledger!Crash(p)
  <2>1. Ledger!NoResult = DirectoryLog!NoResult
    BY DEF Ledger!NoResult, DirectoryLog!NoResult, Ledger!Thrown, DirectoryLog!Thrown,
           Ledger!GENESIS_HASH, DirectoryLog!GENESIS_HASH
  <2> QED  BY <1>2, <2>1, SameEnd DEF Ledger!Crash, DirectoryLog!Crash, DirectoryLog!Environment,
                                      Ledger!Fault, DirectoryLog!Fault
<1>3. CASE Ledger!Restart(p)
  BY <1>3, SameCardinality DEF Ledger!Restart, DirectoryLog!Restart, DirectoryLog!Environment,
     Ledger!Start, DirectoryLog!Start, Ledger!disk, DirectoryLog!disk,
     Ledger!Written, DirectoryLog!Written, Ledger!NoResult, DirectoryLog!NoResult,
     Ledger!Thrown, DirectoryLog!Thrown, Ledger!Cardinality, DirectoryLog!Cardinality,
     Ledger!GENESIS_HASH, DirectoryLog!GENESIS_HASH
<1> QED  BY <1>1, <1>2, <1>3

\* A call records evidence.
LEMMA RecordIsACall ==
  ASSUME NEW p \in Proc, NEW c \in Calls, Fingerprintable(c.request),
         NEW d \in Decisions(c), NEW x \in Consumptions, Record(p, c, d, x)
  PROVE  DirectoryLog!Call(p)
<1>1. Evidence(c, d, x) \in EventDetails
  BY EvidenceType
<1>2. Ledger!Begin(p, "append", Evidence(c, d, x))
  BY DEF Record
<1> QED  BY <1>1, <1>2, BeginIsACall

\* What follows a consumed approval is a call of the ledger, or none.
LEMMA ConsumedIsACall ==
  ASSUME HInv, NEW p \in Proc, Consumed(p)
  PROVE  DirectoryLog!Call(p)
<1>1. /\ step[p] = "consume" /\ stage[p] = "idle"
      /\ task[p] \in Calls /\ Fingerprintable(task[p].request)
      /\ decision[p] \in Decisions(task[p])
  BY DEF Consumed, HInv, Tasked
<1>2. /\ denied("store failed closed", TRUE, task[p].request) \in Decisions(task[p])
      /\ AlreadyConsumed(task[p]) \in Decisions(task[p])
  BY DEF Decisions, AlreadyConsumed
<1>3. CASE answer[p].status = "threw" /\ Record(p, task[p], denied("store failed closed", TRUE, task[p].request), None)
  <2>1. None \in Consumptions
    BY DEF Consumptions
  <2> QED  BY <1>1, <1>2, <1>3, <2>1, RecordIsACall
<1>4. ASSUME answer[p].status \in {"replayed", "consumed"}
      PROVE  answer[p] \in Consumptions
  <2>1. /\ answer[p] # Store!Threw
        /\ \/ answer[p] = Store!Replayed(claims[Nonce(p)])
           \/ answer[p] = Store!Consumed(claims[Nonce(p)])
        /\ claims[Nonce(p)] \in Store!Receipts
    BY <1>1, <1>4 DEF HInv, Presents, ClaimsAreReceipts, Store!Threw
  <2> QED  BY <2>1, AnswerIsCited DEF Consumptions
<1>5. CASE answer[p].status = "replayed" /\ Record(p, task[p], AlreadyConsumed(task[p]), answer[p])
  BY <1>1, <1>2, <1>4, <1>5, RecordIsACall
<1>6. CASE answer[p].status = "consumed" /\ Record(p, task[p], decision[p], answer[p])
  BY <1>1, <1>4, <1>6, RecordIsACall
<1> QED  BY <1>3, <1>5, <1>6 DEF Consumed

\* What follows an append is one too.
LEMMA AppendedIsACall ==
  ASSUME HInv, NEW p \in Proc, Appended(p)
  PROVE  DirectoryLog!Call(p)
<1>1. step[p] = "record" /\ Ledger!Begin(p, "digest", details[p])
  BY DEF Appended
<1>2. details[p] \in EventDetails
  <2>1. PICK x \in Consumptions : details[p] = Evidence(task[p], decision[p], x)
    BY <1>1 DEF HInv, Recording
  <2> QED  BY <1>1, <2>1, EvidenceType DEF HInv, Tasked
<1> QED  BY <1>1, <1>2, BeginIsACall

\* It is what p does to the ledger, or nothing to it.
LEMMA LedgerStepOf ==
  ASSUME HInv, NEW p \in Proc, Acting(p)
  PROVE  \/ DirectoryLog!Call(p) \/ DirectoryLog!Progress(p) \/ DirectoryLog!Environment(p)
         \/ UNCHANGED DirectoryLog!vars
<1> DEFINE Still == UNCHANGED DirectoryLog!vars
           Does == DirectoryLog!Call(p) \/ DirectoryLog!Progress(p) \/ DirectoryLog!Environment(p)
<1> SUFFICES Does \/ Still
  OBVIOUS
<1>1. UNCHANGED ledger => Still
  BY DEF ledger, DirectoryLog!vars, DirectoryLog!disk, DirectoryLog!local
<1> HIDE DEF Still
<1>2. CASE Authorize(p)
  <2>1. PICK c \in Calls : AuthorizeThrows(p, c) \/ AuthorizeSigned(p, c) \/ AuthorizeUnconsumed(p, c)
    BY <1>2 DEF Authorize
  <2>2. CASE AuthorizeThrows(p, c) \/ AuthorizeSigned(p, c)
    BY <1>1, <2>2 DEF AuthorizeThrows, AuthorizeSigned
  <2>3. CASE AuthorizeUnconsumed(p, c)
    <3>1. PICK now \in Times : Record(p, c, FirstDecision(c, now), None)
      BY <2>3 DEF AuthorizeUnconsumed
    <3>2. None \in Consumptions /\ Fingerprintable(c.request)
      BY <2>3 DEF Consumptions, AuthorizeUnconsumed
    <3> QED  BY <3>1, <3>2, FirstDecisionType, RecordIsACall
  <2> QED  BY <2>1, <2>2, <2>3
<1>3. CASE Progress(p)
  <2>1. CASE Store!Progress(p) /\ UNCHANGED <<ledger, harness>>
    BY <1>1, <2>1
  <2>2. CASE Ledger!Progress(p)
    BY <2>2, SameProgress
  <2>3. CASE Consumed(p) \/ Appended(p)
    BY <2>3, ConsumedIsACall, AppendedIsACall
  <2>4. CASE Digested(p) \/ LedgerThrew(p)
    BY <1>1, <2>4 DEF Digested, LedgerThrew
  <2> QED  BY <1>3, <2>1, <2>2, <2>3, <2>4 DEF Progress
<1>4. CASE Crash(p) \/ Restart(p) \/ StorageFails(p)
  <2>1. CASE UNCHANGED <<ledger, harness>>
    BY <1>1, <2>1
  <2>2. CASE Ledger!StorageFails(p) \/ Ledger!Crash(p) \/ Ledger!Restart(p)
    BY <2>2, SameEnvironment
  <2> QED  BY <1>4, <2>1, <2>2 DEF Crash, Restart, StorageFails
<1> QED  BY <1>2, <1>3, <1>4 DEF Acting

\* A step of the harness is one of its ledger, or none.
LEMMA LedgerStep == HInv /\ [Next]_vars => [DirectoryLog!Next]_(DirectoryLog!vars)
<1>1. ASSUME HInv, NEW p \in Proc, Acting(p) PROVE DirectoryLog!Next \/ UNCHANGED DirectoryLog!vars
  BY <1>1, LedgerStepOf DEF DirectoryLog!Next
<1>2. UNCHANGED vars => UNCHANGED DirectoryLog!vars
  BY DEF vars, ledger, DirectoryLog!vars, DirectoryLog!disk, DirectoryLog!local
<1> QED  BY <1>1, <1>2 DEF Next, Acting

\* Both start with an empty ledger.
LEMMA LedgerInit == Init => DirectoryLog!Init
BY DEF Init, Ledger!Init, DirectoryLog!Init, Ledger!NoResult, DirectoryLog!NoResult,
       Ledger!Thrown, DirectoryLog!Thrown, Ledger!GENESIS_HASH, DirectoryLog!GENESIS_HASH

-----------------------------------------------------------------------------
(* The store's steps. *)

\* The harness consumes as a caller of the store does.
LEMMA ConsumeIsACall ==
  ASSUME NEW p \in Proc, NEW a \in Envelopes, Store!Consume(p, a)
  PROVE  DirectoryStore!Next
<1>1. \A id, e : Store!createReceipt(id, e) = DirectoryStore!createReceipt(id, e)
  BY DEF Store!createReceipt, DirectoryStore!createReceipt, Store!consumptionKey, DirectoryStore!consumptionKey
<1>2. DirectoryStore!Consume(p, a)
  BY <1>1 DEF Store!Consume, DirectoryStore!Consume, Store!Pending, DirectoryStore!Pending
<1> QED  BY <1>2 DEF DirectoryStore!Next

\* What the steps of the store do.
LEMMA SameStoreSteps ==
  ASSUME NEW p \in Proc, Store!Progress(p) \/ Store!StoreFails(p) \/ Store!Crash(p)
  PROVE  DirectoryStore!Next
<1>1. \A r : Store!Return(p, r) <=> DirectoryStore!Return(p, r)
  BY DEF Store!Return, DirectoryStore!Return
<1>2. /\ Store!Pending = DirectoryStore!Pending /\ Store!Threw = DirectoryStore!Threw
      /\ \A r : Store!Replayed(r) = DirectoryStore!Replayed(r)
      /\ \A r : Store!Consumed(r) = DirectoryStore!Consumed(r)
      /\ Store!Key(p) = DirectoryStore!Key(p)
  BY DEF Store!Pending, DirectoryStore!Pending, Store!Threw, DirectoryStore!Threw,
         Store!Replayed, DirectoryStore!Replayed, Store!Consumed, DirectoryStore!Consumed,
         Store!Key, DirectoryStore!Key
<1>3. CASE Store!Progress(p)
  <2>1. Store!CreateClaim(p) => DirectoryStore!CreateClaim(p)
    BY <1>2 DEF Store!CreateClaim, DirectoryStore!CreateClaim
  <2>2. Store!FindClaim(p) => DirectoryStore!FindClaim(p)
    BY <1>2 DEF Store!FindClaim, DirectoryStore!FindClaim
  <2>3. Store!WriteClaim(p) => DirectoryStore!WriteClaim(p)
    BY <1>2 DEF Store!WriteClaim, DirectoryStore!WriteClaim
  <2>4. Store!CloseClaim(p) => DirectoryStore!CloseClaim(p)
    BY <1>1, <1>2 DEF Store!CloseClaim, DirectoryStore!CloseClaim
  <2>5. Store!ReadClaim(p) => DirectoryStore!ReadClaim(p)
    BY <1>1, <1>2 DEF Store!ReadClaim, DirectoryStore!ReadClaim
  <2> QED  BY <1>3, <2>1, <2>2, <2>3, <2>4, <2>5
           DEF Store!Progress, DirectoryStore!Progress, DirectoryStore!Next
<1>4. CASE Store!StoreFails(p)
  BY <1>1, <1>2, <1>4 DEF Store!StoreFails, DirectoryStore!StoreFails, DirectoryStore!Next
<1>5. CASE Store!Crash(p)
  BY <1>1, <1>2, <1>5 DEF Store!Crash, DirectoryStore!Crash, DirectoryStore!Next
<1> QED  BY <1>3, <1>4, <1>5

\* A step of the harness is one of its store, or none.
LEMMA StoreOfStep == [Next]_vars => [DirectoryStore!Next]_(DirectoryStore!vars)
<1> SUFFICES ASSUME [Next]_vars PROVE DirectoryStore!Next \/ UNCHANGED DirectoryStore!vars
  OBVIOUS
<1> DEFINE Still == UNCHANGED DirectoryStore!vars
<1>1. UNCHANGED store => Still
  BY DEF store, DirectoryStore!vars
<1> HIDE DEF Still
<1>2. CASE UNCHANGED vars
  BY <1>1, <1>2 DEF vars, Still
<1>3. ASSUME NEW p \in Proc, Authorize(p) PROVE DirectoryStore!Next \/ Still
  <2>1. PICK c \in Calls : AuthorizeThrows(p, c) \/ AuthorizeSigned(p, c) \/ AuthorizeUnconsumed(p, c)
    BY <1>3 DEF Authorize
  <2>2. CASE AuthorizeThrows(p, c) \/ AuthorizeUnconsumed(p, c)
    BY <1>1, <2>2 DEF AuthorizeThrows, AuthorizeUnconsumed
  <2>3. CASE AuthorizeSigned(p, c)
    <3>1. c.signed /\ Store!Consume(p, c.envelope)
      BY <2>3 DEF AuthorizeSigned
    <3>2. c.envelope \in Envelopes
      BY <3>1 DEF Envelopes
    <3> QED  BY <3>1, <3>2, ConsumeIsACall
  <2> QED  BY <2>1, <2>2, <2>3
<1>4. ASSUME NEW p \in Proc, Progress(p) \/ Crash(p) \/ Restart(p) \/ StorageFails(p)
      PROVE  DirectoryStore!Next \/ Still
  <2>1. CASE UNCHANGED store
    BY <1>1, <2>1
  <2>2. CASE Store!Progress(p) \/ Store!StoreFails(p) \/ Store!Crash(p)
    BY <2>2, SameStoreSteps
  <2> QED  BY <1>4, <2>1, <2>2 DEF Progress, Consumed, Appended, Digested, LedgerThrew, Crash, Restart, StorageFails
<1> QED  BY <1>2, <1>3, <1>4 DEF Next, Still

\* Both start with an empty store.
LEMMA StoreInit == Init => DirectoryStore!Init
BY DEF Init, Store!Init, DirectoryStore!Init, Store!Pending, DirectoryStore!Pending

-----------------------------------------------------------------------------
(* The harness implements both directories. *)

\* What the harness does to its ledger is what processes that call a
\* DirectoryAuditLedger may do.
THEOREM HarnessUsesDirectoryLedger == Spec => DirectoryLog!Spec
BY LedgerInit, LedgerStep, Invariant, PTL DEF Spec, DirectoryLog!Spec

\* What it does to its store is what processes that call a
\* DirectoryApprovalConsumptionStore may do.
THEOREM HarnessUsesDirectoryStore == Spec => DirectoryStore!Spec
BY StoreInit, StoreOfStep, PTL DEF Spec, DirectoryStore!Spec

\* So whatever is proved of the ledger holds of the harness's: one unbroken chain
\* that no step rewrites, receipts that verify for ever, no event recorded twice,
\* and none by an append that threw before it could close its file; an answer is
\* the ledger's own prefix and misses nothing of the past, and after an abandoned
\* file nothing is recorded.
\* The directory under the harness implements the append-only log.
THEOREM HarnessLedgerKeepsItsPromises ==
  Spec =>
    /\ []DirectoryLog!ChainIntact
    /\ []DirectoryLog!ReceiptsVerify
    /\ []DirectoryLog!RecordedOnce
    /\ []DirectoryLog!CallsSeeThePast
    /\ []DirectoryLog!AnswersAreThePrefix
    /\ []DirectoryLog!LostAttemptsAreOthersEvents
    /\ DirectoryLog!RefusedAppendRecordsNothing
    /\ DirectoryLog!AppendOnly
    /\ DirectoryLog!AbandonedFileEndsTheLedger
    /\ DirectoryLog!ImplementsAuditLog
<1>1. DirectoryLog!Spec => []DirectoryLog!ChainIntact
  BY LedgerBounds, TornIsNoEvent, DirectoryLog!ChainIntactAlways
<1>2. DirectoryLog!Spec => []DirectoryLog!ReceiptsVerify
  BY LedgerBounds, TornIsNoEvent, DirectoryLog!ReceiptsAlwaysVerify
<1>3. DirectoryLog!Spec => []DirectoryLog!RecordedOnce
  BY LedgerBounds, TornIsNoEvent, DirectoryLog!RecordedOnceAlways
<1>4. DirectoryLog!Spec => DirectoryLog!RefusedAppendRecordsNothing
  BY LedgerBounds, TornIsNoEvent, DirectoryLog!RefusedAppendsRecordNothing
<1>5. DirectoryLog!Spec => []DirectoryLog!CallsSeeThePast
  BY LedgerBounds, TornIsNoEvent, DirectoryLog!CallsAlwaysSeeThePast
<1>6. DirectoryLog!Spec => []DirectoryLog!AnswersAreThePrefix
  BY LedgerBounds, TornIsNoEvent, DirectoryLog!AnswersAlwaysAreThePrefix
<1>7. DirectoryLog!Spec => []DirectoryLog!LostAttemptsAreOthersEvents
  BY LedgerBounds, TornIsNoEvent, DirectoryLog!LostAttemptsAlwaysAreOthersEvents
<1>8. DirectoryLog!Spec => DirectoryLog!AppendOnly
  BY LedgerBounds, TornIsNoEvent, DirectoryLog!AppendOnlyAlways
<1>9. DirectoryLog!Spec => DirectoryLog!AbandonedFileEndsTheLedger
  BY LedgerBounds, TornIsNoEvent, DirectoryLog!AbandonedFileEndsTheLedgerAlways
<1>10. DirectoryLog!Spec => DirectoryLog!ImplementsAuditLog
  BY LedgerBounds, TornIsNoEvent, DirectoryLog!DirectoryImplementsLog
<1> QED  BY <1>1, <1>2, <1>3, <1>4, <1>5, <1>6, <1>7, <1>8, <1>9, <1>10, HarnessUsesDirectoryLedger, PTL

\* And whatever is proved of the store: all that were told their approval is
\* consumed hold different keys, a replay names the claim in the directory, a claim
\* is permanent, and an abandoned one fails closed for ever.  The directory under the
\* harness implements the atomic store.
THEOREM HarnessStoreKeepsItsPromises ==
  Spec =>
    /\ []DirectoryStore!ConsumedOnce
    /\ []DirectoryStore!ReplaysNameTheClaim
    /\ DirectoryStore!ClaimsArePermanent
    /\ DirectoryStore!AbandonedClaimFailsClosed
    /\ DirectoryStore!ImplementsApprovalConsumption
<1>1. DirectoryStore!Spec => []DirectoryStore!ConsumedOnce
  BY TornIsNoReceipt, HarnessAssumption, DirectoryStore!ConsumedOnceAlways
<1>2. DirectoryStore!Spec => []DirectoryStore!ReplaysNameTheClaim
  BY TornIsNoReceipt, HarnessAssumption, DirectoryStore!ReplaysAlwaysNameTheClaim
<1>3. DirectoryStore!Spec => DirectoryStore!ClaimsArePermanent
  BY TornIsNoReceipt, HarnessAssumption, DirectoryStore!ClaimsAlwaysArePermanent
<1>4. DirectoryStore!Spec => DirectoryStore!AbandonedClaimFailsClosed
  BY TornIsNoReceipt, HarnessAssumption, DirectoryStore!AbandonedClaimAlwaysFailsClosed
<1>5. DirectoryStore!Spec => DirectoryStore!ImplementsApprovalConsumption
  BY TornIsNoReceipt, HarnessAssumption, DirectoryStore!DirectoryImplementsAtomicStore
<1> QED  BY <1>1, <1>2, <1>3, <1>4, <1>5, HarnessUsesDirectoryStore, PTL

-----------------------------------------------------------------------------
(* What the two directories' invariants say together. *)

\* What an event cites is the claim of its nonce, for good.  A grant cites the
\* receipt that consume returned to a call.  A denial of a replay cites the one
\* receipt that can have been returned for the nonce: its own call may have thrown
\* after it had written the claim, and then none ever is.
CitationsHold ==
  \A k \in Written :
    LET d == files[k].details
        x == d.consumption
    IN  x # None =>
          /\ NonceOf(d) \in DOMAIN claims /\ claims[NonceOf(d)] = x.receipt
          /\ d.allowed => x.receipt \in won
          /\ \A r \in won : r.key = NonceOf(d) => r = x.receipt

\* What these details cite as consumed, consume returned.
CitesWon(d) ==
  d.consumption # None /\ d.consumption.status = "consumed" => d.consumption.receipt \in won

\* So it is from the answer of consume to the event that is recorded.
WonBehindEvents ==
  /\ \A p \in Proc : answer[p].status = "consumed" => answer[p].receipt \in won
  /\ \A p \in Proc : step[p] = "record" => CitesWon(details[p])
  /\ \A k \in Written : CitesWon(files[k].details)

\* Only consume answers that it consumed, and what it answered is not taken back.
LEMMA WonGrows ==
  ASSUME HInv, Next, \A p \in Proc : answer[p].status = "consumed" => answer[p].receipt \in won
  PROVE  /\ won \subseteq won'
         /\ \A p \in Proc : answer'[p].status = "consumed" => answer'[p].receipt \in won'
<1> DEFINE WonStays == /\ won \subseteq won'
                       /\ \A p \in Proc : answer'[p].status = "consumed" => answer'[p].receipt \in won'
<1>1. DOMAIN answer = Proc
  BY DEF HInv, Types
<1>2. CASE UNCHANGED store
  BY <1>2 DEF store
<1>3. ASSUME NEW p \in Proc, NEW r, answer' = [answer EXCEPT ![p] = r],
             won \subseteq won', r.status = "consumed" => r.receipt \in won'
      PROVE  WonStays
  BY <1>1, <1>3
<1>4. ASSUME NEW p \in Proc, NEW e, Store!Consume(p, e) PROVE WonStays
  BY <1>3, <1>4 DEF Store!Consume, Store!Pending
<1>5. ASSUME NEW p \in Proc, Store!Progress(p) PROVE WonStays
  <2>1. CASE Store!CreateClaim(p) \/ Store!FindClaim(p) \/ Store!WriteClaim(p)
    BY <2>1 DEF Store!CreateClaim, Store!FindClaim, Store!WriteClaim
  <2>2. CASE Store!CloseClaim(p)
    BY <1>3, <2>2 DEF Store!CloseClaim, Store!Return, Store!Consumed
  <2>3. CASE Store!ReadClaim(p)
    BY <1>3, <2>3 DEF Store!ReadClaim, Store!Return, Store!Threw, Store!Replayed
  <2> QED  BY <1>5, <2>1, <2>2, <2>3 DEF Store!Progress
<1>6. ASSUME NEW p \in Proc, Store!StoreFails(p) \/ Store!Crash(p) PROVE WonStays
  BY <1>3, <1>6 DEF Store!StoreFails, Store!Crash, Store!Return, Store!Threw, Store!Pending
<1> HIDE DEF WonStays
<1>7. ASSUME NEW p \in Proc, Acting(p) PROVE WonStays \/ UNCHANGED store
  BY <1>4, <1>5, <1>6, <1>7
     DEF Acting, Authorize, AuthorizeThrows, AuthorizeSigned, AuthorizeUnconsumed, Progress,
         Consumed, Appended, Digested, LedgerThrew, Crash, Restart, StorageFails
<1> QED  BY <1>2, <1>7 DEF Next, Acting, WonStays

\* What append is given to record cites an answer of consume, or nothing.
LEMMA RecordsWon ==
  ASSUME HInv, WonBehindEvents, won \subseteq won', NEW p \in Proc, Acting(p), Moves(p),
         step'[p] = "record"
  PROVE  CitesWon(details[p])'
<1>1. /\ DOMAIN step = Proc /\ DOMAIN details = Proc
  BY DEF HInv, Types
<1>2. CASE step[p] = "record" /\ details'[p] = details[p]
  BY <1>2 DEF WonBehindEvents, CitesWon
<1>3. ASSUME NEW c \in Calls, NEW d, NEW x, Record(p, c, d, x), x = None \/ x = answer[p]
      PROVE  CitesWon(details[p])'
  <2>1. details'[p] = Evidence(c, d, x)
    BY <1>1, <1>3 DEF Record, Ledger!Begin, Ledger!Start
  <2>2. details'[p].consumption = x
    BY <2>1, GrantedEvidence
  <2> QED  BY <1>3, <2>2 DEF WonBehindEvents, CitesWon
<1>4. CASE Consumed(p)
  <2>1. task[p] \in Calls
    BY <1>4 DEF Consumed, HInv, Tasked
  <2> QED  BY <1>3, <1>4, <2>1 DEF Consumed
<1>5. CASE Authorize(p)
  <2>1. PICK c \in Calls : AuthorizeThrows(p, c) \/ AuthorizeSigned(p, c) \/ AuthorizeUnconsumed(p, c)
    BY <1>5 DEF Authorize
  <2>2. CASE AuthorizeUnconsumed(p, c)
    BY <1>3, <2>2 DEF AuthorizeUnconsumed
  <2>3. CASE AuthorizeThrows(p, c) \/ AuthorizeSigned(p, c)
    BY <1>1, <2>3 DEF AuthorizeThrows, AuthorizeSigned, Finish
  <2> QED  BY <2>1, <2>2, <2>3
<1>6. CASE Appended(p) \/ Digested(p) \/ LedgerThrew(p) \/ Crash(p)
  BY <1>1, <1>6 DEF Appended, Digested, LedgerThrew, Crash, Finish
<1>7. CASE Restart(p)
  <2>1. step'[p] = step[p] /\ details'[p] = details[p]
    BY <1>1, <1>7 DEF Restart, harness, Ledger!Restart, Ledger!Start
  <2> QED  BY <1>2, <2>1
<1>8. CASE UNCHANGED <<ledger, harness>>
  BY <1>2, <1>8 DEF ledger, harness
<1>9. CASE (Ledger!Progress(p) \/ Ledger!StorageFails(p)) /\ UNCHANGED <<store, harness>>
  <2>1. details' = details /\ step' = step
    BY <1>9, LedgerGoesOnByItself DEF LedgerGoesOn, HInv, harness
  <2> QED  BY <1>2, <2>1
<1> QED  BY <1>4, <1>5, <1>6, <1>7, <1>8, <1>9 DEF Acting, Progress, StorageFails

LEMMA WonBehindEventsStep ==
  ASSUME HInv, WonBehindEvents, Next
  PROVE  WonBehindEvents'
<1>1. PICK p \in Proc : Acting(p) /\ Moves(p)
  <2>1. PICK p \in Proc : Acting(p)
    BY DEF Next, Acting
  <2> QED  BY <2>1, ActingMoves
<1>2. /\ won \subseteq won'
      /\ \A q \in Proc : answer'[q].status = "consumed" => answer'[q].receipt \in won'
  BY WonGrows DEF WonBehindEvents
<1>3. ASSUME NEW q \in Proc, step'[q] = "record" PROVE CitesWon(details[q])'
  <2>1. CASE q = p
    BY <1>1, <1>2, <1>3, <2>1, RecordsWon
  <2>2. CASE q # p
    <3>1. step[q] = "record" /\ details'[q] = details[q]
      BY <1>1, <1>3, <2>2 DEF Moves, Same
    <3> QED  BY <1>2, <3>1 DEF WonBehindEvents, CitesWon
  <2> QED  BY <2>1, <2>2
<1>4. ASSUME NEW k \in Written' PROVE CitesWon(files[k].details)'
  <2>1. CASE k \in Written /\ files'[k] = files[k]
    BY <1>2, <2>1 DEF WonBehindEvents, CitesWon
  <2>2. CASE ~ (k \in Written /\ files'[k] = files[k])
    <3>1. files'[k].details = details[p] /\ step[p] = "record"
      BY <1>1, <1>4, <2>2, NewEvent DEF Moves
    <3> QED  BY <1>2, <3>1 DEF WonBehindEvents, CitesWon
  <2> QED  BY <2>1, <2>2
<1> QED  BY <1>2, <1>3, <1>4 DEF WonBehindEvents

LEMMA WonBehindEventsAlways == Spec => []WonBehindEvents
<1>1. Init => WonBehindEvents
  BY DEF Init, Ledger!Init, Store!Init, Store!Pending, Written, Ledger!Written, WonBehindEvents
<1>2. HInv /\ WonBehindEvents /\ [Next]_vars => WonBehindEvents'
  <2>1. ASSUME WonBehindEvents, UNCHANGED vars PROVE WonBehindEvents'
    BY <2>1 DEF vars, ledger, store, harness, Written, Ledger!Written, CitesWon, WonBehindEvents
  <2> QED  BY <2>1, WonBehindEventsStep
<1> QED  BY <1>1, <1>2, Invariant, PTL DEF Spec

\* Every consumption record that any event cites is the claim of the event's nonce,
\* and the one cited by a grant was returned by consume.
THEOREM CitationsAlwaysHold == Spec => []CitationsHold
<1>1. DirectoryStore!Spec => []DirectoryStore!CInv
  BY TornIsNoReceipt, HarnessAssumption, DirectoryStore!Invariant
<1>2. HInv /\ DirectoryStore!CInv /\ WonBehindEvents => CitationsHold
  <2> SUFFICES ASSUME HInv, DirectoryStore!CInv, WonBehindEvents, NEW k \in Written,
                      files[k].details.consumption # None
               PROVE  LET d == files[k].details
                          x == d.consumption
                      IN  /\ NonceOf(d) \in DOMAIN claims /\ claims[NonceOf(d)] = x.receipt
                          /\ d.allowed => x.receipt \in won
                          /\ \A r \in won : r.key = NonceOf(d) => r = x.receipt
    BY DEF CitationsHold
  <2>1. AgreesWith(claims, files[k].details, files[k].id[1])
    BY DEF HInv, EvidenceMatchesStore
  <2>2. CitesWon(files[k].details)
    BY DEF WonBehindEvents
  <2>3. \A r \in won : claims[r.key] = r
    BY DEF DirectoryStore!CInv, DirectoryStore!Claimed
  <2> QED  BY <2>1, <2>2, <2>3 DEF AgreesWith, CitesWon
<1> QED  BY <1>1, <1>2, HarnessUsesDirectoryStore, WonBehindEventsAlways, Invariant, PTL

-----------------------------------------------------------------------------
(* Calls of authorize end. *)

\* The steps that consume still makes.
StoreStepsLeft(p) ==
  [idle |-> 0, close |-> 1, inspect |-> 1, write |-> 2, create |-> 3][stage[p]]

\* A bound of the steps that the call of p still makes: those of the method it is
\* in, those of the ones after it, and one to go on from each.
CallStepsLeft(p) ==
  LET most == 5 * MaxAttempts + 1
      inLedger == DirectoryLog!StepsLeft(p) + 1
  IN  [ready   |-> 0,
       digest  |-> inLedger,
       record  |-> most + inLedger,
       consume |-> 2 * most + StoreStepsLeft(p) + 1][step[p]]

\* What the call of p knows.
Locals(p) ==
  <<step[p], task[p], decision[p], result[p], stage[p], presented[p], answer[p],
    DirectoryLog!Locals(p)>>

\* Either the step is one of p's call and brings it nearer to its end, or it does
\* not touch p.
Nearer(p) ==
  /\ CallStepsLeft(p) \in 1 .. 10 * MaxAttempts + 6
  /\ CallStepsLeft(p)' < CallStepsLeft(p) \/ Locals(p)' = Locals(p)

\* authorize makes a bounded number of steps, whichever processes race it for the
\* nonce and for the sequence number, and wherever a directory fails it.
AuthorizationsAreBounded == [][\A p \in Proc : step[p] # "ready" => Nearer(p)]_vars

\* What must hold of both directories for it.
Bounded == HInv /\ EInv /\ DirectoryLog!TypeOK /\ DirectoryLog!AttemptsLeft

\* It always does.
LEMMA BoundedAlways == Spec => []Bounded
<1>1. DirectoryLog!Spec => []DirectoryLog!TypeOK
  BY LedgerBounds, TornIsNoEvent, DirectoryLog!TypeCorrect
<1>2. DirectoryLog!Spec => []DirectoryLog!AttemptsLeft
  BY LedgerBounds, TornIsNoEvent, DirectoryLog!AttemptsAreLeft
<1> QED  BY <1>1, <1>2, HarnessUsesDirectoryLedger, Invariant, ChainBehindCalls, PTL DEF Bounded

\* What is left of a call of the ledger.
LEMMA LedgerStepsLeft ==
  ASSUME Bounded, NEW p \in Proc
  PROVE  /\ MaxAttempts \in Nat \ {0}
         /\ DirectoryLog!StepsLeft(p) \in 0 .. 5 * MaxAttempts
         /\ pc[p] \in {"idle", "down"} => DirectoryLog!StepsLeft(p) = 0
         /\ pc[p] \in Ledger!Busy => DirectoryLog!StepsLeft(p) > 0
<1>1. CASE pc[p] \in Ledger!Busy
  <2>1. DirectoryLog!StepsLeft(p) \in 1 .. 5 * MaxAttempts
    BY <1>1, LedgerBounds, TornIsNoEvent, DirectoryLog!StepsLeftIs DEF Bounded, Ledger!Busy, DirectoryLog!Busy
  <2> QED  BY <1>1, <2>1, HarnessAssumption DEF Ledger!Busy
<1>2. CASE pc[p] \notin Ledger!Busy
  <2>1. DirectoryLog!StepsLeft(p) = 0
    BY <1>2 DEF DirectoryLog!StepsLeft, Ledger!Busy, DirectoryLog!Busy
  <2> QED  BY <1>2, <2>1, HarnessAssumption
<1> QED  BY <1>1, <1>2

\* What is left of a call of authorize, at each of its steps.
LEMMA CallStepsLeftIs ==
  ASSUME Bounded, NEW p \in Proc
  PROVE  LET inLedger == DirectoryLog!StepsLeft(p) + 1
         IN  /\ step[p] = "ready" => CallStepsLeft(p) = 0
             /\ step[p] = "digest" => CallStepsLeft(p) = inLedger
             /\ step[p] = "record" => CallStepsLeft(p) = 5 * MaxAttempts + 1 + inLedger
             /\ step[p] = "consume" => CallStepsLeft(p) = 10 * MaxAttempts + 3 + StoreStepsLeft(p)
             /\ StoreStepsLeft(p) \in 0 .. 3
             /\ step[p] # "ready" => CallStepsLeft(p) \in 1 .. 10 * MaxAttempts + 6
<1>1. MaxAttempts \in Nat \ {0} /\ DirectoryLog!StepsLeft(p) \in 0 .. 5 * MaxAttempts
  BY LedgerStepsLeft
<1>2. step[p] \in {"ready", "consume", "record", "digest"} /\ stage[p] \in {"idle", "create", "write", "close", "inspect"}
  BY DEF Bounded, HInv, Types
<1>3. StoreStepsLeft(p) \in 0 .. 3
  BY <1>2 DEF StoreStepsLeft
<1>4. /\ step[p] = "ready" => CallStepsLeft(p) = 0
      /\ step[p] = "digest" => CallStepsLeft(p) = DirectoryLog!StepsLeft(p) + 1
      /\ step[p] = "record" => CallStepsLeft(p) = 5 * MaxAttempts + 1 + DirectoryLog!StepsLeft(p) + 1
      /\ step[p] = "consume" => CallStepsLeft(p) = 10 * MaxAttempts + 3 + StoreStepsLeft(p)
  BY <1>1, <1>3 DEF CallStepsLeft
<1> QED  BY <1>1, <1>2, <1>3, <1>4

\* A method of the ledger that begins has all its attempts before it.
LEMMA BegunStepsLeft ==
  ASSUME Bounded, NEW p \in Proc, NEW m, NEW d, Ledger!Begin(p, m, d)
  PROVE  pc[p] = "idle" /\ (DirectoryLog!StepsLeft(p))' = 5 * MaxAttempts
<1>1. pc[p] = "idle" /\ pc'[p] = "scan" /\ attempt'[p] = 0
  BY DEF Ledger!Begin, Ledger!Start, Bounded, DirectoryLog!TypeOK
<1> QED  BY <1>1, HarnessAssumption DEF DirectoryLog!StepsLeft, DirectoryLog!Busy

\* A step of p brings its call nearer to its end.
LEMMA OwnStepShortens ==
  ASSUME Bounded, Bounded', NEW p \in Proc, Acting(p), step[p] # "ready"
  PROVE  CallStepsLeft(p)' < CallStepsLeft(p)
<1> DEFINE left == DirectoryLog!StepsLeft(p)
           leftThen == (DirectoryLog!StepsLeft(p))'
<1>1. /\ MaxAttempts \in Nat \ {0}
      /\ left \in 0 .. 5 * MaxAttempts
      /\ pc[p] \in {"idle", "down"} => left = 0
      /\ pc[p] \in Ledger!Busy => left > 0
  BY LedgerStepsLeft
<1>2. /\ step[p] = "digest" => CallStepsLeft(p) = left + 1
      /\ step[p] = "record" => CallStepsLeft(p) = 5 * MaxAttempts + 1 + left + 1
      /\ step[p] = "consume" => CallStepsLeft(p) = 10 * MaxAttempts + 3 + StoreStepsLeft(p)
      /\ StoreStepsLeft(p) \in 0 .. 3
      /\ CallStepsLeft(p) > 0
      /\ CallStepsLeft(p) \in Nat
  BY CallStepsLeftIs, <1>1
<1>3. /\ step[p] \in {"consume", "record", "digest"}
      /\ step[p] = "consume" => pc[p] = "idle"
      /\ step[p] \in {"record", "digest"} => stage[p] = "idle" /\ pc[p] # "down"
      /\ stage[p] \in {"idle", "create", "write", "close", "inspect"}
      /\ pc[p] \in Ledger!Busy \cup {"down", "idle"}
      /\ p \in DOMAIN step /\ p \in DOMAIN stage
  BY DEF Bounded, HInv, Types, Located
<1>4. ASSUME NEW r, Finish(p, r) PROVE CallStepsLeft(p)' < CallStepsLeft(p)
  <2>1. step'[p] = "ready"
    BY <1>3, <1>4 DEF Finish
  <2>2. CallStepsLeft(p)' = 0
    BY <2>1 DEF CallStepsLeft
  <2> QED  BY <1>2, <2>2
<1>5. ASSUME Store!Progress(p) \/ Store!StoreFails(p), UNCHANGED <<ledger, harness>>
      PROVE  CallStepsLeft(p)' < CallStepsLeft(p)
  <2>1. /\ stage[p] # "idle"
        /\ \/ stage[p] = "create" /\ stage'[p] \in {"write", "inspect", "idle"}
           \/ stage[p] = "write" /\ stage'[p] = "close"
           \/ stage'[p] = "idle"
    BY <1>3, <1>5 DEF Store!Progress, Store!StoreFails, Store!CreateClaim, Store!FindClaim,
       Store!WriteClaim, Store!CloseClaim, Store!ReadClaim, Store!Return
  <2>2. StoreStepsLeft(p)' < StoreStepsLeft(p) /\ StoreStepsLeft(p)' \in Nat
    BY <1>3, <2>1 DEF StoreStepsLeft
  <2>3. step[p] = "consume" /\ step'[p] = "consume"
    BY <1>3, <1>5, <2>1 DEF harness
  <2>4. CallStepsLeft(p)' = 10 * MaxAttempts + 3 + StoreStepsLeft(p)'
    BY <1>1, <2>2, <2>3 DEF CallStepsLeft
  <2> QED  BY <1>1, <1>2, <2>2, <2>3, <2>4
<1>6. ASSUME Ledger!Progress(p) \/ Ledger!StorageFails(p), UNCHANGED <<store, harness>>
      PROVE  CallStepsLeft(p)' < CallStepsLeft(p)
  <2>1. leftThen \in Nat /\ leftThen < left
    <3>1. DirectoryLog!TypeOK /\ DirectoryLog!AttemptsLeft /\ DirectoryLog!TypeOK' /\ DirectoryLog!AttemptsLeft'
      BY DEF Bounded
    <3>2. CASE Ledger!Progress(p)
      <4>1. DirectoryLog!Progress(p)
        BY <3>2, SameProgress
      <4>2. /\ attempt'[p] \in 0 .. MaxAttempts
            /\ pc'[p] \in {"scan", "read", "create", "write", "close"} => attempt'[p] < MaxAttempts
        BY <3>1 DEF DirectoryLog!TypeOK, DirectoryLog!AttemptsLeft, DirectoryLog!Busy
      <4>3. leftThen \in Nat
        BY <1>1, <4>2 DEF DirectoryLog!StepsLeft, DirectoryLog!Busy
      <4> QED  BY <3>1, <4>1, <4>3, LedgerBounds, TornIsNoEvent, DirectoryLog!StepShortens
    <3>3. CASE Ledger!StorageFails(p)
      <4>1. pc[p] \in Ledger!Busy /\ pc'[p] \in {"idle", "down"}
        BY <1>3, <3>3 DEF Ledger!StorageFails, Ledger!Throw, Ledger!End, Bounded, HInv, Types
      <4>2. leftThen = 0
        BY <4>1 DEF DirectoryLog!StepsLeft, DirectoryLog!Busy
      <4> QED  BY <1>1, <4>1, <4>2
    <3> QED  BY <1>6, <3>2, <3>3
  <2>2. step'[p] = step[p] /\ StoreStepsLeft(p)' = StoreStepsLeft(p)
    BY <1>6 DEF harness, store, StoreStepsLeft
  <2>3. pc[p] \in Ledger!Busy
    BY <1>1, <1>3, <2>1
  <2>4. step[p] \in {"record", "digest"}
    BY <1>3, <2>3 DEF Ledger!Busy
  <2>5. /\ step[p] = "digest" => CallStepsLeft(p)' = leftThen + 1
        /\ step[p] = "record" => CallStepsLeft(p)' = 5 * MaxAttempts + 1 + leftThen + 1
    BY <1>1, <2>1, <2>2 DEF CallStepsLeft
  <2> QED  BY <1>1, <1>2, <2>1, <2>4, <2>5
<1>7. ASSUME NEW c, NEW d, NEW x, Record(p, c, d, x), step[p] = "consume"
      PROVE  CallStepsLeft(p)' < CallStepsLeft(p)
  <2>1. step'[p] = "record" /\ leftThen = 5 * MaxAttempts
    BY <1>3, <1>7, BegunStepsLeft DEF Record
  <2>2. CallStepsLeft(p)' = 5 * MaxAttempts + 1 + 5 * MaxAttempts + 1
    BY <1>1, <2>1 DEF CallStepsLeft
  <2> QED  BY <1>1, <1>2, <1>7, <2>2
<1>8. CASE Appended(p)
  <2>1. step[p] = "record" /\ step'[p] = "digest" /\ leftThen = 5 * MaxAttempts
    BY <1>3, <1>8, BegunStepsLeft DEF Appended
  <2>2. CallStepsLeft(p)' = 5 * MaxAttempts + 1
    BY <1>1, <2>1 DEF CallStepsLeft
  <2> QED  BY <1>1, <1>2, <2>1, <2>2
<1>9. CASE Consumed(p)
  BY <1>7, <1>9 DEF Consumed
<1>10. CASE Authorize(p) \/ Restart(p)
  BY <1>3, <1>10 DEF Authorize, AuthorizeThrows, AuthorizeSigned, AuthorizeUnconsumed, Ready, Restart,
     Ledger!Restart
<1> QED  BY <1>4, <1>5, <1>6, <1>8, <1>9, <1>10
         DEF Acting, Progress, Crash, StorageFails, Digested, LedgerThrew

\* A step of another process leaves p's call alone.
LEMMA OthersStepLeavesCall ==
  ASSUME Bounded, NEW q \in Proc, Acting(q), NEW p \in Proc, p # q
  PROVE  Locals(p)' = Locals(p)
<1>1. (DirectoryLog!Locals(p))' = DirectoryLog!Locals(p)
  <2>1. CASE UNCHANGED DirectoryLog!vars
    BY <2>1 DEF DirectoryLog!vars, DirectoryLog!disk, DirectoryLog!local, DirectoryLog!Locals
  <2>2. CASE DirectoryLog!Call(q) \/ DirectoryLog!Progress(q) \/ DirectoryLog!Environment(q)
    BY <2>2, LedgerBounds, TornIsNoEvent, DirectoryLog!OthersUntouched DEF Bounded
  <2> QED  BY <2>1, <2>2, LedgerStepOf DEF Bounded
<1>2. step'[p] = step[p] /\ task'[p] = task[p] /\ decision'[p] = decision[p] /\ result'[p] = result[p]
  <2>1. /\ p \in DOMAIN step /\ p \in DOMAIN task /\ p \in DOMAIN decision /\ p \in DOMAIN result
    BY DEF Bounded, HInv, Types, EInv, LedgerTypes
  <2> USE <2>1 DEF harness
  <2>2. CASE Authorize(q)
    BY <2>2 DEF Authorize, AuthorizeThrows, AuthorizeSigned, AuthorizeUnconsumed, Record, Finish
  <2>3. CASE Progress(q)
    BY <2>3 DEF Progress, Consumed, Appended, Digested, LedgerThrew, Record, Finish
  <2>4. CASE Crash(q) \/ Restart(q) \/ StorageFails(q)
    BY <2>4 DEF Crash, Restart, StorageFails, Finish
  <2> QED  BY <2>2, <2>3, <2>4 DEF Acting
<1>3. stage'[p] = stage[p] /\ presented'[p] = presented[p] /\ answer'[p] = answer[p]
  <2>1. /\ p \in DOMAIN stage /\ p \in DOMAIN presented /\ p \in DOMAIN answer
    BY DEF Bounded, HInv, Types
  <2>2. CASE UNCHANGED store
    BY <2>2 DEF store
  <2>3. ASSUME NEW e, Store!Consume(q, e)
        PROVE  stage'[p] = stage[p] /\ presented'[p] = presented[p] /\ answer'[p] = answer[p]
    BY <2>1, <2>3 DEF Store!Consume
  <2>4. CASE Store!Progress(q) \/ Store!StoreFails(q) \/ Store!Crash(q)
    BY <2>1, <2>4 DEF Store!Progress, Store!StoreFails, Store!Crash, Store!CreateClaim,
       Store!FindClaim, Store!WriteClaim, Store!CloseClaim, Store!ReadClaim, Store!Return
  <2> QED  BY <2>2, <2>3, <2>4
           DEF Acting, Authorize, AuthorizeThrows, AuthorizeSigned, AuthorizeUnconsumed, Progress,
               Consumed, Appended, Digested, LedgerThrew, Crash, Restart, StorageFails
<1> QED  BY <1>1, <1>2, <1>3 DEF Locals

\* Whoever wins the races meanwhile and whatever fails, a call of authorize ends
\* after a bounded number of its own steps.
THEOREM AuthorizationsAlwaysAreBounded == Spec => AuthorizationsAreBounded
<1>1. ASSUME Bounded, Bounded', [Next]_vars, NEW p \in Proc, step[p] # "ready"
      PROVE  /\ CallStepsLeft(p) \in 1 .. 10 * MaxAttempts + 6
             /\ CallStepsLeft(p)' < CallStepsLeft(p) \/ Locals(p)' = Locals(p)
  <2>1. CallStepsLeft(p) \in 1 .. 10 * MaxAttempts + 6
    BY <1>1, CallStepsLeftIs
  <2>2. CASE UNCHANGED vars
    <3>1. (DirectoryLog!Locals(p))' = DirectoryLog!Locals(p)
      BY <2>2 DEF vars, ledger, DirectoryLog!Locals
    <3> QED  BY <2>1, <2>2, <3>1 DEF vars, store, harness, Locals
  <2>3. ASSUME NEW q \in Proc, Acting(q)
        PROVE  CallStepsLeft(p)' < CallStepsLeft(p) \/ Locals(p)' = Locals(p)
    BY <1>1, <2>3, OwnStepShortens, OthersStepLeavesCall
  <2> QED  BY <1>1, <2>1, <2>2, <2>3 DEF Next, Acting
<1>2. Bounded /\ Bounded' /\ [Next]_vars =>
        [\A p \in Proc :
           step[p] # "ready" =>
             /\ CallStepsLeft(p) \in 1 .. 10 * MaxAttempts + 6
             /\ CallStepsLeft(p)' < CallStepsLeft(p) \/ Locals(p)' = Locals(p)]_vars
  BY <1>1
<1> QED  BY <1>2, BoundedAlways, PTL DEF Spec, AuthorizationsAreBounded, Nearer
=============================================================================
