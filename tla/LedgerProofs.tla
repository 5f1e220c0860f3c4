---------------------------- MODULE LedgerProofs ----------------------------
(***************************************************************************)
(* Proofs about DirectoryLedger for any set of processes, any number of    *)
(* calls, attempts and faults.                                             *)
(***************************************************************************)
EXTENDS LedgerInvariant, FiniteSetTheorems, SequenceTheorems, TLAPS

-----------------------------------------------------------------------------
(* Lemmas about the operators. *)

\* An event append builds is an event, with the fields it was given.
LEMMA BuiltEvent ==
  ASSUME NEW id \in EventIds, NEW n \in Nat \ {0}, NEW hash \in Hashes, NEW d \in Details
  PROVE  LET e == buildEvent(id, n, hash, d)
         IN  /\ e \in Events
             /\ e.id = id /\ e.sequence = n /\ e.previousHash = hash
             /\ e.eventHash = hashEvent(e)
<1>1. [id |-> id, sequence |-> n, details |-> d] \in HashedRecords
  BY DEF HashedRecords
<1>2. Append(hash, [id |-> id, sequence |-> n, details |-> d]) \in Hashes
  BY <1>1, AppendProperties DEF Hashes
<1> QED  BY <1>2 DEF buildEvent, hashEvent, Hashed, Events

\* A listing has as many contents as names, each an event or torn.
LEMMA ContentsAreASequence ==
  ASSUME TypeOK, NEW S \in SUBSET DOMAIN files, NEW names \in SortedNames(S)
  PROVE  /\ Contents(names) \in Seq(Events \cup {Torn})
         /\ Len(Contents(names)) = Cardinality(S)
         /\ Cardinality(S) \in Nat
         /\ IsFiniteSet(S)
         /\ \A i \in 1 .. Cardinality(S) :
              names[i] \in S /\ Contents(names)[i] = files[names[i]]
<1>1. IsFiniteSet(S) /\ Cardinality(S) \in Nat
  BY FS_Subset, FS_CardinalityType DEF TypeOK
<1>2. names \in [1 .. Cardinality(S) -> S]
  BY DEF SortedNames
<1>3. Contents(names) \in [1 .. Cardinality(S) -> Events \cup {Torn}]
  BY <1>2 DEF Contents, TypeOK
<1>4. Contents(names) \in Seq(Events \cup {Torn})
  BY <1>1, <1>3, SeqDef
<1>5. Len(Contents(names)) = Cardinality(S)
  BY <1>1, <1>3, <1>4, LenProperties
<1> QED  BY <1>1, <1>2, <1>4, <1>5 DEF Contents

\* The last hash of a readable listing is a hash.
LEMMA HeadHashType ==
  ASSUME TypeOK, NEW S \in SUBSET DOMAIN files, NEW names \in SortedNames(S),
         Readable(Contents(names))
  PROVE  HeadHash(Contents(names)) \in Hashes
<1> DEFINE events == Contents(names)
<1>1. events \in Seq(Events \cup {Torn}) /\ Len(events) \in Nat
  BY ContentsAreASequence
<1>2. CASE events = << >>
  BY <1>2 DEF HeadHash, GENESIS_HASH, Hashes
<1>3. CASE events # << >>
  <2>1. Len(events) \in 1 .. Len(events)
    BY <1>1, <1>3, EmptySeq
  <2>2. events[Len(events)] \in Events
    BY <1>1, <2>1, ElementOfSeq DEF Readable
  <2> QED  BY <1>3, <2>2 DEF HeadHash, Events
<1> QED  BY <1>2, <1>3

\* An intact directory has as many recorded events as the chain is long.
LEMMA ChainCount ==
  ASSUME NEW n \in Nat, ChainTo(n)
  PROVE  Cardinality(Written) = n
BY FS_Interval DEF ChainTo

\* What a verified listing proves about an intact directory: the listing is
\* exactly the first m files, and its last hash is that of event m.
LEMMA VerifiedListing ==
  ASSUME TypeOK, Chained, NEW S \in SUBSET DOMAIN files, NEW names \in SortedNames(S),
         Readable(Contents(names))
  PROVE  LET m == Len(Contents(names))
         IN  /\ m \in Nat
             /\ S = 1 .. m
             /\ S \subseteq Written
             /\ HeadHash(Contents(names)) = LinkOf(m + 1)
<1> DEFINE events == Contents(names)
           m == Cardinality(S)
<1>1. /\ events \in Seq(Events \cup {Torn})
      /\ Len(events) = m
      /\ m \in Nat
      /\ IsFiniteSet(S)
      /\ \A i \in 1 .. m : names[i] \in S /\ events[i] = files[names[i]]
  BY ContentsAreASequence
<1>2. ASSUME NEW i \in 1 .. m PROVE names[i] = i /\ i \in Written
  <2>1. events[i] # Torn /\ events[i].sequence = i
    BY <1>1 DEF Readable, verifyAuditChain
  <2>2. names[i] \in Written
    BY <1>1, <2>1 DEF Written
  <2>3. files[names[i]].sequence = names[i]
    BY <2>2 DEF Chained, ChainTo
  <2> QED  BY <1>1, <2>1, <2>2, <2>3
<1>3. S = 1 .. m
  <2>1. 1 .. m \subseteq S
    BY <1>1, <1>2
  <2>2. Cardinality(1 .. m) = m
    BY <1>1, FS_Interval
  <2> QED  BY <1>1, <2>1, <2>2, FS_Subset
<1>4. S \subseteq Written
  BY <1>2, <1>3
<1>5. HeadHash(events) = LinkOf(m + 1)
  <2>1. CASE m = 0
    BY <1>1, <2>1, EmptySeq DEF HeadHash, LinkOf
  <2>2. CASE m > 0
    <3>1. events # << >>
      BY <1>1, <2>2, EmptySeq
    <3>2. events[m] = files[m]
      BY <1>1, <1>2, <2>2
    <3> QED  BY <1>1, <2>2, <3>1, <3>2 DEF HeadHash, LinkOf
  <2> QED  BY <1>1, <2>1, <2>2
<1> QED  BY <1>1, <1>3, <1>4, <1>5

-----------------------------------------------------------------------------
(* Type correctness. *)

LEMMA ThrownType == NoResult \in Results /\ \A method \in Ops : Thrown(method) \in Results
BY EmptySeq DEF NoResult, Thrown, Results, Ops, GENESIS_HASH, Hashes

\* Ending a call keeps the types of the local variables.
LEMMA EndType ==
  ASSUME TypeOK, NEW p \in Proc, NEW l \in {"down", "idle"}, NEW result \in Results,
         End(p, l, result), DOMAIN files \subseteq DOMAIN files'
  PROVE  /\ pc' \in [Proc -> Busy \cup {"down", "idle"}]
         /\ op' \in [Proc -> Ops]
         /\ details' \in [Proc -> Details]
         /\ attempt' \in [Proc -> 0 .. MaxAttempts]
         /\ opened' \in [Proc -> SUBSET DOMAIN files']
         /\ draft' \in [Proc -> Events \cup {Torn}]
         /\ \A q \in Proc : pc'[q] \in {"create", "write", "close"} => draft'[q] \in Events
         /\ out' \in [Proc -> Results]
         /\ calls' \in [Proc -> 0 .. MaxCalls]
         /\ \A q \in Proc : op'[q] = "append" => calls'[q] # 0
         /\ floor' \in [Proc -> Nat]
BY DEF TypeOK, End

LEMMA StartType ==
  ASSUME TypeOK, NEW p \in Proc, NEW method \in Ops, NEW d \in Details,
         Start(p, method, d), calls' \in [Proc -> 0 .. MaxCalls],
         \A q \in Proc : calls'[q] >= calls[q],
         method = "append" => calls'[p] # 0
  PROVE  TypeOK'
<1>1. Cardinality(Written) \in Nat
  BY FS_Subset, FS_CardinalityType DEF TypeOK, Written
<1>2. 0 \in 0 .. MaxAttempts
  BY BoundsAssumption
<1>3. \A q \in Proc : pc'[q] \in {"create", "write", "close"} => draft'[q] \in Events
  BY DEF TypeOK, Start
<1>4. \A q \in Proc : op'[q] = "append" => calls'[q] # 0
  BY DEF TypeOK, Start
<1>5. files' = files /\ faults' = faults /\ receipts' = receipts /\ opened' = opened /\ draft' = draft
  BY DEF Start, disk
<1>6. /\ pc' \in [Proc -> Busy \cup {"down", "idle"}]
      /\ op' \in [Proc -> Ops]
      /\ details' \in [Proc -> Details]
      /\ attempt' \in [Proc -> 0 .. MaxAttempts]
      /\ out' \in [Proc -> Results]
      /\ floor' \in [Proc -> Nat]
  BY <1>1, <1>2, ThrownType DEF TypeOK, Start, Busy
<1> QED  BY <1>3, <1>4, <1>5, <1>6 DEF TypeOK

LEMMA FaultType == TypeOK /\ Fault => faults' \in 0 .. MaxFaults
BY BoundsAssumption DEF TypeOK, Fault

LEMMA ReadVerifiedType ==
  ASSUME TypeOK, NEW p \in Proc, ReadVerified(p)
  PROVE  TypeOK'
<1>1. PICK S \in Listings(p) : \E names \in SortedNames(S) :
        /\ Readable(Contents(names))
        /\ BuildNext(p, Contents(names)) \/ Answer(p, Contents(names))
  BY DEF ReadVerified
<1>2. PICK names \in SortedNames(S) :
        /\ Readable(Contents(names))
        /\ BuildNext(p, Contents(names)) \/ Answer(p, Contents(names))
  BY <1>1
<1> DEFINE events == Contents(names)
<1>3. HeadHash(events) \in Hashes /\ Len(events) \in Nat
  BY <1>2, HeadHashType, ContentsAreASequence DEF Listings
<1>4. UNCHANGED <<files, faults, receipts>>
  BY DEF ReadVerified, disk
<1>5. CASE BuildNext(p, events)
  <2> DEFINE next == buildEvent(<<p, calls[p]>>, Len(events) + 1, HeadHash(events), details[p])
  <2>1. next \in Events
    <3>1. <<p, calls[p]>> \in EventIds
      BY <1>5, BoundsAssumption DEF BuildNext, TypeOK, EventIds
    <3>2. Len(events) + 1 \in Nat \ {0} /\ details[p] \in Details
      BY <1>3 DEF TypeOK
    <3> HIDE DEF events
    <3> QED  BY <1>3, <3>1, <3>2, BuiltEvent
  <2>2. draft' = [draft EXCEPT ![p] = next]
    BY <1>5 DEF BuildNext
  <2> HIDE DEF next
  <2> QED  BY <1>4, <1>5, <2>1, <2>2 DEF TypeOK, BuildNext, Busy
<1>6. CASE Answer(p, events)
  <2> DEFINE answer == [op       |-> op[p],
                        ok       |-> TRUE,
                        sequence |-> Len(events),
                        hash     |-> HeadHash(events)]
  <2>1. answer \in Results
    BY <1>3 DEF TypeOK, Results
  <2>2. End(p, "idle", answer)
    BY <1>6 DEF Answer
  <2> HIDE DEF answer
  <2> QED  BY <1>4, <2>1, <2>2, EndType DEF TypeOK
<1> QED  BY <1>2, <1>5, <1>6

LEMMA CreateFileType ==
  ASSUME TypeOK, NEW p \in Proc, CreateFile(p)
  PROVE  TypeOK'
<1>1. draft[p].sequence \in Nat \ {0}
  BY DEF TypeOK, CreateFile, Events
<1>2. /\ files' \in [DOMAIN files' -> Events \cup {Torn}]
      /\ DOMAIN files' = DOMAIN files \cup {draft[p].sequence}
  BY DEF TypeOK, CreateFile
<1>3. IsFiniteSet(DOMAIN files')
  BY <1>2, FS_AddElement DEF TypeOK
<1> QED  BY <1>1, <1>2, <1>3 DEF TypeOK, CreateFile, Busy

LEMMA WriteEventType ==
  ASSUME TypeOK, NEW p \in Proc, WriteEvent(p)
  PROVE  TypeOK'
<1>1. draft[p] \in Events
  BY DEF TypeOK, WriteEvent
<1>2. DOMAIN files' = DOMAIN files /\ files' \in [DOMAIN files' -> Events \cup {Torn}]
  BY <1>1 DEF WriteEvent, TypeOK
<1> QED  BY <1>1, <1>2 DEF TypeOK, WriteEvent, Busy

LEMMA CloseFileType ==
  ASSUME TypeOK, NEW p \in Proc, CloseFile(p)
  PROVE  TypeOK'
<1>1. draft[p] \in Events
  BY DEF TypeOK, CloseFile
<1>2. receiptFor(draft[p]) \in Receipts
  BY <1>1 DEF receiptFor, Receipts, Events
<1> DEFINE answer == [op       |-> "append",
                      ok       |-> TRUE,
                      sequence |-> draft[p].sequence,
                      hash     |-> draft[p].eventHash]
<1>3. answer \in Results
  BY <1>1 DEF Results, Events, Ops
<1>4. End(p, "idle", answer)
  BY DEF CloseFile
<1> HIDE DEF answer
<1> QED  BY <1>2, <1>3, <1>4, EndType DEF TypeOK, CloseFile

\* A call that throws, and one that dies, keep the types.
LEMMA EndsType ==
  ASSUME TypeOK, NEW p \in Proc, NEW l \in {"down", "idle"}, NEW result \in Results,
         End(p, l, result), files' = files, faults' \in 0 .. MaxFaults, receipts' = receipts
  PROVE  TypeOK'
BY EndType DEF TypeOK

LEMMA ThrowIsAnEnd ==
  ASSUME TypeOK, NEW p \in Proc, Throw(p)
  PROVE  \E l \in {"down", "idle"} : \E result \in Results : End(p, l, result)
BY ThrownType DEF Throw, TypeOK

LEMMA TypeStep == TypeOK /\ [Next]_vars => TypeOK'
<1> SUFFICES ASSUME TypeOK, [Next]_vars PROVE TypeOK'
  OBVIOUS
<1>1. ASSUME NEW p \in Proc, NEW method \in Reads \cup {"append"}, NEW d \in Details,
             Begin(p, method, d)
      PROVE  TypeOK'
  <2>1. /\ calls' \in [Proc -> 0 .. MaxCalls]
        /\ \A q \in Proc : calls'[q] >= calls[q]
        /\ calls'[p] # 0
    BY <1>1, BoundsAssumption DEF Begin, TypeOK
  <2>2. method \in Ops
    BY DEF Ops
  <2>3. Start(p, method, d)
    BY <1>1 DEF Begin
  <2> QED  BY <2>1, <2>2, <2>3, StartType
<1>2. ASSUME NEW p \in Proc, OpenDir(p) PROVE TypeOK'
  BY <1>2 DEF TypeOK, OpenDir, disk, Busy
<1>3. ASSUME NEW p \in Proc, ReadVerified(p) PROVE TypeOK'
  BY <1>3, ReadVerifiedType
<1>4. ASSUME NEW p \in Proc, ReadFails(p) PROVE TypeOK'
  BY <1>4, ThrowIsAnEnd, EndsType DEF ReadFails, disk, TypeOK
<1>5. ASSUME NEW p \in Proc, CreateFile(p) PROVE TypeOK'
  BY <1>5, CreateFileType
<1>6. ASSUME NEW p \in Proc, LoseSequence(p) PROVE TypeOK'
  BY <1>6, BoundsAssumption DEF TypeOK, LoseSequence, disk, Busy
<1>7. ASSUME NEW p \in Proc, GiveUp(p) PROVE TypeOK'
  BY <1>7, BoundsAssumption, ThrownType DEF TypeOK, GiveUp, disk, Busy, Ops
<1>8. ASSUME NEW p \in Proc, WriteEvent(p) PROVE TypeOK'
  BY <1>8, WriteEventType
<1>13. ASSUME NEW p \in Proc, CloseFile(p) PROVE TypeOK'
  BY <1>13, CloseFileType
<1>9. ASSUME NEW p \in Proc, StorageFails(p) PROVE TypeOK'
  BY <1>9, ThrowIsAnEnd, EndsType, FaultType DEF StorageFails
<1>10. ASSUME NEW p \in Proc, Crash(p) PROVE TypeOK'
  BY <1>10, ThrownType, EndsType, FaultType DEF Crash
<1>11. ASSUME NEW p \in Proc, Restart(p) PROVE TypeOK'
  <2>1. /\ calls' \in [Proc -> 0 .. MaxCalls]
        /\ \A q \in Proc : calls'[q] >= calls[q]
    BY <1>11 DEF Restart, TypeOK
  <2> QED  BY <1>11, <2>1, StartType DEF Restart, Ops, TypeOK
<1>12. CASE UNCHANGED vars
  BY <1>12 DEF TypeOK, vars, disk, local
<1> QED
  BY <1>1, <1>2, <1>3, <1>4, <1>5, <1>6, <1>7, <1>8, <1>9, <1>10, <1>11, <1>12, <1>13
     DEF Next, Call, Progress, Environment

LEMMA TypeInit == Init => TypeOK
<1> SUFFICES ASSUME Init PROVE TypeOK
  OBVIOUS
<1>1. (CHOOSE d \in Details : TRUE) \in Details
  BY BoundsAssumption
<1>2. DOMAIN files = {} /\ IsFiniteSet(DOMAIN files) /\ files \in [{} -> Events \cup {Torn}]
  BY FS_EmptySet DEF Init
<1>3. 0 \in 0 .. MaxAttempts /\ 0 \in 0 .. MaxCalls /\ 0 \in 0 .. MaxFaults
  BY BoundsAssumption
<1> QED  BY <1>1, <1>2, <1>3, ThrownType DEF Init, TypeOK, Ops, Busy

\* Every variable has its type in every reachable state, however many processes.
THEOREM TypeCorrect == Spec => []TypeOK
BY TypeInit, TypeStep, PTL DEF Spec

-----------------------------------------------------------------------------
(* The inductive invariant. *)

\* A step that only adds: it removes no file and changes no recorded event.
Grows ==
  /\ DOMAIN files \subseteq DOMAIN files'
  /\ \A k \in Written : files'[k] = files[k]

\* What a step of another process leaves alone.
Same(q) ==
  /\ pc'[q] = pc[q] /\ op'[q] = op[q] /\ details'[q] = details[q]
  /\ attempt'[q] = attempt[q] /\ opened'[q] = opened[q] /\ draft'[q] = draft[q]
  /\ out'[q] = out[q] /\ calls'[q] = calls[q] /\ floor'[q] = floor[q]

LEMMA GrowsWritten == Grows => Written \subseteq Written'
BY DEF Grows, Written

\* A link to a recorded event, or to none, stays the same.
LEMMA LinkStays ==
  ASSUME Grows, NEW n \in Nat, n - 1 \in Written \cup {0}
  PROVE  LinkOf(n)' = LinkOf(n)
BY DEF Grows, LinkOf

LEMMA AnsweredStays ==
  ASSUME IInv, Grows, NEW q \in Proc,
         out'[q] = out[q], op'[q] = op[q], floor'[q] = floor[q]
  PROVE  Answered(q)'
<1>1. SUFFICES ASSUME out[q].ok PROVE Answered(q)'
  BY DEF Answered
<1>2. out[q].sequence \in Nat /\ Answered(q)
  BY DEF IInv, TypeOK, Results
<1>3. LinkOf(out[q].sequence + 1)' = LinkOf(out[q].sequence + 1)
  BY <1>1, <1>2, LinkStays DEF Answered
<1> QED  BY <1>1, <1>2, <1>3, GrowsWritten DEF Answered

LEMMA OthersGrow ==
  ASSUME IInv, Grows, NEW q \in Proc, Same(q)
  PROVE  DraftFollows(q)' /\ Filled(q)' /\ SawThePast(q)' /\ Answered(q)'
<1>1. Written \subseteq Written'
  BY GrowsWritten
<1>2. DraftFollows(q)'
  <2>1. SUFFICES ASSUME pc'[q] \in {"create", "write", "close"} PROVE DraftFollows(q)'
    BY DEF DraftFollows
  <2>2. draft[q] \in Events /\ draft'[q] = draft[q] /\ DraftFollows(q)
    BY <2>1 DEF IInv, TypeOK, Same
  <2>3. LinkOf(draft[q].sequence)' = LinkOf(draft[q].sequence)
    BY <2>1, <2>2, LinkStays DEF DraftFollows, Same, Events
  <2> QED  BY <1>1, <2>2, <2>3 DEF DraftFollows, Same, LinkOf
<1>3. SawThePast(q)'
  BY <1>1 DEF IInv, SawThePast, Same, Grows
<1>4. Answered(q)'
  BY AnsweredStays DEF Same
<1>5. Filled(q)'
  BY <1>1 DEF IInv, Filled, Same, Grows
<1> QED  BY <1>2, <1>3, <1>4, <1>5

LEMMA ReceiptsStay == IInv /\ files' = files /\ receipts' = receipts => ReceiptsVerify'
BY DEF IInv, ReceiptsVerify, Written

\* A step that leaves the directory alone preserves the invariant when it
\* preserves it for the process that takes it.
LEMMA LocalStep ==
  ASSUME IInv, TypeOK', files' = files, ReceiptsVerify', NEW p \in Proc,
         pc'[p] \notin {"write", "close"}, calls'[p] >= calls[p], \A q \in Proc \ {p} : Same(q),
         DraftFollows(p)', Unrecorded(p)', SawThePast(p)', Answered(p)'
  PROVE  IInv'
<1>1. Written' = Written
  BY DEF Written
<1>2. Chained'
  BY <1>1 DEF IInv, Chained, ChainTo, LinkOf
<1>4. IdsOfCalls'
  <2>1. \A q \in Proc : calls[q] \in Nat /\ calls'[q] \in Nat /\ calls'[q] >= calls[q]
    BY DEF IInv, TypeOK, Same
  <2>2. \A k \in Written : files[k].id[1] \in Proc /\ files[k].id[2] \in Nat
    BY DEF IInv, TypeOK, Written, Events, EventIds
  <2>3. \A k \in Written : files[k].id[2] <= calls'[files[k].id[1]]
    BY <2>1, <2>2 DEF IInv, IdsOfCalls
  <2> QED  BY <1>1, <2>3 DEF IInv, IdsOfCalls, RecordedOnce
<1>5. ASSUME NEW q \in Proc
      PROVE  DraftFollows(q)' /\ Filled(q)' /\ Unrecorded(q)' /\ SawThePast(q)' /\ Answered(q)'
  <2>1. CASE q = p
    BY <2>1 DEF Filled
  <2>2. CASE q # p
    <3>1. Same(q)
      BY <2>2
    <3>2. Grows
      BY DEF Grows
    <3>3. Unrecorded(q)'
      BY <1>1, <3>1 DEF IInv, Unrecorded, Same
    <3> QED  BY <3>1, <3>2, <3>3, OthersGrow
  <2> QED  BY <2>1, <2>2
<1>6. \A q \in Proc : Writer(q)'
  <2>1. \A q \in Proc : pc'[q] = "write" => q # p /\ pc[q] = "write" /\ draft'[q] = draft[q]
    BY DEF Same
  <2> QED  BY <1>1, <2>1 DEF IInv, Writer
<1> QED  BY <1>2, <1>4, <1>5, <1>6 DEF IInv

\* A call that ends without a result.
LEMMA EndStep ==
  ASSUME IInv, TypeOK', files' = files, receipts' = receipts, NEW p \in Proc,
         NEW l \in {"down", "idle"}, NEW result \in Results, ~ result.ok, End(p, l, result)
  PROVE  IInv'
<1>1. /\ pc'[p] = l /\ out'[p] = result
      /\ op' = op /\ attempt' = attempt /\ calls' = calls /\ floor' = floor
      /\ calls[p] \in Nat
  BY DEF IInv, TypeOK, End
<1>2. \A q \in Proc \ {p} : Same(q)
  BY DEF IInv, TypeOK, End, Same
<1>3. DraftFollows(p)' /\ Answered(p)'
  BY <1>1 DEF DraftFollows, Answered
<1>4. SawThePast(p)'
  BY <1>1 DEF IInv, SawThePast, Written
<1>5. Unrecorded(p)'
  BY <1>1 DEF IInv, Unrecorded, Written, Busy
<1> QED  BY <1>1, <1>2, <1>3, <1>4, <1>5, ReceiptsStay, LocalStep

\* A call begins.
LEMMA StartStep ==
  ASSUME IInv, TypeOK', NEW p \in Proc, NEW method \in Ops, NEW d \in Details,
         Start(p, method, d), \A q \in Proc \ {p} : calls'[q] = calls[q],
         calls'[p] >= calls[p], method = "append" => calls'[p] > calls[p]
  PROVE  IInv'
<1>1. /\ files' = files /\ receipts' = receipts /\ Written' = Written
      /\ pc'[p] = "scan" /\ op'[p] = method /\ attempt'[p] = 0 /\ out'[p] = NoResult
      /\ floor'[p] = Cardinality(Written)
  BY DEF IInv, TypeOK, Start, disk, Written
<1>2. \A q \in Proc \ {p} : Same(q)
  BY DEF IInv, TypeOK, Start, Same
<1>3. DraftFollows(p)' /\ Answered(p)'
  BY <1>1 DEF DraftFollows, Answered, NoResult, Thrown
<1>4. SawThePast(p)'
  <2>1. Cardinality(Written) \in Nat
    BY FS_Subset, FS_CardinalityType DEF IInv, TypeOK, Written
  <2>2. Written = 1 .. Cardinality(Written) /\ Written \subseteq DOMAIN files
    BY DEF IInv, Chained, ChainTo, Written
  <2> HIDE DEF Written
  <2> QED  BY <1>1, <2>1, <2>2 DEF SawThePast
<1>5. Unrecorded(p)'
  <2>1. SUFFICES ASSUME method = "append", NEW k \in Written, files[k].id = <<p, calls'[p]>>
                 PROVE  FALSE
    BY <1>1 DEF Unrecorded
  <2>2. files[k].id[2] <= calls[files[k].id[1]]
    BY DEF IInv, IdsOfCalls
  <2>3. calls'[p] <= calls[p]
    BY <2>1, <2>2
  <2> QED  BY <2>1, <2>3 DEF IInv, TypeOK
<1> QED  BY <1>1, <1>2, <1>3, <1>4, <1>5, ReceiptsStay, LocalStep

LEMMA OpenDirStep ==
  ASSUME IInv, TypeOK', NEW p \in Proc, OpenDir(p)
  PROVE  IInv'
<1>1. /\ files' = files /\ receipts' = receipts /\ Written' = Written
      /\ pc[p] = "scan" /\ pc'[p] = "read" /\ opened'[p] = DOMAIN files
      /\ op' = op /\ attempt' = attempt /\ calls' = calls /\ floor' = floor /\ out' = out
      /\ calls[p] \in Nat
  BY DEF IInv, TypeOK, OpenDir, disk, Written
<1>2. \A q \in Proc \ {p} : Same(q)
  BY DEF IInv, TypeOK, OpenDir, Same
<1>3. DraftFollows(p)'
  BY <1>1 DEF DraftFollows
<1>4. SawThePast(p)'
  BY <1>1 DEF IInv, SawThePast
<1>5. Unrecorded(p)'
  BY <1>1 DEF IInv, Unrecorded, Busy
<1>6. Answered(p)'
  BY <1>1 DEF IInv, Answered, LinkOf
<1> QED  BY <1>1, <1>2, <1>3, <1>4, <1>5, <1>6, ReceiptsStay, LocalStep

LEMMA ReadVerifiedStep ==
  ASSUME IInv, TypeOK', NEW p \in Proc, ReadVerified(p)
  PROVE  IInv'
<1>1. PICK S \in Listings(p) : \E names \in SortedNames(S) :
        /\ Readable(Contents(names))
        /\ BuildNext(p, Contents(names)) \/ Answer(p, Contents(names))
  BY DEF ReadVerified
<1>2. PICK names \in SortedNames(S) :
        /\ Readable(Contents(names))
        /\ BuildNext(p, Contents(names)) \/ Answer(p, Contents(names))
  BY <1>1
<1> DEFINE events == Contents(names)
           m == Len(events)
<1>3. /\ m \in Nat /\ S = 1 .. m /\ S \subseteq Written
      /\ HeadHash(events) = LinkOf(m + 1) /\ HeadHash(events) \in Hashes
  BY <1>2, VerifiedListing, HeadHashType DEF Listings, IInv
<1>4. m \in Written \cup {0}
  BY <1>3
<1>5. 1 .. floor[p] + attempt[p] \subseteq 1 .. m
  BY <1>3 DEF IInv, SawThePast, ReadVerified, Listings
<1>6. floor[p] + attempt[p] <= m /\ floor[p] \in Nat /\ attempt[p] \in Nat /\ floor[p] <= m
  <2>1. floor[p] \in Nat /\ attempt[p] \in Nat
    BY BoundsAssumption DEF IInv, TypeOK
  <2> HIDE DEF m
  <2> QED  BY <1>3, <1>5, <2>1
<1>7. /\ files' = files /\ receipts' = receipts /\ Written' = Written
      /\ pc[p] = "read" /\ op' = op /\ attempt' = attempt /\ calls' = calls /\ floor' = floor
      /\ calls[p] \in Nat /\ pc'[p] \in {"create", "idle"}
  BY <1>2 DEF ReadVerified, disk, Written, BuildNext, Answer, End, IInv, TypeOK
<1>8. \A q \in Proc \ {p} : Same(q)
  BY <1>2 DEF IInv, TypeOK, Same, BuildNext, Answer, End
<1>9. SawThePast(p)'
  BY <1>7 DEF IInv, SawThePast
<1>10. CASE BuildNext(p, events)
  <2> DEFINE next == buildEvent(<<p, calls[p]>>, m + 1, HeadHash(events), details[p])
  <2>1. <<p, calls[p]>> \in EventIds /\ m + 1 \in Nat \ {0} /\ details[p] \in Details
    BY <1>3, <1>10, BoundsAssumption DEF BuildNext, IInv, TypeOK, EventIds
  <2>2. /\ next \in Events
        /\ next.id = <<p, calls[p]>> /\ next.sequence = m + 1
        /\ next.previousHash = HeadHash(events)
        /\ next.eventHash = hashEvent(next)
    <3> HIDE DEF events, m
    <3> QED  BY <1>3, <2>1, BuiltEvent
  <2>3. /\ draft'[p] = next /\ op[p] = "append" /\ pc'[p] = "create" /\ out'[p] = out[p]
        /\ opened'[p] = {}
    BY <1>10 DEF BuildNext, IInv, TypeOK
  <2> HIDE DEF next, m, events
  <2>4. DraftFollows(p)'
    <3>1. LinkOf(m + 1) = (IF m + 1 = 1 THEN GENESIS_HASH ELSE files'[m].eventHash)
      BY <1>3, <1>7 DEF LinkOf
    <3> QED  BY <1>3, <1>4, <1>6, <1>7, <2>2, <2>3, <3>1 DEF DraftFollows, LinkOf
  <2>5. Unrecorded(p)'
    BY <1>7, <2>3 DEF IInv, Unrecorded, Busy
  <2>6. Answered(p)'
    BY <1>7, <2>3 DEF IInv, Answered, LinkOf
  <2> QED  BY <1>7, <1>8, <1>9, <2>4, <2>5, <2>6, ReceiptsStay, LocalStep
<1>11. CASE Answer(p, events)
  <2>1. /\ op[p] # "append" /\ pc'[p] = "idle"
        /\ out'[p] = [op |-> op[p], ok |-> TRUE, sequence |-> m, hash |-> HeadHash(events)]
    BY <1>11 DEF Answer, End, IInv, TypeOK
  <2> HIDE DEF m, events
  <2>2. DraftFollows(p)' /\ Unrecorded(p)'
    BY <1>7, <2>1 DEF DraftFollows, Unrecorded
  <2>3. Answered(p)'
    BY <1>3, <1>4, <1>6, <1>7, <2>1 DEF Answered, LinkOf
  <2> QED  BY <1>7, <1>8, <1>9, <2>1, <2>2, <2>3, ReceiptsStay, LocalStep
<1> QED  BY <1>2, <1>10, <1>11

\* Losing the sequence number of the draft means that one more event, or one
\* more file, than the process knew of is in the directory.
LEMMA LostSequence ==
  ASSUME IInv, NEW p \in Proc, pc[p] = "create", draft[p].sequence \in DOMAIN files
  PROVE  1 .. floor[p] + (attempt[p] + 1) \subseteq DOMAIN files
<1>1. /\ draft[p].sequence \in Nat \ {0} /\ floor[p] \in Nat /\ attempt[p] \in Nat
      /\ draft[p].sequence - 1 \in Written \cup {0}
      /\ draft[p].sequence > floor[p] + attempt[p]
  BY BoundsAssumption DEF IInv, TypeOK, DraftFollows, Events
<1>2. PICK n \in Nat : Written = 1 .. n
  BY FS_Subset, FS_CardinalityType DEF IInv, TypeOK, Chained, ChainTo, Written
<1>3. 1 .. draft[p].sequence - 1 \subseteq Written
  BY <1>1, <1>2
<1>4. Written \subseteq DOMAIN files
  BY DEF Written
<1> QED  BY <1>1, <1>3, <1>4

LEMMA LoseSequenceStep ==
  ASSUME IInv, TypeOK', NEW p \in Proc, LoseSequence(p) \/ GiveUp(p)
  PROVE  IInv'
<1>1. /\ files' = files /\ receipts' = receipts /\ Written' = Written
      /\ pc[p] = "create" /\ pc'[p] \in {"scan", "idle"}
      /\ op' = op /\ calls' = calls /\ floor' = floor /\ attempt'[p] = attempt[p] + 1
      /\ calls[p] \in Nat /\ draft[p].sequence \in DOMAIN files
      /\ out'[p] = out[p] \/ ~ out'[p].ok
  BY DEF IInv, TypeOK, LoseSequence, GiveUp, disk, Written, Thrown
<1>2. \A q \in Proc \ {p} : Same(q)
  BY DEF IInv, TypeOK, LoseSequence, GiveUp, Same
<1>3. DraftFollows(p)'
  BY <1>1 DEF DraftFollows
<1>4. SawThePast(p)'
  BY <1>1, LostSequence DEF IInv, SawThePast
<1>5. Unrecorded(p)'
  BY <1>1 DEF IInv, Unrecorded, Busy
<1>6. Answered(p)'
  BY <1>1 DEF IInv, Answered, LinkOf
<1> QED  BY <1>1, <1>2, <1>3, <1>4, <1>5, <1>6, ReceiptsStay, LocalStep

\* The file a process creates or writes is the next one, so the chain ends before it.
LEMMA NextFile ==
  ASSUME IInv, NEW p \in Proc,
         \/ pc[p] = "create" /\ draft[p].sequence \notin DOMAIN files
         \/ pc[p] = "write"
  PROVE  \E n \in Nat : ChainTo(n) /\ draft[p].sequence = n + 1
<1>1. PICK n \in Nat : ChainTo(n)
  BY FS_Subset, FS_CardinalityType DEF IInv, TypeOK, Chained, Written
<1>2. draft[p].sequence \in Nat \ {0} /\ draft[p].sequence - 1 \in Written \cup {0}
  BY DEF IInv, TypeOK, DraftFollows, Events
<1>3. draft[p].sequence \notin Written
  BY DEF IInv, Writer, Written
<1> QED  BY <1>1, <1>2, <1>3 DEF ChainTo

LEMMA CreateFileStep ==
  ASSUME IInv, TypeOK', NEW p \in Proc, CreateFile(p)
  PROVE  IInv'
<1>1. PICK n \in Nat : ChainTo(n) /\ draft[p].sequence = n + 1
  BY NextFile DEF CreateFile
<1>2. /\ pc[p] = "create" /\ pc'[p] = "write"
      /\ n + 1 \notin DOMAIN files
      /\ DOMAIN files' = DOMAIN files \cup {n + 1}
      /\ files'[n + 1] = Torn
      /\ \A k \in DOMAIN files : files'[k] = files[k]
      /\ receipts' = receipts
      /\ op' = op /\ draft' = draft /\ out' = out /\ calls' = calls
      /\ attempt' = attempt /\ floor' = floor /\ opened' = opened /\ calls[p] \in Nat
  BY <1>1 DEF CreateFile, IInv, TypeOK
<1>3. Written' = Written
  BY <1>2 DEF Written
<1>4. Grows
  BY <1>2 DEF Grows, Written
<1>5. \A q \in Proc \ {p} : Same(q)
  BY DEF CreateFile, IInv, TypeOK, Same
<1>6. Chained'
  <2>1. ChainTo(Cardinality(Written)) /\ Cardinality(Written) = n
    BY <1>1, ChainCount
  <2>2. Written \subseteq DOMAIN files
    BY DEF Written
  <2>3. Cardinality(Written') = n
    BY <1>3, <2>1
  <2> HIDE DEF Written
  <2>4. ChainTo(n)'
    BY <1>1, <1>2, <1>3, <2>2 DEF ChainTo, LinkOf
  <2> QED  BY <2>3, <2>4 DEF Chained
<1>7. ReceiptsVerify' /\ IdsOfCalls'
  <2>1. \A k \in Written : files'[k] = files[k]
    BY <1>4 DEF Grows
  <2> QED  BY <1>2, <1>3, <2>1 DEF IInv, ReceiptsVerify, IdsOfCalls, RecordedOnce
<1>8. ASSUME NEW q \in Proc
      PROVE  DraftFollows(q)' /\ Filled(q)' /\ SawThePast(q)' /\ Answered(q)' /\ Unrecorded(q)'
  <2>1. \A k \in Written : files'[k] = files[k]
    BY <1>4 DEF Grows
  <2>2. Unrecorded(q)'
    BY <1>2, <1>3, <1>5, <2>1 DEF IInv, Unrecorded, Same, Busy
  <2>3. CASE q # p
    BY <1>4, <1>5, <2>2, <2>3, OthersGrow
  <2>4. CASE q = p
    <3>1. DraftFollows(p) /\ draft[p] \in Events
      BY <1>2 DEF IInv, TypeOK
    <3>2. LinkOf(n + 1)' = LinkOf(n + 1)
      <4>1. n \in Written \cup {0}
        BY <1>1, <1>2, <3>1 DEF DraftFollows
      <4> QED  BY <4>1, <2>1 DEF LinkOf
    <3>3. DraftFollows(p)'
      BY <1>1, <1>2, <1>3, <3>1, <3>2 DEF DraftFollows, LinkOf
    <3>4. SawThePast(p)'
      BY <1>2, <1>3 DEF IInv, SawThePast
    <3>5. Answered(p)' /\ Filled(p)'
      BY <1>2, <1>4, AnsweredStays DEF Filled
    <3> QED  BY <2>2, <2>4, <3>3, <3>4, <3>5
  <2> QED  BY <2>3, <2>4
<1>9. ASSUME NEW q \in Proc PROVE Writer(q)'
  <2>1. DOMAIN files \ Written = {}
    BY <1>1, <1>2 DEF ChainTo
  <2>2. \A r \in Proc : pc[r] # "write"
    BY <2>1 DEF IInv, Writer
  <2>3. \A r \in Proc : pc'[r] = "write" => r = p
    BY <1>5, <2>2 DEF Same
  <2>4. draft'[p].sequence \in DOMAIN files' \ Written'
    <3>1. n + 1 \notin Written
      BY <1>2 DEF Written
    <3> QED  BY <1>1, <1>2, <1>3, <3>1
  <2> QED  BY <2>3, <2>4 DEF Writer
<1> QED  BY <1>6, <1>7, <1>8, <1>9 DEF IInv

LEMMA WriteEventStep ==
  ASSUME IInv, TypeOK', NEW p \in Proc, WriteEvent(p)
  PROVE  IInv'
<1>1. PICK n \in Nat : ChainTo(n) /\ draft[p].sequence = n + 1
  BY NextFile DEF WriteEvent
<1> DEFINE e == draft[p]
<1>2. /\ e \in Events /\ e # Torn /\ e.id = <<p, calls[p]>> /\ e.sequence = n + 1
      /\ op[p] = "append" /\ e.previousHash = LinkOf(n + 1) /\ e.eventHash = hashEvent(e)
      /\ n + 1 > floor[p] + attempt[p]
      /\ n + 1 \in DOMAIN files \ Written
  BY <1>1, TornAssumption DEF WriteEvent, IInv, TypeOK, DraftFollows, Writer
<1>3. /\ pc[p] = "write" /\ pc'[p] = "close"
      /\ DOMAIN files' = DOMAIN files
      /\ files'[n + 1] = e
      /\ \A k \in DOMAIN files \ {n + 1} : files'[k] = files[k]
      /\ receipts' = receipts /\ draft' = draft /\ opened' = opened
      /\ op' = op /\ calls' = calls /\ attempt' = attempt /\ floor' = floor /\ out' = out
      /\ calls[p] \in Nat
  BY <1>1, <1>2 DEF WriteEvent, IInv, TypeOK
<1> HIDE DEF e
<1>4. Written' = Written \cup {n + 1}
  BY <1>2, <1>3 DEF Written
<1>5. Grows
  BY <1>2, <1>3 DEF Grows, Written
<1>6. \A k \in Written : files'[k] = files[k]
  BY <1>5 DEF Grows
<1>7. \A q \in Proc \ {p} : Same(q)
  BY DEF WriteEvent, IInv, TypeOK, Same
<1>8. Chained'
  <2>1. Written' = 1 .. n + 1
    BY <1>1, <1>4 DEF ChainTo
  <2>2. Cardinality(Written') = n + 1
    BY <2>1, FS_Interval
  <2>3. hashEvent(files'[n + 1]) = files'[n + 1].eventHash
    BY <1>2, <1>3
  <2>4. ASSUME NEW k \in 1 .. n + 1
        PROVE  /\ files'[k].sequence = k
               /\ files'[k].previousHash = IF k = 1 THEN GENESIS_HASH ELSE files'[k - 1].eventHash
               /\ files'[k].eventHash = hashEvent(files'[k])
    <3>1. k # 1 => files'[k - 1] = files[k - 1]
      BY <1>1, <1>6 DEF ChainTo
    <3>2. CASE k = n + 1
      BY <1>2, <1>3, <3>1, <3>2 DEF LinkOf
    <3>3. CASE k # n + 1
      BY <1>1, <1>6, <3>1, <3>3 DEF ChainTo, LinkOf
    <3> QED  BY <3>2, <3>3
  <2>5. DOMAIN files' \subseteq 1 .. n + 1 + 1
    BY <1>1, <1>3 DEF ChainTo
  <2> HIDE DEF Written
  <2>6. ChainTo(n + 1)'
    BY <2>1, <2>4, <2>5 DEF ChainTo, LinkOf
  <2> QED  BY <2>2, <2>6 DEF Chained
<1>9. ReceiptsVerify'
  BY <1>3, <1>4, <1>6 DEF IInv, ReceiptsVerify
<1>10. IdsOfCalls'
  <2>1. \A k \in Written : files[k].id # e.id
    BY <1>2, <1>3 DEF IInv, Unrecorded, Busy
  <2>2. e.id[2] <= calls[e.id[1]]
    BY <1>2, <1>3
  <2> QED  BY <1>3, <1>4, <1>6, <2>1, <2>2 DEF IInv, IdsOfCalls, RecordedOnce
<1>11. ASSUME NEW q \in Proc \ {p}
       PROVE  DraftFollows(q)' /\ Filled(q)' /\ SawThePast(q)' /\ Answered(q)' /\ Unrecorded(q)'
  <2>1. Same(q)
    BY <1>7
  <2>2. Unrecorded(q)'
    <3>1. files'[n + 1].id # <<q, calls[q]>>
      BY <1>2, <1>3
    <3> QED  BY <1>4, <1>6, <2>1, <3>1 DEF IInv, Unrecorded, Same
  <2> QED  BY <1>5, <2>1, <2>2, OthersGrow
<1>12. Unrecorded(p)' /\ Filled(p)'
  BY <1>1, <1>2, <1>3, <1>4 DEF Unrecorded, Filled, e
<1>13. SawThePast(p)' /\ Answered(p)'
  BY <1>3, <1>4, <1>5, AnsweredStays DEF IInv, SawThePast
<1>14. DraftFollows(p)'
  <2>1. DraftFollows(p) /\ n \in Written \cup {0} /\ n + 1 - 1 = n
    BY <1>1, <1>3 DEF IInv, ChainTo
  <2>2. LinkOf(n + 1)' = LinkOf(n + 1)
    BY <1>5, <2>1, LinkStays
  <2> QED  BY <1>1, <1>2, <1>3, <1>4, <2>1, <2>2 DEF DraftFollows, LinkOf
<1>15. ASSUME NEW q \in Proc PROVE Writer(q)'
  BY <1>3, <1>7 DEF IInv, Writer, Same
<1> QED  BY <1>8, <1>9, <1>10, <1>11, <1>12, <1>13, <1>14, <1>15 DEF IInv

\* The chain ends with the event that append returns.
LEMMA CloseFileStep ==
  ASSUME IInv, TypeOK', NEW p \in Proc, CloseFile(p)
  PROVE  IInv'
<1> DEFINE e == draft[p]
<1>0. PICK n \in Nat : n = e.sequence
  BY DEF CloseFile, IInv, TypeOK, Events
<1>1. /\ e \in Events /\ n \in Nat \ {0} /\ n \in Written /\ files[n] = e
      /\ op[p] = "append" /\ e.eventHash = hashEvent(e) /\ n > floor[p] + attempt[p]
  BY <1>0 DEF CloseFile, IInv, TypeOK, DraftFollows, Filled, Events
<1>2. /\ pc'[p] = "idle" /\ files' = files /\ Written' = Written
      /\ receipts' = receipts \cup {receiptFor(e)}
      /\ op' = op /\ calls' = calls /\ attempt' = attempt /\ floor' = floor
      /\ out'[p] = [op |-> "append", ok |-> TRUE, sequence |-> n, hash |-> e.eventHash]
      /\ calls[p] \in Nat
  BY <1>0 DEF CloseFile, End, IInv, TypeOK, Written
<1>3. \A q \in Proc \ {p} : Same(q)
  BY DEF CloseFile, End, IInv, TypeOK, Same
<1> HIDE DEF e
<1>4. ReceiptsVerify'
  <2>1. verifyReceipt(e, receiptFor(e)) /\ receiptFor(e).sequence = n
    BY <1>0, <1>1 DEF verifyReceipt, receiptFor
  <2> QED  BY <1>1, <1>2, <2>1 DEF IInv, ReceiptsVerify
<1>5. DraftFollows(p)' /\ Unrecorded(p)'
  BY <1>2 DEF DraftFollows, Unrecorded, Busy
<1>6. SawThePast(p)'
  BY <1>2 DEF IInv, SawThePast
<1>7. Answered(p)'
  <2>1. floor[p] \in Nat /\ attempt[p] \in Nat
    BY BoundsAssumption DEF IInv, TypeOK
  <2>2. LinkOf(n + 1)' = e.eventHash
    BY <1>1, <1>2 DEF LinkOf
  <2>3. n >= floor[p] + 1
    BY <1>1, <2>1
  <2> QED  BY <1>1, <1>2, <2>2, <2>3 DEF Answered
<1> QED  BY <1>2, <1>3, <1>4, <1>5, <1>6, <1>7, LocalStep

LEMMA InvariantInit == Init => IInv
<1> SUFFICES ASSUME Init PROVE IInv
  OBVIOUS
<1>1. TypeOK
  BY TypeInit
<1>2. DOMAIN files = {} /\ Written = {}
  BY DEF Init, Written
<1>3. Chained
  <2>1. Cardinality(Written) = 0
    BY <1>2, FS_EmptySet
  <2> QED  BY <1>2, <2>1 DEF Chained, ChainTo
<1>4. IdsOfCalls /\ ReceiptsVerify
  BY <1>2 DEF Init, IdsOfCalls, RecordedOnce, ReceiptsVerify
<1>5. \A p \in Proc :
        /\ DraftFollows(p) /\ Writer(p) /\ Filled(p)
        /\ Unrecorded(p) /\ SawThePast(p) /\ Answered(p)
  BY <1>2 DEF Init, DraftFollows, Writer, Filled, Unrecorded, SawThePast, Answered, NoResult, Thrown
<1> QED  BY <1>1, <1>3, <1>4, <1>5 DEF IInv

LEMMA InvariantStep == IInv /\ [Next]_vars => IInv'
<1> SUFFICES ASSUME IInv, [Next]_vars PROVE IInv'
  OBVIOUS
<1>0. TypeOK /\ TypeOK'
  BY TypeStep DEF IInv
<1>1. ASSUME NEW p \in Proc, NEW method \in Reads \cup {"append"}, NEW d \in Details,
             Begin(p, method, d)
      PROVE  IInv'
  <2>1. /\ \A q \in Proc \ {p} : calls'[q] = calls[q]
        /\ calls'[p] > calls[p] /\ calls'[p] >= calls[p]
    BY <1>0, <1>1 DEF Begin, TypeOK
  <2> QED  BY <1>0, <1>1, <2>1, StartStep DEF Begin, Ops
<1>2. ASSUME NEW p \in Proc, OpenDir(p) PROVE IInv'
  BY <1>0, <1>2, OpenDirStep
<1>3. ASSUME NEW p \in Proc, ReadVerified(p) PROVE IInv'
  BY <1>0, <1>3, ReadVerifiedStep
<1>4. ASSUME NEW p \in Proc, NEW l \in {"down", "idle"}, NEW result \in Results,
             ~ result.ok, End(p, l, result),
             files' = files, receipts' = receipts
      PROVE  IInv'
  BY <1>0, <1>4, EndStep
<1>5. ASSUME NEW p \in Proc, Throw(p), files' = files, receipts' = receipts
      PROVE  IInv'
  <2>1. Thrown(op[p]) \in Results /\ ~ Thrown(op[p]).ok
    BY <1>0, ThrownType DEF TypeOK, Thrown
  <2> QED  BY <1>4, <1>5, <2>1 DEF Throw
<1>6. ASSUME NEW p \in Proc, ReadFails(p) PROVE IInv'
  BY <1>5, <1>6 DEF ReadFails, disk
<1>7. ASSUME NEW p \in Proc, CreateFile(p) PROVE IInv'
  BY <1>0, <1>7, CreateFileStep
<1>8. ASSUME NEW p \in Proc, LoseSequence(p) \/ GiveUp(p) PROVE IInv'
  BY <1>0, <1>8, LoseSequenceStep
<1>9. ASSUME NEW p \in Proc, WriteEvent(p) PROVE IInv'
  BY <1>0, <1>9, WriteEventStep
<1>14. ASSUME NEW p \in Proc, CloseFile(p) PROVE IInv'
  BY <1>0, <1>14, CloseFileStep
<1>10. ASSUME NEW p \in Proc, StorageFails(p) PROVE IInv'
  BY <1>5, <1>10 DEF StorageFails
<1>11. ASSUME NEW p \in Proc, Crash(p) PROVE IInv'
  <2>1. NoResult \in Results /\ ~ NoResult.ok
    BY ThrownType DEF NoResult, Thrown
  <2> QED  BY <1>4, <1>11, <2>1 DEF Crash
<1>12. ASSUME NEW p \in Proc, Restart(p) PROVE IInv'
  <2>1. /\ Start(p, "open", details[p]) /\ "open" \in Ops /\ details[p] \in Details
        /\ \A q \in Proc : calls'[q] = calls[q] /\ calls'[q] >= calls[q]
    BY <1>0, <1>12 DEF Restart, Ops, TypeOK
  <2> QED  BY <1>0, <2>1, StartStep
<1>13. CASE UNCHANGED vars
  BY <1>13 DEF vars, disk, local, IInv, TypeOK, Chained, ChainTo, LinkOf, Written, IdsOfCalls,
               RecordedOnce, ReceiptsVerify, DraftFollows, Writer, Filled, Unrecorded,
               SawThePast, Answered
<1> QED
  BY <1>1, <1>2, <1>3, <1>6, <1>7, <1>8, <1>9, <1>10, <1>11, <1>12, <1>13, <1>14
     DEF Next, Call, Progress, Environment

LEMMA Invariant == Spec => []IInv
BY InvariantInit, InvariantStep, PTL DEF Spec

-----------------------------------------------------------------------------
(* What the invariant implies. *)

\* The recorded events form a sequence as long as the chain.
LEMMA RecordedLog ==
  ASSUME IInv
  PROVE  LET n == Cardinality(Written)
         IN  /\ n \in Nat
             /\ ChainTo(n)
             /\ Recorded \in Seq(Events)
             /\ Len(Recorded) = n
             /\ \A k \in 1 .. n : Recorded[k] = files[k]
<1> DEFINE n == Cardinality(Written)
<1>1. n \in Nat /\ ChainTo(n)
  BY FS_Subset, FS_CardinalityType DEF IInv, TypeOK, Chained, Written
<1>2. Recorded \in [1 .. n -> Events]
  <2>1. \A k \in Written : files[k] \in Events
    BY DEF IInv, TypeOK, Written
  <2> QED  BY <1>1, <2>1 DEF Recorded, ChainTo
<1>3. Recorded \in Seq(Events)
  BY <1>1, <1>2, SeqDef
<1>4. Len(Recorded) = n
  BY <1>1, <1>2, <1>3, LenProperties
<1> QED  BY <1>1, <1>3, <1>4 DEF Recorded

LEMMA ChainIntactFollows == IInv => ChainIntact
<1> SUFFICES ASSUME IInv PROVE ChainIntact
  OBVIOUS
<1> DEFINE n == Cardinality(Written)
<1>1. /\ n \in Nat /\ ChainTo(n) /\ Len(Recorded) = n
      /\ \A k \in 1 .. n : Recorded[k] = files[k]
  BY RecordedLog
<1> HIDE DEF n
<1>2. verifyAuditChain(Recorded)
  BY <1>1 DEF verifyAuditChain, ChainTo, LinkOf
<1>3. Written = 1 .. n /\ DOMAIN files \ Written \subseteq {n + 1}
  BY <1>1 DEF ChainTo
<1> QED  BY <1>2, <1>3 DEF ChainIntact, n

LEMMA PrefixFollows == IInv => AnswersAreThePrefix
<1> SUFFICES ASSUME IInv, NEW p \in Proc, out[p].ok
             PROVE  out[p].hash = HeadHash(SubSeq(Recorded, 1, out[p].sequence))
  BY DEF AnswersAreThePrefix
<1> DEFINE n == Cardinality(Written)
           m == out[p].sequence
           prefix == SubSeq(Recorded, 1, m)
<1>1. /\ n \in Nat /\ ChainTo(n) /\ Recorded \in Seq(Events) /\ Len(Recorded) = n
      /\ \A k \in 1 .. n : Recorded[k] = files[k]
  BY RecordedLog
<1>2. m \in 0 .. n /\ out[p].hash = LinkOf(m + 1)
  BY <1>1 DEF IInv, Answered, ChainTo
<1> HIDE DEF n, m
<1>3. prefix \in Seq(Events) /\ Len(prefix) = m /\ \A i \in 1 .. m : prefix[i] = Recorded[i]
  BY <1>1, <1>2, SubSeqProperties
<1> HIDE DEF prefix
<1>4. CASE m = 0
  BY <1>2, <1>3, <1>4, EmptySeq DEF HeadHash, LinkOf, prefix, m
<1>5. CASE m > 0
  <2>1. prefix # << >>
    BY <1>2, <1>3, <1>5, EmptySeq
  <2>2. HeadHash(prefix) = files[m].eventHash
    BY <1>1, <1>2, <1>3, <1>5, <2>1 DEF HeadHash
  <2>3. LinkOf(m + 1) = files[m].eventHash
    BY <1>2, <1>5 DEF LinkOf
  <2> QED  BY <1>2, <2>2, <2>3 DEF prefix, m
<1> QED  BY <1>2, <1>4, <1>5

LEMMA PastFollows == IInv => CallsSeeThePast
BY DEF IInv, Answered, CallsSeeThePast

LEMMA LostAttemptsFollow == IInv => LostAttemptsAreOthersEvents
<1> SUFFICES ASSUME IInv, NEW p \in Proc
             PROVE  Cardinality(DOMAIN files) >= floor[p] + attempt[p]
  BY DEF LostAttemptsAreOthersEvents
<1>1. floor[p] + attempt[p] \in Nat
  BY BoundsAssumption DEF IInv, TypeOK
<1>2. 1 .. floor[p] + attempt[p] \subseteq DOMAIN files /\ IsFiniteSet(DOMAIN files)
  BY DEF IInv, TypeOK, SawThePast
<1>3. Cardinality(1 .. floor[p] + attempt[p]) = floor[p] + attempt[p]
  BY <1>1, FS_Interval
<1>4. Cardinality(1 .. floor[p] + attempt[p]) <= Cardinality(DOMAIN files)
  BY <1>2, FS_Subset
<1> QED  BY <1>1, <1>2, <1>3, <1>4, FS_CardinalityType

\* However many processes write, crash and restart, the directory holds one
\* unbroken chain with at most one torn file after it.
THEOREM ChainIntactAlways == Spec => []ChainIntact
BY Invariant, ChainIntactFollows, PTL

\* Every receipt append has returned verifies for ever.
THEOREM ReceiptsAlwaysVerify == Spec => []ReceiptsVerify
<1>1. IInv => ReceiptsVerify
  BY DEF IInv
<1> QED  BY <1>1, Invariant, PTL

\* No call records its event twice.
THEOREM RecordedOnceAlways == Spec => []RecordedOnce
<1>1. IInv => RecordedOnce
  BY DEF IInv, IdsOfCalls
<1> QED  BY <1>1, Invariant, PTL

\* No call answers from, or numbers an event after, less than the past.
THEOREM CallsAlwaysSeeThePast == Spec => []CallsSeeThePast
BY Invariant, PastFollows, PTL

\* Every answer is a prefix of the ledger and stays one.
THEOREM AnswersAlwaysAreThePrefix == Spec => []AnswersAreThePrefix
BY Invariant, PrefixFollows, PTL

\* A lost attempt is another writer's event.
THEOREM LostAttemptsAlwaysAreOthersEvents == Spec => []LostAttemptsAreOthersEvents
BY Invariant, LostAttemptsFollow, PTL

-----------------------------------------------------------------------------
(* Steps. *)

\* Besides CreateFile, which adds a torn file, and WriteEvent, which completes
\* one, no step touches the directory.
LEMMA OtherStepsKeepFiles ==
  ASSUME [Next]_vars, \A p \in Proc : ~ CreateFile(p) /\ ~ WriteEvent(p)
  PROVE  files' = files
BY DEF Next, Call, Progress, Environment, Begin, Start, OpenDir, ReadVerified, ReadFails,
       CloseFile, LoseSequence, GiveUp, StorageFails, Crash, Restart, disk, vars

LEMMA StepsGrow ==
  ASSUME IInv, [Next]_vars
  PROVE  Grows
<1>1. ASSUME NEW p \in Proc, CreateFile(p) PROVE Grows
  BY <1>1 DEF CreateFile, Grows, Written
<1>2. ASSUME NEW p \in Proc, WriteEvent(p) PROVE Grows
  BY <1>2 DEF WriteEvent, Grows, Written, IInv, TypeOK, Writer
<1> QED  BY <1>1, <1>2, OtherStepsKeepFiles DEF Grows

\* No step removes a file or changes a recorded event.
THEOREM AppendOnlyAlways == Spec => AppendOnly
<1>1. IInv /\ [Next]_vars =>
        [\A k \in DOMAIN files :
           /\ k \in DOMAIN files'
           /\ files[k] # Torn => files'[k] = files[k]]_vars
  BY StepsGrow DEF Grows, Written
<1> QED  BY <1>1, Invariant, PTL DEF Spec, AppendOnly

\* The events a step leaves recorded determine the log it leaves.
LEMMA SameLog ==
  ASSUME Written' = Written, \A k \in Written : files'[k] = files[k],
         Written = 1 .. Cardinality(Written)
  PROVE  Recorded' = Recorded
BY DEF Recorded

\* Completing the next file appends its event to the log.
LEMMA WriteAppends ==
  ASSUME IInv, IInv', NEW p \in Proc, WriteEvent(p)
  PROVE  Log!append(draft[p].id, draft[p].details)
<1>1. PICK n \in Nat : ChainTo(n) /\ draft[p].sequence = n + 1
  BY NextFile DEF WriteEvent
<1> DEFINE e == draft[p]
<1>2. /\ e \in Events /\ e # Torn /\ e.sequence = n + 1
      /\ e.previousHash = LinkOf(n + 1) /\ e.eventHash = hashEvent(e)
      /\ \A k \in Written : files[k].id # e.id
  BY <1>1, TornAssumption DEF WriteEvent, IInv, TypeOK, DraftFollows, Unrecorded, Busy
<1>3. /\ DOMAIN files' = DOMAIN files
      /\ n + 1 \in DOMAIN files \ Written
      /\ files'[n + 1] = e
      /\ \A k \in Written : files'[k] = files[k]
  BY <1>1 DEF WriteEvent, IInv, TypeOK, Writer, Written
<1>4. Cardinality(Written) = n
  BY <1>1, ChainCount
<1>5. Written' = 1 .. n + 1 /\ Cardinality(Written') = n + 1
  <2>1. Written' = Written \cup {n + 1}
    BY <1>1, <1>2, <1>3 DEF WriteEvent, Written
  <2>2. Written' = 1 .. n + 1
    BY <1>1, <2>1 DEF ChainTo
  <2> QED  BY <2>2, FS_Interval
<1> HIDE DEF e
<1>6. Recorded \in Seq(Events) /\ Len(Recorded) = n /\ \A k \in 1 .. n : Recorded[k] = files[k]
  BY <1>4, RecordedLog
<1>7. Recorded' = [k \in 1 .. n + 1 |-> files'[k]]
  BY <1>5 DEF Recorded
<1>8. e = buildEvent(e.id, Len(Recorded) + 1, HeadHash(Recorded), e.details)
  <2>1. HeadHash(Recorded) = LinkOf(n + 1)
    <3>1. CASE n = 0
      BY <1>6, <3>1, EmptySeq DEF HeadHash, LinkOf
    <3>2. CASE n > 0
      BY <1>6, <3>2, EmptySeq DEF HeadHash, LinkOf
    <3> QED  BY <3>1, <3>2
  <2> QED  BY <1>2, <1>6, <2>1 DEF buildEvent, hashEvent, Hashed, Events
<1>9. Recorded' = Append(Recorded, e)
  <2> DEFINE log == Append(Recorded, e)
  <2>1. /\ log \in Seq(Events) /\ Len(log) = n + 1 /\ log[n + 1] = e
        /\ \A k \in 1 .. n : log[k] = Recorded[k]
    BY <1>2, <1>6, AppendProperties
  <2> HIDE DEF log
  <2>2. log = [k \in 1 .. n + 1 |-> log[k]]
    BY <2>1, LenProperties
  <2>3. \A k \in 1 .. n + 1 : log[k] = files'[k]
    BY <1>1, <1>3, <1>6, <2>1 DEF ChainTo
  <2> QED  BY <1>7, <2>2, <2>3 DEF log
<1>10. Log!FreshId(e.id)
  BY <1>1, <1>2, <1>6 DEF Log!FreshId, ChainTo
<1>11. /\ Log!HeadHash(Recorded) = HeadHash(Recorded)
       /\ Log!buildEvent(e.id, Len(Recorded) + 1, HeadHash(Recorded), e.details) = e
  BY <1>8 DEF Log!HeadHash, HeadHash, Log!GENESIS_HASH, GENESIS_HASH, Log!buildEvent, buildEvent
<1> QED  BY <1>9, <1>10, <1>11 DEF Log!append, e

LEMMA LogStep == IInv /\ IInv' /\ [Next]_vars => [Log!Next]_Recorded
<1> SUFFICES ASSUME IInv, IInv', [Next]_vars PROVE [Log!Next]_Recorded
  OBVIOUS
<1>1. ASSUME NEW p \in Proc, WriteEvent(p) PROVE Log!Next
  <2>1. draft[p].id \in EventIds /\ draft[p].details \in Details
    BY <1>1 DEF IInv, TypeOK, WriteEvent, Events
  <2> QED  BY <1>1, <2>1, WriteAppends DEF Log!Next
<1>2. Written = 1 .. Cardinality(Written)
  BY DEF IInv, Chained, ChainTo
<1>3. ASSUME NEW p \in Proc, CreateFile(p) PROVE Recorded' = Recorded
  <2>1. Written' = Written /\ \A k \in Written : files'[k] = files[k]
    BY <1>3 DEF CreateFile, Written
  <2> QED  BY <1>2, <2>1, SameLog
<1>4. ASSUME files' = files PROVE Recorded' = Recorded
  BY <1>4 DEF Recorded, Written
<1> QED  BY <1>1, <1>3, <1>4, OtherStepsKeepFiles

LEMMA LogInit == Init => Log!Init
<1> SUFFICES ASSUME Init PROVE Recorded = << >>
  BY DEF Log!Init
<1>1. Cardinality(Written) = 0
  BY FS_EmptySet DEF Init, Written
<1> QED  BY <1>1, InvariantInit, RecordedLog, EmptySeq

\* The shared directory, with its races, crashes and failed writes, implements
\* the atomic append-only log of one process.
THEOREM DirectoryImplementsLog == Spec => ImplementsAuditLog
BY Invariant, LogInit, LogStep, PTL DEF Spec, ImplementsAuditLog, Log!Spec

\* After an abandoned file nothing is recorded, and no call that saw it succeeds.
THEOREM AbandonedFileEndsTheLedgerAlways == Spec => AbandonedFileEndsTheLedger
<1> DEFINE Ended(k) == files' = files /\ \A p \in Proc : out'[p].ok => out[p].ok \/ k \notin opened[p]
<1>1. ASSUME IInv, [Next]_vars, NEW k \in DOMAIN files, Abandoned(k) PROVE Ended(k)
  <2>1. PICK n \in Nat : ChainTo(n)
    BY <1>1, FS_Subset, FS_CardinalityType DEF IInv, TypeOK, Chained, Written
  <2>2. k = n + 1 /\ k \notin Written
    BY <1>1, <2>1 DEF ChainTo, Abandoned, Written
  <2>3. \A p \in Proc : ~ CreateFile(p) /\ ~ WriteEvent(p)
    <3>1. ASSUME NEW p \in Proc, CreateFile(p) PROVE FALSE
      <4>1. PICK m \in Nat : ChainTo(m) /\ draft[p].sequence = m + 1
        BY <1>1, <3>1, NextFile DEF CreateFile
      <4>2. m = n
        BY <2>1, <4>1, ChainCount
      <4> QED  BY <2>2, <3>1, <4>1, <4>2 DEF CreateFile
    <3>2. ASSUME NEW p \in Proc, WriteEvent(p) PROVE FALSE
      <4>1. PICK m \in Nat : ChainTo(m) /\ draft[p].sequence = m + 1
        BY <1>1, <3>2, NextFile DEF WriteEvent
      <4>2. m = n
        BY <2>1, <4>1, ChainCount
      <4> QED  BY <1>1, <2>2, <3>2, <4>1, <4>2 DEF WriteEvent, Abandoned
    <3> QED  BY <3>1, <3>2
  <2>4. files' = files
    BY <1>1, <2>3, OtherStepsKeepFiles
  <2>5. ASSUME NEW p \in Proc, out'[p].ok PROVE out[p].ok \/ k \notin opened[p]
    <3>1. ASSUME NEW q \in Proc, ReadVerified(q) PROVE out[p].ok \/ k \notin opened[p]
      <4>1. PICK S \in Listings(q) : \E names \in SortedNames(S) :
              /\ Readable(Contents(names))
              /\ BuildNext(q, Contents(names)) \/ Answer(q, Contents(names))
        BY <3>1 DEF ReadVerified
      <4>2. S \subseteq Written
        BY <1>1, <4>1, VerifiedListing DEF Listings, IInv
      <4>3. k \notin opened[q]
        BY <2>2, <4>2 DEF Listings
      <4>4. p # q => out'[p] = out[p]
        BY <1>1, <4>1 DEF BuildNext, Answer, End, IInv, TypeOK
      <4> QED  BY <2>5, <4>3, <4>4
    <3>3. ASSUME NEW q \in Proc, CloseFile(q) PROVE out[p].ok \/ k \notin opened[p]
      <4>1. opened[q] = {} /\ (p # q => out'[p] = out[p])
        BY <1>1, <3>3 DEF CloseFile, End, IInv, TypeOK, DraftFollows
      <4> QED  BY <2>5, <4>1
    <3>2. ASSUME \A q \in Proc : ~ ReadVerified(q) /\ ~ CloseFile(q) PROVE out[p].ok
      BY <1>1, <2>3, <2>5, <3>2
         DEF Next, Call, Progress, Environment, Begin, Start, OpenDir, ReadFails, Throw, End,
             LoseSequence, GiveUp, StorageFails, Crash, Restart, vars, local, IInv, TypeOK,
             NoResult, Thrown
    <3> QED  BY <3>1, <3>2, <3>3
  <2> QED  BY <2>4, <2>5
<1>2. IInv /\ [Next]_vars =>
        [\A k \in DOMAIN files :
           Abandoned(k) =>
             /\ files' = files
             /\ \A p \in Proc : out'[p].ok => out[p].ok \/ k \notin opened[p]]_vars
  BY <1>1
<1> QED  BY <1>2, Invariant, PTL DEF Spec, AbandonedFileEndsTheLedger

-----------------------------------------------------------------------------
(* Calls end. *)

LEMMA AttemptsInit == Init => AttemptsLeft
BY DEF Init, AttemptsLeft, Busy

LEMMA AttemptsStep == TypeOK /\ AttemptsLeft /\ [Next]_vars => AttemptsLeft'
<1> SUFFICES ASSUME TypeOK, AttemptsLeft, [Next]_vars, NEW q \in Proc, pc'[q] \in Busy
             PROVE  attempt'[q] < MaxAttempts
  BY DEF AttemptsLeft, Busy
<1> USE DEF disk, local
<1>0. MaxAttempts \in Nat \ {0} /\ attempt[q] \in 0 .. MaxAttempts /\ (pc[q] \in Busy => attempt[q] < MaxAttempts)
  BY BoundsAssumption DEF TypeOK, AttemptsLeft
<1>1. CASE UNCHANGED vars
  BY <1>0, <1>1 DEF vars
<1>2. ASSUME NEW p \in Proc, NEW m, NEW d, Start(p, m, d) PROVE attempt'[q] < MaxAttempts
  BY <1>0, <1>2 DEF Start, TypeOK
<1>3. ASSUME NEW p \in Proc, NEW l \in {"idle", "down"}, NEW r, End(p, l, r) PROVE attempt'[q] < MaxAttempts
  BY <1>0, <1>3 DEF End, TypeOK, Busy
<1>4. ASSUME NEW p \in Proc, Call(p) PROVE attempt'[q] < MaxAttempts
  BY <1>2, <1>4 DEF Call, Begin
<1>5. ASSUME NEW p \in Proc, Environment(p) PROVE attempt'[q] < MaxAttempts
  BY <1>2, <1>3, <1>5 DEF Environment, StorageFails, Crash, Restart, Throw
<1>6. ASSUME NEW p \in Proc, Progress(p) PROVE attempt'[q] < MaxAttempts
  <2>1. CASE ReadVerified(p)
    <3>1. PICK events : BuildNext(p, events) \/ Answer(p, events)
      BY <2>1 DEF ReadVerified
    <3> QED  BY <1>0, <1>3, <2>1, <3>1 DEF BuildNext, Answer, ReadVerified, TypeOK, Busy
  <2>2. CASE ReadFails(p)
    BY <1>3, <2>2 DEF ReadFails, Throw
  <2>3. CASE CloseFile(p)
    BY <1>3, <2>3 DEF CloseFile
  <2>4. CASE OpenDir(p) \/ CreateFile(p) \/ WriteEvent(p)
    BY <1>0, <2>4 DEF OpenDir, CreateFile, WriteEvent, TypeOK, Busy
  <2>5. CASE LoseSequence(p)
    BY <1>0, <2>5 DEF LoseSequence, TypeOK
  <2>6. CASE GiveUp(p)
    BY <1>0, <2>6 DEF GiveUp, TypeOK, Busy
  <2> QED  BY <1>6, <2>1, <2>2, <2>3, <2>4, <2>5, <2>6 DEF Progress
<1> QED  BY <1>1, <1>4, <1>5, <1>6 DEF Next

\* What is left of a call, at each of its system calls.
LEMMA StepsLeftIs ==
  ASSUME TypeOK, AttemptsLeft, NEW p \in Proc
  PROVE  /\ MaxAttempts \in Nat \ {0} /\ attempt[p] \in Nat
         /\ pc[p] = "scan" => StepsLeft(p) = 5 * (MaxAttempts - attempt[p])
         /\ pc[p] = "read" => StepsLeft(p) = 5 * (MaxAttempts - attempt[p]) - 1
         /\ pc[p] = "create" => StepsLeft(p) = 5 * (MaxAttempts - attempt[p]) - 2
         /\ pc[p] = "write" => StepsLeft(p) = 5 * (MaxAttempts - attempt[p]) - 3
         /\ pc[p] = "close" => StepsLeft(p) = 5 * (MaxAttempts - attempt[p]) - 4
         /\ pc[p] \notin Busy => StepsLeft(p) = 0
         /\ pc[p] \in Busy => StepsLeft(p) \in 1 .. 5 * MaxAttempts
<1>1. MaxAttempts \in Nat \ {0} /\ attempt[p] \in Nat /\ (pc[p] \in Busy => attempt[p] < MaxAttempts)
  BY BoundsAssumption DEF TypeOK, AttemptsLeft
<1>2. /\ pc[p] = "scan" => StepsLeft(p) = 5 * (MaxAttempts - attempt[p])
      /\ pc[p] = "read" => StepsLeft(p) = 5 * (MaxAttempts - attempt[p]) - 1
      /\ pc[p] = "create" => StepsLeft(p) = 5 * (MaxAttempts - attempt[p]) - 2
      /\ pc[p] = "write" => StepsLeft(p) = 5 * (MaxAttempts - attempt[p]) - 3
      /\ pc[p] = "close" => StepsLeft(p) = 5 * (MaxAttempts - attempt[p]) - 4
  BY <1>1 DEF StepsLeft, Busy
<1> QED  BY <1>1, <1>2 DEF StepsLeft, Busy

\* A call's own step is one step less.
LEMMA StepShortens ==
  ASSUME TypeOK, AttemptsLeft, TypeOK', AttemptsLeft', NEW p \in Proc, Progress(p)
  PROVE  pc[p] \in Busy /\ StepsLeft(p)' < StepsLeft(p)
<1> DEFINE at(c, a, n) == pc[p] = c /\ pc'[p] = a /\ attempt'[p] = attempt[p] + n
<1>1. /\ MaxAttempts \in Nat \ {0} /\ attempt[p] \in Nat /\ attempt'[p] \in Nat
      /\ pc[p] = "scan" => StepsLeft(p) = 5 * (MaxAttempts - attempt[p])
      /\ pc[p] = "read" => StepsLeft(p) = 5 * (MaxAttempts - attempt[p]) - 1
      /\ pc[p] = "create" => StepsLeft(p) = 5 * (MaxAttempts - attempt[p]) - 2
      /\ pc[p] = "write" => StepsLeft(p) = 5 * (MaxAttempts - attempt[p]) - 3
      /\ pc[p] = "close" => StepsLeft(p) = 5 * (MaxAttempts - attempt[p]) - 4
      /\ pc[p] \in Busy => StepsLeft(p) >= 1
  <2>1. attempt'[p] \in Nat
    BY DEF TypeOK
  <2> QED  BY <2>1, StepsLeftIs
<1>2. /\ pc'[p] = "scan" => StepsLeft(p)' = 5 * (MaxAttempts - attempt'[p])
      /\ pc'[p] = "read" => StepsLeft(p)' = 5 * (MaxAttempts - attempt'[p]) - 1
      /\ pc'[p] = "create" => StepsLeft(p)' = 5 * (MaxAttempts - attempt'[p]) - 2
      /\ pc'[p] = "write" => StepsLeft(p)' = 5 * (MaxAttempts - attempt'[p]) - 3
      /\ pc'[p] = "close" => StepsLeft(p)' = 5 * (MaxAttempts - attempt'[p]) - 4
      /\ pc'[p] \in {"idle", "down"} => StepsLeft(p)' = 0
  BY <1>1 DEF StepsLeft, Busy
<1>3. \/ at("scan", "read", 0)
      \/ at("read", "create", 0)
      \/ at("create", "write", 0)
      \/ at("write", "close", 0)
      \/ at("create", "scan", 1)
      \/ pc[p] \in Busy /\ pc'[p] \in {"idle", "down"}
  <2>1. ASSUME NEW l \in {"idle", "down"}, NEW r, End(p, l, r) PROVE pc'[p] \in {"idle", "down"}
    BY <2>1 DEF End, TypeOK
  <2>2. CASE ReadVerified(p)
    <3>1. PICK events : BuildNext(p, events) \/ Answer(p, events)
      BY <2>2 DEF ReadVerified
    <3>2. CASE Answer(p, events)
      BY <2>1, <2>2, <3>2 DEF Answer, ReadVerified, Busy
    <3>3. CASE BuildNext(p, events)
      <4>1. pc' = [pc EXCEPT ![p] = "create"] /\ attempt' = attempt /\ pc[p] = "read"
        BY <2>2, <3>3 DEF BuildNext, ReadVerified
      <4> QED  BY <4>1, <1>1 DEF TypeOK
    <3> QED  BY <3>1, <3>2, <3>3
  <2>3. CASE ReadFails(p)
    BY <2>1, <2>3 DEF ReadFails, Throw, Busy
  <2>4. CASE CloseFile(p)
    BY <2>1, <2>4 DEF CloseFile, Busy
  <2>9. CASE WriteEvent(p)
    <3>1. pc[p] = "write" /\ pc'[p] = "close" /\ attempt'[p] = attempt[p]
      BY <2>9 DEF WriteEvent, TypeOK
    <3> QED  BY <1>1, <3>1
  <2>5. CASE OpenDir(p)
    <3>1. pc[p] = "scan" /\ pc'[p] = "read" /\ attempt'[p] = attempt[p]
      BY <2>5 DEF OpenDir, TypeOK
    <3> QED  BY <1>1, <3>1
  <2>6. CASE CreateFile(p)
    <3>1. pc[p] = "create" /\ pc'[p] = "write" /\ attempt'[p] = attempt[p]
      BY <2>6 DEF CreateFile, TypeOK
    <3> QED  BY <1>1, <3>1
  <2>7. CASE LoseSequence(p)
    BY <2>7 DEF LoseSequence, TypeOK
  <2>8. CASE GiveUp(p)
    BY <2>8 DEF GiveUp, TypeOK, Busy
  <2> QED  BY <2>2, <2>3, <2>4, <2>5, <2>6, <2>7, <2>8, <2>9 DEF Progress
<1> QED  BY <1>1, <1>2, <1>3 DEF Busy

\* Nobody else's step touches a process.
LEMMA OthersUntouched ==
  ASSUME TypeOK, NEW p \in Proc, Call(p) \/ Progress(p) \/ Environment(p), NEW q \in Proc, p # q
  PROVE  Locals(q)' = Locals(q)
<1> USE DEF disk, local
<1>1. ASSUME NEW m, NEW d, Start(p, m, d), calls'[q] = calls[q] PROVE Locals(q)' = Locals(q)
  BY <1>1 DEF Start, Locals, TypeOK
<1>2. ASSUME NEW l, NEW r, End(p, l, r) PROVE Locals(q)' = Locals(q)
  BY <1>2 DEF End, Locals, TypeOK
<1>3. CASE Call(p)
  BY <1>1, <1>3 DEF Call, Begin, TypeOK
<1>4. CASE Environment(p)
  BY <1>1, <1>2, <1>4 DEF Environment, StorageFails, Crash, Restart, Throw
<1>5. CASE ReadVerified(p)
  <2>1. PICK events : BuildNext(p, events) \/ Answer(p, events)
    BY <1>5 DEF ReadVerified
  <2> QED  BY <1>2, <1>5, <2>1 DEF BuildNext, Answer, ReadVerified, Locals, TypeOK
<1>6. CASE ReadFails(p) \/ CloseFile(p)
  BY <1>2, <1>6 DEF ReadFails, Throw, CloseFile
<1>7. CASE OpenDir(p) \/ CreateFile(p) \/ WriteEvent(p) \/ LoseSequence(p) \/ GiveUp(p)
  BY <1>7 DEF OpenDir, CreateFile, WriteEvent, LoseSequence, GiveUp, Locals, TypeOK
<1> QED  BY <1>3, <1>4, <1>5, <1>6, <1>7 DEF Progress

\* No append that throws before it closes its file has recorded its event.
THEOREM RefusedAppendsRecordNothing == Spec => RefusedAppendRecordsNothing
<1>1. ASSUME IInv, [Next]_vars, NEW p \in Proc, op[p] = "append", pc[p] \in Busy \ {"close"},
             pc'[p] = "idle", NEW k \in Written'
      PROVE  files'[k].id # <<p, calls[p]>>
  <2> USE DEF disk, local
  <2>1. TypeOK /\ pc'[p] # pc[p]
    BY <1>1 DEF IInv, Busy
  <2>2. PICK q \in Proc : Call(q) \/ Progress(q) \/ Environment(q)
    BY <1>1, <2>1 DEF Next, vars
  <2>3. q = p
    BY <1>1, <2>1, <2>2, OthersUntouched DEF Locals
  <2>4. pc'[p] \notin {"scan", "write", "close"}
    BY <1>1
  <2>5. files' = files
    <3>1. CASE Call(p)
      BY <3>1 DEF Call, Begin, Start
    <3>2. CASE Environment(p)
      BY <3>2 DEF Environment, StorageFails, Crash, Restart, Start
    <3>3. ~ CreateFile(p) /\ ~ WriteEvent(p)
      BY <2>1, <2>4 DEF CreateFile, WriteEvent, TypeOK
    <3>4. CASE Progress(p)
      BY <3>3, <3>4 DEF Progress, OpenDir, ReadVerified, ReadFails, LoseSequence, GiveUp, CloseFile
    <3> QED  BY <2>2, <2>3, <3>1, <3>2, <3>4
  <2> QED  BY <1>1, <2>5 DEF IInv, Unrecorded, Written
<1>2. IInv /\ [Next]_vars =>
        [\A p \in Proc :
           op[p] = "append" /\ pc[p] \in Busy \ {"close"} /\ pc'[p] = "idle" /\ ~ out'[p].ok
             => \A k \in Written' : files'[k].id # <<p, calls[p]>>]_vars
  BY <1>1
<1> QED  BY <1>2, Invariant, PTL DEF Spec, RefusedAppendRecordsNothing

\* Every step leaves a busy process alone or brings its call nearer to its end.
LEMMA EveryStepShortens ==
  ASSUME TypeOK, AttemptsLeft, TypeOK', AttemptsLeft', [Next]_vars, NEW q \in Proc, pc[q] \in Busy
  PROVE  Nearer(q)
<1> USE DEF disk, local
<1>1. StepsLeft(q) \in 1 .. 5 * MaxAttempts
  BY StepsLeftIs
<1>2. CASE UNCHANGED vars
  BY <1>1, <1>2 DEF vars, Locals, Nearer
<1>3. ASSUME NEW p \in Proc, p # q, Call(p) \/ Progress(p) \/ Environment(p) PROVE Locals(q)' = Locals(q)
  BY <1>3, OthersUntouched
<1>4. ASSUME Call(q) \/ Environment(q) PROVE StepsLeft(q)' < StepsLeft(q)
  <2>1. CASE Call(q)
    BY <2>1 DEF Call, Begin, Busy
  <2>2. CASE Restart(q)
    BY <2>2 DEF Restart, Busy
  <2>3. ASSUME NEW l \in {"idle", "down"}, NEW r, End(q, l, r) PROVE StepsLeft(q)' = 0
    <3>1. pc'[q] \in {"idle", "down"}
      BY <2>3 DEF End, TypeOK
    <3> QED  BY <3>1 DEF StepsLeft, Busy
  <2>4. CASE StorageFails(q) \/ Crash(q)
    BY <1>1, <2>3, <2>4 DEF StorageFails, Crash, Throw
  <2> QED  BY <1>4, <2>1, <2>2, <2>4 DEF Environment
<1>5. ASSUME Progress(q) PROVE StepsLeft(q)' < StepsLeft(q)
  BY <1>5, StepShortens
<1> QED  BY <1>1, <1>2, <1>3, <1>4, <1>5 DEF Next, Nearer

LEMMA AttemptsAreLeft == Spec => []AttemptsLeft
BY AttemptsInit, AttemptsStep, TypeCorrect, PTL DEF Spec

\* Whoever wins the races meanwhile, a call ends after a bounded number of its own steps.
THEOREM CallsAlwaysAreBounded == Spec => CallsAreBounded
<1>1. TypeOK /\ AttemptsLeft /\ TypeOK' /\ AttemptsLeft' /\ [Next]_vars =>
        [\A p \in Proc :
           pc[p] \in Busy =>
             /\ StepsLeft(p) \in 1 .. 5 * MaxAttempts
             /\ StepsLeft(p)' < StepsLeft(p) \/ Locals(p)' = Locals(p)]_vars
  BY EveryStepShortens DEF Nearer
<1> QED  BY <1>1, AttemptsAreLeft, TypeCorrect, PTL DEF Spec, CallsAreBounded, Nearer
=============================================================================
