--------------------------- MODULE DirectoryLedger ---------------------------
(***************************************************************************)
(* DirectoryAuditLedger (src/src/evidence.ts:117-188): processes that      *)
(* share one directory and keep one hash chain in it, one file per event.  *)
(*                                                                         *)
(* Every method first reads the whole directory: readdirSync, then one     *)
(* readFileSync and JSON.parse per file, then verifyAuditChain.  append    *)
(* then creates the file of the next sequence number exclusively (flag     *)
(* "wx"), writes the event into it and closes it: three system calls.      *)
(* Between the first two the file exists and cannot be parsed; before the  *)
(* third the event is recorded although append has not returned.           *)
(*                                                                         *)
(* A file goes from absent to torn to written and never back.  Reading     *)
(* the listed files one by one is therefore the same as reading them all   *)
(* at once, at the first file that does not parse or else at the last one. *)
(* Opening the directory and reading are separate steps, because readdir   *)
(* is not atomic: it may miss a file and return a later one.               *)
(*                                                                         *)
(* A definition whose name ends in _Mutant is a plausible mistake in the   *)
(* definition that follows it; nothing uses it.  The properties are run    *)
(* against it to show that they can fail.                                  *)
(***************************************************************************)
EXTENDS AuditChain, FiniteSets

CONSTANTS
  Proc,         \* the processes that share the directory
  Details,      \* what callers record
  Torn,         \* the contents of a file that is created but not completely written
  MaxAttempts,  \* attempts of one append (16 in the code)
  MaxCalls,     \* bound: ledger calls per process
  MaxFaults     \* bound: crashes and failed system calls, all processes together

ASSUME BoundsAssumption ==
  /\ Details # {}
  /\ MaxAttempts \in Nat \ {0}
  /\ MaxCalls \in Nat
  /\ MaxFaults \in Nat

VARIABLES
  files,     \* the directory: sequence number |-> event, or Torn
  pc,        \* where each process is: down, idle or at a step of a call (Busy)
  op,        \* the method each process runs or ran last
  details,   \* what its append records
  attempt,   \* append's loop variable
  opened,    \* the files that existed when it opened the directory
  draft,     \* the event append built and will write
  out,       \* what its last call returned or that it threw
  calls,     \* how many calls it made (with Proc, the supply of event ids)
  faults,    \* how many faults happened
  receipts,  \* history: the receipts of the appends that returned
  floor      \* history: how many events were readable when its call began

disk == <<files, faults, receipts>>
local == <<pc, op, details, attempt, opened, draft, out, calls, floor>>
vars == <<disk, local>>

Reads == {"list", "verify", "digest"}
Ops == {"none", "open", "append"} \cup Reads
Busy == {"scan", "read", "create", "write", "close"}

-----------------------------------------------------------------------------
(* Types. *)

EventIds == Proc \X (1 .. MaxCalls)
HashedRecords == [id : EventIds, sequence : Nat \ {0}, details : Details]
Hashes == Seq(HashedRecords)
Events == [id : EventIds, sequence : Nat \ {0}, details : Details,
           previousHash : Hashes, eventHash : Hashes]
Results == [op : Ops, ok : BOOLEAN, sequence : Nat, hash : Hashes]
Receipts == [eventId : EventIds, sequence : Nat \ {0}, eventHash : Hashes, previousHash : Hashes]

ASSUME TornAssumption == Torn \notin Events

\* How a call looks that threw, or has not returned.
Thrown(method) == [op |-> method, ok |-> FALSE, sequence |-> 0, hash |-> GENESIS_HASH]
NoResult == Thrown("none")

\* The files whose contents parse: the recorded events.
Written == {k \in DOMAIN files : files[k] # Torn}

-----------------------------------------------------------------------------
Init ==
  /\ files = << >>
  /\ faults = 0
  /\ receipts = {}
  /\ pc = [p \in Proc |-> "idle"]
  /\ op = [p \in Proc |-> "none"]
  /\ details = [p \in Proc |-> CHOOSE d \in Details : TRUE]
  /\ attempt = [p \in Proc |-> 0]
  /\ opened = [p \in Proc |-> {}]
  /\ draft = [p \in Proc |-> Torn]
  /\ out = [p \in Proc |-> NoResult]
  /\ calls = [p \in Proc |-> 0]
  /\ floor = [p \in Proc |-> 0]

\* The attempts of the previous call count for this one.
Start_Mutant(p, method, d) ==
  /\ pc' = [pc EXCEPT ![p] = "scan"]
  /\ op' = [op EXCEPT ![p] = method]
  /\ details' = [details EXCEPT ![p] = d]
  /\ out' = [out EXCEPT ![p] = NoResult]
  /\ floor' = [floor EXCEPT ![p] = Cardinality(Written)]
  /\ UNCHANGED <<disk, attempt, opened, draft>>

\* A method is called; the constructor (op "open") starts from a process that is down.
Start(p, method, d) ==
  /\ pc' = [pc EXCEPT ![p] = "scan"]
  /\ op' = [op EXCEPT ![p] = method]
  /\ details' = [details EXCEPT ![p] = d]
  /\ attempt' = [attempt EXCEPT ![p] = 0]
  /\ out' = [out EXCEPT ![p] = NoResult]
  /\ floor' = [floor EXCEPT ![p] = Cardinality(Written)]
  /\ UNCHANGED <<disk, opened, draft>>

\* append, list, verify or digest is called.
Begin(p, method, d) ==
  /\ pc[p] = "idle"
  /\ method \in Reads \cup {"append"}
  /\ calls[p] < MaxCalls
  /\ calls' = [calls EXCEPT ![p] = @ + 1]
  /\ Start(p, method, d)

\* The call ends at location l: the process forgets what it read.
End(p, l, result) ==
  /\ pc' = [pc EXCEPT ![p] = l]
  /\ out' = [out EXCEPT ![p] = result]
  /\ opened' = [opened EXCEPT ![p] = {}]
  /\ draft' = [draft EXCEPT ![p] = Torn]
  /\ UNCHANGED <<op, details, attempt, calls, floor>>

\* The call throws; a constructor that throws leaves no ledger to call.  verify
\* catches and answers FALSE instead, which callers see as a result not ok.
Throw(p) ==
  End(p, IF op[p] = "open" THEN "down" ELSE "idle", Thrown(op[p]))

\* #eventFiles and #readVerified begin: the directory is opened.
OpenDir(p) ==
  /\ pc[p] = "scan"
  /\ pc' = [pc EXCEPT ![p] = "read"]
  /\ opened' = [opened EXCEPT ![p] = DOMAIN files]
  /\ UNCHANGED <<disk, op, details, attempt, draft, out, calls, floor>>

\* The listing stops early.
Listings_Mutant(p) == SUBSET DOMAIN files

\* readdir may or may not return a file created while it runs.
Listings(p) == {S \in SUBSET DOMAIN files : opened[p] \subseteq S}

\* The names in ascending order, as .sort() leaves them.
SortedNames(S) ==
  {names \in [1 .. Cardinality(S) -> S] :
     \A i \in 1 .. Cardinality(S) - 1 : names[i] < names[i + 1]}

\* A file that does not parse is skipped.
Contents_Mutant(names) ==
  SelectSeq([i \in DOMAIN names |-> files[names[i]]], LAMBDA event : event # Torn)

Contents(names) == [i \in DOMAIN names |-> files[names[i]]]

\* The chain is not verified when it is read.
Readable_Mutant(events) == \A i \in 1 .. Len(events) : events[i] # Torn

\* JSON.parse accepts every file and the chain verifies.
Readable(events) ==
  /\ \A i \in 1 .. Len(events) : events[i] # Torn
  /\ verifyAuditChain(events)

\* append builds the event that follows those it read.
BuildNext(p, events) ==
  /\ op[p] = "append"
  /\ draft' = [draft EXCEPT ![p] =
                 buildEvent(<<p, calls[p]>>, Len(events) + 1, HeadHash(events), details[p])]
  /\ pc' = [pc EXCEPT ![p] = "create"]
  /\ opened' = [opened EXCEPT ![p] = {}]
  /\ UNCHANGED <<op, details, attempt, out, calls, floor>>

\* The other methods return; list's answer is given by its length and last hash.
Answer(p, events) ==
  /\ op[p] # "append"
  /\ End(p, "idle", [op       |-> op[p],
                     ok       |-> TRUE,
                     sequence |-> Len(events),
                     hash     |-> HeadHash(events)])

\* #readVerified returns.
ReadVerified(p) ==
  /\ pc[p] = "read"
  /\ \E S \in Listings(p) : \E names \in SortedNames(S) :
       /\ Readable(Contents(names))
       /\ BuildNext(p, Contents(names)) \/ Answer(p, Contents(names))
  /\ UNCHANGED disk

\* #readVerified throws: a file does not parse, or the chain does not verify.
ReadFails(p) ==
  /\ pc[p] = "read"
  /\ \E S \in Listings(p) : \E names \in SortedNames(S) : ~ Readable(Contents(names))
  /\ Throw(p)
  /\ UNCHANGED disk

\* open(path, "w"): a competing writer's file is truncated.
CreateFile_Mutant(p) ==
  /\ pc[p] = "create"
  /\ files' = [k \in DOMAIN files \cup {draft[p].sequence} |->
                 IF k = draft[p].sequence THEN Torn ELSE files[k]]
  /\ pc' = [pc EXCEPT ![p] = "write"]
  /\ UNCHANGED <<faults, receipts, op, details, attempt, opened, draft, out, calls, floor>>

\* open(path, "wx") succeeds: the file exists and is empty.
CreateFile(p) ==
  /\ pc[p] = "create"
  /\ draft[p].sequence \notin DOMAIN files
  /\ files' = [k \in DOMAIN files \cup {draft[p].sequence} |->
                 IF k = draft[p].sequence THEN Torn ELSE files[k]]
  /\ pc' = [pc EXCEPT ![p] = "write"]
  /\ UNCHANGED <<faults, receipts, op, details, attempt, opened, draft, out, calls, floor>>

\* The loser tries the same sequence number again without reading.
LoseSequence_Mutant(p) ==
  /\ pc[p] = "create"
  /\ draft[p].sequence \in DOMAIN files
  /\ attempt[p] + 1 < MaxAttempts
  /\ UNCHANGED vars

\* EEXIST: another process has the sequence number; append reads again.
LoseSequence(p) ==
  /\ pc[p] = "create"
  /\ draft[p].sequence \in DOMAIN files
  /\ attempt[p] + 1 < MaxAttempts
  /\ attempt' = [attempt EXCEPT ![p] = @ + 1]
  /\ pc' = [pc EXCEPT ![p] = "scan"]
  /\ draft' = [draft EXCEPT ![p] = Torn]
  /\ UNCHANGED <<disk, op, details, opened, out, calls, floor>>

\* EEXIST on the last attempt: append throws.
GiveUp(p) ==
  /\ pc[p] = "create"
  /\ draft[p].sequence \in DOMAIN files
  /\ attempt[p] + 1 = MaxAttempts
  /\ attempt' = [attempt EXCEPT ![p] = @ + 1]
  /\ pc' = [pc EXCEPT ![p] = "idle"]
  /\ draft' = [draft EXCEPT ![p] = Torn]
  /\ out' = [out EXCEPT ![p] = Thrown("append")]
  /\ UNCHANGED <<disk, op, details, opened, calls, floor>>

\* write(2) fills the file: its contents parse from now on, with or without the
\* newline at their end.
WriteEvent(p) ==
  /\ pc[p] = "write"
  /\ files' = [files EXCEPT ![draft[p].sequence] = draft[p]]
  /\ pc' = [pc EXCEPT ![p] = "close"]
  /\ UNCHANGED <<faults, receipts, op, details, attempt, opened, draft, out, calls, floor>>

\* The event is written but append goes on to its next attempt.
CloseFile_Mutant(p) ==
  /\ pc[p] = "close"
  /\ receipts' = receipts \cup {receiptFor(draft[p])}
  /\ pc' = [pc EXCEPT ![p] = "scan"]
  /\ draft' = [draft EXCEPT ![p] = Torn]
  /\ UNCHANGED <<files, faults, op, details, attempt, opened, out, calls, floor>>

\* close(2) succeeds and append returns the event it wrote.
CloseFile(p) ==
  /\ pc[p] = "close"
  /\ receipts' = receipts \cup {receiptFor(draft[p])}
  /\ End(p, "idle", [op       |-> "append",
                     ok       |-> TRUE,
                     sequence |-> draft[p].sequence,
                     hash     |-> draft[p].eventHash])
  /\ UNCHANGED <<files, faults>>

-----------------------------------------------------------------------------
(* Faults. *)

Fault == faults < MaxFaults /\ faults' = faults + 1

\* Every error of writeFileSync is taken for EEXIST, and append tries again.
StorageFails_Mutant(p) ==
  /\ pc[p] \in Busy
  /\ Fault
  /\ IF pc[p] \in {"create", "write", "close"} /\ attempt[p] + 1 < MaxAttempts
     THEN /\ attempt' = [attempt EXCEPT ![p] = @ + 1]
          /\ pc' = [pc EXCEPT ![p] = "scan"]
          /\ draft' = [draft EXCEPT ![p] = Torn]
          /\ UNCHANGED <<op, details, opened, out, calls, floor>>
     ELSE Throw(p)
  /\ UNCHANGED <<files, receipts>>

\* A system call fails with another error (no space, no permission): the method
\* throws, and a file append has already created stays as it is.  If its event
\* was written (the close fails, or the write fails with only the newline still to
\* come), then append throws although it recorded the event.
StorageFails(p) ==
  /\ pc[p] \in Busy
  /\ Fault
  /\ Throw(p)
  /\ UNCHANGED <<files, receipts>>

\* The process dies; what it had in memory is lost.
Crash(p) ==
  /\ pc[p] # "down"
  /\ Fault
  /\ End(p, "down", NoResult)
  /\ UNCHANGED <<files, receipts>>

\* It is started again and constructs its ledger.
Restart(p) ==
  /\ pc[p] = "down"
  /\ Start(p, "open", details[p])
  /\ UNCHANGED calls

-----------------------------------------------------------------------------
\* What a running call does by itself.
Progress(p) ==
  \/ OpenDir(p)
  \/ ReadVerified(p)
  \/ ReadFails(p)
  \/ CreateFile(p)
  \/ LoseSequence(p)
  \/ GiveUp(p)
  \/ WriteEvent(p)
  \/ CloseFile(p)

Environment(p) ==
  \/ StorageFails(p)
  \/ Crash(p)
  \/ Restart(p)

Call(p) == \E method \in Reads \cup {"append"}, d \in Details : Begin(p, method, d)

Next == \E p \in Proc : Call(p) \/ Progress(p) \/ Environment(p)

Spec == Init /\ [][Next]_vars

\* A call is synchronous code: it runs on unless its process dies.
FairSpec == Spec /\ \A p \in Proc : WF_vars(Progress(p))
=============================================================================
