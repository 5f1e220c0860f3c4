------------------------------ MODULE AuditLog ------------------------------
(***************************************************************************)
(* What every AuditLedger promises (src/src/evidence.ts:9-14), stated by   *)
(* the InMemoryAuditLedger: one process, append is atomic, the log is a    *)
(* single chain that only grows at its end, and no event is recorded       *)
(* twice.  DirectoryLedger is checked and proved to implement it.          *)
(***************************************************************************)
EXTENDS AuditChain

CONSTANTS EventIds,  \* the values randomUUID() draws from
          Details    \* what callers record

VARIABLE log         \* #events

Init == log = << >>

\* randomUUID() never repeats, so the new event's id is on no event of the log.
FreshId(id) == \A i \in 1 .. Len(log) : log[i].id # id

append(id, details) ==
  /\ FreshId(id)
  /\ log' = Append(log, buildEvent(id, Len(log) + 1, HeadHash(log), details))

Next == \E id \in EventIds, details \in Details : append(id, details)

Spec == Init /\ [][Next]_log
=============================================================================
