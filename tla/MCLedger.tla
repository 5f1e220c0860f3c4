------------------------------ MODULE MCLedger ------------------------------
(***************************************************************************)
(* Instances of DirectoryLedger for TLC.                                   *)
(***************************************************************************)
EXTENDS LedgerInvariant
=============================================================================
