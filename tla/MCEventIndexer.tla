---------------------------- MODULE MCEventIndexer -----------------------------
(* EventIndexer for TLC: two events in one ledger, one in a later one, none in the others. *)
EXTENDS EventIndexer

MCLedgerOf == <<1, 1, 3>>
================================================================================
