----------------------------- MODULE MCCredentials -----------------------------
(* Credentials for TLC: ids and request slots are interchangeable. *)
EXTENDS Credentials, TLC

Symmetry == Permutations(CredIds) \cup Permutations(Procs)
================================================================================
