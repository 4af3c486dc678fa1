---------------------------- MODULE MCProofRequests ----------------------------
(* ProofRequests for TLC: ids, circuits and request slots are interchangeable. *)
EXTENDS ProofRequests, TLC

Symmetry ==
    Permutations(ProofIds) \cup Permutations(Circuits) \cup Permutations(Procs)
================================================================================
