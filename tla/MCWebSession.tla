------------------------------ MODULE MCWebSession ------------------------------
(* WebSession for TLC: one unit of the clock is five minutes. *)
EXTENDS WebSession, TLC

Symmetry == Permutations(Users) \cup Permutations(Challenges) \cup
            Permutations(Encodings) \cup
            Permutations(Tokens) \cup Permutations(Attempts) \cup
            Permutations(Procs)
================================================================================
