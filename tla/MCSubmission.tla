------------------------------ MODULE MCSubmission ------------------------------
(* Submission for TLC. *)
EXTENDS Submission
================================================================================
