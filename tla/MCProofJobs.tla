------------------------------ MODULE MCProofJobs ------------------------------
EXTENDS ProofJobs

\* The user's job is queued, alone or beside another's.  What a job that nobody adds would
\* name makes no difference.
MCInit ==
    /\ Init
    /\ At(Mine, "wait")
    /\ \A j \in Jobs : ~Queued(j) => C(j) = None

MCSpec == MCInit /\ [][Next]_vars /\ Fairness
===============================================================================
