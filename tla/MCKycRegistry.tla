----------------------------- MODULE MCKycRegistry -----------------------------
EXTENDS KycRegistry
===============================================================================
