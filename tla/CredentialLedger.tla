--------------------------- MODULE CredentialLedger ---------------------------
(***************************************************************************)
(* What the credential service promises to whoever reads its tables and    *)
(* the revocation registry: a credential is issued once, it is revoked at  *)
(* most once and for good, and only a revoked credential is ever anchored  *)
(* in the on-chain registry, each by a step of its own.                    *)
(***************************************************************************)
CONSTANTS
    Ids,        \* credential ids
    Parties,    \* addresses that issue and receive credentials
    Absent      \* the entry of an id not issued yet

VARIABLES
    ledger,     \* ledger[c] is Absent or [issuer, subject, status]
    anchored    \* ids whose hash the revocation registry holds

ledgerVars == <<ledger, anchored>>

Entries == [issuer : Parties, subject : Parties, status : {"ACTIVE", "REVOKED"}]

LedgerTypeOK ==
    /\ ledger \in [Ids -> Entries \cup {Absent}]
    /\ anchored \subseteq Ids

LedgerInit ==
    /\ ledger = [c \in Ids |-> Absent]
    /\ anchored = {}

LedgerIssue(c, i, s) ==
    /\ ledger[c] = Absent
    /\ ledger' = [ledger EXCEPT
                    ![c] = [issuer |-> i, subject |-> s, status |-> "ACTIVE"]]
    /\ UNCHANGED anchored

LedgerRevoke(c) ==
    /\ ledger[c] # Absent
    /\ ledger[c].status = "ACTIVE"
    /\ ledger' = [ledger EXCEPT ![c].status = "REVOKED"]
    /\ UNCHANGED anchored

LedgerAnchor(c) ==
    /\ ledger[c] # Absent
    /\ ledger[c].status = "REVOKED"
    /\ anchored' = anchored \cup {c}
    /\ UNCHANGED ledger

LedgerNext ==
    \E c \in Ids :
        \/ \E i, s \in Parties : LedgerIssue(c, i, s)
        \/ LedgerRevoke(c)
        \/ LedgerAnchor(c)

LedgerSpec == LedgerInit /\ [][LedgerNext]_ledgerVars
===============================================================================
