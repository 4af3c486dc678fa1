----------------------------- MODULE ProofRequests -----------------------------
(***************************************************************************)
(* Proofs and proof requests: the handlers of proof.controller with        *)
(* ProofService, over the tables `zk_proofs', `proof_verifications' and    *)
(* `proof_requests'.  Credentials are issued and revoked meanwhile by the  *)
(* credential service, of which this module knows only what                *)
(* CredentialLedger promises (module Credentials shows that it keeps it).  *)
(*                                                                         *)
(* A request is one run of a handler, a step of it one awaited statement   *)
(* with the code up to the next await.                                     *)
(***************************************************************************)
EXTENDS CredentialLedger, Integers

CONSTANTS
    Agency,     \* the platform issuer's address
    Circuits,   \* circuit ids
    ProofIds, RequestIds,
    Procs,      \* requests in progress at the same time
    MaxNow      \* bound on the clock

Users == Parties    \* a user's DID is that of the user's address

VARIABLES
    now,        \* Date.now()
    did,        \* users with a row in `dids'
    proof,      \* proof[z]: the row of `zk_proofs', Absent before it is inserted
    verified,   \* proofs with a row in `proof_verifications' whose result is true
    preq,       \* preq[r]: the row of `proof_requests'
    req         \* req[p]: the handler p is running

tables == <<did, proof, verified, preq>>
vars == <<ledgerVars, now, tables, req>>

-------------------------------------------------------------------------------
Times == 0 .. MaxNow

\* generateProof stores every proof as COMPLETED with a mock artifact.
Proofs == [subject : Users, cred : Ids, circuit : Circuits, status : {"COMPLETED"}]

Statuses == {"PENDING", "APPROVED", "REJECTED", "EXPIRED"}

ProofReqs == [verifier : Users, circuit : Circuits, expiresAt : Times,
              status : Statuses, proof : ProofIds \cup {Absent},
              subject : Users \cup {Absent}]

ASSUME ProofRequestsAssumption ==
    /\ Agency \in Parties
    /\ MaxNow \in Nat
    /\ Absent \notin Entries \cup Proofs \cup ProofReqs
    /\ Absent \notin Ids \cup Parties \cup Circuits \cup ProofIds \cup RequestIds

PCs == {"idle", "genFind", "genCreate", "verifyFind", "verifyCreate",
        "requestCreate", "respondFind", "respondExpire", "respondProof", "respondDid",
        "respondApprove", "respondReject"}

(***************************************************************************)
(* The local variables of a handler.  `since' and `open' are history       *)
(* variables: when a response arrived, and whether what a call is about    *)
(* was still open when it arrived: the credential not revoked, the proof   *)
(* request pending.                                                        *)
(***************************************************************************)
Requests == [pc : PCs, user : Users \cup {Absent}, cred : Ids \cup {Absent},
             circuit : Circuits \cup {Absent}, proof : ProofIds \cup {Absent},
             request : RequestIds \cup {Absent}, expiresAt : Times,
             since : Times, open : BOOLEAN]

Idle == [pc |-> "idle", user |-> Absent, cred |-> Absent, circuit |-> Absent,
         proof |-> Absent, request |-> Absent, expiresAt |-> 0, since |-> 0,
         open |-> FALSE]

Stored(z) == proof[z] # Absent
Created(r) == preq[r] # Absent
RevokedCred(c) == ledger[c] # Absent /\ ledger[c].status = "REVOKED"

Init ==
    /\ LedgerInit
    /\ now = 0
    /\ did = {}
    /\ proof = [z \in ProofIds |-> Absent]
    /\ verified = {}
    /\ preq = [r \in RequestIds |-> Absent]
    /\ req = [p \in Procs |-> Idle]

At(p, pc) == req[p].pc = pc
Goto(p, pc) == req' = [req EXCEPT ![p].pc = pc]
Reply(p) == req' = [req EXCEPT ![p] = Idle]      \* success or error: the handler is gone

-------------------------------------------------------------------------------
\* POST /proofs/generate.  The controller finds the caller's DID first.
Generate(p, u, c, k) ==
    /\ At(p, "idle")
    /\ u \in did
    /\ req' = [req EXCEPT ![p] = [Idle EXCEPT !.pc = "genFind", !.user = u, !.cred = c,
                                              !.circuit = k, !.open = ~RevokedCred(c)]]
    /\ UNCHANGED <<ledgerVars, now, tables>>

\* Mutated form: the credential's status is not looked at.
ProvableAnyStatus(c, u) == ledger[c] # Absent /\ ledger[c].subject = u

Provable(c, u) ==
    /\ ledger[c] # Absent
    /\ ledger[c].subject = u
    /\ ledger[c].status = "ACTIVE"

GenFind(p) ==
    /\ At(p, "genFind")
    /\ IF Provable(req[p].cred, req[p].user) THEN Goto(p, "genCreate") ELSE Reply(p)
    /\ UNCHANGED <<ledgerVars, now, tables>>

GenCreate(p, z) ==
    /\ At(p, "genCreate")
    /\ ~Stored(z)
    /\ proof' = [proof EXCEPT ![z] = [subject |-> req[p].user, cred |-> req[p].cred,
                                      circuit |-> req[p].circuit, status |-> "COMPLETED"]]
    /\ Reply(p)
    /\ UNCHANGED <<ledgerVars, now, did, verified, preq>>

-------------------------------------------------------------------------------
\* POST /proofs/verify.
Verify(p, u, z) ==
    /\ At(p, "idle")
    /\ u \in did
    /\ req' = [req EXCEPT ![p] = [Idle EXCEPT !.pc = "verifyFind", !.user = u,
                                              !.proof = z,
                                              !.open = ~(Stored(z) /\ RevokedCred(proof[z].cred))]]
    /\ UNCHANGED <<ledgerVars, now, tables>>

VerifyFind(p) ==
    /\ At(p, "verifyFind")
    /\ IF Stored(req[p].proof) /\ proof[req[p].proof].status = "COMPLETED"
         THEN Goto(p, "verifyCreate")
         ELSE Reply(p)
    /\ UNCHANGED <<ledgerVars, now, tables>>

\* A mock artifact has a proof and public inputs, which makes the result true,
\* and encodeGroth16Proof throws on it: the contract is not invoked.
VerifyCreate(p) ==
    /\ At(p, "verifyCreate")
    /\ verified' = verified \cup {req[p].proof}
    /\ Reply(p)
    /\ UNCHANGED <<ledgerVars, now, did, proof, preq>>

-------------------------------------------------------------------------------
\* POST /proofs/requests.  No handler sets a target subject at creation.
AskForProof(p, u, k, e) ==
    /\ At(p, "idle")
    /\ u \in did
    /\ req' = [req EXCEPT ![p] = [Idle EXCEPT !.pc = "requestCreate", !.user = u,
                                              !.circuit = k, !.expiresAt = e]]
    /\ UNCHANGED <<ledgerVars, now, tables>>

\* Mutated form: the row is inserted without the requested circuit.
CreateRequestNoCircuit(p, r) ==
    /\ At(p, "requestCreate")
    /\ ~Created(r)
    /\ preq' = [preq EXCEPT ![r] =
                  [verifier |-> req[p].user, circuit |-> Absent,
                   expiresAt |-> req[p].expiresAt, status |-> "PENDING",
                   proof |-> Absent, subject |-> Absent]]
    /\ Reply(p)
    /\ UNCHANGED <<ledgerVars, now, did, proof, verified>>

CreateRequest(p, r) ==
    /\ At(p, "requestCreate")
    /\ ~Created(r)
    /\ preq' = [preq EXCEPT ![r] =
                  [verifier |-> req[p].user, circuit |-> req[p].circuit,
                   expiresAt |-> req[p].expiresAt, status |-> "PENDING",
                   proof |-> Absent, subject |-> Absent]]
    /\ Reply(p)
    /\ UNCHANGED <<ledgerVars, now, did, proof, verified>>

-------------------------------------------------------------------------------
\* POST /proofs/requests/:id/respond; z is Absent when the decision is to reject.
Respond(p, u, r, z) ==
    /\ At(p, "idle")
    /\ Created(r)
    /\ req' = [req EXCEPT ![p] = [Idle EXCEPT !.pc = "respondFind", !.user = u,
                                              !.request = r, !.proof = z, !.since = now,
                                              !.open = (preq[r].status = "PENDING")]]
    /\ UNCHANGED <<ledgerVars, now, tables>>

\* Mutated form: the status of the request is not looked at.
RespondFindAnyStatus(p) ==
    /\ At(p, "respondFind")
    /\ Goto(p, IF now > preq[req[p].request].expiresAt THEN "respondExpire"
               ELSE IF req[p].proof # Absent THEN "respondProof" ELSE "respondReject")
    /\ UNCHANGED <<ledgerVars, now, tables>>

\* Mutated form: an expired request may still be approved.
RespondFindNoExpiry(p) ==
    /\ At(p, "respondFind")
    /\ IF preq[req[p].request].status # "PENDING"
         THEN Reply(p)
         ELSE Goto(p, IF req[p].proof # Absent THEN "respondProof" ELSE "respondReject")
    /\ UNCHANGED <<ledgerVars, now, tables>>

RespondFind(p) ==
    LET r == req[p].request IN
    /\ At(p, "respondFind")
    /\ CASE preq[r].status # "PENDING" -> Reply(p)
         [] preq[r].status = "PENDING" /\ now > preq[r].expiresAt -> Goto(p, "respondExpire")
         [] preq[r].status = "PENDING" /\ now <= preq[r].expiresAt /\ req[p].proof # Absent ->
              Goto(p, "respondProof")
         [] OTHER -> Goto(p, "respondReject")
    /\ UNCHANGED <<ledgerVars, now, tables>>

SetStatus(p, status) == preq' = [preq EXCEPT ![req[p].request].status = status]

RespondExpire(p) ==
    /\ At(p, "respondExpire")
    /\ SetStatus(p, "EXPIRED")
    /\ Reply(p)
    /\ UNCHANGED <<ledgerVars, now, did, proof, verified>>

\* The proof and the caller's DID are read one after the other, then checked.
\* A proof that is not there when it is read fails the check.
RespondProof(p) ==
    /\ At(p, "respondProof")
    /\ IF Stored(req[p].proof)
         THEN Goto(p, "respondDid")
         ELSE Reply(p)
    /\ UNCHANGED <<ledgerVars, now, tables>>

\* Mutated form: the circuits are not compared.
AcceptableAnyCircuit(z, u, r) ==
    /\ u \in did
    /\ proof[z].subject = u
    /\ proof[z].status = "COMPLETED"

Acceptable(z, u, r) ==
    /\ u \in did
    /\ proof[z].subject = u
    /\ proof[z].status = "COMPLETED"
    /\ proof[z].circuit = preq[r].circuit

RespondDid(p) ==
    /\ At(p, "respondDid")
    /\ IF Acceptable(req[p].proof, req[p].user, req[p].request)
         THEN Goto(p, "respondApprove")
         ELSE Reply(p)
    /\ UNCHANGED <<ledgerVars, now, tables>>

RespondApprove(p) ==
    /\ At(p, "respondApprove")
    /\ preq' = [preq EXCEPT ![req[p].request].status = "APPROVED",
                            ![req[p].request].proof = req[p].proof,
                            ![req[p].request].subject = req[p].user]
    /\ Reply(p)
    /\ UNCHANGED <<ledgerVars, now, did, proof, verified>>

RespondReject(p) ==
    /\ At(p, "respondReject")
    /\ SetStatus(p, "REJECTED")
    /\ Reply(p)
    /\ UNCHANGED <<ledgerVars, now, did, proof, verified>>

-------------------------------------------------------------------------------
\* The rest of the server: DIDs are created, credentials issued and revoked.
CreateDID(u) ==
    /\ did' = did \cup {u}
    /\ UNCHANGED <<ledgerVars, now, proof, verified, preq, req>>

Issue(c, u) ==
    /\ u \in did
    /\ LedgerIssue(c, Agency, u)
    /\ UNCHANGED <<now, tables, req>>

Revoke(c) ==
    /\ LedgerRevoke(c)
    /\ UNCHANGED <<now, tables, req>>

Tick ==
    /\ now < MaxNow
    /\ now' = now + 1
    /\ UNCHANGED <<ledgerVars, tables, req>>

\* The server stops and starts again: requests in progress are lost.
Restart ==
    /\ req' = [p \in Procs |-> Idle]
    /\ UNCHANGED <<ledgerVars, now, tables>>

Call(p) ==
    \E u \in Users :
        \/ \E c \in Ids, k \in Circuits : Generate(p, u, c, k)
        \/ \E z \in ProofIds : Verify(p, u, z)
        \/ \E k \in Circuits, e \in Times : AskForProof(p, u, k, e)
        \/ \E r \in RequestIds, z \in ProofIds \cup {Absent} : Respond(p, u, r, z)

Step(p) ==
    \/ GenFind(p) \/ (\E z \in ProofIds : GenCreate(p, z))
    \/ VerifyFind(p) \/ VerifyCreate(p)
    \/ \E r \in RequestIds : CreateRequest(p, r)
    \/ RespondFind(p) \/ RespondExpire(p) \/ RespondProof(p) \/ RespondDid(p)
    \/ RespondApprove(p) \/ RespondReject(p)

Environment ==
    \/ \E u \in Users : CreateDID(u) \/ (\E c \in Ids : Issue(c, u))
    \/ \E c \in Ids : Revoke(c)
    \/ Tick
    \/ Restart

Next == Environment \/ \E p \in Procs : Call(p) \/ Step(p)

Spec == Init /\ [][Next]_vars

-------------------------------------------------------------------------------
(* Properties *)

\* The tables and the local variables of the handlers hold values of their
\* declared types.
TypeOK ==
    /\ LedgerTypeOK
    /\ now \in Times
    /\ did \subseteq Users
    /\ proof \in [ProofIds -> Proofs \cup {Absent}]
    /\ verified \subseteq ProofIds
    /\ preq \in [RequestIds -> ProofReqs \cup {Absent}]
    /\ req \in [Procs -> Requests]

\* What a verifier reads off an approved request is true, whichever approvals,
\* rejections and expiries race on its row: the proof it names exists, answers
\* the requested circuit, and was made by the subject it names from a
\* credential issued to that subject.
ApprovalIsBacked ==
    \A r \in RequestIds : Created(r) /\ preq[r].status = "APPROVED" =>
        /\ preq[r].proof \in ProofIds /\ Stored(preq[r].proof)
        /\ LET z == proof[preq[r].proof] IN
             /\ z.status = "COMPLETED"
             /\ z.circuit = preq[r].circuit
             /\ z.subject = preq[r].subject
             /\ ledger[z.cred] # Absent
             /\ ledger[z.cred].subject = preq[r].subject

\* An approval takes effect only if the response arrived before the request
\* expired; the clock runs on while the handler checks the proof.
ApprovedInTime ==
    [][\A r \in RequestIds :
          Created(r) /\ preq'[r] # preq[r] /\ preq'[r].status = "APPROVED" =>
             \E p \in Procs : /\ req[p].pc = "respondApprove"
                              /\ req[p].request = r
                              /\ req[p].since <= preq[r].expiresAt]_vars

\* A response that arrives when the request is already decided changes nothing.
LateResponseChangesNothing ==
    [][\A r \in RequestIds : Created(r) /\ preq'[r] # preq[r] =>
          \E p \in Procs : req[p].request = r /\ req[p].open /\ req'[p] = Idle]_vars

\* No proof comes out of a credential that was already revoked when the request
\* to prove arrived.
NoProofAfterRevocation ==
    [][\A z \in ProofIds : ~Stored(z) /\ Stored(z)' =>
          \E p \in Procs : /\ req[p].pc = "genCreate"
                           /\ req[p].open
                           /\ req[p].cred = proof'[z].cred]_vars

\* docs/requirements.md, 8.5: a revoked credential used in verification is
\* rejected.  verifyProof never looks at the credential behind the proof.
RevokedIsNotVerified ==
    [][\A z \in verified' \ verified :
          \E p \in Procs : /\ req[p].pc = "verifyCreate"
                           /\ req[p].proof = z
                           /\ req[p].open]_vars

\* proof.controller answers "Request is already ..." to a second decision: a
\* decided request keeps its status.
DecisionIsFinal ==
    [][\A r \in RequestIds : Created(r) /\ preq[r].status # "PENDING" =>
          preq'[r].status = preq[r].status]_vars

================================================================================
