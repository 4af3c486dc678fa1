-------------------------- MODULE ProofRequestsProofs --------------------------
(***************************************************************************)
(* Theorems about ProofRequests, for every set of parties, credentials,    *)
(* circuits, proofs, proof requests and request slots and every bound on   *)
(* the clock.  What the code does not promise, that a decision is final,   *)
(* is proved of the behaviours in which responses do not overlap.          *)
(***************************************************************************)
EXTENDS ProofRequests, TLAPS

USE ProofRequestsAssumption DEF ProofRequestsAssumption, Users

-------------------------------------------------------------------------------
(* What a handler knows at each of its awaits.                             *)

Generating(p) == req[p].pc \in {"genFind", "genCreate"}
Verifying(p) == req[p].pc \in {"verifyFind", "verifyCreate"}

\* A response that has found its request pending and in time.
Approving(p) == req[p].pc \in {"respondProof", "respondDid", "respondApprove"}
Deciding(p) == Approving(p) \/ req[p].pc \in {"respondExpire", "respondReject"}
Responding(p) == Deciding(p) \/ req[p].pc = "respondFind"

\* The proof z answers the request r and is its subject's, user u.
Answers(z, r, u) ==
    /\ Stored(z)
    /\ proof[z].subject = u
    /\ proof[z].circuit = preq[r].circuit

IssuedTo(c, u) == ledger[c] # Absent /\ ledger[c].subject = u

GenOK(p) ==
    Generating(p) =>
      /\ req[p].user \in Users /\ req[p].cred \in Ids /\ req[p].circuit \in Circuits
      /\ ~req[p].open => RevokedCred(req[p].cred) /\ At(p, "genFind")
      /\ At(p, "genCreate") => IssuedTo(req[p].cred, req[p].user)

AskOK(p) ==
    /\ Verifying(p) => req[p].proof \in ProofIds
    /\ At(p, "requestCreate") => req[p].user \in Users /\ req[p].circuit \in Circuits

RespondOK(p) ==
    Responding(p) =>
      /\ req[p].user \in Users /\ req[p].request \in RequestIds
      /\ Created(req[p].request)
      /\ req[p].since <= now
      /\ ~req[p].open => preq[req[p].request].status # "PENDING" /\ At(p, "respondFind")
      /\ Approving(p) => /\ req[p].proof \in ProofIds
                         /\ req[p].since <= preq[req[p].request].expiresAt
      /\ At(p, "respondDid") => Stored(req[p].proof)
      /\ At(p, "respondApprove") => Answers(req[p].proof, req[p].request, req[p].user)

LocalsOK(p) == GenOK(p) /\ AskOK(p) /\ RespondOK(p)

\* Every proof was made from a credential of its subject.
ProofsBacked == \A z \in ProofIds : Stored(z) => IssuedTo(proof[z].cred, proof[z].subject)

IInv ==
    /\ TypeOK
    /\ \A p \in Procs : LocalsOK(p)
    /\ ProofsBacked
    /\ ApprovalIsBacked

-------------------------------------------------------------------------------
(* Types.                                                                  *)

LEMMA InitTyped == Init => TypeOK
BY DEF Init, LedgerInit, LedgerTypeOK, TypeOK, Times, Idle, Requests, PCs

\* A handler's locals, when nothing else changes.
LEMMA LocalsTyped ==
    ASSUME TypeOK, NEW p \in Procs, NEW r \in Requests,
           req' = [req EXCEPT ![p] = r], UNCHANGED <<ledgerVars, now, tables>>
    PROVE  TypeOK'
BY DEF TypeOK, LedgerTypeOK, ledgerVars, tables

LEMMA GotoTyped ==
    ASSUME TypeOK, NEW p \in Procs, NEW pc \in PCs,
           Goto(p, pc), UNCHANGED <<ledgerVars, now, tables>>
    PROVE  TypeOK'
<1>1. [req[p] EXCEPT !.pc = pc] \in Requests
  BY DEF TypeOK, Requests
<1>2. QED
  BY <1>1, LocalsTyped DEF Goto

LEMMA IdleTyped == Idle \in Requests
BY DEF Idle, Requests, PCs, Times

LEMMA ReplyTyped ==
    ASSUME TypeOK, NEW p \in Procs, Reply(p), UNCHANGED <<ledgerVars, now, tables>>
    PROVE  TypeOK'
BY IdleTyped, LocalsTyped DEF Reply

\* One local variable after the other may be set.
LEMMA FieldTyped ==
    ASSUME NEW r \in Requests
    PROVE  /\ \A pc \in PCs : [r EXCEPT !.pc = pc] \in Requests
           /\ \A u \in Users : [r EXCEPT !.user = u] \in Requests
           /\ \A c \in Ids : [r EXCEPT !.cred = c] \in Requests
           /\ \A k \in Circuits : [r EXCEPT !.circuit = k] \in Requests
           /\ \A z \in ProofIds \cup {Absent} : [r EXCEPT !.proof = z] \in Requests
           /\ \A q \in RequestIds : [r EXCEPT !.request = q] \in Requests
           /\ \A t \in Times : [r EXCEPT !.expiresAt = t] \in Requests
           /\ \A t \in Times : [r EXCEPT !.since = t] \in Requests
           /\ \A open \in BOOLEAN : [r EXCEPT !.open = open] \in Requests
BY DEF Requests

LEMMA CallTyped ==
    ASSUME TypeOK, NEW p \in Procs, Call(p)
    PROVE  TypeOK'
<1>1. ASSUME NEW u \in Users, NEW c \in Ids, NEW k \in Circuits, Generate(p, u, c, k)
      PROVE  TypeOK'
  <2> DEFINE open == ~RevokedCred(c)
             r1 == [Idle EXCEPT !.pc = "genFind", !.user = u]
             r2 == [r1 EXCEPT !.cred = c, !.circuit = k]
             r3 == [r2 EXCEPT !.open = open]
  <2>1. r1 \in Requests
    BY IdleTyped, FieldTyped DEF PCs
  <2>2. r2 \in Requests
    BY <2>1, FieldTyped
  <2>3. r3 \in Requests
    BY <2>2, FieldTyped
  <2>4. QED
    BY <1>1, <2>3, LocalsTyped DEF Generate
<1>2. ASSUME NEW u \in Users, NEW z \in ProofIds, Verify(p, u, z)
      PROVE  TypeOK'
  <2> DEFINE open == ~(Stored(z) /\ RevokedCred(proof[z].cred))
             r1 == [Idle EXCEPT !.pc = "verifyFind", !.user = u]
             r2 == [r1 EXCEPT !.proof = z, !.open = open]
  <2>1. r1 \in Requests
    BY IdleTyped, FieldTyped DEF PCs
  <2>2. r2 \in Requests
    BY <2>1, FieldTyped
  <2>3. QED
    BY <1>2, <2>2, LocalsTyped DEF Verify
<1>3. ASSUME NEW u \in Users, NEW k \in Circuits, NEW e \in Times, AskForProof(p, u, k, e)
      PROVE  TypeOK'
  <2> DEFINE r1 == [Idle EXCEPT !.pc = "requestCreate", !.user = u]
             r2 == [r1 EXCEPT !.circuit = k, !.expiresAt = e]
  <2>1. r1 \in Requests
    BY IdleTyped, FieldTyped DEF PCs
  <2>2. r2 \in Requests
    BY <2>1, FieldTyped
  <2>3. QED
    BY <1>3, <2>2, LocalsTyped DEF AskForProof
<1>4. ASSUME NEW u \in Users, NEW r \in RequestIds, NEW z \in ProofIds \cup {Absent},
             Respond(p, u, r, z)
      PROVE  TypeOK'
  <2> DEFINE open == (preq[r].status = "PENDING")
             r1 == [Idle EXCEPT !.pc = "respondFind", !.user = u]
             r2 == [r1 EXCEPT !.request = r, !.proof = z]
             r3 == [r2 EXCEPT !.since = now, !.open = open]
  <2>1. r1 \in Requests
    BY IdleTyped, FieldTyped DEF PCs
  <2>2. r2 \in Requests
    BY <2>1, FieldTyped
  <2>3. r3 \in Requests
    BY <2>2, FieldTyped DEF TypeOK
  <2>4. QED
    BY <1>4, <2>3, LocalsTyped DEF Respond
<1>5. QED
  BY <1>1, <1>2, <1>3, <1>4 DEF Call

\* The steps that write a table, each with what it writes.
LEMMA WriteTyped ==
    ASSUME TypeOK, NEW p \in Procs, Reply(p), UNCHANGED <<ledgerVars, now>>,
           did' = did, proof' \in [ProofIds -> Proofs \cup {Absent}],
           verified' \subseteq ProofIds, preq' \in [RequestIds -> ProofReqs \cup {Absent}]
    PROVE  TypeOK'
BY IdleTyped DEF TypeOK, LedgerTypeOK, ledgerVars, Reply

LEMMA RowTyped ==
    ASSUME TypeOK, NEW r \in RequestIds, Created(r)
    PROVE  preq[r] \in ProofReqs
BY DEF TypeOK, Created

LEMMA SetStatusTyped ==
    ASSUME TypeOK, NEW p \in Procs, LocalsOK(p), Responding(p),
           NEW status \in Statuses, SetStatus(p, status)
    PROVE  preq' \in [RequestIds -> ProofReqs \cup {Absent}]
<1>1. preq[req[p].request] \in ProofReqs /\ req[p].request \in RequestIds
  BY RowTyped DEF LocalsOK, RespondOK
<1>2. QED
  BY <1>1 DEF SetStatus, TypeOK, ProofReqs

LEMMA StepTyped ==
    ASSUME TypeOK, NEW p \in Procs, LocalsOK(p), Step(p)
    PROVE  TypeOK'
<1> USE DEF At
<1>1. CASE GenFind(p)
  BY <1>1, GotoTyped, ReplyTyped DEF GenFind, PCs
<1>2. ASSUME NEW z \in ProofIds, GenCreate(p, z)
      PROVE  TypeOK'
  <2>1. proof' \in [ProofIds -> Proofs \cup {Absent}]
    BY <1>2 DEF GenCreate, LocalsOK, GenOK, Generating, TypeOK, Proofs
  <2>2. QED
    BY <1>2, <2>1, WriteTyped DEF GenCreate, TypeOK
<1>3. CASE VerifyFind(p)
  BY <1>3, GotoTyped, ReplyTyped DEF VerifyFind, PCs
<1>4. CASE VerifyCreate(p)
  <2>1. verified' \subseteq ProofIds
    BY <1>4 DEF VerifyCreate, LocalsOK, AskOK, Verifying, TypeOK
  <2>2. QED
    BY <1>4, <2>1, WriteTyped DEF VerifyCreate, TypeOK
<1>5. ASSUME NEW r \in RequestIds, CreateRequest(p, r)
      PROVE  TypeOK'
  <2>1. preq' \in [RequestIds -> ProofReqs \cup {Absent}]
    BY <1>5 DEF CreateRequest, LocalsOK, AskOK, TypeOK, ProofReqs, Statuses, Requests
  <2>2. QED
    BY <1>5, <2>1, WriteTyped DEF CreateRequest, TypeOK
<1>6. CASE RespondFind(p)
  BY <1>6, GotoTyped, ReplyTyped DEF RespondFind, PCs
<1>7. CASE RespondExpire(p)
  BY <1>7, SetStatusTyped, WriteTyped DEF RespondExpire, TypeOK, Responding, Deciding, Statuses
<1>8. CASE RespondProof(p)
  BY <1>8, GotoTyped, ReplyTyped DEF RespondProof, PCs
<1>9. CASE RespondDid(p)
  BY <1>9, GotoTyped, ReplyTyped DEF RespondDid, PCs
<1>10. CASE RespondApprove(p)
  <2>1. preq[req[p].request] \in ProofReqs /\ req[p].request \in RequestIds
        /\ req[p].proof \in ProofIds /\ req[p].user \in Users
    BY <1>10, RowTyped DEF RespondApprove, LocalsOK, RespondOK, Responding, Deciding, Approving
  <2>2. preq' \in [RequestIds -> ProofReqs \cup {Absent}]
    BY <1>10, <2>1 DEF RespondApprove, TypeOK, ProofReqs, Statuses
  <2>3. QED
    BY <1>10, <2>2, WriteTyped DEF RespondApprove, TypeOK
<1>11. CASE RespondReject(p)
  BY <1>11, SetStatusTyped, WriteTyped DEF RespondReject, TypeOK, Responding, Deciding, Statuses
<1>12. QED
  BY <1>1, <1>2, <1>3, <1>4, <1>5, <1>6, <1>7, <1>8, <1>9, <1>10, <1>11 DEF Step

LEMMA EnvironmentTyped ==
    ASSUME TypeOK, Environment
    PROVE  TypeOK'
<1> USE DEF TypeOK, LedgerTypeOK
<1>1. ASSUME NEW u \in Users, CreateDID(u)
      PROVE  TypeOK'
  BY <1>1 DEF CreateDID, ledgerVars
<1>2. ASSUME NEW u \in Users, NEW c \in Ids, Issue(c, u)
      PROVE  TypeOK'
  BY <1>2 DEF Issue, LedgerIssue, Entries, tables
<1>3. ASSUME NEW c \in Ids, Revoke(c)
      PROVE  TypeOK'
  BY <1>3 DEF Revoke, LedgerRevoke, Entries, tables
<1>4. CASE Tick
  BY <1>4 DEF Tick, Times, ledgerVars, tables
<1>5. CASE Restart
  BY <1>5, IdleTyped DEF Restart, ledgerVars, tables
<1>6. QED
  BY <1>1, <1>2, <1>3, <1>4, <1>5 DEF Environment

-------------------------------------------------------------------------------
(* What a handler has read is not taken back.                              *)

CredentialKept(c) ==
    ledger[c] # Absent =>
      /\ ledger'[c] # Absent
      /\ ledger'[c].subject = ledger[c].subject
      /\ ledger[c].status = "REVOKED" => ledger'[c].status = "REVOKED"

RequestKept(r) ==
    Created(r) =>
      /\ preq'[r] # Absent
      /\ preq'[r].circuit = preq[r].circuit
      /\ preq'[r].expiresAt = preq[r].expiresAt
      /\ preq[r].status # "PENDING" => preq'[r].status # "PENDING"

Kept ==
    /\ now <= now'
    /\ did \subseteq did'
    /\ \A c \in Ids : CredentialKept(c)
    /\ \A z \in ProofIds : Stored(z) => proof'[z] = proof[z]
    /\ \A r \in RequestIds : RequestKept(r)

LEMMA NothingKept ==
    ASSUME TypeOK, UNCHANGED <<ledgerVars, now, tables>>
    PROVE  Kept
BY DEF Kept, CredentialKept, RequestKept, Created, ledgerVars, tables, TypeOK, Times

LEMMA EnvironmentKeeps ==
    ASSUME TypeOK, Environment
    PROVE  Kept
<1> USE DEF Kept, CredentialKept, RequestKept, Created, TypeOK, LedgerTypeOK, Times, ledgerVars, tables
<1>1. ASSUME NEW u \in Users, CreateDID(u)
      PROVE  Kept
  BY <1>1 DEF CreateDID
<1>2. ASSUME NEW u \in Users, NEW c \in Ids, Issue(c, u)
      PROVE  Kept
  BY <1>2 DEF Issue, LedgerIssue
<1>3. ASSUME NEW c \in Ids, Revoke(c)
      PROVE  Kept
  <2>1. ledger[c] \in Entries
    BY <1>3 DEF Revoke, LedgerRevoke
  <2>2. ledger'[c] = [ledger[c] EXCEPT !.status = "REVOKED"] /\ ledger'[c] \in Entries
    BY <1>3, <2>1 DEF Revoke, LedgerRevoke, Entries
  <2>3. \A d \in Ids \ {c} : ledger'[d] = ledger[d]
    BY <1>3 DEF Revoke, LedgerRevoke
  <2>4. \A d \in Ids : CredentialKept(d)
    BY <2>1, <2>2, <2>3 DEF Entries
  <2>5. QED
    BY <1>3, <2>4 DEF Revoke
<1>4. CASE Tick
  BY <1>4 DEF Tick
<1>5. CASE Restart
  BY <1>5 DEF Restart
<1>6. QED
  BY <1>1, <1>2, <1>3, <1>4, <1>5 DEF Environment

LEMMA CallKeeps ==
    ASSUME TypeOK, NEW p \in Procs, Call(p)
    PROVE  Kept
BY NothingKept DEF Call, Generate, Verify, AskForProof, Respond

\* A row that a response writes keeps what was asked, and is decided then.
LEMMA DecisionKeeps ==
    ASSUME TypeOK, NEW r \in RequestIds, Created(r), UNCHANGED <<ledgerVars, now, did, proof>>,
           NEW row \in ProofReqs, preq' = [preq EXCEPT ![r] = row], row.status # "PENDING",
           row.circuit = preq[r].circuit, row.expiresAt = preq[r].expiresAt
    PROVE  Kept
<1>1. preq'[r] = row /\ \A q \in RequestIds \ {r} : preq'[q] = preq[q]
  BY DEF TypeOK
<1>2. \A q \in RequestIds : RequestKept(q)
  BY <1>1 DEF RequestKept, Created
<1>3. QED
  BY <1>2 DEF Kept, CredentialKept, ledgerVars, TypeOK, Times

LEMMA StatusKeeps ==
    ASSUME TypeOK, NEW p \in Procs, LocalsOK(p), Responding(p),
           NEW status \in Statuses \ {"PENDING"}, SetStatus(p, status),
           UNCHANGED <<ledgerVars, now, did, proof>>
    PROVE  Kept
<1> DEFINE r == req[p].request
           row == [preq[r] EXCEPT !.status = status]
<1>1. r \in RequestIds /\ Created(r) /\ preq[r] \in ProofReqs
  BY RowTyped DEF LocalsOK, RespondOK
<1>2. /\ row \in ProofReqs /\ row.status = status
      /\ row.circuit = preq[r].circuit /\ row.expiresAt = preq[r].expiresAt
  BY <1>1 DEF ProofReqs
<1>3. preq' = [preq EXCEPT ![r] = row]
  BY DEF SetStatus
<1>4. QED
  BY <1>1, <1>2, <1>3, DecisionKeeps

LEMMA StepKeeps ==
    ASSUME TypeOK, NEW p \in Procs, LocalsOK(p), Step(p)
    PROVE  Kept
<1> USE DEF At
<1>1. CASE GenFind(p) \/ VerifyFind(p) \/ RespondFind(p) \/ RespondProof(p) \/ RespondDid(p)
  BY <1>1, NothingKept DEF GenFind, VerifyFind, RespondFind, RespondProof, RespondDid
<1>2. ASSUME NEW z \in ProofIds, GenCreate(p, z)
      PROVE  Kept
  BY <1>2 DEF GenCreate, Kept, CredentialKept, RequestKept, Created, Stored, ledgerVars,
              TypeOK, Times
<1>3. CASE VerifyCreate(p)
  BY <1>3 DEF VerifyCreate, Kept, CredentialKept, RequestKept, Created, ledgerVars, TypeOK,
              Times
<1>4. ASSUME NEW r \in RequestIds, CreateRequest(p, r)
      PROVE  Kept
  BY <1>4 DEF CreateRequest, Kept, CredentialKept, RequestKept, Created, ledgerVars, TypeOK,
              Times
<1>5. CASE RespondExpire(p)
  BY <1>5, StatusKeeps DEF RespondExpire, Responding, Deciding, Statuses
<1>6. CASE RespondReject(p)
  BY <1>6, StatusKeeps DEF RespondReject, Responding, Deciding, Statuses
<1>7. CASE RespondApprove(p)
  <2> DEFINE r == req[p].request
             row == [preq[r] EXCEPT !.status = "APPROVED", !.proof = req[p].proof,
                                    !.subject = req[p].user]
  <2>1. /\ r \in RequestIds /\ Created(r) /\ preq[r] \in ProofReqs
        /\ req[p].proof \in ProofIds /\ req[p].user \in Users
    BY <1>7, RowTyped DEF RespondApprove, LocalsOK, RespondOK, Responding, Deciding, Approving
  <2>2. /\ row \in ProofReqs /\ row.status = "APPROVED"
        /\ row.circuit = preq[r].circuit /\ row.expiresAt = preq[r].expiresAt
    BY <2>1 DEF ProofReqs, Statuses
  <2>3. preq' = [preq EXCEPT ![r] = row]
    BY <1>7, <2>1 DEF RespondApprove, TypeOK
  <2>4. QED
    BY <1>7, <2>1, <2>2, <2>3, DecisionKeeps DEF RespondApprove
<1>8. QED
  BY <1>1, <1>2, <1>3, <1>4, <1>5, <1>6, <1>7 DEF Step

\* So the handlers that a step is not of still know what they knew.
LEMMA LocalsFrame ==
    ASSUME TypeOK, TypeOK', Kept, NEW q \in Procs, LocalsOK(q), req'[q] = req[q]
    PROVE  LocalsOK(q)'
<1>1. GenOK(q)'
  BY DEF LocalsOK, GenOK, Kept, CredentialKept, IssuedTo, RevokedCred, Generating, At
<1>2. AskOK(q)'
  BY DEF LocalsOK, AskOK, Verifying, At
<1>3. RespondOK(q)'
  <2> SUFFICES ASSUME Responding(q) PROVE RespondOK(q)'
    BY DEF RespondOK, Responding, Deciding, Approving
  <2>1. req[q].request \in RequestIds /\ RequestKept(req[q].request) /\ Created(req[q].request)
    BY DEF LocalsOK, RespondOK, Kept
  <2>2. req[q].since <= now'
    BY DEF LocalsOK, RespondOK, Kept, TypeOK, Requests, Times
  <2>3. Approving(q) /\ Stored(req[q].proof) => proof'[req[q].proof] = proof[req[q].proof]
    BY DEF LocalsOK, RespondOK, Kept
  <2>4. QED
    BY <2>1, <2>2, <2>3 DEF LocalsOK, RespondOK, RequestKept, Created, Stored, Answers,
                            Responding, Deciding, Approving, At
<1>4. QED
  BY <1>1, <1>2, <1>3 DEF LocalsOK

-------------------------------------------------------------------------------
(* What the handler of the step itself knows after it.                     *)

LEMMA IdleKnows ==
    ASSUME TypeOK, NEW p \in Procs, Reply(p)
    PROVE  LocalsOK(p)'
<1>1. req'[p].pc = "idle"
  BY DEF Reply, Idle, TypeOK
<1>2. QED
  BY <1>1 DEF LocalsOK, GenOK, AskOK, RespondOK, Generating, Verifying, Responding, Deciding,
              Approving, At

LEMMA CallKnows ==
    ASSUME TypeOK, NEW p \in Procs, Call(p)
    PROVE  LocalsOK(p)'
<1> USE DEF LocalsOK, GenOK, AskOK, RespondOK, Generating, Verifying, Responding, Deciding,
            Approving, At, Idle
<1>1. ASSUME NEW u \in Users, NEW c \in Ids, NEW k \in Circuits, Generate(p, u, c, k)
      PROVE  LocalsOK(p)'
  <2>1. /\ req'[p].pc = "genFind" /\ req'[p].user = u /\ req'[p].cred = c
        /\ req'[p].circuit = k /\ req'[p].open = ~RevokedCred(c)
    BY <1>1 DEF Generate, TypeOK
  <2>2. RevokedCred(c)' <=> RevokedCred(c)
    BY <1>1 DEF Generate, RevokedCred, ledgerVars
  <2>3. QED
    BY <2>1, <2>2
<1>2. ASSUME NEW u \in Users, NEW z \in ProofIds, Verify(p, u, z)
      PROVE  LocalsOK(p)'
  <2>1. req'[p].pc = "verifyFind" /\ req'[p].proof = z
    BY <1>2 DEF Verify, TypeOK
  <2>2. QED
    BY <2>1
<1>3. ASSUME NEW u \in Users, NEW k \in Circuits, NEW e \in Times, AskForProof(p, u, k, e)
      PROVE  LocalsOK(p)'
  <2>1. req'[p].pc = "requestCreate" /\ req'[p].user = u /\ req'[p].circuit = k
    BY <1>3 DEF AskForProof, TypeOK
  <2>2. QED
    BY <2>1
<1>4. ASSUME NEW u \in Users, NEW r \in RequestIds, NEW z \in ProofIds \cup {Absent},
             Respond(p, u, r, z)
      PROVE  LocalsOK(p)'
  <2>1. /\ req'[p].pc = "respondFind" /\ req'[p].user = u /\ req'[p].request = r
        /\ req'[p].since = now /\ req'[p].open = (preq[r].status = "PENDING")
    BY <1>4 DEF Respond, TypeOK
  <2>2. Created(r) /\ preq' = preq /\ now' = now
    BY <1>4 DEF Respond, tables
  <2>3. ~req'[p].open => preq'[r].status # "PENDING"
    BY <2>1, <2>2
  <2>4. req'[p].since <= now'
    BY <2>1, <2>2 DEF TypeOK, Times
  <2>5. preq'[r] # Absent
    BY <2>2 DEF Created
  <2>6. QED
    BY <2>1, <2>3, <2>4, <2>5 DEF Created
<1>5. QED
  BY <1>1, <1>2, <1>3, <1>4 DEF Call

LEMMA StepKnows ==
    ASSUME TypeOK, NEW p \in Procs, LocalsOK(p), Step(p)
    PROVE  LocalsOK(p)'
<1> USE DEF LocalsOK, GenOK, AskOK, RespondOK, Generating, Verifying, Responding, Deciding,
            Approving, At, tables, ledgerVars
<1>1. ASSUME NEW pc \in PCs, Goto(p, pc)
      PROVE  /\ req'[p].pc = pc /\ req'[p].user = req[p].user /\ req'[p].cred = req[p].cred
             /\ req'[p].circuit = req[p].circuit /\ req'[p].proof = req[p].proof
             /\ req'[p].request = req[p].request /\ req'[p].since = req[p].since
             /\ req'[p].open = req[p].open
  BY <1>1 DEF Goto, TypeOK, Requests
<1>2. CASE GenFind(p)
  <2>1. CASE Reply(p)
    BY <2>1, IdleKnows
  <2>2. CASE Provable(req[p].cred, req[p].user) /\ Goto(p, "genCreate")
    BY <1>1, <1>2, <2>2 DEF GenFind, Provable, IssuedTo, RevokedCred, PCs
  <2>3. QED
    BY <1>2, <2>1, <2>2 DEF GenFind
<1>3. CASE VerifyFind(p)
  <2>1. CASE Reply(p)
    BY <2>1, IdleKnows
  <2>2. CASE Goto(p, "verifyCreate")
    BY <1>1, <1>3, <2>2 DEF VerifyFind, PCs
  <2>3. QED
    BY <1>3, <2>1, <2>2 DEF VerifyFind
<1>4. CASE RespondFind(p)
  <2> DEFINE r == req[p].request
  <2>1. CASE Reply(p)
    BY <2>1, IdleKnows
  <2>2. /\ Created(r) /\ preq' = preq /\ now' = now /\ req[p].since <= now /\ At(p, "respondFind")
        /\ r \in RequestIds /\ req[p].user \in Users
    BY <1>4 DEF RespondFind
  <2>3. CASE preq[r].status = "PENDING" /\ Goto(p, "respondExpire")
    BY <1>1, <2>2, <2>3 DEF PCs, Created
  <2>4. CASE preq[r].status = "PENDING" /\ Goto(p, "respondReject")
    BY <1>1, <2>2, <2>4 DEF PCs, Created
  <2>5. CASE preq[r].status = "PENDING" /\ now <= preq[r].expiresAt /\ req[p].proof # Absent
             /\ Goto(p, "respondProof")
    <3>1. req[p].proof \in ProofIds
      BY <2>5 DEF TypeOK, Requests
    <3>2. req[p].since <= preq[r].expiresAt
      BY <2>2, <2>5, RowTyped DEF TypeOK, Requests, ProofReqs, Times
    <3>3. QED
      BY <1>1, <2>2, <2>5, <3>1, <3>2 DEF PCs, Created
  <2>6. CASE preq[r].status = "PENDING"
    <3>1. (now > preq[r].expiresAt) <=> ~(now <= preq[r].expiresAt)
      BY <2>2, RowTyped DEF TypeOK, ProofReqs, Times
    <3>2. \/ Goto(p, "respondExpire")
          \/ now <= preq[r].expiresAt /\ req[p].proof # Absent /\ Goto(p, "respondProof")
          \/ Goto(p, "respondReject")
      BY <1>4, <2>6, <3>1 DEF RespondFind
    <3>3. QED
      BY <2>3, <2>4, <2>5, <2>6, <3>2
  <2>7. CASE preq[r].status # "PENDING"
    BY <1>4, <2>1, <2>7 DEF RespondFind
  <2>8. QED
    BY <2>6, <2>7
<1>5. CASE RespondProof(p)
  <2>1. CASE Reply(p)
    BY <2>1, IdleKnows
  <2>2. CASE Stored(req[p].proof) /\ Goto(p, "respondDid")
    BY <1>1, <1>5, <2>2 DEF RespondProof, PCs, Created, Stored
  <2>3. QED
    BY <1>5, <2>1, <2>2 DEF RespondProof
<1>6. CASE RespondDid(p)
  <2>1. CASE Reply(p)
    BY <2>1, IdleKnows
  <2>2. CASE Acceptable(req[p].proof, req[p].user, req[p].request) /\ Goto(p, "respondApprove")
    BY <1>1, <1>6, <2>2 DEF RespondDid, PCs, Created, Stored, Acceptable, Answers
  <2>3. QED
    BY <1>6, <2>1, <2>2 DEF RespondDid
<1>7. QED
  <2>1. CASE Reply(p)
    BY <2>1, IdleKnows
  <2>2. CASE ~Reply(p)
    BY <1>2, <1>3, <1>4, <1>5, <1>6, <2>2
       DEF Step, GenCreate, VerifyCreate, CreateRequest, RespondExpire, RespondApprove,
           RespondReject
  <2>3. QED
    BY <2>1, <2>2

\* A step is of one handler at most, or a restart.
LEMMA OneHandler ==
    ASSUME TypeOK, NEW p \in Procs, Call(p) \/ Step(p), NEW q \in Procs, q # p
    PROVE  req'[q] = req[q]
BY DEF TypeOK, Call, Step, Generate, Verify, AskForProof, Respond, GenFind, GenCreate,
       VerifyFind, VerifyCreate, CreateRequest, RespondFind, RespondExpire, RespondProof,
       RespondDid, RespondApprove, RespondReject, Goto, Reply

LEMMA LocalsStep ==
    ASSUME IInv, TypeOK', Kept, Next
    PROVE  \A q \in Procs : LocalsOK(q)'
<1> SUFFICES ASSUME NEW q \in Procs PROVE LocalsOK(q)'
  OBVIOUS
<1>1. CASE req'[q] = req[q]
  BY <1>1, LocalsFrame DEF IInv
<1>2. ASSUME NEW p \in Procs, Call(p) \/ Step(p)
      PROVE  LocalsOK(q)'
  <2>1. CASE p = q
    BY <1>2, <2>1, CallKnows, StepKnows DEF IInv
  <2>2. CASE p # q
    BY <1>1, <1>2, <2>2, OneHandler DEF IInv
  <2>3. QED
    BY <2>1, <2>2
<1>3. CASE Restart
  <2>1. req'[q].pc = "idle"
    BY <1>3 DEF Restart, Idle
  <2>2. QED
    BY <2>1 DEF LocalsOK, GenOK, AskOK, RespondOK, Generating, Verifying, Responding,
                Deciding, Approving, At
<1>4. CASE Environment /\ ~Restart
  BY <1>1, <1>4 DEF Environment, CreateDID, Issue, Revoke, Tick
<1>5. QED
  BY <1>2, <1>3, <1>4 DEF Next

-------------------------------------------------------------------------------
(* Proofs and approvals.                                                   *)

\* Only a handler writes a table of proofs or of proof requests.
LEMMA WhoWrites ==
    ASSUME Next, proof' # proof \/ preq' # preq
    PROVE  \E p \in Procs : Step(p)
BY DEF Next, Environment, CreateDID, Issue, Revoke, Tick, Restart, Call, Generate, Verify,
   AskForProof, Respond, tables

LEMMA WhoProves ==
    ASSUME TypeOK, Next, NEW z \in ProofIds, proof'[z] # proof[z]
    PROVE  \E p \in Procs : GenCreate(p, z)
<1>1. PICK p \in Procs : Step(p)
  BY WhoWrites
<1>2. PICK y \in ProofIds : GenCreate(p, y)
  BY <1>1 DEF Step, GenFind, VerifyFind, VerifyCreate, CreateRequest, RespondFind,
     RespondExpire, RespondProof, RespondDid, RespondApprove, RespondReject, tables
<1>3. y = z
  BY <1>2 DEF GenCreate, TypeOK
<1>4. QED
  BY <1>2, <1>3

\* A proof stays backed, and the one step that stores a proof knows its credential.
LEMMA ProofsStep ==
    ASSUME IInv, Kept, Next
    PROVE  ProofsBacked'
<1> USE DEF IInv, ProofsBacked, Kept, CredentialKept, IssuedTo
<1>1. SUFFICES ASSUME NEW z \in ProofIds, Stored(z)'
               PROVE  IssuedTo(proof[z].cred, proof[z].subject)'
  BY DEF ProofsBacked
<1>2. CASE Stored(z)
  <2>1. proof'[z] = proof[z] /\ proof[z].cred \in Ids
    BY <1>2 DEF TypeOK, Proofs, Stored
  <2>2. QED
    BY <1>2, <2>1
<1>3. CASE ~Stored(z)
  <2>1. PICK p \in Procs : GenCreate(p, z)
    BY <1>1, <1>3, WhoProves DEF Stored
  <2>2. proof'[z].subject = req[p].user /\ proof'[z].cred = req[p].cred /\ ledger' = ledger
    BY <2>1 DEF GenCreate, TypeOK, ledgerVars
  <2>3. IssuedTo(req[p].cred, req[p].user)
    BY <2>1 DEF GenCreate, LocalsOK, GenOK, Generating, At
  <2>4. QED
    BY <2>2, <2>3
<1>4. QED
  BY <1>2, <1>3

\* Which step writes a row of `proof_requests' that was there.
Decides(p, r) ==
    /\ req[p].request = r
    /\ RespondExpire(p) \/ RespondReject(p) \/ RespondApprove(p)

LEMMA WhoDecides ==
    ASSUME TypeOK, [Next]_vars, NEW r \in RequestIds, Created(r), preq'[r] # preq[r]
    PROVE  \E p \in Procs : Decides(p, r)
<1>1. preq' # preq /\ Next
  BY DEF vars, tables
<1>2. PICK p \in Procs : Step(p)
  BY <1>1, WhoWrites
<1>3. ~ \E q \in RequestIds : CreateRequest(p, q)
  BY DEF CreateRequest, TypeOK, Created
<1>4. RespondExpire(p) \/ RespondReject(p) \/ RespondApprove(p)
  BY <1>1, <1>2, <1>3 DEF Step, GenFind, GenCreate, VerifyFind, VerifyCreate, RespondFind,
     RespondProof, RespondDid, tables
<1>5. req[p].request = r
  BY <1>4 DEF RespondExpire, RespondReject, RespondApprove, SetStatus, TypeOK
<1>6. QED
  BY <1>4, <1>5 DEF Decides

\* What an approval is made of.
LEMMA Approval ==
    ASSUME IInv, NEW p \in Procs, NEW r \in RequestIds, Decides(p, r),
           preq'[r].status = "APPROVED"
    PROVE  /\ At(p, "respondApprove") /\ req[p].proof \in ProofIds
           /\ Answers(req[p].proof, r, req[p].user)
           /\ req[p].since <= preq[r].expiresAt
           /\ preq'[r].proof = req[p].proof /\ preq'[r].subject = req[p].user
           /\ preq'[r].circuit = preq[r].circuit
           /\ proof' = proof
<1>1. LocalsOK(p) /\ TypeOK
  BY DEF IInv
<1>2. Created(r) /\ preq[r] \in ProofReqs
  BY <1>1, RowTyped DEF Decides, RespondExpire, RespondReject, RespondApprove, LocalsOK,
     RespondOK, Responding, Deciding, Approving, At
<1>3. ~RespondExpire(p) /\ ~RespondReject(p)
  BY <1>1, <1>2 DEF Decides, RespondExpire, RespondReject, SetStatus, TypeOK, ProofReqs
<1>4. RespondApprove(p)
  BY <1>3 DEF Decides
<1>5. preq'[r] = [preq[r] EXCEPT !.status = "APPROVED", !.proof = req[p].proof,
                                 !.subject = req[p].user]
  BY <1>1, <1>4 DEF Decides, RespondApprove, TypeOK
<1>6. /\ preq'[r].proof = req[p].proof /\ preq'[r].subject = req[p].user
      /\ preq'[r].circuit = preq[r].circuit
  BY <1>2, <1>5 DEF ProofReqs
<1>7. Responding(p) /\ Approving(p) /\ At(p, "respondApprove") /\ req[p].request = r
  BY <1>4 DEF RespondApprove, Responding, Deciding, Approving, At, Decides
<1>8. QED
  BY <1>1, <1>4, <1>6, <1>7 DEF RespondApprove, LocalsOK, RespondOK

LEMMA WhoAsks ==
    ASSUME TypeOK, \A p \in Procs : LocalsOK(p), Next,
           NEW r \in RequestIds, ~Created(r), Created(r)'
    PROVE  \E p \in Procs : CreateRequest(p, r)
<1>1. preq' # preq
  BY DEF Created
<1>2. PICK p \in Procs : Step(p)
  BY <1>1, WhoWrites
<1>3. ~ RespondExpire(p) /\ ~ RespondReject(p) /\ ~ RespondApprove(p)
  BY DEF RespondExpire, RespondReject, RespondApprove, SetStatus, LocalsOK, RespondOK,
     Responding, Deciding, Approving, At, Created, TypeOK
<1>4. PICK q \in RequestIds : CreateRequest(p, q)
  BY <1>1, <1>2, <1>3 DEF Step, GenFind, GenCreate, VerifyFind, VerifyCreate, RespondFind,
     RespondProof, RespondDid, tables
<1>5. q = r
  BY <1>4 DEF CreateRequest, TypeOK, Created
<1>6. QED
  BY <1>4, <1>5

LEMMA ApprovalStep ==
    ASSUME IInv, TypeOK', Kept, ProofsBacked', Next
    PROVE  ApprovalIsBacked'
<1> SUFFICES ASSUME NEW r \in RequestIds, Created(r)', preq'[r].status = "APPROVED"
             PROVE  /\ preq'[r].proof \in ProofIds /\ Stored(preq[r].proof)'
                    /\ LET z == proof'[preq'[r].proof] IN
                         /\ z.status = "COMPLETED"
                         /\ z.circuit = preq'[r].circuit
                         /\ z.subject = preq'[r].subject
                         /\ ledger'[z.cred] # Absent
                         /\ ledger'[z.cred].subject = preq'[r].subject
  BY DEF ApprovalIsBacked
<1>1. TypeOK
  BY DEF IInv
<1>2. ASSUME NEW z \in ProofIds, Stored(z)'
      PROVE  /\ proof'[z].status = "COMPLETED"
             /\ IssuedTo(proof[z].cred, proof[z].subject)'
  BY <1>2 DEF TypeOK, Proofs, Stored, ProofsBacked
<1>3. CASE Created(r) /\ preq'[r] = preq[r]
  <2>1. /\ preq[r].proof \in ProofIds /\ Stored(preq[r].proof)
        /\ proof[preq[r].proof].circuit = preq[r].circuit
        /\ proof[preq[r].proof].subject = preq[r].subject
    BY <1>3 DEF IInv, ApprovalIsBacked
  <2>2. proof'[preq[r].proof] = proof[preq[r].proof] /\ Stored(preq[r].proof)'
    BY <1>3, <2>1 DEF Kept, Stored
  <2>3. QED
    BY <1>2, <1>3, <2>1, <2>2 DEF IssuedTo, Stored
<1>4. CASE Created(r) /\ preq'[r] # preq[r]
  <2>1. PICK p \in Procs : Decides(p, r)
    BY <1>1, <1>4, WhoDecides
  <2>2. /\ req[p].proof \in ProofIds /\ Answers(req[p].proof, r, req[p].user)
        /\ preq'[r].proof = req[p].proof /\ preq'[r].subject = req[p].user
        /\ preq'[r].circuit = preq[r].circuit /\ proof' = proof
    BY <2>1, Approval
  <2>3. QED
    BY <1>2, <2>2 DEF Answers, Stored, IssuedTo
<1>5. CASE ~Created(r)
  <2>1. PICK p \in Procs : CreateRequest(p, r)
    BY <1>5, WhoAsks DEF IInv
  <2>2. preq'[r].status = "PENDING"
    BY <1>1, <2>1 DEF CreateRequest, TypeOK
  <2>3. QED
    BY <2>2
<1>6. QED
  BY <1>3, <1>4, <1>5

-------------------------------------------------------------------------------
(* The theorems.                                                           *)

LEMMA NextKeeps ==
    ASSUME IInv, Next
    PROVE  TypeOK' /\ Kept
<1>1. CASE Environment
  BY <1>1, EnvironmentTyped, EnvironmentKeeps DEF IInv
<1>2. ASSUME NEW p \in Procs, Call(p)
      PROVE  TypeOK' /\ Kept
  BY <1>2, CallTyped, CallKeeps DEF IInv
<1>3. ASSUME NEW p \in Procs, Step(p)
      PROVE  TypeOK' /\ Kept
  BY <1>3, StepTyped, StepKeeps DEF IInv
<1>4. QED
  BY <1>1, <1>2, <1>3 DEF Next

\* The inductive invariant: types, what every handler knows of the tables, and that
\* proofs and approvals are backed.
THEOREM Invariance == Spec => []IInv
<1>1. Init => IInv
  <2>1. Init => \A p \in Procs : LocalsOK(p)
    BY DEF Init, Idle, LocalsOK, GenOK, AskOK, RespondOK, Generating, Verifying, Responding,
       Deciding, Approving, At
  <2>2. Init => ProofsBacked /\ ApprovalIsBacked
    BY DEF Init, ProofsBacked, ApprovalIsBacked, Stored, Created
  <2>3. QED
    BY <2>1, <2>2, InitTyped DEF IInv
<1>2. IInv /\ [Next]_vars => IInv'
  <2> SUFFICES ASSUME IInv, [Next]_vars PROVE IInv'
    OBVIOUS
  <2>1. CASE UNCHANGED vars
    BY <2>1 DEF IInv, vars, tables, ledgerVars, TypeOK, LedgerTypeOK, LocalsOK, GenOK, AskOK,
       RespondOK, Generating, Verifying, Responding, Deciding, Approving, At, RevokedCred,
       IssuedTo, Answers, Stored, Created, ProofsBacked, ApprovalIsBacked
  <2>2. CASE Next
    <3>1. TypeOK' /\ Kept
      BY <2>2, NextKeeps
    <3>2. ProofsBacked'
      BY <2>2, <3>1, ProofsStep
    <3>3. QED
      BY <2>2, <3>1, <3>2, LocalsStep, ApprovalStep DEF IInv
  <2>3. QED
    BY <2>1, <2>2
<1>3. QED
  BY <1>1, <1>2, PTL DEF Spec

\* Tables and handlers hold values of their types.
THEOREM TypeCorrect == Spec => []TypeOK
<1>1. IInv => TypeOK
  BY DEF IInv
<1>2. QED
  BY <1>1, Invariance, PTL

\* An approved request names a proof that answers it, of its subject's own credential
\* (proof.controller.ts respondToRequest).
THEOREM ApprovalsBacked == Spec => []ApprovalIsBacked
<1>1. IInv => ApprovalIsBacked
  BY DEF IInv
<1>2. QED
  BY <1>1, Invariance, PTL

\* An approval is of a response that arrived before the request expired
\* (proof.controller.ts:145).
THEOREM ApprovalsInTime == Spec => ApprovedInTime
<1>1. IInv /\ [Next]_vars =>
        [\A r \in RequestIds :
           Created(r) /\ preq'[r] # preq[r] /\ preq'[r].status = "APPROVED" =>
             \E p \in Procs : /\ req[p].pc = "respondApprove"
                              /\ req[p].request = r
                              /\ req[p].since <= preq[r].expiresAt]_vars
  <2> SUFFICES ASSUME IInv, [Next]_vars, NEW r \in RequestIds, Created(r),
                      preq'[r] # preq[r], preq'[r].status = "APPROVED"
               PROVE  \E p \in Procs : /\ req[p].pc = "respondApprove"
                                       /\ req[p].request = r
                                       /\ req[p].since <= preq[r].expiresAt
    OBVIOUS
  <2>1. PICK p \in Procs : Decides(p, r)
    BY WhoDecides DEF IInv
  <2>2. QED
    BY <2>1, Approval DEF Decides, At
<1>2. QED
  BY <1>1, Invariance, PTL DEF Spec, ApprovedInTime

\* A response to a request that was decided when it arrived changes no row
\* (proof.controller.ts:142).
THEOREM LateResponses == Spec => LateResponseChangesNothing
<1>1. IInv /\ [Next]_vars =>
        [\A r \in RequestIds : Created(r) /\ preq'[r] # preq[r] =>
           \E p \in Procs : req[p].request = r /\ req[p].open /\ req'[p] = Idle]_vars
  <2> SUFFICES ASSUME IInv, [Next]_vars, NEW r \in RequestIds, Created(r),
                      preq'[r] # preq[r]
               PROVE  \E p \in Procs : req[p].request = r /\ req[p].open /\ req'[p] = Idle
    OBVIOUS
  <2>1. PICK p \in Procs : Decides(p, r)
    BY WhoDecides DEF IInv
  <2>2. req'[p] = Idle
    BY <2>1 DEF Decides, RespondExpire, RespondReject, RespondApprove, Reply, IInv, TypeOK
  <2>3. req[p].open
    BY <2>1 DEF Decides, RespondExpire, RespondReject, RespondApprove, IInv, LocalsOK,
       RespondOK, Responding, Deciding, Approving, At
  <2>4. QED
    BY <2>1, <2>2, <2>3 DEF Decides
<1>2. QED
  BY <1>1, Invariance, PTL DEF Spec, LateResponseChangesNothing

\* No request to prove that arrived after the revocation ends in a proof
\* (proof.service.ts:50-54).
THEOREM NoLateProof == Spec => NoProofAfterRevocation
<1>1. IInv /\ [Next]_vars =>
        [\A z \in ProofIds : ~Stored(z) /\ Stored(z)' =>
           \E p \in Procs : /\ req[p].pc = "genCreate"
                            /\ req[p].open
                            /\ req[p].cred = proof'[z].cred]_vars
  <2> SUFFICES ASSUME IInv, [Next]_vars, NEW z \in ProofIds, ~Stored(z), Stored(z)'
               PROVE  \E p \in Procs : /\ req[p].pc = "genCreate"
                                       /\ req[p].open
                                       /\ req[p].cred = proof'[z].cred
    OBVIOUS
  <2>1. proof'[z] # proof[z] /\ Next
    BY DEF Stored, vars, tables
  <2>2. PICK p \in Procs : GenCreate(p, z)
    BY <2>1, WhoProves DEF IInv
  <2>3. proof'[z].cred = req[p].cred /\ req[p].pc = "genCreate"
    BY <2>2 DEF GenCreate, At, IInv, TypeOK
  <2>4. req[p].open
    BY <2>3 DEF IInv, LocalsOK, GenOK, Generating, At
  <2>5. QED
    BY <2>3, <2>4
<1>2. QED
  BY <1>1, Invariance, PTL DEF Spec, NoProofAfterRevocation

-------------------------------------------------------------------------------
(* Decisions, when the responses to a request do not overlap.              *)

\* At most one handler at a time is between the status check of a request and the update
\* of its row (proof.controller.ts:142-170).  The code does nothing to ensure it.
OneAtATime ==
    \A p, q \in Procs :
        p # q /\ Deciding(p) /\ Deciding(q) => req[p].request # req[q].request

\* A handler past the check then still finds what it has read.
PendingOK(p) == Deciding(p) => preq[req[p].request].status = "PENDING"

FinalInv == IInv /\ \A p \in Procs : PendingOK(p)

\* The row a step changes is the one that its own handler decides or inserts.
LEMMA OtherRowsStay ==
    ASSUME TypeOK, \A p \in Procs : LocalsOK(p), OneAtATime, [Next]_vars,
           NEW q \in Procs, Deciding(q), req'[q] = req[q]
    PROVE  preq'[req[q].request] = preq[req[q].request]
<1> DEFINE r == req[q].request
<1>1. r \in RequestIds /\ Created(r)
  BY DEF LocalsOK, RespondOK, Responding
<1>2. SUFFICES ASSUME preq'[r] # preq[r] PROVE FALSE
  OBVIOUS
<1>3. PICK p \in Procs : Decides(p, r)
  BY <1>1, <1>2, WhoDecides
<1>4. Deciding(p) /\ req[p].request = r
  BY <1>3 DEF Decides, RespondExpire, RespondReject, RespondApprove, Deciding, Approving, At
<1>5. p = q
  BY <1>4 DEF OneAtATime
<1>6. req'[p].pc = "idle"
  BY <1>3 DEF Decides, RespondExpire, RespondReject, RespondApprove, Reply, Idle, TypeOK
<1>7. QED
  BY <1>5, <1>6 DEF Deciding, Approving

\* A handler passes the check only with a pending request.
LEMMA PassesPending ==
    ASSUME TypeOK, NEW q \in Procs, Call(q) \/ Step(q), Deciding(q)'
    PROVE  \/ Deciding(q) /\ req'[q].request = req[q].request /\ preq' = preq
           \/ /\ req'[q].request = req[q].request /\ preq' = preq
              /\ preq[req[q].request].status = "PENDING"
<1> USE DEF Deciding, Approving, At, TypeOK
<1>1. CASE Call(q)
  <2>1. req'[q].pc \in {"genFind", "verifyFind", "requestCreate", "respondFind"}
    <3>1. ASSUME NEW r \in {"genFind", "verifyFind", "requestCreate", "respondFind"},
                 NEW x, req' = [req EXCEPT ![q] = x], x.pc = r
          PROVE  req'[q].pc = r
      BY <3>1
    <3>2. CASE \E u \in Users, c \in Ids, k \in Circuits : Generate(q, u, c, k)
      BY <3>1, <3>2 DEF Generate, Idle
    <3>3. CASE \E u \in Users, z \in ProofIds : Verify(q, u, z)
      BY <3>1, <3>3 DEF Verify, Idle
    <3>4. CASE \E u \in Users, k \in Circuits, e \in Times : AskForProof(q, u, k, e)
      BY <3>1, <3>4 DEF AskForProof, Idle
    <3>5. CASE \E u \in Users, r \in RequestIds, z \in ProofIds \cup {Absent} :
                 Respond(q, u, r, z)
      BY <3>1, <3>5 DEF Respond, Idle
    <3>6. QED
      BY <1>1, <3>2, <3>3, <3>4, <3>5 DEF Call
  <2>2. QED
    BY <2>1
<1>2. ASSUME Reply(q) PROVE FALSE
  BY <1>2 DEF Reply, Idle
<1>3. ASSUME NEW pc \in PCs, Goto(q, pc)
      PROVE  req'[q].request = req[q].request /\ req'[q].pc = pc
  BY <1>3 DEF Goto, Requests
<1>4. CASE GenFind(q) \/ VerifyFind(q)
  BY <1>2, <1>3, <1>4 DEF GenFind, VerifyFind, PCs
<1>5. CASE RespondFind(q)
  BY <1>2, <1>3, <1>5 DEF RespondFind, PCs, tables
<1>6. CASE RespondProof(q) \/ RespondDid(q)
  BY <1>2, <1>3, <1>6 DEF RespondProof, RespondDid, PCs, tables
<1>7. QED
  BY <1>1, <1>2, <1>4, <1>5, <1>6 DEF Step, GenCreate, VerifyCreate, CreateRequest,
     RespondExpire, RespondApprove, RespondReject

LEMMA PendingStep ==
    ASSUME FinalInv, OneAtATime, [Next]_vars
    PROVE  \A q \in Procs : PendingOK(q)'
<1> SUFFICES ASSUME NEW q \in Procs, Deciding(q)'
             PROVE  preq'[req'[q].request].status = "PENDING"
  BY DEF PendingOK
<1>1. CASE req'[q] = req[q]
  <2>1. Deciding(q)
    BY <1>1 DEF Deciding, Approving
  <2>2. preq'[req[q].request] = preq[req[q].request]
    BY <1>1, <2>1, OtherRowsStay DEF FinalInv, IInv
  <2>3. QED
    BY <1>1, <2>1, <2>2 DEF FinalInv, PendingOK
<1>2. ASSUME NEW p \in Procs, Call(p) \/ Step(p)
      PROVE  preq'[req'[q].request].status = "PENDING"
  <2>1. CASE p # q
    BY <1>1, <1>2, <2>1, OneHandler DEF FinalInv, IInv
  <2>2. CASE p = q
    BY <1>2, <2>2, PassesPending DEF FinalInv, IInv, PendingOK
  <2>3. QED
    BY <2>1, <2>2
<1>3. CASE Restart
  BY <1>3 DEF Restart, Idle, Deciding, Approving
<1>4. CASE UNCHANGED vars \/ (Environment /\ ~Restart)
  BY <1>1, <1>4 DEF Environment, CreateDID, Issue, Revoke, Tick, vars
<1>5. QED
  BY <1>2, <1>3, <1>4 DEF Next

\* A decision is final as long as the responses to one request do not overlap: two of
\* them between the check and the update are what it takes for the run that refutes
\* DecisionIsFinal, and restarts, late answers and the clock are not enough
\* (proof.controller.ts:142-170).
THEOREM FinalUnlessConcurrent == Spec /\ []OneAtATime => DecisionIsFinal
<1>1. Init => \A p \in Procs : PendingOK(p)
  BY DEF Init, Idle, PendingOK, Deciding, Approving
<1>2. (\A p \in Procs : PendingOK(p)) /\ IInv /\ OneAtATime /\ [Next]_vars
        => (\A p \in Procs : PendingOK(p))'
  BY PendingStep DEF FinalInv
<1>3. IInv /\ (\A p \in Procs : PendingOK(p)) /\ [Next]_vars =>
        [\A r \in RequestIds : Created(r) /\ preq[r].status # "PENDING" =>
           preq'[r].status = preq[r].status]_vars
  <2> SUFFICES ASSUME IInv, \A p \in Procs : PendingOK(p), [Next]_vars,
                      NEW r \in RequestIds, Created(r), preq[r].status # "PENDING",
                      preq'[r] # preq[r]
               PROVE  FALSE
    OBVIOUS
  <2>1. PICK p \in Procs : Decides(p, r)
    BY WhoDecides DEF IInv
  <2>2. Deciding(p)
    BY <2>1 DEF Decides, RespondExpire, RespondReject, RespondApprove, Deciding, Approving, At
  <2>3. QED
    BY <2>1, <2>2 DEF Decides, PendingOK
<1>4. QED
  BY <1>1, <1>2, <1>3, Invariance, PTL DEF Spec, DecisionIsFinal
===============================================================================
