--------------------------- MODULE CredentialsProofs ---------------------------
(***************************************************************************)
(* Proofs about Credentials, for every set of users, issuers, credential   *)
(* ids, claims, expiry dates and request slots and every bound on the      *)
(* clock: types and safety, the refinement of CredentialLedger, and that a *)
(* registry submission that was given up on is never made again.           *)
(***************************************************************************)
EXTENDS Credentials, TLAPS

IssuingPCs == {"upsertIssuer", "findIssuer", "isRegistered", "createCred"}

\* p is on its way to insert the row req[p].cred.
Issuing(p) == req[p].op = "selfIssue" /\ req[p].pc \in IssuePCs

(***************************************************************************)
(* What the handlers know of the tables from one await to the next.  None  *)
(* of it is in TypeOK, and every safety property rests on some of it: what *)
(* was read before an await still holds after it because DIDs, issuers'    *)
(* rows and revocations are never taken back.                              *)
(***************************************************************************)
LocalsOK(p) ==
    /\ req[p].pc \in IssuePCs =>
         req[p].user \in Users /\ req[p].op \in {"createDID", "selfIssue"}
    /\ req[p].pc \in IssuingPCs \cup {"didReread"} =>
         req[p].op = "selfIssue" /\ req[p].user \in did
    /\ Issuing(p) => /\ req[p].cred \in CredIds
                     /\ req[p].claims \in Claims
                     /\ ~Issued(req[p].cred)
    /\ req[p].pc \in {"findIssuer", "isRegistered", "createCred"} =>
         req[p].issuer \in Issuers /\ issuer[req[p].issuer] # "absent"
    /\ req[p].pc = "createCred" => req[p].at \in Times
    /\ req[p].pc = "deactUpdate" =>
         req[p].issuer \in Issuers /\ issuer[req[p].issuer] # "absent"
    /\ req[p].pc = "revokeFind" => req[p].cred \in CredIds /\ req[p].user \in Users
    /\ req[p].pc \in {"revokeUpdate", "revokeSubmit", "revokeWait"} =>
         /\ req[p].cred \in CredIds
         /\ Issued(req[p].cred)
         /\ cred[req[p].cred].issuer = req[p].user
    /\ req[p].pc \in {"revokeSubmit", "revokeWait"} => IsRevoked(req[p].cred)

VerifyOK(p) ==
    /\ req[p].pc \in {"verifyFind", "verifyChain"} =>
         req[p].cred \in CredIds /\ Issued(req[p].cred)
    /\ req[p].pc = "verifyFind" /\ req[p].before => IsRevoked(req[p].cred)
    /\ req[p].pc = "verifyChain" => ~req[p].before
    /\ req[p].pc = "replied" /\ req[p].op = "verify" =>
         /\ req[p].cred \in CredIds
         /\ req[p].outcome = "valid" => ~req[p].before
         /\ req[p].outcome = "revoked" => IsRevoked(req[p].cred)
    /\ req[p].pc # "replied" => req[p].outcome = None
    /\ req[p].pc \in {"verifyFind", "verifyChain"} <=>
         req[p].op = "verify" /\ req[p].pc # "replied"

\* Two issuances in progress never hold the same uuid.
DistinctIds ==
    \A p, q \in Procs :
        p # q /\ Issuing(p) /\ Issuing(q) => req[p].cred # req[q].cred

\* The unique index on credentialHash.
UniqueHashes ==
    \A c, d \in CredIds :
        Issued(c) /\ Issued(d) /\ cred[c].hash = cred[d].hash => c = d

\* A hash on the chain, or on its way there, is that of a revoked credential.
HashBacked(h) == \E c \in CredIds : IsRevoked(c) /\ cred[c].hash = h

ChainBacked == \A h \in revoked \cup txs : HashBacked(h)

IInv ==
    /\ TypeOK
    /\ \A p \in Procs : LocalsOK(p)
    /\ \A p \in Procs : VerifyOK(p)
    /\ DistinctIds
    /\ UniqueHashes
    /\ ChainBacked
    /\ SubjectAndIssuerExist

-------------------------------------------------------------------------------
(* Type correctness *)

\* A hash taken from the locals of a handler about to insert is a hash.
LEMMA HashTyped ==
    ASSUME NEW p \in Procs, TypeOK, LocalsOK(p), At(p, "createCred")
    PROVE  /\ HashOf(p) \in Hashes
           /\ req[p].cred \in CredIds
           /\ req[p].user \in Users
           /\ req[p].issuer \in Issuers
BY DEF TypeOK, LocalsOK, At, HashOf, Hashes, IssuePCs, IssuingPCs, Issuing

LEMMA InitTyped == Init => TypeOK
BY CredentialsAssumption DEF Init, TypeOK, Times, Idle, Requests, PCs, IssuePCs, RevokePCs

LEMMA CallTyped ==
    ASSUME TypeOK, NEW p \in Procs, Call(p)
    PROVE  TypeOK'
<1> USE CredentialsAssumption DEF TypeOK, Requests, PCs, IssuePCs, RevokePCs, Arrive,
        database, chain
<1>1. ASSUME NEW r \in Requests, req' = [req EXCEPT ![p] = r],
             UNCHANGED <<now, database, chain, platform>>
      PROVE  TypeOK'
  BY <1>1
<1> HIDE DEF TypeOK
<1>2. ASSUME NEW u \in Users, CreateDID(p, u)
      PROVE  TypeOK'
  BY <1>1, <1>2 DEF CreateDID, Idle, AllOps
<1>3. ASSUME NEW u \in Users, NEW k \in Claims, NEW e \in Expiries \cup {None},
             NEW c \in CredIds, SelfIssue(p, u, k, e, c)
      PROVE  TypeOK'
  <2> DEFINE pc == IF u \in did THEN "upsertIssuer" ELSE "didFind"
             r == [Idle EXCEPT !.op = "selfIssue", !.user = u, !.claims = k,
                               !.expiresAt = e, !.cred = c, !.pc = pc]
  <2>1. pc \in PCs
    OBVIOUS
  <2>2. r \in Requests
    BY <2>1 DEF Idle, AllOps
  <2>3. QED
    BY <1>1, <1>3, <2>2 DEF SelfIssue
<1>4. ASSUME NEW u \in Users, NEW c \in CredIds, Revoke(p, u, c)
      PROVE  TypeOK'
  BY <1>1, <1>4 DEF Revoke, Idle, AllOps
<1>5. ASSUME NEW i \in Issuers, Deactivate(p, i)
      PROVE  TypeOK'
  <2> DEFINE pc == IF issuer[i] = "absent" THEN "replied" ELSE "deactUpdate"
             outcome == IF issuer[i] = "absent" THEN "notFound" ELSE None
             r == [Idle EXCEPT !.op = "deactivate", !.issuer = i,
                               !.pc = pc, !.outcome = outcome]
  <2>1. pc \in PCs /\ outcome \in Outcomes \cup {None}
    BY DEF Outcomes
  <2>2. r \in Requests
    BY <2>1 DEF Idle, AllOps
  <2>3. QED
    BY <1>1, <1>5, <2>2 DEF Deactivate
<1>6. ASSUME NEW c \in CredIds, NEW vc \in Presented, Verify(p, c, vc)
      PROVE  TypeOK'
  <2> DEFINE outcome == CASE Expired(c) -> "expired"
                          [] ~Expired(c) /\ ~Genuine(c, vc) -> "badSignature"
                          [] OTHER -> None
             pc == IF outcome = None THEN "verifyFind" ELSE "replied"
             r == [Idle EXCEPT !.op = "verify", !.cred = c, !.outcome = outcome,
                               !.pc = pc, !.before = IsRevoked(c)]
  <2>1. pc \in PCs /\ outcome \in Outcomes \cup {None}
    BY DEF Outcomes
  <2>2. IsRevoked(c) \in BOOLEAN
    BY DEF IsRevoked, Issued
  <2>3. r \in Requests
    BY <2>1, <2>2 DEF Idle, AllOps
  <2>4. QED
    BY <1>1, <1>6, <2>3 DEF Verify
<1>7. QED
  BY <1>2, <1>3, <1>4, <1>5, <1>6 DEF Call

\* A step of a handler that touches no table only moves the handler.
LEMMA MovesTyped ==
    ASSUME TypeOK, NEW p \in Procs, UNCHANGED <<now, database, chain, platform>>,
           \/ \E pc \in PCs : Goto(p, pc)
           \/ \E outcome \in Outcomes : Reply(p, outcome)
    PROVE  TypeOK'
BY DEF TypeOK, database, chain, Goto, Reply, Requests, PCs

LEMMA StepTyped ==
    ASSUME TypeOK, NEW p \in Procs, LocalsOK(p), Step(p)
    PROVE  TypeOK'
<1> USE DEF PCs, IssuePCs, RevokePCs, Outcomes
<1>1. CASE DidFind(p)
  BY <1>1, MovesTyped DEF DidFind
<1>2. CASE DidCreate(p)
  BY <1>2 DEF DidCreate, TypeOK, LocalsOK, At, Goto, Reply, Requests, chain
<1>3. CASE DidReread(p)
  BY <1>3, MovesTyped DEF DidReread
<1>4. CASE UpsertIssuer(p)
  BY <1>4 DEF UpsertIssuer, TypeOK, At, Requests, chain
<1>5. CASE FindIssuer(p)
  BY <1>5, MovesTyped DEF FindIssuer
<1>6. CASE IsRegistered(p)
  BY <1>6 DEF IsRegistered, TypeOK, At, Requests, chain, database
<1>7. CASE CreateCred(p)
  <2>1. CASE HashTaken(HashOf(p))
    BY <1>7, <2>1, MovesTyped DEF CreateCred, database
  <2>2. CASE ~HashTaken(HashOf(p))
    <3>1. [issuer |-> req[p].issuer, subject |-> req[p].user, hash |-> HashOf(p),
           expiresAt |-> req[p].expiresAt, status |-> "ACTIVE"] \in Rows
      <4>1. req[p].expiresAt \in Expiries \cup {None}
        BY DEF TypeOK, Requests
      <4>2. QED
        BY <1>7, <4>1, HashTyped DEF CreateCred, Rows
    <3>2. cred' \in [CredIds -> Rows \cup {None}]
      BY <1>7, <2>2, <3>1 DEF CreateCred, TypeOK
    <3>3. QED
      BY <1>7, <2>2, <3>2 DEF CreateCred, TypeOK, Reply, Requests, chain
  <2>3. QED
    BY <2>1, <2>2
<1>8. CASE DeactUpdate(p)
  <2>1. issuer' \in [Issuers -> {"absent", "active", "inactive"}]
    BY <1>8 DEF DeactUpdate, TypeOK
  <2>2. req' \in [Procs -> Requests]
    <3>1. req[p] \in Requests /\ req \in [Procs -> Requests]
      BY DEF TypeOK
    <3>2. [req[p] EXCEPT !.pc = "replied", !.outcome = "ok"] \in Requests
      BY <3>1 DEF Requests
    <3>3. QED
      BY <1>8, <3>1, <3>2 DEF DeactUpdate, Reply
  <2>3. QED
    BY <1>8, <2>1, <2>2 DEF DeactUpdate, TypeOK, chain
<1>9. CASE RevokeFind(p)
  BY <1>9, MovesTyped DEF RevokeFind
<1>10. CASE RevokeUpdate(p)
  <2>1. cred' \in [CredIds -> Rows \cup {None}]
    BY <1>10 DEF RevokeUpdate, TypeOK, LocalsOK, At, Issued, Rows
  <2>2. QED
    BY <1>10, <2>1 DEF RevokeUpdate, TypeOK, At, Goto, Requests, chain
<1>11. CASE RevokeSubmit(p)
  <2>1. cred[req[p].cred].hash \in Hashes
    BY <1>11 DEF RevokeSubmit, TypeOK, LocalsOK, At, Issued, Rows
  <2>2. QED
    BY <1>11, <2>1 DEF RevokeSubmit, TypeOK, At, Goto, Reply, Requests, database
<1>12. CASE RevokeWait(p)
  BY <1>12, MovesTyped DEF RevokeWait
<1>13. CASE VerifyFind(p)
  BY <1>13, MovesTyped DEF VerifyFind
<1>14. CASE VerifyChain(p)
  BY <1>14, MovesTyped DEF VerifyChain
<1>15. CASE Finish(p)
  BY <1>15 DEF Finish, TypeOK, Idle, Requests, chain, database
<1>16. QED
  BY <1>1, <1>2, <1>3, <1>4, <1>5, <1>6, <1>7, <1>8, <1>9, <1>10, <1>11, <1>12,
     <1>13, <1>14, <1>15 DEF Step

LEMMA EnvironmentTyped ==
    ASSUME TypeOK, \A p \in Procs : LocalsOK(p), Environment
    PROVE  TypeOK'
<1>1. ASSUME NEW h \in txs, TxLands(h) \/ TxExpires(h)
      PROVE  TypeOK'
  BY <1>1 DEF TxLands, TxExpires, TypeOK, database
<1>2. CASE Tick
  BY <1>2, CredentialsAssumption DEF Tick, TypeOK, Times, database, chain, Hashes, Rows, Requests
<1>3. CASE Restart
  BY <1>3 DEF Restart, TypeOK, Idle, Requests, PCs, database, chain
<1>4. ASSUME NEW p \in Procs, RevokeRetry(p)
      PROVE  TypeOK'
  <2>1. cred[req[p].cred].hash \in Hashes
    BY <1>4 DEF RevokeRetry, TypeOK, LocalsOK, At, Issued, Rows
  <2>2. QED
    BY <1>4, <2>1 DEF RevokeRetry, TypeOK, database
<1>5. QED
  BY <1>1, <1>2, <1>3, <1>4 DEF Environment

-------------------------------------------------------------------------------
(* What a step leaves alone *)

\* No row is ever taken back: DIDs, issuers' rows and credentials stay, and a
\* credential keeps its issuer, subject and hash and stays revoked.
Kept ==
    /\ did \subseteq did'
    /\ \A i \in Issuers : issuer[i] # "absent" => issuer'[i] # "absent"
    /\ \A c \in CredIds : Issued(c) =>
         /\ Issued(c)'
         /\ cred'[c].issuer = cred[c].issuer
         /\ cred'[c].subject = cred[c].subject
         /\ cred'[c].hash = cred[c].hash
         /\ IsRevoked(c) => IsRevoked(c)'

\* A row appears under c only by the step that p, about to insert c, takes.
Inserts(p) == \A c \in CredIds :
    ~Issued(c) /\ Issued(c)' => At(p, "createCred") /\ req[p].cred = c

LEMMA SameTables ==
    ASSUME UNCHANGED database
    PROVE  Kept /\ \A p \in Procs : Inserts(p)
BY DEF database, Kept, Inserts, Issued, IsRevoked

LEMMA CallKept ==
    ASSUME NEW p \in Procs, Call(p)
    PROVE  UNCHANGED <<now, database, chain, platform>>
BY DEF Call, CreateDID, SelfIssue, Revoke, Deactivate, Verify

LEMMA StepKept ==
    ASSUME TypeOK, NEW p \in Procs, LocalsOK(p), Step(p)
    PROVE  Kept /\ Inserts(p)
<1>1. CASE UNCHANGED database
  BY <1>1, SameTables
<1>2. CASE DidCreate(p)
  BY <1>2 DEF DidCreate, Kept, Inserts, Issued, IsRevoked
<1>3. CASE UpsertIssuer(p)
  BY <1>3 DEF UpsertIssuer, TypeOK, Kept, Inserts, Issued, IsRevoked
<1>4. CASE CreateCred(p)
  <2>1. CASE UNCHANGED cred
    BY <1>4, <2>1, SameTables DEF CreateCred, database
  <2>2. CASE ~UNCHANGED cred
    <3> DEFINE row == [issuer |-> req[p].issuer, subject |-> req[p].user,
                       hash |-> HashOf(p), expiresAt |-> req[p].expiresAt,
                       status |-> "ACTIVE"]
    <3>1. req[p].cred \in CredIds /\ ~Issued(req[p].cred)
      BY <1>4 DEF CreateCred, At, LocalsOK, Issuing, IssuePCs, IssuingPCs
    <3>2. cred' = [cred EXCEPT ![req[p].cred] = row]
      BY <1>4, <2>2 DEF CreateCred
    <3>3. \A c \in CredIds \ {req[p].cred} : cred'[c] = cred[c]
      BY <3>1, <3>2 DEF TypeOK
    <3>4. QED
      BY <1>4, <3>1, <3>3 DEF CreateCred, Kept, Inserts, Issued, IsRevoked
  <2>3. QED
    BY <2>1, <2>2
<1>5. CASE DeactUpdate(p)
  BY <1>5 DEF DeactUpdate, TypeOK, Kept, Inserts, Issued, IsRevoked
<1>6. CASE RevokeUpdate(p)
  <2>0. PICK c \in CredIds : c = req[p].cred
    BY <1>6 DEF RevokeUpdate, At, LocalsOK
  <2>1. cred[c] \in Rows
    BY <1>6, <2>0 DEF RevokeUpdate, At, LocalsOK, Issued, TypeOK
  <2>2. cred' = [cred EXCEPT ![c] = [cred[c] EXCEPT !.status = "REVOKED"]]
    BY <1>6, <2>0 DEF RevokeUpdate
  <2>3. /\ \A d \in CredIds \ {c} : cred'[d] = cred[d]
        /\ cred'[c] \in Rows
        /\ cred'[c].issuer = cred[c].issuer
        /\ cred'[c].subject = cred[c].subject
        /\ cred'[c].hash = cred[c].hash
        /\ cred'[c].status = "REVOKED"
    BY <2>1, <2>2 DEF TypeOK, Rows
  <2>4. Issued(c) /\ Issued(c)'
    BY <2>1, <2>3, CredentialsAssumption DEF Issued
  <2>5. QED
    BY <1>6, <2>1, <2>3, <2>4 DEF RevokeUpdate, Kept, Inserts, Issued, IsRevoked
<1>7. QED
  BY <1>1, <1>2, <1>3, <1>4, <1>5, <1>6
     DEF Step, DidFind, DidReread, FindIssuer, IsRegistered, RevokeFind, RevokeSubmit,
         RevokeWait, VerifyFind, VerifyChain, Finish, database

LEMMA EnvironmentKept ==
    ASSUME Environment
    PROVE  UNCHANGED database
BY DEF Environment, RevokeRetry, TxLands, TxExpires, Tick, Restart

\* A request's step leaves the other requests where they are.
LEMMA OthersUntouched ==
    ASSUME TypeOK, NEW p \in Procs, Call(p) \/ Step(p), NEW q \in Procs, q # p
    PROVE  req'[q] = req[q]
<1>1. ASSUME NEW r, Arrive(p, r)
      PROVE  req'[q] = req[q]
  BY <1>1 DEF Arrive, TypeOK
<1>2. ASSUME NEW pc, Goto(p, pc)
      PROVE  req'[q] = req[q]
  BY <1>2 DEF Goto, TypeOK
<1>3. ASSUME NEW outcome, Reply(p, outcome)
      PROVE  req'[q] = req[q]
  BY <1>3 DEF Reply, TypeOK
<1>4. CASE Call(p)
  BY <1>1, <1>4 DEF Call, CreateDID, SelfIssue, Revoke, Deactivate, Verify
<1>5. CASE DidFind(p) \/ DidCreate(p) \/ DidReread(p) \/ FindIssuer(p) \/ CreateCred(p)
  <2>1. CASE DidFind(p) \/ DidReread(p) \/ FindIssuer(p)
    BY <1>2, <1>3, <2>1 DEF DidFind, DidReread, FindIssuer
  <2>2. CASE DidCreate(p)
    BY <1>2, <1>3, <2>2 DEF DidCreate
  <2>3. CASE CreateCred(p)
    BY <1>3, <2>3 DEF CreateCred
  <2>4. QED
    BY <1>5, <2>1, <2>2, <2>3
<1>6. CASE UpsertIssuer(p) \/ IsRegistered(p) \/ Finish(p)
  BY <1>6 DEF UpsertIssuer, IsRegistered, Finish, TypeOK
<1>7. CASE DeactUpdate(p) \/ RevokeFind(p) \/ RevokeUpdate(p) \/ RevokeSubmit(p)
             \/ RevokeWait(p)
  <2>1. CASE RevokeFind(p)
    BY <1>2, <1>3, <2>1 DEF RevokeFind
  <2>2. CASE DeactUpdate(p) \/ RevokeUpdate(p) \/ RevokeSubmit(p) \/ RevokeWait(p)
    BY <1>2, <1>3, <2>2 DEF DeactUpdate, RevokeUpdate, RevokeSubmit, RevokeWait
  <2>3. QED
    BY <1>7, <2>1, <2>2
<1>8. CASE VerifyFind(p) \/ VerifyChain(p)
  BY <1>2, <1>3, <1>8 DEF VerifyFind, VerifyChain
<1>9. QED
  BY <1>4, <1>5, <1>6, <1>7, <1>8 DEF Step

-------------------------------------------------------------------------------
(* What a handler knows *)

LEMMA LocalsFrame ==
    ASSUME NEW q \in Procs, LocalsOK(q), Kept, req'[q] = req[q],
           Issuing(q) => ~Issued(req[q].cred)'
    PROVE  LocalsOK(q)'
BY DEF LocalsOK, Kept, Issuing, Issued, IsRevoked, IssuePCs, IssuingPCs

LEMMA LocalsCall ==
    ASSUME TypeOK, NEW p \in Procs, Call(p)
    PROVE  LocalsOK(p)'
<1> USE CallKept DEF TypeOK, Arrive, Idle, LocalsOK, Issuing, IssuePCs, IssuingPCs,
        database, Issued, IsRevoked
<1>1. ASSUME NEW u \in Users, CreateDID(p, u)
      PROVE  LocalsOK(p)'
  BY <1>1 DEF CreateDID
<1>2. ASSUME NEW u \in Users, NEW k \in Claims, NEW e \in Expiries \cup {None},
             NEW c \in CredIds, SelfIssue(p, u, k, e, c)
      PROVE  LocalsOK(p)'
  BY <1>2 DEF SelfIssue, Unused
<1>3. ASSUME NEW u \in Users, NEW c \in CredIds, Revoke(p, u, c)
      PROVE  LocalsOK(p)'
  BY <1>3 DEF Revoke
<1>4. ASSUME NEW i \in Issuers, Deactivate(p, i)
      PROVE  LocalsOK(p)'
  BY <1>4 DEF Deactivate
<1>5. ASSUME NEW c \in CredIds, NEW vc \in Presented, Verify(p, c, vc)
      PROVE  LocalsOK(p)'
  BY <1>5 DEF Verify
<1>6. QED
  BY <1>1, <1>2, <1>3, <1>4, <1>5 DEF Call

\* What Goto and Reply do to the local variables.
LEMMA Moved ==
    ASSUME TypeOK, NEW p \in Procs
    PROVE  /\ \A pc : Goto(p, pc) =>
                /\ req'[p].pc = pc
                /\ req'[p].op = req[p].op /\ req'[p].user = req[p].user
                /\ req'[p].issuer = req[p].issuer /\ req'[p].cred = req[p].cred
                /\ req'[p].claims = req[p].claims /\ req'[p].at = req[p].at
                /\ req'[p].outcome = req[p].outcome /\ req'[p].before = req[p].before
           /\ \A outcome : Reply(p, outcome) =>
                /\ req'[p].pc = "replied" /\ req'[p].outcome = outcome
                /\ req'[p].op = req[p].op /\ req'[p].cred = req[p].cred
                /\ req'[p].before = req[p].before
BY DEF TypeOK, Requests, Goto, Reply

LEMMA LocalsStep ==
    ASSUME TypeOK, NEW p \in Procs, LocalsOK(p), Step(p)
    PROVE  LocalsOK(p)'
<1> USE DEF At
<1>1. ASSUME req'[p].pc \in {"replied", "idle"}
      PROVE  LocalsOK(p)'
  BY <1>1 DEF LocalsOK, Issuing, IssuePCs, IssuingPCs
<1>2. CASE DidFind(p)
  BY <1>1, <1>2, Moved DEF DidFind, LocalsOK, Issuing, IssuePCs, IssuingPCs, Issued, database
<1>3. CASE DidCreate(p)
  BY <1>1, <1>3, Moved DEF DidCreate, LocalsOK, Issuing, IssuePCs, IssuingPCs, Issued
<1>4. CASE DidReread(p)
  BY <1>1, <1>4, Moved DEF DidReread, LocalsOK, Issuing, IssuePCs, IssuingPCs, Issued, database
<1>5. CASE UpsertIssuer(p)
  <2>1. /\ req'[p].pc = "findIssuer" /\ req'[p].issuer = platform
        /\ req'[p].op = req[p].op /\ req'[p].user = req[p].user
        /\ req'[p].cred = req[p].cred /\ req'[p].claims = req[p].claims
    BY <1>5 DEF UpsertIssuer, TypeOK, Requests
  <2>2. platform \in Issuers /\ issuer'[platform] = "active"
    BY <1>5 DEF UpsertIssuer, TypeOK
  <2>3. QED
    BY <1>5, <2>1, <2>2 DEF UpsertIssuer, LocalsOK, Issuing, IssuePCs, IssuingPCs, Issued
<1>6. CASE FindIssuer(p)
  BY <1>1, <1>6, Moved DEF FindIssuer, LocalsOK, Issuing, IssuePCs, IssuingPCs, Issued, database
<1>7. CASE IsRegistered(p)
  <2>1. /\ req'[p].pc = "createCred" /\ req'[p].at = now
        /\ req'[p].op = req[p].op /\ req'[p].user = req[p].user
        /\ req'[p].cred = req[p].cred /\ req'[p].claims = req[p].claims
        /\ req'[p].issuer = req[p].issuer
    BY <1>7 DEF IsRegistered, TypeOK, Requests
  <2>2. now \in Times
    BY DEF TypeOK
  <2>3. QED
    BY <1>7, <2>1, <2>2
       DEF IsRegistered, LocalsOK, Issuing, IssuePCs, IssuingPCs, Issued, database
<1>8. CASE CreateCred(p) \/ DeactUpdate(p) \/ RevokeWait(p) \/ VerifyChain(p)
  BY <1>1, <1>8, Moved DEF CreateCred, DeactUpdate, RevokeWait, VerifyChain
<1>9. CASE RevokeFind(p)
  BY <1>1, <1>9, Moved
     DEF RevokeFind, LocalsOK, Issuing, IssuePCs, IssuingPCs, Issued, IsRevoked, database
<1>10. CASE RevokeUpdate(p)
  <2>1. /\ req'[p].pc = "revokeSubmit" /\ req'[p].cred = req[p].cred
        /\ req'[p].user = req[p].user
    BY <1>10, Moved DEF RevokeUpdate
  <2>2. PICK c \in CredIds : c = req[p].cred
    BY <1>10 DEF RevokeUpdate, LocalsOK
  <2>3. cred[c] \in Rows /\ Issued(c) /\ cred[c].issuer = req[p].user
    BY <1>10, <2>2 DEF RevokeUpdate, LocalsOK, Issued, TypeOK
  <2>4. Issued(c)' /\ cred'[c].issuer = cred[c].issuer
    BY <1>10, <2>3, StepKept DEF Kept
  <2>5. cred'[c].status = "REVOKED"
    BY <1>10, <2>2, <2>3 DEF RevokeUpdate, TypeOK, Rows
  <2>6. QED
    BY <2>1, <2>2, <2>3, <2>4, <2>5
       DEF LocalsOK, Issuing, IssuePCs, IssuingPCs, Issued, IsRevoked
<1>11. CASE RevokeSubmit(p)
  BY <1>1, <1>11, Moved
     DEF RevokeSubmit, LocalsOK, Issuing, IssuePCs, IssuingPCs, Issued, IsRevoked, database
<1>12. CASE VerifyFind(p)
  BY <1>1, <1>12, Moved DEF VerifyFind, LocalsOK, Issuing, IssuePCs, IssuingPCs
<1>13. CASE Finish(p)
  BY <1>1, <1>13 DEF Finish, TypeOK, Idle
<1>14. QED
  BY <1>2, <1>3, <1>4, <1>5, <1>6, <1>7, <1>8, <1>9, <1>10, <1>11, <1>12, <1>13 DEF Step

-------------------------------------------------------------------------------
(* What a verification knows *)

LEMMA VerifyFrame ==
    ASSUME NEW q \in Procs, VerifyOK(q), Kept, req'[q] = req[q]
    PROVE  VerifyOK(q)'
BY DEF VerifyOK, Kept, Issued, IsRevoked

LEMMA VerifyCall ==
    ASSUME TypeOK, NEW p \in Procs, Call(p)
    PROVE  VerifyOK(p)'
<1> USE CallKept DEF TypeOK, Arrive, Idle, VerifyOK, database, Issued, IsRevoked
<1> USE CredentialsAssumption DEF AllOps, Outcomes
<1>1. ASSUME NEW u \in Users, CreateDID(p, u)
      PROVE  VerifyOK(p)'
  BY <1>1 DEF CreateDID
<1>2. ASSUME NEW u \in Users, NEW k \in Claims, NEW e \in Expiries \cup {None},
             NEW c \in CredIds, SelfIssue(p, u, k, e, c)
      PROVE  VerifyOK(p)'
  BY <1>2 DEF SelfIssue
<1>3. ASSUME NEW u \in Users, NEW c \in CredIds, Revoke(p, u, c)
      PROVE  VerifyOK(p)'
  BY <1>3 DEF Revoke
<1>4. ASSUME NEW i \in Issuers, Deactivate(p, i)
      PROVE  VerifyOK(p)'
  BY <1>4 DEF Deactivate
<1>5. ASSUME NEW c \in CredIds, NEW vc \in Presented, Verify(p, c, vc)
      PROVE  VerifyOK(p)'
  BY <1>5 DEF Verify
<1>6. QED
  BY <1>1, <1>2, <1>3, <1>4, <1>5 DEF Call

LEMMA VerifyStep ==
    ASSUME TypeOK, NEW p \in Procs, LocalsOK(p), VerifyOK(p), ChainBacked, UniqueHashes,
           Step(p)
    PROVE  VerifyOK(p)'
<1> USE DEF At
<1>1. ASSUME req[p].op # "verify", req'[p].op = req[p].op,
             req'[p].pc \notin {"verifyFind", "verifyChain"},
             req'[p].pc # "replied" => req'[p].outcome = None
      PROVE  VerifyOK(p)'
  BY <1>1 DEF VerifyOK
<1>2. CASE DidFind(p) \/ DidReread(p) \/ FindIssuer(p)
  BY <1>1, <1>2, Moved DEF DidFind, DidReread, FindIssuer, VerifyOK
<1>3. CASE DidCreate(p)
  BY <1>1, <1>3, Moved DEF DidCreate, VerifyOK
<1>4. CASE UpsertIssuer(p) \/ IsRegistered(p)
  BY <1>1, <1>4 DEF UpsertIssuer, IsRegistered, VerifyOK, TypeOK, Requests
<1>5. CASE CreateCred(p) \/ DeactUpdate(p)
  BY <1>1, <1>5, Moved DEF CreateCred, DeactUpdate, VerifyOK
<1>6. CASE RevokeFind(p)
  BY <1>1, <1>6, Moved DEF RevokeFind, VerifyOK
<1>7. CASE RevokeUpdate(p) \/ RevokeSubmit(p) \/ RevokeWait(p)
  BY <1>1, <1>7, Moved DEF RevokeUpdate, RevokeSubmit, RevokeWait, VerifyOK
<1>8. CASE VerifyFind(p)
  <2>1. UNCHANGED cred
    BY <1>8 DEF VerifyFind, database
  <2>2. CASE IsRevoked(req[p].cred)
    BY <1>8, <2>1, <2>2, Moved DEF VerifyFind, VerifyOK, Issued, IsRevoked
  <2>3. CASE ~IsRevoked(req[p].cred)
    BY <1>8, <2>1, <2>3, Moved DEF VerifyFind, VerifyOK, Issued, IsRevoked
  <2>4. QED
    BY <2>2, <2>3
<1>9. CASE VerifyChain(p)
  <2>1. UNCHANGED cred
    BY <1>9 DEF VerifyChain, database
  <2>2. CASE Reply(p, "valid")
    BY <1>9, <2>1, <2>2, Moved DEF VerifyChain, VerifyOK, Issued, IsRevoked
  <2>3. CASE Reply(p, "revoked") /\ cred[req[p].cred].hash \in revoked
    <3>1. req[p].cred \in CredIds /\ Issued(req[p].cred)
      BY <1>9 DEF VerifyChain, VerifyOK
    <3>2. IsRevoked(req[p].cred)
      BY <2>3, <3>1 DEF ChainBacked, HashBacked, UniqueHashes, IsRevoked
    <3>3. QED
      BY <1>9, <2>1, <2>3, <3>1, <3>2, Moved DEF VerifyChain, VerifyOK, Issued, IsRevoked
  <2>4. QED
    BY <1>9, <2>2, <2>3 DEF VerifyChain
<1>10. CASE Finish(p)
  BY <1>10, CredentialsAssumption DEF Finish, TypeOK, Idle, VerifyOK, AllOps
<1>11. QED
  BY <1>2, <1>3, <1>4, <1>5, <1>6, <1>7, <1>8, <1>9, <1>10 DEF Step

-------------------------------------------------------------------------------
(* What an insertion may rely on *)

\* A request that has just begun to issue holds a uuid nobody else holds.
LEMMA IssuingSince ==
    ASSUME TypeOK, NEW p \in Procs, Call(p) \/ Step(p), VerifyOK(p), Issuing(p)'
    PROVE  \/ Issuing(p) /\ req'[p].cred = req[p].cred
           \/ \A q \in Procs : req[q].cred # req'[p].cred
<1>1. CASE Call(p)
  <2>1. ASSUME NEW u \in Users, NEW k \in Claims, NEW e \in Expiries \cup {None},
               NEW c \in CredIds, SelfIssue(p, u, k, e, c)
        PROVE  \A q \in Procs : req[q].cred # req'[p].cred
    BY <2>1 DEF SelfIssue, Arrive, Unused, Idle, TypeOK
  <2>2. ASSUME NEW u \in Users,
               CreateDID(p, u) \/ \E c \in CredIds : Revoke(p, u, c)
        PROVE  FALSE
    <3>1. CASE CreateDID(p, u)
      <4>1. req'[p].op = "createDID"
        BY <3>1 DEF CreateDID, Arrive, Idle, TypeOK
      <4>2. QED
        BY <4>1 DEF Issuing
    <3>2. ASSUME NEW c \in CredIds, Revoke(p, u, c)
          PROVE  FALSE
      <4>1. req'[p].op = "revoke"
        BY <3>2 DEF Revoke, Arrive, Idle, TypeOK
      <4>2. QED
        BY <4>1 DEF Issuing
    <3>3. QED
      BY <2>2, <3>1, <3>2
  <2>3. ASSUME NEW i \in Issuers, Deactivate(p, i)
        PROVE  FALSE
    BY <2>3 DEF Deactivate, Arrive, Idle, TypeOK, Issuing
  <2>4. ASSUME NEW c \in CredIds, NEW vc \in Presented, Verify(p, c, vc)
        PROVE  FALSE
    BY <2>4 DEF Verify, Arrive, Idle, TypeOK, Issuing
  <2>5. QED
    BY <1>1, <2>1, <2>2, <2>3, <2>4 DEF Call
<1>2. CASE Step(p)
  <2> USE DEF At
  <2>1. req'[p].pc \notin {"replied", "idle"}
    BY DEF Issuing, IssuePCs
  <2>2. CASE DidFind(p) \/ DidReread(p) \/ FindIssuer(p)
    BY <2>1, <2>2, Moved DEF DidFind, DidReread, FindIssuer, Issuing, IssuePCs
  <2>3. CASE DidCreate(p)
    BY <2>1, <2>3, Moved DEF DidCreate, Issuing, IssuePCs
  <2>4. CASE UpsertIssuer(p) \/ IsRegistered(p)
    BY <2>4 DEF UpsertIssuer, IsRegistered, TypeOK, Requests, Issuing, IssuePCs
  <2>5. CASE CreateCred(p) \/ DeactUpdate(p) \/ RevokeWait(p) \/ VerifyChain(p)
    BY <2>1, <2>5, Moved DEF CreateCred, DeactUpdate, RevokeWait, VerifyChain
  <2>6. CASE RevokeFind(p)
    BY <2>1, <2>6, Moved DEF RevokeFind, Issuing, IssuePCs
  <2>7. CASE RevokeUpdate(p) \/ RevokeSubmit(p) \/ VerifyFind(p)
    BY <2>1, <2>7, Moved DEF RevokeUpdate, RevokeSubmit, VerifyFind, Issuing, IssuePCs
  <2>8. CASE Finish(p)
    BY <2>1, <2>8 DEF Finish, TypeOK, Idle
  <2>9. QED
    BY <1>2, <2>2, <2>3, <2>4, <2>5, <2>6, <2>7, <2>8 DEF Step
<1>3. QED
  BY <1>1, <1>2

\* The row a step inserts.
LEMMA Insertion ==
    ASSUME TypeOK, NEW p \in Procs, LocalsOK(p), Step(p),
           NEW c \in CredIds, ~Issued(c), Issued(c)'
    PROVE  /\ Issuing(p) /\ req[p].cred = c
           /\ ~HashTaken(HashOf(p)) /\ cred'[c].hash = HashOf(p)
           /\ cred'[c].subject \in did
           /\ cred'[c].issuer \in Issuers /\ issuer[cred'[c].issuer] # "absent"
<1>1. At(p, "createCred") /\ req[p].cred = c
  BY StepKept DEF Inserts
<1>2. CreateCred(p)
  BY <1>1 DEF Step, At, DidFind, DidCreate, DidReread, UpsertIssuer, FindIssuer, IsRegistered,
     DeactUpdate, RevokeFind, RevokeUpdate, RevokeSubmit, RevokeWait, VerifyFind, VerifyChain,
     Finish
<1>3. /\ ~HashTaken(HashOf(p))
      /\ cred' = [cred EXCEPT ![c] =
                    [issuer |-> req[p].issuer, subject |-> req[p].user,
                     hash |-> HashOf(p), expiresAt |-> req[p].expiresAt,
                     status |-> "ACTIVE"]]
  BY <1>1, <1>2 DEF CreateCred, Issued
<1>4. /\ cred'[c].hash = HashOf(p)
      /\ cred'[c].subject = req[p].user
      /\ cred'[c].issuer = req[p].issuer
  BY <1>3 DEF TypeOK
<1>5. QED
  BY <1>1, <1>3, <1>4 DEF LocalsOK, At, Issuing, IssuePCs, IssuingPCs

\* A hash goes out to the chain only from a handler whose credential is revoked.
LEMMA Submission ==
    ASSUME TypeOK, NEW p \in Procs, LocalsOK(p), Step(p), NEW h \in revoked' \cup txs',
           h \notin revoked \cup txs
    PROVE  HashBacked(h)
<1>1. CASE UNCHANGED chain
  BY <1>1 DEF chain
<1>2. CASE RevokeSubmit(p)
  <2>1. h = cred[req[p].cred].hash
    BY <1>2 DEF RevokeSubmit
  <2>2. req[p].cred \in CredIds /\ IsRevoked(req[p].cred)
    BY <1>2 DEF RevokeSubmit, At, LocalsOK
  <2>3. QED
    BY <2>1, <2>2 DEF HashBacked
<1>3. QED
  BY <1>1, <1>2
     DEF Step, DidFind, DidCreate, DidReread, UpsertIssuer, FindIssuer, IsRegistered,
         CreateCred, DeactUpdate, RevokeFind, RevokeUpdate, RevokeWait, VerifyFind,
         VerifyChain, Finish

-------------------------------------------------------------------------------
(* The inductive invariant *)

LEMMA InitInvariant == Init => IInv
<1> SUFFICES ASSUME Init
             PROVE  IInv
  OBVIOUS
<1>1. TypeOK
  BY InitTyped
<1>2. \A c \in CredIds : ~Issued(c)
  BY DEF Init, Issued
<1>3. \A p \in Procs : req[p].pc = "idle" /\ req[p].op = None /\ req[p].outcome = None
  BY DEF Init, Idle
<1>4. revoked \cup txs = {}
  BY DEF Init
<1>5. QED
  BY <1>1, <1>2, <1>3, <1>4, CredentialsAssumption
     DEF IInv, LocalsOK, VerifyOK, DistinctIds, Issuing, IssuePCs, IssuingPCs, UniqueHashes,
         ChainBacked, SubjectAndIssuerExist, AllOps

LEMMA EnvironmentInvariant ==
    ASSUME IInv, Environment
    PROVE  IInv'
<1>1. TypeOK'
  BY EnvironmentTyped DEF IInv
<1>2. UNCHANGED <<did, issuer, cred>>
  BY EnvironmentKept DEF database
<1>3. ChainBacked'
  <2>1. \A h \in revoked' \cup txs' : h \in revoked \cup txs \/ HashBacked(h)
    <3>1. ASSUME NEW p \in Procs, RevokeRetry(p)
          PROVE  HashBacked(cred[req[p].cred].hash)
      BY <3>1 DEF RevokeRetry, At, IInv, LocalsOK, HashBacked
    <3>2. QED
      BY <3>1 DEF Environment, RevokeRetry, TxLands, TxExpires, Tick, Restart, chain
  <2>2. \A h \in revoked' \cup txs' : HashBacked(h)
    BY <2>1 DEF IInv, ChainBacked
  <2>3. QED
    BY <1>2, <2>2 DEF ChainBacked, HashBacked, Issued, IsRevoked
<1>4. UniqueHashes' /\ SubjectAndIssuerExist'
  BY <1>2 DEF IInv, UniqueHashes, SubjectAndIssuerExist, Issued
<1>5. CASE UNCHANGED req
  BY <1>1, <1>2, <1>3, <1>4, <1>5
     DEF IInv, LocalsOK, VerifyOK, DistinctIds, Issuing, Issued, IsRevoked
<1>6. CASE Restart
  <2>1. \A p \in Procs :
          req'[p].pc = "idle" /\ req'[p].op = None /\ req'[p].outcome = None
    BY <1>6 DEF Restart, Idle
  <2>2. QED
    BY <1>1, <1>3, <1>4, <2>1, CredentialsAssumption
       DEF IInv, LocalsOK, VerifyOK, DistinctIds, Issuing, IssuePCs, IssuingPCs, AllOps
<1>7. QED
  BY <1>5, <1>6 DEF Environment, RevokeRetry, TxLands, TxExpires, Tick

LEMMA RequestInvariant ==
    ASSUME IInv, NEW p \in Procs, Call(p) \/ Step(p)
    PROVE  IInv'
<1> USE DEF IInv
<1>1. TypeOK'
  BY CallTyped, StepTyped
<1>2. Kept /\ (UNCHANGED <<database, chain>> \/ Step(p))
  BY CallKept, SameTables, StepKept
<1>3. \A c \in CredIds : ~Issued(c) /\ Issued(c)' => Step(p) /\ Issuing(p) /\ req[p].cred = c
  BY <1>2, Insertion DEF database, Issued
<1>4. LocalsOK(p)' /\ VerifyOK(p)'
  BY LocalsCall, LocalsStep, VerifyCall, VerifyStep
<1>5. ASSUME NEW q \in Procs, q # p
      PROVE  req'[q] = req[q] /\ LocalsOK(q)' /\ VerifyOK(q)'
  <2>1. req'[q] = req[q]
    BY <1>5, OthersUntouched
  <2>2. Issuing(q) => ~Issued(req[q].cred)'
    BY <1>3, <1>5, <2>1 DEF LocalsOK, DistinctIds
  <2>3. QED
    BY <1>2, <2>1, <2>2, LocalsFrame, VerifyFrame
<1>6. DistinctIds'
  <2>1. ASSUME NEW q \in Procs, q # p, Issuing(p)', Issuing(q)'
        PROVE  req'[p].cred # req'[q].cred
    <3>1. Issuing(q) /\ req'[q].cred = req[q].cred
      BY <1>5, <2>1 DEF Issuing
    <3>2. QED
      BY <2>1, <3>1, IssuingSince DEF DistinctIds
  <2>2. ASSUME NEW q \in Procs, NEW r \in Procs, q # p, r # p, q # r,
               Issuing(q)', Issuing(r)'
        PROVE  req'[q].cred # req'[r].cred
    BY <1>5, <2>2 DEF DistinctIds, Issuing
  <2>3. QED
    BY <2>1, <2>2 DEF DistinctIds
<1>7. UniqueHashes'
  <2>1. ASSUME NEW c \in CredIds, NEW d \in CredIds, ~Issued(c), Issued(c)', Issued(d)',
               cred'[c].hash = cred'[d].hash
        PROVE  c = d
    <3>1. CASE Issued(d)
      <4>1. ~HashTaken(HashOf(p)) /\ cred'[c].hash = HashOf(p)
        BY <1>3, <2>1, Insertion
      <4>2. cred'[d].hash = cred[d].hash
        BY <1>2, <3>1 DEF Kept
      <4>3. QED
        BY <2>1, <3>1, <4>1, <4>2 DEF HashTaken
    <3>2. CASE ~Issued(d)
      BY <1>3, <2>1, <3>2
    <3>3. QED
      BY <3>1, <3>2
  <2>2. ASSUME NEW c \in CredIds, NEW d \in CredIds, Issued(c), Issued(d),
               cred'[c].hash = cred'[d].hash
        PROVE  c = d
    BY <1>2, <2>2 DEF Kept, UniqueHashes
  <2>3. QED
    BY <2>1, <2>2 DEF UniqueHashes
<1>8. ChainBacked'
  <2>1. \A h : HashBacked(h) => HashBacked(h)'
    BY <1>2 DEF HashBacked, Kept, IsRevoked
  <2>2. \A h \in revoked' \cup txs' : HashBacked(h)
    BY <1>2, Submission DEF ChainBacked, chain
  <2>3. QED
    BY <2>1, <2>2 DEF ChainBacked
<1>9. SubjectAndIssuerExist'
  <2>1. ASSUME NEW c \in CredIds, Issued(c)'
        PROVE  cred'[c].subject \in did' /\ issuer'[cred'[c].issuer] # "absent"
    <3>1. CASE Issued(c)
      <4>1. cred[c].issuer \in Issuers
        BY <3>1 DEF Issued, TypeOK, Rows
      <4>2. QED
        BY <1>2, <3>1, <4>1 DEF SubjectAndIssuerExist, Kept
    <3>2. CASE ~Issued(c)
      <4>1. /\ cred'[c].subject \in did
            /\ cred'[c].issuer \in Issuers /\ issuer[cred'[c].issuer] # "absent"
        BY <1>3, <2>1, <3>2, Insertion
      <4>2. QED
        BY <1>2, <4>1 DEF Kept
    <3>3. QED
      BY <3>1, <3>2
  <2>2. QED
    BY <2>1 DEF SubjectAndIssuerExist
<1>10. QED
  BY <1>1, <1>4, <1>5, <1>6, <1>7, <1>8, <1>9

LEMMA StutterInvariant ==
    ASSUME IInv, UNCHANGED vars
    PROVE  IInv'
BY DEF vars, database, chain, IInv, TypeOK, LocalsOK, VerifyOK, DistinctIds, Issuing, Issued,
   IsRevoked, UniqueHashes, ChainBacked, HashBacked, SubjectAndIssuerExist

\* The tables, the handlers' locals and the chain agree in every reachable
\* state: the invariant the theorems below are read off.
THEOREM Invariance == Spec => []IInv
<1>1. IInv /\ [Next]_vars => IInv'
  BY EnvironmentInvariant, RequestInvariant, StutterInvariant DEF Next
<1>2. QED
  BY <1>1, InitInvariant, PTL DEF Spec

-------------------------------------------------------------------------------
(* The theorems *)

\* Tables, chain and locals hold values of their declared types: no column is
\* read before it is set, no handler inserts a row it has not filled.
THEOREM TypeCorrect == Spec => []TypeOK
<1>1. IInv => TypeOK
  BY DEF IInv
<1>2. QED
  BY <1>1, Invariance, PTL

\* However requests interleave and whenever transactions land, the revocation
\* registry never runs ahead of the database.
THEOREM ChainBehindDatabase == Spec => []ChainBackedByDatabase
<1>1. IInv => ChainBackedByDatabase
  BY DEF IInv, ChainBacked, HashBacked, UniqueHashes, ChainBackedByDatabase, IsRevoked
<1>2. QED
  BY <1>1, Invariance, PTL

\* No verification answers `valid' for a credential that was revoked in the
\* database before the verification arrived.
THEOREM NoStaleValid == Spec => []ValidMeansNotRevokedBefore
<1>1. IInv => ValidMeansNotRevokedBefore
  <2>1. ASSUME IInv, NEW p \in Procs, req[p].op = "verify", req[p].outcome = "valid"
        PROVE  ~req[p].before
    <3>1. VerifyOK(p)
      BY <2>1 DEF IInv
    <3>2. QED
      BY <2>1, <3>1, CredentialsAssumption DEF VerifyOK, Outcomes
  <2>2. QED
    BY <2>1 DEF ValidMeansNotRevokedBefore
<1>2. QED
  BY <1>1, Invariance, PTL

\* No verification answers `revoked' for a credential that was not revoked.
THEOREM RevokedIsRevoked == Spec => []RevokedAnswerIsTrue
<1>1. IInv => RevokedAnswerIsTrue
  <2>1. ASSUME IInv, NEW p \in Procs, req[p].op = "verify", req[p].outcome = "revoked"
        PROVE  IsRevoked(req[p].cred)
    <3>1. VerifyOK(p)
      BY <2>1 DEF IInv
    <3>2. QED
      BY <2>1, <3>1, CredentialsAssumption DEF VerifyOK, Outcomes
  <2>2. QED
    BY <2>1 DEF RevokedAnswerIsTrue
<1>2. QED
  BY <1>1, Invariance, PTL

\* Every credential's subject has a DID and its issuer a row, whatever the
\* interleaving of the requests that created them.
THEOREM PartiesExist == Spec => []SubjectAndIssuerExist
<1>1. IInv => SubjectAndIssuerExist
  BY DEF IInv
<1>2. QED
  BY <1>1, Invariance, PTL

\* A credential is revoked by the update step of its issuer's own request: owner
\* and status, read one await earlier, still hold.
THEOREM RevokedByIssuer == Spec => OnlyIssuerRevokes
<1>1. ASSUME IInv, [Next]_vars, NEW c \in CredIds, IsRevoked(c)', ~IsRevoked(c)
      PROVE  \E p \in Procs : /\ req[p].pc = "revokeUpdate"
                            /\ req[p].cred = c
                            /\ req[p].user = cred[c].issuer
  <2>1. ~UNCHANGED cred
    BY <1>1 DEF IsRevoked, Issued
  <2>2. PICK p \in Procs : Step(p)
    BY <1>1, <2>1, CallKept, EnvironmentKept DEF Next, vars, database
  <2>3. TypeOK /\ LocalsOK(p)
    BY <1>1 DEF IInv
  <2>4. CASE RevokeUpdate(p)
    <3>1. At(p, "revokeUpdate")
      BY <2>4 DEF RevokeUpdate
    <3>2. req[p].cred = c
      <4>1. c # req[p].cred => cred'[c] = cred[c]
        BY <2>3, <2>4 DEF RevokeUpdate, TypeOK
      <4>2. QED
        BY <1>1, <4>1 DEF IsRevoked, Issued
    <3>3. QED
      BY <2>3, <3>1, <3>2 DEF LocalsOK, At
  <2>5. CASE CreateCred(p)
    <3> DEFINE row == [issuer |-> req[p].issuer, subject |-> req[p].user,
                       hash |-> HashOf(p), expiresAt |-> req[p].expiresAt,
                       status |-> "ACTIVE"]
    <3>1. req[p].cred \in CredIds
      BY <2>3, <2>5, HashTyped DEF CreateCred
    <3>2. cred' = [cred EXCEPT ![req[p].cred] = row]
      BY <2>1, <2>5 DEF CreateCred
    <3>3. cred'[c] = cred[c] \/ cred'[c].status = "ACTIVE"
      BY <2>3, <3>1, <3>2 DEF TypeOK
    <3>4. QED
      BY <1>1, <3>3 DEF IsRevoked, Issued
  <2>6. QED
    BY <2>1, <2>2, <2>4, <2>5
       DEF Step, DidFind, DidCreate, DidReread, UpsertIssuer, FindIssuer, IsRegistered,
           DeactUpdate, RevokeFind, RevokeSubmit, RevokeWait, VerifyFind, VerifyChain,
           Finish, database
<1>2. IInv /\ [Next]_vars =>
        [\A c \in CredIds : IsRevoked(c)' /\ ~IsRevoked(c) =>
            \E p \in Procs : /\ req[p].pc = "revokeUpdate"
                             /\ req[p].cred = c
                             /\ req[p].user = cred[c].issuer]_vars
  BY <1>1
<1>3. QED
  BY <1>2, Invariance, PTL DEF Spec, OnlyIssuerRevokes

-------------------------------------------------------------------------------
(* Refinement *)

\* A function that differs from another in one point.
LEMMA PointChange ==
    ASSUME NEW S, NEW f, NEW g, NEW c \in S, NEW v,
           f = [d \in S |-> f[d]], g = [d \in S |-> g[d]],
           \A d \in S \ {c} : g[d] = f[d], g[c] = v
    PROVE  g = [f EXCEPT ![c] = v]
OBVIOUS

LEMMA ViewIsFunction ==
    /\ LedgerView = [c \in CredIds |-> LedgerView[c]]
    /\ LedgerView' = [c \in CredIds |-> LedgerView'[c]]
BY DEF LedgerView

LEMMA IssueRefines ==
    ASSUME IInv, NEW p \in Procs, CreateCred(p), ~UNCHANGED cred
    PROVE  Ledger!LedgerNext
<1> USE DEF IInv
<1> DEFINE row == [issuer |-> req[p].issuer, subject |-> req[p].user, hash |-> HashOf(p),
                   expiresAt |-> req[p].expiresAt, status |-> "ACTIVE"]
<1>1. PICK c \in CredIds : c = req[p].cred
  BY HashTyped DEF CreateCred
<1>2. PICK i \in Issuers, u \in Users : i = req[p].issuer /\ u = req[p].user
  BY HashTyped DEF CreateCred
<1>3. ~Issued(c) /\ ~HashTaken(HashOf(p)) /\ HashOf(p) \in Hashes
  BY <1>1, HashTyped DEF CreateCred, At, LocalsOK, Issuing, IssuePCs, IssuingPCs
<1>4. cred' = [cred EXCEPT ![c] = row] /\ UNCHANGED revoked
  BY <1>1 DEF CreateCred, chain
<1>5. /\ cred'[c] = row
      /\ \A d \in CredIds \ {c} : cred'[d] = cred[d]
  BY <1>4 DEF TypeOK
<1>6. row \in Rows /\ Issued(c)'
  <2>1. req[p].expiresAt \in Expiries \cup {None}
    BY DEF TypeOK, Requests
  <2>2. row \in Rows
    BY <2>1, <1>3, HashTyped DEF CreateCred, Rows
  <2>3. QED
    BY <2>2, <1>5, CredentialsAssumption DEF Issued
<1>7. LedgerView' = [LedgerView EXCEPT
                       ![c] = [issuer |-> i, subject |-> u, status |-> "ACTIVE"]]
  <2>1. \A d \in CredIds \ {c} : LedgerView'[d] = LedgerView[d]
    BY <1>5 DEF LedgerView, Issued
  <2>2. LedgerView'[c] = [issuer |-> i, subject |-> u, status |-> "ACTIVE"]
    BY <1>2, <1>5, <1>6 DEF LedgerView
  <2>3. QED
    BY <2>1, <2>2, ViewIsFunction, PointChange
<1>8. AnchoredView' = AnchoredView
  <2>1. HashOf(p) \notin revoked
    BY <1>3 DEF ChainBacked, HashBacked, HashTaken, IsRevoked
  <2>2. \A d \in CredIds : d \in AnchoredView' <=> d \in AnchoredView
    BY <1>3, <1>4, <1>5, <2>1 DEF AnchoredView, Issued
  <2>3. QED
    BY <2>2 DEF AnchoredView
<1>9. LedgerView[c] = None
  BY <1>3 DEF LedgerView
<1>10. Ledger!LedgerIssue(c, i, u)
  BY <1>7, <1>8, <1>9 DEF Ledger!LedgerIssue
<1>11. QED
  BY <1>10, CredentialsAssumption DEF Ledger!LedgerNext

\* Two revocations of one credential may both reach the update: the second
\* changes nothing a reader sees.
LEMMA RevokeRefines ==
    ASSUME IInv, NEW p \in Procs, RevokeUpdate(p)
    PROVE  Ledger!LedgerNext \/ UNCHANGED Ledger!ledgerVars
<1> USE DEF IInv
<1>1. PICK c \in CredIds : c = req[p].cred
  BY DEF RevokeUpdate, At, LocalsOK
<1>2. Issued(c) /\ cred[c] \in Rows
  BY <1>1 DEF RevokeUpdate, At, LocalsOK, Issued, TypeOK
<1>3. cred' = [cred EXCEPT ![c] = [cred[c] EXCEPT !.status = "REVOKED"]] /\ UNCHANGED revoked
  BY <1>1 DEF RevokeUpdate, chain
<1>4. /\ \A d \in CredIds \ {c} : cred'[d] = cred[d]
      /\ cred'[c] \in Rows
      /\ cred'[c].issuer = cred[c].issuer
      /\ cred'[c].subject = cred[c].subject
      /\ cred'[c].hash = cred[c].hash
      /\ cred'[c].status = "REVOKED"
  BY <1>2, <1>3 DEF TypeOK, Rows
<1>5. Issued(c)'
  BY <1>4, CredentialsAssumption DEF Issued
<1>6. AnchoredView' = AnchoredView
  <2>1. \A d \in CredIds : d \in AnchoredView' <=> d \in AnchoredView
    BY <1>2, <1>3, <1>4, <1>5 DEF AnchoredView, Issued
  <2>2. QED
    BY <2>1 DEF AnchoredView
<1>7. LedgerView' = [LedgerView EXCEPT ![c] = [LedgerView[c] EXCEPT !.status = "REVOKED"]]
  <2>1. \A d \in CredIds \ {c} : LedgerView'[d] = LedgerView[d]
    BY <1>4 DEF LedgerView, Issued
  <2>2. LedgerView[c] = [issuer |-> cred[c].issuer, subject |-> cred[c].subject,
                         status |-> cred[c].status]
    BY <1>2 DEF LedgerView
  <2>3. LedgerView'[c] = [issuer |-> cred[c].issuer, subject |-> cred[c].subject,
                          status |-> "REVOKED"]
    BY <1>4, <1>5 DEF LedgerView
  <2>4. LedgerView'[c] = [LedgerView[c] EXCEPT !.status = "REVOKED"]
    BY <2>2, <2>3
  <2>5. QED
    BY <2>1, <2>4, ViewIsFunction, PointChange
<1>8. CASE cred[c].status = "ACTIVE"
  <2>1. LedgerView[c] # None /\ LedgerView[c].status = "ACTIVE"
    <3>1. [issuer |-> cred[c].issuer, subject |-> cred[c].subject,
           status |-> cred[c].status] \in Entries
      BY <1>2, <1>8 DEF Rows, Entries
    <3>2. QED
      BY <1>2, <1>8, <3>1, CredentialsAssumption DEF LedgerView
  <2>2. QED
    BY <1>6, <1>7, <2>1 DEF Ledger!LedgerRevoke, Ledger!LedgerNext
<1>9. CASE cred[c].status # "ACTIVE"
  <2>1. cred[c].status = "REVOKED"
    BY <1>2, <1>9 DEF Rows
  <2>2. \A d \in CredIds : LedgerView'[d] = LedgerView[d]
    BY <1>2, <1>4, <1>5, <2>1 DEF LedgerView, Issued
  <2>3. LedgerView' = LedgerView
    BY <2>2, ViewIsFunction
  <2>4. QED
    BY <1>6, <2>3 DEF Ledger!ledgerVars
<1>10. QED
  BY <1>8, <1>9

LEMMA LandingRefines ==
    ASSUME IInv, NEW h \in txs, TxLands(h)
    PROVE  Ledger!LedgerNext
<1> USE DEF IInv
<1>1. PICK c \in CredIds : IsRevoked(c) /\ cred[c].hash = h
  BY DEF ChainBacked, HashBacked
<1>2. UNCHANGED cred /\ revoked' = revoked \cup {h}
  BY DEF TxLands, database
<1>3. LedgerView' = LedgerView
  BY <1>2 DEF LedgerView, Issued
<1>4. AnchoredView' = AnchoredView \cup {c}
  <2>1. \A d \in CredIds : d \in AnchoredView' <=> d \in AnchoredView \cup {c}
    BY <1>1, <1>2 DEF AnchoredView, Issued, IsRevoked, UniqueHashes
  <2>2. QED
    BY <2>1 DEF AnchoredView
<1>5. LedgerView[c] = [issuer |-> cred[c].issuer, subject |-> cred[c].subject,
                       status |-> "REVOKED"]
  BY <1>1 DEF LedgerView, IsRevoked
<1>6. LedgerView[c] # None
  <2>1. cred[c] \in Rows
    BY <1>1 DEF TypeOK, IsRevoked, Issued
  <2>2. LedgerView[c] \in Entries
    BY <1>5, <2>1 DEF Rows, Entries
  <2>3. QED
    BY <2>2, CredentialsAssumption
<1>7. Ledger!LedgerAnchor(c)
  BY <1>3, <1>4, <1>5, <1>6 DEF Ledger!LedgerAnchor
<1>8. QED
  BY <1>7 DEF Ledger!LedgerNext

\* Tables and registry, as their readers see them, behave as CredentialLedger
\* says: every insertion is an issuance, every effective update a revocation,
\* every landing the anchoring of one revoked credential, all else a stutter.
THEOREM LedgerImplemented == Spec => ImplementsLedger
<1>1. Init => Ledger!LedgerInit
  BY DEF Init, Ledger!LedgerInit, LedgerView, AnchoredView, Issued
<1>2. IInv /\ [Next]_vars => [Ledger!LedgerNext]_(Ledger!ledgerVars)
  <2> SUFFICES ASSUME IInv, [Next]_vars
               PROVE  Ledger!LedgerNext \/ UNCHANGED Ledger!ledgerVars
    OBVIOUS
  <2>1. CASE UNCHANGED <<cred, revoked>>
    BY <2>1 DEF Ledger!ledgerVars, LedgerView, AnchoredView, Issued
  <2>2. ASSUME NEW p \in Procs, CreateCred(p), ~UNCHANGED <<cred, revoked>>
        PROVE  Ledger!LedgerNext
    BY <2>2, IssueRefines DEF CreateCred, chain
  <2>3. ASSUME NEW p \in Procs, RevokeUpdate(p)
        PROVE  Ledger!LedgerNext \/ UNCHANGED Ledger!ledgerVars
    BY <2>3, RevokeRefines
  <2>4. ASSUME NEW h \in txs, TxLands(h)
        PROVE  Ledger!LedgerNext
    BY <2>4, LandingRefines
  <2>5. ASSUME NEW p \in Procs, Call(p) \/ (Step(p) /\ ~CreateCred(p) /\ ~RevokeUpdate(p))
        PROVE  UNCHANGED <<cred, revoked>>
    BY <2>5, CallKept
       DEF database, chain, Step, DidFind, DidCreate, DidReread, UpsertIssuer, FindIssuer,
           IsRegistered, DeactUpdate, RevokeFind, RevokeSubmit, RevokeWait, VerifyFind,
           VerifyChain, Finish
  <2>6. CASE Environment
    BY <2>1, <2>4, <2>6 DEF Environment, RevokeRetry, TxExpires, Tick, Restart, database, chain
  <2>7. QED
    BY <2>1, <2>2, <2>3, <2>5, <2>6 DEF Next, vars, database, chain
<1>3. QED
  BY <1>1, <1>2, Invariance, PTL DEF Spec, ImplementsLedger, Ledger!LedgerSpec

-------------------------------------------------------------------------------
(* A revocation whose submission is over *)

\* c is revoked in the database and not on the chain, no transaction for it is on its
\* way, and no request is past the status check of revokeCredential.
RevokingPCs == {"revokeUpdate", "revokeSubmit", "revokeWait"}

Abandoned(c) ==
    /\ IsRevoked(c)
    /\ cred[c].hash \notin revoked \cup txs
    /\ \A p \in Procs : req[p].cred = c => req[p].pc \notin RevokingPCs

\* Past the status check comes only a request that was so already, or one that finds
\* the credential active.
LEMMA PastTheCheck ==
    ASSUME TypeOK, NEW p \in Procs, LocalsOK(p), Call(p) \/ Step(p),
           req'[p].pc \in RevokingPCs
    PROVE  /\ req'[p].cred = req[p].cred
           /\ req[p].pc \in RevokingPCs \/ ~IsRevoked(req[p].cred)
<1> USE DEF RevokingPCs, At
<1>1. CASE Call(p)
  <2>1. ASSUME NEW r, Arrive(p, r), r.pc \notin RevokingPCs
        PROVE  FALSE
    BY <2>1 DEF Arrive, TypeOK
  <2> HIDE DEF RevokingPCs
  <2> USE DEF Idle
  <2>2. ASSUME NEW u \in Users, CreateDID(p, u)
        PROVE  FALSE
    <3> DEFINE r == [Idle EXCEPT !.op = "createDID", !.pc = "didFind", !.user = u]
    <3>1. r.pc \notin RevokingPCs
      BY DEF RevokingPCs
    <3>2. QED
      BY <2>1, <2>2, <3>1 DEF CreateDID
  <2>3. ASSUME NEW u \in Users, NEW k \in Claims, NEW e \in Expiries \cup {None},
               NEW c \in CredIds, SelfIssue(p, u, k, e, c)
        PROVE  FALSE
    <3> DEFINE r == [Idle EXCEPT !.op = "selfIssue", !.user = u, !.claims = k,
                                 !.expiresAt = e, !.cred = c,
                                 !.pc = IF u \in did THEN "upsertIssuer" ELSE "didFind"]
    <3>1. r.pc \notin RevokingPCs
      BY DEF RevokingPCs
    <3>2. QED
      BY <2>1, <2>3, <3>1 DEF SelfIssue
  <2>4. ASSUME NEW u \in Users, NEW c \in CredIds, Revoke(p, u, c)
        PROVE  FALSE
    <3> DEFINE r == [Idle EXCEPT !.op = "revoke", !.pc = "revokeFind", !.user = u, !.cred = c]
    <3>1. r.pc \notin RevokingPCs
      BY DEF RevokingPCs
    <3>2. QED
      BY <2>1, <2>4, <3>1 DEF Revoke
  <2>5. ASSUME NEW i \in Issuers, Deactivate(p, i)
        PROVE  FALSE
    <3> DEFINE r == [Idle EXCEPT !.op = "deactivate", !.issuer = i,
                         !.pc = IF issuer[i] = "absent" THEN "replied" ELSE "deactUpdate",
                         !.outcome = IF issuer[i] = "absent" THEN "notFound" ELSE None]
    <3>1. r.pc \notin RevokingPCs
      BY DEF RevokingPCs
    <3>2. QED
      BY <2>1, <2>5, <3>1 DEF Deactivate
  <2>6. ASSUME NEW c \in CredIds, NEW vc \in Presented, Verify(p, c, vc)
        PROVE  FALSE
    <3>1. PICK outcome : Arrive(p, [Idle EXCEPT !.op = "verify", !.cred = c,
                                      !.outcome = outcome,
                                      !.pc = IF outcome = None THEN "verifyFind" ELSE "replied",
                                      !.before = IsRevoked(c)])
      BY <2>6 DEF Verify
    <3> DEFINE r == [Idle EXCEPT !.op = "verify", !.cred = c, !.outcome = outcome,
                                 !.pc = IF outcome = None THEN "verifyFind" ELSE "replied",
                                 !.before = IsRevoked(c)]
    <3>2. r.pc \notin RevokingPCs
      BY DEF RevokingPCs
    <3>3. QED
      BY <2>1, <3>1, <3>2
  <2>7. QED
    BY <1>1, <2>2, <2>3, <2>4, <2>5, <2>6 DEF Call
<1>2. CASE RevokeFind(p)
  BY <1>2, Moved DEF RevokeFind
<1>3. CASE RevokeUpdate(p) \/ RevokeSubmit(p)
  BY <1>3, Moved DEF RevokeUpdate, RevokeSubmit
<1>4. CASE UpsertIssuer(p) \/ IsRegistered(p) \/ Finish(p)
  BY <1>4 DEF UpsertIssuer, IsRegistered, Finish, TypeOK, Requests, Idle
<1>5. CASE DidFind(p) \/ DidCreate(p) \/ DidReread(p) \/ FindIssuer(p)
  BY <1>5, Moved DEF DidFind, DidCreate, DidReread, FindIssuer
<1>6. CASE CreateCred(p) \/ DeactUpdate(p) \/ RevokeWait(p) \/ VerifyFind(p) \/ VerifyChain(p)
  BY <1>6, Moved DEF CreateCred, DeactUpdate, RevokeWait, VerifyFind, VerifyChain
<1>7. QED
  BY <1>1, <1>2, <1>3, <1>4, <1>5, <1>6 DEF Step

\* A hash comes to the chain, or on its way there, by a request past the check.
LEMMA SentPastTheCheck ==
    ASSUME IInv, [Next]_vars, NEW h \in revoked' \cup txs', h \notin revoked \cup txs
    PROVE  \E p \in Procs : req[p].pc \in RevokingPCs /\ h = cred[req[p].cred].hash
<1> USE DEF RevokingPCs, At
<1>1. UNCHANGED chain => FALSE
  BY DEF chain
<1>2. ASSUME NEW p \in Procs, RevokeSubmit(p) \/ RevokeRetry(p)
      PROVE  req[p].pc \in RevokingPCs /\ h = cred[req[p].cred].hash
  BY <1>2 DEF RevokeSubmit, RevokeRetry
<1>3. ASSUME NEW p \in Procs, Step(p), ~RevokeSubmit(p)
      PROVE  UNCHANGED chain
  BY <1>3 DEF Step, DidFind, DidCreate, DidReread, UpsertIssuer, FindIssuer, IsRegistered,
       CreateCred, DeactUpdate, RevokeFind, RevokeUpdate, RevokeWait, VerifyFind,
       VerifyChain, Finish
<1>4. ASSUME NEW k \in txs, TxLands(k) \/ TxExpires(k)
      PROVE  FALSE
  BY <1>4 DEF TxLands, TxExpires
<1>5. CASE Environment
  BY <1>1, <1>2, <1>4, <1>5 DEF Environment, Tick, Restart
<1>6. QED
  BY <1>1, <1>2, <1>3, <1>5, CallKept DEF Next, vars

LEMMA AbandonedStays ==
    ASSUME IInv, [Next]_vars, NEW c \in CredIds, Abandoned(c)
    PROVE  Abandoned(c)'
<1> USE DEF IInv
<1>1. Kept
  BY SameTables, StepKept, CallKept, EnvironmentKept DEF Next, vars
<1>2. IsRevoked(c)' /\ cred'[c].hash = cred[c].hash
  BY <1>1 DEF Abandoned, Kept, IsRevoked
<1>3. cred'[c].hash \notin revoked' \cup txs'
  <2> SUFFICES ASSUME cred'[c].hash \in revoked' \cup txs'
               PROVE  FALSE
    OBVIOUS
  <2>1. PICK p \in Procs : req[p].pc \in RevokingPCs /\ cred[c].hash = cred[req[p].cred].hash
    BY <1>2, SentPastTheCheck DEF Abandoned
  <2>2. req[p].cred \in CredIds /\ Issued(req[p].cred)
    BY <2>1 DEF LocalsOK, RevokingPCs
  <2>3. req[p].cred = c
    BY <2>1, <2>2 DEF UniqueHashes, Abandoned, IsRevoked
  <2>4. QED
    BY <2>1, <2>3 DEF Abandoned
<1>4. ASSUME NEW q \in Procs, req'[q].cred = c
      PROVE  req'[q].pc \notin RevokingPCs
  <2>1. CASE req'[q] = req[q]
    BY <1>4, <2>1 DEF Abandoned
  <2>2. CASE Restart
    BY <2>2 DEF Restart, Idle, RevokingPCs
  <2>3. CASE Call(q) \/ Step(q)
    BY <1>4, <2>3, PastTheCheck DEF Abandoned
  <2>4. QED
    BY <2>1, <2>2, <2>3, OthersUntouched
       DEF Next, Environment, RevokeRetry, TxLands, TxExpires, Tick, vars
<1>5. QED
  BY <1>2, <1>3, <1>4 DEF Abandoned

\* A registry submission that was given up on is never made good: once the row says
\* REVOKED and the last attempt is over, the status check turns every later request
\* away, and the hash is never sent again, whatever requests and restarts follow
\* (credential.service.ts revokeCredential).
THEOREM AbandonedForGood == Spec => [][\A c \in CredIds : Abandoned(c) => Abandoned(c)']_vars
<1>1. IInv /\ [Next]_vars => [\A c \in CredIds : Abandoned(c) => Abandoned(c)']_vars
  BY AbandonedStays
<1>2. QED
  BY <1>1, Invariance, PTL DEF Spec

===============================================================================
