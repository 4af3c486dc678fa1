------------------------------ MODULE Credentials ------------------------------
(***************************************************************************)
(* DIDs, issuers and credentials: the handlers of credential.controller,   *)
(* did.controller and issuer.controller with the services they call, over  *)
(* the Postgres tables `dids', `issuers' and `credentials' and the         *)
(* revocation-registry contract on the Stellar chain.  The issuer-registry *)
(* contract is left out: is_issuer is asked, but the answer is only        *)
(* logged, and remove_issuer is sent without waiting for it.               *)
(*                                                                         *)
(* A request is one run of an async handler.  Node runs a handler without  *)
(* interruption from one await to the next, so a step of a request is one  *)
(* awaited statement together with the code up to the next await; steps of *)
(* different requests interleave freely.  What a handler keeps in local    *)
(* variables between two awaits is in req[p].                              *)
(***************************************************************************)
EXTENDS Integers, FiniteSets

CONSTANTS
    Users,        \* Stellar addresses with an account; a user's DID is did:stellar:<address>
    Issuers,      \* addresses the deployment configures as platform issuer
    ServerKey,    \* the address of STELLAR_SERVER_SECRET
    CredIds,      \* the uuids randomUUID() may return
    Claims,       \* {country, age, accredited} values
    Expiries,     \* expiry dates clients ask for
    Procs,        \* requests in progress at the same time
    Ops,          \* the kinds of request clients send
    MaxNow,       \* bound on the clock (milliseconds)
    None          \* "no value": SQL NULL, an unset local variable

AllOps == {"createDID", "selfIssue", "deactivate", "revoke", "verify"}

VARIABLES
    now,          \* Date.now()
    did,          \* users with a row in `dids'
    issuer,       \* issuer[i]: "absent", "active" or "inactive", the row in `issuers'
    cred,         \* cred[c]: the row of `credentials', None before it is inserted
    revoked,      \* hashes stored in revocation-registry
    txs,          \* hashes whose revoke_credential was sent and has not landed
    platform,     \* ISSUER_PUBLIC_KEY, read from the environment
    req           \* req[p]: the handler p is running

database == <<did, issuer, cred>>
chain == <<revoked, txs>>
vars == <<now, database, chain, platform, req>>

-------------------------------------------------------------------------------
Times == 0 .. MaxNow

\* sha256 of claims, issuer, subject and issuance time: equal inputs, and only
\* equal inputs, give equal hashes.
Hashes == [claims : Claims, issuer : Issuers, subject : Users, at : Times]

Rows == [issuer : Issuers, subject : Users, hash : Hashes,
         expiresAt : Expiries \cup {None}, status : {"ACTIVE", "REVOKED"}]

\* What a reader of a row sees of it.
Entries == [issuer : Issuers, subject : Users, status : {"ACTIVE", "REVOKED"}]

Outcomes == {"ok", "valid", "revoked", "expired", "badSignature",
             "notFound", "forbidden", "conflict", "badRequest", "dbError"}

ASSUME CredentialsAssumption ==
    /\ Issuers \subseteq Users /\ ServerKey \in Users
    /\ Ops \subseteq AllOps
    /\ MaxNow \in Nat
    /\ Expiries \subseteq Nat
    /\ None \notin Users \cup CredIds \cup Claims \cup Nat \cup Rows \cup Entries
    /\ None \notin AllOps \cup Outcomes

IssuePCs == {"didFind", "didCreate", "didReread", "upsertIssuer",
             "findIssuer", "isRegistered", "createCred"}

RevokePCs == {"revokeFind", "revokeUpdate", "revokeSubmit", "revokeWait"}

PCs == IssuePCs \cup RevokePCs
         \cup {"idle", "deactUpdate", "verifyFind", "verifyChain", "replied"}

(***************************************************************************)
(* The local variables of a handler; `at' is the issuanceDate.  `before'   *)
(* is a history variable: whether the credential a verification is about   *)
(* was revoked in the database when the request arrived.                   *)
(***************************************************************************)
Requests == [op : AllOps \cup {None}, pc : PCs, user : Users \cup {None},
             issuer : Issuers \cup {None}, cred : CredIds \cup {None},
             claims : Claims \cup {None}, expiresAt : Expiries \cup {None},
             at : Times \cup {None},
             outcome : Outcomes \cup {None}, before : BOOLEAN]

Idle == [op |-> None, pc |-> "idle", user |-> None, issuer |-> None,
         cred |-> None, claims |-> None, expiresAt |-> None, at |-> None,
         outcome |-> None, before |-> FALSE]

Issued(c) == cred[c] # None
IsRevoked(c) == Issued(c) /\ cred[c].status = "REVOKED"
HashOf(p) == [claims |-> req[p].claims, issuer |-> req[p].issuer,
              subject |-> req[p].user, at |-> req[p].at]
Unused(c) == ~Issued(c) /\ \A q \in Procs : req[q].cred # c

Init ==
    /\ now = 0
    /\ did = {}
    /\ issuer = [i \in Issuers |-> "absent"]
    /\ cred = [c \in CredIds |-> None]
    /\ revoked = {}
    /\ txs = {}
    /\ platform \in Issuers
    /\ req = [p \in Procs |-> Idle]

\* Run p up to its next await; answer the client of p.
Goto(p, pc) == req' = [req EXCEPT ![p].pc = pc]
Reply(p, outcome) == req' = [req EXCEPT ![p].pc = "replied", ![p].outcome = outcome]

At(p, pc) == req[p].pc = pc

\* A client's call reaches an idle request slot.
Arrive(p, request) ==
    /\ At(p, "idle")
    /\ request.op \in Ops
    /\ req' = [req EXCEPT ![p] = request]

\* The HTTP answer has left; the handler is gone.
Finish(p) ==
    /\ At(p, "replied")
    /\ req' = [req EXCEPT ![p] = Idle]
    /\ UNCHANGED <<now, database, chain, platform>>

-------------------------------------------------------------------------------
\* DIDs: DIDService.createDID, for POST /did/create and from selfIssue.

CreateDID(p, u) ==
    /\ Arrive(p, [Idle EXCEPT !.op = "createDID", !.pc = "didFind",
                              !.user = u])
    /\ UNCHANGED <<now, database, chain, platform>>

DidFind(p) ==
    /\ At(p, "didFind")
    /\ IF req[p].user \in did THEN Reply(p, "conflict") ELSE Goto(p, "didCreate")
    /\ UNCHANGED <<now, database, chain, platform>>

\* The unique index on userId rejects a second row.
DidCreate(p) ==
    /\ At(p, "didCreate")
    /\ did' = did \cup {req[p].user}
    /\ CASE req[p].user \in did -> Reply(p, "dbError")
         [] req[p].user \notin did /\ req[p].op = "createDID" -> Reply(p, "ok")
         [] OTHER -> Goto(p, "didReread")
    /\ UNCHANGED <<now, issuer, cred, chain, platform>>

-------------------------------------------------------------------------------
\* Issuance: POST /credentials/issue.

\* Mutated form: a user without a DID goes straight to issuance.
SelfIssueWithoutDid(p, u, k, e, c) ==
    /\ Unused(c)
    /\ Arrive(p, [Idle EXCEPT !.op = "selfIssue", !.user = u, !.claims = k,
                              !.expiresAt = e, !.cred = c, !.pc = "upsertIssuer"])
    /\ UNCHANGED <<now, database, chain, platform>>

SelfIssue(p, u, k, e, c) ==
    /\ Unused(c)
    /\ Arrive(p, [Idle EXCEPT !.op = "selfIssue", !.user = u, !.claims = k,
                              !.expiresAt = e, !.cred = c,
                              !.pc = IF u \in did THEN "upsertIssuer" ELSE "didFind"])
    /\ UNCHANGED <<now, database, chain, platform>>

DidReread(p) ==
    /\ At(p, "didReread")
    /\ IF req[p].user \in did THEN Goto(p, "upsertIssuer") ELSE Reply(p, "badRequest")
    /\ UNCHANGED <<now, database, chain, platform>>

UpsertIssuer(p) ==
    /\ At(p, "upsertIssuer")
    /\ issuer' = [issuer EXCEPT ![platform] = "active"]
    /\ req' = [req EXCEPT ![p].issuer = platform, ![p].pc = "findIssuer"]
    /\ UNCHANGED <<now, did, cred, chain, platform>>

\* Mutated form: the issuance date is no longer taken after isRegistered.
FindIssuerWithoutDate(p) ==
    /\ At(p, "findIssuer")
    /\ Goto(p, "createCred")
    /\ UNCHANGED <<now, database, chain, platform>>

\* issueCredential reads the issuer's row and rejects an inactive issuer here.
FindIssuer(p) ==
    /\ At(p, "findIssuer")
    /\ IF issuer[req[p].issuer] = "active"
         THEN Goto(p, "isRegistered")
         ELSE Reply(p, "forbidden")
    /\ UNCHANGED <<now, database, chain, platform>>

\* The issuer-registry is asked; whatever it answers, issuance goes on.  The
\* issuance date, and with it the hash, is taken when the answer arrives.
IsRegistered(p) ==
    /\ At(p, "isRegistered")
    /\ req' = [req EXCEPT ![p].at = now, ![p].pc = "createCred"]
    /\ UNCHANGED <<now, database, chain, platform>>

\* Mutated form: credentialHash loses its unique index.
HashNeverTaken(h) == FALSE

\* The unique index on credentialHash rejects a row with the hash of another.
HashTaken(h) == \E c \in CredIds : Issued(c) /\ cred[c].hash = h

CreateCred(p) ==
    /\ At(p, "createCred")
    /\ \/ /\ HashTaken(HashOf(p))
          /\ Reply(p, "dbError")
          /\ UNCHANGED cred
       \/ /\ ~HashTaken(HashOf(p))
          /\ cred' = [cred EXCEPT ![req[p].cred] =
                        [issuer |-> req[p].issuer, subject |-> req[p].user,
                         hash |-> HashOf(p), expiresAt |-> req[p].expiresAt,
                         status |-> "ACTIVE"]]
          /\ Reply(p, "ok")
    /\ UNCHANGED <<now, did, issuer, chain, platform>>

-------------------------------------------------------------------------------
\* Issuers: PATCH /issuers/:id/deactivate.

Deactivate(p, i) ==
    /\ Arrive(p, [Idle EXCEPT !.op = "deactivate", !.issuer = i,
                              !.pc = IF issuer[i] = "absent" THEN "replied" ELSE "deactUpdate",
                              !.outcome = IF issuer[i] = "absent" THEN "notFound" ELSE None])
    /\ UNCHANGED <<now, database, chain, platform>>

\* removeIssuer is started here and not awaited.
DeactUpdate(p) ==
    /\ At(p, "deactUpdate")
    /\ issuer' = [issuer EXCEPT ![req[p].issuer] = "inactive"]
    /\ Reply(p, "ok")
    /\ UNCHANGED <<now, did, cred, chain, platform>>

-------------------------------------------------------------------------------
\* Revocation: POST /credentials/:id/revoke.

Revoke(p, u, c) ==
    /\ Arrive(p, [Idle EXCEPT !.op = "revoke", !.pc = "revokeFind",
                              !.user = u, !.cred = c])
    /\ UNCHANGED <<now, database, chain, platform>>

\* Mutated form: any signed-in user may revoke.
RevokeFindAnyOwner(p) ==
    /\ At(p, "revokeFind")
    /\ CASE ~Issued(req[p].cred) -> Reply(p, "notFound")
         [] IsRevoked(req[p].cred) -> Reply(p, "badRequest")
         [] OTHER -> Goto(p, "revokeUpdate")
    /\ UNCHANGED <<now, database, chain, platform>>

\* Mutated form: the registry is written without the row being updated.
RevokeFindChainOnly(p) ==
    /\ At(p, "revokeFind")
    /\ Issued(req[p].cred)
    /\ Goto(p, "revokeSubmit")
    /\ UNCHANGED <<now, database, chain, platform>>

RevokeFind(p) ==
    LET c == req[p].cred IN
    /\ At(p, "revokeFind")
    /\ CASE ~Issued(c) -> Reply(p, "notFound")
         [] Issued(c) /\ cred[c].issuer # req[p].user -> Reply(p, "forbidden")
         [] Issued(c) /\ cred[c].issuer = req[p].user /\ IsRevoked(c) -> Reply(p, "badRequest")
         [] OTHER -> Goto(p, "revokeUpdate")
    /\ UNCHANGED <<now, database, chain, platform>>

RevokeUpdate(p) ==
    /\ At(p, "revokeUpdate")
    /\ cred' = [cred EXCEPT ![req[p].cred].status = "REVOKED"]
    /\ Goto(p, "revokeSubmit")
    /\ UNCHANGED <<now, did, issuer, chain, platform>>

\* invokeContract gets a transaction out or, its attempts used up, throws; the
\* error is logged and the credential stays revoked in the database.
RevokeSubmit(p) ==
    /\ At(p, "revokeSubmit")
    /\ \/ /\ txs' = txs \cup {cred[req[p].cred].hash}
          /\ Goto(p, "revokeWait")
       \/ /\ Reply(p, "ok")
          /\ UNCHANGED txs
    /\ UNCHANGED <<now, database, revoked, platform>>

\* The poll loop sees the transaction land or gives up: the answer is the same.
RevokeWait(p) ==
    /\ At(p, "revokeWait")
    /\ Reply(p, "ok")
    /\ UNCHANGED <<now, database, chain, platform>>

\* withRetry: an attempt that failed or was given up on is made again, with a new
\* transaction, although that of the last attempt may still land.
RevokeRetry(p) ==
    /\ At(p, "revokeWait")
    /\ txs' = txs \cup {cred[req[p].cred].hash}
    /\ UNCHANGED <<now, database, revoked, platform, req>>

\* A submitted transaction is included in a ledger, whether or not anybody
\* still waits for it; or it fails, or its time bound passes.
TxLands(h) ==
    /\ h \in txs
    /\ revoked' = revoked \cup {h}
    /\ txs' = txs \ {h}
    /\ UNCHANGED <<now, database, platform, req>>

TxExpires(h) ==
    /\ h \in txs
    /\ txs' = txs \ {h}
    /\ UNCHANGED <<now, database, revoked, platform, req>>

-------------------------------------------------------------------------------
\* Verification: CredentialService.verifyCredential on the VC of credential c.
\* A holder has the VC only once issuance has answered.  No endpoint calls
\* verifyCredential or getCredential yet.

\* The VC is presented as issueCredential returned it, as getCredential rebuilt it
\* from the row, or with another content.
Presented == {"issued", "fetched", "altered"}

\* A `jsonb' column gives the keys of an object back by their length.
Claimed == <<"country", "age", "accredited">>
Stored == <<"age", "country", "accredited">>

Subject(vc) == [keys |-> IF vc = "fetched" THEN Stored ELSE Claimed, changed |-> vc = "altered"]

\* The signature covers the text of the VC, with the keys in their order, and is
\* made with the server's key, whoever the issuer is.
SignVC(subject) == [text |-> subject, key |-> ServerKey]

\* The key to verify with is that of the issuer's DID.
Genuine(c, vc) == SignVC(Subject("issued")) = [text |-> Subject(vc), key |-> cred[c].issuer]

Expired(c) == cred[c].expiresAt # None /\ cred[c].expiresAt < now

Verify(p, c, vc) ==
    /\ Issued(c)
    /\ LET outcome == CASE Expired(c) -> "expired"
                        [] ~Expired(c) /\ ~Genuine(c, vc) -> "badSignature"
                        [] OTHER -> None
       IN Arrive(p, [Idle EXCEPT !.op = "verify", !.cred = c,
                                 !.outcome = outcome,
                                 !.pc = IF outcome = None THEN "verifyFind" ELSE "replied",
                                 !.before = IsRevoked(c)])
    /\ UNCHANGED <<now, database, chain, platform>>

\* Mutated form: only the registry is asked.
VerifyFindChainOnly(p) ==
    /\ At(p, "verifyFind")
    /\ Goto(p, "verifyChain")
    /\ UNCHANGED <<now, database, chain, platform>>

VerifyFind(p) ==
    /\ At(p, "verifyFind")
    /\ IF IsRevoked(req[p].cred) THEN Reply(p, "revoked") ELSE Goto(p, "verifyChain")
    /\ UNCHANGED <<now, database, chain, platform>>

\* is_revoked is best effort: when it fails the database's answer stands.
VerifyChain(p) ==
    /\ At(p, "verifyChain")
    /\ \/ /\ cred[req[p].cred].hash \in revoked
          /\ Reply(p, "revoked")
       \/ Reply(p, "valid")
    /\ UNCHANGED <<now, database, chain, platform>>

-------------------------------------------------------------------------------
Tick ==
    /\ now < MaxNow
    /\ now' = now + 1
    /\ UNCHANGED <<database, chain, platform, req>>

\* The server stops at any point and starts again, perhaps with another
\* ISSUER_PUBLIC_KEY: requests in progress are lost, tables and chain are not.
Restart ==
    /\ platform' \in Issuers
    /\ req' = [p \in Procs |-> Idle]
    /\ UNCHANGED <<now, database, chain>>

Call(p) ==
    \/ \E u \in Users :
         \/ CreateDID(p, u)
         \/ \E k \in Claims, e \in Expiries \cup {None}, c \in CredIds :
              SelfIssue(p, u, k, e, c)
         \/ \E c \in CredIds : Revoke(p, u, c)
    \/ \E i \in Issuers : Deactivate(p, i)
    \/ \E c \in CredIds, vc \in Presented : Verify(p, c, vc)

Step(p) ==
    \/ DidFind(p) \/ DidCreate(p) \/ DidReread(p)
    \/ UpsertIssuer(p) \/ FindIssuer(p) \/ IsRegistered(p) \/ CreateCred(p)
    \/ DeactUpdate(p)
    \/ RevokeFind(p) \/ RevokeUpdate(p) \/ RevokeSubmit(p) \/ RevokeWait(p)
    \/ VerifyFind(p) \/ VerifyChain(p)
    \/ Finish(p)

Environment ==
    \/ \E p \in Procs : RevokeRetry(p)
    \/ \E h \in txs : TxLands(h) \/ TxExpires(h)
    \/ Tick
    \/ Restart

Next == Environment \/ \E p \in Procs : Call(p) \/ Step(p)

Spec == Init /\ [][Next]_vars

-------------------------------------------------------------------------------
(* Properties *)

\* The tables, the chain and the local variables of the handlers hold values of
\* their declared types.
TypeOK ==
    /\ now \in Times
    /\ did \subseteq Users
    /\ issuer \in [Issuers -> {"absent", "active", "inactive"}]
    /\ cred \in [CredIds -> Rows \cup {None}]
    /\ revoked \subseteq Hashes
    /\ txs \subseteq Hashes
    /\ platform \in Issuers
    /\ req \in [Procs -> Requests]

\* Whatever requests race and whichever registry transaction lands late, a hash
\* that is in the revocation registry, or on its way there, is that of a
\* credential whose row already says REVOKED: the on-chain registry never runs
\* ahead of the database, and never condemns a second credential with it.
ChainBackedByDatabase ==
    \A h \in revoked \cup txs :
        /\ \E c \in CredIds : Issued(c) /\ cred[c].hash = h
        /\ \A c \in CredIds : Issued(c) /\ cred[c].hash = h => IsRevoked(c)

\* A verification that answers `valid' arrived before the credential was revoked
\* in the database: the check against a registry that may lag, and the awaits
\* between the checks, never let an earlier revocation go unseen.
ValidMeansNotRevokedBefore ==
    \A p \in Procs :
        req[p].op = "verify" /\ req[p].outcome = "valid" => ~req[p].before

\* A verification answers `revoked' only for a credential its issuer did revoke,
\* also when the answer comes from the registry of hashes.
RevokedAnswerIsTrue ==
    \A p \in Procs :
        req[p].op = "verify" /\ req[p].outcome = "revoked" => IsRevoked(req[p].cred)

\* Every credential names a subject with a DID and an issuer with a row, in
\* whatever order the get-or-create of selfIssue interleaves with other calls.
SubjectAndIssuerExist ==
    \A c \in CredIds : Issued(c) =>
        /\ cred[c].subject \in did
        /\ issuer[cred[c].issuer] # "absent"

\* A credential becomes REVOKED only by a step of a request of its own issuer,
\* although owner and status were read one await earlier.
OnlyIssuerRevokes ==
    [][\A c \in CredIds : IsRevoked(c)' /\ ~IsRevoked(c) =>
          \E p \in Procs : /\ req[p].pc = "revokeUpdate"
                           /\ req[p].cred = c
                           /\ req[p].user = cred[c].issuer]_vars

\* What a reader of the tables and of the registry sees.
LedgerView ==
    [c \in CredIds |->
        IF Issued(c)
          THEN [issuer |-> cred[c].issuer, subject |-> cred[c].subject,
                status |-> cred[c].status]
          ELSE None]

AnchoredView == {c \in CredIds : Issued(c) /\ cred[c].hash \in revoked}

Ledger == INSTANCE CredentialLedger WITH
    Ids <- CredIds, Parties <- Users, Absent <- None,
    ledger <- LedgerView, anchored <- AnchoredView

\* The promise of CredentialLedger: issued once, revoked at most once and for
\* good, anchored one at a time and only after the revocation.
ImplementsLedger == Ledger!LedgerSpec

===============================================================================
