# STPrivy in TLA+

STPrivy is a KYC platform: a NestJS server (`src/apps/server`) issues W3C
credentials to Stellar accounts, revokes them in Postgres and in a registry
contract on the Stellar chain, produces proofs about them and lets verifiers ask
for such proofs; a Next.js client (`src/apps/web`) is what its users see. This
directory models the state changes of both, and of the KYC registry contract
(`src/contracts`), as TLA+ modules, checks them with TLC on small instances, and
proves the central theorems with TLAPS for every instance.

Paths below are relative to `src/apps/server/src/modules/` unless they begin with
`src/`, `docs/` or `README.md`, or with `web/`, which is `src/apps/web/src/`.

## How to run

    tlc -workers 2 -config MCCredentials.cfg       MCCredentials
    tlc -workers 2 -config MCProofRequests.cfg     MCProofRequests
    tlc -workers 2 -config MCEventIndexer.cfg      MCEventIndexer
    tlc -workers 2 -config MCWebSession.cfg        MCWebSession
    tlc -workers 2 -config MCSubmission.cfg        MCSubmission
    tlc -workers 2 -config MCKycRegistry.cfg       MCKycRegistry
    tlc -workers 2 -config MCIdentity.cfg          MCIdentity
    tlc -workers 2 -config MCProofJobs.cfg         MCProofJobs
    tlapm CredentialsProofs.tla                    # likewise the other ...Proofs modules

`MCProofRequestsFinal.cfg`, `MCProofRequestsRevoked.cfg`, `MCEventIndexerGap.cfg` and
`MCWebSessionReplay.cfg` end in a counterexample: each shows a disagreement
between the code and what is said of it (see *Findings*).

## Inventory

The server is one Node process. A handler is an async function; it runs
without interruption from one `await` to the next, and handlers interleave at
their awaits. No handler opens a database transaction or takes a lock, so what a
handler read before an await may be stale after it. The client is a browser tab with
the same rule: callbacks run to their next await, and answers arrive in any order.
That, the outside world (chain, RPC server, Redis, Veriff, wallets) and restarts are
where this code is hard.

| component | state it keeps | operations | talks to | what makes it correct |
|---|---|---|---|---|
| Credential service (`credentials/`) | `credentials` | `selfIssue`, `revoke`, `verifyCredential` | DID service, issuer service, registry contract | a revocation is for good, by the issuer only, never anchored before it is stored, never overlooked |
| DID service (`did/`) | `dids` | `createDID`, `resolveDID` | Postgres | one DID per user; every credential's subject has one |
| Issuer service (`issuers/`) | `issuers`, the issuer-registry contract | `deactivate`, `isRegistered`, `removeIssuer` | contract client | every credential's issuer has a row |
| Proofs (`proofs/proof.controller.ts`, `proof.service.ts`) | `zk_proofs`, `proof_verifications`, `proof_requests` | `generate`, `verify`, `createRequest`, `respondToRequest` | credentials, contract client | an approval names a proof that answers the request; decisions are final; revoked credentials prove nothing |
| Proof worker (`proofs/proof-queue.worker.ts`) | `zk_proofs`, files in `circuits/*/target` | `process` | BullMQ, circom, snarkjs | a proof is of its own job's claims; the queue and the row agree; jobs end |
| Event indexer (`soroban/soroban-event-indexer.service.ts`) | `soroban_events`, a checkpoint in Redis, a timer | `startIndexing`, `stopIndexing`, `poll` | RPC server, Redis | nothing below the checkpoint is missed, the indexer makes progress and stops when told |
| Contract client (`soroban/soroban.service.ts`), Horizon client (`stellar/`) | none of their own; transactions under way | `invokeContract`, `simulateContract`, `buildAndSubmitTx` | Stellar network | a call answers in the end; what the caller is told agrees with the chain; what is done twice is accounted for |
| Authentication (`auth/`) | used marks and refresh tokens in Redis; `users` | challenge, login, refresh, logout | Redis | a text that was used to log in, and a refresh token that was logged out, open nothing more; tokens belong to who signed. (Access tokens outlive a log-out, and a used challenge passes in another text: finding 4) |
| Veriff (`veriff/`) | `veriff_sessions` | `createSession`, `handleWebhook`, status | Veriff, credential service | no credential without an approval of its own, Veriff's where a secret is set |
| KYC registry contract (`src/contracts/soroban/kyc_registry`) | administrator, backend key, verification keys, users | initialize, set_vk, rotate, verify, revoke | – | its first administrator decides, nobody else |
| KYC registry client (`stellar-kyc/`) | a map that nothing fills | one endpoint per contract operation, mock or chain | the contract | a verdict is about an executed transaction |
| Deployment scripts (`src/contracts/deploy*`) | their progress | initialize, upload keys, test | the contract | a deployment that ends well is ready and its owner's |
| Web client (`web/`) | localStorage, React state, a query cache | log-in, log-out, KYC pages, proofs | wallets, the API | calls act as the user on the page; what a page shows happened; what it waits for is polled |
| Audit, admin, configuration | none that evolves | queries, start-up | the API | not modelled, see below |

### How the components interact

`selfIssue` calls the DID service, upserts the platform's issuer and calls the
credential service, which asks the issuer service, which asks the contract client.
`revoke` updates the row and then hands the hash to the contract client; the
transaction lives on the network after the handler is gone. Proof generation
reads the credential's row; proof requests read proofs. The Veriff webhook takes
the same issuance path. The client drives log-in, KYC and proofs through the API and
follows what the server does later by polling. The indexer shares nothing with the
rest but the RPC server, and the stellar-kyc endpoints nothing but the server's account.
Domain events are emitted after the writes; no listener in the repository changes state.

## The modules

| module | what it is | of |
|---|---|---|
| `CredentialLedger` | abstract specification: what readers of the credential tables and of the registry may rely on | – |
| `Credentials` | DIDs, issuers, credentials, verification, the registry | implements `CredentialLedger` |
| `ProofRequests` | proofs and proof requests | composed with `CredentialLedger`, which stands for the credential service |
| `EventIndexer` | the indexer with its timers, Redis and Postgres | – |
| `Auth` | challenges, used marks, tokens, log-in handlers | part of `WebSession` |
| `WebSession` | a tab of the client, wallet, session and calls | extends `Auth`: the composition of client and server |
| `ChainCall` | abstract specification: what a caller of the chain clients may rely on | – |
| `Submission` | transactions and reads of both chain clients, attempt by attempt | implements `ChainCall` |
| `KycRegistry` | the contract, the server's client of it, the deployment scripts | – |
| `Identity` | Veriff's sessions and webhooks, the KYC pages | – |
| `ProofJobs` | the proof worker, its queue and files, the views of a proof | – |
| `...Proofs` | theorems about the module of that name | `Credentials`, `ProofRequests`, `EventIndexer`, `WebSession`, `Submission`, `KycRegistry`, `Identity`, `ProofJobs` |
| `MC...` | instances for TLC, symmetry | one per module |

Constants of the modules are the sets of parties, ids and request slots, lifetimes, and the
bounds on clock, chain and pools; their assumptions are named
(`CredentialsAssumption`, `AuthAssumption`, `KycAssumption` and so on).

### Conventions

* A request slot `p` of `Procs` runs one handler at a time. `req[p].pc` names the
  awaited statement that comes next, the other fields are the handler's local
  variables. One action is one awaited statement together with the code up to the
  next await; a read and the check of what was read are one action, and the write
  that relies on it is another.
* The first read of a handler is part of its arrival where nothing can tell
  the two apart (a call that is delayed between arrival and first read is the same
  as a call that arrives later).
* A definition whose comment begins "Mutated form" is a plausible bug. It is not
  part of the specification. Substituted for the definition after it, it breaks
  a property: evidence that the property depends on that code.
* History variables (`before`, `since`, `open` in request records, `marked`, `ended` and
  `WebSession`'s `signed`, `lost`, `approvals`, `foreign`, and the counter `delivered`) are
  read by properties; guards read them only to keep ids from being drawn twice, to bound a
  counter, or to have sent again only what was signed.

### Credentials

| state | code |
|---|---|
| `did`, `issuer`, `cred` | tables `dids`, `issuers`, `credentials` (`src/apps/server/prisma/schema.prisma`) |
| `revoked` | the storage of the revocation-registry contract |
| `txs` | revocation transactions sent to the network and not landed |
| `platform` | `ISSUER_PUBLIC_KEY`, read at every issuance; a restart may change it |
| `req` | handlers in progress |

`SelfIssue` … `CreateCred` follow `credential.controller.ts:71-108`,
`did.service.ts:24-38` and `credential.service.ts:39-136`; `Revoke` … `RevokeWait`
follow `credential.service.ts:238-281` and the contract client; `Verify` …
`VerifyChain` follow `credential.service.ts:185-233` (no endpoint calls
`verifyCredential` at present; it is modelled as a service call). Uniqueness
constraints of the schema are part of the inserting action: `DidCreate`
fails on a second DID, `CreateCred` fails on a hash already stored. The hash is
abstracted to the record of its inputs, which is exact when SHA-256 has no
collision.

A signature is over a text, so what a VC looks like when it is presented matters:
`Presented` is the body with the order of its claims, and `Genuine` compares
text and key. The VC of `issueCredential` keeps the order that was signed. One fetched
through `getCredential` has been through a `jsonb` column, which reorders claims, and
its signature does not verify. Neither does any VC when `ISSUER_PUBLIC_KEY` is not the
key of the server, because `signVC` signs with the latter and `verifyVCSignature`
checks against the former.

The registry is best effort in the code, and so in the model: a submission may
fail, be repeated, land late, land twice, or never land, while the row stays
REVOKED; a restart forgets the handler and not the transaction.
`upsert` is modelled as atomic.

### CredentialLedger

An id is issued once, its status goes from ACTIVE to REVOKED once, and ids of
revoked credentials are anchored one by one. `Credentials` implements it under
the mapping `LedgerView`, `AnchoredView`: what is visible of a row, and
which rows have their hash in the registry. `ProofRequests` takes it as its
environment: the composition is by contract.

### ProofRequests

`proof`, `verified` and `preq` are the tables `zk_proofs`, `proof_verifications`
(the rows whose result is true) and `proof_requests`. `generateProof` stores a mock
artifact as COMPLETED, so no other status occurs; `encodeGroth16Proof` throws on a mock
artifact, so `verifyProof` never reaches the contract and records true. Both are
modelled as they are. `respondToRequest` is six awaited statements:
`RespondFind`, then `RespondExpire`, or `RespondProof`, `RespondDid` and
`RespondApprove`, or `RespondReject`.

### EventIndexer

A loop is one chain of timer and poll. `startIndexing` tests `running` before it
awaits Redis and sets it afterwards, and `stopIndexing` clears the one timer it
knows of, so that two loops may exist; `loop[s]` is where each one is. The chain's events
are given by `LedgerOf`: any number in a ledger, or none. A request returns the first
`PageLimit` events of its batch (`Page`; 10000 at
`soroban/soroban-event-indexer.service.ts:97`), no cursor is followed, and the checkpoint
becomes the chain's newest ledger all the same. `tried` holds the events
`persistEvents` has gone through, whether the insertion succeeded or was logged and skipped. Nothing in the
repository calls `startIndexing` yet: calls are arbitrary.

### Auth and WebSession

| state | code |
|---|---|
| `challenge`, `used`, `refresh` | challenge transactions; the keys `auth:nonce:<sha256 of the text>:used` and `auth:refresh:<token>` in Redis, with the time each is dropped |
| `account` | table `users` |
| `stored`, `shown`, `loading` | the token in localStorage, and the state of `AuthProvider` (`web/context/auth-context.tsx`) |
| `att[i]` | a run of `handleConnect` (`web/components/wallet-connect.tsx`) through `useWallet` and `useAuth` |
| `call`, `leaving` | an API call in flight (`web/lib/api.ts`); `window.location.href` assigned and the page still there |
| `page`, `wallet` | the router; `walletType` in the form's state |

Nothing keeps access tokens: a signature and an expiry are all the guard asks for. The
log-in handler reads the used mark (`Login`), writes it (`Mark`), upserts the user
and signs (`Upsert`) and stores the refresh token (`Store`); two log-ins may run
through it at once, and other clients may send again whatever challenge was signed.
What is posted is a *text*: a challenge in one of its `Encodings`. Base64 may be written in
more than one way and the signatures of an envelope stand in more than one order, and all
of these texts are the same transaction to the SDK. The mark is stored under the
SHA-256 of the text (`auth/auth.service.ts:119-127, 224`), so `used` and `marked` are
functions of texts.
`Signer` says what a wallet's signature is to the server: Freighter returns the
signed transaction, the other two a bare signature, with which a log-in is refused.
`handleConnect` uses the `signMessage` of the render it was clicked in: `signer` is the
wallet of that render, and on the first click there is none, so that the
first click always ends in "No wallet connected".

### Submission

`call[k]` is a run of `invokeContract`, of `simulateContract` or of `buildAndSubmitTx`; `tx[k][a]` is the
transaction of its attempt `a`, which lives on the network on its own. All calls
share the server's account and its sequence number: the network holds one
transaction of it at a time. `Deferred` is TRY_AGAIN_LATER, which the code takes for
acceptance and polls for; `SendLost` is an answer that never came. `lost` counts the attempts that ended
without the caller learning what became of a submitted transaction.

`ChainCall` is what that comes to for a caller: one answer; effects at any time, before
it or after; one effect, and one more at most for each *doubt*, an attempt that ended
without anybody learning its outcome; after an error only effects that a doubt covers;
none of a read. `Submission` implements it under the mapping `AnswerView` (how the call
has ended), `EffectsView` (how many of its transactions have landed) and `DoubtView`
(`lost`). The promise is no stronger because the code keeps none that is: it neither
reuses a transaction nor asks for a lost one's outcome before it makes another.

This is the detail behind the coarse steps `RevokeSubmit`, `RevokeRetry`, `RevokeWait`
and `TxLands` of `Credentials`, which allow everything that `ChainCall` does: repeated
landings, late ones, and errors after which a transaction lands.

### KycRegistry

| state | code |
|---|---|
| `contract` | the instance storage (`contract.rs`, `storage.rs`): backend key, administrator, verification keys |
| `tx` | transactions of the server, of the script, of others |
| `mode`, `call` | `useMockMode`; the endpoints' handlers (`stellar-kyc/`) |
| `deploy` | `deploy-contract.js` or `deploy.sh` between two of its commands |

Keys and proofs are abstracted to their lengths, which is all that
`groth16::verify` looks at. `parse_attestation` always fails, so no user record ever
exists. What the validation pipe does to a body is part of the model: the DTO classes of
these endpoints carry no decorators and `forbidNonWhitelisted` refuses every property
(`src/apps/server/src/main.ts:29-30`), so that `SubmitVerification`, `RevokeVerification`
and `RotateKey` end as they do.

### Identity

One user, the sessions they start, and webhooks (`Deliver`): Veriff may deliver any verdict
on a session that it made, repeatedly and in any order. `Taken` is the comparison of
signatures: with `VERIFF_API_SECRET` (`signed`) only Veriff's webhooks are taken, without it
anybody's, also those about mock sessions; `approvals` and `foreign` count the approvals
of either kind. A webhook handler is found, updated, and on approval continued to
the issuance: `FindDid`, `UpsertIssuer`, `Issue`, `RecordCredential`.

`page.run[s]` is the run of `handleStart` that made session `s`, up to the interval its frame
starts. The code never asks for the page's status on the way: a run goes on to its
frame or its error, and a frame to its interval, whatever the page shows by then. Since
a late verdict gives the user another try while a run is under way, runs, frames
and intervals overlap; `page.ref` is the one interval that `pollRef` holds. A status
request that was answered (`poll`) is processed in whatever state the page is by then, and
clears that interval.

The other flow of `/kyc/start` is a form whose
claims are issued as they are (`SelfIssue`); `Flow` is which of `PROVIDERS` leads where.
What a page says and offers is a function of its state, named for what the user reads:
`SaysVerified`, `SaysDeclined`, `SaysProcessing`, `SaysIssued`, `OffersStart`, `OffersForm`.
The guards of the user's clicks and the properties about the page are stated in these.

### ProofJobs

A job's attempt is its awaited commands: `Compile`/`Compiled`, `Setup`/`Contributed`,
`WriteInput`, `Prove`, `Store`, `Acknowledge`. `target[c]` is the directory all jobs of a
circuit share, `work[d]` a working directory of one attempt. Commands truncate the
file they write (`Truncate`), whoever is using it. BullMQ is external: it retries a
failed attempt until `MaxAttempts`, and runs a job again whose worker died, or fails
it when that happened too often (`Restart`). Nothing in the repository adds jobs:
`POST /proofs/generate` inserts a row that is COMPLETED at once (`Insert`). So there are two
kinds of proofs: those of `Jobs`, queued by somebody outside, of which `Mine` belongs to the
browser's user, and `New`, the one that the browser asks for (`Submit`, `Posted`,
`PostLost`). The browser's part is what `web/hooks/use-proofs.ts` polls and caches
for the four views, the form, the result it turns into, the list and the page of a proof;
`ProofList` is what the list says of `Mine`.

## What is checked

| run | instance | properties | states |
|---|---|---|---|
| `credentials` | 2 users, 1 issuer, 2 credential ids, 1 value of claims, 2 clock values, 2 requests | `TypeOK`, `ChainBackedByDatabase`, `ValidMeansNotRevokedBefore`, `RevokedAnswerIsTrue`, `SubjectAndIssuerExist`, `OnlyIssuerRevokes`, `ImplementsLedger` | 1.8 million |
| `proof_requests` | 2 users, 1 credential, 2 circuits, 2 proofs, 1 request, 2 clock values, 2 handlers | `TypeOK`, `ApprovalIsBacked`, `ApprovedInTime`, `LateResponseChangesNothing`, `NoProofAfterRevocation` | 2.9 million |
| `proof_requests_final`, `proof_requests_revoked` | the same | `DecisionIsFinal`, `RevokedIsNotVerified`: violated | – |
| `event_indexer` | 2 loops, 4 ledgers in one batch, 3 events (two of them in one ledger) in one page | `TypeOK`, `CheckpointCovers`, `IndexedWhileRunning`, `StopsInTheEnd` | 67 thousand |
| `event_indexer_gap` | 1 loop, 4 ledgers, batches of 2 | `CheckpointCovers`: violated | – |
| `web_session` | 2 users, 2 challenges in 2 encodings each, 2 refresh tokens, 2 handlers, 2 log-in attempts, the wallet that signs transactions, 2 clock values | `TypeOK`, `SucceedsOnlyIfOpen`, `ActsAsShown`, `OwnerSigned` | 1.3 million |
| `web_session_replay` | 1 user, 2 challenges in 2 encodings each, 1 handler, no clock | `UsedChallengeRefused`: violated | – |
| `submission` | 1 call of each client, 3 attempts, 2 polls | `TypeOK`, `AnswerIsTrue`, `EffectsAreAccountedFor`, `EveryCallEnds`, `ImplementsCall` | 960 thousand |
| `kyc_registry` | 2 accounts, 2 keys, 1 circuit, 3 transactions, 1 request | `TypeOK`, `VerdictIsExecuted`, `DeployedIsReady`, `AdminDecides`, `ExecutedIsAnswered` | 710 thousand |
| `identity` | 3 sessions, 2 webhook handlers, 2 status requests at a time, 2 webhooks in all | `TypeOK`, `ApprovedBeforeIssued`, `ApprovalWasGiven`, `WaitingIsPolled` | 1.2 million |
| `proof_jobs` | 2 jobs of 1 circuit, 2 attempts, 2 restarts; a browser and its own proof beside one queued job | `TypeOK`, `OwnProof`, `CompletedInTheRow`, `JobsEnd`, `PageSeesTheEnd` | 660 thousand |

Why these bounds are enough for the cases that matter:

* Two requests give every pairwise race: two issuances for a new user, two
  revocations, a revocation against a verification or a generation, an approval against
  a rejection or an expiry, two log-ins with one text, a refresh against a
  log-out. The proofs remove
  these bounds.
* Two credentials with one value of claims and two clock values make equal hashes
  (same millisecond) and different ones both occur.
* Two clock values let a credential, a request, a mark or an access token expire in the
  middle of a handler. One unit of `MCWebSession`'s clock is the five minutes that a challenge lives; the
  refresh token outlives it.
* Both circuits may be asked for and proved, so that a mismatch can occur, and two
  proofs let the subjects differ.
* `credentials` has one issuer. A restart that switches `ISSUER_PUBLIC_KEY` needs two,
  with which the run takes too long: that case is left to the theorems, which
  `CredentialsProofs` proves for any set of issuers.
* In `web_session` two encodings let a used challenge come back in another text, with the
  mark of the first still there. xBull and LOBSTR, whose log-ins the server refuses, are
  left to the theorems of `WebSessionProofs`.
* In `event_indexer` two loops overlap in every way, and the chain grows while they
  poll. The batch covers the four ledgers and the page the three events, just, so that `CheckpointCovers`
  speaks of the races alone (one event less in a page breaks it, see the mutant `PageOffByOne`);
  `event_indexer_gap` shows what happens when the chain is ahead of the batch.
* In `submission` the two calls compete for the account, so that sequence numbers
  go stale and transactions are deferred; three attempts distinguish first, middle and
  last, two polls the last from the others.
* In `kyc_registry` three transactions let one of the script, one of the server and one
  of another account be under way; the scripts' administrator is the deployer, and the
  server's account may initialise first. Transactions run out, so deadlock is not
  checked there; nor in `submission` and `proof_jobs`, where all calls and jobs may be over.
* In `identity` two sessions may have runs of `handleStart`, frames and intervals at the same
  time, started on a page that a verdict about a third took back to the button. Two
  webhooks in all are an approval delivered twice, or overtaken by another verdict, or one
  of Veriff beside one of somebody else.
* In `proof_jobs` two jobs of a circuit share its files; two attempts and two
  restarts exceed what a job survives (BullMQ allows one stall). The concurrency limit is not
  reached with two jobs. The browser opens only when its user's job is the only one that
  is queued (`MaxWatched`): another's job reaches the page through the row of `Mine` alone, by making
  an attempt fail, and every step of an attempt may fail without it. The theorems have no
  such bound. The user asks for one proof, and visits no page of it but the result.

Only interchangeable values are declared symmetric, and never in a run that
checks a liveness property.

### Fairness

`EventIndexer!FairSpec`: timers fire and promises settle (weak fairness of a loop's
steps); `getEvents` and the write of the checkpoint may fail any number of
times but not for ever when tried again and again (strong fairness).
Nothing forces the chain to grow or the indexer to be started or stopped.

`Submission!Spec`: weak fairness of `Answered(k)`, the steps that an answer or a timer
brings about. No transaction need land or expire: the poll and the attempts are counted.

`KycRegistry!Spec`: weak fairness of `Poll`, the loop that asks every second while the
process runs. Nothing else is fair, not even the execution of a transaction, since
`ExecutedIsAnswered` speaks of executed ones.

`ProofJobs!Spec`: weak fairness of a job's progress, of the answer to the submission,
and of the queries whose interval runs. An attempt may fail at every step; restarts are bounded.
A command that never ends (`execAsync` sets no timeout) is assumed not to occur.

## What is proved

`CredentialsProofs` proves, for every set of users, issuers, ids, claims and
request slots and every bound on the clock, under `CredentialsAssumption`
(issuers are users; dates are natural numbers; `None` is none of the values it stands
in for):

| theorem | states |
|---|---|
| `Invariance` | `Spec => []IInv` |
| `TypeCorrect` | `Spec => []TypeOK` |
| `ChainBehindDatabase` | `Spec => []ChainBackedByDatabase` |
| `NoStaleValid` | `Spec => []ValidMeansNotRevokedBefore` |
| `RevokedIsRevoked` | `Spec => []RevokedAnswerIsTrue` |
| `PartiesExist` | `Spec => []SubjectAndIssuerExist` |
| `RevokedByIssuer` | `Spec => OnlyIssuerRevokes` |
| `LedgerImplemented` | `Spec => ImplementsLedger` (the refinement) |
| `AbandonedForGood` | `Spec => [][\A c \in CredIds : Abandoned(c) => Abandoned(c)']_vars` |

None of these properties is inductive. A handler relies on what it read several
awaits ago, and the tables alone do not say what it read. `IInv` adds exactly
that:

* `LocalsOK(p)`: what handler `p` knows at each of its awaits. In front of the
  insertion, for instance: its user has a DID, its issuer has a row, its uuid is
  unused; in front of the submission: its credential is revoked.
* `VerifyOK(p)`: a verification past the database check is not about a credential
  that was revoked when it arrived.
* `DistinctIds`: two issuances in progress hold different uuids.
* `UniqueHashes`: the unique index, as a fact about the table.
* `ChainBacked`: every hash on the chain or under way is that of a revoked credential.

The argument is one observation made precise in `Kept`: nothing that a handler may
have read is ever taken back. DIDs and issuers' rows stay, a credential keeps
parties and hash and stays revoked. So a step preserves the knowledge of the
other handlers (`LocalsFrame`, `VerifyFrame`), and what remains is the step's own handler
(`LocalsStep`, `VerifyStep`), the one step that inserts (`Insertion`) and the one that
submits (`Submission`). Types need the same knowledge: `CreateCred` inserts a row
of the right type only because the handler has been through the statements before it.

For the refinement, `CreateCred` implements `LedgerIssue`, `RevokeUpdate`
implements `LedgerRevoke` or, when a second revocation passed the same check,
a stutter, and `TxLands` implements `LedgerAnchor` of exactly one id
(`UniqueHashes`, `ChainBacked`). All other steps stutter.

`AbandonedForGood` makes a remark of *Findings* exact. `Abandoned(c)`: the row says REVOKED, the
hash is neither on the chain nor on its way, and no request is past the status check
with `c`. A hash is only sent by a request past the check (`SentPastTheCheck`), a request
passes it only with an active credential (`PastTheCheck`), the row does not become active
again (`Kept`), and no other credential has the hash (`UniqueHashes`).

`ProofRequestsProofs`, under `ProofRequestsAssumption` (the platform is a party; `Absent` is
none of the values it stands in for):

| theorem | states |
|---|---|
| `Invariance` | `Spec => []IInv` |
| `TypeCorrect`, `ApprovalsBacked` | `Spec => []TypeOK`, `Spec => []ApprovalIsBacked` |
| `ApprovalsInTime`, `LateResponses`, `NoLateProof` | `Spec => ApprovedInTime`, `Spec => LateResponseChangesNothing`, `Spec => NoProofAfterRevocation` |
| `FinalUnlessConcurrent` | `Spec /\ []OneAtATime => DecisionIsFinal` |

`IInv` is `TypeOK`, `LocalsOK(p)`, `ProofsBacked` and `ApprovalIsBacked`. `LocalsOK(p)` says
what `p` knows while it generates (`GenOK`), verifies or asks (`AskOK`) and responds (`RespondOK`):
in front of the approval, that its proof is stored, is the caller's and is of the circuit the
request asks for, and that it arrived before the request expired; and that a handler which
arrived too late has got no further than its first read. The theorem does *not* rest on the
request being still pending, which is what the code loses between its awaits. `Kept` lists what
no step takes back (stored proofs, subjects and circuits, a revocation, a decision). The three
action properties follow from `IInv` by finding the one handler that can write the row
(`WhoDecides`, `WhoProves`, `WhoAsks`).

`DecisionIsFinal` fails (finding 1). `FinalUnlessConcurrent` says that one interleaving is
all that is wrong: in a behaviour in which no two handlers of one proof request are ever
between its status check and its update (`OneAtATime`), what the check read still holds at
the update (`PendingOK`), and a decision is final.

`EventIndexerProofs`, under `EventIndexerAssumption`:

| theorem | states |
|---|---|
| `TypeCorrect` | `Spec => []TypeOK` |
| `Covered` | `Spec /\ []KeepsUp => []CheckpointCovers` |
| `CheckpointAdvances` | `Spec /\ []OneLoop => [][checkpoint # None => checkpoint' # None /\ checkpoint <= checkpoint']_checkpoint` |

`LoopOK(s)` is the heart: what lies below the ledger from which a loop fetches has been tried, and
what lies between it and the ledger it is about to store has been tried or is in its batch.
Every loop knows this for itself, so that no agreement between two loops is needed and
the checkpoint may go back. `KeepsUp` says that whenever a loop fetches, the chain's newest
ledger is within its batch and the events it asks for fit one page: the two things that the
code takes for granted. Neither can be dropped. `event_indexer_gap` is the counterexample
without the first; without the second it is enough that a page is smaller than
the events of its batch (the mutant of `CheckpointCovers`). `WholePage` is the lemma about `Page`.

`CheckpointAdvances` needs no bound on the chain and does need `OneLoop`, that at most one loop
exists: a loop works on ledgers above the checkpoint it started from (`AheadOK`), and only
another loop can have moved the checkpoint meanwhile.

`WebSessionProofs`, under `AuthAssumption` and `WebSessionAssumption`:

| theorem | states |
|---|---|
| `TypeCorrect` | `Spec => []TypeOK` |
| `ShownActs` | `Spec => []ActsAsShown` |
| `RefusedAfterUse` | `Spec => []SucceedsOnlyIfOpen` |
| `TokensAreSignedFor` | `Spec => []OwnerSigned` |
| `OneUseUnlessOverlapping` | `Spec /\ []OneLogin => [][MarksApart]_vars` |

`TypeOK` is proved together with what each handler and each log-in attempt has in its locals (`Typed`).
`ActsAsShown` is inductive by itself, because every write of `stored` comes with one of
`shown` and a 401 removes the token without showing another user. `OpenInv` adds to
`SucceedsOnlyIfOpen` that a handler past its first read arrived while its text or token was open,
that a mark is as old as its lifetime says, and that the key of an ended token is gone.
`SignedInv` adds to `OwnerSigned` that the user of a handler under way and the
owner of a refresh token have signed.

`SucceedsOnlyIfOpen` speaks of texts, and of what a log-in found when it arrived, because two that
overlap both succeed. `OneUseUnlessOverlapping` says that of the log-ins with one text only
those do: in a behaviour in which no two log-ins with one text are between the mark's
read and its write (`OneLogin`), a log-in that leaves its mark is the first with that
text within the mark's lifetime (`MarksApart`). That is less than one use of a challenge:
another text of it has no mark (finding 4).

`SubmissionProofs`, under `SubmissionAssumption` (calls are finitely many and of one client each):

| theorem | states |
|---|---|
| `Inductive` | `Spec => []IInv` |
| `TypeCorrect` | `Spec => []TypeOK` |
| `TrueAnswers` | `Spec => []AnswerIsTrue` |
| `Effects` | `Spec => []EffectsAreAccountedFor` |
| `CallImplemented` | `Spec => ImplementsCall` (the refinement) |
| `CallsRunOut` | `Spec => [][BudgetIsSpent]_vars` |

`SeqOK` says that the account's sequence number is the number of transactions that took
one; with it the type of `seq` is bounded by calls and attempts. `CallOK(k)` bounds the
attempts of `k` that have taken effect, or may yet, behind the caller's back (`Open(k)`) by
`lost`. The count of landed transactions would not do: a transaction that is still out
may land after the call that lost it has gone on, and only `Open` counts it in time.

For the refinement every step of a call, of its transactions and of the restart is mapped:
an attempt that ends and is followed by another is `Wonder` or a stutter, a landing is
`TakeEffect`, the ends are `Succeed`, `Fail`, `Return` and `Vanish` (`OwnMaps`, `EffectMaps`).
Two facts carry it. `ReadInv`: a read sends nothing, so that `Return` finds no effect.
`EffectsMatch`: how many effects there may be, by the way the call has ended; it follows from `IInv`
because what has landed and was not answered for is one of the `lost`.

`CallsRunOut` is why a call ends, without the fairness that makes it go on. `Budget(k)`
is a natural number: the attempts left, each worth its polls and its other steps, and what is left of
the present one. Every move of a call spends of it, whatever the network answers.

`KycRegistryProofs`, under `KycAssumption`:

| theorem | states |
|---|---|
| `Inductive` | `Spec => []IInv` |
| `TypeCorrect`, `Verdicts` | `Spec => []TypeOK`, `Spec => []VerdictIsExecuted` |
| `Deployed` | `Spec => []DeployedIsReady` |
| `Administration` | `Spec => AdminDecides` |

`IInv` is `TypeOK`, `Pending` (a request that polls has a transaction of its own), `Named` (an administrator
comes with a key) and `Verdict(k)`. `Deployed` needs besides what the script knows between
its commands (`Script`): the transaction under way is the one the command submitted
(`UnderWay`, `Mine`), once executed it has had its effect (`Effective`), and every key that is
neither still to do nor under way is stored (`Uploaded`). `RegistryKept` says that nobody takes
this back: initialisation happens once, and keys are replaced and not removed.

`IdentityProofs`, under `IdentityAssumption` (webhook handlers are finitely many):

| theorem | states |
|---|---|
| `Inductive` | `Spec => []IInv` |
| `TypeCorrect` | `Spec => []TypeOK` |
| `CredentialsAreApproved` | `Spec => []ApprovedBeforeIssued` |
| `ShownApproval` | `Spec => []ApprovalWasGiven` |
| `Polled` | `Spec => []WaitingIsPolled` |

The invariant has a server's and a browser's half. The server's is a count: credentials issued
for a session plus handlers on their way to issue one (`Due(s)`) are at most the
approvals that were taken (`CountOK`); an approval on its way moves from one summand to the
other. `SenderOK` says that with a secret none of these is from anybody but Veriff, and
bounds them by the webhooks delivered, which the types need. The browser's half says what the
page may believe: a run of `handleStart` past its request has a row (`RunOK`), `pollRef` holds an
interval that runs, and does while the page is `submitted` (`PageOK`), an answer `approved` that is still
in flight had a reason (`PollOK`). What made this true is not taken back by the server
(`Kept`) nor, while the page stays, by other runs (`DoneKept`).

`ProofJobsProofs`, under `ProofJobsAssumption` (jobs are finitely many):

| theorem | states |
|---|---|
| `Inductive` | `Spec => []IInv` |
| `TypeCorrect` | `Spec => []TypeOK` |
| `OwnProofs` | `Spec => []OwnProof` |
| `CompletedRows` | `Spec => []CompletedInTheRow` |
| `JobsRunOut` | `Spec => [][JobsSpend]_vars` |

A working directory holds the input of its own attempt or none (`WorkOK`), so the artifact an
attempt made is its own (`JobOK`) although everything else on disk is shared; the row of a job
is COMPLETED from `Store` to `Acknowledge`, because nobody but the job writes it, and that of `New`
comes with its own artifact. `BrowseKeepsJobs`: the browser touches no job, and no row but
that of `New`.

`JobsRunOut`: a job has attempts left, restarts that it survives, and steps left of its
present attempt; each move, a restart included, spends more of the sum than it gives back, and a job that
has ended does not move.

### Only model-checked

All liveness (`IndexedWhileRunning`, `StopsInTheEnd`, `EveryCallEnds`,
`ExecutedIsAnswered`, `JobsEnd`, `PageSeesTheEnd`): TLAPS does not reason about fairness and
`ENABLED` here. For `EveryCallEnds` and `JobsEnd` the part that needs neither is proved: no
call and no job moves without end (`CallsRunOut`, `JobsRunOut`). No recursive definition occurs, so there is no induction over
data left to trust. Every other property of a passing run is a theorem; `CheckpointCovers`
under the hypothesis `KeepsUp`. The theorems with a hypothesis on the behaviour (`OneAtATime`, `OneLoop`,
`OneLogin`) say how far the code's missing locks reach: nothing in the code makes the
hypothesis true, and without it the statement is false.

## Findings

1. **A decided proof request can be decided again** (`proof_requests_final`). Status and expiry are
   checked at `proofs/proof.controller.ts:142-148`, the row is written at 164 or
   170 after up to two more awaits, by id and without the status in the
   condition. Two responses that both read PENDING both succeed; APPROVED may
   become REJECTED and keep its `proofId`, or the reverse. Line 143 means to exclude it
   (`Request is already ...`). What still holds is `ApprovalIsBacked`,
   `ApprovedInTime` and `LateResponseChangesNothing`.
2. **A proof of a revoked credential verifies** (`proof_requests_revoked`). `docs/requirements.md:166`
   asks for a rejection; `verifyProof` does not read the credential.
3. **The indexer's checkpoint may skip ledgers** (`event_indexer_gap`). `poll` fetches `BATCH_SIZE`
   ledgers and stores the chain's newest one. The limit of 10000 events (line 97), with no
   cursor followed, skips the events behind it in the same way.
4. **A used challenge opens another session** (`web_session_replay`). The used mark is keyed by the
   hash of the posted text, which the comment at `auth/auth.service.ts:217-221` takes for unique per
   challenge; the same signed transaction in another text finds no mark. `docs/requirements.md:65`
   asks for a rejection of every used challenge. One text, too, passes twice when two log-ins
   with it overlap between lines 122 and 127, or when its mark has expired before the challenge,
   to which the SDK adds a grace. What still holds is `SucceedsOnlyIfOpen` and `OneUseUnlessOverlapping`.

Met while modelling, and part of the models as the code has it:

* Chain clients. `withRetry` makes six attempts where its comment says five
  (`soroban/soroban.service.ts:205,209`). `TRY_AGAIN_LATER` is polled for like an accepted transaction.
  The transactions of the stellar-kyc client, unlike those of `invokeContract`, are never assembled from a
  simulation before they are sent (`stellar-kyc/contract/kyc-contract.service.ts:127, 196, 250`).
* Revocation. After a failed registry submission the API answers "already revoked" to every
  further attempt: once no transaction is on its way the hash is never anchored (`AbandonedForGood`). The upsert of the next issuance reactivates
  a deactivated issuer (`credentials/credential.controller.ts:98`).
* Log-in. The first click always ends in "No wallet connected" (`web/hooks/use-wallet.ts:130`). xBull and
  LOBSTR return a bare signature, which the server refuses. Log-out never calls the server,
  and the query cache outlives it. Access tokens are good until they expire, also after
  `POST /auth/logout`.
* Verification. The key order of a fetched VC, or an `ISSUER_PUBLIC_KEY` that is not the server's, makes
  the signature check fail.
* Registry. `parse_attestation` always errs (`src/contracts/soroban/kyc_registry/src/contract.rs:175`), so no wallet is ever
  recorded; `groth16::verify` looks at sizes. The proof is 384 bytes in the comment of `contract.rs:53` and out
  of `encodeGroth16Proof`, 192 in the header of `groth16.rs`, and 256 in the check. The signed
  payload is joined with `|` and read with `JSON.parse`. The validation pipe refuses the bodies of
  submit, revoke and rotate. `verifyProof` ignores the contract's return
  value and polls for ever for a transaction that was refused or expired. `deploy.sh`
  says that it initializes and does not; the deployment test passes all public inputs as one.
* Identity. Without `VERIFF_API_SECRET`, which is empty by default, anybody's webhook counts
  (`veriff/veriff.service.ts:46,102`). An interval that `pollRef` no longer holds polls until the page
  is reloaded. A mock session is approved from the start, while the page stays in `started` and no credential
  follows. "Your KYC credential has been issued" (`web/app/kyc/form/page.tsx:111`) is shown whether or
  not the issuance on the webhook succeeded. The manual form's claims are issued unchecked.
* Proof jobs. Nothing enqueues them: `POST /proofs/generate` inserts a COMPLETED row
  (`proofs/proof.service.ts:71-80`), so that the result page never has to wait, nor to offer *Try Again*, although
  the form says that proofs are generated asynchronously. A crash in a compiler or in the set-up leaves a partial file that
  poisons the circuit. A crash between `Store` and the acknowledgement runs a COMPLETED job again. A job
  that stalls too often is failed with its row GENERATING for ever. A list that saw the FAILED of an attempt stops
  polling although a retry may complete, and so it does after one failed fetch; the result page when its
  first load fails.
* Proof requests. The respond page rejects with an empty `proofId`, which the DTO refuses
  (`proofs/proof.controller.ts:52`).

## What is not modelled, and why

* Read-only endpoints, listings, audit queries and the admin dashboard: no state change.
* Configuration and wiring: read once at start-up. Where a value matters (mock mode,
  `ISSUER_PUBLIC_KEY`, Veriff's key) it is a variable or constant of the module that reads it.
* Signatures, SHA-256, XDR and ScVal encoding: library code without state. What a signature is over
  and what an encoding loses is modelled where a property depends on it.
* The issuer-registry contract: its answer is logged and decides nothing, and its
  writes are not awaited.
* In the client: landing, documentation and layout without state; the pages for profile,
  requests and responses, which only call the API that `ProofRequests` and
  `Credentials` model for calls arriving at any time.
* The server's reads from Horizon and `manageData` beyond the transaction it submits.
* Circuits: arithmetic constraints without state.
* `invokeContract` below a revocation is the coarse step of `Credentials`. That `Submission`
  keeps the promise of `ChainCall` is checked and proved; that this promise allows no more than
  the coarse step is argued above: `Credentials` keeps hashes and no counts of transactions.
