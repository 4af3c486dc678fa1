------------------------------ MODULE KycRegistry ------------------------------
(***************************************************************************)
(* The KYC registry contract, the server's client of it and the scripts    *)
(* that deploy it.  Invocations arrive in transactions that the network    *)
(* refuses, drops or executes one at a time.  The client sends without     *)
(* looking at sendTransaction's status; only verifyProof waits, polling    *)
(* until the RPC server knows the transaction.  A script waits for each of *)
(* its transactions and stops at the first that fails.                     *)
(*                                                                         *)
(* No wallet is ever verified: the contract's parse_attestation rejects    *)
(* every payload.  So the registry has no verified or revoked users here,  *)
(* and revoke ends in UserNotFound for whoever may call it.                *)
(***************************************************************************)
EXTENDS Naturals

CONSTANTS
    Accounts,    \* who signs transactions: the server and others
    Server,      \* the account of STELLAR_SERVER_SECRET
    Keys,        \* backend public keys
    Circuits,
    AgeProof,    \* the circuit that deploy-contract.js uploads the key of
    Deployer,    \* the account of STELLAR_SECRET
    Admin,       \* ADMIN_ADDRESS of the deployment
    ZeroKey,     \* the backend key that deploy-contract.js initialises with
    MaxInputs,   \* bound: public inputs of a proof
    Txs,         \* pool of transactions
    Calls,       \* pool of requests to the server
    None

ASSUME KycAssumption ==
    /\ {Server, Deployer, Admin} \subseteq Accounts
    /\ AgeProof \in Circuits /\ ZeroKey \in Keys
    /\ MaxInputs \in Nat
    /\ None \notin Keys \cup Accounts \cup Circuits \cup Txs \cup Nat

VARIABLES
    contract,   \* the registry's instance storage
    tx,         \* the transactions and what the network made of them
    mode,       \* useMockMode of the running server
    call,       \* the requests to the server
    deploy      \* the deployment script of this contract

vars == <<contract, tx, mode, call, deploy>>

-------------------------------------------------------------------------------
\* Keys and proofs are byte strings, of which the contract sees the lengths.
G1_SIZE == 64
G2_SIZE == 128
VK_FIXED_BYTES == G1_SIZE + 3 * G2_SIZE
PROOF_SIZE == G1_SIZE + G2_SIZE + G1_SIZE

\* tools/vk_to_hex.js: a key for a number of inputs has one more point than there are inputs.
VkToHex(inputs) == VK_FIXED_BYTES + (inputs + 1) * G1_SIZE

\* tools/proof_to_hex.js: pi_a, pi_b, pi_c.
ProofToHex == 2 * G1_SIZE + G2_SIZE

Inputs == 0 .. MaxInputs
Lengths == {VkToHex(n) : n \in Inputs}

\* A request may also carry anything else for a proof, such as nothing.
Proofs == [op : {"verify_proof"}, circuit : Circuits, length : {0, ProofToHex}, inputs : Inputs]

Initializations == [op : {"initialize"}, key : Keys, admin : Accounts]

AdminCalls ==
    [op : {"set_vk"}, admin : Accounts, circuit : Circuits, vk : Lengths]
      \cup [op : {"rotate_backend_key"}, admin : Accounts, key : Keys]
      \cup [op : {"revoke"}, admin : Accounts]

Invocations == Proofs \cup Initializations \cup AdminCalls
                 \cup [op : {"verify_attestation"}]

\* "true" and "false" are both SUCCESS to getTransaction, which the client asks.
Executed == {"true", "false", "failed"}
Blanks == {"free", "refused", "expired"} \cup Executed

Storage == [key : Keys \cup {None}, admin : Accounts \cup {None},
            vk : [Circuits -> Lengths \cup {None}]]

\* What an ended transaction did is in the storage; only its end is kept.
Blank(st) == [inv |-> None, by |-> None, st |-> st]

Requests == [op : {"none", "initialize", "verify", "submitSigned", "other"},
             pc : {"idle", "send", "poll", "done"},
             inv : Proofs \cup Initializations \cup {None}, tx : Txs \cup {None},
             answer : {"none", "hash", "xdr", "true", "false", "error"}]

Idle == [op |-> "none", pc |-> "idle", inv |-> None, tx |-> None, answer |-> "none"]

\* circuit is the one whose key is being uploaded, todo are those still to come.
Deployments == [script : {"js", "sh"}, pc : {"initialize", "set_vk", "test", "done", "stopped"},
                circuit : Circuits \cup {None}, todo : SUBSET Circuits, tx : Txs \cup {None}]

\* deploy.sh uploads the keys of all circuits but does not initialise the registry.
Start(script) ==
    [script |-> script, circuit |-> None, tx |-> None,
     pc |-> IF script = "js" THEN "initialize" ELSE "set_vk",
     todo |-> IF script = "js" THEN {AgeProof} ELSE Circuits]

Init ==
    /\ contract = [key |-> None, admin |-> None, vk |-> [c \in Circuits |-> None]]
    /\ tx = [t \in Txs |-> Blank("free")]
    /\ mode \in {"mock", "chain"}
    /\ call = [k \in Calls |-> Idle]
    /\ deploy \in {Start("js"), Start("sh")}

-------------------------------------------------------------------------------
(* The contract.                                                           *)

IsInitialized == contract.key # None

\* The admin argument has authorised the call, by signing the transaction it is in.
RequireAuth(t) == tx[t].inv.admin = tx[t].by

RequireAdmin(t) == IsInitialized /\ tx[t].inv.admin = contract.admin

\* A transaction not yet used: which one is taken makes no difference.
Fresh(t) == tx[t].st = "free" /\ t = CHOOSE u \in Txs : tx[u].st = "free"

Executes(t, op) == tx[t].st = "out" /\ tx[t].inv.op = op
Ends(t, st) == tx' = [tx EXCEPT ![t] = Blank(st)]

\* Mutated form: the check that it runs once is dropped.
InitializeAgain(t) ==
    /\ Executes(t, "initialize")
    /\ contract' = [contract EXCEPT !.key = tx[t].inv.key, !.admin = tx[t].inv.admin]
    /\ Ends(t, "true")
    /\ UNCHANGED <<mode, call, deploy>>

Initialize(t) ==
    /\ Executes(t, "initialize")
    /\ ~IsInitialized
    /\ contract' = [contract EXCEPT !.key = tx[t].inv.key, !.admin = tx[t].inv.admin]
    /\ Ends(t, "true")
    /\ UNCHANGED <<mode, call, deploy>>

SetVk(t) ==
    /\ Executes(t, "set_vk")
    /\ RequireAuth(t) /\ RequireAdmin(t)
    /\ contract' = [contract EXCEPT !.vk[tx[t].inv.circuit] = tx[t].inv.vk]
    /\ Ends(t, "true")
    /\ UNCHANGED <<mode, call, deploy>>

RotateBackendKey(t) ==
    /\ Executes(t, "rotate_backend_key")
    /\ RequireAuth(t) /\ RequireAdmin(t)
    /\ contract' = [contract EXCEPT !.key = tx[t].inv.key]
    /\ Ends(t, "true")
    /\ UNCHANGED <<mode, call, deploy>>

\* groth16::verify compares lengths and nothing else.
Groth16Verify(vk, proof) ==
    /\ proof.length = PROOF_SIZE
    /\ vk = VK_FIXED_BYTES + (proof.inputs + 1) * G1_SIZE

VerifyProof(t) ==
    /\ Executes(t, "verify_proof")
    /\ Ends(t, IF Groth16Verify(contract.vk[tx[t].inv.circuit], tx[t].inv)
                 THEN "true" ELSE "false")
    /\ UNCHANGED <<contract, mode, call, deploy>>

\* NotInitialized, or InvalidPayload from parse_attestation.
VerifyAttestation(t) ==
    /\ Executes(t, "verify_attestation")
    /\ Ends(t, "failed")
    /\ UNCHANGED <<contract, mode, call, deploy>>

\* No authority, or UserNotFound.
Revoke(t) ==
    /\ Executes(t, "revoke")
    /\ Ends(t, "failed")
    /\ UNCHANGED <<contract, mode, call, deploy>>

\* The errors of the other operations.  A failed transaction changes nothing.
Rejects(t) ==
    /\ \/ Executes(t, "initialize") /\ IsInitialized
       \/ /\ Executes(t, "set_vk") \/ Executes(t, "rotate_backend_key")
          /\ ~(RequireAuth(t) /\ RequireAdmin(t))
    /\ Ends(t, "failed")
    /\ UNCHANGED <<contract, mode, call, deploy>>

Contract(t) ==
    \/ Initialize(t) \/ SetVk(t) \/ RotateBackendKey(t) \/ VerifyProof(t)
    \/ VerifyAttestation(t) \/ Revoke(t) \/ Rejects(t)

\* The host stops the call: a resource limit, a fee, an archived entry.
Traps(t) ==
    /\ tx[t].st = "out"
    /\ Ends(t, "failed")
    /\ UNCHANGED <<contract, mode, call, deploy>>

\* The time bound of setTimeout(30) passes first.
Expires(t) ==
    /\ tx[t].st = "out"
    /\ Ends(t, "expired")
    /\ UNCHANGED <<contract, mode, call, deploy>>

\* Another account invokes the contract.  One at a time: nobody acts on an invocation
\* before it has ended, so these can still execute in every order.
Invoke(t, by) ==
    /\ Fresh(t) /\ by # Server
    /\ \A u \in Txs \ {deploy.tx} : tx[u].st = "out" => tx[u].by = Server
    /\ \E i \in Invocations : tx' = [tx EXCEPT ![t] = [inv |-> i, by |-> by, st |-> "out"]]
    /\ UNCHANGED <<contract, mode, call, deploy>>

-------------------------------------------------------------------------------
(* The server.                                                             *)

At(k, pc) == call[k].pc = pc
Answer(k, answer) ==
    call' = [call EXCEPT ![k].pc = "done", ![k].inv = None, ![k].answer = answer]

Receive(k, op, invs) ==
    /\ At(k, "idle")
    /\ \E i \in invs :
         call' = [call EXCEPT ![k] = [op |-> op, pc |-> "send", inv |-> i, tx |-> None, answer |-> "none"]]
    /\ UNCHANGED <<contract, tx, mode, deploy>>

InitializeRequest(k) == Receive(k, "initialize", Initializations)
VerifyRequest(k) == Receive(k, "verify", Proofs)

\* A transaction that buildVerifyProofTransaction made and the wallet signed.
SubmitSignedRequest(k) == Receive(k, "submitSigned", Proofs)

\* A request that is over without a transaction.
AnswerAtOnce(k, answers) ==
    /\ At(k, "idle")
    /\ \E answer \in answers :
         call' = [call EXCEPT ![k] = [Idle EXCEPT !.op = "other", !.pc = "done", !.answer = answer]]
    /\ UNCHANGED <<contract, tx, mode, deploy>>

\* The validation pipe refuses every property of a body whose class decorates none.
Passes(body) == body = "empty"
Bodies == {"empty", "filled"}

\* The attestation of whatever was asked, its fields joined with bars.
SignAttestation == "bars"
ParsesAsJson(payload) == payload = "json"

\* With every payload of the signer, verifyAttestation throws before it records anything.
SubmitVerification(k) ==
    AnswerAtOnce(k, {IF Passes(b) /\ ParsesAsJson(SignAttestation) THEN "hash" ELSE "error" : b \in Bodies})

\* A body that passes names no wallet, and revokeUser throws without one.
RevokeVerification(k) == AnswerAtOnce(k, {"error"})

\* Without a key there is nothing to encode; the mock does not look at it.
RotateKey(k) ==
    AnswerAtOnce(k, {IF Passes(b) /\ mode = "mock" THEN "hash" ELSE "error" : b \in Bodies})

\* isVerified and getVerification read the server's own map, which nothing fills.
ReadVerification(k) == AnswerAtOnce(k, {"false"})

\* The transaction for the wallet to sign; its account has to exist.
BuildVerifyProofTransaction(k) ==
    AnswerAtOnce(k, IF mode = "mock" THEN {"xdr"} ELSE {"xdr", "error"})

Mocked(k) ==
    /\ At(k, "send") /\ mode = "mock"
    /\ Answer(k, IF call[k].op = "verify" THEN "true" ELSE "hash")
    /\ UNCHANGED <<contract, tx, mode, deploy>>

\* A node does not answer, or an argument cannot be encoded, before anything is sent.
\* verifyProof takes a failing simulation for a verdict.
FailsBeforeSend(k) ==
    /\ At(k, "send") /\ mode = "chain"
    /\ Answer(k, "error") \/ (call[k].op = "verify" /\ Answer(k, "false"))
    /\ UNCHANGED <<contract, tx, mode, deploy>>

Signers(k) == IF call[k].op = "submitSigned" THEN Accounts \ {Server} ELSE {Server}

Transaction(k, by) == [inv |-> call[k].inv, by |-> by, st |-> "out"]

\* sendTransaction.  Whatever status it answers with, a hash comes with it.
Send(k) ==
    /\ At(k, "send") /\ mode = "chain"
    /\ \E t \in Txs, by \in Signers(k) :
         /\ Fresh(t)
         /\ \/ tx' = [tx EXCEPT ![t] = Transaction(k, by)]
            \/ tx' = [tx EXCEPT ![t] = Blank("refused")]
         /\ call' = IF call[k].op = "verify"
                      THEN [call EXCEPT ![k].pc = "poll", ![k].inv = None, ![k].tx = t]
                      ELSE [call EXCEPT ![k].pc = "done", ![k].inv = None, ![k].answer = "hash"]
    /\ UNCHANGED <<contract, mode, deploy>>

\* sendTransaction throws; the transaction may be out.
SendLost(k) ==
    /\ At(k, "send") /\ mode = "chain"
    /\ \E t \in Txs, by \in Signers(k) :
         /\ Fresh(t)
         /\ tx' = [tx EXCEPT ![t] = Transaction(k, by)]
    /\ Answer(k, "error")
    /\ UNCHANGED <<contract, mode, deploy>>

\* Mutated form: the status itself is answered.
PollRaw(k) ==
    /\ At(k, "poll")
    /\ tx[call[k].tx].st \in Executed
    /\ Answer(k, tx[call[k].tx].st)
    /\ UNCHANGED <<contract, tx, mode, deploy>>

\* Mutated form: the loop waits for success rather than for a result.
PollUntilSuccess(k) ==
    /\ At(k, "poll")
    /\ tx[call[k].tx].st \in {"true", "false"}
    /\ Answer(k, "true")
    /\ UNCHANGED <<contract, tx, mode, deploy>>

\* Mutated form: what is known of the transaction at the first poll is the verdict.
PollOnce(k) ==
    /\ At(k, "poll")
    /\ Answer(k, IF tx[call[k].tx].st = "failed" THEN "false" ELSE "true")
    /\ UNCHANGED <<contract, tx, mode, deploy>>

\* The poll that finds the transaction.  The contract's return value is not read.  One
\* that finds nothing changes nothing and is repeated, without an end.
Poll(k) ==
    /\ At(k, "poll")
    /\ tx[call[k].tx].st \in Executed
    /\ Answer(k, IF tx[call[k].tx].st = "failed" THEN "false" ELSE "true")
    /\ UNCHANGED <<contract, tx, mode, deploy>>

PollFails(k) ==
    /\ At(k, "poll")
    /\ Answer(k, "error")
    /\ UNCHANGED <<contract, tx, mode, deploy>>

\* A restart ends every request and reads the configuration again.
Restart ==
    /\ mode' \in {"mock", "chain"}
    /\ call' = [k \in Calls |-> IF At(k, "idle") \/ At(k, "done") THEN call[k]
                                ELSE [call[k] EXCEPT !.pc = "done", !.inv = None]]
    /\ UNCHANGED <<contract, tx, deploy>>

-------------------------------------------------------------------------------
(* The scripts.                                                            *)

Launch(i, circuit) ==
    /\ deploy.tx = None
    /\ \E t \in Txs :
         /\ Fresh(t)
         /\ tx' = [tx EXCEPT ![t] = [inv |-> i, by |-> Deployer, st |-> "out"]]
         /\ deploy' = [deploy EXCEPT !.tx = t, !.circuit = circuit,
                                     !.todo = deploy.todo \ {circuit}]
    /\ UNCHANGED <<contract, mode, call>>

DeployInitialize ==
    /\ deploy.pc = "initialize"
    /\ Launch([op |-> "initialize", key |-> ZeroKey, admin |-> Admin], None)

DeployVk ==
    /\ deploy.pc = "set_vk"
    /\ \E c \in deploy.todo, vk \in Lengths :
         Launch([op |-> "set_vk", admin |-> Admin, circuit |-> c, vk |-> vk], c)

NextCommand ==
    IF deploy.pc = "initialize" \/ deploy.todo # {} THEN "set_vk"
    ELSE IF deploy.script = "js" THEN "test" ELSE "done"

Continue ==
    /\ deploy' = [deploy EXCEPT !.tx = None, !.circuit = None, !.pc = NextCommand]
    /\ UNCHANGED <<contract, tx, mode, call>>

\* Mutated form: a command that failed is passed over.
DeployGoesOnAnyway ==
    /\ deploy.tx # None /\ tx[deploy.tx].st \in Executed
    /\ Continue

\* The command returns when its transaction has succeeded.
DeployGoesOn ==
    /\ deploy.tx # None /\ tx[deploy.tx].st \in {"true", "false"}
    /\ Continue

\* A failed command, or somebody, ends the script.
DeployStops ==
    /\ deploy.pc \notin {"done", "stopped"}
    /\ deploy' = [deploy EXCEPT !.pc = "stopped", !.tx = None]
    /\ UNCHANGED <<contract, tx, mode, call>>

\* verify_proof writes nothing: the command simulates it and sends no transaction.
DeployTest ==
    /\ deploy.pc = "test"
    /\ deploy' = [deploy EXCEPT !.pc = "done"]
    /\ UNCHANGED <<contract, tx, mode, call>>

Deploy == DeployInitialize \/ DeployVk \/ DeployGoesOn \/ DeployStops \/ DeployTest

-------------------------------------------------------------------------------
Request(k) ==
    \/ InitializeRequest(k) \/ VerifyRequest(k) \/ SubmitSignedRequest(k)
    \/ SubmitVerification(k) \/ RevokeVerification(k) \/ RotateKey(k)
    \/ ReadVerification(k) \/ BuildVerifyProofTransaction(k)

Step(k) == Mocked(k) \/ FailsBeforeSend(k) \/ Send(k) \/ SendLost(k) \/ Poll(k) \/ PollFails(k)

Next ==
    \/ \E k \in Calls : Request(k) \/ Step(k)
    \/ \E t \in Txs : Contract(t) \/ Traps(t) \/ Expires(t) \/ \E by \in Accounts : Invoke(t, by)
    \/ Restart
    \/ Deploy

\* The loop in verifyProof polls again every second for as long as the process runs.
Spec == Init /\ [][Next]_vars /\ \A k \in Calls : WF_vars(Poll(k))

-------------------------------------------------------------------------------
\* Type invariant.
TypeOK ==
    /\ contract \in Storage
    /\ tx \in [Txs -> [inv : Invocations, by : Accounts, st : {"out"}]
                        \cup [inv : {None}, by : {None}, st : Blanks]]
    /\ mode \in {"mock", "chain"}
    /\ call \in [Calls -> Requests]
    /\ deploy \in Deployments

\* The first initialisation names the administrator for good, and nothing but a
\* transaction that this account signed changes the backend key or a verification key
\* afterwards (contract.rs initialize, set_vk, rotate_backend_key with require_admin).
AdminDecides ==
    [][contract' # contract /\ contract.admin # None =>
         /\ contract'.admin = contract.admin
         /\ \E t \in Txs : /\ tx'[t] # tx[t]
                           /\ tx[t].by = contract.admin]_vars

\* A script that reports a deployed registry leaves one that its own ADMIN_ADDRESS
\* governs and that has a key for every circuit it was to upload, whoever initialised
\* the registry first and however slow the network was (deploy-contract.js execCommand,
\* deploy.sh `set -e').
Uploads == Start(deploy.script).todo
DeployedIsReady ==
    deploy.pc \in {"test", "done"} =>
      contract.admin = Admin /\ \A c \in Uploads : contract.vk[c] # None

\* On the chain a verdict of verifyProof is never a guess: TRUE is answered only for a
\* transaction that the network executed, and a FALSE that followed a transaction means
\* that it failed there, not that it was slow (verifyProof's polling loop).
VerdictIsExecuted ==
    \A k \in Calls : call[k].op = "verify" /\ call[k].tx # None =>
      /\ call[k].answer = "true" => tx[call[k].tx].st \in {"true", "false"}
      /\ call[k].answer = "false" => tx[call[k].tx].st = "failed"

\* A verification whose transaction the network executed is answered, whatever the
\* result was (verifyProof's polling loop).
ExecutedIsAnswered ==
    \A k \in Calls :
      At(k, "poll") /\ tx[call[k].tx].st \in Executed ~> At(k, "done")
===============================================================================
