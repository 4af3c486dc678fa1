--------------------------- MODULE KycRegistryProofs ---------------------------
(***************************************************************************)
(* Proofs about the KYC registry and its client, for any number of         *)
(* accounts, keys, circuits, transactions and requests.                    *)
(***************************************************************************)
EXTENDS KycRegistry, TLAPS

Out == [inv : Invocations, by : Accounts, st : {"out"}]
Spent == [inv : {None}, by : {None}, st : Blanks]

\* A verification key is not taken for a missing one.
LEMMA KeyIsSomething == None \notin Lengths
<1>1. \A n \in Inputs : VkToHex(n) \in Nat
  BY KycAssumption DEF Inputs, VkToHex, VK_FIXED_BYTES, G1_SIZE, G2_SIZE
<1>2. QED
  BY <1>1, KycAssumption DEF Lengths

-------------------------------------------------------------------------------
LEMMA InitTyped == Init => TypeOK
<1> SUFFICES ASSUME Init PROVE TypeOK
  OBVIOUS
<1>1. Idle \in Requests
  BY DEF Idle, Requests
<1>2. "free" \in Blanks
  BY DEF Blanks
<1>3. Start("js") \in Deployments /\ Start("sh") \in Deployments
  BY KycAssumption DEF Start, Deployments
<1>4. QED
  BY <1>1, <1>2, <1>3 DEF Init, TypeOK, Storage, Blank

\* The contract's steps leave its storage and the transactions well typed.
LEMMA ContractTyped ==
    ASSUME TypeOK, NEW t \in Txs, Contract(t) \/ Traps(t) \/ Expires(t)
    PROVE  TypeOK'
<1> USE DEF TypeOK
<1>1. ASSUME tx[t].st = "out"
      PROVE  tx[t] \in Out
  BY <1>1 DEF Out, Blanks, Executed
<1>2. ASSUME NEW st \in Blanks, Ends(t, st)
      PROVE  tx' \in [Txs -> Out \cup Spent]
  BY <1>2 DEF Ends, Blank, Out, Spent
<1>3. /\ "true" \in Blanks /\ "false" \in Blanks /\ "failed" \in Blanks
      /\ "expired" \in Blanks
  BY DEF Blanks, Executed
<1>4. CASE Initialize(t)
  <2>1. tx[t] \in Out /\ tx[t].inv.op = "initialize"
    BY <1>1, <1>4 DEF Initialize, Executes
  <2>2. tx[t].inv \in Initializations
    BY <2>1 DEF Out, Invocations, Proofs, Initializations, AdminCalls
  <2>3. contract' \in Storage
    BY <2>2, <1>4 DEF Initialize, Storage, Initializations
  <2>4. QED
    BY <2>3, <1>2, <1>3, <1>4 DEF Initialize, Out, Spent
<1>5. CASE SetVk(t)
  <2>1. tx[t] \in Out /\ tx[t].inv.op = "set_vk"
    BY <1>1, <1>5 DEF SetVk, Executes
  <2>2. tx[t].inv \in [op : {"set_vk"}, admin : Accounts, circuit : Circuits, vk : Lengths]
    BY <2>1 DEF Out, Invocations, Proofs, Initializations, AdminCalls
  <2>3. contract' \in Storage
    BY <2>2, <1>5 DEF SetVk, Storage
  <2>4. QED
    BY <2>3, <1>2, <1>3, <1>5 DEF SetVk, Out, Spent
<1>6. CASE RotateBackendKey(t)
  <2>1. tx[t] \in Out /\ tx[t].inv.op = "rotate_backend_key"
    BY <1>1, <1>6 DEF RotateBackendKey, Executes
  <2>2. tx[t].inv \in [op : {"rotate_backend_key"}, admin : Accounts, key : Keys]
    BY <2>1 DEF Out, Invocations, Proofs, Initializations, AdminCalls
  <2>3. contract' \in Storage
    BY <2>2, <1>6 DEF RotateBackendKey, Storage
  <2>4. QED
    BY <2>3, <1>2, <1>3, <1>6 DEF RotateBackendKey, Out, Spent
<1>7. CASE VerifyProof(t)
  <2> DEFINE st == IF Groth16Verify(contract.vk[tx[t].inv.circuit], tx[t].inv)
                     THEN "true" ELSE "false"
  <2>1. st \in Blanks /\ Ends(t, st)
    BY <1>3, <1>7 DEF VerifyProof
  <2> HIDE DEF st
  <2>2. QED
    BY <2>1, <1>2, <1>7 DEF VerifyProof, Out, Spent
<1>8. CASE VerifyAttestation(t) \/ Revoke(t) \/ Rejects(t) \/ Traps(t)
  BY <1>2, <1>3, <1>8 DEF VerifyAttestation, Revoke, Rejects, Traps, Out, Spent
<1>9. CASE Expires(t)
  BY <1>2, <1>3, <1>9 DEF Expires, Out, Spent
<1>10. QED
  BY <1>4, <1>5, <1>6, <1>7, <1>8, <1>9 DEF Contract

\* A request that has yet to send knows what, and has no transaction; one that polls
\* is a verification without an answer; a transaction that a request has was sent.
Waiting(k) ==
    /\ call[k].pc = "send" => call[k].inv \in Proofs \cup Initializations
    /\ call[k].pc \in {"idle", "send"} => call[k].tx = None /\ call[k].answer = "none"
    /\ call[k].pc = "poll" => call[k].answer = "none" /\ call[k].tx # None
    /\ call[k].tx # None => tx[call[k].tx].st # "free"

Pending == \A k \in Calls : Waiting(k)

\* The requests that end without a transaction.
Immediate(k) ==
    \/ SubmitVerification(k) \/ RevokeVerification(k) \/ RotateKey(k)
    \/ ReadVerification(k) \/ BuildVerifyProofTransaction(k)

LEMMA AtOnce ==
    ASSUME NEW k \in Calls, Immediate(k)
    PROVE  \E answers \in SUBSET {"hash", "xdr", "false", "error"} : AnswerAtOnce(k, answers)
BY DEF Immediate, SubmitVerification, RevokeVerification, RotateKey, ReadVerification,
       BuildVerifyProofTransaction

\* So do the steps of the server and of the other accounts.
LEMMA ServerTyped ==
    ASSUME TypeOK, Pending, NEW k \in Calls, Request(k) \/ Step(k)
    PROVE  TypeOK'
<1> USE DEF TypeOK
<1>1. call[k] \in Requests
  OBVIOUS
<1>2. ASSUME NEW answer \in {"hash", "xdr", "true", "false", "error"}, Answer(k, answer)
      PROVE  call' \in [Calls -> Requests]
  BY <1>1, <1>2 DEF Answer, Requests
<1>3. ASSUME NEW op \in {"initialize", "verify", "submitSigned"},
             NEW invs \in SUBSET (Proofs \cup Initializations), Receive(k, op, invs)
      PROVE  TypeOK'
  <2>1. ASSUME NEW i \in invs
        PROVE  [op |-> op, pc |-> "send", inv |-> i, tx |-> None, answer |-> "none"] \in Requests
    BY DEF Requests
  <2>2. QED
    BY <2>1, <1>3 DEF Receive
<1>4. CASE InitializeRequest(k)
  BY <1>3, <1>4 DEF InitializeRequest
<1>5. CASE VerifyRequest(k)
  BY <1>3, <1>5 DEF VerifyRequest
<1>6. CASE SubmitSignedRequest(k)
  BY <1>3, <1>6 DEF SubmitSignedRequest
<1>7. CASE Immediate(k)
  <2>1. PICK answer \in {"hash", "xdr", "false", "error"} : call' = [call EXCEPT ![k] =
                 [Idle EXCEPT !.op = "other", !.pc = "done", !.answer = answer]]
    BY <1>7, AtOnce DEF AnswerAtOnce
  <2>2. [Idle EXCEPT !.op = "other", !.pc = "done", !.answer = answer] \in Requests
    BY DEF Idle, Requests
  <2>3. QED
    BY <2>1, <2>2, <1>7, AtOnce DEF AnswerAtOnce
<1>8. CASE Mocked(k)
  BY <1>2, <1>8 DEF Mocked
<1>9. CASE FailsBeforeSend(k)
  BY <1>2, <1>9 DEF FailsBeforeSend
<1>10. CASE Poll(k)
  BY <1>2, <1>10 DEF Poll
<1>11. CASE PollFails(k)
  BY <1>2, <1>11 DEF PollFails
<1>12. ASSUME At(k, "send"), NEW by \in Signers(k)
       PROVE  Transaction(k, by) \in Out
  BY <1>1, <1>12, KycAssumption
     DEF At, Pending, Waiting, Transaction, Out, Requests, Signers, Invocations
<1>13. CASE Send(k)
  <2>1. PICK t \in Txs, by \in Signers(k) :
             \/ tx' = [tx EXCEPT ![t] = Transaction(k, by)]
             \/ tx' = [tx EXCEPT ![t] = Blank("refused")]
    BY <1>13 DEF Send
  <2>2. tx' \in [Txs -> Out \cup Spent]
    <3>1. Blank("refused") \in Spent
      BY DEF Blank, Spent, Blanks
    <3>2. Transaction(k, by) \in Out
      BY <1>12, <1>13 DEF Send
    <3>3. QED
      BY <2>1, <3>1, <3>2 DEF Out, Spent
  <2>3. PICK t2 \in Txs :
             call' = IF call[k].op = "verify"
                       THEN [call EXCEPT ![k].pc = "poll", ![k].inv = None, ![k].tx = t2]
                       ELSE [call EXCEPT ![k].pc = "done", ![k].inv = None, ![k].answer = "hash"]
    BY <1>13 DEF Send
  <2>4. call' \in [Calls -> Requests]
    BY <2>3, <1>1 DEF Requests
  <2>5. QED
    BY <2>2, <2>4, <1>13 DEF Send, Out, Spent
<1>14. CASE SendLost(k)
  <2>1. PICK t \in Txs, by \in Signers(k) : tx' = [tx EXCEPT ![t] = Transaction(k, by)]
    BY <1>14 DEF SendLost
  <2>2. tx' \in [Txs -> Out \cup Spent]
    BY <2>1, <1>12, <1>14 DEF SendLost, Out, Spent
  <2>3. QED
    BY <2>2, <1>2, <1>14 DEF SendLost, Out, Spent
<1>16. QED
  BY <1>4, <1>5, <1>6, <1>7, <1>8, <1>9, <1>10, <1>11, <1>13, <1>14
     DEF Request, Step, Immediate

\* And those of the other accounts, the script and a restart.
LEMMA OthersTyped ==
    ASSUME TypeOK, (\E t \in Txs, by \in Accounts : Invoke(t, by)) \/ Restart \/ Deploy
    PROVE  TypeOK'
<1> USE DEF TypeOK
<1>1. ASSUME NEW t \in Txs, NEW by \in Accounts, Invoke(t, by)
      PROVE  TypeOK'
  <2>1. PICK i \in Invocations : tx' = [tx EXCEPT ![t] = [inv |-> i, by |-> by, st |-> "out"]]
    BY <1>1 DEF Invoke
  <2>2. tx' \in [Txs -> Out \cup Spent]
    BY <2>1 DEF Out, Spent
  <2>3. QED
    BY <2>2, <1>1 DEF Invoke, Out, Spent
<1>2. CASE Restart
  <2>1. \A k \in Calls : call[k] \in Requests /\ [call[k] EXCEPT !.pc = "done", !.inv = None] \in Requests
    BY DEF Requests
  <2>2. call' \in [Calls -> Requests]
    BY <2>1, <1>2 DEF Restart
  <2>3. QED
    BY <2>2, <1>2 DEF Restart
<1>3. ASSUME NEW i \in Initializations \cup AdminCalls, NEW c \in Circuits \cup {None}, Launch(i, c)
      PROVE  TypeOK'
  <2>1. [inv |-> i, by |-> Deployer, st |-> "out"] \in Out
    BY KycAssumption DEF Out, Invocations
  <2>2. tx' \in [Txs -> Out \cup Spent]
    BY <2>1, <1>3 DEF Launch, Out, Spent
  <2>3. deploy' \in Deployments
    <3>1. PICK t \in Txs : deploy' = [deploy EXCEPT !.tx = t, !.circuit = c,
                                                   !.todo = deploy.todo \ {c}]
      BY <1>3 DEF Launch
    <3>2. deploy.todo \ {c} \in SUBSET Circuits
      BY DEF Deployments
    <3>3. QED
      BY <3>1, <3>2 DEF Deployments
  <2>4. QED
    BY <2>2, <2>3, <1>3 DEF Launch, Out, Spent
<1>4. CASE DeployInitialize
  <2>1. [op |-> "initialize", key |-> ZeroKey, admin |-> Admin] \in Initializations
    BY KycAssumption DEF Initializations
  <2>2. QED
    BY <2>1, <1>3, <1>4 DEF DeployInitialize
<1>5. CASE DeployVk
  <2>1. PICK c \in deploy.todo, vk \in Lengths :
             Launch([op |-> "set_vk", admin |-> Admin, circuit |-> c, vk |-> vk], c)
    BY <1>5 DEF DeployVk
  <2>2. c \in Circuits
    BY DEF Deployments
  <2>3. [op |-> "set_vk", admin |-> Admin, circuit |-> c, vk |-> vk] \in AdminCalls
    BY <2>2, KycAssumption DEF AdminCalls
  <2>4. QED
    BY <2>1, <2>2, <2>3, <1>3
<1>6. CASE DeployGoesOn
  BY <1>6 DEF DeployGoesOn, Continue, NextCommand, Deployments
<1>7. CASE DeployStops \/ DeployTest
  BY <1>7 DEF DeployStops, DeployTest, Deployments
<1>8. QED
  BY <1>1, <1>2, <1>4, <1>5, <1>6, <1>7 DEF Deploy

-------------------------------------------------------------------------------
(* Once named, the administrator is of a registry that is initialised.     *)
Named == contract.admin # None => contract.key # None

\* The verdict of one request.
Verdict(k) ==
    call[k].op = "verify" /\ call[k].tx # None =>
      /\ call[k].answer = "true" => tx[call[k].tx].st \in {"true", "false"}
      /\ call[k].answer = "false" => tx[call[k].tx].st = "failed"

IInv == TypeOK /\ Pending /\ Named /\ \A k \in Calls : Verdict(k)

LEMMA NextTyped == TypeOK /\ Pending /\ [Next]_vars => TypeOK'
<1> SUFFICES ASSUME TypeOK, Pending, [Next]_vars PROVE TypeOK'
  OBVIOUS
<1>1. CASE UNCHANGED vars
  BY <1>1 DEF vars, TypeOK
<1>2. CASE Next
  BY <1>2, ContractTyped, ServerTyped, OthersTyped DEF Next
<1>3. QED
  BY <1>1, <1>2

-------------------------------------------------------------------------------
\* A step of the network ends one transaction that is out, and no request notices.
LEMMA NetworkSteps ==
    ASSUME TypeOK, NEW t \in Txs, Contract(t) \/ Traps(t) \/ Expires(t)
    PROVE  /\ tx[t].st = "out"
           /\ \E st \in Blanks \ {"free"} : Ends(t, st)
           /\ call' = call
BY DEF Contract, Initialize, SetVk, RotateBackendKey, VerifyProof, VerifyAttestation,
       Revoke, Rejects, Traps, Expires, Executes, Blanks, Executed

\* A request's step leaves every transaction as it is, but a free one that it sends.
LEMMA RequestSteps ==
    ASSUME TypeOK, NEW k \in Calls, Request(k) \/ Step(k), NEW t \in Txs, tx[t].st # "free"
    PROVE  tx'[t] = tx[t] /\ contract' = contract
<1>1. CASE Send(k)
  <2>1. PICK u \in Txs, by \in Signers(k) :
             /\ tx[u].st = "free"
             /\ \/ tx' = [tx EXCEPT ![u] = Transaction(k, by)]
                \/ tx' = [tx EXCEPT ![u] = Blank("refused")]
    BY <1>1 DEF Send, Fresh
  <2>2. QED
    BY <2>1, <1>1 DEF TypeOK, Send
<1>2. CASE SendLost(k)
  <2>1. PICK u \in Txs, by \in Signers(k) :
             /\ tx[u].st = "free"
             /\ tx' = [tx EXCEPT ![u] = Transaction(k, by)]
    BY <1>2 DEF SendLost, Fresh
  <2>2. QED
    BY <2>1, <1>2 DEF TypeOK, SendLost
<1>3. CASE Immediate(k)
  BY <1>3, AtOnce DEF AnswerAtOnce
<1>4. QED
  BY <1>1, <1>2, <1>3 DEF Request, Immediate, Step, InitializeRequest, VerifyRequest,
     SubmitSignedRequest, Receive, Mocked, FailsBeforeSend, Poll, PollFails

\* Nor does a step of the script touch any but a free one.
LEMMA ScriptSteps ==
    ASSUME TypeOK, Deploy
    PROVE  /\ \A t \in Txs : tx[t].st # "free" => tx'[t] = tx[t]
           /\ contract' = contract /\ call' = call
<1>1. ASSUME NEW i, NEW c, Launch(i, c)
      PROVE  /\ \A t \in Txs : tx[t].st # "free" => tx'[t] = tx[t]
             /\ contract' = contract /\ call' = call
  BY <1>1 DEF Launch, Fresh, TypeOK
<1>2. CASE DeployInitialize \/ DeployVk
  BY <1>1, <1>2 DEF DeployInitialize, DeployVk
<1>3. QED
  BY <1>2 DEF Deploy, DeployGoesOn, Continue, DeployStops, DeployTest

\* What has ended stays as it is, and no transaction that was sent becomes free.
LEMMA EndsAreKept ==
    ASSUME TypeOK, [Next]_vars, NEW t \in Txs, tx[t].st # "free"
    PROVE  /\ tx'[t].st # "free"
           /\ tx[t].st # "out" => tx'[t] = tx[t]
<1>1. CASE UNCHANGED vars
  BY <1>1 DEF vars
<1>2. CASE \E u \in Txs : Contract(u) \/ Traps(u) \/ Expires(u)
  <2>1. PICK u \in Txs : Contract(u) \/ Traps(u) \/ Expires(u)
    BY <1>2
  <2>2. PICK st \in Blanks \ {"free"} : Ends(u, st)
    BY <2>1, NetworkSteps
  <2>3. tx[u].st = "out"
    BY <2>1, NetworkSteps
  <2>4. QED
    BY <2>2, <2>3 DEF Ends, Blank, TypeOK
<1>3. CASE \E u \in Txs, by \in Accounts : Invoke(u, by)
  BY <1>3 DEF Invoke, Fresh, TypeOK
<1>4. CASE Restart
  BY <1>4 DEF Restart
<1>5. CASE \E k \in Calls : Request(k) \/ Step(k)
  BY <1>5, RequestSteps
<1>6. CASE Deploy
  BY <1>6, ScriptSteps
<1>7. QED
  BY <1>1, <1>2, <1>3, <1>4, <1>5, <1>6 DEF Next

\* A request that a step does not touch keeps its verdict.
LEMMA UntouchedKept ==
    ASSUME TypeOK, [Next]_vars, NEW k \in Calls, call'[k] = call[k], Waiting(k), Verdict(k)
    PROVE  Waiting(k)' /\ Verdict(k)'
<1>1. CASE call[k].tx = None
  BY <1>1 DEF Waiting, Verdict
<1>2. CASE call[k].tx # None
  <2>1. call[k].tx \in Txs
    BY <1>2 DEF TypeOK, Requests
  <2>2. /\ tx[call[k].tx].st # "free"
        /\ tx'[call[k].tx].st # "free"
        /\ tx[call[k].tx].st # "out" => tx'[call[k].tx] = tx[call[k].tx]
    BY <1>2, <2>1, EndsAreKept DEF Waiting
  <2>3. QED
    BY <2>2 DEF Waiting, Verdict
<1>3. QED
  BY <1>1, <1>2

\* A request's own step gives a verdict that the ledger bears out.
LEMMA OwnStep ==
    ASSUME TypeOK, NEW k \in Calls, Request(k) \/ Step(k), Waiting(k), Verdict(k)
    PROVE  Waiting(k)' /\ Verdict(k)'
<1> USE DEF TypeOK, Waiting, Verdict, At
<1>1. ASSUME NEW op, NEW invs \in SUBSET (Proofs \cup Initializations), Receive(k, op, invs)
      PROVE  Waiting(k)' /\ Verdict(k)'
  BY <1>1 DEF Receive
<1>2. CASE InitializeRequest(k) \/ VerifyRequest(k) \/ SubmitSignedRequest(k)
  BY <1>1, <1>2 DEF InitializeRequest, VerifyRequest, SubmitSignedRequest
<1>3. CASE Immediate(k)
  <2>1. PICK answer : call' = [call EXCEPT ![k] =
                 [Idle EXCEPT !.op = "other", !.pc = "done", !.answer = answer]]
    BY <1>3, AtOnce DEF AnswerAtOnce
  <2>2. call'[k].op = "other" /\ call'[k].pc = "done" /\ call'[k].tx = None
    BY <2>1 DEF Idle
  <2>3. QED
    BY <2>2
<1>4. CASE Mocked(k)
  BY <1>4 DEF Mocked, Answer
<1>5. CASE FailsBeforeSend(k)
  <2>1. PICK answer \in {"error", "false"} : Answer(k, answer)
    BY <1>5 DEF FailsBeforeSend
  <2>2. call[k].tx = None
    BY <1>5 DEF FailsBeforeSend
  <2>3. call'[k].pc = "done" /\ call'[k].tx = None
    BY <2>1, <2>2 DEF Answer, Requests
  <2>4. QED
    BY <2>3
<1>6. CASE Send(k)
  <2>1. PICK t \in Txs, by \in Signers(k) :
             /\ \/ tx' = [tx EXCEPT ![t] = Transaction(k, by)]
                \/ tx' = [tx EXCEPT ![t] = Blank("refused")]
             /\ call' = IF call[k].op = "verify"
                          THEN [call EXCEPT ![k].pc = "poll", ![k].inv = None, ![k].tx = t]
                          ELSE [call EXCEPT ![k].pc = "done", ![k].inv = None, ![k].answer = "hash"]
    BY <1>6 DEF Send
  <2>2. tx'[t].st # "free" /\ t # None
    BY <2>1, KycAssumption DEF Transaction, Blank
  <2>3. call[k].pc = "send"
    BY <1>6 DEF Send
  <2>4. CASE call[k].op = "verify"
    BY <2>1, <2>2, <2>3, <2>4
  <2>5. CASE call[k].op # "verify"
    BY <2>1, <2>3, <2>5
  <2>6. QED
    BY <2>4, <2>5
<1>7. CASE SendLost(k)
  BY <1>7 DEF SendLost, Answer
<1>8. CASE Poll(k)
  <2> DEFINE answer == IF tx[call[k].tx].st = "failed" THEN "false" ELSE "true"
  <2>1. /\ call[k] \in Requests
        /\ call'[k] = [call[k] EXCEPT !.pc = "done", !.inv = None, !.answer = answer]
        /\ tx' = tx
    BY <1>8 DEF Poll, Answer
  <2>2. /\ call'[k].pc = "done" /\ call'[k].answer = answer
        /\ call'[k].tx = call[k].tx /\ call'[k].op = call[k].op
    BY <2>1 DEF Requests
  <2>3. tx[call[k].tx].st \in Executed
    BY <1>8 DEF Poll
  <2>4. QED
    BY <2>1, <2>2, <2>3 DEF Executed
<1>9. CASE PollFails(k)
  BY <1>9 DEF PollFails, Answer
<1>10. QED
  BY <1>2, <1>3, <1>4, <1>5, <1>6, <1>7, <1>8, <1>9 DEF Request, Immediate, Step

\* No other request is touched by it.
LEMMA OthersUntouched ==
    ASSUME TypeOK, NEW k \in Calls, Request(k) \/ Step(k), NEW j \in Calls \ {k}
    PROVE  call'[j] = call[j]
<1> USE DEF TypeOK
<1>1. CASE Request(k)
  BY <1>1, AtOnce DEF Request, InitializeRequest, VerifyRequest, SubmitSignedRequest, Receive,
     Immediate, AnswerAtOnce
<1>2. CASE Send(k)
  BY <1>2 DEF Send
<1>3. CASE SendLost(k) \/ Poll(k) \/ PollFails(k) \/ Mocked(k) \/ FailsBeforeSend(k)
  BY <1>3 DEF SendLost, Poll, PollFails, Mocked, FailsBeforeSend, Answer
<1>4. QED
  BY <1>1, <1>2, <1>3 DEF Step

\* A restart takes the verdict from no request.
LEMMA RestartKept ==
    ASSUME TypeOK, Restart, NEW k \in Calls, Waiting(k), Verdict(k)
    PROVE  Waiting(k)' /\ Verdict(k)'
<1>1. call[k] \in Requests
  BY DEF TypeOK
<1>2. call'[k] = IF At(k, "idle") \/ At(k, "done") THEN call[k]
                 ELSE [call[k] EXCEPT !.pc = "done", !.inv = None]
  BY DEF Restart
<1>3. tx' = tx
  BY DEF Restart
<1>4. CASE At(k, "idle") \/ At(k, "done")
  BY <1>2, <1>3, <1>4 DEF Waiting, Verdict
<1>5. CASE ~(At(k, "idle") \/ At(k, "done"))
  BY <1>1, <1>2, <1>3, <1>5 DEF Waiting, Verdict, At, Requests
<1>6. QED
  BY <1>4, <1>5

\* An initialised registry keeps its administrator and stays initialised; what changes
\* it then is a transaction that the administrator signed.
LEMMA RegistrySteps ==
    ASSUME TypeOK, Named, NEW t \in Txs, Contract(t) \/ Traps(t) \/ Expires(t)
    PROVE  /\ Named'
           /\ contract' # contract /\ contract.admin # None =>
                contract'.admin = contract.admin /\ tx[t].by = contract.admin
<1> USE DEF TypeOK, Storage, Named
<1>1. CASE Initialize(t)
  <2>1. tx[t].inv \in Initializations
    BY <1>1 DEF Initialize, Executes, Blanks, Executed, Invocations, Proofs,
       Initializations, AdminCalls
  <2>2. contract'.key \in Keys
    BY <1>1, <2>1 DEF Initialize, Initializations
  <2>3. QED
    BY <1>1, <2>2, KycAssumption DEF Initialize, IsInitialized
<1>2. CASE SetVk(t)
  BY <1>2 DEF SetVk, RequireAuth, RequireAdmin, IsInitialized
<1>3. CASE RotateBackendKey(t)
  <2>1. tx[t].inv \in [op : {"rotate_backend_key"}, admin : Accounts, key : Keys]
    BY <1>3 DEF RotateBackendKey, Executes, Blanks, Executed, Invocations, Proofs,
       Initializations, AdminCalls
  <2>2. contract'.key \in Keys
    BY <1>3, <2>1 DEF RotateBackendKey
  <2>3. QED
    BY <1>3, <2>2, KycAssumption
       DEF RotateBackendKey, RequireAuth, RequireAdmin, IsInitialized
<1>4. CASE VerifyProof(t) \/ VerifyAttestation(t) \/ Revoke(t) \/ Rejects(t)
             \/ Traps(t) \/ Expires(t)
  BY <1>4 DEF VerifyProof, VerifyAttestation, Revoke, Rejects, Traps, Expires
<1>5. QED
  BY <1>1, <1>2, <1>3, <1>4 DEF Contract

\* The remaining steps leave the registry alone.
LEMMA RegistryUntouched ==
    ASSUME TypeOK, [Next]_vars,
           ~ \E t \in Txs : Contract(t) \/ Traps(t) \/ Expires(t)
    PROVE  contract' = contract
<1>1. ASSUME NEW k \in Calls, Request(k) \/ Step(k)
      PROVE  contract' = contract
  BY <1>1, AtOnce DEF Request, Step, InitializeRequest, VerifyRequest, SubmitSignedRequest,
     Receive, Immediate, AnswerAtOnce, Mocked, FailsBeforeSend, Send, SendLost, Poll, PollFails
<1>2. QED
  BY <1>1, ScriptSteps DEF Next, Invoke, Restart, vars

-------------------------------------------------------------------------------
(* What the deployment script knows: the command under way is its own, one *)
(* that succeeded has had its effect, and the keys uploaded so far are     *)
(* there.                                                                  *)
Governed == contract.admin = Admin
Stored(c) == contract.vk[c] # None

UnderWay ==
    deploy.tx # None =>
      /\ deploy.pc \in {"initialize", "set_vk"}
      /\ deploy.pc = "set_vk" => deploy.circuit \in Circuits
      /\ deploy.pc = "initialize" => deploy.circuit = None
      /\ tx[deploy.tx].st # "free"

Mine ==
    deploy.tx # None /\ tx[deploy.tx].st = "out" =>
      /\ tx[deploy.tx].inv.op = deploy.pc
      /\ tx[deploy.tx].inv.admin = Admin
      /\ deploy.pc = "set_vk" => tx[deploy.tx].inv.circuit = deploy.circuit

Effective ==
    deploy.tx # None /\ tx[deploy.tx].st \in {"true", "false"} =>
      Governed /\ (deploy.pc = "set_vk" => Stored(deploy.circuit))

Uploaded ==
    /\ deploy.pc # "stopped" /\ deploy.tx = None => deploy.circuit = None
    /\ \A c \in Uploads : c \notin deploy.todo /\ c # deploy.circuit => Stored(c)
    /\ deploy.pc = "initialize" => deploy.circuit = None
    /\ deploy.pc \in {"test", "done"} => deploy.todo = {} /\ deploy.tx = None /\ Governed

Script == UnderWay /\ Mine /\ Effective /\ Uploaded

\* Nothing in the registry that the script relies on is taken back.
LEMMA RegistryKept ==
    ASSUME TypeOK, Named, [Next]_vars
    PROVE  /\ Governed => Governed'
           /\ \A c \in Circuits : Stored(c) => Stored(c)'
<1> USE DEF Governed, Stored
<1>1. CASE ~ \E t \in Txs : Contract(t) \/ Traps(t) \/ Expires(t)
  BY <1>1, RegistryUntouched
<1>2. ASSUME NEW t \in Txs, Contract(t) \/ Traps(t) \/ Expires(t)
      PROVE  /\ Governed => Governed'
             /\ \A c \in Circuits : Stored(c) => Stored(c)'
  <2>1. Governed => Governed'
    BY <1>2, RegistrySteps, KycAssumption
  <2>2. CASE SetVk(t)
    <3>1. tx[t].inv \in [op : {"set_vk"}, admin : Accounts, circuit : Circuits, vk : Lengths]
      BY <2>2 DEF TypeOK, SetVk, Executes, Blanks, Executed, Invocations, Proofs,
         Initializations, AdminCalls
    <3>2. tx[t].inv.vk # None
      BY <3>1, KeyIsSomething, KycAssumption
    <3>3. contract' = [contract EXCEPT !.vk[tx[t].inv.circuit] = tx[t].inv.vk]
      BY <2>2 DEF SetVk
    <3>4. \A c \in Circuits : Stored(c) => Stored(c)'
      BY <3>1, <3>2, <3>3 DEF TypeOK, Storage
    <3>5. QED
      BY <2>1, <3>4
  <2>3. CASE ~SetVk(t)
    BY <2>1, <2>3, <1>2 DEF TypeOK, Storage, Contract, Initialize, RotateBackendKey,
       VerifyProof, VerifyAttestation, Revoke, Rejects, Traps, Expires
  <2>4. QED
    BY <2>2, <2>3
<1>3. QED
  BY <1>1, <1>2

\* A verification key that is set is stored.
LEMMA SetVkStores ==
    ASSUME TypeOK, NEW t \in Txs, SetVk(t)
    PROVE  /\ contract'.vk[tx[t].inv.circuit] # None
           /\ tx[t].inv.admin = contract.admin /\ contract'.admin = contract.admin
<1>1. tx[t].inv \in [op : {"set_vk"}, admin : Accounts, circuit : Circuits, vk : Lengths]
  BY DEF TypeOK, SetVk, Executes, Blanks, Executed, Invocations, Proofs, Initializations, AdminCalls
<1>2. tx[t].inv.vk # None
  BY <1>1, KeyIsSomething, KycAssumption
<1>3. contract' = [contract EXCEPT !.vk[tx[t].inv.circuit] = tx[t].inv.vk] /\ tx[t].inv.admin = contract.admin
  BY DEF SetVk, RequireAdmin
<1>4. contract'.vk[tx[t].inv.circuit] = tx[t].inv.vk /\ contract'.admin = contract.admin
  <2>1. PICK c \in Circuits, v \in Lengths : c = tx[t].inv.circuit /\ v = tx[t].inv.vk
    BY <1>1
  <2>2. contract \in Storage
    BY DEF TypeOK
  <2>3. contract' = [contract EXCEPT !.vk = [contract.vk EXCEPT ![c] = v]]
    BY <1>3, <2>1
  <2>4. QED
    BY <2>1, <2>2, <2>3 DEF Storage
<1>5. QED
  BY <1>2, <1>3, <1>4

\* A step that leaves the script alone, and its transaction unless it ends it, keeps
\* what the script knows.
LEMMA ScriptUntouched ==
    ASSUME TypeOK, Named, Script, [Next]_vars, deploy' = deploy
    PROVE  Script'
<1> USE DEF Script, UnderWay, Mine, Effective, Uploaded
<1>1. Uploaded'
  <2>1. Uploads \subseteq Circuits /\ Uploads' = Uploads
    BY KycAssumption DEF Uploads, Start
  <2>2. \A c \in Uploads : Stored(c) => Stored(c)'
    BY <2>1, RegistryKept
  <2>3. (\A c \in Uploads : c \notin deploy.todo /\ c # deploy.circuit => Stored(c))'
    BY <2>1, <2>2
  <2>4. Governed => Governed'
    BY RegistryKept
  <2>5. QED
    BY <2>3, <2>4
<1>2. CASE deploy.tx = None
  BY <1>1, <1>2
<1>3. CASE deploy.tx # None
  <2>1. deploy.tx \in Txs /\ tx[deploy.tx].st # "free"
    BY <1>3 DEF TypeOK, Deployments
  <2>2. tx'[deploy.tx].st # "free"
    BY <2>1, EndsAreKept
  <2>3. CASE tx'[deploy.tx] = tx[deploy.tx]
    BY <2>2, <2>3, <1>1, RegistryKept
  <2>4. CASE tx'[deploy.tx] # tx[deploy.tx]
    <3>1. tx[deploy.tx].st = "out"
      BY <2>1, <2>4, EndsAreKept
    <3>2. PICK t \in Txs : Contract(t) \/ Traps(t) \/ Expires(t)
      BY <2>1, <2>4, RequestSteps, ScriptSteps DEF Next, Invoke, Fresh, Restart, vars, TypeOK
    <3>3. t = deploy.tx
      BY <2>1, <2>4, <3>2, NetworkSteps DEF Ends, TypeOK
    <3>4. PICK st \in Blanks \ {"free"} : Ends(t, st)
      BY <3>2, NetworkSteps
    <3>5. tx'[deploy.tx].st # "out"
      BY <3>3, <3>4 DEF Ends, Blank, TypeOK, Blanks, Executed
    <3>6. tx'[deploy.tx].st \in {"true", "false"} =>
            Initialize(t) \/ SetVk(t) \/ RotateBackendKey(t) \/ VerifyProof(t)
      <4>1. ASSUME NEW end \in {"failed", "expired"}, Ends(t, end)
            PROVE  tx'[deploy.tx].st \notin {"true", "false"}
        BY <4>1, <3>3, <2>1 DEF TypeOK, Ends, Blank
      <4>2. QED
        BY <3>2, <4>1 DEF Contract, VerifyAttestation, Revoke, Rejects, Traps, Expires
    <3>7. ASSUME Initialize(t)
          PROVE  Governed' /\ deploy.pc # "set_vk"
      BY <3>1, <3>3, <3>7, <1>3 DEF Initialize, Executes, Governed, TypeOK, Storage
    <3>8. ASSUME SetVk(t)
          PROVE  Governed' /\ Stored(deploy.circuit)'
      <4>1. deploy.pc = "set_vk" /\ tx[t].inv.admin = Admin /\ tx[t].inv.circuit = deploy.circuit
        BY <3>1, <3>3, <3>8, <1>3 DEF SetVk, Executes
      <4>2. QED
        BY <4>1, <3>8, SetVkStores DEF Governed, Stored
    <3>9. ~RotateBackendKey(t) /\ ~VerifyProof(t)
      BY <3>1, <3>3, <1>3 DEF RotateBackendKey, VerifyProof, Executes
    <3>10. QED
      BY <1>1, <2>2, <3>5, <3>6, <3>7, <3>8, <3>9
  <2>5. QED
    BY <2>3, <2>4
<1>4. QED
  BY <1>2, <1>3

\* Only the script's steps change it.
LEMMA OthersLeaveScript ==
    ASSUME [Next]_vars, ~Deploy
    PROVE  deploy' = deploy
<1>1. ASSUME NEW k \in Calls, Request(k) \/ Step(k)
      PROVE  deploy' = deploy
  BY <1>1, AtOnce DEF Request, Step, InitializeRequest, VerifyRequest, SubmitSignedRequest,
     Receive, Immediate, AnswerAtOnce, Mocked, FailsBeforeSend, Send, SendLost, Poll, PollFails
<1>2. ASSUME NEW t \in Txs, Contract(t) \/ Traps(t) \/ Expires(t)
      PROVE  deploy' = deploy
  BY <1>2 DEF Contract, Initialize, SetVk, RotateBackendKey, VerifyProof, VerifyAttestation,
     Revoke, Rejects, Traps, Expires
<1>3. QED
  BY <1>1, <1>2 DEF Next, Invoke, Restart, vars

\* The script's own steps.
LEMMA ScriptOwnStep ==
    ASSUME TypeOK, Named, Script, Deploy
    PROVE  Script'
<1> USE DEF Script, UnderWay, Mine, Effective, Uploaded, TypeOK, Deployments
<1>1. contract' = contract
  BY ScriptSteps
<1>2. CASE DeployInitialize
  <2> DEFINE i == [op |-> "initialize", key |-> ZeroKey, admin |-> Admin]
  <2>1. PICK t \in Txs :
             /\ tx' = [tx EXCEPT ![t] = [inv |-> i, by |-> Deployer, st |-> "out"]]
             /\ deploy' = [deploy EXCEPT !.tx = t, !.circuit = None, !.todo = deploy.todo \ {None}]
    BY <1>2 DEF DeployInitialize, Launch
  <2>2. deploy.pc = "initialize" /\ deploy.circuit = None
    BY <1>2 DEF DeployInitialize
  <2>3. deploy'.todo = deploy.todo
    BY <2>1, KycAssumption
  <2>4. tx'[t].inv.op = "initialize" /\ tx'[t].inv.admin = Admin /\ tx'[t].st = "out"
    BY <2>1
  <2>5. QED
    BY <1>1, <2>1, <2>2, <2>3, <2>4 DEF Uploads, Stored
<1>3. CASE DeployVk
  <2>1. PICK c \in deploy.todo, vk \in Lengths :
             Launch([op |-> "set_vk", admin |-> Admin, circuit |-> c, vk |-> vk], c)
    BY <1>3 DEF DeployVk
  <2> DEFINE i == [op |-> "set_vk", admin |-> Admin, circuit |-> c, vk |-> vk]
  <2>2. PICK t \in Txs :
             /\ tx' = [tx EXCEPT ![t] = [inv |-> i, by |-> Deployer, st |-> "out"]]
             /\ deploy' = [deploy EXCEPT !.tx = t, !.circuit = c, !.todo = deploy.todo \ {c}]
    BY <2>1 DEF Launch
  <2>3. deploy.pc = "set_vk" /\ deploy.tx = None /\ deploy.circuit = None /\ c \in Circuits
    BY <1>3, <2>1 DEF DeployVk, Launch
  <2>4. /\ tx'[t].inv.op = "set_vk" /\ tx'[t].inv.admin = Admin
        /\ tx'[t].inv.circuit = c /\ tx'[t].st = "out"
    BY <2>2
  <2>5. /\ deploy'.pc = "set_vk" /\ deploy'.tx = t /\ deploy'.circuit = c
        /\ deploy'.todo = deploy.todo \ {c} /\ deploy'.script = deploy.script
    BY <2>2, <2>3
  <2>6. UnderWay' /\ Mine' /\ Effective'
    BY <2>3, <2>4, <2>5
  <2>7. Uploaded'
    BY <1>1, <2>3, <2>5, KycAssumption DEF Uploads, Start, Stored
  <2>8. QED
    BY <2>6, <2>7
<1>4. CASE DeployGoesOn
  <2>1. /\ deploy.tx # None /\ tx[deploy.tx].st \in {"true", "false"}
        /\ deploy' = [deploy EXCEPT !.tx = None, !.circuit = None, !.pc = NextCommand]
    BY <1>4 DEF DeployGoesOn, Continue
  <2>2. /\ deploy'.tx = None /\ deploy'.circuit = None /\ deploy'.pc = NextCommand
        /\ deploy'.todo = deploy.todo /\ deploy'.script = deploy.script
    BY <2>1
  <2>3. Governed /\ deploy.pc \in {"initialize", "set_vk"}
    BY <2>1
  <2>4. \A c \in Uploads : c \notin deploy.todo => Stored(c)
    BY <2>1, <2>3, KycAssumption DEF Uploads, Start
  <2>5. QED
    BY <1>1, <2>2, <2>3, <2>4 DEF NextCommand, Uploads, Stored, Governed
<1>5. CASE DeployStops
  BY <1>1, <1>5 DEF DeployStops, Uploads, Stored
<1>6. CASE DeployTest
  BY <1>1, <1>6 DEF DeployTest, Uploads, Stored, Governed
<1>7. QED
  BY <1>2, <1>3, <1>4, <1>5, <1>6 DEF Deploy

-------------------------------------------------------------------------------
\* The inductive invariant: types, what requests in flight know, and the verdicts.
THEOREM Inductive == Spec => []IInv
<1>1. Init => IInv
  <2> SUFFICES ASSUME Init PROVE IInv
    OBVIOUS
  <2>1. QED
    BY InitTyped DEF Init, IInv, Pending, Waiting, Named, Verdict, Idle
<1>2. IInv /\ [Next]_vars => IInv'
  <2> SUFFICES ASSUME IInv, [Next]_vars PROVE IInv'
    OBVIOUS
  <2>1. TypeOK'
    BY NextTyped DEF IInv
  <2>2. ASSUME NEW k \in Calls PROVE Waiting(k)' /\ Verdict(k)'
    <3>1. TypeOK /\ Waiting(k) /\ Verdict(k)
      BY DEF IInv, Pending
    <3>2. CASE Restart
      BY <3>1, <3>2, RestartKept
    <3>3. CASE Request(k) \/ Step(k)
      BY <3>1, <3>3, OwnStep
    <3>4. CASE call'[k] = call[k]
      BY <3>1, <3>4, UntouchedKept
    <3>5. ~Restart /\ ~(Request(k) \/ Step(k)) => call'[k] = call[k]
      BY <3>1, NetworkSteps, OthersUntouched, ScriptSteps DEF Next, Invoke, vars
    <3>6. QED
      BY <3>2, <3>3, <3>4, <3>5
  <2>3. Named'
    <3>1. CASE \E t \in Txs : Contract(t) \/ Traps(t) \/ Expires(t)
      BY <3>1, RegistrySteps DEF IInv
    <3>2. CASE ~ \E t \in Txs : Contract(t) \/ Traps(t) \/ Expires(t)
      BY <3>2, RegistryUntouched DEF IInv, Named
    <3>3. QED
      BY <3>1, <3>2
  <2>4. QED
    BY <2>1, <2>2, <2>3 DEF IInv, Pending
<1>3. QED
  BY <1>1, <1>2, PTL DEF Spec

\* Every variable keeps its type.
THEOREM TypeCorrect == Spec => []TypeOK
<1>1. IInv => TypeOK
  BY DEF IInv
<1>2. QED
  BY <1>1, Inductive, PTL

\* The verdict of verifyProof is that of the ledger, for any number of requests.
THEOREM Verdicts == Spec => []VerdictIsExecuted
<1>1. IInv => VerdictIsExecuted
  BY DEF IInv, VerdictIsExecuted, Verdict
<1>2. QED
  BY <1>1, Inductive, PTL

\* Together with what the script knows.
THEOREM ScriptKnows == Spec => [](IInv /\ Script)
<1>1. Init => Script
  BY DEF Init, Start, Script, UnderWay, Mine, Effective, Uploaded, Uploads
<1>2. IInv /\ Script /\ [Next]_vars => Script'
  <2> SUFFICES ASSUME IInv, Script, [Next]_vars PROVE Script'
    OBVIOUS
  <2>1. CASE Deploy
    BY <2>1, ScriptOwnStep DEF IInv
  <2>2. CASE ~Deploy
    <3>1. deploy' = deploy
      BY <2>2, OthersLeaveScript
    <3>2. QED
      BY <3>1, ScriptUntouched DEF IInv
  <2>3. QED
    BY <2>1, <2>2
<1>3. QED
  BY <1>1, <1>2, Inductive, PTL DEF Spec

\* A script that reports success has left a registry that its administrator governs and
\* that has every key it was to upload.
THEOREM Deployed == Spec => []DeployedIsReady
<1>1. IInv /\ Script => DeployedIsReady
  <2> SUFFICES ASSUME IInv, Script, deploy.pc \in {"test", "done"}
               PROVE  contract.admin = Admin /\ \A c \in Uploads : contract.vk[c] # None
    BY DEF DeployedIsReady
  <2>1. deploy.todo = {} /\ deploy.tx = None /\ deploy.circuit = None /\ Governed
    BY DEF Script, Uploaded
  <2>2. Uploads \subseteq Circuits
    BY KycAssumption DEF Uploads, Start
  <2>3. QED
    BY <2>1, <2>2, KycAssumption DEF Script, Uploaded, Stored, Governed
<1>2. QED
  BY <1>1, ScriptKnows, PTL

\* Nobody but the first administrator changes an initialised registry.
THEOREM Administration == Spec => AdminDecides
<1>1. IInv /\ [Next]_vars =>
        [contract' # contract /\ contract.admin # None =>
           /\ contract'.admin = contract.admin
           /\ \E t \in Txs : /\ tx'[t] # tx[t]
                             /\ tx[t].by = contract.admin]_vars
  <2> SUFFICES ASSUME IInv, [Next]_vars, contract' # contract, contract.admin # None
               PROVE  /\ contract'.admin = contract.admin
                      /\ \E t \in Txs : tx'[t] # tx[t] /\ tx[t].by = contract.admin
    OBVIOUS
  <2>1. PICK t \in Txs : Contract(t) \/ Traps(t) \/ Expires(t)
    BY RegistryUntouched DEF IInv
  <2>2. contract'.admin = contract.admin /\ tx[t].by = contract.admin
    BY <2>1, RegistrySteps DEF IInv
  <2>3. tx'[t] # tx[t]
    <3>1. tx[t].st = "out" /\ \E st \in Blanks \ {"free"} : Ends(t, st)
      BY <2>1, NetworkSteps DEF IInv
    <3>2. QED
      BY <3>1 DEF IInv, TypeOK, Ends, Blank, Blanks, Executed
  <2>4. QED
    BY <2>2, <2>3
<1>2. QED
  BY <1>1, Inductive, PTL DEF Spec, AdminDecides
===============================================================================
