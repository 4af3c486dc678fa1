------------------------------- MODULE Submission -------------------------------
(***************************************************************************)
(* Transactions: SorobanService.invokeContract (send, then poll) and       *)
(* StellarService.buildAndSubmitTx (Horizon answers when it knows), with   *)
(* their retries, and the reads of SorobanService.simulateContract, which  *)
(* send none.  All calls sign with the server's account, of which the      *)
(* network takes one transaction at a time, in the order of sequence       *)
(* numbers.  An attempt has a transaction of its own; one that is out      *)
(* lands, fails or expires whatever became of its attempt.                 *)
(***************************************************************************)
EXTENDS Integers, FiniteSets

CONSTANTS
    SorobanCalls, HorizonCalls,
    MaxRetries,     \* RETRY_DELAYS_MS.length: attempts are 0 .. MaxRetries
    MaxPolls        \* MAX_POLLS

ASSUME SubmissionAssumption ==
    /\ SorobanCalls \cap HorizonCalls = {}
    /\ IsFiniteSet(SorobanCalls \cup HorizonCalls)
    /\ MaxRetries \in Nat /\ MaxPolls \in Nat \ {0}

Calls == SorobanCalls \cup HorizonCalls
Attempts == 0 .. MaxRetries

VARIABLES
    seq,    \* the account's sequence number on the chain
    tx,     \* tx[k][a]: the transaction of attempt a of call k
    call    \* call[k]: the run of the call

vars == <<seq, tx, call>>

-------------------------------------------------------------------------------
Seqs == 0 .. Cardinality(Calls) * (MaxRetries + 1)

\* "none": not built; "out": the network has it; "void": it never will.
TxStatus == {"none", "built", "out", "success", "failed", "void"}

\* The sequence number is kept until the transaction is sent: one that is out has
\* the account's next, and no later step compares it.
Txs == [seq : Seqs, status : TxStatus]

\* `lost' is a history variable: how many attempts ended without the caller being
\* told what became of a transaction that it had submitted.
Runs == [pc : {"start", "read", "send", "poll", "await", "ok", "done", "error", "gone"},
         attempt : Attempts, polls : 0 .. MaxPolls, lost : 0 .. MaxRetries + 1]

Init ==
    /\ seq = 0
    /\ tx = [k \in Calls |-> [a \in Attempts |-> [seq |-> 0, status |-> "none"]]]
    /\ call \in [Calls -> {[pc |-> pc, attempt |-> 0, polls |-> 0, lost |-> 0] : pc \in {"start", "read"}}]
    /\ \A k \in HorizonCalls : call[k].pc = "start"

At(k, pc) == call[k].pc = pc
Goto(k, pc) == call' = [call EXCEPT ![k].pc = pc]

Mine(k) == tx[k][call[k].attempt]
Becomes(k, status) == tx' = [tx EXCEPT ![k][call[k].attempt] = [seq |-> 0, status |-> status]]

Out == {p \in Calls \X Attempts : tx[p[1]][p[2]].status = "out"}

\* The network takes a transaction that is the account's next, unless it has one.
Takes(t) == Out = {} /\ t.seq = seq + 1

\* A retry is for a read as it was, and for a transaction from its building.
First(k) == IF At(k, "read") THEN "read" ELSE "start"

\* Mutated form: one attempt more is allowed than there are delays after.
AgainWithoutCount(k, lost) ==
    [call[k] EXCEPT !.pc = First(k), !.polls = 0, !.lost = @ + lost]

\* withRetry's catch block, and buildAndSubmitTx's for an error it retries.
Again(k, lost) ==
    IF call[k].attempt = MaxRetries
      THEN [call[k] EXCEPT !.pc = "error", !.lost = @ + lost]
      ELSE [call[k] EXCEPT !.pc = First(k), !.attempt = @ + 1, !.polls = 0, !.lost = @ + lost]

Retry(k, lost) == call' = [call EXCEPT ![k] = Again(k, lost)]
Throw(k, lost) == call' = [call EXCEPT ![k].pc = "error", ![k].lost = @ + lost]

-------------------------------------------------------------------------------
\* No address is configured for the contract: the call is not even tried.
Unresolved(k) ==
    /\ k \in SorobanCalls /\ call[k].pc \in {"start", "read"}
    /\ call[k].attempt = 0
    /\ Throw(k, 0)
    /\ UNCHANGED <<seq, tx>>

\* simulateContract: is_issuer, is_revoked and such, with no transaction sent.
Simulate(k) ==
    /\ At(k, "read")
    /\ Goto(k, "done")
    /\ UNCHANGED <<seq, tx>>

SimulateFails(k) ==
    /\ At(k, "read")
    /\ Retry(k, 0)
    /\ UNCHANGED <<seq, tx>>

\* getAccount or loadAccount, build, and for a contract simulate, assemble, sign.
Prepare(k) ==
    /\ At(k, "start")
    /\ tx' = [tx EXCEPT ![k][call[k].attempt] = [seq |-> seq + 1, status |-> "built"]]
    /\ Goto(k, "send")
    /\ UNCHANGED seq

\* The account cannot be loaded, or the simulation ends in an error.
PrepareFails(k) ==
    /\ At(k, "start")
    /\ IF k \in SorobanCalls THEN Retry(k, 0) ELSE Retry(k, 0) \/ Throw(k, 0)
    /\ UNCHANGED <<seq, tx>>

Sent(k) ==
    /\ At(k, "send")
    /\ Takes(Mine(k))
    /\ Becomes(k, "out")
    /\ Goto(k, IF k \in SorobanCalls THEN "poll" ELSE "await")
    /\ UNCHANGED seq

\* sendTransaction answers TRY_AGAIN_LATER while another transaction is out: not
\* ERROR, and so the code polls for what nobody has.
Deferred(k) ==
    /\ At(k, "send") /\ k \in SorobanCalls
    /\ Out # {}
    /\ Becomes(k, "void")
    /\ Goto(k, "poll")
    /\ UNCHANGED seq

\* A definite no: ERROR from the RPC server; tx_bad_seq from Horizon is retried, any
\* other code is not.
Refused(k) ==
    /\ At(k, "send")
    /\ Becomes(k, "void")
    /\ \/ k \in SorobanCalls /\ Retry(k, 0)
       \/ k \in HorizonCalls /\ Mine(k).seq # seq + 1 /\ Retry(k, 0)
       \/ k \in HorizonCalls /\ Throw(k, 0)
    /\ UNCHANGED seq

\* No answer.  The transaction may have got through.  Horizon's client retries if the
\* message names a timeout or the network; that of a 504 does not.
SendLost(k) ==
    /\ At(k, "send")
    /\ Becomes(k, IF Takes(Mine(k)) THEN "out" ELSE "void") \/ Becomes(k, "void")
    /\ Retry(k, 1) \/ (k \in HorizonCalls /\ Throw(k, 1))
    /\ UNCHANGED seq

-------------------------------------------------------------------------------
\* pollTransaction: one getTransaction, which may lag behind the chain.
PollFound(k) ==
    /\ At(k, "poll")
    /\ \/ Mine(k).status = "success" /\ Goto(k, "ok")
       \/ Mine(k).status = "failed" /\ Retry(k, 0)
    /\ UNCHANGED <<seq, tx>>

\* Mutated form: NOT_FOUND is waited out, however long it takes.
PollForever(k) ==
    /\ At(k, "poll")
    /\ UNCHANGED vars

\* Mutated form: NOT_FOUND is taken for an answer.
PollHasty(k) ==
    /\ At(k, "poll")
    /\ Retry(k, 0)
    /\ UNCHANGED <<seq, tx>>

PollNotFound(k) ==
    /\ At(k, "poll")
    /\ IF call[k].polls + 1 < MaxPolls
         THEN call' = [call EXCEPT ![k].polls = @ + 1]
         ELSE Retry(k, 1)
    /\ UNCHANGED <<seq, tx>>

PollFails(k) ==
    /\ At(k, "poll")
    /\ Retry(k, 1)
    /\ UNCHANGED <<seq, tx>>

\* submitTransaction answers with what became of the transaction, or not at all.
HorizonAnswers(k) ==
    /\ At(k, "await")
    /\ \/ Mine(k).status = "success" /\ Goto(k, "ok")
       \/ Mine(k).status \in {"failed", "void"} /\ Throw(k, 0)
    /\ UNCHANGED <<seq, tx>>

HorizonSilent(k) ==
    /\ At(k, "await")
    /\ Retry(k, 1) \/ Throw(k, 1)
    /\ UNCHANGED <<seq, tx>>

\* The process stops: the call is forgotten, its transactions are not.
Restart(k) ==
    /\ call[k].pc \notin {"ok", "done", "error", "gone"}
    /\ Goto(k, "gone")
    /\ UNCHANGED <<seq, tx>>

-------------------------------------------------------------------------------
\* The network: in a ledger, with its effects or without, or out of its time bound.
Lands(k, a) ==
    /\ tx[k][a].status = "out"
    /\ seq' = seq + 1
    /\ \E s \in {"success", "failed"} : tx' = [tx EXCEPT ![k][a].status = s]
    /\ UNCHANGED call

Expires(k, a) ==
    /\ tx[k][a].status = "out"
    /\ tx' = [tx EXCEPT ![k][a].status = "void"]
    /\ UNCHANGED <<seq, call>>

\* What answers and timers bring about, and what their absence does.
Answered(k) ==
    \/ Simulate(k) \/ SimulateFails(k) \/ Prepare(k) \/ Sent(k) \/ Deferred(k) \/ Refused(k)
    \/ PollFound(k) \/ PollNotFound(k) \/ HorizonAnswers(k) \/ HorizonSilent(k)

Fault(k) == Unresolved(k) \/ PrepareFails(k) \/ SendLost(k) \/ PollFails(k) \/ Restart(k)

Next == \E k \in Calls : \/ Answered(k) \/ Fault(k)
                         \/ \E a \in Attempts : Lands(k, a) \/ Expires(k, a)

\* Servers answer in the end, timers fire, HTTP requests time out; no fault is needed
\* for a call to end.
Spec == Init /\ [][Next]_vars /\ \A k \in Calls : WF_vars(Answered(k))

-------------------------------------------------------------------------------
TypeOK ==
    /\ seq \in Seqs
    /\ tx \in [Calls -> [Attempts -> Txs]]
    /\ call \in [Calls -> Runs]

Landed(k) == {a \in Attempts : tx[k][a].status = "success"}

(***************************************************************************)
(* What a call tells its caller agrees with the chain: a success is one,   *)
(* and a failure after which nothing is unknown had no effect and will     *)
(* have none (soroban.service.ts:122-133, stellar.service.ts:143-163).     *)
(***************************************************************************)
AnswerIsTrue ==
    \A k \in Calls :
        /\ At(k, "ok") => Mine(k).status = "success"
        /\ At(k, "error") /\ call[k].lost = 0 =>
             \A a \in Attempts : tx[k][a].status \in {"none", "failed", "void"}

(***************************************************************************)
(* One call takes effect once, and once more at most for every attempt     *)
(* whose outcome was lost: a retry after a definite answer never repeats   *)
(* what was done.                                                          *)
(***************************************************************************)
EffectsAreAccountedFor == \A k \in Calls : Cardinality(Landed(k)) <= 1 + call[k].lost

\* What the caller of a call, and a reader of the chain, see of it.
Ended == {"ok", "done", "error", "gone"}

AnswerView == [k \in Calls |-> IF call[k].pc \in Ended THEN call[k].pc ELSE "none"]
EffectsView == [k \in Calls |-> Cardinality(Landed(k))]
DoubtView == [k \in Calls |-> call[k].lost]

Call == INSTANCE ChainCall WITH
    MaxDoubt <- MaxRetries + 1,
    answer <- AnswerView, effects <- EffectsView, doubt <- DoubtView

(***************************************************************************)
(* The promise of ChainCall: a call is answered once, and each effect that *)
(* comes before or after its answer is the one answered for or that of an  *)
(* attempt whose outcome was lost; after an error, the latter only         *)
(* (soroban.service.ts:83-132, 182-229; stellar.service.ts:118-165).       *)
(***************************************************************************)
ImplementsCall == Call!CallSpec

\* Every call ends: attempts and polls are bounded (lines 185, 209; 123).
EveryCallEnds ==
    \A k \in Calls : (call[k].pc \in {"start", "read"} /\ call[k].attempt = 0)
                        ~> (call[k].pc \in {"ok", "done", "error", "gone"})

===============================================================================
