--------------------------- MODULE SubmissionProofs ----------------------------
(***************************************************************************)
(* Theorems about Submission, for any number of calls, attempts and polls: *)
(* the types (with them: the account's sequence number counts what has     *)
(* landed), that what a caller is told agrees with the chain, that a call  *)
(* takes effect no more often than outcomes were lost, and once, that the  *)
(* whole keeps the promise of ChainCall, and that calls run out of steps.  *)
(***************************************************************************)
EXTENDS Submission, FiniteSetTheorems, TLAPS

\* The call may still be told what became of its present transaction, or never will
\* because it was, or because it is gone.
Watched == {"poll", "await", "ok", "gone"}

\* The attempts of k whose transaction has taken effect, or may yet, behind its back.
Open(k) == {a \in Attempts : /\ tx[k][a].status \in {"out", "success"}
                             /\ ~(a = call[k].attempt /\ call[k].pc \in Watched)}

\* What holds of call k and its transactions: attempts are made in order, a transaction
\* is built only by the attempt that sends it, and what is open was lost.
CallOK(k) ==
    /\ \A a \in Attempts : a > call[k].attempt => tx[k][a].status = "none"
    /\ call[k].pc \in {"start", "read"} => Mine(k).status = "none"
    /\ At(k, "ok") => Mine(k).status = "success"
    /\ \A a \in Attempts : tx[k][a].status = "built" =>
          a = call[k].attempt /\ call[k].pc \in {"send", "gone"}
    /\ At(k, "send") => Mine(k).status = "built"
    /\ call[k].lost <= call[k].attempt + 1
    /\ call[k].lost = call[k].attempt + 1 => At(k, "error")
    /\ Cardinality(Open(k)) <= call[k].lost

\* The transactions that took a sequence number.
Numbered == {p \in Calls \X Attempts : tx[p[1]][p[2]].status \in {"success", "failed"}}

SeqOK == seq = Cardinality(Numbered)

IInv == TypeOK /\ SeqOK /\ \A k \in Calls : CallOK(k)

-------------------------------------------------------------------------------
(* Counting *)

LEMMA AttemptsFinite == IsFiniteSet(Attempts) /\ Cardinality(Attempts) = MaxRetries + 1
<1>1. 0 \in Int /\ MaxRetries \in Int /\ 0 <= MaxRetries
  BY SubmissionAssumption
<1> QED  BY <1>1, FS_Interval DEF Attempts

LEMMA OpenFinite ==
    ASSUME NEW k \in Calls
    PROVE  IsFiniteSet(Open(k)) /\ Cardinality(Open(k)) \in Nat
<1>1. Open(k) \in SUBSET Attempts
  BY DEF Open
<1> QED  BY <1>1, AttemptsFinite, FS_Subset, FS_CardinalityType

\* As many numbers as there are attempts of calls.
LEMMA AllFinite ==
    /\ IsFiniteSet(Calls \X Attempts)
    /\ Cardinality(Calls \X Attempts) = Cardinality(Calls) * (MaxRetries + 1)
    /\ Cardinality(Calls) \in Nat
<1>1. IsFiniteSet(Calls)
  BY SubmissionAssumption DEF Calls
<1>2. Cardinality(Calls) \in Nat
  BY <1>1, FS_CardinalityType
<1> QED  BY <1>1, <1>2, AttemptsFinite, FS_Product

LEMMA NumberedFinite == IsFiniteSet(Numbered) /\ Cardinality(Numbered) \in Nat
<1>1. Numbered \in SUBSET (Calls \X Attempts)
  BY DEF Numbered
<1> QED  BY <1>1, AllFinite, FS_Subset, FS_CardinalityType

\* There is a number left for a transaction that has none.
LEMMA NumberLeft ==
    ASSUME SeqOK, NEW k \in Calls, NEW a \in Attempts,
           tx[k][a].status \notin {"success", "failed"}
    PROVE  /\ seq + 1 \in Seqs
           /\ Cardinality(Numbered \cup {<<k, a>>}) = seq + 1
<1> DEFINE All == Calls \X Attempts
           N == Numbered \cup {<<k, a>>}
<1>1. <<k, a>> \notin Numbered
  BY DEF Numbered
<1>2. IsFiniteSet(N) /\ Cardinality(N) = Cardinality(Numbered) + 1
  BY <1>1, NumberedFinite, FS_AddElement
<1>3. N \in SUBSET All
  BY DEF Numbered
<1>4. Cardinality(N) <= Cardinality(All)
  BY <1>3, AllFinite, FS_Subset
<1>5. Cardinality(All) = Cardinality(Calls) * (MaxRetries + 1) /\ Cardinality(Calls) \in Nat
  BY AllFinite
<1>6. seq + 1 = Cardinality(N) /\ seq \in Nat
  BY <1>2, NumberedFinite DEF SeqOK
<1>7. seq + 1 <= Cardinality(Calls) * (MaxRetries + 1)
  BY <1>4, <1>5, <1>6
<1> DEFINE max == Cardinality(Calls) * (MaxRetries + 1)
<1>8. max \in Nat
  BY <1>5, SubmissionAssumption
<1> HIDE DEF max, N, All
<1>9. seq + 1 \in 0 .. max
  BY <1>6, <1>7, <1>8 DEF max
<1> QED  BY <1>6, <1>9 DEF Seqs, max, N

-------------------------------------------------------------------------------
(* Records *)

\* One transaction changes.
LEMMA TxStep ==
    ASSUME TypeOK, NEW k \in Calls, NEW a \in Attempts, NEW t \in Txs,
           tx' = [tx EXCEPT ![k][a] = t]
    PROVE  /\ tx' \in [Calls -> [Attempts -> Txs]]
           /\ tx'[k][a] = t
           /\ \A b \in Attempts \ {a} : tx'[k][b] = tx[k][b]
           /\ \A i \in Calls \ {k} : tx'[i] = tx[i]
  BY DEF TypeOK

\* One call moves.
LEMMA CallStep ==
    ASSUME TypeOK, NEW k \in Calls, NEW x \in Runs, call' = [call EXCEPT ![k] = x]
    PROVE  /\ call' \in [Calls -> Runs]
           /\ call'[k] = x
           /\ \A i \in Calls \ {k} : call'[i] = call[i]
  BY DEF TypeOK

LEMMA GotoStep ==
    ASSUME TypeOK, NEW k \in Calls,
           NEW pc \in {"start", "read", "send", "poll", "await", "ok", "done", "error", "gone"},
           Goto(k, pc)
    PROVE  /\ call' \in [Calls -> Runs]
           /\ call'[k].pc = pc
           /\ call'[k].attempt = call[k].attempt
           /\ call'[k].lost = call[k].lost
           /\ \A i \in Calls \ {k} : call'[i] = call[i]
<1> DEFINE x == [call[k] EXCEPT !.pc = pc]
<1>1. x \in Runs /\ x.pc = pc /\ x.attempt = call[k].attempt /\ x.lost = call[k].lost
  BY DEF TypeOK, Runs
<1>2. call' = [call EXCEPT ![k] = x]
  BY DEF Goto, TypeOK
<1> HIDE DEF x
<1> QED  BY <1>1, <1>2, CallStep

\* Retry ends the call in an error or has its next attempt begin, Throw ends it.
LEMMA RetryStep ==
    ASSUME TypeOK, NEW k \in Calls, CallOK(k), ~At(k, "error"), NEW l \in {0, 1},
           Retry(k, l) \/ Throw(k, l)
    PROVE  /\ call' \in [Calls -> Runs]
           /\ \/ call'[k].pc = "error" /\ call'[k].attempt = call[k].attempt
              \/ /\ call'[k].pc \in {"start", "read"}
                 /\ call'[k].attempt = call[k].attempt + 1
           /\ call'[k].lost = call[k].lost + l
           /\ \A i \in Calls \ {k} : call'[i] = call[i]
<1>1. /\ call[k] \in Runs /\ call[k].attempt \in 0 .. MaxRetries
      /\ call[k].lost \in 0 .. MaxRetries + 1 /\ MaxRetries \in Nat
      /\ call[k].lost <= call[k].attempt
      /\ 0 \in 0 .. MaxPolls
  BY SubmissionAssumption DEF TypeOK, Runs, Attempts, CallOK
<1>2. call[k].lost + l \in 0 .. MaxRetries + 1
  BY <1>1
<1>3. CASE call' = [call EXCEPT ![k].pc = "error", ![k].lost = @ + l]
  <2> DEFINE x == [call[k] EXCEPT !.pc = "error", !.lost = @ + l]
  <2>1. /\ x \in Runs /\ x.pc = "error" /\ x.attempt = call[k].attempt
        /\ x.lost = call[k].lost + l
    BY <1>1, <1>2 DEF Runs
  <2>2. call' = [call EXCEPT ![k] = x]
    BY <1>3 DEF TypeOK
  <2> HIDE DEF x
  <2> QED  BY <2>1, <2>2, CallStep
<1>4. CASE Retry(k, l) /\ call[k].attempt # MaxRetries
  <2> DEFINE y == [call[k] EXCEPT !.pc = First(k), !.attempt = @ + 1]
             x == [y EXCEPT !.polls = 0, !.lost = @ + l]
  <2>1. call[k].attempt + 1 \in Attempts
    BY <1>1, <1>4 DEF Attempts
  <2>2. First(k) \in {"start", "read"}
    BY DEF First
  <2>3. /\ y \in Runs /\ y.pc \in {"start", "read"} /\ y.attempt = call[k].attempt + 1
        /\ y.lost = call[k].lost
    BY <1>1, <2>1, <2>2 DEF Runs
  <2>4. x = [call[k] EXCEPT !.pc = First(k), !.attempt = @ + 1, !.polls = 0, !.lost = @ + l]
    BY <1>1 DEF Runs
  <2>5. call' = [call EXCEPT ![k] = x]
    BY <1>4, <2>4 DEF Retry, Again
  <2> HIDE DEF y
  <2>6. /\ x \in Runs /\ x.pc = y.pc /\ x.attempt = y.attempt /\ x.lost = y.lost + l
    BY <1>1, <1>2, <2>3 DEF Runs
  <2> HIDE DEF x
  <2> QED  BY <2>3, <2>5, <2>6, CallStep
<1>5. CASE Retry(k, l) /\ call[k].attempt = MaxRetries
  <2>1. call' = [call EXCEPT ![k].pc = "error", ![k].lost = @ + l]
    BY <1>5 DEF Retry, Again, TypeOK
  <2> QED  BY <1>3, <2>1
<1> QED  BY <1>3, <1>4, <1>5 DEF Throw

-------------------------------------------------------------------------------
(* Steps *)

\* A step of call k leaves the other calls and their transactions as they are.
LEMMA Frame ==
    ASSUME IInv, NEW k \in Calls,
           call' \in [Calls -> Runs], \A i \in Calls \ {k} : call'[i] = call[i],
           tx' \in [Calls -> [Attempts -> Txs]], \A i \in Calls \ {k} : tx'[i] = tx[i],
           seq' \in Seqs, SeqOK', CallOK(k)'
    PROVE  IInv'
<1>1. TypeOK'
  BY DEF IInv, TypeOK
<1>2. ASSUME NEW i \in Calls \ {k}
      PROVE  CallOK(i)'
  <2>1. call'[i] = call[i] /\ tx'[i] = tx[i] /\ CallOK(i)
    BY <1>2 DEF IInv
  <2>2. Open(i)' = Open(i)
    BY <2>1 DEF Open
  <2> QED  BY <2>1, <2>2 DEF CallOK, Mine, At
<1> QED  BY <1>1, <1>2 DEF IInv

\* Only the transaction of the present attempt changes, and it takes no number.
LEMMA SeqStays ==
    ASSUME IInv, NEW k \in Calls, seq' = seq,
           \A i \in Calls \ {k} : tx'[i] = tx[i],
           \A b \in Attempts \ {call[k].attempt} : tx'[k][b] = tx[k][b],
           \/ tx'[k][call[k].attempt] = tx[k][call[k].attempt]
           \/ /\ Mine(k).status \notin {"success", "failed"}
              /\ tx'[k][call[k].attempt].status \notin {"success", "failed"}
    PROVE  seq' \in Seqs /\ SeqOK'
<1>1. \A p \in Calls \X Attempts :
         tx'[p[1]][p[2]].status \in {"success", "failed"}
           <=> tx[p[1]][p[2]].status \in {"success", "failed"}
  BY DEF Mine
<1>2. Numbered' = Numbered
  BY <1>1 DEF Numbered
<1> QED  BY <1>2 DEF IInv, TypeOK, SeqOK

\* An attempt ends, with another to follow or not.  What has become of its transaction
\* is known, or its outcome was lost.
LEMMA AttemptEnds ==
    ASSUME IInv, NEW k \in Calls, call[k].pc \in {"start", "read", "send", "poll", "await"},
           NEW l \in {0, 1}, Retry(k, l) \/ Throw(k, l), seq' = seq,
           tx' \in [Calls -> [Attempts -> Txs]],
           \A i \in Calls \ {k} : tx'[i] = tx[i],
           \A b \in Attempts \ {call[k].attempt} : tx'[k][b] = tx[k][b],
           tx'[k][call[k].attempt].status # "built",
           l = 0 => tx'[k][call[k].attempt].status \notin {"out", "success"},
           \/ tx'[k][call[k].attempt] = tx[k][call[k].attempt]
           \/ /\ Mine(k).status \notin {"success", "failed"}
              /\ tx'[k][call[k].attempt].status \notin {"success", "failed"}
    PROVE  IInv'
<1> DEFINE c == call[k].attempt
           n == call'[k].attempt
<1>1. /\ call' \in [Calls -> Runs]
      /\ \/ call'[k].pc = "error" /\ n = c
         \/ call'[k].pc \in {"start", "read"} /\ n = c + 1
      /\ call'[k].lost = call[k].lost + l
      /\ \A i \in Calls \ {k} : call'[i] = call[i]
  BY RetryStep DEF IInv, At
<1>2. seq' \in Seqs /\ SeqOK'
  BY SeqStays
<1>3. /\ c \in Attempts /\ n \in Attempts /\ c \in Int /\ n \in Int
      /\ \A a \in Attempts : a \in Int
      /\ call[k].lost \in Nat
  BY <1>1 DEF IInv, TypeOK, Runs, Attempts
<1>4. /\ \A a \in Attempts : a > c => tx[k][a].status = "none"
      /\ \A a \in Attempts : tx[k][a].status = "built" => a = c
      /\ call[k].lost <= c + 1 /\ call[k].lost # c + 1
      /\ Cardinality(Open(k)) <= call[k].lost
  BY DEF IInv, CallOK, At
<1>5. \A a \in Attempts : a > n => tx'[k][a].status = "none"
  <2> TAKE a \in Attempts
  <2> HAVE a > n
  <2>1. a > c
    BY <1>1, <1>3
  <2> QED  BY <1>3, <1>4, <2>1
<1>6. call'[k].pc \in {"start", "read"} => tx'[k][n].status = "none"
  BY <1>1, <1>3, <1>4
<1>7. \A a \in Attempts : tx'[k][a].status # "built"
  BY <1>4
<1>8. call'[k].lost <= n + 1 /\ (call'[k].lost = n + 1 => call'[k].pc = "error")
  <2>1. \A x \in Nat, y \in Int : x <= y + 1 /\ x # y + 1 => x <= y
    OBVIOUS
  <2>2. call[k].lost <= c
    BY <1>3, <1>4, <2>1
  <2>3. call'[k].lost = call[k].lost + l
    BY <1>1
  <2>4. call'[k].lost <= c + 1 /\ call'[k].lost \in Int
    BY <1>3, <2>2, <2>3
  <2>5. CASE n = c /\ call'[k].pc = "error"
    BY <2>4, <2>5
  <2>6. CASE n = c + 1
    BY <1>3, <2>4, <2>6
  <2> QED  BY <1>1, <2>5, <2>6
<1>9. Cardinality(Open(k)') <= call'[k].lost
  <2>1. Open(k)' \subseteq Open(k) \cup {c}
    BY DEF Open
  <2>2. l = 0 => Open(k)' \subseteq Open(k)
    BY <2>1 DEF Open
  <2>3. /\ IsFiniteSet(Open(k)) /\ Cardinality(Open(k)) \in Nat
        /\ IsFiniteSet(Open(k) \cup {c})
        /\ Cardinality(Open(k) \cup {c})
             = IF c \in Open(k) THEN Cardinality(Open(k)) ELSE Cardinality(Open(k)) + 1
    BY OpenFinite, FS_AddElement
  <2>4. CASE l = 0
    <3>1. Cardinality(Open(k)') <= Cardinality(Open(k)) /\ IsFiniteSet(Open(k)')
      BY <2>2, <2>3, <2>4, FS_Subset
    <3>2. Cardinality(Open(k)') \in Nat
      BY <3>1, FS_CardinalityType
    <3> QED  BY <1>1, <1>3, <1>4, <2>3, <2>4, <3>1, <3>2
  <2>5. CASE l = 1
    <3>1. Cardinality(Open(k)') <= Cardinality(Open(k) \cup {c}) /\ IsFiniteSet(Open(k)')
      BY <2>1, <2>3, FS_Subset
    <3>2. Cardinality(Open(k)') \in Nat
      BY <3>1, FS_CardinalityType
    <3> QED  BY <1>1, <1>3, <1>4, <2>3, <2>5, <3>1, <3>2
  <2> QED  BY <2>4, <2>5
<1>10. CallOK(k)'
  BY <1>1, <1>5, <1>6, <1>7, <1>8, <1>9 DEF CallOK, Mine, At
<1> QED  BY <1>1, <1>2, <1>10, Frame

\* The same when the transactions are left alone.
LEMMA AttemptGivenUp ==
    ASSUME IInv, NEW k \in Calls, call[k].pc \in {"start", "read", "poll", "await"},
           NEW l \in {0, 1}, Retry(k, l) \/ Throw(k, l),
           l = 0 => Mine(k).status \notin {"out", "success"},
           UNCHANGED <<seq, tx>>
    PROVE  IInv'
<1>1. /\ tx \in [Calls -> [Attempts -> Txs]] /\ call[k].attempt \in Attempts
      /\ Mine(k).status # "built"
  BY DEF IInv, TypeOK, Runs, CallOK, Mine
<1> QED  BY <1>1, AttemptEnds DEF Mine

\* Within an attempt: nothing that was open before opens, and nothing is lost.
LEMMA Within ==
    ASSUME IInv, NEW k \in Calls,
           NEW pc \in {"send", "poll", "await", "ok", "done", "gone"}, Goto(k, pc), seq' = seq,
           call[k].pc \in {"start", "read", "send", "poll", "await"},
           tx' \in [Calls -> [Attempts -> Txs]],
           \A i \in Calls \ {k} : tx'[i] = tx[i],
           \A b \in Attempts \ {call[k].attempt} : tx'[k][b] = tx[k][b],
           \/ tx'[k][call[k].attempt] = tx[k][call[k].attempt]
           \/ /\ Mine(k).status \notin {"success", "failed"}
              /\ tx'[k][call[k].attempt].status \notin {"success", "failed"},
           pc = "ok" => tx'[k][call[k].attempt].status = "success",
           pc = "send" <=> tx'[k][call[k].attempt].status = "built" /\ pc # "gone",
           pc \in {"poll", "await", "ok", "gone"}
             \/ tx'[k][call[k].attempt].status \notin {"out", "success"}
    PROVE  IInv'
<1> DEFINE c == call[k].attempt
<1>1. /\ call' \in [Calls -> Runs]
      /\ call'[k].pc = pc
      /\ call'[k].attempt = c
      /\ call'[k].lost = call[k].lost
      /\ \A i \in Calls \ {k} : call'[i] = call[i]
  BY GotoStep DEF IInv
<1>2. seq' \in Seqs /\ SeqOK'
  BY SeqStays
<1>3. /\ c \in Attempts /\ c \in Int /\ \A a \in Attempts : a \in Int
  BY DEF IInv, TypeOK, Runs, Attempts
<1>4. Cardinality(Open(k)') <= call'[k].lost
  <2>1. Open(k)' \in SUBSET Open(k)
    BY <1>1 DEF Open, Watched
  <2>2. Cardinality(Open(k)') <= Cardinality(Open(k)) /\ IsFiniteSet(Open(k)')
    BY <2>1, OpenFinite, FS_Subset
  <2>3. Cardinality(Open(k)') \in Nat /\ Cardinality(Open(k)) \in Nat /\ call[k].lost \in Nat
    BY <2>2, OpenFinite, FS_CardinalityType DEF IInv, TypeOK, Runs
  <2>4. Cardinality(Open(k)) <= call[k].lost
    BY DEF IInv, CallOK
  <2> QED  BY <1>1, <2>2, <2>3, <2>4
<1>5. \A a \in Attempts : a > c => tx'[k][a].status = "none"
  BY <1>3 DEF IInv, CallOK
<1>6. \A a \in Attempts : tx'[k][a].status = "built" => a = c /\ pc \in {"send", "gone"}
  BY <1>3 DEF IInv, CallOK
<1>7. call'[k].lost <= c + 1 /\ call'[k].lost # c + 1
  BY <1>1 DEF IInv, CallOK, At
<1>8. CallOK(k)'
  BY <1>1, <1>4, <1>5, <1>6, <1>7 DEF CallOK, Mine, At
<1> QED  BY <1>1, <1>2, <1>8, Frame

LEMMA ReadSteps ==
    ASSUME IInv, NEW k \in Calls,
           Unresolved(k) \/ Simulate(k) \/ SimulateFails(k) \/ PrepareFails(k)
    PROVE  IInv'
<1>1. /\ call[k].pc \in {"start", "read"}
      /\ \/ Goto(k, "done") /\ call[k].pc = "read"
         \/ Retry(k, 0) \/ Throw(k, 0)
      /\ UNCHANGED <<seq, tx>>
  BY DEF Unresolved, Simulate, SimulateFails, PrepareFails, At
<1>2. Mine(k).status = "none"
  BY <1>1 DEF IInv, CallOK
<1>3. CASE Goto(k, "done")
  BY <1>1, <1>2, <1>3, Within DEF IInv, TypeOK, Mine
<1>4. CASE Retry(k, 0) \/ Throw(k, 0)
  BY <1>1, <1>2, <1>4, AttemptGivenUp
<1> QED  BY <1>1, <1>3, <1>4

\* The transaction is built with a number that is left.
LEMMA PrepareStep ==
    ASSUME IInv, NEW k \in Calls, Prepare(k)
    PROVE  IInv'
<1> DEFINE c == call[k].attempt
           t == [seq |-> seq + 1, status |-> "built"]
<1>1. /\ call[k].pc = "start" /\ tx' = [tx EXCEPT ![k][c] = t]
      /\ Goto(k, "send") /\ seq' = seq
  BY DEF Prepare, At
<1>2. c \in Attempts /\ Mine(k).status = "none"
  BY <1>1 DEF IInv, TypeOK, Runs, CallOK
<1>3. t \in Txs /\ t.status = "built"
  BY <1>2, NumberLeft DEF IInv, Txs, TxStatus, Mine
<1> HIDE DEF t
<1>4. /\ tx' \in [Calls -> [Attempts -> Txs]]
      /\ tx'[k][c] = t
      /\ \A b \in Attempts \ {c} : tx'[k][b] = tx[k][b]
      /\ \A i \in Calls \ {k} : tx'[i] = tx[i]
  BY <1>1, <1>2, <1>3, TxStep DEF IInv
<1> QED  BY <1>1, <1>2, <1>3, <1>4, Within

LEMMA BecomesStep ==
    ASSUME IInv, NEW k \in Calls, NEW st \in TxStatus, Becomes(k, st)
    PROVE  /\ tx' \in [Calls -> [Attempts -> Txs]]
           /\ tx'[k][call[k].attempt].status = st
           /\ \A b \in Attempts \ {call[k].attempt} : tx'[k][b] = tx[k][b]
           /\ \A i \in Calls \ {k} : tx'[i] = tx[i]
<1> DEFINE c == call[k].attempt
           t == [seq |-> 0, status |-> st]
<1>1. 0 \in Seqs
  <2>1. Cardinality(Calls) \in Nat /\ MaxRetries + 1 \in Nat
    BY AllFinite, SubmissionAssumption
  <2> DEFINE max == Cardinality(Calls) * (MaxRetries + 1)
  <2>2. max \in Nat
    BY <2>1
  <2> HIDE DEF max
  <2>3. 0 \in 0 .. max
    BY <2>2
  <2> QED  BY <2>3 DEF Seqs, max
<1>2. t \in Txs /\ t.status = st
  BY <1>1 DEF Txs
<1>3. c \in Attempts /\ tx' = [tx EXCEPT ![k][c] = t]
  BY DEF IInv, TypeOK, Runs, Becomes
<1> HIDE DEF t
<1> QED  BY <1>2, <1>3, TxStep DEF IInv

\* Sent, or taken for sent: the call looks out for the transaction.
LEMMA SentStep ==
    ASSUME IInv, NEW k \in Calls, Sent(k) \/ Deferred(k)
    PROVE  IInv'
<1>1. PICK st \in {"out", "void"}, pc \in {"poll", "await"} :
         Becomes(k, st) /\ Goto(k, pc) /\ call[k].pc = "send" /\ seq' = seq
  BY DEF Sent, Deferred, At
<1>2. Mine(k).status = "built"
  BY <1>1 DEF IInv, CallOK, At
<1>3. /\ tx' \in [Calls -> [Attempts -> Txs]]
      /\ tx'[k][call[k].attempt].status = st
      /\ \A b \in Attempts \ {call[k].attempt} : tx'[k][b] = tx[k][b]
      /\ \A i \in Calls \ {k} : tx'[i] = tx[i]
  BY <1>1, BecomesStep DEF TxStatus
<1> QED  BY <1>1, <1>2, <1>3, Within

\* Refused for certain, or without an answer: the transaction may then be out.
LEMMA NotSentStep ==
    ASSUME IInv, NEW k \in Calls, Refused(k) \/ SendLost(k)
    PROVE  IInv'
<1>1. PICK st \in {"out", "void"}, l \in {0, 1} :
         /\ Becomes(k, st)
         /\ Retry(k, l) \/ Throw(k, l)
         /\ l = 0 => st = "void"
         /\ call[k].pc = "send" /\ seq' = seq
  BY DEF Refused, SendLost, At
<1>2. Mine(k).status = "built"
  BY <1>1 DEF IInv, CallOK, At
<1>3. /\ tx' \in [Calls -> [Attempts -> Txs]]
      /\ tx'[k][call[k].attempt].status = st
      /\ \A b \in Attempts \ {call[k].attempt} : tx'[k][b] = tx[k][b]
      /\ \A i \in Calls \ {k} : tx'[i] = tx[i]
  BY <1>1, BecomesStep DEF TxStatus
<1> QED  BY <1>1, <1>2, <1>3, AttemptEnds

\* The answer was a success: it is one, and stays one.
LEMMA FoundStep ==
    ASSUME IInv, NEW k \in Calls, PollFound(k) \/ HorizonAnswers(k)
    PROVE  IInv'
<1>1. /\ call[k].pc \in {"poll", "await"} /\ UNCHANGED <<seq, tx>>
      /\ \/ Mine(k).status = "success" /\ Goto(k, "ok")
         \/ Mine(k).status \in {"failed", "void"} /\ (Retry(k, 0) \/ Throw(k, 0))
  BY DEF PollFound, HorizonAnswers, At
<1>2. CASE Mine(k).status = "success" /\ Goto(k, "ok")
  BY <1>1, <1>2, Within DEF IInv, TypeOK, Mine
<1>3. CASE Mine(k).status \in {"failed", "void"} /\ (Retry(k, 0) \/ Throw(k, 0))
  BY <1>1, <1>3, AttemptGivenUp
<1> QED  BY <1>1, <1>2, <1>3

LEMMA UnknownStep ==
    ASSUME IInv, NEW k \in Calls, PollNotFound(k) \/ PollFails(k) \/ HorizonSilent(k)
    PROVE  IInv'
<1>1. /\ call[k].pc \in {"poll", "await"} /\ UNCHANGED <<seq, tx>>
      /\ \/ Retry(k, 1) \/ Throw(k, 1)
         \/ /\ call[k].polls + 1 < MaxPolls
            /\ call' = [call EXCEPT ![k].polls = @ + 1]
  BY DEF PollNotFound, PollFails, HorizonSilent, At
<1>2. CASE Retry(k, 1) \/ Throw(k, 1)
  BY <1>1, <1>2, AttemptGivenUp
<1>3. CASE /\ call[k].polls + 1 < MaxPolls
           /\ call' = [call EXCEPT ![k].polls = @ + 1]
  <2> DEFINE x == [call[k] EXCEPT !.polls = @ + 1]
  <2>1. call[k].polls + 1 \in 0 .. MaxPolls
    BY <1>3, SubmissionAssumption DEF IInv, TypeOK, Runs
  <2>2. /\ x \in Runs /\ x.pc = call[k].pc /\ x.attempt = call[k].attempt
        /\ x.lost = call[k].lost
    BY <2>1 DEF IInv, TypeOK, Runs
  <2>3. call' = [call EXCEPT ![k] = x]
    BY <1>3 DEF IInv, TypeOK
  <2> HIDE DEF x
  <2>4. /\ call' \in [Calls -> Runs]
        /\ call'[k] = x
        /\ \A i \in Calls \ {k} : call'[i] = call[i]
    BY <2>2, <2>3, CallStep DEF IInv
  <2>5. Open(k)' = Open(k)
    BY <1>1, <2>2, <2>4 DEF Open
  <2>6. CallOK(k)'
    BY <1>1, <2>2, <2>4, <2>5 DEF IInv, CallOK, Mine, At
  <2>7. seq' \in Seqs /\ SeqOK' /\ tx' \in [Calls -> [Attempts -> Txs]]
    BY <1>1 DEF IInv, TypeOK, SeqOK, Numbered
  <2> QED  BY <1>1, <2>4, <2>6, <2>7, Frame
<1> QED  BY <1>1, <1>2, <1>3

\* The process stops: what the call had in flight is nobody's any more.
LEMMA RestartStep ==
    ASSUME IInv, NEW k \in Calls, Restart(k)
    PROVE  IInv'
<1>1. /\ call[k].pc \in {"start", "read", "send", "poll", "await"}
      /\ Goto(k, "gone") /\ UNCHANGED <<seq, tx>>
  BY DEF Restart, IInv, TypeOK, Runs
<1> QED  BY <1>1, Within DEF IInv, TypeOK

\* The network's step on a transaction that is out.
LEMMA NetworkStep ==
    ASSUME IInv, NEW k \in Calls, NEW a \in Attempts, Lands(k, a) \/ Expires(k, a)
    PROVE  IInv'
<1>1. PICK st \in {"success", "failed", "void"} :
         /\ tx[k][a].status = "out" /\ call' = call
         /\ tx' = [tx EXCEPT ![k][a].status = st]
         /\ seq' = IF st = "void" THEN seq ELSE seq + 1
  BY DEF Lands, Expires
<1> DEFINE t == [tx[k][a] EXCEPT !.status = st]
<1>2. t \in Txs /\ t.status = st
  BY DEF IInv, TypeOK, Txs, TxStatus
<1>3. tx' = [tx EXCEPT ![k][a] = t]
  BY <1>1 DEF IInv, TypeOK
<1> HIDE DEF t
<1>4. /\ tx' \in [Calls -> [Attempts -> Txs]]
      /\ tx'[k][a].status = st
      /\ \A b \in Attempts \ {a} : tx'[k][b] = tx[k][b]
      /\ \A i \in Calls \ {k} : tx'[i] = tx[i]
  BY <1>2, <1>3, TxStep DEF IInv
<1>5. \A p \in Calls \X Attempts :
         tx'[p[1]][p[2]].status = IF p = <<k, a>> THEN st ELSE tx[p[1]][p[2]].status
  BY <1>4
<1>6. seq' \in Seqs /\ SeqOK'
  <2>1. CASE st = "void"
    <3>1. Numbered' = Numbered
      BY <1>1, <1>5, <2>1 DEF Numbered
    <3> QED  BY <1>1, <2>1, <3>1 DEF IInv, TypeOK, SeqOK
  <2>2. CASE st # "void"
    <3>1. Numbered' = Numbered \cup {<<k, a>>}
      BY <1>1, <1>5, <2>2 DEF Numbered
    <3>2. seq + 1 \in Seqs /\ Cardinality(Numbered \cup {<<k, a>>}) = seq + 1
      BY <1>1, NumberLeft DEF IInv
    <3> QED  BY <1>1, <2>2, <3>1, <3>2 DEF SeqOK
  <2> QED  BY <2>1, <2>2
<1>7. Cardinality(Open(k)') <= call[k].lost
  <2>1. Open(k)' \in SUBSET Open(k)
    BY <1>1, <1>4 DEF Open
  <2>2. Cardinality(Open(k)') <= Cardinality(Open(k)) /\ IsFiniteSet(Open(k)')
    BY <2>1, OpenFinite, FS_Subset
  <2>3. Cardinality(Open(k)') \in Nat /\ Cardinality(Open(k)) \in Nat /\ call[k].lost \in Nat
    BY <2>2, OpenFinite, FS_CardinalityType DEF IInv, TypeOK, Runs
  <2>4. Cardinality(Open(k)) <= call[k].lost
    BY DEF IInv, CallOK
  <2> QED  BY <2>2, <2>3, <2>4
<1>8. /\ call[k].pc \notin {"start", "read", "send", "ok"} \/ a # call[k].attempt
      /\ ~(a > call[k].attempt)
  BY <1>1 DEF IInv, CallOK, Mine, At
<1>9. CallOK(k)'
  BY <1>1, <1>4, <1>7, <1>8 DEF IInv, TypeOK, Runs, CallOK, Mine, At
<1>10. call' \in [Calls -> Runs] /\ \A i \in Calls \ {k} : call'[i] = call[i]
  BY <1>1 DEF IInv, TypeOK
<1> QED  BY <1>4, <1>6, <1>9, <1>10, Frame

-------------------------------------------------------------------------------
(* Theorems *)

LEMMA NextStep ==
    ASSUME IInv, [Next]_vars
    PROVE  IInv'
<1>1. ASSUME NEW k \in Calls, Answered(k) \/ Fault(k)
      PROVE  IInv'
  BY <1>1, ReadSteps, PrepareStep, SentStep, NotSentStep, FoundStep, UnknownStep, RestartStep
     DEF Answered, Fault
<1>2. ASSUME NEW k \in Calls, NEW a \in Attempts, Lands(k, a) \/ Expires(k, a)
      PROVE  IInv'
  BY <1>2, NetworkStep
<1>3. CASE UNCHANGED vars
  BY <1>3 DEF vars, IInv, TypeOK, SeqOK, Numbered, CallOK, Open, Mine, At
<1> QED  BY <1>1, <1>2, <1>3 DEF Next

LEMMA InitStep == Init => IInv
<1> SUFFICES ASSUME Init PROVE IInv
  OBVIOUS
<1>1. 0 \in Seqs
  <2> DEFINE max == Cardinality(Calls) * (MaxRetries + 1)
  <2>1. Cardinality(Calls) \in Nat /\ MaxRetries + 1 \in Nat
    BY AllFinite, SubmissionAssumption
  <2>2. max \in Nat
    BY <2>1
  <2> HIDE DEF max
  <2>3. 0 \in 0 .. max
    BY <2>2
  <2> QED  BY <2>3 DEF Seqs, max
<1>2. ASSUME NEW k \in Calls
      PROVE  /\ call[k] \in Runs /\ call[k].pc \in {"start", "read"}
             /\ call[k].attempt = 0 /\ call[k].lost = 0
  <2>1. PICK pc \in {"start", "read"} :
           call[k] = [pc |-> pc, attempt |-> 0, polls |-> 0, lost |-> 0]
    BY DEF Init
  <2>2. 0 \in Attempts /\ 0 \in 0 .. MaxPolls /\ 0 \in 0 .. MaxRetries + 1
    BY SubmissionAssumption DEF Attempts
  <2> QED  BY <2>1, <2>2 DEF Runs
<1>3. \A k \in Calls, a \in Attempts : tx[k][a] \in Txs /\ tx[k][a].status = "none"
  BY <1>1 DEF Init, Txs, TxStatus
<1>4. TypeOK
  BY <1>1, <1>2, <1>3 DEF Init, TypeOK
<1>5. Numbered = {} /\ \A k \in Calls : Open(k) = {}
  BY <1>3 DEF Numbered, Open
<1>6. SeqOK
  BY <1>5, FS_EmptySet DEF Init, SeqOK
<1>7. ASSUME NEW k \in Calls
      PROVE  CallOK(k)
  <2>1. 0 \in Attempts
    BY SubmissionAssumption DEF Attempts
  <2>2. Cardinality(Open(k)) = 0
    BY <1>5, FS_EmptySet
  <2> QED  BY <1>2, <1>3, <2>1, <2>2 DEF CallOK, Mine, At
<1> QED  BY <1>4, <1>6, <1>7 DEF IInv

\* The invariant that the others rest on holds in every reachable state.
THEOREM Inductive == Spec => []IInv
  BY InitStep, NextStep, PTL DEF Spec

\* Numbers, transactions and calls hold values of their types: no call makes more
\* attempts than the delays allow.
THEOREM TypeCorrect == Spec => []TypeOK
<1>1. IInv => TypeOK
  BY DEF IInv
<1> QED  BY Inductive, <1>1, PTL

\* What a call tells its caller agrees with the chain, whatever the other calls and
\* earlier attempts have there.
THEOREM TrueAnswers == Spec => []AnswerIsTrue
<1>1. IInv => AnswerIsTrue
  <2> SUFFICES ASSUME IInv, NEW k \in Calls
               PROVE  /\ At(k, "ok") => Mine(k).status = "success"
                      /\ At(k, "error") /\ call[k].lost = 0 =>
                           \A a \in Attempts : tx[k][a].status \in {"none", "failed", "void"}
    BY DEF AnswerIsTrue
  <2>1. At(k, "ok") => Mine(k).status = "success"
    BY DEF IInv, CallOK
  <2>2. ASSUME At(k, "error"), call[k].lost = 0, NEW a \in Attempts
        PROVE  tx[k][a].status \in {"none", "failed", "void"}
    <3>1. Cardinality(Open(k)) = 0
      BY <2>2, OpenFinite DEF IInv, CallOK
    <3>2. Open(k) = {}
      BY <3>1, OpenFinite, FS_EmptySet
    <3>3. tx[k][a].status \notin {"out", "success"}
      BY <2>2, <3>2 DEF Open, Watched, At
    <3>4. tx[k][a].status # "built"
      BY <2>2 DEF IInv, CallOK, At
    <3> QED  BY <3>3, <3>4 DEF IInv, TypeOK, Txs, TxStatus
  <2> QED  BY <2>1, <2>2
<1> QED  BY Inductive, <1>1, PTL

LEMMA EffectsBound == IInv => EffectsAreAccountedFor
<1> SUFFICES ASSUME IInv, NEW k \in Calls
             PROVE  Cardinality(Landed(k)) <= 1 + call[k].lost
  BY DEF EffectsAreAccountedFor
<1> DEFINE O == Open(k) \cup {call[k].attempt}
<1>1. Landed(k) \in SUBSET O
  BY DEF Landed, Open
<1>2. /\ IsFiniteSet(O)
      /\ Cardinality(O) = IF call[k].attempt \in Open(k) THEN Cardinality(Open(k))
                          ELSE Cardinality(Open(k)) + 1
  BY OpenFinite, FS_AddElement
<1>3. Cardinality(Open(k)) \in Nat /\ call[k].lost \in Nat
      /\ Cardinality(Open(k)) <= call[k].lost
  BY OpenFinite DEF IInv, TypeOK, Runs, CallOK
<1>4. Cardinality(Landed(k)) <= Cardinality(O) /\ IsFiniteSet(Landed(k))
  BY <1>1, <1>2, FS_Subset
<1>5. Cardinality(Landed(k)) \in Nat
  BY <1>4, FS_CardinalityType
<1> HIDE DEF O
<1> QED  BY <1>2, <1>3, <1>4, <1>5

\* A call takes effect once, and once more at most for every outcome that was lost.
THEOREM Effects == Spec => []EffectsAreAccountedFor
  BY Inductive, EffectsBound, PTL

-------------------------------------------------------------------------------
(* What a step of the call itself does: it moves a call that has not ended, loses
   one outcome at most, and none when it ends well, and leaves what has landed. *)

LandedStays(k) ==
    \A a \in Attempts : tx'[k][a].status = "success" <=> tx[k][a].status = "success"

OthersStay(k) == \A i \in Calls \ {k} : call'[i] = call[i] /\ tx'[i] = tx[i]

Loses(k) ==
    \E l \in {0, 1} : /\ call'[k].lost = call[k].lost + l
                      /\ call'[k].pc \in {"ok", "done", "gone"} => l = 0

OwnStep(k) == call[k].pc \notin Ended /\ OthersStay(k) /\ LandedStays(k) /\ Loses(k)

\* The call moves on, its transactions stay.
LEMMA OwnGoto ==
    ASSUME IInv, NEW k \in Calls, call[k].pc \notin Ended, NEW l \in {0, 1},
           \/ \E pc \in {"ok", "done", "gone"} : Goto(k, pc)
           \/ Retry(k, l) \/ Throw(k, l),
           tx' = tx
    PROVE  OwnStep(k)
<1>1. CASE \E pc \in {"ok", "done", "gone"} : Goto(k, pc)
  BY <1>1, GotoStep DEF IInv, TypeOK, Runs, OwnStep, OthersStay, LandedStays, Loses
<1>2. CASE Retry(k, l) \/ Throw(k, l)
  <2>1. /\ call'[k].pc \in {"error", "start", "read"}
        /\ call'[k].lost = call[k].lost + l
        /\ \A i \in Calls \ {k} : call'[i] = call[i]
    BY <1>2, RetryStep DEF IInv, At, Ended
  <2> QED  BY <2>1 DEF OwnStep, OthersStay, LandedStays, Loses
<1> QED  BY <1>1, <1>2

\* A transaction is built, or what is known of one that was built becomes known.
LEMMA OwnSend ==
    ASSUME IInv, NEW k \in Calls, Prepare(k) \/ Sent(k) \/ Deferred(k) \/ Refused(k) \/ SendLost(k)
    PROVE  OwnStep(k)
<1> DEFINE c == call[k].attempt
<1>1. call[k].pc \in {"start", "send"} /\ Mine(k).status \in {"none", "built"}
  BY DEF IInv, CallOK, At, Prepare, Sent, Deferred, Refused, SendLost
<1>2. /\ tx'[k][c].status # "success"
      /\ \A b \in Attempts \ {c} : tx'[k][b] = tx[k][b]
      /\ \A i \in Calls \ {k} : tx'[i] = tx[i]
  <2>1. CASE Prepare(k)
    <3> DEFINE t == [seq |-> seq + 1, status |-> "built"]
    <3>1. tx' = [tx EXCEPT ![k][c] = t] /\ t.status = "built"
      BY <2>1 DEF Prepare
    <3>2. c \in Attempts
      BY DEF IInv, TypeOK, Runs
    <3> HIDE DEF t
    <3> QED  BY <3>1, <3>2 DEF IInv, TypeOK
  <2>2. CASE Sent(k) \/ Deferred(k) \/ Refused(k) \/ SendLost(k)
    <3>1. PICK st \in {"out", "void"} : Becomes(k, st)
      BY <2>2 DEF Sent, Deferred, Refused, SendLost
    <3> QED  BY <3>1, BecomesStep DEF TxStatus
  <2> QED  BY <2>1, <2>2
<1>3. LandedStays(k)
  BY <1>1, <1>2 DEF LandedStays, Mine
<1>4. Loses(k) /\ \A i \in Calls \ {k} : call'[i] = call[i]
  <2>1. CASE \E pc \in {"send", "poll", "await"} : Goto(k, pc)
    BY <2>1, GotoStep DEF IInv, TypeOK, Runs, Loses
  <2>2. CASE \E l \in {0, 1} : Retry(k, l) \/ Throw(k, l)
    <3>1. PICK l \in {0, 1} : Retry(k, l) \/ Throw(k, l)
      BY <2>2
    <3>2. /\ call'[k].pc \in {"error", "start", "read"}
          /\ call'[k].lost = call[k].lost + l
          /\ \A i \in Calls \ {k} : call'[i] = call[i]
      BY <1>1, <3>1, RetryStep DEF IInv, At
    <3> QED  BY <3>2 DEF Loses
  <2> QED  BY <2>1, <2>2 DEF Prepare, Sent, Deferred, Refused, SendLost
<1> QED  BY <1>1, <1>2, <1>3, <1>4 DEF OwnStep, OthersStay, Ended

LEMMA Own ==
    ASSUME IInv, NEW k \in Calls, Answered(k) \/ Fault(k)
    PROVE  OwnStep(k)
<1>1. CASE Prepare(k) \/ Sent(k) \/ Deferred(k) \/ Refused(k) \/ SendLost(k)
  BY <1>1, OwnSend
<1>2. CASE \/ Unresolved(k) \/ Simulate(k) \/ SimulateFails(k) \/ PrepareFails(k)
           \/ PollFound(k) \/ PollFails(k) \/ HorizonAnswers(k) \/ HorizonSilent(k) \/ Restart(k)
  <2>1. /\ call[k].pc \notin Ended /\ tx' = tx
        /\ \/ \E pc \in {"ok", "done", "gone"} : Goto(k, pc)
           \/ \E l \in {0, 1} : Retry(k, l) \/ Throw(k, l)
    BY <1>2 DEF Unresolved, Simulate, SimulateFails, PrepareFails, PollFound, PollFails,
                HorizonAnswers, HorizonSilent, Restart, At, Ended
  <2> QED  BY <2>1, OwnGoto
<1>3. CASE PollNotFound(k)
  <2>1. call[k].pc = "poll" /\ tx' = tx
    BY <1>3 DEF PollNotFound, At
  <2>2. CASE Retry(k, 1)
    BY <2>1, <2>2, OwnGoto DEF Ended
  <2>3. CASE call' = [call EXCEPT ![k].polls = @ + 1]
    BY <2>1, <2>3 DEF IInv, TypeOK, Runs, OwnStep, OthersStay, LandedStays, Loses, Ended
  <2> QED  BY <1>3, <2>2, <2>3 DEF PollNotFound
<1> QED  BY <1>1, <1>2, <1>3 DEF Answered, Fault

-------------------------------------------------------------------------------
(* Submission implements ChainCall *)

\* A read has no transactions, however often it is retried.
ReadOK(k) == call[k].pc \in {"read", "done"} => \A a \in Attempts : tx[k][a].status = "none"

ReadInv == \A k \in Calls : ReadOK(k)

LEMMA ReadInit == Init => ReadInv
  BY DEF Init, ReadInv, ReadOK

LEMMA ReadNext ==
    ASSUME IInv, ReadInv, [Next]_vars
    PROVE  ReadInv'
<1>1. ASSUME NEW k \in Calls, Answered(k) \/ Fault(k), NEW i \in Calls
      PROVE  ReadOK(i)'
  <2>1. OwnStep(k)
    BY <1>1, Own
  <2>2. CASE i # k
    BY <2>1, <2>2 DEF ReadInv, ReadOK, OwnStep, OthersStay
  <2>3. CASE i = k /\ call[k].pc = "read"
    <3>1. tx' = tx
      BY <1>1, <2>3 DEF Answered, Fault, Unresolved, Simulate, SimulateFails, Prepare,
           PrepareFails, Sent, Deferred, Refused, SendLost, PollFound, PollNotFound,
           PollFails, HorizonAnswers, HorizonSilent, Restart, At
    <3> QED  BY <2>3, <3>1 DEF ReadInv, ReadOK
  <2>4. CASE i = k /\ call[k].pc # "read"
    <3>1. call[k].pc # "done"
      BY <2>1 DEF OwnStep, Ended
    <3>2. CASE \E pc \in {"send", "poll", "await", "ok", "gone"} : Goto(k, pc)
      BY <2>4, <3>2, GotoStep DEF IInv, ReadOK
    <3>3. CASE \E l \in {0, 1} : Retry(k, l) \/ Throw(k, l)
      <4>1. First(k) = "start"
        BY <2>4 DEF First, At
      <4>2. call'[k].pc \in {"start", "error"}
        BY <3>3, <4>1 DEF Retry, Throw, Again, IInv, TypeOK, Runs
      <4> QED  BY <2>4, <4>2 DEF ReadOK
    <3>4. CASE call' = [call EXCEPT ![k].polls = @ + 1]
      BY <2>4, <3>1, <3>4 DEF IInv, TypeOK, Runs, ReadOK
    <3> QED  BY <1>1, <2>4, <3>2, <3>3, <3>4 DEF Answered, Fault, Unresolved, Simulate,
           SimulateFails, Prepare, PrepareFails, Sent, Deferred, Refused, SendLost, PollFound,
           PollNotFound, PollFails, HorizonAnswers, HorizonSilent, Restart, At
  <2> QED  BY <2>2, <2>3, <2>4
<1>2. ASSUME NEW k \in Calls, NEW a \in Attempts, Lands(k, a) \/ Expires(k, a)
      PROVE  ReadInv'
  <2>1. /\ call' = call /\ tx[k][a].status = "out"
        /\ \A i \in Calls, b \in Attempts : <<i, b>> # <<k, a>> => tx'[i][b] = tx[i][b]
    BY <1>2 DEF Lands, Expires, IInv, TypeOK
  <2>2. call[k].pc \notin {"read", "done"}
    BY <2>1 DEF ReadInv, ReadOK
  <2> QED  BY <2>1, <2>2 DEF ReadInv, ReadOK
<1>3. CASE UNCHANGED vars
  BY <1>3 DEF vars, ReadInv, ReadOK
<1> QED  BY <1>1, <1>2, <1>3 DEF Next, ReadInv

LEMMA LandedFinite ==
    ASSUME NEW k \in Calls
    PROVE  IsFiniteSet(Landed(k)) /\ Cardinality(Landed(k)) \in Nat
<1>1. Landed(k) \in SUBSET Attempts
  BY DEF Landed
<1> QED  BY <1>1, AttemptsFinite, FS_Subset, FS_CardinalityType

\* How much of an effect a call may have had, by what it has answered.
EffectsMatch ==
    \A k \in Calls : /\ At(k, "ok") => Cardinality(Landed(k)) > 0
                     /\ At(k, "error") => Cardinality(Landed(k)) <= call[k].lost
                     /\ At(k, "done") => Cardinality(Landed(k)) = 0

LEMMA EffectsOf == IInv /\ ReadInv => EffectsMatch
<1> SUFFICES ASSUME IInv, ReadInv, NEW k \in Calls
             PROVE  /\ At(k, "ok") => Cardinality(Landed(k)) > 0
                    /\ At(k, "error") => Cardinality(Landed(k)) <= call[k].lost
                    /\ At(k, "done") => Cardinality(Landed(k)) = 0
  BY DEF EffectsMatch
<1>1. ASSUME At(k, "ok")
      PROVE  Cardinality(Landed(k)) > 0
  <2>1. call[k].attempt \in Landed(k)
    BY <1>1 DEF IInv, TypeOK, Runs, CallOK, Landed, Mine
  <2>2. Cardinality(Landed(k)) # 0
    BY <2>1, LandedFinite, FS_EmptySet
  <2> QED  BY <2>2, LandedFinite
<1>2. ASSUME At(k, "error")
      PROVE  Cardinality(Landed(k)) <= call[k].lost
  <2>1. Landed(k) \in SUBSET Open(k)
    BY <1>2 DEF Landed, Open, Watched, At
  <2>2. Cardinality(Landed(k)) <= Cardinality(Open(k))
    BY <2>1, OpenFinite, FS_Subset
  <2> QED  BY <2>2, OpenFinite, LandedFinite DEF IInv, TypeOK, Runs, CallOK
<1>3. ASSUME At(k, "done")
      PROVE  Cardinality(Landed(k)) = 0
  <2>1. Landed(k) = {}
    BY <1>3 DEF ReadInv, ReadOK, Landed, At
  <2> QED  BY <2>1, FS_EmptySet
<1> QED  BY <1>1, <1>2, <1>3

LEMMA CallInitMaps == Init => Call!CallInit
<1> SUFFICES ASSUME Init PROVE Call!CallInit
  OBVIOUS
<1>1. \A k \in Calls : call[k].pc \in {"start", "read"} /\ call[k].lost = 0
  BY DEF Init
<1>2. \A k \in Calls : Landed(k) = {}
  BY DEF Init, Landed
<1>3. \A k \in Calls : Cardinality(Landed(k)) = 0
  BY <1>2, FS_EmptySet
<1> QED  BY <1>1, <1>3 DEF Call!CallInit, AnswerView, EffectsView, DoubtView, Ended

\* A step of the call implements the answer or the doubt that it ends with, or none.
LEMMA OwnMaps ==
    ASSUME IInv, IInv', ReadInv', NEW k \in Calls, OwnStep(k)
    PROVE  [Call!CallNext]_<<AnswerView, EffectsView, DoubtView>>
<1> DEFINE pc == call'[k].pc
           to == IF pc \in Ended THEN pc ELSE "none"
<1>1. /\ \A i \in Calls \ {k} : Landed(i)' = Landed(i)
      /\ Landed(k)' = Landed(k)
  BY DEF OwnStep, OthersStay, LandedStays, Landed
<1>2. EffectsView' = EffectsView
  BY <1>1 DEF EffectsView
<1>3. AnswerView[k] = "none" /\ AnswerView' = [AnswerView EXCEPT ![k] = to]
  BY DEF OwnStep, OthersStay, AnswerView
<1>4. PICK l \in {0, 1} : /\ call'[k].lost = call[k].lost + l
                          /\ pc \in {"ok", "done", "gone"} => l = 0
  BY DEF OwnStep, Loses
<1>5. DoubtView' = [DoubtView EXCEPT ![k] = @ + l]
  BY <1>4 DEF OwnStep, OthersStay, DoubtView
<1>6. /\ call[k].lost \in Nat /\ call'[k].lost <= MaxRetries + 1 /\ MaxRetries \in Nat
      /\ DoubtView[k] = call[k].lost
  BY SubmissionAssumption DEF IInv, TypeOK, Runs, DoubtView
<1>7. l = 0 => UNCHANGED DoubtView
  BY <1>4, <1>6 DEF OwnStep, OthersStay, DoubtView
<1>8. l = 1 => Call!Doubts(k)
  BY <1>4, <1>5, <1>6 DEF Call!Doubts
<1>9. /\ pc = "ok" => EffectsView[k] > 0
      /\ pc = "error" => EffectsView[k] <= DoubtView'[k]
      /\ pc = "done" => EffectsView[k] = 0
  <2>1. EffectsMatch'
    BY EffectsOf, PTL
  <2> QED  BY <1>1, <2>1 DEF EffectsMatch, At, EffectsView, DoubtView
<1>10. CASE to = "none"
  <2>1. UNCHANGED AnswerView
    BY <1>3, <1>10 DEF AnswerView
  <2>2. CASE l = 0
    BY <1>2, <1>7, <2>1, <2>2
  <2>3. CASE l = 1
    BY <1>2, <1>3, <1>8, <2>1, <2>3 DEF Call!CallNext, Call!Wonder
  <2> QED  BY <2>2, <2>3
<1>11. CASE to # "none"
  <2>1. pc \in {"ok", "done", "error", "gone"} /\ Call!Answers(k, pc)
    BY <1>3, <1>11 DEF Ended, Call!Answers
  <2>2. CASE pc = "ok"
    BY <1>2, <1>4, <1>7, <1>9, <2>1, <2>2 DEF Call!CallNext, Call!Succeed
  <2>3. CASE pc = "error"
    BY <1>2, <1>7, <1>8, <1>9, <2>1, <2>3 DEF Call!CallNext, Call!Fail
  <2>4. CASE pc = "done"
    BY <1>2, <1>4, <1>7, <1>9, <2>1, <2>4 DEF Call!CallNext, Call!Return
  <2>5. CASE pc = "gone"
    BY <1>2, <1>4, <1>7, <2>1, <2>5 DEF Call!CallNext, Call!Vanish
  <2> QED  BY <2>1, <2>2, <2>3, <2>4, <2>5
<1> QED  BY <1>10, <1>11

\* The network executes a transaction: the effect is the one that the call may yet be
\* told of, or one that it has lost.
LEMMA EffectMaps ==
    ASSUME IInv, IInv', ReadInv, ReadInv', NEW k \in Calls, NEW a \in Attempts,
           Lands(k, a) \/ Expires(k, a)
    PROVE  [Call!CallNext]_<<AnswerView, EffectsView, DoubtView>>
<1>1. /\ tx[k][a].status = "out" /\ call' = call
      /\ \A i \in Calls \ {k} : tx'[i] = tx[i]
      /\ \A b \in Attempts \ {a} : tx'[k][b] = tx[k][b]
  BY DEF Lands, Expires, IInv, TypeOK
<1>2. UNCHANGED <<AnswerView, DoubtView>>
  BY <1>1 DEF AnswerView, DoubtView
<1>3. \A i \in Calls \ {k} : Landed(i)' = Landed(i)
  BY <1>1 DEF Landed
<1>4. CASE tx'[k][a].status # "success"
  <2>1. Landed(k)' = Landed(k)
    BY <1>1, <1>4 DEF Landed
  <2>2. EffectsView' = EffectsView
    BY <1>3, <2>1 DEF EffectsView
  <2> QED  BY <1>2, <2>2
<1>5. CASE tx'[k][a].status = "success"
  <2>1. a \notin Landed(k) /\ Landed(k)' = Landed(k) \cup {a}
    BY <1>1, <1>5 DEF Landed
  <2>2. /\ Cardinality(Landed(k)') = Cardinality(Landed(k)) + 1
        /\ Cardinality(Landed(k)) \in Nat /\ IsFiniteSet(Landed(k))
    BY <2>1, LandedFinite, FS_AddElement
  <2>3. EffectsView' = [EffectsView EXCEPT ![k] = @ + 1]
    BY <1>3, <2>2 DEF EffectsView
  <2>4. EffectsView[k] = Cardinality(Landed(k)) /\ DoubtView[k] = call[k].lost
        /\ call[k].lost \in Nat
    BY DEF EffectsView, DoubtView, IInv, TypeOK, Runs
  <2>5. Cardinality(Landed(k)) + 1 <= call[k].lost + 1
    <3>1. EffectsAreAccountedFor'
      BY EffectsBound, PTL
    <3>2. Cardinality(Landed(k)') <= 1 + call[k].lost
      BY <1>1, <3>1 DEF EffectsAreAccountedFor
    <3> QED  BY <2>2, <2>4, <3>2
  <2>6. AnswerView[k] \in {"none", "ok", "gone", "error"}
    <3>1. call[k].pc # "done"
      BY <1>1 DEF ReadInv, ReadOK
    <3> QED  BY <3>1 DEF AnswerView, Ended
  <2>7. AnswerView[k] = "error" => Cardinality(Landed(k)) < call[k].lost
    <3> HAVE AnswerView[k] = "error"
    <3>1. call[k].pc = "error"
      BY DEF AnswerView, Ended
    <3>2. EffectsMatch'
      BY EffectsOf, PTL
    <3>3. Cardinality(Landed(k)') <= call[k].lost
      BY <1>1, <3>1, <3>2 DEF EffectsMatch, At
    <3> QED  BY <2>2, <2>4, <3>3
  <2>8. Call!TakeEffect(k)
    BY <1>2, <2>2, <2>3, <2>4, <2>5, <2>6, <2>7 DEF Call!TakeEffect
  <2> QED  BY <2>8 DEF Call!CallNext
<1> QED  BY <1>4, <1>5

\* Submission implements ChainCall: what a caller is told, and the effects that come
\* before and after, are those of one call, and of one attempt more for every outcome
\* that was lost.
THEOREM CallImplemented == Spec => ImplementsCall
<1>1. IInv /\ IInv' /\ ReadInv /\ ReadInv' /\ [Next]_vars => [Call!CallNext]_(Call!callVars)
  <2> SUFFICES ASSUME IInv, IInv', ReadInv, ReadInv', [Next]_vars
               PROVE  [Call!CallNext]_<<AnswerView, EffectsView, DoubtView>>
    BY DEF Call!callVars
  <2>1. ASSUME NEW k \in Calls, Answered(k) \/ Fault(k)
        PROVE  [Call!CallNext]_<<AnswerView, EffectsView, DoubtView>>
    BY <2>1, Own, OwnMaps
  <2>2. ASSUME NEW k \in Calls, NEW a \in Attempts, Lands(k, a) \/ Expires(k, a)
        PROVE  [Call!CallNext]_<<AnswerView, EffectsView, DoubtView>>
    BY <2>2, EffectMaps
  <2>3. CASE UNCHANGED vars
    BY <2>3 DEF vars, AnswerView, EffectsView, DoubtView, Landed
  <2> QED  BY <2>1, <2>2, <2>3 DEF Next
<1>2. Spec => []ReadInv
  BY ReadInit, ReadNext, Inductive, PTL DEF Spec
<1> QED  BY CallInitMaps, <1>1, <1>2, Inductive, PTL DEF Spec, ImplementsCall, Call!CallSpec

-------------------------------------------------------------------------------
(* Calls run out of steps *)

\* What is left of an attempt, and of a call: attempts, and steps of the present one.
Left(k) ==
    CASE call[k].pc \in {"start", "read"} -> MaxPolls + 3
      [] call[k].pc = "send" -> MaxPolls + 2
      [] call[k].pc \in {"poll", "await"} -> MaxPolls - call[k].polls + 1
      [] OTHER -> 0

Budget(k) ==
    IF call[k].pc \in Ended THEN 0
    ELSE (MaxRetries - call[k].attempt) * (MaxPolls + 3) + Left(k)

BudgetIsSpent ==
    \A k \in Calls : call'[k] # call[k] => Budget(k) \in Nat /\ Budget(k)' < Budget(k)

\* A product, and the same with one factor less by one.
LEMMA Products ==
    ASSUME NEW m \in Nat, NEW n \in Nat
    PROVE  /\ m * (n + 3) \in Nat
           /\ m > 0 => (m - 1) * (n + 3) = m * (n + 3) - (n + 3)
  OBVIOUS

LEMMA LeftRange ==
    ASSUME TypeOK, NEW k \in Calls
    PROVE  /\ Left(k) \in 0 .. MaxPolls + 3
           /\ call[k].pc \notin Ended => Left(k) > 0
           /\ MaxPolls \in Nat /\ MaxRetries - call[k].attempt \in Nat
  BY SubmissionAssumption DEF TypeOK, Runs, Attempts, Left, Ended

LEMMA BudgetNat ==
    ASSUME TypeOK, NEW k \in Calls
    PROVE  Budget(k) \in Nat /\ (call[k].pc \notin Ended => Budget(k) > 0)
<1> DEFINE m == MaxRetries - call[k].attempt
<1>1. /\ Left(k) \in Nat
      /\ call[k].pc \notin Ended => Left(k) > 0
      /\ m \in Nat /\ MaxPolls \in Nat
  BY LeftRange
<1> DEFINE rest == m * (MaxPolls + 3)
<1>2. rest \in Nat
  BY <1>1, Products
<1>3. Budget(k) = IF call[k].pc \in Ended THEN 0 ELSE rest + Left(k)
  BY DEF Budget
<1> HIDE DEF rest
<1> QED  BY <1>1, <1>2, <1>3

\* Each step of a call is a later one of its attempt, the first one of a later
\* attempt, or its last.
LEMMA BudgetStep ==
    ASSUME IInv, IInv', NEW k \in Calls, Answered(k) \/ Fault(k)
    PROVE  Budget(k)' < Budget(k)
<1>1. TypeOK /\ TypeOK' /\ call[k].pc \notin Ended
  BY Own DEF IInv, OwnStep
<1>2. CASE call'[k].pc \in Ended
  <2>1. Budget(k)' = 0
    BY <1>2 DEF Budget
  <2> QED  BY <1>1, <2>1, BudgetNat
<1>3. CASE /\ call'[k].pc \notin Ended /\ call'[k].attempt = call[k].attempt
           /\ Left(k)' < Left(k)
  <2> DEFINE rest == (MaxRetries - call[k].attempt) * (MaxPolls + 3)
  <2>1. Budget(k) = rest + Left(k) /\ Budget(k)' = rest + Left(k)'
    BY <1>1, <1>3 DEF Budget
  <2>2. rest \in Nat /\ Left(k) \in Nat
    BY <1>1, LeftRange, Products
  <2>3. Left(k)' \in Nat
    BY <1>1, SubmissionAssumption DEF TypeOK, Runs, Left
  <2> HIDE DEF rest
  <2> QED  BY <1>3, <2>1, <2>2, <2>3
<1>4. CASE call'[k].pc \notin Ended /\ call'[k].attempt = call[k].attempt + 1
  <2> DEFINE m == MaxRetries - call[k].attempt
             rest == m * (MaxPolls + 3)
             less == (m - 1) * (MaxPolls + 3)
  <2>1. /\ m \in Nat /\ MaxPolls \in Nat /\ Left(k) \in Nat /\ Left(k) > 0
    BY <1>1, LeftRange
  <2>2. /\ MaxRetries - call'[k].attempt = m - 1 /\ m > 0
    BY <1>1, <1>4, SubmissionAssumption DEF TypeOK, Runs, Attempts
  <2>3. less = rest - (MaxPolls + 3) /\ rest \in Nat
    BY <2>1, <2>2, Products
  <2>4. Left(k)' <= MaxPolls + 3 /\ Left(k)' \in Nat
    BY <1>1, SubmissionAssumption DEF TypeOK, Runs, Left
  <2>5. Budget(k) = rest + Left(k) /\ Budget(k)' = less + Left(k)'
    BY <1>1, <1>4, <2>2 DEF Budget
  <2> HIDE DEF rest, less, m
  <2> QED  BY <2>1, <2>3, <2>4, <2>5
<1>5. CASE \E l \in {0, 1} : Retry(k, l) \/ Throw(k, l)
  <2>1. ~At(k, "error")
    BY <1>1 DEF At, Ended
  <2>2. \/ call'[k].pc = "error"
        \/ call'[k].pc \in {"start", "read"} /\ call'[k].attempt = call[k].attempt + 1
    BY <1>5, <2>1, RetryStep DEF IInv
  <2> QED  BY <1>2, <1>4, <2>2 DEF Ended
<1>6. CASE \E pc \in {"ok", "done", "gone"} : Goto(k, pc)
  BY <1>1, <1>2, <1>6, GotoStep DEF Ended
<1>7. CASE Prepare(k) \/ Sent(k) \/ Deferred(k)
  <2>1. PICK pc \in {"send", "poll", "await"} :
           /\ Goto(k, pc)
           /\ \/ call[k].pc = "start" /\ pc = "send"
              \/ call[k].pc = "send" /\ pc \in {"poll", "await"}
    BY <1>7 DEF Prepare, Sent, Deferred, At
  <2>2. call'[k].pc = pc /\ call'[k].attempt = call[k].attempt
    BY <1>1, <2>1, GotoStep
  <2>3. Left(k)' < Left(k)
    BY <1>1, <2>1, <2>2, SubmissionAssumption DEF TypeOK, Runs, Left
  <2> QED  BY <1>3, <2>1, <2>2, <2>3 DEF Ended
<1>8. CASE At(k, "poll") /\ call' = [call EXCEPT ![k].polls = @ + 1]
  <2>1. /\ call'[k].pc = "poll" /\ call'[k].attempt = call[k].attempt
        /\ call'[k].polls = call[k].polls + 1
    BY <1>1, <1>8 DEF TypeOK, Runs, At
  <2>2. Left(k)' < Left(k)
    BY <1>1, <1>8, <2>1, SubmissionAssumption DEF TypeOK, Runs, Left, At
  <2> QED  BY <1>3, <2>1, <2>2 DEF Ended
<1> QED
  BY <1>5, <1>6, <1>7, <1>8 DEF Answered, Fault, Unresolved, Simulate, SimulateFails, Prepare,
     PrepareFails, Sent, Deferred, Refused, SendLost, PollFound, PollNotFound, PollFails,
     HorizonAnswers, HorizonSilent, Restart

\* Whatever the network, the other calls and the faults do, every move of a call spends
\* something of a natural number that nothing refills: the attempts and polls that bound
\* invokeContract, simulateContract and buildAndSubmitTx.  A call that has not ended has
\* an unconditional next step at each of its places, so this is why EveryCallEnds holds.
THEOREM CallsRunOut == Spec => [][BudgetIsSpent]_vars
<1>1. IInv /\ IInv' /\ [Next]_vars => [BudgetIsSpent]_vars
  <2> SUFFICES ASSUME IInv, IInv', Next, NEW k \in Calls, call'[k] # call[k]
               PROVE  Budget(k) \in Nat /\ Budget(k)' < Budget(k)
    BY DEF BudgetIsSpent
  <2>1. Answered(k) \/ Fault(k)
    <3>1. ASSUME NEW i \in Calls, Answered(i) \/ Fault(i), i # k
          PROVE  FALSE
      BY <3>1, Own DEF OwnStep, OthersStay
    <3>2. ASSUME NEW i \in Calls, NEW a \in Attempts, Lands(i, a) \/ Expires(i, a)
          PROVE  FALSE
      BY <3>2 DEF Lands, Expires
    <3> QED  BY <3>1, <3>2 DEF Next
  <2> QED  BY <2>1, BudgetStep, BudgetNat DEF IInv
<1> QED  BY <1>1, Inductive, PTL DEF Spec

================================================================================
