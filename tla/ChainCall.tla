------------------------------- MODULE ChainCall -------------------------------
(***************************************************************************)
(* What a call of the chain clients promises to its caller: it is answered *)
(* at most once, its effects come at any time, and there is one of them,   *)
(* and one more at most for every doubt: an attempt that ended without     *)
(* anybody learning what became of it.  An error leaves no effect that is  *)
(* not covered by a doubt, before the error or after it, and a read leaves *)
(* none.                                                                   *)
(***************************************************************************)
EXTENDS Naturals

CONSTANTS
    Calls,
    MaxDoubt    \* how many doubts a call may have

VARIABLES
    answer,     \* answer[k]: "none", or how call k has ended
    effects,    \* effects[k]: how often it has taken effect on the chain
    doubt       \* doubt[k]: its attempts whose outcome nobody learnt

callVars == <<answer, effects, doubt>>

CallInit ==
    /\ answer = [k \in Calls |-> "none"]
    /\ effects = [k \in Calls |-> 0]
    /\ doubt = [k \in Calls |-> 0]

Answers(k, a) == answer[k] = "none" /\ answer' = [answer EXCEPT ![k] = a]

Doubts(k) == doubt[k] < MaxDoubt /\ doubt' = [doubt EXCEPT ![k] = @ + 1]

\* An attempt is given up and another one follows.
Wonder(k) ==
    /\ answer[k] = "none" /\ Doubts(k)
    /\ UNCHANGED <<answer, effects>>

\* A transaction of the call is executed, whether or not anybody still waits for it.
TakeEffect(k) ==
    /\ \/ answer[k] \in {"none", "ok", "gone"} /\ effects[k] <= doubt[k]
       \/ answer[k] = "error" /\ effects[k] < doubt[k]
    /\ effects' = [effects EXCEPT ![k] = @ + 1]
    /\ UNCHANGED <<answer, doubt>>

Succeed(k) ==
    /\ Answers(k, "ok") /\ effects[k] > 0
    /\ UNCHANGED <<effects, doubt>>

\* The last attempt may have been given up, too.
Fail(k) ==
    /\ Answers(k, "error")
    /\ Doubts(k) \/ UNCHANGED doubt
    /\ effects[k] <= doubt'[k]
    /\ UNCHANGED effects

\* The answer of a read.
Return(k) ==
    /\ Answers(k, "done") /\ effects[k] = 0
    /\ UNCHANGED <<effects, doubt>>

\* The caller is gone.
Vanish(k) ==
    /\ Answers(k, "gone")
    /\ UNCHANGED <<effects, doubt>>

CallNext ==
    \E k \in Calls :
        \/ Wonder(k) \/ TakeEffect(k)
        \/ Succeed(k) \/ Fail(k) \/ Return(k) \/ Vanish(k)

CallSpec == CallInit /\ [][CallNext]_callVars
===============================================================================
