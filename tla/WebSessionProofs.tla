---------------------------- MODULE WebSessionProofs ----------------------------
(***************************************************************************)
(* Theorems about WebSession, and with it about Auth, for any users,       *)
(* encodings, tokens, requests, attempts and lifetimes.  What the used     *)
(* mark is worth is said of a text: a challenge has others, and            *)
(* UsedChallengeRefused, which speaks of challenges, is not true.          *)
(***************************************************************************)
EXTENDS WebSession, TLAPS

USE AuthAssumption, WebSessionAssumption DEF AuthAssumption, WebSessionAssumption

-------------------------------------------------------------------------------
(* The steps, one disjunct each: a case distinction that every proof below cites. *)

HandlerStep ==
    /\ UNCHANGED <<tabVars, signed>>
    /\ \/ \E p \in Procs : Mark(p) \/ Upsert(p) \/ RefreshFind(p) \/ Return(p)
       \/ \E p \in Procs, t \in Tokens : Store(p, t) \/ Refresh(p, t)
       \/ \E p \in Procs, s \in signed, e \in Encodings : Login(p, <<s[1], e>>, s[2])
       \/ \E t \in Tokens : Logout(t)

TabStep ==
    \/ Load \/ LogoutClick \/ Redirect \/ CallApi \/ Rejected401 \/ CallAnswered
    \/ \E to \in Pages : Reload(to) \/ Navigate(to)
    \/ \E i \in Attempts : (\E w \in Wallets : Click(i, w)) \/ LoginFails(i)

ClientStep ==
    \E i \in Attempts :
        \/ \E u \in Users, c \in Challenges : Connected(i, u, c)
        \/ \E u \in Users, p \in Procs, e \in Encodings : SignAndPost(i, u, p, e)
        \/ LoggedIn(i)

\* Every step of the specification is one of these.
LEMMA Steps ==
    ASSUME Next
    PROVE  HandlerStep \/ TabStep \/ ClientStep \/ Tick
  BY DEF Next, Server, Handler, HandlerStep, TabStep, ClientStep

\* What the tab does by itself leaves clock and server alone.
LEMMA TabLeavesServer ==
    ASSUME TabStep
    PROVE  UNCHANGED <<now, serverVars, signed>>
  BY DEF TabStep, Load, LogoutClick, Redirect, CallApi, Rejected401, CallAnswered, Reload,
         Navigate, Click, LoginFails, serverVars

-------------------------------------------------------------------------------
(* Types. *)

\* A handler that is past its first read has what it needs.
LocalsOK ==
    \A p \in Procs :
        /\ req[p].pc \in {"mark", "upsert", "store", "find"} => req[p].user \in Users
        /\ req[p].pc = "mark" => req[p].text \in Texts

ServerTypeOK == AuthTypeOK /\ LocalsOK /\ signed \subseteq Challenges \X Users

TabTypeOK ==
    /\ page \in Pages
    /\ {loading, leaving} \subseteq BOOLEAN
    /\ {stored, shown} \subseteq Accesses \cup {None}
    /\ wallet \in Wallets \cup {None}
    /\ att \in [Attempts -> Runs]
    /\ call \in [token : Accesses \cup {None}] \cup {None}
    /\ \A i \in Attempts : /\ att[i].pc = "sign" => att[i].challenge \in Challenges
                           /\ att[i].pc = "wait" => att[i].proc \in Procs

\* A text is of one challenge, and a challenge in an encoding is a text of it.
LEMMA TextType ==
    /\ \A x \in Texts : ChallengeOf(x) \in Challenges
    /\ \A c \in Challenges, e \in Encodings : <<c, e>> \in Texts /\ ChallengeOf(<<c, e>>) = c
    /\ None \notin Texts
  BY DEF Texts, ChallengeOf

LEMMA IdleType == Idle \in Requests
  BY DEF Idle, Requests

LEMMA SignType ==
    ASSUME now \in Times, NEW u \in Users
    PROVE  Sign(u) \in Accesses
  BY DEF Sign, Accesses, Times

LEMMA ServerTypeInit == Init => ServerTypeOK
  BY IdleType DEF Init, AuthInit, ServerTypeOK, LocalsOK, AuthTypeOK, Times, Idle

\* A request that is replaced by a well-formed one leaves the others alone.
LEMMA MarkType ==
    ASSUME ServerTypeOK, NEW p \in Procs, Mark(p)
    PROVE  AuthTypeOK' /\ LocalsOK'
<1>0. now \in Times /\ now + ChallengeTTL \in 0 .. MaxNow + ChallengeTTL
  BY DEF ServerTypeOK, AuthTypeOK, Times
<1>1. req[p] \in Requests /\ [req[p] EXCEPT !.pc = "upsert"] \in Requests
  BY DEF ServerTypeOK, AuthTypeOK, Requests
<1>2. req' = [req EXCEPT ![p] = [req[p] EXCEPT !.pc = "upsert"]]
  BY DEF Mark, Goto
<1>3. req' \in [Procs -> Requests]
  BY <1>1, <1>2 DEF ServerTypeOK, AuthTypeOK
<1>4. used' \in [Texts -> (0 .. MaxNow + ChallengeTTL) \cup {None}]
  BY <1>0 DEF ServerTypeOK, AuthTypeOK, Mark
<1>5. marked' \in [Texts -> Times \cup {None}]
  BY <1>0 DEF ServerTypeOK, AuthTypeOK, Mark
<1>6. LocalsOK'
  <2>1. req[p].user \in Users
    BY DEF ServerTypeOK, LocalsOK, Mark, At
  <2>2. /\ req'[p].pc = "upsert" /\ req'[p].user = req[p].user
        /\ \A q \in Procs : q # p => req'[q] = req[q]
    BY <1>1, <1>2 DEF ServerTypeOK, AuthTypeOK, Requests
  <2> QED BY <2>1, <2>2 DEF ServerTypeOK, LocalsOK
<1> QED BY <1>3, <1>4, <1>5, <1>6 DEF ServerTypeOK, AuthTypeOK, Mark

LEMMA UpsertType ==
    ASSUME ServerTypeOK, NEW p \in Procs, Upsert(p)
    PROVE  AuthTypeOK' /\ LocalsOK'
<1>0. req[p].user \in Users /\ Sign(req[p].user) \in Accesses
  BY SignType DEF ServerTypeOK, AuthTypeOK, LocalsOK, Upsert, At
<1> DEFINE access == Sign(req[p].user)
           new == [req[p] EXCEPT !.pc = "store", !.access = access]
<1>a. req[p] \in Requests /\ req' = [req EXCEPT ![p] = new]
  BY DEF ServerTypeOK, AuthTypeOK, Upsert
<1> HIDE DEF access
<1>1. new \in Requests /\ new.pc = "store" /\ new.user = req[p].user
  <2>1. access \in Accesses \cup {None}
    BY <1>0 DEF access
  <2> QED BY <1>a, <2>1 DEF Requests
<1> HIDE DEF new
<1>2. req' = [req EXCEPT ![p] = new]
  BY <1>a
<1>3. req' \in [Procs -> Requests]
  BY <1>1, <1>2 DEF ServerTypeOK, AuthTypeOK
<1>4. LocalsOK'
  BY <1>0, <1>1, <1>2 DEF ServerTypeOK, AuthTypeOK, LocalsOK
<1> QED BY <1>0, <1>3, <1>4 DEF ServerTypeOK, AuthTypeOK, Upsert

LEMMA StoreType ==
    ASSUME ServerTypeOK, NEW p \in Procs, NEW t \in Tokens, Store(p, t)
    PROVE  AuthTypeOK' /\ LocalsOK'
<1>0. /\ now \in Times /\ req[p].user \in Users
      /\ now + RefreshTTL \in 0 .. MaxNow + RefreshTTL
  BY DEF ServerTypeOK, AuthTypeOK, LocalsOK, Store, At, Times
<1>1. req[p] \in Requests /\ [req[p] EXCEPT !.pc = "ok"] \in Requests
  BY DEF ServerTypeOK, AuthTypeOK, Requests
<1>2. req' = [req EXCEPT ![p] = [req[p] EXCEPT !.pc = "ok"]]
  BY DEF Store, Goto
<1>3. req' \in [Procs -> Requests]
  BY <1>1, <1>2 DEF ServerTypeOK, AuthTypeOK
<1>4. refresh' \in [Tokens -> [user : Users, exp : 0 .. MaxNow + RefreshTTL] \cup {None}]
  BY <1>0 DEF ServerTypeOK, AuthTypeOK, Store
<1>5. LocalsOK'
  BY <1>1, <1>2 DEF ServerTypeOK, AuthTypeOK, LocalsOK, Requests
<1> QED BY <1>3, <1>4, <1>5 DEF ServerTypeOK, AuthTypeOK, Store

LEMMA RefreshType ==
    ASSUME ServerTypeOK, NEW p \in Procs, NEW t \in Tokens, Refresh(p, t)
    PROVE  AuthTypeOK' /\ LocalsOK'
<1> DEFINE new == req'[p]
<1>0. Alive(t) => refresh[t].user \in Users
  BY DEF ServerTypeOK, AuthTypeOK, Alive
<1>1. /\ new \in Requests
      /\ new.pc = "find" => new.user \in Users
      /\ new.pc \in {"find", "refused"}
  BY <1>0 DEF ServerTypeOK, AuthTypeOK, Refresh, Requests, Idle
<1>2. \A q \in Procs : q # p => req'[q] = req[q]
  BY DEF ServerTypeOK, AuthTypeOK, Refresh
<1>3. req' \in [Procs -> Requests]
  BY <1>1, <1>2 DEF ServerTypeOK, AuthTypeOK, Refresh
<1>4. LocalsOK'
  BY <1>1, <1>2 DEF ServerTypeOK, LocalsOK
<1> QED BY <1>3, <1>4 DEF ServerTypeOK, AuthTypeOK, Refresh

LEMMA RefreshFindType ==
    ASSUME ServerTypeOK, NEW p \in Procs, RefreshFind(p)
    PROVE  AuthTypeOK' /\ LocalsOK'
<1> DEFINE new == req'[p]
<1>0. req[p] \in Requests /\ req[p].user \in Users /\ Sign(req[p].user) \in Accesses
  BY SignType DEF ServerTypeOK, AuthTypeOK, LocalsOK, RefreshFind, At
<1>1. new \in Requests /\ new.pc \in {"ok", "refused"}
  BY <1>0 DEF ServerTypeOK, AuthTypeOK, RefreshFind, Requests
<1>2. \A q \in Procs : q # p => req'[q] = req[q]
  BY DEF ServerTypeOK, AuthTypeOK, RefreshFind
<1>3. req' \in [Procs -> Requests]
  BY <1>1, <1>2 DEF ServerTypeOK, AuthTypeOK, RefreshFind
<1>4. LocalsOK'
  BY <1>1, <1>2 DEF ServerTypeOK, LocalsOK
<1> QED BY <1>3, <1>4 DEF ServerTypeOK, AuthTypeOK, RefreshFind

LEMMA LoginType ==
    ASSUME ServerTypeOK, NEW p \in Procs, NEW x \in Texts, NEW s, Login(p, x, s)
    PROVE  AuthTypeOK' /\ LocalsOK'
<1> DEFINE new == req'[p]
<1>0. challenge[ChallengeOf(x)] \in [user : Users, at : Times]
  BY TextType DEF ServerTypeOK, AuthTypeOK, Login
<1>1. /\ new \in Requests
      /\ new.pc \in {"mark", "refused"}
      /\ new.user \in Users /\ new.text \in Texts
  BY <1>0 DEF ServerTypeOK, AuthTypeOK, Login, Requests, Idle
<1>2. \A q \in Procs : q # p => req'[q] = req[q]
  BY DEF ServerTypeOK, AuthTypeOK, Login
<1>3. req' \in [Procs -> Requests]
  BY <1>1, <1>2 DEF ServerTypeOK, AuthTypeOK, Login
<1>4. LocalsOK'
  BY <1>1, <1>2 DEF ServerTypeOK, LocalsOK
<1> QED BY <1>3, <1>4 DEF ServerTypeOK, AuthTypeOK, Login

LEMMA ReturnType ==
    ASSUME ServerTypeOK, NEW p \in Procs, Return(p)
    PROVE  AuthTypeOK' /\ LocalsOK'
<1>1. LocalsOK'
  BY DEF ServerTypeOK, AuthTypeOK, LocalsOK, Return, Idle
<1> QED BY <1>1, IdleType DEF ServerTypeOK, AuthTypeOK, Return

LEMMA LogoutType ==
    ASSUME ServerTypeOK, NEW t \in Tokens, Logout(t)
    PROVE  AuthTypeOK' /\ LocalsOK'
  BY DEF ServerTypeOK, AuthTypeOK, LocalsOK, Logout

LEMMA ChallengeType ==
    ASSUME ServerTypeOK, NEW c \in Challenges, NEW u \in Users, Challenge(c, u)
    PROVE  AuthTypeOK' /\ LocalsOK'
<1>1. now \in Times
  BY DEF ServerTypeOK, AuthTypeOK
<1> QED BY <1>1 DEF ServerTypeOK, AuthTypeOK, LocalsOK, Challenge

LEMMA HandlerType ==
    ASSUME ServerTypeOK, HandlerStep
    PROVE  ServerTypeOK'
<1>1. signed \subseteq Challenges \X Users /\ signed' = signed
  BY DEF ServerTypeOK, HandlerStep
<1>2. ASSUME NEW p \in Procs, Mark(p) \/ Upsert(p) \/ RefreshFind(p) \/ Return(p)
      PROVE  AuthTypeOK' /\ LocalsOK'
  BY <1>2, MarkType, UpsertType, RefreshFindType, ReturnType
<1>3. ASSUME NEW p \in Procs, NEW t \in Tokens, Store(p, t) \/ Refresh(p, t)
      PROVE  AuthTypeOK' /\ LocalsOK'
  BY <1>3, StoreType, RefreshType
<1>4. ASSUME NEW p \in Procs, NEW s \in signed, NEW e \in Encodings,
             Login(p, <<s[1], e>>, s[2])
      PROVE  AuthTypeOK' /\ LocalsOK'
  <2>1. <<s[1], e>> \in Texts
    BY <1>1, TextType
  <2> QED BY <1>4, <2>1, LoginType
<1>5. ASSUME NEW t \in Tokens, Logout(t) PROVE AuthTypeOK' /\ LocalsOK'
  BY <1>5, LogoutType
<1> QED BY <1>1, <1>2, <1>3, <1>4, <1>5 DEF HandlerStep, ServerTypeOK

LEMMA AccessOfAnswer ==
    ASSUME ServerTypeOK, NEW p, p \in Procs
    PROVE  req[p].access \in Accesses \cup {None}
  BY DEF ServerTypeOK, AuthTypeOK, Requests

LEMMA NoRunType == NoRun \in Runs /\ NoRun.pc = "idle"
  BY DEF NoRun, Runs

LEMMA UnmountedType ==
    ASSUME NEW a \in [Attempts -> Runs]
    PROVE  /\ Unmounted(a) \in [Attempts -> Runs]
           /\ \A i \in Attempts : /\ Unmounted(a)[i].pc = a[i].pc
                                  /\ Unmounted(a)[i].challenge = a[i].challenge
                                  /\ Unmounted(a)[i].proc = a[i].proc
<1>1. ASSUME NEW i \in Attempts
      PROVE  LET r == [a[i] EXCEPT !.mounted = FALSE]
             IN  r \in Runs /\ r.pc = a[i].pc /\ r.challenge = a[i].challenge
                 /\ r.proc = a[i].proc
  <2>1. a[i] \in Runs
    OBVIOUS
  <2> QED BY <2>1 DEF Runs
<1> QED BY <1>1 DEF Unmounted

LEMMA TabType ==
    ASSUME ServerTypeOK, TabTypeOK, TabStep
    PROVE  ServerTypeOK' /\ TabTypeOK'
<1>1. ServerTypeOK'
  BY TabLeavesServer DEF ServerTypeOK, AuthTypeOK, LocalsOK, serverVars
<1>2. ASSUME Load \/ LogoutClick \/ Redirect \/ CallApi \/ Rejected401 \/ CallAnswered
      PROVE  TabTypeOK'
  <2>1. UNCHANGED <<wallet, att>>
    BY <1>2 DEF Load, LogoutClick, Redirect, CallApi, Rejected401, CallAnswered
  <2>2. page' \in Pages /\ {loading', leaving'} \subseteq BOOLEAN
    BY <1>2 DEF TabTypeOK, Pages, Load, LogoutClick, Redirect, CallApi, Rejected401,
               CallAnswered
  <2>3. {stored', shown'} \subseteq Accesses \cup {None}
    BY <1>2 DEF TabTypeOK, Load, LogoutClick, Redirect, CallApi, Rejected401, CallAnswered
  <2>4. call' \in [token : Accesses \cup {None}] \cup {None}
    <3>1. CASE CallApi
      BY <3>1 DEF TabTypeOK, CallApi
    <3>2. CASE ~CallApi
      BY <1>2, <3>2 DEF TabTypeOK, Load, LogoutClick, Redirect, Rejected401, CallAnswered
    <3> QED BY <3>1, <3>2
  <2> QED BY <2>1, <2>2, <2>3, <2>4 DEF TabTypeOK
<1>3. ASSUME NEW to \in Pages, Reload(to) PROVE TabTypeOK'
  BY <1>3, NoRunType DEF TabTypeOK, Reload
<1>4. ASSUME NEW to \in Pages, Navigate(to) PROVE TabTypeOK'
  BY <1>4, UnmountedType DEF TabTypeOK, Navigate
<1>5. ASSUME NEW i \in Attempts, NEW w \in Wallets, Click(i, w) PROVE TabTypeOK'
  <2> DEFINE run == [NoRun EXCEPT !.pc = "connect", !.wallet = w, !.signer = wallet,
                                 !.mounted = TRUE]
  <2>1. run \in Runs /\ run.pc = "connect"
    BY DEF TabTypeOK, NoRun, Runs
  <2>2. att' = [att EXCEPT ![i] = run]
    BY <1>5 DEF Click
  <2> HIDE DEF run
  <2> QED BY <1>5, <2>1, <2>2 DEF TabTypeOK, Click
<1>6. ASSUME NEW i \in Attempts, LoginFails(i) PROVE TabTypeOK'
  BY <1>6, NoRunType DEF TabTypeOK, LoginFails, Ends
<1> QED BY <1>1, <1>2, <1>3, <1>4, <1>5, <1>6 DEF TabStep

LEMMA LoggedInServer ==
    ASSUME NEW i \in Attempts, LoggedIn(i), TabTypeOK
    PROVE  /\ att[i].proc \in Procs
           /\ Return(att[i].proc)
           /\ UNCHANGED signed
           /\ stored' = req[att[i].proc].access /\ shown' = req[att[i].proc].access
  BY DEF LoggedIn, TabTypeOK, Running

LEMMA ClientType ==
    ASSUME ServerTypeOK, TabTypeOK, ClientStep
    PROVE  ServerTypeOK' /\ TabTypeOK'
<1>1. ASSUME NEW i \in Attempts, NEW u \in Users, NEW c \in Challenges,
             Connected(i, u, c)
      PROVE  ServerTypeOK' /\ TabTypeOK'
  <2> DEFINE run == [att[i] EXCEPT !.pc = "sign", !.challenge = c]
  <2>1. ServerTypeOK'
    BY <1>1, ChallengeType DEF ServerTypeOK, Connected
  <2>0. att[i] \in Runs
    BY DEF TabTypeOK
  <2>2. run \in Runs /\ run.pc = "sign" /\ run.challenge = c
    BY <2>0 DEF Runs
  <2>3. att[i].wallet \in Wallets \cup {None}
    BY DEF TabTypeOK, Runs
  <2>4. att' = [att EXCEPT ![i] = run]
    BY <1>1 DEF Connected
  <2> HIDE DEF run
  <2>5. /\ att' \in [Attempts -> Runs]
        /\ \A j \in Attempts : /\ att'[j].pc = "sign" => att'[j].challenge \in Challenges
                               /\ att'[j].pc = "wait" => att'[j].proc \in Procs
    BY <2>2, <2>4 DEF TabTypeOK
  <2>6. UNCHANGED <<page, loading, stored, shown, call, leaving>>
        /\ wallet' \in Wallets \cup {None}
    BY <1>1, <2>3 DEF TabTypeOK, Connected
  <2> QED BY <2>1, <2>5, <2>6 DEF TabTypeOK
<1>2. ASSUME NEW i \in Attempts, NEW u \in Users, NEW p \in Procs,
             NEW e \in Encodings, SignAndPost(i, u, p, e)
      PROVE  ServerTypeOK' /\ TabTypeOK'
  <2> DEFINE run == [att[i] EXCEPT !.pc = "wait", !.proc = p]
  <2>1. att[i].challenge \in Challenges
    BY <1>2 DEF TabTypeOK, SignAndPost, Running
  <2>2. AuthTypeOK' /\ LocalsOK'
    BY <1>2, <2>1, TextType, LoginType DEF SignAndPost
  <2>3. signed' \subseteq Challenges \X Users
    BY <1>2, <2>1 DEF ServerTypeOK, SignAndPost, Signer
  <2>0. att[i] \in Runs
    BY DEF TabTypeOK
  <2>4. run \in Runs /\ run.pc = "wait" /\ run.proc = p
    BY <2>0 DEF Runs
  <2>5. att' = [att EXCEPT ![i] = run]
    BY <1>2 DEF SignAndPost
  <2> HIDE DEF run
  <2>6. TabTypeOK'
    <3>1. UNCHANGED <<page, loading, stored, shown, wallet, call, leaving>>
      BY <1>2 DEF SignAndPost
    <3>2. /\ att' \in [Attempts -> Runs]
          /\ \A j \in Attempts : /\ att'[j].pc = "sign" => att'[j].challenge \in Challenges
                                 /\ att'[j].pc = "wait" => att'[j].proc \in Procs
      BY <2>4, <2>5 DEF TabTypeOK
    <3> QED BY <3>1, <3>2 DEF TabTypeOK
  <2> QED BY <2>2, <2>3, <2>6 DEF ServerTypeOK
<1>3. ASSUME NEW i \in Attempts, LoggedIn(i)
      PROVE  ServerTypeOK' /\ TabTypeOK'
  <2> DEFINE rest == [att EXCEPT ![i] = NoRun]
  <2>1. ServerTypeOK'
    BY <1>3, LoggedInServer, ReturnType DEF ServerTypeOK
  <2>2. /\ rest \in [Attempts -> Runs]
        /\ \A j \in Attempts : /\ rest[j].pc = "sign" => rest[j].challenge \in Challenges
                               /\ rest[j].pc = "wait" => rest[j].proc \in Procs
    BY NoRunType DEF TabTypeOK
  <2>3. att' = Unmounted(rest)
    BY <1>3 DEF LoggedIn
  <2> HIDE DEF rest
  <2>4. /\ att' \in [Attempts -> Runs]
        /\ \A j \in Attempts : /\ att'[j].pc = "sign" => att'[j].challenge \in Challenges
                               /\ att'[j].pc = "wait" => att'[j].proc \in Procs
    BY <2>2, <2>3, UnmountedType
  <2>5. {stored', shown'} \subseteq Accesses \cup {None}
    BY <1>3, LoggedInServer, AccessOfAnswer
  <2>6. TabTypeOK'
    BY <1>3, <2>4, <2>5 DEF TabTypeOK, LoggedIn, Pages
  <2> QED BY <2>1, <2>6
<1> QED BY <1>1, <1>2, <1>3 DEF ClientStep

LEMMA TickType ==
    ASSUME ServerTypeOK, TabTypeOK, Tick
    PROVE  ServerTypeOK' /\ TabTypeOK'
<1>1. now' \in Times
  BY DEF ServerTypeOK, AuthTypeOK, Times, Tick
<1> QED BY <1>1 DEF ServerTypeOK, AuthTypeOK, LocalsOK, TabTypeOK, Tick, serverVars, tabVars

LEMMA TypeStep ==
    ASSUME ServerTypeOK, TabTypeOK, [Next]_vars
    PROVE  ServerTypeOK' /\ TabTypeOK'
<1>1. CASE HandlerStep
  <2>1. TabTypeOK'
    BY <1>1 DEF HandlerStep, TabTypeOK, tabVars
  <2> QED BY <1>1, <2>1, HandlerType
<1>2. CASE UNCHANGED vars
  BY <1>2 DEF ServerTypeOK, AuthTypeOK, LocalsOK, TabTypeOK, vars, serverVars, tabVars
<1> QED BY <1>1, <1>2, Steps, TabType, ClientType, TickType

\* Every variable keeps to its type, and a handler or a log-in under way has the
\* locals that its next statement reads.
THEOREM Typed == Spec => [](ServerTypeOK /\ TabTypeOK)
<1>1. Init => ServerTypeOK /\ TabTypeOK
  BY ServerTypeInit, NoRunType DEF Init, TabTypeOK, Pages
<1> QED BY <1>1, TypeStep, PTL DEF Spec

\* TypeOK, as checked.
THEOREM TypeCorrect == Spec => []TypeOK
<1>1. ServerTypeOK /\ TabTypeOK => TypeOK
  BY DEF ServerTypeOK, TabTypeOK, TypeOK
<1> QED BY <1>1, Typed, PTL

-------------------------------------------------------------------------------
(* Who is shown is who acts. *)

\* ActsAsShown is inductive: every write of `stored' comes with one of `shown', but
\* for a removal.
THEOREM ShownActs == Spec => []ActsAsShown
<1>1. Init => ActsAsShown
  BY DEF Init, ActsAsShown
<1>2. ASSUME ActsAsShown, [Next]_vars PROVE ActsAsShown'
  <2>1. CASE TabStep
    <3>1. \/ loading'
          \/ stored' \in {None, shown'}
      <4>1. CASE Load \/ LogoutClick \/ Rejected401
        BY <4>1 DEF Load, LogoutClick, Rejected401
      <4>2. CASE \E to \in Pages : Reload(to)
        BY <4>2 DEF Reload
      <4>3. CASE UNCHANGED <<loading, stored, shown>>
        BY <1>2, <4>3 DEF ActsAsShown
      <4>4. \/ Load \/ LogoutClick \/ Rejected401
            \/ \E to \in Pages : Reload(to)
            \/ UNCHANGED <<loading, stored, shown>>
        BY <2>1 DEF TabStep, Redirect, CallApi, CallAnswered, Navigate, Click, LoginFails
      <4> QED BY <4>1, <4>2, <4>3, <4>4
    <3> QED BY <3>1 DEF ActsAsShown
  <2>2. CASE ClientStep
    <3>1. (loading' = loading /\ stored' = stored /\ shown' = shown) \/ stored' = shown'
      BY <2>2 DEF ClientStep, Connected, SignAndPost, LoggedIn
    <3> QED BY <1>2, <3>1 DEF ActsAsShown
  <2>3. CASE HandlerStep \/ Tick \/ UNCHANGED vars
    BY <1>2, <2>3 DEF HandlerStep, Tick, vars, tabVars, ActsAsShown
  <2> QED BY <1>2, <2>1, <2>2, <2>3, Steps
<1> QED BY <1>1, <1>2, PTL DEF Spec

-------------------------------------------------------------------------------
(* A request for tokens succeeds only if it was open to success. *)

OpenInv ==
    /\ \A p \in Procs : req[p].pc \in {"mark", "upsert", "store", "find", "ok"}
                          => req[p].open
    /\ \A x \in Texts : marked[x] # None
                          => used[x] # None /\ used[x] = marked[x] + ChallengeTTL
    /\ \A t \in ended : refresh[t] = None

LEMMA LoginOpen ==
    ASSUME ServerTypeOK, OpenInv, NEW p \in Procs, NEW x \in Texts, NEW s,
           Login(p, x, s)
    PROVE  OpenInv'
<1> DEFINE new == req'[p]
<1>1. ~Used(x) => (marked[x] = None \/ now >= marked[x] + ChallengeTTL)
  <2>1. marked[x] # None => marked[x] + ChallengeTTL \in Int /\ now \in Int
    BY DEF ServerTypeOK, AuthTypeOK, Times
  <2> QED BY <2>1 DEF Used, OpenInv
<1>2. /\ new.pc = "mark" => new.open
      /\ new.pc \in {"mark", "refused"}
      /\ \A q \in Procs : q # p => req'[q] = req[q]
  BY <1>1 DEF ServerTypeOK, AuthTypeOK, Login, Idle
<1> QED BY <1>2 DEF OpenInv, Login

LEMMA HandlerOpen ==
    ASSUME ServerTypeOK, OpenInv, HandlerStep
    PROVE  OpenInv'
<1>0. req \in [Procs -> Requests] /\ signed \subseteq Challenges \X Users
  BY DEF ServerTypeOK, AuthTypeOK
<1>1. ASSUME NEW p \in Procs, Mark(p) PROVE OpenInv'
  <2>1. req[p].text \in Texts /\ now \in Int /\ now # None
    BY <1>1 DEF ServerTypeOK, AuthTypeOK, LocalsOK, Mark, At, Times
  <2>2. now + ChallengeTTL # None
    BY <2>1
  <2>3. \A x \in Texts : marked'[x] # None
              => used'[x] # None /\ used'[x] = marked'[x] + ChallengeTTL
    BY <1>1, <2>1, <2>2 DEF OpenInv, Mark, ServerTypeOK, AuthTypeOK
  <2> QED BY <1>0, <1>1, <2>3 DEF OpenInv, Mark, At, Goto, Requests
<1>2. ASSUME NEW p \in Procs, Upsert(p) PROVE OpenInv'
  BY <1>0, <1>2 DEF OpenInv, Upsert, At, Requests
<1>3. ASSUME NEW p \in Procs, RefreshFind(p) PROVE OpenInv'
  BY <1>0, <1>3 DEF OpenInv, RefreshFind, At, Requests
<1>4. ASSUME NEW p \in Procs, Return(p) PROVE OpenInv'
  BY <1>0, <1>4 DEF OpenInv, Return, Idle
<1>5. ASSUME NEW p \in Procs, NEW t \in Tokens, Store(p, t) PROVE OpenInv'
  BY <1>0, <1>5 DEF OpenInv, Store, At, Goto, Requests, ServerTypeOK, AuthTypeOK
<1>6. ASSUME NEW p \in Procs, NEW t \in Tokens, Refresh(p, t) PROVE OpenInv'
  <2>1. Alive(t) => t \notin ended
    BY DEF OpenInv, Alive
  <2> QED BY <1>0, <1>6, <2>1 DEF OpenInv, Refresh, Idle
<1>7. ASSUME NEW p \in Procs, NEW s \in signed, NEW e \in Encodings,
             Login(p, <<s[1], e>>, s[2]) PROVE OpenInv'
  <2>1. <<s[1], e>> \in Texts
    BY <1>0, TextType
  <2> QED BY <1>7, <2>1, LoginOpen
<1>8. ASSUME NEW t \in Tokens, Logout(t) PROVE OpenInv'
  BY <1>8 DEF OpenInv, Logout, ServerTypeOK, AuthTypeOK
<1> QED BY <1>1, <1>2, <1>3, <1>4, <1>5, <1>6, <1>7, <1>8 DEF HandlerStep

LEMMA OpenStep ==
    ASSUME ServerTypeOK, TabTypeOK, OpenInv, [Next]_vars
    PROVE  OpenInv'
<1>1. CASE TabStep \/ Tick \/ UNCHANGED vars
  BY <1>1, TabLeavesServer DEF OpenInv, Tick, vars, serverVars
<1>2. CASE ClientStep
  <2>1. ASSUME NEW i \in Attempts, NEW u \in Users, NEW c \in Challenges,
               Connected(i, u, c)
        PROVE  OpenInv'
    BY <2>1 DEF OpenInv, Connected, Challenge
  <2>2. ASSUME NEW i \in Attempts, NEW u \in Users, NEW p \in Procs,
             NEW e \in Encodings, SignAndPost(i, u, p, e)
        PROVE  OpenInv'
    <3>1. <<att[i].challenge, e>> \in Texts
      BY <2>2, TextType DEF TabTypeOK, SignAndPost, Running
    <3> QED BY <2>2, <3>1, LoginOpen DEF SignAndPost
  <2>3. ASSUME NEW i \in Attempts, LoggedIn(i) PROVE OpenInv'
    <3>1. att[i].proc \in Procs /\ Return(att[i].proc)
      BY <2>3, LoggedInServer
    <3> QED BY <3>1 DEF OpenInv, Return, Idle, ServerTypeOK, AuthTypeOK
  <2> QED BY <1>2, <2>1, <2>2, <2>3 DEF ClientStep
<1> QED BY <1>1, <1>2, HandlerOpen, Steps

\* SucceedsOnlyIfOpen: a log-in leaves a mark on its text, as old as its lifetime says, so
\* that whoever posts that text and finds none came late enough; a refresh finds no token
\* that was logged out (auth.service.ts:119-127, 153-170).
THEOREM RefusedAfterUse == Spec => []SucceedsOnlyIfOpen
<1>1. Init => OpenInv
  BY DEF Init, AuthInit, OpenInv, Idle
<1>2. OpenInv => SucceedsOnlyIfOpen
  BY DEF OpenInv, SucceedsOnlyIfOpen, At
<1>3. ServerTypeOK /\ TabTypeOK /\ OpenInv /\ [Next]_vars => OpenInv'
  BY OpenStep
<1> QED BY <1>1, <1>2, <1>3, Typed, PTL DEF Spec

-------------------------------------------------------------------------------
(* What the used mark is worth when log-ins with one text do not overlap. *)

\* No two log-ins with one text are between the mark's read and its write.
OneLogin ==
    \A p, q \in Procs : At(p, "mark") /\ At(q, "mark") /\ req[p].text = req[q].text => p = q

\* No log-in with text x has left a mark within the challenge's lifetime.
Open(x) == marked[x] = None \/ now >= marked[x] + ChallengeTTL

\* What a log-in has read holds until it leaves its mark.
MarkingOpen == \A p \in Procs : At(p, "mark") => Open(req[p].text)

MarksApart == \A p \in Procs : At(p, "mark") /\ At(p, "upsert")' => Open(req[p].text)

\* A step that writes no mark leaves a log-in under way as it was.
LEMMA OpenStays ==
    ASSUME ServerTypeOK, MarkingOpen, now' \in Times, now <= now', UNCHANGED marked,
           \A p \in Procs : At(p, "mark")' => At(p, "mark") /\ req'[p].text = req[p].text
    PROVE  MarkingOpen'
<1>1. ASSUME NEW p \in Procs, At(p, "mark")'
      PROVE  Open(req[p].text)'
  <2>1. /\ At(p, "mark") /\ req[p].text \in Texts /\ Open(req[p].text)
        /\ req'[p].text = req[p].text
    BY <1>1 DEF MarkingOpen, ServerTypeOK, LocalsOK, At
  <2>2. /\ marked[req[p].text] # None => marked[req[p].text] \in Int
        /\ now \in Int /\ now' \in Int
    BY <2>1 DEF ServerTypeOK, AuthTypeOK, Times
  <2> QED BY <2>1, <2>2 DEF Open
<1> QED BY <1>1 DEF MarkingOpen

\* A log-in comes to its mark only after it has found none.
LEMMA LoginFindsOpen ==
    ASSUME ServerTypeOK, OpenInv, MarkingOpen, NEW p \in Procs, NEW x \in Texts, NEW s,
           Login(p, x, s)
    PROVE  MarkingOpen'
<1> DEFINE new == req'[p]
<1>1. ~Used(x) => Open(x)
  <2>1. marked[x] # None => marked[x] + ChallengeTTL \in Int /\ now \in Int
    BY DEF ServerTypeOK, AuthTypeOK, Times
  <2> QED BY <2>1 DEF Used, OpenInv, Open
<1>2. /\ new.pc = "mark" => ~Used(x)
      /\ new.text = x
      /\ \A q \in Procs : q # p => req'[q] = req[q]
      /\ UNCHANGED <<now, marked>>
  BY DEF ServerTypeOK, AuthTypeOK, Login, Idle
<1> QED BY <1>1, <1>2 DEF MarkingOpen, Open, At

\* The mark of one log-in closes its text: the others under way have another.
LEMMA MarkLeavesOpen ==
    ASSUME ServerTypeOK, MarkingOpen, OneLogin, NEW p \in Procs, Mark(p)
    PROVE  MarkingOpen'
<1>1. /\ req'[p].pc = "upsert" /\ \A q \in Procs : q # p => req'[q] = req[q]
      /\ UNCHANGED now
      /\ \A x \in Texts : x # req[p].text => marked'[x] = marked[x]
      /\ At(p, "mark")
  BY DEF Mark, Goto, ServerTypeOK, AuthTypeOK, Requests
<1>2. ASSUME NEW q \in Procs, At(q, "mark")'
      PROVE  Open(req[q].text)'
  <2>1. q # p /\ req'[q] = req[q] /\ At(q, "mark")
    BY <1>1, <1>2 DEF At
  <2>2. req[q].text # req[p].text /\ req[q].text \in Texts
    BY <1>1, <2>1 DEF OneLogin, ServerTypeOK, LocalsOK, At
  <2> QED BY <1>1, <2>1, <2>2 DEF MarkingOpen, Open
<1> QED BY <1>2 DEF MarkingOpen

LEMMA MarkingStep ==
    ASSUME ServerTypeOK, ServerTypeOK', TabTypeOK, OpenInv, MarkingOpen, OneLogin, [Next]_vars
    PROVE  MarkingOpen'
<1>0. req \in [Procs -> Requests] /\ now \in Times /\ now' \in Times /\ now <= now
  BY DEF ServerTypeOK, AuthTypeOK, Times
<1>2. ASSUME UNCHANGED <<now, marked>>,
             \A p \in Procs : At(p, "mark")' => req'[p] = req[p]
      PROVE  MarkingOpen'
  <2>1. \A p \in Procs : At(p, "mark")' => At(p, "mark") /\ req'[p].text = req[p].text
    BY <1>2 DEF At
  <2> QED BY <1>0, <1>2, <2>1, OpenStays
<1>3. CASE TabStep \/ UNCHANGED vars
  BY <1>2, <1>3, TabLeavesServer DEF vars, serverVars
<1>4. CASE Tick
  <2>1. now <= now' /\ UNCHANGED <<marked, req>>
    BY <1>0, <1>4 DEF Tick, serverVars, Times
  <2> QED BY <1>0, <2>1, OpenStays DEF At
<1>5. ASSUME NEW p \in Procs, Return(p) PROVE MarkingOpen'
  BY <1>0, <1>2, <1>5 DEF Return, Idle, At
<1>6. ASSUME NEW p \in Procs, NEW x \in Texts, NEW s, Login(p, x, s) PROVE MarkingOpen'
  BY <1>6, LoginFindsOpen
<1>7. CASE ClientStep
  <2>1. ASSUME NEW i \in Attempts, NEW u \in Users, NEW c \in Challenges,
               Connected(i, u, c)
        PROVE  MarkingOpen'
    BY <1>2, <2>1 DEF Connected, Challenge
  <2>2. ASSUME NEW i \in Attempts, NEW u \in Users, NEW p \in Procs,
             NEW e \in Encodings, SignAndPost(i, u, p, e)
        PROVE  MarkingOpen'
    <3>1. <<att[i].challenge, e>> \in Texts
      BY <2>2, TextType DEF TabTypeOK, SignAndPost, Running
    <3> QED BY <2>2, <3>1, <1>6 DEF SignAndPost
  <2>3. ASSUME NEW i \in Attempts, LoggedIn(i) PROVE MarkingOpen'
    BY <1>5, <2>3, LoggedInServer
  <2> QED BY <1>7, <2>1, <2>2, <2>3 DEF ClientStep
<1>8. CASE HandlerStep
  <2>1. ASSUME NEW p \in Procs, Mark(p) PROVE MarkingOpen'
    BY <2>1, MarkLeavesOpen
  <2>2. ASSUME NEW p \in Procs, Upsert(p) \/ RefreshFind(p) PROVE MarkingOpen'
    <3>1. req'[p].pc # "mark" /\ \A q \in Procs : q # p => req'[q] = req[q]
      BY <1>0, <2>2 DEF Upsert, RefreshFind, Requests
    <3> QED BY <1>2, <2>2, <3>1 DEF Upsert, RefreshFind, At
  <2>3. ASSUME NEW p \in Procs, NEW t \in Tokens, Store(p, t) \/ Refresh(p, t)
        PROVE  MarkingOpen'
    <3>1. req'[p].pc \in {"ok", "find", "refused"} /\ \A q \in Procs : q # p => req'[q] = req[q]
      <4>1. CASE Store(p, t)
        BY <1>0, <4>1 DEF Store, Goto, Requests
      <4>2. CASE Refresh(p, t)
        BY <1>0, <4>2 DEF Refresh, Idle
      <4> QED BY <2>3, <4>1, <4>2
    <3> QED BY <1>2, <2>3, <3>1 DEF Store, Refresh, At
  <2>4. ASSUME NEW p \in Procs, NEW s \in signed, NEW e \in Encodings,
             Login(p, <<s[1], e>>, s[2]) PROVE MarkingOpen'
    <3>1. <<s[1], e>> \in Texts
      BY TextType DEF ServerTypeOK
    <3> QED BY <1>6, <2>4, <3>1
  <2>5. ASSUME NEW t \in Tokens, Logout(t) PROVE MarkingOpen'
    BY <1>2, <2>5 DEF Logout
  <2> QED BY <1>5, <1>8, <2>1, <2>2, <2>3, <2>4, <2>5 DEF HandlerStep
<1> QED BY <1>3, <1>4, <1>7, <1>8, Steps

\* Of log-ins with one text, only those that overlap between the mark's read and its write
\* (auth.service.ts:122-127) are both accepted within the mark's lifetime: as long as none
\* do, a log-in that leaves its mark is the first for as long as the last mark of its text
\* held.  Another text of the challenge has a mark of its own.
THEOREM OneUseUnlessOverlapping == Spec /\ []OneLogin => [][MarksApart]_vars
<1>1. Init => OpenInv /\ MarkingOpen
  BY DEF Init, AuthInit, OpenInv, Idle, MarkingOpen, At
<1>2. ServerTypeOK /\ TabTypeOK /\ OpenInv /\ [Next]_vars => OpenInv'
  BY OpenStep
<1>3. /\ ServerTypeOK /\ ServerTypeOK' /\ TabTypeOK /\ OpenInv /\ MarkingOpen /\ OneLogin
      /\ [Next]_vars
      => MarkingOpen' /\ [MarksApart]_vars
  BY MarkingStep DEF MarksApart, MarkingOpen
<1> QED BY <1>1, <1>2, <1>3, Typed, PTL DEF Spec

-------------------------------------------------------------------------------
(* Whoever has an access token has signed. *)

SignedInv ==
    /\ OwnerSigned
    /\ \A p \in Procs : req[p].pc \in {"mark", "upsert", "store", "find"}
                          => HasSigned(req[p].user)
    /\ \A t \in Tokens : refresh[t] # None => HasSigned(refresh[t].user)

\* A challenge is for one account, and signatures are not taken back.
LEMMA SignedStays ==
    ASSUME ServerTypeOK, NEW u, HasSigned(u), signed \subseteq signed',
           \A c \in Challenges : challenge[c] # None => challenge'[c] = challenge[c]
    PROVE  HasSigned(u)'
  BY DEF HasSigned

LEMMA LoginSigned ==
    ASSUME ServerTypeOK, SignedInv, NEW p \in Procs, NEW x \in Texts,
           NEW s, s # None => <<ChallengeOf(x), s>> \in signed', Login(p, x, s),
           signed \subseteq signed', UNCHANGED <<stored, shown>>
    PROVE  SignedInv'
<1> DEFINE new == req'[p]
           c == ChallengeOf(x)
<1>0. c \in Challenges
  BY TextType
<1>1. \A u : HasSigned(u) => HasSigned(u)'
  BY SignedStays DEF Login
<1>2. new.pc = "mark" => HasSigned(req[p].user)'
  <2>1. /\ new.pc = "mark" => s = challenge[c].user
        /\ new.user = challenge[c].user
    BY DEF Login, Acceptable, ServerTypeOK, AuthTypeOK, Idle
  <2>2. challenge[c] # None /\ challenge' = challenge /\ challenge[c].user \in Users
    BY <1>0 DEF Login, ServerTypeOK, AuthTypeOK
  <2>3. ASSUME new.pc = "mark" PROVE <<c, new.user>> \in signed'
    BY <2>1, <2>2, <2>3
  <2> QED BY <1>0, <2>1, <2>2, <2>3 DEF HasSigned
<1>3. /\ new.pc \in {"mark", "refused"} /\ new.access = None
      /\ \A q \in Procs : q # p => req'[q] = req[q]
  BY DEF ServerTypeOK, AuthTypeOK, Login, Idle
<1>4. OwnerSigned'
  <2>1. \A q \in Procs : req'[q].access \in {None, req[q].access}
    BY <1>3
  <2> QED BY <1>1, <2>1 DEF SignedInv, OwnerSigned
<1>5. refresh' = refresh
  BY DEF Login
<1>6. \A q \in Procs : req'[q].pc \in {"mark", "upsert", "store", "find"}
                     => HasSigned(req[q].user)'
  <2>1. HasSigned(req[p].user)' \/ new.pc = "refused"
    BY <1>2, <1>3
  <2> QED BY <1>1, <1>3, <2>1 DEF SignedInv
<1> QED BY <1>1, <1>4, <1>5, <1>6 DEF SignedInv

LEMMA HandlerSigned ==
    ASSUME ServerTypeOK, SignedInv, HandlerStep
    PROVE  SignedInv'
<1>0. /\ req \in [Procs -> Requests] /\ signed \subseteq Challenges \X Users
      /\ UNCHANGED <<stored, shown, signed>>
  BY DEF ServerTypeOK, AuthTypeOK, HandlerStep, tabVars
<1>1. ASSUME UNCHANGED challenge,
             \A p \in Procs : req'[p].access # None => HasSigned(req'[p].access.user),
             \A p \in Procs : req'[p].pc \in {"mark", "upsert", "store", "find"}
                             => HasSigned(req'[p].user),
             \A t \in Tokens : refresh'[t] # None => HasSigned(refresh'[t].user)
      PROVE  SignedInv'
  <2>1. \A u : HasSigned(u)' <=> HasSigned(u)
    BY <1>0, <1>1 DEF HasSigned
  <2> QED BY <1>0, <1>1, <2>1 DEF SignedInv, OwnerSigned
<1>2. \A p \in Procs : req[p].access # None => HasSigned(req[p].access.user)
  BY DEF SignedInv, OwnerSigned
<1>3. ASSUME NEW p \in Procs, Mark(p) \/ Return(p) PROVE SignedInv'
  <2>1. /\ UNCHANGED <<challenge, refresh>>
        /\ \A q \in Procs :
             \/ req'[q] = Idle
             \/ /\ req'[q].access = req[q].access /\ req'[q].user = req[q].user
                /\ req'[q].pc = "upsert" => req[q].pc \in {"mark", "upsert"}
                /\ req'[q].pc # "upsert" => req'[q].pc = req[q].pc
    BY <1>0, <1>3 DEF Mark, Return, At, Goto, Requests
  <2> QED BY <1>1, <1>2, <2>1 DEF SignedInv, Idle
<1>4. ASSUME NEW p \in Procs, Upsert(p) \/ RefreshFind(p) PROVE SignedInv'
  <2> DEFINE new == req'[p]
  <2>1. HasSigned(req[p].user)
    BY <1>4 DEF SignedInv, Upsert, RefreshFind, At
  <2>2. /\ UNCHANGED <<challenge, refresh>>
        /\ new.user = req[p].user
        /\ new.access = None \/ new.access.user = req[p].user
        /\ \A q \in Procs : q # p => req'[q] = req[q]
    BY <1>0, <1>4 DEF Upsert, RefreshFind, Sign, Requests
  <2> QED BY <1>1, <1>2, <2>1, <2>2 DEF SignedInv
<1>5. ASSUME NEW p \in Procs, NEW t \in Tokens, Store(p, t) PROVE SignedInv'
  <2>1. HasSigned(req[p].user)
    BY <1>5 DEF SignedInv, Store, At
  <2>2. /\ UNCHANGED challenge
        /\ req'[p].pc = "ok" /\ req'[p].access = req[p].access
        /\ \A q \in Procs : q # p => req'[q] = req[q]
        /\ refresh'[t].user = req[p].user
        /\ \A v \in Tokens : v # t => refresh'[v] = refresh[v]
    BY <1>0, <1>5 DEF Store, Goto, Requests, ServerTypeOK, AuthTypeOK
  <2> QED BY <1>1, <1>2, <2>1, <2>2 DEF SignedInv
<1>6. ASSUME NEW p \in Procs, NEW t \in Tokens, Refresh(p, t) PROVE SignedInv'
  <2> DEFINE new == req'[p]
  <2>1. /\ UNCHANGED <<challenge, refresh>>
        /\ new.access = None
        /\ new.pc = "find" => Alive(t) /\ new.user = refresh[t].user
        /\ new.pc \in {"find", "refused"}
        /\ \A q \in Procs : q # p => req'[q] = req[q]
    BY <1>0, <1>6 DEF Refresh, Idle
  <2> QED BY <1>1, <1>2, <2>1 DEF SignedInv, Alive
<1>7. ASSUME NEW p \in Procs, NEW s \in signed, NEW e \in Encodings,
             Login(p, <<s[1], e>>, s[2]) PROVE SignedInv'
  <2>1. <<s[1], e>> \in Texts /\ <<ChallengeOf(<<s[1], e>>), s[2]>> \in signed'
    BY <1>0, TextType
  <2> QED BY <1>0, <1>7, <2>1, LoginSigned
<1>8. ASSUME NEW t \in Tokens, Logout(t) PROVE SignedInv'
  BY <1>1, <1>2, <1>8 DEF Logout, SignedInv, ServerTypeOK, AuthTypeOK
<1> QED BY <1>3, <1>4, <1>5, <1>6, <1>7, <1>8 DEF HandlerStep

LEMMA SignedStep ==
    ASSUME ServerTypeOK, TabTypeOK, SignedInv, [Next]_vars
    PROVE  SignedInv'
<1>0. ASSUME UNCHANGED <<challenge, refresh, req, signed>>,
             {stored', shown'} \subseteq {None, stored, shown}
      PROVE  SignedInv'
  BY <1>0 DEF SignedInv, OwnerSigned, HasSigned
<1>1. CASE TabStep
  <2>1. {stored', shown'} \subseteq {None, stored, shown}
    BY <1>1 DEF TabStep, Load, LogoutClick, Redirect, CallApi, Rejected401, CallAnswered,
                Reload, Navigate, Click, LoginFails
  <2> QED BY <1>0, <1>1, <2>1, TabLeavesServer DEF serverVars
<1>2. CASE Tick \/ UNCHANGED vars
  BY <1>0, <1>2 DEF Tick, vars, serverVars, tabVars
<1>3. CASE ClientStep
  <2>1. ASSUME NEW i \in Attempts, NEW u \in Users, NEW c \in Challenges,
               Connected(i, u, c)
        PROVE  SignedInv'
    <3>1. /\ UNCHANGED <<refresh, req, signed, stored, shown>>
          /\ \A d \in Challenges : challenge[d] # None => challenge'[d] = challenge[d]
      BY <2>1 DEF Connected, Challenge, ServerTypeOK, AuthTypeOK
    <3>2. \A v : HasSigned(v) => HasSigned(v)'
      BY <3>1, SignedStays
    <3> QED BY <3>1, <3>2 DEF SignedInv, OwnerSigned
  <2>2. ASSUME NEW i \in Attempts, NEW u \in Users, NEW p \in Procs,
             NEW e \in Encodings, SignAndPost(i, u, p, e)
        PROVE  SignedInv'
    <3> DEFINE c == att[i].challenge
               s == Signer(att[i].signer, u)
    <3>1. c \in Challenges /\ Login(p, <<c, e>>, s)
      BY <2>2 DEF TabTypeOK, SignAndPost, Running
    <3>2. /\ signed \subseteq signed' /\ UNCHANGED <<stored, shown>>
          /\ s # None => <<c, s>> \in signed'
      BY <2>2 DEF SignAndPost
    <3> HIDE DEF c, s
    <3>3. <<c, e>> \in Texts /\ ChallengeOf(<<c, e>>) = c
      BY <3>1, TextType
    <3> QED BY <3>1, <3>2, <3>3, LoginSigned
  <2>3. ASSUME NEW i \in Attempts, LoggedIn(i) PROVE SignedInv'
    <3> DEFINE p == att[i].proc
    <3>1. /\ p \in Procs /\ Return(p) /\ UNCHANGED signed
          /\ stored' = req[p].access /\ shown' = req[p].access
      BY <2>3, LoggedInServer
    <3> HIDE DEF p
    <3>2. /\ UNCHANGED <<challenge, refresh>>
          /\ \A q \in Procs : req'[q] = Idle \/ req'[q] = req[q]
      BY <3>1 DEF Return, ServerTypeOK, AuthTypeOK
    <3>3. \A v : HasSigned(v)' <=> HasSigned(v)
      BY <3>1, <3>2 DEF HasSigned
    <3>4. Idle.access = None /\ Idle.pc = "idle"
      BY DEF Idle
    <3> QED BY <3>1, <3>2, <3>3, <3>4 DEF SignedInv, OwnerSigned
  <2> QED BY <1>3, <2>1, <2>2, <2>3 DEF ClientStep
<1> QED BY <1>1, <1>2, <1>3, HandlerSigned, Steps

\* OwnerSigned: from the challenge's signature through request and refresh token to
\* every access token, on the server and in the tab.
THEOREM TokensAreSignedFor == Spec => []OwnerSigned
<1>1. Init => SignedInv
  BY DEF Init, AuthInit, SignedInv, OwnerSigned, Idle
<1>2. ServerTypeOK /\ TabTypeOK /\ SignedInv /\ [Next]_vars => SignedInv'
  BY SignedStep
<1>3. SignedInv => OwnerSigned
  BY DEF SignedInv
<1> QED BY <1>1, <1>2, <1>3, Typed, PTL DEF Spec
===============================================================================
