---------------------------------- MODULE Auth ----------------------------------
(***************************************************************************)
(* SEP-10 log-in: AuthService, its controller and guard.  Redis keeps the  *)
(* used marks of challenges and the refresh tokens, each with an expiry;   *)
(* access tokens are kept by nobody, their signature and expiry suffice.   *)
(*                                                                         *)
(* A request p is one run of a handler and a step of it one awaited call   *)
(* with the code up to the next await.  The nonce stored with a challenge  *)
(* is never read again and is left out.                                    *)
(*                                                                         *)
(* A signed transaction has many texts: the bytes may be written in more   *)
(* than one base64 text, the signatures stand in more than one order.  The *)
(* used mark's key is the SHA-256 of the text that was posted.             *)
(***************************************************************************)
EXTENDS Integers

CONSTANTS
    Users,          \* Stellar accounts
    Challenges,     \* challenge transactions the server may build
    Encodings,      \* ways to write a signed transaction
    Tokens,         \* refresh tokens the server may draw
    Procs,          \* requests in progress at the same time
    ChallengeTTL,   \* of a challenge, and of its used mark
    Grace,          \* by which the SDK stretches a challenge's time bounds
    AccessTTL, RefreshTTL,
    MaxNow,         \* bound on the clock
    None

ASSUME AuthAssumption ==
    /\ {ChallengeTTL, AccessTTL, RefreshTTL} \subseteq Nat \ {0}
    /\ Grace \in Nat
    /\ MaxNow \in Nat
    /\ None \notin Users \cup Challenges \cup Tokens \cup Int
    /\ None \notin Challenges \X Encodings

VARIABLES
    now,
    challenge,  \* challenge[c]: the account it is for and when it was built
    used,       \* used[x]: when Redis drops the used mark of text x, None without one
    refresh,    \* refresh[t]: the user of refresh token t and when Redis drops it
    account,    \* users with a row in `users'
    req,        \* req[p]: the handler p is running
    marked,     \* history: when a log-in with text x last left its mark
    ended       \* history: refresh tokens that were logged out

serverVars == <<challenge, used, refresh, account, req, marked, ended>>

-------------------------------------------------------------------------------
Times == 0 .. MaxNow
Accesses == [user : Users, exp : 0 .. MaxNow + AccessTTL]

\* What may be posted to log in: a challenge, signed, in one of its encodings.
Texts == Challenges \X Encodings
ChallengeOf(x) == x[1]
TextsOf(c) == {x \in Texts : ChallengeOf(x) = c}

\* open: history, whether the request could still succeed when it arrived.
Requests == [pc : {"idle", "mark", "upsert", "store", "find", "ok", "refused"},
             user : Users \cup {None}, text : Texts \cup {None},
             access : Accesses \cup {None}, open : BOOLEAN]

Idle == [pc |-> "idle", user |-> None, text |-> None, access |-> None,
         open |-> FALSE]

At(p, pc) == req[p].pc = pc
Goto(p, pc) == req' = [req EXCEPT ![p].pc = pc]

Sign(u) == [user |-> u, exp |-> now + AccessTTL]

\* JwtAuthGuard with JwtStrategy: any unexpired signature will do.
Authorized(a) == a # None /\ now < a.exp

AuthInit ==
    /\ now = 0
    /\ challenge = [c \in Challenges |-> None]
    /\ used = [x \in Texts |-> None]
    /\ refresh = [t \in Tokens |-> None]
    /\ account = {}
    /\ req = [p \in Procs |-> Idle]
    /\ marked = [x \in Texts |-> None]
    /\ ended = {}

-------------------------------------------------------------------------------
\* GET /auth/challenge: a new transaction, with random bytes of its own.
Challenge(c, u) ==
    /\ challenge[c] = None
    /\ challenge' = [challenge EXCEPT ![c] = [user |-> u, at |-> now]]
    /\ UNCHANGED <<now, used, refresh, account, req, marked, ended>>

\* Mutated form: the transaction is read, its signers are not verified.
ReadableOnly(c, signer) ==
    /\ signer # None
    /\ now <= challenge[c].at + ChallengeTTL + Grace

\* readChallengeTx and verifyChallengeTxSigners: time bounds, then the signature.
Acceptable(c, signer) ==
    /\ signer = challenge[c].user
    /\ now <= challenge[c].at + ChallengeTTL + Grace

Used(x) == used[x] # None /\ now < used[x]

\* POST /auth/login with text x of a challenge signed by `signer', up to the used
\* mark's read.
Login(p, x, signer) ==
    LET c == ChallengeOf(x) IN
    /\ At(p, "idle")
    /\ challenge[c] # None
    /\ req' = [req EXCEPT ![p] =
                 [Idle EXCEPT !.pc = IF Acceptable(c, signer) /\ ~Used(x) THEN "mark"
                                                                       ELSE "refused",
                              !.user = challenge[c].user, !.text = x,
                              !.open = marked[x] = None \/ now >= marked[x] + ChallengeTTL]]
    /\ UNCHANGED <<now, challenge, used, refresh, account, marked, ended>>

\* Mutated form: the mark gets the refresh token's lifetime.
MarkTooLong(p) ==
    /\ At(p, "mark")
    /\ used' = [used EXCEPT ![req[p].text] = now + RefreshTTL]
    /\ marked' = [marked EXCEPT ![req[p].text] = now]
    /\ Goto(p, "upsert")
    /\ UNCHANGED <<now, challenge, refresh, account, ended>>

Mark(p) ==
    /\ At(p, "mark")
    /\ used' = [used EXCEPT ![req[p].text] = now + ChallengeTTL]
    /\ marked' = [marked EXCEPT ![req[p].text] = now]
    /\ Goto(p, "upsert")
    /\ UNCHANGED <<now, challenge, refresh, account, ended>>

\* issueTokenPair: the user's row, then the signature, then the refresh token.
Upsert(p) ==
    /\ At(p, "upsert")
    /\ account' = account \cup {req[p].user}
    /\ req' = [req EXCEPT ![p].pc = "store", ![p].access = Sign(req[p].user)]
    /\ UNCHANGED <<now, challenge, used, refresh, marked, ended>>

Store(p, t) ==
    /\ At(p, "store")
    /\ refresh[t] = None /\ t \notin ended
    /\ refresh' = [refresh EXCEPT ![t] = [user |-> req[p].user, exp |-> now + RefreshTTL]]
    /\ Goto(p, "ok")
    /\ UNCHANGED <<now, challenge, used, account, marked, ended>>

Alive(t) == refresh[t] # None /\ now < refresh[t].exp

\* POST /auth/refresh, up to the token's read.
Refresh(p, t) ==
    /\ At(p, "idle")
    /\ refresh[t] # None \/ t \in ended
    /\ req' = [req EXCEPT ![p] =
                 [Idle EXCEPT !.pc = IF Alive(t) THEN "find" ELSE "refused",
                              !.user = IF Alive(t) THEN refresh[t].user ELSE None,
                              !.open = t \notin ended]]
    /\ UNCHANGED <<now, challenge, used, refresh, account, marked, ended>>

RefreshFind(p) ==
    /\ At(p, "find")
    /\ req' = [req EXCEPT ![p].pc = IF req[p].user \in account THEN "ok" ELSE "refused",
                          ![p].access = IF req[p].user \in account
                                          THEN Sign(req[p].user) ELSE None]
    /\ UNCHANGED <<now, challenge, used, refresh, account, marked, ended>>

\* Mutated form: the key that is deleted is not the token's.
LogoutOtherKey(t) ==
    /\ refresh[t] # None
    /\ ended' = ended \cup {t}
    /\ UNCHANGED <<now, challenge, used, refresh, account, req, marked>>

\* POST /auth/logout.
Logout(t) ==
    /\ refresh[t] # None
    /\ refresh' = [refresh EXCEPT ![t] = None]
    /\ ended' = ended \cup {t}
    /\ UNCHANGED <<now, challenge, used, account, req, marked>>

\* The answer reaches a client, or the process restarts and there is none.
Return(p) ==
    /\ req[p].pc # "idle"
    /\ req' = [req EXCEPT ![p] = Idle]
    /\ UNCHANGED <<now, challenge, used, refresh, account, marked, ended>>

Handler(p) == Mark(p) \/ Upsert(p) \/ RefreshFind(p) \/ \E t \in Tokens : Store(p, t)

-------------------------------------------------------------------------------
AuthTypeOK ==
    /\ now \in Times
    /\ challenge \in [Challenges -> [user : Users, at : Times] \cup {None}]
    /\ used \in [Texts -> (0 .. MaxNow + ChallengeTTL) \cup {None}]
    /\ refresh \in [Tokens -> [user : Users, exp : 0 .. MaxNow + RefreshTTL] \cup {None}]
    /\ account \subseteq Users
    /\ req \in [Procs -> Requests]
    /\ marked \in [Texts -> Times \cup {None}]
    /\ ended \subseteq Tokens

(***************************************************************************)
(* A request that asks for tokens succeeds only if it was open to success  *)
(* when it arrived: a log-in, if no earlier log-in with the same text had  *)
(* been marked within the challenge's TTL (auth.service.ts:119-127, where  *)
(* read and mark are apart: log-ins that overlap may both succeed);        *)
(* a refresh, if its token had not been logged out (153-170: one that read *)
(* the token before is still answered).                                    *)
(***************************************************************************)
SucceedsOnlyIfOpen == \A p \in Procs : At(p, "ok") => req[p].open

(***************************************************************************)
(* Requirement 1.8: a challenge that has been used is rejected: no log-in  *)
(* leaves a mark for a challenge of which a text was marked.  It is not so *)
(* when the texts differ: the comment at auth.service.ts:217-221 takes the *)
(* hash of the text for an identifier of the challenge.                    *)
(***************************************************************************)
UsedChallengeRefused ==
    [][\A p \in Procs : At(p, "mark") /\ At(p, "upsert")' =>
          \A y \in TextsOf(ChallengeOf(req[p].text)) : marked[y] = None]_<<req, marked>>

===============================================================================
