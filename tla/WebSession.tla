------------------------------- MODULE WebSession -------------------------------
(***************************************************************************)
(* One tab of the web client, from the wallet to the session, composed     *)
(* with the server's log-in (Auth): WalletConnect, useWallet, useAuth,     *)
(* AuthProvider, ProtectedLayout, the API client.  JavaScript runs to      *)
(* completion: an action is a callback, up to its next await.              *)
(***************************************************************************)
EXTENDS Auth

CONSTANTS
    Attempts,   \* calls of handleConnect that may be under way
    Wallets     \* "freighter", "lobstr", "xbull"

ASSUME WebSessionAssumption ==
    /\ Wallets \subseteq {"freighter", "lobstr", "xbull"}
    /\ None \notin Attempts \cup Procs \cup Wallets

VARIABLES
    page,       \* where the router is: "app" is any page under ProtectedLayout,
                \* "connect" the form and the public pages around it
    loading,    \* AuthProvider has not looked into localStorage yet
    stored,     \* the token in localStorage
    shown,      \* token and user in AuthProvider's state
    wallet,     \* walletType in the state of the form's useWallet
    att,        \* att[i]: a run of handleConnect
    call,       \* the API call in flight, and the token it carries
    leaving,    \* window.location.href was assigned, the page is not gone yet
    signed      \* history: who signed which challenge

tabVars == <<page, loading, stored, shown, wallet, att, call, leaving>>
vars == <<now, serverVars, tabVars, signed>>

-------------------------------------------------------------------------------
Pages == {"connect", "app"}

\* The locals of handleConnect.  `signer' is the wallet type that the signMessage
\* it closed over saw: the state's value when the button was rendered.  `mounted'
\* tells whether the form it was clicked on is still there to set the state of.
Runs == [pc : {"idle", "connect", "sign", "wait"},
         wallet : Wallets \cup {None}, signer : Wallets \cup {None},
         challenge : Challenges \cup {None},
         proc : Procs \cup {None}, mounted : BOOLEAN]

NoRun == [pc |-> "idle", wallet |-> None, signer |-> None, challenge |-> None,
          proc |-> None, mounted |-> FALSE]

Init ==
    /\ AuthInit
    /\ page = "connect" /\ loading = TRUE /\ leaving = FALSE
    /\ stored = None /\ shown = None
    /\ wallet = None
    /\ att = [i \in Attempts |-> NoRun]
    /\ call = None
    /\ signed = {}

Connecting == \E i \in Attempts : att[i].mounted /\ att[i].pc = "connect"

Running(i, pc) == att[i].pc = pc
Ends(i) == att' = [att EXCEPT ![i] = NoRun]
Unmounted(a) == [i \in Attempts |-> [a[i] EXCEPT !.mounted = FALSE]]

-------------------------------------------------------------------------------
\* AuthProvider's effect on mount.
Load ==
    /\ loading
    /\ loading' = FALSE
    /\ IF stored # None /\ now < stored.exp
         THEN shown' = stored /\ UNCHANGED stored
         ELSE stored' = None /\ UNCHANGED shown
    /\ UNCHANGED <<now, serverVars, page, wallet, att, call, leaving, signed>>

\* Buttons are disabled while a wallet connects or the provider loads, no longer.
Click(i, w) ==
    /\ Running(i, "idle")
    /\ page = "connect" /\ ~loading /\ ~Connecting /\ ~leaving
    /\ att' = [att EXCEPT ![i] = [NoRun EXCEPT !.pc = "connect", !.wallet = w,
                                               !.signer = wallet, !.mounted = TRUE]]
    /\ UNCHANGED <<now, serverVars, page, loading, stored, shown, wallet, call, leaving,
                   signed>>

\* connect(): the wallet names its current account u, for which login() gets a
\* challenge.  (There is no state to change between the two.)
Connected(i, u, c) ==
    /\ Running(i, "connect")
    /\ Challenge(c, u)
    /\ wallet' = IF att[i].mounted THEN att[i].wallet ELSE wallet
    /\ att' = [att EXCEPT ![i].pc = "sign", ![i].challenge = c]
    /\ UNCHANGED <<page, loading, stored, shown, call, leaving, signed>>

\* signMessage: Freighter returns the transaction signed by its current account u; the
\* others return a bare signature, which is no transaction to the server.
Signer(w, u) == IF w = "freighter" THEN u ELSE None

\* The challenge is signed and posted, as the wallet has written it.
SignAndPost(i, u, p, e) ==
    LET by == Signer(att[i].signer, u) IN
    /\ Running(i, "sign")
    /\ att[i].signer # None
    /\ Login(p, <<att[i].challenge, e>>, by)
    /\ att' = [att EXCEPT ![i].pc = "wait", ![i].proc = p]
    /\ signed' = signed \cup ({att[i].challenge} \X ({by} \ {None}))
    /\ UNCHANGED <<page, loading, stored, shown, wallet, call, leaving>>

\* setAuth, then router.push: also when another attempt has got there before,
\* and when the form is gone from the page.
LoggedIn(i) ==
    /\ Running(i, "wait") /\ At(att[i].proc, "ok")
    /\ stored' = req[att[i].proc].access
    /\ shown' = req[att[i].proc].access
    /\ page' = "app"
    /\ wallet' = None
    /\ att' = Unmounted([att EXCEPT ![i] = NoRun])
    /\ Return(att[i].proc)
    /\ UNCHANGED <<loading, call, leaving, signed>>

\* Any error on the way ends in the catch block: no wallet, the owner declines, the
\* request fails, or `No wallet connected'.
LoginFails(i) ==
    /\ ~Running(i, "idle")
    /\ Ends(i)
    /\ UNCHANGED <<now, serverVars, page, loading, stored, shown, wallet, call, leaving,
                   signed>>

-------------------------------------------------------------------------------
\* Mutated form: localStorage is left as it is.
LogoutStateOnly ==
    /\ page = "app" /\ shown # None /\ ~leaving
    /\ shown' = None
    /\ page' = "connect"
    /\ UNCHANGED <<now, serverVars, loading, stored, wallet, att, call, leaving,
                   signed>>

\* The sidebar's button: the server is not told, and whether router.push('/') or the
\* layout's router.replace('/connect') comes last, the page is a public one.
LogoutClick ==
    /\ page = "app" /\ shown # None /\ ~leaving
    /\ stored' = None /\ shown' = None
    /\ page' = "connect"
    /\ UNCHANGED <<now, serverVars, loading, wallet, att, call, leaving, signed>>

\* ProtectedLayout's effect.
Redirect ==
    /\ page = "app" /\ ~loading /\ shown = None
    /\ page' = "connect"
    /\ UNCHANGED <<now, serverVars, loading, stored, shown, wallet, att, call,
                   leaving, signed>>

\* request(): the token is read from localStorage, not from the state.
CallApi ==
    /\ page = "app" /\ ~loading /\ shown # None /\ call = None /\ ~leaving
    /\ call' = [token |-> stored]
    /\ UNCHANGED <<now, serverVars, page, loading, stored, shown, wallet, att,
                   leaving, signed>>

\* A 401: the token is removed, whichever it is by now, and the page is loaded anew.
Rejected401 ==
    /\ call # None /\ ~Authorized(call.token)
    /\ call' = None
    /\ stored' = None
    /\ leaving' = TRUE
    /\ UNCHANGED <<now, serverVars, page, loading, shown, wallet, att, signed>>

CallAnswered ==
    /\ call # None /\ Authorized(call.token)
    /\ call' = None
    /\ UNCHANGED <<now, serverVars, page, loading, stored, shown, wallet, att,
                   leaving, signed>>

\* A full load forgets everything but localStorage; handlers go on at the server.
Reload(to) ==
    /\ leaving => to = "connect"
    /\ page' = to /\ loading' = TRUE /\ leaving' = FALSE
    /\ shown' = None /\ wallet' = None /\ call' = None
    /\ att' = [i \in Attempts |-> NoRun]
    /\ UNCHANGED <<now, serverVars, stored, signed>>

\* A link within the client.
Navigate(to) ==
    /\ to # page /\ ~leaving
    /\ page' = to
    /\ wallet' = None
    /\ att' = Unmounted(att)
    /\ UNCHANGED <<now, serverVars, loading, stored, shown, call, leaving, signed>>

-------------------------------------------------------------------------------
Owned(p) == \E i \in Attempts : att[i].proc = p

\* Other clients of the API: a signed challenge is sent again, in any of its texts, a
\* refresh token used.
Server ==
    /\ \/ \E p \in Procs : Handler(p)
       \/ \E p \in Procs : ~Owned(p) /\ Return(p)
       \/ \E p \in Procs, s \in signed, e \in Encodings : Login(p, <<s[1], e>>, s[2])
       \/ \E p \in Procs, t \in Tokens : Refresh(p, t)
       \/ \E t \in Tokens : Logout(t)
    /\ UNCHANGED <<tabVars, signed>>

Tick ==
    /\ now < MaxNow
    /\ now' = now + 1
    /\ UNCHANGED <<serverVars, tabVars, signed>>

Next ==
    \/ Server \/ Tick
    \/ Load \/ LogoutClick \/ Redirect \/ CallApi \/ Rejected401 \/ CallAnswered
    \/ \E to \in Pages : Reload(to) \/ Navigate(to)
    \/ \E i \in Attempts :
         \/ \E w \in Wallets : Click(i, w)
         \/ \E u \in Users, c \in Challenges : Connected(i, u, c)
         \/ \E u \in Users, p \in Procs, e \in Encodings : SignAndPost(i, u, p, e)
         \/ LoggedIn(i) \/ LoginFails(i)

Spec == Init /\ [][Next]_vars

-------------------------------------------------------------------------------
TypeOK ==
    /\ AuthTypeOK
    /\ page \in Pages
    /\ {loading, leaving} \subseteq BOOLEAN
    /\ {stored, shown} \subseteq Accesses \cup {None}
    /\ wallet \in Wallets \cup {None}
    /\ att \in [Attempts -> Runs]
    /\ call \in [token : Accesses \cup {None}] \cup {None}
    /\ signed \subseteq Challenges \X Users

(***************************************************************************)
(* Calls are made as the user the page shows, or as nobody: the token in   *)
(* localStorage, which request() sends (api.ts:25), is the one in          *)
(* AuthProvider's state, through parallel log-ins, log-out, 401 and        *)
(* reload (auth-context.tsx:43-74).                                        *)
(***************************************************************************)
ActsAsShown == ~loading => stored \in {None, shown}

(***************************************************************************)
(* Whoever holds an access token of an account, that account has signed a  *)
(* challenge built for it: although the client signs with the wallet type  *)
(* of an earlier render (wallet-connect.tsx:32, use-wallet.ts:128-136), of *)
(* which the owner may have changed the account meanwhile.                 *)
(***************************************************************************)
HasSigned(u) == \E c \in Challenges : challenge[c] # None /\ challenge[c].user = u
                                      /\ <<c, u>> \in signed

OwnerSigned ==
    \A a \in {stored, shown} \cup {req[p].access : p \in Procs} :
        a # None => HasSigned(a.user)

===============================================================================
