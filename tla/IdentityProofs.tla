---------------------------- MODULE IdentityProofs -----------------------------
(***************************************************************************)
(* Theorems about Identity, for any number of sessions, webhooks and       *)
(* requests: the types, that no session gets more credentials than         *)
(* approvals of it were taken, by Veriff where a secret is set, that the   *)
(* page reports nothing that did not happen, and that it waits on an       *)
(* interval of its own.                                                    *)
(*                                                                         *)
(* The server and the browser are treated apart: what the page shows       *)
(* rests on facts about the server that no later step takes back (Kept).   *)
(***************************************************************************)
EXTENDS Identity, FiniteSetTheorems, TLAPS

\* The page's views are conditions on its status.
USE DEF SaysVerified, SaysDeclined, SaysProcessing, OffersStart, SaysIssued, OffersForm,
        PROVIDERS, Flow, environment

ServerTypes ==
    /\ configured \in BOOLEAN /\ signed \in BOOLEAN /\ did \in BOOLEAN /\ active \in BOOLEAN
    /\ session \in [Sessions -> SessionRows]
    /\ creating \subseteq Sessions
    /\ issued \in [Sessions -> 0 .. MaxWebhooks]
    /\ hook \in [Hooks -> Handlers]
    /\ approvals \in [Sessions -> 0 .. MaxWebhooks]
    /\ foreign \in [Sessions -> 0 .. MaxWebhooks]
    /\ delivered \in 0 .. MaxWebhooks

BrowserTypes == page \in Pages /\ poll \in [Polls -> Requests]

\* The approvals of s that were taken.
Approved(s) == approvals[s] + foreign[s]

\* Handlers of an approval of s that have not issued its credential.
Due(s) == {h \in Hooks : /\ hook[h].sid = s /\ hook[h].status = "approved"
                         /\ hook[h].pc \in {"find", "update", "did", "issuer", "issue"}}

\* Every approval accounts for one credential, issued or due.
CountOK(s) == issued[s] + Cardinality(Due(s)) <= Approved(s)

\* What a handler holds: a session, the approval that it goes on with, the credential
\* that it has issued.
HookOK(h) ==
    /\ hook[h].pc # "free" => hook[h].sid \in Sessions /\ hook[h].status \in Verdicts
    /\ hook[h].pc \in {"did", "issuer", "issue", "record"} => hook[h].status = "approved"
    /\ hook[h].pc # "free" /\ hook[h].status = "approved" => Approved(hook[h].sid) > 0
    /\ hook[h].pc = "record" => hook[h].cred <= issued[hook[h].sid]

RowOK(s) ==
    /\ session[s].cred <= issued[s]
    /\ configured /\ session[s].status = "approved" => Approved(s) > 0

\* Approvals count among the webhooks, and with a secret they are Veriff's.
SenderOK(s) == Approved(s) <= delivered /\ (signed => foreign[s] = 0)

Server == /\ ServerTypes
          /\ \A h \in Hooks : HookOK(h)
          /\ \A s \in Sessions : CountOK(s) /\ RowOK(s) /\ SenderOK(s)

\* The frame of s has finished on the page.
Done(s) == page.run[s] \in {"polling", "over"}

RunOK(s) == /\ page.run[s] \in {"load", "frame", "polling", "over"} => HasRow(s)
            /\ Done(s) => configured

\* What the page knows of the server, and that pollRef holds an interval that runs.
PageOK ==
    /\ \A s \in Sessions : RunOK(s)
    /\ page.ref # None => page.run[page.ref] = "polling"
    /\ page.status = "submitted" => page.ref # None
    /\ page.status = "approved" => \E s \in Sessions : Done(s) /\ Approved(s) > 0
    /\ page.status = "issued" => did

PollOK(q) ==
    /\ poll[q].sid # None => Done(poll[q].sid)
    /\ poll[q].seen # None => poll[q].sid # None
    /\ poll[q].seen = "approved" => Approved(poll[q].sid) > 0

Browser == BrowserTypes /\ PageOK /\ \A q \in Polls : PollOK(q)

IInv == Server /\ Browser

LEMMA TypesSplit == TypeOK <=> ServerTypes /\ BrowserTypes
  BY DEF TypeOK, ServerTypes, BrowserTypes

-------------------------------------------------------------------------------
(* Counting *)

LEMMA DueFinite ==
    ASSUME NEW s \in Sessions
    PROVE  IsFiniteSet(Due(s)) /\ Cardinality(Due(s)) \in Nat
<1>1. Due(s) \in SUBSET Hooks
  BY DEF Due
<1> QED  BY <1>1, FS_Subset, FS_CardinalityType, IdentityAssumption

\* A step that no webhook comes in with.
LEMMA SameSenders ==
    ASSUME ServerTypes, UNCHANGED environment
    PROVE  \A s \in Sessions : /\ Approved(s) \in Nat /\ Approved(s)' = Approved(s)
                               /\ SenderOK(s) => SenderOK(s)'
  BY DEF ServerTypes, Approved, SenderOK

\* The counts of a state in which no handler is due that was not due before.
LEMMA FewerDue ==
    ASSUME ServerTypes, \A s \in Sessions : CountOK(s),
           \A s \in Sessions : Due(s)' \subseteq Due(s),
           UNCHANGED <<environment, issued>>
    PROVE  \A s \in Sessions : CountOK(s)'
<1> SUFFICES ASSUME NEW s \in Sessions PROVE CountOK(s)'
  OBVIOUS
<1>1. /\ Cardinality(Due(s)') <= Cardinality(Due(s))
      /\ Cardinality(Due(s)) \in Nat
      /\ IsFiniteSet(Due(s)')
  BY DueFinite, FS_Subset
<1>2. Cardinality(Due(s)') \in Nat
  BY <1>1, FS_CardinalityType
<1>3. issued[s] \in Nat /\ Approved(s) \in Nat /\ Approved(s)' = Approved(s)
  BY SameSenders DEF ServerTypes
<1>4. issued[s] + Cardinality(Due(s)) <= Approved(s)
  BY DEF CountOK
<1>5. issued[s] + Cardinality(Due(s)') <= Approved(s)
  BY <1>1, <1>2, <1>3, <1>4
<1> QED  BY <1>3, <1>5 DEF CountOK

\* A handler that moves on, or ends, makes none due that was not.
LEMMA Moves ==
    ASSUME ServerTypes, NEW h \in Hooks, NEW x \in Handlers,
           hook' = [hook EXCEPT ![h] = x],
           x = FreeHook \/ (x.sid = hook[h].sid /\ x.status = hook[h].status),
           hook[h].pc \in {"find", "update", "did", "issuer", "issue"} \/ x.pc \in {"free", "record"}
    PROVE  /\ hook' \in [Hooks -> Handlers]
           /\ hook'[h] = x /\ \A g \in Hooks \ {h} : hook'[g] = hook[g]
           /\ \A s \in Sessions : Due(s)' \subseteq Due(s)
<1>1. /\ hook' \in [Hooks -> Handlers]
      /\ hook'[h] = x /\ \A g \in Hooks \ {h} : hook'[g] = hook[g]
  BY DEF ServerTypes
<1>2. ASSUME NEW s \in Sessions, NEW g \in Due(s)'
      PROVE  g \in Due(s)
  <2>1. /\ g \in Hooks /\ hook'[g].sid = s /\ hook'[g].status = "approved"
        /\ hook'[g].pc \in {"find", "update", "did", "issuer", "issue"}
    BY <1>2 DEF Due
  <2>2. CASE g = h
    <3>1. x.pc # "free" /\ x.pc # "record" /\ x # FreeHook
      BY <1>1, <2>1, <2>2 DEF FreeHook
    <3> QED  BY <1>1, <2>1, <2>2, <3>1 DEF Due
  <2>3. CASE g # h
    BY <1>1, <2>1, <2>3 DEF Due
  <2> QED  BY <2>2, <2>3
<1> QED  BY <1>1, <1>2

LEMMA FreeTyped == FreeHook \in Handlers
  BY IdentityAssumption DEF FreeHook, Handlers

-------------------------------------------------------------------------------
(* The server *)

\* A handler that takes a step which issues, records and approves nothing.
LEMMA PlainStep ==
    ASSUME Server, NEW h \in Hooks, NEW x \in Handlers,
           hook' = [hook EXCEPT ![h] = x],
           x = FreeHook \/ (x.sid = hook[h].sid /\ x.status = hook[h].status),
           hook[h].pc \in {"find", "update", "did", "issuer", "issue"},
           x.pc = "free" \/ x.pc \in {"update", "did", "issuer", "issue"},
           x.pc \in {"did", "issuer", "issue"} => x.status = "approved",
           UNCHANGED <<environment, issued>>
    PROVE  /\ hook' \in [Hooks -> Handlers]
           /\ \A g \in Hooks : HookOK(g)'
           /\ \A s \in Sessions : CountOK(s)'
<1>1. /\ hook' \in [Hooks -> Handlers]
      /\ hook'[h] = x /\ \A g \in Hooks \ {h} : hook'[g] = hook[g]
      /\ \A s \in Sessions : Due(s)' \subseteq Due(s)
  BY Moves DEF Server
<1>2. \A g \in Hooks \ {h} : HookOK(g)'
  BY <1>1 DEF Server, HookOK, Approved
<1>3. HookOK(h)'
  <2>1. CASE x.pc = "free"
    BY <1>1, <2>1 DEF HookOK
  <2>2. CASE x.pc # "free"
    <3>1. x.sid = hook[h].sid /\ x.status = hook[h].status
      BY <2>2 DEF FreeHook
    <3> QED  BY <1>1, <2>2, <3>1 DEF Server, HookOK, Approved
  <2> QED  BY <2>1, <2>2
<1>4. \A s \in Sessions : CountOK(s)'
  BY <1>1, FewerDue DEF Server
<1> QED  BY <1>1, <1>2, <1>3, <1>4

\* Goto and Finish are such steps.
LEMMA GoesOn ==
    ASSUME Server, NEW h \in Hooks,
           hook[h].pc \in {"find", "update", "did", "issuer", "issue"},
           \/ Finish(h)
           \/ \E pc \in {"update", "did", "issuer", "issue"} :
                 Goto(h, pc) /\ (pc # "update" => hook[h].status = "approved"),
           UNCHANGED <<environment, issued>>
    PROVE  /\ hook' \in [Hooks -> Handlers]
           /\ \A g \in Hooks : HookOK(g)'
           /\ \A s \in Sessions : CountOK(s)'
<1>1. CASE Finish(h)
  <2>1. hook' = [hook EXCEPT ![h] = FreeHook] /\ FreeHook.pc = "free"
    BY <1>1 DEF Finish, FreeHook
  <2> QED  BY <2>1, FreeTyped, PlainStep
<1>2. ASSUME NEW pc \in {"update", "did", "issuer", "issue"}, Goto(h, pc),
             pc # "update" => hook[h].status = "approved"
      PROVE  /\ hook' \in [Hooks -> Handlers]
             /\ \A g \in Hooks : HookOK(g)'
             /\ \A s \in Sessions : CountOK(s)'
  <2> DEFINE x == [hook[h] EXCEPT !.pc = pc]
  <2>1. /\ x \in Handlers /\ x.pc = pc /\ x.sid = hook[h].sid
        /\ x.status = hook[h].status
    BY DEF Server, ServerTypes, Handlers
  <2>2. hook' = [hook EXCEPT ![h] = x]
    BY <1>2 DEF Goto, Server, ServerTypes
  <2>3. x.pc \in {"did", "issuer", "issue"} => x.status = "approved"
    BY <1>2, <2>1
  <2>4. x.pc \in {"update", "did", "issuer", "issue"}
    BY <2>1
  <2> HIDE DEF x
  <2> QED  BY <2>1, <2>2, <2>3, <2>4, PlainStep
<1> QED  BY <1>1, <1>2

LEMMA FindSessionStep ==
    ASSUME Server, NEW h \in Hooks, FindSession(h) \/ IssueFails(h)
    PROVE  Server'
<1>1. /\ hook[h].pc \in {"find", "issue"}
      /\ Goto(h, "update") \/ Finish(h)
      /\ UNCHANGED <<environment, did, active, session, creating, issued>>
  BY DEF FindSession, IssueFails
<1>2. /\ hook' \in [Hooks -> Handlers]
      /\ \A g \in Hooks : HookOK(g)'
      /\ \A s \in Sessions : CountOK(s)'
  BY <1>1, GoesOn
<1> QED  BY <1>1, <1>2, SameSenders DEF Server, ServerTypes, RowOK

\* The row takes the status of a handler, which is `approved' only when Veriff said so.
LEMMA UpdateStep ==
    ASSUME Server, NEW h \in Hooks, UpdateStatus(h)
    PROVE  Server'
<1>1. /\ hook[h].pc = "update"
      /\ session' = [session EXCEPT ![hook[h].sid].status = hook[h].status]
      /\ Finish(h) \/ (Goto(h, "did") /\ hook[h].status = "approved")
      /\ UNCHANGED <<environment, did, active, creating, issued>>
  BY DEF UpdateStatus
<1>2. /\ hook' \in [Hooks -> Handlers]
      /\ \A g \in Hooks : HookOK(g)'
      /\ \A s \in Sessions : CountOK(s)'
  BY <1>1, GoesOn
<1>3. /\ hook[h].sid \in Sessions /\ hook[h].status \in Verdicts
      /\ hook[h].status = "approved" => Approved(hook[h].sid) > 0
  BY <1>1 DEF Server, HookOK
<1> DEFINE v == hook[h].sid
           r == [session[v] EXCEPT !.status = hook[h].status]
<1>4. r \in SessionRows /\ r.status = hook[h].status /\ r.cred = session[v].cred
  BY <1>3 DEF Server, ServerTypes, SessionRows, RowStatus
<1>5. /\ session' \in [Sessions -> SessionRows]
      /\ session'[v] = r /\ \A s \in Sessions \ {v} : session'[s] = session[s]
  BY <1>1, <1>3, <1>4 DEF Server, ServerTypes
<1> HIDE DEF r
<1>6. \A s \in Sessions : RowOK(s)'
  BY <1>1, <1>3, <1>4, <1>5, SameSenders DEF Server, RowOK
<1> QED  BY <1>1, <1>2, <1>5, <1>6, SameSenders DEF Server, ServerTypes

LEMMA DidAndIssuerStep ==
    ASSUME Server, NEW h \in Hooks, FindDid(h) \/ UpsertIssuer(h)
    PROVE  Server'
<1>1. /\ hook[h].pc \in {"did", "issuer"} /\ active' \in {active, TRUE}
      /\ Goto(h, "issuer") \/ Goto(h, "issue") \/ Finish(h)
      /\ UNCHANGED <<environment, did, session, creating, issued>>
  BY DEF FindDid, UpsertIssuer
<1>2. hook[h].status = "approved"
  BY <1>1 DEF Server, HookOK
<1>3. /\ hook' \in [Hooks -> Handlers]
      /\ \A g \in Hooks : HookOK(g)'
      /\ \A s \in Sessions : CountOK(s)'
  BY <1>1, <1>2, GoesOn
<1> QED  BY <1>1, <1>3, SameSenders DEF Server, ServerTypes, RowOK

\* A credential takes the place of an approval that was due.
LEMMA IssueStep ==
    ASSUME Server, NEW h \in Hooks, Issue(h)
    PROVE  Server'
<1> DEFINE v == hook[h].sid
           x == [[hook[h] EXCEPT !.pc = "record"] EXCEPT !.cred = issued[v] + 1]
<1>1. /\ hook[h].pc = "issue" /\ v \in Sessions /\ hook[h].status = "approved"
      /\ issued' = [issued EXCEPT ![v] = @ + 1]
      /\ UNCHANGED <<environment, did, active, session, creating>>
  BY DEF Issue, Server, HookOK
<1>2. h \in Due(v)
  BY <1>1 DEF Due
<1>3. /\ Cardinality(Due(v)) \in Nat
      /\ IsFiniteSet(Due(v))
      /\ Cardinality(Due(v) \ {h}) = Cardinality(Due(v)) - 1
      /\ Cardinality(Due(v) \ {h}) \in Nat
  BY <1>1, <1>2, DueFinite, FS_RemoveElement, FS_CardinalityType
<1>4. /\ issued[v] \in 0 .. MaxWebhooks /\ Approved(v) \in Nat
      /\ issued[v] + Cardinality(Due(v)) <= Approved(v)
      /\ Approved(v) <= delivered /\ delivered \in 0 .. MaxWebhooks
  BY <1>1, SameSenders DEF Server, ServerTypes, CountOK, SenderOK
<1>5. /\ issued[v] + 1 \in 0 .. MaxWebhooks
      /\ issued[v] + 1 + Cardinality(Due(v) \ {h}) <= Approved(v)
  BY <1>3, <1>4, IdentityAssumption
<1>6. /\ x \in Handlers /\ x.pc = "record" /\ x.sid = v /\ x.status = "approved"
      /\ x.cred = issued[v] + 1
  BY <1>1, <1>5 DEF Server, ServerTypes, Handlers
<1>7. hook' = [hook EXCEPT ![h] = x]
  BY DEF Issue, Server, ServerTypes
<1> HIDE DEF x
<1>8. /\ hook' \in [Hooks -> Handlers]
      /\ hook'[h] = x /\ \A g \in Hooks \ {h} : hook'[g] = hook[g]
      /\ \A s \in Sessions : Due(s)' \subseteq Due(s)
  BY <1>1, <1>6, <1>7, Moves DEF Server
<1>9. /\ issued' \in [Sessions -> 0 .. MaxWebhooks]
      /\ issued'[v] = issued[v] + 1
      /\ \A s \in Sessions \ {v} : issued'[s] = issued[s]
      /\ \A s \in Sessions : issued[s] \in Nat /\ issued'[s] \in Nat /\ issued[s] <= issued'[s]
  BY <1>1, <1>4, <1>5 DEF Server, ServerTypes
<1>10. ASSUME NEW s \in Sessions
       PROVE  CountOK(s)'
  <2>1. CASE s = v
    <3>1. Due(s)' \in SUBSET (Due(s) \ {h})
      BY <1>1, <1>6, <1>8, <2>1 DEF Due
    <3>2. /\ Cardinality(Due(s)') <= Cardinality(Due(s) \ {h})
          /\ Cardinality(Due(s)') \in Nat
      BY <1>3, <2>1, <3>1, FS_Subset, FS_RemoveElement, FS_CardinalityType
    <3>3. issued[s] + 1 + Cardinality(Due(s)') <= Approved(s)
      BY <1>3, <1>4, <1>5, <2>1, <3>2
    <3>4. issued'[s] = issued[s] + 1 /\ Approved(s)' = Approved(s)
      BY <1>1, <1>9, <2>1, SameSenders DEF Server
    <3> QED  BY <3>3, <3>4 DEF CountOK
  <2>2. CASE s # v
    <3>1. /\ Cardinality(Due(s)') <= Cardinality(Due(s))
          /\ Cardinality(Due(s)) \in Nat /\ IsFiniteSet(Due(s)')
      BY <1>8, DueFinite, FS_Subset
    <3>2. Cardinality(Due(s)') \in Nat
      BY <3>1, FS_CardinalityType
    <3>3. /\ issued[s] \in Nat /\ issued'[s] = issued[s]
          /\ Approved(s) \in Nat /\ Approved(s)' = Approved(s)
      BY <1>1, <1>9, <2>2, SameSenders DEF Server, ServerTypes
    <3>4. issued[s] + Cardinality(Due(s)) <= Approved(s)
      BY DEF Server, CountOK
    <3>5. issued[s] + Cardinality(Due(s)') <= Approved(s)
      BY <3>1, <3>2, <3>3, <3>4
    <3> QED  BY <1>1, <3>3, <3>5 DEF CountOK
  <2> QED  BY <2>1, <2>2
<1>11. ASSUME NEW g \in Hooks
       PROVE  HookOK(g)'
  <2>1. CASE g = h
    BY <1>1, <1>4, <1>6, <1>8, <1>9, <2>1 DEF Server, HookOK, Approved
  <2>2. CASE g # h
    <3>1. HookOK(g) /\ hook'[g] = hook[g] /\ hook[g].cred \in Nat
      BY <1>8, <2>2 DEF Server, ServerTypes, Handlers
    <3> QED  BY <1>1, <1>9, <3>1 DEF HookOK, Approved
  <2> QED  BY <2>1, <2>2
<1>12. ASSUME NEW s \in Sessions
       PROVE  RowOK(s)'
  <2>1. RowOK(s) /\ session[s].cred \in Nat
    BY DEF Server, ServerTypes, SessionRows
  <2>2. issued[s] \in Nat /\ issued'[s] \in Nat /\ issued[s] <= issued'[s]
    BY <1>9
  <2>3. session[s].cred <= issued'[s]
    BY <2>1, <2>2 DEF RowOK
  <2> QED  BY <1>1, <2>1, <2>3 DEF RowOK, Approved
<1> QED  BY <1>1, <1>8, <1>9, <1>10, <1>11, <1>12, SameSenders DEF Server, ServerTypes

LEMMA RecordStep ==
    ASSUME Server, NEW h \in Hooks, RecordCredential(h)
    PROVE  Server'
<1> DEFINE v == hook[h].sid
           r == [session[v] EXCEPT !.cred = hook[h].cred]
<1>1. /\ hook[h].pc = "record" /\ v \in Sessions /\ hook[h].cred <= issued[v]
      /\ hook[h].cred \in 0 .. MaxWebhooks
      /\ hook' = [hook EXCEPT ![h] = FreeHook]
      /\ session' = [session EXCEPT ![v].cred = hook[h].cred]
      /\ UNCHANGED <<environment, did, active, creating, issued>>
  BY DEF RecordCredential, Finish, Server, ServerTypes, HookOK, Handlers
<1>2. r \in SessionRows /\ r.status = session[v].status /\ r.cred = hook[h].cred
  BY <1>1 DEF Server, ServerTypes, SessionRows
<1>3. /\ session' \in [Sessions -> SessionRows]
      /\ session'[v] = r /\ \A s \in Sessions \ {v} : session'[s] = session[s]
  BY <1>1, <1>2 DEF Server, ServerTypes
<1> HIDE DEF r
<1>4. \A s \in Sessions : RowOK(s)'
  BY <1>1, <1>2, <1>3 DEF Server, RowOK, Approved
<1>5. FreeHook.pc = "free"
  BY DEF FreeHook
<1>6. /\ hook' \in [Hooks -> Handlers]
      /\ hook'[h] = FreeHook /\ \A g \in Hooks \ {h} : hook'[g] = hook[g]
      /\ \A s \in Sessions : Due(s)' \subseteq Due(s)
  BY <1>1, <1>5, FreeTyped, Moves DEF Server
<1>7. \A g \in Hooks : HookOK(g)'
  BY <1>1, <1>5, <1>6 DEF Server, HookOK, Approved
<1>8. \A s \in Sessions : CountOK(s)'
  BY <1>1, <1>6, FewerDue DEF Server
<1> QED  BY <1>1, <1>3, <1>4, <1>6, <1>7, <1>8, SameSenders DEF Server, ServerTypes

\* An approval is counted when it is delivered, and one handler more is due.
LEMMA DeliverStep ==
    ASSUME Server, NEW h \in Hooks, NEW sender \in {"veriff", "other"}, NEW v \in Sessions,
           NEW st \in Verdicts, Deliver(h, sender, v, st)
    PROVE  Server' /\ \A s \in Sessions : Approved(s) > 0 => Approved(s)' > 0
<1> DEFINE x == [pc |-> "find", sid |-> v, status |-> st, cred |-> 0]
           n == IF st = "approved" THEN Approved(v) + 1 ELSE Approved(v)
<1>1. /\ hook[h].pc = "free"
      /\ hook' = [hook EXCEPT ![h] = x]
      /\ UNCHANGED <<configured, signed, did, active, session, creating, issued>>
  BY DEF Deliver
<1>2. delivered < MaxWebhooks /\ delivered' = delivered + 1
  BY DEF Deliver
<1>3. /\ \A s \in Sessions : /\ approvals[s] \in Nat /\ foreign[s] \in Nat
                             /\ Approved(s) <= delivered
      /\ delivered \in Nat /\ delivered' \in 0 .. MaxWebhooks
  BY <1>2, IdentityAssumption DEF Server, ServerTypes, SenderOK
<1>4. /\ \A s \in Sessions \ {v} : Approved(s)' = Approved(s)
      /\ Approved(v)' = n
      /\ \A s \in Sessions : approvals'[s] \in Nat /\ foreign'[s] \in Nat
      /\ approvals' = [s \in Sessions |-> approvals'[s]]
      /\ foreign' = [s \in Sessions |-> foreign'[s]]
      /\ signed => foreign' = foreign
  <2>1. CASE st # "approved"
    BY <1>3, <2>1 DEF Deliver, Approved, Server, ServerTypes
  <2>2. CASE st = "approved" /\ sender = "veriff"
    <3>1. approvals' = [approvals EXCEPT ![v] = @ + 1] /\ foreign' = foreign
      BY <2>2 DEF Deliver
    <3>2. /\ approvals' \in [Sessions -> Nat] /\ approvals'[v] = approvals[v] + 1
          /\ \A s \in Sessions \ {v} : approvals'[s] = approvals[s]
      BY <1>3, <3>1 DEF Server, ServerTypes
    <3>3. foreign' \in [Sessions -> Nat] /\ foreign' = foreign
      BY <1>3, <3>1 DEF Server, ServerTypes
    <3> QED  BY <1>3, <2>2, <3>2, <3>3 DEF Approved
  <2>3. CASE st = "approved" /\ sender = "other"
    <3>1. approvals' = approvals /\ foreign' = [foreign EXCEPT ![v] = @ + 1] /\ ~signed
      BY <2>3 DEF Deliver, Taken
    <3>2. /\ foreign' \in [Sessions -> Nat] /\ foreign'[v] = foreign[v] + 1
          /\ \A s \in Sessions \ {v} : foreign'[s] = foreign[s]
      BY <1>3, <3>1 DEF Server, ServerTypes
    <3>3. approvals' \in [Sessions -> Nat] /\ approvals' = approvals
      BY <1>3, <3>1 DEF Server, ServerTypes
    <3>4. signed => foreign' = foreign
      BY <3>1
    <3>5. /\ \A s \in Sessions \ {v} : Approved(s)' = Approved(s)
          /\ Approved(v)' = Approved(v) + 1
      BY <1>3, <3>2, <3>3 DEF Approved
    <3>6. /\ \A s \in Sessions : approvals'[s] \in Nat /\ foreign'[s] \in Nat
          /\ approvals' = [s \in Sessions |-> approvals'[s]]
          /\ foreign' = [s \in Sessions |-> foreign'[s]]
      BY <3>2, <3>3
    <3> QED  BY <2>3, <3>4, <3>5, <3>6
  <2> QED  BY <2>1, <2>2, <2>3
<1>5. n \in Nat /\ Approved(v) <= n /\ n <= Approved(v) + 1
      /\ (st = "approved" => n = Approved(v) + 1)
  BY <1>3 DEF Approved
<1>6. 0 \in 0 .. MaxWebhooks
  BY IdentityAssumption
<1>7. /\ x \in Handlers /\ x.pc = "find" /\ x.sid = v /\ x.status = st
  BY <1>6 DEF Handlers
<1> HIDE DEF x, n
<1>8. /\ hook' \in [Hooks -> Handlers]
      /\ hook'[h] = x /\ \A g \in Hooks \ {h} : hook'[g] = hook[g]
  BY <1>1, <1>7 DEF Server, ServerTypes
<1>9. \A s \in Sessions : /\ Approved(s) \in Nat /\ Approved(s)' \in Nat
                          /\ Approved(s) <= Approved(s)' /\ Approved(s)' <= delivered'
  <2>1. \A s \in Sessions : Approved(s) \in Nat
    BY <1>3 DEF Approved
  <2> QED  BY <1>2, <1>3, <1>4, <1>5, <2>1
<1>10. /\ approvals' \in [Sessions -> 0 .. MaxWebhooks]
       /\ foreign' \in [Sessions -> 0 .. MaxWebhooks]
  <2>1. \A s \in Sessions : approvals'[s] + foreign'[s] <= delivered'
    BY <1>9 DEF Approved
  <2>2. \A s \in Sessions : approvals'[s] \in 0 .. MaxWebhooks /\ foreign'[s] \in 0 .. MaxWebhooks
    BY <1>3, <1>4, <2>1, IdentityAssumption
  <2> QED  BY <1>4, <2>2
<1>11. ASSUME NEW s \in Sessions
       PROVE  CountOK(s)'
  <2>1. /\ IsFiniteSet(Due(s)) /\ Cardinality(Due(s)) \in Nat
        /\ issued[s] \in Nat
        /\ issued[s] + Cardinality(Due(s)) <= Approved(s)
    BY DueFinite DEF Server, ServerTypes, CountOK
  <2>2. CASE s = v /\ st = "approved"
    <3>1. Due(s)' \in SUBSET (Due(s) \cup {h})
      BY <1>8 DEF Due
    <3>2. /\ IsFiniteSet(Due(s) \cup {h})
          /\ Cardinality(Due(s) \cup {h}) <= Cardinality(Due(s)) + 1
          /\ Cardinality(Due(s) \cup {h}) \in Nat
      <4>1. /\ IsFiniteSet(Due(s) \cup {h})
            /\ Cardinality(Due(s) \cup {h})
                 = IF h \in Due(s) THEN Cardinality(Due(s)) ELSE Cardinality(Due(s)) + 1
        BY <2>1, FS_AddElement
      <4> QED  BY <2>1, <4>1
    <3>3. /\ Cardinality(Due(s)') <= Cardinality(Due(s) \cup {h})
          /\ Cardinality(Due(s)') \in Nat
      BY <3>1, <3>2, FS_Subset, FS_CardinalityType
    <3>4. issued[s] + Cardinality(Due(s)') <= Approved(s) + 1
      BY <1>9, <2>1, <3>2, <3>3
    <3>5. Approved(s)' = Approved(s) + 1 /\ issued' = issued
      BY <1>1, <1>4, <1>5, <2>2
    <3> QED  BY <3>4, <3>5 DEF CountOK
  <2>3. CASE ~(s = v /\ st = "approved")
    <3>1. Due(s)' \in SUBSET Due(s)
      BY <1>7, <1>8, <2>3 DEF Due
    <3>2. /\ Cardinality(Due(s)') <= Cardinality(Due(s))
          /\ Cardinality(Due(s)') \in Nat
      BY <2>1, <3>1, FS_Subset, FS_CardinalityType
    <3>3. issued[s] + Cardinality(Due(s)') <= Approved(s)'
      BY <1>9, <2>1, <3>2
    <3> QED  BY <1>1, <3>3 DEF CountOK
  <2> QED  BY <2>2, <2>3
<1>12. ASSUME NEW g \in Hooks
       PROVE  HookOK(g)'
  <2>1. CASE g = h
    <3>1. hook'[g].sid = v /\ hook'[g].status = st /\ hook'[g].pc = "find"
      BY <1>7, <1>8, <2>1
    <3>2. st = "approved" => Approved(v)' > 0
      BY <1>4, <1>5, <1>9
    <3> QED  BY <3>1, <3>2 DEF HookOK, Approved
  <2>2. CASE g # h
    <3>1. HookOK(g) /\ hook'[g] = hook[g]
      BY <1>8, <2>2 DEF Server
    <3>2. \A s \in Sessions : Approved(s) > 0 => Approved(s)' > 0
      BY <1>9
    <3> QED  BY <1>1, <3>1, <3>2 DEF HookOK, Approved
  <2> QED  BY <2>1, <2>2
<1>13. \A s \in Sessions : Approved(s) > 0 => Approved(s)' > 0
  BY <1>9
<1>14. \A s \in Sessions : RowOK(s)'
  BY <1>1, <1>13 DEF Server, RowOK
<1>15. \A s \in Sessions : SenderOK(s)'
  BY <1>1, <1>4, <1>9 DEF Server, SenderOK
<1> QED  BY <1>1, <1>3, <1>8, <1>10, <1>11, <1>12, <1>13, <1>14, <1>15 DEF Server, ServerTypes

\* Steps that touch neither a handler nor a count.
LEMMA SameCounts ==
    ASSUME Server, UNCHANGED <<environment, issued, hook>>
    PROVE  /\ \A h \in Hooks : HookOK(h)'
           /\ \A s \in Sessions : CountOK(s)'
<1>1. \A s \in Sessions : Due(s)' \subseteq Due(s)
  BY DEF Due
<1>2. \A h \in Hooks : HookOK(h)'
  BY DEF Server, HookOK, Approved
<1> QED  BY <1>1, <1>2, FewerDue DEF Server

LEMMA ElsewhereStep ==
    ASSUME Server, did' \in BOOLEAN, active' \in BOOLEAN,
           UNCHANGED <<environment, session, creating, issued, hook>>
    PROVE  Server'
  BY SameCounts, SameSenders DEF Server, ServerTypes, RowOK

LEMMA RestartStep ==
    ASSUME Server, Restart
    PROVE  Server'
<1>1. /\ hook' \in [Hooks -> Handlers] /\ \A h \in Hooks : hook'[h] = FreeHook
      /\ FreeHook.pc = "free"
  BY FreeTyped DEF Restart, FreeHook
<1>2. \A s \in Sessions : Due(s)' \subseteq Due(s)
  BY <1>1 DEF Due
<1>3. \A s \in Sessions : CountOK(s)'
  BY <1>2, FewerDue DEF Server, Restart
<1>4. \A h \in Hooks : HookOK(h)'
  BY <1>1 DEF HookOK
<1> QED  BY <1>1, <1>3, <1>4, SameSenders DEF Server, ServerTypes, RowOK, Restart

\* A session is asked for, made or stored: its row has no credential, and is `approved'
\* from the start only when there is no Veriff.
LEMMA SessionStep ==
    ASSUME Server, NEW v \in Sessions, MakeSession(v) \/ StoreSession(v)
    PROVE  /\ Server'
           /\ \A s \in Sessions : HasRow(s) => HasRow(s)'
<1>1. PICK st \in {"made", "approved", "open"} :
         /\ session' = [session EXCEPT ![v].status = st]
         /\ st = "approved" => ~configured
         /\ st = "made" => session[v].status = "none"
  BY DEF MakeSession, StoreSession
<1>2. /\ creating' \subseteq Sessions
      /\ UNCHANGED <<environment, did, active, issued, hook>>
  BY DEF MakeSession, StoreSession, Server, ServerTypes
<1> DEFINE r == [session[v] EXCEPT !.status = st]
<1>3. r \in SessionRows /\ r.status = st /\ r.cred = session[v].cred
  BY DEF Server, ServerTypes, SessionRows, RowStatus, Verdicts
<1>4. /\ session' \in [Sessions -> SessionRows]
      /\ session'[v] = r /\ \A s \in Sessions \ {v} : session'[s] = session[s]
  BY <1>1, <1>3 DEF Server, ServerTypes
<1> HIDE DEF r
<1>5. \A s \in Sessions : RowOK(s)'
  BY <1>1, <1>2, <1>3, <1>4 DEF Server, RowOK, Approved
<1>6. \A s \in Sessions : HasRow(s) => HasRow(s)'
  BY <1>1, <1>3, <1>4 DEF HasRow, RowStatus, Verdicts
<1> QED  BY <1>2, <1>4, <1>5, <1>6, SameCounts, SameSenders DEF Server, ServerTypes

\* A request for a session comes in or is given up.
LEMMA CreatingStep ==
    ASSUME Server, creating' \subseteq Sessions,
           UNCHANGED <<environment, did, active, session, issued, hook>>
    PROVE  Server'
  BY SameCounts, SameSenders DEF Server, ServerTypes, RowOK

-------------------------------------------------------------------------------
(* The browser *)

\* What no step takes back: a row, a DID, an approval that was taken.
Kept ==
    /\ configured' = configured
    /\ did => did'
    /\ \A s \in Sessions : /\ HasRow(s) => HasRow(s)'
                           /\ Approved(s) > 0 => Approved(s)' > 0

\* Nor, while the page stays, a frame that has finished.
DoneKept == \A s \in Sessions : Done(s) => Done(s)'

\* What the page knew stays true.
LEMMA PageFrame ==
    ASSUME Browser, Kept, page' = page
    PROVE  page' \in Pages /\ PageOK' /\ DoneKept
<1>1. \A s \in Sessions : RunOK(s)'
  BY DEF Browser, PageOK, RunOK, Done, Kept
<1>2. page.status = "approved" => \E s \in Sessions : Done(s)' /\ Approved(s)' > 0
  BY DEF Browser, PageOK, Done, Kept
<1>3. page.status = "issued" => did'
  BY DEF Browser, PageOK, Kept
<1>4. DoneKept
  BY DEF DoneKept, Done
<1> QED  BY <1>1, <1>2, <1>3, <1>4 DEF Browser, BrowserTypes, PageOK

LEMMA PollFrame ==
    ASSUME Browser, Kept, DoneKept, NEW q \in Polls, poll'[q] = poll[q]
    PROVE  PollOK(q)'
<1>1. PollOK(q) /\ (poll[q].sid # None => poll[q].sid \in Sessions)
  BY DEF Browser, BrowserTypes, Requests
<1>2. poll[q].sid # None => /\ Done(poll[q].sid)
                            /\ page'.run[poll[q].sid] \in {"polling", "over"}
  BY <1>1 DEF PollOK, DoneKept, Done
<1>3. poll[q].seen = "approved" => /\ poll[q].sid \in Sessions
                                   /\ approvals'[poll[q].sid] + foreign'[poll[q].sid] > 0
  BY <1>1, IdentityAssumption DEF PollOK, Kept, Approved
<1> QED  BY <1>1, <1>2, <1>3 DEF PollOK, Done, Approved

LEMMA ServerOnly ==
    ASSUME Browser, Kept, UNCHANGED browser
    PROVE  Browser'
  BY PageFrame, PollFrame DEF Browser, BrowserTypes, browser

LEMMA ServerStays ==
    ASSUME Server, UNCHANGED server
    PROVE  Server' /\ Kept
<1>1. Server'
  BY SameCounts, SameSenders DEF Server, ServerTypes, RowOK, server
<1>2. Kept
  BY DEF Kept, HasRow, Approved, server
<1> QED  BY <1>1, <1>2

\* Only the page changes: what it needs to know.
LEMMA PageOnly ==
    ASSUME Browser, Kept, DoneKept, page' \in Pages, PageOK', poll' = poll
    PROVE  Browser'
  BY PollFrame DEF Browser, BrowserTypes

Plain == {"choosing", "manual", "posting", "idle", "loading", "started", "declined", "error"}

\* A run of handleStart gets on, or is over, before its frame has finished; the page
\* keeps its status or takes one that makes no claim.
LEMMA RunStep ==
    ASSUME Browser, Kept, poll' = poll,
           NEW v \in Sessions, page.run[v] \notin {"polling", "over"},
           NEW r \in {"none", "post", "load", "frame"},
           r \in {"load", "frame"} => HasRow(v)',
           NEW st \in Plain \cup {page.status},
           page' = [page EXCEPT !.status = st, !.run[v] = r]
    PROVE  Browser'
<1>1. /\ page \in Pages /\ page'.status = st /\ page'.ref = page.ref
      /\ page'.run = [page.run EXCEPT ![v] = r]
      /\ page' = [status |-> st, run |-> page'.run, ref |-> page.ref]
  BY DEF Browser, BrowserTypes, Pages
<1>2. page' \in Pages
  BY <1>1 DEF Pages, Plain
<1>3. page'.run[v] = r /\ \A s \in Sessions \ {v} : page'.run[s] = page.run[s]
  BY <1>1 DEF Pages
<1>4. DoneKept /\ \A s \in Sessions : Done(s)' => Done(s)
  BY <1>3 DEF DoneKept, Done
<1>5. \A s \in Sessions : RunOK(s)'
  BY <1>3 DEF Browser, PageOK, RunOK, Done, Kept
<1>6. page'.ref # None => page'.run[page'.ref] = "polling"
  <2>1. page.ref # None => page.ref \in Sessions /\ page.run[page.ref] = "polling"
    BY <1>1 DEF Browser, PageOK, Pages
  <2> QED  BY <1>1, <1>3, <2>1
<1>7. page'.status = "approved" => \E s \in Sessions : Done(s)' /\ Approved(s)' > 0
  <2>1. page'.status = "approved" => page.status = "approved"
    BY <1>1 DEF Plain
  <2> QED  BY <1>4, <2>1 DEF Browser, PageOK, DoneKept, Kept
<1>8. /\ page'.status = "issued" => did'
      /\ page'.status = "submitted" => page'.ref # None
  BY <1>1 DEF Plain, Browser, PageOK, Kept
<1>9. PageOK'
  BY <1>5, <1>6, <1>7, <1>8 DEF PageOK
<1> QED  BY <1>2, <1>4, <1>9, PageOnly

LEMMA StartStep ==
    ASSUME Server, Browser, NEW s \in Sessions, Start(s)
    PROVE  Server' /\ Browser'
<1>1. /\ page.run[s] = "none"
      /\ page' = [page EXCEPT !.status = "loading", !.run[s] = "post"]
      /\ creating' = creating \cup {s}
      /\ UNCHANGED <<environment, did, active, session, issued, hook, poll>>
  BY DEF Start
<1>2. Server'
  BY <1>1, CreatingStep DEF Server, ServerTypes
<1>3. Kept
  BY <1>1 DEF Kept, HasRow, Approved
<1> QED  BY <1>1, <1>2, <1>3, RunStep DEF Plain

LEMMA RunActions ==
    ASSUME Server, Browser, NEW s \in Sessions,
           Created(s) \/ Started(s) \/ StartFails(s) \/ Canceled(s)
    PROVE  Server' /\ Browser'
<1>1. UNCHANGED <<server, poll>>
  BY DEF Created, Started, StartFails, Canceled
<1>2. Server' /\ Kept
  BY <1>1, ServerStays
<1>3. page.run[s] \in {"load", "frame"} => HasRow(s)
  BY DEF Browser, PageOK, RunOK
<1>4. HasRow(s) => HasRow(s)'
  BY <1>2 DEF Kept
<1>5. CASE Created(s)
  <2>1. page' = [page EXCEPT !.status = page.status, !.run[s] = "load"]
    BY <1>5 DEF Created, Browser, BrowserTypes, Pages
  <2>2. page.run[s] = "post" /\ HasRow(s)
    BY <1>5 DEF Created
  <2> QED  BY <1>1, <1>2, <1>4, <2>1, <2>2, RunStep
<1>6. CASE Started(s)
  BY <1>1, <1>2, <1>3, <1>4, <1>6, RunStep DEF Started, Plain
<1>7. CASE StartFails(s)
  BY <1>1, <1>2, <1>7, RunStep DEF StartFails, Plain
<1>8. CASE Canceled(s)
  BY <1>1, <1>2, <1>8, RunStep DEF Canceled, Plain
<1> QED  BY <1>5, <1>6, <1>7, <1>8

\* A frame that finishes gives pollRef an interval of its own, which runs.
LEMMA FinishedStep ==
    ASSUME Server, Browser, NEW v \in Sessions, Finished(v)
    PROVE  Server' /\ Browser'
<1>1. /\ UNCHANGED <<server, poll>> /\ configured /\ page.run[v] = "frame"
      /\ page' = [page EXCEPT !.status = "submitted", !.run[v] = "polling", !.ref = v]
  BY DEF Finished
<1>2. Server' /\ Kept
  BY <1>1, ServerStays
<1>3. /\ page \in Pages /\ page'.status = "submitted" /\ page'.ref = v
      /\ page'.run = [page.run EXCEPT ![v] = "polling"]
      /\ page' = [status |-> "submitted", run |-> page'.run, ref |-> v]
  BY <1>1 DEF Browser, BrowserTypes, Pages
<1>4. page' \in Pages
  BY <1>3 DEF Pages
<1>5. page'.run[v] = "polling" /\ \A s \in Sessions \ {v} : page'.run[s] = page.run[s]
  BY <1>3 DEF Pages
<1>6. DoneKept
  BY <1>5 DEF DoneKept, Done
<1>7. HasRow(v) /\ configured'
  BY <1>1, <1>2 DEF Browser, PageOK, RunOK, Kept
<1>8. \A s \in Sessions : RunOK(s)'
  BY <1>2, <1>5, <1>7 DEF Browser, PageOK, RunOK, Done, Kept
<1>9. PageOK'
  BY <1>3, <1>5, <1>8, IdentityAssumption DEF PageOK
<1> QED  BY <1>1, <1>2, <1>4, <1>6, <1>9, PageOnly

\* A status that makes no claim, or that a credential was issued.
LEMMA StatusStep ==
    ASSUME Browser, Kept, poll' = poll,
           NEW st \in Plain \cup {"issued"}, st = "issued" => did',
           page' = [page EXCEPT !.status = st]
    PROVE  Browser'
<1>1. /\ page \in Pages /\ page'.status = st /\ page'.ref = page.ref /\ page'.run = page.run
      /\ page' = [status |-> st, run |-> page.run, ref |-> page.ref]
  BY DEF Browser, BrowserTypes, Pages
<1>2. page' \in Pages
  BY <1>1 DEF Pages, Plain
<1>3. DoneKept
  BY <1>1 DEF DoneKept, Done
<1>4. \A s \in Sessions : RunOK(s)'
  BY <1>1 DEF Browser, PageOK, RunOK, Done, Kept
<1>5. PageOK'
  BY <1>1, <1>4 DEF Browser, PageOK, Plain
<1> QED  BY <1>2, <1>3, <1>5, PageOnly

LEMMA PageActions ==
    ASSUME Server, Browser, Choose \/ Submit \/ TryAgain
    PROVE  Server' /\ Browser'
<1>1. /\ UNCHANGED <<server, poll>>
      /\ \E st \in {"idle", "manual", "posting"} : page' = [page EXCEPT !.status = st]
  BY DEF Choose, Submit, TryAgain
<1>2. Server' /\ Kept
  BY <1>1, ServerStays
<1> QED  BY <1>1, <1>2, StatusStep DEF Plain

LEMMA LeaveStep ==
    ASSUME Server, Browser, Leave
    PROVE  Server' /\ Browser'
<1>1. page' = NewPage /\ poll' = [q \in Polls |-> FreePoll] /\ UNCHANGED server
  BY DEF Leave
<1>2. Server' /\ Kept
  BY <1>1, ServerStays
<1>3. page' \in Pages
  BY <1>1 DEF NewPage, Pages
<1>4. PageOK'
  BY <1>1 DEF NewPage, PageOK, RunOK, Done
<1>5. poll' \in [Polls -> Requests]
  BY <1>1 DEF FreePoll, Requests
<1>6. \A q \in Polls : PollOK(q)'
  BY <1>1, IdentityAssumption DEF FreePoll, PollOK
<1> QED  BY <1>2, <1>3, <1>4, <1>5, <1>6 DEF Browser, BrowserTypes

\* A request changes: what has to be known of it.
LEMMA PollOnly ==
    ASSUME Browser, Kept, page' = page, NEW q \in Polls, NEW r \in Requests,
           poll' = [poll EXCEPT ![q] = r],
           r.sid # None => Done(r.sid),
           r.seen # None => r.sid # None,
           r.seen = "approved" => Approved(r.sid)' > 0
    PROVE  Browser'
<1>1. /\ poll' \in [Polls -> Requests]
      /\ poll'[q] = r /\ \A p \in Polls \ {q} : poll'[p] = poll[p]
  BY DEF Browser, BrowserTypes
<1>2. page' \in Pages /\ PageOK' /\ DoneKept
  BY PageFrame
<1>3. PollOK(q)'
  BY <1>1 DEF PollOK, Done, Approved
<1> QED  BY <1>1, <1>2, <1>3, PollFrame DEF Browser, BrowserTypes

LEMMA TickStep ==
    ASSUME Server, Browser, NEW q \in Polls, NEW s \in Sessions, Tick(q, s)
    PROVE  Server' /\ Browser'
<1> DEFINE r == [poll[q] EXCEPT !.sid = s]
<1>1. UNCHANGED <<server, page>> /\ Done(s) /\ poll[q] = FreePoll
  BY DEF Tick, Done
<1>2. Server' /\ Kept
  BY <1>1, ServerStays
<1>3. r \in Requests /\ r.sid = s /\ r.seen = None /\ r.seen # "approved"
  BY <1>1, IdentityAssumption DEF FreePoll, Requests
<1>4. poll' = [poll EXCEPT ![q] = r]
  BY DEF Tick, Browser, BrowserTypes
<1> HIDE DEF r
<1> QED  BY <1>1, <1>2, <1>3, <1>4, PollOnly

\* The status is that of a session with a row, and `approved' only after an approval.
LEMMA ReadStatusStep ==
    ASSUME Server, Browser, NEW q \in Polls, ReadStatus(q)
    PROVE  Server' /\ Browser'
<1> DEFINE v == poll[q].sid
           r == [poll[q] EXCEPT !.seen = session[v].status]
<1>1. UNCHANGED <<server, page>> /\ poll[q].sid # None
  BY DEF ReadStatus
<1>2. Server' /\ Kept
  BY <1>1, ServerStays
<1>3. v \in Sessions /\ Done(v)
  BY <1>1 DEF Browser, BrowserTypes, Requests, PollOK
<1>4. configured /\ HasRow(v)
  BY <1>3 DEF Browser, PageOK, RunOK, Done
<1>5. session[v].status \in RowStatus
  BY <1>4 DEF HasRow
<1>6. session[v].status = "approved" => approvals'[v] + foreign'[v] > 0
  <2>1. PICK u \in Sessions : u = v
    BY <1>3
  <2>2. session[u].status = "approved" => Approved(u)' > 0
    BY <1>2, <1>4, <2>1 DEF Server, RowOK, Kept
  <2> QED  BY <2>1, <2>2 DEF Approved
<1>7. r \in Requests /\ r.sid = v /\ r.seen = session[v].status
  BY <1>5 DEF Browser, BrowserTypes, Requests
<1>8. poll' = [poll EXCEPT ![q] = r]
  BY DEF ReadStatus, Browser, BrowserTypes
<1>9. /\ r.sid # None => Done(r.sid)
      /\ r.seen # None => r.sid # None
      /\ r.seen = "approved" => approvals'[r.sid] + foreign'[r.sid] > 0
  BY <1>1, <1>3, <1>6, <1>7
<1> HIDE DEF r
<1> QED  BY <1>1, <1>2, <1>7, <1>8, <1>9, PollOnly DEF Approved

\* A verdict is shown, in whatever status the page is, and the interval of pollRef ends.
LEMMA VerdictStep ==
    ASSUME Browser, Kept, NEW q \in Polls, poll[q].seen \in {"approved", "declined"},
           page' = StopPolling(poll[q].seen)
    PROVE  page' \in Pages /\ PageOK' /\ DoneKept
<1> DEFINE run == [s \in Sessions |-> IF s = page.ref THEN "over" ELSE page.run[s]]
<1>1. page' = [status |-> poll[q].seen, run |-> run, ref |-> None]
  BY DEF StopPolling, Browser, BrowserTypes, Pages
<1>2. page' \in Pages
  BY <1>1 DEF Browser, BrowserTypes, Pages
<1>3. page.ref # None => page.ref \in Sessions /\ page.run[page.ref] = "polling"
  BY DEF Browser, BrowserTypes, PageOK, Pages
<1>4. \A s \in Sessions : page.ref = s => page.run[s] = "polling"
  BY <1>3, IdentityAssumption
<1>5. \A s \in Sessions : page'.run[s] = IF s = page.ref THEN "over" ELSE page.run[s]
  BY <1>1
<1>6. DoneKept
  BY <1>4, <1>5 DEF DoneKept, Done
<1>7. \A s \in Sessions : RunOK(s)'
  BY <1>4, <1>5 DEF Browser, PageOK, RunOK, Done, Kept
<1>8. poll[q].seen = "approved" => \E s \in Sessions : Done(s)' /\ Approved(s)' > 0
  <2>1. CASE poll[q].seen = "approved"
    <3>1. /\ poll[q].sid \in Sessions /\ Done(poll[q].sid)
          /\ Approved(poll[q].sid) > 0
      BY <2>1, IdentityAssumption DEF Browser, BrowserTypes, Requests, PollOK
    <3>2. PICK s \in Sessions : s = poll[q].sid
      BY <3>1
    <3>3. Done(s)' /\ Approved(s)' > 0
      BY <1>6, <3>1, <3>2 DEF DoneKept, Kept
    <3> QED  BY <3>3
  <2> QED  BY <2>1
<1>9. PageOK'
  BY <1>1, <1>7, <1>8 DEF PageOK
<1> QED  BY <1>2, <1>6, <1>9

LEMMA AnsweredStep ==
    ASSUME Server, Browser, NEW q \in Polls, Answered(q) \/ PollFails(q)
    PROVE  Server' /\ Browser'
<1>1. UNCHANGED server /\ poll' = [poll EXCEPT ![q] = FreePoll]
  BY DEF Answered, PollFails
<1>2. Server' /\ Kept
  BY <1>1, ServerStays
<1>3. /\ FreePoll \in Requests /\ FreePoll.sid = None /\ FreePoll.seen = None
      /\ FreePoll.seen # "approved"
  BY IdentityAssumption DEF FreePoll, Requests
<1>4. CASE page' = page
  BY <1>1, <1>2, <1>3, <1>4, PollOnly
<1>5. CASE /\ poll[q].seen \in {"approved", "declined"}
           /\ page' = StopPolling(poll[q].seen)
  <2>1. page' \in Pages /\ PageOK' /\ DoneKept
    BY <1>2, <1>5, VerdictStep
  <2>2. /\ poll' \in [Polls -> Requests]
        /\ poll'[q] = FreePoll /\ \A p \in Polls \ {q} : poll'[p] = poll[p]
    BY <1>1, <1>3 DEF Browser, BrowserTypes
  <2>3. PollOK(q)'
    BY <1>3, <2>2 DEF PollOK
  <2> QED  BY <1>2, <2>1, <2>2, <2>3, PollFrame DEF Browser, BrowserTypes
<1>6. poll[q].seen \in {None, "open", "approved", "declined"}
  BY DEF Browser, BrowserTypes, Requests, RowStatus, Verdicts
<1> QED  BY <1>4, <1>5, <1>6 DEF Answered, PollFails

\* The form: its claims are issued with a DID that is there from then on.
LEMMA FormStep ==
    ASSUME Server, Browser, SelfIssue \/ SelfIssueFails
    PROVE  Server' /\ Browser'
<1>1. /\ did' \in BOOLEAN /\ active' \in BOOLEAN /\ (did => did')
      /\ UNCHANGED <<environment, session, creating, issued, hook, poll>>
  BY DEF SelfIssue, SelfIssueFails, Server, ServerTypes
<1>2. Server' /\ Kept
  BY <1>1, ElsewhereStep DEF Kept, HasRow, Approved
<1>3. \/ page' = [page EXCEPT !.status = "manual"]
      \/ did' /\ page' = [page EXCEPT !.status = "issued"]
  BY DEF SelfIssue, SelfIssueFails
<1> QED  BY <1>1, <1>2, <1>3, StatusStep DEF Plain

-------------------------------------------------------------------------------
(* Theorems *)

\* The steps of the server alone take nothing back.
LEMMA ServerSteps ==
    ASSUME Server, Browser,
           \/ CreateDid \/ Deactivate \/ Restart
           \/ \E s \in Sessions : MakeSession(s) \/ StoreSession(s) \/ CreateFails(s)
           \/ \E h \in Hooks :
                 \/ Webhook(h)
                 \/ \E sender \in {"veriff", "other"}, s \in Sessions, v \in Verdicts :
                       Deliver(h, sender, s, v)
    PROVE  Server' /\ Browser'
<1>1. CASE CreateDid \/ Deactivate
  <2>1. Server' /\ Kept /\ UNCHANGED browser
    BY <1>1, ElsewhereStep DEF CreateDid, Deactivate, Server, ServerTypes, Kept, HasRow, Approved
  <2> QED  BY <2>1, ServerOnly
<1>2. CASE Restart
  <2>1. Kept /\ UNCHANGED browser
    BY <1>2 DEF Restart, Kept, HasRow, Approved
  <2> QED  BY <1>2, <2>1, RestartStep, ServerOnly
<1>3. ASSUME NEW s \in Sessions, MakeSession(s) \/ StoreSession(s)
      PROVE  Server' /\ Browser'
  <2>1. Server' /\ \A v \in Sessions : HasRow(v) => HasRow(v)'
    BY <1>3, SessionStep
  <2>2. UNCHANGED <<environment, did, browser>>
    BY <1>3 DEF MakeSession, StoreSession
  <2> QED  BY <2>1, <2>2, ServerOnly DEF Kept, Approved
<1>4. ASSUME NEW s \in Sessions, CreateFails(s)
      PROVE  Server' /\ Browser'
  <2>1. /\ creating' = creating \ {s}
        /\ UNCHANGED <<environment, did, active, session, issued, hook, browser>>
    BY <1>4 DEF CreateFails
  <2>2. Server'
    BY <2>1, CreatingStep DEF Server, ServerTypes
  <2> QED  BY <2>1, <2>2, ServerOnly DEF Kept, HasRow, Approved
<1>5. ASSUME NEW h \in Hooks, Webhook(h)
      PROVE  Server' /\ Browser'
  <2>1. Server'
    BY <1>5, FindSessionStep, UpdateStep, DidAndIssuerStep, IssueStep, RecordStep DEF Webhook
  <2>2. UNCHANGED <<environment, did, browser>>
    BY <1>5 DEF Webhook, FindSession, UpdateStatus, FindDid, UpsertIssuer, Issue, IssueFails,
                RecordCredential
  <2>3. \A s \in Sessions : HasRow(s) => HasRow(s)'
    <3>1. CASE UNCHANGED session
      BY <3>1 DEF HasRow
    <3>2. CASE UpdateStatus(h)
      <4>1. /\ hook[h].sid \in Sessions /\ hook[h].status \in Verdicts
            /\ session' = [session EXCEPT ![hook[h].sid].status = hook[h].status]
        BY <3>2 DEF UpdateStatus, Server, HookOK
      <4> QED  BY <4>1 DEF HasRow, RowStatus, Server, ServerTypes, SessionRows
    <3>3. CASE RecordCredential(h)
      <4>1. /\ hook[h].sid \in Sessions
            /\ session' = [session EXCEPT ![hook[h].sid].cred = hook[h].cred]
        BY <3>3 DEF RecordCredential, Server, HookOK
      <4> QED  BY <4>1 DEF HasRow, Server, ServerTypes, SessionRows
    <3> QED  BY <1>5, <3>1, <3>2, <3>3 DEF Webhook, FindSession, FindDid, UpsertIssuer, Issue,
                                          IssueFails
  <2> QED  BY <2>1, <2>2, <2>3, ServerOnly DEF Kept, Approved
<1>6. ASSUME NEW h \in Hooks, NEW sender \in {"veriff", "other"}, NEW s \in Sessions,
             NEW v \in Verdicts, Deliver(h, sender, s, v)
      PROVE  Server' /\ Browser'
  <2>1. Server' /\ \A u \in Sessions : Approved(u) > 0 => Approved(u)' > 0
    BY <1>6, DeliverStep
  <2>2. UNCHANGED <<configured, did, session, browser>>
    BY <1>6 DEF Deliver
  <2> QED  BY <2>1, <2>2, ServerOnly DEF Kept, HasRow
<1> QED  BY <1>1, <1>2, <1>3, <1>4, <1>5, <1>6

LEMMA NextStep ==
    ASSUME IInv, [Next]_vars
    PROVE  IInv'
<1>1. CASE Next
  BY <1>1, ServerSteps, StartStep, RunActions, FinishedStep, FormStep, PageActions, LeaveStep,
     TickStep, ReadStatusStep, AnsweredStep DEF IInv, Next
<1>2. CASE UNCHANGED vars
  BY <1>2, ServerStays, ServerOnly DEF IInv, vars, server, browser
<1> QED  BY <1>1, <1>2

LEMMA InitStep == Init => IInv
<1> SUFFICES ASSUME Init PROVE IInv
  OBVIOUS
<1>1. ServerTypes
  <2>1. 0 \in 0 .. MaxWebhooks
    BY IdentityAssumption
  <2>2. [status |-> "none", cred |-> 0] \in SessionRows
    BY <2>1 DEF SessionRows
  <2> QED  BY <2>1, <2>2, FreeTyped DEF Init, ServerTypes
<1>2. \A h \in Hooks : HookOK(h)
  BY DEF Init, HookOK, FreeHook
<1>3. \A s \in Sessions : Due(s) = {}
  BY DEF Init, Due, FreeHook
<1>4. \A s \in Sessions : CountOK(s) /\ RowOK(s) /\ SenderOK(s)
  <2>1. \A s \in Sessions : Approved(s) = 0 /\ issued[s] = 0 /\ delivered = 0 /\ foreign[s] = 0
    BY DEF Init, Approved
  <2> QED  BY <1>3, <2>1, FS_EmptySet DEF Init, CountOK, RowOK, SenderOK
<1>5. BrowserTypes
  BY DEF Init, BrowserTypes, NewPage, Pages, FreePoll, Requests
<1>6. PageOK
  BY DEF Init, NewPage, PageOK, RunOK, Done
<1>7. \A q \in Polls : PollOK(q)
  BY IdentityAssumption DEF Init, FreePoll, PollOK
<1> QED  BY <1>1, <1>2, <1>4, <1>5, <1>6, <1>7 DEF IInv, Server, Browser

\* The invariant that the others rest on holds in every reachable state.
THEOREM Inductive == Spec => []IInv
  BY InitStep, NextStep, PTL DEF Spec

\* Sessions, handlers, page and requests hold values of their types.
THEOREM TypeCorrect == Spec => []TypeOK
<1>1. IInv => TypeOK
  BY TypesSplit DEF IInv, Server, Browser
<1> QED  BY Inductive, <1>1, PTL

\* No session gets more credentials than approvals of it were taken, by Veriff where a
\* secret is set and by anybody where none is, however many webhooks overlap, whatever the
\* verdicts and wherever the server restarts.
THEOREM CredentialsAreApproved == Spec => []ApprovedBeforeIssued
<1>1. IInv => ApprovedBeforeIssued
  <2> SUFFICES ASSUME IInv, NEW s \in Sessions
               PROVE  /\ issued[s] <= approvals[s] + foreign[s] /\ session[s].cred <= issued[s]
                      /\ signed => issued[s] <= approvals[s]
    BY DEF ApprovedBeforeIssued
  <2>1. /\ Cardinality(Due(s)) \in Nat /\ issued[s] \in Nat
        /\ approvals[s] \in Nat /\ foreign[s] \in Nat
        /\ issued[s] + Cardinality(Due(s)) <= approvals[s] + foreign[s]
        /\ signed => foreign[s] = 0
    BY DueFinite DEF IInv, Server, ServerTypes, CountOK, SenderOK, Approved
  <2>2. /\ issued[s] <= approvals[s] + foreign[s]
        /\ signed => issued[s] <= approvals[s]
    BY <2>1
  <2> QED  BY <2>2 DEF IInv, Server, RowOK
<1> QED  BY Inductive, <1>1, PTL

\* The page reports a verified identity only after an approval of a session that was
\* finished on it, Veriff's where a secret is set, and a credential issued by the form only
\* to a user with a DID.
THEOREM ShownApproval == Spec => []ApprovalWasGiven
<1>1. IInv => ApprovalWasGiven
  <2> SUFFICES ASSUME IInv PROVE ApprovalWasGiven
    OBVIOUS
  <2>1. ASSUME page.status = "approved"
        PROVE  \E s \in Sessions : /\ page.run[s] \in {"polling", "over"}
                                   /\ approvals[s] + foreign[s] > 0
                                   /\ signed => approvals[s] > 0
    <3>1. PICK s \in Sessions : Done(s) /\ Approved(s) > 0
      BY <2>1 DEF IInv, Browser, PageOK
    <3>2. /\ approvals[s] \in Nat /\ foreign[s] \in Nat /\ (signed => foreign[s] = 0)
          /\ approvals[s] + foreign[s] > 0 /\ page.run[s] \in {"polling", "over"}
      BY <3>1 DEF IInv, Server, ServerTypes, SenderOK, Approved, Done
    <3>3. signed => approvals[s] > 0
      BY <3>2
    <3> QED  BY <3>2, <3>3
  <2>2. page.status = "issued" => did
    BY DEF IInv, Browser, PageOK
  <2> QED  BY <2>1, <2>2 DEF ApprovalWasGiven
<1> QED  BY Inductive, <1>1, PTL

\* A page that says the verification is processed polls a session with a row, by an
\* interval that pollRef holds, for any number of overlapping runs of handleStart.
THEOREM Polled == Spec => []WaitingIsPolled
<1>1. IInv => WaitingIsPolled
  <2> SUFFICES ASSUME IInv, page.status = "submitted"
               PROVE  page.ref # None /\ page.run[page.ref] = "polling" /\ HasRow(page.ref)
    BY DEF WaitingIsPolled
  <2>1. page.ref # None /\ page.ref \in Sessions /\ page.run[page.ref] = "polling"
    BY DEF IInv, Browser, BrowserTypes, PageOK, Pages
  <2> QED  BY <2>1 DEF IInv, Browser, PageOK, RunOK
<1> QED  BY Inductive, <1>1, PTL

================================================================================
