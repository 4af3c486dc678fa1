-------------------------------- MODULE Identity --------------------------------
(***************************************************************************)
(* Identity checks by Veriff for one user: the sessions and webhooks of    *)
(* veriff.service, the issuance of a credential on approval, and the pages *)
(* /kyc/start and /kyc/form: for Veriff a page that starts sessions and    *)
(* polls their status, for every other provider a form whose claims are    *)
(* issued as they are, without any check.                                  *)
(*                                                                         *)
(* Veriff may deliver any verdict on a session that it made, more than     *)
(* once and in any order; where no secret is configured, so may anybody,   *)
(* on any session.  selfIssue and issueCredential are one step each here:  *)
(* module Credentials has them in detail.                                  *)
(***************************************************************************)
EXTENDS Naturals, FiniteSets

CONSTANTS
    Sessions,      \* pool of Veriff sessions
    Hooks,         \* webhooks that are handled at one time
    Polls,         \* status requests of the page in flight at one time
    MaxWebhooks,   \* bound: webhooks that are delivered
    None

ASSUME IdentityAssumption ==
    /\ None \notin Sessions \cup {"open", "approved", "declined"}
    /\ MaxWebhooks \in Nat /\ IsFiniteSet(Hooks)

VARIABLES
    configured,  \* VERIFF_API_KEY is set
    signed,      \* VERIFF_API_SECRET is set
    did,         \* the user has a DID
    active,      \* the platform's issuer has a row and is active
    session,     \* the sessions: at Veriff, and the row `veriff_sessions'
    creating,    \* sessions whose createSession request is in progress
    issued,      \* issued[s]: how many credentials were issued for session s
    hook,        \* webhook handlers
    page,        \* the page in the browser
    poll,        \* its status requests
    approvals,   \* history: approvals[s], the approvals of s by Veriff that were taken
    foreign,     \* history: foreign[s], the approvals of s by anybody else that were taken
    delivered    \* how many webhooks were delivered, for the bound

vars == <<configured, signed, did, active, session, creating, issued, hook, page, poll,
          approvals, foreign, delivered>>

-------------------------------------------------------------------------------
\* "open" stands for `created' and the other statuses that the page goes on polling on,
\* "declined" for the four that it shows as not approved.
Verdicts == {"open", "approved", "declined"}
RowStatus == Verdicts

\* "none": there is no such session; "made": Veriff has it and the server has no row.
SessionRows == [status : {"none", "made"} \cup RowStatus, cred : 0 .. MaxWebhooks]

Handlers == [pc : {"free", "find", "update", "did", "issuer", "issue", "record"},
             sid : Sessions \cup {None}, status : Verdicts \cup {None}, cred : 0 .. MaxWebhooks]

FreeHook == [pc |-> "free", sid |-> None, status |-> None, cred |-> 0]

\* run[s]: how far the click on Start is that got, or will get, session s: its request is
\* on the way, Veriff's script is loaded, the frame is open; "polling": the frame has
\* finished and an interval polls s; "over": that interval was cleared.  `ref' is the one
\* interval that pollRef holds.
Pages == [status : {"choosing", "manual", "posting", "issued", "idle",
                    "loading", "started", "submitted", "approved", "declined", "error"},
          run : [Sessions -> {"none", "post", "load", "frame", "polling", "over"}],
          ref : Sessions \cup {None}]

NewPage == [status |-> "choosing", run |-> [s \in Sessions |-> "none"], ref |-> None]

\* What /kyc/form shows and offers in a state of the page.
SaysVerified == page.status = "approved"
SaysDeclined == page.status = "declined"
SaysProcessing == page.status = "submitted"
OffersStart == page.status \in {"idle", "error"}
SaysIssued == page.status = "issued"
OffersForm == page.status = "manual"

Requests == [sid : Sessions \cup {None}, seen : RowStatus \cup {None}]
FreePoll == [sid |-> None, seen |-> None]

Init ==
    /\ configured \in BOOLEAN /\ signed \in BOOLEAN
    /\ did = FALSE
    /\ active = FALSE
    /\ session = [s \in Sessions |-> [status |-> "none", cred |-> 0]]
    /\ creating = {}
    /\ issued = [s \in Sessions |-> 0]
    /\ hook = [h \in Hooks |-> FreeHook]
    /\ page = NewPage
    /\ poll = [q \in Polls |-> FreePoll]
    /\ approvals = [s \in Sessions |-> 0]
    /\ foreign = [s \in Sessions |-> 0]
    /\ delivered = 0

HasRow(s) == session[s].status \in RowStatus

environment == <<configured, signed, approvals, foreign, delivered>>
server == <<environment, did, active, session, creating, issued, hook>>
browser == <<page, poll>>

-------------------------------------------------------------------------------
(* Elsewhere: POST /did, PATCH /issuers/:id/deactivate, a restart.         *)

CreateDid ==
    /\ ~did /\ did' = TRUE
    /\ UNCHANGED <<environment, active, session, creating, issued, hook, browser>>

Deactivate ==
    /\ active /\ active' = FALSE
    /\ UNCHANGED <<environment, did, session, creating, issued, hook, browser>>

Restart ==
    /\ creating' = {}
    /\ hook' = [h \in Hooks |-> FreeHook]
    /\ UNCHANGED <<environment, did, active, session, issued, browser>>

-------------------------------------------------------------------------------
(* POST /credentials/issue, as the form does.                              *)

\* Gets or creates the DID, makes the platform's issuer active and issues the claims.
\* When the answer is lost the form shows an error, and may be sent again.
SelfIssue ==
    /\ page.status = "posting"
    /\ did' = TRUE /\ active' = TRUE
    /\ \E answer \in {"issued", "manual"} : page' = [page EXCEPT !.status = answer]
    /\ UNCHANGED <<environment, session, creating, issued, hook, poll>>

\* Mutated form: the page reports success whatever the answer.
SelfIssueFailsUnread ==
    /\ page.status = "posting"
    /\ did' \in {did, TRUE} /\ active' \in {active, active \/ did'}
    /\ page' = [page EXCEPT !.status = "issued"]
    /\ UNCHANGED <<environment, session, creating, issued, hook, poll>>

\* Claims that the server refuses, or a step that fails: those before it are done.
SelfIssueFails ==
    /\ page.status = "posting"
    /\ did' \in {did, TRUE} /\ active' \in {active, active \/ did'}
    /\ page' = [page EXCEPT !.status = "manual"]
    /\ UNCHANGED <<environment, session, creating, issued, hook, poll>>

-------------------------------------------------------------------------------
(* POST /veriff/session.                                                   *)

\* Without an API key the session is a mock one, and approved from the start.  What the
\* page does meanwhile makes no difference.
MakeSession(s) ==
    /\ s \in creating /\ session[s].status = "none"
    /\ IF configured
         THEN /\ session' = [session EXCEPT ![s].status = "made"]
              /\ UNCHANGED creating
         ELSE /\ session' = [session EXCEPT ![s].status = "approved"]
              /\ creating' = creating \ {s}
    /\ UNCHANGED <<environment, did, active, issued, hook, browser>>

StoreSession(s) ==
    /\ s \in creating /\ session[s].status = "made"
    /\ session' = [session EXCEPT ![s].status = "open"]
    /\ creating' = creating \ {s}
    /\ UNCHANGED <<environment, did, active, issued, hook, browser>>

\* The request or the call of Veriff is lost or refused, or the row cannot be stored.
CreateFails(s) ==
    /\ s \in creating
    /\ creating' = creating \ {s}
    /\ UNCHANGED <<environment, did, active, session, issued, hook, browser>>

-------------------------------------------------------------------------------
(* POST /veriff/webhook, a public route.                                   *)

\* Mutated form: the signature is not compared.
TakenUnsigned(sender) == TRUE

\* Only Veriff knows the secret; without one every webhook is taken.
Taken(sender) == signed => sender = "veriff"

\* Veriff sends verdicts on the sessions it made; mock sessions are none of these.
Deliver(h, sender, s, status) ==
    /\ Taken(sender)
    /\ sender = "veriff" => configured /\ session[s].status # "none"
    /\ hook[h].pc = "free"
    /\ delivered < MaxWebhooks /\ delivered' = delivered + 1
    /\ hook' = [hook EXCEPT ![h] = [pc |-> "find", sid |-> s, status |-> status, cred |-> 0]]
    /\ IF status = "approved"
         THEN IF sender = "veriff"
                THEN approvals' = [approvals EXCEPT ![s] = @ + 1] /\ UNCHANGED foreign
                ELSE foreign' = [foreign EXCEPT ![s] = @ + 1] /\ UNCHANGED approvals
         ELSE UNCHANGED <<approvals, foreign>>
    /\ UNCHANGED <<configured, signed, did, active, session, creating, issued, browser>>

Goto(h, pc) == hook' = [hook EXCEPT ![h].pc = pc]
Finish(h) == hook' = [hook EXCEPT ![h] = FreeHook]

\* A session without a row is unknown and the webhook ignored.
FindSession(h) ==
    /\ hook[h].pc = "find"
    /\ IF HasRow(hook[h].sid) THEN Goto(h, "update") ELSE Finish(h)
    /\ UNCHANGED <<environment, did, active, session, creating, issued, browser>>

\* Mutated form: every verdict goes on to the issuance.
UpdateAnyStatus(h) ==
    /\ hook[h].pc = "update"
    /\ session' = [session EXCEPT ![hook[h].sid].status = hook[h].status]
    /\ Goto(h, "did")
    /\ UNCHANGED <<environment, did, active, creating, issued, browser>>

\* The row takes the status of the webhook, whatever a later one has set before.
UpdateStatus(h) ==
    /\ hook[h].pc = "update"
    /\ session' = [session EXCEPT ![hook[h].sid].status = hook[h].status]
    /\ IF hook[h].status = "approved" THEN Goto(h, "did") ELSE Finish(h)
    /\ UNCHANGED <<environment, did, active, creating, issued, browser>>

\* Without a DID nothing is issued, now or later.
FindDid(h) ==
    /\ hook[h].pc = "did"
    /\ IF did THEN Goto(h, "issuer") ELSE Finish(h)
    /\ UNCHANGED <<environment, did, active, session, creating, issued, browser>>

\* The platform's issuer is made active, also when an administrator deactivated it.
UpsertIssuer(h) ==
    /\ hook[h].pc = "issuer"
    /\ active' = TRUE
    /\ Goto(h, "issue")
    /\ UNCHANGED <<environment, did, session, creating, issued, browser>>

\* Mutated form: the issuance is tried again although it succeeded.
IssueAgain(h) ==
    /\ hook[h].pc = "issue" /\ active
    /\ issued' = [issued EXCEPT ![hook[h].sid] = @ + 1]
    /\ UNCHANGED <<environment, did, active, session, creating, hook, browser>>

Issue(h) ==
    /\ hook[h].pc = "issue" /\ active
    /\ issued' = [issued EXCEPT ![hook[h].sid] = @ + 1]
    /\ hook' = [hook EXCEPT ![h].pc = "record", ![h].cred = issued[hook[h].sid] + 1]
    /\ UNCHANGED <<environment, did, active, session, creating, browser>>

\* The error is logged, and the webhook is answered as received all the same.
IssueFails(h) ==
    /\ hook[h].pc = "issue"
    /\ Finish(h)
    /\ UNCHANGED <<environment, did, active, session, creating, issued, browser>>

RecordCredential(h) ==
    /\ hook[h].pc = "record"
    /\ session' = [session EXCEPT ![hook[h].sid].cred = hook[h].cred]
    /\ Finish(h)
    /\ UNCHANGED <<environment, did, active, creating, issued, browser>>

Webhook(h) ==
    \/ FindSession(h) \/ UpdateStatus(h) \/ FindDid(h) \/ UpsertIssuer(h)
    \/ Issue(h) \/ IssueFails(h) \/ RecordCredential(h)

-------------------------------------------------------------------------------
(* The pages.                                                              *)

PROVIDERS == {"sumsub", "veriff", "persona"}

\* Only Veriff checks anything.
Flow(provider) == IF provider = "veriff" THEN "idle" ELSE "manual"

\* /kyc/start, and the flow of the provider that was chosen there.
Choose ==
    /\ page.status = "choosing"
    /\ \E provider \in PROVIDERS : page' = [page EXCEPT !.status = Flow(provider)]
    /\ UNCHANGED <<server, poll>>

Submit ==
    /\ OffersForm
    /\ page' = [page EXCEPT !.status = "posting"]
    /\ UNCHANGED <<server, poll>>

\* handleStart has the button disabled while the page is loading or started, and does
\* not ask for the status again: each run goes on to its frame or its error in whatever
\* status the page is by then.
Start(s) ==
    /\ OffersStart
    /\ page.run[s] = "none" /\ s \notin creating /\ session[s].status = "none"
    /\ page' = [page EXCEPT !.status = "loading", !.run[s] = "post"]
    /\ creating' = creating \cup {s}
    /\ UNCHANGED <<environment, did, active, session, issued, hook, poll>>

Created(s) ==
    /\ page.run[s] = "post" /\ HasRow(s)
    /\ page' = [page EXCEPT !.run[s] = "load"]
    /\ UNCHANGED <<server, poll>>

Started(s) ==
    /\ page.run[s] = "load"
    /\ page' = [page EXCEPT !.status = "started", !.run[s] = "frame"]
    /\ UNCHANGED <<server, poll>>

\* No answer, an error as the answer, or Veriff's script cannot be loaded.
StartFails(s) ==
    /\ page.run[s] \in {"post", "load"}
    /\ page' = [page EXCEPT !.status = "error", !.run[s] = "none"]
    /\ UNCHANGED <<server, poll>>

\* The frame's FINISHED event: a new interval, also when pollRef holds another, which
\* nothing can clear from then on.  The frame of a mock session shows Veriff's home page,
\* which sends no events.
Finished(s) ==
    /\ configured /\ page.run[s] = "frame"
    /\ page' = [page EXCEPT !.status = "submitted", !.run[s] = "polling", !.ref = s]
    /\ UNCHANGED <<server, poll>>

Canceled(s) ==
    /\ configured /\ page.run[s] = "frame"
    /\ page' = [page EXCEPT !.status = "idle", !.run[s] = "none"]
    /\ UNCHANGED <<server, poll>>

\* The interval fires whether or not an earlier request has been answered.
Tick(q, s) ==
    /\ page.run[s] = "polling" /\ poll[q] = FreePoll
    /\ poll' = [poll EXCEPT ![q].sid = s]
    /\ UNCHANGED <<server, page>>

ReadStatus(q) ==
    /\ poll[q].sid # None /\ poll[q].seen = None
    /\ poll' = [poll EXCEPT ![q].seen = session[poll[q].sid].status]
    /\ UNCHANGED <<server, page>>

\* The page in a status, with the interval of pollRef cleared.
StopPolling(status) ==
    [page EXCEPT !.status = status, !.ref = None,
                 !.run = [s \in Sessions |-> IF s = page.ref THEN "over" ELSE page.run[s]]]

\* Mutated form: the interval is cleared by any answer.
StopFirst(q) ==
    /\ poll[q].seen # None
    /\ poll' = [poll EXCEPT ![q] = FreePoll]
    /\ page' = StopPolling(IF poll[q].seen = "open" THEN page.status ELSE poll[q].seen)
    /\ UNCHANGED server

\* A verdict is shown in whatever status the page is by then, and clears the interval
\* that pollRef holds by then, be it that of another session.
Answered(q) ==
    /\ poll[q].seen # None
    /\ poll' = [poll EXCEPT ![q] = FreePoll]
    /\ page' = IF poll[q].seen = "open" THEN page ELSE StopPolling(poll[q].seen)
    /\ UNCHANGED server

\* Errors are ignored.
PollFails(q) ==
    /\ poll[q].sid # None
    /\ poll' = [poll EXCEPT ![q] = FreePoll]
    /\ UNCHANGED <<server, page>>

TryAgain ==
    /\ SaysDeclined
    /\ page' = [page EXCEPT !.status = "idle"]
    /\ UNCHANGED <<server, poll>>

\* The effect's cleanup clears the interval of pollRef; what others go on asking, and
\* what is answered later, meets no page.
Leave ==
    /\ page # NewPage
    /\ page' = NewPage
    /\ poll' = [q \in Polls |-> FreePoll]
    /\ UNCHANGED server

-------------------------------------------------------------------------------
Next ==
    \/ CreateDid \/ Deactivate \/ Restart \/ SelfIssue \/ SelfIssueFails
    \/ Choose \/ Submit \/ TryAgain \/ Leave
    \/ \E s \in Sessions :
          \/ MakeSession(s) \/ StoreSession(s) \/ CreateFails(s)
          \/ Start(s) \/ Created(s) \/ Started(s) \/ StartFails(s) \/ Finished(s) \/ Canceled(s)
    \/ \E h \in Hooks :
          \/ Webhook(h)
          \/ \E sender \in {"veriff", "other"}, s \in Sessions, v \in Verdicts :
                Deliver(h, sender, s, v)
    \/ \E q \in Polls :
          ReadStatus(q) \/ Answered(q) \/ PollFails(q) \/ \E s \in Sessions : Tick(q, s)

Spec == Init /\ [][Next]_vars

-------------------------------------------------------------------------------
\* Type invariant.
TypeOK ==
    /\ configured \in BOOLEAN /\ signed \in BOOLEAN /\ did \in BOOLEAN /\ active \in BOOLEAN
    /\ session \in [Sessions -> SessionRows]
    /\ creating \subseteq Sessions
    /\ issued \in [Sessions -> 0 .. MaxWebhooks]
    /\ hook \in [Hooks -> Handlers]
    /\ page \in Pages
    /\ poll \in [Polls -> Requests]
    /\ approvals \in [Sessions -> 0 .. MaxWebhooks]
    /\ foreign \in [Sessions -> 0 .. MaxWebhooks]
    /\ delivered \in 0 .. MaxWebhooks

\* Every credential has an approval of its own: with handlers that overlap, restarts
\* between their steps and verdicts that change, no session gets more credentials than
\* approvals of it were taken, and the row names one of them.  Where a secret is set these
\* are approvals by Veriff (veriff.service handleWebhook, issueCredentialFromVeriff).
ApprovedBeforeIssued ==
    \A s \in Sessions :
        /\ issued[s] <= approvals[s] + foreign[s] /\ session[s].cred <= issued[s]
        /\ signed => issued[s] <= approvals[s]

\* The page reports a verified identity only when a session whose frame the user finished
\* on it was approved, by Veriff where a secret is set, however late and about whichever
\* attempt the answer was, and whichever intervals go on asking (form/page.tsx
\* startPolling), and a credential issued to a DID only when there is one (form/page.tsx
\* ManualKYCForm).
ApprovalWasGiven ==
    /\ SaysVerified => \E s \in Sessions :
          /\ page.run[s] \in {"polling", "over"}
          /\ approvals[s] + foreign[s] > 0
          /\ signed => approvals[s] > 0
    /\ SaysIssued => did

\* A page that says the verification is processed has an interval that polls a session
\* with a row, and pollRef holds it: runs of handleStart that overlap, frames that finish
\* out of order and late answers about other attempts may take the page elsewhere, but
\* none leaves it waiting on nothing (form/page.tsx handleStart, startPolling, stopPolling).
WaitingIsPolled ==
    SaysProcessing => page.ref # None /\ page.run[page.ref] = "polling" /\ HasRow(page.ref)
===============================================================================
