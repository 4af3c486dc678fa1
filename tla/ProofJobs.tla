------------------------------- MODULE ProofJobs -------------------------------
(***************************************************************************)
(* The proof generation worker: jobs of the queue `proof-generation' are   *)
(* tried up to MaxAttempts times, several at once, with a working          *)
(* directory per attempt and one target directory per circuit, which the   *)
(* first job of the circuit fills.  Whoever adds the jobs, and the PENDING *)
(* rows they are for, is external: the repository's code does not.  What a *)
(* browser asks for itself is a row that is COMPLETED from the start.  It  *)
(* follows both in the list of proofs and on pages of their own, with a    *)
(* cache of what it was answered last.                                     *)
(***************************************************************************)
EXTENDS Naturals, FiniteSets

CONSTANTS
    Jobs,          \* proofs that others may have queued, one job each
    Circuits,      \* the circuits that jobs name, out of KNOWN_CIRCUITS
    Mine,          \* the job of the proof that belongs to the browser's user
    New,           \* the proof that the browser asks for: it has no job
    Concurrency,   \* jobs that the worker runs at once
    MaxAttempts,   \* attempts of a job
    MaxStalled,    \* restarts a job survives while it runs (BullMQ's default is 1)
    MaxCrashes,    \* bound: restarts
    MaxWatched,    \* bound: queued jobs while a browser is open
    None

KNOWN_CIRCUITS == {"age-proof", "residency-proof", "accredited-investor", "sanctions-check"}

ASSUME ProofJobsAssumption ==
    /\ IsFiniteSet(Jobs) /\ Circuits \subseteq KNOWN_CIRCUITS
    /\ Mine \in Jobs /\ Jobs \cap Circuits = {} /\ New \notin Jobs \cup Circuits
    /\ None \notin Jobs \cup Circuits \cup {New}
    /\ Mine \notin {"closed", "form", "posting", "result", "list"}
    /\ Concurrency \in Nat \ {0} /\ MaxAttempts \in Nat \ {0}
    /\ MaxStalled \in Nat /\ MaxCrashes \in Nat /\ MaxWatched \in Nat

VARIABLES
    job,      \* the queue's jobs and how far the worker is with each
    row,      \* the rows of `zk_proofs'
    target,   \* target[c]: the target directory of circuit c
    work,     \* working directories: whose input each holds
    page,     \* the browser: the view it shows, and its cache
    crashes   \* how often the server was restarted

vars == <<job, row, target, work, page, crashes>>

-------------------------------------------------------------------------------
\* A job that nobody has added is at "none", one that was is at "wait" until a worker
\* takes it; the rest is the progress of an attempt.
Active == {"begin", "compile", "compiling", "setup", "contributing",
           "input", "prove", "store", "fail", "ack"}

\* The claims that a circuit's input is built of.
Fields(circuit) ==
    CASE circuit = "age-proof" -> {"age"}
      [] circuit = "residency-proof" -> {"country"}
      [] circuit = "accredited-investor" -> {"accredited", "age"}
      [] OTHER -> {}

\* `claims' are those the job has with the type and range that buildInput requires; a
\* circuit of None is not a known one.
JobStates == [pc : {"none", "wait", "completed", "failed"} \cup Active,
              circuit : Circuits \cup {None}, claims : SUBSET {"age", "country", "accredited"},
              attempts : 0 .. MaxAttempts, stalled : 0 .. MaxStalled, made : Jobs \cup {None}]

Statuses == {"PENDING", "GENERATING", "COMPLETED", "FAILED"}

Proofs == Jobs \cup {New}

\* `proof' is the proof whose claims the stored artifact is made of.
RowStates == [status : Statuses \cup {"absent"}, proof : Proofs \cup {None}]

\* Files that are absent, being written (and exist), or whole.
File == {"absent", "partial", "whole"}

Dirs == Jobs \cup Circuits

\* The proofs of the browser's user.
Own == {Mine, New}

\* `view' is the page of the queued proof, the form that asks for one, the result that it
\* turns into, or the list; `posting' is the form with its request under way, and `post' says whether
\* there is one, also when the form was left.  `one' caches the last answer about a proof,
\* `list' that about all; `stale' has the list ask when it is shown, as it does at first.
Pages == [view : {"closed", "form", "posting", "result", "list", Mine}, post : BOOLEAN,
          one : [Own -> Statuses \cup {None, "error"}],
          list : [Own -> Statuses \cup {"absent"}], stale : BOOLEAN]

C(j) == job[j].circuit

Init ==
    /\ job \in [Jobs -> {[pc |-> pc, circuit |-> c, claims |-> f, attempts |-> 0,
                          stalled |-> 0, made |-> None] :
                           pc \in {"none", "wait"}, c \in Circuits \cup {None}, f \in SUBSET UNION {Fields(c) : c \in Circuits}}]
    /\ \A j \in Jobs : C(j) = None => job[j].claims = {}
    /\ row = [p \in Proofs |->
                [status |-> IF p = New \/ job[p].pc = "none" THEN "absent" ELSE "PENDING",
                 proof |-> None]]
    /\ target = [c \in Circuits |-> [compiled |-> "absent", zkey |-> "absent"]]
    /\ work = [d \in Dirs |-> None]
    /\ page = [view |-> "closed", post |-> FALSE, one |-> [p \in Own |-> None],
                list |-> [p \in Own |-> "absent"], stale |-> TRUE]
    /\ crashes = 0

At(j, pc) == job[j].pc = pc
Goto(j, pc) == job' = [job EXCEPT ![j].pc = pc]
Write(j, file, state) == target' = [target EXCEPT ![C(j)][file] = state]

\* Mutated form: jobs of a circuit share a directory.
SharedDir(j) == job[j].circuit

\* mkdtemp.
WorkDir(j) == j

\* Mutated form: one more attempt than the queue's option says.
EndsLate(j) ==
    job' = IF job[j].attempts + 1 <= MaxAttempts
             THEN [job EXCEPT ![j].pc = "wait", ![j].attempts = @ + 1, ![j].made = None]
             ELSE [job EXCEPT ![j].pc = "failed", ![j].attempts = @ + 1, ![j].made = None]

\* Mutated form: a job is tried until it succeeds.
EndsForever(j) ==
    job' = [job EXCEPT ![j].pc = "wait", ![j].made = None]

\* The queue's reaction to an error: another attempt, if the job has one left.
Ends(j) ==
    job' = IF job[j].attempts + 1 < MaxAttempts
             THEN [job EXCEPT ![j].pc = "wait", ![j].attempts = @ + 1, ![j].made = None]
             ELSE [job EXCEPT ![j].pc = "failed", ![j].attempts = @ + 1, ![j].made = None]

-------------------------------------------------------------------------------
\* A free worker takes the job.
Take(j) ==
    /\ At(j, "wait")
    /\ Cardinality({i \in Jobs : job[i].pc \in Active}) < Concurrency
    /\ Goto(j, "begin")
    /\ UNCHANGED <<row, target, work, page, crashes>>

SetStatus(j, status) == row' = [row EXCEPT ![j].status = status]

\* failProof: its update may fail too, which leaves the status as it was.
FailRow(j) == SetStatus(j, "FAILED") \/ UNCHANGED row

\* An unknown circuit fails the proof outside the try block.
Begin(j) ==
    /\ At(j, "begin")
    /\ IF C(j) = None
         THEN FailRow(j) /\ Ends(j)
         ELSE SetStatus(j, "GENERATING") /\ Goto(j, "compile")
    /\ UNCHANGED <<target, work, page, crashes>>

\* Files that exist are taken for whole ones.
Compile(j) ==
    /\ At(j, "compile")
    /\ Goto(j, IF target[C(j)].compiled = "absent" THEN "compiling" ELSE "setup")
    /\ UNCHANGED <<row, target, work, page, crashes>>

Compiled(j) ==
    /\ At(j, "compiling")
    /\ Write(j, "compiled", "whole")
    /\ Goto(j, "setup")
    /\ UNCHANGED <<row, work, page, crashes>>

\* groth16 setup reads what was compiled.
Setup(j) ==
    /\ At(j, "setup")
    /\ Goto(j, IF target[C(j)].zkey # "absent" THEN "input"
               ELSE IF target[C(j)].compiled = "whole" THEN "contributing" ELSE "fail")
    /\ UNCHANGED <<row, target, work, page, crashes>>

\* zkey contribute has written the key.  The verification key that is exported next is
\* for the deployment: the worker does not read it.
Contributed(j) ==
    /\ At(j, "contributing")
    /\ Write(j, "zkey", "whole")
    /\ Goto(j, "input")
    /\ UNCHANGED <<row, work, page, crashes>>

\* A command that writes a file truncates it first, whoever else has written it since
\* this job looked.
Truncate(j) ==
    /\ job[j].pc \in {"compiling", "contributing"}
    /\ Write(j, IF At(j, "compiling") THEN "compiled" ELSE "zkey", "partial")
    /\ target' # target
    /\ UNCHANGED <<job, row, work, page, crashes>>

\* buildInput throws on claims that do not fit.
WriteInput(j) ==
    /\ At(j, "input")
    /\ IF Fields(C(j)) \subseteq job[j].claims
         THEN work' = [work EXCEPT ![WorkDir(j)] = j] /\ Goto(j, "prove")
         ELSE Goto(j, "fail") /\ UNCHANGED work
    /\ UNCHANGED <<row, target, page, crashes>>

\* Witness and proof, out of what the working directory holds.
Prove(j) ==
    /\ At(j, "prove")
    /\ IF target[C(j)].compiled = "whole" /\ target[C(j)].zkey = "whole"
            /\ work[WorkDir(j)] # None
         THEN job' = [job EXCEPT ![j].pc = "store", ![j].made = work[WorkDir(j)]]
         ELSE Goto(j, "fail")
    /\ UNCHANGED <<row, target, work, page, crashes>>

\* The row is COMPLETED before the working directory is removed and the queue told.
Store(j) ==
    /\ At(j, "store")
    /\ row' = [row EXCEPT ![j] = [status |-> "COMPLETED", proof |-> job[j].made]]
    /\ work' = [work EXCEPT ![WorkDir(j)] = None]
    /\ Goto(j, "ack")
    /\ UNCHANGED <<target, page, crashes>>

\* The finally block; an error of it fails the attempt of a proof that is stored.
Acknowledge(j) ==
    /\ At(j, "ack")
    /\ Goto(j, "completed") \/ Ends(j)
    /\ UNCHANGED <<row, target, work, page, crashes>>

\* A command, the file system or the database fails.
StepFails(j) ==
    /\ job[j].pc \in Active \ {"fail", "ack"} /\ C(j) # None
    /\ Goto(j, "fail")
    /\ UNCHANGED <<row, target, work, page, crashes>>

\* Mutated form: the error is swallowed, and the queue takes the job for completed.
SwallowError(j) ==
    /\ At(j, "fail")
    /\ FailRow(j)
    /\ work' = [work EXCEPT ![WorkDir(j)] = None]
    /\ Goto(j, "completed")
    /\ UNCHANGED <<target, page, crashes>>

\* The catch and finally blocks.
FailProof(j) ==
    /\ At(j, "fail")
    /\ FailRow(j)
    /\ work' = [work EXCEPT ![WorkDir(j)] = None]
    /\ Ends(j)
    /\ UNCHANGED <<target, page, crashes>>

\* The queue finds the jobs of a dead worker stalled: it has them run again, or fails
\* one that stalled too often without asking the worker.
Restart ==
    /\ crashes < MaxCrashes
    /\ crashes' = crashes + 1
    /\ job' = [j \in Jobs |->
                 IF job[j].pc \notin Active THEN job[j]
                 ELSE IF job[j].stalled = MaxStalled THEN [job[j] EXCEPT !.pc = "failed"]
                 ELSE [job[j] EXCEPT !.pc = "wait", !.stalled = @ + 1, !.made = None]]
    /\ UNCHANGED <<row, target, work, page>>

-------------------------------------------------------------------------------
Queued(j) == ~At(j, "none")

\* The form's button, disabled while a submission is pending.  Bound: the user asks once.
Submit ==
    /\ page.view = "form" /\ ~page.post /\ row[New].status = "absent"
    /\ page' = [page EXCEPT !.view = "posting", !.post = TRUE]
    /\ UNCHANGED <<job, row, target, work, crashes>>

\* generateProof: the row of a proof that needs no job.
Insert == row' = [row EXCEPT ![New] = [status |-> "COMPLETED", proof |-> New]]

\* The form, if the user has not left it, turns into the result; the list is invalidated.
Posted ==
    /\ page.post
    /\ Insert
    /\ page' = [page EXCEPT !.view = IF @ = "posting" THEN "result" ELSE @,
                            !.post = FALSE, !.stale = TRUE]
    /\ UNCHANGED <<job, target, work, crashes>>

\* The request is refused, or it or its answer is lost: the form again, with an error.
PostLost ==
    /\ page.post
    /\ Insert \/ UNCHANGED row
    /\ page' = [page EXCEPT !.view = IF @ = "posting" THEN "form" ELSE @, !.post = FALSE]
    /\ UNCHANGED <<job, target, work, crashes>>

\* Links and addresses.  A view that is left stops its timer; its cache stays, but the
\* result cannot be come back to.  Bound: of New, no other page than the result is visited.
Visit(view) ==
    /\ page.view # view
    /\ page.view = "closed" => Cardinality({j \in Jobs : Queued(j)}) <= MaxWatched
    /\ page' = [page EXCEPT !.view = view, !.one[New] = None]
    /\ UNCHANGED <<job, row, target, work, crashes>>

\* Mutated form: only a queued proof is polled for.
UnfinishedPending(status) == status = "PENDING"

\* What has a query asked again after two seconds.
Unfinished(status) == status \in {"PENDING", "GENERATING"}

\* The proof that a view is about: the result's is the one that was asked for.
Viewed == IF page.view = "result" THEN New ELSE page.view

\* A view asks when it has no answer; the result goes on while it is not final.
AsksProof ==
    /\ Viewed \in Own
    /\ page.one[Viewed] = None \/ (page.view = "result" /\ Unfinished(page.one[New]))

GetProof ==
    page' = [page EXCEPT !.one[Viewed] =
               IF row[Viewed].status = "absent" THEN "error" ELSE row[Viewed].status]

ProofAnswered ==
    /\ AsksProof /\ GetProof
    /\ UNCHANGED <<job, row, target, work, crashes>>

\* Without an earlier answer the view shows the error, and has no interval to ask again;
\* an earlier answer is kept, which is a stutter.
ProofFails ==
    /\ AsksProof /\ page.one[Viewed] = None
    /\ page' = [page EXCEPT !.one[Viewed] = "error"]
    /\ UNCHANGED <<job, row, target, work, crashes>>

AsksList ==
    /\ page.view = "list"
    /\ page.stale \/ \E p \in Own : Unfinished(page.list[p])

GetList ==
    page' = [page EXCEPT !.list = [p \in Own |-> row[p].status], !.stale = FALSE]

ListAnswered ==
    /\ AsksList /\ GetList
    /\ UNCHANGED <<job, row, target, work, crashes>>

\* safeGet turns an error into an empty list, in which nothing is unfinished.
ListFails ==
    /\ AsksList
    /\ page' = [page EXCEPT !.list = [p \in Own |-> "absent"], !.stale = FALSE]
    /\ UNCHANGED <<job, row, target, work, crashes>>

\* The list's button; and any view that is mounted or focused asks again when its
\* answer is older than a minute.
AskAgain ==
    /\ \/ Viewed \in Own /\ GetProof
       \/ page.view = "list" /\ GetList
    /\ UNCHANGED <<job, row, target, work, crashes>>

Browse ==
    \/ Submit \/ Posted \/ PostLost \/ ProofAnswered \/ ProofFails
    \/ ListAnswered \/ ListFails \/ AskAgain
    \/ \E view \in {"form", "list", Mine} : Visit(view)

Progress(j) ==
    \/ Take(j) \/ Begin(j) \/ Compile(j) \/ Compiled(j) \/ Setup(j) \/ Contributed(j)
    \/ Truncate(j) \/ WriteInput(j) \/ Prove(j) \/ Store(j) \/ Acknowledge(j)
    \/ StepFails(j) \/ FailProof(j)

Next == Restart \/ Browse \/ \E j \in Jobs : Progress(j)

\* Every step of an attempt is a promise that settles, and the timers of a view run.
Fairness ==
    /\ \A j \in Jobs : WF_vars(Progress(j))
    /\ WF_vars(Posted \/ PostLost) /\ WF_vars(ProofAnswered) /\ WF_vars(ListAnswered)

Spec == Init /\ [][Next]_vars /\ Fairness

-------------------------------------------------------------------------------
\* Type invariant.
TypeOK ==
    /\ job \in [Jobs -> JobStates]
    /\ row \in [Proofs -> RowStates]
    /\ target \in [Circuits -> [compiled : File, zkey : File]]
    /\ work \in [Dirs -> Jobs \cup {None}]
    /\ page \in Pages
    /\ crashes \in 0 .. MaxCrashes

\* Jobs that run at once, retries and restarts never mix up proofs: a COMPLETED row
\* has an artifact, and it proves the claims of its own proof (proof-queue.worker.ts:78,
\* the isolated working directory).
OwnProof == \A p \in Proofs : row[p].status = "COMPLETED" => row[p].proof = p

\* The queue takes a job for completed only when its row is, whatever failed or was
\* restarted on the way (proof-queue.worker.ts process: the row first, then the queue;
\* an error is rethrown).
CompletedInTheRow == \A j \in Jobs : At(j, "completed") => row[j].status = "COMPLETED"

\* Every job that was queued ends, completed or failed, within its attempts
\* (proof.module.ts).
JobsEnd == \A j \in Jobs : [](~Queued(j)) \/ <>(job[j].pc \in {"completed", "failed"})

Final == {"COMPLETED", "FAILED"}

\* What the list says of the queued proof, under the tab of its status.
ProofList == page.list[Mine]

\* A list that stays open does not stay at PENDING or GENERATING when the queued proof has
\* ended for good, unless the last thing it was told is an error, or it was told before
\* there was such a proof (use-proofs.ts: it polls while a proof is unfinished).  It may
\* have stopped at the end of an earlier attempt; when none failed, it shows the row's.
PageSeesTheEnd ==
    <>[](row[Mine].status \in Final /\ page.view = "list" /\ ProofList # "absent")
      => <>[](/\ ProofList \in Final
              /\ job[Mine].attempts = 0 => ProofList = row[Mine].status)
===============================================================================
