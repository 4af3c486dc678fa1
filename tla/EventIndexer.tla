----------------------------- MODULE EventIndexer ------------------------------
(***************************************************************************)
(* SorobanEventIndexerService: a self-rearming timer that fetches a batch  *)
(* of ledgers from the RPC server, stores their events in                  *)
(* `soroban_events' one by one, and checkpoints in Redis.                  *)
(*                                                                         *)
(* A loop is one chain of timers and polls.  Nothing in the code keeps two *)
(* from running: startIndexing tests `running' before it awaits Redis and  *)
(* sets it after, and stopIndexing cancels one timer but no poll that is   *)
(* under way.                                                              *)
(*                                                                         *)
(* One request returns a page of at most PageLimit events.  The cursor of  *)
(* the next page is never followed, and the checkpoint does not look at    *)
(* how far the page went.                                                  *)
(***************************************************************************)
EXTENDS Integers, Sequences, FiniteSets

CONSTANTS
    Loops,      \* loops that may exist at the same time
    BatchSize,  \* BATCH_SIZE
    PageLimit,  \* the `limit' of a request
    Origin,     \* the fromLedger startIndexing is called with
    MaxLedger,  \* bound on the chain
    LedgerOf,   \* the chain's events in their order: LedgerOf[e] carries event e
    None        \* "no value": no checkpoint, no timer

ASSUME EventIndexerAssumption ==
    /\ BatchSize \in Nat \ {0}
    /\ PageLimit \in Nat \ {0}
    /\ Origin \in Nat \ {0}
    /\ MaxLedger \in Nat /\ Origin <= MaxLedger
    /\ LedgerOf \in Seq(Origin .. MaxLedger)
    /\ \A d, e \in 1 .. Len(LedgerOf) : d <= e => LedgerOf[d] <= LedgerOf[e]
    /\ None \notin Int \cup Loops

VARIABLES
    head,       \* the chain's latest ledger
    checkpoint, \* LAST_LEDGER_KEY in Redis
    rows,       \* events with a row in `soroban_events'
    tried,      \* events persistEvents has tried to store, the failures included
    running,    \* this.running
    timer,      \* this.timer: the loop that armed a timer last
    loop        \* loop[s]: where loop s is, with its local variables

vars == <<head, checkpoint, rows, tried, running, timer, loop>>

-------------------------------------------------------------------------------
Ledgers == Origin .. MaxLedger

Events == 1 .. Len(LedgerOf)

EventsIn(first, last) == {e \in Events : first <= LedgerOf[e] /\ LedgerOf[e] <= last}

PCs == {"none", "startGet", "timer", "fetch", "persist"}

\* from: fromLedger; batch: the events fetched and not yet stored; latest:
\* response.latestLedger.
LoopStates == [pc : PCs, from : Origin .. MaxLedger + 1,
               batch : SUBSET Events, latest : 0 .. MaxLedger]

NoLoop == [pc |-> "none", from |-> Origin, batch |-> {}, latest |-> 0]

Init ==
    /\ head = Origin
    /\ checkpoint = None
    /\ rows = {}
    /\ tried = {}
    /\ running = FALSE
    /\ timer = None
    /\ loop = [s \in Loops |-> NoLoop]

At(s, pc) == loop[s].pc = pc

\* Mutated form: the timer is armed whatever `running' says.
ScheduleAlways(s, from, isRunning) ==
    /\ loop' = [loop EXCEPT ![s] = [NoLoop EXCEPT !.pc = "timer", !.from = from]]
    /\ timer' = s

\* schedulePoll: arm the next timer unless the indexer was stopped.
Schedule(s, from, isRunning) ==
    IF isRunning
      THEN /\ loop' = [loop EXCEPT ![s] = [NoLoop EXCEPT !.pc = "timer", !.from = from]]
           /\ timer' = s
      ELSE /\ loop' = [loop EXCEPT ![s] = NoLoop]
           /\ UNCHANGED timer

-------------------------------------------------------------------------------
\* startIndexing.
Start(s) ==
    /\ At(s, "none")
    /\ ~running
    /\ loop' = [loop EXCEPT ![s].pc = "startGet"]
    /\ UNCHANGED <<head, checkpoint, rows, tried, running, timer>>

\* Mutated form: one ledger too far.
StartLedgerOffByOne == IF checkpoint = None THEN Origin ELSE checkpoint + 2

StartLedger == IF checkpoint = None THEN Origin ELSE checkpoint + 1

StartGet(s) ==
    /\ At(s, "startGet")
    /\ running' = TRUE
    /\ Schedule(s, StartLedger, TRUE)
    /\ UNCHANGED <<head, checkpoint, rows, tried>>

\* stopIndexing clears the timer armed last; the others, and polls under way,
\* are not touched.
Stop ==
    /\ running' = FALSE
    /\ timer' = None
    /\ loop' = [s \in Loops |-> IF s = timer /\ At(s, "timer") THEN NoLoop ELSE loop[s]]
    /\ UNCHANGED <<head, checkpoint, rows, tried>>

-------------------------------------------------------------------------------
\* poll.
Fire(s) ==
    /\ At(s, "timer")
    /\ loop' = [loop EXCEPT ![s].pc = "fetch"]
    /\ UNCHANGED <<head, checkpoint, rows, tried, running, timer>>

ToLedger(s) == loop[s].from + BatchSize - 1

\* The events from startLedger to endLedger that the chain has.
Wanted(s) == {e \in EventsIn(loop[s].from, ToLedger(s)) : LedgerOf[e] <= head}

\* Mutated form: one event of a full page is left out.
PageOffByOne(S) == {e \in S : Cardinality({d \in S : d <= e}) < PageLimit}

\* The first page of a set of events.
Page(S) == {e \in S : Cardinality({d \in S : d <= e}) <= PageLimit}

\* getEvents returns one page, and the chain's latest ledger.
Fetch(s) ==
    /\ At(s, "fetch")
    /\ loop[s].from <= head
    /\ loop' = [loop EXCEPT ![s].batch = Page(Wanted(s)), ![s].latest = head,
                            ![s].pc = "persist"]
    /\ UNCHANGED <<head, checkpoint, rows, tried, running, timer>>

\* Mutated form: an error ends the loop.
FetchFailsForGood(s) ==
    /\ At(s, "fetch")
    /\ loop' = [loop EXCEPT ![s] = NoLoop]
    /\ UNCHANGED <<head, checkpoint, rows, tried, running, timer>>

\* getEvents throws, as it does for a ledger the chain has not closed yet: the
\* same ledger is polled again.
FetchFails(s) ==
    /\ At(s, "fetch")
    /\ Schedule(s, loop[s].from, running)
    /\ UNCHANGED <<head, checkpoint, rows, tried, running>>

\* One sorobanEvent.create; an error is logged and the next event is next.
Persist(s) ==
    /\ At(s, "persist")
    /\ \E e \in loop[s].batch :
         /\ \A d \in loop[s].batch : e <= d
         /\ tried' = tried \cup {e}
         /\ \/ rows' = rows \cup {e}
            \/ UNCHANGED rows
         /\ loop' = [loop EXCEPT ![s].batch = @ \ {e}]
    /\ UNCHANGED <<head, checkpoint, running, timer>>

\* The checkpoint is latestLedger, wherever the batch and its page ended.
Checkpoint(s) ==
    /\ At(s, "persist")
    /\ loop[s].batch = {}
    /\ checkpoint' = loop[s].latest
    /\ Schedule(s, loop[s].latest + 1, running)
    /\ UNCHANGED <<head, rows, tried, running>>

\* Redis throws: as if nothing had been indexed.
CheckpointFails(s) ==
    /\ At(s, "persist")
    /\ loop[s].batch = {}
    /\ Schedule(s, loop[s].from, running)
    /\ UNCHANGED <<head, checkpoint, rows, tried, running>>

-------------------------------------------------------------------------------
\* The chain closes a ledger.
Close ==
    /\ head < MaxLedger
    /\ head' = head + 1
    /\ UNCHANGED <<checkpoint, rows, tried, running, timer, loop>>

\* The server stops at any point; Redis and Postgres keep what they have.
Crash ==
    /\ running' = FALSE
    /\ timer' = None
    /\ loop' = [s \in Loops |-> NoLoop]
    /\ UNCHANGED <<head, checkpoint, rows, tried>>

Poll(s) ==
    \/ Fire(s) \/ Fetch(s) \/ FetchFails(s) \/ Persist(s) \/ Checkpoint(s)
    \/ CheckpointFails(s)

Next ==
    \/ \E s \in Loops : Start(s) \/ StartGet(s) \/ Poll(s)
    \/ Stop \/ Close \/ Crash

Spec == Init /\ [][Next]_vars

(***************************************************************************)
(* Timers fire and promises settle.  The RPC server and Redis may fail any *)
(* number of times but not for ever: a call that is made again and again   *)
(* succeeds in the end.                                                    *)
(***************************************************************************)
FairSpec ==
    /\ Spec
    /\ \A s \in Loops : /\ WF_vars(StartGet(s) \/ Poll(s))
                        /\ SF_vars(Fetch(s))
                        /\ SF_vars(Checkpoint(s))

-------------------------------------------------------------------------------
(* Properties *)

\* The tables, the flags and the loops hold values of their declared types.
TypeOK ==
    /\ head \in Nat
    /\ checkpoint \in (0 .. MaxLedger) \cup {None}
    /\ rows \subseteq tried
    /\ tried \subseteq Events
    /\ running \in BOOLEAN
    /\ timer \in Loops \cup {None}
    /\ loop \in [Loops -> LoopStates]

\* Requirement 11.5: an indexer that resumes after the checkpoint misses
\* nothing.  Every event up to the checkpoint has been gone through, whichever
\* loop wrote it and wherever the server crashed.
CheckpointCovers ==
    checkpoint # None => EventsIn(Origin, checkpoint) \subseteq tried

\* While the indexer runs it gets to every event of the ledgers the chain closes.
IndexedWhileRunning ==
    \A e \in Events : (running /\ LedgerOf[e] <= head) ~> (~running \/ e \in tried)

\* Once stopped, and not started again, every loop comes to its end, also one
\* whose timer stopIndexing did not know of.
StopsInTheEnd ==
    ~running ~> (running \/ \A s \in Loops : At(s, "none"))

================================================================================
