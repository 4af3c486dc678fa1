-------------------------- MODULE EventIndexerProofs ---------------------------
(***************************************************************************)
(* Theorems about EventIndexer, for any number of loops, any chain, any    *)
(* batch and any page.  Its types hold without condition.  That the        *)
(* checkpoint covers what was indexed holds as long as each request keeps  *)
(* up: the code takes the chain's latest ledger for the end of a batch,    *)
(* and the first page of its events for all of them.                       *)
(* That the checkpoint only advances holds as long as one loop exists.     *)
(***************************************************************************)
EXTENDS EventIndexer, FiniteSetTheorems, TLAPS

\* When a loop is about to fetch, the chain ends within its batch and the events it
\* wants fit one page.
KeepsUp ==
    \A s \in Loops :
        At(s, "fetch") => head <= ToLedger(s) /\ Cardinality(Wanted(s)) <= PageLimit

\* Loop s polls, or is about to: its `from' has a meaning.
Polling(s) == loop[s].pc \in {"timer", "fetch", "persist"}

\* What loop s knows: everything below its `from' has been gone through, and so
\* has what it fetched, or is still in its batch.
LoopOK(s) ==
    /\ Polling(s) => EventsIn(Origin, loop[s].from - 1) \subseteq tried
    /\ At(s, "persist") =>
         EventsIn(loop[s].from, loop[s].latest) \subseteq tried \cup loop[s].batch

\* The chain stays within its bound, no loop has seen more of it than there is,
\* and a checkpoint is a ledger that some loop has seen.
ChainOK ==
    /\ head \in Origin .. MaxLedger
    /\ \A s \in Loops : /\ loop[s].latest <= head
                        /\ At(s, "persist") => Origin <= loop[s].latest
    /\ checkpoint # None => Origin <= checkpoint

TInv == TypeOK /\ ChainOK

IInv == /\ TInv
        /\ CheckpointCovers
        /\ \A s \in Loops : LoopOK(s)

-------------------------------------------------------------------------------
(* Records *)

\* One field of one loop's record is given a value of its type.
LEMMA FieldTyped ==
    ASSUME loop \in [Loops -> LoopStates],
           NEW s \in Loops, NEW x \in LoopStates
    PROVE  [loop EXCEPT ![s] = x] \in [Loops -> LoopStates]
  OBVIOUS

LEMMA NoLoopTyped == NoLoop \in LoopStates
  BY EventIndexerAssumption DEF NoLoop, LoopStates, PCs, Ledgers

\* A timer that is armed, and nothing else of the loop.
LEMMA TimerTyped ==
    ASSUME NEW from \in Origin .. MaxLedger + 1
    PROVE  [NoLoop EXCEPT !.pc = "timer", !.from = from] \in LoopStates
  BY NoLoopTyped DEF LoopStates, PCs

-------------------------------------------------------------------------------
(* Types *)

\* schedulePoll leaves a loop that polls from where it was told to, or none.
LEMMA Scheduled ==
    ASSUME TypeOK, NEW s \in Loops, NEW from \in Origin .. MaxLedger + 1,
           NEW b \in BOOLEAN, Schedule(s, from, b)
    PROVE  /\ loop' \in [Loops -> LoopStates]
           /\ timer' \in Loops \cup {None}
           /\ loop'[s].latest = 0
           /\ loop'[s].pc \in {"none", "timer"}
           /\ loop'[s].pc = "timer" => loop'[s].from = from
           /\ \A q \in Loops \ {s} : loop'[q] = loop[q]
<1>1. CASE b
  BY <1>1, TimerTyped, FieldTyped DEF Schedule, TypeOK, NoLoop
<1>2. CASE ~b
  BY <1>2, NoLoopTyped, FieldTyped DEF Schedule, TypeOK, NoLoop
<1> QED  BY <1>1, <1>2

LEMMA StartLedgerTyped ==
    ASSUME TypeOK, ChainOK
    PROVE  StartLedger \in Origin .. MaxLedger + 1
  BY EventIndexerAssumption DEF TypeOK, ChainOK, StartLedger

LEMMA TStart ==
    ASSUME TInv, NEW s \in Loops, Start(s)
    PROVE  TInv'
<1> DEFINE x == [loop[s] EXCEPT !.pc = "startGet"]
<1>1. /\ x \in LoopStates /\ x.latest = loop[s].latest /\ x.pc # "persist"
      /\ loop' = [loop EXCEPT ![s] = x]
  BY DEF TInv, TypeOK, LoopStates, PCs, Start
<1> HIDE DEF x
<1>2. TypeOK'
  BY <1>1, FieldTyped DEF TInv, TypeOK, Start
<1>3. \A q \in Loops : loop'[q] = IF q = s THEN x ELSE loop[q]
  BY <1>1 DEF TInv, TypeOK
<1>4. ChainOK'
  BY <1>1, <1>3 DEF TInv, ChainOK, At, Start
<1> QED  BY <1>2, <1>4 DEF TInv

LEMMA TStartGet ==
    ASSUME TInv, NEW s \in Loops, StartGet(s)
    PROVE  TInv'
<1>1. StartLedger \in Origin .. MaxLedger + 1
  BY StartLedgerTyped DEF TInv
<1>2. Schedule(s, StartLedger, TRUE)
  BY DEF StartGet
<1>3. /\ loop' \in [Loops -> LoopStates]
      /\ timer' \in Loops \cup {None}
      /\ loop'[s].latest = 0
      /\ loop'[s].pc \in {"none", "timer"}
      /\ \A q \in Loops \ {s} : loop'[q] = loop[q]
  BY <1>1, <1>2, Scheduled DEF TInv
<1>4. TypeOK'
  BY <1>3 DEF TInv, TypeOK, StartGet
<1>5. ChainOK'
  BY <1>3, EventIndexerAssumption DEF TInv, ChainOK, At, StartGet
<1> QED  BY <1>4, <1>5 DEF TInv

LEMMA TFire ==
    ASSUME TInv, NEW s \in Loops, Fire(s)
    PROVE  TInv'
<1> DEFINE x == [loop[s] EXCEPT !.pc = "fetch"]
<1>1. /\ x \in LoopStates /\ x.latest = loop[s].latest /\ x.pc # "persist"
      /\ loop' = [loop EXCEPT ![s] = x]
  BY DEF TInv, TypeOK, LoopStates, PCs, Fire
<1> HIDE DEF x
<1>2. TypeOK'
  BY <1>1, FieldTyped DEF TInv, TypeOK, Fire
<1>3. \A q \in Loops : loop'[q] = IF q = s THEN x ELSE loop[q]
  BY <1>1 DEF TInv, TypeOK
<1>4. ChainOK'
  BY <1>1, <1>3 DEF TInv, ChainOK, At, Fire
<1> QED  BY <1>2, <1>4 DEF TInv

\* What Fetch leaves in a loop's record.
LEMMA Fetched ==
    ASSUME TInv, NEW s \in Loops, Fetch(s)
    PROVE  /\ loop' \in [Loops -> LoopStates]
           /\ loop'[s].pc = "persist"
           /\ loop'[s].from = loop[s].from
           /\ loop'[s].latest = head
           /\ loop'[s].batch = Page(Wanted(s))
           /\ \A q \in Loops \ {s} : loop'[q] = loop[q]
<1> DEFINE batch == Page(Wanted(s))
           x == [[[loop[s] EXCEPT !.batch = batch] EXCEPT !.latest = head]
                          EXCEPT !.pc = "persist"]
<1>1. batch \in SUBSET Events
  BY DEF Page, Wanted, EventsIn
<1>2. head \in 0 .. MaxLedger
  BY EventIndexerAssumption DEF TInv, ChainOK
<1> HIDE DEF batch
<1>3. /\ x \in LoopStates /\ x.pc = "persist" /\ x.from = loop[s].from
      /\ x.latest = head /\ x.batch = batch
  BY <1>1, <1>2 DEF TInv, TypeOK, LoopStates, PCs
<1>4. loop' = [loop EXCEPT ![s] = x]
  BY DEF Fetch, batch, TInv, TypeOK
<1> HIDE DEF x
<1>5. loop' \in [Loops -> LoopStates]
  BY <1>3, <1>4, FieldTyped DEF TInv, TypeOK
<1>6. loop'[s] = x /\ \A q \in Loops \ {s} : loop'[q] = loop[q]
  BY <1>4 DEF TInv, TypeOK
<1> QED  BY <1>3, <1>5, <1>6 DEF batch

LEMMA TFetch ==
    ASSUME TInv, NEW s \in Loops, Fetch(s)
    PROVE  TInv'
<1>1. /\ loop' \in [Loops -> LoopStates]
      /\ loop'[s].latest = head
      /\ \A q \in Loops \ {s} : loop'[q] = loop[q]
  BY Fetched
<1>2. TypeOK'
  BY <1>1 DEF TInv, TypeOK, Fetch
<1>3. head' = head /\ checkpoint' = checkpoint
  BY DEF Fetch
<1>4. head \in Int /\ Origin <= head /\ head <= head
  BY EventIndexerAssumption DEF TInv, ChainOK
<1>5. ChainOK'
  BY <1>1, <1>3, <1>4 DEF TInv, ChainOK, At
<1> QED  BY <1>2, <1>5 DEF TInv

\* A poll that ends without a checkpoint polls the same ledger again.
LEMMA TFails ==
    ASSUME TInv, NEW s \in Loops, FetchFails(s) \/ CheckpointFails(s)
    PROVE  TInv'
<1>1. /\ Schedule(s, loop[s].from, running)
      /\ UNCHANGED <<head, checkpoint, rows, tried, running>>
  BY DEF FetchFails, CheckpointFails
<1>2. loop[s].from \in Origin .. MaxLedger + 1 /\ running \in BOOLEAN
  BY DEF TInv, TypeOK, LoopStates
<1>3. /\ loop' \in [Loops -> LoopStates]
      /\ timer' \in Loops \cup {None}
      /\ loop'[s].latest = 0
      /\ loop'[s].pc \in {"none", "timer"}
      /\ \A q \in Loops \ {s} : loop'[q] = loop[q]
  BY <1>1, <1>2, Scheduled DEF TInv
<1>4. TypeOK'
  BY <1>1, <1>3 DEF TInv, TypeOK
<1>5. ChainOK'
  BY <1>1, <1>3, EventIndexerAssumption DEF TInv, ChainOK, At
<1> QED  BY <1>4, <1>5 DEF TInv

\* What Persist leaves: the loop's record but for the event that was tried.
LEMMA Persisted ==
    ASSUME TInv, NEW s \in Loops, Persist(s)
    PROVE  /\ loop' \in [Loops -> LoopStates]
           /\ \A q \in Loops : /\ loop'[q].pc = loop[q].pc
                               /\ loop'[q].from = loop[q].from
                               /\ loop'[q].latest = loop[q].latest
           /\ \A q \in Loops \ {s} : loop'[q].batch = loop[q].batch
           /\ tried \cup loop[s].batch \subseteq tried' \cup loop'[s].batch
           /\ tried \subseteq tried' /\ tried' \subseteq Events
           /\ rows' \subseteq tried'
           /\ UNCHANGED <<head, checkpoint, running, timer>>
<1>1. PICK e \in loop[s].batch :
         /\ tried' = tried \cup {e}
         /\ \/ rows' = rows \cup {e}
            \/ UNCHANGED rows
         /\ loop' = [loop EXCEPT ![s].batch = @ \ {e}]
  BY DEF Persist
<1> DEFINE x == [loop[s] EXCEPT !.batch = @ \ {e}]
<1>2. /\ x \in LoopStates /\ x.pc = loop[s].pc /\ x.from = loop[s].from
      /\ x.latest = loop[s].latest /\ x.batch = loop[s].batch \ {e}
      /\ loop' = [loop EXCEPT ![s] = x] /\ e \in Events
  BY <1>1 DEF TInv, TypeOK, LoopStates
<1> HIDE DEF x
<1>3. loop' \in [Loops -> LoopStates]
  BY <1>2, FieldTyped DEF TInv, TypeOK
<1>4. \A q \in Loops : loop'[q] = IF q = s THEN x ELSE loop[q]
  BY <1>2 DEF TInv, TypeOK
<1>5. rows' \subseteq tried' /\ tried' \subseteq Events
  BY <1>1, <1>2 DEF TInv, TypeOK
<1> QED  BY <1>1, <1>2, <1>3, <1>4, <1>5 DEF Persist

LEMMA TPersist ==
    ASSUME TInv, NEW s \in Loops, Persist(s)
    PROVE  TInv'
<1>1. TypeOK'
  BY Persisted DEF TInv, TypeOK
<1>2. ChainOK'
  BY Persisted DEF TInv, ChainOK, At
<1> QED  BY <1>1, <1>2 DEF TInv

LEMMA TCheckpoint ==
    ASSUME TInv, NEW s \in Loops, Checkpoint(s)
    PROVE  TInv'
<1>1. /\ loop[s].latest \in Origin .. MaxLedger
      /\ running \in BOOLEAN
      /\ checkpoint' = loop[s].latest
      /\ Schedule(s, loop[s].latest + 1, running)
      /\ UNCHANGED <<head, rows, tried, running>>
  BY EventIndexerAssumption DEF TInv, TypeOK, ChainOK, LoopStates, Checkpoint
<1>2. loop[s].latest + 1 \in Origin .. MaxLedger + 1 /\ loop[s].latest \in 0 .. MaxLedger
  BY <1>1, EventIndexerAssumption
<1>3. /\ loop' \in [Loops -> LoopStates]
      /\ timer' \in Loops \cup {None}
      /\ loop'[s].latest = 0
      /\ loop'[s].pc \in {"none", "timer"}
      /\ \A q \in Loops \ {s} : loop'[q] = loop[q]
  BY <1>1, <1>2, Scheduled DEF TInv
<1>4. TypeOK'
  BY <1>1, <1>2, <1>3 DEF TInv, TypeOK
<1>5. Origin \in Nat /\ MaxLedger \in Nat
  BY EventIndexerAssumption
<1>6. ChainOK'
  BY <1>1, <1>3, <1>5 DEF TInv, ChainOK, At
<1> QED  BY <1>4, <1>6 DEF TInv

\* Loops end at a stop and at a crash; those that go on are untouched.
LEMMA TEnds ==
    ASSUME TInv, Stop \/ Crash
    PROVE  TInv'
<1>1. /\ \A q \in Loops : loop'[q] = NoLoop \/ loop'[q] = loop[q]
      /\ loop' \in [Loops -> LoopStates]
      /\ running' = FALSE /\ timer' = None
      /\ UNCHANGED <<head, checkpoint, rows, tried>>
  BY NoLoopTyped DEF TInv, TypeOK, Stop, Crash
<1>2. TypeOK'
  BY <1>1 DEF TInv, TypeOK
<1>3. NoLoop.latest = 0 /\ NoLoop.pc = "none"
  BY DEF NoLoop
<1>4. ChainOK'
  BY <1>1, <1>3, EventIndexerAssumption DEF TInv, ChainOK, At
<1> QED  BY <1>2, <1>4 DEF TInv

LEMMA TClose ==
    ASSUME TInv, Close
    PROVE  TInv'
<1>1. TypeOK'
  BY DEF TInv, TypeOK, Close
<1>2. \A s \in Loops : loop[s].latest \in Int
  BY DEF TInv, TypeOK, LoopStates
<1>3. ChainOK'
  BY <1>2, EventIndexerAssumption DEF TInv, ChainOK, At, Close
<1> QED  BY <1>1, <1>3 DEF TInv

LEMMA TNext ==
    ASSUME TInv, [Next]_vars
    PROVE  TInv'
<1>1. ASSUME NEW s \in Loops, Start(s) \/ StartGet(s) \/ Poll(s)
      PROVE  TInv'
  BY <1>1, TStart, TStartGet, TFire, TFetch, TFails, TPersist, TCheckpoint DEF Poll
<1>2. CASE Stop \/ Crash
  BY <1>2, TEnds
<1>3. CASE Close
  BY <1>3, TClose
<1>4. CASE UNCHANGED vars
  BY <1>4 DEF vars, TInv, TypeOK, ChainOK, At
<1> QED  BY <1>1, <1>2, <1>3, <1>4 DEF Next

LEMMA TInit == Init => TInv
<1> SUFFICES ASSUME Init PROVE TInv
  OBVIOUS
<1>1. TypeOK
  BY NoLoopTyped, EventIndexerAssumption DEF Init, TypeOK
<1>2. ChainOK
  BY EventIndexerAssumption DEF Init, ChainOK, NoLoop, At
<1> QED  BY <1>1, <1>2 DEF TInv

\* Tables, flags and loops hold values of their types, whatever the number of
\* loops that startIndexing lets in and whatever the size of a batch.
THEOREM TypeCorrect == Spec => []TypeOK
<1>1. TInv => TypeOK
  BY DEF TInv
<1> QED  BY TInit, TNext, <1>1, PTL DEF Spec

-------------------------------------------------------------------------------
(* The checkpoint *)

\* A loop that is where it was, with more events tried, knows what it knew.
LEMMA StillOK ==
    ASSUME NEW q \in Loops, LoopOK(q), loop'[q] = loop[q], tried \subseteq tried'
    PROVE  LoopOK(q)'
  BY DEF LoopOK, Polling, At

\* What a loop knows after schedulePoll, when all below the new ledger was tried.
LEMMA ScheduledOK ==
    ASSUME TInv, NEW s \in Loops, NEW from \in Origin .. MaxLedger + 1, NEW b \in BOOLEAN,
           Schedule(s, from, b), tried' = tried,
           EventsIn(Origin, from - 1) \subseteq tried,
           \A q \in Loops : LoopOK(q)
    PROVE  \A q \in Loops : LoopOK(q)'
<1>1. /\ loop'[s].pc \in {"none", "timer"}
      /\ loop'[s].pc = "timer" => loop'[s].from = from
      /\ \A q \in Loops \ {s} : loop'[q] = loop[q]
  BY Scheduled DEF TInv
<1>2. LoopOK(s)'
  BY <1>1 DEF LoopOK, Polling, At
<1> QED  BY <1>1, <1>2, StillOK

\* No event is older than Origin.
LEMMA BeforeOrigin == EventsIn(Origin, Origin - 1) = {}
<1>1. \A e \in Events : LedgerOf[e] \in Int
  BY EventIndexerAssumption DEF Events
<1> QED  BY <1>1, EventIndexerAssumption DEF EventsIn

LEMMA CStart ==
    ASSUME IInv, NEW s \in Loops, Start(s)
    PROVE  CheckpointCovers' /\ \A q \in Loops : LoopOK(q)'
<1>1. /\ loop'[s].pc = "startGet"
      /\ \A q \in Loops \ {s} : loop'[q] = loop[q]
      /\ tried' = tried /\ checkpoint' = checkpoint
  BY DEF IInv, TInv, TypeOK, LoopStates, Start
<1>2. LoopOK(s)'
  BY <1>1 DEF LoopOK, Polling, At
<1> QED  BY <1>1, <1>2, StillOK DEF IInv, CheckpointCovers

\* startIndexing resumes after the checkpoint, which covers all below.
LEMMA CStartGet ==
    ASSUME IInv, NEW s \in Loops, StartGet(s)
    PROVE  CheckpointCovers' /\ \A q \in Loops : LoopOK(q)'
<1>1. StartLedger \in Origin .. MaxLedger + 1
  BY StartLedgerTyped DEF IInv, TInv
<1>2. EventsIn(Origin, StartLedger - 1) \subseteq tried
  <2>1. CASE checkpoint = None
    <3>1. StartLedger = Origin
      BY <2>1 DEF StartLedger
    <3> QED  BY <3>1, BeforeOrigin
  <2>2. CASE checkpoint # None
    <3>1. checkpoint \in Int /\ StartLedger - 1 = checkpoint
      BY <2>2 DEF IInv, TInv, TypeOK, StartLedger
    <3> QED  BY <2>2, <3>1 DEF IInv, CheckpointCovers
  <2> QED  BY <2>1, <2>2
<1>3. Schedule(s, StartLedger, TRUE) /\ tried' = tried /\ checkpoint' = checkpoint
  BY DEF StartGet
<1>4. \A q \in Loops : LoopOK(q)'
  BY <1>1, <1>2, <1>3, ScheduledOK DEF IInv
<1> QED  BY <1>3, <1>4 DEF IInv, CheckpointCovers

LEMMA CFire ==
    ASSUME IInv, NEW s \in Loops, Fire(s)
    PROVE  CheckpointCovers' /\ \A q \in Loops : LoopOK(q)'
<1>1. /\ loop[s].pc = "timer" /\ loop'[s].pc = "fetch" /\ loop'[s].from = loop[s].from
      /\ \A q \in Loops \ {s} : loop'[q] = loop[q]
      /\ tried' = tried /\ checkpoint' = checkpoint
  BY DEF IInv, TInv, TypeOK, LoopStates, Fire, At
<1>2. LoopOK(s)'
  BY <1>1 DEF IInv, LoopOK, Polling, At
<1> QED  BY <1>1, <1>2, StillOK DEF IInv, CheckpointCovers

\* A page that is not full holds all the events.
LEMMA WholePage ==
    ASSUME NEW S, S \subseteq Events, Cardinality(S) <= PageLimit
    PROVE  Page(S) = S
<1>1. IsFiniteSet(S) /\ Cardinality(S) \in Nat
  <2>1. Len(LedgerOf) \in Int
    BY EventIndexerAssumption
  <2>2. IsFiniteSet(Events)
    BY <2>1, FS_Interval DEF Events
  <2>3. IsFiniteSet(S)
    BY <2>2, FS_Subset
  <2> QED  BY <2>3, FS_CardinalityType
<1>2. ASSUME NEW e \in S
      PROVE  Cardinality({d \in S : d <= e}) <= PageLimit
  <2> DEFINE T == {d \in S : d <= e}
  <2>1. T \in SUBSET S
    OBVIOUS
  <2>2. IsFiniteSet(T) /\ Cardinality(T) <= Cardinality(S)
    BY <1>1, <2>1, FS_Subset
  <2>3. Cardinality(T) \in Nat
    BY <2>2, FS_CardinalityType
  <2> HIDE DEF T
  <2>4. Cardinality(T) <= PageLimit
    BY <1>1, <2>2, <2>3, EventIndexerAssumption
  <2> QED  BY <2>4 DEF T
<1> QED  BY <1>2 DEF Page

\* Here the condition counts: the batch ends where the chain ends, and so does its page.
LEMMA CFetch ==
    ASSUME KeepsUp, IInv, NEW s \in Loops, Fetch(s)
    PROVE  CheckpointCovers' /\ \A q \in Loops : LoopOK(q)'
<1>1. /\ loop'[s].pc = "persist"
      /\ loop'[s].from = loop[s].from
      /\ loop'[s].latest = head
      /\ loop'[s].batch = Page(Wanted(s))
      /\ \A q \in Loops \ {s} : loop'[q] = loop[q]
  BY Fetched DEF IInv
<1>2. /\ loop[s].pc = "fetch" /\ At(s, "fetch")
      /\ tried' = tried /\ checkpoint' = checkpoint
  BY DEF Fetch, At
<1>3. EventsIn(loop[s].from, head) \subseteq loop'[s].batch
  <2>1. head \in Int /\ ToLedger(s) \in Int /\ loop[s].from \in Int
    BY EventIndexerAssumption DEF IInv, TInv, TypeOK, ChainOK, LoopStates, ToLedger
  <2>2. head <= ToLedger(s) /\ Page(Wanted(s)) = Wanted(s)
    BY <1>2, WholePage DEF KeepsUp, Wanted, EventsIn
  <2>3. \A e \in Events : LedgerOf[e] \in Int
    BY EventIndexerAssumption DEF Events
  <2> QED  BY <1>1, <2>1, <2>2, <2>3 DEF Wanted, EventsIn
<1>4. LoopOK(s)'
  BY <1>1, <1>2, <1>3 DEF IInv, LoopOK, Polling, At
<1> QED  BY <1>1, <1>2, <1>4, StillOK DEF IInv, CheckpointCovers

LEMMA CFails ==
    ASSUME IInv, NEW s \in Loops, FetchFails(s) \/ CheckpointFails(s)
    PROVE  CheckpointCovers' /\ \A q \in Loops : LoopOK(q)'
<1>1. /\ Schedule(s, loop[s].from, running)
      /\ tried' = tried /\ checkpoint' = checkpoint
      /\ Polling(s)
  BY DEF FetchFails, CheckpointFails, Polling, At
<1>2. loop[s].from \in Origin .. MaxLedger + 1 /\ running \in BOOLEAN
  BY DEF IInv, TInv, TypeOK, LoopStates
<1>3. EventsIn(Origin, loop[s].from - 1) \subseteq tried
  BY <1>1 DEF IInv, LoopOK
<1>4. \A q \in Loops : LoopOK(q)'
  BY <1>1, <1>2, <1>3, ScheduledOK DEF IInv
<1> QED  BY <1>1, <1>4 DEF IInv, CheckpointCovers

LEMMA CPersist ==
    ASSUME IInv, NEW s \in Loops, Persist(s)
    PROVE  CheckpointCovers' /\ \A q \in Loops : LoopOK(q)'
<1>1. /\ \A q \in Loops : /\ loop'[q].pc = loop[q].pc
                          /\ loop'[q].from = loop[q].from
                          /\ loop'[q].latest = loop[q].latest
      /\ \A q \in Loops \ {s} : loop'[q].batch = loop[q].batch
      /\ tried \cup loop[s].batch \subseteq tried' \cup loop'[s].batch
      /\ tried \subseteq tried' /\ checkpoint' = checkpoint
  BY Persisted DEF IInv
<1>2. ASSUME NEW q \in Loops
      PROVE  LoopOK(q)'
  <2>1. tried \cup loop[q].batch \subseteq tried' \cup loop'[q].batch
    BY <1>1
  <2> QED  BY <1>1, <2>1 DEF IInv, LoopOK, Polling, At
<1> QED  BY <1>1, <1>2 DEF IInv, CheckpointCovers

\* The checkpoint is written when the batch is empty: all of it was tried.
LEMMA CCheckpoint ==
    ASSUME IInv, NEW s \in Loops, Checkpoint(s)
    PROVE  CheckpointCovers' /\ \A q \in Loops : LoopOK(q)'
<1>1. /\ loop[s].latest \in Origin .. MaxLedger
      /\ loop[s].from \in Origin .. MaxLedger + 1
      /\ running \in BOOLEAN
  BY EventIndexerAssumption DEF IInv, TInv, TypeOK, ChainOK, LoopStates, Checkpoint
<1>2. /\ checkpoint' = loop[s].latest /\ tried' = tried
      /\ loop[s].pc = "persist" /\ loop[s].batch = {}
      /\ Schedule(s, loop[s].latest + 1, running)
  BY DEF Checkpoint, At
<1>3. EventsIn(Origin, loop[s].latest) \subseteq tried
  <2>1. /\ EventsIn(Origin, loop[s].from - 1) \subseteq tried
        /\ EventsIn(loop[s].from, loop[s].latest) \subseteq tried
    BY <1>2 DEF IInv, LoopOK, Polling, At
  <2>2. \A e \in Events : LedgerOf[e] \in Int
    BY EventIndexerAssumption DEF Events
  <2> QED  BY <1>1, <2>1, <2>2, EventIndexerAssumption DEF EventsIn
<1>4. /\ loop[s].latest + 1 \in Origin .. MaxLedger + 1
      /\ loop[s].latest + 1 - 1 = loop[s].latest
  BY <1>1, EventIndexerAssumption
<1>5. \A q \in Loops : LoopOK(q)'
  BY <1>1, <1>2, <1>3, <1>4, ScheduledOK DEF IInv
<1> QED  BY <1>2, <1>3, <1>5 DEF CheckpointCovers

LEMMA CEnds ==
    ASSUME IInv, Stop \/ Crash
    PROVE  CheckpointCovers' /\ \A q \in Loops : LoopOK(q)'
<1>1. /\ \A q \in Loops : loop'[q] = NoLoop \/ loop'[q] = loop[q]
      /\ tried' = tried /\ checkpoint' = checkpoint
  BY DEF Stop, Crash
<1>2. ASSUME NEW q \in Loops
      PROVE  LoopOK(q)'
  <2>1. CASE loop'[q] = loop[q]
    BY <1>1, <2>1, StillOK DEF IInv
  <2>2. CASE loop'[q] = NoLoop
    BY <2>2 DEF NoLoop, LoopOK, Polling, At
  <2> QED  BY <1>1, <2>1, <2>2
<1> QED  BY <1>1, <1>2 DEF IInv, CheckpointCovers

LEMMA CNext ==
    ASSUME KeepsUp, IInv, [Next]_vars
    PROVE  IInv'
<1>1. TInv'
  BY TNext DEF IInv
<1>2. CheckpointCovers' /\ \A q \in Loops : LoopOK(q)'
  <2>1. ASSUME NEW s \in Loops, Start(s) \/ StartGet(s) \/ Poll(s)
        PROVE  CheckpointCovers' /\ \A q \in Loops : LoopOK(q)'
    BY <2>1, KeepsUp, CStart, CStartGet, CFire, CFetch, CFails, CPersist, CCheckpoint
       DEF Poll
  <2>2. CASE Stop \/ Crash
    BY <2>2, CEnds
  <2>3. CASE Close \/ UNCHANGED vars
    BY <2>3, StillOK DEF IInv, CheckpointCovers, Close, vars
  <2> QED  BY <2>1, <2>2, <2>3 DEF Next
<1> QED  BY <1>1, <1>2 DEF IInv

\* An indexer that resumes after the checkpoint misses nothing, however many loops write
\* it, however long the chain and wherever the server crashes, as long as every request
\* finds the chain's end within its batch and its events within one page
\* (soroban-event-indexer.service.ts:93-107).
THEOREM Covered == Spec /\ []KeepsUp => []CheckpointCovers
<1>1. Init => IInv
  <2> SUFFICES ASSUME Init PROVE IInv
    OBVIOUS
  <2>1. TInv
    BY TInit
  <2>2. CheckpointCovers /\ \A s \in Loops : LoopOK(s)
    BY DEF Init, CheckpointCovers, LoopOK, Polling, At, NoLoop
  <2> QED  BY <2>1, <2>2 DEF IInv
<1>2. KeepsUp /\ IInv /\ [Next]_vars => IInv'
  BY CNext
<1>3. IInv => CheckpointCovers
  BY DEF IInv
<1> QED  BY <1>1, <1>2, <1>3, PTL DEF Spec

-------------------------------------------------------------------------------
(* The checkpoint's direction *)

\* Only one loop exists.  The code does not ensure it: startIndexing tests `running'
\* before it awaits Redis and sets it after, and stopIndexing leaves polls alone.
OneLoop == \A s, q \in Loops : s # q => At(s, "none") \/ At(q, "none")

\* A loop works behind the checkpoint, on ledgers that the chain had when it fetched.
AheadOK(s) ==
    /\ Polling(s) /\ checkpoint # None => checkpoint < loop[s].from
    /\ At(s, "persist") => loop[s].from <= loop[s].latest

Ahead == \A s \in Loops : AheadOK(s)

\* schedulePoll from behind the checkpoint, when no other loop polls.
LEMMA ScheduledAhead ==
    ASSUME TypeOK, OneLoop, NEW s \in Loops, ~At(s, "none"),
           NEW from \in Origin .. MaxLedger + 1, NEW b \in BOOLEAN, Schedule(s, from, b),
           checkpoint' # None => checkpoint' < from
    PROVE  Ahead'
<1>1. /\ loop'[s].pc \in {"none", "timer"}
      /\ loop'[s].pc = "timer" => loop'[s].from = from
      /\ \A q \in Loops \ {s} : loop'[q] = loop[q]
  BY Scheduled
<1>2. \A q \in Loops \ {s} : loop'[q].pc = "none"
  BY <1>1 DEF OneLoop, At
<1> QED  BY <1>1, <1>2 DEF Ahead, AheadOK, Polling, At

LEMMA AStartGet ==
    ASSUME TInv, OneLoop, Ahead, NEW s \in Loops, StartGet(s)
    PROVE  Ahead'
<1>1. StartLedger \in Origin .. MaxLedger + 1
  BY StartLedgerTyped DEF TInv
<1>2. checkpoint' # None => checkpoint' < StartLedger
  BY DEF StartGet, StartLedger, TInv, TypeOK
<1>3. Schedule(s, StartLedger, TRUE) /\ ~At(s, "none")
  BY DEF StartGet, At
<1> QED  BY <1>1, <1>2, <1>3, ScheduledAhead DEF TInv

LEMMA AFails ==
    ASSUME TInv, OneLoop, Ahead, NEW s \in Loops, FetchFails(s) \/ CheckpointFails(s)
    PROVE  Ahead'
<1>1. /\ Schedule(s, loop[s].from, running) /\ checkpoint' = checkpoint
      /\ Polling(s) /\ ~At(s, "none")
  BY DEF FetchFails, CheckpointFails, Polling, At
<1>2. loop[s].from \in Origin .. MaxLedger + 1 /\ running \in BOOLEAN
  BY DEF TInv, TypeOK, LoopStates
<1>3. checkpoint' # None => checkpoint' < loop[s].from
  BY <1>1 DEF Ahead, AheadOK
<1> QED  BY <1>1, <1>2, <1>3, ScheduledAhead DEF TInv

LEMMA ACheckpoint ==
    ASSUME TInv, OneLoop, Ahead, NEW s \in Loops, Checkpoint(s)
    PROVE  /\ Ahead'
           /\ checkpoint' # None
           /\ checkpoint # None => checkpoint < checkpoint'
<1>1. /\ loop[s].latest \in Origin .. MaxLedger
      /\ loop[s].from \in Origin .. MaxLedger + 1
      /\ running \in BOOLEAN /\ checkpoint \in (0 .. MaxLedger) \cup {None}
  BY EventIndexerAssumption DEF TInv, TypeOK, ChainOK, LoopStates, Checkpoint
<1>2. /\ checkpoint' = loop[s].latest
      /\ Schedule(s, loop[s].latest + 1, running)
      /\ Polling(s) /\ At(s, "persist") /\ ~At(s, "none")
  BY DEF Checkpoint, Polling, At
<1>3. loop[s].latest + 1 \in Origin .. MaxLedger + 1 /\ checkpoint' < loop[s].latest + 1
  BY <1>1, <1>2, EventIndexerAssumption
<1>4. Ahead'
  BY <1>1, <1>2, <1>3, ScheduledAhead DEF TInv
<1>5. checkpoint # None => checkpoint < loop[s].from /\ loop[s].from <= loop[s].latest
  BY <1>2 DEF Ahead, AheadOK
<1> QED  BY <1>1, <1>2, <1>4, <1>5, EventIndexerAssumption

\* The steps that write no checkpoint and schedule nothing.
LEMMA AOther ==
    ASSUME TInv, Ahead, NEW s \in Loops, Start(s) \/ Fire(s) \/ Fetch(s) \/ Persist(s)
    PROVE  Ahead'
<1> USE DEF Ahead, AheadOK, Polling, At
<1>1. CASE Start(s)
  BY <1>1 DEF TInv, TypeOK, LoopStates, Start
<1>2. CASE Fire(s)
  BY <1>2 DEF TInv, TypeOK, LoopStates, Fire
<1>3. CASE Fetch(s)
  <2>1. /\ loop'[s].pc = "persist" /\ loop'[s].from = loop[s].from /\ loop'[s].latest = head
        /\ \A q \in Loops \ {s} : loop'[q] = loop[q]
    BY <1>3, Fetched
  <2>2. loop[s].pc = "fetch" /\ loop[s].from <= head /\ checkpoint' = checkpoint
    BY <1>3 DEF Fetch
  <2> QED  BY <2>1, <2>2
<1>4. CASE Persist(s)
  BY <1>4, Persisted
<1> QED  BY <1>1, <1>2, <1>3, <1>4

LEMMA ANext ==
    ASSUME TInv, OneLoop, Ahead, [Next]_vars
    PROVE  /\ Ahead'
           /\ checkpoint # None => checkpoint' # None /\ checkpoint <= checkpoint'
<1>1. ASSUME checkpoint' = checkpoint
      PROVE  checkpoint # None => checkpoint' # None /\ checkpoint <= checkpoint'
  BY <1>1 DEF TInv, TypeOK
<1>2. ASSUME NEW s \in Loops, StartGet(s) \/ FetchFails(s) \/ CheckpointFails(s)
      PROVE  Ahead' /\ checkpoint' = checkpoint
  BY <1>2, AStartGet, AFails DEF StartGet, FetchFails, CheckpointFails
<1>3. ASSUME NEW s \in Loops, Start(s) \/ Fire(s) \/ Fetch(s) \/ Persist(s)
      PROVE  Ahead' /\ checkpoint' = checkpoint
  BY <1>3, AOther DEF Start, Fire, Fetch, Persist
<1>4. ASSUME NEW s \in Loops, Checkpoint(s)
      PROVE  /\ Ahead' /\ checkpoint' # None
             /\ checkpoint # None => checkpoint <= checkpoint'
  <2>1. checkpoint' \in Int /\ checkpoint \in Int \cup {None}
    BY <1>4 DEF TInv, TypeOK, LoopStates, Checkpoint
  <2> QED  BY <1>4, <2>1, ACheckpoint
<1>5. CASE Stop \/ Crash
  <2>1. /\ \A q \in Loops : loop'[q] = NoLoop \/ loop'[q] = loop[q]
        /\ checkpoint' = checkpoint
    BY <1>5 DEF Stop, Crash
  <2>2. Ahead'
    BY <2>1 DEF Ahead, AheadOK, Polling, At, NoLoop
  <2> QED  BY <1>1, <2>1, <2>2
<1>6. CASE Close \/ UNCHANGED vars
  <2>1. loop' = loop /\ checkpoint' = checkpoint
    BY <1>6 DEF Close, vars
  <2> QED  BY <1>1, <2>1 DEF Ahead, AheadOK, Polling, At
<1> QED  BY <1>1, <1>2, <1>3, <1>4, <1>5, <1>6 DEF Next, Poll

\* As long as one loop exists the checkpoint never goes back, whatever fails, stops or
\* crashes and whatever the size of a batch: only a second loop, which the code lets in,
\* can make a restarted indexer go over ledgers again
\* (soroban-event-indexer.service.ts:36-57, 101-112).
THEOREM CheckpointAdvances ==
    Spec /\ []OneLoop =>
      [][checkpoint # None => checkpoint' # None /\ checkpoint <= checkpoint']_checkpoint
<1>1. Init => Ahead
  <2>1. NoLoop.pc = "none"
    BY DEF NoLoop
  <2> QED  BY <2>1 DEF Init, Ahead, AheadOK, Polling, At
<1>2. TInv /\ OneLoop /\ Ahead /\ [Next]_vars => Ahead'
  BY ANext
<1>3. TInv /\ OneLoop /\ Ahead /\ [Next]_vars =>
        [checkpoint # None => checkpoint' # None /\ checkpoint <= checkpoint']_checkpoint
  BY ANext
<1> QED  BY TInit, TNext, <1>1, <1>2, <1>3, PTL DEF Spec

================================================================================
