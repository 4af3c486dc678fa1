---------------------------- MODULE ProofJobsProofs ----------------------------
(***************************************************************************)
(* Theorems about ProofJobs, for any number of jobs, circuits, attempts    *)
(* and restarts: the types, and that the artifact of a COMPLETED row is of *)
(* the row's own job, the row of a job that the queue takes for completed  *)
(* is COMPLETED, and no job is tried without end.                          *)
(***************************************************************************)
EXTENDS ProofJobs, TLAPS

PCs == {"none", "wait", "completed", "failed"} \cup Active

\* What is known of job j where it is: an attempt is left while it may be tried, its
\* circuit is a known one past the first step, what it has made is of itself, and
\* its row is COMPLETED from Store on.
JobOK(j) ==
    /\ job[j].pc \notin {"completed", "failed"} => job[j].attempts < MaxAttempts
    /\ job[j].pc \in Active \ {"begin"} => C(j) # None
    /\ job[j].made \in {j, None}
    /\ At(j, "store") => job[j].made = j
    /\ job[j].pc \in {"ack", "completed"} => row[j].status = "COMPLETED"

RowOK(p) == row[p].status = "COMPLETED" => row[p].proof = p

\* A working directory holds the input of its own attempt, or none.
WorkOK(j) == work[j] \in {j, None}

IInv == /\ TypeOK
        /\ \A j \in Jobs : JobOK(j) /\ WorkOK(j)
        /\ \A p \in Proofs : RowOK(p)

-------------------------------------------------------------------------------
(* Records *)

\* Goto moves one job and leaves the rest of its record.
LEMMA GotoStep ==
    ASSUME TypeOK, NEW j \in Jobs, NEW pc \in PCs, Goto(j, pc)
    PROVE  /\ job' \in [Jobs -> JobStates]
           /\ job'[j].pc = pc
           /\ job'[j].attempts = job[j].attempts
           /\ job'[j].circuit = job[j].circuit
           /\ job'[j].stalled = job[j].stalled
           /\ job'[j].made = job[j].made
           /\ \A i \in Jobs \ {j} : job'[i] = job[i]
<1> DEFINE x == [job[j] EXCEPT !.pc = pc]
<1>1. /\ x \in JobStates /\ x.pc = pc /\ x.attempts = job[j].attempts
      /\ x.circuit = job[j].circuit /\ x.made = job[j].made
      /\ x.stalled = job[j].stalled
  BY DEF TypeOK, JobStates, PCs
<1>2. job' = [job EXCEPT ![j] = x]
  BY DEF Goto, TypeOK
<1> HIDE DEF x
<1> QED  BY <1>1, <1>2 DEF TypeOK

\* The queue's reaction to an error: the job waits with an attempt left, or has failed.
LEMMA EndsStep ==
    ASSUME TypeOK, NEW j \in Jobs, job[j].attempts < MaxAttempts, Ends(j)
    PROVE  /\ job' \in [Jobs -> JobStates]
           /\ job'[j].pc \in {"wait", "failed"}
           /\ job'[j].pc = "wait" => job'[j].attempts < MaxAttempts
           /\ job'[j].attempts = job[j].attempts + 1
           /\ job'[j].stalled = job[j].stalled
           /\ job'[j].made = None
           /\ \A i \in Jobs \ {j} : job'[i] = job[i]
<1> DEFINE x(pc) == [[[job[j] EXCEPT !.pc = pc] EXCEPT !.attempts = @ + 1]
                               EXCEPT !.made = None]
<1>1. ASSUME NEW pc \in {"wait", "failed"}
      PROVE  /\ x(pc) \in JobStates /\ x(pc).pc = pc /\ x(pc).made = None
             /\ x(pc).attempts = job[j].attempts + 1
             /\ x(pc).stalled = job[j].stalled
  <2> DEFINE y == [job[j] EXCEPT !.pc = pc]
  <2>1. /\ y \in JobStates /\ y.pc = pc /\ y.attempts = job[j].attempts
        /\ y.stalled = job[j].stalled
    BY DEF TypeOK, JobStates
  <2>2. y.attempts + 1 \in 0 .. MaxAttempts
    BY <2>1, ProofJobsAssumption DEF TypeOK, JobStates
  <2> HIDE DEF y
  <2> DEFINE z == [y EXCEPT !.attempts = @ + 1]
  <2>3. /\ z \in JobStates /\ z.pc = pc /\ z.attempts = job[j].attempts + 1
        /\ z.stalled = job[j].stalled
    BY <2>1, <2>2 DEF JobStates
  <2> HIDE DEF z
  <2>4. /\ [z EXCEPT !.made = None] \in JobStates
        /\ [z EXCEPT !.made = None].pc = pc
        /\ [z EXCEPT !.made = None].made = None
        /\ [z EXCEPT !.made = None].attempts = z.attempts
        /\ [z EXCEPT !.made = None].stalled = z.stalled
    BY <2>3 DEF JobStates
  <2> QED  BY <2>3, <2>4 DEF y, z
<1>2. CASE job[j].attempts + 1 < MaxAttempts
  <2>1. job' = [job EXCEPT ![j] = x("wait")]
    BY <1>2 DEF Ends, TypeOK
  <2> HIDE DEF x
  <2> QED  BY <1>1, <1>2, <2>1 DEF TypeOK
<1>3. CASE ~(job[j].attempts + 1 < MaxAttempts)
  <2>1. job' = [job EXCEPT ![j] = x("failed")]
    BY <1>3 DEF Ends, TypeOK
  <2> HIDE DEF x
  <2> QED  BY <1>1, <2>1 DEF TypeOK
<1> QED  BY <1>2, <1>3

LEMMA RowStep ==
    ASSUME TypeOK, NEW j \in Jobs, NEW s \in Statuses, SetStatus(j, s)
    PROVE  /\ row' \in [Proofs -> RowStates]
           /\ row'[j].status = s
           /\ \A i \in Proofs \ {j} : row'[i] = row[i]
  BY DEF SetStatus, TypeOK, RowStates, Proofs

LEMMA FileStep ==
    ASSUME TypeOK, NEW j \in Jobs, NEW file \in {"compiled", "zkey"}, NEW s \in File,
           C(j) \in Circuits, Write(j, file, s)
    PROVE  target' \in [Circuits -> [compiled : File, zkey : File]]
<1>1. [target[C(j)] EXCEPT ![file] = s] \in [compiled : File, zkey : File]
  BY DEF TypeOK
<1> QED  BY <1>1 DEF TypeOK, Write

LEMMA WorkStep ==
    ASSUME IInv, NEW j \in Jobs, NEW v \in {j, None}, work' = [work EXCEPT ![WorkDir(j)] = v]
    PROVE  work' \in [Dirs -> Jobs \cup {None}] /\ \A i \in Jobs : WorkOK(i)'
  BY DEF IInv, TypeOK, WorkOK, WorkDir, Dirs

-------------------------------------------------------------------------------
(* Steps *)

\* A step of job j's attempt changes nothing of the other jobs, so that what has to be
\* shown is about j alone.
LEMMA Local ==
    ASSUME IInv, NEW j \in Jobs,
           job' \in [Jobs -> JobStates], \A i \in Jobs \ {j} : job'[i] = job[i],
           row' \in [Proofs -> RowStates], \A i \in Proofs \ {j} : row'[i] = row[i],
           target' \in [Circuits -> [compiled : File, zkey : File]],
           work' \in [Dirs -> Jobs \cup {None}], \A i \in Jobs : WorkOK(i)',
           UNCHANGED <<page, crashes>>,
           JobOK(j)', RowOK(j)'
    PROVE  IInv'
<1>1. TypeOK'
  BY DEF IInv, TypeOK
<1>2. \A i \in Jobs \ {j} : JobOK(i)'
  BY DEF IInv, JobOK, At, C, Proofs
<1>3. \A p \in Proofs \ {j} : RowOK(p)'
  BY DEF IInv, RowOK
<1> QED  BY <1>1, <1>2, <1>3 DEF IInv

\* Goto with nothing else: what is known of the place it leads to.
LEMMA Moves ==
    ASSUME IInv, NEW j \in Jobs, job[j].pc \in Active \cup {"wait"},
           NEW pc \in Active \ {"store", "ack"}, Goto(j, pc),
           pc = "begin" \/ C(j) # None,
           row' \in [Proofs -> RowStates], \A i \in Proofs \ {j} : row'[i] = row[i], RowOK(j)',
           target' \in [Circuits -> [compiled : File, zkey : File]],
           work' \in [Dirs -> Jobs \cup {None}], \A i \in Jobs : WorkOK(i)',
           UNCHANGED <<page, crashes>>
    PROVE  IInv'
<1>1. /\ job' \in [Jobs -> JobStates]
      /\ job'[j].pc = pc
      /\ job'[j].attempts = job[j].attempts
      /\ job'[j].circuit = job[j].circuit
      /\ job'[j].made = job[j].made
      /\ \A i \in Jobs \ {j} : job'[i] = job[i]
  BY GotoStep DEF IInv, PCs
<1>2. JobOK(j)'
  BY <1>1 DEF IInv, JobOK, Active, At, C
<1> QED  BY <1>1, <1>2, Local

\* The same for a step that changes no row, no file and no directory.
LEMMA OnlyMoves ==
    ASSUME IInv, NEW j \in Jobs, job[j].pc \in Active \cup {"wait"},
           NEW pc \in Active \ {"store", "ack"}, Goto(j, pc),
           pc = "begin" \/ C(j) # None,
           UNCHANGED <<row, target, work, page, crashes>>
    PROVE  IInv'
<1>1. /\ row' \in [Proofs -> RowStates] /\ \A i \in Proofs \ {j} : row'[i] = row[i]
      /\ RowOK(j)'
      /\ target' \in [Circuits -> [compiled : File, zkey : File]]
      /\ work' \in [Dirs -> Jobs \cup {None}] /\ \A i \in Jobs : WorkOK(i)'
  BY DEF IInv, TypeOK, RowOK, WorkOK, Proofs
<1> QED  BY <1>1, Moves

\* An attempt that failed, with whatever became of its row.
LEMMA Fails ==
    ASSUME IInv, NEW j \in Jobs, job[j].pc \in Active, Ends(j),
           FailRow(j) \/ UNCHANGED row,
           target' = target, work' \in [Dirs -> Jobs \cup {None}], \A i \in Jobs : WorkOK(i)',
           UNCHANGED <<page, crashes>>
    PROVE  IInv'
<1>1. job[j].attempts < MaxAttempts
  BY DEF IInv, JobOK, Active
<1>2. /\ job' \in [Jobs -> JobStates]
      /\ job'[j].pc \in {"wait", "failed"}
      /\ job'[j].pc = "wait" => job'[j].attempts < MaxAttempts
      /\ job'[j].made = None
      /\ \A i \in Jobs \ {j} : job'[i] = job[i]
  BY <1>1, EndsStep DEF IInv
<1>3. JobOK(j)'
  BY <1>2 DEF JobOK, Active, At
<1>4. row' \in [Proofs -> RowStates] /\ RowOK(j)' /\ \A i \in Proofs \ {j} : row'[i] = row[i]
  <2>1. CASE UNCHANGED row
    BY <2>1 DEF IInv, TypeOK, RowOK, Proofs
  <2>2. CASE SetStatus(j, "FAILED")
    BY <2>2, RowStep DEF IInv, RowOK, Statuses
  <2> QED  BY <2>1, <2>2 DEF FailRow
<1>5. target' \in [Circuits -> [compiled : File, zkey : File]]
  BY DEF IInv, TypeOK
<1> QED  BY <1>1, <1>2, <1>3, <1>4, <1>5, Local

LEMMA TakeStep ==
    ASSUME IInv, NEW j \in Jobs, Take(j)
    PROVE  IInv'
  BY OnlyMoves DEF Take, At, Active

LEMMA BeginStep ==
    ASSUME IInv, NEW j \in Jobs, Begin(j)
    PROVE  IInv'
<1>1. job[j].pc = "begin" /\ UNCHANGED <<target, work, page, crashes>>
  BY DEF Begin, At
<1>2. /\ target' \in [Circuits -> [compiled : File, zkey : File]]
      /\ work' \in [Dirs -> Jobs \cup {None}] /\ \A i \in Jobs : WorkOK(i)'
  BY <1>1 DEF IInv, TypeOK, WorkOK
<1>3. CASE C(j) = None
  BY <1>1, <1>2, <1>3, Fails DEF Begin, Active
<1>4. CASE C(j) # None
  <2>1. SetStatus(j, "GENERATING") /\ Goto(j, "compile")
    BY <1>4 DEF Begin
  <2>2. /\ row' \in [Proofs -> RowStates] /\ RowOK(j)'
        /\ \A i \in Proofs \ {j} : row'[i] = row[i]
    BY <2>1, RowStep DEF IInv, RowOK, Statuses
  <2> QED  BY <1>1, <1>2, <1>4, <2>1, <2>2, Moves DEF Active
<1> QED  BY <1>3, <1>4

LEMMA CompileStep ==
    ASSUME IInv, NEW j \in Jobs, Compile(j) \/ Setup(j)
    PROVE  IInv'
<1>1. /\ job[j].pc \in {"compile", "setup"}
      /\ \E pc \in {"compiling", "setup", "input", "contributing", "fail"} : Goto(j, pc)
      /\ UNCHANGED <<row, target, work, page, crashes>>
  BY DEF Compile, Setup, At
<1>2. C(j) # None
  BY <1>1 DEF IInv, JobOK, Active
<1> QED  BY <1>1, <1>2, OnlyMoves DEF Active

LEMMA WriteStep ==
    ASSUME IInv, NEW j \in Jobs, Compiled(j) \/ Contributed(j)
    PROVE  IInv'
<1>1. /\ job[j].pc \in {"compiling", "contributing"}
      /\ \E file \in {"compiled", "zkey"} : Write(j, file, "whole")
      /\ \E pc \in {"setup", "input"} : Goto(j, pc)
      /\ UNCHANGED <<row, work, page, crashes>>
  BY DEF Compiled, Contributed, At
<1>2. C(j) # None /\ C(j) \in Circuits
  BY <1>1 DEF IInv, JobOK, Active, TypeOK, JobStates, C
<1>3. target' \in [Circuits -> [compiled : File, zkey : File]]
  BY <1>1, <1>2, FileStep DEF IInv, File
<1>4. /\ row' \in [Proofs -> RowStates] /\ \A i \in Proofs \ {j} : row'[i] = row[i]
      /\ RowOK(j)'
      /\ work' \in [Dirs -> Jobs \cup {None}] /\ \A i \in Jobs : WorkOK(i)'
  BY <1>1 DEF IInv, TypeOK, RowOK, WorkOK, Proofs
<1> QED  BY <1>1, <1>2, <1>3, <1>4, Moves DEF Active

LEMMA TruncateStep ==
    ASSUME IInv, NEW j \in Jobs, Truncate(j)
    PROVE  IInv'
<1>1. C(j) \in Circuits
  BY DEF IInv, JobOK, Active, TypeOK, JobStates, C, Truncate
<1>2. target' \in [Circuits -> [compiled : File, zkey : File]]
  <2>1. \E file \in {"compiled", "zkey"} : Write(j, file, "partial")
    BY DEF Truncate
  <2> QED  BY <1>1, <2>1, FileStep DEF IInv, File
<1>3. UNCHANGED <<job, row, work, page, crashes>>
  BY DEF Truncate
<1> QED  BY <1>2, <1>3 DEF IInv, TypeOK, JobOK, RowOK, WorkOK, At, C

LEMMA InputStep ==
    ASSUME IInv, NEW j \in Jobs, WriteInput(j)
    PROVE  IInv'
<1>1. /\ job[j].pc = "input"
      /\ \E pc \in {"prove", "fail"} : Goto(j, pc)
      /\ work' = [work EXCEPT ![WorkDir(j)] = j] \/ UNCHANGED work
      /\ UNCHANGED <<row, target, page, crashes>>
  BY DEF WriteInput, At
<1>2. C(j) # None
  BY <1>1 DEF IInv, JobOK, Active
<1>3. work' \in [Dirs -> Jobs \cup {None}] /\ \A i \in Jobs : WorkOK(i)'
  <2>1. CASE work' = [work EXCEPT ![WorkDir(j)] = j]
    BY <2>1, WorkStep
  <2>2. CASE UNCHANGED work
    BY <2>2 DEF IInv, TypeOK, WorkOK
  <2> QED  BY <1>1, <2>1, <2>2
<1>4. /\ row' \in [Proofs -> RowStates] /\ \A i \in Proofs \ {j} : row'[i] = row[i]
      /\ RowOK(j)'
      /\ target' \in [Circuits -> [compiled : File, zkey : File]]
  BY <1>1 DEF IInv, TypeOK, RowOK, Proofs
<1> QED  BY <1>1, <1>2, <1>3, <1>4, Moves DEF Active

\* The proof is made of what the working directory holds: of the job's own input.
LEMMA ProveStep ==
    ASSUME IInv, NEW j \in Jobs, Prove(j)
    PROVE  IInv'
<1>1. job[j].pc = "prove" /\ UNCHANGED <<row, target, work, page, crashes>>
  BY DEF Prove, At
<1>2. C(j) # None
  BY <1>1 DEF IInv, JobOK, Active
<1>3. CASE Goto(j, "fail")
  BY <1>1, <1>2, <1>3, OnlyMoves DEF Active
<1>4. CASE /\ job' = [job EXCEPT ![j].pc = "store", ![j].made = work[WorkDir(j)]]
           /\ work[WorkDir(j)] # None
  <2>1. work[WorkDir(j)] = j
    BY <1>4 DEF IInv, WorkOK, WorkDir
  <2> DEFINE x == [[job[j] EXCEPT !.pc = "store"] EXCEPT !.made = j]
  <2>2. /\ x \in JobStates /\ x.pc = "store" /\ x.made = j
        /\ x.attempts = job[j].attempts /\ x.circuit = job[j].circuit
    BY DEF IInv, TypeOK, JobStates, Active
  <2>3. job' = [job EXCEPT ![j] = x]
    BY <1>4, <2>1 DEF IInv, TypeOK
  <2> HIDE DEF x
  <2>4. /\ job' \in [Jobs -> JobStates] /\ job'[j] = x
        /\ \A i \in Jobs \ {j} : job'[i] = job[i]
    BY <2>2, <2>3 DEF IInv, TypeOK
  <2>5. JobOK(j)'
    BY <1>1, <1>2, <2>2, <2>4 DEF IInv, JobOK, Active, At, C
  <2>6. /\ row' \in [Proofs -> RowStates] /\ \A i \in Proofs \ {j} : row'[i] = row[i]
        /\ RowOK(j)'
        /\ target' \in [Circuits -> [compiled : File, zkey : File]]
        /\ work' \in [Dirs -> Jobs \cup {None}] /\ \A i \in Jobs : WorkOK(i)'
    BY <1>1 DEF IInv, TypeOK, RowOK, WorkOK, Proofs
  <2> QED  BY <1>1, <2>4, <2>5, <2>6, Local
<1> QED  BY <1>3, <1>4 DEF Prove

LEMMA StoreStep ==
    ASSUME IInv, NEW j \in Jobs, Store(j)
    PROVE  IInv'
<1>1. /\ job[j].pc = "store" /\ job[j].made = j
      /\ Goto(j, "ack") /\ UNCHANGED <<target, page, crashes>>
  BY DEF IInv, JobOK, Store, At
<1>2. /\ job' \in [Jobs -> JobStates]
      /\ job'[j].pc = "ack"
      /\ job'[j].attempts = job[j].attempts
      /\ job'[j].circuit = job[j].circuit
      /\ job'[j].made = job[j].made
      /\ \A i \in Jobs \ {j} : job'[i] = job[i]
  BY <1>1, GotoStep DEF IInv, PCs, Active
<1>3. /\ row' \in [Proofs -> RowStates] /\ row'[j].status = "COMPLETED" /\ row'[j].proof = j
      /\ \A i \in Proofs \ {j} : row'[i] = row[i]
  BY <1>1 DEF IInv, TypeOK, RowStates, Statuses, Store, Proofs
<1>4. JobOK(j)' /\ RowOK(j)'
  BY <1>1, <1>2, <1>3 DEF IInv, JobOK, RowOK, Active, At, C
<1>5. /\ target' \in [Circuits -> [compiled : File, zkey : File]]
      /\ work' \in [Dirs -> Jobs \cup {None}] /\ \A i \in Jobs : WorkOK(i)'
  BY <1>1, WorkStep DEF IInv, TypeOK, Store
<1> QED  BY <1>1, <1>2, <1>3, <1>4, <1>5, Local

\* The queue is told of a proof whose row says the same.
LEMMA AcknowledgeStep ==
    ASSUME IInv, NEW j \in Jobs, Acknowledge(j)
    PROVE  IInv'
<1>1. /\ job[j].pc = "ack"
      /\ Goto(j, "completed") \/ Ends(j)
      /\ UNCHANGED <<row, target, work, page, crashes>>
  BY DEF Acknowledge, At
<1>2. /\ row' \in [Proofs -> RowStates] /\ \A i \in Proofs \ {j} : row'[i] = row[i]
      /\ RowOK(j)'
      /\ target' \in [Circuits -> [compiled : File, zkey : File]]
      /\ work' \in [Dirs -> Jobs \cup {None}] /\ \A i \in Jobs : WorkOK(i)'
  BY <1>1 DEF IInv, TypeOK, RowOK, WorkOK, Proofs
<1>3. CASE Ends(j)
  BY <1>1, <1>2, <1>3, Fails DEF Active
<1>4. CASE Goto(j, "completed")
  <2>1. /\ job' \in [Jobs -> JobStates]
        /\ job'[j].pc = "completed"
        /\ job'[j].made = job[j].made
        /\ \A i \in Jobs \ {j} : job'[i] = job[i]
    BY <1>4, GotoStep DEF IInv, PCs
  <2>2. JobOK(j)'
    BY <1>1, <2>1 DEF IInv, JobOK, Active, At
  <2> QED  BY <1>1, <1>2, <2>1, <2>2, Local
<1> QED  BY <1>1, <1>3, <1>4

LEMMA FailureStep ==
    ASSUME IInv, NEW j \in Jobs, StepFails(j) \/ FailProof(j)
    PROVE  IInv'
<1>1. CASE StepFails(j)
  BY <1>1, OnlyMoves DEF StepFails, Active
<1>2. CASE FailProof(j)
  <2>1. work' \in [Dirs -> Jobs \cup {None}] /\ \A i \in Jobs : WorkOK(i)'
    BY <1>2, WorkStep DEF FailProof
  <2> QED  BY <1>2, <2>1, Fails DEF FailProof, At, Active
<1> QED  BY <1>1, <1>2

\* A restart has jobs wait that an attempt of was under way, or fails them.
LEMMA RestartStep ==
    ASSUME IInv, Restart
    PROVE  IInv'
<1>1. ASSUME NEW j \in Jobs
      PROVE  job'[j] \in JobStates /\ JobOK(j)'
  <2>0. job'[j] = IF job[j].pc \notin Active THEN job[j]
                  ELSE IF job[j].stalled = MaxStalled THEN [job[j] EXCEPT !.pc = "failed"]
                  ELSE [job[j] EXCEPT !.pc = "wait", !.stalled = @ + 1, !.made = None]
    BY DEF Restart
  <2>1. CASE job[j].pc \notin Active
    BY <2>0, <2>1 DEF IInv, TypeOK, JobOK, Active, At, C, Restart
  <2>2. CASE job[j].pc \in Active /\ job[j].stalled = MaxStalled
    <3>1. job'[j] = [job[j] EXCEPT !.pc = "failed"]
      BY <2>0, <2>2
    <3>2. job'[j] \in JobStates /\ job'[j].pc = "failed" /\ job'[j].made = job[j].made
      BY <3>1 DEF IInv, TypeOK, JobStates
    <3> QED  BY <2>2, <3>2 DEF IInv, JobOK, Active, At
  <2>3. CASE job[j].pc \in Active /\ job[j].stalled # MaxStalled
    <3> DEFINE y == [job[j] EXCEPT !.pc = "wait"]
               z == [y EXCEPT !.stalled = @ + 1]
    <3>1. /\ y \in JobStates /\ y.pc = "wait" /\ y.attempts = job[j].attempts
          /\ y.stalled = job[j].stalled
      BY DEF IInv, TypeOK, JobStates
    <3>2. y.stalled + 1 \in 0 .. MaxStalled
      BY <2>3, <3>1, ProofJobsAssumption DEF JobStates
    <3>3. job'[j] = [z EXCEPT !.made = None]
      BY <2>0, <2>3
    <3> HIDE DEF y
    <3>4. z \in JobStates /\ z.pc = "wait" /\ z.attempts = job[j].attempts
      BY <3>1, <3>2 DEF JobStates
    <3> HIDE DEF z
    <3>5. /\ job'[j] \in JobStates /\ job'[j].pc = "wait" /\ job'[j].made = None
          /\ job'[j].attempts = job[j].attempts
      BY <3>3, <3>4 DEF JobStates
    <3> QED  BY <2>3, <3>5 DEF IInv, JobOK, Active, At
  <2> QED  BY <2>1, <2>2, <2>3
<1>2. job' \in [Jobs -> JobStates]
  <2>1. job' = [j \in Jobs |-> job'[j]]
    BY DEF Restart
  <2> QED  BY <1>1, <2>1
<1>3. TypeOK'
  <2>1. crashes < MaxCrashes /\ crashes' = crashes + 1
    BY DEF Restart
  <2>2. crashes \in 0 .. MaxCrashes
    BY DEF IInv, TypeOK
  <2>3. crashes' \in 0 .. MaxCrashes
    BY <2>1, <2>2, ProofJobsAssumption
  <2> QED  BY <1>2, <2>3 DEF IInv, TypeOK, Restart
<1>4. (\A p \in Proofs : RowOK(p)') /\ \A j \in Jobs : WorkOK(j)'
  BY DEF IInv, RowOK, WorkOK, Restart
<1> QED  BY <1>1, <1>3, <1>4 DEF IInv

-------------------------------------------------------------------------------
(* The browser *)

\* The page changes, and nothing else does.
LEMMA PageStep ==
    ASSUME IInv, page' \in Pages, UNCHANGED <<job, row, target, work, crashes>>
    PROVE  IInv'
  BY DEF IInv, TypeOK, JobOK, RowOK, WorkOK, At, C

\* What a query is answered is a status.
LEMMA AnswerTyped ==
    ASSUME TypeOK, (Viewed \in Own /\ GetProof) \/ GetList
    PROVE  page' \in Pages
<1>1. \A p \in Own : p \in Proofs /\ row[p].status \in Statuses \cup {"absent"}
  BY ProofJobsAssumption DEF TypeOK, RowStates, Own, Proofs
<1>2. CASE Viewed \in Own /\ GetProof
  <2> DEFINE a == IF row[Viewed].status = "absent" THEN "error" ELSE row[Viewed].status
             one == [page.one EXCEPT ![Viewed] = a]
  <2>1. a \in Statuses \cup {None, "error"}
    BY <1>1, <1>2
  <2>2. page' = [page EXCEPT !.one = one]
    BY <1>2 DEF GetProof, TypeOK, Pages
  <2> HIDE DEF a
  <2>3. one \in [Own -> Statuses \cup {None, "error"}]
    BY <2>1, <1>2 DEF TypeOK, Pages
  <2> HIDE DEF one
  <2> QED  BY <2>2, <2>3 DEF TypeOK, Pages
<1>3. CASE GetList
  <2> DEFINE list == [p \in Own |-> row[p].status]
  <2>1. list \in [Own -> Statuses \cup {"absent"}]
    BY <1>1
  <2>2. page' = [page EXCEPT !.list = list, !.stale = FALSE]
    BY <1>3 DEF GetList
  <2> HIDE DEF list
  <2> QED  BY <2>1, <2>2 DEF TypeOK, Pages
<1> QED  BY <1>2, <1>3

\* The row of the new proof is its own, and no job's.
LEMMA PostedStep ==
    ASSUME IInv, Posted \/ PostLost
    PROVE  IInv'
<1>1. page' \in Pages
  BY DEF IInv, TypeOK, Pages, Posted, PostLost
<1>2. /\ Insert \/ UNCHANGED row
      /\ UNCHANGED <<job, target, work, crashes>>
  BY DEF Posted, PostLost
<1>3. /\ row' \in [Proofs -> RowStates]
      /\ \A p \in Proofs : RowOK(p)'
      /\ \A j \in Jobs : row'[j] = row[j]
  <2>1. New \in Proofs /\ New \notin Jobs
    BY ProofJobsAssumption DEF Proofs
  <2>2. CASE Insert
    BY <2>1, <2>2 DEF Insert, IInv, TypeOK, RowStates, RowOK, Statuses, Proofs
  <2>3. CASE UNCHANGED row
    BY <2>3 DEF IInv, TypeOK, RowOK, Proofs
  <2> QED  BY <1>2, <2>2, <2>3
<1> QED  BY <1>1, <1>2, <1>3 DEF IInv, TypeOK, JobOK, WorkOK, At, C

LEMMA BrowseStep ==
    ASSUME IInv, Browse
    PROVE  IInv'
<1>1. CASE Submit
  <2>1. page' \in Pages
    BY <1>1 DEF IInv, TypeOK, Pages, Submit
  <2> QED  BY <1>1, <2>1, PageStep DEF Submit
<1>2. CASE Posted \/ PostLost
  BY <1>2, PostedStep
<1>3. CASE ProofAnswered \/ ListAnswered \/ AskAgain
  <2>1. /\ (Viewed \in Own /\ GetProof) \/ GetList
        /\ UNCHANGED <<job, row, target, work, crashes>>
    BY <1>3 DEF ProofAnswered, ListAnswered, AskAgain, AsksProof
  <2>2. page' \in Pages
    BY <2>1, AnswerTyped DEF IInv
  <2> QED  BY <2>1, <2>2, PageStep
<1>4. CASE ProofFails
  <2>1. page' \in Pages
    BY <1>4 DEF IInv, TypeOK, ProofFails, Pages
  <2> QED  BY <1>4, <2>1, PageStep DEF ProofFails
<1>5. CASE ListFails
  <2>1. page' \in Pages
    BY <1>5 DEF IInv, TypeOK, ListFails, Pages
  <2> QED  BY <1>5, <2>1, PageStep DEF ListFails
<1>6. ASSUME NEW v \in {"form", "list", Mine}, Visit(v)
      PROVE  IInv'
  <2>1. page' \in Pages
    BY <1>6 DEF IInv, TypeOK, Visit, Pages
  <2> QED  BY <1>6, <2>1, PageStep DEF Visit
<1> QED  BY <1>1, <1>2, <1>3, <1>4, <1>5, <1>6 DEF Browse

-------------------------------------------------------------------------------
(* Theorems *)

\* Every step keeps what is known of jobs, rows, directories and the page.
LEMMA NextStep ==
    ASSUME IInv, [Next]_vars
    PROVE  IInv'
<1>1. CASE Restart
  BY <1>1, RestartStep
<1>2. CASE Browse
  BY <1>2, BrowseStep
<1>3. ASSUME NEW j \in Jobs, Progress(j)
      PROVE  IInv'
  BY <1>3, TakeStep, BeginStep, CompileStep, WriteStep, TruncateStep, InputStep, ProveStep,
     StoreStep, AcknowledgeStep, FailureStep DEF Progress
<1>4. CASE UNCHANGED vars
  BY <1>4 DEF vars, IInv, TypeOK, JobOK, RowOK, WorkOK, At, C
<1> QED  BY <1>1, <1>2, <1>3, <1>4 DEF Next

LEMMA InitStep == Init => IInv
<1> SUFFICES ASSUME Init PROVE IInv
  OBVIOUS
<1>1. ASSUME NEW j \in Jobs
      PROVE  job[j] \in JobStates /\ JobOK(j)
  <2>1. PICK pc \in {"none", "wait"}, c \in Circuits \cup {None},
             f \in SUBSET UNION {Fields(d) : d \in Circuits} :
           job[j] = [pc |-> pc, circuit |-> c, claims |-> f, attempts |-> 0,
                     stalled |-> 0, made |-> None]
    BY DEF Init
  <2>2. \A d \in Circuits : Fields(d) \subseteq {"age", "country", "accredited"}
    BY DEF Fields
  <2>3. f \subseteq {"age", "country", "accredited"}
    BY <2>2
  <2>4. 0 \in 0 .. MaxAttempts /\ 0 \in 0 .. MaxStalled /\ 0 < MaxAttempts
    BY ProofJobsAssumption
  <2> QED  BY <2>1, <2>3, <2>4 DEF JobStates, JobOK, Active, At
<1>2. TypeOK
  <2>1. job \in [Jobs -> JobStates]
    BY <1>1 DEF Init
  <2>2. page \in Pages
    BY DEF Init, Pages
  <2>3. crashes \in 0 .. MaxCrashes
    BY ProofJobsAssumption DEF Init
  <2>4. /\ row \in [Proofs -> RowStates]
        /\ target \in [Circuits -> [compiled : File, zkey : File]]
        /\ work \in [Dirs -> Jobs \cup {None}]
    BY DEF Init, RowStates, Statuses, File
  <2> QED  BY <2>1, <2>2, <2>3, <2>4 DEF TypeOK
<1>3. (\A p \in Proofs : RowOK(p)) /\ \A j \in Jobs : WorkOK(j)
  BY DEF Init, RowOK, WorkOK, Dirs
<1> QED  BY <1>1, <1>2, <1>3 DEF IInv

\* The invariant that the others rest on holds in every reachable state.
THEOREM Inductive == Spec => []IInv
  BY InitStep, NextStep, PTL DEF Spec

\* Jobs, rows, files, directories and the page hold values of their types: no job is
\* tried more often than the queue allows.
THEOREM TypeCorrect == Spec => []TypeOK
<1>1. IInv => TypeOK
  BY DEF IInv
<1> QED  BY Inductive, <1>1, PTL

\* The artifact of a COMPLETED row proves the claims of the row's own job, however many
\* jobs of a circuit run at once and wherever they are restarted.
THEOREM OwnProofs == Spec => []OwnProof
<1>1. IInv => OwnProof
  BY DEF IInv, RowOK, OwnProof
<1> QED  BY Inductive, <1>1, PTL

\* A job that the queue takes for completed has a row that says so.
THEOREM CompletedRows == Spec => []CompletedInTheRow
<1>1. IInv => CompletedInTheRow
  BY DEF IInv, JobOK, CompletedInTheRow, At
<1> QED  BY Inductive, <1>1, PTL

-------------------------------------------------------------------------------
(* Jobs run out *)

\* How many steps an attempt that has come to pc may still take.
Left(pc) ==
    CASE pc = "none" -> 12
      [] pc = "wait" -> 11
      [] pc = "begin" -> 10
      [] pc = "compile" -> 9
      [] pc = "compiling" -> 8
      [] pc = "setup" -> 7
      [] pc = "contributing" -> 6
      [] pc = "input" -> 5
      [] pc = "prove" -> 4
      [] pc = "store" -> 3
      [] pc = "ack" -> 2
      [] pc = "fail" -> 1
      [] OTHER -> 0

\* What a job may still take: the attempts and the restarts that are left to it, each a
\* whole attempt, and the rest of this one.
Budget(j) == 12 * (MaxAttempts - job[j].attempts) + 12 * (MaxStalled - job[j].stalled)
               + Left(job[j].pc)

LEMMA BudgetRange ==
    ASSUME TypeOK, NEW j \in Jobs
    PROVE  /\ Left(job[j].pc) \in 0 .. 12
           /\ MaxAttempts - job[j].attempts \in Nat
           /\ MaxStalled - job[j].stalled \in Nat
           /\ Budget(j) \in Nat
<1>1. /\ job[j].attempts \in 0 .. MaxAttempts /\ job[j].stalled \in 0 .. MaxStalled
      /\ MaxAttempts \in Nat /\ MaxStalled \in Nat
  BY ProofJobsAssumption DEF TypeOK, JobStates
<1>2. Left(job[j].pc) \in 0 .. 12
  BY DEF Left
<1> QED  BY <1>1, <1>2 DEF Budget

\* A move onward within the attempt, or to the end of the job.
LEMMA MoveSpends ==
    ASSUME TypeOK, NEW j \in Jobs, NEW pc \in PCs, Goto(j, pc), Left(pc) < Left(job[j].pc)
    PROVE  Budget(j)' < Budget(j)
<1>1. /\ job'[j].pc = pc
      /\ job'[j].attempts = job[j].attempts
      /\ job'[j].stalled = job[j].stalled
  BY GotoStep
<1>2. Left(job'[j].pc) \in 0 .. 12
  BY DEF Left
<1> QED  BY <1>1, <1>2, BudgetRange DEF Budget

\* An attempt that failed costs more than waiting for the next one gives back.
LEMMA AttemptSpends ==
    ASSUME TypeOK, NEW j \in Jobs, job[j].attempts < MaxAttempts, job[j].pc \in Active, Ends(j)
    PROVE  Budget(j)' < Budget(j)
<1>1. /\ job'[j].pc \in {"wait", "failed"}
      /\ job'[j].attempts = job[j].attempts + 1
      /\ job'[j].stalled = job[j].stalled
  BY EndsStep
<1>2. Left(job'[j].pc) \in 0 .. 11 /\ Left(job[j].pc) >= 1
  BY <1>1 DEF Left, Active
<1>3. /\ job[j].attempts \in Nat /\ MaxAttempts \in Nat
  BY ProofJobsAssumption DEF TypeOK, JobStates
<1>4. 12 * (MaxAttempts - job'[j].attempts) = 12 * (MaxAttempts - job[j].attempts) - 12
  BY <1>1, <1>3
<1> QED  BY <1>1, <1>2, <1>4, BudgetRange DEF Budget

LEMMA RestartSpends ==
    ASSUME TypeOK, Restart, NEW j \in Jobs, job'[j] # job[j]
    PROVE  job[j].pc \in Active /\ Budget(j)' < Budget(j)
<1>1. /\ job[j].pc \in Active
      /\ job'[j] = IF job[j].stalled = MaxStalled THEN [job[j] EXCEPT !.pc = "failed"]
                   ELSE [job[j] EXCEPT !.pc = "wait", !.stalled = @ + 1, !.made = None]
  BY DEF Restart
<1>2. Left(job[j].pc) >= 1
  BY <1>1 DEF Left, Active
<1>3. /\ job'[j].attempts = job[j].attempts
      /\ \/ job'[j].pc = "failed" /\ job'[j].stalled = job[j].stalled
         \/ job'[j].pc = "wait" /\ job'[j].stalled = job[j].stalled + 1
  BY <1>1 DEF TypeOK, JobStates
<1>4. Left("failed") = 0 /\ Left("wait") = 11
  BY DEF Left
<1>5. CASE job'[j].pc = "failed" /\ job'[j].stalled = job[j].stalled
  BY <1>1, <1>2, <1>3, <1>4, <1>5, BudgetRange DEF Budget
<1>6. CASE job'[j].pc = "wait" /\ job'[j].stalled = job[j].stalled + 1
  <2>1. job[j].stalled \in Nat /\ MaxStalled \in Nat
    BY ProofJobsAssumption DEF TypeOK, JobStates
  <2>2. 12 * (MaxStalled - job'[j].stalled) = 12 * (MaxStalled - job[j].stalled) - 12
    BY <1>6, <2>1
  <2> QED  BY <1>1, <1>2, <1>3, <1>4, <1>6, <2>2, BudgetRange DEF Budget
<1> QED  BY <1>1, <1>3, <1>5, <1>6

\* Any change of a job is of one that has not ended, and spends of its budget.
JobsSpend ==
    \A j \in Jobs : job'[j] # job[j] =>
        /\ job[j].pc \notin {"completed", "failed"}
        /\ Budget(j)' \in Nat
        /\ Budget(j)' < Budget(j)

LEMMA ProgressSpends ==
    ASSUME IInv, NEW j \in Jobs, Progress(j)
    PROVE  /\ \A i \in Jobs \ {j} : job'[i] = job[i]
           /\ job[j].pc \in Active \cup {"wait"}
           /\ job'[j] # job[j] => Budget(j)' < Budget(j)
<1> USE DEF IInv
<1>1. ASSUME NEW pc \in PCs, Goto(j, pc), Left(pc) < Left(job[j].pc),
             job[j].pc \in Active \cup {"wait"}
      PROVE  /\ \A i \in Jobs \ {j} : job'[i] = job[i]
             /\ job[j].pc \in Active \cup {"wait"}
             /\ Budget(j)' < Budget(j)
  BY <1>1, GotoStep, MoveSpends
<1>2. ASSUME job[j].pc \in Active, Ends(j)
      PROVE  /\ \A i \in Jobs \ {j} : job'[i] = job[i]
             /\ Budget(j)' < Budget(j)
  <2>1. job[j].attempts < MaxAttempts
    BY <1>2 DEF JobOK, Active
  <2> QED  BY <1>2, <2>1, EndsStep, AttemptSpends
<1>3. CASE \E pc \in PCs : /\ Goto(j, pc) /\ Left(pc) < Left(job[j].pc)
                           /\ job[j].pc \in Active \cup {"wait"}
  BY <1>1, <1>3
<1>4. CASE job[j].pc \in Active /\ Ends(j)
  BY <1>2, <1>4
<1>5. CASE Truncate(j)
  BY <1>5 DEF Truncate, Active
<1>6. CASE Prove(j)
  <2>1. CASE Goto(j, "fail")
    BY <1>1, <1>6, <2>1 DEF Prove, At, Left, PCs, Active
  <2>2. CASE job' = [job EXCEPT ![j].pc = "store", ![j].made = work[WorkDir(j)]]
    <3>1. /\ job'[j].pc = "store" /\ job'[j].attempts = job[j].attempts
          /\ job'[j].stalled = job[j].stalled
          /\ \A i \in Jobs \ {j} : job'[i] = job[i]
      BY <2>2 DEF TypeOK, JobStates
    <3>2. job[j].pc = "prove" /\ Left("prove") = 4 /\ Left("store") = 3
      BY <1>6 DEF Prove, At, Left
    <3> QED  BY <3>1, <3>2, BudgetRange DEF Budget, Active
  <2> QED  BY <1>6, <2>1, <2>2 DEF Prove
<1>7. CASE Take(j) \/ Compile(j) \/ Compiled(j) \/ Setup(j)
  BY <1>3, <1>7 DEF Take, Compile, Compiled, Setup, At, Left, PCs, Active
<1>8. CASE Contributed(j) \/ WriteInput(j) \/ Store(j)
  BY <1>3, <1>8 DEF Contributed, WriteInput, Store, At, Left, PCs, Active
<1>9. CASE Begin(j) \/ Acknowledge(j)
  BY <1>3, <1>4, <1>9 DEF Begin, Acknowledge, At, Left, PCs, Active
<1>10. CASE StepFails(j)
  BY <1>3, <1>10 DEF StepFails, Left, PCs, Active
<1>11. CASE FailProof(j)
  BY <1>4, <1>11 DEF FailProof, At, Active
<1> QED
  BY <1>5, <1>6, <1>7, <1>8, <1>9, <1>10, <1>11 DEF Progress

LEMMA BrowseKeepsJobs == Browse => UNCHANGED job
  BY DEF Browse, Submit, Posted, PostLost, ProofAnswered, ProofFails, ListAnswered, ListFails,
     AskAgain, Visit

\* Whatever fails, whatever jobs run beside it and whenever the server restarts, each move
\* of a job spends of a natural number that nothing refills: the attempts of the queue and
\* the restarts that a job survives (proof.module.ts).  A job is never tried without end,
\* and one that has ended is never moved again; that it does move is what JobsEnd adds.
THEOREM JobsRunOut == Spec => [][JobsSpend]_vars
<1>1. ASSUME IInv, IInv', [Next]_vars
      PROVE  [JobsSpend]_vars
  <2>1. ASSUME NEW j \in Jobs, job'[j] # job[j]
        PROVE  job[j].pc \notin {"completed", "failed"} /\ Budget(j)' < Budget(j)
    <3>1. CASE Restart
      BY <2>1, <3>1, <1>1, RestartSpends DEF IInv, Active
    <3>2. CASE Browse
      BY <2>1, <3>2, BrowseKeepsJobs
    <3>3. ASSUME NEW i \in Jobs, Progress(i)
          PROVE  job[j].pc \notin {"completed", "failed"} /\ Budget(j)' < Budget(j)
      BY <2>1, <3>3, <1>1, ProgressSpends DEF Active
    <3> QED  BY <1>1, <2>1, <3>1, <3>2, <3>3 DEF Next, vars
  <2>2. \A j \in Jobs : Budget(j)' \in Nat
    <3>1. TypeOK'
      BY <1>1 DEF IInv
    <3>2. ASSUME NEW j \in Jobs
          PROVE  Budget(j)' \in Nat
      <4>1. /\ job'[j].attempts \in 0 .. MaxAttempts /\ job'[j].stalled \in 0 .. MaxStalled
            /\ MaxAttempts \in Nat /\ MaxStalled \in Nat
        BY <3>1, ProofJobsAssumption DEF TypeOK, JobStates
      <4>2. Left(job'[j].pc) \in 0 .. 12
        BY DEF Left
      <4> QED  BY <4>1, <4>2 DEF Budget
    <3> QED  BY <3>2
  <2> QED  BY <2>1, <2>2 DEF JobsSpend
<1> QED  BY <1>1, Inductive, PTL DEF Spec

================================================================================
