--------------------------- MODULE JobQueue_proofs ---------------------------
(***************************************************************************)
(* Theorems about the job queue, for any number of jobs, workers, tasks    *)
(* and stages.                                                             *)
(***************************************************************************)
EXTENDS JobQueue, FiniteSetTheorems, TLAPS

-----------------------------------------------------------------------------
(* Type correctness.  A process that is in the middle of something knows   *)
(* what it works on; a task that is inside a stage knows which.            *)

WellFormed ==
  /\ \A t \in Tasks :
       /\ Live(t) => task[t].job \in Jobs /\ task[t].worker \in Workers
       /\ task[t].pc \in {"boundary", "begin", "agent", "failStage"} => task[t].stage \in Stages
  /\ \A w \in Workers : loop[w].pc \in {"claim", "spawn"} => loop[w].job \in Jobs

TypeInv == TypeOK /\ WellFormed

USE DEF artifacts

LEMMA StagesTransformed ==
  ASSUME NEW f \in [Stages -> StageStatus]
  PROVE  /\ SkipOpen(f) \in [Stages -> StageStatus]
         /\ ResetOpen(f) \in [Stages -> StageStatus]
  BY DEF SkipOpen, ResetOpen, StageStatus

\* What Requeue leaves of a job is well typed.
LEMMA RequeueTypes ==
  ASSUME NEW j \in Jobs, Requeue(j),
         status \in [Jobs -> JobStatus \cup {"none"}],
         stale \in [Jobs -> BOOLEAN],
         stage \in [Jobs -> [Stages -> StageStatus]]
  PROVE  /\ status' \in [Jobs -> JobStatus \cup {"none"}]
         /\ stale' \in [Jobs -> BOOLEAN]
         /\ stage' \in [Jobs -> [Stages -> StageStatus]]
<1>1. "queued" \in JobStatus
  BY DEF JobStatus, Active
<1>2. status' \in [Jobs -> JobStatus \cup {"none"}]
  BY <1>1 DEF Requeue
<1>3. stale' \in [Jobs -> BOOLEAN]
  BY DEF Requeue
<1>4. stage' \in [Jobs -> [Stages -> StageStatus]]
  BY StagesTransformed DEF Requeue
<1> QED
  BY <1>2, <1>3, <1>4

LEMMA EndingCounted ==
  ASSUME endings \in [Jobs -> [Terminal -> Nat]], NEW j \in Jobs, NEW e \in Terminal
  PROVE  [endings EXCEPT ![j][e] = @ + 1] \in [Jobs -> [Terminal -> Nat]]
  OBVIOUS

LEMMA StageUpdated ==
  ASSUME stage \in [Jobs -> [Stages -> StageStatus]], NEW j \in Jobs, NEW s,
         NEW value \in StageStatus
  PROVE  [stage EXCEPT ![j][s] = value] \in [Jobs -> [Stages -> StageStatus]]
  OBVIOUS

LEMMA InitTypeInv == Init => TypeInv
<1> SUFFICES ASSUME Init PROVE TypeInv
  OBVIOUS
<1>1. RowTypes
  BY NumStagesAssumption
  DEF Init, RowTypes, NewStages, NoEndings, JobStatus, StageStatus, Active, Terminal
<1>2. IdleTask \in TaskState
  BY NumStagesAssumption DEF IdleTask, TaskState, TaskPC
<1>3. IdleLoop("down") \in LoopState
  BY DEF IdleLoop, LoopState, LoopPC
<1>4. ProcessTypes
  BY <1>2, <1>3 DEF Init, ProcessTypes, EmptyTable
<1>5. WellFormed
  BY DEF Init, WellFormed, Live, IdleTask, IdleLoop
<1> QED
  BY <1>1, <1>4, <1>5 DEF TypeInv, TypeOK

\* The rows of the database keep their types.
LEMMA StepRowTypes == TypeInv /\ [Next]_vars => RowTypes'
<1> SUFFICES ASSUME RowTypes, WellFormed, [Next]_vars PROVE RowTypes'
  BY DEF TypeInv, TypeOK
<1> USE DEF RowTypes, jobRow, history
<1>r. NumStages \in Nat /\ 1..NumStages = Stages
  BY NumStagesAssumption DEF Stages
<1>1. ASSUME NEW j \in Jobs, Submit(j) PROVE RowTypes'
  BY <1>1 DEF Submit, JobStatus, Active
<1>2. ASSUME NEW j \in Jobs, CancelQueued(j) PROVE RowTypes'
  <2>1. CASE status[j] = "queued"
    <3>1. [s \in Stages |-> "skipped"] \in [Stages -> StageStatus]
      BY DEF StageStatus
    <3>2. stage' \in [Jobs -> [Stages -> StageStatus]]
      BY <1>2, <2>1, <3>1 DEF CancelQueued
    <3>3. endings' \in [Jobs -> [Terminal -> Nat]]
      <4>1. endings' = [endings EXCEPT ![j]["cancelled"] = @ + 1]
        BY <1>2, <2>1 DEF CancelQueued
      <4> QED BY <4>1, EndingCounted DEF Terminal
    <3> QED BY <1>2, <2>1, <3>2, <3>3 DEF CancelQueued, JobStatus, Terminal
  <2>2. CASE status[j] # "queued"
    BY <1>2, <2>2 DEF CancelQueued
  <2> QED BY <2>1, <2>2
<1>3. ASSUME NEW j \in Jobs, CallStep(j) PROVE RowTypes'
  BY <1>3 DEF CallStep, CancelFlag, CancelStatus, CancelLocal
<1>u. ASSUME NEW j \in Jobs, NEW s \in Stages, Upgrade(j, s) PROVE RowTypes'
  BY <1>r, <1>u DEF Upgrade
<1>4. ASSUME NEW j \in Jobs, RetryFailed(j) PROVE RowTypes'
  <2>1. stage' \in [Jobs -> [Stages -> StageStatus]]
    BY <1>4, StagesTransformed DEF RetryFailed, Requeue
  <2>2. endings' \in [Jobs -> [Terminal -> Nat]]
    BY <1>4 DEF RetryFailed, NoEndings
  <2> QED BY <1>4, <2>1, <2>2 DEF RetryFailed, Requeue, JobStatus, Active
<1>5. ASSUME NEW j \in Jobs, TimeStep(j) PROVE RowTypes'
  BY <1>5 DEF TimeStep, BecomesDue, GoesStale
<1>6. ASSUME NEW w \in Workers, LoopStep(w) PROVE RowTypes'
  <2>1. CASE SelectClaim(w) \/ Spawn(w) \/ SelectStale(w)
    BY <2>1 DEF SelectClaim, Spawn, SelectStale
  <2>2. CASE Claim(w)
    BY <2>2 DEF Claim, JobStatus, Active
  <2>3. CASE Reap(w)
    <3>1. \A f \in [Terminal -> Nat], e \in Terminal : [f EXCEPT ![e] = @ + 1] \in [Terminal -> Nat]
      OBVIOUS
    <3>2. "failed" \in Terminal
      BY DEF Terminal
    <3>3. endings' = [j \in Jobs |-> IF j \in loop[w].batch
                                       THEN [endings[j] EXCEPT !["failed"] = @ + 1]
                                       ELSE endings[j]]
      BY <2>3 DEF Reap
    <3>4. endings' \in [Jobs -> [Terminal -> Nat]]
      BY <3>1, <3>2, <3>3
    <3> QED BY <2>3, <3>4 DEF Reap, JobStatus, Terminal
  <2>4. CASE SkipReaped(w)
    <3>1. PICK j : stage' = [stage EXCEPT ![j] = SkipOpen(@)]
      BY <2>4 DEF SkipReaped
    <3>2. stage' \in [Jobs -> [Stages -> StageStatus]]
      BY <3>1, StagesTransformed
    <3> QED BY <2>4, <3>2 DEF SkipReaped
  <2> QED BY <1>6, <2>1, <2>2, <2>3, <2>4 DEF LoopStep
<1>7. ASSUME NEW w \in Workers, ShutdownStep(w) \/ Stop(w) \/ Crash(w) PROVE RowTypes'
  BY <1>7 DEF ShutdownStep, InterruptDrained, Exit, Start, Stop, Crash
<1>8. ASSUME NEW t \in Tasks, TaskStep(t) PROVE RowTypes'
  <2>1. CASE Trace(t) \/ Load(t) \/ Boundary(t) \/ HandleInterrupt(t) \/ Done(t)
    BY <2>1 DEF Trace, Load, Boundary, HandleInterrupt, Done
  <2>2. CASE BeginStage(t) \/ StageSucceeds(t) \/ FailStage(t)
    <3>1. \E value \in StageStatus : UpdateStage(t, value)
      BY <2>2 DEF BeginStage, StageSucceeds, FailStage, StageStatus
    <3>2. task[t].job \in Jobs
      BY <2>2 DEF BeginStage, StageSucceeds, FailStage, WellFormed, Live
    <3>3. stage' \in [Jobs -> [Stages -> StageStatus]]
      BY <3>1, <3>2, StageUpdated DEF UpdateStage
    <3>4. CASE StageSucceeds(t)
      <4>1. task[t].stage \in 1..NumStages
        BY <1>r, <3>4 DEF StageSucceeds, WellFormed
      <4>2. redo' = [redo EXCEPT ![task[t].job] = IF @ = task[t].stage THEN @ + 1 ELSE @]
        BY <3>4 DEF StageSucceeds
      <4>3. redo' \in [Jobs -> 1..NumStages + 1]
        BY <1>r, <3>2, <4>1, <4>2
      <4> QED BY <3>3, <3>4, <4>3 DEF StageSucceeds
    <3> QED BY <2>2, <3>3, <3>4 DEF BeginStage, FailStage
  <2>3. CASE RetryLater(t)
    <3>1. task[t].job \in Jobs
      BY <2>3 DEF RetryLater, WellFormed, Live
    <3>2. CASE status[task[t].job] = "running"
      <4>1. /\ Requeue(task[t].job)
            /\ retries' = [retries EXCEPT ![task[t].job] = @ + 1]
            /\ due' = [due EXCEPT ![task[t].job] = FALSE]
            /\ UNCHANGED <<cancelRequested, held, endings, asked, artifacts>>
        BY <2>3, <3>2 DEF RetryLater
      <4>2. retries' \in [Jobs -> Nat] /\ due' \in [Jobs -> BOOLEAN]
        BY <3>1, <4>1
      <4>3. /\ status' \in [Jobs -> JobStatus \cup {"none"}]
            /\ stale' \in [Jobs -> BOOLEAN]
            /\ stage' \in [Jobs -> [Stages -> StageStatus]]
        BY <3>1, <4>1, RequeueTypes
      <4> QED BY <4>1, <4>2, <4>3
    <3>3. CASE status[task[t].job] # "running"
      BY <2>3, <3>3 DEF RetryLater
    <3> QED BY <3>2, <3>3
  <2>4. CASE SkipOpenStages(t)
    <3>1. task[t].job \in Jobs
      BY <2>4 DEF SkipOpenStages, WellFormed, Live
    <3> QED BY <2>4, <3>1, StagesTransformed DEF SkipOpenStages
  <2>5. CASE FinishJob(t)
    <3> DEFINE j == task[t].job
               outcome == Outcome[task[t].pc]
    <3>1. outcome \in Terminal
      BY <2>5 DEF FinishJob, Outcome, Terminal
    <3>2. Finish(j, outcome)
      BY <2>5 DEF FinishJob
    <3>4. j \in Jobs
      BY <2>5 DEF FinishJob, Outcome, WellFormed, Live
    <3> HIDE DEF outcome, j
    <3>3. endings' \in [Jobs -> [Terminal -> Nat]]
      <4>1. CASE endings' = [endings EXCEPT ![j][outcome] = @ + 1]
        BY <3>1, <3>4, <4>1, EndingCounted
      <4>2. CASE UNCHANGED endings
        BY <4>2
      <4> QED BY <3>2, <4>1, <4>2 DEF Finish
    <3>5. status' \in [Jobs -> JobStatus \cup {"none"}] /\ held' \in [Jobs -> BOOLEAN]
      BY <3>1, <3>2, <3>4 DEF Finish, JobStatus
    <3> QED BY <2>5, <3>3, <3>5 DEF FinishJob
  <2>6. CASE ResetForRetry(t)
    <3>1. task[t].job \in Jobs
      BY <2>6 DEF ResetForRetry, WellFormed, Live
    <3>2. CASE status[task[t].job] = "running"
      <4>1. /\ Requeue(task[t].job)
            /\ due' = [due EXCEPT ![task[t].job] = TRUE]
            /\ UNCHANGED <<cancelRequested, retries, held, endings, asked, artifacts>>
        BY <2>6, <3>2 DEF ResetForRetry
      <4>2. due' \in [Jobs -> BOOLEAN]
        BY <3>1, <4>1
      <4>3. /\ status' \in [Jobs -> JobStatus \cup {"none"}]
            /\ stale' \in [Jobs -> BOOLEAN]
            /\ stage' \in [Jobs -> [Stages -> StageStatus]]
        BY <3>1, <4>1, RequeueTypes
      <4> QED BY <4>1, <4>2, <4>3
    <3>3. CASE status[task[t].job] # "running"
      BY <2>6, <3>3 DEF ResetForRetry
    <3> QED BY <3>2, <3>3
  <2> QED
    BY <1>8, <2>1, <2>2, <2>3, <2>4, <2>5, <2>6 DEF TaskStep
<1>9. ASSUME NEW t \in Tasks, Heartbeat(t) PROVE RowTypes'
  BY <1>9 DEF Heartbeat
<1>10. CASE UNCHANGED vars
  BY <1>10 DEF vars
<1> QED
  BY <1>1, <1>2, <1>3, <1>u, <1>4, <1>5, <1>6, <1>7, <1>8, <1>9, <1>10
  DEF Next

\* What a move of one task, and what the end of a process, do to the tasks.
LEMMA TaskGoes ==
  ASSUME task \in [Tasks -> TaskState], NEW t, NEW pc \in TaskPC
  PROVE  [task EXCEPT ![t].pc = pc] \in [Tasks -> TaskState]
  BY DEF TaskState

\* What a cancel does to a task: it keeps its job, its worker, its stage and its retries,
\* and it is dropped, goes to its handler, or leaves the handler on its own.
CancelMoves(t) ==
  /\ task'[t].job = task[t].job /\ task'[t].worker = task[t].worker
  /\ task'[t].stage = task[t].stage /\ task'[t].retries = task[t].retries
  /\ task'[t].pc # "idle" <=> Live(t)
  /\ \/ task'[t] = task[t]
     \/ /\ task[t].pc = "trace" /\ task'[t].pc = "dropped"
        /\ task'[t].shielded = task[t].shielded /\ task'[t].detached = task[t].detached
     \/ /\ ~task[t].shielded /\ task[t].pc \notin {"idle", "trace", "dropped"}
        /\ task'[t].pc = "interrupted" /\ task'[t].shielded
        /\ task'[t].detached = task[t].detached
     \/ /\ Detaches(t) /\ task'[t].pc = task[t].pc /\ task'[t].shielded /\ task'[t].detached

LEMMA TasksCancelled ==
  ASSUME task \in [Tasks -> TaskState], NEW S, CancelTasks(S)
  PROVE  /\ task' \in [Tasks -> TaskState]
         /\ \A t \in Tasks : CancelMoves(t)
         /\ \A t \in Tasks : t \notin S => task'[t] = task[t]
         /\ \A t \in S \cap Tasks : Detaches(t) => task'[t].detached
         /\ \A t \in Tasks : ~Detaches(t) => task'[t].detached = task[t].detached
<1>1. ASSUME NEW t \in Tasks, NEW r, r = Cancelled(t)
      PROVE  /\ r \in TaskState
             /\ r.job = task[t].job /\ r.worker = task[t].worker
             /\ r.stage = task[t].stage /\ r.retries = task[t].retries
             /\ r.pc # "idle" <=> Live(t)
             /\ \/ r = task[t] /\ ~Detaches(t)
                \/ /\ task[t].pc = "trace" /\ r.pc = "dropped"
                   /\ r.shielded = task[t].shielded /\ r.detached = task[t].detached
                   /\ ~Detaches(t)
                \/ /\ ~task[t].shielded /\ task[t].pc \notin {"idle", "trace", "dropped"}
                   /\ r.pc = "interrupted" /\ r.shielded /\ r.detached = task[t].detached
                   /\ ~Detaches(t)
                \/ Detaches(t) /\ r.pc = task[t].pc /\ r.shielded /\ r.detached
  <2>0. task[t] \in TaskState
    OBVIOUS
  <2>1. CASE task[t].pc = "trace"
    <3>1. r = [task[t] EXCEPT !.pc = "dropped"] /\ ~Detaches(t)
      BY <1>1, <2>1 DEF Cancelled, Detaches, HandlerPC
    <3> QED BY <2>0, <2>1, <3>1 DEF TaskState, TaskPC, Live
  <2>2. CASE task[t].pc \notin {"idle", "trace", "dropped"} /\ ~task[t].shielded
    <3>1. r = [task[t] EXCEPT !.pc = "interrupted", !.shielded = TRUE] /\ ~Detaches(t)
      BY <1>1, <2>2 DEF Cancelled, Detaches
    <3> QED BY <2>0, <2>2, <3>1 DEF TaskState, TaskPC, Live
  <2>3. CASE Detaches(t)
    <3>1. r = [task[t] EXCEPT !.detached = TRUE]
      BY <1>1, <2>3 DEF Cancelled, Detaches, HandlerPC
    <3> QED BY <2>0, <2>3, <3>1 DEF TaskState, TaskPC, Live, Detaches, HandlerPC
  <2>4. CASE /\ task[t].pc # "trace" /\ ~Detaches(t)
             /\ ~(task[t].pc \notin {"idle", "trace", "dropped"} /\ ~task[t].shielded)
    <3>1. r = task[t]
      BY <1>1, <2>4 DEF Cancelled
    <3> QED BY <2>0, <2>4, <3>1 DEF Live
  <2> QED BY <2>1, <2>2, <2>3, <2>4
<1>2. task' = [t \in Tasks |-> IF t \in S THEN Cancelled(t) ELSE task[t]]
  BY DEF CancelTasks
<1>3. \A t \in Tasks : task'[t] = Cancelled(t) \/ task'[t] = task[t]
  BY <1>2
<1>4. task' \in [Tasks -> TaskState]
  BY <1>1, <1>2
<1>5. \A t \in Tasks : CancelMoves(t)
  BY <1>1, <1>3 DEF CancelMoves, Live
<1>6. \A t \in Tasks : t \notin S => task'[t] = task[t]
  BY <1>2
<1>7. \A t \in S \cap Tasks : Detaches(t) => task'[t].detached
  BY <1>1, <1>2
<1>8. \A t \in Tasks : ~Detaches(t) => task'[t].detached = task[t].detached
  BY <1>1, <1>3
<1> QED
  BY <1>4, <1>5, <1>6, <1>7, <1>8

LEMMA TableCancelled ==
  ASSUME table \in [Workers -> [Jobs -> Tasks \cup {Nil}]], NEW S, CancelTasks(S)
  PROVE  table' \in [Workers -> [Jobs -> Tasks \cup {Nil}]]
  BY DEF CancelTasks

LEMMA TaskAdvances ==
  ASSUME task \in [Tasks -> TaskState], NEW t, NEW pc \in TaskPC, NEW s \in 0..NumStages + 1,
         NEW n \in Nat
  PROVE  /\ [task EXCEPT ![t].pc = pc, ![t].stage = s] \in [Tasks -> TaskState]
         /\ [task EXCEPT ![t].pc = pc, ![t].stage = s, ![t].retries = n] \in [Tasks -> TaskState]
<1>1. \A r \in TaskState :
        /\ [r EXCEPT !.pc = pc, !.stage = s] \in TaskState
        /\ [r EXCEPT !.pc = pc, !.stage = s, !.retries = n] \in TaskState
  BY DEF TaskState
<1>2. [task EXCEPT ![t].pc = pc, ![t].stage = s] \in [Tasks -> TaskState]
  BY <1>1
<1>3. [task EXCEPT ![t].pc = pc, ![t].stage = s, ![t].retries = n] \in [Tasks -> TaskState]
  BY <1>1
<1> QED
  BY <1>2, <1>3

LEMMA LoopGoes ==
  ASSUME loop \in [Workers -> LoopState], NEW w, NEW pc \in LoopPC
  PROVE  [loop EXCEPT ![w].pc = pc] \in [Workers -> LoopState]
  BY DEF LoopState

LEMMA LoopTakes ==
  ASSUME loop \in [Workers -> LoopState], NEW w, NEW pc \in LoopPC
  PROVE  /\ \A j \in Jobs : [loop EXCEPT ![w].pc = pc, ![w].job = j] \in [Workers -> LoopState]
         /\ \A S \in SUBSET Jobs :
              [loop EXCEPT ![w].pc = pc, ![w].batch = S] \in [Workers -> LoopState]
<1>1. \A r \in LoopState, j \in Jobs : [r EXCEPT !.pc = pc, !.job = j] \in LoopState
  BY DEF LoopState
<1>2. \A r \in LoopState, S \in SUBSET Jobs : [r EXCEPT !.pc = pc, !.batch = S] \in LoopState
  BY DEF LoopState
<1>3. \A j \in Jobs : [loop EXCEPT ![w].pc = pc, ![w].job = j] \in [Workers -> LoopState]
  BY <1>1
<1>4. \A S \in SUBSET Jobs :
        [loop EXCEPT ![w].pc = pc, ![w].batch = S] \in [Workers -> LoopState]
  BY <1>2
<1> QED
  BY <1>3, <1>4

LEMMA IdleValues ==
  /\ IdleTask \in TaskState
  /\ EmptyTable \in [Jobs -> Tasks \cup {Nil}]
  /\ \A pc \in LoopPC : IdleLoop(pc) \in LoopState
  BY NumStagesAssumption DEF IdleTask, TaskState, TaskPC, EmptyTable, IdleLoop, LoopState

\* The state of the processes keeps its type.
LEMMA StepProcessTypes == TypeInv /\ [Next]_vars => ProcessTypes'
<1> SUFFICES ASSUME RowTypes, ProcessTypes, WellFormed, [Next]_vars PROVE ProcessTypes'
  BY DEF TypeInv, TypeOK
<1> USE DEF ProcessTypes, process, bounds
<1>u. ASSUME NEW j \in Jobs, NEW s \in Stages, Upgrade(j, s) PROVE ProcessTypes'
  BY <1>u DEF Upgrade
<1>1. ASSUME NEW j \in Jobs, Submit(j) \/ CancelQueued(j) \/ RetryFailed(j) \/ TimeStep(j)
      PROVE  ProcessTypes'
  BY <1>1 DEF Submit, CancelQueued, RetryFailed, TimeStep, BecomesDue, GoesStale
<1>2. ASSUME NEW j \in Jobs, CallStep(j) PROVE ProcessTypes'
  <2>1. CASE CancelFlag(j) \/ CancelStatus(j)
    BY <2>1 DEF CancelFlag, CancelStatus
  <2>2. CASE CancelLocal(j)
    <3>1. CASE UNCHANGED <<task, table>>
      BY <2>2, <3>1 DEF CancelLocal
    <3>2. CASE \E S : CancelTasks(S)
      BY <2>2, <3>2, TasksCancelled, TableCancelled DEF CancelLocal
    <3> QED BY <2>2, <3>1, <3>2 DEF CancelLocal
  <2> QED BY <1>2, <2>1, <2>2 DEF CallStep
<1>3. ASSUME NEW w \in Workers, LoopStep(w) PROVE ProcessTypes'
  <2>1. CASE SelectClaim(w)
    <3>1. PICK j \in Jobs : loop' = [loop EXCEPT ![w].pc = "claim", ![w].job = j]
      BY <2>1 DEF SelectClaim
    <3>2. loop' \in [Workers -> LoopState]
      BY <3>1, LoopTakes DEF LoopPC
    <3> QED BY <2>1, <3>2 DEF SelectClaim
  <2>2. CASE Claim(w)
    <3>1. loop' \in [Workers -> LoopState]
      <4>1. CASE loop' = [loop EXCEPT ![w].pc = "spawn"]
        BY <4>1, LoopGoes DEF LoopPC
      <4>2. CASE loop' = [loop EXCEPT ![w] = IdleLoop("ready")]
        BY <4>2, IdleValues DEF LoopPC
      <4> QED BY <2>2, <4>1, <4>2 DEF Claim
    <3> QED BY <2>2, <3>1 DEF Claim
  <2>3. CASE Spawn(w)
    <3>1. PICK t \in Tasks :
            /\ task' = [task EXCEPT ![t] = [IdleTask EXCEPT !.pc = "trace", !.job = loop[w].job,
                                                            !.worker = w]]
            /\ table' = [table EXCEPT ![w][loop[w].job] = t]
      BY <2>3 DEF Spawn
    <3>2. loop[w].job \in Jobs
      BY <2>3 DEF Spawn, WellFormed
    <3>3. [IdleTask EXCEPT !.pc = "trace", !.job = loop[w].job, !.worker = w] \in TaskState
      BY <3>2, IdleValues DEF TaskState, TaskPC
    <3>4. task' \in [Tasks -> TaskState]
      BY <3>1, <3>3
    <3>5. loop' \in [Workers -> LoopState]
      BY <2>3, IdleValues DEF Spawn, LoopPC
    <3> QED BY <2>3, <3>1, <3>2, <3>4, <3>5 DEF Spawn
  <2>4. CASE SelectStale(w)
    BY <2>4, LoopTakes DEF SelectStale, StaleJobs, LoopPC
  <2>5. CASE Reap(w)
    BY <2>5, LoopGoes DEF Reap, LoopPC
  <2>6. CASE SkipReaped(w)
    <3>1. loop' \in [Workers -> LoopState]
      <4>1. \A j : [loop EXCEPT ![w].batch = @ \ {j}] \in [Workers -> LoopState]
        BY DEF LoopState
      <4> QED BY <2>6, <4>1, IdleValues DEF SkipReaped, LoopPC
    <3> QED BY <2>6, <3>1 DEF SkipReaped
  <2> QED BY <1>3, <2>1, <2>2, <2>3, <2>4, <2>5, <2>6 DEF LoopStep
<1>4. ASSUME NEW w \in Workers, Vanish(w)
      PROVE  /\ task' \in [Tasks -> TaskState]
             /\ table' \in [Workers -> [Jobs -> Tasks \cup {Nil}]]
             /\ loop' \in [Workers -> LoopState]
  BY <1>4, IdleValues DEF Vanish, LoopPC
<1>5. ASSUME NEW w \in Workers, ShutdownStep(w) PROVE ProcessTypes'
  <2>1. CASE InterruptDrained(w)
    <3>1. PICK S : CancelTasks(S)
      BY <2>1 DEF InterruptDrained
    <3>2. loop' \in [Workers -> LoopState]
      BY <2>1, LoopGoes DEF InterruptDrained, LoopPC
    <3> QED BY <2>1, <3>1, <3>2, TasksCancelled, TableCancelled DEF InterruptDrained
  <2>2. CASE Exit(w)
    BY <2>2, <1>4 DEF Exit
  <2>3. CASE Start(w)
    BY <2>3, IdleValues DEF Start, LoopPC
  <2> QED BY <1>5, <2>1, <2>2, <2>3 DEF ShutdownStep
<1>6. ASSUME NEW w \in Workers, Stop(w) PROVE ProcessTypes'
  BY <1>6, IdleValues DEF Stop, LoopPC
<1>7. ASSUME NEW w \in Workers, Crash(w) PROVE ProcessTypes'
  BY <1>7, <1>4 DEF Crash
<1>8. ASSUME NEW t \in Tasks, TaskStep(t) PROVE ProcessTypes'
  <2>1. CASE Load(t)
    <3>1. task[t].job \in Jobs
      BY <2>1 DEF Load, WellFormed, Live
    <3>2. task' \in [Tasks -> TaskState]
      <4>1. retries[task[t].job] \in Nat
        BY <3>1 DEF RowTypes
      <4>2. 1..NumStages + 1 \subseteq 0..NumStages + 1
        BY NumStagesAssumption
      <4>3. \A s : At(s) \in TaskPC
        BY DEF At, TaskPC
      <4>4. CASE Goto(t, "failSkip")
        BY <4>4, TaskGoes DEF Goto, TaskPC
      <4>5. CASE \E s \in 1..NumStages + 1 :
                   task' = [task EXCEPT ![t] = [@ EXCEPT !.pc = At(s), !.stage = s,
                                                         !.retries = retries[task[t].job]]]
        <5>1. PICK s \in 1..NumStages + 1 :
                     task' = [task EXCEPT ![t].pc = At(s), ![t].stage = s,
                                          ![t].retries = retries[task[t].job]]
          BY <4>5
        <5>2. s \in 0..NumStages + 1 /\ At(s) \in TaskPC
          BY <4>2, <4>3
        <5> QED BY <4>1, <5>1, <5>2, TaskAdvances
      <4> QED BY <2>1, <4>4, <4>5 DEF Load
    <3> QED BY <2>1, <3>2 DEF Load
  <2>2. CASE StageSucceeds(t)
    <3>1. task[t].stage \in Stages
      BY <2>2 DEF StageSucceeds, WellFormed
    <3>2. task' \in [Tasks -> TaskState]
      <4>1. task[t].stage + 1 \in 0..NumStages + 1
        BY <3>1, NumStagesAssumption DEF Stages
      <4>2. At(task[t].stage + 1) \in TaskPC
        BY DEF At, TaskPC
      <4> QED BY <2>2, <4>1, <4>2, TaskAdvances DEF StageSucceeds
    <3> QED BY <2>2, <3>2 DEF StageSucceeds
  <2>3. CASE Done(t)
    BY <2>3, IdleValues DEF Done
  <2>4. CASE \E pc \in TaskPC : Goto(t, pc) /\ UNCHANGED <<table, loop, call, bounds>>
    <3>1. task' \in [Tasks -> TaskState]
      BY <2>4, TaskGoes DEF Goto
    <3> QED BY <2>4, <3>1
  <2>5. Trace(t) \/ Boundary(t) \/ BeginStage(t) \/ RetryLater(t) \/ FailStage(t) \/ SkipOpenStages(t)
          \/ FinishJob(t) \/ HandleInterrupt(t) \/ ResetForRetry(t)
        => \E pc \in TaskPC : Goto(t, pc) /\ UNCHANGED <<table, loop, call, bounds>>
    BY DEF Trace, Boundary, BeginStage, RetryLater, FailStage, SkipOpenStages, FinishJob,
           HandleInterrupt, ResetForRetry, AfterInterrupt, TaskPC
  <2> QED BY <1>8, <2>1, <2>2, <2>3, <2>4, <2>5 DEF TaskStep
<1>9. ASSUME NEW t \in Tasks, Heartbeat(t) PROVE ProcessTypes'
  BY <1>9 DEF Heartbeat
<1>10. CASE UNCHANGED vars
  BY <1>10 DEF vars
<1> QED
  BY <1>u, <1>1, <1>2, <1>3, <1>5, <1>6, <1>7, <1>8, <1>9, <1>10
  DEF Next

\* A live task keeps its job and its worker; only a task inside the pipeline
\* moves to one of the points that use its stage.
InStage == {"boundary", "begin", "agent", "failStage"}

LEMMA StepWellFormed == TypeInv /\ [Next]_vars => WellFormed'
<1> SUFFICES ASSUME RowTypes, ProcessTypes, WellFormed, [Next]_vars PROVE WellFormed'
  BY DEF TypeInv, TypeOK
<1> USE DEF WellFormed, Live
<1>0. /\ DOMAIN task = Tasks /\ DOMAIN loop = Workers
      /\ \A t \in Tasks : task[t] \in TaskState
      /\ \A w \in Workers : loop[w] \in LoopState
  BY DEF ProcessTypes
<1>1. ASSUME UNCHANGED <<task, loop>> PROVE WellFormed'
  BY <1>1
<1>2. ASSUME NEW t \in Tasks, NEW pc, Goto(t, pc), Live(t), UNCHANGED loop,
             pc \in InStage => task[t].pc \in InStage
      PROVE  WellFormed'
  BY <1>0, <1>2 DEF Goto, TaskState, InStage
<1>3. ASSUME NEW S, CancelTasks(S),
             \A w \in Workers : loop'[w] = loop[w] \/ loop'[w].pc \notin {"claim", "spawn"}
      PROVE  WellFormed'
  <2>1. \A t \in Tasks : CancelMoves(t)
    BY <1>3, TasksCancelled DEF ProcessTypes
  <2> QED BY <1>3, <2>1 DEF CancelMoves
<1>4. ASSUME NEW w \in Workers, Vanish(w) PROVE WellFormed'
  BY <1>0, <1>4 DEF Vanish, IdleTask, IdleLoop
<1>u. ASSUME NEW j \in Jobs, NEW s \in Stages, Upgrade(j, s) PROVE WellFormed'
  BY <1>1, <1>u DEF Upgrade, process
<1>5. ASSUME NEW j \in Jobs,
             Submit(j) \/ CancelQueued(j) \/ RetryFailed(j) \/ TimeStep(j) PROVE WellFormed'
  BY <1>1, <1>5 DEF Submit, CancelQueued, RetryFailed, TimeStep, BecomesDue, GoesStale, process
<1>6. ASSUME NEW j \in Jobs, CallStep(j) PROVE WellFormed'
  <2>1. CASE CancelFlag(j) \/ CancelStatus(j)
    BY <1>1, <2>1 DEF CancelFlag, CancelStatus
  <2>2. CASE CancelLocal(j)
    <3>1. CASE UNCHANGED task
      BY <1>1, <2>2, <3>1 DEF CancelLocal
    <3>2. CASE \E S : CancelTasks(S)
      BY <1>3, <2>2, <3>2 DEF CancelLocal
    <3> QED BY <2>2, <3>1, <3>2 DEF CancelLocal
  <2> QED BY <1>6, <2>1, <2>2 DEF CallStep
<1>7. ASSUME NEW w \in Workers, LoopStep(w) PROVE WellFormed'
  <2>1. CASE SelectClaim(w)
    BY <1>0, <2>1 DEF SelectClaim, LoopState
  <2>2. CASE Claim(w)
    BY <1>0, <2>2 DEF Claim, LoopState, IdleLoop
  <2>3. CASE Spawn(w)
    <3>1. PICK t \in Tasks :
            task' = [task EXCEPT ![t] = [IdleTask EXCEPT !.pc = "trace", !.job = loop[w].job,
                                                         !.worker = w]]
      BY <2>3 DEF Spawn
    <3> DEFINE new == [IdleTask EXCEPT !.pc = "trace", !.job = loop[w].job, !.worker = w]
    <3>2. new.pc = "trace" /\ new.job \in Jobs /\ new.worker \in Workers
      BY <2>3 DEF Spawn, IdleTask
    <3>3. loop' = [loop EXCEPT ![w] = IdleLoop("ready")]
      BY <2>3 DEF Spawn
    <3>4. task' = [task EXCEPT ![t] = new]
      BY <3>1
    <3> HIDE DEF new
    <3> QED BY <1>0, <3>2, <3>3, <3>4 DEF IdleLoop
  <2>4. CASE SelectStale(w) \/ Reap(w) \/ SkipReaped(w)
    <3>1. CASE SelectStale(w)
      BY <1>0, <2>4, <3>1 DEF SelectStale, LoopState
    <3>2. CASE Reap(w)
      BY <1>0, <2>4, <3>2 DEF Reap, LoopState
    <3>3. CASE SkipReaped(w)
      <4>1. PICK j \in Jobs : IF loop[w].batch = {j}
                                THEN loop' = [loop EXCEPT ![w] = IdleLoop("ready")]
                                ELSE loop' = [loop EXCEPT ![w].batch = @ \ {j}]
        BY <1>0, <3>3 DEF SkipReaped, LoopState
      <4>2. UNCHANGED task
        BY <3>3 DEF SkipReaped
      <4>3. \A v \in Workers : loop'[v].pc \in {"claim", "spawn"} => loop'[v] = loop[v]
        BY <1>0, <3>3, <4>1 DEF SkipReaped, IdleLoop, LoopState
      <4> QED BY <4>2, <4>3
    <3> QED BY <2>4, <3>1, <3>2, <3>3
  <2> QED BY <1>7, <2>1, <2>2, <2>3, <2>4 DEF LoopStep
<1>8. ASSUME NEW w \in Workers, ShutdownStep(w) \/ Stop(w) \/ Crash(w) PROVE WellFormed'
  <2>1. CASE InterruptDrained(w)
    <3>1. PICK S : CancelTasks(S)
      BY <2>1 DEF InterruptDrained
    <3>2. \A v \in Workers : loop'[v] = loop[v] \/ loop'[v].pc = "gather"
      BY <1>0, <2>1 DEF InterruptDrained, LoopState
    <3> QED BY <1>3, <3>1, <3>2
  <2>2. CASE Exit(w) \/ Crash(w)
    BY <1>4, <2>2 DEF Exit, Crash
  <2>3. CASE Start(w) \/ Stop(w)
    BY <1>0, <2>3 DEF Start, Stop, IdleLoop
  <2> QED BY <1>8, <2>1, <2>2, <2>3 DEF ShutdownStep
<1>9. ASSUME NEW t \in Tasks, TaskStep(t) PROVE WellFormed'
  <2>1. CASE Load(t)
    <3>1. CASE Goto(t, "failSkip")
      BY <1>2, <2>1, <3>1 DEF Load, InStage
    <3>2. CASE \E s \in 1..NumStages + 1 :
                 task' = [task EXCEPT ![t] = [@ EXCEPT !.pc = At(s), !.stage = s,
                                                       !.retries = retries[task[t].job]]]
      <4>1. PICK s \in 1..NumStages + 1 :
                   task' = [task EXCEPT ![t] = [@ EXCEPT !.pc = At(s), !.stage = s,
                                                         !.retries = retries[task[t].job]]]
        BY <3>2
      <4>2. At(s) = "boundary" => s \in Stages
        BY NumStagesAssumption DEF At, Stages
      <4>3. At(s) \in {"boundary", "succeed"}
        BY DEF At
      <4>4. UNCHANGED loop
        BY <2>1 DEF Load
      <4> DEFINE new == [task[t] EXCEPT !.pc = At(s), !.stage = s,
                                        !.retries = retries[task[t].job]]
      <4>5. task[t] \in TaskState /\ task \in [Tasks -> TaskState]
        BY DEF ProcessTypes
      <4>6. task' = [task EXCEPT ![t] = new]
        BY <4>1, <4>5
      <4>7. /\ new.pc = At(s) /\ new.stage = s
            /\ new.job = task[t].job /\ new.worker = task[t].worker
        BY <4>5 DEF TaskState
      <4>8. task[t].pc = "load"
        BY <2>1 DEF Load
      <4> HIDE DEF new
      <4>9. /\ task'[t] = new
            /\ \A u \in Tasks \ {t} : task'[u] = task[u]
        BY <4>5, <4>6
      <4> QED BY <4>2, <4>3, <4>4, <4>7, <4>8, <4>9
    <3> QED BY <2>1, <3>1, <3>2 DEF Load
  <2>2. CASE StageSucceeds(t)
    BY <1>0, <2>2, NumStagesAssumption DEF StageSucceeds, At, Stages, TaskState
  <2>3. CASE Done(t)
    BY <1>0, <2>3 DEF Done, IdleTask, TaskState
  <2>4. CASE Trace(t) \/ Boundary(t) \/ BeginStage(t) \/ RetryLater(t) \/ FailStage(t)
    BY <1>2, <2>4 DEF Trace, Boundary, BeginStage, RetryLater, FailStage, InStage
  <2>5. CASE SkipOpenStages(t) \/ FinishJob(t) \/ HandleInterrupt(t) \/ ResetForRetry(t)
    BY <1>2, <2>5 DEF SkipOpenStages, FinishJob, Outcome, HandleInterrupt, AfterInterrupt,
                      ResetForRetry, InStage
  <2> QED BY <1>9, <2>1, <2>2, <2>3, <2>4, <2>5 DEF TaskStep
<1>10. ASSUME NEW t \in Tasks, Heartbeat(t) PROVE WellFormed'
  BY <1>1, <1>10 DEF Heartbeat, process
<1>11. CASE UNCHANGED vars
  BY <1>1, <1>11 DEF vars, process
<1> QED
  BY <1>u, <1>5, <1>6, <1>7, <1>8, <1>9, <1>10, <1>11 DEF Next

LEMMA TypeInvariant == Spec => []TypeInv
<1>1. TypeInv /\ [Next]_vars => TypeInv'
  BY StepRowTypes, StepProcessTypes, StepWellFormed DEF TypeInv, TypeOK
<1> QED
  BY InitTypeInv, <1>1, PTL DEF Spec

\* Every variable keeps its type.
THEOREM TypeCorrect == Spec => []TypeOK
  BY TypeInvariant, PTL DEF TypeInv

-----------------------------------------------------------------------------
(* The queue implements the lifecycle: every step of a worker, a reaper or *)
(* a request is one move of the abstract specification, or none.           *)

LEMMA StepImplements ==
  ASSUME TypeInv, [Next]_vars
  PROVE  [Lifecycle!Next]_(Lifecycle!vars)
<1> USE DEF Lifecycle!vars, jobRow
<1>0. /\ DOMAIN status = Jobs /\ DOMAIN held = Jobs
      /\ \A t \in Tasks : Live(t) => task[t].job \in Jobs
  BY DEF TypeInv, TypeOK, RowTypes, WellFormed
<1>1. ASSUME NEW j \in Jobs, Submit(j) PROVE Lifecycle!Submit(j)
  BY <1>1 DEF Submit, Lifecycle!Submit
<1>2. ASSUME NEW j \in Jobs, CancelQueued(j)
      PROVE  Lifecycle!Withdraw(j) \/ UNCHANGED Lifecycle!vars
  BY <1>2 DEF CancelQueued, Lifecycle!Withdraw
<1>3. ASSUME NEW j \in Jobs, RetryFailed(j) PROVE Lifecycle!Retry(j)
  BY <1>3 DEF RetryFailed, Requeue, Lifecycle!Retry
<1>u. ASSUME NEW j \in Jobs, NEW s \in Stages, Upgrade(j, s) PROVE UNCHANGED Lifecycle!vars
  BY <1>u DEF Upgrade
<1>4. ASSUME NEW j \in Jobs, CallStep(j) \/ TimeStep(j) PROVE UNCHANGED Lifecycle!vars
  BY <1>4 DEF CallStep, CancelFlag, CancelStatus, CancelLocal, TimeStep, BecomesDue, GoesStale
<1>5. ASSUME NEW w \in Workers, LoopStep(w)
      PROVE  \/ UNCHANGED Lifecycle!vars
             \/ \E j \in Jobs : Lifecycle!Claim(j)
             \/ \E lost \in SUBSET Jobs : Lifecycle!Abandon(lost)
  <2>1. CASE SelectClaim(w) \/ Spawn(w) \/ SelectStale(w) \/ SkipReaped(w)
    BY <2>1 DEF SelectClaim, Spawn, SelectStale, SkipReaped
  <2>2. CASE Claim(w)
    <3>1. loop[w].job \in Jobs
      BY <2>2 DEF Claim, TypeInv, WellFormed
    <3> QED BY <2>2, <3>1 DEF Claim, Claimable, Lifecycle!Claim
  <2>3. CASE Reap(w)
    <3>1. Lost(loop[w].batch) \in SUBSET Jobs
      BY DEF Lost, TypeInv, TypeOK, ProcessTypes, LoopState
    <3>2. Lifecycle!Abandon(Lost(loop[w].batch))
      BY <2>3 DEF Reap, Lost, Lifecycle!Abandon
    <3> QED BY <3>1, <3>2
  <2> QED BY <1>5, <2>1, <2>2, <2>3 DEF LoopStep
<1>6. ASSUME NEW w \in Workers, ShutdownStep(w) \/ Stop(w) \/ Crash(w)
      PROVE  UNCHANGED Lifecycle!vars
  BY <1>6 DEF ShutdownStep, InterruptDrained, Exit, Start, Stop, Crash
<1>7. ASSUME NEW t \in Tasks, TaskStep(t)
      PROVE  \/ UNCHANGED Lifecycle!vars
             \/ \E j \in Jobs : \/ Lifecycle!Requeue(j)
                               \/ \E outcome \in {"succeeded", "failed", "cancelled"} :
                                     Lifecycle!End(j, outcome)
  <2>1. CASE Trace(t) \/ Load(t) \/ Boundary(t) \/ BeginStage(t) \/ StageSucceeds(t)
             \/ FailStage(t) \/ SkipOpenStages(t) \/ HandleInterrupt(t) \/ Done(t)
    BY <2>1 DEF Trace, Load, Boundary, BeginStage, StageSucceeds, FailStage, SkipOpenStages,
                HandleInterrupt, Done
  <2>2. CASE RetryLater(t)
    BY <1>0, <2>2 DEF RetryLater, Live, Requeue, Lifecycle!Requeue
  <2>3. CASE ResetForRetry(t)
    BY <1>0, <2>3 DEF ResetForRetry, Live, Requeue, Lifecycle!Requeue
  <2>4. CASE FinishJob(t)
    <3>1. task[t].job \in Jobs
      BY <1>0, <2>4 DEF FinishJob, Outcome, Live
    <3>2. PICK outcome \in {"succeeded", "failed", "cancelled"} : Finish(task[t].job, outcome)
      BY <2>4 DEF FinishJob, Outcome
    <3> QED BY <3>1, <3>2 DEF Finish, Lifecycle!End
  <2> QED BY <1>7, <2>1, <2>2, <2>3, <2>4 DEF TaskStep
<1>8. ASSUME NEW t \in Tasks, Heartbeat(t) PROVE UNCHANGED Lifecycle!vars
  BY <1>8 DEF Heartbeat
<1>9. CASE UNCHANGED vars
  BY <1>9 DEF vars
<1> QED
  BY <1>1, <1>2, <1>3, <1>u, <1>4, <1>5, <1>6, <1>7, <1>8, <1>9
  DEF Next, Lifecycle!Next

\* The queue implements the lifecycle it promises, whatever is crashed,
\* stopped, reaped, cancelled or late.
THEOREM Implements == Spec => LifecycleSpec
<1>1. Init => Lifecycle!Init
  BY DEF Init, Lifecycle!Init
<1>2. TypeInv /\ [Next]_vars => [Lifecycle!Next]_(Lifecycle!vars)
  BY StepImplements
<1> QED
  BY <1>1, <1>2, TypeInvariant, PTL DEF Spec, LifecycleSpec, Lifecycle!Spec

\* A job holds its reservation exactly while it is queued or running: the
\* lifecycle promises it, so the queue keeps it.
THEOREM ReservationsAreExact == Spec => []ReservationWhileActive
<1>1. Init => ReservationWhileActive
  BY DEF Init, ReservationWhileActive, Active
<1>2. ASSUME ReservationWhileActive, RowTypes, [Lifecycle!Next]_(Lifecycle!vars)
      PROVE  ReservationWhileActive'
  <2>0. status \in [Jobs -> JobStatus \cup {"none"}] /\ held \in [Jobs -> BOOLEAN]
    BY <1>2 DEF RowTypes
  <2>1. ASSUME NEW j \in Jobs, Lifecycle!Submit(j) \/ Lifecycle!Retry(j)
        PROVE  ReservationWhileActive'
    BY <1>2, <2>0, <2>1 DEF ReservationWhileActive, Active, Lifecycle!Submit, Lifecycle!Retry
  <2>2. ASSUME NEW j \in Jobs, Lifecycle!Claim(j) \/ Lifecycle!Requeue(j)
        PROVE  ReservationWhileActive'
    BY <1>2, <2>0, <2>2 DEF ReservationWhileActive, Active, Lifecycle!Claim, Lifecycle!Requeue
  <2>3. ASSUME NEW j \in Jobs, Lifecycle!Withdraw(j)
        PROVE  ReservationWhileActive'
    BY <1>2, <2>0, <2>3 DEF ReservationWhileActive, Active, Lifecycle!Withdraw
  <2>4. ASSUME NEW j \in Jobs, NEW outcome \in {"succeeded", "failed", "cancelled"},
               Lifecycle!End(j, outcome)
        PROVE  ReservationWhileActive'
    BY <1>2, <2>0, <2>4 DEF ReservationWhileActive, Active, Lifecycle!End
  <2>5. ASSUME NEW lost \in SUBSET Jobs, Lifecycle!Abandon(lost)
        PROVE  ReservationWhileActive'
    BY <1>2, <2>0, <2>5 DEF ReservationWhileActive, Active, Lifecycle!Abandon
  <2>6. CASE UNCHANGED Lifecycle!vars
    BY <1>2, <2>6 DEF ReservationWhileActive, Lifecycle!vars
  <2> QED BY <1>2, <2>1, <2>2, <2>3, <2>4, <2>5, <2>6 DEF Lifecycle!Next
<1>3. ReservationWhileActive /\ TypeInv /\ [Next]_vars => ReservationWhileActive'
  BY <1>2, StepImplements DEF TypeInv, TypeOK
<1> QED
  BY <1>1, <1>3, TypeInvariant, PTL DEF Spec

\* No step changes an outcome, except the owner's retry of a failed job.
THEOREM OutcomesAreFinal == Spec => OutcomeFinal
<1>1. ASSUME RowTypes, [Lifecycle!Next]_(Lifecycle!vars), NEW j \in Jobs, status[j] \in Terminal
      PROVE  status'[j] = status[j] \/ (status[j] = "failed" /\ status'[j] = "queued")
  BY <1>1 DEF RowTypes, Terminal, Lifecycle!Next, Lifecycle!vars, Lifecycle!Submit,
              Lifecycle!Claim, Lifecycle!Requeue, Lifecycle!End, Lifecycle!Withdraw,
              Lifecycle!Abandon, Lifecycle!Retry
<1>2. TypeInv /\ [Next]_vars =>
        [\A j \in Jobs : status[j] \in Terminal =>
           status'[j] = status[j] \/ (status[j] = "failed" /\ status'[j] = "queued")]_vars
  BY <1>1, StepImplements DEF TypeInv, TypeOK
<1> QED
  BY <1>2, TypeInvariant, PTL DEF Spec, OutcomeFinal

\* Whoever ends a job records the ending in the same step.
LEMMA StepEndingRecorded ==
  ASSUME TypeInv, EndingRecorded, [Next]_vars
  PROVE  EndingRecorded'
<1>0. /\ status \in [Jobs -> JobStatus \cup {"none"}]
      /\ endings \in [Jobs -> [Terminal -> Nat]]
  BY DEF TypeInv, TypeOK, RowTypes
<1>1. ASSUME UNCHANGED endings,
             \A j \in Jobs : status'[j] = status[j] \/ status'[j] \notin Terminal
      PROVE  EndingRecorded'
  BY <1>1 DEF EndingRecorded
<1>2. ASSUME NEW j \in Jobs, NEW e \in Terminal, status' = [status EXCEPT ![j] = e],
             endings' = [endings EXCEPT ![j][e] = @ + 1]
      PROVE  EndingRecorded'
  <2>1. /\ status'[j] = e /\ endings'[j][e] = endings[j][e] + 1 /\ endings[j][e] \in Nat
        /\ \A i \in Jobs \ {j} : status'[i] = status[i] /\ endings'[i] = endings[i]
    BY <1>0, <1>2
  <2> QED BY <2>1 DEF EndingRecorded
<1>3. ASSUME NEW j \in Jobs, Submit(j) \/ CallStep(j) \/ TimeStep(j) PROVE EndingRecorded'
  BY <1>0, <1>1, <1>3 DEF Submit, CallStep, CancelFlag, CancelStatus, CancelLocal, TimeStep,
                          BecomesDue, GoesStale, jobRow, history, Terminal
<1>u. ASSUME NEW j \in Jobs, NEW s \in Stages, Upgrade(j, s) PROVE EndingRecorded'
  BY <1>1, <1>u DEF Upgrade, jobRow, history
<1>4. ASSUME NEW j \in Jobs, CancelQueued(j) PROVE EndingRecorded'
  <2>1. CASE status[j] = "queued"
    <3>1. /\ status' = [status EXCEPT ![j] = "cancelled"]
          /\ endings' = [endings EXCEPT ![j]["cancelled"] = @ + 1]
      BY <1>4, <2>1 DEF CancelQueued
    <3> QED BY <1>2, <3>1 DEF Terminal
  <2>2. CASE status[j] # "queued"
    BY <1>1, <1>4, <2>2 DEF CancelQueued
  <2> QED BY <2>1, <2>2
<1>5. ASSUME NEW j \in Jobs, RetryFailed(j) PROVE EndingRecorded'
  <2>1. /\ status'[j] = "queued"
        /\ \A i \in Jobs \ {j} : status'[i] = status[i] /\ endings'[i] = endings[i]
    BY <1>0, <1>5 DEF RetryFailed, Requeue
  <2> QED BY <2>1 DEF EndingRecorded, Terminal
<1>6. ASSUME NEW w \in Workers, LoopStep(w) PROVE EndingRecorded'
  <2>1. CASE SelectClaim(w) \/ Claim(w) \/ Spawn(w) \/ SelectStale(w) \/ SkipReaped(w)
    BY <1>0, <1>1, <2>1 DEF SelectClaim, Claim, Spawn, SelectStale, SkipReaped, jobRow, history,
                            Terminal
  <2>2. CASE Reap(w)
    <3>1. ASSUME NEW j \in Jobs, j \in loop[w].batch
          PROVE  /\ endings'[j]["failed"] = endings[j]["failed"] + 1
                 /\ \A e \in Terminal \ {"failed"} : endings'[j][e] = endings[j][e]
                 /\ endings[j]["failed"] \in Nat
                 /\ status'[j] \in {status[j], "failed"}
      BY <1>0, <2>2, <3>1 DEF Reap, Lost, Terminal
    <3>2. ASSUME NEW j \in Jobs, j \notin loop[w].batch
          PROVE  endings'[j] = endings[j] /\ status'[j] = status[j]
      BY <1>0, <2>2, <3>2 DEF Reap, Lost
    <3> QED BY <3>1, <3>2 DEF EndingRecorded
  <2> QED BY <1>6, <2>1, <2>2 DEF LoopStep
<1>7. ASSUME NEW w \in Workers, ShutdownStep(w) \/ Stop(w) \/ Crash(w) PROVE EndingRecorded'
  BY <1>1, <1>7 DEF ShutdownStep, InterruptDrained, Exit, Start, Stop, Crash, jobRow, history
<1>8. ASSUME NEW t \in Tasks, TaskStep(t) PROVE EndingRecorded'
  <2>1. CASE FinishJob(t)
    <3>1. PICK outcome \in Terminal : Finish(task[t].job, outcome)
      BY <2>1 DEF FinishJob, Outcome, Terminal
    <3>2. PICK j \in Jobs : j = task[t].job
      BY <2>1 DEF FinishJob, Outcome, TypeInv, WellFormed, Live
    <3> QED BY <1>1, <1>2, <3>1, <3>2 DEF Finish
  <2>2. CASE RetryLater(t) \/ ResetForRetry(t)
    BY <1>0, <1>1, <2>2 DEF RetryLater, ResetForRetry, Requeue, history, Terminal
  <2>3. CASE Trace(t) \/ Load(t) \/ Boundary(t) \/ BeginStage(t) \/ StageSucceeds(t)
             \/ FailStage(t) \/ SkipOpenStages(t) \/ HandleInterrupt(t) \/ Done(t)
    BY <1>1, <2>3 DEF Trace, Load, Boundary, BeginStage, StageSucceeds, FailStage, SkipOpenStages,
                      HandleInterrupt, Done, jobRow, history
  <2> QED BY <1>8, <2>1, <2>2, <2>3 DEF TaskStep
<1>9. ASSUME NEW t \in Tasks, Heartbeat(t) PROVE EndingRecorded'
  BY <1>1, <1>9 DEF Heartbeat, history
<1>10. CASE UNCHANGED vars
  BY <1>1, <1>10 DEF vars, jobRow, history
<1> QED
  BY <1>3, <1>u, <1>4, <1>5, <1>6, <1>7, <1>8, <1>9, <1>10 DEF Next

\* A terminal status is never visible without its terminal event.
THEOREM EndingsAreRecorded == Spec => []EndingRecorded
<1>1. Init => EndingRecorded
  BY DEF Init, EndingRecorded, Terminal
<1>2. TypeInv /\ EndingRecorded /\ [Next]_vars => EndingRecorded'
  BY StepEndingRecorded
<1> QED
  BY <1>1, <1>2, TypeInvariant, PTL DEF Spec

\* Whatever crashes and whoever is late, a job's reservation and its terminal
\* events agree with its status (JobRepository.finish, fail_stale, request_cancel).
THEOREM StatusHonoured == Spec => []StatusIsHonoured
<1>1. ReservationWhileActive /\ EndingRecorded => StatusIsHonoured
  BY DEF StatusIsHonoured
<1> QED
  BY <1>1, ReservationsAreExact, EndingsAreRecorded, PTL

-----------------------------------------------------------------------------
(* One attempt at a time, for workers that beat in time, a run_after that  *)
(* outlives its attempt, and no retry by hand.                             *)

\* What one step does to the tasks, field by field.
LEMMA GotoEffect ==
  ASSUME task \in [Tasks -> TaskState], NEW t \in Tasks, NEW pc, Goto(t, pc)
  PROVE  /\ task'[t].pc = pc /\ task'[t].job = task[t].job /\ task'[t].shielded = task[t].shielded
         /\ task'[t].detached = task[t].detached /\ task'[t].worker = task[t].worker
         /\ \A u \in Tasks \ {t} : task'[u] = task[u]
  BY DEF Goto, TaskState

LEMMA LoadEffect ==
  ASSUME task \in [Tasks -> TaskState], NEW t \in Tasks, Load(t)
  PROVE  /\ task'[t].pc \in {"succeed", "boundary", "failSkip"}
         /\ task'[t].job = task[t].job /\ task'[t].shielded = task[t].shielded
         /\ task'[t].detached = task[t].detached /\ task'[t].worker = task[t].worker
         /\ \A u \in Tasks \ {t} : task'[u] = task[u]
<1>1. CASE Goto(t, "failSkip")
  BY <1>1, GotoEffect
<1>2. CASE \E s \in 1..NumStages + 1 :
             task' = [task EXCEPT ![t].pc = At(s), ![t].stage = s,
                                  ![t].retries = retries[task[t].job]]
  <2>1. PICK s : task' = [task EXCEPT ![t] = [@ EXCEPT !.pc = At(s), !.stage = s,
                                                       !.retries = retries[task[t].job]]]
    BY <1>2
  <2>2. At(s) \in {"succeed", "boundary"}
    BY DEF At
  <2> QED BY <2>1, <2>2 DEF TaskState
<1> QED
  BY <1>1, <1>2 DEF Load

\* A step of one task that leaves it working, and leaves the rows the
\* ownership depends on alone.
LEMMA WorkingStep ==
  ASSUME ExclusiveOwner, NEW t \in Tasks, UNCHANGED <<status, due, stale, loop>>,
         Live(t), Live(t)', task'[t].job = task[t].job, ~Gone(t), ~Gone(t)',
         task[t].shielded \/ Over(t) => task'[t].shielded,
         task'[t].shielded => task'[t].pc \in HandlerPC,
         task'[t].detached = task[t].detached,
         task'[t].pc \in {"interrupted", "requeue"} => task'[t].shielded,
         \A u \in Tasks \ {t} : task'[u] = task[u]
  PROVE  ExclusiveOwner'
  BY DEF ExclusiveOwner, HandlersShielded, OwnedOnce, Gone, Attends, Runs, WorksOn, Live,
         Attended, Serves, Over, Spawning, Claimable

\* A step of one loop that neither claims nor selects stale jobs.
LEMMA LoopOnlyStep ==
  ASSUME ExclusiveOwner, UNCHANGED <<status, due, stale, task>>,
         \A v \in Workers : loop'[v] = loop[v] \/ loop'[v].pc \notin {"spawn", "reap"}
  PROVE  ExclusiveOwner'
  BY DEF ExclusiveOwner, HandlersShielded, OwnedOnce, Gone, Attends, Runs, WorksOn, Live,
         Attended, Serves, Over, Spawning, Claimable

\* Cancels take tasks out of what they attend; nothing is taken on.
LEMMA CancelStep ==
  ASSUME ExclusiveOwner, TypeInv, UNCHANGED <<status, due, stale>>, NEW S, CancelTasks(S),
         \A v \in Workers : loop'[v] = loop[v] \/ loop'[v].pc \notin {"spawn", "reap"}
  PROVE  ExclusiveOwner'
<1>1. \A t \in Tasks : CancelMoves(t)
  BY TasksCancelled DEF TypeInv, TypeOK, ProcessTypes
<1>2. HandlersShielded'
  BY <1>1 DEF CancelMoves, Detaches, HandlerPC, ExclusiveOwner, HandlersShielded
<1>3. \A t \in Tasks, j \in Jobs :
        /\ Runs(t, j)' => Runs(t, j)
        /\ Attends(t, j)' => Attends(t, j)
        /\ WorksOn(t, j)' => WorksOn(t, j)
        /\ Serves(t, j)' => Serves(t, j)
  BY <1>1 DEF CancelMoves, Detaches, HandlerPC, Runs, Attends, WorksOn, Serves, Gone, Over, Live
<1>4. \A v \in Workers, j \in Jobs : Spawning(v, j)' => Spawning(v, j)
  BY DEF Spawning
<1>5. \A j \in Jobs : Attended(j)' => Attended(j)
  BY <1>3, <1>4 DEF Attended
<1>6. \A j \in Jobs : OwnedOnce(j)'
  BY <1>3, <1>4, <1>5 DEF ExclusiveOwner, OwnedOnce, Claimable
<1> QED
  BY <1>2, <1>6 DEF ExclusiveOwner

LEMMA InitExclusiveOwner == Init => ExclusiveOwner
  BY DEF Init, ExclusiveOwner, HandlersShielded, OwnedOnce, Gone, Attends, Runs, WorksOn, Live,
         Attended, Serves, Spawning, Claimable, Over, HandlerPC, IdleTask, IdleLoop

LEMMA StepExclusiveOwner ==
  ASSUME ~StallsAllowed, ~ZeroDelay, MaxManual = 0, TypeInv, ExclusiveOwner, [Next]_vars
  PROVE  ExclusiveOwner'
<1> USE DEF Terminal
<1>0. /\ DOMAIN status = Jobs /\ DOMAIN due = Jobs /\ DOMAIN stale = Jobs
      /\ task \in [Tasks -> TaskState]
      /\ loop \in [Workers -> LoopState]
      /\ table \in [Workers -> [Jobs -> Tasks \cup {Nil}]]
  BY DEF TypeInv, TypeOK, RowTypes, ProcessTypes
<1>a. /\ \A t \in Tasks : Live(t) => task[t].job \in Jobs
      /\ \A w \in Workers : loop[w].pc \in {"claim", "spawn"} => loop[w].job \in Jobs
  BY DEF TypeInv, WellFormed
\* Steps of one task.
<1>2. ASSUME NEW t \in Tasks, NEW pc, Goto(t, pc), UNCHANGED <<status, due, stale, loop>>,
             Live(t), ~Over(t), pc \notin {"exit", "dropped", "idle"},
             task[t].shielded => pc \in HandlerPC,
             pc \in {"interrupted", "requeue"} => task[t].shielded
      PROVE  ExclusiveOwner'
  BY <1>0, <1>2, GotoEffect, WorkingStep DEF Live, Gone, Over
<1>3. ASSUME NEW j \in Jobs, Submit(j) PROVE ExclusiveOwner'
  BY <1>0, <1>3 DEF Submit, process, ExclusiveOwner, HandlersShielded, OwnedOnce, Gone, Attends,
                    Runs, WorksOn, Live, Attended, Serves, Over, Spawning, Claimable
<1>u. ASSUME NEW j \in Jobs, NEW s \in Stages, Upgrade(j, s) PROVE ExclusiveOwner'
  BY <1>u, LoopOnlyStep DEF Upgrade, jobRow, process
<1>4. ASSUME NEW j \in Jobs, CancelQueued(j) PROVE ExclusiveOwner'
  BY <1>0, <1>4 DEF CancelQueued, ExclusiveOwner, HandlersShielded, OwnedOnce, Gone, Attends,
                    Runs, WorksOn, Live, Attended, Serves, Over, Spawning, Claimable
<1>5. ASSUME NEW j \in Jobs, CallStep(j) PROVE ExclusiveOwner'
  <2>1. CASE UNCHANGED <<status, due, stale, task, loop>>
    BY <2>1 DEF ExclusiveOwner, HandlersShielded, OwnedOnce, Gone, Attends, Runs, WorksOn, Live,
                Attended, Serves, Over, Spawning, Claimable
  <2>2. CASE \E S : CancelTasks(S) /\ UNCHANGED <<status, due, stale, loop>>
    BY <2>2, CancelStep
  <2> QED
    BY <1>5, <2>1, <2>2 DEF CallStep, CancelFlag, CancelStatus, CancelLocal, jobRow
<1>6. ASSUME NEW j \in Jobs, RetryFailed(j) PROVE ExclusiveOwner'
  BY <1>6 DEF RetryFailed, TypeInv, TypeOK, ProcessTypes
<1>7. ASSUME NEW j \in Jobs, TimeStep(j) PROVE ExclusiveOwner'
  <2>1. CASE BecomesDue(j)
    BY <1>0, <2>1 DEF BecomesDue, process, ExclusiveOwner, HandlersShielded, OwnedOnce, Gone,
                      Attends, Runs, WorksOn, Live, Attended, Serves, Over, Spawning, Claimable
  <2>2. CASE GoesStale(j)
    BY <1>0, <2>2 DEF GoesStale, process, ExclusiveOwner, HandlersShielded, OwnedOnce, Gone,
                      Attends, Runs, WorksOn, Live, Attended, Serves, Over, Spawning, Claimable
  <2> QED BY <1>7, <2>1, <2>2 DEF TimeStep
<1>8. ASSUME NEW w \in Workers, LoopStep(w) PROVE ExclusiveOwner'
  <2>1. CASE SelectClaim(w)
    <3>1. \A v \in Workers : loop'[v] = loop[v] \/ loop'[v].pc = "claim"
      BY <1>0, <2>1 DEF SelectClaim, LoopState
    <3> QED BY <2>1, <3>1, LoopOnlyStep DEF SelectClaim, jobRow
  <2>2. CASE Claim(w)
    <3>0. PICK j : j = loop[w].job
      OBVIOUS
    <3>1. CASE Claimable(j)
      <4>1. /\ loop'[w].pc = "spawn" /\ loop'[w].job = j
            /\ \A v \in Workers \ {w} : loop'[v] = loop[v]
        BY <1>0, <2>2, <3>0, <3>1 DEF Claim, LoopState
      <4>2. /\ j \in Jobs /\ status'[j] = "running" /\ ~stale'[j]
            /\ \A i \in Jobs \ {j} : status'[i] = status[i] /\ stale'[i] = stale[i]
        BY <1>0, <1>a, <2>2, <3>0, <3>1 DEF Claim
      <4>3. UNCHANGED <<task, due>>
        BY <2>2 DEF Claim
      <4>4. status[j] = "queued" /\ \A v \in Workers : ~Spawning(v, j)
        BY <3>1, <4>2 DEF Claimable, ExclusiveOwner, HandlersShielded, OwnedOnce
      <4>5. \A t \in Tasks, i \in Jobs :
              /\ Runs(t, i)' <=> Runs(t, i)
              /\ Attends(t, i)' <=> Attends(t, i)
              /\ WorksOn(t, i)' <=> WorksOn(t, i)
              /\ Serves(t, i)' <=> Serves(t, i)
        BY <4>3 DEF Runs, Attends, WorksOn, Serves, Gone, Over, Live
      <4>6. /\ \A v \in Workers, i \in Jobs : Spawning(v, i)' => Spawning(v, i) \/ (v = w /\ i = j)
            /\ \A v \in Workers : loop'[v].pc = "reap" => loop'[v] = loop[v]
        BY <4>1 DEF Spawning
      <4>7. \A t \in Tasks : ~Attends(t, j) /\ ~Runs(t, j)
        BY <3>1, <4>2 DEF ExclusiveOwner, HandlersShielded, OwnedOnce, Runs, Attends, Gone, Over
      <4>8. \A i \in Jobs : Claimable(i)' => Claimable(i)
        BY <4>2, <4>3 DEF Claimable
      <4>9. ASSUME NEW i \in Jobs \ {j} PROVE OwnedOnce(i)'
        BY <4>2, <4>5, <4>6, <4>8, <4>9 DEF ExclusiveOwner, OwnedOnce, Attended
      <4>10. OwnedOnce(j)'
        <5>1. \A v \in Workers : loop[v].pc = "reap" => j \notin loop[v].batch
          BY <4>2, <4>4 DEF ExclusiveOwner, OwnedOnce
        <5> QED BY <4>2, <4>4, <4>5, <4>6, <4>7, <5>1 DEF OwnedOnce, Claimable
      <4> QED BY <4>3, <4>9, <4>10 DEF ExclusiveOwner, HandlersShielded
    <3>2. CASE ~Claimable(j)
      <4>1. \A v \in Workers : loop'[v] = loop[v] \/ loop'[v].pc = "ready"
        BY <1>0, <2>2, <3>0, <3>2 DEF Claim, IdleLoop
      <4> QED BY <2>2, <3>0, <3>2, <4>1, LoopOnlyStep DEF Claim
    <3> QED BY <3>1, <3>2
  <2>3. CASE Spawn(w)
    <3> DEFINE j == loop[w].job
               new == [IdleTask EXCEPT !.pc = "trace", !.job = j, !.worker = w]
    <3>1. PICK t \in Tasks : ~Live(t) /\ task' = [task EXCEPT ![t] = new]
      BY <2>3 DEF Spawn
    <3>2. new.pc = "trace" /\ new.job = j /\ ~new.shielded /\ ~new.detached
      BY DEF IdleTask
    <3>3. task'[t] = new /\ \A u \in Tasks \ {t} : task'[u] = task[u]
      BY <1>0, <3>1
    <3>4. loop'[w].pc = "ready" /\ \A v \in Workers \ {w} : loop'[v] = loop[v]
      BY <1>0, <2>3 DEF Spawn, IdleLoop
    <3>5. Spawning(w, j) /\ j \in Jobs /\ UNCHANGED <<status, due, stale>>
      BY <1>a, <2>3 DEF Spawn, Spawning, jobRow
    <3> HIDE DEF new, j
    <3> QED BY <3>1, <3>2, <3>3, <3>4, <3>5
            DEF ExclusiveOwner, HandlersShielded, OwnedOnce, Gone, Attends, Runs, WorksOn, Live,
                Attended, Serves, Over, Spawning, Claimable
  <2>4. CASE SelectStale(w)
    BY <1>0, <2>4 DEF SelectStale, StaleJobs, jobRow, ExclusiveOwner, HandlersShielded,
                      OwnedOnce, Gone, Attends, Runs, WorksOn, Live, Attended, Serves, Over, Spawning,
                      Claimable, LoopState
  <2>5. CASE Reap(w)
    <3>1. \A v \in Workers : loop'[v] = loop[v] \/ loop'[v].pc = "skip"
      BY <1>0, <2>5 DEF Reap, LoopState
    <3>2. \A j \in Jobs : \/ status'[j] = status[j]
                        \/ /\ status[j] = "running" /\ status'[j] = "failed"
                           /\ stale[j]
      BY <1>0, <2>5 DEF Reap, Lost, ExclusiveOwner, HandlersShielded, OwnedOnce
    <3>3. UNCHANGED <<due, stale, task>>
      BY <2>5 DEF Reap
    <3> QED BY <3>1, <3>2, <3>3 DEF ExclusiveOwner, HandlersShielded, OwnedOnce, Gone, Attends,
                                    Runs, WorksOn, Live, Attended, Serves, Over, Spawning, Claimable
  <2>6. CASE SkipReaped(w)
    <3>1. \A v \in Workers : loop'[v] = loop[v] \/ loop'[v].pc \in {"ready", "skip"}
      BY <1>0, <2>6 DEF SkipReaped, LoopState, IdleLoop
    <3> QED BY <2>6, <3>1, LoopOnlyStep DEF SkipReaped, jobRow
  <2> QED BY <1>8, <2>1, <2>2, <2>3, <2>4, <2>5, <2>6 DEF LoopStep
<1>9. ASSUME NEW w \in Workers, Vanish(w), UNCHANGED <<status, due, stale>>
      PROVE  ExclusiveOwner'
  BY <1>0, <1>9 DEF Vanish, IdleTask, IdleLoop, ExclusiveOwner, HandlersShielded, OwnedOnce,
                    Gone, Attends, Runs, WorksOn, Live, Attended, Serves, Over, Spawning, Claimable
<1>10. ASSUME NEW w \in Workers, ShutdownStep(w) \/ Stop(w) \/ Crash(w) PROVE ExclusiveOwner'
  <2>1. CASE InterruptDrained(w)
    <3>1. PICK S : CancelTasks(S)
      BY <2>1 DEF InterruptDrained
    <3>2. \A v \in Workers : loop'[v] = loop[v] \/ loop'[v].pc = "gather"
      BY <1>0, <2>1 DEF InterruptDrained, LoopState
    <3> QED BY <2>1, <3>1, <3>2, CancelStep DEF InterruptDrained, jobRow
  <2>2. CASE Exit(w) \/ Crash(w)
    BY <1>9, <2>2 DEF Exit, Crash, jobRow
  <2>3. CASE Start(w) \/ Stop(w)
    <3>1. \A v \in Workers : loop'[v] = loop[v] \/ loop'[v].pc \in {"ready", "drain"}
      BY <1>0, <2>3 DEF Start, Stop, IdleLoop
    <3> QED BY <2>3, <3>1, LoopOnlyStep DEF Start, Stop, jobRow
  <2> QED BY <1>10, <2>1, <2>2, <2>3 DEF ShutdownStep
<1>11. ASSUME NEW t \in Tasks, TaskStep(t) PROVE ExclusiveOwner'
  <2> DEFINE j == task[t].job
  <2>0. CASE Trace(t)
    <3>1. ~task[t].shielded
      BY <2>0 DEF Trace, ExclusiveOwner, HandlersShielded, HandlerPC
    <3> QED BY <1>2, <2>0, <3>1 DEF Trace, jobRow, Live, Over
  <2>1. CASE Load(t)
    <3>1. ~task[t].shielded
      BY <2>1 DEF Load, ExclusiveOwner, HandlersShielded, OwnedOnce, HandlerPC
    <3> QED BY <1>0, <2>1, <3>1, LoadEffect, WorkingStep
            DEF Load, jobRow, Live, Gone, Over
  <2>2. CASE StageSucceeds(t)
    <3>1. task'[t].pc \in {"succeed", "boundary"}
      BY <1>0, <2>2 DEF StageSucceeds, At, TaskState
    <3>2. /\ task'[t].job = j /\ task'[t].shielded = task[t].shielded
          /\ task'[t].detached = task[t].detached
          /\ \A u \in Tasks \ {t} : task'[u] = task[u]
      BY <1>0, <2>2 DEF StageSucceeds, TaskState
    <3>3. ~task[t].shielded
      BY <2>2 DEF StageSucceeds, ExclusiveOwner, HandlersShielded, OwnedOnce, HandlerPC
    <3> QED BY <2>2, <3>1, <3>2, <3>3, WorkingStep DEF StageSucceeds, jobRow, Live, Gone, Over
  <2>3. CASE Boundary(t) \/ BeginStage(t) \/ FailStage(t)
    <3>1. ~task[t].shielded
      BY <2>3 DEF Boundary, BeginStage, FailStage, ExclusiveOwner, HandlersShielded, OwnedOnce,
                  HandlerPC
    <3> QED BY <1>2, <2>3, <3>1 DEF Boundary, BeginStage, FailStage, jobRow, Live, Over
  <2>4. CASE SkipOpenStages(t)
    <3>1. task[t].shielded => task[t].pc = "cancelSkip"
      BY <2>4 DEF SkipOpenStages, ExclusiveOwner, HandlersShielded, OwnedOnce, HandlerPC
    <3> QED BY <1>2, <2>4, <3>1 DEF SkipOpenStages, jobRow, Live, HandlerPC, Over
  <2>5. CASE HandleInterrupt(t)
    <3>1. task[t].shielded
      BY <2>5 DEF HandleInterrupt, ExclusiveOwner, HandlersShielded, OwnedOnce
    <3> QED BY <1>2, <2>5, <3>1 DEF HandleInterrupt, AfterInterrupt, jobRow, Live, HandlerPC, Over
  <2>6. CASE RetryLater(t)
    <3>1. ~task[t].shielded /\ status[j] = "running" /\ Attends(t, j) /\ j \in Jobs
      BY <1>a, <2>6 DEF RetryLater, ExclusiveOwner, HandlersShielded, OwnedOnce, HandlerPC, Over,
                        Runs, WorksOn, Live, Attends, Gone
    <3>2. /\ status'[j] = "queued" /\ ~due'[j] /\ ~stale'[j]
          /\ \A i \in Jobs \ {j} :
               status'[i] = status[i] /\ due'[i] = due[i] /\ stale'[i] = stale[i]
      BY <1>0, <2>6, <3>1 DEF RetryLater, Requeue
    <3>3. Goto(t, "exit") /\ UNCHANGED loop
      BY <2>6, <3>1 DEF RetryLater
    <3>4. /\ task'[t].pc = "exit" /\ task'[t].job = j /\ ~task'[t].shielded
          /\ task'[t].detached = task[t].detached
          /\ \A u \in Tasks \ {t} : task'[u] = task[u]
      BY <1>0, <3>1, <3>3, GotoEffect
    <3> HIDE DEF j
    <3> QED BY <3>1, <3>2, <3>3, <3>4
            DEF ExclusiveOwner, HandlersShielded, OwnedOnce, Gone, Attends, Runs, WorksOn, Live,
                Attended, Serves, Over, Spawning, Claimable, HandlerPC
  <2>7. CASE FinishJob(t)
    <3>1. Attends(t, j) /\ j \in Jobs
      BY <1>a, <2>7 DEF FinishJob, Outcome, WorksOn, Live, Attends, Gone
    <3>2. Goto(t, "exit") /\ UNCHANGED <<due, stale, loop>>
      BY <2>7 DEF FinishJob
    <3>3. /\ task'[t].pc = "exit" /\ task'[t].job = j /\ task'[t].shielded = task[t].shielded
          /\ task'[t].detached = task[t].detached
          /\ \A u \in Tasks \ {t} : task'[u] = task[u]
      BY <1>0, <3>2, GotoEffect
    <3>4. PICK outcome \in Terminal : Finish(j, outcome)
      BY <2>7 DEF FinishJob, Outcome, Terminal
    <3>5. /\ status[j] = "running" => status'[j] \in Terminal
          /\ status[j] # "running" => status'[j] = status[j]
          /\ \A i \in Jobs \ {j} : status'[i] = status[i]
      BY <1>0, <3>1, <3>4 DEF Finish
    <3> HIDE DEF j
    <3> QED BY <3>1, <3>2, <3>3, <3>5
            DEF ExclusiveOwner, HandlersShielded, OwnedOnce, Gone, Attends, Runs, WorksOn, Live,
                Attended, Serves, Over, Spawning, Claimable, HandlerPC, Terminal
  <2>8. CASE ResetForRetry(t)
    <3>1. task[t].shielded /\ Attends(t, j) /\ j \in Jobs
      BY <1>a, <2>8 DEF ResetForRetry, ExclusiveOwner, HandlersShielded, OwnedOnce, WorksOn,
                        Live, Attends, Gone
    <3>2. \/ /\ status[j] = "running" /\ status'[j] = "queued" /\ ~stale'[j]
             /\ \A i \in Jobs \ {j} :
                  status'[i] = status[i] /\ due'[i] = due[i] /\ stale'[i] = stale[i]
          \/ status[j] # "running" /\ UNCHANGED <<status, due, stale>>
      BY <1>0, <2>8, <3>1 DEF ResetForRetry, Requeue
    <3>3. Goto(t, "exit") /\ UNCHANGED loop
      BY <2>8 DEF ResetForRetry
    <3>4. /\ task'[t].pc = "exit" /\ task'[t].job = j /\ task'[t].shielded
          /\ task'[t].detached = task[t].detached
          /\ \A u \in Tasks \ {t} : task'[u] = task[u]
      BY <1>0, <3>1, <3>3, GotoEffect
    <3> HIDE DEF j
    <3> QED BY <3>1, <3>2, <3>3, <3>4
            DEF ExclusiveOwner, HandlersShielded, OwnedOnce, Gone, Attends, Runs, WorksOn, Live,
                Attended, Serves, Over, Spawning, Claimable, HandlerPC
  <2>9. CASE Done(t)
    <3>1. task'[t] = IdleTask /\ \A u \in Tasks \ {t} : task'[u] = task[u]
      BY <1>0, <2>9 DEF Done
    <3> QED BY <2>9, <3>1 DEF Done, jobRow, IdleTask, ExclusiveOwner, HandlersShielded,
                              OwnedOnce, Gone, Attends, Runs, WorksOn, Live, Attended, Serves, Over, Spawning,
                              Claimable
  <2> QED
    BY <1>11, <2>0, <2>1, <2>2, <2>3, <2>4, <2>5, <2>6, <2>7, <2>8, <2>9
    DEF TaskStep
<1>12. ASSUME NEW t \in Tasks, Heartbeat(t) PROVE ExclusiveOwner'
  BY <1>0, <1>a, <1>12 DEF Heartbeat, process, ExclusiveOwner, HandlersShielded, OwnedOnce,
                           Gone, Attends, Runs, WorksOn, Live, Attended, Serves, Over, Spawning, Claimable
<1>13. CASE UNCHANGED vars
  BY <1>13 DEF vars, jobRow, process, ExclusiveOwner, HandlersShielded, OwnedOnce, Gone,
               Attends, Runs, WorksOn, Live, Attended, Serves, Over, Spawning, Claimable
<1> QED
  BY <1>3, <1>u, <1>4, <1>5, <1>6, <1>7, <1>8, <1>10, <1>11, <1>12, <1>13
  DEF Next

LEMMA OwnershipKept ==
  ASSUME ~StallsAllowed, ~ZeroDelay, MaxManual = 0
  PROVE  Spec => []ExclusiveOwner
<1>1. TypeInv /\ ExclusiveOwner /\ [Next]_vars => ExclusiveOwner'
  BY StepExclusiveOwner
<1> QED
  BY InitExclusiveOwner, <1>1, TypeInvariant, PTL DEF Spec

\* A job is run by one attempt at a time, for any number of replicas, tasks and
\* stages, through crashes, shutdowns, automatic retries and cancels.
THEOREM OneRunnerAtATime ==
  ASSUME ~StallsAllowed, ~ZeroDelay, MaxManual = 0
  PROVE  Spec => []SingleRunner
<1>1. ExclusiveOwner => SingleRunner
  BY DEF ExclusiveOwner, HandlersShielded, OwnedOnce, SingleRunner, Runs, Attends, Gone, Over,
         WorksOn, Spawning
<1> QED
  BY <1>1, OwnershipKept, PTL

\* Under the same assumptions the reaper only fails jobs nobody works on.
THEOREM ReaperSparesTheLiving ==
  ASSUME ~StallsAllowed, ~ZeroDelay, MaxManual = 0
  PROVE  Spec => ReapsOnlyAbandoned
<1>1. TypeInv /\ ExclusiveOwner =>
        \A w \in Workers : loop[w].pc = "reap" =>
          \A j \in loop[w].batch : status[j] = "running" => ~Attended(j)
  BY DEF ExclusiveOwner, OwnedOnce, Terminal, TypeInv, TypeOK, ProcessTypes, LoopState
<1> QED
  <2>1. TypeInv /\ ExclusiveOwner /\ [Next]_vars =>
          [\A w \in Workers : loop[w].pc = "reap" /\ loop'[w].pc = "skip" =>
             \A j \in loop[w].batch : status[j] = "running" => ~Attended(j)]_vars
    BY <1>1
  <2>2. Spec => []ExclusiveOwner
    BY OwnershipKept
  <2> QED BY <2>1, <2>2, TypeInvariant, PTL DEF ReapsOnlyAbandoned, Spec

-----------------------------------------------------------------------------
(* Why a job ended, with what, and what it cost, wherever attempts do not  *)
(* overlap (OwnershipKept): the inductive invariant.                       *)

NoneOpen(j)     == \A s \in Stages : stage[j][s] \notin {"pending", "running"}
AllSucceeded(j) == \A s \in Stages : stage[j][s] = "succeeded"
Undisturbed(j)  == stale[j] /\ \A t \in Tasks : ~Serves(t, j)

AtStage(t) == task[t].pc \in InStage

\* What an attempt relies on: the stages before its own have succeeded and its
\* own has not, unless an upgrade has outdated it; its copy of the retries is the
\* job's; it ends the job only when that leaves no stage open, and cancels only
\* what somebody cancelled.
AttemptFacts(t) ==
  LET j == task[t].job IN
  /\ AtStage(t) =>
       /\ \A s \in Stages : s < task[t].stage => stage[j][s] = "succeeded"
       /\ stage[j][task[t].stage] = "succeeded" => task[t].stage >= redo[j]
       /\ task[t].retries = retries[j]
  /\ task[t].pc \in {"agent", "failStage"} => stage[j][task[t].stage] # "succeeded"
  /\ task[t].pc = "succeed" => AllSucceeded(j)
  /\ task[t].pc \in {"failFinish", "cancelFinish"} /\ status[j] = "running" => NoneOpen(j)
  /\ task[t].pc \in {"cancelSkip", "cancelFinish"} => asked[j]

\* What the tables show of a job: its outcome matches its stages, or the reaper
\* has just failed it and nobody is there to beat for it; the stages that
\* succeeded are the first ones, and those an upgrade has outdated, with what
\* follows them, are known.
JobFacts(j) ==
  /\ cancelRequested[j] => asked[j]
  /\ status[j] = "succeeded" => AllSucceeded(j)
  /\ status[j] = "cancelled" => NoneOpen(j) /\ asked[j]
  /\ status[j] = "failed" => NoneOpen(j) \/ Undisturbed(j)
  /\ \A s, r \in Stages : r < s /\ stage[j][s] = "succeeded" =>
       stage[j][r] = "succeeded" \/ s >= redo[j]
  /\ \A s \in outdated[j] \cap Stages : stage[j][s] = "succeeded" => redo[j] <= s
  /\ retries[j] <= MaxTransient
  /\ \A w \in Workers : loop[w].pc = "skip" /\ j \in loop[w].batch => status[j] \in Terminal

OutcomeInv == (\A t \in Tasks : AttemptFacts(t)) /\ (\A j \in Jobs : JobFacts(j))

LEMMA InitOutcomeInv == Init => OutcomeInv
  BY BoundsAssumption
  DEF Init, OutcomeInv, AttemptFacts, JobFacts, AtStage, InStage, IdleTask, IdleLoop,
         NewStages, Terminal

-----------------------------------------------------------------------------
(* What a step does to the rest.                                           *)

\* While a job is running, the attempt on it has it to itself.
LEMMA Alone ==
  ASSUME ExclusiveOwner, TypeInv, NEW t \in Tasks, Live(t), ~Gone(t),
         status[task[t].job] = "running"
  PROVE  \A u \in Tasks \ {t} : WorksOn(u, task[t].job) => Over(u)
  BY DEF ExclusiveOwner, OwnedOnce, Attends, Gone, Over, WorksOn, Live, TypeInv,
         WellFormed

\* An attempt inside a stage, or at the end of its job, has a job that is running.
LEMMA AttemptsRun ==
  ASSUME ExclusiveOwner, TypeInv, NEW t \in Tasks,
         AtStage(t) \/ task[t].pc \in {"trace", "load", "succeed", "failSkip", "failFinish"}
  PROVE  status[task[t].job] = "running" /\ ~task[t].shielded /\ task[t].job \in Jobs
  BY DEF ExclusiveOwner, HandlersShielded, HandlerPC, OwnedOnce, Runs, Over, WorksOn, Live,
         AtStage, InStage,
         TypeInv, WellFormed

\* The facts about an attempt that did not move, on a job that did not change.
LEMMA AttemptUntouched ==
  ASSUME NEW t \in Tasks, AttemptFacts(t), task'[t] = task[t],
         \/ task[t].pc \in {"idle", "exit", "dropped", "trace", "load", "failSkip",
                           "interrupted", "requeue"}
         \/ LET j == task[t].job IN
              /\ stage'[j] = stage[j] /\ retries'[j] = retries[j] /\ asked'[j] = asked[j]
              /\ redo'[j] = redo[j]
              /\ status'[j] = "running" => status[j] = "running"
  PROVE  AttemptFacts(t)'
  BY DEF AttemptFacts, AtStage, InStage, AllSucceeded, NoneOpen

\* The facts about a job that no transaction changed.
LEMMA JobUntouched ==
  ASSUME NEW j \in Jobs, JobFacts(j),
         stage'[j] = stage[j], retries'[j] = retries[j], asked'[j] = asked[j],
         outdated'[j] = outdated[j], redo'[j] = redo[j],
         cancelRequested'[j] = cancelRequested[j], status'[j] = status[j],
         status[j] = "failed" /\ Undisturbed(j) => Undisturbed(j)',
         \A w \in Workers : loop'[w].pc = "skip" /\ j \in loop'[w].batch =>
                              loop[w].pc = "skip" /\ j \in loop[w].batch
  PROVE  JobFacts(j)'
  BY DEF JobFacts, AllSucceeded, NoneOpen

\* What one step does to an attempt that stays on its job: its stage and its
\* copy of the retries.
LEMMA GotoKeeps ==
  ASSUME task \in [Tasks -> TaskState], NEW t \in Tasks, NEW pc, Goto(t, pc)
  PROVE  task'[t].stage = task[t].stage /\ task'[t].retries = task[t].retries
  BY DEF Goto, TaskState

\* Cancels take attempts to where they rely on nothing, or leave them where they are.
LEMMA CancelOutcomes ==
  ASSUME TypeInv, OutcomeInv, NEW S, CancelTasks(S), UNCHANGED <<jobRow, stage, artifacts, history>>,
         \A w \in Workers : loop'[w] = loop[w] \/ loop'[w].pc # "skip"
  PROVE  OutcomeInv'
<1>1. \A t \in Tasks : CancelMoves(t)
  BY TasksCancelled DEF TypeInv, TypeOK, ProcessTypes
<1>2. ASSUME NEW t \in Tasks PROVE AttemptFacts(t)'
  <2>1. CASE task'[t] = task[t]
    BY <2>1, AttemptUntouched DEF OutcomeInv, jobRow, history
  <2>2. CASE task'[t].pc \in {"dropped", "interrupted"}
    BY <2>2 DEF AttemptFacts, AtStage, InStage
  <2>3. CASE task'[t].pc = task[t].pc
    BY <1>1, <2>3 DEF CancelMoves, OutcomeInv, AttemptFacts, AtStage, InStage, AllSucceeded,
                      NoneOpen, jobRow, history
  <2> QED BY <1>1, <2>1, <2>2, <2>3 DEF CancelMoves
<1>3. \A t \in Tasks, j \in Jobs : Serves(t, j)' => Serves(t, j)
  BY <1>1 DEF CancelMoves, Serves, WorksOn, Live, Detaches, HandlerPC
<1>4. \A j \in Jobs : Undisturbed(j) => Undisturbed(j)'
  BY <1>3 DEF Undisturbed, jobRow
<1>5. \A j \in Jobs : JobFacts(j)'
  BY <1>4, JobUntouched DEF OutcomeInv, jobRow, history
<1> QED
  BY <1>2, <1>5 DEF OutcomeInv

\* The steps of the owner and of time.
LEMMA OwnerOutcomes ==
  ASSUME ~StallsAllowed, ~ZeroDelay, MaxManual = 0, TypeInv, ExclusiveOwner, OutcomeInv,
         NEW j \in Jobs,
         \/ Submit(j) \/ CancelQueued(j) \/ CallStep(j) \/ RetryFailed(j) \/ TimeStep(j)
         \/ \E s \in Stages : Upgrade(j, s)
  PROVE  OutcomeInv'
<1> USE DEF Terminal
<1>0. /\ DOMAIN status = Jobs /\ DOMAIN stale = Jobs /\ DOMAIN asked = Jobs
      /\ DOMAIN cancelRequested = Jobs
      /\ stage \in [Jobs -> [Stages -> StageStatus]]
      /\ table \in [Workers -> [Jobs -> Tasks \cup {Nil}]]
  BY DEF TypeInv, TypeOK, RowTypes, ProcessTypes
<1>1. CASE Submit(j)
  <2>1. /\ status[j] = "none" /\ status'[j] = "queued"
        /\ \A i \in Jobs \ {j} : status'[i] = status[i]
        /\ UNCHANGED <<cancelRequested, retries, stale, stage, artifacts, asked, task, loop>>
    BY <1>0, <1>1 DEF Submit, history, process
  <2>2. \A t \in Tasks : AttemptFacts(t)'
    BY <2>1 DEF OutcomeInv, AttemptFacts, AtStage, NoneOpen, AllSucceeded, TypeInv, WellFormed, Live
  <2>3. JobFacts(j)'
    BY <2>1 DEF OutcomeInv, JobFacts
  <2>4. \A i \in Jobs \ {j} : JobFacts(i)'
    BY <2>1, JobUntouched DEF OutcomeInv, Undisturbed, Serves, WorksOn, Live
  <2> QED BY <2>2, <2>3, <2>4 DEF OutcomeInv
<1>2. CASE CancelQueued(j)
  <2>1. CASE status[j] # "queued"
    <3>1. UNCHANGED <<status, cancelRequested, retries, stale, stage, artifacts, asked, task, loop>>
      BY <1>2, <2>1 DEF CancelQueued
    <3>2. \A t \in Tasks : AttemptFacts(t)'
      BY <3>1, AttemptUntouched DEF OutcomeInv
    <3>3. \A i \in Jobs : JobFacts(i)'
      BY <3>1, JobUntouched DEF OutcomeInv, Undisturbed, Serves, WorksOn, Live
    <3> QED BY <3>2, <3>3 DEF OutcomeInv
  <2>2. CASE status[j] = "queued"
    <3>1. /\ status'[j] = "cancelled" /\ asked'[j]
          /\ \A s \in Stages : stage'[j][s] = "skipped"
          /\ \A i \in Jobs \ {j} : /\ status'[i] = status[i] /\ stage'[i] = stage[i]
                                  /\ asked'[i] = asked[i]
          /\ UNCHANGED <<cancelRequested, retries, stale, artifacts, task, loop>>
      BY <1>0, <1>2, <2>2 DEF CancelQueued
    <3>2. \A t \in Tasks : AtStage(t) \/ task[t].pc = "succeed" => task[t].job # j
      BY <2>2, AttemptsRun
    <3>3. ASSUME NEW t \in Tasks PROVE AttemptFacts(t)'
      <4>1. CASE task[t].job = j
        BY <3>1, <3>2, <4>1 DEF OutcomeInv, AttemptFacts, AtStage, InStage
      <4>2. CASE task[t].job # j /\ Live(t)
        <5>1. task[t].job \in Jobs \ {j}
          BY <4>2 DEF TypeInv, WellFormed
        <5> QED BY <3>1, <5>1, AttemptUntouched DEF OutcomeInv
      <4>3. CASE ~Live(t)
        BY <3>1, <4>3, AttemptUntouched DEF OutcomeInv, Live
      <4> QED BY <4>1, <4>2, <4>3
    <3>4. JobFacts(j)'
      BY <2>2, <3>1 DEF OutcomeInv, JobFacts, NoneOpen
    <3>5. \A i \in Jobs \ {j} : JobFacts(i)'
      BY <3>1, JobUntouched DEF OutcomeInv, Undisturbed, Serves, WorksOn, Live
    <3> QED BY <3>3, <3>4, <3>5 DEF OutcomeInv
  <2> QED BY <2>1, <2>2
<1>3. CASE CallStep(j)
  <2>1. CASE CancelFlag(j)
    <3>1. /\ \/ cancelRequested'[j] /\ asked'[j]
             \/ cancelRequested'[j] = cancelRequested[j] /\ asked'[j] = asked[j]
          /\ \A i \in Jobs \ {j} : /\ cancelRequested'[i] = cancelRequested[i]
                                  /\ asked'[i] = asked[i]
          /\ UNCHANGED <<status, retries, stale, stage, artifacts, task, loop>>
      BY <1>0, <2>1 DEF CancelFlag
    <3>2. \A i \in Jobs : asked[i] => asked'[i]
      BY <3>1
    <3>3. \A t \in Tasks : AttemptFacts(t)'
      BY <3>1, <3>2 DEF OutcomeInv, AttemptFacts, AtStage, InStage, NoneOpen, AllSucceeded,
                        TypeInv, WellFormed, Live
    <3>4. JobFacts(j)'
      BY <3>1, <3>2 DEF OutcomeInv, JobFacts, NoneOpen, AllSucceeded, Undisturbed, Serves, WorksOn, Live
    <3>5. \A i \in Jobs \ {j} : JobFacts(i)'
      BY <3>1, JobUntouched DEF OutcomeInv, Undisturbed, Serves, WorksOn, Live
    <3> QED BY <3>3, <3>4, <3>5 DEF OutcomeInv
  <2>2. CASE UNCHANGED <<jobRow, stage, artifacts, history, task, loop>>
    <3>1. \A t \in Tasks : AttemptFacts(t)'
      BY <2>2, AttemptUntouched DEF OutcomeInv, jobRow, history
    <3>2. \A i \in Jobs : JobFacts(i)'
      BY <2>2, JobUntouched DEF OutcomeInv, Undisturbed, Serves, WorksOn, Live, jobRow, history
    <3> QED BY <3>1, <3>2 DEF OutcomeInv
  <2>3. CASE \E S : CancelTasks(S) /\ UNCHANGED <<jobRow, stage, artifacts, history, loop>>
    BY <2>3, CancelOutcomes
  <2> QED BY <1>3, <2>1, <2>2, <2>3 DEF CallStep, CancelStatus, CancelLocal
<1>u. CASE \E s \in Stages : Upgrade(j, s)
  <2>0. PICK r \in Stages : Upgrade(j, r)
    BY <1>u
  <2>1. /\ outdated'[j] = outdated[j] \cup {r} /\ redo'[j] = (IF r < redo[j] THEN r ELSE redo[j])
        /\ \A i \in Jobs \ {j} : outdated'[i] = outdated[i] /\ redo'[i] = redo[i]
        /\ redo[j] \in Int /\ r \in Int
        /\ UNCHANGED <<jobRow, stage, history, task, loop>>
    BY <2>0, NumStagesAssumption DEF Upgrade, process, TypeInv, TypeOK, RowTypes, Stages
  <2>2. redo'[j] <= redo[j] /\ redo'[j] <= r /\ redo'[j] \in Int
    BY <2>1
  <2>3. \A s \in Stages : s >= redo[j] => s >= redo'[j]
    BY <2>1, <2>2 DEF Stages
  <2>4. ASSUME NEW t \in Tasks PROVE AttemptFacts(t)'
    <3>1. CASE task[t].job = j /\ Live(t)
      <4>1. AtStage(t) => task[t].stage \in Stages
        BY DEF AtStage, InStage, TypeInv, WellFormed
      <4> QED BY <2>1, <2>3, <3>1, <4>1
              DEF OutcomeInv, AttemptFacts, AtStage, InStage, AllSucceeded, NoneOpen, jobRow, history
    <3>2. CASE task[t].job # j /\ Live(t)
      <4>1. task[t].job \in Jobs \ {j}
        BY <3>2 DEF TypeInv, WellFormed
      <4> QED BY <2>1, <4>1, AttemptUntouched DEF OutcomeInv, jobRow, history
    <3>3. CASE ~Live(t)
      BY <2>1, <3>3, AttemptUntouched DEF OutcomeInv, Live
    <3> QED BY <3>1, <3>2, <3>3
  <2>5. JobFacts(j)'
    <3>1. \A s \in outdated'[j] \cap Stages : stage'[j][s] = "succeeded" => redo'[j] <= s
      <4>1. \A s \in outdated[j] \cap Stages : stage[j][s] = "succeeded" => s >= redo[j]
        BY <2>1 DEF OutcomeInv, JobFacts, Stages
      <4>2. \A s \in Stages : s >= redo'[j] => redo'[j] <= s
        BY <2>2 DEF Stages
      <4> QED BY <2>1, <2>2, <2>3, <4>1, <4>2
    <3> QED BY <2>1, <2>3, <3>1
            DEF OutcomeInv, JobFacts, AllSucceeded, NoneOpen, Undisturbed, Serves, WorksOn, Live,
                jobRow, history
  <2>6. \A i \in Jobs \ {j} : JobFacts(i)'
    BY <2>1, JobUntouched DEF OutcomeInv, Undisturbed, Serves, WorksOn, Live, jobRow, history
  <2> QED BY <2>4, <2>5, <2>6 DEF OutcomeInv
<1>4. CASE RetryFailed(j)
  BY <1>4 DEF RetryFailed, TypeInv, TypeOK, ProcessTypes
<1>5. CASE TimeStep(j)
  <2>1. /\ \A i \in Jobs : status[i] = "failed" => stale'[i] = stale[i]
        /\ UNCHANGED <<status, cancelRequested, retries, stage, artifacts, asked, task, loop>>
    BY <1>0, <1>5 DEF TimeStep, BecomesDue, GoesStale, history, process
  <2>2. \A t \in Tasks : AttemptFacts(t)'
    BY <2>1, AttemptUntouched DEF OutcomeInv
  <2>3. \A i \in Jobs : JobFacts(i)'
    BY <2>1, JobUntouched DEF OutcomeInv, Undisturbed, Serves, WorksOn, Live
  <2> QED BY <2>2, <2>3 DEF OutcomeInv
<1> QED
  BY <1>1, <1>2, <1>3, <1>u, <1>4, <1>5

\* Skipping the open stages keeps what succeeded, and leaves none open.
LEMMA SkipOpenEffect ==
  ASSUME NEW f \in [Stages -> StageStatus]
  PROVE  \A s \in Stages : /\ SkipOpen(f)[s] = "succeeded" <=> f[s] = "succeeded"
                           /\ SkipOpen(f)[s] \notin {"pending", "running"}
  BY DEF SkipOpen, StageStatus

\* The steps of a worker's loop.
LEMMA LoopOutcomes ==
  ASSUME ~StallsAllowed, ~ZeroDelay, MaxManual = 0, TypeInv, ExclusiveOwner, OutcomeInv,
         NEW w \in Workers, LoopStep(w)
  PROVE  OutcomeInv'
<1>0. /\ DOMAIN status = Jobs /\ DOMAIN stale = Jobs
      /\ stage \in [Jobs -> [Stages -> StageStatus]]
      /\ task \in [Tasks -> TaskState]
      /\ loop \in [Workers -> LoopState]
  BY DEF TypeInv, TypeOK, RowTypes, ProcessTypes
<1>1. CASE SelectClaim(w) \/ SelectStale(w)
  <2>1. /\ UNCHANGED <<jobRow, stage, artifacts, history, task>>
        /\ \A v \in Workers : loop'[v] = loop[v] \/ loop'[v].pc \in {"claim", "reap"}
    BY <1>0, <1>1 DEF SelectClaim, SelectStale, LoopState
  <2>2. \A t \in Tasks : AttemptFacts(t)'
    BY <2>1, AttemptUntouched DEF OutcomeInv, jobRow, history
  <2>3. \A i \in Jobs : JobFacts(i)'
    BY <2>1, JobUntouched DEF OutcomeInv, Undisturbed, Serves, WorksOn, Live, jobRow, history
  <2> QED BY <2>2, <2>3 DEF OutcomeInv
<1>2. CASE Claim(w)
  <2>0. PICK j : j = loop[w].job
    OBVIOUS
  <2>1. CASE Claimable(j)
    <3>1. /\ j \in Jobs /\ status[j] = "queued" /\ status'[j] = "running"
          /\ \A i \in Jobs \ {j} : status'[i] = status[i] /\ stale'[i] = stale[i]
          /\ UNCHANGED <<cancelRequested, retries, stage, artifacts, asked, task>>
          /\ \A v \in Workers : loop'[v] = loop[v] \/ loop'[v].pc = "spawn"
      BY <1>0, <1>2, <2>0, <2>1 DEF Claim, Claimable, TypeInv, WellFormed, LoopState, history
    <3>2. \A t \in Tasks : ~Attends(t, j)
      BY <2>1, <3>1 DEF ExclusiveOwner, OwnedOnce
    <3>3. ASSUME NEW t \in Tasks PROVE AttemptFacts(t)'
      <4>1. CASE task[t].job = j
        <5>1. task[t].pc \in {"idle", "exit", "dropped"}
          BY <3>2, <4>1 DEF Attends, WorksOn, Live, Gone
        <5> QED BY <3>1, <5>1, AttemptUntouched DEF OutcomeInv
      <4>2. CASE task[t].job # j /\ Live(t)
        <5>1. task[t].job \in Jobs \ {j}
          BY <4>2 DEF TypeInv, WellFormed
        <5> QED BY <3>1, <5>1, AttemptUntouched DEF OutcomeInv
      <4>3. CASE ~Live(t)
        BY <3>1, <4>3, AttemptUntouched DEF OutcomeInv, Live
      <4> QED BY <4>1, <4>2, <4>3
    <3>4. JobFacts(j)'
      BY <3>1 DEF OutcomeInv, JobFacts, Terminal
    <3>5. \A i \in Jobs \ {j} : JobFacts(i)'
      BY <3>1, JobUntouched DEF OutcomeInv, Undisturbed, Serves, WorksOn, Live
    <3> QED BY <3>3, <3>4, <3>5 DEF OutcomeInv
  <2>2. CASE ~Claimable(j)
    <3>1. /\ UNCHANGED <<jobRow, stage, artifacts, history, task>>
          /\ \A v \in Workers : loop'[v] = loop[v] \/ loop'[v].pc = "ready"
      BY <1>0, <1>2, <2>0, <2>2 DEF Claim, IdleLoop, jobRow
    <3>2. \A t \in Tasks : AttemptFacts(t)'
      BY <3>1, AttemptUntouched DEF OutcomeInv, jobRow, history
    <3>3. \A i \in Jobs : JobFacts(i)'
      BY <3>1, JobUntouched DEF OutcomeInv, Undisturbed, Serves, WorksOn, Live, jobRow, history
    <3> QED BY <3>2, <3>3 DEF OutcomeInv
  <2> QED BY <2>1, <2>2
<1>3. CASE Spawn(w)
  <2>1. PICK t \in Tasks : /\ ~Live(t)
                           /\ task' = [task EXCEPT ![t] = [IdleTask EXCEPT !.pc = "trace",
                                                             !.job = loop[w].job, !.worker = w]]
    BY <1>3 DEF Spawn
  <2>2. /\ task'[t].pc = "trace" /\ task'[t].job = loop[w].job
        /\ \A u \in Tasks \ {t} : task'[u] = task[u]
    BY <1>0, <2>1 DEF IdleTask
  <2>3. /\ UNCHANGED <<jobRow, stage, artifacts, history>>
        /\ \A v \in Workers : loop'[v] = loop[v] \/ loop'[v].pc = "ready"
    BY <1>0, <1>3 DEF Spawn, IdleLoop
  <2>4. status[loop[w].job] = "running"
    BY <1>3 DEF Spawn, Spawning, ExclusiveOwner, OwnedOnce, TypeInv, WellFormed
  <2>5. AttemptFacts(t)'
    BY <2>2 DEF AttemptFacts, AtStage, InStage
  <2>6. \A u \in Tasks \ {t} : AttemptFacts(u)'
    BY <2>2, <2>3, AttemptUntouched DEF OutcomeInv, jobRow, history
  <2>7. \A i \in Jobs : status[i] = "failed" /\ Undisturbed(i) => Undisturbed(i)'
    BY <2>2, <2>3, <2>4 DEF Undisturbed, Serves, WorksOn, Live, jobRow
  <2>8. \A i \in Jobs : JobFacts(i)'
    BY <2>3, <2>7, JobUntouched DEF OutcomeInv, jobRow, history
  <2> QED BY <2>5, <2>6, <2>8 DEF OutcomeInv
<1>4. CASE Reap(w)
  <2> DEFINE batch == loop[w].batch
  <2>1. \A i \in Jobs : /\ i \in Lost(batch) => status[i] = "running" /\ status'[i] = "failed"
                        /\ i \notin Lost(batch) => status'[i] = status[i]
    BY <1>0, <1>4 DEF Reap, Lost
  <2>2. /\ \A v \in Workers \ {w} : loop'[v] = loop[v]
        /\ loop'[w].batch = batch
        /\ UNCHANGED <<cancelRequested, retries, stale, stage, artifacts, asked, task>>
    BY <1>0, <1>4 DEF Reap, LoopState
  <2>3. \A i \in Jobs : i \in batch => status'[i] \in Terminal
    BY <1>4, <2>1 DEF Reap, Lost, ExclusiveOwner, OwnedOnce, Terminal
  <2>4. \A i \in Lost(batch) \cap Jobs : Undisturbed(i)'
    BY <1>4, <2>2 DEF Reap, Lost, ExclusiveOwner, OwnedOnce, Terminal, Undisturbed, Attended,
                      Serves, WorksOn, Live
  <2>5. \A t \in Tasks : AttemptFacts(t)'
    <3>1. \A t \in Tasks : Live(t) => task[t].job \in Jobs
      BY DEF TypeInv, WellFormed
    <3> QED BY <2>1, <2>2, <3>1, AttemptUntouched DEF OutcomeInv, Live
  <2> HIDE DEF batch
  <2>6. ASSUME NEW i \in Jobs PROVE JobFacts(i)'
    <3>1. \A v \in Workers : loop'[v].pc = "skip" /\ i \in loop'[v].batch => status'[i] \in Terminal
      BY <2>1, <2>2, <2>3 DEF OutcomeInv, JobFacts, Lost, Terminal
    <3>2. Undisturbed(i) => Undisturbed(i)'
      BY <2>2 DEF Undisturbed, Serves, WorksOn, Live
    <3> QED BY <2>1, <2>2, <2>4, <3>1, <3>2 DEF OutcomeInv, JobFacts, AllSucceeded, NoneOpen
  <2> QED BY <2>5, <2>6 DEF OutcomeInv
<1>5. CASE SkipReaped(w)
  <2>1. PICK j \in loop[w].batch :
          /\ stage' = [stage EXCEPT ![j] = SkipOpen(@)]
          /\ IF loop[w].batch = {j}
               THEN loop' = [loop EXCEPT ![w] = IdleLoop("ready")]
               ELSE loop' = [loop EXCEPT ![w].batch = @ \ {j}]
    BY <1>5 DEF SkipReaped
  <2>2. /\ j \in Jobs /\ status[j] \in Terminal
        /\ UNCHANGED <<jobRow, artifacts, history, task>>
    BY <1>0, <1>5, <2>1 DEF SkipReaped, LoopState, OutcomeInv, JobFacts
  <2>3. /\ stage'[j] = SkipOpen(stage[j]) /\ \A i \in Jobs \ {j} : stage'[i] = stage[i]
        /\ \A v \in Workers, i \in Jobs : loop'[v].pc = "skip" /\ i \in loop'[v].batch =>
                                            loop[v].pc = "skip" /\ i \in loop[v].batch
    <3>1. stage'[j] = SkipOpen(stage[j]) /\ \A i \in Jobs \ {j} : stage'[i] = stage[i]
      BY <1>0, <2>1, <2>2
    <3>2. \A v \in Workers \ {w} : loop'[v] = loop[v]
      BY <1>0, <2>1
    <3>3. loop[w].pc = "skip" /\ (loop'[w].pc = "skip" => loop'[w].batch \subseteq loop[w].batch)
      BY <1>0, <1>5, <2>1 DEF SkipReaped, IdleLoop, LoopState
    <3> QED BY <3>1, <3>2, <3>3
  <2>4. \A s \in Stages : /\ stage'[j][s] = "succeeded" <=> stage[j][s] = "succeeded"
                          /\ stage'[j][s] \notin {"pending", "running"}
    BY <1>0, <2>2, <2>3, SkipOpenEffect
  <2>5. ASSUME NEW t \in Tasks PROVE AttemptFacts(t)'
    <3>1. CASE task[t].job = j
      <4>1. ~AtStage(t) /\ task[t].pc # "succeed"
        BY <2>2, <3>1, AttemptsRun DEF Terminal
      <4> QED BY <2>2, <3>1, <4>1
              DEF OutcomeInv, AttemptFacts, AtStage, InStage, jobRow, history, Terminal
    <3>2. CASE task[t].job # j /\ Live(t)
      <4>1. task[t].job \in Jobs \ {j}
        BY <3>2 DEF TypeInv, WellFormed
      <4> QED BY <2>2, <2>3, <4>1, AttemptUntouched DEF OutcomeInv, jobRow, history
    <3>3. CASE ~Live(t)
      BY <2>2, <3>3, AttemptUntouched DEF OutcomeInv, Live
    <3> QED BY <3>1, <3>2, <3>3
  <2>6. JobFacts(j)'
    BY <2>2, <2>3, <2>4 DEF OutcomeInv, JobFacts, AllSucceeded, NoneOpen, jobRow, history
  <2>7. \A i \in Jobs \ {j} : JobFacts(i)'
    BY <2>2, <2>3, JobUntouched DEF OutcomeInv, Undisturbed, Serves, WorksOn, Live, jobRow, history
  <2> QED BY <2>5, <2>6, <2>7 DEF OutcomeInv
<1> QED
  BY <1>1, <1>2, <1>3, <1>4, <1>5 DEF LoopStep

\* The steps of a worker's shutdown, crash and start.
LEMMA StopOutcomes ==
  ASSUME TypeInv, OutcomeInv, NEW w \in Workers, ShutdownStep(w) \/ Stop(w) \/ Crash(w)
  PROVE  OutcomeInv'
<1>0. /\ task \in [Tasks -> TaskState]
      /\ loop \in [Workers -> LoopState]
      /\ table \in [Workers -> [Jobs -> Tasks \cup {Nil}]]
  BY DEF TypeInv, TypeOK, RowTypes, ProcessTypes
<1>1. CASE InterruptDrained(w)
  <2>1. PICK S : CancelTasks(S)
    BY <1>1 DEF InterruptDrained
  <2>2. \A v \in Workers : loop'[v] = loop[v] \/ loop'[v].pc = "gather"
    BY <1>0, <1>1 DEF InterruptDrained, LoopState
  <2> QED BY <1>1, <2>1, <2>2, CancelOutcomes DEF InterruptDrained
<1>2. CASE ~InterruptDrained(w)
  <2>1. /\ UNCHANGED <<jobRow, stage, artifacts, history>>
        /\ \A t \in Tasks : task'[t] = task[t] \/ task'[t] = IdleTask
        /\ \A v \in Workers : loop'[v] = loop[v] \/ loop'[v].pc # "skip"
    BY <1>0, <1>2 DEF ShutdownStep, Exit, Start, Stop, Crash, Vanish, IdleLoop
  <2>2. \A t \in Tasks : AttemptFacts(t)'
    <3>1. \A t \in Tasks : task'[t] = IdleTask => AttemptFacts(t)'
      BY DEF AttemptFacts, AtStage, InStage, IdleTask
    <3> QED BY <2>1, <3>1, AttemptUntouched DEF OutcomeInv, jobRow, history
  <2>3. \A i \in Jobs : Undisturbed(i) => Undisturbed(i)'
    BY <2>1 DEF Undisturbed, Serves, WorksOn, Live, IdleTask, jobRow
  <2>4. \A i \in Jobs : JobFacts(i)'
    BY <2>1, <2>3, JobUntouched DEF OutcomeInv, jobRow, history
  <2> QED BY <2>2, <2>4 DEF OutcomeInv
<1> QED BY <1>1, <1>2

\* The transactions of one attempt, and the handler of its interrupt.
LEMMA AttemptOutcomes ==
  ASSUME ~StallsAllowed, ~ZeroDelay, MaxManual = 0, TypeInv, ExclusiveOwner, OutcomeInv,
         NEW t \in Tasks, TaskStep(t)
  PROVE  OutcomeInv'
<1>j. PICK j, s : j = task[t].job /\ s = task[t].stage
  OBVIOUS
<1>0. /\ DOMAIN status = Jobs /\ DOMAIN stale = Jobs
      /\ retries \in [Jobs -> Nat]
      /\ stage \in [Jobs -> [Stages -> StageStatus]]
      /\ task \in [Tasks -> TaskState]
  BY DEF TypeInv, TypeOK, RowTypes, ProcessTypes
<1>a. j \in Jobs /\ Live(t)
  BY <1>j DEF TaskStep, Trace, Load, Boundary, BeginStage, StageSucceeds, RetryLater, FailStage,
     SkipOpenStages,
         FinishJob, Outcome, HandleInterrupt, ResetForRetry, Done, TypeInv, WellFormed, Live
<1>b. /\ AttemptFacts(t) /\ JobFacts(j)
      /\ \A u \in Tasks : Live(u) => task[u].job \in Jobs
  BY <1>a DEF OutcomeInv, TypeInv, WellFormed
\* A step that leaves the other jobs and attempts alone, and whose own job is
\* not left to attempts of somebody else.
<1>c. ASSUME \A u \in Tasks \ {t} : task'[u] = task[u],
             \A i \in Jobs \ {j} :
               /\ status'[i] = status[i] /\ stale'[i] = stale[i]
               /\ stage'[i] = stage[i] /\ retries'[i] = retries[i],
             \A i \in Jobs \ {j} : outdated'[i] = outdated[i] /\ redo'[i] = redo[i],
             UNCHANGED <<asked, cancelRequested, loop>>,
             \A u \in Tasks \ {t} : WorksOn(u, j) =>
               \/ Over(u)
               \/ UNCHANGED <<stage, retries, redo>> /\ (status'[j] = status[j] \/ status'[j] # "running")
               \/ status[j] # "running" /\ UNCHANGED <<status, retries, redo>>,
             task'[t].job = j \/ task'[t].pc = "idle",
             AttemptFacts(t)', JobFacts(j)'
      PROVE  OutcomeInv'
  <2>1. ASSUME NEW u \in Tasks \ {t} PROVE AttemptFacts(u)'
    <3>1. CASE task[u].job = j /\ Live(u)
      <4>1. CASE status[j] # "running" /\ UNCHANGED <<status, retries, redo>>
        <5>1. ~AtStage(u) /\ task[u].pc # "succeed"
          BY <3>1, <4>1, AttemptsRun
        <5> QED BY <1>c, <2>1, <3>1, <4>1, <5>1 DEF OutcomeInv, AttemptFacts, AtStage, InStage
      <4>2. CASE ~(status[j] # "running" /\ UNCHANGED <<status, retries, redo>>)
        BY <1>c, <2>1, <3>1, <4>2, AttemptUntouched DEF OutcomeInv, WorksOn, Over
      <4> QED BY <4>1, <4>2
    <3>2. CASE task[u].job # j /\ Live(u)
      <4>1. task[u].job \in Jobs \ {j}
        BY <1>b, <3>2
      <4> QED BY <1>c, <4>1, AttemptUntouched DEF OutcomeInv
    <3>3. CASE ~Live(u)
      BY <1>c, <2>1, <3>3, AttemptUntouched DEF OutcomeInv, Live
    <3> QED BY <3>1, <3>2, <3>3
  <2>2. ASSUME NEW i \in Jobs \ {j} PROVE JobFacts(i)'
    <3>1. Undisturbed(i) => Undisturbed(i)'
      BY <1>j, <1>a, <1>c, <2>2 DEF Undisturbed, Serves, WorksOn, Live
    <3> QED BY <1>c, <2>2, <3>1, JobUntouched DEF OutcomeInv
  <2> QED BY <1>c, <2>1, <2>2 DEF OutcomeInv
<1>t. CASE Trace(t)
  <2>1. /\ UNCHANGED <<jobRow, stage, artifacts, history, loop>>
        /\ \A u \in Tasks \ {t} : task'[u] = task[u]
        /\ task'[t].job = j /\ task'[t].pc = "load"
    BY <1>j, <1>0, <1>t, GotoEffect DEF Trace
  <2>2. AttemptFacts(t)'
    BY <2>1 DEF AttemptFacts, AtStage, InStage
  <2>3. JobFacts(j)'
    BY <1>j, <1>a, <1>b, <1>t, <2>1, JobUntouched
    DEF Trace, Undisturbed, Serves, WorksOn, Live, jobRow, history
  <2> QED BY <1>c, <2>1, <2>2, <2>3 DEF jobRow, history
<1>1. CASE Load(t)
  <2>1. /\ UNCHANGED <<jobRow, stage, artifacts, history, loop>>
        /\ \A u \in Tasks \ {t} : task'[u] = task[u]
        /\ task'[t].job = j /\ task'[t].pc \in {"succeed", "boundary", "failSkip"}
    BY <1>j, <1>0, <1>1, LoadEffect DEF Load
  <2>2. AttemptFacts(t)'
    <3>1. CASE Goto(t, "failSkip")
      <4>1. task'[t].pc = "failSkip"
        BY <1>0, <3>1, GotoEffect
      <4> QED BY <4>1 DEF AttemptFacts, AtStage, InStage
    <3>2. CASE ~Goto(t, "failSkip")
      <4>1. PICK n \in 1..NumStages + 1 :
              /\ ResumesAt(task[t].job, n)
              /\ task' = [task EXCEPT ![t] = [@ EXCEPT !.pc = At(n), !.stage = n,
                                                       !.retries = retries[task[t].job]]]
        BY <1>1, <3>2 DEF Load
      <4>2. /\ task'[t].pc = At(n) /\ task'[t].stage = n /\ task'[t].retries = retries[j]
            /\ ResumesAt(j, n)
        BY <1>j, <1>0, <4>1 DEF TaskState
      <4>3. CASE n > NumStages
        BY <2>1, <4>2, <4>3, NumStagesAssumption
        DEF AttemptFacts, AtStage, InStage, At, ResumesAt, AllSucceeded, Stages
      <4>4. CASE n <= NumStages
        <5>1. n \in Stages
          BY <4>1, <4>4, NumStagesAssumption DEF Stages
        <5>2. stage[j][n] = "succeeded" => n >= redo[j]
          <6>1. redo[j] \in Int /\ n \in Int
            BY <1>a, <5>1, NumStagesAssumption DEF TypeInv, TypeOK, RowTypes, Stages
          <6>2. stage[j][n] = "succeeded" => redo[j] <= n
            BY <1>b, <4>2, <5>1 DEF ResumesAt, JobFacts
          <6> QED BY <6>1, <6>2
        <5> QED BY <2>1, <4>2, <4>4, <5>1, <5>2, NumStagesAssumption
                DEF AttemptFacts, AtStage, InStage, At, ResumesAt, Stages, jobRow
      <4> QED BY <4>1, <4>3, <4>4, NumStagesAssumption
    <3> QED BY <3>1, <3>2
  <2>3. Serves(t, j)
    BY <1>j, <1>a, <1>1 DEF Load, Serves, WorksOn
  <2>4. JobFacts(j)'
    BY <1>a, <1>b, <2>1, <2>3, JobUntouched DEF Undisturbed, Serves, WorksOn, Live, jobRow, history
  <2> QED BY <1>c, <2>1, <2>2, <2>4 DEF jobRow, history
<1>2. CASE Boundary(t) \/ HandleInterrupt(t)
  <2>1. PICK pc \in {"cancelSkip", "begin", "requeue"} :
          /\ Goto(t, pc)
          /\ pc = "cancelSkip" => cancelRequested[j]
          /\ pc = "begin" => AtStage(t)
    BY <1>j, <1>2 DEF Boundary, HandleInterrupt, AfterInterrupt, AtStage, InStage
  <2>2. /\ UNCHANGED <<jobRow, stage, artifacts, history, loop>>
        /\ \A u \in Tasks \ {t} : task'[u] = task[u]
        /\ task'[t].job = j /\ task'[t].pc = pc
        /\ task'[t].stage = s /\ task'[t].retries = task[t].retries
    BY <1>j, <1>0, <1>2, <2>1, GotoEffect, GotoKeeps DEF Boundary, HandleInterrupt
  <2>3. AttemptFacts(t)'
    BY <1>j, <1>b, <2>1, <2>2 DEF AttemptFacts, JobFacts, AtStage, InStage, jobRow, history
  <2>4. Serves(t, j)
    BY <1>j, <1>a, <1>2 DEF Boundary, HandleInterrupt, Serves, WorksOn
  <2>5. JobFacts(j)'
    BY <1>a, <1>b, <2>2, <2>4, JobUntouched DEF Undisturbed, Serves, WorksOn, Live, jobRow, history
  <2> QED BY <1>c, <2>2, <2>3, <2>5 DEF jobRow, history
\* A transaction inside a stage: the job runs, and nobody else runs it.
<1>d. ASSUME AtStage(t)
      PROVE  /\ status[j] = "running" /\ s \in Stages
             /\ \A u \in Tasks \ {t} : WorksOn(u, j) => Over(u)
             /\ \A v \in Workers : ~(loop[v].pc = "skip" /\ j \in loop[v].batch)
  <2>1. status[j] = "running" /\ ~task[t].shielded
    BY <1>j, <1>d, AttemptsRun
  <2>2. s \in Stages
    BY <1>j, <1>d DEF TypeInv, WellFormed, AtStage, InStage
  <2>3. \A u \in Tasks \ {t} : WorksOn(u, j) => Over(u)
    BY <1>j, <1>a, <1>d, <2>1, Alone DEF Gone, Over, AtStage, InStage
  <2> QED BY <1>b, <2>1, <2>2, <2>3 DEF JobFacts, Terminal
\* A stage that begins or fails is not one that an attempt could take for finished.
<1>e. ASSUME AtStage(t), UNCHANGED <<jobRow, artifacts, history, loop>>,
             stage'[j][s] # "succeeded", \A r \in Stages \ {s} : stage'[j][r] = stage[j][r]
      PROVE  JobFacts(j)'
  <2>1. redo[j] \in Int /\ s \in Int
    BY <1>a, <1>d, <1>e, NumStagesAssumption DEF TypeInv, TypeOK, RowTypes, Stages
  <2>2. \A a, b \in Stages : b < a /\ stage'[j][a] = "succeeded" =>
          stage'[j][b] = "succeeded" \/ a >= redo[j]
    <3> SUFFICES ASSUME NEW a \in Stages, NEW b \in Stages, b < a,
                        stage'[j][a] = "succeeded", stage'[j][b] # "succeeded"
                 PROVE  a >= redo[j]
      OBVIOUS
    <3>1. stage[j][a] = "succeeded" /\ a \in Int /\ b \in Int
      BY <1>e DEF Stages
    <3>2. CASE stage[j][b] = "succeeded"
      <4>1. b = s
        BY <1>e, <3>2
      <4>2. s >= redo[j]
        BY <1>j, <1>b, <1>e, <3>2, <4>1 DEF AttemptFacts
      <4> QED BY <2>1, <3>1, <4>1, <4>2
    <3>3. CASE stage[j][b] # "succeeded"
      BY <1>b, <3>1, <3>3 DEF JobFacts
    <3> QED BY <3>2, <3>3
  <2>3. \A r \in outdated[j] \cap Stages : stage'[j][r] = "succeeded" => redo[j] <= r
    <3>1. \A r \in Stages : stage'[j][r] = "succeeded" => stage[j][r] = "succeeded"
      BY <1>e
    <3> QED BY <1>b, <3>1 DEF JobFacts
  <2> QED BY <1>b, <1>d, <1>e, <2>2, <2>3 DEF JobFacts, jobRow, history
<1>3. CASE BeginStage(t)
  <2>1. /\ AtStage(t) /\ UNCHANGED <<jobRow, artifacts, history, loop>>
        /\ \A u \in Tasks \ {t} : task'[u] = task[u]
        /\ task'[t].job = j /\ task'[t].pc = "agent"
        /\ task'[t].stage = s /\ task'[t].retries = task[t].retries
    BY <1>j, <1>0, <1>3, GotoEffect, GotoKeeps DEF BeginStage, AtStage, InStage
  <2>2. /\ stage'[j][s] = "running"
        /\ \A r \in Stages \ {s} : stage'[j][r] = stage[j][r]
        /\ \A i \in Jobs \ {j} : stage'[i] = stage[i]
    BY <1>j, <1>0, <1>3, <1>a, <1>d, <2>1 DEF BeginStage, UpdateStage
  <2>3. AttemptFacts(t)'
    BY <1>j, <1>b, <1>d, <2>1, <2>2 DEF AttemptFacts, AtStage, InStage, Stages, jobRow, history
  <2>4. JobFacts(j)'
    BY <1>e, <2>1, <2>2 DEF jobRow, history
  <2> QED BY <1>c, <1>d, <2>1, <2>2, <2>3, <2>4 DEF jobRow, history
<1>4. CASE StageSucceeds(t)
  <2>1. /\ AtStage(t) /\ UNCHANGED <<jobRow, history, loop>>
        /\ \A u \in Tasks \ {t} : task'[u] = task[u]
        /\ task'[t].job = j /\ task'[t].pc = At(s + 1)
        /\ task'[t].stage = s + 1 /\ task'[t].retries = task[t].retries
    BY <1>j, <1>0, <1>4 DEF StageSucceeds, TaskState, AtStage, InStage
  <2>2. /\ stage'[j][s] = "succeeded" /\ stage[j][s] # "succeeded"
        /\ \A r \in Stages \ {s} : stage'[j][r] = stage[j][r]
        /\ \A i \in Jobs \ {j} : stage'[i] = stage[i]
    BY <1>j, <1>0, <1>4, <1>a, <1>b, <1>d, <2>1 DEF StageSucceeds, UpdateStage, AttemptFacts
  <2>3. /\ outdated'[j] = outdated[j] \ {s}
        /\ redo'[j] = (IF redo[j] = s THEN s + 1 ELSE redo[j])
        /\ \A i \in Jobs \ {j} : outdated'[i] = outdated[i] /\ redo'[i] = redo[i]
    BY <1>j, <1>4, <1>a DEF StageSucceeds, TypeInv, TypeOK, RowTypes
  <2>4. redo[j] \in Int /\ s \in Int
    BY <1>a, <1>d, <2>1, NumStagesAssumption DEF TypeInv, TypeOK, RowTypes, Stages
  <2>5. \A r \in Stages : r < s => stage'[j][r] = "succeeded"
    BY <1>j, <1>b, <2>1, <2>2, <2>4 DEF AttemptFacts, Stages
  <2>6. \A r \in Stages : r > s /\ stage[j][r] = "succeeded" => r >= redo'[j]
    BY <1>b, <1>d, <2>1, <2>2, <2>3, <2>4 DEF JobFacts, Stages
  <2>7. AttemptFacts(t)'
    <3>1. \A r \in Stages : r < s + 1 => stage'[j][r] = "succeeded"
      BY <2>2, <2>4, <2>5 DEF Stages
    <3>2. s + 1 \in Stages /\ stage'[j][s + 1] = "succeeded" => s + 1 >= redo'[j]
      BY <2>2, <2>4, <2>6 DEF Stages
    <3>3. retries'[j] = task'[t].retries
      BY <1>j, <1>b, <2>1 DEF AttemptFacts, jobRow
    <3>4. CASE s + 1 > NumStages
      BY <1>d, <2>1, <2>4, <3>1, <3>4, NumStagesAssumption
      DEF AttemptFacts, AtStage, InStage, At, AllSucceeded, Stages
    <3>5. CASE s + 1 <= NumStages
      <4>1. s + 1 \in Stages
        BY <1>d, <2>1, <3>5, NumStagesAssumption DEF Stages
      <4> QED BY <2>1, <2>4, <3>1, <3>2, <3>3, <3>5, <4>1, NumStagesAssumption
              DEF AttemptFacts, AtStage, InStage, At
    <3> QED BY <2>4, <3>4, <3>5, NumStagesAssumption
  <2>8. JobFacts(j)'
    <3>1. \A a, b \in Stages : b < a /\ stage'[j][a] = "succeeded" =>
            stage'[j][b] = "succeeded" \/ a >= redo'[j]
      <4> SUFFICES ASSUME NEW a \in Stages, NEW b \in Stages, b < a,
                          stage'[j][a] = "succeeded", stage'[j][b] # "succeeded"
                   PROVE  a >= redo'[j]
        OBVIOUS
      <4>1. a # s /\ b # s
        BY <2>2, <2>5
      <4>2. stage[j][a] = "succeeded" /\ stage[j][b] # "succeeded"
        BY <2>2, <4>1
      <4>3. a >= redo[j] /\ a \in Int /\ b \in Int
        BY <1>b, <4>2 DEF JobFacts, Stages
      <4> QED BY <2>3, <2>4, <4>1, <4>3
    <3>2. \A r \in outdated'[j] \cap Stages : stage'[j][r] = "succeeded" => redo'[j] <= r
      <4> SUFFICES ASSUME NEW r \in outdated'[j] \cap Stages, stage'[j][r] = "succeeded"
                   PROVE  redo'[j] <= r
        OBVIOUS
      <4>1. r # s /\ r \in outdated[j] /\ stage[j][r] = "succeeded" /\ r \in Int
        BY <2>2, <2>3 DEF Stages
      <4>2. redo[j] <= r
        BY <1>b, <4>1 DEF JobFacts
      <4> QED BY <2>3, <2>4, <4>1, <4>2
    <3> QED BY <1>b, <1>d, <2>1, <3>1, <3>2 DEF JobFacts, jobRow, history
  <2> QED BY <1>c, <1>d, <2>1, <2>2, <2>3, <2>7, <2>8 DEF jobRow, history
<1>5. CASE RetryLater(t)
  <2>1. AtStage(t)
    BY <1>5 DEF RetryLater, AtStage, InStage
  <2>2. /\ Requeue(j) /\ retries' = [retries EXCEPT ![j] = @ + 1] /\ Goto(t, "exit")
        /\ UNCHANGED <<cancelRequested, artifacts, asked, loop>> /\ task[t].retries < MaxTransient
    BY <1>j, <1>5, <1>d, <2>1 DEF RetryLater, MayRetry, history
  <2>3. /\ \A u \in Tasks \ {t} : task'[u] = task[u]
        /\ task'[t].job = j /\ task'[t].pc = "exit"
    BY <1>j, <1>0, <2>2, GotoEffect
  <2>4. /\ status'[j] = "queued" /\ retries'[j] = retries[j] + 1
        /\ \A i \in Jobs \ {j} : /\ status'[i] = status[i] /\ stale'[i] = stale[i]
                                 /\ stage'[i] = stage[i] /\ retries'[i] = retries[i]
        /\ \A r \in Stages : stage'[j][r] = "succeeded" <=> stage[j][r] = "succeeded"
    BY <1>0, <1>a, <2>2 DEF Requeue, ResetOpen
  <2>5. AttemptFacts(t)'
    BY <2>3 DEF AttemptFacts, AtStage, InStage
  <2>6. retries'[j] <= MaxTransient
    BY <1>j, <1>0, <1>a, <1>b, <2>1, <2>2, <2>4, BoundsAssumption DEF AttemptFacts
  <2>7. JobFacts(j)'
    BY <1>b, <1>d, <2>1, <2>2, <2>4, <2>6 DEF JobFacts
  <2> QED BY <1>c, <1>d, <2>1, <2>2, <2>3, <2>4, <2>5, <2>7
<1>6. CASE FailStage(t)
  <2>1. /\ AtStage(t) /\ UNCHANGED <<jobRow, artifacts, history, loop>>
        /\ \A u \in Tasks \ {t} : task'[u] = task[u]
        /\ task'[t].job = j /\ task'[t].pc = "failSkip"
    BY <1>j, <1>0, <1>6, GotoEffect DEF FailStage, AtStage, InStage
  <2>2. /\ stage'[j][s] = "failed"
        /\ \A r \in Stages \ {s} : stage'[j][r] = stage[j][r]
        /\ \A i \in Jobs \ {j} : stage'[i] = stage[i]
    BY <1>j, <1>0, <1>6, <1>a, <1>d, <2>1 DEF FailStage, UpdateStage
  <2>3. AttemptFacts(t)'
    BY <2>1 DEF AttemptFacts, AtStage, InStage
  <2>4. JobFacts(j)'
    BY <1>e, <2>1, <2>2 DEF jobRow, history
  <2> QED BY <1>c, <1>d, <2>1, <2>2, <2>3, <2>4 DEF jobRow, history
<1>7. CASE SkipOpenStages(t)
  <2>1. PICK pc \in {"failFinish", "cancelFinish"} :
          Goto(t, pc) /\ (pc = "cancelFinish" => task[t].pc = "cancelSkip")
    BY <1>7 DEF SkipOpenStages
  <2>2. /\ UNCHANGED <<jobRow, artifacts, history, loop>>
        /\ \A u \in Tasks \ {t} : task'[u] = task[u]
        /\ task'[t].job = j /\ task'[t].pc = pc
    BY <1>j, <1>0, <1>7, <2>1, GotoEffect DEF SkipOpenStages
  <2>3. /\ \A r \in Stages : /\ stage'[j][r] = "succeeded" <=> stage[j][r] = "succeeded"
                             /\ stage'[j][r] \notin {"pending", "running"}
        /\ \A i \in Jobs \ {j} : stage'[i] = stage[i]
    <3>1. stage' = [stage EXCEPT ![j] = SkipOpen(stage[j])]
      BY <1>j, <1>7 DEF SkipOpenStages
    <3>2. stage'[j] = SkipOpen(stage[j]) /\ \A i \in Jobs \ {j} : stage'[i] = stage[i]
      BY <1>0, <1>a, <3>1
    <3> QED BY <1>0, <1>a, <3>2, SkipOpenEffect
  <2>4. \A u \in Tasks \ {t} : WorksOn(u, j) => Over(u) \/ status[j] # "running"
    BY <1>j, <1>a, <1>7, Alone DEF SkipOpenStages, Gone
  <2>5. AttemptFacts(t)'
    BY <1>j, <1>b, <2>1, <2>2, <2>3 DEF AttemptFacts, AtStage, InStage, NoneOpen, jobRow, history
  <2>6. JobFacts(j)'
    BY <1>b, <2>2, <2>3 DEF JobFacts, AllSucceeded, NoneOpen, jobRow, history
  <2> QED BY <1>c, <2>2, <2>3, <2>4, <2>5, <2>6 DEF jobRow, history
<1>8. CASE FinishJob(t)
  <2>1. /\ UNCHANGED <<cancelRequested, retries, stale, stage, artifacts, asked, loop>>
        /\ \A u \in Tasks \ {t} : task'[u] = task[u]
        /\ task'[t].job = j /\ task'[t].pc = "exit"
    BY <1>j, <1>0, <1>8, GotoEffect DEF FinishJob
  <2>2. AttemptFacts(t)'
    BY <2>1 DEF AttemptFacts, AtStage, InStage
  <2>3. CASE status[j] # "running"
    <3>1. UNCHANGED status
      BY <1>j, <1>8, <2>3 DEF FinishJob, Finish
    <3>2. Serves(t, j)
      BY <1>j, <1>a, <1>8 DEF FinishJob, Outcome, Serves, WorksOn
    <3>3. JobFacts(j)'
      BY <1>a, <1>b, <2>1, <3>1, <3>2, JobUntouched DEF Undisturbed, Serves, WorksOn, Live
    <3> QED BY <1>c, <2>1, <2>2, <3>1, <3>3
  <2>4. CASE status[j] = "running"
    <3>1. PICK outcome : /\ status' = [status EXCEPT ![j] = outcome]
                         /\ outcome \in Terminal
                         /\ outcome = "succeeded" => task[t].pc = "succeed"
                         /\ outcome = "failed" => task[t].pc = "failFinish"
                         /\ outcome = "cancelled" => task[t].pc = "cancelFinish"
      BY <1>j, <1>8, <2>4 DEF FinishJob, Finish, Outcome, Terminal
    <3>2. status'[j] = outcome /\ \A i \in Jobs \ {j} : status'[i] = status[i]
      BY <1>0, <1>a, <3>1
    <3>3. JobFacts(j)'
      BY <1>j, <1>b, <2>1, <2>4, <3>1, <3>2
      DEF AttemptFacts, JobFacts, AllSucceeded, NoneOpen, Terminal
    <3> QED BY <1>c, <2>1, <2>2, <3>1, <3>2, <3>3 DEF Terminal
  <2> QED BY <2>3, <2>4
<1>9. CASE ResetForRetry(t)
  <2>1. /\ UNCHANGED <<cancelRequested, retries, artifacts, asked, loop>>
        /\ \A u \in Tasks \ {t} : task'[u] = task[u]
        /\ task'[t].job = j /\ task'[t].pc = "exit"
    BY <1>j, <1>0, <1>9, GotoEffect DEF ResetForRetry, history
  <2>2. AttemptFacts(t)'
    BY <2>1 DEF AttemptFacts, AtStage, InStage
  <2>3. CASE status[j] # "running"
    <3>1. UNCHANGED <<status, stale, stage>>
      BY <1>j, <1>9, <2>3 DEF ResetForRetry
    <3>2. Serves(t, j)
      BY <1>j, <1>a, <1>9 DEF ResetForRetry, Serves, WorksOn
    <3>3. JobFacts(j)'
      BY <1>a, <1>b, <2>1, <3>1, <3>2, JobUntouched DEF Undisturbed, Serves, WorksOn, Live
    <3> QED BY <1>c, <2>1, <2>2, <3>1, <3>3
  <2>4. CASE status[j] = "running"
    <3>1. Requeue(j)
      BY <1>j, <1>9, <2>4 DEF ResetForRetry
    <3>2. /\ status'[j] = "queued"
          /\ \A i \in Jobs \ {j} : /\ status'[i] = status[i] /\ stale'[i] = stale[i]
                                   /\ stage'[i] = stage[i]
          /\ \A r \in Stages : stage'[j][r] = "succeeded" <=> stage[j][r] = "succeeded"
      BY <1>0, <1>a, <3>1 DEF Requeue, ResetOpen
    <3>3. \A u \in Tasks \ {t} : WorksOn(u, j) => Over(u)
      BY <1>j, <1>a, <1>9, <2>4, Alone DEF ResetForRetry, Gone
    <3>4. JobFacts(j)'
      BY <1>b, <2>1, <2>4, <3>2 DEF JobFacts, Terminal
    <3> QED BY <1>c, <2>1, <2>2, <3>2, <3>3, <3>4
  <2> QED BY <2>3, <2>4
<1>10. CASE Done(t)
  <2>1. /\ UNCHANGED <<jobRow, stage, artifacts, history, loop>>
        /\ \A u \in Tasks \ {t} : task'[u] = task[u]
        /\ task'[t].pc = "idle"
    BY <1>0, <1>10 DEF Done, IdleTask
  <2>2. AttemptFacts(t)'
    BY <2>1 DEF AttemptFacts, AtStage, InStage
  <2>3. JobFacts(j)'
    BY <1>j, <1>a, <1>b, <2>1, JobUntouched DEF Undisturbed, Serves, WorksOn, Live, jobRow, history
  <2> QED BY <1>c, <2>1, <2>2, <2>3 DEF jobRow, history
<1> QED
  BY <1>t, <1>1, <1>2, <1>3, <1>4, <1>5, <1>6, <1>7, <1>8, <1>9, <1>10 DEF TaskStep

LEMMA StepOutcomeInv ==
  ASSUME ~StallsAllowed, ~ZeroDelay, MaxManual = 0, TypeInv, ExclusiveOwner, OutcomeInv, [Next]_vars
  PROVE  OutcomeInv'
<1>1. ASSUME NEW t \in Tasks, Heartbeat(t) PROVE OutcomeInv'
  <2>1. /\ UNCHANGED <<status, cancelRequested, retries, stage, artifacts, asked, task, loop>>
        /\ stale' = [stale EXCEPT ![task[t].job] = FALSE]
    BY <1>1 DEF Heartbeat, process, history
  <2>2. \A i \in Jobs : Undisturbed(i) => Undisturbed(i)'
    BY <1>1, <2>1 DEF Heartbeat, Undisturbed, Serves, WorksOn, Live, TypeInv, TypeOK, RowTypes
  <2>3. \A u \in Tasks : AttemptFacts(u)'
    BY <2>1, AttemptUntouched DEF OutcomeInv
  <2>4. \A i \in Jobs : JobFacts(i)'
    BY <2>1, <2>2, JobUntouched DEF OutcomeInv
  <2> QED BY <2>3, <2>4 DEF OutcomeInv
<1>2. CASE UNCHANGED vars
  <2>1. \A u \in Tasks : AttemptFacts(u)'
    BY <1>2, AttemptUntouched DEF OutcomeInv, vars, jobRow, history, process
  <2>2. \A i \in Jobs : JobFacts(i)'
    BY <1>2, JobUntouched
    DEF OutcomeInv, vars, jobRow, history, process, Undisturbed, Serves, WorksOn, Live
  <2> QED BY <2>1, <2>2 DEF OutcomeInv
<1> QED
  BY <1>1, <1>2, OwnerOutcomes, LoopOutcomes, StopOutcomes, AttemptOutcomes DEF Next

LEMMA OutcomesKept ==
  ASSUME ~StallsAllowed, ~ZeroDelay, MaxManual = 0
  PROVE  Spec => []OutcomeInv
<1>1. TypeInv /\ ExclusiveOwner /\ OutcomeInv /\ [Next]_vars => OutcomeInv'
  BY StepOutcomeInv
<1>2. Spec => []ExclusiveOwner
  BY OwnershipKept
<1> QED
  BY InitOutcomeInv, <1>1, <1>2, TypeInvariant, PTL DEF Spec

-----------------------------------------------------------------------------
(* The theorems that follow from it.                                       *)

\* A job never reads as succeeded unless every stage did, a job that its worker
\* or a cancel ended has no stage open, and only a cancel of the owner cancels
\* it: through crashes, shutdowns, automatic retries and the reaper.
THEOREM OutcomesAreJustified ==
  ASSUME ~StallsAllowed, ~ZeroDelay, MaxManual = 0
  PROVE  Spec => []OutcomesJustified
<1>1. OutcomeInv => OutcomesJustified
  BY DEF OutcomeInv, JobFacts, OutcomesJustified, OutcomeMatchesStages, CancelledOnlyIfAsked,
         AllSucceeded, NoneOpen, Undisturbed
<1> QED
  BY <1>1, OutcomesKept, PTL

\* A finished stage is never run again: it stays succeeded until a cancel of the
\* queued job skips it, or an upgrade has outdated it or a stage before it.
LEMMA StepFinishedStages ==
  ASSUME TypeInv, ExclusiveOwner, OutcomeInv, [Next]_vars,
         NEW j \in Jobs, NEW s \in Stages, stage[j][s] = "succeeded"
  PROVE  stage'[j][s] = "succeeded" \/ status'[j] = "cancelled" \/ s >= redo[j]
<1>0. stage \in [Jobs -> [Stages -> StageStatus]] /\ DOMAIN status = Jobs
  BY DEF TypeInv, TypeOK, RowTypes
<1>1. ASSUME NEW i \in Jobs, Requeue(i) PROVE stage'[j][s] = "succeeded"
  BY <1>0, <1>1 DEF Requeue, ResetOpen
<1>2. ASSUME NEW i \in Jobs, stage' = [stage EXCEPT ![i] = SkipOpen(stage[i])]
      PROVE  stage'[j][s] = "succeeded"
  BY <1>0, <1>2, SkipOpenEffect
<1>3. ASSUME NEW t \in Tasks, AtStage(t), NEW value, UpdateStage(t, value)
      PROVE  stage'[j][s] = "succeeded" \/ s >= redo[j]
  <2>1. task[t].stage = s /\ task[t].job = j => s >= redo[j]
    BY <1>3 DEF OutcomeInv, AttemptFacts
  <2>2. task[t].stage # s \/ task[t].job # j => stage'[j][s] = "succeeded"
    BY <1>0, <1>3 DEF UpdateStage
  <2> QED BY <2>1, <2>2
<1>4. ASSUME NEW i \in Jobs,
             Submit(i) \/ CancelQueued(i) \/ CallStep(i) \/ RetryFailed(i) \/ TimeStep(i)
      PROVE  stage'[j][s] = "succeeded" \/ status'[j] = "cancelled"
  <2>1. CASE CancelQueued(i)
    BY <1>0, <2>1 DEF CancelQueued
  <2>2. CASE RetryFailed(i)
    BY <1>1, <2>2 DEF RetryFailed
  <2>3. CASE Submit(i) \/ CallStep(i) \/ TimeStep(i)
    BY <2>3 DEF Submit, CallStep, CancelFlag, CancelStatus, CancelLocal, TimeStep,
              BecomesDue, GoesStale
  <2> QED BY <1>4, <2>1, <2>2, <2>3
<1>u. ASSUME NEW i \in Jobs, NEW r \in Stages, Upgrade(i, r) PROVE stage'[j][s] = "succeeded"
  BY <1>u DEF Upgrade
<1>5. ASSUME NEW w \in Workers, LoopStep(w) \/ ShutdownStep(w) \/ Stop(w) \/ Crash(w)
      PROVE  stage'[j][s] = "succeeded"
  <2>1. CASE SkipReaped(w)
    BY <1>2, <2>1 DEF SkipReaped, TypeInv, TypeOK, ProcessTypes, LoopState
  <2>2. CASE ~SkipReaped(w)
    BY <1>5, <2>2 DEF LoopStep, SelectClaim, Claim, Spawn, SelectStale, Reap, ShutdownStep,
                      InterruptDrained, Exit, Start, Stop, Crash
  <2> QED BY <2>1, <2>2
<1>6. ASSUME NEW t \in Tasks, TaskStep(t) PROVE stage'[j][s] = "succeeded" \/ s >= redo[j]
  <2>1. CASE BeginStage(t) \/ StageSucceeds(t) \/ FailStage(t)
    BY <1>3, <2>1 DEF BeginStage, StageSucceeds, FailStage, AtStage, InStage
  <2>2. CASE RetryLater(t) \/ ResetForRetry(t)
    <3>1. task[t].job \in Jobs
      BY <2>2 DEF RetryLater, ResetForRetry, TypeInv, WellFormed, Live
    <3> QED BY <1>1, <2>2, <3>1 DEF RetryLater, ResetForRetry
  <2>3. CASE SkipOpenStages(t)
    <3>1. task[t].job \in Jobs
      BY <2>3 DEF SkipOpenStages, TypeInv, WellFormed, Live
    <3> QED BY <1>2, <2>3, <3>1 DEF SkipOpenStages
  <2>4. CASE Trace(t) \/ Load(t) \/ Boundary(t) \/ FinishJob(t) \/ HandleInterrupt(t) \/ Done(t)
    BY <2>4 DEF Trace, Load, Boundary, FinishJob, HandleInterrupt, Done
  <2> QED BY <1>6, <2>1, <2>2, <2>3, <2>4 DEF TaskStep
<1>7. ASSUME NEW t \in Tasks, Heartbeat(t) PROVE stage'[j][s] = "succeeded"
  BY <1>7 DEF Heartbeat
<1>8. CASE UNCHANGED vars
  BY <1>8 DEF vars
<1> QED
  BY <1>4, <1>u, <1>5, <1>6, <1>7, <1>8 DEF Next

\* What is paid for is kept.
LEMMA StagesStayFinished ==
  ASSUME ~StallsAllowed, ~ZeroDelay, MaxManual = 0
  PROVE  Spec => FinishedStagesKept
<1>1. TypeInv /\ ExclusiveOwner /\ OutcomeInv /\ [Next]_vars =>
        [\A j \in Jobs : \A s \in Stages : stage[j][s] = "succeeded" =>
           stage'[j][s] = "succeeded" \/ status'[j] = "cancelled" \/ s >= redo[j]]_vars
  BY StepFinishedStages
<1>2. Spec => []ExclusiveOwner /\ []OutcomeInv
  BY OwnershipKept, OutcomesKept
<1> QED
  BY <1>1, <1>2, TypeInvariant, PTL DEF FinishedStagesKept, Spec

-----------------------------------------------------------------------------
(* The worker's own books: while no callback of an old attempt can erase   *)
(* the entry of a new one, the table names every attempt of the process,   *)
(* so nothing outgrows the slots or is forgotten at the exit.  That is so  *)
(* with one slot, and with any number when the owner cancels nothing.      *)

\* The table of a worker names the attempts it awaits, and those only.
TablesName ==
  /\ \A t \in Tasks, w \in Workers, j \in Jobs :
       table[w][j] = t <=>
         Live(t) /\ ~task[t].detached /\ task[t].worker = w /\ task[t].job = j
  /\ \A t \in Tasks : ~Live(t) => task[t].worker = Nil /\ ~task[t].detached

\* It has no more entries than slots, and one slot is free for a job being claimed.
TablesFit ==
  \A w \in Workers :
    /\ IsFiniteSet(Running(w)) /\ Cardinality(Running(w)) <= Concurrency
    /\ loop[w].pc \in {"claim", "spawn"} => Cardinality(Running(w)) < Concurrency

\* Without cancels of the owner, only a shutdown's interrupt reaches a task.
OnlyShutdownInterrupts ==
  MaxCancels = 0 =>
    /\ \A j \in Jobs : call[j] = "idle"
    /\ \A t \in Tasks : Live(t) /\ (task[t].shielded \/ task[t].pc = "dropped") =>
                          loop[task[t].worker].pc = "gather"

SlotInv == TablesName /\ TablesFit /\ OnlyShutdownInterrupts

LEMMA InitSlotInv == Init => SlotInv
<1> SUFFICES ASSUME Init PROVE SlotInv
  OBVIOUS
<1>1. \A w \in Workers : Running(w) = {}
  BY DEF Init, Running, EmptyTable
<1>2. \A w \in Workers : IsFiniteSet(Running(w)) /\ Cardinality(Running(w)) = 0
  BY <1>1, FS_EmptySet
<1>3. TablesFit
  BY <1>2, BoundsAssumption DEF TablesFit
<1>4. TablesName /\ OnlyShutdownInterrupts
  BY NilAssumption
  DEF Init, TablesName, OnlyShutdownInterrupts, IdleTask, IdleLoop, EmptyTable, Live
<1> QED BY <1>3, <1>4 DEF SlotInv

\* A step that neither creates, cancels nor ends an attempt, and claims only for a
\* free slot.
Steady ==
  /\ UNCHANGED table
  /\ \A t \in Tasks :
       /\ task'[t].job = task[t].job /\ task'[t].worker = task[t].worker
       /\ task'[t].shielded = task[t].shielded /\ task'[t].detached = task[t].detached
       /\ Live(t)' <=> Live(t)
       /\ task'[t].pc = "dropped" => task[t].pc = "dropped"
  /\ \A w \in Workers :
       /\ loop'[w].pc \in {"claim", "spawn"} => loop[w].pc \in {"claim", "spawn"} \/ SlotFree(w)
       /\ loop[w].pc = "gather" => loop'[w].pc = "gather"
  /\ MaxCancels = 0 => \A j \in Jobs : call[j] = "idle" => call'[j] = "idle"

LEMMA SteadyKeepsSlots ==
  ASSUME TypeInv, SlotInv, Steady
  PROVE  SlotInv'
<1>1. TablesName'
  BY DEF SlotInv, TablesName, Steady
<1>2. \A w \in Workers : Running(w)' = Running(w)
  BY DEF Running, Steady
<1>3. TablesFit'
  BY <1>2 DEF SlotInv, TablesFit, Steady, SlotFree
<1>4. \A t \in Tasks : Live(t) => task[t].worker \in Workers
  BY DEF TypeInv, WellFormed
<1>5. OnlyShutdownInterrupts'
  BY <1>4 DEF SlotInv, OnlyShutdownInterrupts, Steady
<1> QED BY <1>1, <1>3, <1>5 DEF SlotInv

\* Entries that go make room.
LEMMA TablesShrink ==
  ASSUME TablesFit,
         \A w \in Workers : Running(w)' \subseteq Running(w),
         \A w \in Workers : loop'[w].pc \in {"claim", "spawn"} => loop[w].pc \in {"claim", "spawn"}
  PROVE  TablesFit'
<1> SUFFICES ASSUME NEW w \in Workers
             PROVE  /\ IsFiniteSet(Running(w)') /\ Cardinality(Running(w)') <= Concurrency
                    /\ loop'[w].pc \in {"claim", "spawn"} => Cardinality(Running(w)') < Concurrency
  BY DEF TablesFit
<1>1. IsFiniteSet(Running(w)) /\ Running(w)' \in SUBSET Running(w)
  BY DEF TablesFit
<1>2. IsFiniteSet(Running(w)') /\ Cardinality(Running(w)') <= Cardinality(Running(w))
  BY <1>1, FS_Subset
<1>3. Cardinality(Running(w)) \in Nat /\ Cardinality(Running(w)') \in Nat
  BY <1>1, <1>2, FS_CardinalityType
<1>4. /\ Cardinality(Running(w)) <= Concurrency
      /\ loop[w].pc \in {"claim", "spawn"} => Cardinality(Running(w)) < Concurrency
  BY DEF TablesFit
<1> QED BY <1>2, <1>3, <1>4, BoundsAssumption

\* A cancelled task keeps its entry, unless it leaves its handler on its own.
LEMMA CancelKeepsSlots ==
  ASSUME TypeInv, SlotInv, NEW S, Nil \notin S, CancelTasks(S),
         \A w \in Workers : loop'[w].pc \in {"claim", "spawn"} => loop[w].pc \in {"claim", "spawn"}
  PROVE  TablesName' /\ TablesFit'
<1>0. /\ task \in [Tasks -> TaskState]
      /\ table \in [Workers -> [Jobs -> Tasks \cup {Nil}]]
  BY DEF TypeInv, TypeOK, ProcessTypes
<1>1. /\ \A t \in Tasks : CancelMoves(t)
      /\ \A t \in Tasks : t \notin S => task'[t] = task[t]
      /\ \A t \in S \cap Tasks : Detaches(t) => task'[t].detached
      /\ \A t \in Tasks : ~Detaches(t) => task'[t].detached = task[t].detached
  BY <1>0, TasksCancelled
<1>2. \A w \in Workers, j \in Jobs :
        table'[w][j] = IF table[w][j] \in S /\ Detaches(table[w][j]) THEN Nil ELSE table[w][j]
  BY DEF CancelTasks
<1>3. \A t \in Tasks : /\ task'[t].job = task[t].job /\ task'[t].worker = task[t].worker
                       /\ Live(t)' <=> Live(t)
  BY <1>1 DEF CancelMoves, Live
<1>4. ASSUME NEW t \in Tasks, NEW w \in Workers, NEW j \in Jobs
      PROVE  table'[w][j] = t <=>
               Live(t)' /\ ~task'[t].detached /\ task'[t].worker = w /\ task'[t].job = j
  <2>0. t # Nil
    BY NilAssumption
  <2>1. table[w][j] = t <=>
          Live(t) /\ ~task[t].detached /\ task[t].worker = w /\ task[t].job = j
    BY DEF SlotInv, TablesName
  <2>2. CASE t \in S /\ Detaches(t)
    <3>1. table'[w][j] # t
      BY <1>2, <2>0, <2>2
    <3>2. task'[t].detached
      BY <1>1, <2>2
    <3> QED BY <3>1, <3>2
  <2>3. CASE ~(t \in S /\ Detaches(t))
    <3>1. task'[t].detached = task[t].detached
      BY <1>1, <2>3
    <3>2. table'[w][j] = t <=> table[w][j] = t
      BY <1>2, <2>0, <2>3
    <3> QED BY <1>3, <2>1, <3>1, <3>2
  <2> QED BY <2>2, <2>3
<1>5. ASSUME NEW t \in Tasks, ~Live(t)' PROVE task'[t].worker = Nil /\ ~task'[t].detached
  <2>1. ~Live(t) /\ ~Detaches(t)
    BY <1>3, <1>5 DEF Live, Detaches, HandlerPC
  <2>2. task[t].worker = Nil /\ ~task[t].detached
    BY <2>1 DEF SlotInv, TablesName
  <2> QED BY <1>1, <1>3, <2>1, <2>2
<1>6. TablesName'
  BY <1>4, <1>5 DEF TablesName
<1>7. \A w \in Workers : Running(w)' \subseteq Running(w)
  BY <1>2 DEF Running
<1> QED BY <1>6, <1>7, TablesShrink DEF SlotInv

\* A job is claimed for a worker whose table has no entry for it: with one slot the
\* table is empty, and otherwise every older attempt on the job is past its end, on a
\* worker that shuts down.
LEMMA EntryIsFree ==
  ASSUME Concurrency = 1 \/ MaxCancels = 0, TypeInv, ExclusiveOwner, SlotInv,
         NEW w \in Workers, loop[w].pc = "spawn"
  PROVE  table[w][loop[w].job] = Nil
<1>0. loop[w].job \in Jobs /\ table \in [Workers -> [Jobs -> Tasks \cup {Nil}]]
  BY DEF TypeInv, TypeOK, ProcessTypes, WellFormed
<1>1. PICK j \in Jobs : j = loop[w].job
  BY <1>0
<1> SUFFICES ASSUME table[w][j] # Nil PROVE FALSE
  BY <1>1
<1>2. IsFiniteSet(Running(w)) /\ Cardinality(Running(w)) < Concurrency /\ j \in Running(w)
  BY DEF SlotInv, TablesFit, Running
<1>3. CASE Concurrency = 1
  <2>1. Cardinality(Running(w)) \in Nat
    BY <1>2, FS_CardinalityType
  <2>2. Cardinality(Running(w)) = 0
    BY <1>2, <1>3, <2>1
  <2> QED BY <1>2, <2>2, FS_EmptySet
<1>4. CASE MaxCancels = 0
  <2>1. PICK t \in Tasks : t = table[w][j]
    BY <1>0
  <2>2. WorksOn(t, j) /\ task[t].worker = w
    BY <2>1 DEF SlotInv, TablesName, WorksOn
  <2>3. Spawning(w, j) /\ status[j] = "running"
    BY <1>1 DEF Spawning, ExclusiveOwner, OwnedOnce
  <2>4. Gone(t)
    BY <2>2, <2>3 DEF ExclusiveOwner, OwnedOnce, Attends
  <2>5. loop[w].pc = "gather"
    BY <1>4, <2>2, <2>4 DEF SlotInv, OnlyShutdownInterrupts, Gone, WorksOn
  <2> QED BY <2>5
<1> QED BY <1>3, <1>4

\* An attempt that is over takes its own entry with it.
LEMMA DoneKeepsSlots ==
  ASSUME TypeInv, SlotInv, NEW t \in Tasks, Done(t)
  PROVE  SlotInv'
<1>0. /\ task \in [Tasks -> TaskState]
      /\ table \in [Workers -> [Jobs -> Tasks \cup {Nil}]]
      /\ Live(t) /\ task[t].worker \in Workers /\ task[t].job \in Jobs
  BY DEF TypeInv, TypeOK, ProcessTypes, Done, WellFormed, Live
<1>1. /\ task'[t] = IdleTask /\ \A u \in Tasks \ {t} : task'[u] = task[u]
      /\ UNCHANGED <<loop, call>>
  BY <1>0 DEF Done
<1>2. \A w \in Workers, j \in Jobs :
        table'[w][j] = IF ~task[t].detached /\ w = task[t].worker /\ j = task[t].job
                         THEN Nil ELSE table[w][j]
  BY <1>0 DEF Done
<1>3. t # Nil /\ ~Live(t)' /\ task'[t].worker = Nil /\ ~task'[t].detached
  BY <1>1, NilAssumption DEF Live, IdleTask
<1>4. \A w \in Workers, j \in Jobs : table'[w][j] # t
  BY <1>0, <1>2, <1>3 DEF SlotInv, TablesName
<1>5. ASSUME NEW u \in Tasks \ {t}, NEW w \in Workers, NEW j \in Jobs
      PROVE  table'[w][j] = u <=> table[w][j] = u
  <2>1. ~task[t].detached => table[task[t].worker][task[t].job] = t
    BY <1>0 DEF SlotInv, TablesName
  <2>2. u # Nil /\ u # t
    BY NilAssumption
  <2> QED BY <1>2, <2>1, <2>2
<1>6. \A u \in Tasks \ {t} : Live(u)' <=> Live(u)
  BY <1>1 DEF Live
<1>7. TablesName'
  <2>1. ASSUME NEW u \in Tasks, NEW w \in Workers, NEW j \in Jobs
        PROVE  table'[w][j] = u <=>
                 Live(u)' /\ ~task'[u].detached /\ task'[u].worker = w /\ task'[u].job = j
    <3>1. CASE u = t
      BY <1>3, <1>4, <3>1
    <3>2. CASE u # t
      BY <1>1, <1>5, <1>6, <3>2 DEF SlotInv, TablesName
    <3> QED BY <3>1, <3>2
  <2>2. \A u \in Tasks : ~Live(u)' => task'[u].worker = Nil /\ ~task'[u].detached
    BY <1>1, <1>3, <1>6 DEF SlotInv, TablesName
  <2> QED BY <2>1, <2>2 DEF TablesName
<1>8. \A w \in Workers : Running(w)' \subseteq Running(w)
  BY <1>2 DEF Running
<1>9. TablesFit'
  BY <1>1, <1>8, TablesShrink DEF SlotInv
<1>10. OnlyShutdownInterrupts'
  BY <1>1, <1>3, <1>6 DEF SlotInv, OnlyShutdownInterrupts
<1> QED BY <1>7, <1>9, <1>10 DEF SlotInv

\* A process that ends takes its tasks and its table with it.
LEMMA VanishKeepsSlots ==
  ASSUME TypeInv, SlotInv, NEW w \in Workers, Vanish(w), UNCHANGED call
  PROVE  SlotInv'
<1>0. /\ table \in [Workers -> [Jobs -> Tasks \cup {Nil}]]
      /\ loop \in [Workers -> LoopState]
      /\ \A t \in Tasks : Live(t) => task[t].worker \in Workers
  BY DEF TypeInv, TypeOK, ProcessTypes, WellFormed
<1>1. /\ \A t \in Tasks : task'[t] = IF task[t].worker = w THEN IdleTask ELSE task[t]
      /\ \A j \in Jobs : table'[w][j] = Nil
      /\ \A v \in Workers \ {w} : table'[v] = table[v] /\ loop'[v] = loop[v]
      /\ loop'[w].pc = "down"
  BY <1>0 DEF Vanish, EmptyTable, IdleLoop
<1>2. \A t \in Tasks : Live(t)' <=> Live(t) /\ task[t].worker # w
  BY <1>1 DEF Live, IdleTask
<1>3. ASSUME NEW t \in Tasks, NEW v \in Workers, NEW j \in Jobs
      PROVE  table'[v][j] = t <=>
               Live(t)' /\ ~task'[t].detached /\ task'[t].worker = v /\ task'[t].job = j
  <2>0. t # Nil /\ IdleTask.worker = Nil /\ v # Nil
    BY NilAssumption DEF IdleTask
  <2>1. CASE v = w
    BY <1>1, <1>2, <2>0, <2>1
  <2>2. CASE v # w
    <3>1. table[v][j] = t <=>
            Live(t) /\ ~task[t].detached /\ task[t].worker = v /\ task[t].job = j
      BY DEF SlotInv, TablesName
    <3> QED BY <1>1, <1>2, <2>0, <2>2, <3>1
  <2> QED BY <2>1, <2>2
<1>4. \A t \in Tasks : ~Live(t)' => task'[t].worker = Nil /\ ~task'[t].detached
  BY <1>1, <1>2 DEF SlotInv, TablesName, IdleTask
<1>5. TablesName'
  BY <1>3, <1>4 DEF TablesName
<1>6. \A v \in Workers : Running(v)' \subseteq Running(v)
  BY <1>1 DEF Running
<1>7. TablesFit'
  BY <1>1, <1>6, TablesShrink DEF SlotInv
<1>8. OnlyShutdownInterrupts'
  BY <1>0, <1>1, <1>2 DEF SlotInv, OnlyShutdownInterrupts
<1> QED BY <1>5, <1>7, <1>8 DEF SlotInv

\* A new attempt takes the slot it was claimed for.
LEMMA SpawnKeepsSlots ==
  ASSUME Concurrency = 1 \/ MaxCancels = 0, TypeInv, ExclusiveOwner, SlotInv,
         NEW w \in Workers, Spawn(w)
  PROVE  SlotInv'
<1>0. /\ task \in [Tasks -> TaskState]
      /\ table \in [Workers -> [Jobs -> Tasks \cup {Nil}]]
      /\ loop \in [Workers -> LoopState]
      /\ loop[w].pc = "spawn" /\ loop[w].job \in Jobs
      /\ \A t \in Tasks : Live(t) => task[t].worker \in Workers
  BY DEF TypeInv, TypeOK, ProcessTypes, WellFormed, Spawn
<1>1. PICK j \in Jobs : j = loop[w].job
  BY <1>0
<1>2. PICK t \in Tasks :
        /\ ~Live(t)
        /\ task' = [task EXCEPT ![t] = [IdleTask EXCEPT !.pc = "trace", !.job = loop[w].job,
                                                        !.worker = w]]
        /\ table' = [table EXCEPT ![w][loop[w].job] = t]
  BY DEF Spawn
<1>3. /\ task'[t].pc = "trace" /\ task'[t].job = j /\ task'[t].worker = w
      /\ ~task'[t].detached /\ ~task'[t].shielded
      /\ \A u \in Tasks \ {t} : task'[u] = task[u]
  BY <1>0, <1>1, <1>2 DEF IdleTask
<1>4. /\ table'[w][j] = t /\ \A i \in Jobs \ {j} : table'[w][i] = table[w][i]
      /\ \A v \in Workers \ {w} : table'[v] = table[v]
  BY <1>0, <1>1, <1>2
<1>5. /\ loop'[w].pc = "ready" /\ \A v \in Workers \ {w} : loop'[v] = loop[v]
      /\ UNCHANGED call
  BY <1>0 DEF Spawn, IdleLoop
<1>6. table[w][j] = Nil
  BY <1>0, <1>1, EntryIsFree
<1>7. t # Nil /\ Live(t)' /\ \A u \in Tasks \ {t} : Live(u)' <=> Live(u)
  BY <1>3, NilAssumption DEF Live
<1>8. ASSUME NEW u \in Tasks, NEW v \in Workers, NEW i \in Jobs
      PROVE  table'[v][i] = u <=>
               Live(u)' /\ ~task'[u].detached /\ task'[u].worker = v /\ task'[u].job = i
  <2>1. table[v][i] = u <=>
          Live(u) /\ ~task[u].detached /\ task[u].worker = v /\ task[u].job = i
    BY DEF SlotInv, TablesName
  <2>2. u # Nil
    BY NilAssumption
  <2>3. CASE u = t
    <3>1. table[v][i] # t
      BY <1>2, <2>1, <2>3
    <3>2. table'[v][i] = t <=> v = w /\ i = j
      BY <1>4, <3>1
    <3> QED BY <1>3, <1>7, <2>3, <3>2
  <2>4. CASE u # t
    <3>1. table'[v][i] = u <=> table[v][i] = u
      BY <1>4, <1>6, <2>2, <2>4
    <3> QED BY <1>3, <1>7, <2>1, <2>4, <3>1
  <2> QED BY <2>3, <2>4
<1>9. \A u \in Tasks : ~Live(u)' => task'[u].worker = Nil /\ ~task'[u].detached
  BY <1>3, <1>7 DEF SlotInv, TablesName
<1>10. TablesName'
  BY <1>8, <1>9 DEF TablesName
<1>11. TablesFit'
  <2> SUFFICES ASSUME NEW v \in Workers
               PROVE  /\ IsFiniteSet(Running(v)') /\ Cardinality(Running(v)') <= Concurrency
                      /\ loop'[v].pc \in {"claim", "spawn"} => Cardinality(Running(v)') < Concurrency
    BY DEF TablesFit
  <2>0. /\ IsFiniteSet(Running(v)) /\ Cardinality(Running(v)) <= Concurrency
        /\ loop[v].pc \in {"claim", "spawn"} => Cardinality(Running(v)) < Concurrency
    BY DEF SlotInv, TablesFit
  <2>1. CASE v = w
    <3>1. Running(w)' = Running(w) \cup {j}
      BY <1>4, <1>6, <1>7 DEF Running
    <3>2. j \notin Running(w)
      BY <1>6 DEF Running
    <3>3. /\ IsFiniteSet(Running(w)')
          /\ Cardinality(Running(w)') = Cardinality(Running(w)) + 1
      BY <2>0, <2>1, <3>1, <3>2, FS_AddElement
    <3>4. Cardinality(Running(w)) \in Nat /\ Cardinality(Running(w)) < Concurrency
      BY <1>0, <2>0, <2>1, FS_CardinalityType
    <3> QED BY <1>5, <2>1, <3>3, <3>4, BoundsAssumption
  <2>2. CASE v # w
    <3>1. Running(v)' = Running(v)
      BY <1>4, <2>2 DEF Running
    <3> QED BY <1>5, <2>0, <2>2, <3>1
  <2> QED BY <2>1, <2>2
<1>12. OnlyShutdownInterrupts'
  <2> SUFFICES ASSUME MaxCancels = 0, NEW u \in Tasks, Live(u)',
                      task'[u].shielded \/ task'[u].pc = "dropped"
               PROVE  loop'[task'[u].worker].pc = "gather"
    BY <1>5 DEF SlotInv, OnlyShutdownInterrupts
  <2>1. u # t
    BY <1>3
  <2>2. Live(u) /\ task'[u] = task[u] /\ loop[task[u].worker].pc = "gather"
    BY <1>3, <1>7, <2>1 DEF SlotInv, OnlyShutdownInterrupts
  <2>3. task[u].worker \in Workers \ {w}
    BY <1>0, <2>2
  <2> QED BY <1>5, <2>2, <2>3
<1> QED BY <1>10, <1>11, <1>12 DEF SlotInv

\* The interrupt of a shutdown reaches the tasks of its own worker.
LEMMA InterruptKeepsSlots ==
  ASSUME TypeInv, SlotInv, NEW w \in Workers, InterruptDrained(w)
  PROVE  SlotInv'
<1> DEFINE S == {table[w][j] : j \in Running(w)}
<1>0. /\ task \in [Tasks -> TaskState]
      /\ table \in [Workers -> [Jobs -> Tasks \cup {Nil}]]
      /\ loop \in [Workers -> LoopState]
  BY DEF TypeInv, TypeOK, ProcessTypes
<1>1. /\ Nil \notin S /\ CancelTasks(S) /\ UNCHANGED call
      /\ loop[w].pc = "drain" /\ loop'[w].pc = "gather"
      /\ \A v \in Workers \ {w} : loop'[v] = loop[v]
  BY <1>0 DEF InterruptDrained, Running, LoopState
<1>2. \A t \in S \cap Tasks : task[t].worker = w
  BY DEF SlotInv, TablesName, Running
<1> HIDE DEF S
<1>3. TablesName' /\ TablesFit'
  BY <1>1, CancelKeepsSlots
<1>4. OnlyShutdownInterrupts'
  <2> SUFFICES ASSUME MaxCancels = 0, NEW t \in Tasks, Live(t)',
                      task'[t].shielded \/ task'[t].pc = "dropped"
               PROVE  loop'[task'[t].worker].pc = "gather"
    BY <1>1 DEF SlotInv, OnlyShutdownInterrupts
  <2>1. CancelMoves(t) /\ (t \notin S => task'[t] = task[t])
    BY <1>0, <1>1, TasksCancelled
  <2>2. Live(t) /\ task'[t].worker = task[t].worker
    BY <2>1 DEF CancelMoves, Live
  <2>3. CASE t \in S
    BY <1>1, <1>2, <2>2, <2>3
  <2>4. CASE t \notin S
    <3>1. task[t].worker \in Workers /\ loop[task[t].worker].pc = "gather"
      BY <2>1, <2>2, <2>4 DEF SlotInv, OnlyShutdownInterrupts, TypeInv, WellFormed
    <3> QED BY <1>1, <2>2, <3>1
  <2> QED BY <2>3, <2>4
<1> QED BY <1>3, <1>4 DEF SlotInv

LEMMA StepSlotInv ==
  ASSUME Concurrency = 1 \/ MaxCancels = 0, TypeInv, ExclusiveOwner, SlotInv, [Next]_vars
  PROVE  SlotInv'
<1>0. /\ task \in [Tasks -> TaskState]
      /\ table \in [Workers -> [Jobs -> Tasks \cup {Nil}]]
      /\ loop \in [Workers -> LoopState]
      /\ call \in [Jobs -> {"idle", "flag", "status", "local"}]
      /\ cancels \in [Jobs -> Nat]
  BY DEF TypeInv, TypeOK, ProcessTypes
<1>1. ASSUME NEW t \in Tasks, Live(t), NEW pc, pc \notin {"idle", "dropped"}, Goto(t, pc),
             UNCHANGED <<table, loop, call>>
      PROVE  Steady
  BY <1>0, <1>1, GotoEffect DEF Steady, Live
<1>2. ASSUME UNCHANGED <<task, table, loop, call>> PROVE Steady
  BY <1>2 DEF Steady, Live
<1>3. ASSUME NEW j \in Jobs,
             \/ Submit(j) \/ CancelQueued(j) \/ CallStep(j) \/ RetryFailed(j) \/ TimeStep(j)
             \/ \E s \in Stages : Upgrade(j, s)
      PROVE  SlotInv'
  <2>1. CASE Submit(j) \/ RetryFailed(j) \/ TimeStep(j) \/ \E s \in Stages : Upgrade(j, s)
    <3>1. UNCHANGED <<task, table, loop, call>>
      BY <2>1 DEF Submit, RetryFailed, TimeStep, BecomesDue, GoesStale, Upgrade, process
    <3> QED BY <1>2, <3>1, SteadyKeepsSlots
  <2>2. CASE CancelQueued(j)
    <3>1. UNCHANGED <<task, table, loop>> /\ MaxCancels # 0
      BY <1>0, <2>2, BoundsAssumption DEF CancelQueued
    <3>2. Steady
      BY <3>1 DEF Steady, Live
    <3> QED BY <3>2, SteadyKeepsSlots
  <2>3. CASE CallStep(j) /\ UNCHANGED <<task, table>>
    <3>1. UNCHANGED <<task, table, loop>> /\ call[j] # "idle"
      BY <2>3 DEF CallStep, CancelFlag, CancelStatus, CancelLocal
    <3>2. MaxCancels # 0
      BY <3>1 DEF SlotInv, OnlyShutdownInterrupts
    <3>3. Steady
      BY <3>1, <3>2 DEF Steady, Live
    <3> QED BY <3>3, SteadyKeepsSlots
  <2>4. CASE CallStep(j) /\ ~UNCHANGED <<task, table>>
    <3>1. PICK w \in Workers : table[w][j] # Nil /\ CancelTasks({table[w][j]})
      BY <2>4 DEF CallStep, CancelFlag, CancelStatus, CancelLocal
    <3>2. UNCHANGED loop /\ call[j] # "idle"
      BY <2>4 DEF CallStep, CancelFlag, CancelStatus, CancelLocal
    <3>3. MaxCancels # 0
      BY <3>2 DEF SlotInv, OnlyShutdownInterrupts
    <3>4. Nil \notin {table[w][j]}
      BY <3>1
    <3>5. TablesName' /\ TablesFit'
      BY <3>1, <3>2, <3>4, CancelKeepsSlots
    <3> QED BY <3>3, <3>5 DEF SlotInv, OnlyShutdownInterrupts
  <2> QED BY <1>3, <2>1, <2>2, <2>3, <2>4
<1>4. ASSUME NEW w \in Workers, LoopStep(w) PROVE SlotInv'
  <2>1. CASE Spawn(w)
    BY <2>1, SpawnKeepsSlots
  <2>2. CASE ~Spawn(w)
    <3>1. /\ UNCHANGED <<task, table, call>> /\ \A v \in Workers \ {w} : loop'[v] = loop[v]
          /\ loop[w].pc # "gather"
      BY <1>0, <1>4, <2>2 DEF LoopStep, SelectClaim, Claim, SelectStale, Reap, SkipReaped
    <3>2. loop'[w].pc \in {"claim", "spawn"} => loop[w].pc \in {"claim", "spawn"} \/ SlotFree(w)
      <4>1. CASE SelectClaim(w) \/ Claim(w)
        BY <4>1 DEF SelectClaim, Claim
      <4>2. CASE SelectStale(w) \/ Reap(w)
        BY <1>0, <4>2 DEF SelectStale, Reap, LoopState
      <4>3. CASE SkipReaped(w)
        <5>1. PICK j \in loop[w].batch :
                \/ loop' = [loop EXCEPT ![w] = IdleLoop("ready")]
                \/ loop' = [loop EXCEPT ![w].batch = @ \ {j}]
          BY <4>3 DEF SkipReaped
        <5>2. loop[w].pc = "skip"
          BY <4>3 DEF SkipReaped
        <5>3. loop' = [loop EXCEPT ![w] = IdleLoop("ready")] => loop'[w].pc = "ready"
          BY <1>0 DEF IdleLoop
        <5>4. loop' = [loop EXCEPT ![w].batch = @ \ {j}] => loop'[w].pc = "skip"
          BY <1>0, <5>2 DEF LoopState
        <5> QED BY <5>1, <5>3, <5>4
      <4> QED BY <1>4, <2>2, <4>1, <4>2, <4>3 DEF LoopStep
    <3>3. Steady
      BY <3>1, <3>2 DEF Steady, Live
    <3> QED BY <3>3, SteadyKeepsSlots
  <2> QED BY <2>1, <2>2
<1>5. ASSUME NEW w \in Workers, ShutdownStep(w) \/ Stop(w) \/ Crash(w) PROVE SlotInv'
  <2>1. CASE InterruptDrained(w)
    BY <2>1, InterruptKeepsSlots
  <2>2. CASE Exit(w) \/ Crash(w)
    <3>1. Vanish(w) /\ UNCHANGED call
      BY <2>2 DEF Exit, Crash
    <3> QED BY <3>1, VanishKeepsSlots
  <2>3. CASE Start(w) \/ Stop(w)
    <3>1. /\ UNCHANGED <<task, table, call>>
          /\ loop[w].pc # "gather" /\ loop'[w].pc \in {"ready", "drain"}
          /\ \A v \in Workers \ {w} : loop'[v] = loop[v]
      BY <1>0, <2>3 DEF Start, Stop, IdleLoop
    <3>2. Steady
      BY <3>1 DEF Steady, Live
    <3> QED BY <3>2, SteadyKeepsSlots
  <2> QED BY <1>5, <2>1, <2>2, <2>3 DEF ShutdownStep
<1>6. ASSUME NEW t \in Tasks, TaskStep(t) PROVE SlotInv'
  <2>1. CASE Done(t)
    BY <2>1, DoneKeepsSlots
  <2>2. CASE Load(t)
    <3>1. task[t].pc = "load" /\ UNCHANGED <<table, loop, call>>
      BY <2>2 DEF Load
    <3>2. Steady
      BY <1>0, <2>2, <3>1, LoadEffect DEF Steady, Live
    <3> QED BY <3>2, SteadyKeepsSlots
  <2>3. CASE StageSucceeds(t)
    <3>1. At(task[t].stage + 1) \notin {"idle", "dropped"}
      BY DEF At
    <3>2. /\ task'[t].job = task[t].job /\ task'[t].worker = task[t].worker
          /\ task'[t].shielded = task[t].shielded /\ task'[t].detached = task[t].detached
          /\ task'[t].pc \notin {"idle", "dropped"} /\ Live(t)
          /\ \A u \in Tasks \ {t} : task'[u] = task[u]
          /\ UNCHANGED <<table, loop, call>>
      BY <1>0, <2>3, <3>1 DEF StageSucceeds, TaskState, Live
    <3>3. Steady
      BY <3>2 DEF Steady, Live
    <3> QED BY <3>3, SteadyKeepsSlots
  <2>4. CASE ~(Done(t) \/ Load(t) \/ StageSucceeds(t))
    <3>1. /\ Live(t) /\ UNCHANGED <<table, loop, call>>
          /\ \E pc : pc \notin {"idle", "dropped"} /\ Goto(t, pc)
      BY <1>6, <2>4
      DEF TaskStep, Trace, Boundary, BeginStage, RetryLater, FailStage, SkipOpenStages,
          FinishJob, Outcome, HandleInterrupt, AfterInterrupt, ResetForRetry, Live
    <3> QED BY <1>1, <3>1, SteadyKeepsSlots
  <2> QED BY <2>1, <2>2, <2>3, <2>4
<1>7. ASSUME NEW t \in Tasks, Heartbeat(t) PROVE SlotInv'
  BY <1>2, <1>7, SteadyKeepsSlots DEF Heartbeat, process
<1>8. CASE UNCHANGED vars
  BY <1>2, <1>8, SteadyKeepsSlots DEF vars, process
<1> QED
  BY <1>3, <1>4, <1>5, <1>6, <1>7, <1>8 DEF Next

LEMMA SlotsKept ==
  ASSUME Concurrency = 1 \/ MaxCancels = 0, ~StallsAllowed, ~ZeroDelay, MaxManual = 0
  PROVE  Spec => []SlotInv
<1>1. TypeInv /\ ExclusiveOwner /\ SlotInv /\ [Next]_vars => SlotInv'
  BY StepSlotInv
<1>2. Spec => []ExclusiveOwner
  BY OwnershipKept
<1> QED
  BY InitSlotInv, <1>1, <1>2, TypeInvariant, PTL DEF Spec

\* Every attempt of a worker has an entry of its own in the table.
LEMMA AttemptsFitSlots ==
  ASSUME TypeInv, SlotInv
  PROVE  SlotsRespected
<1> SUFFICES ASSUME NEW w \in Workers PROVE Cardinality(Attempts(w)) <= Concurrency
  BY DEF SlotsRespected
<1>1. \A t \in Attempts(w) : t \in Tasks /\ Live(t) /\ task[t].job \in Jobs
  BY NilAssumption DEF Attempts, SlotInv, TablesName, TypeInv, WellFormed
<1>2. \A t \in Attempts(w) : table[w][task[t].job] = t
  BY <1>1 DEF Attempts, SlotInv, TablesName
<1> DEFINE f == [t \in Attempts(w) |-> task[t].job]
<1>3. \A t \in Attempts(w) : task[t].job \in Running(w)
  BY <1>1, <1>2, NilAssumption DEF Running
<1>4. f \in [Attempts(w) -> Running(w)]
  BY <1>3
<1>5. \A t, u \in Attempts(w) : f[t] = f[u] => t = u
  BY <1>2
<1>6. f \in Injection(Attempts(w), Running(w))
  BY <1>4, <1>5 DEF Injection, IsInjective
<1>7. IsFiniteSet(Running(w)) /\ Cardinality(Running(w)) <= Concurrency
  BY DEF SlotInv, TablesFit
<1>8. IsFiniteSet(Attempts(w)) /\ Cardinality(Attempts(w)) <= Cardinality(Running(w))
  BY <1>6, <1>7, FS_Injection
<1>9. Cardinality(Attempts(w)) \in Nat /\ Cardinality(Running(w)) \in Nat
  BY <1>7, <1>8, FS_CardinalityType
<1> QED
  BY <1>7, <1>8, <1>9, BoundsAssumption

\* The attempts of a worker are no more than its slots, however many it has, and a job
\* is requeued automatically at most job_transient_retries times: with cancels of the
\* owner for one slot, for any number of slots without.
THEOREM AttemptsAreBounded ==
  ASSUME Concurrency = 1 \/ MaxCancels = 0, ~StallsAllowed, ~ZeroDelay, MaxManual = 0
  PROVE  Spec => []AttemptsBounded
<1>1. TypeInv /\ OutcomeInv /\ SlotInv => AttemptsBounded
  BY AttemptsFitSlots DEF AttemptsBounded, OutcomeInv, JobFacts, RetriesBounded, TypeInv
<1>2. Spec => []OutcomeInv /\ []SlotInv
  BY OutcomesKept, SlotsKept
<1> QED
  BY <1>1, <1>2, TypeInvariant, PTL

\* No stage that is paid for is run again, unless an upgrade has outdated what it or a
\* stage before it stored, and a shutdown that completes cuts no attempt short, save a
\* handler that a second cancel left on its own.
THEOREM WorkIsNeverLost ==
  ASSUME Concurrency = 1 \/ MaxCancels = 0, ~StallsAllowed, ~ZeroDelay, MaxManual = 0
  PROVE  Spec => WorkIsKept
<1>1. TypeInv /\ SlotInv /\ [Next]_vars =>
        [\A w \in Workers : Exit(w) =>
           \A t \in Tasks : task[t].worker = w => task[t].detached]_vars
  <2> SUFFICES ASSUME TypeInv, SlotInv, NEW w \in Workers, Exit(w), NEW t \in Tasks,
                      task[t].worker = w, ~task[t].detached
               PROVE  FALSE
    OBVIOUS
  <2>1. Live(t) /\ task[t].job \in Jobs
    BY NilAssumption DEF SlotInv, TablesName, TypeInv, WellFormed
  <2>2. table[w][task[t].job] = t
    BY <2>1 DEF SlotInv, TablesName
  <2> QED BY <2>1, <2>2, NilAssumption DEF Exit, Drained, Running
<1>2. Spec => []SlotInv
  BY SlotsKept
<1>3. Spec => ExitKillsNoAttempt
  BY <1>1, <1>2, TypeInvariant, PTL DEF ExitKillsNoAttempt, Spec
<1>4. FinishedStagesKept /\ ExitKillsNoAttempt => WorkIsKept
  BY DEF WorkIsKept
<1> QED
  BY <1>3, <1>4, StagesStayFinished
=============================================================================
