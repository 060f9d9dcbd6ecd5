------------------------------ MODULE JobQueue ------------------------------
(***************************************************************************)
(* The job queue: the rows of the jobs and job_stages tables, the workers  *)
(* that claim jobs and run them as asyncio tasks, the reaper every worker  *)
(* runs, and the API calls that cancel and retry a job.                    *)
(*                                                                         *)
(* A step is one database transaction (repository.py commits once per      *)
(* operation) together with the local computation that follows it, so two  *)
(* tasks, replicas or requests interleave exactly where the code awaits.   *)
(* Time is abstract: a queued job becomes due, a running one goes stale.   *)
(***************************************************************************)
EXTENDS Integers, FiniteSets

CONSTANTS
  Jobs,           \* job ids, numbered in creation order (created_at, id)
  Workers,        \* worker processes (replicas)
  Tasks,          \* asyncio tasks that may exist at the same time
  NumStages,      \* length of the pipeline (STAGE_ORDER)
  Concurrency,    \* worker_concurrency: slots of one worker
  MaxTransient,   \* job_transient_retries
  StallsAllowed,  \* may a live task miss its heartbeats for stale_after?
  ZeroDelay,      \* may run_after pass before the attempt that set it is gone?
  MaxManual,      \* bound: retries by the owner, per job
  MaxCancels,     \* bound: cancel requests, per job
  MaxStops,       \* bound: shutdowns and crashes of workers, together
  MaxUpgrades,    \* bound: upgrades after which a stored artifact no longer validates
  Nil             \* no job, no worker, no task

ASSUME JobsAssumption == Jobs \subseteq Nat
ASSUME NumStagesAssumption == NumStages \in Nat \ {0}
ASSUME BoundsAssumption ==
  /\ Concurrency \in Nat \ {0}
  /\ MaxTransient \in Nat
  /\ MaxManual \in Nat
  /\ MaxCancels \in Nat
  /\ MaxStops \in Nat
  /\ MaxUpgrades \in Nat
  /\ StallsAllowed \in BOOLEAN
  /\ ZeroDelay \in BOOLEAN
ASSUME NilAssumption == Nil \notin Jobs \cup Workers \cup Tasks

VARIABLES
  status,           \* jobs.status; "none" before the job is created
  cancelRequested,  \* jobs.cancel_requested
  retries,          \* jobs.retries
  due,              \* run_after is NULL or in the past
  stale,            \* the last heartbeat is older than stale_after
  held,             \* the job still holds a budget reservation
  stage,            \* job_stages.status of every stage
  outdated,         \* finished stages whose stored artifact no longer validates
  endings,          \* job_events: terminal events since the owner last queued the job
  asked,            \* history: a cancel took effect since the owner last queued the job
  redo,             \* history: stages from here on finished before an upgrade outdated one of
                    \* them or one before them
  task,             \* the asyncio tasks: Orchestrator.run of one claimed job
  table,            \* Worker._tasks of every worker
  loop,             \* Worker._loop, start and stop of every worker
  call,             \* the cancel request being served for a job
  manual,           \* bound: retries by the owner so far
  cancels,          \* bound: cancel requests so far
  stops,            \* bound: shutdowns and crashes so far
  upgrades          \* bound: upgrades so far

jobRow  == <<status, cancelRequested, retries, due, stale, held>>
artifacts == <<outdated, redo, upgrades>>
history == <<endings, asked>>
process == <<task, table, loop, call>>
bounds  == <<manual, cancels, stops>>
vars == <<jobRow, stage, artifacts, history, process, bounds>>

-----------------------------------------------------------------------------
(* Values                                                                  *)

Stages   == 1..NumStages
Terminal == {"succeeded", "failed", "cancelled"}
Active   == {"queued", "running"}
JobStatus   == Active \cup Terminal
StageStatus == {"pending", "running", "succeeded", "failed", "skipped"}

TaskPC ==
  {"idle", "trace", "load", "boundary", "begin", "agent", "succeed",
   "failStage", "failSkip", "failFinish", "cancelSkip", "cancelFinish",
   "interrupted", "requeue", "exit", "dropped"}
LoopPC == {"down", "ready", "claim", "spawn", "reap", "skip", "drain", "gather"}

IdleTask == [pc |-> "idle", job |-> Nil, worker |-> Nil, stage |-> 0,
             retries |-> 0, shielded |-> FALSE, detached |-> FALSE]
IdleLoop(pc) == [pc |-> pc, job |-> Nil, batch |-> {}]
NoEndings  == [e \in Terminal |-> 0]
NewStages  == [s \in Stages |-> "pending"]
EmptyTable == [j \in Jobs |-> Nil]

Live(t) == task[t].pc # "idle"
WorksOn(t, j) == Live(t) /\ task[t].job = j
Spawning(w, j) == loop[w].pc = "spawn" /\ loop[w].job = j

Running(w) == {j \in Jobs : table[w][j] # Nil}

-----------------------------------------------------------------------------
(* Operations of JobRepository, each a part of one transaction             *)

SkipPendingOnly(stages) ==
  [s \in Stages |-> IF stages[s] = "pending" THEN "skipped" ELSE stages[s]]

\* JobRepository.skip_pending_stages
SkipOpen(stages) ==
  [s \in Stages |-> IF stages[s] \in {"pending", "running"} THEN "skipped" ELSE stages[s]]

ResetAll(stages) == [s \in Stages |-> "pending"]

\* _requeue, the stages: what succeeded is kept, the rest starts over.
ResetOpen(stages) ==
  [s \in Stages |-> IF stages[s] = "succeeded" THEN "succeeded" ELSE "pending"]

FinishUnguarded(j, outcome) ==
  /\ status'  = [status EXCEPT ![j] = outcome]
  /\ held'    = [held EXCEPT ![j] = FALSE]
  /\ endings' = [endings EXCEPT ![j][outcome] = @ + 1]

FinishWithoutEvent(j, outcome) ==
  /\ UNCHANGED endings
  /\ IF status[j] = "running"
       THEN /\ status' = [status EXCEPT ![j] = outcome]
            /\ held'   = [held EXCEPT ![j] = FALSE]
       ELSE UNCHANGED <<status, held>>

\* JobRepository.finish: only a running job ends; the release of its
\* reservation and its terminal event are in the same transaction.
Finish(j, outcome) ==
  IF status[j] = "running"
    THEN /\ status'  = [status EXCEPT ![j] = outcome]
         /\ held'    = [held EXCEPT ![j] = FALSE]
         /\ endings' = [endings EXCEPT ![j][outcome] = @ + 1]
    ELSE UNCHANGED <<status, held, endings>>

\* JobRepository._requeue: back to queued, keeping the stages that succeeded.
Requeue(j) ==
  /\ status' = [status EXCEPT ![j] = "queued"]
  /\ stale'  = [stale EXCEPT ![j] = FALSE]
  /\ stage'  = [stage EXCEPT ![j] = ResetOpen(@)]

-----------------------------------------------------------------------------
(* The owner's requests                                                    *)

\* JobRepository.create: a queued job, its reservation and its stages.
Submit(j) ==
  /\ status[j] = "none"
  /\ \A i \in Jobs : i < j => status[i] # "none"
  /\ status' = [status EXCEPT ![j] = "queued"]
  /\ due'    = [due EXCEPT ![j] = TRUE]
  /\ held'   = [held EXCEPT ![j] = TRUE]
  /\ UNCHANGED <<cancelRequested, retries, stale, stage, artifacts, history, process, bounds>>

\* request_cancel, its first update: a job that is still queued ends here.
CancelQueued(j) ==
  /\ status[j] # "none"
  /\ call[j] = "idle"
  /\ cancels[j] < MaxCancels
  /\ cancels' = [cancels EXCEPT ![j] = @ + 1]
  /\ IF status[j] = "queued"
       THEN /\ status'  = [status EXCEPT ![j] = "cancelled"]
            /\ held'    = [held EXCEPT ![j] = FALSE]
            /\ stage'   = [stage EXCEPT ![j] = [s \in Stages |-> "skipped"]]
            /\ endings' = [endings EXCEPT ![j]["cancelled"] = @ + 1]
            /\ asked'   = [asked EXCEPT ![j] = TRUE]
            /\ UNCHANGED call
       ELSE /\ call' = [call EXCEPT ![j] = "flag"]
            /\ UNCHANGED <<status, held, stage, endings, asked>>
  /\ UNCHANGED <<artifacts, cancelRequested, retries, due, stale, task, table, loop, manual, stops>>

\* request_cancel, its second update: flag a running job.
CancelFlag(j) ==
  /\ call[j] = "flag"
  /\ IF status[j] = "running" /\ ~cancelRequested[j]
       THEN /\ cancelRequested' = [cancelRequested EXCEPT ![j] = TRUE]
            /\ asked' = [asked EXCEPT ![j] = TRUE]
            /\ call'  = [call EXCEPT ![j] = "local"]
       ELSE /\ call'  = [call EXCEPT ![j] = "status"]
            /\ UNCHANGED <<cancelRequested, asked>>
  /\ UNCHANGED <<status, retries, due, stale, held, stage, artifacts, endings, task, table, loop, bounds>>

\* request_cancel, no update matched: the answer depends on a fresh read.
CancelStatus(j) ==
  /\ call[j] = "status"
  /\ call' = [call EXCEPT ![j] = IF status[j] = "running" THEN "local" ELSE "idle"]
  /\ UNCHANGED <<jobRow, stage, artifacts, history, task, table, loop, bounds>>

\* Task.cancel(), at the task's next await.  Before _run's try nobody handles it
\* and the job is dropped; from there on _handle_interrupt runs behind a shield.
\* A second cancel ends the task that awaits the shield: heartbeat and table entry
\* are gone, and the handler goes on by itself.
HandlerPC == {"interrupted", "requeue", "cancelSkip", "cancelFinish"}
Detaches(t) == task[t].shielded /\ task[t].pc \in HandlerPC
Cancelled(t) ==
  CASE task[t].pc = "trace" -> [task[t] EXCEPT !.pc = "dropped"]
    [] task[t].pc \notin {"idle", "trace", "dropped"} /\ ~task[t].shielded ->
         [task[t] EXCEPT !.pc = "interrupted", !.shielded = TRUE]
    [] Detaches(t) -> [task[t] EXCEPT !.detached = TRUE]
    [] OTHER -> task[t]
CancelTasks(S) ==
  /\ task'  = [t \in Tasks |-> IF t \in S THEN Cancelled(t) ELSE task[t]]
  /\ table' = [w \in Workers |-> [j \in Jobs |->
                IF table[w][j] \in S /\ Detaches(table[w][j]) THEN Nil ELSE table[w][j]]]

\* cancel_job, after the flag: Worker.cancel_local on the replica that serves
\* the request, which may not be the one that runs the job.
CancelLocal(j) ==
  /\ call[j] = "local"
  /\ call' = [call EXCEPT ![j] = "idle"]
  /\ \/ UNCHANGED <<task, table>>
     \/ \E w \in Workers : table[w][j] # Nil /\ CancelTasks({table[w][j]})
  /\ UNCHANGED <<jobRow, stage, artifacts, history, loop, bounds>>

\* retry_failed: a failed job, with a fresh reservation.
RetryFailed(j) ==
  /\ status[j] = "failed"
  /\ manual[j] < MaxManual
  /\ manual'  = [manual EXCEPT ![j] = @ + 1]
  /\ Requeue(j)
  /\ retries' = [retries EXCEPT ![j] = 0]
  /\ due'     = [due EXCEPT ![j] = TRUE]
  /\ held'    = [held EXCEPT ![j] = TRUE]
  /\ endings' = [endings EXCEPT ![j] = NoEndings]
  /\ asked'   = [asked EXCEPT ![j] = FALSE]
  /\ UNCHANGED <<artifacts, cancelRequested, process, cancels, stops>>

-----------------------------------------------------------------------------
(* The worker loop                                                         *)

ClaimableRunning(j) == status[j] \in Active /\ due[j]
Claimable(j) == status[j] = "queued" /\ due[j]

SlotFree(w) == Cardinality(Running(w)) < Concurrency

\* claim_next, the SELECT: the oldest queued job that is due, for a free slot.
SelectClaim(w) ==
  /\ loop[w].pc = "ready"
  /\ SlotFree(w)
  /\ \E j \in Jobs :
       /\ Claimable(j)
       /\ \A i \in Jobs : Claimable(i) => j <= i
       /\ loop' = [loop EXCEPT ![w].pc = "claim", ![w].job = j]
  /\ UNCHANGED <<jobRow, stage, artifacts, history, task, table, call, bounds>>

\* claim_next, the compare-and-set on the candidate.
Claim(w) ==
  /\ loop[w].pc = "claim"
  /\ LET j == loop[w].job IN
       IF Claimable(j)
         THEN /\ status' = [status EXCEPT ![j] = "running"]
              /\ stale'  = [stale EXCEPT ![j] = FALSE]
              /\ loop'   = [loop EXCEPT ![w].pc = "spawn"]
         ELSE /\ loop'   = [loop EXCEPT ![w] = IdleLoop("ready")]
              /\ UNCHANGED <<status, stale>>
  /\ UNCHANGED <<cancelRequested, retries, due, held, stage, artifacts, history, task, table, call, bounds>>

\* fill_slots, after the claim: a task for the job, entered in the table.
Spawn(w) ==
  /\ loop[w].pc = "spawn"
  /\ \E t \in Tasks :
       /\ ~Live(t)
       /\ task'  = [task EXCEPT ![t] = [IdleTask EXCEPT !.pc = "trace", !.job = loop[w].job,
                                                        !.worker = w]]
       /\ table' = [table EXCEPT ![w][loop[w].job] = t]
  /\ loop' = [loop EXCEPT ![w] = IdleLoop("ready")]
  /\ UNCHANGED <<jobRow, stage, artifacts, history, call, bounds>>

AllRunning == {j \in Jobs : status[j] = "running"}
NeverStale == {}

\* fail_stale, the SELECT.
StaleJobs == {j \in Jobs : status[j] = "running" /\ stale[j]}
SelectStale(w) ==
  /\ loop[w].pc = "ready"
  /\ StaleJobs # {}
  /\ loop' = [loop EXCEPT ![w].pc = "reap", ![w].batch = StaleJobs]
  /\ UNCHANGED <<jobRow, stage, artifacts, history, task, table, call, bounds>>

Lost(batch) == {j \in batch : status[j] = "running"}

\* fail_stale, the updates: one transaction for the whole batch. The event is
\* added for every selected job, also when the compare-and-set did not match.
Reap(w) ==
  /\ loop[w].pc = "reap"
  /\ LET batch == loop[w].batch
         lost  == Lost(batch)
     IN /\ status'  = [j \in Jobs |-> IF j \in lost THEN "failed" ELSE status[j]]
        /\ held'    = [j \in Jobs |-> IF j \in lost THEN FALSE ELSE held[j]]
        /\ endings' = [j \in Jobs |-> IF j \in batch
                                        THEN [endings[j] EXCEPT !["failed"] = @ + 1]
                                        ELSE endings[j]]
  /\ loop' = [loop EXCEPT ![w].pc = "skip"]
  /\ UNCHANGED <<cancelRequested, retries, due, stale, stage, artifacts, asked, task, table, call, bounds>>

\* fail_stale, afterwards: skip_pending_stages, one transaction per job.
SkipReaped(w) ==
  /\ loop[w].pc = "skip"
  /\ \E j \in loop[w].batch :
       /\ stage' = [stage EXCEPT ![j] = SkipOpen(@)]
       /\ IF loop[w].batch = {j}
            THEN loop' = [loop EXCEPT ![w] = IdleLoop("ready")]
            ELSE loop' = [loop EXCEPT ![w].batch = @ \ {j}]
  /\ UNCHANGED <<jobRow, artifacts, history, task, table, call, bounds>>

\* stop: cancels the loop wherever it awaits, also between a claim and its task.
Stop(w) ==
  /\ loop[w].pc \notin {"down", "drain", "gather"}
  /\ stops < MaxStops
  /\ stops' = stops + 1
  /\ loop'  = [loop EXCEPT ![w] = IdleLoop("drain")]
  /\ UNCHANGED <<jobRow, stage, artifacts, history, task, table, call, manual, cancels>>

\* stop, when drain_s has passed: the tasks still in the table are cancelled, once.
InterruptDrained(w) ==
  /\ loop[w].pc = "drain"
  /\ Running(w) # {}
  /\ CancelTasks({table[w][j] : j \in Running(w)})
  /\ loop' = [loop EXCEPT ![w].pc = "gather"]
  /\ UNCHANGED <<jobRow, stage, artifacts, history, call, bounds>>

\* The process is gone, and with it every task it ran.
Vanish(w) ==
  /\ task'  = [t \in Tasks |-> IF task[t].worker = w THEN IdleTask ELSE task[t]]
  /\ table' = [table EXCEPT ![w] = EmptyTable]
  /\ loop'  = [loop EXCEPT ![w] = IdleLoop("down")]

NoJobRunning(w) == \A j \in Jobs : status[j] # "running"
Drained(w) == Running(w) = {}

\* stop returns once the tasks in its table are gathered; the process exits.
Exit(w) ==
  /\ loop[w].pc \in {"drain", "gather"}
  /\ Drained(w)
  /\ Vanish(w)
  /\ UNCHANGED <<jobRow, stage, artifacts, history, call, bounds>>

Crash(w) ==
  /\ loop[w].pc # "down"
  /\ stops < MaxStops
  /\ stops' = stops + 1
  /\ Vanish(w)
  /\ UNCHANGED <<jobRow, stage, artifacts, history, call, manual, cancels>>

Start(w) ==
  /\ loop[w].pc = "down"
  /\ loop' = [loop EXCEPT ![w] = IdleLoop("ready")]
  /\ UNCHANGED <<jobRow, stage, artifacts, history, task, table, call, bounds>>

-----------------------------------------------------------------------------
(* One attempt: Orchestrator.run as an asyncio task                        *)

Goto(t, pc) == task' = [task EXCEPT ![t].pc = pc]

\* _trace_parent, awaited before anything handles a cancel.
Trace(t) ==
  /\ task[t].pc = "trace"
  /\ Goto(t, "load")
  /\ UNCHANGED <<jobRow, stage, artifacts, history, table, loop, call, bounds>>

\* An upgrade changes the schema of an artifact (only the first two stages store one
\* that is read back).
Upgrade(j, s) ==
  /\ s \in {1, 2}
  /\ stage[j][s] = "succeeded"
  /\ upgrades < MaxUpgrades
  /\ upgrades' = upgrades + 1
  /\ outdated' = [outdated EXCEPT ![j] = @ \cup {s}]
  /\ redo' = [redo EXCEPT ![j] = IF s < @ THEN s ELSE @]
  /\ UNCHANGED <<jobRow, stage, history, process, bounds>>

\* _restore: an attempt resumes behind the longest prefix of finished stages, or at a
\* stage of it whose artifact this replica's version refuses.
ResumesAt(j, s) ==
  /\ \A r \in Stages : r < s => stage[j][r] = "succeeded"
  /\ s \in Stages => stage[j][s] # "succeeded" \/ s \in outdated[j]

At(s) == IF s > NumStages THEN "succeed" ELSE "boundary"

Load(t) ==
  /\ task[t].pc = "load"
  /\ \/ \E s \in 1..NumStages + 1 :
          /\ ResumesAt(task[t].job, s)
          /\ task' = [task EXCEPT ![t] = [@ EXCEPT !.pc = At(s), !.stage = s,
                                                   !.retries = retries[task[t].job]]]
     \/ Goto(t, "failSkip")          \* the provider is no longer configured
  /\ UNCHANGED <<jobRow, stage, artifacts, history, table, loop, call, bounds>>

\* _run_stages, at each stage that is not restored: honour a cancel request.
Boundary(t) ==
  /\ task[t].pc = "boundary"
  /\ Goto(t, IF cancelRequested[task[t].job] THEN "cancelSkip" ELSE "begin")
  /\ UNCHANGED <<jobRow, stage, artifacts, history, table, loop, call, bounds>>

\* JobRepository.update_stage is keyed by the job and the stage alone.
UpdateStage(t, value) ==
  stage' = [stage EXCEPT ![task[t].job][task[t].stage] = value]

BeginStage(t) ==
  /\ task[t].pc = "begin"
  /\ UpdateStage(t, "running")
  /\ Goto(t, "agent")
  /\ UNCHANGED <<jobRow, artifacts, history, table, loop, call, bounds>>

\* _run_stage, the agent returned: _persist_stage, then the next stage.
StageSucceeds(t) ==
  /\ task[t].pc = "agent"
  /\ UpdateStage(t, "succeeded")
  /\ task' = [task EXCEPT ![t].pc = At(task[t].stage + 1), ![t].stage = @ + 1]
  /\ outdated' = [outdated EXCEPT ![task[t].job] = @ \ {task[t].stage}]
  /\ redo' = [redo EXCEPT ![task[t].job] = IF @ = task[t].stage THEN @ + 1 ELSE @]
  /\ UNCHANGED <<jobRow, history, table, loop, call, upgrades, bounds>>

MayRetryOnceMore(t) == task[t].retries <= MaxTransient
MayRetry(t) == task[t].retries < MaxTransient

\* _run_stage, a retryable LLMError: schedule_retry, or fail if the job has
\* already left running.
RetryLater(t) ==
  /\ task[t].pc = "agent"
  /\ MayRetry(t)
  /\ LET j == task[t].job IN
       IF status[j] = "running"
         THEN /\ Requeue(j)
              /\ retries' = [retries EXCEPT ![j] = @ + 1]
              /\ due'     = [due EXCEPT ![j] = FALSE]
              /\ Goto(t, "exit")
         ELSE /\ Goto(t, "failStage")
              /\ UNCHANGED <<status, stale, stage, retries, due>>
  /\ UNCHANGED <<cancelRequested, held, artifacts, history, table, loop, call, bounds>>

\* _fail, for an error that is not retried: the stage is marked failed ...
FailStage(t) ==
  /\ task[t].pc \in {"agent", "failStage"}
  /\ UpdateStage(t, "failed")
  /\ Goto(t, "failSkip")
  /\ UNCHANGED <<jobRow, artifacts, history, table, loop, call, bounds>>

\* ... then the open stages are skipped (_fail, _cancelled) ...
SkipOpenStages(t) ==
  /\ task[t].pc \in {"failSkip", "cancelSkip"}
  /\ stage' = [stage EXCEPT ![task[t].job] = SkipOpen(@)]
  /\ Goto(t, IF task[t].pc = "failSkip" THEN "failFinish" ELSE "cancelFinish")
  /\ UNCHANGED <<jobRow, artifacts, history, table, loop, call, bounds>>

\* ... and the job ends (_succeed, _fail, _cancelled).
Outcome == [succeed |-> "succeeded", failFinish |-> "failed", cancelFinish |-> "cancelled"]
FinishJob(t) ==
  /\ task[t].pc \in DOMAIN Outcome
  /\ Finish(task[t].job, Outcome[task[t].pc])
  /\ Goto(t, "exit")
  /\ UNCHANGED <<cancelRequested, retries, due, stale, stage, artifacts, asked, table, loop, call, bounds>>

AfterInterrupt(j) == IF cancelRequested[j] THEN "cancelSkip" ELSE "requeue"

\* _handle_interrupt: a cancel request, or a shutdown?
HandleInterrupt(t) ==
  /\ task[t].pc = "interrupted"
  /\ Goto(t, AfterInterrupt(task[t].job))
  /\ UNCHANGED <<jobRow, stage, artifacts, history, table, loop, call, bounds>>

\* reset_for_retry: whoever runs the job now, it goes back to the queue.
ResetForRetry(t) ==
  /\ task[t].pc = "requeue"
  /\ LET j == task[t].job IN
       IF status[j] = "running"
         THEN /\ Requeue(j)
              /\ due' = [due EXCEPT ![j] = TRUE]
         ELSE UNCHANGED <<status, stale, stage, due>>
  /\ Goto(t, "exit")
  /\ UNCHANGED <<cancelRequested, retries, held, artifacts, history, table, loop, call, bounds>>

\* Worker._on_done: drops the table's entry for the job, whichever task it is.
Done(t) ==
  /\ task[t].pc \in {"exit", "dropped"}
  /\ table' = IF task[t].detached THEN table
                ELSE [table EXCEPT ![task[t].worker][task[t].job] = Nil]
  /\ task'  = [task EXCEPT ![t] = IdleTask]
  /\ UNCHANGED <<jobRow, stage, artifacts, history, loop, call, bounds>>

\* _heartbeat_loop: keyed by the job alone; it lives as long as _run does.
Heartbeat(t) ==
  /\ task[t].pc \notin {"idle", "trace", "dropped"}
  /\ ~task[t].detached
  /\ stale' = [stale EXCEPT ![task[t].job] = FALSE]
  /\ UNCHANGED <<status, cancelRequested, retries, due, held, stage, artifacts, history, process, bounds>>

-----------------------------------------------------------------------------
(* Time                                                                    *)

\* run_after passes: job_retry_delay_s is 30 s by default, and may be 0.
BecomesDue(j) ==
  /\ status[j] = "queued"
  /\ ~due[j]
  /\ (\E t \in Tasks : WorksOn(t, j)) => ZeroDelay
  /\ due' = [due EXCEPT ![j] = TRUE]
  /\ UNCHANGED <<status, cancelRequested, retries, stale, held, stage, artifacts, history, process, bounds>>

\* stale_after passes without a heartbeat. Unless stalls are allowed, a live
\* task beats in time, and a detached handler or a task not yet in _run is over by then.
Serves(t, j) == WorksOn(t, j) /\ task[t].pc # "dropped"
Attended(j) == (\E t \in Tasks : Serves(t, j)) \/ (\E w \in Workers : Spawning(w, j))
GoesStale(j) ==
  /\ status[j] = "running"
  /\ ~stale[j]
  /\ Attended(j) => StallsAllowed
  /\ stale' = [stale EXCEPT ![j] = TRUE]
  /\ UNCHANGED <<status, cancelRequested, retries, due, held, stage, artifacts, history, process, bounds>>

-----------------------------------------------------------------------------
Init ==
  /\ status = [j \in Jobs |-> "none"]
  /\ cancelRequested = [j \in Jobs |-> FALSE]
  /\ retries = [j \in Jobs |-> 0]
  /\ due   = [j \in Jobs |-> FALSE]
  /\ stale = [j \in Jobs |-> FALSE]
  /\ held  = [j \in Jobs |-> FALSE]
  /\ stage = [j \in Jobs |-> NewStages]
  /\ endings = [j \in Jobs |-> NoEndings]
  /\ asked = [j \in Jobs |-> FALSE]
  /\ task  = [t \in Tasks |-> IdleTask]
  /\ table = [w \in Workers |-> EmptyTable]
  /\ loop  = [w \in Workers |-> IdleLoop("down")]
  /\ call  = [j \in Jobs |-> "idle"]
  /\ manual = [j \in Jobs |-> 0]
  /\ cancels = [j \in Jobs |-> 0]
  /\ stops = 0
  /\ outdated = [j \in Jobs |-> {}]
  /\ redo = [j \in Jobs |-> NumStages + 1]
  /\ upgrades = 0

TaskStep(t) ==
  \/ Trace(t) \/ Load(t) \/ Boundary(t) \/ BeginStage(t)
  \/ StageSucceeds(t) \/ RetryLater(t) \/ FailStage(t)
  \/ SkipOpenStages(t) \/ FinishJob(t)
  \/ HandleInterrupt(t) \/ ResetForRetry(t) \/ Done(t)

LoopStep(w) ==
  \/ SelectClaim(w) \/ Claim(w) \/ Spawn(w)
  \/ SelectStale(w) \/ Reap(w) \/ SkipReaped(w)

ShutdownStep(w) == InterruptDrained(w) \/ Exit(w) \/ Start(w)

CallStep(j) == CancelFlag(j) \/ CancelStatus(j) \/ CancelLocal(j)

TimeStep(j) == BecomesDue(j) \/ GoesStale(j)

Next ==
  \/ \E j \in Jobs : Submit(j) \/ CancelQueued(j) \/ CallStep(j) \/ RetryFailed(j) \/ TimeStep(j)
  \/ \E j \in Jobs, s \in Stages : Upgrade(j, s)
  \/ \E w \in Workers : LoopStep(w) \/ ShutdownStep(w) \/ Stop(w) \/ Crash(w)
  \/ \E t \in Tasks : TaskStep(t) \/ Heartbeat(t)

Spec == Init /\ [][Next]_vars

\* Tasks, loops, shutdowns and clocks keep going; a process that went down is
\* started again by its supervisor. Nobody has to submit, cancel, retry or stop.
Fairness ==
  /\ \A t \in Tasks : WF_vars(TaskStep(t))
  /\ \A w \in Workers : WF_vars(LoopStep(w)) /\ WF_vars(ShutdownStep(w))
  /\ \A j \in Jobs : WF_vars(TimeStep(j))

FairSpec == Spec /\ Fairness

-----------------------------------------------------------------------------
(* Properties                                                              *)

RowTypes ==
  /\ status \in [Jobs -> JobStatus \cup {"none"}]
  /\ cancelRequested \in [Jobs -> BOOLEAN]
  /\ retries \in [Jobs -> Nat]
  /\ due \in [Jobs -> BOOLEAN]
  /\ stale \in [Jobs -> BOOLEAN]
  /\ held \in [Jobs -> BOOLEAN]
  /\ stage \in [Jobs -> [Stages -> StageStatus]]
  /\ endings \in [Jobs -> [Terminal -> Nat]]
  /\ asked \in [Jobs -> BOOLEAN]
  /\ outdated \in [Jobs -> SUBSET Stages]
  /\ redo \in [Jobs -> 1..NumStages + 1]
  /\ upgrades \in Nat

TaskState == [pc : TaskPC, job : Jobs \cup {Nil}, worker : Workers \cup {Nil},
              stage : 0..NumStages + 1, retries : Nat, shielded : BOOLEAN,
              detached : BOOLEAN]
LoopState == [pc : LoopPC, job : Jobs \cup {Nil}, batch : SUBSET Jobs]

ProcessTypes ==
  /\ task \in [Tasks -> TaskState]
  /\ table \in [Workers -> [Jobs -> Tasks \cup {Nil}]]
  /\ loop \in [Workers -> LoopState]
  /\ call \in [Jobs -> {"idle", "flag", "status", "local"}]
  /\ manual \in [Jobs -> Nat]
  /\ cancels \in [Jobs -> Nat]
  /\ stops \in Nat

\* The type of every variable.
TypeOK == RowTypes /\ ProcessTypes

\* A job holds its budget reservation exactly while it is queued or running:
\* every way it ends (worker, reaper, cancel) releases it, every way back into
\* the queue keeps it or takes a new one.
ReservationWhileActive ==
  \A j \in Jobs : held[j] <=> status[j] \in Active

\* A terminal status is never visible without its terminal event: this is what
\* lets an event stream stop as soon as it has read everything up to there.
EndingRecorded ==
  \A j \in Jobs : status[j] \in Terminal => endings[j][status[j]] > 0

\* What a job holds, and what its clients were told, follow its status: both of the above.
StatusIsHonoured == ReservationWhileActive /\ EndingRecorded

\* Past the last transaction of its attempt.
Over(t) == task[t].pc \in {"exit", "dropped"}

\* An attempt that has neither ended nor been interrupted.
Runs(t, j) == WorksOn(t, j) /\ ~task[t].shielded /\ ~Over(t)

\* A job is run by one attempt at a time, and only while it is running: when an
\* attempt runs it, or a worker is about to create one, every other task of the
\* job is past its last transaction. This is what the claim's compare-and-set,
\* the guarded finish and the heartbeats are for.
SingleRunner ==
  \A j \in Jobs :
    /\ \A t \in Tasks : Runs(t, j) =>
         /\ status[j] = "running"
         /\ \A u \in Tasks \ {t} : WorksOn(u, j) => Over(u)
         /\ \A w \in Workers : ~Spawning(w, j)
    /\ \A w \in Workers : Spawning(w, j) =>
         /\ status[j] = "running"
         /\ \A t \in Tasks : WorksOn(t, j) => Over(t)
         /\ \A v \in Workers \ {w} : ~Spawning(v, j)

\* Past its last transaction, and out of reach of an interrupt's handler.
Gone(t) == (task[t].pc = "exit" /\ task[t].shielded) \/ task[t].pc = "dropped"
Attends(t, j) == WorksOn(t, j) /\ ~Gone(t)

HandlersShielded ==
  \A t \in Tasks :
    /\ task[t].shielded => task[t].pc \in HandlerPC \cup {"exit"}
    /\ task[t].detached => task[t].shielded
    /\ task[t].pc \in {"interrupted", "requeue"} => task[t].shielded

OwnedOnce(j) ==
  /\ status[j] = "none" => /\ \A t \in Tasks : ~WorksOn(t, j)
                           /\ \A w \in Workers : ~Spawning(w, j)
  /\ Claimable(j) => \A t \in Tasks : ~Attends(t, j)
  /\ status[j] = "running" =>
       /\ \A t, u \in Tasks : Attends(t, j) /\ Attends(u, j) => t = u
       /\ \A t \in Tasks, w \in Workers : ~(Attends(t, j) /\ Spawning(w, j))
  /\ \A w, v \in Workers : Spawning(w, j) /\ Spawning(v, j) => w = v
  /\ \A t \in Tasks : Runs(t, j) => status[j] = "running"
  /\ \A w \in Workers : Spawning(w, j) => status[j] = "running"
  /\ status[j] = "running" /\ stale[j] => ~Attended(j)
  /\ \A w \in Workers : loop[w].pc = "reap" /\ j \in loop[w].batch =>
       status[j] \in Terminal \/ (status[j] = "running" /\ stale[j])

\* Why a job has one attempt at a time, when heartbeats are in time, run_after
\* outlives the attempt that set it and no job is retried by hand: a job that may
\* be claimed has only attempts that are gone, a running one has at most one
\* attempt or claim, and a job that is stale, or in a reaper's batch, has none.
ExclusiveOwner == HandlersShielded /\ \A j \in Jobs : OwnedOnce(j)

\* A job never reads as succeeded unless every stage did, and a job ended by
\* its own worker or by a cancel leaves no stage open.
OutcomeMatchesStages ==
  \A j \in Jobs : \A s \in Stages :
    /\ status[j] = "succeeded" => stage[j][s] = "succeeded"
    /\ status[j] = "cancelled" => stage[j][s] \notin {"pending", "running"}
    /\ status[j] = "failed" /\ ~stale[j] => stage[j][s] \notin {"pending", "running"}

\* A job is requeued automatically at most job_transient_retries times.
RetriesBounded == \A j \in Jobs : retries[j] <= MaxTransient

\* Only a cancel request of the owner cancels a job, never a shutdown; one
\* that preceded the last retry does not count.
CancelledOnlyIfAsked ==
  \A j \in Jobs : status[j] = "cancelled" => asked[j]

\* Why a job ended, and with what: both of the above.
OutcomesJustified == OutcomeMatchesStages /\ CancelledOnlyIfAsked

\* One run of a job ends with one terminal event.
\* Refuted by TLC (README, section 6).
OneEnding ==
  \A j \in Jobs : endings[j]["succeeded"] + endings[j]["failed"] + endings[j]["cancelled"] <= 1

\* A worker never has more attempts in flight than it has slots, a handler that a
\* second cancel left on its own not counted.
Attempts(w) == {t \in Tasks : task[t].worker = w /\ ~task[t].detached}
SlotsRespected == \A w \in Workers : Cardinality(Attempts(w)) <= Concurrency

\* Attempts are as many as retries and slots allow, in every state the types allow.
AttemptsBounded == TypeOK /\ RetriesBounded /\ SlotsRespected

\* When a cancel request is answered "cancel_requested", the job is flagged, so
\* the attempt that is interrupted next ends it instead of requeueing it.
\* Refuted by TLC (README, section 6).
AcceptedCancelIsFlagged ==
  \A j \in Jobs : call[j] = "local" => cancelRequested[j]

\* An outcome is final: no late worker, reaper or cancel changes it; only a
\* failed job leaves its status, and only for the queue.
OutcomeFinal ==
  [][\A j \in Jobs : status[j] \in Terminal =>
       status'[j] = status[j] \/ (status[j] = "failed" /\ status'[j] = "queued")]_vars

\* The queue implements the lifecycle it promises.
Lifecycle == INSTANCE JobLifecycle
LifecycleSpec == Lifecycle!Spec

\* A finished stage is never run (and paid for) again: it stays succeeded until a
\* cancel of the queued job skips it, or an upgrade has outdated its artifact or that
\* of a stage before it.
FinishedStagesKept ==
  [][\A j \in Jobs : \A s \in Stages : stage[j][s] = "succeeded" =>
       stage'[j][s] = "succeeded" \/ status'[j] = "cancelled" \/ s >= redo[j]]_vars

\* The reaper only fails jobs nobody is working on.
ReapsOnlyAbandoned ==
  [][\A w \in Workers : loop[w].pc = "reap" /\ loop'[w].pc = "skip" =>
       \A j \in loop[w].batch : status[j] = "running" => ~Attended(j)]_vars

\* A shutdown that completes waits for every attempt, save the handlers that a second
\* cancel left on their own: those die with the process.
ExitKillsNoAttempt ==
  [][\A w \in Workers : Exit(w) =>
       \A t \in Tasks : task[t].worker = w => task[t].detached]_vars

\* No stage that is paid for is lost, and no attempt cut short: both of the above.
WorkIsKept == FinishedStagesKept /\ ExitKillsNoAttempt

\* After a shutdown (the only stop of the run) no running job is left without
\* an attempt.
\* Refuted by TLC (README, section 6).
ShutdownHandsBack ==
  [][\A w \in Workers : Exit(w) =>
       \A j \in Jobs : status'[j] = "running" => Attended(j)']_vars

\* Every submitted job ends, whatever crashes and shutdowns interrupt it.
EveryJobEnds ==
  \A j \in Jobs : status[j] = "queued" ~> status[j] \in Terminal

\* A shutdown completes: the worker process exits.
ShutdownCompletes ==
  \A w \in Workers : loop[w].pc \in {"drain", "gather"} ~> loop[w].pc = "down"

=============================================================================
