# Formal model of the autoswe job platform

The platform turns a prompt into a software project: an owner submits a *job*, a worker claims
it, runs a pipeline of *stages* (agents that call a language model and a sandbox), stores what
each stage produced and reports every step as an event. All coordination goes through one SQL
database; workers, API replicas and the reaper never talk to each other. An offline provider can
stand in for the model and writes a complete CRUD service; an evaluation suite scores runs.

These modules model the parts in which order, failure, concurrency or an intricate rule matter.

## 1. Inventory

Paths are relative to `src/autoswe/`. (In PROJECT.json `src/` is the root of the repository, so the
same files are under `src/src/autoswe/` there.)

| Component | State | Operations | Talks to |
|---|---|---|---|
| **Job queue** `repository.py`, `models.py` | rows of `jobs` (status, `cancel_requested`, `retries`, `run_after`, heartbeat, `tokens_reserved`) and `job_stages`, terminal rows of `job_events` | `create`, `claim_next`, `finish`, `update_stage`, `skip_pending_stages`, `schedule_retry`, `reset_for_retry`, `retry_failed`, `request_cancel`, `fail_stale`, `heartbeat` | token budget (same transaction) |
| **Worker** `worker.py` | `_tasks` (job id to asyncio task), the loop task, stop flag | `start`, `fill_slots`, `_loop`, `_on_done`, `cancel_local`, `stop` | job queue, orchestrator |
| **Orchestrator** `pipeline/orchestrator.py` | one asyncio task per claimed job; the context of the attempt | `run`, `_restore`, `_run_stages`, `_persist_stage`, `_fail`, `_succeed`, `_cancelled`, `_handle_interrupt`, `_heartbeat_loop` | job queue, agents, budget guard |
| **Checkpoints** `repository.py`, `pipeline/orchestrator.py` | `job_files`, artifacts on the job, stage rows | `upsert_files`, `update_job`, `update_stage`, `_requeue`, `_restore` | job queue |
| **Token budget** `budget.py` | `principal_usage` (used, reserved), `jobs.tokens_reserved`, the guard's own `reserved` | `try_reserve`, `extend`, `record`, `release`, `before_call`, `after_call` | job queue, metering |
| **Submission** `api/jobs.py`, `repository.py` | the jobs of an owner, idempotency keys | `create_job`, `by_idempotency_key`, `count_active`, `retry_job`, `delete_job` | job queue, budget |
| **Reads** `api/jobs.py`, `security.py`, `repository.py` | API keys; none of their own | `authenticate`, `owned_job`, the documents and downloads of a job, `list_jobs` | job queue |
| **Event stream** `api/jobs.py`, `events.py` | rows of `job_events`, the cursor of a stream, condition variables | `stream_events`, `JobNotifier.notify/wait` | job queue |
| **Publication** `publishing.py`, `api/jobs.py` | `jobs.publication` | `claim_publication`, `record_publication`, GitHub requests with retries | GitHub |
| **Sandbox** `sandbox/*.py` | gate counters of the service, container processes, semaphore | `_Gate.enter/leave`, `DockerSandbox.run`, `remove_leftovers`, `RemoteSandbox.run`; in the container: `inside/entry.py` | Docker, agents |
| **Agents** `pipeline/agents.py` | the files of a run with their stages, the rounds of repair | the five agents, `merge`, validation repair, test repair | provider, sandbox, validation |
| **Validation** `pipeline/validation.py` | none | `normalize_path`, `sanitize_files`, `validate_project` | |
| **Providers and metering** `llm/anthropic_provider.py`, `metering.py`, `pricing.py` | the meter of a run | one call: its answer or error, its attempts, tokens and price | Anthropic's API |
| **Evaluation** `evals/` | recordings on disk, the report | `run_suite`, `record_suite`, `ReplayProvider.generate`, the gate, `implemented_endpoints` | the whole pipeline |
| **Offline provider** `llm/offline/` | none | reads entities and relations out of a specification, renders a project | |
| **Generated services** `llm/offline/templates_*.py` | the stores of the service: rows, foreign keys, ids | list, get, create, update, delete with its cascade, in Go, TypeScript and Python | their clients |
| Rest of the HTTP shell, storage, observability, packaging, frontend, manifests | none that is shared | | |

### What is hard here

* Two or more workers, an API and a reaper update the same rows; every update is a
  compare-and-set on `status` or is not guarded at all.
* Ownership of a job is not fenced: `finish`, `update_stage`, `heartbeat` and `schedule_retry`
  are keyed by the job, not by the attempt, so an attempt that was declared dead can come back.
* Cancellation of an asyncio task reaches a coroutine at any await, including between two
  commits; `_handle_interrupt` is shielded, everything else is not.
* A stage is persisted by several commits; a process can die between any two of them.
* A reservation of tokens has to be released by every way a job can end.
* Handlers of the API check in one transaction and write in another; requests to GitHub and to the
  sandbox runner are repeated although the first one may have been carried out.
* Signals between a writer and a reader cross no process; polling has to make up for them.
* A run of the pipeline changes its files while it validates and tests them, in nested bounded loops;
  a recording is only worth something while the questions are those that were recorded.
* A generated service locks each store call, not each request.

### What makes each part correct

* Queue: one attempt at a time; outcomes are final and reported once; nothing but the owner
  cancels; automatic retries are bounded; every submitted job ends.
* Checkpoints: what a finished stage left is there when the next attempt resumes after it.
* Budget: the reserved tokens are exactly what the unfinished jobs hold; used + reserved stays
  within the limit up to the call in flight.
* Submission: one job per idempotency key, at most the configured number of active jobs, up to the
  requests that count at the same time. Reads: nobody learns of another principal's jobs; a list
  shows every job once.
* Events: a stream delivers every event in order and ends only after the terminal one.
* Publication: one pull request per job in a repository made for it; a claim is always given back.
* Sandbox: never more runs than slots, a slot is always given back, no container is left; "passed"
  means that the tests ran and passed, and what goes to a repair is the project's fault.
* Agents: the delivered files are those that were validated and tested last; a stage's files stay its
  own. Validation: a kept path is safe on every file system, a kept bundle within the limits.
* Evaluation: a replay that passes is the recorded run; a gate passes only when every run finished;
  the meter agrees with what was billed.
* Generated services: no row refers to one that is gone, a delete takes what hangs on it and no more,
  and the three stacks agree.

## 2. Plan

In the order of what the platform depends on most. All but the last are done.

| | Modules | Question | Abstract specification / composition |
|---|---|---|---|
| 1 | `JobQueue`, `JobLifecycle` | who runs a job, how does it end | implements `JobLifecycle` |
| 2 | `Budget` | does the ledger agree with the jobs | moves of `JobLifecycle` around it |
| 3 | `Checkpoint` | what does the next attempt find | maps onto `JobLifecycle` (`QueueMoves`) |
| 4 | `EventStream` | does a reader miss an event, does a stream end too early or never | the log a client has is compared with the log that is stored |
| 5 | `JobsApi` with `JobReads` | keys, limits, deletion, publication; what is shown to whom | moves of the job's status by the workers around the requests |
| 6 | `Sandbox` with `SandboxVerdict` and `SandboxChecks` | admissions, repetitions, containers; what a run is reported as | client, runner and Docker together; verdicts against what really happened |
| 7 | `ReviewLoop` with `Validation` and `SandboxVerdict` | is what is delivered what was validated and tested | |
| 8 | `EvalSuite` with `ModelCalls`, `Routes`, `Relations`, `SpecReading` | do replays, reports and bills tell the truth | recorded, replayed and live runs of one pipeline; the pure parts against reference definitions |
| 9 | `GeneratedService` | do concurrent requests leave orphans | three stacks, one promise |
| 10 | row locks | the order in which `finish`, the reaper, `extend` and `record` lock the job's row and the ledger's | below the transactions of 1 and 2; open |

*Proofs* are done for the safety properties of 1 to 9 (section 5).

The modules are written to be proved about: parameters and their assumptions are named CONSTANTS
and ASSUMEs, an action is one transaction of the code, invariants are conjunctions of named parts
and nothing is RECURSIVE.

## 3. Modules

One step of every module is one transaction, one locked call or one request to another service, with
the local computation that follows it: `repository.py` commits once per operation, and tasks,
replicas and requests interleave only where the code awaits. PROJECT.json maps every definition to
the lines it stands for. A module's bounds are the constants its declaration calls bounds.

**`JobLifecycle`** is the abstract specification: the moves between the statuses of a job, and the
reservation taken and released with them.

**`JobQueue`** has the rows (`status`, `cancelRequested`, `retries`, `due` for `run_after`, `stale`
for the heartbeat, `held` for the reservation, `stage`, `endings` for terminal events) and the
processes: `loop` (one worker loop each, with claim, spawn, reap and drain positions), `task` (an
`Orchestrator.run` with its position, the stage, the copy of `retries` it loaded and whether it is
in the shielded handler), `table` (`Worker._tasks`), `call` (a cancel request between its
transactions). Time is abstract: a queued job becomes due, a running one goes stale.
`StallsAllowed` says whether a live attempt may miss its heartbeats for `stale_after`;
`ZeroDelay` whether `run_after` may pass before the attempt that set it is gone. A cancelled task
hands its job over in the shielded handler; one cancelled before it is in `_run`'s try (`Trace`)
ends without, and its job waits for the reaper. A second cancellation ends the task of a shielded
handler at once (`Detaches`): the handler goes on `detached`, without a heartbeat or a place in the
table, and a worker that exits takes it along. `outdated` stages have an artifact an upgrade made
invalid; the next attempt runs again from there.
*Abstracted:* agents are a nondeterministic answer (success, retryable error, final error);
wake-ups only shorten polling, so a loop may poll at any time; database errors inside handlers
and deletion of jobs are not modelled.

**`Budget`** has the ledger of one principal per period (`used`, `reserved`), the job's row
(`status`, `period`, `held`, `total`), the attempts `run` (the guard's copy of the reservation and
the meter), deletions between read and write (`deleting`), and `charged`, a history variable: who
spent in which period. The queue around it is the lifecycle's moves. *Abstracted:* principals
share no row, so one is enough; a principal without a limit never touches `reserved`; an interrupt
is one step with its handler; automatic retries are not counted, so they are unbounded.

**`Checkpoint`** has one job: its stage rows, artifacts, file rows (producing stage and content)
and the attempts with their memory (`PipelineState`). The three commits that persist a stage
(`SaveFiles`, `SaveArtifacts`, `SaveStage`) are three steps, as are the two of the reaper (`Reap`,
`ReapSkips`). A content is the number of the agent's return it comes from, so "same version" and
"older than" can be said without any data. `output` is a history variable: what the last
successful run of every stage produced. *Abstracted:* which source files an agent writes is any
subset of the paths it may write; cancel requests are found or not; an error of the database in
the interrupt handler is a crash; deletion of the job is in `Budget` only.

**`EventStream`** has one job's log (`log`, the ids of visible rows; `nextId`, the sequence; `writer`,
the transactions that drew an id and have not committed), one client's stream (`stream`, with the
position of `generate` and its cursor; `received` over all its connections) and the worker's loop
with the signals between them (`flag`, `woken`). The loop claims while it has a free slot (`busy`
tasks out of `Slots`, other jobs included) and the job's `runAfter` has come; a round may be cut short
by an error or a lost claim, and the worker may stop. `Roles` says what the replica may be for, as the two
Deployments of `deploy/k8s` have it: nobody connects to one that serves no requests (`serve_api` off), and one without a worker
(`WORKER_ENABLED=false`) takes no job. A writer is in the stream's replica (`Local`), and
signals it, or is not. A polling interval is a step that may be taken at any time while waiting.
`SerialCommits` is SQLite, where ids become visible in order; without it, as on PostgreSQL, they need
not (section 6). *Abstracted:* an event is its id, and whether it reports an ending.

**`JobsApi`** has the jobs table of one principal (`status`, `key`, `body`, `publication`), GitHub
(`maker` of each repository, `commits`, `pulls`) and the handlers `request`, each at the transaction
or GitHub call it is about to make. Submissions look their key up, count, insert, and after a
conflict read the winner; retries count and requeue; a publication claims, creates the repository,
makes five calls of which the safe ones are repeated and a missing ref is waited for, and records
the outcome. Workers move a job's status between any two steps. An answer of GitHub may be lost
after the request was carried out; a request may be cut off anywhere (`Abort`).
*Abstracted:* contents; errors of the handlers' own database.

**`JobReads`** is the part that only reads, as operators over the same table: who a request acts for
(`Presented`, `Authenticate`), what each endpoint answers (`Answers`, a set of answers wherever a
column the model leaves out decides), and the pages of the list (`Page`, `Walk`).

**`Sandbox`** has the callers (`client`), the runner's process (`runner`), its gate (`admitted`),
semaphore (`slots`) and handlers, and Docker's containers. A handler goes through gate, semaphore,
start, feed, run, inspect, remove and leave; a fault of Docker, the time limit, a client that goes away, a
shutdown or a crash may come at each step. The time limit covers the reads only: a docker CLI that does
not take the archive, or does not exit, leaves the handler `stuck`. A shutdown may cancel every handler
wherever it waits, the removal of its container included, and ends without waiting for them; a container whose
creation or removal is cut off counts as `leftover`. `Boot` removes leftovers as the service does when it
starts. Handlers are interchangeable, so a request takes the first free one.
**`SandboxVerdict`** computes what a run is reported as, from facts about what happened in the
container and around it, for the three stacks and both backends: `ran` is what the tests did and
`counts` what the entry script makes of it, from the report or, for Go, the end of the output, with at most
`MaxFailures` failures listed. **`SandboxChecks`** times the lint,
test and type checks under their common deadline and says what each reports.
*Abstracted:* texts; limits other than time and memory; the archive; a cancellation inside the
creation of the Docker process is taken before or behind it.

**`ReviewLoop`** is the pipeline from the architect to the review as a machine over the files
(`files`, `origin`, `rejected`, `report`, `tested`): three writing agents, then validate and repair
up to `RepairRounds` times, then test and mend up to `TestRepairRounds` times. Every answer of a model
is any bundle up to `BundleLength` of `Generated`. **`Validation`** has `normalize_path`,
`sanitize_files` with its limits, duplicates and letter case, and `validate_project`.
*Abstracted:* the parsers are a fault a file has or has not; warnings are left out.

**`EvalSuite`** has the recordings (`disk`), the running `suite`, its `run` (the place in the
pipeline, the calls made), `results` and `verdict`. A prompt's version is a number that `Change` raises;
a call is recorded with the question, the version and the files it was asked about, and a replay
refuses one that differs. **`ModelCalls`** has the provider's three shapes of an error, refusals,
fallback attempts and their bills, and the price of a call in integers, rounded half up as the code
does. The bill of a run has every message the API sent, also those that end in an error.
**`Relations`** keeps an acyclic part of the relations and orders the tables, **`SpecReading`** finds
entities in a specification, or raises the IndexError of a field without a word (`Wordless`); each is
checked against a definition of what it promises (`RelationsRight`, `NounsRight`, `EntitiesRight`).
**`Routes`** reads the routes of a FastAPI project out of its statements (imports with their level and
names, assignments, decorated functions, includes in their order), as `routes.py` does, and is compared
with what those statements denote: `Denoted` follows Python's import system (packages, relative levels,
re-exports, plain imports), `Served` what `include_router` makes of it. The two share nothing but the statements.
`Readable` names the calls and imports the reader understands; for those projects the two must
agree (`RoutesRead`), for the others they do not (`EveryRouteRead`, section 6). Statements have
literal arguments only, the project's root is on the path, a name has up to three parts, a re-export goes
over one module and a router is included in one other at most. *Abstracted:* four of the twelve metrics stand for all; the rounding of means; the
answers to a test repair.

**`GeneratedService`** is the service the offline provider writes: `live` rows and their foreign
keys, and the handlers with what they have left to do. Go locks each call of a store, so a create
checks each parent and stores in separate steps and a cascade walks the children step by step;
TypeScript does a request in one step; Python reads, then commits under the database's foreign
keys. A branch is found level by level, and bodies and pages are pure operators; what walks a
sequence is a recursive function over its positions. *Abstracted:* the values of the other columns, statuses
and texts of the answers.

How they compose: `Budget`, `Checkpoint` and `JobsApi` see the queue as the moves of `JobLifecycle`,
which `JobQueue` is proved to implement; `Checkpoint` is proved to stay within them (`QueueMovesOnly`);
`EventStream` and `JobsApi` let workers move the job at any time. `ReviewLoop` ends a test run in any of
the statuses `SandboxVerdict` computes. `EvalSuite` drives the same pipeline through the provider of
`ModelCalls`.

## 4. Runs

Bounds are constants of the modules, set in the .cfg and never in a definition.

| Run | Bounds | States | What it shows |
|---|---|---|---|
| `queue_crashes` | 1 job, 2 workers, 2 tasks, 2 stages, 1 automatic retry, 1 cancel, 2 stops, 1 upgrade | 563 k | heartbeats in time: one attempt at a time (`SingleRunner`), the reaper fails abandoned jobs only, `AttemptsBounded`, `OutcomesJustified`, `WorkIsKept`; every job ends, every shutdown completes |
| `queue_late_workers` | 1 job, 2 workers, 2 tasks, 1 stage, 1 retry by the owner, 1 cancel, 1 stop, stalls, no delay | 1.8 M | attempts overlap, and `StatusIsHonoured`; every step refines `JobLifecycle` |
| `budget_ledger` | 2 jobs, 2 attempts, 2 periods, limit 4, reservation 2, calls up to 3, 1 stop, 1 retry | 1.1 M | reserved tokens are what jobs hold, copies are never stale, overspending is at most a call per job |
| `budget_late_worker` | 2 jobs, 2 attempts, limit 3, calls up to 2, late attempts, deletions, 1 retry | 3.0 M | no counter negative, no job shows more than was charged for it |
| `checkpoint_upgrades` | 1 attempt at a time, 3 paths, repairs, 2 stops, 1 retry, 1 upgrade | 4.1 M | memory agrees with the tables, nothing left over is delivered; a waiting job holds what its finished stages left, which lose files to a repair alone until the upgrade (`StagesKeepTheirFiles`) |
| `checkpoint_late` | 2 attempts, one taken for dead, 3 paths, 1 retry, 4 returns of agents | 890 k | agents have their inputs, the job makes moves of the lifecycle only |
| `event_stream` | 1 local and 1 remote writer, serial commits, 4 events; a replica that serves requests (batches of 1, 2 connections, a deletion), or one that runs jobs (2 slots, 2 other jobs, delayed retries, 1 round cut short, a stop) | 782 k | nothing missed, no early end, `WaitersAreTold`, `PollingSuffices` |
| `api_requests` | 2 requests, 1 key, 2 bodies, limit 1, 2 names of which 1 is taken, 1 repetition, 2 readings of a ref, 2 submissions, 2 other requests, 1 cut off | 323 k | `SubmissionsSound`, `PublicationsSound`, `ReadsSound`; claims are returned |
| `sandbox_runs` | 2 clients, 3 handlers, 1 slot, 1 place to wait, 1 repetition, 2 calls, 1 fault, 1 shutdown, 1 crash; 2 tests per report, 1 listed failure | 147 k | `RunnerInOrder`, `ReportsAreEarned`, `NothingHangs` |
| `review_loop` | bundles of up to 2 of the files in `MCReviewLoop`, 2 rounds of each repair; 4 files per bundle in the pure checks | 52 k | `DeliveredAsReported`, `BundlesAreSafe`, `RunsAreBounded` |
| `eval_suite` | 2 fixtures, 2 suites, 1 change between them, 2 troubles; the inputs of the pure parts in `MCEvalSuite` | 1.4 M | `ReplayHonest`, `ReportsHonest`, `CallsAccounted`, `ReadingsUsable` |
| `generated_service` | 3 stacks, entities members, books and loans (of both), 2 clients, 2 ids each, 5 requests | 54 k | `ServiceSound`, `OnlyBranchesFall` |

Several properties are conjunctions of named parts, each stated with its comment in the module:

| Property | Parts |
|---|---|
| `AttemptsBounded` | `TypeOK`, `RetriesBounded`, `SlotsRespected` |
| `OutcomesJustified` | `OutcomeMatchesStages`, `CancelledOnlyIfAsked` |
| `WorkIsKept` | `FinishedStagesKept`, `ExitKillsNoAttempt` |
| `StatusIsHonoured` | `ReservationWhileActive`, `EndingRecorded` |
| `WaitersAreTold`, `PollingSuffices` | `TypeOK`, `NoWakeUpIsLost`; `StreamEnds`, `QueueIsServed` |
| `SubmissionsSound` | `TypeOK`, `ActiveBounded`, `KeyNamesOneJob` |
| `PublicationsSound` | `PublishedOnce`, `OnlyOwnRepositories`, `GivenBackUntouched` |
| `ReadsSound` | `StrangersLearnNothing`, `KeysNameTheirOwners`, `PagesCoverTheList` |
| `RunnerInOrder` | `RunnerTypeOK`, `GateBalanced`, `NoContainerOutlivesItsRun`, `OneHandlerPerClient` |
| `ReportsAreEarned` | `VerdictsAreEarned`, `CountsAddUp`, `ChecksAreSound` |
| `NothingHangs` | `EveryCallEnds`, `EveryRunEnds` |
| `DeliveredAsReported` | `TypeOK`, `OwnersKeepTheirFiles`, `DeliveryTested`, `ReportIsCurrent`, `ExhaustedMeansBounded` |
| `BundlesAreSafe`, `RunsAreBounded` | `PathsAreSafe`, `SanitizeSound`; `RepairsStayInBounds`, `EveryReviewEnds` |
| `ReplayHonest` | `TypeOK`, `NoStaleAnswers`, `ReplayRepeatsRecording` |
| `ReportsHonest` | `WholeRecordings`, `SourceSaid`, `GateHonest` |
| `CallsAccounted` | `MeterAgrees`, `ErrorsClassedAlike` |
| `ReadingsUsable` | `RelationsUsable`, `RoutesRead`, `EntitiesRead` |
| `ServiceSound` | `TypeOK`, `NoOrphans`, `PagesAgree`, `BodiesAreStorable` |

Parts that concern a pure definition (`KeysNameTheirOwners`, `PagesCoverTheList`, `VerdictsAreEarned`,
`PathsAreSafe`, `RelationsUsable` and the like) are quantified over all small inputs and evaluated in the
initial state.

*Why these bounds are enough to be interesting.* Two replicas and two tasks are what a race for one
job needs; two stops allow an interruption during the recovery from another; a limit of two
reservations makes the third one fail; a call that bills more than is left of a reservation is
the case the overshoot is about; two stages are what "resume behind the finished one" needs. A batch
of one makes a stream read more than once for what is there; two connections make it resume. A limit
of one with two requests is the smallest race on the limit; one taken name makes a creation fail.
One slot and one place to wait make a third request bounce and be repeated; a third handler is the
abandoned one of a repeated run. Two rounds of each repair let a refused file or an exhausted
round be carried on. One listed failure makes a report of two overflow the list. Two suites are a recording and its replay. A loan of a book by a member is the
smallest service with two parents, and two levels make a cascade go on while requests cross it:
three creations, a deletion and a request that races with it are the five.

*What they leave open.* The queue runs have one job and one slot: with several slots and a cancel the
table's flaw in section 6 matters, and jobs share only the worker's slots and the reaper's batch. No run of the
queue has stalls and stops within more than one stage. The theorems of section 5 hold for any number of
jobs, workers and stages, and for any number of slots if no owner cancels. No run has a replica that
serves requests and runs jobs at once, as with the defaults: its stream and its loop share nothing but the rows of
the job, which change in any order anyway, and the theorems have it.

*Symmetry* is over workers, tasks, attempts, jobs (`Budget`), source paths and the service's clients,
never in a run that checks liveness (`queue_late_workers` checks a refinement, an action property).
`queue_crashes`, `event_stream`, `api_requests` and `sandbox_runs` have none.

*Fairness*, weak everywhere:

* queue: each task, each loop, each shutdown and time passing. asyncio schedules every ready
  coroutine, a supervisor (docker compose, the Kubernetes deployment) restarts an exited worker, and
  clocks advance. Agents return because every call has a timeout.
* events: the stream's steps and the client's reconnection (`sse.ts` reconnects until it has seen the
  end), the loop with its polling timer, the end of every task that fills a slot, the time of `run_after`, and
  every writer's commit or rollback.
* API: each handler; every call to GitHub has a timeout.
* sandbox: each handler that Docker does not hang (a `stuck` one is never assumed to go on), each client, and the start of the runner. `asyncio.Semaphore` is first come,
  first served, which would justify strong fairness; the liveness holds without it.
* review: the machine as a whole.

Nobody is assumed to submit, cancel, retry, publish or stop anything.

*Deadlock.* Every system may rest: when every job has ended, when no
request is in flight and nobody sends one, when a pipeline or the last suite has ended, when the worker has
stopped and the log is read; the cfgs have `CHECK_DEADLOCK FALSE` and name the reason.

Every property of a passing run has a mutant in PROJECT.json, a plausible slip in one definition
with which TLC finds the property violated under the same bounds; the mutated forms stand next to
the definitions they replace.

## 5. Proofs

Checked by TLAPS for every value of the constants the ASSUMEs admit.

`JobQueue_proofs`

* `TypeCorrect`, through `TypeInv` = `TypeOK` and `WellFormed` (a task's position determines which
  of its fields are set).
* `Implements`: every step is a step of `JobLifecycle` or a stutter. `ReservationsAreExact` and
  `OutcomesAreFinal` follow from the refinement, with no assumption on timing: late workers
  included.
* `EndingsAreRecorded`: a terminal status is never visible without its event, with no assumption;
  with `ReservationsAreExact` it gives `StatusHonoured`.
* `OneRunnerAtATime`, `ReaperSparesTheLiving`: ASSUME `~StallsAllowed`, `~ZeroDelay` and
  `MaxManual = 0`. `SingleRunner` is not inductive; the invariant `ExclusiveOwner` adds what the
  claim (a job that may be claimed has no attempt left that could act), the reaper (a stale job, or
  one in a reaper's batch, has none) and the shielded handler contribute. The three assumptions
  are needed: with any of them dropped, two attempts can meet (section 6).

The second half builds on these, under the same three assumptions.

* `OutcomesAreJustified`: `OutcomeInv` adds to `ExclusiveOwner` what an attempt relies on at each
  place (the stages before its own have succeeded, its own has not; it ends a job only when no
  stage is open, and cancels only what was asked for) and what the tables show of a job (the
  stages that succeeded are the first ones; a failed job with an open stage was reaped, and nobody is
  there to beat for it). `OutcomeMatchesStages` alone says nothing of the steps before the status is
  written.
* `AttemptsAreBounded`, `WorkIsNeverLost`: also ASSUME `Concurrency = 1 \/ MaxCancels = 0`: any number
  of slots if no owner cancels, one slot otherwise. `SlotInv` says that a live attempt is in its
  worker's table, and how many there are against the slots; with several slots and cancels the former is
  false: a done-callback can remove the entry of a newer task (section 6). `FinishedStagesKept` excepts
  the stages an upgrade has outdated, and `ExitKillsNoAttempt` the handlers a second cancellation has
  cut off from their task.

`Budget_proofs`

* `TypeCorrect`: no counter is negative, thanks to the clamp in `_decrement`. No assumption.
* `TotalsAreCharged`: a job's row never shows more than its principal was charged for the job, for
  attempts that overlap, outlive the reaper and write over each other's totals. No assumption. Each
  attempt's meter is bounded by the job's charges, which only grow, and a row holds some attempt's meter.
* `CopiesNeverGoStale`: ASSUME `Calm`, that is no late attempt, and no retries if there are
  deletions. The inductive invariant `CopyInv` adds `DeletesEnded`: a job being deleted has ended.
* `LedgerStaysBalanced`, `OvershootIsBounded`: ASSUME `Calm`. The ledger is compared with what all
  jobs hold together. That sum is the cardinality of a set of (job, number) pairs (`TokensHeld`), so
  a step of one job adds or removes an interval of pairs, and the lemmas on finite sets of the library
  replace an induction over the jobs.

`Checkpoint_proofs`

* `TypeCorrect`, through `TypeInv` (what an agent returned belongs to its stage until it is saved).
* `InputsAlwaysPresent`: no assumption. A late attempt may mark a stage succeeded whose artifact a
  requeue has cleared; `InputsKnown` holds because `_restore` accepts a stage only with its artifact.
* `QueueMovesOnly`: the status makes moves of `JobLifecycle` only, no assumption.
* `OnlyCheckpointsAreKept`, `MemoryAgreesWithTables`: ASSUME `~LateWorkers`. The
  inductive invariant `CheckpointInv` says that an attempt has the job for itself (`Alone`) and, for
  each place in a stage, which files and artifacts of its memory agree with the tables
  (`Remembers`): all of them, except what the agent has just returned. That the queue keeps
  attempts alone is `OneRunnerAtATime` above.
* `DeliveredFilesAreFresh`: ASSUME `~LateWorkers`. `DeliveryInv` says that a file of a finished
  stage is from the run of that stage that succeeded, and that an attempt has no file of its own
  stage or of a later one in the tables but those its agent has just returned: in the middle of the
  three commits that save a stage, and after an upgrade that makes stages run again.
* `FinishedStagesKeepTheirFiles`: ASSUME `~LateWorkers`; it speaks of the job until an upgrade outdates an
  artifact, behind which stages run again on files of others (`UpgradesLast`). Repairs are part of it: what a repair has moved since the review began (`moved`) may be lost with the review, and
  nothing else. `KeptInv` is the converse of `DeliveryInv`: what a finished stage produced still has its
  rows, or was moved; the finished stages are the first ones and an attempt is behind all of them.

`EventStream_proofs`, for any number of writers, any size of a batch, any number of events

* `SignalsArrive`: a loop that sleeps behind a whole round with a slot free was told of a job its process
  queued, or is about to be, for any number of slots and other tasks. No assumption. `SignalInv` adds what
  writers and streams have in hand, and that the writer in question will notify of the queue; a loop that
  found its slots full is told by the first task that ends. The theorem says nothing of a job whose
  `run_after` is to come: nobody signals that, only polling finds it.
* `EventsComeInOrder`: what a client has received is in the order of ids, each once, over all its
  connections. No assumption: this half of `MissesNothing` survives commits out of order (`OrderInv`:
  the cursor is the last event received, and a batch lies behind it).
* `ClientsMissNothing`, `StreamsEndBehindTheEnding`: ASSUME `SerialCommits`; without it they are false
  (section 6). `ReplayInv` says that an inserted row has a greater id than all that are visible,
  and that a batch leaves out nothing between the cursor and its end; `EndingInv`, that the event of
  an ending a stream has read of is in the log, and behind the cursor once nothing new is found.
  That a batch is the oldest events there are takes the least element of a set of ids, which exists
  because `<` is well-founded.

`JobsApi_proofs`, with no assumption but on the constants, for any number of requests, jobs, keys and names

* `SubmissionsStaySound`: the limit counts the requests that have passed it (`Passed`); `SubmissionInv` adds
  that the keys of jobs not deleted are unique, that every answer given is what its job's row holds
  or held, and that there is a row left for every request that may still insert one.
* `PublicationsStaySound`: `PublicationInv` says that one request at a time publishes a job, and relates
  its place in the code, and later the job's row, to what GitHub holds: nothing is touched before the
  repository is made, and it goes on only with one made for its job.
* `PagesShowEveryJobOnce`: for any finite tables, any page size and a table replaced in front of any
  page. A cursor only moves down the order of the list, so every page leaves fewer rows behind it and
  the walk ends; that no page skips or repeats a row is an induction on the pages.
* `ReadsStaySound`: the walk on the run's tables is a case of it; that a key names its owner follows the
  entries from the first to the last, since the last entry for a key wins; that strangers learn
  nothing goes by cases of the endpoints.

`ReviewAndSandbox_proofs`: the first two theorems are about `Sandbox`, the others about `ReviewLoop`, for any
files, limits, rounds and answers of any length

* `RunnerKeepsOrder`: no assumption but on the constants, with handlers cancelled anywhere, a removal
  included, and a process that ends over them. The gate and the semaphore are compared with
  the cardinalities of sets of handlers; `RunnerInv` adds what a handler has at each
  place in the code, and that a waiting client and its handler are a pair. A container without a handler
  is one whose Docker command failed, or one of a process that is stopping or gone.
* `ReportsAreAlwaysEarned`: no assumption but on the constants, and none on how many tests there are or
  where the list is capped. That counts add up is an induction on the reports, of each stack in turn; that a
  status is earned goes by cases of what the entry script and the backend saw, and for Go compares the counts of
  an output's end with those of the whole; that checks end in time is arithmetic on their deadlines.

* `DeliveriesMatchTheirReports`: no assumption but on the constants (a path has one key, a key one
  owner). `ReviewInv` says from which place on the report is about the files as they are, that a test
  repair starts from the files that were tested, and how rounds are counted at each place.
* `RepairsTouchTheirFilesOnly`: the action property of `RunsAreBounded`.
* `KeptFilesAreSafe`: a path that normalizes escapes on no system, whatever its length, and what
  `sanitize_files` keeps of a bundle fits its limits (`KeptBundlesFit`, for any limits and lengths).
  `Tidy` is the invariant of its loop: the running total is the size of what is kept, with a replaced
  file's bytes taken off again. That a bundle which fits throughout is kept whole needs `Complete`
  beside it: so far nothing was refused, and what is kept is the last file of each key.
  Sizes are numbers of bytes, so that the library's facts on cardinalities apply.
* The first two about `ReviewLoop` need that `sanitize_files` keeps only files of its bundle and refuses
  only these, and that the loop over the changed files changes no other (`SanitizeKeepsFiles`, `MergedInTurnMends`), whatever the
  length. These are inductions on a sequence; the library's induction theorems take an operator as
  a parameter, which the provers cannot instantiate, so they go by the least counterexample
  instead: `<` on Nat is well-founded, hence a set of numbers with 0 and all successors has them all
  (`AllNumbers`), applied to the set of lengths for which the statement holds. In the same way
  the recursive functions of `Sanitize` and `MergedInTurn` are shown to exist and to satisfy their
  equations.

`GeneratedService_proofs`, for any entities with acyclic relations, any number of clients, requests, rows

* `ServiceStaysSound`: no assumption but on the constants; the two races of Go are excepted exactly as
  `NoOrphans` names them. `NoOrphans` is not inductive. `InductiveInvariant` adds what a handler has
  left to do (`RequestsSound`, `TasksSound`: what is still to be checked, searched or removed, and
  in which store), that the stores in memory use no id twice and, in Go, no checked key names a row still to be made
  (`FreshIds`, `KeysKnown`),
  and that an id is left for every insert (`Room`); TLC checks all of it on the run's instance.
* `OnlyBranchesEverFall`: the action property, from the same invariant.
* The lemmas: `Branch` goes down as many levels as there are entities. A row found for the first time
  on a level has that many entities above its own, each before the next in `Order`, so one more level
  would find nothing, and nothing outside the branch refers into it. Go's walk over the ids and the
  window the other stacks cut agree for every limit and offset (`PagesAgree`), by induction on the ids.
  Bodies (`BodiesAreStorable`) go by cases of their columns.

`EvalSuite_proofs`, for any fixtures, prompts, messages, prices, rounds, suites and changes between them

* `ReplaysAreHonest`, `CallsAreAccounted` and `ReportsAreHonest` share the inductive invariant `SuiteInv`. None
  of the three is inductive: that a replay ends with the recorded calls needs that, before it ends,
  it has repeated those before its next one (`Replaying`), and that it ends where the recording does:
  a recording's last call is its only review (`DiskShaped`) and a run's review is its last
  (`RunShaped`). `Recording` compares the bill of a run being recorded with its calls, from which a
  replay takes its price. `ResultsShaped` says that an unfinished run was scored, with nothing.
* A replay takes the recorded answers only to the recorded questions, so the test a question shows is
  the recorded one, and the score, which is read off the last question, is too.
* `MeterAgrees` follows the sums of tokens and prices from one attempt to the next, by induction on
  their number; each attempt is rounded once, which is where the half micro-dollar comes from. The bill also has
  the messages that ended in an error, which no meter sees: so it bounds the meter (`BillOutgrows`),
  and equals it for a call that was answered.
* `GateHonest`: an unfinished run measures `completed` and `review_score` as 0, so one of them is
  below 100 in the mean over the fixtures; the sum is compared with the number of fixtures that were
  measured. It rests on `ThresholdsAssumption`, which `evals/thresholds.yaml` meets with both at
  1.0; with lower thresholds a gate may pass over an unfinished run, as it is meant to.
* Assumed of the API, as `anthropic_provider.py:225` describes it: the message returned is that of the last
  attempt, so this attempt's model is the message's.

* `ReadingsAreUsable` is about no behaviour: it puts together what `RoutesAreRead`, `RelationsAreRight`,
  `NounsAreRight` and `EntitiesAreRight` say of any single project, list of entities, text or list of
  declarations. `RoutesAreRead` is about every `Readable` project: that the reader's names and Python's denote
  the same instance is shown for each import and each part of a name, then the includes of an
  application are compared one by one. Each recursive function gets a lemma that there is a table of its values (`Search`,
  `Choosing`, `Normalising`, `Ordering`, `Reading`, `Gathering`, `Naming`, `Chunking` and so on), from `Iterates`, which builds
  one step by step; what holds of the table goes by induction on its index (`UpTo`).
  * Relations: the rounds of `Reached` end because each adds a name or the last added none
    (`ReachedIsClosed`). `Acyclic` says that every set of names has one whose parents are all
    outside; an edge whose parent does not lead back keeps it so (`EdgeClosesNone`), and a dropped
    one would have closed a cycle in the final edges too, since edges are only added (`ReachedGrows`).
    The same property finds an entity for every round of `CreationOrder` (`RoundAdds`). The second
    time nothing is dropped, since the edges kept so far are among the final ones (`AllParentsKept`).
  * Nouns: a verb's objects end two words before the next verb (`Clear`), the word just before it being its
    subject or nobody's; so no place is found for two verbs.
  * Assumed (`SpecAssumption`, `InputsAssumption`): no word is both a verb and one that is passed
    over or a noun, as `_is_noun` and the lists of `analysis.py` have it; the tables of known fields and
    relations repeat nothing; entities have distinct names, as `extract_entities` makes them. No prover
    knows that `"Item"` is a string, so the types of names and fields have the three that the code itself
    gives added (`NameString`).

*Only model-checked:* liveness (`EveryJobEnds` and the like), which needs ENABLED. Every invariant and
every action property that a run checks is a theorem.

## 6. Where code and documents disagree

No run repeats these: the first column is a property of the modules; setting the constants as given and
the property as the only INVARIANT or PROPERTY reproduces the counterexample.

| Property | Constants | What happens | Against |
|---|---|---|---|
| `SingleRunner` | as `queue_crashes`, with `NumStages = 1`, `MaxTransient = 0`, `MaxManual = 1`, `MaxCancels = 0` | updates are keyed by the job and its status (`repository.py:427`), not by the attempt: one on its way out can requeue or end the attempt that replaced it | `README.md:98`, safe to run several replicas |
| `CancelledOnlyIfAsked` | as `queue_crashes`, with `MaxManual = 1`, `MaxStops = 0`, 1 worker, 1 task | a cancel request that came too late for a failing job is still set when the owner retries it, and cancels the new attempt | `api/jobs.py:247` |
| `OneEnding` | as `queue_crashes`, with `MaxTransient = 0`, `MaxStops = 1` | two replicas select the same stale job; the loser of the compare-and-set also adds `job.failed` | `repository.py:310` |
| `AcceptedCancelIsFlagged` | as `queue_crashes`, with `MaxStops = 0`, `NumStages = 1` | a requeue and a claim between the two updates of `request_cancel`: answered `cancel_requested`, nothing flagged | `repository.py:156` |
| `ShutdownHandsBack` | as `queue_crashes`, with 1 worker, `MaxStops = 1`, `MaxCancels = 0` | the loop is cancelled between the commit of a claim and the creation of its task | `worker.py:120` |
| `ExitKillsNoAttempt` | as `queue_crashes`, with 1 worker, `Concurrency = 2`, `NumStages = 1`, `MaxStops = 1`, `MaxUpgrades = 0` | a cancel request that has lost its race, as under `AcceptedCancelIsFlagged`, interrupts an attempt, whose handler requeues the job; the loop claims it again before the old task's done-callback, which then removes the new task's entry | `worker.py:122` |
| `ExitKillsNoAttempt` | as `queue_crashes`, with 1 worker, `Concurrency = 2`, `MaxManual = 1` | the same callback, after the owner's retry | `worker.py:122` |
| `OvershootOneCall` | as `budget_ledger`, with `NumPeriods = 1`, `MaxStops = 0`, `MaxManual = 0` | two jobs overshoot by a call each | `budget.py:13` |
| `ReservationsDoNotLeak` | as `budget_ledger`, with 1 job, `NumPeriods = 1`, `LateWorkers = TRUE`, `MaxStops = 0`, `MaxManual = 0` | a late attempt's top-up (`budget.py:184`) lands on a job that has ended, and nothing releases it | `budget.py:15` |
| `ReservationsDoNotLeak` | as `budget_ledger`, with `DeletesAllowed = TRUE` | a deletion that read a failed job deletes it after the owner's retry | `budget.py:16` |
| `JobTotalsComplete` | as `budget_ledger` | the calls of an interrupted stage are in the ledger and never in the job's totals | `orchestrator.py:222` |
| `FinishedFilesKept` | as `checkpoint_upgrades`, with `MaxStops = 1`, `MaxManual = 0`, `MaxUpgrades = 0` | an interruption while the review is saved (`orchestrator.py:411`) deletes the files it repaired, although finished stages produced them | `repository.py:379` |
| `NoStageOlderThanItsInput` | as `checkpoint_upgrades`, with `RepairsAllowed = FALSE`, `MaxManual = 0` | stages behind an outdated artifact lose their files but stay succeeded (`orchestrator.py:255`); interrupted after redoing the outdated stage, the job resumes behind them | `orchestrator.py:250` |
| `ReportsDelivered` | as `checkpoint_upgrades`, with `MaxStops = 1`, `MaxUpgrades = 0` | interrupted after the review, the job succeeds without its reports | `repository.py:379` |
| `DeliveredNeverChanges` | as `checkpoint_late`, with `MaxReturns = 7` | a late attempt rewrites the files of a job that has succeeded | `README.md:98` |
| `MissesNothing` | as `event_stream`, with `SerialCommits = FALSE` | on PostgreSQL a row with a smaller id may be committed after a client has a larger one; its cursor never comes back | `api/jobs.py:518` |
| `EveryTestPassed` | as `sandbox_runs` | a suite with skipped tests counts as passed, in TypeScript and Go one of skipped tests only (`entry.py:239`) | `sandbox/models.py:18` |
| `EveryRunIsLimited` | as `sandbox_runs`, with `MaxCalls = 1`, `MaxStops = 0`, `MaxCrashes = 0` | the archive is drained (`backends.py:316`), and the docker CLI waited for, outside the one wait that has a limit; a CLI that hangs there keeps the run and its slot | `sandbox/backends.py:5`, ADR 0001, line 72 |
| `EveryRouteRead` | as `eval_suite` | relative levels, plain imports, `router=` and includes between routers are dropped (`routes.py:54`), so routes are missed or misplaced | `evals/routes.py:87` |
| `EveryCallMetered` | as `eval_suite` | a message that is refused, cut off or invalid raises before its usage is returned (`anthropic_provider.py:167`): billed, never metered | ADR 0002, line 50; `README.md:19` |

`docs/adr/0006` also says that a requeued job restarts from its first stage; the code and ADR 0009
resume behind the finished ones, which is what `Checkpoint` models.

Met while reading, and left out or allowed for by the models:

* *API.* Concurrent submissions may pass "at most" the limit, which `ActiveBounded` therefore states
  with the requests in flight. The two assertions that a winner or a refreshed job exists can fail when
  it is deleted in between. A repository whose creation was answered by nothing stays behind empty, and
  the next attempt is answered that the name is taken. A pull request may be open although its response
  was lost and the job says it was not opened. A claim stays on "publishing" when its request dies.
  A client that pages by `before` alone skips jobs that share the last one's timestamp. A blank
  `X-API-Key` hides a valid bearer token.
* *Queue.* A task cancelled before it is in `_run`'s try (`orchestrator.py:143`) leaves its job running until
  the reaper fails it, against "hand back what is still running" (`worker.py:120`). A handler that a
  second cancellation cut off may be lost with the process, against "Either way no job is lost"
  (`worker.py:123`); the reaper fails its job too.
* *Sandbox.* A run that a shutdown cancels may leave its container: the second cancellation reaches
  the removal (`backends.py:333`), and uvicorn does not wait for it; the next start removes it. Go's
  counts, and a "no tests", may be those of the last 16 kB only, so that a suite reads as empty whose tests
  have passed. Not all that `models.py:29` calls the code's doing is: a stall of Docker is a timeout, a
  container killed from outside a resource limit, and an image without pytest a failed suite. A build failure in Go behind a test counts a failure without an entry. An
  unreported exit 137 is a resource limit whatever killed it. A hanging linter leaves the tests a
  tenth of a second, and their timeout goes to a repair.
* *Review.* Uniqueness in letter case is per bundle, not per project (`validation.py:119`), and so are
  the size limits. Issues of refused test repairs are not in the report. A bundle over the total size
  may keep an old file and still report that its duplicate replaced it.
* *Evaluation.* A recording
  drops what each attempt was billed (`recording.py:151`), so a replay's price agrees only where there
  was one attempt. A metric unmeasured for one fixture is left out of its mean. An answer that no longer
  fits its schema aborts a suite.
* *Specifications.* Two entities of one name may keep a cycle of relations. `Foo(- -)` raises an
  IndexError (`analysis.py:176`), which `SpecReading` has and `EntitiesRight` excepts. `Loan(book_id:int, book:Book)` gives two columns one name.
* *Generated services.* In Go a child may be stored under a parent that was deleted since it was
  checked, and a child moved away from a parent may fall with it, against "Thread-safe" and "deleting a
  parent deletes what references it" (`blueprint.py:190`, `templates_go.py:414`); `NoOrphans` and
  `OnlyBranchesFall` except exactly these. Python answers 500 where the database refuses such a write.
  Unknown columns are ignored by Python and refused by the others.

## 7. Not modelled

PROJECT.json lists every part of the repository with its status.

* *Storage:* the tables appear as the variables of the modules that use them; engine set-up and
  migrations run before everything else. The order of row locks inside a transaction
  (`repository.py:322`) is planned in section 2.
* *Observability:* nothing reads logs, traces and metrics back.
* *Packaging and documents:* pure formatting of a finished job's files.
* *Frontend and deployment:* the browser client apart from its reconnection, and the manifests.
* *The rest of the HTTP shell:* body limits, error formats, security headers, static files and health
  checks are stateless and concern one request at a time; with authentication turned off there is one
  principal.
* *Texts:* prompts, the templates of generated files, and what the reports and pages look like.
* *TypeScript and Go routes:* regular expressions over one route at a time.
