----------------------------- MODULE Checkpoint -----------------------------
(***************************************************************************)
(* What one job keeps between its attempts: the rows of its stages, the    *)
(* artifacts on its own row, its files with the stage that produced them;  *)
(* and the attempts, which restore the finished stages from those rows and *)
(* leave a checkpoint behind every stage they run.                         *)
(*                                                                         *)
(* A step is one transaction. Every return of an agent has a number: what  *)
(* an artifact or a file contains is the number of the return it is from.  *)
(* The queue around the job appears as the moves JobLifecycle allows.      *)
(***************************************************************************)
EXTENDS Integers, FiniteSets

CONSTANTS
  Runs,        \* attempts that may be alive at the same time
  Docs,        \* paths the architect writes
  Sources,     \* paths the code generator may write
  Deliveries,  \* paths the DevOps engineer may write
  RepairsAllowed,  \* does the reviewer change files?
  LateWorkers,     \* may the reaper fail the job while its attempt is alive?
  MaxStops,    \* bound: attempts that stop early without failing the job
  MaxManual,   \* bound: retries by the owner
  MaxUpgrades, \* bound: upgrades that change the schema of an artifact
  MaxReturns   \* bound: answers of agents, together

ASSUME PathsAssumption ==
  /\ Docs \cap Sources = {}
  /\ Docs \cap Deliveries = {}
  /\ Sources \cap Deliveries = {}
ASSUME BoundsAssumption ==
  /\ MaxStops \in Nat
  /\ MaxManual \in Nat
  /\ MaxUpgrades \in Nat
  /\ MaxReturns \in Nat
  /\ RepairsAllowed \in BOOLEAN
  /\ LateWorkers \in BOOLEAN

\* STAGE_ORDER, numbered.
Analyze   == 1
Architect == 2
Implement == 3
DevOps    == 4
Review    == 5
Stages    == Analyze..Review

Paths == Docs \cup Sources \cup Deliveries

VARIABLES
  status,    \* jobs.status
  stage,     \* job_stages.status of every stage
  artifact,  \* requirements, architecture and the review's reports; 0 is NULL
  outdated,  \* the stored artifacts the running version no longer accepts
  row,       \* job_files: producing stage and content of every path
  run,       \* the attempts: PipelineState of each, and where it is
  unskipped, \* a reaper has failed the job and not yet skipped its stages
  returns,   \* history: how many agents have returned
  output,    \* history: the files and the number of every stage's last success
  moved,     \* history: the files a repair took over, until a review of them finishes
  stops, manual, upgrades  \* bounds

disk    == <<stage, artifact, outdated, row>>
history == <<returns, output, moved>>
bounds  == <<stops, manual, upgrades>>
vars    == <<status, disk, run, unskipped, history, bounds>>

StageStatus == {"pending", "running", "succeeded", "failed", "skipped"}
JobStatus   == {"queued", "running", "succeeded", "failed", "cancelled"}
Outcomes    == {"succeeded", "failed", "cancelled"}
RunPC == {"idle", "load", "restore", "stage", "agent", "files", "artifacts", "succeed",
          "skip", "end"}

NoFile == [stage |-> 0, content |-> 0]
NoRun  == [pc |-> "idle", at |-> 1, outcome |-> "succeeded", out |-> {},
           known |-> [s \in Stages |-> 0], files |-> [p \in Paths |-> 0]]

Live(r) == run[r].pc # "idle"
Done    == {s \in Stages : stage[s] = "succeeded"}

\* Two agents leave an artifact that later ones ask for, the reviewer its reports.
Inputs      == {Analyze, Architect}
HasArtifact == Inputs \cup {Review}

-----------------------------------------------------------------------------
(* Back to the queue                                                       *)

RequeueKeepingFiles(from) ==
  /\ status = from
  /\ status' = "queued"
  /\ stage' = [s \in Stages |-> IF s \in Done THEN "succeeded" ELSE "pending"]
  /\ artifact' = [s \in Stages |-> IF s \in Done \ {Review} THEN artifact[s] ELSE 0]
  /\ outdated' = outdated \cap Done
  /\ UNCHANGED row

RequeueDroppingRepairs(from) ==
  /\ status = from
  /\ status' = "queued"
  /\ stage' = [s \in Stages |-> IF s \in Done THEN "succeeded" ELSE "pending"]
  /\ artifact' = [s \in Stages |-> IF s \in Done \ {Review} THEN artifact[s] ELSE 0]
  /\ outdated' = outdated \cap Done
  /\ row' = [p \in Paths |-> IF row[p].stage \in Done \ {Review} THEN row[p] ELSE NoFile]

RequeueUnguarded(from) ==
  /\ status' = "queued"
  /\ stage' = [s \in Stages |-> IF s \in Done THEN "succeeded" ELSE "pending"]
  /\ artifact' = [s \in Stages |-> IF s \in Done \ {Review} THEN artifact[s] ELSE 0]
  /\ outdated' = outdated \cap Done
  /\ row' = [p \in Paths |-> IF row[p].stage \in Done THEN row[p] ELSE NoFile]

\* _requeue: every stage that did not succeed loses its files and artifacts; the
\* review's artifacts are cleared always.
Requeue(from) ==
  /\ status = from
  /\ status' = "queued"
  /\ stage' = [s \in Stages |-> IF s \in Done THEN "succeeded" ELSE "pending"]
  /\ artifact' = [s \in Stages |-> IF s \in Done \ {Review} THEN artifact[s] ELSE 0]
  /\ outdated' = outdated \cap Done
  /\ row' = [p \in Paths |-> IF row[p].stage \in Done THEN row[p] ELSE NoFile]

\* skip_pending_stages
SkipPending ==
  stage' = [s \in Stages |-> IF stage[s] \in {"pending", "running"} THEN "skipped" ELSE stage[s]]

-----------------------------------------------------------------------------
(* The start of an attempt                                                 *)

Claim(r) ==
  /\ status = "queued"
  /\ ~Live(r)
  /\ status' = "running"
  /\ run' = [run EXCEPT ![r] = [NoRun EXCEPT !.pc = "load"]]
  /\ UNCHANGED <<disk, unskipped, history, bounds>>

RestorableOnStatus(s) ==
  /\ stage[s] = "succeeded"
  /\ s \in Inputs => s \notin outdated

\* A stage the attempt need not run again: it succeeded, and what it left on the
\* job's row still validates. Only the first two artifacts are read back.
Restorable(s) ==
  /\ stage[s] = "succeeded"
  /\ s \in Inputs => artifact[s] # 0 /\ s \notin outdated

\* The attempt resumes at stage n.
ResumesAt(n) ==
  /\ \A s \in 1..n - 1 : Restorable(s)
  /\ n \in Stages => ~Restorable(n)

\* _run reads the job and its stages; _restore walks the pipeline.
Load(r) ==
  /\ run[r].pc = "load"
  /\ \E n \in 1..Review + 1 :
       /\ ResumesAt(n)
       /\ run' = [run EXCEPT ![r].pc = IF Done = {} THEN "stage" ELSE "restore",
                             ![r].at = n,
                             ![r].known =
                               [s \in Stages |-> IF s < n /\ s # Review THEN artifact[s] ELSE 0]]
  /\ UNCHANGED <<status, disk, unskipped, history, bounds>>

LoadFiles(r) ==
  run' = [run EXCEPT ![r].pc = "stage",
                     ![r].files = [p \in Paths |-> IF row[p].stage \in 1..run[r].at - 1
                                                   THEN row[p].content ELSE 0]]

\* The files of the restored stages are read, all others are discarded.
Restore(r) ==
  /\ run[r].pc = "restore"
  /\ LoadFiles(r)
  /\ row' = [p \in Paths |-> IF row[p].stage \in 1..run[r].at - 1 THEN row[p] ELSE NoFile]
  /\ UNCHANGED <<status, stage, artifact, outdated, unskipped, history, bounds>>

-----------------------------------------------------------------------------
(* One stage                                                               *)

BeginStage(r) ==
  /\ run[r].pc = "stage"
  /\ run[r].at \in Stages
  /\ stage' = [stage EXCEPT ![run[r].at] = "running"]
  /\ run' = [run EXCEPT ![r].pc = "agent"]
  /\ UNCHANGED <<status, artifact, outdated, row, unskipped, history, bounds>>

Present(r) == {p \in Paths : run[r].files[p] # 0}

\* StageResult.files of the five agents: the paths merge accepts of an answer.
\* A repair changes files of any earlier stage and may add source files.
AnalystFiles   == {{}}
ArchitectFiles == {Docs}
CoderFiles     == SUBSET Sources
DevOpsFiles    == SUBSET Deliveries
ReviewerFiles(r) == IF RepairsAllowed THEN SUBSET (Present(r) \cup Sources) ELSE {{}}

Writable(r) ==
  CASE run[r].at = Analyze   -> AnalystFiles
    [] run[r].at = Architect -> ArchitectFiles
    [] run[r].at = Implement -> CoderFiles
    [] run[r].at = DevOps    -> DevOpsFiles
    [] run[r].at = Review    -> ReviewerFiles(r)

\* Agent.run returns: files and artifact are in the attempt's memory only.
AgentReturns(r) ==
  /\ run[r].pc = "agent"
  /\ returns < MaxReturns
  /\ returns' = returns + 1
  /\ \E out \in Writable(r) :
       run' = [run EXCEPT ![r].pc = "files",
                          ![r].out = out,
                          ![r].known = [@ EXCEPT ![run[r].at] = returns + 1],
                          ![r].files = [p \in Paths |-> IF p \in out THEN returns + 1
                                                        ELSE run[r].files[p]]]
  /\ UNCHANGED <<status, disk, unskipped, output, moved, bounds>>

\* A repair takes the files it changes over from the stages that wrote them.
TakeOver(r) == moved' = IF run[r].at = Review THEN moved \cup run[r].out ELSE moved

SaveNewFiles(r) ==
  /\ run[r].pc = "files"
  /\ row' = [p \in Paths |-> IF p \in run[r].out /\ row[p] = NoFile
                             THEN [stage |-> run[r].at, content |-> run[r].files[p]]
                             ELSE row[p]]
  /\ TakeOver(r)
  /\ run' = [run EXCEPT ![r].pc = "artifacts"]
  /\ UNCHANGED <<status, stage, artifact, outdated, unskipped, returns, output, bounds>>

SaveFilesKeepingStage(r) ==
  /\ run[r].pc = "files"
  /\ row' = [p \in Paths |->
               IF p \in run[r].out
               THEN [stage |-> IF row[p] = NoFile THEN run[r].at ELSE row[p].stage,
                     content |-> run[r].files[p]]
               ELSE row[p]]
  /\ TakeOver(r)
  /\ run' = [run EXCEPT ![r].pc = "artifacts"]
  /\ UNCHANGED <<status, stage, artifact, outdated, unskipped, returns, output, bounds>>

\* upsert_files: the new rows carry this stage, whoever produced the old ones.
SaveFiles(r) ==
  /\ run[r].pc = "files"
  /\ row' = [p \in Paths |-> IF p \in run[r].out
                             THEN [stage |-> run[r].at, content |-> run[r].files[p]]
                             ELSE row[p]]
  /\ TakeOver(r)
  /\ run' = [run EXCEPT ![r].pc = "artifacts"]
  /\ UNCHANGED <<status, stage, artifact, outdated, unskipped, returns, output, bounds>>

\* update_job, in a transaction of its own.
SaveArtifacts(r) ==
  /\ run[r].pc = "artifacts"
  /\ artifact' = [s \in Stages |-> IF s = run[r].at /\ s \in HasArtifact
                                   THEN run[r].known[s] ELSE artifact[s]]
  /\ outdated' = outdated \ {run[r].at}
  /\ run' = [run EXCEPT ![r].pc = "succeed"]
  /\ UNCHANGED <<status, stage, row, unskipped, history, bounds>>

\* update_stage: only now is the stage a checkpoint.
SaveStage(r) ==
  /\ run[r].pc = "succeed"
  /\ stage' = [stage EXCEPT ![run[r].at] = "succeeded"]
  /\ output' = [output EXCEPT ![run[r].at] =
                  [files |-> run[r].out, number |-> run[r].known[run[r].at]]]
  /\ moved' = IF run[r].at = Review THEN moved \ run[r].out ELSE moved
  /\ run' = [run EXCEPT ![r].pc = "stage", ![r].at = @ + 1]
  /\ UNCHANGED <<status, artifact, outdated, row, unskipped, returns, bounds>>

-----------------------------------------------------------------------------
(* The end of an attempt                                                   *)

\* The agent raised an error that ends the job: _fail marks the stage first.
StageFails(r) ==
  /\ run[r].pc = "agent"
  /\ stage' = [stage EXCEPT ![run[r].at] = "failed"]
  /\ run' = [run EXCEPT ![r].pc = "skip", ![r].outcome = "failed"]
  /\ UNCHANGED <<status, artifact, outdated, row, unskipped, history, bounds>>

\* _run: any other error, of the database for instance, fails the job as it is.
InternalError(r) ==
  /\ run[r].pc \notin {"idle", "skip", "end"}
  /\ run' = [run EXCEPT ![r].pc = "skip", ![r].outcome = "failed"]
  /\ UNCHANGED <<status, disk, unskipped, history, bounds>>

\* schedule_retry, for an error that may pass.
RetryLater(r) ==
  /\ run[r].pc = "agent"
  /\ stops < MaxStops
  /\ stops' = stops + 1
  /\ Requeue("running")
  /\ run' = [run EXCEPT ![r] = NoRun]
  /\ UNCHANGED <<unskipped, history, manual, upgrades>>

\* A cancel request is found between two stages.
CancelFound(r) ==
  /\ run[r].pc = "stage"
  /\ run[r].at \in Stages
  /\ run' = [run EXCEPT ![r].pc = "skip", ![r].outcome = "cancelled"]
  /\ UNCHANGED <<status, disk, unskipped, history, bounds>>

\* _fail and _cancelled skip the stages that were never run ...
SkipStages(r) ==
  /\ run[r].pc = "skip"
  /\ SkipPending
  /\ run' = [run EXCEPT ![r].pc = "end"]
  /\ UNCHANGED <<status, artifact, outdated, row, unskipped, history, bounds>>

\* ... and finish ends the job, if it is still running.
End(r) ==
  /\ \/ run[r].pc = "end"
     \/ run[r].pc = "stage" /\ run[r].at = Review + 1
  /\ status' = IF status = "running" THEN run[r].outcome ELSE status
  /\ run' = [run EXCEPT ![r] = NoRun]
  /\ UNCHANGED <<disk, unskipped, history, bounds>>

\* _handle_interrupt requeues the job ...
HandBack(r) ==
  /\ Live(r)
  /\ stops < MaxStops
  /\ stops' = stops + 1
  /\ Requeue("running")
  /\ run' = [run EXCEPT ![r] = NoRun]
  /\ UNCHANGED <<unskipped, history, manual, upgrades>>

\* ... unless it is no longer running.
HandBackInVain(r) ==
  /\ Live(r)
  /\ run' = [run EXCEPT ![r] = NoRun]
  /\ UNCHANGED <<status, disk, unskipped, history, bounds>>

\* The attempt may be cut off between any two transactions ...
Interrupt(r) == IF status = "running" THEN HandBack(r) ELSE HandBackInVain(r)

\* ... and the job ends there if the owner asked to cancel it.
InterruptCancelled(r) ==
  /\ Live(r)
  /\ run' = [run EXCEPT ![r].pc = "skip", ![r].outcome = "cancelled"]
  /\ UNCHANGED <<status, disk, unskipped, history, bounds>>

Crash(r) ==
  /\ Live(r)
  /\ stops < MaxStops
  /\ stops' = stops + 1
  /\ run' = [run EXCEPT ![r] = NoRun]
  /\ UNCHANGED <<status, disk, unskipped, history, manual, upgrades>>

-----------------------------------------------------------------------------
(* The reaper, the owner and the operator                                  *)

\* fail_stale commits the failure first ...
Reap ==
  /\ status = "running"
  /\ LateWorkers \/ \A r \in Runs : ~Live(r)
  /\ status' = "failed"
  /\ unskipped' = TRUE
  /\ UNCHANGED <<disk, run, history, bounds>>

\* ... and then skips the stages, whatever became of the job meanwhile.
ReapSkips ==
  /\ unskipped
  /\ SkipPending
  /\ unskipped' = FALSE
  /\ UNCHANGED <<status, artifact, outdated, row, run, history, bounds>>

\* retry_failed
RetryFailed ==
  /\ manual < MaxManual
  /\ manual' = manual + 1
  /\ Requeue("failed")
  /\ UNCHANGED <<run, unskipped, history, stops, upgrades>>

\* request_cancel of a queued job marks every stage skipped, the finished too.
CancelQueued ==
  /\ status = "queued"
  /\ status' = "cancelled"
  /\ stage' = [s \in Stages |-> "skipped"]
  /\ UNCHANGED <<artifact, outdated, row, run, unskipped, history, bounds>>

\* A version whose schema no longer accepts a stored artifact replaces all workers.
Upgrade ==
  /\ upgrades < MaxUpgrades
  /\ upgrades' = upgrades + 1
  /\ \A r \in Runs : ~Live(r)
  /\ \E s \in Inputs :
       /\ artifact[s] # 0
       /\ outdated' = outdated \cup {s}
  /\ UNCHANGED <<status, stage, artifact, row, run, unskipped, history, stops, manual>>

-----------------------------------------------------------------------------
Init ==
  /\ status = "queued"
  /\ stage = [s \in Stages |-> "pending"]
  /\ artifact = [s \in Stages |-> 0]
  /\ outdated = {}
  /\ row = [p \in Paths |-> NoFile]
  /\ run = [r \in Runs |-> NoRun]
  /\ unskipped = FALSE
  /\ returns = 0
  /\ output = [s \in Stages |-> [files |-> {}, number |-> 0]]
  /\ moved = {}
  /\ stops = 0
  /\ manual = 0
  /\ upgrades = 0

RunStep(r) ==
  \/ Claim(r) \/ Load(r) \/ Restore(r)
  \/ BeginStage(r) \/ AgentReturns(r) \/ SaveFiles(r) \/ SaveArtifacts(r) \/ SaveStage(r)
  \/ StageFails(r) \/ InternalError(r) \/ RetryLater(r) \/ CancelFound(r)
  \/ SkipStages(r) \/ End(r)
  \/ Interrupt(r) \/ InterruptCancelled(r) \/ Crash(r)

Next ==
  \/ \E r \in Runs : RunStep(r)
  \/ Reap \/ ReapSkips \/ RetryFailed \/ CancelQueued \/ Upgrade

Spec == Init /\ [][Next]_vars

-----------------------------------------------------------------------------
(* Properties                                                              *)

Owned(s) == CASE s = Analyze   -> {}
              [] s = Architect -> Docs
              [] s = Implement -> Sources
              [] s = DevOps    -> Deliveries
              [] s = Review    -> Paths

FileRows == {NoFile} \cup [stage : Stages, content : Nat \ {0}]
RunState == [pc : RunPC, at : 1..Review + 1, outcome : Outcomes, out : SUBSET Paths,
             known : [Stages -> Nat], files : [Paths -> Nat]]

TableTypes ==
  /\ status \in JobStatus
  /\ stage \in [Stages -> StageStatus]
  /\ artifact \in [Stages -> Nat]
  /\ outdated \in SUBSET Inputs
  /\ row \in [Paths -> FileRows]
  /\ \A p \in Paths : row[p] # NoFile => p \in Owned(row[p].stage)

RunTypes ==
  /\ run \in [Runs -> RunState]
  /\ \A r \in Runs : run[r].pc \in {"agent", "files", "artifacts", "succeed"} =>
                       run[r].at \in Stages

CounterTypes ==
  /\ unskipped \in BOOLEAN
  /\ returns \in Nat
  /\ output \in [Stages -> [files : SUBSET Paths, number : Nat]]
  /\ moved \in SUBSET Paths
  /\ stops \in Nat /\ manual \in Nat /\ upgrades \in Nat

\* The type of every variable; a file's row names a stage that may produce it.
TypeOK == TableTypes /\ RunTypes /\ CounterTypes

\* Between two stages an attempt's memory is what the tables hold, so that a crash
\* at that point costs nothing and what the next agent sees is what is delivered.
MemoryMatchesTables ==
  \A r \in Runs : run[r].pc = "stage" =>
    /\ \A p \in Paths : run[r].files[p] = row[p].content
    /\ \A s \in Inputs : s < run[r].at => run[r].known[s] = artifact[s]

\* No agent starts without the requirements and the architecture it asks for, even
\* if a late attempt has marked a stage finished whose artifact a requeue cleared.
InputsPresent ==
  \A r \in Runs : run[r].pc = "agent" =>
    \A s \in Inputs : s < run[r].at => run[r].known[s] # 0

\* While a job waits, its tables hold nothing of a stage that did not finish.
OnlyCheckpointsWait ==
  status = "queued" =>
    /\ \A p \in Paths : row[p] # NoFile => row[p].stage \in Done
    /\ \A s \in HasArtifact \ Done : artifact[s] = 0

\* The files a stage produced that are gone.
Lost(s) == {p \in output[s].files : row[p] = NoFile}

\* repository.py, _requeue: "Completed stages keep their summary, usage, files and
\* artifacts". Refuted by TLC (README, section 6).
FinishedFilesKept == status = "queued" => \A s \in Done : Lost(s) = {}

\* What is true of it, through repairs and any stop, until an upgrade outdates an
\* artifact: a finished stage loses a file to a repair whose review did not finish, and
\* to nothing else; a delivered project misses no other file of any stage.
StagesKeepTheirFiles ==
  upgrades = 0 =>
    /\ \A s \in Done : Lost(s) \subseteq moved
    /\ status = "succeeded" => \A s \in Stages : Lost(s) \subseteq moved

\* A delivered project carries the reports of its review.
\* Refuted by TLC (README, section 6).
ReportsDelivered == status = "succeeded" => artifact[Review] # 0

\* orchestrator.py, _restore: if an artifact no longer validates, "that stage and
\* every later one run again". No stage of a delivered project is older than a
\* stage it builds on.
NoStageOlderThanItsInput ==
  status = "succeeded" =>
    \A s, t \in Stages : s < t => output[s].number < output[t].number

\* Nothing of an abandoned run of a stage is delivered: every file comes from the
\* run of its stage that succeeded.
NothingLeftOver ==
  status = "succeeded" =>
    \A p \in Paths : row[p] # NoFile =>
      LET s == row[p].stage IN p \in output[s].files /\ row[p].content = output[s].number

\* A delivered project never changes: what was reviewed is what is downloaded.
\* Refuted by TLC with late attempts (README, section 6).
DeliveredNeverChanges == [][status = "succeeded" => UNCHANGED <<row, artifact>>]_vars

\* The job's status only makes moves the queue's abstract specification allows,
\* whichever attempt makes them: this module's surroundings are those of JobQueue.
Queue == INSTANCE JobLifecycle WITH
           Jobs   <- {1},
           status <- [j \in {1} |-> status],
           held   <- [j \in {1} |-> status \in {"queued", "running"}]
QueueMoves == [][Queue!Next]_(Queue!vars)

=============================================================================
