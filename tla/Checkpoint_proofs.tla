------------------------- MODULE Checkpoint_proofs -------------------------
(***************************************************************************)
(* Theorems about what a job keeps between its attempts, for any sets of   *)
(* paths, any number of attempts and any number of interruptions, retries  *)
(* and upgrades.                                                           *)
(***************************************************************************)
EXTENDS Checkpoint, TLAPS

-----------------------------------------------------------------------------
(* Type correctness                                                        *)

\* What an agent returned belongs to its stage and has contents, until it is saved.
ReturnWellFormed ==
  \A r \in Runs : run[r].pc = "files" =>
    /\ run[r].out \subseteq Owned(run[r].at)
    /\ \A p \in run[r].out : run[r].files[p] # 0

TypeInv == TypeOK /\ ReturnWellFormed

LEMMA StageNumbers ==
  /\ Stages = 1..5 /\ Review = 5 /\ Inputs = {1, 2} /\ HasArtifact = {1, 2, 5}
  /\ Inputs \subseteq Stages /\ Stages \subseteq Nat
  BY DEF Stages, Review, Analyze, Architect, Inputs, HasArtifact

LEMMA NoRunType == NoRun \in RunState /\ NoRun.pc = "idle"
  BY StageNumbers DEF NoRun, RunState, RunPC, Outcomes

LEMMA RunCleared ==
  ASSUME RunTypes, ReturnWellFormed, NEW r \in Runs, run' = [run EXCEPT ![r] = NoRun]
  PROVE  /\ RunTypes' /\ ReturnWellFormed'
         /\ run'[r] = NoRun
         /\ \A s \in Runs \ {r} : run'[s] = run[s]
  BY NoRunType DEF RunTypes, ReturnWellFormed

LEMMA InitTypeInv == Init => TypeInv
<1> SUFFICES ASSUME Init PROVE TypeInv
  OBVIOUS
<1>1. TableTypes
  BY DEF Init, TableTypes, JobStatus, StageStatus, FileRows
<1>2. RunTypes /\ ReturnWellFormed
  BY NoRunType DEF Init, RunTypes, ReturnWellFormed
<1>3. CounterTypes
  BY DEF Init, CounterTypes
<1> QED
  BY <1>1, <1>2, <1>3 DEF TypeInv, TypeOK

\* An answer holds paths of its stage only.
LEMMA WritableOwned ==
  ASSUME RunTypes, NEW r \in Runs, run[r].at \in Stages, NEW out \in Writable(r)
  PROVE  out \subseteq Owned(run[r].at) /\ out \subseteq Paths
<1>1. CASE run[r].at = Analyze
  BY <1>1 DEF Writable, Owned, AnalystFiles, Analyze, Architect, Implement, DevOps, Review
<1>2. CASE run[r].at = Architect
  BY <1>2 DEF Writable, Owned, ArchitectFiles, Paths, Analyze, Architect, Implement, DevOps, Review
<1>3. CASE run[r].at = Implement
  BY <1>3 DEF Writable, Owned, CoderFiles, Paths, Analyze, Architect, Implement, DevOps, Review
<1>4. CASE run[r].at = DevOps
  BY <1>4 DEF Writable, Owned, DevOpsFiles, Paths, Analyze, Architect, Implement, DevOps, Review
<1>5. CASE run[r].at = Review
  BY <1>5 DEF Writable, Owned, ReviewerFiles, Present, Paths, Analyze, Architect, Implement,
              DevOps, Review
<1> QED
  BY <1>1, <1>2, <1>3, <1>4, <1>5
     DEF Stages, Analyze, Architect, Implement, DevOps, Review

LEMMA RequeueTypes ==
  ASSUME TableTypes, NEW from \in JobStatus, Requeue(from)
  PROVE  TableTypes'
  BY DEF TableTypes, Requeue, JobStatus, StageStatus, FileRows

LEMMA SkipTypes ==
  ASSUME stage \in [Stages -> StageStatus], SkipPending
  PROVE  stage' \in [Stages -> StageStatus]
  BY DEF SkipPending, StageStatus

\* An attempt that only moves on, to a place that asks for nothing of its answer.
LEMMA RunMoves ==
  ASSUME RunTypes, ReturnWellFormed, NEW r \in Runs, NEW new \in RunState,
         run' = [run EXCEPT ![r] = new],
         new.pc # "files",
         new.pc \in {"agent", "artifacts", "succeed"} => new.at \in Stages
  PROVE  RunTypes' /\ ReturnWellFormed'
  BY DEF RunTypes, ReturnWellFormed

LEMMA StepTypeInv == TypeInv /\ [Next]_vars => TypeInv'
<1> SUFFICES ASSUME TypeInv, [Next]_vars PROVE TypeInv'
  OBVIOUS
<1> USE DEF disk, history, bounds
<1>0. TableTypes /\ RunTypes /\ CounterTypes /\ ReturnWellFormed
  BY DEF TypeInv, TypeOK
<1>1. ASSUME NEW r \in Runs, RunStep(r) PROVE TypeInv'
  <2>0. run[r] \in RunState
    BY <1>0 DEF RunTypes
  <2>1. CASE Claim(r)
    <3>1. [NoRun EXCEPT !.pc = "load"] \in RunState
      BY NoRunType DEF RunState, RunPC
    <3>2. RunTypes' /\ ReturnWellFormed'
      BY <1>0, <2>1, <3>1, RunMoves, NoRunType DEF Claim, RunState
    <3> QED BY <1>0, <2>1, <3>2 DEF Claim, TypeInv, TypeOK, TableTypes, CounterTypes, JobStatus
  <2>2. CASE Load(r)
    <3>1. PICK n \in 1..Review + 1 :
            run' = [run EXCEPT ![r].pc = IF Done = {} THEN "stage" ELSE "restore",
                               ![r].at = n,
                               ![r].known =
                                 [s \in Stages |-> IF s < n /\ s # Review THEN artifact[s] ELSE 0]]
      BY <2>2 DEF Load
    <3>2. [s \in Stages |-> IF s < n /\ s # Review THEN artifact[s] ELSE 0] \in [Stages -> Nat]
      BY <1>0 DEF TableTypes
    <3>3. RunTypes' /\ ReturnWellFormed'
      BY <1>0, <2>0, <3>1, <3>2 DEF RunTypes, ReturnWellFormed, RunState, RunPC
    <3> QED BY <1>0, <2>2, <3>3 DEF Load, TypeInv, TypeOK, TableTypes, CounterTypes
  <2>3. CASE Restore(r)
    <3>1. [p \in Paths |-> IF row[p].stage \in 1..run[r].at - 1 THEN row[p].content ELSE 0]
            \in [Paths -> Nat]
      BY <1>0, StageNumbers DEF TableTypes, FileRows, NoFile
    <3>2. RunTypes' /\ ReturnWellFormed'
      BY <1>0, <2>0, <2>3, <3>1 DEF Restore, LoadFiles, RunTypes, ReturnWellFormed, RunState, RunPC
    <3>3. TableTypes'
      BY <1>0, <2>3 DEF Restore, TableTypes, FileRows
    <3> QED BY <1>0, <2>3, <3>2, <3>3 DEF Restore, TypeInv, TypeOK, CounterTypes
  <2>4. CASE BeginStage(r)
    <3>1. RunTypes' /\ ReturnWellFormed'
      BY <1>0, <2>0, <2>4 DEF BeginStage, RunTypes, ReturnWellFormed, RunState, RunPC
    <3>2. TableTypes'
      BY <1>0, <2>4 DEF BeginStage, TableTypes, StageStatus
    <3> QED BY <1>0, <2>4, <3>1, <3>2 DEF BeginStage, TypeInv, TypeOK, CounterTypes
  <2>5. CASE AgentReturns(r)
    <3>1. run[r].at \in Stages
      BY <1>0, <2>5 DEF AgentReturns, RunTypes
    <3>2. PICK out \in Writable(r) :
            run' = [run EXCEPT ![r].pc = "files",
                               ![r].out = out,
                               ![r].known = [@ EXCEPT ![run[r].at] = returns + 1],
                               ![r].files = [p \in Paths |-> IF p \in out THEN returns + 1
                                                             ELSE run[r].files[p]]]
      BY <2>5 DEF AgentReturns
    <3>3. out \subseteq Owned(run[r].at) /\ out \subseteq Paths
      BY <1>0, <3>1, WritableOwned
    <3>4. /\ returns + 1 \in Nat \ {0}
          /\ [run[r].known EXCEPT ![run[r].at] = returns + 1] \in [Stages -> Nat]
          /\ [p \in Paths |-> IF p \in out THEN returns + 1 ELSE run[r].files[p]] \in [Paths -> Nat]
      <4>1. run[r].known \in [Stages -> Nat] /\ run[r].files \in [Paths -> Nat]
        BY <2>0 DEF RunState
      <4>2. returns + 1 \in Nat \ {0}
        BY <1>0 DEF CounterTypes
      <4> QED BY <4>1, <4>2
    <3>5. RunTypes'
      BY <1>0, <2>0, <3>1, <3>2, <3>3, <3>4 DEF RunTypes, RunState, RunPC
    <3>6. ReturnWellFormed'
      BY <1>0, <2>0, <3>2, <3>3, <3>4 DEF RunTypes, RunState, ReturnWellFormed
    <3> QED BY <1>0, <2>5, <3>5, <3>6
            DEF AgentReturns, TypeInv, TypeOK, TableTypes, CounterTypes
  <2>6. CASE SaveFiles(r)
    <3>1. RunTypes' /\ ReturnWellFormed'
      BY <1>0, <2>0, <2>6 DEF SaveFiles, RunTypes, ReturnWellFormed, RunState, RunPC
    <3>2. /\ run[r].at \in Stages
          /\ run[r].out \subseteq Owned(run[r].at)
          /\ \A p \in run[r].out : run[r].files[p] \in Nat \ {0}
      BY <1>0, <2>0, <2>6 DEF SaveFiles, RunTypes, ReturnWellFormed, RunState
    <3>3. TableTypes'
      BY <1>0, <2>6, <3>2 DEF SaveFiles, TableTypes, FileRows, NoFile
    <3>4. moved' \in SUBSET Paths
      <4>1. run[r].out \subseteq Paths
        BY <1>0 DEF RunTypes, RunState
      <4> QED BY <1>0, <2>6, <4>1 DEF SaveFiles, TakeOver, CounterTypes
    <3> QED BY <1>0, <2>6, <3>1, <3>3, <3>4 DEF SaveFiles, TypeInv, TypeOK, CounterTypes
  <2>7. CASE SaveArtifacts(r)
    <3>1. RunTypes' /\ ReturnWellFormed'
      BY <1>0, <2>0, <2>7 DEF SaveArtifacts, RunTypes, ReturnWellFormed, RunState, RunPC
    <3>2. TableTypes'
      BY <1>0, <2>0, <2>7 DEF SaveArtifacts, TableTypes, RunState
    <3> QED BY <1>0, <2>7, <3>1, <3>2 DEF SaveArtifacts, TypeInv, TypeOK, CounterTypes
  <2>8. CASE SaveStage(r)
    <3>1. run[r].at \in Stages /\ run[r].at + 1 \in 1..Review + 1
      BY <1>0, <2>8, StageNumbers DEF SaveStage, RunTypes
    <3>2. RunTypes' /\ ReturnWellFormed'
      BY <1>0, <2>0, <2>8, <3>1 DEF SaveStage, RunTypes, ReturnWellFormed, RunState, RunPC
    <3>3. TableTypes'
      BY <1>0, <2>8 DEF SaveStage, TableTypes, StageStatus
    <3>4. CounterTypes'
      BY <1>0, <2>0, <2>8 DEF SaveStage, CounterTypes, RunState
    <3> QED BY <3>2, <3>3, <3>4 DEF TypeInv, TypeOK
  <2>9. CASE StageFails(r) \/ InternalError(r) \/ CancelFound(r) \/ InterruptCancelled(r)
    <3>1. PICK o \in Outcomes : run' = [run EXCEPT ![r].pc = "skip", ![r].outcome = o]
      BY <2>9 DEF StageFails, InternalError, CancelFound, InterruptCancelled, Outcomes
    <3>2. RunTypes' /\ ReturnWellFormed'
      BY <1>0, <2>0, <3>1 DEF RunTypes, ReturnWellFormed, RunState, RunPC
    <3>3. TableTypes'
      BY <1>0, <2>9 DEF StageFails, InternalError, CancelFound, InterruptCancelled, TableTypes,
                        StageStatus
    <3> QED BY <1>0, <2>9, <3>2, <3>3
            DEF StageFails, InternalError, CancelFound, InterruptCancelled, TypeInv, TypeOK,
                CounterTypes
  <2>10. CASE SkipStages(r)
    <3>1. RunTypes' /\ ReturnWellFormed'
      BY <1>0, <2>0, <2>10 DEF SkipStages, RunTypes, ReturnWellFormed, RunState, RunPC
    <3>2. TableTypes'
      BY <1>0, <2>10, SkipTypes DEF SkipStages, TableTypes
    <3> QED BY <1>0, <2>10, <3>1, <3>2 DEF SkipStages, TypeInv, TypeOK, CounterTypes
  <2>11. CASE RetryLater(r) \/ HandBack(r)
    <3>1. RunTypes' /\ ReturnWellFormed'
      BY <1>0, <2>11, RunCleared DEF RetryLater, HandBack
    <3>2. TableTypes'
      BY <1>0, <2>11, RequeueTypes DEF RetryLater, HandBack, JobStatus
    <3> QED BY <1>0, <2>11, <3>1, <3>2 DEF RetryLater, HandBack, TypeInv, TypeOK, CounterTypes
  <2>12. CASE End(r) \/ HandBackInVain(r) \/ Crash(r)
    <3>1. RunTypes' /\ ReturnWellFormed'
      BY <1>0, <2>12, RunCleared DEF End, HandBackInVain, Crash
    <3>2. TableTypes'
      BY <1>0, <2>0, <2>12
         DEF End, HandBackInVain, Crash, TableTypes, JobStatus, RunState, Outcomes
    <3> QED BY <1>0, <2>12, <3>1, <3>2
            DEF End, HandBackInVain, Crash, TypeInv, TypeOK, CounterTypes
  <2> QED BY <1>1, <2>1, <2>2, <2>3, <2>4, <2>5, <2>6, <2>7, <2>8, <2>9, <2>10, <2>11, <2>12
          DEF RunStep, Interrupt
<1>2. CASE Reap \/ CancelQueued
  BY <1>0, <1>2 DEF Reap, CancelQueued, TypeInv, TypeOK, TableTypes, RunTypes, CounterTypes,
                    ReturnWellFormed, JobStatus, StageStatus
<1>3. CASE ReapSkips
  BY <1>0, <1>3, SkipTypes DEF ReapSkips, TypeInv, TypeOK, TableTypes, RunTypes, CounterTypes,
                               ReturnWellFormed
<1>4. CASE RetryFailed
  <2>1. TableTypes'
    BY <1>0, <1>4, RequeueTypes DEF RetryFailed, JobStatus
  <2> QED BY <1>0, <1>4, <2>1
          DEF RetryFailed, TypeInv, TypeOK, RunTypes, CounterTypes, ReturnWellFormed
<1>5. CASE Upgrade
  BY <1>0, <1>5 DEF Upgrade, TypeInv, TypeOK, TableTypes, RunTypes, CounterTypes, ReturnWellFormed
<1>6. CASE UNCHANGED vars
  BY <1>0, <1>6 DEF vars, TypeInv, TypeOK, TableTypes, RunTypes, CounterTypes, ReturnWellFormed
<1> QED
  BY <1>1, <1>2, <1>3, <1>4, <1>5, <1>6 DEF Next

LEMMA TypeInvariant == Spec => []TypeInv
  BY InitTypeInv, StepTypeInv, PTL DEF Spec

\* Every variable keeps its type, and the row of a file names a stage that may
\* produce it, whichever attempts write it.
THEOREM TypeCorrect == Spec => []TypeOK
  BY TypeInvariant, PTL DEF TypeInv

-----------------------------------------------------------------------------
(* The agents' inputs                                                      *)

Begun   == {"restore", "stage", "agent"}
Answered == {"files", "artifacts", "succeed"}

\* An attempt knows the artifacts of every stage it has behind it.
InputsKnown ==
  \A r \in Runs : \A s \in Inputs :
    /\ run[r].pc \in Begun /\ s < run[r].at => run[r].known[s] # 0
    /\ run[r].pc \in Answered /\ s <= run[r].at => run[r].known[s] # 0

\* An attempt that leaves or waits to be loaded has nothing to know.
LEMMA OthersKeepInputs ==
  ASSUME RunTypes, InputsKnown, NEW r \in Runs, NEW new,
         run' = [run EXCEPT ![r] = new],
         new.pc \notin Begun \cup Answered
  PROVE  InputsKnown'
  BY DEF RunTypes, InputsKnown

LEMMA StepInputsKnown ==
  ASSUME TypeInv, InputsKnown, [Next]_vars
  PROVE  InputsKnown'
<1> USE DEF disk, history, bounds
<1>0. TableTypes /\ RunTypes /\ CounterTypes
  BY DEF TypeInv, TypeOK
<1>1. ASSUME NEW r \in Runs, RunStep(r) PROVE InputsKnown'
  <2>0. run[r] \in RunState
    BY <1>0 DEF RunTypes
  <2>1. CASE Claim(r) \/ RetryLater(r) \/ HandBack(r) \/ End(r) \/ HandBackInVain(r) \/ Crash(r)
    <3>1. PICK new \in {NoRun, [NoRun EXCEPT !.pc = "load"]} : run' = [run EXCEPT ![r] = new]
      BY <2>1 DEF Claim, RetryLater, HandBack, End, HandBackInVain, Crash
    <3>2. new.pc \in {"idle", "load"}
      BY <3>1 DEF NoRun
    <3> QED BY <1>0, <3>1, <3>2, OthersKeepInputs DEF Begun, Answered
  <2>2. CASE Load(r)
    <3>1. PICK n \in 1..Review + 1 :
            /\ ResumesAt(n)
            /\ run' = [run EXCEPT ![r].pc = IF Done = {} THEN "stage" ELSE "restore",
                                  ![r].at = n,
                                  ![r].known =
                     [s \in Stages |-> IF s < n /\ s # Review THEN artifact[s] ELSE 0]]
      BY <2>2 DEF Load
    <3>2. n \in 1..6 /\ \A s \in Inputs : s \in 1..5 /\ s # Review
      BY StageNumbers
    <3>3. \A s \in Inputs : s < n => artifact[s] # 0
      <4> SUFFICES ASSUME NEW s \in Inputs, s < n PROVE artifact[s] # 0
        OBVIOUS
      <4>1. s \in 1..n - 1
        BY <3>2
      <4> QED BY <3>1, <4>1 DEF ResumesAt, Restorable
    <3>4. /\ run'[r].pc \in {"stage", "restore"}
          /\ run'[r].at = n
          /\ \A s \in Inputs : s < n => run'[r].known[s] = artifact[s]
          /\ \A q \in Runs \ {r} : run'[q] = run[q]
      <4>1. \A s \in Inputs : s \in Stages
        BY StageNumbers
      <4> QED BY <1>0, <2>0, <3>2, <3>1, <4>1 DEF RunTypes, RunState
    <3> QED BY <1>0, <3>3, <3>4 DEF InputsKnown, Begun, Answered
  <2>3. CASE Restore(r) \/ BeginStage(r) \/ SaveFiles(r) \/ SaveArtifacts(r)
    <3>1. /\ run[r].pc \in Begun => run'[r].pc \in Begun
          /\ run[r].pc \in Answered => run'[r].pc \in Answered
          /\ run[r].pc \in Begun \cup Answered
          /\ run'[r].at = run[r].at /\ run'[r].known = run[r].known
          /\ \A q \in Runs \ {r} : run'[q] = run[q]
      BY <1>0, <2>0, <2>3 DEF Restore, LoadFiles, BeginStage, SaveFiles, SaveArtifacts,
                              RunTypes, RunState, Begun, Answered
    <3> QED BY <3>1 DEF InputsKnown, Begun, Answered
  <2>4. CASE AgentReturns(r)
    <3>1. /\ run[r].pc = "agent" /\ run'[r].pc = "files"
          /\ run'[r].at = run[r].at
          /\ run'[r].known = [run[r].known EXCEPT ![run[r].at] = returns + 1]
          /\ \A q \in Runs \ {r} : run'[q] = run[q]
      BY <1>0, <2>0, <2>4 DEF AgentReturns, RunTypes, RunState
    <3>2. /\ run[r].at \in Stages /\ run[r].known \in [Stages -> Nat] /\ returns + 1 # 0
      BY <1>0, <2>0, <3>1 DEF RunTypes, RunState, CounterTypes
    <3>3. \A s \in Inputs : s <= run[r].at => run'[r].known[s] # 0
      BY <3>1, <3>2, StageNumbers DEF InputsKnown, Begun
    <3>4. run'[r].pc \notin Begun
      BY <3>1 DEF Begun
    <3>5. ASSUME NEW q \in Runs, NEW s \in Inputs
          PROVE  /\ run'[q].pc \in Begun /\ s < run'[q].at => run'[q].known[s] # 0
                 /\ run'[q].pc \in Answered /\ s <= run'[q].at => run'[q].known[s] # 0
      <4>1. CASE q = r
        BY <3>1, <3>3, <3>4, <4>1
      <4>2. CASE q # r
        <5>1. run'[q] = run[q]
          BY <3>1, <4>2
        <5> QED BY <5>1 DEF InputsKnown
      <4> QED BY <4>1, <4>2
    <3> QED BY <3>5 DEF InputsKnown
  <2>5. CASE SaveStage(r)
    <3>1. /\ run[r].pc = "succeed" /\ run'[r].pc = "stage"
          /\ run'[r].at = run[r].at + 1 /\ run'[r].known = run[r].known
          /\ \A q \in Runs \ {r} : run'[q] = run[q]
      BY <1>0, <2>0, <2>5 DEF SaveStage, RunTypes, RunState
    <3>2. run[r].at \in Nat
      BY <2>0, StageNumbers DEF RunState
    <3> QED BY <3>1, <3>2, StageNumbers DEF InputsKnown, Begun, Answered
  <2>6. CASE StageFails(r) \/ InternalError(r) \/ CancelFound(r) \/ InterruptCancelled(r)
             \/ SkipStages(r)
    <3>1. /\ run'[r].pc \in {"skip", "end"}
          /\ \A q \in Runs \ {r} : run'[q] = run[q]
      BY <1>0, <2>0, <2>6 DEF StageFails, InternalError, CancelFound, InterruptCancelled,
                              SkipStages, RunTypes, RunState
    <3> QED BY <3>1 DEF InputsKnown, Begun, Answered
  <2> QED BY <1>1, <2>1, <2>2, <2>3, <2>4, <2>5, <2>6 DEF RunStep, Interrupt
<1>2. CASE Reap \/ ReapSkips \/ RetryFailed \/ CancelQueued \/ Upgrade \/ UNCHANGED vars
  <2>1. run' = run
    BY <1>2 DEF Reap, ReapSkips, RetryFailed, CancelQueued, Upgrade, vars
  <2> QED BY <2>1 DEF InputsKnown
<1> QED
  BY <1>1, <1>2 DEF Next

\* No agent starts without the artifacts it asks for. No assumption on timing:
\* also a late attempt that marks a stage finished whose artifact was cleared
\* leaves nothing that another attempt would take for a checkpoint.
THEOREM InputsAlwaysPresent == Spec => []InputsPresent
<1>1. Init => InputsKnown
  BY NoRunType DEF Init, InputsKnown, Begun, Answered
<1>2. InputsKnown => InputsPresent
  BY DEF InputsKnown, InputsPresent, Begun
<1> QED
  BY <1>1, <1>2, StepInputsKnown, TypeInvariant, PTL DEF Spec

-----------------------------------------------------------------------------
(* The status of the job                                                   *)

\* Whatever an attempt, a reaper or the owner does, the job's status makes a
\* move of the queue's lifecycle, or none.
THEOREM QueueMovesOnly == Spec => QueueMoves
<1> USE DEF disk, history, bounds, Queue!vars
<1>1. ASSUME TypeInv, [Next]_vars PROVE [Queue!Next]_(Queue!vars)
  <2>0. TableTypes /\ RunTypes
    BY <1>1 DEF TypeInv, TypeOK
  <2>1. ASSUME NEW r \in Runs, Claim(r) PROVE Queue!Claim(1)
    BY <2>1 DEF Claim, Queue!Claim
  <2>2. ASSUME NEW r \in Runs, RetryLater(r) \/ HandBack(r) PROVE Queue!Requeue(1)
    BY <2>2 DEF RetryLater, HandBack, Requeue, Queue!Requeue
  <2>3. ASSUME NEW r \in Runs, End(r)
        PROVE  (\E outcome \in Outcomes : Queue!End(1, outcome)) \/ UNCHANGED status
    <3>1. run[r].outcome \in Outcomes
      BY <2>0 DEF RunTypes, RunState
    <3>2. CASE status = "running"
      <4>1. status' = run[r].outcome /\ (status' \in {"queued", "running"}) = FALSE
        BY <2>3, <3>1, <3>2 DEF End, Outcomes
      <4> QED BY <3>1, <3>2, <4>1 DEF Outcomes, Queue!End
    <3> QED BY <2>3, <3>2 DEF End
  <2>4. ASSUME NEW r \in Runs, RunStep(r)
        PROVE  Claim(r) \/ RetryLater(r) \/ HandBack(r) \/ End(r) \/ UNCHANGED status
    BY <2>4 DEF RunStep, Interrupt, Load, Restore, BeginStage, AgentReturns, SaveFiles,
                SaveArtifacts,
                SaveStage, StageFails, InternalError, CancelFound, SkipStages, HandBackInVain,
                InterruptCancelled, Crash
  <2>5. Reap => Queue!Abandon({1})
    <3> SUFFICES ASSUME Reap PROVE Queue!Abandon({1})
      OBVIOUS
    <3>1. status = "running" /\ status' = "failed" /\ (status' \in {"queued", "running"}) = FALSE
      BY DEF Reap
    <3> QED BY <3>1 DEF Queue!Abandon
  <2>6. RetryFailed => Queue!Retry(1)
    BY DEF RetryFailed, Requeue, Queue!Retry
  <2>7. CancelQueued => Queue!Withdraw(1)
    <3> SUFFICES ASSUME CancelQueued PROVE Queue!Withdraw(1)
      OBVIOUS
    <3>1. status = "queued" /\ status' = "cancelled" /\ (status' \in {"queued", "running"}) = FALSE
      BY DEF CancelQueued
    <3> QED BY <3>1 DEF Queue!Withdraw
  <2>8. ReapSkips \/ Upgrade \/ UNCHANGED vars => UNCHANGED status
    BY DEF ReapSkips, Upgrade, vars
  <2> QED BY <1>1, <2>1, <2>2, <2>3, <2>4, <2>5, <2>6, <2>7, <2>8 DEF Next, Queue!Next, Outcomes
<1> QED
  BY <1>1, TypeInvariant, PTL DEF Spec, QueueMoves

-----------------------------------------------------------------------------
(* Memory and tables, when no attempt outlives the reaper                  *)

\* The attempt has the job for itself.
Alone ==
  \A r \in Runs : Live(r) =>
    /\ status = "running"
    /\ \A q \in Runs \ {r} : ~Live(q)

OnlyFinishedFiles == \A p \in Paths : row[p] # NoFile => row[p].stage \in Done

\* What an attempt holds in memory, at every place of a stage.
Remembers(r) ==
  /\ run[r].pc = "load" =>
       OnlyFinishedFiles /\ \A p \in Paths : run[r].files[p] = 0
  /\ run[r].pc \in {"stage", "agent", "artifacts", "succeed"} =>
       \A p \in Paths : run[r].files[p] = row[p].content
  /\ run[r].pc = "files" =>
       \A p \in Paths \ run[r].out : run[r].files[p] = row[p].content
  /\ run[r].pc \in Begun \cup {"files", "artifacts"} =>
       \A s \in Inputs : s < run[r].at => run[r].known[s] = artifact[s]
  /\ run[r].pc = "succeed" =>
       \A s \in Inputs : s <= run[r].at => run[r].known[s] = artifact[s]

CheckpointInv ==
  /\ Alone
  /\ OnlyCheckpointsWait
  /\ \A r \in Runs : Remembers(r)

LEMMA InitCheckpointInv == Init => CheckpointInv
<1> SUFFICES ASSUME Init PROVE CheckpointInv
  OBVIOUS
<1>1. \A r \in Runs : run[r].pc = "idle"
  BY NoRunType DEF Init
<1>2. OnlyCheckpointsWait
  BY StageNumbers DEF Init, OnlyCheckpointsWait
<1> QED
  BY <1>1, <1>2 DEF CheckpointInv, Alone, Live, Remembers, Begun

\* A step of the only attempt: what the others hold does not matter.
LEMMA OnlyOneRemembers ==
  ASSUME RunTypes, Alone, NEW r \in Runs, Live(r),
         \A q \in Runs \ {r} : run'[q] = run[q],
         Remembers(r)'
  PROVE  \A q \in Runs : Remembers(q)'
  BY DEF RunTypes, Alone, Live, Remembers, Begun

LEMMA RunLeaves ==
  ASSUME RunTypes, Alone, NEW r \in Runs, Live(r), run' = [run EXCEPT ![r] = NoRun]
  PROVE  Alone' /\ \A q \in Runs : Remembers(q)'
  BY NoRunType DEF RunTypes, Alone, Live, Remembers, Begun

\* Back in the queue, a job keeps its finished stages and nothing else.
LEMMA RequeueLeavesCheckpoints ==
  ASSUME TableTypes, NEW from \in JobStatus, Requeue(from)
  PROVE  OnlyCheckpointsWait'
<1>1. Done' = Done
  BY DEF TableTypes, Requeue, Done
<1> QED
  BY <1>1, StageNumbers DEF TableTypes, Requeue, OnlyCheckpointsWait, NoFile

LEMMA StepCheckpointInv ==
  ASSUME ~LateWorkers, TypeInv, CheckpointInv, [Next]_vars
  PROVE  CheckpointInv'
<1> USE DEF disk, history, bounds
<1>0. /\ TableTypes /\ RunTypes /\ CounterTypes /\ ReturnWellFormed
      /\ Alone /\ OnlyCheckpointsWait /\ \A r \in Runs : Remembers(r)
  BY DEF TypeInv, TypeOK, CheckpointInv
<1>1. ASSUME NEW r \in Runs, Claim(r) PROVE CheckpointInv'
  <2>1. /\ status = "queued" /\ status' = "running"
        /\ \A q \in Runs : ~Live(q)
        /\ run' = [run EXCEPT ![r] = [NoRun EXCEPT !.pc = "load"]]
    BY <1>0, <1>1 DEF Claim, Alone
  <2>2. /\ run'[r] = [NoRun EXCEPT !.pc = "load"]
        /\ \A q \in Runs \ {r} : run'[q] = run[q]
    BY <1>0, <2>1 DEF RunTypes
  <2>3. run'[r].pc = "load" /\ \A p \in Paths : run'[r].files[p] = 0
    BY <2>2 DEF NoRun
  <2>4. OnlyFinishedFiles'
    BY <1>0, <1>1, <2>1 DEF Claim, OnlyCheckpointsWait, OnlyFinishedFiles, Done
  <2>5. \A q \in Runs : Remembers(q)'
    BY <2>1, <2>2, <2>3, <2>4 DEF Remembers, Begun, Live
  <2>6. Alone' /\ OnlyCheckpointsWait'
    BY <2>1, <2>2 DEF Alone, Live, OnlyCheckpointsWait
  <2> QED BY <2>5, <2>6 DEF CheckpointInv
<1>2. ASSUME NEW r \in Runs, RunStep(r), ~Claim(r) PROVE CheckpointInv'
  <2>0. run[r] \in RunState /\ run[r].at \in Nat /\ Remembers(r)
    BY <1>0, StageNumbers DEF RunTypes, RunState
  <2>1. Live(r)
    BY <1>2 DEF RunStep, Interrupt, Live, Load, Restore, BeginStage, AgentReturns, SaveFiles,
                SaveArtifacts,
                SaveStage, StageFails, InternalError, RetryLater, CancelFound, SkipStages, End,
                HandBack, HandBackInVain, InterruptCancelled, Crash
  <2>2. status = "running" /\ \A q \in Runs \ {r} : ~Live(q)
    BY <1>0, <2>1 DEF Alone
  \* The attempt goes on, and the job stays with it.
  <2>3. ASSUME status' = status, \A q \in Runs \ {r} : run'[q] = run[q], Remembers(r)'
        PROVE  CheckpointInv'
    <3>1. Alone' /\ OnlyCheckpointsWait'
      BY <2>2, <2>3 DEF Alone, Live, OnlyCheckpointsWait
    <3> QED BY <1>0, <2>1, <2>3, <3>1, OnlyOneRemembers DEF CheckpointInv
  <2>4. CASE Load(r)
    <3>1. PICK n \in 1..Review + 1 :
            run' = [run EXCEPT ![r].pc = IF Done = {} THEN "stage" ELSE "restore",
                               ![r].at = n,
                               ![r].known =
                                 [s \in Stages |-> IF s < n /\ s # Review THEN artifact[s] ELSE 0]]
      BY <2>4 DEF Load
    <3>2. \A s \in Inputs : s \in Stages /\ s # Review
      BY StageNumbers
    <3>3. /\ run'[r].pc = IF Done = {} THEN "stage" ELSE "restore"
          /\ run'[r].at = n /\ run'[r].files = run[r].files
          /\ \A s \in Inputs : s < n => run'[r].known[s] = artifact[s]
          /\ \A q \in Runs \ {r} : run'[q] = run[q]
      BY <1>0, <2>0, <3>1, <3>2 DEF RunTypes, RunState
    <3>4. OnlyFinishedFiles /\ \A p \in Paths : run[r].files[p] = 0
      BY <2>0, <2>4 DEF Load, Remembers
    <3>5. Done = {} => \A p \in Paths : row[p].content = 0
      BY <3>4 DEF OnlyFinishedFiles, NoFile
    <3>6. Remembers(r)'
      BY <2>4, <3>3, <3>4, <3>5 DEF Load, Remembers, Begun
    <3> QED BY <2>3, <2>4, <3>3, <3>6 DEF Load
  <2>5. CASE Restore(r)
    <3>1. /\ run[r].pc = "restore" /\ run'[r].pc = "stage"
          /\ run'[r].at = run[r].at /\ run'[r].known = run[r].known
          /\ run'[r].files = [p \in Paths |-> IF row[p].stage \in 1..run[r].at - 1
                                              THEN row[p].content ELSE 0]
          /\ \A q \in Runs \ {r} : run'[q] = run[q]
      BY <1>0, <2>0, <2>5 DEF Restore, LoadFiles, RunTypes, RunState
    <3>2. \A p \in Paths : row'[p].content = IF row[p].stage \in 1..run[r].at - 1
                                             THEN row[p].content ELSE 0
      BY <2>5 DEF Restore, NoFile
    <3>3. Remembers(r)'
      BY <2>0, <2>5, <3>1, <3>2 DEF Restore, Remembers, Begun
    <3> QED BY <2>3, <2>5, <3>1, <3>3 DEF Restore
  <2>6. CASE BeginStage(r)
    <3>1. /\ run[r].pc = "stage" /\ run'[r].pc = "agent"
          /\ run'[r].at = run[r].at /\ run'[r].known = run[r].known /\ run'[r].files = run[r].files
          /\ \A q \in Runs \ {r} : run'[q] = run[q]
      BY <1>0, <2>0, <2>6 DEF BeginStage, RunTypes, RunState
    <3>2. Remembers(r)'
      BY <2>0, <2>6, <3>1 DEF BeginStage, Remembers, Begun
    <3> QED BY <2>3, <2>6, <3>1, <3>2 DEF BeginStage
  <2>7. CASE AgentReturns(r)
    <3>1. PICK out \in Writable(r) :
            run' = [run EXCEPT ![r].pc = "files",
                               ![r].out = out,
                               ![r].known = [@ EXCEPT ![run[r].at] = returns + 1],
                               ![r].files = [p \in Paths |-> IF p \in out THEN returns + 1
                                                             ELSE run[r].files[p]]]
      BY <2>7 DEF AgentReturns
    <3>2. /\ run'[r].pc = "files" /\ run'[r].at = run[r].at /\ run'[r].out = out
          /\ run'[r].known = [run[r].known EXCEPT ![run[r].at] = returns + 1]
          /\ \A p \in Paths \ out : run'[r].files[p] = run[r].files[p]
          /\ \A q \in Runs \ {r} : run'[q] = run[q]
      BY <1>0, <2>0, <3>1 DEF RunTypes, RunState
    <3>3. \A s \in Inputs : s < run[r].at => run'[r].known[s] = run[r].known[s]
      BY <2>0, <3>2, StageNumbers DEF RunState
    <3>4. Remembers(r)'
      BY <2>0, <2>7, <3>2, <3>3 DEF AgentReturns, Remembers, Begun
    <3> QED BY <2>3, <2>7, <3>2, <3>4 DEF AgentReturns
  <2>8. CASE SaveFiles(r)
    <3>1. /\ run[r].pc = "files" /\ run'[r].pc = "artifacts"
          /\ run'[r].at = run[r].at /\ run'[r].known = run[r].known /\ run'[r].files = run[r].files
          /\ \A q \in Runs \ {r} : run'[q] = run[q]
      BY <1>0, <2>0, <2>8 DEF SaveFiles, RunTypes, RunState
    <3>2. \A p \in Paths : row'[p].content = run[r].files[p]
      BY <2>0, <2>8, <3>1 DEF SaveFiles, Remembers
    <3>3. Remembers(r)'
      BY <2>0, <2>8, <3>1, <3>2 DEF SaveFiles, Remembers, Begun
    <3> QED BY <2>3, <2>8, <3>1, <3>3 DEF SaveFiles
  <2>9. CASE SaveArtifacts(r)
    <3>1. /\ run[r].pc = "artifacts" /\ run'[r].pc = "succeed"
          /\ run'[r].at = run[r].at /\ run'[r].known = run[r].known /\ run'[r].files = run[r].files
          /\ \A q \in Runs \ {r} : run'[q] = run[q]
      BY <1>0, <2>0, <2>9 DEF SaveArtifacts, RunTypes, RunState
    <3>2. \A s \in Inputs : artifact'[s] = IF s = run[r].at THEN run[r].known[s] ELSE artifact[s]
      BY <2>9, StageNumbers DEF SaveArtifacts
    <3>3. \A s \in Inputs : s <= run[r].at => s = run[r].at \/ s < run[r].at
      BY <2>0, StageNumbers
    <3>4. Remembers(r)'
      BY <2>0, <2>9, <3>1, <3>2, <3>3 DEF SaveArtifacts, Remembers, Begun
    <3> QED BY <2>3, <2>9, <3>1, <3>4 DEF SaveArtifacts
  <2>10. CASE SaveStage(r)
    <3>1. /\ run[r].pc = "succeed" /\ run'[r].pc = "stage"
          /\ run'[r].at = run[r].at + 1
          /\ run'[r].known = run[r].known /\ run'[r].files = run[r].files
          /\ \A q \in Runs \ {r} : run'[q] = run[q]
      BY <1>0, <2>0, <2>10 DEF SaveStage, RunTypes, RunState
    <3>2. \A s \in Inputs : s < run[r].at + 1 => s <= run[r].at
      BY <2>0, StageNumbers
    <3>3. Remembers(r)'
      BY <2>0, <2>10, <3>1, <3>2 DEF SaveStage, Remembers, Begun
    <3> QED BY <2>3, <2>10, <3>1, <3>3 DEF SaveStage
  <2>11. CASE StageFails(r) \/ InternalError(r) \/ CancelFound(r) \/ InterruptCancelled(r)
              \/ SkipStages(r)
    <3>1. /\ run'[r].pc \in {"skip", "end"}
          /\ \A q \in Runs \ {r} : run'[q] = run[q]
      BY <1>0, <2>0, <2>11 DEF StageFails, InternalError, CancelFound, InterruptCancelled,
                               SkipStages, RunTypes, RunState
    <3>2. Remembers(r)'
      BY <3>1 DEF Remembers, Begun
    <3>3. status' = status
      BY <2>11 DEF StageFails, InternalError, CancelFound, InterruptCancelled, SkipStages
    <3> QED BY <2>3, <3>1, <3>2, <3>3
  <2>12. CASE RetryLater(r) \/ HandBack(r)
    <3>1. OnlyCheckpointsWait'
      BY <1>0, <2>12, RequeueLeavesCheckpoints DEF RetryLater, HandBack, JobStatus
    <3>2. run' = [run EXCEPT ![r] = NoRun]
      BY <2>12 DEF RetryLater, HandBack
    <3> QED BY <1>0, <2>1, <3>1, <3>2, RunLeaves DEF CheckpointInv
  <2>13. CASE End(r) \/ Crash(r) \/ HandBackInVain(r)
    <3>1. run' = [run EXCEPT ![r] = NoRun]
      BY <2>13 DEF End, Crash, HandBackInVain
    <3>2. run[r].outcome # "queued"
      BY <2>0 DEF RunState, Outcomes
    <3>3. status' # "queued"
      BY <2>2, <2>13, <3>2 DEF End, Crash, HandBackInVain
    <3> QED BY <1>0, <2>1, <3>1, <3>3, RunLeaves DEF CheckpointInv, OnlyCheckpointsWait
  <2> QED BY <1>2, <2>4, <2>5, <2>6, <2>7, <2>8, <2>9, <2>10, <2>11, <2>12, <2>13
         DEF RunStep, Interrupt
\* The other steps find no attempt alive, or touch nothing it remembers.
<1>3. CASE Reap \/ RetryFailed \/ CancelQueued \/ Upgrade
  <2>1. \A q \in Runs : ~Live(q)
    BY <1>0, <1>3 DEF Reap, RetryFailed, Requeue, CancelQueued, Upgrade, Alone
  <2>2. run' = run
    BY <1>3 DEF Reap, RetryFailed, CancelQueued, Upgrade
  <2>3. Alone' /\ \A q \in Runs : Remembers(q)'
    BY <2>1, <2>2 DEF Alone, Live, Remembers, Begun
  <2>4. OnlyCheckpointsWait'
    <3>1. CASE Reap \/ CancelQueued
      BY <3>1 DEF Reap, CancelQueued, OnlyCheckpointsWait
    <3>2. CASE RetryFailed
      BY <1>0, <3>2, RequeueLeavesCheckpoints DEF RetryFailed, JobStatus
    <3>3. CASE Upgrade
      BY <1>0, <3>3 DEF Upgrade, OnlyCheckpointsWait, Done
    <3> QED BY <1>3, <3>1, <3>2, <3>3
  <2> QED BY <2>3, <2>4 DEF CheckpointInv
<1>4. CASE ReapSkips
  <2>1. Done' = Done
    BY <1>0, <1>4 DEF ReapSkips, SkipPending, Done, TableTypes
  <2> QED BY <1>0, <1>4, <2>1
          DEF ReapSkips, CheckpointInv, Alone, Live, OnlyCheckpointsWait, Remembers, Begun,
              OnlyFinishedFiles
<1>5. CASE UNCHANGED vars
  BY <1>0, <1>5 DEF vars, CheckpointInv, Alone, Live, OnlyCheckpointsWait, Remembers, Begun,
                    OnlyFinishedFiles, Done
<1> QED
  BY <1>1, <1>2, <1>3, <1>4, <1>5 DEF Next

LEMMA CheckpointInvariant ==
  ASSUME ~LateWorkers PROVE Spec => []CheckpointInv
<1>1. TypeInv /\ CheckpointInv /\ [Next]_vars => CheckpointInv'
  BY StepCheckpointInv
<1> QED
  BY InitCheckpointInv, <1>1, TypeInvariant, PTL DEF Spec

\* If no attempt outlives the reaper, a waiting job holds the files and the
\* artifacts of its finished stages only.
THEOREM OnlyCheckpointsAreKept ==
  ASSUME ~LateWorkers PROVE Spec => []OnlyCheckpointsWait
<1> QED
  BY CheckpointInvariant, PTL DEF CheckpointInv

\* If no attempt outlives the reaper, what an attempt has in memory between two
\* stages is what the tables hold, so what is delivered is what the agents saw.
THEOREM MemoryAgreesWithTables ==
  ASSUME ~LateWorkers PROVE Spec => []MemoryMatchesTables
<1>1. CheckpointInv => MemoryMatchesTables
  BY DEF CheckpointInv, Remembers, MemoryMatchesTables, Begun
<1> QED
  BY <1>1, CheckpointInvariant, PTL

-----------------------------------------------------------------------------
(* What a step of an attempt does                                          *)

Others(r) == \A q \in Runs \ {r} : run'[q] = run[q]
SameAt(r) == run'[r].at = run[r].at
SameMemory(r) ==
  /\ run'[r].at = run[r].at /\ run'[r].known = run[r].known
  /\ run'[r].files = run[r].files /\ run'[r].out = run[r].out

LEMMA LoadIs ==
  ASSUME TypeInv, NEW r \in Runs, Load(r)
  PROVE  /\ run[r].pc = "load" /\ run'[r].at \in 1..6 /\ Others(r)
         /\ run'[r].pc = IF Done = {} THEN "stage" ELSE "restore"
         /\ \A s \in 1..run'[r].at - 1 : Restorable(s)
         /\ run'[r].at \in Stages => ~Restorable(run'[r].at)
         /\ UNCHANGED <<status, disk, output, moved, upgrades>>
<1>0. run \in [Runs -> RunState] /\ run[r] \in RunState
  BY DEF TypeInv, TypeOK, RunTypes
<1>1. PICK n \in 1..Review + 1 :
        /\ ResumesAt(n)
        /\ run' = [run EXCEPT ![r].pc = IF Done = {} THEN "stage" ELSE "restore",
                              ![r].at = n,
                              ![r].known =
                                [s \in Stages |-> IF s < n /\ s # Review THEN artifact[s] ELSE 0]]
  BY DEF Load
<1>2. n \in 1..6
  BY StageNumbers
<1>3. /\ run'[r].at = n /\ run'[r].pc = IF Done = {} THEN "stage" ELSE "restore"
      /\ Others(r)
  BY <1>0, <1>1, <1>2 DEF RunState, Others
<1> QED
  BY <1>1, <1>2, <1>3 DEF Load, ResumesAt, history, bounds

LEMMA RestoreIs ==
  ASSUME TypeInv, NEW r \in Runs, Restore(r)
  PROVE  /\ run[r].pc = "restore" /\ run'[r].pc = "stage" /\ SameAt(r) /\ Others(r)
         /\ \A p \in Paths : row'[p] = IF row[p].stage \in 1..run[r].at - 1 THEN row[p] ELSE NoFile
         /\ UNCHANGED <<status, stage, artifact, outdated, output, moved, upgrades>>
<1>0. run \in [Runs -> RunState] /\ run[r] \in RunState
  BY DEF TypeInv, TypeOK, RunTypes
<1> QED
  BY <1>0 DEF Restore, LoadFiles, RunState, Others, SameAt, history, bounds

LEMMA BeginIs ==
  ASSUME TypeInv, NEW r \in Runs, BeginStage(r)
  PROVE  /\ run[r].pc = "stage" /\ run[r].at \in Stages
         /\ run'[r].pc = "agent" /\ SameMemory(r) /\ Others(r)
         /\ Done' = Done \ {run[r].at}
         /\ UNCHANGED <<status, artifact, outdated, row, output, moved, upgrades>>
<1>0. run \in [Runs -> RunState] /\ run[r] \in RunState /\ stage \in [Stages -> StageStatus]
  BY DEF TypeInv, TypeOK, RunTypes, TableTypes
<1> QED
  BY <1>0 DEF BeginStage, RunState, Others, SameMemory, Done, history, bounds

LEMMA ReturnsIs ==
  ASSUME TypeInv, NEW r \in Runs, AgentReturns(r)
  PROVE  /\ run[r].pc = "agent" /\ run'[r].pc = "files" /\ SameAt(r) /\ Others(r)
         /\ run'[r].out \in Writable(r) /\ run'[r].out \subseteq Paths
         /\ \A p \in run'[r].out : run'[r].files[p] = run'[r].known[run[r].at]
         /\ UNCHANGED <<status, disk, output, moved, upgrades>>
<1>0. /\ run \in [Runs -> RunState] /\ run[r] \in RunState /\ returns \in Nat
      /\ run[r].pc = "agent" /\ run[r].at \in Stages
  BY DEF TypeInv, TypeOK, RunTypes, CounterTypes, AgentReturns
<1>1. PICK out \in Writable(r) :
        run' = [run EXCEPT ![r].pc = "files",
                           ![r].out = out,
                           ![r].known = [@ EXCEPT ![run[r].at] = returns + 1],
                           ![r].files = [p \in Paths |-> IF p \in out THEN returns + 1
                                                         ELSE run[r].files[p]]]
  BY DEF AgentReturns
<1>2. /\ run'[r].pc = "files" /\ run'[r].at = run[r].at /\ run'[r].out = out
      /\ run'[r].known = [run[r].known EXCEPT ![run[r].at] = returns + 1]
      /\ run'[r].files = [p \in Paths |-> IF p \in out THEN returns + 1 ELSE run[r].files[p]]
      /\ Others(r)
  BY <1>0, <1>1 DEF RunState, Others
<1>3. run'[r].known[run[r].at] = returns + 1
  BY <1>0, <1>2 DEF RunState
<1>4. out \subseteq Paths
  BY <1>0, WritableOwned DEF TypeInv, TypeOK
<1> QED
  BY <1>0, <1>2, <1>3, <1>4 DEF AgentReturns, SameAt, bounds

LEMMA SaveFilesIs ==
  ASSUME TypeInv, NEW r \in Runs, SaveFiles(r)
  PROVE  /\ run[r].pc = "files" /\ run'[r].pc = "artifacts" /\ SameMemory(r) /\ Others(r)
         /\ \A p \in run[r].out \cap Paths :
              row'[p] = [stage |-> run[r].at, content |-> run[r].files[p]]
         /\ \A p \in Paths \ run[r].out : row'[p] = row[p]
         /\ moved' = IF run[r].at = Review THEN moved \cup run[r].out ELSE moved
         /\ UNCHANGED <<status, stage, artifact, outdated, output, upgrades>>
<1>0. run \in [Runs -> RunState] /\ run[r] \in RunState
  BY DEF TypeInv, TypeOK, RunTypes
<1> QED
  BY <1>0 DEF SaveFiles, TakeOver, RunState, Others, SameMemory, history, bounds

LEMMA SaveArtifactsIs ==
  ASSUME TypeInv, NEW r \in Runs, SaveArtifacts(r)
  PROVE  /\ run[r].pc = "artifacts" /\ run'[r].pc = "succeed" /\ SameMemory(r) /\ Others(r)
         /\ \A s \in Stages : artifact'[s] = IF s = run[r].at /\ s \in HasArtifact
                                             THEN run[r].known[s] ELSE artifact[s]
         /\ outdated' = outdated \ {run[r].at}
         /\ UNCHANGED <<status, stage, row, output, moved, upgrades>>
<1>0. run \in [Runs -> RunState] /\ run[r] \in RunState
  BY DEF TypeInv, TypeOK, RunTypes
<1> QED
  BY <1>0 DEF SaveArtifacts, RunState, Others, SameMemory, history, bounds

LEMMA SaveStageIs ==
  ASSUME TypeInv, NEW r \in Runs, SaveStage(r)
  PROVE  /\ run[r].pc = "succeed" /\ run[r].at \in Stages
         /\ run'[r].pc = "stage" /\ run'[r].at = run[r].at + 1 /\ Others(r)
         /\ Done' = Done \cup {run[r].at}
         /\ output'[run[r].at].files = run[r].out
         /\ output'[run[r].at].number = run[r].known[run[r].at]
         /\ \A s \in Stages \ {run[r].at} : output'[s] = output[s]
         /\ moved' = IF run[r].at = Review THEN moved \ run[r].out ELSE moved
         /\ UNCHANGED <<status, artifact, outdated, row, upgrades>>
<1>0. /\ run \in [Runs -> RunState] /\ run[r] \in RunState /\ stage \in [Stages -> StageStatus]
      /\ output \in [Stages -> [files : SUBSET Paths, number : Nat]]
      /\ run[r].pc = "succeed" /\ run[r].at \in Stages
  BY DEF TypeInv, TypeOK, RunTypes, TableTypes, CounterTypes, SaveStage
<1>1. /\ run'[r].pc = "stage" /\ run'[r].at = run[r].at + 1 /\ Others(r)
  BY <1>0 DEF SaveStage, RunState, Others
<1>2. Done' = Done \cup {run[r].at}
  BY <1>0 DEF SaveStage, Done
<1>3. /\ output'[run[r].at] = [files |-> run[r].out, number |-> run[r].known[run[r].at]]
      /\ \A s \in Stages \ {run[r].at} : output'[s] = output[s]
  BY <1>0 DEF SaveStage
<1> QED
  BY <1>0, <1>1, <1>2, <1>3 DEF SaveStage, bounds

\* An attempt that gives up, on its way to end the job otherwise.
LEMMA GivesUp ==
  ASSUME TypeInv, NEW r \in Runs,
         StageFails(r) \/ InternalError(r) \/ CancelFound(r) \/ InterruptCancelled(r)
  PROVE  /\ run'[r].pc = "skip" /\ run'[r].outcome # "succeeded" /\ Others(r)
         /\ Done' = Done \/ (run[r].pc = "agent" /\ Done' = Done \ {run[r].at})
         /\ UNCHANGED <<status, artifact, outdated, row, output, moved, upgrades>>
<1>0. run \in [Runs -> RunState] /\ run[r] \in RunState /\ stage \in [Stages -> StageStatus]
  BY DEF TypeInv, TypeOK, RunTypes, TableTypes
<1>1. CASE StageFails(r)
  BY <1>0, <1>1 DEF StageFails, RunState, Others, Done, history, bounds
<1>2. CASE InternalError(r) \/ CancelFound(r) \/ InterruptCancelled(r)
  BY <1>0, <1>2 DEF InternalError, CancelFound, InterruptCancelled, RunState, Others, Done,
     disk, history, bounds
<1> QED
  BY <1>1, <1>2

LEMMA SkipsIs ==
  ASSUME TypeInv, NEW r \in Runs, SkipStages(r)
  PROVE  /\ run[r].pc = "skip" /\ run'[r].pc = "end" /\ Others(r)
         /\ run'[r].outcome = run[r].outcome /\ Done' = Done
         /\ UNCHANGED <<status, artifact, outdated, row, output, moved, upgrades>>
<1>0. run \in [Runs -> RunState] /\ run[r] \in RunState /\ stage \in [Stages -> StageStatus]
  BY DEF TypeInv, TypeOK, RunTypes, TableTypes
<1> QED
  BY <1>0 DEF SkipStages, SkipPending, RunState, Others, Done, history, bounds

LEMMA RequeueIs ==
  ASSUME TypeInv, NEW from \in JobStatus, Requeue(from)
  PROVE  /\ status = from /\ status' = "queued" /\ Done' = Done
         /\ \A p \in Paths : row'[p] = IF row[p].stage \in Done THEN row[p] ELSE NoFile
         /\ \A s \in Inputs \cap Done : artifact'[s] = artifact[s]
         /\ outdated' = outdated \cap Done
  BY StageNumbers DEF TypeInv, TypeOK, TableTypes, Requeue, Done


-----------------------------------------------------------------------------
(* What is delivered, when no attempt outlives the reaper                  *)

Working  == Begun \cup Answered
Producing == {"agent", "files", "artifacts", "succeed"}

\* A file of a finished stage is from the run of that stage that succeeded.
DoneFilesAreOutput ==
  \A p \in Paths : row[p] # NoFile /\ row[p].stage \in Done =>
    /\ p \in output[row[p].stage].files
    /\ row[p].content = output[row[p].stage].number

\* An attempt has finished stages behind it, and no file of the stage it is at, or
\* of a later one, but those its agent has just returned.
Produces(r) ==
  /\ run[r].pc \in Working => \A s \in Stages : s < run[r].at => s \in Done
  /\ run[r].pc \in Producing => run[r].at \notin Done
  /\ run[r].pc \in {"stage", "agent", "files"} =>
       \A p \in Paths : row[p] # NoFile => row[p].stage < run[r].at
  /\ run[r].pc = "files" =>
       \A p \in run[r].out : run[r].files[p] = run[r].known[run[r].at]
  /\ run[r].pc \in {"artifacts", "succeed"} =>
       \A p \in Paths : row[p] # NoFile =>
         \/ row[p].stage < run[r].at
         \/ /\ row[p].stage = run[r].at /\ p \in run[r].out
            /\ row[p].content = run[r].known[run[r].at]
  /\ run[r].pc \in {"skip", "end"} => run[r].outcome # "succeeded"

DeliveryInv ==
  /\ DoneFilesAreOutput
  /\ \A r \in Runs : Produces(r)
  /\ status = "succeeded" => \A s \in Stages : s \in Done

LEMMA AloneProduces ==
  ASSUME TypeInv, Alone, NEW r \in Runs, Live(r), Others(r), Produces(r)'
  PROVE  \A q \in Runs : Produces(q)'
<1>1. ASSUME NEW q \in Runs \ {r} PROVE Produces(q)'
  <2>1. run'[q].pc = "idle"
    BY DEF Alone, Live, Others
  <2> QED BY <2>1 DEF Produces, Working, Begun, Answered, Producing
<1> QED
  BY <1>1

LEMMA RunLeavesQuietly ==
  ASSUME TypeInv, Alone, NEW r \in Runs, Live(r), run' = [run EXCEPT ![r] = NoRun]
  PROVE  \A q \in Runs : Produces(q)'
<1>1. run'[r] = NoRun /\ Others(r)
  BY DEF TypeInv, TypeOK, RunTypes, Others
<1>2. run'[r].pc = "idle"
  BY <1>1, NoRunType
<1>3. Produces(r)'
  BY <1>2 DEF Produces, Working, Begun, Answered, Producing
<1> QED
  BY <1>1, <1>3, AloneProduces

\* Nobody is alive: what an attempt remembers does not matter.
LEMMA NobodyProduces ==
  ASSUME \A q \in Runs : ~Live(q), UNCHANGED run
  PROVE  \A q \in Runs : Produces(q)'
  BY DEF Live, Produces, Working, Begun, Answered, Producing

LEMMA RequeueKeepsOutput ==
  ASSUME TypeInv, DoneFilesAreOutput, NEW from \in JobStatus, Requeue(from), UNCHANGED output
  PROVE  DoneFilesAreOutput'
<1>1. /\ Done' = Done
      /\ \A p \in Paths : row'[p] = IF row[p].stage \in Done THEN row[p] ELSE NoFile
  BY RequeueIs
<1> QED
  BY <1>1 DEF DoneFilesAreOutput

LEMMA StepDeliveryInv ==
  ASSUME ~LateWorkers, TypeInv, CheckpointInv, DeliveryInv, [Next]_vars
  PROVE  DeliveryInv'
<1>0. /\ TypeOK /\ Alone /\ OnlyCheckpointsWait /\ \A r \in Runs : Remembers(r)
      /\ DoneFilesAreOutput /\ \A r \in Runs : Produces(r)
      /\ run \in [Runs -> RunState] /\ status \in JobStatus
  BY DEF TypeInv, TypeOK, RunTypes, TableTypes, CheckpointInv, DeliveryInv
<1>00. /\ \A p \in Paths : row[p] # NoFile => row[p].stage \in Stages
       /\ NoFile.stage = 0
  BY <1>0 DEF TypeOK, TableTypes, FileRows, NoFile
<1>1. ASSUME NEW r \in Runs, RunStep(r), ~Claim(r) PROVE DeliveryInv'
  <2>0. /\ run[r] \in RunState /\ run[r].at \in 1..6 /\ Produces(r) /\ Remembers(r)
    BY <1>0, StageNumbers DEF RunState
  <2>1. Live(r)
    BY <1>1 DEF RunStep, Interrupt, Live, Load, Restore, BeginStage, AgentReturns, SaveFiles,
                SaveArtifacts,
                SaveStage, StageFails, InternalError, RetryLater, CancelFound, SkipStages, End,
                HandBack, HandBackInVain, InterruptCancelled, Crash
  <2>2. status = "running"
    BY <1>0, <2>1 DEF Alone
  <2>3. ASSUME status' # "succeeded", Others(r), Produces(r)', DoneFilesAreOutput'
        PROVE  DeliveryInv'
    BY <1>0, <2>1, <2>3, AloneProduces DEF DeliveryInv
  <2>4. CASE Load(r)
    <3>1. /\ run[r].pc = "load" /\ run'[r].at \in 1..6 /\ Others(r)
          /\ run'[r].pc = IF Done = {} THEN "stage" ELSE "restore"
          /\ \A s \in 1..run'[r].at - 1 : Restorable(s)
          /\ UNCHANGED <<status, stage, row, output>>
      BY <2>4, LoadIs DEF disk
    <3>2. \A s \in Stages : s < run'[r].at => s \in Done
      BY <3>1, StageNumbers DEF Restorable, Done
    <3>3. Done = {} => \A p \in Paths : row[p] = NoFile
      BY <2>0, <3>1 DEF Remembers, OnlyFinishedFiles
    <3>4. Produces(r)' /\ Done' = Done
      BY <3>1, <3>2, <3>3 DEF Produces, Working, Begun, Answered, Producing, Done
    <3> QED BY <1>0, <2>2, <2>3, <3>1, <3>4 DEF DoneFilesAreOutput
  <2>5. CASE Restore(r)
    <3>1. /\ run[r].pc = "restore" /\ run'[r].pc = "stage" /\ run'[r].at = run[r].at /\ Others(r)
          /\ \A p \in Paths :
               row'[p] = IF row[p].stage \in 1..run[r].at - 1 THEN row[p] ELSE NoFile
          /\ UNCHANGED <<status, stage, output>> /\ Done' = Done
      BY <2>5, RestoreIs DEF SameAt, Done
    <3>2. \A p \in Paths : row'[p] # NoFile => row'[p] = row[p] /\ row[p].stage < run[r].at
      BY <2>0, <3>1
    <3>3. DoneFilesAreOutput'
      BY <1>0, <3>1, <3>2 DEF DoneFilesAreOutput
    <3>4. Produces(r)'
      BY <2>0, <3>1, <3>2 DEF Produces, Working, Begun, Answered, Producing
    <3> QED BY <2>2, <2>3, <3>1, <3>3, <3>4
  <2>6. CASE BeginStage(r)
    <3>1. /\ run[r].pc = "stage" /\ run[r].at \in Stages
          /\ run'[r].pc = "agent" /\ run'[r].at = run[r].at /\ Others(r)
          /\ Done' = Done \ {run[r].at}
          /\ UNCHANGED <<status, row, output>>
      BY <2>6, BeginIs DEF SameMemory
    <3>2. DoneFilesAreOutput'
      BY <1>0, <3>1 DEF DoneFilesAreOutput
    <3>3. Produces(r)'
      BY <2>0, <3>1 DEF Produces, Working, Begun, Answered, Producing
    <3> QED BY <2>2, <2>3, <3>1, <3>2, <3>3
  <2>7. CASE AgentReturns(r)
    <3>1. /\ run[r].pc = "agent" /\ run'[r].pc = "files" /\ run'[r].at = run[r].at /\ Others(r)
          /\ \A p \in run'[r].out : run'[r].files[p] = run'[r].known[run[r].at]
          /\ UNCHANGED <<status, stage, row, output>> /\ Done' = Done
      BY <2>7, ReturnsIs DEF SameAt, Done, disk
    <3>2. DoneFilesAreOutput'
      BY <1>0, <3>1 DEF DoneFilesAreOutput
    <3>3. Produces(r)'
      BY <2>0, <3>1 DEF Produces, Working, Begun, Answered, Producing
    <3> QED BY <2>2, <2>3, <3>1, <3>2, <3>3
  <2>8. CASE SaveFiles(r)
    <3>1. /\ run[r].pc = "files" /\ run'[r].pc = "artifacts" /\ run'[r].at = run[r].at
          /\ run'[r].out = run[r].out /\ run'[r].known = run[r].known /\ Others(r)
          /\ \A p \in run[r].out \cap Paths :
               row'[p] = [stage |-> run[r].at, content |-> run[r].files[p]]
          /\ \A p \in Paths \ run[r].out : row'[p] = row[p]
          /\ UNCHANGED <<status, stage, output>> /\ Done' = Done
      BY <2>8, SaveFilesIs DEF SameMemory, Done
    <3>2. ASSUME NEW p \in Paths, row'[p] # NoFile
          PROVE  \/ row'[p] = row[p] /\ row[p].stage < run[r].at
                 \/ /\ row'[p].stage = run[r].at /\ p \in run[r].out
                    /\ row'[p].content = run[r].known[run[r].at]
      <4>1. CASE p \in run[r].out
        <5>1. run[r].files[p] = run[r].known[run[r].at]
          BY <2>0, <3>1, <4>1 DEF Produces
        <5>2. row'[p] = [stage |-> run[r].at, content |-> run[r].files[p]]
          BY <3>1, <4>1
        <5> QED BY <4>1, <5>1, <5>2
      <4>2. CASE p \notin run[r].out
        BY <2>0, <3>1, <3>2, <4>2 DEF Produces
      <4> QED BY <4>1, <4>2
    <3>3. run[r].at \notin Done
      BY <2>0, <3>1 DEF Produces, Producing
    <3>4. DoneFilesAreOutput'
      BY <1>0, <3>1, <3>2, <3>3 DEF DoneFilesAreOutput
    <3>5. Produces(r)'
      BY <2>0, <3>1, <3>2 DEF Produces, Working, Begun, Answered, Producing
    <3> QED BY <2>2, <2>3, <3>1, <3>4, <3>5
  <2>9. CASE SaveArtifacts(r)
    <3>1. /\ run[r].pc = "artifacts" /\ run'[r].pc = "succeed" /\ run'[r].at = run[r].at
          /\ run'[r].out = run[r].out /\ run'[r].known = run[r].known /\ Others(r)
          /\ UNCHANGED <<status, stage, row, output>> /\ Done' = Done
      BY <2>9, SaveArtifactsIs DEF SameMemory, Done
    <3>2. DoneFilesAreOutput'
      BY <1>0, <3>1 DEF DoneFilesAreOutput
    <3>3. Produces(r)'
      BY <2>0, <3>1 DEF Produces, Working, Begun, Answered, Producing
    <3> QED BY <2>2, <2>3, <3>1, <3>2, <3>3
  <2>10. CASE SaveStage(r)
    <3>1. /\ run[r].pc = "succeed" /\ run[r].at \in Stages
          /\ run'[r].pc = "stage" /\ run'[r].at = run[r].at + 1 /\ Others(r)
          /\ Done' = Done \cup {run[r].at}
          /\ output'[run[r].at].files = run[r].out
          /\ output'[run[r].at].number = run[r].known[run[r].at]
          /\ \A s \in Stages \ {run[r].at} : output'[s] = output[s]
          /\ UNCHANGED <<status, row>>
      BY <2>10, SaveStageIs
    <3>2. ASSUME NEW p \in Paths, row[p] # NoFile, row[p].stage \in Done \cup {run[r].at}
          PROVE  /\ p \in output'[row[p].stage].files
                 /\ row[p].content = output'[row[p].stage].number
      <4>1. \/ row[p].stage < run[r].at
            \/ /\ row[p].stage = run[r].at /\ p \in run[r].out
               /\ row[p].content = run[r].known[run[r].at]
        BY <2>0, <3>1, <3>2 DEF Produces
      <4>2. CASE row[p].stage = run[r].at
        BY <2>0, <3>1, <4>1, <4>2
      <4>3. CASE row[p].stage # run[r].at
        BY <1>0, <1>00, <3>1, <3>2, <4>3 DEF DoneFilesAreOutput
      <4> QED BY <4>2, <4>3
    <3>3. DoneFilesAreOutput'
      BY <3>1, <3>2 DEF DoneFilesAreOutput
    <3>4. \A s \in Stages : s < run[r].at + 1 => s \in Done'
      BY <2>0, <3>1, StageNumbers DEF Produces, Working, Answered
    <3>5. \A p \in Paths : row[p] # NoFile => row[p].stage < run[r].at + 1
      BY <1>00, <2>0, <3>1, StageNumbers DEF Produces
    <3>6. Produces(r)'
      BY <3>1, <3>4, <3>5 DEF Produces, Working, Begun, Answered, Producing
    <3> QED BY <2>2, <2>3, <3>1, <3>3, <3>6
  <2>11. CASE StageFails(r) \/ InternalError(r) \/ CancelFound(r) \/ InterruptCancelled(r)
    <3>1. /\ run'[r].pc = "skip" /\ run'[r].outcome # "succeeded" /\ Others(r)
          /\ Done' = Done \/ Done' = Done \ {run[r].at}
          /\ UNCHANGED <<status, row, output>>
      BY <2>11, GivesUp
    <3>2. DoneFilesAreOutput'
      BY <1>0, <3>1 DEF DoneFilesAreOutput
    <3>3. Produces(r)'
      BY <3>1 DEF Produces, Working, Begun, Answered, Producing
    <3> QED BY <2>2, <2>3, <3>1, <3>2, <3>3
  <2>12. CASE SkipStages(r)
    <3>1. /\ run[r].pc = "skip" /\ run'[r].pc = "end" /\ Others(r)
          /\ run'[r].outcome = run[r].outcome /\ Done' = Done
          /\ UNCHANGED <<status, row, output>>
      BY <2>12, SkipsIs
    <3>2. DoneFilesAreOutput'
      BY <1>0, <3>1 DEF DoneFilesAreOutput
    <3>3. Produces(r)'
      BY <2>0, <3>1 DEF Produces, Working, Begun, Answered, Producing
    <3> QED BY <2>2, <2>3, <3>1, <3>2, <3>3
  <2>13. CASE RetryLater(r) \/ HandBack(r)
    <3>1. Requeue("running") /\ run' = [run EXCEPT ![r] = NoRun] /\ UNCHANGED output
      BY <2>13 DEF RetryLater, HandBack, history
    <3>2. status' = "queued"
      BY <3>1 DEF Requeue
    <3>3. DoneFilesAreOutput'
      BY <1>0, <3>1, RequeueKeepsOutput DEF JobStatus
    <3> QED BY <1>0, <2>1, <3>1, <3>2, <3>3, RunLeavesQuietly DEF DeliveryInv
  <2>14. CASE Crash(r) \/ HandBackInVain(r)
    <3>1. /\ run' = [run EXCEPT ![r] = NoRun]
          /\ UNCHANGED <<status, stage, row, output>> /\ Done' = Done
      BY <2>14 DEF Crash, HandBackInVain, disk, history, Done
    <3>2. DoneFilesAreOutput'
      BY <1>0, <3>1 DEF DoneFilesAreOutput
    <3> QED BY <1>0, <2>1, <2>2, <3>1, <3>2, RunLeavesQuietly DEF DeliveryInv
  <2>15. CASE End(r)
    <3>1. /\ run' = [run EXCEPT ![r] = NoRun] /\ status' = run[r].outcome
          /\ UNCHANGED <<stage, row, output>> /\ Done' = Done
      BY <2>2, <2>15 DEF End, disk, history, Done
    <3>2. DoneFilesAreOutput'
      BY <1>0, <3>1 DEF DoneFilesAreOutput
    <3>3. ASSUME status' = "succeeded" PROVE \A s \in Stages : s \in Done'
      <4>1. run[r].pc = "stage" /\ run[r].at = 6
        BY <2>0, <2>15, <3>1, <3>3, StageNumbers DEF End, Produces
      <4> QED BY <2>0, <3>1, <4>1, StageNumbers DEF Produces, Working, Begun
    <3> QED BY <1>0, <2>1, <3>1, <3>2, <3>3, RunLeavesQuietly DEF DeliveryInv
  <2> QED BY <1>1, <2>4, <2>5, <2>6, <2>7, <2>8, <2>9, <2>10, <2>11, <2>12, <2>13, <2>14, <2>15
         DEF RunStep, Interrupt
<1>2. ASSUME NEW r \in Runs, Claim(r) PROVE DeliveryInv'
  <2>1. /\ run' = [run EXCEPT ![r] = [NoRun EXCEPT !.pc = "load"]] /\ status' = "running"
        /\ status = "queued" /\ UNCHANGED <<stage, row, output>> /\ Done' = Done
    BY <1>2 DEF Claim, disk, history, Done
  <2>2. run'[r].pc = "load" /\ Others(r)
    BY <1>0, <2>1 DEF Others, NoRun
  <2>3. Produces(r)'
    BY <2>2 DEF Produces, Working, Begun, Answered, Producing
  <2>4. ASSUME NEW q \in Runs \ {r} PROVE Produces(q)'
    <3>1. run'[q].pc = "idle"
      BY <1>0, <2>1, <2>2 DEF Alone, Live, Others
    <3> QED BY <3>1 DEF Produces, Working, Begun, Answered, Producing
  <2>5. DoneFilesAreOutput'
    BY <1>0, <2>1 DEF DoneFilesAreOutput
  <2> QED BY <2>1, <2>3, <2>4, <2>5 DEF DeliveryInv
<1>3. CASE Reap \/ RetryFailed \/ CancelQueued \/ Upgrade
  <2>1. (\A q \in Runs : ~Live(q)) /\ UNCHANGED <<run, output>>
    BY <1>0, <1>3 DEF Reap, RetryFailed, Requeue, CancelQueued, Upgrade, Alone, history
  <2>2. \A q \in Runs : Produces(q)'
    BY <2>1, NobodyProduces
  <2>3. CASE RetryFailed
    <3>1. Requeue("failed") /\ status' = "queued"
      BY <2>3 DEF RetryFailed, Requeue
    <3>2. DoneFilesAreOutput'
      BY <1>0, <2>1, <3>1, RequeueKeepsOutput DEF JobStatus
    <3> QED BY <2>2, <3>1, <3>2 DEF DeliveryInv
  <2>4. CASE CancelQueued
    <3>1. Done' = {} /\ status' = "cancelled" /\ UNCHANGED row
      BY <2>4 DEF CancelQueued, Done
    <3> QED BY <2>1, <2>2, <3>1 DEF DeliveryInv, DoneFilesAreOutput
  <2>5. CASE Reap \/ Upgrade
    <3>1. /\ status' = status \/ status' = "failed"
          /\ UNCHANGED <<stage, row>> /\ Done' = Done
      BY <2>5 DEF Reap, Upgrade, disk, Done
    <3>2. DoneFilesAreOutput'
      BY <1>0, <2>1, <3>1 DEF DoneFilesAreOutput
    <3> QED BY <2>2, <3>1, <3>2 DEF DeliveryInv
  <2> QED BY <1>3, <2>3, <2>4, <2>5
<1>4. CASE ReapSkips \/ UNCHANGED vars
  <2>1. Done' = Done /\ UNCHANGED <<status, row, run, output>>
    BY <1>0, <1>4 DEF ReapSkips, SkipPending, Done, TypeOK, TableTypes, vars, disk, history
  <2>2. DoneFilesAreOutput'
    BY <1>0, <2>1 DEF DoneFilesAreOutput
  <2>3. \A r \in Runs : Produces(r)'
    BY <1>0, <2>1 DEF Produces
  <2> QED BY <2>1, <2>2, <2>3 DEF DeliveryInv
<1> QED
  BY <1>1, <1>2, <1>3, <1>4 DEF Next

LEMMA DeliveryInvariant ==
  ASSUME ~LateWorkers PROVE Spec => []DeliveryInv
<1>1. Init => DeliveryInv
  <2> SUFFICES ASSUME Init PROVE DeliveryInv
    OBVIOUS
  <2>1. \A r \in Runs : run[r].pc = "idle"
    BY NoRunType DEF Init
  <2> QED BY <2>1 DEF Init, DeliveryInv, DoneFilesAreOutput, Produces, Working, Begun, Answered,
          Producing
<1>2. TypeInv /\ CheckpointInv /\ DeliveryInv /\ [Next]_vars => DeliveryInv'
  BY StepDeliveryInv
<1> QED
  BY <1>1, <1>2, TypeInvariant, CheckpointInvariant, PTL DEF Spec

\* If no attempt outlives the reaper, nothing of an abandoned run of a stage is
\* delivered, whatever stops, retries, repairs and upgrades there were: every file
\* is from the run of its stage that succeeded.
THEOREM DeliveredFilesAreFresh ==
  ASSUME ~LateWorkers PROVE Spec => []NothingLeftOver
<1>1. TypeInv /\ DeliveryInv => NothingLeftOver
  BY DEF TypeInv, TypeOK, TableTypes, FileRows, DeliveryInv, DoneFilesAreOutput, NothingLeftOver
<1> QED
  BY <1>1, TypeInvariant, DeliveryInvariant, PTL


-----------------------------------------------------------------------------
(* What finished stages keep, when nothing makes them run again            *)

\* Finished stages are the first ones, their artifacts are there and accepted, and
\* the rows of their files are still theirs, or the review's, if no repair that did not
\* finish has taken them over.
FinishedInOrder == \A s, t \in Stages : s \in Done /\ t < s => t \in Done
FinishedRestorable == outdated = {} /\ \A s \in Inputs \cap Done : artifact[s] # 0
FinishedOwnRows ==
  \A s \in Done : \A p \in output[s].files \cap Paths :
    p \in moved \/ row[p].stage = s \/ row[p].stage \in Done \cap {Review}

\* An attempt is behind all finished stages, and what it is saving is what it returned.
Follows(r) ==
  /\ run[r].pc \in Working => \A s \in Stages : s \in Done <=> s < run[r].at
  /\ run[r].pc \in {"artifacts", "succeed"} =>
       \A p \in run[r].out \cap Paths : row[p].stage = run[r].at

KeptInv ==
  /\ upgrades = 0
  /\ FinishedInOrder
  /\ FinishedRestorable
  /\ FinishedOwnRows
  /\ \A r \in Runs : Follows(r)

LEMMA AloneFollows ==
  ASSUME TypeInv, Alone, NEW r \in Runs, Live(r), Others(r), Follows(r)'
  PROVE  \A q \in Runs : Follows(q)'
<1>1. ASSUME NEW q \in Runs \ {r} PROVE Follows(q)'
  <2>1. run'[q].pc = "idle"
    BY DEF Alone, Live, Others
  <2> QED BY <2>1 DEF Follows, Working, Begun, Answered
<1> QED
  BY <1>1

LEMMA RunLeavesInOrder ==
  ASSUME TypeInv, Alone, NEW r \in Runs, Live(r), run' = [run EXCEPT ![r] = NoRun]
  PROVE  \A q \in Runs : Follows(q)'
<1>1. run'[r] = NoRun /\ Others(r)
  BY DEF TypeInv, TypeOK, RunTypes, Others
<1>2. run'[r].pc = "idle"
  BY <1>1, NoRunType
<1>3. Follows(r)'
  BY <1>2 DEF Follows, Working, Begun, Answered
<1> QED
  BY <1>1, <1>3, AloneFollows

\* A stage owns paths of its own, the review aside.
LEMMA OwnedOnce ==
  ASSUME NEW s \in Stages, NEW t \in Stages, s # Review, t # Review, s # t
  PROVE  Owned(s) \cap Owned(t) = {}
  BY PathsAssumption DEF Owned, Stages, Analyze, Architect, Implement, DevOps, Review

LEMMA RequeueKeepsFinished ==
  ASSUME TypeInv, KeptInv, NEW from \in JobStatus, Requeue(from), UNCHANGED <<output, moved>>
  PROVE  FinishedInOrder' /\ FinishedRestorable' /\ FinishedOwnRows'
<1>1. /\ Done' = Done
      /\ \A p \in Paths : row'[p] = IF row[p].stage \in Done THEN row[p] ELSE NoFile
      /\ \A s \in Inputs \cap Done : artifact'[s] = artifact[s]
      /\ outdated' = outdated \cap Done
  BY RequeueIs
<1>2. ASSUME NEW s \in Done, NEW p \in output[s].files \cap Paths, p \notin moved
      PROVE  row'[p].stage = s \/ row'[p].stage \in Done \cap {Review}
  <2>1. row[p].stage = s \/ row[p].stage \in Done \cap {Review}
    BY <1>2 DEF KeptInv, FinishedOwnRows
  <2> QED BY <1>1, <2>1
<1> QED
  BY <1>1, <1>2 DEF KeptInv, FinishedInOrder, FinishedRestorable, FinishedOwnRows

\* An upgrade is never undone.
LEMMA UpgradesLast ==
  ASSUME TypeInv, [Next]_vars, upgrades' = 0
  PROVE  upgrades = 0
<1>1. upgrades \in Nat
  BY DEF TypeInv, TypeOK, CounterTypes
<1>2. CASE UNCHANGED upgrades
  BY <1>2
<1>3. CASE Upgrade
  BY <1>1, <1>3 DEF Upgrade
<1>4. CASE Reap \/ ReapSkips \/ RetryFailed \/ CancelQueued \/ UNCHANGED vars
  BY <1>4 DEF Reap, ReapSkips, RetryFailed, CancelQueued, vars, bounds
<1>5. ASSUME NEW r \in Runs, RunStep(r) PROVE UNCHANGED upgrades
  BY <1>5 DEF RunStep, Interrupt, Claim, Load, Restore, BeginStage, AgentReturns, SaveFiles,
              SaveArtifacts, SaveStage, StageFails, InternalError, RetryLater, CancelFound,
              SkipStages, End, HandBack, HandBackInVain, InterruptCancelled, Crash, bounds
<1> QED
  BY <1>2, <1>3, <1>4, <1>5 DEF Next

LEMMA StepKeptInv ==
  ASSUME ~LateWorkers, upgrades' = 0,
         TypeInv, InputsKnown, CheckpointInv, DeliveryInv, KeptInv, [Next]_vars
  PROVE  KeptInv'
<1>0. /\ TypeOK /\ ReturnWellFormed /\ Alone /\ \A r \in Runs : Remembers(r)
      /\ FinishedInOrder /\ FinishedRestorable /\ FinishedOwnRows
      /\ upgrades = 0 /\ \A r \in Runs : Follows(r)
      /\ run \in [Runs -> RunState]
  BY DEF TypeInv, TypeOK, RunTypes, CheckpointInv, KeptInv
<1>1. ASSUME NEW r \in Runs, RunStep(r), ~Claim(r) PROVE KeptInv'
  <2>0. /\ run[r] \in RunState /\ run[r].at \in 1..6 /\ Follows(r) /\ Remembers(r) /\ Produces(r)
    BY <1>0, StageNumbers DEF RunState, DeliveryInv
  <2>1. Live(r)
    BY <1>1 DEF RunStep, Interrupt, Live, Load, Restore, BeginStage, AgentReturns, SaveFiles,
                SaveArtifacts,
                SaveStage, StageFails, InternalError, RetryLater, CancelFound, SkipStages, End,
                HandBack, HandBackInVain, InterruptCancelled, Crash
  <2>2. ASSUME UNCHANGED <<outdated, artifact, row, output, moved, upgrades>>, Done' = Done
        PROVE  upgrades' = 0 /\ FinishedInOrder' /\ FinishedRestorable' /\ FinishedOwnRows'
    BY <1>0, <2>2 DEF FinishedInOrder, FinishedRestorable, FinishedOwnRows
  <2>3. ASSUME Others(r), Follows(r)', upgrades' = 0, FinishedInOrder', FinishedRestorable',
               FinishedOwnRows'
        PROVE  KeptInv'
    BY <1>0, <2>1, <2>3, AloneFollows DEF KeptInv
  <2>4. CASE Load(r)
    <3>1. /\ run[r].pc = "load" /\ run'[r].at \in 1..6 /\ Others(r)
          /\ run'[r].pc = IF Done = {} THEN "stage" ELSE "restore"
          /\ \A s \in 1..run'[r].at - 1 : Restorable(s)
          /\ run'[r].at \in Stages => ~Restorable(run'[r].at)
          /\ UNCHANGED <<disk, output, moved, upgrades>> /\ Done' = Done
      BY <2>4, LoadIs DEF disk, Done
    <3>2. \A s \in Stages : s < run'[r].at => s \in Done
      BY <3>1, StageNumbers DEF Restorable, Done
    <3>3. run'[r].at \in Stages => run'[r].at \notin Done
      BY <1>0, <3>1 DEF Restorable, FinishedRestorable, Done
    <3>4. \A s \in Stages : s \in Done => s < run'[r].at
      BY <1>0, <3>1, <3>3, StageNumbers DEF FinishedInOrder
    <3>5. Follows(r)'
      BY <3>1, <3>2, <3>4 DEF Follows, Working, Begun, Answered
    <3> QED BY <2>2, <2>3, <3>1, <3>5 DEF disk
  <2>5. CASE Restore(r)
    <3>1. /\ run[r].pc = "restore" /\ run'[r].pc = "stage" /\ run'[r].at = run[r].at /\ Others(r)
          /\ \A p \in Paths :
               row'[p] = IF row[p].stage \in 1..run[r].at - 1 THEN row[p] ELSE NoFile
          /\ UNCHANGED <<artifact, outdated, output, moved, upgrades>> /\ Done' = Done
      BY <2>5, RestoreIs DEF SameAt, Done
    <3>2. \A s \in Done : s \in 1..run[r].at - 1
      BY <2>0, <3>1, StageNumbers DEF Follows, Working, Begun, Done
    <3>3. FinishedOwnRows'
      BY <1>0, <3>1, <3>2 DEF FinishedOwnRows
    <3>4. FinishedInOrder' /\ FinishedRestorable' /\ Follows(r)'
      BY <1>0, <2>0, <3>1 DEF FinishedInOrder, FinishedRestorable, Follows, Working, Begun
    <3> QED BY <1>0, <2>3, <3>1, <3>3, <3>4
  <2>6. CASE BeginStage(r)
    <3>1. /\ run[r].pc = "stage" /\ run[r].at \in Stages
          /\ run'[r].pc = "agent" /\ run'[r].at = run[r].at /\ Others(r)
          /\ Done' = Done \ {run[r].at}
          /\ UNCHANGED <<artifact, outdated, row, output, moved, upgrades>>
      BY <2>6, BeginIs DEF SameMemory
    <3>2. Done' = Done
      BY <2>0, <3>1 DEF Follows, Working, Begun
    <3>3. Follows(r)'
      BY <2>0, <3>1, <3>2 DEF Follows, Working, Begun
    <3> QED BY <2>2, <2>3, <3>1, <3>2, <3>3
  <2>7. CASE AgentReturns(r)
    <3>1. /\ run[r].pc = "agent" /\ run'[r].pc = "files" /\ run'[r].at = run[r].at /\ Others(r)
          /\ UNCHANGED <<disk, output, moved, upgrades>> /\ Done' = Done
      BY <2>7, ReturnsIs DEF SameAt, Done, disk
    <3>2. Follows(r)'
      BY <2>0, <3>1 DEF Follows, Working, Begun, Answered
    <3> QED BY <2>2, <2>3, <3>1, <3>2 DEF disk
  <2>8. CASE SaveFiles(r)
    <3>1. /\ run[r].pc = "files" /\ run'[r].pc = "artifacts" /\ run'[r].at = run[r].at
          /\ run'[r].out = run[r].out /\ Others(r)
          /\ \A p \in run[r].out \cap Paths :
               row'[p] = [stage |-> run[r].at, content |-> run[r].files[p]]
          /\ \A p \in Paths \ run[r].out : row'[p] = row[p]
          /\ moved' = IF run[r].at = Review THEN moved \cup run[r].out ELSE moved
          /\ UNCHANGED <<artifact, outdated, output, upgrades>> /\ Done' = Done
      BY <2>8, SaveFilesIs DEF SameMemory, Done
    <3>2. \A p \in run[r].out \cap Paths : row'[p].stage = run[r].at
      <4>1. ASSUME NEW p \in run[r].out \cap Paths PROVE row'[p].stage = run[r].at
        <5>1. row'[p] = [stage |-> run[r].at, content |-> run[r].files[p]]
          BY <3>1
        <5> QED BY <5>1
      <4> QED BY <4>1
    <3>3. ASSUME NEW s \in Done, NEW p \in output[s].files \cap Paths,
                 p \notin moved'
          PROVE  row'[p].stage = s \/ row'[p].stage \in Done \cap {Review}
      <4>1. /\ p \notin moved /\ (run[r].at = Review => p \notin run[r].out)
        BY <3>1, <3>3
      <4>2. row[p].stage = s \/ row[p].stage \in Done \cap {Review}
        BY <1>0, <4>1 DEF FinishedOwnRows
      <4>3. s \in Stages /\ s < run[r].at /\ run[r].at \in Stages
        BY <1>0, <2>0, <3>1 DEF Follows, Working, Answered, Done, TypeOK, RunTypes
      <4>4. s # Review /\ Review \notin Done
        BY <2>0, <3>1, <4>3, StageNumbers DEF Follows, Working, Answered
      <4>5. row[p].stage = s /\ p \in Owned(s)
        BY <1>0, <4>2, <4>3, <4>4, StageNumbers DEF TypeOK, TableTypes, NoFile
      <4>6. ASSUME p \in run[r].out PROVE FALSE
        <5>1. run[r].at # Review /\ p \in Owned(run[r].at)
          BY <1>0, <3>1, <4>1, <4>6 DEF ReturnWellFormed
        <5> QED BY <4>3, <4>4, <4>5, <5>1, <2>0, OwnedOnce
      <4> QED BY <3>1, <4>5, <4>6
    <3>4. FinishedOwnRows'
      BY <3>1, <3>3 DEF FinishedOwnRows
    <3>5. FinishedInOrder' /\ FinishedRestorable'
      BY <1>0, <3>1 DEF FinishedInOrder, FinishedRestorable
    <3>6. Follows(r)'
      BY <2>0, <3>1, <3>2 DEF Follows, Working, Begun, Answered
    <3> QED BY <1>0, <2>3, <3>1, <3>4, <3>5, <3>6
  <2>9. CASE SaveArtifacts(r)
    <3>1. /\ run[r].pc = "artifacts" /\ run'[r].pc = "succeed" /\ run'[r].at = run[r].at
          /\ run'[r].out = run[r].out /\ Others(r)
          /\ \A s \in Stages : artifact'[s] = IF s = run[r].at /\ s \in HasArtifact
                                              THEN run[r].known[s] ELSE artifact[s]
          /\ outdated' = outdated \ {run[r].at}
          /\ UNCHANGED <<row, output, moved, upgrades>> /\ Done' = Done
      BY <2>9, SaveArtifactsIs DEF SameMemory, Done
    <3>2. \A s \in Inputs : s = run[r].at => run[r].known[s] # 0
      BY <2>0, <3>1 DEF InputsKnown, Answered
    <3>3. \A s \in Inputs : artifact'[s] = artifact[s] \/ artifact'[s] # 0
      BY <3>1, <3>2, StageNumbers
    <3>4. FinishedRestorable'
      BY <1>0, <3>1, <3>3 DEF FinishedRestorable
    <3>5. FinishedInOrder' /\ FinishedOwnRows' /\ Follows(r)'
      BY <1>0, <2>0, <3>1 DEF FinishedInOrder, FinishedOwnRows, Follows, Working, Begun, Answered
    <3> QED BY <1>0, <2>3, <3>1, <3>4, <3>5
  <2>10. CASE SaveStage(r)
    <3>1. /\ run[r].pc = "succeed" /\ run[r].at \in Stages
          /\ run'[r].pc = "stage" /\ run'[r].at = run[r].at + 1 /\ Others(r)
          /\ Done' = Done \cup {run[r].at}
          /\ output'[run[r].at].files = run[r].out
          /\ \A s \in Stages \ {run[r].at} : output'[s] = output[s]
          /\ moved' = IF run[r].at = Review THEN moved \ run[r].out ELSE moved
          /\ UNCHANGED <<artifact, outdated, row, upgrades>>
      BY <2>10, SaveStageIs
    <3>2. \A s \in Stages : s \in Done <=> s < run[r].at
      BY <2>0, <3>1 DEF Follows, Working, Answered
    <3>3. \A s \in Stages : s \in Done' <=> s < run[r].at + 1
      BY <2>0, <3>1, <3>2, StageNumbers
    <3>4. FinishedInOrder' /\ Follows(r)'
      BY <2>0, <3>1, <3>3, StageNumbers DEF FinishedInOrder, Follows, Working, Begun, Answered
    <3>5. FinishedRestorable'
      <4>1. ASSUME NEW s \in Inputs, s = run[r].at PROVE artifact[s] # 0
        <5>1. run[r].known[s] # 0
          BY <2>0, <3>1, <4>1 DEF InputsKnown, Answered
        <5>2. run[r].known[s] = artifact[s]
          BY <2>0, <3>1, <4>1 DEF Remembers
        <5> QED BY <5>1, <5>2
      <4> QED BY <1>0, <3>1, <4>1 DEF FinishedRestorable
    <3>6. FinishedOwnRows'
      <4>1. ASSUME NEW s \in Done', NEW p \in output'[s].files \cap Paths, p \notin moved'
            PROVE  row[p].stage = s \/ row[p].stage \in Done' \cap {Review}
        <5>1. CASE s = run[r].at
          BY <2>0, <3>1, <4>1, <5>1 DEF Follows
        <5>2. CASE s # run[r].at /\ p \in moved
          <6>1. run[r].at = Review /\ p \in run[r].out
            BY <3>1, <4>1, <5>2
          <6> QED BY <2>0, <3>1, <6>1 DEF Follows
        <5>3. CASE s # run[r].at /\ p \notin moved
          <6>1. s \in Done /\ s \in Stages
            BY <3>1, <4>1, <5>3 DEF Done
          <6> QED BY <1>0, <3>1, <4>1, <5>3, <6>1 DEF FinishedOwnRows
        <5> QED BY <5>1, <5>2, <5>3
      <4> QED BY <3>1, <4>1 DEF FinishedOwnRows
    <3> QED BY <1>0, <2>3, <3>1, <3>4, <3>5, <3>6
  <2>11. CASE StageFails(r) \/ InternalError(r) \/ CancelFound(r) \/ InterruptCancelled(r)
    <3>1. /\ run'[r].pc = "skip" /\ Others(r)
          /\ Done' = Done \/ (run[r].pc = "agent" /\ Done' = Done \ {run[r].at})
          /\ UNCHANGED <<artifact, outdated, row, output, moved, upgrades>>
      BY <2>11, GivesUp
    <3>2. Done' = Done
      BY <2>0, <3>1 DEF Follows, Working, Begun, Done
    <3>3. Follows(r)'
      BY <3>1 DEF Follows, Working, Begun, Answered
    <3> QED BY <2>2, <2>3, <3>1, <3>2, <3>3
  <2>12. CASE SkipStages(r)
    <3>1. /\ run'[r].pc = "end" /\ Others(r) /\ Done' = Done
          /\ UNCHANGED <<artifact, outdated, row, output, moved, upgrades>>
      BY <2>12, SkipsIs
    <3>2. Follows(r)'
      BY <3>1 DEF Follows, Working, Begun, Answered
    <3> QED BY <2>2, <2>3, <3>1, <3>2
  <2>13. CASE RetryLater(r) \/ HandBack(r)
    <3>1. /\ Requeue("running") /\ run' = [run EXCEPT ![r] = NoRun]
          /\ UNCHANGED <<output, moved, upgrades>>
      BY <2>13 DEF RetryLater, HandBack, history
    <3>2. FinishedInOrder' /\ FinishedRestorable' /\ FinishedOwnRows'
      BY <3>1, RequeueKeepsFinished DEF JobStatus
    <3> QED BY <1>0, <2>1, <3>1, <3>2, RunLeavesInOrder DEF KeptInv
  <2>14. CASE Crash(r) \/ HandBackInVain(r) \/ End(r)
    <3>1. /\ run' = [run EXCEPT ![r] = NoRun]
          /\ UNCHANGED <<artifact, outdated, row, output, moved, upgrades>> /\ Done' = Done
      BY <2>14 DEF Crash, HandBackInVain, End, disk, history, bounds, Done
    <3> QED BY <1>0, <2>1, <2>2, <3>1, RunLeavesInOrder DEF KeptInv
  <2> QED BY <1>1, <2>4, <2>5, <2>6, <2>7, <2>8, <2>9, <2>10, <2>11, <2>12, <2>13, <2>14
         DEF RunStep, Interrupt
<1>2. ASSUME NEW r \in Runs, Claim(r) PROVE KeptInv'
  <2>1. /\ run' = [run EXCEPT ![r] = [NoRun EXCEPT !.pc = "load"]] /\ status = "queued"
        /\ UNCHANGED <<artifact, outdated, row, output, moved, upgrades>> /\ Done' = Done
    BY <1>2 DEF Claim, disk, history, bounds, Done
  <2>2. run'[r].pc = "load" /\ Others(r)
    BY <1>0, <2>1 DEF Others, NoRun
  <2>3. Follows(r)'
    BY <2>2 DEF Follows, Working, Begun, Answered
  <2>4. ASSUME NEW q \in Runs \ {r} PROVE Follows(q)'
    <3>1. run'[q].pc = "idle"
      BY <1>0, <2>1, <2>2 DEF Alone, Live, Others
    <3> QED BY <3>1 DEF Follows, Working, Begun, Answered
  <2>5. FinishedInOrder' /\ FinishedRestorable' /\ FinishedOwnRows'
    BY <1>0, <2>1 DEF FinishedInOrder, FinishedRestorable, FinishedOwnRows
  <2> QED BY <1>0, <2>1, <2>3, <2>4, <2>5 DEF KeptInv
<1>3. CASE Reap \/ RetryFailed \/ CancelQueued
  <2>1. (\A q \in Runs : ~Live(q)) /\ UNCHANGED <<run, output, moved, upgrades>>
    BY <1>0, <1>3 DEF Reap, RetryFailed, Requeue, CancelQueued, Alone, history, bounds
  <2>2. \A q \in Runs : Follows(q)'
    BY <2>1 DEF Live, Follows, Working, Begun, Answered
  <2>3. CASE RetryFailed
    <3>1. FinishedInOrder' /\ FinishedRestorable' /\ FinishedOwnRows'
      BY <2>1, <2>3, RequeueKeepsFinished DEF RetryFailed, JobStatus
    <3> QED BY <1>0, <2>1, <2>2, <3>1 DEF KeptInv
  <2>4. CASE CancelQueued
    <3>1. Done' = {} /\ UNCHANGED outdated
      BY <2>4 DEF CancelQueued, Done
    <3> QED BY <1>0, <2>1, <2>2, <3>1
            DEF KeptInv, FinishedInOrder, FinishedRestorable, FinishedOwnRows
  <2>5. CASE Reap
    <3>1. UNCHANGED <<artifact, outdated, row>> /\ Done' = Done
      BY <2>5 DEF Reap, disk, Done
    <3> QED BY <1>0, <2>1, <2>2, <3>1
            DEF KeptInv, FinishedInOrder, FinishedRestorable, FinishedOwnRows
  <2> QED BY <1>3, <2>3, <2>4, <2>5
<1>4. ASSUME Upgrade PROVE FALSE
  BY <1>0, <1>4 DEF Upgrade
<1>5. CASE ReapSkips \/ UNCHANGED vars
  <2>1. Done' = Done /\ UNCHANGED <<artifact, outdated, row, run, output, moved, upgrades>>
    BY <1>0, <1>5
       DEF ReapSkips, SkipPending, Done, TypeOK, TableTypes, vars, disk, history, bounds
  <2>2. FinishedInOrder' /\ FinishedRestorable' /\ FinishedOwnRows'
    BY <1>0, <2>1 DEF FinishedInOrder, FinishedRestorable, FinishedOwnRows
  <2>3. \A r \in Runs : Follows(r)'
    BY <1>0, <2>1 DEF Follows
  <2> QED BY <1>0, <2>1, <2>2, <2>3 DEF KeptInv
<1> QED
  BY <1>1, <1>2, <1>3, <1>4, <1>5 DEF Next

\* If no attempt outlives the reaper, and until an upgrade outdates an artifact, a finished
\* stage loses a file only to a repair whose review did not finish, whatever stops,
\* retries and repairs there were, and a delivered project misses no other file.
THEOREM FinishedStagesKeepTheirFiles ==
  ASSUME ~LateWorkers
  PROVE  Spec => []StagesKeepTheirFiles
<1>1. Init => KeptInv
  <2> SUFFICES ASSUME Init PROVE KeptInv
    OBVIOUS
  <2>1. (\A r \in Runs : run[r].pc = "idle") /\ Done = {}
    BY NoRunType DEF Init, Done
  <2> QED BY <2>1 DEF Init, KeptInv, FinishedInOrder, FinishedRestorable, FinishedOwnRows,
          Follows, Working, Begun, Answered
<1>2. Init => InputsKnown
  BY NoRunType DEF Init, InputsKnown, Begun, Answered
<1>3. TypeInv /\ InputsKnown /\ [Next]_vars => InputsKnown'
  BY StepInputsKnown
<1>4. /\ TypeInv /\ InputsKnown /\ CheckpointInv /\ DeliveryInv /\ (upgrades = 0 => KeptInv)
      /\ [Next]_vars
      => (upgrades = 0 => KeptInv)'
  BY StepKeptInv, UpgradesLast
<1>5. TypeInv /\ DeliveryInv /\ (upgrades = 0 => KeptInv) => StagesKeepTheirFiles
  <2> SUFFICES ASSUME TypeInv, DeliveryInv, KeptInv, upgrades = 0 PROVE StagesKeepTheirFiles
    BY DEF StagesKeepTheirFiles
  <2>1. ASSUME NEW s \in Done, NEW p \in Lost(s) PROVE p \in moved
    <3>1. s \in Stages /\ p \in Paths /\ p \in output[s].files /\ row[p] = NoFile
      BY DEF Done, Lost, TypeInv, TypeOK, CounterTypes
    <3>2. row[p].stage = 0 /\ s # 0 /\ Review # 0
      BY <3>1, StageNumbers DEF NoFile
    <3> QED BY <3>1, <3>2 DEF KeptInv, FinishedOwnRows
  <2> QED BY <2>1 DEF StagesKeepTheirFiles, DeliveryInv
<1> QED
  BY <1>1, <1>2, <1>3, <1>4, <1>5, TypeInvariant, CheckpointInvariant, DeliveryInvariant, PTL
     DEF Spec
=============================================================================
