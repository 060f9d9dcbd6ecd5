---------------------------- MODULE Budget_proofs ----------------------------
(***************************************************************************)
(* Theorems about the token budget, for any number of jobs, attempts and   *)
(* periods, and any limit, reservation and size of a call.                 *)
(***************************************************************************)
EXTENDS Budget, FiniteSetTheorems, TLAPS

-----------------------------------------------------------------------------
(* Numbers                                                                 *)

LEMMA LessIsNat ==
  ASSUME NEW n \in Nat, NEW amount \in Nat
  PROVE  Less(n, amount) \in Nat /\ Less(n, amount) <= n
  BY DEF Less

LEMMA AtMostIsNat ==
  ASSUME NEW m \in Nat, NEW n \in Nat
  PROVE  AtMost(m, n) \in Nat /\ AtMost(m, n) <= m /\ AtMost(m, n) <= n
  BY DEF AtMost

LEMMA AmountIsPositive == Amount \in Nat \ {0}
  BY TokensAssumption DEF Amount, AtLeast, AtMost

LEMMA FirstPeriod == 1 \in Periods
  BY PeriodsAssumption DEF Periods

-----------------------------------------------------------------------------
(* What one step does to the attempts                                      *)

LEMMA NoRunType == NoRun \in RunState /\ NoRun.pc = "idle"
  BY FirstPeriod DEF NoRun, RunState, RunPC

LEMMA GotoEffect ==
  ASSUME RunTypes, NEW r \in Runs, NEW pc \in RunPC, Goto(r, pc)
  PROVE  /\ run'[r] = [run[r] EXCEPT !.pc = pc]
         /\ \A s \in Runs \ {r} : run'[s] = run[s]
         /\ run' \in [Runs -> RunState]
  BY DEF RunTypes, RunState, Goto

\* What Goto leaves alone.
LEMMA GotoFields ==
  ASSUME RunTypes, NEW r \in Runs, NEW pc \in RunPC, Goto(r, pc)
  PROVE  /\ run' \in [Runs -> RunState]
         /\ run'[r].job = run[r].job /\ run'[r].period = run[r].period
         /\ run'[r].reserved = run[r].reserved
         /\ \A s \in Runs \ {r} : run'[s] = run[s]
<1>1. run[r] \in RunState
  BY DEF RunTypes
<1>2. run'[r] = [run[r] EXCEPT !.pc = pc]
  BY GotoEffect
<1>3. /\ run'[r].job = run[r].job /\ run'[r].period = run[r].period
      /\ run'[r].reserved = run[r].reserved
  BY <1>1, <1>2 DEF RunState
<1> QED
  BY <1>3, GotoEffect

LEMMA RunCleared ==
  ASSUME RunTypes, NEW r \in Runs, run' = [run EXCEPT ![r] = NoRun]
  PROVE  /\ run'[r] = NoRun
         /\ \A s \in Runs \ {r} : run'[s] = run[s]
         /\ run' \in [Runs -> RunState]
  BY NoRunType DEF RunTypes

-----------------------------------------------------------------------------
(* Type correctness                                                        *)

LEMMA InitTypeOK == Init => TypeOK
<1> SUFFICES ASSUME Init PROVE TypeOK
  OBVIOUS
<1>1. LedgerTypes
  BY FirstPeriod DEF Init, LedgerTypes
<1>2. JobTypes
  BY FirstPeriod DEF Init, JobTypes, JobStatus
<1>3. RunTypes
  BY NoRunType DEF Init, RunTypes, Live
<1> QED
  BY <1>1, <1>2, <1>3 DEF TypeOK

LEMMA ReleaseTypes ==
  ASSUME TypeOK, NEW j \in Jobs, Release(j)
  PROVE  /\ reserved' \in [Periods -> Nat]
         /\ held' \in [Jobs -> Nat]
         /\ \A p \in Periods : reserved'[p] <= reserved[p]
<1>1. held[j] \in Nat /\ period[j] \in Periods /\ reserved \in [Periods -> Nat]
      /\ held \in [Jobs -> Nat]
  BY DEF TypeOK, LedgerTypes, JobTypes
<1>2. reserved[period[j]] \in Nat
  BY <1>1
<1>3. /\ Less(reserved[period[j]], held[j]) \in Nat
      /\ Less(reserved[period[j]], held[j]) <= reserved[period[j]]
  BY <1>1, <1>2, LessIsNat
<1>4. /\ reserved' = [reserved EXCEPT ![period[j]] = Less(reserved[period[j]], held[j])]
      /\ held' = [held EXCEPT ![j] = 0]
  BY DEF Release
<1>5. ASSUME NEW p \in Periods PROVE reserved'[p] \in Nat /\ reserved'[p] <= reserved[p]
  BY <1>1, <1>3, <1>4
<1> QED
  BY <1>1, <1>4, <1>5

LEMMA AdmitTypes ==
  ASSUME TypeOK, NEW j \in Jobs, Admit(j)
  PROVE  /\ reserved' \in [Periods -> Nat]
         /\ charged' \in [Periods -> SUBSET Jobs]
         /\ period' \in [Jobs -> Periods]
         /\ held' \in [Jobs -> Nat]
         /\ status' \in [Jobs -> JobStatus]
  BY AmountIsPositive DEF TypeOK, LedgerTypes, JobTypes, Admit, JobStatus, Active

LEMMA LeaveTypes ==
  ASSUME TypeOK, NEW r \in Runs, NEW next \in {"succeeded", "failed", "cancelled", "queued"},
         Live(r), Leave(r, next)
  PROVE  /\ reserved' \in [Periods -> Nat]
         /\ held' \in [Jobs -> Nat]
         /\ status' \in [Jobs -> JobStatus]
         /\ \A p \in Periods : reserved'[p] <= reserved[p]
<1>0. /\ reserved \in [Periods -> Nat] /\ held \in [Jobs -> Nat]
      /\ status \in [Jobs -> JobStatus]
  BY DEF TypeOK, LedgerTypes, JobTypes
<1>1. PICK j \in Jobs : j = run[r].job
  BY DEF TypeOK, RunTypes
<1>2. CASE status[j] = "running"
  <2>1. status' = [status EXCEPT ![j] = next]
    BY <1>1, <1>2 DEF Leave
  <2>2. status' \in [Jobs -> JobStatus]
    BY <1>0, <2>1 DEF JobStatus, Active, Ended
  <2>3. CASE next \in Ended
    <3>1. Release(j)
      BY <1>1, <1>2, <2>3 DEF Leave
    <3> QED BY <2>2, <3>1, ReleaseTypes
  <2>4. CASE next \notin Ended
    <3>1. UNCHANGED <<reserved, held>>
      BY <1>1, <1>2, <2>4 DEF Leave
    <3> QED BY <1>0, <2>2, <3>1
  <2> QED BY <2>3, <2>4
<1>3. CASE status[j] # "running"
  <2>1. UNCHANGED <<status, reserved, held>>
    BY <1>1, <1>3 DEF Leave
  <2> QED BY <1>0, <2>1
<1> QED
  BY <1>2, <1>3

LEMMA AfterCallTypes ==
  ASSUME TypeOK, NEW r \in Runs, AfterCall(r)
  PROVE  /\ used' \in [Periods -> Nat]
         /\ reserved' \in [Periods -> Nat]
         /\ held' \in [Jobs -> Nat]
         /\ run' \in [Runs -> RunState]
         /\ run'[r].job = run[r].job
         /\ \A s \in Runs \ {r} : run'[s] = run[s]
         /\ \A p \in Periods : reserved'[p] <= reserved[p]
<1> DEFINE p == run[r].period
           j == run[r].job
           c == AtMost(run[r].usage, run[r].reserved)
<1>1. /\ p \in Periods /\ j \in Jobs /\ run[r] \in RunState
      /\ run[r].usage \in Nat /\ run[r].reserved \in Nat
  BY DEF TypeOK, RunTypes, RunState, AfterCall, Live
<1>2. c \in Nat /\ c <= run[r].reserved
  BY <1>1, AtMostIsNat
<1>3. /\ used \in [Periods -> Nat] /\ reserved \in [Periods -> Nat] /\ held \in [Jobs -> Nat]
      /\ run \in [Runs -> RunState]
  BY DEF TypeOK, LedgerTypes, JobTypes, RunTypes
<1>4. used[p] \in Nat /\ reserved[p] \in Nat /\ held[j] \in Nat
  BY <1>1, <1>3
<1>5. /\ Less(reserved[p], c) \in Nat /\ Less(reserved[p], c) <= reserved[p]
      /\ Less(held[j], c) \in Nat
  BY <1>2, <1>4, LessIsNat
<1>6. /\ used' = [used EXCEPT ![p] = used[p] + run[r].usage]
      /\ reserved' = [reserved EXCEPT ![p] = Less(reserved[p], c)]
      /\ held' = [held EXCEPT ![j] = Less(held[j], c)]
      /\ run' = [run EXCEPT ![r].pc = "ready", ![r].usage = 0,
                            ![r].reserved = run[r].reserved - c]
  BY DEF AfterCall
<1> HIDE DEF p, j, c
<1>7. used' \in [Periods -> Nat]
  BY <1>1, <1>3, <1>4, <1>6
<1>8. reserved' \in [Periods -> Nat] /\ \A q \in Periods : reserved'[q] <= reserved[q]
  BY <1>1, <1>3, <1>5, <1>6
<1>9. held' \in [Jobs -> Nat]
  BY <1>1, <1>3, <1>5, <1>6
<1>10. run[r].reserved - c \in Nat
  BY <1>1, <1>2
<1>11. /\ run' \in [Runs -> RunState] /\ run'[r].job = run[r].job
       /\ \A s \in Runs \ {r} : run'[s] = run[s]
  <2> DEFINE new == [run[r] EXCEPT !.pc = "ready", !.usage = 0, !.reserved = run[r].reserved - c]
  <2>1. new \in RunState /\ new.job = run[r].job
    BY <1>1, <1>10 DEF RunState, RunPC
  <2>2. run' = [run EXCEPT ![r] = new]
    BY <1>3, <1>6
  <2> HIDE DEF new
  <2> QED BY <1>3, <2>1, <2>2
<1> QED
  BY <1>7, <1>8, <1>9, <1>11

LEMMA TopUpTypes ==
  ASSUME TypeOK, NEW r \in Runs, TopUp(r)
  PROVE  /\ reserved' \in [Periods -> Nat]
         /\ held' \in [Jobs -> Nat]
         /\ run' \in [Runs -> RunState]
         /\ run'[r].job = run[r].job
         /\ \A s \in Runs \ {r} : run'[s] = run[s]
<1>0. /\ reserved \in [Periods -> Nat] /\ held \in [Jobs -> Nat] /\ run \in [Runs -> RunState]
      /\ RunTypes
  BY DEF TypeOK, LedgerTypes, JobTypes, RunTypes
<1>1. CASE Fits(run[r].period)
  <2>1. Extend(r)
    BY <1>1 DEF TopUp
  <2>a. Amount \in Nat
    BY AmountIsPositive
  <2>b. \A p \in Periods : reserved[p] + Amount \in Nat
    BY <1>0, <2>a
  <2>c. \A j \in Jobs : held[j] + Amount \in Nat
    BY <1>0, <2>a
  <2>2. reserved' \in [Periods -> Nat]
    <3>1. reserved' = [reserved EXCEPT ![run[r].period] = reserved[run[r].period] + Amount]
      BY <2>1 DEF Extend
    <3>2. run[r].period \in Periods
      BY <1>0 DEF RunState
    <3> QED BY <1>0, <2>b, <3>1, <3>2
  <2>3. held' \in [Jobs -> Nat]
    <3>1. PICK j \in Jobs : j = run[r].job
      BY <1>0 DEF RunTypes, TopUp, Live
    <3>2. held' = held \/ held' = [held EXCEPT ![j] = held[j] + Amount]
      BY <2>1, <3>1 DEF Extend
    <3> QED BY <1>0, <2>c, <3>1, <3>2
  <2>4. /\ run' \in [Runs -> RunState] /\ run'[r].job = run[r].job
        /\ \A s \in Runs \ {r} : run'[s] = run[s]
    <3>1. run' = [run EXCEPT ![r].pc = "calling", ![r].reserved = run[r].reserved + Amount]
      BY <2>1 DEF Extend
    <3>2. run[r].reserved + Amount \in Nat
      BY <1>0, <2>a DEF RunState
    <3> DEFINE new == [run[r] EXCEPT !.pc = "calling", !.reserved = run[r].reserved + Amount]
    <3>3. run[r] \in RunState
      BY <1>0
    <3>4. new \in RunState /\ new.job = run[r].job
      BY <3>2, <3>3 DEF RunState, RunPC
    <3>5. run' = [run EXCEPT ![r] = new]
      BY <1>0, <3>1
    <3> HIDE DEF new
    <3> QED BY <1>0, <3>4, <3>5
  <2> QED BY <2>2, <2>3, <2>4
<1>2. CASE ~Fits(run[r].period)
  <2>1. Goto(r, "error") /\ UNCHANGED <<reserved, held>>
    BY <1>2 DEF TopUp
  <2>2. /\ run' \in [Runs -> RunState] /\ run'[r].job = run[r].job
        /\ \A s \in Runs \ {r} : run'[s] = run[s]
    BY <1>0, <2>1, GotoFields DEF RunPC
  <2> QED BY <1>0, <2>1, <2>2
<1> QED
  BY <1>1, <1>2

LEMMA ClaimEffect ==
  ASSUME RunTypes, NEW r \in Runs, NEW j \in Jobs, Claim(r, j)
  PROVE  /\ run' \in [Runs -> RunState]
         /\ run'[r].job = j /\ run'[r].pc = "load"
         /\ \A s \in Runs \ {r} : run'[s] = run[s]
  BY NoRunType DEF RunTypes, RunState, RunPC, Claim

LEMMA RunFilled ==
  ASSUME run \in [Runs -> RunState], NEW r \in Runs,
         NEW p \in Periods, NEW n \in Nat, NEW t \in Nat,
         run' = [run EXCEPT ![r].pc = "stage", ![r].period = p, ![r].reserved = n, ![r].total = t]
  PROVE  /\ run' \in [Runs -> RunState]
         /\ run'[r].job = run[r].job /\ run'[r].pc = "stage"
         /\ run'[r].period = p /\ run'[r].reserved = n
         /\ \A s \in Runs \ {r} : run'[s] = run[s]
<1>1. run[r] \in RunState
  OBVIOUS
<1>2. /\ run'[r].job = run[r].job /\ run'[r].pc = "stage"
      /\ run'[r].period = p /\ run'[r].reserved = n
      /\ run'[r].usage = run[r].usage /\ run'[r].total = t
      /\ DOMAIN run'[r] = DOMAIN run[r]
  BY <1>1 DEF RunState
<1>3. /\ \A s \in Runs \ {r} : run'[s] = run[s]
      /\ DOMAIN run' = Runs
  OBVIOUS
<1>4. run'[r] \in RunState
  BY <1>1, <1>2 DEF RunState, RunPC
<1> QED
  BY <1>2, <1>3, <1>4

LEMMA LoadEffect ==
  ASSUME TypeOK, NEW r \in Runs, Load(r)
  PROVE  /\ run' \in [Runs -> RunState]
         /\ \/ run'[r].pc = "idle"
            \/ /\ run'[r].job = run[r].job /\ run'[r].pc = "stage"
               /\ run'[r].period = period[run[r].job]
               /\ run'[r].reserved = held[run[r].job]
         /\ \A s \in Runs \ {r} : run'[s] = run[s]
<1>0. run \in [Runs -> RunState] /\ RunTypes
  BY DEF TypeOK, RunTypes
<1>1. PICK j \in Jobs : j = run[r].job
  BY DEF TypeOK, RunTypes, Load, Live
<1>2. PICK p \in Periods, n \in Nat, t \in Nat :
        p = period[j] /\ n = held[j] /\ t = MeterStart(j)
  BY DEF TypeOK, JobTypes, MeterStart
<1>3. CASE Exists(j)
  <2>1. run' = [run EXCEPT ![r].pc = "stage", ![r].period = p, ![r].reserved = n, ![r].total = t]
    BY <1>1, <1>2, <1>3 DEF Load
  <2>2. /\ run' \in [Runs -> RunState]
        /\ run'[r].job = run[r].job /\ run'[r].pc = "stage"
        /\ run'[r].period = p /\ run'[r].reserved = n
        /\ \A s \in Runs \ {r} : run'[s] = run[s]
    <3>1. run \in [Runs -> RunState]
      BY <1>0
    <3> QED BY <2>1, <3>1, RunFilled, Zenon
  <2> QED BY <1>1, <1>2, <2>2
<1>4. CASE ~Exists(j)
  <2>1. run' = [run EXCEPT ![r] = NoRun]
    BY <1>1, <1>4 DEF Load
  <2> QED BY <1>0, <2>1, RunCleared, NoRunType
<1> QED
  BY <1>3, <1>4

LEMMA CallReturnsEffect ==
  ASSUME RunTypes, NEW r \in Runs, CallReturns(r)
  PROVE  /\ run' \in [Runs -> RunState]
         /\ run'[r].job = run[r].job /\ run'[r].pc = "record"
         /\ run'[r].period = run[r].period /\ run'[r].reserved = run[r].reserved
         /\ \A s \in Runs \ {r} : run'[s] = run[s]
<1>0. run \in [Runs -> RunState]
  BY DEF RunTypes
<1>1. PICK tokens \in 1..MaxCall :
        run' = [run EXCEPT ![r].pc = "record", ![r].usage = tokens,
                           ![r].total = run[r].total + tokens]
  BY DEF CallReturns
<1>2. tokens \in Nat /\ run[r].total + tokens \in Nat
  BY <1>0, TokensAssumption DEF RunState
<1> QED
  BY <1>0, <1>1, <1>2 DEF RunState, RunPC

\* The attempts keep their type, whatever they do.
LEMMA RunsKeepType ==
  ASSUME TypeOK, NEW r \in Runs, run' \in [Runs -> RunState],
         \A s \in Runs \ {r} : run'[s] = run[s],
         run'[r].pc = "idle" \/ run'[r].job \in Jobs,
         stops' \in Nat, manual' \in Nat
  PROVE  RunTypes'
  BY DEF TypeOK, RunTypes, Live

LEMMA StepTypeOK == TypeOK /\ [Next]_vars => TypeOK'
<1> SUFFICES ASSUME TypeOK, [Next]_vars PROVE TypeOK'
  OBVIOUS
<1> USE DEF ledger, jobRow, bounds
<1>0. /\ LedgerTypes /\ JobTypes /\ RunTypes
      /\ stops \in Nat /\ manual \in Nat
      /\ stops + 1 \in Nat /\ manual + 1 \in Nat
  BY DEF TypeOK, RunTypes
<1>1. ASSUME NEW j \in Jobs, OwnerStep(j) PROVE TypeOK'
  <2>1. CASE Submit(j) \/ RetryFailed(j)
    <3>1. Admit(j)
      BY <2>1 DEF Submit, RetryFailed
    <3> QED BY <1>0, <2>1, <3>1, AdmitTypes
            DEF Submit, RetryFailed, TypeOK, LedgerTypes, JobTypes, RunTypes, Live
  <2>2. CASE CancelQueued(j)
    BY <1>0, <2>2, ReleaseTypes
       DEF CancelQueued, TypeOK, LedgerTypes, JobTypes, RunTypes, Live, JobStatus, Ended
  <2>3. CASE DeleteRead(j) \/ Delete(j)
    <3>1. \A flags \in [Jobs -> BOOLEAN], b \in BOOLEAN :
            [flags EXCEPT ![j] = b] \in [Jobs -> BOOLEAN]
      OBVIOUS
    <3>2. deleting' = [deleting EXCEPT ![j] = TRUE] \/ deleting' = [deleting EXCEPT ![j] = FALSE]
      BY <2>3 DEF DeleteRead, Delete
    <3>3. deleting' \in [Jobs -> BOOLEAN]
      BY <1>0, <3>1, <3>2 DEF JobTypes
    <3>4. status' \in [Jobs -> JobStatus] /\ held' \in [Jobs -> Nat]
      BY <1>0, <2>3 DEF DeleteRead, Delete, JobTypes, JobStatus
    <3> QED BY <1>0, <2>3, <3>3, <3>4
            DEF DeleteRead, Delete, TypeOK, LedgerTypes, JobTypes, RunTypes, Live
  <2> QED BY <1>1, <2>1, <2>2, <2>3 DEF OwnerStep
<1>2. ASSUME NEW j \in Jobs, Reap(j) PROVE TypeOK'
  BY <1>0, <1>2, ReleaseTypes
     DEF Reap, TypeOK, LedgerTypes, JobTypes, RunTypes, Live, JobStatus, Ended
<1>3. ASSUME NEW r \in Runs, RunStep(r) PROVE TypeOK'
  <2>0. Live(r) => run[r].job \in Jobs
    BY <1>0 DEF RunTypes
  <2>1. CASE Load(r)
    <3>1. RunTypes'
      BY <1>0, <2>0, <2>1, LoadEffect, RunsKeepType DEF Load, Live
    <3> QED BY <1>0, <2>1, <3>1 DEF Load, TypeOK, LedgerTypes, JobTypes
  <2>2. CASE BeginStage(r) \/ BeforeCall(r) \/ CallFails(r)
    <3>1. PICK pc \in RunPC : Goto(r, pc)
      BY <2>2 DEF BeginStage, BeforeCall, CallFails, RunPC
    <3>2. run' \in [Runs -> RunState] /\ run'[r].job = run[r].job
          /\ \A s \in Runs \ {r} : run'[s] = run[s]
      BY <1>0, <3>1, GotoEffect DEF RunTypes, RunState
    <3>3. run[r].job \in Jobs
      BY <2>0, <2>2 DEF BeginStage, BeforeCall, CallFails, Live
    <3>4. RunTypes'
      BY <1>0, <2>2, <3>2, <3>3, RunsKeepType DEF BeginStage, BeforeCall, CallFails
    <3> QED BY <1>0, <2>2, <3>4
            DEF BeginStage, BeforeCall, CallFails, TypeOK, LedgerTypes, JobTypes
  <2>3. CASE TopUp(r)
    <3>1. RunTypes'
      BY <1>0, <2>0, <2>3, TopUpTypes, RunsKeepType DEF TopUp, Live
    <3> QED BY <1>0, <2>3, <3>1, TopUpTypes DEF TopUp, TypeOK, LedgerTypes, JobTypes
  <2>4. CASE CallReturns(r)
    <3>1. RunTypes'
      BY <1>0, <2>0, <2>4, CallReturnsEffect, RunsKeepType DEF CallReturns, Live
    <3> QED BY <1>0, <2>4, <3>1 DEF CallReturns, TypeOK, LedgerTypes, JobTypes
  <2>5. CASE AfterCall(r)
    <3>1. RunTypes'
      BY <1>0, <2>0, <2>5, AfterCallTypes, RunsKeepType DEF AfterCall, Live
    <3>2. /\ used' \in [Periods -> Nat] /\ reserved' \in [Periods -> Nat]
          /\ held' \in [Jobs -> Nat]
      BY <2>5, AfterCallTypes
    <3>3. /\ billed \in [Jobs -> Nat] /\ run[r].usage \in Nat
          /\ billed' = [billed EXCEPT ![run[r].job] = @ + run[r].usage]
      BY <1>0, <2>5 DEF AfterCall, LedgerTypes, RunTypes, RunState
    <3>4. billed' \in [Jobs -> Nat]
      <4>1. run[r].job \in Jobs
        BY <2>0, <2>5 DEF AfterCall, Live
      <4>2. billed[run[r].job] + run[r].usage \in Nat
        BY <3>3, <4>1
      <4> QED BY <3>3, <4>2
    <3> QED BY <1>0, <2>5, <3>1, <3>2, <3>4 DEF AfterCall, TypeOK, LedgerTypes, JobTypes
  <2>6. CASE EndStage(r)
    <3>1. PICK pc \in RunPC : Goto(r, pc)
      BY <2>6 DEF EndStage, RunPC
    <3>2. run' \in [Runs -> RunState] /\ run'[r].job = run[r].job
          /\ \A s \in Runs \ {r} : run'[s] = run[s]
      BY <1>0, <3>1, GotoEffect DEF RunTypes, RunState
    <3>3. RunTypes'
      BY <1>0, <2>0, <2>6, <3>2, RunsKeepType DEF EndStage, Live
    <3>4. total' \in [Jobs -> Nat]
      BY <1>0, <2>6 DEF EndStage, Persist, RunTypes, RunState, JobTypes
    <3> QED BY <1>0, <2>6, <3>3, <3>4 DEF EndStage, TypeOK, LedgerTypes, JobTypes
  <2>7. CASE Finish(r) \/ FailOrRetry(r) \/ Interrupt(r)
    <3>1. PICK next \in {"succeeded", "failed", "cancelled", "queued"} : Leave(r, next)
      BY <2>7 DEF Finish, FailOrRetry, Interrupt
    <3>2. Live(r)
      BY <2>7 DEF Finish, FailOrRetry, Interrupt, Live
    <3>3. run' = [run EXCEPT ![r] = NoRun]
      BY <3>1 DEF Leave
    <3>4. RunTypes'
      BY <1>0, <2>7, <3>1, <3>3, RunCleared, NoRunType, RunsKeepType
         DEF Leave, Finish, FailOrRetry, Interrupt
    <3> QED BY <1>0, <3>1, <3>2, <3>4, LeaveTypes DEF Leave, TypeOK, LedgerTypes, JobTypes
  <2>8. CASE Crash(r)
    <3>1. RunTypes'
      BY <1>0, <2>8, RunCleared, NoRunType, RunsKeepType DEF Crash
    <3> QED BY <1>0, <2>8, <3>1 DEF Crash, TypeOK, LedgerTypes, JobTypes
  <2> QED BY <1>3, <2>1, <2>2, <2>3, <2>4, <2>5, <2>6, <2>7, <2>8 DEF RunStep
<1>4. ASSUME NEW r \in Runs, NEW j \in Jobs, Claim(r, j) PROVE TypeOK'
  <2>1. RunTypes'
    BY <1>0, <1>4, ClaimEffect, RunsKeepType DEF Claim
  <2> QED BY <1>0, <1>4, <2>1 DEF Claim, TypeOK, LedgerTypes, JobTypes, JobStatus, Active
<1>5. CASE NextPeriod
  BY <1>0, <1>5, PeriodsAssumption
     DEF NextPeriod, TypeOK, LedgerTypes, JobTypes, RunTypes, Live, Periods
<1>6. CASE UNCHANGED vars
  BY <1>0, <1>6 DEF vars, TypeOK, LedgerTypes, JobTypes, RunTypes, Live
<1> QED
  BY <1>1, <1>2, <1>3, <1>4, <1>5, <1>6 DEF Next

\* Every variable keeps its type: no counter of tokens is ever negative, also
\* when an attempt reports after the reaper has released its reservation.
THEOREM TypeCorrect == Spec => []TypeOK
<1> QED
  BY InitTypeOK, StepTypeOK, PTL DEF Spec

-----------------------------------------------------------------------------
(* What a job reports was charged, with late attempts and deletions.       *)

\* The meter of an attempt is ahead of the ledger by the call it is about to record.
MeterFacts(r) ==
  /\ run[r].pc \notin {"idle", "load"} => run[r].total <= billed[run[r].job] + run[r].usage
  /\ run[r].pc # "record" => run[r].usage = 0

ChargeInv == (\A r \in Runs : MeterFacts(r)) /\ TotalsWereCharged

LEMMA InitChargeInv == Init => ChargeInv
  BY DEF Init, ChargeInv, MeterFacts, TotalsWereCharged, NoRun

\* A charge to one job only leaves the meters further behind.
LEMMA MetersStayCovered ==
  ASSUME TypeOK, NEW r \in Runs, MeterFacts(r), run'[r] = run[r],
         \A j \in Jobs : billed'[j] \in Nat /\ billed'[j] >= billed[j]
  PROVE  MeterFacts(r)'
<1>1. Live(r) => run[r].job \in Jobs
  BY DEF TypeOK, RunTypes
<1>2. run[r].total \in Nat /\ run[r].usage \in Nat /\ \A j \in Jobs : billed[j] \in Nat
  BY DEF TypeOK, RunTypes, RunState, LedgerTypes
<1> QED BY <1>1, <1>2 DEF MeterFacts, Live

\* An attempt that ends, or has just been created, has metered nothing.
LEMMA EmptyMeter ==
  ASSUME NEW r, run'[r].pc \in {"idle", "load"}, run'[r].usage = 0
  PROVE  MeterFacts(r)'
  BY DEF MeterFacts

LEMMA StepChargeInv ==
  ASSUME TypeOK, ChargeInv, [Next]_vars
  PROVE  ChargeInv'
<1> USE DEF ledger, jobRow, bounds
<1>0. /\ RunTypes /\ LedgerTypes /\ JobTypes
      /\ run \in [Runs -> RunState] /\ billed \in [Jobs -> Nat] /\ total \in [Jobs -> Nat]
  BY DEF TypeOK, RunTypes, LedgerTypes, JobTypes
<1>1. ASSUME UNCHANGED <<run, billed, total>> PROVE ChargeInv'
  BY <1>1 DEF ChargeInv, MeterFacts, TotalsWereCharged
<1>2. ASSUME NEW r \in Runs, \A s \in Runs \ {r} : run'[s] = run[s], MeterFacts(r)',
             UNCHANGED <<billed, total>>
      PROVE  ChargeInv'
  <2>1. \A s \in Runs \ {r} : MeterFacts(s)'
    BY <1>0, <1>2, MetersStayCovered DEF ChargeInv
  <2>2. TotalsWereCharged'
    BY <1>2 DEF ChargeInv, TotalsWereCharged
  <2> QED BY <1>2, <2>1, <2>2 DEF ChargeInv
<1>3. ASSUME NEW j \in Jobs, OwnerStep(j) \/ Reap(j) PROVE ChargeInv'
  BY <1>1, <1>3 DEF OwnerStep, Submit, CancelQueued, RetryFailed, DeleteRead, Delete, Reap
<1>4. ASSUME NEW r \in Runs, NEW j \in Jobs, Claim(r, j) PROVE ChargeInv'
  <2>1. run'[r].pc = "load" /\ run'[r].usage = 0 /\ \A s \in Runs \ {r} : run'[s] = run[s]
    BY <1>0, <1>4 DEF Claim, NoRun
  <2> QED BY <1>2, <1>4, <2>1, EmptyMeter DEF Claim
<1>5. ASSUME NEW r \in Runs, RunStep(r) PROVE ChargeInv'
  <2>0. run[r] \in RunState /\ run[r].usage \in Nat /\ run[r].total \in Nat /\ MeterFacts(r)
    BY <1>0 DEF RunState, ChargeInv
  <2>1. CASE Load(r)
    <3>1. PICK j \in Jobs : j = run[r].job
      BY <1>0, <2>1 DEF Load, RunTypes, Live
    <3>2. CASE Exists(j)
      <4>1. run' = [run EXCEPT ![r].pc = "stage", ![r].period = period[j],
                               ![r].reserved = held[j], ![r].total = total[j]]
        BY <2>1, <3>1, <3>2 DEF Load, MeterStart
      <4>2. /\ run'[r].pc = "stage" /\ run'[r].job = j /\ run'[r].usage = run[r].usage
            /\ run'[r].total = total[j] /\ \A s \in Runs \ {r} : run'[s] = run[s]
        BY <1>0, <2>0, <3>1, <4>1 DEF RunState
      <4>3. run[r].usage = 0
        BY <2>0, <2>1 DEF Load, MeterFacts
      <4>4. total[j] <= billed[j] /\ billed[j] \in Nat /\ total[j] \in Nat
        BY <1>0 DEF ChargeInv, TotalsWereCharged
      <4>5. MeterFacts(r)'
        BY <2>1, <4>2, <4>3, <4>4 DEF MeterFacts, Load
      <4> QED BY <1>2, <2>1, <4>2, <4>5 DEF Load
    <3>3. CASE ~Exists(j)
      <4>1. run'[r] = NoRun /\ \A s \in Runs \ {r} : run'[s] = run[s]
        BY <1>0, <2>1, <3>1, <3>3 DEF Load
      <4>2. MeterFacts(r)'
        BY <4>1, EmptyMeter DEF NoRun
      <4> QED BY <1>2, <2>1, <4>1, <4>2 DEF Load
    <3> QED BY <3>2, <3>3
  <2>2. CASE BeginStage(r) \/ BeforeCall(r) \/ CallFails(r)
    <3>1. PICK pc \in {"ready", "calling", "error"} : Goto(r, pc)
      BY <2>2 DEF BeginStage, BeforeCall, CallFails
    <3>2. /\ run'[r].pc = pc /\ run'[r].job = run[r].job /\ run'[r].usage = run[r].usage
          /\ run'[r].total = run[r].total /\ \A s \in Runs \ {r} : run'[s] = run[s]
      BY <1>0, <2>0, <3>1 DEF Goto, RunState
    <3>3. MeterFacts(r)'
      BY <2>0, <2>2, <3>2 DEF MeterFacts, BeginStage, BeforeCall, CallFails
    <3> QED BY <1>2, <2>2, <3>2, <3>3 DEF BeginStage, BeforeCall, CallFails
  <2>3. CASE TopUp(r)
    <3>1. /\ run'[r].pc \in {"calling", "error"} /\ run'[r].job = run[r].job
          /\ run'[r].usage = run[r].usage /\ run'[r].total = run[r].total
          /\ \A s \in Runs \ {r} : run'[s] = run[s]
      <4>1. CASE Goto(r, "error")
        BY <1>0, <2>0, <4>1 DEF Goto, RunState
      <4>2. CASE run' = [run EXCEPT ![r].pc = "calling", ![r].reserved = @ + Amount]
        BY <1>0, <2>0, <4>2 DEF RunState
      <4> QED BY <2>3, <4>1, <4>2 DEF TopUp, Extend
    <3>2. MeterFacts(r)'
      BY <2>0, <2>3, <3>1 DEF MeterFacts, TopUp
    <3> QED BY <1>2, <2>3, <3>1, <3>2 DEF TopUp
  <2>4. CASE CallReturns(r)
    <3>1. PICK n \in 1..MaxCall : run' = [run EXCEPT ![r].pc = "record", ![r].usage = n,
                                                     ![r].total = run[r].total + n]
      BY <2>4 DEF CallReturns
    <3>2. /\ run'[r].pc = "record" /\ run'[r].job = run[r].job /\ run'[r].usage = n
          /\ run'[r].total = run[r].total + n /\ \A s \in Runs \ {r} : run'[s] = run[s]
      BY <1>0, <2>0, <3>1 DEF RunState
    <3>3. run[r].usage = 0 /\ run[r].total <= billed[run[r].job] + run[r].usage
          /\ run[r].job \in Jobs
      BY <1>0, <2>0, <2>4 DEF MeterFacts, CallReturns, RunTypes, Live
    <3>4. billed[run[r].job] \in Nat /\ n \in Nat
      BY <1>0, <3>3, TokensAssumption
    <3>5. UNCHANGED <<billed, total>>
      BY <2>4 DEF CallReturns
    <3>6. MeterFacts(r)'
      BY <2>0, <3>2, <3>3, <3>4, <3>5 DEF MeterFacts
    <3> QED BY <1>2, <3>2, <3>5, <3>6
  <2>5. CASE AfterCall(r)
    <3>1. PICK j \in Jobs, n \in Nat : j = run[r].job /\ n = run[r].usage
      BY <1>0, <2>0, <2>5 DEF AfterCall, RunTypes, Live
    <3>2. /\ run'[r].pc = "ready" /\ run'[r].job = j /\ run'[r].usage = 0
          /\ run'[r].total = run[r].total /\ \A s \in Runs \ {r} : run'[s] = run[s]
      <4>1. \E x : run' = [run EXCEPT ![r].pc = "ready", ![r].usage = 0, ![r].reserved = x]
        BY <2>5 DEF AfterCall
      <4> QED BY <1>0, <2>0, <3>1, <4>1 DEF RunState
    <3>3. billed' = [billed EXCEPT ![j] = billed[j] + n] /\ UNCHANGED total
      BY <2>5, <3>1 DEF AfterCall
    <3>4. \A i \in Jobs : billed'[i] \in Nat /\ billed'[i] >= billed[i]
      BY <1>0, <3>1, <3>3
    <3>5. billed'[j] = billed[j] + n
      BY <1>0, <3>3
    <3>6. run[r].total <= billed[j] + n
      BY <2>0, <2>5, <3>1 DEF MeterFacts, AfterCall
    <3>7. MeterFacts(r)'
      BY <1>0, <2>0, <3>1, <3>2, <3>5, <3>6 DEF MeterFacts
    <3>8. \A s \in Runs \ {r} : MeterFacts(s)'
      BY <3>2, <3>4, MetersStayCovered DEF ChargeInv
    <3>9. TotalsWereCharged'
      BY <1>0, <3>3, <3>4 DEF ChargeInv, TotalsWereCharged
    <3> QED BY <3>7, <3>8, <3>9 DEF ChargeInv
  <2>6. CASE EndStage(r)
    <3>1. PICK pc \in {"stage", "ending"} : Goto(r, pc)
      BY <2>6 DEF EndStage
    <3>2. /\ run'[r].pc = pc /\ run'[r].job = run[r].job /\ run'[r].usage = run[r].usage
          /\ run'[r].total = run[r].total /\ \A s \in Runs \ {r} : run'[s] = run[s]
      BY <1>0, <2>0, <3>1 DEF Goto, RunState
    <3>3. /\ run[r].usage = 0 /\ run[r].job \in Jobs
          /\ run[r].total <= billed[run[r].job] + run[r].usage
      BY <1>0, <2>0, <2>6 DEF MeterFacts, EndStage, RunTypes, Live
    <3>4. UNCHANGED billed
      BY <2>6 DEF EndStage
    <3>5. \A s \in Runs : MeterFacts(s)'
      <4>1. MeterFacts(r)'
        BY <3>2, <3>3, <3>4 DEF MeterFacts
      <4>2. \A s \in Runs \ {r} : MeterFacts(s)'
        BY <1>0, <3>2, <3>4, MetersStayCovered DEF ChargeInv
      <4> QED BY <4>1, <4>2
    <3>6. TotalsWereCharged'
      <4>1. \A i \in Jobs : \/ total'[i] = total[i]
                            \/ i = run[r].job /\ total'[i] = run[r].total
        BY <1>0, <2>6, <3>3 DEF EndStage, Persist
      <4>2. run[r].total <= billed[run[r].job]
        BY <1>0, <2>0, <3>3
      <4> QED BY <3>4, <4>1, <4>2 DEF ChargeInv, TotalsWereCharged
    <3> QED BY <3>5, <3>6 DEF ChargeInv
  <2>7. CASE Finish(r) \/ FailOrRetry(r) \/ Interrupt(r) \/ Crash(r)
    <3>1. run' = [run EXCEPT ![r] = NoRun] /\ UNCHANGED <<billed, total>>
      BY <2>7 DEF Finish, FailOrRetry, Interrupt, Crash, Leave
    <3>2. run'[r] = NoRun /\ \A s \in Runs \ {r} : run'[s] = run[s]
      BY <1>0, <3>1
    <3>3. MeterFacts(r)'
      BY <3>2, EmptyMeter DEF NoRun
    <3> QED BY <1>2, <3>1, <3>2, <3>3
  <2> QED BY <1>5, <2>1, <2>2, <2>3, <2>4, <2>5, <2>6, <2>7 DEF RunStep
<1>6. CASE NextPeriod \/ UNCHANGED vars
  BY <1>1, <1>6 DEF NextPeriod, vars
<1> QED
  BY <1>3, <1>4, <1>5, <1>6 DEF Next

\* No job reports tokens its principal was not charged for: with attempts that outlive
\* the reaper and write over each other's totals, retries, deletions, crashes and a
\* change of period between any two calls.
THEOREM TotalsAreCharged == Spec => []TotalsWereCharged
<1>1. TypeOK /\ ChargeInv /\ [Next]_vars => ChargeInv'
  BY StepChargeInv
<1>2. ChargeInv => TotalsWereCharged
  BY DEF ChargeInv
<1> QED
  BY InitChargeInv, <1>1, <1>2, TypeCorrect, PTL DEF Spec

-----------------------------------------------------------------------------
(* What admits tokens                                                      *)

\* Only an admission and a top-up add to what is reserved, and both are one
\* compare-and-set on the period's row.
LEMMA StepGrantsFit ==
  ASSUME TypeOK, [Next]_vars, NEW p \in Periods, reserved'[p] > reserved[p]
  PROVE  used'[p] + reserved'[p] <= Limit
<1> USE DEF ledger, jobRow, bounds
<1>0. /\ reserved \in [Periods -> Nat] /\ used \in [Periods -> Nat]
      /\ RunTypes /\ now \in Periods
  BY DEF TypeOK, LedgerTypes
<1>1. reserved[p] \in Nat
  BY <1>0
<1>a. UNCHANGED reserved => FALSE
  BY <1>1
<1>b. (reserved' \in [Periods -> Nat] /\ reserved'[p] <= reserved[p]) => FALSE
  BY <1>1
<1>2. ASSUME NEW j \in Jobs, OwnerStep(j) PROVE used'[p] + reserved'[p] <= Limit
  <2>1. CASE Submit(j) \/ RetryFailed(j)
    <3>1. /\ Fits(now) /\ UNCHANGED used
          /\ reserved' = [reserved EXCEPT ![now] = reserved[now] + Amount]
      BY <2>1 DEF Submit, RetryFailed, Admit
    <3>2. now = p
      BY <1>0, <1>1, <3>1
    <3> QED BY <1>0, <3>1, <3>2, AmountIsPositive DEF Fits
  <2>2. CASE CancelQueued(j)
    BY <1>b, <2>2, ReleaseTypes DEF CancelQueued
  <2>3. CASE DeleteRead(j) \/ Delete(j)
    BY <1>a, <2>3 DEF DeleteRead, Delete
  <2> QED BY <1>2, <2>1, <2>2, <2>3 DEF OwnerStep
<1>3. ASSUME NEW j \in Jobs, Reap(j) PROVE used'[p] + reserved'[p] <= Limit
  BY <1>b, <1>3, ReleaseTypes DEF Reap
<1>4. ASSUME NEW r \in Runs, RunStep(r) PROVE used'[p] + reserved'[p] <= Limit
  <2>1. CASE TopUp(r)
    <3>1. Fits(run[r].period)
      BY <1>a, <2>1 DEF TopUp
    <3>2. PICK q \in Periods : q = run[r].period
      BY <1>0 DEF RunTypes, RunState
    <3>3. UNCHANGED used /\ reserved' = [reserved EXCEPT ![q] = reserved[q] + Amount]
      BY <2>1, <3>1, <3>2 DEF TopUp, Extend
    <3>4. q = p
      BY <1>0, <1>1, <3>3
    <3> QED BY <1>0, <3>1, <3>2, <3>3, <3>4, AmountIsPositive DEF Fits
  <2>2. CASE AfterCall(r)
    BY <1>b, <2>2, AfterCallTypes
  <2>3. CASE Finish(r) \/ FailOrRetry(r) \/ Interrupt(r)
    <3>1. PICK next \in {"succeeded", "failed", "cancelled", "queued"} : Leave(r, next)
      BY <2>3 DEF Finish, FailOrRetry, Interrupt
    <3>2. Live(r)
      BY <2>3 DEF Finish, FailOrRetry, Interrupt, Live
    <3> QED BY <1>b, <3>1, <3>2, LeaveTypes
  <2>4. CASE Load(r) \/ BeginStage(r) \/ BeforeCall(r) \/ CallReturns(r) \/ CallFails(r)
             \/ EndStage(r) \/ Crash(r)
    BY <1>a, <2>4 DEF Load, BeginStage, BeforeCall, CallReturns, CallFails, EndStage, Crash
  <2> QED BY <1>4, <2>1, <2>2, <2>3, <2>4 DEF RunStep
<1>5. ASSUME NEW r \in Runs, NEW j \in Jobs, Claim(r, j) PROVE used'[p] + reserved'[p] <= Limit
  BY <1>a, <1>5 DEF Claim
<1>6. CASE NextPeriod \/ UNCHANGED vars
  BY <1>a, <1>6 DEF NextPeriod, vars
<1> QED
  BY <1>2, <1>3, <1>4, <1>5, <1>6 DEF Next

-----------------------------------------------------------------------------
(* The guard's copy                                                        *)

\* Attempts do not outlive the reaper, and no job that is being deleted is
\* retried.
Calm == ~LateWorkers /\ (DeletesAllowed => MaxManual = 0)

\* A job that is being deleted has ended, and stays so.
DeletesEnded ==
  \A j \in Jobs : deleting[j] => DeletesAllowed /\ status[j] \in Ended

CopyInv == GuardedRuns /\ DeletesEnded

LEMMA InitCopyInv == Init => CopyInv
  BY DEF Init, CopyInv, GuardedRuns, OneRun, GuardAgrees, NothingHeldAfterEnd, DeletesEnded,
         NoRun, Live

\* A step on one job that no attempt works on.
LEMMA JobAlone ==
  ASSUME GuardedRuns, RunTypes, NEW j \in Jobs, UNCHANGED run,
         \A i \in Jobs \ {j} :
           status'[i] = status[i] /\ period'[i] = period[i] /\ held'[i] = held[i],
         \A r \in Runs : Live(r) => run[r].job # j,
         status'[j] \notin Active => held'[j] = 0
  PROVE  GuardedRuns'
<1>1. OneRun'
  BY DEF GuardedRuns, OneRun, RunTypes, Live
<1>2. GuardAgrees'
  BY DEF GuardedRuns, GuardAgrees, RunTypes, Live
<1>3. NothingHeldAfterEnd'
  BY DEF GuardedRuns, NothingHeldAfterEnd
<1> QED
  BY <1>1, <1>2, <1>3 DEF GuardedRuns

\* A step of one attempt on its job, which no other attempt works on.
LEMMA RunAlone ==
  ASSUME GuardedRuns, RunTypes, NEW j \in Jobs, NEW r \in Runs,
         \A i \in Jobs \ {j} :
           status'[i] = status[i] /\ period'[i] = period[i] /\ held'[i] = held[i],
         \A s \in Runs \ {r} : run'[s] = run[s] /\ (Live(s) => run[s].job # j),
         \/ run'[r].pc = "idle"
         \/ /\ run'[r].job = j /\ status'[j] = "running"
            /\ run'[r].pc # "load" => run'[r].period = period'[j] /\ run'[r].reserved = held'[j],
         status'[j] \notin Active => held'[j] = 0
  PROVE  GuardedRuns'
<1>1. OneRun'
  BY DEF GuardedRuns, OneRun, RunTypes, Live
<1>2. GuardAgrees'
  BY DEF GuardedRuns, GuardAgrees, RunTypes, Live
<1>3. NothingHeldAfterEnd'
  BY DEF GuardedRuns, NothingHeldAfterEnd
<1> QED
  BY <1>1, <1>2, <1>3 DEF GuardedRuns

\* The only attempt of a running job, and what its guard knows.
LEMMA OnlyRun ==
  ASSUME GuardedRuns, RunTypes, NEW r \in Runs, Live(r)
  PROVE  /\ run[r].job \in Jobs /\ status[run[r].job] = "running"
         /\ \A s \in Runs \ {r} : Live(s) => run[s].job # run[r].job
         /\ run[r].pc # "load" =>
              run[r].period = period[run[r].job] /\ run[r].reserved = held[run[r].job]
  BY DEF GuardedRuns, OneRun, GuardAgrees, RunTypes, Live

\* A step of an attempt that changes no row, and moves it on.
LEMMA RunGoes ==
  ASSUME GuardedRuns, RunTypes, NEW r \in Runs, Live(r), UNCHANGED <<status, period, held>>,
         \A s \in Runs \ {r} : run'[s] = run[s],
         \/ run'[r].pc = "idle"
         \/ /\ run'[r].job = run[r].job
            /\ \/ run[r].pc # "load" /\ run'[r].period = run[r].period
                                     /\ run'[r].reserved = run[r].reserved
               \/ run'[r].period = period[run[r].job] /\ run'[r].reserved = held[run[r].job]
  PROVE  GuardedRuns'
<1>1. PICK j \in Jobs : j = run[r].job
  BY OnlyRun
<1>2. status[j] \notin Active => held[j] = 0
  BY DEF GuardedRuns, NothingHeldAfterEnd
<1>3. \/ run'[r].pc = "idle"
      \/ /\ run'[r].job = j /\ status'[j] = "running"
         /\ run'[r].pc # "load" => run'[r].period = period'[j] /\ run'[r].reserved = held'[j]
  BY <1>1, OnlyRun
<1>4. \A s \in Runs \ {r} : run'[s] = run[s] /\ (Live(s) => run[s].job # j)
  BY <1>1, OnlyRun
<1> QED
  BY <1>2, <1>3, <1>4, RunAlone

LEMMA LeaveKeepsGuards ==
  ASSUME GuardedRuns, TypeOK, NEW r \in Runs, Live(r),
         NEW next \in {"succeeded", "failed", "cancelled", "queued"}, Leave(r, next)
  PROVE  GuardedRuns'
<1>0. RunTypes /\ DOMAIN status = Jobs /\ DOMAIN held = Jobs
  BY DEF TypeOK, JobTypes
<1>1. PICK j \in Jobs : j = run[r].job
  BY <1>0, OnlyRun
<1>2. status[j] = "running"
  BY <1>0, <1>1, OnlyRun
<1>3. /\ status' = [status EXCEPT ![j] = next]
      /\ IF next \in Ended THEN Release(j) ELSE UNCHANGED <<reserved, held>>
      /\ UNCHANGED period
      /\ run' = [run EXCEPT ![r] = NoRun]
  BY <1>1, <1>2 DEF Leave
<1>4. /\ \A i \in Jobs \ {j} : status'[i] = status[i] /\ held'[i] = held[i]
      /\ status'[j] = next /\ (next \in Ended => held'[j] = 0)
  BY <1>0, <1>3 DEF Release
<1>5. /\ \A s \in Runs \ {r} : run'[s] = run[s] /\ (Live(s) => run[s].job # j)
      /\ run'[r].pc = "idle"
  BY <1>0, <1>1, <1>3, OnlyRun, RunCleared, NoRunType
<1>6. next \notin Active => next \in Ended
  BY DEF Active, Ended
<1> QED
  BY <1>0, <1>3, <1>4, <1>5, <1>6, RunAlone

LEMMA TopUpKeepsGuards ==
  ASSUME GuardedRuns, TypeOK, NEW r \in Runs, TopUp(r)
  PROVE  GuardedRuns'
<1>0. RunTypes /\ DOMAIN held = Jobs /\ run \in [Runs -> RunState]
  BY DEF TypeOK, JobTypes, RunTypes
<1>1. Live(r) /\ run[r].pc # "load"
  BY DEF TopUp, Live
<1>2. CASE Fits(run[r].period)
  <2>1. PICK j \in Jobs : j = run[r].job
    BY <1>0, <1>1, OnlyRun
  <2>2. /\ status[j] = "running" /\ run[r].period = period[j] /\ run[r].reserved = held[j]
        /\ \A s \in Runs \ {r} : Live(s) => run[s].job # j
    BY <1>0, <1>1, <2>1, OnlyRun
  <2>3. /\ held' = [held EXCEPT ![j] = held[j] + Amount]
        /\ run' = [run EXCEPT ![r].pc = "calling", ![r].reserved = run[r].reserved + Amount]
        /\ UNCHANGED <<status, period>>
    BY <1>2, <2>1, <2>2 DEF TopUp, Extend, Exists
  <2>4. /\ run'[r].job = j /\ run'[r].period = period[j] /\ run'[r].reserved = held[j] + Amount
        /\ \A s \in Runs \ {r} : run'[s] = run[s]
    BY <1>0, <2>1, <2>2, <2>3 DEF RunState
  <2>5. held'[j] = held[j] + Amount /\ \A i \in Jobs \ {j} : held'[i] = held[i]
    BY <1>0, <2>3
  <2> QED BY <1>0, <2>2, <2>3, <2>4, <2>5, RunAlone DEF Active
<1>3. CASE ~Fits(run[r].period)
  <2>1. Goto(r, "error") /\ UNCHANGED <<status, period, held>>
    BY <1>3 DEF TopUp
  <2>2. /\ run'[r].job = run[r].job /\ run'[r].period = run[r].period
        /\ run'[r].reserved = run[r].reserved
        /\ \A s \in Runs \ {r} : run'[s] = run[s]
    BY <1>0, <2>1, GotoFields DEF RunPC
  <2> QED BY <1>0, <1>1, <2>1, <2>2, RunGoes
<1> QED
  BY <1>2, <1>3

\* The row has what the copy has, so the clamp of _decrement does not bite.
LEMMA AfterCallKeepsGuards ==
  ASSUME GuardedRuns, TypeOK, NEW r \in Runs, AfterCall(r)
  PROVE  GuardedRuns'
<1>0. RunTypes /\ held \in [Jobs -> Nat] /\ run \in [Runs -> RunState]
  BY DEF TypeOK, JobTypes, RunTypes
<1>1. Live(r) /\ run[r].pc # "load"
  BY DEF AfterCall, Live
<1>2. PICK j \in Jobs : j = run[r].job
  BY <1>0, <1>1, OnlyRun
<1>3. /\ status[j] = "running" /\ run[r].period = period[j] /\ run[r].reserved = held[j]
      /\ \A s \in Runs \ {r} : Live(s) => run[s].job # j
  BY <1>0, <1>1, <1>2, OnlyRun
<1>4. PICK c \in Nat : c = AtMost(run[r].usage, run[r].reserved) /\ c <= run[r].reserved
  <2>1. run[r].usage \in Nat /\ run[r].reserved \in Nat
    BY <1>0 DEF RunState
  <2> QED BY <2>1, AtMostIsNat
<1>5. /\ held' = [held EXCEPT ![j] = Less(held[j], c)]
      /\ run' = [run EXCEPT ![r].pc = "ready", ![r].usage = 0,
                            ![r].reserved = run[r].reserved - c]
      /\ UNCHANGED <<status, period>>
  BY <1>2, <1>4 DEF AfterCall
<1>6. Less(held[j], c) = held[j] - c
  BY <1>0, <1>3, <1>4 DEF Less
<1>7. /\ run'[r].job = j /\ run'[r].period = period[j] /\ run'[r].reserved = held[j] - c
      /\ \A s \in Runs \ {r} : run'[s] = run[s]
  BY <1>0, <1>2, <1>3, <1>5 DEF RunState
<1>8. held'[j] = held[j] - c /\ \A i \in Jobs \ {j} : held'[i] = held[i]
  BY <1>0, <1>5, <1>6
<1> QED
  BY <1>0, <1>3, <1>5, <1>7, <1>8, RunAlone DEF Active

LEMMA StepGuardedRuns ==
  ASSUME Calm, TypeOK, CopyInv, [Next]_vars
  PROVE  GuardedRuns'
<1> USE DEF ledger, jobRow, bounds
<1>0. /\ GuardedRuns /\ DeletesEnded /\ RunTypes
      /\ DOMAIN status = Jobs /\ DOMAIN period = Jobs /\ DOMAIN held = Jobs
      /\ run \in [Runs -> RunState]
  BY DEF CopyInv, TypeOK, JobTypes, RunTypes
<1>a. \A r \in Runs : Live(r) => status[run[r].job] = "running"
  BY <1>0, OnlyRun
<1>1. ASSUME NEW j \in Jobs, OwnerStep(j) PROVE GuardedRuns'
  <2>1. CASE Submit(j) \/ RetryFailed(j)
    <3>1. status[j] # "running" /\ Admit(j) /\ UNCHANGED run
      BY <2>1 DEF Submit, RetryFailed
    <3>2. \A r \in Runs : Live(r) => run[r].job # j
      BY <1>a, <3>1
    <3>3. \A i \in Jobs \ {j} :
            status'[i] = status[i] /\ period'[i] = period[i] /\ held'[i] = held[i]
      BY <1>0, <3>1 DEF Admit
    <3>4. status'[j] \in Active
      BY <1>0, <3>1 DEF Admit, Active
    <3> QED BY <1>0, <3>1, <3>2, <3>3, <3>4, JobAlone
  <2>2. CASE CancelQueued(j)
    <3>1. status[j] # "running" /\ UNCHANGED <<run, period>>
          /\ status' = [status EXCEPT ![j] = "cancelled"] /\ held' = [held EXCEPT ![j] = 0]
      BY <2>2 DEF CancelQueued, Release
    <3>2. \A r \in Runs : Live(r) => run[r].job # j
      BY <1>a, <3>1
    <3> QED BY <1>0, <3>1, <3>2, JobAlone
  <2>3. CASE DeleteRead(j)
    BY <1>0, <2>3 DEF DeleteRead, GuardedRuns, OneRun, GuardAgrees, NothingHeldAfterEnd, Live
  <2>4. CASE Delete(j)
    <3>1. status[j] \in Ended /\ UNCHANGED <<run, period>>
          /\ status' = [status EXCEPT ![j] = "deleted"] /\ held' = [held EXCEPT ![j] = 0]
      BY <1>0, <2>4 DEF Delete, DeletesEnded
    <3>2. \A r \in Runs : Live(r) => run[r].job # j
      BY <1>a, <3>1 DEF Ended
    <3> QED BY <1>0, <3>1, <3>2, JobAlone
  <2> QED BY <1>1, <2>1, <2>2, <2>3, <2>4 DEF OwnerStep
<1>2. ASSUME NEW j \in Jobs, Reap(j) PROVE GuardedRuns'
  <2>1. /\ \A r \in Runs : run[r].job # j
        /\ UNCHANGED <<run, period>>
        /\ status' = [status EXCEPT ![j] = "failed"] /\ held' = [held EXCEPT ![j] = 0]
    BY <1>2 DEF Reap, Release, Calm
  <2> QED BY <1>0, <2>1, JobAlone
<1>3. ASSUME NEW r \in Runs, RunStep(r) PROVE GuardedRuns'
  <2>1. CASE Load(r)
    <3>1. Live(r) /\ UNCHANGED <<status, period, held>>
      BY <2>1 DEF Load, Live
    <3> QED BY <1>0, <2>1, <3>1, LoadEffect, RunGoes
  <2>2. CASE BeginStage(r) \/ BeforeCall(r) \/ CallFails(r) \/ EndStage(r)
    <3>1. Live(r) /\ run[r].pc # "load" /\ UNCHANGED <<status, period, held>>
      BY <2>2 DEF BeginStage, BeforeCall, CallFails, EndStage, Live
    <3>2. PICK pc \in RunPC : Goto(r, pc)
      BY <2>2 DEF BeginStage, BeforeCall, CallFails, EndStage, RunPC
    <3>3. /\ run'[r].job = run[r].job /\ run'[r].period = run[r].period
          /\ run'[r].reserved = run[r].reserved
          /\ \A s \in Runs \ {r} : run'[s] = run[s]
      BY <1>0, <3>2, GotoFields
    <3> QED BY <1>0, <3>1, <3>3, RunGoes
  <2>3. CASE TopUp(r)
    BY <1>0, <2>3, TopUpKeepsGuards
  <2>4. CASE CallReturns(r)
    <3>1. Live(r) /\ run[r].pc # "load" /\ UNCHANGED <<status, period, held>>
      BY <2>4 DEF CallReturns, Live
    <3> QED BY <1>0, <2>4, <3>1, CallReturnsEffect, RunGoes
  <2>5. CASE AfterCall(r)
    BY <1>0, <2>5, AfterCallKeepsGuards
  <2>6. CASE Finish(r) \/ FailOrRetry(r) \/ Interrupt(r)
    <3>1. PICK next \in {"succeeded", "failed", "cancelled", "queued"} : Leave(r, next)
      BY <2>6 DEF Finish, FailOrRetry, Interrupt
    <3>2. Live(r)
      BY <2>6 DEF Finish, FailOrRetry, Interrupt, Live
    <3> QED BY <1>0, <3>1, <3>2, LeaveKeepsGuards
  <2>7. CASE Crash(r)
    <3>1. Live(r) /\ UNCHANGED <<status, period, held>> /\ run' = [run EXCEPT ![r] = NoRun]
      BY <2>7 DEF Crash
    <3> QED BY <1>0, <3>1, RunCleared, NoRunType, RunGoes
  <2> QED BY <1>3, <2>1, <2>2, <2>3, <2>4, <2>5, <2>6, <2>7 DEF RunStep
<1>4. ASSUME NEW r \in Runs, NEW j \in Jobs, Claim(r, j) PROVE GuardedRuns'
  <2>1. status[j] = "queued" /\ status' = [status EXCEPT ![j] = "running"]
        /\ UNCHANGED <<period, held>>
    BY <1>4 DEF Claim
  <2>2. \A s \in Runs \ {r} : run'[s] = run[s] /\ (Live(s) => run[s].job # j)
    BY <1>0, <1>a, <1>4, <2>1, ClaimEffect
  <2>3. run'[r].job = j /\ run'[r].pc = "load"
    BY <1>0, <1>4, ClaimEffect
  <2> QED BY <1>0, <2>1, <2>2, <2>3, RunAlone DEF Active
<1>5. CASE NextPeriod \/ UNCHANGED vars
  BY <1>0, <1>5 DEF NextPeriod, vars, GuardedRuns, OneRun, GuardAgrees, NothingHeldAfterEnd, Live
<1> QED
  BY <1>1, <1>2, <1>3, <1>4, <1>5 DEF Next

LEMMA StepDeletesEnded ==
  ASSUME Calm, TypeOK, CopyInv, [Next]_vars
  PROVE  DeletesEnded'
<1> USE DEF ledger, jobRow, bounds
<1>0. /\ DeletesEnded /\ RunTypes /\ GuardedRuns /\ DOMAIN status = Jobs /\ DOMAIN deleting = Jobs
      /\ manual \in Nat
  BY DEF CopyInv, TypeOK, JobTypes, RunTypes
<1>a. ASSUME UNCHANGED deleting, NEW i \in Jobs, status[i] \notin Ended \/ ~DeletesAllowed,
             \A j \in Jobs \ {i} : status'[j] = status[j]
      PROVE  DeletesEnded'
  BY <1>0, <1>a DEF DeletesEnded
<1>b. UNCHANGED <<deleting, status>> => DeletesEnded'
  BY <1>0 DEF DeletesEnded
<1>1. ASSUME NEW j \in Jobs, OwnerStep(j) PROVE DeletesEnded'
  <2>1. CASE Submit(j) \/ CancelQueued(j)
    <3>1. /\ UNCHANGED deleting /\ status[j] \notin Ended
          /\ \A i \in Jobs \ {j} : status'[i] = status[i]
      BY <1>0, <2>1 DEF Submit, Admit, CancelQueued, Ended
    <3> QED BY <1>a, <3>1
  <2>2. CASE RetryFailed(j)
    <3>1. /\ UNCHANGED deleting /\ ~DeletesAllowed
          /\ \A i \in Jobs \ {j} : status'[i] = status[i]
      BY <1>0, <2>2 DEF RetryFailed, Admit, Calm
    <3> QED BY <1>a, <3>1
  <2>3. CASE DeleteRead(j)
    BY <1>0, <2>3 DEF DeleteRead, DeletesEnded
  <2>4. CASE Delete(j)
    BY <1>0, <2>4 DEF Delete, DeletesEnded
  <2> QED BY <1>1, <2>1, <2>2, <2>3, <2>4 DEF OwnerStep
<1>2. ASSUME NEW j \in Jobs, Reap(j) PROVE DeletesEnded'
  <2>1. /\ UNCHANGED deleting /\ status[j] \notin Ended
        /\ \A i \in Jobs \ {j} : status'[i] = status[i]
    BY <1>0, <1>2 DEF Reap, Ended
  <2> QED BY <1>a, <2>1
<1>3. ASSUME NEW r \in Runs, RunStep(r) PROVE DeletesEnded'
  <2>1. CASE Finish(r) \/ FailOrRetry(r) \/ Interrupt(r)
    <3>1. PICK next : Leave(r, next)
      BY <2>1 DEF Finish, FailOrRetry, Interrupt
    <3>2. Live(r)
      BY <2>1 DEF Finish, FailOrRetry, Interrupt, Live
    <3>3. PICK j \in Jobs : j = run[r].job /\ status[j] = "running"
      BY <1>0, <3>2, OnlyRun
    <3>4. /\ UNCHANGED deleting /\ status[j] \notin Ended
          /\ \A i \in Jobs \ {j} : status'[i] = status[i]
      BY <1>0, <3>1, <3>3 DEF Leave, Ended
    <3> QED BY <1>a, <3>4
  <2>2. CASE ~(Finish(r) \/ FailOrRetry(r) \/ Interrupt(r))
    BY <1>b, <1>3, <2>2 DEF RunStep, Load, BeginStage, BeforeCall, TopUp, CallReturns, CallFails,
                            AfterCall, EndStage, Crash
  <2> QED BY <2>1, <2>2
<1>4. ASSUME NEW r \in Runs, NEW j \in Jobs, Claim(r, j) PROVE DeletesEnded'
  <2>1. /\ UNCHANGED deleting /\ status[j] \notin Ended
        /\ \A i \in Jobs \ {j} : status'[i] = status[i]
    BY <1>0, <1>4 DEF Claim, Ended
  <2> QED BY <1>a, <2>1
<1>5. CASE NextPeriod \/ UNCHANGED vars
  BY <1>b, <1>5 DEF NextPeriod, vars
<1> QED
  BY <1>1, <1>2, <1>3, <1>4, <1>5 DEF Next

LEMMA CopyInvKept == ASSUME Calm PROVE Spec => []CopyInv
<1>1. TypeOK /\ CopyInv /\ [Next]_vars => CopyInv'
  BY StepGuardedRuns, StepDeletesEnded DEF CopyInv
<1> QED
  BY <1>1, InitCopyInv, TypeCorrect, PTL DEF Spec

\* When no attempt outlives the reaper and no job is retried while it is being
\* deleted, the guard of every attempt knows exactly what its job holds, a job
\* has one attempt, and a job that has ended holds nothing: through top-ups,
\* crashes, interrupts, retries and changes of period.
THEOREM CopiesNeverGoStale == ASSUME Calm PROVE Spec => []GuardedRuns
<1>1. CopyInv => GuardedRuns
  BY DEF CopyInv
<1> QED
  BY <1>1, CopyInvKept, PTL


-----------------------------------------------------------------------------
(* The ledger and the rows                                                 *)

LEMMA TokensOfOne ==
  ASSUME NEW j, NEW n \in Nat
  PROVE  IsFiniteSet({j} \X (1..n)) /\ Cardinality({j} \X (1..n)) = n
<1>1. IsFiniteSet({j}) /\ Cardinality({j}) = 1
  BY FS_Singleton
<1>2. IsFiniteSet(1..n) /\ Cardinality(1..n) = n
  BY FS_Interval
<1>3. /\ IsFiniteSet({j} \X (1..n))
      /\ Cardinality({j} \X (1..n)) = Cardinality({j}) * Cardinality(1..n)
  BY <1>1, <1>2, FS_Product
<1> QED
  BY <1>1, <1>2, <1>3

\* The part of a period's tokens that a change of one job leaves alone.
LEMMA TokensApart ==
  ASSUME NEW j, NEW n \in Nat, NEW rest, IsFiniteSet(rest), \A x \in rest : x[1] # j
  PROVE  /\ IsFiniteSet(rest \cup ({j} \X (1..n)))
         /\ Cardinality(rest \cup ({j} \X (1..n))) = Cardinality(rest) + n
<1> DEFINE mine == {j} \X (1..n)
<1>1. rest \cap mine = {}
  OBVIOUS
<1>2. IsFiniteSet(mine) /\ Cardinality(mine) = n
  BY TokensOfOne
<1> HIDE DEF mine
<1>3. /\ IsFiniteSet(rest \cup mine)
      /\ Cardinality(rest \cup mine)
           = Cardinality(rest) + Cardinality(mine) - Cardinality(rest \cap mine)
  BY <1>2, FS_Union
<1>4. Cardinality(rest) \in Nat /\ Cardinality({}) = 0
  BY FS_CardinalityType, FS_EmptySet
<1>a. Cardinality(rest \cap mine) = 0
  BY <1>1, <1>4, Zenon
<1>5. IsFiniteSet(rest \cup mine) /\ Cardinality(rest \cup mine) = Cardinality(rest) + n
  BY <1>2, <1>3, <1>4, <1>a
<1> QED
  BY <1>5 DEF mine

\* What the jobs of a period hold follows a change of one job's row.
LEMMA TokensFollow ==
  ASSUME NEW p \in Periods, NEW j \in Jobs, held[j] \in Nat, held'[j] \in Nat,
         held[j] = 0 \/ period[j] = p, period'[j] = p,
         \A i \in Jobs \ {j} : period'[i] = period[i] /\ held'[i] = held[i],
         IsFiniteSet(TokensHeld(p))
  PROVE  /\ IsFiniteSet(TokensHeld(p)')
         /\ HeldIn(p)' = HeldIn(p) - held[j] + held'[j]
<1> DEFINE rest == {x \in TokensHeld(p) : x[1] # j}
<1>1. IsFiniteSet(rest)
  BY FS_Subset
<1>2. TokensHeld(p) = rest \cup ({j} \X (1..held[j]))
  <2>1. TokensHeld(p) \subseteq rest \cup ({j} \X (1..held[j]))
    BY DEF TokensHeld
  <2>2. {j} \X (1..held[j]) \subseteq TokensHeld(p)
    BY DEF TokensHeld
  <2> QED BY <2>1, <2>2
<1>3. TokensHeld(p)' = rest \cup ({j} \X (1..held'[j]))
  <2>1. TokensHeld(p)' \subseteq rest \cup ({j} \X (1..held'[j]))
    BY DEF TokensHeld
  <2>2. rest \subseteq TokensHeld(p)'
    BY DEF TokensHeld
  <2>3. {j} \X (1..held'[j]) \subseteq TokensHeld(p)'
    BY DEF TokensHeld
  <2> QED BY <2>1, <2>2, <2>3
<1>4. \A x \in rest : x[1] # j
  OBVIOUS
<1> HIDE DEF rest
<1>5. Cardinality(rest) \in Nat
  BY <1>1, FS_CardinalityType
<1>t. ASSUME NEW n \in Nat
      PROVE  /\ IsFiniteSet(rest \cup ({j} \X (1..n)))
             /\ Cardinality(rest \cup ({j} \X (1..n))) = Cardinality(rest) + n
  BY ONLY <1>1, <1>4, TokensApart
<1>6. HeldIn(p) = Cardinality(rest) + held[j]
  <2>1. Cardinality(rest \cup ({j} \X (1..held[j]))) = Cardinality(rest) + held[j]
    BY <1>t, Zenon
  <2> QED BY <1>2, <2>1, Zenon DEF HeldIn
<1>7. IsFiniteSet(TokensHeld(p)') /\ HeldIn(p)' = Cardinality(rest) + held'[j]
  <2>1. /\ IsFiniteSet(rest \cup ({j} \X (1..held'[j])))
        /\ Cardinality(rest \cup ({j} \X (1..held'[j]))) = Cardinality(rest) + held'[j]
    BY <1>t, Zenon
  <2> QED BY <1>3, <2>1, Zenon DEF HeldIn
<1> QED
  BY <1>5, <1>6, <1>7


LedgerInv == \A p \in Periods : IsFiniteSet(TokensHeld(p)) /\ reserved[p] = HeldIn(p)

LEMMA InitLedgerInv == Init => LedgerInv
<1> SUFFICES ASSUME Init, NEW p \in Periods
             PROVE  IsFiniteSet(TokensHeld(p)) /\ reserved[p] = HeldIn(p)
  BY DEF LedgerInv
<1>1. TokensHeld(p) = {}
  BY DEF Init, TokensHeld
<1>2. reserved[p] = 0
  BY DEF Init
<1> QED
  BY <1>1, <1>2, FS_EmptySet, Zenon DEF HeldIn

\* No job holds more than its period has reserved.
LEMMA HeldIsReserved ==
  ASSUME TypeOK, LedgerInv, NEW j \in Jobs
  PROVE  held[j] <= reserved[period[j]]
<1>1. PICK p \in Periods : p = period[j]
  BY DEF TypeOK, JobTypes
<1>2. {j} \X (1..held[j]) \subseteq TokensHeld(p)
  BY <1>1 DEF TokensHeld
<1>3. IsFiniteSet(TokensHeld(p)) /\ reserved[p] = HeldIn(p)
  BY DEF LedgerInv
<1>4. Cardinality({j} \X (1..held[j])) = held[j]
  BY TokensOfOne DEF TypeOK, JobTypes
<1>5. Cardinality({j} \X (1..held[j])) <= Cardinality(TokensHeld(p))
  BY <1>2, <1>3, FS_Subset
<1> QED
  BY <1>1, <1>3, <1>4, <1>5 DEF HeldIn

\* A step that changes no row and no reservation.
LEMMA LedgerRests ==
  ASSUME LedgerInv, UNCHANGED <<reserved, held, period>>
  PROVE  LedgerInv'
  BY DEF LedgerInv, HeldIn, TokensHeld

\* A step that changes one job's row and its period's reservation alike.
LEMMA LedgerMoves ==
  ASSUME TypeOK, LedgerInv, NEW j \in Jobs, NEW p \in Periods,
         held'[j] \in Nat, period'[j] = p, held[j] = 0 \/ period[j] = p,
         \A i \in Jobs \ {j} : period'[i] = period[i] /\ held'[i] = held[i],
         reserved'[p] = reserved[p] - held[j] + held'[j],
         \A q \in Periods \ {p} : reserved'[q] = reserved[q]
  PROVE  LedgerInv'
<1>1. IsFiniteSet(TokensHeld(p)') /\ reserved'[p] = HeldIn(p)'
  <2>1. held[j] \in Nat
    BY DEF TypeOK, JobTypes
  <2>2. IsFiniteSet(TokensHeld(p)) /\ reserved[p] = HeldIn(p)
    BY DEF LedgerInv
  <2> QED BY <2>1, <2>2, TokensFollow
<1>2. ASSUME NEW q \in Periods \ {p}
      PROVE  IsFiniteSet(TokensHeld(q)') /\ reserved'[q] = HeldIn(q)'
  <2>1. \A i \in Jobs : (period'[i] = q /\ held'[i] \in Nat \ {0}) <=>
                        (period[i] = q /\ held[i] \in Nat \ {0})
    BY <1>2
  <2>2. \A i \in Jobs : period[i] = q => held'[i] = held[i] \/ (held[i] = 0 /\ i = j)
    OBVIOUS
  <2>3. TokensHeld(q)' = TokensHeld(q)
    <3>1. TokensHeld(q)' \subseteq TokensHeld(q)
      BY <1>2 DEF TokensHeld
    <3>2. TokensHeld(q) \subseteq TokensHeld(q)'
      BY <1>2 DEF TokensHeld
    <3> QED BY <3>1, <3>2
  <2>4. IsFiniteSet(TokensHeld(q)) /\ reserved[q] = HeldIn(q)
    BY DEF LedgerInv
  <2> QED BY <2>3, <2>4, Zenon DEF HeldIn
<1> QED
  BY <1>1, <1>2 DEF LedgerInv


\* What the repository calls release gives back all that the job holds.
LEMMA ReleaseKeepsLedger ==
  ASSUME TypeOK, LedgerInv, NEW j \in Jobs, Release(j), UNCHANGED period
  PROVE  LedgerInv'
<1>0. /\ held \in [Jobs -> Nat] /\ reserved \in [Periods -> Nat] /\ period \in [Jobs -> Periods]
  BY DEF TypeOK, LedgerTypes, JobTypes
<1>1. PICK p \in Periods : p = period[j]
  BY <1>0
<1>2. held[j] <= reserved[p]
  BY <1>1, HeldIsReserved
<1>3. /\ reserved' = [reserved EXCEPT ![p] = Less(reserved[p], held[j])]
      /\ held' = [held EXCEPT ![j] = 0]
  BY <1>1 DEF Release
<1>4. Less(reserved[p], held[j]) = reserved[p] - held[j] + 0
  BY <1>0, <1>2 DEF Less
<1>5. /\ held'[j] = 0 /\ \A i \in Jobs \ {j} : held'[i] = held[i]
      /\ reserved'[p] = reserved[p] - held[j] + 0
      /\ \A q \in Periods \ {p} : reserved'[q] = reserved[q]
  BY <1>0, <1>3, <1>4
<1> QED
  BY <1>1, <1>5, LedgerMoves

LEMMA AdmitKeepsLedger ==
  ASSUME TypeOK, LedgerInv, NEW j \in Jobs, held[j] = 0, Admit(j)
  PROVE  LedgerInv'
<1>0. /\ held \in [Jobs -> Nat] /\ reserved \in [Periods -> Nat] /\ period \in [Jobs -> Periods]
      /\ now \in Periods /\ Amount \in Nat
  BY AmountIsPositive DEF TypeOK, LedgerTypes, JobTypes
<1>1. /\ reserved' = [reserved EXCEPT ![now] = reserved[now] + Amount]
      /\ period' = [period EXCEPT ![j] = now]
      /\ held' = [held EXCEPT ![j] = Amount]
  BY DEF Admit
<1>2. PICK p \in Periods : p = now
  BY <1>0
<1>3. /\ held'[j] = Amount /\ period'[j] = p
      /\ \A i \in Jobs \ {j} : period'[i] = period[i] /\ held'[i] = held[i]
      /\ reserved'[p] = reserved[p] - held[j] + held'[j]
      /\ \A q \in Periods \ {p} : reserved'[q] = reserved[q]
  BY <1>0, <1>1, <1>2
<1> QED
  BY <1>0, <1>3, LedgerMoves

LEMMA TopUpKeepsLedger ==
  ASSUME TypeOK, GuardedRuns, LedgerInv, NEW r \in Runs, TopUp(r)
  PROVE  LedgerInv'
<1>0. /\ held \in [Jobs -> Nat] /\ reserved \in [Periods -> Nat] /\ period \in [Jobs -> Periods]
      /\ Amount \in Nat /\ RunTypes
  BY AmountIsPositive DEF TypeOK, LedgerTypes, JobTypes
<1>1. CASE Fits(run[r].period)
  <2>1. PICK j \in Jobs, p \in Periods : /\ j = run[r].job /\ p = run[r].period
                                         /\ status[j] = "running" /\ p = period[j]
    BY <1>0, OnlyRun DEF TopUp, Live
  <2>2. /\ reserved' = [reserved EXCEPT ![p] = reserved[p] + Amount]
        /\ held' = [held EXCEPT ![j] = held[j] + Amount]
        /\ UNCHANGED period
    BY <1>1, <2>1 DEF TopUp, Extend, Exists
  <2>3. /\ held'[j] = held[j] + Amount /\ \A i \in Jobs \ {j} : held'[i] = held[i]
        /\ reserved'[p] = reserved[p] - held[j] + held'[j]
        /\ \A q \in Periods \ {p} : reserved'[q] = reserved[q]
    BY <1>0, <2>2
  <2>4. held'[j] \in Nat
    BY <1>0, <2>3
  <2> QED BY <2>1, <2>2, <2>3, <2>4, LedgerMoves
<1>2. CASE ~Fits(run[r].period)
  BY <1>2, LedgerRests DEF TopUp
<1> QED
  BY <1>1, <1>2

\* The copy is what the row holds, and the row is reserved: neither clamp bites.
LEMMA AfterCallEffect ==
  ASSUME TypeOK, GuardedRuns, LedgerInv, NEW r \in Runs, AfterCall(r)
  PROVE  \E j \in Jobs, p \in Periods, c \in Nat :
           /\ p = period[j] /\ run[r].reserved = held[j]
           /\ c = AtMost(run[r].usage, held[j]) /\ c <= held[j]
           /\ held'[j] = held[j] - c /\ held'[j] \in Nat
           /\ \A i \in Jobs \ {j} : held'[i] = held[i]
           /\ reserved'[p] = reserved[p] - c
           /\ used'[p] = used[p] + run[r].usage
           /\ \A q \in Periods \ {p} : reserved'[q] = reserved[q] /\ used'[q] = used[q]
<1>0. /\ held \in [Jobs -> Nat] /\ reserved \in [Periods -> Nat] /\ used \in [Periods -> Nat]
      /\ RunTypes /\ run \in [Runs -> RunState]
  BY DEF TypeOK, LedgerTypes, JobTypes, RunTypes
<1>1. PICK j \in Jobs, p \in Periods : /\ j = run[r].job /\ p = run[r].period /\ p = period[j]
                                       /\ run[r].reserved = held[j]
  BY <1>0, OnlyRun DEF AfterCall, Live, RunState
<1>2. PICK c \in Nat : c = AtMost(run[r].usage, held[j]) /\ c <= held[j]
  BY <1>0, <1>1, AtMostIsNat DEF RunState
<1>3. held[j] <= reserved[p]
  BY <1>1, HeldIsReserved
<1>4. /\ used' = [used EXCEPT ![p] = used[p] + run[r].usage]
      /\ reserved' = [reserved EXCEPT ![p] = Less(reserved[p], c)]
      /\ held' = [held EXCEPT ![j] = Less(held[j], c)]
  BY <1>1, <1>2 DEF AfterCall
<1>5. Less(reserved[p], c) = reserved[p] - c /\ Less(held[j], c) = held[j] - c
  BY <1>0, <1>2, <1>3 DEF Less
<1>6. /\ held'[j] = held[j] - c /\ held'[j] \in Nat
      /\ \A i \in Jobs \ {j} : held'[i] = held[i]
      /\ reserved'[p] = reserved[p] - c
      /\ used'[p] = used[p] + run[r].usage
      /\ \A q \in Periods \ {p} : reserved'[q] = reserved[q] /\ used'[q] = used[q]
  BY <1>0, <1>2, <1>4, <1>5
<1> QED
  BY <1>1, <1>2, <1>6

LEMMA StepLedgerInv ==
  ASSUME TypeOK, CopyInv, LedgerInv, [Next]_vars
  PROVE  LedgerInv'
<1> USE DEF ledger, jobRow, bounds
<1>0. /\ GuardedRuns /\ NothingHeldAfterEnd /\ RunTypes /\ held \in [Jobs -> Nat]
      /\ reserved \in [Periods -> Nat] /\ period \in [Jobs -> Periods]
  BY DEF CopyInv, GuardedRuns, TypeOK, JobTypes, LedgerTypes
<1>1. ASSUME NEW j \in Jobs, OwnerStep(j) \/ Reap(j) PROVE LedgerInv'
  <2>1. CASE Submit(j) \/ RetryFailed(j)
    <3>1. Admit(j) /\ held[j] = 0
      BY <1>0, <2>1 DEF Submit, RetryFailed, NothingHeldAfterEnd, Active
    <3> QED BY <3>1, AdmitKeepsLedger
  <2>2. CASE CancelQueued(j) \/ Reap(j)
    BY <2>2, ReleaseKeepsLedger DEF CancelQueued, Reap
  <2>3. CASE DeleteRead(j)
    BY <2>3, LedgerRests DEF DeleteRead
  <2>4. CASE Delete(j)
    <3>1. held[j] = 0
      BY <1>0, <2>4 DEF Delete, CopyInv, DeletesEnded, NothingHeldAfterEnd, Active, Ended
    <3>2. UNCHANGED <<reserved, held, period>>
      BY <1>0, <2>4, <3>1 DEF Delete
    <3> QED BY <3>2, LedgerRests
  <2> QED BY <1>1, <2>1, <2>2, <2>3, <2>4 DEF OwnerStep
<1>2. ASSUME NEW r \in Runs, RunStep(r) PROVE LedgerInv'
  <2>1. CASE TopUp(r)
    BY <1>0, <2>1, TopUpKeepsLedger
  <2>2. CASE AfterCall(r)
    <3>1. UNCHANGED period
      BY <2>2 DEF AfterCall
    <3>2. PICK j \in Jobs, p \in Periods, c \in Nat :
            /\ p = period[j] /\ c <= held[j]
            /\ held'[j] = held[j] - c /\ held'[j] \in Nat
            /\ \A i \in Jobs \ {j} : held'[i] = held[i]
            /\ reserved'[p] = reserved[p] - c
            /\ \A q \in Periods \ {p} : reserved'[q] = reserved[q]
      BY <1>0, <2>2, AfterCallEffect
    <3>3. reserved'[p] = reserved[p] - held[j] + held'[j]
      BY <1>0, <3>2
    <3> QED BY <3>1, <3>2, <3>3, LedgerMoves
  <2>3. CASE Finish(r) \/ FailOrRetry(r) \/ Interrupt(r)
    <3>1. PICK next : Leave(r, next)
      BY <2>3 DEF Finish, FailOrRetry, Interrupt
    <3>2. PICK j \in Jobs : j = run[r].job
      BY <1>0, <2>3, OnlyRun DEF Finish, FailOrRetry, Interrupt, Live
    <3>3. UNCHANGED period /\ (Release(j) \/ UNCHANGED <<reserved, held>>)
      BY <3>1, <3>2 DEF Leave
    <3> QED BY <3>3, ReleaseKeepsLedger, LedgerRests
  <2>4. CASE Load(r) \/ BeginStage(r) \/ BeforeCall(r) \/ CallReturns(r) \/ CallFails(r)
             \/ EndStage(r) \/ Crash(r)
    BY <2>4, LedgerRests
       DEF Load, BeginStage, BeforeCall, CallReturns, CallFails, EndStage, Crash
  <2> QED BY <1>2, <2>1, <2>2, <2>3, <2>4 DEF RunStep
<1>3. ASSUME NEW r \in Runs, NEW j \in Jobs, Claim(r, j) PROVE LedgerInv'
  BY <1>3, LedgerRests DEF Claim
<1>4. CASE NextPeriod \/ UNCHANGED vars
  BY <1>4, LedgerRests DEF NextPeriod, vars
<1> QED
  BY <1>1, <1>2, <1>3, <1>4 DEF Next

LEMMA LedgerInvKept == ASSUME Calm PROVE Spec => []LedgerInv
<1>1. TypeOK /\ CopyInv /\ LedgerInv /\ [Next]_vars => LedgerInv'
  BY StepLedgerInv
<1> QED
  BY <1>1, InitLedgerInv, TypeCorrect, CopyInvKept, PTL DEF Spec

\* Under the same calm, the ledger's reserved tokens are, in every period, the
\* tokens that the rows of its jobs hold: no path of release, top-up, report or
\* retry loses one or gives one back twice, and no clamp at zero hides a loss.
THEOREM LedgerStaysBalanced == ASSUME Calm PROVE Spec => []LedgerBalanced
<1>1. LedgerInv => LedgerBalanced
  BY DEF LedgerInv, LedgerBalanced
<1> QED
  BY <1>1, LedgerInvKept, PTL


-----------------------------------------------------------------------------
(* How far a budget is overspent                                           *)

\* The jobs that counted in a period and have no reservation of it left.
SpentIn(p) == {j \in charged[p] : ~(period[j] = p /\ held[j] > 0)}

Within(p) == used[p] + reserved[p] <= Limit + (MaxCall - 1) * Cardinality(SpentIn(p))

\* A job that is queued or runs counts in its period, and a call is made only on a
\* copy that is not used up.
SpendFacts ==
  /\ \A p \in Periods : IsFiniteSet(charged[p])
  /\ \A j \in Jobs : status[j] \in Active => j \in charged[period[j]]
  /\ \A r \in Runs : run[r].pc \in {"calling", "record"} => run[r].reserved > 0
  /\ \A r \in Runs : run[r].pc = "record" => run[r].usage <= MaxCall

LEMMA TimesGrows ==
  ASSUME NEW k \in Nat, NEW m \in Nat, NEW n \in Nat, m <= n
  PROVE  k * m \in Nat /\ k * m <= k * n
<1>1. PICK d \in Nat : n = m + d
  <2>1. n - m \in Nat
    OBVIOUS
  <2>2. n = m + (n - m)
    OBVIOUS
  <2> QED BY <2>1, <2>2
<1>2. k * m \in Nat /\ k * d \in Nat
  OBVIOUS
<1>3. k * n = k * m + k * d
  BY <1>1
<1> QED
  BY <1>2, <1>3

LEMMA TimesNext ==
  ASSUME NEW k \in Nat, NEW m \in Nat
  PROVE  k * (m + 1) = k * m + k
  OBVIOUS

LEMMA SpentIsFinite ==
  ASSUME SpendFacts, NEW p \in Periods
  PROVE  IsFiniteSet(SpentIn(p)) /\ Cardinality(SpentIn(p)) \in Nat
<1>1. SpentIn(p) \subseteq charged[p] /\ IsFiniteSet(charged[p])
  BY DEF SpentIn, SpendFacts
<1> QED
  BY <1>1, FS_Subset, FS_CardinalityType

\* What is granted within the limit is within the bound.
LEMMA WithinLimit ==
  ASSUME TypeOK, TypeOK', SpendFacts', NEW p \in Periods, used'[p] + reserved'[p] <= Limit
  PROVE  Within(p)'
<1>1. PICK n \in Nat : n = Cardinality(SpentIn(p)')
  <2>1. SpentIn(p)' \subseteq charged'[p] /\ IsFiniteSet(charged'[p])
    BY DEF SpentIn, SpendFacts
  <2> QED BY <2>1, FS_Subset, FS_CardinalityType
<1>2. MaxCall - 1 \in Nat /\ Limit \in Nat
  BY TokensAssumption
<1>3. (MaxCall - 1) * n \in Nat
  BY <1>2
<1>4. used'[p] \in Nat /\ reserved'[p] \in Nat
  BY DEF TypeOK, LedgerTypes
<1> QED
  BY <1>1, <1>2, <1>3, <1>4 DEF Within


\* A step that spends no more than it gives back, and un-spends no job.
LEMMA WithinStays ==
  ASSUME TypeOK, TypeOK', SpendFacts, SpendFacts', NEW p \in Periods, Within(p),
         used'[p] + reserved'[p] <= used[p] + reserved[p],
         SpentIn(p) \subseteq SpentIn(p)'
  PROVE  Within(p)'
<1>1. IsFiniteSet(SpentIn(p)')
  <2>1. SpentIn(p)' \subseteq charged'[p] /\ IsFiniteSet(charged'[p])
    BY DEF SpentIn, SpendFacts
  <2> QED BY <2>1, FS_Subset
<1>2. PICK n \in Nat : n = Cardinality(SpentIn(p)')
  BY <1>1, FS_CardinalityType
<1>3. PICK m \in Nat : m = Cardinality(SpentIn(p)) /\ m <= n
  BY <1>1, <1>2, SpentIsFinite, FS_Subset
<1>4. (MaxCall - 1) \in Nat /\ Limit \in Nat
  BY TokensAssumption
<1>5. /\ (MaxCall - 1) * m \in Nat /\ (MaxCall - 1) * n \in Nat
      /\ (MaxCall - 1) * m <= (MaxCall - 1) * n
  <2>1. PICK k \in Nat : k = MaxCall - 1
    BY <1>4
  <2>2. k * m \in Nat /\ k * m <= k * n
    BY <1>3, TimesGrows
  <2>3. k * n \in Nat
    OBVIOUS
  <2> QED BY <2>1, <2>2, <2>3
<1>6. used'[p] + reserved'[p] <= Limit + (MaxCall - 1) * n
  <2>1. used'[p] \in Nat /\ reserved'[p] \in Nat /\ used[p] \in Nat /\ reserved[p] \in Nat
    BY DEF TypeOK, LedgerTypes
  <2> QED BY <1>3, <1>4, <1>5, <2>1 DEF Within
<1> QED
  BY <1>2, <1>6 DEF Within

\* One job overspends by less than one call, and holds nothing afterwards.
LEMMA WithinGrows ==
  ASSUME TypeOK, TypeOK', SpendFacts, SpendFacts', NEW p \in Periods, NEW j \in Jobs, Within(p),
         used'[p] + reserved'[p] <= used[p] + reserved[p] + (MaxCall - 1),
         SpentIn(p)' = SpentIn(p) \cup {j}, j \notin SpentIn(p)
  PROVE  Within(p)'
<1>1. PICK m \in Nat : m = Cardinality(SpentIn(p)) /\ IsFiniteSet(SpentIn(p))
  BY SpentIsFinite
<1>2. Cardinality(SpentIn(p)') = m + 1
  BY <1>1, FS_AddElement
<1>4. (MaxCall - 1) \in Nat /\ Limit \in Nat
  BY TokensAssumption
<1>5. (MaxCall - 1) * m \in Nat /\ (MaxCall - 1) * (m + 1) = (MaxCall - 1) * m + (MaxCall - 1)
  BY <1>4, TimesNext
<1>6. used'[p] + reserved'[p] <= Limit + (MaxCall - 1) * (m + 1)
  <2>1. used'[p] \in Nat /\ reserved'[p] \in Nat /\ used[p] \in Nat /\ reserved[p] \in Nat
    BY DEF TypeOK, LedgerTypes
  <2> QED BY <1>1, <1>4, <1>5, <2>1 DEF Within
<1> QED
  BY <1>2, <1>6 DEF Within

\* A step that charges nobody, queues no ended job and sends no attempt into a
\* call.
LEMMA SpendRests ==
  ASSUME TypeOK, SpendFacts, UNCHANGED <<charged, period>>,
         \A j \in Jobs : status'[j] \in Active => status[j] \in Active,
         \A r \in Runs : \/ run'[r].pc \notin {"calling", "record"}
                         \/ run'[r] = run[r]
  PROVE  SpendFacts'
  BY DEF SpendFacts

LEMMA GotoArrives ==
  ASSUME RunTypes, NEW r \in Runs, NEW pc \in RunPC, Goto(r, pc)
  PROVE  run'[r].pc = pc /\ \A s \in Runs \ {r} : run'[s] = run[s]
<1>1. run'[r] = [run[r] EXCEPT !.pc = pc] /\ run[r] \in RunState
  BY GotoEffect DEF RunTypes
<1>2. run'[r].pc = pc
  BY <1>1 DEF RunState
<1> QED
  BY <1>2, GotoEffect

LEMMA StepSpendFacts ==
  ASSUME TypeOK, CopyInv, SpendFacts, [Next]_vars
  PROVE  SpendFacts'
<1> USE DEF ledger, jobRow, bounds
<1>0. /\ GuardedRuns /\ RunTypes /\ status \in [Jobs -> JobStatus] /\ run \in [Runs -> RunState]
      /\ charged \in [Periods -> SUBSET Jobs] /\ period \in [Jobs -> Periods] /\ now \in Periods
  BY DEF CopyInv, TypeOK, JobTypes, LedgerTypes, RunTypes
<1>1. ASSUME NEW j \in Jobs, OwnerStep(j) \/ Reap(j) PROVE SpendFacts'
  <2>1. CASE Submit(j) \/ RetryFailed(j)
    <3>1. /\ charged' = [charged EXCEPT ![now] = charged[now] \cup {j}]
          /\ period' = [period EXCEPT ![j] = now] /\ status' = [status EXCEPT ![j] = "queued"]
          /\ UNCHANGED run
      BY <2>1 DEF Submit, RetryFailed, Admit
    <3>2. /\ \A p \in Periods : IsFiniteSet(charged'[p])
          /\ \A p \in Periods : charged[p] \subseteq charged'[p]
          /\ j \in charged'[now] /\ period'[j] = now
          /\ \A i \in Jobs \ {j} : period'[i] = period[i] /\ status'[i] = status[i]
      BY <1>0, <3>1, FS_AddElement DEF SpendFacts
    <3>3. \A i \in Jobs : status'[i] \in Active => i \in charged'[period'[i]]
      BY <1>0, <3>2 DEF SpendFacts
    <3> QED BY <3>1, <3>2, <3>3 DEF SpendFacts
  <2>2. CASE CancelQueued(j) \/ Reap(j) \/ DeleteRead(j) \/ Delete(j)
    <3>1. /\ UNCHANGED <<charged, period, run>>
          /\ \/ \E end \in {"cancelled", "failed", "deleted"} : status' = [status EXCEPT ![j] = end]
             \/ UNCHANGED status
      BY <2>2 DEF CancelQueued, Reap, DeleteRead, Delete
    <3>2. \A i \in Jobs : status'[i] \in Active => status[i] \in Active
      BY <1>0, <3>1 DEF Active
    <3> QED BY <3>1, <3>2, SpendRests
  <2> QED BY <1>1, <2>1, <2>2 DEF OwnerStep
<1>2. ASSUME NEW r \in Runs, RunStep(r) PROVE SpendFacts'
  <2>1. CASE TopUp(r) /\ Fits(run[r].period)
    <3>1. /\ UNCHANGED <<charged, period, status>>
          /\ run' = [run EXCEPT ![r].pc = "calling", ![r].reserved = run[r].reserved + Amount]
      BY <2>1 DEF TopUp, Extend
    <3>2. run'[r].pc = "calling" /\ run'[r].reserved > 0 /\ \A s \in Runs \ {r} : run'[s] = run[s]
      <4>1. PICK n \in Nat : n = run[r].reserved + Amount /\ n > 0
        BY <1>0, AmountIsPositive DEF RunState
      <4>2. run' = [run EXCEPT ![r].pc = "calling", ![r].reserved = n]
        BY <3>1, <4>1
      <4>3. run'[r].pc = "calling" /\ run'[r].reserved = n
        BY <1>0, <4>2 DEF RunState
      <4> QED BY <1>0, <3>1, <4>1, <4>3
    <3> QED BY <3>1, <3>2 DEF SpendFacts
  <2>2. CASE TopUp(r) /\ ~Fits(run[r].period)
    <3>1. Goto(r, "error") /\ UNCHANGED <<charged, period, status>>
      BY <2>2 DEF TopUp
    <3>2. run'[r].pc = "error" /\ \A s \in Runs \ {r} : run'[s] = run[s]
      BY <1>0, <3>1, GotoArrives DEF RunPC
    <3> QED BY <3>1, <3>2, SpendRests
  <2>3. CASE BeginStage(r) \/ CallFails(r) \/ EndStage(r)
    <3>1. PICK pc \in {"ready", "error", "stage", "ending"} : Goto(r, pc)
      BY <2>3 DEF BeginStage, CallFails, EndStage
    <3>2. UNCHANGED <<charged, period, status>>
      BY <2>3 DEF BeginStage, CallFails, EndStage
    <3>3. run'[r].pc = pc /\ \A s \in Runs \ {r} : run'[s] = run[s]
      BY <1>0, <3>1, GotoArrives DEF RunPC
    <3> QED BY <3>1, <3>2, <3>3, SpendRests
  <2>4. CASE BeforeCall(r)
    <3>1. Goto(r, "calling") /\ run[r].reserved > 0 /\ UNCHANGED <<charged, period, status>>
      BY <2>4 DEF BeforeCall
    <3>2. /\ run'[r].pc = "calling" /\ run'[r].reserved = run[r].reserved
          /\ \A s \in Runs \ {r} : run'[s] = run[s]
      BY <1>0, <3>1, GotoArrives, GotoFields DEF RunPC
    <3> QED BY <3>1, <3>2 DEF SpendFacts
  <2>5. CASE CallReturns(r)
    <3>1. PICK tokens \in 1..MaxCall :
            run' = [run EXCEPT ![r].pc = "record", ![r].usage = tokens,
                               ![r].total = run[r].total + tokens]
      BY <2>5 DEF CallReturns
    <3>2. /\ run'[r].usage <= MaxCall /\ run'[r].reserved = run[r].reserved
          /\ \A s \in Runs \ {r} : run'[s] = run[s]
      BY <1>0, <3>1, TokensAssumption DEF RunState
    <3>3. UNCHANGED <<charged, period, status>> /\ run[r].pc = "calling"
      BY <2>5 DEF CallReturns
    <3> QED BY <3>2, <3>3 DEF SpendFacts
  <2>6. CASE AfterCall(r)
    <3>1. UNCHANGED <<charged, period, status>>
      BY <2>6 DEF AfterCall
    <3>2. run'[r].pc = "ready" /\ \A s \in Runs \ {r} : run'[s] = run[s]
      BY <1>0, <2>6 DEF AfterCall, RunState
    <3> QED BY <3>1, <3>2, SpendRests
  <2>7. CASE Load(r)
    <3>1. run'[r].pc \in {"idle", "stage"} /\ \A s \in Runs \ {r} : run'[s] = run[s]
      BY <2>7, LoadEffect
    <3>2. UNCHANGED <<charged, period, status>>
      BY <2>7 DEF Load
    <3> QED BY <3>1, <3>2, SpendRests
  <2>8. CASE Finish(r) \/ FailOrRetry(r) \/ Interrupt(r) \/ Crash(r)
    <3>1. Crash(r) \/ \E next : Leave(r, next)
      BY <2>8 DEF Finish, FailOrRetry, Interrupt
    <3>2. PICK j \in Jobs : j = run[r].job /\ status[j] = "running"
      BY <1>0, <2>8, OnlyRun DEF Finish, FailOrRetry, Interrupt, Crash, Live
    <3>3. /\ UNCHANGED <<charged, period>> /\ run' = [run EXCEPT ![r] = NoRun]
          /\ \A i \in Jobs \ {j} : status'[i] = status[i]
      BY <1>0, <3>1, <3>2 DEF Crash, Leave
    <3>4. \A i \in Jobs : status'[i] \in Active => status[i] \in Active
      BY <3>2, <3>3 DEF Active
    <3>5. run'[r].pc = "idle" /\ \A s \in Runs \ {r} : run'[s] = run[s]
      BY <1>0, <3>3, RunCleared, NoRunType
    <3> QED BY <3>3, <3>4, <3>5, SpendRests
  <2> QED BY <1>2, <2>1, <2>2, <2>3, <2>4, <2>5, <2>6, <2>7, <2>8 DEF RunStep
<1>3. ASSUME NEW r \in Runs, NEW j \in Jobs, Claim(r, j) PROVE SpendFacts'
  <2>1. run'[r].pc = "load" /\ \A s \in Runs \ {r} : run'[s] = run[s]
    BY <1>0, <1>3, ClaimEffect
  <2>2. /\ UNCHANGED <<charged, period>> /\ status[j] = "queued"
        /\ \A i \in Jobs \ {j} : status'[i] = status[i]
    BY <1>0, <1>3 DEF Claim
  <2>3. \A i \in Jobs : status'[i] \in Active => status[i] \in Active
    BY <2>2 DEF Active
  <2> QED BY <2>1, <2>2, <2>3, SpendRests
<1>4. CASE NextPeriod \/ UNCHANGED vars
  BY <1>4, SpendRests DEF NextPeriod, vars
<1> QED
  BY <1>1, <1>2, <1>3, <1>4 DEF Next

\* Only a report adds to what is used; what it adds beyond the reservation is
\* less than one call, and leaves the job without a reservation.
LEMMA AfterCallStaysWithin ==
  ASSUME TypeOK, TypeOK', GuardedRuns, LedgerInv, SpendFacts, SpendFacts',
         NEW r \in Runs, AfterCall(r), NEW p \in Periods, Within(p)
  PROVE  Within(p)'
<1>0. /\ held \in [Jobs -> Nat] /\ reserved \in [Periods -> Nat] /\ used \in [Periods -> Nat]
      /\ run[r].usage \in Nat /\ run[r].usage <= MaxCall /\ run[r].reserved > 0
      /\ UNCHANGED <<charged, period>> /\ MaxCall \in Nat
  BY TokensAssumption
     DEF AfterCall, TypeOK, LedgerTypes, JobTypes, RunTypes, RunState, SpendFacts
<1>1. PICK j \in Jobs, q \in Periods, c \in Nat :
        /\ q = period[j] /\ run[r].reserved = held[j]
        /\ c = AtMost(run[r].usage, held[j]) /\ c <= held[j]
        /\ held'[j] = held[j] - c /\ held'[j] \in Nat
        /\ \A i \in Jobs \ {j} : held'[i] = held[i]
        /\ reserved'[q] = reserved[q] - c
        /\ used'[q] = used[q] + run[r].usage
        /\ \A o \in Periods \ {q} : reserved'[o] = reserved[o] /\ used'[o] = used[o]
  BY AfterCallEffect
<1>2. SpentIn(p) \subseteq SpentIn(p)'
  BY <1>0, <1>1 DEF SpentIn, TypeOK, LedgerTypes
<1>3. CASE p # q \/ run[r].usage <= held[j]
  <2>1. used'[p] + reserved'[p] <= used[p] + reserved[p]
    <3>1. CASE p # q
      BY <1>0, <1>1, <3>1
    <3>2. CASE p = q /\ run[r].usage <= held[j]
      BY <1>0, <1>1, <3>2 DEF AtMost
    <3> QED BY <1>3, <3>1, <3>2
  <2> QED BY <1>2, <2>1, WithinStays
<1>4. CASE p = q /\ held[j] < run[r].usage
  <2>1. c = held[j] /\ held'[j] = 0 /\ held[j] > 0
    BY <1>0, <1>1, <1>4 DEF AtMost
  <2>2. used'[p] + reserved'[p] <= used[p] + reserved[p] + (MaxCall - 1)
    BY <1>0, <1>1, <1>4, <2>1
  <2>3. j \in charged[p]
    <3>1. status[j] \in Active
      BY <1>1, <2>1 DEF GuardedRuns, NothingHeldAfterEnd
    <3> QED BY <1>1, <1>4, <3>1 DEF SpendFacts
  <2>4. j \notin SpentIn(p)
    BY <1>1, <1>4, <2>1 DEF SpentIn
  <2>5. SpentIn(p)' = SpentIn(p) \cup {j}
    BY <1>0, <1>1, <1>4, <2>1, <2>3 DEF SpentIn, TypeOK, LedgerTypes
  <2> QED BY <2>2, <2>4, <2>5, WithinGrows
<1> QED
  BY <1>0, <1>1, <1>3, <1>4

LEMMA StepOvershoot ==
  ASSUME TypeOK, TypeOK', CopyInv, LedgerInv, SpendFacts, SpendFacts', [Next]_vars,
         NEW p \in Periods, Within(p)
  PROVE  Within(p)'
<1> USE DEF ledger, jobRow, bounds
<1>0. /\ GuardedRuns /\ held \in [Jobs -> Nat] /\ reserved \in [Periods -> Nat]
      /\ used \in [Periods -> Nat] /\ charged \in [Periods -> SUBSET Jobs]
      /\ reserved' \in [Periods -> Nat] /\ held' \in [Jobs -> Nat]
  BY DEF CopyInv, TypeOK, JobTypes, LedgerTypes
<1>a. now \in Periods /\ RunTypes /\ period \in [Jobs -> Periods]
  BY DEF TypeOK, JobTypes, LedgerTypes
<1>1. CASE reserved'[p] > reserved[p]
  BY <1>1, StepGrantsFit, WithinLimit
<1>2. CASE \E r \in Runs : AfterCall(r)
  BY <1>0, <1>2, AfterCallStaysWithin
<1>3. CASE reserved'[p] <= reserved[p] /\ ~(\E r \in Runs : AfterCall(r))
  <2>1. UNCHANGED used
    BY <1>3 DEF Next, OwnerStep, Submit, CancelQueued, RetryFailed, DeleteRead, Delete, Admit, Reap,
       RunStep, Load, BeginStage, BeforeCall, TopUp, CallReturns, CallFails, EndStage, Finish,
       FailOrRetry, Interrupt, Leave, Crash, Claim, NextPeriod, vars
  <2>2. used'[p] + reserved'[p] <= used[p] + reserved[p]
    BY <1>0, <1>3, <2>1
  <2>3. SpentIn(p) \subseteq SpentIn(p)'
    <3>1. CASE \E i \in Jobs : Admit(i)
      <4>1. PICK i \in Jobs : Admit(i)
        BY <3>1
      <4>2. now # p
        BY <1>0, <1>a, <1>3, <4>1, AmountIsPositive DEF Admit
      <4>3. /\ charged' = [charged EXCEPT ![now] = charged[now] \cup {i}]
            /\ period' = [period EXCEPT ![i] = now] /\ held' = [held EXCEPT ![i] = Amount]
        BY <4>1 DEF Admit
      <4> QED BY <1>0, <1>a, <4>2, <4>3 DEF SpentIn
    <3>2. CASE \E r \in Runs : TopUp(r) /\ Fits(run[r].period)
      <4>1. PICK r \in Runs : TopUp(r) /\ Fits(run[r].period)
        BY <3>2
      <4>2. PICK i \in Jobs : i = run[r].job /\ run[r].period = period[i] /\ status[i] = "running"
        BY <1>0, <1>a, <4>1, OnlyRun DEF TopUp, Live
      <4>3. /\ reserved' = [reserved EXCEPT ![period[i]] = reserved[period[i]] + Amount]
            /\ held' = [held EXCEPT ![i] = held[i] + Amount] /\ UNCHANGED <<charged, period>>
        BY <4>1, <4>2 DEF TopUp, Extend, Exists
      <4>4. period[i] # p
        BY <1>0, <1>a, <1>3, <4>3, AmountIsPositive
      <4> QED BY <1>0, <1>a, <4>3, <4>4 DEF SpentIn
    <3>3. CASE ~(\E i \in Jobs : Admit(i)) /\ ~(\E r \in Runs : TopUp(r) /\ Fits(run[r].period))
      <4>1. /\ UNCHANGED <<charged, period>>
            /\ UNCHANGED held \/ \E i : held' = [held EXCEPT ![i] = 0]
        BY <1>3, <3>3 DEF Next, OwnerStep, Submit, CancelQueued, RetryFailed, DeleteRead, Delete,
           Reap, Release, RunStep, Load, BeginStage, BeforeCall, TopUp, CallReturns, CallFails,
           EndStage, Finish, FailOrRetry, Interrupt, Leave, Crash, Claim, NextPeriod, vars
      <4> QED BY <1>0, <1>a, <4>1 DEF SpentIn
    <3> QED BY <3>1, <3>2, <3>3
  <2> QED BY <2>2, <2>3, WithinStays
<1> QED
  BY <1>0, <1>1, <1>2, <1>3

LEMMA SpendFactsKept == ASSUME Calm PROVE Spec => []SpendFacts
<1>1. Init => SpendFacts
  BY FS_EmptySet DEF Init, SpendFacts, NoRun, Active
<1>2. TypeOK /\ CopyInv /\ SpendFacts /\ [Next]_vars => SpendFacts'
  BY StepSpendFacts
<1> QED
  BY <1>1, <1>2, TypeCorrect, CopyInvKept, PTL DEF Spec

LEMMA InitOvershoot == ASSUME Init PROVE OvershootBounded
<1> SUFFICES ASSUME NEW p \in Periods PROVE Within(p)
  BY DEF OvershootBounded, Within, SpentIn
<1>1. SpentIn(p) = {}
  BY DEF Init, SpentIn
<1>2. Cardinality(SpentIn(p)) = 0
  BY <1>1, FS_EmptySet, Zenon
<1>3. used[p] = 0 /\ reserved[p] = 0
  BY DEF Init
<1> QED
  BY <1>2, <1>3, TokensAssumption DEF Within

\* A period's budget is overspent by less than one call for every job that
\* counted in it and has used up its reservation, and a job that still holds
\* tokens has not overspent yet: for any number of jobs, attempts and periods.
THEOREM OvershootIsBounded == ASSUME Calm PROVE Spec => []OvershootBounded
<1>1. Init => OvershootBounded
  BY InitOvershoot
<1>2. TypeOK /\ TypeOK' /\ CopyInv /\ LedgerInv /\ SpendFacts /\ SpendFacts' /\ OvershootBounded
        /\ [Next]_vars => OvershootBounded'
  <2> SUFFICES ASSUME TypeOK, TypeOK', CopyInv, LedgerInv, SpendFacts, SpendFacts',
                      OvershootBounded, [Next]_vars, NEW p \in Periods
               PROVE  Within(p)'
    BY DEF OvershootBounded, Within, SpentIn
  <2>1. Within(p)
    BY DEF OvershootBounded, Within, SpentIn
  <2> QED BY <2>1, StepOvershoot
<1> QED
  BY <1>1, <1>2, TypeCorrect, CopyInvKept, LedgerInvKept, SpendFactsKept, PTL DEF Spec
=============================================================================
