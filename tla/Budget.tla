------------------------------- MODULE Budget -------------------------------
(***************************************************************************)
(* The token budget of one principal: its ledger row of every period, the  *)
(* reservation every job carries, and the guard that an attempt consults   *)
(* before each call of the model and reports to after it.  The guard keeps *)
(* a copy of the reservation, read once, when the attempt starts.          *)
(*                                                                         *)
(* A step is one transaction. Principals share no row, so one is enough.   *)
(* The queue around it appears as the moves JobLifecycle allows.           *)
(***************************************************************************)
EXTENDS Integers, FiniteSets, FiniteSetsExt

CONSTANTS
  Jobs,         \* the principal's jobs
  Runs,         \* attempts that may be alive at the same time
  NumPeriods,   \* bound: budget periods
  Limit,        \* the principal's budget per period
  Reservation,  \* job_token_reservation
  MaxCall,      \* the most tokens one call may bill
  LateWorkers,  \* may the reaper fail a job whose attempt is still alive?
  DeletesAllowed,  \* does the owner delete jobs?
  MaxStops,     \* bound: interrupts and crashes of attempts, together
  MaxManual,    \* bound: retries by the owner, together
  Nil           \* no job

ASSUME PeriodsAssumption == NumPeriods \in Nat \ {0}
ASSUME TokensAssumption ==
  /\ Limit \in Nat
  /\ Reservation \in Nat
  /\ MaxCall \in Nat \ {0}
ASSUME BoundsAssumption ==
  /\ MaxStops \in Nat
  /\ MaxManual \in Nat
  /\ LateWorkers \in BOOLEAN
  /\ DeletesAllowed \in BOOLEAN
ASSUME NilAssumption == Nil \notin Jobs

VARIABLES
  used,       \* principal_usage.used_tokens of every period
  reserved,   \* principal_usage.reserved_tokens of every period
  now,        \* the current period
  status,     \* jobs.status
  period,     \* jobs.budget_period_start
  held,       \* jobs.tokens_reserved
  total,      \* jobs.input_tokens + jobs.output_tokens
  run,        \* the attempts: BudgetGuard and UsageMeter of each
  deleting,   \* a delete request has seen the job ended
  charged,    \* history: the jobs that ever counted in a period
  billed,     \* history: the tokens a period was charged for calls of a job
  stops,      \* bound: interrupts and crashes so far
  manual      \* bound: retries by the owner so far

ledger  == <<used, reserved, charged, billed>>
jobRow  == <<status, period, held, total>>
bounds  == <<stops, manual>>
vars == <<ledger, now, jobRow, run, deleting, bounds>>

Periods  == 1..NumPeriods
Active   == {"queued", "running"}
Ended    == {"succeeded", "failed", "cancelled"}
JobStatus == {"none", "deleted"} \cup Active \cup Ended

AtMost(m, n)  == IF m <= n THEN m ELSE n
AtLeast(m, n) == IF m >= n THEN m ELSE n

\* BudgetPolicy.reservation_for: never more than the budget, at least one token.
Amount == AtLeast(1, AtMost(Reservation, Limit))

NoRun == [pc |-> "idle", job |-> Nil, period |-> 1, reserved |-> 0, usage |-> 0, total |-> 0]
RunPC == {"idle", "load", "stage", "ready", "calling", "record", "error", "ending"}

Live(r) == run[r].pc # "idle"
Exists(j) == status[j] # "deleted"

-----------------------------------------------------------------------------
(* The ledger                                                              *)

FitsUsedOnly(p) == used[p] + Amount <= Limit
\* try_reserve, the condition of its compare-and-set.
Fits(p) == used[p] + reserved[p] + Amount <= Limit

LessUnclamped(n, amount) == n - amount
\* _decrement: never below zero.
Less(n, amount) == IF n >= amount THEN n - amount ELSE 0

ReleaseRowOnly(j) ==
  /\ held' = [held EXCEPT ![j] = 0]
  /\ UNCHANGED reserved

\* release: gives back what the job's row still holds, to the job's period.
Release(j) ==
  /\ reserved' = [reserved EXCEPT ![period[j]] = Less(@, held[j])]
  /\ held'     = [held EXCEPT ![j] = 0]

\* try_reserve for a job that enters the queue, in the transaction that queues it.
Admit(j) ==
  /\ Fits(now)
  /\ reserved' = [reserved EXCEPT ![now] = @ + Amount]
  /\ charged'  = [charged EXCEPT ![now] = @ \cup {j}]
  /\ period'   = [period EXCEPT ![j] = now]
  /\ held'     = [held EXCEPT ![j] = Amount]
  /\ status'   = [status EXCEPT ![j] = "queued"]

-----------------------------------------------------------------------------
(* The owner                                                               *)

\* create: a reservation that does not fit leaves no job behind.
Submit(j) ==
  /\ status[j] = "none"
  /\ Admit(j)
  /\ UNCHANGED <<used, billed, now, total, run, deleting, bounds>>

\* request_cancel, for a queued job.
CancelQueued(j) ==
  /\ status[j] = "queued"
  /\ status' = [status EXCEPT ![j] = "cancelled"]
  /\ Release(j)
  /\ UNCHANGED <<used, charged, billed, now, period, total, run, deleting, bounds>>

\* retry_failed: a fresh reservation, from the period of the retry.
RetryFailed(j) ==
  /\ status[j] = "failed"
  /\ manual < MaxManual
  /\ manual' = manual + 1
  /\ Admit(j)
  /\ UNCHANGED <<used, billed, now, total, run, deleting, stops>>

\* delete_job: reads a job that has ended ...
DeleteRead(j) ==
  /\ DeletesAllowed
  /\ status[j] \in Ended
  /\ ~deleting[j]
  /\ deleting' = [deleting EXCEPT ![j] = TRUE]
  /\ UNCHANGED <<ledger, now, jobRow, run, bounds>>

\* ... and deletes its row, whatever its status is by now.
Delete(j) ==
  /\ deleting[j]
  /\ deleting' = [deleting EXCEPT ![j] = FALSE]
  /\ status' = [status EXCEPT ![j] = "deleted"]
  /\ held'   = [held EXCEPT ![j] = 0]
  /\ UNCHANGED <<ledger, now, period, total, run, bounds>>

\* The clock enters the next period: new reservations are taken from its row.
NextPeriod ==
  /\ now < NumPeriods
  /\ now' = now + 1
  /\ UNCHANGED <<ledger, jobRow, run, deleting, bounds>>

-----------------------------------------------------------------------------
(* An attempt                                                              *)

Goto(r, pc) == run' = [run EXCEPT ![r].pc = pc]

Claim(r, j) ==
  /\ ~Live(r)
  /\ status[j] = "queued"
  /\ status' = [status EXCEPT ![j] = "running"]
  /\ run' = [run EXCEPT ![r] = [NoRun EXCEPT !.pc = "load", !.job = j]]
  /\ UNCHANGED <<ledger, now, period, held, total, deleting, bounds>>

\* _metered: the meter goes on from what earlier attempts have spent.
MeterStart(j) == total[j]

\* _metered: the guard copies the job's reservation, once.
Load(r) ==
  /\ run[r].pc = "load"
  /\ LET j == run[r].job IN
       IF Exists(j)
         THEN run' = [run EXCEPT ![r].pc = "stage", ![r].period = period[j],
                                 ![r].reserved = held[j], ![r].total = MeterStart(j)]
         ELSE run' = [run EXCEPT ![r] = NoRun]
  /\ UNCHANGED <<ledger, now, jobRow, deleting, bounds>>

BeginStage(r) ==
  /\ run[r].pc = "stage"
  /\ Goto(r, "ready")
  /\ UNCHANGED <<ledger, now, jobRow, deleting, bounds>>

ExtendLedgerOnly(r) ==
  /\ reserved' = [reserved EXCEPT ![run[r].period] = @ + Amount]
  /\ UNCHANGED held
  /\ run' = [run EXCEPT ![r].pc = "calling", ![r].reserved = @ + Amount]

\* extend: tops up the ledger, the job's row and the guard's copy. The row is
\* found by the job alone, whatever its status.
Extend(r) ==
  /\ reserved' = [reserved EXCEPT ![run[r].period] = @ + Amount]
  /\ held' = IF Exists(run[r].job) THEN [held EXCEPT ![run[r].job] = @ + Amount] ELSE held
  /\ run'  = [run EXCEPT ![r].pc = "calling", ![r].reserved = @ + Amount]

\* before_call, when the copy is not used up.
BeforeCall(r) ==
  /\ run[r].pc = "ready"
  /\ run[r].reserved > 0
  /\ Goto(r, "calling")
  /\ UNCHANGED <<ledger, now, jobRow, deleting, bounds>>

\* before_call, when it is: top up, or fail with token_budget_exceeded.
TopUp(r) ==
  /\ run[r].pc = "ready"
  /\ run[r].reserved = 0
  /\ IF Fits(run[r].period)
       THEN Extend(r)
       ELSE Goto(r, "error") /\ UNCHANGED <<reserved, held>>
  /\ UNCHANGED <<used, charged, billed, now, status, period, total, deleting, bounds>>

\* The model answers, billing tokens that nobody knew in advance ...
CallReturns(r) ==
  /\ run[r].pc = "calling"
  /\ \E tokens \in 1..MaxCall :
       run' = [run EXCEPT ![r].pc = "record", ![r].usage = tokens, ![r].total = @ + tokens]
  /\ UNCHANGED <<ledger, now, jobRow, deleting, bounds>>

\* ... or fails, and what it billed is unknown.
CallFails(r) ==
  /\ run[r].pc = "calling"
  /\ Goto(r, "error")
  /\ UNCHANGED <<ledger, now, jobRow, deleting, bounds>>

\* after_call and record: the call's tokens are used, what the copy covers of
\* them is no longer reserved.
AfterCall(r) ==
  /\ run[r].pc = "record"
  /\ LET p == run[r].period
         j == run[r].job
         consumed == AtMost(run[r].usage, run[r].reserved)
     IN /\ used'     = [used EXCEPT ![p] = @ + run[r].usage]
        /\ reserved' = [reserved EXCEPT ![p] = Less(@, consumed)]
        /\ held'     = [held EXCEPT ![j] = Less(@, consumed)]
        /\ billed'   = [billed EXCEPT ![j] = @ + run[r].usage]
        /\ run'      = [run EXCEPT ![r].pc = "ready", ![r].usage = 0,
                                   ![r].reserved = @ - consumed]
  /\ UNCHANGED <<charged, now, status, period, total, deleting, bounds>>

PersistAdds(r) ==
  total' = IF Exists(run[r].job) THEN [total EXCEPT ![run[r].job] = @ + run[r].total] ELSE total

\* _usage_columns(meter.total), written over the job's totals.
Persist(r) ==
  total' = IF Exists(run[r].job) THEN [total EXCEPT ![run[r].job] = run[r].total] ELSE total

\* The stage ends: _persist_stage after the agent returned, _persist_usage
\* after it raised.
EndStage(r) ==
  /\ run[r].pc \in {"ready", "error"}
  /\ Persist(r)
  /\ Goto(r, IF run[r].pc = "ready" THEN "stage" ELSE "ending")
  /\ UNCHANGED <<ledger, now, status, period, held, deleting, bounds>>

\* The attempt is over, and moves the job to `next` if it is still running.
Leave(r, next) ==
  /\ run' = [run EXCEPT ![r] = NoRun]
  /\ LET j == run[r].job IN
       IF status[j] = "running"
         THEN /\ status' = [status EXCEPT ![j] = next]
              /\ IF next \in Ended THEN Release(j) ELSE UNCHANGED <<reserved, held>>
         ELSE UNCHANGED <<status, reserved, held>>
  /\ UNCHANGED <<used, charged, billed, now, period, total, deleting, manual>>

\* _succeed behind the last stage, _cancelled between two stages.
Finish(r) ==
  /\ run[r].pc = "stage"
  /\ \E outcome \in {"succeeded", "cancelled"} : Leave(r, outcome)
  /\ UNCHANGED stops

\* _fail, or schedule_retry for an error of the provider that may pass.
FailOrRetry(r) ==
  /\ run[r].pc = "ending"
  /\ \E next \in {"failed", "queued"} : Leave(r, next)
  /\ UNCHANGED stops

\* _handle_interrupt: wherever the attempt was, between two transactions, its
\* guard and meter are gone. A cancelled job ends, any other is requeued.
Interrupt(r) ==
  /\ Live(r)
  /\ stops < MaxStops
  /\ stops' = stops + 1
  /\ \E next \in {"cancelled", "queued"} : Leave(r, next)

Crash(r) ==
  /\ Live(r)
  /\ stops < MaxStops
  /\ stops' = stops + 1
  /\ run' = [run EXCEPT ![r] = NoRun]
  /\ UNCHANGED <<ledger, now, jobRow, deleting, manual>>

\* fail_stale: a running job without heartbeats is failed.
Reap(j) ==
  /\ status[j] = "running"
  /\ LateWorkers \/ \A r \in Runs : run[r].job # j
  /\ status' = [status EXCEPT ![j] = "failed"]
  /\ Release(j)
  /\ UNCHANGED <<used, charged, billed, now, period, total, run, deleting, bounds>>

-----------------------------------------------------------------------------
Init ==
  /\ used     = [p \in Periods |-> 0]
  /\ reserved = [p \in Periods |-> 0]
  /\ charged  = [p \in Periods |-> {}]
  /\ billed   = [j \in Jobs |-> 0]
  /\ now = 1
  /\ status = [j \in Jobs |-> "none"]
  /\ period = [j \in Jobs |-> 1]
  /\ held   = [j \in Jobs |-> 0]
  /\ total  = [j \in Jobs |-> 0]
  /\ run = [r \in Runs |-> NoRun]
  /\ deleting = [j \in Jobs |-> FALSE]
  /\ stops = 0
  /\ manual = 0

OwnerStep(j) == Submit(j) \/ CancelQueued(j) \/ RetryFailed(j) \/ DeleteRead(j) \/ Delete(j)

RunStep(r) ==
  \/ Load(r) \/ BeginStage(r) \/ BeforeCall(r) \/ TopUp(r)
  \/ CallReturns(r) \/ CallFails(r) \/ AfterCall(r) \/ EndStage(r)
  \/ Finish(r) \/ FailOrRetry(r) \/ Interrupt(r) \/ Crash(r)

Next ==
  \/ \E j \in Jobs : OwnerStep(j) \/ Reap(j)
  \/ \E r \in Runs : RunStep(r)
  \/ \E r \in Runs, j \in Jobs : Claim(r, j)
  \/ NextPeriod

Spec == Init /\ [][Next]_vars

-----------------------------------------------------------------------------
(* Properties                                                              *)

LedgerTypes ==
  /\ used \in [Periods -> Nat]
  /\ reserved \in [Periods -> Nat]
  /\ charged \in [Periods -> SUBSET Jobs]
  /\ billed \in [Jobs -> Nat]
  /\ now \in Periods

JobTypes ==
  /\ status \in [Jobs -> JobStatus]
  /\ period \in [Jobs -> Periods]
  /\ held \in [Jobs -> Nat]
  /\ total \in [Jobs -> Nat]
  /\ deleting \in [Jobs -> BOOLEAN]

RunState == [pc : RunPC, job : Jobs \cup {Nil}, period : Periods,
             reserved : Nat, usage : Nat, total : Nat]

RunTypes ==
  /\ run \in [Runs -> RunState]
  /\ \A r \in Runs : Live(r) => run[r].job \in Jobs
  /\ stops \in Nat
  /\ manual \in Nat

\* The type of every variable; no counter of tokens is ever negative.
TypeOK == LedgerTypes /\ JobTypes /\ RunTypes

\* The tokens that the jobs of a period hold.
TokensHeld(p) == UNION {{j} \X (1..held[j]) : j \in {i \in Jobs : period[i] = p}}
HeldIn(p) == Cardinality(TokensHeld(p))

\* The ledger's reserved tokens are exactly what the period's jobs hold.
LedgerBalanced == \A p \in Periods : reserved[p] = HeldIn(p)

\* Whatever a job has not used is released by the step that ends it.
NothingHeldAfterEnd == \A j \in Jobs : status[j] \notin Active => held[j] = 0

\* The guard works on a copy of the reservation, read when the attempt started:
\* it still agrees with the job's row, so no call is charged to tokens another
\* attempt, the reaper or a retry has meanwhile taken or given back.
GuardAgrees ==
  \A r \in Runs : run[r].pc \notin {"idle", "load"} =>
    LET j == run[r].job IN
      /\ status[j] = "running"
      /\ run[r].period = period[j]
      /\ run[r].reserved = held[j]

\* A job has one attempt at a time.
OneRun ==
  /\ \A r, s \in Runs : Live(r) /\ Live(s) /\ run[r].job = run[s].job => r = s
  /\ \A r \in Runs : Live(r) => status[run[r].job] = "running"

\* Why nothing leaks and no copy goes stale: no attempt outlives its job's run
\* and no job returns to the queue while it is being deleted.
GuardedRuns ==
  /\ OneRun
  /\ GuardAgrees
  /\ NothingHeldAfterEnd

\* How far a period's budget is overspent: by at most one call per job, and a
\* job that still holds tokens has not overspent yet.
OvershootBounded ==
  \A p \in Periods :
    used[p] + reserved[p] <=
      Limit + (MaxCall - 1)
                * Cardinality({j \in charged[p] : ~(period[j] = p /\ held[j] > 0)})

\* A job never shows its owner more tokens than its principal was charged for it,
\* although every attempt writes its own total over the job's: attempts that the reaper
\* took for dead count and write beside the one that took over, and retries go on from
\* what they find.
TotalsWereCharged == \A j \in Jobs : total[j] <= billed[j]

\* budget.py: "a principal can overshoot by at most one call's tokens".
\* Refuted by TLC (README, section 6).
OvershootOneCall == \A p \in Periods : used[p] <= Limit + MaxCall

Quiet ==
  /\ \A j \in Jobs : status[j] \notin Active
  /\ \A r \in Runs : ~Live(r)

\* budget.py: "so reservations cannot leak". When every job has ended, nothing
\* is reserved.
ReservationsDoNotLeak == Quiet => \A p \in Periods : reserved[p] = 0

\* The principal's usage is the usage its jobs report, whichever attempts and
\* periods it came from.
\* Refuted by TLC (README, section 6).
JobTotalsComplete ==
  Quiet => MapThenSumSet(LAMBDA p : used[p], Periods)
             = MapThenSumSet(LAMBDA j : total[j], Jobs)

=============================================================================
