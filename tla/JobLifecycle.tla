---------------------------- MODULE JobLifecycle ----------------------------
(***************************************************************************)
(* What the queue promises about a job, whoever runs, reaps, cancels or    *)
(* retries it: the moves between its statuses, and the budget reservation  *)
(* that every ending gives back and every retry takes anew in the same     *)
(* step.  JobQueue implements this specification.                          *)
(***************************************************************************)
CONSTANT Jobs

VARIABLES
  status,   \* the job's status, "none" before it is submitted
  held      \* does the job hold a reservation?

vars == <<status, held>>

Submit(j) ==
  /\ status[j] = "none"
  /\ status' = [status EXCEPT ![j] = "queued"]
  /\ held'   = [held EXCEPT ![j] = TRUE]

Claim(j) ==
  /\ status[j] = "queued"
  /\ status' = [status EXCEPT ![j] = "running"]
  /\ UNCHANGED held

Requeue(j) ==
  /\ status[j] = "running"
  /\ status' = [status EXCEPT ![j] = "queued"]
  /\ UNCHANGED held

End(j, outcome) ==
  /\ status[j] = "running"
  /\ status' = [status EXCEPT ![j] = outcome]
  /\ held'   = [held EXCEPT ![j] = FALSE]

Withdraw(j) ==
  /\ status[j] = "queued"
  /\ status' = [status EXCEPT ![j] = "cancelled"]
  /\ held'   = [held EXCEPT ![j] = FALSE]

\* Lost jobs are given up together.
Abandon(lost) ==
  /\ \A j \in lost : status[j] = "running"
  /\ status' = [j \in Jobs |-> IF j \in lost THEN "failed" ELSE status[j]]
  /\ held'   = [j \in Jobs |-> IF j \in lost THEN FALSE ELSE held[j]]

Retry(j) ==
  /\ status[j] = "failed"
  /\ status' = [status EXCEPT ![j] = "queued"]
  /\ held'   = [held EXCEPT ![j] = TRUE]

Init ==
  /\ status = [j \in Jobs |-> "none"]
  /\ held   = [j \in Jobs |-> FALSE]

Next ==
  \/ \E j \in Jobs :
       \/ Submit(j) \/ Claim(j) \/ Requeue(j) \/ Withdraw(j) \/ Retry(j)
       \/ \E outcome \in {"succeeded", "failed", "cancelled"} : End(j, outcome)
  \/ \E lost \in SUBSET Jobs : Abandon(lost)

Spec == Init /\ [][Next]_vars
=============================================================================
