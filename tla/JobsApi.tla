------------------------------ MODULE JobsApi ------------------------------
(***************************************************************************)
(* The requests of one principal that change the jobs table: submissions   *)
(* with an idempotency key and a limit of active jobs, retries, cancels,   *)
(* deletions and publications to GitHub, several of them at a time.        *)
(*                                                                         *)
(* A step is one transaction or one call to GitHub. A handler reads in one *)
(* transaction and writes in another, so what it has read may be history.  *)
(***************************************************************************)
EXTENDS Naturals, Sequences, FiniteSets

CONSTANTS
  Requests,      \* requests in flight at the same time
  Keys, Bodies,  \* idempotency keys and bodies of submissions
  Limit,         \* max_active_jobs_per_owner
  Names, Taken,  \* repository names, and those of somebody else's repositories
  Retries,       \* GitHubClient: repetitions of a safe call
  RefAttempts,   \* publish_project: readings of a ref that is not there yet
  MaxJobs,       \* bound: submissions
  MaxOthers,     \* bound: retries, deletions and publications
  MaxStops,      \* bound: requests that are cut off
  NoKey

ASSUME SetsAssumption ==
  /\ IsFiniteSet(Requests)
  /\ Taken \subseteq Names
  /\ NoKey \notin Keys
ASSUME BoundsAssumption ==
  /\ Limit \in Nat \ {0}
  /\ Retries \in Nat
  /\ RefAttempts \in Nat \ {0}
  /\ MaxJobs \in Nat

Jobs == 1..MaxJobs

VARIABLES
  status,       \* jobs.status; "none" before the submission, "deleted" without a row
  key, body,    \* jobs.idempotency_key and what request_hash stands for; 0 is NULL
  publication,  \* jobs.publication, its "status" only; "null" is SQL NULL
  maker,        \* GitHub: the job every repository was created for, or 0
  commits,      \* GitHub: <<job, name>> of every branch that was pushed
  pulls,        \* GitHub: pull requests opened for every job
  request,      \* the handlers
  answers,      \* history: submissions that were answered with a job
  orphaned,     \* history: jobs whose publication was cut off
  submits, others, stops  \* bounds

table  == <<status, key, body, publication>>
github == <<maker, commits, pulls>>
past   == <<answers, orphaned>>
bounds == <<submits, others, stops>>
vars   == <<table, github, request, past, bounds>>

Active   == {"queued", "running"}
Terminal == {"succeeded", "failed", "cancelled"}
Gone     == {"none", "deleted"}

Publishing == {"create", "call", "record"}
PC == {"idle", "lookup", "count", "insert", "winner", "requeue", "answer", "delete", "claim"}
        \cup Publishing
\* The calls to GitHub behind the first, in their order.
Calls == <<"ref", "commit", "tree", "newCommit", "branch", "pull">>
Safe  == {"ref", "commit", "tree"}

Idle == [pc |-> "idle", job |-> 0, key |-> NoKey, body |-> 0, name |-> 0,
         call |-> 1, tries |-> 0, waits |-> 0, result |-> "null"]

ActiveJobs == {j \in Jobs : status[j] \in Active}
WithKey(k) == {j \in Jobs : key[j] = k /\ status[j] \notin Gone}

Goto(r, pc) == request' = [request EXCEPT ![r].pc = pc]
Return(r)   == request' = [request EXCEPT ![r] = Idle]

-----------------------------------------------------------------------------
(* create_job                                                              *)

Submit(r, k, b) ==
  /\ request[r] = Idle
  /\ submits < MaxJobs
  /\ submits' = submits + 1
  /\ request' = [request EXCEPT ![r] = [Idle EXCEPT !.pc = IF k = NoKey THEN "count" ELSE "lookup",
                                                    !.key = k,
                                                    !.body = IF k = NoKey THEN 0 ELSE b]]
  /\ UNCHANGED <<table, github, past, others, stops>>

ReplayAnyway(r, j) ==
  /\ answers' = answers \cup {[key |-> request[r].key, body |-> request[r].body, job |-> j]}
  /\ Return(r)

\* The job of an earlier request with this key; another body is a 422.
Replay(r, j) ==
  /\ answers' = IF body[j] = request[r].body
                  THEN answers \cup {[key |-> request[r].key, body |-> request[r].body, job |-> j]}
                  ELSE answers
  /\ Return(r)

Lookup(r) ==
  /\ request[r].pc = "lookup"
  /\ \/ \E j \in WithKey(request[r].key) : Replay(r, j)
     \/ WithKey(request[r].key) = {} /\ Goto(r, "count") /\ UNCHANGED answers
  /\ UNCHANGED <<table, github, orphaned, bounds>>

\* count_active, for a submission and for a retry: at the limit, a 429.
Count(r) ==
  /\ request[r].pc = "count"
  /\ IF Cardinality(ActiveJobs) < Limit
       THEN Goto(r, IF request[r].job = 0 THEN "insert" ELSE "requeue")
       ELSE Return(r)
  /\ UNCHANGED <<table, github, past, bounds>>

\* create: the unique index on owner and key decides between concurrent requests.
Insert(r) ==
  /\ request[r].pc = "insert"
  /\ IF request[r].key # NoKey /\ WithKey(request[r].key) # {}
       THEN Goto(r, "winner") /\ UNCHANGED table
       ELSE LET j == CHOOSE j \in Jobs : status[j] = "none"  \* whichever: they are all alike
            IN /\ status' = [status EXCEPT ![j] = "queued"]
               /\ key'    = [key EXCEPT ![j] = request[r].key]
               /\ body'   = [body EXCEPT ![j] = request[r].body]
               /\ request' = [request EXCEPT ![r].pc = "answer", ![r].job = j]
               /\ UNCHANGED publication
  /\ UNCHANGED <<github, past, bounds>>

\* The job that won; a winner that is gone again fails the assertion.
Winner(r) ==
  /\ request[r].pc = "winner"
  /\ \/ \E j \in WithKey(request[r].key) : Replay(r, j)
     \/ WithKey(request[r].key) = {} /\ Return(r) /\ UNCHANGED answers
  /\ UNCHANGED <<table, github, orphaned, bounds>>

\* The job is read again for the response; one that is gone fails the assertion.
Answer(r) ==
  LET q == request[r] IN
  /\ q.pc = "answer"
  /\ answers' = IF status[q.job] # "deleted"
                  THEN answers \cup {[key |-> q.key, body |-> q.body, job |-> q.job]} ELSE answers
  /\ Return(r)
  /\ UNCHANGED <<table, github, orphaned, bounds>>

-----------------------------------------------------------------------------
(* retry_job, cancel_job, delete_job and the worker                        *)

Other(r, pc, j, n) ==
  /\ request[r] = Idle
  /\ others < MaxOthers
  /\ others' = others + 1
  /\ request' = [request EXCEPT ![r] = [Idle EXCEPT !.pc = pc, !.job = j, !.name = n]]
  /\ UNCHANGED <<table, github, past, submits, stops>>

Retry(r, j) == status[j] = "failed" /\ Other(r, "count", j, 0)

\* retry_failed and the response, for a job that has not moved since.
Requeue(r) ==
  /\ request[r].pc = "requeue"
  /\ status' = IF status[request[r].job] = "failed"
                 THEN [status EXCEPT ![request[r].job] = "queued"] ELSE status
  /\ Return(r)
  /\ UNCHANGED <<key, body, publication, github, past, bounds>>

Delete(r, j) == status[j] \in Terminal /\ Other(r, "delete", j, 0)

\* repo.delete has no condition: the job may have been retried since.
DeleteRow(r) ==
  /\ request[r].pc = "delete"
  /\ status' = [status EXCEPT ![request[r].job] = "deleted"]
  /\ Return(r)
  /\ UNCHANGED <<key, body, publication, github, past, bounds>>

\* request_cancel takes a queued job out of the queue, in one transaction.
CancelQueued(j) ==
  /\ status[j] = "queued"
  /\ status' = [status EXCEPT ![j] = "cancelled"]
  /\ UNCHANGED <<key, body, publication, github, request, past, bounds>>

\* The worker: claims, requeues and endings.
Work(j, to) ==
  /\ \/ status[j] = "queued" /\ to = "running"
     \/ status[j] = "running" /\ to \in Terminal \cup {"queued"}
  /\ status' = [status EXCEPT ![j] = to]
  /\ UNCHANGED <<key, body, publication, github, request, past, bounds>>

-----------------------------------------------------------------------------
(* publish_job and publish_project                                         *)

Publish(r, j, n) == status[j] = "succeeded" /\ Other(r, "claim", j, n)

ClaimUnpublished(r) ==
  LET j == request[r].job IN
  /\ request[r].pc = "claim"
  /\ IF status[j] = "succeeded" /\ publication[j] # "published"
       THEN publication' = [publication EXCEPT ![j] = "publishing"] /\ Goto(r, "create")
       ELSE Return(r) /\ UNCHANGED publication
  /\ UNCHANGED <<status, key, body, github, past, bounds>>

\* claim_publication: one request wins, the others are told 409.
ClaimPublication(r) ==
  LET j == request[r].job IN
  /\ request[r].pc = "claim"
  /\ IF status[j] = "succeeded" /\ publication[j] = "null"
       THEN publication' = [publication EXCEPT ![j] = "publishing"] /\ Goto(r, "create")
       ELSE Return(r) /\ UNCHANGED publication
  /\ UNCHANGED <<status, key, body, github, past, bounds>>

Exists(n) == n \in Taken \/ maker[n] # 0

\* The handler goes on to write the outcome to the job.
Outcome(r, result) == request' = [request EXCEPT ![r].pc = "record", ![r].result = result]

\* POST repos, never repeated: created and answered, created and the answer
\* lost, or refused, which an existing name always is. Behind an error nothing
\* is known to exist and the claim is given back.
CreateRepository(r) ==
  LET q == request[r] IN
  /\ q.pc = "create"
  /\ \/ /\ ~Exists(q.name)
        /\ maker' = [maker EXCEPT ![q.name] = q.job]
        /\ Goto(r, "call") \/ Outcome(r, "null")
     \/ Outcome(r, "null") /\ UNCHANGED maker
  /\ UNCHANGED <<table, commits, pulls, past, bounds>>

\* What a call changes on GitHub. The tree and the commit are unreachable objects
\* until a branch names them.
Effect(q, call) ==
  /\ commits' = IF call = "branch" THEN commits \cup {<<q.job, q.name>>} ELSE commits
  /\ pulls'   = IF call = "pull" THEN [pulls EXCEPT ![q.job] = @ + 1] ELSE pulls
NoEffect == UNCHANGED <<commits, pulls>>

Succeeded(r) ==
  IF request[r].call = Len(Calls) THEN Outcome(r, "published")
  ELSE request' = [request EXCEPT ![r].call = @ + 1, ![r].tries = 0]

\* No answer in time, no connection, or a 5xx: a safe call is repeated.
Unanswered(r) ==
  IF Calls[request[r].call] \in Safe /\ request[r].tries < Retries
  THEN request' = [request EXCEPT ![r].tries = @ + 1] ELSE Outcome(r, "failed")

WaitedForever(r) == request' = [request EXCEPT ![r].tries = 0]

\* _with_backoff: a new repository's ref may be missing for a while.
NotThereYet(r) ==
  IF request[r].waits < RefAttempts - 1
  THEN request' = [request EXCEPT ![r].waits = @ + 1, ![r].tries = 0] ELSE Outcome(r, "failed")

Call(r) ==
  LET q == request[r]
      call == Calls[q.call]
  IN
  /\ q.pc = "call"
  /\ \/ Effect(q, call) /\ (Succeeded(r) \/ Unanswered(r))
     \/ NoEffect /\ (Unanswered(r) \/ Outcome(r, "failed"))
     \/ NoEffect /\ call = "ref" /\ NotThereYet(r)
  /\ UNCHANGED <<table, maker, past, bounds>>

\* record_publication; the event of a job that is gone is refused, and all is undone.
Record(r) ==
  LET q == request[r] IN
  /\ q.pc = "record"
  /\ publication' = IF status[q.job] = "deleted" THEN publication
                    ELSE [publication EXCEPT ![q.job] = q.result]
  /\ Return(r)
  /\ UNCHANGED <<status, key, body, github, past, bounds>>

-----------------------------------------------------------------------------
\* The process stops, or an error nobody expected ends the handler.
Abort(r) ==
  /\ request[r].pc # "idle"
  /\ stops < MaxStops
  /\ stops' = stops + 1
  /\ orphaned' = IF request[r].pc \in Publishing THEN orphaned \cup {request[r].job} ELSE orphaned
  /\ Return(r)
  /\ UNCHANGED <<table, github, answers, submits, others>>

Init ==
  /\ status = [j \in Jobs |-> "none"]
  /\ key = [j \in Jobs |-> NoKey]
  /\ body = [j \in Jobs |-> 0]
  /\ publication = [j \in Jobs |-> "null"]
  /\ maker = [n \in Names |-> 0]
  /\ commits = {}
  /\ pulls = [j \in Jobs |-> 0]
  /\ request = [r \in Requests |-> Idle]
  /\ answers = {}
  /\ orphaned = {}
  /\ submits = 0
  /\ others = 0
  /\ stops = 0

Arrive(r) ==
  \/ \E k \in Keys \cup {NoKey}, b \in Bodies : Submit(r, k, b)
  \/ \E j \in Jobs : Retry(r, j) \/ Delete(r, j) \/ \E n \in Names : Publish(r, j, n)

Handle(r) ==
  \/ Lookup(r) \/ Count(r) \/ Insert(r) \/ Winner(r) \/ Answer(r)
  \/ Requeue(r) \/ DeleteRow(r)
  \/ ClaimPublication(r) \/ CreateRepository(r) \/ Call(r) \/ Record(r)

Next ==
  \/ \E r \in Requests : Arrive(r) \/ Handle(r) \/ Abort(r)
  \/ \E j \in Jobs : CancelQueued(j) \/ \E to \in Active \cup Terminal : Work(j, to)

Spec == Init /\ [][Next]_vars

\* The event loop runs every handler, and every call to GitHub has a timeout.
FairSpec == Spec /\ \A r \in Requests : WF_vars(Handle(r))

-----------------------------------------------------------------------------
(* Properties                                                              *)

RequestTypes ==
  request \in [Requests ->
    [pc : PC, job : Jobs \cup {0}, key : Keys \cup {NoKey}, body : Bodies \cup {0},
     name : Names \cup {0}, call : 1..Len(Calls), tries : 0..Retries,
     waits : 0..RefAttempts - 1, result : {"null", "published", "failed"}]]

\* The type of every variable.
TypeOK ==
  /\ status \in [Jobs -> Active \cup Terminal \cup Gone]
  /\ key \in [Jobs -> Keys \cup {NoKey}]
  /\ body \in [Jobs -> Bodies \cup {0}]
  /\ publication \in [Jobs -> {"null", "publishing", "published", "failed"}]
  /\ maker \in [Names -> Jobs \cup {0}]
  /\ commits \in SUBSET (Jobs \X Names)
  /\ pulls \in [Jobs -> Nat]
  /\ RequestTypes
  /\ answers \in SUBSET [key : Keys \cup {NoKey}, body : Bodies \cup {0}, job : Jobs]
  /\ orphaned \in SUBSET Jobs
  /\ submits \in Nat /\ others \in Nat /\ stops \in Nat

Passed  == {r \in Requests : request[r].pc \in {"insert", "requeue"}}

\* The limit of active jobs is checked in one transaction and used in another:
\* it is passed by no more than the requests that were counting at the same time.
ActiveBounded == Cardinality(ActiveJobs) + Cardinality(Passed) < Limit + Cardinality(Requests)

\* "Retrying a submission with the same key returns the job it created": two
\* answers for one key name the same job unless one of them was deleted, and
\* nobody is handed a job made from another body.
KeyNamesOneJob ==
  \A a \in answers :
    /\ body[a.job] = a.body
    /\ \A b \in answers : a.key = b.key /\ a.key # NoKey /\ a.job # b.job =>
                            "deleted" \in {status[a.job], status[b.job]}

\* What a submission is answered, whatever races with it: both of the above.
SubmissionsSound == TypeOK /\ ActiveBounded /\ KeyNamesOneJob

\* "A job is published at most once", however many requests ask for it, and
\* whatever GitHub's answers were.
PublishedOnce ==
  \A j \in Jobs :
    /\ pulls[j] <= 1
    /\ Cardinality({r \in Requests : request[r].pc \in Publishing /\ request[r].job = j}) <= 1
    /\ publication[j] = "published" => pulls[j] = 1

\* publishing.py: "An existing name is refused, never reused: this code never
\* writes to a repository it did not just create", also after a lost answer.
OnlyOwnRepositories == \A c \in commits : maker[c[2]] = c[1]

\* A job that may be published again has left nothing behind but, after a lost
\* answer, an empty repository; one whose publication failed has a repository.
GivenBackUntouched ==
  \A j \in Jobs :
    /\ publication[j] = "null" => pulls[j] = 0 /\ \A n \in Names : <<j, n>> \notin commits
    /\ publication[j] = "failed" => \E n \in Names : maker[n] = j

\* What GitHub holds and what the job says of it: the three above.
PublicationsSound == PublishedOnce /\ OnlyOwnRepositories /\ GivenBackUntouched

\* A claim is somebody's: unless its request was cut off, or its job deleted, a
\* publication under way ends.
ClaimsAreReturned ==
  \A j \in Jobs :
    publication[j] = "publishing" ~>
      publication[j] # "publishing" \/ j \in orphaned \/ status[j] = "deleted"

=============================================================================
