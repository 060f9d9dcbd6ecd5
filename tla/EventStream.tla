---------------------------- MODULE EventStream ----------------------------
(***************************************************************************)
(* The event log of one job, the server-sent events that replay and follow *)
(* it for one client, and the in-process signals that wake the stream and  *)
(* the worker's loop.                                                      *)
(*                                                                         *)
(* A writer is a session that adds an event: the id is drawn when the row  *)
(* is inserted and the row is visible when the transaction commits. A      *)
(* transaction that changes the job also holds the job's row in between.   *)
(***************************************************************************)
EXTENDS Naturals, Sequences, FiniteSets, SequencesExt

CONSTANTS
  Writers,        \* sessions that may add an event at the same time
  Local,          \* those in the replica that serves the stream and runs the loop
  SerialCommits,  \* is there one writer at a time (SQLite)?
  BatchSize,      \* events_after's limit
  Roles,          \* what the replica may be for: to serve requests ("api"), to run jobs ("worker")
  Slots,          \* worker_concurrency
  MaxEvents,      \* bound: events inserted
  MaxConnects,    \* bound: connections of the client
  MaxOthers,      \* bound: other jobs the worker takes
  MaxFaults       \* bound: rounds of the loop that are cut short

ASSUME WritersAssumption == Local \subseteq Writers
ASSUME BoundsAssumption ==
  /\ SerialCommits \in BOOLEAN
  /\ Roles \subseteq SUBSET {"api", "worker"}
  /\ BatchSize \in Nat \ {0}
  /\ MaxEvents \in Nat
  /\ Slots \in Nat \ {0}
  /\ MaxConnects \in Nat
  /\ MaxOthers \in Nat
  /\ MaxFaults \in Nat

VARIABLES
  status,     \* jobs.status; a job that succeeded, failed or was cancelled has "ended"
  runAfter,   \* jobs.run_after: "null", or a time that is still to come or has passed
  log,        \* ids of the committed rows of job_events
  endings,    \* those that report an ending
  nextId,     \* the sequence behind job_events.id
  writer,     \* the writers' transactions
  flag,       \* JobNotifier._queue_event
  loop,       \* Worker._loop
  busy,       \* len(Worker._tasks)
  queuedBy,   \* history: the writer that queued the job last
  stream,     \* stream_events.generate, on the current connection
  woken,      \* the asyncio.Event of the stream's wait_for_job
  received,   \* history: ids of the events the client received, over all connections
  connects,   \* bound: connections so far
  others,     \* bound: other jobs taken so far
  faults      \* bound: rounds cut short so far

rows    == <<status, runAfter, log, endings, nextId>>
tasks   == <<busy, others, faults>>
signals == <<flag, loop, tasks>>
client  == <<stream, woken, received, connects>>
vars == <<rows, writer, signals, queuedBy, client>>

Statuses == {"none", "queued", "running", "ended", "deleted"}
Gone     == {"none", "deleted"}

\* The transactions that update the job and report it: create, request_cancel
\* for a queued and for a running job, reset_for_retry and schedule_retry, finish
\* and fail_stale, retry_failed, record_publication.
Moves == {<<"none", "queued">>, <<"queued", "ended">>, <<"running", "running">>,
          <<"running", "queued">>, <<"running", "ended">>, <<"ended", "queued">>,
          <<"ended", "ended">>}

Idle   == [pc |-> "idle", id |-> 0, to |-> "none", moves |-> FALSE, delay |-> FALSE]
\* The next round of generate's loop.
Round(pc, cursor) == [pc |-> pc, cursor |-> cursor, seen |-> "none", ending |-> 0, batch |-> {}]
Closed == Round("closed", 0)

Last0(s) == IF s = <<>> THEN 0 ELSE Last(s)
MaxOf(S) == IF S = {} THEN 0 ELSE Max(S)

RowLocked == \E w \in Writers : writer[w].pc = "inserted" /\ writer[w].moves

-----------------------------------------------------------------------------
(* Writers                                                                 *)

Insert(w, to, moves, delay) ==
  /\ writer[w].pc = "idle"
  /\ nextId <= MaxEvents
  /\ moves => ~RowLocked
  /\ SerialCommits => \A v \in Writers : writer[v].pc # "inserted"
  /\ nextId' = nextId + 1
  /\ writer' = [writer EXCEPT ![w] = [pc |-> "inserted", id |-> nextId, to |-> to,
                                      moves |-> moves, delay |-> delay]]
  /\ UNCHANGED <<status, runAfter, log, endings, signals, queuedBy, client>>

\* add_event: the attempt reports a stage, a log line, a repair round.
Report(w) == status = "running" /\ Insert(w, "running", FALSE, FALSE)

\* Only schedule_retry, of a running job, sets run_after.
Change(w, to, delay) ==
  /\ <<status, to>> \in Moves
  /\ delay => <<status, to>> = <<"running", "queued">>
  /\ Insert(w, to, TRUE, delay)

Commit(w) ==
  LET tx == writer[w]
      queues == tx.moves /\ tx.to = "queued"
  IN
  /\ tx.pc = "inserted"
  /\ status # "deleted"
  /\ log' = log \cup {tx.id}
  /\ status' = IF tx.moves THEN tx.to ELSE status
  /\ runAfter' = IF queues THEN (IF tx.delay THEN "later" ELSE "null") ELSE runAfter
  /\ endings' = IF tx.moves /\ tx.to = "ended" /\ status # "ended"
                  THEN endings \cup {tx.id} ELSE endings
  /\ queuedBy' = IF queues THEN {w} ELSE queuedBy
  /\ writer' = [writer EXCEPT ![w] = [pc |-> "notify", id |-> 0, to |-> tx.to,
                                      moves |-> FALSE, delay |-> tx.delay]]
  /\ UNCHANGED <<nextId, signals, client>>

\* The transaction is lost, with its id; one that adds to a deleted job always is.
Rollback(w) ==
  /\ writer[w].pc = "inserted"
  /\ writer' = [writer EXCEPT ![w] = Idle]
  /\ UNCHANGED <<rows, signals, queuedBy, client>>

\* notify_job and, for a job that was queued to be taken at once, notify_queue.
Notify(w) ==
  /\ writer[w].pc = "notify"
  /\ writer' = [writer EXCEPT ![w] = Idle]
  /\ IF w \in Local
       THEN /\ woken' = (woken \/ stream.pc = "wait")
            /\ flag'  = (flag \/ (writer[w].to = "queued" /\ ~writer[w].delay))
       ELSE UNCHANGED <<woken, flag>>
  /\ UNCHANGED <<rows, loop, tasks, queuedBy, stream, received, connects>>

\* delete_job: the events go with the job.
Delete ==
  /\ status = "ended"
  /\ ~RowLocked
  /\ status' = "deleted"
  /\ log' = {}
  /\ UNCHANGED <<runAfter, endings, nextId, writer, signals, queuedBy, client>>

\* The time of run_after comes; nobody is told.
BecomesDue ==
  /\ runAfter = "later"
  /\ runAfter' = "past"
  /\ UNCHANGED <<status, log, endings, nextId, writer, signals, queuedBy, client>>

-----------------------------------------------------------------------------
(* The worker's loop                                                       *)

Due == status = "queued" /\ runAfter # "later"

\* claim_next, of a replica.
Take ==
  /\ Due
  /\ ~RowLocked
  /\ status' = "running"

\* fill_slots: takes the job while it has a slot for it. Where it finds none, or no slot
\* free, the loop goes to sleep.
ReadJob ==
  /\ IF busy < Slots /\ Due
       THEN Take /\ busy' = busy + 1 /\ UNCHANGED loop
       ELSE loop' = "wait" /\ UNCHANGED <<status, busy>>
  /\ UNCHANGED <<flag, others>>

\* Or another job, that is older or has its time come.
TakeOther ==
  /\ busy < Slots
  /\ others < MaxOthers
  /\ others' = others + 1
  /\ busy' = busy + 1
  /\ UNCHANGED <<status, loop, flag>>

LoopRead ==
  /\ loop = "read"
  /\ ReadJob \/ TakeOther
  /\ UNCHANGED <<runAfter, log, endings, nextId, writer, faults, queuedBy, client>>

\* A round that raises, or that loses the race for another job to another replica,
\* sleeps without having seen the rest of the queue.
LoopCutShort ==
  /\ loop = "read"
  /\ faults < MaxFaults
  /\ faults' = faults + 1
  /\ loop' = "blind"
  /\ UNCHANGED <<rows, writer, flag, busy, others, queuedBy, client>>

LoopWakeIfNotified(timeout) ==
  /\ loop \in {"wait", "blind"}
  /\ flag
  /\ loop' = "woken"
  /\ UNCHANGED <<rows, writer, flag, tasks, queuedBy, client>>

\* wait_for_queue: the event is set, or the polling interval is over.
LoopWake(timeout) ==
  /\ loop \in {"wait", "blind"}
  /\ timeout \/ flag
  /\ loop' = "woken"
  /\ UNCHANGED <<rows, writer, flag, tasks, queuedBy, client>>

LoopResume ==
  /\ loop = "woken"
  /\ loop' = "read"
  /\ flag' = FALSE
  /\ UNCHANGED <<rows, writer, tasks, queuedBy, client>>

TaskEndsQuietly ==
  /\ busy > 0
  /\ busy' = busy - 1
  /\ UNCHANGED <<rows, writer, flag, loop, others, faults, queuedBy, client>>

\* _on_done: a task is over, and its slot free.
TaskEnds ==
  /\ busy > 0
  /\ busy' = busy - 1
  /\ flag' = TRUE
  /\ UNCHANGED <<rows, writer, loop, others, faults, queuedBy, client>>

\* stop: nothing more is taken, wherever the loop is. A replica that only serves requests
\* is like one that has stopped.
Stop ==
  /\ loop # "stopped"
  /\ loop' = "stopped"
  /\ UNCHANGED <<rows, writer, flag, tasks, queuedBy, client>>

\* Another replica takes the job.
TakenAway ==
  /\ Writers # Local
  /\ Take
  /\ UNCHANGED <<runAfter, log, endings, nextId, writer, signals, queuedBy, client>>

-----------------------------------------------------------------------------
(* The stream                                                              *)

\* The request: a job that is not there is a 404, and the client gives up.
Connect ==
  /\ stream.pc = "closed"
  /\ status # "none"
  /\ connects < MaxConnects
  /\ connects' = connects + 1
  /\ stream' = IF status = "deleted" THEN Round("over", 0)
               ELSE Round("status", Last0(received))
  /\ UNCHANGED <<rows, writer, signals, queuedBy, woken, received>>

ReadStatus ==
  /\ stream.pc = "status"
  /\ stream' = [stream EXCEPT !.pc = "events", !.seen = status, !.ending = MaxOf(endings)]
  /\ UNCHANGED <<rows, writer, signals, queuedBy, woken, received, connects>>

NewestEventsAfter(id) ==
  LET new == {e \in log : e > id}
  IN  {e \in new : Cardinality({f \in new : f > e}) < BatchSize}

\* events_after: the oldest events behind the cursor.
EventsAfter(id) ==
  LET new == {e \in log : e > id}
  IN  {e \in new : Cardinality({f \in new : f < e}) < BatchSize}

ReadEvents ==
  /\ stream.pc = "events"
  /\ LET batch == EventsAfter(stream.cursor)
     IN  stream' = [stream EXCEPT !.pc = IF batch = {} THEN "caughtUp" ELSE "send",
                                  !.batch = batch]
  /\ UNCHANGED <<rows, writer, signals, queuedBy, woken, received, connects>>

EndOfRound(id) ==
  IF stream.seen = "deleted" THEN [stream EXCEPT !.pc = "over"] ELSE Round("status", id)

\* The events of the batch, one by one in the order of their ids; behind the last a
\* deleted job's stream is over.
Send ==
  /\ stream.pc = "send"
  /\ LET id == Min(stream.batch) IN
       /\ received' = Append(received, id)
       /\ stream' = IF stream.batch = {id} THEN EndOfRound(id)
                    ELSE [stream EXCEPT !.cursor = id, !.batch = @ \ {id}]
  /\ UNCHANGED <<rows, writer, signals, queuedBy, woken, connects>>

CaughtUpByStatus ==
  /\ stream.pc = "caughtUp"
  /\ stream' = IF status \in {"ended", "deleted"}
                 THEN [stream EXCEPT !.pc = "over", !.seen = status, !.ending = MaxOf(endings)]
                 ELSE Round("wait", stream.cursor)
  /\ UNCHANGED <<rows, writer, signals, queuedBy, woken, received, connects>>

\* Nothing new: a job that was seen ended is fully replayed, any other is waited for.
CaughtUp ==
  /\ stream.pc = "caughtUp"
  /\ stream' = IF stream.seen \in {"ended", "deleted"} THEN [stream EXCEPT !.pc = "over"]
               ELSE Round("wait", stream.cursor)
  /\ UNCHANGED <<rows, writer, signals, queuedBy, woken, received, connects>>

WakeUpIfNotified(timeout) ==
  /\ stream.pc = "wait"
  /\ woken
  /\ stream' = Round("status", stream.cursor)
  /\ woken' = FALSE
  /\ UNCHANGED <<rows, writer, signals, queuedBy, received, connects>>

\* wait_for_job: a notification, or SSE_POLL_S is over.
WakeUp(timeout) ==
  /\ stream.pc = "wait"
  /\ timeout \/ woken
  /\ stream' = Round("status", stream.cursor)
  /\ woken' = FALSE
  /\ UNCHANGED <<rows, writer, signals, queuedBy, received, connects>>

\* The connection breaks, with the events that were under way; the client will
\* connect again and name the last event it received.
Disconnect ==
  /\ stream.pc \notin {"closed", "over"}
  /\ connects < MaxConnects
  /\ stream' = Closed
  /\ woken' = FALSE
  /\ UNCHANGED <<rows, writer, signals, queuedBy, received, connects>>

-----------------------------------------------------------------------------
\* The replica runs jobs if it has a worker, and clients come to it if it serves requests.
Plays(role) ==
  /\ loop = IF "worker" \in role THEN "read" ELSE "stopped"
  /\ connects = IF "api" \in role THEN 0 ELSE MaxConnects

Init ==
  /\ \E role \in Roles : Plays(role)
  /\ status = "none"
  /\ runAfter = "null"
  /\ log = {}
  /\ endings = {}
  /\ nextId = 1
  /\ writer = [w \in Writers |-> Idle]
  /\ flag = FALSE
  /\ busy = 0
  /\ queuedBy = {}
  /\ stream = Closed
  /\ woken = FALSE
  /\ received = <<>>
  /\ others = 0
  /\ faults = 0

WriterStep(w) ==
  \/ Report(w) \/ Commit(w) \/ Rollback(w) \/ Notify(w)
  \/ \E to \in Statuses, delay \in BOOLEAN : Change(w, to, delay)
LoopStep ==
  \/ LoopRead \/ LoopCutShort \/ LoopResume \/ TaskEnds \/ Stop
  \/ \E timeout \in BOOLEAN : LoopWake(timeout)
StreamStep == ReadStatus \/ ReadEvents \/ Send \/ CaughtUp
                \/ \E timeout \in BOOLEAN : WakeUp(timeout)

Next ==
  \/ \E w \in Writers : WriterStep(w)
  \/ Delete \/ BecomesDue \/ TakenAway \/ LoopStep \/ StreamStep \/ Connect \/ Disconnect

Spec == Init /\ [][Next]_vars

\* The event loop runs its coroutines and its timers, time passes, every task ends, the
\* client follows the job, and no transaction stays open. Nobody has to write an event.
Fairness ==
  /\ WF_vars(StreamStep)
  /\ WF_vars(Connect)
  /\ WF_vars(BecomesDue) /\ WF_vars(TaskEnds)
  /\ WF_vars(LoopRead) /\ WF_vars(LoopResume) /\ WF_vars(LoopWake(TRUE))
  /\ \A w \in Writers : WF_vars(Commit(w) \/ Rollback(w)) /\ WF_vars(Notify(w))

FairSpec == Spec /\ Fairness

-----------------------------------------------------------------------------
\* The type of every variable; no waiter is left behind by a stream that is gone.
TypeOK ==
  /\ status \in Statuses /\ runAfter \in {"null", "later", "past"}
  /\ log \subseteq 1..MaxEvents /\ endings \subseteq 1..MaxEvents
  /\ nextId \in 1..MaxEvents + 1
  /\ writer \in [Writers -> [pc : {"idle", "inserted", "notify"}, id : 0..MaxEvents,
                             to : Statuses, moves : BOOLEAN, delay : BOOLEAN]]
  /\ flag \in BOOLEAN /\ woken \in BOOLEAN
  /\ woken => stream.pc = "wait"
  /\ loop \in {"read", "wait", "blind", "woken", "stopped"}
  /\ busy \in 0..Slots
  /\ queuedBy \subseteq Writers
  /\ stream.pc \in {"closed", "status", "events", "send", "caughtUp", "wait", "over"}
  /\ stream.cursor \in 0..MaxEvents /\ stream.ending \in 0..MaxEvents
  /\ received \in Seq(1..MaxEvents)
  /\ connects \in 0..MaxConnects /\ others \in 0..MaxOthers /\ faults \in 0..MaxFaults

\* "Reconnecting clients send Last-Event-ID and miss nothing": what the client
\* has is the log up to the last event it received, in order and without
\* repetition, over all its connections.
MissesNothing ==
  /\ \A i, k \in DOMAIN received : i < k => received[i] < received[k]
  /\ \A e \in log : e <= Last0(received) => e \in ToSet(received)

\* A stream is closed only behind the event that reports the ending it saw,
\* unless the job was deleted meanwhile: the status is read before the events,
\* and events are read until none is left.
EndsBehindTheEnding ==
  stream.pc = "over" /\ stream.seen = "ended" /\ status # "deleted"
    => stream.ending \in ToSet(received)

\* A loop that sleeps behind a whole round, with a slot free, has been told of the job
\* that was queued in its process to be taken at once, or is about to be: clearing the
\* event after the wait drops only what the next round sees, and a round that found its
\* slots full is told of the first that is free. What it is never told of is a job that
\* another replica queued, one whose run_after comes, and what a round that was cut short
\* has not seen.
NoWakeUpIsLost ==
  loop = "wait" /\ status = "queued" /\ runAfter = "null" /\ busy < Slots =>
    \/ flag
    \/ \E w \in queuedBy : w \notin Local \/ writer[w].pc = "notify"

\* The waiters are as they should be: every variable has its type, a stream is woken only
\* while it waits, and no wake-up of the loop is lost.
WaitersAreTold == TypeOK /\ NoWakeUpIsLost

\* Once the job has ended for good, the stream of a client that keeps connecting comes
\* to its end, also when no notification ever reaches it.
StreamEnds ==
  <>(stream.pc # "closed") /\ <>[](status \in {"ended", "deleted"}) => <>(stream.pc = "over")

\* Polling alone empties the queue: a queued job leaves it, whichever replica queued it and
\* whatever is delayed, full or cut short, unless the worker stops.
QueueIsServed == status = "queued" ~> (status # "queued" \/ loop = "stopped")

\* Signals only save time: where a notification is lost, delayed or never sent, because
\* the writer is in another replica or a time has come, polling brings the client its
\* stream's end and the job its attempt.
PollingSuffices == StreamEnds /\ QueueIsServed
=============================================================================
