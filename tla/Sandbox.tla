------------------------------ MODULE Sandbox ------------------------------
(***************************************************************************)
(* The sandbox runner: clients that post a run and repeat it when the      *)
(* connection breaks or the runner is full, handlers behind a gate and a   *)
(* semaphore, one container per run, and a runner process that shuts down, *)
(* crashes and starts again beside a Docker daemon that may not answer.    *)
(***************************************************************************)
EXTENDS SandboxVerdict, SandboxChecks, FiniteSets

CONSTANTS
  Clients,         \* RemoteSandbox.run calls at the same time
  Handlers,        \* requests the runner may be handling at the same time
  Slots, Queue,    \* runs at a time, and requests that may wait for one
  Retries,         \* RemoteSandbox: repetitions
  ReportLength,    \* bound: test reports the verdicts are checked on
  MaxCalls,        \* bound: calls of clients
  MaxFaults,       \* bound: Docker commands that fail or hang
  MaxStops,        \* bound: shutdowns of the runner
  MaxCrashes,      \* bound: crashes of the runner
  Nobody

ASSUME SandboxAssumption ==
  /\ IsFiniteSet(Handlers)
  /\ Slots \in Nat \ {0}
  /\ Queue \in Nat
  /\ Retries \in Nat
  /\ ReportLength \in Nat
  /\ Nobody \notin Clients

VARIABLES
  runner,     \* the runner's process
  admitted,   \* _Gate._admitted
  slots,      \* DockerSandbox._slots
  handler,    \* the handlers of POST /v1/runs
  container,  \* the container of every handler's run, in Docker
  leftover,   \* containers whose run is over
  client,     \* the callers
  calls, faults, stops, crashes  \* bounds

bounds == <<calls, faults, stops, crashes>>
server == <<runner, admitted, slots, handler, container, leftover>>
runnerVars == <<server, client, bounds>>

Capacity == Slots + Queue
\* Past the gate; and behind the semaphore.
Started  == {"feed", "run", "stuck", "inspect", "remove"}
Admitted == Started \cup {"slot", "start", "leave"}

NoHandler == [pc |-> "none", for |-> Nobody, holds |-> FALSE]
NoClient  == [pc |-> "idle", tries |-> 0]

FreeHandlers == {h \in Handlers : handler[h].pc = "none"}
ForClient(c) == {h \in Handlers : handler[h].for = c}

-----------------------------------------------------------------------------
(* RemoteSandbox.run                                                       *)

Call(c) ==
  /\ client[c].pc = "idle"
  /\ calls < MaxCalls
  /\ calls' = calls + 1
  /\ client' = [client EXCEPT ![c] = [NoClient EXCEPT !.pc = "post"]]
  /\ UNCHANGED <<server, faults, stops, crashes>>

\* A transport error or a 503: again after a pause, while repetitions are left.
Repeated(c) ==
  IF client[c].tries < Retries
  THEN [client[c] EXCEPT !.pc = "post", !.tries = @ + 1]
  ELSE NoClient

Post(c) ==
  /\ client[c].pc = "post"
  /\ runner = "up"
  /\ FreeHandlers # {}
  /\ LET h == CHOOSE h \in FreeHandlers : TRUE  \* whichever: they are all alike
     IN handler' = [handler EXCEPT ![h] = [NoHandler EXCEPT !.pc = "gate", !.for = c]]
  /\ client' = [client EXCEPT ![c].pc = "wait"]
  /\ UNCHANGED <<runner, admitted, slots, container, leftover, bounds>>

CannotPost(c) ==
  /\ client[c].pc = "post"
  /\ runner # "up"
  /\ client' = [client EXCEPT ![c] = Repeated(c)]
  /\ UNCHANGED <<server, bounds>>

\* The connection breaks, or no answer comes in time: nobody waits for the
\* handler any more, which goes on.
Abandon(c, next) ==
  /\ client[c].pc = "wait"
  /\ client' = [client EXCEPT ![c] = next]
  /\ handler' = [h \in Handlers |-> IF handler[h].for = c THEN [handler[h] EXCEPT !.for = Nobody]
                                    ELSE handler[h]]
  /\ UNCHANGED <<runner, admitted, slots, container, leftover, bounds>>

Disconnect(c) == Abandon(c, Repeated(c))
NoAnswer(c)   == Abandon(c, NoClient)

-----------------------------------------------------------------------------
(* The handler of a run                                                    *)

\* The answer, if somebody waits for it. A run's result is a 200 whatever it is.
Answered(h, status) ==
  LET c == handler[h].for IN
  IF c = Nobody THEN client
  ELSE [client EXCEPT ![c] = IF status = 503 THEN Repeated(c) ELSE NoClient]

\* try_enter, or 503. Bodies that are too large or not valid are answered before.
Enter(h) ==
  /\ handler[h].pc = "gate"
  /\ IF admitted < Capacity
       THEN admitted' = admitted + 1 /\ handler' = [handler EXCEPT ![h].pc = "slot"]
                                     /\ UNCHANGED client
       ELSE handler' = [handler EXCEPT ![h] = NoHandler] /\ client' = Answered(h, 503)
                                                         /\ UNCHANGED admitted
  /\ UNCHANGED <<runner, slots, container, leftover, bounds>>

Reject(h) ==
  /\ handler[h].pc = "gate"
  /\ handler' = [handler EXCEPT ![h] = NoHandler]
  /\ client' = Answered(h, 422)
  /\ UNCHANGED <<runner, admitted, slots, container, leftover, bounds>>

\* DockerSandbox.run: no image for the stack, or an archive that is too large.
RefuseRun(h) ==
  /\ handler[h].pc = "slot"
  /\ handler' = [handler EXCEPT ![h].pc = "leave"]
  /\ UNCHANGED <<runner, admitted, slots, container, leftover, client, bounds>>

Acquire(h) ==
  /\ handler[h].pc = "slot"
  /\ slots > 0
  /\ slots' = slots - 1
  /\ handler' = [handler EXCEPT ![h].pc = "start", ![h].holds = TRUE]
  /\ UNCHANGED <<runner, admitted, container, leftover, client, bounds>>

\* docker run; without a CLI there is nothing to remove.
Start(h) ==
  /\ handler[h].pc = "start"
  /\ \/ /\ handler' = [handler EXCEPT ![h].pc = "feed"]
        /\ container' = [container EXCEPT ![h] = "running"]
        /\ UNCHANGED faults
     \/ /\ faults < MaxFaults
        /\ faults' = faults + 1
        /\ handler' = [handler EXCEPT ![h].pc = "leave"]
        /\ UNCHANGED container
  /\ UNCHANGED <<runner, admitted, slots, leftover, client, calls, stops, crashes>>

\* The archive is written to the container's stdin and drained.
Feed(h) ==
  /\ handler[h].pc = "feed"
  /\ handler' = [handler EXCEPT ![h].pc = "run"]
  /\ UNCHANGED <<runner, admitted, slots, container, leftover, client, bounds>>

\* A docker CLI that does not take the archive, or that does not exit behind its last
\* output, is waited for without a limit: only the reads in between have one.
Hang(h) ==
  /\ handler[h].pc \in {"feed", "run"}
  /\ faults < MaxFaults
  /\ faults' = faults + 1
  /\ handler' = [handler EXCEPT ![h].pc = "stuck"]
  /\ UNCHANGED <<runner, admitted, slots, container, leftover, client, calls, stops, crashes>>

\* The container ends, and the backend has read what it printed.
ContainerExits(h) ==
  /\ handler[h].pc = "run"
  /\ container' = [container EXCEPT ![h] = "exited"]
  /\ handler' = [handler EXCEPT ![h].pc = "inspect"]
  /\ UNCHANGED <<runner, admitted, slots, leftover, client, bounds>>

HardLimitReturns(h) ==
  /\ handler[h].pc = "run"
  /\ container' = [container EXCEPT ![h] = "exited"]
  /\ handler' = [handler EXCEPT ![h].pc = "leave"]
  /\ UNCHANGED <<runner, admitted, slots, leftover, client, bounds>>

\* The hard limit: docker kill, which may fail, and the CLI is killed.
HardLimit(h) ==
  /\ handler[h].pc = "run"
  /\ \/ container' = [container EXCEPT ![h] = "exited"] /\ UNCHANGED faults
     \/ faults < MaxFaults /\ faults' = faults + 1 /\ UNCHANGED container
  /\ handler' = [handler EXCEPT ![h].pc = "inspect"]
  /\ UNCHANGED <<runner, admitted, slots, leftover, client, calls, stops, crashes>>

Inspect(h) ==
  /\ handler[h].pc = "inspect"
  /\ handler' = [handler EXCEPT ![h].pc = "remove"]
  /\ UNCHANGED <<runner, admitted, slots, container, leftover, client, bounds>>

\* docker rm -f, in a finally; a daemon that does not answer keeps the container.
RemoveContainer(h) ==
  /\ handler[h].pc = "remove"
  /\ handler' = [handler EXCEPT ![h].pc = "leave"]
  /\ container' = [container EXCEPT ![h] = "none"]
  /\ \/ UNCHANGED <<leftover, faults>>
     \/ faults < MaxFaults /\ faults' = faults + 1 /\ leftover' = leftover + 1
  /\ UNCHANGED <<runner, admitted, slots, client, calls, stops, crashes>>

LeaveAnswered(h) ==
  /\ handler[h].pc = "leave"
  /\ admitted' = IF handler[h].for = Nobody THEN admitted ELSE admitted - 1
  /\ slots' = IF handler[h].holds /\ handler[h].for # Nobody THEN slots + 1 ELSE slots
  /\ client' = Answered(h, 200)
  /\ handler' = [handler EXCEPT ![h] = NoHandler]
  /\ UNCHANGED <<runner, container, leftover, bounds>>

\* The semaphore and the gate are given back, and the result is sent.
Leave(h) ==
  /\ handler[h].pc = "leave"
  /\ admitted' = admitted - 1
  /\ slots' = IF handler[h].holds THEN slots + 1 ELSE slots
  /\ client' = Answered(h, 200)
  /\ handler' = [handler EXCEPT ![h] = NoHandler]
  /\ UNCHANGED <<runner, container, leftover, bounds>>

-----------------------------------------------------------------------------
(* The runner's process                                                    *)

\* A shutdown takes no new requests.
Shutdown ==
  /\ runner = "up"
  /\ stops < MaxStops
  /\ stops' = stops + 1
  /\ runner' = "stopping"
  /\ UNCHANGED <<admitted, slots, handler, container, leftover, client, calls, faults, crashes>>

\* A handler that is not done in time is cancelled where it waits, and may be again where
\* its finally blocks wait. A container that was started is removed by the first of them;
\* one whose docker run or docker rm is cut off may be left.
Cancel(h) ==
  /\ runner = "stopping"
  /\ \/ /\ handler[h].pc = "gate"
        /\ handler' = [handler EXCEPT ![h] = NoHandler]
        /\ client' = Answered(h, 500)
        /\ UNCHANGED <<container, leftover>>
     \/ /\ handler[h].pc = "slot"
        /\ handler' = [handler EXCEPT ![h].pc = "leave"]
        /\ UNCHANGED <<container, leftover, client>>
     \/ /\ handler[h].pc \in Started \ {"remove"}
        /\ handler' = [handler EXCEPT ![h].pc = "remove"]
        /\ UNCHANGED <<container, leftover, client>>
     \/ /\ handler[h].pc \in {"start", "remove"}
        /\ handler' = [handler EXCEPT ![h].pc = "leave"]
        /\ container' = [container EXCEPT ![h] = "none"]
        /\ leftover' \in {leftover, leftover + 1}
        /\ UNCHANGED client
  /\ UNCHANGED <<runner, admitted, slots, bounds>>

\* The containers of a process that is gone stay, its clients lose their connections.
ProcessEnds ==
  /\ runner' = "down"
  /\ leftover' = leftover + Cardinality({h \in Handlers : container[h] # "none"})
  /\ container' = [h \in Handlers |-> "none"]
  /\ handler' = [h \in Handlers |-> NoHandler]
  /\ client' = [c \in Clients |-> IF client[c].pc = "wait" THEN Repeated(c) ELSE client[c]]
  /\ UNCHANGED <<admitted, slots, calls, faults, stops>>

\* The handlers are done, or their time is over and they were cancelled: their cleanup is
\* not waited for.
ShutDown ==
  /\ runner = "stopping"
  /\ ProcessEnds
  /\ UNCHANGED crashes

Crash ==
  /\ runner # "down"
  /\ crashes < MaxCrashes
  /\ crashes' = crashes + 1
  /\ ProcessEnds

\* lifespan: a new process, and remove_leftovers.
Boot ==
  /\ runner = "down"
  /\ runner' = "up"
  /\ admitted' = 0
  /\ slots' = Slots
  /\ \/ leftover' = 0 /\ UNCHANGED faults
     \/ faults < MaxFaults /\ faults' = faults + 1 /\ UNCHANGED leftover
  /\ UNCHANGED <<handler, container, client, calls, stops, crashes>>

-----------------------------------------------------------------------------
RunnerInit ==
  /\ runner = "up"
  /\ admitted = 0
  /\ slots = Slots
  /\ handler = [h \in Handlers |-> NoHandler]
  /\ container = [h \in Handlers |-> "none"]
  /\ leftover = 0
  /\ client = [c \in Clients |-> NoClient]
  /\ calls = 0
  /\ faults = 0
  /\ stops = 0
  /\ crashes = 0

Handle(h) ==
  \/ Enter(h) \/ Reject(h) \/ RefuseRun(h) \/ Acquire(h) \/ Start(h)
  \/ Feed(h) \/ Hang(h) \/ ContainerExits(h) \/ HardLimit(h) \/ Inspect(h) \/ RemoveContainer(h) \/ Leave(h)
ClientStep(c) == Post(c) \/ CannotPost(c) \/ NoAnswer(c)

RunnerNext ==
  \/ \E c \in Clients : Call(c) \/ ClientStep(c) \/ Disconnect(c)
  \/ \E h \in Handlers : Handle(h) \/ Cancel(h)
  \/ Shutdown \/ ShutDown \/ Crash \/ Boot

RunnerSpec == RunnerInit /\ [][RunnerNext]_runnerVars

\* The runner's event loop goes on, every request has a timeout, every Docker command
\* has one or is stuck for good (Hang), and the supervisor starts the runner again. The semaphore may pass a
\* waiter over, for as long as there are others.
Fairness ==
  /\ \A h \in Handlers :
       WF_runnerVars(Handle(h) /\ handler[h].pc # "slot") /\ WF_runnerVars(Acquire(h))
  /\ \A c \in Clients : WF_runnerVars(ClientStep(c))
  /\ WF_runnerVars(Boot)

FairRunnerSpec == RunnerSpec /\ Fairness

-----------------------------------------------------------------------------
(* Properties                                                              *)

\* The type of every variable.
RunnerTypeOK ==
  /\ runner \in {"up", "stopping", "down"}
  /\ admitted \in 0..Capacity
  /\ slots \in 0..Slots
  /\ handler \in [Handlers -> [pc : {"none", "gate"} \cup Admitted, for : Clients \cup {Nobody},
                               holds : BOOLEAN]]
  /\ container \in [Handlers -> {"none", "running", "exited"}]
  /\ leftover \in Nat
  /\ client \in [Clients -> [pc : {"idle", "post", "wait"}, tries : 0..Retries]]
  /\ calls \in Nat /\ faults \in Nat /\ stops \in Nat /\ crashes \in Nat

\* "At most slots runs at once and queue more waiting": whatever ended the
\* requests before, the gate and the semaphore count exactly those that are there.
GateBalanced ==
  runner # "down" =>
    /\ admitted = Cardinality({h \in Handlers : handler[h].pc \in Admitted})
    /\ slots + Cardinality({h \in Handlers : handler[h].holds}) = Slots

\* While the runner is up no container outlives its run, whatever became of the run, unless
\* a Docker command failed: what a crash or the end of a shutdown cut off is removed
\* before the first request is taken.
NoContainerOutlivesItsRun ==
  /\ \A h \in Handlers : handler[h].pc \notin Started => container[h] = "none"
  /\ leftover > 0 => faults > 0 \/ runner # "up"

\* A client that waits has one handler working for it, and nobody else's: the
\* repetition of a run never gets the answer of another.
OneHandlerPerClient ==
  \A c \in Clients : Cardinality(ForClient(c)) = IF client[c].pc = "wait" THEN 1 ELSE 0

\* The runner's books agree with what runs, whatever ended the requests: the three above.
RunnerInOrder ==
  RunnerTypeOK /\ GateBalanced /\ NoContainerOutlivesItsRun /\ OneHandlerPerClient

\* Every call gets a result, and every handler, also one that nobody waits for, comes to
\* its end and gives its slot back, unless Docker hangs where nothing limits the wait:
\* such a run keeps its slot, and others may wait for it.
Stuck == \E h \in Handlers : handler[h].pc = "stuck"
EveryCallEnds == \A c \in Clients : client[c].pc # "idle" ~> client[c].pc = "idle"
EveryRunEnds  == \A h \in Handlers : handler[h].pc # "none" ~> handler[h].pc = "none" \/ Stuck
NothingHangs  == EveryCallEnds /\ EveryRunEnds

\* Refuted by TLC (README, section 6): backends.py has "a wall-clock timeout enforced from
\* the outside", so that no run of a container lasts.
EveryRunIsLimited ==
  \A h \in Handlers : handler[h].pc \in Started ~> handler[h].pc \notin Started

StatusesOf(f) == {DockerStatus(f)} \cup (IF OnThisMachine(f) THEN {LocalStatus(f)} ELSE {})

\* models.py: "passed" is a suite that ran to its end with nothing wrong; an "error" is a
\* failure of the sandbox itself, and where no limit was reached every such failure is
\* called one: a repair round is asked to mend it only if it looks like the timeout, the
\* memory or the output of the code. With any stack and whichever backend. About the
\* verdicts alone: checked before any call.
VerdictsAreEarned ==
  calls = 0 =>
    \A stack \in Stacks : \A t \in TestFacts(stack, ReportLength), s \in Surroundings :
      LET f == Facts(t, s) IN
      \A status \in StatusesOf(f) :
        /\ status = "passed" => EarnedPass(f)
        /\ status = "error" => SandboxFailed(f)
        /\ SandboxFailed(f) /\ ~LimitReached(f) => status = "error"

\* Refuted by TLC (README, section 6): models.py says of "passed" that "the test suite ran
\* and every collected test passed".
EveryTestPassed ==
  calls = 0 =>
    \A stack \in Stacks : \A t \in TestFacts(stack, ReportLength), s \in Surroundings :
      LET f == Facts(t, s) IN
      "passed" \in StatusesOf(f) => f.ran.skipped = 0

\* Counting test reports, every test of node and go that is collected passed, failed or
\* was skipped, and a failure is listed for every one counted, up to the limit of the
\* list, which only packages of go that cannot be built may pass.
CountsAddUp ==
  calls = 0 =>
    \A stack \in Stacks : \A r \in SeqOf(ReportsOf(stack), ReportLength) :
      LET n == Counts(stack, r) IN
      /\ stack # "python" => n.collected = n.passed + n.failed + n.skipped
      /\ n.failures = IF n.failed + n.errors <= MaxFailures THEN n.failed + n.errors
                      ELSE IF stack = "go" /\ n.errors > MaxFailures THEN n.errors
                      ELSE MaxFailures

\* Lint and type checks neither hold the tests' report up past the backend's
\* patience nor claim anything their tool has not found.
ChecksAreSound == calls = 0 => ChecksInTime /\ ChecksHonest

\* What a test run is reported as follows from what it did: the three above.
ReportsAreEarned == VerdictsAreEarned /\ CountsAddUp /\ ChecksAreSound
=============================================================================
