-------------------------- MODULE SandboxVerdict --------------------------
(***************************************************************************)
(* How a run of generated tests becomes a status: what the entry script    *)
(* makes of its test step inside the container, and what the backend makes *)
(* of the container around it. What happened is a record of facts; a text  *)
(* is present or not, a count is zero or not.                              *)
(***************************************************************************)
EXTENDS Naturals, Sequences, SequencesExt

CONSTANTS
  MaxFailures     \* autoswe_sandbox_report.MAX_FAILURES, and the 50 of entry.py

ASSUME MaxFailuresAssumption == MaxFailures \in Nat \ {0}

Stacks     == {"python", "typescript", "go"}
Statuses   == {"passed", "failed", "no_tests", "timeout", "resource_limit", "error"}
Repairable == {"failed", "timeout", "resource_limit"}

-----------------------------------------------------------------------------
(* Counting tests                                                          *)

NoTests == [collected |-> 0, passed |-> 0, failed |-> 0, errors |-> 0, skipped |-> 0,
            failures |-> 0]

Plus(counts, fields) ==
  [f \in DOMAIN counts |-> IF f \in fields THEN counts[f] + 1 ELSE counts[f]]

\* A failure is listed as well as counted while there is room for it.
Listed(counts, fields) ==
  Plus(counts, IF counts.failures < MaxFailures THEN fields \cup {"failures"} ELSE fields)

\* autoswe_sandbox_report: what pytest reports of a collector or of a phase of a test.
PytestReports ==
  [when : {"collect"}, outcome : {"failed"}]
    \cup [when : {"setup"}, outcome : {"skipped", "failed"}]
    \cup [when : {"call"}, outcome : {"passed", "failed", "skipped"}]
    \cup [when : {"teardown"}, outcome : {"failed"}]

PytestAdds(counts, r) ==
  CASE r.outcome = "skipped" -> Plus(counts, {"skipped"})
    [] r.outcome = "passed"  -> Plus(counts, {"passed"})
    [] r.outcome = "failed" /\ r.when = "call" -> Listed(counts, {"failed"})
    [] r.outcome = "failed" /\ r.when # "call" -> Listed(counts, {"errors"})

\* The test cases of node's JUnit report.
JunitCases == {"failed", "skipped", "passed"}
JunitAdds(counts, c) ==
  IF c = "failed" THEN Listed(counts, {"collected", c}) ELSE Plus(counts, {"collected", c})

\* go test -json: the end of a test, or of a package that failed with some output.
GoEvents == [test : BOOLEAN, action : {"passed", "failed", "skipped"}]

\* A package is a failure of its own only while no test has been reported; it is listed
\* whatever the room.
GoAdds(counts, e) ==
  IF e.test
    THEN JunitAdds(counts, e.action)
  ELSE IF e.action = "failed" /\ counts.collected = 0
    THEN Plus(counts, {"errors", "failures"})
  ELSE counts

-----------------------------------------------------------------------------
(* Inside the container                                                    *)

\* How a step of the check ended: the tool is missing, it was killed at the
\* deadline, or it exited, 5 being pytest's code for a suite without tests.
Steps == {"missing", "timed_out", "exit_0", "exit_1", "exit_5"}

\* _check_python, for the test step; the interpreter itself is never missing.
PythonVerdict(step, counts) ==
  CASE step = "timed_out" -> "timeout"
    [] step = "exit_0" /\ counts.passed > 0 -> "passed"
    [] step = "exit_5" -> "no_tests"
    [] OTHER -> "failed"

\* _verdict, for the other stacks.
OtherVerdict(step, counts) ==
  LET failed == counts.failed + counts.errors IN
  CASE step = "missing"   -> "error"
    [] step = "timed_out" -> "timeout"
    [] step = "exit_0" /\ failed = 0 /\ counts.collected = 0 -> "no_tests"
    [] step = "exit_0" /\ failed = 0 /\ counts.collected # 0 -> "passed"
    [] OTHER -> "failed"

TestStatus(f) == IF f.stack = "python" THEN PythonVerdict(f.step, f.counts)
                 ELSE OtherVerdict(f.step, f.counts)

\* main: the status the entry script prints. Killed processes and refused forks,
\* counted by the container's own cgroup, overrule the tests.
EntryStatus(f) ==
  CASE f.archive = "too_large" -> "resource_limit"
    [] f.archive = "broken" -> "error"
    [] f.archive = "ok" /\ f.limit # "none" -> "resource_limit"
    [] f.archive = "ok" /\ f.limit = "none" -> TestStatus(f)

-----------------------------------------------------------------------------
(* Around the container                                                    *)

\* parse_entry_output and _result: a report that is missing, garbled or no result is an
\* error.
Report(f) == IF f.report = "printed" THEN EntryStatus(f) ELSE "error"

OrderedReportFirst(f, memoryKill) ==
  CASE f.report = "printed" -> Report(f)
    [] OTHER -> IF f.timedOut THEN "timeout"
                ELSE IF f.overflow \/ memoryKill THEN "resource_limit" ELSE "error"

\* The order of the verdicts both backends share.
Ordered(f, memoryKill) ==
  CASE f.timedOut -> "timeout"
    [] ~f.timedOut /\ (f.overflow \/ memoryKill) -> "resource_limit"
    [] ~f.timedOut /\ ~f.overflow /\ ~memoryKill -> Report(f)

\* DockerSandbox._classify: Docker saw the memory limit kill a process, or the container
\* was killed and left nothing that can be parsed. With an invalid report the first
\* raises, and the caller takes the request's 500 for an error.
DockerStatus(f) ==
  Ordered(f, IF f.oomKilled
               THEN /\ f.report # "invalid"
                    /\ ~(f.report = "printed" /\ EntryStatus(f) = "timeout")
               ELSE f.report \in {"garbled", "none"} /\ f.exit = 137)

\* LocalProcessSandbox._run
LocalStatus(f) == Ordered(f, FALSE)

-----------------------------------------------------------------------------
(* The facts a run may leave                                               *)

Adds(stack, counts, r) ==
  CASE stack = "python"     -> PytestAdds(counts, r)
    [] stack = "typescript" -> JunitAdds(counts, r)
    [] stack = "go"         -> GoAdds(counts, r)

Counts(stack, reports) ==
  LET after[n \in 0..Len(reports)] ==
        IF n = 0 THEN NoTests ELSE Adds(stack, after[n - 1], reports[n])
  IN  after[Len(reports)]

ReportsOf(stack) ==
  CASE stack = "python"     -> PytestReports
    [] stack = "typescript" -> JunitCases
    [] stack = "go"         -> GoEvents

\* What is read of the reports: pytest and node write a file, if they come to that; of
\* what go prints only the last 16 kB are kept.
Read(stack, reports) ==
  IF stack = "go" THEN Suffixes(reports) ELSE {reports, <<>>}

StepsOf(stack) == IF stack = "python" THEN Steps \ {"missing"} ELSE Steps \ {"exit_5"}

\* A test tool exits with 0 only if nothing failed, pytest with 5 only if it found nothing.
ExitsAsItRan(f) ==
  /\ f.step = "exit_0" => f.ran.failed = 0 /\ f.ran.errors = 0
  /\ f.step = "exit_5" => f.ran = NoTests

\* What one stack's tests can have come to, for reports of at most n lines: what ran, and
\* what the script counted of it.
TestFacts(stack, n) ==
  {f \in UNION {[stack  : {stack},
                 step   : StepsOf(stack),
                 ran    : {Counts(stack, reports)},
                 counts : {Counts(stack, part) : part \in Read(stack, reports)}] :
                reports \in SeqOf(ReportsOf(stack), n)} : ExitsAsItRan(f)}

Surroundings ==
  [archive : {"ok", "too_large", "broken"}, limit : {"none", "memory", "pids"},
   report : {"printed", "invalid", "garbled", "none"}, exit : {0, 137},
   oomKilled : BOOLEAN, overflow : BOOLEAN, timedOut : BOOLEAN]

\* The local backend has no archive, and nobody counts what its processes use.
OnThisMachine(f) == f.archive = "ok" /\ f.limit = "none" /\ ~f.oomKilled

\* A run that left both.
Facts(tests, around) ==
  [f \in DOMAIN tests \cup DOMAIN around |->
     IF f \in DOMAIN tests THEN tests[f] ELSE around[f]]

-----------------------------------------------------------------------------
(* What a status must mean                                                 *)

\* One of the limits ended the run, or processes of it, or so it looks from outside.
LimitReached(f) ==
  \/ f.timedOut \/ f.overflow \/ f.oomKilled
  \/ f.report \in {"garbled", "none"} /\ f.exit = 137
  \/ f.report = "printed" /\ f.archive = "ok" /\ f.limit # "none"

\* The sandbox itself failed: the files never arrived, a tool is missing, or there is no
\* report that can be read.
SandboxFailed(f) ==
  \/ f.archive = "broken"
  \/ f.archive = "ok" /\ f.step = "missing"
  \/ f.report # "printed"

\* The suite ran to its end within every limit, nothing of it failed, and the counts show
\* a test. Tests that are skipped are enough for node and go, not for pytest.
EarnedPass(f) ==
  /\ ~LimitReached(f) /\ ~SandboxFailed(f)
  /\ f.archive = "ok" /\ f.step = "exit_0"
  /\ f.ran.failed = 0 /\ f.ran.errors = 0
  /\ f.counts.passed > 0 \/ (f.stack # "python" /\ f.counts.skipped > 0)
=============================================================================
