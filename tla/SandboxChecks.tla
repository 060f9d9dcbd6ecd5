--------------------------- MODULE SandboxChecks ---------------------------
(***************************************************************************)
(* The checks the entry script runs inside the container, one behind the   *)
(* other under one deadline: lint, tests, type check. What a tool did is a *)
(* record of facts; a check is what the script makes of it. Times are in   *)
(* tenths of a second.                                                     *)
(***************************************************************************)
EXTENDS Naturals

\* What a tool does: there is none, or it wants so much time, leaves somebody
\* behind who holds its output open or not, exits with a code, and has listed
\* problems in its output or not.
Tools(wants) ==
  [missing : BOOLEAN, wants : wants, held : BOOLEAN, code : {0, 1, 2}, listed : {0, 1}]

-----------------------------------------------------------------------------
(* Time                                                                    *)

MaxOf(a, b) == IF a >= b THEN a ELSE b

\* The deadline the backend hands in, from its limit.
Deadline(limit) == MaxOf(limit - 20, 10)

\* What a step is allowed from a point in time on; a little, behind the deadline.
TimeAllowed(start, deadline) == IF deadline > start THEN MaxOf(deadline - start, 1) ELSE 1

Killed(tool, start, deadline) == ~tool.missing /\ tool.wants > TimeAllowed(start, deadline)

\* Behind the end of a tool, its output is waited for for one second.
End(tool, start, deadline) ==
  IF tool.missing THEN start
  ELSE start + (IF Killed(tool, start, deadline) THEN TimeAllowed(start, deadline) ELSE tool.wants)
             + (IF tool.held THEN 10 ELSE 0)

-----------------------------------------------------------------------------
(* Checks                                                                  *)

\* The step as the script sees it; without a tool or an end there is no exit code.
NoCode == 99
Step(tool, killed) ==
  [killed |-> killed, listed |-> IF tool.missing THEN 0 ELSE tool.listed,
   code |-> IF tool.missing \/ killed THEN NoCode ELSE tool.code]

\* Neither an exit of 0 nor a problem: crashed or not installed.
Check(step, count) ==
  CASE step.killed -> "timeout"
    [] ~step.killed /\ step.code = 0 -> "passed"
    [] ~step.killed /\ step.code # 0 /\ count > 0 -> "failed"
    [] ~step.killed /\ step.code # 0 /\ count = 0 -> "error"

\* ruff and eslint list problems as JSON, which counts only behind an exit of 0 or 1.
Lint(step) == Check(step, IF step.code \in {0, 1} THEN step.listed ELSE 0)

\* gofmt exits with 0 and lists the files it would change.
Gofmt(step) ==
  IF step.code # 0 THEN Check(step, 0) ELSE IF step.listed > 0 THEN "failed" ELSE "passed"

\* mypy, tsc and go vet.
Typecheck(step) == Check(step, step.listed)

\* The checks of a stack. The types are not looked at behind tests that were
\* killed, in the last second, or, for Python, where there is nothing to look at.
TypesAreChecked(stack, wanted, targets, killed, now, deadline) ==
  /\ wanted
  /\ stack = "python" => targets
  /\ ~killed
  /\ now + 10 < deadline

Run(stack, limit, wanted, targets, lint, tests, types) ==
  LET deadline == Deadline(limit)
      linted   == End(lint, 0, deadline)
      tested   == End(tests, linted, deadline)
      killed   == Killed(tests, linted, deadline)
      typed    == TypesAreChecked(stack, wanted, targets, killed, tested, deadline)
      lintStep == Step(lint, Killed(lint, 0, deadline))
      typeStep == Step(types, Killed(types, tested, deadline))
  IN [lint  |-> IF stack = "go" THEN Gofmt(lintStep) ELSE Lint(lintStep),
      types |-> IF typed THEN Typecheck(typeStep) ELSE "none",
      killed |-> killed,
      ended |-> IF typed THEN End(types, tested, deadline) ELSE tested]

-----------------------------------------------------------------------------
(* What a check must mean                                                  *)

\* How long a backend waits beyond the limit: for a process; for a container, longer.
LocalGrace == 50

Verdicts == {"passed", "failed"}

\* A verdict on the code comes from a tool that ran to its end: it passes what it
\* exits with 0 for, and fails what it lists problems of.
Earned(verdict, tool, killed) ==
  /\ verdict \in Verdicts => ~tool.missing /\ ~killed
  /\ verdict = "passed" => tool.code = 0
  /\ verdict = "failed" => tool.listed > 0
  /\ verdict = "timeout" <=> killed

Waits == {0, 12, 29, 900}
Quick == [missing |-> FALSE, wants |-> 0, held |-> FALSE, code |-> 0, listed |-> 0]

\* Whatever the tools do, and however many of them hang, the script is done well
\* before the backend kills it, which would lose its report; and every check
\* says of the code only what its tool has found.
ChecksInTime ==
  \A limit \in {50, 60}, lint, tests, types \in
       [missing : BOOLEAN, wants : Waits, held : BOOLEAN, code : {0}, listed : {0}] :
    LET run == Run("typescript", limit, TRUE, TRUE, lint, tests, types) IN
    /\ run.ended <= Deadline(limit) + 21
    /\ run.ended < limit + LocalGrace
    /\ run.types # "none" => ~run.killed

ChecksHonest ==
  \A stack \in {"python", "typescript", "go"}, wanted, targets \in BOOLEAN, tool \in Tools(Waits) :
    LET linted == Run(stack, 50, wanted, targets, tool, Quick, Quick)
        typed  == Run(stack, 50, wanted, targets, Quick, Quick, tool)
        killed == Killed(tool, 0, Deadline(50))
    IN /\ Earned(linted.lint, tool, killed)
       /\ stack = "go" /\ linted.lint = "passed" => tool.listed = 0
       /\ typed.types # "none" => wanted /\ Earned(typed.types, tool, killed)
=============================================================================
