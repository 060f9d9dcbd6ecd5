----------------------------- MODULE EvalSuite -----------------------------
(***************************************************************************)
(* The evaluation suite: it runs the pipeline on fixtures with a live      *)
(* model, or records what a provider answers, or replays recordings and    *)
(* refuses a call that was recorded for another question; it scores every  *)
(* run and fails when a mean falls below its threshold. Between two suites *)
(* a prompt may change and the sandbox may be turned on or off.            *)
(***************************************************************************)
EXTENDS ModelCalls, Relations, Routes, SpecReading

CONSTANTS
  Fixtures,         \* the fixtures in the order of their names
  Messages,         \* what the API may send for one call
  Plain,            \* the message of most calls
  RepairRounds,     \* max_repair_rounds
  TestRepairRounds, \* settings.sandbox_max_repair_rounds
  Thresholds,       \* evals/thresholds.yaml: the least mean of some metrics, in percent
  MaxSuites, MaxChanges, MaxTrouble, \* bounds: suites, changes, outcomes that are not the best
  Selections,       \* bound: the fixtures --only may name
  Edited,           \* bound: the questions whose prompts change
  EntityLists, Projects, Texts, Hints, DeclarationLists \* bounds: inputs of the pure parts

\* What an attempt at an answer was billed. A message is by the model of the last attempt, and its
\* own usage names no model (external: the API).
Attempts == [model : STRING, uncached : Nat, output : Nat, read : Nat, write : Nat]

ASSUME EvalAssumption ==
  /\ Fixtures \in Seq(STRING)
  /\ Selections \subseteq SUBSET ToSet(Fixtures)
  /\ Messages \subseteq [model : STRING, usage : Attempts, iterations : Seq(Attempts), stop : STRING,
                         valid : BOOLEAN]
  /\ \A m \in Messages :
       /\ m.usage.model = ""
       /\ m.iterations # <<>> => Last(m.iterations).model \in {"", m.model}
  /\ Plain \in Messages
  /\ {RepairRounds, TestRepairRounds, MaxSuites, MaxChanges, MaxTrouble} \subseteq Nat
  /\ DOMAIN Thresholds \subseteq {"completed", "validation_passed", "tests_passed", "review_score"}
  /\ \A m \in DOMAIN Thresholds : Thresholds[m] \in 0 .. 100

\* What is read is of the shape the parsers give it.
ASSUME InputsAssumption ==
  /\ \A e \in EntityLists : IsSpecification(e)
  /\ \A p \in Projects : IsProject(p)
  /\ \A t \in Texts : IsText(t)
  /\ \A h \in Hints : AreHints(h)
  /\ DeclarationLists \subseteq Seq(Declaration)

\* The thresholds checked in ask for all of both, of every fixture (evals/thresholds.yaml).
ASSUME ThresholdsAssumption ==
  \E m \in {"completed", "review_score"} \cap DOMAIN Thresholds : Thresholds[m] = 100

Sources == {"offline-provider", "anthropic"}
Places  == {"analyst", "architect", "coder", "devops", "repair", "test_repair", "reviewer"}
Metrics == {"completed", "validation_passed", "tests_passed", "review_score"}
NoRecording == [source |-> "none", calls |-> <<>>]
NoResult    == [error |-> "not run", metrics |-> <<>>, calls |-> <<>>, meter |-> NoMeter]
Unmeasured  == -1

VARIABLES
  prompts,  \* for every agent's question, the version of its prompts and schema
  sandbox,  \* whether a sandbox is configured
  disk,     \* evals/recordings
  suite,    \* the suite that runs: its mode, where its answers come from, the fixtures it has left,
            \* as places in Fixtures, and all it was started with
  run,      \* run_fixture's pipeline and provider, or record_suite's
  results,  \* SuiteRun.results
  verdict,  \* the exit of the last suite
  bill,     \* history: what the API billed for the messages of this run, answers or not
  taken,    \* history: for every recording, the score and the price of the run it was made from
  bounds    \* suites, changes and troubles so far

vars == <<prompts, sandbox, disk, suite, run, results, verdict, bill, taken, bounds>>

NoBill  == [exact |-> 0, attempts |-> 0, unknown |-> FALSE, tokens |-> 0, cost |-> 0]
NewRun  == [at |-> "analyst", code |-> "none", valid |-> "none", rounds |-> 0, tests |-> <<>>,
            review |-> "none", calls |-> <<>>, next |-> 1, error |-> "", meter |-> NoMeter]
NoSuite == [mode |-> "idle", source |-> "none", left |-> {}, all |-> {}]
Fixture == Fixtures[Min(suite.left)]

-----------------------------------------------------------------------------
(* Questions and answers                                                   *)

AgentOf(place) == IF place \in {"repair", "test_repair"} THEN "coder.repair" ELSE place

LastTest == IF run.tests = <<>> THEN "not executed" ELSE Last(run.tests)

\* What of the project and of the sandbox's verdict the prompt of a call shows.
ShownCode == IF run.at \in {"repair", "test_repair", "reviewer"} THEN <<run.code>> ELSE <<>>
Shown == ShownCode \o IF run.at \in {"test_repair", "reviewer"} THEN <<LastTest>> ELSE <<>>

Fingerprint == [agent |-> AgentOf(run.at), prompt |-> <<run.at, prompts[run.at]>>, shown |-> Shown]

\* The offline provider returns a repair's files as they were and scores by rule.
OfflineReview ==
  IF run.valid = "passed" /\ LastTest \in {"not executed", "error", "passed", "few"}
  THEN "high" ELSE "low"

Answers(source) ==
  CASE run.at = "coder" -> {"good", "flawed", "odd"}
    [] run.at \in {"repair", "test_repair"} ->
         IF source = "offline-provider" THEN {"same"} ELSE {"good", "flawed", "same"}
    [] run.at = "reviewer" ->
         IF source = "offline-provider" THEN {OfflineReview} ELSE {"high", "low"}
    [] OTHER -> {"text"}

-----------------------------------------------------------------------------
(* The pipeline, as far as its calls go                                    *)

Troubled(n) ==
  /\ bounds.troubles + n <= MaxTrouble
  /\ bounds' = [bounds EXCEPT !.troubles = @ + n]

AfterValidation == IF sandbox THEN "test" ELSE "reviewer"

\* What an answer does to the project, and which call or step comes next.
Answered(answer) ==
  CASE run.at = "analyst"   -> [run EXCEPT !.at = "architect"]
    [] run.at = "architect" -> [run EXCEPT !.at = "coder"]
    [] run.at = "coder"     -> [run EXCEPT !.at = "devops", !.code = answer]
    [] run.at = "devops"    -> [run EXCEPT !.at = "validate"]
    [] run.at = "repair" ->
         IF answer = "same" THEN [run EXCEPT !.at = AfterValidation]
         ELSE [run EXCEPT !.at = "validate", !.code = answer]
    [] run.at = "test_repair" ->
         IF answer = "same" THEN [run EXCEPT !.at = "reviewer"]
         ELSE [run EXCEPT !.at = "test", !.code = answer,
                          !.valid = IF answer = "good" THEN "passed" ELSE "failed"]
    [] run.at = "reviewer"  -> [run EXCEPT !.at = "finished", !.review = answer]

RoundsLeft     == run.rounds < RepairRounds

Validate ==
  /\ run.at = "validate" /\ run.code # "odd"
  /\ run' = IF run.code = "flawed" /\ RoundsLeft
            THEN [run EXCEPT !.valid = "failed", !.at = "repair", !.rounds = @ + 1]
            ELSE [run EXCEPT !.valid = IF run.code = "good" THEN "passed" ELSE "failed",
                             !.at = AfterValidation]
  /\ UNCHANGED <<prompts, sandbox, disk, suite, results, verdict, bill, taken, bounds>>

\* few: all passed, and fewer ran than the fixture asks for. error: the sandbox failed.
Test ==
  /\ run.at = "test"
  /\ \E outcome \in {"passed", "few", "failed", "error"} :
       /\ Troubled(IF outcome = "passed" THEN 0 ELSE 1)
       /\ run' = [run EXCEPT !.tests = Append(@, outcome),
                             !.at = IF outcome = "failed" /\ Len(run.tests) < TestRepairRounds
                                    THEN "test_repair" ELSE "reviewer"]
  /\ UNCHANGED <<prompts, sandbox, disk, suite, results, verdict, bill, taken>>

-----------------------------------------------------------------------------
(* Providers                                                               *)

Call(model, usage, answer) ==
  [agent |-> AgentOf(run.at), asked |-> Fingerprint, model |-> model, usage |-> usage,
   answer |-> answer]

\* The wire's own counts of what was billed (history): every attempt, by the model that made it.
AttemptsOf(message) == IF message.iterations = <<>> THEN <<message.usage>> ELSE message.iterations
ModelOf(message, e) == IF e.model = "" THEN message.model ELSE e.model
TokensOf(e)         == e.uncached + e.read + e.write + e.output
PriceOf(message, e) ==
  LET model == ModelOf(message, e) IN
  IF model \in DOMAIN Prices
  THEN e.uncached * Prices[model].input + e.read * Prices[model].read
         + e.write * Prices[model].write + e.output * Prices[model].output
  ELSE 0

Billing(message) ==
  LET entries == AttemptsOf(message) IN
  [exact    |-> bill.exact + Total([i \in DOMAIN entries |-> PriceOf(message, entries[i])]),
   attempts |-> bill.attempts + Len(entries),
   unknown  |-> bill.unknown
                  \/ \E i \in DOMAIN entries : ModelOf(message, entries[i]) \notin DOMAIN Prices,
   tokens   |-> bill.tokens + Total([i \in DOMAIN entries |-> TokensOf(entries[i])]),
   cost     |-> bill.cost + Price(Response(message)).cost]

\* A provider that is not a recording: metered when run_fixture runs it, kept when recorded. The API
\* bills every message; one that is refused, cut off or invalid raises before it can be metered.
LiveCall ==
  /\ suite.mode \in {"record", "live"} /\ run.at \in Places /\ run.error = ""
  /\ \E m \in (IF suite.source = "anthropic" THEN Messages ELSE {Plain}) :
       /\ IF Outcome(m) # "answered"
          THEN Troubled(1) /\ run' = [run EXCEPT !.error = Outcome(m)]
          ELSE \E answer \in Answers(suite.source) :
                 LET usage  == IF suite.source = "anthropic" THEN Usage(m) ELSE NoTokens
                     called == Answered(answer) IN
                 /\ Troubled((IF m = Plain THEN 0 ELSE 1)
                               + (IF answer \in {"text", "good", "high"} THEN 0 ELSE 1))
                 /\ run' = [called EXCEPT
                              !.calls = IF suite.mode = "record"
                                        THEN Append(@, Call(m.model, usage, answer)) ELSE @,
                              !.meter = IF suite.mode = "live" THEN MeterAdd(@, Response(m), TRUE)
                                        ELSE @]
       /\ bill' = IF suite.source = "anthropic" THEN Billing(m) ELSE bill
  /\ UNCHANGED <<prompts, sandbox, disk, suite, results, verdict, taken>>

\* The API answers with an error, or not at all.
CallFails ==
  /\ suite.mode \in {"record", "live"} /\ suite.source = "anthropic"
  /\ run.at \in Places /\ run.error = ""
  /\ Troubled(1)
  /\ \E e \in ApiErrors : run' = [run EXCEPT !.error = ErrorOf(e)]
  /\ UNCHANGED <<prompts, sandbox, disk, suite, results, verdict, bill, taken>>

\* ReplayProvider: the next recorded call must be by this agent and for this question.
MatchesAgent(call) == call.agent = AgentOf(run.at)
Matches(call)      == call.agent = AgentOf(run.at) /\ call.asked = Fingerprint

ReplayCall ==
  /\ suite.mode = "replay" /\ run.at \in Places /\ run.error = ""
  /\ LET recorded == disk[Fixture] IN
     IF run.next > Len(recorded.calls) THEN run' = [run EXCEPT !.error = "mismatch"]
     ELSE LET call == recorded.calls[run.next]
              response == [model |-> call.model, usage |-> call.usage, billed |-> <<>>] IN
          IF ~Matches(call)
          THEN run' = [run EXCEPT !.next = @ + 1, !.error = "mismatch"]
          ELSE run' = [Answered(call.answer) EXCEPT
                         !.next = @ + 1,
                         !.calls = Append(@, Call(call.model, call.usage, call.answer)),
                         !.meter = MeterAdd(@, response, recorded.source # "offline-provider")]
  /\ UNCHANGED <<prompts, sandbox, disk, suite, results, verdict, bill, taken, bounds>>

-----------------------------------------------------------------------------
(* Scoring                                                                 *)

Ended == run.at = "finished" \/ run.error # ""

\* A recording with calls to spare is as stale as one with too few.
FixtureError ==
  IF suite.mode = "replay" /\ run.error = "" /\ run.next <= Len(disk[Fixture].calls)
  THEN "mismatch" ELSE run.error

Metric(value) ==
  CASE value \in {"passed", "high"}                -> 1
    [] value \in {"failed", "few", "low"}          -> 0
    [] value \in {"none", "not executed", "error"} -> Unmeasured

Measured(error) ==
  [completed         |-> IF error = "" THEN 1 ELSE 0,
   validation_passed |-> Metric(run.valid),
   tests_passed      |-> Metric(LastTest),
   review_score      |-> Metric(run.review)]

ScoreMeasured(error) == Measured(error)

\* score: a run that did not finish scores zero on what it did not produce.
Score(error) ==
  [m \in Metrics |->
     IF /\ Measured(error)[m] = Unmeasured
        /\ error # ""
        /\ m = "tests_passed" => sandbox
     THEN 0 ELSE Measured(error)[m]]

\* suite_means and check: the mean over the fixtures where the metric was measured.
Regressed(m) ==
  LET measured == {f \in suite.all : results[f].metrics[m] # Unmeasured}
      passed   == {f \in measured : results[f].metrics[m] = 1} IN
  \/ measured = {}
  \/ 100 * Cardinality(passed) < Thresholds[m] * Cardinality(measured)

Failures == {m \in DOMAIN Thresholds : Regressed(m)}

-----------------------------------------------------------------------------
(* Suites                                                                  *)

Start(mode, source, only) ==
  /\ suite = NoSuite
  /\ bounds.suites < MaxSuites
  /\ bounds' = [bounds EXCEPT !.suites = @ + 1]
  /\ suite' = [mode |-> mode, source |-> source, all |-> only,
               left |-> {i \in DOMAIN Fixtures : Fixtures[i] \in only}]
  /\ run' = NewRun
  /\ bill' = NoBill
  /\ results' = [f \in ToSet(Fixtures) |-> NoResult]
  /\ verdict' = "none"
  /\ UNCHANGED <<prompts, sandbox, disk, taken>>

\* main names the one source of all the recordings, or else says "mixed".
SourceOfAll(only) ==
  LET sources == {disk[f].source : f \in only} IN
  IF Cardinality(sources) = 1 THEN CHOOSE s \in sources : TRUE ELSE "mixed"

StartSuite ==
  \E only \in Selections :
    \/ \E s \in Sources : Start("record", s, only)
    \/ Start("live", "anthropic", only)
    \/ /\ \A f \in only : disk[f] # NoRecording   \* load_recordings
       /\ Start("replay", SourceOfAll(only), only)

NextFixture ==
  /\ suite' = [suite EXCEPT !.left = @ \ {Min(@)}]
  /\ run' = NewRun
  /\ bill' = NoBill

FixtureScored ==
  /\ suite.mode \in {"live", "replay"} /\ suite.left # {} /\ Ended
  /\ results' = [results EXCEPT ![Fixture] =
                   [error |-> FixtureError, metrics |-> Score(FixtureError), calls |-> run.calls,
                    meter |-> run.meter]]
  /\ NextFixture
  /\ UNCHANGED <<prompts, sandbox, disk, verdict, taken, bounds>>

Save ==
  /\ disk' = [disk EXCEPT ![Fixture] = [source |-> suite.source, calls |-> run.calls]]
  /\ taken' = [taken EXCEPT ![Fixture] =
                 [metrics |-> Measured(""), cost |-> bill.cost,
                  once |-> bill.attempts = Len(run.calls)]]

FixtureRecorded ==
  /\ suite.mode = "record" /\ suite.left # {} /\ run.at = "finished"
  /\ Save
  /\ NextFixture
  /\ UNCHANGED <<prompts, sandbox, results, verdict, bounds>>

Raises ==
  \/ suite.mode = "record" /\ run.error # ""
  \/ run.at = "validate" /\ run.code = "odd"

\* What run_pipeline raises ends the suite, unless it is an error of a provider to be scored; the
\* recordings written before it stay, and the fixture's own is not written.
SuiteAborts ==
  /\ Raises
  /\ suite' = NoSuite
  /\ run' = NewRun
  /\ bill' = NoBill
  /\ verdict' = "aborted"
  /\ UNCHANGED <<prompts, sandbox, disk, taken, results, bounds>>

SuiteEnds ==
  /\ suite # NoSuite /\ suite.left = {}
  /\ suite' = NoSuite
  /\ verdict' = IF suite.mode = "record" THEN "recorded"
                ELSE IF Failures = {} THEN "passed" ELSE "failed"
  /\ UNCHANGED <<prompts, sandbox, disk, run, results, bill, taken, bounds>>

\* Between suites somebody edits a prompt, or runs with another --sandbox.
Change ==
  /\ suite = NoSuite
  /\ bounds.changes < MaxChanges
  /\ bounds' = [bounds EXCEPT !.changes = @ + 1]
  /\ \/ \E p \in Edited : prompts' = [prompts EXCEPT ![p] = @ + 1] /\ UNCHANGED sandbox
     \/ sandbox' = ~sandbox /\ UNCHANGED prompts
  /\ UNCHANGED <<disk, suite, run, results, verdict, bill, taken>>

\* The recordings checked in: the offline provider's, of a run whose tests passed, or none.
CheckedInCall(place, shown, answer) ==
  [agent |-> place, asked |-> [agent |-> place, prompt |-> <<place, 0>>, shown |-> shown],
   model |-> Plain.model, usage |-> NoTokens, answer |-> answer]

CheckedIn ==
  [source |-> "offline-provider",
   calls |-> <<CheckedInCall("analyst", <<>>, "text"), CheckedInCall("architect", <<>>, "text"),
               CheckedInCall("coder", <<>>, "good"), CheckedInCall("devops", <<>>, "text"),
               CheckedInCall("reviewer", <<"good", "passed">>, "high")>>]

Init ==
  /\ prompts = [p \in Places |-> 0]
  /\ sandbox = TRUE
  /\ disk \in {[f \in ToSet(Fixtures) |-> r] : r \in {NoRecording, CheckedIn}}
  /\ suite = NoSuite
  /\ run = NewRun
  /\ results = [f \in ToSet(Fixtures) |-> NoResult]
  /\ verdict = "none"
  /\ bill = NoBill
  /\ taken = [f \in ToSet(Fixtures) |->
                [metrics |-> [m \in Metrics |-> 1], cost |-> 0, once |-> FALSE]]
  /\ bounds = [suites |-> 0, changes |-> 0, troubles |-> 0]

\* The fixture at hand makes its calls while one is left.
Next ==
  \/ StartSuite
  \/ suite.left # {} /\ (LiveCall \/ CallFails \/ ReplayCall \/ Validate \/ Test)
  \/ FixtureScored
  \/ FixtureRecorded
  \/ SuiteAborts
  \/ SuiteEnds
  \/ Change

Spec == Init /\ [][Next]_vars

-----------------------------------------------------------------------------
(* Properties                                                              *)

\* Every variable keeps its shape, and a run makes no more calls than its two loops of repairs allow.
TypeOK ==
  /\ prompts \in [Places -> 0 .. MaxChanges] /\ sandbox \in BOOLEAN
  /\ \A f \in ToSet(Fixtures) : disk[f].source \in Sources \cup {"none"}
  /\ suite.mode \in {"idle", "record", "live", "replay"}
  /\ run.at \in Places \cup {"validate", "test", "finished"}
  /\ run.rounds <= RepairRounds
  /\ Len(run.calls) <= 5 + RepairRounds + TestRepairRounds
  /\ Len(run.tests) <= 1 + TestRepairRounds
  /\ verdict \in {"none", "passed", "failed", "aborted", "recorded"}

\* A replayed run that ends without an error asked exactly what was asked when it was recorded and
\* got every recorded answer, none left ("instead of passing on stale answers", README.md).
NoStaleAnswers ==
  \A f \in ToSet(Fixtures) :
    suite.mode = "replay" /\ results[f].error = "" => results[f].calls = disk[f].calls

\* Such a run also scores what the recorded run scored, though the tests ran again: had they ended
\* otherwise, a question would have shown it. It costs the same too, where each call was billed once.
ReplayRepeatsRecording ==
  \A f \in ToSet(Fixtures) :
    suite.mode = "replay" /\ results[f].error = "" =>
      /\ results[f].metrics = taken[f].metrics
      /\ disk[f].source = "anthropic" /\ taken[f].once => results[f].meter.cost = taken[f].cost

\* A replay that passes is the recorded run again: both of the above.
ReplayHonest == TypeOK /\ NoStaleAnswers /\ ReplayRepeatsRecording

\* A recording is always that of a whole run, whatever ended the suites that wrote it
\* ("a failure here must not write a recording", harness.py:149).
WholeRecordings ==
  \A f \in ToSet(Fixtures) :
    disk[f] # NoRecording =>
      /\ disk[f].calls # <<>> /\ Last(disk[f].calls).agent = "reviewer"
      /\ \A c \in ToSet(Front(disk[f].calls)) : c.agent # "reviewer"

\* A report names a source only when every answer in it came from there (recording.py: "they are
\* not Claude output"), also after fixtures were recorded again from another source.
SourceSaid ==
  suite.mode = "replay" /\ suite.source \in Sources =>
    \A f \in suite.all : disk[f].source = suite.source

\* The gate passes only if every run finished: one that did not cannot raise the mean by not being
\* measured. (For thresholds that ask for all of the review's score, as those checked in do.)
GateHonest ==
  verdict = "passed" => \A f \in ToSet(Fixtures) : results[f] # NoResult => results[f].error = ""

\* What a suite leaves behind says no more than what was run: the three above.
ReportsHonest == WholeRecordings /\ SourceSaid /\ GateHonest

\* A live run's meter never says more than the API billed. It agrees with all of the bill unless a
\* message was refused, cut off or invalid, which ends the run: every token, declined attempts of a
\* fallback included; the price to half a micro-dollar per attempt; and a price that leaves a model
\* out is said to be incomplete.
MeterAgrees ==
  suite.mode = "live" =>
    /\ run.meter.tokens <= bill.tokens
    /\ run.meter.unpriced > 0 => bill.unknown
    /\ 2 * (Unit * run.meter.cost - bill.exact) <= Unit * bill.attempts
    /\ run.error \notin {"refused", "output"} =>
         /\ run.meter.tokens = bill.tokens
         /\ (run.meter.unpriced > 0) = bill.unknown
         /\ 2 * (bill.exact - Unit * run.meter.cost) <= Unit * bill.attempts

\* Refuted by TLC (README, section 6): what docs/adr/0002-token-budgets-and-cost.md:50 says of a
\* metered provider, that every call is priced per billed attempt, so that its meter misses no token.
EveryCallMetered == suite.mode = "live" => run.meter.tokens = bill.tokens

Initially == suite = NoSuite /\ bounds.suites = 0 /\ bounds.changes = 0

\* An error is tried again, or not, whether the API sends it at once or in the middle of a stream
\* (anthropic_provider.py:201).
ErrorsClassedAlike ==
  Initially => \A t \in ErrorTypes :
    Retryable(ErrorOf([status |-> StatusOf(t), type |-> t]))
      = Retryable(ErrorOf([status |-> 200, type |-> t]))

\* What a call cost, and whether it is worth trying again: both of the above.
CallsAccounted == MeterAgrees /\ ErrorsClassedAlike

\* What RelationsRight says, of every list of entities in the bounds.
RelationsUsable == Initially => \A e \in EntityLists : RelationsRight(e)

\* What RoutesRight says, of every project in the bounds.
RoutesRead == Initially => \A p \in Projects : RoutesRight(p)

\* Refuted by TLC (README, section 6): what evals/routes.py:1 and 87 say, that the routes a project
\* serves are read from its code, whichever way it is written.
EveryRouteRead == Initially => \A p \in Projects : ReadAsServed(p)

\* What NounsRight and EntitiesRight say, of every specification in the bounds that is read to its
\* end: one with a field without a word raises instead.
EntitiesRead ==
  Initially =>
    /\ \A t \in Texts : NounsRight(t) /\ \A h \in Hints :
         RaisesIndexError(<<>>, t, h) \/ EntitiesRight(ExtractEntities(<<>>, t, h))
    /\ \A d \in DeclarationLists :
         RaisesIndexError(d, <<>>, <<>>) \/ EntitiesRight(ExtractEntities(d, <<>>, <<>>))

\* What is read out of a specification and out of a project can be built on: the tables have an
\* order, the routes a readable project serves are the ones reported, the entities are whole.
ReadingsUsable == RelationsUsable /\ RoutesRead /\ EntitiesRead
=============================================================================
