---------------------------- MODULE ReviewLoop ----------------------------
(***************************************************************************)
(* The files of one pipeline run: the agents that write them, the platform *)
(* that decides which of them it keeps, and the reviewer's two bounded     *)
(* loops of repairs, first after validation, then after running the tests. *)
(* What a model answers and how a test run ends is arbitrary.              *)
(***************************************************************************)
EXTENDS Validation, SandboxVerdict, FiniteSets

CONSTANTS
  Generated,        \* the files a model may generate
  Documents,        \* what the platform may render for ARCHITECTURE.md
  BundleLength,     \* bound: files in an answer
  Limits,           \* per bundle: files, bytes of a file, bytes in all
  RepairRounds,     \* settings.max_repair_rounds
  TestRepairRounds, \* settings.sandbox_max_repair_rounds
  MaxSent,          \* MAX_TEST_REPAIR_FILES
  Samples           \* bound: files the pure checks build bundles of

Paths  == {f.path : f \in Generated \cup Documents}
Owners == {"architect", "implement", "devops"}

ASSUME ReviewAssumption ==
  /\ \A f, g \in Generated \cup Documents :
       /\ f.path = g.path => f.key = g.key
       /\ f.key = g.key => f.owner = g.owner
  /\ \A f \in Generated \cup Documents :
       f.owner \in Owners /\ f.safe \in BOOLEAN /\ f.size \in Nat
  /\ \A f \in Documents : f.owner = "architect"
  /\ \A f \in Samples : f.safe \in BOOLEAN /\ f.size \in Nat
  /\ Limits \in [files : Nat, file : Nat, total : Nat]
  /\ RepairRounds \in Nat
  /\ TestRepairRounds \in Nat

VARIABLES
  pc,         \* the agent at work, and where in the review it is
  files,      \* PipelineState.files
  origin,     \* PipelineState.file_origin
  rejected,   \* PipelineState.rejected
  report,     \* PipelineState.validation: its errors
  round,      \* validation repairs asked for
  sent,       \* the files of the test repair that is asked for
  runs,       \* len(PipelineState.test_runs)
  tested,     \* the last of them: its status, and the files it ran on
  exhausted   \* PipelineState.test_repair_exhausted

vars == <<pc, files, origin, rejected, report, round, sent, runs, tested, exhausted>>

Ran(f) == {f[x] : x \in DOMAIN f}
Kept      == Ran(files)
Bundles   == SeqOf(Generated, BundleLength)
Failing   == {i.file : i \in report} \cap DOMAIN files

-----------------------------------------------------------------------------
(* PipelineState.merge                                                     *)

PlatformOwned(f) == f.owner = "architect"
IsDevops(f)      == f.owner = "devops"

MergeAll(bundle, stage, keeps) ==
  LET clean == Sanitize(bundle, Limits)
      taken == {f \in ToSet(clean.kept) : f \in keeps} IN
  [files  |-> [p \in DOMAIN files \cup {f.path : f \in taken} |->
                 IF \E f \in taken : f.path = p THEN CHOOSE f \in taken : f.path = p
                 ELSE files[p]],
   origin |-> [p \in DOMAIN files \cup {f.path : f \in taken} |->
                 IF \E f \in taken : f.path = p THEN stage ELSE origin[p]],
   issues |-> clean.issues, accepted |-> {f.path : f \in taken}]

\* Only the architect writes what the platform owns; keeps is the stage's own rule.
Merge(bundle, stage, keeps) ==
  MergeAll(bundle, stage, {f \in keeps : PlatformOwned(f) => stage = "architect"})

Merged(m) ==
  /\ files' = m.files
  /\ origin' = m.origin
  /\ rejected' = rejected \cup m.issues

-----------------------------------------------------------------------------
(* The agents before the reviewer                                          *)

Architect ==
  /\ pc = "architect"
  /\ \E f \in Documents : Merged(Merge(<<f>>, "architect", Documents))
  /\ pc' = "implement"
  /\ UNCHANGED <<report, round, sent, runs, tested, exhausted>>

CodeGenerator ==
  /\ pc = "implement"
  /\ \E b \in Bundles : Merged(Merge(b, "implement", {f \in Generated : ~IsDevops(f)}))
  /\ pc' = "devops"
  /\ UNCHANGED <<report, round, sent, runs, tested, exhausted>>

DevOpsEngineer ==
  /\ pc = "devops"
  /\ \E b \in Bundles : Merged(Merge(b, "devops", {f \in Generated : IsDevops(f)}))
  /\ pc' = "validate"
  /\ UNCHANGED <<report, round, sent, runs, tested, exhausted>>

-----------------------------------------------------------------------------
(* Reviewer.run: validation and its repairs                                *)

\* PipelineState.validate, and where the review goes when it has not raised.
Validates(next) ==
  IF Raises(Kept) THEN pc' = "failed" /\ UNCHANGED report
  ELSE report' = rejected \cup ProjectErrors(Kept) /\ pc' = next

Validate ==
  /\ pc = "validate"
  /\ Validates("decide")
  /\ UNCHANGED <<files, origin, rejected, round, sent, runs, tested, exhausted>>

\* With a sandbox the tests run next, without one the project is reviewed.
Decide ==
  /\ pc = "decide"
  /\ IF Failing # {} /\ round < RepairRounds
       THEN pc' = "repair" /\ round' = round + 1
       ELSE pc' \in {"test", "review"} /\ UNCHANGED round
  /\ UNCHANGED <<files, origin, rejected, report, sent, runs, tested, exhausted>>

\* The changed files are merged one after the other, each as its stage's own.
RepairInto(m, f) ==
  LET clean == Sanitize(<<f>>, Limits)
      takes == clean.kept # <<>> /\ (PlatformOwned(f) => origin[f.path] = "architect") IN
  [m EXCEPT !.files = IF takes THEN [@ EXCEPT ![f.path] = f] ELSE @,
            !.issues = @ \cup clean.issues]

MergedInTurn(changed) ==
  LET after[n \in 0..Len(changed)] ==
        IF n = 0 THEN [files |-> files, issues |-> {}] ELSE RepairInto(after[n - 1], changed[n])
  IN  after[Len(changed)]

\* What else is in an answer is dropped before it is merged.
ChangedByRepair(f) == f.path \in Failing /\ files[f.path] # f

Repair ==
  /\ pc = "repair"
  /\ \E changed \in Bundles :
       /\ \A i \in DOMAIN changed : ChangedByRepair(changed[i])
       /\ IF changed = <<>>
            THEN pc' \in {"test", "review"} /\ UNCHANGED <<files, rejected>>
            ELSE LET m == MergedInTurn(changed) IN
                 files' = m.files /\ rejected' = rejected \cup m.issues /\ pc' = "validate"
  /\ UNCHANGED <<origin, report, round, sent, runs, tested, exhausted>>

-----------------------------------------------------------------------------
(* Reviewer._test_and_repair                                               *)

\* The files of the failing tests and those that tracebacks name come first.
Sources == {p \in DOMAIN files : files[p].owner = "implement"}
SentSets == {s \in SUBSET Sources :
               Cardinality(s) = IF Cardinality(Sources) < MaxSent THEN Cardinality(Sources)
                                ELSE MaxSent}

\* Called before the run is counted.
Exhausted(status) ==
  status \in Repairable /\ runs = TestRepairRounds /\ TestRepairRounds > 0

RoundsLeft     == runs < TestRepairRounds

Test ==
  /\ pc = "test"
  /\ runs' = runs + 1
  /\ \E status \in Statuses :
       /\ tested' = [status |-> status, files |-> files]
       /\ exhausted' = Exhausted(status)
       /\ IF status \in Repairable /\ RoundsLeft
            THEN pc' = "mend" /\ sent' \in SentSets
            ELSE pc' = "review" /\ UNCHANGED sent
  /\ UNCHANGED <<files, origin, rejected, report, round>>

ChangedByMend(f) == f.path \in DOMAIN files => files[f.path] # f

AllowedAny(changed) == {f \in ToSet(changed) : ~IsDevops(f)}

\* A test repair may change the files it was sent and add new ones.
Allowed(changed) ==
  {f \in ToSet(changed) : (f.path \in sent \/ f.path \notin DOMAIN files) /\ ~IsDevops(f)}

MendedAtOnce(m) ==
  /\ Merged(m)
  /\ pc' = "review"
  /\ UNCHANGED report

\* An accepted repair is validated, and the tests run again.
Mended(m) ==
  /\ Merged(m)
  /\ IF m.accepted = {} THEN pc' = "review" /\ UNCHANGED report
     ELSE IF Raises(Ran(m.files)) THEN pc' = "failed" /\ UNCHANGED report
     ELSE /\ report' = rejected' \cup ProjectErrors(Ran(m.files))
          /\ pc' = "test"

Mend ==
  /\ pc = "mend"
  /\ \E changed \in Bundles :
       /\ \A i \in DOMAIN changed : ChangedByMend(changed[i])
       /\ Mended(Merge(changed, "implement", Allowed(changed)))
  /\ UNCHANGED <<round, sent, runs, tested, exhausted>>

-----------------------------------------------------------------------------
\* The qualitative review: whatever it says, the run ends.
Review ==
  /\ pc = "review"
  /\ pc' = "done"
  /\ UNCHANGED <<files, origin, rejected, report, round, sent, runs, tested, exhausted>>

\* Any call of a model may fail for good.
ModelFails ==
  /\ pc \in {"architect", "implement", "devops", "repair", "mend", "review"}
  /\ pc' = "failed"
  /\ UNCHANGED <<files, origin, rejected, report, round, sent, runs, tested, exhausted>>

Init ==
  /\ pc = "architect"
  /\ files = <<>>
  /\ origin = <<>>
  /\ rejected = {}
  /\ report = {}
  /\ round = 0
  /\ sent = {}
  /\ runs = 0
  /\ tested = [status |-> "none", files |-> <<>>]
  /\ exhausted = FALSE

Next ==
  \/ Architect \/ CodeGenerator \/ DevOpsEngineer
  \/ Validate \/ Decide \/ Repair \/ Test \/ Mend \/ Review \/ ModelFails

Spec == Init /\ [][Next]_vars

\* Every call of a model and every run of the sandbox has a timeout.
FairSpec == Spec /\ WF_vars(Next)

-----------------------------------------------------------------------------
(* Properties                                                              *)

\* The type of every variable; the loops stay within their rounds.
TypeOK ==
  /\ pc \in {"architect", "implement", "devops", "validate", "decide", "repair", "test",
             "mend", "review", "done", "failed"}
  /\ DOMAIN files \subseteq Paths
  /\ \A p \in DOMAIN files : files[p] \in Generated \cup Documents /\ files[p].path = p
  /\ origin \in [DOMAIN files -> Owners]
  /\ \A i \in rejected \cup report : i.file \in Paths \cup {NoFile}
  /\ round \in 0..RepairRounds
  /\ sent \subseteq DOMAIN files
  /\ runs \in 0..(TestRepairRounds + 1)
  /\ tested.status \in Statuses \cup {"none"}
  /\ exhausted \in BOOLEAN

\* Ownership of a path, whatever its letter case: through every stage and repair
\* the platform's documents, the delivery files and the sources keep their stage.
OwnersKeepTheirFiles == \A p \in DOMAIN files : origin[p] = files[p].owner

\* test_report: the final run is a run of the files that are delivered.
DeliveryTested == pc \in {"review", "done"} /\ runs > 0 => tested.files = files

\* The report the reviewer reads tells all that is wrong with the files that are
\* delivered, and beyond that only what was refused on the way.
ReportIsCurrent ==
  pc \in {"review", "done"} =>
    /\ ProjectErrors(Kept) \subseteq report
    /\ report \subseteq ProjectErrors(Kept) \cup rejected

\* test_repair_exhausted: every round was used, and the tests still fail.
ExhaustedMeansBounded ==
  pc \in {"review", "done"} =>
    (exhausted <=> /\ runs = TestRepairRounds + 1 /\ TestRepairRounds > 0
                   /\ tested.status \in Repairable)

\* What is delivered is what was tested and reviewed, as the reports say: all of the above.
DeliveredAsReported ==
  TypeOK /\ OwnersKeepTheirFiles /\ DeliveryTested /\ ReportIsCurrent /\ ExhaustedMeansBounded

\* A repair of validation changes only files with errors; a repair of tests only
\* files it was sent, and what it adds is neither delivery nor the platform's.
RepairsStayInBounds ==
  [][/\ pc = "repair" => /\ DOMAIN files' = DOMAIN files
                         /\ \A p \in DOMAIN files : files'[p] # files[p] => p \in Failing
     /\ pc = "mend" => /\ \A p \in DOMAIN files : files'[p] # files[p] => p \in sent
                       /\ \A p \in DOMAIN files' \ DOMAIN files :
                            files'[p].owner = "implement"]_vars

\* Whatever models answer and tests do, a run ends.
EveryReviewEnds == <>(pc \in {"done", "failed"})

\* Repairs are bounded in what they touch and in how often they come: both of the above.
RunsAreBounded == RepairsStayInBounds /\ EveryReviewEnds

\* normalize_path: a path that is kept stays inside the project, outside .git and
\* off reserved devices on Linux, macOS and Windows. About paths alone.
PathsAreSafe ==
  pc = "architect" =>
    \A path \in SeqOf(Segments, 2) : Normalizes(path) =>
      \A i \in DOMAIN path, system \in Systems : ~Escapes(system, Stripped(path)[i])

\* sanitize_files: what is kept of a bundle is within the limits, one file per key;
\* and when the files that come last fit at every moment, they are kept and
\* nothing is refused. About bundles alone.
SanitizeSound ==
  pc = "architect" =>
    \A b \in SeqOf(Samples, 4) :
      LET r == Sanitize(b, Limits) IN
      /\ Fits(ToSet(r.kept), Limits) /\ Cardinality(Keys(ToSet(r.kept))) = Len(r.kept)
      /\ (\A n \in DOMAIN b : Fits(LastOfEach(SubSeq(b, 1, n)), Limits)) =>
           r.issues = {} /\ ToSet(r.kept) = LastOfEach(b)

\* What is kept of an answer is safe to write down: both of the above.
BundlesAreSafe == PathsAreSafe /\ SanitizeSound
=============================================================================
