---------------------- MODULE ReviewAndSandbox_proofs ----------------------
(***************************************************************************)
(* Theorems about what a pipeline run delivers and about the sandbox that  *)
(* tests it. ReviewLoop: who owns the files of a run, what repairs may     *)
(* change, and that what is delivered is what the reports are about, for   *)
(* any files, documents, limits and rounds of repairs, and answers of any  *)
(* length. Sandbox: the books of the runner, for any number of clients,    *)
(* handlers, slots and places in the queue, and any number of faults,      *)
(* shutdowns and crashes; and what a run is reported as, for any number of *)
(* test reports.                                                           *)
(***************************************************************************)
EXTENDS ReviewLoop, Sandbox, FiniteSetTheorems, WellFoundedInduction, TLAPS

-----------------------------------------------------------------------------
(* Induction on the length of an answer                                    *)

Below == {p \in Nat \X Nat : p[1] < p[2]}

LEMMA NoDescent == IsWellFoundedOn(Below, Nat)
<1>1. Below = OpToRel(<, Nat)
  BY Zenon DEF Below, OpToRel
<1>2. IsWellFoundedOn(OpToRel(<, Nat), Nat)
  BY NatLessThanWellFounded, Zenon
<1> QED
  BY <1>1, <1>2, Zenon

\* A set of numbers with 0 and every successor has them all.
LEMMA AllNumbers ==
  ASSUME NEW S, 0 \in S, \A n \in Nat : n \in S => n + 1 \in S
  PROVE  \A n \in Nat : n \in S
<1> DEFINE T == {n \in Nat : n \notin S}
<1> SUFFICES ASSUME T # {} PROVE FALSE
  OBVIOUS
<1>1. PICK x \in T : \A y \in T : ~ (<<y, x>> \in Below)
  BY NoDescent, WFMin, Zenon
<1>2. x \in Nat /\ x # 0
  OBVIOUS
<1>3. x - 1 \in Nat /\ <<x - 1, x>> \in Below
  BY <1>2 DEF Below
<1>4. x - 1 \in S
  BY <1>1, <1>3
<1> QED
  BY <1>2, <1>3, <1>4

-----------------------------------------------------------------------------
(* What sanitize_files keeps and refuses                                   *)

Files == Generated \cup Documents

Unread == [kept |-> <<>>, issues |-> {}, total |-> 0, stopped |-> FALSE]
SanitizesTo(after, bundle, limits, n) ==
  after = [k \in 0..n |-> IF k = 0 THEN Unread ELSE SanitizeFile(after[k - 1], bundle[k], limits)]

LEMMA SanitizingGoesOn ==
  ASSUME NEW bundle, NEW limits, NEW n \in Nat
  PROVE  \E after : SanitizesTo(after, bundle, limits, n)
<1> DEFINE S == {k \in Nat : \E after : SanitizesTo(after, bundle, limits, k)}
<1>1. 0 \in S
  <2>1. SanitizesTo([k \in 0..0 |-> Unread], bundle, limits, 0)
    BY DEF SanitizesTo
  <2> QED
    BY <2>1
<1>2. ASSUME NEW k \in Nat, k \in S
      PROVE  k + 1 \in S
  <2>1. PICK after : SanitizesTo(after, bundle, limits, k)
    BY <1>2
  <2> DEFINE more == [j \in 0..k + 1 |-> IF j <= k THEN after[j]
                                         ELSE SanitizeFile(after[k], bundle[k + 1], limits)]
  <2>2. ASSUME NEW j \in 0..k + 1
        PROVE  more[j] = IF j = 0 THEN Unread ELSE SanitizeFile(more[j - 1], bundle[j], limits)
    <3>1. CASE j = 0
      BY <2>1, <3>1 DEF SanitizesTo
    <3>2. CASE j # 0 /\ j <= k
      <4>1. j \in 0..k /\ j - 1 \in 0..k + 1 /\ j - 1 <= k
        BY <3>2
      <4>2. after[j] = SanitizeFile(after[j - 1], bundle[j], limits)
        BY <2>1, <3>2, <4>1 DEF SanitizesTo
      <4> QED
        BY <3>2, <4>1, <4>2
    <3>3. CASE j = k + 1
      <4>1. j # 0 /\ j - 1 = k /\ ~ (j <= k) /\ k \in 0..k + 1
        BY <3>3
      <4> QED
        BY <3>3, <4>1
    <3> QED
      BY <3>1, <3>2, <3>3
  <2>3. SanitizesTo(more, bundle, limits, k + 1)
    BY <2>2 DEF SanitizesTo
  <2> QED
    BY <2>3
<1>3. n \in S
  BY <1>1, <1>2, AllNumbers
<1> QED
  BY <1>3

\* Sanitize goes through the bundle file by file.
LEMMA SanitizeIs ==
  ASSUME NEW bundle, NEW limits, Len(bundle) \in Nat
  PROVE  \E after : /\ after[0] = Unread
                    /\ \A k \in 1..Len(bundle) :
                         after[k] = SanitizeFile(after[k - 1], bundle[k], limits)
                    /\ Sanitize(bundle, limits) = after[Len(bundle)]
<1> DEFINE a == CHOOSE after : SanitizesTo(after, bundle, limits, Len(bundle))
<1>1. SanitizesTo(a, bundle, limits, Len(bundle))
  BY SanitizingGoesOn
<1>2. Sanitize(bundle, limits) = a[Len(bundle)]
  BY DEF Sanitize, SanitizesTo, Unread
<1> HIDE DEF a
<1>3. /\ a[0] = Unread
      /\ \A k \in 1..Len(bundle) : a[k] = SanitizeFile(a[k - 1], bundle[k], limits)
  BY <1>1 DEF SanitizesTo
<1> QED
  BY <1>2, <1>3


\* A state of the sanitizer over some of the files.
Clean(s) ==
  /\ DOMAIN s = {"kept", "issues", "total", "stopped"}
  /\ s.kept \in Seq(Files)
  /\ \A i \in s.issues : i.file \in Paths \cup {NoFile}
  /\ s.stopped \in BOOLEAN

LEMMA PlacedKeepsFiles ==
  ASSUME NEW kept \in Seq(Files), NEW f \in Files
  PROVE  Placed(kept, f) \in Seq(Files)
<1>1. CASE f.key \in Keys(ToSet(kept))
  <2>1. [i \in DOMAIN kept |-> IF kept[i].key = f.key THEN f ELSE kept[i]] \in Seq(Files)
    OBVIOUS
  <2> QED
    BY <1>1, <2>1 DEF Placed
<1>2. CASE f.key \notin Keys(ToSet(kept))
  BY <1>2 DEF Placed
<1> QED
  BY <1>1, <1>2

LEMMA RefusedIs ==
  ASSUME NEW s, Clean(s), NEW rule, NEW file \in Paths \cup {NoFile}
  PROVE  /\ Clean(Refused(s, Issue(rule, file)))
         /\ Clean(Truncated(s, Issue(rule, file)))
<1> DEFINE r == Refused(s, Issue(rule, file))
           t == Truncated(s, Issue(rule, file))
<1>1. /\ DOMAIN r = DOMAIN s /\ r.kept = s.kept /\ r.stopped = s.stopped
      /\ r.issues = s.issues \cup {Issue(rule, file)}
  BY DEF Refused, Clean
<1>2. /\ DOMAIN t = DOMAIN r /\ t.kept = r.kept /\ t.stopped = TRUE /\ t.issues = r.issues
  BY <1>1 DEF Truncated, Clean
<1>3. \A i \in s.issues \cup {Issue(rule, file)} : i.file \in Paths \cup {NoFile}
  BY DEF Clean, Issue
<1> HIDE DEF r, t
<1> QED
  BY <1>1, <1>2, <1>3 DEF Clean, r, t

LEMMA SanitizeFileKeepsClean ==
  ASSUME NEW s, Clean(s), NEW f \in Files, NEW limits \in [files : Nat, file : Nat, total : Nat]
  PROVE  Clean(SanitizeFile(s, f, limits))
<1>0. /\ s.stopped \in BOOLEAN /\ f.safe \in BOOLEAN /\ f.size \in Nat
      /\ limits.file \in Nat
  BY ReviewAssumption DEF Clean, Files
<1>1. f.path \in Paths \cup {NoFile} /\ NoFile \in Paths \cup {NoFile}
  BY DEF Paths, Files
<1>2. \A rule : /\ Clean(Refused(s, Issue(rule, f.path))) /\ Clean(Refused(s, Issue(rule, NoFile)))
                /\ Clean(Truncated(s, Issue(rule, f.path)))
                /\ Clean(Truncated(s, Issue(rule, NoFile)))
  BY <1>1, RefusedIs
<1> DEFINE room == Without(s, f) + f.size
           more == [s EXCEPT !.kept = Placed(@, f), !.total = room]
<1>3. Clean(more)
  <2> HIDE DEF room
  <2>1. /\ DOMAIN more = DOMAIN s /\ more.kept = Placed(s.kept, f) /\ more.issues = s.issues
        /\ more.stopped = s.stopped
    BY DEF Clean
  <2>2. Placed(s.kept, f) \in Seq(Files)
    BY PlacedKeepsFiles DEF Clean
  <2> QED
    BY <2>1, <2>2 DEF Clean
<1> HIDE DEF more
<1>4. CASE s.stopped
  BY <1>4 DEF SanitizeFile
<1>5. CASE ~ s.stopped /\ ~ f.safe
  BY <1>2, <1>5 DEF SanitizeFile
<1>6. CASE ~ s.stopped /\ f.safe /\ f.size > limits.file
  <2>1. ~ (f.size <= limits.file)
    BY <1>0, <1>6
  <2>2. SanitizeFile(s, f, limits) = Refused(s, Issue("file-size", f.path))
    BY <1>6, <2>1 DEF SanitizeFile
  <2> QED
    BY <1>2, <2>2
<1>7. CASE ~ s.stopped /\ f.safe /\ f.size <= limits.file
  BY <1>2, <1>3, <1>7 DEF SanitizeFile, more
<1> QED
  BY <1>0, <1>4, <1>5, <1>6, <1>7

LEMMA SanitizeKeepsFiles ==
  ASSUME NEW bundle \in Seq(Files), NEW limits \in [files : Nat, file : Nat, total : Nat]
  PROVE  /\ ToSet(Sanitize(bundle, limits).kept) \subseteq Files
         /\ \A i \in Sanitize(bundle, limits).issues : i.file \in Paths \cup {NoFile}
<1>1. Len(bundle) \in Nat /\ \A k \in 1..Len(bundle) : bundle[k] \in Files
  OBVIOUS
<1>2. PICK after : /\ after[0] = Unread
                   /\ \A k \in 1..Len(bundle) :
                        after[k] = SanitizeFile(after[k - 1], bundle[k], limits)
                   /\ Sanitize(bundle, limits) = after[Len(bundle)]
  BY <1>1, SanitizeIs
<1> DEFINE S == {k \in Nat : k <= Len(bundle) => Clean(after[k])}
<1>3. 0 \in S
  <2>1. Clean(Unread)
    BY DEF Clean, Unread
  <2> QED
    BY <1>2, <2>1
<1>4. ASSUME NEW k \in Nat, k \in S
      PROVE  k + 1 \in S
  <2>1. CASE k + 1 <= Len(bundle)
    <3>1. k + 1 \in 1..Len(bundle) /\ k <= Len(bundle) /\ (k + 1) - 1 = k
      BY <1>1, <2>1
    <3>2. Clean(after[k])
      BY <1>4, <3>1
    <3>3. after[k + 1] = SanitizeFile(after[k], bundle[k + 1], limits)
      BY <1>2, <3>1
    <3>4. Clean(after[k + 1])
      BY <1>1, <3>1, <3>2, <3>3, SanitizeFileKeepsClean
    <3> QED
      BY <3>4
  <2>2. CASE ~ (k + 1 <= Len(bundle))
    BY <2>2
  <2> QED
    BY <2>1, <2>2
<1>5. Len(bundle) \in S
  <2> HIDE DEF S
  <2> QED
    BY <1>1, <1>3, <1>4, AllNumbers
<1>6. Clean(Sanitize(bundle, limits))
  BY <1>1, <1>2, <1>5
<1>7. \A s \in Seq(Files) : ToSet(s) \subseteq Files
  BY DEF ToSet
<1> QED
  BY <1>6, <1>7 DEF Clean


-----------------------------------------------------------------------------
(* What a merge leaves                                                     *)

\* The files kept and the stages they came from.
KeptFiles(fs) ==
  /\ DOMAIN fs \subseteq Paths
  /\ fs \in [DOMAIN fs -> Files]
  /\ \A p \in DOMAIN fs : fs[p].path = p
Owned(fs, from) ==
  /\ from \in [DOMAIN fs -> Owners]
  /\ \A p \in DOMAIN fs : from[p] = fs[p].owner

Refusals(issues) == \A i \in issues : i.file \in Paths \cup {NoFile}

\* Files of the same path have the same owner.
LEMMA PathsHaveOwners ==
  ASSUME NEW f \in Files, NEW g \in Files, f.path = g.path
  PROVE  f.owner = g.owner /\ f.path \in Paths /\ f.owner \in Owners
  BY ReviewAssumption DEF Files, Paths

LEMMA MergeIs ==
  ASSUME KeptFiles(files), Owned(files, origin),
         NEW bundle \in Seq(Files), NEW stage \in Owners, NEW keeps \in SUBSET Files,
         \A f \in keeps : (PlatformOwned(f) => stage = "architect") => f.owner = stage,
         NEW m, m = Merge(bundle, stage, keeps)
  PROVE  /\ KeptFiles(m.files) /\ Owned(m.files, m.origin) /\ Refusals(m.issues)
         /\ m.accepted = {} => m.files = files /\ m.origin = origin
         /\ DOMAIN m.files = DOMAIN files \cup m.accepted
         /\ \A p \in DOMAIN m.files :
              \/ p \in DOMAIN files /\ p \notin m.accepted /\ m.files[p] = files[p]
              \/ p \in m.accepted /\ m.files[p] \in keeps /\ m.files[p].owner = stage
<1> DEFINE rule  == {f \in keeps : PlatformOwned(f) => stage = "architect"}
           clean == Sanitize(bundle, Limits)
           taken == {f \in ToSet(clean.kept) : f \in rule}
           names == {f.path : f \in taken}
           all   == DOMAIN files \cup names
           chosen(p) == CHOOSE f \in taken : f.path = p
<1>1. /\ m.accepted = names /\ m.issues = clean.issues
      /\ m.files = [p \in all |-> IF \E f \in taken : f.path = p THEN chosen(p) ELSE files[p]]
      /\ m.origin = [p \in all |-> IF \E f \in taken : f.path = p THEN stage ELSE origin[p]]
  BY DEF Merge, MergeAll
<1>2. Refusals(clean.issues)
  BY SanitizeKeepsFiles, ReviewAssumption DEF Refusals
<1>3. \A f \in taken : f \in keeps /\ f \in Files /\ f.owner = stage /\ f.path \in Paths
  BY DEF Paths, Files
<1> HIDE DEF taken, clean
<1>4. \A p : (\E f \in taken : f.path = p) <=> p \in names
  OBVIOUS
<1>5. \A p \in names : chosen(p) \in taken /\ chosen(p).path = p
  BY <1>4
<1> HIDE DEF names, chosen
<1>6. /\ DOMAIN m.files = all /\ DOMAIN m.origin = all
      /\ \A p \in names : m.files[p] = chosen(p) /\ m.origin[p] = stage
      /\ \A p \in all \ names : m.files[p] = files[p] /\ m.origin[p] = origin[p]
  BY <1>1, <1>4
<1>7. m.files \in [all -> Files] /\ m.origin \in [all -> Owners]
  <2>1. \A p \in all : m.files[p] \in Files /\ m.origin[p] \in Owners
    BY <1>3, <1>5, <1>6 DEF KeptFiles, Owned
  <2> QED
    BY <1>1, <1>6, <2>1
<1>8. all \subseteq Paths
  BY <1>3, <1>5 DEF KeptFiles
<1>9. \A p \in all : m.files[p].path = p /\ m.origin[p] = m.files[p].owner
  BY <1>3, <1>5, <1>6 DEF KeptFiles, Owned
<1>10. m.accepted = {} => m.files = files /\ m.origin = origin
  BY <1>1, <1>6, <1>7 DEF KeptFiles, Owned
<1>11. ASSUME NEW p \in DOMAIN m.files
       PROVE  \/ p \in DOMAIN files /\ p \notin m.accepted /\ m.files[p] = files[p]
              \/ p \in m.accepted /\ m.files[p] \in keeps /\ m.files[p].owner = stage
  <2>0. m.accepted = names /\ p \in all
    BY <1>1, <1>6
  <2>1. CASE p \in names
    <3>1. m.files[p] = chosen(p) /\ chosen(p) \in taken
      BY <1>5, <1>6, <2>1
    <3> QED
      BY <1>3, <2>0, <2>1, <3>1
  <2>2. CASE p \notin names
    BY <1>6, <2>0, <2>2
  <2> QED
    BY <2>1, <2>2
<1>12. KeptFiles(m.files) /\ Owned(m.files, m.origin)
  BY <1>6, <1>7, <1>8, <1>9 DEF KeptFiles, Owned
<1> QED
  BY <1>1, <1>2, <1>6, <1>10, <1>11, <1>12


-----------------------------------------------------------------------------
(* What a repair of validation leaves                                      *)

Unmended == [files |-> files, issues |-> {}]
MergesTo(after, changed, n) ==
  after = [k \in 0..n |-> IF k = 0 THEN Unmended ELSE RepairInto(after[k - 1], changed[k])]

LEMMA MergingGoesOn ==
  ASSUME NEW changed, NEW n \in Nat
  PROVE  \E after : MergesTo(after, changed, n)
<1> DEFINE S == {k \in Nat : \E after : MergesTo(after, changed, k)}
<1>1. 0 \in S
  <2>1. MergesTo([k \in 0..0 |-> Unmended], changed, 0)
    BY DEF MergesTo
  <2> QED
    BY <2>1
<1>2. ASSUME NEW k \in Nat, k \in S
      PROVE  k + 1 \in S
  <2>1. PICK after : MergesTo(after, changed, k)
    BY <1>2
  <2> DEFINE more == [j \in 0..k + 1 |-> IF j <= k THEN after[j]
                                         ELSE RepairInto(after[k], changed[k + 1])]
  <2>2. ASSUME NEW j \in 0..k + 1
        PROVE  more[j] = IF j = 0 THEN Unmended ELSE RepairInto(more[j - 1], changed[j])
    <3>1. CASE j = 0
      BY <2>1, <3>1 DEF MergesTo
    <3>2. CASE j # 0 /\ j <= k
      <4>1. j \in 0..k /\ j - 1 \in 0..k + 1 /\ j - 1 <= k
        BY <3>2
      <4>2. after[j] = RepairInto(after[j - 1], changed[j])
        BY <2>1, <3>2, <4>1 DEF MergesTo
      <4> QED
        BY <3>2, <4>1, <4>2
    <3>3. CASE j = k + 1
      <4>1. j # 0 /\ j - 1 = k /\ ~ (j <= k) /\ k \in 0..k + 1
        BY <3>3
      <4> QED
        BY <3>3, <4>1
    <3> QED
      BY <3>1, <3>2, <3>3
  <2>3. MergesTo(more, changed, k + 1)
    BY <2>2 DEF MergesTo
  <2> QED
    BY <2>3
<1>3. n \in S
  BY <1>1, <1>2, AllNumbers
<1> QED
  BY <1>3

LEMMA MergedInTurnIs ==
  ASSUME NEW changed, Len(changed) \in Nat
  PROVE  \E after : /\ after[0] = Unmended
                    /\ \A k \in 1..Len(changed) : after[k] = RepairInto(after[k - 1], changed[k])
                    /\ MergedInTurn(changed) = after[Len(changed)]
<1> DEFINE a == CHOOSE after : MergesTo(after, changed, Len(changed))
<1>1. MergesTo(a, changed, Len(changed))
  BY MergingGoesOn
<1>2. MergedInTurn(changed) = a[Len(changed)]
  BY DEF MergedInTurn, MergesTo, Unmended
<1> HIDE DEF a
<1>3. /\ a[0] = Unmended
      /\ \A k \in 1..Len(changed) : a[k] = RepairInto(a[k - 1], changed[k])
  BY <1>1 DEF MergesTo
<1> QED
  BY <1>2, <1>3

\* The files while the repairs are merged: the paths stay, and only files with
\* errors change.
Mending(m) ==
  /\ DOMAIN m = {"files", "issues"}
  /\ DOMAIN m.files = DOMAIN files
  /\ KeptFiles(m.files)
  /\ \A p \in DOMAIN files : m.files[p] = files[p] \/ p \in Failing
  /\ Refusals(m.issues)

LEMMA RepairIntoMends ==
  ASSUME KeptFiles(files), NEW m, Mending(m), NEW f \in Files, f.path \in Failing
  PROVE  Mending(RepairInto(m, f))
<1> DEFINE clean == Sanitize(<<f>>, Limits)
           takes == clean.kept # <<>> /\ (PlatformOwned(f) => origin[f.path] = "architect")
           put   == [m.files EXCEPT ![f.path] = f]
           r     == RepairInto(m, f)
<1>1. Refusals(clean.issues)
  <2>1. <<f>> \in Seq(Files)
    OBVIOUS
  <2> QED
    BY <2>1, SanitizeKeepsFiles, ReviewAssumption DEF Refusals
<1>2. f.path \in DOMAIN files
  BY DEF Failing
<1>3. r = [m EXCEPT !.files = IF takes THEN put ELSE m.files,
                    !.issues = m.issues \cup clean.issues]
  BY DEF RepairInto
<1> HIDE DEF clean
<1>4. /\ DOMAIN put = DOMAIN files /\ put \in [DOMAIN files -> Files]
      /\ put[f.path] = f /\ \A p \in DOMAIN files \ {f.path} : put[p] = m.files[p]
  BY <1>2 DEF Mending, KeptFiles
<1>5. KeptFiles(put) /\ \A p \in DOMAIN files : put[p] = files[p] \/ p \in Failing
  BY <1>4 DEF Mending, KeptFiles
<1> HIDE DEF put, takes, r
<1>6. /\ DOMAIN r = DOMAIN m /\ r.files = (IF takes THEN put ELSE m.files)
      /\ r.issues = m.issues \cup clean.issues
  BY <1>3 DEF Mending
<1>7. Refusals(r.issues)
  BY <1>1, <1>6 DEF Mending, Refusals
<1> QED
  BY <1>4, <1>5, <1>6, <1>7 DEF Mending, r

LEMMA MergedInTurnMends ==
  ASSUME KeptFiles(files), NEW changed \in Seq(Files),
         \A i \in DOMAIN changed : ChangedByRepair(changed[i])
  PROVE  Mending(MergedInTurn(changed))
<1>1. /\ Len(changed) \in Nat
      /\ \A k \in 1..Len(changed) : changed[k] \in Files /\ changed[k].path \in Failing
  BY DEF ChangedByRepair
<1>2. PICK after : /\ after[0] = Unmended
                   /\ \A k \in 1..Len(changed) : after[k] = RepairInto(after[k - 1], changed[k])
                   /\ MergedInTurn(changed) = after[Len(changed)]
  BY <1>1, MergedInTurnIs
<1> DEFINE S == {k \in Nat : k <= Len(changed) => Mending(after[k])}
<1>3. 0 \in S
  <2>1. Mending(Unmended)
    BY DEF Mending, Refusals, Unmended
  <2> QED
    BY <1>2, <2>1
<1>4. ASSUME NEW k \in Nat, k \in S
      PROVE  k + 1 \in S
  <2>1. CASE k + 1 <= Len(changed)
    <3>1. k + 1 \in 1..Len(changed) /\ k <= Len(changed) /\ (k + 1) - 1 = k
      BY <1>1, <2>1
    <3>2. Mending(after[k])
      BY <1>4, <3>1
    <3>3. after[k + 1] = RepairInto(after[k], changed[k + 1])
      BY <1>2, <3>1
    <3>4. Mending(after[k + 1])
      BY <1>1, <3>1, <3>2, <3>3, RepairIntoMends
    <3> QED
      BY <3>4
  <2>2. CASE ~ (k + 1 <= Len(changed))
    BY <2>2
  <2> QED
    BY <2>1, <2>2
<1>5. Len(changed) \in S
  <2> HIDE DEF S
  <2> QED
    BY <1>1, <1>3, <1>4, AllNumbers
<1> QED
  BY <1>1, <1>2, <1>5


-----------------------------------------------------------------------------
(* ReviewLoop: the invariant of a run                                      *)

\* The tests have not run before the reviewer runs them; while a repair of tests is
\* asked for, rounds are left, and the files are those that were tested.
RoundsCounted ==
  /\ pc \in {"architect", "implement", "devops", "validate", "decide", "repair"} =>
       runs = 0 /\ ~ exhausted
  /\ pc = "test" => runs <= TestRepairRounds /\ ~ exhausted
  /\ pc = "mend" => runs \in 1..TestRepairRounds /\ ~ exhausted /\ tested.files = files

\* From the first validation on the report is about the files as they are.
Reported == {"decide", "repair", "test", "mend", "review", "done"}
Current ==
  pc \in Reported =>
    ProjectErrors(Kept) \subseteq report /\ report \subseteq ProjectErrors(Kept) \cup rejected

ReviewInv ==
  /\ TypeOK /\ KeptFiles(files) /\ Owned(files, origin)
  /\ RoundsCounted /\ Current /\ DeliveryTested /\ ExhaustedMeansBounded

LEMMA ErrorsAreIssues ==
  ASSUME NEW fs, KeptFiles(fs)
  PROVE  Refusals(ProjectErrors(Ran(fs)))
<1>1. \A f \in Ran(fs) : f.path \in Paths
  BY DEF Ran, KeptFiles
<1>2. \A i \in SyntaxErrors(Ran(fs)) \cup RuleErrors(Ran(fs)) \cup SecretErrors(Ran(fs)) :
        i.file \in Paths
  BY <1>1 DEF SyntaxErrors, RuleErrors, SecretErrors, With, Issue
<1>3. \A i \in StructureErrors(Ran(fs)) : i.file = NoFile
  BY DEF StructureErrors, Issue
<1> QED
  BY <1>2, <1>3 DEF ProjectErrors, Refusals

LEMMA BundlesAreSequences ==
  ASSUME NEW b \in Bundles
  PROVE  b \in Seq(Files) /\ ToSet(b) \subseteq Generated
<1>1. PICK n \in 0..BundleLength : b \in [1..n -> Generated]
  BY DEF Bundles, SeqOf
<1>2. n \in Nat /\ \A i \in 1..n : b[i] \in Generated
  BY <1>1
<1>3. b \in Seq(Generated)
  BY <1>1, <1>2
<1>4. b \in Seq(Files)
  BY <1>3 DEF Files
<1>5. ToSet(b) \subseteq Generated
  BY <1>3 DEF ToSet
<1> QED
  BY <1>4, <1>5

LEMMA ImplementOwns ==
  ASSUME NEW keeps, keeps \subseteq Generated, \A f \in keeps : ~ IsDevops(f)
  PROVE  /\ keeps \in SUBSET Files /\ "implement" \in Owners
         /\ \A f \in keeps :
              (PlatformOwned(f) => "implement" = "architect") => f.owner = "implement"
  BY ReviewAssumption DEF Files, Owners, IsDevops, PlatformOwned

\* Before the first validation an agent's bundle is merged, and nothing else changes.
LEMMA AgentsKeep ==
  ASSUME ReviewInv, pc \in {"architect", "implement", "devops"},
         pc' \in {"implement", "devops", "validate"},
         NEW bundle \in Seq(Files), NEW stage \in Owners, NEW keeps \in SUBSET Files,
         \A f \in keeps : (PlatformOwned(f) => stage = "architect") => f.owner = stage,
         Merged(Merge(bundle, stage, keeps)),
         UNCHANGED <<report, round, sent, runs, tested, exhausted>>
  PROVE  ReviewInv'
<1> DEFINE m == Merge(bundle, stage, keeps)
<1>0. KeptFiles(files) /\ Owned(files, origin) /\ TypeOK
  BY DEF ReviewInv
<1>1. /\ KeptFiles(m.files) /\ Owned(m.files, m.origin) /\ Refusals(m.issues)
      /\ DOMAIN m.files = DOMAIN files \cup m.accepted
  BY <1>0, MergeIs
<1>2. files' = m.files /\ origin' = m.origin /\ rejected' = rejected \cup m.issues
  BY DEF Merged
<1> HIDE DEF m
<1>3. KeptFiles(files)' /\ Owned(files, origin)'
  BY <1>1, <1>2 DEF KeptFiles, Owned
<1>4. Refusals(rejected)' /\ Refusals(report)' /\ (sent \subseteq DOMAIN files)'
  BY <1>0, <1>1, <1>2 DEF TypeOK, Refusals
<1>5. TypeOK'
  BY <1>0, <1>3, <1>4 DEF TypeOK, KeptFiles, Owned, Refusals, Files
<1>6. RoundsCounted' /\ Current' /\ DeliveryTested' /\ ExhaustedMeansBounded'
  BY DEF ReviewInv, RoundsCounted, Current, DeliveryTested, ExhaustedMeansBounded, Reported
<1> QED
  BY <1>3, <1>5, <1>6 DEF ReviewInv

LEMMA AgentSteps ==
  ASSUME ReviewInv, Architect \/ CodeGenerator \/ DevOpsEngineer
  PROVE  ReviewInv'
<1>1. CASE Architect
  <2>1. PICK f \in Documents : Merged(Merge(<<f>>, "architect", Documents))
    BY <1>1 DEF Architect
  <2>2. <<f>> \in Seq(Files) /\ Documents \in SUBSET Files /\ "architect" \in Owners
    BY DEF Files, Owners
  <2>3. \A g \in Documents : g.owner = "architect"
    BY ReviewAssumption
  <2> QED
    BY <1>1, <2>1, <2>2, <2>3, AgentsKeep DEF Architect
<1>2. CASE CodeGenerator
  <2> DEFINE keeps == {f \in Generated : ~IsDevops(f)}
  <2>1. PICK b \in Bundles : Merged(Merge(b, "implement", keeps))
    BY <1>2 DEF CodeGenerator
  <2>2. b \in Seq(Files)
    BY BundlesAreSequences
  <2>3. /\ keeps \in SUBSET Files /\ "implement" \in Owners
        /\ \A f \in keeps : (PlatformOwned(f) => "implement" = "architect") => f.owner = "implement"
    BY ImplementOwns
  <2> QED
    BY <1>2, <2>1, <2>2, <2>3, AgentsKeep DEF CodeGenerator
<1>3. CASE DevOpsEngineer
  <2> DEFINE keeps == {f \in Generated : IsDevops(f)}
  <2>1. PICK b \in Bundles : Merged(Merge(b, "devops", keeps))
    BY <1>3 DEF DevOpsEngineer
  <2>2. b \in Seq(Files)
    BY BundlesAreSequences
  <2>3. keeps \in SUBSET Files /\ "devops" \in Owners /\ \A f \in keeps : f.owner = "devops"
    BY DEF Files, Owners, IsDevops
  <2> QED
    BY <1>3, <2>1, <2>2, <2>3, AgentsKeep DEF DevOpsEngineer
<1> QED
  BY <1>1, <1>2, <1>3


LEMMA ValidateStep ==
  ASSUME ReviewInv, Validate
  PROVE  ReviewInv'
<1>0. TypeOK /\ KeptFiles(files) /\ Owned(files, origin) /\ pc = "validate"
  BY DEF ReviewInv, Validate
<1>1. UNCHANGED <<files, origin, rejected, round, sent, runs, tested, exhausted>> /\ Kept' = Kept
  BY DEF Validate, Kept
<1>2. \/ pc' = "failed" /\ report' = report
      \/ pc' = "decide" /\ report' = rejected \cup ProjectErrors(Kept)
  BY DEF Validate, Validates
<1>3. Refusals(report')
  BY <1>0, <1>2, ErrorsAreIssues DEF TypeOK, Refusals, Kept
<1>4. TypeOK'
  BY <1>0, <1>1, <1>2, <1>3 DEF TypeOK, Refusals
<1>5. Current'
  BY <1>1, <1>2 DEF Current, Reported
<1>6. RoundsCounted' /\ DeliveryTested' /\ ExhaustedMeansBounded'
  BY <1>0, <1>1, <1>2 DEF ReviewInv, RoundsCounted, DeliveryTested, ExhaustedMeansBounded
<1> QED
  BY <1>0, <1>1, <1>4, <1>5, <1>6 DEF ReviewInv, KeptFiles, Owned

\* Steps that leave the files, the tests and the reports as they are.
LEMMA OnlyMovesOn ==
  ASSUME ReviewInv, UNCHANGED <<files, origin, rejected, report, sent, runs, tested, exhausted>>,
         round' \in 0..RepairRounds,
         \/ pc \in {"decide", "repair"} /\ pc' \in {"repair", "test", "review"}
         \/ pc = "review" /\ pc' = "done"
         \/ pc' = "failed"
         \/ pc' = pc
  PROVE  ReviewInv'
<1>1. TypeOK'
  BY DEF ReviewInv, TypeOK
<1>2. KeptFiles(files)' /\ Owned(files, origin)'
  BY DEF ReviewInv, KeptFiles, Owned
<1>3. RoundsCounted' /\ Current' /\ DeliveryTested' /\ ExhaustedMeansBounded'
  BY ReviewAssumption
     DEF ReviewInv, RoundsCounted, Current, Reported, DeliveryTested, ExhaustedMeansBounded, Kept
<1> QED
  BY <1>1, <1>2, <1>3 DEF ReviewInv

LEMMA RepairStep ==
  ASSUME ReviewInv, Repair
  PROVE  /\ ReviewInv'
         /\ DOMAIN files' = DOMAIN files
         /\ \A p \in DOMAIN files : files'[p] # files[p] => p \in Failing
<1>0. /\ TypeOK /\ KeptFiles(files) /\ Owned(files, origin) /\ pc = "repair"
      /\ UNCHANGED <<origin, report, round, sent, runs, tested, exhausted>>
  BY DEF ReviewInv, Repair
<1>1. PICK changed \in Bundles :
        /\ \A i \in DOMAIN changed : ChangedByRepair(changed[i])
        /\ \/ pc' \in {"test", "review"} /\ UNCHANGED <<files, rejected>>
           \/ /\ files' = MergedInTurn(changed).files
              /\ rejected' = rejected \cup MergedInTurn(changed).issues /\ pc' = "validate"
  BY DEF Repair
<1>2. CASE pc' \in {"test", "review"} /\ UNCHANGED <<files, rejected>>
  <2>1. round' \in 0..RepairRounds
    BY <1>0 DEF TypeOK
  <2> QED
    BY <1>0, <1>2, <2>1, OnlyMovesOn
<1>3. CASE /\ files' = MergedInTurn(changed).files
           /\ rejected' = rejected \cup MergedInTurn(changed).issues /\ pc' = "validate"
  <2> DEFINE m == MergedInTurn(changed)
  <2>1. Mending(m)
    BY <1>0, <1>1, BundlesAreSequences, MergedInTurnMends
  <2> HIDE DEF m
  <2>2. files' = m.files /\ rejected' = rejected \cup m.issues /\ pc' = "validate"
    BY <1>3 DEF m
  <2>3. /\ DOMAIN files' = DOMAIN files /\ KeptFiles(files)'
        /\ \A p \in DOMAIN files : files'[p] = files[p] \/ p \in Failing
    BY <2>1, <2>2 DEF Mending, KeptFiles
  <2>4. \A p \in DOMAIN files : files'[p].owner = files[p].owner
    <3>1. ASSUME NEW p \in DOMAIN files
          PROVE  files'[p] \in Files /\ files[p] \in Files /\ files'[p].path = files[p].path
      BY <1>0, <2>3 DEF KeptFiles
    <3> QED
      BY <3>1, PathsHaveOwners
  <2>5. Owned(files, origin)'
    BY <1>0, <2>3, <2>4 DEF Owned
  <2>6. Refusals(rejected')
    BY <1>0, <2>1, <2>2 DEF TypeOK, Mending, Refusals
  <2>7. TypeOK'
    BY <1>0, <2>2, <2>3, <2>5, <2>6 DEF TypeOK, KeptFiles, Owned, Refusals, Files
  <2>8. RoundsCounted' /\ Current' /\ DeliveryTested' /\ ExhaustedMeansBounded'
    BY <1>0, <2>2 DEF ReviewInv, RoundsCounted, Current, Reported, DeliveryTested,
       ExhaustedMeansBounded
  <2> QED
    BY <2>3, <2>5, <2>7, <2>8 DEF ReviewInv
<1> QED
  BY <1>1, <1>2, <1>3

LEMMA TestStep ==
  ASSUME ReviewInv, Test
  PROVE  ReviewInv'
<1>a. TestRepairRounds \in Nat
  BY ReviewAssumption
<1>0. /\ TypeOK /\ KeptFiles(files) /\ Owned(files, origin) /\ pc = "test"
      /\ UNCHANGED <<files, origin, rejected, report, round>> /\ runs' = runs + 1
      /\ runs \in Nat /\ runs <= TestRepairRounds
  BY DEF ReviewInv, RoundsCounted, Test, TypeOK
<1>1. PICK status \in Statuses :
        /\ tested' = [status |-> status, files |-> files]
        /\ exhausted' = Exhausted(status)
        /\ \/ /\ status \in Repairable /\ runs < TestRepairRounds
              /\ pc' = "mend" /\ sent' \in SentSets
           \/ /\ ~ (status \in Repairable /\ runs < TestRepairRounds)
              /\ pc' = "review" /\ sent' = sent
  BY DEF Test, RoundsLeft
<1>2. tested'.status = status /\ tested'.files = files'
  BY <1>0, <1>1
<1>3. sent' \subseteq DOMAIN files
  BY <1>0, <1>1 DEF TypeOK, SentSets, Sources
<1>4. TypeOK'
  BY <1>a, <1>0, <1>1, <1>2, <1>3 DEF TypeOK, Exhausted
<1>5. KeptFiles(files)' /\ Owned(files, origin)'
  BY <1>0 DEF KeptFiles, Owned
<1>6. Current'
  BY <1>0, <1>1 DEF ReviewInv, Current, Reported, Kept
<1>7. CASE /\ status \in Repairable /\ runs < TestRepairRounds
            /\ pc' = "mend" /\ sent' \in SentSets
  <2>1. runs' \in 1..TestRepairRounds
    BY <1>a, <1>0, <1>7
  <2>2. runs # TestRepairRounds
    BY <1>a, <1>0, <1>7
  <2>3. ~ exhausted'
    BY <1>1, <2>2, Zenon DEF Exhausted
  <2>4. RoundsCounted'
    BY <1>2, <1>7, <2>1, <2>3, Zenon DEF RoundsCounted
  <2>5. DeliveryTested' /\ ExhaustedMeansBounded'
    BY <1>7 DEF DeliveryTested, ExhaustedMeansBounded
  <2> QED
    BY <1>4, <1>5, <1>6, <2>4, <2>5 DEF ReviewInv
<1>8. CASE /\ ~ (status \in Repairable /\ runs < TestRepairRounds)
            /\ pc' = "review" /\ sent' = sent
  <2>1. RoundsCounted'
    BY <1>8 DEF RoundsCounted
  <2>2. DeliveryTested'
    BY <1>2 DEF DeliveryTested
  <2>3. runs' = TestRepairRounds + 1 <=> runs = TestRepairRounds
    BY <1>a, <1>0
  <2>4. ExhaustedMeansBounded'
    BY <1>1, <1>2, <2>3, Zenon DEF ExhaustedMeansBounded, Exhausted
  <2> QED
    BY <1>4, <1>5, <1>6, <2>1, <2>2, <2>4 DEF ReviewInv
<1> QED
  BY <1>1, <1>7, <1>8

LEMMA MendStep ==
  ASSUME ReviewInv, Mend
  PROVE  /\ ReviewInv'
         /\ \A p \in DOMAIN files : files'[p] # files[p] => p \in sent
         /\ \A p \in DOMAIN files' \ DOMAIN files : files'[p].owner = "implement"
<1>0. /\ TypeOK /\ KeptFiles(files) /\ Owned(files, origin) /\ pc = "mend"
      /\ UNCHANGED <<round, sent, runs, tested, exhausted>>
  BY DEF ReviewInv, Mend
<1>1. PICK changed \in Bundles :
        Mended(Merge(changed, "implement", Allowed(changed)))
  BY DEF Mend
<1> DEFINE m == Merge(changed, "implement", Allowed(changed))
<1>2. /\ Allowed(changed) \subseteq Generated
      /\ \A f \in Allowed(changed) :
           (f.path \in sent \/ f.path \notin DOMAIN files) /\ ~ IsDevops(f)
  BY BundlesAreSequences DEF Allowed
<1>3. /\ KeptFiles(m.files) /\ Owned(m.files, m.origin) /\ Refusals(m.issues)
      /\ m.accepted = {} => m.files = files /\ m.origin = origin
      /\ DOMAIN m.files = DOMAIN files \cup m.accepted
      /\ \A p \in DOMAIN m.files :
           \/ p \in DOMAIN files /\ p \notin m.accepted /\ m.files[p] = files[p]
           \/ /\ p \in m.accepted /\ m.files[p] \in Allowed(changed)
              /\ m.files[p].owner = "implement"
  BY <1>0, <1>2, ImplementOwns, BundlesAreSequences, MergeIs
<1>4. Mended(m)
  BY <1>1
<1> HIDE DEF m
<1>5. /\ files' = m.files /\ origin' = m.origin /\ rejected' = rejected \cup m.issues
      /\ \/ m.accepted = {} /\ pc' = "review" /\ report' = report
         \/ pc' = "failed" /\ report' = report
         \/ pc' = "test" /\ report' = rejected' \cup ProjectErrors(Ran(m.files))
  BY <1>4 DEF Mended, Merged
<1>6. KeptFiles(files)' /\ Owned(files, origin)' /\ DOMAIN files' = DOMAIN files \cup m.accepted
  BY <1>3, <1>5 DEF KeptFiles, Owned
<1>7. Refusals(rejected') /\ Refusals(report')
  BY <1>0, <1>3, <1>5, ErrorsAreIssues DEF TypeOK, Refusals
<1>8. TypeOK'
  BY <1>0, <1>5, <1>6, <1>7 DEF TypeOK, KeptFiles, Owned, Refusals, Files
<1>9. Current'
  <2>1. CASE m.accepted = {} /\ pc' = "review" /\ report' = report
    BY <1>0, <1>3, <1>5, <2>1 DEF ReviewInv, Current, Reported, Kept
  <2>2. CASE pc' = "failed"
    BY <2>2 DEF Current, Reported
  <2>3. CASE pc' = "test" /\ report' = rejected' \cup ProjectErrors(Ran(m.files))
    BY <1>5, <2>3 DEF Current, Kept
  <2> QED
    BY <1>5, <2>1, <2>2, <2>3
<1>10. RoundsCounted' /\ DeliveryTested' /\ ExhaustedMeansBounded'
  BY <1>0, <1>3, <1>5, ReviewAssumption
     DEF ReviewInv, RoundsCounted, DeliveryTested, ExhaustedMeansBounded
<1>11. ASSUME NEW p \in DOMAIN files, files'[p] # files[p]
       PROVE  p \in sent
  <2>1. p \in DOMAIN m.files /\ m.files[p] # files[p]
    BY <1>3, <1>5, <1>11
  <2>2. m.files[p] \in Allowed(changed) /\ m.files[p].path = p
    BY <1>3, <2>1 DEF KeptFiles
  <2> QED
    BY <1>2, <2>2
<1>12. \A p \in DOMAIN files' \ DOMAIN files : files'[p].owner = "implement"
  BY <1>3, <1>5
<1> QED
  BY <1>6, <1>8, <1>9, <1>10, <1>11, <1>12 DEF ReviewInv

LEMMA InitReview == Init => ReviewInv
<1> SUFFICES ASSUME Init PROVE ReviewInv
  OBVIOUS
<1> USE ReviewAssumption
<1>1. DOMAIN files = {} /\ files \in [{} -> Files] /\ origin \in [{} -> Owners]
  BY DEF Init
<1>2. KeptFiles(files) /\ Owned(files, origin)
  BY <1>1 DEF KeptFiles, Owned
<1>3. TypeOK
  <2>1. round \in 0..RepairRounds /\ runs \in 0..(TestRepairRounds + 1)
    BY DEF Init
  <2>2. tested.status = "none" /\ exhausted = FALSE /\ sent = {} /\ rejected \cup report = {}
    BY DEF Init
  <2>3. exhausted \in BOOLEAN
    BY <2>2
  <2>4. /\ sent \subseteq DOMAIN files /\ tested.status \in Statuses \cup {"none"}
        /\ \A i \in rejected \cup report : i.file \in Paths \cup {NoFile}
    BY <2>2
  <2>5. pc = "architect"
    BY DEF Init
  <2>6. /\ DOMAIN files \subseteq Paths /\ origin \in [DOMAIN files -> Owners]
        /\ \A p \in DOMAIN files : files[p] \in Generated \cup Documents /\ files[p].path = p
    BY <1>1
  <2> QED
    BY <2>1, <2>3, <2>4, <2>5, <2>6 DEF TypeOK
<1>4. RoundsCounted /\ Current /\ DeliveryTested /\ ExhaustedMeansBounded
  BY DEF Init, RoundsCounted, Current, Reported, DeliveryTested, ExhaustedMeansBounded
<1> QED
  BY <1>2, <1>3, <1>4 DEF ReviewInv

LEMMA StepReview == ReviewInv /\ [Next]_vars => ReviewInv'
<1> SUFFICES ASSUME ReviewInv, [Next]_vars PROVE ReviewInv'
  OBVIOUS
<1>0. round \in 0..RepairRounds /\ TypeOK
  BY DEF ReviewInv, TypeOK
<1>1. CASE Decide
  <2>1. round' \in 0..RepairRounds
    BY <1>0, <1>1, ReviewAssumption DEF Decide
  <2> QED
    BY <1>1, <2>1, OnlyMovesOn DEF Decide
<1>2. CASE Review
  BY <1>0, <1>2, OnlyMovesOn DEF Review
<1>3. CASE ModelFails
  BY <1>0, <1>3, OnlyMovesOn DEF ModelFails
<1>4. CASE UNCHANGED vars
  BY <1>0, <1>4, OnlyMovesOn DEF vars
<1> QED
  BY <1>1, <1>2, <1>3, <1>4, AgentSteps, ValidateStep, RepairStep, TestStep, MendStep DEF Next

-----------------------------------------------------------------------------
(* ReviewLoop: the theorems                                                *)

\* What is delivered is what was validated and, if tests ran, tested, exactly as the
\* reports say; every file stays with the stage that may write its path; and the flag
\* says "exhausted" only of a run that used every repair (Reviewer.run), whatever models
\* answer and tests do.
THEOREM DeliveriesMatchTheirReports == Spec => []DeliveredAsReported
<1>1. ReviewInv => DeliveredAsReported
  BY DEF ReviewInv, Owned, OwnersKeepTheirFiles, Current, Reported, ReportIsCurrent,
     DeliveredAsReported
<1> QED
  BY <1>1, InitReview, StepReview, PTL DEF Spec

\* A repair of validation changes files with errors and adds none; a repair of tests
\* changes files it was sent, and what it adds is an implementation file.
THEOREM RepairsTouchTheirFilesOnly == Spec => RepairsStayInBounds
<1> DEFINE Bounded ==
      /\ pc = "repair" => /\ DOMAIN files' = DOMAIN files
                          /\ \A p \in DOMAIN files : files'[p] # files[p] => p \in Failing
      /\ pc = "mend" => /\ \A p \in DOMAIN files : files'[p] # files[p] => p \in sent
                        /\ \A p \in DOMAIN files' \ DOMAIN files :
                             files'[p].owner = "implement"
<1>1. ReviewInv /\ [Next]_vars => [Bounded]_vars
  <2> SUFFICES ASSUME ReviewInv, [Next]_vars, pc \in {"repair", "mend"}, files' # files
               PROVE  Bounded
    BY DEF vars
  <2>1. Repair \/ Mend
    BY DEF Next, vars, Architect, CodeGenerator, DevOpsEngineer, Validate, Decide, Test, Review,
       ModelFails
  <2>2. CASE Repair
    BY <2>2, RepairStep DEF Repair
  <2>3. CASE Mend
    BY <2>3, MendStep DEF Mend
  <2> QED
    BY <2>1, <2>2, <2>3
<1> QED
  BY <1>1, InitReview, StepReview, PTL DEF Spec, RepairsStayInBounds

-----------------------------------------------------------------------------
(* Paths                                                                   *)

\* A segment that is kept means what it says on every system.
LEMMA SafeSegment ==
  ASSUME NEW s \in Segments, ~Unsafe(s), NEW system \in Systems
  PROVE  ~Escapes(system, s)
<1>1. /\ s.tail = "" /\ s.extension \in BOOLEAN
      /\ ~s.extension => s.name \notin Forbidden /\ Folded(s.name) \notin GitNames
      /\ Folded(s.name) \notin Reserved
  BY DEF Unsafe, Segments
<1>2. s.name \in GitNames => Folded(s.name) \in GitNames
  BY DEF GitNames, Folded
<1>3. Folded(s.name) \in Forbidden => s.name \in Forbidden
  BY DEF Forbidden, Folded
<1> DEFINE seen == Seen(system, s)
<1>4. /\ seen.name = s.name \/ seen.name = Folded(s.name)
      /\ seen.bare => ~s.extension
      /\ system = "windows" => seen.name = Folded(s.name)
  BY DEF Seen, Systems
<1> HIDE DEF seen
<1>5. ~(seen.bare /\ seen.name \in Forbidden \cup GitNames)
  BY <1>1, <1>2, <1>3, <1>4
<1>6. ~(system = "windows" /\ seen.name \in Reserved)
  BY <1>1, <1>4
<1> QED
  BY <1>5, <1>6 DEF Escapes, seen

\* validation.py: for paths of any length.
LEMMA KeptPathsAreSafe ==
  ASSUME NEW n \in Nat, NEW path \in [1..n -> Segments], Normalizes(path)
  PROVE  \A i \in DOMAIN path, system \in Systems : ~Escapes(system, Stripped(path)[i])
<1> SUFFICES ASSUME NEW i \in DOMAIN path, NEW system \in Systems
             PROVE  ~Escapes(system, Stripped(path)[i])
  OBVIOUS
<1>1. DOMAIN Stripped(path) = DOMAIN path /\ path[i] \in Segments
  BY DEF Stripped
<1>2. ~Unsafe(Stripped(path)[i])
  BY <1>1 DEF Normalizes
<1>3. Stripped(path)[i] \in Segments
  BY <1>1 DEF Stripped, Segments
<1> QED
  BY <1>2, <1>3, SafeSegment

LEMMA PathsAreAlwaysSafe == PathsAreSafe
<1> SUFFICES ASSUME NEW path \in SeqOf(Segments, 2), Normalizes(path)
             PROVE  \A i \in DOMAIN path, system \in Systems : ~Escapes(system, Stripped(path)[i])
  BY DEF PathsAreSafe
<1>1. PICK n \in 0..2 : path \in [1..n -> Segments]
  BY DEF SeqOf
<1>2. n \in Nat
  BY <1>1
<1> QED
  BY <1>1, <1>2, KeptPathsAreSafe

-----------------------------------------------------------------------------
(* Sizes                                                                   *)

LEMMA OneFile ==
  ASSUME NEW f, f.size \in Nat
  PROVE  IsFiniteSet(Bytes({f})) /\ Sizes({f}) = f.size
<1> DEFINE S == 1..f.size
           h == [n \in S |-> <<f, n>>]
<1>1. Bytes({f}) = {<<f, n>> : n \in S}
  BY DEF Bytes
<1>2. h \in Surjection(S, Bytes({f})) /\ h \in Injection(S, Bytes({f}))
  BY <1>1 DEF Surjection, Injection, IsInjective
<1>3. IsFiniteSet(S) /\ Cardinality(S) = f.size
  <2>1. 1 \in Int /\ f.size \in Int
    OBVIOUS
  <2>2. IsFiniteSet(S) /\ Cardinality(S) = IF 1 > f.size THEN 0 ELSE f.size - 1 + 1
    BY <2>1, FS_Interval
  <2> QED
    BY <2>2
<1> HIDE DEF h, S
<1> QED
  BY <1>2, <1>3, FS_Surjection DEF Sizes

LEMMA SizesAdd ==
  ASSUME NEW fs, NEW gs, fs \cap gs = {}, IsFiniteSet(Bytes(fs)), IsFiniteSet(Bytes(gs))
  PROVE  /\ IsFiniteSet(Bytes(fs \cup gs))
         /\ Sizes(fs) \in Nat /\ Sizes(gs) \in Nat
         /\ Sizes(fs \cup gs) = Sizes(fs) + Sizes(gs)
<1>1. Bytes(fs \cup gs) = Bytes(fs) \cup Bytes(gs)
  BY DEF Bytes
<1>2. Bytes(fs) \cap Bytes(gs) = {}
  BY DEF Bytes
<1>3. Cardinality(Bytes(fs) \cap Bytes(gs)) = 0
  BY <1>2, FS_EmptySet
<1>4. /\ IsFiniteSet(Bytes(fs) \cup Bytes(gs))
      /\ Cardinality(Bytes(fs) \cup Bytes(gs)) =
           Cardinality(Bytes(fs)) + Cardinality(Bytes(gs)) - 0
  BY <1>3, FS_Union
<1>5. Cardinality(Bytes(fs)) \in Nat /\ Cardinality(Bytes(gs)) \in Nat
  BY FS_CardinalityType
<1> DEFINE a == Cardinality(Bytes(fs))
           b == Cardinality(Bytes(gs))
<1>6. Sizes(fs \cup gs) = a + b - 0 /\ Sizes(fs) = a /\ Sizes(gs) = b
  BY <1>1, <1>4 DEF Sizes
<1>7. a \in Nat /\ b \in Nat
  BY <1>5
<1>8. IsFiniteSet(Bytes(fs \cup gs))
  BY <1>1, <1>4
<1> HIDE DEF a, b
<1> QED
  BY <1>6, <1>7, <1>8

LEMMA NoBytes == Bytes({}) = {} /\ IsFiniteSet(Bytes({})) /\ Sizes({}) = 0
BY FS_EmptySet DEF Bytes, Sizes

-----------------------------------------------------------------------------
(* What sanitize_files keeps fits, and all that fits is kept               *)

\* Files to make bundles of.
Sizable(F) == \A f \in F : f.safe \in BOOLEAN /\ f.size \in Nat

Apart(kept) == \A i, j \in DOMAIN kept : kept[i].key = kept[j].key => i = j

Tidy(s, F, limits) ==
  /\ DOMAIN s = {"kept", "issues", "total", "stopped"}
  /\ s.stopped \in BOOLEAN
  /\ s.kept \in Seq(F) /\ Apart(s.kept)
  /\ IsFiniteSet(Bytes(ToSet(s.kept))) /\ s.total = Sizes(ToSet(s.kept))
  /\ s.total <= limits.total
  /\ Len(s.kept) <= limits.files
  /\ \A f \in ToSet(s.kept) : f.safe /\ f.size <= limits.file

LastOf(bundle, n) ==
  {bundle[i] : i \in {i \in 1..n : \A j \in 1..n : j > i => bundle[j].key # bundle[i].key}}

Complete(s, bundle, n) == s.issues = {} /\ ~s.stopped /\ ToSet(s.kept) = LastOf(bundle, n)

LEMMA CountApart ==
  ASSUME NEW F, NEW kept \in Seq(F), Apart(kept)
  PROVE  /\ IsFiniteSet(ToSet(kept)) /\ Cardinality(ToSet(kept)) = Len(kept)
         /\ Cardinality(Keys(ToSet(kept))) = Len(kept)
<1> DEFINE S == 1..Len(kept)
           at == [i \in S |-> kept[i]]
           keys == [i \in S |-> kept[i].key]
<1>1. Len(kept) \in Nat /\ DOMAIN kept = S
  OBVIOUS
<1>2. IsFiniteSet(S) /\ Cardinality(S) = Len(kept)
  <2>1. 1 \in Int /\ Len(kept) \in Int
    BY <1>1
  <2>2. IsFiniteSet(S) /\ Cardinality(S) = IF 1 > Len(kept) THEN 0 ELSE Len(kept) - 1 + 1
    BY <2>1, FS_Interval
  <2> QED
    BY <1>1, <2>2
<1>3. at \in Surjection(S, ToSet(kept)) /\ at \in Injection(S, ToSet(kept))
  BY <1>1 DEF Surjection, Injection, IsInjective, ToSet, Apart
<1>4. keys \in Surjection(S, Keys(ToSet(kept))) /\ keys \in Injection(S, Keys(ToSet(kept)))
  BY <1>1 DEF Surjection, Injection, IsInjective, ToSet, Keys, Apart
<1> HIDE DEF at, keys, S
<1> QED
  BY <1>2, <1>3, <1>4, FS_Surjection

\* The files whose place f takes: one, or none.
Replaced(kept, f) == {g \in ToSet(kept) : g.key = f.key}

\* A file takes the place of the one with its key, or the next place.
LEMMA PlacedIs ==
  ASSUME NEW F, Sizable(F), NEW kept \in Seq(F), Apart(kept), IsFiniteSet(Bytes(ToSet(kept))),
         NEW f \in F
  PROVE  /\ Placed(kept, f) \in Seq(F) /\ Apart(Placed(kept, f))
         /\ ToSet(Placed(kept, f)) = (ToSet(kept) \ Replaced(kept, f)) \cup {f}
         /\ Len(Placed(kept, f)) = IF f.key \in Keys(ToSet(kept)) THEN Len(kept) ELSE Len(kept) + 1
         /\ IsFiniteSet(Bytes(ToSet(Placed(kept, f))))
         /\ Sizes(ToSet(Placed(kept, f))) = Sizes(ToSet(kept)) - Sizes(Replaced(kept, f)) + f.size
<1> DEFINE K == ToSet(kept)
           old == Replaced(kept, f)
           placed == Placed(kept, f)
<1>0. old = {g \in K : g.key = f.key}
  BY DEF Replaced
<1> HIDE DEF old
<1>1. Len(kept) \in Nat /\ DOMAIN kept = 1..Len(kept) /\ K = {kept[i] : i \in 1..Len(kept)}
  BY DEF ToSet
<1>2. /\ placed \in Seq(F) /\ Apart(placed)
      /\ ToSet(placed) = (K \ old) \cup {f}
      /\ Len(placed) = IF f.key \in Keys(K) THEN Len(kept) ELSE Len(kept) + 1
  <2>1. CASE f.key \in Keys(K)
    <3>1. placed = [i \in DOMAIN kept |-> IF kept[i].key = f.key THEN f ELSE kept[i]]
      BY <2>1 DEF Placed
    <3> HIDE DEF placed
    <3>2. placed \in Seq(F) /\ Len(placed) = Len(kept) /\ DOMAIN placed = 1..Len(kept)
      BY <1>1, <3>1
    <3>3. \A i \in 1..Len(kept) : placed[i].key = kept[i].key
      BY <1>1, <3>1
    <3>4. Apart(placed)
      BY <1>1, <3>2, <3>3 DEF Apart
    <3>5. PICK k \in 1..Len(kept) : kept[k].key = f.key
      BY <1>1, <2>1 DEF Keys
    <3>6. ToSet(placed) = {placed[i] : i \in 1..Len(kept)}
      BY <3>2 DEF ToSet
    <3>7. ToSet(placed) \subseteq (K \ old) \cup {f}
      BY <1>0, <1>1, <3>1, <3>6
    <3>8. f \in ToSet(placed)
      BY <1>1, <3>1, <3>5, <3>6
    <3>9. K \ old \subseteq ToSet(placed)
      BY <1>0, <1>1, <3>1, <3>6
    <3> QED
      BY <2>1, <3>2, <3>4, <3>7, <3>8, <3>9
  <2>2. CASE f.key \notin Keys(K)
    <3>1. placed = Append(kept, f)
      BY <2>2 DEF Placed
    <3> HIDE DEF placed
    <3>2. /\ placed \in Seq(F) /\ Len(placed) = Len(kept) + 1 /\ DOMAIN placed = 1..Len(kept) + 1
          /\ \A i \in 1..Len(kept) : placed[i] = kept[i]
          /\ placed[Len(kept) + 1] = f
      BY <1>1, <3>1
    <3>3. \A i \in 1..Len(kept) : kept[i].key # f.key
      BY <1>1, <2>2 DEF Keys
    <3>4. 1..Len(kept) + 1 = (1..Len(kept)) \cup {Len(kept) + 1} /\ Len(kept) + 1 \notin 1..Len(kept)
      BY <1>1
    <3>5. Apart(placed)
      BY <1>1, <3>2, <3>3, <3>4 DEF Apart
    <3>6. ToSet(placed) = K \cup {f}
      <4>1. ToSet(placed) = {placed[i] : i \in (1..Len(kept)) \cup {Len(kept) + 1}}
        BY <3>2, <3>4 DEF ToSet
      <4> QED
        BY <1>1, <3>2, <4>1
    <3>7. old = {}
      BY <1>0, <1>1, <3>3
    <3> QED
      BY <2>2, <3>2, <3>5, <3>6, <3>7
  <2> QED
    BY <2>1, <2>2
<1>3. old \in SUBSET K /\ K \ old \in SUBSET K /\ (K \ old) \cap old = {} /\ (K \ old) \cup old = K
  BY <1>0
<1>4. Bytes(old) \in SUBSET Bytes(K) /\ Bytes(K \ old) \in SUBSET Bytes(K)
  BY <1>3 DEF Bytes
<1>5. IsFiniteSet(Bytes(old)) /\ IsFiniteSet(Bytes(K \ old))
  BY <1>4, FS_Subset
<1>6. /\ Sizes(K \ old) \in Nat /\ Sizes(old) \in Nat
      /\ Sizes(K) = Sizes(K \ old) + Sizes(old)
  <2> HIDE DEF K, old
  <2> QED
    BY <1>3, <1>5, SizesAdd
<1>7. f \notin K \ old /\ f.size \in Nat
  BY <1>0 DEF Sizable
<1>8. /\ IsFiniteSet(Bytes((K \ old) \cup {f}))
      /\ Sizes((K \ old) \cup {f}) = Sizes(K \ old) + f.size
  <2>1. (K \ old) \cap {f} = {}
    BY <1>7
  <2>2. IsFiniteSet(Bytes({f})) /\ Sizes({f}) = f.size
    BY <1>7, OneFile
  <2> HIDE DEF K, old
  <2> QED
    BY <1>5, <2>1, <2>2, SizesAdd
<1>9. Sizes(K \ old) + f.size = Sizes(K) - Sizes(old) + f.size
  <2> HIDE DEF K, old
  <2> QED
    BY <1>6, <1>7
<1> QED
  BY <1>2, <1>8, <1>9 DEF old

LEMMA LastOfGrows ==
  ASSUME NEW bundle, NEW n \in Nat
  PROVE  LastOf(bundle, n + 1)
           = {g \in LastOf(bundle, n) : g.key # bundle[n + 1].key} \cup {bundle[n + 1]}
<1> DEFINE f == bundle[n + 1]
           Latest(m) == {i \in 1..m : \A j \in 1..m : j > i => bundle[j].key # bundle[i].key}
<1>1. 1..n + 1 = (1..n) \cup {n + 1} /\ n + 1 \notin 1..n
  OBVIOUS
<1>2. Latest(n + 1) = {i \in Latest(n) : f.key # bundle[i].key} \cup {n + 1}
  <2>1. n + 1 \in Latest(n + 1)
    OBVIOUS
  <2>2. ASSUME NEW i \in 1..n
        PROVE  i \in Latest(n + 1) <=> i \in Latest(n) /\ f.key # bundle[i].key
    <3>1. n + 1 > i /\ i \in 1..n + 1
      OBVIOUS
    <3> QED
      BY <1>1, <3>1
  <2>3. Latest(n + 1) \subseteq 1..n + 1 /\ Latest(n) \subseteq 1..n
    OBVIOUS
  <2> HIDE DEF Latest, f
  <2> QED
    BY <1>1, <2>1, <2>2, <2>3
<1>3. \A m : LastOf(bundle, m) = {bundle[i] : i \in Latest(m)}
  BY DEF LastOf
<1> HIDE DEF Latest
<1>4. LastOf(bundle, n + 1) = {bundle[i] : i \in {i \in Latest(n) : f.key # bundle[i].key}} \cup {f}
  BY <1>2, <1>3
<1>5. {bundle[i] : i \in {i \in Latest(n) : f.key # bundle[i].key}}
        = {g \in {bundle[i] : i \in Latest(n)} : g.key # f.key}
  OBVIOUS
<1> QED
  BY <1>3, <1>4, <1>5

LEMMA PrefixHas ==
  ASSUME NEW F, NEW bundle \in Seq(F), NEW n \in 0..Len(bundle)
  PROVE  LastOfEach(SubSeq(bundle, 1, n)) = LastOf(bundle, n)
<1> DEFINE s == SubSeq(bundle, 1, n)
<1>1. Len(bundle) \in Nat /\ n \in Nat
  OBVIOUS
<1>2. DOMAIN s = 1..n /\ \A i \in 1..n : s[i] = bundle[i]
  BY <1>1
<1> HIDE DEF s
<1>3. LastOfEach(s) = LastOf(bundle, n)
  BY <1>2 DEF LastOfEach, LastOf
<1> QED
  BY <1>3 DEF s

LEMMA StoppedIs ==
  ASSUME NEW F, NEW limits, NEW s, Tidy(s, F, limits), NEW issue
  PROVE  Tidy(Refused(s, issue), F, limits) /\ Tidy(Truncated(s, issue), F, limits)
<1> DEFINE r == Refused(s, issue)
           t == Truncated(s, issue)
<1>1. /\ DOMAIN r = DOMAIN s /\ r.kept = s.kept /\ r.total = s.total /\ r.stopped = s.stopped
  BY DEF Refused, Tidy
<1>2. /\ DOMAIN t = DOMAIN s /\ t.kept = s.kept /\ t.total = s.total /\ t.stopped = TRUE
  BY <1>1 DEF Truncated, Tidy
<1> HIDE DEF r, t
<1>3. Tidy(r, F, limits) /\ Tidy(t, F, limits)
  BY <1>1, <1>2 DEF Tidy
<1> QED
  BY <1>3 DEF r, t

LEMMA SanitizeFileIsTidy ==
  ASSUME NEW F, Sizable(F), NEW limits \in [files : Nat, file : Nat, total : Nat],
         NEW bundle \in Seq(F), NEW n \in 0..Len(bundle) - 1, NEW s, Tidy(s, F, limits),
         NEW next, next = SanitizeFile(s, bundle[n + 1], limits)
  PROVE  /\ Tidy(next, F, limits)
         /\ Complete(s, bundle, n) /\ Fits(LastOf(bundle, n + 1), limits)
              => Complete(next, bundle, n + 1)
<1> DEFINE f == bundle[n + 1]
           old == Replaced(s.kept, f)
           placed == Placed(s.kept, f)
           room == Without(s, f) + f.size
           more == [s EXCEPT !.kept = placed, !.total = room]
           fits == Complete(s, bundle, n) /\ Fits(LastOf(bundle, n + 1), limits)
<1>0. /\ f \in F /\ f.safe \in BOOLEAN /\ f.size \in Nat /\ n \in Nat
      /\ limits.files \in Nat /\ limits.file \in Nat /\ limits.total \in Nat
      /\ s.stopped \in BOOLEAN /\ Len(s.kept) \in Nat
  BY DEF Sizable, Tidy
<1>1. /\ placed \in Seq(F) /\ Apart(placed)
      /\ ToSet(placed) = (ToSet(s.kept) \ old) \cup {f}
      /\ Len(placed) = IF f.key \in Keys(ToSet(s.kept)) THEN Len(s.kept) ELSE Len(s.kept) + 1
      /\ IsFiniteSet(Bytes(ToSet(placed)))
      /\ Sizes(ToSet(placed)) = Sizes(ToSet(s.kept)) - Sizes(old) + f.size
  <2>1. s.kept \in Seq(F) /\ Apart(s.kept) /\ IsFiniteSet(Bytes(ToSet(s.kept)))
    BY DEF Tidy
  <2> HIDE DEF f
  <2>2. f \in F
    BY <1>0
  <2> DEFINE Is(k, g) ==
               /\ Placed(k, g) \in Seq(F) /\ Apart(Placed(k, g))
               /\ ToSet(Placed(k, g)) = (ToSet(k) \ Replaced(k, g)) \cup {g}
               /\ Len(Placed(k, g)) = IF g.key \in Keys(ToSet(k)) THEN Len(k) ELSE Len(k) + 1
               /\ IsFiniteSet(Bytes(ToSet(Placed(k, g))))
               /\ Sizes(ToSet(Placed(k, g))) = Sizes(ToSet(k)) - Sizes(Replaced(k, g)) + g.size
  <2>3. \A k \in Seq(F), g \in F : Apart(k) /\ IsFiniteSet(Bytes(ToSet(k))) => Is(k, g)
    BY PlacedIs
  <2>4. Is(s.kept, f)
    <3> HIDE DEF Is
    <3> QED
      BY <2>1, <2>2, <2>3
  <2> QED
    BY <2>4
<1>2. room = Sizes(ToSet(placed))
  <2>1. s.total = Sizes(ToSet(s.kept))
    BY DEF Tidy
  <2>2. Without(s, f) = s.total - Sizes(old)
    BY DEF Without, Replaced
  <2> QED
    BY <1>1, <2>1, <2>2
<1> DEFINE gone == f.key \notin Keys(ToSet(s.kept)) /\ Len(s.kept) >= limits.files
<1> HIDE DEF room
<1>3. ASSUME ~s.stopped, f.safe, f.size <= limits.file, ~gone, ~(room > limits.total)
      PROVE  Tidy(more, F, limits)
  <2>1. /\ DOMAIN more = DOMAIN s /\ more.kept = placed /\ more.total = room
        /\ more.stopped = s.stopped /\ more.issues = s.issues
    BY DEF Tidy
  <2>2. Len(placed) <= limits.files
    <3>1. Len(s.kept) <= limits.files
      BY DEF Tidy
    <3> HIDE DEF placed
    <3> QED
      BY <1>0, <1>1, <1>3, <3>1
  <2>3. room <= limits.total
    <3>1. room \in Nat
      BY <1>1, <1>2, FS_CardinalityType DEF Sizes
    <3> QED
      BY <1>0, <1>3, <3>1
  <2>4. \A g \in ToSet(placed) : g.safe /\ g.size <= limits.file
    <3> HIDE DEF placed, f
    <3> QED
      BY <1>1, <1>3 DEF Tidy
  <2> HIDE DEF more, placed, f
  <2> QED
    BY <1>1, <1>2, <2>1, <2>2, <2>3, <2>4 DEF Tidy
<1>4. ASSUME fits
      PROVE  /\ ~s.stopped /\ f.safe /\ f.size <= limits.file /\ ~gone /\ ~(room > limits.total)
             /\ ToSet(placed) = LastOf(bundle, n + 1)
  <2>1. LastOf(bundle, n + 1) = {g \in LastOf(bundle, n) : g.key # f.key} \cup {f}
    BY <1>0, LastOfGrows
  <2>2. ToSet(placed) = LastOf(bundle, n + 1)
    <3> HIDE DEF placed, f
    <3> QED
      BY <1>1, <1>4, <2>1 DEF Complete, Replaced
  <2>3. Fits(ToSet(placed), limits) /\ f \in ToSet(placed)
    BY <1>1, <1>4, <2>2
  <2>4. f.safe /\ f.size <= limits.file /\ room <= limits.total
    BY <1>2, <2>3 DEF Fits
  <2>5. ~(room > limits.total)
    <3>1. room \in Nat
      BY <1>1, <1>2, FS_CardinalityType DEF Sizes
    <3> QED
      BY <1>0, <2>4, <3>1
  <2>6. ~gone
    <3>1. Cardinality(ToSet(placed)) = Len(placed)
      BY <1>1, CountApart
    <3>2. Len(placed) <= limits.files
      BY <2>3, <3>1 DEF Fits
    <3> HIDE DEF placed
    <3> QED
      BY <1>0, <1>1, <3>2
  <2> QED
    BY <1>4, <2>2, <2>4, <2>5, <2>6 DEF Complete
<1>5. CASE s.stopped
  <2>1. next = s
    BY <1>5 DEF SanitizeFile
  <2> QED
    BY <1>4, <1>5, <2>1
<1>6. CASE ~s.stopped /\ ~f.safe
  <2>1. next = Refused(s, Issue("path-safety", NoFile))
    BY <1>6 DEF SanitizeFile
  <2> HIDE DEF fits, f
  <2> QED
    BY <1>4, <1>6, <2>1, StoppedIs DEF fits
<1>7. CASE ~s.stopped /\ f.safe /\ f.size > limits.file
  <2>0. ~(f.size <= limits.file)
    BY <1>0, <1>7
  <2>1. next = Refused(s, Issue("file-size", f.path))
    BY <1>7, <2>0 DEF SanitizeFile
  <2> HIDE DEF fits, f
  <2> QED
    BY <1>4, <2>0, <2>1, StoppedIs DEF fits
<1>8. CASE ~s.stopped /\ f.safe /\ f.size <= limits.file /\ gone
  <2>0. ~(f.size > limits.file)
    BY <1>0, <1>8
  <2>1. next = Truncated(s, Issue("file-count", NoFile))
    BY <1>8, <2>0 DEF SanitizeFile
  <2> HIDE DEF fits, f, gone
  <2> QED
    BY <1>4, <1>8, <2>1, StoppedIs DEF fits
<1>9. CASE ~s.stopped /\ f.safe /\ f.size <= limits.file /\ ~gone /\ room > limits.total
  <2>0. ~(f.size > limits.file)
    BY <1>0, <1>9
  <2>1. next = Truncated(s, Issue("total-size", f.path))
    BY <1>9, <2>0 DEF SanitizeFile, room
  <2> HIDE DEF fits, f, gone
  <2> QED
    BY <1>4, <1>9, <2>1, StoppedIs DEF fits
<1>10. CASE ~s.stopped /\ f.safe /\ f.size <= limits.file /\ ~gone /\ ~(room > limits.total)
  <2>0. ~(f.size > limits.file)
    BY <1>0, <1>10
  <2>1. next = more
    BY <1>10, <2>0 DEF SanitizeFile, room
  <2>2. Tidy(next, F, limits)
    BY <1>3, <1>10, <2>1
  <2>3. next.kept = placed /\ next.stopped = s.stopped /\ next.issues = s.issues
    <3> HIDE DEF placed
    <3> QED
      BY <2>1 DEF Tidy
  <2> HIDE DEF more, placed, gone
  <2>4. fits => Complete(next, bundle, n + 1)
    BY <1>4, <2>3 DEF Complete
  <2> QED
    BY <2>2, <2>4
<1> HIDE DEF gone, f
<1> QED
  BY <1>0, <1>5, <1>6, <1>7, <1>8, <1>9, <1>10

\* validation.py: for bundles of any length, files of any size and any limits, what is kept is
\* safe, within the limits and has one file per key; and where the files that come last fit at
\* every moment, these are what is kept and nothing is refused.
THEOREM KeptBundlesFit ==
  ASSUME NEW F, Sizable(F), NEW limits \in [files : Nat, file : Nat, total : Nat],
         NEW bundle \in Seq(F)
  PROVE  LET r == Sanitize(bundle, limits) IN
         /\ Fits(ToSet(r.kept), limits) /\ Cardinality(Keys(ToSet(r.kept))) = Len(r.kept)
         /\ (\A n \in DOMAIN bundle : Fits(LastOfEach(SubSeq(bundle, 1, n)), limits)) =>
              r.issues = {} /\ ToSet(r.kept) = LastOfEach(bundle)
<1> DEFINE N == Len(bundle)
           Fitting == \A n \in 1..N : Fits(LastOf(bundle, n), limits)
<1>1. N \in Nat /\ DOMAIN bundle = 1..N /\ SubSeq(bundle, 1, N) = bundle
  OBVIOUS
<1>2. PICK after : /\ after[0] = Unread
                   /\ \A k \in 1..N : after[k] = SanitizeFile(after[k - 1], bundle[k], limits)
                   /\ Sanitize(bundle, limits) = after[N]
  BY <1>1, SanitizeIs
<1> DEFINE Good(n) == Tidy(after[n], F, limits) /\ (Fitting => Complete(after[n], bundle, n))
           S == {n \in Nat : n <= N => Good(n)}
<1>3. 0 \in S
  <2>1. ToSet(Unread.kept) = {} /\ Unread.kept \in Seq(F) /\ Len(Unread.kept) = 0
    BY DEF Unread, ToSet
  <2>2. Apart(Unread.kept)
    BY DEF Unread, Apart
  <2>3. limits.total \in Nat /\ limits.files \in Nat
    OBVIOUS
  <2>4. /\ DOMAIN Unread = {"kept", "issues", "total", "stopped"} /\ Unread.total = 0
        /\ Unread.stopped = FALSE /\ Unread.issues = {}
    BY DEF Unread
  <2>5. Tidy(Unread, F, limits)
    <3>1. /\ IsFiniteSet(Bytes(ToSet(Unread.kept))) /\ Unread.total = Sizes(ToSet(Unread.kept))
          /\ Unread.total <= limits.total /\ Len(Unread.kept) <= limits.files
      BY <2>1, <2>3, <2>4, NoBytes
    <3> QED
      BY <2>1, <2>2, <2>4, <3>1 DEF Tidy
  <2>6. LastOf(bundle, 0) = {}
    BY DEF LastOf
  <2>7. Complete(Unread, bundle, 0)
    BY <2>1, <2>4, <2>6 DEF Complete
  <2> QED
    BY <1>2, <2>5, <2>7
<1>4. ASSUME NEW n \in Nat, n \in S
      PROVE  n + 1 \in S
  <2>1. SUFFICES ASSUME n + 1 <= N PROVE Good(n + 1)
    OBVIOUS
  <2>2. n + 1 \in 1..N /\ (n + 1) - 1 = n /\ n \in 0..N - 1 /\ n <= N
    BY <1>1, <2>1
  <2>3. Good(n)
    BY <1>4, <2>2
  <2>4. after[n + 1] = SanitizeFile(after[n], bundle[n + 1], limits)
    BY <1>2, <2>2
  <2>5. /\ Tidy(after[n + 1], F, limits)
        /\ Complete(after[n], bundle, n) /\ Fits(LastOf(bundle, n + 1), limits)
             => Complete(after[n + 1], bundle, n + 1)
    BY <2>2, <2>3, <2>4, SanitizeFileIsTidy
  <2> QED
    BY <2>2, <2>3, <2>5
<1>5. Good(N)
  <2>1. \A n \in Nat : n \in S
    <3> HIDE DEF S
    <3> QED
      BY <1>3, <1>4, AllNumbers
  <2> QED
    BY <1>1, <2>1
<1> DEFINE r == Sanitize(bundle, limits)
<1>6. Tidy(r, F, limits) /\ (Fitting => Complete(r, bundle, N))
  BY <1>2, <1>5
<1> HIDE DEF r
<1>7. /\ Cardinality(ToSet(r.kept)) = Len(r.kept) /\ Cardinality(Keys(ToSet(r.kept))) = Len(r.kept)
  BY <1>6, CountApart DEF Tidy
<1>8. Fits(ToSet(r.kept), limits)
  BY <1>6, <1>7 DEF Fits, Tidy
<1>9. LastOfEach(bundle) = LastOf(bundle, N)
  BY <1>1 DEF LastOfEach, LastOf
<1>10. (\A n \in DOMAIN bundle : Fits(LastOfEach(SubSeq(bundle, 1, n)), limits)) => Fitting
  <2>1. \A n \in 1..N : n \in 0..N
    OBVIOUS
  <2>2. \A n \in 0..N : LastOfEach(SubSeq(bundle, 1, n)) = LastOf(bundle, n)
    BY PrefixHas
  <2> QED
    BY <1>1, <2>1, <2>2
<1> QED
  BY <1>6, <1>7, <1>8, <1>9, <1>10 DEF r, Complete

LEMMA BundlesAreAlwaysFit == SanitizeSound
<1> SUFFICES ASSUME NEW b \in SeqOf(Samples, 4)
             PROVE  LET r == Sanitize(b, Limits) IN
                    /\ Fits(ToSet(r.kept), Limits) /\ Cardinality(Keys(ToSet(r.kept))) = Len(r.kept)
                    /\ (\A n \in DOMAIN b : Fits(LastOfEach(SubSeq(b, 1, n)), Limits)) =>
                         r.issues = {} /\ ToSet(r.kept) = LastOfEach(b)
  BY DEF SanitizeSound
<1>1. PICK m \in 0..4 : b \in [1..m -> Samples]
  BY DEF SeqOf
<1>2. b \in Seq(Samples)
  BY <1>1
<1>3. Sizable(Samples) /\ Limits \in [files : Nat, file : Nat, total : Nat]
  BY ReviewAssumption DEF Sizable
<1> QED
  BY <1>2, <1>3, KeptBundlesFit

\* validation.py: a path that is kept stays inside the project on every system, and a bundle that
\* is kept is within its limits, in every state of a run.
THEOREM KeptFilesAreSafe == Spec => []BundlesAreSafe
<1>1. BundlesAreSafe
  BY PathsAreAlwaysSafe, BundlesAreAlwaysFit DEF BundlesAreSafe
<1> QED
  BY <1>1, PTL

-----------------------------------------------------------------------------
(* Sandbox: the invariant of the runner                                    *)

HandlerPC == {"none", "gate"} \cup Admitted
HandlerState == [pc : HandlerPC, for : Clients \cup {Nobody}, holds : BOOLEAN]
ClientState == [pc : {"idle", "post", "wait"}, tries : 0..Retries]

AdmittedNow == {h \in Handlers : handler[h].pc \in Admitted}
HoldingNow  == {h \in Handlers : handler[h].holds}

\* What the gate and the semaphore count, while there is a process to count.
Books ==
  /\ admitted = Cardinality(AdmittedNow)
  /\ slots + Cardinality(HoldingNow) = Slots

\* A handler has what its place in the code entitles it to.
HandlerFacts(h) ==
  /\ handler[h].pc = "none" => handler[h] = NoHandler
  /\ handler[h].pc \in {"none", "gate", "slot"} => ~handler[h].holds
  /\ handler[h].pc \in {"none", "gate", "slot", "start", "leave"} => container[h] = "none"
  /\ runner = "down" => handler[h].pc = "none"

\* Who waits is worked for, by one handler.
Pairing ==
  /\ \A g, h \in Handlers : handler[g].for = handler[h].for /\ handler[g].for # Nobody => g = h
  /\ \A c \in Clients : client[c].pc = "wait" <=> \E h \in Handlers : handler[h].for = c

NoTrash == leftover > 0 => faults > 0 \/ runner # "up"

RunnerInv ==
  /\ RunnerTypeOK
  /\ \A h \in Handlers : HandlerFacts(h)
  /\ runner # "down" => Books
  /\ Pairing
  /\ NoTrash

-----------------------------------------------------------------------------
(* Counting handlers                                                       *)

LEMMA CountIsNat ==
  ASSUME NEW S \in SUBSET Handlers
  PROVE  IsFiniteSet(S) /\ Cardinality(S) \in Nat
  BY SandboxAssumption, FS_Subset, FS_CardinalityType

\* A set of handlers whose members other than h stay has at most h more or less.
LEMMA CountMoves ==
  ASSUME NEW S \in SUBSET Handlers, NEW T \in SUBSET Handlers, NEW h \in Handlers,
         \A g \in Handlers \ {h} : g \in S <=> g \in T
  PROVE  /\ (h \in S <=> h \in T) => Cardinality(T) = Cardinality(S)
         /\ h \notin S /\ h \in T => Cardinality(T) = Cardinality(S) + 1
         /\ h \in S /\ h \notin T => Cardinality(S) = Cardinality(T) + 1
<1>1. IsFiniteSet(S) /\ IsFiniteSet(T)
  BY CountIsNat
<1>2. CASE h \in S <=> h \in T
  <2>1. S = T
    BY <1>2
  <2> QED BY <2>1, <1>2
<1>3. CASE h \notin S /\ h \in T
  <2>1. T = S \cup {h}
    BY <1>3
  <2> QED BY <1>1, <1>3, <2>1, FS_AddElement
<1>4. CASE h \in S /\ h \notin T
  <2>1. S = T \cup {h}
    BY <1>4
  <2> QED BY <1>1, <1>4, <2>1, FS_AddElement
<1> QED
  BY <1>2, <1>3, <1>4

\* The books follow one handler that enters or leaves, takes a slot or gives it back.
LEMMA BooksFollow ==
  ASSUME RunnerInv, runner # "down", NEW h \in Handlers,
         \A g \in Handlers \ {h} : handler'[g] = handler[g],
         \/ handler'[h].pc \in Admitted /\ handler[h].pc \in Admitted /\ admitted' = admitted
         \/ handler'[h].pc \notin Admitted /\ handler[h].pc \notin Admitted /\ admitted' = admitted
         \/ handler'[h].pc \in Admitted /\ handler[h].pc \notin Admitted
              /\ admitted < Capacity /\ admitted' = admitted + 1
         \/ handler'[h].pc \notin Admitted /\ handler[h].pc \in Admitted
              /\ admitted' = admitted - 1,
         \/ (handler'[h].holds <=> handler[h].holds) /\ slots' = slots
         \/ handler'[h].holds /\ ~handler[h].holds /\ slots > 0 /\ slots' = slots - 1
         \/ ~handler'[h].holds /\ handler[h].holds /\ slots' = slots + 1
  PROVE  Books' /\ admitted' \in 0..Capacity /\ slots' \in 0..Slots
<1>0. /\ admitted \in 0..Capacity /\ slots \in 0..Slots
      /\ Capacity \in Nat /\ Slots \in Nat
  BY SandboxAssumption DEF RunnerInv, RunnerTypeOK, Capacity
<1>1. PICK a \in Nat, b \in Nat : /\ a = Cardinality(AdmittedNow) /\ b = Cardinality(AdmittedNow')
  BY CountIsNat DEF AdmittedNow
<1>2. PICK m \in Nat, n \in Nat : /\ m = Cardinality(HoldingNow) /\ n = Cardinality(HoldingNow')
  BY CountIsNat DEF HoldingNow
<1>3. admitted = a /\ slots + m = Slots
  BY <1>1, <1>2 DEF RunnerInv, Books
<1>4. admitted' = b /\ admitted' \in 0..Capacity
  <2>1. /\ AdmittedNow \in SUBSET Handlers /\ AdmittedNow' \in SUBSET Handlers
        /\ \A g \in Handlers \ {h} : g \in AdmittedNow <=> g \in AdmittedNow'
        /\ h \in AdmittedNow <=> handler[h].pc \in Admitted
        /\ h \in AdmittedNow' <=> handler'[h].pc \in Admitted
    BY DEF AdmittedNow
  <2>2. /\ (h \in AdmittedNow <=> h \in AdmittedNow') => b = a
        /\ h \notin AdmittedNow /\ h \in AdmittedNow' => b = a + 1
        /\ h \in AdmittedNow /\ h \notin AdmittedNow' => a = b + 1
    BY <1>1, <2>1, CountMoves
  <2> QED BY <1>0, <1>3, <2>1, <2>2
<1>5. slots' + n = Slots /\ slots' \in 0..Slots
  <2>1. /\ HoldingNow \in SUBSET Handlers /\ HoldingNow' \in SUBSET Handlers
        /\ \A g \in Handlers \ {h} : g \in HoldingNow <=> g \in HoldingNow'
        /\ h \in HoldingNow <=> handler[h].holds
        /\ h \in HoldingNow' <=> handler'[h].holds
    BY DEF HoldingNow
  <2>2. /\ (h \in HoldingNow <=> h \in HoldingNow') => n = m
        /\ h \notin HoldingNow /\ h \in HoldingNow' => n = m + 1
        /\ h \in HoldingNow /\ h \notin HoldingNow' => m = n + 1
    BY <1>2, <2>1, CountMoves
  <2> QED BY <1>0, <1>3, <2>1, <2>2
<1> QED
  BY <1>1, <1>2, <1>4, <1>5 DEF Books

-----------------------------------------------------------------------------
(* What a step does to the handlers                                        *)

LEMMA PcMoves ==
  ASSUME RunnerTypeOK, NEW h \in Handlers, NEW at \in HandlerPC,
         handler' = [handler EXCEPT ![h].pc = at]
  PROVE  /\ handler' \in [Handlers -> HandlerState]
         /\ handler'[h].pc = at /\ handler'[h].for = handler[h].for
         /\ handler'[h].holds = handler[h].holds
         /\ \A g \in Handlers \ {h} : handler'[g] = handler[g]
<1>1. handler \in [Handlers -> HandlerState]
  BY DEF RunnerTypeOK, HandlerState, HandlerPC
<1>2. handler[h] \in HandlerState
  BY <1>1
<1>3. handler'[h] = [handler[h] EXCEPT !.pc = at]
  BY <1>1
<1>4. /\ handler'[h] \in HandlerState
      /\ handler'[h].pc = at /\ handler'[h].for = handler[h].for
      /\ handler'[h].holds = handler[h].holds
  BY <1>2, <1>3 DEF HandlerState
<1> QED
  BY <1>1, <1>4

\* A handler that goes on answers nobody yet.
LEMMA PairingStays ==
  ASSUME Pairing, UNCHANGED client, \A h \in Handlers : handler'[h].for = handler[h].for
  PROVE  Pairing'
  BY DEF Pairing

LEMMA FactsStay ==
  ASSUME RunnerInv, NEW h \in Handlers, UNCHANGED runner,
         \A g \in Handlers \ {h} : handler'[g] = handler[g] /\ container'[g] = container[g],
         HandlerFacts(h)'
  PROVE  \A g \in Handlers : HandlerFacts(g)'
  BY DEF RunnerInv, HandlerFacts

LEMMA RepeatedIsClient ==
  ASSUME RunnerTypeOK, NEW c \in Clients
  PROVE  Repeated(c) \in ClientState /\ Repeated(c).pc # "wait"
<1>1. client[c] \in ClientState /\ Retries \in Nat
  BY SandboxAssumption DEF RunnerTypeOK, ClientState
<1>2. client[c].tries \in 0..Retries
  BY <1>1 DEF ClientState
<1>3. CASE client[c].tries < Retries
  <2>1. Repeated(c) = [client[c] EXCEPT !.pc = "post", !.tries = client[c].tries + 1]
    BY <1>3 DEF Repeated
  <2>2. client[c].tries + 1 \in 0..Retries
    BY <1>1, <1>2, <1>3
  <2> QED BY <1>1, <2>1, <2>2 DEF ClientState
<1>4. CASE ~(client[c].tries < Retries)
  BY <1>1, <1>4 DEF Repeated, NoClient, ClientState
<1> QED
  BY <1>3, <1>4

\* The handler is gone, and whoever waited for it has an answer.
LEMMA HandlerEnds ==
  ASSUME RunnerTypeOK, Pairing, NEW h \in Handlers, NEW code,
         handler' = [handler EXCEPT ![h] = NoHandler], client' = Answered(h, code)
  PROVE  /\ client' \in [Clients -> ClientState] /\ Pairing'
         /\ handler' \in [Handlers -> HandlerState] /\ handler'[h] = NoHandler
         /\ \A g \in Handlers \ {h} : handler'[g] = handler[g]
<1>0. /\ handler \in [Handlers -> HandlerState] /\ client \in [Clients -> ClientState]
  BY DEF RunnerTypeOK, HandlerState, HandlerPC, ClientState
<1>1. NoHandler \in HandlerState /\ NoHandler.for = Nobody
  BY DEF NoHandler, HandlerState, HandlerPC
<1>2. /\ handler' \in [Handlers -> HandlerState] /\ handler'[h] = NoHandler
      /\ \A g \in Handlers \ {h} : handler'[g] = handler[g]
  BY <1>0, <1>1
<1>3. CASE handler[h].for = Nobody
  <2>1. UNCHANGED client
    BY <1>3 DEF Answered
  <2>2. \A g \in Handlers : handler'[g].for = handler[g].for
    BY <1>1, <1>2, <1>3
  <2> QED BY <1>0, <1>2, <2>1, <2>2, PairingStays
<1>4. CASE handler[h].for # Nobody
  <2>1. PICK c \in Clients : c = handler[h].for
    BY <1>0, <1>4 DEF HandlerState
  <2>2. PICK new \in ClientState : client' = [client EXCEPT ![c] = new] /\ new.pc # "wait"
    <3>1. client' = [client EXCEPT ![c] = IF code = 503 THEN Repeated(c) ELSE NoClient]
      BY <1>4, <2>1 DEF Answered
    <3>2. NoClient \in ClientState /\ NoClient.pc # "wait"
      BY SandboxAssumption DEF NoClient, ClientState
    <3>3. Repeated(c) \in ClientState /\ Repeated(c).pc # "wait"
      BY RepeatedIsClient
    <3>4. CASE code = 503
      BY <3>1, <3>3, <3>4
    <3>5. CASE code # 503
      BY <3>1, <3>2, <3>5
    <3> QED BY <3>4, <3>5
  <2>3. client' \in [Clients -> ClientState]
    BY <1>0, <2>2
  <2>4. /\ client'[c].pc # "wait" /\ \A d \in Clients \ {c} : client'[d] = client[d]
    BY <1>0, <2>2
  <2>5. \A g \in Handlers : handler'[g].for = IF g = h THEN Nobody ELSE handler[g].for
    BY <1>1, <1>2
  <2>6. \A g, k \in Handlers :
          handler'[g].for = handler'[k].for /\ handler'[g].for # Nobody => g = k
    BY <2>5 DEF Pairing
  <2>7. \A g \in Handlers : handler'[g].for # c
    BY <1>4, <2>1, <2>5 DEF Pairing
  <2>8. ASSUME NEW d \in Clients \ {c}
        PROVE  client'[d].pc = "wait" <=> \E g \in Handlers : handler'[g].for = d
    <3>1. \A g \in Handlers : handler'[g].for = d <=> handler[g].for = d
      BY <2>1, <2>5, SandboxAssumption
    <3> QED BY <2>4, <3>1 DEF Pairing
  <2> QED BY <1>2, <2>3, <2>4, <2>6, <2>7, <2>8 DEF Pairing
<1> QED
  BY <1>3, <1>4

LEMMA InitRunnerInv == RunnerInit => RunnerInv
<1> SUFFICES ASSUME RunnerInit PROVE RunnerInv
  OBVIOUS
<1>1. /\ \A h \in Handlers : handler[h] = NoHandler /\ container[h] = "none"
      /\ NoHandler.pc = "none" /\ NoHandler.for = Nobody /\ NoHandler.holds = FALSE
      /\ Nobody \notin Clients
  BY SandboxAssumption DEF RunnerInit, NoHandler
<1>2. RunnerTypeOK
  BY SandboxAssumption DEF RunnerInit, RunnerTypeOK, NoHandler, NoClient, Capacity
<1>3. AdmittedNow = {} /\ HoldingNow = {}
  BY <1>1 DEF AdmittedNow, HoldingNow, Admitted, Started
<1>4. Cardinality(AdmittedNow) = 0 /\ Cardinality(HoldingNow) = 0
  BY <1>3, FS_EmptySet, Zenon
<1>5. Books
  BY <1>4, SandboxAssumption DEF RunnerInit, Books
<1>6. \A h \in Handlers : HandlerFacts(h)
  BY <1>1 DEF RunnerInit, HandlerFacts
<1>7. Pairing
  BY <1>1 DEF RunnerInit, Pairing, NoClient
<1>8. NoTrash
  BY DEF RunnerInit, NoTrash
<1> QED
  BY <1>2, <1>5, <1>6, <1>7, <1>8 DEF RunnerInv

\* A handler that goes from one place in the code to another, holding the slot
\* it held, and stays on its side of the gate.
LEMMA HandlerGoes ==
  ASSUME RunnerInv, NEW h \in Handlers, NEW at \in HandlerPC, handler[h].pc # "none", at # "none",
         handler' = [handler EXCEPT ![h].pc = at],
         handler[h].pc \in Admitted <=> at \in Admitted,
         handler[h].holds => at \notin {"gate", "slot"},
         at \in {"gate", "slot", "start", "leave"} => container'[h] = "none",
         container' \in [Handlers -> {"none", "running", "exited"}],
         \A g \in Handlers \ {h} : container'[g] = container[g],
         UNCHANGED <<runner, admitted, slots, client, calls, stops, crashes>>,
         leftover' \in Nat, faults' \in Nat, NoTrash'
  PROVE  RunnerInv'
<1>0. RunnerTypeOK /\ Pairing /\ runner # "down"
  BY DEF RunnerInv, HandlerFacts
<1>1. /\ handler' \in [Handlers -> HandlerState]
      /\ handler'[h].pc = at /\ handler'[h].for = handler[h].for
      /\ handler'[h].holds = handler[h].holds
      /\ \A g \in Handlers \ {h} : handler'[g] = handler[g]
  BY <1>0, PcMoves
<1>2. Books' /\ admitted' \in 0..Capacity /\ slots' \in 0..Slots
  BY <1>0, <1>1, BooksFollow
<1>3. RunnerTypeOK'
  BY <1>0, <1>1, <1>2 DEF RunnerTypeOK, HandlerState, HandlerPC
<1>4. HandlerFacts(h)'
  BY <1>0, <1>1 DEF HandlerFacts
<1>5. \A g \in Handlers : HandlerFacts(g)'
  BY <1>1, <1>4, FactsStay
<1>6. Pairing'
  BY <1>0, <1>1, PairingStays
<1> QED
  BY <1>0, <1>2, <1>3, <1>5, <1>6 DEF RunnerInv

HandlerDone(h) == handler' = [handler EXCEPT ![h] = NoHandler]

\* A handler that is done: the gate and the semaphore get back what it had.
LEMMA HandlerLeaves ==
  ASSUME RunnerInv, NEW h \in Handlers, NEW code, handler[h].pc \in {"gate", "leave"},
         HandlerDone(h), client' = Answered(h, code),
         \/ handler[h].pc = "leave" /\ admitted' = admitted - 1
         \/ handler[h].pc = "gate" /\ admitted' = admitted,
         \/ handler[h].holds /\ slots' = slots + 1
         \/ ~handler[h].holds /\ slots' = slots,
         UNCHANGED <<runner, container, leftover, calls, faults, stops, crashes>>
  PROVE  RunnerInv'
<1>0. RunnerTypeOK /\ Pairing /\ runner # "down" /\ HandlerFacts(h)
  BY DEF RunnerInv, HandlerFacts
<1>1. /\ client' \in [Clients -> ClientState] /\ Pairing'
      /\ handler' \in [Handlers -> HandlerState] /\ handler'[h] = NoHandler
      /\ \A g \in Handlers \ {h} : handler'[g] = handler[g]
  BY <1>0, HandlerEnds DEF HandlerDone
<1>2. /\ handler'[h].pc = "none" /\ ~handler'[h].holds
      /\ handler'[h].pc \notin Admitted
      /\ handler[h].pc = "leave" => handler[h].pc \in Admitted
      /\ handler[h].pc = "gate" => handler[h].pc \notin Admitted
  BY <1>1 DEF NoHandler, Admitted, Started
<1>3. Books' /\ admitted' \in 0..Capacity /\ slots' \in 0..Slots
  BY <1>0, <1>1, <1>2, BooksFollow
<1>4. RunnerTypeOK'
  BY <1>0, <1>1, <1>3 DEF RunnerTypeOK, HandlerState, HandlerPC, ClientState
<1>5. HandlerFacts(h)'
  BY <1>0, <1>1, <1>2 DEF HandlerFacts
<1>6. \A g \in Handlers : HandlerFacts(g)'
  BY <1>1, <1>5, FactsStay
<1>7. NoTrash'
  BY DEF RunnerInv, NoTrash
<1> QED
  BY <1>0, <1>1, <1>3, <1>4, <1>6, <1>7 DEF RunnerInv

\* A step of the clients alone, none of which starts or stops to wait.
LEMMA ClientsOnly ==
  ASSUME RunnerInv, UNCHANGED <<server, faults, stops, crashes>>, calls' \in Nat,
         client' \in [Clients -> ClientState],
         \A c \in Clients : client'[c].pc = "wait" <=> client[c].pc = "wait"
  PROVE  RunnerInv'
<1> USE DEF server
<1>1. RunnerTypeOK'
  BY DEF RunnerInv, RunnerTypeOK, ClientState
<1>2. \A h \in Handlers : HandlerFacts(h)'
  BY DEF RunnerInv, HandlerFacts
<1>3. runner' # "down" => Books'
  BY DEF RunnerInv, Books, AdmittedNow, HoldingNow
<1>4. Pairing' /\ NoTrash'
  BY DEF RunnerInv, Pairing, NoTrash
<1> QED
  BY <1>1, <1>2, <1>3, <1>4 DEF RunnerInv

LEMMA PostKeepsInv ==
  ASSUME RunnerInv, NEW c \in Clients, Post(c)
  PROVE  RunnerInv'
<1>0. /\ RunnerTypeOK /\ Pairing /\ handler \in [Handlers -> HandlerState]
      /\ client \in [Clients -> ClientState] /\ c # Nobody
  BY SandboxAssumption DEF RunnerInv, RunnerTypeOK, HandlerState, HandlerPC, ClientState
<1>1. PICK h \in Handlers : /\ handler[h].pc = "none"
                            /\ handler' = [handler EXCEPT ![h] = [NoHandler EXCEPT !.pc = "gate",
                                                                                 !.for = c]]
  BY DEF Post, FreeHandlers
<1>2. /\ handler[h] = NoHandler /\ container[h] = "none" /\ runner = "up"
  BY <1>1 DEF Post, RunnerInv, HandlerFacts
<1>3. /\ handler' \in [Handlers -> HandlerState]
      /\ handler'[h].pc = "gate" /\ handler'[h].for = c /\ ~handler'[h].holds
      /\ \A g \in Handlers \ {h} : handler'[g] = handler[g]
  BY <1>0, <1>1 DEF NoHandler, HandlerState, HandlerPC
<1>4. /\ client' = [client EXCEPT ![c].pc = "wait"] /\ client[c].pc = "post"
      /\ UNCHANGED <<runner, admitted, slots, container, leftover, bounds>>
  BY DEF Post
<1>5. /\ client' \in [Clients -> ClientState] /\ client'[c].pc = "wait"
      /\ \A d \in Clients \ {c} : client'[d] = client[d]
  BY <1>0, <1>4 DEF ClientState
<1>6. Books' /\ admitted' \in 0..Capacity /\ slots' \in 0..Slots
  BY <1>1, <1>2, <1>3, <1>4, BooksFollow DEF Admitted, Started, NoHandler
<1>7. RunnerTypeOK'
  BY <1>0, <1>3, <1>4, <1>5, <1>6 DEF RunnerTypeOK, HandlerState, HandlerPC, ClientState, bounds
<1>8. \A g \in Handlers : HandlerFacts(g)'
  <2>1. HandlerFacts(h)'
    BY <1>2, <1>3, <1>4 DEF HandlerFacts
  <2> QED BY <1>3, <1>4, <2>1, FactsStay
<1>9. Pairing'
  <2>1. \A g \in Handlers : handler[g].for # c
    BY <1>4 DEF RunnerInv, Pairing
  <2>2. \A g, k \in Handlers :
          handler'[g].for = handler'[k].for /\ handler'[g].for # Nobody => g = k
    BY <1>3, <2>1 DEF RunnerInv, Pairing
  <2>3. handler[h].for = Nobody
    BY <1>2 DEF NoHandler
  <2>4. ASSUME NEW d \in Clients
        PROVE  client'[d].pc = "wait" <=> \E g \in Handlers : handler'[g].for = d
    <3>1. CASE d = c
      BY <1>3, <1>5, <3>1
    <3>2. CASE d # c
      <4>1. \A g \in Handlers : handler'[g].for = d <=> handler[g].for = d
        BY <1>3, <2>3, <3>2, SandboxAssumption
      <4> QED BY <1>5, <3>2, <4>1 DEF RunnerInv, Pairing
    <3> QED BY <3>1, <3>2
  <2> QED BY <2>2, <2>4 DEF Pairing
<1>10. NoTrash'
  BY <1>4 DEF RunnerInv, NoTrash, bounds
<1> QED
  BY <1>6, <1>7, <1>8, <1>9, <1>10 DEF RunnerInv

\* The connection breaks: the handler goes on for nobody.
LEMMA AbandonKeepsInv ==
  ASSUME RunnerInv, NEW c \in Clients, NEW next \in ClientState, next.pc # "wait",
         Abandon(c, next)
  PROVE  RunnerInv'
<1>0. /\ handler \in [Handlers -> HandlerState] /\ client \in [Clients -> ClientState]
      /\ c # Nobody /\ RunnerTypeOK
  BY SandboxAssumption DEF RunnerInv, RunnerTypeOK, HandlerState, HandlerPC, ClientState
<1>1. /\ client' = [client EXCEPT ![c] = next]
      /\ UNCHANGED <<runner, admitted, slots, container, leftover, bounds>>
  BY DEF Abandon
<1>2. /\ client' \in [Clients -> ClientState] /\ client'[c].pc # "wait"
      /\ \A d \in Clients \ {c} : client'[d] = client[d]
  BY <1>0, <1>1
<1>3. ASSUME NEW h \in Handlers
      PROVE  /\ handler'[h] \in HandlerState
             /\ handler'[h].pc = handler[h].pc /\ handler'[h].holds = handler[h].holds
             /\ handler'[h].for = IF handler[h].for = c THEN Nobody ELSE handler[h].for
             /\ handler[h].for # c => handler'[h] = handler[h]
  BY <1>0 DEF Abandon, HandlerState
<1>4. handler' \in [Handlers -> HandlerState]
  BY <1>3 DEF Abandon
<1>5. RunnerTypeOK'
  BY <1>0, <1>1, <1>2, <1>4 DEF RunnerTypeOK, HandlerState, HandlerPC, ClientState, bounds
<1>6. \A h \in Handlers : HandlerFacts(h)'
  <2> SUFFICES ASSUME NEW h \in Handlers PROVE HandlerFacts(h)'
    OBVIOUS
  <2>1. handler[h].pc = "none" => handler'[h] = handler[h]
    BY <1>0, <1>3 DEF RunnerInv, HandlerFacts, NoHandler
  <2> QED BY <1>1, <1>3, <2>1 DEF RunnerInv, HandlerFacts
<1>7. runner' # "down" => Books'
  <2>1. AdmittedNow' = AdmittedNow /\ HoldingNow' = HoldingNow
    BY <1>3 DEF AdmittedNow, HoldingNow
  <2> QED BY <1>1, <2>1 DEF RunnerInv, Books
<1>8. Pairing'
  <2>1. \A g, k \in Handlers :
          handler'[g].for = handler'[k].for /\ handler'[g].for # Nobody => g = k
    BY <1>3 DEF RunnerInv, Pairing
  <2>2. ASSUME NEW d \in Clients
        PROVE  client'[d].pc = "wait" <=> \E g \in Handlers : handler'[g].for = d
    <3>1. CASE d = c
      BY <1>0, <1>2, <1>3, <3>1
    <3>2. CASE d # c
      <4>1. \A g \in Handlers : handler'[g].for = d <=> handler[g].for = d
        BY <1>3, <3>2, SandboxAssumption
      <4> QED BY <1>2, <3>2, <4>1 DEF RunnerInv, Pairing
    <3> QED BY <3>1, <3>2
  <2> QED BY <2>1, <2>2 DEF Pairing
<1>9. NoTrash'
  BY <1>1 DEF RunnerInv, NoTrash, bounds
<1> QED
  BY <1>5, <1>6, <1>7, <1>8, <1>9 DEF RunnerInv

\* The process dies, and nothing of it is left but its containers.
LEMMA ProcessEndsKeepsInv ==
  ASSUME RunnerInv, ProcessEnds, crashes' \in Nat
  PROVE  RunnerInv'
<1>0. RunnerTypeOK
  BY DEF RunnerInv
<1>1. /\ runner' = "down"
      /\ container' = [h \in Handlers |-> "none"]
      /\ handler' = [h \in Handlers |-> NoHandler]
      /\ UNCHANGED <<admitted, slots, calls, faults, stops>>
  BY <1>0 DEF ProcessEnds, RunnerTypeOK
<1>2. leftover' \in Nat
  <2>1. Cardinality({h \in Handlers : container[h] # "none"}) \in Nat
    BY CountIsNat
  <2> QED BY <1>0, <2>1 DEF ProcessEnds, RunnerTypeOK
<1>3. /\ NoHandler \in HandlerState /\ NoHandler.pc = "none" /\ NoHandler.for = Nobody
      /\ ~NoHandler.holds
  BY DEF NoHandler, HandlerState, HandlerPC
<1>4. client' \in [Clients -> ClientState] /\ \A c \in Clients : client'[c].pc # "wait"
  <2>1. client \in [Clients -> ClientState]
    BY <1>0 DEF RunnerTypeOK, ClientState
  <2>2. \A c \in Clients : client'[c] = IF client[c].pc = "wait" THEN Repeated(c) ELSE client[c]
    BY DEF ProcessEnds
  <2>3. \A c \in Clients : Repeated(c) \in ClientState /\ Repeated(c).pc # "wait"
    BY <1>0, RepeatedIsClient
  <2>4. \A c \in Clients : client'[c] \in ClientState /\ client'[c].pc # "wait"
    BY <2>1, <2>2, <2>3
  <2> QED BY <2>4 DEF ProcessEnds
<1>5. RunnerTypeOK'
  BY <1>0, <1>1, <1>2, <1>3, <1>4 DEF RunnerTypeOK, HandlerState, HandlerPC, ClientState
<1>6. \A h \in Handlers : HandlerFacts(h)'
  BY <1>1, <1>3 DEF HandlerFacts
<1>7. Pairing'
  BY <1>1, <1>3, <1>4, SandboxAssumption DEF Pairing
<1>8. NoTrash'
  BY <1>1 DEF NoTrash
<1> QED
  BY <1>1, <1>5, <1>6, <1>7, <1>8 DEF RunnerInv

\* A new process starts with a gate and a semaphore nobody has passed.
LEMMA BootKeepsInv ==
  ASSUME RunnerInv, Boot
  PROVE  RunnerInv'
<1>0. RunnerTypeOK /\ runner = "down" /\ Slots \in Nat /\ Capacity \in Nat
  BY SandboxAssumption DEF RunnerInv, Boot, Capacity
<1>1. /\ runner' = "up" /\ admitted' = 0 /\ slots' = Slots
      /\ UNCHANGED <<handler, container, client, calls, stops, crashes>>
      /\ leftover' \in Nat /\ faults' \in Nat
      /\ leftover' > 0 => faults' > 0
  BY <1>0 DEF Boot, RunnerTypeOK
<1>2. \A h \in Handlers : handler[h].pc = "none" /\ ~handler[h].holds
  BY <1>0 DEF RunnerInv, HandlerFacts
<1>3. AdmittedNow' = {} /\ HoldingNow' = {}
  BY <1>1, <1>2 DEF AdmittedNow, HoldingNow, Admitted, Started
<1>4. Cardinality(AdmittedNow') = 0 /\ Cardinality(HoldingNow') = 0
  BY <1>3, FS_EmptySet, Zenon
<1>5. Books'
  BY <1>0, <1>1, <1>4 DEF Books
<1>6. RunnerTypeOK'
  BY <1>0, <1>1 DEF RunnerTypeOK
<1>7. (\A h \in Handlers : HandlerFacts(h)') /\ Pairing' /\ NoTrash'
  BY <1>1 DEF RunnerInv, HandlerFacts, Pairing, NoTrash
<1> QED
  BY <1>5, <1>6, <1>7 DEF RunnerInv

LEMMA StepRunnerInv == RunnerInv /\ [RunnerNext]_runnerVars => RunnerInv'
<1> SUFFICES ASSUME RunnerInv, [RunnerNext]_runnerVars PROVE RunnerInv'
  OBVIOUS
<1> USE DEF bounds
<1>0. /\ RunnerTypeOK /\ Pairing /\ NoTrash
      /\ handler \in [Handlers -> HandlerState] /\ client \in [Clients -> ClientState]
      /\ leftover \in Nat /\ faults \in Nat /\ faults + 1 \in Nat /\ calls \in Nat
      /\ leftover + 1 \in Nat /\ faults + 1 > 0
      /\ container \in [Handlers -> {"none", "running", "exited"}]
  BY DEF RunnerInv, RunnerTypeOK, HandlerState, HandlerPC, ClientState
<1>a. NoClient \in ClientState /\ NoClient.pc # "wait"
  BY SandboxAssumption DEF NoClient, ClientState
<1>1. ASSUME NEW c \in Clients, Call(c) \/ ClientStep(c) \/ Disconnect(c) PROVE RunnerInv'
  <2>1. CASE Call(c)
    <3>1. client' = [client EXCEPT ![c] = [NoClient EXCEPT !.pc = "post"]] /\ client[c].pc = "idle"
          /\ calls' = calls + 1 /\ UNCHANGED <<server, faults, stops, crashes>>
      BY <2>1 DEF Call
    <3>2. /\ [NoClient EXCEPT !.pc = "post"] \in ClientState
          /\ [NoClient EXCEPT !.pc = "post"].pc = "post"
      BY SandboxAssumption DEF NoClient, ClientState
    <3>3. /\ client' \in [Clients -> ClientState]
          /\ \A d \in Clients : client'[d].pc = "wait" <=> client[d].pc = "wait"
      BY <1>0, <3>1, <3>2
    <3> QED BY <1>0, <3>1, <3>3, ClientsOnly
  <2>2. CASE CannotPost(c)
    <3>1. client' = [client EXCEPT ![c] = Repeated(c)] /\ client[c].pc = "post"
          /\ UNCHANGED <<server, calls, faults, stops, crashes>>
      BY <2>2 DEF CannotPost
    <3>2. Repeated(c) \in ClientState /\ Repeated(c).pc # "wait"
      BY <1>0, RepeatedIsClient
    <3>3. /\ client' \in [Clients -> ClientState]
          /\ \A d \in Clients : client'[d].pc = "wait" <=> client[d].pc = "wait"
      BY <1>0, <3>1, <3>2
    <3> QED BY <1>0, <3>1, <3>3, ClientsOnly
  <2>3. CASE Post(c)
    BY <2>3, PostKeepsInv
  <2>4. CASE Disconnect(c)
    <3>1. Repeated(c) \in ClientState /\ Repeated(c).pc # "wait" /\ Abandon(c, Repeated(c))
      BY <1>0, <2>4, RepeatedIsClient DEF Disconnect
    <3> QED BY <3>1, AbandonKeepsInv
  <2>5. CASE NoAnswer(c)
    BY <1>a, <2>5, AbandonKeepsInv DEF NoAnswer
  <2> QED BY <1>1, <2>1, <2>2, <2>3, <2>4, <2>5 DEF ClientStep
<1>2. ASSUME NEW h \in Handlers, Handle(h) \/ Cancel(h) PROVE RunnerInv'
  <2>0. HandlerFacts(h) /\ container[h] \in {"none", "running", "exited"}
    BY <1>0 DEF RunnerInv
  <2>1. CASE Enter(h)
    <3>1. CASE admitted < Capacity
      <4>1. /\ admitted' = admitted + 1 /\ handler' = [handler EXCEPT ![h].pc = "slot"]
            /\ UNCHANGED <<client, runner, slots, container, leftover, bounds>>
            /\ handler[h].pc = "gate" /\ runner # "down"
        BY <2>0, <2>1, <3>1 DEF Enter, HandlerFacts
      <4>2. /\ handler' \in [Handlers -> HandlerState]
            /\ handler'[h].pc = "slot" /\ handler'[h].for = handler[h].for
            /\ handler'[h].holds = handler[h].holds
            /\ \A g \in Handlers \ {h} : handler'[g] = handler[g]
        BY <1>0, <4>1, PcMoves DEF HandlerPC, Admitted, Started
      <4>3. Books' /\ admitted' \in 0..Capacity /\ slots' \in 0..Slots
        BY <3>1, <4>1, <4>2, BooksFollow DEF Admitted, Started
      <4>4. RunnerTypeOK'
        BY <1>0, <4>1, <4>2, <4>3 DEF RunnerTypeOK, HandlerState, HandlerPC
      <4>5. HandlerFacts(h)'
        BY <2>0, <4>1, <4>2 DEF HandlerFacts
      <4>6. \A g \in Handlers : HandlerFacts(g)'
        BY <4>1, <4>2, <4>5, FactsStay
      <4>7. Pairing'
        BY <1>0, <4>1, <4>2, PairingStays
      <4>8. NoTrash'
        BY <1>0, <4>1 DEF NoTrash
      <4> QED BY <4>3, <4>4, <4>6, <4>7, <4>8 DEF RunnerInv
    <3>2. CASE ~(admitted < Capacity)
      BY <2>0, <2>1, <3>2, HandlerLeaves DEF Enter, HandlerFacts, HandlerDone
    <3> QED BY <3>1, <3>2
  <2>2. CASE Reject(h)
    <3>1. /\ HandlerDone(h) /\ client' = Answered(h, 422) /\ handler[h].pc = "gate"
          /\ UNCHANGED <<runner, admitted, slots, container, leftover, bounds>>
      BY <2>2 DEF Reject, HandlerDone
    <3> QED BY <2>0, <3>1, HandlerLeaves DEF HandlerFacts
  <2>3. CASE Leave(h)
    <3>1. HandlerDone(h)
      BY <2>3 DEF Leave, HandlerDone
    <3> QED BY <2>3, <3>1, HandlerLeaves DEF Leave
  <2>4. CASE Acquire(h)
    <3>1. /\ slots > 0 /\ slots' = slots - 1 /\ handler[h].pc = "slot"
          /\ handler' = [handler EXCEPT ![h].pc = "start", ![h].holds = TRUE]
          /\ UNCHANGED <<runner, admitted, container, leftover, client, bounds>>
          /\ ~handler[h].holds /\ container[h] = "none" /\ runner # "down"
      BY <2>0, <2>4 DEF Acquire, HandlerFacts
    <3>2. /\ handler' \in [Handlers -> HandlerState]
          /\ handler'[h].pc = "start" /\ handler'[h].for = handler[h].for /\ handler'[h].holds
          /\ \A g \in Handlers \ {h} : handler'[g] = handler[g]
      BY <1>0, <3>1 DEF HandlerState, HandlerPC, Admitted, Started
    <3>3. Books' /\ admitted' \in 0..Capacity /\ slots' \in 0..Slots
      BY <3>1, <3>2, BooksFollow DEF Admitted, Started
    <3>4. RunnerTypeOK'
      BY <1>0, <3>1, <3>2, <3>3 DEF RunnerTypeOK, HandlerState, HandlerPC
    <3>5. HandlerFacts(h)'
      BY <3>1, <3>2 DEF HandlerFacts
    <3>6. \A g \in Handlers : HandlerFacts(g)'
      BY <3>1, <3>2, <3>5, FactsStay
    <3>7. Pairing'
      BY <1>0, <3>1, <3>2, PairingStays
    <3>8. NoTrash'
      BY <1>0, <3>1 DEF NoTrash
    <3> QED BY <3>3, <3>4, <3>6, <3>7, <3>8 DEF RunnerInv
  <2>5. CASE RefuseRun(h) \/ Feed(h) \/ Inspect(h)
    <3>1. PICK at \in {"leave", "run", "remove"} :
            /\ handler' = [handler EXCEPT ![h].pc = at] /\ (at = "leave" => container[h] = "none")
            /\ UNCHANGED <<runner, admitted, slots, container, leftover, client, bounds>>
      BY <2>0, <2>5 DEF RefuseRun, Feed, Inspect, HandlerFacts
    <3>2. /\ handler[h].pc \in Admitted /\ handler[h].pc # "none"
          /\ at \in Admitted /\ at \in HandlerPC
      BY <2>5, <3>1 DEF RefuseRun, Feed, Inspect, Admitted, Started, HandlerPC
    <3>3. NoTrash'
      BY <1>0, <3>1 DEF NoTrash
    <3> QED BY <1>0, <3>1, <3>2, <3>3, HandlerGoes
  <2>7. CASE Cancel(h)
    <3>1. CASE handler[h].pc = "gate"
      <4>1. /\ HandlerDone(h) /\ client' = Answered(h, 500)
            /\ UNCHANGED <<runner, admitted, slots, container, leftover, bounds>>
        BY <2>7, <3>1 DEF Cancel, HandlerDone, Started
      <4> QED BY <2>0, <3>1, <4>1, HandlerLeaves DEF HandlerFacts
    <3>2. CASE handler[h].pc # "gate"
      <4>1. PICK at \in {"leave", "remove"} :
              /\ handler' = [handler EXCEPT ![h].pc = at]
              /\ (at = "leave" => container'[h] = "none")
              /\ \/ UNCHANGED <<container, leftover>>
                 \/ /\ container' = [container EXCEPT ![h] = "none"]
                    /\ leftover' \in {leftover, leftover + 1}
              /\ UNCHANGED <<runner, admitted, slots, client, bounds>>
        BY <1>0, <2>0, <2>7, <3>2 DEF Cancel, HandlerFacts
      <4>2. /\ handler[h].pc \in Admitted /\ handler[h].pc # "none"
            /\ at \in Admitted /\ at \in HandlerPC
        BY <2>7, <3>2, <4>1 DEF Cancel, Admitted, Started, HandlerPC
      <4>3. NoTrash' /\ leftover' \in Nat
        BY <1>0, <2>7, <4>1 DEF NoTrash, Cancel
      <4>4. /\ container' \in [Handlers -> {"none", "running", "exited"}]
            /\ \A g \in Handlers \ {h} : container'[g] = container[g]
        BY <1>0, <4>1
      <4> QED BY <1>0, <4>1, <4>2, <4>3, <4>4, HandlerGoes
    <3> QED BY <3>1, <3>2
  <2>6. CASE Start(h) \/ Hang(h) \/ ContainerExits(h) \/ HardLimit(h) \/ RemoveContainer(h)
    <3>1. PICK at \in {"leave", "feed", "stuck", "inspect"} :
            /\ handler' = [handler EXCEPT ![h].pc = at]
            /\ at = "leave" => container'[h] = "none"
            /\ UNCHANGED <<runner, admitted, slots, client, calls, stops, crashes>>
      BY <1>0, <2>0, <2>6 DEF Start, Hang, ContainerExits, HardLimit, RemoveContainer, HandlerFacts
    <3>2. /\ container' \in [Handlers -> {"none", "running", "exited"}]
          /\ \A g \in Handlers \ {h} : container'[g] = container[g]
      BY <1>0, <2>6 DEF Start, Hang, ContainerExits, HardLimit, RemoveContainer
    <3>3. \/ UNCHANGED <<leftover, faults>>
          \/ faults' = faults + 1 /\ leftover' \in {leftover, leftover + 1}
      BY <2>6 DEF Start, Hang, ContainerExits, HardLimit, RemoveContainer
    <3>4. /\ handler[h].pc \in Admitted /\ handler[h].pc # "none"
          /\ at \in Admitted /\ at \in HandlerPC
      BY <2>6, <3>1 DEF Start, Hang, ContainerExits, HardLimit, RemoveContainer, Admitted,
         Started, HandlerPC
    <3>5. NoTrash' /\ leftover' \in Nat /\ faults' \in Nat
      BY <1>0, <3>1, <3>3 DEF NoTrash
    <3> QED BY <1>0, <3>1, <3>2, <3>4, <3>5, HandlerGoes
  <2> QED BY <1>2, <2>1, <2>2, <2>3, <2>4, <2>5, <2>6, <2>7 DEF Handle
<1>3. CASE Shutdown
  <2>1. /\ UNCHANGED <<admitted, slots, handler, container, leftover, client>>
        /\ UNCHANGED <<calls, faults, crashes>>
        /\ runner # "down" /\ stops' \in Nat /\ runner' = "stopping"
    BY <1>0, <1>3 DEF Shutdown, RunnerTypeOK
  <2>2. RunnerTypeOK'
    BY <1>0, <2>1 DEF RunnerTypeOK
  <2>3. Books'
    BY <2>1 DEF RunnerInv, Books, AdmittedNow, HoldingNow
  <2>4. \A h \in Handlers : HandlerFacts(h)'
    BY <2>1 DEF RunnerInv, HandlerFacts
  <2>5. Pairing' /\ NoTrash'
    BY <1>0, <2>1 DEF Pairing, NoTrash
  <2> QED BY <2>2, <2>3, <2>4, <2>5 DEF RunnerInv
<1>4. CASE ShutDown \/ Crash
  <2>1. ProcessEnds /\ crashes' \in Nat
    BY <1>0, <1>4 DEF ShutDown, Crash, RunnerTypeOK
  <2> QED BY <2>1, ProcessEndsKeepsInv
<1>5. CASE Boot
  BY <1>5, BootKeepsInv
<1>6. CASE UNCHANGED runnerVars
  BY <1>0, <1>6, ClientsOnly DEF runnerVars
<1> QED
  BY <1>1, <1>2, <1>3, <1>4, <1>5, <1>6 DEF RunnerNext

LEMMA InvGivesOrder == RunnerInv => RunnerInOrder
<1> SUFFICES ASSUME RunnerInv PROVE RunnerInOrder
  OBVIOUS
<1>1. GateBalanced
  BY DEF RunnerInv, Books, AdmittedNow, HoldingNow, GateBalanced
<1>2. NoContainerOutlivesItsRun
  BY DEF RunnerInv, HandlerFacts, NoTrash, NoContainerOutlivesItsRun, RunnerTypeOK, Admitted,
     Started
<1>3. ASSUME NEW c \in Clients
      PROVE  Cardinality(ForClient(c)) = IF client[c].pc = "wait" THEN 1 ELSE 0
  <2>1. CASE client[c].pc = "wait"
    <3>1. PICK h \in Handlers : handler[h].for = c
      BY <2>1 DEF RunnerInv, Pairing
    <3>2. ForClient(c) = {h}
      BY <3>1, SandboxAssumption DEF RunnerInv, Pairing, ForClient
    <3>3. Cardinality(ForClient(c)) = 1
      BY <3>2, FS_Singleton
    <3> QED BY <2>1, <3>3
  <2>2. CASE client[c].pc # "wait"
    <3>1. ForClient(c) = {}
      BY <2>2 DEF RunnerInv, Pairing, ForClient
    <3>2. Cardinality(ForClient(c)) = 0
      BY <3>1, FS_EmptySet, Zenon
    <3> QED BY <2>2, <3>2
  <2> QED BY <2>1, <2>2
<1>4. OneHandlerPerClient
  BY <1>3 DEF OneHandlerPerClient
<1>5. RunnerTypeOK
  BY DEF RunnerInv
<1> QED
  BY <1>1, <1>2, <1>4, <1>5 DEF RunnerInOrder

\* The gate and the semaphore count exactly the requests that are there, whatever
\* ended the others; while the runner is up no container outlives its run unless a Docker
\* command failed, whatever a shutdown or a crash cut off before; a client that waits has
\* one handler, and nobody else's.
THEOREM RunnerKeepsOrder == RunnerSpec => []RunnerInOrder
<1>1. RunnerInv => RunnerInOrder
  BY InvGivesOrder
<1> QED
  BY <1>1, InitRunnerInv, StepRunnerInv, PTL DEF RunnerSpec

-----------------------------------------------------------------------------
(* Functions defined by induction                                          *)

\* A set of numbers with 0 and every successor up to N has all of them.
LEMMA UpTo ==
  ASSUME NEW N \in Nat, NEW S, 0 \in S, \A n \in 0 .. N - 1 : n \in S => n + 1 \in S
  PROVE  \A n \in 0 .. N : n \in S
<1> DEFINE T == {n \in 0 .. N : n \notin S}
<1> SUFFICES ASSUME T # {} PROVE FALSE
  OBVIOUS
<1>1. T \subseteq Nat
  OBVIOUS
<1>2. PICK x \in T : \A y \in T : ~ (<<y, x>> \in Below)
  BY <1>1, NoDescent, WFMin, Zenon
<1>3. x \in 0 .. N /\ x # 0 /\ x \notin S
  OBVIOUS
<1>4. x - 1 \in 0 .. N - 1 /\ <<x - 1, x>> \in Below
  BY <1>3 DEF Below
<1>5. x - 1 \in S
  BY <1>2, <1>4
<1> QED
  BY <1>3, <1>4, <1>5

Iteration(f, N, base, g) == f = [n \in 0 .. N |-> IF n = 0 THEN base ELSE g[<<n, f[n - 1]>>]]

\* Whatever a step makes of the number of the step and the value before, there is
\* a function that goes on by such steps.
LEMMA Iterates ==
  ASSUME NEW N \in Nat, NEW S, NEW base \in S, NEW g \in [(1 .. N) \X S -> S]
  PROVE  \E f \in [0 .. N -> S] : Iteration(f, N, base, g)
<1> DEFINE T == {k \in 0 .. N : \E f \in [0 .. k -> S] : Iteration(f, k, base, g)}
<1>1. 0 \in T
  <2>1. Iteration([n \in 0 .. 0 |-> base], 0, base, g)
    BY DEF Iteration
  <2>2. [n \in 0 .. 0 |-> base] \in [0 .. 0 -> S]
    OBVIOUS
  <2> QED
    BY <2>1, <2>2
<1>2. ASSUME NEW k \in 0 .. N - 1, k \in T
      PROVE  k + 1 \in T
  <2>1. PICK f \in [0 .. k -> S] : Iteration(f, k, base, g)
    BY <1>2
  <2> DEFINE h == [n \in 0 .. k + 1 |-> IF n = k + 1 THEN g[<<k + 1, f[k]>>] ELSE f[n]]
  <2>2. <<k + 1, f[k]>> \in (1 .. N) \X S
    BY <1>2
  <2>3. h \in [0 .. k + 1 -> S]
    BY <2>2
  <2>4. ASSUME NEW n \in 0 .. k + 1
        PROVE  h[n] = IF n = 0 THEN base ELSE g[<<n, h[n - 1]>>]
    <3>1. CASE n = k + 1
      <4>1. n # 0 /\ n - 1 = k /\ k \in 0 .. k + 1 /\ k # k + 1
        BY <3>1
      <4> QED
        BY <3>1, <4>1
    <3>2. CASE n \in 0 .. k
      BY <2>1, <3>2 DEF Iteration
    <3> QED
      BY <3>1, <3>2
  <2>5. Iteration(h, k + 1, base, g)
    <3> HIDE DEF h
    <3>1. h = [n \in 0 .. k + 1 |-> h[n]]
      BY <2>3
    <3> QED
      BY <2>4, <3>1 DEF Iteration
  <2> QED
    BY <2>3, <2>5
<1>3. \A k \in 0 .. N : k \in T
  <2> HIDE DEF T
  <2> QED
    BY <1>1, <1>2, UpTo
<1> QED
  BY <1>3

LEMMA IterationIs ==
  ASSUME NEW N \in Nat, NEW f, NEW base, NEW g, Iteration(f, N, base, g)
  PROVE  f[0] = base /\ \A n \in 1 .. N : f[n] = g[<<n, f[n - 1]>>]
<1>1. 0 \in 0 .. N /\ \A n \in 1 .. N : n \in 0 .. N /\ n # 0
  OBVIOUS
<1> QED
  BY <1>1, Zenon DEF Iteration

-----------------------------------------------------------------------------
(* Counting tests                                                          *)

Tallies == [collected : Nat, passed : Nat, failed : Nat, errors : Nat, skipped : Nat,
            failures : Nat]

\* As many failures are listed as there is room for.
AsListed(stack, c) ==
  c.failures = IF c.failed + c.errors <= MaxFailures THEN c.failed + c.errors
               ELSE IF stack = "go" /\ c.errors > MaxFailures THEN c.errors
               ELSE MaxFailures

\* What counting keeps true.
Sound(stack) ==
  {c \in Tallies : /\ stack # "python" => c.collected = c.passed + c.failed + c.skipped
                   /\ AsListed(stack, c)}

LEMMA PlusIs ==
  ASSUME NEW c \in Tallies, NEW fields
  PROVE  /\ Plus(c, fields) \in Tallies
         /\ Plus(c, fields).collected = IF "collected" \in fields THEN c.collected + 1 ELSE c.collected
         /\ Plus(c, fields).passed = IF "passed" \in fields THEN c.passed + 1 ELSE c.passed
         /\ Plus(c, fields).failed = IF "failed" \in fields THEN c.failed + 1 ELSE c.failed
         /\ Plus(c, fields).errors = IF "errors" \in fields THEN c.errors + 1 ELSE c.errors
         /\ Plus(c, fields).skipped = IF "skipped" \in fields THEN c.skipped + 1 ELSE c.skipped
         /\ Plus(c, fields).failures = IF "failures" \in fields THEN c.failures + 1 ELSE c.failures
<1> DEFINE Fields == {"collected", "passed", "failed", "errors", "skipped", "failures"}
           p == Plus(c, fields)
<1>1. p = [f \in Fields |-> IF f \in fields THEN c[f] + 1 ELSE c[f]]
  BY DEF Plus, Tallies
<1>2. /\ p.collected = IF "collected" \in fields THEN c.collected + 1 ELSE c.collected
      /\ p.passed = IF "passed" \in fields THEN c.passed + 1 ELSE c.passed
      /\ p.failed = IF "failed" \in fields THEN c.failed + 1 ELSE c.failed
      /\ p.errors = IF "errors" \in fields THEN c.errors + 1 ELSE c.errors
      /\ p.skipped = IF "skipped" \in fields THEN c.skipped + 1 ELSE c.skipped
      /\ p.failures = IF "failures" \in fields THEN c.failures + 1 ELSE c.failures
  BY <1>1
<1>3. /\ c.collected \in Nat /\ c.passed \in Nat /\ c.failed \in Nat
      /\ c.errors \in Nat /\ c.skipped \in Nat /\ c.failures \in Nat
  BY DEF Tallies
<1>4. p = [collected |-> p.collected, passed |-> p.passed, failed |-> p.failed,
           errors |-> p.errors, skipped |-> p.skipped, failures |-> p.failures]
  BY <1>1
<1> HIDE DEF p
<1>5. p \in Tallies
  BY <1>2, <1>3, <1>4 DEF Tallies
<1> QED
  BY <1>2, <1>5 DEF p

LEMMA PlusKeeps ==
  ASSUME NEW stack, NEW c \in Sound(stack), NEW fields,
         "failures" \in fields <=>
           /\ "failed" \in fields \/ "errors" \in fields
           /\ c.failures < MaxFailures \/ (stack = "go" /\ "errors" \in fields),
         stack = "go" /\ "errors" \in fields => c.failed = 0,
         ~("failed" \in fields /\ "errors" \in fields),
         stack # "python" =>
           \/ fields \cap {"collected", "passed", "failed", "skipped"} = {}
           \/ \E a \in {"passed", "failed", "skipped"} :
                fields \cap {"collected", "passed", "failed", "skipped"} = {"collected", a}
  PROVE  Plus(c, fields) \in Sound(stack)
<1>1. /\ c \in Tallies
      /\ c.collected \in Nat /\ c.passed \in Nat /\ c.failed \in Nat
      /\ c.errors \in Nat /\ c.skipped \in Nat /\ c.failures \in Nat
      /\ stack # "python" => c.collected = c.passed + c.failed + c.skipped
      /\ AsListed(stack, c) /\ MaxFailures \in Nat
  BY MaxFailuresAssumption DEF Sound, Tallies
<1> DEFINE p == Plus(c, fields)
<1>2. /\ p \in Tallies
      /\ p.collected = IF "collected" \in fields THEN c.collected + 1 ELSE c.collected
      /\ p.passed = IF "passed" \in fields THEN c.passed + 1 ELSE c.passed
      /\ p.failed = IF "failed" \in fields THEN c.failed + 1 ELSE c.failed
      /\ p.errors = IF "errors" \in fields THEN c.errors + 1 ELSE c.errors
      /\ p.skipped = IF "skipped" \in fields THEN c.skipped + 1 ELSE c.skipped
      /\ p.failures = IF "failures" \in fields THEN c.failures + 1 ELSE c.failures
  BY <1>1, PlusIs
<1> HIDE DEF p
<1>3. AsListed(stack, p)
  <2>1. CASE "failed" \notin fields /\ "errors" \notin fields
    BY <1>1, <1>2, <2>1 DEF AsListed
  <2>2. CASE "failed" \in fields
    BY <1>1, <1>2, <2>2 DEF AsListed
  <2>3. CASE "errors" \in fields
    BY <1>1, <1>2, <2>3 DEF AsListed
  <2> QED
    BY <2>1, <2>2, <2>3
<1>4. stack # "python" => p.collected = p.passed + p.failed + p.skipped
  <2> SUFFICES ASSUME stack # "python" PROVE p.collected = p.passed + p.failed + p.skipped
    OBVIOUS
  <2>1. CASE fields \cap {"collected", "passed", "failed", "skipped"} = {}
    <3>1. /\ "collected" \notin fields /\ "passed" \notin fields
          /\ "failed" \notin fields /\ "skipped" \notin fields
      BY <2>1
    <3> QED
      BY <1>1, <1>2, <3>1
  <2>2. ASSUME NEW a \in {"passed", "failed", "skipped"},
               fields \cap {"collected", "passed", "failed", "skipped"} = {"collected", a}
        PROVE  p.collected = p.passed + p.failed + p.skipped
    <3>1. /\ "collected" \in fields
          /\ "passed" \in fields <=> a = "passed"
          /\ "failed" \in fields <=> a = "failed"
          /\ "skipped" \in fields <=> a = "skipped"
      BY <2>2
    <3> QED
      BY <1>1, <1>2, <3>1
  <2> QED
    BY <2>1, <2>2
<1>5. p \in Sound(stack)
  BY <1>2, <1>3, <1>4 DEF Sound
<1> QED
  BY <1>5 DEF p

\* A failure that is counted, and listed if there is room.
LEMMA ListedKeeps ==
  ASSUME NEW stack, NEW c \in Sound(stack), NEW kind \in {"failed", "errors"}, NEW more,
         \/ stack = "python" /\ more = {}
         \/ stack \in {"typescript", "go"} /\ kind = "failed" /\ more = {"collected"}
  PROVE  Listed(c, more \cup {kind}) \in Sound(stack)
<1> DEFINE fields == IF c.failures < MaxFailures THEN (more \cup {kind}) \cup {"failures"}
                     ELSE more \cup {kind}
<1>1. /\ "failures" \in fields <=> c.failures < MaxFailures
      /\ "failed" \in fields <=> kind = "failed"
      /\ "errors" \in fields <=> kind = "errors"
      /\ stack # "python" =>
           fields \cap {"collected", "passed", "failed", "skipped"} = {"collected", "failed"}
  OBVIOUS
<1>2. Listed(c, more \cup {kind}) = Plus(c, fields)
  BY DEF Listed
<1> HIDE DEF fields
<1>3. Plus(c, fields) \in Sound(stack)
  BY <1>1, PlusKeeps
<1> QED
  BY <1>2, <1>3

LEMMA AddsKeeps ==
  ASSUME NEW stack \in Stacks, NEW c \in Sound(stack), NEW r \in ReportsOf(stack)
  PROVE  Adds(stack, c, r) \in Sound(stack)
<1>1. CASE stack = "python"
  <2>1. r \in PytestReports
    BY <1>1 DEF ReportsOf
  <2>2. /\ r.outcome \in {"skipped", "passed", "failed"}
        /\ r.when = "call" \/ r.when # "call"
    BY <2>1 DEF PytestReports
  <2>3. Adds(stack, c, r) = PytestAdds(c, r)
    BY <1>1 DEF Adds
  <2>4. CASE r.outcome = "skipped"
    <3>1. PytestAdds(c, r) = Plus(c, {"skipped"})
      BY <2>4 DEF PytestAdds
    <3> QED
      BY <1>1, <2>3, <3>1, PlusKeeps
  <2>5. CASE r.outcome = "passed"
    <3>1. PytestAdds(c, r) = Plus(c, {"passed"})
      BY <2>5 DEF PytestAdds
    <3> QED
      BY <1>1, <2>3, <3>1, PlusKeeps
  <2>6. CASE r.outcome = "failed" /\ r.when = "call"
    <3>1. PytestAdds(c, r) = Listed(c, {} \cup {"failed"})
      BY <2>6 DEF PytestAdds
    <3> QED
      BY <1>1, <2>3, <3>1, ListedKeeps
  <2>7. CASE r.outcome = "failed" /\ r.when # "call"
    <3>1. PytestAdds(c, r) = Listed(c, {} \cup {"errors"})
      BY <2>7 DEF PytestAdds
    <3> QED
      BY <1>1, <2>3, <3>1, ListedKeeps
  <2> QED
    BY <2>2, <2>4, <2>5, <2>6, <2>7
<1>2. ASSUME NEW a \in {"passed", "failed", "skipped"}, stack # "python"
      PROVE  JunitAdds(c, a) \in Sound(stack)
  <2>1. CASE a = "failed"
    <3>1. JunitAdds(c, a) = Listed(c, {"collected"} \cup {"failed"})
      BY <2>1 DEF JunitAdds
    <3> QED
      BY <1>2, <3>1, ListedKeeps DEF Stacks
  <2>2. CASE a # "failed"
    <3>1. JunitAdds(c, a) = Plus(c, {"collected", a})
      BY <2>2 DEF JunitAdds
    <3>2. {"collected", a} \cap {"collected", "passed", "failed", "skipped"} = {"collected", a}
      OBVIOUS
    <3> QED
      BY <1>2, <2>2, <3>1, <3>2, PlusKeeps
  <2> QED
    BY <2>1, <2>2
<1>3. CASE stack = "typescript"
  <2>1. r \in {"passed", "failed", "skipped"} /\ Adds(stack, c, r) = JunitAdds(c, r)
    BY <1>3 DEF ReportsOf, JunitCases, Adds
  <2> QED
    BY <1>2, <1>3, <2>1
<1>4. CASE stack = "go"
  <2>1. Adds(stack, c, r) = GoAdds(c, r)
    BY <1>4 DEF Adds
  <2>2. r.action \in {"passed", "failed", "skipped"}
    BY <1>4 DEF ReportsOf, GoEvents
  <2>3. CASE r.test
    BY <1>2, <1>4, <2>1, <2>2, <2>3 DEF GoAdds
  <2>4. CASE ~r.test /\ r.action = "failed" /\ c.collected = 0
    <3>1. GoAdds(c, r) = Plus(c, {"errors", "failures"})
      BY <2>4 DEF GoAdds
    <3>2. {"errors", "failures"} \cap {"collected", "passed", "failed", "skipped"} = {}
      OBVIOUS
    <3>3. c.failed = 0
      BY <1>4, <2>4 DEF Sound, Tallies
    <3> QED
      BY <1>4, <2>1, <3>1, <3>2, <3>3, PlusKeeps
  <2>5. CASE ~r.test /\ ~(r.action = "failed" /\ c.collected = 0)
    BY <2>1, <2>5 DEF GoAdds
  <2> QED
    BY <2>3, <2>4, <2>5
<1> QED
  BY <1>1, <1>3, <1>4 DEF Stacks

\* The counts of any number of reports.
LEMMA CountsAreSound ==
  ASSUME NEW stack \in Stacks, NEW N \in Nat, NEW reports \in [1 .. N -> ReportsOf(stack)]
  PROVE  Counts(stack, reports) \in Sound(stack)
<1> DEFINE S == Sound(stack)
           g == [x \in (1 .. N) \X S |-> Adds(stack, x[2], reports[x[1]])]
           Tally(f) == f = [n \in 0 .. Len(reports) |->
                              IF n = 0 THEN NoTests ELSE Adds(stack, f[n - 1], reports[n])]
<1>1. Len(reports) = N
  OBVIOUS
<1>2. NoTests \in S
  BY MaxFailuresAssumption DEF NoTests, Sound, Tallies, AsListed
<1>3. g \in [(1 .. N) \X S -> S]
  <2>1. ASSUME NEW x \in (1 .. N) \X S
        PROVE  Adds(stack, x[2], reports[x[1]]) \in S
    <3>1. x[2] \in S /\ reports[x[1]] \in ReportsOf(stack)
      OBVIOUS
    <3> QED
      BY <3>1, AddsKeeps
  <2> QED
    BY <2>1
<1>4. PICK f \in [0 .. N -> S] : Iteration(f, N, NoTests, g)
  <2> HIDE DEF S, g
  <2> QED
    BY <1>2, <1>3, Iterates
<1>5. Tally(f)
  <2>1. ASSUME NEW n \in 0 .. N
        PROVE  (IF n = 0 THEN NoTests ELSE g[<<n, f[n - 1]>>])
                 = IF n = 0 THEN NoTests ELSE Adds(stack, f[n - 1], reports[n])
    <3>1. CASE n # 0
      <4>1. <<n, f[n - 1]>> \in (1 .. N) \X S
        BY <3>1
      <4> QED
        BY <3>1, <4>1
    <3> QED
      BY <3>1
  <2> HIDE DEF g
  <2>2. f = [n \in 0 .. N |-> IF n = 0 THEN NoTests ELSE g[<<n, f[n - 1]>>]]
    BY <1>4 DEF Iteration
  <2> QED
    BY <1>1, <2>1, <2>2
<1> DEFINE after == CHOOSE h : Tally(h)
<1>6. Counts(stack, reports) = after[N]
  BY <1>1 DEF Counts
<1>7. Tally(after)
  <2> HIDE DEF Tally
  <2> QED
    BY <1>5
<1> HIDE DEF after
<1>8. \A n \in 0 .. N : after[n] = IF n = 0 THEN NoTests ELSE Adds(stack, after[n - 1], reports[n])
  BY <1>1, <1>7
<1> DEFINE T == {n \in 0 .. N : after[n] \in S}
<1>9. \A n \in 0 .. N : n \in T
  <2>1. 0 \in T
    BY <1>2, <1>8
  <2>2. ASSUME NEW n \in 0 .. N - 1, n \in T
        PROVE  n + 1 \in T
    <3>1. n + 1 \in 0 .. N /\ n + 1 # 0 /\ (n + 1) - 1 = n /\ n + 1 \in 1 .. N
      OBVIOUS
    <3>2. after[n + 1] = Adds(stack, after[n], reports[n + 1])
      BY <1>8, <3>1
    <3>3. reports[n + 1] \in ReportsOf(stack) /\ after[n] \in Sound(stack)
      BY <2>2, <3>1
    <3>4. after[n + 1] \in S
      BY <3>2, <3>3, AddsKeeps
    <3> QED
      BY <3>1, <3>4
  <2> HIDE DEF T
  <2> QED
    BY <2>1, <2>2, UpTo
<1> QED
  BY <1>6, <1>9

\* report.py, entry.py: for any number of reports, and any bound on them the runs choose.
LEMMA CountsAlwaysAddUp == CountsAddUp
<1> SUFFICES ASSUME NEW stack \in Stacks, NEW r \in SeqOf(ReportsOf(stack), ReportLength)
             PROVE  LET n == Counts(stack, r) IN
                    /\ stack # "python" => n.collected = n.passed + n.failed + n.skipped
                    /\ AsListed(stack, n)
  BY DEF CountsAddUp, AsListed
<1>1. PICK m \in 0 .. ReportLength : r \in [1 .. m -> ReportsOf(stack)]
  BY DEF SeqOf
<1>2. m \in Nat
  BY <1>1, SandboxAssumption
<1>3. Counts(stack, r) \in Sound(stack)
  BY <1>1, <1>2, CountsAreSound
<1> QED
  BY <1>3 DEF Sound

-----------------------------------------------------------------------------
(* Verdicts                                                                *)

FactsKnown(f) ==
  /\ f.stack \in Stacks /\ f.step \in Steps
  /\ f.stack = "python" => f.step # "missing"
  /\ f.stack # "python" => f.step # "exit_5"
  /\ f.counts \in Sound(f.stack)
  /\ f.step = "exit_0" => f.ran.failed = 0 /\ f.ran.errors = 0
  /\ f.archive \in {"ok", "too_large", "broken"} /\ f.limit \in {"none", "memory", "pids"}
  /\ f.report \in {"printed", "invalid", "garbled", "none"}
  /\ f.oomKilled \in BOOLEAN /\ f.overflow \in BOOLEAN /\ f.timedOut \in BOOLEAN

\* What is read of the reports is reports again.
LEMMA ReadIs ==
  ASSUME NEW stack \in Stacks, NEW m \in Nat, NEW r \in [1 .. m -> ReportsOf(stack)],
         NEW part \in Read(stack, r)
  PROVE  \E n \in Nat : part \in [1 .. n -> ReportsOf(stack)]
<1>1. r \in Seq(ReportsOf(stack)) /\ Len(r) = m
  OBVIOUS
<1>2. CASE part = <<>>
  <2>1. part \in [1 .. 0 -> ReportsOf(stack)]
    BY <1>2
  <2> QED
    BY <2>1
<1>3. CASE part = r
  BY <1>3
<1>4. ASSUME NEW l \in 1 .. m, part = SubSeq(r, l, m)
      PROVE  \E n \in Nat : part \in [1 .. n -> ReportsOf(stack)]
  <2>1. part \in Seq(ReportsOf(stack))
    BY <1>1, <1>4
  <2>2. Len(part) \in Nat /\ part \in [1 .. Len(part) -> ReportsOf(stack)]
    BY <2>1
  <2> QED
    BY <2>2
<1> QED
  BY <1>1, <1>2, <1>3, <1>4, Zenon DEF Read, Suffixes

LEMMA FactsAreKnown ==
  ASSUME NEW stack \in Stacks, NEW t \in TestFacts(stack, ReportLength), NEW s \in Surroundings
  PROVE  FactsKnown(Facts(t, s))
<1> DEFINE f == Facts(t, s)
<1>0. PICK r \in SeqOf(ReportsOf(stack), ReportLength) :
        t \in [stack : {stack}, step : StepsOf(stack), ran : {Counts(stack, r)},
              counts : {Counts(stack, part) : part \in Read(stack, r)}]
  BY Zenon DEF TestFacts
<1>1. /\ t.stack = stack /\ t.step \in StepsOf(stack)
      /\ DOMAIN t = {"stack", "step", "ran", "counts"}
      /\ \E part \in Read(stack, r) : t.counts = Counts(stack, part)
  <2> DEFINE C == {Counts(stack, part) : part \in Read(stack, r)}
             R == {Counts(stack, r)}
  <2>1. t \in [stack : {stack}, step : StepsOf(stack), ran : R, counts : C]
    BY <1>0
  <2> HIDE DEF C, R
  <2>2. /\ t.stack = stack /\ t.step \in StepsOf(stack) /\ t.counts \in C
        /\ DOMAIN t = {"stack", "step", "ran", "counts"}
    BY <2>1
  <2> QED
    BY <2>2, Zenon DEF C
<1>5. /\ t.step \in Steps
      /\ stack = "python" => t.step # "missing"
      /\ stack # "python" => t.step # "exit_5"
  BY <1>1 DEF StepsOf, Steps
<1>6. t.step = "exit_0" => t.ran.failed = 0 /\ t.ran.errors = 0
  <2>1. ExitsAsItRan(t)
    BY Zenon DEF TestFacts
  <2> QED
    BY <2>1 DEF ExitsAsItRan
<1>2. t.counts \in Sound(stack)
  <2>1. PICK part \in Read(stack, r) : t.counts = Counts(stack, part)
    BY <1>1
  <2>2. PICK m \in 0 .. ReportLength : r \in [1 .. m -> ReportsOf(stack)]
    BY <1>0 DEF SeqOf
  <2>3. m \in Nat
    BY <2>2, SandboxAssumption
  <2>4. PICK n \in Nat : part \in [1 .. n -> ReportsOf(stack)]
    BY <2>1, <2>2, <2>3, ReadIs
  <2> QED
    BY <2>1, <2>4, CountsAreSound
<1>3. /\ DOMAIN s = {"archive", "limit", "report", "exit", "oomKilled", "overflow", "timedOut"}
      /\ s.archive \in {"ok", "too_large", "broken"} /\ s.limit \in {"none", "memory", "pids"}
      /\ s.report \in {"printed", "invalid", "garbled", "none"}
      /\ s.oomKilled \in BOOLEAN /\ s.overflow \in BOOLEAN /\ s.timedOut \in BOOLEAN
  BY DEF Surroundings
<1>4. /\ f.stack = t.stack /\ f.step = t.step /\ f.ran = t.ran /\ f.counts = t.counts
      /\ f.archive = s.archive /\ f.limit = s.limit /\ f.report = s.report
      /\ f.oomKilled = s.oomKilled /\ f.overflow = s.overflow /\ f.timedOut = s.timedOut
  BY <1>1, <1>3 DEF Facts
<1> HIDE DEF f
<1>7. FactsKnown(f)
  BY <1>1, <1>2, <1>3, <1>4, <1>5, <1>6 DEF FactsKnown
<1> QED
  BY <1>7 DEF f

\* Of tests that were collected and neither failed nor broke, one passed or was skipped.
LEMMA SomethingRan ==
  ASSUME NEW p \in Nat, NEW k \in Nat, NEW b \in Nat, NEW e \in Nat, NEW n,
         n = p + b + k, b + e = 0, n # 0
  PROVE  p > 0 \/ k > 0
OBVIOUS

LEMMA PassIsEarned ==
  ASSUME NEW f, FactsKnown(f), EntryStatus(f) = "passed"
  PROVE  /\ f.archive = "ok" /\ f.limit = "none" /\ f.step = "exit_0"
         /\ f.ran.failed = 0 /\ f.ran.errors = 0
         /\ f.counts.passed > 0 \/ (f.stack # "python" /\ f.counts.skipped > 0)
<1>1. f.archive = "ok" /\ f.limit = "none" /\ TestStatus(f) = "passed"
  BY DEF FactsKnown, EntryStatus
<1>2. CASE f.stack = "python"
  <2>1. PythonVerdict(f.step, f.counts) = "passed"
    BY <1>1, <1>2 DEF TestStatus
  <2>2. f.step = "exit_0" /\ f.counts.passed > 0
    BY <2>1 DEF PythonVerdict, FactsKnown, Steps
  <2> QED
    BY <1>1, <2>2 DEF FactsKnown
<1>3. CASE f.stack # "python"
  <2> DEFINE c == f.counts
  <2>1. OtherVerdict(f.step, c) = "passed"
    BY <1>1, <1>3 DEF TestStatus
  <2>2. f.step = "exit_0" /\ c.failed + c.errors = 0 /\ c.collected # 0
    <3>1. f.step \in {"missing", "timed_out", "exit_0", "exit_1"}
      BY <1>3 DEF FactsKnown, Steps
    <3> QED
      BY <2>1, <3>1 DEF OtherVerdict
  <2>3. /\ c.passed \in Nat /\ c.skipped \in Nat /\ c.failed \in Nat /\ c.errors \in Nat
        /\ c.collected = c.passed + c.failed + c.skipped
    BY <1>3 DEF FactsKnown, Sound, Tallies
  <2>4. c.passed > 0 \/ c.skipped > 0
    BY <2>2, <2>3, SomethingRan
  <2> QED
    BY <1>1, <1>3, <2>2, <2>4 DEF FactsKnown
<1> QED
  BY <1>2, <1>3

\* The entry script says "error" of what the sandbox did wrong, and of nothing else.
LEMMA ErrorIsTheSandbox ==
  ASSUME NEW f, FactsKnown(f)
  PROVE  /\ EntryStatus(f) = "error" => SandboxFailed(f)
         /\ f.report = "printed" /\ SandboxFailed(f) /\ ~LimitReached(f) => EntryStatus(f) = "error"
<1>1. CASE f.archive = "broken"
  BY <1>1 DEF EntryStatus, SandboxFailed
<1>2. CASE f.archive = "too_large"
  BY <1>2 DEF EntryStatus, SandboxFailed
<1>3. CASE f.archive = "ok" /\ f.limit # "none"
  BY <1>3 DEF EntryStatus, LimitReached
<1>4. CASE f.archive = "ok" /\ f.limit = "none"
  <2>1. EntryStatus(f) = TestStatus(f)
    BY <1>4 DEF EntryStatus
  <2>2. CASE f.step = "missing"
    <3>1. TestStatus(f) = "error"
      BY <2>2 DEF TestStatus, OtherVerdict, FactsKnown
    <3> QED
      BY <1>4, <2>1, <2>2, <3>1 DEF SandboxFailed
  <2>3. CASE f.step # "missing"
    <3>1. PythonVerdict(f.step, f.counts) # "error"
      BY <2>3 DEF PythonVerdict
    <3>2. OtherVerdict(f.step, f.counts) # "error"
      BY <2>3 DEF OtherVerdict
    <3> QED
      BY <1>4, <2>1, <2>3, <3>1, <3>2 DEF TestStatus, SandboxFailed
  <2> QED
    BY <2>2, <2>3
<1> QED
  BY <1>1, <1>2, <1>3, <1>4 DEF FactsKnown

\* The order of the verdicts keeps what the report says.
LEMMA OrderedIs ==
  ASSUME NEW f, FactsKnown(f), NEW memoryKill \in BOOLEAN
  PROVE  /\ Ordered(f, memoryKill) = "passed" =>
              /\ ~f.timedOut /\ ~f.overflow /\ ~memoryKill
              /\ f.report = "printed" /\ EntryStatus(f) = "passed"
         /\ Ordered(f, memoryKill) = "error" => SandboxFailed(f)
         /\ SandboxFailed(f) /\ ~LimitReached(f) /\ ~memoryKill => Ordered(f, memoryKill) = "error"
<1>1. CASE f.timedOut
  BY <1>1 DEF Ordered, LimitReached
<1>2. CASE ~f.timedOut /\ (f.overflow \/ memoryKill)
  BY <1>2 DEF Ordered, LimitReached
<1>3. CASE ~f.timedOut /\ ~f.overflow /\ ~memoryKill
  <2>1. Ordered(f, memoryKill) = Report(f)
    BY <1>3 DEF Ordered
  <2>2. CASE f.report = "printed"
    BY <1>3, <2>1, <2>2, ErrorIsTheSandbox DEF Report
  <2>3. CASE f.report # "printed"
    BY <2>1, <2>3 DEF Report, SandboxFailed
  <2> QED
    BY <2>2, <2>3
<1> QED
  BY <1>1, <1>2, <1>3 DEF FactsKnown

\* models.py, backends.py: for any number of test reports.
LEMMA VerdictsAreAlwaysEarned == VerdictsAreEarned
<1> SUFFICES ASSUME NEW stack \in Stacks, NEW t \in TestFacts(stack, ReportLength),
                    NEW s \in Surroundings
             PROVE  LET f == Facts(t, s) IN
                    \A status \in StatusesOf(f) :
                      /\ status = "passed" => EarnedPass(f)
                      /\ status = "error" => SandboxFailed(f)
                      /\ SandboxFailed(f) /\ ~LimitReached(f) => status = "error"
  BY Zenon DEF VerdictsAreEarned
<1> DEFINE f == Facts(t, s)
<1>1. FactsKnown(f)
  BY FactsAreKnown
<1> HIDE DEF f
<1>2. ASSUME NEW memoryKill \in BOOLEAN, Ordered(f, memoryKill) = "passed", ~f.oomKilled
      PROVE  EarnedPass(f)
  <2>1. /\ ~f.timedOut /\ ~f.overflow
        /\ f.report = "printed" /\ EntryStatus(f) = "passed"
    BY <1>1, <1>2, OrderedIs
  <2>2. /\ f.archive = "ok" /\ f.limit = "none" /\ f.step = "exit_0"
        /\ f.ran.failed = 0 /\ f.ran.errors = 0
        /\ f.counts.passed > 0 \/ (f.stack # "python" /\ f.counts.skipped > 0)
    BY <1>1, <2>1, PassIsEarned
  <2> QED
    BY <1>2, <2>1, <2>2 DEF EarnedPass, LimitReached, SandboxFailed
<1> DEFINE memoryKill == IF f.oomKilled
                           THEN /\ f.report # "invalid"
                                /\ ~(f.report = "printed" /\ EntryStatus(f) = "timeout")
                           ELSE f.report \in {"garbled", "none"} /\ f.exit = 137
<1>4. DockerStatus(f) = Ordered(f, memoryKill) /\ memoryKill \in BOOLEAN
  BY DEF DockerStatus
<1>5. DockerStatus(f) = "passed" => EarnedPass(f)
  <2> SUFFICES ASSUME DockerStatus(f) = "passed" PROVE EarnedPass(f)
    OBVIOUS
  <2>1. ~memoryKill /\ f.report = "printed" /\ EntryStatus(f) = "passed"
    <3> HIDE DEF memoryKill
    <3> QED
      BY <1>1, <1>4, OrderedIs
  <2>2. ~f.oomKilled
    BY <2>1
  <2> HIDE DEF memoryKill
  <2> QED
    BY <1>2, <1>4, <2>2
<1>6. ~LimitReached(f) => ~memoryKill
  BY DEF LimitReached
<1> HIDE DEF memoryKill
<1>7. /\ DockerStatus(f) = "error" => SandboxFailed(f)
      /\ SandboxFailed(f) /\ ~LimitReached(f) => DockerStatus(f) = "error"
  BY <1>1, <1>4, <1>6, OrderedIs
<1>8. ASSUME OnThisMachine(f)
      PROVE  /\ LocalStatus(f) = "passed" => EarnedPass(f)
             /\ LocalStatus(f) = "error" => SandboxFailed(f)
             /\ SandboxFailed(f) /\ ~LimitReached(f) => LocalStatus(f) = "error"
  <2>1. ~f.oomKilled
    BY <1>8 DEF OnThisMachine
  <2> QED
    BY <1>1, <1>2, <2>1, OrderedIs DEF LocalStatus
<1>9. \A status \in StatusesOf(f) :
        status = DockerStatus(f) \/ (OnThisMachine(f) /\ status = LocalStatus(f))
  BY Zenon DEF StatusesOf
<1>10. \A status \in StatusesOf(f) :
         /\ status = "passed" => EarnedPass(f)
         /\ status = "error" => SandboxFailed(f)
         /\ SandboxFailed(f) /\ ~LimitReached(f) => status = "error"
  BY <1>5, <1>7, <1>8, <1>9
<1> QED
  BY <1>10 DEF f

-----------------------------------------------------------------------------
(* Checks                                                                  *)

\* What a tool takes of the time behind a point in it.
Timed(tool) == tool.missing \in BOOLEAN /\ tool.wants \in Nat /\ tool.held \in BOOLEAN

LEMMA EndIs ==
  ASSUME NEW tool, Timed(tool), NEW start \in Nat, NEW deadline \in Nat
  PROVE  /\ End(tool, start, deadline) \in Nat
         /\ start < deadline => End(tool, start, deadline) <= deadline + 10
         /\ start >= deadline => End(tool, start, deadline) <= start + 11
<1>0. tool.missing \in BOOLEAN /\ tool.wants \in Nat /\ tool.held \in BOOLEAN
  BY DEF Timed
<1> DEFINE allowed == TimeAllowed(start, deadline)
<1>1. /\ allowed \in Nat
      /\ start < deadline => allowed = deadline - start
      /\ start >= deadline => allowed = 1
  BY DEF TimeAllowed, MaxOf
<1>2. Killed(tool, start, deadline) \in BOOLEAN
  BY DEF Killed
<1> DEFINE used == IF Killed(tool, start, deadline) THEN allowed ELSE tool.wants
<1>3. ~tool.missing => used \in Nat /\ used <= allowed
  <2> HIDE DEF allowed
  <2>1. Killed(tool, start, deadline) <=> ~tool.missing /\ tool.wants > allowed
    BY DEF Killed, allowed
  <2> QED
    BY <1>0, <1>1, <2>1
<1>4. End(tool, start, deadline)
        = IF tool.missing THEN start ELSE start + used + (IF tool.held THEN 10 ELSE 0)
  BY DEF End
<1> HIDE DEF used, allowed
<1> QED
  BY <1>0, <1>1, <1>3, <1>4

LEMMA ChecksEndInTime == ChecksInTime
<1> DEFINE Tool == [missing : BOOLEAN, wants : Waits, held : BOOLEAN, code : {0}, listed : {0}]
<1> SUFFICES ASSUME NEW limit \in {50, 60}, NEW lint \in Tool, NEW tests \in Tool, NEW types \in Tool
             PROVE  LET run == Run("typescript", limit, TRUE, TRUE, lint, tests, types) IN
                    /\ run.ended <= Deadline(limit) + 21
                    /\ run.ended < limit + LocalGrace
                    /\ run.types # "none" => ~run.killed
  BY Zenon DEF ChecksInTime
<1> DEFINE deadline == Deadline(limit)
           linted == End(lint, 0, deadline)
           second == End(tests, linted, deadline)
           killed == Killed(tests, linted, deadline)
           typed == TypesAreChecked("typescript", TRUE, TRUE, killed, second, deadline)
           typeStep == Step(types, Killed(types, second, deadline))
           run == Run("typescript", limit, TRUE, TRUE, lint, tests, types)
<1>1. deadline \in Nat /\ deadline = limit - 20 /\ deadline > 0
  BY DEF Deadline, MaxOf
<1>2. \A tool \in Tool : Timed(tool)
  BY DEF Waits, Timed
<1>3. /\ run.ended = IF typed THEN End(types, second, deadline) ELSE second
      /\ run.types = IF typed THEN Typecheck(typeStep) ELSE "none"
      /\ run.killed = killed
  BY DEF Run
<1>4. typed => ~killed /\ second + 10 < deadline
  BY DEF TypesAreChecked
<1> HIDE DEF deadline, typed, killed, run, typeStep, Tool
<1>5. linted \in Nat /\ linted <= deadline + 10
  BY <1>1, <1>2, EndIs
<1> HIDE DEF linted
<1>6. second \in Nat /\ second <= deadline + 21
  <2>1. /\ second \in Nat
        /\ linted < deadline => second <= deadline + 10
        /\ linted >= deadline => second <= linted + 11
    BY <1>1, <1>2, <1>5, EndIs
  <2> HIDE DEF second
  <2> QED
    BY <1>1, <1>5, <2>1
<1> HIDE DEF second
<1>7. typed => /\ End(types, second, deadline) \in Nat
               /\ End(types, second, deadline) <= deadline + 10
  <2>1. typed => second < deadline
    BY <1>1, <1>4, <1>6
  <2> QED
    BY <1>1, <1>2, <1>6, <2>1, EndIs
<1>8. run.ended <= deadline + 21 /\ run.ended \in Nat
  BY <1>1, <1>3, <1>6, <1>7
<1>9. run.ended < limit + LocalGrace
  BY <1>1, <1>8 DEF LocalGrace
<1>10. run.types # "none" => ~run.killed
  BY <1>3, <1>4
<1> QED
  BY <1>8, <1>9, <1>10 DEF deadline, run

ToolKnown(tool) ==
  /\ tool.missing \in BOOLEAN /\ tool.code \in {0, 1, 2} /\ tool.listed \in {0, 1}

\* What the step of a tool shows of it.
LEMMA StepIs ==
  ASSUME NEW tool, ToolKnown(tool), NEW killed \in BOOLEAN, tool.missing => ~killed
  PROVE  LET step == Step(tool, killed) IN
         /\ step.killed = killed
         /\ step.code \in {0, 1, 2, NoCode} /\ step.listed \in {0, 1}
         /\ step.code # NoCode <=> ~tool.missing /\ ~killed
         /\ step.code # NoCode => step.code = tool.code
         /\ step.listed > 0 => ~tool.missing
         /\ step.listed = IF tool.missing THEN 0 ELSE tool.listed
BY DEF Step, ToolKnown, NoCode

LEMMA CheckIsEarned ==
  ASSUME NEW tool, ToolKnown(tool), NEW killed \in BOOLEAN, tool.missing => ~killed
  PROVE  LET step == Step(tool, killed) IN
         /\ Earned(Lint(step), tool, killed)
         /\ Earned(Typecheck(step), tool, killed)
         /\ Earned(Gofmt(step), tool, killed)
         /\ Gofmt(step) = "passed" => tool.listed = 0
<1> DEFINE step == Step(tool, killed)
<1>1. /\ step.killed = killed
      /\ step.code \in {0, 1, 2, NoCode} /\ step.listed \in {0, 1}
      /\ step.code # NoCode <=> ~tool.missing /\ ~killed
      /\ step.code # NoCode => step.code = tool.code
      /\ step.listed = IF tool.missing THEN 0 ELSE tool.listed
  BY StepIs
<1> HIDE DEF step
<1>2. NoCode \notin {0, 1, 2}
  BY DEF NoCode
<1>3. tool.missing \in BOOLEAN /\ tool.code \in {0, 1, 2} /\ tool.listed \in {0, 1}
  BY DEF ToolKnown
<1>4. Earned(Typecheck(step), tool, killed)
  BY <1>1, <1>2, <1>3 DEF Typecheck, Check, Earned, Verdicts
<1>5. Earned(Lint(step), tool, killed)
  BY <1>1, <1>2, <1>3 DEF Lint, Check, Earned, Verdicts
<1>6. /\ Earned(Gofmt(step), tool, killed)
      /\ Gofmt(step) = "passed" => tool.listed = 0
  BY <1>1, <1>2, <1>3 DEF Gofmt, Check, Earned, Verdicts
<1> QED
  BY <1>4, <1>5, <1>6 DEF step

LEMMA ChecksAreHonest == ChecksHonest
<1> SUFFICES ASSUME NEW stack \in {"python", "typescript", "go"}, NEW wanted \in BOOLEAN,
                    NEW targets \in BOOLEAN, NEW tool \in Tools(Waits)
             PROVE  LET linted == Run(stack, 50, wanted, targets, tool, Quick, Quick)
                        typed  == Run(stack, 50, wanted, targets, Quick, Quick, tool)
                        killed == Killed(tool, 0, Deadline(50))
                    IN /\ Earned(linted.lint, tool, killed)
                       /\ stack = "go" /\ linted.lint = "passed" => tool.listed = 0
                       /\ typed.types # "none" => wanted /\ Earned(typed.types, tool, killed)
  BY Zenon DEF ChecksHonest
<1> DEFINE deadline == Deadline(50)
           killed == Killed(tool, 0, deadline)
           linted == Run(stack, 50, wanted, targets, tool, Quick, Quick)
           typed == Run(stack, 50, wanted, targets, Quick, Quick, tool)
           checked == TypesAreChecked(stack, wanted, targets, FALSE, 0, deadline)
<1>1. ToolKnown(tool) /\ killed \in BOOLEAN /\ (tool.missing => ~killed)
  BY DEF Tools, ToolKnown, Killed
<1>2. deadline = 30
  BY DEF Deadline, MaxOf
<1>3. End(Quick, 0, deadline) = 0 /\ Killed(Quick, 0, deadline) = FALSE
  BY <1>2 DEF End, Killed, Quick, TimeAllowed, MaxOf
<1>4. linted.lint = IF stack = "go" THEN Gofmt(Step(tool, killed)) ELSE Lint(Step(tool, killed))
  BY DEF Run
<1>5. typed.types = IF checked THEN Typecheck(Step(tool, killed)) ELSE "none"
  BY <1>3 DEF Run
<1>6. checked => wanted
  BY DEF TypesAreChecked
<1> HIDE DEF killed, linted, typed, checked
<1>7. /\ Earned(linted.lint, tool, killed)
      /\ stack = "go" /\ linted.lint = "passed" => tool.listed = 0
      /\ typed.types # "none" => wanted /\ Earned(typed.types, tool, killed)
  BY <1>1, <1>4, <1>5, <1>6, CheckIsEarned
<1> QED
  BY <1>7 DEF killed, linted, typed, deadline

\* models.py, backends.py, entry.py: for any number of test reports and any length of the list
\* of failures, a status of "passed" was earned by what ran, "error" means that the sandbox
\* failed and is what its failures are called where no limit was reached, counts add up
\* with the failures listed, and checks are honest and in time.
THEOREM ReportsAreAlwaysEarned == RunnerSpec => []ReportsAreEarned
<1>1. ReportsAreEarned
  BY VerdictsAreAlwaysEarned, CountsAlwaysAddUp, ChecksEndInTime, ChecksAreHonest
     DEF ReportsAreEarned, ChecksAreSound
<1> QED
  BY <1>1, PTL
=============================================================================
