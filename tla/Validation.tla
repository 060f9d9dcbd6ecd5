---------------------------- MODULE Validation ----------------------------
(***************************************************************************)
(* The checks every generated file passes before it is kept, and the       *)
(* report on the files that were. A file is a record: its path as it was   *)
(* generated, that path's identity on a case-insensitive file system       *)
(* (key), whether the path is safe, who may write it (owner), what it      *)
(* counts as in a project (roles), its size, and what is wrong with its    *)
(* content, if anything is.                                                *)
(***************************************************************************)
EXTENDS Naturals, Sequences, SequencesExt

NoFile == "no file"

Keys(fs) == {f.key : f \in fs}
\* The bytes of files, each with the file it is in.
Bytes(fs) == UNION {{<<f, n>> : n \in 1..f.size} : f \in fs}
Sizes(fs) == Cardinality(Bytes(fs))

-----------------------------------------------------------------------------
(* Paths. A segment is a name as every system sees it, what Windows drops  *)
(* from its end, and whether characters no file name may hold are in it.   *)

Names      == {"app", "", ".", "..", ".git", ".GIT", "git~1", "nul"}
Segments   == [name : Names, tail : {"", ".", " "}, extension : BOOLEAN, odd : BOOLEAN]
Forbidden  == {"", ".", ".."}
GitNames   == {".git", "git~1"}
Reserved   == {"nul"}

Folded(name) == IF name = ".GIT" THEN ".git" ELSE name

Unsafe(s) ==
  \/ s.tail = "" /\ ~s.extension /\ s.name \in Forbidden
  \/ s.tail # ""
  \/ ~s.extension /\ Folded(s.name) \in GitNames
  \/ Folded(s.name) \in Reserved

MaxDepth == 8

\* normalize_path: strip drops blanks at the end of the last segment.
Stripped(segments) ==
  [i \in DOMAIN segments |->
     IF i = Len(segments) /\ segments[i].tail = " " THEN [segments[i] EXCEPT !.tail = ""]
     ELSE segments[i]]

Normalizes(segments) ==
  LET path == Stripped(segments) IN
  /\ Len(path) \in 1..MaxDepth
  /\ \A i \in DOMAIN path : ~path[i].odd /\ ~Unsafe(path[i])

\* What an archive's segment names on each system it may be extracted on.
Systems == {"linux", "macos", "windows"}
Seen(system, s) ==
  CASE system = "linux"   -> [name |-> s.name, bare |-> s.tail = "" /\ ~s.extension]
    [] system = "macos"   -> [name |-> Folded(s.name), bare |-> s.tail = "" /\ ~s.extension]
    [] system = "windows" -> [name |-> Folded(s.name), bare |-> ~s.extension]

Escapes(system, s) ==
  LET seen == Seen(system, s) IN
  \/ seen.bare /\ seen.name \in Forbidden \cup GitNames
  \/ system = "windows" /\ seen.name \in Reserved

-----------------------------------------------------------------------------
(* sanitize_files: one bundle of generated files                           *)

Issue(rule, file) == [rule |-> rule, file |-> file]

\* A later file takes the place of an earlier one with its key.
Placed(kept, f) ==
  IF f.key \in Keys(ToSet(kept))
  THEN [i \in DOMAIN kept |-> IF kept[i].key = f.key THEN f ELSE kept[i]]
  ELSE Append(kept, f)

Refused(s, issue)   == [s EXCEPT !.issues = @ \cup {issue}]
Truncated(s, issue) == [Refused(s, issue) EXCEPT !.stopped = TRUE]

\* The bytes of the bundle without the file that f replaces.
WithoutForgetting(s, f) == s.total
Without(s, f) == s.total - Sizes({g \in ToSet(s.kept) : g.key = f.key})

SanitizeFile(s, f, limits) ==
  CASE s.stopped -> s
    [] ~s.stopped /\ ~f.safe -> Refused(s, Issue("path-safety", NoFile))
    [] ~s.stopped /\ f.safe /\ f.size > limits.file -> Refused(s, Issue("file-size", f.path))
    [] ~s.stopped /\ f.safe /\ f.size <= limits.file ->
         IF f.key \notin Keys(ToSet(s.kept)) /\ Len(s.kept) >= limits.files
           THEN Truncated(s, Issue("file-count", NoFile))
         ELSE IF Without(s, f) + f.size > limits.total
           THEN Truncated(s, Issue("total-size", f.path))
         ELSE [s EXCEPT !.kept = Placed(@, f), !.total = Without(s, f) + f.size]

Sanitize(bundle, limits) ==
  LET after[n \in 0..Len(bundle)] ==
        IF n = 0 THEN [kept |-> <<>>, issues |-> {}, total |-> 0, stopped |-> FALSE]
        ELSE SanitizeFile(after[n - 1], bundle[n], limits)
  IN  after[Len(bundle)]

\* For reference: what is left of a bundle, and whether it fits.
LastOfEach(bundle) ==
  {bundle[i] : i \in {i \in DOMAIN bundle :
                        \A j \in DOMAIN bundle : j > i => bundle[j].key # bundle[i].key}}
Fits(fs, limits) ==
  /\ Cardinality(fs) <= limits.files
  /\ Sizes(fs) <= limits.total
  /\ \A f \in fs : f.safe /\ f.size <= limits.file

-----------------------------------------------------------------------------
(* validate_project: the report on all files of a project                  *)

With(fs, content) == {f \in fs : f.content = content}

\* A file its parser refuses; one that breaks a rule on manifests, workflows or
\* Dockerfiles that is an error; one with a credential. Warnings are left out.
SyntaxErrors(fs) == {Issue("syntax", f.path) : f \in With(fs, "unparsable")}
RuleErrors(fs)   == {Issue("schema", f.path) : f \in With(fs, "incomplete")}
SecretErrors(fs) == {Issue("secret", f.path) : f \in With(fs, "secret")}

\* The rules on manifests and workflows take lists and mappings for granted: a
\* scalar where they expect one makes them raise, whatever else the project holds.
Raises(fs) == With(fs, "odd") # {}

RequiredRoles == {"manifest", "dockerfile", "tests", "workflow"}
StructureErrors(fs) ==
  IF RequiredRoles \subseteq UNION {f.roles : f \in fs} THEN {} ELSE {Issue("structure", NoFile)}

ProjectErrors(fs) ==
  SyntaxErrors(fs) \cup RuleErrors(fs) \cup SecretErrors(fs) \cup StructureErrors(fs)
=============================================================================
