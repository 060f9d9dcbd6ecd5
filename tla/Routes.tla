------------------------------- MODULE Routes -------------------------------
(***************************************************************************)
(* The HTTP routes a generated FastAPI project serves, as the evaluation   *)
(* reads them from its code without running it, and what Python and        *)
(* FastAPI make of the same statements.  A file is known by the parts of   *)
(* its path, a dotted name is the sequence of its parts, and a path the    *)
(* sequence of its segments, all of them literals.  A module holds         *)
(*   imports   name -> [level, module, name]; `import m` has the name ""   *)
(*   made      variable -> [class, prefix, annotated]                      *)
(*   routes    [owner, method, path], its decorated functions              *)
(*   includes  [owner, reference, prefix, keyword, early], its calls of    *)
(*             owner.include_router; keyword: include_router(router=...),  *)
(*             early: before the routes of a router of the same file       *)
(***************************************************************************)
EXTENDS Naturals, Sequences, SequencesExt, FiniteSets

CONSTANT Parameters   \* the segments that are path parameters, such as {id}

Unresolved == [module |-> <<>>, router |-> ""]

\* normalize_endpoint: parameters lose their names, empty segments go.
Normalized(method, path) ==
  LET full == SelectSeq(path, LAMBDA s : s # "") IN
  [method |-> method, path |-> [i \in DOMAIN full |-> IF full[i] \in Parameters THEN "{}" ELSE full[i]]]

\* What the reader keeps of the imports: neither `import m`, nor `from . import n`, nor any level.
Imports(module) ==
  LET kept == {n \in DOMAIN module.imports :
                 module.imports[n].name # "" /\ module.imports[n].module # <<>>} IN
  [n \in kept |-> Append(module.imports[n].module, module.imports[n].name)]

\* The variables the reader sees made: an annotated assignment is not one it looks at.
Assigned(module, class) ==
  {v \in DOMAIN module.made : module.made[v].class = class /\ ~module.made[v].annotated}

\* _resolve: the module and the variable an include_router call names.
Resolve(reference, module, name) ==
  IF Len(reference) > 1 THEN
    IF Head(reference) \in DOMAIN Imports(module)
    THEN [module |-> Imports(module)[Head(reference)] \o Front(Tail(reference)),
          router |-> Last(reference)]
    ELSE Unresolved
  ELSE IF reference[1] \in DOMAIN Imports(module)
    THEN [module |-> Front(Imports(module)[reference[1]]),
          router |-> Last(Imports(module)[reference[1]])]
  ELSE [module |-> name, router |-> reference[1]]

\* The prefixes, if a router were known by its variable alone.
MountsByVariable(project, name, router) ==
  {i.prefix : i \in {j \in UNION {project[n].includes : n \in DOMAIN project} :
                       ~j.keyword /\ Last(j.reference) = router}}

\* The prefixes a router is mounted under: those of the include_router calls that name it.
Mounts(project, name, router) ==
  {i.prefix : i \in {j \in UNION {{[prefix |-> k.prefix, to |-> Resolve(k.reference, project[n], n)] :
                                     k \in {h \in project[n].includes : ~h.keyword}} :
                                  n \in DOMAIN project} :
                       j.to = [module |-> name, router |-> router]}}

\* The endpoints of one route: a router serves nothing until it is mounted.
Endpoints(project, name, route) ==
  IF route.owner \in Assigned(project[name], "FastAPI") THEN {Normalized(route.method, route.path)}
  ELSE IF route.owner \in Assigned(project[name], "APIRouter")
    THEN {Normalized(route.method, prefix \o project[name].made[route.owner].prefix \o route.path) :
            prefix \in Mounts(project, name, route.owner)}
  ELSE {}

ImplementedEndpoints(project) ==
  UNION {UNION {Endpoints(project, n, r) : r \in project[n].routes} : n \in DOMAIN project}

-----------------------------------------------------------------------------
(* What the names of a project denote (external: Python's import system)   *)

\* The file of a module, that of a package being its __init__; <<>> if it has none.
FileOf(project, dotted) ==
  IF Append(dotted, "__init__") \in DOMAIN project THEN Append(dotted, "__init__")
  ELSE IF dotted \in DOMAIN project THEN dotted
  ELSE <<>>

\* What an import looks for, a level being counted from the package its file is in.
Sought(file, import) ==
  IF import.level = 0 THEN [module |-> import.module, name |-> import.name]
  ELSE IF import.level < Len(file)
    THEN [module |-> SubSeq(file, 1, Len(file) - import.level) \o import.module,
          name |-> import.name]
  ELSE [module |-> <<>>, name |-> ""]

\* A variable its file makes, or else a module, which has no router's name.
Defined(project, sought) ==
  LET file == FileOf(project, sought.module) IN
  IF sought.name = "" THEN [module |-> sought.module, router |-> ""]
  ELSE IF file # <<>> /\ sought.name \in DOMAIN project[file].made
    THEN [module |-> file, router |-> sought.name]
  ELSE [module |-> Append(sought.module, sought.name), router |-> ""]

\* The same, of a file that may have imported the name itself.
Found(project, sought) ==
  LET file == FileOf(project, sought.module) IN
  IF file # <<>> /\ sought.name \in DOMAIN project[file].imports
  THEN Defined(project, Sought(file, project[file].imports[sought.name]))
  ELSE Defined(project, sought)

Named(project, file, name) ==
  IF name \in DOMAIN project[file].made THEN [module |-> file, router |-> name]
  ELSE IF name \in DOMAIN project[file].imports
    THEN Found(project, Sought(file, project[file].imports[name]))
  ELSE Unresolved

Attribute(project, value, name) ==
  IF value.router = "" /\ value # Unresolved
  THEN Found(project, [module |-> value.module, name |-> name])
  ELSE Unresolved

\* What a reference of up to three parts denotes.
Denoted(project, file, reference) ==
  LET first == Named(project, file, reference[1]) IN
  IF Len(reference) = 1 THEN first
  ELSE IF Len(reference) = 2 THEN Attribute(project, first, reference[2])
  ELSE Attribute(project, Attribute(project, first, reference[2]), reference[3])

-----------------------------------------------------------------------------
(* What a running project serves (external: FastAPI)                       *)

Instances(project, class) ==
  UNION {{[module |-> f, router |-> v] :
            v \in {u \in DOMAIN project[f].made : project[f].made[u].class = class}} :
         f \in DOMAIN project}

\* The routes decorated with a router or an application, in whichever file.
Own(project, to, prefix) ==
  {[method |-> r.method, path |-> prefix \o r.path] :
     r \in UNION {{q \in project[f].routes : Named(project, f, q.owner) = to} : f \in DOMAIN project}}

\* The routers one object includes; include_router copies the routes that are there when it is called.
Included(project, by) ==
  UNION {{[to |-> Denoted(project, f, i.reference),
           prefix |-> i.prefix \o project[Denoted(project, f, i.reference).module]
                                    .made[Denoted(project, f, i.reference).router].prefix] :
            i \in {j \in project[f].includes :
                     /\ Named(project, f, j.owner) = by
                     /\ Denoted(project, f, j.reference) \in Instances(project, "APIRouter")
                     /\ ~(j.early /\ Denoted(project, f, j.reference).module = f)}} :
         f \in DOMAIN project}

\* Of a router that is included: its routes and those of the routers it has included.
OfRouter(project, to, prefix) ==
  Own(project, to, prefix)
    \cup UNION {Own(project, i.to, prefix \o i.prefix) : i \in Included(project, to)}

ServedBy(project, app) ==
  Own(project, app, <<>>)
    \cup UNION {OfRouter(project, i.to, i.prefix) : i \in Included(project, app)}

Served(project) == UNION {ServedBy(project, a) : a \in Instances(project, "FastAPI")}

-----------------------------------------------------------------------------
(* Where the two agree                                                     *)

\* An import that leads straight to a router: absolute, through modules only, and to a file that is
\* no package and has not imported the router itself.
Direct(project, import, rest) ==
  LET first == Append(import.module, import.name)
      path  == first \o rest
      file  == Front(path) IN
  /\ import.level = 0 /\ import.name # "" /\ import.module # <<>>
  /\ rest # <<>> =>
       Found(project, [module |-> import.module, name |-> import.name])
         = [module |-> first, router |-> ""]
  /\ Len(rest) = 2 =>
       Found(project, [module |-> first, name |-> rest[1]])
         = [module |-> Append(first, rest[1]), router |-> ""]
  /\ Append(file, "__init__") \notin DOMAIN project
  /\ file \in DOMAIN project => Last(path) \notin DOMAIN project[file].imports

\* A call by an application, with a router that is there and is passed by position.
ReadableCall(project, file, i) ==
  /\ ~i.keyword /\ ~i.early
  /\ Named(project, file, i.owner) \in Instances(project, "FastAPI")
  /\ i.reference[1] \in DOMAIN project[file].imports =>
       Direct(project, project[file].imports[i.reference[1]], Tail(i.reference))

\* Such calls only, no annotated assignment, and no route on an imported application or router.
Readable(project) ==
  \A f \in DOMAIN project :
    /\ \A v \in DOMAIN project[f].made : ~project[f].made[v].annotated
    /\ \A r \in project[f].routes : r.owner \notin DOMAIN project[f].imports
    /\ \A i \in project[f].includes : ReadableCall(project, f, i)

\* What the statements of a project look like; no module has the name of a directory.
IsProject(project) ==
  /\ \A f \in DOMAIN project : f \in Seq(STRING) /\ f # <<>>
  /\ \A f, g \in DOMAIN project : f # g => ~IsPrefix(f, g)
  /\ \A f \in DOMAIN project :
       /\ "" \notin DOMAIN project[f].made
       /\ DOMAIN project[f].made \cap DOMAIN project[f].imports = {}
       /\ \A v \in DOMAIN project[f].made : project[f].made[v].class \in {"FastAPI", "APIRouter"}
       /\ \A n \in DOMAIN project[f].imports :
            LET i == project[f].imports[n] IN
            i.module \in Seq(STRING) /\ i.name \in STRING /\ i.level \in Nat
       /\ \A r \in project[f].routes : r.path \in Seq(STRING)
       /\ \A i \in project[f].includes : i.reference \in Seq(STRING) /\ Len(i.reference) \in 1 .. 3

\* The endpoints the reader finds are those the project serves.
ReadAsServed(project) ==
  ImplementedEndpoints(project) = {Normalized(e.method, e.path) : e \in Served(project)}

\* Of a readable project the evaluation reads exactly the endpoints it would serve, a router that
\* is mounted twice under both prefixes and one that is never mounted not at all (routes.py).
RoutesRight(project) == Readable(project) => ReadAsServed(project)
=============================================================================
