--------------------------- MODULE GeneratedService ---------------------------
(* The CRUD service the offline provider writes for a specification, in each  *)
(* of its stacks: templates_go.py, templates_typescript.py, templates_app.py. *)
(* Handlers run concurrently. A Go store locks each of its calls, and a       *)
(* handler makes several; a TypeScript handler is not interrupted once it has *)
(* read its body; a Python handler reads rows and then commits, and the       *)
(* database keeps the foreign keys. A request is a record of what its handler *)
(* has left to do; a row is its foreign keys, the other columns are left out. *)
EXTENDS Naturals, FiniteSets, SequencesExt

CONSTANTS
  Order,       \* the entities in their creation order, parents first
  BelongsTo,   \* the parents of each entity, in the order of the specification
  Stacks,      \* the stacks the service is written for
  Clients,     \* requests in flight at once
  MaxId,       \* bound: rows ever made of one entity
  MaxRequests  \* bound: requests, together

Entities   == ToSet(Order)
Parents(e) == ToSet(BelongsTo[e])
Ids        == 1 .. MaxId

ASSUME RelationsAssumption ==
  /\ Order \in Seq(Entities)
  /\ BelongsTo \in [Entities -> Seq(Entities)]
  /\ \A n \in DOMAIN Order : Parents(Order[n]) \subseteq {Order[m] : m \in 1 .. n - 1}
ASSUME BoundsAssumption ==
  /\ Stacks \subseteq {"go", "typescript", "python"}
  /\ IsFiniteSet(Clients)
  /\ MaxId \in Nat /\ MaxRequests \in Nat

VARIABLES
  stack,    \* what the service is written in
  live,     \* the ids of each entity's rows
  key,      \* the foreign keys of each row, 0 where there is none
  next,     \* the next id of a store in memory
  request,  \* what the handler of each client's request has left to do
  sent,     \* requests so far
  raced,    \* history: rows of which a checked parent was gone when they were written
  moved     \* history: rows updated while a cascade had them on its list

rows    == <<live, key, next>>
history == <<raced, moved>>
vars    == <<stack, live, key, next, request, sent, raced, moved>>

NoKeys == [p \in Entities |-> 0]
Idle   == [pc |-> "idle", op |-> "none", entity |-> Order[1], id |-> 0, data |-> NoKeys,
           left |-> <<>>, work |-> <<>>]

Init ==
  /\ stack \in Stacks
  /\ live = [e \in Entities |-> {}]
  /\ key = [e \in Entities |-> [i \in Ids |-> NoKeys]]
  /\ next = [e \in Entities |-> 1]
  /\ request = [c \in Clients |-> Idle]
  /\ sent = 0
  /\ raced = {} /\ moved = {}

-----------------------------------------------------------------------------
(* Rows                                                                    *)

\* A foreign key of a body or a row that names no row.
Broken(data) == \E p \in Entities : data[p] # 0 /\ data[p] \notin live[p]

\* SQLite gives a row the id after the largest one there is, also if it was used before.
NewId(e) ==
  IF stack = "python" THEN 1 + Max(live[e] \cup {0}) ELSE next[e]

\* Create, and INSERT.
Insert(e, data) ==
  LET i == NewId(e) IN
  /\ live' = [live EXCEPT ![e] = @ \cup {i}]
  /\ key' = [key EXCEPT ![e][i] = data]
  /\ next' = IF stack = "python" THEN next ELSE [next EXCEPT ![e] = @ + 1]
  /\ raced' = IF Broken(data) THEN raced \cup {<<e, i>>} ELSE raced
  /\ UNCHANGED moved

\* The rows on the list of a cascade.
Doomed == UNION {{<<t.entity, t.id>> : t \in {t \in ToSet(request[c].work) : t.do = "delete"}} :
                   c \in Clients}

\* Update merges the body into the row it finds.
Merge(e, i, data) ==
  /\ key' = [key EXCEPT ![e][i] = [p \in Entities |-> IF data[p] # 0 THEN data[p] ELSE @[p]]]
  /\ raced' = IF Broken(data) THEN raced \cup {<<e, i>>} ELSE raced
  /\ moved' = IF <<e, i>> \in Doomed THEN moved \cup {<<e, i>>} ELSE moved
  /\ UNCHANGED <<live, next>>

\* The rows gone are no longer there.
Erase(gone) ==
  /\ live' = [e \in Entities |-> {i \in live[e] : <<e, i>> \notin gone}]
  /\ key' = [e \in Entities |-> [i \in Ids |-> IF <<e, i>> \in gone THEN NoKeys ELSE key[e][i]]]
  /\ UNCHANGED <<next, raced, moved>>

\* refersTo: does row i of e name row j of p?
RefersByAnyKey(e, i, p, j) == \E q \in Entities : key[e][i][q] = j
Refers(e, i, p, j) == key[e][i][p] = j

Children(p, j) ==
  {r \in Entities \X Ids : r[2] \in live[r[1]] /\ p \in Parents(r[1]) /\ Refers(r[1], r[2], p, j)}

BranchOneLevel(e, i) == {<<e, i>>} \cup Children(e, i)

\* A row and everything that refers to it, directly or not: what a delete of the
\* TypeScript store removes before it returns, and the database for ON DELETE CASCADE.
Branch(e, i) ==
  LET within[n \in 0 .. Len(Order)] ==
        IF n = 0 THEN {<<e, i>>}
        ELSE within[n - 1] \cup UNION {Children(r[1], r[2]) : r \in within[n - 1]}
  IN within[Len(Order)]

-----------------------------------------------------------------------------
(* Requests                                                                *)

Goto(c, pc)   == request' = [request EXCEPT ![c].pc = pc]
Answer(c)     == request' = [request EXCEPT ![c] = Idle]
Creating(e)   == Cardinality({c \in Clients : request[c].op = "create" /\ request[c].entity = e})
SetBy(e, all) == {d \in [Entities -> 0 .. MaxId] :
                    /\ \A p \in Entities \ Parents(e) : d[p] = 0
                    /\ all => \A p \in Parents(e) : d[p] # 0}

\* A request whose body is valid: a create gives all foreign keys, an update some, and
\* whether they name rows is not checked yet. Others are answered 404 or 422 at once.
Send(c) ==
  /\ request[c].pc = "idle" /\ sent < MaxRequests
  /\ \E e \in Entities :
       \/ /\ NewId(e) + Creating(e) <= MaxId
          /\ \E data \in SetBy(e, TRUE) :
               request' = [request EXCEPT ![c] =
                 [Idle EXCEPT !.pc = "check", !.op = "create", !.entity = e, !.data = data,
                              !.left = BelongsTo[e]]]
       \/ \E i \in Ids, data \in SetBy(e, FALSE) \ {NoKeys} :
            request' = [request EXCEPT ![c] =
              [Idle EXCEPT !.pc = "find", !.op = "update", !.entity = e, !.id = i, !.data = data,
                           !.left = BelongsTo[e]]]
       \/ \E i \in Ids :
            request' = [request EXCEPT ![c] =
              [Idle EXCEPT !.pc = "find", !.op = "delete", !.entity = e, !.id = i]]
  /\ sent' = sent + 1
  /\ UNCHANGED <<stack, rows, history>>

\* Get and session.get: the row is there, or the answer is 404.
Find(c) ==
  /\ request[c].pc = "find" /\ stack # "typescript"
  /\ ~(stack = "go" /\ request[c].op = "delete")
  /\ IF request[c].id \in live[request[c].entity] THEN Goto(c, "check") ELSE Answer(c)
  /\ UNCHANGED <<stack, rows, history, sent>>

\* missingParent and _check_parents: one parent after the other, or the answer is 422.
CheckParent(c) ==
  /\ request[c].pc = "check" /\ request[c].left # <<>> /\ stack # "typescript"
  /\ LET p == Head(request[c].left)
         j == request[c].data[p] IN
       IF j # 0 /\ j \notin live[p] THEN Answer(c)
       ELSE request' = [request EXCEPT ![c].left = Tail(@)]
  /\ UNCHANGED <<stack, rows, history, sent>>

Checked(c, in) == request[c].pc = "check" /\ request[c].left = <<>> /\ stack = in

\* The writes of Go do not look again, except for the row that is updated (404).
Create(c) ==
  /\ Checked(c, "go") /\ request[c].op = "create"
  /\ Insert(request[c].entity, request[c].data)
  /\ Answer(c)
  /\ UNCHANGED <<stack, sent>>

Update(c) ==
  /\ Checked(c, "go") /\ request[c].op = "update"
  /\ LET r == request[c] IN
       IF r.id \in live[r.entity] THEN Merge(r.entity, r.id, r.data) ELSE UNCHANGED <<rows, history>>
  /\ Answer(c)
  /\ UNCHANGED <<stack, sent>>

\* A request that nothing can come between: it writes what the checks allow, or nothing.
AsOne(r) ==
  LET found == r.id \in live[r.entity] IN
  CASE r.op = "create" /\ ~Broken(r.data)          -> Insert(r.entity, r.data)
    [] r.op = "update" /\ found /\ ~Broken(r.data) -> Merge(r.entity, r.id, r.data)
    [] r.op = "delete" /\ found                    -> Erase(Branch(r.entity, r.id))
    [] OTHER                                       -> UNCHANGED <<rows, history>>

\* A TypeScript handler, from its body to its answer.
Handle(c) ==
  /\ stack = "typescript" /\ request[c].pc \in {"find", "check"}
  /\ AsOne(request[c])
  /\ Answer(c)
  /\ UNCHANGED <<stack, sent>>

\* The commit of a Python handler: what the constraints refuse, or does not find its row
\* any more, is answered 500.
Commit(c) ==
  /\ Checked(c, "python")
  /\ AsOne(request[c])
  /\ Answer(c)
  /\ UNCHANGED <<stack, sent>>

-----------------------------------------------------------------------------
(* A Go delete: one lock at a time                                         *)

Removal(e, i) == [do |-> "delete", entity |-> e, id |-> i, parent |-> e]
Search(e, p, j) == [do |-> "search", entity |-> e, id |-> j, parent |-> p]

\* The stores that refer to p's, in the order newResource registered them.
Dependents(p) ==
  LET among[n \in 0 .. Len(Order)] ==
        IF n = 0 THEN <<>>
        ELSE IF p \in Parents(Order[n]) THEN Append(among[n - 1], Order[n]) ELSE among[n - 1]
  IN among[Len(Order)]

Continue(c, work) ==
  request' = IF work = <<>> THEN [request EXCEPT ![c] = Idle]
             ELSE [request EXCEPT ![c].pc = "cascade", ![c].work = work]

\* Delete: the row goes, and then, if it was there, its children of every store are searched.
DeleteItem(c, task, rest) ==
  LET dependents == Dependents(task.entity) IN
  IF task.id \in live[task.entity]
  THEN /\ Erase({<<task.entity, task.id>>})
       /\ Continue(c, [n \in DOMAIN dependents |-> Search(dependents[n], task.entity, task.id)]
                        \o rest)
  ELSE UNCHANGED <<rows, history>> /\ Continue(c, rest)

StartDelete(c) ==
  /\ request[c].pc = "find" /\ stack = "go" /\ request[c].op = "delete"
  /\ DeleteItem(c, Removal(request[c].entity, request[c].id), <<>>)
  /\ UNCHANGED <<stack, sent>>

\* deleteWhere lists the children under the lock, in any order ...
SearchStore(c) ==
  /\ request[c].pc = "cascade" /\ Head(request[c].work).do = "search"
  /\ LET task  == Head(request[c].work)
         found == {i \in live[task.entity] : Refers(task.entity, i, task.parent, task.id)} IN
       \E order \in SetToSeqs(found) :
         Continue(c, [n \in DOMAIN order |-> Removal(task.entity, order[n])]
                       \o Tail(request[c].work))
  /\ UNCHANGED <<stack, rows, history, sent>>

\* ... and deletes them one by one, with their own children.
RemoveChild(c) ==
  /\ request[c].pc = "cascade" /\ Head(request[c].work).do = "delete"
  /\ DeleteItem(c, Head(request[c].work), Tail(request[c].work))
  /\ UNCHANGED <<stack, sent>>

-----------------------------------------------------------------------------

Next ==
  \E c \in Clients :
    \/ Send(c) \/ Find(c) \/ CheckParent(c) \/ Create(c) \/ Update(c)
    \/ Handle(c) \/ Commit(c)
    \/ StartDelete(c) \/ SearchStore(c) \/ RemoveChild(c)

Spec == Init /\ [][Next]_vars

-----------------------------------------------------------------------------
(* Pages                                                                   *)

Meets(e, i, where) ==
  i \in live[e] /\ \A p \in Entities : where[p] # 0 => key[e][i][p] = where[p]

\* Go walks the ids, counts what it skips and stops when the page is full.
GoPage(e, where, limit, offset) ==
  LET walk[n \in 0 .. MaxId] ==
        IF n = 0 THEN [page |-> <<>>, skipped |-> 0]
        ELSE IF Len(walk[n - 1].page) = limit \/ ~Meets(e, n, where) THEN walk[n - 1]
        ELSE IF walk[n - 1].skipped < offset
          THEN [page |-> walk[n - 1].page, skipped |-> walk[n - 1].skipped + 1]
        ELSE [page |-> Append(walk[n - 1].page, n), skipped |-> walk[n - 1].skipped]
  IN walk[MaxId].page

\* The other stacks filter all rows and cut the window out: slice, OFFSET and LIMIT.
Window(all, limit, offset) ==
  SubSeq(all, offset + 1, IF offset + limit < Len(all) THEN offset + limit ELSE Len(all))
SlicedPage(e, where, limit, offset) ==
  LET kept[n \in 0 .. MaxId] ==
        IF n = 0 THEN <<>> ELSE IF Meets(e, n, where) THEN Append(kept[n - 1], n) ELSE kept[n - 1]
  IN Window(kept[MaxId], limit, offset)

-----------------------------------------------------------------------------
(* Bodies                                                                  *)

\* A foreign key, an optional column, and one the entity does not have; what a body
\* gives for each, a value of the column's type being right.
Columns  == {"parent", "title", "note", "other"}
Required == {"parent", "title"}
Given    == {"absent", "null", "right", "wrong"}

\* validate (Go and TypeScript): the columns with a problem.
Problems(body, partial) ==
  {f \in Columns :
     \/ f = "other" /\ body[f] # "absent"
     \/ f # "other" /\ body[f] = "wrong"
     \/ f \in Required /\ (body[f] = "null" \/ (body[f] = "absent" /\ ~partial))}

\* The schemas of Python: columns it does not know are ignored, and of an Update
\* _not_null refuses the null that the type of every field allows.
SchemaProblems(body, partial) ==
  {f \in Columns \ {"other"} :
     \/ body[f] = "wrong"
     \/ f \in Required /\ (body[f] = "null" \/ (body[f] = "absent" /\ ~partial))}

-----------------------------------------------------------------------------
(* Properties                                                              *)

TypeOK ==
  /\ live \in [Entities -> SUBSET Ids]
  /\ key \in [Entities -> [Ids -> [Entities -> 0 .. MaxId]]]
  /\ next \in [Entities -> 1 .. MaxId + 1]
  /\ \A c \in Clients : request[c].pc \in {"idle", "find", "check", "cascade"}
  /\ raced \cup moved \subseteq Entities \X Ids

\* A cascade has this row still to delete, or the store it is in still to search.
StillFalls(e, i, p) ==
  \E c \in Clients : \E t \in ToSet(request[c].work) :
    \/ t = Removal(e, i)
    \/ t = Search(e, p, key[e][i][p])

\* blueprint.py, "deleting a parent deletes what references it": no row refers to one that
\* is gone, but for a moment while a Go cascade is on its way to it; and in Go, where nothing
\* locks two stores, a row whose checked parent was deleted before it was written.
NoOrphans ==
  \A e \in Entities : \A i \in live[e] : \A p \in Parents(e) :
    \/ key[e][i][p] \in live[p]
    \/ stack = "go" /\ (StillFalls(e, i, p) \/ <<e, i>> \in raced)

\* The three stacks show the same pages of the same rows.
PagesAgree ==
  \A e \in Entities : \A where \in SetBy(e, FALSE), limit \in 1 .. MaxId, offset \in 0 .. MaxId :
    GoPage(e, where, limit, offset) = SlicedPage(e, where, limit, offset)

\* templates_app.py: "a NOT NULL column must not be set to null: that would pass validation and
\* fail in the database". A body is accepted if it leaves every column with a value that it may
\* have, and the stacks differ in unknown columns only. About bodies alone: checked at first.
BodiesAreStorable ==
  sent = 0 =>
    \A body \in [Columns -> Given], partial \in BOOLEAN :
      LET storable == /\ \A f \in Required : body[f] = "right" \/ (body[f] = "absent" /\ partial)
                      /\ body["note"] # "wrong" IN
      /\ SchemaProblems(body, partial) = {} <=> storable
      /\ Problems(body, partial) = {} <=> storable /\ body["other"] = "absent"

\* What a service shows, whatever requests cross: all of the above.
ServiceSound == TypeOK /\ NoOrphans /\ PagesAgree /\ BodiesAreStorable

Asked(e, i) ==
  \E c \in Clients : request[c].pc # "idle" /\ request[c].op = "delete"
                       /\ request[c].entity = e /\ request[c].id = i

\* A row goes only when its delete was asked for or a row it refers to is gone; in Go also
\* when it was moved to another parent after the old one's cascade had listed it.
OnlyBranchesFall ==
  [][\A e \in Entities : \A i \in live[e] \ live'[e] :
       \/ Asked(e, i)
       \/ \E p \in Parents(e) : key[e][i][p] \notin live'[p]
       \/ stack = "go" /\ <<e, i>> \in moved]_vars

=============================================================================
