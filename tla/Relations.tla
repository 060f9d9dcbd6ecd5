----------------------------- MODULE Relations -----------------------------
(***************************************************************************)
(* The many-to-one relations between a project's entities: which of them   *)
(* the renderers keep, and the order in which tables are created. An       *)
(* entity is its name and the names of the parents it belongs to.          *)
(***************************************************************************)
EXTENDS Naturals, Sequences, FiniteSets, SequencesExt, Functions

Entity == [name : STRING, belongs_to : Seq(STRING)]

\* The entities of one name cannot be told apart by a relation.
IsSpecification(entities) ==
  /\ entities \in Seq(Entity)
  /\ \A i, j \in DOMAIN entities : entities[i].name = entities[j].name => i = j

Names(entities) == {e.name : e \in ToSet(entities)}

\* Everything kept edges lead to from start, start included.
Reached(kept, start) ==
  LET after[n \in 0 .. Cardinality(DOMAIN kept)] ==
        IF n = 0 THEN {start}
        ELSE after[n - 1] \cup UNION {ToSet(kept[x]) : x \in after[n - 1] \cap DOMAIN kept}
  IN after[Cardinality(DOMAIN kept)]

With(kept, name, parents) ==
  [n \in DOMAIN kept \cup {name} |-> IF n = name THEN parents ELSE kept[n]]

\* What one entity keeps of its parents, after the edges kept so far.
KeepParents(known, kept, e) ==
  LET own[n \in 0 .. Len(e.belongs_to)] ==
        IF n = 0 THEN <<>>
        ELSE LET parent == e.belongs_to[n] IN
             IF /\ parent \in known \ {e.name}
                /\ parent \notin ToSet(own[n - 1])
                /\ e.name \notin Reached(With(kept, e.name, own[n - 1]), parent)
             THEN Append(own[n - 1], parent)
             ELSE own[n - 1]
  IN own[Len(e.belongs_to)]

\* The edges kept after another entity: what it keeps replaces what one of its name kept before.
Keeping(kept, e, parents) ==
  IF parents = <<>> /\ e.name \in DOMAIN kept THEN kept ELSE With(kept, e.name, parents)

\* normalise: edges are kept in the order of the specification.
Normalise(entities) ==
  LET normal[n \in 0 .. Len(entities)] ==
        IF n = 0 THEN [kept |-> <<>>, result |-> <<>>]
        ELSE LET e   == entities[n]
                 own == KeepParents(Names(entities), normal[n - 1].kept, e) IN
             [kept   |-> Keeping(normal[n - 1].kept, e, own),
              result |-> Append(normal[n - 1].result, [e EXCEPT !.belongs_to = own])]
  IN normal[Len(entities)].result

\* The members of s that are in S, in their order.
Kept(s, S) ==
  LET kept[n \in 0 .. Len(s)] ==
        IF n = 0 THEN <<>> ELSE IF s[n] \in S THEN Append(kept[n - 1], s[n]) ELSE kept[n - 1]
  IN kept[Len(s)]

\* creation_order, for distinct names: every round adds the entities whose parents are done.
Creatable(entities, done) ==
  Kept(entities, {e \in ToSet(entities) :
                    /\ e.name \notin done
                    /\ ToSet(e.belongs_to) \cap Names(entities) \subseteq done})

CreationOrder(entities) ==
  LET round[n \in 0 .. Len(entities)] ==
        IF n = 0 THEN <<>>
        ELSE round[n - 1] \o Creatable(entities, Names(round[n - 1]))
  IN round[Len(entities)]

-----------------------------------------------------------------------------
(* What the renderers may rely on                                          *)

\* A path of the entities' own edges leads from a parent that was dropped back to its child.
ClosesCycle(entities, child, parent) ==
  child \in Reached([n \in Names(entities) |->
                       (CHOOSE e \in ToSet(entities) : e.name = n).belongs_to], parent)

\* s has some members of t, in the order they have in t.
IsThinned(s, t) ==
  \E at \in [DOMAIN s -> DOMAIN t] :
    /\ \A i \in DOMAIN s : s[i] = t[at[i]]
    /\ \A i, j \in DOMAIN s : i < j => at[i] < at[j]

\* normalise drops an edge only for a reason, keeps the rest in order, changes nothing the second
\* time, and creation_order then puts every parent before its children (relations.py).
RelationsRight(entities) ==
  LET kept  == Normalise(entities)
      order == CreationOrder(kept) IN
  /\ Len(kept) = Len(entities)
  /\ \A i \in DOMAIN kept :
       LET e == kept[i]  old == entities[i] IN
       /\ e.name = old.name
       /\ IsThinned(e.belongs_to, old.belongs_to)
       /\ IsInjective(e.belongs_to)
       /\ ToSet(e.belongs_to) \subseteq Names(entities) \ {e.name}
       /\ \A p \in (ToSet(old.belongs_to) \cap Names(entities)) \ ({e.name} \cup ToSet(e.belongs_to)) :
            ClosesCycle(kept, e.name, p)
  /\ Normalise(kept) = kept
  /\ IsInjective(order)
  /\ ToSet(order) = ToSet(kept)
  /\ \A i, j \in DOMAIN order : order[j].name \in ToSet(order[i].belongs_to) => j < i
=============================================================================
