---------------------------- MODULE SpecReading ----------------------------
(***************************************************************************)
(* How the offline provider finds the entities of a specification: in its  *)
(* declarations, Loan(due_date, member:Member), or else in the nouns that  *)
(* follow or precede a known verb. Words stand for themselves; how a field *)
(* is spelled, and its type unless that is another entity, are left out.   *)
(***************************************************************************)
EXTENDS Relations

CONSTANTS
  Verbs,          \* _VERBS
  Skips,          \* _SKIP, without the words of Joins
  Joins,          \* and, or, and the comma
  Nouns,          \* what _is_noun accepts
  Plurals,        \* the words that end in an s
  NotEntities,    \* _NOT_ENTITIES
  Singular,       \* singularize, of the nouns
  KnownFields,    \* _KNOWN_FIELDS: the fields of some entities
  KnownRelations, \* _KNOWN_RELATIONS: the parents of some entities
  Wordless,       \* field names of several parts that hold no letter and no digit ("- -")
  MaxEntities     \* MAX_ENTITIES

\* The word lists and tables of analysis.py: no verb is passed over or taken for a noun, and what
\* is known of an entity is without repetition.
ASSUME SpecAssumption ==
  /\ Verbs \cap (Joins \cup Skips \cup Nouns) = {}
  /\ Singular \in [Nouns -> STRING]
  /\ MaxEntities \in Nat \ {0}
  /\ \A n \in DOMAIN KnownFields :
       KnownFields[n] \in Seq(STRING) \ {<<>>} /\ IsInjective(KnownFields[n])
  /\ \A n \in DOMAIN KnownRelations :
       /\ KnownRelations[n] \in Seq(STRING) /\ IsInjective(KnownRelations[n])
       /\ n \notin ToSet(KnownRelations[n])

\* What may be read: the words of a text, the fields it lists for some entities, declarations.
IsText(tokens) == tokens \in Seq(STRING)
AreHints(hints) == \A n \in DOMAIN hints : hints[n] \in Seq(STRING) /\ IsInjective(hints[n])
Declaration == [name : STRING, chunks : Seq([name : STRING, type : STRING])]

-----------------------------------------------------------------------------
(* Prose                                                                   *)

Following(tokens, c) == IF c < Len(tokens) THEN tokens[c + 1] ELSE ""

\* A word that the next verb has for its subject is not an object of this one.
EndsObjects(tokens, c) == tokens[c] \notin Nouns \/ Following(tokens, c) \in Verbs

\* One turn of the loop over the words after a verb: open while another object may follow.
ReadWord(tokens, objects, c) ==
  IF ~ objects.open \/ tokens[c] \in Joins \cup Skips THEN objects
  ELSE IF EndsObjects(tokens, c) THEN [objects EXCEPT !.open = FALSE]
  ELSE [open  |-> Following(tokens, c) \in Joins,
        found |-> IF tokens[c] \in NotEntities THEN objects.found ELSE Append(objects.found, c)]

Objects(tokens, verb) ==
  LET after[n \in 0 .. Len(tokens) - verb] ==
        IF n = 0 THEN [open |-> TRUE, found |-> <<>>] ELSE ReadWord(tokens, after[n - 1], verb + n)
  IN after[Len(tokens) - verb].found

Subject(tokens, verb) ==
  IF /\ verb > 1
     /\ tokens[verb - 1] \in Plurals \cap Nouns
     /\ tokens[verb - 1] \notin NotEntities
  THEN <<verb - 1>> ELSE <<>>

\* _candidate_nouns, as places in the text.
CandidateNouns(tokens) ==
  LET found[n \in 0 .. Len(tokens)] ==
        IF n = 0 THEN <<>>
        ELSE IF tokens[n] \in Verbs
          THEN (found[n - 1] \o Subject(tokens, n)) \o Objects(tokens, n)
        ELSE found[n - 1]
  IN found[Len(tokens)]

DefaultFields(name) == IF name \in DOMAIN KnownFields THEN KnownFields[name] ELSE <<"name", "description">>

\* hints: the fields the text lists for an entity ("loans with due dates").
ProseFields(name, hints) ==
  LET own      == IF name \in DOMAIN hints THEN hints[name] ELSE <<>>
      defaults == DefaultFields(name) IN
  own \o Kept(defaults, ToSet(defaults) \ ToSet(own))

ProseNames(tokens) ==
  LET nouns == CandidateNouns(tokens)
      known[n \in 0 .. Len(nouns)] ==
        IF n = 0 THEN <<>>
        ELSE LET name == Singular[tokens[nouns[n]]] IN
             IF name \in ToSet(known[n - 1]) \/ Len(known[n - 1]) >= MaxEntities THEN known[n - 1]
             ELSE Append(known[n - 1], name)
  IN known[Len(nouns)]

ProseEntities(tokens, hints) ==
  LET names      == ProseNames(tokens)
      parents(n) == IF n \in DOMAIN KnownRelations THEN KnownRelations[n] ELSE <<>> IN
  [i \in DOMAIN names |->
     [name |-> names[i], fields |-> ProseFields(names[i], hints),
      belongs_to |-> Kept(parents(names[i]), ToSet(names))]]

-----------------------------------------------------------------------------
(* Declarations                                                            *)

\* A chunk is a field's name and its type; the type may be another entity.
ReadChunk(list, c, others) ==
  IF c.name \in ToSet(list.fields) THEN list
  ELSE IF c.type \notin others THEN [list EXCEPT !.fields = Append(@, c.name)]
  ELSE IF c.type \in ToSet(list.relations) THEN list
  ELSE [list EXCEPT !.relations = Append(@, c.type)]

\* _parse_field_list
ParseFieldList(chunks, others) ==
  LET list[n \in 0 .. Len(chunks)] ==
        IF n = 0 THEN [fields |-> <<>>, relations |-> <<>>]
        ELSE ReadChunk(list[n - 1], chunks[n], others)
  IN list[Len(chunks)]

Declared(d, declared) ==
  LET list == ParseFieldList(d.chunks, declared \ {d.name}) IN
  [name   |-> d.name, belongs_to |-> list.relations,
   fields |-> IF list.fields = <<>> THEN DefaultFields(d.name) ELSE list.fields]

\* The first declaration of a name counts.
DeclaredEntities(declarations) ==
  LET declared == {d.name : d \in ToSet(declarations)}
      found[n \in 0 .. Len(declarations)] ==
        IF n = 0 THEN <<>>
        ELSE LET e == Declared(declarations[n], declared) IN
             IF \E o \in ToSet(found[n - 1]) : o.name = e.name THEN found[n - 1]
             ELSE Append(found[n - 1], e)
  IN found[Len(declarations)]

\* parts[-1] of a field without a word raises IndexError, which nothing catches: in any declaration,
\* or in what the text lists for an entity it finds.
RaisesIndexError(declarations, tokens, hints) ==
  IF declarations # <<>>
  THEN \E d \in ToSet(declarations) : \E c \in ToSet(d.chunks) : c.name \in Wordless
  ELSE \E n \in ToSet(ProseNames(tokens)) \cap DOMAIN hints : ToSet(hints[n]) \cap Wordless # {}

ExtractEntities(declarations, tokens, hints) ==
  IF RaisesIndexError(declarations, tokens, hints) THEN <<>> ELSE
  LET found == IF declarations # <<>> THEN DeclaredEntities(declarations)
               ELSE ProseEntities(tokens, hints) IN
  IF found = <<>> THEN <<[name |-> "Item", fields |-> DefaultFields("Item"), belongs_to |-> <<>>]>>
  ELSE SubSeq(found, 1, IF Len(found) < MaxEntities THEN Len(found) ELSE MaxEntities)

-----------------------------------------------------------------------------
(* What the design and the templates may rely on                           *)

\* Candidate nouns come "in order of appearance", each place once, and only beside a verb
\* (analysis.py:218): a noun between two verbs is the object of one or the subject of the other.
NounsRight(tokens) ==
  LET found == CandidateNouns(tokens) IN
  /\ \A i, j \in DOMAIN found : i < j => found[i] < found[j]
  /\ \A i \in DOMAIN found : tokens[found[i]] \in Nouns \ NotEntities

\* Whatever is read without raising, there is an entity, and names, fields and parents are each
\* distinct.
EntitiesRight(entities) ==
  /\ Len(entities) \in 1 .. MaxEntities
  /\ \A i, j \in DOMAIN entities : entities[i].name = entities[j].name => i = j
  /\ \A e \in ToSet(entities) :
       /\ e.fields # <<>> /\ IsInjective(e.fields)
       /\ IsInjective(e.belongs_to) /\ e.name \notin ToSet(e.belongs_to)
=============================================================================
