---------------------------- MODULE MCEvalSuite ----------------------------
(* Model values for the run of EvalSuite.                                  *)
EXTENDS EvalSuite

TwoFixtures == <<"blog", "clinic">>
SomeSelections == {{"blog"}, {"blog", "clinic"}}

Rates(input, output) == [input |-> input, output |-> output, read |-> 1, write |-> 5]
SomePrices == ("opus" :> Rates(4, 20)) @@ ("haiku" :> Rates(2, 7))

Entry(model, uncached, output, read, write) ==
  [model |-> model, uncached |-> uncached, output |-> output, read |-> read, write |-> write]
Message(model, usage, iterations, stop, valid) ==
  [model |-> model, usage |-> usage, iterations |-> iterations, stop |-> stop, valid |-> valid]

PlainMessage == Message("opus", Entry("", 1, 1, 2, 1), <<>>, "end_turn", TRUE)
SomeMessages ==
  {PlainMessage,
   Message("haiku", Entry("", 1, 1, 0, 0),
           <<Entry("opus", 1, 0, 1, 0), Entry("haiku", 1, 1, 0, 0)>>, "end_turn", TRUE),
   Message("preview", Entry("", 1, 1, 0, 0), <<>>, "end_turn", TRUE),
   Message("preview", Entry("", 1, 0, 0, 0),
           <<Entry("opus", 1, 1, 0, 0), Entry("", 1, 0, 0, 0)>>, "refusal", TRUE),
   Message("opus", Entry("", 1, 1, 0, 0), <<>>, "end_turn", FALSE)}

SomeThresholds == ("review_score" :> 100) @@ ("tests_passed" :> 50)

Parents == SeqOf({"Loan", "Member", "Book", "Vet"}, 2)
SomeEntityLists ==
  {<<[name |-> "Loan", belongs_to |-> p], [name |-> "Member", belongs_to |-> q],
     [name |-> "Book", belongs_to |-> r]>> : p, q, r \in Parents}

\* An application in app/main.py or main.py with a router of its own, a second router in
\* app/books.py, and perhaps the package's __init__ that imports or makes one: every way of naming
\* a router and every form of a call, and two calls at a time of the plain ones.
Import(level, module, name) == [level |-> level, module |-> module, name |-> name]
Variable(class, prefix, annotated) == [class |-> class, prefix |-> prefix, annotated |-> annotated]
Route(owner, path) == [owner |-> owner, method |-> "GET", path |-> path]
Include(owner, reference, prefix, keyword, early) ==
  [owner |-> owner, reference |-> reference, prefix |-> prefix, keyword |-> keyword, early |-> early]
Module(imports, made, routes, includes) ==
  [imports |-> imports, made |-> made, routes |-> routes, includes |-> includes]
References == {<<"books", "router">>, <<"router">>, <<"admin">>, <<"app", "books", "router">>}
PlainCalls == {Include("service", r, p, FALSE, FALSE) : r \in References, p \in {<<>>, <<"v1">>}}
Calls ==
  {{}} \cup {{c, d} : c, d \in PlainCalls}
    \cup {{Include(o, r, <<"v1">>, k, e)} : o \in {"service", "admin"}, r \in References,
            k \in BOOLEAN, e \in BOOLEAN}
    \cup {{Include("service", <<"admin">>, <<"v1">>, FALSE, FALSE),
           Include("admin", r, <<>>, FALSE, FALSE)} : r \in References}
ImportForms ==
  {<<>>, "app" :> Import(0, <<"app">>, "")}
    \cup {"books" :> Import(l, m, "books") : l \in 0 .. 1, m \in {<<"app">>}}
    \cup {"books" :> Import(1, <<>>, "books")}
    \cup {"router" :> Import(l, m, "router") :
            l \in 0 .. 1, m \in {<<"app">>, <<"books">>, <<"app", "books">>}}
Packages ==
  {<<>>} \cup {<<"app", "__init__">> :> m :
                 m \in {Module(<<>>, <<>>, {}, {}),
                        Module("router" :> Import(0, <<"app", "books">>, "router"), <<>>, {}, {}),
                        Module(<<>>, "router" :> Variable("APIRouter", <<"p">>, FALSE),
                               {Route("router", <<"packed">>)}, {})}}
MainModule(imports, more, includes) ==
  Module(imports,
         ("service" :> Variable("FastAPI", <<>>, FALSE))
           @@ ("admin" :> Variable("APIRouter", <<"admin">>, FALSE)),
         {Route("service", <<"healthz">>), Route("admin", <<"", "{id}">>)} \cup more,
         includes)
BooksModule(annotated) ==
  Module(<<>>, "router" :> Variable("APIRouter", <<"books">>, annotated),
         {Route("router", <<>>), Route("router", <<"{book_id}">>)}, {})
SomeProjects ==
  {(main :> MainModule(imports, more, includes))
     @@ (<<"app", "books">> :> BooksModule(annotated)) @@ package :
     main \in {<<"main">>, <<"app", "main">>}, imports \in ImportForms, includes \in Calls,
     more \in {{}, {Route("router", <<"elsewhere">>)}}, annotated \in BOOLEAN,
     package \in Packages}

SomeTexts == SeqOf({"track", "the", "and", "members", "book", "services", "which"}, 5)
SomeHints == {<<>>, "book" :> <<"title", "shelf">>, "member" :> <<"_ _", "age">>}
Chunk(name, type) == [name |-> name, type |-> type]
SomeDeclarationLists ==
  SeqOf({[name |-> n, chunks |-> c] : n \in {"loan", "book", "member"},
           c \in SeqOf({Chunk("due", ""), Chunk("of", "book"), Chunk("of", "loan")}, 3)
                   \cup {<<Chunk("due", ""), Chunk("- -", "")>>, <<Chunk("- -", "book")>>}}, 2)
    \ {<<>>}
Nothing == <<>>
SingularWords ==
  ("members" :> "member") @@ ("services" :> "service") @@ ("book" :> "book")
SomeKnownFields == ("book" :> <<"title", "author">>)
SomeKnownRelations == ("book" :> <<"member", "loan">>)
=============================================================================
