--------------------------- MODULE MCReviewLoop ---------------------------
(* Model values for the run of ReviewLoop.                                 *)
EXTENDS ReviewLoop

File(path, key, owner, roles, size, content) ==
  [path |-> path, key |-> key, owner |-> owner, roles |-> roles, size |-> size,
   content |-> content, safe |-> path # "../app.py"]

Doc(path, content)  == File(path, "architecture.md", "architect", {}, 1, content)
App(path, content)  == File(path, "app.py", "implement", {"manifest", "tests"},
                            IF content = "big" THEN 9 ELSE 1, content)
Docker(content)     == File("Dockerfile", "dockerfile", "devops", {"dockerfile", "workflow"},
                            1, content)

SomeDocuments == {Doc("ARCHITECTURE.md", "good"), Doc("ARCHITECTURE.md", "secret")}
SomeGenerated ==
  {Doc("ARCHITECTURE.md", "fixed"), Doc("architecture.md", "good")}
    \cup {App("app.py", c) : c \in {"good", "fixed", "unparsable", "big"}}
    \cup {App("App.py", "good"), Docker("good"), Docker("incomplete"), Docker("odd")}
    \cup {File("../app.py", "../app.py", "implement", {}, 1, "good")}

SomeLimits == [files |-> 2, file |-> 4, total |-> 6]
SomeSamples ==
  {File(k, k, "implement", {}, n, "good") : k \in {"a.py", "b.py", "c.py"}, n \in {2, 4, 5}}
    \cup {File("A.py", "a.py", "implement", {}, 2, "good")}
=============================================================================
