---------------------- MODULE GeneratedService_proofs ----------------------
(***************************************************************************)
(* Theorems about the services the offline provider writes: for any        *)
(* entities whose relations have no cycle, any number of clients, requests *)
(* and rows, no row outlives what it refers to, none falls that does not,  *)
(* and the stacks show the same pages.                                     *)
(***************************************************************************)
EXTENDS GeneratedService, FiniteSetTheorems, WellFoundedInduction, TLAPS

-----------------------------------------------------------------------------
(* Induction, and functions defined by it                                  *)

Below == {p \in Nat \X Nat : p[1] < p[2]}

LEMMA NoDescent == IsWellFoundedOn(Below, Nat)
<1>1. Below = OpToRel(<, Nat)
  BY Zenon DEF Below, OpToRel
<1>2. IsWellFoundedOn(OpToRel(<, Nat), Nat)
  BY NatLessThanWellFounded, Zenon
<1> QED
  BY <1>1, <1>2, Zenon

\* A set of numbers with 0 and every successor up to N has all of them.
LEMMA UpTo ==
  ASSUME NEW N \in Nat, NEW S, 0 \in S, \A n \in 0 .. N - 1 : n \in S => n + 1 \in S
  PROVE  \A n \in 0 .. N : n \in S
<1> DEFINE T == {n \in 0 .. N : n \notin S}
<1> SUFFICES ASSUME T # {} PROVE FALSE
  OBVIOUS
<1>1. T \subseteq Nat
  OBVIOUS
<1>2. PICK x \in T : \A y \in T : ~ (<<y, x>> \in Below)
  BY <1>1, NoDescent, WFMin, Zenon
<1>3. x \in 0 .. N /\ x # 0 /\ x \notin S
  OBVIOUS
<1>4. x - 1 \in 0 .. N - 1 /\ <<x - 1, x>> \in Below
  BY <1>3 DEF Below
<1>5. x - 1 \in S
  BY <1>2, <1>4
<1> QED
  BY <1>3, <1>4, <1>5

Iteration(f, N, base, g) == f = [n \in 0 .. N |-> IF n = 0 THEN base ELSE g[<<n, f[n - 1]>>]]

\* Whatever a step makes of the number of the step and the value before, there is
\* a function that goes on by such steps.
LEMMA Iterates ==
  ASSUME NEW N \in Nat, NEW S, NEW base \in S, NEW g \in [(1 .. N) \X S -> S]
  PROVE  \E f \in [0 .. N -> S] : Iteration(f, N, base, g)
<1> DEFINE T == {k \in 0 .. N : \E f \in [0 .. k -> S] : Iteration(f, k, base, g)}
<1>1. 0 \in T
  <2>1. Iteration([n \in 0 .. 0 |-> base], 0, base, g)
    BY DEF Iteration
  <2>2. [n \in 0 .. 0 |-> base] \in [0 .. 0 -> S]
    OBVIOUS
  <2> QED
    BY <2>1, <2>2
<1>2. ASSUME NEW k \in 0 .. N - 1, k \in T
      PROVE  k + 1 \in T
  <2>1. PICK f \in [0 .. k -> S] : Iteration(f, k, base, g)
    BY <1>2
  <2> DEFINE h == [n \in 0 .. k + 1 |-> IF n = k + 1 THEN g[<<k + 1, f[k]>>] ELSE f[n]]
  <2>2. <<k + 1, f[k]>> \in (1 .. N) \X S
    BY <1>2
  <2>3. h \in [0 .. k + 1 -> S]
    BY <2>2
  <2>4. ASSUME NEW n \in 0 .. k + 1
        PROVE  h[n] = IF n = 0 THEN base ELSE g[<<n, h[n - 1]>>]
    <3>1. CASE n = k + 1
      <4>1. n # 0 /\ n - 1 = k /\ k \in 0 .. k + 1 /\ k # k + 1
        BY <3>1
      <4> QED
        BY <3>1, <4>1
    <3>2. CASE n \in 0 .. k
      BY <2>1, <3>2 DEF Iteration
    <3> QED
      BY <3>1, <3>2
  <2>5. Iteration(h, k + 1, base, g)
    <3> HIDE DEF h
    <3>1. h = [n \in 0 .. k + 1 |-> h[n]]
      BY <2>3
    <3> QED
      BY <2>4, <3>1 DEF Iteration
  <2> QED
    BY <2>3, <2>5
<1>3. \A k \in 0 .. N : k \in T
  <2> HIDE DEF T
  <2> QED
    BY <1>1, <1>2, UpTo
<1> QED
  BY <1>3

LEMMA IterationIs ==
  ASSUME NEW N \in Nat, NEW f, NEW base, NEW g, Iteration(f, N, base, g)
  PROVE  f[0] = base /\ \A n \in 1 .. N : f[n] = g[<<n, f[n - 1]>>]
<1>1. 0 \in 0 .. N /\ \A n \in 1 .. N : n \in 0 .. N /\ n # 0
  OBVIOUS
<1> QED
  BY <1>1, Zenon DEF Iteration

-----------------------------------------------------------------------------
(* Relations                                                               *)

Nodes == Entities \X Ids
Underneath(nodes) == UNION {Children(r[1], r[2]) : r \in nodes}

LEMMA ChildrenAreNodes ==
  ASSUME NEW nodes
  PROVE  Underneath(nodes) \subseteq Nodes
BY DEF Underneath, Children, Nodes

\* The levels of a branch.
Levels(f, root) == f = [n \in 0 .. Len(Order) |->
                          IF n = 0 THEN {root} ELSE f[n - 1] \cup Underneath(f[n - 1])]

LEMMA LevelsExist ==
  ASSUME NEW root \in Nodes
  PROVE  \E f : Levels(f, root)
<1> DEFINE N == Len(Order)
           S == SUBSET Nodes
           g == [x \in (1 .. N) \X S |-> x[2] \cup Underneath(x[2])]
<1>1. N \in Nat
  BY RelationsAssumption
<1>2. g \in [(1 .. N) \X S -> S]
  <2>1. ASSUME NEW x \in (1 .. N) \X S
        PROVE  x[2] \cup Underneath(x[2]) \in S
    BY ChildrenAreNodes
  <2> QED
    BY <2>1
<1>3. {root} \in S
  OBVIOUS
<1>4. \A x \in (1 .. N) \X S : g[x] = x[2] \cup Underneath(x[2])
  OBVIOUS
<1> HIDE DEF g, N, S
<1>5. PICK f \in [0 .. N -> S] : Iteration(f, N, {root}, g)
  BY <1>1, <1>2, <1>3, Iterates
<1>6. ASSUME NEW n \in 0 .. N
      PROVE  f[n] = IF n = 0 THEN {root} ELSE f[n - 1] \cup Underneath(f[n - 1])
  <2>1. CASE n = 0
    BY <1>1, <1>5, <2>1, IterationIs
  <2>2. CASE n \in 1 .. N
    <3>1. n - 1 \in 0 .. N /\ n # 0
      BY <1>1, <2>2
    <3>2. <<n, f[n - 1]>> \in (1 .. N) \X S
      BY <2>2, <3>1
    <3>3. f[n] = g[<<n, f[n - 1]>>]
      BY <1>1, <1>5, <2>2, IterationIs
    <3> QED
      BY <1>4, <3>1, <3>2, <3>3
  <2> QED
    BY <1>1, <2>1, <2>2
<1> QED
  BY <1>6 DEF Levels, N

\* A row that is new on a level has so many entities before it.
Deep(r, n) == \A m \in DOMAIN Order : Order[m] = r[1] => m >= n + 1

LEMMA ChildrenAreDeeper ==
  ASSUME NEW n \in Nat, NEW s, Deep(s, n), NEW r \in Children(s[1], s[2])
  PROVE  Deep(r, n + 1)
<1> SUFFICES ASSUME NEW m \in DOMAIN Order, Order[m] = r[1]
             PROVE  m >= n + 2
  BY DEF Deep
<1>1. s[1] \in Parents(Order[m])
  BY DEF Children
<1>2. PICK k \in 1 .. m - 1 : Order[k] = s[1]
  BY <1>1, RelationsAssumption
<1>3. DOMAIN Order = 1 .. Len(Order) /\ Len(Order) \in Nat
  BY RelationsAssumption
<1>4. k \in DOMAIN Order
  BY <1>2, <1>3
<1>5. k >= n + 1
  BY <1>2, <1>4 DEF Deep
<1> QED
  BY <1>2, <1>3, <1>5

\* Branch: the root, what is underneath it, and nothing else.
LEMMA BranchIs ==
  ASSUME NEW e \in Entities, NEW i \in Ids
  PROVE  LET branch == Branch(e, i) IN
         /\ <<e, i>> \in branch
         /\ Underneath(branch) \subseteq branch
         /\ \A r \in branch : r = <<e, i>> \/ r \in Underneath(branch)
<1> DEFINE root == <<e, i>>
           N == Len(Order)
           f == CHOOSE f : Levels(f, root)
<1>1. /\ N \in Nat /\ DOMAIN Order = 1 .. N
      /\ \E m \in DOMAIN Order : Order[m] = e
  BY RelationsAssumption DEF Entities, ToSet
<1>2. Levels(f, root)
  BY LevelsExist DEF Nodes
<1>3. Branch(e, i) = f[N]
  BY Zenon DEF Branch, Levels, Underneath
<1> HIDE DEF f
<1>4. f[0] = {root} /\ \A n \in 1 .. N : f[n] = f[n - 1] \cup Underneath(f[n - 1])
  <2>1. 0 \in 0 .. N /\ \A n \in 1 .. N : n \in 0 .. N /\ n # 0
    BY <1>1
  <2> QED
    BY <1>2, <2>1, Zenon DEF Levels
<1>5. \A n \in 0 .. N : \A r \in f[n] : Deep(r, n) \/ (n > 0 /\ r \in f[n - 1])
  <2> DEFINE S == {n \in 0 .. N : \A r \in f[n] : Deep(r, n) \/ (n > 0 /\ r \in f[n - 1])}
  <2>1. 0 \in S
    BY <1>1, <1>4 DEF Deep
  <2>2. ASSUME NEW n \in 0 .. N - 1, n \in S
        PROVE  n + 1 \in S
    <3>1. n + 1 \in 1 .. N /\ (n + 1) - 1 = n /\ n + 1 > 0 /\ n \in Nat
      BY <1>1
    <3>2. f[n + 1] = f[n] \cup Underneath(f[n])
      BY <1>4, <3>1
    <3>3. ASSUME NEW r \in f[n + 1], r \notin f[n]
          PROVE  Deep(r, n + 1)
      <4>1. PICK s \in f[n] : r \in Children(s[1], s[2])
        BY <3>2, <3>3 DEF Underneath
      <4>2. CASE Deep(s, n)
        BY <3>1, <4>1, <4>2, ChildrenAreDeeper
      <4>3. CASE n > 0 /\ s \in f[n - 1]
        <5>1. n \in 1 .. N
          BY <3>1, <4>3, <1>1
        <5>2. r \in f[n]
          BY <1>4, <4>1, <4>3, <5>1 DEF Underneath
        <5> QED
          BY <3>3, <5>2
      <4> QED
        BY <2>2, <4>1, <4>2, <4>3
    <3> QED
      BY <1>1, <3>1, <3>3
  <2> HIDE DEF S
  <2>3. \A n \in 0 .. N : n \in S
    BY <1>1, <2>1, <2>2, UpTo
  <2> QED
    BY <2>3 DEF S
<1>6. \A n \in 0 .. N : root \in f[n] /\ \A r \in f[n] : r = root \/ r \in Underneath(f[n])
  <2> DEFINE S == {n \in 0 .. N : /\ root \in f[n]
                                   /\ \A r \in f[n] : r = root \/ r \in Underneath(f[n])}
  <2>1. 0 \in S
    BY <1>1, <1>4
  <2>2. ASSUME NEW n \in 0 .. N - 1, n \in S
        PROVE  n + 1 \in S
    <3>1. n + 1 \in 1 .. N /\ n + 1 \in 0 .. N /\ (n + 1) - 1 = n
      BY <1>1
    <3>2. f[n + 1] = f[n] \cup Underneath(f[n])
      BY <1>4, <3>1
    <3>3. Underneath(f[n]) \subseteq Underneath(f[n + 1])
      BY <3>2 DEF Underneath
    <3> QED
      BY <2>2, <3>1, <3>2, <3>3
  <2> HIDE DEF S
  <2>3. \A n \in 0 .. N : n \in S
    BY <1>1, <2>1, <2>2, UpTo
  <2> QED
    BY <2>3 DEF S
<1>7. Underneath(f[N]) \subseteq f[N]
  <2>1. N > 0 /\ N \in 1 .. N /\ N \in 0 .. N
    BY <1>1
  <2>2. f[N] \subseteq f[N - 1]
    <3> SUFFICES ASSUME NEW r \in f[N], Deep(r, N) PROVE FALSE
      BY <1>5, <2>1
    <3>1. \E m \in DOMAIN Order : Order[m] = r[1]
      <4>1. r = root \/ r \in Underneath(f[N])
        BY <1>6, <2>1
      <4>2. r \in Nodes
        BY <4>1, ChildrenAreNodes DEF Nodes
      <4> QED
        BY <4>2 DEF Nodes, Entities, ToSet
    <3> QED
      BY <1>1, <3>1 DEF Deep
  <2>3. f[N] = f[N - 1] \cup Underneath(f[N - 1])
    BY <1>4, <2>1
  <2>4. Underneath(f[N]) \subseteq Underneath(f[N - 1])
    BY <2>2 DEF Underneath
  <2> QED
    BY <2>3, <2>4
<1>8. N \in 0 .. N
  BY <1>1
<1> QED
  BY <1>3, <1>6, <1>7, <1>8

-----------------------------------------------------------------------------
(* Sequences of stores and of rows                                         *)

LEMMA AppendAdds ==
  ASSUME NEW S, NEW s \in Seq(S), NEW x \in S
  PROVE  ToSet(Append(s, x)) = ToSet(s) \cup {x}
<1>1. /\ Len(s) \in Nat /\ DOMAIN s = 1 .. Len(s)
      /\ DOMAIN Append(s, x) = 1 .. Len(s) + 1
      /\ \A n \in 1 .. Len(s) : Append(s, x)[n] = s[n]
      /\ Append(s, x)[Len(s) + 1] = x
  OBVIOUS
<1>2. 1 .. Len(s) + 1 = (1 .. Len(s)) \cup {Len(s) + 1}
  BY <1>1
<1> QED
  BY <1>1, <1>2 DEF ToSet

\* newResource registers every entity with each of its parents.
LEMMA DependentsAre ==
  ASSUME NEW p
  PROVE  /\ Dependents(p) \in Seq(Entities)
         /\ ToSet(Dependents(p)) = {e \in Entities : p \in Parents(e)}
<1> DEFINE N == Len(Order)
           S == Seq(Entities)
           Next1(n, s) == IF p \in Parents(Order[n]) THEN Append(s, Order[n]) ELSE s
           Among(f) == f = [n \in 0 .. N |-> IF n = 0 THEN <<>> ELSE Next1(n, f[n - 1])]
           g == [x \in (1 .. N) \X S |-> Next1(x[1], x[2])]
<1>1. N \in Nat /\ DOMAIN Order = 1 .. N /\ \A n \in 1 .. N : Order[n] \in Entities
  BY RelationsAssumption DEF Entities, ToSet
<1>2. \A n \in 1 .. N, s \in S : Next1(n, s) \in S
  BY <1>1
<1>3. /\ g \in [(1 .. N) \X S -> S] /\ <<>> \in S
      /\ \A n \in 1 .. N, s \in S : g[<<n, s>>] = Next1(n, s)
  <2> HIDE DEF Next1, S, N
  <2>1. <<>> \in S
    BY DEF S
  <2> QED
    BY <1>2, <2>1
<1> HIDE DEF g, Next1
<1>4. PICK f \in [0 .. N -> S] : Iteration(f, N, <<>>, g)
  <2> HIDE DEF S, N
  <2> QED
    BY <1>1, <1>3, Iterates
<1>5. ASSUME NEW n \in 0 .. N
      PROVE  f[n] = IF n = 0 THEN <<>> ELSE Next1(n, f[n - 1])
  <2> HIDE DEF S
  <2>1. CASE n = 0
    BY <1>1, <1>4, <2>1, IterationIs
  <2>2. CASE n \in 1 .. N
    <3>1. n - 1 \in 0 .. N /\ n # 0
      BY <1>1, <2>2
    <3>2. f[n] = g[<<n, f[n - 1]>>]
      BY <1>1, <1>4, <2>2, IterationIs
    <3> QED
      BY <1>3, <2>2, <3>1, <3>2
  <2> QED
    BY <1>1, <2>1, <2>2
<1>6. \E h : Among(h)
  <2>1. f = [n \in 0 .. N |-> f[n]]
    OBVIOUS
  <2> QED
    BY <1>5, <2>1, Zenon
<1> DEFINE a == CHOOSE h : Among(h)
<1>7. Among(a)
  BY <1>6
<1>8. Dependents(p) = a[N]
  BY Zenon DEF Dependents, Next1
<1> HIDE DEF a
<1>9. a[0] = <<>> /\ \A n \in 1 .. N : a[n] = Next1(n, a[n - 1])
  <2>1. 0 \in 0 .. N /\ \A n \in 1 .. N : n \in 0 .. N /\ n # 0
    BY <1>1
  <2> QED
    BY <1>7, <2>1, Zenon
<1> DEFINE Upto(n) == {Order[m] : m \in {m \in 1 .. n : p \in Parents(Order[m])}}
           T == {n \in 0 .. N : a[n] \in S /\ ToSet(a[n]) = Upto(n)}
<1>10. 0 \in T
  <2>1. Upto(0) = {} /\ <<>> \in S /\ 0 \in 0 .. N
    BY <1>1
  <2>2. ToSet(<<>>) = {}
    BY DEF ToSet
  <2> HIDE DEF Upto, S
  <2> QED
    BY <1>9, <2>1, <2>2
<1>11. ASSUME NEW n \in 0 .. N - 1, n \in T
       PROVE  n + 1 \in T
  <2>1. n + 1 \in 1 .. N /\ n + 1 \in 0 .. N /\ (n + 1) - 1 = n
    BY <1>1
  <2>2. a[n + 1] = Next1(n + 1, a[n]) /\ a[n] \in S /\ ToSet(a[n]) = Upto(n)
    BY <1>9, <1>11, <2>1
  <2>3. a[n + 1] \in S
    BY <1>2, <2>1, <2>2
  <2>4. 1 .. n + 1 = (1 .. n) \cup {n + 1}
    BY <2>1
  <2>5. CASE p \in Parents(Order[n + 1])
    <3>1. Upto(n + 1) = Upto(n) \cup {Order[n + 1]}
      BY <2>4, <2>5
    <3>2. a[n + 1] = Append(a[n], Order[n + 1]) /\ Order[n + 1] \in Entities
      BY <1>1, <2>1, <2>2, <2>5 DEF Next1
    <3>3. ToSet(a[n + 1]) = ToSet(a[n]) \cup {Order[n + 1]}
      <4> HIDE DEF Next1, Upto
      <4>1. a[n] \in Seq(Entities)
        BY <2>2
      <4>2. ToSet(Append(a[n], Order[n + 1])) = ToSet(a[n]) \cup {Order[n + 1]}
        BY <3>2, <4>1, AppendAdds
      <4> QED
        BY <3>2, <4>2
    <3> HIDE DEF Upto, S
    <3> QED
      BY <2>1, <2>2, <2>3, <3>1, <3>3
  <2>6. CASE p \notin Parents(Order[n + 1])
    <3>1. Upto(n + 1) = Upto(n)
      BY <2>4, <2>6
    <3>2. a[n + 1] = a[n]
      BY <2>2, <2>6 DEF Next1
    <3> HIDE DEF Upto, S
    <3> QED
      BY <2>1, <2>2, <2>3, <3>1, <3>2
  <2> QED
    BY <2>5, <2>6
<1>12. N \in T
  <2> HIDE DEF T
  <2>1. \A n \in 0 .. N : n \in T
    BY <1>1, <1>10, <1>11, UpTo
  <2> QED
    BY <1>1, <2>1
<1>13. Upto(N) = {e \in Entities : p \in Parents(e)}
  BY <1>1 DEF Entities, ToSet
<1> QED
  BY <1>8, <1>12, <1>13

\* The ids a cascade found, in any order.
LEMMA OrdersAreAll ==
  ASSUME NEW found \in SUBSET Ids, NEW order \in SetToSeqs(found)
  PROVE  order \in Seq(Ids) /\ ToSet(order) = found
<1> DEFINE n == Cardinality(found)
<1>1. IsFiniteSet(found) /\ n \in Nat
  <2>1. MaxId \in Int /\ 1 \in Int
    BY BoundsAssumption
  <2>2. IsFiniteSet(Ids)
    BY <2>1, FS_Interval DEF Ids
  <2>3. IsFiniteSet(found)
    BY <2>2, FS_Subset
  <2> QED
    BY <2>3, FS_CardinalityType
<1>2. /\ order \in [1 .. n -> found]
      /\ \A i, j \in 1 .. n : i # j => order[i] # order[j]
  BY DEF SetToSeqs
<1>3. order \in Injection(1 .. n, found)
  BY <1>2 DEF Injection, IsInjective
<1>4. Cardinality(1 .. n) = n
  BY <1>1, FS_Interval
<1>5. order \in Surjection(1 .. n, found)
  BY <1>1, <1>3, <1>4, FS_Injection
<1>6. ToSet(order) = found
  BY <1>2, <1>5 DEF Surjection, ToSet
<1>7. order \in Seq(Ids)
  BY <1>1, <1>2
<1> QED
  BY <1>6, <1>7

-----------------------------------------------------------------------------
(* The inductive invariant                                                 *)

Task ==
  {t \in [do : {"delete", "search"}, entity : Entities, id : Ids, parent : Entities] :
     IF t.do = "delete" THEN t.parent = t.entity ELSE t.parent \in Parents(t.entity)}

Handlers ==
  [pc : {"idle", "find", "check", "cascade"}, op : {"none", "create", "update", "delete"},
   entity : Entities \cup {Order[1]}, id : 0 .. MaxId, data : [Entities -> 0 .. MaxId],
   left : Seq(Entities), work : Seq(Task)]

\* What a handler has left to do, at each of its points.
HandlerSound(q) ==
  /\ q \in Handlers
  /\ q.pc = "idle" => q.op = "none"
  /\ q.pc # "idle" => q.op # "none" /\ q.entity \in Entities
  /\ q.op \in {"update", "delete"} => q.id \in Ids
  /\ q.pc = "find" => q.op # "create"
  /\ q.op = "create" => \A p \in Parents(q.entity) : q.data[p] # 0
  /\ q.op = "delete" => q.left = <<>>
  /\ IF q.pc = "cascade" THEN q.op = "delete" /\ stack = "go" /\ q.work # <<>>
                         ELSE q.work = <<>>

RequestsSound == request \in [Clients -> Handlers] /\ \A c \in Clients : HandlerSound(request[c])

RowsTyped ==
  /\ stack \in {"go", "typescript", "python"}
  /\ live \in [Entities -> SUBSET Ids]
  /\ key \in [Entities -> [Ids -> [Entities -> 0 .. MaxId]]]
  /\ next \in [Entities -> 1 .. MaxId + 1]
  /\ raced \subseteq Nodes /\ moved \subseteq Nodes

\* Every create that was admitted finds an id for its row.
Room == \A e \in Entities : NewId(e) \in Nat /\ NewId(e) + Creating(e) <= MaxId + 1

\* A store in memory gives no id twice.
FreshIds == stack # "python" => \A e \in Entities : \A i \in live[e] : i < next[e]

\* Of Go: nothing names a row that is still to be made, except a key that is not checked yet.
KeysKnown ==
  stack = "go" =>
    /\ \A e \in Entities : \A i \in live[e] : \A p \in Entities : key[e][i][p] < next[p]
    /\ \A c \in Clients : request[c].op \in {"create", "update"} =>
         \A p \in Entities : p \in ToSet(request[c].left) \/ request[c].data[p] < next[p]

\* A search is for a row that is gone; a row to delete refers to one that is, or was moved.
TaskSound(t) ==
  IF t.do = "search" THEN t.id < next[t.parent] /\ t.id \notin live[t.parent]
  ELSE /\ t.id < next[t.entity]
       /\ t.id \in live[t.entity] =>
            \/ <<t.entity, t.id>> \in moved
            \/ \E p \in Parents(t.entity) : key[t.entity][t.id][p] \notin live[p]

TasksSound == stack = "go" => \A c \in Clients : \A t \in ToSet(request[c].work) : TaskSound(t)

IInv == /\ RowsTyped /\ RequestsSound /\ Room /\ FreshIds
        /\ KeysKnown /\ TasksSound /\ NoOrphans

-----------------------------------------------------------------------------
(* Lists of tasks                                                          *)

LEMMA Concats ==
  ASSUME NEW S, NEW s \in Seq(S), NEW t \in Seq(S)
  PROVE  s \o t \in Seq(S) /\ ToSet(s \o t) = ToSet(s) \cup ToSet(t)
<1>1. /\ Len(s) \in Nat /\ DOMAIN s = 1 .. Len(s)
      /\ Len(t) \in Nat /\ DOMAIN t = 1 .. Len(t)
      /\ DOMAIN (s \o t) = 1 .. Len(s) + Len(t)
      /\ \A n \in 1 .. Len(s) : (s \o t)[n] = s[n]
      /\ \A n \in 1 .. Len(t) : (s \o t)[Len(s) + n] = t[n]
      /\ s \o t \in Seq(S)
  OBVIOUS
<1>2. ToSet(s \o t) \subseteq ToSet(s) \cup ToSet(t)
  <2> SUFFICES ASSUME NEW n \in 1 .. Len(s) + Len(t)
               PROVE  (s \o t)[n] \in ToSet(s) \cup ToSet(t)
    BY <1>1 DEF ToSet
  <2>1. CASE n \in 1 .. Len(s)
    BY <1>1, <2>1 DEF ToSet
  <2>2. CASE n \notin 1 .. Len(s)
    <3>1. n - Len(s) \in 1 .. Len(t) /\ n = Len(s) + (n - Len(s))
      BY <1>1, <2>2
    <3>2. (s \o t)[n] = t[n - Len(s)]
      BY <1>1, <3>1
    <3> QED
      BY <1>1, <3>1, <3>2 DEF ToSet
  <2> QED
    BY <2>1, <2>2
<1>3. ToSet(s) \cup ToSet(t) \subseteq ToSet(s \o t)
  <2>1. \A n \in 1 .. Len(s) : s[n] \in ToSet(s \o t)
    BY <1>1 DEF ToSet
  <2>2. \A n \in 1 .. Len(t) : t[n] \in ToSet(s \o t)
    <3> TAKE n \in 1 .. Len(t)
    <3>1. Len(s) + n \in 1 .. Len(s) + Len(t)
      BY <1>1
    <3> QED
      BY <1>1, <3>1 DEF ToSet
  <2> QED
    BY <1>1, <2>1, <2>2 DEF ToSet
<1> QED
  BY <1>1, <1>2, <1>3

LEMMA HeadAndTail ==
  ASSUME NEW S, NEW s \in Seq(S), s # <<>>
  PROVE  /\ Head(s) \in S /\ Tail(s) \in Seq(S)
         /\ ToSet(s) = {Head(s)} \cup ToSet(Tail(s))
<1>1. /\ Len(s) \in Nat \ {0} /\ DOMAIN s = 1 .. Len(s)
      /\ Head(s) = s[1] /\ Tail(s) \in Seq(S)
      /\ DOMAIN Tail(s) = 1 .. Len(s) - 1
      /\ \A n \in 1 .. Len(s) - 1 : Tail(s)[n] = s[n + 1]
  OBVIOUS
<1>2. ToSet(s) \subseteq {Head(s)} \cup ToSet(Tail(s))
  <2> SUFFICES ASSUME NEW n \in 1 .. Len(s), n # 1
               PROVE  s[n] \in ToSet(Tail(s))
    BY <1>1 DEF ToSet
  <2>1. n - 1 \in 1 .. Len(s) - 1 /\ n = (n - 1) + 1
    BY <1>1
  <2>2. s[n] = Tail(s)[n - 1]
    BY <1>1, <2>1
  <2> QED
    BY <1>1, <2>1, <2>2 DEF ToSet
<1>3. ToSet(Tail(s)) \subseteq ToSet(s)
  <2>1. \A n \in 1 .. Len(s) - 1 : n + 1 \in 1 .. Len(s)
    BY <1>1
  <2> QED
    BY <1>1, <2>1 DEF ToSet
<1>4. Head(s) \in S /\ Head(s) \in ToSet(s)
  BY <1>1 DEF ToSet
<1> QED
  BY <1>1, <1>2, <1>3, <1>4

\* What a delete of row j of p goes on to search.
LEMMA SearchesAre ==
  ASSUME NEW p \in Entities, NEW j \in Ids
  PROVE  LET d == Dependents(p)
             s == [n \in DOMAIN d |-> Search(d[n], p, j)] IN
         /\ s \in Seq(Task)
         /\ ToSet(s) = {Search(e, p, j) : e \in {e \in Entities : p \in Parents(e)}}
<1> DEFINE d == Dependents(p)
           s == [n \in DOMAIN d |-> Search(d[n], p, j)]
<1>1. d \in Seq(Entities) /\ ToSet(d) = {e \in Entities : p \in Parents(e)}
  BY DependentsAre
<1> HIDE DEF d
<1>2. Len(d) \in Nat /\ DOMAIN d = 1 .. Len(d)
  BY <1>1
<1>3. \A e \in ToSet(d) : Search(e, p, j) \in Task
  BY <1>1 DEF Task, Search
<1>4. \A n \in DOMAIN d : d[n] \in ToSet(d)
  BY DEF ToSet
<1>5. s \in Seq(Task)
  BY <1>2, <1>3, <1>4
<1>6. ToSet(s) = {Search(e, p, j) : e \in ToSet(d)}
  BY DEF ToSet
<1> QED
  BY <1>1, <1>5, <1>6 DEF d

\* What a search of store e goes on to delete.
LEMMA RemovalsAre ==
  ASSUME NEW e \in Entities, NEW found \in SUBSET Ids, NEW order \in SetToSeqs(found)
  PROVE  LET s == [n \in DOMAIN order |-> Removal(e, order[n])] IN
         /\ s \in Seq(Task)
         /\ ToSet(s) = {Removal(e, i) : i \in found}
<1> DEFINE s == [n \in DOMAIN order |-> Removal(e, order[n])]
<1>1. order \in Seq(Ids) /\ ToSet(order) = found
  BY OrdersAreAll
<1>2. Len(order) \in Nat /\ DOMAIN order = 1 .. Len(order)
  BY <1>1
<1>3. \A i \in Ids : Removal(e, i) \in Task
  BY DEF Task, Removal
<1>4. s \in Seq(Task)
  BY <1>1, <1>2, <1>3
<1>5. ToSet(s) = {Removal(e, i) : i \in ToSet(order)}
  BY DEF ToSet
<1> QED
  BY <1>1, <1>4, <1>5

-----------------------------------------------------------------------------
(* Handlers                                                                *)

LEMMA IdsAreNumbers == /\ MaxId \in Nat /\ Ids \subseteq 0 .. MaxId
                       /\ \A i \in Ids : i \in Nat /\ i # 0
BY BoundsAssumption DEF Ids

LEMMA IdleIsSound == Idle \in Handlers /\ HandlerSound(Idle)
<1>1. NoKeys \in [Entities -> 0 .. MaxId] /\ 0 \in 0 .. MaxId
  BY BoundsAssumption DEF NoKeys
<1>2. <<>> \in Seq(Entities) /\ <<>> \in Seq(Task)
  OBVIOUS
<1>3. Idle \in Handlers
  BY <1>1, <1>2 DEF Idle, Handlers
<1> QED
  BY <1>3 DEF HandlerSound, Idle

LEMMA OneHandler ==
  ASSUME RequestsSound, NEW c \in Clients, NEW q, HandlerSound(q),
         request' = [request EXCEPT ![c] = q]
  PROVE  request' \in [Clients -> Handlers] /\ \A d \in Clients : HandlerSound(request'[d])
<1>1. q \in Handlers
  BY DEF HandlerSound
<1>2. request \in [Clients -> Handlers] /\ \A d \in Clients : HandlerSound(request[d])
  BY DEF RequestsSound
<1>3. \A d \in Clients : request'[d] = IF d = c THEN q ELSE request[d]
  BY <1>2
<1> QED
  BY <1>1, <1>2, <1>3

\* The parents a request names, in the order they are checked.
LEMMA RelationsAre ==
  ASSUME NEW e \in Entities
  PROVE  BelongsTo[e] \in Seq(Entities) /\ Parents(e) \subseteq Entities
<1>1. BelongsTo[e] \in Seq(Entities)
  BY RelationsAssumption
<1> QED
  BY <1>1 DEF Parents, ToSet

LEMMA SendIsSound ==
  ASSUME RequestsSound, NEW c \in Clients, Send(c)
  PROVE  request' \in [Clients -> Handlers] /\ \A d \in Clients : HandlerSound(request'[d])
<1> PICK e \in Entities :
       \/ \E data \in SetBy(e, TRUE) :
            request' = [request EXCEPT ![c] =
                 [Idle EXCEPT !.pc = "check", !.op = "create", !.entity = e, !.data = data,
                              !.left = BelongsTo[e]]]
       \/ \E i \in Ids, data \in SetBy(e, FALSE) \ {NoKeys} :
            request' = [request EXCEPT ![c] =
              [Idle EXCEPT !.pc = "find", !.op = "update", !.entity = e, !.id = i, !.data = data,
                           !.left = BelongsTo[e]]]
       \/ \E i \in Ids :
            request' = [request EXCEPT ![c] =
              [Idle EXCEPT !.pc = "find", !.op = "delete", !.entity = e, !.id = i]]
  BY DEF Send
<1>1. \A i \in Ids : i \in 0 .. MaxId
  BY IdsAreNumbers
<1>2. \A all \in BOOLEAN : SetBy(e, all) \subseteq [Entities -> 0 .. MaxId]
  BY DEF SetBy
<1>3. BelongsTo[e] \in Seq(Entities) /\ Idle \in Handlers /\ HandlerSound(Idle)
  BY RelationsAre, IdleIsSound
<1>4. CASE \E data \in SetBy(e, TRUE) :
            request' = [request EXCEPT ![c] =
                 [Idle EXCEPT !.pc = "check", !.op = "create", !.entity = e, !.data = data,
                              !.left = BelongsTo[e]]]
  <2> PICK data \in SetBy(e, TRUE) :
            request' = [request EXCEPT ![c] =
                 [Idle EXCEPT !.pc = "check", !.op = "create", !.entity = e, !.data = data,
                              !.left = BelongsTo[e]]]
    BY <1>4
  <2> DEFINE q == [Idle EXCEPT !.pc = "check", !.op = "create", !.entity = e, !.data = data,
                              !.left = BelongsTo[e]]
  <2>1. q \in Handlers
    BY <1>2, <1>3 DEF Handlers
  <2>2. /\ q.pc = "check" /\ q.op = "create" /\ q.entity = e /\ q.data = data /\ q.work = <<>>
    BY <1>3 DEF Handlers, Idle
  <2>3. \A p \in Parents(e) : data[p] # 0
    BY DEF SetBy
  <2> HIDE DEF q
  <2>4. HandlerSound(q)
    BY <2>1, <2>2, <2>3 DEF HandlerSound
  <2> QED
    BY <2>4, OneHandler DEF q
<1>5. CASE \E i \in Ids, data \in SetBy(e, FALSE) \ {NoKeys} :
            request' = [request EXCEPT ![c] =
              [Idle EXCEPT !.pc = "find", !.op = "update", !.entity = e, !.id = i, !.data = data,
                           !.left = BelongsTo[e]]]
  <2> PICK i \in Ids, data \in SetBy(e, FALSE) \ {NoKeys} :
            request' = [request EXCEPT ![c] =
              [Idle EXCEPT !.pc = "find", !.op = "update", !.entity = e, !.id = i, !.data = data,
                           !.left = BelongsTo[e]]]
    BY <1>5
  <2> DEFINE q == [Idle EXCEPT !.pc = "find", !.op = "update", !.entity = e, !.id = i,
                              !.data = data, !.left = BelongsTo[e]]
  <2>1. q \in Handlers
    BY <1>1, <1>2, <1>3 DEF Handlers
  <2>2. q.pc = "find" /\ q.op = "update" /\ q.entity = e /\ q.id = i /\ q.work = <<>>
    BY <1>3 DEF Handlers, Idle
  <2> HIDE DEF q
  <2>4. HandlerSound(q)
    BY <2>1, <2>2 DEF HandlerSound
  <2> QED
    BY <2>4, OneHandler DEF q
<1>6. CASE \E i \in Ids :
            request' = [request EXCEPT ![c] =
              [Idle EXCEPT !.pc = "find", !.op = "delete", !.entity = e, !.id = i]]
  <2> PICK i \in Ids :
            request' = [request EXCEPT ![c] =
              [Idle EXCEPT !.pc = "find", !.op = "delete", !.entity = e, !.id = i]]
    BY <1>6
  <2> DEFINE q == [Idle EXCEPT !.pc = "find", !.op = "delete", !.entity = e, !.id = i]
  <2>1. q \in Handlers
    BY <1>1, <1>3 DEF Handlers
  <2>2. /\ q.pc = "find" /\ q.op = "delete" /\ q.entity = e /\ q.id = i
        /\ q.work = <<>> /\ q.left = <<>>
    BY <1>3 DEF Handlers, Idle
  <2> HIDE DEF q
  <2>4. HandlerSound(q)
    BY <2>1, <2>2 DEF HandlerSound
  <2> QED
    BY <2>4, OneHandler DEF q
<1> QED
  BY <1>4, <1>5, <1>6

LEMMA AnswerIsSound ==
  ASSUME RequestsSound, NEW c \in Clients, Answer(c)
  PROVE  request' \in [Clients -> Handlers] /\ \A d \in Clients : HandlerSound(request'[d])
BY IdleIsSound, OneHandler DEF Answer

LEMMA FindIsSound ==
  ASSUME RequestsSound, NEW c \in Clients, Find(c)
  PROVE  request' \in [Clients -> Handlers] /\ \A d \in Clients : HandlerSound(request'[d])
<1>1. CASE Answer(c)
  BY <1>1, AnswerIsSound
<1>2. CASE Goto(c, "check")
  <2> DEFINE q == [request[c] EXCEPT !.pc = "check"]
  <2>1. request[c] \in Handlers /\ HandlerSound(request[c]) /\ request[c].pc = "find"
    BY DEF RequestsSound, Find
  <2>2. /\ q.pc = "check" /\ q.op = request[c].op /\ q.entity = request[c].entity
        /\ q.id = request[c].id /\ q.data = request[c].data /\ q.left = request[c].left
        /\ q.work = request[c].work /\ q \in Handlers
    BY <2>1 DEF Handlers
  <2>3. request' = [request EXCEPT ![c] = q]
    BY <1>2 DEF Goto
  <2> HIDE DEF q
  <2>4. HandlerSound(q)
    BY <2>1, <2>2 DEF HandlerSound
  <2> QED
    BY <2>3, <2>4, OneHandler
<1> QED
  BY <1>1, <1>2 DEF Find

LEMMA CheckParentIsSound ==
  ASSUME RequestsSound, NEW c \in Clients, CheckParent(c)
  PROVE  request' \in [Clients -> Handlers] /\ \A d \in Clients : HandlerSound(request'[d])
<1>1. CASE Answer(c)
  BY <1>1, AnswerIsSound
<1>2. CASE request' = [request EXCEPT ![c].left = Tail(@)]
  <2> DEFINE q == [request[c] EXCEPT !.left = Tail(@)]
  <2>1. /\ request[c] \in Handlers /\ HandlerSound(request[c])
        /\ request[c].pc = "check" /\ request[c].left # <<>>
    BY DEF RequestsSound, CheckParent
  <2>2. Tail(request[c].left) \in Seq(Entities)
    BY <2>1 DEF Handlers
  <2>3. /\ q.pc = request[c].pc /\ q.op = request[c].op /\ q.entity = request[c].entity
        /\ q.id = request[c].id /\ q.data = request[c].data
        /\ q.work = request[c].work /\ q \in Handlers
    BY <2>1, <2>2 DEF Handlers
  <2>4. request' = [request EXCEPT ![c] = q]
    BY <1>2
  <2>5. request[c].op # "delete"
    BY <2>1 DEF HandlerSound
  <2> HIDE DEF q
  <2>6. HandlerSound(q)
    BY <2>1, <2>3, <2>5 DEF HandlerSound
  <2> QED
    BY <2>4, <2>6, OneHandler
<1> QED
  BY <1>1, <1>2 DEF CheckParent

LEMMA ContinueIsSound ==
  ASSUME RequestsSound, NEW c \in Clients, NEW work \in Seq(Task),
         request[c].op = "delete", stack = "go", Continue(c, work)
  PROVE  request' \in [Clients -> Handlers] /\ \A d \in Clients : HandlerSound(request'[d])
<1>1. CASE work = <<>>
  BY <1>1, IdleIsSound, OneHandler DEF Continue
<1>2. CASE work # <<>>
  <2> DEFINE q == [request[c] EXCEPT !.pc = "cascade", !.work = work]
  <2>1. request[c] \in Handlers /\ HandlerSound(request[c])
    BY DEF RequestsSound
  <2>2. /\ q.pc = "cascade" /\ q.op = request[c].op /\ q.entity = request[c].entity
        /\ q.id = request[c].id /\ q.data = request[c].data /\ q.left = request[c].left
        /\ q.work = work /\ q \in Handlers
    BY <2>1 DEF Handlers
  <2>3. request' = [request EXCEPT ![c] = q]
    BY <1>2 DEF Continue
  <2> HIDE DEF q
  <2>4. HandlerSound(q)
    <3>1. q.entity \in Entities /\ q.id \in Ids /\ q.left = <<>>
      BY <2>1, <2>2 DEF HandlerSound
    <3> QED
      BY <1>2, <2>2, <3>1 DEF HandlerSound
  <2> QED
    BY <2>3, <2>4, OneHandler
<1> QED
  BY <1>1, <1>2

\* Delete: nothing to do for a row that is gone, or its children to search.
LEMMA DeleteItemIs ==
  ASSUME NEW c \in Clients, NEW t \in Task, t.do = "delete", NEW rest \in Seq(Task),
         DeleteItem(c, t, rest)
  PROVE  \E work \in Seq(Task) :
           /\ Continue(c, work)
           /\ \/ /\ t.id \in live[t.entity] /\ Erase({<<t.entity, t.id>>})
                 /\ ToSet(work) = {Search(e, t.entity, t.id) :
                                     e \in {e \in Entities : t.entity \in Parents(e)}}
                                   \cup ToSet(rest)
              \/ t.id \notin live[t.entity] /\ UNCHANGED <<rows, history>> /\ work = rest
<1>1. CASE t.id \notin live[t.entity]
  BY <1>1 DEF DeleteItem
<1>2. CASE t.id \in live[t.entity]
  <2> DEFINE d == Dependents(t.entity)
             s == [n \in DOMAIN d |-> Search(d[n], t.entity, t.id)]
  <2>1. t.entity \in Entities /\ t.id \in Ids
    BY DEF Task
  <2>2. /\ s \in Seq(Task)
        /\ ToSet(s) = {Search(e, t.entity, t.id) :
                         e \in {e \in Entities : t.entity \in Parents(e)}}
    BY <2>1, SearchesAre
  <2>3. Erase({<<t.entity, t.id>>}) /\ Continue(c, s \o rest)
    BY <1>2 DEF DeleteItem
  <2> HIDE DEF s
  <2>4. s \o rest \in Seq(Task) /\ ToSet(s \o rest) = ToSet(s) \cup ToSet(rest)
    BY <2>2, Concats
  <2> QED
    BY <1>2, <2>2, <2>3, <2>4
<1> QED
  BY <1>1, <1>2

LEMMA StartDeleteIs ==
  ASSUME RequestsSound, NEW c \in Clients, StartDelete(c)
  PROVE  LET t == Removal(request[c].entity, request[c].id) IN
         /\ t \in Task /\ t.do = "delete" /\ DeleteItem(c, t, <<>>) /\ stack' = stack
         /\ t.entity = request[c].entity /\ t.id = request[c].id
         /\ request[c].op = "delete" /\ stack = "go" /\ request[c].work = <<>>
         /\ request[c].pc = "find"
<1>1. HandlerSound(request[c]) /\ request[c].pc = "find" /\ request[c].op = "delete"
  BY DEF RequestsSound, StartDelete
<1>2. request[c].entity \in Entities /\ request[c].id \in Ids /\ request[c].work = <<>>
  BY <1>1 DEF HandlerSound
<1> QED
  BY <1>1, <1>2 DEF StartDelete, Task, Removal

\* A cascade is at the first of its tasks.
LEMMA CascadeIs ==
  ASSUME RequestsSound, NEW c \in Clients, request[c].pc = "cascade"
  PROVE  LET w == request[c].work IN
         /\ w # <<>> /\ w \in Seq(Task) /\ Head(w) \in Task /\ Tail(w) \in Seq(Task)
         /\ ToSet(w) = {Head(w)} \cup ToSet(Tail(w))
         /\ request[c].op = "delete" /\ stack = "go"
<1>1. HandlerSound(request[c]) /\ request[c] \in Handlers
  BY DEF RequestsSound
<1>2. /\ request[c].work \in Seq(Task) /\ request[c].work # <<>>
      /\ request[c].op = "delete" /\ stack = "go"
  BY <1>1 DEF Handlers, HandlerSound
<1> QED
  BY <1>2, HeadAndTail

LEMMA SearchStoreIs ==
  ASSUME RequestsSound, RowsTyped, NEW c \in Clients, SearchStore(c)
  PROVE  LET t == Head(request[c].work)
             found == {i \in live[t.entity] : Refers(t.entity, i, t.parent, t.id)} IN
         /\ t \in Task /\ t.do = "search"
         /\ \E work \in Seq(Task) :
              /\ Continue(c, work)
              /\ ToSet(work) = {Removal(t.entity, i) : i \in found} \cup ToSet(Tail(request[c].work))
<1> DEFINE t == Head(request[c].work)
           found == {i \in live[t.entity] : Refers(t.entity, i, t.parent, t.id)}
<1>1. /\ t \in Task /\ t.do = "search" /\ Tail(request[c].work) \in Seq(Task)
  BY CascadeIs DEF SearchStore
<1>2. found \in SUBSET Ids /\ t.entity \in Entities
  BY <1>1 DEF RowsTyped, Task
<1>3. PICK order \in SetToSeqs(found) :
        Continue(c, [n \in DOMAIN order |-> Removal(t.entity, order[n])] \o Tail(request[c].work))
  BY DEF SearchStore
<1> HIDE DEF found
<1> DEFINE s == [n \in DOMAIN order |-> Removal(t.entity, order[n])]
<1>4. s \in Seq(Task) /\ ToSet(s) = {Removal(t.entity, i) : i \in found}
  BY <1>2, RemovalsAre
<1> HIDE DEF s
<1>5. /\ s \o Tail(request[c].work) \in Seq(Task)
      /\ ToSet(s \o Tail(request[c].work)) = ToSet(s) \cup ToSet(Tail(request[c].work))
  BY <1>1, <1>4, Concats
<1>6. Continue(c, s \o Tail(request[c].work))
  BY <1>3 DEF s
<1> QED
  BY <1>1, <1>4, <1>5, <1>6 DEF found

LEMMA RemoveChildIs ==
  ASSUME RequestsSound, NEW c \in Clients, RemoveChild(c)
  PROVE  LET w == request[c].work IN
         /\ w # <<>> /\ Head(w) \in Task /\ Head(w).do = "delete" /\ Tail(w) \in Seq(Task)
         /\ DeleteItem(c, Head(w), Tail(w)) /\ stack' = stack
         /\ ToSet(w) = {Head(w)} \cup ToSet(Tail(w))
         /\ request[c].op = "delete" /\ stack = "go" /\ request[c].pc = "cascade"
BY CascadeIs DEF RemoveChild

LEMMA RequestsStay ==
  ASSUME RequestsSound, RowsTyped, Next
  PROVE  RequestsSound' /\ stack' = stack
<1>1. PICK c \in Clients :
        \/ Send(c) \/ Find(c) \/ CheckParent(c) \/ Create(c) \/ Update(c)
        \/ Handle(c) \/ Commit(c)
        \/ StartDelete(c) \/ SearchStore(c) \/ RemoveChild(c)
  BY Zenon DEF Next
<1>2. stack' = stack
  BY <1>1, Zenon DEF Send, Find, CheckParent, Create, Update, Handle, Commit, StartDelete,
                     SearchStore, RemoveChild
<1> DEFINE Goal == /\ request' \in [Clients -> Handlers]
                   /\ \A d \in Clients : HandlerSound(request'[d])
<1> SUFFICES Goal
  BY <1>2 DEF RequestsSound, HandlerSound
<1>3. CASE Send(c) \/ Find(c) \/ CheckParent(c)
  BY <1>3, SendIsSound, FindIsSound, CheckParentIsSound
<1>4. CASE Create(c) \/ Update(c) \/ Handle(c) \/ Commit(c)
  <2>1. Answer(c)
    BY <1>4, Zenon DEF Create, Update, Handle, Commit
  <2> QED
    BY <2>1, AnswerIsSound
<1>5. CASE StartDelete(c)
  <2>1. <<>> \in Seq(Task)
    OBVIOUS
  <2>2. \E work \in Seq(Task) : Continue(c, work)
    BY <1>5, <2>1, StartDeleteIs, DeleteItemIs
  <2> QED
    BY <1>5, <2>2, StartDeleteIs, ContinueIsSound
<1>6. CASE SearchStore(c)
  <2>1. request[c].op = "delete" /\ stack = "go"
    BY <1>6, CascadeIs DEF SearchStore
  <2> QED
    BY <1>6, <2>1, SearchStoreIs, ContinueIsSound
<1>7. CASE RemoveChild(c)
  <2>1. \E work \in Seq(Task) : Continue(c, work)
    BY <1>7, RemoveChildIs, DeleteItemIs
  <2> QED
    BY <1>7, <2>1, RemoveChildIs, ContinueIsSound
<1> QED
  BY <1>1, <1>3, <1>4, <1>5, <1>6, <1>7

-----------------------------------------------------------------------------
(* Steps                                                                   *)

\* What is known when a handler writes: in Go all its keys were checked, one after the
\* other; elsewhere they hold.
Allowed(c) == IF stack = "go" THEN request[c].left = <<>> ELSE ~Broken(request[c].data)

InsertStep(c) ==
  /\ request[c].pc # "idle" /\ request[c].op = "create" /\ Allowed(c)
  /\ Insert(request[c].entity, request[c].data)
  /\ Answer(c)

MergeStep(c) ==
  /\ request[c].pc # "idle" /\ request[c].op = "update" /\ Allowed(c)
  /\ request[c].id \in live[request[c].entity]
  /\ Merge(request[c].entity, request[c].id, request[c].data)
  /\ Answer(c)

BranchStep(c) ==
  /\ request[c].pc # "idle" /\ request[c].op = "delete" /\ stack # "go"
  /\ request[c].id \in live[request[c].entity]
  /\ Erase(Branch(request[c].entity, request[c].id))
  /\ Answer(c)

AnswerStep(c) == request[c].pc # "cascade" /\ UNCHANGED <<rows, history>> /\ Answer(c)

\* A Go delete of a row that was asked for, or that is on the list.
RemovalStep(c) ==
  \E t \in Task, rest \in Seq(Task), work \in Seq(Task) :
    /\ t.do = "delete" /\ stack = "go" /\ request[c].op = "delete" /\ request[c].pc # "idle"
    /\ \/ t.entity = request[c].entity /\ t.id = request[c].id
       \/ t \in ToSet(request[c].work)
    /\ ToSet(request[c].work) \subseteq {t} \cup ToSet(rest)
    /\ ToSet(rest) \subseteq ToSet(request[c].work)
    /\ Continue(c, work)
    /\ \/ /\ t.id \in live[t.entity] /\ Erase({<<t.entity, t.id>>})
          /\ ToSet(work) = {Search(e, t.entity, t.id) :
                              e \in {e \in Entities : t.entity \in Parents(e)}}
                            \cup ToSet(rest)
       \/ t.id \notin live[t.entity] /\ UNCHANGED <<rows, history>> /\ work = rest

SearchStep(c) ==
  \E t \in Task, work \in Seq(Task) :
    /\ t.do = "search" /\ stack = "go" /\ request[c].op = "delete" /\ request[c].pc # "idle"
    /\ t \in ToSet(request[c].work)
    /\ ToSet(work) = {Removal(t.entity, i) :
                        i \in {i \in live[t.entity] : Refers(t.entity, i, t.parent, t.id)}}
                      \cup ToSet(Tail(request[c].work))
    /\ ToSet(request[c].work) = {t} \cup ToSet(Tail(request[c].work))
    /\ Continue(c, work)
    /\ UNCHANGED <<rows, history>>

LEMMA AsOneIs ==
  ASSUME NEW c \in Clients, AsOne(request[c]), Answer(c), stack # "go",
         request[c].pc \in {"find", "check"}
  PROVE  InsertStep(c) \/ MergeStep(c) \/ BranchStep(c) \/ AnswerStep(c)
<1>1. request[c].pc # "idle" /\ request[c].pc # "cascade"
  OBVIOUS
<1> DEFINE r == request[c]
           found == r.id \in live[r.entity]
<1>2. CASE r.op = "create" /\ ~Broken(r.data)
  <2>1. Insert(r.entity, r.data)
    BY <1>2 DEF AsOne
  <2> QED
    BY <1>1, <1>2, <2>1 DEF InsertStep, Allowed
<1>3. CASE r.op = "update" /\ found /\ ~Broken(r.data)
  <2>1. Merge(r.entity, r.id, r.data)
    BY <1>3 DEF AsOne
  <2> QED
    BY <1>1, <1>3, <2>1 DEF MergeStep, Allowed
<1>4. CASE r.op = "delete" /\ found
  <2>1. Erase(Branch(r.entity, r.id))
    BY <1>4 DEF AsOne
  <2> QED
    BY <1>1, <1>4, <2>1 DEF BranchStep
<1>5. CASE /\ ~(r.op = "create" /\ ~Broken(r.data))
           /\ ~(r.op = "update" /\ found /\ ~Broken(r.data))
           /\ ~(r.op = "delete" /\ found)
  <2>1. UNCHANGED <<rows, history>>
    BY <1>5 DEF AsOne
  <2> QED
    BY <1>1, <2>1 DEF AnswerStep
<1> QED
  BY <1>2, <1>3, <1>4, <1>5

LEMMA Steps ==
  ASSUME RequestsSound, RowsTyped, Next
  PROVE  \E c \in Clients :
           \/ Send(c) \/ Find(c) \/ CheckParent(c) \/ AnswerStep(c)
           \/ InsertStep(c) \/ MergeStep(c) \/ BranchStep(c)
           \/ RemovalStep(c) \/ SearchStep(c)
<1>1. PICK c \in Clients :
        \/ Send(c) \/ Find(c) \/ CheckParent(c) \/ Create(c) \/ Update(c)
        \/ Handle(c) \/ Commit(c)
        \/ StartDelete(c) \/ SearchStore(c) \/ RemoveChild(c)
  BY Zenon DEF Next
<1> SUFFICES \/ Send(c) \/ Find(c) \/ CheckParent(c) \/ AnswerStep(c)
             \/ InsertStep(c) \/ MergeStep(c) \/ BranchStep(c)
             \/ RemovalStep(c) \/ SearchStep(c)
  BY Zenon
<1>2. CASE Create(c)
  BY <1>2 DEF Create, Checked, InsertStep, Allowed
<1>3. CASE Update(c)
  <2>1. CASE request[c].id \in live[request[c].entity]
    BY <1>3, <2>1 DEF Update, Checked, MergeStep, Allowed
  <2>2. CASE request[c].id \notin live[request[c].entity]
    BY <1>3, <2>2 DEF Update, Checked, AnswerStep
  <2> QED
    BY <2>1, <2>2
<1>4. CASE Handle(c)
  BY <1>4, AsOneIs DEF Handle
<1>5. CASE Commit(c)
  BY <1>5, AsOneIs DEF Commit, Checked
<1>6. CASE StartDelete(c)
  <2> DEFINE t == Removal(request[c].entity, request[c].id)
  <2>1. /\ t \in Task /\ t.do = "delete" /\ DeleteItem(c, t, <<>>)
        /\ t.entity = request[c].entity /\ t.id = request[c].id
        /\ request[c].op = "delete" /\ stack = "go" /\ request[c].work = <<>>
        /\ request[c].pc # "idle"
    BY <1>6, StartDeleteIs
  <2>2. <<>> \in Seq(Task) /\ ToSet(<<>>) = {}
    BY DEF ToSet
  <2> HIDE DEF t
  <2>3. PICK work \in Seq(Task) :
           /\ Continue(c, work)
           /\ \/ /\ t.id \in live[t.entity] /\ Erase({<<t.entity, t.id>>})
                 /\ ToSet(work) = {Search(e, t.entity, t.id) :
                                     e \in {e \in Entities : t.entity \in Parents(e)}}
                                   \cup ToSet(<<>>)
              \/ t.id \notin live[t.entity] /\ UNCHANGED <<rows, history>> /\ work = <<>>
    BY <2>1, <2>2, DeleteItemIs
  <2>4. RemovalStep(c)
    BY <2>1, <2>2, <2>3, Zenon DEF RemovalStep
  <2> QED
    BY <2>4
<1>7. CASE RemoveChild(c)
  <2> DEFINE w == request[c].work
             t == Head(w)
             rest == Tail(w)
  <2>1. /\ t \in Task /\ t.do = "delete" /\ DeleteItem(c, t, rest) /\ rest \in Seq(Task)
        /\ request[c].op = "delete" /\ stack = "go" /\ ToSet(w) = {t} \cup ToSet(rest)
        /\ request[c].pc # "idle"
    BY <1>7, RemoveChildIs
  <2> HIDE DEF t, rest
  <2>2. PICK work \in Seq(Task) :
           /\ Continue(c, work)
           /\ \/ /\ t.id \in live[t.entity] /\ Erase({<<t.entity, t.id>>})
                 /\ ToSet(work) = {Search(e, t.entity, t.id) :
                                     e \in {e \in Entities : t.entity \in Parents(e)}}
                                   \cup ToSet(rest)
              \/ t.id \notin live[t.entity] /\ UNCHANGED <<rows, history>> /\ work = rest
    BY <2>1, DeleteItemIs
  <2>3. t \in ToSet(w) /\ ToSet(w) \subseteq {t} \cup ToSet(rest) /\ ToSet(rest) \subseteq ToSet(w)
    BY <2>1
  <2>4. RemovalStep(c)
    BY <2>1, <2>2, <2>3, Zenon DEF RemovalStep
  <2> QED
    BY <2>4
<1>8. CASE SearchStore(c)
  <2> DEFINE t == Head(request[c].work)
  <2>1. /\ request[c].pc = "cascade" /\ request[c].op = "delete" /\ stack = "go"
        /\ ToSet(request[c].work) = {t} \cup ToSet(Tail(request[c].work))
    BY <1>8, CascadeIs DEF SearchStore
  <2>2. UNCHANGED <<rows, history>>
    BY <1>8 DEF SearchStore
  <2>3. PICK work \in Seq(Task) :
          /\ Continue(c, work)
          /\ ToSet(work) = {Removal(t.entity, i) :
                              i \in {i \in live[t.entity] : Refers(t.entity, i, t.parent, t.id)}}
                            \cup ToSet(Tail(request[c].work))
    BY <1>8, SearchStoreIs
  <2>4. t \in Task /\ t.do = "search"
    BY <1>8, SearchStoreIs
  <2> HIDE DEF t
  <2>5. t \in ToSet(request[c].work) /\ request[c].pc # "idle"
    BY <2>1
  <2>6. SearchStep(c)
    BY <2>1, <2>2, <2>3, <2>4, <2>5, Zenon DEF SearchStep
  <2> QED
    BY <2>6
<1> QED
  BY <1>1, <1>2, <1>3, <1>4, <1>5, <1>6, <1>7, <1>8

-----------------------------------------------------------------------------
(* Rows                                                                    *)

LEMMA LargestId ==
  ASSUME NEW L \in SUBSET Ids
  PROVE  /\ Max(L \cup {0}) \in 0 .. MaxId /\ Max(L \cup {0}) \in L \cup {0}
         /\ \A i \in L : i <= Max(L \cup {0})
<1> DEFINE T == L \cup {0}
           D == {d \in Nat : MaxId - d \in T}
<1>1. T \subseteq 0 .. MaxId /\ MaxId \in Nat
  BY IdsAreNumbers
<1>2. MaxId \in D
  BY <1>1
<1>3. D \subseteq Nat
  OBVIOUS
<1>4. PICK d \in D : \A y \in D : ~ (<<y, d>> \in Below)
  BY <1>2, <1>3, NoDescent, WFMin, Zenon
<1>5. \A x \in T : x <= MaxId - d
  <2> TAKE x \in T
  <2>1. x \in Nat /\ MaxId - x \in Nat /\ MaxId - (MaxId - x) = x
    BY <1>1
  <2>2. ~ (MaxId - x < d)
    BY <1>4, <2>1 DEF Below
  <2> QED
    BY <1>1, <2>1, <2>2
<1>6. MaxId - d \in T /\ \A y \in T : MaxId - d >= y
  BY <1>1, <1>5
<1>7. Max(T) \in T /\ \A y \in T : Max(T) >= y
  <2> HIDE DEF T, D
  <2>1. \E z \in T : \A y \in T : z >= y
    BY <1>6
  <2> QED
    BY <2>1, Zenon DEF Max
<1>8. Max(T) \in 0 .. MaxId /\ \A i \in T : i <= Max(T)
  <2> HIDE DEF T, D
  <2> QED
    BY <1>1, <1>7
<1> QED
  BY <1>7, <1>8

\* The id an insert gives is behind those of all the rows there are.
LEMMA NewIdIs ==
  ASSUME RowsTyped, FreshIds, NEW e \in Entities
  PROVE  /\ NewId(e) \in 1 .. MaxId + 1
         /\ \A i \in live[e] : i \in Nat /\ i < NewId(e)
<1>1. live[e] \in SUBSET Ids /\ next[e] \in 1 .. MaxId + 1 /\ MaxId \in Nat
  BY IdsAreNumbers DEF RowsTyped
<1>2. CASE stack = "python"
  <2>1. NewId(e) = 1 + Max(live[e] \cup {0})
    BY <1>2 DEF NewId
  <2>2. /\ Max(live[e] \cup {0}) \in 0 .. MaxId
        /\ \A i \in live[e] : i <= Max(live[e] \cup {0})
    BY <1>1, LargestId
  <2>3. \A i \in live[e] : i \in Nat
    BY <1>1, IdsAreNumbers
  <2> DEFINE m == Max(live[e] \cup {0})
  <2> HIDE DEF m
  <2> QED
    BY <1>1, <2>1, <2>2, <2>3 DEF m
<1>3. CASE stack # "python"
  <2>1. NewId(e) = next[e] /\ \A i \in live[e] : i < next[e]
    BY <1>3 DEF NewId, FreshIds
  <2> QED
    BY <1>1, <2>1, IdsAreNumbers
<1> QED
  BY <1>2, <1>3

CreatorsOf(r, e) == {c \in Clients : r[c].op = "create" /\ r[c].entity = e}

LEMMA FewerCreators ==
  ASSUME NEW r, NEW s, NEW e,
         \A d \in Clients : s[d].op = "create" => r[d].op = "create" /\ s[d].entity = r[d].entity
  PROVE  /\ Cardinality(CreatorsOf(r, e)) \in Nat /\ Cardinality(CreatorsOf(s, e)) \in Nat
         /\ Cardinality(CreatorsOf(s, e)) <= Cardinality(CreatorsOf(r, e))
         /\ \A c \in CreatorsOf(r, e) : c \notin CreatorsOf(s, e) =>
              Cardinality(CreatorsOf(s, e)) <= Cardinality(CreatorsOf(r, e)) - 1
<1> DEFINE R == CreatorsOf(r, e)
           S == CreatorsOf(s, e)
<1>1. S \subseteq R /\ R \subseteq Clients /\ IsFiniteSet(Clients)
  BY BoundsAssumption DEF CreatorsOf
<1> HIDE DEF R, S
<1>2. IsFiniteSet(R)
  BY <1>1, FS_Subset
<1>3. IsFiniteSet(S) /\ Cardinality(S) <= Cardinality(R)
  BY <1>1, <1>2, FS_Subset
<1>4. Cardinality(S) \in Nat /\ Cardinality(R) \in Nat
  BY <1>2, <1>3, FS_CardinalityType
<1>5. ASSUME NEW c \in R, c \notin S
      PROVE  Cardinality(S) <= Cardinality(R) - 1
  <2>1. S \subseteq R \ {c}
    BY <1>1, <1>5
  <2>2. IsFiniteSet(R \ {c}) /\ Cardinality(R \ {c}) = Cardinality(R) - 1
    BY <1>2, <1>5, FS_RemoveElement
  <2> QED
    BY <2>1, <2>2, FS_Subset
<1> QED
  BY <1>3, <1>4, <1>5 DEF R, S

LEMMA OneMoreCreator ==
  ASSUME NEW r, NEW s, NEW e, NEW c \in Clients, \A d \in Clients : d # c => s[d] = r[d]
  PROVE  Cardinality(CreatorsOf(s, e)) <= Cardinality(CreatorsOf(r, e)) + 1
<1> DEFINE R == CreatorsOf(r, e)
           S == CreatorsOf(s, e)
<1>1. S \subseteq R \cup {c} /\ R \subseteq Clients /\ IsFiniteSet(Clients)
  BY BoundsAssumption DEF CreatorsOf
<1> HIDE DEF R, S
<1>2. IsFiniteSet(R)
  BY <1>1, FS_Subset
<1>3. /\ IsFiniteSet(R \cup {c})
      /\ Cardinality(R \cup {c}) = Cardinality(R) \/ Cardinality(R \cup {c}) = Cardinality(R) + 1
  BY <1>2, FS_AddElement
<1>4. Cardinality(S) <= Cardinality(R \cup {c})
  BY <1>1, <1>3, FS_Subset
<1>5. Cardinality(S) \in Nat /\ Cardinality(R) \in Nat
  <2>1. IsFiniteSet(S)
    BY <1>1, <1>3, FS_Subset
  <2> QED
    BY <1>2, <2>1, FS_CardinalityType
<1> QED
  BY <1>3, <1>4, <1>5 DEF R, S

LEMMA CreatorCounts ==
  ASSUME NEW e, NEW c \in CreatorsOf(request, e)
  PROVE  Creating(e) \in Nat \ {0}
<1> DEFINE R == CreatorsOf(request, e)
<1>1. R \subseteq Clients /\ IsFiniteSet(Clients) /\ c \in R /\ Creating(e) = Cardinality(R)
  BY BoundsAssumption DEF CreatorsOf, Creating
<1> HIDE DEF R
<1>2. IsFiniteSet(R) /\ Cardinality(R) \in Nat
  BY <1>1, FS_Subset, FS_CardinalityType
<1>3. Cardinality(R) # 0
  BY <1>1, <1>2, FS_EmptySet
<1> QED
  BY <1>1, <1>2, <1>3

\* A create adds one row, with an id that no row of the entity has.
LEMMA InsertIs ==
  ASSUME RowsTyped, RequestsSound, Room, FreshIds, NEW c \in Clients, InsertStep(c)
  PROVE  LET e == request[c].entity
             i == NewId(request[c].entity)
             data == request[c].data IN
         /\ e \in Entities /\ i \in Ids /\ i \notin live[e]
         /\ data \in [Entities -> 0 .. MaxId] /\ \A p \in Parents(e) : data[p] # 0
         /\ \A f \in Entities : live'[f] = IF f = e THEN live[e] \cup {i} ELSE live[f]
         /\ \A f \in Entities, k \in Ids :
              key'[f][k] = IF f = e /\ k = i THEN data ELSE key[f][k]
         /\ \A f \in Entities :
              next'[f] = IF f = e /\ stack # "python" THEN next[f] + 1 ELSE next[f]
         /\ stack # "python" => i = next[e] /\ next[e] <= MaxId
         /\ raced \subseteq raced' /\ raced' \subseteq raced \cup {<<e, i>>}
         /\ Broken(data) => <<e, i>> \in raced'
         /\ moved' = moved /\ live' \in [Entities -> SUBSET Ids]
         /\ key' \in [Entities -> [Ids -> [Entities -> 0 .. MaxId]]]
         /\ next' \in [Entities -> 1 .. MaxId + 1]
<1> DEFINE e == request[c].entity
           i == NewId(request[c].entity)
           data == request[c].data
<1>1. /\ request[c].pc # "idle" /\ request[c].op = "create" /\ Insert(e, data)
  BY DEF InsertStep
<1>2. /\ HandlerSound(request[c]) /\ request[c] \in Handlers
  BY DEF RequestsSound
<1>3. /\ e \in Entities /\ data \in [Entities -> 0 .. MaxId] /\ \A p \in Parents(e) : data[p] # 0
  BY <1>1, <1>2 DEF HandlerSound, Handlers
<1>4. Creating(e) \in Nat \ {0}
  <2>1. c \in CreatorsOf(request, e)
    BY <1>1 DEF CreatorsOf
  <2> QED
    BY <2>1, CreatorCounts
<1>5. i \in 1 .. MaxId + 1 /\ \A k \in live[e] : k \in Nat /\ k < i
  BY <1>3, NewIdIs
<1>6. i + Creating(e) <= MaxId + 1 /\ MaxId \in Nat
  BY <1>3, IdsAreNumbers DEF Room
<1>7. i \in Ids /\ i <= MaxId /\ i \notin live[e]
  <2> HIDE DEF i, e
  <2>1. i <= MaxId /\ i \in Nat /\ i >= 1
    BY <1>4, <1>5, <1>6
  <2>2. i \notin live[e]
    BY <1>5, <2>1
  <2> QED
    BY <1>6, <2>1, <2>2 DEF Ids
<1>8. /\ live' = [live EXCEPT ![e] = @ \cup {i}]
      /\ key' = [key EXCEPT ![e][i] = data]
      /\ next' = IF stack = "python" THEN next ELSE [next EXCEPT ![e] = @ + 1]
      /\ raced' = IF Broken(data) THEN raced \cup {<<e, i>>} ELSE raced
      /\ moved' = moved
  BY <1>1 DEF Insert
<1>9. stack # "python" => i = next[e] /\ next[e] <= MaxId
  BY <1>7 DEF NewId
<1> HIDE DEF i, e, data
<1>10. /\ live \in [Entities -> SUBSET Ids]
       /\ key \in [Entities -> [Ids -> [Entities -> 0 .. MaxId]]]
       /\ next \in [Entities -> 1 .. MaxId + 1]
  BY DEF RowsTyped
<1>11. /\ live' \in [Entities -> SUBSET Ids]
       /\ \A f \in Entities : live'[f] = IF f = e THEN live[e] \cup {i} ELSE live[f]
  BY <1>3, <1>7, <1>8, <1>10
<1>12. /\ key' \in [Entities -> [Ids -> [Entities -> 0 .. MaxId]]]
       /\ \A f \in Entities, k \in Ids : key'[f][k] = IF f = e /\ k = i THEN data ELSE key[f][k]
  BY <1>3, <1>7, <1>8, <1>10
<1>13. /\ next' \in [Entities -> 1 .. MaxId + 1]
       /\ \A f \in Entities :
              next'[f] = IF f = e /\ stack # "python" THEN next[f] + 1 ELSE next[f]
  <2>1. CASE stack = "python"
    BY <1>8, <1>10, <2>1
  <2>2. CASE stack # "python"
    <3>1. next[e] + 1 \in 1 .. MaxId + 1
      BY <1>3, <1>6, <1>9, <1>10, <2>2
    <3> QED
      BY <1>3, <1>8, <1>10, <2>2, <3>1
  <2> QED
    BY <2>1, <2>2
<1> QED
  BY <1>3, <1>7, <1>8, <1>9, <1>11, <1>12, <1>13 DEF i, e, data

\* An update changes the keys the body gives, of one row.
LEMMA MergeIs ==
  ASSUME RowsTyped, RequestsSound, NEW c \in Clients, MergeStep(c)
  PROVE  LET e == request[c].entity
             i == request[c].id
             data == request[c].data IN
         /\ e \in Entities /\ i \in Ids /\ i \in live[e]
         /\ data \in [Entities -> 0 .. MaxId]
         /\ live' = live /\ next' = next
         /\ key' \in [Entities -> [Ids -> [Entities -> 0 .. MaxId]]]
         /\ \A f \in Entities, k \in Ids, p \in Entities :
              key'[f][k][p] = IF f = e /\ k = i /\ data[p] # 0 THEN data[p] ELSE key[f][k][p]
         /\ raced \subseteq raced' /\ raced' \subseteq raced \cup {<<e, i>>}
         /\ Broken(data) => <<e, i>> \in raced'
         /\ moved \subseteq moved' /\ moved' \subseteq moved \cup {<<e, i>>}
         /\ <<e, i>> \in Doomed => <<e, i>> \in moved'
<1> DEFINE e == request[c].entity
           i == request[c].id
           data == request[c].data
<1>1. /\ request[c].pc # "idle" /\ request[c].op = "update" /\ Merge(e, i, data) /\ i \in live[e]
  BY DEF MergeStep
<1>2. /\ HandlerSound(request[c]) /\ request[c] \in Handlers
  BY DEF RequestsSound
<1>3. /\ e \in Entities /\ i \in Ids /\ data \in [Entities -> 0 .. MaxId]
  BY <1>1, <1>2 DEF HandlerSound, Handlers
<1> HIDE DEF e, i, data
<1>4. /\ key' = [key EXCEPT ![e][i] = [p \in Entities |-> IF data[p] # 0 THEN data[p] ELSE @[p]]]
      /\ raced' = IF Broken(data) THEN raced \cup {<<e, i>>} ELSE raced
      /\ moved' = IF <<e, i>> \in Doomed THEN moved \cup {<<e, i>>} ELSE moved
      /\ live' = live /\ next' = next
  BY <1>1 DEF Merge
<1>5. key \in [Entities -> [Ids -> [Entities -> 0 .. MaxId]]]
  BY DEF RowsTyped
<1> DEFINE merged == [p \in Entities |-> IF data[p] # 0 THEN data[p] ELSE key[e][i][p]]
<1>6. merged \in [Entities -> 0 .. MaxId]
  BY <1>3, <1>5
<1>7. key' = [key EXCEPT ![e][i] = merged]
  BY <1>3, <1>4, <1>5
<1>8. \A p \in Entities : merged[p] = IF data[p] # 0 THEN data[p] ELSE key[e][i][p]
  OBVIOUS
<1> HIDE DEF merged
<1>9. /\ key' \in [Entities -> [Ids -> [Entities -> 0 .. MaxId]]]
      /\ \A f \in Entities, k \in Ids : key'[f][k] = IF f = e /\ k = i THEN merged ELSE key[f][k]
  BY <1>3, <1>5, <1>6, <1>7
<1>10. \A f \in Entities, k \in Ids, p \in Entities :
              key'[f][k][p] = IF f = e /\ k = i /\ data[p] # 0 THEN data[p] ELSE key[f][k][p]
  BY <1>8, <1>9
<1> QED
  BY <1>1, <1>3, <1>4, <1>9, <1>10 DEF e, i, data

\* A delete takes rows away and leaves the others as they are.
LEMMA EraseIs ==
  ASSUME RowsTyped, NEW gone, Erase(gone)
  PROVE  /\ live' \in [Entities -> SUBSET Ids]
         /\ key' \in [Entities -> [Ids -> [Entities -> 0 .. MaxId]]]
         /\ \A e \in Entities : live'[e] = {i \in live[e] : <<e, i>> \notin gone}
         /\ \A e \in Entities : \A i \in live'[e] : key'[e][i] = key[e][i]
         /\ next' = next /\ raced' = raced /\ moved' = moved
<1>1. /\ live \in [Entities -> SUBSET Ids]
      /\ key \in [Entities -> [Ids -> [Entities -> 0 .. MaxId]]]
  BY DEF RowsTyped
<1>2. /\ live' = [e \in Entities |-> {i \in live[e] : <<e, i>> \notin gone}]
      /\ key' = [e \in Entities |-> [i \in Ids |->
                   IF <<e, i>> \in gone THEN NoKeys ELSE key[e][i]]]
      /\ next' = next /\ raced' = raced /\ moved' = moved
  BY DEF Erase
<1>3. NoKeys \in [Entities -> 0 .. MaxId]
  BY IdsAreNumbers DEF NoKeys
<1>4. live' \in [Entities -> SUBSET Ids]
  BY <1>1, <1>2
<1>5. key' \in [Entities -> [Ids -> [Entities -> 0 .. MaxId]]]
  BY <1>1, <1>2, <1>3
<1>6. \A e \in Entities : live'[e] = {i \in live[e] : <<e, i>> \notin gone}
  BY <1>2
<1>7. \A e \in Entities : \A i \in live'[e] : key'[e][i] = key[e][i]
  BY <1>1, <1>2, <1>6
<1> QED
  BY <1>2, <1>4, <1>5, <1>6, <1>7

-----------------------------------------------------------------------------
(* What a step does to the handlers                                        *)

LEMMA AnswerIs ==
  ASSUME RequestsSound, NEW c \in Clients, Answer(c)
  PROVE  /\ request'[c] = Idle /\ \A d \in Clients : d # c => request'[d] = request[d]
         /\ Idle.pc = "idle" /\ Idle.op = "none" /\ Idle.left = <<>> /\ Idle.work = <<>>
<1>1. request \in [Clients -> Handlers]
  BY DEF RequestsSound
<1>2. request' = [request EXCEPT ![c] = Idle]
  BY DEF Answer
<1>3. Idle.pc = "idle" /\ Idle.op = "none" /\ Idle.left = <<>> /\ Idle.work = <<>>
  BY DEF Idle
<1> QED
  BY <1>1, <1>2, <1>3

LEMMA ContinueIs ==
  ASSUME RequestsSound, NEW c \in Clients, NEW work \in Seq(Task), Continue(c, work),
         request[c].op = "delete"
  PROVE  /\ request'[c].work = work /\ request'[c].op \in {"none", "delete"}
         /\ \A d \in Clients : d # c => request'[d] = request[d]
<1>1. request \in [Clients -> Handlers]
  BY DEF RequestsSound
<1>2. CASE work = <<>>
  <2>1. request' = [request EXCEPT ![c] = Idle]
    BY <1>2 DEF Continue
  <2>2. Idle.work = <<>> /\ Idle.op = "none"
    BY DEF Idle
  <2> QED
    BY <1>1, <1>2, <2>1, <2>2
<1>3. CASE work # <<>>
  <2> DEFINE q == [request[c] EXCEPT !.pc = "cascade", !.work = work]
  <2>1. request' = [request EXCEPT ![c] = q]
    BY <1>3 DEF Continue
  <2>2. q.work = work /\ q.op = request[c].op
    BY <1>1 DEF Handlers
  <2> HIDE DEF q
  <2> QED
    BY <1>1, <2>1, <2>2
<1> QED
  BY <1>2, <1>3

\* A handler that reads goes on, or answers.
LEMMA ReadingIs ==
  ASSUME RequestsSound, NEW c \in Clients, Find(c) \/ CheckParent(c)
  PROVE  /\ \A d \in Clients : d # c => request'[d] = request[d]
         /\ request[c].work = <<>> /\ request'[c].work = <<>>
         /\ \/ request'[c] = Idle
            \/ /\ request'[c].op = request[c].op /\ request'[c].entity = request[c].entity
               /\ request'[c].data = request[c].data
               /\ \/ request'[c].left = request[c].left
                  \/ /\ request[c].left # <<>> /\ request'[c].left = Tail(request[c].left)
                     /\ LET p == Head(request[c].left) IN
                          request[c].data[p] = 0 \/ request[c].data[p] \in live[p]
         /\ UNCHANGED <<stack, rows, history>>
<1>1. request \in [Clients -> Handlers] /\ HandlerSound(request[c])
  BY DEF RequestsSound
<1>2. request[c].work = <<>>
  BY <1>1 DEF Find, CheckParent, HandlerSound
<1>3. UNCHANGED <<stack, rows, history>>
  BY DEF Find, CheckParent
<1>4. CASE Answer(c)
  BY <1>2, <1>3, <1>4, AnswerIs
<1>5. CASE Goto(c, "check")
  <2> DEFINE q == [request[c] EXCEPT !.pc = "check"]
  <2>1. request' = [request EXCEPT ![c] = q]
    BY <1>5 DEF Goto
  <2>2. /\ q.op = request[c].op /\ q.entity = request[c].entity /\ q.data = request[c].data
        /\ q.left = request[c].left /\ q.work = request[c].work
    BY <1>1 DEF Handlers
  <2> HIDE DEF q
  <2>3. request'[c] = q /\ \A d \in Clients : d # c => request'[d] = request[d]
    BY <1>1, <2>1
  <2> QED
    BY <1>2, <1>3, <2>2, <2>3
<1>6. CASE /\ request[c].left # <<>>
           /\ LET p == Head(request[c].left)
                  j == request[c].data[p] IN j = 0 \/ j \in live[p]
           /\ request' = [request EXCEPT ![c].left = Tail(@)]
  <2> DEFINE q == [request[c] EXCEPT !.left = Tail(@)]
  <2>1. request' = [request EXCEPT ![c] = q]
    BY <1>6
  <2>2. /\ q.op = request[c].op /\ q.entity = request[c].entity /\ q.data = request[c].data
        /\ q.left = Tail(request[c].left) /\ q.work = request[c].work
    BY <1>1 DEF Handlers
  <2> HIDE DEF q
  <2>3. request'[c] = q /\ \A d \in Clients : d # c => request'[d] = request[d]
    BY <1>1, <2>1
  <2> QED
    BY <1>2, <1>3, <1>6, <2>2, <2>3
<1> QED
  BY <1>4, <1>5, <1>6 DEF Find, CheckParent

\* A request that arrives has nothing checked yet.
LEMMA SendIs ==
  ASSUME RequestsSound, NEW c \in Clients, Send(c)
  PROVE  /\ \A d \in Clients : d # c => request'[d] = request[d]
         /\ request[c].work = <<>> /\ request'[c].work = <<>>
         /\ UNCHANGED <<stack, rows, history>>
         /\ request'[c].op = "create" =>
              /\ request'[c].entity \in Entities
              /\ NewId(request'[c].entity) + Creating(request'[c].entity) <= MaxId
         /\ request'[c].op \in {"create", "update"} =>
              \A p \in Entities : p \in ToSet(request'[c].left) \/ request'[c].data[p] = 0
<1>1. request \in [Clients -> Handlers] /\ HandlerSound(request[c]) /\ request[c].pc = "idle"
  BY DEF RequestsSound, Send
<1>2. request[c].work = <<>>
  BY <1>1 DEF HandlerSound
<1>3. UNCHANGED <<stack, rows, history>>
  BY DEF Send
<1>4. Idle \in Handlers /\ Idle.work = <<>>
  BY IdleIsSound DEF Idle
<1>5. ASSUME NEW e \in Entities, NEW data \in SetBy(e, TRUE), NewId(e) + Creating(e) <= MaxId,
             request' = [request EXCEPT ![c] =
                 [Idle EXCEPT !.pc = "check", !.op = "create", !.entity = e, !.data = data,
                              !.left = BelongsTo[e]]]
      PROVE  /\ \A d \in Clients : d # c => request'[d] = request[d]
             /\ request'[c].work = <<>> /\ request'[c].op = "create"
             /\ request'[c].entity = e /\ request'[c].data = data
             /\ request'[c].left = BelongsTo[e]
  <2> DEFINE q == [Idle EXCEPT !.pc = "check", !.op = "create", !.entity = e, !.data = data,
                              !.left = BelongsTo[e]]
  <2>1. /\ q.op = "create" /\ q.entity = e /\ q.data = data /\ q.left = BelongsTo[e]
        /\ q.work = <<>>
    BY <1>4 DEF Handlers
  <2> HIDE DEF q
  <2>2. request' = [request EXCEPT ![c] = q]
    BY <1>5 DEF q
  <2> QED
    BY <1>1, <2>1, <2>2
<1>6. ASSUME NEW e \in Entities, NEW i \in Ids, NEW data \in SetBy(e, FALSE),
             request' = [request EXCEPT ![c] =
              [Idle EXCEPT !.pc = "find", !.op = "update", !.entity = e, !.id = i, !.data = data,
                           !.left = BelongsTo[e]]]
      PROVE  /\ \A d \in Clients : d # c => request'[d] = request[d]
             /\ request'[c].work = <<>> /\ request'[c].op = "update"
             /\ request'[c].data = data /\ request'[c].left = BelongsTo[e]
  <2> DEFINE q == [Idle EXCEPT !.pc = "find", !.op = "update", !.entity = e, !.id = i,
                               !.data = data, !.left = BelongsTo[e]]
  <2>1. q.op = "update" /\ q.data = data /\ q.left = BelongsTo[e] /\ q.work = <<>>
    BY <1>4 DEF Handlers
  <2> HIDE DEF q
  <2>2. request' = [request EXCEPT ![c] = q]
    BY <1>6 DEF q
  <2> QED
    BY <1>1, <2>1, <2>2
<1>7. ASSUME NEW e \in Entities, NEW i \in Ids,
             request' = [request EXCEPT ![c] =
              [Idle EXCEPT !.pc = "find", !.op = "delete", !.entity = e, !.id = i]]
      PROVE  /\ \A d \in Clients : d # c => request'[d] = request[d]
             /\ request'[c].work = <<>> /\ request'[c].op = "delete"
  <2> DEFINE q == [Idle EXCEPT !.pc = "find", !.op = "delete", !.entity = e, !.id = i]
  <2>1. q.op = "delete" /\ q.work = <<>>
    BY <1>4 DEF Handlers
  <2> HIDE DEF q
  <2>2. request' = [request EXCEPT ![c] = q]
    BY <1>7 DEF q
  <2> QED
    BY <1>1, <2>1, <2>2
<1>8. \A e \in Entities, all \in BOOLEAN : \A data \in SetBy(e, all), p \in Entities :
        p \in ToSet(BelongsTo[e]) \/ data[p] = 0
  BY DEF SetBy, Parents
<1>9. PICK e \in Entities :
       \/ /\ NewId(e) + Creating(e) <= MaxId
          /\ \E data \in SetBy(e, TRUE) :
               request' = [request EXCEPT ![c] =
                 [Idle EXCEPT !.pc = "check", !.op = "create", !.entity = e, !.data = data,
                              !.left = BelongsTo[e]]]
       \/ \E i \in Ids, data \in SetBy(e, FALSE) \ {NoKeys} :
            request' = [request EXCEPT ![c] =
              [Idle EXCEPT !.pc = "find", !.op = "update", !.entity = e, !.id = i, !.data = data,
                           !.left = BelongsTo[e]]]
       \/ \E i \in Ids :
            request' = [request EXCEPT ![c] =
              [Idle EXCEPT !.pc = "find", !.op = "delete", !.entity = e, !.id = i]]
  BY DEF Send
<1>10. CASE /\ NewId(e) + Creating(e) <= MaxId
            /\ \E data \in SetBy(e, TRUE) :
               request' = [request EXCEPT ![c] =
                 [Idle EXCEPT !.pc = "check", !.op = "create", !.entity = e, !.data = data,
                              !.left = BelongsTo[e]]]
  <2>1. PICK data \in SetBy(e, TRUE) :
               request' = [request EXCEPT ![c] =
                 [Idle EXCEPT !.pc = "check", !.op = "create", !.entity = e, !.data = data,
                              !.left = BelongsTo[e]]]
    BY <1>10, Zenon
  <2>2. NewId(e) + Creating(e) <= MaxId
    BY <1>10, Zenon
  <2>3. /\ \A d \in Clients : d # c => request'[d] = request[d]
        /\ request'[c].work = <<>> /\ request'[c].op = "create"
        /\ request'[c].entity = e /\ request'[c].data = data
        /\ request'[c].left = BelongsTo[e]
    BY <1>5, <2>1, <2>2, Zenon
  <2>4. \A p \in Entities : p \in ToSet(BelongsTo[e]) \/ data[p] = 0
    BY <1>8, Zenon
  <2> QED
    BY <1>2, <1>3, <2>2, <2>3, <2>4, Zenon
<1>11. CASE \E i \in Ids, data \in SetBy(e, FALSE) \ {NoKeys} :
            request' = [request EXCEPT ![c] =
              [Idle EXCEPT !.pc = "find", !.op = "update", !.entity = e, !.id = i, !.data = data,
                           !.left = BelongsTo[e]]]
  <2>1. PICK i \in Ids, data \in SetBy(e, FALSE) :
            request' = [request EXCEPT ![c] =
              [Idle EXCEPT !.pc = "find", !.op = "update", !.entity = e, !.id = i, !.data = data,
                           !.left = BelongsTo[e]]]
    BY <1>11, Zenon
  <2>2. /\ \A d \in Clients : d # c => request'[d] = request[d]
        /\ request'[c].work = <<>> /\ request'[c].op = "update"
        /\ request'[c].data = data /\ request'[c].left = BelongsTo[e]
    BY <1>6, <2>1, Zenon
  <2>3. \A p \in Entities : p \in ToSet(BelongsTo[e]) \/ data[p] = 0
    BY <1>8, Zenon
  <2> QED
    BY <1>2, <1>3, <2>2, <2>3
<1>12. CASE \E i \in Ids :
            request' = [request EXCEPT ![c] =
              [Idle EXCEPT !.pc = "find", !.op = "delete", !.entity = e, !.id = i]]
  BY <1>2, <1>3, <1>7, <1>12
<1> QED
  BY <1>9, <1>10, <1>11, <1>12

-----------------------------------------------------------------------------
(* Ids                                                                     *)

Quiet(c) == Send(c) \/ Find(c) \/ CheckParent(c) \/ AnswerStep(c) \/ SearchStep(c)

LEMMA QuietIs ==
  ASSUME RequestsSound, NEW c \in Clients, Quiet(c)
  PROVE  live' = live /\ key' = key /\ next' = next /\ raced' = raced /\ moved' = moved
BY SendIs, ReadingIs DEF Quiet, AnswerStep, SearchStep, rows, history

\* A Go delete takes one row away, or none.
LEMMA RemovalIs ==
  ASSUME RowsTyped, NEW c \in Clients, RemovalStep(c)
  PROVE  /\ live' \in [Entities -> SUBSET Ids]
         /\ key' \in [Entities -> [Ids -> [Entities -> 0 .. MaxId]]]
         /\ \A e \in Entities : live'[e] \subseteq live[e]
         /\ \A e \in Entities : \A i \in live'[e] : key'[e][i] = key[e][i]
         /\ next' = next /\ raced' = raced /\ moved' = moved
<1>1. CASE UNCHANGED <<rows, history>>
  BY <1>1 DEF rows, history, RowsTyped
<1>2. CASE \E gone : Erase(gone)
  BY <1>2, EraseIs
<1> QED
  BY <1>1, <1>2, Zenon DEF RemovalStep

LEMMA BranchStepIs ==
  ASSUME RowsTyped, NEW c \in Clients, BranchStep(c)
  PROVE  /\ live' \in [Entities -> SUBSET Ids]
         /\ key' \in [Entities -> [Ids -> [Entities -> 0 .. MaxId]]]
         /\ \A e \in Entities : live'[e] \subseteq live[e]
         /\ \A e \in Entities : \A i \in live'[e] : key'[e][i] = key[e][i]
         /\ next' = next /\ raced' = raced /\ moved' = moved
<1>1. Erase(Branch(request[c].entity, request[c].id))
  BY DEF BranchStep
<1> QED
  BY <1>1, EraseIs

LEMMA RowsStay ==
  ASSUME RowsTyped, RequestsSound, Room, FreshIds, Next
  PROVE  RowsTyped'
<1>1. PICK c \in Clients :
           \/ Quiet(c) \/ InsertStep(c) \/ MergeStep(c) \/ BranchStep(c) \/ RemovalStep(c)
  BY Steps, Zenon DEF Quiet
<1>2. stack' = stack
  BY RequestsStay
<1>3. CASE Quiet(c)
  BY <1>2, <1>3, QuietIs DEF RowsTyped
<1>4. CASE InsertStep(c)
  <2>1. <<request[c].entity, NewId(request[c].entity)>> \in Nodes
    BY <1>4, InsertIs DEF Nodes
  <2>2. raced' \subseteq Nodes /\ moved' \subseteq Nodes
    BY <1>4, <2>1, InsertIs DEF RowsTyped
  <2> QED
    BY <1>2, <1>4, <2>2, InsertIs DEF RowsTyped
<1>5. CASE MergeStep(c)
  <2>1. <<request[c].entity, request[c].id>> \in Nodes
    BY <1>5, MergeIs DEF Nodes
  <2>2. raced' \subseteq Nodes /\ moved' \subseteq Nodes
    BY <1>5, <2>1, MergeIs DEF RowsTyped
  <2> QED
    BY <1>2, <1>5, <2>2, MergeIs DEF RowsTyped
<1>6. CASE BranchStep(c)
  BY <1>2, <1>6, BranchStepIs DEF RowsTyped
<1>7. CASE RemovalStep(c)
  BY <1>2, <1>7, RemovalIs DEF RowsTyped
<1> QED
  BY <1>1, <1>3, <1>4, <1>5, <1>6, <1>7

LEMMA FreshIdsStay ==
  ASSUME RowsTyped, RequestsSound, Room, FreshIds, Next
  PROVE  FreshIds'
<1>1. PICK c \in Clients :
           \/ Quiet(c) \/ InsertStep(c) \/ MergeStep(c) \/ BranchStep(c) \/ RemovalStep(c)
  BY Steps, Zenon DEF Quiet
<1> SUFFICES ASSUME stack # "python", NEW e \in Entities, NEW i \in live'[e]
             PROVE  i < next'[e]
  BY RequestsStay DEF FreshIds
<1>2. \A k \in live[e] : k \in Nat /\ k < next[e]
  BY IdsAreNumbers DEF FreshIds, RowsTyped
<1>3. next[e] \in Nat
  BY DEF RowsTyped
<1>4. CASE Quiet(c)
  BY <1>2, <1>4, QuietIs
<1>5. CASE InsertStep(c)
  <2>1. /\ i \in live[e] \/ (e = request[c].entity /\ i = next[e])
        /\ next'[e] = next[e] \/ next'[e] = next[e] + 1
        /\ e = request[c].entity => next'[e] = next[e] + 1
    BY <1>5, InsertIs
  <2> QED
    BY <1>2, <1>3, <2>1
<1>6. CASE MergeStep(c)
  BY <1>2, <1>6, MergeIs
<1>7. CASE BranchStep(c)
  BY <1>2, <1>7, BranchStepIs
<1>8. CASE RemovalStep(c)
  BY <1>2, <1>8, RemovalIs
<1> QED
  BY <1>1, <1>4, <1>5, <1>6, <1>7, <1>8

\* Nobody but Send starts to create.
LEMMA CreatorsStay ==
  ASSUME RequestsSound, NEW c \in Clients,
         \/ Find(c) \/ CheckParent(c) \/ Answer(c) \/ SearchStep(c) \/ RemovalStep(c)
  PROVE  \A d \in Clients : request'[d].op = "create" =>
           request[d].op = "create" /\ request'[d].entity = request[d].entity
<1>1. CASE Find(c) \/ CheckParent(c)
  <2>1. Idle.op = "none"
    BY DEF Idle
  <2>2. \/ request'[c] = Idle
        \/ request'[c].op = request[c].op /\ request'[c].entity = request[c].entity
    BY <1>1, ReadingIs
  <2>3. \A d \in Clients : d # c => request'[d] = request[d]
    BY <1>1, ReadingIs
  <2> QED
    BY <2>1, <2>2, <2>3
<1>2. CASE Answer(c)
  BY <1>2, AnswerIs
<1>3. CASE SearchStep(c)
  BY <1>3, ContinueIs DEF SearchStep
<1>4. CASE RemovalStep(c)
  BY <1>4, ContinueIs DEF RemovalStep
<1> QED
  BY <1>1, <1>2, <1>3, <1>4

LEMMA RoomStays ==
  ASSUME RowsTyped, RequestsSound, Room, FreshIds, Next
  PROVE  Room'
<1> SUFFICES ASSUME NEW e \in Entities
             PROVE  NewId(e)' \in Nat /\ NewId(e)' + Creating(e)' <= MaxId + 1
  BY DEF Room
<1>1. PICK c \in Clients :
           \/ Send(c) \/ Find(c) \/ CheckParent(c) \/ AnswerStep(c)
           \/ InsertStep(c) \/ MergeStep(c) \/ BranchStep(c)
           \/ RemovalStep(c) \/ SearchStep(c)
  BY Steps
<1>2. stack' = stack /\ RowsTyped'
  BY RequestsStay, RowsStay
<1>3. /\ NewId(e) = IF stack = "python" THEN 1 + Max(live[e] \cup {0}) ELSE next[e]
      /\ NewId(e)' = IF stack = "python" THEN 1 + Max(live'[e] \cup {0}) ELSE next'[e]
      /\ Creating(e) = Cardinality(CreatorsOf(request, e))
      /\ Creating(e)' = Cardinality(CreatorsOf(request', e))
  BY <1>2 DEF NewId, Creating, CreatorsOf
<1>4. NewId(e) \in Nat /\ NewId(e) + Creating(e) <= MaxId + 1 /\ MaxId \in Nat
  BY IdsAreNumbers DEF Room
<1>5. \A r : Cardinality(CreatorsOf(r, e)) \in Nat
  BY FewerCreators
<1>6. NewId(e)' \in Nat
  <2>1. live'[e] \in SUBSET Ids /\ next'[e] \in Nat
    BY <1>2 DEF RowsTyped
  <2>2. Max(live'[e] \cup {0}) \in 0 .. MaxId
    BY <2>1, LargestId
  <2>3. 1 + Max(live'[e] \cup {0}) \in Nat
    BY <1>4, <2>2
  <2> QED
    BY <1>3, <2>1, <2>3
<1>7. ASSUME NewId(e)' <= NewId(e),
             \/ Find(c) \/ CheckParent(c) \/ Answer(c) \/ SearchStep(c) \/ RemovalStep(c)
      PROVE  NewId(e)' + Creating(e)' <= MaxId + 1
  <2>1. Cardinality(CreatorsOf(request', e)) <= Cardinality(CreatorsOf(request, e))
    BY <1>7, CreatorsStay, FewerCreators
  <2> QED
    BY <1>3, <1>4, <1>5, <1>6, <1>7, <2>1
<1>8. ASSUME live'[e] \subseteq live[e], next'[e] = next[e]
      PROVE  NewId(e)' <= NewId(e)
  <2>1. live[e] \in SUBSET Ids /\ live'[e] \in SUBSET Ids
    BY <1>8 DEF RowsTyped
  <2> DEFINE m == Max(live[e] \cup {0})
             n == Max(live'[e] \cup {0})
  <2>2. m \in 0 .. MaxId /\ n \in 0 .. MaxId /\ n \in live'[e] \cup {0} /\ \A i \in live[e] : i <= m
    BY <2>1, LargestId
  <2>3. NewId(e) = (IF stack = "python" THEN 1 + m ELSE next[e])
        /\ NewId(e)' = IF stack = "python" THEN 1 + n ELSE next[e]
    BY <1>3, <1>8
  <2> HIDE DEF m, n
  <2>4. n <= m
    BY <1>8, <2>2
  <2>5. next[e] \in Nat
    BY DEF RowsTyped
  <2> QED
    BY <1>4, <2>2, <2>3, <2>4, <2>5
<1>9. CASE Send(c)
  <2>0. live' = live /\ next' = next
    BY <1>9, QuietIs DEF Quiet
  <2>1. NewId(e)' = NewId(e)
    BY <1>3, <2>0
  <2>2. CASE request'[c].op = "create" /\ request'[c].entity = e
    <3>1. NewId(e) + Creating(e) <= MaxId
      BY <1>9, <2>2, SendIs
    <3>2. Cardinality(CreatorsOf(request', e)) <= Cardinality(CreatorsOf(request, e)) + 1
      BY <1>9, SendIs, OneMoreCreator
    <3> QED
      BY <1>3, <1>4, <1>5, <2>1, <3>1, <3>2
  <2>3. CASE ~(request'[c].op = "create" /\ request'[c].entity = e)
    <3>1. CreatorsOf(request', e) \subseteq CreatorsOf(request, e)
      BY <1>9, <2>3, SendIs DEF CreatorsOf
    <3>2. IsFiniteSet(CreatorsOf(request, e))
      <4>1. CreatorsOf(request, e) \subseteq Clients
        BY DEF CreatorsOf
      <4> QED
        BY <4>1, BoundsAssumption, FS_Subset
    <3>3. Cardinality(CreatorsOf(request', e)) <= Cardinality(CreatorsOf(request, e))
      BY <3>1, <3>2, FS_Subset
    <3> QED
      BY <1>3, <1>4, <1>5, <2>1, <3>3
  <2> QED
    BY <1>6, <2>2, <2>3
<1>10. CASE Find(c) \/ CheckParent(c) \/ AnswerStep(c) \/ SearchStep(c)
  <2>1. live' = live /\ next' = next
    BY <1>10, QuietIs DEF Quiet
  <2> QED
    BY <1>6, <1>7, <1>8, <1>10, <2>1 DEF AnswerStep
<1>11. CASE MergeStep(c)
  <2>1. live' = live /\ next' = next
    BY <1>11, MergeIs
  <2> QED
    BY <1>6, <1>7, <1>8, <1>11, <2>1 DEF MergeStep
<1>12. CASE BranchStep(c)
  <2>1. live'[e] \subseteq live[e] /\ next' = next
    BY <1>12, BranchStepIs
  <2> QED
    BY <1>6, <1>7, <1>8, <1>12, <2>1 DEF BranchStep
<1>13. CASE RemovalStep(c)
  <2>1. live'[e] \subseteq live[e] /\ next' = next
    BY <1>13, RemovalIs
  <2> QED
    BY <1>6, <1>7, <1>8, <1>13, <2>1
<1>14. CASE InsertStep(c)
  <2>1. CASE e # request[c].entity
    <3>1. live'[e] \subseteq live[e] /\ next'[e] = next[e]
      BY <1>14, <2>1, InsertIs
    <3> QED
      BY <1>6, <1>7, <1>8, <1>14, <3>1 DEF InsertStep
  <2>2. CASE e = request[c].entity
    <3>1. c \in CreatorsOf(request, e) /\ c \notin CreatorsOf(request', e)
      BY <1>14, <2>2, AnswerIs DEF CreatorsOf, InsertStep
    <3>2. Cardinality(CreatorsOf(request', e)) <= Cardinality(CreatorsOf(request, e)) - 1
      BY <1>14, <3>1, CreatorsStay, FewerCreators DEF InsertStep
    <3>3. NewId(e)' <= NewId(e) + 1
      <4>1. CASE stack = "python"
        <5> DEFINE n == Max(live'[e] \cup {0})
        <5>1. live'[e] \in SUBSET Ids
          BY <1>2 DEF RowsTyped
        <5>2. n \in live'[e] \cup {0}
          BY <5>1, LargestId
        <5>3. live'[e] = live[e] \cup {NewId(e)}
          BY <1>14, <2>2, InsertIs
        <5>4. \A i \in live[e] : i \in Nat /\ i < NewId(e)
          BY NewIdIs
        <5>5. NewId(e)' = 1 + n
          BY <1>3, <4>1
        <5> HIDE DEF n
        <5>6. n \in Nat /\ n <= NewId(e)
          BY <1>4, <5>2, <5>3, <5>4
        <5> QED
          BY <1>4, <5>5, <5>6
      <4>2. CASE stack # "python"
        <5>1. next'[e] = next[e] + 1
          BY <1>14, <2>2, <4>2, InsertIs
        <5> QED
          BY <1>3, <1>4, <4>2, <5>1
      <4> QED
        BY <4>1, <4>2
    <3> QED
      BY <1>3, <1>4, <1>5, <1>6, <3>2, <3>3
  <2> QED
    BY <2>1, <2>2
<1> QED
  BY <1>1, <1>9, <1>10, <1>11, <1>12, <1>13, <1>14

-----------------------------------------------------------------------------
(* The stores of Go                                                        *)

LEMMA NextGrows ==
  ASSUME RowsTyped, RequestsSound, Room, FreshIds, Next, NEW p \in Entities
  PROVE  next[p] \in Nat /\ next'[p] \in Nat /\ next[p] <= next'[p]
<1>1. PICK c \in Clients :
           \/ Quiet(c) \/ InsertStep(c) \/ MergeStep(c) \/ BranchStep(c) \/ RemovalStep(c)
  BY Steps, Zenon DEF Quiet
<1>2. next[p] \in Nat /\ next'[p] \in Nat
  BY RowsStay DEF RowsTyped
<1>3. CASE InsertStep(c)
  <2>1. next'[p] = next[p] \/ next'[p] = next[p] + 1
    BY <1>3, InsertIs, Zenon
  <2> QED
    BY <1>2, <2>1
<1>4. CASE Quiet(c) \/ MergeStep(c) \/ BranchStep(c) \/ RemovalStep(c)
  <2>1. next' = next
    BY <1>4, QuietIs, MergeIs, BranchStepIs, RemovalIs
  <2> QED
    BY <1>2, <2>1
<1> QED
  BY <1>1, <1>3, <1>4

\* Whatever a handler has checked was there.
LEMMA CheckedKeysStayKnown ==
  ASSUME RowsTyped, RequestsSound, Room, FreshIds, KeysKnown, Next, stack = "go",
         NEW d \in Clients, request'[d].op \in {"create", "update"}, NEW p \in Entities
  PROVE  p \in ToSet(request'[d].left) \/ request'[d].data[p] < next'[p]
<1>1. PICK c \in Clients :
           \/ Send(c) \/ Find(c) \/ CheckParent(c) \/ AnswerStep(c)
           \/ InsertStep(c) \/ MergeStep(c) \/ BranchStep(c)
           \/ RemovalStep(c) \/ SearchStep(c)
  BY Steps
<1>2. next[p] \in Nat /\ next'[p] \in Nat /\ next[p] <= next'[p]
  BY NextGrows
<1>3. /\ request[d] \in Handlers
      /\ request[d].op \in {"create", "update"} =>
           p \in ToSet(request[d].left) \/ request[d].data[p] < next[p]
  BY DEF KeysKnown, RequestsSound
<1>4. request[d].data[p] \in Nat
  BY <1>3, IdsAreNumbers DEF Handlers
<1>5. ASSUME request'[d].op = request[d].op, request'[d].left = request[d].left,
             request'[d].data = request[d].data
      PROVE  p \in ToSet(request'[d].left) \/ request'[d].data[p] < next'[p]
  BY <1>2, <1>3, <1>4, <1>5
<1>6. CASE d # c
  <2>1. request'[d] = request[d]
    <3>1. CASE Send(c) \/ Find(c) \/ CheckParent(c)
      BY <1>6, <3>1, SendIs, ReadingIs
    <3>2. CASE AnswerStep(c) \/ InsertStep(c) \/ MergeStep(c) \/ BranchStep(c)
      BY <1>6, <3>2, AnswerIs DEF AnswerStep, InsertStep, MergeStep, BranchStep
    <3>3. CASE RemovalStep(c)
      BY <1>6, <3>3, ContinueIs DEF RemovalStep
    <3>4. CASE SearchStep(c)
      BY <1>6, <3>4, ContinueIs DEF SearchStep
    <3> QED
      BY <1>1, <3>1, <3>2, <3>3, <3>4
  <2> QED
    BY <1>5, <2>1
<1>7. CASE d = c
  <2>1. CASE Send(c)
    <3>1. p \in ToSet(request'[d].left) \/ request'[d].data[p] = 0
      BY <1>7, <2>1, SendIs
    <3>2. 0 < next'[p]
      BY RowsStay DEF RowsTyped
    <3> QED
      BY <3>1, <3>2
  <2>2. CASE Find(c) \/ CheckParent(c)
    <3>1. request'[d] # Idle
      BY DEF Idle
    <3>2. /\ request'[d].op = request[d].op /\ request'[d].data = request[d].data
          /\ \/ request'[d].left = request[d].left
             \/ /\ request[d].left # <<>> /\ request'[d].left = Tail(request[d].left)
                /\ LET q == Head(request[d].left) IN
                     request[d].data[q] = 0 \/ request[d].data[q] \in live[q]
      BY <1>7, <2>2, <3>1, ReadingIs
    <3>3. CASE /\ request[d].left # <<>> /\ request'[d].left = Tail(request[d].left)
               /\ LET q == Head(request[d].left) IN
                    request[d].data[q] = 0 \/ request[d].data[q] \in live[q]
      <4>1. request[d].left \in Seq(Entities)
        BY <1>3 DEF Handlers
      <4>2. ToSet(request[d].left) = {Head(request[d].left)} \cup ToSet(Tail(request[d].left))
        BY <3>3, <4>1, HeadAndTail
      <4>3. CASE p = Head(request[d].left)
        <5>1. request[d].data[p] = 0 \/ request[d].data[p] \in live[p]
          BY <3>3, <4>3
        <5>2. \A i \in live[p] : i < next[p]
          BY DEF FreshIds
        <5>3. 0 < next[p]
          BY DEF RowsTyped
        <5>4. request[d].data[p] < next[p]
          BY <5>1, <5>2, <5>3
        <5> QED
          BY <1>2, <1>4, <3>2, <5>4
      <4>4. CASE p # Head(request[d].left)
        BY <1>2, <1>3, <1>4, <3>2, <3>3, <4>2, <4>4
      <4> QED
        BY <4>3, <4>4
    <3>4. CASE request'[d].left = request[d].left
      BY <1>5, <3>2, <3>4
    <3> QED
      BY <3>2, <3>3, <3>4
  <2>3. CASE AnswerStep(c) \/ InsertStep(c) \/ MergeStep(c) \/ BranchStep(c)
    <3>1. request'[d].op = "none"
      BY <1>7, <2>3, AnswerIs DEF AnswerStep, InsertStep, MergeStep, BranchStep
    <3> QED
      BY <3>1
  <2>4. CASE RemovalStep(c)
    <3>1. request'[d].op \in {"none", "delete"}
      BY <1>7, <2>4, ContinueIs DEF RemovalStep
    <3> QED
      BY <3>1
  <2>5. CASE SearchStep(c)
    <3>1. request'[d].op \in {"none", "delete"}
      BY <1>7, <2>5, ContinueIs DEF SearchStep
    <3> QED
      BY <3>1
  <2> QED
    BY <1>1, <2>1, <2>2, <2>3, <2>4, <2>5
<1> QED
  BY <1>6, <1>7

LEMMA KeysStayKnown ==
  ASSUME RowsTyped, RequestsSound, Room, FreshIds, KeysKnown, Next
  PROVE  KeysKnown'
<1> SUFFICES ASSUME stack = "go", NEW e \in Entities, NEW i \in live'[e], NEW p \in Entities
             PROVE  key'[e][i][p] < next'[p]
  BY RequestsStay, CheckedKeysStayKnown DEF KeysKnown
<1>1. PICK c \in Clients :
           \/ Quiet(c) \/ InsertStep(c) \/ MergeStep(c) \/ BranchStep(c) \/ RemovalStep(c)
  BY Steps, Zenon DEF Quiet
<1>2. next[p] \in Nat /\ next'[p] \in Nat /\ next[p] <= next'[p]
  BY NextGrows
<1>3. i \in Ids
  BY RowsStay DEF RowsTyped
<1>4. key[e][i][p] \in Nat /\ (i \in live[e] => key[e][i][p] < next[p])
  BY <1>3, IdsAreNumbers DEF RowsTyped, KeysKnown
<1>5. ASSUME i \in live[e], key'[e][i][p] = key[e][i][p]
      PROVE  key'[e][i][p] < next'[p]
  BY <1>2, <1>4, <1>5
<1>6. ASSUME Allowed(c), request[c].op \in {"create", "update"}
      PROVE  request[c].data[p] < next'[p]
  <2>1. request[c].left = <<>> /\ ToSet(<<>>) = {}
    BY <1>6 DEF Allowed, ToSet
  <2>2. request[c].data[p] < next[p]
    BY <1>6, <2>1 DEF KeysKnown
  <2>3. request[c].data[p] \in Nat
    BY IdsAreNumbers DEF RequestsSound, Handlers
  <2> QED
    BY <1>2, <2>2, <2>3
<1>7. CASE Quiet(c)
  BY <1>5, <1>7, QuietIs
<1>8. CASE InsertStep(c)
  <2>1. CASE e = request[c].entity /\ i = NewId(request[c].entity)
    <3>1. key'[e][i] = request[c].data
      BY <1>3, <1>8, <2>1, InsertIs
    <3> QED
      BY <1>6, <1>8, <3>1 DEF InsertStep
  <2>2. CASE ~(e = request[c].entity /\ i = NewId(request[c].entity))
    <3>1. live'[e] = IF e = request[c].entity
                     THEN live[e] \cup {NewId(request[c].entity)} ELSE live[e]
      BY <1>8, InsertIs, Zenon
    <3>2. key'[e][i] = key[e][i]
      BY <1>3, <1>8, <2>2, InsertIs, Zenon
    <3>3. i \in live[e]
      BY <2>2, <3>1
    <3> QED
      BY <1>5, <3>2, <3>3
  <2> QED
    BY <2>1, <2>2
<1>9. CASE MergeStep(c)
  <2>1. /\ i \in live[e]
        /\ \/ key'[e][i][p] = request[c].data[p]
           \/ key'[e][i][p] = key[e][i][p]
    BY <1>3, <1>9, MergeIs
  <2> QED
    BY <1>5, <1>6, <1>9, <2>1 DEF MergeStep
<1>10. CASE BranchStep(c)
  BY <1>10 DEF BranchStep
<1>11. CASE RemovalStep(c)
  <2>1. i \in live[e] /\ key'[e][i] = key[e][i]
    BY <1>11, RemovalIs
  <2> QED
    BY <1>5, <2>1
<1> QED
  BY <1>1, <1>7, <1>8, <1>9, <1>10, <1>11

\* A task that waits stays as true as it was.
LEMMA TaskStaysSound ==
  ASSUME RowsTyped, RequestsSound, Room, FreshIds, KeysKnown, Next, stack = "go",
         NEW t \in Task, TaskSound(t), NEW d \in Clients, t \in ToSet(request[d].work)
  PROVE  TaskSound(t)'
<1>1. PICK c \in Clients :
           \/ Quiet(c) \/ InsertStep(c) \/ MergeStep(c) \/ BranchStep(c) \/ RemovalStep(c)
  BY Steps, Zenon DEF Quiet
<1>2. /\ t.entity \in Entities /\ t.parent \in Entities /\ t.id \in Ids /\ t.id \in Nat
      /\ t.do \in {"search", "delete"}
  BY IdsAreNumbers DEF Task
<1>3. \A p \in Entities : next[p] \in Nat /\ next'[p] \in Nat /\ next[p] <= next'[p]
  BY NextGrows
<1>4. \A p \in Parents(t.entity) :
        /\ p \in Entities /\ key[t.entity][t.id][p] \in Nat
        /\ t.id \in live[t.entity] => key[t.entity][t.id][p] < next[p]
  BY <1>2, RelationsAre, IdsAreNumbers DEF RowsTyped, KeysKnown
<1>5. CASE t.do = "search"
  <2>1. t.id < next[t.parent] /\ t.id \notin live[t.parent]
    BY <1>5 DEF TaskSound
  <2>2. t.id < next'[t.parent]
    BY <1>2, <1>3, <2>1
  <2>3. t.id \notin live'[t.parent]
    <3>1. CASE InsertStep(c)
      <4>1. live'[t.parent] = IF t.parent = request[c].entity
                              THEN live[request[c].entity] \cup {NewId(request[c].entity)}
                              ELSE live[t.parent]
        BY <1>2, <3>1, InsertIs, Zenon
      <4>2. NewId(request[c].entity) = next[request[c].entity]
        BY DEF NewId
      <4> QED
        BY <1>2, <1>3, <2>1, <4>1, <4>2
    <3>2. CASE Quiet(c) \/ MergeStep(c)
      BY <2>1, <3>2, QuietIs, MergeIs
    <3>3. CASE BranchStep(c) \/ RemovalStep(c)
      BY <1>2, <2>1, <3>3, BranchStepIs, RemovalIs
    <3> QED
      BY <1>1, <3>1, <3>2, <3>3
  <2> QED
    BY <1>5, <2>2, <2>3 DEF TaskSound
<1>6. CASE t.do = "delete"
  <2>1. /\ t.id < next[t.entity]
        /\ t.id \in live[t.entity] =>
            \/ <<t.entity, t.id>> \in moved
            \/ \E p \in Parents(t.entity) : key[t.entity][t.id][p] \notin live[p]
    BY <1>6 DEF TaskSound
  <2>2. t.id < next'[t.entity]
    BY <1>2, <1>3, <2>1
  <2> SUFFICES ASSUME t.id \in live'[t.entity]
               PROVE  \/ <<t.entity, t.id>> \in moved'
                      \/ \E p \in Parents(t.entity) : key'[t.entity][t.id][p] \notin live'[p]
    BY <1>6, <2>2 DEF TaskSound
  <2>3. CASE Quiet(c)
    BY <2>1, <2>3, QuietIs
  <2>4. CASE InsertStep(c)
    <3> DEFINE e == request[c].entity
    <3>1. /\ e \in Entities /\ NewId(e) = next[e] /\ moved' = moved
          /\ \A f \in Entities : live'[f] = IF f = e THEN live[e] \cup {NewId(e)} ELSE live[f]
          /\ \A f \in Entities, k \in Ids :
               key'[f][k] = IF f = e /\ k = NewId(e) THEN request[c].data ELSE key[f][k]
      BY <2>4, InsertIs
    <3> HIDE DEF e
    <3>2. ~(t.entity = e /\ t.id = NewId(e))
      BY <1>2, <1>3, <2>1, <3>1
    <3>3. t.id \in live[t.entity] /\ key'[t.entity][t.id] = key[t.entity][t.id]
      BY <1>2, <3>1, <3>2
    <3>4. ASSUME NEW p \in Parents(t.entity), key[t.entity][t.id][p] \notin live[p]
          PROVE  key'[t.entity][t.id][p] \notin live'[p]
      <4>1. /\ p \in Entities /\ key[t.entity][t.id][p] \in Nat
            /\ key[t.entity][t.id][p] < next[p]
        BY <1>4, <3>3
      <4>2. p = e => key[t.entity][t.id][p] # NewId(e)
        BY <1>3, <3>1, <4>1
      <4> QED
        BY <3>1, <3>3, <3>4, <4>1, <4>2
    <3> QED
      BY <2>1, <3>1, <3>3, <3>4
  <2>5. CASE MergeStep(c)
    <3> DEFINE e == request[c].entity
               i == request[c].id
    <3>1. /\ live' = live /\ moved \subseteq moved'
          /\ <<e, i>> \in Doomed => <<e, i>> \in moved'
          /\ \A f \in Entities, k \in Ids, p \in Entities :
               key'[f][k][p] = IF f = e /\ k = i /\ request[c].data[p] # 0
                               THEN request[c].data[p] ELSE key[f][k][p]
      BY <2>5, MergeIs
    <3>2. <<t.entity, t.id>> \in Doomed
      BY <1>6 DEF Doomed
    <3> HIDE DEF e, i
    <3>3. CASE t.entity = e /\ t.id = i
      BY <3>1, <3>2, <3>3
    <3>4. CASE ~(t.entity = e /\ t.id = i)
      <4>1. \A p \in Parents(t.entity) : key'[t.entity][t.id][p] = key[t.entity][t.id][p]
        BY <1>2, <1>4, <3>1, <3>4
      <4> QED
        BY <2>1, <3>1, <4>1
    <3> QED
      BY <3>3, <3>4
  <2>6. CASE BranchStep(c)
    BY <2>6 DEF BranchStep
  <2>7. CASE RemovalStep(c)
    <3>1. /\ \A e \in Entities : live'[e] \subseteq live[e]
          /\ key'[t.entity][t.id] = key[t.entity][t.id] /\ moved' = moved
      BY <1>2, <2>7, RemovalIs
    <3> QED
      BY <1>2, <1>4, <2>1, <3>1
  <2> QED
    BY <1>1, <2>3, <2>4, <2>5, <2>6, <2>7
<1> QED
  BY <1>2, <1>5, <1>6

LEMMA TasksStaySound ==
  ASSUME RowsTyped, RequestsSound, Room, FreshIds, KeysKnown, TasksSound, Next
  PROVE  TasksSound'
<1> SUFFICES ASSUME stack = "go", NEW d \in Clients, NEW t \in ToSet(request'[d].work)
             PROVE  TaskSound(t)'
  BY RequestsStay DEF TasksSound
<1>1. PICK c \in Clients :
           \/ Send(c) \/ Find(c) \/ CheckParent(c) \/ AnswerStep(c)
           \/ InsertStep(c) \/ MergeStep(c) \/ BranchStep(c)
           \/ RemovalStep(c) \/ SearchStep(c)
  BY Steps
<1>2. ASSUME NEW b \in Clients, t \in ToSet(request[b].work)
      PROVE  TaskSound(t)'
  <2>1. TaskSound(t)
    BY <1>2 DEF TasksSound
  <2>2. t \in Task
    <3>1. request[b].work \in Seq(Task)
      BY DEF RequestsSound, Handlers
    <3> QED
      BY <1>2, <3>1 DEF ToSet
  <2> QED
    BY <1>2, <2>1, <2>2, TaskStaysSound
<1>3. ToSet(<<>>) = {}
  BY DEF ToSet
<1>4. CASE Send(c) \/ Find(c) \/ CheckParent(c)
  <2>1. d # c => request'[d] = request[d]
    BY <1>4, SendIs, ReadingIs
  <2>2. d = c => request'[d].work = <<>>
    BY <1>4, SendIs, ReadingIs
  <2> QED
    BY <1>2, <1>3, <2>1, <2>2
<1>5. CASE AnswerStep(c) \/ InsertStep(c) \/ MergeStep(c) \/ BranchStep(c)
  <2>1. Answer(c)
    BY <1>5, Zenon DEF AnswerStep, InsertStep, MergeStep, BranchStep
  <2>2. d # c => request'[d] = request[d]
    BY <2>1, AnswerIs
  <2>3. d = c => request'[d].work = <<>>
    BY <2>1, AnswerIs
  <2> QED
    BY <1>2, <1>3, <2>2, <2>3
<1>6. CASE RemovalStep(c)
  <2>1. PICK u \in Task, rest \in Seq(Task), work \in Seq(Task) :
           /\ ToSet(rest) \subseteq ToSet(request[c].work) /\ request[c].op = "delete"
           /\ Continue(c, work)
           /\ \/ /\ u.id \in live[u.entity] /\ Erase({<<u.entity, u.id>>})
                 /\ ToSet(work) = {Search(e, u.entity, u.id) :
                                     e \in {e \in Entities : u.entity \in Parents(e)}}
                                   \cup ToSet(rest)
              \/ UNCHANGED <<rows, history>> /\ work = rest
    BY <1>6, Zenon DEF RemovalStep
  <2>2. /\ request'[c].work = work
        /\ d # c => request'[d] = request[d]
    BY <2>1, ContinueIs
  <2>3. CASE d # c \/ t \in ToSet(rest)
    BY <1>2, <2>1, <2>2, <2>3
  <2>4. CASE d = c /\ t \notin ToSet(rest)
    <3>1. /\ u.id \in live[u.entity] /\ Erase({<<u.entity, u.id>>})
          /\ \E e \in Entities : t = Search(e, u.entity, u.id)
      BY <2>1, <2>2, <2>4
    <3>2. t.do = "search" /\ t.parent = u.entity /\ t.id = u.id
      BY <3>1 DEF Search
    <3>3. u.entity \in Entities
      BY DEF Task
    <3>4. u.id < next[u.entity]
      BY <3>1, <3>3 DEF FreshIds
    <3>5. u.id \notin live'[u.entity] /\ next' = next
      <4>1. /\ live'[u.entity] = {i \in live[u.entity] : <<u.entity, i>> \notin {<<u.entity, u.id>>}}
            /\ next' = next
        BY <3>1, <3>3, EraseIs, Zenon
      <4> QED
        BY <4>1
    <3> QED
      BY <3>2, <3>4, <3>5 DEF TaskSound
  <2> QED
    BY <2>3, <2>4
<1>7. CASE SearchStep(c)
  <2>1. PICK u \in Task, work \in Seq(Task) :
          /\ u.do = "search" /\ request[c].op = "delete"
          /\ u \in ToSet(request[c].work)
          /\ ToSet(work) = {Removal(u.entity, i) :
                              i \in {i \in live[u.entity] : Refers(u.entity, i, u.parent, u.id)}}
                            \cup ToSet(Tail(request[c].work))
          /\ ToSet(request[c].work) = {u} \cup ToSet(Tail(request[c].work))
          /\ Continue(c, work)
    BY <1>7, Zenon DEF SearchStep
  <2>2. /\ request'[c].work = work
        /\ d # c => request'[d] = request[d]
    BY <2>1, ContinueIs
  <2>3. CASE d # c \/ t \in ToSet(Tail(request[c].work))
    BY <1>2, <2>1, <2>2, <2>3
  <2>4. CASE d = c /\ t \notin ToSet(Tail(request[c].work))
    <3>1. PICK i \in live[u.entity] :
            t = Removal(u.entity, i) /\ Refers(u.entity, i, u.parent, u.id)
      BY <2>1, <2>2, <2>4
    <3>2. t.do = "delete" /\ t.entity = u.entity /\ t.id = i
      BY <3>1 DEF Removal
    <3>3. u.entity \in Entities /\ u.parent \in Parents(u.entity)
      BY <2>1 DEF Task
    <3>4. TaskSound(u)
      BY <2>1 DEF TasksSound
    <3>5. key[u.entity][i][u.parent] = u.id /\ u.id \notin live[u.parent]
      BY <2>1, <3>1, <3>4 DEF TaskSound, Refers
    <3>6. i < next[u.entity]
      BY <3>3 DEF FreshIds
    <3>7. live' = live /\ key' = key /\ next' = next
      BY <1>7, QuietIs DEF Quiet
    <3> QED
      BY <3>2, <3>3, <3>5, <3>6, <3>7 DEF TaskSound
  <2> QED
    BY <2>3, <2>4
<1> QED
  BY <1>1, <1>4, <1>5, <1>6, <1>7

-----------------------------------------------------------------------------
(* Nothing refers to what is gone                                          *)

\* Only a cascade that goes on takes a task off a list.
LEMMA TasksKept ==
  ASSUME RequestsSound, NEW c \in Clients,
         \/ Send(c) \/ Find(c) \/ CheckParent(c) \/ AnswerStep(c)
         \/ InsertStep(c) \/ MergeStep(c)
  PROVE  \A d \in Clients : request'[d].work = request[d].work
<1>1. CASE Send(c) \/ Find(c) \/ CheckParent(c)
  BY <1>1, SendIs, ReadingIs, Zenon
<1>2. CASE AnswerStep(c) \/ InsertStep(c) \/ MergeStep(c)
  <2>1. Answer(c)
    BY <1>2, Zenon DEF AnswerStep, InsertStep, MergeStep
  <2>2. HandlerSound(request[c])
    BY DEF RequestsSound
  <2>3. request[c].pc # "cascade"
    BY <1>2, <2>2 DEF AnswerStep, InsertStep, MergeStep, HandlerSound
  <2>4. request[c].work = <<>>
    BY <2>2, <2>3 DEF HandlerSound
  <2> QED
    BY <2>1, <2>4, AnswerIs
<1> QED
  BY <1>1, <1>2

LEMMA StillFallsKept ==
  ASSUME NEW e, NEW i, NEW p, StillFalls(e, i, p), key'[e][i][p] = key[e][i][p],
         \A d \in Clients : request'[d].work = request[d].work
  PROVE  StillFalls(e, i, p)'
BY DEF StillFalls

LEMMA InsertLeavesNoOrphans ==
  ASSUME RowsTyped, RequestsSound, Room, FreshIds, NoOrphans, NEW c \in Clients, InsertStep(c),
         stack' = stack
  PROVE  NoOrphans'
<1> SUFFICES ASSUME NEW e \in Entities, NEW i \in live'[e], NEW p \in Parents(e)
             PROVE  \/ key'[e][i][p] \in live'[p]
                    \/ stack = "go" /\ (StillFalls(e, i, p)' \/ <<e, i>> \in raced')
  BY DEF NoOrphans
<1> DEFINE f == request[c].entity
           n == NewId(request[c].entity)
           data == request[c].data
<1>1. /\ f \in Entities /\ n \in Ids
      /\ \A q \in Parents(f) : data[q] # 0
      /\ \A g \in Entities : live'[g] = IF g = f THEN live[f] \cup {n} ELSE live[g]
      /\ \A g \in Entities, k \in Ids : key'[g][k] = IF g = f /\ k = n THEN data ELSE key[g][k]
      /\ raced \subseteq raced' /\ (Broken(data) => <<f, n>> \in raced')
      /\ live' \in [Entities -> SUBSET Ids]
  BY InsertIs, Zenon
<1>2. Allowed(c)
  BY DEF InsertStep
<1> HIDE DEF f, n, data
<1>3. p \in Entities /\ i \in Ids /\ live[p] \subseteq live'[p]
  BY <1>1, RelationsAre
<1>4. CASE e = f /\ i = n
  <2>1. key'[e][i][p] = data[p] /\ data[p] # 0
    BY <1>1, <1>3, <1>4
  <2>2. CASE Broken(data)
    BY <1>1, <1>2, <1>4, <2>2 DEF Allowed, data
  <2>3. CASE ~Broken(data)
    <3>1. data[p] \in live[p]
      BY <1>3, <2>1, <2>3 DEF Broken
    <3> QED
      BY <1>3, <2>1, <3>1
  <2> QED
    BY <2>2, <2>3
<1>5. CASE ~(e = f /\ i = n)
  <2>1. i \in live[e]
    BY <1>1, <1>5
  <2>2. key'[e][i] = key[e][i]
    BY <1>1, <1>3, <1>5
  <2>3. \A d \in Clients : request'[d].work = request[d].work
    BY TasksKept
  <2>4. \/ key[e][i][p] \in live[p]
        \/ stack = "go" /\ (StillFalls(e, i, p) \/ <<e, i>> \in raced)
    BY <2>1 DEF NoOrphans
  <2>5. StillFalls(e, i, p) => StillFalls(e, i, p)'
    BY <2>2, <2>3, StillFallsKept
  <2> QED
    BY <1>1, <1>3, <2>2, <2>4, <2>5
<1> QED
  BY <1>4, <1>5

LEMMA MergeLeavesNoOrphans ==
  ASSUME RowsTyped, RequestsSound, NoOrphans, NEW c \in Clients, MergeStep(c), stack' = stack
  PROVE  NoOrphans'
<1> SUFFICES ASSUME NEW e \in Entities, NEW i \in live'[e], NEW p \in Parents(e)
             PROVE  \/ key'[e][i][p] \in live'[p]
                    \/ stack = "go" /\ (StillFalls(e, i, p)' \/ <<e, i>> \in raced')
  BY DEF NoOrphans
<1> DEFINE f == request[c].entity
           n == request[c].id
           data == request[c].data
<1>1. /\ f \in Entities /\ n \in Ids /\ live' = live
      /\ \A g \in Entities, k \in Ids, q \in Entities :
           key'[g][k][q] = IF g = f /\ k = n /\ data[q] # 0 THEN data[q] ELSE key[g][k][q]
      /\ raced \subseteq raced' /\ (Broken(data) => <<f, n>> \in raced')
  BY MergeIs, Zenon
<1>2. Allowed(c)
  BY DEF MergeStep
<1> HIDE DEF f, n, data
<1>3. p \in Entities /\ i \in Ids /\ i \in live[e]
  BY <1>1, RelationsAre DEF RowsTyped
<1>4. CASE e = f /\ i = n /\ data[p] # 0
  <2>1. key'[e][i][p] = data[p]
    BY <1>1, <1>3, <1>4
  <2>2. CASE Broken(data)
    BY <1>1, <1>2, <1>4, <2>2 DEF Allowed, data
  <2>3. CASE ~Broken(data)
    <3>1. data[p] \in live[p]
      BY <1>3, <1>4, <2>3 DEF Broken
    <3> QED
      BY <1>1, <2>1, <3>1
  <2> QED
    BY <2>2, <2>3
<1>5. CASE ~(e = f /\ i = n /\ data[p] # 0)
  <2>1. key'[e][i][p] = key[e][i][p]
    BY <1>1, <1>3, <1>5
  <2>2. \A d \in Clients : request'[d].work = request[d].work
    BY TasksKept
  <2>3. \/ key[e][i][p] \in live[p]
        \/ stack = "go" /\ (StillFalls(e, i, p) \/ <<e, i>> \in raced)
    BY <1>3 DEF NoOrphans
  <2>4. StillFalls(e, i, p) => StillFalls(e, i, p)'
    BY <2>1, <2>2, StillFallsKept
  <2> QED
    BY <1>1, <2>1, <2>3, <2>4
<1> QED
  BY <1>4, <1>5

\* A branch takes all that refers into it with it.
LEMMA BranchLeavesNoOrphans ==
  ASSUME RowsTyped, RequestsSound, NoOrphans, NEW c \in Clients, BranchStep(c), stack' = stack
  PROVE  NoOrphans'
<1> SUFFICES ASSUME NEW e \in Entities, NEW i \in live'[e], NEW p \in Parents(e)
             PROVE  key'[e][i][p] \in live'[p]
  BY DEF NoOrphans
<1> DEFINE branch == Branch(request[c].entity, request[c].id)
           j == key[e][i][p]
<1>1. stack # "go" /\ Erase(branch)
  BY DEF BranchStep
<1>2. request[c].entity \in Entities /\ request[c].id \in Ids
  <2>1. HandlerSound(request[c])
    BY DEF RequestsSound
  <2> QED
    BY <2>1 DEF HandlerSound, BranchStep
<1>3. Underneath(branch) \subseteq branch
  BY <1>2, BranchIs
<1> HIDE DEF branch
<1>4. /\ \A f \in Entities : live'[f] = {k \in live[f] : <<f, k>> \notin branch}
      /\ \A f \in Entities : \A k \in live'[f] : key'[f][k] = key[f][k]
  BY <1>1, EraseIs, Zenon
<1>5. i \in live[e] /\ <<e, i>> \notin branch /\ key'[e][i][p] = j
  BY <1>4
<1>6. p \in Entities /\ i \in Ids /\ j \in live[p]
  BY <1>1, <1>5, RelationsAre DEF NoOrphans, RowsTyped
<1>7. <<e, i>> \in Children(p, j)
  BY <1>5, <1>6 DEF Children, Refers
<1>8. <<p, j>> \notin branch
  <2>1. <<p, j>> \in branch => Children(p, j) \subseteq Underneath(branch)
    BY DEF Underneath
  <2> QED
    BY <1>3, <1>5, <1>7, <2>1
<1>9. j \in live'[p]
  BY <1>4, <1>6, <1>8
<1> QED
  BY <1>5, <1>9

LEMMA RemovalLeavesNoOrphans ==
  ASSUME RowsTyped, RequestsSound, NoOrphans, NEW c \in Clients, RemovalStep(c), stack' = stack
  PROVE  NoOrphans'
<1> SUFFICES ASSUME NEW e \in Entities, NEW i \in live'[e], NEW p \in Parents(e)
             PROVE  \/ key'[e][i][p] \in live'[p]
                    \/ stack = "go" /\ (StillFalls(e, i, p)' \/ <<e, i>> \in raced')
  BY DEF NoOrphans
<1>1. PICK u \in Task, rest \in Seq(Task), work \in Seq(Task) :
        /\ u.do = "delete" /\ stack = "go" /\ request[c].op = "delete"
        /\ ToSet(request[c].work) \subseteq {u} \cup ToSet(rest)
        /\ Continue(c, work)
        /\ \/ /\ u.id \in live[u.entity] /\ Erase({<<u.entity, u.id>>})
              /\ ToSet(work) = {Search(f, u.entity, u.id) :
                                  f \in {f \in Entities : u.entity \in Parents(f)}}
                                \cup ToSet(rest)
           \/ u.id \notin live[u.entity] /\ UNCHANGED <<rows, history>> /\ work = rest
  BY Zenon DEF RemovalStep
<1>2. /\ request'[c].work = work
      /\ \A d \in Clients : d # c => request'[d] = request[d]
  BY <1>1, ContinueIs
<1>3. ToSet(rest) \subseteq ToSet(work)
  BY <1>1
<1>4. /\ i \in live[e] /\ key'[e][i] = key[e][i] /\ raced' = raced
  BY RemovalIs
<1>5. p \in Entities /\ i \in Ids
  BY <1>4, RelationsAre DEF RowsTyped
<1>6. ~(u.entity = e /\ u.id = i)
  <2>1. CASE Erase({<<u.entity, u.id>>})
    <3>1. live'[e] = {k \in live[e] : <<e, k>> \notin {<<u.entity, u.id>>}}
      BY <2>1, EraseIs, Zenon
    <3> QED
      BY <3>1
  <2>2. CASE u.id \notin live[u.entity]
    BY <1>4, <2>2
  <2> QED
    BY <1>1, <2>1, <2>2
<1> DEFINE j == key[e][i][p]
<1>7. CASE StillFalls(e, i, p)
  <2>0. PICK d \in Clients : \E t \in ToSet(request[d].work) :
          t = Removal(e, i) \/ t = Search(e, p, j)
    BY <1>7 DEF StillFalls
  <2>1. PICK t \in ToSet(request[d].work) : t = Removal(e, i) \/ t = Search(e, p, j)
    BY <2>0
  <2>2. t # u
    BY <1>1, <1>6, <2>1 DEF Removal, Search
  <2>3. t \in ToSet(request'[d].work)
    BY <1>1, <1>2, <1>3, <2>1, <2>2
  <2>4. StillFalls(e, i, p)'
    BY <1>4, <2>1, <2>3 DEF StillFalls
  <2> QED
    BY <1>1, <2>4
<1>8. CASE stack = "go" /\ <<e, i>> \in raced
  BY <1>4, <1>8
<1>9. CASE j \in live[p]
  <2>1. CASE /\ Erase({<<u.entity, u.id>>})
             /\ ToSet(work) = {Search(f, u.entity, u.id) :
                                 f \in {f \in Entities : u.entity \in Parents(f)}}
                               \cup ToSet(rest)
    <3>0. Erase({<<u.entity, u.id>>})
      BY <2>1
    <3>1. live'[p] = {k \in live[p] : <<p, k>> \notin {<<u.entity, u.id>>}}
      BY <1>5, <3>0, EraseIs, Zenon
    <3>2. CASE p = u.entity /\ j = u.id
      <4>1. Search(e, p, j) \in ToSet(request'[c].work)
        BY <1>2, <2>1, <3>2
      <4>2. StillFalls(e, i, p)'
        BY <1>4, <4>1 DEF StillFalls
      <4> QED
        BY <1>1, <4>2
    <3>3. CASE ~(p = u.entity /\ j = u.id)
      BY <1>4, <1>9, <3>1, <3>3
    <3> QED
      BY <3>2, <3>3
  <2>2. CASE UNCHANGED <<rows, history>>
    BY <1>4, <1>9, <2>2 DEF rows
  <2> QED
    BY <1>1, <2>1, <2>2
<1> QED
  BY <1>4, <1>7, <1>8, <1>9 DEF NoOrphans

LEMMA SearchLeavesNoOrphans ==
  ASSUME RowsTyped, RequestsSound, NoOrphans, NEW c \in Clients, SearchStep(c), stack' = stack
  PROVE  NoOrphans'
<1> SUFFICES ASSUME NEW e \in Entities, NEW i \in live'[e], NEW p \in Parents(e)
             PROVE  \/ key'[e][i][p] \in live'[p]
                    \/ stack = "go" /\ (StillFalls(e, i, p)' \/ <<e, i>> \in raced')
  BY DEF NoOrphans
<1>1. live' = live /\ key' = key /\ raced' = raced
  BY QuietIs DEF Quiet
<1>2. PICK u \in Task, work \in Seq(Task) :
        /\ u.do = "search" /\ stack = "go" /\ request[c].op = "delete"
        /\ ToSet(work) = {Removal(u.entity, k) :
                            k \in {k \in live[u.entity] : Refers(u.entity, k, u.parent, u.id)}}
                          \cup ToSet(Tail(request[c].work))
        /\ ToSet(request[c].work) = {u} \cup ToSet(Tail(request[c].work))
        /\ Continue(c, work)
  BY Zenon DEF SearchStep
<1>3. /\ request'[c].work = work
      /\ \A d \in Clients : d # c => request'[d] = request[d]
  BY <1>2, ContinueIs
<1>4. ToSet(Tail(request[c].work)) \subseteq ToSet(work)
  BY <1>2
<1> DEFINE j == key[e][i][p]
<1>5. CASE StillFalls(e, i, p)
  <2>0. PICK d \in Clients : \E t \in ToSet(request[d].work) :
          t = Removal(e, i) \/ t = Search(e, p, j)
    BY <1>5 DEF StillFalls
  <2>1. PICK t \in ToSet(request[d].work) : t = Removal(e, i) \/ t = Search(e, p, j)
    BY <2>0
  <2>2. CASE d = c /\ t = u
    <3>1. u = Search(e, p, j)
      BY <1>2, <2>1, <2>2 DEF Removal
    <3>2. u.entity = e /\ u.parent = p /\ u.id = j
      BY <3>1 DEF Search
    <3>3. i \in live[u.entity] /\ Refers(u.entity, i, u.parent, u.id)
      BY <1>1, <3>2 DEF Refers
    <3>4. Removal(e, i) \in ToSet(work)
      BY <1>2, <3>2, <3>3
    <3>5. StillFalls(e, i, p)'
      BY <1>3, <3>4 DEF StillFalls
    <3> QED
      BY <1>2, <3>5
  <2>3. CASE ~(d = c /\ t = u)
    <3>1. t \in ToSet(request'[d].work)
      BY <1>2, <1>3, <1>4, <2>1, <2>3
    <3>2. StillFalls(e, i, p)'
      BY <1>1, <2>1, <3>1 DEF StillFalls
    <3> QED
      BY <1>2, <3>2
  <2> QED
    BY <2>2, <2>3
<1>6. CASE ~StillFalls(e, i, p)
  BY <1>1, <1>6 DEF NoOrphans
<1> QED
  BY <1>5, <1>6

LEMMA NoOrphansStay ==
  ASSUME RowsTyped, RequestsSound, Room, FreshIds, NoOrphans, Next
  PROVE  NoOrphans'
<1>1. PICK c \in Clients :
           \/ Send(c) \/ Find(c) \/ CheckParent(c) \/ AnswerStep(c)
           \/ InsertStep(c) \/ MergeStep(c) \/ BranchStep(c)
           \/ RemovalStep(c) \/ SearchStep(c)
  BY Steps
<1>2. stack' = stack
  BY RequestsStay
<1>3. CASE Send(c) \/ Find(c) \/ CheckParent(c) \/ AnswerStep(c)
  <2>1. live' = live /\ key' = key /\ raced' = raced
    BY <1>3, QuietIs DEF Quiet
  <2>2. \A d \in Clients : request'[d].work = request[d].work
    BY <1>3, TasksKept
  <2>3. \A e, i, p : StillFalls(e, i, p) => StillFalls(e, i, p)'
    BY <2>1, <2>2 DEF StillFalls
  <2> QED
    BY <1>2, <2>1, <2>3 DEF NoOrphans
<1>4. CASE InsertStep(c) \/ MergeStep(c) \/ BranchStep(c)
  BY <1>2, <1>4, InsertLeavesNoOrphans, MergeLeavesNoOrphans, BranchLeavesNoOrphans
<1>5. CASE RemovalStep(c) \/ SearchStep(c)
  BY <1>2, <1>5, RemovalLeavesNoOrphans, SearchLeavesNoOrphans
<1> QED
  BY <1>1, <1>3, <1>4, <1>5

-----------------------------------------------------------------------------
(* Only branches fall                                                      *)

LEMMA FallsAreJustified ==
  ASSUME IInv, Next, NEW e \in Entities, NEW i \in live[e] \ live'[e]
  PROVE  \/ Asked(e, i)
         \/ \E p \in Parents(e) : key[e][i][p] \notin live'[p]
         \/ stack = "go" /\ <<e, i>> \in moved
<1>1. PICK c \in Clients :
           \/ Quiet(c) \/ InsertStep(c) \/ MergeStep(c) \/ BranchStep(c) \/ RemovalStep(c)
  BY Steps, Zenon DEF Quiet, IInv
<1> USE DEF IInv
<1>2. CASE Quiet(c)
  BY <1>2, QuietIs
<1>3. CASE InsertStep(c)
  <2>1. live'[e] = IF e = request[c].entity
                     THEN live[request[c].entity] \cup {NewId(request[c].entity)} ELSE live[e]
    BY <1>3, InsertIs, Zenon
  <2> QED
    BY <2>1
<1>4. CASE MergeStep(c)
  BY <1>4, MergeIs
<1>5. CASE BranchStep(c)
  <2> DEFINE branch == Branch(request[c].entity, request[c].id)
  <2>1. /\ Erase(branch) /\ request[c].pc # "idle" /\ request[c].op = "delete"
    BY <1>5 DEF BranchStep
  <2>2. request[c].entity \in Entities /\ request[c].id \in Ids
    <3>1. HandlerSound(request[c])
      BY DEF RequestsSound
    <3> QED
      BY <2>1, <3>1 DEF HandlerSound
  <2>0. \A r \in branch : r = <<request[c].entity, request[c].id>> \/ r \in Underneath(branch)
    BY <2>2, BranchIs, Zenon
  <2> HIDE DEF branch
  <2>3. \A r \in branch : \/ r = <<request[c].entity, request[c].id>>
                          \/ \E s \in branch : r \in Children(s[1], s[2])
    BY <2>0 DEF Underneath
  <2>4. \A f \in Entities : live'[f] = {k \in live[f] : <<f, k>> \notin branch}
    BY <2>1, EraseIs, Zenon
  <2>5. <<e, i>> \in branch
    BY <2>4
  <2>6. CASE <<e, i>> = <<request[c].entity, request[c].id>>
    BY <2>1, <2>6 DEF Asked
  <2>7. CASE \E s \in branch : <<e, i>> \in Children(s[1], s[2])
    <3>1. PICK s \in branch : <<e, i>> \in Children(s[1], s[2])
      BY <2>7
    <3>2. s[1] \in Parents(e) /\ key[e][i][s[1]] = s[2]
      BY <3>1 DEF Children, Refers
    <3>3. s \in Nodes
      <4>1. s = <<request[c].entity, request[c].id>> \/ \E r \in branch : s \in Children(r[1], r[2])
        BY <2>3, Zenon
      <4> QED
        BY <2>2, <4>1 DEF Nodes, Children
    <3>4. s = <<s[1], s[2]>> /\ s[1] \in Entities
      BY <3>3 DEF Nodes
    <3>5. s[2] \notin live'[s[1]]
      BY <2>4, <3>4
    <3> QED
      BY <3>2, <3>5
  <2> QED
    BY <2>3, <2>5, <2>6, <2>7
<1>6. CASE RemovalStep(c)
  <2>1. PICK u \in Task :
          /\ stack = "go" /\ u.do = "delete" /\ request[c].op = "delete" /\ request[c].pc # "idle"
          /\ \/ u.entity = request[c].entity /\ u.id = request[c].id
             \/ u \in ToSet(request[c].work)
          /\ Erase({<<u.entity, u.id>>}) \/ UNCHANGED <<rows, history>>
    BY <1>6, Zenon DEF RemovalStep
  <2>2. Erase({<<u.entity, u.id>>})
    BY <2>1 DEF rows
  <2>3. live'[e] = {k \in live[e] : <<e, k>> \notin {<<u.entity, u.id>>}}
    BY <2>2, EraseIs, Zenon
  <2>4. u.entity = e /\ u.id = i
    BY <2>3
  <2>5. CASE u.entity = request[c].entity /\ u.id = request[c].id
    BY <2>1, <2>4, <2>5 DEF Asked
  <2>6. CASE u \in ToSet(request[c].work)
    <3>1. TaskSound(u)
      BY <2>1, <2>6 DEF TasksSound
    <3>2. \/ <<e, i>> \in moved
          \/ \E p \in Parents(e) : key[e][i][p] \notin live[p]
      BY <2>1, <2>4, <3>1 DEF TaskSound
    <3>3. \A p \in Parents(e) : live'[p] \subseteq live[p]
      BY <1>6, RemovalIs, RelationsAre
    <3> QED
      BY <2>1, <3>2, <3>3
  <2> QED
    BY <2>1, <2>5, <2>6
<1> QED
  BY <1>1, <1>2, <1>3, <1>4, <1>5, <1>6

-----------------------------------------------------------------------------
(* Pages                                                                   *)

LEMMA SameElements ==
  ASSUME NEW S, NEW s \in Seq(S), NEW t \in Seq(S), Len(s) = Len(t),
         \A k \in 1 .. Len(s) : s[k] = t[k]
  PROVE  s = t
<1>1. s = [k \in 1 .. Len(s) |-> s[k]] /\ t = [k \in 1 .. Len(t) |-> t[k]]
  OBVIOUS
<1> QED
  BY <1>1

\* The length of a window on so many rows.
Shown(there, limit, offset) ==
  IF there <= offset THEN 0
  ELSE IF offset + limit < there THEN limit ELSE there - offset

LEMMA WindowIs ==
  ASSUME NEW S, NEW s \in Seq(S), NEW limit \in Nat \ {0}, NEW offset \in Nat
  PROVE  LET w == Window(s, limit, offset)
             length == Shown(Len(s), limit, offset) IN
         /\ w \in Seq(S) /\ Len(w) = length /\ length \in Nat
         /\ \A k \in 1 .. length : k + offset \in 1 .. Len(s) /\ w[k] = s[k + offset]
<1> DEFINE w == Window(s, limit, offset)
           last == IF offset + limit < Len(s) THEN offset + limit ELSE Len(s)
           length == Shown(Len(s), limit, offset)
           m == offset + 1
<1>1. /\ Len(s) \in Nat /\ last \in Nat /\ last <= Len(s) /\ length \in Nat
      /\ IF m <= last THEN length = last - m + 1 ELSE length = 0
      /\ m \in Int /\ \A k \in m .. last : s[k] \in S
  BY DEF Shown
<1>2. w = SubSeq(s, m, last)
  BY DEF Window
<1> HIDE DEF w, last, length, m
<1>3. /\ SubSeq(s, m, last) \in Seq(S)
      /\ Len(SubSeq(s, m, last)) = IF m <= last THEN last - m + 1 ELSE 0
      /\ \A k \in 1 .. last - m + 1 : SubSeq(s, m, last)[k] = s[m + k - 1]
  BY <1>1
<1>4. w \in Seq(S) /\ Len(w) = length
  BY <1>1, <1>2, <1>3
<1>5. ASSUME NEW k \in 1 .. length
      PROVE  k + offset \in 1 .. Len(s) /\ w[k] = s[k + offset]
  <2>1. k \in 1 .. last - m + 1 /\ m + k - 1 = k + offset
    BY <1>1 DEF m
  <2>2. k + offset \in 1 .. Len(s)
    BY <1>1, <2>1 DEF m
  <2>3. w[k] = s[m + k - 1]
    BY <1>2, <1>3, <2>1
  <2> QED
    BY <2>1, <2>2, <2>3
<1> QED
  BY <1>1, <1>4, <1>5 DEF w, length

\* One more row fills the gap before the window, or the window, or nothing.
LEMMA WindowGrows ==
  ASSUME NEW S, NEW s \in Seq(S), NEW x \in S, NEW limit \in Nat \ {0}, NEW offset \in Nat
  PROVE  /\ (Len(Window(s, limit, offset)) = limit) <=> (Len(s) >= offset + limit)
         /\ Len(s) >= offset + limit \/ Len(s) < offset =>
              Window(Append(s, x), limit, offset) = Window(s, limit, offset)
         /\ Len(s) >= offset /\ Len(s) < offset + limit =>
              Window(Append(s, x), limit, offset) = Append(Window(s, limit, offset), x)
<1> DEFINE t == Append(s, x)
           Long(n) == Shown(n, limit, offset)
           v == Window(s, limit, offset)
           w == Window(t, limit, offset)
<1>1. /\ t \in Seq(S) /\ Len(t) = Len(s) + 1 /\ Len(s) \in Nat
      /\ \A k \in 1 .. Len(s) : t[k] = s[k]
      /\ t[Len(s) + 1] = x
  OBVIOUS
<1>2. /\ v \in Seq(S) /\ Len(v) = Long(Len(s)) /\ Long(Len(s)) \in Nat
      /\ \A k \in 1 .. Long(Len(s)) : k + offset \in 1 .. Len(s) /\ v[k] = s[k + offset]
  BY WindowIs
<1> HIDE DEF t
<1>3. /\ w \in Seq(S) /\ Len(w) = Long(Len(t)) /\ Long(Len(t)) \in Nat
      /\ \A k \in 1 .. Long(Len(t)) : k + offset \in 1 .. Len(t) /\ w[k] = t[k + offset]
  <2>1. t \in Seq(S)
    BY <1>1
  <2> QED
    BY <2>1, WindowIs
<1> HIDE DEF v, w
<1>4. (Len(v) = limit) <=> (Len(s) >= offset + limit)
  <2>1. (Long(Len(s)) = limit) <=> (Len(s) >= offset + limit)
    BY <1>1 DEF Shown
  <2> HIDE DEF Long
  <2> QED
    BY <1>2, <2>1
<1>5. ASSUME Len(s) >= offset + limit \/ Len(s) < offset
      PROVE  w = v
  <2>1. Long(Len(t)) = Long(Len(s))
    BY <1>1, <1>5 DEF Shown
  <2> HIDE DEF Long
  <2>2. \A k \in 1 .. Long(Len(s)) : w[k] = v[k]
    BY <1>1, <1>2, <1>3, <2>1
  <2> QED
    BY <1>2, <1>3, <2>1, <2>2, SameElements
<1>6. ASSUME Len(s) >= offset, Len(s) < offset + limit
      PROVE  w = Append(v, x)
  <2> DEFINE n == Long(Len(s))
  <2>1. Long(Len(t)) = n + 1 /\ n \in Nat /\ n + 1 + offset = Len(s) + 1
    BY <1>1, <1>6 DEF Shown
  <2> HIDE DEF Long
  <2>2. Len(v) = n
    BY <1>2
  <2> HIDE DEF n
  <2>3. /\ Append(v, x) \in Seq(S) /\ Len(Append(v, x)) = n + 1
        /\ \A k \in 1 .. n : Append(v, x)[k] = v[k]
        /\ Append(v, x)[n + 1] = x
    BY <1>2, <2>2
  <2>4. ASSUME NEW k \in 1 .. n + 1
        PROVE  w[k] = Append(v, x)[k]
    <3>1. w[k] = t[k + offset]
      BY <1>3, <2>1
    <3>2. CASE k = n + 1
      BY <1>1, <2>1, <2>3, <3>1, <3>2
    <3>3. CASE k \in 1 .. n
      <4>1. k + offset \in 1 .. Len(s) /\ v[k] = s[k + offset]
        BY <1>2, <3>3 DEF n
      <4> QED
        BY <1>1, <2>3, <3>1, <3>3, <4>1
    <3>4. k = n + 1 \/ k \in 1 .. n
      BY <2>1
    <3> QED
      BY <3>2, <3>3, <3>4, Zenon
  <2> QED
    BY <1>3, <2>1, <2>3, <2>4, SameElements
<1> QED
  BY <1>4, <1>5, <1>6 DEF v, w, t

\* The walk of Go and the filter of the others, as they go through the ids.
Walk(f, e, where, limit, offset) ==
  f = [n \in 0 .. MaxId |->
        IF n = 0 THEN [page |-> <<>>, skipped |-> 0]
        ELSE IF Len(f[n - 1].page) = limit \/ ~Meets(e, n, where) THEN f[n - 1]
        ELSE IF f[n - 1].skipped < offset
          THEN [page |-> f[n - 1].page, skipped |-> f[n - 1].skipped + 1]
        ELSE [page |-> Append(f[n - 1].page, n), skipped |-> f[n - 1].skipped]]

Filter(f, e, where) ==
  f = [n \in 0 .. MaxId |->
        IF n = 0 THEN <<>> ELSE IF Meets(e, n, where) THEN Append(f[n - 1], n) ELSE f[n - 1]]

LEMMA WalkExists ==
  ASSUME NEW e, NEW where, NEW limit \in Nat, NEW offset \in Nat
  PROVE  \E f : Walk(f, e, where, limit, offset)
<1> DEFINE S == [page : Seq(Ids), skipped : Nat]
           base == [page |-> <<>>, skipped |-> 0]
           step(n, x) == IF Len(x.page) = limit \/ ~Meets(e, n, where) THEN x
                         ELSE IF x.skipped < offset
                           THEN [page |-> x.page, skipped |-> x.skipped + 1]
                         ELSE [page |-> Append(x.page, n), skipped |-> x.skipped]
           g == [x \in (1 .. MaxId) \X S |-> step(x[1], x[2])]
<1>1. MaxId \in Nat /\ Ids = 1 .. MaxId
  BY IdsAreNumbers DEF Ids
<1>2. base \in S
  OBVIOUS
<1>3. \A n \in 1 .. MaxId, x \in S : step(n, x) \in S
  <2> TAKE n \in 1 .. MaxId, x \in S
  <2>1. /\ x.page \in Seq(Ids) /\ x.skipped \in Nat /\ x.skipped + 1 \in Nat
        /\ Append(x.page, n) \in Seq(Ids)
    BY <1>1
  <2>2. /\ [page |-> x.page, skipped |-> x.skipped + 1] \in S
        /\ [page |-> Append(x.page, n), skipped |-> x.skipped] \in S
    BY <2>1
  <2> HIDE DEF S
  <2> QED
    BY <2>2, Zenon
<1> HIDE DEF S, base, step
<1>4. g \in [(1 .. MaxId) \X S -> S] /\ \A n \in 1 .. MaxId, x \in S : g[<<n, x>>] = step(n, x)
  BY <1>3
<1> HIDE DEF g
<1>5. PICK f \in [0 .. MaxId -> S] : Iteration(f, MaxId, base, g)
  BY <1>1, <1>2, <1>4, Iterates
<1>6. ASSUME NEW n \in 0 .. MaxId
      PROVE  f[n] = IF n = 0 THEN base ELSE step(n, f[n - 1])
  <2>1. CASE n = 0
    BY <1>1, <1>5, <2>1, IterationIs
  <2>2. CASE n \in 1 .. MaxId
    <3>1. n - 1 \in 0 .. MaxId /\ n # 0
      BY <1>1, <2>2
    <3>2. f[n] = g[<<n, f[n - 1]>>]
      BY <1>1, <1>5, <2>2, IterationIs
    <3> QED
      BY <1>4, <2>2, <3>1, <3>2
  <2> QED
    BY <1>1, <2>1, <2>2
<1>7. f = [n \in 0 .. MaxId |-> IF n = 0 THEN base ELSE step(n, f[n - 1])]
  <2>1. f = [n \in 0 .. MaxId |-> f[n]]
    OBVIOUS
  <2> QED
    BY <1>6, <2>1, Zenon
<1>8. Walk(f, e, where, limit, offset)
  BY <1>7, Zenon DEF Walk, base, step
<1> QED
  BY <1>8, Zenon

LEMMA FilterExists ==
  ASSUME NEW e, NEW where
  PROVE  \E f : Filter(f, e, where)
<1> DEFINE S == Seq(Ids)
           step(n, s) == IF Meets(e, n, where) THEN Append(s, n) ELSE s
           g == [x \in (1 .. MaxId) \X S |-> step(x[1], x[2])]
<1>1. MaxId \in Nat /\ Ids = 1 .. MaxId /\ <<>> \in S
  BY IdsAreNumbers DEF Ids
<1>2. \A n \in 1 .. MaxId, s \in S : step(n, s) \in S
  <2> TAKE n \in 1 .. MaxId, s \in S
  <2>1. Append(s, n) \in S
    BY <1>1
  <2> QED
    BY <2>1, Zenon
<1> HIDE DEF S, step
<1>3. g \in [(1 .. MaxId) \X S -> S] /\ \A n \in 1 .. MaxId, s \in S : g[<<n, s>>] = step(n, s)
  BY <1>2
<1> HIDE DEF g
<1>4. PICK f \in [0 .. MaxId -> S] : Iteration(f, MaxId, <<>>, g)
  BY <1>1, <1>3, Iterates
<1>5. ASSUME NEW n \in 0 .. MaxId
      PROVE  f[n] = IF n = 0 THEN <<>> ELSE step(n, f[n - 1])
  <2>1. CASE n = 0
    BY <1>1, <1>4, <2>1, IterationIs
  <2>2. CASE n \in 1 .. MaxId
    <3>1. n - 1 \in 0 .. MaxId /\ n # 0
      BY <1>1, <2>2
    <3>2. f[n] = g[<<n, f[n - 1]>>]
      BY <1>1, <1>4, <2>2, IterationIs
    <3> QED
      BY <1>3, <2>2, <3>1, <3>2
  <2> QED
    BY <1>1, <2>1, <2>2
<1>6. f = [n \in 0 .. MaxId |-> IF n = 0 THEN <<>> ELSE step(n, f[n - 1])]
  <2>1. f = [n \in 0 .. MaxId |-> f[n]]
    OBVIOUS
  <2> QED
    BY <1>5, <2>1, Zenon
<1>7. Filter(f, e, where)
  BY <1>6, Zenon DEF Filter, step
<1> QED
  BY <1>7, Zenon

\* After any number of ids, the walk has the window on what the filter has kept, and has
\* counted no more than it skips.
LEMMA PagesAreWindows ==
  ASSUME NEW e, NEW where, NEW limit \in Nat \ {0}, NEW offset \in Nat
  PROVE  GoPage(e, where, limit, offset) = SlicedPage(e, where, limit, offset)
<1> DEFINE walk == CHOOSE f : Walk(f, e, where, limit, offset)
           kept == CHOOSE f : Filter(f, e, where)
<1>1. Walk(walk, e, where, limit, offset) /\ Filter(kept, e, where)
  <2>1. \E f : Walk(f, e, where, limit, offset)
    BY WalkExists
  <2>2. \E f : Filter(f, e, where)
    BY FilterExists
  <2> QED
    BY <2>1, <2>2, Zenon
<1>2. GoPage(e, where, limit, offset) = walk[MaxId].page
  BY Zenon DEF GoPage, Walk
<1>3. SlicedPage(e, where, limit, offset) = Window(kept[MaxId], limit, offset)
  BY Zenon DEF SlicedPage, Filter
<1> HIDE DEF walk, kept
<1>4. /\ MaxId \in Nat /\ Ids = 1 .. MaxId
      /\ 0 \in 0 .. MaxId /\ \A n \in 1 .. MaxId : n \in 0 .. MaxId /\ n # 0
  BY IdsAreNumbers DEF Ids
<1>5. walk[0] = [page |-> <<>>, skipped |-> 0] /\ kept[0] = <<>>
  BY <1>1, <1>4, Zenon DEF Walk, Filter
<1>6. \A n \in 1 .. MaxId :
        walk[n] = IF Len(walk[n - 1].page) = limit \/ ~Meets(e, n, where) THEN walk[n - 1]
                  ELSE IF walk[n - 1].skipped < offset
                    THEN [page |-> walk[n - 1].page, skipped |-> walk[n - 1].skipped + 1]
                  ELSE [page |-> Append(walk[n - 1].page, n), skipped |-> walk[n - 1].skipped]
  BY <1>1, <1>4, Zenon DEF Walk
<1>7. \A n \in 1 .. MaxId :
        kept[n] = IF Meets(e, n, where) THEN Append(kept[n - 1], n) ELSE kept[n - 1]
  BY <1>1, <1>4, Zenon DEF Filter
<1> DEFINE T == {n \in 0 .. MaxId :
                   /\ kept[n] \in Seq(Ids)
                   /\ walk[n].page = Window(kept[n], limit, offset)
                   /\ walk[n].skipped = IF Len(kept[n]) < offset THEN Len(kept[n]) ELSE offset}
<1>8. 0 \in T
  <2>1. <<>> \in Seq(Ids) /\ Len(<<>>) = 0
    OBVIOUS
  <2>2. Window(<<>>, limit, offset) = <<>>
    <3>1. /\ Window(<<>>, limit, offset) \in Seq(Ids)
          /\ Len(Window(<<>>, limit, offset)) = Shown(Len(<<>>), limit, offset)
      <4>1. \A s \in Seq(Ids) : /\ Window(s, limit, offset) \in Seq(Ids)
                                /\ Len(Window(s, limit, offset)) = Shown(Len(s), limit, offset)
        BY WindowIs
      <4> QED
        BY <2>1, <4>1, Zenon
    <3>2. Len(Window(<<>>, limit, offset)) = 0
      BY <3>1, <2>1 DEF Shown
    <3> QED
      BY <3>1, <3>2
  <2>3. walk[0].page = <<>> /\ walk[0].skipped = 0
    BY <1>5
  <2>4. 0 = IF Len(kept[0]) < offset THEN Len(kept[0]) ELSE offset
    BY <1>5, <2>1
  <2> QED
    BY <1>4, <1>5, <2>1, <2>2, <2>3, <2>4
<1>9. ASSUME NEW m \in 0 .. MaxId - 1, m \in T
      PROVE  m + 1 \in T
  <2> DEFINE n == m + 1
  <2>1. n \in 1 .. MaxId /\ n \in 0 .. MaxId /\ n \in Ids /\ n - 1 = m
    BY <1>4
  <2>2. /\ kept[m] \in Seq(Ids)
        /\ walk[m].page = Window(kept[m], limit, offset)
        /\ walk[m].skipped = IF Len(kept[m]) < offset THEN Len(kept[m]) ELSE offset
    BY <1>9
  <2>3. walk[n] = IF Len(walk[m].page) = limit \/ ~Meets(e, n, where) THEN walk[m]
                  ELSE IF walk[m].skipped < offset
                    THEN [page |-> walk[m].page, skipped |-> walk[m].skipped + 1]
                  ELSE [page |-> Append(walk[m].page, n), skipped |-> walk[m].skipped]
    BY <1>6, <2>1
  <2>4. kept[n] = IF Meets(e, n, where) THEN Append(kept[m], n) ELSE kept[m]
    BY <1>7, <2>1
  <2> DEFINE long == Len(kept[m])
  <2>5. long \in Nat /\ Len(Append(kept[m], n)) = long + 1 /\ Append(kept[m], n) \in Seq(Ids)
    BY <2>1, <2>2
  <2>6. /\ (Len(walk[m].page) = limit) <=> (long >= offset + limit)
        /\ long >= offset + limit \/ long < offset =>
             Window(Append(kept[m], n), limit, offset) = Window(kept[m], limit, offset)
        /\ long >= offset /\ long < offset + limit =>
             Window(Append(kept[m], n), limit, offset) = Append(Window(kept[m], limit, offset), n)
    BY <2>1, <2>2, WindowGrows
  <2> SUFFICES /\ kept[n] \in Seq(Ids)
               /\ walk[n].page = Window(kept[n], limit, offset)
               /\ walk[n].skipped = IF Len(kept[n]) < offset THEN Len(kept[n]) ELSE offset
    BY <2>1
  <2> HIDE DEF n, T
  <2>7. CASE ~Meets(e, n, where)
    BY <2>2, <2>3, <2>4, <2>7
  <2>8. CASE Meets(e, n, where) /\ long >= offset + limit
    <3>1. walk[n] = walk[m] /\ kept[n] = Append(kept[m], n)
      BY <2>3, <2>4, <2>6, <2>8, Zenon
    <3>2. walk[n].page = Window(kept[n], limit, offset)
      BY <2>2, <2>6, <2>8, <3>1
    <3>3. walk[n].skipped = offset /\ ~(Len(kept[n]) < offset)
      BY <2>2, <2>5, <2>8, <3>1
    <3> QED
      BY <2>5, <3>1, <3>2, <3>3
  <2>9. CASE Meets(e, n, where) /\ long < offset
    <3>1. Len(walk[m].page) # limit /\ walk[m].skipped = long
      BY <2>2, <2>5, <2>6, <2>9
    <3>2. walk[n] = [page |-> walk[m].page, skipped |-> walk[m].skipped + 1]
      BY <2>3, <2>9, <3>1, Zenon
    <3>3. kept[n] = Append(kept[m], n)
      BY <2>4, <2>9, Zenon
    <3>4. walk[n].page = walk[m].page /\ walk[n].skipped = long + 1
      BY <3>1, <3>2
    <3>5. walk[n].page = Window(kept[n], limit, offset)
      BY <2>2, <2>6, <2>9, <3>3, <3>4
    <3>6. long + 1 = IF Len(kept[n]) < offset THEN Len(kept[n]) ELSE offset
      BY <2>5, <2>9, <3>3
    <3> QED
      BY <2>5, <3>3, <3>4, <3>5, <3>6
  <2>10. CASE Meets(e, n, where) /\ long >= offset /\ long < offset + limit
    <3>1. Len(walk[m].page) # limit /\ walk[m].skipped = offset
      BY <2>2, <2>5, <2>6, <2>10
    <3>2. walk[n] = [page |-> Append(walk[m].page, n), skipped |-> walk[m].skipped]
      <4>1. ~(walk[m].skipped < offset)
        BY <3>1
      <4> QED
        BY <2>3, <2>10, <3>1, <4>1, Zenon
    <3>3. kept[n] = Append(kept[m], n)
      BY <2>4, <2>10, Zenon
    <3>4. walk[n].page = Append(walk[m].page, n) /\ walk[n].skipped = offset
      BY <3>1, <3>2
    <3>5. walk[n].page = Window(kept[n], limit, offset)
      BY <2>2, <2>6, <2>10, <3>3, <3>4
    <3>6. offset = IF Len(kept[n]) < offset THEN Len(kept[n]) ELSE offset
      BY <2>5, <2>10, <3>3
    <3> QED
      BY <2>5, <3>3, <3>4, <3>5, <3>6
  <2> QED
    BY <2>5, <2>7, <2>8, <2>9, <2>10
<1>10. MaxId \in T
  <2> HIDE DEF T
  <2>1. \A n \in 0 .. MaxId : n \in T
    BY <1>4, <1>8, <1>9, UpTo
  <2> QED
    BY <1>4, <2>1
<1> QED
  BY <1>2, <1>3, <1>10

-----------------------------------------------------------------------------
(* Bodies                                                                  *)

LEMMA BodiesAgree == BodiesAreStorable
<1> SUFFICES ASSUME NEW body \in [Columns -> Given], NEW partial \in BOOLEAN
             PROVE  LET storable == /\ \A f \in Required :
                                         body[f] = "right" \/ (body[f] = "absent" /\ partial)
                                    /\ body["note"] # "wrong" IN
                    /\ SchemaProblems(body, partial) = {} <=> storable
                    /\ Problems(body, partial) = {} <=> storable /\ body["other"] = "absent"
  BY DEF BodiesAreStorable
<1> DEFINE Fine(f) == body[f] = "right" \/ (body[f] = "absent" /\ partial)
           storable == (\A f \in Required : Fine(f)) /\ body["note"] # "wrong"
           Refused(f) == \/ body[f] = "wrong"
                         \/ f \in Required /\ (body[f] = "null" \/ (body[f] = "absent" /\ ~partial))
<1>1. \A f \in Columns : body[f] \in Given
  OBVIOUS
<1>2. \A f \in Required : f \in Columns /\ (Refused(f) <=> ~Fine(f))
  BY <1>1 DEF Required, Columns, Given
<1>3. Refused("note") <=> body["note"] = "wrong"
  BY DEF Required
<1>4. Columns \ {"other"} = Required \cup {"note"}
  BY DEF Columns, Required
<1>5. SchemaProblems(body, partial) = {} <=> \A f \in Columns \ {"other"} : ~Refused(f)
  BY DEF SchemaProblems
<1>6. (\A f \in Columns \ {"other"} : ~Refused(f)) <=> storable
  <2> HIDE DEF Refused, Fine
  <2> QED
    BY <1>2, <1>3, <1>4
<1>7. Problems(body, partial) = {} <=>
        (\A f \in Columns \ {"other"} : ~Refused(f)) /\ body["other"] = "absent"
  BY DEF Problems, Columns, Required
<1> QED
  BY <1>5, <1>6, <1>7

-----------------------------------------------------------------------------
(* The theorems                                                            *)

LEMMA InitIsSound == Init => IInv
<1> SUFFICES ASSUME Init PROVE IInv
  OBVIOUS
<1>1. /\ stack \in Stacks /\ live = [e \in Entities |-> {}]
      /\ key = [e \in Entities |-> [i \in Ids |-> NoKeys]]
      /\ next = [e \in Entities |-> 1]
      /\ request = [c \in Clients |-> Idle]
      /\ raced = {} /\ moved = {}
  BY DEF Init
<1>2. /\ NoKeys \in [Entities -> 0 .. MaxId] /\ MaxId \in Nat /\ 1 \in 1 .. MaxId + 1
      /\ 0 \in 0 .. MaxId
  BY IdsAreNumbers DEF NoKeys
<1>3. RowsTyped
  <2>1. stack \in {"go", "typescript", "python"}
    BY <1>1, BoundsAssumption
  <2>2. live \in [Entities -> SUBSET Ids] /\ next \in [Entities -> 1 .. MaxId + 1]
    BY <1>1, <1>2
  <2>3. key \in [Entities -> [Ids -> [Entities -> 0 .. MaxId]]]
    BY <1>1, <1>2
  <2> QED
    BY <1>1, <2>1, <2>2, <2>3 DEF RowsTyped
<1>4. RequestsSound
  BY <1>1, IdleIsSound DEF RequestsSound
<1>5. FreshIds
  BY <1>1 DEF FreshIds
<1>6. \A c \in Clients : request[c].op = "none" /\ request[c].work = <<>>
  BY <1>1 DEF Idle
<1>7. Room
  <2> SUFFICES ASSUME NEW e \in Entities
               PROVE  NewId(e) \in Nat /\ NewId(e) + Creating(e) <= MaxId + 1
    BY DEF Room
  <2>1. CreatorsOf(request, e) = {}
    BY <1>6 DEF CreatorsOf
  <2>2. Creating(e) = 0
    BY <2>1, FS_EmptySet DEF Creating, CreatorsOf
  <2>3. NewId(e) \in 1 .. MaxId + 1
    BY <1>3, <1>5, NewIdIs
  <2> QED
    BY <1>2, <2>2, <2>3
<1>8. KeysKnown
  BY <1>1, <1>6 DEF KeysKnown
<1>9. TasksSound
  <2>1. ToSet(<<>>) = {}
    BY DEF ToSet
  <2> QED
    BY <1>6, <2>1 DEF TasksSound
<1>10. NoOrphans
  BY <1>1 DEF NoOrphans
<1> QED
  BY <1>3, <1>4, <1>5, <1>7, <1>8, <1>9, <1>10 DEF IInv

LEMMA StepIsSound == IInv /\ [Next]_vars => IInv'
<1> SUFFICES ASSUME IInv, [Next]_vars PROVE IInv'
  OBVIOUS
<1>1. CASE Next
  BY <1>1, RequestsStay, RowsStay, RoomStays, FreshIdsStay, KeysStayKnown, TasksStaySound,
     NoOrphansStay, Zenon DEF IInv
<1>2. CASE UNCHANGED vars
  <2>1. /\ stack' = stack /\ live' = live /\ key' = key /\ next' = next
        /\ request' = request /\ raced' = raced /\ moved' = moved
    BY <1>2 DEF vars
  <2>2. RowsTyped' /\ RequestsSound' /\ FreshIds' /\ KeysKnown' /\ TasksSound'
    BY <2>1 DEF IInv, RowsTyped, RequestsSound, HandlerSound, FreshIds, KeysKnown, TasksSound,
                TaskSound
  <2>3. Room'
    BY <2>1 DEF IInv, Room, NewId, Creating
  <2>4. NoOrphans'
    BY <2>1 DEF IInv, NoOrphans, StillFalls
  <2> QED
    BY <2>2, <2>3, <2>4 DEF IInv
<1> QED
  BY <1>1, <1>2

THEOREM InductiveInvariant == Spec => []IInv
BY InitIsSound, StepIsSound, PTL DEF Spec

\* templates_go.py, templates_typescript.py, templates_app.py: for any entities, clients and
\* number of rows, no row outlives what it refers to, but for what a Go cascade is on its way
\* to or a Go create raced with; and the stacks agree on pages and on the bodies they accept.
THEOREM ServiceStaysSound == Spec => []ServiceSound
<1>1. IInv => TypeOK
  <2> SUFFICES ASSUME IInv PROVE TypeOK
    OBVIOUS
  <2>1. RowsTyped /\ raced \cup moved \subseteq Entities \X Ids
    BY DEF IInv, RowsTyped, Nodes
  <2>2. \A c \in Clients : request[c].pc \in {"idle", "find", "check", "cascade"}
    BY DEF IInv, RequestsSound, Handlers
  <2> QED
    BY <2>1, <2>2 DEF RowsTyped, TypeOK
<1>2. PagesAgree
  <2>1. \A limit \in 1 .. MaxId, offset \in 0 .. MaxId : limit \in Nat \ {0} /\ offset \in Nat
    BY IdsAreNumbers
  <2> QED
    BY <2>1, PagesAreWindows DEF PagesAgree
<1>3. IInv => ServiceSound
  BY <1>1, <1>2, BodiesAgree DEF ServiceSound, IInv
<1> QED
  BY <1>3, InductiveInvariant, PTL

\* deleteWhere, delete and ON DELETE CASCADE: a row goes only with its own delete, or after
\* what it refers to, or in Go when it was moved away from a parent that was being deleted.
THEOREM OnlyBranchesEverFall == Spec => OnlyBranchesFall
<1>1. IInv /\ [Next]_vars =>
        [\A e \in Entities : \A i \in live[e] \ live'[e] :
           \/ Asked(e, i)
           \/ \E p \in Parents(e) : key[e][i][p] \notin live'[p]
           \/ stack = "go" /\ <<e, i>> \in moved]_vars
  BY FallsAreJustified
<1> QED
  BY <1>1, InductiveInvariant, PTL DEF Spec, OnlyBranchesFall

=============================================================================
