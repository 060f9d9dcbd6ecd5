--------------------------- MODULE EvalSuite_proofs ---------------------------
(***************************************************************************)
(* Theorems about the evaluation suite: that its replays repeat what was   *)
(* recorded, its reports say no more than what was run, and its meter and  *)
(* the API's bills agree, for any fixtures, messages of any number of      *)
(* attempts, prices, rounds of repairs, suites and changes between them;   *)
(* and about the pure parts beside it: the routes, relations and entities  *)
(* that are read out of any project and any specification.                 *)
(***************************************************************************)
EXTENDS EvalSuite, SequenceTheorems, WellFoundedInduction, FiniteSetTheorems, TLAPS

-----------------------------------------------------------------------------
(* Induction on the length of a sequence                                   *)

Below == {p \in Nat \X Nat : p[1] < p[2]}

LEMMA NoDescent == IsWellFoundedOn(Below, Nat)
<1>1. Below = OpToRel(<, Nat)
  BY Zenon DEF Below, OpToRel
<1>2. IsWellFoundedOn(OpToRel(<, Nat), Nat)
  BY NatLessThanWellFounded, Zenon
<1> QED
  BY <1>1, <1>2, Zenon

\* A set of numbers with 0 and every successor up to N has all of them.
LEMMA UpTo ==
  ASSUME NEW N \in Nat, NEW S, 0 \in S, \A n \in 0 .. N - 1 : n \in S => n + 1 \in S
  PROVE  \A n \in 0 .. N : n \in S
<1> DEFINE T == {n \in 0 .. N : n \notin S}
<1> SUFFICES ASSUME T # {} PROVE FALSE
  OBVIOUS
<1>1. T \subseteq Nat
  OBVIOUS
<1>2. PICK x \in T : \A y \in T : ~ (<<y, x>> \in Below)
  BY <1>1, NoDescent, WFMin, Zenon
<1>3. x \in 0 .. N /\ x # 0 /\ x \notin S
  OBVIOUS
<1>4. x - 1 \in 0 .. N - 1 /\ <<x - 1, x>> \in Below
  BY <1>3 DEF Below
<1>5. x - 1 \in S
  BY <1>2, <1>4
<1> QED
  BY <1>3, <1>4, <1>5

Iteration(f, N, base, g) == f = [n \in 0 .. N |-> IF n = 0 THEN base ELSE g[<<n, f[n - 1]>>]]

\* Whatever a step makes of the number of the step and the value before, there is
\* a function that goes on by such steps.
LEMMA Iterates ==
  ASSUME NEW N \in Nat, NEW S, NEW base \in S, NEW g \in [(1 .. N) \X S -> S]
  PROVE  \E f \in [0 .. N -> S] : Iteration(f, N, base, g)
<1> DEFINE T == {k \in 0 .. N : \E f \in [0 .. k -> S] : Iteration(f, k, base, g)}
<1>1. 0 \in T
  <2>1. Iteration([n \in 0 .. 0 |-> base], 0, base, g)
    BY DEF Iteration
  <2>2. [n \in 0 .. 0 |-> base] \in [0 .. 0 -> S]
    OBVIOUS
  <2> QED
    BY <2>1, <2>2
<1>2. ASSUME NEW k \in 0 .. N - 1, k \in T
      PROVE  k + 1 \in T
  <2>1. PICK f \in [0 .. k -> S] : Iteration(f, k, base, g)
    BY <1>2
  <2> DEFINE h == [n \in 0 .. k + 1 |-> IF n = k + 1 THEN g[<<k + 1, f[k]>>] ELSE f[n]]
  <2>2. <<k + 1, f[k]>> \in (1 .. N) \X S
    BY <1>2
  <2>3. h \in [0 .. k + 1 -> S]
    BY <2>2
  <2>4. ASSUME NEW n \in 0 .. k + 1
        PROVE  h[n] = IF n = 0 THEN base ELSE g[<<n, h[n - 1]>>]
    <3>1. CASE n = k + 1
      <4>1. n # 0 /\ n - 1 = k /\ k \in 0 .. k + 1 /\ k # k + 1
        BY <3>1
      <4> QED
        BY <3>1, <4>1
    <3>2. CASE n \in 0 .. k
      BY <2>1, <3>2 DEF Iteration
    <3> QED
      BY <3>1, <3>2
  <2>5. Iteration(h, k + 1, base, g)
    <3> HIDE DEF h
    <3>1. h = [n \in 0 .. k + 1 |-> h[n]]
      BY <2>3
    <3> QED
      BY <2>4, <3>1 DEF Iteration
  <2> QED
    BY <2>3, <2>5
<1>3. \A k \in 0 .. N : k \in T
  <2> HIDE DEF T
  <2> QED
    BY <1>1, <1>2, UpTo
<1> QED
  BY <1>3

LEMMA IterationIs ==
  ASSUME NEW N \in Nat, NEW f, NEW base, NEW g, Iteration(f, N, base, g)
  PROVE  f[0] = base /\ \A n \in 1 .. N : f[n] = g[<<n, f[n - 1]>>]
<1>1. 0 \in 0 .. N /\ \A n \in 1 .. N : n \in 0 .. N /\ n # 0
  OBVIOUS
<1> QED
  BY <1>1, Zenon DEF Iteration
-----------------------------------------------------------------------------
(* Sums                                                                    *)

\* f is the function of the partial sums of s.
Sums(s, f) ==
  /\ f \in [0 .. Len(s) -> Int]
  /\ f[0] = 0
  /\ \A n \in 1 .. Len(s) : f[n] = f[n - 1] + s[n]

LEMMA TotalIs ==
  ASSUME NEW s \in Seq(Int)
  PROVE  \E f : Sums(s, f) /\ Total(s) = f[Len(s)]
<1> DEFINE N == Len(s)
           g == [p \in (1 .. N) \X Int |-> p[2] + s[p[1]]]
           Sum(f) == f = [n \in 0 .. N |-> IF n = 0 THEN 0 ELSE f[n - 1] + s[n]]
<1>1. N \in Nat /\ \A n \in 1 .. N : s[n] \in Int
  OBVIOUS
<1>2. g \in [(1 .. N) \X Int -> Int]
  BY <1>1
<1>3. PICK h \in [0 .. N -> Int] : Iteration(h, N, 0, g)
  <2> HIDE DEF g, N
  <2> QED
    BY <1>1, <1>2, 0 \in Int, Iterates, Zenon
<1>4. h[0] = 0 /\ \A n \in 1 .. N : h[n] = g[<<n, h[n - 1]>>]
  <2> HIDE DEF g
  <2>1. \A n \in 0 .. N : h[n] = IF n = 0 THEN 0 ELSE g[<<n, h[n - 1]>>]
    BY <1>3 DEF Iteration
  <2>2. 0 \in 0 .. N /\ \A n \in 1 .. N : n \in 0 .. N /\ n # 0
    BY <1>1
  <2> QED
    BY <2>1, <2>2, Zenon
<1>5. \A n \in 1 .. N : h[n] = h[n - 1] + s[n]
  <2> SUFFICES ASSUME NEW n \in 1 .. N PROVE h[n] = h[n - 1] + s[n]
    OBVIOUS
  <2>0. n - 1 \in 0 .. N
    BY <1>1
  <2>1. <<n, h[n - 1]>> \in (1 .. N) \X Int
    <3> HIDE DEF N
    <3> QED
      BY <1>1, <1>3, <2>0
  <2>2. g[<<n, h[n - 1]>>] = h[n - 1] + s[n]
    BY <2>1
  <2> QED
    BY <1>4, <2>2, Zenon
<1>6. Sum(h)
  <2>1. \A n \in 0 .. N : h[n] = IF n = 0 THEN 0 ELSE h[n - 1] + s[n]
    BY <1>1, <1>4, <1>5
  <2> QED
    BY <1>3, <2>1
<1> DEFINE f == CHOOSE f : Sum(f)
<1>7. Sum(f)
  <2> HIDE DEF Sum
  <2> QED
    BY <1>6
<1>8. Total(s) = f[N]
  BY DEF Total
<1> HIDE DEF f
<1>9. f = h
  <2> DEFINE S == {n \in 0 .. N : f[n] = h[n]}
  <2>1. 0 \in S
    BY <1>1, <1>4, <1>7
  <2>2. ASSUME NEW n \in 0 .. N - 1, n \in S PROVE n + 1 \in S
    <3>1. n + 1 \in 1 .. N /\ n + 1 \in 0 .. N /\ (n + 1) - 1 = n /\ n + 1 # 0
      BY <1>1
    <3>2. f[n + 1] = f[n] + s[n + 1]
      BY <1>7, <3>1
    <3>3. h[n + 1] = h[n] + s[n + 1]
      BY <1>5, <3>1
    <3> QED
      BY <2>2, <3>1, <3>2, <3>3
  <2>3. \A n \in 0 .. N : n \in S
    <3> HIDE DEF S
    <3> QED
      BY <1>1, <2>1, <2>2, UpTo
  <2>4. f = [n \in 0 .. N |-> f[n]]
    BY <1>7
  <2>5. h = [n \in 0 .. N |-> h[n]]
    BY <1>3
  <2>6. \A n \in 0 .. N : f[n] = h[n]
    BY <2>3
  <2> HIDE DEF S
  <2> QED
    BY <2>4, <2>5, <2>6
<1> QED
  BY <1>3, <1>4, <1>5, <1>8, <1>9 DEF Sums

LEMMA TotalIsNumber ==
  ASSUME NEW s \in Seq(Int)
  PROVE  Total(s) \in Int
<1>1. PICK f : Sums(s, f) /\ Total(s) = f[Len(s)]
  BY TotalIs
<1> QED
  BY <1>1 DEF Sums

\* Partial sums are sums of prefixes, and of whatever else begins with them.
LEMMA SumsAgree ==
  ASSUME NEW s \in Seq(Int), NEW t \in Seq(Int), NEW N \in Nat, N <= Len(s), N <= Len(t),
         \A n \in 1 .. N : s[n] = t[n], NEW f, NEW h, Sums(s, f), Sums(t, h)
  PROVE  f[N] = h[N]
<1> DEFINE S == {n \in 0 .. N : f[n] = h[n]}
<1>1. 0 \in S
  BY DEF Sums
<1>2. ASSUME NEW n \in 0 .. N - 1, n \in S PROVE n + 1 \in S
  <2>1. n + 1 \in 1 .. Len(s) /\ n + 1 \in 1 .. Len(t) /\ n + 1 \in 1 .. N /\ (n + 1) - 1 = n
    OBVIOUS
  <2>2. f[n + 1] = f[n] + s[n + 1] /\ h[n + 1] = h[n] + t[n + 1]
    BY <2>1 DEF Sums
  <2>3. s[n + 1] = t[n + 1] /\ f[n] = h[n]
    BY <1>2, <2>1
  <2>4. f[n + 1] = h[n + 1]
    BY <2>2, <2>3
  <2> QED
    BY <2>1, <2>4
<1>3. \A n \in 0 .. N : n \in S
  <2> HIDE DEF S
  <2> QED
    BY <1>1, <1>2, UpTo
<1> QED
  BY <1>3

LEMMA TotalOfNone == Total(<<>>) = 0
<1>1. <<>> \in Seq(Int) /\ Len(<<>>) = 0
  OBVIOUS
<1>2. PICK f : Sums(<<>>, f) /\ Total(<<>>) = f[Len(<<>>)]
  BY <1>1, TotalIs
<1> QED
  BY <1>1, <1>2 DEF Sums

LEMMA TotalAppended ==
  ASSUME NEW s \in Seq(Int), NEW x \in Int
  PROVE  Total(Append(s, x)) = Total(s) + x
<1> DEFINE t == Append(s, x)
           N == Len(s)
<1>1. /\ t \in Seq(Int) /\ N \in Nat /\ Len(t) = N + 1 /\ t[N + 1] = x
      /\ \A n \in 1 .. N : s[n] = t[n]
  OBVIOUS
<1>2. PICK f : Sums(s, f) /\ Total(s) = f[N]
  BY TotalIs
<1>3. PICK h : Sums(t, h) /\ Total(t) = h[N + 1]
  BY <1>1, TotalIs
<1> HIDE DEF t, N
<1>4. f[N] = h[N]
  <2>1. N <= Len(s) /\ N <= Len(t)
    BY <1>1 DEF N
  <2> QED
    BY <1>1, <1>2, <1>3, <2>1, SumsAgree
<1>5. h[N + 1] = h[N] + x
  <2>1. N + 1 \in 1 .. Len(t) /\ (N + 1) - 1 = N
    BY <1>1
  <2> QED
    BY <1>1, <1>3, <2>1 DEF Sums
<1> QED
  BY <1>2, <1>3, <1>4, <1>5 DEF t

LEMMA TotalOfOne ==
  ASSUME NEW x \in Int
  PROVE  Total(<<x>>) = x
<1>1. <<>> \in Seq(Int) /\ Append(<<>>, x) = <<x>>
  OBVIOUS
<1>2. Total(Append(<<>>, x)) = Total(<<>>) + x
  BY <1>1, TotalAppended
<1> QED
  BY <1>1, <1>2, TotalOfNone

\* What holds of every entry, and adds up, holds of the totals.
LEMMA TotalsAdd ==
  ASSUME NEW s \in Seq(Int), NEW t \in Seq(Int), NEW u \in Seq(Int),
         Len(t) = Len(s), Len(u) = Len(s), \A n \in 1 .. Len(s) : u[n] = s[n] + t[n]
  PROVE  Total(u) = Total(s) + Total(t)
<1> DEFINE N == Len(s)
<1>1. N \in Nat
  OBVIOUS
<1>2. PICK f : Sums(s, f) /\ Total(s) = f[N]
  BY TotalIs
<1>3. PICK g : Sums(t, g) /\ Total(t) = g[N]
  BY TotalIs
<1>4. PICK h : Sums(u, h) /\ Total(u) = h[N]
  BY TotalIs
<1> DEFINE S == {n \in 0 .. N : h[n] = f[n] + g[n]}
<1>5. 0 \in S
  BY <1>1, <1>2, <1>3, <1>4 DEF Sums
<1>6. ASSUME NEW n \in 0 .. N - 1, n \in S PROVE n + 1 \in S
  <2>1. n + 1 \in 1 .. N /\ n + 1 \in 0 .. N /\ n \in 0 .. N /\ (n + 1) - 1 = n
    BY <1>1
  <2>2. /\ f[n + 1] = f[n] + s[n + 1] /\ g[n + 1] = g[n] + t[n + 1] /\ h[n + 1] = h[n] + u[n + 1]
        /\ f[n] \in Int /\ g[n] \in Int
    BY <1>2, <1>3, <1>4, <2>1 DEF Sums
  <2>3. s[n + 1] \in Int /\ t[n + 1] \in Int /\ u[n + 1] = s[n + 1] + t[n + 1]
    BY <2>1
  <2>4. h[n] = f[n] + g[n]
    BY <1>6
  <2>5. \A a, b, x, y \in Int : (a + b) + (x + y) = (a + x) + (b + y)
    OBVIOUS
  <2>6. h[n + 1] = (f[n] + g[n]) + (s[n + 1] + t[n + 1])
    BY <2>2, <2>3, <2>4
  <2>7. (f[n] + g[n]) + (s[n + 1] + t[n + 1]) = (f[n] + s[n + 1]) + (g[n] + t[n + 1])
    BY <2>2, <2>3, <2>5, Zenon
  <2>8. h[n + 1] = f[n + 1] + g[n + 1]
    BY <2>2, <2>6, <2>7, Zenon
  <2> QED
    BY <2>1, <2>8
<1>7. \A n \in 0 .. N : n \in S
  <2> HIDE DEF S, N
  <2> QED
    BY <1>1, <1>5, <1>6, UpTo
<1>8. N \in 0 .. N
  BY <1>1
<1> QED
  BY <1>2, <1>3, <1>4, <1>7, <1>8
LEMMA Spread ==
  ASSUME NEW u \in Int, NEW a \in Int, NEW b \in Int
  PROVE  u * (a + b) = u * a + u * b
OBVIOUS

\* U per entry is the most by which U times one total leaves the other.
LEMMA TotalsNear ==
  ASSUME NEW U \in Int, NEW s \in Seq(Int), NEW t \in Seq(Int), Len(t) = Len(s),
         \A n \in 1 .. Len(s) : 2 * (U * s[n] - t[n]) <= U /\ 2 * (t[n] - U * s[n]) <= U
  PROVE  /\ 2 * (U * Total(s) - Total(t)) <= U * Len(s)
         /\ 2 * (Total(t) - U * Total(s)) <= U * Len(s)
<1> DEFINE N == Len(s)
           Near(a, b, n) == 2 * (U * a - b) <= U * n /\ 2 * (b - U * a) <= U * n
<1>1. N \in Nat
  OBVIOUS
<1>2. PICK f : Sums(s, f) /\ Total(s) = f[N]
  BY TotalIs
<1>3. PICK g : Sums(t, g) /\ Total(t) = g[N]
  BY TotalIs
<1> DEFINE S == {n \in 0 .. N : Near(f[n], g[n], n)}
<1>4. 0 \in S
  <2>1. f[0] = 0 /\ g[0] = 0 /\ U * 0 = 0
    BY <1>2, <1>3 DEF Sums
  <2> QED
    BY <1>1, <2>1
<1>5. ASSUME NEW n \in 0 .. N - 1, n \in S PROVE n + 1 \in S
  <2>1. n + 1 \in 1 .. N /\ n + 1 \in 0 .. N /\ n \in 0 .. N /\ (n + 1) - 1 = n /\ n \in Int
    BY <1>1
  <2>2. /\ f[n + 1] = f[n] + s[n + 1] /\ g[n + 1] = g[n] + t[n + 1]
        /\ f[n] \in Int /\ g[n] \in Int
    BY <1>2, <1>3, <2>1 DEF Sums
  <2>3. s[n + 1] \in Int /\ t[n + 1] \in Int
    BY <2>1
  <2>4. Near(f[n], g[n], n)
    BY <1>5
  <2>5. Near(s[n + 1], t[n + 1], 1)
    BY <2>1, <2>3
  <2>6. \A a, b, x, y, k \in Int : Near(a, b, k) /\ Near(x, y, 1) => Near(a + x, b + y, k + 1)
    <3> SUFFICES ASSUME NEW a \in Int, NEW b \in Int, NEW x \in Int, NEW y \in Int, NEW k \in Int,
                        Near(a, b, k), Near(x, y, 1)
                 PROVE  Near(a + x, b + y, k + 1)
      BY Zenon
    <3>1. U * (a + x) = U * a + U * x /\ U * (k + 1) = U * k + U /\ U * 1 = U
      OBVIOUS
    <3> QED
      BY <3>1
  <2>7. Near(f[n] + s[n + 1], g[n] + t[n + 1], n + 1)
    <3> HIDE DEF Near
    <3> QED
      BY <2>1, <2>2, <2>3, <2>4, <2>5, <2>6
  <2> QED
    BY <2>1, <2>2, <2>7
<1>6. \A n \in 0 .. N : n \in S
  <2> HIDE DEF S, N
  <2> QED
    BY <1>1, <1>4, <1>5, UpTo
<1>7. N \in 0 .. N
  BY <1>1
<1>8. Near(f[N], g[N], N)
  BY <1>6, <1>7
<1> QED
  BY <1>2, <1>3, <1>8

-----------------------------------------------------------------------------
(* What a call costs                                                       *)

Usages == [input : Int, output : Int, read : Int, write : Int]

LEMMA RoundedIs ==
  ASSUME NEW a \in Int
  PROVE  /\ Rounded(a) \in Int
         /\ 2 * (Unit * Rounded(a) - a) <= Unit /\ 2 * (a - Unit * Rounded(a)) <= Unit
<1> DEFINE U == 2 * Unit
           b == 2 * a + Unit
           q == b \div U
<1>1. Unit \in Nat /\ Unit > 0
  BY PricesAssumption
<1>2. U \in Int /\ U > 0 /\ b \in Int
  BY <1>1
<1>3. q \in Int /\ U * q <= b /\ b < U * q + U
  <2> HIDE DEF U, b
  <2> QED
    BY <1>2
<1>4. Rounded(a) = q
  BY DEF Rounded
<1>5. U * q = 2 * (Unit * q)
  <2> HIDE DEF q
  <2> QED
    BY <1>1, <1>3
<1>6. Unit * q \in Int
  <2> HIDE DEF q
  <2> QED
    BY <1>1, <1>3
<1> HIDE DEF q
<1> QED
  BY <1>1, <1>3, <1>4, <1>5, <1>6

\* A call is priced at its model's rates to half a micro-dollar, or at nothing.
LEMMA CostIs ==
  ASSUME NEW model, NEW usage \in Usages
  PROVE  /\ Cost(model, usage) \in Int
         /\ model \in DOMAIN Prices =>
              /\ Exact(model, usage) \in Int
              /\ 2 * (Unit * Cost(model, usage) - Exact(model, usage)) <= Unit
              /\ 2 * (Exact(model, usage) - Unit * Cost(model, usage)) <= Unit
<1>1. CASE model \in DOMAIN Prices
  <2>1. Prices[model] \in [input : Nat, output : Nat, read : Nat, write : Nat]
    BY <1>1, PricesAssumption
  <2>2. Exact(model, usage) \in Int
    <3>1. /\ usage.input \in Int /\ usage.output \in Int /\ usage.read \in Int /\ usage.write \in Int
          /\ Prices[model].input \in Int /\ Prices[model].output \in Int
          /\ Prices[model].read \in Int /\ Prices[model].write \in Int
      BY <2>1 DEF Usages
    <3>2. \A x, y \in Int : x * y \in Int /\ x + y \in Int /\ x - y \in Int
      OBVIOUS
    <3>3. usage.input - usage.read - usage.write \in Int
      BY <3>1, <3>2, Zenon
    <3>4. /\ (usage.input - usage.read - usage.write) * Prices[model].input \in Int
          /\ usage.read * Prices[model].read \in Int /\ usage.write * Prices[model].write \in Int
          /\ usage.output * Prices[model].output \in Int
      BY <3>1, <3>2, <3>3, Zenon
    <3> QED
      BY <3>2, <3>4, Zenon DEF Exact
  <2> QED
    BY <1>1, <2>2, RoundedIs DEF Cost
<1>2. CASE model \notin DOMAIN Prices
  BY <1>2 DEF Cost
<1> QED
  BY <1>1, <1>2

\* Of one element, and of many.
LEMMA OneIsSeq ==
  ASSUME NEW S, NEW e \in S
  PROVE  <<e>> \in Seq(S) /\ Len(<<e>>) = 1 /\ <<e>>[1] = e /\ <<e>> # <<>>
OBVIOUS

LEMMA TwoAreSeq ==
  ASSUME NEW S, NEW d \in S, NEW e \in S
  PROVE  <<d>> \o <<e>> \in Seq(S) /\ (<<d>> \o <<e>>)[1] = d /\ (<<d>> \o <<e>>)[2] = e
<1> DEFINE s == <<d>>
           t == <<e>>
<1>1. /\ s \in Seq(S) /\ Len(s) = 1 /\ s[1] = d
      /\ t \in Seq(S) /\ Len(t) = 1 /\ t[1] = e
  OBVIOUS
<1> HIDE DEF s, t
<1>2. /\ s \o t \in Seq(S)
      /\ \A i \in 1 .. Len(s) + Len(t) : (s \o t)[i] = IF i <= Len(s) THEN s[i] ELSE t[i - Len(s)]
  BY <1>1, ConcatProperties, Zenon
<1>3. (s \o t)[1] = d /\ (s \o t)[2] = e
  <2>1. /\ 1 \in 1 .. Len(s) + Len(t) /\ 2 \in 1 .. Len(s) + Len(t)
        /\ 1 <= Len(s) /\ ~(2 <= Len(s)) /\ 2 - Len(s) = 1
    BY <1>1
  <2>2. (s \o t)[1] = s[1] /\ (s \o t)[2] = t[1]
    BY <1>2, <2>1, Zenon
  <2> QED
    BY <1>1, <2>2
<1> QED
  BY <1>2, <1>3 DEF s, t

LEMMA SeqIs ==
  ASSUME NEW S, NEW s \in Seq(S)
  PROVE  /\ Len(s) \in Nat /\ DOMAIN s = 1 .. Len(s) /\ \A i \in 1 .. Len(s) : s[i] \in S
         /\ s # <<>> => Len(s) \in Nat \ {0} /\ Len(s) \in 1 .. Len(s)
OBVIOUS

LEMMA AppendedIs ==
  ASSUME NEW S, NEW s \in Seq(S), NEW e \in S
  PROVE  /\ Append(s, e) \in Seq(S) /\ Len(s) \in Nat /\ Len(Append(s, e)) = Len(s) + 1
         /\ Append(s, e)[Len(s) + 1] = e /\ \A i \in 1 .. Len(s) : Append(s, e)[i] = s[i]
OBVIOUS

LEMMA AttemptsAre ==
  ASSUME NEW m \in Messages
  PROVE  /\ AttemptsOf(m) \in Seq(Attempts) /\ Len(AttemptsOf(m)) \in Nat \ {0}
         /\ \A i \in DOMAIN AttemptsOf(m) : AttemptsOf(m)[i] \in Attempts
         /\ DOMAIN AttemptsOf(m) = 1 .. Len(AttemptsOf(m))
         /\ ModelOf(m, AttemptsOf(m)[Len(AttemptsOf(m))]) = m.model
<1>1. /\ m.model \in STRING /\ m.usage \in Attempts /\ m.iterations \in Seq(Attempts)
      /\ m.usage.model = ""
      /\ m.iterations # <<>> => Last(m.iterations).model \in {"", m.model}
  BY EvalAssumption
<1> DEFINE E == AttemptsOf(m)
<1>2. /\ E \in Seq(Attempts) /\ E # <<>>
      /\ E[Len(E)].model \in {"", m.model}
  <2>1. CASE m.iterations = <<>>
    <3>1. E = <<m.usage>>
      BY <2>1 DEF AttemptsOf
    <3>2. <<m.usage>> \in Seq(Attempts) /\ <<m.usage>> # <<>> /\ Len(<<m.usage>>) = 1
          /\ <<m.usage>>[Len(<<m.usage>>)] = m.usage
      BY <1>1, OneIsSeq, Zenon
    <3> HIDE DEF E
    <3> QED
      BY <1>1, <3>1, <3>2, Zenon
  <2>2. CASE m.iterations # <<>>
    <3>1. E = m.iterations
      BY <2>2 DEF AttemptsOf
    <3> HIDE DEF E
    <3> QED
      BY <1>1, <2>2, <3>1 DEF Last
  <2> QED
    BY <2>1, <2>2
<1> HIDE DEF E
<1>3. Len(E) \in Nat \ {0} /\ DOMAIN E = 1 .. Len(E) /\ \A i \in DOMAIN E : E[i] \in Attempts
  BY <1>2, SeqIs, Zenon
<1>4. ModelOf(m, E[Len(E)]) = m.model
  <2>1. CASE E[Len(E)].model = ""
    BY <2>1, Zenon DEF ModelOf
  <2>2. CASE E[Len(E)].model # ""
    <3>1. E[Len(E)].model = m.model
      BY <1>2, <2>2
    <3> QED
      BY <2>2, <3>1, Zenon DEF ModelOf
  <2> QED
    BY <2>1, <2>2
<1> QED
  BY <1>2, <1>3, <1>4 DEF E

LEMMA BilledIs ==
  ASSUME NEW m \in Messages
  PROVE  Billed(m) = [i \in 1 .. Len(AttemptsOf(m)) |->
                        [model |-> ModelOf(m, AttemptsOf(m)[i]), usage |-> UsageOf(AttemptsOf(m)[i])]]
<1>1. m.usage.model = "" /\ m.iterations \in Seq(Attempts)
  BY EvalAssumption
<1>2. CASE m.iterations = <<>>
  <2>1. AttemptsOf(m) = <<m.usage>>
    BY <1>2 DEF AttemptsOf
  <2>2. Billed(m) = <<[model |-> ModelOf(m, m.usage), usage |-> UsageOf(m.usage)]>>
    BY <1>1, <1>2 DEF Billed, ModelOf
  <2> QED
    BY <2>1, <2>2
<1>3. CASE m.iterations # <<>>
  <2>1. AttemptsOf(m) = m.iterations
    BY <1>3 DEF AttemptsOf
  <2>2. DOMAIN m.iterations = 1 .. Len(m.iterations)
    BY <1>1, SeqIs, Zenon
  <2>3. Billed(m) = [i \in DOMAIN m.iterations |->
                       [model |-> ModelOf(m, m.iterations[i]), usage |-> UsageOf(m.iterations[i])]]
    BY <1>3, SMT DEF Billed, ModelOf
  <2> QED
    BY <2>1, <2>2, <2>3
<1> QED
  BY <1>2, <1>3

\* One attempt's usage, and what it is billed.
LEMMA UsageIs ==
  ASSUME NEW e \in Attempts, NEW m \in Messages
  PROVE  /\ UsageOf(e) \in Usages
         /\ UsageOf(e).input + UsageOf(e).output = TokensOf(e)
         /\ TokensOf(e) \in Int /\ PriceOf(m, e) \in Int
         /\ ModelOf(m, e) \in DOMAIN Prices => Exact(ModelOf(m, e), UsageOf(e)) = PriceOf(m, e)
         /\ ModelOf(m, e) \notin DOMAIN Prices => PriceOf(m, e) = 0
<1> DEFINE u == UsageOf(e)
           model == ModelOf(m, e)
<1>1. e.uncached \in Int /\ e.read \in Int /\ e.write \in Int /\ e.output \in Int
  BY DEF Attempts
<1>2. /\ u \in Usages /\ u.input = e.uncached + e.read + e.write
      /\ u.output = e.output /\ u.read = e.read /\ u.write = e.write
  BY <1>1 DEF UsageOf, Usages
<1>3. u.input + u.output = TokensOf(e) /\ TokensOf(e) \in Int
  BY <1>1, <1>2 DEF TokensOf
<1>4. u.input - u.read - u.write = e.uncached
  BY <1>1, <1>2
<1>5. model \in DOMAIN Prices => Exact(model, u) = PriceOf(m, e) /\ Exact(model, u) \in Int
  <2>1. model \in DOMAIN Prices => Exact(model, u) \in Int
    BY <1>2, CostIs
  <2> HIDE DEF u, model
  <2>2. model \in DOMAIN Prices => Exact(model, u) = PriceOf(m, e)
    BY <1>2, <1>4 DEF Exact, PriceOf, model
  <2> QED
    BY <2>1, <2>2
<1>6. model \notin DOMAIN Prices => PriceOf(m, e) = 0
  BY DEF PriceOf
<1> HIDE DEF u, model
<1> QED
  BY <1>2, <1>3, <1>5, <1>6 DEF u, model

\* The sums of a message's attempts, and what the metering makes of them.
LEMMA MessageIs ==
  ASSUME NEW m \in Messages
  PROVE  LET E == AttemptsOf(m)
             response == Response(m)
             exact == Total([i \in DOMAIN E |-> PriceOf(m, E[i])]) IN
         /\ Usage(m) \in Usages
         /\ Usage(m).input + Usage(m).output = Total([i \in DOMAIN E |-> TokensOf(E[i])])
         /\ exact \in Int
         /\ Price(response).cost \in Int
         /\ 2 * (Unit * Price(response).cost - exact) <= Unit * Len(E)
         /\ 2 * (exact - Unit * Price(response).cost) <= Unit * Len(E)
         /\ Price(response).unpriced =
              IF \E i \in DOMAIN E : ModelOf(m, E[i]) \notin DOMAIN Prices THEN 1 ELSE 0
         /\ Len(E) = 1 => Price(response).cost = Cost(m.model, Usage(m))
<1> DEFINE E == AttemptsOf(m)
           n == Len(E)
           B == Billed(m)
           of(k) == [i \in DOMAIN B |-> B[i].usage[k]]
           tokens == [i \in DOMAIN E |-> TokensOf(E[i])]
           prices == [i \in DOMAIN E |-> PriceOf(m, E[i])]
           costs == [i \in DOMAIN B |-> Cost(B[i].model, B[i].usage)]
<1>1. /\ n \in Nat \ {0} /\ DOMAIN E = 1 .. n /\ \A i \in 1 .. n : E[i] \in Attempts
      /\ ModelOf(m, E[n]) = m.model
  BY AttemptsAre
<1>2. B = [i \in 1 .. n |-> [model |-> ModelOf(m, E[i]), usage |-> UsageOf(E[i])]]
  BY BilledIs
<1> HIDE DEF E, B, n
<1>3. /\ DOMAIN B = 1 .. n
      /\ \A i \in 1 .. n : B[i].model = ModelOf(m, E[i]) /\ B[i].usage = UsageOf(E[i])
  BY <1>2
<1>4. \A i \in 1 .. n :
        /\ B[i].usage \in Usages
        /\ B[i].usage.input + B[i].usage.output = TokensOf(E[i])
        /\ TokensOf(E[i]) \in Int /\ PriceOf(m, E[i]) \in Int
        /\ B[i].model \in DOMAIN Prices => Exact(B[i].model, B[i].usage) = PriceOf(m, E[i])
        /\ B[i].model \notin DOMAIN Prices => PriceOf(m, E[i]) = 0
  BY <1>1, <1>3, UsageIs
<1>5. /\ tokens \in Seq(Int) /\ Len(tokens) = n /\ prices \in Seq(Int) /\ Len(prices) = n
      /\ \A i \in 1 .. n : tokens[i] = TokensOf(E[i]) /\ prices[i] = PriceOf(m, E[i])
  BY <1>1, <1>4
<1>6. \A k \in {"input", "output", "read", "write"} :
        /\ of(k) \in Seq(Int) /\ Len(of(k)) = n
        /\ \A i \in 1 .. n : of(k)[i] = B[i].usage[k]
  <2> SUFFICES ASSUME NEW k \in {"input", "output", "read", "write"}
               PROVE  /\ of(k) \in Seq(Int) /\ Len(of(k)) = n
                      /\ \A i \in 1 .. n : of(k)[i] = B[i].usage[k]
    OBVIOUS
  <2>1. \A i \in 1 .. n : B[i].usage[k] \in Int
    BY <1>4 DEF Usages
  <2>2. of(k) = [i \in 1 .. n |-> B[i].usage[k]]
    BY <1>3
  <2> QED
    BY <1>1, <2>1, <2>2
<1>7. /\ costs \in Seq(Int) /\ Len(costs) = n
      /\ \A i \in 1 .. n : costs[i] = Cost(B[i].model, B[i].usage)
  <2>1. \A i \in 1 .. n : Cost(B[i].model, B[i].usage) \in Int
    BY <1>4, CostIs
  <2> QED
    BY <1>1, <1>3, <2>1
<1>8. Usage(m) = [k \in {"input", "output", "read", "write"} |-> Total(of(k))]
  BY DEF Usage, NoTokens, B
<1>9. Response(m) = [model |-> m.model, usage |-> Usage(m), billed |-> B]
  BY DEF Response, B
<1>10. B # <<>>
  BY <1>1, <1>3
<1>11. /\ Price(Response(m)).cost = Total(costs)
       /\ Price(Response(m)).unpriced = IF \E i \in DOMAIN B : B[i].model \notin DOMAIN Prices THEN 1 ELSE 0
  BY <1>9, <1>10 DEF Price
<1> HIDE DEF of, tokens, prices, costs
<1>12. \A k \in {"input", "output", "read", "write"} : Total(of(k)) \in Int
  BY <1>6, TotalIsNumber
<1>13. Usage(m) \in Usages
  BY <1>8, <1>12 DEF Usages
<1>14. Usage(m).input + Usage(m).output = Total(tokens)
  <2>1. \A i \in 1 .. n : tokens[i] = of("input")[i] + of("output")[i]
    BY <1>4, <1>5, <1>6
  <2>2. /\ of("input") \in Seq(Int) /\ Len(of("input")) = n
        /\ of("output") \in Seq(Int) /\ Len(of("output")) = n
    BY <1>6
  <2>3. Total(tokens) = Total(of("input")) + Total(of("output"))
    <3>1. Len(of("output")) = Len(of("input")) /\ Len(tokens) = Len(of("input"))
          /\ \A i \in 1 .. Len(of("input")) : tokens[i] = of("input")[i] + of("output")[i]
      BY <1>5, <2>1, <2>2
    <3> QED
      BY <1>5, <2>2, <3>1, TotalsAdd, Zenon
  <2> QED
    BY <1>8, <2>3
<1>15. Total(prices) \in Int /\ Total(costs) \in Int
  BY <1>5, <1>7, TotalIsNumber
<1>16. /\ 2 * (Unit * Total(costs) - Total(prices)) <= Unit * n
       /\ 2 * (Total(prices) - Unit * Total(costs)) <= Unit * n
  <2>1. Unit \in Int /\ Unit >= 0
    BY PricesAssumption
  <2>2. \A i \in 1 .. n : /\ 2 * (Unit * costs[i] - prices[i]) <= Unit
                          /\ 2 * (prices[i] - Unit * costs[i]) <= Unit
    <3> SUFFICES ASSUME NEW i \in 1 .. n
                 PROVE  /\ 2 * (Unit * costs[i] - prices[i]) <= Unit
                        /\ 2 * (prices[i] - Unit * costs[i]) <= Unit
      OBVIOUS
    <3>1. CASE B[i].model \in DOMAIN Prices
      BY <1>4, <1>5, <1>7, <3>1, CostIs
    <3>2. CASE B[i].model \notin DOMAIN Prices
      <4>1. costs[i] = 0 /\ prices[i] = 0 /\ Unit * 0 = 0
        BY <1>4, <1>5, <1>7, <2>1, <3>2 DEF Cost
      <4> QED
        BY <2>1, <4>1
    <3> QED
      BY <3>1, <3>2
  <2> QED
    BY <1>5, <1>7, <2>1, <2>2, TotalsNear
<1>17. (\E i \in DOMAIN B : B[i].model \notin DOMAIN Prices)
         <=> (\E i \in DOMAIN E : ModelOf(m, E[i]) \notin DOMAIN Prices)
  BY <1>1, <1>3
<1>18. ASSUME n = 1 PROVE Total(costs) = Cost(m.model, Usage(m))
  <2>1. costs = <<costs[1]>> /\ costs[1] \in Int
    <3>1. \A s \in Seq(Int) : Len(s) = 1 => s = <<s[1]>> /\ s[1] \in Int
      OBVIOUS
    <3> QED
      BY <1>7, <1>18, <3>1
  <2>2. Total(costs) = costs[1]
    BY <2>1, TotalOfOne
  <2>3. B[1].model = m.model
    BY <1>1, <1>3, <1>18
  <2>4. \A k \in {"input", "output", "read", "write"} : Total(of(k)) = B[1].usage[k]
    <3> SUFFICES ASSUME NEW k \in {"input", "output", "read", "write"}
                 PROVE  Total(of(k)) = B[1].usage[k]
      OBVIOUS
    <3>1. of(k) = <<of(k)[1]>> /\ of(k)[1] \in Int /\ of(k)[1] = B[1].usage[k]
      BY <1>6, <1>18
    <3> QED
      BY <3>1, TotalOfOne
  <2>5. B[1].usage \in Usages
    BY <1>4, <1>18
  <2>6. Usage(m) = B[1].usage
    BY <1>8, <2>4, <2>5 DEF Usages
  <2> QED
    BY <1>7, <1>18, <2>2, <2>3, <2>6
<1> QED
  BY <1>11, <1>13, <1>14, <1>15, <1>16, <1>17, <1>18 DEF tokens, prices, E, n
-----------------------------------------------------------------------------
(* The invariant                                                           *)

AllFixtures == ToSet(Fixtures)

AnswersAt(place) ==
  CASE place = "coder"                    -> {"good", "flawed", "odd"}
    [] place \in {"repair", "test_repair"} -> {"good", "flawed", "same"}
    [] place = "reviewer"                 -> {"high", "low"}
    [] OTHER                              -> {"text"}

Agents == {"analyst", "architect", "coder", "devops", "coder.repair", "reviewer"}
Words  == {"none", "good", "flawed", "odd", "same", "high", "low", "text", "not executed", "passed",
           "few", "failed", "error"}
Errors == {"", "refused", "output", "mismatch", "configuration", "transient"}

Models == {m.model : m \in Messages}

\* A recorded call: by the agent it asks, for a question of one place, with an answer for that place.
Calls ==
  {c \in [agent : Agents,
          asked : [agent : Agents, prompt : Places \X Nat, shown : Seq(Words)],
          model : Models, usage : Usages, answer : Words] :
     c.agent = AgentOf(c.asked.prompt[1]) /\ c.answer \in AnswersAt(c.asked.prompt[1])}

CostOf(call)     == Cost(call.model, call.usage)
CallsCost(calls) == Total([i \in DOMAIN calls |-> CostOf(calls[i])])

Meters == [calls : Int, tokens : Int, cost : Int, unpriced : Nat]

Codes == {"good", "flawed", "odd"}

Runs ==
  [at : Places \cup {"validate", "test", "finished"}, code : Codes \cup {"none"},
   valid : {"none", "passed", "failed"}, rounds : 0 .. RepairRounds,
   tests : Seq({"passed", "few", "failed", "error"}), review : {"none", "high", "low"},
   calls : Seq(Calls), next : Nat \ {0}, error : Errors, meter : Meters]

\* What a run's place says of its project: what it has, what was validated and how often tested.
Shaped(r) ==
  /\ r.at \in {"analyst", "architect", "coder"} => r.code = "none"
  /\ r.at = "devops" => r.code # "none"
  /\ r.at = "validate" => r.code # "none"
  /\ r.at = "repair" => r.code = "flawed" /\ r.valid = "failed"
  /\ r.at \in {"test", "test_repair", "reviewer", "finished"} =>
       /\ r.code \in {"good", "flawed"}
       /\ r.valid = IF r.code = "good" THEN "passed" ELSE "failed"
  /\ r.at \in {"test", "test_repair"} => Len(r.tests) <= TestRepairRounds
  /\ r.at \in {"reviewer", "finished"} => Len(r.tests) <= TestRepairRounds + 1
  /\ r.at \notin {"test", "test_repair", "reviewer", "finished"} => r.tests = <<>>
  /\ r.at # "finished" => r.review = "none"
  /\ r.at = "finished" => r.review # "none"

\* The most calls a run can have made when it gets to a place.
Most(r) ==
  CASE r.at = "analyst"     -> 0
    [] r.at = "architect"   -> 1
    [] r.at = "coder"       -> 2
    [] r.at = "devops"      -> 3
    [] r.at = "validate"    -> 4 + r.rounds
    [] r.at = "repair"      -> 3 + r.rounds
    [] r.at = "test"        -> 4 + r.rounds + Len(r.tests)
    [] r.at = "test_repair" -> 3 + r.rounds + Len(r.tests)
    [] r.at = "reviewer"    -> 4 + r.rounds + TestRepairRounds
    [] r.at = "finished"    -> 5 + r.rounds + TestRepairRounds

\* What the reviewer's call tells of the run it ended.
MetricsOf(call) ==
  [completed         |-> 1,
   validation_passed |-> IF call.asked.shown[1] = "good" THEN 1 ELSE 0,
   tests_passed      |-> Metric(call.asked.shown[2]),
   review_score      |-> Metric(call.answer)]

\* The reviewer is asked once, and last.
ReviewedLast(calls) ==
  /\ calls # <<>> /\ calls[Len(calls)].agent = "reviewer"
  /\ \A i \in 1 .. Len(calls) - 1 : calls[i].agent # "reviewer"
Unreviewed(calls) == \A i \in 1 .. Len(calls) : calls[i].agent # "reviewer"

Typed ==
  /\ prompts \in [Places -> Nat] /\ \A p \in Places : prompts[p] <= bounds.changes
  /\ sandbox \in BOOLEAN
  /\ disk \in [AllFixtures -> [source : Sources \cup {"none"}, calls : Seq(Calls)]]
  /\ suite \in [mode : {"idle", "record", "live", "replay"}, source : Sources \cup {"none", "mixed"},
                all : SUBSET AllFixtures, left : SUBSET DOMAIN Fixtures]
  /\ run \in Runs
  /\ DOMAIN results = AllFixtures /\ DOMAIN taken = AllFixtures
  /\ verdict \in {"none", "passed", "failed", "aborted", "recorded"}
  /\ bill \in [exact : Int, attempts : Int, unknown : BOOLEAN, tokens : Int, cost : Int]
  /\ bounds \in [suites : Nat, changes : 0 .. MaxChanges, troubles : Nat]

SuiteShaped ==
  /\ suite.left = {} => run = NewRun /\ bill = NoBill
  /\ suite.mode = "idle" <=> suite = NoSuite
  /\ suite.mode = "live" => suite.source = "anthropic"
  /\ suite.mode = "record" => suite.source \in Sources
  /\ \A i \in suite.left : Fixtures[i] \in suite.all
  /\ suite # NoSuite => verdict = "none"

RunShaped ==
  /\ Shaped(run)
  /\ Len(run.calls) <= Most(run)
  /\ run.error # "" => run.at \in Places
  /\ run.at # "finished" => Unreviewed(run.calls)
  /\ suite.mode = "live" => run.calls = <<>>
  /\ run.at = "finished" /\ suite.mode # "live" =>
       ReviewedLast(run.calls) /\ MetricsOf(run.calls[Len(run.calls)]) = Measured("")

\* A recording is of a whole run, and its score and price can be read off its calls.
DiskShaped ==
  \A f \in AllFixtures :
    \/ disk[f] = NoRecording
    \/ /\ disk[f].source \in Sources
       /\ ReviewedLast(disk[f].calls)
       /\ taken[f].metrics = MetricsOf(disk[f].calls[Len(disk[f].calls)])
       /\ disk[f].source = "anthropic" /\ taken[f].once =>
            taken[f].cost = CallsCost(disk[f].calls)

\* The bill of a run that is recorded.
Recording ==
  suite.mode = "record" /\ suite.source = "anthropic" =>
    /\ bill.attempts >= Len(run.calls)
    /\ bill.attempts = Len(run.calls) => bill.cost = CallsCost(run.calls)

\* A replay has repeated the calls before the next one, at their price.
Replaying ==
  suite.mode = "replay" /\ suite.left # {} =>
    /\ run.error = "" => /\ run.next - 1 <= Len(disk[Fixture].calls)
                         /\ run.calls = SubSeq(disk[Fixture].calls, 1, run.next - 1)
    /\ disk[Fixture].source = "anthropic" => run.meter.cost = CallsCost(run.calls)

\* A run that did not finish has no score, and every one was asked for.
ResultsShaped ==
  \A f \in AllFixtures :
    results[f] # NoResult =>
      /\ suite # NoSuite => f \in suite.all
      /\ results[f].error # "" =>
           results[f].metrics["completed"] = 0 /\ results[f].metrics["review_score"] = 0

SuiteInv ==
  /\ Typed /\ SuiteShaped /\ RunShaped /\ DiskShaped /\ Recording /\ Replaying /\ ResultsShaped
  /\ NoStaleAnswers /\ ReplayRepeatsRecording /\ SourceSaid /\ MeterAgrees
-----------------------------------------------------------------------------
(* One run of the pipeline                                                 *)

LEMMA LimitsAre ==
  /\ RepairRounds \in Nat /\ TestRepairRounds \in Nat /\ MaxChanges \in Nat /\ MaxSuites \in Nat
  /\ MaxTrouble \in Nat /\ Unit \in Nat
BY EvalAssumption, PricesAssumption

LEMMA RunIs ==
  ASSUME NEW r \in Runs
  PROVE  /\ r.rounds \in 0 .. RepairRounds /\ r.rounds \in Nat /\ r.next \in Nat \ {0}
         /\ r.tests \in Seq({"passed", "few", "failed", "error"}) /\ Len(r.tests) \in Nat
         /\ r.calls \in Seq(Calls) /\ Len(r.calls) \in Nat
         /\ r.at \in Places \cup {"validate", "test", "finished"}
<1>1. /\ r.rounds \in 0 .. RepairRounds /\ r.next \in Nat \ {0}
      /\ r.tests \in Seq({"passed", "few", "failed", "error"}) /\ r.calls \in Seq(Calls)
      /\ r.at \in Places \cup {"validate", "test", "finished"}
  BY DEF Runs
<1>2. Len(r.tests) \in Nat /\ Len(r.calls) \in Nat
  BY <1>1, SeqIs, Zenon
<1> QED
  BY <1>1, <1>2, LimitsAre

\* An answer takes a run to its next place, one call further on.
LEMMA AnsweredIs ==
  ASSUME run \in Runs, Shaped(run), run.at \in Places, NEW a \in AnswersAt(run.at)
  PROVE  /\ Answered(a) \in Runs
         /\ Shaped(Answered(a))
         /\ Most(run) + 1 <= Most(Answered(a)) /\ Most(run) \in Int /\ Most(Answered(a)) \in Int
         /\ Answered(a).calls = run.calls /\ Answered(a).next = run.next
         /\ Answered(a).error = run.error /\ Answered(a).meter = run.meter
         /\ Answered(a).at = "finished" <=> run.at = "reviewer"
         /\ run.at = "reviewer" => /\ Answered(a).code = run.code /\ Answered(a).valid = run.valid
                                   /\ Answered(a).tests = run.tests /\ Answered(a).review = a
<1> DEFINE r == Answered(a)
<1>0. /\ RepairRounds \in Nat /\ TestRepairRounds \in Nat /\ run.rounds \in Nat
      /\ Len(run.tests) \in Nat /\ Len(<<>>) = 0
      /\ run.rounds \in 0 .. RepairRounds
  <2>1. Len(<<>>) = 0
    OBVIOUS
  <2> QED
    BY <2>1, LimitsAre, RunIs, Zenon
<1>10. AfterValidation \in {"test", "reviewer"}
  BY DEF AfterValidation
<1>1. CASE run.at = "analyst"
  <2>1. r = [run EXCEPT !.at = "architect"]
    BY <1>1 DEF Answered
  <2>2. a \in AnswersAt(run.at) /\ AnswersAt(run.at) = {"text"}
    BY <1>1 DEF AnswersAt
  <2>3. /\ r \in Runs /\ r.at = "architect" /\ r.code = run.code
        /\ r.valid = run.valid /\ r.review = run.review
        /\ r.tests = run.tests /\ r.rounds = run.rounds /\ r.calls = run.calls
        /\ r.next = run.next /\ r.error = run.error /\ r.meter = run.meter
    BY <1>1, <2>1, <2>2 DEF Runs, Places, Codes
  <2> HIDE DEF r
  <2> QED
    BY <1>0, <1>1, <2>2, <2>3 DEF Shaped, Most, Codes, r
<1>2. CASE run.at = "architect"
  <2>1. r = [run EXCEPT !.at = "coder"]
    BY <1>2 DEF Answered
  <2>2. a \in AnswersAt(run.at) /\ AnswersAt(run.at) = {"text"}
    BY <1>2 DEF AnswersAt
  <2>3. /\ r \in Runs /\ r.at = "coder" /\ r.code = run.code
        /\ r.valid = run.valid /\ r.review = run.review
        /\ r.tests = run.tests /\ r.rounds = run.rounds /\ r.calls = run.calls
        /\ r.next = run.next /\ r.error = run.error /\ r.meter = run.meter
    BY <1>2, <2>1, <2>2 DEF Runs, Places, Codes
  <2> HIDE DEF r
  <2> QED
    BY <1>0, <1>2, <2>2, <2>3 DEF Shaped, Most, Codes, r
<1>3. CASE run.at = "coder"
  <2>1. r = [run EXCEPT !.at = "devops", !.code = a]
    BY <1>3 DEF Answered
  <2>2. a \in AnswersAt(run.at) /\ AnswersAt(run.at) = {"good", "flawed", "odd"}
    BY <1>3 DEF AnswersAt
  <2>3. /\ r \in Runs /\ r.at = "devops" /\ r.code = a /\ r.valid = run.valid /\ r.review = run.review
        /\ r.tests = run.tests /\ r.rounds = run.rounds /\ r.calls = run.calls
        /\ r.next = run.next /\ r.error = run.error /\ r.meter = run.meter
    BY <1>3, <2>1, <2>2 DEF Runs, Places, Codes
  <2> HIDE DEF r
  <2> QED
    BY <1>0, <1>3, <2>2, <2>3 DEF Shaped, Most, Codes, r
<1>4. CASE run.at = "devops"
  <2>1. r = [run EXCEPT !.at = "validate"]
    BY <1>4 DEF Answered
  <2>2. a \in AnswersAt(run.at) /\ AnswersAt(run.at) = {"text"}
    BY <1>4 DEF AnswersAt
  <2>3. /\ r \in Runs /\ r.at = "validate" /\ r.code = run.code
        /\ r.valid = run.valid /\ r.review = run.review
        /\ r.tests = run.tests /\ r.rounds = run.rounds /\ r.calls = run.calls
        /\ r.next = run.next /\ r.error = run.error /\ r.meter = run.meter
    BY <1>4, <2>1, <2>2 DEF Runs, Places, Codes
  <2> HIDE DEF r
  <2> QED
    BY <1>0, <1>4, <2>2, <2>3 DEF Shaped, Most, Codes, r
<1>5. CASE run.at = "repair"
  <2>1. CASE a = "same"
    <3>1. r = [run EXCEPT !.at = AfterValidation]
      BY <1>5, <2>1 DEF Answered
    <3>2. a \in AnswersAt(run.at) /\ AnswersAt(run.at) = {"good", "flawed", "same"}
      BY <1>5 DEF AnswersAt
    <3>3. /\ r \in Runs /\ r.at = AfterValidation /\ r.code = run.code
          /\ r.valid = run.valid /\ r.review = run.review
          /\ r.tests = run.tests /\ r.rounds = run.rounds /\ r.calls = run.calls
          /\ r.next = run.next /\ r.error = run.error /\ r.meter = run.meter
      BY <1>10, <1>5, <2>1, <3>1, <3>2 DEF Runs, Places, Codes
    <3> HIDE DEF r
    <3>4. /\ Most(run) + 1 <= Most(r) /\ Most(run) \in Int /\ Most(r) \in Int
      BY <1>0, <1>10, <1>5, <2>1, <3>3 DEF Shaped, Most
    <3>5. Shaped(r)
      BY <1>0, <1>10, <1>5, <2>1, <3>2, <3>3 DEF Shaped
    <3> QED
      BY <1>10, <1>5, <2>1, <3>3, <3>4, <3>5 DEF r
  <2>2. CASE a # "same"
    <3>1. r = [run EXCEPT !.at = "validate", !.code = a]
      BY <1>5, <2>2 DEF Answered
    <3>2. a \in AnswersAt(run.at) /\ AnswersAt(run.at) = {"good", "flawed", "same"}
      BY <1>5 DEF AnswersAt
    <3>3. /\ r \in Runs /\ r.at = "validate" /\ r.code = a
          /\ r.valid = run.valid /\ r.review = run.review
          /\ r.tests = run.tests /\ r.rounds = run.rounds /\ r.calls = run.calls
          /\ r.next = run.next /\ r.error = run.error /\ r.meter = run.meter
      BY <1>5, <2>2, <3>1, <3>2 DEF Runs, Places, Codes
    <3> HIDE DEF r
    <3>4. /\ Most(run) + 1 <= Most(r) /\ Most(run) \in Int /\ Most(r) \in Int
      BY <1>0, <1>5, <2>2, <3>3 DEF Shaped, Most
    <3>5. Shaped(r)
      BY <1>0, <1>5, <2>2, <3>2, <3>3 DEF Shaped
    <3> QED
      BY <1>5, <2>2, <3>3, <3>4, <3>5 DEF r
  <2> QED
    BY <2>1, <2>2
<1>6. CASE run.at = "test_repair"
  <2>1. CASE a = "same"
    <3>1. r = [run EXCEPT !.at = "reviewer"]
      BY <1>6, <2>1 DEF Answered
    <3>2. a \in AnswersAt(run.at) /\ AnswersAt(run.at) = {"good", "flawed", "same"}
      BY <1>6 DEF AnswersAt
    <3>3. /\ r \in Runs /\ r.at = "reviewer" /\ r.code = run.code
          /\ r.valid = run.valid /\ r.review = run.review
          /\ r.tests = run.tests /\ r.rounds = run.rounds /\ r.calls = run.calls
          /\ r.next = run.next /\ r.error = run.error /\ r.meter = run.meter
      BY <1>6, <2>1, <3>1, <3>2 DEF Runs, Places, Codes
    <3> HIDE DEF r
    <3>4. /\ Most(run) + 1 <= Most(r) /\ Most(run) \in Int /\ Most(r) \in Int
      BY <1>0, <1>6, <2>1, <3>3 DEF Shaped, Most
    <3>5. Shaped(r)
      BY <1>0, <1>6, <2>1, <3>2, <3>3 DEF Shaped
    <3> QED
      BY <1>6, <2>1, <3>3, <3>4, <3>5 DEF r
  <2>2. CASE a # "same"
    <3>1. r = [run EXCEPT !.at = "test", !.code = a, !.valid = IF a = "good" THEN "passed" ELSE "failed"]
      BY <1>6, <2>2 DEF Answered
    <3>2. a \in AnswersAt(run.at) /\ AnswersAt(run.at) = {"good", "flawed", "same"}
      BY <1>6 DEF AnswersAt
    <3>3. /\ r \in Runs /\ r.at = "test" /\ r.code = a
          /\ r.review = run.review
          /\ r.valid = IF a = "good" THEN "passed" ELSE "failed"
          /\ r.tests = run.tests /\ r.rounds = run.rounds /\ r.calls = run.calls
          /\ r.next = run.next /\ r.error = run.error /\ r.meter = run.meter
      BY <1>6, <2>2, <3>1, <3>2 DEF Runs, Places, Codes
    <3> HIDE DEF r
    <3>4. /\ Most(run) + 1 <= Most(r) /\ Most(run) \in Int /\ Most(r) \in Int
      BY <1>0, <1>6, <2>2, <3>3 DEF Shaped, Most
    <3>5. Shaped(r)
      BY <1>0, <1>6, <2>2, <3>2, <3>3 DEF Shaped
    <3> QED
      BY <1>6, <2>2, <3>3, <3>4, <3>5 DEF r
  <2> QED
    BY <2>1, <2>2
<1>7. CASE run.at = "reviewer"
  <2>1. r = [run EXCEPT !.at = "finished", !.review = a]
    BY <1>7 DEF Answered
  <2>2. a \in AnswersAt(run.at) /\ AnswersAt(run.at) = {"high", "low"}
    BY <1>7 DEF AnswersAt
  <2>3. /\ r \in Runs /\ r.at = "finished" /\ r.code = run.code /\ r.valid = run.valid /\ r.review = a
        /\ r.tests = run.tests /\ r.rounds = run.rounds /\ r.calls = run.calls
        /\ r.next = run.next /\ r.error = run.error /\ r.meter = run.meter
    BY <1>7, <2>1, <2>2 DEF Runs, Places, Codes
  <2> HIDE DEF r
  <2> QED
    BY <1>0, <1>7, <2>2, <2>3 DEF Shaped, Most, Codes, r
<1> QED
  BY <1>1, <1>2, <1>3, <1>4, <1>5, <1>6, <1>7 DEF Places

LEMMA LastTestIs ==
  ASSUME run \in Runs
  PROVE  LastTest \in {"not executed", "passed", "few", "failed", "error"}
<1>1. run.tests \in Seq({"passed", "few", "failed", "error"})
  BY DEF Runs
<1>2. CASE run.tests = <<>>
  BY <1>2 DEF LastTest
<1>3. CASE run.tests # <<>>
  <2>1. Len(run.tests) \in 1 .. Len(run.tests)
    BY <1>1, <1>3, SeqIs, Zenon
  <2>2. run.tests[Len(run.tests)] \in {"passed", "few", "failed", "error"}
    BY <1>1, <2>1, SeqIs, Zenon
  <2> QED
    BY <1>3, <2>2 DEF LastTest, Last
<1> QED
  BY <1>2, <1>3

LEMMA TwoWords ==
  \A x, y \in Words : (<<x>> \o <<y>>)[1] = x /\ (<<x>> \o <<y>>)[2] = y
<1> TAKE x, y \in Words
<1> QED
  BY TwoAreSeq, Zenon

\* What is recorded of a call is one, and the reviewer's tells how the run went.
LEMMA CallIs ==
  ASSUME Typed, Shaped(run), run.at \in Places,
         NEW model \in Models, NEW usage \in Usages, NEW a \in AnswersAt(run.at)
  PROVE  /\ Call(model, usage, a) \in Calls
         /\ Call(model, usage, a).agent = "reviewer" <=> run.at = "reviewer"
         /\ Call(model, usage, a).model = model /\ Call(model, usage, a).usage = usage
         /\ run.at = "reviewer" =>
              MetricsOf(Call(model, usage, a)) =
                [completed |-> 1, validation_passed |-> Metric(run.valid),
                 tests_passed |-> Metric(LastTest), review_score |-> Metric(a)]
<1> DEFINE c == Call(model, usage, a)
<1>1. /\ run.code \in Words /\ LastTest \in Words /\ prompts[run.at] \in Nat /\ AgentOf(run.at) \in Agents
  <2>1. run \in Runs /\ prompts \in [Places -> Nat]
    BY DEF Typed
  <2>2. run.code \in Words
    BY <2>1 DEF Runs, Codes, Words
  <2>3. LastTest \in {"not executed", "passed", "few", "failed", "error"}
    BY <2>1, LastTestIs, Zenon
  <2>4. AgentOf(run.at) \in Agents
    BY DEF AgentOf, Agents, Places
  <2> QED
    BY <2>1, <2>2, <2>3, <2>4 DEF Words
<1>2. /\ Shown \in Seq(Words)
      /\ run.at = "reviewer" => Shown[1] = run.code /\ Shown[2] = LastTest
  <2>1. /\ <<run.code>> \in Seq(Words) /\ <<LastTest>> \in Seq(Words) /\ <<>> \in Seq(Words)
        /\ (<<run.code>> \o <<LastTest>>)[1] = run.code
        /\ (<<run.code>> \o <<LastTest>>)[2] = LastTest
    <3>1. /\ (<<run.code>> \o <<LastTest>>)[1] = run.code
          /\ (<<run.code>> \o <<LastTest>>)[2] = LastTest
      BY <1>1, TwoWords
    <3>2. <<>> \in Seq(Words)
      OBVIOUS
    <3> QED
      BY <1>1, <3>1, <3>2, OneIsSeq, Zenon
  <2>2. \A s, t \in Seq(Words) : s \o t \in Seq(Words)
    OBVIOUS
  <2>3. ShownCode \in Seq(Words) /\ (run.at = "reviewer" => ShownCode = <<run.code>>)
    BY <2>1 DEF ShownCode
  <2>4. CASE run.at \in {"test_repair", "reviewer"}
    <3>1. Shown = ShownCode \o <<LastTest>>
      BY <2>4 DEF Shown
    <3> QED
      BY <2>1, <2>2, <2>3, <3>1, Zenon
  <2>5. CASE run.at \notin {"test_repair", "reviewer"}
    <3>1. Shown = ShownCode \o <<>> /\ run.at # "reviewer"
      BY <2>5 DEF Shown
    <3> QED
      BY <2>1, <2>2, <2>3, <3>1, Zenon
  <2> QED
    BY <2>4, <2>5
<1>3. /\ c = [agent |-> AgentOf(run.at), asked |-> Fingerprint, model |-> model, usage |-> usage,
              answer |-> a]
      /\ Fingerprint = [agent |-> AgentOf(run.at), prompt |-> <<run.at, prompts[run.at]>>,
                        shown |-> Shown]
  BY DEF Call, Fingerprint
<1> HIDE DEF c
<1>4. Fingerprint \in [agent : Agents, prompt : Places \X Nat, shown : Seq(Words)]
      /\ Fingerprint.prompt[1] = run.at /\ Fingerprint.shown = Shown
  BY <1>1, <1>2, <1>3
<1>5. c \in Calls
  <2>1. /\ c.asked = Fingerprint /\ c.agent = AgentOf(run.at) /\ c.answer = a
        /\ c.asked.prompt[1] = run.at
    BY <1>3, <1>4
  <2>2. a \in Words
    BY DEF AnswersAt, Words
  <2>3. c \in [agent : Agents, asked : [agent : Agents, prompt : Places \X Nat, shown : Seq(Words)],
               model : Models, usage : Usages, answer : Words]
    BY <1>1, <1>3, <1>4, <2>2
  <2> QED
    BY <2>1, <2>3 DEF Calls
<1>6. c.agent = "reviewer" <=> run.at = "reviewer"
  BY <1>3 DEF AgentOf, Places
<1>7. ASSUME run.at = "reviewer"
      PROVE  MetricsOf(c) = [completed |-> 1, validation_passed |-> Metric(run.valid),
                             tests_passed |-> Metric(LastTest), review_score |-> Metric(a)]
  <2>1. c.asked.shown[1] = run.code /\ c.asked.shown[2] = LastTest /\ c.answer = a
    BY <1>2, <1>3, <1>4, <1>7
  <2>2. Metric(run.valid) = IF run.code = "good" THEN 1 ELSE 0
    BY <1>7 DEF Shaped, Metric
  <2> QED
    BY <2>1, <2>2 DEF MetricsOf
<1> QED
  BY <1>3, <1>5, <1>6, <1>7 DEF c

\* What the metering takes a list of recorded calls to have cost.
LEMMA CallsCostIs ==
  ASSUME NEW s \in Seq(Calls)
  PROVE  /\ CallsCost(s) \in Int
         /\ \A c \in Calls : CallsCost(Append(s, c)) = CallsCost(s) + CostOf(c)
<1> DEFINE costs(q) == [i \in DOMAIN q |-> CostOf(q[i])]
<1>1. \A c \in Calls : CostOf(c) \in Int
  BY CostIs DEF CostOf, Calls
<1>2. Len(s) \in Nat /\ DOMAIN s = 1 .. Len(s) /\ \A i \in 1 .. Len(s) : s[i] \in Calls
  BY SeqIs, Zenon
<1>3. costs(s) \in Seq(Int)
  BY <1>1, <1>2
<1>4. ASSUME NEW c \in Calls PROVE costs(Append(s, c)) = Append(costs(s), CostOf(c))
  <2>1. /\ DOMAIN Append(s, c) = 1 .. Len(s) + 1
        /\ Append(s, c)[Len(s) + 1] = c /\ \A i \in 1 .. Len(s) : Append(s, c)[i] = s[i]
    OBVIOUS
  <2>2. Len(costs(s)) = Len(s)
    BY <1>2, <1>3
  <2>3. Append(costs(s), CostOf(c)) =
          [i \in 1 .. Len(s) + 1 |-> IF i = Len(s) + 1 THEN CostOf(c) ELSE CostOf(s[i])]
    BY <1>1, <1>2, <1>3, <2>2
  <2>4. \A i \in 1 .. Len(s) + 1 :
          CostOf(Append(s, c)[i]) = IF i = Len(s) + 1 THEN CostOf(c) ELSE CostOf(s[i])
    BY <1>2, <2>1
  <2>5. costs(Append(s, c)) = [i \in 1 .. Len(s) + 1 |-> CostOf(Append(s, c)[i])]
    BY <2>1, Zenon
  <2> QED
    BY <2>3, <2>4, <2>5
<1>5. CallsCost(s) = Total(costs(s)) /\ \A c \in Calls : CallsCost(Append(s, c)) = Total(costs(Append(s, c)))
  BY DEF CallsCost
<1> HIDE DEF costs
<1>6. Total(costs(s)) \in Int
  BY <1>3, TotalIsNumber
<1>7. \A c \in Calls : Total(Append(costs(s), CostOf(c))) = Total(costs(s)) + CostOf(c)
  BY <1>1, <1>3, TotalAppended
<1> QED
  BY <1>4, <1>5, <1>6, <1>7

LEMMA CallsCostOfNone == CallsCost(<<>>) = 0
<1>1. [i \in DOMAIN <<>> |-> CostOf(<<>>[i])] = <<>>
  OBVIOUS
<1> QED
  BY <1>1, TotalOfNone DEF CallsCost

-----------------------------------------------------------------------------
(* Suites                                                                  *)

LEMMA LeastIs ==
  ASSUME NEW S \in SUBSET Nat, S # {}
  PROVE  Min(S) \in S
<1>1. PICK x \in S : \A y \in S : ~ (<<y, x>> \in Below)
  BY NoDescent, WFMin, Zenon
<1>2. ASSUME NEW y \in S PROVE x <= y
  <2>1. x \in Nat /\ y \in Nat
    OBVIOUS
  <2>2. y < x => <<y, x>> \in Below
    BY <2>1 DEF Below
  <2> QED
    BY <1>1, <2>1, <2>2
<1> QED
  BY <1>2 DEF Min

\* The fixture at hand is one the suite was started with.
LEMMA FixtureAt ==
  ASSUME NEW S \in SUBSET DOMAIN Fixtures, S # {}
  PROVE  Min(S) \in S /\ Fixtures[Min(S)] \in AllFixtures
<1>1. Fixtures \in Seq(STRING)
  BY EvalAssumption
<1>2. DOMAIN Fixtures = 1 .. Len(Fixtures) /\ Len(Fixtures) \in Nat
  BY <1>1, SeqIs, Zenon
<1>3. S \in SUBSET Nat
  BY <1>2
<1>4. Min(S) \in S
  BY <1>3, LeastIs
<1> QED
  BY <1>4 DEF AllFixtures, ToSet

LEMMA FixtureIs ==
  ASSUME Typed, SuiteShaped, suite.left # {}
  PROVE  /\ Min(suite.left) \in suite.left /\ Fixture \in AllFixtures /\ Fixture \in suite.all
         /\ suite # NoSuite /\ suite.mode # "idle" /\ verdict = "none"
<1>1. suite.left \in SUBSET DOMAIN Fixtures
  BY DEF Typed
<1>2. Min(suite.left) \in suite.left /\ Fixtures[Min(suite.left)] \in AllFixtures
  BY <1>1, FixtureAt
<1>3. suite # NoSuite
  BY DEF NoSuite
<1> QED
  BY <1>2, <1>3 DEF Fixture, SuiteShaped

Bills == [exact : Int, attempts : Int, unknown : BOOLEAN, tokens : Int, cost : Int]

\* A step of the run at hand leaves the rest of the suite as it is.
LEMMA RunStepKeeps ==
  ASSUME SuiteInv, suite.left # {},
         UNCHANGED <<prompts, sandbox, disk, suite, results, verdict, taken>>,
         run' \in Runs, bill' \in Bills,
         bounds' \in [suites : Nat, changes : 0 .. MaxChanges, troubles : Nat],
         bounds'.changes = bounds.changes,
         RunShaped', Recording', Replaying', MeterAgrees'
  PROVE  SuiteInv'
<1>1. Typed'
  BY DEF SuiteInv, Typed, Bills
<1>2. SuiteShaped'
  BY DEF SuiteInv, SuiteShaped
<1>3. DiskShaped' /\ ResultsShaped'
  BY DEF SuiteInv, DiskShaped, ResultsShaped
<1>4. NoStaleAnswers' /\ ReplayRepeatsRecording' /\ SourceSaid'
  BY DEF SuiteInv, NoStaleAnswers, ReplayRepeatsRecording, SourceSaid
<1> QED
  BY <1>1, <1>2, <1>3, <1>4 DEF SuiteInv

\* A run that begins is as it should be.
LEMMA NewRunIs ==
  ASSUME run' = NewRun, bill' = NoBill
  PROVE  /\ run' \in Runs /\ bill' \in Bills
         /\ RunShaped' /\ Recording' /\ MeterAgrees'
         /\ Typed' => Replaying'
<1>0. RepairRounds \in Nat /\ TestRepairRounds \in Nat /\ Unit \in Nat
  BY EvalAssumption, PricesAssumption
<1>1. run' \in Runs
  <2>1. NoMeter \in Meters
    BY DEF NoMeter, Meters
  <2>2. <<>> \in Seq(Calls) /\ <<>> \in Seq({"passed", "few", "failed", "error"})
    OBVIOUS
  <2>3. 0 \in 0 .. RepairRounds /\ 1 \in Nat \ {0}
    BY <1>0
  <2> QED
    BY <2>1, <2>2, <2>3 DEF NewRun, Runs, Places, Codes, Errors
<1>2. bill' \in Bills
  BY DEF NoBill, Bills
<1>3. /\ run'.at = "analyst" /\ run'.code = "none" /\ run'.tests = <<>> /\ run'.review = "none"
      /\ run'.calls = <<>> /\ run'.error = "" /\ run'.next = 1 /\ run'.meter = NoMeter
      /\ run'.meter.tokens = 0 /\ run'.meter.unpriced = 0 /\ run'.meter.cost = 0
  BY DEF NewRun, NoMeter
<1>8. Len(<<>>) = 0
  OBVIOUS
<1>9. RunShaped'
  <2>1. Shaped(run')
    BY <1>3 DEF Shaped
  <2>2. Len(run'.calls) <= Most(run')
    <3>1. Most(run') = 0 /\ 0 <= 0
      <4>1. run'.at = "analyst"
        BY <1>3, Zenon
      <4> QED
        BY <4>1 DEF Most
    <3>2. Len(run'.calls) = 0
      BY <1>3, <1>8, Zenon
    <3> QED
      BY <3>1, <3>2, Zenon
  <2>3. Unreviewed(run'.calls)
    <3>1. Len(run'.calls) = 0
      BY <1>3, <1>8, Zenon
    <3>2. 1 .. 0 = {}
      OBVIOUS
    <3> QED
      BY <3>1, <3>2, Zenon DEF Unreviewed
  <2> QED
    BY <1>3, <2>1, <2>2, <2>3 DEF RunShaped
<1>5. Recording'
  <2>1. bill'.attempts = 0 /\ bill'.cost = 0 /\ CallsCost(run'.calls) = 0 /\ Len(run'.calls) = 0
    BY <1>3, <1>8, CallsCostOfNone DEF NoBill
  <2> QED
    BY <2>1 DEF Recording
<1>6. MeterAgrees'
  <2>1. /\ bill'.tokens = 0 /\ bill'.unknown = FALSE /\ bill'.exact = 0 /\ bill'.attempts = 0
    BY DEF NoBill
  <2>2. Unit * 0 = 0 /\ 0 - 0 = 0 /\ 2 * 0 = 0 /\ 0 <= 0 /\ (0 > 0) = FALSE
    BY <1>0
  <2> QED
    BY <1>3, <2>1, <2>2, Zenon DEF MeterAgrees
<1>7. ASSUME Typed' PROVE Replaying'
  <2> SUFFICES ASSUME suite'.left # {}
               PROVE  /\ run'.next - 1 <= Len(disk'[Fixture'].calls)
                      /\ run'.calls = SubSeq(disk'[Fixture'].calls, 1, run'.next - 1)
                      /\ run'.meter.cost = CallsCost(run'.calls)
    BY DEF Replaying
  <2>1. Fixture' \in AllFixtures
    <3>1. suite'.left \in SUBSET DOMAIN Fixtures
      BY <1>7 DEF Typed
    <3>2. Fixtures[Min(suite'.left)] \in AllFixtures
      BY <3>1, FixtureAt
    <3> QED
      BY <3>2 DEF Fixture
  <2>2. disk'[Fixture'].calls \in Seq(Calls)
    BY <1>7, <2>1 DEF Typed
  <2>3. \A s \in Seq(Calls) : 0 <= Len(s) /\ SubSeq(s, 1, 0) = <<>>
    OBVIOUS
  <2>4. run'.next - 1 = 0
    <3>1. run'.next = 1
      BY <1>3, Zenon
    <3>2. 1 - 1 = 0
      OBVIOUS
    <3> QED
      BY <3>1, <3>2, Zenon
  <2> QED
    BY <1>3, <2>2, <2>3, <2>4, CallsCostOfNone
<1> QED
  BY <1>1, <1>2, <1>9, <1>5, <1>6, <1>7

\* The parts of a run that say how far its project is.
SameProject(r, s) ==
  /\ r.at = s.at /\ r.code = s.code /\ r.valid = s.valid /\ r.rounds = s.rounds
  /\ r.tests = s.tests /\ r.review = s.review

LEMMA SameIsShaped ==
  ASSUME NEW r, NEW s, SameProject(r, s), Shaped(s)
  PROVE  Shaped(r) /\ Most(r) = Most(s)
<1>1. Shaped(r)
  BY DEF SameProject, Shaped
<1>2. Most(r) = Most(s)
  BY DEF SameProject, Most
<1> QED
  BY <1>1, <1>2

\* A call that fails leaves the run where it is, with its error.
LEMMA FailureKeeps ==
  ASSUME SuiteInv, suite.left # {}, run.at \in Places, run.at # "finished",
         UNCHANGED <<prompts, sandbox, disk, suite, results, verdict, taken>>,
         bounds' \in [suites : Nat, changes : 0 .. MaxChanges, troubles : Nat],
         bounds'.changes = bounds.changes,
         run' \in Runs, SameProject(run', run), run'.calls = run.calls, run'.meter = run.meter,
         run'.error # "", bill' \in Bills, MeterAgrees', Recording'
  PROVE  SuiteInv'
<1>2. Shaped(run') /\ Most(run') = Most(run)
  BY SameIsShaped DEF SuiteInv, RunShaped
<1>3. run'.at = run.at
  BY DEF SameProject
<1>4. RunShaped'
  BY <1>2, <1>3 DEF SuiteInv, RunShaped
<1>6. Replaying'
  BY DEF SuiteInv, Replaying, Fixture
<1> QED
  BY <1>4, <1>6, RunStepKeeps

\* A step of the pipeline that makes no call moves the run on, and no further than its calls allow.
LEMMA MoveKeeps ==
  ASSUME SuiteInv, suite.left # {}, run.at \in {"validate", "test"},
         UNCHANGED <<prompts, sandbox, disk, suite, results, verdict, taken, bill>>,
         bounds' \in [suites : Nat, changes : 0 .. MaxChanges, troubles : Nat],
         bounds'.changes = bounds.changes,
         run' \in Runs, Shaped(run'), run'.at # "finished",
         Most(run) <= Most(run'), Most(run) \in Int, Most(run') \in Int,
         run'.calls = run.calls, run'.meter = run.meter, run'.next = run.next,
         run'.error = run.error
  PROVE  SuiteInv'
<1>1. bill' \in Bills
  BY DEF SuiteInv, Typed, Bills
<1>2. run.error = "" /\ run.at # "finished"
  BY DEF SuiteInv, RunShaped, Places
<1>3. Len(run'.calls) <= Most(run')
  <2>1. Len(run.calls) \in Nat /\ Len(run.calls) <= Most(run)
    BY RunIs DEF SuiteInv, Typed, RunShaped
  <2>2. \A i \in Nat : \A j, k \in Int : i <= j /\ j <= k => i <= k
    OBVIOUS
  <2> QED
    BY <2>1, <2>2, Zenon
<1>4. RunShaped'
  BY <1>2, <1>3 DEF SuiteInv, RunShaped
<1>5. Recording' /\ MeterAgrees'
  BY DEF SuiteInv, Recording, MeterAgrees
<1>6. Replaying'
  BY DEF SuiteInv, Replaying, Fixture
<1> QED
  BY <1>1, <1>4, <1>5, <1>6, RunStepKeeps

LEMMA BoundsGrow ==
  ASSUME Typed, NEW n \in Nat, Troubled(n)
  PROVE  /\ bounds' \in [suites : Nat, changes : 0 .. MaxChanges, troubles : Nat]
         /\ bounds'.changes = bounds.changes
BY DEF Typed, Troubled

LEMMA ValidateKeeps ==
  ASSUME SuiteInv, suite.left # {}, Validate
  PROVE  SuiteInv'
<1>1. /\ run \in Runs /\ Shaped(run) /\ run.at = "validate" /\ run.code \in {"good", "flawed"}
      /\ run.code # "none"
  BY DEF SuiteInv, Typed, RunShaped, Shaped, Validate, Runs, Codes
<1>2. /\ RepairRounds \in Nat /\ TestRepairRounds \in Nat /\ run.rounds \in Nat /\ Len(<<>>) = 0
      /\ run.rounds \in 0 .. RepairRounds
  BY <1>1, LimitsAre, RunIs
<1>3. AfterValidation \in {"test", "reviewer"}
  BY DEF AfterValidation
<1>4. /\ run' \in Runs /\ Shaped(run') /\ run'.at # "finished"
      /\ Most(run) <= Most(run') /\ Most(run) \in Int /\ Most(run') \in Int
      /\ run'.calls = run.calls /\ run'.meter = run.meter /\ run'.next = run.next
      /\ run'.error = run.error
  <2>1. CASE run.code = "flawed" /\ RoundsLeft
    <3>1. run' = [run EXCEPT !.valid = "failed", !.at = "repair", !.rounds = @ + 1]
      BY <2>1 DEF Validate
    <3>2. run.rounds + 1 \in 0 .. RepairRounds
      BY <1>2, <2>1 DEF RoundsLeft
    <3>3. /\ run' \in Runs /\ run'.at = "repair" /\ run'.code = run.code /\ run'.valid = "failed"
          /\ run'.review = run.review /\ run'.tests = run.tests /\ run'.rounds = run.rounds + 1
          /\ run'.calls = run.calls /\ run'.meter = run.meter /\ run'.next = run.next
          /\ run'.error = run.error
      BY <1>1, <3>1, <3>2 DEF Runs, Places
    <3> QED
      BY <1>1, <1>2, <2>1, <3>3 DEF Shaped, Most
  <2>2. CASE ~(run.code = "flawed" /\ RoundsLeft)
    <3>1. run' = [run EXCEPT !.valid = IF run.code = "good" THEN "passed" ELSE "failed",
                             !.at = AfterValidation]
      BY <2>2 DEF Validate
    <3>2. /\ run' \in Runs /\ run'.at = AfterValidation /\ run'.code = run.code
          /\ run'.valid = IF run.code = "good" THEN "passed" ELSE "failed"
          /\ run'.review = run.review /\ run'.tests = run.tests /\ run'.rounds = run.rounds
          /\ run'.calls = run.calls /\ run'.meter = run.meter /\ run'.next = run.next
          /\ run'.error = run.error
      BY <1>1, <1>3, <3>1 DEF Runs, Places
    <3>3. Shaped(run')
      BY <1>1, <1>2, <1>3, <3>2 DEF Shaped
    <3>4. Most(run) <= Most(run') /\ Most(run) \in Int /\ Most(run') \in Int
      BY <1>1, <1>2, <1>3, <3>2 DEF Shaped, Most
    <3> QED
      BY <1>3, <3>2, <3>3, <3>4
  <2> QED
    BY <2>1, <2>2
<1>5. UNCHANGED <<prompts, sandbox, disk, suite, results, verdict, taken, bill, bounds>>
  BY DEF Validate
<1>6. /\ bounds' \in [suites : Nat, changes : 0 .. MaxChanges, troubles : Nat]
      /\ bounds'.changes = bounds.changes
  BY <1>5 DEF SuiteInv, Typed
<1> QED
  BY <1>1, <1>4, <1>5, <1>6, MoveKeeps

LEMMA TestKeeps ==
  ASSUME SuiteInv, suite.left # {}, Test
  PROVE  SuiteInv'
<1> DEFINE Outcomes == {"passed", "few", "failed", "error"}
<1>1. run \in Runs /\ Shaped(run) /\ run.at = "test"
  BY DEF SuiteInv, Typed, RunShaped, Test
<1>2. PICK outcome \in Outcomes :
        /\ Troubled(IF outcome = "passed" THEN 0 ELSE 1)
        /\ run' = [run EXCEPT !.tests = Append(@, outcome),
                              !.at = IF outcome = "failed" /\ Len(run.tests) < TestRepairRounds
                                     THEN "test_repair" ELSE "reviewer"]
  BY DEF Test
<1> DEFINE at == IF outcome = "failed" /\ Len(run.tests) < TestRepairRounds
                 THEN "test_repair" ELSE "reviewer"
<1>3. /\ Append(run.tests, outcome) \in Seq(Outcomes) /\ Len(run.tests) \in Nat
      /\ Len(Append(run.tests, outcome)) = Len(run.tests) + 1
  <2>1. run.tests \in Seq(Outcomes)
    BY <1>1 DEF Runs
  <2> HIDE DEF Outcomes
  <2> QED
    BY <2>1, AppendedIs, Zenon
<1>4. RepairRounds \in Nat /\ TestRepairRounds \in Nat /\ run.rounds \in Nat
  BY <1>1, LimitsAre, RunIs, Zenon
<1>5. at \in {"test_repair", "reviewer"}
  OBVIOUS
<1>6. /\ run' \in Runs /\ run'.at = at /\ run'.code = run.code /\ run'.valid = run.valid
      /\ run'.review = run.review /\ run'.tests = Append(run.tests, outcome)
      /\ run'.rounds = run.rounds /\ run'.calls = run.calls /\ run'.meter = run.meter
      /\ run'.next = run.next /\ run'.error = run.error
  <2> HIDE DEF at
  <2>1. run' = [run EXCEPT !.tests = Append(run.tests, outcome), !.at = at]
    BY <1>2 DEF at
  <2> QED
    BY <1>1, <1>3, <1>5, <2>1 DEF Runs, Places
<1>7. Shaped(run') /\ run'.at # "finished"
  BY <1>1, <1>3, <1>4, <1>6 DEF Shaped
<1>8. Most(run) <= Most(run') /\ Most(run) \in Int /\ Most(run') \in Int
  <2>1. Most(run) = 4 + run.rounds + Len(run.tests) /\ Len(run.tests) <= TestRepairRounds
    BY <1>1 DEF Shaped, Most
  <2>2. CASE at = "test_repair"
    <3>1. Most(run') = 3 + run.rounds + (Len(run.tests) + 1)
      BY <1>3, <1>6, <2>2 DEF Most
    <3> QED
      BY <1>3, <1>4, <2>1, <3>1
  <2>3. CASE at = "reviewer"
    <3>1. Most(run') = 4 + run.rounds + TestRepairRounds
      BY <1>6, <2>3 DEF Most
    <3> QED
      BY <1>3, <1>4, <2>1, <3>1
  <2> QED
    BY <1>5, <2>2, <2>3
<1>9. UNCHANGED <<prompts, sandbox, disk, suite, results, verdict, taken, bill>>
  BY DEF Test
<1>10. /\ bounds' \in [suites : Nat, changes : 0 .. MaxChanges, troubles : Nat]
       /\ bounds'.changes = bounds.changes
  BY <1>2, BoundsGrow DEF SuiteInv
<1> QED
  BY <1>1, <1>6, <1>7, <1>8, <1>9, <1>10, MoveKeeps

-----------------------------------------------------------------------------
(* Calls                                                                   *)

\* What a message adds to the bill, and how far its price is from it.
LEMMA BillingIs ==
  ASSUME bill \in Bills, NEW m \in Messages
  PROVE  \E n \in Nat \ {0}, x \in Int, unknown \in BOOLEAN :
           /\ Billing(m) \in Bills
           /\ Billing(m).attempts = bill.attempts + n
           /\ Billing(m).exact = bill.exact + x
           /\ Billing(m).tokens = bill.tokens + (Usage(m).input + Usage(m).output)
           /\ Billing(m).cost = bill.cost + Price(Response(m)).cost
           /\ Billing(m).unknown = (bill.unknown \/ unknown)
           /\ Price(Response(m)).cost \in Int
           /\ 2 * (Unit * Price(Response(m)).cost - x) <= Unit * n
           /\ 2 * (x - Unit * Price(Response(m)).cost) <= Unit * n
           /\ Price(Response(m)).unpriced = IF unknown THEN 1 ELSE 0
           /\ n = 1 => Price(Response(m)).cost = Cost(m.model, Usage(m))
           /\ Usage(m) \in Usages
<1> DEFINE E == AttemptsOf(m)
           n == Len(E)
           x == Total([i \in DOMAIN E |-> PriceOf(m, E[i])])
           t == Total([i \in DOMAIN E |-> TokensOf(E[i])])
           unknown == \E i \in DOMAIN E : ModelOf(m, E[i]) \notin DOMAIN Prices
           P == Price(Response(m))
<1>1. n \in Nat \ {0}
  BY AttemptsAre
<1>2. /\ Usage(m) \in Usages /\ Usage(m).input + Usage(m).output = t
      /\ x \in Int /\ P.cost \in Int
      /\ 2 * (Unit * P.cost - x) <= Unit * n
      /\ 2 * (x - Unit * P.cost) <= Unit * n
      /\ P.unpriced = IF unknown THEN 1 ELSE 0
      /\ n = 1 => P.cost = Cost(m.model, Usage(m))
  BY MessageIs
<1>3. Billing(m) = [exact |-> bill.exact + x, attempts |-> bill.attempts + n,
                    unknown |-> bill.unknown \/ unknown, tokens |-> bill.tokens + t,
                    cost |-> bill.cost + P.cost]
  BY Zenon DEF Billing
<1>4. unknown \in BOOLEAN
  OBVIOUS
<1> HIDE DEF E, n, x, t, unknown, P
<1>5. /\ bill.exact \in Int /\ bill.attempts \in Int /\ bill.tokens \in Int /\ bill.cost \in Int
      /\ bill.unknown \in BOOLEAN
  BY DEF Bills
<1>6. t \in Int
  <2>1. Usage(m).input \in Int /\ Usage(m).output \in Int
    BY <1>2 DEF Usages
  <2> QED
    BY <1>2, <2>1
<1>7. /\ bill.exact + x \in Int /\ bill.attempts + n \in Int /\ bill.tokens + t \in Int
      /\ bill.cost + P.cost \in Int
  BY <1>1, <1>2, <1>5, <1>6
<1>8. (bill.unknown \/ unknown) \in BOOLEAN
  BY <1>4, <1>5
<1> DEFINE exact == bill.exact + x
           attempts == bill.attempts + n
           known == (bill.unknown \/ unknown)
           tokens == bill.tokens + t
           cost == bill.cost + P.cost
<1>12. Billing(m) = [exact |-> exact, attempts |-> attempts, unknown |-> known, tokens |-> tokens,
                     cost |-> cost]
  BY <1>3
<1>13. exact \in Int /\ attempts \in Int /\ known \in BOOLEAN /\ tokens \in Int /\ cost \in Int
  BY <1>7, <1>8
<1> HIDE DEF exact, attempts, known, tokens, cost
<1>9. Billing(m) \in Bills
  BY <1>12, <1>13 DEF Bills
<1>14. /\ Billing(m).attempts = attempts /\ Billing(m).exact = exact /\ Billing(m).tokens = tokens
       /\ Billing(m).cost = cost /\ Billing(m).unknown = known
  BY <1>12
<1>10. /\ Billing(m).attempts = bill.attempts + n /\ Billing(m).exact = bill.exact + x
       /\ Billing(m).tokens = bill.tokens + t /\ Billing(m).cost = bill.cost + P.cost
       /\ Billing(m).unknown = (bill.unknown \/ unknown)
  BY <1>14, Zenon DEF exact, attempts, known, tokens, cost
<1>11. Billing(m).tokens = bill.tokens + (Usage(m).input + Usage(m).output)
  BY <1>2, <1>10, Zenon
<1> QED
  BY <1>1, <1>2, <1>4, <1>9, <1>10, <1>11, Zenon DEF P

LEMMA AppendedCall ==
  ASSUME NEW s \in Seq(Calls), NEW c \in Calls
  PROVE  Append(s, c) \in Seq(Calls) /\ Len(s) \in Nat /\ Len(Append(s, c)) = Len(s) + 1
BY AppendedIs

LEMMA AppendReviewed ==
  ASSUME NEW s \in Seq(Calls), NEW c \in Calls, Unreviewed(s)
  PROVE  /\ c.agent # "reviewer" => Unreviewed(Append(s, c))
         /\ c.agent = "reviewer" => ReviewedLast(Append(s, c))
         /\ Append(s, c)[Len(Append(s, c))] = c
<1> DEFINE t == Append(s, c)
           N == Len(s)
<1>1. /\ t \in Seq(Calls) /\ N \in Nat /\ Len(t) = N + 1 /\ t[N + 1] = c
      /\ \A i \in 1 .. N : t[i] = s[i]
  BY AppendedIs
<1> HIDE DEF t, N
<1>2. \A i \in 1 .. N : t[i].agent # "reviewer"
  BY <1>1 DEF Unreviewed, N
<1>3. t[Len(t)] = c
  BY <1>1, Zenon
<1>4. Len(t) - 1 = N /\ 1 .. Len(t) = (1 .. N) \cup {N + 1}
  BY <1>1
<1>5. t # <<>>
  <2>1. Len(<<>>) = 0 /\ N + 1 # 0
    BY <1>1
  <2> QED
    BY <1>1, <2>1, Zenon
<1>6. c.agent # "reviewer" => Unreviewed(t)
  BY <1>1, <1>2, <1>4 DEF Unreviewed
<1>7. c.agent = "reviewer" => ReviewedLast(t)
  BY <1>2, <1>3, <1>4, <1>5, Zenon DEF ReviewedLast
<1> QED
  BY <1>3, <1>6, <1>7 DEF t

LEMMA OneMore ==
  ASSUME NEW i \in Nat, NEW j \in Int, NEW k \in Int, i <= j, j + 1 <= k
  PROVE  i <= k /\ i + 1 <= k
OBVIOUS

\* A call that is answered moves the run on, and is kept unless the suite is live.
LEMMA AnswerKeepsShape ==
  ASSUME SuiteInv, suite.left # {}, run.at \in Places, suite' = suite,
         NEW a \in AnswersAt(run.at), NEW c \in Calls, c.agent = "reviewer" <=> run.at = "reviewer",
         run.at = "reviewer" =>
           MetricsOf(c) = [completed |-> 1, validation_passed |-> Metric(run.valid),
                           tests_passed |-> Metric(LastTest), review_score |-> Metric(a)],
         run' \in Runs, SameProject(run', Answered(a)), run'.error = "",
         run'.calls = IF suite.mode = "live" THEN run.calls ELSE Append(run.calls, c)
  PROVE  RunShaped'
<1>1. run \in Runs /\ Shaped(run) /\ Typed /\ Len(run.calls) <= Most(run)
  BY DEF SuiteInv, Typed, RunShaped
<1>2. run.at # "finished" /\ Unreviewed(run.calls)
  BY DEF SuiteInv, RunShaped, Places
<1>4. /\ Shaped(Answered(a)) /\ Most(run) + 1 <= Most(Answered(a))
      /\ Most(run) \in Int /\ Most(Answered(a)) \in Int
      /\ Answered(a).at = "finished" <=> run.at = "reviewer"
      /\ run.at = "reviewer" => /\ Answered(a).code = run.code /\ Answered(a).valid = run.valid
                                /\ Answered(a).tests = run.tests /\ Answered(a).review = a
  BY <1>1, AnsweredIs, Zenon
<1>5. Shaped(run') /\ Most(run') = Most(Answered(a))
  BY <1>4, SameIsShaped, Zenon
<1>6. run'.at = Answered(a).at
  BY DEF SameProject
<1>7. /\ run.calls \in Seq(Calls) /\ Len(run.calls) \in Nat
      /\ Len(Append(run.calls, c)) = Len(run.calls) + 1
  <2>1. run.calls \in Seq(Calls) /\ Len(run.calls) \in Nat
    BY <1>1, RunIs, Zenon
  <2> QED
    BY <2>1, AppendedCall, Zenon
<1>8. Len(run'.calls) <= Most(run')
  <2>1. Len(run'.calls) = Len(run.calls) \/ Len(run'.calls) = Len(run.calls) + 1
    BY <1>7, Zenon
  <2> QED
    BY <1>1, <1>4, <1>5, <1>7, <2>1, OneMore, Zenon
<1>9. suite.mode = "live" => run'.calls = <<>>
  BY Zenon DEF SuiteInv, RunShaped
<1>10. ASSUME run'.at # "finished" PROVE Unreviewed(run'.calls)
  <2>1. c.agent # "reviewer"
    BY <1>4, <1>6, <1>10
  <2>2. Unreviewed(Append(run.calls, c))
    BY <1>2, <1>7, <2>1, AppendReviewed, Zenon
  <2> QED
    BY <1>2, <2>2, Zenon
<1>11. ASSUME run'.at = "finished", suite.mode # "live"
       PROVE  ReviewedLast(run'.calls) /\ MetricsOf(run'.calls[Len(run'.calls)]) = Measured("")'
  <2>1. run.at = "reviewer" /\ c.agent = "reviewer" /\ run'.calls = Append(run.calls, c)
    BY <1>4, <1>6, <1>11, Zenon
  <2>2. ReviewedLast(run'.calls) /\ run'.calls[Len(run'.calls)] = c
    BY <1>2, <1>7, <2>1, AppendReviewed, Zenon
  <2>3. run'.valid = run.valid /\ run'.tests = run.tests /\ run'.review = a
    BY <1>4, <2>1, Zenon DEF SameProject
  <2>4. LastTest' = LastTest
    BY <2>3, Zenon DEF LastTest
  <2>5. Measured("")' = [completed |-> 1, validation_passed |-> Metric(run.valid),
                         tests_passed |-> Metric(LastTest), review_score |-> Metric(a)]
    BY <2>3, <2>4, Zenon DEF Measured
  <2> QED
    BY <2>1, <2>2, <2>5, Zenon
<1> QED
  BY <1>5, <1>8, <1>9, <1>10, <1>11, Zenon DEF RunShaped

\* What no number of a sequence is below, its sum is not below either.
LEMMA TotalIsNatural ==
  ASSUME NEW s \in Seq(Nat)
  PROVE  Total(s) \in Nat
<1>1. s \in Seq(Int) /\ Len(s) \in Nat /\ \A n \in 1 .. Len(s) : s[n] \in Nat
  OBVIOUS
<1>2. PICK f : Sums(s, f) /\ Total(s) = f[Len(s)]
  BY <1>1, TotalIs
<1> DEFINE S == {n \in 0 .. Len(s) : f[n] \in Nat}
<1>3. 0 \in S
  BY <1>1, <1>2 DEF Sums
<1>4. ASSUME NEW n \in 0 .. Len(s) - 1, n \in S PROVE n + 1 \in S
  <2>1. n + 1 \in 1 .. Len(s) /\ n + 1 \in 0 .. Len(s) /\ (n + 1) - 1 = n
    BY <1>1
  <2>2. f[n + 1] = f[n] + s[n + 1]
    BY <1>2, <2>1 DEF Sums
  <2>3. f[n] \in Nat /\ s[n + 1] \in Nat
    BY <1>1, <1>4, <2>1
  <2> QED
    BY <2>1, <2>2, <2>3
<1>5. \A n \in 0 .. Len(s) : n \in S
  <2> HIDE DEF S
  <2> QED
    BY <1>1, <1>3, <1>4, UpTo
<1> QED
  BY <1>1, <1>2, <1>5

\* No attempt takes anything off the bill.
LEMMA BillGrows ==
  ASSUME bill \in Bills, NEW m \in Messages
  PROVE  /\ Billing(m) \in Bills
         /\ Billing(m).exact >= bill.exact /\ Billing(m).attempts > bill.attempts
         /\ Billing(m).tokens >= bill.tokens /\ (bill.unknown => Billing(m).unknown)
<1> DEFINE E == AttemptsOf(m)
           n == Len(E)
           prices == [i \in DOMAIN E |-> PriceOf(m, E[i])]
           tokens == [i \in DOMAIN E |-> TokensOf(E[i])]
           x == Total(prices)
           t == Total(tokens)
<1>1. n \in Nat \ {0} /\ DOMAIN E = 1 .. n /\ \A i \in 1 .. n : E[i] \in Attempts
  BY AttemptsAre
<1>2. \A e \in Attempts : PriceOf(m, e) \in Nat /\ TokensOf(e) \in Nat
  <2> SUFFICES ASSUME NEW e \in Attempts PROVE PriceOf(m, e) \in Nat /\ TokensOf(e) \in Nat
    OBVIOUS
  <2>1. e.uncached \in Nat /\ e.read \in Nat /\ e.write \in Nat /\ e.output \in Nat
    BY DEF Attempts
  <2>2. \A a, b \in Nat : a * b \in Nat
    OBVIOUS
  <2>3. CASE ModelOf(m, e) \in DOMAIN Prices
    <3> DEFINE p == Prices[ModelOf(m, e)]
    <3>1. p.input \in Nat /\ p.read \in Nat /\ p.write \in Nat /\ p.output \in Nat
      BY <2>3, PricesAssumption
    <3> HIDE DEF p
    <3>2. /\ e.uncached * p.input \in Nat /\ e.read * p.read \in Nat
          /\ e.write * p.write \in Nat /\ e.output * p.output \in Nat
      BY <2>1, <2>2, <3>1
    <3>3. e.uncached * p.input + e.read * p.read + e.write * p.write + e.output * p.output \in Nat
      BY <3>2
    <3>4. PriceOf(m, e) =
            e.uncached * p.input + e.read * p.read + e.write * p.write + e.output * p.output
      BY <2>3, Zenon DEF PriceOf, p
    <3> QED
      BY <2>1, <3>3, <3>4 DEF TokensOf
  <2>4. CASE ModelOf(m, e) \notin DOMAIN Prices
    BY <2>1, <2>4 DEF PriceOf, TokensOf
  <2> QED
    BY <2>3, <2>4
<1> HIDE DEF E, n
<1>3. prices \in Seq(Nat) /\ tokens \in Seq(Nat)
  BY <1>1, <1>2
<1>4. x \in Nat /\ t \in Nat
  BY <1>3, TotalIsNatural
<1>5. Billing(m) \in Bills
  BY BillingIs
<1>6. /\ Billing(m).exact = bill.exact + x /\ Billing(m).attempts = bill.attempts + n
      /\ Billing(m).tokens = bill.tokens + t /\ (bill.unknown => Billing(m).unknown)
  BY Zenon DEF Billing, x, t, prices, tokens, n, E
<1> HIDE DEF x, t, prices, tokens
<1>7. bill.exact \in Int /\ bill.attempts \in Int /\ bill.tokens \in Int
  BY DEF Bills
<1> QED
  BY <1>1, <1>4, <1>5, <1>6, <1>7

LEMMA HasLength ==
  ASSUME NEW s \in Seq(Calls)
  PROVE  Len(s) \in Int
OBVIOUS

\* What a bill that grows stays above.
LEMMA Chained ==
  ASSUME NEW a \in Int, NEW b \in Int, NEW c \in Int
  PROVE  /\ a <= b /\ c >= b => a <= c
         /\ b >= a /\ c > b => c >= a /\ c # a
OBVIOUS

LEMMA BillOutgrows ==
  ASSUME NEW u \in Nat, NEW cost \in Int, NEW x \in Int, NEW y \in Int, NEW k \in Int, NEW l \in Int,
         y >= x, l > k, 2 * (u * cost - x) <= u * k
  PROVE  2 * (u * cost - y) <= u * l
<1>1. u * (l - k) \in Nat /\ u * l = u * k + u * (l - k)
  <2>1. l - k \in Nat /\ l = k + (l - k)
    OBVIOUS
  <2>2. \A a, b \in Nat : a * b \in Nat
    OBVIOUS
  <2>3. u * (k + (l - k)) = u * k + u * (l - k)
    BY Spread
  <2> QED
    BY <2>1, <2>2, <2>3
<1> DEFINE a == u * cost
           b == u * k
           c == u * l
           d == u * (l - k)
<1>2. a \in Int /\ b \in Int /\ d \in Nat /\ c = b + d /\ 2 * (a - x) <= b
  BY <1>1
<1> HIDE DEF a, b, c, d
<1>3. 2 * (a - y) <= c
  BY <1>2
<1> QED
  BY <1>3 DEF a, c

\* A message that is no answer adds to the bill and not to the meter.
LEMMA UnansweredIsBilled ==
  ASSUME SuiteInv, NEW m \in Messages, UNCHANGED suite,
         run'.calls = run.calls, run'.meter = run.meter, run.error = "",
         run'.error \in {"refused", "output"},
         bill' = IF suite.source = "anthropic" THEN Billing(m) ELSE bill
  PROVE  bill' \in Bills /\ MeterAgrees' /\ Recording'
<1>1. bill \in Bills /\ run \in Runs /\ (suite.mode = "live" => suite.source = "anthropic")
  BY DEF SuiteInv, Typed, SuiteShaped, Bills
<1>2. CASE suite.source = "anthropic"
  <2>1. /\ bill' \in Bills /\ bill'.exact >= bill.exact /\ bill'.attempts > bill.attempts
        /\ bill'.tokens >= bill.tokens /\ (bill.unknown => bill'.unknown)
    BY <1>1, <1>2, BillGrows
  <2>2. /\ bill.exact \in Int /\ bill.attempts \in Int /\ bill.tokens \in Int
        /\ bill'.exact \in Int /\ bill'.attempts \in Int /\ bill'.tokens \in Int
        /\ run.meter.tokens \in Int /\ run.meter.cost \in Int /\ run.calls \in Seq(Calls)
    BY <1>1, <2>1 DEF Bills, Runs, Meters
  <2>3. ASSUME suite.mode = "live" PROVE MeterAgrees'
    <3>1. /\ run.meter.tokens <= bill.tokens /\ (run.meter.unpriced > 0 => bill.unknown)
          /\ 2 * (Unit * run.meter.cost - bill.exact) <= Unit * bill.attempts
      BY <2>3, Zenon DEF SuiteInv, MeterAgrees
    <3>2. run'.meter.tokens <= bill'.tokens
      <4>1. run.meter.tokens <= bill'.tokens
        BY <2>1, <2>2, <3>1, Chained, Zenon
      <4> QED
        BY <4>1, Zenon
    <3>3. run'.meter.unpriced > 0 => bill'.unknown
      BY <2>1, <3>1, Zenon
    <3>4. 2 * (Unit * run'.meter.cost - bill'.exact) <= Unit * bill'.attempts
      <4>1. Unit \in Nat
        BY PricesAssumption
      <4>2. 2 * (Unit * run.meter.cost - bill'.exact) <= Unit * bill'.attempts
        BY <2>1, <2>2, <3>1, <4>1, BillOutgrows, Zenon
      <4> QED
        BY <4>2, Zenon
    <3>5. run'.error \in {"refused", "output"}
      OBVIOUS
    <3> QED
      BY <3>2, <3>3, <3>4, <3>5, Zenon DEF MeterAgrees
  <2>4. ASSUME suite.mode # "live" PROVE MeterAgrees'
    BY <2>4 DEF MeterAgrees
  <2>5. Recording'
    <3>1. Len(run.calls) \in Int
      BY <2>2, HasLength, Zenon
    <3>2. ASSUME suite.mode = "record"
          PROVE  bill'.attempts >= Len(run.calls) /\ bill'.attempts # Len(run.calls)
      <4>1. bill.attempts >= Len(run.calls)
        BY <1>2, <3>2, Zenon DEF SuiteInv, Recording
      <4> QED
        BY <2>1, <2>2, <3>1, <4>1, Chained, Zenon
    <3> QED
      BY <3>2, Zenon DEF Recording
  <2> QED
    BY <2>1, <2>3, <2>4, <2>5
<1>3. CASE suite.source # "anthropic"
  <2>1. suite.mode # "live" /\ bill' = bill
    BY <1>1, <1>3
  <2> QED
    BY <1>1, <1>3, <2>1 DEF MeterAgrees, Recording
<1> QED
  BY <1>2, <1>3

LEMMA CallFailsKeeps ==
  ASSUME SuiteInv, suite.left # {}, CallFails
  PROVE  SuiteInv'
<1>1. /\ run.at \in Places /\ Troubled(1)
      /\ UNCHANGED <<prompts, sandbox, disk, suite, results, verdict, bill, taken>>
  BY DEF CallFails
<1>2. PICK e \in ApiErrors : run' = [run EXCEPT !.error = ErrorOf(e)]
  BY DEF CallFails
<1>3. ErrorOf(e) \in {"configuration", "transient"}
  BY DEF ErrorOf, StatusError
<1>4. run \in Runs
  BY DEF SuiteInv, Typed
<1> DEFINE error == ErrorOf(e)
<1> HIDE DEF error
<1>5. /\ run' \in Runs /\ SameProject(run', run) /\ run'.calls = run.calls
      /\ run'.meter = run.meter /\ run'.error # ""
  <2>1. run' = [run EXCEPT !.error = error] /\ error \in {"configuration", "transient"}
    BY <1>2, <1>3 DEF error
  <2> QED
    BY <1>4, <2>1 DEF Runs, Errors, SameProject
<1>6. run.at # "finished"
  BY <1>1 DEF Places
<1>7. /\ bounds' \in [suites : Nat, changes : 0 .. MaxChanges, troubles : Nat]
      /\ bounds'.changes = bounds.changes
  BY <1>1, BoundsGrow DEF SuiteInv
<1>8. bill' \in Bills
  BY <1>1 DEF SuiteInv, Typed, Bills
<1>9. Recording'
  BY <1>1, <1>5 DEF SuiteInv, Recording
<1>10. MeterAgrees'
  <2>1. run.error = ""
    BY DEF CallFails
  <2> QED
    BY <1>1, <1>5, <2>1, Zenon DEF SuiteInv, MeterAgrees
<1> QED
  BY <1>1, <1>5, <1>6, <1>7, <1>8, <1>9, <1>10, FailureKeeps

LEMMA OutcomeIs ==
  ASSUME NEW m \in Messages
  PROVE  Outcome(m) \in {"refused", "output", "answered"}
BY DEF Outcome

\* What a live provider answers is an answer for the place, of a model and with a usage.
LEMMA AnswersFit ==
  ASSUME run.at \in Places, NEW source
  PROVE  Answers(source) \subseteq AnswersAt(run.at)
<1>1. OfflineReview \in {"high", "low"}
  BY DEF OfflineReview
<1> QED
  BY <1>1 DEF Answers, AnswersAt

\* A metered answer adds to the meter what it adds to the bill, but for the rounding.
LEMMA MeterKeepsAgreeing ==
  ASSUME run \in Runs, bill \in Bills, NEW m \in Messages,
         run.meter.tokens = bill.tokens,
         (run.meter.unpriced > 0) = bill.unknown,
         2 * (Unit * run.meter.cost - bill.exact) <= Unit * bill.attempts,
         2 * (bill.exact - Unit * run.meter.cost) <= Unit * bill.attempts,
         run'.meter = MeterAdd(run.meter, Response(m), TRUE), bill' = Billing(m)
  PROVE  MeterAgrees' /\ run'.meter \in Meters /\ bill' \in Bills
<1> DEFINE P == Price(Response(m))
           M == MeterAdd(run.meter, Response(m), TRUE)
           B == Billing(m)
<1>1. PICK n \in Nat \ {0}, x \in Int, unknown \in BOOLEAN :
        /\ B \in Bills
        /\ B.attempts = bill.attempts + n
        /\ B.exact = bill.exact + x
        /\ B.tokens = bill.tokens + (Usage(m).input + Usage(m).output)
        /\ B.unknown = (bill.unknown \/ unknown)
        /\ P.cost \in Int
        /\ 2 * (Unit * P.cost - x) <= Unit * n
        /\ 2 * (x - Unit * P.cost) <= Unit * n
        /\ P.unpriced = IF unknown THEN 1 ELSE 0
        /\ Usage(m) \in Usages
  BY BillingIs
<1>2. M = [calls |-> run.meter.calls + 1,
           tokens |-> run.meter.tokens + Usage(m).input + Usage(m).output,
           cost |-> run.meter.cost + P.cost, unpriced |-> run.meter.unpriced + P.unpriced]
  BY DEF MeterAdd, Response
<1>3. /\ run.meter.calls \in Int /\ run.meter.tokens \in Int /\ run.meter.cost \in Int
      /\ run.meter.unpriced \in Nat
  BY DEF Runs, Meters
<1>4. Usage(m).input \in Int /\ Usage(m).output \in Int
  BY <1>1 DEF Usages
<1>5. bill.attempts \in Int /\ bill.exact \in Int /\ Unit \in Int
  BY LimitsAre DEF Bills
<1>6. P.unpriced \in {0, 1} /\ (P.unpriced > 0 <=> unknown)
  BY <1>1
<1> HIDE DEF P, M, B
<1>7. M.tokens = run.meter.tokens + Usage(m).input + Usage(m).output
      /\ M.cost = run.meter.cost + P.cost /\ M.unpriced = run.meter.unpriced + P.unpriced
  BY <1>2
<1>8. M \in Meters
  BY <1>1, <1>2, <1>3, <1>4, <1>6 DEF Meters
<1>9. M.tokens = B.tokens
  BY <1>1, <1>3, <1>4, <1>7
<1>10. (M.unpriced > 0) = B.unknown
  <2>1. M.unpriced > 0 <=> run.meter.unpriced > 0 \/ P.unpriced > 0
    BY <1>3, <1>6, <1>7
  <2>2. M.unpriced > 0 <=> bill.unknown \/ unknown
    BY <1>6, <2>1, Zenon
  <2>3. B.unknown = (bill.unknown \/ unknown)
    BY <1>1, Zenon
  <2>4. CASE M.unpriced > 0
    <3>1. (M.unpriced > 0) = TRUE /\ (bill.unknown \/ unknown) = TRUE
      BY <2>2, <2>4, Zenon
    <3> QED
      BY <2>3, <3>1, Zenon
  <2>5. CASE ~(M.unpriced > 0)
    <3>1. (M.unpriced > 0) = FALSE /\ (bill.unknown \/ unknown) = FALSE
      BY <2>2, <2>5
    <3> QED
      BY <2>3, <3>1, Zenon
  <2> QED
    BY <2>4, <2>5, Zenon
<1>11. /\ 2 * (Unit * M.cost - B.exact) <= Unit * B.attempts
       /\ 2 * (B.exact - Unit * M.cost) <= Unit * B.attempts
  <2>1. /\ Unit * (run.meter.cost + P.cost) = Unit * run.meter.cost + Unit * P.cost
        /\ Unit * (bill.attempts + n) = Unit * bill.attempts + Unit * n
    BY <1>1, <1>3, <1>5, Spread
  <2>2. /\ Unit * run.meter.cost \in Int /\ Unit * P.cost \in Int
        /\ Unit * bill.attempts \in Int /\ Unit * n \in Int
    BY <1>1, <1>3, <1>5
  <2> DEFINE a == Unit * run.meter.cost
             b == Unit * P.cost
             c == Unit * bill.attempts
             d == Unit * n
  <2>3. /\ 2 * (a - bill.exact) <= c /\ 2 * (bill.exact - a) <= c
        /\ 2 * (b - x) <= d /\ 2 * (x - b) <= d
    BY <1>1, Zenon
  <2>4. Unit * M.cost = a + b /\ Unit * B.attempts = c + d /\ B.exact = bill.exact + x
    BY <1>1, <1>7, <2>1, Zenon
  <2> HIDE DEF a, b, c, d
  <2>5. a \in Int /\ b \in Int /\ c \in Int /\ d \in Int
    BY <2>2 DEF a, b, c, d
  <2>6. /\ 2 * ((a + b) - (bill.exact + x)) <= c + d
        /\ 2 * ((bill.exact + x) - (a + b)) <= c + d
    BY <1>5, <2>3, <2>5
  <2> QED
    BY <2>4, <2>6, Zenon
<1>12. run'.meter = M /\ bill' = B
  BY DEF M, B
<1>13. MeterAgrees'
  <2>1. M.tokens <= B.tokens
    BY <1>1, <1>8, <1>9 DEF Meters, Bills
  <2>2. M.unpriced > 0 => B.unknown
    BY <1>10, Zenon
  <2> QED
    BY <1>9, <1>10, <1>11, <1>12, <2>1, <2>2, Zenon DEF MeterAgrees
<1> QED
  BY <1>1, <1>8, <1>12, <1>13, Zenon

\* Where each call was billed once, the bill of a recorded run is the price of its calls.
LEMMA RecordingGoesOn ==
  ASSUME SuiteInv, NEW m \in Messages, NEW c \in Calls, c.model = m.model, c.usage = Usage(m),
         suite.mode = "record", suite.source = "anthropic",
         run'.calls = Append(run.calls, c), bill' = Billing(m)
  PROVE  /\ bill' \in Bills /\ bill'.attempts >= Len(run'.calls)
         /\ bill'.attempts = Len(run'.calls) => bill'.cost = CallsCost(run'.calls)
<1>1. bill \in Bills /\ run \in Runs
  BY DEF SuiteInv, Typed, Bills
<1>2. PICK n \in Nat \ {0} :
        /\ Billing(m) \in Bills
        /\ Billing(m).attempts = bill.attempts + n
        /\ Billing(m).cost = bill.cost + Price(Response(m)).cost
        /\ n = 1 => Price(Response(m)).cost = Cost(m.model, Usage(m))
  BY <1>1, BillingIs
<1>3. /\ run.calls \in Seq(Calls) /\ Len(run.calls) \in Nat
      /\ Len(Append(run.calls, c)) = Len(run.calls) + 1
      /\ CallsCost(Append(run.calls, c)) = CallsCost(run.calls) + CostOf(c)
  <2>1. run.calls \in Seq(Calls)
    BY <1>1, RunIs, Zenon
  <2> QED
    BY <2>1, AppendedCall, CallsCostIs, Zenon
<1>4. /\ bill.attempts >= Len(run.calls)
      /\ bill.attempts = Len(run.calls) => bill.cost = CallsCost(run.calls)
  BY DEF SuiteInv, Recording
<1>5. bill.attempts \in Int
  BY <1>1 DEF Bills
<1>6. bill'.attempts >= Len(run'.calls)
  <2>1. Len(run'.calls) = Len(run.calls) + 1 /\ bill'.attempts = bill.attempts + n
    BY <1>2, <1>3, Zenon
  <2> HIDE <1>3
  <2>2. Len(run.calls) \in Nat
    BY <1>3, Zenon
  <2> QED
    BY <1>4, <1>5, <2>1, <2>2
<1>7. ASSUME bill'.attempts = Len(run'.calls) PROVE bill'.cost = CallsCost(run'.calls)
  <2>1. Len(run'.calls) = Len(run.calls) + 1 /\ bill'.attempts = bill.attempts + n
    BY <1>2, <1>3, Zenon
  <2>2. Len(run.calls) \in Nat
    BY <1>3, Zenon
  <2>3. n = 1 /\ bill.attempts = Len(run.calls)
    BY <1>4, <1>5, <1>7, <2>1, <2>2
  <2>4. CostOf(c) = Cost(m.model, Usage(m))
    BY DEF CostOf
  <2> QED
    BY <1>2, <1>3, <1>4, <2>3, <2>4, Zenon
<1> QED
  BY <1>2, <1>6, <1>7, Zenon

LEMMA LiveCallKeeps ==
  ASSUME SuiteInv, suite.left # {}, LiveCall
  PROVE  SuiteInv'
<1>1. /\ suite.mode \in {"record", "live"} /\ run.at \in Places /\ run.error = ""
      /\ UNCHANGED <<prompts, sandbox, disk, suite, results, verdict, taken>>
      /\ run.at # "finished"
  BY DEF LiveCall, Places
<1>2. /\ run \in Runs /\ Shaped(run) /\ Typed /\ bill \in Bills
      /\ suite.mode = "live" => suite.source = "anthropic"
  BY DEF SuiteInv, Typed, RunShaped, SuiteShaped, Bills
<1>3. PICK m \in (IF suite.source = "anthropic" THEN Messages ELSE {Plain}) :
        /\ IF Outcome(m) # "answered"
           THEN Troubled(1) /\ run' = [run EXCEPT !.error = Outcome(m)]
           ELSE \E answer \in Answers(suite.source) :
                  /\ Troubled((IF m = Plain THEN 0 ELSE 1)
                                + (IF answer \in {"text", "good", "high"} THEN 0 ELSE 1))
                  /\ run' = [Answered(answer) EXCEPT
                               !.calls = IF suite.mode = "record"
                                         THEN Append(@, Call(m.model, IF suite.source = "anthropic"
                                                                      THEN Usage(m) ELSE NoTokens,
                                                             answer))
                                         ELSE @,
                               !.meter = IF suite.mode = "live" THEN MeterAdd(@, Response(m), TRUE)
                                         ELSE @]
        /\ bill' = IF suite.source = "anthropic" THEN Billing(m) ELSE bill
  BY Zenon DEF LiveCall
<1>7. bill' = IF suite.source = "anthropic" THEN Billing(m) ELSE bill
  BY <1>3, Zenon
<1>4. m \in Messages
  BY <1>3, EvalAssumption
<1>5. CASE Outcome(m) # "answered"
  <2>1. Troubled(1) /\ run' = [run EXCEPT !.error = Outcome(m)]
    BY <1>3, <1>5, Zenon
  <2>2. Outcome(m) \in {"refused", "output"}
    BY <1>4, <1>5, OutcomeIs
  <2> DEFINE error == Outcome(m)
  <2> HIDE DEF error
  <2>3. /\ run' \in Runs /\ SameProject(run', run) /\ run'.calls = run.calls
        /\ run'.meter = run.meter /\ run'.error # ""
    <3>1. run' = [run EXCEPT !.error = error] /\ error \in {"refused", "output"}
      BY <2>1, <2>2 DEF error
    <3> QED
      BY <1>2, <3>1 DEF Runs, Errors, SameProject
  <2>4. /\ bounds' \in [suites : Nat, changes : 0 .. MaxChanges, troubles : Nat]
        /\ bounds'.changes = bounds.changes
    BY <1>2, <2>1, BoundsGrow
  <2>5. suite' = suite /\ run'.error \in {"refused", "output"}
    <3>1. run' = [run EXCEPT !.error = error] /\ error \in {"refused", "output"}
      BY <2>1, <2>2 DEF error
    <3> QED
      BY <1>1, <1>2, <3>1 DEF Runs
  <2>6. bill' \in Bills /\ MeterAgrees' /\ Recording'
    BY <1>1, <1>4, <1>7, <2>3, <2>5, UnansweredIsBilled
  <2> QED
    BY <1>1, <2>3, <2>4, <2>6, FailureKeeps
<1>6. CASE Outcome(m) = "answered"
  <2> DEFINE usage == IF suite.source = "anthropic" THEN Usage(m) ELSE NoTokens
             calls(c) == IF suite.mode = "live" THEN run.calls ELSE Append(run.calls, c)
             meter == IF suite.mode = "live" THEN MeterAdd(run.meter, Response(m), TRUE)
                      ELSE run.meter
  <2>1. PICK a \in Answers(suite.source) :
          /\ Troubled((IF m = Plain THEN 0 ELSE 1)
                        + (IF a \in {"text", "good", "high"} THEN 0 ELSE 1))
          /\ run' = [Answered(a) EXCEPT
                       !.calls = IF suite.mode = "record" THEN Append(@, Call(m.model, usage, a)) ELSE @,
                       !.meter = IF suite.mode = "live" THEN MeterAdd(@, Response(m), TRUE) ELSE @]
    BY <1>3, <1>6, Zenon
  <2>2. a \in AnswersAt(run.at)
    BY <1>1, AnswersFit, Zenon
  <2>3. usage \in Usages /\ m.model \in Models
    <3>1. Usage(m) \in Usages
      BY <1>2, <1>4, BillingIs
    <3>2. NoTokens \in Usages
      BY DEF NoTokens, Usages
    <3> QED
      BY <1>4, <3>1, <3>2 DEF Models
  <2> DEFINE c == Call(m.model, usage, a)
  <2>4. /\ c \in Calls /\ (c.agent = "reviewer" <=> run.at = "reviewer")
        /\ c.model = m.model /\ c.usage = usage
        /\ run.at = "reviewer" =>
             MetricsOf(c) = [completed |-> 1, validation_passed |-> Metric(run.valid),
                             tests_passed |-> Metric(LastTest), review_score |-> Metric(a)]
    <3>1. \A x \in Models, u \in Usages, b \in AnswersAt(run.at) :
            LET call == Call(x, u, b) IN
            /\ call \in Calls /\ (call.agent = "reviewer" <=> run.at = "reviewer")
            /\ call.model = x /\ call.usage = u
            /\ run.at = "reviewer" =>
                 MetricsOf(call) = [completed |-> 1, validation_passed |-> Metric(run.valid),
                                    tests_passed |-> Metric(LastTest), review_score |-> Metric(b)]
      <4>1. Typed /\ Shaped(run) /\ run.at \in Places
        BY <1>1, <1>2
      <4> QED
        BY <4>1, CallIs
    <3> HIDE DEF usage
    <3> QED
      BY <2>2, <2>3, <3>1
  <2>5. /\ Answered(a) \in Runs /\ Answered(a).calls = run.calls /\ Answered(a).next = run.next
        /\ Answered(a).error = run.error /\ Answered(a).meter = run.meter
    BY <1>1, <1>2, <2>2, AnsweredIs
  <2>6. /\ bounds' \in [suites : Nat, changes : 0 .. MaxChanges, troubles : Nat]
        /\ bounds'.changes = bounds.changes
    <3>1. (IF m = Plain THEN 0 ELSE 1) + (IF a \in {"text", "good", "high"} THEN 0 ELSE 1) \in Nat
      OBVIOUS
    <3> QED
      BY <1>2, <2>1, <3>1, BoundsGrow
  <2>7. run' = [Answered(a) EXCEPT !.calls = calls(c), !.meter = meter]
    BY <1>1, <2>1, <2>5
  <2> HIDE DEF usage, c, meter
  <2>8. calls(c) \in Seq(Calls)
    BY <1>2, <2>4, RunIs, AppendedCall, Zenon
  <2>9. run'.calls = calls(c) /\ run'.meter = meter
    BY <2>5, <2>7 DEF Runs
  <2>10. suite' = suite
    BY <1>1
  <2>11. ASSUME suite.mode = "live"
         PROVE  run'.meter \in Meters /\ bill' \in Bills /\ MeterAgrees' /\ Recording'
    <3>1. /\ run'.meter = MeterAdd(run.meter, Response(m), TRUE) /\ bill' = Billing(m)
      BY <1>2, <1>7, <2>9, <2>11 DEF meter
    <3>2. /\ run.meter.tokens = bill.tokens
          /\ (run.meter.unpriced > 0) = bill.unknown
          /\ 2 * (Unit * run.meter.cost - bill.exact) <= Unit * bill.attempts
          /\ 2 * (bill.exact - Unit * run.meter.cost) <= Unit * bill.attempts
      BY <1>1, <2>11, Zenon DEF SuiteInv, MeterAgrees
    <3>3. MeterAgrees' /\ run'.meter \in Meters /\ bill' \in Bills
      BY <1>2, <1>4, <3>1, <3>2, MeterKeepsAgreeing
    <3>4. Recording'
      BY <2>10, <2>11 DEF Recording
    <3> QED
      BY <3>3, <3>4
  <2>12. ASSUME suite.mode = "record"
         PROVE  run'.meter \in Meters /\ bill' \in Bills /\ MeterAgrees' /\ Recording'
    <3>1. meter = run.meter /\ run.meter \in Meters
      BY <1>2, <2>12 DEF meter, Runs
    <3>2. MeterAgrees'
      BY <2>10, <2>12 DEF MeterAgrees
    <3>3. CASE suite.source = "anthropic"
      <4>1. bill' = Billing(m) /\ c.usage = Usage(m) /\ run'.calls = Append(run.calls, c)
        BY <1>7, <2>4, <2>9, <2>12, <3>3 DEF usage
      <4>2. /\ bill' \in Bills /\ bill'.attempts >= Len(run'.calls)
            /\ bill'.attempts = Len(run'.calls) => bill'.cost = CallsCost(run'.calls)
        BY <1>4, <2>4, <2>12, <3>3, <4>1, RecordingGoesOn
      <4> QED
        BY <2>9, <3>1, <3>2, <4>2, Zenon DEF Recording
    <3>4. CASE suite.source # "anthropic"
      <4>1. bill' = bill /\ Recording'
        BY <1>7, <2>10, <3>4 DEF Recording
      <4> QED
        BY <1>2, <2>9, <3>1, <3>2, <4>1
    <3> QED
      BY <3>3, <3>4
  <2>13. /\ run'.meter \in Meters /\ bill' \in Bills /\ MeterAgrees' /\ Recording'
    BY <1>1, <2>11, <2>12
  <2>14. /\ run' \in Runs /\ SameProject(run', Answered(a)) /\ run'.error = ""
    <3>1. meter \in Meters
      BY <2>9, <2>13
    <3> DEFINE r == Answered(a)
               cs == calls(c)
    <3> HIDE DEF r, cs
    <3>2. r \in Runs /\ cs \in Seq(Calls) /\ run' = [r EXCEPT !.calls = cs, !.meter = meter]
          /\ r.error = ""
      BY <1>1, <2>5, <2>7, <2>8 DEF r, cs
    <3>3. run' \in Runs /\ SameProject(run', r) /\ run'.error = ""
      BY <3>1, <3>2 DEF Runs, SameProject
    <3> QED
      BY <3>3 DEF r
  <2>15. RunShaped'
    BY <1>1, <2>2, <2>4, <2>9, <2>10, <2>14, AnswerKeepsShape
  <2>16. Replaying'
    BY <1>1, <2>10 DEF Replaying
  <2> QED
    BY <1>1, <2>6, <2>13, <2>14, <2>15, <2>16, RunStepKeeps
<1> QED
  BY <1>5, <1>6

\* A recorded call is priced as it was when each call was billed once.
LEMMA ReplayPrice ==
  ASSUME NEW c \in Calls
  PROVE  LET price == Price([model |-> c.model, usage |-> c.usage, billed |-> <<>>]) IN
         price.cost = CostOf(c) /\ price.unpriced \in Nat /\ CostOf(c) \in Int
<1> DEFINE entry == [model |-> c.model, usage |-> c.usage]
           entries == <<entry>>
           price == Price([model |-> c.model, usage |-> c.usage, billed |-> <<>>])
<1>1. CostOf(c) \in Int
  BY CostIs DEF CostOf, Calls
<1>2. entry.model = c.model /\ entry.usage = c.usage
  OBVIOUS
<1>3. price = [cost     |-> Total([i \in DOMAIN entries |-> Cost(entries[i].model, entries[i].usage)]),
               unpriced |-> IF \E i \in DOMAIN entries : entries[i].model \notin DOMAIN Prices
                            THEN 1 ELSE 0]
  BY DEF Price
<1>4. DOMAIN entries = 1 .. 1 /\ entries[1] = entry
  OBVIOUS
<1> HIDE DEF entry, entries, price
<1>5. [i \in DOMAIN entries |-> Cost(entries[i].model, entries[i].usage)] = <<CostOf(c)>>
  <2> DEFINE s == [i \in DOMAIN entries |-> Cost(entries[i].model, entries[i].usage)]
  <2>1. s = [i \in 1 .. 1 |-> CostOf(c)]
    <3>1. \A i \in 1 .. 1 : Cost(entries[i].model, entries[i].usage) = CostOf(c)
      BY <1>2, <1>4 DEF CostOf
    <3> QED
      BY <1>4, <3>1
  <2>2. [i \in 1 .. 1 |-> CostOf(c)] = <<CostOf(c)>>
    OBVIOUS
  <2> QED
    BY <2>1, <2>2
<1>6. price.cost = CostOf(c)
  BY <1>1, <1>3, <1>5, TotalOfOne
<1>7. price.unpriced \in Nat
  BY <1>3
<1> QED
  BY <1>1, <1>6, <1>7 DEF price

LEMMA NextOfSequence ==
  ASSUME NEW S, NEW s \in Seq(S), NEW n \in Nat, n < Len(s)
  PROVE  Append(SubSeq(s, 1, n), s[n + 1]) = SubSeq(s, 1, n + 1)
OBVIOUS

\* A recorded call that is for this question is the one this run makes.
LEMMA MatchingCall ==
  ASSUME run.at \in Places, NEW call \in Calls, Matches(call)
  PROVE  Call(call.model, call.usage, call.answer) = call /\ call.answer \in AnswersAt(run.at)
<1>1. call.agent = AgentOf(run.at) /\ call.asked = Fingerprint
  BY DEF Matches
<1>2. call = [agent |-> call.agent, asked |-> call.asked, model |-> call.model, usage |-> call.usage,
              answer |-> call.answer]
  BY DEF Calls
<1>3. Call(call.model, call.usage, call.answer) =
        [agent |-> call.agent, asked |-> call.asked, model |-> call.model, usage |-> call.usage,
         answer |-> call.answer]
  BY <1>1 DEF Call
<1>4. Fingerprint.prompt[1] = run.at
  BY DEF Fingerprint
<1>5. call.answer \in AnswersAt(call.asked.prompt[1])
  BY DEF Calls
<1> QED
  BY <1>1, <1>2, <1>3, <1>4, <1>5

LEMMA ReplayCallKeeps ==
  ASSUME SuiteInv, suite.left # {}, ReplayCall
  PROVE  SuiteInv'
<1> DEFINE recorded == disk[Fixture]
           call == recorded.calls[run.next]
           response == [model |-> call.model, usage |-> call.usage, billed |-> <<>>]
<1>1. /\ suite.mode = "replay" /\ run.at \in Places /\ run.error = "" /\ run.at # "finished"
      /\ UNCHANGED <<prompts, sandbox, disk, suite, results, verdict, bill, taken, bounds>>
  BY DEF ReplayCall, Places
<1>2. /\ Typed /\ run \in Runs /\ Shaped(run) /\ bill \in Bills /\ bill' \in Bills
  BY <1>1 DEF SuiteInv, Typed, RunShaped, Bills
<1>3. /\ bounds' \in [suites : Nat, changes : 0 .. MaxChanges, troubles : Nat]
      /\ bounds'.changes = bounds.changes
  BY <1>1, <1>2 DEF Typed
<1>4. run.next \in Nat \ {0}
  BY <1>2, RunIs
<1>5. recorded.calls \in Seq(Calls)
  <2>1. Fixture \in AllFixtures
    BY FixtureIs DEF SuiteInv
  <2> QED
    BY <1>2, <2>1 DEF Typed
<1>6. /\ run.next - 1 <= Len(recorded.calls)
      /\ run.calls = SubSeq(recorded.calls, 1, run.next - 1)
      /\ recorded.source = "anthropic" => run.meter.cost = CallsCost(run.calls)
  BY <1>1 DEF SuiteInv, Replaying
<1>7. IF run.next > Len(recorded.calls) THEN run' = [run EXCEPT !.error = "mismatch"]
      ELSE IF ~Matches(call)
           THEN run' = [run EXCEPT !.next = @ + 1, !.error = "mismatch"]
           ELSE run' = [Answered(call.answer) EXCEPT
                          !.next = @ + 1,
                          !.calls = Append(@, Call(call.model, call.usage, call.answer)),
                          !.meter = MeterAdd(@, response, recorded.source # "offline-provider")]
  BY Zenon DEF ReplayCall
<1> HIDE DEF recorded, call, response
<1>8. CASE run.next > Len(recorded.calls)
  <2>1. run' = [run EXCEPT !.error = "mismatch"]
    BY <1>7, <1>8, Zenon
  <2>2. /\ run' \in Runs /\ SameProject(run', run) /\ run'.calls = run.calls
        /\ run'.meter = run.meter /\ run'.error # ""
    BY <1>2, <2>1 DEF Runs, Errors, SameProject
  <2>9. bill' \in Bills /\ MeterAgrees' /\ Recording'
    BY <1>1 DEF SuiteInv, Typed, Bills, MeterAgrees, Recording
  <2> QED
    BY <1>1, <1>3, <2>2, <2>9, FailureKeeps
<1>9. CASE ~(run.next > Len(recorded.calls)) /\ ~Matches(call)
  <2>1. run' = [run EXCEPT !.next = @ + 1, !.error = "mismatch"]
    BY <1>7, <1>9, Zenon
  <2>2. run.next + 1 \in Nat \ {0}
    BY <1>4
  <2>3. /\ run' \in Runs /\ SameProject(run', run) /\ run'.calls = run.calls
        /\ run'.meter = run.meter /\ run'.error # ""
    BY <1>2, <2>1, <2>2 DEF Runs, Errors, SameProject
  <2>9. bill' \in Bills /\ MeterAgrees' /\ Recording'
    BY <1>1 DEF SuiteInv, Typed, Bills, MeterAgrees, Recording
  <2> QED
    BY <1>1, <1>3, <2>3, <2>9, FailureKeeps
<1>10. CASE ~(run.next > Len(recorded.calls)) /\ Matches(call)
  <2> DEFINE r == Answered(call.answer)
             metered == recorded.source # "offline-provider"
             meter == MeterAdd(run.meter, response, metered)
             calls == Append(run.calls, call)
             next == run.next + 1
  <2>1. run.next \in 1 .. Len(recorded.calls) /\ Len(recorded.calls) \in Nat
    BY <1>4, <1>5, <1>10
  <2>2. call \in Calls
    BY <1>5, <2>1, SeqIs, Zenon DEF call
  <2>3. Call(call.model, call.usage, call.answer) = call /\ call.answer \in AnswersAt(run.at)
    BY <1>1, <1>10, <2>2, MatchingCall, Zenon
  <2>4. /\ r \in Runs /\ r.calls = run.calls /\ r.next = run.next
        /\ r.error = run.error /\ r.meter = run.meter
    BY <1>1, <1>2, <2>3, AnsweredIs
  <2>5. run' = [r EXCEPT !.next = next, !.calls = calls, !.meter = meter]
    BY <1>7, <1>10, <2>3, <2>4
  <2>6. /\ call.model \in Models /\ call.usage \in Usages
    BY <2>2 DEF Calls
  <2>7. /\ call.agent = "reviewer" <=> run.at = "reviewer"
        /\ run.at = "reviewer" =>
             MetricsOf(call) = [completed |-> 1, validation_passed |-> Metric(run.valid),
                                tests_passed |-> Metric(LastTest), review_score |-> Metric(call.answer)]
    <3>1. \A x \in Models, u \in Usages, b \in AnswersAt(run.at) :
            LET c == Call(x, u, b) IN
            /\ c.agent = "reviewer" <=> run.at = "reviewer"
            /\ run.at = "reviewer" =>
                 MetricsOf(c) = [completed |-> 1, validation_passed |-> Metric(run.valid),
                                 tests_passed |-> Metric(LastTest), review_score |-> Metric(b)]
      <4>1. Typed /\ Shaped(run) /\ run.at \in Places
        BY <1>1, <1>2
      <4> QED
        BY <4>1, CallIs
    <3> HIDE DEF r, metered, meter, calls, next
    <3> QED
      BY <2>3, <2>6, <3>1
  <2>8. /\ calls \in Seq(Calls) /\ next \in Nat \ {0}
        /\ CallsCost(calls) = CallsCost(run.calls) + CostOf(call)
    <3>1. run.calls \in Seq(Calls)
      BY <1>2, RunIs, Zenon
    <3>2. calls \in Seq(Calls) /\ CallsCost(calls) = CallsCost(run.calls) + CostOf(call)
      BY <2>2, <3>1, AppendedCall, CallsCostIs, Zenon
    <3> QED
      BY <1>4, <3>2
  <2>9. meter \in Meters /\ (metered => meter.cost = run.meter.cost + CostOf(call))
    <3>1. /\ Price(response).cost = CostOf(call) /\ Price(response).unpriced \in Nat
          /\ CostOf(call) \in Int
      BY <2>2, ReplayPrice DEF response
    <3>2. /\ response.usage = call.usage
          /\ call.usage.input \in Int /\ call.usage.output \in Int
      BY <2>6 DEF response, Usages
    <3>3. /\ run.meter.calls \in Int /\ run.meter.tokens \in Int /\ run.meter.cost \in Int
          /\ run.meter.unpriced \in Nat
      BY <1>2 DEF Runs, Meters
    <3> HIDE DEF metered
    <3> QED
      BY <3>1, <3>2, <3>3 DEF MeterAdd, Meters
  <2> HIDE DEF r, metered, meter, calls, next
  <2>10. /\ run' \in Runs /\ SameProject(run', r) /\ run'.error = ""
         /\ run'.calls = calls /\ run'.next = next /\ run'.meter = meter
    BY <1>1, <2>4, <2>5, <2>8, <2>9 DEF Runs, SameProject
  <2>11. RunShaped'
    <3>1. /\ run'.calls = IF suite.mode = "live" THEN run.calls ELSE Append(run.calls, call)
          /\ SameProject(run', Answered(call.answer)) /\ suite' = suite
      BY <1>1, <2>10 DEF calls, r
    <3> QED
      BY <1>1, <2>2, <2>3, <2>7, <2>10, <3>1, AnswerKeepsShape
  <2>12. Recording' /\ MeterAgrees'
    BY <1>1 DEF Recording, MeterAgrees
  <2>13. Replaying'
    <3>1. /\ disk'[Fixture'] = recorded
      BY <1>1 DEF recorded, Fixture
    <3>2. next - 1 <= Len(recorded.calls) /\ next - 1 = run.next /\ (run.next - 1) + 1 = run.next
          /\ run.next - 1 \in Nat /\ run.next - 1 < Len(recorded.calls)
      BY <1>4, <2>1 DEF next
    <3>3. calls = SubSeq(recorded.calls, 1, next - 1)
      <4>1. Append(SubSeq(recorded.calls, 1, run.next - 1), recorded.calls[(run.next - 1) + 1])
              = SubSeq(recorded.calls, 1, (run.next - 1) + 1)
        BY <1>5, <3>2, NextOfSequence, Zenon
      <4> QED
        BY <1>6, <3>2, <4>1, Zenon DEF calls, call
    <3>4. recorded.source = "anthropic" => meter.cost = CallsCost(calls)
      BY <1>6, <2>8, <2>9 DEF metered
    <3> QED
      BY <2>10, <3>1, <3>2, <3>3, <3>4, Zenon DEF Replaying
  <2> QED
    BY <1>1, <1>2, <1>3, <2>10, <2>11, <2>12, <2>13, RunStepKeeps
<1> QED
  BY <1>8, <1>9, <1>10

-----------------------------------------------------------------------------
(* What begins and ends a suite, and a fixture                             *)

\* The one source of all the recordings is that of each.
LEMMA SourceOfAllIs ==
  ASSUME Typed, NEW only \in SUBSET AllFixtures
  PROVE  /\ SourceOfAll(only) \in Sources \cup {"none", "mixed"}
         /\ SourceOfAll(only) \in Sources => \A f \in only : disk[f].source = SourceOfAll(only)
<1> DEFINE sources == {disk[f].source : f \in only}
<1>1. sources \subseteq {"offline-provider", "anthropic", "none"}
  BY DEF Typed, Sources
<1>2. IsFiniteSet({"offline-provider", "anthropic", "none"})
  <2>1. {"offline-provider", "anthropic", "none"} = ({"offline-provider"} \cup {"anthropic"}) \cup {"none"}
    OBVIOUS
  <2>2. /\ IsFiniteSet({"offline-provider"}) /\ IsFiniteSet({"anthropic"}) /\ IsFiniteSet({"none"})
    BY FS_Singleton, Zenon
  <2>3. IsFiniteSet(({"offline-provider"} \cup {"anthropic"}) \cup {"none"})
    BY <2>2, FS_Union, Zenon
  <2> QED
    BY <2>1, <2>3, Zenon
<1>3. IsFiniteSet(sources)
  BY <1>1, <1>2, FS_Subset
<1>4. SourceOfAll(only) = IF Cardinality(sources) = 1 THEN CHOOSE s \in sources : TRUE ELSE "mixed"
  BY DEF SourceOfAll
<1>5. \A f \in only : disk[f].source \in sources
  OBVIOUS
<1> HIDE DEF sources
<1>6. CASE Cardinality(sources) = 1
  <2>1. PICK x : sources = {x}
    BY <1>3, <1>6, FS_Singleton, Zenon
  <2>2. SourceOfAll(only) = x
    BY <1>4, <1>6, <2>1
  <2> QED
    BY <1>1, <1>5, <2>1, <2>2 DEF Sources
<1>7. CASE Cardinality(sources) # 1
  <2>1. SourceOfAll(only) = "mixed"
    BY <1>4, <1>7, Zenon
  <2> QED
    BY <2>1 DEF Sources
<1> QED
  BY <1>6, <1>7

LEMMA StartKeeps ==
  ASSUME SuiteInv, StartSuite
  PROVE  SuiteInv'
<1>1. PICK only \in Selections :
        \/ \E s \in Sources : Start("record", s, only)
        \/ Start("live", "anthropic", only)
        \/ Start("replay", SourceOfAll(only), only)
  BY Zenon DEF StartSuite
<1>2. only \in SUBSET AllFixtures /\ Typed
  BY EvalAssumption DEF AllFixtures, SuiteInv
<1>3. PICK mode \in {"record", "live", "replay"}, source \in Sources \cup {"none", "mixed"} :
        /\ Start(mode, source, only)
        /\ mode = "live" => source = "anthropic"
        /\ mode = "record" => source \in Sources
        /\ mode = "replay" => source = SourceOfAll(only)
  BY <1>1, <1>2, SourceOfAllIs DEF Sources
<1> DEFINE left == {i \in DOMAIN Fixtures : Fixtures[i] \in only}
<1>4. /\ suite = NoSuite
      /\ bounds' = [bounds EXCEPT !.suites = @ + 1]
      /\ suite' = [mode |-> mode, source |-> source, all |-> only, left |-> left]
      /\ run' = NewRun /\ bill' = NoBill
      /\ results' = [f \in AllFixtures |-> NoResult]
      /\ verdict' = "none"
      /\ UNCHANGED <<prompts, sandbox, disk, taken>>
  BY <1>3 DEF Start, AllFixtures
<1>5. left \in SUBSET DOMAIN Fixtures /\ \A i \in left : Fixtures[i] \in only
  OBVIOUS
<1> HIDE DEF left
<1>6. /\ suite'.mode = mode /\ suite'.source = source /\ suite'.all = only /\ suite'.left = left
      /\ suite' # NoSuite
  BY <1>4 DEF NoSuite
<1>7. /\ run' \in Runs /\ bill' \in Bills /\ RunShaped' /\ Recording' /\ MeterAgrees'
      /\ Typed' => Replaying'
  BY <1>4, NewRunIs
<1>8. Typed'
  <2>1. bounds' \in [suites : Nat, changes : 0 .. MaxChanges, troubles : Nat]
        /\ bounds'.changes = bounds.changes
    <3>1. bounds \in [suites : Nat, changes : 0 .. MaxChanges, troubles : Nat]
      BY <1>2 DEF Typed
    <3>2. bounds' = [bounds EXCEPT !.suites = @ + 1]
      BY <1>4
    <3> QED
      BY <3>1, <3>2
  <2>2. suite' \in [mode : {"idle", "record", "live", "replay"},
                    source : Sources \cup {"none", "mixed"},
                    all : SUBSET AllFixtures, left : SUBSET DOMAIN Fixtures]
    BY <1>2, <1>4, <1>5
  <2>3. DOMAIN results' = AllFixtures
    BY <1>4
  <2> QED
    BY <1>2, <1>4, <1>7, <2>1, <2>2, <2>3 DEF Typed, Bills
<1>9. SuiteShaped'
  BY <1>3, <1>4, <1>5, <1>6 DEF SuiteShaped
<1>10. DiskShaped'
  BY <1>4 DEF SuiteInv, DiskShaped
<1>11. \A f \in AllFixtures : results'[f] = NoResult
  BY <1>4
<1>12. NoResult.error # ""
  BY DEF NoResult
<1>13. ResultsShaped' /\ NoStaleAnswers' /\ ReplayRepeatsRecording'
  BY <1>11, <1>12, Zenon DEF ResultsShaped, NoStaleAnswers, ReplayRepeatsRecording, AllFixtures
<1>14. SourceSaid'
  <2> SUFFICES ASSUME mode = "replay", source \in Sources
               PROVE  \A f \in only : disk[f].source = source
    BY <1>4, <1>6 DEF SourceSaid
  <2> QED
    BY <1>2, <1>3, SourceOfAllIs
<1> QED
  BY <1>7, <1>8, <1>9, <1>10, <1>13, <1>14 DEF SuiteInv

\* A suite that goes on to its next fixture.
LEMMA NextFixtureIs ==
  ASSUME SuiteInv, suite.left # {}, NextFixture
  PROVE  /\ run' = NewRun /\ bill' = NoBill
         /\ suite'.mode = suite.mode /\ suite'.source = suite.source /\ suite'.all = suite.all
         /\ suite' # NoSuite /\ suite'.mode # "idle" /\ verdict = "none"
         /\ suite' \in [mode : {"idle", "record", "live", "replay"},
                        source : Sources \cup {"none", "mixed"},
                        all : SUBSET AllFixtures, left : SUBSET DOMAIN Fixtures]
         /\ suite'.left \subseteq suite.left
<1>1. /\ run' = NewRun /\ bill' = NoBill
      /\ suite' = [suite EXCEPT !.left = @ \ {Min(@)}]
  BY DEF NextFixture
<1>2. suite \in [mode : {"idle", "record", "live", "replay"}, source : Sources \cup {"none", "mixed"},
                 all : SUBSET AllFixtures, left : SUBSET DOMAIN Fixtures]
  BY DEF SuiteInv, Typed
<1> DEFINE rest == suite.left \ {Min(suite.left)}
<1>3. rest \in SUBSET DOMAIN Fixtures /\ rest \subseteq suite.left
  BY <1>2
<1> HIDE DEF rest
<1>4. suite' = [suite EXCEPT !.left = rest]
  BY <1>1 DEF rest
<1>5. /\ suite'.mode = suite.mode /\ suite'.source = suite.source /\ suite'.all = suite.all
      /\ suite'.left = rest
      /\ suite' \in [mode : {"idle", "record", "live", "replay"},
                     source : Sources \cup {"none", "mixed"},
                     all : SUBSET AllFixtures, left : SUBSET DOMAIN Fixtures]
  BY <1>2, <1>3, <1>4
<1>6. suite.mode # "idle" /\ verdict = "none"
  BY FixtureIs DEF SuiteInv
<1>7. suite' # NoSuite
  BY <1>5, <1>6 DEF NoSuite
<1> QED
  BY <1>1, <1>3, <1>5, <1>6, <1>7

\* Once the recordings and the results are seen to be as they should, so is the rest.
LEMMA NextFixtureKeeps ==
  ASSUME SuiteInv, suite.left # {}, NextFixture,
         UNCHANGED <<prompts, sandbox, verdict, bounds>>,
         disk' \in [AllFixtures -> [source : Sources \cup {"none"}, calls : Seq(Calls)]],
         DOMAIN results' = AllFixtures, DOMAIN taken' = AllFixtures,
         DiskShaped', ResultsShaped', NoStaleAnswers', ReplayRepeatsRecording', SourceSaid'
  PROVE  SuiteInv'
<1>1. /\ run' = NewRun /\ bill' = NoBill
      /\ suite'.mode = suite.mode /\ suite'.source = suite.source /\ suite'.all = suite.all
      /\ suite' # NoSuite /\ suite'.mode # "idle" /\ verdict = "none"
      /\ suite' \in [mode : {"idle", "record", "live", "replay"},
                     source : Sources \cup {"none", "mixed"},
                     all : SUBSET AllFixtures, left : SUBSET DOMAIN Fixtures]
      /\ suite'.left \subseteq suite.left
  BY NextFixtureIs
<1>2. /\ run' \in Runs /\ bill' \in Bills /\ RunShaped' /\ Recording' /\ MeterAgrees'
      /\ Typed' => Replaying'
  BY <1>1, NewRunIs
<1>3. Typed'
  BY <1>1, <1>2 DEF SuiteInv, Typed, Bills
<1>4. SuiteShaped'
  BY <1>1 DEF SuiteInv, SuiteShaped
<1> QED
  BY <1>2, <1>3, <1>4 DEF SuiteInv

\* A suite that stops leaves what it has written.
LEMMA SuiteStopKeeps ==
  ASSUME SuiteInv, suite' = NoSuite, run' = NewRun, bill' = NoBill,
         verdict' \in {"none", "passed", "failed", "aborted", "recorded"},
         UNCHANGED <<prompts, sandbox, disk, taken, results, bounds>>
  PROVE  SuiteInv'
<1>1. /\ run' \in Runs /\ bill' \in Bills /\ RunShaped' /\ Recording' /\ MeterAgrees'
      /\ Typed' => Replaying'
  BY NewRunIs
<1>2. /\ suite'.mode = "idle" /\ suite'.source = "none" /\ suite'.left = {} /\ suite'.all = {}
      /\ suite' \in [mode : {"idle", "record", "live", "replay"},
                     source : Sources \cup {"none", "mixed"},
                     all : SUBSET AllFixtures, left : SUBSET DOMAIN Fixtures]
  BY DEF NoSuite
<1>3. Typed'
  BY <1>1, <1>2 DEF SuiteInv, Typed, Bills
<1>4. SuiteShaped'
  BY <1>2 DEF SuiteShaped
<1>5. DiskShaped'
  BY DEF SuiteInv, DiskShaped
<1>6. ResultsShaped'
  BY DEF SuiteInv, ResultsShaped
<1>7. NoStaleAnswers' /\ ReplayRepeatsRecording' /\ SourceSaid'
  BY <1>2 DEF NoStaleAnswers, ReplayRepeatsRecording, SourceSaid
<1> QED
  BY <1>1, <1>3, <1>4, <1>5, <1>6, <1>7 DEF SuiteInv

LEMMA SuiteAbortsKeeps ==
  ASSUME SuiteInv, SuiteAborts
  PROVE  SuiteInv'
BY SuiteStopKeeps DEF SuiteAborts

LEMMA SuiteEndsKeeps ==
  ASSUME SuiteInv, SuiteEnds
  PROVE  SuiteInv'
<1>1. run' = NewRun /\ bill' = NoBill
  BY DEF SuiteInv, SuiteShaped, SuiteEnds
<1>2. verdict' \in {"none", "passed", "failed", "aborted", "recorded"}
  BY DEF SuiteEnds
<1> QED
  BY <1>1, <1>2, SuiteStopKeeps DEF SuiteEnds

LEMMA ChangeKeeps ==
  ASSUME SuiteInv, Change
  PROVE  SuiteInv'
<1>1. /\ suite = NoSuite /\ bounds.changes < MaxChanges
      /\ bounds' = [bounds EXCEPT !.changes = @ + 1]
      /\ UNCHANGED <<disk, suite, run, results, verdict, bill, taken>>
  BY DEF Change
<1>2. Typed /\ bounds \in [suites : Nat, changes : 0 .. MaxChanges, troubles : Nat]
      /\ prompts \in [Places -> Nat] /\ \A p \in Places : prompts[p] <= bounds.changes
  BY DEF SuiteInv, Typed
<1>3. /\ bounds' \in [suites : Nat, changes : 0 .. MaxChanges, troubles : Nat]
      /\ bounds'.changes = bounds.changes + 1
  BY <1>1, <1>2, LimitsAre
<1>4. prompts' \in [Places -> Nat] /\ \A p \in Places : prompts'[p] <= bounds'.changes
  <2>1. CASE prompts' = prompts
    BY <1>2, <1>3, <2>1
  <2>2. ASSUME NEW q \in Edited, prompts' = [prompts EXCEPT ![q] = @ + 1]
        PROVE  prompts' \in [Places -> Nat] /\ \A p \in Places : prompts'[p] <= bounds'.changes
    <3>1. prompts' \in [Places -> Nat]
      <4>1. prompts' = [p \in Places |-> IF p = q THEN prompts[p] + 1 ELSE prompts[p]]
        BY <1>2, <2>2
      <4>2. \A p \in Places : prompts[p] \in Nat
        BY <1>2
      <4>3. \A p \in Places : (IF p = q THEN prompts[p] + 1 ELSE prompts[p]) \in Nat
        BY <4>2
      <4> QED
        BY <4>1, <4>3
    <3>2. ASSUME NEW p \in Places PROVE prompts'[p] <= bounds'.changes
      <4>1. prompts[p] \in Nat /\ prompts[p] <= bounds.changes /\ bounds.changes \in Nat
        BY <1>2
      <4>2. prompts'[p] = prompts[p] \/ prompts'[p] = prompts[p] + 1
        BY <1>2, <2>2
      <4> QED
        BY <1>3, <4>1, <4>2
    <3> QED
      BY <3>1, <3>2
  <2> QED
    BY <2>1, <2>2 DEF Change
<1>5. sandbox' \in BOOLEAN
  BY <1>2 DEF Change, Typed
<1>6. Typed'
  BY <1>1, <1>2, <1>3, <1>4, <1>5 DEF Typed
<1>7. SuiteShaped' /\ DiskShaped' /\ ResultsShaped'
  BY <1>1 DEF SuiteInv, SuiteShaped, DiskShaped, ResultsShaped
<1>8. RunShaped'
  <2>1. Measured("")' = Measured("")
    BY <1>1 DEF Measured, LastTest
  <2> QED
    BY <1>1, <2>1 DEF SuiteInv, RunShaped
<1>9. Recording' /\ Replaying' /\ MeterAgrees'
  BY <1>1 DEF SuiteInv, Recording, Replaying, Fixture, MeterAgrees
<1>10. NoStaleAnswers' /\ ReplayRepeatsRecording' /\ SourceSaid'
  BY <1>1 DEF SuiteInv, NoStaleAnswers, ReplayRepeatsRecording, SourceSaid
<1> QED
  BY <1>6, <1>7, <1>8, <1>9, <1>10 DEF SuiteInv

LEMMA FixtureRecordedKeeps ==
  ASSUME SuiteInv, FixtureRecorded
  PROVE  SuiteInv'
<1>1. /\ suite.mode = "record" /\ suite.left # {} /\ run.at = "finished" /\ NextFixture
      /\ disk' = [disk EXCEPT ![Fixture] = [source |-> suite.source, calls |-> run.calls]]
      /\ taken' = [taken EXCEPT ![Fixture] =
                     [metrics |-> Measured(""), cost |-> bill.cost,
                      once |-> bill.attempts = Len(run.calls)]]
      /\ UNCHANGED <<prompts, sandbox, results, verdict, bounds>>
  BY DEF FixtureRecorded, Save
<1>2. Typed /\ Fixture \in AllFixtures /\ suite.source \in Sources
  BY <1>1, FixtureIs DEF SuiteInv, SuiteShaped
<1>3. suite'.mode = "record" /\ suite'.all = suite.all /\ suite' # NoSuite /\ suite # NoSuite
  BY <1>1, NextFixtureIs, FixtureIs DEF SuiteInv
<1> DEFINE made == [source |-> suite.source, calls |-> run.calls]
           score == [metrics |-> Measured(""), cost |-> bill.cost,
                     once |-> bill.attempts = Len(run.calls)]
<1>4. made \in [source : Sources \cup {"none"}, calls : Seq(Calls)]
      /\ made.source = suite.source /\ made.calls = run.calls
  BY <1>2, RunIs DEF Typed
<1>5. score.metrics = Measured("") /\ score.cost = bill.cost
      /\ score.once = (bill.attempts = Len(run.calls))
  OBVIOUS
<1> HIDE DEF made, score
<1>6. disk' = [disk EXCEPT ![Fixture] = made] /\ taken' = [taken EXCEPT ![Fixture] = score]
  BY <1>1 DEF made, score
<1>7. /\ disk' \in [AllFixtures -> [source : Sources \cup {"none"}, calls : Seq(Calls)]]
      /\ disk'[Fixture] = made /\ \A f \in AllFixtures : f # Fixture => disk'[f] = disk[f]
      /\ DOMAIN taken' = AllFixtures
      /\ taken'[Fixture] = score /\ \A f \in AllFixtures : f # Fixture => taken'[f] = taken[f]
  BY <1>2, <1>4, <1>6 DEF Typed
<1>8. /\ ReviewedLast(made.calls) /\ score.metrics = MetricsOf(made.calls[Len(made.calls)])
      /\ made.source = "anthropic" /\ score.once => score.cost = CallsCost(made.calls)
  <2>1. ReviewedLast(run.calls) /\ MetricsOf(run.calls[Len(run.calls)]) = Measured("")
    BY <1>1 DEF SuiteInv, RunShaped
  <2>2. suite.source = "anthropic" =>
          (bill.attempts = Len(run.calls) => bill.cost = CallsCost(run.calls))
    BY <1>1 DEF SuiteInv, Recording
  <2> QED
    BY <1>4, <1>5, <2>1, <2>2, Zenon
<1>9. DiskShaped'
  <2> SUFFICES ASSUME NEW f \in AllFixtures
               PROVE  \/ disk'[f] = NoRecording
                      \/ /\ disk'[f].source \in Sources
                         /\ ReviewedLast(disk'[f].calls)
                         /\ taken'[f].metrics = MetricsOf(disk'[f].calls[Len(disk'[f].calls)])
                         /\ disk'[f].source = "anthropic" /\ taken'[f].once =>
                              taken'[f].cost = CallsCost(disk'[f].calls)
    BY Zenon DEF DiskShaped
  <2>1. CASE f = Fixture
    BY <1>2, <1>4, <1>7, <1>8, <2>1, Zenon
  <2>2. CASE f # Fixture
    <3>1. disk'[f] = disk[f] /\ taken'[f] = taken[f]
      BY <1>7, <2>2, Zenon
    <3> QED
      BY <3>1, Zenon DEF SuiteInv, DiskShaped
  <2> QED
    BY <2>1, <2>2
<1>10. DOMAIN results' = AllFixtures /\ ResultsShaped'
  BY <1>1, <1>2, <1>3 DEF SuiteInv, ResultsShaped, Typed
<1>11. NoStaleAnswers' /\ ReplayRepeatsRecording' /\ SourceSaid'
  BY <1>3 DEF NoStaleAnswers, ReplayRepeatsRecording, SourceSaid
<1> QED
  BY <1>1, <1>7, <1>9, <1>10, <1>11, NextFixtureKeeps

LEMMA PrefixIs ==
  ASSUME NEW S, NEW s \in Seq(S), NEW n \in Nat, n <= Len(s)
  PROVE  /\ SubSeq(s, 1, n) \in Seq(S) /\ Len(SubSeq(s, 1, n)) = n
         /\ \A i \in 1 .. n : SubSeq(s, 1, n)[i] = s[i]
OBVIOUS

LEMMA PrefixOfCalls ==
  \A s \in Seq(Calls) : \A n \in Nat :
    n <= Len(s) =>
      /\ SubSeq(s, 1, n) \in Seq(Calls) /\ Len(SubSeq(s, 1, n)) = n
      /\ \A i \in 1 .. n : SubSeq(s, 1, n)[i] = s[i]
BY PrefixIs

LEMMA WholeIs ==
  ASSUME NEW S, NEW s \in Seq(S)
  PROVE  SubSeq(s, 1, Len(s)) = s
OBVIOUS

\* What a fixture scores that ended: nothing on what it did not produce, and a replay that is like
\* its recording what that scored, at its price.
LEMMA ScoreIs ==
  ASSUME SuiteInv, suite.left # {}, Ended, suite.mode \in {"live", "replay"}
  PROVE  LET error == FixtureError IN
         /\ error # "" => Score(error)["completed"] = 0 /\ Score(error)["review_score"] = 0
         /\ suite.mode = "replay" /\ error = "" =>
              /\ run.calls = disk[Fixture].calls
              /\ Score(error) = taken[Fixture].metrics
              /\ disk[Fixture].source = "anthropic" /\ taken[Fixture].once =>
                   run.meter.cost = taken[Fixture].cost
<1> DEFINE recorded == disk[Fixture]
           error == FixtureError
<1>1. /\ run \in Runs /\ Typed /\ Fixture \in AllFixtures
      /\ run.at # "finished" => run.review = "none"
      /\ run.error # "" => run.at # "finished"
  BY FixtureIs DEF SuiteInv, Typed, RunShaped, Shaped, Places
<1>2. /\ run.next \in Nat \ {0} /\ recorded.calls \in Seq(Calls)
      /\ Len(recorded.calls) \in Nat
  <2>1. recorded.calls \in Seq(Calls)
    BY <1>1 DEF Typed
  <2> QED
    BY <1>1, <2>1, RunIs, SeqIs, Zenon
<1>3. /\ recorded = NoRecording \/
           /\ ReviewedLast(recorded.calls)
           /\ taken[Fixture].metrics = MetricsOf(recorded.calls[Len(recorded.calls)])
           /\ recorded.source = "anthropic" /\ taken[Fixture].once =>
                taken[Fixture].cost = CallsCost(recorded.calls)
  BY <1>1 DEF SuiteInv, DiskShaped
<1>4. suite.mode = "replay" /\ run.error = "" =>
        /\ run.next - 1 <= Len(recorded.calls)
        /\ run.calls = SubSeq(recorded.calls, 1, run.next - 1)
  BY DEF SuiteInv, Replaying
<1>5. suite.mode = "replay" /\ recorded.source = "anthropic" => run.meter.cost = CallsCost(run.calls)
  BY DEF SuiteInv, Replaying
<1>6. error = IF suite.mode = "replay" /\ run.error = "" /\ run.next <= Len(recorded.calls)
              THEN "mismatch" ELSE run.error
  BY DEF FixtureError
<1> HIDE DEF recorded, error
<1>7. suite.mode = "replay" /\ run.error = "" =>
        ReviewedLast(run.calls) /\ MetricsOf(run.calls[Len(run.calls)]) = Measured("")
  BY DEF SuiteInv, RunShaped, Ended
<1>8. ASSUME suite.mode = "replay", run.error = ""
      PROVE  run.next - 1 = Len(recorded.calls) /\ run.calls = recorded.calls
  <2>1. /\ run.calls \in Seq(Calls) /\ Len(run.calls) = run.next - 1
        /\ \A i \in 1 .. run.next - 1 : run.calls[i] = recorded.calls[i]
    <3>1. run.next - 1 \in Nat
      BY <1>2
    <3>2. /\ run.next - 1 <= Len(recorded.calls)
          /\ run.calls = SubSeq(recorded.calls, 1, run.next - 1)
      BY <1>4, <1>8, Zenon
    <3> DEFINE n == run.next - 1
               s == recorded.calls
    <3>3. s \in Seq(Calls) /\ n \in Nat /\ n <= Len(s)
      BY <1>2, <3>1, <3>2, Zenon
    <3> HIDE DEF n, s
    <3>4. /\ SubSeq(s, 1, n) \in Seq(Calls) /\ Len(SubSeq(s, 1, n)) = n
          /\ \A i \in 1 .. n : SubSeq(s, 1, n)[i] = s[i]
      BY <3>3, PrefixOfCalls, Zenon
    <3>5. run.calls = SubSeq(s, 1, n)
      BY <3>2, Zenon DEF n, s
    <3> QED
      BY <3>4, <3>5, Zenon DEF n, s
  <2>2. run.calls # <<>> /\ run.calls[Len(run.calls)].agent = "reviewer"
    BY <1>7, <1>8, Zenon DEF ReviewedLast
  <2>3. Len(run.calls) \in 1 .. Len(run.calls)
    BY <2>1, <2>2, SeqIs, Zenon
  <2>4. recorded.calls[run.next - 1].agent = "reviewer"
    BY <2>1, <2>2, <2>3, Zenon
  <2>5. recorded # NoRecording
    <3>1. CASE recorded = NoRecording
      <4>1. Len(recorded.calls) = 0
        BY <3>1 DEF NoRecording
      <4>2. run.next - 1 \in 1 .. run.next - 1 /\ run.next - 1 <= 0
        BY <1>4, <1>8, <2>1, <2>3, <4>1, Zenon
      <4> QED
        BY <4>2
    <3> QED
      BY <3>1
  <2>6. ~(run.next - 1 \in 1 .. Len(recorded.calls) - 1)
    BY <1>3, <2>4, <2>5, Zenon DEF ReviewedLast
  <2>7. run.next - 1 = Len(recorded.calls)
    <3>1. run.next - 1 >= 1
      BY <2>1, <2>3
    <3>2. run.next - 1 <= Len(recorded.calls)
      BY <1>4, <1>8
    <3> QED
      BY <1>2, <2>6, <3>1, <3>2
  <2>8. SubSeq(recorded.calls, 1, Len(recorded.calls)) = recorded.calls
    BY <1>2, WholeIs, Zenon
  <2> QED
    BY <1>4, <1>8, <2>7, <2>8, Zenon
<1>9. ASSUME error # ""
      PROVE  Score(error)["completed"] = 0 /\ Score(error)["review_score"] = 0
  <2>1. run.at # "finished"
    <3>1. CASE run.error # ""
      BY <1>1, <3>1
    <3>2. CASE run.error = ""
      <4>1. suite.mode = "replay" /\ run.next <= Len(recorded.calls)
        BY <1>6, <1>9, <3>2
      <4>2. run.next - 1 = Len(recorded.calls)
        BY <1>8, <3>2, <4>1, Zenon
      <4>3. run.next \in Nat /\ Len(recorded.calls) \in Nat
        BY <1>2
      <4> QED
        BY <4>1, <4>2, <4>3
    <3> QED
      BY <3>1, <3>2
  <2>2. run.review = "none"
    BY <1>1, <2>1
  <2>3. /\ Measured(error)["completed"] = 0 /\ Measured(error)["review_score"] = Unmeasured
    BY <1>9, <2>2 DEF Measured, Metric
  <2>4. "completed" \in Metrics /\ "review_score" \in Metrics
    BY DEF Metrics
  <2> QED
    BY <1>9, <2>3, <2>4 DEF Score, Unmeasured
<1>10. ASSUME suite.mode = "replay", error = ""
       PROVE  /\ run.calls = recorded.calls
              /\ Score(error) = taken[Fixture].metrics
              /\ recorded.source = "anthropic" /\ taken[Fixture].once =>
                   run.meter.cost = taken[Fixture].cost
  <2>1. run.error = "" /\ ~(run.next <= Len(recorded.calls))
    BY <1>6, <1>10
  <2>2. run.calls = recorded.calls
    BY <1>8, <1>10, <2>1
  <2>3. recorded # NoRecording
    <3>1. run.calls # <<>>
      BY <1>7, <1>10, <2>1, Zenon DEF ReviewedLast
    <3>2. NoRecording.calls = <<>>
      BY DEF NoRecording
    <3> QED
      BY <2>2, <3>1, <3>2, Zenon
  <2>4. Score(error) = Measured("")
    <3>1. DOMAIN Measured("") = Metrics
      BY DEF Measured, Metrics
    <3>2. Measured("") = [m \in Metrics |-> Measured("")[m]]
      BY <3>1, Zenon DEF Measured
    <3>3. Score(error) = [m \in Metrics |-> Measured("")[m]]
      BY <1>10 DEF Score
    <3> QED
      BY <3>2, <3>3, Zenon
  <2>5. taken[Fixture].metrics = Measured("")
    BY <1>3, <1>7, <1>10, <2>1, <2>2, <2>3, Zenon
  <2> QED
    BY <1>3, <1>5, <1>10, <2>2, <2>3, <2>4, <2>5, Zenon
<1> QED
  BY <1>9, <1>10, Zenon DEF recorded, error

LEMMA FixtureScoredKeeps ==
  ASSUME SuiteInv, FixtureScored
  PROVE  SuiteInv'
<1> DEFINE error == FixtureError
           result == [error |-> error, metrics |-> Score(error), calls |-> run.calls,
                      meter |-> run.meter]
<1>1. /\ suite.mode \in {"live", "replay"} /\ suite.left # {} /\ Ended /\ NextFixture
      /\ results' = [results EXCEPT ![Fixture] = result]
      /\ UNCHANGED <<prompts, sandbox, disk, verdict, taken, bounds>>
  BY DEF FixtureScored
<1>2. Typed /\ Fixture \in AllFixtures /\ Fixture \in suite.all
  BY <1>1, FixtureIs DEF SuiteInv
<1>3. suite'.mode = suite.mode /\ suite'.source = suite.source /\ suite'.all = suite.all
  BY <1>1, NextFixtureIs
<1>4. /\ error # "" => Score(error)["completed"] = 0 /\ Score(error)["review_score"] = 0
      /\ suite.mode = "replay" /\ error = "" =>
           /\ run.calls = disk[Fixture].calls
           /\ Score(error) = taken[Fixture].metrics
           /\ disk[Fixture].source = "anthropic" /\ taken[Fixture].once =>
                run.meter.cost = taken[Fixture].cost
  BY <1>1, ScoreIs
<1> HIDE DEF error
<1>5. /\ result.error = error /\ result.metrics = Score(error) /\ result.calls = run.calls
      /\ result.meter = run.meter
  OBVIOUS
<1> HIDE DEF result
<1>6. /\ DOMAIN results' = AllFixtures /\ results'[Fixture] = result
      /\ \A f \in AllFixtures : f # Fixture => results'[f] = results[f]
  BY <1>1, <1>2 DEF Typed
<1>7. ResultsShaped'
  <2> SUFFICES ASSUME NEW f \in AllFixtures, results'[f] # NoResult
               PROVE  /\ f \in suite'.all
                      /\ results'[f].error # "" =>
                           /\ results'[f].metrics["completed"] = 0
                           /\ results'[f].metrics["review_score"] = 0
    BY Zenon DEF ResultsShaped
  <2>1. CASE f = Fixture
    BY <1>2, <1>3, <1>4, <1>5, <1>6, <2>1, Zenon
  <2>2. CASE f # Fixture
    <3>1. results'[f] = results[f] /\ suite # NoSuite
      BY <1>1, <1>6, <2>2, FixtureIs DEF SuiteInv
    <3> QED
      BY <1>3, <3>1, Zenon DEF SuiteInv, ResultsShaped
  <2> QED
    BY <2>1, <2>2
<1>8. NoStaleAnswers' /\ ReplayRepeatsRecording'
  <2> SUFFICES ASSUME NEW f \in AllFixtures, suite'.mode = "replay", results'[f].error = ""
               PROVE  /\ results'[f].calls = disk'[f].calls
                      /\ results'[f].metrics = taken'[f].metrics
                      /\ disk'[f].source = "anthropic" /\ taken'[f].once =>
                           results'[f].meter.cost = taken'[f].cost
    BY Zenon DEF NoStaleAnswers, ReplayRepeatsRecording, AllFixtures
  <2>1. CASE f = Fixture
    BY <1>1, <1>3, <1>4, <1>5, <1>6, <2>1, Zenon
  <2>2. CASE f # Fixture
    BY <1>1, <1>3, <1>6, <2>2, Zenon
      DEF SuiteInv, NoStaleAnswers, ReplayRepeatsRecording, AllFixtures
  <2> QED
    BY <2>1, <2>2
<1>9. DiskShaped' /\ SourceSaid'
  BY <1>1, <1>3 DEF SuiteInv, DiskShaped, SourceSaid
<1>10. /\ disk' \in [AllFixtures -> [source : Sources \cup {"none"}, calls : Seq(Calls)]]
       /\ DOMAIN taken' = AllFixtures
  BY <1>1, <1>2 DEF Typed
<1> QED
  BY <1>1, <1>6, <1>7, <1>8, <1>9, <1>10, NextFixtureKeeps

-----------------------------------------------------------------------------
(* The invariant holds                                                     *)

LEMMA CheckedInCallIs ==
  ASSUME NEW place \in {"analyst", "architect", "coder", "devops", "reviewer"},
         NEW shown \in Seq(Words), NEW answer \in AnswersAt(place)
  PROVE  /\ CheckedInCall(place, shown, answer) \in Calls
         /\ CheckedInCall(place, shown, answer).agent = place
         /\ CheckedInCall(place, shown, answer).asked.shown = shown
         /\ CheckedInCall(place, shown, answer).answer = answer
<1> DEFINE asked == [agent |-> place, prompt |-> <<place, 0>>, shown |-> shown]
           call == [agent |-> place, asked |-> asked, model |-> Plain.model, usage |-> NoTokens,
                    answer |-> answer]
<1>1. asked \in [agent : Agents, prompt : Places \X Nat, shown : Seq(Words)]
  BY DEF Agents, Places
<1>2. Plain.model \in Models
  BY EvalAssumption DEF Models
<1>3. NoTokens \in Usages
  BY DEF NoTokens, Usages
<1>4. AgentOf(place) = place /\ asked.prompt[1] = place /\ place \in Agents
  BY DEF AgentOf, Agents
<1>5. answer \in Words
  BY DEF AnswersAt, Words
<1>6. call = CheckedInCall(place, shown, answer)
  BY Zenon DEF CheckedInCall
<1>9. asked.shown = shown
  OBVIOUS
<1> HIDE DEF asked
<1>7. /\ call \in [agent : Agents, asked : [agent : Agents, prompt : Places \X Nat, shown : Seq(Words)],
                   model : Models, usage : Usages, answer : Words]
      /\ call.agent = place /\ call.asked = asked /\ call.answer = answer
  BY <1>1, <1>2, <1>3, <1>4, <1>5
<1> HIDE DEF call
<1>8. call \in Calls
  BY <1>4, <1>7 DEF Calls
<1> QED
  BY <1>6, <1>7, <1>8, <1>9, Zenon

LEMMA FiveAreSeq ==
  ASSUME NEW S, NEW a \in S, NEW b \in S, NEW c \in S, NEW d \in S, NEW e \in S
  PROVE  /\ <<a, b, c, d, e>> \in Seq(S) /\ Len(<<a, b, c, d, e>>) = 5
         /\ <<a, b, c, d, e>> # <<>>
         /\ <<a, b, c, d, e>>[1] = a /\ <<a, b, c, d, e>>[2] = b /\ <<a, b, c, d, e>>[3] = c
         /\ <<a, b, c, d, e>>[4] = d /\ <<a, b, c, d, e>>[5] = e
OBVIOUS

\* The recordings checked in are of a whole run, whose every measure was the best.
LEMMA CheckedInIs ==
  /\ CheckedIn.source = "offline-provider" /\ CheckedIn.calls \in Seq(Calls)
  /\ CheckedIn \in [source : Sources \cup {"none"}, calls : Seq(Calls)]
  /\ ReviewedLast(CheckedIn.calls)
  /\ MetricsOf(CheckedIn.calls[Len(CheckedIn.calls)]) = [m \in Metrics |-> 1]
<1> DEFINE nothing == <<>>
           a == CheckedInCall("analyst", nothing, "text")
           b == CheckedInCall("architect", nothing, "text")
           c == CheckedInCall("coder", nothing, "good")
           d == CheckedInCall("devops", nothing, "text")
           shown == <<"good", "passed">>
           e == CheckedInCall("reviewer", shown, "high")
           calls == <<a, b, c, d, e>>
<1>1. nothing \in Seq(Words) /\ shown \in Seq(Words) /\ shown[1] = "good" /\ shown[2] = "passed"
  BY DEF Words
<1>2. /\ "text" \in AnswersAt("analyst") /\ "text" \in AnswersAt("architect")
      /\ "good" \in AnswersAt("coder") /\ "text" \in AnswersAt("devops")
      /\ "high" \in AnswersAt("reviewer")
  BY DEF AnswersAt
<1>3. CheckedIn.source = "offline-provider" /\ CheckedIn.calls = calls
  BY Zenon DEF CheckedIn
<1>4. CheckedIn = [source |-> "offline-provider", calls |-> calls]
  BY Zenon DEF CheckedIn
<1> HIDE DEF shown, nothing
<1>5. /\ a \in Calls /\ b \in Calls /\ c \in Calls /\ d \in Calls /\ e \in Calls
      /\ a.agent = "analyst" /\ b.agent = "architect" /\ c.agent = "coder" /\ d.agent = "devops"
      /\ e.agent = "reviewer" /\ e.asked.shown = shown /\ e.answer = "high"
  BY <1>1, <1>2, CheckedInCallIs
<1> HIDE DEF a, b, c, d, e
<1>6. /\ calls \in Seq(Calls) /\ Len(calls) = 5 /\ calls # <<>>
      /\ calls[1] = a /\ calls[2] = b /\ calls[3] = c /\ calls[4] = d /\ calls[5] = e
  BY <1>5, FiveAreSeq
<1> HIDE DEF calls
<1>7. ReviewedLast(calls)
  <2>1. \A i \in 1 .. 5 - 1 : i = 1 \/ i = 2 \/ i = 3 \/ i = 4
    OBVIOUS
  <2>2. \A i \in 1 .. 5 - 1 : calls[i].agent # "reviewer"
    BY <1>5, <1>6, <2>1
  <2> QED
    BY <1>5, <1>6, <2>2, Zenon DEF ReviewedLast
<1>8. MetricsOf(e) = [m \in Metrics |-> 1]
  <2>1. Metric("passed") = 1 /\ Metric("high") = 1
    BY DEF Metric
  <2>2. MetricsOf(e) = [completed |-> 1, validation_passed |-> 1, tests_passed |-> 1, review_score |-> 1]
    BY <1>1, <1>5, <2>1 DEF MetricsOf
  <2> QED
    BY <2>2 DEF Metrics
<1> QED
  BY <1>3, <1>4, <1>6, <1>7, <1>8 DEF Sources

LEMMA InitIs ==
  ASSUME Init
  PROVE  SuiteInv
<1>0. /\ {RepairRounds, TestRepairRounds, MaxChanges} \subseteq Nat
      /\ Fixtures \in Seq(STRING)
  BY EvalAssumption
<1>1. /\ suite.mode = "idle" /\ suite.source = "none" /\ suite.left = {} /\ suite.all = {}
      /\ suite = NoSuite /\ run = NewRun /\ bill = NoBill /\ verdict = "none"
  BY DEF Init, NoSuite
<1>2. /\ run.at = "analyst" /\ run.code = "none" /\ run.tests = <<>> /\ run.review = "none"
      /\ run.calls = <<>> /\ run.error = "" /\ run.next = 1
  BY <1>1, Zenon DEF NewRun
<1>3. /\ DOMAIN results = AllFixtures /\ \A f \in AllFixtures : results[f] = NoResult
      /\ DOMAIN taken = AllFixtures
      /\ \A f \in AllFixtures : taken[f].metrics = [m \in Metrics |-> 1] /\ ~taken[f].once
  BY DEF Init, AllFixtures
<1>4. PICK r \in {NoRecording, CheckedIn} : disk = [f \in AllFixtures |-> r]
  BY DEF Init, AllFixtures
<1>5. NoRecording \in [source : Sources \cup {"none"}, calls : Seq(Calls)]
  <2>1. <<>> \in Seq(Calls)
    OBVIOUS
  <2> QED
    BY <2>1 DEF NoRecording
<1>6. r \in [source : Sources \cup {"none"}, calls : Seq(Calls)]
  BY <1>4, <1>5, CheckedInIs
<1>7. DiskShaped
  <2> SUFFICES ASSUME NEW f \in AllFixtures, disk[f] # NoRecording
               PROVE  /\ disk[f].source \in Sources
                      /\ ReviewedLast(disk[f].calls)
                      /\ taken[f].metrics = MetricsOf(disk[f].calls[Len(disk[f].calls)])
                      /\ ~taken[f].once
    BY Zenon DEF DiskShaped
  <2>1. disk[f] = CheckedIn
    BY <1>4
  <2>2. CheckedIn.source \in Sources
    BY CheckedInIs DEF Sources
  <2> QED
    BY <1>3, <2>1, <2>2, CheckedInIs, Zenon
<1>8. run \in Runs /\ bill \in [exact : Int, attempts : Int, unknown : BOOLEAN, tokens : Int, cost : Int]
  <2>1. NoMeter \in Meters
    BY DEF NoMeter, Meters
  <2>2. <<>> \in Seq(Calls) /\ <<>> \in Seq({"passed", "few", "failed", "error"})
    OBVIOUS
  <2>3. 0 \in 0 .. RepairRounds /\ 1 \in Nat \ {0}
    BY <1>0
  <2>4. NewRun \in Runs
    BY <2>1, <2>2, <2>3 DEF NewRun, Runs, Places, Codes, Errors
  <2> QED
    BY <1>1, <2>4 DEF NoBill
<1>9. Typed
  <2>1. prompts \in [Places -> Nat] /\ \A p \in Places : prompts[p] = 0
    BY DEF Init
  <2>2. bounds \in [suites : Nat, changes : 0 .. MaxChanges, troubles : Nat] /\ bounds.changes = 0
    BY <1>0 DEF Init
  <2>3. sandbox \in BOOLEAN
    BY DEF Init
  <2>4. disk \in [AllFixtures -> [source : Sources \cup {"none"}, calls : Seq(Calls)]]
    BY <1>4, <1>6
  <2>5. suite \in [mode : {"idle", "record", "live", "replay"}, source : Sources \cup {"none", "mixed"},
                   all : SUBSET AllFixtures, left : SUBSET DOMAIN Fixtures]
    BY <1>1 DEF NoSuite
  <2>6. 0 <= 0
    OBVIOUS
  <2> QED
    BY <1>1, <1>3, <1>8, <2>1, <2>2, <2>3, <2>4, <2>5, <2>6, Zenon DEF Typed
<1>10. RunShaped
  <2>1. Shaped(run)
    BY <1>2 DEF Shaped
  <2>2. Most(run) = 0
    BY <1>2 DEF Most
  <2>3. Len(run.calls) = 0 /\ 0 <= 0 /\ 1 .. 0 = {}
    <3>1. Len(<<>>) = 0 /\ 0 <= 0 /\ 1 .. 0 = {}
      OBVIOUS
    <3> QED
      BY <1>2, <3>1, Zenon
  <2>4. Unreviewed(run.calls)
    BY <2>3, Zenon DEF Unreviewed
  <2> QED
    BY <1>2, <2>1, <2>2, <2>3, <2>4, Zenon DEF RunShaped
<1>11. SuiteShaped
  BY <1>1 DEF SuiteShaped
<1>12. Recording /\ Replaying /\ NoStaleAnswers /\ ReplayRepeatsRecording /\ SourceSaid /\ MeterAgrees
  BY <1>1 DEF Recording, Replaying, NoStaleAnswers, ReplayRepeatsRecording, SourceSaid, MeterAgrees
<1>13. ResultsShaped
  BY <1>3 DEF ResultsShaped
<1> QED
  BY <1>7, <1>9, <1>10, <1>11, <1>12, <1>13 DEF SuiteInv

LEMMA StutterKeeps ==
  ASSUME SuiteInv, UNCHANGED vars
  PROVE  SuiteInv'
<1>1. UNCHANGED <<prompts, sandbox, disk, suite, run, results, verdict, bill, taken, bounds>>
  BY DEF vars
<1>2. Typed' /\ SuiteShaped' /\ RunShaped' /\ DiskShaped'
  <2>1. /\ LastTest' = LastTest /\ Measured("")' = Measured("")
    BY <1>1 DEF LastTest, Measured
  <2> QED
    BY <1>1, <2>1 DEF SuiteInv, Typed, SuiteShaped, RunShaped, DiskShaped
<1>3. Recording' /\ Replaying' /\ ResultsShaped'
  BY <1>1 DEF SuiteInv, Recording, Replaying, ResultsShaped, Fixture
<1>4. NoStaleAnswers' /\ ReplayRepeatsRecording' /\ SourceSaid' /\ MeterAgrees'
  BY <1>1 DEF SuiteInv, NoStaleAnswers, ReplayRepeatsRecording, SourceSaid, MeterAgrees
<1> QED
  BY <1>2, <1>3, <1>4 DEF SuiteInv

LEMMA NextKeeps ==
  SuiteInv /\ [Next]_vars => SuiteInv'
<1> SUFFICES ASSUME SuiteInv, [Next]_vars
             PROVE  SuiteInv'
  OBVIOUS
<1>1. CASE StartSuite
  BY <1>1, StartKeeps
<1>2. ASSUME suite.left # {}, LiveCall \/ CallFails \/ ReplayCall \/ Validate \/ Test
      PROVE  SuiteInv'
  BY <1>2, LiveCallKeeps, CallFailsKeeps, ReplayCallKeeps, ValidateKeeps, TestKeeps
<1>3. CASE FixtureScored \/ FixtureRecorded
  BY <1>3, FixtureScoredKeeps, FixtureRecordedKeeps
<1>4. CASE SuiteAborts \/ SuiteEnds \/ Change
  BY <1>4, SuiteAbortsKeeps, SuiteEndsKeeps, ChangeKeeps
<1>5. CASE UNCHANGED vars
  BY <1>5, StutterKeeps
<1> QED
  BY <1>1, <1>2, <1>3, <1>4, <1>5, Zenon DEF Next

\* harness.py, cli.py: in every state the run at hand, the recordings and the results fit together.
THEOREM SuiteInvHolds == Spec => []SuiteInv
<1>1. Init => SuiteInv
  BY InitIs
<1>2. SuiteInv /\ [Next]_vars => SuiteInv'
  BY NextKeeps
<1> QED
  BY <1>1, <1>2, PTL DEF Spec

-----------------------------------------------------------------------------
(* What follows from the invariant                                         *)

\* A run that has made its calls is within the two loops of repairs.
LEMMA CallsAreBounded ==
  ASSUME SuiteInv
  PROVE  /\ run.rounds <= RepairRounds
         /\ Len(run.calls) <= 5 + RepairRounds + TestRepairRounds
         /\ Len(run.tests) <= 1 + TestRepairRounds
<1>1. RepairRounds \in Nat /\ TestRepairRounds \in Nat
  BY EvalAssumption
<1>2. /\ run \in Runs /\ Shaped(run) /\ Len(run.calls) <= Most(run)
  BY DEF SuiteInv, Typed, RunShaped
<1>3. /\ run.at \in Places \cup {"validate", "test", "finished"} /\ run.rounds \in 0 .. RepairRounds
      /\ run.calls \in Seq(Calls) /\ run.tests \in Seq({"passed", "few", "failed", "error"})
  BY <1>2, RunIs, Zenon
<1>4. Len(run.calls) \in Nat /\ Len(run.tests) \in Nat
  BY <1>3, SeqIs, Zenon
<1>5. Len(run.tests) <= 1 + TestRepairRounds
  <2>1. /\ run.at \in {"test", "test_repair"} => Len(run.tests) <= TestRepairRounds
        /\ run.at \in {"reviewer", "finished"} => Len(run.tests) <= TestRepairRounds + 1
        /\ run.at \notin {"test", "test_repair", "reviewer", "finished"} => run.tests = <<>>
    BY <1>2, Zenon DEF Shaped
  <2>2. run.at \notin {"test", "test_repair", "reviewer", "finished"} => Len(run.tests) = 0
    <3>1. Len(<<>>) = 0
      OBVIOUS
    <3> QED
      BY <2>1, <3>1, Zenon
  <2>3. /\ run.at \in {"test", "test_repair"} => Len(run.tests) <= TestRepairRounds
        /\ run.at \in {"reviewer", "finished"} => Len(run.tests) <= TestRepairRounds + 1
    BY <2>1
  <2> QED
    BY <1>1, <1>4, <2>2, <2>3
<1>6. Most(run) \in Nat /\ Most(run) <= 5 + RepairRounds + TestRepairRounds
  <2>1. run.at \in {"test", "test_repair"} => Len(run.tests) <= TestRepairRounds
    BY <1>2, Zenon DEF Shaped
  <2> DEFINE tests == Len(run.tests)
             rounds == run.rounds
             at == run.at
  <2>2. /\ at = "analyst" => Most(run) = 0
        /\ at = "architect" => Most(run) = 1
        /\ at = "coder" => Most(run) = 2
        /\ at = "devops" => Most(run) = 3
        /\ at = "validate" => Most(run) = 4 + rounds
        /\ at = "repair" => Most(run) = 3 + rounds
        /\ at = "test" => Most(run) = 4 + rounds + tests
        /\ at = "test_repair" => Most(run) = 3 + rounds + tests
        /\ at = "reviewer" => Most(run) = 4 + rounds + TestRepairRounds
        /\ at = "finished" => Most(run) = 5 + rounds + TestRepairRounds
    <3> HIDE DEF tests
    <3> QED
      BY DEF Most, tests
  <2>3. /\ at \in Places \cup {"validate", "test", "finished"} /\ rounds \in 0 .. RepairRounds
        /\ tests \in Nat /\ (at \in {"test", "test_repair"} => tests <= TestRepairRounds)
    BY <1>3, <1>4, <2>1, Zenon
  <2> HIDE DEF tests, rounds, at
  <2> QED
    BY <1>1, <2>2, <2>3 DEF Places
<1> DEFINE calls == Len(run.calls)
<1>7. calls <= Most(run) /\ calls \in Nat /\ run.rounds <= RepairRounds
  <2>1. \A x \in 0 .. RepairRounds : x <= RepairRounds
    BY <1>1
  <2> QED
    BY <1>2, <1>3, <1>4, <2>1, Zenon
<1> HIDE DEF calls
<1>8. calls <= 5 + RepairRounds + TestRepairRounds
  BY <1>1, <1>6, <1>7
<1> QED
  BY <1>5, <1>7, <1>8 DEF calls

LEMMA TypesHold ==
  ASSUME SuiteInv
  PROVE  TypeOK
<1>1. MaxChanges \in Nat
  BY EvalAssumption
<1>2. Typed
  BY DEF SuiteInv
<1>3. prompts \in [Places -> 0 .. MaxChanges]
  <2>1. prompts \in [Places -> Nat] /\ bounds.changes \in 0 .. MaxChanges
    BY <1>2 DEF Typed
  <2>2. ASSUME NEW p \in Places PROVE prompts[p] \in 0 .. MaxChanges
    <3>1. prompts[p] \in Nat /\ prompts[p] <= bounds.changes
      BY <1>2, <2>1 DEF Typed
    <3> QED
      BY <1>1, <2>1, <3>1
  <2> QED
    BY <2>1, <2>2
<1>4. /\ sandbox \in BOOLEAN /\ suite.mode \in {"idle", "record", "live", "replay"}
      /\ verdict \in {"none", "passed", "failed", "aborted", "recorded"}
  BY <1>2 DEF Typed
<1>5. \A f \in AllFixtures : disk[f].source \in Sources \cup {"none"}
  BY <1>2 DEF Typed
<1>6. run.at \in Places \cup {"validate", "test", "finished"}
  <2>1. run \in Runs
    BY <1>2 DEF Typed
  <2> QED
    BY <2>1, RunIs, Zenon
<1> QED
  BY <1>3, <1>4, <1>5, <1>6, CallsAreBounded, Zenon DEF TypeOK, AllFixtures

\* recording.py, harness.py: a replay without an error asked what was asked when it was recorded, got
\* every answer, and scores and costs what the recorded run did, whatever was changed in between.
THEOREM ReplaysAreHonest == Spec => []ReplayHonest
<1>1. SuiteInv => ReplayHonest
  BY TypesHold DEF SuiteInv, ReplayHonest
<1> QED
  BY <1>1, SuiteInvHolds, PTL

LEMMA ErrorsAreAlike ==
  ErrorsClassedAlike
<1> SUFFICES ASSUME NEW t \in ErrorTypes
             PROVE  Retryable(ErrorOf([status |-> StatusOf(t), type |-> t]))
                      = Retryable(ErrorOf([status |-> 200, type |-> t]))
  BY DEF ErrorsClassedAlike
<1> DEFINE whole == [status |-> StatusOf(t), type |-> t]
           event == [status |-> 200, type |-> t]
<1>1. whole.status = StatusOf(t) /\ whole.type = t /\ event.status = 200 /\ event.type = t
  OBVIOUS
<1> HIDE DEF whole, event
<1>2. CASE t \in TransientTypes
  <2>1. StatusOf(t) \in {429, 500, 504, 529}
    BY <1>2 DEF StatusOf, TransientTypes
  <2>2. ErrorOf(whole) = "transient" /\ ErrorOf(event) = "transient"
    BY <1>1, <1>2, <2>1 DEF ErrorOf, StatusError
  <2> QED
    BY <2>2 DEF whole, event
<1>3. CASE t \notin TransientTypes
  <2>1. StatusOf(t) \in {400, 401, 403, 404, 413}
    BY <1>3 DEF StatusOf, ErrorTypes
  <2>2. ErrorOf(whole) = "configuration" /\ ErrorOf(event) = "configuration"
    BY <1>1, <1>3, <2>1 DEF ErrorOf, StatusError
  <2> QED
    BY <2>2 DEF whole, event
<1> QED
  BY <1>2, <1>3

\* metering.py, pricing.py: the meter of a live run has every token the API billed, and its price to
\* half a micro-dollar per attempt; and errors are classed alike however they arrive.
THEOREM CallsAreAccounted == Spec => []CallsAccounted
<1>1. SuiteInv => CallsAccounted
  BY ErrorsAreAlike DEF SuiteInv, CallsAccounted
<1>2. SuiteInv => CallsAccounted
  BY <1>1
<1> QED
  BY <1>2, SuiteInvHolds, PTL

-----------------------------------------------------------------------------
(* The gate                                                                *)

LEMMA FixturesAreFinite ==
  IsFiniteSet(AllFixtures)
<1>1. Fixtures \in Seq(STRING)
  BY EvalAssumption
<1>2. DOMAIN Fixtures = 1 .. Len(Fixtures) /\ Len(Fixtures) \in Nat
  BY <1>1, SeqIs, Zenon
<1>3. IsFiniteSet(1 .. Len(Fixtures))
  BY <1>2, FS_Interval
<1>4. AllFixtures = {Fixtures[i] : i \in DOMAIN Fixtures}
  BY DEF AllFixtures, ToSet
<1>5. Fixtures = [i \in DOMAIN Fixtures |-> Fixtures[i]]
  BY <1>1
<1>6. Fixtures \in Surjection(DOMAIN Fixtures, AllFixtures)
  BY <1>4, <1>5 DEF Surjection
<1> QED
  BY <1>2, <1>3, <1>6, FS_Surjection, Zenon

\* A metric whose threshold asks for all of it is regressed where a run scored nothing on it.
LEMMA OneFailureRegresses ==
  ASSUME suite.all \subseteq AllFixtures, NEW f \in suite.all, NEW m \in DOMAIN Thresholds,
         Thresholds[m] = 100, results[f].metrics[m] = 0
  PROVE  m \in Failures
<1> DEFINE measured == {g \in suite.all : results[g].metrics[m] # Unmeasured}
           passed   == {g \in measured : results[g].metrics[m] = 1}
<1>1. f \in measured /\ f \notin passed
  BY DEF Unmeasured
<1>2. IsFiniteSet(measured)
  <2>1. measured \in SUBSET AllFixtures
    OBVIOUS
  <2> QED
    BY <2>1, FixturesAreFinite, FS_Subset
<1>3. passed \in SUBSET measured /\ measured # passed
  BY <1>1
<1>4. Regressed(m) <=> (measured = {} \/ 100 * Cardinality(passed) < Thresholds[m] * Cardinality(measured))
  BY Zenon DEF Regressed
<1> HIDE DEF measured, passed
<1>5. /\ Cardinality(passed) <= Cardinality(measured) /\ Cardinality(passed) # Cardinality(measured)
      /\ Cardinality(passed) \in Nat /\ Cardinality(measured) \in Nat
  BY <1>2, <1>3, FS_Subset, FS_CardinalityType
<1>6. 100 * Cardinality(passed) < 100 * Cardinality(measured)
  BY <1>5
<1>7. Regressed(m)
  BY <1>4, <1>6
<1> QED
  BY <1>7 DEF Failures

LEMMA GateEnds ==
  ASSUME SuiteInv, SuiteEnds
  PROVE  GateHonest'
<1>1. /\ suite # NoSuite /\ results' = results
      /\ verdict' = "passed" => Failures = {}
  BY DEF SuiteEnds
<1>2. suite.all \subseteq AllFixtures
  BY DEF SuiteInv, Typed
<1> SUFFICES ASSUME Failures = {}, NEW f \in AllFixtures, results[f] # NoResult, results[f].error # ""
             PROVE  FALSE
  BY <1>1, Zenon DEF GateHonest, AllFixtures
<1>3. /\ f \in suite.all
      /\ results[f].metrics["completed"] = 0 /\ results[f].metrics["review_score"] = 0
  BY <1>1, Zenon DEF SuiteInv, ResultsShaped
<1>4. PICK m \in {"completed", "review_score"} \cap DOMAIN Thresholds : Thresholds[m] = 100
  BY ThresholdsAssumption
<1>5. results[f].metrics[m] = 0
  BY <1>3, <1>4
<1>6. m \in Failures
  BY <1>2, <1>3, <1>4, <1>5, OneFailureRegresses
<1> QED
  BY <1>6

LEMMA GateKeeps ==
  SuiteInv /\ GateHonest /\ [Next]_vars => GateHonest'
<1> SUFFICES ASSUME SuiteInv, GateHonest, [Next]_vars
             PROVE  GateHonest'
  OBVIOUS
<1>1. CASE SuiteEnds
  BY <1>1, GateEnds
<1>2. CASE StartSuite \/ SuiteAborts
  <2>1. verdict' = "none" \/ verdict' = "aborted"
    BY <1>2 DEF StartSuite, Start, SuiteAborts
  <2> QED
    BY <2>1 DEF GateHonest
<1>3. CASE FixtureScored
  <2>1. verdict' = "none"
    BY <1>3, FixtureIs DEF SuiteInv, FixtureScored
  <2> QED
    BY <2>1 DEF GateHonest
<1>4. CASE LiveCall \/ CallFails \/ ReplayCall \/ Validate \/ Test \/ FixtureRecorded \/ Change
             \/ UNCHANGED vars
  <2>1. verdict' = verdict /\ results' = results
    BY <1>4
      DEF LiveCall, CallFails, ReplayCall, Validate, Test, FixtureRecorded, Change, vars
  <2> QED
    BY <2>1 DEF GateHonest
<1> QED
  BY <1>1, <1>2, <1>3, <1>4, Zenon DEF Next

LEMMA RecordingsAreWhole ==
  ASSUME SuiteInv
  PROVE  WholeRecordings
<1> SUFFICES ASSUME NEW f \in AllFixtures, disk[f] # NoRecording
             PROVE  /\ disk[f].calls # <<>> /\ Last(disk[f].calls).agent = "reviewer"
                    /\ \A c \in ToSet(Front(disk[f].calls)) : c.agent # "reviewer"
  BY Zenon DEF WholeRecordings, AllFixtures
<1> DEFINE calls == disk[f].calls
<1>1. calls \in Seq(Calls)
  BY DEF SuiteInv, Typed
<1>2. ReviewedLast(calls)
  BY DEF SuiteInv, DiskShaped
<1> HIDE DEF calls
<1>3. calls # <<>> /\ Last(calls).agent = "reviewer"
  BY <1>2 DEF ReviewedLast, Last
<1>4. ASSUME NEW c \in ToSet(Front(calls))
      PROVE  c.agent # "reviewer"
  <2>1. Len(calls) \in Nat /\ Len(calls) >= 1
    BY <1>1, <1>3
  <2>2. /\ Len(Front(calls)) = Len(calls) - 1
        /\ Front(calls) \in Seq(Calls)
        /\ \A i \in 1 .. Len(calls) - 1 : Front(calls)[i] = calls[i]
    <3>1. Len(calls) - 1 \in Nat /\ Len(calls) - 1 <= Len(calls)
      BY <2>1
    <3>2. Front(calls) = SubSeq(calls, 1, Len(calls) - 1)
      BY Zenon DEF Front
    <3> DEFINE n == Len(calls) - 1
    <3>3. n \in Nat /\ n <= Len(calls) /\ Front(calls) = SubSeq(calls, 1, n)
      BY <3>1, <3>2, Zenon
    <3> HIDE DEF n
    <3>4. /\ Len(Front(calls)) = n /\ Front(calls) \in Seq(Calls)
          /\ \A i \in 1 .. n : Front(calls)[i] = calls[i]
      BY <1>1, <3>3, PrefixOfCalls, Zenon
    <3> QED
      BY <3>4, Zenon DEF n
  <2>3. PICK i \in 1 .. Len(calls) - 1 : c = Front(calls)[i]
    BY <2>2, SeqIs, Zenon DEF ToSet
  <2>4. c = calls[i] /\ calls[i].agent # "reviewer"
    BY <1>2, <2>2, <2>3, Zenon DEF ReviewedLast
  <2> QED
    BY <2>4
<1> QED
  BY <1>3, <1>4 DEF calls

\* cli.py, scoring.py: a recording is of a whole run, a report names a source only if all answers are
\* from there, and no suite passes in which a run did not finish.
THEOREM ReportsAreHonest == Spec => []ReportsHonest
<1>1. Init => GateHonest
  BY DEF Init, GateHonest
<1>2. SuiteInv /\ GateHonest /\ [Next]_vars => GateHonest'
  BY GateKeeps
<1>3. Spec => []GateHonest
  BY <1>1, <1>2, SuiteInvHolds, PTL DEF Spec
<1>4. SuiteInv /\ GateHonest => ReportsHonest
  BY RecordingsAreWhole DEF SuiteInv, ReportsHonest
<1> QED
  BY <1>3, <1>4, SuiteInvHolds, PTL

-----------------------------------------------------------------------------
(* The routes of a generated project                                       *)

\* What is appended is last, and the rest is what was there.
LEMMA AppendedLast ==
  ASSUME NEW S, NEW s \in Seq(S), NEW x \in S
  PROVE  /\ Append(s, x) \in Seq(S) /\ Append(s, x) # <<>>
         /\ Front(Append(s, x)) = s /\ Last(Append(s, x)) = x
<1>1. /\ Append(s, x) \in Seq(S) /\ Append(s, x) # <<>> /\ Len(Append(s, x)) = Len(s) + 1
      /\ Append(s, x)[Len(s) + 1] = x /\ Len(s) \in Nat
  BY AppendProperties
<1>2. SubSeq(Append(s, x), 1, Len(s)) = s
  <2> DEFINE t == SubSeq(Append(s, x), 1, Len(s))
  <2>1. \A i \in 1 .. Len(s) : Append(s, x)[i] = s[i] /\ s[i] \in S
    BY AppendProperties, ElementOfSeq
  <2>2. t \in Seq(S) /\ Len(t) = Len(s) /\ \A i \in 1 .. Len(s) : t[i] = s[i]
    BY <1>1, <2>1
  <2> HIDE DEF t
  <2>3. t = s
    BY <2>2, SeqEqual
  <2> QED
    BY <2>3 DEF t
<1>3. Len(Append(s, x)) - 1 = Len(s)
  BY <1>1
<1>4. Front(Append(s, x)) = s /\ Last(Append(s, x)) = x
  BY <1>1, <1>2, <1>3, Zenon DEF Front, Last
<1> QED
  BY <1>1, <1>4

\* What follows the first name of a reference of two parts, and of three.
LEMMA SecondPart ==
  ASSUME NEW S, NEW s \in Seq(S), Len(s) = 2
  PROVE  Tail(s) = <<s[2]>> /\ Front(Tail(s)) = <<>> /\ Last(s) = s[2] /\ s[2] \in S
<1>1. s[2] \in S /\ Tail(s) \in Seq(S) /\ Len(Tail(s)) = 1 /\ Tail(s)[1] = s[2]
  OBVIOUS
<1>2. Tail(s) = <<s[2]>>
  <2> DEFINE t == <<s[2]>>
             u == Tail(s)
  <2>1. t \in Seq(S) /\ Len(t) = 1 /\ t[1] = s[2]
    BY <1>1
  <2>2. u \in Seq(S) /\ Len(u) = 1 /\ u[1] = s[2]
    BY <1>1
  <2> HIDE DEF t, u
  <2>3. t = u
    BY <2>1, <2>2, SeqEqual
  <2> QED
    BY <2>3 DEF t, u
<1>3. Front(Tail(s)) = <<>>
  <2>1. Len(Tail(s)) - 1 = 0
    BY <1>1
  <2>2. SubSeq(Tail(s), 1, 0) = <<>>
    BY SubSeqEmpty
  <2> QED
    BY <2>1, <2>2, Zenon DEF Front
<1> QED
  BY <1>1, <1>2, <1>3, Zenon DEF Last

LEMMA ThirdPart ==
  ASSUME NEW S, NEW s \in Seq(S), Len(s) = 3
  PROVE  /\ Tail(s) = <<s[2], s[3]>> /\ Front(Tail(s)) = <<s[2]>> /\ Last(s) = s[3]
         /\ s[2] \in S /\ s[3] \in S
<1>1. /\ s[2] \in S /\ s[3] \in S /\ Tail(s) \in Seq(S) /\ Len(Tail(s)) = 2
      /\ Tail(s)[1] = s[2] /\ Tail(s)[2] = s[3]
  OBVIOUS
<1>2. Tail(s) = <<s[2], s[3]>>
  <2> DEFINE t == <<s[2], s[3]>>
             u == Tail(s)
  <2>1. t \in Seq(S) /\ Len(t) = 2 /\ t[1] = s[2] /\ t[2] = s[3]
    BY <1>1
  <2>2. u \in Seq(S) /\ Len(u) = 2 /\ u[1] = s[2] /\ u[2] = s[3]
    BY <1>1
  <2> HIDE DEF t, u
  <2>3. t = u
    BY <2>1, <2>2, SeqEqual
  <2> QED
    BY <2>3 DEF t, u
<1>3. Front(Tail(s)) = <<s[2]>>
  <2> DEFINE t == SubSeq(Tail(s), 1, 1)
             u == <<s[2]>>
  <2>1. t \in Seq(S) /\ Len(t) = 1 /\ t[1] = s[2]
    <3> DEFINE w == Tail(s)
    <3>1. w \in Seq(S) /\ Len(w) = 2 /\ w[1] = s[2]
      BY <1>1
    <3> HIDE DEF w
    <3>2. SubSeq(w, 1, 1) \in Seq(S) /\ Len(SubSeq(w, 1, 1)) = 1 /\ SubSeq(w, 1, 1)[1] = s[2]
      BY <3>1
    <3> QED
      BY <3>2 DEF w
  <2>2. u \in Seq(S) /\ Len(u) = 1 /\ u[1] = s[2]
    BY <1>1
  <2> HIDE DEF t, u
  <2>3. t = u
    BY <2>1, <2>2, SeqEqual
  <2>4. Len(Tail(s)) - 1 = 1
    BY <1>1
  <2> QED
    BY <2>3, <2>4, Zenon DEF Front, t, u
<1> QED
  BY <1>1, <1>2, <1>3, Zenon DEF Last

LEMMA UpToThree ==
  ASSUME NEW n \in 1 .. 3
  PROVE  /\ n = 1 \/ n = 2 \/ n = 3
         /\ n = 1 => ~(n > 1)
         /\ n # 1 => n > 1
         /\ n = 2 => n # 1
         /\ n = 3 => n # 1 /\ n # 2
OBVIOUS

LEMMA PairIs ==
  ASSUME NEW S, NEW a \in S, NEW b \in S
  PROVE  <<a>> \in Seq(S) /\ <<b>> \in Seq(S) /\ <<a>> \o <<b>> = <<a, b>>
<1> DEFINE s == <<a>>
           t == <<b>>
           u == s \o t
           w == <<a, b>>
<1>1. s \in Seq(S) /\ t \in Seq(S) /\ Len(s) = 1 /\ Len(t) = 1 /\ s[1] = a /\ t[1] = b
  OBVIOUS
<1>2. w \in Seq(S) /\ Len(w) = 2 /\ w[1] = a /\ w[2] = b
  OBVIOUS
<1> HIDE DEF s, t, w
<1>3. u \in Seq(S) /\ Len(u) = 2 /\ u[1] = a /\ u[2] = b
  BY <1>1, ConcatProperties
<1> HIDE DEF u
<1>4. u = w
  BY <1>2, <1>3, SeqEqual
<1> QED
  BY <1>1, <1>4 DEF s, t, u, w

LEMMA Lengths ==
  ASSUME NEW S, NEW s \in Seq(S), Len(s) \in 1 .. 3
  PROVE  /\ Len(s) = 1 \/ Len(s) = 2 \/ Len(s) = 3
         /\ Len(s) = 1 => ~(Len(s) > 1) /\ Tail(s) = <<>>
         /\ Len(s) # 1 => Len(s) > 1
         /\ Len(s) = 2 => Len(s) # 1
         /\ Len(s) = 3 => Len(s) # 1 /\ Len(s) # 2
         /\ Head(s) = s[1]
<1>1. Len(s) = 1 => Tail(s) = <<>>
  <2> SUFFICES ASSUME Len(s) = 1 PROVE Tail(s) = <<>>
    OBVIOUS
  <2>1. Tail(s) \in Seq(S) /\ Len(Tail(s)) = 0
    OBVIOUS
  <2> QED
    BY <2>1, EmptySeq
<1>2. Head(s) = s[1]
  OBVIOUS
<1>3. /\ Len(s) = 1 \/ Len(s) = 2 \/ Len(s) = 3
      /\ Len(s) = 1 => ~(Len(s) > 1)
      /\ Len(s) # 1 => Len(s) > 1
      /\ Len(s) = 2 => Len(s) # 1
      /\ Len(s) = 3 => Len(s) # 1 /\ Len(s) # 2
  BY UpToThree
<1> QED
  BY <1>1, <1>2, <1>3, Zenon

LEMMA SamePlace ==
  ASSUME NEW a, NEW b, NEW c, NEW d
  PROVE  [module |-> a, router |-> b] = [module |-> c, router |-> d] <=> a = c /\ b = d
OBVIOUS

\* The last name of a direct reference denotes the router of that name in the file before it.
LEMMA LastStep ==
  ASSUME NEW project, IsProject(project), NEW m \in Seq(STRING), m # <<>>, NEW name,
         Append(m, "__init__") \notin DOMAIN project,
         m \in DOMAIN project => name \notin DOMAIN project[m].imports,
         NEW n \in DOMAIN project, NEW v \in DOMAIN project[n].made
  PROVE  Found(project, [module |-> m, name |-> name]) = [module |-> n, router |-> v]
           <=> [module |-> m, router |-> name] = [module |-> n, router |-> v]
<1>1. v # ""
  BY DEF IsProject
<1>2. FileOf(project, m) = IF m \in DOMAIN project THEN m ELSE <<>>
  BY DEF FileOf
<1>3. Found(project, [module |-> m, name |-> name]) = Defined(project, [module |-> m, name |-> name])
  BY <1>2 DEF Found
<1>4. CASE m \in DOMAIN project /\ name # "" /\ name \in DOMAIN project[m].made
  BY <1>2, <1>3, <1>4 DEF Defined
<1>5. CASE ~(m \in DOMAIN project /\ name # "" /\ name \in DOMAIN project[m].made)
  <2>1. Defined(project, [module |-> m, name |-> name]).router = ""
    BY <1>2, <1>5 DEF Defined
  <2>2. Found(project, [module |-> m, name |-> name]) # [module |-> n, router |-> v]
    <3>1. [module |-> n, router |-> v].router = v
      OBVIOUS
    <3> QED
      BY <1>1, <1>3, <2>1, <3>1, Zenon
  <2>3. ~(m = n /\ name = v)
    BY <1>1, <1>5
  <2> QED
    BY <2>2, <2>3, SamePlace
<1> QED
  BY <1>4, <1>5

\* What a reference that starts with a direct import, or none, denotes is what it is resolved to.
LEMMA ReferenceIs ==
  ASSUME NEW project, IsProject(project), NEW f \in DOMAIN project, NEW ref \in Seq(STRING),
         Len(ref) \in 1 .. 3,
         ref[1] \in DOMAIN project[f].imports =>
           Direct(project, project[f].imports[ref[1]], Tail(ref)),
         NEW n \in DOMAIN project, NEW v \in DOMAIN project[n].made
  PROVE  Denoted(project, f, ref) = [module |-> n, router |-> v]
           <=> Resolve(ref, project[f], f) = [module |-> n, router |-> v]
<1> DEFINE head == ref[1]
           imports == project[f].imports
           it   == imports[head]
           first == Append(it.module, it.name)
           to   == [module |-> n, router |-> v]
<1>1. /\ Len(ref) = 1 \/ Len(ref) = 2 \/ Len(ref) = 3
      /\ Len(ref) = 1 => ~(Len(ref) > 1) /\ Tail(ref) = <<>>
      /\ Len(ref) # 1 => Len(ref) > 1
      /\ Len(ref) = 2 => Len(ref) # 1
      /\ Len(ref) = 3 => Len(ref) # 1 /\ Len(ref) # 2
      /\ Head(ref) = head
  BY Lengths
<1>2. Head(ref) = head
  BY <1>1
<1>3. v # "" /\ to.router = v /\ to # Unresolved
  BY DEF IsProject, Unresolved
<1>4. CASE head \notin DOMAIN imports
  <2>1. head \notin DOMAIN Imports(project[f])
    BY <1>4 DEF Imports
  <2>2. CASE Len(ref) = 1
    <3>1. Resolve(ref, project[f], f) = [module |-> f, router |-> head]
      BY <2>1, <2>2 DEF Resolve
    <3>2. Denoted(project, f, ref)
            = IF head \in DOMAIN project[f].made THEN [module |-> f, router |-> head] ELSE Unresolved
      BY <1>4, <2>2 DEF Denoted, Named
    <3>3. CASE head \in DOMAIN project[f].made
      BY <3>1, <3>2, <3>3
    <3>4. CASE head \notin DOMAIN project[f].made
      <4>1. ~(f = n /\ head = v)
        BY <3>4
      <4> QED
        <5>1. Denoted(project, f, ref) = Unresolved
          BY <3>2, <3>4
        <5>2. Resolve(ref, project[f], f) # to
          BY <3>1, <4>1, SamePlace
        <5> QED
          BY <1>3, <5>1, <5>2, Zenon DEF to
    <3> QED
      BY <3>3, <3>4
  <2>3. CASE Len(ref) # 1
    <3>1. Resolve(ref, project[f], f) = Unresolved
      <4>1. Len(ref) > 1
        BY <1>1, <2>3, Zenon
      <4> QED
        BY <1>2, <2>1, <4>1, Zenon DEF Resolve
    <3>2. \A x : Attribute(project, Unresolved, x) = Unresolved
      BY DEF Attribute
    <3>3. \A x : Attribute(project, Named(project, f, head), x) = Unresolved
      <4>1. CASE head \in DOMAIN project[f].made
        <5>1. Named(project, f, head).router = head /\ head # ""
          BY <4>1 DEF Named, IsProject
        <5> HIDE DEF head
        <5> QED
          BY <5>1, Zenon DEF Attribute
      <4>2. CASE head \notin DOMAIN project[f].made
        <5>1. Named(project, f, head) = Unresolved
          BY <1>4, <4>2 DEF Named
        <5> HIDE DEF head
        <5> QED
          BY <3>2, <5>1, Zenon
      <4> QED
        BY <4>1, <4>2
    <3>4. Denoted(project, f, ref) = Unresolved
      BY <2>3, <3>2, <3>3, Zenon DEF Denoted
    <3> QED
      BY <1>3, <3>1, <3>4
  <2> QED
    BY <2>2, <2>3
<1>5. CASE head \in DOMAIN imports
  <2>1. Direct(project, it, Tail(ref))
    BY <1>5
  <2>2. it.module \in Seq(STRING) /\ it.name \in STRING
    BY <1>5, Zenon DEF IsProject
  <2>3. it.level = 0 /\ it.name # "" /\ it.module # <<>>
    BY <2>1 DEF Direct
  <2>4. /\ first \in Seq(STRING) /\ first # <<>> /\ Front(first) = it.module /\ Last(first) = it.name
    BY <2>2, AppendedLast
  <2>5. head \in DOMAIN Imports(project[f]) /\ Imports(project[f])[head] = first
    BY <1>5, <2>3 DEF Imports
  <2>6. Named(project, f, head) = Found(project, [module |-> it.module, name |-> it.name])
    <3>1. head \notin DOMAIN project[f].made
      BY <1>5 DEF IsProject
    <3>2. Sought(f, it) = [module |-> it.module, name |-> it.name]
      BY <2>3 DEF Sought
    <3> QED
      BY <1>5, <3>1, <3>2 DEF Named
  <2> DEFINE here == [module |-> first, router |-> ""]
  <2>a. Attribute(project, here, ref[2]) = Found(project, [module |-> first, name |-> ref[2]])
    BY <2>4 DEF Attribute, Unresolved
  <2>7. CASE Len(ref) = 1
    <3>1. Tail(ref) = <<>>
      BY <1>1, <2>7, Zenon
    <3>2. first \o Tail(ref) = first
      BY <2>4, <3>1, ConcatEmptySeq
    <3>3. /\ Append(it.module, "__init__") \notin DOMAIN project
          /\ it.module \in DOMAIN project => it.name \notin DOMAIN project[it.module].imports
      <4> HIDE DEF it
      <4> QED
        BY <2>1, <2>4, <3>2 DEF Direct, first
    <3>4. Resolve(ref, project[f], f) = [module |-> it.module, router |-> it.name]
      BY <2>4, <2>5, <2>7 DEF Resolve
    <3>5. Denoted(project, f, ref) = Found(project, [module |-> it.module, name |-> it.name])
      BY <2>6, <2>7 DEF Denoted
    <3>6. Found(project, [module |-> it.module, name |-> it.name]) = to
            <=> [module |-> it.module, router |-> it.name] = to
      <4> DEFINE m == it.module
                 x == it.name
      <4>1. /\ m \in Seq(STRING) /\ m # <<>> /\ Append(m, "__init__") \notin DOMAIN project
            /\ m \in DOMAIN project => x \notin DOMAIN project[m].imports
        BY <2>2, <2>3, <3>3
      <4> HIDE DEF m, x
      <4>2. Found(project, [module |-> m, name |-> x]) = to <=> [module |-> m, router |-> x] = to
        BY <4>1, LastStep
      <4> QED
        BY <4>2 DEF m, x
    <3> QED
      BY <3>4, <3>5, <3>6
  <2>8. CASE Len(ref) = 2
    <3> DEFINE a == ref[2]
    <3>1. a \in STRING /\ Tail(ref) = <<a>> /\ Front(Tail(ref)) = <<>> /\ Last(ref) = a
      BY <2>8, SecondPart
    <3>2. first \o Tail(ref) = Append(first, a)
      BY <2>4, <3>1, AppendIsConcat
    <3>3. Front(Append(first, a)) = first /\ Last(Append(first, a)) = a
      <4> HIDE DEF first, a
      <4> QED
        BY <2>4, <3>1, AppendedLast
    <3>4. /\ Append(first, "__init__") \notin DOMAIN project
          /\ first \in DOMAIN project => a \notin DOMAIN project[first].imports
      <4> HIDE DEF it, a
      <4> QED
        BY <2>1, <3>2, <3>3 DEF Direct, first
    <3>5. Found(project, [module |-> it.module, name |-> it.name]) = here
      <4>1. Tail(ref) # <<>>
        BY <3>1
      <4> QED
        BY <2>1, <4>1 DEF Direct, first
    <3>6. Resolve(ref, project[f], f) = [module |-> first, router |-> a]
      <4>1. Resolve(ref, project[f], f) = [module |-> first \o <<>>, router |-> a]
        <5> HIDE DEF first, a, head
        <5> QED
          BY <1>1, <2>5, <2>8, <3>1, Zenon DEF Resolve
      <4> QED
        BY <2>4, <4>1, ConcatEmptySeq
    <3>7. Denoted(project, f, ref) = Found(project, [module |-> first, name |-> a])
      <4> HIDE DEF first, here
      <4> QED
        BY <1>1, <2>6, <2>8, <2>a, <3>5, Zenon DEF Denoted
    <3> HIDE DEF first, a
    <3>8. Found(project, [module |-> first, name |-> a]) = to
            <=> [module |-> first, router |-> a] = to
      BY <2>4, <3>4, LastStep
    <3> QED
      BY <3>6, <3>7, <3>8
  <2>9. CASE Len(ref) = 3
    <3> DEFINE a == ref[2]
               b == ref[3]
               second == Append(first, a)
               next == [module |-> second, router |-> ""]
    <3>1. /\ a \in STRING /\ b \in STRING /\ Tail(ref) = <<a, b>>
          /\ Front(Tail(ref)) = <<a>> /\ Last(ref) = b
      BY <2>9, ThirdPart
    <3>2. /\ second \in Seq(STRING) /\ second # <<>>
          /\ Front(Append(second, b)) = second /\ Last(Append(second, b)) = b
      <4>1. second \in Seq(STRING) /\ second # <<>>
        <5> HIDE DEF first, a
        <5> QED
          BY <2>4, <3>1, AppendedLast
      <4> HIDE DEF second, b
      <4> QED
        BY <3>1, <4>1, AppendedLast
    <3>3. Tail(ref) # <<>> /\ Len(Tail(ref)) = 2 /\ Tail(ref)[1] = a
      <4>1. <<a, b>> # <<>> /\ Len(<<a, b>>) = 2 /\ <<a, b>>[1] = a
        <5> HIDE DEF a, b
        <5> QED
          OBVIOUS
      <4> QED
        BY <3>1, <4>1, Zenon
    <3>4. first \o Tail(ref) = Append(second, b)
      <4>1. /\ Append(second, b) = second \o <<b>> /\ second = first \o <<a>>
        BY <2>4, <3>1, <3>2, AppendIsConcat
      <4>2. <<a>> \in Seq(STRING) /\ <<b>> \in Seq(STRING) /\ <<a>> \o <<b>> = <<a, b>>
        <5> HIDE DEF a, b
        <5> QED
          BY <3>1, PairIs
      <4>3. (first \o <<a>>) \o <<b>> = first \o (<<a>> \o <<b>>)
        <5> HIDE DEF first, a, b
        <5> QED
          BY <2>4, <4>2, ConcatAssociative
      <4> HIDE DEF first, second, a, b
      <4> QED
        BY <3>1, <4>1, <4>2, <4>3
    <3>5. /\ Append(second, "__init__") \notin DOMAIN project
          /\ second \in DOMAIN project => b \notin DOMAIN project[second].imports
      <4>1. /\ Append(Front(first \o Tail(ref)), "__init__") \notin DOMAIN project
            /\ Front(first \o Tail(ref)) \in DOMAIN project =>
                 Last(first \o Tail(ref)) \notin DOMAIN project[Front(first \o Tail(ref))].imports
        BY <2>1, Zenon DEF Direct, first
      <4> HIDE DEF first, second, b
      <4> QED
        BY <3>2, <3>4, <4>1
    <3>6. Found(project, [module |-> it.module, name |-> it.name]) = here
      BY <2>1, <3>3 DEF Direct, first
    <3>7. Found(project, [module |-> first, name |-> a]) = next
      BY <2>1, <3>3 DEF Direct, first
    <3>8. Resolve(ref, project[f], f) = [module |-> second, router |-> b]
      <4>1. Resolve(ref, project[f], f) = [module |-> first \o <<a>>, router |-> b]
        <5> HIDE DEF first, a, b, head
        <5> QED
          BY <1>1, <2>5, <2>9, <3>1, Zenon DEF Resolve
      <4>2. first \o <<a>> = second
        BY <2>4, <3>1, AppendIsConcat
      <4> QED
        BY <4>1, <4>2
    <3>9. Denoted(project, f, ref) = Found(project, [module |-> second, name |-> b])
      <4>1. Denoted(project, f, ref) = Attribute(project, Attribute(project, here, a), b)
        <5> HIDE DEF first, here
        <5> QED
          BY <1>1, <2>6, <2>9, <3>6, Zenon DEF Denoted
      <4>2. Attribute(project, next, b) = Found(project, [module |-> second, name |-> b])
        BY <3>2 DEF Attribute, Unresolved
      <4> HIDE DEF next, here, b, first
      <4> QED
        BY <2>a, <3>7, <4>1, <4>2
    <3> HIDE DEF b, second
    <3>10. Found(project, [module |-> second, name |-> b]) = to
             <=> [module |-> second, router |-> b] = to
      BY <3>2, <3>5, LastStep
    <3> QED
      BY <3>8, <3>9, <3>10
  <2> QED
    BY <1>1, <2>7, <2>8, <2>9
<1> QED
  BY <1>4, <1>5

\* The prefixes the reader mounts a router under are those it is included with.
LEMMA IncludeCallIs ==
  ASSUME NEW project, IsProject(project), Readable(project), NEW f \in DOMAIN project,
         NEW i \in project[f].includes, NEW n \in DOMAIN project, NEW v \in DOMAIN project[n].made
  PROVE  /\ ~i.keyword /\ ~i.early /\ Named(project, f, i.owner) \in Instances(project, "FastAPI")
         /\ Denoted(project, f, i.reference) = [module |-> n, router |-> v]
              <=> Resolve(i.reference, project[f], f) = [module |-> n, router |-> v]
<1>1. ReadableCall(project, f, i)
  BY DEF Readable
<1>2. i.reference \in Seq(STRING) /\ Len(i.reference) \in 1 .. 3
  BY Zenon DEF IsProject
<1>3. i.reference[1] \in DOMAIN project[f].imports =>
        Direct(project, project[f].imports[i.reference[1]], Tail(i.reference))
  BY <1>1, Zenon DEF ReadableCall
<1>4. Denoted(project, f, i.reference) = [module |-> n, router |-> v]
        <=> Resolve(i.reference, project[f], f) = [module |-> n, router |-> v]
  <2> DEFINE ref == i.reference
  <2> HIDE DEF ref
  <2>1. /\ ref \in Seq(STRING) /\ Len(ref) \in 1 .. 3
        /\ ref[1] \in DOMAIN project[f].imports =>
             Direct(project, project[f].imports[ref[1]], Tail(ref))
    BY <1>2, <1>3 DEF ref
  <2>2. Denoted(project, f, ref) = [module |-> n, router |-> v]
          <=> Resolve(ref, project[f], f) = [module |-> n, router |-> v]
    BY <2>1, ReferenceIs
  <2> QED
    BY <2>2 DEF ref
<1> QED
  BY <1>1, <1>4, Zenon DEF ReadableCall

LEMMA InstanceIs ==
  ASSUME NEW project, NEW class, NEW to
  PROVE  to \in Instances(project, class) <=>
           \E n \in DOMAIN project : \E v \in DOMAIN project[n].made :
             project[n].made[v].class = class /\ to = [module |-> n, router |-> v]
<1> DEFINE of(f) == {[module |-> f, router |-> v] :
                       v \in {u \in DOMAIN project[f].made : project[f].made[u].class = class}}
<1>1. \A f \in DOMAIN project : to \in of(f) <=>
        \E v \in DOMAIN project[f].made :
          project[f].made[v].class = class /\ to = [module |-> f, router |-> v]
  OBVIOUS
<1>2. Instances(project, class) = UNION {of(f) : f \in DOMAIN project}
  BY DEF Instances
<1> HIDE DEF of
<1> QED
  BY <1>1, <1>2

\* A route of a readable project is one of the variable it is decorated with, in its own file.
LEMMA OwnerIs ==
  ASSUME NEW project, IsProject(project), Readable(project), NEW f \in DOMAIN project,
         NEW r \in project[f].routes, NEW n \in DOMAIN project, NEW v \in DOMAIN project[n].made
  PROVE  Named(project, f, r.owner) = [module |-> n, router |-> v]
           <=> f = n /\ r.owner = v
<1>1. r.owner \notin DOMAIN project[f].imports
  BY DEF Readable
<1>2. Named(project, f, r.owner)
        = IF r.owner \in DOMAIN project[f].made THEN [module |-> f, router |-> r.owner] ELSE Unresolved
  BY <1>1 DEF Named
<1>3. CASE r.owner \in DOMAIN project[f].made
  BY <1>2, <1>3, SamePlace
<1>4. CASE r.owner \notin DOMAIN project[f].made
  <2>1. Unresolved # [module |-> n, router |-> v]
    BY DEF Unresolved, IsProject
  <2>2. ~(f = n /\ r.owner = v)
    BY <1>4
  <2> QED
    BY <1>2, <1>4, <2>1, <2>2, Zenon
<1> QED
  BY <1>3, <1>4

\* What one file has made is, in a readable project, what the reader sees made there.
LEMMA AssignedIs ==
  ASSUME NEW project, Readable(project), NEW n \in DOMAIN project, NEW class
  PROVE  Assigned(project[n], class)
           = {v \in DOMAIN project[n].made : project[n].made[v].class = class}
BY DEF Assigned, Readable

\* The prefixes the reader mounts a router under, and the routers an object includes.
LEMMA MountIs ==
  ASSUME NEW project, NEW n, NEW v, NEW prefix
  PROVE  prefix \in Mounts(project, n, v) <=>
           \E f \in DOMAIN project : \E i \in project[f].includes :
             ~i.keyword /\ i.prefix = prefix
             /\ Resolve(i.reference, project[f], f) = [module |-> n, router |-> v]
<1> DEFINE calls(f) == {[prefix |-> k.prefix, to |-> Resolve(k.reference, project[f], f)] :
                          k \in {h \in project[f].includes : ~h.keyword}}
           all == UNION {calls(f) : f \in DOMAIN project}
           to  == [module |-> n, router |-> v]
           call == [prefix |-> prefix, to |-> to]
<1>1. \A f \in DOMAIN project : call \in calls(f) <=>
        \E i \in project[f].includes :
          ~i.keyword /\ i.prefix = prefix /\ Resolve(i.reference, project[f], f) = to
  OBVIOUS
<1>2. \A j \in all : j = [prefix |-> j.prefix, to |-> j.to]
  OBVIOUS
<1>3. Mounts(project, n, v) = {i.prefix : i \in {j \in all : j.to = to}}
  BY Zenon DEF Mounts
<1> HIDE DEF calls, all
<1>4. prefix \in Mounts(project, n, v) <=> call \in all
  BY <1>2, <1>3
<1>5. call \in all <=> \E f \in DOMAIN project : call \in calls(f)
  BY DEF all
<1> QED
  BY <1>1, <1>4, <1>5

\* A call in a file has the object include a router, as m says.
IncludesAs(project, f, i, by, m) ==
  LET to == Denoted(project, f, i.reference) IN
  /\ Named(project, f, i.owner) = by /\ to \in Instances(project, "APIRouter")
  /\ ~(i.early /\ to.module = f)
  /\ m = [to |-> to, prefix |-> i.prefix \o project[to.module].made[to.router].prefix]

LEMMA IncludedIs ==
  ASSUME NEW project, NEW by, NEW m
  PROVE  m \in Included(project, by) <=>
           \E f \in DOMAIN project : \E i \in project[f].includes : IncludesAs(project, f, i, by, m)
<1> DEFINE to(f, i) == Denoted(project, f, i.reference)
           it(f, i) == [to |-> to(f, i),
                        prefix |-> i.prefix \o project[to(f, i).module].made[to(f, i).router].prefix]
           that(f, i) == /\ Named(project, f, i.owner) = by
                         /\ to(f, i) \in Instances(project, "APIRouter")
                         /\ ~(i.early /\ to(f, i).module = f)
           of(f) == {it(f, i) : i \in {j \in project[f].includes : that(f, j)}}
<1>1. Included(project, by) = UNION {of(f) : f \in DOMAIN project}
  BY Zenon DEF Included
<1>2. \A f \in DOMAIN project : m \in of(f) <=>
        \E i \in project[f].includes : that(f, i) /\ m = it(f, i)
  <2> HIDE DEF it, that
  <2> QED
    OBVIOUS
<1> HIDE DEF of
<1>3. m \in Included(project, by) <=>
        \E f \in DOMAIN project : \E i \in project[f].includes : that(f, i) /\ m = it(f, i)
  BY <1>1, <1>2
<1> QED
  BY <1>3, Zenon DEF IncludesAs

\* The route that a decorated function is, under a prefix.
Decorated(r, v, prefix, s) == r.owner = v /\ s = [method |-> r.method, path |-> prefix \o r.path]

\* What is decorated with a router is its own, under whichever prefix.
LEMMA OwnIs ==
  ASSUME NEW project, IsProject(project), Readable(project),
         NEW n \in DOMAIN project, NEW v \in DOMAIN project[n].made, NEW prefix, NEW s
  PROVE  s \in Own(project, [module |-> n, router |-> v], prefix) <=>
           \E r \in project[n].routes : Decorated(r, v, prefix, s)
<1> DEFINE to == [module |-> n, router |-> v]
           all == UNION {{q \in project[f].routes : Named(project, f, q.owner) = to} :
                          f \in DOMAIN project}
           route(r) == [method |-> r.method, path |-> prefix \o r.path]
<1>1. Own(project, to, prefix) = {route(r) : r \in all}
  BY Zenon DEF Own
<1>2. \A r : r \in all <=> \E f \in DOMAIN project : r \in project[f].routes
                                                     /\ Named(project, f, r.owner) = to
  <2> HIDE DEF to
  <2> QED
    OBVIOUS
<1>3. \A r : r \in all <=> r \in project[n].routes /\ r.owner = v
  BY <1>2, OwnerIs DEF to
<1> HIDE DEF all, to, route
<1>4. s \in Own(project, to, prefix) <=> \E r \in project[n].routes : r.owner = v /\ s = route(r)
  BY <1>1, <1>3, Zenon
<1> QED
  BY <1>4, Zenon DEF to, route, Decorated

\* What is read is served: a route of an application, or of a router that it includes.
LEMMA ReadIsServed ==
  ASSUME NEW project, IsProject(project), Readable(project),
         NEW e \in ImplementedEndpoints(project)
  PROVE  \E s \in Served(project) : e = Normalized(s.method, s.path)
<1>0. PICK n \in DOMAIN project : \E r \in project[n].routes : e \in Endpoints(project, n, r)
  BY DEF ImplementedEndpoints
<1>1. PICK r \in project[n].routes : e \in Endpoints(project, n, r)
  BY <1>0
<1> DEFINE v  == r.owner
           to == [module |-> n, router |-> v]
<1>2. CASE v \in Assigned(project[n], "FastAPI")
  <2> DEFINE s == [method |-> r.method, path |-> <<>> \o r.path]
  <2>1. v \in DOMAIN project[n].made /\ project[n].made[v].class = "FastAPI"
    BY <1>2 DEF Assigned
  <2>2. to \in Instances(project, "FastAPI")
    BY <2>1, InstanceIs
  <2>3. s \in Own(project, to, <<>>)
    <3>1. Decorated(r, v, <<>>, s)
      BY DEF Decorated
    <3> HIDE DEF s
    <3> QED
      BY <2>1, <3>1, OwnIs
  <2>4. s \in Served(project)
    <3> HIDE DEF s, to
    <3> QED
      BY <2>2, <2>3 DEF Served, ServedBy
  <2>5. s.path = r.path /\ s.method = r.method
    <3>1. r.path \in Seq(STRING)
      BY DEF IsProject
    <3> QED
      BY <3>1, ConcatEmptySeq
  <2>6. e = Normalized(r.method, r.path)
    BY <1>1, <1>2 DEF Endpoints
  <2> HIDE DEF s
  <2> QED
    BY <2>4, <2>5, <2>6, Zenon
<1>3. CASE v \notin Assigned(project[n], "FastAPI")
  <2>1. v \in Assigned(project[n], "APIRouter")
    BY <1>1, <1>3 DEF Endpoints
  <2>2. PICK prefix \in Mounts(project, n, v) :
          e = Normalized(r.method, prefix \o project[n].made[v].prefix \o r.path)
    BY <1>1, <1>3, <2>1 DEF Endpoints
  <2>3. v \in DOMAIN project[n].made /\ project[n].made[v].class = "APIRouter"
    BY <2>1 DEF Assigned
  <2>4. PICK f \in DOMAIN project : \E i \in project[f].includes :
          ~i.keyword /\ i.prefix = prefix /\ Resolve(i.reference, project[f], f) = to
    BY MountIs
  <2>5. PICK i \in project[f].includes :
          ~i.keyword /\ i.prefix = prefix /\ Resolve(i.reference, project[f], f) = to
    BY <2>4
  <2> DEFINE app == Named(project, f, i.owner)
             m   == [to |-> to, prefix |-> prefix \o project[n].made[v].prefix]
             s   == [method |-> r.method, path |-> m.prefix \o r.path]
  <2>6. ~i.early /\ app \in Instances(project, "FastAPI") /\ Denoted(project, f, i.reference) = to
    BY <2>3, <2>5, IncludeCallIs
  <2>7. to \in Instances(project, "APIRouter") /\ to.module = n /\ to.router = v
    BY <2>3, InstanceIs
  <2>8. m \in Included(project, app)
    <3>1. IncludesAs(project, f, i, app, m)
      BY <2>5, <2>6, <2>7, Zenon DEF IncludesAs
    <3> HIDE DEF app, m
    <3> QED
      BY <3>1, IncludedIs
  <2>9. s \in Own(project, m.to, m.prefix)
    <3>1. m.to = to
      OBVIOUS
    <3>2. s \in Own(project, to, m.prefix)
      <4>1. Decorated(r, v, m.prefix, s)
        BY DEF Decorated
      <4> HIDE DEF s, m
      <4> QED
        BY <2>3, <4>1, OwnIs
    <3> QED
      BY <3>1, <3>2, Zenon
  <2>10. s \in Served(project)
    <3> HIDE DEF s, m, app
    <3> QED
      <4>1. s \in OfRouter(project, m.to, m.prefix)
        BY <2>9 DEF OfRouter
      <4>2. s \in ServedBy(project, app)
        BY <2>8, <4>1 DEF ServedBy
      <4> QED
        BY <2>6, <4>2 DEF Served
  <2>11. s.method = r.method /\ s.path = prefix \o project[n].made[v].prefix \o r.path
    OBVIOUS
  <2> HIDE DEF s
  <2> QED
    BY <2>2, <2>10, <2>11, Zenon
<1> QED
  BY <1>2, <1>3

\* What is served is read: no router includes another here, only an application does.
LEMMA ServedIsRead ==
  ASSUME NEW project, IsProject(project), Readable(project), NEW s \in Served(project)
  PROVE  Normalized(s.method, s.path) \in ImplementedEndpoints(project)
<1>1. PICK app \in Instances(project, "FastAPI") : s \in ServedBy(project, app)
  BY DEF Served
<1>2. CASE s \in Own(project, app, <<>>)
  <2>1. PICK n \in DOMAIN project : \E v \in DOMAIN project[n].made :
          project[n].made[v].class = "FastAPI" /\ app = [module |-> n, router |-> v]
    BY InstanceIs
  <2>2. PICK v \in DOMAIN project[n].made :
          project[n].made[v].class = "FastAPI" /\ app = [module |-> n, router |-> v]
    BY <2>1
  <2>a. s \in Own(project, [module |-> n, router |-> v], <<>>)
    BY <1>2, <2>2
  <2>b. PICK r \in project[n].routes : Decorated(r, v, <<>>, s)
    BY <2>a, OwnIs
  <2>3. r.owner = v /\ s = [method |-> r.method, path |-> <<>> \o r.path]
    BY <2>b DEF Decorated
  <2>4. s.path = r.path /\ s.method = r.method
    <3>1. r.path \in Seq(STRING)
      BY DEF IsProject
    <3> QED
      BY <2>3, <3>1, ConcatEmptySeq
  <2>5. v \in Assigned(project[n], "FastAPI")
    BY <2>2, AssignedIs
  <2>6. Normalized(r.method, r.path) \in Endpoints(project, n, r)
    BY <2>3, <2>5 DEF Endpoints
  <2>7. Normalized(r.method, r.path) \in ImplementedEndpoints(project)
    BY <2>6 DEF ImplementedEndpoints
  <2> QED
    BY <2>4, <2>7, Zenon
<1>3. ASSUME NEW m \in Included(project, app), s \in OfRouter(project, m.to, m.prefix)
      PROVE  Normalized(s.method, s.path) \in ImplementedEndpoints(project)
  <2>1. PICK f \in DOMAIN project : \E i \in project[f].includes : IncludesAs(project, f, i, app, m)
    BY <1>3, IncludedIs
  <2>2. PICK i \in project[f].includes : IncludesAs(project, f, i, app, m)
    BY <2>1
  <2> DEFINE to == Denoted(project, f, i.reference)
  <2>a. /\ to \in Instances(project, "APIRouter") /\ m.to = to
        /\ m.prefix = i.prefix \o project[to.module].made[to.router].prefix
    BY <2>2 DEF IncludesAs
  <2>b. m.to \in Instances(project, "APIRouter")
    BY <2>a, Zenon
  <2> HIDE DEF to
  <2>3. PICK n \in DOMAIN project : \E v \in DOMAIN project[n].made :
          project[n].made[v].class = "APIRouter" /\ to = [module |-> n, router |-> v]
    BY <2>a, InstanceIs
  <2>4. PICK v \in DOMAIN project[n].made :
          project[n].made[v].class = "APIRouter" /\ to = [module |-> n, router |-> v]
    BY <2>3
  <2>5. m.to = [module |-> n, router |-> v] /\ m.prefix = i.prefix \o project[n].made[v].prefix
    <3>1. to.module = n /\ to.router = v
      BY <2>4
    <3> QED
      BY <2>a, <2>4, <3>1, Zenon
  <2>6. Included(project, m.to) = {}
    <3> SUFFICES ASSUME NEW k \in Included(project, m.to) PROVE FALSE
      OBVIOUS
    <3>1. PICK g \in DOMAIN project : \E j \in project[g].includes : IncludesAs(project, g, j, m.to, k)
      BY IncludedIs
    <3>b. PICK j \in project[g].includes : IncludesAs(project, g, j, m.to, k)
      BY <3>1
    <3>2. Named(project, g, j.owner) = m.to
      BY <3>b DEF IncludesAs
    <3>3. m.to \in Instances(project, "FastAPI")
      BY <2>4, <3>2, IncludeCallIs
    <3>a. PICK p \in DOMAIN project : \E u \in DOMAIN project[p].made :
            project[p].made[u].class = "FastAPI" /\ m.to = [module |-> p, router |-> u]
      BY <3>3, InstanceIs
    <3>4. PICK u \in DOMAIN project[p].made :
            project[p].made[u].class = "FastAPI" /\ m.to = [module |-> p, router |-> u]
      BY <3>a
    <3>5. p = n /\ u = v
      BY <2>5, <3>4, SamePlace
    <3> QED
      BY <2>4, <3>4, <3>5
  <2>7. s \in Own(project, m.to, m.prefix)
    BY <1>3, <2>6 DEF OfRouter
  <2>c. PICK r \in project[n].routes : Decorated(r, v, m.prefix, s)
    <3>1. s \in Own(project, [module |-> n, router |-> v], m.prefix)
      BY <2>5, <2>7
    <3> QED
      BY <3>1, OwnIs
  <2>8. r.owner = v /\ s = [method |-> r.method, path |-> m.prefix \o r.path]
    BY <2>c DEF Decorated
  <2>9. i.prefix \in Mounts(project, n, v)
    <3>1. ~i.keyword /\ Resolve(i.reference, project[f], f) = [module |-> n, router |-> v]
      BY <2>4, IncludeCallIs DEF to
    <3> QED
      BY <3>1, MountIs
  <2>10. v \in Assigned(project[n], "APIRouter") /\ v \notin Assigned(project[n], "FastAPI")
    BY <2>4, AssignedIs
  <2> DEFINE of(prefix) == Normalized(r.method, prefix \o project[n].made[v].prefix \o r.path)
  <2>11. of(i.prefix) \in Endpoints(project, n, r)
    <3>1. Endpoints(project, n, r) = {of(prefix) : prefix \in Mounts(project, n, v)}
      BY <2>8, <2>10, Zenon DEF Endpoints
    <3> HIDE DEF of
    <3> QED
      BY <2>9, <3>1
  <2>12. of(i.prefix) \in ImplementedEndpoints(project)
    <3> HIDE DEF of
    <3> QED
      BY <2>11 DEF ImplementedEndpoints
  <2>13. s.method = r.method /\ s.path = i.prefix \o project[n].made[v].prefix \o r.path
    BY <2>5, <2>8
  <2> QED
    BY <2>12, <2>13, Zenon
<1> QED
  BY <1>1, <1>2, <1>3 DEF ServedBy

\* If the calls of a generated project are readable, whatever else it imports, mounts and includes,
\* the evaluation reads exactly the endpoints that it would serve (evals/routes.py).
THEOREM RoutesAreRead ==
  ASSUME NEW project, IsProject(project)
  PROVE  RoutesRight(project)
<1> SUFFICES ASSUME Readable(project) PROVE ReadAsServed(project)
  BY DEF RoutesRight
<1>1. \A e \in ImplementedEndpoints(project) :
        e \in {Normalized(s.method, s.path) : s \in Served(project)}
  BY ReadIsServed
<1>2. \A s \in Served(project) : Normalized(s.method, s.path) \in ImplementedEndpoints(project)
  BY ServedIsRead
<1> QED
  BY <1>1, <1>2 DEF ReadAsServed

-----------------------------------------------------------------------------
(* Relations between entities                                              *)

Edges(g, x) == IF x \in DOMAIN g THEN ToSet(g[x]) ELSE {}
Nodes(g, s) == {s} \cup UNION {ToSet(g[x]) : x \in DOMAIN g}
Closed(g, S) == \A x \in S : Edges(g, x) \subseteq S

\* The rounds of a search along kept edges.
Search(g, s, f) ==
  /\ f \in [0 .. Cardinality(DOMAIN g) -> SUBSET Nodes(g, s)]
  /\ f[0] = {s}
  /\ \A n \in 1 .. Cardinality(DOMAIN g) :
        f[n] = f[n - 1] \cup UNION {ToSet(g[y]) : y \in f[n - 1] \cap DOMAIN g}
  /\ Reached(g, s) = f[Cardinality(DOMAIN g)]

LEMMA ReachedRounds ==
  ASSUME NEW g, IsFiniteSet(DOMAIN g), NEW s
  PROVE  \E f : Search(g, s, f)
<1> DEFINE N == Cardinality(DOMAIN g)
           S == SUBSET Nodes(g, s)
           base == {s}
           step(n, x) == x \cup UNION {ToSet(g[y]) : y \in x \cap DOMAIN g}
           table == [p \in (1 .. N) \X S |-> step(p[1], p[2])]
           Rec(f) == f = [n \in 0 .. N |-> IF n = 0 THEN base ELSE step(n, f[n - 1])]
           f == CHOOSE f : Rec(f)
<1>1. N \in Nat /\ base \in S
  BY FS_CardinalityType DEF Nodes
<1>2. ASSUME NEW n \in 1 .. N, NEW x \in S
      PROVE  step(n, x) \in S
  BY DEF Nodes
<1>3. Reached(g, s) = f[N]
  BY DEF Reached
<1> HIDE DEF N, S, base, step
<1>4. \E h : Rec(h)
  <2>1. table \in [(1 .. N) \X S -> S]
    BY <1>2
  <2>2. PICK h \in [0 .. N -> S] : Iteration(h, N, base, table)
    <3> HIDE DEF table
    <3> QED
      BY <1>1, <2>1, Iterates, Zenon
  <2>3. \A n \in 0 .. N : h[n] = IF n = 0 THEN base ELSE table[<<n, h[n - 1]>>]
    <3> HIDE DEF table
    <3> QED
      BY <2>2, Zenon DEF Iteration
  <2>4. ASSUME NEW n \in 0 .. N PROVE h[n] = IF n = 0 THEN base ELSE step(n, h[n - 1])
    <3>1. CASE n # 0
      <4>1. n \in 1 .. N /\ n - 1 \in 0 .. N
        BY <1>1, <3>1
      <4>2. <<n, h[n - 1]>> \in (1 .. N) \X S
        BY <2>2, <4>1
      <4>3. table[<<n, h[n - 1]>>] = step(n, h[n - 1])
        BY <4>2
      <4> QED
        BY <2>3, <3>1, <4>3, Zenon
    <3> QED
      BY <2>3, <3>1, Zenon
  <2>5. h = [n \in 0 .. N |-> h[n]]
    BY <2>2
  <2> QED
    BY <2>4, <2>5, Zenon
<1>5. Rec(f)
  <2> HIDE DEF Rec
  <2> QED
    BY <1>4, Zenon
<1>6. f[0] = base /\ \A n \in 1 .. N : f[n] = step(n, f[n - 1])
  <2> HIDE DEF f
  <2>1. 0 \in 0 .. N /\ \A n \in 1 .. N : n \in 0 .. N /\ n # 0
    BY <1>1
  <2> QED
    BY <1>5, <2>1, Zenon
<1>7. f \in [0 .. N -> S]
  <2> HIDE DEF f
  <2> DEFINE T == {n \in 0 .. N : f[n] \in S}
  <2>1. 0 \in T
    BY <1>1, <1>6
  <2>2. ASSUME NEW n \in 0 .. N - 1, n \in T PROVE n + 1 \in T
    <3>1. n + 1 \in 1 .. N /\ n + 1 \in 0 .. N /\ (n + 1) - 1 = n
      BY <1>1
    <3> QED
      BY <1>2, <1>6, <2>2, <3>1
  <2>3. \A n \in 0 .. N : n \in T
    <3> HIDE DEF T
    <3> QED
      BY <1>1, <2>1, <2>2, UpTo
  <2>4. f = [n \in 0 .. N |-> f[n]]
    BY <1>5
  <2> QED
    BY <2>3, <2>4
<1> QED
  <2> HIDE DEF f, Rec
  <2> QED
    BY <1>3, <1>6, <1>7, Zenon DEF N, S, base, step, Search

\* A search ends in a set that edges do not leave: every round that finds no such set finds a node
\* with edges, and there are as many rounds as these.
LEMMA ReachedIsClosed ==
  ASSUME NEW g, IsFiniteSet(DOMAIN g), NEW s
  PROVE  s \in Reached(g, s) /\ Closed(g, Reached(g, s))
<1> DEFINE N == Cardinality(DOMAIN g)
           Rest(A) == UNION {ToSet(g[y]) : y \in A \cap DOMAIN g}
<1>0. N \in Nat
  BY FS_CardinalityType
<1>r. PICK f : Search(g, s, f)
  BY ReachedRounds
<1>1. /\ f \in [0 .. N -> SUBSET Nodes(g, s)] /\ f[0] = {s}
      /\ \A n \in 1 .. N : f[n] = f[n - 1] \cup Rest(f[n - 1])
      /\ Reached(g, s) = f[N]
  BY <1>r DEF Search
<1>2. \A A : /\ IsFiniteSet(A \cap DOMAIN g)
             /\ Cardinality(A \cap DOMAIN g) \in Nat /\ Cardinality(A \cap DOMAIN g) <= N
  <2> TAKE A
  <2>1. A \cap DOMAIN g \subseteq DOMAIN g
    OBVIOUS
  <2>2. IsFiniteSet(A \cap DOMAIN g) /\ Cardinality(A \cap DOMAIN g) \in Nat
          /\ Cardinality(A \cap DOMAIN g) <= N
    BY <2>1, FS_Subset, FS_CardinalityType
  <2> QED
    BY <1>0, <2>2
<1>3. \A A : A \cap DOMAIN g = (A \cup Rest(A)) \cap DOMAIN g => Closed(g, A \cup Rest(A))
  <2> SUFFICES ASSUME NEW A, A \cap DOMAIN g = (A \cup Rest(A)) \cap DOMAIN g,
                      NEW x \in A \cup Rest(A)
               PROVE  Edges(g, x) \subseteq A \cup Rest(A)
    BY DEF Closed
  <2>1. CASE x \in DOMAIN g
    <3>1. x \in A \cap DOMAIN g
      BY <2>1
    <3> QED
      BY <3>1 DEF Edges
  <2> QED
    BY <2>1 DEF Edges
<1>4. \A A : Closed(g, A) => A \cup Rest(A) = A
  BY DEF Closed, Edges
<1> DEFINE T == {n \in 0 .. N : s \in f[n] /\ (Closed(g, f[n]) \/ Cardinality(f[n] \cap DOMAIN g) > n)}
<1>5. 0 \in T
  <2>1. CASE s \in DOMAIN g
    <3>1. f[0] \cap DOMAIN g = {s}
      BY <1>1, <2>1
    <3>2. Cardinality({s}) = 1
      BY FS_Singleton
    <3>3. Cardinality(f[0] \cap DOMAIN g) = 1
      BY <3>1, <3>2, Zenon
    <3>4. Cardinality(f[0] \cap DOMAIN g) > 0
      BY ONLY <3>3
    <3>5. 0 \in 0 .. N /\ s \in f[0]
      BY <1>0, <1>1
    <3> QED
      BY <3>4, <3>5, Zenon
  <2>2. CASE s \notin DOMAIN g
    BY <1>0, <1>1, <2>2 DEF Closed, Edges
  <2> QED
    BY <2>1, <2>2
<1>6. ASSUME NEW n \in 0 .. N - 1, n \in T PROVE n + 1 \in T
  <2> DEFINE A == f[n]
             B == f[n + 1]
  <2>1. n + 1 \in 1 .. N /\ n + 1 \in 0 .. N /\ (n + 1) - 1 = n
    BY <1>0
  <2>2. B = A \cup Rest(A)
    BY <1>1, <2>1
  <2>3. s \in A /\ s \in B
    BY <1>6, <2>2
  <2>4. CASE Closed(g, A)
    <3>1. B = A
      BY <1>4, <2>2, <2>4
    <3> QED
      BY <2>1, <2>3, <2>4, <3>1
  <2>5. CASE Cardinality(A \cap DOMAIN g) > n
    <3>1. CASE A \cap DOMAIN g = B \cap DOMAIN g
      <4>1. Closed(g, B)
        <5> HIDE DEF Rest, A, B
        <5> QED
          BY <1>3, <2>2, <3>1
      <4> QED
        BY <2>1, <2>3, <4>1
    <3>2. CASE A \cap DOMAIN g # B \cap DOMAIN g
      <4>1. A \cap DOMAIN g \subseteq B \cap DOMAIN g
        BY <2>2
      <4>2. Cardinality(A \cap DOMAIN g) < Cardinality(B \cap DOMAIN g)
        <5> HIDE DEF A, B
        <5>1. IsFiniteSet(B \cap DOMAIN g)
          BY <1>2
        <5>2. Cardinality(A \cap DOMAIN g) <= Cardinality(B \cap DOMAIN g)
                /\ Cardinality(A \cap DOMAIN g) # Cardinality(B \cap DOMAIN g)
          BY <3>2, <4>1, <5>1, FS_Subset
        <5>3. Cardinality(A \cap DOMAIN g) \in Nat /\ Cardinality(B \cap DOMAIN g) \in Nat
          BY <1>2, Zenon
        <5> QED
          BY <5>2, <5>3
      <4>3. Cardinality(A \cap DOMAIN g) \in Nat /\ Cardinality(B \cap DOMAIN g) \in Nat
        BY <1>2, Zenon
      <4>4. Cardinality(B \cap DOMAIN g) > n + 1
        <5> HIDE DEF A, B
        <5> QED
          BY <1>0, <2>5, <4>2, <4>3
      <4> QED
        BY <2>1, <2>3, <4>4
    <3> QED
      BY <3>1, <3>2
  <2> QED
    BY <1>6, <2>4, <2>5
<1>7. \A n \in 0 .. N : n \in T
  <2> HIDE DEF T, N
  <2> QED
    BY <1>0, <1>5, <1>6, UpTo
<1>8. N \in T
  BY <1>0, <1>7
<1>9. ~ (Cardinality(f[N] \cap DOMAIN g) > N)
  <2>1. Cardinality(f[N] \cap DOMAIN g) \in Nat /\ Cardinality(f[N] \cap DOMAIN g) <= N
    BY <1>2, Zenon
  <2> QED
    BY <1>0, <2>1
<1> QED
  BY <1>1, <1>8, <1>9

\* It finds nothing else than any such set has.
LEMMA ReachedIsLeast ==
  ASSUME NEW g, IsFiniteSet(DOMAIN g), NEW s, NEW S, s \in S, Closed(g, S)
  PROVE  Reached(g, s) \subseteq S
<1> DEFINE N == Cardinality(DOMAIN g)
           Rest(A) == UNION {ToSet(g[y]) : y \in A \cap DOMAIN g}
<1>0. N \in Nat
  BY FS_CardinalityType
<1>r. PICK f : Search(g, s, f)
  BY ReachedRounds
<1>1. /\ f \in [0 .. N -> SUBSET Nodes(g, s)] /\ f[0] = {s}
      /\ \A n \in 1 .. N : f[n] = f[n - 1] \cup Rest(f[n - 1])
      /\ Reached(g, s) = f[N]
  BY <1>r DEF Search
<1> DEFINE T == {n \in 0 .. N : f[n] \subseteq S}
<1>2. 0 \in T
  BY <1>0, <1>1
<1>3. ASSUME NEW n \in 0 .. N - 1, n \in T PROVE n + 1 \in T
  <2>1. n + 1 \in 1 .. N /\ n + 1 \in 0 .. N /\ (n + 1) - 1 = n
    BY <1>0
  <2>2. f[n + 1] = f[n] \cup Rest(f[n])
    BY <1>1, <2>1
  <2>3. Rest(f[n]) \subseteq S
    BY <1>3 DEF Closed, Edges
  <2> QED
    BY <1>3, <2>1, <2>2, <2>3
<1>4. \A n \in 0 .. N : n \in T
  <2> HIDE DEF T, N
  <2> QED
    BY <1>0, <1>2, <1>3, UpTo
<1> QED
  BY <1>0, <1>1, <1>4

\* Edges of edges.
LEMMA ReachedOnwards ==
  ASSUME NEW g, IsFiniteSet(DOMAIN g), NEW s, NEW x \in Reached(g, s)
  PROVE  Reached(g, x) \subseteq Reached(g, s) /\ Edges(g, x) \subseteq Reached(g, s)
BY ReachedIsClosed, ReachedIsLeast DEF Closed

\* More edges lead further.
LEMMA ReachedGrows ==
  ASSUME NEW g, IsFiniteSet(DOMAIN g), NEW h, IsFiniteSet(DOMAIN h), NEW s,
         \A x : Edges(g, x) \subseteq Edges(h, x)
  PROVE  Reached(g, s) \subseteq Reached(h, s)
<1>1. s \in Reached(h, s) /\ Closed(h, Reached(h, s))
  BY ReachedIsClosed
<1>2. Closed(g, Reached(h, s))
  BY <1>1 DEF Closed
<1> QED
  BY <1>1, <1>2, ReachedIsLeast

\* What is found is the start itself or found from one of its edges.
LEMMA ReachedFirst ==
  ASSUME NEW g, IsFiniteSet(DOMAIN g), NEW s, NEW x \in Reached(g, s), x # s
  PROVE  \E y \in Edges(g, s) : x \in Reached(g, y)
<1> DEFINE S == {s} \cup UNION {Reached(g, y) : y \in Edges(g, s)}
<1>1. Closed(g, S)
  <2> SUFFICES ASSUME NEW z \in S PROVE Edges(g, z) \subseteq S
    BY DEF Closed
  <2>1. CASE z = s
    BY <2>1, ReachedIsClosed
  <2>2. ASSUME NEW y \in Edges(g, s), z \in Reached(g, y) PROVE Edges(g, z) \subseteq S
    <3>1. Edges(g, z) \subseteq Reached(g, y)
      BY <2>2, ReachedOnwards
    <3> QED
      BY <3>1
  <2> QED
    BY <2>1, <2>2
<1>2. Reached(g, s) \subseteq S
  <2> HIDE DEF S
  <2>1. s \in S
    BY DEF S
  <2> QED
    BY <1>1, <2>1, ReachedIsLeast
<1> QED
  BY <1>2

\* No nodes have each an edge to one of them.
Acyclic(g) == \A S \in SUBSET DOMAIN g : S # {} => \E x \in S : Edges(g, x) \cap S = {}

\* An edge whose end does not lead back to its start closes no cycle.
LEMMA EdgeClosesNone ==
  ASSUME NEW g, IsFiniteSet(DOMAIN g), Acyclic(g), NEW h, NEW c, NEW p, c \notin Reached(g, p),
         DOMAIN h = DOMAIN g, Edges(h, c) \subseteq Edges(g, c) \cup {p},
         \A x : x # c => Edges(h, x) = Edges(g, x)
  PROVE  Acyclic(h)
<1> SUFFICES ASSUME NEW S \in SUBSET DOMAIN h, S # {}, \A x \in S : Edges(h, x) \cap S # {}
             PROVE  FALSE
  BY DEF Acyclic
<1>1. PICK y \in S : Edges(g, y) \cap S = {}
  BY DEF Acyclic
<1>2. y = c /\ p \in S
  BY <1>1
<1> DEFINE T == S \cap Reached(g, p)
<1>3. p \in T
  BY <1>2, ReachedIsClosed
<1>4. PICK x \in T : Edges(g, x) \cap T = {}
  BY <1>3 DEF Acyclic
<1>5. Edges(g, x) \subseteq Reached(g, p)
  BY <1>4, ReachedOnwards
<1>6. Edges(h, x) = Edges(g, x)
  BY <1>4
<1>7. PICK z \in S : z \in Edges(h, x)
  BY <1>4
<1> QED
  BY <1>4, <1>5, <1>6, <1>7

\* In a graph without cycles no edge leads back.
LEMMA EdgesLeadAway ==
  ASSUME NEW g, IsFiniteSet(DOMAIN g), Acyclic(g), NEW c, NEW p \in Edges(g, c)
  PROVE  c \notin Reached(g, p)
<1> SUFFICES ASSUME c \in Reached(g, p) PROVE FALSE
  OBVIOUS
<1> DEFINE S == {x \in DOMAIN g : x \in Reached(g, p) /\ c \in Reached(g, x)}
<1>1. c \in DOMAIN g /\ c \in Reached(g, c)
  BY ReachedIsClosed DEF Edges
<1>2. ASSUME NEW y \in Reached(g, p), c \in Reached(g, y) PROVE y \in S
  <2>1. CASE y = c
    BY <1>1, <1>2, <2>1
  <2>2. CASE y # c
    <3>1. \E z \in Edges(g, y) : c \in Reached(g, z)
      BY <1>2, <2>2, ReachedFirst
    <3> QED
      BY <1>2, <3>1 DEF Edges
  <2> QED
    BY <2>1, <2>2
<1>3. p \in Reached(g, p) /\ p \in S
  BY <1>2, ReachedIsClosed
<1>4. PICK x \in S : Edges(g, x) \cap S = {}
  BY <1>3 DEF Acyclic
<1>5. \E y \in Edges(g, x) : c \in Reached(g, y)
  <2>1. CASE x = c
    BY <2>1
  <2>2. CASE x # c
    BY <1>4, <2>2, ReachedFirst
  <2> QED
    BY <2>1, <2>2
<1>6. Edges(g, x) \subseteq Reached(g, p)
  BY <1>4, ReachedOnwards
<1> QED
  BY <1>2, <1>4, <1>5, <1>6

\* What an entity keeps of its first parents.
Choosing(known, kept, e, f) ==
  /\ f \in [0 .. Len(e.belongs_to) -> Seq(STRING)]
  /\ f[0] = <<>>
  /\ \A n \in 1 .. Len(e.belongs_to) :
        f[n] = IF /\ e.belongs_to[n] \in known \ {e.name}
                  /\ e.belongs_to[n] \notin ToSet(f[n - 1])
                  /\ e.name \notin Reached(With(kept, e.name, f[n - 1]), e.belongs_to[n])
               THEN Append(f[n - 1], e.belongs_to[n]) ELSE f[n - 1]
  /\ KeepParents(known, kept, e) = f[Len(e.belongs_to)]

LEMMA ParentsInTurn ==
  ASSUME NEW known, NEW kept, NEW e, e.belongs_to \in Seq(STRING)
  PROVE  \E f : Choosing(known, kept, e, f)
<1> DEFINE N == Len(e.belongs_to)
           S == Seq(STRING)
           base == <<>>
           step(n, x) == IF /\ e.belongs_to[n] \in known \ {e.name}
                  /\ e.belongs_to[n] \notin ToSet(x)
                  /\ e.name \notin Reached(With(kept, e.name, x), e.belongs_to[n])
               THEN Append(x, e.belongs_to[n]) ELSE x
           table == [p \in (1 .. N) \X S |-> step(p[1], p[2])]
           Rec(f) == f = [n \in 0 .. N |-> IF n = 0 THEN base ELSE step(n, f[n - 1])]
           f == CHOOSE f : Rec(f)
<1>1. N \in Nat /\ base \in S
  OBVIOUS
<1>2. ASSUME NEW n \in 1 .. N, NEW x \in S
      PROVE  step(n, x) \in S
  <2>1. e.belongs_to[n] \in STRING
    OBVIOUS
  <2>2. Append(x, e.belongs_to[n]) \in S
    BY <2>1
  <2> QED
    BY <2>2, Zenon
<1>3. KeepParents(known, kept, e) = f[N]
  BY DEF KeepParents
<1> HIDE DEF N, S, base, step
<1>4. \E h : Rec(h)
  <2>1. table \in [(1 .. N) \X S -> S]
    BY <1>2
  <2>2. PICK h \in [0 .. N -> S] : Iteration(h, N, base, table)
    <3> HIDE DEF table
    <3> QED
      BY <1>1, <2>1, Iterates, Zenon
  <2>3. \A n \in 0 .. N : h[n] = IF n = 0 THEN base ELSE table[<<n, h[n - 1]>>]
    <3> HIDE DEF table
    <3> QED
      BY <2>2, Zenon DEF Iteration
  <2>4. ASSUME NEW n \in 0 .. N PROVE h[n] = IF n = 0 THEN base ELSE step(n, h[n - 1])
    <3>1. CASE n # 0
      <4>1. n \in 1 .. N /\ n - 1 \in 0 .. N
        BY <1>1, <3>1
      <4>2. <<n, h[n - 1]>> \in (1 .. N) \X S
        BY <2>2, <4>1
      <4>3. table[<<n, h[n - 1]>>] = step(n, h[n - 1])
        BY <4>2
      <4> QED
        BY <2>3, <3>1, <4>3, Zenon
    <3> QED
      BY <2>3, <3>1, Zenon
  <2>5. h = [n \in 0 .. N |-> h[n]]
    BY <2>2
  <2> QED
    BY <2>4, <2>5, Zenon
<1>5. Rec(f)
  <2> HIDE DEF Rec
  <2> QED
    BY <1>4, Zenon
<1>6. f[0] = base /\ \A n \in 1 .. N : f[n] = step(n, f[n - 1])
  <2> HIDE DEF f
  <2>1. 0 \in 0 .. N /\ \A n \in 1 .. N : n \in 0 .. N /\ n # 0
    BY <1>1
  <2> QED
    BY <1>5, <2>1, Zenon
<1>7. f \in [0 .. N -> S]
  <2> HIDE DEF f
  <2> DEFINE T == {n \in 0 .. N : f[n] \in S}
  <2>1. 0 \in T
    BY <1>1, <1>6
  <2>2. ASSUME NEW n \in 0 .. N - 1, n \in T PROVE n + 1 \in T
    <3>1. n + 1 \in 1 .. N /\ n + 1 \in 0 .. N /\ (n + 1) - 1 = n
      BY <1>1
    <3> QED
      BY <1>2, <1>6, <2>2, <3>1
  <2>3. \A n \in 0 .. N : n \in T
    <3> HIDE DEF T
    <3> QED
      BY <1>1, <2>1, <2>2, UpTo
  <2>4. f = [n \in 0 .. N |-> f[n]]
    BY <1>5
  <2> QED
    BY <2>3, <2>4
<1> QED
  <2> HIDE DEF f, Rec
  <2> QED
    BY <1>3, <1>6, <1>7, Zenon DEF N, S, base, step, Choosing

LEMMA AppendIs ==
  ASSUME NEW S, NEW s \in Seq(S), NEW x \in S
  PROVE  /\ Append(s, x) \in Seq(S) /\ Len(Append(s, x)) = Len(s) + 1 /\ Len(s) \in Nat
         /\ \A i \in 1 .. Len(s) : Append(s, x)[i] = s[i]
         /\ Append(s, x)[Len(s) + 1] = x
         /\ ToSet(Append(s, x)) = ToSet(s) \cup {x}
         /\ DOMAIN s = 1 .. Len(s) /\ DOMAIN Append(s, x) = 1 .. Len(s) + 1
<1>1. /\ Append(s, x) \in Seq(S) /\ Len(Append(s, x)) = Len(s) + 1 /\ Len(s) \in Nat
      /\ \A i \in 1 .. Len(s) : Append(s, x)[i] = s[i]
      /\ Append(s, x)[Len(s) + 1] = x
      /\ DOMAIN s = 1 .. Len(s) /\ DOMAIN Append(s, x) = 1 .. Len(s) + 1
  OBVIOUS
<1> DEFINE t == Append(s, x)
<1> HIDE DEF t
<1>2. \A i \in 1 .. Len(s) + 1 : i \in 1 .. Len(s) \/ i = Len(s) + 1
  BY <1>1
<1>3. \A i \in 1 .. Len(s) : i \in 1 .. Len(s) + 1
  BY <1>1
<1>4. Len(s) + 1 \in 1 .. Len(s) + 1
  BY <1>1
<1>5. ToSet(t) = ToSet(s) \cup {x}
  BY <1>1, <1>2, <1>3, <1>4 DEF ToSet, t
<1> QED
  BY <1>1, <1>5 DEF t

LEMMA WithIs ==
  ASSUME NEW kept, NEW name, NEW parents
  PROVE  /\ DOMAIN With(kept, name, parents) = DOMAIN kept \cup {name}
         /\ Edges(With(kept, name, parents), name) = ToSet(parents)
         /\ \A x : x # name => Edges(With(kept, name, parents), x) = Edges(kept, x)
BY DEF With, Edges

LEMMA WithIsFinite ==
  ASSUME NEW kept, IsFiniteSet(DOMAIN kept), NEW name, NEW parents
  PROVE  IsFiniteSet(DOMAIN With(kept, name, parents))
<1>1. IsFiniteSet(DOMAIN kept \cup {name})
  BY FS_AddElement
<1> QED
  BY <1>1, WithIs, Zenon

\* What may be said of the parents an entity e has kept, after the first n that it names.
ParentsSound(known, kept, e, n, own) ==
  LET g == With(kept, e.name, own) IN
  /\ own \in Seq(STRING) /\ IsInjective(own) /\ ToSet(own) \subseteq known \ {e.name}
  /\ Acyclic(g)
  /\ \E at \in [1 .. Len(own) -> 1 .. n] :
       /\ \A i \in 1 .. Len(own) : own[i] = e.belongs_to[at[i]]
       /\ \A i, j \in 1 .. Len(own) : i < j => at[i] < at[j]
  /\ \A i \in 1 .. n : e.belongs_to[i] \in known \ ({e.name} \cup ToSet(own)) =>
       e.name \in Reached(g, e.belongs_to[i])

LEMMA NoEdgesNoCycle ==
  ASSUME NEW kept, Acyclic(kept), NEW name, name \notin DOMAIN kept
  PROVE  Acyclic(With(kept, name, <<>>))
<1> DEFINE g == With(kept, name, <<>>)
<1>1. DOMAIN g = DOMAIN kept \cup {name} /\ Edges(g, name) = {}
        /\ \A x : x # name => Edges(g, x) = Edges(kept, x)
  <2>1. ToSet(<<>>) = {}
    BY DEF ToSet
  <2> QED
    BY <2>1 DEF With, Edges
<1> HIDE DEF g
<1>2. ASSUME NEW S \in SUBSET DOMAIN g, S # {}
      PROVE  \E x \in S : Edges(g, x) \cap S = {}
  <2>1. CASE name \in S
    BY <1>1, <2>1
  <2>2. CASE name \notin S
    <3>1. S \in SUBSET DOMAIN kept
      BY <1>1, <2>2
    <3>2. PICK x \in S : Edges(kept, x) \cap S = {}
      BY <1>2, <3>1 DEF Acyclic
    <3> QED
      BY <1>1, <2>2, <3>2
  <2> QED
    BY <2>1, <2>2
<1> QED
  BY <1>2 DEF Acyclic, g

\* One parent more.
LEMMA ParentKept ==
  ASSUME NEW known, NEW kept, IsFiniteSet(DOMAIN kept), NEW e, NEW n \in Nat, NEW own,
         ParentsSound(known, kept, e, n, own), NEW p \in STRING, p = e.belongs_to[n + 1],
         p \in known \ {e.name}, p \notin ToSet(own),
         e.name \notin Reached(With(kept, e.name, own), p)
  PROVE  ParentsSound(known, kept, e, n + 1, Append(own, p))
<1> DEFINE more == Append(own, p)
           g == With(kept, e.name, own)
           h == With(kept, e.name, more)
           b == e.belongs_to
           name == e.name
<1>1. own \in Seq(STRING) /\ IsInjective(own) /\ ToSet(own) \subseteq known \ {e.name} /\ Acyclic(g)
  BY DEF ParentsSound
<1>2. PICK at \in [1 .. Len(own) -> 1 .. n] :
        /\ \A i \in 1 .. Len(own) : own[i] = b[at[i]]
        /\ \A i, j \in 1 .. Len(own) : i < j => at[i] < at[j]
  BY Zenon DEF ParentsSound
<1>3. \A i \in 1 .. n : b[i] \in known \ ({name} \cup ToSet(own)) => name \in Reached(g, b[i])
  BY Zenon DEF ParentsSound
<1>4. /\ more \in Seq(STRING) /\ Len(more) = Len(own) + 1 /\ Len(own) \in Nat
      /\ (\A i \in 1 .. Len(own) : more[i] = own[i])
      /\ more[Len(own) + 1] = p
      /\ ToSet(more) = ToSet(own) \cup {p}
      /\ DOMAIN own = 1 .. Len(own) /\ DOMAIN more = 1 .. Len(own) + 1
  BY <1>1, AppendIs
<1>5. /\ DOMAIN g = DOMAIN kept \cup {name} /\ Edges(g, name) = ToSet(own)
      /\ \A x : x # name => Edges(g, x) = Edges(kept, x)
      /\ DOMAIN h = DOMAIN kept \cup {name} /\ Edges(h, name) = ToSet(more)
      /\ \A x : x # name => Edges(h, x) = Edges(kept, x)
  <2>1. /\ DOMAIN g = DOMAIN kept \cup {name} /\ Edges(g, name) = ToSet(own)
        /\ \A x : x # name => Edges(g, x) = Edges(kept, x)
    BY DEF With, Edges
  <2>2. /\ DOMAIN h = DOMAIN kept \cup {name} /\ Edges(h, name) = ToSet(more)
        /\ \A x : x # name => Edges(h, x) = Edges(kept, x)
    <3> HIDE DEF more
    <3> QED
      BY DEF With, Edges
  <2> QED
    BY <2>1, <2>2, Zenon
<1>6. IsFiniteSet(DOMAIN g) /\ IsFiniteSet(DOMAIN h)
  BY WithIsFinite
<1> HIDE DEF more, g, h, name, b
<1>7. Acyclic(h)
  <2>1. name \notin Reached(g, p)
    BY DEF name, g
  <2>2. Edges(h, name) \subseteq Edges(g, name) \cup {p} /\ \A x : x # name => Edges(h, x) = Edges(g, x)
    BY <1>4, <1>5
  <2> QED
    BY <1>1, <1>5, <1>6, <2>1, <2>2, EdgeClosesNone
<1>8. IsInjective(more)
  <2>1. \A i \in 1 .. Len(own) : own[i] # p
    BY <1>4 DEF ToSet
  <2>2. \A i \in 1 .. Len(own) + 1 : i \in 1 .. Len(own) \/ i = Len(own) + 1
    BY <1>4
  <2> QED
    BY <1>1, <1>4, <2>1, <2>2, Zenon DEF IsInjective
<1>9. ToSet(more) \subseteq known \ {name}
  BY <1>1, <1>4 DEF name
<1>10. \E to \in [1 .. Len(more) -> 1 .. n + 1] :
         /\ \A i \in 1 .. Len(more) : more[i] = b[to[i]]
         /\ \A i, j \in 1 .. Len(more) : i < j => to[i] < to[j]
  <2> DEFINE to == [i \in 1 .. Len(more) |-> IF i = Len(own) + 1 THEN n + 1 ELSE at[i]]
  <2>1. \A i \in 1 .. Len(more) : i = Len(own) + 1 \/ (i \in 1 .. Len(own) /\ i # Len(own) + 1)
    BY <1>4
  <2>2. to \in [1 .. Len(more) -> 1 .. n + 1]
    BY <1>2, <2>1
  <2>3. \A i \in 1 .. Len(more) : more[i] = b[to[i]]
    BY <1>2, <1>4, <2>1 DEF b
  <2>4. ASSUME NEW i \in 1 .. Len(more), NEW j \in 1 .. Len(more), i < j PROVE to[i] < to[j]
    <3>1. i \in 1 .. Len(own) /\ to[i] = at[i] /\ at[i] \in 1 .. n
      BY <1>2, <1>4, <2>1, <2>4
    <3>2. CASE j = Len(own) + 1
      BY <3>1, <3>2
    <3>3. CASE j \in 1 .. Len(own) /\ j # Len(own) + 1
      BY <1>2, <2>4, <3>1, <3>3
    <3> QED
      BY <2>1, <3>2, <3>3
  <2> HIDE DEF to
  <2> QED
    BY <2>2, <2>3, <2>4
<1>11. ASSUME NEW i \in 1 .. n + 1, b[i] \in known \ ({name} \cup ToSet(more))
       PROVE  name \in Reached(h, b[i])
  <2>1. b[i] # p /\ b[i] \in known \ ({name} \cup ToSet(own))
    BY <1>4, <1>11
  <2>2. i \in 1 .. n
    BY <2>1 DEF b
  <2>3. name \in Reached(g, b[i])
    BY <1>3, <2>1, <2>2
  <2>4. \A x : Edges(g, x) \subseteq Edges(h, x)
    BY <1>4, <1>5
  <2> QED
    BY <1>6, <2>3, <2>4, ReachedGrows
<1> QED
  BY <1>4, <1>7, <1>8, <1>9, <1>10, <1>11, Zenon DEF ParentsSound, more, h, name, b

\* One parent dropped.
LEMMA ParentDropped ==
  ASSUME NEW known, NEW kept, IsFiniteSet(DOMAIN kept), NEW e, NEW n \in Nat, NEW own,
         ParentsSound(known, kept, e, n, own),
         \/ e.belongs_to[n + 1] \notin known \ {e.name}
         \/ e.belongs_to[n + 1] \in ToSet(own)
         \/ e.name \in Reached(With(kept, e.name, own), e.belongs_to[n + 1])
  PROVE  ParentsSound(known, kept, e, n + 1, own)
<1> DEFINE g == With(kept, e.name, own)
           b == e.belongs_to
<1>1. /\ own \in Seq(STRING) /\ IsInjective(own) /\ ToSet(own) \subseteq known \ {e.name} /\ Acyclic(g)
      /\ \A i \in 1 .. n : b[i] \in known \ ({e.name} \cup ToSet(own)) => e.name \in Reached(g, b[i])
  BY Zenon DEF ParentsSound
<1>2. PICK at \in [1 .. Len(own) -> 1 .. n] :
        /\ \A i \in 1 .. Len(own) : own[i] = b[at[i]]
        /\ \A i, j \in 1 .. Len(own) : i < j => at[i] < at[j]
  BY Zenon DEF ParentsSound
<1>3. at \in [1 .. Len(own) -> 1 .. n + 1]
  <2>1. \A k \in 1 .. n : k \in 1 .. n + 1
    OBVIOUS
  <2> QED
    BY <1>2, <2>1
<1> HIDE DEF g, b
<1>4. \A i \in 1 .. n + 1 : i \in 1 .. n \/ i = n + 1
  OBVIOUS
<1>5. \A i \in 1 .. n + 1 : b[i] \in known \ ({e.name} \cup ToSet(own)) => e.name \in Reached(g, b[i])
  BY <1>1, <1>4, Zenon DEF g, b
<1> QED
  BY <1>1, <1>2, <1>3, <1>5, Zenon DEF ParentsSound, g, b

\* What an entity keeps of its parents, with the reason for every one it drops.
LEMMA KeepParentsIs ==
  ASSUME NEW known, NEW kept, IsFiniteSet(DOMAIN kept), Acyclic(kept),
         NEW e, e.belongs_to \in Seq(STRING), e.name \notin DOMAIN kept
  PROVE  ParentsSound(known, kept, e, Len(e.belongs_to), KeepParents(known, kept, e))
<1> DEFINE b == e.belongs_to
           N == Len(b)
<1>0. N \in Nat /\ \A n \in 1 .. N : b[n] \in STRING
  OBVIOUS
<1>r. PICK f : Choosing(known, kept, e, f)
  BY ParentsInTurn
<1>1. /\ f[0] = <<>>
      /\ \A n \in 1 .. N :
           f[n] = IF /\ b[n] \in known \ {e.name}
                     /\ b[n] \notin ToSet(f[n - 1])
                     /\ e.name \notin Reached(With(kept, e.name, f[n - 1]), b[n])
                  THEN Append(f[n - 1], b[n]) ELSE f[n - 1]
      /\ KeepParents(known, kept, e) = f[N]
  BY <1>r, Zenon DEF Choosing
<1> DEFINE T == {n \in 0 .. N : ParentsSound(known, kept, e, n, f[n])}
<1>2. 0 \in T
  <2>1. Acyclic(With(kept, e.name, <<>>))
    BY NoEdgesNoCycle
  <2>2. <<>> \in Seq(STRING) /\ IsInjective(<<>>) /\ ToSet(<<>>) \subseteq known \ {e.name} /\ Len(<<>>) = 0
    BY DEF IsInjective, ToSet
  <2>3. 0 \in 0 .. N /\ 1 .. 0 = {}
    BY <1>0
  <2> DEFINE at == [i \in 1 .. 0 |-> 0]
  <2>4. at \in [1 .. 0 -> 1 .. 0]
    OBVIOUS
  <2>5. ParentsSound(known, kept, e, 0, <<>>)
    <3> HIDE DEF at
    <3> DEFINE none == <<>>
    <3>1. none \in Seq(STRING) /\ IsInjective(none) /\ ToSet(none) \subseteq known \ {e.name}
            /\ Len(none) = 0 /\ Acyclic(With(kept, e.name, none))
      BY <2>1, <2>2
    <3> HIDE DEF none
    <3>2. ParentsSound(known, kept, e, 0, none)
      BY <2>3, <2>4, <3>1, Zenon DEF ParentsSound
    <3> QED
      BY <3>2 DEF none
  <2> QED
    BY <1>1, <2>3, <2>5, Zenon
<1>3. ASSUME NEW n \in 0 .. N - 1, n \in T PROVE n + 1 \in T
  <2> DEFINE own == f[n]
             p == b[n + 1]
  <2>1. n + 1 \in 1 .. N /\ n + 1 \in 0 .. N /\ (n + 1) - 1 = n /\ n \in Nat
    BY <1>0
  <2>2. f[n + 1] = IF /\ p \in known \ {e.name}
                      /\ p \notin ToSet(own)
                      /\ e.name \notin Reached(With(kept, e.name, own), p)
                   THEN Append(own, p) ELSE own
    BY <1>1, <2>1
  <2>3. ParentsSound(known, kept, e, n, own) /\ p \in STRING
    BY <1>0, <1>3, <2>1
  <2>4. ParentsSound(known, kept, e, n + 1, f[n + 1])
    <3> HIDE DEF own
    <3>1. CASE /\ p \in known \ {e.name}
               /\ p \notin ToSet(own)
               /\ e.name \notin Reached(With(kept, e.name, own), p)
      <4>1. f[n + 1] = Append(own, p)
        BY <2>2, <3>1, Zenon
      <4>2. ParentsSound(known, kept, e, n + 1, Append(own, p))
        BY <2>1, <2>3, <3>1, ParentKept
      <4> QED
        BY <4>1, <4>2, Zenon
    <3>2. CASE ~ (/\ p \in known \ {e.name}
                  /\ p \notin ToSet(own)
                  /\ e.name \notin Reached(With(kept, e.name, own), p))
      <4>1. f[n + 1] = own
        BY <2>2, <3>2, Zenon
      <4>2. ParentsSound(known, kept, e, n + 1, own)
        BY <2>1, <2>3, <3>2, ParentDropped
      <4> QED
        BY <4>1, <4>2, Zenon
    <3> QED
      BY <3>1, <3>2, Zenon
  <2> QED
    BY <2>1, <2>4
<1>4. \A n \in 0 .. N : n \in T
  <2> HIDE DEF T, N
  <2> QED
    BY <1>0, <1>2, <1>3, UpTo
<1>5. N \in 0 .. N
  BY <1>0
<1> QED
  BY <1>1, <1>4, <1>5

Graphs == UNION {[D -> Seq(STRING)] : D \in SUBSET STRING}

LEMMA WithIsGraph ==
  ASSUME NEW g \in Graphs, NEW name \in STRING, NEW own \in Seq(STRING)
  PROVE  With(g, name, own) \in Graphs
<1>1. PICK D \in SUBSET STRING : g \in [D -> Seq(STRING)]
  BY DEF Graphs
<1>2. With(g, name, own) \in [D \cup {name} -> Seq(STRING)]
  BY <1>1 DEF With
<1>3. D \cup {name} \in SUBSET STRING
  OBVIOUS
<1> QED
  BY <1>2, <1>3 DEF Graphs

LEMMA KeepParentsIsTyped ==
  ASSUME NEW known, NEW kept, NEW e \in Entity
  PROVE  KeepParents(known, kept, e) \in Seq(STRING)
<1>1. e.belongs_to \in Seq(STRING)
  BY DEF Entity
<1>2. PICK f : Choosing(known, kept, e, f)
  BY <1>1, ParentsInTurn
<1>3. Len(e.belongs_to) \in 0 .. Len(e.belongs_to)
  BY <1>1
<1>4. f \in [0 .. Len(e.belongs_to) -> Seq(STRING)] /\ KeepParents(known, kept, e) = f[Len(e.belongs_to)]
  BY <1>2, Zenon DEF Choosing
<1> QED
  BY <1>3, <1>4

Normal(known, x, e) ==
  LET own == KeepParents(known, x.kept, e) IN
  [kept |-> Keeping(x.kept, e, own), result |-> Append(x.result, [e EXCEPT !.belongs_to = own])]

LEMMA NormalIsTyped ==
  ASSUME NEW known, NEW x \in [kept : Graphs, result : Seq(Entity)], NEW e \in Entity
  PROVE  Normal(known, x, e) \in [kept : Graphs, result : Seq(Entity)]
<1> DEFINE own == KeepParents(known, x.kept, e)
<1>1. own \in Seq(STRING) /\ e.name \in STRING
  BY KeepParentsIsTyped DEF Entity
<1>2. With(x.kept, e.name, own) \in Graphs
  BY <1>1, WithIsGraph
<1>3. [e EXCEPT !.belongs_to = own] \in Entity
  <2> HIDE DEF own
  <2> QED
    BY <1>1 DEF Entity
<1>4. Keeping(x.kept, e, own) \in Graphs
  <2> HIDE DEF own
  <2> QED
    BY <1>2, Zenon DEF Keeping
<1>5. Append(x.result, [e EXCEPT !.belongs_to = own]) \in Seq(Entity)
  <2> DEFINE m == [e EXCEPT !.belongs_to = own]
  <2> HIDE DEF own, m
  <2> QED
    BY <1>3 DEF m
<1> HIDE DEF own
<1>6. [kept |-> Keeping(x.kept, e, own), result |-> Append(x.result, [e EXCEPT !.belongs_to = own])]
        \in [kept : Graphs, result : Seq(Entity)]
  BY <1>4, <1>5, Zenon
<1> QED
  BY <1>6, Zenon DEF Normal, own

\* The first entities with what they keep.
Normalising(entities, f) ==
  /\ f \in [0 .. Len(entities) -> [kept : Graphs, result : Seq(Entity)]]
  /\ f[0] = [kept |-> <<>>, result |-> <<>>]
  /\ \A n \in 1 .. Len(entities) :
        f[n] = Normal(Names(entities), f[n - 1], entities[n])
  /\ Normalise(entities) = f[Len(entities)].result

LEMMA NormalInTurn ==
  ASSUME NEW entities \in Seq(Entity)
  PROVE  \E f : Normalising(entities, f)
<1> DEFINE N == Len(entities)
           S == [kept : Graphs, result : Seq(Entity)]
           base == [kept |-> <<>>, result |-> <<>>]
           step(n, x) == Normal(Names(entities), x, entities[n])
           table == [p \in (1 .. N) \X S |-> step(p[1], p[2])]
           Rec(f) == f = [n \in 0 .. N |-> IF n = 0 THEN base ELSE step(n, f[n - 1])]
           f == CHOOSE f : Rec(f)
<1>1. N \in Nat /\ base \in S
  <2> DEFINE none == <<>>
  <2>1. none \in Seq(Entity) /\ none \in [{} -> Seq(STRING)] /\ {} \in SUBSET STRING
    OBVIOUS
  <2>2. none \in Graphs
    BY <2>1 DEF Graphs
  <2>3. Len(entities) \in Nat
    OBVIOUS
  <2> HIDE DEF none
  <2>4. [kept |-> none, result |-> none] \in [kept : Graphs, result : Seq(Entity)]
    BY <2>1, <2>2
  <2> QED
    BY <2>3, <2>4 DEF none
<1>2. ASSUME NEW n \in 1 .. N, NEW x \in S
      PROVE  step(n, x) \in S
  <2>1. entities[n] \in Entity
    OBVIOUS
  <2> QED
    BY <2>1, NormalIsTyped, Zenon
<1>3. Normalise(entities) = f[N].result
  BY DEF Normalise, Normal
<1> HIDE DEF N, S, base, step
<1>4. \E h : Rec(h)
  <2>1. table \in [(1 .. N) \X S -> S]
    BY <1>2
  <2>2. PICK h \in [0 .. N -> S] : Iteration(h, N, base, table)
    <3> HIDE DEF table
    <3> QED
      BY <1>1, <2>1, Iterates, Zenon
  <2>3. \A n \in 0 .. N : h[n] = IF n = 0 THEN base ELSE table[<<n, h[n - 1]>>]
    <3> HIDE DEF table
    <3> QED
      BY <2>2, Zenon DEF Iteration
  <2>4. ASSUME NEW n \in 0 .. N PROVE h[n] = IF n = 0 THEN base ELSE step(n, h[n - 1])
    <3>1. CASE n # 0
      <4>1. n \in 1 .. N /\ n - 1 \in 0 .. N
        BY <1>1, <3>1
      <4>2. <<n, h[n - 1]>> \in (1 .. N) \X S
        BY <2>2, <4>1
      <4>3. table[<<n, h[n - 1]>>] = step(n, h[n - 1])
        BY <4>2
      <4> QED
        BY <2>3, <3>1, <4>3, Zenon
    <3> QED
      BY <2>3, <3>1, Zenon
  <2>5. h = [n \in 0 .. N |-> h[n]]
    BY <2>2
  <2> QED
    BY <2>4, <2>5, Zenon
<1>5. Rec(f)
  <2> HIDE DEF Rec
  <2> QED
    BY <1>4, Zenon
<1>6. f[0] = base /\ \A n \in 1 .. N : f[n] = step(n, f[n - 1])
  <2> HIDE DEF f
  <2>1. 0 \in 0 .. N /\ \A n \in 1 .. N : n \in 0 .. N /\ n # 0
    BY <1>1
  <2> QED
    BY <1>5, <2>1, Zenon
<1>7. f \in [0 .. N -> S]
  <2> HIDE DEF f
  <2> DEFINE T == {n \in 0 .. N : f[n] \in S}
  <2>1. 0 \in T
    BY <1>1, <1>6
  <2>2. ASSUME NEW n \in 0 .. N - 1, n \in T PROVE n + 1 \in T
    <3>1. n + 1 \in 1 .. N /\ n + 1 \in 0 .. N /\ (n + 1) - 1 = n
      BY <1>1
    <3> QED
      BY <1>2, <1>6, <2>2, <3>1
  <2>3. \A n \in 0 .. N : n \in T
    <3> HIDE DEF T
    <3> QED
      BY <1>1, <2>1, <2>2, UpTo
  <2>4. f = [n \in 0 .. N |-> f[n]]
    BY <1>5
  <2> QED
    BY <2>3, <2>4
<1> QED
  <2> HIDE DEF f, Rec
  <2> QED
    BY <1>3, <1>6, <1>7, Zenon DEF N, S, base, step, Normalising

\* What may be said of an entity that normalise made of another, while the edges g are kept.
EntitySound(known, g, e, old) ==
  /\ e \in Entity /\ e.name = old.name
  /\ e.name \in DOMAIN g /\ g[e.name] = e.belongs_to
  /\ IsThinned(e.belongs_to, old.belongs_to)
  /\ IsInjective(e.belongs_to) /\ ToSet(e.belongs_to) \subseteq known \ {e.name}
  /\ \A p \in (ToSet(old.belongs_to) \cap known) \ ({e.name} \cup ToSet(e.belongs_to)) :
       e.name \in Reached(g, p)

NormalSound(entities, n, x) ==
  /\ x \in [kept : Graphs, result : Seq(Entity)] /\ Len(x.result) = n
  /\ DOMAIN x.kept = {entities[i].name : i \in 1 .. n}
  /\ Acyclic(x.kept)
  /\ \A i \in 1 .. n : EntitySound(Names(entities), x.kept, x.result[i], entities[i])

LEMMA NamesAreFinite ==
  ASSUME NEW entities, NEW n \in Nat
  PROVE  IsFiniteSet({entities[i].name : i \in 1 .. n})
<1>1. IsFiniteSet(1 .. n)
  BY FS_Interval
<1> DEFINE f == [i \in 1 .. n |-> entities[i].name]
<1>2. f \in Surjection(1 .. n, {entities[i].name : i \in 1 .. n})
  BY DEF Surjection
<1> QED
  BY <1>1, <1>2, FS_Surjection

\* A new name's edges leave what was said of the others.
LEMMA EntityStays ==
  ASSUME NEW known, NEW g, IsFiniteSet(DOMAIN g), NEW e, NEW old, EntitySound(known, g, e, old),
         NEW name, name \notin DOMAIN g, NEW own
  PROVE  EntitySound(known, With(g, name, own), e, old)
<1> DEFINE h == With(g, name, own)
<1>1. e.name \in DOMAIN g /\ g[e.name] = e.belongs_to /\ e.name # name
  BY DEF EntitySound
<1>2. e.name \in DOMAIN h /\ h[e.name] = e.belongs_to
  BY <1>1 DEF With
<1>3. \A x : Edges(g, x) \subseteq Edges(h, x)
  BY DEF With, Edges
<1>4. IsFiniteSet(DOMAIN h)
  BY WithIsFinite
<1> HIDE DEF h
<1>5. \A p : Reached(g, p) \subseteq Reached(h, p)
  BY <1>3, <1>4, ReachedGrows
<1>6. \A p \in (ToSet(old.belongs_to) \cap known) \ ({e.name} \cup ToSet(e.belongs_to)) :
        e.name \in Reached(h, p)
  <2>1. \A p \in (ToSet(old.belongs_to) \cap known) \ ({e.name} \cup ToSet(e.belongs_to)) :
          e.name \in Reached(g, p)
    BY DEF EntitySound
  <2> QED
    BY <1>5, <2>1
<1> QED
  BY <1>2, <1>6, Zenon DEF EntitySound, h

\* The next entity is sound when its parents are.
LEMMA EntityMade ==
  ASSUME NEW known, NEW g, NEW old \in Entity, NEW own,
         ParentsSound(known, g, old, Len(old.belongs_to), own)
  PROVE  EntitySound(known, With(g, old.name, own), [old EXCEPT !.belongs_to = own], old)
<1> DEFINE h == With(g, old.name, own)
           b == old.belongs_to
           e == [old EXCEPT !.belongs_to = own]
<1>1. /\ own \in Seq(STRING) /\ IsInjective(own) /\ ToSet(own) \subseteq known \ {old.name}
      /\ \A i \in 1 .. Len(b) : b[i] \in known \ ({old.name} \cup ToSet(own)) => old.name \in Reached(h, b[i])
  BY Zenon DEF ParentsSound
<1>2. e \in Entity /\ e.name = old.name /\ e.belongs_to = own /\ b \in Seq(STRING)
  BY <1>1 DEF Entity
<1>3. old.name \in DOMAIN h /\ h[old.name] = own
  BY DEF With
<1>4. PICK at \in [1 .. Len(own) -> 1 .. Len(b)] :
        /\ \A i \in 1 .. Len(own) : own[i] = b[at[i]]
        /\ \A i, j \in 1 .. Len(own) : i < j => at[i] < at[j]
  BY Zenon DEF ParentsSound
<1>5. DOMAIN own = 1 .. Len(own) /\ DOMAIN b = 1 .. Len(b)
  BY <1>1, <1>2
<1> HIDE DEF h, b, e
<1>6. IsThinned(own, b)
  BY <1>4, <1>5, Zenon DEF IsThinned
<1>7. \A p \in (ToSet(b) \cap known) \ ({old.name} \cup ToSet(own)) : old.name \in Reached(h, p)
  BY <1>1, <1>5 DEF ToSet
<1>8. EntitySound(known, h, e, old)
  BY <1>1, <1>2, <1>3, <1>6, <1>7, Zenon DEF EntitySound, b
<1> QED
  BY <1>8 DEF h, e

LEMMA EntitiesAre ==
  ASSUME NEW entities, IsSpecification(entities)
  PROVE  /\ entities \in Seq(Entity) /\ Len(entities) \in Nat /\ DOMAIN entities = 1 .. Len(entities)
         /\ \A i \in 1 .. Len(entities) : entities[i] \in Entity
         /\ \A i, j \in 1 .. Len(entities) : entities[i].name = entities[j].name => i = j
         /\ Names(entities) = {entities[i].name : i \in 1 .. Len(entities)}
<1>1. entities \in Seq(Entity)
  BY DEF IsSpecification
<1>2. /\ Len(entities) \in Nat /\ DOMAIN entities = 1 .. Len(entities)
      /\ \A i \in 1 .. Len(entities) : entities[i] \in Entity
  BY <1>1
<1> QED
  BY <1>1, <1>2 DEF IsSpecification, Names, ToSet

LEMMA NormalGoesOn ==
  ASSUME NEW entities, IsSpecification(entities), NEW n \in Nat, n + 1 <= Len(entities),
         NEW x, NormalSound(entities, n, x)
  PROVE  NormalSound(entities, n + 1, Normal(Names(entities), x, entities[n + 1]))
<1> DEFINE old == entities[n + 1]
           known == Names(entities)
           g == x.kept
           own == KeepParents(known, g, old)
           e == [old EXCEPT !.belongs_to = own]
           h == With(g, old.name, own)
           y == Normal(known, x, old)
<1>1. /\ x \in [kept : Graphs, result : Seq(Entity)] /\ Len(x.result) = n
      /\ DOMAIN g = {entities[i].name : i \in 1 .. n} /\ Acyclic(g)
      /\ \A i \in 1 .. n : EntitySound(known, g, x.result[i], entities[i])
  BY Zenon DEF NormalSound
<1>2. n + 1 \in 1 .. Len(entities) /\ \A i \in 1 .. n : i \in 1 .. Len(entities) /\ i # n + 1
  BY EntitiesAre
<1>3. old \in Entity /\ old.belongs_to \in Seq(STRING)
  BY <1>2, EntitiesAre DEF Entity
<1>4. old.name \notin DOMAIN g
  <2>1. \A i \in 1 .. n : entities[i].name # entities[n + 1].name
    BY <1>2, EntitiesAre
  <2> QED
    BY <1>1, <2>1
<1>5. IsFiniteSet(DOMAIN g)
  <2> HIDE DEF g
  <2>1. IsFiniteSet({entities[i].name : i \in 1 .. n})
    BY NamesAreFinite
  <2>2. DOMAIN g = {entities[i].name : i \in 1 .. n}
    BY <1>1
  <2> QED
    BY <2>1, <2>2
<1>6. ParentsSound(known, g, old, Len(old.belongs_to), own)
  BY <1>1, <1>3, <1>4, <1>5, KeepParentsIs
<1>7. EntitySound(known, h, e, old) /\ Acyclic(h)
  <2>1. Acyclic(h)
    BY <1>6, Zenon DEF ParentsSound
  <2> QED
    BY <1>3, <1>6, <2>1, EntityMade
<1>8. y \in [kept : Graphs, result : Seq(Entity)]
  BY <1>1, <1>3, NormalIsTyped
<1>9. y.kept = h /\ y.result = Append(x.result, e)
  <2>1. Keeping(g, old, own) = h
    BY <1>4, Zenon DEF Keeping
  <2> HIDE DEF own, h, e, old, known, g
  <2>2. y = [kept |-> Keeping(g, old, own), result |-> Append(x.result, e)]
    BY DEF Normal, own, g, e
  <2> HIDE DEF y
  <2> QED
    BY <2>1, <2>2
<1>10. DOMAIN h = {entities[i].name : i \in 1 .. n + 1}
  <2>1. DOMAIN h = DOMAIN g \cup {old.name}
    BY DEF With
  <2> HIDE DEF h, g
  <2>2. \A i \in 1 .. n + 1 : i \in 1 .. n \/ i = n + 1
    OBVIOUS
  <2>3. n + 1 \in 1 .. n + 1 /\ \A i \in 1 .. n : i \in 1 .. n + 1
    OBVIOUS
  <2> QED
    BY <1>1, <2>1, <2>2, <2>3
<1> HIDE DEF h, e, own, old, known, g, y
<1>11. e \in Entity
  BY <1>7 DEF EntitySound
<1>12. /\ Len(y.result) = n + 1 /\ y.result[n + 1] = e
       /\ \A i \in 1 .. n : y.result[i] = x.result[i]
  <2>1. x.result \in Seq(Entity)
    BY <1>1
  <2> QED
    BY <1>1, <1>9, <1>11, <2>1, AppendIs
<1>13. ASSUME NEW i \in 1 .. n + 1 PROVE EntitySound(known, h, y.result[i], entities[i])
  <2>1. CASE i = n + 1
    BY <1>7, <1>12, <2>1, Zenon DEF old
  <2>2. CASE i \in 1 .. n
    <3>1. EntitySound(known, g, x.result[i], entities[i])
      BY <1>1, <2>2
    <3>2. EntitySound(known, h, x.result[i], entities[i])
      BY <1>4, <1>5, <3>1, EntityStays DEF h
    <3> QED
      BY <1>12, <2>2, <3>2
  <2> QED
    BY <2>1, <2>2
<1> QED
  BY <1>7, <1>8, <1>9, <1>10, <1>12, <1>13, Zenon DEF NormalSound, known, old, y

\* What normalise makes of a specification, with the edges it kept.
LEMMA NormaliseIs ==
  ASSUME NEW entities, IsSpecification(entities)
  PROVE  \E x : NormalSound(entities, Len(entities), x) /\ Normalise(entities) = x.result
<1> DEFINE N == Len(entities)
<1>0. N \in Nat /\ entities \in Seq(Entity)
  BY EntitiesAre
<1>r. PICK f : Normalising(entities, f)
  BY <1>0, NormalInTurn
<1>1. /\ f \in [0 .. N -> [kept : Graphs, result : Seq(Entity)]]
      /\ f[0] = [kept |-> <<>>, result |-> <<>>]
      /\ \A n \in 1 .. N : f[n] = Normal(Names(entities), f[n - 1], entities[n])
      /\ Normalise(entities) = f[N].result
  BY <1>r, Zenon DEF Normalising
<1> HIDE DEF N
<1> DEFINE T == {n \in 0 .. N : NormalSound(entities, n, f[n])}
<1>2. 0 \in T
  <2>1. 0 \in 0 .. N /\ 1 .. 0 = {}
    BY <1>0
  <2>2. f[0] \in [kept : Graphs, result : Seq(Entity)]
    BY <1>1, <2>1
  <2>3. f[0].kept = <<>> /\ f[0].result = <<>>
    BY <1>1
  <2>4. DOMAIN f[0].kept = {} /\ Len(f[0].result) = 0
    BY <2>3
  <2>5. Acyclic(f[0].kept)
    BY <2>4 DEF Acyclic
  <2>6. DOMAIN f[0].kept = {entities[i].name : i \in 1 .. 0}
    BY <2>1, <2>4
  <2> QED
    BY <2>1, <2>2, <2>4, <2>5, <2>6, Zenon DEF NormalSound
<1>3. ASSUME NEW n \in 0 .. N - 1, n \in T PROVE n + 1 \in T
  <2>1. n + 1 \in 1 .. N /\ n + 1 \in 0 .. N /\ (n + 1) - 1 = n /\ n \in Nat /\ n + 1 <= N
    BY <1>0
  <2>2. f[n + 1] = Normal(Names(entities), f[n], entities[n + 1])
    BY <1>1, <2>1
  <2>3. NormalSound(entities, n + 1, f[n + 1])
    BY <1>3, <2>1, <2>2, NormalGoesOn DEF N
  <2> QED
    BY <2>1, <2>3
<1>4. \A n \in 0 .. N : n \in T
  <2> HIDE DEF T
  <2> QED
    BY <1>0, <1>2, <1>3, UpTo
<1>5. N \in T
  BY <1>0, <1>4
<1> QED
  BY <1>1, <1>5 DEF N

\* The kept edges are those of the entities in the result.
LEMMA ResultIs ==
  ASSUME NEW entities, IsSpecification(entities), NEW x, NormalSound(entities, Len(entities), x)
  PROVE  /\ IsSpecification(x.result) /\ Len(x.result) = Len(entities)
         /\ Names(x.result) = Names(entities)
         /\ \A i \in 1 .. Len(entities) : x.result[i].name = entities[i].name
         /\ x.kept = [n \in Names(x.result) |->
                        (CHOOSE e \in ToSet(x.result) : e.name = n).belongs_to]
         /\ IsFiniteSet(DOMAIN x.kept) /\ Acyclic(x.kept)
         /\ \A i \in 1 .. Len(entities) : Edges(x.kept, x.result[i].name) = ToSet(x.result[i].belongs_to)
<1> DEFINE N == Len(entities)
           kept == x.result
           g == x.kept
<1>0. /\ N \in Nat /\ \A i, j \in 1 .. N : entities[i].name = entities[j].name => i = j
      /\ Names(entities) = {entities[i].name : i \in 1 .. N}
  BY EntitiesAre
<1>1. /\ x \in [kept : Graphs, result : Seq(Entity)] /\ Len(kept) = N
      /\ DOMAIN g = {entities[i].name : i \in 1 .. N} /\ Acyclic(g)
      /\ \A i \in 1 .. N : EntitySound(Names(entities), g, kept[i], entities[i])
  BY Zenon DEF NormalSound
<1>2. /\ kept \in Seq(Entity) /\ DOMAIN kept = 1 .. N /\ g \in Graphs
  BY <1>1
<1>3. \A i \in 1 .. N : /\ kept[i].name = entities[i].name
                        /\ kept[i].name \in DOMAIN g /\ g[kept[i].name] = kept[i].belongs_to
  BY <1>1 DEF EntitySound
<1> HIDE DEF kept, g, N
<1>4. \A i, j \in 1 .. N : kept[i].name = kept[j].name => i = j
  BY <1>0, <1>3
<1>5. IsSpecification(kept)
  BY <1>2, <1>4, Zenon DEF IsSpecification
<1>6. Names(kept) = {kept[i].name : i \in 1 .. N}
  BY <1>2 DEF Names, ToSet
<1>7. Names(kept) = Names(entities) /\ DOMAIN g = Names(kept)
  <2>1. {kept[i].name : i \in 1 .. N} = {entities[i].name : i \in 1 .. N}
    BY <1>3
  <2> QED
    BY <1>0, <1>1, <1>6, <2>1, Zenon DEF g
<1>8. IsFiniteSet(DOMAIN g)
  <2>1. IsFiniteSet({entities[i].name : i \in 1 .. N})
    BY <1>0, NamesAreFinite
  <2>2. DOMAIN g = {entities[i].name : i \in 1 .. N}
    BY <1>1 DEF g
  <2> QED
    BY <2>1, <2>2
<1>9. \A i \in 1 .. N : (CHOOSE e \in ToSet(kept) : e.name = kept[i].name) = kept[i]
  <2> TAKE i \in 1 .. N
  <2>1. kept[i] \in ToSet(kept)
    BY <1>2 DEF ToSet
  <2>2. ASSUME NEW e \in ToSet(kept), e.name = kept[i].name PROVE e = kept[i]
    <3>1. PICK j \in 1 .. N : e = kept[j]
      BY <1>2 DEF ToSet
    <3> QED
      BY <1>4, <2>2, <3>1
  <2> QED
    BY <2>1, <2>2
<1>10. g = [n \in Names(kept) |-> (CHOOSE e \in ToSet(kept) : e.name = n).belongs_to]
  <2>1. ASSUME NEW n \in Names(kept)
        PROVE  g[n] = (CHOOSE e \in ToSet(kept) : e.name = n).belongs_to
    <3>1. PICK i \in 1 .. N : n = kept[i].name
      BY <1>6
    <3>2. g[n] = kept[i].belongs_to
      BY <1>3, <3>1
    <3>3. (CHOOSE e \in ToSet(kept) : e.name = n) = kept[i]
      BY <1>9, <3>1
    <3> QED
      BY <3>2, <3>3
  <2>2. g = [n \in DOMAIN g |-> g[n]]
    BY <1>2 DEF Graphs
  <2> QED
    BY <1>7, <2>1, <2>2, Zenon
<1>11. \A i \in 1 .. N : Edges(g, kept[i].name) = ToSet(kept[i].belongs_to)
  BY <1>3 DEF Edges
<1> QED
  BY <1>1, <1>3, <1>5, <1>7, <1>8, <1>10, <1>11 DEF kept, g, N

\* An entity keeps all its parents if none is strange, repeated or leads back.
LEMMA AllParentsKept ==
  ASSUME NEW known, NEW gg, IsFiniteSet(DOMAIN gg), NEW e \in Entity, IsInjective(e.belongs_to),
         ToSet(e.belongs_to) \subseteq known \ {e.name},
         NEW g, IsFiniteSet(DOMAIN g), Acyclic(g), Edges(g, e.name) = ToSet(e.belongs_to),
         \A y : y # e.name => Edges(gg, y) \subseteq Edges(g, y)
  PROVE  KeepParents(known, gg, e) = e.belongs_to
<1> DEFINE b == e.belongs_to
           N == Len(b)
<1>0. b \in Seq(STRING) /\ N \in Nat /\ DOMAIN b = 1 .. N
  BY DEF Entity
<1>r. PICK f : Choosing(known, gg, e, f)
  BY <1>0, ParentsInTurn
<1>1. /\ f \in [0 .. N -> Seq(STRING)] /\ f[0] = <<>>
      /\ \A n \in 1 .. N :
           f[n] = IF /\ b[n] \in known \ {e.name}
                     /\ b[n] \notin ToSet(f[n - 1])
                     /\ e.name \notin Reached(With(gg, e.name, f[n - 1]), b[n])
                  THEN Append(f[n - 1], b[n]) ELSE f[n - 1]
      /\ KeepParents(known, gg, e) = f[N]
  BY <1>r, Zenon DEF Choosing
<1> HIDE DEF N, b
<1> DEFINE T == {n \in 0 .. N : Len(f[n]) = n /\ \A i \in 1 .. n : f[n][i] = b[i]}
<1>2. 0 \in T
  BY <1>0, <1>1
<1>3. ASSUME NEW n \in 0 .. N - 1, n \in T PROVE n + 1 \in T
  <2> DEFINE own == f[n]
             p == b[n + 1]
             h == With(gg, e.name, own)
  <2>1. n + 1 \in 1 .. N /\ n + 1 \in 0 .. N /\ (n + 1) - 1 = n /\ n \in Nat /\ n \in 0 .. N
    BY <1>0
  <2>2. f[n + 1] = IF /\ p \in known \ {e.name}
                      /\ p \notin ToSet(own)
                      /\ e.name \notin Reached(h, p)
                   THEN Append(own, p) ELSE own
    BY <1>1, <2>1
  <2>3. own \in Seq(STRING) /\ Len(own) = n /\ (\A i \in 1 .. n : own[i] = b[i])
    BY <1>1, <1>3, <2>1
  <2>4. DOMAIN own = 1 .. n
    BY <2>3
  <2> HIDE DEF own
  <2>5. p \in ToSet(b) /\ p \in STRING
    BY <1>0, <2>1 DEF ToSet
  <2>6. p \notin ToSet(own)
    <3> SUFFICES ASSUME NEW i \in 1 .. n, own[i] = p PROVE FALSE
      BY <2>4 DEF ToSet
    <3>1. i \in 1 .. N /\ b[i] = b[n + 1] /\ i # n + 1
      BY <1>0, <2>1, <2>3
    <3> QED
      BY <1>0, <2>1, <3>1 DEF IsInjective, b
  <2>7. ToSet(own) \subseteq ToSet(b)
    <3>1. \A i \in 1 .. n : i \in 1 .. N
      BY <1>0, <2>1
    <3> QED
      BY <1>0, <2>3, <2>4, <3>1 DEF ToSet
  <2>8. \A y : Edges(h, y) \subseteq Edges(g, y)
    <3>1. Edges(h, e.name) = ToSet(own) /\ \A y : y # e.name => Edges(h, y) = Edges(gg, y)
      BY DEF With, Edges
    <3> HIDE DEF h
    <3> QED
      BY <2>7, <3>1 DEF b
  <2>9. e.name \notin Reached(h, p)
    <3>1. IsFiniteSet(DOMAIN h)
      BY WithIsFinite
    <3> HIDE DEF h
    <3>2. Reached(h, p) \subseteq Reached(g, p)
      BY <2>8, <3>1, ReachedGrows
    <3>3. e.name \notin Reached(g, p)
      BY <2>5, EdgesLeadAway DEF b
    <3> QED
      BY <3>2, <3>3
  <2>10. f[n + 1] = Append(own, p)
    BY <2>2, <2>5, <2>6, <2>9 DEF b
  <2>11. Len(f[n + 1]) = n + 1 /\ f[n + 1][n + 1] = p /\ \A i \in 1 .. n : f[n + 1][i] = b[i]
    <3> HIDE DEF p
    <3> QED
      BY <2>3, <2>5, <2>10, AppendIs
  <2>12. \A i \in 1 .. n + 1 : i \in 1 .. n \/ i = n + 1
    BY <2>1
  <2> QED
    BY <2>1, <2>11, <2>12
<1>4. \A n \in 0 .. N : n \in T
  <2> HIDE DEF T
  <2> QED
    BY <1>0, <1>2, <1>3, UpTo
<1>5. N \in T /\ f[N] \in Seq(STRING)
  BY <1>0, <1>1, <1>4
<1>6. f[N] = b
  BY <1>0, <1>5 DEF N
<1> QED
  BY <1>1, <1>6 DEF b

\* A second time nothing changes.
LEMMA NormaliseTwice ==
  ASSUME NEW entities, IsSpecification(entities)
  PROVE  Normalise(Normalise(entities)) = Normalise(entities)
<1>1. PICK x : NormalSound(entities, Len(entities), x) /\ Normalise(entities) = x.result
  BY NormaliseIs
<1>q. /\ IsSpecification(x.result) /\ Len(x.result) = Len(entities)
      /\ Names(x.result) = Names(entities)
      /\ IsFiniteSet(DOMAIN x.kept) /\ Acyclic(x.kept)
      /\ \A i \in 1 .. Len(entities) : Edges(x.kept, x.result[i].name) = ToSet(x.result[i].belongs_to)
  <2>1. NormalSound(entities, Len(entities), x)
    BY <1>1
  <2>2. /\ IsSpecification(x.result) /\ Len(x.result) = Len(entities)
        /\ Names(x.result) = Names(entities)
        /\ \A i \in 1 .. Len(entities) : x.result[i].name = entities[i].name
        /\ x.kept = [n \in Names(x.result) |->
                       (CHOOSE e \in ToSet(x.result) : e.name = n).belongs_to]
        /\ IsFiniteSet(DOMAIN x.kept) /\ Acyclic(x.kept)
        /\ \A i \in 1 .. Len(entities) : Edges(x.kept, x.result[i].name) = ToSet(x.result[i].belongs_to)
    BY <2>1, ResultIs
  <2> QED
    BY <2>2, Zenon
<1> DEFINE kept == x.result
           g == x.kept
           N == Len(kept)
<1>2. /\ IsSpecification(kept) /\ N = Len(entities) /\ Names(kept) = Names(entities)
      /\ IsFiniteSet(DOMAIN g) /\ Acyclic(g)
      /\ \A i \in 1 .. N : Edges(g, kept[i].name) = ToSet(kept[i].belongs_to)
  BY <1>q
<1>3. \A i \in 1 .. N : /\ kept[i] \in Entity /\ IsInjective(kept[i].belongs_to)
                        /\ ToSet(kept[i].belongs_to) \subseteq Names(kept) \ {kept[i].name}
  <2> TAKE i \in 1 .. N
  <2>1. EntitySound(Names(entities), g, kept[i], entities[i])
    BY <1>1, <1>2, Zenon DEF NormalSound
  <2> QED
    BY <1>2, <2>1 DEF EntitySound
<1> HIDE DEF kept, g, N
<1>4. N \in Nat /\ kept \in Seq(Entity) /\ N = Len(kept) /\ DOMAIN kept = 1 .. N
        /\ \A i, j \in 1 .. N : kept[i].name = kept[j].name => i = j
  BY <1>2, EntitiesAre DEF N
<1>r. PICK f : Normalising(kept, f)
  BY <1>4, NormalInTurn
<1>5. /\ f \in [0 .. N -> [kept : Graphs, result : Seq(Entity)]]
      /\ f[0] = [kept |-> <<>>, result |-> <<>>]
      /\ \A n \in 1 .. N : f[n] = Normal(Names(kept), f[n - 1], kept[n])
      /\ Normalise(kept) = f[N].result
  BY <1>r, <1>4, Zenon DEF Normalising
<1> DEFINE T == {n \in 0 .. N : /\ NormalSound(kept, n, f[n])
                                /\ \A i \in 1 .. n : f[n].result[i] = kept[i]}
<1>6. 0 \in T
  <2>1. 0 \in 0 .. N /\ 1 .. 0 = {}
    BY <1>4
  <2>2. f[0] \in [kept : Graphs, result : Seq(Entity)]
    BY <1>5, <2>1
  <2>3. f[0].kept = <<>> /\ f[0].result = <<>>
    BY <1>5
  <2>4. DOMAIN f[0].kept = {} /\ Len(f[0].result) = 0
    BY <2>3
  <2>5. Acyclic(f[0].kept)
    BY <2>4 DEF Acyclic
  <2>6. DOMAIN f[0].kept = {kept[i].name : i \in 1 .. 0}
    BY <2>1, <2>4
  <2> QED
    BY <2>1, <2>2, <2>4, <2>5, <2>6, Zenon DEF NormalSound
<1>7. ASSUME NEW n \in 0 .. N - 1, n \in T PROVE n + 1 \in T
  <2> DEFINE e == kept[n + 1]
             gg == f[n].kept
  <2>1. n + 1 \in 1 .. N /\ n + 1 \in 0 .. N /\ (n + 1) - 1 = n /\ n \in Nat /\ n + 1 <= N /\ n \in 0 .. N
    BY <1>4
  <2>2. f[n + 1] = Normal(Names(kept), f[n], e)
    BY <1>5, <2>1
  <2>3. NormalSound(kept, n, f[n]) /\ \A i \in 1 .. n : f[n].result[i] = kept[i]
    BY <1>7
  <2>4. NormalSound(kept, n + 1, f[n + 1])
    BY <1>2, <1>4, <2>1, <2>2, <2>3, NormalGoesOn
  <2>5. DOMAIN gg = {kept[i].name : i \in 1 .. n} /\ f[n].result \in Seq(Entity) /\ Len(f[n].result) = n
    <3>1. f[n] \in [kept : Graphs, result : Seq(Entity)]
      BY <1>5, <2>1
    <3> QED
      BY <2>3, <3>1, Zenon DEF NormalSound
  <2>6. \A i \in 1 .. n : gg[kept[i].name] = kept[i].belongs_to
    <3> TAKE i \in 1 .. n
    <3>1. EntitySound(Names(kept), gg, f[n].result[i], kept[i])
      BY <2>3, Zenon DEF NormalSound
    <3> QED
      BY <2>3, <3>1 DEF EntitySound
  <2> HIDE DEF gg
  <2>7. IsFiniteSet(DOMAIN gg)
    <3>1. IsFiniteSet({kept[i].name : i \in 1 .. n})
      BY <2>1, NamesAreFinite
    <3> QED
      BY <2>5, <3>1
  <2>8. ASSUME NEW y PROVE Edges(gg, y) \subseteq Edges(g, y)
    <3>1. CASE y \in DOMAIN gg
      <4>1. PICK i \in 1 .. n : y = kept[i].name
        BY <2>5, <3>1
      <4>2. i \in 1 .. N
        BY <1>4, <2>1
      <4>3. Edges(gg, y) = ToSet(kept[i].belongs_to)
        BY <2>6, <3>1, <4>1 DEF Edges
      <4> QED
        BY <1>2, <4>1, <4>2, <4>3
    <3> QED
      BY <3>1 DEF Edges
  <2>9. KeepParents(Names(kept), gg, e) = e.belongs_to
    <3>1. /\ e \in Entity /\ IsInjective(e.belongs_to)
          /\ ToSet(e.belongs_to) \subseteq Names(kept) \ {e.name}
          /\ Edges(g, e.name) = ToSet(e.belongs_to)
      BY <1>2, <1>3, <2>1
    <3> HIDE DEF e
    <3> QED
      BY <1>2, <2>7, <2>8, <3>1, AllParentsKept
  <2>10. e \in Entity /\ [e EXCEPT !.belongs_to = e.belongs_to] = e
    <3>1. e \in Entity
      BY <1>3, <2>1
    <3> HIDE DEF e
    <3> QED
      BY <3>1 DEF Entity
  <2>11. f[n + 1].result = Append(f[n].result, e)
    <3> HIDE DEF e
    <3>1. Normal(Names(kept), f[n], e).result = Append(f[n].result, e)
      BY <2>9, <2>10 DEF Normal, gg
    <3> QED
      BY <2>2, <3>1
  <2>12. \A i \in 1 .. n + 1 : f[n + 1].result[i] = kept[i]
    <3>1. \A i \in 1 .. n + 1 : i \in 1 .. n \/ i = n + 1
      BY <2>1
    <3>2. f[n + 1].result[n + 1] = e /\ \A i \in 1 .. n : f[n + 1].result[i] = f[n].result[i]
      <4> HIDE DEF e
      <4> QED
        BY <2>5, <2>10, <2>11, AppendIs
    <3> QED
      BY <2>3, <3>1, <3>2
  <2> QED
    BY <2>1, <2>4, <2>12
<1>8. \A n \in 0 .. N : n \in T
  <2> HIDE DEF T
  <2> QED
    BY <1>4, <1>6, <1>7, UpTo
<1>9. N \in T /\ f[N] \in [kept : Graphs, result : Seq(Entity)]
  BY <1>4, <1>5, <1>8
<1>10. f[N].result \in Seq(Entity) /\ Len(f[N].result) = N /\ \A i \in 1 .. N : f[N].result[i] = kept[i]
  <2>1. NormalSound(kept, N, f[N]) /\ \A i \in 1 .. N : f[N].result[i] = kept[i]
    BY <1>9
  <2>2. Len(f[N].result) = N
    BY <2>1, Zenon DEF NormalSound
  <2> QED
    BY <1>9, <2>1, <2>2
<1>11. f[N].result = kept
  <2> DEFINE r == f[N].result
  <2> HIDE DEF r
  <2>1. r \in Seq(Entity) /\ Len(r) = N /\ \A i \in 1 .. N : r[i] = kept[i]
    BY <1>10 DEF r
  <2>2. r = kept
    BY <1>4, <2>1
  <2> QED
    BY <2>2 DEF r
<1> QED
  BY <1>1, <1>5, <1>11 DEF kept

\* The members in M of the first members of s.
Thinning(X, s, M, f) ==
  /\ f \in [0 .. Len(s) -> Seq(X)]
  /\ f[0] = <<>>
  /\ \A n \in 1 .. Len(s) :
        f[n] = IF s[n] \in M THEN Append(f[n - 1], s[n]) ELSE f[n - 1]
  /\ Kept(s, M) = f[Len(s)]

LEMMA KeptInTurn ==
  ASSUME NEW X, NEW s \in Seq(X), NEW M
  PROVE  \E f : Thinning(X, s, M, f)
<1> DEFINE N == Len(s)
           S == Seq(X)
           base == <<>>
           step(n, x) == IF s[n] \in M THEN Append(x, s[n]) ELSE x
           table == [p \in (1 .. N) \X S |-> step(p[1], p[2])]
           Rec(f) == f = [n \in 0 .. N |-> IF n = 0 THEN base ELSE step(n, f[n - 1])]
           f == CHOOSE f : Rec(f)
<1>1. N \in Nat /\ base \in S
  OBVIOUS
<1>2. ASSUME NEW n \in 1 .. N, NEW x \in S
      PROVE  step(n, x) \in S
  <2>1. s[n] \in X
    OBVIOUS
  <2>2. Append(x, s[n]) \in S
    BY <2>1
  <2> QED
    BY <2>2, Zenon
<1>3. Kept(s, M) = f[N]
  BY DEF Kept
<1> HIDE DEF N, S, base, step
<1>4. \E h : Rec(h)
  <2>1. table \in [(1 .. N) \X S -> S]
    BY <1>2
  <2>2. PICK h \in [0 .. N -> S] : Iteration(h, N, base, table)
    <3> HIDE DEF table
    <3> QED
      BY <1>1, <2>1, Iterates, Zenon
  <2>3. \A n \in 0 .. N : h[n] = IF n = 0 THEN base ELSE table[<<n, h[n - 1]>>]
    <3> HIDE DEF table
    <3> QED
      BY <2>2, Zenon DEF Iteration
  <2>4. ASSUME NEW n \in 0 .. N PROVE h[n] = IF n = 0 THEN base ELSE step(n, h[n - 1])
    <3>1. CASE n # 0
      <4>1. n \in 1 .. N /\ n - 1 \in 0 .. N
        BY <1>1, <3>1
      <4>2. <<n, h[n - 1]>> \in (1 .. N) \X S
        BY <2>2, <4>1
      <4>3. table[<<n, h[n - 1]>>] = step(n, h[n - 1])
        BY <4>2
      <4> QED
        BY <2>3, <3>1, <4>3, Zenon
    <3> QED
      BY <2>3, <3>1, Zenon
  <2>5. h = [n \in 0 .. N |-> h[n]]
    BY <2>2
  <2> QED
    BY <2>4, <2>5, Zenon
<1>5. Rec(f)
  <2> HIDE DEF Rec
  <2> QED
    BY <1>4, Zenon
<1>6. f[0] = base /\ \A n \in 1 .. N : f[n] = step(n, f[n - 1])
  <2> HIDE DEF f
  <2>1. 0 \in 0 .. N /\ \A n \in 1 .. N : n \in 0 .. N /\ n # 0
    BY <1>1
  <2> QED
    BY <1>5, <2>1, Zenon
<1>7. f \in [0 .. N -> S]
  <2> HIDE DEF f
  <2> DEFINE T == {n \in 0 .. N : f[n] \in S}
  <2>1. 0 \in T
    BY <1>1, <1>6
  <2>2. ASSUME NEW n \in 0 .. N - 1, n \in T PROVE n + 1 \in T
    <3>1. n + 1 \in 1 .. N /\ n + 1 \in 0 .. N /\ (n + 1) - 1 = n
      BY <1>1
    <3> QED
      BY <1>2, <1>6, <2>2, <3>1
  <2>3. \A n \in 0 .. N : n \in T
    <3> HIDE DEF T
    <3> QED
      BY <1>1, <2>1, <2>2, UpTo
  <2>4. f = [n \in 0 .. N |-> f[n]]
    BY <1>5
  <2> QED
    BY <2>3, <2>4
<1> QED
  <2> HIDE DEF f, Rec
  <2> QED
    BY <1>3, <1>6, <1>7, Zenon DEF N, S, base, step, Thinning

\* What may be said of the members in M of the first n members of s.
ThinSound(X, s, M, n, r) ==
  /\ r \in Seq(X) /\ ToSet(r) = {s[i] : i \in 1 .. n} \cap M
  /\ \E at \in [1 .. Len(r) -> 1 .. n] :
       /\ \A i \in 1 .. Len(r) : r[i] = s[at[i]]
       /\ \A i, j \in 1 .. Len(r) : i < j => at[i] < at[j]

LEMMA ThinnedByOne ==
  ASSUME NEW X, NEW s, NEW M, NEW n \in Nat, NEW r, ThinSound(X, s, M, n, r), s[n + 1] \in X
  PROVE  ThinSound(X, s, M, n + 1, IF s[n + 1] \in M THEN Append(r, s[n + 1]) ELSE r)
<1> DEFINE x == s[n + 1]
<1>1. r \in Seq(X) /\ ToSet(r) = {s[i] : i \in 1 .. n} \cap M
  BY DEF ThinSound
<1>2. PICK at \in [1 .. Len(r) -> 1 .. n] :
        /\ \A i \in 1 .. Len(r) : r[i] = s[at[i]]
        /\ \A i, j \in 1 .. Len(r) : i < j => at[i] < at[j]
  BY Zenon DEF ThinSound
<1>3. {s[i] : i \in 1 .. n + 1} = {s[i] : i \in 1 .. n} \cup {x}
  <2>1. \A i \in 1 .. n + 1 : i \in 1 .. n \/ i = n + 1
    OBVIOUS
  <2>2. n + 1 \in 1 .. n + 1 /\ \A i \in 1 .. n : i \in 1 .. n + 1
    OBVIOUS
  <2> QED
    BY <2>1, <2>2
<1>4. Len(r) \in Nat /\ \A i \in 1 .. n : i \in 1 .. n + 1
  BY <1>1
<1> HIDE DEF x
<1>5. CASE x \notin M
  <2>1. at \in [1 .. Len(r) -> 1 .. n + 1]
    BY <1>2, <1>4
  <2>2. \E u \in [1 .. Len(r) -> 1 .. n + 1] :
          /\ \A i \in 1 .. Len(r) : r[i] = s[u[i]]
          /\ \A i, j \in 1 .. Len(r) : i < j => u[i] < u[j]
    BY <1>2, <2>1, Zenon
  <2>3. ToSet(r) = {s[i] : i \in 1 .. n + 1} \cap M
    BY <1>1, <1>3, <1>5
  <2>4. ThinSound(X, s, M, n + 1, r)
    BY <1>1, <2>2, <2>3, Zenon DEF ThinSound
  <2> QED
    BY <1>5, <2>4, Zenon DEF x
<1>6. CASE x \in M
  <2> DEFINE t == Append(r, x)
             L == Len(r)
             u == [i \in 1 .. L + 1 |-> IF i = L + 1 THEN n + 1 ELSE at[i]]
  <2>1. /\ t \in Seq(X) /\ Len(t) = L + 1
        /\ (\A i \in 1 .. L : t[i] = r[i]) /\ t[L + 1] = x
        /\ ToSet(t) = ToSet(r) \cup {x}
    <3>1. x \in X
      BY DEF x
    <3> QED
      BY <1>1, <3>1, AppendIs
  <2> HIDE DEF t, L
  <2>2. L \in Nat /\ (\A i \in 1 .. L + 1 : i = L + 1 \/ (i \in 1 .. L /\ i # L + 1))
    BY <1>4 DEF L
  <2>3. \A i \in 1 .. L : at[i] \in 1 .. n
    BY <1>2 DEF L
  <2>4. u \in [1 .. L + 1 -> 1 .. n + 1]
    BY <1>4, <2>2, <2>3
  <2>5. u[L + 1] = n + 1 /\ \A i \in 1 .. L : u[i] = at[i]
    BY <2>2
  <2> HIDE DEF u
  <2>6. \A i \in 1 .. L + 1 : t[i] = s[u[i]]
    BY <1>2, <2>1, <2>2, <2>5 DEF x, L
  <2>7. ASSUME NEW i \in 1 .. L + 1, NEW j \in 1 .. L + 1, i < j PROVE u[i] < u[j]
    <3>1. i \in 1 .. L
      BY <2>2, <2>7
    <3>2. CASE j = L + 1
      BY <2>3, <2>5, <3>1, <3>2
    <3>3. CASE j \in 1 .. L
      BY <1>2, <2>5, <2>7, <3>1, <3>3 DEF L
    <3> QED
      BY <2>2, <3>2, <3>3
  <2>8. ToSet(t) = {s[i] : i \in 1 .. n + 1} \cap M
    BY <1>1, <1>3, <1>6, <2>1
  <2>9. \E v \in [1 .. Len(t) -> 1 .. n + 1] :
          /\ \A i \in 1 .. Len(t) : t[i] = s[v[i]]
          /\ \A i, j \in 1 .. Len(t) : i < j => v[i] < v[j]
    BY <2>1, <2>4, <2>6, <2>7, Zenon
  <2>10. ThinSound(X, s, M, n + 1, t)
    BY <2>1, <2>8, <2>9, Zenon DEF ThinSound
  <2> QED
    BY <1>6, <2>10, Zenon DEF x, t
<1> QED
  BY <1>5, <1>6

\* What Kept keeps.
LEMMA KeptIs ==
  ASSUME NEW X, NEW s \in Seq(X), NEW M
  PROVE  /\ Kept(s, M) \in Seq(X) /\ ToSet(Kept(s, M)) = ToSet(s) \cap M
         /\ IsThinned(Kept(s, M), s)
<1> DEFINE N == Len(s)
<1>0. N \in Nat /\ DOMAIN s = 1 .. N /\ \A n \in 1 .. N : s[n] \in X
  OBVIOUS
<1>r. PICK f : Thinning(X, s, M, f)
  BY KeptInTurn
<1>1. /\ f \in [0 .. N -> Seq(X)] /\ f[0] = <<>>
      /\ \A n \in 1 .. N : f[n] = IF s[n] \in M THEN Append(f[n - 1], s[n]) ELSE f[n - 1]
      /\ Kept(s, M) = f[N]
  BY <1>r, Zenon DEF Thinning
<1> HIDE DEF N
<1> DEFINE T == {n \in 0 .. N : ThinSound(X, s, M, n, f[n])}
<1>2. 0 \in T
  <2> DEFINE none == <<>>
  <2>1. none \in Seq(X) /\ Len(none) = 0 /\ 1 .. 0 = {} /\ DOMAIN none = {}
    OBVIOUS
  <2>2. ToSet(none) = {}
    BY <2>1 DEF ToSet
  <2>3. none \in [1 .. 0 -> 1 .. 0]
    BY <2>1
  <2> HIDE DEF none
  <2>4. ToSet(none) = {s[i] : i \in 1 .. 0} \cap M
    BY <2>1, <2>2
  <2>5. \E at \in [1 .. Len(none) -> 1 .. 0] :
          /\ \A i \in 1 .. Len(none) : none[i] = s[at[i]]
          /\ \A i, j \in 1 .. Len(none) : i < j => at[i] < at[j]
    <3>1. \A i \in 1 .. Len(none) : FALSE
      BY <2>1
    <3> QED
      BY <2>1, <2>3, <3>1, Zenon
  <2>6. ThinSound(X, s, M, 0, none)
    BY <2>1, <2>4, <2>5, Zenon DEF ThinSound
  <2>7. 0 \in 0 .. N /\ f[0] = none
    BY <1>0, <1>1 DEF none
  <2> QED
    BY <2>6, <2>7, Zenon
<1>3. ASSUME NEW n \in 0 .. N - 1, n \in T PROVE n + 1 \in T
  <2>1. n + 1 \in 1 .. N /\ n + 1 \in 0 .. N /\ (n + 1) - 1 = n /\ n \in Nat
    BY <1>0
  <2>2. f[n + 1] = IF s[n + 1] \in M THEN Append(f[n], s[n + 1]) ELSE f[n]
    BY <1>1, <2>1
  <2>3. s[n + 1] \in X /\ ThinSound(X, s, M, n, f[n])
    BY <1>0, <1>3, <2>1
  <2>4. ThinSound(X, s, M, n + 1, IF s[n + 1] \in M THEN Append(f[n], s[n + 1]) ELSE f[n])
    BY <2>1, <2>3, ThinnedByOne
  <2> QED
    BY <2>1, <2>2, <2>4, Zenon
<1>4. \A n \in 0 .. N : n \in T
  <2> HIDE DEF T
  <2> QED
    BY <1>0, <1>2, <1>3, UpTo
<1>5. ThinSound(X, s, M, N, f[N])
  BY <1>0, <1>4
<1> DEFINE r == f[N]
<1>6. r \in Seq(X) /\ ToSet(r) = {s[i] : i \in 1 .. N} \cap M
  BY <1>5, Zenon DEF ThinSound
<1>7. {s[i] : i \in 1 .. N} = ToSet(s)
  BY <1>0 DEF ToSet
<1>8. DOMAIN r = 1 .. Len(r)
  BY <1>6
<1>9. IsThinned(r, s)
  <2>1. \E at \in [1 .. Len(r) -> 1 .. N] :
          /\ \A i \in 1 .. Len(r) : r[i] = s[at[i]]
          /\ \A i, j \in 1 .. Len(r) : i < j => at[i] < at[j]
    BY <1>5, Zenon DEF ThinSound
  <2> HIDE DEF r
  <2> QED
    BY <1>0, <1>8, <2>1, Zenon DEF IsThinned
<1> QED
  BY <1>1, <1>6, <1>7, <1>9

LEMMA ConcatIs ==
  ASSUME NEW S, NEW s \in Seq(S), NEW t \in Seq(S)
  PROVE  /\ s \o t \in Seq(S) /\ Len(s \o t) = Len(s) + Len(t) /\ Len(s) \in Nat /\ Len(t) \in Nat
         /\ \A i \in 1 .. Len(s) : (s \o t)[i] = s[i]
         /\ \A i \in 1 .. Len(t) : (s \o t)[Len(s) + i] = t[i]
         /\ \A i \in 1 .. Len(s) + Len(t) :
              i \in 1 .. Len(s) \/ (i - Len(s) \in 1 .. Len(t) /\ i = Len(s) + (i - Len(s)) /\ i > Len(s))
         /\ ToSet(s \o t) = ToSet(s) \cup ToSet(t)
<1> DEFINE r == s \o t
<1>1. /\ r \in Seq(S) /\ Len(r) = Len(s) + Len(t) /\ Len(s) \in Nat /\ Len(t) \in Nat
      /\ DOMAIN r = 1 .. Len(s) + Len(t) /\ DOMAIN s = 1 .. Len(s) /\ DOMAIN t = 1 .. Len(t)
  OBVIOUS
<1>2. \A i \in 1 .. Len(s) : r[i] = s[i] /\ i \in 1 .. Len(s) + Len(t)
  OBVIOUS
<1>3. \A i \in 1 .. Len(t) : r[Len(s) + i] = t[i] /\ Len(s) + i \in 1 .. Len(s) + Len(t)
  OBVIOUS
<1> HIDE DEF r
<1>4. \A i \in 1 .. Len(s) + Len(t) :
        i \in 1 .. Len(s) \/ (i - Len(s) \in 1 .. Len(t) /\ i = Len(s) + (i - Len(s)) /\ i > Len(s))
  BY <1>1
<1>5. ToSet(r) = ToSet(s) \cup ToSet(t)
  <2>1. \A x \in ToSet(r) : x \in ToSet(s) \cup ToSet(t)
    <3> TAKE x \in ToSet(r)
    <3>1. PICK i \in 1 .. Len(s) + Len(t) : x = r[i]
      BY <1>1 DEF ToSet
    <3>2. CASE i \in 1 .. Len(s)
      BY <1>1, <1>2, <3>1, <3>2 DEF ToSet
    <3>3. CASE i - Len(s) \in 1 .. Len(t) /\ i = Len(s) + (i - Len(s))
      <4>1. r[i] = t[i - Len(s)]
        BY <1>3, <3>3
      <4> QED
        BY <1>1, <3>1, <3>3, <4>1 DEF ToSet
    <3> QED
      BY <1>4, <3>2, <3>3
  <2>2. ToSet(s) \subseteq ToSet(r)
    BY <1>1, <1>2 DEF ToSet
  <2>3. ToSet(t) \subseteq ToSet(r)
    BY <1>1, <1>3 DEF ToSet
  <2> QED
    BY <2>1, <2>2, <2>3
<1> QED
  BY <1>1, <1>2, <1>3, <1>4, <1>5 DEF r

\* What Creatable adds to the entities that are done.
LEMMA CreatableIs ==
  ASSUME NEW k \in Seq(Entity), NEW done
  PROVE  /\ Creatable(k, done) \in Seq(Entity)
         /\ ToSet(Creatable(k, done)) =
              {e \in ToSet(k) :
                 e.name \notin done /\ ToSet(e.belongs_to) \cap Names(k) \subseteq done}
         /\ IsThinned(Creatable(k, done), k)
<1> DEFINE M == {e \in ToSet(k) : e.name \notin done /\ ToSet(e.belongs_to) \cap Names(k) \subseteq done}
<1>1. Creatable(k, done) = Kept(k, M)
  BY DEF Creatable
<1>2. M \subseteq ToSet(k)
  OBVIOUS
<1> HIDE DEF M
<1>3. /\ Kept(k, M) \in Seq(Entity) /\ ToSet(Kept(k, M)) = ToSet(k) \cap M
      /\ IsThinned(Kept(k, M), k)
  BY KeptIs
<1>4. ToSet(Kept(k, M)) = M
  BY <1>2, <1>3
<1> QED
  BY <1>1, <1>3, <1>4, Zenon DEF M

\* The rounds in which entities are created.
Ordering(entities, f) ==
  /\ f \in [0 .. Len(entities) -> Seq(Entity)]
  /\ f[0] = <<>>
  /\ \A n \in 1 .. Len(entities) :
        f[n] = f[n - 1] \o Creatable(entities, Names(f[n - 1]))
  /\ CreationOrder(entities) = f[Len(entities)]

LEMMA RoundsInTurn ==
  ASSUME NEW entities \in Seq(Entity)
  PROVE  \E f : Ordering(entities, f)
<1> DEFINE N == Len(entities)
           S == Seq(Entity)
           base == <<>>
           step(n, x) == x \o Creatable(entities, Names(x))
           table == [p \in (1 .. N) \X S |-> step(p[1], p[2])]
           Rec(f) == f = [n \in 0 .. N |-> IF n = 0 THEN base ELSE step(n, f[n - 1])]
           f == CHOOSE f : Rec(f)
<1>1. N \in Nat /\ base \in S
  OBVIOUS
<1>2. ASSUME NEW n \in 1 .. N, NEW x \in S
      PROVE  step(n, x) \in S
  <2>1. Creatable(entities, Names(x)) \in Seq(Entity)
    BY CreatableIs
  <2> DEFINE c == Creatable(entities, Names(x))
  <2> HIDE DEF c
  <2>2. x \o c \in S
    BY <2>1 DEF c
  <2> QED
    BY <2>2 DEF c
<1>3. CreationOrder(entities) = f[N]
  BY DEF CreationOrder
<1> HIDE DEF N, S, base, step
<1>4. \E h : Rec(h)
  <2>1. table \in [(1 .. N) \X S -> S]
    BY <1>2
  <2>2. PICK h \in [0 .. N -> S] : Iteration(h, N, base, table)
    <3> HIDE DEF table
    <3> QED
      BY <1>1, <2>1, Iterates, Zenon
  <2>3. \A n \in 0 .. N : h[n] = IF n = 0 THEN base ELSE table[<<n, h[n - 1]>>]
    <3> HIDE DEF table
    <3> QED
      BY <2>2, Zenon DEF Iteration
  <2>4. ASSUME NEW n \in 0 .. N PROVE h[n] = IF n = 0 THEN base ELSE step(n, h[n - 1])
    <3>1. CASE n # 0
      <4>1. n \in 1 .. N /\ n - 1 \in 0 .. N
        BY <1>1, <3>1
      <4>2. <<n, h[n - 1]>> \in (1 .. N) \X S
        BY <2>2, <4>1
      <4>3. table[<<n, h[n - 1]>>] = step(n, h[n - 1])
        BY <4>2
      <4> QED
        BY <2>3, <3>1, <4>3, Zenon
    <3> QED
      BY <2>3, <3>1, Zenon
  <2>5. h = [n \in 0 .. N |-> h[n]]
    BY <2>2
  <2> QED
    BY <2>4, <2>5, Zenon
<1>5. Rec(f)
  <2> HIDE DEF Rec
  <2> QED
    BY <1>4, Zenon
<1>6. f[0] = base /\ \A n \in 1 .. N : f[n] = step(n, f[n - 1])
  <2> HIDE DEF f
  <2>1. 0 \in 0 .. N /\ \A n \in 1 .. N : n \in 0 .. N /\ n # 0
    BY <1>1
  <2> QED
    BY <1>5, <2>1, Zenon
<1>7. f \in [0 .. N -> S]
  <2> HIDE DEF f
  <2> DEFINE T == {n \in 0 .. N : f[n] \in S}
  <2>1. 0 \in T
    BY <1>1, <1>6
  <2>2. ASSUME NEW n \in 0 .. N - 1, n \in T PROVE n + 1 \in T
    <3>1. n + 1 \in 1 .. N /\ n + 1 \in 0 .. N /\ (n + 1) - 1 = n
      BY <1>1
    <3> QED
      BY <1>2, <1>6, <2>2, <3>1
  <2>3. \A n \in 0 .. N : n \in T
    <3> HIDE DEF T
    <3> QED
      BY <1>1, <2>1, <2>2, UpTo
  <2>4. f = [n \in 0 .. N |-> f[n]]
    BY <1>5
  <2> QED
    BY <2>3, <2>4
<1> QED
  <2> HIDE DEF f, Rec
  <2> QED
    BY <1>3, <1>6, <1>7, Zenon DEF N, S, base, step, Ordering

\* What may be said of the entities that are created first.
RoundSound(k, r) ==
  /\ r \in Seq(Entity) /\ ToSet(r) \subseteq ToSet(k)
  /\ \A i, j \in 1 .. Len(r) : r[i].name = r[j].name => i = j
  /\ \A i, j \in 1 .. Len(r) : r[j].name \in ToSet(r[i].belongs_to) => j < i
  /\ \A e \in ToSet(r) : ToSet(e.belongs_to) \cap Names(k) \subseteq Names(r)

LEMMA RoundGoesOn ==
  ASSUME NEW k, IsSpecification(k), NEW r, RoundSound(k, r)
  PROVE  RoundSound(k, r \o Creatable(k, Names(r)))
<1> DEFINE c == Creatable(k, Names(r))
           t == r \o c
           L == Len(r)
           K == Len(c)
<1>1. /\ r \in Seq(Entity) /\ ToSet(r) \subseteq ToSet(k)
      /\ \A i, j \in 1 .. L : r[i].name = r[j].name => i = j
      /\ \A i, j \in 1 .. L : r[j].name \in ToSet(r[i].belongs_to) => j < i
      /\ \A e \in ToSet(r) : ToSet(e.belongs_to) \cap Names(k) \subseteq Names(r)
  BY Zenon DEF RoundSound
<1>2. /\ k \in Seq(Entity) /\ DOMAIN k = 1 .. Len(k)
      /\ \A i, j \in 1 .. Len(k) : k[i].name = k[j].name => i = j
  BY EntitiesAre
<1>3. /\ c \in Seq(Entity) /\ IsThinned(c, k)
      /\ ToSet(c) = {e \in ToSet(k) :
                     e.name \notin Names(r) /\ ToSet(e.belongs_to) \cap Names(k) \subseteq Names(r)}
  BY <1>2, CreatableIs
<1> HIDE DEF c
<1>4. DOMAIN c = 1 .. K /\ K \in Nat /\ L \in Nat /\ DOMAIN r = 1 .. L
  BY <1>1, <1>3
<1>5. /\ t \in Seq(Entity) /\ Len(t) = L + K
      /\ \A i \in 1 .. L : t[i] = r[i]
      /\ \A i \in 1 .. K : t[L + i] = c[i]
      /\ \A i \in 1 .. L + K : i \in 1 .. L \/ (i - L \in 1 .. K /\ i = L + (i - L) /\ i > L)
      /\ ToSet(t) = ToSet(r) \cup ToSet(c)
  BY <1>1, <1>3, ConcatIs
<1>6. \A i, j \in 1 .. K : c[i].name = c[j].name => i = j
  <2>1. PICK at \in [1 .. K -> 1 .. Len(k)] :
          /\ \A i \in 1 .. K : c[i] = k[at[i]]
          /\ \A i, j \in 1 .. K : i < j => at[i] < at[j]
    BY <1>2, <1>3, <1>4, Zenon DEF IsThinned
  <2> SUFFICES ASSUME NEW i \in 1 .. K, NEW j \in 1 .. K, c[i].name = c[j].name PROVE i = j
    OBVIOUS
  <2>2. at[i] = at[j]
    BY <1>2, <2>1
  <2>3. ~ (i < j) /\ ~ (j < i)
    BY <1>2, <2>1, <2>2
  <2> QED
    BY <1>4, <2>3
<1> HIDE DEF t, K, L
<1>7. \A i \in 1 .. L : r[i] \in ToSet(r) /\ r[i].name \in Names(r)
  BY <1>4 DEF ToSet, Names
<1>8. \A i \in 1 .. K : c[i] \in ToSet(c)
  BY <1>4 DEF ToSet
<1>9. \A i \in 1 .. K : /\ c[i] \in ToSet(k) /\ c[i].name \notin Names(r)
                        /\ ToSet(c[i].belongs_to) \cap Names(k) \subseteq Names(r)
  BY <1>3, <1>8
<1>10. \A i \in 1 .. K : c[i].name \in Names(k)
  BY <1>9 DEF Names
<1>11. ASSUME NEW i \in 1 .. L + K, NEW j \in 1 .. L + K, t[i].name = t[j].name PROVE i = j
  <2>1. CASE i \in 1 .. L /\ j \in 1 .. L
    BY <1>1, <1>5, <1>11, <2>1
  <2>2. CASE i \in 1 .. L /\ j - L \in 1 .. K /\ j = L + (j - L)
    <3>1. t[i] = r[i] /\ t[j] = c[j - L]
      BY <1>5, <2>2
    <3> QED
      BY <1>7, <1>9, <1>11, <2>2, <3>1
  <2>3. CASE j \in 1 .. L /\ i - L \in 1 .. K /\ i = L + (i - L)
    <3>1. t[j] = r[j] /\ t[i] = c[i - L]
      BY <1>5, <2>3
    <3> QED
      BY <1>7, <1>9, <1>11, <2>3, <3>1
  <2>4. CASE i - L \in 1 .. K /\ i = L + (i - L) /\ j - L \in 1 .. K /\ j = L + (j - L)
    <3>1. t[i] = c[i - L] /\ t[j] = c[j - L]
      BY <1>5, <2>4
    <3>2. i - L = j - L
      BY <1>6, <1>11, <2>4, <3>1
    <3> QED
      BY <2>4, <3>2
  <2> QED
    BY <1>5, <2>1, <2>2, <2>3, <2>4
<1>12. ASSUME NEW i \in 1 .. L + K, NEW j \in 1 .. L + K, t[j].name \in ToSet(t[i].belongs_to)
       PROVE  j < i
  <2>1. CASE i \in 1 .. L /\ j \in 1 .. L
    BY <1>1, <1>5, <1>12, <2>1
  <2>2. CASE i \in 1 .. L /\ j - L \in 1 .. K /\ j = L + (j - L)
    <3>1. t[i] = r[i] /\ t[j] = c[j - L]
      BY <1>5, <2>2
    <3>2. ToSet(r[i].belongs_to) \cap Names(k) \subseteq Names(r)
      BY <1>1, <1>7, <2>2
    <3> QED
      BY <1>9, <1>10, <1>12, <2>2, <3>1, <3>2
  <2>3. CASE j \in 1 .. L /\ i - L \in 1 .. K /\ i > L
    BY <1>4, <2>3 DEF L, K
  <2>4. CASE i - L \in 1 .. K /\ i = L + (i - L) /\ j - L \in 1 .. K /\ j = L + (j - L)
    <3>1. t[i] = c[i - L] /\ t[j] = c[j - L]
      BY <1>5, <2>4
    <3> QED
      BY <1>9, <1>10, <1>12, <2>4, <3>1
  <2> QED
    BY <1>5, <2>1, <2>2, <2>3, <2>4
<1>13. Names(r) \subseteq Names(t)
  BY <1>5 DEF Names
<1>14. \A e \in ToSet(t) : ToSet(e.belongs_to) \cap Names(k) \subseteq Names(t)
  BY <1>1, <1>3, <1>5, <1>13
<1>15. ToSet(t) \subseteq ToSet(k)
  BY <1>1, <1>3, <1>5
<1>16. RoundSound(k, t)
  BY <1>5, <1>11, <1>12, <1>14, <1>15, Zenon DEF RoundSound
<1> QED
  BY <1>16 DEF t, c

\* While kept edges form no cycle and an entity is left, a round adds one.
LEMMA RoundAdds ==
  ASSUME NEW k, IsSpecification(k), NEW r, RoundSound(k, r), Names(r) # Names(k),
         NEW g, DOMAIN g = Names(k), Acyclic(g),
         \A e \in ToSet(k) : Edges(g, e.name) = ToSet(e.belongs_to)
  PROVE  /\ Names(r) \subseteq Names(k)
         /\ \E n \in Names(r \o Creatable(k, Names(r))) : n \notin Names(r)
         /\ Names(r) \subseteq Names(r \o Creatable(k, Names(r)))
         /\ Names(r \o Creatable(k, Names(r))) \subseteq Names(k)
<1> DEFINE c == Creatable(k, Names(r))
           t == r \o c
           S == Names(k) \ Names(r)
<1>1. r \in Seq(Entity) /\ ToSet(r) \subseteq ToSet(k)
  BY Zenon DEF RoundSound
<1>2. Names(r) \subseteq Names(k)
  BY <1>1 DEF Names
<1>3. PICK n \in S : Edges(g, n) \cap S = {}
  <2>1. S \in SUBSET DOMAIN g /\ S # {}
    BY <1>2
  <2> HIDE DEF S
  <2> QED
    BY <2>1, Zenon DEF Acyclic
<1>4. PICK e \in ToSet(k) : n = e.name
  BY <1>3 DEF Names
<1>5. Edges(g, n) = ToSet(e.belongs_to)
  BY <1>4
<1>6. k \in Seq(Entity)
  BY EntitiesAre
<1>7. /\ c \in Seq(Entity)
      /\ ToSet(c) = {d \in ToSet(k) :
                     d.name \notin Names(r) /\ ToSet(d.belongs_to) \cap Names(k) \subseteq Names(r)}
  BY <1>6, CreatableIs
<1> HIDE DEF c
<1>8. e \in ToSet(c)
  BY <1>3, <1>4, <1>5, <1>7
<1>9. ToSet(t) = ToSet(r) \cup ToSet(c)
  BY <1>1, <1>7, ConcatIs
<1> HIDE DEF t
<1>10. n \in Names(t) /\ n \notin Names(r)
  BY <1>3, <1>4, <1>8, <1>9 DEF Names
<1>11. Names(r) \subseteq Names(t) /\ Names(t) \subseteq Names(k)
  BY <1>1, <1>7, <1>9 DEF Names
<1> QED
  BY <1>2, <1>10, <1>11 DEF t, c

\* The order has every entity once and every parent before its children.
LEMMA OrderIs ==
  ASSUME NEW k, IsSpecification(k), NEW g, DOMAIN g = Names(k), Acyclic(g),
         \A e \in ToSet(k) : Edges(g, e.name) = ToSet(e.belongs_to)
  PROVE  RoundSound(k, CreationOrder(k)) /\ Names(CreationOrder(k)) = Names(k)
<1> DEFINE N == Len(k)
<1>0. N \in Nat /\ k \in Seq(Entity) /\ Names(k) = {k[i].name : i \in 1 .. N}
  BY EntitiesAre
<1>f. IsFiniteSet(Names(k)) /\ Cardinality(Names(k)) \in Nat /\ Cardinality(Names(k)) <= N
  <2>1. IsFiniteSet(1 .. N) /\ Cardinality(1 .. N) = N
    <3>1. N \in Nat
      BY <1>0
    <3> HIDE DEF N
    <3>2. IsFiniteSet(1 .. N) /\ Cardinality(1 .. N) = IF 1 > N THEN 0 ELSE N - 1 + 1
      BY <3>1, FS_Interval
    <3> QED
      BY <3>1, <3>2
  <2> DEFINE name == [i \in 1 .. N |-> k[i].name]
  <2>2. name \in Surjection(1 .. N, {k[i].name : i \in 1 .. N})
    BY DEF Surjection
  <2>3. IsFiniteSet({k[i].name : i \in 1 .. N}) /\ Cardinality({k[i].name : i \in 1 .. N}) <= N
    <3> HIDE DEF name
    <3> QED
      BY <2>1, <2>2, FS_Surjection
  <2> QED
    BY <1>0, <2>3, FS_CardinalityType
<1>r. PICK f : Ordering(k, f)
  BY <1>0, RoundsInTurn
<1>1. /\ f \in [0 .. N -> Seq(Entity)] /\ f[0] = <<>>
      /\ \A n \in 1 .. N : f[n] = f[n - 1] \o Creatable(k, Names(f[n - 1]))
      /\ CreationOrder(k) = f[N]
  BY <1>r, Zenon DEF Ordering
<1> HIDE DEF N
<1> DEFINE Many(n) ==
             \/ Names(f[n]) = Names(k)
             \/ Cardinality(Names(f[n])) \in Nat /\ Cardinality(Names(f[n])) >= n
           T == {n \in 0 .. N : RoundSound(k, f[n]) /\ Many(n)}
<1>2. 0 \in T
  <2> DEFINE none == <<>>
  <2>1. none \in Seq(Entity) /\ Len(none) = 0 /\ 1 .. 0 = {} /\ DOMAIN none = {}
    OBVIOUS
  <2>2. ToSet(none) = {}
    BY <2>1 DEF ToSet
  <2>3. Names(none) = {}
    BY <2>2 DEF Names
  <2> HIDE DEF none
  <2>4. \A i \in 1 .. Len(none) : FALSE
    BY <2>1
  <2>5. RoundSound(k, none)
    <3>1. ToSet(none) \subseteq ToSet(k) /\ \A e \in ToSet(none) : FALSE
      BY <2>2
    <3> QED
      BY <2>1, <2>4, <3>1, Zenon DEF RoundSound
  <2>6. Cardinality(Names(none)) = 0
    BY <2>3, FS_EmptySet
  <2>7. 0 \in 0 .. N /\ f[0] = none
    BY <1>0, <1>1 DEF none
  <2>8. Cardinality(Names(f[0])) \in Nat /\ Cardinality(Names(f[0])) >= 0
    BY <2>6, <2>7
  <2> QED
    BY <2>5, <2>7, <2>8, Zenon
<1>3. ASSUME NEW n \in 0 .. N - 1, n \in T PROVE n + 1 \in T
  <2> DEFINE r == f[n]
             t == r \o Creatable(k, Names(r))
  <2>1. n + 1 \in 1 .. N /\ n + 1 \in 0 .. N /\ (n + 1) - 1 = n /\ n \in Nat
    BY <1>0
  <2>2. f[n + 1] = t
    BY <1>1, <2>1
  <2>3. RoundSound(k, r) /\ Many(n)
    BY <1>3
  <2> HIDE DEF r
  <2>4. RoundSound(k, t)
    BY <2>3, RoundGoesOn
  <2>5. CASE Names(r) # Names(k)
    <3>1. /\ \E m \in Names(t) : m \notin Names(r)
          /\ Names(r) \subseteq Names(t) /\ Names(t) \subseteq Names(k)
      BY <2>3, <2>5, RoundAdds
    <3> HIDE DEF t
    <3>2. IsFiniteSet(Names(t))
      BY <1>f, <3>1, FS_Subset
    <3>3. IsFiniteSet(Names(r)) /\ Cardinality(Names(r)) <= Cardinality(Names(t))
            /\ (Cardinality(Names(r)) = Cardinality(Names(t)) => Names(r) = Names(t))
      BY <3>1, <3>2, FS_Subset
    <3>4. Cardinality(Names(r)) \in Nat /\ Cardinality(Names(t)) \in Nat
      BY <3>2, <3>3, FS_CardinalityType
    <3>5. Cardinality(Names(r)) # Cardinality(Names(t))
      BY <3>1, <3>3
    <3>6. Cardinality(Names(r)) >= n
      BY <2>3, <2>5 DEF r
    <3>7. Cardinality(Names(t)) >= n + 1
      BY <2>1, <3>3, <3>4, <3>5, <3>6
    <3> QED
      BY <2>1, <2>2, <2>4, <3>4, <3>7
  <2>6. CASE Names(r) = Names(k)
    <3>1. r \in Seq(Entity) /\ ToSet(r) \subseteq ToSet(k) /\ t \in Seq(Entity) /\ ToSet(t) \subseteq ToSet(k)
      BY <2>3, <2>4, Zenon DEF RoundSound
    <3>2. Creatable(k, Names(r)) \in Seq(Entity)
      BY <1>0, CreatableIs
    <3>3. ToSet(r) \subseteq ToSet(t)
      BY <3>1, <3>2, ConcatIs
    <3> HIDE DEF t
    <3>4. Names(t) = Names(k)
      BY <2>6, <3>1, <3>3 DEF Names
    <3> QED
      BY <2>1, <2>2, <2>4, <3>4
  <2> QED
    BY <2>5, <2>6
<1>4. \A n \in 0 .. N : n \in T
  <2> HIDE DEF T
  <2> QED
    BY <1>0, <1>2, <1>3, UpTo
<1>5. RoundSound(k, f[N]) /\ Many(N)
  BY <1>0, <1>4
<1> DEFINE r == f[N]
<1> HIDE DEF r
<1>6. ToSet(r) \subseteq ToSet(k)
  BY <1>5, Zenon DEF RoundSound, r
<1>7. Names(r) \subseteq Names(k)
  BY <1>6 DEF Names
<1>8. /\ IsFiniteSet(Names(r)) /\ Cardinality(Names(r)) <= Cardinality(Names(k))
      /\ (Cardinality(Names(r)) = Cardinality(Names(k)) => Names(r) = Names(k))
  BY <1>f, <1>7, FS_Subset
<1>9. Names(r) = Names(k)
  BY <1>0, <1>f, <1>5, <1>8 DEF r
<1> QED
  BY <1>1, <1>5, <1>9 DEF r

\* normalise and creation_order give every renderer the same usable relations, whatever is
\* specified (relations.py).
THEOREM RelationsAreRight ==
  ASSUME NEW entities, IsSpecification(entities)
  PROVE  RelationsRight(entities)
<1>1. PICK x : NormalSound(entities, Len(entities), x) /\ Normalise(entities) = x.result
  BY NormaliseIs
<1> DEFINE k == x.result
           g == x.kept
           N == Len(entities)
<1>2. /\ IsSpecification(k) /\ Len(k) = N
      /\ Names(k) = Names(entities)
      /\ \A i \in 1 .. N : k[i].name = entities[i].name
      /\ g = [n \in Names(k) |-> (CHOOSE e \in ToSet(k) : e.name = n).belongs_to]
      /\ IsFiniteSet(DOMAIN g) /\ Acyclic(g)
      /\ \A i \in 1 .. N : Edges(g, k[i].name) = ToSet(k[i].belongs_to)
  BY <1>1, ResultIs
<1>3. \A i \in 1 .. N : EntitySound(Names(entities), g, k[i], entities[i])
  BY <1>1, Zenon DEF NormalSound
<1>4. Normalise(k) = k
  BY <1>1, NormaliseTwice
<1> HIDE DEF k, g, N
<1>5. /\ N \in Nat /\ k \in Seq(Entity) /\ DOMAIN k = 1 .. N
      /\ \A i, j \in 1 .. N : k[i].name = k[j].name => i = j
  BY <1>2, EntitiesAre
<1>6. ASSUME NEW i \in DOMAIN k
      PROVE  LET e == k[i]  old == entities[i] IN
             /\ e.name = old.name
             /\ IsThinned(e.belongs_to, old.belongs_to)
             /\ IsInjective(e.belongs_to)
             /\ ToSet(e.belongs_to) \subseteq Names(entities) \ {e.name}
             /\ \A p \in (ToSet(old.belongs_to) \cap Names(entities)) \ ({e.name} \cup ToSet(e.belongs_to)) :
                  ClosesCycle(k, e.name, p)
  <2> DEFINE e == k[i]
             old == entities[i]
  <2>1. EntitySound(Names(entities), g, e, old)
    BY <1>3, <1>5
  <2> HIDE DEF e, old
  <2>2. /\ e.name = old.name
        /\ IsThinned(e.belongs_to, old.belongs_to)
        /\ IsInjective(e.belongs_to) /\ ToSet(e.belongs_to) \subseteq Names(entities) \ {e.name}
        /\ \A p \in (ToSet(old.belongs_to) \cap Names(entities)) \ ({e.name} \cup ToSet(e.belongs_to)) :
             e.name \in Reached(g, p)
    BY <2>1, Zenon DEF EntitySound
  <2>3. ASSUME NEW p, e.name \in Reached(g, p) PROVE ClosesCycle(k, e.name, p)
    BY <1>2, <2>3, Zenon DEF ClosesCycle
  <2> QED
    BY <2>2, <2>3, Zenon DEF e, old
<1>7. \A e \in ToSet(k) : Edges(g, e.name) = ToSet(e.belongs_to)
  <2> TAKE e \in ToSet(k)
  <2>1. PICK i \in 1 .. N : e = k[i]
    BY <1>5 DEF ToSet
  <2>2. Edges(g, k[i].name) = ToSet(k[i].belongs_to)
    BY <1>2, <2>1, Zenon
  <2> QED
    BY <2>1, <2>2
<1>8. DOMAIN g = Names(k)
  BY <1>2
<1> DEFINE order == CreationOrder(k)
<1>9. RoundSound(k, order) /\ Names(order) = Names(k)
  BY <1>2, <1>7, <1>8, OrderIs
<1> HIDE DEF order
<1>10. /\ order \in Seq(Entity) /\ ToSet(order) \subseteq ToSet(k)
       /\ \A i, j \in 1 .. Len(order) : order[i].name = order[j].name => i = j
       /\ \A i, j \in 1 .. Len(order) : order[j].name \in ToSet(order[i].belongs_to) => j < i
  BY <1>9, Zenon DEF RoundSound
<1>11. DOMAIN order = 1 .. Len(order)
  BY <1>10
<1>12. IsInjective(order)
  BY <1>10, <1>11 DEF IsInjective
<1>13. ToSet(order) = ToSet(k)
  <2> SUFFICES ASSUME NEW e \in ToSet(k) PROVE e \in ToSet(order)
    BY <1>10
  <2>1. PICK d \in ToSet(order) : d.name = e.name
    BY <1>9 DEF Names
  <2>2. PICK i \in 1 .. N : e = k[i]
    BY <1>5 DEF ToSet
  <2>3. PICK j \in 1 .. N : d = k[j]
    BY <1>5, <1>10 DEF ToSet
  <2> QED
    BY <1>5, <2>1, <2>2, <2>3
<1>14. \A i, j \in DOMAIN order : order[j].name \in ToSet(order[i].belongs_to) => j < i
  BY <1>10, <1>11
<1>15. k = Normalise(entities)
  BY <1>1 DEF k
<1> QED
  BY <1>2, <1>4, <1>6, <1>12, <1>13, <1>14, <1>15, Zenon DEF RelationsRight, order, N

-----------------------------------------------------------------------------
(* The entities of a specification                                         *)

Increasing(s) == \A i, j \in 1 .. Len(s) : i < j => s[i] < s[j]

LEMMA IncreasingAppend ==
  ASSUME NEW s \in Seq(Nat), Increasing(s), NEW x \in Nat, \A y \in ToSet(s) : y < x
  PROVE  Increasing(Append(s, x))
<1> DEFINE t == Append(s, x)
<1>1. /\ Len(t) = Len(s) + 1 /\ Len(s) \in Nat /\ (\A i \in 1 .. Len(s) : t[i] = s[i])
      /\ t[Len(s) + 1] = x /\ DOMAIN s = 1 .. Len(s)
  BY AppendIs
<1> HIDE DEF t
<1>2. \A i \in 1 .. Len(s) : s[i] < x
  BY <1>1 DEF ToSet
<1>3. ASSUME NEW i \in 1 .. Len(s) + 1, NEW j \in 1 .. Len(s) + 1, i < j PROVE t[i] < t[j]
  <2>1. i \in 1 .. Len(s)
    BY <1>1, <1>3
  <2>2. CASE j = Len(s) + 1
    BY <1>1, <1>2, <2>1, <2>2
  <2>3. CASE j \in 1 .. Len(s)
    <3>1. s[i] < s[j]
      BY <1>3, <2>1, <2>3 DEF Increasing
    <3> QED
      BY <1>1, <2>1, <2>3, <3>1
  <2> QED
    BY <1>1, <2>2, <2>3
<1>4. Increasing(t)
  BY <1>1, <1>3, Zenon DEF Increasing
<1> QED
  BY <1>4 DEF t

LEMMA IncreasingConcat ==
  ASSUME NEW s \in Seq(Nat), Increasing(s), NEW t \in Seq(Nat), Increasing(t),
         \A x \in ToSet(s), y \in ToSet(t) : x < y
  PROVE  Increasing(s \o t)
<1> DEFINE r == s \o t
           L == Len(s)
           K == Len(t)
<1>1. /\ Len(r) = L + K /\ L \in Nat /\ K \in Nat /\ (\A i \in 1 .. L : r[i] = s[i])
      /\ \A i \in 1 .. K : r[L + i] = t[i]
      /\ \A i \in 1 .. L + K : i \in 1 .. L \/ (i - L \in 1 .. K /\ i = L + (i - L) /\ i > L)
  BY ConcatIs
<1>2. DOMAIN s = 1 .. L /\ DOMAIN t = 1 .. K
  OBVIOUS
<1> HIDE DEF r, L, K
<1>3. \A i \in 1 .. L, j \in 1 .. K : s[i] < t[j]
  BY <1>2 DEF ToSet
<1>4. ASSUME NEW i \in 1 .. L + K, NEW j \in 1 .. L + K, i < j PROVE r[i] < r[j]
  <2>1. CASE i \in 1 .. L /\ j \in 1 .. L
    <3>1. s[i] < s[j]
      BY <1>4, <2>1 DEF Increasing, L
    <3> QED
      BY <1>1, <2>1, <3>1
  <2>2. CASE i \in 1 .. L /\ j - L \in 1 .. K /\ j = L + (j - L)
    <3>1. r[j] = t[j - L] /\ r[i] = s[i]
      BY <1>1, <2>2
    <3> QED
      BY <1>3, <2>2, <3>1
  <2>3. CASE i - L \in 1 .. K /\ i = L + (i - L) /\ j - L \in 1 .. K /\ j = L + (j - L)
    <3>1. r[j] = t[j - L] /\ r[i] = t[i - L]
      BY <1>1, <2>3
    <3>2. i - L < j - L
      BY <1>1, <1>4
    <3>3. t[i - L] < t[j - L]
      BY <2>3, <3>2 DEF Increasing, K
    <3> QED
      BY <3>1, <3>3
  <2>4. CASE i > L /\ j \in 1 .. L
    BY <1>1, <1>4, <2>4
  <2> QED
    BY <1>1, <2>1, <2>2, <2>3, <2>4
<1>5. Increasing(r)
  BY <1>1, <1>4, Zenon DEF Increasing
<1> QED
  BY <1>5 DEF r

ObjectLists == [open : BOOLEAN, found : Seq(Nat)]

LEMMA ReadWordIsTyped ==
  ASSUME NEW tokens, NEW x \in ObjectLists, NEW c \in Nat
  PROVE  ReadWord(tokens, x, c) \in ObjectLists
<1>1. x.found \in Seq(Nat) /\ [x EXCEPT !.open = FALSE] \in ObjectLists
  BY DEF ObjectLists
<1>2. Append(x.found, c) \in Seq(Nat)
  BY <1>1
<1> DEFINE found == IF tokens[c] \in NotEntities THEN x.found ELSE Append(x.found, c)
           more  == Following(tokens, c) \in Joins
<1>3. found \in Seq(Nat) /\ more \in BOOLEAN
  <2>1. found \in Seq(Nat)
    BY <1>1, <1>2, Zenon
  <2>2. more \in BOOLEAN
    OBVIOUS
  <2> QED
    BY <2>1, <2>2, Zenon
<1> HIDE DEF found, more
<1>4. [open |-> more, found |-> found] \in ObjectLists
  BY <1>3 DEF ObjectLists
<1> QED
  BY <1>1, <1>4, Zenon DEF ReadWord, found, more

\* The objects among the first words after a verb.
Reading(tokens, verb, f) ==
  /\ f \in [0 .. Len(tokens) - verb -> ObjectLists]
  /\ f[0] = [open |-> TRUE, found |-> <<>>]
  /\ \A n \in 1 .. Len(tokens) - verb :
        f[n] = ReadWord(tokens, f[n - 1], verb + n)
  /\ Objects(tokens, verb) = f[Len(tokens) - verb].found

LEMMA ObjectsInTurn ==
  ASSUME NEW tokens \in Seq(STRING), NEW verb \in 1 .. Len(tokens)
  PROVE  \E f : Reading(tokens, verb, f)
<1> DEFINE N == Len(tokens) - verb
           S == ObjectLists
           base == [open |-> TRUE, found |-> <<>>]
           step(n, x) == ReadWord(tokens, x, verb + n)
           table == [p \in (1 .. N) \X S |-> step(p[1], p[2])]
           Rec(f) == f = [n \in 0 .. N |-> IF n = 0 THEN base ELSE step(n, f[n - 1])]
           f == CHOOSE f : Rec(f)
<1>1. N \in Nat /\ base \in S
  <2> DEFINE none == <<>>
  <2>1. none \in Seq(Nat) /\ Len(tokens) - verb \in Nat
    OBVIOUS
  <2> HIDE DEF none
  <2>2. [open |-> TRUE, found |-> none] \in ObjectLists
    BY <2>1 DEF ObjectLists
  <2> QED
    BY <2>1, <2>2 DEF none
<1>2. ASSUME NEW n \in 1 .. N, NEW x \in S
      PROVE  step(n, x) \in S
  <2>1. verb + n \in Nat
    OBVIOUS
  <2> QED
    BY <2>1, ReadWordIsTyped
<1>3. Objects(tokens, verb) = f[N].found
  BY DEF Objects
<1> HIDE DEF N, S, base, step
<1>4. \E h : Rec(h)
  <2>1. table \in [(1 .. N) \X S -> S]
    BY <1>2
  <2>2. PICK h \in [0 .. N -> S] : Iteration(h, N, base, table)
    <3> HIDE DEF table
    <3> QED
      BY <1>1, <2>1, Iterates, Zenon
  <2>3. \A n \in 0 .. N : h[n] = IF n = 0 THEN base ELSE table[<<n, h[n - 1]>>]
    <3> HIDE DEF table
    <3> QED
      BY <2>2, Zenon DEF Iteration
  <2>4. ASSUME NEW n \in 0 .. N PROVE h[n] = IF n = 0 THEN base ELSE step(n, h[n - 1])
    <3>1. CASE n # 0
      <4>1. n \in 1 .. N /\ n - 1 \in 0 .. N
        BY <1>1, <3>1
      <4>2. <<n, h[n - 1]>> \in (1 .. N) \X S
        BY <2>2, <4>1
      <4>3. table[<<n, h[n - 1]>>] = step(n, h[n - 1])
        BY <4>2
      <4> QED
        BY <2>3, <3>1, <4>3, Zenon
    <3> QED
      BY <2>3, <3>1, Zenon
  <2>5. h = [n \in 0 .. N |-> h[n]]
    BY <2>2
  <2> QED
    BY <2>4, <2>5, Zenon
<1>5. Rec(f)
  <2> HIDE DEF Rec
  <2> QED
    BY <1>4, Zenon
<1>6. f[0] = base /\ \A n \in 1 .. N : f[n] = step(n, f[n - 1])
  <2> HIDE DEF f
  <2>1. 0 \in 0 .. N /\ \A n \in 1 .. N : n \in 0 .. N /\ n # 0
    BY <1>1
  <2> QED
    BY <1>5, <2>1, Zenon
<1>7. f \in [0 .. N -> S]
  <2> HIDE DEF f
  <2> DEFINE T == {n \in 0 .. N : f[n] \in S}
  <2>1. 0 \in T
    BY <1>1, <1>6
  <2>2. ASSUME NEW n \in 0 .. N - 1, n \in T PROVE n + 1 \in T
    <3>1. n + 1 \in 1 .. N /\ n + 1 \in 0 .. N /\ (n + 1) - 1 = n
      BY <1>1
    <3> QED
      BY <1>2, <1>6, <2>2, <3>1
  <2>3. \A n \in 0 .. N : n \in T
    <3> HIDE DEF T
    <3> QED
      BY <1>1, <2>1, <2>2, UpTo
  <2>4. f = [n \in 0 .. N |-> f[n]]
    BY <1>5
  <2> QED
    BY <2>3, <2>4
<1> QED
  <2> HIDE DEF f, Rec
  <2> QED
    BY <1>3, <1>6, <1>7, Zenon DEF N, S, base, step, Reading

\* A place that no verb comes two words after, or sooner.
Clear(tokens, verb, c) == \A j \in verb + 1 .. Len(tokens) : tokens[j] \in Verbs => c < j - 1

\* What may be said of the objects among the first n words after a verb.
ObjectsSound(tokens, verb, n, x) ==
  /\ x \in ObjectLists /\ Increasing(x.found)
  /\ \A c \in ToSet(x.found) :
       c \in verb + 1 .. verb + n /\ tokens[c] \in Nouns \ NotEntities /\ Clear(tokens, verb, c)
  /\ x.open => \A j \in verb + 1 .. verb + n : tokens[j] \notin Verbs

LEMMA ObjectsGoOn ==
  ASSUME NEW tokens \in Seq(STRING), NEW verb \in 1 .. Len(tokens),
         NEW n \in Nat, verb + (n + 1) <= Len(tokens), NEW x, ObjectsSound(tokens, verb, n, x)
  PROVE  ObjectsSound(tokens, verb, n + 1, ReadWord(tokens, x, verb + (n + 1)))
<1> DEFINE c == verb + (n + 1)
           y == ReadWord(tokens, x, c)
<1>1. /\ x \in ObjectLists /\ x.open \in BOOLEAN /\ x.found \in Seq(Nat) /\ Increasing(x.found)
      /\ \A d \in ToSet(x.found) :
           d \in verb + 1 .. verb + n /\ tokens[d] \in Nouns \ NotEntities /\ Clear(tokens, verb, d)
      /\ x.open => \A j \in verb + 1 .. verb + n : tokens[j] \notin Verbs
  BY DEF ObjectsSound, ObjectLists
<1>2. /\ c \in Nat /\ c \in verb + 1 .. verb + (n + 1) /\ c <= Len(tokens) /\ Len(tokens) \in Nat
      /\ \A d \in verb + 1 .. verb + n : d \in verb + 1 .. verb + (n + 1) /\ d < c
      /\ \A d \in verb + 1 .. verb + (n + 1) : d \in verb + 1 .. verb + n \/ d = c
  OBVIOUS
<1>3. y \in ObjectLists
  BY <1>1, <1>2, ReadWordIsTyped
<1>4. \A d \in ToSet(x.found) :
        d \in verb + 1 .. verb + (n + 1) /\ tokens[d] \in Nouns \ NotEntities /\ Clear(tokens, verb, d)
  BY <1>1, <1>2
<1>5. \A w \in Verbs : w \notin Joins \cup Skips /\ w \notin Nouns
  BY SpecAssumption
<1> HIDE DEF c
<1>6. CASE ~ x.open
  <2>1. y = x
    BY <1>6, Zenon DEF ReadWord
  <2> QED
    BY <1>1, <1>4, <1>6, <2>1, Zenon DEF ObjectsSound, c, y
<1>7. CASE x.open /\ tokens[c] \in Joins \cup Skips
  <2>1. y = x
    BY <1>7, Zenon DEF ReadWord
  <2>2. \A j \in verb + 1 .. verb + (n + 1) : tokens[j] \notin Verbs
    BY <1>1, <1>2, <1>5, <1>7
  <2> QED
    BY <1>1, <1>4, <2>1, <2>2, Zenon DEF ObjectsSound, c, y
<1>8. CASE x.open /\ tokens[c] \notin Joins \cup Skips /\ EndsObjects(tokens, c)
  <2>1. y = [x EXCEPT !.open = FALSE]
    BY <1>8, Zenon DEF ReadWord
  <2>2. y.found = x.found /\ y.open = FALSE
    <3> HIDE DEF y
    <3> QED
      BY <1>1, <2>1 DEF ObjectLists
  <2> HIDE DEF y
  <2>3. ObjectsSound(tokens, verb, n + 1, y)
    BY <1>1, <1>3, <1>4, <2>2, Zenon DEF ObjectsSound
  <2> QED
    BY <2>3 DEF y, c
<1>9. CASE x.open /\ tokens[c] \notin Joins \cup Skips /\ ~ EndsObjects(tokens, c)
  <2>1. y = [open  |-> Following(tokens, c) \in Joins,
             found |-> IF tokens[c] \in NotEntities THEN x.found ELSE Append(x.found, c)]
    BY <1>9, Zenon DEF ReadWord
  <2>2. y.found = IF tokens[c] \in NotEntities THEN x.found ELSE Append(x.found, c)
    <3> HIDE DEF y
    <3> QED
      BY <2>1
  <2> HIDE DEF y
  <2>3. tokens[c] \in Nouns /\ Following(tokens, c) \notin Verbs
    BY <1>9 DEF EndsObjects
  <2>4. \A j \in verb + 1 .. verb + (n + 1) : tokens[j] \notin Verbs
    BY <1>1, <1>2, <1>5, <1>9, <2>3
  <2>5. c < Len(tokens) => tokens[c + 1] \notin Verbs
    BY <2>3 DEF Following
  <2>6. Clear(tokens, verb, c)
    <3> SUFFICES ASSUME NEW j \in verb + 1 .. Len(tokens), tokens[j] \in Verbs PROVE c < j - 1
      BY Zenon DEF Clear
    <3>1. j \notin verb + 1 .. verb + (n + 1)
      BY <2>4
    <3>2. j # c + 1
      BY <1>2, <2>5
    <3> QED
      BY <1>2, <3>1, <3>2 DEF c
  <2>7. CASE tokens[c] \in NotEntities
    <3>1. y.found = x.found
      BY <2>2, <2>7
    <3>2. ObjectsSound(tokens, verb, n + 1, y)
      BY <1>1, <1>3, <1>4, <2>4, <3>1, Zenon DEF ObjectsSound
    <3> QED
      BY <3>2 DEF y, c
  <2>8. CASE tokens[c] \notin NotEntities
    <3>1. y.found = Append(x.found, c)
      BY <2>2, <2>8
    <3>2. \A d \in ToSet(x.found) : d < c
      BY <1>1, <1>2
    <3>3. Increasing(y.found)
      BY <1>1, <1>2, <3>1, <3>2, IncreasingAppend
    <3>4. ToSet(y.found) = ToSet(x.found) \cup {c}
      <4>1. x.found \in Seq(Nat) /\ c \in Nat
        BY <1>1, <1>2
      <4>2. ToSet(Append(x.found, c)) = ToSet(x.found) \cup {c}
        BY <4>1, AppendIs
      <4> QED
        BY <3>1, <4>2
    <3>5. \A d \in ToSet(y.found) :
            d \in verb + 1 .. verb + (n + 1) /\ tokens[d] \in Nouns \ NotEntities /\ Clear(tokens, verb, d)
      BY <1>2, <1>4, <2>3, <2>6, <2>8, <3>4
    <3>6. ObjectsSound(tokens, verb, n + 1, y)
      BY <1>3, <2>4, <3>3, <3>5, Zenon DEF ObjectsSound
    <3> QED
      BY <3>6 DEF y, c
  <2> QED
    BY <2>7, <2>8
<1> QED
  BY <1>6, <1>7, <1>8, <1>9

\* The objects of a verb come after it, in order, and before any verb that follows.
LEMMA ObjectsAre ==
  ASSUME NEW tokens \in Seq(STRING), NEW verb \in 1 .. Len(tokens)
  PROVE  /\ Objects(tokens, verb) \in Seq(Nat) /\ Increasing(Objects(tokens, verb))
         /\ \A c \in ToSet(Objects(tokens, verb)) :
              c \in verb + 1 .. Len(tokens) /\ tokens[c] \in Nouns \ NotEntities /\ Clear(tokens, verb, c)
<1> DEFINE N == Len(tokens) - verb
<1>0. N \in Nat /\ verb + N = Len(tokens)
  OBVIOUS
<1>r. PICK f : Reading(tokens, verb, f)
  BY ObjectsInTurn
<1>1. /\ f \in [0 .. N -> ObjectLists] /\ f[0] = [open |-> TRUE, found |-> <<>>]
      /\ \A n \in 1 .. N : f[n] = ReadWord(tokens, f[n - 1], verb + n)
      /\ Objects(tokens, verb) = f[N].found
  BY <1>r, Zenon DEF Reading
<1> DEFINE T == {n \in 0 .. N : ObjectsSound(tokens, verb, n, f[n])}
<1>2. 0 \in T
  <2> HIDE DEF N
  <2> DEFINE none == <<>>
  <2>1. none \in Seq(Nat) /\ Len(none) = 0 /\ DOMAIN none = {}
    OBVIOUS
  <2>2. ToSet(none) = {}
    BY <2>1 DEF ToSet
  <2> HIDE DEF none
  <2>3. f[0].found = none /\ f[0] \in ObjectLists /\ 0 \in 0 .. N
    <3>1. f[0] = [open |-> TRUE, found |-> none]
      BY <1>1, Zenon DEF none
    <3>2. 0 \in 0 .. N
      BY <1>0
    <3>3. f[0] \in ObjectLists
      BY <1>1, <3>2
    <3>4. f[0].found = none
      BY <3>1
    <3> QED
      BY <3>2, <3>3, <3>4
  <2>4. Increasing(f[0].found)
    BY <2>1, <2>3 DEF Increasing
  <2>5. \A j \in verb + 1 .. verb + 0 : FALSE
    OBVIOUS
  <2>6. \A c \in ToSet(f[0].found) : FALSE
    BY <2>2, <2>3
  <2>7. ObjectsSound(tokens, verb, 0, f[0])
    BY <2>3, <2>4, <2>5, <2>6, Zenon DEF ObjectsSound
  <2> QED
    BY <2>3, <2>7
<1>3. ASSUME NEW n \in 0 .. N - 1, n \in T PROVE n + 1 \in T
  <2>1. n + 1 \in 1 .. N /\ n + 1 \in 0 .. N /\ (n + 1) - 1 = n /\ n \in Nat /\ verb + (n + 1) <= Len(tokens)
    BY <1>0
  <2> HIDE DEF N
  <2>2. f[n + 1] = ReadWord(tokens, f[n], verb + (n + 1))
    BY <1>1, <2>1
  <2>3. ObjectsSound(tokens, verb, n, f[n])
    BY <1>3
  <2>4. ObjectsSound(tokens, verb, n + 1, ReadWord(tokens, f[n], verb + (n + 1)))
    BY <2>1, <2>3, ObjectsGoOn
  <2> QED
    BY <2>1, <2>2, <2>4
<1> HIDE DEF N
<1>4. \A n \in 0 .. N : n \in T
  <2> HIDE DEF T
  <2> QED
    BY <1>0, <1>2, <1>3, UpTo
<1>5. ObjectsSound(tokens, verb, N, f[N])
  BY <1>0, <1>4
<1>6. f[N].found \in Seq(Nat)
  BY <1>5 DEF ObjectsSound, ObjectLists
<1> QED
  BY <1>0, <1>1, <1>5, <1>6, Zenon DEF ObjectsSound

LEMMA SubjectIs ==
  ASSUME NEW tokens \in Seq(STRING), NEW verb \in 1 .. Len(tokens)
  PROVE  /\ Subject(tokens, verb) \in Seq(Nat) /\ Increasing(Subject(tokens, verb))
         /\ \A c \in ToSet(Subject(tokens, verb)) :
              c = verb - 1 /\ c \in 1 .. Len(tokens) /\ tokens[c] \in Nouns \ NotEntities
<1>1. CASE Subject(tokens, verb) = <<>>
  <2> DEFINE none == <<>>
  <2>1. none \in Seq(Nat) /\ Len(none) = 0 /\ DOMAIN none = {}
    OBVIOUS
  <2> HIDE DEF none
  <2>2. ToSet(none) = {} /\ Increasing(none)
    BY <2>1 DEF ToSet, Increasing
  <2> QED
    BY <1>1, <2>1, <2>2 DEF none
<1>2. CASE /\ Subject(tokens, verb) = <<verb - 1>> /\ verb > 1
           /\ tokens[verb - 1] \in Nouns /\ tokens[verb - 1] \notin NotEntities
  <2> DEFINE s == <<verb - 1>>
  <2>1. s \in Seq(Nat) /\ Len(s) = 1 /\ DOMAIN s = {1} /\ s[1] = verb - 1 /\ verb - 1 \in 1 .. Len(tokens)
    BY <1>2
  <2> HIDE DEF s
  <2>2. ToSet(s) = {verb - 1} /\ Increasing(s)
    BY <2>1 DEF ToSet, Increasing
  <2> QED
    BY <1>2, <2>1, <2>2 DEF s
<1> QED
  BY <1>1, <1>2 DEF Subject

\* The candidate nouns beside the verbs among the first words.
Gathering(tokens, f) ==
  /\ f \in [0 .. Len(tokens) -> Seq(Nat)]
  /\ f[0] = <<>>
  /\ \A n \in 1 .. Len(tokens) :
        f[n] = IF tokens[n] \in Verbs
               THEN (f[n - 1] \o Subject(tokens, n)) \o Objects(tokens, n) ELSE f[n - 1]
  /\ CandidateNouns(tokens) = f[Len(tokens)]

LEMMA NounsInTurn ==
  ASSUME NEW tokens \in Seq(STRING)
  PROVE  \E f : Gathering(tokens, f)
<1> DEFINE N == Len(tokens)
           S == Seq(Nat)
           base == <<>>
           step(n, x) == IF tokens[n] \in Verbs
               THEN (x \o Subject(tokens, n)) \o Objects(tokens, n) ELSE x
           table == [p \in (1 .. N) \X S |-> step(p[1], p[2])]
           Rec(f) == f = [n \in 0 .. N |-> IF n = 0 THEN base ELSE step(n, f[n - 1])]
           f == CHOOSE f : Rec(f)
<1>1. N \in Nat /\ base \in S
  OBVIOUS
<1>2. ASSUME NEW n \in 1 .. N, NEW x \in S
      PROVE  step(n, x) \in S
  <2>1. Subject(tokens, n) \in Seq(Nat) /\ Objects(tokens, n) \in Seq(Nat)
    BY SubjectIs, ObjectsAre
  <2>2. x \o Subject(tokens, n) \in Seq(Nat)
    BY <2>1
  <2>3. (x \o Subject(tokens, n)) \o Objects(tokens, n) \in Seq(Nat)
    BY <2>1, <2>2
  <2> QED
    BY <2>3, Zenon
<1>3. CandidateNouns(tokens) = f[N]
  BY DEF CandidateNouns
<1> HIDE DEF N, S, base, step
<1>4. \E h : Rec(h)
  <2>1. table \in [(1 .. N) \X S -> S]
    BY <1>2
  <2>2. PICK h \in [0 .. N -> S] : Iteration(h, N, base, table)
    <3> HIDE DEF table
    <3> QED
      BY <1>1, <2>1, Iterates, Zenon
  <2>3. \A n \in 0 .. N : h[n] = IF n = 0 THEN base ELSE table[<<n, h[n - 1]>>]
    <3> HIDE DEF table
    <3> QED
      BY <2>2, Zenon DEF Iteration
  <2>4. ASSUME NEW n \in 0 .. N PROVE h[n] = IF n = 0 THEN base ELSE step(n, h[n - 1])
    <3>1. CASE n # 0
      <4>1. n \in 1 .. N /\ n - 1 \in 0 .. N
        BY <1>1, <3>1
      <4>2. <<n, h[n - 1]>> \in (1 .. N) \X S
        BY <2>2, <4>1
      <4>3. table[<<n, h[n - 1]>>] = step(n, h[n - 1])
        BY <4>2
      <4> QED
        BY <2>3, <3>1, <4>3, Zenon
    <3> QED
      BY <2>3, <3>1, Zenon
  <2>5. h = [n \in 0 .. N |-> h[n]]
    BY <2>2
  <2> QED
    BY <2>4, <2>5, Zenon
<1>5. Rec(f)
  <2> HIDE DEF Rec
  <2> QED
    BY <1>4, Zenon
<1>6. f[0] = base /\ \A n \in 1 .. N : f[n] = step(n, f[n - 1])
  <2> HIDE DEF f
  <2>1. 0 \in 0 .. N /\ \A n \in 1 .. N : n \in 0 .. N /\ n # 0
    BY <1>1
  <2> QED
    BY <1>5, <2>1, Zenon
<1>7. f \in [0 .. N -> S]
  <2> HIDE DEF f
  <2> DEFINE T == {n \in 0 .. N : f[n] \in S}
  <2>1. 0 \in T
    BY <1>1, <1>6
  <2>2. ASSUME NEW n \in 0 .. N - 1, n \in T PROVE n + 1 \in T
    <3>1. n + 1 \in 1 .. N /\ n + 1 \in 0 .. N /\ (n + 1) - 1 = n
      BY <1>1
    <3> QED
      BY <1>2, <1>6, <2>2, <3>1
  <2>3. \A n \in 0 .. N : n \in T
    <3> HIDE DEF T
    <3> QED
      BY <1>1, <2>1, <2>2, UpTo
  <2>4. f = [n \in 0 .. N |-> f[n]]
    BY <1>5
  <2> QED
    BY <2>3, <2>4
<1> QED
  <2> HIDE DEF f, Rec
  <2> QED
    BY <1>3, <1>6, <1>7, Zenon DEF N, S, base, step, Gathering

\* What may be said of the candidate nouns beside the verbs among the first n words.
NounsSound(tokens, n, x) ==
  /\ x \in Seq(Nat) /\ Increasing(x)
  /\ \A c \in ToSet(x) :
       c \in 1 .. Len(tokens) /\ tokens[c] \in Nouns \ NotEntities /\ Clear(tokens, n, c)

\* A noun between two verbs is the object of one or the subject of the other.
LEMMA NounsGoOn ==
  ASSUME NEW tokens \in Seq(STRING), NEW n \in Nat, n + 1 <= Len(tokens),
         NEW x, NounsSound(tokens, n, x)
  PROVE  NounsSound(tokens, n + 1,
           IF tokens[n + 1] \in Verbs THEN (x \o Subject(tokens, n + 1)) \o Objects(tokens, n + 1) ELSE x)
<1> DEFINE s == Subject(tokens, n + 1)
           o == Objects(tokens, n + 1)
<1>1. /\ x \in Seq(Nat) /\ Increasing(x)
      /\ \A c \in ToSet(x) :
           c \in 1 .. Len(tokens) /\ tokens[c] \in Nouns \ NotEntities /\ Clear(tokens, n, c)
  BY Zenon DEF NounsSound
<1>2. n + 1 \in 1 .. Len(tokens) /\ n + 1 \in n + 1 .. Len(tokens) /\ Len(tokens) \in Nat
  OBVIOUS
<1>3. \A c \in Nat : Clear(tokens, n, c) => Clear(tokens, n + 1, c)
  <2>1. \A j \in (n + 1) + 1 .. Len(tokens) : j \in n + 1 .. Len(tokens)
    OBVIOUS
  <2> QED
    BY <2>1 DEF Clear
<1>4. \A c \in ToSet(x) : c \in Nat
  BY <1>1
<1>5. \A c \in ToSet(x) :
        c \in 1 .. Len(tokens) /\ tokens[c] \in Nouns \ NotEntities /\ Clear(tokens, n + 1, c)
  BY <1>1, <1>3, <1>4
<1>6. CASE tokens[n + 1] \notin Verbs
  BY <1>1, <1>5, <1>6, Zenon DEF NounsSound
<1>7. CASE tokens[n + 1] \in Verbs
  <2>1. /\ s \in Seq(Nat) /\ Increasing(s)
        /\ \A c \in ToSet(s) : c = n /\ c \in 1 .. Len(tokens) /\ tokens[c] \in Nouns \ NotEntities
    BY <1>2, SubjectIs
  <2>2. /\ o \in Seq(Nat) /\ Increasing(o)
        /\ \A c \in ToSet(o) :
             /\ c \in (n + 1) + 1 .. Len(tokens) /\ tokens[c] \in Nouns \ NotEntities
             /\ Clear(tokens, n + 1, c)
    BY <1>2, ObjectsAre
  <2> HIDE DEF s, o
  <2>3. \A c \in ToSet(x) : c < n
    <3>1. \A c \in ToSet(x) : c < (n + 1) - 1
      BY <1>1, <1>2, <1>7 DEF Clear
    <3> QED
      BY <1>4, <3>1
  <2>4. x \o s \in Seq(Nat) /\ ToSet(x \o s) = ToSet(x) \cup ToSet(s) /\ Increasing(x \o s)
    <3>1. \A c \in ToSet(x), d \in ToSet(s) : c < d
      BY <2>1, <2>3
    <3> QED
      BY <1>1, <2>1, <3>1, ConcatIs, IncreasingConcat
  <2> DEFINE t == x \o s
  <2> HIDE DEF t
  <2>5. t \in Seq(Nat) /\ ToSet(t) = ToSet(x) \cup ToSet(s) /\ Increasing(t)
    BY <2>4 DEF t
  <2>6. t \o o \in Seq(Nat) /\ ToSet(t \o o) = ToSet(t) \cup ToSet(o) /\ Increasing(t \o o)
    <3>1. \A c \in ToSet(t), d \in ToSet(o) : c < d
      <4>1. \A c \in ToSet(t) : c \in Nat /\ c <= n
        BY <1>4, <2>1, <2>3, <2>5
      <4>2. \A d \in ToSet(o) : d \in Nat /\ n + 2 <= d
        BY <2>2
      <4> QED
        BY <4>1, <4>2
    <3> QED
      <4>1. t \o o \in Seq(Nat) /\ ToSet(t \o o) = ToSet(t) \cup ToSet(o)
        BY <2>2, <2>5, ConcatIs
      <4>2. Increasing(t \o o)
        BY <2>2, <2>5, <3>1, IncreasingConcat
      <4> QED
        BY <4>1, <4>2
  <2>7. Clear(tokens, n + 1, n)
    BY <1>2 DEF Clear
  <2>8. \A c \in ToSet(t \o o) :
          c \in 1 .. Len(tokens) /\ tokens[c] \in Nouns \ NotEntities /\ Clear(tokens, n + 1, c)
    <3>1. \A c \in ToSet(o) : c \in 1 .. Len(tokens)
      BY <1>2, <2>2
    <3> QED
      BY <1>5, <2>1, <2>2, <2>5, <2>6, <2>7, <3>1
  <2>9. NounsSound(tokens, n + 1, t \o o)
    BY <2>6, <2>8, Zenon DEF NounsSound
  <2> QED
    BY <1>7, <2>9 DEF t, s, o
<1> QED
  BY <1>6, <1>7

\* Candidate nouns come in the order of the text, each place once (analysis.py).
THEOREM NounsAreRight ==
  ASSUME NEW tokens, IsText(tokens)
  PROVE  NounsRight(tokens)
<1> DEFINE N == Len(tokens)
<1>0. N \in Nat /\ tokens \in Seq(STRING)
  BY DEF IsText
<1>r. PICK f : Gathering(tokens, f)
  BY <1>0, NounsInTurn
<1>1. /\ f \in [0 .. N -> Seq(Nat)] /\ f[0] = <<>>
      /\ \A n \in 1 .. N : f[n] = IF tokens[n] \in Verbs
                                  THEN (f[n - 1] \o Subject(tokens, n)) \o Objects(tokens, n)
                                  ELSE f[n - 1]
      /\ CandidateNouns(tokens) = f[N]
  BY <1>r, Zenon DEF Gathering
<1> DEFINE T == {n \in 0 .. N : NounsSound(tokens, n, f[n])}
<1>2. 0 \in T
  <2> DEFINE none == <<>>
  <2>1. none \in Seq(Nat) /\ Len(none) = 0 /\ DOMAIN none = {}
    OBVIOUS
  <2> HIDE DEF none
  <2>2. ToSet(none) = {} /\ Increasing(none)
    BY <2>1 DEF ToSet, Increasing
  <2>3. NounsSound(tokens, 0, none)
    <3>1. \A c \in ToSet(none) : FALSE
      BY <2>2
    <3> QED
      BY <2>1, <2>2, <3>1, Zenon DEF NounsSound
  <2>4. 0 \in 0 .. N /\ f[0] = none
    BY <1>0, <1>1 DEF none
  <2> QED
    BY <2>3, <2>4
<1>3. ASSUME NEW n \in 0 .. N - 1, n \in T PROVE n + 1 \in T
  <2>1. n + 1 \in 1 .. N /\ n + 1 \in 0 .. N /\ (n + 1) - 1 = n /\ n \in Nat /\ n + 1 <= Len(tokens)
    BY <1>0
  <2> HIDE DEF N
  <2>2. f[n + 1] = IF tokens[n + 1] \in Verbs
                   THEN (f[n] \o Subject(tokens, n + 1)) \o Objects(tokens, n + 1) ELSE f[n]
    BY <1>1, <2>1
  <2>3. NounsSound(tokens, n, f[n])
    BY <1>3
  <2>4. NounsSound(tokens, n + 1,
          IF tokens[n + 1] \in Verbs
          THEN (f[n] \o Subject(tokens, n + 1)) \o Objects(tokens, n + 1) ELSE f[n])
    BY <1>0, <2>1, <2>3, NounsGoOn
  <2> QED
    BY <2>1, <2>2, <2>4, Zenon
<1> HIDE DEF N
<1>4. \A n \in 0 .. N : n \in T
  <2> HIDE DEF T
  <2> QED
    BY <1>0, <1>2, <1>3, UpTo
<1> DEFINE found == f[N]
<1> HIDE DEF found
<1>5. NounsSound(tokens, N, found)
  BY <1>0, <1>4 DEF found
<1>6. /\ found \in Seq(Nat) /\ Increasing(found)
      /\ \A c \in ToSet(found) : tokens[c] \in Nouns \ NotEntities
  BY <1>5, Zenon DEF NounsSound
<1>7. DOMAIN found = 1 .. Len(found)
  BY <1>6
<1>8. \A i \in DOMAIN found : tokens[found[i]] \in Nouns \ NotEntities
  BY <1>6 DEF ToSet
<1>9. \A i, j \in DOMAIN found : i < j => found[i] < found[j]
  BY <1>6, <1>7, Zenon DEF Increasing
<1>10. CandidateNouns(tokens) = found
  BY <1>1 DEF found
<1> QED
  BY <1>8, <1>9, <1>10, Zenon DEF NounsRight

LEMMA NoneIsInjective ==
  ASSUME NEW X
  PROVE  <<>> \in Seq(X) /\ IsInjective(<<>>) /\ ToSet(<<>>) = {} /\ Len(<<>>) = 0
<1> DEFINE none == <<>>
<1>1. none \in Seq(X) /\ Len(none) = 0 /\ DOMAIN none = {}
  OBVIOUS
<1> HIDE DEF none
<1>2. IsInjective(none) /\ ToSet(none) = {}
  BY <1>1 DEF IsInjective, ToSet
<1> QED
  BY <1>1, <1>2 DEF none

LEMMA AppendIsInjective ==
  ASSUME NEW X, NEW s \in Seq(X), IsInjective(s), NEW x \in X, x \notin ToSet(s)
  PROVE  IsInjective(Append(s, x))
<1> DEFINE t == Append(s, x)
<1>1. /\ Len(s) \in Nat /\ (\A i \in 1 .. Len(s) : t[i] = s[i])
      /\ t[Len(s) + 1] = x /\ DOMAIN s = 1 .. Len(s) /\ DOMAIN t = 1 .. Len(s) + 1
  BY AppendIs
<1> HIDE DEF t
<1>2. \A i \in 1 .. Len(s) : s[i] # x
  BY <1>1 DEF ToSet
<1>3. \A i \in 1 .. Len(s) + 1 : i \in 1 .. Len(s) \/ i = Len(s) + 1
  BY <1>1
<1>4. ASSUME NEW i \in 1 .. Len(s) + 1, NEW j \in 1 .. Len(s) + 1, t[i] = t[j] PROVE i = j
  <2>1. CASE i \in 1 .. Len(s) /\ j \in 1 .. Len(s)
    <3>1. s[i] = s[j]
      BY <1>1, <1>4, <2>1
    <3> QED
      BY <1>1, <2>1, <3>1 DEF IsInjective
  <2>2. CASE i = Len(s) + 1 \/ j = Len(s) + 1
    BY <1>1, <1>2, <1>3, <1>4, <2>2
  <2> QED
    BY <1>3, <2>1, <2>2
<1>5. IsInjective(t)
  BY <1>1, <1>4 DEF IsInjective
<1> QED
  BY <1>5 DEF t

LEMMA ConcatIsInjective ==
  ASSUME NEW X, NEW s \in Seq(X), IsInjective(s), NEW t \in Seq(X), IsInjective(t),
         ToSet(s) \cap ToSet(t) = {}
  PROVE  IsInjective(s \o t)
<1> DEFINE r == s \o t
           L == Len(s)
           K == Len(t)
<1>1. /\ r \in Seq(X) /\ Len(r) = L + K /\ L \in Nat /\ K \in Nat /\ (\A i \in 1 .. L : r[i] = s[i])
      /\ \A i \in 1 .. K : r[L + i] = t[i]
      /\ \A i \in 1 .. L + K : i \in 1 .. L \/ (i - L \in 1 .. K /\ i = L + (i - L) /\ i > L)
  BY ConcatIs
<1>2. DOMAIN s = 1 .. L /\ DOMAIN t = 1 .. K /\ DOMAIN r = 1 .. L + K
  BY <1>1
<1> HIDE DEF r, L, K
<1>3. \A i \in 1 .. L, j \in 1 .. K : s[i] # t[j]
  BY <1>2 DEF ToSet
<1>4. ASSUME NEW i \in 1 .. L + K, NEW j \in 1 .. L + K, r[i] = r[j] PROVE i = j
  <2>1. CASE i \in 1 .. L /\ j \in 1 .. L
    <3>1. s[i] = s[j]
      BY <1>1, <1>4, <2>1
    <3> QED
      BY <1>2, <2>1, <3>1 DEF IsInjective
  <2>2. CASE i \in 1 .. L /\ j - L \in 1 .. K /\ j = L + (j - L)
    <3>1. r[j] = t[j - L] /\ r[i] = s[i]
      BY <1>1, <2>2
    <3> QED
      BY <1>3, <1>4, <2>2, <3>1
  <2>3. CASE j \in 1 .. L /\ i - L \in 1 .. K /\ i = L + (i - L)
    <3>1. r[i] = t[i - L] /\ r[j] = s[j]
      BY <1>1, <2>3
    <3> QED
      BY <1>3, <1>4, <2>3, <3>1
  <2>4. CASE i - L \in 1 .. K /\ i = L + (i - L) /\ j - L \in 1 .. K /\ j = L + (j - L)
    <3>1. r[j] = t[j - L] /\ r[i] = t[i - L]
      BY <1>1, <2>4
    <3>2. i - L = j - L
      BY <1>2, <1>4, <2>4, <3>1 DEF IsInjective
    <3> QED
      BY <2>4, <3>2
  <2> QED
    BY <1>1, <2>1, <2>2, <2>3, <2>4
<1>5. IsInjective(r)
  BY <1>2, <1>4 DEF IsInjective
<1> QED
  BY <1>5 DEF r

LEMMA KeptIsInjective ==
  ASSUME NEW X, NEW s \in Seq(X), IsInjective(s), NEW M
  PROVE  Kept(s, M) \in Seq(X) /\ IsInjective(Kept(s, M)) /\ ToSet(Kept(s, M)) = ToSet(s) \cap M
<1> DEFINE r == Kept(s, M)
<1>1. r \in Seq(X) /\ ToSet(r) = ToSet(s) \cap M /\ IsThinned(r, s)
  BY KeptIs
<1> HIDE DEF r
<1>2. PICK at \in [DOMAIN r -> DOMAIN s] :
        /\ \A i \in DOMAIN r : r[i] = s[at[i]]
        /\ \A i, j \in DOMAIN r : i < j => at[i] < at[j]
  BY <1>1, Zenon DEF IsThinned
<1>3. DOMAIN r = 1 .. Len(r) /\ Len(r) \in Nat /\ DOMAIN s = 1 .. Len(s) /\ Len(s) \in Nat
  BY <1>1
<1>4. ASSUME NEW i \in DOMAIN r, NEW j \in DOMAIN r, r[i] = r[j] PROVE i = j
  <2>1. at[i] = at[j] /\ at[i] \in Nat
    BY <1>2, <1>3, <1>4 DEF IsInjective
  <2>2. ~ (i < j) /\ ~ (j < i)
    BY <1>2, <2>1
  <2> QED
    BY <1>3, <2>2
<1>5. IsInjective(r)
  BY <1>4 DEF IsInjective
<1> QED
  BY <1>1, <1>5 DEF r

\* Strings, and the ones the code itself gives, which no prover knows to be strings.
NameString == STRING \cup {"name", "description", "Item"}

LEMMA StringsAreNames ==
  ASSUME NEW s \in Seq(STRING)
  PROVE  s \in Seq(NameString)
BY DEF NameString

LEMMA DefaultsAre ==
  ASSUME NEW name
  PROVE  /\ DefaultFields(name) \in Seq(NameString) /\ DefaultFields(name) # <<>>
         /\ IsInjective(DefaultFields(name))
<1>1. CASE name \in DOMAIN KnownFields
  <2>1. KnownFields[name] \in Seq(STRING) \ {<<>>} /\ IsInjective(KnownFields[name])
    BY <1>1, SpecAssumption
  <2> QED
    BY <1>1, <2>1, StringsAreNames DEF DefaultFields
<1>2. CASE name \notin DOMAIN KnownFields
  <2> DEFINE two == <<"name", "description">>
  <2>1. two \in Seq(NameString) /\ Len(two) = 2 /\ two[1] = "name" /\ two[2] = "description"
    BY DEF NameString
  <2> HIDE DEF two
  <2>2. DOMAIN two = 1 .. 2 /\ two # <<>>
    BY <2>1
  <2>3. \A i \in 1 .. 2 : i = 1 \/ i = 2
    OBVIOUS
  <2>4. IsInjective(two)
    BY <2>1, <2>2, <2>3 DEF IsInjective
  <2> QED
    BY <1>2, <2>1, <2>2, <2>4 DEF DefaultFields, two
<1> QED
  BY <1>1, <1>2

\* The fields the text lists come before the defaults it leaves out.
LEMMA ProseFieldsAre ==
  ASSUME NEW name, NEW hints, AreHints(hints)
  PROVE  /\ ProseFields(name, hints) \in Seq(NameString) /\ ProseFields(name, hints) # <<>>
         /\ IsInjective(ProseFields(name, hints))
<1> DEFINE own      == IF name \in DOMAIN hints THEN hints[name] ELSE <<>>
           defaults == DefaultFields(name)
           rest     == Kept(defaults, ToSet(defaults) \ ToSet(own))
<1>1. own \in Seq(NameString) /\ IsInjective(own)
  <2>1. own \in Seq(STRING) /\ IsInjective(own)
    BY NoneIsInjective DEF AreHints
  <2> QED
    BY <2>1, StringsAreNames
<1>2. defaults \in Seq(NameString) /\ IsInjective(defaults) /\ defaults # <<>>
  BY DefaultsAre
<1> HIDE DEF own, defaults
<1>3. /\ rest \in Seq(NameString) /\ IsInjective(rest)
      /\ ToSet(rest) = ToSet(defaults) \cap (ToSet(defaults) \ ToSet(own))
  BY <1>2, KeptIsInjective
<1> HIDE DEF rest
<1>4. own \o rest \in Seq(NameString) /\ ToSet(own \o rest) = ToSet(own) \cup ToSet(rest)
  BY <1>1, <1>3, ConcatIs
<1>5. IsInjective(own \o rest)
  BY <1>1, <1>3, ConcatIsInjective
<1>6. own \o rest # <<>>
  <2>1. PICK d : d \in ToSet(defaults)
    <3>1. Len(defaults) \in Nat \ {0} /\ DOMAIN defaults = 1 .. Len(defaults)
      BY <1>2
    <3>2. defaults[1] \in ToSet(defaults)
      BY <3>1 DEF ToSet
    <3> QED
      BY <3>2
  <2>2. d \in ToSet(own \o rest)
    BY <1>3, <1>4, <2>1
  <2>3. ToSet(<<>>) = {}
    BY NoneIsInjective
  <2> QED
    BY <2>2, <2>3
<1>7. ProseFields(name, hints) = own \o rest
  BY Zenon DEF ProseFields, own, rest, defaults
<1> QED
  BY <1>4, <1>5, <1>6, <1>7

\* The names that may be found in prose.
NameLists == {x \in Seq(STRING) : IsInjective(x) /\ Len(x) <= MaxEntities}

NameRead(x, name) ==
  IF name \in ToSet(x) \/ Len(x) >= MaxEntities THEN x ELSE Append(x, name)

LEMMA NameReadIsTyped ==
  ASSUME NEW x \in NameLists, NEW name \in STRING
  PROVE  NameRead(x, name) \in NameLists
<1>1. x \in Seq(STRING) /\ IsInjective(x) /\ Len(x) <= MaxEntities
  BY DEF NameLists
<1>2. CASE name \in ToSet(x) \/ Len(x) >= MaxEntities
  BY <1>2, Zenon DEF NameRead
<1>3. CASE ~ (name \in ToSet(x) \/ Len(x) >= MaxEntities)
  <2>1. IsInjective(Append(x, name)) /\ Append(x, name) \in Seq(STRING) /\ Len(Append(x, name)) = Len(x) + 1
    BY <1>1, <1>3, AppendIsInjective, AppendIs
  <2>2. Len(x) + 1 <= MaxEntities
    <3>1. MaxEntities \in Nat
      BY SpecAssumption
    <3>2. Len(x) \in Nat
      BY <1>1
    <3>3. ~ (Len(x) >= MaxEntities)
      BY <1>3, Zenon
    <3> QED
      BY <3>1, <3>2, <3>3
  <2>3. Append(x, name) \in NameLists
    BY <2>1, <2>2 DEF NameLists
  <2> QED
    BY <1>3, <2>3, Zenon DEF NameRead
<1> QED
  BY <1>2, <1>3

LEMMA NounsAre ==
  ASSUME NEW tokens, IsText(tokens)
  PROVE  /\ CandidateNouns(tokens) \in Seq(Nat)
         /\ \A i \in 1 .. Len(CandidateNouns(tokens)) : Singular[tokens[CandidateNouns(tokens)[i]]] \in STRING
<1> DEFINE nouns == CandidateNouns(tokens)
<1>1. tokens \in Seq(STRING) /\ Len(tokens) \in 0 .. Len(tokens)
  BY DEF IsText
<1>2. PICK f : Gathering(tokens, f)
  BY <1>1, NounsInTurn
<1>3. f \in [0 .. Len(tokens) -> Seq(Nat)] /\ nouns = f[Len(tokens)]
  BY <1>2, Zenon DEF Gathering
<1>4. nouns \in Seq(Nat)
  BY <1>1, <1>3
<1>5. \A i \in DOMAIN nouns : tokens[nouns[i]] \in Nouns \ NotEntities
  BY NounsAreRight, Zenon DEF NounsRight
<1> HIDE DEF nouns
<1>6. DOMAIN nouns = 1 .. Len(nouns)
  BY <1>4
<1>7. \A i \in 1 .. Len(nouns) : Singular[tokens[nouns[i]]] \in STRING
  BY <1>5, <1>6, SpecAssumption
<1> QED
  BY <1>4, <1>7 DEF nouns

\* The names among the first candidate nouns.
Naming(tokens, f) ==
  /\ f \in [0 .. Len(CandidateNouns(tokens)) -> NameLists]
  /\ f[0] = <<>>
  /\ \A n \in 1 .. Len(CandidateNouns(tokens)) :
        f[n] = NameRead(f[n - 1], Singular[tokens[CandidateNouns(tokens)[n]]])
  /\ ProseNames(tokens) = f[Len(CandidateNouns(tokens))]

LEMMA NamesInTurn ==
  ASSUME NEW tokens, IsText(tokens)
  PROVE  \E f : Naming(tokens, f)
<1> DEFINE N == Len(CandidateNouns(tokens))
           S == NameLists
           base == <<>>
           step(n, x) == NameRead(x, Singular[tokens[CandidateNouns(tokens)[n]]])
           table == [p \in (1 .. N) \X S |-> step(p[1], p[2])]
           Rec(f) == f = [n \in 0 .. N |-> IF n = 0 THEN base ELSE step(n, f[n - 1])]
           f == CHOOSE f : Rec(f)
<1>1. N \in Nat /\ base \in S
  <2> DEFINE none == <<>>
  <2>1. none \in Seq(STRING) /\ IsInjective(none) /\ Len(none) = 0
    BY NoneIsInjective
  <2>2. CandidateNouns(tokens) \in Seq(Nat)
    BY NounsAre
  <2>3. Len(CandidateNouns(tokens)) \in Nat
    BY <2>2
  <2> HIDE DEF none
  <2>4. none \in NameLists
    BY <2>1, SpecAssumption DEF NameLists
  <2> QED
    BY <2>3, <2>4 DEF none
<1>2. ASSUME NEW n \in 1 .. N, NEW x \in S
      PROVE  step(n, x) \in S
  <2>1. Singular[tokens[CandidateNouns(tokens)[n]]] \in STRING
    BY NounsAre
  <2> QED
    BY <2>1, NameReadIsTyped
<1>3. ProseNames(tokens) = f[N]
  BY DEF ProseNames, NameRead
<1> HIDE DEF N, S, base, step
<1>4. \E h : Rec(h)
  <2>1. table \in [(1 .. N) \X S -> S]
    BY <1>2
  <2>2. PICK h \in [0 .. N -> S] : Iteration(h, N, base, table)
    <3> HIDE DEF table
    <3> QED
      BY <1>1, <2>1, Iterates, Zenon
  <2>3. \A n \in 0 .. N : h[n] = IF n = 0 THEN base ELSE table[<<n, h[n - 1]>>]
    <3> HIDE DEF table
    <3> QED
      BY <2>2, Zenon DEF Iteration
  <2>4. ASSUME NEW n \in 0 .. N PROVE h[n] = IF n = 0 THEN base ELSE step(n, h[n - 1])
    <3>1. CASE n # 0
      <4>1. n \in 1 .. N /\ n - 1 \in 0 .. N
        BY <1>1, <3>1
      <4>2. <<n, h[n - 1]>> \in (1 .. N) \X S
        BY <2>2, <4>1
      <4>3. table[<<n, h[n - 1]>>] = step(n, h[n - 1])
        BY <4>2
      <4> QED
        BY <2>3, <3>1, <4>3, Zenon
    <3> QED
      BY <2>3, <3>1, Zenon
  <2>5. h = [n \in 0 .. N |-> h[n]]
    BY <2>2
  <2> QED
    BY <2>4, <2>5, Zenon
<1>5. Rec(f)
  <2> HIDE DEF Rec
  <2> QED
    BY <1>4, Zenon
<1>6. f[0] = base /\ \A n \in 1 .. N : f[n] = step(n, f[n - 1])
  <2> HIDE DEF f
  <2>1. 0 \in 0 .. N /\ \A n \in 1 .. N : n \in 0 .. N /\ n # 0
    BY <1>1
  <2> QED
    BY <1>5, <2>1, Zenon
<1>7. f \in [0 .. N -> S]
  <2> HIDE DEF f
  <2> DEFINE T == {n \in 0 .. N : f[n] \in S}
  <2>1. 0 \in T
    BY <1>1, <1>6
  <2>2. ASSUME NEW n \in 0 .. N - 1, n \in T PROVE n + 1 \in T
    <3>1. n + 1 \in 1 .. N /\ n + 1 \in 0 .. N /\ (n + 1) - 1 = n
      BY <1>1
    <3> QED
      BY <1>2, <1>6, <2>2, <3>1
  <2>3. \A n \in 0 .. N : n \in T
    <3> HIDE DEF T
    <3> QED
      BY <1>1, <2>1, <2>2, UpTo
  <2>4. f = [n \in 0 .. N |-> f[n]]
    BY <1>5
  <2> QED
    BY <2>3, <2>4
<1> QED
  <2> HIDE DEF f, Rec
  <2> QED
    BY <1>3, <1>6, <1>7, Zenon DEF N, S, base, step, Naming

LEMMA ProseNamesAre ==
  ASSUME NEW tokens, IsText(tokens)
  PROVE  ProseNames(tokens) \in NameLists
<1> DEFINE N == Len(CandidateNouns(tokens))
<1>1. CandidateNouns(tokens) \in Seq(Nat)
  BY NounsAre
<1>2. N \in 0 .. N
  BY <1>1
<1>3. PICK f : Naming(tokens, f)
  BY NamesInTurn
<1>4. f \in [0 .. N -> NameLists] /\ ProseNames(tokens) = f[N]
  BY <1>3, Zenon DEF Naming
<1> HIDE DEF N
<1> QED
  BY <1>2, <1>4

ReadEntity == [name : NameString, fields : Seq(NameString), belongs_to : Seq(STRING)]

EntitySafe(e) ==
  /\ e \in ReadEntity /\ e.fields # <<>> /\ IsInjective(e.fields)
  /\ IsInjective(e.belongs_to) /\ e.name \notin ToSet(e.belongs_to)

\* Lists of entities as they may be found.
FoundLists ==
  {x \in Seq(ReadEntity) :
     /\ \A i, j \in 1 .. Len(x) : x[i].name = x[j].name => i = j
     /\ \A i \in 1 .. Len(x) : EntitySafe(x[i])}

LEMMA ProseEntitiesAre ==
  ASSUME NEW tokens, IsText(tokens), NEW hints, AreHints(hints)
  PROVE  ProseEntities(tokens, hints) \in FoundLists
<1> DEFINE names      == ProseNames(tokens)
           parents(n) == IF n \in DOMAIN KnownRelations THEN KnownRelations[n] ELSE <<>>
           e(i)       == [name |-> names[i], fields |-> ProseFields(names[i], hints),
                          belongs_to |-> Kept(parents(names[i]), ToSet(names))]
           found      == [i \in DOMAIN names |-> e(i)]
<1>1. names \in Seq(STRING) /\ IsInjective(names)
  BY ProseNamesAre DEF NameLists
<1> HIDE DEF names
<1>2. DOMAIN names = 1 .. Len(names) /\ Len(names) \in Nat
  BY <1>1
<1>3. ASSUME NEW i \in 1 .. Len(names) PROVE EntitySafe(e(i)) /\ e(i).name = names[i]
  <2> DEFINE n == names[i]
             p == parents(n)
             b == Kept(p, ToSet(names))
             f == ProseFields(n, hints)
  <2>1. n \in STRING
    BY <1>1
  <2>2. p \in Seq(STRING) /\ IsInjective(p) /\ n \notin ToSet(p)
    <3> HIDE DEF n
    <3>1. CASE n \in DOMAIN KnownRelations
      BY <3>1, SpecAssumption
    <3>2. CASE n \notin DOMAIN KnownRelations
      BY <3>2, NoneIsInjective
    <3> QED
      BY <3>1, <3>2
  <2>3. f \in Seq(NameString) /\ f # <<>> /\ IsInjective(f)
    BY ProseFieldsAre
  <2> HIDE DEF p, n
  <2>4. b \in Seq(STRING) /\ IsInjective(b) /\ ToSet(b) = ToSet(p) \cap ToSet(names)
    BY <2>2, KeptIsInjective
  <2> HIDE DEF b, f
  <2> DEFINE r == [name |-> n, fields |-> f, belongs_to |-> b]
  <2>5. r.name = n /\ r.fields = f /\ r.belongs_to = b /\ r \in ReadEntity
    BY <2>1, <2>3, <2>4 DEF ReadEntity, NameString
  <2> HIDE DEF r
  <2>6. EntitySafe(r)
    BY <2>2, <2>3, <2>4, <2>5 DEF EntitySafe
  <2>7. e(i) = r
    BY DEF r, f, b, p, n
  <2> HIDE DEF e
  <2> QED
    BY <2>5, <2>6, <2>7 DEF n
<1> HIDE DEF e
<1>4. \A i \in 1 .. Len(names) : e(i) \in ReadEntity
  BY <1>3 DEF EntitySafe
<1>5. found \in Seq(ReadEntity) /\ Len(found) = Len(names) /\ \A i \in 1 .. Len(names) : found[i] = e(i)
  BY <1>2, <1>4
<1> HIDE DEF found
<1>6. \A i, j \in 1 .. Len(found) : found[i].name = found[j].name => i = j
  BY <1>1, <1>2, <1>3, <1>5 DEF IsInjective
<1>7. \A i \in 1 .. Len(found) : EntitySafe(found[i])
  BY <1>3, <1>5
<1>8. found \in FoundLists
  BY <1>5, <1>6, <1>7 DEF FoundLists
<1>9. ProseEntities(tokens, hints) = found
  BY DEF ProseEntities, found, e, names
<1> QED
  BY <1>8, <1>9

\* The fields and relations that a list in parentheses may be read as.
FieldLists(others) ==
  {x \in [fields : Seq(STRING), relations : Seq(STRING)] :
     IsInjective(x.fields) /\ IsInjective(x.relations) /\ ToSet(x.relations) \subseteq others}

Chunk == [name : STRING, type : STRING]

LEMMA ReadChunkIsTyped ==
  ASSUME NEW others, NEW x \in FieldLists(others), NEW c, c.name \in STRING, c.type \in STRING
  PROVE  ReadChunk(x, c, others) \in FieldLists(others)
<1>1. /\ x \in [fields : Seq(STRING), relations : Seq(STRING)]
      /\ x.fields \in Seq(STRING) /\ x.relations \in Seq(STRING)
      /\ IsInjective(x.fields) /\ IsInjective(x.relations) /\ ToSet(x.relations) \subseteq others
  BY DEF FieldLists
<1> DEFINE more == Append(x.fields, c.name)
           rels == Append(x.relations, c.type)
<1>2. CASE c.name \notin ToSet(x.fields) /\ c.type \notin others
  <2>1. more \in Seq(STRING) /\ IsInjective(more)
    BY <1>1, <1>2, AppendIs, AppendIsInjective
  <2> HIDE DEF more
  <2>2. [x EXCEPT !.fields = more] \in FieldLists(others)
    BY <1>1, <2>1 DEF FieldLists
  <2> QED
    BY <1>2, <2>2, Zenon DEF ReadChunk, more
<1>3. CASE c.name \notin ToSet(x.fields) /\ c.type \in others /\ c.type \notin ToSet(x.relations)
  <2>1. rels \in Seq(STRING) /\ IsInjective(rels) /\ ToSet(rels) = ToSet(x.relations) \cup {c.type}
    BY <1>1, <1>3, AppendIs, AppendIsInjective
  <2> HIDE DEF rels
  <2>2. [x EXCEPT !.relations = rels] \in FieldLists(others)
    BY <1>1, <1>3, <2>1 DEF FieldLists
  <2> QED
    BY <1>3, <2>2, Zenon DEF ReadChunk, rels
<1>4. CASE c.name \in ToSet(x.fields) \/ (c.type \in others /\ c.type \in ToSet(x.relations))
  BY <1>4, Zenon DEF ReadChunk
<1> QED
  BY <1>2, <1>3, <1>4

\* The first chunks of a list in parentheses.
Chunking(chunks, others, f) ==
  /\ f \in [0 .. Len(chunks) -> FieldLists(others)]
  /\ f[0] = [fields |-> <<>>, relations |-> <<>>]
  /\ \A n \in 1 .. Len(chunks) :
        f[n] = ReadChunk(f[n - 1], chunks[n], others)
  /\ ParseFieldList(chunks, others) = f[Len(chunks)]

LEMMA ChunksInTurn ==
  ASSUME NEW chunks \in Seq(Chunk), NEW others
  PROVE  \E f : Chunking(chunks, others, f)
<1> DEFINE N == Len(chunks)
           S == FieldLists(others)
           base == [fields |-> <<>>, relations |-> <<>>]
           step(n, x) == ReadChunk(x, chunks[n], others)
           table == [p \in (1 .. N) \X S |-> step(p[1], p[2])]
           Rec(f) == f = [n \in 0 .. N |-> IF n = 0 THEN base ELSE step(n, f[n - 1])]
           f == CHOOSE f : Rec(f)
<1>1. N \in Nat /\ base \in S
  <2> DEFINE none == <<>>
  <2>1. none \in Seq(STRING) /\ IsInjective(none) /\ ToSet(none) = {}
    BY NoneIsInjective
  <2>2. Len(chunks) \in Nat
    OBVIOUS
  <2> HIDE DEF none
  <2>3. [fields |-> none, relations |-> none] \in FieldLists(others)
    BY <2>1 DEF FieldLists
  <2> QED
    BY <2>2, <2>3 DEF none
<1>2. ASSUME NEW n \in 1 .. N, NEW x \in S
      PROVE  step(n, x) \in S
  <2>1. chunks[n] \in Chunk
    OBVIOUS
  <2>2. chunks[n].name \in STRING /\ chunks[n].type \in STRING
    BY <2>1 DEF Chunk
  <2> QED
    BY <2>2, ReadChunkIsTyped
<1>3. ParseFieldList(chunks, others) = f[N]
  BY DEF ParseFieldList
<1> HIDE DEF N, S, base, step
<1>4. \E h : Rec(h)
  <2>1. table \in [(1 .. N) \X S -> S]
    BY <1>2
  <2>2. PICK h \in [0 .. N -> S] : Iteration(h, N, base, table)
    <3> HIDE DEF table
    <3> QED
      BY <1>1, <2>1, Iterates, Zenon
  <2>3. \A n \in 0 .. N : h[n] = IF n = 0 THEN base ELSE table[<<n, h[n - 1]>>]
    <3> HIDE DEF table
    <3> QED
      BY <2>2, Zenon DEF Iteration
  <2>4. ASSUME NEW n \in 0 .. N PROVE h[n] = IF n = 0 THEN base ELSE step(n, h[n - 1])
    <3>1. CASE n # 0
      <4>1. n \in 1 .. N /\ n - 1 \in 0 .. N
        BY <1>1, <3>1
      <4>2. <<n, h[n - 1]>> \in (1 .. N) \X S
        BY <2>2, <4>1
      <4>3. table[<<n, h[n - 1]>>] = step(n, h[n - 1])
        BY <4>2
      <4> QED
        BY <2>3, <3>1, <4>3, Zenon
    <3> QED
      BY <2>3, <3>1, Zenon
  <2>5. h = [n \in 0 .. N |-> h[n]]
    BY <2>2
  <2> QED
    BY <2>4, <2>5, Zenon
<1>5. Rec(f)
  <2> HIDE DEF Rec
  <2> QED
    BY <1>4, Zenon
<1>6. f[0] = base /\ \A n \in 1 .. N : f[n] = step(n, f[n - 1])
  <2> HIDE DEF f
  <2>1. 0 \in 0 .. N /\ \A n \in 1 .. N : n \in 0 .. N /\ n # 0
    BY <1>1
  <2> QED
    BY <1>5, <2>1, Zenon
<1>7. f \in [0 .. N -> S]
  <2> HIDE DEF f
  <2> DEFINE T == {n \in 0 .. N : f[n] \in S}
  <2>1. 0 \in T
    BY <1>1, <1>6
  <2>2. ASSUME NEW n \in 0 .. N - 1, n \in T PROVE n + 1 \in T
    <3>1. n + 1 \in 1 .. N /\ n + 1 \in 0 .. N /\ (n + 1) - 1 = n
      BY <1>1
    <3> QED
      BY <1>2, <1>6, <2>2, <3>1
  <2>3. \A n \in 0 .. N : n \in T
    <3> HIDE DEF T
    <3> QED
      BY <1>1, <2>1, <2>2, UpTo
  <2>4. f = [n \in 0 .. N |-> f[n]]
    BY <1>5
  <2> QED
    BY <2>3, <2>4
<1> QED
  <2> HIDE DEF f, Rec
  <2> QED
    BY <1>3, <1>6, <1>7, Zenon DEF N, S, base, step, Chunking

LEMMA ParseFieldListIs ==
  ASSUME NEW chunks \in Seq(Chunk), NEW others
  PROVE  ParseFieldList(chunks, others) \in FieldLists(others)
<1>1. Len(chunks) \in 0 .. Len(chunks)
  OBVIOUS
<1>2. PICK f : Chunking(chunks, others, f)
  BY ChunksInTurn
<1>3. f \in [0 .. Len(chunks) -> FieldLists(others)] /\ ParseFieldList(chunks, others) = f[Len(chunks)]
  BY <1>2, Zenon DEF Chunking
<1> QED
  BY <1>1, <1>3

LEMMA DeclaredIs ==
  ASSUME NEW d \in Declaration, NEW declared
  PROVE  EntitySafe(Declared(d, declared)) /\ Declared(d, declared).name = d.name
<1> DEFINE list == ParseFieldList(d.chunks, declared \ {d.name})
           fields == IF list.fields = <<>> THEN DefaultFields(d.name) ELSE list.fields
<1>1. d.name \in STRING /\ d.chunks \in Seq(Chunk)
  BY DEF Declaration, Chunk
<1>2. list \in FieldLists(declared \ {d.name})
  BY <1>1, ParseFieldListIs
<1> HIDE DEF list
<1>3. /\ list.fields \in Seq(STRING) /\ list.relations \in Seq(STRING)
      /\ IsInjective(list.fields) /\ IsInjective(list.relations)
      /\ ToSet(list.relations) \subseteq declared \ {d.name}
  BY <1>2 DEF FieldLists
<1>4. fields \in Seq(NameString) /\ fields # <<>> /\ IsInjective(fields)
  <2>1. CASE list.fields = <<>>
    BY <2>1, DefaultsAre
  <2>2. CASE list.fields # <<>>
    BY <1>3, <2>2, StringsAreNames
  <2> QED
    BY <2>1, <2>2
<1> HIDE DEF fields
<1> DEFINE r == [name |-> d.name, belongs_to |-> list.relations, fields |-> fields]
<1>5. r.name = d.name /\ r.fields = fields /\ r.belongs_to = list.relations /\ r \in ReadEntity
  BY <1>1, <1>3, <1>4 DEF ReadEntity, NameString
<1> HIDE DEF r
<1>6. EntitySafe(r)
  BY <1>3, <1>4, <1>5 DEF EntitySafe
<1>7. Declared(d, declared) = r
  BY DEF Declared, r, list, fields
<1> QED
  BY <1>5, <1>6, <1>7

Declaring(x, e) == IF \E o \in ToSet(x) : o.name = e.name THEN x ELSE Append(x, e)

LEMMA DeclaringIsTyped ==
  ASSUME NEW x \in FoundLists, NEW e, EntitySafe(e)
  PROVE  Declaring(x, e) \in FoundLists
<1>1. /\ x \in Seq(ReadEntity)
      /\ \A i, j \in 1 .. Len(x) : x[i].name = x[j].name => i = j
      /\ \A i \in 1 .. Len(x) : EntitySafe(x[i])
  BY DEF FoundLists
<1>2. e \in ReadEntity
  BY DEF EntitySafe
<1>3. CASE \E o \in ToSet(x) : o.name = e.name
  BY <1>3, Zenon DEF Declaring
<1>4. CASE ~ \E o \in ToSet(x) : o.name = e.name
  <2> DEFINE t == Append(x, e)
  <2>1. /\ t \in Seq(ReadEntity) /\ Len(t) = Len(x) + 1 /\ Len(x) \in Nat
        /\ (\A i \in 1 .. Len(x) : t[i] = x[i])
        /\ t[Len(x) + 1] = e /\ DOMAIN x = 1 .. Len(x)
    BY <1>1, <1>2, AppendIs
  <2> HIDE DEF t
  <2>2. \A i \in 1 .. Len(x) : x[i].name # e.name
    BY <1>4, <2>1 DEF ToSet
  <2>3. \A i \in 1 .. Len(x) + 1 : i \in 1 .. Len(x) \/ i = Len(x) + 1
    BY <2>1
  <2>4. \A i, j \in 1 .. Len(t) : t[i].name = t[j].name => i = j
    BY <1>1, <2>1, <2>2, <2>3
  <2>5. \A i \in 1 .. Len(t) : EntitySafe(t[i])
    BY <1>1, <2>1, <2>3
  <2>6. t \in FoundLists
    BY <2>1, <2>4, <2>5 DEF FoundLists
  <2> QED
    BY <1>4, <2>6, Zenon DEF Declaring, t
<1> QED
  BY <1>3, <1>4

LEMMA NoneIsFound == <<>> \in FoundLists
<1> DEFINE none == <<>>
<1>1. none \in Seq(ReadEntity) /\ Len(none) = 0
  OBVIOUS
<1> HIDE DEF none
<1>2. none \in FoundLists
  BY <1>1 DEF FoundLists
<1> QED
  BY <1>2 DEF none

\* The entities of the first declarations.
DeclaredSoFar(declarations, f) ==
  /\ f \in [0 .. Len(declarations) -> FoundLists]
  /\ f[0] = <<>>
  /\ \A n \in 1 .. Len(declarations) :
        f[n] = Declaring(f[n - 1], Declared(declarations[n], {d.name : d \in ToSet(declarations)}))
  /\ DeclaredEntities(declarations) = f[Len(declarations)]

LEMMA DeclarationsInTurn ==
  ASSUME NEW declarations \in Seq(Declaration)
  PROVE  \E f : DeclaredSoFar(declarations, f)
<1> DEFINE N == Len(declarations)
           S == FoundLists
           base == <<>>
           step(n, x) == Declaring(x, Declared(declarations[n], {d.name : d \in ToSet(declarations)}))
           table == [p \in (1 .. N) \X S |-> step(p[1], p[2])]
           Rec(f) == f = [n \in 0 .. N |-> IF n = 0 THEN base ELSE step(n, f[n - 1])]
           f == CHOOSE f : Rec(f)
<1>1. N \in Nat /\ base \in S
  BY NoneIsFound
<1>2. ASSUME NEW n \in 1 .. N, NEW x \in S
      PROVE  step(n, x) \in S
  <2>1. declarations[n] \in Declaration
    OBVIOUS
  <2>2. EntitySafe(Declared(declarations[n], {d.name : d \in ToSet(declarations)}))
    BY <2>1, DeclaredIs
  <2> QED
    BY <2>2, DeclaringIsTyped
<1>3. DeclaredEntities(declarations) = f[N]
  BY DEF DeclaredEntities, Declaring
<1> HIDE DEF N, S, base, step
<1>4. \E h : Rec(h)
  <2>1. table \in [(1 .. N) \X S -> S]
    BY <1>2
  <2>2. PICK h \in [0 .. N -> S] : Iteration(h, N, base, table)
    <3> HIDE DEF table
    <3> QED
      BY <1>1, <2>1, Iterates, Zenon
  <2>3. \A n \in 0 .. N : h[n] = IF n = 0 THEN base ELSE table[<<n, h[n - 1]>>]
    <3> HIDE DEF table
    <3> QED
      BY <2>2, Zenon DEF Iteration
  <2>4. ASSUME NEW n \in 0 .. N PROVE h[n] = IF n = 0 THEN base ELSE step(n, h[n - 1])
    <3>1. CASE n # 0
      <4>1. n \in 1 .. N /\ n - 1 \in 0 .. N
        BY <1>1, <3>1
      <4>2. <<n, h[n - 1]>> \in (1 .. N) \X S
        BY <2>2, <4>1
      <4>3. table[<<n, h[n - 1]>>] = step(n, h[n - 1])
        BY <4>2
      <4> QED
        BY <2>3, <3>1, <4>3, Zenon
    <3> QED
      BY <2>3, <3>1, Zenon
  <2>5. h = [n \in 0 .. N |-> h[n]]
    BY <2>2
  <2> QED
    BY <2>4, <2>5, Zenon
<1>5. Rec(f)
  <2> HIDE DEF Rec
  <2> QED
    BY <1>4, Zenon
<1>6. f[0] = base /\ \A n \in 1 .. N : f[n] = step(n, f[n - 1])
  <2> HIDE DEF f
  <2>1. 0 \in 0 .. N /\ \A n \in 1 .. N : n \in 0 .. N /\ n # 0
    BY <1>1
  <2> QED
    BY <1>5, <2>1, Zenon
<1>7. f \in [0 .. N -> S]
  <2> HIDE DEF f
  <2> DEFINE T == {n \in 0 .. N : f[n] \in S}
  <2>1. 0 \in T
    BY <1>1, <1>6
  <2>2. ASSUME NEW n \in 0 .. N - 1, n \in T PROVE n + 1 \in T
    <3>1. n + 1 \in 1 .. N /\ n + 1 \in 0 .. N /\ (n + 1) - 1 = n
      BY <1>1
    <3> QED
      BY <1>2, <1>6, <2>2, <3>1
  <2>3. \A n \in 0 .. N : n \in T
    <3> HIDE DEF T
    <3> QED
      BY <1>1, <2>1, <2>2, UpTo
  <2>4. f = [n \in 0 .. N |-> f[n]]
    BY <1>5
  <2> QED
    BY <2>3, <2>4
<1> QED
  <2> HIDE DEF f, Rec
  <2> QED
    BY <1>3, <1>6, <1>7, Zenon DEF N, S, base, step, DeclaredSoFar

LEMMA DeclaredEntitiesAre ==
  ASSUME NEW declarations \in Seq(Declaration)
  PROVE  DeclaredEntities(declarations) \in FoundLists
<1>1. Len(declarations) \in 0 .. Len(declarations)
  OBVIOUS
<1>2. PICK f : DeclaredSoFar(declarations, f)
  BY DeclarationsInTurn
<1>3. /\ f \in [0 .. Len(declarations) -> FoundLists]
      /\ DeclaredEntities(declarations) = f[Len(declarations)]
  BY <1>2, Zenon DEF DeclaredSoFar
<1> QED
  BY <1>1, <1>3

\* Whatever is specified, if reading it does not raise, there is an entity, and names, fields and
\* parents are each distinct (analysis.py).
THEOREM EntitiesAreRight ==
  ASSUME NEW declarations \in Seq(Declaration), NEW tokens, IsText(tokens), NEW hints, AreHints(hints),
         ~ RaisesIndexError(declarations, tokens, hints)
  PROVE  EntitiesRight(ExtractEntities(declarations, tokens, hints))
<1> DEFINE found == IF declarations # <<>> THEN DeclaredEntities(declarations)
                    ELSE ProseEntities(tokens, hints)
           item == [name |-> "Item", fields |-> DefaultFields("Item"), belongs_to |-> <<>>]
           few == IF Len(found) < MaxEntities THEN Len(found) ELSE MaxEntities
           result == ExtractEntities(declarations, tokens, hints)
<1>1. found \in FoundLists
  <2>1. CASE declarations # <<>>
    BY <2>1, DeclaredEntitiesAre
  <2>2. CASE declarations = <<>>
    BY <2>2, ProseEntitiesAre
  <2> QED
    BY <2>1, <2>2
<1>2. result = IF found = <<>> THEN <<item>> ELSE SubSeq(found, 1, few)
  BY Zenon DEF ExtractEntities
<1> HIDE DEF found, result
<1>3. ASSUME NEW r \in FoundLists, Len(r) \in 1 .. MaxEntities PROVE EntitiesRight(r)
  <2>1. /\ r \in Seq(ReadEntity)
        /\ \A i, j \in 1 .. Len(r) : r[i].name = r[j].name => i = j
        /\ \A i \in 1 .. Len(r) : EntitySafe(r[i])
    BY DEF FoundLists
  <2>2. DOMAIN r = 1 .. Len(r)
    BY <2>1
  <2>3. \A e \in ToSet(r) : EntitySafe(e)
    BY <2>1, <2>2 DEF ToSet
  <2> QED
    BY <1>3, <2>1, <2>2, <2>3 DEF EntitiesRight, EntitySafe
<1>4. CASE found = <<>>
  <2> DEFINE fields == DefaultFields("Item")
             none == <<>>
             e == [name |-> "Item", fields |-> fields, belongs_to |-> none]
             r == <<e>>
  <2>1. fields \in Seq(NameString) /\ fields # <<>> /\ IsInjective(fields)
    BY DefaultsAre
  <2>2. none \in Seq(STRING) /\ IsInjective(none) /\ ToSet(none) = {}
    BY NoneIsInjective
  <2> HIDE DEF fields, none, item, few
  <2>3. e.name = "Item" /\ e.fields = fields /\ e.belongs_to = none /\ e \in ReadEntity
    <3>1. e.name = "Item" /\ e.fields = fields /\ e.belongs_to = none
      OBVIOUS
    <3>2. "Item" \in NameString
      BY DEF NameString
    <3>3. e \in ReadEntity
      BY <2>1, <2>2, <3>2 DEF ReadEntity
    <3> QED
      BY <3>1, <3>3
  <2> HIDE DEF e
  <2>4. EntitySafe(e)
    <3>1. fields # <<>>
      BY <2>1
    <3> QED
      BY <2>1, <2>2, <2>3, <3>1 DEF EntitySafe
  <2>5. r \in Seq(ReadEntity) /\ Len(r) = 1 /\ r[1] = e
    BY <2>3
  <2> HIDE DEF r
  <2>6. r \in FoundLists
    <3>1. \A i \in 1 .. Len(r) : i = 1
      BY <2>5
    <3>2. /\ \A i, j \in 1 .. Len(r) : r[i].name = r[j].name => i = j
          /\ \A i \in 1 .. Len(r) : EntitySafe(r[i])
      BY <2>4, <2>5, <3>1, Zenon
    <3> QED
      BY <2>5, <3>2 DEF FoundLists
  <2>7. Len(r) \in 1 .. MaxEntities
    BY <2>5, SpecAssumption
  <2>8. result = r
    BY <1>2, <1>4, Zenon DEF item, r, e, fields, none
  <2> QED
    BY <1>3, <2>6, <2>7, <2>8 DEF result
<1>5. CASE found # <<>>
  <2> DEFINE r == SubSeq(found, 1, few)
  <2>1. /\ found \in Seq(ReadEntity)
        /\ \A i, j \in 1 .. Len(found) : found[i].name = found[j].name => i = j
        /\ \A i \in 1 .. Len(found) : EntitySafe(found[i])
    BY <1>1 DEF FoundLists
  <2>2. Len(found) \in Nat \ {0}
    BY <1>5, <2>1
  <2>3. few \in Nat /\ 1 <= few /\ few <= Len(found) /\ few <= MaxEntities
    BY <2>2, SpecAssumption
  <2> HIDE DEF few
  <2>4. r \in Seq(ReadEntity) /\ Len(r) = few /\ \A i \in 1 .. few : r[i] = found[i] /\ i \in 1 .. Len(found)
    BY <2>1, <2>2, <2>3
  <2> HIDE DEF r
  <2>5. r \in FoundLists
    BY <2>1, <2>4 DEF FoundLists
  <2>6. Len(r) \in 1 .. MaxEntities
    BY <2>3, <2>4, SpecAssumption
  <2>7. result = r
    BY <1>2, <1>5, Zenon DEF r
  <2> QED
    BY <1>3, <2>5, <2>6, <2>7 DEF result
<1> QED
  BY <1>4, <1>5

-----------------------------------------------------------------------------
(* All that is read                                                        *)

\* What is read out of any specification and any project can be built on: no edge is dropped
\* without a reason and no cycle is kept; of a project whose calls are readable every route read is
\* served and every route served is read; and an entity is found once unless reading raises
\* (relations.py, routes.py, analysis.py).
THEOREM ReadingsAreUsable == Spec => []ReadingsUsable
<1>1. RelationsUsable
  BY InputsAssumption, RelationsAreRight DEF RelationsUsable
<1>2. RoutesRead
  BY InputsAssumption, RoutesAreRead DEF RoutesRead
<1>3. ASSUME NEW t \in Texts
      PROVE  NounsRight(t) /\ \A h \in Hints :
               RaisesIndexError(<<>>, t, h) \/ EntitiesRight(ExtractEntities(<<>>, t, h))
  <2>1. IsText(t) /\ <<>> \in Seq(Declaration)
    BY InputsAssumption
  <2>2. ASSUME NEW h \in Hints, ~ RaisesIndexError(<<>>, t, h)
        PROVE  EntitiesRight(ExtractEntities(<<>>, t, h))
    <3>1. AreHints(h)
      BY InputsAssumption
    <3> QED
      BY <2>1, <2>2, <3>1, EntitiesAreRight
  <2> QED
    BY <2>1, <2>2, NounsAreRight
<1>4. ASSUME NEW d \in DeclarationLists, ~ RaisesIndexError(d, <<>>, <<>>)
      PROVE  EntitiesRight(ExtractEntities(d, <<>>, <<>>))
  <2>1. d \in Seq(Declaration)
    BY InputsAssumption
  <2>2. IsText(<<>>)
    BY DEF IsText
  <2>3. AreHints(<<>>)
    BY DEF AreHints
  <2> QED
    BY <1>4, <2>1, <2>2, <2>3, EntitiesAreRight
<1>5. EntitiesRead
  BY <1>3, <1>4, Zenon DEF EntitiesRead
<1>6. ReadingsUsable
  BY <1>1, <1>2, <1>5 DEF ReadingsUsable
<1> QED
  BY <1>6, PTL
===============================================================================
