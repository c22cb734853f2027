----------------------------- MODULE Induction -----------------------------
(***************************************************************************)
(* Induction on the natural numbers in a first-order form: over sets of    *)
(* numbers instead of predicates.  The induction theorems of the library   *)
(* take a predicate as their parameter, which the provers cannot           *)
(* instantiate; the well-foundedness of < can be used instead.             *)
(***************************************************************************)
EXTENDS Naturals, WellFoundedInduction, NaturalsInduction, TLAPS

\* Every set of natural numbers that is not empty has a least element.
LEMMA LeastNat ==
  ASSUME NEW T \in SUBSET Nat, T # {}
  PROVE  \E x \in T : \A y \in T : x <= y
<1>1. PICK x \in T : \A y \in T : ~(<<y, x>> \in OpToRel(<, Nat))
  BY WFMin, NatLessThanWellFounded
<1>2. \A y \in T : ~(y < x)
  BY <1>1 DEF OpToRel
<1> QED BY <1>2

\* A set of numbers that holds 0, and n + 1 with every n, holds all.
LEMMA AllNumbers ==
  ASSUME NEW T \in SUBSET Nat, 0 \in T, \A n \in T : n + 1 \in T
  PROVE  T = Nat
<1> SUFFICES ASSUME Nat \ T # {} PROVE FALSE
  OBVIOUS
<1>1. PICK m \in Nat \ T : \A n \in Nat \ T : m <= n
  BY LeastNat
<1>2. m # 0 /\ m - 1 \in Nat /\ ~(m <= m - 1)
  BY <1>1
<1>3. m - 1 \in T
  BY <1>1, <1>2
<1> QED BY <1>1, <1>2, <1>3

\* f begins with s and goes on with step, up to m.
IteratesTo(s, step, m, f) ==
  f[0] = s /\ \A n \in 0 .. m : n # m => f[n + 1] = step[f[n]]

\* The functions that begin with s and go on with step.
Iterations(S, s, step) ==
  {f \in [Nat -> S] : f[0] = s /\ \A n \in Nat : f[n + 1] = step[f[n]]}

\* A function can be defined by iteration.
LEMMA IterationExists ==
  ASSUME NEW S, NEW s \in S, NEW step \in [S -> S]
  PROVE  Iterations(S, s, step) # {}
<1>1. \A m \in Nat : \E f \in [Nat -> S] : IteratesTo(s, step, m, f)
  <2> DEFINE T == {m \in Nat : \E f \in [Nat -> S] : IteratesTo(s, step, m, f)}
  <2>1. 0 \in T
    <3>1. [n \in Nat |-> s] \in [Nat -> S] /\ IteratesTo(s, step, 0, [n \in Nat |-> s])
      BY DEF IteratesTo
    <3> QED BY <3>1
  <2>2. ASSUME NEW m \in T PROVE m + 1 \in T
    <3>1. PICK f \in [Nat -> S] : IteratesTo(s, step, m, f)
      OBVIOUS
    <3> DEFINE g == [f EXCEPT ![m + 1] = step[f[m]]]
    <3>2. g \in [Nat -> S] /\ g[m + 1] = step[f[m]] /\ \A n \in 0 .. m : g[n] = f[n]
      OBVIOUS
    <3> HIDE DEF g
    <3>3. IteratesTo(s, step, m + 1, g)
      BY <3>1, <3>2 DEF IteratesTo
    <3> QED BY <3>2, <3>3
  <2> QED BY <2>1, <2>2, AllNumbers
<1>2. \A m \in Nat : \A f, g \in [Nat -> S] : IteratesTo(s, step, m, f) /\ IteratesTo(s, step, m + 1, g)
                                          => f[m] = g[m] /\ IteratesTo(s, step, m, g)
  <2> SUFFICES ASSUME NEW m \in Nat, NEW f \in [Nat -> S], NEW g \in [Nat -> S],
                      IteratesTo(s, step, m, f), IteratesTo(s, step, m + 1, g)
               PROVE  f[m] = g[m] /\ IteratesTo(s, step, m, g)
    OBVIOUS
  <2> DEFINE T == {n \in Nat : n <= m => f[n] = g[n]}
  <2>1. 0 \in T
    BY DEF IteratesTo
  <2>2. ASSUME NEW n \in T PROVE n + 1 \in T
    <3> SUFFICES ASSUME n + 1 <= m PROVE f[n + 1] = g[n + 1]
      OBVIOUS
    <3>1. n \in 0 .. m /\ n # m /\ n \in 0 .. m + 1 /\ n # m + 1 /\ f[n] = g[n]
      OBVIOUS
    <3> QED BY <3>1 DEF IteratesTo
  <2>3. T = Nat
    <3> HIDE DEF T
    <3> QED BY <2>1, <2>2, AllNumbers DEF T
  <2>4. IteratesTo(s, step, m, g)
    BY DEF IteratesTo
  <2> QED BY <2>3, <2>4
<1> DEFINE first(m) == CHOOSE f \in [Nat -> S] : IteratesTo(s, step, m, f)
           h == [m \in Nat |-> first(m)[m]]
<1>3. \A m \in Nat : first(m) \in [Nat -> S] /\ IteratesTo(s, step, m, first(m))
  BY <1>1
<1> HIDE DEF first
<1>4. h \in [Nat -> S]
  BY <1>3
<1>5. h[0] = s
  BY <1>3 DEF IteratesTo
<1>6. ASSUME NEW n \in Nat PROVE h[n + 1] = step[h[n]]
  <2>1. first(n)[n] = first(n + 1)[n]
    BY <1>2, <1>3
  <2>2. first(n + 1)[n + 1] = step[first(n + 1)[n]]
    BY <1>3 DEF IteratesTo
  <2> QED BY <2>1, <2>2
<1> HIDE DEF h
<1> QED BY <1>4, <1>5, <1>6 DEF Iterations

\* What holds at 0, and at k + 1 when it holds at k, holds up to m.
LEMMA NumbersUpTo ==
  ASSUME NEW m \in Nat, NEW T, 0 \in T, \A k \in 0 .. m : k # m /\ k \in T => k + 1 \in T
  PROVE  0 .. m \subseteq T
<1> DEFINE U == {k \in Nat : k <= m => k \in T}
<1>1. 0 \in U
  OBVIOUS
<1>2. ASSUME NEW k \in U PROVE k + 1 \in U
  <2>1. k + 1 <= m => k \in 0 .. m /\ k # m
    OBVIOUS
  <2> QED BY <2>1
<1> HIDE DEF U
<1>3. U = Nat
  BY <1>1, <1>2, AllNumbers DEF U
<1> QED BY <1>3 DEF U

\* A property of the numbers up to m that a number has when all greater ones do.
LEMMA Descent ==
  ASSUME NEW m \in Nat, NEW A \in SUBSET (0 .. m), NEW T,
         \A x \in A : (\A y \in A : y > x => y \in T) => x \in T
  PROVE  A \subseteq T
<1> DEFINE U == {n \in 0 .. m : \A x \in A : x + n >= m => x \in T}
<1>1. 0 \in U
  <2>1. ASSUME NEW x \in A, x + 0 >= m PROVE x \in T
    <3>1. \A y \in A : ~ (y > x)
      BY <2>1
    <3> QED BY <3>1
  <2> QED BY <2>1
<1>2. ASSUME NEW n \in 0 .. m, n # m, n \in U PROVE n + 1 \in U
  <2>1. ASSUME NEW x \in A, x + (n + 1) >= m PROVE x \in T
    <3>1. \A y \in A : y > x => y + n >= m
      BY <2>1
    <3>2. \A y \in A : y > x => y \in T
      BY <1>2, <3>1
    <3> QED BY <3>2
  <2> QED BY <1>2, <2>1
<1>3. 0 .. m \subseteq U
  <2> HIDE DEF U
  <2> QED BY <1>1, <1>2, NumbersUpTo
<1> QED BY <1>3

\* The functions defined by recursion over the numbers up to m.
Recursions(S, s, m, step) ==
  {f \in [0 .. m -> S] : f[0] = s /\ \A k \in 1 .. m : f[k] = step[k][f[k-1]]}

\* There is one.
LEMMA RecursionExists ==
  ASSUME NEW S, NEW s \in S, NEW m \in Nat, NEW step \in [1 .. m -> [S -> S]]
  PROVE  Recursions(S, s, m, step) # {}
<1> DEFINE T == {n \in 0 .. m : \E f \in [0 .. n -> S] :
                    f[0] = s /\ \A k \in 1 .. n : f[k] = step[k][f[k-1]]}
<1>1. 0 \in T
  <2> DEFINE f == [k \in 0 .. 0 |-> s]
  <2>1. f \in [0 .. 0 -> S] /\ f[0] = s /\ 0 \in 0 .. m
    OBVIOUS
  <2>2. \A k \in 1 .. 0 : f[k] = step[k][f[k-1]]
    OBVIOUS
  <2> HIDE DEF f
  <2> QED BY <2>1, <2>2
<1>2. ASSUME NEW n \in 0 .. m, n # m, n \in T PROVE n + 1 \in T
  <2>1. PICK f \in [0 .. n -> S] : f[0] = s /\ \A k \in 1 .. n : f[k] = step[k][f[k-1]]
    BY <1>2
  <2> DEFINE g == [k \in 0 .. n + 1 |-> IF k = n + 1 THEN step[n + 1][f[n]] ELSE f[k]]
  <2>2. n + 1 \in 1 .. m /\ n + 1 \in 0 .. m /\ n \in 0 .. n /\ f[n] \in S /\ 0 # n + 1
    BY <1>2
  <2>3. step[n + 1][f[n]] \in S
    BY <2>2
  <2>4. g \in [0 .. n + 1 -> S]
    BY <2>3
  <2>5. g[0] = s
    BY <2>1, <2>2
  <2>6. ASSUME NEW k \in 1 .. n + 1 PROVE g[k] = step[k][g[k-1]]
    <3>1. k - 1 \in 0 .. n /\ k - 1 # n + 1 /\ g[k-1] = f[k-1]
      BY <1>2
    <3>2. CASE k = n + 1
      <4>1. k - 1 = n /\ g[k] = step[k][f[n]]
        BY <3>2
      <4> QED BY <3>1, <4>1
    <3>3. CASE k # n + 1
      <4>1. k \in 1 .. n /\ g[k] = f[k]
        BY <1>2, <3>3
      <4> QED BY <2>1, <3>1, <4>1
    <3> QED BY <3>2, <3>3
  <2> HIDE DEF g
  <2> QED BY <2>2, <2>4, <2>5, <2>6
<1>3. 0 .. m \subseteq T
  <2> HIDE DEF T
  <2> QED BY <1>1, <1>2, NumbersUpTo
<1>4. m \in T
  BY <1>3
<1> QED BY <1>4 DEF Recursions

\* The functions that are at a root what root says, and elsewhere what step makes
\* of the value at the parent.
RankedRecursions(E, S, Roots, root, parent, step) ==
  {f \in [E -> S] : \A e \in E :
     f[e] = IF e \in Roots THEN root[e] ELSE step[e][f[parent[e]]]}

\* A function can be defined by recursion along parents of lower rank.
LEMMA RankedRecursionExists ==
  ASSUME NEW E, NEW S, NEW s \in S, NEW Roots \in SUBSET E, NEW root \in [Roots -> S],
         NEW parent \in [E \ Roots -> E], NEW step \in [E \ Roots -> [S -> S]],
         NEW rank \in [E -> Nat], \A e \in E \ Roots : rank[parent[e]] < rank[e]
  PROVE  RankedRecursions(E, S, Roots, root, parent, step) # {}
<1> DEFINE G == [E -> S]
           next == [g \in G |-> [e \in E |-> IF e \in Roots THEN root[e] ELSE step[e][g[parent[e]]]]]
           none == [e \in E |-> s]
<1>1. none \in G /\ next \in [G -> G]
  <2>1. ASSUME NEW g \in G, NEW e \in E
        PROVE  (IF e \in Roots THEN root[e] ELSE step[e][g[parent[e]]]) \in S
    OBVIOUS
  <2> QED BY <2>1
<1>2. PICK h \in [Nat -> G] : h[0] = none /\ \A n \in Nat : h[n + 1] = next[h[n]]
  <2> HIDE DEF G, next, none
  <2>1. Iterations(G, none, next) # {}
    BY <1>1, IterationExists
  <2> QED BY <2>1 DEF Iterations
<1>3. ASSUME NEW n \in Nat, NEW e \in E
      PROVE  h[n + 1][e] = IF e \in Roots THEN root[e] ELSE step[e][h[n][parent[e]]]
  <2>1. h[n + 1] = next[h[n]] /\ h[n] \in G
    BY <1>2
  <2> HIDE DEF G
  <2>2. next[h[n]] = [x \in E |-> IF x \in Roots THEN root[x] ELSE step[x][h[n][parent[x]]]]
    BY <2>1
  <2> QED BY <2>1, <2>2
<1> HIDE DEF next, none
<1>4. \A n \in Nat : \A e \in E : rank[e] <= n => h[n + 1][e] = h[n + 2][e]
  <2> DEFINE T == {n \in Nat : \A e \in E : rank[e] <= n => h[n + 1][e] = h[n + 2][e]}
  <2>1. 0 \in T
    <3>1. ASSUME NEW e \in E, rank[e] <= 0 PROVE h[0 + 1][e] = h[0 + 2][e]
      <4>1. e \in Roots
        <5>1. e \notin Roots => rank[parent[e]] \in Nat /\ rank[parent[e]] < rank[e] /\ rank[e] \in Nat
          OBVIOUS
        <5> QED BY <3>1, <5>1
      <4>2. h[0 + 1][e] = root[e] /\ h[1 + 1][e] = root[e]
        BY <1>3, <4>1
      <4> QED BY <4>2
    <3> QED BY <3>1
  <2>2. ASSUME NEW n \in T PROVE n + 1 \in T
    <3>1. ASSUME NEW e \in E, rank[e] <= n + 1 PROVE h[(n + 1) + 1][e] = h[(n + 1) + 2][e]
      <4>1. /\ h[(n + 1) + 1][e] = IF e \in Roots THEN root[e] ELSE step[e][h[n + 1][parent[e]]]
            /\ h[(n + 2) + 1][e] = IF e \in Roots THEN root[e] ELSE step[e][h[n + 2][parent[e]]]
        <5>1. n + 1 \in Nat /\ n + 2 \in Nat
          OBVIOUS
        <5> HIDE DEF T
        <5> QED BY <1>3, <5>1
      <4>2. e \notin Roots => h[n + 1][parent[e]] = h[n + 2][parent[e]]
        <5>1. e \notin Roots => parent[e] \in E /\ rank[parent[e]] \in Nat
                                /\ rank[parent[e]] < rank[e] /\ rank[e] \in Nat
          OBVIOUS
        <5>2. e \notin Roots => rank[parent[e]] <= n
          BY <3>1, <5>1
        <5> QED BY <5>1, <5>2
      <4>3. (n + 2) + 1 = (n + 1) + 2
        OBVIOUS
      <4> QED BY <4>1, <4>2, <4>3
    <3> QED BY <3>1
  <2> HIDE DEF T
  <2>3. T = Nat
    BY <2>1, <2>2, AllNumbers DEF T
  <2> QED BY <2>3 DEF T
<1>5. ASSUME NEW e \in E PROVE \A n \in Nat : h[rank[e] + n + 1][e] = h[rank[e] + 1][e]
  <2> DEFINE T == {n \in Nat : h[rank[e] + n + 1][e] = h[rank[e] + 1][e]}
  <2>1. 0 \in T
    <3>1. rank[e] \in Nat
      OBVIOUS
    <3> QED BY <3>1
  <2>2. ASSUME NEW n \in T PROVE n + 1 \in T
    <3>1. rank[e] \in Nat /\ rank[e] + n \in Nat /\ rank[e] <= rank[e] + n
      OBVIOUS
    <3>2. h[(rank[e] + n) + 1][e] = h[(rank[e] + n) + 2][e]
      BY <1>4, <3>1
    <3>3. (rank[e] + n) + 2 = rank[e] + (n + 1) + 1
      BY <3>1
    <3> QED BY <3>2, <3>3
  <2> HIDE DEF T
  <2>3. T = Nat
    BY <2>1, <2>2, AllNumbers DEF T
  <2> QED BY <2>3 DEF T
<1> DEFINE f == [e \in E |-> h[rank[e] + 1][e]]
<1>6. f \in [E -> S]
  <2>1. ASSUME NEW e \in E PROVE h[rank[e] + 1][e] \in S
    <3>1. rank[e] + 1 \in Nat
      OBVIOUS
    <3> QED BY <3>1
  <2> QED BY <2>1
<1>7. ASSUME NEW e \in E PROVE f[e] = IF e \in Roots THEN root[e] ELSE step[e][f[parent[e]]]
  <2>1. f[e] = IF e \in Roots THEN root[e] ELSE step[e][h[rank[e]][parent[e]]]
    <3>1. rank[e] \in Nat
      OBVIOUS
    <3> QED BY <1>3, <3>1
  <2>2. CASE e \in Roots
    BY <2>1, <2>2
  <2>3. CASE e \notin Roots
    <3>1. parent[e] \in E /\ rank[parent[e]] \in Nat /\ rank[e] \in Nat /\ rank[parent[e]] < rank[e]
      BY <2>3
    <3>2. PICK n \in Nat : rank[e] = rank[parent[e]] + n + 1
      <4>1. rank[e] - rank[parent[e]] - 1 \in Nat
            /\ rank[e] = rank[parent[e]] + (rank[e] - rank[parent[e]] - 1) + 1
        BY <3>1
      <4> QED BY <4>1
    <3>3. h[rank[e]][parent[e]] = h[rank[parent[e]] + 1][parent[e]]
      BY <1>5, <3>1, <3>2
    <3>4. f[parent[e]] = h[rank[parent[e]] + 1][parent[e]]
      BY <3>1
    <3> QED BY <2>1, <2>3, <3>3, <3>4
  <2> QED BY <2>2, <2>3
<1> HIDE DEF f
<1> QED BY <1>6, <1>7 DEF RankedRecursions

\* An element is in T when its parent is, and parents are of lower rank.
Inherits(E, T, Roots, parent, rank) ==
  /\ Roots \in SUBSET E /\ parent \in [E \ Roots -> E] /\ rank \in [E -> Nat]
  /\ \A e \in E \ Roots : rank[parent[e]] < rank[e]
  /\ \A e \in E : (e \notin Roots => parent[e] \in T) => e \in T

\* What holds of an element when it holds of its parent holds of all.
LEMMA RankedInduction ==
  ASSUME NEW E, NEW T, NEW Roots, NEW parent, NEW rank, Inherits(E, T, Roots, parent, rank)
  PROVE  E \subseteq T
<1> USE DEF Inherits
<1> DEFINE Bad == {rank[e] : e \in E \ T}
<1> SUFFICES ASSUME E \ T # {} PROVE FALSE
  OBVIOUS
<1>1. Bad \in SUBSET Nat /\ Bad # {}
  OBVIOUS
<1>2. PICK m \in Bad : \A n \in Bad : m <= n
  <2> HIDE DEF Bad
  <2> QED BY <1>1, LeastNat
<1>3. PICK e \in E \ T : m = rank[e]
  OBVIOUS
<1>4. e \notin Roots /\ parent[e] \in E \ T
  OBVIOUS
<1>5. rank[parent[e]] < rank[e] /\ rank[parent[e]] \in Nat /\ rank[e] \in Nat
  BY <1>4
<1>6. rank[parent[e]] \in Bad
  BY <1>4
<1> QED BY <1>2, <1>3, <1>5, <1>6
=============================================================================
