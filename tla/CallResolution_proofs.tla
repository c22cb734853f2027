------------------------ MODULE CallResolution_proofs ----------------------
(***************************************************************************)
(* Proofs about CallResolution, for any classes, programs, calls and       *)
(* receivers: a typed edge is never a wrong guess, and a run over the      *)
(* whole program loses no call.  Hierarchies may have any shape, cycles    *)
(* included; a walk up a hierarchy ends because it follows a class once.   *)
(***************************************************************************)
EXTENDS CallResolution, FiniteSetTheorems, Induction, TLAPS

-----------------------------------------------------------------------------
(* The walks up the hierarchy.                                             *)

\* The types of what the index is read from.
IndexTyped == program \in Programs /\ index \in SUBSET Classes

\* The last of a sequence, and what is before it.
LEMMA LastAndFront ==
    ASSUME NEW S, NEW q \in Seq(S), q # <<>>
    PROVE  /\ Last(q) \in S /\ Front(q) \in Seq(S) /\ Len(q) \in Nat
           /\ Len(Front(q)) = Len(q) - 1
           /\ ToSet(q) = ToSet(Front(q)) \cup {Last(q)}
<1>1. /\ Len(q) \in Nat \ {0} /\ DOMAIN q = 1 .. Len(q) /\ \A i \in 1 .. Len(q) : q[i] \in S
      /\ Front(q) \in Seq(S) /\ Len(Front(q)) = Len(q) - 1
      /\ DOMAIN Front(q) = 1 .. Len(q) - 1
      /\ \A i \in 1 .. Len(q) - 1 : Front(q)[i] = q[i]
  <2>1. Len(q) \in Nat \ {0} /\ DOMAIN q = 1 .. Len(q) /\ \A i \in 1 .. Len(q) : q[i] \in S
    OBVIOUS
  <2>2. Front(q) = SubSeq(q, 1, Len(q) - 1)
    BY DEF Front
  <2> QED BY <2>1, <2>2
<1>2. Last(q) \in S
  BY <1>1 DEF Last
<1>3. ToSet(q) = ToSet(Front(q)) \cup {Last(q)}
  BY <1>1 DEF ToSet, Last
<1> QED BY <1>1, <1>2, <1>3

\* What two sequences put together hold.
LEMMA SetOfJoined ==
    ASSUME NEW S, NEW p \in Seq(S), NEW q \in Seq(S)
    PROVE  /\ p \o q \in Seq(S) /\ Len(p \o q) = Len(p) + Len(q)
           /\ ToSet(p \o q) = ToSet(p) \cup ToSet(q)
<1>1. /\ p \o q \in Seq(S) /\ Len(p \o q) = Len(p) + Len(q)
      /\ Len(p) \in Nat /\ Len(q) \in Nat
      /\ DOMAIN p = 1 .. Len(p) /\ DOMAIN q = 1 .. Len(q)
      /\ DOMAIN (p \o q) = 1 .. Len(p) + Len(q)
      /\ \A i \in 1 .. Len(p) : (p \o q)[i] = p[i]
      /\ \A i \in 1 .. Len(q) : (p \o q)[Len(p) + i] = q[i]
  OBVIOUS
<1>2. ASSUME NEW i \in DOMAIN (p \o q) PROVE (p \o q)[i] \in ToSet(p) \cup ToSet(q)
  <2>1. CASE i <= Len(p)
    BY <1>1, <2>1 DEF ToSet
  <2>2. CASE i > Len(p)
    <3>1. i - Len(p) \in 1 .. Len(q) /\ Len(p) + (i - Len(p)) = i
      BY <1>1, <2>2
    <3> QED BY <1>1, <3>1 DEF ToSet
  <2> QED BY <1>1, <2>1, <2>2
<1>3. ASSUME NEW i \in DOMAIN q PROVE q[i] \in ToSet(p \o q)
  <2>1. Len(p) + i \in DOMAIN (p \o q)
    BY <1>1
  <2> QED BY <1>1, <2>1 DEF ToSet
<1>4. ASSUME NEW i \in DOMAIN p PROVE p[i] \in ToSet(p \o q)
  <2>1. i \in DOMAIN (p \o q)
    BY <1>1
  <2> QED BY <1>1, <2>1 DEF ToSet
<1>5. ToSet(p \o q) \subseteq ToSet(p) \cup ToSet(q)
  BY <1>2 DEF ToSet
<1>6. ToSet(p) \cup ToSet(q) \subseteq ToSet(p \o q)
  BY <1>3, <1>4 DEF ToSet
<1> QED BY <1>1, <1>5, <1>6

\* What a file says has its types.
LEMMA DeclTyped ==
    ASSUME IndexTyped, NEW c \in Classes
    PROVE  Decl(c) \in ClassDecl /\ Caller \in Classes
  BY CallAssumption DEF IndexTyped, Decl, Caller

\* OneOf finds the element of a set of one.
LEMMA OneOfOne ==
    ASSUME NEW S, IsFiniteSet(S)
    PROVE  /\ \A x : S = {x} => OneOf(S) = x
           /\ OneOf(S) # Nothing => S = {OneOf(S)}
           /\ OneOf(S) \in Maybe(S)
<1>1. Cardinality(S) = 1 <=> \E x : S = {x}
  BY FS_Singleton
<1> QED BY <1>1 DEF OneOf, Maybe

\* The classes of a name are finitely many.
LEMMA NamedFinite ==
    ASSUME IndexTyped, NEW n
    PROVE  IsFiniteSet(ClassesNamed(n)) /\ ClassesNamed(n) \in SUBSET Classes
<1>1. ClassesNamed(n) \in SUBSET Classes /\ IsFiniteSet(Classes)
  BY CallAssumption DEF ClassesNamed, IndexTyped
<1> QED BY <1>1, FS_Subset

\* A class has no more supertypes than there are names.
LEMMA SupersShort ==
    ASSUME IndexTyped, NEW c \in Classes
    PROVE  /\ Supertypes(c) \in Seq(Maybe(Classes)) /\ Len(Supertypes(c)) <= Cardinality(Names)
           /\ DOMAIN Supertypes(c) = DOMAIN Decl(c).supers
<1> DEFINE q == Decl(c).supers
<1>1. q \in Seq(Names) /\ IsInjective(q) /\ Len(q) \in Nat /\ DOMAIN q = 1 .. Len(q) /\ q \in [1 .. Len(q) -> Names]
  BY DeclTyped DEF ClassDecl
<1>2. ASSUME NEW i \in DOMAIN q PROVE OneOf(ClassesNamed(q[i])) \in Maybe(Classes)
  <2> DEFINE S == ClassesNamed(q[i])
  <2>1. IsFiniteSet(S) /\ S \in SUBSET Classes
    BY NamedFinite
  <2> HIDE DEF S
  <2>2. OneOf(S) \in Maybe(S)
    BY <2>1, OneOfOne
  <2> QED BY <2>1, <2>2 DEF S, Maybe
<1>3. Supertypes(c) \in [1 .. Len(q) -> Maybe(Classes)]
  BY <1>1, <1>2 DEF Supertypes
<1>4. Supertypes(c) \in Seq(Maybe(Classes)) /\ Len(Supertypes(c)) = Len(q)
  BY <1>1, <1>3
<1>5. Len(q) <= Cardinality(Names)
  <2> HIDE DEF q
  <2>1. IsFiniteSet(Names) /\ Cardinality(Names) \in Nat
    BY CallAssumption, FS_CardinalityType
  <2>2. IsFiniteSet(1 .. Len(q)) /\ Cardinality(1 .. Len(q)) = Len(q)
    BY <1>1, FS_Interval
  <2> SUFFICES ASSUME Cardinality(Names) < Len(q) PROVE FALSE
    BY <1>1, <2>1
  <2>3. \E x, y \in 1 .. Len(q) : x # y /\ q[x] = q[y]
    BY <1>1, <2>1, <2>2, FS_PigeonHole
  <2> QED BY <1>1, <2>3 DEF IsInjective
<1> QED BY <1>1, <1>3, <1>4, <1>5

\* How many supertypes a class has at most.
MostSupers == Cardinality(Names)

\* How many steps a walk has left at most.
StepsLeft(w) == Len(w.stack) + MostSupers * Cardinality(Classes \ w.seen)

\* Every step brings a walk closer to its end: a class is followed only once.
LEMMA ClimbCloser ==
    ASSUME IndexTyped, NEW declaring, NEW w \in Walks, w.stack # <<>>
    PROVE  /\ Climb(w, declaring) \in Walks
           /\ StepsLeft(Climb(w, declaring)) \in Nat /\ StepsLeft(w) \in Nat
           /\ StepsLeft(Climb(w, declaring)) < StepsLeft(w)
<1> DEFINE d == Last(w.stack)
           rest == Front(w.stack)
           v == Climb(w, declaring)
           n == Cardinality(Classes \ w.seen)
           p == MostSupers * n
<1>1. /\ w.stack \in Seq(Maybe(Classes)) /\ w.seen \in SUBSET Classes /\ w.hits \in Seq(Classes)
      /\ w = [stack |-> w.stack, seen |-> w.seen, hits |-> w.hits]
  BY DEF Walks
<1>2. /\ d \in Maybe(Classes) /\ rest \in Seq(Maybe(Classes)) /\ Len(w.stack) \in Nat
      /\ Len(rest) = Len(w.stack) - 1 /\ Len(rest) \in Nat
  BY <1>1, LastAndFront
<1>3. MostSupers \in Nat /\ IsFiniteSet(Classes)
  BY CallAssumption, FS_CardinalityType DEF MostSupers
<1>4. IsFiniteSet(Classes \ w.seen) /\ n \in Nat
  <2>1. IsFiniteSet(Classes \ w.seen)
    BY <1>3, FS_Subset
  <2> QED BY <2>1, FS_CardinalityType
<1>5. StepsLeft(w) = Len(w.stack) + p /\ p \in Nat
  <2>1. StepsLeft(w) = Len(w.stack) + p
    BY DEF StepsLeft
  <2> HIDE DEF n
  <2> QED BY <1>3, <1>4, <2>1
<1>6. CASE d \in Maybe(w.seen)
  <2>1. v = [stack |-> rest, seen |-> w.seen, hits |-> w.hits]
    BY <1>1, <1>6 DEF Climb
  <2>2. StepsLeft(v) = Len(rest) + p
    BY <2>1 DEF StepsLeft
  <2>3. v \in Walks
    BY <1>1, <1>2, <2>1 DEF Walks
  <2> HIDE DEF rest, d, p
  <2>4. StepsLeft(v) \in Nat /\ StepsLeft(v) < StepsLeft(w) /\ StepsLeft(w) \in Nat
    <3> HIDE DEF v
    <3> QED BY <1>2, <1>5, <2>2
  <2> QED BY <2>3, <2>4
<1>7. CASE d \notin Maybe(w.seen)
  <2>1. d \in Classes /\ d \notin w.seen /\ w.seen \cup {d} \in SUBSET Classes
    BY <1>1, <1>2, <1>7 DEF Maybe
  <2>2. Cardinality(Classes \ (w.seen \cup {d})) = n - 1 /\ n - 1 \in Nat
    <3>1. Classes \ (w.seen \cup {d}) = (Classes \ w.seen) \ {d} /\ d \in Classes \ w.seen
      BY <2>1
    <3>2. Cardinality((Classes \ w.seen) \ {d}) = n - 1 /\ IsFiniteSet((Classes \ w.seen) \ {d})
      BY <1>4, <3>1, FS_RemoveElement
    <3>3. Cardinality((Classes \ w.seen) \ {d}) \in Nat
      BY <3>2, FS_CardinalityType
    <3> QED BY <3>1, <3>2, <3>3
  <2>3. p = MostSupers * (n - 1) + MostSupers /\ MostSupers * (n - 1) \in Nat
    <3> HIDE DEF n
    <3> QED BY <1>3, <1>4, <2>2
  <2>4. /\ v.seen = w.seen \cup {d} /\ v \in Walks
        /\ Len(v.stack) \in Nat /\ Len(v.stack) <= Len(rest) + MostSupers
    <3>1. CASE d \in declaring
      <4>1. v = [stack |-> rest, seen |-> w.seen \cup {d}, hits |-> Append(w.hits, d)]
        BY <1>1, <1>7, <3>1 DEF Climb
      <4>2. Append(w.hits, d) \in Seq(Classes)
        BY <1>1, <2>1
      <4> HIDE DEF rest, d
      <4> QED BY <1>2, <1>3, <2>1, <4>1, <4>2 DEF Walks
    <3>2. CASE d \notin declaring
      <4>1. v = [stack |-> rest \o Supertypes(d), seen |-> w.seen \cup {d}, hits |-> w.hits]
        BY <1>1, <1>7, <3>2 DEF Climb
      <4>2. Supertypes(d) \in Seq(Maybe(Classes)) /\ Len(Supertypes(d)) <= MostSupers
            /\ Len(Supertypes(d)) \in Nat
        <5>1. Supertypes(d) \in Seq(Maybe(Classes)) /\ Len(Supertypes(d)) <= MostSupers
          BY <2>1, SupersShort DEF MostSupers
        <5> QED BY <5>1
      <4>3. rest \o Supertypes(d) \in Seq(Maybe(Classes))
            /\ Len(rest \o Supertypes(d)) = Len(rest) + Len(Supertypes(d))
        BY <1>2, <4>2, SetOfJoined
      <4> HIDE DEF rest, d
      <4> QED BY <1>1, <1>2, <1>3, <2>1, <4>1, <4>2, <4>3 DEF Walks
    <3> QED BY <3>1, <3>2
  <2>5. StepsLeft(v) = Len(v.stack) + MostSupers * (n - 1)
    BY <2>2, <2>4 DEF StepsLeft
  <2> DEFINE q == MostSupers * (n - 1)
  <2> HIDE DEF rest, d, p, q
  <2>6. StepsLeft(v) \in Nat /\ StepsLeft(v) < StepsLeft(w) /\ StepsLeft(w) \in Nat
    <3>1. p = q + MostSupers /\ q \in Nat /\ StepsLeft(v) = Len(v.stack) + q
      BY <2>3, <2>5 DEF q
    <3>2. Len(v.stack) \in Nat /\ Len(v.stack) <= Len(rest) + MostSupers
      BY <2>4
    <3>3. Len(rest) \in Nat /\ Len(w.stack) = Len(rest) + 1 /\ MostSupers \in Nat
      BY <1>2, <1>3
    <3>4. StepsLeft(w) = Len(rest) + 1 + q + MostSupers
      BY <1>5, <3>1, <3>3
    <3> HIDE DEF v
    <3> QED BY <3>1, <3>2, <3>3, <3>4
  <2> QED BY <2>4, <2>6
<1> QED BY <1>6, <1>7

\* The walk from a class, as Nearest begins it.
Start(c) == [stack |-> <<c>>, seen |-> {}, hits |-> <<>>]

\* A set of walks that holds the first and with each the next holds an ended one
\* that has found what Nearest answers.
LEMMA NearestEnds ==
    ASSUME IndexTyped, NEW declaring, NEW c \in Classes, NEW Good \in SUBSET Walks, Start(c) \in Good,
           \A w \in Good : w.stack # <<>> => Climb(w, declaring) \in Good
    PROVE  \E w \in Good : w.stack = <<>> /\ Nearest(c, declaring) = w.hits
<1> DEFINE S == Seq(Classes)
           Roots == {w \in Walks : w.stack = <<>>}
           root == [w \in Roots |-> w.hits]
           parent == [w \in Walks \ Roots |-> Climb(w, declaring)]
           step == [w \in Walks \ Roots |-> [h \in S |-> h]]
           rank == [w \in Walks |-> StepsLeft(w)]
<1>1. <<>> \in S /\ Roots \in SUBSET Walks /\ root \in [Roots -> S]
  BY DEF Walks
<1>2. parent \in [Walks \ Roots -> Walks]
  BY ClimbCloser
<1>3. step \in [Walks \ Roots -> [S -> S]]
  OBVIOUS
<1>4. rank \in [Walks -> Nat]
  <2>1. ASSUME NEW w \in Walks PROVE StepsLeft(w) \in Nat
    <3>1. CASE w.stack # <<>>
      BY <3>1, ClimbCloser
    <3>2. CASE w.stack = <<>>
      <4>1. MostSupers \in Nat /\ IsFiniteSet(Classes)
        BY CallAssumption, FS_CardinalityType DEF MostSupers
      <4>2. Cardinality(Classes \ w.seen) \in Nat
        <5>1. IsFiniteSet(Classes \ w.seen)
          BY <4>1, FS_Subset
        <5> QED BY <5>1, FS_CardinalityType
      <4>3. Len(w.stack) = 0
        BY <3>2
      <4> QED BY <4>1, <4>2, <4>3 DEF StepsLeft
    <3> QED BY <3>1, <3>2
  <2> QED BY <2>1
<1>5. \A w \in Walks \ Roots : rank[parent[w]] < rank[w]
  <2>1. ASSUME NEW w \in Walks \ Roots PROVE rank[parent[w]] < rank[w]
    <3>1. Climb(w, declaring) \in Walks /\ StepsLeft(Climb(w, declaring)) < StepsLeft(w)
      BY ClimbCloser
    <3> QED BY <3>1
  <2> QED BY <2>1
<1>6. PICK f \in [Walks -> S] : \A w \in Walks :
          f[w] = IF w \in Roots THEN root[w] ELSE step[w][f[parent[w]]]
  <2> HIDE DEF S, Roots, root, parent, step, rank
  <2>1. RankedRecursions(Walks, S, Roots, root, parent, step) # {}
    BY <1>1, <1>2, <1>3, <1>4, <1>5, RankedRecursionExists
  <2> QED BY <2>1 DEF RankedRecursions
<1>7. f = [w \in Walks |-> IF w.stack = <<>> THEN w.hits ELSE f[Climb(w, declaring)]]
  <2>1. ASSUME NEW w \in Walks, w.stack # <<>> PROVE f[w] = f[Climb(w, declaring)]
    <3>1. f[w] = step[w][f[parent[w]]] /\ parent[w] = Climb(w, declaring) /\ parent[w] \in Walks
      <4>1. w \in Walks \ Roots
        BY <2>1
      <4>2. f[w] = step[w][f[parent[w]]]
        BY <1>6, <4>1
      <4> QED BY <1>2, <4>1, <4>2
    <3>2. f[parent[w]] \in S
      BY <1>6, <3>1
    <3> QED BY <2>1, <3>1, <3>2
  <2>2. ASSUME NEW w \in Walks, w.stack = <<>> PROVE f[w] = w.hits
    BY <1>6, <2>2
  <2> QED BY <1>6, <2>1, <2>2
<1> DEFINE hits[w \in Walks] == IF w.stack = <<>> THEN w.hits ELSE hits[Climb(w, declaring)]
<1>8. hits = [w \in Walks |-> IF w.stack = <<>> THEN w.hits ELSE hits[Climb(w, declaring)]]
  BY <1>7
<1>9. Nearest(c, declaring) = hits[Start(c)]
  BY DEF Nearest, Start
<1> HIDE DEF hits
<1> DEFINE T == {w \in Walks : w \in Good => \E v \in Good : v.stack = <<>> /\ hits[w] = v.hits}
<1>10. \A w \in Walks : (w \notin Roots => parent[w] \in T) => w \in T
  <2> SUFFICES ASSUME NEW w \in Walks, w \notin Roots => parent[w] \in T, w \in Good
               PROVE  \E v \in Good : v.stack = <<>> /\ hits[w] = v.hits
    OBVIOUS
  <2>1. CASE w \in Roots
    BY <1>8, <2>1
  <2>2. CASE w \notin Roots
    <3>1. Climb(w, declaring) \in Good /\ Climb(w, declaring) \in T
      BY <2>2
    <3>2. hits[w] = hits[Climb(w, declaring)]
      BY <1>8, <2>2
    <3> QED BY <3>1, <3>2
  <2> QED BY <2>1, <2>2
<1>11. Walks \subseteq T
  <2> HIDE DEF Roots, parent, rank, T
  <2>1. Inherits(Walks, T, Roots, parent, rank)
    BY <1>1, <1>2, <1>4, <1>5, <1>10 DEF Inherits
  <2> QED BY <2>1, RankedInduction
<1>12. Start(c) \in T
  BY <1>11
<1> QED BY <1>9, <1>12

-----------------------------------------------------------------------------
(* What a walk finds, where supertypes' names are unique.                  *)

\* A supertype's name is that of the class it means or of none.
SupersAreKnown ==
    \A c \in Classes : \A n \in ToSet(Decl(c).supers), d \in Classes :
        Decl(d).name = n => Means(c, n) = {d}

\* A supertype's name is looked up as the class it means.
LEMMA SuperOne ==
    ASSUME IndexTyped, SupersAreKnown, NEW c \in Classes, NEW n \in ToSet(Decl(c).supers)
    PROVE  /\ OneOf(ClassesNamed(n)) = Nothing => ClassesNamed(n) = {}
           /\ OneOf(ClassesNamed(n)) # Nothing => ClassesNamed(n) = {OneOf(ClassesNamed(n))}
           /\ OneOf(ClassesNamed(n)) # Nothing => Means(c, n) = {OneOf(ClassesNamed(n))}
           /\ \A d \in index : d \in Means(c, n) => d = OneOf(ClassesNamed(n))
<1> DEFINE S == ClassesNamed(n)
<1>1. IsFiniteSet(S) /\ S \in SUBSET Classes
  BY NamedFinite
<1>2. \A d \in S : Decl(d).name = n /\ Means(c, n) = {d} /\ d \in Classes
  BY <1>1 DEF ClassesNamed, SupersAreKnown
<1>3. \A d \in index : d \in Means(c, n) => d \in S
  BY DEF Means, ClassesNamed
<1>4. Nothing \notin S
  BY <1>1, CallAssumption
<1> HIDE DEF S
<1>5. \A d \in S : S = {d}
  BY <1>2
<1>6. \A d \in S : OneOf(S) = d
  BY <1>1, <1>5, OneOfOne
<1>7. OneOf(S) # Nothing => S = {OneOf(S)}
  BY <1>1, OneOfOne
<1> QED BY <1>2, <1>3, <1>4, <1>6, <1>7 DEF S

\* The supertypes of a class are the classes read that it extends.
LEMMA SupertypesRight ==
    ASSUME IndexTyped, SupersAreKnown, NEW c \in Classes
    PROVE  /\ \A d \in ToSet(Supertypes(c)) : d # Nothing => d \in Classes /\ Extends(c, d)
           /\ \A d \in index : Extends(c, d) => d \in ToSet(Supertypes(c))
           /\ \A n \in ToSet(Decl(c).supers) : ClassesNamed(n) \subseteq ToSet(Supertypes(c))
<1> DEFINE q == Decl(c).supers
           t == Supertypes(c)
<1>1. DOMAIN t = DOMAIN q /\ \A i \in DOMAIN q : t[i] = OneOf(ClassesNamed(q[i]))
  BY DEF Supertypes
<1>2. \A i \in DOMAIN q : q[i] \in ToSet(q)
  BY DEF ToSet
<1>3. ASSUME NEW i \in DOMAIN q, t[i] # Nothing PROVE t[i] \in Classes /\ Extends(c, t[i])
  <2>1. Means(c, q[i]) = {t[i]} /\ ClassesNamed(q[i]) = {t[i]}
    BY <1>1, <1>2, <1>3, SuperOne
  <2>2. t[i] \in Classes
    BY <2>1, NamedFinite
  <2> QED BY <2>1, <2>2 DEF Extends
<1>4. ASSUME NEW d \in index, Extends(c, d) PROVE d \in ToSet(t)
  <2>1. PICK i \in DOMAIN q : d \in Means(c, q[i])
    BY <1>4 DEF Extends
  <2>2. d = t[i]
    BY <1>1, <1>2, <2>1, SuperOne
  <2> QED BY <1>1, <2>2 DEF ToSet
<1>5. ASSUME NEW n \in ToSet(q) PROVE ClassesNamed(n) \subseteq ToSet(t)
  <2>1. PICK i \in DOMAIN q : n = q[i]
    BY DEF ToSet
  <2>2. ClassesNamed(n) \subseteq {t[i]}
    BY <1>1, <2>1, SuperOne
  <2> QED BY <1>1, <2>2 DEF ToSet
<1>6. \A d \in ToSet(t) : \E i \in DOMAIN q : d = t[i]
  BY <1>1 DEF ToSet
<1> QED BY <1>3, <1>4, <1>5, <1>6

\* What is above a class is closed, and no larger than any closed set with the class.
LEMMA UpwardsGrow ==
    ASSUME NEW c \in Classes, NEW ending
    PROVE  /\ c \in Upwards(c, ending) /\ Upwards(c, ending) \in SUBSET Classes
           /\ \A x \in Upwards(c, ending) \ ending, y \in Classes :
                  Extends(x, y) => y \in Upwards(c, ending)
           /\ \A s \in SUBSET Classes :
                  c \in s /\ (\A x \in s \ ending, y \in Classes \ s : ~ Extends(x, y))
                  => Upwards(c, ending) \subseteq s
  BY DEF Upwards

\* Where a walk from c stands: what it has seen and still has to see is above c.
WalkInv(w, c, declaring) ==
    /\ w.seen \subseteq Upwards(c, declaring)
    /\ \A d \in ToSet(w.stack) : d # Nothing => d \in Upwards(c, declaring)
    /\ ToSet(w.hits) = w.seen \cap declaring
    /\ c \in w.seen \cup ToSet(w.stack)
    /\ \A x \in w.seen \ declaring : ToSet(Supertypes(x)) \subseteq Maybe(w.seen \cup ToSet(w.stack))

\* What a sequence holds with one more at its end.
LEMMA AppendSet ==
    ASSUME NEW S, NEW q \in Seq(S), NEW d \in S
    PROVE  ToSet(Append(q, d)) = ToSet(q) \cup {d}
<1>1. /\ Len(q) \in Nat /\ DOMAIN q = 1 .. Len(q) /\ DOMAIN Append(q, d) = 1 .. Len(q) + 1
      /\ Append(q, d)[Len(q) + 1] = d /\ \A i \in 1 .. Len(q) : Append(q, d)[i] = q[i]
  OBVIOUS
<1> QED BY <1>1 DEF ToSet

\* Every step of a walk keeps that.
LEMMA ClimbSound ==
    ASSUME IndexTyped, SupersAreKnown, NEW declaring, NEW c \in Classes,
           NEW w \in Walks, w.stack # <<>>, WalkInv(w, c, declaring)
    PROVE  WalkInv(Climb(w, declaring), c, declaring)
<1> DEFINE d == Last(w.stack)
           rest == Front(w.stack)
           v == Climb(w, declaring)
<1>1. /\ w.stack \in Seq(Maybe(Classes)) /\ w.seen \in SUBSET Classes /\ w.hits \in Seq(Classes)
      /\ w = [stack |-> w.stack, seen |-> w.seen, hits |-> w.hits]
  BY DEF Walks
<1>2. /\ d \in Maybe(Classes) /\ rest \in Seq(Maybe(Classes))
      /\ ToSet(w.stack) = ToSet(rest) \cup {d}
  BY <1>1, LastAndFront
<1>3. CASE d \in Maybe(w.seen)
  <2>1. v = [stack |-> rest, seen |-> w.seen, hits |-> w.hits]
    BY <1>1, <1>3 DEF Climb
  <2>2. v.stack = rest /\ v.seen = w.seen /\ v.hits = w.hits
    BY <2>1
  <2>3. c # Nothing
    BY CallAssumption
  <2> HIDE DEF v, rest, d
  <2>4. WalkInv(v, c, declaring)
    BY <1>2, <1>3, <2>2, <2>3 DEF WalkInv, Maybe
  <2> QED BY <2>4 DEF v
<1>4. CASE d \notin Maybe(w.seen) /\ d \in declaring
  <2>1. v = [stack |-> rest, seen |-> w.seen \cup {d}, hits |-> Append(w.hits, d)]
    BY <1>1, <1>4 DEF Climb
  <2>2. v.stack = rest /\ v.seen = w.seen \cup {d} /\ v.hits = Append(w.hits, d)
    BY <2>1
  <2>3. d \in Classes /\ d # Nothing
    BY <1>2, <1>4 DEF Maybe
  <2>4. ToSet(v.hits) = ToSet(w.hits) \cup {d}
    BY <1>1, <2>2, <2>3, AppendSet
  <2> HIDE DEF v, rest, d
  <2>5. WalkInv(v, c, declaring)
    BY <1>2, <1>4, <2>2, <2>3, <2>4 DEF WalkInv, Maybe
  <2> QED BY <2>5 DEF v
<1>5. CASE d \notin Maybe(w.seen) /\ d \notin declaring
  <2>1. v = [stack |-> rest \o Supertypes(d), seen |-> w.seen \cup {d}, hits |-> w.hits]
    BY <1>1, <1>5 DEF Climb
  <2>2. v.stack = rest \o Supertypes(d) /\ v.seen = w.seen \cup {d} /\ v.hits = w.hits
    BY <2>1
  <2>3. d \in Classes /\ d # Nothing
    BY <1>2, <1>5 DEF Maybe
  <2>4. ToSet(v.stack) = ToSet(rest) \cup ToSet(Supertypes(d))
    <3>1. Supertypes(d) \in Seq(Maybe(Classes))
      BY <2>3, SupersShort
    <3> QED BY <1>2, <2>2, <3>1, SetOfJoined
  <2>5. d \in Upwards(c, declaring)
    BY <1>2, <2>3 DEF WalkInv
  <2>6. \A e \in ToSet(Supertypes(d)) : e # Nothing => e \in Upwards(c, declaring)
    BY <1>5, <2>3, <2>5, SupertypesRight, UpwardsGrow
  <2> HIDE DEF v, rest, d
  <2>7. WalkInv(v, c, declaring)
    <3>1. v.seen \subseteq Upwards(c, declaring)
      BY <2>2, <2>5 DEF WalkInv
    <3>2. \A e \in ToSet(v.stack) : e # Nothing => e \in Upwards(c, declaring)
      BY <1>2, <2>4, <2>6 DEF WalkInv
    <3>3. ToSet(v.hits) = v.seen \cap declaring
      BY <1>5, <2>2 DEF WalkInv
    <3>4. c \in v.seen \cup ToSet(v.stack)
      BY <1>2, <2>2, <2>4 DEF WalkInv
    <3>5. ASSUME NEW x \in v.seen \ declaring
          PROVE  ToSet(Supertypes(x)) \subseteq Maybe(v.seen \cup ToSet(v.stack))
      <4>1. CASE x = d
        BY <2>4, <4>1 DEF Maybe
      <4>2. CASE x # d
        <5>1. x \in w.seen \ declaring
          BY <2>2, <4>2
        <5>2. ToSet(Supertypes(x)) \subseteq Maybe(w.seen \cup ToSet(w.stack))
          BY <5>1 DEF WalkInv
        <5> QED BY <1>2, <2>2, <2>4, <5>2 DEF Maybe
      <4> QED BY <4>1, <4>2
    <3> QED BY <3>1, <3>2, <3>3, <3>4, <3>5 DEF WalkInv
  <2> QED BY <2>7 DEF v
<1> QED BY <1>3, <1>4, <1>5

\* What a walk has seen when it ends.
LEMMA NearestSees ==
    ASSUME IndexTyped, SupersAreKnown, NEW declaring, NEW c \in Classes
    PROVE  /\ Nearest(c, declaring) \in Seq(Classes)
           /\ \E s \in SUBSET Classes :
                 /\ s \subseteq Upwards(c, declaring) /\ c \in s
                 /\ ToSet(Nearest(c, declaring)) = s \cap declaring
                 /\ \A x \in s \ declaring : ToSet(Supertypes(x)) \subseteq Maybe(s)
<1> DEFINE Good == {w \in Walks : WalkInv(w, c, declaring)}
<1>1. Start(c) \in Good
  <2>1. <<c>> \in Seq(Maybe(Classes)) /\ ToSet(<<c>>) = {c} /\ <<>> \in Seq(Classes) /\ ToSet(<<>>) = {}
    BY DEF ToSet, Maybe
  <2>2. Start(c) \in Walks /\ Start(c).stack = <<c>> /\ Start(c).seen = {} /\ Start(c).hits = <<>>
    BY <2>1 DEF Start, Walks
  <2> QED BY <2>1, <2>2, UpwardsGrow DEF WalkInv
<1>2. \A w \in Good : w.stack # <<>> => Climb(w, declaring) \in Good
  BY ClimbCloser, ClimbSound
<1> HIDE DEF Good
<1>3. PICK w \in Good : w.stack = <<>> /\ Nearest(c, declaring) = w.hits
  <2>1. Good \in SUBSET Walks
    BY DEF Good
  <2> QED BY <1>1, <1>2, <2>1, NearestEnds
<1>4. w \in Walks /\ WalkInv(w, c, declaring) /\ w.seen \in SUBSET Classes /\ w.hits \in Seq(Classes)
  BY DEF Good, Walks
<1>5. ToSet(w.stack) = {}
  BY <1>3 DEF ToSet
<1> QED BY <1>3, <1>4, <1>5 DEF WalkInv

\* The walk finds declarations that c inherits; of a program read as a whole, all.
LEMMA NearestIsInherited ==
    ASSUME IndexTyped, SupersAreKnown, NEW declaring \in SUBSET Classes, NEW c \in Classes
    PROVE  /\ ToSet(Nearest(c, declaring)) \subseteq Inherited(c, declaring)
           /\ index = Classes => ToSet(Nearest(c, declaring)) = Inherited(c, declaring)
<1>1. PICK s \in SUBSET Classes :
         /\ s \subseteq Upwards(c, declaring) /\ c \in s
         /\ ToSet(Nearest(c, declaring)) = s \cap declaring
         /\ \A x \in s \ declaring : ToSet(Supertypes(x)) \subseteq Maybe(s)
  BY NearestSees
<1>2. ASSUME index = Classes PROVE Upwards(c, declaring) \subseteq s
  <2>1. ASSUME NEW x \in s \ declaring, NEW y \in Classes, Extends(x, y) PROVE y \in s
    <3>1. y \in ToSet(Supertypes(x))
      BY <1>2, <2>1, SupertypesRight
    <3> QED BY <1>1, <3>1, CallAssumption DEF Maybe
  <2> QED BY <1>1, <2>1, UpwardsGrow
<1> QED BY <1>1, <1>2 DEF Inherited

\* A chain of sets of classes, from one class, can be defined by its step.
LEMMA UpStepExists ==
    ASSUME NEW c \in Classes, NEW step \in [SUBSET Classes -> SUBSET Classes]
    PROVE  \E f \in [Nat -> SUBSET Classes] : f[0] = {c} /\ \A n \in Nat : f[n + 1] = step[f[n]]
<1> DEFINE S == SUBSET Classes
           s == {c}
<1>1. s \in S /\ step \in [S -> S]
  OBVIOUS
<1> HIDE DEF S, s
<1>2. Iterations(S, s, step) # {}
  BY <1>1, IterationExists
<1> QED BY <1>2 DEF Iterations, S, s

\* A class set with the classes its members' supertypes' names are the names of.
NameStep(t) == t \cup UNION {ClassesNamed(n) : n \in UNION {ToSet(Decl(d).supers) : d \in t}}

\* The ancestors by name are what a chain of such steps comes to.
LEMMA AncestorChain ==
    ASSUME IndexTyped, NEW c \in Classes
    PROVE  \E up \in [Nat -> SUBSET Classes] :
              /\ up[0] = {c} /\ \A n \in Nat : up[n + 1] = NameStep(up[n])
              /\ NameAncestors(c) = up[Cardinality(Classes)]
<1> DEFINE step == [t \in SUBSET Classes |-> NameStep(t)]
           up[n \in Nat] == IF n = 0 THEN {c} ELSE NameStep(up[n-1])
<1>1. \A t \in SUBSET Classes : NameStep(t) \in SUBSET Classes
  BY NamedFinite DEF NameStep
<1>2. step \in [SUBSET Classes -> SUBSET Classes]
  BY <1>1
<1>3. PICK f \in [Nat -> SUBSET Classes] : f[0] = {c} /\ \A n \in Nat : f[n + 1] = step[f[n]]
  BY <1>2, UpStepExists
<1>4. ASSUME NEW n \in Nat PROVE f[n + 1] = NameStep(f[n])
  BY <1>3
<1>5. f = [n \in Nat |-> IF n = 0 THEN {c} ELSE NameStep(f[n-1])]
  <2>1. ASSUME NEW n \in Nat, n # 0 PROVE f[n] = NameStep(f[n-1])
    <3>1. n - 1 \in Nat /\ (n - 1) + 1 = n
      BY <2>1
    <3> QED BY <1>4, <3>1
  <2> QED BY <1>3, <2>1
<1>6. up = [n \in Nat |-> IF n = 0 THEN {c} ELSE NameStep(up[n-1])]
  BY <1>5
<1>7. NameAncestors(c) = up[Cardinality(Classes)]
  BY DEF NameAncestors, NameStep
<1> HIDE DEF up
<1>8. ASSUME NEW n \in Nat PROVE up[n + 1] = NameStep(up[n])
  <2>1. n + 1 \in Nat /\ n + 1 # 0 /\ (n + 1) - 1 = n
    OBVIOUS
  <2> QED BY <1>6, <2>1
<1>9. up \in [Nat -> SUBSET Classes]
  <2> DEFINE T == {n \in Nat : up[n] \in SUBSET Classes}
  <2>1. 0 \in T
    BY <1>6
  <2>2. ASSUME NEW n \in T PROVE n + 1 \in T
    BY <1>1, <1>8
  <2> HIDE DEF T
  <2>3. T = Nat
    BY <2>1, <2>2, AllNumbers DEF T
  <2> QED BY <1>6, <2>3 DEF T
<1> QED BY <1>6, <1>7, <1>8, <1>9

\* What holds of c and, with a class, of those its supertypes' names are the names
\* of holds of the ancestors of c by name.
LEMMA AncestorsWithin ==
    ASSUME IndexTyped, NEW c \in Classes, NEW s, c \in s,
           \A d \in s \cap Classes : \A n \in ToSet(Decl(d).supers) : ClassesNamed(n) \subseteq s
    PROVE  NameAncestors(c) \in SUBSET Classes /\ NameAncestors(c) \subseteq s
<1>1. PICK up \in [Nat -> SUBSET Classes] :
         /\ up[0] = {c} /\ \A n \in Nat : up[n + 1] = NameStep(up[n])
         /\ NameAncestors(c) = up[Cardinality(Classes)]
  BY AncestorChain
<1> DEFINE T == {n \in Nat : up[n] \subseteq s}
<1>2. 0 \in T
  BY <1>1
<1>3. ASSUME NEW n \in T PROVE n + 1 \in T
  BY <1>1 DEF NameStep
<1> HIDE DEF T
<1>4. T = Nat
  BY <1>2, <1>3, AllNumbers DEF T
<1>5. Cardinality(Classes) \in T /\ Cardinality(Classes) \in Nat
  BY <1>4, CallAssumption, FS_CardinalityType
<1> QED BY <1>1, <1>5 DEF T

\* The ancestors by name are above the class, where supertypes' names are known.
LEMMA AncestorsAbove ==
    ASSUME IndexTyped, SupersAreKnown, NEW c \in Classes
    PROVE  NameAncestors(c) \subseteq Upwards(c, {})
<1> DEFINE s == Upwards(c, {})
<1>1. c \in s /\ \A x \in s, y \in Classes : Extends(x, y) => y \in s
  BY UpwardsGrow
<1>2. ASSUME NEW d \in s \cap Classes, NEW n \in ToSet(Decl(d).supers), NEW x \in ClassesNamed(n)
      PROVE  x \in s
  <2>1. x \in ToSet(Supertypes(d)) /\ x \in Classes
    BY <1>2, SupertypesRight, NamedFinite
  <2>2. Extends(d, x)
    BY <2>1, SupertypesRight, CallAssumption
  <2> QED BY <1>1, <2>1, <2>2
<1> HIDE DEF s
<1>3. NameAncestors(c) \subseteq s
  BY <1>1, <1>2, AncestorsWithin
<1> QED BY <1>3 DEF s

\* A walk that has found nothing leaves nothing to find among the ancestors by name.
LEMMA NoneAbove ==
    ASSUME IndexTyped, SupersAreKnown, NEW declaring \in SUBSET Classes, NEW c \in Classes,
           ToSet(Nearest(c, declaring)) = {}
    PROVE  NameAncestors(c) \cap declaring = {}
<1>1. PICK s \in SUBSET Classes :
         /\ c \in s /\ s \cap declaring = {}
         /\ \A x \in s \ declaring : ToSet(Supertypes(x)) \subseteq Maybe(s)
  BY NearestSees
<1>2. ASSUME NEW d \in s \cap Classes, NEW n \in ToSet(Decl(d).supers), NEW x \in ClassesNamed(n)
      PROVE  x \in s
  <2>1. x \in ToSet(Supertypes(d)) /\ x \in Classes
    BY <1>2, SupertypesRight, NamedFinite
  <2> QED BY <1>1, <2>1, CallAssumption DEF Maybe
<1>3. NameAncestors(c) \subseteq s
  BY <1>1, <1>2, AncestorsWithin
<1> QED BY <1>1, <1>3

\* Those that declare a member are classes.
LEMMA WithTyped ==
    ASSUME NEW m
    PROVE  WithMethod(m) \in SUBSET Classes /\ WithField(m) \in SUBSET Classes
  BY DEF WithMethod, WithField

\* The declarations a pinned class answers with are among those it inherits, and
\* of a program read as a whole they are those.
LEMMA HierarchyRight ==
    ASSUME IndexTyped, SupersAreKnown, NEW c \in Classes, NEW m
    PROVE  /\ InHierarchy(c, m) \subseteq {<<d, m>> : d \in Inherited(c, WithMethod(m))}
           /\ index = Classes => InHierarchy(c, m) = {<<d, m>> : d \in Inherited(c, WithMethod(m))}
<1> DEFINE D == WithMethod(m)
           hits == ToSet(Nearest(c, D))
<1>1. D \in SUBSET Classes
  BY WithTyped
<1>2. hits \subseteq Inherited(c, D) /\ (index = Classes => hits = Inherited(c, D))
  BY <1>1, NearestIsInherited
<1>3. hits = {} => NameAncestors(c) \cap D = {}
  BY <1>1, NoneAbove
<1>4. Inherited(c, D) \subseteq D
  BY DEF Inherited
<1> HIDE DEF D, hits
<1>5. InHierarchy(c, m) = MethodsNamed(m, IF hits # {} THEN hits ELSE NameAncestors(c))
  BY DEF InHierarchy, hits, D
<1>6. CASE hits # {}
  <2>1. InHierarchy(c, m) = {<<d, m>> : d \in index \cap hits \cap D}
    BY <1>5, <1>6 DEF MethodsNamed, D
  <2>2. index = Classes => index \cap hits \cap D = hits
    BY <1>1, <1>2, <1>4
  <2> QED BY <1>2, <2>1, <2>2 DEF D
<1>7. CASE hits = {}
  <2>1. InHierarchy(c, m) = {<<d, m>> : d \in index \cap NameAncestors(c) \cap D}
    BY <1>5, <1>7 DEF MethodsNamed, D
  <2>2. InHierarchy(c, m) = {}
    BY <1>3, <1>7, <2>1
  <2> QED BY <1>2, <1>7, <2>2 DEF D
<1> QED BY <1>6, <1>7

\* What a lookup of a member finds is the type of a declaration that is inherited.
LEMMA LookupRight ==
    ASSUME IndexTyped, SupersAreKnown, NEW c \in Classes, NEW m
    PROVE  /\ ReturnType(c, m) # Nothing =>
                 \E h \in Inherited(c, WithMethod(m)) : ReturnType(c, m) = Decl(h).methods[m]
           /\ FieldType(c, m) # Nothing =>
                 \E h \in Inherited(c, WithField(m)) : FieldType(c, m) = Decl(h).fields[m]
           /\ index = Classes /\ ReturnType(c, m) = Nothing => Inherited(c, WithMethod(m)) = {}
           /\ index = Classes /\ FieldType(c, m) = Nothing => Inherited(c, WithField(m)) = {}
<1>1. ASSUME NEW D \in SUBSET Classes
      PROVE  /\ Nearest(c, D) # <<>> => Head(Nearest(c, D)) \in Inherited(c, D)
             /\ index = Classes /\ Nearest(c, D) = <<>> => Inherited(c, D) = {}
  <2> DEFINE q == Nearest(c, D)
  <2>1. q \in Seq(Classes) /\ ToSet(q) \subseteq Inherited(c, D)
        /\ (index = Classes => ToSet(q) = Inherited(c, D))
    BY NearestSees, NearestIsInherited
  <2> HIDE DEF q
  <2>2. q # <<>> => Head(q) \in ToSet(q)
    <3>1. q # <<>> => 1 \in DOMAIN q /\ Head(q) = q[1]
      BY <2>1
    <3> QED BY <3>1 DEF ToSet
  <2>3. q = <<>> => ToSet(q) = {}
    BY DEF ToSet
  <2> QED BY <2>1, <2>2, <2>3 DEF q
<1>2. WithMethod(m) \in SUBSET Classes /\ WithField(m) \in SUBSET Classes
  BY WithTyped
<1>3. \A h \in Inherited(c, WithMethod(m)) : Decl(h).methods[m] # Nothing
  BY DEF Inherited, WithMethod
<1>4. \A h \in Inherited(c, WithField(m)) : Decl(h).fields[m] # Nothing
  BY DEF Inherited, WithField
<1>5. /\ Nearest(c, WithMethod(m)) # <<>> => Head(Nearest(c, WithMethod(m))) \in Inherited(c, WithMethod(m))
      /\ index = Classes /\ Nearest(c, WithMethod(m)) = <<>> => Inherited(c, WithMethod(m)) = {}
  BY <1>1, <1>2
<1>6. /\ Nearest(c, WithField(m)) # <<>> => Head(Nearest(c, WithField(m))) \in Inherited(c, WithField(m))
      /\ index = Classes /\ Nearest(c, WithField(m)) = <<>> => Inherited(c, WithField(m)) = {}
  BY <1>1, <1>2
<1>7. ReturnType(c, m) = IF Nearest(c, WithMethod(m)) = <<>> THEN Nothing
                         ELSE Decl(Head(Nearest(c, WithMethod(m)))).methods[m]
  BY DEF ReturnType
<1>8. FieldType(c, m) = IF Nearest(c, WithField(m)) = <<>> THEN Nothing
                        ELSE Decl(Head(Nearest(c, WithField(m)))).fields[m]
  BY DEF FieldType
<1> QED BY <1>3, <1>4, <1>5, <1>6, <1>7, <1>8

-----------------------------------------------------------------------------
(* Recursion over receivers.                                               *)
Heads == {e \in Exprs : e.on = Nothing}

\* The functions that are at a head what root says, and elsewhere what step makes of
\* the value below.
OnRecursions(S, root, step) ==
    {f \in [Exprs -> S] : \A e \in Exprs :
        f[e] = IF e.on = Nothing THEN root[e] ELSE step[e][f[e.on]]}

\* What a receiver is applied to is less deep.
LEMMA OnParent ==
    LET parent == [e \in Exprs \ Heads |-> e.on]
    IN  /\ parent \in [Exprs \ Heads -> Exprs] /\ Heads \in SUBSET Exprs
        /\ Depth \in [Exprs -> Nat] /\ \A e \in Exprs \ Heads : Depth[parent[e]] < Depth[e]
<1>1. ASSUME NEW e \in Exprs \ Heads PROVE e.on \in Exprs /\ Depth[e.on] < Depth[e]
  <2>1. e.on \in Exprs /\ Depth[e] = Depth[e.on] + 1
    BY CallAssumption DEF Heads
  <2>2. Depth[e.on] \in Nat
    BY <2>1, CallAssumption
  <2> QED BY <2>1, <2>2
<1> QED BY <1>1, CallAssumption DEF Heads

\* A function can be defined by recursion over receivers.
LEMMA OnRecursionExists ==
    ASSUME NEW S, NEW s \in S, NEW root \in [Heads -> S], NEW step \in [Exprs \ Heads -> [S -> S]]
    PROVE  OnRecursions(S, root, step) # {}
<1> DEFINE parent == [e \in Exprs \ Heads |-> e.on]
<1>1. /\ parent \in [Exprs \ Heads -> Exprs] /\ Heads \in SUBSET Exprs
      /\ Depth \in [Exprs -> Nat] /\ \A e \in Exprs \ Heads : Depth[parent[e]] < Depth[e]
  BY OnParent
<1>2. PICK f \in RankedRecursions(Exprs, S, Heads, root, parent, step) : TRUE
  <2> HIDE DEF parent
  <2>1. RankedRecursions(Exprs, S, Heads, root, parent, step) # {}
    BY <1>1, RankedRecursionExists
  <2> QED BY <2>1
<1>3. f \in OnRecursions(S, root, step)
  BY <1>2 DEF RankedRecursions, OnRecursions, Heads
<1> QED BY <1>3

\* What holds of a receiver when it holds of what that is applied to holds of all.
LEMMA OnInduction ==
    ASSUME NEW T, \A e \in Exprs : (e.on # Nothing => e.on \in T) => e \in T
    PROVE  Exprs \subseteq T
<1> DEFINE parent == [e \in Exprs \ Heads |-> e.on]
<1>1. Inherits(Exprs, T, Heads, parent, Depth)
  <2>1. \A e \in Exprs : (e \notin Heads => parent[e] \in T) => e \in T
    BY DEF Heads
  <2> QED BY <2>1, OnParent DEF Inherits
<1> QED BY <1>1, RankedInduction

\* A pinned class has the name, and the only class of a name is pinned.
LEMMA ClassOfTypeTyped ==
    ASSUME IndexTyped, NEW n, NEW imports \in BOOLEAN, NEW package \in BOOLEAN
    PROVE  /\ ClassOfType(n, imports, package) \in Maybe(Classes)
           /\ ClassOfType(n, imports, package) # Nothing => ClassOfType(n, imports, package) \in ClassesNamed(n)
           /\ \A d : ClassesNamed(n) = {d} => ClassOfType(n, imports, package) = d
<1> DEFINE named    == ClassesNamed(n)
           imported == {c \in named : imports /\ Decl(c).package = Decl(Caller).imports[n]}
           near     == {c \in named : package /\ Decl(c).package = Decl(Caller).package}
           it       == ClassOfType(n, imports, package)
<1>1. IsFiniteSet(named) /\ named \in SUBSET Classes
  BY NamedFinite
<1>2. imported \in SUBSET named /\ near \in SUBSET named
  OBVIOUS
<1>3. IsFiniteSet(imported) /\ IsFiniteSet(near)
  <2> HIDE DEF named, imported, near
  <2> QED BY <1>1, <1>2, FS_Subset
<1>4. \A S : S \in {named, imported, near} /\ Cardinality(S) = 1 => \E x : S = {x}
  <2> HIDE DEF named, imported, near
  <2> QED BY <1>1, <1>3, FS_Singleton
<1>5. it = CASE Cardinality(named) = 1    -> CHOOSE c \in named : TRUE
             [] Cardinality(named) # 1 /\ Cardinality(imported) = 1 -> CHOOSE c \in imported : TRUE
             [] Cardinality(named) # 1 /\ Cardinality(imported) # 1 /\ Cardinality(near) = 1
                                          -> CHOOSE c \in near : TRUE
             [] OTHER                     -> Nothing
  BY DEF ClassOfType
<1>6. \A d : named = {d} => Cardinality(named) = 1
  <2> HIDE DEF named
  <2> QED BY FS_Singleton
<1> HIDE DEF named, imported, near, it
<1>7. \/ it \in named \/ it \in imported \/ it \in near \/ it = Nothing
  <2>1. CASE Cardinality(named) = 1
    <3>1. it \in named
      BY <1>4, <1>5, <2>1
    <3> QED BY <3>1
  <2>2. CASE Cardinality(named) # 1 /\ Cardinality(imported) = 1
    <3>1. it \in imported
      BY <1>4, <1>5, <2>2
    <3> QED BY <3>1
  <2>3. CASE Cardinality(named) # 1 /\ Cardinality(imported) # 1 /\ Cardinality(near) = 1
    <3>1. it \in near
      BY <1>4, <1>5, <2>3
    <3> QED BY <3>1
  <2>4. CASE Cardinality(named) # 1 /\ Cardinality(imported) # 1 /\ Cardinality(near) # 1
    <3>1. it = Nothing
      BY <1>5, <2>4
    <3> QED BY <3>1
  <2> QED BY <2>1, <2>2, <2>3, <2>4
<1>8. it # Nothing => it \in named
  BY <1>2, <1>7
<1>9. \A d : named = {d} => it = d
  <2>1. ASSUME NEW d, named = {d} PROVE it = d
    <3>1. it = CHOOSE c \in named : TRUE
      BY <1>5, <1>6, <2>1
    <3> QED BY <2>1, <3>1
  <2> QED BY <2>1
<1> QED BY <1>1, <1>8, <1>9 DEF named, it, Maybe

\* The reference and the inference make classes of classes.
LEMMA StaticTyped ==
    ASSUME IndexTyped
    PROVE  /\ \A c, n : Means(c, n) \in SUBSET Classes
           /\ \A c, m : FieldOf(c, m) \in SUBSET Classes /\ ReturnOf(c, m) \in SUBSET Classes
           /\ \A e : \A bases \in SUBSET Classes : TypesOn(bases, e) \in SUBSET Classes
           /\ \A x, e : \A imports \in BOOLEAN : ClassOn(x, e, imports) \in Maybe(Classes)
<1>1. \A c, n : Means(c, n) \in SUBSET Classes
  BY DEF Means
<1>2. \A c, m : FieldOf(c, m) \in SUBSET Classes /\ ReturnOf(c, m) \in SUBSET Classes
  BY <1>1 DEF FieldOf, ReturnOf
<1>3. Caller \in Classes
  BY CallAssumption DEF IndexTyped, Caller
<1>4. ASSUME NEW bases \in SUBSET Classes, NEW e PROVE TypesOn(bases, e) \in SUBSET Classes
  <2>1. UNION {ReturnOf(c, e.name) : c \in bases} \in SUBSET Classes
        /\ UNION {FieldOf(c, e.name) : c \in bases} \in SUBSET Classes
    BY <1>2
  <2>2. {d \in Classes : Extends(Caller, d)} \in SUBSET Classes
    OBVIOUS
  <2> QED BY <1>1, <1>2, <1>3, <2>1, <2>2 DEF TypesOn
<1>5. ASSUME NEW x, NEW e, NEW imports \in BOOLEAN PROVE ClassOn(x, e, imports) \in Maybe(Classes)
  BY <1>3, ClassOfTypeTyped DEF ClassOn, Maybe
<1> QED BY <1>1, <1>2, <1>4, <1>5

\* Root unfolds.
LEMMA RootIs ==
    ASSUME NEW e \in Exprs
    PROVE  Root(e) = IF e.on = Nothing THEN e ELSE Root(e.on)
<1> DEFINE S == Exprs
           head == [x \in Heads |-> x]
           step == [x \in Exprs \ Heads |-> [r \in S |-> r]]
           root[x \in Exprs] == IF x.on = Nothing THEN x ELSE root[x.on]
<1>1. e \in S /\ head \in [Heads -> S] /\ step \in [Exprs \ Heads -> [S -> S]]
  BY DEF Heads
<1>2. PICK f \in OnRecursions(S, head, step) : TRUE
  <2> HIDE DEF S, head, step
  <2> QED BY <1>1, OnRecursionExists
<1>3. ASSUME NEW x \in Exprs
      PROVE  f[x] = IF x.on = Nothing THEN x ELSE f[x.on]
  <2>1. f \in [Exprs -> S] /\ f[x] = IF x.on = Nothing THEN head[x] ELSE step[x][f[x.on]]
    BY <1>2 DEF OnRecursions
  <2>2. CASE x.on = Nothing
    BY <2>1, <2>2 DEF Heads
  <2>3. CASE x.on # Nothing
    <3>1. x \in Exprs \ Heads /\ x.on \in Exprs /\ f[x.on] \in S
      BY <2>1, <2>3, CallAssumption DEF Heads
    <3> QED BY <2>1, <2>3, <3>1
  <2> QED BY <2>2, <2>3
<1>4. f \in [Exprs -> S]
  BY <1>2 DEF OnRecursions
<1>5. f = [x \in Exprs |-> IF x.on = Nothing THEN x ELSE f[x.on]]
  BY <1>3, <1>4
<1>6. root = [x \in Exprs |-> IF x.on = Nothing THEN x ELSE root[x.on]]
  BY <1>5
<1>7. \A x : Root(x) = root[x]
  BY DEF Root
<1> HIDE DEF root
<1> QED BY <1>6, <1>7

\* A chain that begins with `new` is more than the creation, and none begins with
\* `super`.
Followed(e) == Root(e).shape # "super" /\ (Root(e).shape = "new" => e.on = Nothing)

\* What is followed is followed from its beginning.
LEMMA FollowedOn ==
    ASSUME NEW e \in Exprs
    PROVE  /\ e.on # Nothing /\ Followed(e) =>
                 e.on \in Exprs /\ Followed(e.on) /\ Root(e).shape # "new" /\ Root(e.on).shape # "new"
           /\ e.on = Nothing => Root(e) = e /\ ~ (Depth[e] > MaxDepth)
<1>1. ASSUME e.on # Nothing, Followed(e)
      PROVE  e.on \in Exprs /\ Followed(e.on) /\ Root(e).shape # "new" /\ Root(e.on).shape # "new"
  <2>1. e.on \in Exprs
    BY <1>1, CallAssumption
  <2>2. Root(e) = Root(e.on)
    BY <1>1, RootIs
  <2> QED BY <1>1, <2>1, <2>2 DEF Followed
<1>2. ASSUME e.on = Nothing PROVE Root(e) = e /\ ~ (Depth[e] > MaxDepth)
  <2>1. Depth[e] = 0
    <3>1. Nothing \notin Exprs
      BY CallAssumption
    <3> QED BY <1>2, <3>1, CallAssumption
  <2> QED BY <1>2, <2>1, RootIs, CallAssumption
<1> QED BY <1>1, <1>2

\* A receiver that is followed is a name only of what it begins with.
LEMMA RootOf ==
    ASSUME NEW k \in Calls, Rooted(k), k.receiver # Nothing
    PROVE  k.receiver \in Exprs /\ Followed(k.receiver)
<1>1. k.receiver \in Exprs
  BY CallAssumption DEF Call, Maybe
<1>2. ASSUME k.receiver.on # Nothing, Root(k.receiver) = k.receiver PROVE Root(k.receiver).shape # "new"
  <2>1. k.receiver.shape \in {"call", "field"}
    BY <1>1, <1>2, CallAssumption
  <2> QED BY <1>2, <2>1
<1> QED BY <1>1, <1>2 DEF Rooted, Followed

\* f infers the class of every receiver, however long.
Infers(f, imports) ==
    /\ f \in [Exprs -> Maybe(Classes)]
    /\ \A e \in Exprs : f[e] = ClassOn(IF e.on = Nothing THEN Caller ELSE f[e.on], e, imports)

\* InferredClass follows such a function, up to its depth, unless a chain begins
\* with `new`.
LEMMA InferenceExists ==
    ASSUME IndexTyped, NEW imports \in BOOLEAN
    PROVE  \E f : /\ Infers(f, imports)
                  /\ \A e \in Exprs : Followed(e) =>
                        InferredClass(e, imports) = IF Depth[e] > MaxDepth THEN Nothing ELSE f[e]
<1> DEFINE S == Maybe(Classes)
           root == [e \in Heads |-> ClassOn(Caller, e, imports)]
           step == [e \in Exprs \ Heads |-> [x \in S |-> ClassOn(x, e, imports)]]
           infer[e \in Exprs] == ClassOn(IF e.on = Nothing THEN Caller ELSE infer[e.on], e, imports)
           s == Nothing
<1>1. s \in S /\ root \in [Heads -> S] /\ step \in [Exprs \ Heads -> [S -> S]]
  BY StaticTyped DEF Maybe
<1>2. PICK f \in OnRecursions(S, root, step) : TRUE
  <2> HIDE DEF S, root, step, s
  <2>1. OnRecursions(S, root, step) # {}
    BY <1>1, OnRecursionExists
  <2> QED BY <2>1
<1>3. ASSUME NEW e \in Exprs
      PROVE  f[e] = ClassOn(IF e.on = Nothing THEN Caller ELSE f[e.on], e, imports)
  <2>1. f \in [Exprs -> S] /\ f[e] = IF e.on = Nothing THEN root[e] ELSE step[e][f[e.on]]
    BY <1>2 DEF OnRecursions
  <2>2. CASE e.on = Nothing
    BY <2>1, <2>2 DEF Heads
  <2>3. CASE e.on # Nothing
    <3>1. e \in Exprs \ Heads /\ e.on \in Exprs /\ f[e.on] \in S
      BY <2>1, <2>3, CallAssumption DEF Heads
    <3> QED BY <2>1, <2>3, <3>1
  <2> QED BY <2>2, <2>3
<1>4. f \in [Exprs -> S]
  BY <1>2 DEF OnRecursions
<1>5. f = [e \in Exprs |-> ClassOn(IF e.on = Nothing THEN Caller ELSE f[e.on], e, imports)]
  BY <1>3, <1>4
<1>6. infer = [e \in Exprs |-> ClassOn(IF e.on = Nothing THEN Caller ELSE infer[e.on], e, imports)]
  BY <1>5
<1>7. \A e : InferredClass(e, imports) =
               IF Root(e).shape = "new" THEN ClassOfType(Root(e).name, imports, TRUE)
               ELSE IF Depth[e] > MaxDepth THEN Nothing ELSE infer[e]
  BY DEF InferredClass
<1> HIDE DEF infer
<1> DEFINE T == {e \in Exprs : infer[e] = f[e]}
<1>8. \A e \in Exprs : (e.on # Nothing => e.on \in T) => e \in T
  BY <1>3, <1>6
<1> HIDE DEF T
<1>9. Exprs \subseteq T
  BY <1>8, OnInduction
<1>10. \A e \in Exprs : infer[e] = f[e]
  BY <1>9 DEF T
<1>11. Infers(f, imports)
  BY <1>3, <1>4 DEF Infers
<1>12. ASSUME NEW e \in Exprs, Followed(e)
       PROVE  InferredClass(e, imports) = IF Depth[e] > MaxDepth THEN Nothing ELSE f[e]
  <2>1. CASE Root(e).shape # "new"
    BY <1>7, <1>10, <2>1
  <2>2. CASE Root(e).shape = "new"
    <3>1. e.on = Nothing /\ Root(e) = e /\ ~ (Depth[e] > MaxDepth)
      BY <1>12, <2>2, FollowedOn DEF Followed
    <3>2. InferredClass(e, imports) = ClassOfType(e.name, imports, TRUE)
      BY <1>7, <2>2, <3>1
    <3>3. f[e] = ClassOfType(e.name, imports, TRUE)
      BY <1>3, <2>2, <3>1 DEF ClassOn, TypeOn
    <3> QED BY <3>1, <3>2, <3>3
  <2> QED BY <2>1, <2>2
<1> QED BY <1>11, <1>12

\* StaticType unfolds.
LEMMA StaticTypeIs ==
    ASSUME IndexTyped, NEW e \in Exprs
    PROVE  /\ StaticType(e) \in SUBSET Classes
           /\ StaticType(e) = TypesOn(IF e.on = Nothing THEN {Caller} ELSE StaticType(e.on), e)
<1> DEFINE S == SUBSET Classes
           root == [x \in Heads |-> TypesOn({Caller}, x)]
           step == [x \in Exprs \ Heads |-> [b \in S |-> TypesOn(b, x)]]
           type[x \in Exprs] == TypesOn(IF x.on = Nothing THEN {Caller} ELSE type[x.on], x)
           s == {}
<1>0. {Caller} \in SUBSET Classes
  BY CallAssumption DEF IndexTyped, Caller
<1>1. s \in S /\ root \in [Heads -> S] /\ step \in [Exprs \ Heads -> [S -> S]]
  BY <1>0, StaticTyped
<1>2. PICK f \in OnRecursions(S, root, step) : TRUE
  <2> HIDE DEF S, root, step, s
  <2>1. OnRecursions(S, root, step) # {}
    BY <1>1, OnRecursionExists
  <2> QED BY <2>1
<1>3. ASSUME NEW x \in Exprs
      PROVE  f[x] = TypesOn(IF x.on = Nothing THEN {Caller} ELSE f[x.on], x)
  <2>1. f \in [Exprs -> S] /\ f[x] = IF x.on = Nothing THEN root[x] ELSE step[x][f[x.on]]
    BY <1>2 DEF OnRecursions
  <2>2. CASE x.on = Nothing
    BY <2>1, <2>2 DEF Heads
  <2>3. CASE x.on # Nothing
    <3>1. x \in Exprs \ Heads /\ x.on \in Exprs /\ f[x.on] \in S
      BY <2>1, <2>3, CallAssumption DEF Heads
    <3> QED BY <2>1, <2>3, <3>1
  <2> QED BY <2>2, <2>3
<1>4. f \in [Exprs -> S]
  BY <1>2 DEF OnRecursions
<1>5. f = [x \in Exprs |-> TypesOn(IF x.on = Nothing THEN {Caller} ELSE f[x.on], x)]
  BY <1>3, <1>4
<1>6. type = [x \in Exprs |-> TypesOn(IF x.on = Nothing THEN {Caller} ELSE type[x.on], x)]
  BY <1>5
<1>7. \A x : StaticType(x) = type[x]
  BY DEF StaticType
<1> HIDE DEF type
<1> DEFINE T == {x \in Exprs : type[x] \in S}
<1>8. \A x \in Exprs : (x.on # Nothing => x.on \in T) => x \in T
  BY <1>0, <1>6, StaticTyped
<1> HIDE DEF T
<1>9. Exprs \subseteq T
  BY <1>8, OnInduction
<1>10. StaticType(e) \in SUBSET Classes
  BY <1>7, <1>9 DEF T
<1> QED BY <1>6, <1>7, <1>10

\* Where simple names are unique, a name a file mentions is that of the class it
\* means or of none.
LEMMA MentionedMeans ==
    ASSUME IndexTyped, OneClassPerName, NEW c \in Classes, NEW n \in MentionedIn(c)
    PROVE  /\ ClassesNamed(n) \subseteq Means(c, n)
           /\ \A d \in ClassesNamed(n) : ClassesNamed(n) = {d} /\ Means(c, n) = {d}
<1>1. \A d \in ClassesNamed(n) : d \in Classes /\ Decl(d).name = n
  BY DEF ClassesNamed, IndexTyped
<1>2. \A d \in ClassesNamed(n) : Means(c, n) = {d}
  BY <1>1 DEF OneClassPerName
<1> QED BY <1>2

\* A pinned class is the one its name means to the file that mentions it.
LEMMA PinnedMeans ==
    ASSUME IndexTyped, OneClassPerName, NEW c \in Classes, NEW n \in MentionedIn(c),
           NEW imports \in BOOLEAN, NEW package \in BOOLEAN
    PROVE  /\ ClassOfType(n, imports, package) # Nothing => ClassOfType(n, imports, package) \in Means(c, n)
           /\ ClassOfType(n, imports, package) = Nothing => ClassesNamed(n) = {}
<1> DEFINE it == ClassOfType(n, imports, package)
           named == ClassesNamed(n)
<1>1. it # Nothing => it \in named
  BY ClassOfTypeTyped
<1>2. \A d : named = {d} => it = d
  BY ClassOfTypeTyped
<1>3. named \in SUBSET Classes
  BY NamedFinite
<1> HIDE DEF it
<1>4. it # Nothing => it \in Means(c, n)
  BY <1>1, MentionedMeans
<1>5. \A d \in named : named = {d}
  BY MentionedMeans
<1> HIDE DEF named
<1>6. \A d \in named : it = d /\ d # Nothing
  BY <1>2, <1>3, <1>5, CallAssumption
<1> QED BY <1>3, <1>4, <1>6 DEF it, named

\* None is the name of no class, and where simple names are unique neither is the
\* name of a variable.
LEMMA NotAClass ==
    ASSUME IndexTyped, NEW n, NEW imports \in BOOLEAN, NEW package \in BOOLEAN,
           n = Nothing \/ (OneClassPerName /\ n \in Vars)
    PROVE  ClassesNamed(n) = {} /\ ClassOfType(n, imports, package) = Nothing
<1>1. \A d \in Classes : Decl(d).name # n
  <2>1. \A d \in Classes : Decl(d).name \in Names
    BY DeclTyped DEF ClassDecl
  <2> QED BY <2>1, CallAssumption DEF OneClassPerName
<1>2. ClassesNamed(n) = {}
  BY <1>1 DEF ClassesNamed, IndexTyped
<1> QED BY <1>2, ClassOfTypeTyped

\* A file mentions the names of its supertypes.
LEMMA SupersKnown == ASSUME OneClassPerName PROVE SupersAreKnown
<1>1. \A c \in Classes : ToSet(Decl(c).supers) \subseteq MentionedIn(c)
  BY DEF MentionedIn
<1> QED BY <1>1 DEF OneClassPerName, SupersAreKnown

\* The names the file of the caller mentions.
LEMMA CallerMentions ==
    /\ \A v \in Vars : program.vars[v] \in MentionedIn(Caller)
    /\ \A e \in Exprs : e.shape \in {"new", "cast", "name"} => e.name \in MentionedIn(Caller)
    /\ \A k \in Calls : k.kind = "creation" => k.callee \in MentionedIn(Caller)
  BY DEF MentionedIn

\* A file mentions the types of its members.
LEMMA MembersMentioned ==
    ASSUME NEW c
    PROVE  /\ \A m \in Methods : Decl(c).methods[m] # Nothing => Decl(c).methods[m] \in MentionedIn(c)
           /\ \A v \in Vars : Decl(c).fields[v] # Nothing => Decl(c).fields[v] \in MentionedIn(c)
<1>1. MemberTypes(c) \subseteq MentionedIn(c)
  BY DEF MentionedIn
<1>2. \A m \in Methods : Decl(c).methods[m] # Nothing => Decl(c).methods[m] \in MemberTypes(c)
  BY DEF MemberTypes
<1>3. \A v \in Vars : Decl(c).fields[v] # Nothing => Decl(c).fields[v] \in MemberTypes(c)
  BY DEF MemberTypes
<1> QED BY <1>1, <1>2, <1>3

\* The class of an inherited declaration's type name is the member's type.
LEMMA MemberMeans ==
    ASSUME IndexTyped, OneClassPerName, NEW c \in Classes, NEW m
    PROVE  /\ \A h \in Inherited(c, WithMethod(m)) :
                 /\ Decl(h).methods[m] \in MentionedIn(h) /\ h \in Classes
                 /\ Means(h, Decl(h).methods[m]) \subseteq ReturnOf(c, m)
           /\ \A h \in Inherited(c, WithField(m)) :
                 /\ Decl(h).fields[m] \in MentionedIn(h) /\ h \in Classes
                 /\ Means(h, Decl(h).fields[m]) \subseteq FieldOf(c, m)
<1>1. \A h \in Inherited(c, WithMethod(m)) : h \in Classes /\ m \in Methods /\ Decl(h).methods[m] # Nothing
  BY DEF Inherited, WithMethod
<1>2. \A h \in Inherited(c, WithField(m)) : h \in Classes /\ m \in Vars /\ Decl(h).fields[m] # Nothing
  BY DEF Inherited, WithField
<1> QED BY <1>1, <1>2, MembersMentioned DEF ReturnOf, FieldOf

\* A variable's or own field's declared type.
LEMMA DeclaredMeans ==
    ASSUME IndexTyped, OneClassPerName, NEW e \in Exprs, e.shape = "name", DeclaredType(e.name) # Nothing,
           NEW bases
    PROVE  /\ DeclaredType(e.name) \in MentionedIn(Caller)
           /\ Means(Caller, DeclaredType(e.name)) \subseteq TypesOn(bases, e)
<1> DEFINE v == e.name
<1>1. v \in Vars /\ Caller \in Classes
  BY DeclTyped, CallAssumption DEF DeclaredType, IndexTyped, Caller
<1>2. TypesOn(bases, e) = IF program.vars[v] # Nothing THEN Means(Caller, program.vars[v]) ELSE FieldOf(Caller, v)
  BY <1>1 DEF TypesOn
<1>3. CASE program.vars[v] # Nothing
  BY <1>1, <1>2, <1>3, CallerMentions DEF DeclaredType
<1>4. CASE program.vars[v] = Nothing
  <2>1. DeclaredType(v) = Decl(Caller).fields[v]
    BY <1>1, <1>4 DEF DeclaredType
  <2>2. Caller \in Inherited(Caller, WithField(v))
    BY <1>1, <2>1, UpwardsGrow DEF Inherited, WithField
  <2> QED BY <1>1, <1>2, <1>4, <2>1, <2>2, MemberMeans
<1> QED BY <1>3, <1>4

\* What Java makes of a receiver of each shape.
LEMMA TypesOnShape ==
    ASSUME NEW bases, NEW e
    PROVE  /\ e.shape = "this" => TypesOn(bases, e) = {Caller}
           /\ e.shape \in {"new", "cast"} => TypesOn(bases, e) = Means(Caller, e.name)
           /\ e.shape = "name" /\ e.name \notin Vars => TypesOn(bases, e) = Means(Caller, e.name)
           /\ e.shape = "call" => TypesOn(bases, e) = UNION {ReturnOf(c, e.name) : c \in bases}
           /\ e.shape = "field" => TypesOn(bases, e) = UNION {FieldOf(c, e.name) : c \in bases}
  BY DEF TypesOn

\* One step of the inference is right when the class it starts from is.
LEMMA StepRight ==
    ASSUME IndexTyped, OneClassPerName, NEW e \in Exprs, e.shape # "super",
           NEW base \in Maybe(Classes), NEW bases \in SUBSET Classes, base # Nothing => base \in bases,
           NEW imports \in BOOLEAN, ClassOn(base, e, imports) # Nothing
    PROVE  ClassOn(base, e, imports) \in TypesOn(bases, e)
<1> DEFINE n == TypeOn(base, e)
           it == ClassOn(base, e, imports)
<1>0. Caller \in Classes /\ SupersAreKnown
  BY DeclTyped, SupersKnown, CallAssumption DEF IndexTyped, Caller
<1>1. CASE e.shape = "this"
  BY <1>1, TypesOnShape DEF ClassOn
<1>2. CASE e.shape # "this"
  <2>1. it = ClassOfType(n, imports, TRUE) /\ it # Nothing
    BY <1>2 DEF ClassOn
  <2>2. n # Nothing /\ n \notin Vars
    BY <2>1, NotAClass
  <2>3. ASSUME NEW c \in Classes, n \in MentionedIn(c) PROVE it \in Means(c, n)
    BY <2>1, <2>3, PinnedMeans
  <2> HIDE DEF it
  <2>4. CASE e.shape \in {"new", "cast"}
    <3>1. n = e.name /\ n \in MentionedIn(Caller)
      BY <2>4, CallerMentions DEF TypeOn
    <3> QED BY <1>0, <2>3, <2>4, <3>1, TypesOnShape DEF it
  <2>5. CASE e.shape = "name"
    <3>1. n = IF DeclaredType(e.name) # Nothing THEN DeclaredType(e.name) ELSE e.name
      BY <2>5 DEF TypeOn
    <3>2. CASE DeclaredType(e.name) # Nothing
      <4>1. n = DeclaredType(e.name)
        BY <3>1, <3>2
      <4> HIDE DEF n
      <4>2. n \in MentionedIn(Caller) /\ Means(Caller, n) \subseteq TypesOn(bases, e)
        BY <2>5, <3>2, <4>1, DeclaredMeans
      <4> QED BY <1>0, <2>3, <4>2 DEF it
    <3>3. CASE DeclaredType(e.name) = Nothing
      <4>1. n = e.name /\ n \in MentionedIn(Caller)
        BY <2>5, <3>1, <3>3, CallerMentions
      <4> QED BY <1>0, <2>2, <2>3, <2>5, <4>1, TypesOnShape DEF it
    <3> QED BY <3>2, <3>3
  <2>6. CASE e.shape = "call"
    <3>1. base # Nothing
      BY <2>2, <2>6 DEF TypeOn
    <3>2. n = ReturnType(base, e.name) /\ base \in bases /\ base \in Classes
      BY <2>6, <3>1 DEF TypeOn, Maybe
    <3> HIDE DEF n
    <3>3. PICK h \in Inherited(base, WithMethod(e.name)) : n = Decl(h).methods[e.name]
      BY <1>0, <2>2, <3>2, LookupRight
    <3>4. it \in ReturnOf(base, e.name)
      BY <2>3, <3>2, <3>3, MemberMeans
    <3> QED BY <2>6, <3>2, <3>4, TypesOnShape DEF it
  <2>7. CASE e.shape = "field"
    <3>1. base # Nothing
      BY <2>2, <2>7 DEF TypeOn
    <3>2. n = FieldType(base, e.name) /\ base \in bases /\ base \in Classes
      BY <2>7, <3>1 DEF TypeOn, Maybe
    <3> HIDE DEF n
    <3>3. PICK h \in Inherited(base, WithField(e.name)) : n = Decl(h).fields[e.name]
      BY <1>0, <2>2, <3>2, LookupRight
    <3>4. it \in FieldOf(base, e.name)
      BY <2>3, <3>2, <3>3, MemberMeans
    <3> QED BY <2>7, <3>2, <3>4, TypesOnShape DEF it
  <2>8. e.shape \in {"new", "cast", "name", "call", "field"}
    BY <2>2 DEF TypeOn
  <2> QED BY <2>4, <2>5, <2>6, <2>7, <2>8
<1> QED BY <1>1, <1>2

\* An inferred class is the static type, unless the receiver begins with `super` or
\* is a chain that begins with `new`.
LEMMA InferenceRight ==
    ASSUME IndexTyped, OneClassPerName, NEW imports \in BOOLEAN, NEW e \in Exprs,
           Followed(e), InferredClass(e, imports) # Nothing
    PROVE  InferredClass(e, imports) \in StaticType(e) /\ InferredClass(e, imports) \in Classes
<1>1. PICK f : /\ Infers(f, imports)
               /\ \A x \in Exprs : Followed(x) =>
                     InferredClass(x, imports) = IF Depth[x] > MaxDepth THEN Nothing ELSE f[x]
  BY InferenceExists
<1> DEFINE T == {x \in Exprs : Root(x).shape # "super" /\ f[x] # Nothing => f[x] \in StaticType(x)}
<1>2. ASSUME NEW x \in Exprs, x.on # Nothing => x.on \in T PROVE x \in T
  <2> SUFFICES ASSUME Root(x).shape # "super", f[x] # Nothing PROVE f[x] \in StaticType(x)
    OBVIOUS
  <2> DEFINE base == IF x.on = Nothing THEN Caller ELSE f[x.on]
             bases == IF x.on = Nothing THEN {Caller} ELSE StaticType(x.on)
  <2>1. f[x] = ClassOn(base, x, imports)
    BY <1>1 DEF Infers
  <2>2. StaticType(x) = TypesOn(bases, x)
    BY StaticTypeIs
  <2>3. Caller \in Classes
    BY CallAssumption DEF IndexTyped, Caller
  <2>4. x.on # Nothing => x.on \in Exprs /\ x.shape \in {"call", "field"}
    BY CallAssumption
  <2>5. base \in Maybe(Classes)
    BY <1>1, <2>3, <2>4 DEF Infers, Maybe
  <2>6. bases \in SUBSET Classes
    BY <2>3, <2>4, StaticTypeIs
  <2>7. base # Nothing => base \in bases
    BY <1>2, <2>4, RootIs
  <2>8. x.shape # "super"
    BY <2>4, RootIs
  <2> HIDE DEF base, bases
  <2> QED BY <2>1, <2>2, <2>5, <2>6, <2>7, <2>8, StepRight
<1> HIDE DEF T
<1>3. e \in T
  BY <1>2, OnInduction
<1>4. f[e] \in StaticType(e) /\ InferredClass(e, imports) = f[e]
  BY <1>1, <1>3 DEF T, Followed
<1> QED BY <1>4, StaticTypeIs

\* The classes of what a receiver is applied to.
Bases(e) == IF e.on = Nothing THEN {Caller} ELSE StaticType(e.on)

\* A class inferred there is one of them.
LEMMA BaseRight ==
    ASSUME IndexTyped, OneClassPerName, NEW e \in Exprs, Followed(e), NEW imports \in BOOLEAN,
           NEW base, base = IF e.on = Nothing THEN Caller ELSE InferredClass(e.on, imports),
           base # Nothing
    PROVE  base \in Bases(e) /\ base \in Classes
<1>1. CASE e.on = Nothing
  BY <1>1, CallAssumption DEF Bases, IndexTyped, Caller
<1>2. CASE e.on # Nothing
  <2>1. e.on \in Exprs /\ Followed(e.on)
    BY <1>2, FollowedOn
  <2> QED BY <1>2, <2>1, InferenceRight DEF Bases
<1> QED BY <1>1, <1>2

\* What every method of the name that was read returns.
LEMMA GlobalIsReturned ==
    ASSUME IndexTyped, NEW m, GlobalReturnType(m) # Nothing, NEW h \in index \cap WithMethod(m)
    PROVE  GlobalReturnType(m) = Decl(h).methods[m]
<1> DEFINE R == index \cap WithMethod(m)
           S == {Decl(c).methods[m] : c \in R}
<1>1. IsFiniteSet(R)
  BY CallAssumption, FS_Subset DEF IndexTyped
<1>2. IsFiniteSet(S)
  <2> DEFINE f == [c \in R |-> Decl(c).methods[m]]
  <2>1. f \in Surjection(R, S)
    BY DEF Surjection
  <2> HIDE DEF f, R, S
  <2> QED BY <1>1, <2>1, FS_Surjection
<1>3. Decl(h).methods[m] \in S
  OBVIOUS
<1>4. GlobalReturnType(m) = OneOf(S)
  BY DEF GlobalReturnType
<1> HIDE DEF S
<1> QED BY <1>2, <1>3, <1>4, OneOfOne

\* The name of a receiver's type, by its shape.
LEMMA ReceiverTypeIs ==
    ASSUME NEW e \in Exprs, Followed(e),
           NEW base, base = IF e.on = Nothing THEN Caller ELSE InferredClass(e.on, FALSE),
           NEW returned, returned = IF base = Nothing THEN Nothing ELSE ReturnType(base, e.name)
    PROVE  ReceiverTypeName(e) =
              CASE e.shape \in {"new", "cast"} -> e.name
                [] e.shape = "name"  -> DeclaredType(e.name)
                [] e.shape = "call"  -> IF returned # Nothing THEN returned ELSE GlobalReturnType(e.name)
                [] e.shape = "field" -> IF base = Nothing THEN Nothing ELSE FieldType(base, e.name)
                [] OTHER             -> Nothing
<1>1. ReceiverTypeName(e) =
         CASE Root(e).shape = "new" -> Root(e).name
           [] e.shape = "cast"  -> e.name
           [] e.shape = "name"  -> DeclaredType(e.name)
           [] e.shape = "call" /\ Root(e).shape # "new" ->
                 IF returned # Nothing THEN returned ELSE GlobalReturnType(e.name)
           [] e.shape = "field" /\ Root(e).shape # "new" ->
                 IF base = Nothing THEN Nothing ELSE FieldType(base, e.name)
           [] OTHER -> Nothing
  BY DEF ReceiverTypeName
<1>2. CASE Root(e).shape = "new"
  <2>1. Root(e) = e /\ e.shape = "new"
    BY <1>2, FollowedOn DEF Followed
  <2> QED BY <1>1, <2>1
<1>3. CASE Root(e).shape # "new"
  <2>1. e.shape # "new"
    <3>1. e.on # Nothing => e.shape \in {"call", "field"}
      BY CallAssumption
    <3>2. e.on = Nothing => Root(e) = e
      BY FollowedOn
    <3> QED BY <1>3, <3>1, <3>2
  <2> QED BY <1>1, <1>3, <2>1
<1> QED BY <1>2, <1>3

\* The classes the name of a receiver's type is the name of are its static type.
LEMMA NamedTypeRight ==
    ASSUME IndexTyped, OneClassPerName, NEW k \in Calls, k.receiver # Nothing, Rooted(k), Grounded(k),
           ReceiverTypeName(k.receiver) # Nothing
    PROVE  ClassesNamed(ReceiverTypeName(k.receiver)) \subseteq StaticType(k.receiver)
<1> DEFINE e == k.receiver
           n == ReceiverTypeName(e)
           base == IF e.on = Nothing THEN Caller ELSE InferredClass(e.on, FALSE)
           returned == IF base = Nothing THEN Nothing ELSE ReturnType(base, e.name)
<1>1. e \in Exprs /\ Followed(e)
  BY RootOf
<1>2. Caller \in Classes /\ SupersAreKnown
  BY SupersKnown, CallAssumption DEF IndexTyped, Caller
<1>3. StaticType(e) = TypesOn(Bases(e), e)
  BY <1>1, StaticTypeIs DEF Bases
<1>4. base # Nothing => base \in Bases(e) /\ base \in Classes
  BY <1>1, BaseRight
<1>5. n = CASE e.shape \in {"new", "cast"} -> e.name
            [] e.shape = "name"  -> DeclaredType(e.name)
            [] e.shape = "call"  -> IF returned # Nothing THEN returned ELSE GlobalReturnType(e.name)
            [] e.shape = "field" -> IF base = Nothing THEN Nothing ELSE FieldType(base, e.name)
            [] OTHER             -> Nothing
  <2> HIDE DEF base, returned
  <2> SUFFICES ReceiverTypeName(e) =
                  CASE e.shape \in {"new", "cast"} -> e.name
                    [] e.shape = "name"  -> DeclaredType(e.name)
                    [] e.shape = "call"  -> IF returned # Nothing THEN returned ELSE GlobalReturnType(e.name)
                    [] e.shape = "field" -> IF base = Nothing THEN Nothing ELSE FieldType(base, e.name)
                    [] OTHER             -> Nothing
    OBVIOUS
  <2> HIDE DEF e, n
  <2> QED BY <1>1, ReceiverTypeIs DEF base, returned
<1>6. n # Nothing
  OBVIOUS
<1>7. Grounded(k) <=> (e.shape = "call" =>
                         \E c \in Bases(e) : Inherited(c, WithMethod(e.name)) \cap index # {})
  BY DEF Grounded, Bases
<1>8. \A c \in Classes : n \in MentionedIn(c) => ClassesNamed(n) \subseteq Means(c, n)
  BY MentionedMeans
<1>9. Bases(e) \in SUBSET Classes
  BY <1>1, <1>2, StaticTypeIs, CallAssumption DEF Bases
<1> HIDE DEF e, n, base
<1>10. CASE e.shape \in {"new", "cast"}
  <2>1. n = e.name /\ n \in MentionedIn(Caller)
    BY <1>1, <1>5, <1>10, CallerMentions
  <2> QED BY <1>2, <1>3, <1>8, <1>10, <2>1, TypesOnShape DEF n, e
<1>11. CASE e.shape = "name"
  <2>1. n = DeclaredType(e.name)
    BY <1>5, <1>11
  <2>2. n \in MentionedIn(Caller) /\ Means(Caller, n) \subseteq TypesOn(Bases(e), e)
    BY <1>1, <1>6, <1>11, <2>1, DeclaredMeans
  <2> QED BY <1>2, <1>3, <1>8, <2>2 DEF n, e
<1>12. CASE e.shape = "call"
  <2>1. \E c \in Bases(e) : \E h \in Inherited(c, WithMethod(e.name)) : n = Decl(h).methods[e.name]
    <3>1. CASE returned # Nothing
      <4>1. base # Nothing /\ n = ReturnType(base, e.name)
        BY <1>5, <1>12, <3>1
      <4> QED BY <1>2, <1>4, <1>6, <4>1, LookupRight
    <3>2. CASE returned = Nothing
      <4>1. n = GlobalReturnType(e.name)
        BY <1>5, <1>12, <3>2
      <4>2. PICK c \in Bases(e) : Inherited(c, WithMethod(e.name)) \cap index # {}
        BY <1>7, <1>12
      <4>3. PICK h \in Inherited(c, WithMethod(e.name)) : h \in index \cap WithMethod(e.name)
        BY <4>2 DEF Inherited
      <4>4. n = Decl(h).methods[e.name]
        BY <1>6, <4>1, <4>3, GlobalIsReturned
      <4> QED BY <4>4
    <3> QED BY <3>1, <3>2
  <2>2. PICK c \in Bases(e) : \E h \in Inherited(c, WithMethod(e.name)) : n = Decl(h).methods[e.name]
    BY <2>1
  <2>3. ClassesNamed(n) \subseteq ReturnOf(c, e.name)
    BY <1>8, <1>9, <2>2, MemberMeans
  <2> QED BY <1>3, <1>12, <2>3, TypesOnShape DEF n, e
<1>13. CASE e.shape = "field"
  <2>1. base # Nothing /\ n = FieldType(base, e.name)
    BY <1>5, <1>6, <1>13
  <2>2. PICK h \in Inherited(base, WithField(e.name)) : n = Decl(h).fields[e.name]
    BY <1>2, <1>4, <1>6, <2>1, LookupRight
  <2>3. ClassesNamed(n) \subseteq FieldOf(base, e.name)
    BY <1>4, <1>8, <2>1, <2>2, MemberMeans
  <2> QED BY <1>3, <1>4, <1>13, <2>1, <2>3, TypesOnShape DEF n, e
<1>14. e.shape \in {"new", "cast", "name", "call", "field"}
  BY <1>5, <1>6
<1> QED BY <1>10, <1>11, <1>12, <1>13, <1>14

-----------------------------------------------------------------------------
(* The answers, where simple names are unique.                             *)

\* The receivers of a call, as Java has them.
Receivers(k) ==
    CASE k.kind = "creation" -> Means(Caller, k.callee)
      [] k.kind # "creation" /\ k.receiver = Nothing -> {Caller}
      [] OTHER -> StaticType(k.receiver)

\* What a class of the receiver inherits is a target.
LEMMA JavaTargetsIs ==
    ASSUME NEW k, NEW c \in Receivers(k), NEW d \in Inherited(c, WithMethod(k.callee))
    PROVE  <<d, k.callee>> \in JavaTargets(k)
  BY DEF JavaTargets, Receivers

\* A class a call is pinned to is one Java finds the receiver to be of.
LEMMA TargetRight ==
    ASSUME IndexTyped, OneClassPerName, NEW k \in Calls, Rooted(k), TargetClass(k) # Nothing
    PROVE  TargetClass(k) \in Receivers(k) /\ TargetClass(k) \in Classes
<1> DEFINE t == TargetClass(k)
<1>1. Caller \in Classes
  BY CallAssumption DEF IndexTyped, Caller
<1>2. k.receiver \in Maybe(Exprs)
  BY CallAssumption DEF Call
<1>3. CASE k.kind = "creation"
  <2>1. t = ClassOfType(k.callee, TRUE, FALSE) /\ k.callee \in MentionedIn(Caller)
    BY <1>3, CallerMentions DEF TargetClass
  <2>2. t \in Means(Caller, k.callee)
    BY <1>1, <2>1, PinnedMeans
  <2> QED BY <1>3, <2>2, StaticTyped DEF Receivers
<1>4. CASE k.kind # "creation" /\ OnItself(k)
  <2>1. t = Caller
    BY <1>4 DEF TargetClass
  <2>2. CASE k.receiver = Nothing
    BY <1>1, <1>4, <2>1, <2>2 DEF Receivers
  <2>3. CASE k.receiver # Nothing
    <3>1. k.receiver \in Exprs /\ k.receiver.shape \in {"this", "super"}
      BY <1>2, <1>4, <2>3 DEF OnItself, Maybe
    <3>2. k.receiver.on = Nothing
      BY <3>1, CallAssumption
    <3>3. Root(k.receiver) = k.receiver
      BY <3>1, <3>2, RootIs
    <3>4. k.receiver.shape = "this"
      BY <2>3, <3>1, <3>3 DEF Rooted
    <3>5. StaticType(k.receiver) = {Caller}
      BY <3>1, <3>4, StaticTypeIs, TypesOnShape
    <3> QED BY <1>1, <1>4, <2>1, <2>3, <3>5 DEF Receivers
  <2> QED BY <2>2, <2>3
<1>5. CASE k.kind # "creation" /\ ~ OnItself(k)
  <2>1. t = InferredClass(k.receiver, TRUE) /\ k.receiver \in Exprs /\ k.receiver # Nothing
    BY <1>2, <1>5 DEF TargetClass, OnItself, Maybe
  <2>2. t \in StaticType(k.receiver) /\ t \in Classes
    BY <2>1, RootOf, InferenceRight
  <2> QED BY <1>5, <2>1, <2>2 DEF Receivers
<1> QED BY <1>3, <1>4, <1>5

\* What an answer is.
LEMMA AnswerIs ==
    ASSUME NEW k
    PROVE  \/ /\ Answer(k).how = "typed" /\ Answer(k).to = {}
              /\ k.kind # "creation" /\ k.receiver # Nothing /\ k.receiver.shape = "class"
           \/ /\ Answer(k).how = "typed"
              /\ TargetClass(k) # Nothing /\ Answer(k).to = InHierarchy(TargetClass(k), k.callee)
           \/ /\ Answer(k).how = "typed"
              /\ TargetClass(k) = Nothing /\ k.kind # "creation" /\ ~ OnItself(k)
              /\ ReceiverTypeName(k.receiver) # Nothing
              /\ Answer(k).to = MethodsNamed(k.callee, UNION {NameAncestors(c) :
                                    c \in ClassesNamed(ReceiverTypeName(k.receiver))})
           \/ /\ Answer(k).how = "typed"
              /\ TargetClass(k) = Nothing /\ k.kind = "creation" /\ ClassesNamed(k.callee) # {}
              /\ Answer(k).to = MethodsNamed(k.callee, ClassesNamed(k.callee))
           \/ Answer(k).how = "heuristic" /\ Answer(k).to = ByNameOnly(k.callee)
<1> DEFINE target == TargetClass(k)
           type   == IF k.kind = "creation" \/ OnItself(k) THEN Nothing
                     ELSE ReceiverTypeName(k.receiver)
           meant  == ClassesNamed(IF k.kind = "creation" THEN k.callee ELSE type)
           above  == UNION {NameAncestors(c) : c \in meant}
<1>1. Answer(k) = IF k.kind # "creation" /\ k.receiver # Nothing /\ k.receiver.shape = "class"
                  THEN Typed({})
                  ELSE CASE target # Nothing -> Typed(InHierarchy(target, k.callee))
                         [] target = Nothing /\ type # Nothing
                               -> Typed(MethodsNamed(k.callee, above))
                         [] target = Nothing /\ k.kind = "creation" /\ meant # {}
                               -> Typed(MethodsNamed(k.callee, meant))
                         [] OTHER -> Heuristic(ByNameOnly(k.callee))
  BY DEF Answer
<1>2. /\ \A to : Typed(to).to = to /\ Typed(to).how = "typed"
      /\ \A to : Heuristic(to).to = to /\ Heuristic(to).how = "heuristic"
  BY DEF Typed, Heuristic
<1>3. type # Nothing => /\ k.kind # "creation" /\ ~ OnItself(k) /\ type = ReceiverTypeName(k.receiver)
                        /\ meant = ClassesNamed(ReceiverTypeName(k.receiver))
  OBVIOUS
<1>4. k.kind = "creation" => meant = ClassesNamed(k.callee)
  OBVIOUS
<1> HIDE DEF target, type, meant, above
<1>5. CASE k.kind # "creation" /\ k.receiver # Nothing /\ k.receiver.shape = "class"
  <2>1. Answer(k) = Typed({})
    BY <1>1, <1>5
  <2> QED BY <1>2, <1>5, <2>1
<1>6. CASE ~ (k.kind # "creation" /\ k.receiver # Nothing /\ k.receiver.shape = "class")
  <2>1. CASE target # Nothing
    <3>1. Answer(k) = Typed(InHierarchy(target, k.callee))
      BY <1>1, <1>6, <2>1
    <3> QED BY <1>2, <2>1, <3>1 DEF target
  <2>2. CASE target = Nothing /\ type # Nothing
    <3>1. Answer(k) = Typed(MethodsNamed(k.callee, above))
      BY <1>1, <1>3, <1>6, <2>2
    <3> QED BY <1>2, <1>3, <2>2, <3>1 DEF target, above
  <2>3. CASE target = Nothing /\ type = Nothing /\ k.kind = "creation" /\ meant # {}
    <3>1. Answer(k) = Typed(MethodsNamed(k.callee, meant))
      BY <1>1, <1>6, <2>3
    <3> QED BY <1>2, <1>4, <2>3, <3>1 DEF target
  <2>4. CASE target = Nothing /\ type = Nothing /\ ~ (k.kind = "creation" /\ meant # {})
    <3>1. Answer(k) = Heuristic(ByNameOnly(k.callee))
      BY <1>1, <1>6, <2>4
    <3> QED BY <1>2, <3>1
  <2> QED BY <2>1, <2>2, <2>3, <2>4
<1> QED BY <1>5, <1>6

\* Every typed answer is right, where simple names are unique.
LEMMA TypedAnswerRight ==
    ASSUME IndexTyped, OneClassPerName, NEW k \in Calls, Rooted(k),
           Answer(k).how = "typed", NEW to \in Answer(k).to
    PROVE  \/ to \in JavaTargets(k)
           \/ /\ TargetClass(k) = Nothing
              /\ Grounded(k) => \E c \in StaticType(k.receiver) : to[1] \in Upwards(c, {})
<1>1. SupersAreKnown
  BY SupersKnown
<1>2. CASE TargetClass(k) # Nothing /\ Answer(k).to = InHierarchy(TargetClass(k), k.callee)
  <2>1. TargetClass(k) \in Receivers(k) /\ TargetClass(k) \in Classes
    BY <1>2, TargetRight
  <2>2. PICK d \in Inherited(TargetClass(k), WithMethod(k.callee)) : to = <<d, k.callee>>
    BY <1>1, <1>2, <2>1, HierarchyRight
  <2> QED BY <2>1, <2>2, JavaTargetsIs
<1>3. CASE /\ TargetClass(k) = Nothing /\ k.kind # "creation" /\ ~ OnItself(k)
           /\ ReceiverTypeName(k.receiver) # Nothing
           /\ Answer(k).to = MethodsNamed(k.callee, UNION {NameAncestors(c) :
                                 c \in ClassesNamed(ReceiverTypeName(k.receiver))})
  <2> SUFFICES ASSUME Grounded(k)
               PROVE  \E c \in StaticType(k.receiver) : to[1] \in Upwards(c, {})
    BY <1>3
  <2> DEFINE named == ClassesNamed(ReceiverTypeName(k.receiver))
  <2>1. PICK d \in UNION {NameAncestors(c) : c \in named} : to = <<d, k.callee>>
    BY <1>3 DEF MethodsNamed
  <2>2. PICK c \in named : d \in NameAncestors(c)
    OBVIOUS
  <2>3. k.receiver # Nothing
    BY <1>3 DEF OnItself
  <2>4. c \in StaticType(k.receiver) /\ c \in Classes
    BY <1>3, <2>3, NamedTypeRight, NamedFinite
  <2>5. d \in Upwards(c, {})
    BY <1>1, <2>2, <2>4, AncestorsAbove
  <2> QED BY <2>1, <2>4, <2>5
<1>4. CASE TargetClass(k) = Nothing /\ k.kind = "creation" /\ ClassesNamed(k.callee) # {}
  <2>1. ClassOfType(k.callee, TRUE, FALSE) = Nothing /\ k.callee \in MentionedIn(Caller)
    BY <1>4, CallerMentions DEF TargetClass
  <2>2. Caller \in Classes
    BY CallAssumption DEF IndexTyped, Caller
  <2> QED BY <1>4, <2>1, <2>2, PinnedMeans
<1> QED BY <1>2, <1>3, <1>4, AnswerIs

-----------------------------------------------------------------------------
(* The edges of a run.                                                     *)

\* An edge says what the index answers to its call when all files are read.
EdgesAreAnswers ==
    /\ program \in Programs /\ scope \in SUBSET Classes /\ index \in SUBSET scope
    /\ edges # {} => index = scope
    /\ \A e \in edges : e.call \in Calls /\ e.to \in Answer(e.call).to /\ e.how = Answer(e.call).how

\* An answer depends on the program and the index alone.
LEMMA AnswerStays ==
    ASSUME program' = program, index' = index, NEW k
    PROVE  Answer(k)' = Answer(k)
<1>1. Caller' = Caller /\ \A c : Decl(c)' = Decl(c)
  BY DEF Caller, Decl
<1>2. \A n : ClassesNamed(n)' = ClassesNamed(n)
  BY DEF ClassesNamed, Decl
<1>3. \A m, S : MethodsNamed(m, S)' = MethodsNamed(m, S)
  BY DEF MethodsNamed, WithMethod, Decl
<1>4. \A c, m : InHierarchy(c, m)' = InHierarchy(c, m)
  BY DEF InHierarchy, MethodsNamed, Nearest, NameAncestors, WithMethod, Climb, Supertypes, ClassesNamed, OneOf, Decl
<1>5. \A c : NameAncestors(c)' = NameAncestors(c)
  BY DEF NameAncestors, ClassesNamed, Decl
<1>6. ByNameOnly(k.callee)' = ByNameOnly(k.callee)
  BY DEF ByNameOnly, MethodsNamed, WithMethod, Caller, Decl
<1>7. \A n, i, p : ClassOfType(n, i, p)' = ClassOfType(n, i, p)
  BY DEF ClassOfType, ClassesNamed, Decl, Caller
<1>8. \A e, i : InferredClass(e, i)' = InferredClass(e, i)
  BY SMTT(30) DEF InferredClass, ClassOn, TypeOn, DeclaredType, ClassOfType, ClassesNamed, Caller, Decl,
         ReturnType, FieldType, Nearest, Climb, Supertypes, WithMethod, WithField, OneOf
<1>9. \A c, m : ReturnType(c, m)' = ReturnType(c, m) /\ FieldType(c, m)' = FieldType(c, m)
  BY DEF ReturnType, FieldType, Nearest, Climb, Supertypes, ClassesNamed, WithMethod, WithField, OneOf, Decl
<1>10. \A m : GlobalReturnType(m)' = GlobalReturnType(m) /\ DeclaredType(m)' = DeclaredType(m)
  BY DEF GlobalReturnType, DeclaredType, OneOf, WithMethod, Decl, Caller
<1>11. TargetClass(k)' = TargetClass(k)
  BY <1>1, <1>7, <1>8 DEF TargetClass
<1>12. \A e : ReceiverTypeName(e)' = ReceiverTypeName(e)
  BY <1>1, <1>8, <1>9, <1>10 DEF ReceiverTypeName
<1> QED BY <1>2, <1>3, <1>4, <1>5, <1>6, <1>11, <1>12 DEF Answer

\* In every state of every run an edge is what the index answers to its call.
THEOREM EdgesAlwaysAnswer == CallSpec => []EdgesAreAnswers
<1>1. CallInit => EdgesAreAnswers
  BY DEF CallInit, EdgesAreAnswers
<1>2. EdgesAreAnswers /\ [CallNext]_callVars => EdgesAreAnswers'
  <2> SUFFICES ASSUME EdgesAreAnswers, [CallNext]_callVars PROVE EdgesAreAnswers'
    OBVIOUS
  <2>1. ASSUME NEW c \in Classes, Read(c) PROVE EdgesAreAnswers'
    <3>1. /\ program' = program /\ scope' = scope /\ edges' = edges /\ edges = {}
          /\ index' \in SUBSET scope
      BY <2>1 DEF Read, EdgesAreAnswers
    <3> QED BY <3>1 DEF EdgesAreAnswers
  <2>2. ASSUME NEW k \in Calls, AnswerCall(k) PROVE EdgesAreAnswers'
    <3>1. program' = program /\ scope' = scope /\ index' = index /\ index = scope
      BY <2>2 DEF AnswerCall
    <3>2. \A q : Answer(q)' = Answer(q)
      BY <3>1, AnswerStays
    <3>3. \A e \in edges' \ edges : e.call \in Calls /\ e.to \in Answer(e.call).to /\ e.how = Answer(e.call).how
      BY <2>2 DEF AnswerCall
    <3>4. ASSUME NEW e \in edges'
          PROVE  e.call \in Calls /\ e.to \in Answer(e.call)'.to /\ e.how = Answer(e.call)'.how
      BY <3>2, <3>3 DEF EdgesAreAnswers
    <3> QED BY <3>1, <3>4 DEF EdgesAreAnswers
  <2>3. CASE UNCHANGED callVars
    <3>1. program' = program /\ scope' = scope /\ index' = index /\ edges' = edges
      BY <2>3 DEF callVars
    <3>2. \A q : Answer(q)' = Answer(q)
      BY <3>1, AnswerStays
    <3> QED BY <3>1, <3>2 DEF EdgesAreAnswers
  <2> QED BY <2>1, <2>2, <2>3 DEF CallNext
<1> QED BY <1>1, <1>2, PTL DEF CallSpec

(* In every state of every run, where simple names are unique, a typed     *)
(* edge leads to a declaration Java binds its call to, or to a class above *)
(* the receiver's type.                                                    *)
THEOREM TypedEdgesAreAlwaysTrue == CallSpec => []TypedEdgesAreTrue
<1>1. EdgesAreAnswers => TypedEdgesAreTrue
  <2> SUFFICES ASSUME EdgesAreAnswers, NEW e \in edges,
                      e.how = "typed", OneClassPerName, Rooted(e.call)
               PROVE  \/ e.to \in JavaTargets(e.call)
                      \/ /\ TargetClass(e.call) = Nothing
                         /\ Grounded(e.call) =>
                               \E c \in StaticType(e.call.receiver) : e.to[1] \in Upwards(c, {})
    BY DEF TypedEdgesAreTrue
  <2>1. IndexTyped /\ e.call \in Calls /\ e.to \in Answer(e.call).to /\ Answer(e.call).how = "typed"
    BY DEF EdgesAreAnswers, IndexTyped
  <2> QED BY <2>1, TypedAnswerRight
<1> QED BY <1>1, EdgesAlwaysAnswer, PTL

-----------------------------------------------------------------------------
(* The whole program is read, and the names tell classes apart.            *)
Whole ==
    /\ IndexTyped /\ index = Classes
    /\ OneMeaningPerName /\ OneTypePerMember

\* What is used most of that.
LEMMA WholeKnown == ASSUME Whole PROVE SupersAreKnown /\ IndexTyped /\ index = Classes
  BY DEF Whole, OneMeaningPerName, SupersAreKnown

\* A name means at most one class to a file.
LEMMA MeansOne ==
    ASSUME IndexTyped, NEW c, NEW n
    PROVE  \A d, e \in Means(c, n) : d = e
  BY CallAssumption DEF Means, Decl, IndexTyped

\* A set in which any two are the same is of one or empty.
LEMMA AtMostOne ==
    ASSUME NEW S, IsFiniteSet(S), \A d, e \in S : d = e
    PROVE  /\ Cardinality(S) # 1 => S = {}
           /\ Cardinality(S) = 1 => \E x : S = {x}
<1>1. \A x \in S : S = {x}
  OBVIOUS
<1> QED BY <1>1, FS_Singleton

\* The class a type name is pinned to is the one it means to the caller.
LEMMA PinnedIsMeant ==
    ASSUME Whole, NEW n, NEW package \in BOOLEAN
    PROVE  /\ ClassOfType(n, TRUE, package) # Nothing => Means(Caller, n) \subseteq {ClassOfType(n, TRUE, package)}
           /\ ClassOfType(n, TRUE, TRUE) = Nothing => Means(Caller, n) = {}
<1> DEFINE named    == ClassesNamed(n)
           imported == {c \in named : Decl(c).package = Decl(Caller).imports[n]}
           near     == {c \in named : Decl(c).package = Decl(Caller).package}
           close    == {c \in named : package /\ Decl(c).package = Decl(Caller).package}
           it       == ClassOfType(n, TRUE, package)
           it2      == ClassOfType(n, TRUE, TRUE)
<1>1. IndexTyped /\ index = Classes /\ Caller \in Classes
  BY CallAssumption DEF Whole, IndexTyped, Caller
<1>2. named \in SUBSET Classes /\ IsFiniteSet(named)
  BY <1>1, NamedFinite
<1>3. /\ imported \in SUBSET named /\ near \in SUBSET named /\ close \in SUBSET near
      /\ package => close = near
      /\ ~ package => close = {}
  OBVIOUS
<1>4. IsFiniteSet(imported) /\ IsFiniteSet(near) /\ IsFiniteSet(close)
  <2> HIDE DEF named, imported, near, close
  <2> QED BY <1>2, <1>3, FS_Subset
<1>5. Means(Caller, n) = IF Decl(Caller).imports[n] # Nothing THEN imported ELSE near
  BY <1>1 DEF Means, ClassesNamed
<1>6. Means(Caller, n) \subseteq named
  BY <1>3, <1>5
<1>7. \A d, e \in imported : d = e
  BY <1>1, CallAssumption DEF ClassesNamed, Decl, IndexTyped
<1>8. \A d, e \in near : d = e
  BY <1>1, CallAssumption DEF ClassesNamed, Decl, IndexTyped
<1>9. Decl(Caller).imports[n] = Nothing => imported = {}
  <2>1. \A c \in Classes : Decl(c).package \in Packages
    BY <1>1, DeclTyped DEF ClassDecl
  <2> QED BY <1>2, <2>1, CallAssumption
<1>10. it = CASE Cardinality(named) = 1    -> CHOOSE c \in named : TRUE
              [] Cardinality(named) # 1 /\ Cardinality(imported) = 1 -> CHOOSE c \in imported : TRUE
              [] Cardinality(named) # 1 /\ Cardinality(imported) # 1 /\ Cardinality(close) = 1
                                           -> CHOOSE c \in close : TRUE
              [] OTHER                     -> Nothing
  BY DEF ClassOfType
<1>11. it2 = CASE Cardinality(named) = 1    -> CHOOSE c \in named : TRUE
               [] Cardinality(named) # 1 /\ Cardinality(imported) = 1 -> CHOOSE c \in imported : TRUE
               [] Cardinality(named) # 1 /\ Cardinality(imported) # 1 /\ Cardinality(near) = 1
                                            -> CHOOSE c \in near : TRUE
               [] OTHER                     -> Nothing
  BY DEF ClassOfType
<1> DEFINE M == Means(Caller, n)
<1>12. Nothing \notin named
  BY <1>2, CallAssumption
<1>13. M = imported \/ (M = near /\ imported = {})
  BY <1>5, <1>9
<1> HIDE DEF named, imported, near, close, it, it2, M
<1>14. Cardinality(imported) # 1 => imported = {}
  BY <1>4, <1>7, AtMostOne
<1>15. Cardinality(near) # 1 => near = {}
  BY <1>4, <1>8, AtMostOne
<1>16. \A S : S \in {named, imported, near, close} /\ Cardinality(S) = 1 => \E x : S = {x}
  BY <1>2, <1>4, FS_Singleton
<1>17. it # Nothing => M \subseteq {it}
  <2>1. CASE Cardinality(named) = 1
    <3>1. it \in named /\ named = {it}
      BY <1>10, <1>16, <2>1
    <3> QED BY <1>6, <3>1 DEF M
  <2>2. CASE Cardinality(named) # 1 /\ Cardinality(imported) = 1
    <3>1. imported = {it}
      BY <1>10, <1>16, <2>2
    <3> QED BY <1>13, <3>1
  <2>3. CASE Cardinality(named) # 1 /\ Cardinality(imported) # 1 /\ Cardinality(close) = 1
    <3>1. close = {it}
      BY <1>10, <1>16, <2>3
    <3> QED BY <1>3, <1>8, <1>13, <1>14, <2>3, <3>1
  <2>4. CASE Cardinality(named) # 1 /\ Cardinality(imported) # 1 /\ Cardinality(close) # 1
    <3>1. it = Nothing
      BY <1>10, <2>4
    <3> QED BY <3>1
  <2> QED BY <2>1, <2>2, <2>3, <2>4
<1>18. it2 = Nothing => M = {}
  <2>1. CASE Cardinality(named) = 1
    <3>1. it2 \in named
      BY <1>11, <1>16, <2>1
    <3> QED BY <1>12, <3>1
  <2>2. CASE Cardinality(named) # 1 /\ Cardinality(imported) = 1
    <3>1. it2 \in imported
      BY <1>11, <1>16, <2>2
    <3> QED BY <1>3, <1>12, <3>1
  <2>3. CASE Cardinality(named) # 1 /\ Cardinality(imported) # 1 /\ Cardinality(near) = 1
    <3>1. it2 \in near
      BY <1>11, <1>16, <2>3
    <3> QED BY <1>3, <1>12, <3>1
  <2>4. CASE Cardinality(named) # 1 /\ Cardinality(imported) # 1 /\ Cardinality(near) # 1
    BY <1>13, <1>14, <1>15, <2>4
  <2> QED BY <2>1, <2>2, <2>3, <2>4
<1> QED BY <1>17, <1>18 DEF it, it2, M

\* The type of a member is the class its name means to the caller.
LEMMA MemberIsMeant ==
    ASSUME Whole, NEW c \in Classes, NEW m
    PROVE  /\ ReturnOf(c, m) \subseteq Means(Caller, ReturnType(c, m))
           /\ FieldOf(c, m) \subseteq Means(Caller, FieldType(c, m))
<1>1. SupersAreKnown /\ IndexTyped /\ index = Classes
  BY WholeKnown
<1>2. \A h \in Inherited(c, WithMethod(m)) :
         /\ h \in Classes /\ m \in Methods /\ Decl(h).methods[m] # Nothing
         /\ Decl(h).methods[m] \in MemberTypes(h)
  BY DEF Inherited, WithMethod, MemberTypes
<1>3. \A h \in Inherited(c, WithField(m)) :
         /\ h \in Classes /\ m \in Vars /\ Decl(h).fields[m] # Nothing
         /\ Decl(h).fields[m] \in MemberTypes(h)
  BY DEF Inherited, WithField, MemberTypes
<1>4. ASSUME NEW h \in Inherited(c, WithMethod(m))
      PROVE  Means(h, Decl(h).methods[m]) = Means(Caller, ReturnType(c, m))
  <2>1. ReturnType(c, m) # Nothing
    BY <1>1, LookupRight
  <2>2. PICK g \in Inherited(c, WithMethod(m)) : ReturnType(c, m) = Decl(g).methods[m]
    BY <1>1, <2>1, LookupRight
  <2>3. Decl(g).methods[m] = Decl(h).methods[m]
    BY <1>2 DEF Whole, OneTypePerMember
  <2> QED BY <1>2, <2>2, <2>3 DEF Whole, OneMeaningPerName
<1>5. ASSUME NEW h \in Inherited(c, WithField(m))
      PROVE  Means(h, Decl(h).fields[m]) = Means(Caller, FieldType(c, m))
  <2>1. FieldType(c, m) # Nothing
    BY <1>1, LookupRight
  <2>2. PICK g \in Inherited(c, WithField(m)) : FieldType(c, m) = Decl(g).fields[m]
    BY <1>1, <2>1, LookupRight
  <2>3. Decl(g).fields[m] = Decl(h).fields[m]
    BY <1>3 DEF Whole, OneTypePerMember
  <2> QED BY <1>3, <2>2, <2>3 DEF Whole, OneMeaningPerName
<1> QED BY <1>4, <1>5 DEF ReturnOf, FieldOf

\* A name the code has no declaration for: a field the caller inherits.
Undeclared(e) == e.shape = "name" /\ e.name \in Vars /\ DeclaredType(e.name) = Nothing

\* The type name the code finds for a receiver means its static type, unless it is
\* an inherited field or applied to something it has found no class for.
LEMMA StepMeans ==
    ASSUME Whole, NEW e, e.shape \notin {"this", "super"}, ~ Undeclared(e),
           NEW base \in Maybe(Classes), NEW bases \in SUBSET Classes,
           base # Nothing => bases \subseteq {base},
           base = Nothing => bases = {} \/ e.shape \notin {"call", "field"}
    PROVE  TypesOn(bases, e) \subseteq Means(Caller, TypeOn(base, e))
<1>1. SupersAreKnown /\ IndexTyped /\ Caller \in Classes
  BY WholeKnown, CallAssumption DEF IndexTyped, Caller
<1>2. CASE e.shape \in {"new", "cast"}
  BY <1>2, TypesOnShape DEF TypeOn
<1>3. CASE e.shape = "name"
  <2> DEFINE v == e.name
  <2>1. TypeOn(base, e) = IF DeclaredType(v) # Nothing THEN DeclaredType(v) ELSE v
    BY <1>3 DEF TypeOn
  <2>2. CASE v \notin Vars
    BY <1>3, <2>1, <2>2, TypesOnShape DEF DeclaredType
  <2>3. CASE v \in Vars
    <3>1. DeclaredType(v) # Nothing /\ TypeOn(base, e) = DeclaredType(v)
      BY <1>3, <2>1, <2>3 DEF Undeclared
    <3>2. TypesOn(bases, e) = IF program.vars[v] # Nothing THEN Means(Caller, program.vars[v]) ELSE FieldOf(Caller, v)
      BY <1>3, <2>3 DEF TypesOn
    <3>3. CASE program.vars[v] # Nothing
      BY <2>3, <3>1, <3>2, <3>3 DEF DeclaredType
    <3>4. CASE program.vars[v] = Nothing
      <4>1. DeclaredType(v) = Decl(Caller).fields[v]
        BY <2>3, <3>4 DEF DeclaredType
      <4>2. Inherited(Caller, WithField(v)) \subseteq {Caller}
        <5>1. Caller \in WithField(v)
          BY <1>1, <2>3, <3>1, <4>1 DEF WithField
        <5> DEFINE alone == {Caller}
        <5>2. alone \in SUBSET Classes /\ Caller \in alone /\ alone \ WithField(v) = {}
          BY <1>1, <5>1
        <5>3. Upwards(Caller, WithField(v)) \subseteq alone
          <6> HIDE DEF alone
          <6> QED BY <1>1, <5>2, UpwardsGrow
        <5> QED BY <5>3 DEF Inherited
      <4> QED BY <3>1, <3>2, <3>4, <4>1, <4>2 DEF FieldOf
    <3> QED BY <3>3, <3>4
  <2> QED BY <2>2, <2>3
<1>4. CASE e.shape = "call"
  <2>1. TypesOn(bases, e) = UNION {ReturnOf(c, e.name) : c \in bases}
    BY <1>4, TypesOnShape
  <2>2. CASE base = Nothing
    BY <1>4, <2>1, <2>2
  <2>3. CASE base # Nothing
    <3>1. TypeOn(base, e) = ReturnType(base, e.name) /\ base \in Classes
      BY <1>4, <2>3 DEF TypeOn, Maybe
    <3> QED BY <2>1, <2>3, <3>1, MemberIsMeant
  <2> QED BY <2>2, <2>3
<1>5. CASE e.shape = "field"
  <2>1. TypesOn(bases, e) = UNION {FieldOf(c, e.name) : c \in bases}
    BY <1>5, TypesOnShape
  <2>2. CASE base = Nothing
    BY <1>5, <2>1, <2>2
  <2>3. CASE base # Nothing
    <3>1. TypeOn(base, e) = FieldType(base, e.name) /\ base \in Classes
      BY <1>5, <2>3 DEF TypeOn, Maybe
    <3> QED BY <2>1, <2>3, <3>1, MemberIsMeant
  <2> QED BY <2>2, <2>3
<1>6. CASE e.shape \notin {"new", "cast", "name", "call", "field"}
  <2>1. TypesOn(bases, e) = {}
    BY <1>6 DEF TypesOn
  <2> QED BY <2>1
<1> QED BY <1>2, <1>3, <1>4, <1>5, <1>6

\* What the inference knows of a receiver: that a class it finds is the only static
\* type and, when it finds none though there is one, that it finds none without
\* the caller's imports either.
Sees(x, f, g) ==
    Root(x).shape # "super" =>
        /\ f[x] # Nothing => StaticType(x) \subseteq {f[x]}
        /\ f[x] = Nothing => StaticType(x) = {} \/ g[x] = Nothing

\* Both hold of every receiver.
LEMMA SeesAll ==
    ASSUME Whole, NEW f, NEW g, Infers(f, TRUE), Infers(g, FALSE)
    PROVE  \A x \in Exprs : Sees(x, f, g)
<1> DEFINE T == {x \in Exprs : Sees(x, f, g)}
<1>1. SupersAreKnown /\ IndexTyped /\ Caller \in Classes
  BY WholeKnown, CallAssumption DEF IndexTyped, Caller
<1>2. ASSUME NEW x \in Exprs, x.on # Nothing => x.on \in T, Root(x).shape # "super"
      PROVE  /\ f[x] # Nothing => StaticType(x) \subseteq {f[x]}
             /\ f[x] = Nothing => StaticType(x) = {} \/ g[x] = Nothing
  <2> DEFINE base == IF x.on = Nothing THEN Caller ELSE f[x.on]
             other == IF x.on = Nothing THEN Caller ELSE g[x.on]
             n == TypeOn(base, x)
  <2>1. x.on # Nothing => x.on \in Exprs /\ x.shape \in {"call", "field"} /\ Root(x.on).shape # "super"
    BY <1>2, CallAssumption, RootIs
  <2>2. StaticType(x) = TypesOn(Bases(x), x) /\ Bases(x) \in SUBSET Classes
    BY <1>1, <2>1, StaticTypeIs DEF Bases
  <2>3. f[x] = ClassOn(base, x, TRUE) /\ g[x] = ClassOn(other, x, FALSE) /\ base \in Maybe(Classes)
    BY <1>1, <2>1 DEF Infers, Maybe
  <2>4. x.shape # "super"
    BY <1>2, <2>1, RootIs
  <2>5. /\ base # Nothing => Bases(x) \subseteq {base}
        /\ base = Nothing => Bases(x) = {} \/ other = Nothing
    BY <1>1, <1>2, <2>1, CallAssumption DEF Bases, Sees
  <2> HIDE DEF base, other
  <2>6. CASE x.shape = "this"
    BY <1>1, <2>2, <2>3, <2>6, TypesOnShape, CallAssumption DEF ClassOn
  <2>7. CASE x.shape # "this"
    <3>1. f[x] = ClassOfType(n, TRUE, TRUE) /\ g[x] = ClassOfType(TypeOn(other, x), FALSE, TRUE)
      BY <2>3, <2>4, <2>7 DEF ClassOn
    <3>2. CASE Undeclared(x)
      <4>1. TypeOn(base, x) = x.name /\ TypeOn(other, x) = x.name
        BY <3>2 DEF Undeclared, TypeOn
      <4>2. \A d \in Classes : Decl(d).name # x.name
        BY <3>2 DEF Undeclared, Whole, OneMeaningPerName
      <4>3. ClassesNamed(x.name) = {}
        BY <1>1, <4>2 DEF ClassesNamed, IndexTyped
      <4>4. f[x] = Nothing /\ g[x] = Nothing
        BY <1>1, <3>1, <4>1, <4>3, ClassOfTypeTyped
      <4> QED BY <4>4
    <3>3. CASE base = Nothing /\ Bases(x) # {} /\ x.shape \in {"call", "field"}
      <4>1. other = Nothing
        BY <2>5, <3>3
      <4>2. TypeOn(base, x) = Nothing /\ TypeOn(other, x) = Nothing
        BY <3>3, <4>1 DEF TypeOn
      <4>3. ClassOfType(Nothing, TRUE, TRUE) = Nothing /\ ClassOfType(Nothing, FALSE, TRUE) = Nothing
        BY <1>1, NotAClass
      <4> QED BY <3>1, <4>2, <4>3
    <3>4. CASE ~ Undeclared(x) /\ ~ (base = Nothing /\ Bases(x) # {} /\ x.shape \in {"call", "field"})
      <4>1. StaticType(x) \subseteq Means(Caller, n)
        BY <2>2, <2>3, <2>4, <2>5, <2>7, <3>4, StepMeans
      <4>2. /\ f[x] # Nothing => Means(Caller, n) \subseteq {f[x]}
            /\ f[x] = Nothing => Means(Caller, n) = {}
        BY <3>1, PinnedIsMeant
      <4> QED BY <4>1, <4>2
    <3> QED BY <3>2, <3>3, <3>4
  <2> QED BY <2>6, <2>7
<1>3. \A x \in Exprs : (x.on # Nothing => x.on \in T) => x \in T
  BY <1>2 DEF Sees
<1> HIDE DEF T
<1>4. Exprs \subseteq T
  BY <1>3, OnInduction
<1> QED BY <1>4 DEF T

\* A chain of sets that grows cannot grow longer than the set it grows in.
LEMMA ChainStops ==
    ASSUME NEW S, IsFiniteSet(S), NEW f \in [Nat -> SUBSET S], f[0] # {},
           \A n \in Nat : f[n] \subseteq f[n + 1],
           \A n \in Nat : f[n + 1] = f[n] => f[n + 2] = f[n + 1]
    PROVE  f[Cardinality(S) + 1] = f[Cardinality(S)]
<1> DEFINE N == Cardinality(S)
           T == {n \in Nat : f[n + 1] = f[n] \/ Cardinality(f[n]) >= n + 1}
<1>1. N \in Nat
  BY FS_CardinalityType
<1>2. \A n \in Nat : IsFiniteSet(f[n]) /\ Cardinality(f[n]) \in Nat /\ Cardinality(f[n]) <= N
  <2>1. \A n \in Nat : f[n] \in SUBSET S
    OBVIOUS
  <2>2. ASSUME NEW X \in SUBSET S PROVE IsFiniteSet(X) /\ Cardinality(X) \in Nat /\ Cardinality(X) <= Cardinality(S)
    <3>1. IsFiniteSet(X) /\ Cardinality(X) <= Cardinality(S)
      BY FS_Subset
    <3> QED BY <3>1, FS_CardinalityType
  <2> QED BY <2>1, <2>2
<1>3. 0 \in T
  <2>1. Cardinality(f[0]) # 0
    <3>1. 0 \in Nat /\ IsFiniteSet(f[0])
      BY <1>2
    <3>2. Cardinality(f[0]) = 0 <=> f[0] = {}
      BY <3>1, FS_EmptySet
    <3> QED BY <3>2
  <2>2. Cardinality(f[0]) \in Nat
    BY <1>2
  <2> QED BY <2>1, <2>2
<1>4. ASSUME NEW n \in T PROVE n + 1 \in T
  <2>0. n \in Nat /\ n + 1 \in Nat /\ (n + 1) + 1 = n + 2
    OBVIOUS
  <2>1. CASE f[n + 1] = f[n]
    <3>1. f[n + 2] = f[n + 1]
      BY <2>0, <2>1
    <3> QED BY <2>0, <3>1
  <2>2. CASE f[n + 1] # f[n]
    <3> DEFINE A == f[n]
               B == f[n + 1]
    <3>1. A \subseteq B /\ A # B /\ IsFiniteSet(B) /\ Cardinality(A) >= n + 1
          /\ Cardinality(A) \in Nat /\ Cardinality(B) \in Nat
      BY <1>2, <2>0, <2>2
    <3>2. Cardinality(A) < Cardinality(B)
      <4> HIDE DEF A, B
      <4>1. Cardinality(A) <= Cardinality(B) /\ (Cardinality(A) = Cardinality(B) => A = B)
        BY <3>1, FS_Subset
      <4> QED BY <3>1, <4>1
    <3> HIDE DEF A
    <3>3. Cardinality(B) >= (n + 1) + 1
      <4> HIDE DEF B
      <4> QED BY <2>0, <3>1, <3>2
    <3> QED BY <2>0, <3>3
  <2> QED BY <2>1, <2>2
<1>5. N \in T
  <2> HIDE DEF T, N
  <2>1. T = Nat
    BY <1>3, <1>4, AllNumbers DEF T
  <2> QED BY <1>1, <2>1
<1>6. Cardinality(f[N]) <= N /\ Cardinality(f[N]) \in Nat
  BY <1>1, <1>2
<1>7. ~ (Cardinality(f[N]) >= N + 1)
  <2> HIDE DEF N
  <2> QED BY <1>1, <1>6
<1> QED BY <1>5, <1>7

\* The ancestors of a class by name, in a program read as a whole, are all that is
\* above it.
LEMMA AncestorsAreAll ==
    ASSUME IndexTyped, index = Classes, NEW c \in Classes, NEW ending
    PROVE  Upwards(c, ending) \subseteq NameAncestors(c)
<1> DEFINE N == Cardinality(Classes)
<1>1. PICK up \in [Nat -> SUBSET Classes] :
         /\ up[0] = {c} /\ \A n \in Nat : up[n + 1] = NameStep(up[n])
         /\ NameAncestors(c) = up[N]
  BY AncestorChain
<1> HIDE DEF N
<1>2. /\ \A n \in Nat : up[n] \subseteq up[n + 1]
      /\ \A n \in Nat : up[n + 1] = up[n] => up[n + 2] = up[n + 1]
  <2>1. \A n \in Nat : up[n] \subseteq up[n + 1]
    BY <1>1 DEF NameStep
  <2>2. ASSUME NEW n \in Nat PROVE up[n + 2] = NameStep(up[n + 1])
    <3>1. n + 1 \in Nat /\ (n + 1) + 1 = n + 2
      OBVIOUS
    <3> QED BY <1>1, <3>1
  <2> QED BY <1>1, <2>1, <2>2
<1>3. N \in Nat /\ IsFiniteSet(Classes)
  BY CallAssumption, FS_CardinalityType DEF N
<1>4. up[N + 1] = up[N]
  BY <1>1, <1>2, <1>3, ChainStops DEF N
<1> DEFINE s == up[N]
<1>5. NameStep(s) = s /\ s \in SUBSET Classes
  BY <1>1, <1>3, <1>4
<1>6. c \in s
  <2> DEFINE T == {n \in Nat : c \in up[n]}
  <2>1. 0 \in T
    BY <1>1
  <2>2. ASSUME NEW n \in T PROVE n + 1 \in T
    BY <1>2
  <2> HIDE DEF T
  <2>3. T = Nat
    BY <2>1, <2>2, AllNumbers DEF T
  <2> QED BY <1>3, <2>3 DEF T
<1> HIDE DEF s
<1>7. ASSUME NEW x \in s, NEW y \in Classes, Extends(x, y) PROVE y \in s
  <2>1. PICK i \in DOMAIN Decl(x).supers : y \in Means(x, Decl(x).supers[i])
    BY <1>7 DEF Extends
  <2>2. Decl(x).supers[i] \in ToSet(Decl(x).supers) /\ y \in ClassesNamed(Decl(x).supers[i])
    BY <2>1 DEF ToSet, Means, ClassesNamed
  <2>3. y \in NameStep(s)
    BY <2>2 DEF NameStep
  <2> QED BY <1>5, <2>3
<1>8. Upwards(c, ending) \subseteq s
  BY <1>5, <1>6, <1>7, UpwardsGrow
<1> QED BY <1>1, <1>8 DEF s

\* Where the code knows only the name of the receiver's type, the static type has
\* that name.
LEMMA StaticHasName ==
    ASSUME Whole, NEW k \in Calls, Rooted(k), WithinReach(k), k.kind # "creation", ~ OnItself(k),
           TargetClass(k) = Nothing, ReceiverTypeName(k.receiver) # Nothing
    PROVE  StaticType(k.receiver) \subseteq ClassesNamed(ReceiverTypeName(k.receiver))
<1> DEFINE e == k.receiver
           n == ReceiverTypeName(e)
           base == IF e.on = Nothing THEN Caller ELSE InferredClass(e.on, TRUE)
           other == IF e.on = Nothing THEN Caller ELSE InferredClass(e.on, FALSE)
<1>1. SupersAreKnown /\ IndexTyped /\ index = Classes /\ Caller \in Classes
  BY WholeKnown, CallAssumption DEF IndexTyped, Caller
<1>2. e \in Exprs /\ Followed(e) /\ Depth[e] <= MaxDepth /\ e.shape \notin {"this", "super"}
  BY RootOf DEF WithinReach, OnItself
<1>3. PICK f : /\ Infers(f, TRUE)
               /\ \A x \in Exprs : Followed(x) =>
                     InferredClass(x, TRUE) = IF Depth[x] > MaxDepth THEN Nothing ELSE f[x]
  BY <1>1, InferenceExists
<1>4. PICK g : /\ Infers(g, FALSE)
               /\ \A x \in Exprs : Followed(x) =>
                     InferredClass(x, FALSE) = IF Depth[x] > MaxDepth THEN Nothing ELSE g[x]
  BY <1>1, InferenceExists
<1>5. e.on # Nothing => /\ e.on \in Exprs /\ Depth[e.on] <= MaxDepth
                        /\ Followed(e.on) /\ e.shape \in {"call", "field"}
  <2> SUFFICES ASSUME e.on # Nothing PROVE e.on \in Exprs /\ Depth[e.on] <= MaxDepth
                        /\ Followed(e.on) /\ e.shape \in {"call", "field"}
    OBVIOUS
  <2>1. e.on \in Exprs /\ Depth[e] = Depth[e.on] + 1 /\ e.shape \in {"call", "field"} /\ Depth[e.on] \in Nat
    BY <1>2, CallAssumption
  <2>2. Followed(e.on)
    BY <1>2, FollowedOn
  <2>3. Depth[e.on] <= MaxDepth
    BY <1>2, <2>1, CallAssumption
  <2> QED BY <2>1, <2>2, <2>3
<1>6. base = (IF e.on = Nothing THEN Caller ELSE f[e.on]) /\ other = (IF e.on = Nothing THEN Caller ELSE g[e.on])
  <2>1. ASSUME NEW x \in Exprs, Depth[x] <= MaxDepth PROVE ~ (Depth[x] > MaxDepth)
    BY <2>1, CallAssumption
  <2> QED BY <1>3, <1>4, <1>5, <2>1
<1>7. f[e] = Nothing
  <2>1. TargetClass(k) = InferredClass(e, TRUE)
    BY DEF TargetClass
  <2>2. ~ (Depth[e] > MaxDepth)
    BY <1>2, CallAssumption
  <2> QED BY <1>2, <1>3, <2>1, <2>2
<1>8. base \in Maybe(Classes) /\ Bases(e) \in SUBSET Classes /\ StaticType(e) = TypesOn(Bases(e), e)
  BY <1>1, <1>2, <1>3, <1>5, <1>6, StaticTypeIs DEF Infers, Maybe, Bases
<1>9. /\ base # Nothing => Bases(e) \subseteq {base}
      /\ base = Nothing => e.on # Nothing /\ (Bases(e) = {} \/ other = Nothing)
  <2>1. CASE e.on = Nothing
    <3>1. base = Caller /\ base # Nothing /\ Bases(e) = {Caller}
      BY <1>1, <1>6, <2>1, CallAssumption DEF Bases
    <3> QED BY <3>1
  <2>2. CASE e.on # Nothing
    <3>1. base = f[e.on] /\ other = g[e.on] /\ Bases(e) = StaticType(e.on)
      BY <1>6, <2>2 DEF Bases
    <3>2. Sees(e.on, f, g)
      BY <1>3, <1>4, <1>5, <2>2, SeesAll
    <3> QED BY <1>5, <2>2, <3>1, <3>2 DEF Sees, Followed
  <2> QED BY <2>1, <2>2
<1>10. f[e] = ClassOfType(TypeOn(base, e), TRUE, TRUE)
  BY <1>2, <1>3, <1>6 DEF Infers, ClassOn
<1>11. n = CASE e.shape \in {"new", "cast"} -> e.name
             [] e.shape = "name"  -> DeclaredType(e.name)
             [] e.shape = "call"  -> IF (IF other = Nothing THEN Nothing ELSE ReturnType(other, e.name)) # Nothing
                                     THEN (IF other = Nothing THEN Nothing ELSE ReturnType(other, e.name))
                                     ELSE GlobalReturnType(e.name)
             [] e.shape = "field" -> IF other = Nothing THEN Nothing ELSE FieldType(other, e.name)
             [] OTHER             -> Nothing
  <2> DEFINE returned == IF other = Nothing THEN Nothing ELSE ReturnType(other, e.name)
  <2>1. other = IF e.on = Nothing THEN Caller ELSE InferredClass(e.on, FALSE)
    OBVIOUS
  <2>2. returned = IF other = Nothing THEN Nothing ELSE ReturnType(other, e.name)
    OBVIOUS
  <2> HIDE DEF other, returned, e
  <2>3. ReceiverTypeName(e) =
           CASE e.shape \in {"new", "cast"} -> e.name
             [] e.shape = "name"  -> DeclaredType(e.name)
             [] e.shape = "call"  -> IF returned # Nothing THEN returned ELSE GlobalReturnType(e.name)
             [] e.shape = "field" -> IF other = Nothing THEN Nothing ELSE FieldType(other, e.name)
             [] OTHER             -> Nothing
    BY <1>2, <2>1, <2>2, ReceiverTypeIs, ZenonT(40)
  <2> QED BY <2>3 DEF returned
<1>12. n # Nothing
  OBVIOUS
<1> HIDE DEF n, e, base, other
<1>13. CASE base = Nothing /\ Bases(e) # {} /\ e.shape \in {"call", "field"}
  <2>1. other = Nothing
    BY <1>9, <1>13
  <2>2. e.shape = "call" /\ n = GlobalReturnType(e.name)
    BY <1>11, <1>12, <1>13, <2>1
  <2>3. StaticType(e) = UNION {ReturnOf(c, e.name) : c \in Bases(e)}
    BY <1>8, <2>2, TypesOnShape
  <2>4. ASSUME NEW c \in Bases(e), NEW h \in Inherited(c, WithMethod(e.name))
        PROVE  Means(h, Decl(h).methods[e.name]) \subseteq ClassesNamed(n)
    <3>1. h \in index \cap WithMethod(e.name)
      BY <1>1, WithTyped DEF Inherited
    <3>2. n = Decl(h).methods[e.name]
      BY <1>1, <1>12, <2>2, <3>1, GlobalIsReturned
    <3> QED BY <1>1, <3>2 DEF Means, ClassesNamed
  <2> QED BY <2>3, <2>4 DEF ReturnOf, e, n
<1>14. CASE ~ (base = Nothing /\ Bases(e) # {} /\ e.shape \in {"call", "field"})
  <2>1. ~ Undeclared(e)
    BY <1>11, <1>12 DEF Undeclared
  <2>2. StaticType(e) \subseteq Means(Caller, TypeOn(base, e))
    BY <1>2, <1>8, <1>9, <1>14, <2>1, StepMeans
  <2>3. StaticType(e) = {}
    BY <1>7, <1>10, <2>2, PinnedIsMeant
  <2> QED BY <2>3 DEF e, n
<1> QED BY <1>13, <1>14

\* A class a call is pinned to is the only one Java finds the receiver to be of.
LEMMA TargetIsOnly ==
    ASSUME Whole, NEW k \in Calls, Rooted(k), WithinReach(k), TargetClass(k) # Nothing
    PROVE  Receivers(k) \subseteq {TargetClass(k)} /\ TargetClass(k) \in Classes
<1> DEFINE t == TargetClass(k)
<1>1. IndexTyped /\ Caller \in Classes
  BY WholeKnown, CallAssumption DEF IndexTyped, Caller
<1>2. k.receiver \in Maybe(Exprs)
  BY CallAssumption DEF Call
<1>3. CASE k.kind = "creation"
  <2>1. t = ClassOfType(k.callee, TRUE, FALSE) /\ Receivers(k) = Means(Caller, k.callee)
    BY <1>3 DEF TargetClass, Receivers
  <2>2. ClassOfType(k.callee, TRUE, FALSE) \in Maybe(Classes)
    BY <1>1, ClassOfTypeTyped
  <2> QED BY <2>1, <2>2, PinnedIsMeant DEF Maybe
<1>4. CASE k.kind # "creation" /\ OnItself(k)
  <2>1. t = Caller
    BY <1>4 DEF TargetClass
  <2>2. CASE k.receiver = Nothing
    BY <1>1, <1>4, <2>1, <2>2 DEF Receivers
  <2>3. CASE k.receiver # Nothing
    <3>1. k.receiver \in Exprs /\ k.receiver.shape \in {"this", "super"}
      BY <1>2, <1>4, <2>3 DEF OnItself, Maybe
    <3>2. k.receiver.on = Nothing
      BY <3>1, CallAssumption
    <3>3. k.receiver.shape = "this"
      BY <2>3, <3>1, <3>2, RootIs DEF Rooted
    <3>4. StaticType(k.receiver) = {Caller}
      BY <1>1, <3>1, <3>3, StaticTypeIs, TypesOnShape
    <3> QED BY <1>1, <1>4, <2>1, <2>3, <3>4 DEF Receivers
  <2> QED BY <2>2, <2>3
<1>5. CASE k.kind # "creation" /\ ~ OnItself(k)
  <2>1. t = InferredClass(k.receiver, TRUE) /\ k.receiver \in Exprs /\ k.receiver # Nothing
        /\ Followed(k.receiver)
    BY <1>2, <1>5, RootOf DEF TargetClass, OnItself, Maybe
  <2>2. PICK f : /\ Infers(f, TRUE)
                 /\ \A x \in Exprs : Followed(x) =>
                     InferredClass(x, TRUE) = IF Depth[x] > MaxDepth THEN Nothing ELSE f[x]
    BY <1>1, InferenceExists
  <2>3. PICK g : Infers(g, FALSE)
    BY <1>1, InferenceExists
  <2>4. t = f[k.receiver] /\ t \in Classes
    BY <2>1, <2>2 DEF Infers, Maybe
  <2>5. StaticType(k.receiver) \subseteq {t}
    BY <2>1, <2>2, <2>3, <2>4, SeesAll DEF Sees, Followed
  <2> QED BY <1>5, <2>1, <2>4, <2>5 DEF Receivers
<1> QED BY <1>3, <1>4, <1>5

\* The answer to a call over a program read as a whole holds all that Java may bind
\* it to.
LEMMA AnswerIsComplete ==
    ASSUME Whole, NEW k \in Calls, Rooted(k), WithinReach(k),
           Answer(k).how = "typed" \/ Cardinality(MethodsNamed(k.callee, Classes)) <= MaxTargets
    PROVE  JavaTargets(k) \subseteq Answer(k).to
<1>1. SupersAreKnown /\ IndexTyped /\ index = Classes /\ Caller \in Classes
  BY WholeKnown, CallAssumption DEF IndexTyped, Caller
<1>2. \A to \in JavaTargets(k) : \E c \in Receivers(k) : \E d \in Inherited(c, WithMethod(k.callee)) :
         to = <<d, k.callee>> /\ d \in WithMethod(k.callee) /\ d \in Classes
  BY WithTyped DEF JavaTargets, Receivers, Inherited
<1>3. k.receiver \in Maybe(Exprs)
  BY CallAssumption DEF Call
<1>4. CASE /\ Answer(k).how = "typed" /\ Answer(k).to = {}
           /\ k.kind # "creation" /\ k.receiver # Nothing /\ k.receiver.shape = "class"
  <2>1. k.receiver \in Exprs /\ Receivers(k) = StaticType(k.receiver)
    BY <1>3, <1>4 DEF Maybe, Receivers
  <2>2. StaticType(k.receiver) = {}
    BY <1>1, <1>4, <2>1, StaticTypeIs DEF TypesOn
  <2> QED BY <1>2, <2>1, <2>2
<1>5. CASE /\ Answer(k).how = "typed"
           /\ TargetClass(k) # Nothing /\ Answer(k).to = InHierarchy(TargetClass(k), k.callee)
  <2>1. Receivers(k) \subseteq {TargetClass(k)} /\ TargetClass(k) \in Classes
    BY <1>5, TargetIsOnly
  <2>2. Answer(k).to = {<<d, k.callee>> : d \in Inherited(TargetClass(k), WithMethod(k.callee))}
    BY <1>1, <1>5, <2>1, HierarchyRight
  <2> QED BY <1>2, <2>1, <2>2
<1>6. CASE /\ Answer(k).how = "typed"
           /\ TargetClass(k) = Nothing /\ k.kind # "creation" /\ ~ OnItself(k)
           /\ ReceiverTypeName(k.receiver) # Nothing
           /\ Answer(k).to = MethodsNamed(k.callee, UNION {NameAncestors(c) :
                                 c \in ClassesNamed(ReceiverTypeName(k.receiver))})
  <2> DEFINE named == ClassesNamed(ReceiverTypeName(k.receiver))
  <2>1. Receivers(k) = StaticType(k.receiver)
    BY <1>6 DEF Receivers, OnItself
  <2>2. Receivers(k) \subseteq named /\ named \in SUBSET Classes
    BY <1>1, <1>6, <2>1, StaticHasName, NamedFinite
  <2> HIDE DEF named
  <2>3. ASSUME NEW c \in Receivers(k), NEW d \in Inherited(c, WithMethod(k.callee))
        PROVE  d \in UNION {NameAncestors(x) : x \in named}
    <3>1. d \in Upwards(c, WithMethod(k.callee)) /\ c \in Classes /\ c \in named
      BY <2>2 DEF Inherited
    <3>2. d \in NameAncestors(c)
      BY <1>1, <3>1, AncestorsAreAll
    <3> QED BY <3>1, <3>2
  <2>4. Answer(k).to = MethodsNamed(k.callee, UNION {NameAncestors(c) : c \in named})
    BY <1>6 DEF named
  <2> QED BY <1>1, <1>2, <2>3, <2>4 DEF MethodsNamed
<1>7. CASE /\ Answer(k).how = "typed"
           /\ TargetClass(k) = Nothing /\ k.kind = "creation" /\ ClassesNamed(k.callee) # {}
           /\ Answer(k).to = MethodsNamed(k.callee, ClassesNamed(k.callee))
  <2>1. \A d \in Classes : d \in WithMethod(k.callee) => d \in ClassesNamed(k.callee)
    BY <1>1, <1>7 DEF Whole, OneMeaningPerName, ClassesNamed
  <2> QED BY <1>1, <1>2, <1>7, <2>1 DEF MethodsNamed
<1>8. CASE Answer(k).how = "heuristic" /\ Answer(k).to = ByNameOnly(k.callee)
  <2>1. Answer(k).to = MethodsNamed(k.callee, Classes)
    BY <1>8 DEF ByNameOnly
  <2> QED BY <1>1, <1>2, <2>1 DEF MethodsNamed
<1> QED BY <1>4, <1>5, <1>6, <1>7, <1>8, AnswerIs

-----------------------------------------------------------------------------
(* The answers of a run over the whole program.                            *)

\* What was answered has its edges.
AnswersAreEdges ==
    /\ program \in Programs /\ scope \in SUBSET Classes /\ index \in SUBSET scope
    /\ answered \in SUBSET Calls
    /\ answered # {} => index = scope
    /\ \A k \in answered : Answer(k).to \subseteq {e.to : e \in edges} \cup {<<Caller, program.method>>}

\* In every state of every run a call that was answered has all edges of its answer.
THEOREM AnswersAlwaysEdges == CallSpec => []AnswersAreEdges
<1>1. CallInit => AnswersAreEdges
  BY DEF CallInit, AnswersAreEdges
<1>2. AnswersAreEdges /\ [CallNext]_callVars => AnswersAreEdges'
  <2> SUFFICES ASSUME AnswersAreEdges, [CallNext]_callVars PROVE AnswersAreEdges'
    OBVIOUS
  <2>1. ASSUME NEW c \in Classes, Read(c) PROVE AnswersAreEdges'
    <3>1. /\ program' = program /\ scope' = scope /\ answered' = answered /\ answered = {}
          /\ index' \in SUBSET scope
      BY <2>1 DEF Read, AnswersAreEdges
    <3> QED BY <3>1 DEF AnswersAreEdges
  <2>2. ASSUME NEW k \in Calls, AnswerCall(k) PROVE AnswersAreEdges'
    <3> DEFINE self == <<Caller, program.method>>
               linked == {e.to : e \in edges} \cup {self}
               made == {[to |-> t, how |-> Answer(k).how, call |-> k] : t \in Answer(k).to \ linked}
    <3>1. /\ program' = program /\ scope' = scope /\ index' = index /\ index = scope
          /\ answered' = answered \cup {k} /\ edges' = edges \cup made
      BY <2>2 DEF AnswerCall
    <3>2. (\A q : Answer(q)' = Answer(q)) /\ Caller' = Caller
      BY <3>1, AnswerStays DEF Caller
    <3>3. ASSUME NEW t \in Answer(k).to \ linked PROVE \E e \in made : e.to = t
      <4> DEFINE e == [to |-> t, how |-> Answer(k).how, call |-> k]
      <4>1. e \in made /\ e.to = t
        OBVIOUS
      <4> QED BY <4>1
    <3> HIDE DEF made
    <3>4. Answer(k).to \subseteq {e.to : e \in edges'} \cup {self}
      BY <3>1, <3>3
    <3>5. \A q \in answered : Answer(q).to \subseteq {e.to : e \in edges'} \cup {self}
      BY <3>1 DEF AnswersAreEdges
    <3> QED BY <3>1, <3>2, <3>4, <3>5 DEF AnswersAreEdges
  <2>3. CASE UNCHANGED callVars
    <3>1. program' = program /\ scope' = scope /\ index' = index /\ edges' = edges /\ answered' = answered
      BY <2>3 DEF callVars
    <3>2. (\A q : Answer(q)' = Answer(q)) /\ Caller' = Caller
      BY <3>1, AnswerStays DEF Caller
    <3> QED BY <3>1, <3>2 DEF AnswersAreEdges
  <2> QED BY <2>1, <2>2, <2>3 DEF CallNext
<1> QED BY <1>1, <1>2, PTL DEF CallSpec

(* A run over the whole program loses no call that Java may bind, unless   *)
(* it has to guess and the name is too common.                             *)
THEOREM NoCallIsEverLost == CallSpec => []NoCallIsLost
<1>1. AnswersAreEdges => NoCallIsLost
  <2> SUFFICES ASSUME AnswersAreEdges, scope = Classes, NEW k \in answered,
                      Rooted(k), WithinReach(k), OneMeaningPerName, OneTypePerMember,
                      Answer(k).how = "typed" \/ Cardinality(MethodsNamed(k.callee, Classes)) <= MaxTargets
               PROVE  JavaTargets(k) \subseteq {e.to : e \in edges} \cup {<<Caller, program.method>>}
    BY DEF NoCallIsLost
  <2>1. Whole /\ k \in Calls
    BY DEF AnswersAreEdges, Whole, IndexTyped
  <2>2. JavaTargets(k) \subseteq Answer(k).to
    BY <2>1, AnswerIsComplete
  <2> QED BY <2>2 DEF AnswersAreEdges
<1> QED BY <1>1, AnswersAlwaysEdges, PTL
=============================================================================
