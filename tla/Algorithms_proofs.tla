-------------------------- MODULE Algorithms_proofs ------------------------
(***************************************************************************)
(* Proofs about three algorithms: the slices and the neighbourhoods of     *)
(* CodeSlicer, for any graph, request and budget; the best paths of        *)
(* EpisodicBundles, for any episode, hits and costs; the control flow of   *)
(* ControlFlow, for any method.                                            *)
(***************************************************************************)
EXTENDS CodeSlicer, EpisodicBundles, ControlFlow, FiniteSetTheorems, Induction, TLAPS

-----------------------------------------------------------------------------
(* Slices: the nodes the asked edges lead to.  Graphs need not be finite   *)
(* in number, nor their nodes.                                             *)

Queued == {queue[i] : i \in DOMAIN queue}
Known  == visited \cup Queued

\* The edge at position i has been looked at for node n.
LookedAt(i, n) == n \in visited /\ (n = current => i < at)

SliceTyped ==
    /\ graph \in Seq(Edge) /\ request \in Request
    /\ visited \subseteq Node /\ queue \in Seq(Node)
    /\ current \in visited \cup {Nobody}
    /\ at \in Nat \ {0}

\* Where a slice stands: it knows the start, it has kept and queued what the
\* edges looked at give, it has kept nothing else, and all it knows is in
\* every closed set around the start.
SearchInv ==
    /\ request.start \in Known
    /\ \A i \in DOMAIN graph, n \in Node :
          LookedAt(i, n) /\ Followed(graph[i], n) =>
              Ends(graph[i], n) \subseteq Known /\ graph[i] \in collected
    /\ \A e \in collected : \E i \in DOMAIN graph, n \in visited : e = graph[i] /\ Followed(e, n)
    /\ \A c \in SUBSET Node : request.start \in c /\ Closed(c) => Known \subseteq c

SliceInv == SliceTyped /\ (IsSlice => SearchInv)

LEMMA QueueTail ==
    ASSUME NEW S, NEW q \in Seq(S), q # <<>>
    PROVE  /\ Tail(q) \in Seq(S) /\ Head(q) \in S
           /\ {q[i] : i \in DOMAIN q} = {Head(q)} \cup {Tail(q)[i] : i \in DOMAIN Tail(q)}
<1>1. /\ Tail(q) \in Seq(S) /\ Head(q) = q[1] /\ Head(q) \in S
      /\ Len(q) \in Nat \ {0} /\ Len(Tail(q)) = Len(q) - 1
      /\ DOMAIN q = 1 .. Len(q) /\ DOMAIN Tail(q) = 1 .. Len(q) - 1
      /\ \A i \in 1 .. Len(q) - 1 : Tail(q)[i] = q[i + 1]
  OBVIOUS
<1>2. ASSUME NEW i \in DOMAIN q
      PROVE  q[i] \in {Head(q)} \cup {Tail(q)[j] : j \in DOMAIN Tail(q)}
  <2>1. CASE i = 1
    BY <1>1, <2>1
  <2>2. CASE i # 1
    <3>1. i - 1 \in DOMAIN Tail(q) /\ Tail(q)[i - 1] = q[i]
      BY <1>1, <2>2
    <3> QED BY <3>1
  <2> QED BY <2>1, <2>2
<1>3. ASSUME NEW j \in DOMAIN Tail(q) PROVE Tail(q)[j] \in {q[i] : i \in DOMAIN q}
  <2>1. j + 1 \in DOMAIN q /\ Tail(q)[j] = q[j + 1]
    BY <1>1
  <2> QED BY <2>1
<1>4. Head(q) \in {q[i] : i \in DOMAIN q}
  BY <1>1
<1> QED BY <1>1, <1>2, <1>3, <1>4

LEMMA QueueAppend ==
    ASSUME NEW S, NEW q \in Seq(S), NEW m \in S
    PROVE  /\ Append(q, m) \in Seq(S)
           /\ {Append(q, m)[i] : i \in DOMAIN Append(q, m)} = {q[i] : i \in DOMAIN q} \cup {m}
<1>1. /\ Append(q, m) \in Seq(S) /\ Len(q) \in Nat
      /\ DOMAIN q = 1 .. Len(q) /\ DOMAIN Append(q, m) = 1 .. Len(q) + 1
      /\ Append(q, m)[Len(q) + 1] = m
      /\ \A i \in 1 .. Len(q) : Append(q, m)[i] = q[i]
  OBVIOUS
<1>2. ASSUME NEW i \in DOMAIN Append(q, m)
      PROVE  Append(q, m)[i] \in {q[j] : j \in DOMAIN q} \cup {m}
  BY <1>1
<1>3. ASSUME NEW i \in DOMAIN q
      PROVE  q[i] \in {Append(q, m)[j] : j \in DOMAIN Append(q, m)}
  <2>1. i \in DOMAIN Append(q, m) /\ Append(q, m)[i] = q[i]
    BY <1>1
  <2> QED BY <2>1
<1>4. m \in {Append(q, m)[j] : j \in DOMAIN Append(q, m)}
  BY <1>1
<1> QED BY <1>1, <1>2, <1>3, <1>4

\* In a slice an edge leads to one node.
LEMMA OneEnd ==
    ASSUME SliceTyped, IsSlice, NEW e \in Edge, NEW n \in Node, Followed(e, n)
    PROVE  \E m \in Node : Ends(e, n) = {m} /\ (CHOOSE x \in Ends(e, n) : TRUE) = m
<1>1. request.direction \in {"forward", "backward"}
  BY DEF SliceTyped, IsSlice, Request
<1>2. e.src \in Node /\ e.dst \in Node
  BY DEF Edge
<1>3. CASE Leaves(e, n)
  <2>1. Ends(e, n) = {e.dst}
    BY <1>1, <1>2, <1>3 DEF Ends, Leaves, Enters
  <2> QED BY <1>2, <2>1
<1>4. CASE Enters(e, n)
  <2>1. Ends(e, n) = {e.src}
    BY <1>1, <1>2, <1>4 DEF Ends, Leaves, Enters
  <2> QED BY <1>2, <2>1
<1> QED BY <1>3, <1>4 DEF Followed

LEMMA InitSlice == SliceInit => SliceInv
<1> SUFFICES ASSUME SliceInit PROVE SliceInv
  OBVIOUS
<1>1. /\ graph \in Seq(Edge) /\ request \in Request /\ request.start \in Node
  BY SlicerAssumption DEF SliceInit, Request
<1>2. SliceTyped
  BY <1>1 DEF SliceInit, SliceTyped
<1>3. Known = {request.start} /\ visited = {} /\ collected = {}
  BY <1>1 DEF SliceInit, Known, Queued
<1> QED BY <1>2, <1>3 DEF SliceInv, SearchInv, LookedAt

\* A step that knows, keeps and has looked at no less and no more.
LEMMA SearchGoesOn ==
    ASSUME SearchInv, UNCHANGED <<graph, request, collected>>, Known' = Known,
           visited \subseteq visited',
           \A i \in DOMAIN graph, n \in Node : LookedAt(i, n)' => LookedAt(i, n)
    PROVE  SearchInv'
  BY DEF SearchInv, Followed, Leaves, Enters, Ends, Closed, Beside, GraphEdges

LEMMA PopSearches ==
    ASSUME SliceTyped, SearchInv, Pop
    PROVE  SliceTyped' /\ SearchInv'
<1>1. /\ Tail(queue) \in Seq(Node) /\ Head(queue) \in Node
      /\ Queued = {Head(queue)} \cup Queued'
  BY QueueTail DEF Pop, SliceTyped, Queued
<1>2. CASE Head(queue) \in visited
  <2>1. SliceTyped'
    BY <1>1, <1>2 DEF Pop, SliceTyped
  <2>2. Known' = Known
    BY <1>1, <1>2 DEF Pop, Known
  <2>3. UNCHANGED <<graph, request, collected, visited, current, at>>
    BY <1>2 DEF Pop
  <2> QED BY <2>1, <2>2, <2>3, SearchGoesOn DEF LookedAt
<1>3. CASE Head(queue) \notin visited
  <2>1. /\ visited' = visited \cup {Head(queue)} /\ current' = Head(queue) /\ at' = 1
        /\ current = Nobody /\ UNCHANGED <<graph, request, collected>>
        /\ queue' = Tail(queue)
    BY <1>3 DEF Pop, Enter
  <2>2. SliceTyped'
    BY <1>1, <2>1 DEF SliceTyped
  <2>3. Known' = Known
    BY <1>1, <2>1 DEF Known
  <2>4. \A i \in DOMAIN graph, n \in Node : LookedAt(i, n)' => LookedAt(i, n)
    BY <1>3, <2>1, SlicerAssumption DEF LookedAt, SliceTyped
  <2> QED BY <2>1, <2>2, <2>3, <2>4, SearchGoesOn
<1> QED BY <1>2, <1>3

LEMMA LookSearches ==
    ASSUME SliceTyped, SearchInv, IsSlice, Look
    PROVE  SliceTyped' /\ SearchInv'
<1> DEFINE e == graph[at]
<1>1. /\ at \in DOMAIN graph /\ e \in Edge /\ current \in visited /\ current \in Node
      /\ at' = at + 1 /\ UNCHANGED <<graph, request, visited, current>>
  BY DEF Look, SliceTyped
<1> HIDE DEF e
<1>2. CASE ~Followed(e, current)
  <2>1. UNCHANGED <<collected, queue>>
    BY <1>2 DEF Look, e
  <2>2. SliceTyped' /\ Known' = Known
    BY <1>1, <2>1 DEF SliceTyped, Known, Queued
  <2>3. \A i \in DOMAIN graph, n \in Node :
            LookedAt(i, n)' => LookedAt(i, n) \/ (i = at /\ n = current)
    BY <1>1 DEF LookedAt, SliceTyped
  <2>4. \A i \in DOMAIN graph, n \in Node :
            LookedAt(i, n)' /\ Followed(graph[i], n) => LookedAt(i, n)
    BY <1>2, <2>3 DEF e
  <2> QED BY <1>1, <2>1, <2>2, <2>4
          DEF SearchInv, Followed, Leaves, Enters, Ends, Closed, Beside, GraphEdges
<1>3. CASE Followed(e, current)
  <2>1. PICK m \in Node : Ends(e, current) = {m} /\ (CHOOSE x \in Ends(e, current) : TRUE) = m
    BY <1>1, <1>3, OneEnd
  <2>2. /\ collected' = collected \cup {e}
        /\ queue' = IF m \notin visited THEN Append(queue, m) ELSE queue
    BY <1>3, <2>1 DEF Look, e
  <2>3. SliceTyped' /\ Known' = Known \cup {m}
    <3>1. CASE m \in visited
      BY <1>1, <2>2, <3>1 DEF SliceTyped, Known, Queued
    <3>2. CASE m \notin visited
      <4>1. queue' = Append(queue, m) /\ queue \in Seq(Node)
        BY <2>2, <3>2 DEF SliceTyped
      <4>2. queue' \in Seq(Node) /\ Queued' = Queued \cup {m}
        BY <4>1, QueueAppend DEF Queued
      <4> QED BY <1>1, <4>2 DEF SliceTyped, Known
    <3> QED BY <3>1, <3>2
  <2>4. request'.start \in Known'
    BY <1>1, <2>3 DEF SearchInv
  <2>5. ASSUME NEW i \in DOMAIN graph', NEW n \in Node, LookedAt(i, n)', Followed(graph[i], n)'
        PROVE  Ends(graph[i], n)' \subseteq Known' /\ graph'[i] \in collected'
    <3>1. Followed(graph[i], n) /\ Ends(graph[i], n)' = Ends(graph[i], n)
      BY <1>1, <2>5 DEF Followed, Leaves, Enters, Ends
    <3>2. CASE LookedAt(i, n)
      BY <1>1, <2>2, <2>3, <3>1, <3>2 DEF SearchInv
    <3>3. CASE ~LookedAt(i, n)
      <4>1. i = at /\ n = current
        BY <1>1, <2>5, <3>3 DEF LookedAt, SliceTyped
      <4> QED BY <1>1, <2>1, <2>2, <2>3, <3>1, <4>1 DEF e
    <3> QED BY <3>2, <3>3
  <2>6. ASSUME NEW d \in collected'
        PROVE  \E i \in DOMAIN graph', n \in visited' : d = graph'[i] /\ Followed(d, n)'
    <3>1. \E i \in DOMAIN graph, n \in visited : d = graph[i] /\ Followed(d, n)
      BY <1>1, <1>3, <2>2 DEF SearchInv, e
    <3> QED BY <1>1, <3>1 DEF Followed, Leaves, Enters
  <2>7. ASSUME NEW c \in SUBSET Node, request'.start \in c, Closed(c)' PROVE Known' \subseteq c
    <3>1. request.start \in c /\ Closed(c)
      BY <1>1, <2>7 DEF Closed, Beside, GraphEdges, Followed, Leaves, Enters, Ends
    <3>2. Known \subseteq c
      BY <3>1 DEF SearchInv
    <3>3. current \in c
      BY <1>1, <3>2 DEF Known
    <3>4. Beside(current) \subseteq c
      BY <3>1, <3>3 DEF Closed
    <3>5. e \in GraphEdges
      BY <1>1 DEF GraphEdges, e
    <3>6. Ends(e, current) \subseteq c
      BY <1>3, <3>4, <3>5 DEF Beside
    <3> QED BY <2>1, <2>3, <3>2, <3>6
  <2> QED BY <2>3, <2>4, <2>5, <2>6, <2>7 DEF SearchInv
<1> QED BY <1>2, <1>3

LEMMA LeaveSearches ==
    ASSUME SliceTyped, SearchInv, Leave
    PROVE  SliceTyped' /\ SearchInv'
<1>1. SliceTyped' /\ Known' = Known
  BY DEF Leave, SliceTyped, Known, Queued
<1>2. \A i \in DOMAIN graph : i < at
  BY DEF Leave, SliceTyped
<1>3. \A i \in DOMAIN graph, n \in Node : LookedAt(i, n)' => LookedAt(i, n)
  BY <1>2 DEF Leave, LookedAt
<1> QED BY <1>1, <1>3, SearchGoesOn DEF Leave

LEMMA StepSlice == SliceInv /\ [SliceNext]_sliceVars => SliceInv'
<1> SUFFICES ASSUME SliceInv, [SliceNext]_sliceVars PROVE SliceInv'
  OBVIOUS
<1> USE DEF SliceInv
<1>0. IsSlice' <=> IsSlice
  BY DEF SliceNext, sliceVars, IsSlice, Pop, Take, Look, Leave, NextHop, AddRest
<1>1. CASE Pop
  BY <1>0, <1>1, PopSearches DEF Pop
<1>2. ASSUME NEW n \in Node, Take(n) PROVE SliceInv'
  BY <1>0, <1>2 DEF Take, Enter, SliceTyped
<1>3. CASE Look
  <2>1. CASE IsSlice
    BY <1>0, <1>3, <2>1, LookSearches
  <2>2. CASE ~IsSlice
    BY <1>0, <1>3, <2>2 DEF Look, SliceTyped
  <2> QED BY <2>1, <2>2
<1>4. CASE Leave
  <2>1. CASE IsSlice
    BY <1>0, <1>4, <2>1, LeaveSearches
  <2>2. CASE ~IsSlice
    BY <1>0, <1>4, <2>2 DEF Leave, SliceTyped
  <2> QED BY <2>1, <2>2
<1>5. CASE NextHop
  BY <1>0, <1>5 DEF NextHop, SliceTyped
<1>6. ASSUME NEW n \in Node, AddRest(n) PROVE SliceInv'
  BY <1>0, <1>6 DEF AddRest, SliceTyped
<1>7. CASE UNCHANGED sliceVars
  <2>1. SliceTyped' /\ Known' = Known
    BY <1>7 DEF sliceVars, SliceTyped, Known, Queued
  <2> QED BY <1>0, <1>7, <2>1, SearchGoesOn DEF sliceVars, LookedAt
<1> QED BY <1>1, <1>2, <1>3, <1>4, <1>5, <1>6, <1>7 DEF SliceNext

(* A slice holds nothing that the asked edges do not lead to; with room    *)
(* left it holds all they lead to; and its edges are those followed from   *)
(* its nodes: for every graph, request and budget.                         *)
THEOREM SliceIsAlwaysExact == SliceSpec => []SliceIsExact
<1>1. SliceInv => SliceIsExact
  <2> SUFFICES ASSUME SliceInv, IsSlice
               PROVE  /\ \A c \in SUBSET Node :
                            request.start \in c /\ Closed(c) => visited \subseteq c
                      /\ SliceReturns /\ Room => request.start \in visited /\ Closed(visited)
                      /\ SliceReturns =>
                            collected = {e \in GraphEdges : \E n \in visited : Followed(e, n)}
    BY DEF SliceIsExact
  <2> USE DEF SliceInv
  <2>1. \A c \in SUBSET Node : request.start \in c /\ Closed(c) => visited \subseteq c
    BY DEF SearchInv, Known
  <2>2. ASSUME SliceReturns, NEW i \in DOMAIN graph, NEW n \in visited PROVE LookedAt(i, n)
    BY <2>2, SlicerAssumption DEF SliceReturns, LookedAt, SliceTyped
  <2>3. ASSUME SliceReturns, Room PROVE request.start \in visited /\ Closed(visited)
    <3>1. Known = visited
      BY <2>3 DEF SliceReturns, Known, Queued
    <3>2. ASSUME NEW n \in visited, NEW d \in GraphEdges, Followed(d, n)
          PROVE  Ends(d, n) \subseteq visited
      <4>1. PICK i \in DOMAIN graph : d = graph[i]
        BY DEF GraphEdges
      <4> QED BY <2>2, <2>3, <3>1, <3>2, <4>1 DEF SearchInv, SliceTyped
    <3> QED BY <3>1, <3>2 DEF SearchInv, Closed, Beside
  <2>4. ASSUME SliceReturns
        PROVE  collected = {e \in GraphEdges : \E n \in visited : Followed(e, n)}
    <3>1. ASSUME NEW d \in collected
          PROVE  d \in GraphEdges /\ \E n \in visited : Followed(d, n)
      BY DEF SearchInv, GraphEdges
    <3>2. ASSUME NEW d \in GraphEdges, NEW n \in visited, Followed(d, n) PROVE d \in collected
      <4>1. PICK i \in DOMAIN graph : d = graph[i]
        BY DEF GraphEdges
      <4> QED BY <2>2, <2>4, <3>2, <4>1 DEF SearchInv, SliceTyped
    <3> QED BY <3>1, <3>2
  <2> QED BY <2>1, <2>3, <2>4
<1> QED BY <1>1, InitSlice, StepSlice, PTL DEF SliceSpec

-----------------------------------------------------------------------------
(* Slices and neighbourhoods: the nearest nodes first.                     *)

\* w gives, for every distance, the nodes no farther from the start.
Layers(w) ==
  /\ w[0] = {request.start}
  /\ \A k \in Nat : w[k + 1] = w[k] \cup UNION {Beside(n) : n \in w[k]}

LEMMA WithinIsLayers ==
    ASSUME request.start \in Node
    PROVE  Layers(Within)
<1> DEFINE step == [s \in SUBSET Node |-> s \cup UNION {Beside(n) : n \in s}]
<1>1. step \in [SUBSET Node -> SUBSET Node]
  BY DEF Beside, Ends
<1> HIDE DEF step
<1>2. PICK f \in [Nat -> SUBSET Node] :
          f[0] = {request.start} /\ \A n \in Nat : f[n + 1] = step[f[n]]
  <2> DEFINE S == SUBSET Node
             s == {request.start}
  <2>1. s \in S /\ step \in [S -> S]
    BY <1>1
  <2> HIDE DEF S, s
  <2>2. Iterations(S, s, step) # {}
    BY <2>1, IterationExists
  <2> QED BY <2>2 DEF Iterations, S, s
<1>3. f = [k \in Nat |-> IF k = 0 THEN {request.start}
                         ELSE f[k-1] \cup UNION {Beside(n) : n \in f[k-1]}]
  <2>1. ASSUME NEW k \in Nat, k # 0
        PROVE  f[k] = f[k-1] \cup UNION {Beside(n) : n \in f[k-1]}
    <3>1. k - 1 \in Nat /\ (k - 1) + 1 = k
      BY <2>1
    <3>2. f[k] = step[f[k-1]] /\ f[k-1] \in SUBSET Node
      BY <1>2, <3>1
    <3> QED BY <3>2 DEF step
  <2> QED BY <1>2, <2>1
<1> DEFINE within[k \in Nat] == IF k = 0 THEN {request.start}
                                ELSE within[k-1] \cup UNION {Beside(n) : n \in within[k-1]}
<1>4. within = [k \in Nat |-> IF k = 0 THEN {request.start}
                              ELSE within[k-1] \cup UNION {Beside(n) : n \in within[k-1]}]
  <2> HIDE DEF Beside
  <2> QED BY <1>3
<1>5. Within = within
  BY DEF Within
<1> HIDE DEF within
<1>6. \A k \in Nat : k + 1 # 0 /\ (k + 1) - 1 = k /\ k + 1 \in Nat
  OBVIOUS
<1> QED BY <1>4, <1>5, <1>6 DEF Layers

\* Farther layers hold nearer ones.
LEMMA LayersGrow ==
    ASSUME NEW w, Layers(w), NEW k \in Nat, NEW m \in Nat, k <= m
    PROVE  w[k] \subseteq w[m]
<1> DEFINE T == {n \in Nat : w[k] \subseteq w[k + n]}
<1>1. 0 \in T
  OBVIOUS
<1>2. ASSUME NEW n \in T PROVE n + 1 \in T
  <2>1. k + n \in Nat /\ (k + n) + 1 = k + (n + 1)
    OBVIOUS
  <2>2. w[k + n] \subseteq w[k + (n + 1)]
    BY <2>1 DEF Layers
  <2> QED BY <2>2
<1> HIDE DEF T
<1>3. T = Nat
  BY <1>1, <1>2, AllNumbers DEF T
<1>4. m - k \in Nat /\ k + (m - k) = m
  OBVIOUS
<1> QED BY <1>3, <1>4 DEF T

LEMMA LayersStay ==
    ASSUME NEW w, UNCHANGED <<graph, request>>
    PROVE  Layers(w)' <=> Layers(w)
  BY DEF Layers, Beside, GraphEdges, Followed, Leaves, Enters, Ends

\* What an edge followed from a node of a layer leads to is in the next one.
LEMMA NextLayer ==
    ASSUME NEW w, Layers(w), NEW k \in Nat, NEW n \in w[k], NEW j \in DOMAIN graph,
           Followed(graph[j], n)
    PROVE  Ends(graph[j], n) \subseteq w[k + 1]
  BY DEF Layers, Beside, GraphEdges

\* A search kept the layers below d, and of layer d nothing but it.
Reaches(w, d) == visited \subseteq w[d] /\ \A k \in Nat : k < d => w[k] \subseteq visited

\* A slice: the first j nodes of the queue are of layer d and complete it, the
\* others are of the next layer.
QueueInv(w) ==
    \E d \in Nat : \E j \in 0 .. Len(queue) :
        /\ Reaches(w, d)
        /\ w[d] \subseteq visited \cup {queue[x] : x \in 1 .. j}
        /\ \A x \in DOMAIN queue : queue[x] \in w[IF x <= j THEN d ELSE d + 1]

\* The nodes of a neighbourhood whose edges are looked at.
Expanded(w) ==
    IF hop < request.max_hops THEN visited ELSE IF hop = 0 THEN {} ELSE w[hop - 1]

\* A neighbourhood: the hops count the layers, until the budget is used up.
BallInv(w) ==
    /\ hop \in 0 .. request.max_hops
    /\ visited \subseteq Node
    /\ current # Nobody => hop < request.max_hops
    /\ \E d \in 0 .. hop :
          /\ Reaches(w, d)
          /\ d # hop => ~ Room /\ current = Nobody /\ hop = request.max_hops
          /\ d = hop =>
                /\ frontier \subseteq w[d] /\ w[d] \subseteq visited \cup frontier
                /\ onward \subseteq w[d + 1]
                /\ \A x \in DOMAIN graph, n \in Expanded(w) :
                      (n = current => x < at) /\ Followed(graph[x], n) =>
                          /\ Ends(graph[x], n) \subseteq visited \cup frontier \cup onward
                          /\ graph[x] \in collected
                /\ \A e \in collected :
                      \E x \in DOMAIN graph, n \in Expanded(w) : e = graph[x] /\ Followed(e, n)

NearInv ==
    \A w : Layers(w) => IF IsSlice THEN QueueInv(w) ELSE BallInv(w)

\* The queue is exhausted up to layer d: the next layer is complete.
LEMMA NextQueueLayer ==
    ASSUME SliceTyped, SearchInv, current = Nobody, NEW w, Layers(w), QueueInv(w), queue # <<>>
    PROVE  \E d \in Nat : \E j \in 1 .. Len(queue) :
              /\ Reaches(w, d)
              /\ w[d] \subseteq visited \cup {queue[x] : x \in 1 .. j}
              /\ \A x \in DOMAIN queue : queue[x] \in w[IF x <= j THEN d ELSE d + 1]
<1>1. PICK d \in Nat, j \in 0 .. Len(queue) :
          /\ Reaches(w, d)
          /\ w[d] \subseteq visited \cup {queue[x] : x \in 1 .. j}
          /\ \A x \in DOMAIN queue : queue[x] \in w[IF x <= j THEN d ELSE d + 1]
  BY DEF QueueInv
<1>2. Len(queue) \in Nat \ {0} /\ DOMAIN queue = 1 .. Len(queue)
  BY DEF SliceTyped
<1>3. CASE j # 0
  BY <1>1, <1>2, <1>3
<1>4. CASE j = 0
  <2>1. visited = w[d]
    <3>1. {queue[x] : x \in 1 .. j} = {}
      BY <1>4
    <3> QED BY <1>1, <3>1 DEF Reaches
  <2>2. ASSUME NEW n \in visited PROVE Beside(n) \subseteq Known
    <3>1. n \in Node /\ n # current
      BY SlicerAssumption DEF SliceTyped
    <3>2. \A x \in DOMAIN graph : Followed(graph[x], n) => Ends(graph[x], n) \subseteq Known
      BY <3>1 DEF SearchInv, LookedAt
    <3> QED BY <3>2 DEF Beside, GraphEdges
  <2>3. w[d + 1] \subseteq Known
    BY <2>1, <2>2 DEF Layers, Known
  <2>4. Queued = {queue[x] : x \in 1 .. Len(queue)}
    BY <1>2 DEF Queued
  <2>5. Reaches(w, d + 1)
    <3>1. \A k \in Nat : k < d + 1 => w[k] \subseteq visited
      BY <2>1, LayersGrow
    <3>2. w[d] \subseteq w[d + 1]
      BY DEF Layers
    <3> QED BY <2>1, <3>1, <3>2 DEF Reaches
  <2>6. \A x \in DOMAIN queue : queue[x] \in w[IF x <= Len(queue) THEN d + 1 ELSE (d + 1) + 1]
    BY <1>1, <1>2, <1>4
  <2>7. d + 1 \in Nat /\ Len(queue) \in 1 .. Len(queue)
    BY <1>2
  <2>8. w[d + 1] \subseteq visited \cup {queue[x] : x \in 1 .. Len(queue)}
    BY <2>3, <2>4 DEF Known
  <2> QED BY <2>5, <2>6, <2>7, <2>8
<1> QED BY <1>3, <1>4

LEMMA PopNear ==
    ASSUME SliceTyped, SearchInv, Pop, NEW w, Layers(w), QueueInv(w)
    PROVE  QueueInv(w)'
<1>1. PICK d \in Nat, j \in 1 .. Len(queue) :
              /\ Reaches(w, d)
              /\ w[d] \subseteq visited \cup {queue[x] : x \in 1 .. j}
              /\ \A x \in DOMAIN queue : queue[x] \in w[IF x <= j THEN d ELSE d + 1]
  BY NextQueueLayer DEF Pop
<1>2. /\ Len(queue) \in Nat \ {0} /\ DOMAIN queue = 1 .. Len(queue)
      /\ Len(queue') = Len(queue) - 1 /\ DOMAIN queue' = 1 .. Len(queue) - 1
      /\ \A x \in 1 .. Len(queue) - 1 : queue'[x] = queue[x + 1]
      /\ Head(queue) = queue[1]
  BY DEF Pop, SliceTyped
<1>3. visited' = visited \cup {queue[1]}
  BY <1>2 DEF Pop, Enter
<1>4. queue[1] \in w[d]
  BY <1>1, <1>2
<1>5. Reaches(w, d)'
  BY <1>1, <1>3, <1>4 DEF Reaches
<1>6. w[d] \subseteq visited' \cup {queue'[x] : x \in 1 .. j - 1}
  <2>1. \A x \in 1 .. j : x = 1 \/ (x - 1 \in 1 .. j - 1 /\ queue[x] = queue'[x - 1])
    BY <1>2
  <2> QED BY <1>1, <1>3, <2>1
<1>7. \A x \in DOMAIN queue' : queue'[x] \in w[IF x <= j - 1 THEN d ELSE d + 1]
  <2>1. \A x \in DOMAIN queue' : queue'[x] = queue[x + 1] /\ x + 1 \in DOMAIN queue
                                 /\ (x <= j - 1 <=> x + 1 <= j)
    BY <1>2
  <2> QED BY <1>1, <2>1
<1>8. j - 1 \in 0 .. Len(queue')
  BY <1>2
<1> QED BY <1>5, <1>6, <1>7, <1>8 DEF QueueInv

LEMMA LookNear ==
    ASSUME SliceTyped, IsSlice, Look, NEW w, Layers(w), QueueInv(w)
    PROVE  QueueInv(w)'
<1>1. PICK d \in Nat, j \in 0 .. Len(queue) :
          /\ Reaches(w, d)
          /\ w[d] \subseteq visited \cup {queue[x] : x \in 1 .. j}
          /\ \A x \in DOMAIN queue : queue[x] \in w[IF x <= j THEN d ELSE d + 1]
  BY DEF QueueInv
<1>2. at \in DOMAIN graph /\ graph[at] \in Edge /\ current \in visited /\ current \in Node
  BY DEF Look, SliceTyped
<1>3. visited' = visited
  BY DEF Look
<1>4. CASE queue' = queue
  <2>1. Reaches(w, d)'
    BY <1>1, <1>3 DEF Reaches
  <2>2. /\ w[d] \subseteq visited' \cup {queue'[x] : x \in 1 .. j}
        /\ \A x \in DOMAIN queue' : queue'[x] \in w[IF x <= j THEN d ELSE d + 1]
        /\ j \in 0 .. Len(queue')
    BY <1>1, <1>3, <1>4
  <2> QED BY <2>1, <2>2 DEF QueueInv
<1>5. CASE queue' # queue
  <2>1. Followed(graph[at], current)
        /\ queue' = Append(queue, CHOOSE m \in Ends(graph[at], current) : TRUE)
    BY <1>5 DEF Look
  <2>2. PICK m \in Node : Ends(graph[at], current) = {m} /\ queue' = Append(queue, m)
    BY <1>2, <2>1, OneEnd
  <2>3. m \in w[d + 1]
    BY <1>1, <1>2, <2>1, <2>2, NextLayer DEF Reaches
  <2>4. /\ Len(queue) \in Nat /\ Len(queue') = Len(queue) + 1
        /\ DOMAIN queue = 1 .. Len(queue) /\ DOMAIN queue' = 1 .. Len(queue) + 1
        /\ queue'[Len(queue) + 1] = m /\ \A x \in 1 .. Len(queue) : queue'[x] = queue[x]
    BY <2>2 DEF SliceTyped
  <2>5. w[d] \subseteq visited' \cup {queue'[x] : x \in 1 .. j}
    BY <1>1, <1>3, <2>4
  <2>6. \A x \in DOMAIN queue' : queue'[x] \in w[IF x <= j THEN d ELSE d + 1]
    BY <1>1, <2>3, <2>4
  <2>7. j \in 0 .. Len(queue') /\ Reaches(w, d)'
    BY <1>1, <1>3, <2>4 DEF Reaches
  <2> QED BY <2>5, <2>6, <2>7 DEF QueueInv
<1> QED BY <1>4, <1>5
\* Where a neighbourhood stands while it expands hop d.
HopInv(w, d) ==
    /\ frontier \subseteq w[d] /\ w[d] \subseteq visited \cup frontier
    /\ onward \subseteq w[d + 1]
    /\ \A x \in DOMAIN graph, n \in Expanded(w) :
          (n = current => x < at) /\ Followed(graph[x], n) =>
              /\ Ends(graph[x], n) \subseteq visited \cup frontier \cup onward
              /\ graph[x] \in collected
    /\ \A e \in collected :
          \E x \in DOMAIN graph, n \in Expanded(w) : e = graph[x] /\ Followed(e, n)

LEMMA TakeNear ==
    ASSUME SliceTyped, NEW n \in Node, Take(n), NEW w, Layers(w), BallInv(w)
    PROVE  BallInv(w)'
<1>1. /\ hop < request.max_hops /\ hop \in 0 .. request.max_hops /\ current = Nobody
      /\ visited' = visited \cup {n} /\ current' = n /\ at' = 1 /\ n \in frontier
      /\ UNCHANGED <<graph, request, collected, frontier, onward, hop>>
  BY DEF Take, Enter, BallInv
<1>2. Reaches(w, hop) /\ HopInv(w, hop)
  BY <1>1 DEF BallInv, HopInv
<1>3. Reaches(w, hop)'
  BY <1>1, <1>2 DEF Reaches, HopInv
<1>4. Expanded(w) = visited /\ Expanded(w)' = visited'
  BY <1>1 DEF Expanded
<1>5. HopInv(w, hop)'
  <2>1. ASSUME NEW x \in DOMAIN graph, NEW m \in visited', m = current' => x < at',
               Followed(graph[x], m)
        PROVE  /\ Ends(graph[x], m) \subseteq visited \cup frontier \cup onward
               /\ graph[x] \in collected
    <3>1. m \in visited /\ m # current
      BY <1>1, <2>1, SlicerAssumption DEF SliceTyped
    <3> QED BY <1>2, <1>4, <2>1, <3>1 DEF HopInv
  <2>2. \A x \in DOMAIN graph, m \in Node : /\ Followed(graph[x], m)' <=> Followed(graph[x], m)
                                           /\ Ends(graph[x], m)' = Ends(graph[x], m)
    BY <1>1 DEF Followed, Leaves, Enters, Ends
  <2>3. visited' \subseteq Node
    BY <1>1 DEF SliceTyped
  <2>4. \A e \in collected' :
          \E x \in DOMAIN graph', m \in Expanded(w)' : e = graph'[x] /\ Followed(e, m)'
    BY <1>1, <1>2, <1>4, <2>2, <2>3 DEF HopInv
  <2>5. \A x \in DOMAIN graph', m \in Expanded(w)' :
          (m = current' => x < at') /\ Followed(graph[x], m)' =>
              /\ Ends(graph[x], m)' \subseteq visited' \cup frontier' \cup onward'
              /\ graph'[x] \in collected'
    BY <1>1, <1>4, <2>1, <2>2, <2>3
  <2> QED BY <1>1, <1>2, <2>4, <2>5 DEF HopInv
<1>6. visited' \subseteq Node
  BY <1>1 DEF BallInv
<1> QED BY <1>1, <1>3, <1>5, <1>6 DEF BallInv, HopInv

LEMMA BallLookNear ==
    ASSUME SliceTyped, ~IsSlice, Look, NEW w, Layers(w), BallInv(w)
    PROVE  BallInv(w)'
<1>1. /\ hop < request.max_hops /\ hop \in 0 .. request.max_hops
      /\ at \in DOMAIN graph /\ current \in visited /\ current \in Node
      /\ at' = at + 1
      /\ UNCHANGED <<graph, request, visited, frontier, hop, current>>
  BY DEF Look, BallInv, SliceTyped
<1>2. Reaches(w, hop) /\ HopInv(w, hop)
  BY <1>1 DEF BallInv, HopInv
<1>3. Reaches(w, hop)'
  BY <1>1, <1>2 DEF Reaches
<1>4. Expanded(w) = visited /\ Expanded(w)' = visited
  BY <1>1 DEF Expanded
<1>5. /\ onward \subseteq onward' /\ collected \subseteq collected'
      /\ Followed(graph[at], current) =>
            /\ Ends(graph[at], current) \subseteq visited \cup onward'
            /\ graph[at] \in collected'
            /\ onward' \subseteq onward \cup Ends(graph[at], current)
      /\ ~Followed(graph[at], current) => onward' = onward
      /\ \A e \in collected' : e \in collected \/ (e = graph[at] /\ Followed(e, current))
  BY DEF Look
<1>6. \A x \in DOMAIN graph, m \in Node : /\ Followed(graph[x], m)' <=> Followed(graph[x], m)
                                         /\ Ends(graph[x], m)' = Ends(graph[x], m)
  BY <1>1 DEF Followed, Leaves, Enters, Ends
<1>7. HopInv(w, hop)'
  <2>1. onward' \subseteq w[hop + 1]
    BY <1>1, <1>2, <1>5, NextLayer DEF HopInv, Reaches
  <2>2. ASSUME NEW x \in DOMAIN graph, NEW m \in visited, m = current => x < at',
               Followed(graph[x], m)
        PROVE  /\ Ends(graph[x], m) \subseteq visited \cup frontier \cup onward'
               /\ graph[x] \in collected'
    <3>1. CASE x = at /\ m = current
      BY <1>5, <2>2, <3>1
    <3>2. CASE ~(x = at /\ m = current)
      <4>1. m = current => x < at
        BY <1>1, <2>2, <3>2 DEF SliceTyped
      <4> QED BY <1>2, <1>4, <1>5, <2>2, <4>1 DEF HopInv
    <3> QED BY <3>1, <3>2
  <2>3. visited \subseteq Node
    BY DEF SliceTyped
  <2>4. \A e \in collected' :
          \E x \in DOMAIN graph, m \in visited : e = graph[x] /\ Followed(e, m)
    BY <1>1, <1>2, <1>4, <1>5 DEF HopInv
  <2>5. \A e \in collected' :
          \E x \in DOMAIN graph', m \in Expanded(w)' : e = graph'[x] /\ Followed(e, m)'
    BY <1>1, <1>4, <1>6, <2>3, <2>4
  <2>6. \A x \in DOMAIN graph', m \in Expanded(w)' :
          (m = current' => x < at') /\ Followed(graph[x], m)' =>
              /\ Ends(graph[x], m)' \subseteq visited' \cup frontier' \cup onward'
              /\ graph'[x] \in collected'
    BY <1>1, <1>4, <1>6, <2>2, <2>3
  <2> QED BY <1>1, <1>2, <2>1, <2>5, <2>6 DEF HopInv
<1> QED BY <1>1, <1>3, <1>7 DEF BallInv, HopInv

LEMMA BallLeaveNear ==
    ASSUME SliceTyped, Leave, NEW w, Layers(w), BallInv(w)
    PROVE  BallInv(w)'
<1>1. /\ hop < request.max_hops /\ hop \in 0 .. request.max_hops
      /\ current' = Nobody /\ \A x \in DOMAIN graph : x < at
      /\ UNCHANGED <<graph, request, visited, collected, frontier, onward, hop>>
  BY DEF Leave, BallInv, SliceTyped
<1>2. Reaches(w, hop) /\ HopInv(w, hop)
  BY <1>1 DEF BallInv, HopInv
<1>3. Reaches(w, hop)' /\ Expanded(w)' = Expanded(w)
  BY <1>1, <1>2 DEF Reaches, Expanded
<1>4. HopInv(w, hop)'
  BY <1>1, <1>2, <1>3 DEF HopInv, Followed, Leaves, Enters, Ends
<1> QED BY <1>1, <1>3, <1>4 DEF BallInv, HopInv

LEMMA NextHopNear ==
    ASSUME SliceTyped, NextHop, NEW w, Layers(w), BallInv(w)
    PROVE  BallInv(w)'
<1>1. /\ hop < request.max_hops /\ hop \in 0 .. request.max_hops /\ request.max_hops \in Nat
      /\ current = Nobody /\ onward' = {}
      /\ UNCHANGED <<graph, request, visited, collected, current>>
  BY DEF NextHop, BallInv, SliceTyped, Request
<1>2. Reaches(w, hop) /\ HopInv(w, hop)
  BY <1>1 DEF BallInv, HopInv
<1>3. CASE ~Room
  <2>1. hop' = request.max_hops /\ ~Room'
    BY <1>1, <1>3 DEF NextHop, Room
  <2>3. visited' \subseteq w[hop] /\ \A k \in Nat : k < hop => w[k] \subseteq visited'
    BY <1>1, <1>2 DEF Reaches
  <2>4. hop \in 0 .. hop' /\ hop # hop' /\ hop' \in 0 .. request'.max_hops
    BY <1>1, <2>1
  <2> QED BY <1>1, <2>1, <2>3, <2>4 DEF BallInv, Reaches
<1>4. CASE Room
  <2>1. hop' = hop + 1 /\ frontier' = onward /\ frontier \subseteq visited
    BY <1>1, <1>4 DEF NextHop
  <2>2. visited = w[hop]
    BY <1>2, <2>1 DEF Reaches, HopInv
  <2>3. Expanded(w) = visited /\ Expanded(w)' = visited
    <3>1. Expanded(w) = visited
      BY <1>1 DEF Expanded
    <3>2. hop' # 0 /\ hop' - 1 = hop
      BY <1>1, <2>1
    <3> QED BY <1>1, <2>2, <3>1, <3>2 DEF Expanded
  <2>4. visited \subseteq Node /\ Nobody \notin Node
    BY SlicerAssumption DEF SliceTyped
  <2>5. \A x \in DOMAIN graph, m \in visited :
            Followed(graph[x], m) => Ends(graph[x], m) \subseteq visited \cup onward
                                     /\ graph[x] \in collected
    BY <1>1, <1>2, <2>1, <2>3, <2>4 DEF HopInv
  <2>6. \A m \in visited : Beside(m) \subseteq visited \cup onward
    BY <2>5 DEF Beside, GraphEdges
  <2>7. hop \in Nat /\ hop + 1 \in Nat
    BY <1>1
  <2>8. w[hop + 1] \subseteq visited \cup onward /\ w[hop] \subseteq w[hop + 1]
    BY <2>2, <2>6, <2>7 DEF Layers
  <2>9. Reaches(w, hop)'
    <3>1. \A k \in Nat : k < hop + 1 => w[k] \subseteq visited
      BY <2>2, <2>7, LayersGrow
    <3> QED BY <1>1, <2>1, <2>2, <2>8, <3>1 DEF Reaches
  <2>10. \A x \in DOMAIN graph, m \in Node : /\ Followed(graph[x], m)' <=> Followed(graph[x], m)
                                           /\ Ends(graph[x], m)' = Ends(graph[x], m)
    BY <1>1 DEF Followed, Leaves, Enters, Ends
  <2>11. \A e \in collected' :
          \E x \in DOMAIN graph', m \in Expanded(w)' : e = graph'[x] /\ Followed(e, m)'
    BY <1>1, <1>2, <2>3, <2>4, <2>10 DEF HopInv
  <2>12. \A x \in DOMAIN graph', m \in Expanded(w)' :
          (m = current' => x < at') /\ Followed(graph[x], m)' =>
              /\ Ends(graph[x], m)' \subseteq visited' \cup frontier' \cup onward'
              /\ graph'[x] \in collected'
    BY <1>1, <2>1, <2>3, <2>4, <2>5, <2>10
  <2>13. HopInv(w, hop)'
    BY <1>1, <1>2, <2>1, <2>8, <2>11, <2>12 DEF HopInv
  <2>14. hop' \in 0 .. request'.max_hops
    BY <1>1, <2>1
  <2> QED BY <1>1, <2>4, <2>9, <2>13, <2>14 DEF BallInv, HopInv
<1> QED BY <1>3, <1>4

LEMMA AddRestNear ==
    ASSUME SliceTyped, NEW n \in Node, AddRest(n), NEW w, Layers(w), BallInv(w)
    PROVE  BallInv(w)'
<1>1. /\ hop = request.max_hops /\ hop \in Nat /\ current = Nobody
      /\ visited' = visited \cup {n} /\ n \in frontier /\ Room
      /\ UNCHANGED <<graph, request, collected, frontier, onward, hop, current, at>>
  BY DEF AddRest, BallInv, SliceTyped, Request
<1>2. Reaches(w, hop) /\ HopInv(w, hop)
  BY <1>1 DEF BallInv, HopInv
<1>3. Reaches(w, hop)'
  BY <1>1, <1>2 DEF Reaches, HopInv
<1>4. Expanded(w)' = Expanded(w)
  BY <1>1 DEF Expanded
<1>5. HopInv(w, hop)'
  BY <1>1, <1>2, <1>4 DEF HopInv, Followed, Leaves, Enters, Ends
<1>6. visited' \subseteq Node
  BY <1>1 DEF BallInv
<1> QED BY <1>1, <1>3, <1>5, <1>6 DEF BallInv, HopInv

LEMMA InitNear == SliceInit => NearInv
<1> SUFFICES ASSUME SliceInit, NEW w, Layers(w)
             PROVE  QueueInv(w) /\ BallInv(w)
  BY DEF NearInv
<1>1. request \in Request /\ request.max_hops \in Nat /\ request.start \in Node
  BY SlicerAssumption DEF SliceInit, Request
<1>2. w[0] = {request.start}
  BY DEF Layers
<1>3. Reaches(w, 0)
  BY <1>1 DEF SliceInit, Reaches
<1>4. QueueInv(w)
  <2>1. Len(queue) = 1 /\ DOMAIN queue = {1} /\ queue[1] = request.start
    BY DEF SliceInit
  <2>2. w[0] \subseteq visited \cup {queue[x] : x \in 1 .. 1}
    BY <1>2, <2>1
  <2>3. \A x \in DOMAIN queue : queue[x] \in w[IF x <= 1 THEN 0 ELSE 0 + 1]
    BY <1>2, <2>1
  <2>4. 0 \in Nat /\ 1 \in 0 .. Len(queue)
    BY <2>1
  <2> QED BY <1>3, <2>2, <2>3, <2>4 DEF QueueInv
<1>5. BallInv(w)
  <2>1. /\ hop = 0 /\ visited = {} /\ collected = {} /\ onward = {}
        /\ frontier = {request.start} /\ current = Nobody
    BY DEF SliceInit
  <2>2. Expanded(w) = {}
    BY <2>1 DEF Expanded
  <2>3. HopInv(w, hop)
    BY <1>2, <2>1, <2>2 DEF HopInv
  <2>4. hop \in 0 .. request.max_hops /\ hop \in 0 .. hop
    BY <1>1, <2>1
  <2> QED BY <1>3, <2>1, <2>3, <2>4 DEF BallInv, HopInv
<1> QED BY <1>4, <1>5

LEMMA StepNear == SliceInv /\ NearInv /\ [SliceNext]_sliceVars => NearInv'
<1> SUFFICES ASSUME SliceInv, NearInv, [SliceNext]_sliceVars, NEW w, Layers(w)'
             PROVE  IF IsSlice' THEN QueueInv(w)' ELSE BallInv(w)'
  BY DEF NearInv
<1>0. UNCHANGED <<graph, request>> /\ (IsSlice' <=> IsSlice)
  BY DEF SliceNext, sliceVars, IsSlice, Pop, Take, Look, Leave, NextHop, AddRest
<1>1. Layers(w)
  BY <1>0, LayersStay
<1>2. SliceTyped /\ (IsSlice => SearchInv) /\ IF IsSlice THEN QueueInv(w) ELSE BallInv(w)
  BY <1>1 DEF SliceInv, NearInv
<1>3. CASE Pop
  BY <1>0, <1>1, <1>2, <1>3, PopNear DEF Pop
<1>4. ASSUME NEW n \in Node, Take(n) PROVE IF IsSlice' THEN QueueInv(w)' ELSE BallInv(w)'
  BY <1>0, <1>1, <1>2, <1>4, TakeNear DEF Take
<1>5. CASE Look
  BY <1>0, <1>1, <1>2, <1>5, LookNear, BallLookNear
<1>6. CASE Leave
  <2>1. CASE IsSlice
    BY <1>0, <1>2, <1>6, <2>1, ZenonT(40) DEF Leave, QueueInv, Reaches
  <2> QED BY <1>0, <1>1, <1>2, <1>6, <2>1, BallLeaveNear
<1>7. CASE NextHop
  BY <1>0, <1>1, <1>2, <1>7, NextHopNear DEF NextHop
<1>8. ASSUME NEW n \in Node, AddRest(n) PROVE IF IsSlice' THEN QueueInv(w)' ELSE BallInv(w)'
  BY <1>0, <1>1, <1>2, <1>8, AddRestNear DEF AddRest
<1>9. CASE UNCHANGED sliceVars
  <2>1. QueueInv(w)' <=> QueueInv(w)
    BY <1>9 DEF sliceVars, QueueInv, Reaches
  <2>2. BallInv(w)' <=> BallInv(w)
    BY <1>9 DEF sliceVars, BallInv, Reaches, Room, Expanded, Followed, Leaves, Enters, Ends
  <2> QED BY <1>0, <1>2, <2>1, <2>2
<1> QED BY <1>3, <1>4, <1>5, <1>6, <1>7, <1>8, <1>9 DEF SliceNext

(* Whatever the budget cuts off is at least as far from the start as all   *)
(* that was kept, for a slice and for a neighbourhood; a neighbourhood     *)
(* stays within max_hops, and with room left it is exactly what lies       *)
(* within: for every graph over finitely many nodes, request and budget.   *)
THEOREM NearestIsAlwaysFirst ==
    ASSUME IsFiniteSet(Node)
    PROVE  SliceSpec => []NearestFirst
<1>1. SliceInv /\ NearInv => NearestFirst
  <2> SUFFICES ASSUME SliceInv, NearInv PROVE NearestFirst
    OBVIOUS
  <2>1. SliceTyped /\ request.start \in Node /\ request.max_hops \in Nat
    BY DEF SliceInv, SliceTyped, Request
  <2> DEFINE w == Within
  <2>2. Layers(w)
    BY <2>1, WithinIsLayers
  <2> HIDE DEF w
  <2>3. IF IsSlice THEN QueueInv(w) ELSE BallInv(w)
    BY <2>2 DEF NearInv
  <2>4. Cardinality(Node) \in Nat
    BY FS_CardinalityType
  <2>5. \E d \in Nat : Reaches(w, d)
    BY <2>1, <2>3 DEF QueueInv, BallInv
  <2>6. ASSUME NEW n \in visited, NEW k \in Nat, n \notin w[k] PROVE w[k] \subseteq visited
    <3>1. PICK d \in Nat : Reaches(w, d)
      BY <2>5
    <3>2. k < d
      BY <2>2, <2>6, <3>1, LayersGrow DEF Reaches
    <3> QED BY <3>1, <3>2 DEF Reaches
  <2>7. ASSUME ~IsSlice PROVE visited \subseteq w[request.max_hops]
    <3>1. PICK d \in 0 .. hop : Reaches(w, d) /\ hop \in 0 .. request.max_hops
      BY <2>3, <2>7 DEF BallInv
    <3>2. d \in Nat /\ d <= request.max_hops
      BY <2>1, <3>1
    <3> QED BY <2>1, <2>2, <3>1, <3>2, LayersGrow DEF Reaches
  <2>8. ASSUME BallReturns, Room
        PROVE  /\ visited = w[request.max_hops]
               /\ collected = {e \in GraphEdges : request.max_hops > 0 /\
                               \E n \in w[request.max_hops - 1] : Followed(e, n)}
    <3>1. /\ hop = request.max_hops /\ current = Nobody /\ frontier \subseteq visited
          /\ Reaches(w, hop) /\ HopInv(w, hop) /\ visited \subseteq Node
      BY <2>1, <2>3, <2>8 DEF BallReturns, BallInv, HopInv
    <3>2. visited = w[hop]
      BY <3>1 DEF Reaches, HopInv
    <3>3. Expanded(w) = IF hop = 0 THEN {} ELSE w[hop - 1]
      BY <2>1, <3>1 DEF Expanded
    <3>4. hop # 0 => w[hop - 1] \subseteq visited
      BY <2>1, <3>1 DEF Reaches
    <3>5. ASSUME NEW d \in GraphEdges, NEW n \in w[hop - 1], Followed(d, n), hop # 0
          PROVE  d \in collected
      <4>1. PICK x \in DOMAIN graph : d = graph[x]
        BY DEF GraphEdges
      <4>2. n \in Expanded(w) /\ n # current
        BY <3>1, <3>3, <3>4, <3>5, SlicerAssumption
      <4> QED BY <3>1, <3>5, <4>1, <4>2 DEF HopInv
    <3>6. ASSUME NEW d \in collected
          PROVE  d \in GraphEdges /\ hop > 0 /\ \E n \in w[hop - 1] : Followed(d, n)
      <4>1. PICK x \in DOMAIN graph, n \in Expanded(w) : d = graph[x] /\ Followed(d, n)
        BY <3>1 DEF HopInv
      <4>2. hop # 0 /\ n \in w[hop - 1]
        BY <3>3, <4>1
      <4> QED BY <2>1, <3>1, <4>1, <4>2 DEF GraphEdges
    <3>7. hop > 0 => hop # 0
      BY <2>1, <3>1
    <3> QED BY <3>1, <3>2, <3>5, <3>6, <3>7
  <2> QED BY <2>4, <2>6, <2>7, <2>8 DEF NearestFirst, w
<1> QED BY <1>1, InitSlice, StepSlice, InitNear, StepNear, PTL DEF SliceSpec

-----------------------------------------------------------------------------
(* The best path to a hit.                                                 *)

Hit(n) == n \in Nodes /\ near[n] # Far

BundlesTyped ==
    /\ near \in Hits /\ cost \in Costs
    /\ left \subseteq Linked(Episode)
    /\ bundle.score \in 0 .. Far

\* The ids of a bundle are those of its kind of path.
NamedAs(path, facet, point, entity) ==
    /\ bundle.path = path
    /\ bundle.facet = facet /\ bundle.point = point /\ bundle.entity = entity

\* The bundle names a path to a hit, of the length of its score.
NamesItsPath ==
    \/ /\ NamedAs("direct_episode", None, None, None) /\ Hit(Episode)
       /\ bundle.score = near[Episode] + DirectPenalty
    \/ \E f \in Linked(Episode) \cap Facets :
          /\ NamedAs("facet", f, None, None) /\ Hit(f)
          /\ bundle.score = near[f] + Discounted(f)
    \/ \E f \in Linked(Episode) \cap Facets : \E p \in Linked(f) \cap Points :
          /\ NamedAs("point", f, p, None) /\ Hit(p)
          /\ bundle.score = Reached(f, p) + Discounted(f)
    \/ \E f \in Linked(Episode) \cap Facets : \E e \in Linked(f) \cap Entities :
          /\ NamedAs("facet_entity", f, None, e) /\ Hit(e)
          /\ bundle.score = Reached(f, e) + Discounted(f)
    \/ \E e \in Linked(Episode) \cap Entities :
          /\ NamedAs("entity", None, None, e) /\ Hit(e)
          /\ bundle.score = Reached(Episode, e)

\* No path of what was visited is shorter.
NoShorter ==
    /\ Hit(Episode) => bundle.score <= near[Episode] + DirectPenalty
    /\ \A f \in (Linked(Episode) \cap Facets) \ left :
          /\ Hit(f) => bundle.score <= near[f] + Discounted(f)
          /\ \A m \in Linked(f) : Hit(m) => bundle.score <= Reached(f, m) + Discounted(f)
    /\ \A e \in (Linked(Episode) \cap Entities) \ left :
          Hit(e) => bundle.score <= Reached(Episode, e)

BundlesInv ==
    /\ BundlesTyped
    /\ bundle.score # Far => NamesItsPath
    /\ NoShorter
    /\ assembled => left = {} /\ bundle.score # Far /\ BestPathLinks \subseteq shown

\* Costs that exist are far below Far, and so are their sums.
LEMMA NodeCosts ==
    ASSUME near \in Hits, NEW n \in Nodes
    PROVE  /\ near[n] \in Nat /\ near[n] <= Far
           /\ near[n] # Far => 4 * (near[n] + DirectPenalty) < Far
<1>1. near[n] \in 0 .. Far /\ Far \in Nat /\ DirectPenalty \in Nat
  BY BundlesAssumption
<1>2. near[n] \in Nat /\ near[n] <= Far
  BY <1>1
<1>3. near[n] < Far => 4 * (near[n] + DirectPenalty) < Far
  BY BundlesAssumption
<1> QED BY <1>1, <1>2, <1>3

LEMMA LinkCosts ==
    ASSUME cost \in Costs, NEW n, NEW m \in Linked(n)
    PROVE  /\ <<n, m>> \in Links /\ m \in Nodes
           /\ cost[<<n, m>>] \in Nat /\ 4 * (cost[<<n, m>>] + HopCost) < Far
<1>1. <<n, m>> \in Links /\ m \in Nodes /\ cost[<<n, m>>] # Far
  BY DEF Linked
<1>2. cost[<<n, m>>] \in 0 .. Far /\ Far \in Nat
  BY <1>1, BundlesAssumption
<1>3. cost[<<n, m>>] \in Nat /\ cost[<<n, m>>] < Far
  BY <1>1, <1>2
<1>4. 4 * (cost[<<n, m>>] + HopCost) < Far
  BY <1>1, <1>3, BundlesAssumption
<1> QED BY <1>1, <1>3, <1>4

LEMMA ReachedCosts ==
    ASSUME near \in Hits, cost \in Costs, NEW n, NEW m \in Linked(n)
    PROVE  /\ Reached(n, m) \in Nat
           /\ Hit(m) => /\ Reached(n, m) = near[m] + cost[<<n, m>>] + HopCost
                        /\ 2 * Reached(n, m) < Far
           /\ ~Hit(m) => Reached(n, m) = Far
<1>1. m \in Nodes /\ cost[<<n, m>>] \in Nat /\ 4 * (cost[<<n, m>>] + HopCost) < Far
  BY LinkCosts
<1>2. near[m] \in Nat /\ (near[m] # Far => 4 * (near[m] + DirectPenalty) < Far)
  BY <1>1, NodeCosts
<1>3. HopCost \in Nat /\ DirectPenalty \in Nat /\ Far \in Nat
  BY BundlesAssumption
<1> QED BY <1>1, <1>2, <1>3 DEF Reached, Hit

LEMMA DiscountedCosts ==
    ASSUME near \in Hits, cost \in Costs, NEW f \in Linked(Episode)
    PROVE  Discounted(f) \in Nat /\ 4 * Discounted(f) < Far
<1> DEFINE full == cost[<<Episode, f>>] + HopCost
<1>1. f \in Nodes /\ full \in Nat /\ 4 * full < Far
  BY LinkCosts, BundlesAssumption
<1>2. near[f] \in Nat /\ Far \in Nat /\ 4 * 150 < Far
  BY <1>1, NodeCosts, BundlesAssumption
<1> HIDE DEF full
<1>3. (3 * full) \div 10 \in Nat /\ (3 * full) \div 10 <= full
  BY <1>1
<1>4. CASE near[f] < 100
  <2>1. Discounted(f) = 150
    BY <1>4, <1>2 DEF Discounted
  <2> QED BY <2>1, <1>2
<1>5. CASE near[f] >= 100 /\ near[f] < 200
  <2>1. Discounted(f) = (3 * full) \div 10
    BY <1>5, <1>2 DEF Discounted, full
  <2> QED BY <2>1, <1>1, <1>2, <1>3
<1>6. CASE near[f] >= 200
  <2>1. Discounted(f) = full
    BY <1>6, <1>2 DEF Discounted, full
  <2> QED BY <2>1, <1>1
<1> QED BY <1>2, <1>4, <1>5, <1>6

\* A node is linked to nodes of the kinds that its kind has edges to.
LEMMA LinkedKinds ==
    /\ Linked(Episode) \subseteq Adjacent
    /\ \A f \in Facets : Linked(f) \subseteq Bottoms
<1>1. \A m \in Linked(Episode) : m \in Adjacent
  BY BundlesAssumption DEF Linked, Links, Adjacent
<1>2. ASSUME NEW f \in Facets, NEW m \in Linked(f) PROVE m \in Bottoms
  <2>1. f # Episode
    BY BundlesAssumption DEF Adjacent
  <2> QED BY <2>1 DEF Linked, Links
<1> QED BY <1>1, <1>2

\* What lies at the end of a path, and how long it is.
LEMMA PathLengths ==
    ASSUME near \in Hits, cost \in Costs
    PROVE  /\ Last(<<Episode>>) = Episode
           /\ Hit(Episode) => LengthOf(<<Episode>>) = near[Episode] + DirectPenalty
           /\ \A n \in Linked(Episode) :
                 /\ Last(<<Episode, n>>) = n
                 /\ n \in Facets => LengthOf(<<Episode, n>>) = near[n] + Discounted(n)
                 /\ n \in Entities /\ Hit(n) => LengthOf(<<Episode, n>>) = Reached(Episode, n)
           /\ \A f \in Linked(Episode) \cap Facets : \A n \in Linked(f) :
                 /\ Last(<<Episode, f, n>>) = n
                 /\ Hit(n) => LengthOf(<<Episode, f, n>>) = Reached(f, n) + Discounted(f)
<1>1. Last(<<Episode>>) = Episode /\ Len(<<Episode>>) = 1
  BY DEF Last
<1>2. ASSUME Hit(Episode) PROVE LengthOf(<<Episode>>) = near[Episode] + DirectPenalty
  <2>1. near[Episode] \in Nat /\ DirectPenalty \in Nat
    BY NodeCosts, BundlesAssumption DEF Nodes
  <2> QED BY <1>1, <2>1 DEF LengthOf
<1>3. ASSUME NEW n \in Linked(Episode)
      PROVE  /\ Last(<<Episode, n>>) = n
             /\ n \in Facets => LengthOf(<<Episode, n>>) = near[n] + Discounted(n)
             /\ n \in Entities /\ Hit(n) => LengthOf(<<Episode, n>>) = Reached(Episode, n)
  <2> DEFINE p == <<Episode, n>>
  <2>1. Last(p) = n /\ Len(p) = 2 /\ p[1] = Episode /\ p[2] = n
    BY DEF Last
  <2>2. /\ near[n] \in Nat /\ Discounted(n) \in Nat /\ n \in Nodes /\ HopCost \in Nat
        /\ cost[<<Episode, n>>] \in Nat
    BY NodeCosts, LinkCosts, DiscountedCosts, BundlesAssumption
  <2> HIDE DEF p
  <2>3. n \in Facets => LengthOf(p) = near[n] + Discounted(n)
    BY <2>1, <2>2 DEF LengthOf
  <2>4. n \in Entities /\ Hit(n) => LengthOf(p) = Reached(Episode, n)
    <3>1. n \in Entities => n \notin Facets
      BY BundlesAssumption DEF Bottoms
    <3>2. Hit(n) => Reached(Episode, n) = near[n] + cost[<<Episode, n>>] + HopCost
      BY ReachedCosts
    <3> QED BY <2>1, <2>2, <3>1, <3>2 DEF LengthOf
  <2> QED BY <2>1, <2>3, <2>4 DEF p
<1>4. ASSUME NEW f \in Linked(Episode) \cap Facets, NEW n \in Linked(f)
      PROVE  /\ Last(<<Episode, f, n>>) = n
             /\ Hit(n) => LengthOf(<<Episode, f, n>>) = Reached(f, n) + Discounted(f)
  <2> DEFINE p == <<Episode, f, n>>
  <2>1. Last(p) = n /\ Len(p) = 3 /\ p[1] = Episode /\ p[2] = f /\ p[3] = n
    BY DEF Last
  <2>2. /\ near[n] \in Nat /\ Discounted(f) \in Nat /\ n \in Nodes /\ HopCost \in Nat
        /\ cost[<<f, n>>] \in Nat
    BY NodeCosts, LinkCosts, DiscountedCosts, BundlesAssumption
  <2>3. Hit(n) => Reached(f, n) = near[n] + cost[<<f, n>>] + HopCost
    BY ReachedCosts
  <2> HIDE DEF p
  <2>4. Hit(n) => LengthOf(p) = Reached(f, n) + Discounted(f)
    BY <2>1, <2>2, <2>3 DEF LengthOf
  <2> QED BY <2>1, <2>4 DEF p
<1> QED BY <1>1, <1>2, <1>3, <1>4

LEMMA InitBundles == BundlesInit => BundlesInv
<1> SUFFICES ASSUME BundlesInit PROVE BundlesInv
  OBVIOUS
<1>1. /\ near \in Hits /\ cost \in Costs /\ left = Linked(Episode) /\ ~assembled
      /\ bundle = Bundle(IF near[Episode] = Far THEN Far ELSE near[Episode] + DirectPenalty,
                         "direct_episode", None, None, None)
  BY DEF BundlesInit
<1>2. /\ Episode \in Nodes /\ near[Episode] \in Nat /\ Far \in Nat /\ DirectPenalty \in Nat
      /\ near[Episode] # Far => 4 * (near[Episode] + DirectPenalty) < Far
  BY <1>1, NodeCosts, BundlesAssumption DEF Nodes
<1>3. /\ bundle.score = IF near[Episode] = Far THEN Far ELSE near[Episode] + DirectPenalty
      /\ NamedAs("direct_episode", None, None, None)
  BY <1>1 DEF Bundle, NamedAs
<1>4. BundlesTyped
  BY <1>1, <1>2, <1>3 DEF BundlesTyped
<1>5. bundle.score # Far => NamesItsPath
  BY <1>2, <1>3 DEF NamesItsPath, Hit
<1>6. NoShorter
  BY <1>1, <1>2, <1>3 DEF NoShorter, Hit
<1> QED BY <1>1, <1>4, <1>5, <1>6 DEF BundlesInv

\* Nothing a path is made of changes.
LEMMA PathsStay ==
    ASSUME UNCHANGED <<near, cost>>
    PROVE  /\ \A n : Linked(n)' = Linked(n) /\ (Hit(n)' <=> Hit(n))
                    /\ Discounted(n)' = Discounted(n)
           /\ \A n, m : Reached(n, m)' = Reached(n, m)
  BY DEF Linked, Hit, Discounted, Reached

\* The costs of the ways to a facet are those of its hit and of what it is linked to.
LEMMA WaysOf ==
    ASSUME NEW f
    PROVE  /\ \A v \in Ways(f) : v.cost = near[f] \/ \E m \in Linked(f) : v.cost = Reached(f, m)
           /\ \E v \in Ways(f) : v.cost = near[f]
           /\ \A m \in Linked(f) \cap (Points \cup Entities) :
                 \E v \in Ways(f) : v.cost = Reached(f, m)
<1> DEFINE facet == [path |-> "facet", from |-> f, order |-> 1, cost |-> near[f]]
           point(p) == [path |-> "point", from |-> p, order |-> 2, cost |-> Reached(f, p)]
           entity(e) == [path |-> "facet_entity", from |-> e, order |-> 3, cost |-> Reached(f, e)]
<1>1. Ways(f) = {facet} \cup {point(p) : p \in Linked(f) \cap Points}
                        \cup {entity(e) : e \in Linked(f) \cap Entities}
  BY DEF Ways
<1>2. facet.cost = near[f]
  OBVIOUS
<1>3. \A m : point(m).cost = Reached(f, m) /\ entity(m).cost = Reached(f, m)
  OBVIOUS
<1> HIDE DEF facet, point, entity
<1> QED BY <1>1, <1>2, <1>3

LEMMA StepViaFacet ==
    ASSUME BundlesInv, NEW f \in Facets, ViaFacet(f)
    PROVE  BundlesInv'
<1>1. /\ f \in Linked(Episode) /\ f \in left /\ left' = left \ {f} /\ f \in Nodes
      /\ UNCHANGED <<near, cost, assembled, shown>> /\ ~assembled
      /\ near \in Hits /\ cost \in Costs /\ bundle.score \in 0 .. Far
      /\ left \subseteq Linked(Episode)
  BY DEF ViaFacet, BundlesInv, BundlesTyped, Linked
<1>2. PICK w \in BestWays(f) :
          bundle' = IF w.cost # Far /\ w.cost + Discounted(f) < bundle.score
                    THEN Bundle(w.cost + Discounted(f), w.path, f,
                                IF w.path = "point" THEN w.from ELSE None,
                                IF w.path = "facet_entity" THEN w.from ELSE None)
                    ELSE bundle
  BY DEF ViaFacet
<1>3. Discounted(f) \in Nat /\ 4 * Discounted(f) < Far /\ Far \in Nat
  BY <1>1, DiscountedCosts, BundlesAssumption
<1>4. ASSUME NEW v \in Ways(f) PROVE v.cost \in Nat
  <2>1. CASE v.cost = near[f]
    BY <1>1, <2>1, NodeCosts
  <2>2. ASSUME NEW m \in Linked(f), v.cost = Reached(f, m) PROVE v.cost \in Nat
    BY <1>1, <2>2, ReachedCosts
  <2> QED BY <2>1, <2>2, WaysOf
<1>5. w \in Ways(f) /\ \A v \in Ways(f) : w.cost <= v.cost
  BY <1>2, <1>4 DEF BestWays
<1>6. /\ Hit(f) => w.cost <= near[f] /\ near[f] < Far /\ near[f] \in Nat
      /\ \A m \in Linked(f) : Hit(m) => w.cost <= Reached(f, m) /\ Reached(f, m) < Far
                                        /\ Reached(f, m) \in Nat
  <2>1. \E v \in Ways(f) : v.cost = near[f]
    BY WaysOf
  <2>2. \A m \in Linked(f) : \E v \in Ways(f) : v.cost = Reached(f, m)
    BY WaysOf, LinkedKinds DEF Bottoms
  <2>3. near[f] \in Nat /\ near[f] <= Far
    BY <1>1, NodeCosts
  <2>4. \A m \in Linked(f) : Reached(f, m) \in Nat /\ (Hit(m) => 2 * Reached(f, m) < Far)
    BY <1>1, ReachedCosts
  <2>5. \A m \in Linked(f) : Hit(m) => Reached(f, m) < Far
    BY <1>3, <2>4
  <2> QED BY <1>5, <2>1, <2>2, <2>3, <2>4, <2>5, <1>3 DEF Hit
<1>7. w.cost \in Nat
  BY <1>4, <1>5
<1>8. bundle'.score \in 0 .. Far /\ bundle'.score <= bundle.score
      /\ (w.cost < Far => bundle'.score <= w.cost + Discounted(f))
  <2>1. CASE w.cost # Far /\ w.cost + Discounted(f) < bundle.score
    <3>1. bundle'.score = w.cost + Discounted(f)
      BY <1>2, <2>1 DEF Bundle
    <3> QED BY <1>1, <1>3, <1>7, <2>1, <3>1
  <2>2. CASE ~(w.cost # Far /\ w.cost + Discounted(f) < bundle.score)
    <3>1. bundle' = bundle
      BY <1>2, <2>2
    <3> QED BY <1>1, <1>3, <1>7, <2>2, <3>1
  <2> QED BY <2>1, <2>2
<1>9. /\ Hit(f) => bundle'.score <= near[f] + Discounted(f)
      /\ \A m \in Linked(f) : Hit(m) => bundle'.score <= Reached(f, m) + Discounted(f)
  BY <1>3, <1>6, <1>7, <1>8
<1>10. BundlesTyped'
  BY <1>1, <1>8, PathsStay DEF BundlesTyped
<1>11. NoShorter'
  <2>1. NoShorter
    BY DEF BundlesInv
  <2>2. /\ Hit(Episode) => bundle'.score <= near[Episode] + DirectPenalty
    <3>1. near[Episode] \in Nat /\ DirectPenalty \in Nat
      BY <1>1, NodeCosts, BundlesAssumption DEF Nodes
    <3> QED BY <1>1, <1>8, <2>1, <3>1 DEF NoShorter
  <2>3. ASSUME NEW g \in (Linked(Episode) \cap Facets) \ left'
        PROVE  /\ Hit(g) => bundle'.score <= near[g] + Discounted(g)
               /\ \A m \in Linked(g) : Hit(m) => bundle'.score <= Reached(g, m) + Discounted(g)
    <3>1. CASE g = f
      BY <1>9, <3>1
    <3>2. CASE g # f
      <4>1. /\ Hit(g) => bundle.score <= near[g] + Discounted(g)
            /\ \A m \in Linked(g) : Hit(m) => bundle.score <= Reached(g, m) + Discounted(g)
        BY <1>1, <2>1, <2>3, <3>2 DEF NoShorter
      <4>2. g \in Nodes /\ Discounted(g) \in Nat
        BY <1>1, DiscountedCosts DEF Linked
      <4>3. near[g] \in Nat /\ \A m \in Linked(g) : Reached(g, m) \in Nat
        BY <1>1, <4>2, NodeCosts, ReachedCosts
      <4> QED BY <1>1, <1>8, <4>1, <4>2, <4>3
    <3> QED BY <3>1, <3>2
  <2>4. ASSUME NEW e \in (Linked(Episode) \cap Entities) \ left', Hit(e)
        PROVE  bundle'.score <= Reached(Episode, e)
    <3>1. e # f
      BY BundlesAssumption DEF Bottoms
    <3>2. bundle.score <= Reached(Episode, e)
      BY <1>1, <2>1, <2>4, <3>1 DEF NoShorter
    <3>3. Reached(Episode, e) \in Nat
      BY <1>1, ReachedCosts
    <3> QED BY <1>1, <1>8, <3>2, <3>3
  <2> QED BY <1>1, <2>2, <2>3, <2>4, PathsStay DEF NoShorter
<1>12. bundle'.score # Far => NamesItsPath'
  <2>1. CASE w.cost # Far /\ w.cost + Discounted(f) < bundle.score
    <3>1. /\ bundle'.score = w.cost + Discounted(f)
          /\ NamedAs(w.path, f, IF w.path = "point" THEN w.from ELSE None,
                     IF w.path = "facet_entity" THEN w.from ELSE None)'
      BY <1>2, <2>1 DEF Bundle, NamedAs
    <3>2. CASE w = [path |-> "facet", from |-> f, order |-> 1, cost |-> near[f]]
      <4>1. w.path = "facet" /\ w.cost = near[f] /\ Hit(f)
        BY <1>1, <2>1, <3>2 DEF Hit
      <4>2. NamedAs("facet", f, None, None)' /\ bundle'.score = near[f] + Discounted(f)
        BY <3>1, <4>1
      <4> QED BY <1>1, <4>1, <4>2, PathsStay DEF NamesItsPath
    <3>3. ASSUME NEW p \in Linked(f) \cap Points,
                 w = [path |-> "point", from |-> p, order |-> 2, cost |-> Reached(f, p)]
          PROVE  NamesItsPath'
      <4>1. w.path = "point" /\ w.from = p /\ w.cost = Reached(f, p) /\ Hit(p)
        BY <1>1, <2>1, <3>3, ReachedCosts
      <4>2. NamedAs("point", f, p, None)' /\ bundle'.score = Reached(f, p) + Discounted(f)
        BY <3>1, <4>1
      <4> QED BY <1>1, <4>1, <4>2, PathsStay DEF NamesItsPath
    <3>4. ASSUME NEW e \in Linked(f) \cap Entities,
                 w = [path |-> "facet_entity", from |-> e, order |-> 3, cost |-> Reached(f, e)]
          PROVE  NamesItsPath'
      <4>1. w.path = "facet_entity" /\ w.from = e /\ w.cost = Reached(f, e) /\ Hit(e)
        BY <1>1, <2>1, <3>4, ReachedCosts
      <4>2. NamedAs("facet_entity", f, None, e)' /\ bundle'.score = Reached(f, e) + Discounted(f)
        BY <3>1, <4>1
      <4> QED BY <1>1, <4>1, <4>2, PathsStay DEF NamesItsPath
    <3> QED BY <1>5, <3>2, <3>3, <3>4 DEF Ways
  <2>2. CASE ~(w.cost # Far /\ w.cost + Discounted(f) < bundle.score)
    <3>1. bundle' = bundle
      BY <1>2, <2>2
    <3>2. bundle.score # Far => NamesItsPath
      BY DEF BundlesInv
    <3> QED BY <1>1, <3>1, <3>2, PathsStay DEF NamesItsPath, NamedAs
  <2> QED BY <2>1, <2>2
<1> QED BY <1>1, <1>10, <1>11, <1>12 DEF BundlesInv

LEMMA StepViaEntity ==
    ASSUME BundlesInv, NEW e \in Entities, ViaEntity(e)
    PROVE  BundlesInv'
<1>1. /\ e \in Linked(Episode) /\ e \in left /\ left' = left \ {e}
      /\ UNCHANGED <<near, cost, assembled, shown>> /\ ~assembled
      /\ near \in Hits /\ cost \in Costs /\ bundle.score \in 0 .. Far
      /\ left \subseteq Linked(Episode)
      /\ bundle' = IF Reached(Episode, e) < bundle.score
                   THEN Bundle(Reached(Episode, e), "entity", None, None, e)
                   ELSE bundle
  BY DEF ViaEntity, BundlesInv, BundlesTyped
<1>2. Reached(Episode, e) \in Nat /\ Far \in Nat /\ (~Hit(e) => Reached(Episode, e) = Far)
  BY <1>1, ReachedCosts, BundlesAssumption
<1>3. /\ bundle'.score \in 0 .. Far /\ bundle'.score <= bundle.score
      /\ bundle'.score <= Reached(Episode, e)
  <2>1. CASE Reached(Episode, e) < bundle.score
    <3>1. bundle'.score = Reached(Episode, e)
      BY <1>1, <2>1 DEF Bundle
    <3> QED BY <1>1, <1>2, <2>1, <3>1
  <2>2. CASE ~(Reached(Episode, e) < bundle.score)
    BY <1>1, <1>2, <2>2
  <2> QED BY <2>1, <2>2
<1>4. BundlesTyped'
  BY <1>1, <1>3, PathsStay DEF BundlesTyped
<1>5. NoShorter'
  <2>1. NoShorter
    BY DEF BundlesInv
  <2>2. Hit(Episode) => bundle'.score <= near[Episode] + DirectPenalty
    <3>1. near[Episode] \in Nat /\ DirectPenalty \in Nat
      BY <1>1, NodeCosts, BundlesAssumption DEF Nodes
    <3> QED BY <1>1, <1>3, <2>1, <3>1 DEF NoShorter
  <2>3. ASSUME NEW g \in (Linked(Episode) \cap Facets) \ left'
        PROVE  /\ Hit(g) => bundle'.score <= near[g] + Discounted(g)
               /\ \A m \in Linked(g) : Hit(m) => bundle'.score <= Reached(g, m) + Discounted(g)
    <3>1. g # e
      BY BundlesAssumption DEF Bottoms
    <3>2. /\ Hit(g) => bundle.score <= near[g] + Discounted(g)
          /\ \A m \in Linked(g) : Hit(m) => bundle.score <= Reached(g, m) + Discounted(g)
      BY <1>1, <2>1, <2>3, <3>1 DEF NoShorter
    <3>3. g \in Nodes /\ Discounted(g) \in Nat
      BY <1>1, DiscountedCosts DEF Linked
    <3>4. near[g] \in Nat /\ \A m \in Linked(g) : Reached(g, m) \in Nat
      BY <1>1, <3>3, NodeCosts, ReachedCosts
    <3> QED BY <1>1, <1>3, <3>2, <3>3, <3>4
  <2>4. ASSUME NEW d \in (Linked(Episode) \cap Entities) \ left', Hit(d)
        PROVE  bundle'.score <= Reached(Episode, d)
    <3>1. CASE d = e
      BY <1>3, <3>1
    <3>2. CASE d # e
      <4>1. bundle.score <= Reached(Episode, d)
        BY <1>1, <2>1, <2>4, <3>2 DEF NoShorter
      <4>2. Reached(Episode, d) \in Nat
        BY <1>1, ReachedCosts
      <4> QED BY <1>1, <1>3, <4>1, <4>2
    <3> QED BY <3>1, <3>2
  <2> QED BY <1>1, <2>2, <2>3, <2>4, PathsStay DEF NoShorter
<1>6. bundle'.score # Far => NamesItsPath'
  <2>1. CASE Reached(Episode, e) < bundle.score
    <3>1. NamedAs("entity", None, None, e)' /\ bundle'.score = Reached(Episode, e)
      BY <1>1, <2>1 DEF Bundle, NamedAs
    <3>2. Hit(e)
      BY <1>1, <1>2, <2>1
    <3> QED BY <1>1, <3>1, <3>2, PathsStay DEF NamesItsPath
  <2>2. CASE ~(Reached(Episode, e) < bundle.score)
    <3>1. bundle' = bundle
      BY <1>1, <2>2
    <3>2. bundle.score # Far => NamesItsPath
      BY DEF BundlesInv
    <3> QED BY <1>1, <3>1, <3>2, PathsStay DEF NamesItsPath, NamedAs
  <2> QED BY <2>1, <2>2
<1> QED BY <1>1, <1>4, <1>5, <1>6 DEF BundlesInv

LEMMA StepBundles == BundlesInv /\ [BundlesNext]_bundleVars => BundlesInv'
<1> SUFFICES ASSUME BundlesInv, [BundlesNext]_bundleVars PROVE BundlesInv'
  OBVIOUS
<1>1. ASSUME NEW f \in Facets, ViaFacet(f) PROVE BundlesInv'
  BY <1>1, StepViaFacet
<1>2. ASSUME NEW e \in Entities, ViaEntity(e) PROVE BundlesInv'
  BY <1>2, StepViaEntity
<1>3. CASE Assemble
  <2>1. UNCHANGED <<near, cost, bundle, left>> /\ left = {} /\ bundle.score # Far
    BY <1>3 DEF Assemble
  <2>2. BestPathLinks \subseteq shown' /\ BestPathLinks' = BestPathLinks
    BY <1>3, <2>1 DEF Assemble, BestPathLinks
  <2> QED BY <2>1, <2>2, PathsStay DEF BundlesInv, BundlesTyped, NoShorter, NamesItsPath, NamedAs
<1>4. CASE UNCHANGED bundleVars
  <2>1. UNCHANGED <<near, cost, bundle, left, assembled, shown>>
    BY <1>4 DEF bundleVars
  <2>2. BestPathLinks' = BestPathLinks
    BY <2>1 DEF BestPathLinks
  <2> QED BY <2>1, <2>2, PathsStay DEF BundlesInv, BundlesTyped, NoShorter, NamesItsPath, NamedAs
<1> QED BY <1>1, <1>2, <1>3, <1>4 DEF BundlesNext

LEMMA EqualSequences ==
    ASSUME NEW S, NEW s \in Seq(S), NEW t \in Seq(S), Len(s) = Len(t),
           \A k \in 1 .. Len(s) : s[k] = t[k]
    PROVE  s = t
  OBVIOUS

LEMMA Joined ==
    ASSUME NEW n, NEW m, NEW k
    PROVE  /\ <<n>> \o <<>> = <<n>> /\ <<n>> \o <<m>> = <<n, m>>
           /\ <<n, m>> \o <<>> = <<n, m>> /\ <<n, m>> \o <<k>> = <<n, m, k>>
           /\ <<n, m, k>> \o <<>> = <<n, m, k>>
<1> DEFINE S == {n, m, k}
<1>1. <<n>> \in Seq(S) /\ <<n, m>> \in Seq(S) /\ <<n, m, k>> \in Seq(S)
  OBVIOUS
<1>2. \A s \in Seq(S) : s \o <<>> = s
  OBVIOUS
<1>3. <<n>> \o <<m>> = <<n, m>>
  <2> DEFINE s == <<n>> \o <<m>>
             t == <<n, m>>
  <2>1. s \in Seq(S) /\ t \in Seq(S) /\ Len(s) = 2 /\ Len(t) = 2
    OBVIOUS
  <2>2. s[1] = n /\ s[2] = m /\ t[1] = n /\ t[2] = m
    OBVIOUS
  <2> HIDE DEF s, t, S
  <2>3. \A x \in 1 .. Len(s) : s[x] = t[x]
    BY <2>1, <2>2
  <2>4. s = t
    BY <2>1, <2>3, EqualSequences
  <2> QED BY <2>4 DEF s, t
<1>4. <<n, m>> \o <<k>> = <<n, m, k>>
  <2> DEFINE s == <<n, m>> \o <<k>>
             t == <<n, m, k>>
  <2>1. s \in Seq(S) /\ t \in Seq(S) /\ Len(s) = 3 /\ Len(t) = 3
    OBVIOUS
  <2>2. s[1] = n /\ s[2] = m /\ s[3] = k /\ t[1] = n /\ t[2] = m /\ t[3] = k
    OBVIOUS
  <2> HIDE DEF s, t, S
  <2>3. \A x \in 1 .. Len(s) : s[x] = t[x]
    BY <2>1, <2>2
  <2>4. s = t
    BY <2>1, <2>3, EqualSequences
  <2> QED BY <2>4 DEF s, t
<1> QED BY <1>1, <1>2, <1>3, <1>4

\* The path the ids name is a path to a hit of the length of the score, and once
\* its links are shown, so is all of it but a point.
LEMMA PathIsNamed ==
    ASSUME BundlesTyped, NamesItsPath
    PROVE  /\ NamedPath \in HitPaths /\ LengthOf(NamedPath) = bundle.score
           /\ BestPathLinks \subseteq shown =>
                 \A k \in 1 .. Len(NamedPath) - 1 :
                    NamedPath[k + 1] \in Points \/ <<NamedPath[k], NamedPath[k + 1]>> \in shown
<1> USE DEF BundlesTyped
<1>1. CASE NamedAs("direct_episode", None, None, None) /\ Hit(Episode)
           /\ bundle.score = near[Episode] + DirectPenalty
  <2>1. NamedPath = <<Episode>>
    BY <1>1 DEF NamedPath, IfThere, NamedAs
  <2>2. NamedPath \in HitPaths /\ LengthOf(NamedPath) = bundle.score
    BY <1>1, <2>1, PathLengths DEF HitPaths, Paths, Hit
  <2> QED BY <2>1, <2>2
<1>2. ASSUME NEW f \in Linked(Episode) \cap Facets, NamedAs("facet", f, None, None), Hit(f),
             bundle.score = near[f] + Discounted(f)
      PROVE  /\ NamedPath \in HitPaths /\ LengthOf(NamedPath) = bundle.score
             /\ BestPathLinks \subseteq shown =>
                   \A k \in 1 .. Len(NamedPath) - 1 :
                      NamedPath[k + 1] \in Points \/ <<NamedPath[k], NamedPath[k + 1]>> \in shown
  <2>0. f # None
    BY BundlesAssumption DEF Nodes, Adjacent
  <2>1. NamedPath = <<Episode, f>>
    BY <1>2, <2>0, Joined, ZenonT(40) DEF NamedPath, IfThere, NamedAs
  <2>2. NamedPath \in HitPaths /\ LengthOf(NamedPath) = bundle.score
    BY <1>2, <2>1, PathLengths DEF HitPaths, Paths, Hit
  <2>3. <<Episode, f>> \in BestPathLinks
    BY <1>2 DEF BestPathLinks, NamedAs, Linked
  <2> QED BY <2>1, <2>2, <2>3
<1>3. ASSUME NEW f \in Linked(Episode) \cap Facets, NEW p \in Linked(f) \cap Points,
             NamedAs("point", f, p, None), Hit(p), bundle.score = Reached(f, p) + Discounted(f)
      PROVE  /\ NamedPath \in HitPaths /\ LengthOf(NamedPath) = bundle.score
             /\ BestPathLinks \subseteq shown =>
                   \A k \in 1 .. Len(NamedPath) - 1 :
                      NamedPath[k + 1] \in Points \/ <<NamedPath[k], NamedPath[k + 1]>> \in shown
  <2>0. f # None /\ p # None
    BY BundlesAssumption DEF Nodes, Adjacent
  <2>1. NamedPath = <<Episode, f, p>>
    BY <1>3, <2>0, Joined DEF NamedPath, IfThere, NamedAs
  <2>2. NamedPath \in HitPaths /\ LengthOf(NamedPath) = bundle.score
    BY <1>3, <2>1, PathLengths DEF HitPaths, Paths, Hit
  <2>3. <<Episode, f>> \in BestPathLinks
    BY <1>3 DEF BestPathLinks, NamedAs, Linked
  <2>4. \A k \in 1 .. Len(NamedPath) - 1 : k = 1 \/ k = 2
    BY <2>1
  <2> QED BY <2>1, <2>2, <2>3, <2>4
<1>4. ASSUME NEW f \in Linked(Episode) \cap Facets, NEW e \in Linked(f) \cap Entities,
             NamedAs("facet_entity", f, None, e), Hit(e),
             bundle.score = Reached(f, e) + Discounted(f)
      PROVE  /\ NamedPath \in HitPaths /\ LengthOf(NamedPath) = bundle.score
             /\ BestPathLinks \subseteq shown =>
                   \A k \in 1 .. Len(NamedPath) - 1 :
                      NamedPath[k + 1] \in Points \/ <<NamedPath[k], NamedPath[k + 1]>> \in shown
  <2>0. f # None /\ e # None
    BY BundlesAssumption DEF Nodes, Adjacent
  <2>1. NamedPath = <<Episode, f, e>>
    BY <1>4, <2>0, Joined DEF NamedPath, IfThere, NamedAs
  <2>2. NamedPath \in HitPaths /\ LengthOf(NamedPath) = bundle.score
    BY <1>4, <2>1, PathLengths DEF HitPaths, Paths, Hit
  <2>3. <<Episode, f>> \in BestPathLinks /\ <<f, e>> \in BestPathLinks
    BY <1>4 DEF BestPathLinks, NamedAs, Linked
  <2>4. \A k \in 1 .. Len(NamedPath) - 1 : k = 1 \/ k = 2
    BY <2>1
  <2> QED BY <2>1, <2>2, <2>3, <2>4
<1>5. ASSUME NEW e \in Linked(Episode) \cap Entities, NamedAs("entity", None, None, e), Hit(e),
             bundle.score = Reached(Episode, e)
      PROVE  /\ NamedPath \in HitPaths /\ LengthOf(NamedPath) = bundle.score
             /\ BestPathLinks \subseteq shown =>
                   \A k \in 1 .. Len(NamedPath) - 1 :
                      NamedPath[k + 1] \in Points \/ <<NamedPath[k], NamedPath[k + 1]>> \in shown
  <2>0. e # None
    BY BundlesAssumption DEF Nodes, Adjacent
  <2>1. NamedPath = <<Episode, e>>
    BY <1>5, <2>0, Joined DEF NamedPath, IfThere, NamedAs
  <2>2. NamedPath \in HitPaths /\ LengthOf(NamedPath) = bundle.score
    BY <1>5, <2>1, PathLengths DEF HitPaths, Paths, Hit
  <2>3. <<Episode, e>> \in BestPathLinks
    BY <1>5 DEF BestPathLinks, NamedAs, Linked
  <2> QED BY <2>1, <2>2, <2>3
<1> QED BY <1>1, <1>2, <1>3, <1>4, <1>5 DEF NamesItsPath

\* Once all is visited no path to a hit is shorter than the score, nor endless.
LEMMA NoPathShorter ==
    ASSUME BundlesTyped, NoShorter, left = {}, NEW p \in HitPaths
    PROVE  LengthOf(p) \in Nat /\ bundle.score <= LengthOf(p) /\ LengthOf(p) < Far
<1> USE DEF BundlesTyped
<1>0. Far \in Nat /\ DirectPenalty \in Nat
  BY BundlesAssumption
<1>1. CASE p = <<Episode>>
  <2>1. Hit(Episode) /\ LengthOf(p) = near[Episode] + DirectPenalty /\ Episode \in Nodes
    BY <1>1, PathLengths DEF HitPaths, Hit, Nodes
  <2>2. near[Episode] \in Nat /\ 4 * (near[Episode] + DirectPenalty) < Far
    BY <2>1, NodeCosts DEF Hit
  <2> QED BY <1>0, <2>1, <2>2 DEF NoShorter
<1>2. ASSUME NEW n \in Linked(Episode), p = <<Episode, n>>
      PROVE  LengthOf(p) \in Nat /\ bundle.score <= LengthOf(p) /\ LengthOf(p) < Far
  <2>1. Hit(n) /\ n \in Adjacent /\ n \in Nodes
    BY <1>2, PathLengths, LinkedKinds DEF HitPaths, Hit, Linked
  <2>2. CASE n \in Facets
    <3>1. LengthOf(p) = near[n] + Discounted(n) /\ bundle.score <= near[n] + Discounted(n)
      BY <1>2, <2>1, <2>2, PathLengths DEF NoShorter
    <3>2. /\ near[n] \in Nat /\ 4 * (near[n] + DirectPenalty) < Far
          /\ Discounted(n) \in Nat /\ 4 * Discounted(n) < Far
      BY <2>1, NodeCosts, DiscountedCosts DEF Hit
    <3> QED BY <1>0, <3>1, <3>2
  <2>3. CASE n \in Entities
    <3>1. LengthOf(p) = Reached(Episode, n) /\ bundle.score <= Reached(Episode, n)
      BY <1>2, <2>1, <2>3, PathLengths DEF NoShorter
    <3>2. Reached(Episode, n) \in Nat /\ 2 * Reached(Episode, n) < Far
      BY <2>1, ReachedCosts
    <3> QED BY <1>0, <3>1, <3>2
  <2> QED BY <2>1, <2>2, <2>3 DEF Adjacent
<1>3. ASSUME NEW f \in Linked(Episode) \cap Facets, NEW n \in Linked(f), p = <<Episode, f, n>>
      PROVE  LengthOf(p) \in Nat /\ bundle.score <= LengthOf(p) /\ LengthOf(p) < Far
  <2>1. Hit(n)
    BY <1>3, PathLengths DEF HitPaths, Hit, Linked
  <2>2. LengthOf(p) = Reached(f, n) + Discounted(f)
    BY <1>3, <2>1, PathLengths
  <2>3. bundle.score <= Reached(f, n) + Discounted(f)
    BY <2>1 DEF NoShorter
  <2>4. /\ Reached(f, n) \in Nat /\ 2 * Reached(f, n) < Far
        /\ Discounted(f) \in Nat /\ 4 * Discounted(f) < Far
    BY <2>1, ReachedCosts, DiscountedCosts
  <2> QED BY <1>0, <2>2, <2>3, <2>4
<1> QED BY <1>1, <1>2, <1>3 DEF HitPaths, Paths

(* Whatever the order of the loops, an episode is a result exactly if a    *)
(* hit is in reach, with the length of its shortest path, the ids of a     *)
(* path of that length, and that path shown but for a point at its end:    *)
(* for every episode, every graph and every set of hits.                   *)
THEOREM BundleIsAlwaysShortestPath == BundlesSpec => []BundleIsShortestPath
<1>1. BundlesInv => BundleIsShortestPath
  <2> SUFFICES ASSUME BundlesInv, left = {} PROVE BundleIsShortestPath
    BY DEF BundleIsShortestPath
  <2> USE DEF BundlesInv
  <2>1. \A p \in HitPaths : bundle.score <= LengthOf(p) /\ LengthOf(p) < Far
    BY NoPathShorter
  <2>2. bundle.score # Far => NamedPath \in HitPaths
    BY PathIsNamed
  <2>3. Far \in Nat /\ bundle.score \in Nat
    BY BundlesAssumption DEF BundlesTyped
  <2>4. bundle.score = Far => HitPaths = {}
    <3> SUFFICES ASSUME bundle.score = Far, NEW p \in HitPaths PROVE FALSE
      OBVIOUS
    <3>1. Far <= LengthOf(p) /\ LengthOf(p) < Far
      BY <2>1
    <3>2. LengthOf(p) \in Int
      BY NoPathShorter
    <3> QED BY <2>3, <3>1, <3>2
  <2> QED BY <2>1, <2>2, <2>4, PathIsNamed DEF BundleIsShortestPath
<1> QED BY <1>1, InitBundles, StepBundles, PTL DEF BundlesSpec

-----------------------------------------------------------------------------
(* Control flow.  Sequences are joined by a recursion over their number.   *)

\* Sequences joined are a sequence of what they hold.
LEMMA FlattenTyped ==
  ASSUME NEW S, NEW p \in Seq(Seq(S))
  PROVE  FlattenSeq(p) \in Seq(S)
<1> DEFINE n == Len(p)
           Z == Seq(S)
           none == <<>>
           step == [i \in 1 .. n |-> [t \in Z |-> t \o p[i]]]
<1>1. n \in Nat /\ none \in Z /\ \A i \in 1 .. n : p[i] \in Seq(S)
  OBVIOUS
<1>2. step \in [1 .. n -> [Z -> Z]]
  <2>1. \A i \in 1 .. n, t \in Z : t \o p[i] \in Z
    BY <1>1
  <2> HIDE DEF Z
  <2> QED BY <2>1
<1>3. CASE n = 0
  BY <1>3 DEF FlattenSeq
<1>4. CASE n # 0
  <2>a. n \in Nat /\ none \in Z /\ step \in [1 .. n -> [Z -> Z]]
    BY <1>1, <1>2
  <2> HIDE DEF n, Z, step, none
  <2>b. Recursions(Z, none, n, step) # {}
    BY <2>a, RecursionExists
  <2>1. PICK f \in [0 .. n -> Z] : f[0] = none /\ \A i \in 1 .. n : f[i] = step[i][f[i-1]]
    BY <2>b DEF Recursions
  <2> DEFINE g == [i \in 1 .. n |-> f[i]]
  <2>2. ASSUME NEW i \in 1 .. n PROVE f[i] = f[i-1] \o p[i]
    <3>1. i - 1 \in 0 .. n
      BY <1>1
    <3> QED BY <2>1, <3>1 DEF step
  <2>3. ASSUME NEW i \in 1 .. n, i = 1 PROVE f[i] = p[i]
    <3>1. i - 1 = 0 /\ f[0] = <<>> /\ p[i] \in Seq(S)
      BY <1>1, <2>1, <2>3 DEF none
    <3>2. <<>> \o p[i] = p[i]
      BY <3>1
    <3> QED BY <2>2, <3>1, <3>2
  <2>4. g = [i \in 1 .. n |-> IF i = 1 THEN p[i] ELSE g[i-1] \o p[i]]
    <3>1. ASSUME NEW i \in 1 .. n PROVE f[i] = IF i = 1 THEN p[i] ELSE g[i-1] \o p[i]
      <4>1. CASE i = 1
        BY <2>3, <4>1
      <4>2. CASE i # 1
        <5>1. i - 1 \in 1 .. n
          BY <1>1, <4>2
        <5> QED BY <2>2, <4>2, <5>1
      <4> QED BY <4>1, <4>2
    <3> QED BY <3>1
  <2> HIDE DEF g
  <2> DEFINE flatten[i \in 1 .. n] == IF i = 1 THEN p[i] ELSE flatten[i-1] \o p[i]
  <2>5. flatten = [i \in 1 .. n |-> IF i = 1 THEN p[i] ELSE flatten[i-1] \o p[i]]
    BY <2>4
  <2>6. FlattenSeq(p) = flatten[n]
    BY <1>4 DEF FlattenSeq, n
  <2> HIDE DEF flatten
  <2> DEFINE T == {i \in 0 .. n : i # 0 => flatten[i] \in Z}
  <2>7. 0 \in T
    BY <1>1
  <2>8. ASSUME NEW i \in 0 .. n, i # n, i \in T PROVE i + 1 \in T
    <3>1. i + 1 \in 1 .. n /\ (i + 1) - 1 = i /\ i + 1 \in 0 .. n /\ (i # 0 => i + 1 # 1)
      BY <1>1, <2>8
    <3>2. CASE i = 0
      BY <1>1, <2>5, <3>1, <3>2 DEF Z
    <3>3. CASE i # 0
      <4>1. flatten[i + 1] = flatten[i] \o p[i + 1]
        BY <2>5, <3>1, <3>3
      <4>2. flatten[i] \in Seq(S) /\ p[i + 1] \in Seq(S)
        BY <1>1, <2>8, <3>1, <3>3 DEF Z
      <4>3. flatten[i] \o p[i + 1] \in Seq(S)
        BY <4>2
      <4> QED BY <3>1, <4>1, <4>3 DEF Z
    <3> QED BY <3>2, <3>3
  <2>9. 0 .. n \subseteq T
    <3> HIDE DEF T
    <3> QED BY <1>1, <2>7, <2>8, NumbersUpTo
  <2> QED BY <1>1, <1>4, <2>6, <2>9 DEF Z
<1> QED BY <1>3, <1>4

LEMMA AmongTyped ==
  ASSUME NEW S, NEW bs \in Seq(S), NEW chosen
  PROVE  Among(bs, chosen) \in Seq(ToSet(bs) \cap chosen)
<1> DEFINE C == ToSet(bs) \cap chosen
           p == [i \in DOMAIN bs |-> IF bs[i] \in chosen THEN <<bs[i]>> ELSE <<>>]
<1>1. Len(bs) \in Nat /\ DOMAIN bs = 1 .. Len(bs)
  OBVIOUS
<1>2. \A i \in DOMAIN bs : bs[i] \in ToSet(bs)
  BY DEF ToSet
<1>3. \A i \in DOMAIN bs : p[i] \in Seq(C)
  <2> SUFFICES ASSUME NEW i \in DOMAIN bs PROVE p[i] \in Seq(C)
    OBVIOUS
  <2>1. CASE bs[i] \in chosen
    <3>1. bs[i] \in C /\ p[i] = <<bs[i]>>
      BY <1>2, <2>1
    <3> QED BY <3>1
  <2>2. CASE bs[i] \notin chosen
    BY <2>2
  <2> QED BY <2>1, <2>2
<1> HIDE DEF C
<1>4. p \in Seq(Seq(C))
  BY <1>1, <1>3
<1> QED BY <1>4, FlattenTyped DEF Among, C

-----------------------------------------------------------------------------
(* Where statements stand.                                                 *)

LEMMA CodeFacts ==
  ASSUME code \in Codes
  PROVE  /\ Statements \subseteq 1 .. Exit - 1 /\ Exit \in Nat
         /\ DOMAIN code.parts = Statements /\ Top \in DOMAIN code.body
         /\ \A s \in Statements : code.parts[s] \in Seq({"block", "bare", "case", "catch", "finally"})
         /\ \A s \in Statements : BlocksIn(code, s) \subseteq DOMAIN code.body
         /\ \A b \in DOMAIN code.body : /\ Body(b) \in Seq(Statements)
                                        /\ b = Top \/ \E s \in Statements : b \in BlocksIn(code, s)
         /\ Body(Top) # <<>>
<1>1. Numbered(code) /\ Exit \in Nat
  BY FlowAssumption
<1> QED BY <1>1 DEF Numbered, Statements, Body

LEMMA TextOrder ==
  ASSUME code \in Codes, NEW b \in DOMAIN code.body, NEW d \in DOMAIN code.body,
         NEW i \in DOMAIN code.body[b], NEW j \in DOMAIN code.body[d]
  PROVE  /\ b[1] < code.body[b][i]
         /\ b[1] = d[1] /\ (b[2] < d[2] \/ (b[2] = d[2] /\ i < j))
            => code.body[b][i] < code.body[d][j]
         /\ code.body[b][i] = code.body[d][j] => b[1] = d[1]
<1>1. InTextOrder(code)
  BY FlowAssumption
<1> QED BY <1>1 DEF InTextOrder

\* The statements right under s.
Children(s) == UNION {ToSet(Body(b)) : b \in BlocksIn(code, s)}

LEMMA ChildFacts ==
  ASSUME code \in Codes, NEW s \in Statements
  PROVE  /\ Children(s) \subseteq Statements
         /\ \A x \in Children(s) : s < x
         /\ \A r \in Statements : Children(s) \cap Children(r) # {} => s = r
<1>1. ASSUME NEW r \in Statements, NEW b \in BlocksIn(code, r), NEW x \in ToSet(Body(b))
      PROVE  x \in Statements /\ b[1] = r /\ r < x
                /\ \E i \in DOMAIN code.body[b] : x = code.body[b][i]
  <2>1. b \in DOMAIN code.body /\ b[1] = r
    BY <1>1, CodeFacts DEF BlocksIn
  <2>2. PICK i \in DOMAIN Body(b) : x = Body(b)[i]
    BY <1>1 DEF ToSet
  <2>3. x \in Statements
    BY <2>1, <2>2, CodeFacts
  <2>4. b[1] < code.body[b][i]
    BY <2>1, <2>2, TextOrder DEF Body
  <2> QED BY <2>1, <2>2, <2>3, <2>4 DEF Body
<1>2. ASSUME NEW r \in Statements, NEW x \in Children(s), x \in Children(r) PROVE s = r
  <2>1. PICK b \in BlocksIn(code, s) : x \in ToSet(Body(b))
    BY <1>2 DEF Children
  <2>2. PICK d \in BlocksIn(code, r) : x \in ToSet(Body(d))
    BY <1>2 DEF Children
  <2>3. b \in DOMAIN code.body /\ d \in DOMAIN code.body
    BY CodeFacts
  <2>4. PICK i \in DOMAIN code.body[b] : x = code.body[b][i]
    BY <1>1, <2>1
  <2>5. PICK j \in DOMAIN code.body[d] : x = code.body[d][j]
    BY <1>1, <2>2
  <2>6. code.body[b][i] = code.body[d][j] => b[1] = d[1]
    BY <2>3, TextOrder
  <2> QED BY <1>1, <2>1, <2>2, <2>4, <2>5, <2>6
<1>3. \A x \in Children(s) : x \in Statements /\ s < x
  BY <1>1 DEF Children
<1> QED BY <1>2, <1>3

\* Under is a fixed point: there is one, the smallest sets closed under Children.
LEMMA UnderIs ==
  ASSUME code \in Codes
  PROVE  /\ Under = [s \in Statements |-> Under[s]]
         /\ \A s \in Statements : Under[s] = Children(s) \cup UNION {Under[x] : x \in Children(s)}
<1> DEFINE Whole(A) == \A x \in A \cap Statements : Children(x) \subseteq A
           around(s) == {A \in SUBSET Statements : Children(s) \subseteq A /\ Whole(A)}
           below(s) == {x \in Statements : \A A \in around(s) : x \in A}
           f == [s \in Statements |-> below(s)]
           F(u, s) == UNION {ToSet(Body(b)) \cup UNION {u[x] : x \in ToSet(Body(b))} :
                             b \in BlocksIn(code, s)}
<1>1. ASSUME NEW u, NEW s
      PROVE  F(u, s) = Children(s) \cup UNION {u[x] : x \in Children(s)}
  BY DEF Children
<1>2. ASSUME NEW s \in Statements
      PROVE  below(s) = Children(s) \cup UNION {below(x) : x \in Children(s)}
  <2> DEFINE A == Children(s) \cup UNION {below(x) : x \in Children(s)}
  <2>1. A \subseteq Statements
    BY ChildFacts
  <2>2. \A x \in Statements : Children(x) \subseteq below(x)
    BY ChildFacts
  <2>3. Whole(A)
    <3>1. ASSUME NEW x \in A, NEW y \in Children(x) PROVE y \in A
      <4>1. CASE x \in Children(s)
        BY <2>1, <2>2, <3>1, <4>1
      <4>2. CASE x \notin Children(s)
        <5>1. PICK z \in Children(s) : x \in below(z)
          BY <3>1, <4>2
        <5>2. y \in Statements
          BY <2>1, <3>1, ChildFacts
        <5>3. y \in below(z)
          BY <2>1, <3>1, <5>1, <5>2
        <5> QED BY <5>3
      <4> QED BY <4>1, <4>2
    <3> QED BY <3>1
  <2>4. below(s) \subseteq A
    BY <2>1, <2>3
  <2>5. A \subseteq below(s)
    <3>1. ASSUME NEW x \in Children(s), NEW y \in below(x) PROVE y \in below(s)
      <4>1. around(s) \subseteq around(x)
        BY <3>1, ChildFacts
      <4> QED BY <3>1, <4>1
    <3> QED BY <2>2, <3>1
  <2> QED BY <2>4, <2>5
<1>3. f = [s \in Statements |-> F(f, s)]
  <2>1. ASSUME NEW s \in Statements PROVE below(s) = F(f, s)
    <3>1. \A x \in Children(s) : f[x] = below(x)
      BY ChildFacts
    <3> HIDE DEF f, below
    <3>2. {f[x] : x \in Children(s)} = {below(x) : x \in Children(s)}
      BY <3>1
    <3> HIDE DEF F
    <3> QED BY <1>1, <1>2, <3>2
  <2> QED BY <2>1
<1> HIDE DEF f
<1> DEFINE under[s \in Statements] == F(under, s)
<1>4. under = [s \in Statements |-> F(under, s)]
  BY <1>3
<1>5. Under = under
  BY DEF Under, Beneath, Statements, Body
<1> HIDE DEF under, F
<1> QED BY <1>1, <1>4, <1>5

LEMMA UnderFacts ==
  ASSUME code \in Codes, NEW s \in Statements, NEW x \in Under[s]
  PROVE  /\ x \in Statements /\ s < x
         /\ \E r \in Statements : x \in Children(r)
         /\ \A r \in Statements : x \in Children(r) => s = r \/ r \in Under[s]
<1> DEFINE Fact(r, y) == /\ y \in Statements /\ r < y
                         /\ \E q \in Statements : y \in Children(q)
                         /\ \A q \in Statements : y \in Children(q) => r = q \/ q \in Under[r]
           T == {r \in Statements : \A y \in Under[r] : Fact(r, y)}
<1>1. ASSUME NEW r \in Statements, \A q \in Statements : q > r => q \in T
      PROVE  r \in T
  <2>1. ASSUME NEW y \in Under[r] PROVE Fact(r, y)
    <3>1. CASE y \in Children(r)
      BY <3>1, ChildFacts
    <3>2. CASE y \notin Children(r)
      <4>1. PICK z \in Children(r) : y \in Under[z]
        BY <2>1, <3>2, UnderIs
      <4>2. z \in Statements /\ r < z /\ z \in T
        BY <1>1, ChildFacts, CodeFacts
      <4>3. Fact(z, y)
        BY <4>1, <4>2
      <4>4. r < y
        BY <4>2, <4>3, CodeFacts
      <4>5. z \in Under[r] /\ Under[z] \subseteq Under[r]
        BY <4>1, UnderIs
      <4> QED BY <4>3, <4>4, <4>5
    <3> QED BY <3>1, <3>2
  <2> QED BY <2>1
<1>2. Statements \in SUBSET (0 .. Exit) /\ Exit \in Nat
  BY CodeFacts
<1>3. Statements \subseteq T
  <2> HIDE DEF T
  <2> QED BY <1>1, <1>2, Descent
<1> QED BY <1>3

LEMMA ChildrenUnder ==
  ASSUME code \in Codes, NEW s \in Statements, NEW x \in Children(s)
  PROVE  x \in Under[s] /\ Under[x] \subseteq Under[s]
  BY UnderIs

\* What is under a statement is with the statements under that.
LEMMA UnderClosed ==
  ASSUME code \in Codes, NEW s \in Statements, NEW x \in Under[s]
  PROVE  Under[x] \subseteq Under[s]
<1> DEFINE T == {r \in Statements : \A y \in Under[r] : Under[y] \subseteq Under[r]}
<1>1. ASSUME NEW r \in Statements, \A q \in Statements : q > r => q \in T
      PROVE  r \in T
  <2>1. ASSUME NEW y \in Under[r] PROVE Under[y] \subseteq Under[r]
    <3>1. CASE y \in Children(r)
      BY <3>1, UnderIs
    <3>2. CASE y \notin Children(r)
      <4>1. PICK z \in Children(r) : y \in Under[z]
        BY <2>1, <3>2, UnderIs
      <4>2. z \in T
        BY <1>1, ChildFacts, CodeFacts
      <4> QED BY <4>1, <4>2, ChildrenUnder
    <3> QED BY <3>1, <3>2
  <2> QED BY <2>1
<1>2. Statements \in SUBSET (0 .. Exit) /\ Exit \in Nat
  BY CodeFacts
<1>3. Statements \subseteq T
  <2> HIDE DEF T
  <2> QED BY <1>1, <1>2, Descent
<1> QED BY <1>3

-----------------------------------------------------------------------------
(* Where control may go on from a statement: to what stands after it and   *)
(* all under it, or back to a loop it is in.                               *)
Leads(s, y) ==
    /\ y \in Nat
    /\ \/ y > s /\ \A z \in Under[s] : y > z
       \/ y \in Statements /\ Kind(y) = "loop" /\ s \in Under[y]

\* x is the nearest statement of one of the kinds around s.
IsAround(x, s, kinds) ==
    /\ x \in Statements /\ Kind(x) \in kinds /\ s \in Under[x]
    /\ \A y \in Statements : Kind(y) \in kinds /\ s \in Under[y] => y <= x

\* Where break and continue may go from a statement.
JumpsLead(s, jumps) ==
    IF jumps = NoTarget
    THEN \A x \in Statements : Kind(x) \in {"loop", "switch"} => s \notin Under[x]
    ELSE /\ \E x \in Statements : IsAround(x, s, {"loop", "switch"}) /\ Leads(x, jumps[1])
         /\ \A x \in Statements : IsAround(x, s, {"loop"}) => jumps[2] = x

LEMMA LeadsDown ==
  ASSUME code \in Codes, NEW s \in Statements, NEW x \in Children(s), NEW y, Leads(s, y)
  PROVE  Leads(x, y)
<1>1. x \in Under[s] /\ Under[x] \subseteq Under[s]
  BY ChildrenUnder
<1>2. \A r \in Statements : s \in Under[r] => x \in Under[r]
  BY <1>1, UnderClosed
<1> QED BY <1>1, <1>2 DEF Leads

LEMMA LeadsToLoop ==
  ASSUME code \in Codes, NEW s \in Statements, NEW x \in Children(s), Kind(s) = "loop"
  PROVE  Leads(x, s)
  BY ChildrenUnder, CodeFacts DEF Leads

\* What no statement has under it but from outside goes on after all under it.
LEMMA LeadsPast ==
  ASSUME code \in Codes, NEW x \in Statements, NEW y \in Statements, x < y, y \notin Under[x]
  PROVE  Leads(x, y)
<1>1. ASSUME NEW z \in Under[x] PROVE y > z
  <2>1. z \in Statements /\ z # y
    BY UnderFacts
  <2>2. ASSUME y < z PROVE FALSE
    <3>1. y \in Under[x]
      BY <2>1, <2>2, FlowAssumption DEF InTextOrder, Under, Statements
    <3> QED BY <3>1
  <2> QED BY <2>1, <2>2, CodeFacts
<1> QED BY <1>1, CodeFacts DEF Leads

LEMMA LeadsOn ==
  ASSUME code \in Codes, NEW b \in DOMAIN code.body, NEW d \in DOMAIN code.body, b[1] = d[1],
         NEW i \in DOMAIN Body(b), NEW j \in DOMAIN Body(d),
         b[2] < d[2] \/ (b[2] = d[2] /\ i < j)
  PROVE  Leads(Body(b)[i], Body(d)[j])
<1> DEFINE x == Body(b)[i]
           y == Body(d)[j]
<1>1. x \in Statements /\ y \in Statements
  BY CodeFacts
<1>2. x < y /\ b[1] < x /\ d[1] < y
  BY TextOrder DEF Body
<1>3. ASSUME y \in Under[x] PROVE FALSE
  <2>1. PICK r \in Statements : y \in Children(r)
    BY <1>1, <1>3, UnderFacts
  <2>2. PICK e \in BlocksIn(code, r) : y \in ToSet(Body(e))
    BY <2>1 DEF Children
  <2>3. e \in DOMAIN code.body /\ e[1] = r
    BY <2>2, CodeFacts DEF BlocksIn
  <2>4. PICK k \in DOMAIN code.body[e] : y = code.body[e][k]
    BY <2>2 DEF ToSet, Body
  <2>5. e[1] = d[1]
    BY <2>3, <2>4, TextOrder DEF Body
  <2>6. r < x
    BY <1>2, <2>3, <2>5
  <2>7. x = r \/ r \in Under[x]
    BY <1>1, <1>3, <2>1, UnderFacts
  <2>8. x = r \/ x < r
    BY <1>1, <2>7, UnderFacts
  <2>9. x \in Int /\ r \in Int
    BY <1>1, CodeFacts
  <2> HIDE DEF x
  <2> QED BY <2>6, <2>8, <2>9
<1> QED BY <1>1, <1>2, <1>3, LeadsPast

\* The statements of a method's own list have nothing around them.
LEMMA OnTop ==
  ASSUME code \in Codes, NEW i \in DOMAIN Body(Top), NEW s \in Statements
  PROVE  Body(Top)[i] \notin Under[s]
<1> DEFINE x == Body(Top)[i]
<1> SUFFICES ASSUME x \in Under[s] PROVE FALSE
  OBVIOUS
<1>1. PICK r \in Statements : x \in Children(r)
  BY UnderFacts
<1>2. PICK e \in BlocksIn(code, r) : x \in ToSet(Body(e))
  BY <1>1 DEF Children
<1>3. e \in DOMAIN code.body /\ e[1] = r /\ Top \in DOMAIN code.body
  BY <1>2, CodeFacts DEF BlocksIn
<1>4. PICK k \in DOMAIN code.body[e] : x = code.body[e][k]
  BY <1>2 DEF ToSet, Body
<1>5. x = code.body[Top][i] /\ i \in DOMAIN code.body[Top]
  BY DEF Body
<1>6. code.body[e][k] = code.body[Top][i] => e[1] = Top[1]
  BY <1>3, <1>5, TextOrder
<1>7. r = 0
  BY <1>3, <1>4, <1>5, <1>6 DEF Top
<1> QED BY <1>7, CodeFacts

-----------------------------------------------------------------------------
(* What stands around the statements right under s.                        *)

LEMMA AroundChild ==
  ASSUME code \in Codes, NEW s \in Statements, NEW x \in Children(s), NEW kinds
  PROVE  /\ Kind(s) \in kinds => IsAround(s, x, kinds)
         /\ Kind(s) \notin kinds =>
               \A r \in Statements : /\ IsAround(r, x, kinds) <=> IsAround(r, s, kinds)
                                     /\ Kind(r) \in kinds /\ x \in Under[r] => s \in Under[r]
<1>1. x \in Under[s] /\ x \in Statements
  BY ChildrenUnder, ChildFacts
<1>2. \A r \in Statements : x \in Under[r] <=> r = s \/ s \in Under[r]
  <2> SUFFICES ASSUME NEW r \in Statements PROVE x \in Under[r] <=> r = s \/ s \in Under[r]
    OBVIOUS
  <2>1. x \in Under[r] => r = s \/ s \in Under[r]
    BY UnderFacts
  <2>2. s \in Under[r] => x \in Under[r]
    BY <1>1, UnderClosed
  <2> QED BY <1>1, <2>1, <2>2
<1>3. \A r \in Statements : s \in Under[r] => r <= s
  BY UnderFacts, CodeFacts
<1>4. s <= s
  BY CodeFacts
<1> QED BY <1>1, <1>2, <1>3, <1>4 DEF IsAround

LEMMA OneAround ==
  ASSUME code \in Codes, NEW s, NEW kinds, NEW x, NEW y, IsAround(x, s, kinds), IsAround(y, s, kinds)
  PROVE  x = y
<1>1. x <= y /\ y <= x /\ x \in Statements /\ y \in Statements
  BY DEF IsAround
<1> QED BY <1>1, CodeFacts

LEMMA AroundIs ==
  ASSUME code \in Codes, NEW s, NEW kinds, NEW x, IsAround(x, s, kinds)
  PROVE  Around(s, kinds) = x
<1> DEFINE A == {y \in Statements : Kind(y) \in kinds /\ s \in Under[y]}
<1>1. x \in A /\ \A y \in A : x >= y
  BY CodeFacts DEF IsAround
<1>2. \A y \in A : (\A z \in A : y >= z) => y = x
  BY <1>1, CodeFacts
<1>3. Around(s, kinds) = CHOOSE y \in A : \A z \in A : y >= z
  BY DEF Around, Max
<1> HIDE DEF A
<1> QED BY <1>1, <1>2, <1>3

LEMMA JumpsDown ==
  ASSUME code \in Codes, NEW s \in Statements, NEW x \in Children(s), NEW jumps,
         JumpsLead(s, jumps), Kind(s) \notin {"loop", "switch"}
  PROVE  JumpsLead(x, jumps)
<1>1. \A r \in Statements : IsAround(r, x, {"loop"}) <=> IsAround(r, s, {"loop"})
  BY AroundChild
<1>2. \A r \in Statements :
         /\ IsAround(r, x, {"loop", "switch"}) <=> IsAround(r, s, {"loop", "switch"})
         /\ Kind(r) \in {"loop", "switch"} /\ x \in Under[r] => s \in Under[r]
  BY AroundChild
<1> QED BY <1>1, <1>2 DEF JumpsLead

LEMMA JumpsInLoop ==
  ASSUME code \in Codes, NEW s \in Statements, NEW x \in Children(s), Kind(s) = "loop",
         NEW next, Leads(s, next)
  PROVE  JumpsLead(x, <<next, s>>) /\ <<next, s>> \in Nat \X Nat
<1>1. IsAround(s, x, {"loop"}) /\ IsAround(s, x, {"loop", "switch"})
  BY AroundChild
<1>2. \A r \in Statements : IsAround(r, x, {"loop"}) => r = s
  BY <1>1, OneAround
<1>3. next \in Nat /\ s \in Nat
  BY CodeFacts DEF Leads
<1>4. <<next, s>> # NoTarget
  BY <1>3, FlowAssumption
<1> QED BY <1>1, <1>2, <1>3, <1>4 DEF JumpsLead

LEMMA JumpsInSwitch ==
  ASSUME code \in Codes, NEW s \in Statements, NEW x \in Children(s), Kind(s) = "switch",
         NEW next, Leads(s, next), NEW jumps \in {NoTarget} \cup (Nat \X Nat), JumpsLead(s, jumps)
  PROVE  LET inner == <<next, IF jumps # NoTarget THEN jumps[2] ELSE next>>
         IN  JumpsLead(x, inner) /\ inner \in Nat \X Nat
<1> DEFINE inner == <<next, IF jumps # NoTarget THEN jumps[2] ELSE next>>
<1>1. IsAround(s, x, {"loop", "switch"})
  BY AroundChild
<1>2. \A r \in Statements : IsAround(r, x, {"loop"}) => IsAround(r, s, {"loop"})
  BY AroundChild
<1>3. inner \in Nat \X Nat /\ inner[1] = next
  BY DEF Leads
<1>4. inner # NoTarget
  BY <1>3, FlowAssumption
<1>5. ASSUME NEW r \in Statements, IsAround(r, x, {"loop"}) PROVE inner[2] = r
  <2>1. IsAround(r, s, {"loop"})
    BY <1>2, <1>5
  <2>2. jumps # NoTarget
    BY <2>1 DEF IsAround, JumpsLead
  <2> QED BY <2>1, <2>2 DEF JumpsLead
<1> HIDE DEF inner
<1>6. JumpsLead(x, inner)
  BY <1>1, <1>3, <1>4, <1>5 DEF JumpsLead
<1> QED BY <1>3, <1>6 DEF inner

-----------------------------------------------------------------------------
(* The tasks the walk may leave: each leads where control may go.          *)
Jumping == {NoTarget} \cup (Nat \X Nat)
Block == DOMAIN code.body

Collecting == [do : {"collect", "drop"}, blocks : Seq(Block)]
Connecting ==
    {t \in [do : {"connect"}, block : Block, exit : Nat, jumps : Jumping, tail : {NoTarget} \cup Nat] :
        \A s \in ToSet(Body(t.block)) : /\ Leads(s, t.exit) /\ JumpsLead(s, t.jumps)
                                        /\ t.tail # NoTarget => Leads(s, t.tail)}
Handling ==
    {t \in [do : {"handle"}, stmt : Statements, next : Nat, isLast : BOOLEAN, exit : Nat,
            jumps : Jumping, tail : {NoTarget} \cup Nat] :
        Leads(t.stmt, t.next) /\ Leads(t.stmt, t.exit) /\ JumpsLead(t.stmt, t.jumps)}
Linking ==
    {t \in [do : {"link"}, block : Block, after : Nat, jumps : Jumping] :
        /\ Body(t.block) # <<>>
        /\ Leads(LastOf(t.block), t.after) /\ JumpsLead(LastOf(t.block), t.jumps)}

SoundTasks == Collecting \cup Connecting \cup Handling \cup Linking

\* What FlowIsStructured says of an edge.
Structured(e) ==
    e[1] # Entry =>
        /\ e[2] <= e[1] => Kind(e[2]) = "loop" /\ e[1] \in Under[e[2]]
        /\ Kind(e[1]) = "continue" => e[2] = Around(e[1], {"loop"})
        /\ Kind(e[1]) = "break" => e[2] \notin Under[Around(e[1], {"loop", "switch"})]
                                                \cup {Around(e[1], {"loop", "switch"})}

FlowInv == code \in Codes /\ todo \in Seq(SoundTasks) /\ FlowIsStructured

\* The blocks under s with statements.
Full(s) == {b \in BlocksIn(code, s) : Body(b) # <<>>}
InRole(s, role) == {b \in Full(s) : code.parts[s][b[2]] = role}

LEMMA BlocksTyped ==
  ASSUME code \in Codes, NEW s \in Statements, NEW role
  PROVE  /\ Filled(Blocks(s, role)) \in Seq(InRole(s, role))
         /\ BlockAt(s, role, 1) \in Seq(InRole(s, role))
         /\ BlockAt(s, role, 2) \in Seq(InRole(s, role))
<1> DEFINE R == {b \in BlocksIn(code, s) : code.parts[s][b[2]] = role}
           all == [i \in DOMAIN code.parts[s] |-> <<s, i>>]
<1>1. all \in Seq(BlocksIn(code, s))
  <2>1. code.parts[s] \in Seq({"block", "bare", "case", "catch", "finally"})
    BY CodeFacts
  <2>2. DOMAIN code.parts[s] = 1 .. Len(code.parts[s]) /\ Len(code.parts[s]) \in Nat
    BY <2>1
  <2>3. \A i \in DOMAIN code.parts[s] : <<s, i>> \in BlocksIn(code, s)
    BY DEF BlocksIn
  <2> QED BY <2>2, <2>3
<1>2. Blocks(s, role) \in Seq(R)
  <2>1. Among(all, R) \in Seq(ToSet(all) \cap R)
    BY <1>1, AmongTyped
  <2>2. Among(all, R) \in Seq(R)
    <3> HIDE DEF all, R
    <3> QED BY <2>1
  <2> QED BY <2>2 DEF Blocks
<1>3. ASSUME NEW bs \in Seq(R) PROVE Filled(bs) \in Seq(InRole(s, role))
  <2>1. Filled(bs) \in Seq(ToSet(bs) \cap {b \in ToSet(bs) : Body(b) # <<>>})
    BY AmongTyped DEF Filled
  <2>2. ToSet(bs) \subseteq R
    BY DEF ToSet
  <2>3. ToSet(bs) \cap {b \in ToSet(bs) : Body(b) # <<>>} \subseteq InRole(s, role)
    BY <2>2 DEF InRole, Full
  <2>4. ASSUME NEW A, NEW B, A \subseteq B, NEW u \in Seq(A) PROVE u \in Seq(B)
    BY <2>4
  <2> QED BY <2>1, <2>3, <2>4
<1> HIDE DEF R
<1>4. ASSUME NEW place \in {1, 2}
      PROVE  SubSeq(Blocks(s, role), place, Min({place, Len(Blocks(s, role))})) \in Seq(R)
  <2> DEFINE n == Len(Blocks(s, role))
             m == Min({place, n})
  <2>1. n \in Nat
    BY <1>2
  <2>2. m \in {place, n} /\ m <= n
    <3>1. \E x \in {place, n} : \A y \in {place, n} : x <= y
      BY <2>1
    <3>2. m \in {place, n} /\ \A y \in {place, n} : m <= y
      BY <3>1 DEF Min
    <3> QED BY <3>2
  <2> HIDE DEF m
  <2>3. SubSeq(Blocks(s, role), place, m) \in Seq(R)
    BY <1>2, <2>1, <2>2
  <2> QED BY <2>3 DEF m
<1> QED BY <1>2, <1>3, <1>4 DEF BlockAt

\* The statements of the blocks under s.
LEMMA FullFacts ==
  ASSUME code \in Codes, NEW s \in Statements, NEW b \in Full(s)
  PROVE  /\ b \in Block /\ Body(b) \in Seq(Statements)
         /\ ToSet(Body(b)) \subseteq Children(s)
         /\ First(b) \in ToSet(Body(b)) /\ LastOf(b) \in ToSet(Body(b))
<1>1. b \in BlocksIn(code, s) /\ Body(b) # <<>>
  BY DEF Full
<1>2. b \in Block /\ Body(b) \in Seq(Statements)
  BY <1>1, CodeFacts DEF Block
<1>3. ToSet(Body(b)) \subseteq Children(s)
  BY <1>1 DEF Children
<1>4. 1 \in DOMAIN Body(b) /\ Len(Body(b)) \in DOMAIN Body(b) /\ Head(Body(b)) = Body(b)[1]
  BY <1>1, <1>2
<1>5. First(b) \in ToSet(Body(b)) /\ LastOf(b) \in ToSet(Body(b))
  BY <1>4 DEF First, LastOf, Last, ToSet
<1> QED BY <1>2, <1>3, <1>5

\* An edge into a block under s, and one to where s leads.
LEMMA InwardEdge ==
  ASSUME code \in Codes, NEW s \in Statements, NEW y \in Children(s),
         Kind(s) \notin {"break", "continue"}
  PROVE  Structured(<<s, y>>)
<1>1. s < y
  BY ChildFacts
<1>2. s \in Int /\ y \in Int
  BY ChildFacts, CodeFacts
<1> QED BY <1>1, <1>2 DEF Structured

LEMMA OnwardEdge ==
  ASSUME code \in Codes, NEW s \in Statements, NEW y, Leads(s, y),
         Kind(s) \notin {"break", "continue"}
  PROVE  Structured(<<s, y>>)
<1>1. s \in Int /\ y \in Int
  BY CodeFacts DEF Leads
<1> QED BY <1>1 DEF Structured, Leads

-----------------------------------------------------------------------------
(* What the handlers leave.                                                *)

LEMMA HeldTyped ==
  ASSUME NEW bs \in Seq(Block), NEW tasks \in Seq(SoundTasks)
  PROVE  Held(bs, tasks) \in Seq(SoundTasks)
<1>1. Collect(bs) \in SoundTasks /\ Drop(bs) \in SoundTasks
  BY DEF Collect, Drop, SoundTasks, Collecting
<1> HIDE DEF SoundTasks
<1> QED BY <1>1 DEF Held

LEMMA ConnectTyped ==
  ASSUME code \in Codes, NEW s \in Statements, NEW b \in Full(s), NEW exit, Leads(s, exit),
         NEW jumps \in Jumping, \A x \in Children(s) : JumpsLead(x, jumps),
         NEW tail, tail = NoTarget \/ (tail = s /\ Kind(s) = "loop")
  PROVE  Connect(b, exit, jumps, tail) \in SoundTasks
<1> DEFINE t == Connect(b, exit, jumps, tail)
<1>1. b \in Block /\ ToSet(Body(b)) \subseteq Children(s) /\ exit \in Nat /\ s \in Nat
  BY FullFacts, CodeFacts DEF Leads
<1>2. t \in [do : {"connect"}, block : Block, exit : Nat, jumps : Jumping, tail : {NoTarget} \cup Nat]
  BY <1>1 DEF Connect
<1>3. t.block = b /\ t.exit = exit /\ t.jumps = jumps /\ t.tail = tail
  BY DEF Connect
<1>4. ASSUME NEW x \in ToSet(Body(b))
      PROVE  Leads(x, exit) /\ JumpsLead(x, jumps) /\ (tail # NoTarget => Leads(x, tail))
  BY <1>1, LeadsDown, LeadsToLoop
<1> HIDE DEF t
<1>5. t \in Connecting
  BY <1>2, <1>3, <1>4 DEF Connecting
<1> QED BY <1>5 DEF SoundTasks, t

LEMMA BranchTyped ==
  ASSUME code \in Codes, NEW t \in Handling, Kind(t.stmt) \notin {"loop", "switch"},
         NEW b \in Full(t.stmt), NEW after, \A x \in ToSet(Body(b)) : Leads(x, after)
  PROVE  Branch(b, after, t) \in Seq(SoundTasks)
<1>1. /\ t.stmt \in Statements /\ Leads(t.stmt, t.exit) /\ t.jumps \in Jumping
      /\ JumpsLead(t.stmt, t.jumps)
  BY DEF Handling
<1>2. \A x \in Children(t.stmt) : JumpsLead(x, t.jumps)
  BY <1>1, JumpsDown
<1>3. Connect(b, t.exit, t.jumps, NoTarget) \in SoundTasks
  BY <1>1, <1>2, ConnectTyped
<1>4. Link(b, after, t.jumps) \in SoundTasks
  <2> DEFINE u == Link(b, after, t.jumps)
  <2>1. /\ b \in Block /\ Body(b) # <<>> /\ LastOf(b) \in ToSet(Body(b))
        /\ LastOf(b) \in Children(t.stmt)
    BY <1>1, FullFacts DEF Full
  <2>2. Leads(LastOf(b), after) /\ JumpsLead(LastOf(b), t.jumps) /\ after \in Nat
    BY <1>2, <2>1 DEF Leads
  <2>3. u \in [do : {"link"}, block : Block, after : Nat, jumps : Jumping]
    BY <1>1, <2>1, <2>2 DEF Link
  <2>4. u.block = b /\ u.after = after /\ u.jumps = t.jumps
    BY DEF Link
  <2> HIDE DEF u
  <2>5. u \in Linking
    BY <2>1, <2>2, <2>3, <2>4 DEF Linking
  <2> QED BY <2>5 DEF SoundTasks, u
<1> QED BY <1>3, <1>4 DEF Branch

LEMMA BranchesTyped ==
  ASSUME code \in Codes, NEW t \in Handling, Kind(t.stmt) \notin {"loop", "switch"},
         NEW B \in SUBSET Full(t.stmt), NEW bs \in Seq(B), NEW after,
         \A b \in B : \A x \in ToSet(Body(b)) : Leads(x, after)
  PROVE  Branches(bs, after, t) \in Seq(SoundTasks)
<1> DEFINE part(i) == Branch(bs[i], after, t)
<1>1. ASSUME NEW i \in DOMAIN bs PROVE part(i) \in Seq(SoundTasks)
  <2>1. bs[i] \in B
    OBVIOUS
  <2> QED BY <2>1, BranchTyped
<1> HIDE DEF part
<1>2. [i \in DOMAIN bs |-> part(i)] \in Seq(Seq(SoundTasks))
  BY <1>1
<1>3. FlattenSeq([i \in DOMAIN bs |-> part(i)]) \in Seq(SoundTasks)
  BY <1>2, FlattenTyped
<1> QED BY <1>3 DEF Branches, part

LEMMA OneByOneTyped ==
  ASSUME NEW B \in SUBSET Block, NEW bs \in Seq(B), NEW use,
         \A i \in DOMAIN bs : use[i] \in Seq(SoundTasks)
  PROVE  FlattenSeq([i \in DOMAIN bs |->
                        <<Collect(<<bs[i]>>)>> \o use[i] \o <<Drop(<<bs[i]>>)>>]) \in Seq(SoundTasks)
<1> DEFINE part(i) == <<Collect(<<bs[i]>>)>> \o use[i] \o <<Drop(<<bs[i]>>)>>
<1>1. ASSUME NEW i \in DOMAIN bs PROVE part(i) \in Seq(SoundTasks)
  <2>1. <<bs[i]>> \in Seq(Block)
    OBVIOUS
  <2>2. Held(<<bs[i]>>, use[i]) \in Seq(SoundTasks)
    BY <1>1, <2>1, HeldTyped
  <2> QED BY <2>2 DEF Held
<1> HIDE DEF part
<1>2. [i \in DOMAIN bs |-> part(i)] \in Seq(Seq(SoundTasks))
  BY <1>1
<1>3. FlattenSeq([i \in DOMAIN bs |-> part(i)]) \in Seq(SoundTasks)
  BY <1>2, FlattenTyped
<1> QED BY <1>3 DEF part

\* Edges and tasks that are as they should be.
Sound(handled) ==
    (\A e \in handled.adds : Structured(e)) /\ handled.tasks \in Seq(SoundTasks)

LEMMA RoleFacts ==
  ASSUME code \in Codes, NEW s \in Statements, NEW role
  PROVE  InRole(s, role) \subseteq Full(s) /\ InRole(s, role) \subseteq Block
  BY FullFacts DEF InRole

\* The edge to a block, or past it when there is none.
LEMMA FirstOrEdge ==
  ASSUME code \in Codes, NEW s \in Statements, Kind(s) \notin {"break", "continue"},
         NEW bs \in Seq(Full(s)), NEW y, Leads(s, y)
  PROVE  Structured(<<s, FirstOr(bs, y)>>)
<1>1. CASE bs = <<>>
  BY <1>1, OnwardEdge DEF FirstOr
<1>2. CASE bs # <<>>
  <2>1. bs[1] \in Full(s)
    BY <1>2
  <2>2. First(bs[1]) \in Children(s)
    BY <2>1, FullFacts
  <2> QED BY <1>2, <2>2, InwardEdge DEF FirstOr
<1> QED BY <1>1, <1>2

LEMMA IntoEdges ==
  ASSUME code \in Codes, NEW s \in Statements, Kind(s) \notin {"break", "continue"},
         NEW bs \in Seq(Full(s))
  PROVE  \A e \in Into(s, bs) : Structured(e)
<1>1. \A i \in DOMAIN bs : First(bs[i]) \in Children(s)
  BY FullFacts
<1> QED BY <1>1, InwardEdge DEF Into

LEMMA BranchingSound ==
  ASSUME code \in Codes, NEW t \in Handling, Kind(t.stmt) = "if"
  PROVE  Sound(Branching(t))
<1> DEFINE s == t.stmt
           thens == BlockAt(s, "block", 1)
           elses == BlockAt(s, "block", 2)
<1>1. s \in Statements /\ Leads(s, t.next)
  BY DEF Handling
<1>2. thens \in Seq(Full(s)) /\ elses \in Seq(Full(s))
  <2>1. thens \in Seq(InRole(s, "block")) /\ elses \in Seq(InRole(s, "block"))
    BY <1>1, BlocksTyped
  <2>2. InRole(s, "block") \subseteq Full(s)
    BY <1>1, RoleFacts
  <2> HIDE DEF thens, elses, s
  <2> QED BY <2>1, <2>2
<1>3. Full(s) \subseteq Block /\ \A b \in Full(s) : \A x \in ToSet(Body(b)) : Leads(x, t.next)
  BY <1>1, FullFacts, LeadsDown
<1> HIDE DEF thens, elses
<1>4. thens \o elses \in Seq(Full(s)) /\ thens \o elses \in Seq(Block)
  BY <1>2, <1>3
<1>5. Branches(thens \o elses, t.next, t) \in Seq(SoundTasks)
  BY <1>3, <1>4, BranchesTyped
<1>6. Held(thens \o elses, Branches(thens \o elses, t.next, t)) \in Seq(SoundTasks)
  BY <1>4, <1>5, HeldTyped
<1>7. Structured(<<s, FirstOr(thens, t.next)>>) /\ Structured(<<s, FirstOr(elses, t.next)>>)
  BY <1>1, <1>2, FirstOrEdge
<1> QED BY <1>6, <1>7 DEF Sound, Branching, thens, elses

LEMMA SynchronizingSound ==
  ASSUME code \in Codes, NEW t \in Handling, Kind(t.stmt) = "sync"
  PROVE  Sound(Synchronizing(t))
<1> DEFINE s == t.stmt
           body == BlockAt(s, "block", 1)
<1>1. s \in Statements /\ Leads(s, t.next)
  BY DEF Handling
<1>2. Full(s) \subseteq Block /\ \A b \in Full(s) : \A x \in ToSet(Body(b)) : Leads(x, t.next)
  BY <1>1, FullFacts, LeadsDown
<1>3. body \in Seq(Full(s)) /\ body \in Seq(Block)
  <2>1. body \in Seq(InRole(s, "block")) /\ InRole(s, "block") \subseteq Full(s)
    BY <1>1, BlocksTyped, RoleFacts
  <2> HIDE DEF body, s
  <2> QED BY <1>2, <2>1
<1> HIDE DEF body
<1>4. Branches(body, t.next, t) \in Seq(SoundTasks)
  BY <1>2, <1>3, BranchesTyped
<1>5. Held(body, Branches(body, t.next, t)) \in Seq(SoundTasks)
  BY <1>3, <1>4, HeldTyped
<1>6. Structured(<<s, FirstOr(body, t.next)>>)
  BY <1>1, <1>3, FirstOrEdge
<1> QED BY <1>5, <1>6 DEF Sound, Synchronizing, body

LEMMA LoopingSound ==
  ASSUME code \in Codes, NEW t \in Handling, Kind(t.stmt) = "loop"
  PROVE  Sound(Looping(t))
<1> DEFINE s == t.stmt
           body == BlockAt(s, "block", 1)
           jumps == <<t.next, s>>
           part(i) == Connect(body[i], t.next, jumps, s)
<1>1. s \in Statements /\ Leads(s, t.next)
  BY DEF Handling
<1>2. body \in Seq(Full(s)) /\ body \in Seq(Block)
  <2>1. body \in Seq(InRole(s, "block"))
    BY <1>1, BlocksTyped
  <2>2. InRole(s, "block") \subseteq Full(s) /\ Full(s) \subseteq Block
    BY <1>1, RoleFacts, FullFacts
  <2> HIDE DEF body, s
  <2> QED BY <2>1, <2>2
<1> HIDE DEF body
<1>3. jumps \in Jumping /\ \A x \in Children(s) : JumpsLead(x, jumps)
  <2>1. \A x \in Children(s) : JumpsLead(x, jumps)
    BY <1>1, JumpsInLoop
  <2>2. jumps \in Nat \X Nat
    BY <1>1, CodeFacts DEF Leads
  <2> QED BY <2>1, <2>2 DEF Jumping
<1>4. ASSUME NEW i \in DOMAIN body PROVE part(i) \in SoundTasks
  <2>1. body[i] \in Full(s)
    BY <1>2
  <2> HIDE DEF jumps
  <2> QED BY <1>1, <1>3, <2>1, ConnectTyped
<1> HIDE DEF part
<1>5. [i \in DOMAIN body |-> part(i)] \in Seq(SoundTasks)
  BY <1>2, <1>4
<1>6. Held(body, [i \in DOMAIN body |-> part(i)]) \in Seq(SoundTasks)
  BY <1>2, <1>5, HeldTyped
<1>7. Structured(<<s, t.next>>) /\ \A e \in Into(s, body) : Structured(e)
  BY <1>1, <1>2, OnwardEdge, IntoEdges
<1> QED BY <1>6, <1>7 DEF Sound, Looping, body, part

LEMMA SwitchingSound ==
  ASSUME code \in Codes, NEW t \in Handling, Kind(t.stmt) = "switch"
  PROVE  Sound(Switching(t))
<1> DEFINE s == t.stmt
           cases == Blocks(s, "case")
           full == Filled(cases)
           jumps == <<t.next, IF t.jumps # NoTarget THEN t.jumps[2] ELSE t.next>>
           use == [i \in DOMAIN full |-> <<Connect(full[i], t.exit, jumps, NoTarget)>>]
<1>1. /\ s \in Statements /\ Leads(s, t.next) /\ Leads(s, t.exit)
      /\ t.jumps \in Jumping /\ JumpsLead(s, t.jumps)
  BY DEF Handling
<1>2. Full(s) \subseteq Block
  BY <1>1, FullFacts
<1>3. full \in Seq(Full(s))
  <2>1. full \in Seq(InRole(s, "case"))
    BY <1>1, BlocksTyped
  <2>2. InRole(s, "case") \subseteq Full(s)
    BY <1>1, RoleFacts
  <2> HIDE DEF full, s
  <2> QED BY <2>1, <2>2
<1>4. jumps \in Jumping /\ \A x \in Children(s) : JumpsLead(x, jumps)
  <2>1. \A x \in Children(s) : JumpsLead(x, jumps)
    BY <1>1, JumpsInSwitch DEF Jumping
  <2>2. jumps \in Nat \X Nat
    BY <1>1 DEF Leads, Jumping
  <2> QED BY <2>1, <2>2 DEF Jumping
<1> HIDE DEF full, jumps
<1>5. ASSUME NEW i \in DOMAIN full PROVE use[i] \in Seq(SoundTasks)
  <2>1. full[i] \in Full(s)
    BY <1>3
  <2>2. Connect(full[i], t.exit, jumps, NoTarget) \in SoundTasks
    BY <1>1, <1>4, <2>1, ConnectTyped
  <2> QED BY <2>2
<1>6. FlattenSeq([i \in DOMAIN full |->
                    <<Collect(<<full[i]>>)>> \o use[i] \o <<Drop(<<full[i]>>)>>]) \in Seq(SoundTasks)
  <2> HIDE DEF use
  <2> QED BY <1>2, <1>3, <1>5, OneByOneTyped
<1>7. OneByOne(full, LAMBDA b : <<Connect(b, t.exit, jumps, NoTarget)>>) \in Seq(SoundTasks)
  BY <1>6 DEF OneByOne
<1>8. Structured(<<s, t.next>>) /\ \A e \in Into(s, full) : Structured(e)
  BY <1>1, <1>3, OnwardEdge, IntoEdges
<1> QED BY <1>7, <1>8 DEF Sound, Switching, full, jumps

LEMMA TryingSound ==
  ASSUME code \in Codes, NEW t \in Handling, Kind(t.stmt) = "try"
  PROVE  Sound(Trying(t))
<1> DEFINE s == t.stmt
           body == BlockAt(s, "block", 1)
           catches == Filled(Blocks(s, "catch"))
           finally == BlockAt(s, "finally", 1)
           post == FirstOr(finally, t.next)
           use == [i \in DOMAIN catches |-> Branch(catches[i], post, t)]
           before == InRole(s, "block") \cup InRole(s, "catch")
<1>1. s \in Statements /\ Leads(s, t.next)
  BY DEF Handling
<1>2. Full(s) \subseteq Block /\ \A b \in Full(s) : \A x \in ToSet(Body(b)) : Leads(x, t.next)
  BY <1>1, FullFacts, LeadsDown
<1>3. /\ body \in Seq(InRole(s, "block")) /\ catches \in Seq(InRole(s, "catch"))
      /\ finally \in Seq(InRole(s, "finally"))
  BY <1>1, BlocksTyped
<1>4. \A role : InRole(s, role) \subseteq Full(s)
  BY <1>1, RoleFacts
<1> HIDE DEF body, catches, finally
<1>5. ASSUME NEW b \in before, NEW x \in ToSet(Body(b)) PROVE Leads(x, post)
  <2>1. CASE finally = <<>>
    BY <1>2, <1>4, <1>5, <2>1 DEF FirstOr
  <2>2. CASE finally # <<>>
    <3>1. finally[1] \in InRole(s, "finally")
      BY <1>3, <2>2
    <3> DEFINE d == finally[1]
    <3>2. /\ b \in BlocksIn(code, s) /\ code.parts[s][b[2]] # "finally"
          /\ d \in BlocksIn(code, s) /\ code.parts[s][d[2]] = "finally" /\ Body(d) # <<>>
      BY <1>5, <3>1 DEF InRole, Full
    <3> HIDE DEF d
    <3>3. /\ b[1] = s /\ d[1] = s
          /\ b[2] \in DOMAIN code.parts[s] /\ d[2] \in DOMAIN code.parts[s]
      BY <3>2 DEF BlocksIn
    <3>4. b[2] < d[2]
      BY <1>1, <3>2, <3>3, FlowAssumption DEF InTextOrder, Statements
    <3>5. b \in DOMAIN code.body /\ d \in DOMAIN code.body /\ Body(d) \in Seq(Statements)
      BY <1>1, <3>2, CodeFacts
    <3>6. PICK i \in DOMAIN Body(b) : x = Body(b)[i]
      BY <1>5 DEF ToSet
    <3>7. 1 \in DOMAIN Body(d) /\ First(d) = Body(d)[1]
      BY <3>2, <3>5 DEF First
    <3>8. Leads(Body(b)[i], Body(d)[1])
      BY <3>3, <3>4, <3>5, <3>7, LeadsOn
    <3>9. post = First(d)
      BY <2>2 DEF FirstOr, d
    <3> QED BY <3>6, <3>7, <3>8, <3>9
  <2> QED BY <2>1, <2>2
<1> HIDE DEF post
<1>6. Branches(body, post, t) \in Seq(SoundTasks)
  BY <1>3, <1>4, <1>5, BranchesTyped
<1>7. Branches(finally, t.next, t) \in Seq(SoundTasks)
  BY <1>2, <1>3, <1>4, BranchesTyped
<1>8. OneByOne(catches, LAMBDA b : Branch(b, post, t)) \in Seq(SoundTasks)
  <2>1. ASSUME NEW i \in DOMAIN catches PROVE use[i] \in Seq(SoundTasks)
    <3>1. catches[i] \in InRole(s, "catch")
      BY <1>3
    <3> QED BY <1>4, <1>5, <3>1, BranchTyped
  <2>2. InRole(s, "catch") \subseteq Block
    BY <1>2, <1>4
  <2>3. FlattenSeq([i \in DOMAIN catches |->
          <<Collect(<<catches[i]>>)>> \o use[i] \o <<Drop(<<catches[i]>>)>>]) \in Seq(SoundTasks)
    <3> HIDE DEF use
    <3> QED BY <1>3, <2>1, <2>2, OneByOneTyped
  <2> QED BY <2>3 DEF OneByOne
<1>9. /\ body \o catches \in Seq(Full(s))
      /\ finally \o body \in Seq(Block)
  BY <1>2, <1>3, <1>4
<1>10. Held(finally \o body, Branches(body, post, t)
                             \o OneByOne(catches, LAMBDA b : Branch(b, post, t))
                             \o Branches(finally, t.next, t)) \in Seq(SoundTasks)
  <2> DEFINE one == Branches(body, post, t)
             two == OneByOne(catches, LAMBDA b : Branch(b, post, t))
             three == Branches(finally, t.next, t)
  <2> HIDE DEF one, two, three
  <2>1. one \o two \o three \in Seq(SoundTasks)
    BY <1>6, <1>7, <1>8 DEF one, two, three
  <2>2. Held(finally \o body, one \o two \o three) \in Seq(SoundTasks)
    BY <1>9, <2>1, HeldTyped
  <2> QED BY <2>2 DEF one, two, three
<1>11. \A e \in Into(s, body \o catches) : Structured(e)
  BY <1>1, <1>9, IntoEdges
<1> QED BY <1>10, <1>11 DEF Sound, Trying, body, catches, finally, post

\* A statement with one of the kinds around it has a nearest one.
LEMMA NearestAround ==
  ASSUME code \in Codes, NEW s \in Statements, NEW kinds,
         NEW r \in Statements, Kind(r) \in kinds, s \in Under[r]
  PROVE  \E x \in Statements : IsAround(x, s, kinds)
<1> DEFINE A == {x \in Statements : Kind(x) \in kinds /\ s \in Under[x]}
<1>1. Statements \in SUBSET (0 .. Exit) /\ Exit \in Nat
  BY CodeFacts
<1>2. PICK n \in {Exit - x : x \in A} : \A k \in {Exit - x : x \in A} : n <= k
  <2>1. {Exit - x : x \in A} \in SUBSET Nat /\ Exit - r \in {Exit - x : x \in A}
    BY <1>1
  <2> QED BY <2>1, LeastNat
<1>3. PICK x \in A : n = Exit - x
  BY <1>2
<1>4. ASSUME NEW y \in A PROVE y <= x
  <2>1. Exit - x <= Exit - y
    BY <1>2, <1>3
  <2>2. x \in Int /\ y \in Int
    BY <1>1
  <2> QED BY <1>1, <2>1, <2>2
<1> QED BY <1>3, <1>4 DEF IsAround

LEMMA BreakEdge ==
  ASSUME code \in Codes, NEW s \in Statements, Kind(s) = "break", NEW x \in Statements,
         IsAround(x, s, {"loop", "switch"}), NEW y, Leads(x, y)
  PROVE  Structured(<<s, y>>)
<1>1. s \in Under[x] /\ x < s /\ Around(s, {"loop", "switch"}) = x
  BY UnderFacts, AroundIs DEF IsAround
<1>2. s \in Int /\ x \in Int /\ y \in Int
  BY CodeFacts DEF Leads
<1>3. CASE y > x /\ \A z \in Under[x] : y > z
  <2>1. y > s /\ y # x /\ y \notin Under[x]
    BY <1>1, <1>2, <1>3
  <2> QED BY <1>1, <1>2, <2>1 DEF Structured
<1>4. CASE y \in Statements /\ Kind(y) = "loop" /\ x \in Under[y]
  <2>1. y < x /\ s \in Under[y]
    BY <1>1, <1>4, UnderFacts, UnderClosed
  <2>2. y \notin Under[x]
    BY <1>2, <2>1, UnderFacts
  <2> QED BY <1>1, <1>2, <1>4, <2>1, <2>2 DEF Structured
<1> QED BY <1>3, <1>4 DEF Leads

LEMMA ContinueEdge ==
  ASSUME code \in Codes, NEW s \in Statements, Kind(s) = "continue", NEW x \in Statements,
         IsAround(x, s, {"loop"})
  PROVE  Structured(<<s, x>>)
<1>1. s \in Under[x] /\ Kind(x) = "loop" /\ Around(s, {"loop"}) = x
  BY AroundIs DEF IsAround
<1> QED BY <1>1 DEF Structured

LEMMA SimpleSound ==
  ASSUME code \in Codes, NEW t \in Handling
  PROVE  Sound(Simple(t))
<1> DEFINE s == t.stmt
<1>1. /\ s \in Statements /\ Leads(s, t.next) /\ t.jumps \in Jumping
      /\ JumpsLead(s, t.jumps)
  BY DEF Handling
<1>2. JumpsInPlace(code)
  BY FlowAssumption
<1>3. Simple(t).tasks \in Seq(SoundTasks)
  BY DEF Simple
<1>4. CASE Kind(s) = "break"
  <2>1. \E x \in Statements : Kind(x) \in {"loop", "switch"} /\ s \in Under[x]
    BY <1>1, <1>2, <1>4 DEF JumpsInPlace, Under, Statements, Kind
  <2>2. t.jumps # NoTarget
    BY <1>1, <2>1 DEF JumpsLead
  <2>3. t.jumps \in Nat \X Nat /\ t.jumps[1] # NoTarget
    BY <1>1, <2>2, FlowAssumption DEF Jumping
  <2>4. PICK x \in Statements : IsAround(x, s, {"loop", "switch"}) /\ Leads(x, t.jumps[1])
    BY <1>1, <2>2 DEF JumpsLead
  <2>5. Structured(<<s, t.jumps[1]>>)
    BY <1>1, <1>4, <2>4, BreakEdge
  <2>6. Simple(t).adds = {<<s, t.jumps[1]>>}
    BY <1>4, <2>2, <2>3 DEF Simple
  <2> QED BY <1>3, <2>5, <2>6 DEF Sound
<1>5. CASE Kind(s) = "continue"
  <2>1. PICK r \in Statements : Kind(r) = "loop" /\ s \in Under[r]
    BY <1>1, <1>2, <1>5 DEF JumpsInPlace, Under, Statements, Kind
  <2>2. t.jumps # NoTarget
    BY <1>1, <2>1 DEF JumpsLead
  <2>3. t.jumps \in Nat \X Nat /\ t.jumps[2] # NoTarget
    BY <1>1, <2>2, FlowAssumption DEF Jumping
  <2>4. PICK x \in Statements : IsAround(x, s, {"loop"})
    BY <1>1, <2>1, NearestAround
  <2>5. t.jumps[2] = x
    BY <1>1, <2>2, <2>4 DEF JumpsLead
  <2>6. Structured(<<s, t.jumps[2]>>)
    BY <1>1, <1>5, <2>4, <2>5, ContinueEdge
  <2>7. Simple(t).adds = {<<s, t.jumps[2]>>}
    BY <1>5, <2>2, <2>3 DEF Simple
  <2> QED BY <1>3, <2>6, <2>7 DEF Sound
<1>6. CASE Kind(s) \notin {"break", "continue"}
  <2>1. Simple(t).adds \subseteq {<<s, t.next>>}
    BY <1>6 DEF Simple
  <2>2. Structured(<<s, t.next>>)
    BY <1>1, <1>6, OnwardEdge
  <2> QED BY <1>3, <2>1, <2>2 DEF Sound
<1> QED BY <1>4, <1>5, <1>6

LEMMA HandledSound ==
  ASSUME code \in Codes, NEW t \in Handling
  PROVE  Sound(Handled(t))
<1>1. CASE Kind(t.stmt) = "if"
  BY <1>1, BranchingSound DEF Handled
<1>2. CASE Kind(t.stmt) = "loop"
  BY <1>2, LoopingSound DEF Handled
<1>3. CASE Kind(t.stmt) = "try"
  BY <1>3, TryingSound DEF Handled
<1>4. CASE Kind(t.stmt) = "switch"
  BY <1>4, SwitchingSound DEF Handled
<1>5. CASE Kind(t.stmt) = "sync"
  BY <1>5, SynchronizingSound DEF Handled
<1>6. CASE Kind(t.stmt) \notin {"if", "loop", "try", "switch", "sync"}
  BY <1>6, SimpleSound DEF Handled
<1> QED BY <1>1, <1>2, <1>3, <1>4, <1>5, <1>6

-----------------------------------------------------------------------------
(* The walk.                                                               *)

LEMMA FlowIs == FlowIsStructured <=> \A e \in flows : Structured(e)
  BY DEF FlowIsStructured, Structured

\* A statement of the method's own list leads to Exit; no jump stands there.
LEMMA TopFacts ==
  ASSUME code \in Codes, NEW s \in ToSet(Body(Top))
  PROVE  /\ s \in Statements /\ Leads(s, Exit) /\ JumpsLead(s, NoTarget)
         /\ Kind(s) \notin {"break", "continue"}
<1>1. PICK i \in DOMAIN Body(Top) : s = Body(Top)[i]
  BY DEF ToSet
<1>2. s \in Statements /\ \A r \in Statements : s \notin Under[r]
  BY <1>1, CodeFacts, OnTop
<1>3. \A x \in Statements : Exit > x
  BY CodeFacts
<1>4. Leads(s, Exit)
  BY <1>2, <1>3, CodeFacts, UnderFacts DEF Leads
<1>5. JumpsInPlace(code)
  BY FlowAssumption
<1>6. Kind(s) \notin {"break", "continue"}
  BY <1>2, <1>5 DEF JumpsInPlace, Under, Statements, Kind
<1> QED BY <1>2, <1>4, <1>6 DEF JumpsLead

LEMMA InitFlow == CodeInit => FlowInv
<1> SUFFICES ASSUME CodeInit PROVE FlowInv
  OBVIOUS
<1>1. code \in Codes
  BY DEF CodeInit
<1>2. /\ Top \in Block /\ Body(Top) \in Seq(Statements) /\ Body(Top) # <<>> /\ Exit \in Nat
  BY <1>1, CodeFacts DEF Block
<1> DEFINE t == Connect(Top, Exit, NoTarget, NoTarget)
<1>3. t \in SoundTasks
  <2>1. t \in [do : {"connect"}, block : Block, exit : Nat, jumps : Jumping,
               tail : {NoTarget} \cup Nat]
    BY <1>2 DEF Connect, Jumping
  <2>2. t.block = Top /\ t.exit = Exit /\ t.jumps = NoTarget /\ t.tail = NoTarget
    BY DEF Connect
  <2> HIDE DEF t
  <2>3. t \in Connecting
    BY <1>1, <2>1, <2>2, TopFacts DEF Connecting
  <2> QED BY <2>3 DEF SoundTasks
<1>4. todo \in Seq(SoundTasks)
  <2>1. todo = <<t>>
    BY DEF CodeInit
  <2> HIDE DEF t
  <2> QED BY <1>3, <2>1
<1>5. LastOf(Top) \in ToSet(Body(Top))
  BY <1>2 DEF LastOf, Last, ToSet
<1>6. Structured(<<LastOf(Top), Exit>>)
  BY <1>1, <1>5, TopFacts, OnwardEdge
<1>7. Structured(<<Entry, First(Top)>>)
  BY DEF Structured
<1>8. \A e \in flows : Structured(e)
  BY <1>6, <1>7 DEF CodeInit
<1> QED BY <1>1, <1>4, <1>8, FlowIs DEF FlowInv

LEMMA SameCode ==
  ASSUME UNCHANGED code
  PROVE  /\ SoundTasks' = SoundTasks
         /\ \A e : Structured(e)' <=> Structured(e)
  BY DEF SoundTasks, Collecting, Connecting, Handling, Linking, Leads, JumpsLead, IsAround,
         Structured, Around, Under, Statements, Kind, Body, LastOf, Block, Jumping

LEMMA StepConnect == FlowInv /\ ConnectList => FlowInv'
<1> SUFFICES ASSUME FlowInv, ConnectList PROVE FlowInv'
  OBVIOUS
<1> DEFINE t == Head(todo)
           stmts == Body(t.block)
           n == Len(stmts)
           last == IF t.tail # NoTarget THEN t.tail ELSE t.exit
           handle(i) == Handle(stmts[i], IF i < n THEN stmts[i+1] ELSE last,
                               i = n, t.exit, t.jumps, t.tail)
<1>1. /\ code \in Codes /\ todo \in Seq(SoundTasks) /\ todo # <<>> /\ t.do = "connect"
      /\ UNCHANGED <<code, flows>>
  BY DEF FlowInv, ConnectList, Doing, Task
<1>2. t \in SoundTasks /\ Tail(todo) \in Seq(SoundTasks)
  BY <1>1
<1>3. t \in Connecting
  BY <1>1, <1>2 DEF SoundTasks, Collecting, Handling, Linking
<1>4. /\ t.block \in DOMAIN code.body /\ t.exit \in Nat /\ t.jumps \in Jumping
      /\ t.tail \in {NoTarget} \cup Nat
      /\ \A s \in ToSet(stmts) : /\ Leads(s, t.exit) /\ JumpsLead(s, t.jumps)
                                 /\ t.tail # NoTarget => Leads(s, t.tail)
  BY <1>3 DEF Connecting, Block
<1>5. stmts \in Seq(Statements) /\ n \in Nat /\ DOMAIN stmts = 1 .. n
  BY <1>1, <1>4, CodeFacts
<1>6. ASSUME NEW i \in 1 .. n PROVE handle(i) \in SoundTasks
  <2> DEFINE next == IF i < n THEN stmts[i+1] ELSE last
             h == Handle(stmts[i], next, i = n, t.exit, t.jumps, t.tail)
  <2>1. stmts[i] \in Statements /\ stmts[i] \in ToSet(stmts)
    BY <1>5 DEF ToSet
  <2>2. Leads(stmts[i], next)
    <3>1. CASE i < n
      <4>1. i + 1 \in DOMAIN Body(t.block) /\ i \in DOMAIN Body(t.block) /\ i < i + 1
        BY <1>5, <3>1
      <4>2. Leads(Body(t.block)[i], Body(t.block)[i + 1])
        BY <1>1, <1>4, <4>1, LeadsOn
      <4> QED BY <3>1, <4>2
    <3>2. CASE ~ (i < n)
      BY <1>4, <2>1, <3>2
    <3> QED BY <3>1, <3>2
  <2>3. next \in Nat
    BY <2>2 DEF Leads
  <2> HIDE DEF next, stmts, n
  <2>4. h \in [do : {"handle"}, stmt : Statements, next : Nat, isLast : BOOLEAN, exit : Nat,
               jumps : Jumping, tail : {NoTarget} \cup Nat]
    BY <1>4, <2>1, <2>3 DEF Handle
  <2>5. h.stmt = stmts[i] /\ h.next = next /\ h.exit = t.exit /\ h.jumps = t.jumps
    BY DEF Handle
  <2> HIDE DEF h
  <2>6. h \in Handling
    BY <1>4, <2>1, <2>2, <2>4, <2>5 DEF Handling
  <2>7. h \in SoundTasks
    BY <2>6 DEF SoundTasks
  <2> QED BY <2>7 DEF h, next
<1>7. todo' \in Seq(SoundTasks)
  <2>1. CASE home[t.block] \in seen
    <3>1. todo' = Tail(todo)
      BY <2>1 DEF ConnectList, Task
    <3> QED BY <1>2, <3>1
  <2>2. CASE home[t.block] \notin seen
    <3>1. todo' = [i \in 1 .. n |-> handle(i)] \o Tail(todo)
      BY <2>2 DEF ConnectList, Task
    <3> HIDE DEF handle, n
    <3>2. [i \in 1 .. n |-> handle(i)] \in Seq(SoundTasks)
      BY <1>5, <1>6
    <3> QED BY <1>2, <3>1, <3>2
  <2> QED BY <2>1, <2>2
<1>8. SoundTasks' = SoundTasks /\ FlowIsStructured'
  BY <1>1, SameCode DEF FlowInv, FlowIsStructured, Around, Under, Statements, Kind
<1> QED BY <1>1, <1>7, <1>8 DEF FlowInv

LEMMA StepHandle == FlowInv /\ HandleStatement => FlowInv'
<1> SUFFICES ASSUME FlowInv, HandleStatement PROVE FlowInv'
  OBVIOUS
<1> DEFINE t == Head(todo)
<1>1. /\ code \in Codes /\ todo \in Seq(SoundTasks) /\ todo # <<>> /\ t.do = "handle"
      /\ UNCHANGED code /\ FlowIsStructured
      /\ flows' = flows \cup Handled(t).adds /\ todo' = Handled(t).tasks \o Tail(todo)
  BY DEF FlowInv, HandleStatement, Doing, Task
<1>2. t \in SoundTasks /\ Tail(todo) \in Seq(SoundTasks)
  BY <1>1
<1>3. t \in Handling
  BY <1>1, <1>2 DEF SoundTasks, Collecting, Connecting, Linking
<1> HIDE DEF t
<1>4. (\A e \in Handled(t).adds : Structured(e)) /\ Handled(t).tasks \in Seq(SoundTasks)
  BY <1>1, <1>3, HandledSound DEF Sound
<1>5. todo' \in Seq(SoundTasks)
  BY <1>1, <1>2, <1>4
<1>6. \A e \in flows' : Structured(e)
  BY <1>1, <1>4, FlowIs
<1>7. SoundTasks' = SoundTasks /\ FlowIsStructured'
  <2>1. \A e \in flows' : Structured(e)'
    BY <1>1, <1>6, SameCode
  <2>2. SoundTasks' = SoundTasks
    BY <1>1, SameCode
  <2> QED BY <2>1, <2>2 DEF FlowIsStructured, Structured
<1> QED BY <1>1, <1>5, <1>7 DEF FlowInv

LEMMA StepLink == FlowInv /\ LinkTail => FlowInv'
<1> SUFFICES ASSUME FlowInv, LinkTail PROVE FlowInv'
  OBVIOUS
<1> DEFINE t == Head(todo)
           s == LastOf(t.block)
<1>1. /\ code \in Codes /\ todo \in Seq(SoundTasks) /\ todo # <<>> /\ t.do = "link"
      /\ UNCHANGED code /\ FlowIsStructured /\ todo' = Tail(todo)
      /\ flows' = IF t.jumps # NoTarget /\ Kind(s) \in Jumps
                  THEN flows ELSE flows \cup {<<s, t.after>>}
  BY DEF FlowInv, LinkTail, Doing, Task
<1>2. t \in SoundTasks /\ Tail(todo) \in Seq(SoundTasks)
  BY <1>1
<1>3. t \in Linking
  BY <1>1, <1>2 DEF SoundTasks, Collecting, Connecting, Handling
<1>4. /\ t.block \in DOMAIN code.body /\ Body(t.block) # <<>>
      /\ Leads(s, t.after) /\ JumpsLead(s, t.jumps)
  BY <1>3 DEF Linking, Block
<1>5. s \in Statements
  <2>1. Body(t.block) \in Seq(Statements)
    BY <1>1, <1>4, CodeFacts
  <2> QED BY <1>4, <2>1 DEF LastOf, Last
<1>6. JumpsInPlace(code)
  BY <1>1, FlowAssumption
<1> HIDE DEF s, t
<1>7. Kind(s) \in {"break", "continue"} => t.jumps # NoTarget
  BY <1>4, <1>5, <1>6 DEF JumpsInPlace, JumpsLead, Under, Statements, Kind
<1>8. \A e \in flows' : Structured(e)
  <2>1. CASE Kind(s) \in {"break", "continue"}
    BY <1>1, <1>7, <2>1, FlowIs DEF Jumps
  <2>2. CASE Kind(s) \notin {"break", "continue"}
    <3>1. Structured(<<s, t.after>>)
      BY <1>1, <1>4, <1>5, <2>2, OnwardEdge
    <3> QED BY <1>1, <3>1, FlowIs
  <2> QED BY <2>1, <2>2
<1>9. SoundTasks' = SoundTasks /\ FlowIsStructured'
  <2>1. \A e \in flows' : Structured(e)'
    BY <1>1, <1>8, SameCode
  <2>2. SoundTasks' = SoundTasks
    BY <1>1, SameCode
  <2> QED BY <2>1, <2>2 DEF FlowIsStructured, Structured
<1> QED BY <1>1, <1>2, <1>9 DEF FlowInv

LEMMA StepFlow == FlowInv /\ [CodeNext]_flowVars => FlowInv'
<1> SUFFICES ASSUME FlowInv, [CodeNext]_flowVars PROVE FlowInv'
  OBVIOUS
<1>1. ASSUME UNCHANGED <<code, flows>>, todo' \in Seq(SoundTasks)
      PROVE  FlowInv'
  <2>1. SoundTasks' = SoundTasks /\ FlowIsStructured'
    BY <1>1, SameCode DEF FlowInv, FlowIsStructured, Around, Under, Statements, Kind
  <2> QED BY <1>1, <2>1 DEF FlowInv
<1>2. CASE CollectLists
  BY <1>1, <1>2 DEF CollectLists, Doing, FlowInv
<1>3. CASE DropLists
  BY <1>1, <1>3 DEF DropLists, Doing, FlowInv
<1>4. CASE ConnectList
  BY <1>4, StepConnect
<1>5. CASE HandleStatement
  BY <1>5, StepHandle
<1>6. CASE LinkTail
  BY <1>6, StepLink
<1>7. CASE UNCHANGED flowVars
  BY <1>1, <1>7 DEF flowVars, FlowInv
<1> QED BY <1>2, <1>3, <1>4, <1>5, <1>6, <1>7 DEF CodeNext

(* Whatever the method and wherever its lists come to lie, control flows   *)
(* back only to a loop it is in, and break and continue lead where Java    *)
(* says.                                                                   *)
THEOREM FlowIsAlwaysStructured == CodeSpec => []FlowIsStructured
<1>1. FlowInv => FlowIsStructured
  BY DEF FlowInv
<1> QED BY <1>1, InitFlow, StepFlow, PTL DEF CodeSpec
=============================================================================
