------------------------ MODULE CodeAnalysis_proofs ------------------------
(* Proofs about CodeAnalysis, for any files, texts and chunk size, and any *)
(* number of commits and runs: the types, the refinement of CodeIndex, and *)
(* what a rebuild and a git sync that no commit disturbs leave behind, and *)
(* that resolved calls stay true.                                          *)
EXTENDS CodeAnalysis, FiniteSetTheorems, Induction, TLAPS

Tree == [Files -> Text \cup {Absent}]
Node == [Parts -> Text \cup {Absent}]
RunType == [phase : {"clear", "analyze", "insert", "inherit", "cha", "done", "failed"},
            kind : Kinds, todo : SUBSET Files, clear : SUBSET Files,
            read : Tree, pending : SUBSET (Files \X Parts),
            index : Tree, number : 0 .. MaxRuns,
            based : BOOLEAN, moved : BOOLEAN, lost : BOOLEAN, raced : BOOLEAN]

\* Only parts of the texts at hand are pending.
PendingInv == \A q \in run.pending : run.read[q[1]] # Absent

Inv == TypeOK /\ PendingInv

LEMMA DiskTyped == TypeOK => Disk \in Tree
  BY DEF TypeOK, Disk, Tree

LEMMA EmptyTyped == Empty \in Tree /\ NoNodes \in Node
  BY DEF Empty, NoNodes, Tree, Node

LEMMA NoRunTyped == NoRun \in RunType
  BY CodeAssumption, EmptyTyped DEF NoRun, RunType, Kinds

LEMMA InitInv == Init => Inv
<1> SUFFICES ASSUME Init PROVE Inv
  OBVIOUS
<1>0. PICK tree \in Tree : history = <<tree>>
  <2> DEFINE texts == UNION {TextsOf[f] : f \in Files}
  <2>1. texts \subseteq Text
    BY CodeAssumption
  <2>2. PICK tree \in [Files -> texts \cup {Absent}] : history = <<tree>>
    BY DEF Init
  <2> HIDE DEF texts
  <2>3. tree \in Tree
    BY <2>1, <2>2 DEF Tree
  <2> QED BY <2>2, <2>3
<1>1. history \in Seq(Tree) /\ Len(history) \in 1 .. MaxCommits
  BY <1>0, CodeAssumption
<1>2. nodes \in [Files -> Node]
  BY EmptyTyped DEF Init
<1>3. run \in RunType /\ run.pending = {}
  BY NoRunTyped DEF Init, NoRun
<1> QED BY <1>1, <1>2, <1>3 DEF Init, Inv, TypeOK, PendingInv, Tree, Node, RunType

\* A new run, or a run that failed, holds nothing.
LEMMA FreshRun ==
    ASSUME TypeOK, NEW r \in RunType, run' = r, r.pending = {},
           UNCHANGED <<history, nodes>>,
           UNCHANGED <<parents, calls, virtual, guessed, inherits>> \/
             (parents' = {} /\ calls' = {} /\ virtual' = {} /\ guessed' = {} /\ inherits' = {})
    PROVE  Inv'
  BY DEF TypeOK, Inv, PendingInv, Tree, Node, RunType

LEMMA BeginInv ==
    ASSUME TypeOK, NEW kind \in Kinds, NEW todo \in SUBSET Files, NEW clear \in SUBSET Files,
           Begin(kind, todo, clear)
    PROVE  Inv'
<1> DEFINE r == [NoRun EXCEPT !.phase = "clear", !.kind = kind, !.todo = todo, !.clear = clear,
                              !.number = run.number + 1, !.raced = run.raced,
                              !.based = \A f \in Files \ clear : Shown(f, Disk)]
<1>1. run.number \in 0 .. MaxRuns /\ run.number < MaxRuns /\ run.raced \in BOOLEAN
  BY DEF Begin, TypeOK
<1>2. run.number + 1 \in 0 .. MaxRuns
  BY <1>1, CodeAssumption
<1>3. r \in RunType
  BY <1>1, <1>2, NoRunTyped DEF RunType
<1>4. r.pending = {}
  BY DEF NoRun
<1>5. run' = r /\ UNCHANGED <<history, nodes, parents, calls, virtual, guessed, inherits>>
  BY DEF Begin, graph, edges
<1> HIDE DEF r
<1> QED BY <1>3, <1>4, <1>5, FreshRun
\* Steps of a run that leave the files alone and go on to another phase.
LEMMA PhaseInv ==
    ASSUME Inv, run' \in RunType, PendingInv', UNCHANGED <<history, nodes>>,
           parents' \subseteq Files, calls' \subseteq Files \X Files, virtual' \subseteq calls',
           guessed' \subseteq calls',
           inherits' \subseteq Files \X Files
    PROVE  Inv'
  BY DEF Inv, TypeOK, Tree, Node, RunType

LEMMA StepInv == Inv /\ [Next]_vars => Inv'
<1> SUFFICES ASSUME Inv, [Next]_vars PROVE Inv'
  OBVIOUS
<1> USE DEF Inv
<1>0. /\ run \in RunType /\ Disk \in Tree /\ nodes \in [Files -> Node]
      /\ history \in Seq(Tree) /\ parents \subseteq Files /\ calls \subseteq Files \X Files
      /\ virtual \subseteq calls /\ guessed \subseteq calls /\ inherits \subseteq Files \X Files
  BY DiskTyped DEF TypeOK, RunType, Tree, Node
<1>1. CASE Commit
  <2>0. PICK f \in Files : \E t \in TextsOf[f] \cup {Absent} :
            history' = Append(history, [Disk EXCEPT ![f] = t])
    BY <1>1 DEF Commit
  <2>1. PICK t \in TextsOf[f] \cup {Absent} : history' = Append(history, [Disk EXCEPT ![f] = t])
    BY <2>0
  <2>2. [Disk EXCEPT ![f] = t] \in Tree
    BY <1>0, <2>1, CodeAssumption DEF Tree
  <2>3. Len(history) < MaxCommits /\ Len(history) \in 1 .. MaxCommits
    BY <1>1 DEF Commit, TypeOK
  <2>4. history' \in Seq(Tree) /\ Len(history') \in 1 .. MaxCommits
    BY <1>0, <2>1, <2>2, <2>3, CodeAssumption
  <2>5. run' = [run EXCEPT !.moved = TRUE, !.raced = @ \/ Running]
    BY <1>1 DEF Commit
  <2>6. run.raced \in BOOLEAN /\ Running \in BOOLEAN
    BY <1>0 DEF Running, RunType
  <2>7. (run.raced \/ Running) \in BOOLEAN
    BY <2>6
  <2>8. run' \in RunType /\ PendingInv'
    BY <1>0, <2>5, <2>7 DEF RunType, PendingInv
  <2> QED BY <1>0, <1>1, <2>4, <2>8 DEF Commit, graph, TypeOK, Tree, Node, RunType, edges
<1>2. CASE StartRebuild
  <2> DEFINE r == [NoRun EXCEPT !.phase = "clear", !.kind = "rebuild", !.clear = Indexed,
                                !.number = run.number + 1, !.based = TRUE]
  <2>1. run.number \in 0 .. MaxRuns /\ run.number < MaxRuns
    BY <1>0, <1>2 DEF StartRebuild, RunType
  <2>2. run.number + 1 \in 0 .. MaxRuns /\ Indexed \subseteq Files
    BY <2>1, CodeAssumption DEF Indexed
  <2>3. r \in RunType /\ r.pending = {}
    BY <2>2, NoRunTyped DEF RunType, Kinds, NoRun
  <2>4. run' = r
    BY <1>2 DEF StartRebuild
  <2> HIDE DEF r
  <2> QED BY <1>2, <2>3, <2>4, FreshRun DEF StartRebuild
<1>3. CASE StartDirectory \/ StartFile \/ StartResume \/ StartSync
  BY <1>3, BeginInv DEF StartDirectory, StartFile, StartResume, StartSync, Present, Kinds
<1>4. CASE ClearFile
  <2>1. PICK f \in run.clear :
            /\ nodes' = [nodes EXCEPT ![f] = NoNodes]
            /\ run' = [run EXCEPT !.clear = @ \ {f}]
            /\ parents' = parents \ {f} /\ calls' = Without(f, calls)
            /\ virtual' = Without(f, virtual) /\ inherits' = Without(f, inherits)
            /\ guessed' = Without(f, guessed)
    BY <1>4 DEF ClearFile
  <2>2. nodes' \in [Files -> Node]
    BY <1>0, <2>1, EmptyTyped
  <2>3. run' \in RunType /\ PendingInv'
    BY <1>0, <2>1 DEF RunType, PendingInv
  <2>4. /\ parents' \subseteq Files /\ calls' \subseteq Files \X Files
        /\ virtual' \subseteq calls' /\ guessed' \subseteq calls'
        /\ inherits' \subseteq Files \X Files
    BY <1>0, <2>1 DEF Without
  <2> QED BY <1>4, <2>2, <2>3, <2>4 DEF ClearFile, TypeOK, Tree, Node, RunType
<1>5. CASE Scan
  <2>1. run' \in RunType /\ PendingInv'
    BY <1>0, <1>5 DEF Scan, RunType, PendingInv, Present
  <2> QED BY <1>0, <1>5, <2>1, PhaseInv DEF Scan, graph, edges
<1>6. CASE AnalyzeChunk
  <2> DEFINE text == [f \in Files |-> IF f \in Chunk THEN Disk[f] ELSE Absent]
             new == {q \in Files \X Parts : NodesOf(text[q[1]])[q[2]] # Absent}
             index == [f \in Files |-> IF f \in Chunk THEN text[f] ELSE run.index[f]]
  <2>1. text \in Tree /\ new \subseteq Files \X Parts
    BY <1>0 DEF Tree
  <2>2. index \in Tree
    BY <1>0, <2>1 DEF Tree, RunType
  <2>3. run' = [run EXCEPT !.phase = "insert", !.todo = @ \ Chunk, !.read = text,
                           !.pending = new, !.index = index]
    BY <1>6 DEF AnalyzeChunk
  <2>4. \A q \in new : text[q[1]] # Absent
    BY DEF NodesOf, Parts
  <2> HIDE DEF text, new, index
  <2>5. run' \in RunType /\ run'.pending = new /\ run'.read = text
    BY <1>0, <2>1, <2>2, <2>3 DEF RunType
  <2> QED BY <1>0, <1>6, <2>4, <2>5, PhaseInv DEF AnalyzeChunk, graph, PendingInv, edges
<1>7. CASE InsertNode
  <2>1. PICK q \in run.pending : /\ nodes' = [nodes EXCEPT ![q[1]][q[2]] = run.read[q[1]]]
                                 /\ run' = [run EXCEPT !.pending = @ \ {q}]
    BY <1>7 DEF InsertNode, edges
  <2>2. q[1] \in Files /\ q[2] \in Parts /\ run.read[q[1]] \in Text \cup {Absent}
    BY <1>0, <2>1 DEF RunType, Tree
  <2>3. nodes' \in [Files -> Node]
    BY <1>0, <2>1, <2>2 DEF Node
  <2>4. run' \in RunType /\ PendingInv'
    BY <1>0, <2>1 DEF RunType, PendingInv
  <2> QED BY <1>0, <1>7, <2>3, <2>4 DEF InsertNode, TypeOK, Tree, Node, RunType, edges
<1>8. CASE InsertEdges
  <2>1. run' \in RunType /\ PendingInv'
    BY <1>0, <1>8, EmptyTyped DEF InsertEdges, RunType, PendingInv, edges
  <2> QED BY <1>0, <1>8, <2>1, PhaseInv DEF InsertEdges, edges
<1>9. CASE InsertCalls
  <2>1. run' \in RunType /\ PendingInv'
    BY <1>0, <1>9, EmptyTyped DEF InsertCalls, RunType, PendingInv
  <2>2. CallPairs(run.index) \subseteq Files \X Files
    BY DEF CallPairs, TypedPairs, NamedPairs
  <2>3. guessed' \subseteq calls'
    BY <1>0, <1>9 DEF InsertCalls, CallPairs
  <2> QED BY <1>0, <1>9, <2>1, <2>2, <2>3, PhaseInv DEF InsertCalls
<1>10. CASE MaterializeInheritance
  <2>1. run' \in RunType /\ PendingInv'
    BY <1>0, <1>10 DEF MaterializeInheritance, RunType, PendingInv
  <2>2. InheritancePairs(nodes) \subseteq Files \X Files
    BY DEF InheritancePairs
  <2> QED BY <1>0, <1>10, <2>1, <2>2, PhaseInv DEF MaterializeInheritance
<1>11. CASE MaterializeCha
  <2>1. run' \in RunType /\ PendingInv'
    BY <1>0, <1>11 DEF MaterializeCha, RunType, PendingInv
  <2>2. VirtualPairs(calls, inherits, parents) \subseteq Files \X Files
    BY DEF VirtualPairs
  <2> QED BY <1>0, <1>11, <2>1, <2>2, PhaseInv DEF MaterializeCha
<1>12. CASE SwallowEnrichment
  <2>1. run' \in RunType /\ PendingInv'
    BY <1>0, <1>12 DEF SwallowEnrichment, RunType, PendingInv
  <2> QED BY <1>0, <1>12, <2>1, PhaseInv DEF SwallowEnrichment, graph, edges
<1>13. CASE Stop
  <2> DEFINE r == [NoRun EXCEPT !.phase = "failed", !.kind = run.kind, !.number = run.number,
                                !.raced = run.raced]
  <2>1. r \in RunType /\ r.pending = {}
    BY <1>0, NoRunTyped DEF RunType, NoRun
  <2>2. run' = r
    BY <1>13 DEF Stop
  <2> HIDE DEF r
  <2> QED BY <1>13, <2>1, <2>2, FreshRun DEF Stop, graph, edges
<1>14. CASE UNCHANGED vars
  BY <1>14 DEF vars, TypeOK, PendingInv
<1> QED BY <1>1, <1>2, <1>3, <1>4, <1>5, <1>6, <1>7, <1>8, <1>9, <1>10, <1>11, <1>12, <1>13,
           <1>14 DEF Next

LEMMA Invariance == Spec => []Inv
  BY InitInv, StepInv, PTL DEF Spec

(* The graph and the run keep their types, and every virtual edge is a     *)
(* call, for any files, texts, chunk size and number of commits.           *)
THEOREM TypeCorrect == Spec => []TypeOK
  BY Invariance, PTL DEF Inv
-----------------------------------------------------------------------------
(* The refinement: what each step does to the view of the files.           *)

Holds(n) == IF n = NoNodes THEN Absent
            ELSE IF n["class"] # Absent /\ n = NodesOf(n["class"]) THEN n["class"] ELSE Torn

LEMMA ViewIs == View = [f \in Files |-> Holds(nodes[f])]
  BY DEF View, Holds

\* One file at a time changes its view.
LEMMA ViewChanges ==
    ASSUME TypeOK, NEW f \in Files, NEW n \in Node, nodes' = [nodes EXCEPT ![f] = n]
    PROVE  View' = [View EXCEPT ![f] = Holds(n)]
<1>1. View' = [g \in Files |-> Holds(nodes'[g])]
  BY DEF View, Holds
<1>2. \A g \in Files : nodes'[g] = IF g = f THEN n ELSE nodes[g]
  BY DEF TypeOK
<1> HIDE DEF Holds
<1> QED BY <1>1, <1>2, ViewIs

LEMMA ViewStays == ASSUME UNCHANGED nodes PROVE UNCHANGED View
  BY DEF View

\* A node made from text t puts a file on its way to t.
LEMMA InsertedShows ==
    ASSUME NEW n \in Node, NEW t \in Text, NEW p \in Parts
    PROVE  Holds([n EXCEPT ![p] = t]) \in {t, Torn}
<1> DEFINE m == [n EXCEPT ![p] = t]
<1>1. m[p] = t /\ t # Absent /\ m # NoNodes
  BY CodeAssumption DEF Node, NoNodes
<1>2. ASSUME m["class"] # Absent, m = NodesOf(m["class"]) PROVE m["class"] = t
  <2>1. CASE p = "class"
    BY <1>1, <2>1
  <2>2. CASE p = "method"
    <3>1. NodesOf(m["class"])["method"] \in {Absent, m["class"]}
      BY DEF NodesOf, Parts
    <3> QED BY <1>1, <1>2, <2>2, <3>1
  <2> QED BY <2>1, <2>2 DEF Parts
<1> HIDE DEF m
<1>3. Holds(m) \in {t, Torn}
  BY <1>1, <1>2 DEF Holds
<1> QED BY <1>3 DEF m

\* Only an empty file shows nothing.
LEMMA AbsentIsEmpty == ASSUME NEW n \in Node, Holds(n) = Absent PROVE n = NoNodes
  BY CodeAssumption DEF Holds

LEMMA RefinesInit == Init => Promised!Init
<1> SUFFICES ASSUME Init PROVE Promised!Init
  OBVIOUS
<1>1. Disk \in Tree
  BY InitInv, DiskTyped DEF Inv
<1>2. run.read = [f \in Files |-> Absent]
  BY DEF Init, NoRun, Empty
<1>3. View = [f \in Files |-> Absent]
  BY ViewIs DEF Init, Holds
<1> QED BY <1>1, <1>2, <1>3 DEF Promised!Init, Tree

LEMMA RefinesStep == Inv /\ [Next]_vars => [Promised!Next]_(Promised!vars)
<1> SUFFICES ASSUME Inv, [Next]_vars PROVE [Promised!Next]_(Promised!vars)
  OBVIOUS
<1> USE DEF Inv
<1>0. /\ run \in RunType /\ Disk \in Tree /\ nodes \in [Files -> Node]
      /\ history \in Seq(Tree) /\ Len(history) \in Nat \ {0}
  BY DiskTyped DEF TypeOK, RunType, Tree, Node
<1> DEFINE Reads(S) == run'.read = [f \in Files |-> IF f \in S THEN Disk[f] ELSE Absent]
           Lets == \E S \in SUBSET Files : Reads(S)
\* A step that leaves files and nodes alone reads a set of files, or nothing.
<1>1. ASSUME UNCHANGED <<history, nodes>>, Lets \/ run'.read = run.read
      PROVE  [Promised!Next]_(Promised!vars)
  BY <1>1, ViewStays DEF Promised!Next, Promised!Read, Promised!vars, Disk
<1>2. ASSUME run'.read = Empty PROVE Lets
  <2>1. Reads({})
    BY <1>2 DEF Empty
  <2> HIDE DEF Reads
  <2> QED BY <2>1
<1>3. CASE Commit
  <2>1. PICK f \in Files : \E t \in TextsOf[f] \cup {Absent} :
            history' = Append(history, [Disk EXCEPT ![f] = t])
    BY <1>3 DEF Commit
  <2>2. PICK t \in TextsOf[f] \cup {Absent} : history' = Append(history, [Disk EXCEPT ![f] = t])
    BY <2>1
  <2>3. [Disk EXCEPT ![f] = t] \in Tree /\ t \in Text \cup {Absent}
    BY <1>0, CodeAssumption DEF Tree
  <2>4. Disk' = [Disk EXCEPT ![f] = t]
    BY <1>0, <2>2, <2>3 DEF Disk
  <2>5. run'.read = run.read /\ View' = View
    BY <1>0, <1>3, ViewStays DEF Commit, graph, RunType, edges
  <2>6. Disk'[f] = t /\ Disk' = [Disk EXCEPT ![f] = Disk'[f]]
    BY <1>0, <2>4 DEF Tree
  <2>7. Promised!Edit(f)
    BY <2>3, <2>5, <2>6 DEF Promised!Edit
  <2> QED BY <2>7 DEF Promised!Next
<1>4. CASE StartRebuild \/ StartDirectory \/ StartFile \/ StartResume \/ StartSync
  <2>1. run'.read = Empty /\ UNCHANGED <<history, nodes>>
    BY <1>4 DEF StartRebuild, StartDirectory, StartFile, StartResume, StartSync, Begin, NoRun, graph, edges
  <2> QED BY <1>1, <1>2, <2>1
<1>5. CASE ClearFile
  <2>1. PICK f \in run.clear : /\ nodes' = [nodes EXCEPT ![f] = NoNodes]
                               /\ run' = [run EXCEPT !.clear = @ \ {f}]
    BY <1>5 DEF ClearFile
  <2>2. /\ f \in Files /\ run'.read = run.read /\ Disk' = Disk
        /\ View' = [View EXCEPT ![f] = Absent]
    BY <1>0, <1>5, <2>1, ViewChanges, EmptyTyped DEF ClearFile, Disk, RunType, Holds
  <2>3. CASE View[f] = Absent
    <3>1. View' = View
      BY <2>2, <2>3, ViewIs
    <3> QED BY <2>2, <3>1 DEF Promised!vars
  <2>4. CASE View[f] # Absent
    BY <2>2, <2>4 DEF Promised!Next, Promised!Hide
  <2> QED BY <2>3, <2>4
<1>6. CASE Scan
  <2>1. run'.read = run.read /\ UNCHANGED <<history, nodes>>
    BY <1>0, <1>6 DEF Scan, RunType, graph, edges
  <2> QED BY <1>1, <2>1
<1>7. CASE AnalyzeChunk
  <2>1. run'.read = [f \in Files |-> IF f \in Chunk THEN Disk[f] ELSE Absent]
    BY <1>0, <1>7 DEF AnalyzeChunk, RunType
  <2>2. Chunk \subseteq Files
    BY <1>0 DEF Chunk, RunType
  <2> QED BY <1>1, <1>7, <2>1, <2>2 DEF AnalyzeChunk, graph, edges
<1>8. CASE InsertNode
  <2>1. PICK q \in run.pending : /\ nodes' = [nodes EXCEPT ![q[1]][q[2]] = run.read[q[1]]]
                                 /\ run' = [run EXCEPT !.pending = @ \ {q}]
    BY <1>8 DEF InsertNode, edges
  <2> DEFINE f == q[1]
             n == [nodes[f] EXCEPT ![q[2]] = run.read[f]]
  <2>2. f \in Files /\ q[2] \in Parts /\ run.read[f] \in Text /\ run.read[f] # Absent
    BY <1>0, <2>1 DEF RunType, Tree, PendingInv
  <2>3. nodes[f] \in Node /\ n \in Node /\ nodes' = [nodes EXCEPT ![f] = n]
    BY <1>0, <2>1, <2>2 DEF Node
  <2>4. Holds(n) \in {run.read[f], Torn}
    BY <2>2, <2>3, InsertedShows
  <2> HIDE DEF n
  <2>5. View' = [View EXCEPT ![f] = Holds(n)]
    BY <2>2, <2>3, ViewChanges
  <2>6. run'.read = run.read /\ Disk' = Disk
    BY <1>0, <1>8, <2>1 DEF InsertNode, Disk, RunType, edges
  <2> HIDE DEF f
  <2> QED BY <2>2, <2>4, <2>5, <2>6 DEF Promised!Next, Promised!Show
<1>9. CASE InsertEdges
  BY <1>0, <1>1, <1>2, <1>9 DEF InsertEdges, RunType, edges
<1>10. CASE InsertCalls \/ MaterializeInheritance \/ MaterializeCha \/ SwallowEnrichment
  <2>1. run'.read = run.read /\ UNCHANGED <<history, nodes>>
    BY <1>0, <1>10 DEF InsertCalls, MaterializeInheritance, MaterializeCha, SwallowEnrichment,
                       RunType, graph, edges
  <2> QED BY <1>1, <2>1
<1>11. CASE Stop
  <2>1. run'.read = Empty /\ UNCHANGED <<history, nodes>>
    BY <1>11 DEF Stop, NoRun, graph, edges
  <2> QED BY <1>1, <1>2, <2>1
<1>12. CASE UNCHANGED vars
  BY <1>1, <1>12 DEF vars
<1> QED BY <1>3, <1>4, <1>5, <1>6, <1>7, <1>8, <1>9, <1>10, <1>11, <1>12 DEF Next

(* The pipeline implements the index that CodeIndex promises: whatever     *)
(* fails, dies or is committed meanwhile, a file shows nothing, a damaged  *)
(* remainder, or a text the run under way has read from disk.              *)
THEOREM PipelineKeepsThePromise == Spec => ShowsWhatItReads
<1>1. Inv /\ [Next]_vars => [Promised!Next]_(Promised!vars)
  BY RefinesStep
<1> QED BY <1>1, RefinesInit, Invariance, PTL DEF Spec, ShowsWhatItReads, Promised!Spec
-----------------------------------------------------------------------------
(* What a run that no commit disturbs leaves behind.  The invariant says   *)
(* of every file where the run stands with it: awaited, at hand or over.   *)

\* What a run holds belongs to its phase, and a rebuild begins on a sound graph.
StageInv ==
    /\ run.pending # {} => run.phase = "insert"
    /\ run.clear # {} => run.phase = "clear"
    /\ run.todo # {} => run.phase \in {"clear", "analyze", "insert"}
    /\ run.kind = "rebuild" /\ run.phase # "failed" => run.based

\* A run of these kinds that began on a sound graph, and no commit since.
Undisturbed(kinds) == run.kind \in kinds /\ run.based /\ ~run.moved

\* The files the run has still to analyse.
Awaited == IF run.phase = "clear" /\ run.kind = "rebuild" THEN Present(Disk) ELSE run.todo

\* The nodes of a file that is neither to be cleared nor awaited are those of
\* its text, but for the pending ones.
NodesInv ==
    Undisturbed({"rebuild", "sync"}) =>
      /\ Awaited \subseteq Present(Disk)
      /\ \A f \in run.clear : f \in Awaited \/ Disk[f] = Absent
      /\ \A f \in Awaited \ run.clear : nodes[f] = NoNodes
      /\ \A f \in Files \ (run.clear \cup Awaited), p \in Parts :
            <<f, p>> \in run.pending \/ nodes[f][p] = NodesOf(Disk[f])[p]
      /\ \A q \in run.pending : /\ run.read[q[1]] = Disk[q[1]] /\ q[1] \notin Awaited
                                /\ NodesOf(Disk[q[1]])[q[2]] # Absent

LEMMA StageStep == Inv /\ StageInv /\ [Next]_vars => StageInv'
<1> SUFFICES ASSUME Inv, StageInv, [Next]_vars PROVE StageInv'
  OBVIOUS
<1>0. run \in RunType
  BY DEF Inv, TypeOK, RunType, Tree
<1>1. CASE Commit
  BY <1>0, <1>1 DEF Commit, StageInv, RunType
<1>2. CASE StartRebuild \/ StartDirectory \/ StartFile \/ StartResume \/ StartSync
  <2>1. run'.phase = "clear" /\ run'.pending = {}
    BY <1>2, ZenonT(40) DEF StartRebuild, StartDirectory, StartFile, StartResume, StartSync, Begin, NoRun
  <2>2. CASE StartRebuild
    BY <2>1, <2>2 DEF StageInv, StartRebuild, NoRun
  <2>3. CASE StartDirectory \/ StartFile \/ StartResume \/ StartSync
    <3>1. run'.kind # "rebuild"
      BY <2>3 DEF StartDirectory, StartFile, StartResume, StartSync, Begin, NoRun
    <3> QED BY <2>1, <3>1 DEF StageInv
  <2> QED BY <1>2, <2>2, <2>3
<1>3. CASE ClearFile \/ Scan
  <2>1. CASE ClearFile
    BY <1>0, <2>1 DEF ClearFile, StageInv, RunType
  <2>2. CASE Scan
    <3>1. /\ run'.kind = run.kind /\ run'.based = run.based /\ run'.pending = run.pending
          /\ run'.clear = {} /\ run.phase = "clear" /\ run'.phase \in {"analyze", "done"}
          /\ run'.phase = "analyze" \/ run'.todo = {}
      BY <1>0, <2>2 DEF Scan, RunType
    <3> QED BY <3>1 DEF StageInv
  <2> QED BY <1>3, <2>1, <2>2
<1>4. CASE AnalyzeChunk \/ InsertNode \/ InsertEdges
  BY <1>0, <1>4 DEF AnalyzeChunk, InsertNode, InsertEdges, StageInv, RunType, edges
<1>5. CASE InsertCalls \/ MaterializeInheritance \/ MaterializeCha \/ SwallowEnrichment
  BY <1>0, <1>5 DEF InsertCalls, MaterializeInheritance, MaterializeCha, SwallowEnrichment,
                    StageInv, RunType
<1>6. CASE Stop
  BY <1>6 DEF Stop, StageInv, NoRun
<1>7. CASE UNCHANGED vars
  BY <1>7 DEF vars, StageInv
<1> QED BY <1>1, <1>2, <1>3, <1>4, <1>5, <1>6, <1>7 DEF Next

\* A part that is in no text is in no node.
LEMMA NothingOfAbsent == \A p \in Parts : NodesOf(Absent)[p] = Absent /\ NoNodes[p] = Absent
  BY DEF NodesOf, NoNodes

\* Steps that leave nodes, files and the work ahead alone.
LEMMA NodesKept ==
    ASSUME NodesInv, UNCHANGED <<history, nodes>>, Awaited' = Awaited,
           run'.kind = run.kind, run'.based = run.based, run'.moved = run.moved,
           run'.clear = run.clear, run'.pending = run.pending,
           run.pending = {} \/ run'.read = run.read
    PROVE  NodesInv'
<1>1. Disk' = Disk /\ Present(Disk') = Present(Disk)
  BY DEF Disk, Present
<1> QED BY <1>1 DEF NodesInv, Undisturbed

LEMMA NodesStep == Inv /\ StageInv /\ NodesInv /\ [Next]_vars => NodesInv'
<1> SUFFICES ASSUME Inv, StageInv, NodesInv, [Next]_vars PROVE NodesInv'
  OBVIOUS
<1>0. /\ run \in RunType /\ Disk \in Tree /\ nodes \in [Files -> Node]
  BY DiskTyped DEF Inv, TypeOK, RunType, Tree, Node
<1>1. CASE Commit \/ Stop \/ StartDirectory \/ StartFile \/ StartResume
  <2>1. CASE Commit
    BY <1>0, <2>1 DEF Commit, RunType, NodesInv, Undisturbed
  <2>2. CASE Stop
    BY <2>2 DEF Stop, NoRun, NodesInv, Undisturbed
  <2>3. CASE StartDirectory \/ StartFile \/ StartResume
    <3>1. run'.kind \notin {"rebuild", "sync"}
      BY <2>3 DEF StartDirectory, StartFile, StartResume, Begin, NoRun
    <3> QED BY <3>1 DEF NodesInv, Undisturbed
  <2> QED BY <1>1, <2>1, <2>2, <2>3
<1>2. CASE StartRebuild
  <2>1. /\ run'.phase = "clear" /\ run'.kind = "rebuild" /\ run'.clear = Indexed
        /\ run'.pending = {} /\ UNCHANGED <<history, nodes>>
    BY <1>2 DEF StartRebuild, NoRun
  <2>2. Disk' = Disk /\ Awaited' = Present(Disk)
    BY <2>1 DEF Disk, Awaited, Present
  <2>3. \A f \in Files \ Indexed : nodes[f] = NoNodes
    BY <1>0 DEF Indexed, NoNodes, Node
  <2>4. \A f \in Files : f \in Present(Disk) \/ Disk[f] = Absent
    BY DEF Present
  <2>5. Indexed \subseteq Files
    BY DEF Indexed
  <2>6. Present(Disk') = Present(Disk) /\ Present(Disk) \subseteq Files
    BY <2>2 DEF Present
  <2>7. \A f \in Files \ (run'.clear \cup Awaited'), p \in Parts :
            nodes'[f][p] = NodesOf(Disk'[f])[p]
    <3> SUFFICES ASSUME NEW f \in Files, f \notin Indexed, f \notin Present(Disk), NEW p \in Parts
                 PROVE  nodes[f][p] = NodesOf(Disk[f])[p]
      BY <2>1, <2>2
    <3>1. nodes[f] = NoNodes /\ Disk[f] = Absent
      BY <2>3, <2>4
    <3> QED BY <3>1, NothingOfAbsent
  <2> QED BY <2>1, <2>2, <2>3, <2>4, <2>5, <2>6, <2>7 DEF NodesInv
<1>3. CASE StartSync
  <2>1. PICK c \in 1 .. Len(history) :
            LET changed == {f \in Files : history[c][f] # Disk[f]} IN
            Begin("sync", changed \cap Present(Disk), changed)
    BY <1>3 DEF StartSync
  <2> DEFINE changed == {f \in Files : history[c][f] # Disk[f]}
  <2>2. changed \subseteq Files
    OBVIOUS
  <2>3. Begin("sync", changed \cap Present(Disk), changed)
    BY <2>1
  <2> HIDE DEF changed
  <2>4. /\ run'.phase = "clear" /\ run'.kind = "sync" /\ run'.clear = changed
        /\ run'.todo = changed \cap Present(Disk) /\ run'.pending = {}
        /\ run'.based = (\A f \in Files \ changed : Shown(f, Disk))
        /\ UNCHANGED <<history, nodes>>
    BY <2>3 DEF Begin, NoRun, graph, edges
  <2>5. Disk' = Disk /\ Awaited' = changed \cap Present(Disk) /\ Present(Disk') = Present(Disk)
    BY <2>4 DEF Disk, Awaited, Present
  <2>6. \A f \in Files : f \in Present(Disk) \/ Disk[f] = Absent
    BY DEF Present
  <2> QED BY <2>2, <2>4, <2>5, <2>6 DEF NodesInv, Undisturbed, Shown
<1>4. CASE ClearFile
  <2>1. PICK f \in run.clear : /\ nodes' = [nodes EXCEPT ![f] = NoNodes]
                               /\ run' = [run EXCEPT !.clear = @ \ {f}]
    BY <1>4 DEF ClearFile
  <2>2. /\ run'.phase = run.phase /\ run'.kind = run.kind /\ run'.todo = run.todo
        /\ run'.pending = run.pending /\ run'.read = run.read /\ run'.based = run.based
        /\ run'.moved = run.moved /\ run'.clear = run.clear \ {f} /\ f \in Files
        /\ run.pending = {} /\ history' = history
    BY <1>0, <1>4, <2>1 DEF RunType, ClearFile, StageInv
  <2>3. Disk' = Disk /\ Awaited' = Awaited /\ Present(Disk') = Present(Disk)
    BY <2>2 DEF Disk, Awaited, Present
  <2>4. nodes'[f] = NoNodes /\ \A g \in Files \ {f} : nodes'[g] = nodes[g]
    BY <1>0, <2>1, <2>2
  <2> QED BY <2>2, <2>3, <2>4, NothingOfAbsent DEF NodesInv, Undisturbed, Present
<1>5. CASE Scan
  <2>1. /\ run.clear = {} /\ run.phase = "clear" /\ run'.phase # "clear"
        /\ run'.kind = run.kind /\ run'.based = run.based /\ run'.moved = run.moved
        /\ run'.clear = run.clear /\ run'.pending = run.pending /\ run'.read = run.read
        /\ UNCHANGED <<history, nodes>>
    BY <1>0, <1>5 DEF Scan, RunType, graph, edges
  <2>2. CASE ~Undisturbed({"rebuild", "sync"})
    BY <2>1, <2>2 DEF NodesInv, Undisturbed
  <2>3. CASE Undisturbed({"rebuild", "sync"})
    <3>1. Awaited \subseteq Present(Disk)
      BY <2>3 DEF NodesInv
    <3>2. run'.todo = IF run.kind = "sync" THEN run.todo \cap Present(Disk) ELSE Present(Disk)
      BY <1>0, <1>5, <2>3 DEF Scan, RunType, Undisturbed
    <3>3. Awaited' = Awaited
      BY <2>1, <2>3, <3>1, <3>2 DEF Awaited, Undisturbed
    <3> QED BY <2>1, <3>3, NodesKept
  <2> QED BY <2>2, <2>3
<1>6. CASE AnalyzeChunk
  <2> DEFINE text == [f \in Files |-> IF f \in Chunk THEN Disk[f] ELSE Absent]
  <2>1. /\ run.phase = "analyze" /\ run'.phase = "insert" /\ run'.kind = run.kind
        /\ run'.based = run.based /\ run'.moved = run.moved /\ run'.clear = run.clear
        /\ run'.todo = run.todo \ Chunk /\ run'.read = text
        /\ run'.pending = {q \in Files \X Parts : NodesOf(text[q[1]])[q[2]] # Absent}
        /\ UNCHANGED <<history, nodes>>
    BY <1>0, <1>6 DEF AnalyzeChunk, RunType, graph, edges
  <2>2. run.pending = {} /\ run.clear = {} /\ Chunk \subseteq run.todo
    BY <2>1 DEF StageInv, Chunk
  <2>3. /\ Disk' = Disk /\ Present(Disk') = Present(Disk)
        /\ Awaited = run.todo /\ Awaited' = run.todo \ Chunk
    BY <2>1 DEF Disk, Awaited, Present
  <2>4. \A f \in Files : text[f] = IF f \in Chunk THEN Disk[f] ELSE Absent
    OBVIOUS
  <2>5. run'.read = text
    BY <2>1
  <2> HIDE DEF text
  <2>6. \A q \in run'.pending : /\ q[1] \in Chunk /\ run'.read[q[1]] = Disk[q[1]]
                                /\ NodesOf(Disk[q[1]])[q[2]] # Absent
    BY <2>1, <2>4, <2>5, NothingOfAbsent
  <2>7. \A f \in Chunk, p \in Parts :
            <<f, p>> \in run'.pending \/ NodesOf(Disk[f])[p] = Absent
    BY <1>0, <2>1, <2>2, <2>4 DEF RunType
  <2>8. CASE ~Undisturbed({"rebuild", "sync"})
    BY <2>1, <2>8 DEF NodesInv, Undisturbed
  <2>9. CASE Undisturbed({"rebuild", "sync"})
    <3>1. \A f \in Files \ Awaited', p \in Parts :
              <<f, p>> \in run'.pending \/ nodes'[f][p] = NodesOf(Disk'[f])[p]
      <4> SUFFICES ASSUME NEW f \in Files \ Awaited', NEW p \in Parts,
                          <<f, p>> \notin run'.pending
                   PROVE  nodes[f][p] = NodesOf(Disk[f])[p]
        BY <2>1, <2>3
      <4>1. CASE f \in Chunk
        BY <2>2, <2>3, <2>7, <2>9, <4>1, NothingOfAbsent DEF NodesInv
      <4>2. CASE f \notin Chunk
        BY <2>2, <2>3, <2>9, <4>2 DEF NodesInv
      <4> QED BY <4>1, <4>2
    <3> QED BY <2>1, <2>2, <2>3, <2>6, <2>9, <3>1 DEF NodesInv
  <2> QED BY <2>8, <2>9
<1>7. CASE InsertNode
  <2>1. PICK q \in run.pending : /\ nodes' = [nodes EXCEPT ![q[1]][q[2]] = run.read[q[1]]]
                                 /\ run' = [run EXCEPT !.pending = @ \ {q}]
    BY <1>7 DEF InsertNode, edges
  <2>2. /\ q \in Files \X Parts /\ q[1] \in Files /\ q[2] \in Parts /\ q = <<q[1], q[2]>>
        /\ run'.phase = run.phase /\ run'.kind = run.kind /\ run'.todo = run.todo
        /\ run'.pending = run.pending \ {q} /\ run'.read = run.read /\ run'.based = run.based
        /\ run'.moved = run.moved /\ run'.clear = run.clear
        /\ run.phase = "insert" /\ run.clear = {} /\ history' = history
    BY <1>0, <1>7, <2>1 DEF RunType, InsertNode, StageInv, edges
  <2>3. Disk' = Disk /\ Awaited' = run.todo /\ Awaited = run.todo /\ Present(Disk') = Present(Disk)
    BY <2>2 DEF Disk, Awaited, Present
  <2>4. CASE ~Undisturbed({"rebuild", "sync"})
    BY <2>2, <2>4 DEF NodesInv, Undisturbed
  <2>5. CASE Undisturbed({"rebuild", "sync"})
    <3>1. run.read[q[1]] = Disk[q[1]] /\ NodesOf(Disk[q[1]])[q[2]] = Disk[q[1]]
      BY <2>2, <2>5 DEF NodesInv, NodesOf
    <3>2. \A f \in Files, p \in Parts :
              nodes'[f][p] = IF <<f, p>> = q THEN Disk[f] ELSE nodes[f][p]
      BY <1>0, <2>1, <2>2, <3>1 DEF Node
    <3>3. \A f \in Files \ Awaited', p \in Parts :
              <<f, p>> \in run'.pending \/ nodes'[f][p] = NodesOf(Disk'[f])[p]
      <4> SUFFICES ASSUME NEW f \in Files, f \notin Awaited, NEW p \in Parts,
                          <<f, p>> \notin run'.pending
                   PROVE  nodes'[f][p] = NodesOf(Disk[f])[p]
        BY <2>3
      <4>1. CASE <<f, p>> = q
        <5>1. f = q[1] /\ p = q[2]
          BY <4>1
        <5> QED BY <3>1, <3>2, <4>1, <5>1
      <4>2. CASE <<f, p>> # q
        <5>1. <<f, p>> \notin run.pending /\ nodes'[f][p] = nodes[f][p]
          BY <2>2, <3>2, <4>2
        <5> QED BY <2>2, <2>3, <2>5, <5>1 DEF NodesInv
      <4> QED BY <4>1, <4>2
    <3>4. q[1] \notin Awaited
      BY <2>1, <2>5 DEF NodesInv
    <3>5. \A f \in Awaited' \ run'.clear : nodes'[f] = NoNodes
      <4> SUFFICES ASSUME NEW f \in Awaited PROVE nodes'[f] = NoNodes
        BY <2>3
      <4>1. f \in Files /\ f # q[1] /\ nodes[f] = NoNodes
        BY <1>0, <2>2, <2>3, <2>5, <3>4 DEF NodesInv, RunType
      <4> QED BY <1>0, <2>1, <2>2, <4>1
    <3>6. \A o \in run'.pending : /\ run'.read[o[1]] = Disk'[o[1]] /\ o[1] \notin Awaited'
                                   /\ NodesOf(Disk'[o[1]])[o[2]] # Absent
      BY <2>2, <2>3, <2>5 DEF NodesInv
    <3> QED BY <2>2, <2>3, <2>5, <3>3, <3>5, <3>6 DEF NodesInv
  <2> QED BY <2>4, <2>5
<1>8. CASE InsertEdges \/ InsertCalls \/ MaterializeInheritance \/ MaterializeCha
            \/ SwallowEnrichment
  <2>1. /\ run'.kind = run.kind /\ run'.based = run.based /\ run'.moved = run.moved
        /\ run'.clear = run.clear /\ run'.pending = run.pending /\ run'.todo = run.todo
        /\ run.phase # "clear" /\ run'.phase # "clear"
        /\ run.pending = {} \/ run'.read = run.read
        /\ UNCHANGED <<history, nodes>>
    BY <1>0, <1>8, ZenonT(40) DEF InsertEdges, InsertCalls, MaterializeInheritance, MaterializeCha,
                      SwallowEnrichment, RunType, graph, edges
  <2>2. Awaited' = Awaited
    BY <2>1 DEF Awaited
  <2> QED BY <2>1, <2>2, NodesKept
<1>9. CASE UNCHANGED vars
  BY <1>9, NodesKept DEF vars, Awaited, Present, Disk
<1> QED BY <1>1, <1>2, <1>3, <1>4, <1>5, <1>6, <1>7, <1>8, <1>9 DEF Next

\* A run that ends undisturbed has brought every file up to date.
LEMMA NodesAtTheEnd ==
    ASSUME Inv, StageInv, NodesInv, Undisturbed({"rebuild", "sync"}),
           run.phase \in {"inherit", "cha", "done"}
    PROVE  NodesAreCurrent
<1>1. run.pending = {} /\ run.clear = {} /\ Awaited = {}
  BY DEF StageInv, Awaited
<1>2. \A f \in Files, p \in Parts : nodes[f][p] = NodesOf(Disk[f])[p]
  BY <1>1 DEF NodesInv
<1>3. nodes \in [Files -> Node]
  BY DEF Inv, TypeOK, Node
<1>4. \A t : NodesOf(t) = [p \in Parts |-> NodesOf(t)[p]]
  BY DEF NodesOf
<1> QED BY <1>2, <1>3, <1>4 DEF NodesAreCurrent, Shown, Node

(* The edges of a rebuild.  Until calls are resolved there is none but     *)
(* from classes to their methods, and the index holds the files read; then *)
(* every enrichment adds what the whole project gives.                     *)
EdgesInv ==
    Undisturbed({"rebuild"}) =>
      /\ run.phase \in {"clear", "analyze", "insert"} =>
           /\ calls = {} /\ virtual = {} /\ inherits = {}
           /\ \A f \in Files : run.index[f] = IF f \in Awaited THEN Absent ELSE Disk[f]
           /\ \A f \in Files : run.read[f] # Absent =>
                 run.phase = "insert" /\ f \notin Awaited /\ run.read[f] = Disk[f]
           /\ \A f \in Files : f \in parents <=>
                 Disk[f] # Absent /\ Disk[f].method /\ f \notin Awaited /\ run.read[f] = Absent
      /\ run.phase \in {"inherit", "cha", "done"} =>
           /\ parents = {f \in Present(Disk) : Disk[f].method}
           /\ CallPairs(Disk) \subseteq calls
      /\ run.phase \in {"inherit", "cha"} => calls = CallPairs(Disk) /\ virtual = {}
      /\ run.phase = "inherit" => inherits = {}
      /\ run.phase = "cha" => inherits = InheritancePairs(nodes)
      /\ run.phase = "done" => run.lost \/ Derived

LEMMA EdgesStep == Inv /\ StageInv /\ NodesInv /\ EdgesInv /\ [Next]_vars => EdgesInv'
<1> SUFFICES ASSUME Inv, StageInv, NodesInv, EdgesInv, [Next]_vars PROVE EdgesInv'
  OBVIOUS
<1>0. /\ run \in RunType /\ Disk \in Tree /\ nodes \in [Files -> Node] /\ parents \subseteq Files
  BY DiskTyped DEF Inv, TypeOK, RunType, Tree, Node
<1>1. CASE Commit \/ Stop \/ StartDirectory \/ StartFile \/ StartResume \/ StartSync
  <2>1. CASE Commit
    BY <1>0, <2>1 DEF Commit, RunType, EdgesInv, Undisturbed
  <2>2. CASE Stop
    BY <2>2 DEF Stop, NoRun, EdgesInv, Undisturbed
  <2>3. CASE StartDirectory \/ StartFile \/ StartResume \/ StartSync
    <3>1. run'.kind # "rebuild"
      BY <2>3 DEF StartDirectory, StartFile, StartResume, StartSync, Begin, NoRun
    <3> QED BY <3>1 DEF EdgesInv, Undisturbed
  <2> QED BY <1>1, <2>1, <2>2, <2>3
<1>2. CASE StartRebuild
  <2>1. /\ run'.phase = "clear" /\ run'.kind = "rebuild" /\ run'.index = Empty
        /\ run'.read = Empty /\ UNCHANGED <<history, nodes>>
        /\ parents' = {} /\ calls' = {} /\ virtual' = {} /\ inherits' = {}
    BY <1>2 DEF StartRebuild, NoRun
  <2>2. Disk' = Disk /\ Awaited' = Present(Disk)
    BY <2>1 DEF Disk, Awaited, Present
  <2>3. \A f \in Files : Empty[f] = Absent /\ (f \in Present(Disk) <=> Disk[f] # Absent)
    BY DEF Empty, Present
  <2> QED BY <2>1, <2>2, <2>3 DEF EdgesInv
<1>3. CASE ~Undisturbed({"rebuild"}) /\ ~StartRebuild
  <2>1. CASE Commit \/ Stop \/ StartDirectory \/ StartFile \/ StartResume \/ StartSync
    BY <1>1, <2>1
  <2>2. CASE ClearFile \/ Scan \/ AnalyzeChunk \/ InsertNode \/ InsertEdges \/ InsertCalls
             \/ MaterializeInheritance \/ MaterializeCha \/ SwallowEnrichment \/ UNCHANGED vars
    <3>1. run'.kind = run.kind /\ run'.based = run.based /\ run'.moved = run.moved
      BY <1>0, <2>2, ZenonT(40) DEF ClearFile, Scan, AnalyzeChunk, InsertNode, InsertEdges, InsertCalls,
             MaterializeInheritance, MaterializeCha, SwallowEnrichment, vars, RunType, edges
    <3> QED BY <1>3, <3>1 DEF EdgesInv, Undisturbed
  <2> QED BY <1>3, <2>1, <2>2 DEF Next
<1>4. ASSUME Undisturbed({"rebuild"}), ClearFile PROVE EdgesInv'
  <2>1. PICK f \in run.clear : /\ nodes' = [nodes EXCEPT ![f] = NoNodes]
                               /\ run' = [run EXCEPT !.clear = @ \ {f}]
                               /\ parents' = parents \ {f} /\ calls' = Without(f, calls)
                               /\ virtual' = Without(f, virtual) /\ inherits' = Without(f, inherits)
    BY <1>4 DEF ClearFile
  <2>2. /\ run'.phase = "clear" /\ run.phase = "clear" /\ run'.kind = run.kind
        /\ run'.todo = run.todo /\ run'.read = run.read /\ run'.index = run.index
        /\ history' = history
    BY <1>0, <1>4, <2>1 DEF RunType, ClearFile
  <2>3. Disk' = Disk /\ Awaited' = Awaited /\ Awaited = Present(Disk)
    BY <1>4, <2>2 DEF Disk, Awaited, Present, Undisturbed
  <2>4. calls = {} /\ virtual = {} /\ inherits = {} /\ parents = {}
    BY <1>0, <1>4, <2>2, <2>3 DEF EdgesInv, Present
  <2>5. calls' = {} /\ virtual' = {} /\ inherits' = {} /\ parents' = {}
    BY <2>1, <2>4 DEF Without
  <2> QED BY <1>4, <2>2, <2>3, <2>4, <2>5 DEF EdgesInv
<1>5. ASSUME Undisturbed({"rebuild"}), Scan PROVE EdgesInv'
  <2>1. /\ run.phase = "clear" /\ run'.phase = "analyze" /\ run'.todo = Present(Disk)
        /\ run'.read = run.read /\ run'.index = run.index
        /\ UNCHANGED <<history, nodes, parents, calls, virtual, inherits>>
    BY <1>0, <1>5 DEF Scan, RunType, graph, Undisturbed, edges
  <2>2. Disk' = Disk /\ Awaited' = Awaited
    BY <1>5, <2>1 DEF Disk, Awaited, Present, Undisturbed
  <2> QED BY <1>5, <2>1, <2>2 DEF EdgesInv
<1>6. ASSUME Undisturbed({"rebuild"}), AnalyzeChunk PROVE EdgesInv'
  <2>1. /\ run.phase = "analyze" /\ run'.phase = "insert" /\ run'.todo = run.todo \ Chunk
        /\ run'.read = [f \in Files |-> IF f \in Chunk THEN Disk[f] ELSE Absent]
        /\ run'.index = [f \in Files |-> IF f \in Chunk
               THEN [g \in Files |-> IF g \in Chunk THEN Disk[g] ELSE Absent][f] ELSE run.index[f]]
        /\ UNCHANGED <<history, nodes, parents, calls, virtual, inherits>>
    BY <1>0, <1>6 DEF AnalyzeChunk, RunType, graph, edges
  <2>2. Chunk \subseteq run.todo
    BY DEF Chunk
  <2>3. Disk' = Disk /\ Awaited' = run.todo \ Chunk /\ Awaited = run.todo
    BY <2>1 DEF Disk, Awaited
  <2>4. \A f \in Files : /\ run'.read[f] = IF f \in Chunk THEN Disk[f] ELSE Absent
                         /\ run'.index[f] = IF f \in Chunk THEN Disk[f] ELSE run.index[f]
    BY <2>1
  <2>5. \A f \in Files : run.read[f] = Absent
    BY <1>6, <2>1 DEF EdgesInv
  <2>6. \A f \in Chunk : Disk[f] # Absent
    BY <1>6 DEF AnalyzeChunk, Present
  <2>7. \A f \in Files : run'.index[f] = IF f \in Awaited' THEN Absent ELSE Disk[f]
    BY <1>6, <2>1, <2>2, <2>3, <2>4 DEF EdgesInv
  <2>8. \A f \in Files : f \in parents <=>
            Disk[f] # Absent /\ Disk[f].method /\ f \notin Awaited' /\ run'.read[f] = Absent
    BY <1>6, <2>1, <2>2, <2>3, <2>4, <2>5, <2>6 DEF EdgesInv
  <2>9. \A f \in Files : run'.read[f] # Absent => f \notin Awaited' /\ run'.read[f] = Disk[f]
    BY <2>3, <2>4
  <2>10. calls = {} /\ virtual = {} /\ inherits = {}
    BY <1>6, <2>1 DEF EdgesInv
  <2> QED BY <2>1, <2>3, <2>7, <2>8, <2>9, <2>10 DEF EdgesInv
<1>7. ASSUME Undisturbed({"rebuild"}), InsertNode PROVE EdgesInv'
  <2>1. /\ run.phase = "insert" /\ run'.phase = "insert" /\ run'.todo = run.todo
        /\ run'.read = run.read /\ run'.index = run.index
        /\ UNCHANGED <<history, parents, calls, virtual, inherits>>
    BY <1>0, <1>7 DEF InsertNode, RunType, edges
  <2>2. Disk' = Disk /\ Awaited' = Awaited
    BY <2>1 DEF Disk, Awaited
  <2> QED BY <1>7, <2>1, <2>2 DEF EdgesInv
<1>8. ASSUME Undisturbed({"rebuild"}), InsertEdges PROVE EdgesInv'
  <2>1. /\ run.phase = "insert" /\ run'.phase = "analyze" /\ run'.todo = run.todo
        /\ run'.read = Empty /\ run'.index = run.index
        /\ parents' = parents \cup {f \in Files : run.read[f] # Absent /\ run.read[f].method}
        /\ UNCHANGED <<history, calls, virtual, inherits>>
    BY <1>0, <1>8 DEF InsertEdges, RunType, edges
  <2>2. Disk' = Disk /\ Awaited' = Awaited
    BY <2>1 DEF Disk, Awaited
  <2>3. \A f \in Files : Empty[f] = Absent
    BY DEF Empty
  <2>4. \A f \in Files : f \in parents' <=> Disk[f] # Absent /\ Disk[f].method /\ f \notin Awaited
    BY <1>8, <2>1 DEF EdgesInv
  <2> QED BY <1>8, <2>1, <2>2, <2>3, <2>4 DEF EdgesInv
<1>9. ASSUME Undisturbed({"rebuild"}), InsertCalls PROVE EdgesInv'
  <2>1. /\ run.phase = "analyze" /\ run'.phase = "inherit" /\ run.todo = {}
        /\ calls' = calls \cup CallPairs(run.index)
        /\ UNCHANGED <<history, nodes, parents, virtual, inherits>>
    BY <1>0, <1>9 DEF InsertCalls, RunType
  <2>2. Disk' = Disk /\ Awaited = {}
    BY <2>1 DEF Disk, Awaited
  <2>3. run.index = Disk
    BY <1>0, <1>9, <2>1, <2>2 DEF EdgesInv, RunType, Tree
  <2>4. parents = {f \in Present(Disk) : Disk[f].method}
    BY <1>0, <1>9, <2>1, <2>2 DEF EdgesInv, Present
  <2>5. calls' = CallPairs(Disk) /\ virtual = {} /\ inherits = {}
    BY <1>9, <2>1, <2>3 DEF EdgesInv
  <2> QED BY <2>1, <2>2, <2>4, <2>5 DEF EdgesInv
<1>10. ASSUME Undisturbed({"rebuild"}), MaterializeInheritance PROVE EdgesInv'
  <2>1. /\ run.phase = "inherit" /\ run'.phase = "cha"
        /\ inherits' = inherits \cup InheritancePairs(nodes)
        /\ UNCHANGED <<history, nodes, parents, calls, virtual>>
    BY <1>0, <1>10 DEF MaterializeInheritance, RunType
  <2>2. Disk' = Disk /\ InheritancePairs(nodes') = InheritancePairs(nodes)
    BY <2>1 DEF Disk
  <2> QED BY <1>10, <2>1, <2>2 DEF EdgesInv
<1>11. ASSUME Undisturbed({"rebuild"}), MaterializeCha PROVE EdgesInv'
  <2> DEFINE new == VirtualPairs(calls, inherits, parents)
  <2>1. /\ run.phase = "cha" /\ run'.phase = "done"
        /\ calls' = calls \cup new /\ virtual' = virtual \cup new
        /\ UNCHANGED <<history, nodes, parents, inherits>>
    BY <1>0, <1>11 DEF MaterializeCha, RunType
  <2>2. Disk' = Disk
    BY <2>1 DEF Disk
  <2>3. /\ calls = CallPairs(Disk) /\ virtual = {} /\ inherits = InheritancePairs(nodes)
        /\ parents = {f \in Present(Disk) : Disk[f].method}
    BY <1>11, <2>1 DEF EdgesInv
  <2>4. Derived'
    BY <2>1, <2>2, <2>3 DEF Derived
  <2> HIDE DEF new
  <2> QED BY <2>1, <2>2, <2>3, <2>4 DEF EdgesInv
<1>12. ASSUME Undisturbed({"rebuild"}), SwallowEnrichment PROVE EdgesInv'
  <2>1. /\ run.phase \in {"inherit", "cha"} /\ run'.phase = "done" /\ run'.lost
        /\ UNCHANGED <<history, nodes, parents, calls, virtual, inherits>>
    BY <1>0, <1>12 DEF SwallowEnrichment, RunType, graph, edges
  <2>2. Disk' = Disk
    BY <2>1 DEF Disk
  <2> QED BY <1>12, <2>1, <2>2 DEF EdgesInv
<1>13. CASE UNCHANGED vars
  <2>1. Disk' = Disk /\ Awaited' = Awaited /\ (Derived' <=> Derived)
    BY <1>13 DEF vars, Disk, Awaited, Present, Derived
  <2> QED BY <1>13, <2>1 DEF vars, EdgesInv, Undisturbed
<1> QED BY <1>1, <1>2, <1>3, <1>4, <1>5, <1>6, <1>7, <1>8, <1>9, <1>10, <1>11, <1>12, <1>13 DEF Next

LEMMA WorkInvariance == Spec => [](Inv /\ StageInv /\ NodesInv /\ EdgesInv)
<1>1. Init => Inv /\ StageInv /\ NodesInv /\ EdgesInv
  <2>1. Init => run.kind = "resume" /\ run.pending = {} /\ run.clear = {} /\ run.todo = {}
    BY DEF Init, NoRun
  <2> QED BY <2>1, InitInv DEF StageInv, NodesInv, EdgesInv, Undisturbed
<1>2. Inv /\ StageInv /\ NodesInv /\ EdgesInv /\ [Next]_vars
        => (Inv /\ StageInv /\ NodesInv /\ EdgesInv)'
  BY StepInv, StageStep, NodesStep, EdgesStep
<1> QED BY <1>1, <1>2, PTL DEF Spec

(* A git sync no commit disturbs leaves the nodes of the working tree,     *)
(* whatever an earlier sync left behind, for any files and texts           *)
(* (clear_files_batch before the analysis of the listed files).            *)
THEOREM SyncRepairs == Spec => []SyncMakesNodesCurrent
<1>1. Inv /\ StageInv /\ NodesInv => SyncMakesNodesCurrent
  BY NodesAtTheEnd DEF SyncMakesNodesCurrent, Succeeded, Undisturbed
<1> QED BY <1>1, WorkInvariance, PTL

(* A rebuild no commit disturbs leaves exactly the graph of the working    *)
(* tree, however the files fall into chunks: the index of calls spans all  *)
(* chunks, and inheritance is read when all classes are in.                *)
THEOREM RebuildIsComplete == Spec => []RebuildIsExact
<1>1. Inv /\ StageInv /\ NodesInv /\ EdgesInv => RebuildIsExact
  <2> SUFFICES ASSUME Inv, StageInv, NodesInv, EdgesInv, Succeeded, run.kind = "rebuild"
               PROVE  Imported /\ (run.lost \/ Derived)
    BY DEF RebuildIsExact
  <2>1. run.phase = "done" /\ ~run.moved
    BY DEF Succeeded
  <2>2. Undisturbed({"rebuild"}) /\ Undisturbed({"rebuild", "sync"})
    BY <2>1 DEF StageInv, Undisturbed
  <2> QED BY <2>1, <2>2, NodesAtTheEnd DEF EdgesInv, Imported
<1> QED BY <1>1, WorkInvariance, PTL

-----------------------------------------------------------------------------
(* Resolved calls, while every text declares its method. *)

\* A call on a class whose method every text declares reaches that method.
LEMMA ReachedIsItself ==
  ASSUME NEW index \in Tree, \A f \in Files : index[f] # Absent => index[f].method,
         NEW g \in Files
  PROVE  Reached(index, g) \subseteq {g}
<1> DEFINE C == Cardinality(Files)
           Step(s) == LET above == {index[h].extends : h \in {x \in s : index[x] # Absent
                                                                   /\ ~index[x].method}}
                      IN  {h \in s : index[h] # Absent /\ index[h].method} \cup (above \ {Absent})
           up[n \in 0 .. C] == IF n = 0 THEN {g} ELSE Step(up[n-1])
<1>1. C \in Nat
  BY CodeAssumption, FS_CardinalityType
<1>2. \A s \in SUBSET {g} : Step(s) = {h \in s : index[h] # Absent /\ index[h].method}
  OBVIOUS
<1> DEFINE mine == {h \in {g} : index[h] # Absent /\ index[h].method}
           w == [n \in 0 .. C |-> IF n = 0 THEN {g} ELSE mine]
<1>3. w = [n \in 0 .. C |-> IF n = 0 THEN {g} ELSE Step(w[n-1])]
  <2>1. Step({g}) = mine /\ Step(mine) = mine
    BY <1>2
  <2> HIDE DEF Step, mine
  <2>2. \A n \in 0 .. C : w[n] = IF n = 0 THEN {g} ELSE Step(w[n-1])
    BY <1>1, <2>1
  <2> QED
    BY <2>2
<1>4. up = [n \in 0 .. C |-> IF n = 0 THEN {g} ELSE Step(up[n-1])]
  <2> HIDE DEF w, Step
  <2> QED
    BY <1>3
<1>5. \A n \in 0 .. C : up[n] \subseteq {g}
  <2> HIDE DEF up, C
  <2> DEFINE T == {n \in Nat : n \in 0 .. C => up[n] \subseteq {g}}
  <2>1. 0 \in T
    BY <1>1, <1>4
  <2>2. ASSUME NEW n \in T PROVE n + 1 \in T
    <3>1. CASE n + 1 \in 0 .. C
      <4>1. n \in Nat /\ n \in 0 .. C /\ n + 1 # 0 /\ (n + 1) - 1 = n
        BY <1>1, <3>1
      <4>2. up[n] \subseteq {g}
        BY <4>1
      <4>3. up[n + 1] = Step(up[n])
        <5> HIDE DEF Step
        <5> QED
          BY <1>4, <3>1, <4>1
      <4> QED
        BY <1>2, <4>2, <4>3
    <3> QED
      BY <3>1
  <2> HIDE DEF T
  <2>3. T = Nat
    BY <2>1, <2>2, AllNumbers DEF T
  <2> QED
    BY <1>1, <2>3 DEF T
<1>6. up[C] \subseteq {g}
  BY <1>1, <1>5
<1>7. Reached(index, g) \subseteq up[C]
  BY DEF Reached
<1> QED
  BY <1>6, <1>7

\* Every text ever committed declares its method.
AllMethods == \A i \in DOMAIN history, f \in Files : history[i][f] # Absent => history[i][f].method

\* The files the run has still to read; a directory is scanned once it is cleared.
Ahead == IF run.phase = "clear" /\ run.kind \in {"rebuild", "directory"} THEN Present(Disk)
         ELSE run.todo

\* The classes a text says it calls.
Calling(t) == t.calls \cup t.statics

\* A rebuild without commits in between, and every run after it, inserts calls
\* only between texts that are in the graph: an edge that was neither derived nor
\* guessed joins the method node of a text to a class this text names, and a
\* guessed one starts where calls on class names are; a file that is still to
\* be inserted has none, unless it is about to be cleared; and what the run reads
\* and indexes is the working tree.
CallsInv ==
    AllMethods /\ ~run.raced =>
      /\ \A p \in calls \ (virtual \cup guessed) :
            nodes[p[1]]["method"] # Absent /\ p[2] \in Calling(nodes[p[1]]["method"])
      /\ \A p \in guessed :
            nodes[p[1]]["method"] # Absent /\ nodes[p[1]]["method"].statics # {}
      /\ run.phase \in {"clear", "analyze", "insert"} =>
            \A p \in calls : p[1] \in run.clear \/ (p[1] \notin Ahead /\ run.read[p[1]] = Absent)
      /\ Running => \A f \in Files :
            /\ run.read[f] # Absent => run.phase = "insert" /\ f \notin Ahead
                                       /\ run.read[f] = Disk[f] /\ run.index[f] = Disk[f]
            /\ run.index[f] # Absent =>
                  /\ run.phase \in {"analyze", "insert"} /\ f \notin Ahead
                  /\ run.index[f] = Disk[f]
                  /\ <<f, "method">> \in run.pending \/ nodes[f]["method"] = run.index[f]

\* A file whose disk text was ever committed declares its method.
LEMMA DiskMethods ==
    ASSUME TypeOK, AllMethods, NEW f \in Files, Disk[f] # Absent
    PROVE  Disk[f].method
<1>1. Len(history) \in DOMAIN history
  BY DEF TypeOK
<1> QED BY <1>1 DEF AllMethods, Disk

\* Whatever starts an incremental run begins it with nothing read.
LEMMA StartsAreClean ==
    ASSUME StartDirectory \/ StartFile \/ StartResume \/ StartSync
    PROVE  /\ run'.phase = "clear" /\ run'.read = Empty /\ run'.index = Empty
           /\ UNCHANGED <<history, nodes, calls, virtual, guessed>>
<1>1. ASSUME NEW kind, NEW started, NEW clear, Begin(kind, started, clear)
      PROVE  /\ run'.phase = "clear" /\ run'.read = Empty /\ run'.index = Empty
             /\ UNCHANGED <<history, nodes, calls, virtual, guessed>>
  BY <1>1 DEF Begin, NoRun, graph, edges
<1>2. \E kind, started, clear : Begin(kind, started, clear)
  BY DEF StartDirectory, StartFile, StartResume, StartSync
<1> QED BY <1>1, <1>2

\* Every step keeps the invariant; only a rebuild forgets that commits raced.
LEMMA CallsStep == Inv /\ StageInv /\ CallsInv /\ [Next]_vars => CallsInv'
<1> SUFFICES ASSUME Inv, StageInv, CallsInv, [Next]_vars, AllMethods', ~run'.raced
             PROVE  CallsInv'
  BY DEF CallsInv
<1>0. /\ run \in RunType /\ Disk \in Tree /\ nodes \in [Files -> Node]
      /\ calls \subseteq Files \X Files /\ guessed \subseteq calls
      /\ history \in Seq(Tree) /\ TypeOK
  BY DiskTyped DEF Inv, TypeOK, RunType, Tree, Node
<1>1. AllMethods
  <2>1. DOMAIN history \subseteq DOMAIN history' /\ \A i \in DOMAIN history : history'[i] = history[i]
    <3>1. CASE Commit
      <4>1. PICK tree \in Tree : history' = Append(history, tree)
        <5>1. PICK f \in Files : \E t \in TextsOf[f] \cup {Absent} :
                  history' = Append(history, [Disk EXCEPT ![f] = t])
          BY <3>1 DEF Commit
        <5>2. \A t \in TextsOf[f] \cup {Absent} : [Disk EXCEPT ![f] = t] \in Tree
          BY <1>0, CodeAssumption DEF Tree
        <5> QED BY <5>1, <5>2
      <4> QED BY <1>0, <4>1
    <3>2. CASE ~Commit
      <4>1. UNCHANGED history
        BY <3>2 DEF Next, vars, StartRebuild, StartDirectory, StartFile, StartResume, StartSync,
             Begin, ClearFile, Scan, AnalyzeChunk, InsertNode, InsertEdges, InsertCalls,
             MaterializeInheritance, MaterializeCha, SwallowEnrichment, Stop, edges
      <4> QED BY <4>1
    <3> QED BY <3>1, <3>2
  <2> QED BY <2>1 DEF AllMethods
<1>2. CASE StartRebuild
  <2>1. /\ calls' = {} /\ guessed' = {}
        /\ run'.phase = "clear" /\ run'.read = Empty /\ run'.index = Empty
    BY <1>2 DEF StartRebuild, NoRun
  <2>2. \A f \in Files : Empty[f] = Absent
    BY DEF Empty
  <2> QED BY <2>1, <2>2 DEF CallsInv
<1>3. ASSUME ~StartRebuild PROVE ~run.raced
  <2>1. CASE Commit
    BY <1>0, <2>1 DEF Commit, RunType
  <2>2. CASE StartDirectory \/ StartFile \/ StartResume \/ StartSync
    BY <2>2 DEF StartDirectory, StartFile, StartResume, StartSync, Begin, NoRun
  <2>3. CASE ClearFile \/ Scan \/ AnalyzeChunk \/ InsertNode \/ InsertEdges \/ InsertCalls
             \/ MaterializeInheritance \/ MaterializeCha \/ SwallowEnrichment \/ Stop
    BY <1>0, <2>3 DEF ClearFile, Scan, AnalyzeChunk, InsertNode, InsertEdges, InsertCalls,
         MaterializeInheritance, MaterializeCha, SwallowEnrichment, Stop, NoRun, RunType, edges
  <2> QED BY <1>3, <2>1, <2>2, <2>3 DEF Next, vars
<1> DEFINE Named == /\ \A p \in calls \ (virtual \cup guessed) :
                        nodes[p[1]]["method"] # Absent /\ p[2] \in Calling(nodes[p[1]]["method"])
                    /\ \A p \in guessed :
                        nodes[p[1]]["method"] # Absent /\ nodes[p[1]]["method"].statics # {}
           Cleared == run.phase \in {"clear", "analyze", "insert"} =>
              \A p \in calls : p[1] \in run.clear \/ (p[1] \notin Ahead /\ run.read[p[1]] = Absent)
           Taken == Running => \A f \in Files :
              /\ run.read[f] # Absent => run.phase = "insert" /\ f \notin Ahead
                                         /\ run.read[f] = Disk[f] /\ run.index[f] = Disk[f]
              /\ run.index[f] # Absent =>
                    /\ run.phase \in {"analyze", "insert"} /\ f \notin Ahead
                    /\ run.index[f] = Disk[f]
                    /\ <<f, "method">> \in run.pending \/ nodes[f]["method"] = run.index[f]
<1>4. ASSUME ~StartRebuild PROVE Named /\ Cleared /\ Taken
  BY <1>1, <1>3, <1>4 DEF CallsInv
<1> SUFFICES ASSUME ~StartRebuild PROVE Named' /\ Cleared' /\ Taken'
  BY <1>2 DEF CallsInv
<1>5. Named /\ Cleared /\ Taken
  BY <1>4
<1>6. CASE Commit
  <2>1. ~Running /\ run'.phase = run.phase
    BY <1>0, <1>6 DEF Commit, RunType
  <2> QED BY <1>5, <1>6, <2>1 DEF Commit, graph, Running, edges
<1>7. CASE StartDirectory \/ StartFile \/ StartResume \/ StartSync
  <2>1. /\ run'.phase = "clear" /\ run'.read = Empty /\ run'.index = Empty
        /\ UNCHANGED <<history, nodes, calls, virtual, guessed>>
    BY <1>7, StartsAreClean
  <2>2. Disk' = Disk
    BY <2>1 DEF Disk
  <2>3. Ahead' \subseteq run'.clear
    <3>1. CASE StartDirectory
      <4>1. run'.kind = "directory" /\ run'.clear = Present(Disk)
        BY <3>1 DEF StartDirectory, Begin, NoRun
      <4> QED BY <2>1, <2>2, <4>1 DEF Ahead, Present
    <3>2. CASE StartFile
      <4>1. run'.kind = "file" /\ run'.todo = {}
        BY <3>2 DEF StartFile, Begin, NoRun
      <4> QED BY <4>1 DEF Ahead
    <3>3. CASE StartResume
      <4>1. run'.kind = "resume" /\ run'.todo = run'.clear
        BY <3>3 DEF StartResume, Begin, NoRun
      <4> QED BY <4>1 DEF Ahead
    <3>4. CASE StartSync
      <4>1. run'.kind = "sync" /\ run'.todo \subseteq run'.clear
        BY <3>4 DEF StartSync, Begin, NoRun
      <4> QED BY <4>1 DEF Ahead
    <3> QED BY <1>7, <3>1, <3>2, <3>3, <3>4
  <2>4. \A f \in Files : Empty[f] = Absent
    BY DEF Empty
  <2> QED BY <1>0, <1>5, <2>1, <2>3, <2>4
<1>8. CASE ClearFile
  <2>1. PICK f \in run.clear : /\ nodes' = [nodes EXCEPT ![f] = NoNodes]
                               /\ run' = [run EXCEPT !.clear = @ \ {f}]
                               /\ calls' = Without(f, calls) /\ virtual' = Without(f, virtual)
                               /\ guessed' = Without(f, guessed)
    BY <1>8 DEF ClearFile
  <2>2. /\ run.phase = "clear" /\ run'.phase = "clear" /\ run'.read = run.read
        /\ run'.index = run.index /\ run'.clear = run.clear \ {f} /\ Running
        /\ run'.kind = run.kind /\ run'.todo = run.todo /\ history' = history
    BY <1>0, <1>8, <2>1 DEF ClearFile, RunType, Running
  <2>3. Ahead' = Ahead /\ Disk' = Disk
    BY <2>2 DEF Ahead, Present, Disk
  <2>4. \A p \in calls' : p \in calls /\ p[1] # f
    BY <2>1 DEF Without
  <2>5. /\ \A p \in calls' \ (virtual' \cup guessed') : p \in calls \ (virtual \cup guessed)
        /\ \A p \in guessed' : p \in guessed
        /\ \A p \in calls' : p[1] \in Files /\ p[1] # f /\ nodes'[p[1]] = nodes[p[1]]
        /\ guessed' \subseteq calls'
    BY <1>0, <2>1 DEF Without
  <2>6. Named'
    BY <1>5, <2>5
  <2>7. Cleared'
    BY <1>5, <2>2, <2>3, <2>4
  <2>8. Taken'
    BY <1>5, <2>2, <2>3
  <2> QED BY <2>6, <2>7, <2>8
<1>9. CASE Scan
  <2>1. /\ run.phase = "clear" /\ run.clear = {} /\ run'.clear = {}
        /\ run'.read = run.read /\ run'.index = run.index
        /\ UNCHANGED <<history, nodes, calls, virtual, guessed>>
    BY <1>0, <1>9 DEF Scan, RunType, graph, edges
  <2>2. Disk' = Disk /\ Running
    BY <2>1 DEF Disk, Running
  <2>3. run'.phase = "done" \/ Ahead' \subseteq Ahead
    BY <1>0, <1>9, <2>1, <2>2 DEF Scan, Ahead, RunType, Kinds
  <2>4. Taken'
    BY <1>5, <2>1, <2>2
  <2>5. Cleared'
    BY <1>5, <2>1, <2>3
  <2> QED BY <1>5, <2>1, <2>4, <2>5
<1>10. CASE AnalyzeChunk
  <2> DEFINE text == [f \in Files |-> IF f \in Chunk THEN Disk[f] ELSE Absent]
             new == {q \in Files \X Parts : NodesOf(text[q[1]])[q[2]] # Absent}
             index == [f \in Files |-> IF f \in Chunk THEN text[f] ELSE run.index[f]]
  <2>1. run' = [run EXCEPT !.phase = "insert", !.todo = @ \ Chunk, !.read = text,
                           !.pending = new, !.index = index]
    BY <1>10 DEF AnalyzeChunk
  <2>2. /\ run.phase = "analyze" /\ Running
        /\ UNCHANGED <<history, nodes, calls, virtual, guessed>>
        /\ Chunk \subseteq Present(Disk) /\ Chunk \subseteq run.todo /\ run.todo \subseteq Files
    BY <1>0, <1>10 DEF AnalyzeChunk, Chunk, Running, graph, RunType, edges
  <2>3. \A f \in Chunk : Disk[f] # Absent /\ Disk[f].method /\ <<f, "method">> \in new
    <3> SUFFICES ASSUME NEW f \in Chunk
                 PROVE  Disk[f] # Absent /\ Disk[f].method /\ <<f, "method">> \in new
      OBVIOUS
    <3>1. f \in Files /\ Disk[f] # Absent
      BY <2>2 DEF Present
    <3>2. Disk[f].method
      BY <1>0, <1>1, <3>1, DiskMethods
    <3>3. NodesOf(text[f])["method"] = Disk[f]
      BY <3>1, <3>2 DEF NodesOf, Parts
    <3> QED BY <3>1, <3>2, <3>3 DEF Parts
  <2>4. \A f \in Files : /\ text[f] = IF f \in Chunk THEN Disk[f] ELSE Absent
                         /\ index[f] = IF f \in Chunk THEN Disk[f] ELSE run.index[f]
    OBVIOUS
  <2> HIDE DEF text, new, index
  <2>5. /\ run'.phase = "insert" /\ run'.todo = run.todo \ Chunk /\ run'.read = text
        /\ run'.pending = new /\ run'.index = index /\ run'.clear = run.clear
    BY <1>0, <2>1 DEF RunType
  <2>6. Disk' = Disk /\ Ahead = run.todo /\ Ahead' = run.todo \ Chunk /\ run.pending = {}
        /\ run.clear = {}
    BY <2>2, <2>5 DEF Disk, Ahead, StageInv
  <2>7. Cleared'
    BY <1>0, <1>5, <2>2, <2>4, <2>5, <2>6
  <2>8. Taken'
    BY <1>5, <2>2, <2>3, <2>4, <2>5, <2>6, ZenonT(40)
  <2> QED BY <1>5, <2>2, <2>7, <2>8
<1>11. CASE InsertNode
  <2>1. PICK q \in run.pending : /\ nodes' = [nodes EXCEPT ![q[1]][q[2]] = run.read[q[1]]]
                                 /\ run' = [run EXCEPT !.pending = @ \ {q}]
    BY <1>11 DEF InsertNode, edges
  <2>2. /\ run.phase = "insert" /\ run'.phase = "insert" /\ run'.todo = run.todo
        /\ run'.read = run.read /\ run'.index = run.index /\ run'.pending = run.pending \ {q}
        /\ run'.clear = run.clear /\ run'.kind = run.kind /\ Running
        /\ UNCHANGED <<history, calls, virtual, guessed>>
    BY <1>0, <1>11, <2>1 DEF InsertNode, RunType, Running, edges
  <2>3. /\ Disk' = Disk /\ Ahead' = Ahead /\ run.clear = {}
        /\ q[1] \in Files /\ q[2] \in Parts /\ q = <<q[1], q[2]>> /\ run.read[q[1]] # Absent
    BY <1>0, <2>1, <2>2 DEF Disk, Ahead, StageInv, Inv, PendingInv, RunType
  <2>4. \A f \in Files : nodes'[f]["method"] =
            IF q = <<f, "method">> THEN run.read[f] ELSE nodes[f]["method"]
    BY <1>0, <2>1, <2>3 DEF Node, Parts
  <2>5. \A p \in calls \cup guessed : p[1] # q[1] /\ p[1] \in Files
    BY <1>0, <1>5, <2>2, <2>3
  <2>6. Named'
    BY <1>5, <2>2, <2>3, <2>4, <2>5
  <2>7. Cleared'
    BY <1>5, <2>2, <2>3
  <2>8. Taken'
    <3> SUFFICES ASSUME NEW f \in Files, run.index[f] # Absent
                 PROVE  <<f, "method">> \in run'.pending \/ nodes'[f]["method"] = run.index[f]
      BY <1>5, <2>2, <2>3
    <3>1. CASE q = <<f, "method">>
      <4>1. f = q[1]
        BY <3>1
      <4>2. run.read[f] = run.index[f]
        BY <1>5, <2>2, <2>3, <4>1
      <4> QED BY <2>4, <3>1, <4>2
    <3>2. CASE q # <<f, "method">>
      BY <1>5, <2>2, <2>4, <3>2
    <3> QED BY <3>1, <3>2
  <2> QED BY <2>6, <2>7, <2>8
<1>12. CASE InsertEdges
  <2>1. /\ run.phase = "insert" /\ run'.phase = "analyze" /\ run'.todo = run.todo
        /\ run'.read = Empty /\ run'.index = run.index /\ run'.pending = run.pending
        /\ run'.clear = run.clear /\ Running /\ UNCHANGED <<history, nodes, calls, virtual, guessed>>
    BY <1>0, <1>12 DEF InsertEdges, RunType, Running, edges
  <2>2. Disk' = Disk /\ Ahead' = Ahead /\ \A f \in Files : Empty[f] = Absent
    BY <2>1 DEF Disk, Ahead, Empty
  <2> QED BY <1>0, <1>5, <2>1, <2>2
<1>13. CASE InsertCalls
  <2>1. /\ run.phase = "analyze" /\ run'.phase = "inherit" /\ run'.index = Empty
        /\ run'.read = run.read /\ Running /\ run.pending = {}
        /\ calls' = calls \cup CallPairs(run.index) /\ UNCHANGED <<history, nodes, virtual>>
        /\ guessed' \subseteq guessed \cup NamedPairs(run.index)
        /\ \A p \in NamedPairs(run.index) : p \in TypedPairs(run.index) \/ p \in guessed'
        /\ \A p \in guessed : p \in TypedPairs(run.index) \/ p \in guessed'
    BY <1>0, <1>13 DEF InsertCalls, RunType, Running, StageInv
  <2>2. run.index \in Tree /\ \A f \in Files : run.index[f] # Absent =>
            run.index[f].method /\ nodes[f]["method"] = run.index[f]
    <3> SUFFICES ASSUME NEW f \in Files, run.index[f] # Absent
                 PROVE  run.index[f].method /\ nodes[f]["method"] = run.index[f]
      BY <1>0 DEF RunType
    <3>1. run.index[f] = Disk[f] /\ nodes[f]["method"] = run.index[f]
      BY <1>5, <2>1
    <3> QED BY <1>0, <1>1, <3>1, DiskMethods
  <2>3. \A p \in TypedPairs(run.index) :
            nodes[p[1]]["method"] # Absent /\ p[2] \in Calling(nodes[p[1]]["method"])
    <3> SUFFICES ASSUME NEW p \in TypedPairs(run.index)
                 PROVE  nodes[p[1]]["method"] # Absent /\ p[2] \in Calling(nodes[p[1]]["method"])
      OBVIOUS
    <3>1. p[1] \in Files /\ run.index[p[1]] # Absent
      BY DEF TypedPairs
    <3>2. PICK c \in Calling(run.index[p[1]]) \ {Absent} : p[2] \in Reached(run.index, c)
      BY DEF TypedPairs, Calling
    <3>3. c \in Files
      <4>1. run.index[p[1]] \in Text
        BY <1>0, <3>1 DEF RunType, Tree
      <4> QED BY <3>2, <4>1 DEF Text, Calling
    <3>4. p[2] = c
      BY <2>2, <3>2, <3>3, ReachedIsItself
    <3> QED BY <2>2, <3>1, <3>2, <3>4
  <2>4. \A p \in NamedPairs(run.index) :
            nodes[p[1]]["method"] # Absent /\ nodes[p[1]]["method"].statics # {}
    BY <2>2 DEF NamedPairs
  <2>6. Named'
    <3>1. \A p \in calls' \ (virtual' \cup guessed') :
              p \in calls \ (virtual \cup guessed) \/ p \in TypedPairs(run.index)
      BY <2>1 DEF CallPairs
    <3> QED BY <1>5, <2>1, <2>3, <2>4, <3>1
  <2>5. \A f \in Files : run'.read[f] = Absent /\ run'.index[f] = Absent
    BY <1>5, <2>1 DEF Empty
  <2> QED BY <2>1, <2>5, <2>6
<1>14. CASE MaterializeInheritance \/ MaterializeCha \/ SwallowEnrichment
  <2>1. /\ run.phase \in {"inherit", "cha"} /\ run'.phase \in {"cha", "done"}
        /\ run'.read = run.read /\ run'.index = run.index /\ Running
        /\ UNCHANGED <<history, nodes>> /\ guessed' \subseteq guessed
        /\ calls' \ (virtual' \cup guessed') \subseteq calls \ (virtual \cup guessed)
    BY <1>0, <1>14 DEF MaterializeInheritance, MaterializeCha, SwallowEnrichment, RunType,
         Running, graph, edges
  <2> QED BY <1>5, <2>1
<1>15. CASE Stop
  <2>1. run'.phase = "failed" /\ UNCHANGED <<nodes, calls, virtual, guessed>>
    BY <1>15 DEF Stop, NoRun, graph, edges
  <2> QED BY <1>5, <2>1 DEF Running
<1>16. CASE UNCHANGED vars
  BY <1>5, <1>16 DEF vars, Running, Ahead, Present, Disk
<1> QED BY <1>6, <1>7, <1>8, <1>9, <1>10, <1>11, <1>12, <1>13, <1>14, <1>15, <1>16 DEF Next

(* A call edge that was neither derived nor guessed by name stays what the *)
(* text of its caller says, and a guessed one stays where such a call is,  *)
(* through syncs, resumes, failures and commits between runs:              *)
(* _build_call_graph_from_index inserts it when both methods are in the    *)
(* graph, and clear_files_batch takes it away with the text it was for.    *)
THEOREM ResolvedCallsStayTrue == Spec => []ResolvedCallsAreTrue
<1>1. Init => CallsInv
  <2>1. ASSUME Init PROVE calls = {} /\ guessed = {} /\ run.phase = "done"
    BY <2>1 DEF Init, NoRun
  <2> QED BY <2>1 DEF CallsInv, Running
<1>2. Inv /\ StageInv /\ CallsInv /\ [Next]_vars => CallsInv'
  BY CallsStep
<1>3. Inv /\ CallsInv => ResolvedCallsAreTrue
  <2> SUFFICES ASSUME Inv, CallsInv, NodesAreCurrent, ~run.raced, AllMethods
               PROVE  /\ \A p \in calls \ (virtual \cup guessed) : p[2] \in Calling(Disk[p[1]])
                      /\ \A p \in guessed : Disk[p[1]].statics # {}
    BY DEF ResolvedCallsAreTrue, AllMethods, Calling
  <2>1. \A f \in Files : nodes[f]["method"] \in {Absent, Disk[f]}
    <3> SUFFICES ASSUME NEW f \in Files PROVE nodes[f]["method"] \in {Absent, Disk[f]}
      OBVIOUS
    <3>1. nodes[f] = NodesOf(Disk[f])
      BY DEF NodesAreCurrent, Shown
    <3> QED BY <3>1 DEF NodesOf, Parts
  <2>2. \A p \in calls : p[1] \in Files
    BY DEF Inv, TypeOK
  <2>3. guessed \subseteq calls
    BY DEF Inv, TypeOK
  <2>4. \A p \in calls \ (virtual \cup guessed) : p[2] \in Calling(Disk[p[1]])
    BY <2>1, <2>2 DEF CallsInv
  <2>5. \A p \in guessed : Disk[p[1]].statics # {}
    BY <2>1, <2>2, <2>3 DEF CallsInv
  <2> QED BY <2>4, <2>5
<1> QED BY <1>1, <1>2, <1>3, WorkInvariance, PTL DEF Spec
=============================================================================
