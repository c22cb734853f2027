---------------------------- MODULE CodeAnalysis ----------------------------
(***************************************************************************)
(* The code analysis pipeline of omnicpg (orchestrator/pipeline.py): a run *)
(* removes what the graph knows of some files, reads them again in chunks, *)
(* inserts nodes and edges, resolves calls from an index that holds only   *)
(* the files of this run, and derives inheritance and virtual calls from   *)
(* the whole graph.  Commits happen at any time; a run fails or its        *)
(* process dies between any two writes.                                    *)
(*                                                                         *)
(* A file declares one class, named like the file, at a fixed place, and   *)
(* at most one method, so the deterministic ids of its two nodes do not    *)
(* change with the text.  All methods have one name.  A text says what its *)
(* class extends, of which classes its method calls the method on a        *)
(* receiver with a declared type, and on which class names it calls it.    *)
(* The working tree is HEAD.                                               *)
(***************************************************************************)
EXTENDS Integers, FiniteSets, Sequences

CONSTANTS Files,        \* source files, in the order of their paths
          TextsOf,      \* TextsOf[f]: the texts file f may hold
          Absent,       \* no such file, no such node
          Torn,         \* a file whose nodes do not form one text
          ChunkSize,    \* chunk_size of the run
          MaxTargets,   \* _MAX_HEURISTIC_CALL_TARGETS
          MaxCommits,   \* bound: commits, the first one included
          MaxRuns       \* bound: runs started

\* Absent among the statics stands for receivers whose class is not known: names
\* of library classes, and expressions whose type cannot be inferred.
Text == [extends : Files \cup {Absent}, method : BOOLEAN, calls : SUBSET Files,
         statics : SUBSET (Files \cup {Absent})]

ASSUME CodeAssumption ==
    /\ Files \subseteq Nat /\ IsFiniteSet(Files)
    /\ Absent \notin Files \cup Text
    /\ Torn \notin Text \cup {Absent}
    /\ TextsOf \in [Files -> SUBSET Text]
    /\ ChunkSize \in Nat \ {0} /\ MaxTargets \in Nat /\ MaxCommits \in Nat \ {0} /\ MaxRuns \in Nat

Parts == {"class", "method"}
Kinds == {"rebuild", "directory", "file", "resume", "sync"}

VARIABLES history,      \* the commits, the last one is HEAD
          nodes,        \* nodes[f][part]: the text a node was made from, or Absent
          parents,      \* files with a PARENT_OF edge from class to method
          calls,        \* CALLS edges between the methods of two files
          virtual,      \* the CALLS edges with virtual = true
          guessed,      \* the CALLS edges with resolution = "heuristic"
          inherits,     \* IMPLEMENTS edges between the classes of two files
          run           \* the run of the pipeline, or the last one

edges == <<calls, virtual, guessed, inherits>>
graph == <<nodes, parents, edges>>
vars  == <<history, nodes, parents, calls, virtual, guessed, inherits, run>>

Disk == history[Len(history)]
Present(tree) == {f \in Files : tree[f] # Absent}
Indexed == {f \in Files : \E p \in Parts : nodes[f][p] # Absent}

Empty == [f \in Files |-> Absent]
NoNodes == [p \in Parts |-> Absent]

\* The nodes the plugin makes of a text, by part.
NodesOf(t) == [p \in Parts |-> IF t = Absent \/ (p = "method" /\ ~t.method) THEN Absent ELSE t]

-----------------------------------------------------------------------------
(* Call resolution inside a run: `index` holds the text of every file the  *)
(* run has analysed.  A receiver of an indexed class binds to the nearest  *)
(* declaration up its indexed supertypes.  A call on a receiver with the   *)
(* declared type of another class leaves the analysis and is suppressed; a *)
(* call on the name of another class goes to every indexed method with the *)
(* name of the callee, unless these are too many.                          *)

\* The class whose method a call to g's method reaches, as a singleton or {}.
Reached(index, g) ==
    LET up[n \in 0 .. Cardinality(Files)] ==
            IF n = 0 THEN {g}
            ELSE LET above == {index[h].extends : h \in {x \in up[n-1] : index[x] # Absent
                                                                   /\ ~index[x].method}}
                 IN  {h \in up[n-1] : index[h] # Absent /\ index[h].method} \cup (above \ {Absent})
    IN  {h \in up[Cardinality(Files)] : index[h] # Absent /\ index[h].method}

\* Calls whose receiver has an indexed class: resolution "typed".
TypedPairs(index) ==
    {p \in Files \X Files :
        /\ p[1] # p[2]
        /\ index[p[1]] # Absent /\ index[p[1]].method
        /\ \E c \in (index[p[1]].calls \cup index[p[1]].statics) \ {Absent} :
               index[c] # Absent /\ p[2] \in Reached(index, c)}

\* Calls on a name that is no indexed class: resolution "heuristic".  Above the
\* limit only the methods of the caller's file remain, here the caller itself.
NamedPairs(index) ==
    LET methods == {f \in Files : index[f] # Absent /\ index[f].method}
    IN  {p \in methods \X methods :
            /\ p[1] # p[2]
            /\ Cardinality(methods) <= MaxTargets
            /\ \E c \in index[p[1]].statics : c = Absent \/ index[c] = Absent}

CallPairs(index) == TypedPairs(index) \cup NamedPairs(index)

\* IMPLEMENTS edges from the class nodes of the whole project.
InheritancePairs(ns) ==
    {p \in Files \X Files :
        /\ p[1] # p[2]
        /\ ns[p[1]]["class"] # Absent /\ ns[p[1]]["class"].extends = p[2]
        /\ ns[p[2]]["class"] # Absent}

\* g is reached from f over one or more pairs of rel.
Below(rel, f, g) ==
    LET reach[n \in 1 .. Cardinality(Files)] ==
            IF n = 1 THEN {h \in Files : <<f, h>> \in rel}
            ELSE reach[n-1] \cup {h \in Files : \E k \in reach[n-1] : <<k, h>> \in rel}
    IN  g \in reach[Cardinality(Files)]

\* Overrides a call may reach: the caller and the method of a class below.
\* The method node of g is found over its PARENT_OF edge, and so is that of h.
VirtualPairs(cs, inh, ps) ==
    {p \in Files \X Files :
        p[2] \in ps /\ \E g \in ps : <<p[1], g>> \in cs /\ Below(inh, p[2], g)}

-----------------------------------------------------------------------------
(* A run.  Fields: phase; kind; todo, the files still to analyse; clear,   *)
(* the files whose nodes are still to be deleted; read, the texts of the   *)
(* chunk at hand; pending, its nodes not inserted yet; index, the texts of *)
(* all chunks; number, of this run.  Four more only serve properties:      *)
(* based, whether the nodes outside `clear` were right when the run began; *)
(* moved, whether a commit was made since; lost, whether a failed          *)
(* enrichment was swallowed; raced, whether a commit was ever made while a *)
(* run was under way, since the last rebuild.                              *)

NoRun == [phase |-> "done", kind |-> "resume", todo |-> {}, clear |-> {}, read |-> Empty,
          pending |-> {}, index |-> Empty, number |-> 0, based |-> FALSE,
          moved |-> FALSE, lost |-> FALSE, raced |-> FALSE]

Running == run.phase \notin {"done", "failed"}

Init == /\ \E tree \in [Files -> UNION {TextsOf[f] : f \in Files} \cup {Absent}] :
               /\ \A f \in Files : tree[f] \in TextsOf[f] \cup {Absent}
               /\ history = <<tree>>
        /\ nodes = [f \in Files |-> NoNodes]
        /\ parents = {} /\ calls = {} /\ virtual = {} /\ guessed = {} /\ inherits = {}
        /\ run = NoRun

\* Someone commits a new text of a file, or its removal.
Commit ==
    /\ Len(history) < MaxCommits
    /\ \E f \in Files : \E t \in (TextsOf[f] \cup {Absent}) \ {Disk[f]} :
            history' = Append(history, [Disk EXCEPT ![f] = t])
    /\ run' = [run EXCEPT !.moved = TRUE, !.raced = @ \/ Running]
    /\ UNCHANGED graph

Shown(f, tree) == nodes[f] = NodesOf(tree[f])
NodesAreCurrent == \A f \in Files : Shown(f, Disk)

\* The imported part of the graph is that of the whole working tree, and the
\* derived part follows from it.
Imported == /\ NodesAreCurrent
            /\ parents = {f \in Present(Disk) : Disk[f].method}
            /\ CallPairs(Disk) \subseteq calls
Derived == LET new == VirtualPairs(CallPairs(Disk), inherits, parents) IN
            /\ inherits = InheritancePairs(nodes)
            /\ virtual = new
            /\ calls = CallPairs(Disk) \cup new
Begin(kind, todo, clear) ==
    /\ ~Running
    /\ run.number < MaxRuns
    /\ run' = [NoRun EXCEPT !.phase = "clear", !.kind = kind, !.todo = todo, !.clear = clear,
                            !.number = run.number + 1, !.raced = run.raced,
                            !.based = \A f \in Files \ clear : Shown(f, Disk)]
    /\ UNCHANGED <<history, graph>>

\* clear_db: every relationship goes first, in batches, then every node.
StartRebuild ==
    /\ ~Running
    /\ run.number < MaxRuns
    /\ run' = [NoRun EXCEPT !.phase = "clear", !.kind = "rebuild", !.clear = Indexed,
                            !.number = run.number + 1, !.based = TRUE]
    /\ parents' = {} /\ calls' = {} /\ virtual' = {} /\ guessed' = {} /\ inherits' = {}
    /\ UNCHANGED <<history, nodes>>

\* A directory without clear_db: the files the walk finds are cleared, and
\* the directory is scanned again when the stream starts.
StartDirectory == Begin("directory", {}, Present(Disk))

\* A single file without clear_db: its nodes are cleared, and then the scan
\* refuses a path that is no directory, so that the run can only fail.
StartFile == \E f \in Present(Disk) : Begin("file", {}, {f})

\* resume: a file counts as indexed as soon as one node carries its path.
StartResume == LET todo == Present(Disk) \ Indexed IN Begin("resume", todo, todo)

\* Mutant of StartSync: it clears only the files that are gone.
StartSyncKeepsChanged ==
    \E c \in 1 .. Len(history) :
        LET changed == {f \in Files : history[c][f] # Disk[f]} IN
        /\ changed # {}
        /\ Begin("sync", changed \cap Present(Disk), changed \ Present(Disk))

\* sync_git_changes: the files that differ between a commit and HEAD; the
\* ones that exist are analysed, and deleted ones are only cleared.  No
\* difference starts no run.
StartSync ==
    \E c \in 1 .. Len(history) :
        LET changed == {f \in Files : history[c][f] # Disk[f]} IN
        /\ changed # {}
        /\ Begin("sync", changed \cap Present(Disk), changed)

Without(f, rel) == {p \in rel : p[1] # f /\ p[2] # f}

\* Mutant of ClearFile: only the nodes at the top of the file go.
ClearFileKeepsMembers ==
    /\ run.phase = "clear"
    /\ \E f \in run.clear :
        /\ \A g \in run.clear : f <= g
        /\ nodes' = [nodes EXCEPT ![f]["class"] = Absent]
        /\ parents' = parents \ {f}
        /\ inherits' = Without(f, inherits)
        /\ run' = [run EXCEPT !.clear = @ \ {f}]
    /\ UNCHANGED <<history, calls, virtual, guessed>>

\* One delete transaction: the nodes of one file, and the edges at them.
ClearFile ==
    /\ run.phase = "clear"
    /\ \E f \in run.clear :
        /\ \A g \in run.clear : f <= g
        /\ nodes' = [nodes EXCEPT ![f] = NoNodes]
        /\ parents' = parents \ {f}
        /\ calls' = Without(f, calls)
        /\ virtual' = Without(f, virtual) /\ guessed' = Without(f, guessed)
        /\ inherits' = Without(f, inherits)
        /\ run' = [run EXCEPT !.clear = @ \ {f}]
    /\ UNCHANGED history

\* An explicit list that is empty returns at once; otherwise the stream
\* starts: the scan of the directory, or the listed files that still exist.
Scan ==
    /\ run.phase = "clear"
    /\ run.clear = {}
    /\ run.kind # "file"
    /\ LET listed == run.kind \in {"resume", "sync"} IN
       run' = IF listed /\ run.todo = {} THEN [run EXCEPT !.phase = "done"]
              ELSE [run EXCEPT !.phase = "analyze",
                               !.todo = IF listed THEN @ \cap Present(Disk) ELSE Present(Disk)]
    /\ UNCHANGED <<history, graph>>

\* The files of the next chunk: the first ones in path order.
Chunk == {f \in run.todo : Cardinality({g \in run.todo : g < f}) < ChunkSize}

\* Mutant of AnalyzeChunk: the index forgets the chunks before.
AnalyzeChunkAlone ==
    /\ run.phase = "analyze"
    /\ run.todo # {}
    /\ Chunk \subseteq Present(Disk)
    /\ LET text == [f \in Files |-> IF f \in Chunk THEN Disk[f] ELSE Absent] IN
       run' = [run EXCEPT !.phase = "insert", !.todo = @ \ Chunk, !.read = text, !.index = text,
                          !.pending = {q \in Files \X Parts :
                                            NodesOf(text[q[1]])[q[2]] # Absent}]
    /\ UNCHANGED <<history, graph>>

\* A chunk is read from disk, parsed, and entered in the run's index.  A file
\* that has gone since the scan fails the run (Stop).
AnalyzeChunk ==
    /\ run.phase = "analyze"
    /\ run.todo # {}
    /\ Chunk \subseteq Present(Disk)
    /\ LET text == [f \in Files |-> IF f \in Chunk THEN Disk[f] ELSE Absent] IN
       run' = [run EXCEPT !.phase = "insert", !.todo = @ \ Chunk, !.read = text,
                          !.pending = {q \in Files \X Parts :
                                            NodesOf(text[q[1]])[q[2]] # Absent},
                          !.index = [f \in Files |-> IF f \in Chunk THEN text[f] ELSE @[f]]]
    /\ UNCHANGED <<history, graph>>

\* Files in order, the class before its method.
Before(q, o) == q[1] < o[1] \/ (q[1] = o[1] /\ (q[2] = "class" \/ o[2] = "method"))

\* Mutant of InsertNode: the node is made from the file as it is by then.
InsertNodeReadsAgain ==
    /\ run.phase = "insert"
    /\ \E q \in run.pending :
        /\ \A o \in run.pending : Before(q, o)
        /\ nodes' = [nodes EXCEPT ![q[1]][q[2]] = Disk[q[1]]]
        /\ run' = [run EXCEPT !.pending = @ \ {q}]
    /\ UNCHANGED <<history, parents, edges>>

\* insert_nodes, a batch of one.
InsertNode ==
    /\ run.phase = "insert"
    /\ \E q \in run.pending :
        /\ \A o \in run.pending : Before(q, o)
        /\ nodes' = [nodes EXCEPT ![q[1]][q[2]] = run.read[q[1]]]
        /\ run' = [run EXCEPT !.pending = @ \ {q}]
    /\ UNCHANGED <<history, parents, edges>>

\* insert_edges of the chunk.
InsertEdges ==
    /\ run.phase = "insert"
    /\ run.pending = {}
    /\ parents' = parents \cup {f \in Files : run.read[f] # Absent /\ run.read[f].method}
    /\ run' = [run EXCEPT !.phase = "analyze", !.read = Empty]
    /\ UNCHANGED <<history, nodes, edges>>

\* The last chunk of the stream: calls among the files of this run.  A merge
\* overwrites the resolution of an edge; of two calls from one method to another
\* the first one in the text tells it.
InsertCalls ==
    /\ run.phase = "analyze"
    /\ run.todo = {}
    /\ calls' = calls \cup CallPairs(run.index)
    /\ LET typed == TypedPairs(run.index)
           named == NamedPairs(run.index)
       IN  \E first \in SUBSET (named \cap typed) :
                guessed' = (guessed \ typed) \cup (named \ typed) \cup first
    /\ run' = [run EXCEPT !.phase = "inherit", !.index = Empty]
    /\ UNCHANGED <<history, nodes, parents, virtual, inherits>>

\* materialize_inheritance_edges reads all class nodes and merges edges.
MaterializeInheritance ==
    /\ run.phase = "inherit"
    /\ inherits' = inherits \cup InheritancePairs(nodes)
    /\ run' = [run EXCEPT !.phase = "cha"]
    /\ UNCHANGED <<history, nodes, parents, calls, virtual, guessed>>

\* Mutant of MaterializeCha: a virtual edge that is new is marked, not merged.
MaterializeChaMarks ==
    /\ run.phase = "cha"
    /\ virtual' = virtual \cup VirtualPairs(calls, inherits, parents)
    /\ run' = [run EXCEPT !.phase = "done"]
    /\ UNCHANGED <<history, nodes, parents, calls, guessed, inherits>>

\* materialize_cha_polymorphism_edges: the rows are read once, then merged;
\* a merge onto a resolved call marks that call as virtual.
MaterializeCha ==
    /\ run.phase = "cha"
    /\ LET new == VirtualPairs(calls, inherits, parents) IN
        /\ calls' = calls \cup new
        /\ virtual' = virtual \cup new /\ guessed' = guessed \ new
    /\ run' = [run EXCEPT !.phase = "done"]
    /\ UNCHANGED <<history, nodes, parents, inherits>>

\* An enrichment that raises is logged, and the run reports success: without
\* inheritance nothing after it is tried.
SwallowEnrichment ==
    /\ run.phase \in {"inherit", "cha"}
    /\ run' = [run EXCEPT !.phase = "done", !.lost = TRUE]
    /\ UNCHANGED <<history, graph>>

\* A write or a read raises, or the process dies: what was written stays.
Stop ==
    /\ Running
    /\ run' = [NoRun EXCEPT !.phase = "failed", !.kind = run.kind, !.number = run.number,
                            !.raced = run.raced]
    /\ UNCHANGED <<history, graph>>

Next == \/ Commit \/ StartRebuild \/ StartDirectory \/ StartFile \/ StartResume \/ StartSync
        \/ ClearFile \/ Scan \/ AnalyzeChunk \/ InsertNode \/ InsertEdges
        \/ InsertCalls \/ MaterializeInheritance \/ MaterializeCha
        \/ SwallowEnrichment \/ Stop

Spec == Init /\ [][Next]_vars

-----------------------------------------------------------------------------
(* Type correctness: the state of the graph and of the run (graph nodes by *)
(* file and part, edges by the files they join).                           *)
TypeOK ==
    /\ history \in Seq([Files -> Text \cup {Absent}]) /\ Len(history) \in 1 .. MaxCommits
    /\ nodes \in [Files -> [Parts -> Text \cup {Absent}]]
    /\ parents \subseteq Files
    /\ calls \subseteq Files \X Files /\ virtual \subseteq calls /\ guessed \subseteq calls
    /\ inherits \subseteq Files \X Files
    /\ run \in [phase : {"clear", "analyze", "insert", "inherit", "cha", "done", "failed"},
                kind : Kinds, todo : SUBSET Files, clear : SUBSET Files,
                read : [Files -> Text \cup {Absent}], pending : SUBSET (Files \X Parts),
                index : [Files -> Text \cup {Absent}], number : 0 .. MaxRuns,
                based : BOOLEAN, moved : BOOLEAN, lost : BOOLEAN, raced : BOOLEAN]

Succeeded == run.phase = "done" /\ run.number > 0 /\ ~run.moved

(* A rebuild that ends with no commit in between leaves exactly the graph  *)
(* of the whole working tree, whatever the graph held before and however   *)
(* the files fell into chunks; the derived edges too unless an enrichment  *)
(* was swallowed (pipeline.py:176, 255-307).                               *)
RebuildIsExact ==
    (Succeeded /\ run.kind = "rebuild") => Imported /\ (run.lost \/ Derived)

(* A git sync that ends with no commit in between leaves the nodes of the  *)
(* working tree, ghosts of deleted files included, if the files outside    *)
(* its diff were right when it began: after a failed or killed sync the    *)
(* same sync repairs what the first one left (analysis_tools.py:100-171,   *)
(* pipeline.py:212-238).                                                   *)
SyncMakesNodesCurrent ==
    (Succeeded /\ run.kind = "sync" /\ run.based) => NodesAreCurrent

(* Guesses by name apart, a call never goes stale between classes that     *)
(* declare their own methods: while the nodes show the working tree and no *)
(* commit has raced with a run, an edge that was neither derived nor       *)
(* guessed joins a caller to a class its text names; and a guessed edge    *)
(* starts at a caller whose text still calls the method on the name of a   *)
(* class, or on a receiver of unknown type (_build_call_graph_from_index,  *)
(* and the DETACH DELETE of clear_files_batch).                            *)
ResolvedCallsAreTrue ==
    (NodesAreCurrent /\ ~Running /\ ~run.raced /\
     \A i \in DOMAIN history, f \in Files : history[i][f] # Absent => history[i][f].method)
        => /\ \A p \in calls \ (virtual \cup guessed) :
                 p[2] \in Disk[p[1]].calls \cup Disk[p[1]].statics
           /\ \A p \in guessed : Disk[p[1]].statics # {}

(* The graph read as an index over files: a file whose nodes are those of  *)
(* one text shows that text.                                               *)
View == [f \in Files |->
            IF nodes[f] = NoNodes THEN Absent
            ELSE LET t == nodes[f]["class"] IN
                 IF t # Absent /\ nodes[f] = NodesOf(t) THEN t ELSE Torn]

(* The pipeline keeps the promise of CodeIndex: it shows only texts read   *)
(* from disk by the pass under way, and hides or damages the others.       *)
Promised == INSTANCE CodeIndex WITH Texts <- Text, source <- Disk, read <- run.read, view <- View
ShowsWhatItReads == Promised!Spec
=============================================================================
