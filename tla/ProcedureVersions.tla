------------------------- MODULE ProcedureVersions -------------------------
(***************************************************************************)
(* The versions of procedures in the graph (memory/procedural).  A batch   *)
(* of candidates is processed concurrently: each recalls similar           *)
(* procedures, lets an LLM decide what to do with them, compiles and       *)
(* builds a procedure; a new version deprecates the one it replaces in the *)
(* graph at once.  What was built is written when all are done, through    *)
(* extract_graph, for which the first node with an id wins.  What the      *)
(* models say (similar, merged, which signature) is any choice, and the    *)
(* text of procedures is left out.                                         *)
(***************************************************************************)
EXTENDS Integers, Sequences

CONSTANTS Signatures,   \* signatures a draft may have
          Batches,      \* write_procedural_memories calls under way at a time
          Width,        \* candidates of a batch
          MaxBatches    \* bound: batches of a behaviour

ASSUME VersionsAssumption == Width \in Nat \ {0} /\ MaxBatches \in Nat

\* An id is a signature with or without the suffix of version 2: recall
\* reports version 1 of whatever it finds, so no other suffix is ever made.
Id == [sig : Signatures, version : {1, 2}]

RecalledVersion(id) == 1

\* An optional value is a set of one element at most.
Option(S) == {{}} \cup {{x} : x \in S}

\* What build_procedure_node returns: the procedure, and the one in its
\* supersedes list if it is a new version.
Built == [new : Id, old : Option(Id)]

Candidate ==
    [at : {"routed"}] \cup
    [at : {"compiling"}, action : {"create_new", "patch", "new_version"}, match : Option(Id)] \cup
    [at : {"over"}, built : Option(Built)]

VARIABLES status,      \* status[id] of a procedure in the graph
          supersedes,  \* supersedes edges of the graph, <<new, old>>
          batch,       \* batch[b]: its candidates, <<>> when it is not under way
          begun,       \* batches begun (bound)
          orphaned     \* deprecated for a version that was never written (for properties)

versionVars == <<status, supersedes, batch, begun, orphaned>>

VersionsTypeOK ==
    /\ status \in [Id -> {"absent", "active", "deprecated"}]
    /\ supersedes \subseteq Id \X Id
    /\ batch \in [Batches -> {<<>>} \cup [1 .. Width -> Candidate]]
    /\ begun \in 0 .. MaxBatches
    /\ orphaned \subseteq Id

VersionsInit ==
    /\ status = [id \in Id |-> "absent"]
    /\ supersedes = {}
    /\ batch = [b \in Batches |-> <<>>]
    /\ begun = 0
    /\ orphaned = {}

-----------------------------------------------------------------------------

\* The router answers; the candidates are compiled concurrently.
Route(b) ==
    /\ batch[b] = <<>>
    /\ begun < MaxBatches
    /\ begun' = begun + 1
    /\ batch' = [batch EXCEPT ![b] = [k \in 1 .. Width |-> [at |-> "routed"]]]
    /\ UNCHANGED <<status, supersedes, orphaned>>

Becomes(b, k, candidate) == batch' = [batch EXCEPT ![b][k] = candidate]

\* Recall finds active procedures only, and the decision may name any of
\* them.  A candidate that is skipped is done, as is one whose confidence is
\* too low or whose compilation will fail; one whose processing raises falls
\* back and goes on as if it had decided to create.
Decide(b, k) ==
    /\ batch[b] # <<>> /\ batch[b][k].at = "routed"
    /\ \/ Becomes(b, k, [at |-> "over", built |-> {}])
       \/ Becomes(b, k, [at |-> "compiling", action |-> "create_new", match |-> {}])
       \/ \E action \in {"patch", "new_version"}, id \in Id :
            /\ status[id] = "active"
            /\ Becomes(b, k, [at |-> "compiling", action |-> action, match |-> {id}])
    /\ UNCHANGED <<status, supersedes, begun, orphaned>>

Done(b, k, new, old) ==
    Becomes(b, k, [at |-> "over", built |-> {[new |-> new, old |-> old]}])

Compiling(b, k, action) ==
    batch[b] # <<>> /\ batch[b][k].at = "compiling" /\ batch[b][k].action = action

WriteCreateNew(b, k) ==
    /\ Compiling(b, k, "create_new")
    /\ \E s \in Signatures : Done(b, k, [sig |-> s, version |-> 1], {})
    /\ UNCHANGED <<status, supersedes, begun, orphaned>>

\* The draft takes the signature of the match, and its id has no suffix.
WritePatch(b, k) ==
    /\ Compiling(b, k, "patch")
    /\ \E id \in batch[b][k].match : Done(b, k, [sig |-> id.sig, version |-> 1], {})
    /\ UNCHANGED <<status, supersedes, begun, orphaned>>

\* The match is deprecated now, unless the graph fails, which is swallowed;
\* node and supersedes edge of the new version are written with the batch.
WriteNewVersion(b, k) ==
    /\ Compiling(b, k, "new_version")
    /\ \E old \in batch[b][k].match :
       /\ \E s \in Signatures :
            Done(b, k, [sig |-> s, version |-> RecalledVersion(old) + 1], {old})
       /\ \/ status' = [status EXCEPT ![old] = "deprecated"]
          \/ UNCHANGED status
    /\ UNCHANGED <<supersedes, begun, orphaned>>

-----------------------------------------------------------------------------

\* What a candidate has built so far.
Result(candidate) == IF candidate.at = "over" THEN candidate.built ELSE {}

\* The procedures that the candidates of a batch have deprecated.
Replaced(b) == UNION {r.old : r \in UNION {Result(batch[b][k]) : k \in DOMAIN batch[b]}}

\* Functions put together: where both have a value that of f counts.
Over(f, g) ==
    [id \in DOMAIN f \cup DOMAIN g |-> IF id \in DOMAIN f THEN f[id] ELSE g[id]]

Fresh(graph, candidate) == {r \in Result(candidate) : r.new \notin DOMAIN graph.nodes}
Edges(fresh) == UNION {{<<r.new, id>> : id \in r.old} : r \in fresh}

\* Mutant of ExtractGraph: what a procedure supersedes is visited before it.
ExtractGraphInsideOut(graph, candidate) ==
    LET fresh == Fresh(graph, candidate)
    IN [nodes |-> Over(Over(graph.nodes, [id \in UNION {r.old : r \in fresh} |-> "deprecated"]),
                       [id \in {r.new : r \in fresh} |-> "active"]),
        edges |-> graph.edges \cup Edges(fresh)]

\* extract_graph on the result of a candidate: nothing if its id is there
\* already, else the procedure as active, and the one it supersedes, if that
\* is not there, as deprecated.
ExtractGraph(graph, candidate) ==
    LET fresh == Fresh(graph, candidate)
    IN [nodes |-> Over(Over(graph.nodes, [id \in {r.new : r \in fresh} |-> "active"]),
                       [id \in UNION {r.old : r \in fresh} |-> "deprecated"]),
        edges |-> graph.edges \cup Edges(fresh)]

\* The graph of the first k candidates, of all of them.
Extracted(b) ==
    LET graph[k \in 0 .. Width] ==
            IF k = 0 THEN [nodes |-> [id \in {} |-> "active"], edges |-> {}]
            ELSE ExtractGraph(graph[k-1], batch[b][k])
    IN  graph[Width]

\* persist_memory_nodes, after the last candidate: add_nodes writes all nodes
\* in one query, then add_edges all edges; the graph may fail before each.
Persist(b) ==
    /\ batch[b] # <<>> /\ \A k \in 1 .. Width : batch[b][k].at = "over"
    /\ LET graph == Extracted(b)
           written == DOMAIN graph.nodes
       IN /\ status' = Over(graph.nodes, status)
          /\ \/ /\ supersedes' = supersedes \cup graph.edges
                /\ orphaned' = (orphaned \cup Replaced(b)) \ written
             \/ /\ UNCHANGED supersedes
                /\ orphaned' = orphaned \cup Replaced(b)
    /\ batch' = [batch EXCEPT ![b] = <<>>]
    /\ UNCHANGED begun

\* The process dies, or the nodes cannot be written: what was built is gone.
Abandon(b) ==
    /\ batch[b] # <<>>
    /\ orphaned' = orphaned \cup Replaced(b)
    /\ batch' = [batch EXCEPT ![b] = <<>>]
    /\ UNCHANGED <<status, supersedes, begun>>

VersionsNext ==
    \E b \in Batches :
        \/ Route(b) \/ Persist(b) \/ Abandon(b)
        \/ \E k \in 1 .. Width :
              Decide(b, k) \/ WriteCreateNew(b, k) \/ WritePatch(b, k) \/ WriteNewVersion(b, k)

VersionsSpec == VersionsInit /\ [][VersionsNext]_versionVars

-----------------------------------------------------------------------------

\* Deprecated by a batch whose new version is still to be written.
Awaiting == UNION {Replaced(b) : b \in Batches}

(* No knowledge is hidden for good: from every deprecated procedure the    *)
(* supersedes edges lead to an active one, or to one whose new version is  *)
(* about to be written or was lost with its batch (write.py:184-227,       *)
(* extract_graph, persist_memory_nodes).  That is, every set of deprecated *)
(* procedures without such an excuse is superseded from outside.           *)
DeprecatedHasSuccessor ==
    \A S \in SUBSET {id \in Id : status[id] = "deprecated" /\ id \notin orphaned \cup Awaiting} :
        S # {} => \E e \in supersedes : e[2] \in S /\ e[1] \notin S
=============================================================================
