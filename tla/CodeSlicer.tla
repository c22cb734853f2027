----------------------------- MODULE CodeSlicer -----------------------------
(***************************************************************************)
(* The slicer of OmniCPG (omnicpg/slicer/code_slicer.py): it walks the     *)
(* code property graph from one node and returns the part around it that   *)
(* fits into max_nodes.  A slice follows the edges of the asked types in   *)
(* one direction with a first-in first-out queue; a neighbourhood follows  *)
(* them in both directions, hop by hop, over Python sets, so the order of  *)
(* the nodes of a hop is not determined.                                   *)
(*                                                                         *)
(* The graph and the request are chosen once, in Init; the steps are those *)
(* of the loops.                                                           *)
(***************************************************************************)
EXTENDS Integers, Sequences, FiniteSets

CONSTANTS
    Node,       \* the ids the edges mention
    EdgeType,   \* the types of edges
    Graphs,     \* the lists of edges a slicer is built with
    Requests,   \* the arguments of the calls
    Nobody      \* no node is being expanded

Edge == [src : Node, dst : Node, type : EdgeType]

Request == [direction : {"forward", "backward", "both"}, start : Node,
            types : SUBSET EdgeType, max_nodes : Nat, max_hops : Nat]

ASSUME SlicerAssumption ==
    /\ Graphs \subseteq Seq(Edge)
    /\ Requests \subseteq Request
    /\ Nobody \notin Node

VARIABLES
    graph,      \* the edges, in the order of the list
    request,    \* the arguments of the call
    visited,    \* visited, visited_ids
    collected,  \* collected_edges; what is collected twice is returned once
    queue,      \* queue, of a slice
    frontier,   \* frontier, of a neighbourhood
    onward,     \* next_frontier
    hop,        \* the hops completed
    current,    \* the node whose edges are looked at
    at          \* the position in the list of edges

sliceVars == <<graph, request, visited, collected, queue, frontier, onward, hop,
               current, at>>

-----------------------------------------------------------------------------
(* What an edge leads to when it is read at node n.                        *)

Leaves(e, n) == request.direction # "backward" /\ e.src = n
Enters(e, n) == request.direction # "forward" /\ e.dst = n

Followed(e, n) == e.type \in request.types /\ (Leaves(e, n) \/ Enters(e, n))

Ends(e, n) == {m \in Node : \/ Leaves(e, n) /\ m = e.dst
                            \/ Enters(e, n) /\ m = e.src}

Room == Cardinality(visited) < request.max_nodes

IsSlice == request.direction # "both"

SliceInit ==
    /\ graph \in Graphs
    /\ request \in Requests
    /\ visited = {}
    /\ collected = {}
    /\ queue = <<request.start>>
    /\ frontier = {request.start}
    /\ onward = {}
    /\ hop = 0
    /\ current = Nobody
    /\ at = 1

(* Makes n the node whose edges are looked at next.                        *)
Enter(n) ==
    /\ visited' = visited \cup {n}
    /\ current' = n
    /\ at' = 1

-----------------------------------------------------------------------------
(* As Pop, but takes the newest id.                                        *)
PopNewest ==
    /\ IsSlice /\ current = Nobody
    /\ queue # <<>> /\ Room
    /\ queue' = SubSeq(queue, 1, Len(queue) - 1)
    /\ IF queue[Len(queue)] \in visited
       THEN UNCHANGED <<visited, current, at>>
       ELSE Enter(queue[Len(queue)])
    /\ UNCHANGED <<graph, request, collected, frontier, onward, hop>>

(* _traverse: takes the oldest id of the queue; an id met twice is skipped. *)
Pop ==
    /\ IsSlice /\ current = Nobody
    /\ queue # <<>> /\ Room
    /\ queue' = Tail(queue)
    /\ IF Head(queue) \in visited
       THEN UNCHANGED <<visited, current, at>>
       ELSE Enter(Head(queue))
    /\ UNCHANGED <<graph, request, collected, frontier, onward, hop>>

(* neighbourhood: takes one node of the hop that is not visited yet.       *)
Take(n) ==
    /\ ~ IsSlice /\ current = Nobody
    /\ hop < request.max_hops /\ Room
    /\ n \in frontier \ visited
    /\ Enter(n)
    /\ UNCHANGED <<graph, request, collected, queue, frontier, onward, hop>>

(* As Look, but keeps an edge only when it leads to a new node.            *)
LookForNew ==
    /\ current # Nobody
    /\ at <= Len(graph)
    /\ LET e == graph[at]
           new == Ends(e, current) \ visited IN
         IF Followed(e, current) /\ new # {}
         THEN /\ collected' = collected \cup {e}
              /\ queue' = IF IsSlice THEN Append(queue, CHOOSE m \in new : TRUE) ELSE queue
              /\ onward' = IF IsSlice THEN onward ELSE onward \cup new
         ELSE UNCHANGED <<collected, queue, onward>>
    /\ at' = at + 1
    /\ UNCHANGED <<graph, request, visited, frontier, hop, current>>

(* Looks at one edge of the list: an edge of another node or of a type     *)
(* that is not asked for is passed over.                                   *)
Look ==
    /\ current # Nobody
    /\ at <= Len(graph)
    /\ LET e == graph[at] IN
         IF Followed(e, current)
         THEN /\ collected' = collected \cup {e}
              /\ queue' = IF IsSlice /\ Ends(e, current) \ visited # {}
                          THEN Append(queue, CHOOSE m \in Ends(e, current) : TRUE)
                          ELSE queue
              /\ onward' = IF IsSlice THEN onward
                           ELSE onward \cup (Ends(e, current) \ visited)
         ELSE UNCHANGED <<collected, queue, onward>>
    /\ at' = at + 1
    /\ UNCHANGED <<graph, request, visited, frontier, hop, current>>

(* The edges of the node are all looked at.                                *)
Leave ==
    /\ current # Nobody
    /\ at > Len(graph)
    /\ current' = Nobody
    /\ at' = 1
    /\ UNCHANGED <<graph, request, visited, collected, queue, frontier,
                   onward, hop>>

(* neighbourhood: the hop is over; a full budget keeps the frontier.       *)
NextHop ==
    /\ ~ IsSlice /\ current = Nobody
    /\ hop < request.max_hops
    /\ ~ Room \/ frontier \subseteq visited
    /\ IF Room
       THEN hop' = hop + 1 /\ frontier' = onward
       ELSE hop' = request.max_hops /\ UNCHANGED frontier
    /\ onward' = {}
    /\ UNCHANGED <<graph, request, visited, collected, queue, current, at>>

(* neighbourhood: after the last hop its frontier joins, unexpanded.       *)
AddRest(n) ==
    /\ ~ IsSlice /\ current = Nobody
    /\ hop >= request.max_hops /\ Room
    /\ n \in frontier \ visited
    /\ visited' = visited \cup {n}
    /\ UNCHANGED <<graph, request, collected, queue, frontier, onward, hop,
                   current, at>>

SliceNext ==
    \/ Pop
    \/ \E n \in Node : Take(n)
    \/ Look
    \/ Leave
    \/ NextHop
    \/ \E n \in Node : AddRest(n)

SliceSpec == SliceInit /\ [][SliceNext]_sliceVars

-----------------------------------------------------------------------------
(* The moments at which the calls return.                                  *)

SliceReturns == IsSlice /\ current = Nobody /\ (queue = <<>> \/ ~ Room)

BallReturns ==
    /\ ~ IsSlice /\ current = Nobody
    /\ hop >= request.max_hops
    /\ ~ Room \/ frontier \subseteq visited

-----------------------------------------------------------------------------
(* Reference definitions, over the graph and the request alone.            *)

GraphEdges == {graph[i] : i \in DOMAIN graph}

Beside(n) == UNION {Ends(e, n) : e \in {d \in GraphEdges : Followed(d, n)}}

Closed(c) == \A n \in c : Beside(n) \subseteq c

(* The nodes at a distance of at most k from the start.                    *)
Within ==
    LET within[k \in Nat] ==
            IF k = 0 THEN {request.start}
            ELSE within[k-1] \cup UNION {Beside(n) : n \in within[k-1]}
    IN  within

-----------------------------------------------------------------------------
(* A slice that stops with room left is the smallest set of nodes that     *)
(* holds the start and everything the asked edges lead to, and it comes    *)
(* with exactly the edges followed from its nodes (_traverse).  A slice    *)
(* cut by the budget still holds nothing that is not in that set.          *)
SliceIsExact ==
    IsSlice =>
        /\ \A c \in SUBSET Node : request.start \in c /\ Closed(c) => visited \subseteq c
        /\ SliceReturns /\ Room => request.start \in visited /\ Closed(visited)
        /\ SliceReturns =>
              collected = {e \in GraphEdges : \E n \in visited : Followed(e, n)}

(* Whatever the budget cuts off is at least as far from the start as all   *)
(* that was kept, for a slice and for a neighbourhood, whatever the order  *)
(* in which the sets of a hop are iterated.  A neighbourhood never reaches *)
(* farther than max_hops; with room left it holds exactly the nodes within *)
(* max_hops and the edges at the nodes nearer than that.                   *)
NearestFirst ==
    /\ SliceReturns \/ BallReturns =>
          \A n \in visited, k \in 0 .. Cardinality(Node) :
              n \notin Within[k] => Within[k] \subseteq visited
    /\ ~ IsSlice => visited \subseteq Within[request.max_hops]
    /\ BallReturns /\ Room =>
          /\ visited = Within[request.max_hops]
          /\ collected = {e \in GraphEdges : request.max_hops > 0 /\
                              \E n \in Within[request.max_hops - 1] : Followed(e, n)}
=============================================================================
