-------------------------- MODULE EpisodicBundles --------------------------
(***************************************************************************)
(* What a search of the episodic memory makes of an episode.  The vector   *)
(* search has hit some nodes and some kinds of edges; the cost of an       *)
(* episode is that of its cheapest path to a hit, and the bundle that      *)
(* holds it is rewritten whenever a loop finds a cheaper one               *)
(* (retrieval/episodic/bundle_scorer.py); the edges shown are ranked by    *)
(* other costs (bundle_search.py, output_assembler.py, detail mode).       *)
(* Distances are in thousandths.  Python sets are visited in any order.    *)
(***************************************************************************)
EXTENDS Naturals, FiniteSets, FiniteSetsExt, SequencesExt

CONSTANTS Episode, Facets, Points, Entities,
          Hits,               \* what may be hit: the distance of each node, Far without a hit
          Costs,              \* the graphs: the cost of each edge, Far when there is none
          HopCost,            \* hop_cost
          DirectPenalty,      \* direct_episode_penalty
          MaxFacets,          \* max_facets_per_episode
          MaxEntities,        \* the entities shown, 2 in the code
          Far,                \* no hit, no edge, no path: infinite
          None

Adjacent == Facets \cup Entities
Bottoms == Points \cup Entities
Nodes == {Episode} \cup Adjacent \cup Points
Links == ({Episode} \X Adjacent) \cup (Facets \X Bottoms)

ASSUME BundlesAssumption ==
    /\ {HopCost, DirectPenalty} \subseteq Nat /\ {MaxFacets, MaxEntities, Far} \subseteq Nat \ {0}
    /\ Hits \subseteq [Nodes -> 0 .. Far] /\ Costs \subseteq [Links -> 0 .. Far]
    /\ \A hits \in Hits, n \in Nodes : hits[n] < Far => 4 * (hits[n] + DirectPenalty) < Far
    /\ \A costs \in Costs, l \in Links : costs[l] < Far => 4 * (costs[l] + HopCost) < Far
    /\ None \notin Nodes /\ Episode \notin Adjacent \cup Points
    /\ Facets \cap Bottoms = {} /\ Points \cap Entities = {}
    /\ 4 * 150 < Far    \* 150 is the cost of the edge to a facet that is hit well

VARIABLES near,       \* best_by_id
          cost,       \* cost[l]: edge_cost of an edge, Far when there is none
          bundle,     \* the EpisodeBundle of the episode
          left,       \* what the loops have not visited
          assembled,  \* whether the output is made
          shown       \* out_edges

bundleVars == <<near, cost, bundle, left, assembled, shown>>

Bundle(score, path, facet, point, entity) ==
    [score |-> score, path |-> path, facet |-> facet, point |-> point, entity |-> entity]

Linked(n) == {m \in Nodes : <<n, m>> \in Links /\ cost[<<n, m>>] # Far}

\* The index holds episodes that have an edge.
BundlesInit ==
    /\ near \in Hits
    /\ cost \in Costs
    /\ Linked(Episode) # {}
    /\ bundle = Bundle(IF near[Episode] = Far THEN Far ELSE near[Episode] + DirectPenalty,
                       "direct_episode", None, None, None)
    /\ left = Linked(Episode)
    /\ assembled = FALSE
    /\ shown = {}

-----------------------------------------------------------------------------

\* What reaching n costs from a node it is linked to.
Reached(n, m) == IF near[m] = Far THEN Far ELSE near[m] + cost[<<n, m>>] + HopCost

\* The ways to a facet; its own hit comes first, then points, then entities.
Ways(f) ==
    {[path |-> "facet", from |-> f, order |-> 1, cost |-> near[f]]}
    \cup {[path |-> "point", from |-> p, order |-> 2, cost |-> Reached(f, p)] :
             p \in Linked(f) \cap Points}
    \cup {[path |-> "facet_entity", from |-> e, order |-> 3, cost |-> Reached(f, e)] :
             e \in Linked(f) \cap Entities}

\* facet_best_from: a later way replaces an earlier one only if it is cheaper.
BestWays(f) ==
    {w \in Ways(f) : \A v \in Ways(f) :
        w.cost < v.cost \/ (w.cost = v.cost /\ w.order <= v.order)}

\* A facet that is hit itself makes its edge to the episode cheaper.
Discounted(f) ==
    LET full == cost[<<Episode, f>>] + HopCost
    IN  CASE near[f] < 100 -> 150
          [] near[f] >= 100 /\ near[f] < 200 -> (3 * full) \div 10
          [] OTHER -> full

ViaFacet(f) ==
    /\ f \in left \cap Facets
    /\ left' = left \ {f}
    /\ \E w \in BestWays(f) :
          LET total == w.cost + Discounted(f)
          IN  bundle' = IF w.cost # Far /\ total < bundle.score
                        THEN Bundle(total, w.path, f,
                                    IF w.path = "point" THEN w.from ELSE None,
                                    IF w.path = "facet_entity" THEN w.from ELSE None)
                        ELSE bundle
    /\ UNCHANGED <<near, cost, assembled, shown>>

\* Mutant of ViaEntity: the facet of the path it replaces stays.
ViaEntityKeepsFacet(e) ==
    /\ left \cap Facets = {} /\ e \in left
    /\ left' = left \ {e}
    /\ bundle' = IF Reached(Episode, e) < bundle.score
                 THEN Bundle(Reached(Episode, e), "entity", bundle.facet, None, e)
                 ELSE bundle
    /\ UNCHANGED <<near, cost, assembled, shown>>

ViaEntity(e) ==
    /\ left \cap Facets = {} /\ e \in left
    /\ left' = left \ {e}
    /\ bundle' = IF Reached(Episode, e) < bundle.score
                 THEN Bundle(Reached(Episode, e), "entity", None, None, e)
                 ELSE bundle
    /\ UNCHANGED <<near, cost, assembled, shown>>

-----------------------------------------------------------------------------

\* _compute_facet_cost of the output: neither entities nor discounts.
ShownFacetCost(f) ==
    LET own == Min({near[f]} \cup {Reached(f, p) : p \in Linked(f) \cap Points})
    IN  IF own = Far THEN Far ELSE own + cost[<<Episode, f>>] + HopCost

\* The first n of a list sorted by cost; equals come in any order.
Cheapest(n, priced) ==
    {T \in SUBSET DOMAIN priced :
        /\ Cardinality(T) = Min({n, Cardinality(DOMAIN priced)})
        /\ \A x \in T, y \in DOMAIN priced \ T : priced[x] <= priced[y]}

ShownFacets == Cheapest(MaxFacets, [f \in Linked(Episode) \cap Facets |-> ShownFacetCost(f)])

\* The edge that shows an entity: the episode's, else one of its facets'.
EdgesTo(e) ==
    IF e \in Linked(Episode) THEN {<<Episode, e>>}
    ELSE {<<f, e>> : f \in {g \in Linked(Episode) \cap Facets : e \in Linked(g)}}

EntityCost(e, l) ==
    near[e] + cost[l] + (IF l[1] = Episode THEN HopCost ELSE 2 * HopCost)

\* An entity that several facets have counts with the first one visited.
ShownEntityLinks ==
    LET hit == {e \in Entities : near[e] # Far /\ EdgesTo(e) # {}}
    IN  UNION {{{by[e] : e \in T} :
                   T \in Cheapest(MaxEntities, [e \in hit |-> EntityCost(e, by[e])])} :
               by \in {g \in [hit -> Links] : \A e \in hit : g[e] \in EdgesTo(e)}}

\* The edges of the best path, but the one to a point.
BestPathLinks ==
    {l \in {<<Episode, bundle.facet>>, <<Episode, bundle.entity>>} : l \in Links /\ cost[l] # Far}
    \cup (IF bundle.path = "facet_entity" THEN {<<bundle.facet, bundle.entity>>} ELSE {})

\* An episode without a path has no bundle.
Assemble ==
    /\ left = {} /\ bundle.score # Far /\ ~assembled
    /\ assembled' = TRUE
    /\ \E F \in ShownFacets, L \in ShownEntityLinks :
          shown' = BestPathLinks \cup {<<Episode, f>> : f \in F} \cup L
    /\ UNCHANGED <<near, cost, bundle, left>>

BundlesNext == (\E f \in Facets : ViaFacet(f)) \/ (\E e \in Entities : ViaEntity(e)) \/ Assemble

BundlesSpec == BundlesInit /\ [][BundlesNext]_bundleVars

-----------------------------------------------------------------------------
\* Every path from the episode to a hit, of at most two edges.
Paths ==
    {<<Episode>>} \cup {<<Episode, n>> : n \in Linked(Episode)}
    \cup UNION {{<<Episode, f, n>> : n \in Linked(f)} : f \in Linked(Episode) \cap Facets}

HitPaths == {p \in Paths : near[Last(p)] # Far}

LengthOf(p) ==
    near[Last(p)]
    + (IF Len(p) = 1 THEN DirectPenalty
       ELSE IF p[2] \in Facets THEN Discounted(p[2])
       ELSE cost[<<p[1], p[2]>>] + HopCost)
    + (IF Len(p) = 3 THEN cost[<<p[2], p[3]>>] + HopCost ELSE 0)

\* The path that the ids of a bundle name.
IfThere(n) == IF n = None THEN <<>> ELSE <<n>>
NamedPath == <<Episode>> \o IfThere(bundle.facet) \o IfThere(bundle.point) \o IfThere(bundle.entity)

(* Whatever the order of the loops, an episode is a result exactly if a    *)
(* hit is in reach, its score is the length of its shortest path, the ids  *)
(* left in the bundle by all the rewriting name a path of that length, and *)
(* that path is shown, but for a point at its end, although the output is  *)
(* chosen by other costs (bundle_scorer.py:248-290 and                     *)
(* output_assembler.py:331-346).                                           *)
BundleIsShortestPath ==
    left = {} =>
        /\ bundle.score = Far <=> HitPaths = {}
        /\ bundle.score # Far =>
              /\ NamedPath \in HitPaths /\ LengthOf(NamedPath) = bundle.score
              /\ \A p \in HitPaths : bundle.score <= LengthOf(p)
              /\ assembled =>
                    \A k \in 1 .. Len(NamedPath) - 1 :
                        NamedPath[k + 1] \in Points \/ <<NamedPath[k], NamedPath[k + 1]>> \in shown
=============================================================================
