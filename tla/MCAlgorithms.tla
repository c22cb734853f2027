---------------------------- MODULE MCAlgorithms ----------------------------
(***************************************************************************)
(* Four algorithms for TLC, one of them per behaviour: the slicer on small *)
(* graphs, call resolution on small programs, control flow on small        *)
(* methods, and the scoring of small episodes.                             *)
(***************************************************************************)
EXTENDS CodeSlicer, CallResolution, MCControlFlow, EpisodicBundles

VARIABLE algorithm

-----------------------------------------------------------------------------
(* Graphs of four nodes: lists of three edges, the first at the start.     *)

EdgesOf == {e \in [src : Node, dst : Node, type : {"FLOWS_TO"}] : e.src = e.dst => e.src = 2}
           \cup {[src |-> 1, dst |-> 2, type |-> "CALLS"]}

SmallGraphs ==
    {<<>>} \cup {g \in [1 .. 3 -> EdgesOf] : g[1].src = 1 \/ g[1].dst = 1}

SliceRequests ==
    {[direction |-> d, start |-> 1, types |-> {"FLOWS_TO"}, max_nodes |-> b, max_hops |-> h] :
        d \in {"forward", "backward", "both"}, b \in {3, 5}, h \in {0, 1, 2}}

SmallRequests == {r \in SliceRequests : r.direction = "both" \/ r.max_hops = 0}

-----------------------------------------------------------------------------
(* Programs of four classes: the caller, the class it uses, a class that   *)
(* may share the simple name of that, and an interface.                    *)

CONSTANTS c, a, b, i

Of(names, some) == [n \in names |-> IF n \in DOMAIN some THEN some[n] ELSE Nothing]
M(own) == IF own THEN "m" :> "X" ELSE <<>>

CallerClasses ==
    {[name |-> "C", package |-> "p", supers |-> supers,
      methods |-> Of(Methods, "run" :> "X" @@ M(supers # <<>> /\ field # Nothing)),
      fields |-> Of(Vars, "v" :> field), imports |-> Of(Names, "A" :> import)] :
        supers \in {<<>>, <<"A">>}, field \in {Nothing, "A"}, import \in {Nothing, "q"}}

UsedClasses ==
    {[name |-> "A", package |-> package, supers |-> supers,
      methods |-> Of(Methods, "A" :> "X" @@ "get" :> got @@ M(own)),
      fields |-> Of(Vars, "v" :> "B"), imports |-> Of(Names, "I" :> "p")] :
        package \in {"p", "q"}, supers \in {<<>>, <<"B">>, <<"B", "I">>},
        got \in {Nothing, "A", "B"}, own \in BOOLEAN}

OtherClasses ==
    {[name |-> name, package |-> package, supers |-> <<>>,
      methods |-> Of(Methods, name :> "X" @@ M(own)), fields |-> Of(Vars, <<>>),
      imports |-> Of(Names, <<>>)] :
        name \in {"A", "B"}, package \in {"p", "q"}, own \in BOOLEAN}
    \cup {[name |-> "B", package |-> "p", supers |-> <<"I">>,
           methods |-> Of(Methods, "get" :> "B" @@ M(TRUE)), fields |-> Of(Vars, <<>>),
           imports |-> Of(Names, <<>>)]}

Interfaces ==
    {[name |-> "I", package |-> "p", supers |-> <<>>,
      methods |-> Of(Methods, "get" :> got @@ M(own)),
      fields |-> Of(Vars, <<>>), imports |-> Of(Names, <<>>)] :
        own \in BOOLEAN, got \in {Nothing, "A"}}

Unused == [name |-> "I", package |-> "p", supers |-> <<>>, methods |-> Of(Methods, <<>>),
           fields |-> Of(Vars, <<>>), imports |-> Of(Names, <<>>)]

\* The import of B that lets a file see the class of that name.
WithB(decl, other) ==
    IF other.name = "B" THEN [decl EXCEPT !.imports["B"] = other.package] ELSE decl

\* In a program that compiles no two classes of a package share a name, and the
\* caller's A is the one of its import or of its package.
\* B is in the package of the class that uses it, I has members only where it is
\* extended, and a local variable is not tried with a supertype of the caller.
Compiles(w, x, y) ==
    /\ y.name = x.name => y.package # x.package
    /\ \E z \in {x, y} : /\ z.name = "A"
                         /\ z.package = IF w.imports["A"] # Nothing THEN w.imports["A"] ELSE "p"

SmallPrograms ==
    {[class |-> c :> WithB(d.w, d.y) @@ a :> WithB(d.x, d.y) @@ b :> d.y @@ i :> d.z,
      caller |-> c, method |-> "run", vars |-> Of(Vars, "v" :> d.local)] :
        d \in {e \in [w : CallerClasses, x : UsedClasses, y : OtherClasses, z : Interfaces,
                      local : {Nothing, "B"}] :
                 /\ Compiles(e.w, e.x, e.y)
                 /\ e.y.name = "B" => e.y.package = e.x.package
                 /\ e.local # Nothing => e.w.supers = <<>>
                 /\ e.z # Unused => Len(e.x.supers) = 2 \/ e.y.supers # <<>>
                 /\ e.z.methods["get"] # Nothing => e.x.methods["get"] = Nothing}}

Expr(shape, name, on) == [shape |-> shape, name |-> name, on |-> on]

SmallExprs ==
    LET v == Expr("name", "v", Nothing)
        new == Expr("new", "A", Nothing)
        this == Expr("this", Nothing, Nothing)
        super == Expr("super", Nothing, Nothing)
    IN  {v, new, this, super, Expr("name", "A", Nothing), Expr("name", "X", Nothing),
         Expr("cast", "B", Nothing), Expr("class", "A", Nothing), Expr("call", "get", v),
         Expr("call", "get", new), Expr("call", "get", Nothing), Expr("call", "get", super),
         Expr("field", "v", this), Expr("field", "v", Expr("name", "A", Nothing)),
         Expr("call", "get", Expr("call", "get", v))}

SmallDepth == [e \in SmallExprs |-> IF e.on = Nothing THEN 0 ELSE IF e.on.on = Nothing THEN 1 ELSE 2]

MethodCall(kind, callee, receiver) == [kind |-> kind, callee |-> callee, receiver |-> receiver]

SmallCalls ==
    {MethodCall("method", "m", r) : r \in Maybe(SmallExprs)}
    \cup {MethodCall("creation", "A", Nothing),
          MethodCall("reference", "m", Expr("name", "v", Nothing))}

-----------------------------------------------------------------------------
(* Episodes of two facets and two entities, one of them of a facet only.   *)
(* Facets are hit within either discount, outside, or not at all, the     *)
(* first no farther than the second; one edge is missing and two are hit   *)
(* at most.                                                                *)

SmallHits ==
    {[n \in Nodes |->
        IF n \in Facets THEN d.facet[n] ELSE IF n \in d.hit THEN d.at ELSE Far] :
        d \in {e \in [facet : [Facets -> {90, 150, 400, Far}], hit : SUBSET (Nodes \ Facets),
                     at : {20, 200}] : e.facet["f1"] <= e.facet["f2"]}}

SmallCosts ==
    {[l \in Links |->
        IF l \in d.missing \cup {<<Episode, "n2">>} THEN Far ELSE IF l \in d.near THEN 40 ELSE 900] :
        d \in [missing : kSubset(0, Links) \cup kSubset(1, Links),
               near : kSubset(0, Links) \cup kSubset(1, Links) \cup kSubset(2, Links)]}

-----------------------------------------------------------------------------
(* The variables of the algorithm that does not run: nothing begun.        *)
SomeProgram == CHOOSE p \in SmallPrograms : TRUE
SomeCode == CHOOSE m \in SmallCodes : TRUE

SlicerOff ==
    /\ graph = <<>> /\ request \in SmallRequests /\ request.direction = "both"
    /\ request.max_nodes = 5 /\ request.max_hops = 2
    /\ visited = {} /\ collected = {} /\ queue = <<>> /\ frontier = {} /\ onward = {}
    /\ hop = 0 /\ current = Nobody /\ at = 1
CallsOff ==
    /\ program = SomeProgram
    /\ scope = {} /\ index = {} /\ answered = {} /\ edges = {}
FlowOff ==
    /\ code = SomeCode
    /\ todo = <<>> /\ flows = {} /\ home = <<>> /\ seen = {}
BundlesOff ==
    /\ near = [n \in Nodes |-> Far] /\ cost = [l \in Links |-> 900]
    /\ bundle = Bundle(Far, "direct_episode", None, None, None)
    /\ left = {Episode} /\ assembled = FALSE /\ shown = {}

Init == \/ algorithm = "slice" /\ SliceInit /\ CallsOff /\ FlowOff /\ BundlesOff
        \/ /\ algorithm = "calls" /\ CallInit /\ SlicerOff /\ FlowOff /\ BundlesOff
           /\ Classes \ scope \in {{}, {a}, {b}}
        \/ algorithm = "flow" /\ CodeInit /\ SlicerOff /\ CallsOff /\ BundlesOff
        \/ algorithm = "episodes" /\ BundlesInit /\ SlicerOff /\ CallsOff /\ FlowOff

Slicing == algorithm = "slice"
Calling == algorithm = "calls"
Flowing == algorithm = "flow"
Scoring == algorithm = "episodes"

Next ==
    \/ Slicing /\ Pop /\ UNCHANGED <<algorithm, callVars, flowVars, bundleVars>>
    \/ Slicing /\ (\E n \in Node : Take(n)) /\ UNCHANGED <<algorithm, callVars, flowVars, bundleVars>>
    \/ Slicing /\ Look /\ UNCHANGED <<algorithm, callVars, flowVars, bundleVars>>
    \/ Slicing /\ Leave /\ UNCHANGED <<algorithm, callVars, flowVars, bundleVars>>
    \/ Slicing /\ NextHop /\ UNCHANGED <<algorithm, callVars, flowVars, bundleVars>>
    \/ Slicing /\ (\E n \in Node : AddRest(n)) /\ UNCHANGED <<algorithm, callVars, flowVars, bundleVars>>
    \/ Calling /\ (\E d \in Classes : Read(d)) /\ UNCHANGED <<algorithm, sliceVars, flowVars, bundleVars>>
    \/ /\ Calling /\ answered = {}
       /\ (\E k \in Calls : AnswerCall(k)) /\ UNCHANGED <<algorithm, sliceVars, flowVars, bundleVars>>
    \/ Flowing /\ CollectLists /\ UNCHANGED <<algorithm, sliceVars, callVars, bundleVars>>
    \/ Flowing /\ DropLists /\ UNCHANGED <<algorithm, sliceVars, callVars, bundleVars>>
    \/ Flowing /\ ConnectList /\ UNCHANGED <<algorithm, sliceVars, callVars, bundleVars>>
    \/ Flowing /\ HandleStatement /\ UNCHANGED <<algorithm, sliceVars, callVars, bundleVars>>
    \/ Flowing /\ LinkTail /\ UNCHANGED <<algorithm, sliceVars, callVars, bundleVars>>
    \/ Scoring /\ (\E f \in Facets : ViaFacet(f)) /\ UNCHANGED <<algorithm, sliceVars, callVars, flowVars>>
    \/ Scoring /\ (\E e \in Entities : ViaEntity(e)) /\ UNCHANGED <<algorithm, sliceVars, callVars, flowVars>>
    \/ Scoring /\ Assemble /\ UNCHANGED <<algorithm, sliceVars, callVars, flowVars>>
=============================================================================
