CONSTANTS
    Node = {1, 2, 3, 4}
    EdgeType = {"FLOWS_TO", "CALLS"}
    Graphs <- SmallGraphs
    Requests <- SmallRequests
    Nobody = Nobody
    Classes = {c, a, b, i}
    c = c
    a = a
    b = b
    i = i
    Names = {"A", "B", "C", "I", "X"}
    Packages = {"p", "q"}
    Methods = {"run", "get", "m", "A", "B"}
    Vars = {"v"}
    Programs <- SmallPrograms
    Calls <- SmallCalls
    Exprs <- SmallExprs
    Depth <- SmallDepth
    Nothing = Nothing
    MaxTargets = 2
    MaxDepth = 1
    Codes <- SmallCodes
    NoTarget = NoTarget
    Entry = 0
    Exit = 99
    Episode = "E"
    Facets = {"f1", "f2"}
    Points = {"p1"}
    Entities = {"n1", "n2"}
    Hits <- SmallHits
    Costs <- SmallCosts
    HopCost = 50
    DirectPenalty = 300
    MaxFacets = 1
    MaxEntities = 1
    Far = 100000
    None = None
INIT Init
NEXT Next
INVARIANTS
    SliceIsExact
    NearestFirst
    TypedEdgesAreTrue
    NoCallIsLost
    FlowIsStructured
    BundleIsShortestPath
CHECK_DEADLOCK FALSE
