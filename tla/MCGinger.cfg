SPECIFICATION Spec
CONSTANTS
    v1 = v1
    v2 = v2
    v3 = v3
    ClusterSizes = {1, 2}
    VertexId = {v1, v2, v3}
    HashVertex <- SpreadHash
    Threshold = 1
    Interval = 1
    TotVerts = 3
    TotEdges = 4
    FloatLimit = 8
    MaxScale = 64
    Score <- IntScore
    MaxEdges = 3
    MaxVertices = 1
    MaxRounds = 1
INVARIANTS
    EdgeAtOnePlace
    BalancesAddUp
    OneMaster
    HybridCut
    DegreesKnown
    CountsAddUp
    DataEverywhere
PROPERTIES
    FinalizeReturns
\* The bounds on the calls are reached: nothing is left to call.
CHECK_DEADLOCK FALSE
