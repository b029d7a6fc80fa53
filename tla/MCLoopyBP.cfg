SPECIFICATION Spec
CONSTANTS
    e0 = e0
    e1 = e1
    e2 = e2
    NVerts = 3
    Edges <- PathEdges
    Source <- PathSource
    Target <- PathTarget
    OutEdges <- PathOut
    InEdges <- PathIn
    Val = {0, 1, 2}
    ZeroMessage = 0
    Differs <- FarApart
    MaxQueue = 4
INVARIANTS
    ChangedIsQueued
    NobodyForgotten
PROPERTIES
    SettlesThenEnds
