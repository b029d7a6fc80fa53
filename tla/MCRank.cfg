SPECIFICATION Spec
CONSTANTS
    NVerts = 3
    Edges <- Chord
    Source <- ChordSource
    Target <- ChordTarget
    GatherDir <- AllIn
    ScatterDir <- AllOut
    Val <- Rank
    NoValue = NoValue
    InitData <- Ones
    Apply <- RankApply
    Significant <- AnyChange
    NThreads = 2
    W = 2
    MaxIterations = 5
INVARIANTS
    TypeOK
    RaceFree
    GatherComplete
    NoStaleAtQuiescence
PROPERTIES
    ImplementsBSP
    SignalServed
    RunReturns
