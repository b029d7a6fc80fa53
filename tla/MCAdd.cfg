SPECIFICATION Spec
CONSTANTS
    NVerts = 3
    Edges <- Loop
    Source <- LoopSource
    Target <- LoopTarget
    GatherDir <- MixedGather
    ScatterDir <- MixedScatter
    Val <- Residue
    NoValue = NoValue
    InitData <- Starts
    Apply <- AddApply
    Significant <- BigChange
    NThreads = 3
    W = 2
    MaxIterations = 2
INVARIANTS
    OnlySmallChangesMissing
PROPERTIES
    ImplementsSupersteps
