SPECIFICATION Spec
CONSTANTS
    g1 = g1
    g2 = g2
    g3 = g3
    x = x
    GlobalId = {g1, g2, g3}
    VertexData = {x}
    MaxEdges = 4
    MaxVertexCalls = 1
    MaxFinalize = 2
SYMMETRY Symmetry
INVARIANTS
    IdsBijective
    SortsEdges
    RowsAndColumns
    ReadyForEngine
    UndirectedIsSymmetric
\* The bounds on the calls are reached: nothing is left to call.
CHECK_DEADLOCK FALSE
