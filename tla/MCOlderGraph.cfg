SPECIFICATION OlderSpec
CONSTANTS
    g1 = g1
    g2 = g2
    g3 = g3
    GlobalId = {g1, g2, g3}
    x = x
    VertexData = {x}
    MaxEdges = 3
    MaxVertexCalls = 3
    MaxFinalize = 1
    MaxLoads = 2
SYMMETRY Symmetry
INVARIANTS
    SchedulerInBounds
    LoopyBPReady
\* The bounds on the calls are reached: nothing is left to call.
CHECK_DEADLOCK FALSE
