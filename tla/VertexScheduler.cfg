SPECIFICATION Spec
CONSTANTS
    NVerts = 4
    NThreads = 3
INVARIANTS
    OneAtATime
    FlagsMatchHolders
    NeverLost
PROPERTIES
    GivesUpForAReason
    EndsWithAllRun
