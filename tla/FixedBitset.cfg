SPECIFICATION Spec
CONSTANTS
    W = 2
    MaxLen = 4
INVARIANTS
    IterationSound
    OnlyForeignTrailing
