SPECIFICATION Spec
CONSTANTS
    W = 2
    MaxLen = 3
INVARIANT NoZeroNotFound
