SPECIFICATION Spec
CONSTANTS
    W = 2
    MaxLen = 5
INVARIANTS
    OperationsAreSetOperations
    SearchesCorrect
    BlockIteration
    TransferEnough
PROPERTY NoNewTrailingBits
