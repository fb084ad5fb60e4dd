SPECIFICATION Spec
CONSTANTS
    Terms <- MCTerms
    Docs <- MCDocs
    Weights <- MCWeights
    Times <- MCTimes
    MaxSize = 0
    MaxBatch = 2
    MaxPending = 2
PROPERTIES
    ImplementsIndexSpec
CHECK_DEADLOCK TRUE
