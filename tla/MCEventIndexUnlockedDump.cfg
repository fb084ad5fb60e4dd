SPECIFICATION SnapSpec
CONSTANTS
    Terms <- MCTerms
    Docs <- MCDocs
    Weights <- MCWeights
    Times <- MCTimes
    MaxSize = 1
    MaxBatch = 2
    MaxPending = 2
    DumpHoldsMutex = FALSE
INVARIANTS
    RestoredPostingsHaveDeadline
