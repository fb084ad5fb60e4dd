SPECIFICATION Spec
CONSTANTS
    Terms <- MCTerms
    Docs <- MCDocs
    Weights <- MCWeights
    Times <- MCTimes
    MaxSize = 2
    MaxBatch = 2
    MaxPending = 2
INVARIANTS
    TypeOK
    PostingsHaveDeadline
    TrackedIsPostedOrPending
PROPERTIES
    ImplementsIndexSpec
CHECK_DEADLOCK TRUE
