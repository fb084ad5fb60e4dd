SPECIFICATION PipeSpec
CONSTANTS
    Terms <- MCTerms
    Docs <- MCDocs
    Weights <- MCWeights
    Times <- MCTimes
    MaxSize = 1
    MaxBatch = 2
    MaxPending = 3
    QueueSize = 2
    MaxJobs = 3
    Workers = {w1}
INVARIANTS
    InOrderAtRest
CHECK_DEADLOCK TRUE
