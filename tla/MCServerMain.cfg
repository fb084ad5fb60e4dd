SPECIFICATION Spec
CONSTANTS
    ThreadsTakeSignals = TRUE
    ExitSignals <- MCExitSignals
    IgnoredSignals <- MCIgnoredSignals
    QueueSize = 1
    MaxJobs = 2
INVARIANTS
    TypeOK
    UsesOnlyLiveObjects
    ExitDumpAfterDrain
PROPERTIES
    AcceptedJobsReachIndex
    CaughtSignalEndsProcess
CHECK_DEADLOCK TRUE
