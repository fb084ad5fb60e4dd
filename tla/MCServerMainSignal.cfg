SPECIFICATION Spec
CONSTANTS
    ThreadsTakeSignals = FALSE
    ExitSignals <- MCExitSignals
    IgnoredSignals <- MCIgnoredSignals
    QueueSize = 1
    MaxJobs = 2
PROPERTIES
    SignalEndsProcess
CHECK_DEADLOCK TRUE
