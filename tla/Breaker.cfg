SPECIFICATION Spec
CONSTANTS
    Callers = {c1, c2, c3, c4}
    FailureThresholdArg = 2
    SuccessThresholdArg = 2
    ResetTimeoutArg = 2
INVARIANTS TypeOK ClosedMeansFewFailures OpenExtensionBounded
PROPERTIES TripJustified CloseJustified OpenWindowEnds Recovery
CHECK_DEADLOCK TRUE
