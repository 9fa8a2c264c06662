SPECIFICATION Spec
CONSTANTS
    Callers = {c1, c2, c3}
    FailureThresholdArg = 2
    SuccessThresholdArg = 2
    ResetTimeoutArg = 2
CHECK_DEADLOCK TRUE
INVARIANT TrialCallsLimited
