SPECIFICATION Spec
CONSTANTS
    Callers = {c1, c2}
    FailureThresholdArg = 2
    SuccessThresholdArg = 1
    ResetTimeoutArg = 1
    MaxArg = 1
    MaxAttempts = 2
    RetryableErrs = {"transient", "ErrOpen"}
INVARIANTS TypeOK InsideBounded ResultSound LayersBalanced
PROPERTIES CallReturns ImplementsBreaker ImplementsBulkhead
