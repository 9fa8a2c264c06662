SPECIFICATION Spec
CONSTANTS
    MaxInt = 63
    Policies <- MCPolicies
INVARIANTS TypeOK ResultSound BackoffHeld DelayClosedForm
PROPERTIES Terminates
