SPECIFICATION Spec
CONSTANTS
    Classes = {"validation", "upstream", "internal", "custom"}
    RetryClasses = {"transient", "permanent"}
    DetailKeys = {"field", "rule"}
    DetailValues = {"v1", "v2"}
    NoValue = NoValue
    NilMap = NilMap
    NoClass = NoClass
    MaxDepth = 6
INVARIANT SuccessStaysNil
CHECK_DEADLOCK FALSE
