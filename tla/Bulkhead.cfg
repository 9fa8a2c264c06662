SPECIFICATION Spec
CONSTANTS
    Callers = {c1, c2, c3, c4}
    MaxArg = 2
INVARIANTS TypeOK ConcurrencyBounded NoIdleSlot CancelledNeverWaits
PROPERTIES NoStarvation
