SPECIFICATION Spec
CONSTANTS
    Clients = {c1, c2}
    Keys = {k1}
    Responses = {r1, r2}
    TTLArgs = {0, 1}
    DefaultTTL = 2
    MaxTime = 4
    None = None
INVARIANTS TypeOK
PROPERTIES ImplementsStore LiveLossOnlyByRace ExpiredCollected SweeperStops
