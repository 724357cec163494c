CONSTANTS
    Clients = {a, b, c}
SPECIFICATION Spec
SYMMETRY Symmetry
INVARIANTS
    UsageIsReferences
    DeletedEarlyOnlyByRace
    LeakedOnlyByLostDecrement
CHECK_DEADLOCK FALSE
