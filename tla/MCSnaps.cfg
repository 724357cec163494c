\* Two connections of two users or of one, two snaps that expire in another
\* order than they were sent in, or never.
CONSTANTS
    Clients = {a, b}
    Users = {u, v}
    StartTime = 1500000000
    MaxTime = 2
    MaxSnaps = 2
    MaxLength = 2
    MaxQueue = 2
SPECIFICATION Spec
INVARIANTS SnapsArrive  KeptUntilExpired TextKeptOnlyInFront
SYMMETRY Symmetry
\* At rest the server waits for a command; in the loop of readsnap for nothing.
CHECK_DEADLOCK FALSE
