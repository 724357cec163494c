\* Two connections, two names and ids, two users made by either thread.
CONSTANTS
    Clients = {a, b}
    Names = {m, n}
    Ids = {i, j}
    MaxUsers = 2
    MaxTasks = 1
SPECIFICATION Spec
INVARIANTS OnlyRemoteIsStale TwinsOnlyByRemote NullOnlyBeingFilled LostOnlyTogether
SYMMETRY Symmetry
\* A null pointer ends the process.
CHECK_DEADLOCK FALSE
