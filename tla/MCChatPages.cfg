\* Two connections, two rooms: rooms are created, joined, left for another
\* one, deleted and kept while the other client's page looks on.
CONSTANTS
    BIGLIST_SIZE = 2
    Clients = {a, b}
    MaxRooms = 2
    MaxMessages = 1
SPECIFICATION PageSpec
SYMMETRY Symmetry
INVARIANTS PageShowsRooms 
CHECK_DEADLOCK FALSE
