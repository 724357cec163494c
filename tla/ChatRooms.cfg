\* Two connections and two rooms: rooms are joined and left for one another
\* while tasks of both connections are interleaved with the closes.
CONSTANTS
    BIGLIST_SIZE = 2
    Clients = {a, b}
    MaxRooms = 2
    MaxMessages = 1
SPECIFICATION FairSpec
INVARIANTS
    TypeOK MembershipAgrees NoDeletedRoom NoClearedClient NumberIsCount
    NoUnusedRoom
PROPERTY ClosedIsForgotten
CHECK_DEADLOCK FALSE
