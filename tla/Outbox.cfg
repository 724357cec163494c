\* One connection: the first message of the main thread, two of the worker and
\* one of the slow thread, and the close at any time.
CONSTANTS
    MaxWorker = 2
    MaxSlow = 1
SPECIFICATION FairSpec
INVARIANTS  WrittenInOrder OnlySlowUsesDeleted
PROPERTIES  Disconnects
\* Once everything is sent, or the connection closed, nothing is left to do.
CHECK_DEADLOCK FALSE
