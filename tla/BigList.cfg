\* Two slots per node instead of fifty: three items overflow the first node,
\* three nodes let an item be listed twice behind it.
CONSTANTS
    BIGLIST_SIZE = 2
    MaxNodes = 3
    Items = {x1, x2, x3}
    NoItem = NoItem
SPECIFICATION ListSpec
PROPERTY ImplementsOps
