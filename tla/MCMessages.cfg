CONSTANTS
    Texts <- MCTexts
    Ids <- MCIds
    MaxEntries = 7
    MaxOutput = 25
SPECIFICATION MessageSpec
INVARIANTS ServerReads PageShows BuffersFit ShortListsFit
PROPERTY PageMovesOn
CHECK_DEADLOCK FALSE
