CONSTANTS
    PIECE = 4
    FileSize = 18
    Requests <- AtPieces
    IO = 9
    ErrorBody = 2
SPECIFICATION FairSpec
CHECK_DEADLOCK FALSE
INVARIANTS TypeOK BytesAccounted AssertsHold NothingKeptBack
PROPERTIES RefinesFeed PipeFreed
