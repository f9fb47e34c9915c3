CONSTANTS
    PIECE = 2
    PIECES_PER_BLOCK = 2
    MAX_CACHE_LEN = 2
    MAX_CACHE_LEFT = 2
    HOLD_HEAD_SIZE = 4
    FileSize = 19
    Positions = {0, 7}
    MaxReaders = 2
    MaxRecv = 4
SPECIFICATION Spec
INVARIANTS
    TypeOK
    CompletedSizeIsExact
    BlocksFollowPieces
    CacheIsBounded
    ReadsWhatIsAnnounced
PROPERTIES
    EvictsNoMoreThanNeeded
