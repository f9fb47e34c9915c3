CONSTANTS
    PIECE = 2
    PIECES_PER_BLOCK = 2
    MAX_CACHE_LEN = 2
    MAX_CACHE_LEFT = 1
    HOLD_HEAD_SIZE = 2
    FileSize = 11
    Readers = {r1}
    Preloaders = {p1}
    Ranges <- Aligned
    LIMIT = 2
    MaxRecv = 2
    Failures = TRUE
SPECIFICATION FairSpec
INVARIANT CacheIsBounded
  
