CONSTANTS
    PIECE = 1
    PIECES_PER_BLOCK = 1
    MAX_CACHE_LEN = 2
    MAX_CACHE_LEFT = 0
    HOLD_HEAD_SIZE = 1
    FileSize = 5
    Readers = {r1, r2}
    Preloaders = {}
    Ranges <- Aligned
    LIMIT = 1
    MaxRecv = 1
    Failures = FALSE
SPECIFICATION FairSpec
INVARIANTS TypeOK PipesDistinct NoOrphanPipes StarvedHasPipe
 
