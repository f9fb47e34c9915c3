CONSTANTS
    PIECE = 2
    PIECES_PER_BLOCK = 2
    MAX_CACHE_LEN = 4
    MAX_CACHE_LEFT = 2
    HOLD_HEAD_SIZE = 2
    FileSize = 9
    Readers = {r1, r2}
    Preloaders = {}
    Ranges <- MidPiece
    LIMIT = 1
    MaxRecv = 2
    Failures = FALSE
SPECIFICATION Spec
INVARIANT NoStall
