CONSTANTS
    PIECE = 4
    FileSize = 18
    Requests <- InsidePiece
    IO = 3
    ErrorBody = 2
SPECIFICATION Spec
CHECK_DEADLOCK FALSE
INVARIANTS HandsOverWholePieces
