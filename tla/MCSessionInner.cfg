CONSTANTS
    SIZE = 65536
    LIMIT = 4
    HEADER = 2
    IO = 3
    FileSize = 8
    Requests <- Inner
    Methods = {"GET"}
    Pipelining = FALSE
    Errors = FALSE
    LateData = FALSE
SPECIFICATION Spec
INVARIANT ReadsInRange
