CONSTANTS
    SIZE = 65536
    LIMIT = 4
    HEADER = 2
    IO = 3
    FileSize = 8
    Requests <- ToTheEnd
    Methods = {"GET"}
    Pipelining = TRUE
    Errors = FALSE
    LateData = FALSE
SPECIFICATION Spec
INVARIANT CountersMatch
