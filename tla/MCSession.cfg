CONSTANTS
    SIZE = 65536
    LIMIT = 6
    HEADER = 2
    IO = 4
    FileSize = 20
    Requests <- WholeAndShort
    Methods = {"GET", "HEAD"}
    Pipelining = FALSE
    Errors = TRUE
    LateData = FALSE
SPECIFICATION FairSpec
INVARIANTS TypeOK AssertsHold SendMbufBounded StreamInOrder 
PROPERTIES RefinesReply SessionEnds
