CONSTANTS
    Sides <- Both
    Peers <- Sent
    HeadLen = 2
    MaxIO = 5
    MaxRetries = 2
SPECIFICATION FairSpec
INVARIANTS TypeOK BytesAccounted MessagesInOrder ResolvesOnce
PROPERTIES RefinesEvents Ends
CHECK_DEADLOCK FALSE
