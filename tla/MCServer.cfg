CONSTANTS
    Urls = {u}
    NoUrl = none
    None = None
    Clients = {c1}
    Downloads = {d1}
    Preloaders = {p1}
    MaxId = 2
    MaxRef = 2
SPECIFICATION FairSpec
INVARIANTS TypeOK ReadersMatch PipesHaveReaders  LookupIsFresh IdsOnce
PROPERTY StopStops
CHECK_DEADLOCK FALSE
