CONSTANTS
    Urls = {u}
    NoUrl = none
    None = None
    Clients = {c1}
    Downloads = {d1, d2}
    Preloaders = {}
    MaxId = 0
    MaxRef = 1
SPECIFICATION Spec
INVARIANT NothingLeft
CHECK_DEADLOCK FALSE
