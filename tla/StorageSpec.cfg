CONSTANTS
    MAX_CACHE_SIZE = 2
    NewRow = "blank"
    Rows = {"blank", "text"}
    MaxLines = 4
SPECIFICATION Spec
INVARIANTS TypeOK RingInBounds LinesDoNotAlias CacheBounded TakeAllIsView
PROPERTY RowListSpec
