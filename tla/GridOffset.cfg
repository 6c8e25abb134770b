CONSTANTS
    MAX_CACHE_SIZE = 1
    Blank = "blank"
    TextValues = {"a"}
    MaxLines = 3
    ScrollLimits = {2}
SPECIFICATION Spec
INVARIANT DisplayedLinesExist
