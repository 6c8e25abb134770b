CONSTANTS
    MAX_CACHE_SIZE = 1
    Blank = "blank"
    TextValues = {"a"}
    MaxLines = 3
    ScrollLimits = {0, 2}
SPECIFICATION Spec
INVARIANT GridSound
PROPERTIES ViewStationary TextBufferSpec
VIEW ViewWithoutCall
