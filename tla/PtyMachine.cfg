SPECIFICATION Spec
CONSTANTS
    READ_BUFFER_SIZE = 2
    MAX_LOCKED_READ = 2
    TtySize = 2
    InputLen = 2
    MaxInputs = 2
    MaxOutput = 3
INVARIANTS
    InputInOrder
    RegisteredForWork
    OutputKept
PROPERTIES
    UiGetsLock
    InputDelivered
    ExitNoticed
CHECK_DEADLOCK FALSE
