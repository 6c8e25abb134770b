CONSTANTS
    Byte = {"esc", "m", "h", "l", "x"}
    BSU_CSI <- Bsu
    ESU_CSI <- Esu
    SYNC_BUFFER_SIZE = 9
    Outputs <- TokenOutputs
    MaxTokens = 3
    MaxRead = 6
    MAX_LOCKED_READ = 7
SPECIFICATION Spec
INVARIANT EsuTerminates
CHECK_DEADLOCK FALSE
