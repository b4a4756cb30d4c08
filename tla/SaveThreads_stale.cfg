SPECIFICATION Spec
CONSTANTS
    WRITE_BUFFERS = 2
    ENCRYPT_BUF_PAGES = 2
    NumBuffers = 1
    BufPages = 1
    Attempts = 2
    Configs = {{"encrypt", "compress", "threads"}}
    SaveErrors = {"ENOSPC"}
    OtherFaults = {}
INVARIANT MoveThreadWaitsForData
CHECK_DEADLOCK FALSE
