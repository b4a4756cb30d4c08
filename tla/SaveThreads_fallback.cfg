SPECIFICATION Spec
CONSTANTS
    WRITE_BUFFERS = 2
    ENCRYPT_BUF_PAGES = 2
    NumBuffers = 1
    BufPages = 1
    Attempts = 1
    Configs = {{"threads"}}
    SaveErrors = {}
    OtherFaults = {"init"}
INVARIANT DirectFromBuffer
CHECK_DEADLOCK FALSE
