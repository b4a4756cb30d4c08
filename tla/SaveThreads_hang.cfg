SPECIFICATION FairSpec
CONSTANTS
    WRITE_BUFFERS = 2
    ENCRYPT_BUF_PAGES = 2
    NumBuffers = 1
    BufPages = 1
    Attempts = 1
    Configs = {{"compress", "threads"}}
    SaveErrors = {}
    OtherFaults = {}
PROPERTY SaveImageReturns
CHECK_DEADLOCK FALSE
