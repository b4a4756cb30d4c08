SPECIFICATION FairSpec
CONSTANTS
    WRITE_BUFFERS = 3
    ENCRYPT_BUF_PAGES = 3
    NumBuffers = 3
    BufPages = 2
    Attempts = 2
    Configs = {{"encrypt", "compress", "threads"}, {"compress", "threads"}, {"encrypt"}}
    SaveErrors = {"ENOSPC", "EIO"}
    OtherFaults = {"read", "abort", "encrypt", "init",
                   "spawn_save", "spawn_move", "init_finish", "spurious"}
INVARIANT TypeOK
INVARIANT InOrder
INVARIANT BuffersDisjoint
INVARIANT FinishMutexReady
INVARIANT QuietOnSuccess
PROPERTY ImplementsPageStream
PROPERTY WaitForFinishReturns
PROPERTY ImageGetsWritten
CHECK_DEADLOCK FALSE
