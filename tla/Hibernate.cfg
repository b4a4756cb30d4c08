SPECIFICATION Spec
CONSTANTS
    MaxSnapshots = 4
    MaxAttempts = 2
    Modes = {"disk", "both", "test"}
    Faults = {"freeze", "snapshot", "enospc", "save", "mark", "s2ram", "suspend_reset",
              "power", "open", "read", "crash", "resume_freeze", "resume_reset", "restore"}
INVARIANT TypeOK
INVARIANT SigImpliesImage
INVARIANT NoImageWhileRunning
INVARIANT NoStaleResume
INVARIANT ResetFindsSignature
PROPERTY MarkedLast
