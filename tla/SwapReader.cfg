SPECIFICATION RFairSpec
CONSTANTS
    max_extents = 3
    SwapSize = 9
    Needed = {1, 5}
    Configs = {{}, {"compress", "ascending"}}
    Faults = {"alloc", "write", "read"}
INVARIANT ExtentsExact
INVARIANT RoundTrip
PROPERTY NeverOverwritten
PROPERTY SavedOrFailed
CHECK_DEADLOCK FALSE
