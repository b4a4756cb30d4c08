SPECIFICATION RSpec
CONSTANTS
    max_extents = 2
    SwapSize = 8
    Needed = {6}
    Configs = {{"compress"}}
    Faults = {}
PROPERTY NeverOverwritten
CHECK_DEADLOCK FALSE
