SPECIFICATION Spec
CHECK_DEADLOCK FALSE
CONSTANTS
  VTs = {1, 2, 3}
  FreeVTs = {3}
  XVT = 2
  MaxSwitches = 1
  NONE = NONE
  CmdLines = {{}, {"VBE_POST"}}
  Whitelist = {{"VBE_SAVE", "NOFB"}, {"VBE_MODE", "PCI_SAVE", "RADEON_OFF"}}
INVARIANT PostedAfterResume
