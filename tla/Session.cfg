SPECIFICATION Spec
CHECK_DEADLOCK FALSE
CONSTANTS
  VTs = {1, 2, 3}
  FreeVTs = {3}
  XVT = 2
  MaxSwitches = 1
  NONE = NONE
  CmdLines = {{}, {"VBE_SAVE", "VBE_POST", "PCI_SAVE"}}
  Whitelist = {{"VBE_MODE", "NOFB"}, {"RADEON_OFF", "PCI_SAVE"}}
INVARIANT TypeOK
INVARIANT MountReleased
INVARIANT NoTerminalLeftLocked
INVARIANT ConsoleRestored
INVARIANT SettingsRestored
INVARIANT QuirksAllowed
INVARIANT RestoresOnlyWhatWasSaved
INVARIANT VideoBack
 
