SPECIFICATION Spec
CONSTANTS
  PASS_SIZE = 4
  MAX_STR_LEN = 8
  Names = {"p"}
  Lengths = {2}
  Faults = {"weak"}
  Sizes = {2}
  BufPages = 2
  PageSize = 4
  WordSize = 1
  CompressedSizes = {3}
  Configs = {{"encrypt"}}
  Methods = {"platform"}
INVARIANT RightPassphraseResumes
CHECK_DEADLOCK FALSE
