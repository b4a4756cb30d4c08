SPECIFICATION FairSpec
CONSTANTS
  PASS_SIZE = 4
  MAX_STR_LEN = 8
  Names = {"p"}
  Lengths = {0, 2, 3, 5}
  Faults = {"keygen", "keyfile", "weak", "platform", "ENOSPC", "EIO", "EINTR", "read", "damage"}
  Sizes = {1, 2, 3}
  BufPages = 2
  PageSize = 4
  WordSize = 1
  CompressedSizes = {3, 4, 8}
  Configs = {{}, {"checksum"}, {"encrypt"}, {"encrypt", "verify"}, {"compress", "encrypt", "checksum"}, {"compress", "verify"}, {"compress", "encrypt", "test"}}
  Methods = {"platform"}
INVARIANT TypeOK
INVARIANT KernelGetsImage
INVARIANT FailsOnlyForCause
INVARIANT PlatformAgrees
INVARIANT QuestionIsAnswered
PROPERTY PassphraseAccepted
CHECK_DEADLOCK FALSE
