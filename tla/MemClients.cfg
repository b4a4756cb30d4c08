SPECIFICATION Spec
CONSTANTS
  PageSize = 4096
  Alignments = {8, 16, 32, 64, 128, 256, 512, 1024, 2048, 4096}
  Sizes = {8, 24, 4096, 6000}
  Addrs = {0, 8, 32, 4096, 4104, 8192, 16384}
  AnyPool = 20480
  AnySlots = 5
INVARIANT IInv
INVARIANT NoOverlap
INVARIANT FreedExactly
INVARIANT Aligned
INVARIANT EmptyAgain
INVARIANT PoolSuffices
PROPERTY FreememReturns
