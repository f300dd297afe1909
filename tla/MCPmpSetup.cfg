SPECIFICATION SetupSpec
CONSTANTS
  SPACE = 256
  GRANULE = 32
  Powers <- MC_Powers
  BitOr <- MC_BitOr
  Sizes <- MC_Sizes
  Junk <- MC_Junk
INVARIANTS
  DeniesExactly
CHECK_DEADLOCK FALSE
