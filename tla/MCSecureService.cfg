SPECIFICATION Spec
CONSTANTS
  AddrMax = 7
  NsRegions <- MC_NsRegions
  SECURE_SIGN_MAX = 3
  SECRET_KEY_LEN = 2
  Byte <- MC_Byte
  Xor <- MC_Xor
  s_key <- MC_Key
  CounterRange = 2
  Request <- MC_Request
  Memory0 <- MC_Memory0
  MaxDepth = 2
  MaxCalls = 2
  MaxWrites = 1
INVARIANTS
  TypeOK
  SignsTheOriginal
  RefusalsAreInert
  RangesNonSecure
PROPERTIES
  SecureBytesKept
  CallsReturn
CHECK_DEADLOCK FALSE
