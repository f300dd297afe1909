SPECIFICATION Spec
CONSTANTS
  SPACE = 12
  G_PROT = 4
  PROT_SIZE = 4
  SIGN_MAX = 4
  KEY_LEN = 2
  COUNTER = 4
  KEY = 6
  Byte <- MC_Byte
  Xor <- MC_Xor
  Counted <- MC_Counted
  Memory0 <- MC_Memory0
  Request <- MC_Request
  MaxCalls = 2
INVARIANTS
  TypeOK
  GuardExact
  SignsInPlace
PROPERTIES
  ProtectedKept
CHECK_DEADLOCK FALSE
