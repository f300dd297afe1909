SPECIFICATION Spec
CONSTANTS
  SPACE = 4096
  G_PROT = 64
  PROT_SIZE = 64
  SIGN_MAX = 64
  JUNK = 90
  LIVE <- MC_Live
  SECRET = 92
  KEYED = 93
  MAIN_SP = 2048
  TRAP_TOP = 1024
  CHALLENGE = 256
  LOADS <- MC_Loads
  MaxResets = 2
INVARIANTS
  PmpTypeOK
  StacksApart
  MailboxConsistent
PROPERTIES
  TrapTransparent
  ImplementsDemo
CHECK_DEADLOCK FALSE
