SPECIFICATION TzSpec
CONSTANTS
  S_FLASH_START <- MC_S_FLASH_START
  S_FLASH_SIZE <- MC_S_FLASH_SIZE
  VENEER_SIZE <- MC_VENEER_SIZE
  NS_FLASH_START <- MC_NS_FLASH_START
  NS_FLASH_SIZE <- MC_NS_FLASH_SIZE
  S_RAM_START <- MC_S_RAM_START
  S_RAM_SIZE <- MC_S_RAM_SIZE
  NS_RAM_START <- MC_NS_RAM_START
  NS_RAM_SIZE <- MC_NS_RAM_SIZE
  SCRATCH_START <- MC_SCRATCH_START
  SCRATCH_SIZE <- MC_SCRATCH_SIZE
  PERIPH_BASE <- MC_PERIPH_BASE
  PPB_BASE <- MC_PPB_BASE
  NS_MAILBOX_ADDR <- MC_NS_MAILBOX
  ROM_LIMIT <- MC_ROM_LIMIT
  Addr <- MC_Addr
  AcRegs = 2
  CopyBlocks = 2
  MaxResets = 2
  JUNK = 90
  SECRET = 91
  KEYED = 92
INVARIANTS
  TzTypeOK
  SecureStaysSecure
  DmaStaysOut
  HandOverReady
  MailboxConsistent
  RecordOfThisBoot
PROPERTIES
  ImplementsDemo
CHECK_DEADLOCK FALSE
