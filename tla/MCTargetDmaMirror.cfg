SPECIFICATION TargetSpec
CONSTANTS
  PPB_BASE <- MC_PPB
  ROM_LIMIT <- MC_ROM_LIMIT
  XIP_BASE <- MC_XIP
  SRAM0_BASE <- MC_SRAM0
  SRAM4_BASE <- MC_SRAM4
  SRAM8_BASE <- MC_SRAM8
  VENEER_BASE <- MC_VENEER
  VENEER_LIMIT <- MC_VENEER_LIM
  NS_PARTITION_BASE <- MC_NS
  NS_PARTITION_LIMIT <- MC_NS_LIM
  Addr <- MC_Addr
  C0C1Periphs <- MC_C0C1
  C0Periphs <- MC_C0
  NsPeriphs <- MC_Ns
  SecureBank <- MC_SecureBank
  Refusing <- MC_Refusing
  Channels = 2
  MaxResets = 2
INVARIANTS
  DmaMirrorsSau
CHECK_DEADLOCK FALSE
