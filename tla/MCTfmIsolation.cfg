SPECIFICATION BootSpec
CONSTANTS
  PPB_BASE <- MC_PPB
  ROM_LIMIT <- MC_ROM_LIMIT
  XIP_BASE <- MC_XIP
  SRAM0_BASE <- MC_SRAM0
  SRAM4_BASE <- MC_SRAM4
  SRAM8_BASE <- MC_SRAM8
  VENEER_BASE <- MC_VENEER
  VENEER_LIMIT <- MC_VENEER_LIM
  NS_PARTITION_BASE <- MC_NS
  NS_PARTITION_LIMIT <- MC_NS_LIM
  Addr <- MC_IsoAddr
  C0C1Periphs <- MC_IsoC0C1
  C0Periphs <- MC_IsoC0
  NsPeriphs <- MC_IsoNs
  SecureBank <- MC_IsoBank
  Refusing <- MC_IsoRefusing
  Channels = 2
  MaxResets = 1
  UNPRIV_CODE <- MC_UnprivCode
  APP_CODE <- MC_AppCode
  APP_RW_STACK <- MC_AppRw
  SP_META <- MC_SpMeta
  NsTasks <- MC_NsTasks
  Builds <- MC_Builds
  CheckAddr <- MC_CheckAddr
INVARIANTS
  IsoTypeOK
  SlotsSound
  DevicesBound
  RunningPrivilege
  MemoryCheckSound
  SecureNeverOpen
  FilterHonest
  UnitsAgree
PROPERTIES
  KeepsPromise
CHECK_DEADLOCK FALSE
