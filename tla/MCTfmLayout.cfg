SPECIFICATION Spec
CONSTANTS
  SECTOR = 128
  FLASH_TOTAL_SIZE = 65536
  FLASH_AREA_BL2_SIZE = 2176
  FLASH_AREA_SCRATCH_SIZE = 1024
  XIP_BASE <- MC_XIP
  SRAM0_BASE <- MC_SRAM0
  SRAM4_BASE <- MC_SRAM4
  SRAM_SCRATCH_X_BASE <- MC_SRAM8
  S_DATA_OVERALL_SIZE = 6144
  NS_DATA_OVERALL_SIZE = 8192
  SCRATCH_X_SIZE = 128
  SCRATCH_Y_SIZE = 128
  BOOT_TFM_SHARED_DATA_SIZE = 32
  Shipped <- MC_Shipped
  Images <- MC_Images
  Partitions <- MC_Partitions
  Frames <- MC_Frames
  Storages <- MC_Storages
  Bundles <- MC_Bundles
INVARIANTS
  AreasApart
  OnlyNonSecureOpens
  ImagesFit
