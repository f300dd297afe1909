---------------------------- MODULE MCTargetMap -----------------------------
(* The RP2350's map in 32-byte granules, with the partitions of             *)
(* the shipped build of TfmLayout and the veneers in the last 4 KB of the   *)
(* Secure one, where they end with it and the Non-Secure one begins.        *)
EXTENDS Integers

KB == 32
MC_ROM_LIMIT  == 32 * KB - 1
MC_XIP        == 262144 * KB                    \* 0x10000000
MC_NS         == MC_XIP + (68 + 384) * KB       \* FLASH_AREA_0_OFFSET + S size
MC_VENEER     == MC_NS - 4 * KB
MC_VENEER_LIM == MC_NS - 1
MC_NS_LIM     == MC_NS + 384 * KB - 1
MC_SRAM0      == 524288 * KB                    \* 0x20000000
MC_SRAM4      == 524544 * KB                    \* 0x20040000
MC_SRAM8      == 524800 * KB                    \* 0x20080000
MC_PPB        == 3670016 * KB                   \* 0xE0000000
=============================================================================
