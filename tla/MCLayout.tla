------------------------------ MODULE MCLayout ------------------------------
(* The addresses of tz_layout.h, in 32-byte granules (32 granules to a KB). *)
EXTENDS Integers

KB == 32
MC_S_FLASH_START  == 262144 * KB          \* 0x10000000
MC_S_FLASH_SIZE   == 1024 * KB
MC_VENEER_SIZE    == 4 * KB
MC_NS_FLASH_START == 263168 * KB          \* 0x10100000
MC_NS_FLASH_SIZE  == 1024 * KB
MC_S_RAM_START    == 524288 * KB          \* 0x20000000
MC_S_RAM_SIZE     == 256 * KB
MC_NS_RAM_START   == 524544 * KB          \* 0x20040000
MC_NS_RAM_SIZE    == 256 * KB
MC_SCRATCH_START  == 524800 * KB          \* 0x20080000
MC_SCRATCH_SIZE   == 8 * KB
MC_PERIPH_BASE    == 1048576 * KB         \* 0x40000000
MC_PPB_BASE       == 3670016 * KB         \* 0xE0000000
MC_NS_MAILBOX     == 524784 * KB          \* 0x2007C000
MC_ROM_LIMIT      == 32 * KB - 1          \* 0x00007FE0

(* The two granules on either side of every bound, and one inside each. *)
MC_Addr ==
    LET bounds == {MC_S_FLASH_START, MC_S_FLASH_START + MC_S_FLASH_SIZE - MC_VENEER_SIZE,
                   MC_NS_FLASH_START, MC_NS_FLASH_START + MC_NS_FLASH_SIZE, MC_S_RAM_START,
                   MC_NS_RAM_START, MC_SCRATCH_START,
                   MC_SCRATCH_START + MC_SCRATCH_SIZE, MC_PERIPH_BASE,
                   MC_PPB_BASE, MC_NS_MAILBOX, MC_ROM_LIMIT + 1}
    IN  {0} \cup UNION {{b - 1, b, b + 1} : b \in bounds}
=============================================================================
