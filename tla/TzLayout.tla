------------------------------ MODULE TzLayout ------------------------------
(***************************************************************************)
(* The memory map of examples/minimal-tz: include/tz_layout.h and the      *)
(* scratch banks of secure/linker_s.ld, in the granules of Attribution.    *)
(***************************************************************************)
EXTENDS Attribution

CONSTANTS
    S_FLASH_START, S_FLASH_SIZE,        \* Secure flash; the veneers are its tail
    VENEER_SIZE,
    NS_FLASH_START, NS_FLASH_SIZE,      \* where the Non-Secure image is stored
    S_RAM_START, S_RAM_SIZE,
    NS_RAM_START, NS_RAM_SIZE,
    SCRATCH_START, SCRATCH_SIZE,        \* SCRATCH_X and SCRATCH_Y, one range
    PERIPH_BASE,                        \* 0x40000000
    NS_MAILBOX_ADDR,
    ROM_LIMIT                           \* last granule of the boot ROM

(* What the header's numbers have in common with any other layout this code *)
(* would work for: the ranges are not empty and follow one another.         *)
ASSUME LayoutAssumption ==
    /\ {S_FLASH_START, S_FLASH_SIZE, VENEER_SIZE, NS_FLASH_START,
        NS_FLASH_SIZE, S_RAM_START, S_RAM_SIZE, NS_RAM_START, NS_RAM_SIZE,
        SCRATCH_START, SCRATCH_SIZE, PERIPH_BASE, PPB_BASE, NS_MAILBOX_ADDR,
        ROM_LIMIT} \subseteq Nat
    /\ ROM_LIMIT < S_FLASH_START
    /\ 0 < VENEER_SIZE /\ VENEER_SIZE < S_FLASH_SIZE
    /\ S_FLASH_START + S_FLASH_SIZE <= NS_FLASH_START
    /\ 0 < NS_FLASH_SIZE /\ NS_FLASH_START + NS_FLASH_SIZE <= S_RAM_START
    /\ 0 < S_RAM_SIZE /\ S_RAM_START + S_RAM_SIZE <= NS_RAM_START
    /\ 0 < NS_RAM_SIZE /\ NS_RAM_START + NS_RAM_SIZE <= SCRATCH_START
    /\ 0 < SCRATCH_SIZE /\ SCRATCH_START + SCRATCH_SIZE <= PERIPH_BASE
    /\ PERIPH_BASE < PPB_BASE
    /\ NS_RAM_START <= NS_MAILBOX_ADDR
    /\ NS_MAILBOX_ADDR < NS_RAM_START + NS_RAM_SIZE

-----------------------------------------------------------------------------
(* The derived bounds of tz_layout.h. *)

VENEER_START   == S_FLASH_START + S_FLASH_SIZE - VENEER_SIZE
VENEER_LIMIT   == S_FLASH_START + S_FLASH_SIZE - 1
NS_FLASH_LIMIT == NS_FLASH_START + NS_FLASH_SIZE - 1
S_RAM_LIMIT    == S_RAM_START + S_RAM_SIZE - 1
NS_RAM_LIMIT   == NS_RAM_START + NS_RAM_SIZE - 1

InVeneers(a)  == Between(VENEER_START, a, VENEER_LIMIT)
InSFlash(a)   == Between(S_FLASH_START, a, VENEER_START - 1)   \* all but the veneers
InNsFlash(a)  == Between(NS_FLASH_START, a, NS_FLASH_LIMIT)
InSRam(a)     == Between(S_RAM_START, a, S_RAM_LIMIT)
InNsRam(a)    == Between(NS_RAM_START, a, NS_RAM_LIMIT)
InScratch(a)  == Between(SCRATCH_START, a, SCRATCH_START + SCRATCH_SIZE - 1)
InPeriph(a)   == Between(PERIPH_BASE, a, PPB_BASE - 1)

(* What the Secure image keeps for itself. *)
SecureOwned(a) == InSFlash(a) \/ InSRam(a) \/ InScratch(a)
=============================================================================
