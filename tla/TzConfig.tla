------------------------------ MODULE TzConfig ------------------------------
(***************************************************************************)
(* The Secure image of examples/minimal-tz from main() to the hand-over:   *)
(* tz_sau_config() and tz_dma_mpu_config() (secure/tz_config.c), then      *)
(* tz_accessctrl_open_ns() and the copy of launch_nonsecure()              *)
(* (secure/main_s.c), one register write or one copied block per step.     *)
(*                                                                         *)
(* The SAU is programmed through a window: RNR selects the region RBAR and *)
(* RLAR then write.  A reset of the processor may come between any two     *)
(* writes; RAM keeps what it held, and each unit is either reset with the  *)
(* processor or keeps its registers.                                       *)
(***************************************************************************)
EXTENDS TzLayout

CONSTANTS
    Addr,           \* the granules the properties look at
    AcRegs,         \* ACCESSCTRL registers of the window 0x14 .. 0xe8 (54)
    CopyBlocks,     \* blocks of the 64 KB copy of the Non-Secure image
    MaxResets       \* bound: processor resets in a behaviour

ASSUME ConfigAssumption ==
    /\ Addr \subseteq Nat
    /\ AcRegs \in Nat \ {0} /\ CopyBlocks \in Nat \ {0} /\ MaxResets \in Nat

VARIABLES
    pc,             \* the next step of the processor
    idx,            \* the loop or region index of that step
    rnr, sau, sauOn,            \* SAU->RNR, the regions behind it, SAU->CTRL
    bfhfnmins,                  \* SCB->AIRCR.BFHFNMINS
    dmaDefaultS, dma,           \* dma_hw->mpu_ctrl.S and mpu_region[]
    ac, gpio,                   \* ACCESSCTRL: "closed" (default) or "open" to NS
    nsRam,                      \* the blocks of NS RAM the image is copied to
    resets                      \* resets so far

sauVars == <<rnr, sau, sauOn>>
dmaVars == <<dmaDefaultS, dma>>
acVars  == <<ac, gpio>>
cfgVars == <<sauVars, bfhfnmins, dmaVars, acVars, nsRam>>

-----------------------------------------------------------------------------
(* The tables the two functions write. *)

SauTable ==
    [i \in 0..3 |-> CASE i = 0 -> Callable(VENEER_START, VENEER_LIMIT)
                      [] i = 1 -> Open(NS_FLASH_START, NS_FLASH_LIMIT)
                      [] i = 2 -> Open(NS_RAM_START, NS_RAM_LIMIT)
                      [] i = 3 -> Open(PERIPH_BASE, PPB_BASE - 1)]

(* Variant: the RAM region starts at Secure RAM. *)
DmaTableLowRam ==
    [i \in RegionIndex |-> CASE i = 0 -> Open(VENEER_START, VENEER_LIMIT)
                             [] i = 1 -> Open(NS_FLASH_START, NS_FLASH_LIMIT)
                             [] i = 2 -> Open(S_RAM_START, PPB_BASE - 1)
                             [] OTHER -> Off]

DmaTable ==
    [i \in RegionIndex |-> CASE i = 0 -> Open(VENEER_START, VENEER_LIMIT)
                             [] i = 1 -> Open(NS_FLASH_START, NS_FLASH_LIMIT)
                             [] i = 2 -> Open(NS_RAM_START, PPB_BASE - 1)
                             [] OTHER -> Off]

(* What the bootrom leaves in region 7 of the SAU: nothing, or a region of  *)
(* its own over the ROM (the one target_cfg.c turns off as "unused bootrom  *)
(* region"; this example leaves it alone).                                  *)
BootromRegion == {Off, Open(0, ROM_LIMIT), Callable(0, ROM_LIMIT)}

SauReset == {[i \in RegionIndex |-> IF i = 7 THEN r ELSE Off] : r \in BootromRegion}
DmaReset == [i \in RegionIndex |-> Off]
AcReset  == [k \in 0..(AcRegs - 1) |-> "closed"]
GpioReset == [k \in 0..1 |-> "closed"]

CfgInit ==
    /\ pc = "RNR" /\ idx = 0 /\ resets = 0
    /\ rnr = 0 /\ sau \in SauReset /\ sauOn \in BOOLEAN
    /\ bfhfnmins = FALSE
    /\ dmaDefaultS = FALSE /\ dma = DmaReset
    /\ ac = AcReset /\ gpio = GpioReset
    /\ nsRam = [b \in 0..(CopyBlocks - 1) |-> "junk"]

Goto(next, i) == pc' = next /\ idx' = i

-----------------------------------------------------------------------------
(* tz_sau_config() *)

SelectRegion ==
    /\ pc = "RNR" /\ Goto("RBAR", idx)
    /\ rnr' = idx
    /\ UNCHANGED <<sau, sauOn, bfhfnmins, dmaVars, acVars, nsRam>>

(* Variant: the store to RBAR is forgotten. *)
WriteRbarForgotten ==
    /\ pc = "RBAR" /\ Goto("RLAR", idx)
    /\ UNCHANGED <<sauVars, bfhfnmins, dmaVars, acVars, nsRam>>

WriteRbar ==
    /\ pc = "RBAR" /\ Goto("RLAR", idx)
    /\ sau' = [sau EXCEPT ![rnr].base = SauTable[idx].base]
    /\ UNCHANGED <<rnr, sauOn, bfhfnmins, dmaVars, acVars, nsRam>>

(* RLAR carries the limit, the enable bit and the NSC bit in one store. *)
WriteRlar ==
    /\ pc = "RLAR"
    /\ IF idx = 3 THEN Goto("SAU_CTRL", 0) ELSE Goto("RNR", idx + 1)
    /\ sau' = [sau EXCEPT ![rnr] = [SauTable[idx] EXCEPT !.base = sau[rnr].base]]
    /\ UNCHANGED <<rnr, sauOn, bfhfnmins, dmaVars, acVars, nsRam>>

EnableSau ==
    /\ pc = "SAU_CTRL" /\ Goto("AIRCR", 0)
    /\ sauOn' = TRUE
    /\ UNCHANGED <<rnr, sau, bfhfnmins, dmaVars, acVars, nsRam>>

RouteFaults ==
    /\ pc = "AIRCR" /\ Goto("MPU_CTRL", 0)
    /\ bfhfnmins' = TRUE
    /\ UNCHANGED <<sauVars, dmaVars, acVars, nsRam>>

-----------------------------------------------------------------------------
(* tz_dma_mpu_config() *)

DmaMpuCtrl ==
    /\ pc = "MPU_CTRL" /\ Goto("BAR", 0)
    /\ dmaDefaultS' = TRUE
    /\ UNCHANGED <<sauVars, bfhfnmins, dma, acVars, nsRam>>

WriteBar ==
    /\ pc = "BAR" /\ Goto("LAR", idx)
    /\ dma' = [dma EXCEPT ![idx].base = DmaTable[idx].base]
    /\ UNCHANGED <<sauVars, bfhfnmins, dmaDefaultS, acVars, nsRam>>

WriteLar ==
    /\ pc = "LAR"
    /\ IF idx = 7 THEN Goto("CFGRESET", 0) ELSE Goto("BAR", idx + 1)
    /\ dma' = [dma EXCEPT ![idx] = [DmaTable[idx] EXCEPT !.base = dma[idx].base]]
    /\ UNCHANGED <<sauVars, bfhfnmins, dmaDefaultS, acVars, nsRam>>

-----------------------------------------------------------------------------
(* tz_accessctrl_open_ns() *)

CfgReset ==
    /\ pc = "CFGRESET" /\ Goto("GPIO", 0)
    /\ ac' = AcReset /\ gpio' = GpioReset
    /\ UNCHANGED <<sauVars, bfhfnmins, dmaVars, nsRam>>

GpioNsMask ==
    /\ pc = "GPIO"
    /\ IF idx = 1 THEN Goto("PERIPH", 0) ELSE Goto("GPIO", idx + 1)
    /\ gpio' = [gpio EXCEPT ![idx] = "open"]
    /\ UNCHANGED <<sauVars, bfhfnmins, dmaVars, ac, nsRam>>

(* Variants: the loop ends one register early, or one late. *)
OpenPeriphUntil(last) ==
    /\ pc = "PERIPH"
    /\ IF idx = last THEN Goto("COPY", 0) ELSE Goto("PERIPH", idx + 1)
    /\ ac' = [ac EXCEPT ![idx] = "open"]
    /\ UNCHANGED <<sauVars, bfhfnmins, dmaVars, gpio, nsRam>>
OpenPeriphShort == OpenPeriphUntil(AcRegs - 2)
OpenPeriphLong  == OpenPeriphUntil(AcRegs)

(* The loop off = 0x14; off <= 0xe8; off += 4, idx being (off - 0x14) / 4. *)
OpenPeriph ==
    /\ pc = "PERIPH"
    /\ IF idx = AcRegs - 1 THEN Goto("COPY", 0) ELSE Goto("PERIPH", idx + 1)
    /\ ac' = [ac EXCEPT ![idx] = "open"]
    /\ UNCHANGED <<sauVars, bfhfnmins, dmaVars, gpio, nsRam>>

-----------------------------------------------------------------------------
(* launch_nonsecure(), up to the branch *)

CopyImage ==
    /\ pc = "COPY"
    /\ IF idx = CopyBlocks - 1 THEN Goto("BLXNS", 0) ELSE Goto("COPY", idx + 1)
    /\ nsRam' = [nsRam EXCEPT ![idx] = "image"]
    /\ UNCHANGED <<sauVars, bfhfnmins, dmaVars, acVars>>

SauStep == SelectRegion \/ WriteRbar \/ WriteRlar \/ EnableSau \/ RouteFaults
DmaStep == DmaMpuCtrl \/ WriteBar \/ WriteLar
AcStep  == CfgReset \/ GpioNsMask \/ OpenPeriph

ConfigStep == (SauStep \/ DmaStep \/ AcStep \/ CopyImage) /\ UNCHANGED resets

(* A reset of the processor (a watchdog, the debugger's "reset run"). *)
ProcessorReset ==
    /\ resets < MaxResets
    /\ resets' = resets + 1
    /\ Goto("RNR", 0)
    /\ rnr' = 0 /\ sauOn' \in BOOLEAN /\ sau' \in SauReset \cup {sau}
    /\ bfhfnmins' = FALSE
    /\ \/ UNCHANGED dmaVars
       \/ dmaDefaultS' = FALSE /\ dma' = DmaReset
    /\ \/ UNCHANGED acVars
       \/ ac' = AcReset /\ gpio' = GpioReset
    /\ UNCHANGED nsRam

CfgNext == ConfigStep \/ ProcessorReset

vars == <<pc, idx, cfgVars, resets>>

CfgSpec == CfgInit /\ [][CfgNext]_vars

-----------------------------------------------------------------------------
(* Properties *)

Attr(a) == SauAttr(sauOn, sau, a)

ConfigPc == {"RNR", "RBAR", "RLAR", "SAU_CTRL", "AIRCR", "MPU_CTRL", "BAR",
             "LAR", "CFGRESET", "GPIO", "PERIPH", "COPY", "BLXNS"}

(* Type correctness of the registers and of the boot program's position: no *)
(* loop writes past its last register or block.                             *)
PlaceOK ==
    /\ pc \in ConfigPc /\ idx \in Nat
    /\ pc \in {"RNR", "RBAR", "RLAR"} => idx \in 0..3
    /\ pc \in {"BAR", "LAR"} => idx \in RegionIndex
    /\ pc = "GPIO" => idx \in 0..1
    /\ pc = "PERIPH" => idx < AcRegs
    /\ pc = "COPY" => idx < CopyBlocks
SauOK == rnr \in RegionIndex /\ sau \in [RegionIndex -> Region] /\ sauOn \in BOOLEAN
DmaOK == dma \in [RegionIndex -> Region] /\ dmaDefaultS \in BOOLEAN
AcOK ==
    /\ ac \in [0..(AcRegs - 1) -> {"closed", "open"}]
    /\ gpio \in [0..1 -> {"closed", "open"}]
RestOK ==
    /\ bfhfnmins \in BOOLEAN /\ resets \in Nat
    /\ nsRam \in [0..(CopyBlocks - 1) -> {"junk", "image"}]
CfgTypeOK == PlaceOK /\ SauOK /\ DmaOK /\ AcOK /\ RestOK

(* At no moment of the boot, not between two writes of one region and not   *)
(* after a reset that kept half of the registers, does the SAU give the     *)
(* Non-Secure world an address of the Secure image (tz_sau_config's one     *)
(* purpose).                                                                *)
SecureStaysSecure == \A a \in Addr : SecureOwned(a) => Attr(a) = "S"

(* From the moment mpu_ctrl makes Secure the default, through every later   *)
(* rewriting of the DMA MPU, no Non-Secure channel reaches Secure flash or  *)
(* Secure RAM (tz_dma_mpu_config's one purpose).                            *)
DmaStaysOut ==
    dmaDefaultS => \A a \in Addr : InSFlash(a) \/ InSRam(a)
                                     => ~DmaNsMay(dmaDefaultS, dma, a)

(* The map the layout header draws. *)
MapOfLayout(a) ==
    IF a >= PPB_BASE THEN "exempt"
    ELSE IF InVeneers(a) THEN "NSC"
    ELSE IF InNsFlash(a) \/ InNsRam(a) \/ InPeriph(a) THEN "NS"
    ELSE "S"

(* When the processor branches to the Non-Secure image, whatever the units  *)
(* held at reset: the SAU attributes every address beyond the ROM as the    *)
(* layout says, every peripheral and pin is open, the image is copied in    *)
(* full, and the DMA MPU is on.                                             *)
Ready ==
    /\ \A a \in Addr : a > ROM_LIMIT => Attr(a) = MapOfLayout(a)
    /\ \A k \in DOMAIN ac : ac[k] = "open"
    /\ \A k \in DOMAIN gpio : gpio[k] = "open"
    /\ \A b \in DOMAIN nsRam : nsRam[b] = "image"
    /\ dmaDefaultS /\ bfhfnmins
HandOverReady == pc = "BLXNS" => Ready

(* The comment above tz_dma_mpu_config: the DMA MPU mirrors the SAU.  Its   *)
(* safety half: what is Secure for the processor is not open to the DMA.    *)
DmaMirrorsSau ==
    pc = "BLXNS" => \A a \in Addr : Attr(a) = "S" => ~DmaNsMay(dmaDefaultS, dma, a)
=============================================================================
