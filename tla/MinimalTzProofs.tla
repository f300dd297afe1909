-------------------------- MODULE MinimalTzProofs ---------------------------
(***************************************************************************)
(* Proofs about TzConfig and MinimalTz, for every layout that satisfies    *)
(* LayoutAssumption, every set of addresses, every power-on content of RAM *)
(* and any number of resets: first the boot by itself, then what the boot  *)
(* established carried through the Non-Secure run and the fault handler,   *)
(* and what the two mailboxes hold.                                        *)
(***************************************************************************)
EXTENDS MinimalTz, TLAPS

-----------------------------------------------------------------------------
(* The boot: TzConfig. *)

(* Each SAU region is off, or complete: a region that is on holds what the  *)
(* table says, also while its registers are being written again.            *)
SauPartial ==
    /\ \A i \in 0..3 : sau[i].en => sau[i] = SauTable[i]
    /\ \A i \in 4..6 : ~sau[i].en
    /\ sau[7] \in BootromRegion
    /\ pc \in {"RBAR", "RLAR"} => rnr = idx
    /\ pc = "RLAR" => sau[idx].base = SauTable[idx].base

DmaPartial ==
    /\ \A i \in RegionIndex : dma[i].en => dma[i] = DmaTable[i]
    /\ pc = "LAR" => dma[idx].base = DmaTable[idx].base

ConfigInv == CfgTypeOK /\ SauPartial /\ DmaPartial

-----------------------------------------------------------------------------
LEMMA LayoutFacts ==
    /\ S_FLASH_START \in Nat /\ VENEER_START \in Nat /\ VENEER_LIMIT \in Nat
    /\ NS_FLASH_START \in Nat /\ NS_FLASH_LIMIT \in Nat
    /\ S_RAM_START \in Nat /\ S_RAM_LIMIT \in Nat
    /\ NS_RAM_START \in Nat /\ NS_RAM_LIMIT \in Nat
    /\ SCRATCH_START \in Nat /\ SCRATCH_SIZE \in Nat
    /\ PERIPH_BASE \in Nat /\ PPB_BASE \in Nat /\ ROM_LIMIT \in Nat
    /\ ROM_LIMIT < S_FLASH_START /\ S_FLASH_START < VENEER_START
    /\ VENEER_START <= VENEER_LIMIT /\ VENEER_LIMIT < NS_FLASH_START
    /\ NS_FLASH_START <= NS_FLASH_LIMIT /\ NS_FLASH_LIMIT < S_RAM_START
    /\ S_RAM_START <= S_RAM_LIMIT /\ S_RAM_LIMIT < NS_RAM_START
    /\ NS_RAM_START <= NS_RAM_LIMIT /\ NS_RAM_LIMIT < SCRATCH_START
    /\ SCRATCH_START + SCRATCH_SIZE <= PERIPH_BASE /\ PERIPH_BASE < PPB_BASE
  BY LayoutAssumption DEF VENEER_START, VENEER_LIMIT, NS_FLASH_LIMIT, S_RAM_LIMIT, NS_RAM_LIMIT

LEMMA SauTableTyped ==
    \A i \in 0..3 : SauTable[i] \in Region /\ SauTable[i].en
  BY LayoutFacts DEF SauTable, Region, Open, Callable

LEMMA DmaTableTyped == \A i \in RegionIndex : DmaTable[i] \in Region
  BY LayoutFacts DEF DmaTable, Region, Open, Off, RegionIndex

(* Writing a base that is already there changes nothing. *)
LEMMA SameBase ==
    ASSUME NEW r \in Region, NEW b, b = r.base
    PROVE  [r EXCEPT !.base = b] = r
  BY DEF Region

LEMMA BootromTyped == BootromRegion \subseteq Region
  BY LayoutFacts DEF BootromRegion, Region, Open, Callable, Off

LEMMA ResetTyped ==
    /\ SauReset \subseteq [RegionIndex -> Region] /\ DmaReset \in [RegionIndex -> Region]
    /\ AcReset \in [0..(AcRegs - 1) -> {"closed", "open"}]
    /\ GpioReset \in [0..1 -> {"closed", "open"}]
  <1>1. Off \in Region
    BY DEF Off, Region
  <1> QED
    BY <1>1, BootromTyped DEF SauReset, DmaReset, AcReset, GpioReset

-----------------------------------------------------------------------------
THEOREM InitConfigInv == CfgInit => ConfigInv
  <1> SUFFICES ASSUME CfgInit PROVE ConfigInv
    OBVIOUS
  <1>1. CfgTypeOK
    <2>1. PlaceOK /\ SauOK
      BY ResetTyped DEF CfgInit, PlaceOK, SauOK, ConfigPc, RegionIndex
    <2>2. DmaOK /\ AcOK /\ RestOK
      BY ResetTyped DEF CfgInit, DmaOK, AcOK, RestOK
    <2> QED
      BY <2>1, <2>2 DEF CfgTypeOK
  <1>2. SauPartial
    BY DEF CfgInit, SauPartial, SauReset, RegionIndex, Off
  <1>3. DmaPartial
    BY DEF CfgInit, DmaPartial, DmaReset, RegionIndex, Off
  <1> QED
    BY <1>1, <1>2, <1>3 DEF ConfigInv

(* A reset leaves every unit with what the boot program counts on, whatever *)
(* program was running.                                                     *)
LEMMA ResetUnits ==
    ASSUME SauOK, DmaOK, AcOK, RestOK, SauPartial, DmaPartial, ProcessorReset
    PROVE  ConfigInv'
  <1> USE DEF ProcessorReset, Goto
  <1>1. PlaceOK'
    BY DEF PlaceOK, ConfigPc
  <1>2. SauOK'
    <2>1. sau' \in [RegionIndex -> Region]
      BY ResetTyped DEF SauOK
    <2> QED
      BY <2>1 DEF SauOK, RegionIndex
  <1>3. RestOK'
    <2>1. bfhfnmins' = FALSE /\ resets' = resets + 1 /\ nsRam' = nsRam
      OBVIOUS
    <2>2. bfhfnmins' \in BOOLEAN
      BY <2>1, Zenon
    <2>3. resets' \in Nat
      BY <2>1 DEF RestOK
    <2>4. nsRam' \in [0..(CopyBlocks - 1) -> {"junk", "image"}]
      BY <2>1 DEF RestOK
    <2> QED
      BY <2>2, <2>3, <2>4, Zenon DEF RestOK
  <1>4. DmaOK' /\ AcOK'
    BY ResetTyped DEF DmaOK, AcOK, dmaVars, acVars
  <1>5. SauPartial'
    BY DEF SauPartial, SauReset, RegionIndex, Off
  <1>6. DmaPartial'
    BY DEF DmaPartial, DmaReset, RegionIndex, Off, dmaVars
  <1> QED
    BY <1>1, <1>2, <1>3, <1>4, <1>5, <1>6 DEF ConfigInv, CfgTypeOK

LEMMA StepConfigInv == ConfigInv /\ [CfgNext]_vars => ConfigInv'
  <1> SUFFICES ASSUME ConfigInv, [CfgNext]_vars PROVE ConfigInv'
    OBVIOUS
  <1> USE DEF ConfigInv, CfgTypeOK
  <1>1. CASE SelectRegion /\ UNCHANGED resets
    <2> USE <1>1 DEF SelectRegion, Goto, dmaVars, acVars
    <2>1. PlaceOK' /\ rnr' \in RegionIndex
      BY DEF PlaceOK, ConfigPc, RegionIndex
    <2>2. SauOK' /\ DmaOK' /\ AcOK' /\ RestOK'
      BY <2>1 DEF SauOK, DmaOK, AcOK, RestOK
    <2>3. SauPartial' /\ DmaPartial'
      BY DEF SauPartial, DmaPartial
    <2> QED
      BY <2>1, <2>2, <2>3
  <1>2. CASE WriteRbar /\ UNCHANGED resets
    <2> USE <1>2 DEF WriteRbar, Goto, dmaVars, acVars
    <2>1. idx \in 0..3 /\ rnr = idx /\ idx \in RegionIndex
      BY DEF PlaceOK, SauPartial, RegionIndex
    <2>2. sau' = [sau EXCEPT ![idx] = [sau[idx] EXCEPT !.base = SauTable[idx].base]]
      BY <2>1 DEF SauOK
    <2>3. [sau[idx] EXCEPT !.base = SauTable[idx].base] \in Region
      BY <2>1, SauTableTyped DEF SauOK, Region
    <2>4. PlaceOK'
      BY <2>1 DEF PlaceOK, ConfigPc
    <2>5. SauOK' /\ DmaOK' /\ AcOK' /\ RestOK'
      BY <2>1, <2>2, <2>3 DEF SauOK, DmaOK, AcOK, RestOK
    <2>6. sau[idx].en => [sau[idx] EXCEPT !.base = SauTable[idx].base] = sau[idx]
      BY <2>1, SameBase DEF SauOK, SauPartial
    <2>7. /\ [sau[idx] EXCEPT !.base = SauTable[idx].base].en = sau[idx].en
          /\ [sau[idx] EXCEPT !.base = SauTable[idx].base].base = SauTable[idx].base
      BY <2>1 DEF SauOK, Region
    <2>8. SauPartial' /\ DmaPartial'
      BY <2>1, <2>2, <2>6, <2>7 DEF SauPartial, DmaPartial, SauOK, RegionIndex
    <2> QED
      BY <2>4, <2>5, <2>8
  <1>3. CASE WriteRlar /\ UNCHANGED resets
    <2> USE <1>3 DEF WriteRlar, Goto, dmaVars, acVars
    <2>1. idx \in 0..3 /\ rnr = idx /\ idx \in RegionIndex /\ sau[idx].base = SauTable[idx].base
      BY DEF PlaceOK, SauPartial, RegionIndex
    <2>2. [SauTable[idx] EXCEPT !.base = sau[idx].base] = SauTable[idx]
      BY <2>1, SauTableTyped, SameBase
    <2>3. sau' = [sau EXCEPT ![idx] = SauTable[idx]]
      BY <2>1, <2>2
    <2>4. PlaceOK'
      BY <2>1 DEF PlaceOK, ConfigPc
    <2>5. SauOK' /\ DmaOK' /\ AcOK' /\ RestOK'
      BY <2>1, <2>3, SauTableTyped DEF SauOK, DmaOK, AcOK, RestOK
    <2>6. SauPartial' /\ DmaPartial'
      BY <2>1, <2>3 DEF SauPartial, DmaPartial, SauOK, RegionIndex
    <2> QED
      BY <2>4, <2>5, <2>6
  <1>4. CASE WriteBar /\ UNCHANGED resets
    <2> USE <1>4 DEF WriteBar, Goto, sauVars, acVars
    <2>1. idx \in RegionIndex
      BY DEF PlaceOK
    <2>2. dma' = [dma EXCEPT ![idx] = [dma[idx] EXCEPT !.base = DmaTable[idx].base]]
      BY <2>1 DEF DmaOK
    <2>3. [dma[idx] EXCEPT !.base = DmaTable[idx].base] \in Region
      BY <2>1, DmaTableTyped DEF DmaOK, Region
    <2>4. PlaceOK'
      BY <2>1 DEF PlaceOK, ConfigPc
    <2>5. SauOK' /\ DmaOK' /\ AcOK' /\ RestOK'
      BY <2>1, <2>2, <2>3 DEF SauOK, DmaOK, AcOK, RestOK
    <2>6. dma[idx].en => [dma[idx] EXCEPT !.base = DmaTable[idx].base] = dma[idx]
      BY <2>1, SameBase DEF DmaOK, DmaPartial
    <2>7. /\ [dma[idx] EXCEPT !.base = DmaTable[idx].base].en = dma[idx].en
          /\ [dma[idx] EXCEPT !.base = DmaTable[idx].base].base = DmaTable[idx].base
      BY <2>1 DEF DmaOK, Region
    <2>8. SauPartial' /\ DmaPartial'
      BY <2>1, <2>2, <2>6, <2>7 DEF SauPartial, DmaPartial, DmaOK
    <2> QED
      BY <2>4, <2>5, <2>8
  <1>5. CASE WriteLar /\ UNCHANGED resets
    <2> USE <1>5 DEF WriteLar, Goto, sauVars, acVars
    <2>1. idx \in RegionIndex /\ dma[idx].base = DmaTable[idx].base
      BY DEF PlaceOK, DmaPartial
    <2>2. [DmaTable[idx] EXCEPT !.base = dma[idx].base] = DmaTable[idx]
      BY <2>1, DmaTableTyped, SameBase
    <2>3. dma' = [dma EXCEPT ![idx] = DmaTable[idx]]
      BY <2>2
    <2>4. PlaceOK'
      BY <2>1 DEF PlaceOK, ConfigPc, RegionIndex
    <2>5. SauOK' /\ DmaOK' /\ AcOK' /\ RestOK'
      BY <2>1, <2>3, DmaTableTyped DEF SauOK, DmaOK, AcOK, RestOK
    <2>6. SauPartial' /\ DmaPartial'
      BY <2>1, <2>3 DEF SauPartial, DmaPartial, DmaOK
    <2> QED
      BY <2>4, <2>5, <2>6
  <1>6. CASE (EnableSau \/ RouteFaults \/ DmaMpuCtrl \/ CfgReset \/ GpioNsMask
              \/ OpenPeriph \/ CopyImage) /\ UNCHANGED resets
    <2>1. /\ UNCHANGED <<sau, dma, rnr>>
          /\ pc' \in {"AIRCR", "MPU_CTRL", "BAR", "GPIO", "PERIPH", "COPY", "BLXNS"}
      BY <1>6 DEF EnableSau, RouteFaults, DmaMpuCtrl, CfgReset, GpioNsMask,
          OpenPeriph, CopyImage, Goto, dmaVars, sauVars
    <2>2. SauPartial' /\ DmaPartial'
      BY <2>1 DEF SauPartial, DmaPartial
    <2>3. PlaceOK'
      BY <1>6, ConfigAssumption DEF EnableSau, RouteFaults, DmaMpuCtrl, CfgReset,
          GpioNsMask, OpenPeriph, CopyImage, Goto, PlaceOK, ConfigPc, RegionIndex
    <2>4. SauOK' /\ DmaOK'
      BY <1>6 DEF EnableSau, RouteFaults, DmaMpuCtrl, CfgReset, GpioNsMask,
          OpenPeriph, CopyImage, dmaVars, sauVars, SauOK, DmaOK
    <2>5. AcOK'
      BY <1>6, ResetTyped DEF EnableSau, RouteFaults, DmaMpuCtrl, CfgReset, GpioNsMask,
          OpenPeriph, CopyImage, acVars, AcOK
    <2>6. RestOK'
      BY <1>6 DEF EnableSau, RouteFaults, DmaMpuCtrl, CfgReset, GpioNsMask,
          OpenPeriph, CopyImage, RestOK
    <2> QED
      BY <2>2, <2>3, <2>4, <2>5, <2>6
  <1>7. CASE ProcessorReset
    BY <1>7, ResetUnits
  <1>8. CASE UNCHANGED vars
    <2> USE <1>8 DEF vars, cfgVars, sauVars, dmaVars, acVars
    <2>1. PlaceOK' /\ SauOK' /\ DmaOK' /\ AcOK' /\ RestOK'
      BY DEF PlaceOK, SauOK, DmaOK, AcOK, RestOK
    <2>2. SauPartial' /\ DmaPartial'
      BY DEF SauPartial, DmaPartial
    <2> QED
      BY <2>1, <2>2
  <1> QED
    BY <1>1, <1>2, <1>3, <1>4, <1>5, <1>6, <1>7, <1>8
    DEF CfgNext, ConfigStep, SauStep, DmaStep, AcStep

THEOREM ConfigInvariant == CfgSpec => []ConfigInv
  BY InitConfigInv, StepConfigInv, PTL DEF CfgSpec

(* Type correctness: no register is ever out of range, no loop runs over.   *)
THEOREM TypeCorrect == CfgSpec => []CfgTypeOK
  <1>1. ConfigInv => CfgTypeOK
    BY DEF ConfigInv
  <1> QED
    BY <1>1, ConfigInvariant, PTL

-----------------------------------------------------------------------------
LEMMA SecureOwnedIsSecure ==
    ASSUME SauPartial, NEW a \in Nat, SecureOwned(a)
    PROVE  Attr(a) = "S"
  <1>1. a < PPB_BASE
    BY LayoutFacts DEF SecureOwned, InSFlash, InSRam, InScratch, Between
  <1>2. \A i \in 0..3 : ~Hit(SauTable[i], a)
    BY LayoutFacts DEF SecureOwned, InSFlash, InSRam, InScratch, Between, Hit,
        SauTable, Open, Callable
  <1>3. \A i \in 0..3 : ~Hit(sau[i], a)
    BY <1>2 DEF SauPartial, Hit
  <1>4. \A i \in 4..6 : ~Hit(sau[i], a)
    BY DEF SauPartial, Hit
  <1>5. ~Hit(sau[7], a)
    BY LayoutFacts DEF SauPartial, BootromRegion, Open, Callable, Off, Hit,
        SecureOwned, InSFlash, InSRam, InScratch, Between
  <1>6. \A i \in RegionIndex : ~Hit(sau[i], a)
    <2>1. RegionIndex = (0..3) \cup (4..6) \cup {7}
      BY DEF RegionIndex
    <2> QED
      BY <2>1, <1>3, <1>4, <1>5
  <1>7. ~(a >= PPB_BASE)
    BY <1>1, LayoutFacts
  <1>8. ~ \E i \in RegionIndex : /\ Hit(sau[i], a)
                                 /\ \A j \in RegionIndex \ {i} : ~Hit(sau[j], a)
    BY <1>6
  <1> QED
    BY <1>7, <1>8, Zenon DEF Attr, SauAttr

(* At no moment, of no boot, is an address of the Secure image anything but *)
(* Secure for the processor.                                                *)
THEOREM SecureAlwaysSecure == CfgSpec => []SecureStaysSecure
  <1>1. ConfigInv => SecureStaysSecure
    BY SecureOwnedIsSecure, ConfigAssumption DEF ConfigInv, SecureStaysSecure
  <1> QED
    BY <1>1, ConfigInvariant, PTL

LEMMA DmaTableStaysOut ==
    ASSUME NEW a \in Nat, InSFlash(a) \/ InSRam(a), NEW i \in RegionIndex
    PROVE  ~Hit(DmaTable[i], a)
  BY LayoutFacts DEF InSFlash, InSRam, Between, Hit, DmaTable, Open, Off, RegionIndex

LEMMA DmaPartialStaysOut ==
    ASSUME DmaPartial
    PROVE  DmaStaysOut
  <1> SUFFICES ASSUME dmaDefaultS, NEW a \in Addr, InSFlash(a) \/ InSRam(a),
                      NEW i \in RegionIndex, Hit(dma[i], a)
               PROVE  FALSE
    BY DEF DmaStaysOut, DmaNsMay
  <1>1. a \in Nat
    BY ConfigAssumption
  <1>2. dma[i] = DmaTable[i]
    BY DEF DmaPartial, Hit
  <1> QED
    BY <1>1, <1>2, DmaTableStaysOut

(* Once Secure is its default, the DMA MPU never opens Secure flash or      *)
(* Secure RAM, however often its regions are written again.                 *)
THEOREM DmaAlwaysOut == CfgSpec => []DmaStaysOut
  <1>1. ConfigInv => DmaStaysOut
    BY DmaPartialStaysOut DEF ConfigInv
  <1> QED
    BY <1>1, ConfigInvariant, PTL

-----------------------------------------------------------------------------
(* The boot program only moves forward, so its position says which stores   *)
(* are done: everything HandOverReady asks for, one part per unit.          *)
SauLoop == {"RNR", "RBAR", "RLAR"}

SauProgress ==
    /\ \A i \in 0..3 : (pc \notin SauLoop \/ i < idx) => sau[i] = SauTable[i]
    /\ pc \notin SauLoop \cup {"SAU_CTRL"} => sauOn
    /\ pc \notin SauLoop \cup {"SAU_CTRL", "AIRCR"} => bfhfnmins

DmaProgress ==
    pc \in {"BAR", "LAR", "CFGRESET", "GPIO", "PERIPH", "COPY", "BLXNS"} => dmaDefaultS

AcProgress ==
    /\ \A k \in 0..1 :
         (pc = "GPIO" /\ k < idx) \/ pc \in {"PERIPH", "COPY", "BLXNS"} => gpio[k] = "open"
    /\ \A k \in 0..(AcRegs - 1) :
         (pc = "PERIPH" /\ k < idx) \/ pc \in {"COPY", "BLXNS"} => ac[k] = "open"

CopyProgress ==
    \A b \in 0..(CopyBlocks - 1) :
       (pc = "COPY" /\ b < idx) \/ pc = "BLXNS" => nsRam[b] = "image"

Progress == SauProgress /\ DmaProgress /\ AcProgress /\ CopyProgress

LEMMA InitProgress == CfgInit => Progress
  BY ConfigAssumption DEF CfgInit, Progress, SauLoop, SauProgress, DmaProgress,
     AcProgress, CopyProgress

LEMMA StepSauProgress == ConfigInv /\ SauProgress /\ [CfgNext]_vars => SauProgress'
  <1> SUFFICES ASSUME ConfigInv, SauProgress, [CfgNext]_vars PROVE SauProgress'
    OBVIOUS
  <1> USE DEF ConfigInv, CfgTypeOK, SauLoop
  <1>1. CASE SelectRegion
    BY <1>1 DEF SelectRegion, Goto, SauProgress
  <1>2. CASE WriteRbar
    <2>1. /\ idx \in 0..3 /\ rnr = idx /\ pc' = "RLAR" /\ idx' = idx
          /\ \A i \in 0..3 : i # idx => sau'[i] = sau[i]
      BY <1>2 DEF WriteRbar, Goto, PlaceOK, SauPartial, SauOK, RegionIndex
    <2> QED
      BY <1>2, <2>1 DEF WriteRbar, SauProgress
  <1>3. CASE WriteRlar
    <2>1. idx \in 0..3 /\ rnr = idx /\ idx \in RegionIndex /\ sau[idx].base = SauTable[idx].base
      BY <1>3 DEF WriteRlar, PlaceOK, SauPartial, RegionIndex
    <2>2. sau' = [sau EXCEPT ![idx] = SauTable[idx]]
      BY <1>3, <2>1, SauTableTyped, SameBase DEF WriteRlar
    <2>3. \A i \in 0..3 : sau'[i] = IF i = idx THEN SauTable[idx] ELSE sau[i]
      BY <2>1, <2>2 DEF SauOK, RegionIndex
    <2>4. \/ idx = 3 /\ pc' = "SAU_CTRL"
          \/ idx < 3 /\ pc' = "RNR" /\ idx' = idx + 1
      BY <1>3, <2>1 DEF WriteRlar, Goto
    <2> QED
      BY <1>3, <2>1, <2>3, <2>4 DEF WriteRlar, SauProgress
  <1>4. CASE EnableSau \/ RouteFaults
    <2>1. /\ \A i \in 0..3 : sau'[i] = SauTable[i]
          /\ pc' \in {"AIRCR", "MPU_CTRL"}
      BY <1>4 DEF EnableSau, RouteFaults, Goto, SauProgress, sauVars
    <2>2. sauOn'
      <3>1. CASE EnableSau
        BY <3>1, Zenon DEF EnableSau
      <3>2. CASE RouteFaults
        BY <3>2 DEF RouteFaults, SauProgress, sauVars
      <3> QED
        BY <1>4, <3>1, <3>2
    <2>3. pc' = "MPU_CTRL" => bfhfnmins'
      <3>1. CASE EnableSau
        BY <3>1 DEF EnableSau, Goto
      <3>2. CASE RouteFaults
        BY <3>2, Zenon DEF RouteFaults
      <3> QED
        BY <1>4, <3>1, <3>2
    <2> QED
      BY <2>1, <2>2, <2>3 DEF SauProgress
  <1>5. CASE DmaStep \/ AcStep \/ CopyImage
    <2>1. UNCHANGED <<sau, sauOn, bfhfnmins>>
      BY <1>5 DEF DmaStep, AcStep, DmaMpuCtrl, WriteBar, WriteLar, CfgReset,
          GpioNsMask, OpenPeriph, CopyImage, sauVars
    <2>2. /\ pc \notin SauLoop \cup {"SAU_CTRL", "AIRCR"}
          /\ pc' \notin SauLoop \cup {"SAU_CTRL", "AIRCR"}
      BY <1>5 DEF DmaStep, AcStep, DmaMpuCtrl, WriteBar, WriteLar, CfgReset,
          GpioNsMask, OpenPeriph, CopyImage, Goto
    <2> QED
      BY <2>1, <2>2 DEF SauProgress
  <1>6. CASE ProcessorReset
    BY <1>6 DEF ProcessorReset, Goto, SauProgress
  <1>7. CASE UNCHANGED vars
    BY <1>7 DEF vars, cfgVars, sauVars, SauProgress
  <1> QED
    BY <1>1, <1>2, <1>3, <1>4, <1>5, <1>6, <1>7 DEF CfgNext, ConfigStep, SauStep

LEMMA StepDmaProgress == DmaProgress /\ [CfgNext]_vars => DmaProgress'
  <1> SUFFICES ASSUME DmaProgress, [CfgNext]_vars PROVE DmaProgress'
    OBVIOUS
  <1>1. CASE SauStep
    BY <1>1 DEF SauStep, SelectRegion, WriteRbar, WriteRlar, EnableSau, RouteFaults,
        Goto, DmaProgress
  <1>2. CASE DmaMpuCtrl
    BY <1>2, Zenon DEF DmaMpuCtrl, DmaProgress
  <1>5. CASE WriteBar \/ WriteLar \/ AcStep \/ CopyImage
    <2>1. dmaDefaultS' = dmaDefaultS
      BY <1>5 DEF AcStep, WriteBar, WriteLar, CfgReset, GpioNsMask, OpenPeriph,
          CopyImage, dmaVars
    <2>2. pc \in {"BAR", "LAR", "CFGRESET", "GPIO", "PERIPH", "COPY", "BLXNS"}
      BY <1>5 DEF AcStep, WriteBar, WriteLar, CfgReset, GpioNsMask, OpenPeriph, CopyImage
    <2> QED
      BY <2>1, <2>2 DEF DmaProgress
  <1>3. CASE ProcessorReset
    BY <1>3 DEF ProcessorReset, Goto, DmaProgress
  <1>4. CASE UNCHANGED vars
    BY <1>4 DEF vars, cfgVars, dmaVars, DmaProgress
  <1> QED
    BY <1>1, <1>2, <1>3, <1>4, <1>5 DEF CfgNext, ConfigStep, DmaStep

LEMMA StepAcProgress ==
    ConfigInv /\ AcProgress /\ CopyProgress /\ [CfgNext]_vars => AcProgress' /\ CopyProgress'
  <1> SUFFICES ASSUME ConfigInv, AcProgress, CopyProgress, [CfgNext]_vars
               PROVE  AcProgress' /\ CopyProgress'
    OBVIOUS
  <1> USE DEF ConfigInv, CfgTypeOK
  <1>1. CASE SauStep \/ DmaStep \/ CfgReset
    <2>1. pc' \notin {"PERIPH", "COPY", "BLXNS"} /\ (pc' = "GPIO" => idx' = 0)
      BY <1>1 DEF SauStep, DmaStep, SelectRegion, WriteRbar, WriteRlar, EnableSau,
          RouteFaults, DmaMpuCtrl, WriteBar, WriteLar, CfgReset, Goto
    <2> QED
      BY <2>1 DEF AcProgress, CopyProgress
  <1>2. CASE GpioNsMask
    <2>1. idx \in 0..1 /\ gpio' = [gpio EXCEPT ![idx] = "open"]
      BY <1>2 DEF GpioNsMask, PlaceOK
    <2>2. \/ idx = 1 /\ pc' = "PERIPH" /\ idx' = 0
          \/ idx = 0 /\ pc' = "GPIO" /\ idx' = 1
      BY <1>2, <2>1 DEF GpioNsMask, Goto
    <2>3. \A k \in 0..1 : gpio'[k] = IF k = idx THEN "open" ELSE gpio[k]
      BY <2>1 DEF AcOK
    <2> QED
      BY <1>2, <2>1, <2>2, <2>3 DEF GpioNsMask, AcProgress, CopyProgress
  <1>3. CASE OpenPeriph
    <2>1. idx \in 0..(AcRegs - 1) /\ ac' = [ac EXCEPT ![idx] = "open"] /\ gpio' = gpio
      BY <1>3, ConfigAssumption DEF OpenPeriph, PlaceOK
    <2>2. \/ idx = AcRegs - 1 /\ pc' = "COPY" /\ idx' = 0
          \/ idx < AcRegs - 1 /\ pc' = "PERIPH" /\ idx' = idx + 1
      BY <1>3, <2>1, ConfigAssumption DEF OpenPeriph, Goto
    <2>3. \A k \in 0..(AcRegs - 1) : ac'[k] = IF k = idx THEN "open" ELSE ac[k]
      BY <2>1 DEF AcOK
    <2>4. \A k \in 0..1 : gpio'[k] = "open"
      BY <1>3, <2>1 DEF OpenPeriph, AcProgress
    <2>5. \A k \in 0..(AcRegs - 1) : k < idx => ac[k] = "open"
      BY <1>3 DEF OpenPeriph, AcProgress
    <2>6. CASE idx = AcRegs - 1
      BY <2>2, <2>3, <2>4, <2>5, <2>6, ConfigAssumption DEF AcProgress, CopyProgress
    <2>7. CASE idx < AcRegs - 1
      BY <2>1, <2>2, <2>3, <2>4, <2>5, <2>7, ConfigAssumption DEF AcProgress, CopyProgress
    <2> QED
      BY <2>1, <2>6, <2>7, ConfigAssumption
  <1>4. CASE CopyImage
    <2>1. /\ idx \in 0..(CopyBlocks - 1) /\ nsRam' = [nsRam EXCEPT ![idx] = "image"]
          /\ UNCHANGED <<ac, gpio>>
      BY <1>4, ConfigAssumption DEF CopyImage, PlaceOK, acVars
    <2>2. \/ idx = CopyBlocks - 1 /\ pc' = "BLXNS" /\ idx' = 0
          \/ idx < CopyBlocks - 1 /\ pc' = "COPY" /\ idx' = idx + 1
      BY <1>4, <2>1, ConfigAssumption DEF CopyImage, Goto
    <2>3. \A b \in 0..(CopyBlocks - 1) : nsRam'[b] = IF b = idx THEN "image" ELSE nsRam[b]
      BY <2>1 DEF RestOK
    <2>6. /\ \A k \in 0..1 : gpio[k] = "open"
          /\ \A k \in 0..(AcRegs - 1) : ac[k] = "open"
      BY <1>4 DEF CopyImage, AcProgress
    <2>4. AcProgress'
      BY <2>1, <2>6 DEF AcProgress
    <2>5. CopyProgress'
      BY <1>4, <2>1, <2>2, <2>3, ConfigAssumption DEF CopyImage, CopyProgress
    <2> QED
      BY <2>4, <2>5
  <1>5. CASE ProcessorReset
    BY <1>5 DEF ProcessorReset, Goto, AcProgress, CopyProgress
  <1>6. CASE UNCHANGED vars
    BY <1>6 DEF vars, cfgVars, acVars, AcProgress, CopyProgress
  <1> QED
    BY <1>1, <1>2, <1>3, <1>4, <1>5, <1>6 DEF CfgNext, ConfigStep, AcStep

THEOREM ProgressInvariant == CfgSpec => [](ConfigInv /\ Progress)
  <1>1. CfgInit => ConfigInv /\ Progress
    BY InitConfigInv, InitProgress
  <1>2. ConfigInv /\ Progress /\ [CfgNext]_vars => (ConfigInv /\ Progress)'
    BY StepConfigInv, StepSauProgress, StepDmaProgress, StepAcProgress DEF Progress
  <1> QED
    BY <1>1, <1>2, PTL DEF CfgSpec

-----------------------------------------------------------------------------
(* The four regions of the table are disjoint, so wherever one of them      *)
(* matches it is the only one.                                              *)
LEMMA TableDisjoint ==
    ASSUME NEW a \in Nat, NEW i \in 0..3, NEW j \in 0..3,
           Hit(SauTable[i], a), Hit(SauTable[j], a)
    PROVE  i = j
  BY LayoutFacts DEF Hit, SauTable, Open, Callable, Between

LEMMA TableIsLayout ==
    ASSUME NEW a \in Nat, a < PPB_BASE
    PROVE  /\ Hit(SauTable[0], a) <=> InVeneers(a)
           /\ Hit(SauTable[1], a) <=> InNsFlash(a)
           /\ Hit(SauTable[2], a) <=> InNsRam(a)
           /\ Hit(SauTable[3], a) <=> InPeriph(a)
           /\ SauTable[0].nsc
           /\ ~SauTable[1].nsc /\ ~SauTable[2].nsc /\ ~SauTable[3].nsc
  BY DEF Hit, SauTable, Open, Callable, InVeneers, InNsFlash, InNsRam, InPeriph

LEMMA ProgrammedAttr ==
    ASSUME SauPartial, sauOn, \A i \in 0..3 : sau[i] = SauTable[i],
           NEW a \in Nat, a > ROM_LIMIT
    PROVE  Attr(a) = MapOfLayout(a)
  <1>1. CASE a >= PPB_BASE
    BY <1>1 DEF Attr, SauAttr, MapOfLayout
  <1>2. CASE ~(a >= PPB_BASE)
    <2>1. a < PPB_BASE
      BY <1>2, LayoutFacts
    <2>2. \A i \in RegionIndex \ (0..3) : ~Hit(sau[i], a)
      <3>1. \A i \in 4..6 : ~Hit(sau[i], a)
        BY DEF SauPartial, Hit
      <3>2. ~Hit(sau[7], a)
        BY LayoutFacts DEF SauPartial, BootromRegion, Open, Callable, Off,
            Hit, Between
      <3>3. RegionIndex \ (0..3) = (4..6) \cup {7}
        BY DEF RegionIndex
      <3> QED
        BY <3>1, <3>2, <3>3
    <2>3. 0..3 \subseteq RegionIndex
      BY DEF RegionIndex
    <2>4. ASSUME NEW i \in 0..3, Hit(SauTable[i], a)
          PROVE  Attr(a) = IF SauTable[i].nsc THEN "NSC" ELSE "NS"
      <3>1. Hit(sau[i], a) /\ \A j \in RegionIndex \ {i} : ~Hit(sau[j], a)
        BY <2>2, <2>4, TableDisjoint
      <3>2. (\E k \in RegionIndex : Hit(sau[k], a) /\ sau[k].nsc) <=> SauTable[i].nsc
        BY <2>3, <3>1
      <3>3. \E k \in RegionIndex : /\ Hit(sau[k], a)
                                   /\ \A j \in RegionIndex \ {k} : ~Hit(sau[j], a)
        BY <2>3, <3>1
      <3> QED
        BY <1>2, <3>2, <3>3, Zenon DEF Attr, SauAttr
    <2>5. CASE InVeneers(a)
      BY <2>1, <2>4, <2>5, TableIsLayout, <1>2 DEF MapOfLayout
    <2>6. CASE ~InVeneers(a) /\ (InNsFlash(a) \/ InNsRam(a) \/ InPeriph(a))
      <3>1. Attr(a) = "NS"
        BY <2>1, <2>4, <2>6, TableIsLayout
      <3> QED
        BY <1>2, <2>6, <3>1 DEF MapOfLayout
    <2>7. CASE ~InVeneers(a) /\ ~(InNsFlash(a) \/ InNsRam(a) \/ InPeriph(a))
      <3>1. \A i \in 0..3 : ~Hit(sau[i], a)
        <4>1. 0..3 = {0, 1, 2, 3}
          OBVIOUS
        <4> QED
          BY <4>1, <2>1, <2>7, TableIsLayout
      <3>2. ~ \E k \in RegionIndex : /\ Hit(sau[k], a)
                                     /\ \A j \in RegionIndex \ {k} : ~Hit(sau[j], a)
        BY <2>2, <3>1
      <3>3. Attr(a) = "S"
        BY <1>2, <3>2, Zenon DEF Attr, SauAttr
      <3> QED
        BY <1>2, <2>7, <3>3 DEF MapOfLayout
    <2> QED
      BY <2>5, <2>6, <2>7
  <1> QED
    BY <1>1, <1>2

LEMMA ProgressIsReady == ConfigInv /\ Progress => HandOverReady
  <1> SUFFICES ASSUME ConfigInv, Progress, pc = "BLXNS" PROVE Ready
    BY DEF HandOverReady
  <1>1. sauOn /\ bfhfnmins /\ \A i \in 0..3 : sau[i] = SauTable[i]
    BY DEF Progress, SauProgress, SauLoop
  <1>2. \A a \in Addr : a > ROM_LIMIT => Attr(a) = MapOfLayout(a)
    BY <1>1, ProgrammedAttr, ConfigAssumption DEF ConfigInv
  <1>3. \A k \in DOMAIN ac : ac[k] = "open"
    BY DEF Progress, AcProgress, ConfigInv, CfgTypeOK, AcOK
  <1>4. \A k \in DOMAIN gpio : gpio[k] = "open"
    BY DEF Progress, AcProgress, ConfigInv, CfgTypeOK, AcOK
  <1>5. \A b \in DOMAIN nsRam : nsRam[b] = "image"
    BY DEF Progress, CopyProgress, ConfigInv, CfgTypeOK, RestOK
  <1>6. dmaDefaultS
    BY DEF Progress, DmaProgress
  <1> QED
    BY <1>1, <1>2, <1>3, <1>4, <1>5, <1>6 DEF Ready

(* At the branch to the Non-Secure image every unit is as the layout header *)
(* and the Secure image's main() intend, whatever a reset left in it.       *)
THEOREM HandOverAlwaysReady == CfgSpec => []HandOverReady
  BY ProgressIsReady, ProgressInvariant, PTL

-----------------------------------------------------------------------------
(* The whole example: MinimalTz. *)

(* The boot's units, and the boot program's place while it runs. *)
UnitsInv == SauOK /\ DmaOK /\ AcOK /\ RestOK /\ SauPartial /\ DmaPartial
PlaceInv ==
    /\ pc \in ConfigPc \cup NsPc \cup FaultPc
    /\ pc \in ConfigPc => PlaceOK /\ s_counter = 0
BootInv == UnitsInv /\ PlaceInv /\ Progress

(* What the Non-Secure program has got from the gate and published. *)
Claimed == mb["MAGIC"] = ALIVE /\ mb["LEAKED"] = 0
Counted == Claimed /\ mb["CNT1"] = 1 /\ mb["CNT2"] = 2 /\ s_counter = 2
Signed  == Counted /\ mb["SIGN_RC"] = 0 /\ mb["SIGN_R0"] = KEYED

(* Where the Non-Secure program stands says what its mailbox holds. *)
NsProgress ==
    /\ pc = "NS_ZERO" => /\ idx \in 0..6 /\ s_counter = 0
                         /\ \A i \in 1..7 : i <= idx => mb[MbOrder[i]] = 0
    /\ pc = "NS_ALIVE" => s_counter = 0 /\ \A f \in MbField : mb[f] = 0
    /\ pc = "NS_STAGE" =>
         \/ idx = 1 /\ s_counter = 0 /\ Claimed /\ mb["STAGE"] = 0
         \/ idx = 2 /\ Counted /\ mb["STAGE"] = 1
         \/ idx = 3 /\ Signed /\ mb["STAGE"] = 2
         \/ idx = BAD0 /\ Signed /\ mb["STAGE"] = 3
    /\ pc = "NS_COUNTER" =>
         /\ Claimed /\ mb["STAGE"] = 1
         /\ \/ idx = 1 /\ s_counter = 0
            \/ idx = 2 /\ s_counter = 1 /\ mb["CNT1"] = 1
    /\ pc \in {"NS_SIGN", "NS_R0"} => Counted /\ mb["STAGE"] = 2
    /\ pc = "NS_R0" => mb["SIGN_RC"] = 0
    /\ pc \in {"NS_READ"} \cup FaultPc => Signed /\ mb["STAGE"] = BAD0
    /\ pc # "NS_SPIN"

FullRecord ==
    [MARK |-> MARK, SFSR |-> SFSR_AUVIOL, CNT1 |-> 1, CNT2 |-> 2,
     SIGN_RC |-> 0, SIGN_R0 |-> KEYED, LEAKED |-> 0, STAGE |-> BAD0]

(* The handler has copied the first words of its record. *)
RecordProgress ==
    /\ pc = "SNAP" => /\ idx \in 1..7
                      /\ \A i \in 1..8 : i <= idx => sres[SrOrder[i]] = FullRecord[SrOrder[i]]
    /\ pc = "HALT" => \A i \in 1..8 : sres[SrOrder[i]] = FullRecord[SrOrder[i]]

DataOK == mb \in [MbField -> Int] /\ sres \in [SrField -> Int] /\ s_counter \in 0..2

RunInv == DataOK /\ MailboxConsistent /\ NsProgress /\ RecordProgress

TzInv == BootInv /\ RunInv

-----------------------------------------------------------------------------
LEMMA MbFields == MbField = {"MAGIC", "CNT1", "CNT2", "SIGN_RC", "SIGN_R0", "LEAKED", "STAGE"}
  <1>1. 1..7 = {1, 2, 3, 4, 5, 6, 7}
    OBVIOUS
  <1> QED
    BY <1>1 DEF MbField, MbOrder

LEMMA SrFields == SrField = {"MARK", "SFSR", "CNT1", "CNT2", "SIGN_RC", "SIGN_R0", "LEAKED", "STAGE"}
  <1>1. 1..8 = {1, 2, 3, 4, 5, 6, 7, 8}
    OBVIOUS
  <1> QED
    BY <1>1 DEF SrField, SrOrder

(* Once the boot is over, the Non-Secure program reaches its own RAM and    *)
(* the veneers, and nothing of the Secure RAM.                              *)
LEMMA Crossings ==
    ASSUME BootInv, pc \notin ConfigPc \/ pc = "BLXNS"
    PROVE  /\ NsMay(NS_MAILBOX_ADDR) /\ NsMay(NS_RAM_START) /\ NsMay(StackAddr)
           /\ MayCallGate /\ Attr(S_RAM_START) = "S" /\ ~NsMay(S_RAM_START)
  <1>1. SauPartial /\ sauOn /\ \A i \in 0..3 : sau[i] = SauTable[i]
    BY DEF BootInv, UnitsInv, Progress, SauProgress, SauLoop, ConfigPc
  <1>2. \A a \in Nat : a > ROM_LIMIT => Attr(a) = MapOfLayout(a)
    BY <1>1, ProgrammedAttr
  <1>3. ASSUME NEW a \in Nat, InNsRam(a)
        PROVE  NsMay(a)
    <2>1. a > ROM_LIMIT /\ ~(a >= PPB_BASE) /\ ~InVeneers(a)
      BY <1>3, LayoutFacts DEF InNsRam, InVeneers, Between
    <2> QED
      BY <1>2, <1>3, <2>1 DEF NsMay, MapOfLayout
  <1>4. NsMay(NS_MAILBOX_ADDR) /\ NsMay(NS_RAM_START) /\ NsMay(StackAddr)
    <2>1. InNsRam(NS_MAILBOX_ADDR) /\ NS_MAILBOX_ADDR \in Nat
      BY LayoutAssumption DEF InNsRam, Between, NS_RAM_LIMIT
    <2>2. InNsRam(NS_RAM_START) /\ InNsRam(NS_RAM_LIMIT)
      BY LayoutFacts DEF InNsRam, Between
    <2> QED
      BY <1>3, <2>1, <2>2, LayoutFacts DEF StackAddr
  <1>5. MayCallGate
    <2>1. VENEER_START > ROM_LIMIT /\ VENEER_START < PPB_BASE /\ InVeneers(VENEER_START)
      BY LayoutFacts DEF InVeneers, Between
    <2> QED
      BY <1>2, <2>1, LayoutFacts DEF MayCallGate, MapOfLayout
  <1>6. Attr(S_RAM_START) = "S"
    <2>1. SecureOwned(S_RAM_START)
      BY LayoutFacts DEF SecureOwned, InSRam, Between
    <2> QED
      BY <1>1, <2>1, SecureOwnedIsSecure, LayoutFacts
  <1> QED
    BY <1>4, <1>5, <1>6 DEF NsMay

-----------------------------------------------------------------------------
THEOREM InitTzInv == TzInit => TzInv
  <1> SUFFICES ASSUME TzInit PROVE TzInv
    OBVIOUS
  <1>1. ConfigInv /\ Progress
    BY InitConfigInv, InitProgress DEF TzInit
  <1>2. pc = "RNR" /\ s_counter = 0
    BY DEF TzInit, CfgInit
  <1>3. BootInv
    BY <1>1, <1>2 DEF BootInv, UnitsInv, PlaceInv, ConfigInv, CfgTypeOK, ConfigPc
  <1>4. DataOK
    BY ValueAssumption DEF TzInit, DataOK
  <1>5. mb["MAGIC"] # ALIVE
    BY MbFields, ValueAssumption DEF TzInit
  <1> QED
    BY <1>2, <1>3, <1>4, <1>5 DEF TzInv, RunInv, MailboxConsistent, NsProgress, RecordProgress, FaultPc

(* The boot's own steps, and the reset, from whatever was running.          *)
LEMMA StepBootInv ==
    ASSUME TzInv, [TzNext]_tzVars
    PROVE  BootInv'
  <1>1. CASE BootStep
    <2>1. pc \in ConfigPc
      BY <1>1 DEF BootStep, ConfigStep, SauStep, DmaStep, AcStep, SelectRegion, WriteRbar,
          WriteRlar, EnableSau, RouteFaults, DmaMpuCtrl, WriteBar, WriteLar, CfgReset,
          GpioNsMask, OpenPeriph, CopyImage, ConfigPc
    <2>2. ConfigInv /\ Progress
      BY <2>1 DEF TzInv, BootInv, UnitsInv, PlaceInv, ConfigInv, CfgTypeOK
    <2>3. CfgNext
      BY <1>1 DEF BootStep, CfgNext
    <2>4. ConfigInv' /\ Progress'
      BY <2>2, <2>3, StepConfigInv, StepSauProgress, StepDmaProgress, StepAcProgress
      DEF Progress
    <2>5. s_counter' = 0
      BY <1>1, <2>1 DEF BootStep, TzInv, BootInv, PlaceInv
    <2> QED
      BY <2>4, <2>5 DEF BootInv, UnitsInv, PlaceInv, ConfigInv, CfgTypeOK, PlaceOK
  <1>2. CASE NsStep \/ FaultStep \/ UNCHANGED tzVars
    <2>1. UNCHANGED <<cfgVars, resets>>
      BY <1>2 DEF NsStep, FaultStep, tzVars, vars
    <2>2. UNCHANGED <<rnr, sau, sauOn, bfhfnmins, dmaDefaultS, dma, ac, gpio, nsRam, resets>>
      BY <2>1 DEF cfgVars, sauVars, dmaVars, acVars
    <2>3. CASE UNCHANGED tzVars
      <3>1. UNCHANGED <<pc, idx, s_counter>>
        BY <2>3 DEF tzVars, vars
      <3> QED
        BY <2>2, <3>1 DEF TzInv, BootInv, UnitsInv, PlaceInv, Progress, SauOK, DmaOK, AcOK,
            RestOK, SauPartial, DmaPartial, PlaceOK, SauProgress, DmaProgress, AcProgress,
            CopyProgress
    <2>4. CASE NsStep \/ FaultStep
      <3>1. /\ pc \in {"BLXNS"} \cup NsPc \cup FaultPc
            /\ pc' \in NsPc \cup FaultPc
        BY <2>4 DEF NsStep, FaultStep, EnterNonSecure, ZeroMailbox, SayAlive, SetStage,
            CallCounter, CallSign, PackResult, IllegalRead, MarkFault, Snapshot, Publish,
            GotoIf, Goto, NsPc, FaultPc
      <3>2. pc \notin SauLoop \cup {"SAU_CTRL", "AIRCR"} /\ pc' \notin ConfigPc
        BY <3>1 DEF NsPc, FaultPc, ConfigPc, SauLoop
      <3>3. SauOK' /\ DmaOK' /\ AcOK' /\ RestOK'
        BY <2>2 DEF TzInv, BootInv, UnitsInv, SauOK, DmaOK, AcOK, RestOK
      <3>4. SauPartial' /\ DmaPartial'
        BY <2>2, <3>2 DEF TzInv, BootInv, UnitsInv, SauPartial, DmaPartial, ConfigPc
      <3>5. Progress'
        BY <2>2, <3>2 DEF TzInv, BootInv, Progress, SauProgress, DmaProgress, AcProgress,
            CopyProgress, ConfigPc, SauLoop
      <3> QED
        BY <3>1, <3>2, <3>3, <3>4, <3>5 DEF BootInv, UnitsInv, PlaceInv
    <2> QED
      BY <1>2, <2>3, <2>4
  <1>3. CASE Reset
    <2>1. ConfigInv'
      BY <1>3, ResetUnits DEF Reset, TzInv, BootInv, UnitsInv
    <2>2. Progress'
      BY <1>3 DEF Reset, ProcessorReset, Goto, Progress, SauProgress, DmaProgress,
          AcProgress, CopyProgress, SauLoop
    <2>3. s_counter' = 0
      BY <1>3 DEF Reset
    <2> QED
      BY <2>1, <2>2, <2>3 DEF BootInv, UnitsInv, PlaceInv, ConfigInv, CfgTypeOK, PlaceOK
  <1> QED
    BY <1>1, <1>2, <1>3 DEF TzNext, ProcessorStep

(* A store to the mailbox always goes through. *)
LEMMA Published ==
    ASSUME TzInv, pc \in NsPc, NEW f \in MbField, NEW v \in Int, NEW next, NEW i,
           Publish(f, v, next, i)
    PROVE  /\ pc' = next /\ idx' = i /\ mb' = [mb EXCEPT ![f] = v]
           /\ mb' \in [MbField -> Int]
           /\ \A g \in MbField : mb'[g] = IF g = f THEN v ELSE mb[g]
  <1>1. NsMay(NS_MAILBOX_ADDR)
    BY Crossings DEF TzInv, NsPc, ConfigPc
  <1>2. pc' = next /\ idx' = i /\ mb' = [mb EXCEPT ![f] = v] /\ mb \in [MbField -> Int]
    BY <1>1 DEF Publish, GotoIf, Goto, TzInv, RunInv, DataOK
  <1> QED
    BY <1>2

LEMMA StepEnter ==
    ASSUME TzInv, EnterNonSecure, UNCHANGED sres
    PROVE  RunInv'
  <1>1. pc = "BLXNS" /\ pc' = "NS_ZERO" /\ idx' = 0 /\ UNCHANGED <<mb, sres, s_counter>>
    BY Crossings DEF EnterNonSecure, GotoIf, Goto, TzInv
  <1>2. s_counter = 0
    BY <1>1 DEF TzInv, BootInv, PlaceInv, ConfigPc
  <1> QED
    BY <1>1, <1>2 DEF TzInv, RunInv, DataOK, MailboxConsistent, NsProgress, RecordProgress, FaultPc

LEMMA StepZero ==
    ASSUME TzInv, ZeroMailbox, UNCHANGED sres
    PROVE  RunInv'
  <1>1. pc = "NS_ZERO" /\ idx \in 0..6 /\ s_counter = 0 /\ s_counter' = 0
    BY DEF ZeroMailbox, TzInv, RunInv, NsProgress
  <1>2. MbOrder[idx + 1] \in MbField
    BY <1>1 DEF MbField
  <1>3. /\ mb' \in [MbField -> Int]
        /\ \A g \in MbField : mb'[g] = IF g = MbOrder[idx + 1] THEN 0 ELSE mb[g]
        /\ IF idx = 6 THEN pc' = "NS_ALIVE" ELSE pc' = "NS_ZERO" /\ idx' = idx + 1
    BY <1>1, <1>2, Published DEF ZeroMailbox, NsPc
  <1>4. \A i \in 1..7 : i <= idx => mb[MbOrder[i]] = 0
    BY <1>1 DEF TzInv, RunInv, NsProgress
  <1>5. \A i \in 1..7 : MbOrder[i] \in MbField
    BY DEF MbField
  <1>6. \A i \in 1..7 : i <= idx + 1 => mb'[MbOrder[i]] = 0
    BY <1>1, <1>3, <1>4, <1>5
  <1>7. mb'["MAGIC"] = 0
    BY <1>1, <1>6 DEF MbOrder
  <1>8. pc' = "NS_ALIVE" => \A f \in MbField : mb'[f] = 0
    BY <1>1, <1>3, <1>6 DEF MbField
  <1>9. pc' = "NS_ZERO" => idx' \in 0..6 /\ \A i \in 1..7 : i <= idx' => mb'[MbOrder[i]] = 0
    BY <1>1, <1>3, <1>6
  <1>10. pc' \in {"NS_ZERO", "NS_ALIVE"}
    BY <1>3
  <1>11. DataOK'
    BY <1>1, <1>3 DEF TzInv, RunInv, DataOK
  <1>12. MailboxConsistent'
    BY <1>7 DEF MailboxConsistent, ALIVE
  <1> QED
    BY <1>1, <1>8, <1>9, <1>10, <1>11, <1>12 DEF RunInv, NsProgress, RecordProgress, FaultPc

LEMMA StepAlive ==
    ASSUME TzInv, SayAlive, UNCHANGED sres
    PROVE  RunInv'
  <1>1. pc = "NS_ALIVE" /\ s_counter = 0 /\ s_counter' = 0 /\ \A f \in MbField : mb[f] = 0
    BY DEF SayAlive, TzInv, RunInv, NsProgress
  <1>2. /\ pc' = "NS_STAGE" /\ idx' = 1 /\ mb' \in [MbField -> Int]
        /\ \A g \in MbField : mb'[g] = IF g = "MAGIC" THEN ALIVE ELSE mb[g]
    BY <1>1, Published, MbFields DEF SayAlive, NsPc, ALIVE
  <1>3. Claimed' /\ mb'["STAGE"] = 0
    BY <1>1, <1>2, MbFields DEF Claimed
  <1> QED
    BY <1>1, <1>2, <1>3 DEF TzInv, RunInv, DataOK, MailboxConsistent, Claimed, NsProgress,
        RecordProgress, FaultPc, BAD0

LEMMA StepStage ==
    ASSUME TzInv, SetStage, UNCHANGED sres
    PROVE  RunInv'
  <1>1. pc = "NS_STAGE" /\ s_counter' = s_counter
    BY DEF SetStage
  <1>2. \/ idx = 1 /\ s_counter = 0 /\ Claimed
        \/ idx = 2 /\ Counted
        \/ idx = 3 /\ Signed
        \/ idx = BAD0 /\ Signed
    BY <1>1 DEF TzInv, RunInv, NsProgress
  <1>3. \E v \in {1, 2, 3, BAD0} :
          /\ v = (IF idx = BAD0 THEN BAD0 ELSE idx)
          /\ mb' \in [MbField -> Int]
          /\ \A g \in MbField : mb'[g] = IF g = "STAGE" THEN v ELSE mb[g]
          /\ \/ v = 1 /\ pc' = "NS_COUNTER" /\ idx' = 1
             \/ v = 2 /\ pc' = "NS_SIGN"
             \/ v = 3 /\ pc' = "NS_STAGE" /\ idx' = BAD0
             \/ v = BAD0 /\ idx = BAD0 /\ pc' = "NS_READ"
    <2>1. "STAGE" \in MbField /\ {1, 2, 3, BAD0} \subseteq Int /\ pc \in NsPc
      BY <1>1, MbFields DEF BAD0, NsPc
    <2>2. CASE idx = 1
      BY <2>1, <2>2, <1>2, Published DEF SetStage, BAD0
    <2>3. CASE idx = 2
      BY <2>1, <2>3, <1>2, Published DEF SetStage, BAD0
    <2>4. CASE idx = 3
      BY <2>1, <2>4, <1>2, Published DEF SetStage, BAD0
    <2>5. CASE idx = BAD0
      BY <2>1, <2>5, <1>2, Published DEF SetStage, BAD0
    <2> QED
      BY <1>2, <2>2, <2>3, <2>4, <2>5
  <1>4. /\ \A g \in MbField \ {"STAGE"} : mb'[g] = mb[g]
        /\ mb' \in [MbField -> Int]
    BY <1>3
  <1>5. (Claimed => Claimed') /\ (Counted => Counted') /\ (Signed => Signed')
    BY <1>1, <1>4, MbFields DEF Claimed, Counted, Signed
  <1>6. \/ idx = 1 /\ pc' = "NS_COUNTER" /\ idx' = 1 /\ mb'["STAGE"] = 1 /\ s_counter' = 0 /\ Claimed'
        \/ idx = 2 /\ pc' = "NS_SIGN" /\ mb'["STAGE"] = 2 /\ Counted'
        \/ idx = 3 /\ pc' = "NS_STAGE" /\ idx' = BAD0 /\ mb'["STAGE"] = 3 /\ Signed'
        \/ idx = BAD0 /\ pc' = "NS_READ" /\ mb'["STAGE"] = BAD0 /\ Signed'
    BY <1>1, <1>2, <1>3, <1>5, MbFields DEF BAD0, Signed, Counted
  <1>7. DataOK'
    BY <1>1, <1>4 DEF TzInv, RunInv, DataOK
  <1>8. MailboxConsistent'
    BY <1>6 DEF MailboxConsistent, Claimed, Counted, Signed, BAD0
  <1>9. NsProgress'
    BY <1>6 DEF NsProgress, FaultPc
  <1>10. RecordProgress'
    BY <1>6 DEF RecordProgress
  <1> QED
    BY <1>7, <1>8, <1>9, <1>10 DEF RunInv

LEMMA StepCounter ==
    ASSUME TzInv, CallCounter, UNCHANGED sres
    PROVE  RunInv'
  <1>1. pc = "NS_COUNTER" /\ Claimed /\ mb["STAGE"] = 1
    BY DEF CallCounter, TzInv, RunInv, NsProgress
  <1>2. MayCallGate /\ pc \in NsPc
    BY <1>1, Crossings DEF TzInv, ConfigPc, NsPc
  <1>3. \/ idx = 1 /\ s_counter = 0
        \/ idx = 2 /\ s_counter = 1 /\ mb["CNT1"] = 1
    BY <1>1 DEF TzInv, RunInv, NsProgress
  <1>4. CASE idx = 1
    <2>1. /\ s_counter' = 1 /\ pc' = "NS_COUNTER" /\ idx' = 2 /\ mb' \in [MbField -> Int]
          /\ \A g \in MbField : mb'[g] = IF g = "CNT1" THEN 1 ELSE mb[g]
      <3>1. s_counter = 0
        BY <1>3, <1>4
      <3> QED
        BY <1>2, <1>4, <3>1, Published, MbFields DEF CallCounter
    <2>2. Claimed' /\ mb'["STAGE"] = 1 /\ mb'["CNT1"] = 1
      BY <1>1, <2>1, MbFields DEF Claimed
    <2> QED
      BY <2>1, <2>2 DEF RunInv, DataOK, MailboxConsistent, Claimed, NsProgress, TzInv,
          RecordProgress, FaultPc, BAD0
  <1>5. CASE idx = 2
    <2>1. /\ s_counter' = 2 /\ pc' = "NS_STAGE" /\ idx' = 2 /\ mb' \in [MbField -> Int]
          /\ \A g \in MbField : mb'[g] = IF g = "CNT2" THEN 2 ELSE mb[g]
      <3>1. s_counter = 1
        BY <1>3, <1>5
      <3> QED
        BY <1>2, <1>5, <3>1, Published, MbFields DEF CallCounter
    <2>2. Counted' /\ mb'["STAGE"] = 1
      BY <1>1, <1>3, <1>5, <2>1, MbFields DEF Claimed, Counted
    <2> QED
      BY <2>1, <2>2 DEF RunInv, DataOK, MailboxConsistent, Claimed, Counted, NsProgress,
          TzInv, RecordProgress, FaultPc, BAD0
  <1> QED
    BY <1>3, <1>4, <1>5

LEMMA StepSign ==
    ASSUME TzInv, CallSign, UNCHANGED sres
    PROVE  RunInv'
  <1>1. pc = "NS_SIGN" /\ Counted /\ mb["STAGE"] = 2 /\ s_counter' = s_counter
    BY DEF CallSign, TzInv, RunInv, NsProgress
  <1>2. MayCallGate /\ SignResult = 0 /\ pc \in NsPc
    BY <1>1, Crossings DEF TzInv, ConfigPc, NsPc, SignResult
  <1>3. /\ pc' = "NS_R0" /\ mb' \in [MbField -> Int]
        /\ \A g \in MbField : mb'[g] = IF g = "SIGN_RC" THEN 0 ELSE mb[g]
    BY <1>2, Published, MbFields DEF CallSign
  <1>4. Counted' /\ mb'["STAGE"] = 2 /\ mb'["SIGN_RC"] = 0
    BY <1>1, <1>3, MbFields DEF Counted, Claimed
  <1> QED
    BY <1>1, <1>3, <1>4 DEF RunInv, DataOK, MailboxConsistent, Claimed, Counted, NsProgress,
        TzInv, RecordProgress, FaultPc, BAD0

LEMMA StepPack ==
    ASSUME TzInv, PackResult, UNCHANGED sres
    PROVE  RunInv'
  <1>1. /\ pc = "NS_R0" /\ Counted /\ mb["STAGE"] = 2 /\ mb["SIGN_RC"] = 0
        /\ s_counter' = s_counter /\ pc \in NsPc
    BY DEF PackResult, TzInv, RunInv, NsProgress, NsPc
  <1>2. /\ pc' = "NS_STAGE" /\ idx' = 3 /\ mb' \in [MbField -> Int]
        /\ \A g \in MbField : mb'[g] = IF g = "SIGN_R0" THEN KEYED ELSE mb[g]
    BY <1>1, Published, MbFields, ValueAssumption DEF PackResult
  <1>3. Signed' /\ mb'["STAGE"] = 2
    BY <1>1, <1>2, MbFields DEF Signed, Counted, Claimed
  <1> QED
    BY <1>1, <1>2, <1>3 DEF RunInv, DataOK, MailboxConsistent, Claimed, Counted, Signed,
        NsProgress, TzInv, RecordProgress, FaultPc, BAD0

LEMMA StepRead ==
    ASSUME TzInv, IllegalRead, UNCHANGED sres
    PROVE  RunInv' /\ pc' = "MARK"
  <1>1. pc = "NS_READ" /\ Signed /\ mb["STAGE"] = BAD0 /\ s_counter' = s_counter
    BY DEF IllegalRead, TzInv, RunInv, NsProgress
  <1>2. ~NsMay(S_RAM_START)
    BY <1>1, Crossings DEF TzInv, ConfigPc
  <1>3. pc' = "MARK" /\ mb' = mb
    BY <1>2 DEF IllegalRead, GotoIf, Goto
  <1>4. Signed' /\ mb'["STAGE"] = BAD0
    BY <1>1, <1>3 DEF Signed, Counted, Claimed
  <1> QED
    BY <1>1, <1>3, <1>4 DEF RunInv, DataOK, MailboxConsistent, NsProgress, TzInv,
        RecordProgress, FaultPc

-----------------------------------------------------------------------------
(* The handler's loop.  s_result is an 8-word record filled in order.       *)
LEMMA StepMark ==
    ASSUME TzInv, MarkFault, UNCHANGED <<mb, s_counter>>
    PROVE  RunInv'
  <1>1. /\ pc = "MARK" /\ pc' = "SNAP" /\ idx' = 1
        /\ Signed /\ mb["STAGE"] = BAD0 /\ sres \in [SrField -> Int]
        /\ sres' = [sres EXCEPT !["MARK"] = MARK]
    BY DEF MarkFault, Goto, TzInv, RunInv, DataOK, NsProgress, FaultPc
  <1>2. sres' \in [SrField -> Int] /\ sres'["MARK"] = MARK
    BY <1>1, SrFields DEF MARK
  <1>3. \A i \in 1..8 : i <= 1 => sres'[SrOrder[i]] = FullRecord[SrOrder[i]]
    BY <1>2 DEF SrOrder, FullRecord
  <1>4. Signed' /\ mb'["STAGE"] = BAD0
    BY <1>1 DEF Signed, Counted, Claimed
  <1> QED
    BY <1>1, <1>2, <1>3, <1>4 DEF RunInv, DataOK, MailboxConsistent, NsProgress, TzInv,
        RecordProgress, FaultPc

(* The words the handler copies are those of the record. *)
LEMMA CopiedWord ==
    ASSUME Signed, mb["STAGE"] = BAD0, NEW i \in 1..7
    PROVE  /\ (IF i = 1 THEN SFSR_AUVIOL ELSE mb[MbOrder[i]]) = FullRecord[SrOrder[i + 1]]
           /\ FullRecord[SrOrder[i + 1]] \in Int
  <1>1. i \in {1, 2, 3, 4, 5, 6, 7}
    OBVIOUS
  <1>2. CASE i = 1
    BY <1>2 DEF SrOrder, FullRecord, SFSR_AUVIOL
  <1>3. CASE i = 2
    BY <1>3 DEF MbOrder, SrOrder, FullRecord, Signed, Counted
  <1>4. CASE i = 3
    BY <1>4 DEF MbOrder, SrOrder, FullRecord, Signed, Counted
  <1>5. CASE i = 4
    BY <1>5 DEF MbOrder, SrOrder, FullRecord, Signed
  <1>6. CASE i = 5
    BY <1>6, ValueAssumption DEF MbOrder, SrOrder, FullRecord, Signed
  <1>7. CASE i = 6
    BY <1>7 DEF MbOrder, SrOrder, FullRecord, Signed, Counted, Claimed
  <1>8. CASE i = 7
    BY <1>8 DEF MbOrder, SrOrder, FullRecord, BAD0
  <1> QED
    BY <1>1, <1>2, <1>3, <1>4, <1>5, <1>6, <1>7, <1>8

(* No two words of the record have one name. *)
LEMMA SrOrderInjective ==
    ASSUME NEW i \in 1..8, NEW j \in 1..8, SrOrder[i] = SrOrder[j]
    PROVE  i = j
  <1>1. i \in {1, 2, 3, 4, 5, 6, 7, 8} /\ j \in {1, 2, 3, 4, 5, 6, 7, 8}
    OBVIOUS
  <1> QED
    BY <1>1 DEF SrOrder

LEMMA StepSnapshot ==
    ASSUME TzInv, Snapshot, UNCHANGED <<mb, s_counter>>
    PROVE  RunInv'
  <1>1. /\ pc = "SNAP" /\ idx \in 1..7 /\ idx + 1 \in 1..8
        /\ Signed /\ mb["STAGE"] = BAD0 /\ sres \in [SrField -> Int]
        /\ IF idx = 7 THEN pc' = "HALT" ELSE pc' = "SNAP" /\ idx' = idx + 1
    BY DEF Snapshot, Goto, TzInv, RunInv, DataOK, NsProgress, RecordProgress, FaultPc
  <1> DEFINE w == FullRecord[SrOrder[idx + 1]]
  <1>2. sres' = [sres EXCEPT ![SrOrder[idx + 1]] = w] /\ w \in Int
    BY <1>1, CopiedWord DEF Snapshot
  <1>3. \A i \in 1..8 : i <= idx => sres[SrOrder[i]] = FullRecord[SrOrder[i]]
    BY <1>1 DEF TzInv, RunInv, RecordProgress
  <1>4. \A i \in 1..8 : SrOrder[i] \in SrField
    BY DEF SrField
  <1>5. sres' \in [SrField -> Int]
    BY <1>1, <1>2, <1>4
  <1>6. sres'[SrOrder[idx + 1]] = FullRecord[SrOrder[idx + 1]]
    BY <1>1, <1>2, <1>4
  <1>7. \A i \in 1..8 : i <= idx => sres'[SrOrder[i]] = FullRecord[SrOrder[i]]
    <2> SUFFICES ASSUME NEW i \in 1..8, i <= idx
                 PROVE  sres'[SrOrder[i]] = FullRecord[SrOrder[i]]
      OBVIOUS
    <2>1. SrOrder[i] # SrOrder[idx + 1]
      BY <1>1, SrOrderInjective
    <2> QED
      BY <1>1, <1>2, <1>3, <1>4, <2>1
  <1>8. \A i \in 1..8 : i <= idx + 1 => sres'[SrOrder[i]] = FullRecord[SrOrder[i]]
    BY <1>1, <1>6, <1>7
  <1>9. RecordProgress'
    BY <1>1, <1>8 DEF RecordProgress
  <1>10. Signed' /\ mb'["STAGE"] = BAD0
    BY <1>1 DEF Signed, Counted, Claimed
  <1>11. NsProgress' /\ DataOK' /\ MailboxConsistent'
    BY <1>1, <1>5, <1>10 DEF NsProgress, FaultPc, TzInv, RunInv, DataOK, MailboxConsistent
  <1> QED
    BY <1>9, <1>11 DEF RunInv

LEMMA StepRunInv ==
    ASSUME TzInv, [TzNext]_tzVars
    PROVE  RunInv'
  <1>1. CASE BootStep
    <2>1. pc \in ConfigPc /\ UNCHANGED <<mb, sres, s_counter>>
      BY <1>1 DEF BootStep, ConfigStep, SauStep, DmaStep, AcStep, SelectRegion, WriteRbar,
          WriteRlar, EnableSau, RouteFaults, DmaMpuCtrl, WriteBar, WriteLar, CfgReset,
          GpioNsMask, OpenPeriph, CopyImage, ConfigPc
    <2>2. pc' \in ConfigPc
      BY <1>1 DEF BootStep, ConfigStep, SauStep, DmaStep, AcStep, SelectRegion, WriteRbar,
          WriteRlar, EnableSau, RouteFaults, DmaMpuCtrl, WriteBar, WriteLar, CfgReset,
          GpioNsMask, OpenPeriph, CopyImage, ConfigPc, Goto
    <2> QED
      BY <2>1, <2>2 DEF TzInv, RunInv, DataOK, MailboxConsistent, NsProgress,
          RecordProgress, FaultPc, ConfigPc
  <1>2. CASE NsStep
    BY <1>2, StepEnter, StepZero, StepAlive, StepStage, StepCounter, StepSign, StepPack,
       StepRead DEF NsStep
  <1>3. CASE FaultStep
    BY <1>3, StepMark, StepSnapshot DEF FaultStep
  <1>4. CASE Reset
    <2>1. pc' = "RNR" /\ mb' = mb /\ s_counter' = 0
      BY <1>4 DEF Reset, ProcessorReset, Goto
    <2>2. sres' \in [SrField -> Int]
      BY <1>4 DEF Reset, TzInv, RunInv, DataOK
    <2> QED
      BY <2>1, <2>2 DEF TzInv, RunInv, DataOK, MailboxConsistent, NsProgress,
          RecordProgress, FaultPc
  <1>5. CASE UNCHANGED tzVars
    <2>1. UNCHANGED <<pc, idx, mb, sres, s_counter>>
      BY <1>5 DEF tzVars, vars
    <2> QED
      BY <2>1 DEF TzInv, RunInv, DataOK, MailboxConsistent, NsProgress, RecordProgress,
          Claimed, Counted, Signed, FaultPc
  <1> QED
    BY <1>1, <1>2, <1>3, <1>4, <1>5 DEF TzNext, ProcessorStep

LEMMA StepTzInv == TzInv /\ [TzNext]_tzVars => TzInv'
  BY StepBootInv, StepRunInv DEF TzInv

THEOREM TzInvariant == TzSpec => []TzInv
  BY InitTzInv, StepTzInv, PTL DEF TzSpec

-----------------------------------------------------------------------------
(* Type correctness of the whole example: every loop stays in its range and *)
(* the counter never runs ahead of the two calls of a run.                  *)
THEOREM TzTypeCorrect == TzSpec => []TzTypeOK
  <1>1. TzInv => TzTypeOK
    BY DEF TzInv, BootInv, UnitsInv, PlaceInv, RunInv, DataOK, TzTypeOK
  <1> QED
    BY <1>1, TzInvariant, PTL

(* Secure flash, RAM and scratch stay Secure for the processor, and Secure  *)
(* flash and RAM, from the write of mpu_ctrl on, out of the reach of        *)
(* Non-Secure DMA (the scratch banks are not), while the Non-Secure program *)
(* runs, in the fault handler and in every later boot.                      *)
THEOREM RunStaysIsolated == TzSpec => [](SecureStaysSecure /\ DmaStaysOut)
  <1>1. TzInv => SecureStaysSecure /\ DmaStaysOut
    BY SecureOwnedIsSecure, DmaPartialStaysOut, ConfigAssumption
    DEF TzInv, BootInv, UnitsInv, SecureStaysSecure
  <1> QED
    BY <1>1, TzInvariant, PTL

(* Every hand-over finds the units and the image ready: also the one after  *)
(* a reset that came while the Non-Secure program or the handler ran.       *)
THEOREM EveryHandOverReady == TzSpec => []HandOverReady
  <1>1. TzInv => HandOverReady
    <2> SUFFICES ASSUME TzInv, pc = "BLXNS" PROVE HandOverReady
      BY DEF HandOverReady
    <2>1. ConfigInv /\ Progress
      BY DEF TzInv, BootInv, UnitsInv, PlaceInv, ConfigInv, CfgTypeOK, ConfigPc
    <2> QED
      BY <2>1, ProgressIsReady
  <1> QED
    BY <1>1, TzInvariant, PTL

(* A debugger that stops the chip anywhere reads a mailbox that claims no   *)
(* more than was done (the order of the stores in ns_main()).               *)
THEOREM MailboxNeverLies == TzSpec => []MailboxConsistent
  <1>1. TzInv => MailboxConsistent
    BY DEF TzInv, RunInv
  <1> QED
    BY <1>1, TzInvariant, PTL

LEMMA HaltRecord ==
    ASSUME TzInv, pc = "HALT"
    PROVE  /\ sres \in [SrField -> Int]
           /\ \A f \in SrField : sres[f] = FullRecord[f]
  BY DEF TzInv, RunInv, DataOK, RecordProgress, SrField

(* When the fault handler loops, s_result is the full record of this boot's *)
(* run, whatever the two mailboxes held before (isr_hardfault()).           *)
THEOREM RecordIsOfThisBoot == TzSpec => []RecordOfThisBoot
  <1>1. TzInv => RecordOfThisBoot
    <2> SUFFICES ASSUME TzInv, pc = "HALT" PROVE sres = FullRecord
      BY DEF RecordOfThisBoot, FullRecord
    <2>1. FullRecord = [f \in SrField |-> FullRecord[f]]
      BY SrFields DEF FullRecord
    <2>2. sres = [f \in SrField |-> sres[f]]
      BY HaltRecord
    <2> QED
      BY <2>1, <2>2, HaltRecord
  <1> QED
    BY <1>1, TzInvariant, PTL

-----------------------------------------------------------------------------
(* The safety half of ImplementsDemo: every behaviour of the example is one *)
(* of IsolationDemo.                                                        *)
LEMMA InitDemo == TzInit => Demo!DemoInit
  BY DEF TzInit, CfgInit, Demo!DemoInit, Demo!NoReport, BoundaryUp, HasSigned, Trespass,
     LeftBehind, ConfigPc, FaultPc

(* While the boot runs, the promise sees nothing but its initial state. *)
LEMMA BootView ==
    ASSUME pc \in ConfigPc
    PROVE  /\ BoundaryUp = FALSE /\ HasSigned = FALSE /\ Trespass = "none"
           /\ LeftBehind = Demo!NoReport
  BY DEF BoundaryUp, HasSigned, Trespass, LeftBehind, Demo!NoReport, ConfigPc, FaultPc

LEMMA BootDemo ==
    ASSUME TzInv, BootStep
    PROVE  UNCHANGED Demo!demoVars
  <1>1. pc \in ConfigPc /\ pc' \in ConfigPc /\ s_counter' = s_counter
    BY DEF BootStep, ConfigStep, SauStep, DmaStep, AcStep, SelectRegion, WriteRbar,
        WriteRlar, EnableSau, RouteFaults, DmaMpuCtrl, WriteBar, WriteLar, CfgReset,
        GpioNsMask, OpenPeriph, CopyImage, ConfigPc, Goto
  <1>2. BoundaryUp' = BoundaryUp
    BY <1>1, Zenon DEF BoundaryUp
  <1>3. HasSigned' = HasSigned
    <2>1. ~HasSigned /\ ~HasSigned'
      BY <1>1 DEF HasSigned, ConfigPc, FaultPc
    <2> QED
      BY <2>1, Zenon DEF HasSigned
  <1>4. Trespass' = Trespass /\ LeftBehind' = LeftBehind
    BY <1>1 DEF Trespass, LeftBehind, ConfigPc, FaultPc
  <1> QED
    BY <1>1, <1>2, <1>3, <1>4 DEF Demo!demoVars

LEMMA ResetDemo ==
    ASSUME Reset
    PROVE  Demo!Restart
  <1>1. pc' = "RNR" /\ s_counter' = 0
    BY DEF Reset, ProcessorReset, Goto
  <1>2. BoundaryUp' = FALSE
    BY <1>1 DEF BoundaryUp, ConfigPc
  <1>3. HasSigned' = FALSE
    BY <1>1 DEF HasSigned, FaultPc
  <1>4. Trespass' = "none" /\ LeftBehind' = Demo!NoReport
    BY <1>1 DEF Trespass, LeftBehind, FaultPc, Demo!NoReport
  <1> QED
    BY <1>1, <1>2, <1>3, <1>4 DEF Demo!Restart, Demo!demoVars

(* The boundary, once up, stays as it is while the client and the handler   *)
(* run: they write no register.                                             *)
LEMMA BoundaryStays ==
    ASSUME TzInv, pc \notin ConfigPc, pc' \notin ConfigPc, UNCHANGED cfgVars
    PROVE  BoundaryUp = TRUE /\ BoundaryUp' = BoundaryUp
  <1>1. BoundaryUp
    BY Crossings DEF TzInv, BoundaryUp, MayCallGate
  <1>2. sauOn' = sauOn /\ sau' = sau
    BY DEF cfgVars, sauVars
  <1>3. BoundaryUp'
    BY <1>1, <1>2 DEF BoundaryUp, Attr
  <1> QED
    BY <1>1, <1>3, Zenon DEF BoundaryUp

LEMMA EnterDemo ==
    ASSUME TzInv, EnterNonSecure, UNCHANGED <<cfgVars, resets, sres>>
    PROVE  Demo!RaiseBoundary
  <1>1. /\ pc = "BLXNS" /\ pc' = "NS_ZERO" /\ s_counter' = s_counter
        /\ Attr(S_RAM_START) = "S" /\ Attr(VENEER_START) = "NSC"
    BY Crossings DEF EnterNonSecure, GotoIf, Goto, TzInv, MayCallGate
  <1>2. ~BoundaryUp
    BY <1>1 DEF BoundaryUp, ConfigPc
  <1>3. BoundaryUp' = TRUE
    <2>1. sauOn' = sauOn /\ sau' = sau
      BY DEF cfgVars, sauVars
    <2>2. pc' \notin ConfigPc
      BY <1>1 DEF ConfigPc
    <2> QED
      BY <1>1, <2>1, <2>2 DEF BoundaryUp, Attr
  <1>4. HasSigned' = HasSigned /\ Trespass' = Trespass /\ LeftBehind' = LeftBehind
    BY <1>1 DEF HasSigned, Trespass, LeftBehind, FaultPc
  <1> QED
    BY <1>1, <1>2, <1>3, <1>4 DEF Demo!RaiseBoundary

(* The stores that lead from one call to the next are invisible. *)
LEMMA MailboxDemo ==
    ASSUME TzInv, ZeroMailbox \/ SayAlive \/ SetStage \/ PackResult,
           UNCHANGED <<cfgVars, resets, sres>>
    PROVE  UNCHANGED Demo!demoVars
  <1>1. /\ pc \in {"NS_ZERO", "NS_ALIVE", "NS_STAGE", "NS_R0"} /\ pc \in NsPc
        /\ s_counter' = s_counter
    BY DEF ZeroMailbox, SayAlive, SetStage, PackResult, NsPc
  <1>2. NsMay(NS_MAILBOX_ADDR)
    BY <1>1, Crossings DEF TzInv, ConfigPc
  <1>3. /\ pc' \in {"NS_ZERO", "NS_ALIVE", "NS_STAGE", "NS_COUNTER", "NS_SIGN", "NS_READ"}
        /\ pc = "NS_R0" => pc' = "NS_STAGE" /\ idx' = 3
        /\ pc \in {"NS_ZERO", "NS_ALIVE"} =>
             pc' \in {"NS_ZERO", "NS_ALIVE"} \/ (pc' = "NS_STAGE" /\ idx' = 1)
        /\ pc = "NS_STAGE" => \/ idx = 1 /\ pc' = "NS_COUNTER"
                              \/ idx = 2 /\ pc' = "NS_SIGN"
                              \/ idx = 3 /\ pc' = "NS_STAGE" /\ idx' = BAD0
                              \/ idx = BAD0 /\ pc' = "NS_READ"
    BY <1>2 DEF ZeroMailbox, SayAlive, SetStage, PackResult, Publish, GotoIf, Goto
  <1>4. BoundaryUp' = BoundaryUp
    BY <1>1, <1>3, BoundaryStays DEF ConfigPc
  <1>5. HasSigned' = HasSigned
    BY <1>1, <1>3 DEF HasSigned, FaultPc, BAD0
  <1>6. Trespass' = Trespass /\ LeftBehind' = LeftBehind
    BY <1>1, <1>3 DEF Trespass, LeftBehind, FaultPc
  <1> QED
    BY <1>1, <1>4, <1>5, <1>6 DEF Demo!demoVars

LEMMA CounterDemo ==
    ASSUME TzInv, CallCounter, UNCHANGED <<cfgVars, resets, sres>>
    PROVE  Demo!GiveCounter
  <1>1. pc = "NS_COUNTER" /\ MayCallGate /\ NsMay(NS_MAILBOX_ADDR)
    BY Crossings DEF CallCounter, TzInv, ConfigPc
  <1>2. /\ s_counter \in {0, 1} /\ s_counter' = s_counter + 1
        /\ pc' = "NS_COUNTER" \/ (pc' = "NS_STAGE" /\ idx' = 2)
    BY <1>1 DEF CallCounter, Publish, GotoIf, Goto, TzInv, RunInv, NsProgress
  <1>3. BoundaryUp = TRUE /\ BoundaryUp' = BoundaryUp
    BY <1>1, <1>2, BoundaryStays DEF ConfigPc
  <1>4. HasSigned' = HasSigned
    BY <1>1, <1>2 DEF HasSigned, FaultPc
  <1>5. Trespass = "none" /\ Trespass' = Trespass /\ LeftBehind' = LeftBehind
    BY <1>1, <1>2 DEF Trespass, LeftBehind, FaultPc
  <1> QED
    BY <1>2, <1>3, <1>4, <1>5 DEF Demo!GiveCounter

LEMMA SignDemo ==
    ASSUME TzInv, CallSign, UNCHANGED <<cfgVars, resets, sres>>
    PROVE  Demo!GiveSignature
  <1>1. pc = "NS_SIGN" /\ MayCallGate /\ NsMay(NS_MAILBOX_ADDR)
    BY Crossings DEF CallSign, TzInv, ConfigPc
  <1>2. s_counter = 2 /\ s_counter' = s_counter /\ pc' = "NS_R0"
    BY <1>1 DEF CallSign, Publish, GotoIf, Goto, TzInv, RunInv, NsProgress, Counted
  <1>3. BoundaryUp = TRUE /\ BoundaryUp' = BoundaryUp
    BY <1>1, <1>2, BoundaryStays DEF ConfigPc
  <1>4. ~HasSigned /\ HasSigned' = TRUE
    BY <1>1, <1>2 DEF HasSigned, FaultPc
  <1>5. Trespass = "none" /\ Trespass' = Trespass /\ LeftBehind' = LeftBehind
    BY <1>1, <1>2 DEF Trespass, LeftBehind, FaultPc
  <1> QED
    BY <1>2, <1>3, <1>4, <1>5 DEF Demo!GiveSignature

LEMMA ReadDemo ==
    ASSUME TzInv, IllegalRead, UNCHANGED <<cfgVars, resets, sres>>
    PROVE  Demo!BlockTrespass
  <1>1. pc = "NS_READ" /\ pc' = "MARK" /\ s_counter' = s_counter
    BY StepRead DEF IllegalRead
  <1>2. BoundaryUp' = BoundaryUp
    BY <1>1, BoundaryStays DEF ConfigPc
  <1>3. HasSigned = TRUE /\ HasSigned' = TRUE
    BY <1>1 DEF HasSigned, FaultPc
  <1>4. Trespass = "none" /\ Trespass' = "blocked" /\ LeftBehind' = LeftBehind
    BY <1>1 DEF Trespass, LeftBehind, FaultPc
  <1> QED
    BY <1>1, <1>2, <1>3, <1>4 DEF Demo!BlockTrespass

LEMMA FaultDemo ==
    ASSUME TzInv, TzInv', FaultStep
    PROVE  UNCHANGED Demo!demoVars \/ Demo!Publish
  <1>1. /\ pc \in {"MARK", "SNAP"} /\ pc' \in {"SNAP", "HALT"}
        /\ UNCHANGED <<cfgVars, mb, s_counter>>
    BY DEF FaultStep, MarkFault, Snapshot, Goto
  <1>2. BoundaryUp' = BoundaryUp
    BY <1>1, BoundaryStays DEF ConfigPc
  <1>3. HasSigned = TRUE /\ HasSigned' = TRUE
    BY <1>1 DEF HasSigned, FaultPc
  <1>4. Trespass = "blocked" /\ Trespass' = Trespass /\ LeftBehind = Demo!NoReport
    BY <1>1 DEF Trespass, LeftBehind, FaultPc, Demo!NoReport
  <1>5. CASE pc' = "SNAP"
    <2>1. LeftBehind' = LeftBehind
      BY <1>1, <1>5 DEF LeftBehind
    <2> QED
      BY <1>1, <1>2, <1>3, <1>4, <2>1 DEF Demo!demoVars
  <1>6. CASE pc' = "HALT"
    <2>1. /\ sres'["CNT1"] = 1 /\ sres'["CNT2"] = 2 /\ sres'["SIGN_R0"] = KEYED
          /\ sres'["LEAKED"] = 0
      BY <1>6, SrFields DEF TzInv, RunInv, RecordProgress, SrOrder, FullRecord
    <2>2. LeftBehind' = Demo!FullReport
      BY <1>6, <2>1 DEF LeftBehind, Demo!FullReport
    <2> QED
      BY <1>1, <1>2, <1>3, <1>4, <2>2 DEF Demo!Publish
  <1> QED
    BY <1>1, <1>5, <1>6

LEMMA StepDemo ==
    TzInv /\ TzInv' /\ [TzNext]_tzVars => [Demo!DemoStep \/ Demo!Restart]_(Demo!demoVars)
  <1> SUFFICES ASSUME TzInv, TzInv', [TzNext]_tzVars
               PROVE  Demo!DemoStep \/ Demo!Restart \/ UNCHANGED Demo!demoVars
    OBVIOUS
  <1>1. CASE BootStep
    BY <1>1, BootDemo
  <1>2. CASE NsStep
    BY <1>2, EnterDemo, MailboxDemo, CounterDemo, SignDemo, ReadDemo
    DEF NsStep, Demo!DemoStep
  <1>3. CASE FaultStep
    BY <1>3, FaultDemo DEF Demo!DemoStep
  <1>4. CASE Reset
    BY <1>4, ResetDemo
  <1>5. CASE UNCHANGED tzVars
    <2>1. UNCHANGED <<pc, idx, sau, sauOn, sres, s_counter>>
      BY <1>5 DEF tzVars, vars, cfgVars, sauVars
    <2>2. BoundaryUp' = BoundaryUp
      BY <2>1, Zenon DEF BoundaryUp, Attr
    <2>3. HasSigned' = HasSigned /\ Trespass' = Trespass /\ LeftBehind' = LeftBehind
      BY <2>1 DEF HasSigned, Trespass, LeftBehind
    <2> QED
      BY <2>1, <2>2, <2>3 DEF Demo!demoVars
  <1> QED
    BY <1>1, <1>2, <1>3, <1>4, <1>5 DEF TzNext, ProcessorStep

(* minimal-tz keeps the safety half of the promise of IsolationDemo on any  *)
(* layout: the boundary first, then two counters and one signature, then    *)
(* the blocked trespass and the full report, and nothing else in between.   *)
THEOREM DemoRefined ==
    TzSpec => Demo!DemoInit /\ [][Demo!DemoStep \/ Demo!Restart]_(Demo!demoVars)
  BY InitDemo, InitTzInv, StepTzInv, StepDemo, PTL DEF TzSpec
=============================================================================
