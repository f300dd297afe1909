--------------------------- MODULE TfmPortProofs ----------------------------
(***************************************************************************)
(* Proofs about the TF-M port: TargetCfg, the platform set-up, for every   *)
(* memory map with the headers' order, any lists of ACCESSCTRL registers   *)
(* and any number of resets; then TfmIsolation and TfmBoot, for any system *)
(* of partitions on any number of slots, and every order of refusals,      *)
(* resets and scheduling.                                                  *)
(***************************************************************************)
EXTENDS TfmBoot, FiniteSetTheorems, TLAPS

BootromRegion == {Off, Open(0, ROM_LIMIT), Callable(0, ROM_LIMIT)}

(* Where the program is: the index is that of a loop in progress. *)
PlaceOK ==
    /\ pc \in TargetPc
    /\ pc \in {"SAU_RBAR", "SAU_RLAR"} => idx \in 1..4
    /\ pc = "AC_GPIO" => idx \in 0..1
    /\ pc = "AC_PERIPH" => idx \in 1..Len(Periphs)
    /\ pc = "DMA_CHAN" => idx \in 0..(Channels - 1)
    /\ pc \in {"DMA_BAR", "DMA_LAR"} => idx \in RegionIndex

(* A region of the SAU that is on holds what the table says, also while its *)
(* registers are written again; region 7 is as the boot ROM left it or off. *)
SauPartial ==
    /\ \A i \in {0, 1, 5, 6} : ~sau[i].en
    /\ \A i \in {2, 3, 4} : sau[i].en => sau[i] = SauTable(i)
    /\ sau[7] \in BootromRegion
    /\ pc = "SAU_RLAR" => sau[SauOrder[idx]].base = SauTable(SauOrder[idx]).base

DmaPartial ==
    /\ \A i \in RegionIndex : dma[i].en => dma[i] = DmaTable(i)
    /\ pc = "DMA_LAR" => dma[idx].base = DmaTable(idx).base

(* While no read-back has failed, every register written so far took it.    *)
FilterSoFar ==
    /\ pc = "AC_PERIPH" /\ ~err => \A k \in 1..(idx - 1) : ac[Periphs[k]] = Setting(Periphs[k])
    /\ pc = "AC_LOCK" /\ ~err => \A r \in AcReg : ac[r] = Setting(r)

TargetInv == PlaceOK /\ UnitsOK /\ SauPartial /\ DmaPartial /\ FilterSoFar /\ FilterHonest

-----------------------------------------------------------------------------
LEMMA MapFacts ==
    /\ ROM_LIMIT \in Nat /\ XIP_BASE \in Nat /\ SRAM0_BASE \in Nat /\ SRAM4_BASE \in Nat
    /\ VENEER_BASE \in Nat /\ VENEER_LIMIT \in Nat
    /\ NS_PARTITION_BASE \in Nat /\ NS_PARTITION_LIMIT \in Nat /\ PPB_BASE \in Nat
    /\ ROM_LIMIT < XIP_BASE /\ XIP_BASE < VENEER_BASE /\ VENEER_BASE <= VENEER_LIMIT
    /\ VENEER_LIMIT < NS_PARTITION_BASE /\ NS_PARTITION_BASE <= NS_PARTITION_LIMIT
    /\ NS_PARTITION_LIMIT < SRAM0_BASE /\ SRAM0_BASE < SRAM4_BASE /\ SRAM4_BASE < PPB_BASE
    /\ Channels \in Nat \ {0}
  BY TargetAssumption

LEMMA ListFacts ==
    /\ Len(Periphs) \in Nat \ {0}
    /\ \A k \in 1..Len(Periphs) : Periphs[k] \in AcReg
    /\ \A r \in AcReg : \E k \in 1..Len(Periphs) : r = Periphs[k]
  <1>1. C0C1Periphs \in Seq(AcReg) /\ C0Periphs \in Seq(AcReg) /\ NsPeriphs \in Seq(AcReg)
    BY TargetAssumption
  <1>2. C0C1Periphs # <<>>
    BY TargetAssumption
  <1> HIDE DEF AcReg
  <1>3. Periphs \in Seq(AcReg) /\ Len(Periphs) \in Nat \ {0}
    BY <1>1, <1>2 DEF Periphs
  <1>4. DOMAIN Periphs = 1..Len(Periphs)
    BY <1>3
  <1>5. AcReg = {Periphs[k] : k \in DOMAIN Periphs}
    BY DEF AcReg, Range
  <1> QED
    BY <1>3, <1>4, <1>5

LEMMA SauOrderFacts ==
    /\ \A k \in 1..4 : SauOrder[k] \in {2, 3, 4, 7}
    /\ SauOrder[1] = 2 /\ SauOrder[2] = 3 /\ SauOrder[3] = 4 /\ SauOrder[4] = 7
  BY DEF SauOrder

LEMMA SauTableFacts ==
    /\ SauTable(2) = Callable(VENEER_BASE, VENEER_LIMIT)
    /\ SauTable(3) = Open(NS_PARTITION_BASE, NS_PARTITION_LIMIT)
    /\ SauTable(4) = Open(SRAM4_BASE, PPB_BASE - 1)
    /\ SauTable(7) = Off
  BY 3 # 2, 4 # 2, 4 # 3, 7 # 2, 7 # 3, 7 # 4, Zenon DEF SauTable

LEMMA SauTableTyped == \A i \in {2, 3, 4, 7} : SauTable(i) \in Region
  <1>1. Callable(VENEER_BASE, VENEER_LIMIT) \in Region
    BY MapFacts DEF Region, Callable
  <1>2. Open(NS_PARTITION_BASE, NS_PARTITION_LIMIT) \in Region
    BY MapFacts DEF Region, Open
  <1>3. Open(SRAM4_BASE, PPB_BASE - 1) \in Region /\ Off \in Region
    BY MapFacts DEF Region, Open, Off
  <1> QED
    BY <1>1, <1>2, <1>3, SauTableFacts

LEMMA DmaTableTyped == \A i \in RegionIndex : DmaTable(i) \in Region
  BY MapFacts DEF DmaTable, Region, Open, Off, RegionIndex

(* Writing a base that is already there changes nothing. *)
LEMMA SameBase ==
    ASSUME NEW r \in Region, NEW b, b = r.base
    PROVE  [r EXCEPT !.base = b] = r
  BY DEF Region

LEMMA ResetTyped ==
    /\ SauReset \subseteq [RegionIndex -> Region] /\ DmaReset \in [RegionIndex -> Region]
    /\ AcReset \in [AcReg -> {Default, NS_PRIV, S_UNPRIV_C0, S_PRIV_C0}]
    /\ ChanReset \in [0..(Channels - 1) -> {"SP", "NSP"}]
  <1>1. Off \in Region /\ Open(0, ROM_LIMIT) \in Region /\ Callable(0, ROM_LIMIT) \in Region
    BY MapFacts DEF Off, Open, Callable, Region
  <1> QED
    BY <1>1 DEF SauReset, DmaReset, AcReset, ChanReset

LEMMA SettingTyped ==
    \A r \in AcReg : Setting(r) \in {Default, NS_PRIV, S_UNPRIV_C0, S_PRIV_C0}
  BY DEF Setting

-----------------------------------------------------------------------------
LEMMA InitTargetInv == TargetInit => TargetInv
  <1> SUFFICES ASSUME TargetInit PROVE TargetInv
    OBVIOUS
  <1> USE DEF TargetInit
  <1>1. PlaceOK
    BY DEF PlaceOK, TargetPc
  <1>2. UnitsOK
    BY ResetTyped DEF UnitsOK
  <1>3. SauPartial
    BY DEF SauPartial, SauReset, RegionIndex, Off, BootromRegion
  <1>4. DmaPartial
    BY DEF DmaPartial, DmaReset, RegionIndex, Off
  <1>5. FilterSoFar /\ FilterHonest
    BY DEF FilterSoFar, FilterHonest
  <1> QED
    BY <1>1, <1>2, <1>3, <1>4, <1>5 DEF TargetInv

(* The SAU's two stores. *)
LEMMA StepSau ==
    ASSUME TargetInv, (SauRbar \/ SauRlar) /\ UNCHANGED <<refusing, resets>>
    PROVE  TargetInv'
  <1> DEFINE r == SauOrder[idx]
  <1>1. idx \in 1..4 /\ r \in {2, 3, 4, 7} /\ r \in RegionIndex
    BY SauOrderFacts DEF TargetInv, PlaceOK, SauRbar, SauRlar, RegionIndex
  <1>2. sau \in [RegionIndex -> Region] /\ SauTable(r) \in Region /\ sau[r] \in Region
    BY <1>1, SauTableTyped DEF TargetInv, UnitsOK
  <1>3. /\ r # 7 /\ sau[r].en => sau[r] = SauTable(r)
        /\ r = 7 => sau[r].base = 0 /\ SauTable(r).base = 0
    BY <1>1, SauTableFacts DEF TargetInv, SauPartial, BootromRegion, Off, Open, Callable
  <1>4. PlaceOK'
    BY <1>1 DEF SauRbar, SauRlar, Goto, PlaceOK, TargetPc
  <1>5. UNCHANGED <<sauOn, ac, gpio, lock, err, seccfg, dmaDefaultS, dma>>
    BY DEF SauRbar, SauRlar, acVars, dmaVars
  <1>6. pc' \in {"SAU_RBAR", "SAU_RLAR", "SAU_ON"}
    BY DEF SauRbar, SauRlar, Goto
  <1>7. DmaPartial' /\ FilterSoFar' /\ FilterHonest'
    BY <1>5, <1>6 DEF TargetInv, DmaPartial, FilterSoFar, FilterHonest
  <1>8. CASE SauRbar
    <2> DEFINE new == [sau[r] EXCEPT !.base = SauTable(r).base]
    <2>1. sau' = [sau EXCEPT ![r] = new]
      BY <1>8, <1>1, <1>2 DEF SauRbar
    <2>2. new \in Region /\ new.en = sau[r].en /\ new.base = SauTable(r).base
      BY <1>2 DEF Region
    <2>3. sau[r].base = SauTable(r).base => new = sau[r]
      BY <1>2, SameBase
    <2>4. sau[r].en \/ r = 7 => new = sau[r]
      BY <1>3, <2>3
    <2> HIDE DEF new
    <2>5. UnitsOK'
      <3>1. sau' \in [RegionIndex -> Region]
        BY <2>1, <2>2, <1>1, <1>2
      <3> QED
        BY <3>1, <1>5 DEF TargetInv, UnitsOK
    <2>6. SauPartial'
      <3>1. idx' = idx
        BY <1>8 DEF SauRbar, Goto
      <3>2. \A i \in RegionIndex : i # r => sau'[i] = sau[i]
        BY <2>1, <1>2
      <3>3. sau'[r] = new
        BY <2>1, <1>1, <1>2
      <3>4. \A i \in RegionIndex : sau'[i].en => sau'[i] = sau[i]
        BY <3>2, <3>3, <2>2, <2>4
      <3>5. sau'[7] = sau[7]
        BY <3>2, <3>3, <2>4 DEF RegionIndex
      <3>6. sau'[SauOrder[idx']].base = SauTable(SauOrder[idx']).base
        BY <3>1, <3>3, <2>2
      <3> QED
        BY <3>4, <3>5, <3>6 DEF TargetInv, SauPartial, RegionIndex
    <2> QED
      BY <1>4, <1>7, <2>5, <2>6 DEF TargetInv
  <1>9. CASE SauRlar
    <2>1. sau[r].base = SauTable(r).base
      BY <1>9 DEF TargetInv, SauPartial, SauRlar
    <2>2. [SauTable(r) EXCEPT !.base = sau[r].base] = SauTable(r)
      BY <2>1, <1>2, SameBase
    <2>3. sau' = [sau EXCEPT ![r] = SauTable(r)]
      BY <1>9, <2>2 DEF SauRlar
    <2>4. UnitsOK'
      <3>1. sau' \in [RegionIndex -> Region]
        BY <2>3, <1>1, <1>2
      <3> QED
        BY <3>1, <1>5 DEF TargetInv, UnitsOK
    <2>5. SauPartial'
      <3>1. pc' # "SAU_RLAR"
        BY <1>9 DEF SauRlar, Goto
      <3>2. \A i \in RegionIndex : i # r => sau'[i] = sau[i]
        BY <2>3, <1>2
      <3>3. sau'[r] = SauTable(r)
        BY <2>3, <1>1, <1>2
      <3>4. sau'[7] \in BootromRegion
        BY <3>2, <3>3, SauTableFacts DEF TargetInv, SauPartial, BootromRegion, RegionIndex
      <3>5. \A i \in {2, 3, 4} : sau'[i].en => sau'[i] = SauTable(i)
        BY <3>2, <3>3 DEF TargetInv, SauPartial, RegionIndex
      <3>6. \A i \in {0, 1, 5, 6} : ~sau'[i].en
        BY <3>2, <1>1 DEF TargetInv, SauPartial, RegionIndex
      <3> QED
        BY <3>1, <3>4, <3>5, <3>6 DEF SauPartial
    <2> QED
      BY <1>4, <1>7, <2>4, <2>5 DEF TargetInv
  <1> QED
    BY <1>8, <1>9

(* The two stores of the DMA MPU's loop. *)
LEMMA StepDma ==
    ASSUME TargetInv, (DmaBar \/ DmaLar) /\ UNCHANGED <<refusing, resets>>
    PROVE  TargetInv'
  <1>1. idx \in RegionIndex
    BY DEF TargetInv, PlaceOK, DmaBar, DmaLar
  <1>2. dma \in [RegionIndex -> Region] /\ DmaTable(idx) \in Region /\ dma[idx] \in Region
    BY <1>1, DmaTableTyped DEF TargetInv, UnitsOK
  <1>3. PlaceOK'
    BY <1>1 DEF DmaBar, DmaLar, Goto, PlaceOK, TargetPc, RegionIndex
  <1>4. UNCHANGED <<sau, sauOn, ac, gpio, lock, err, seccfg, dmaDefaultS>>
    BY DEF DmaBar, DmaLar, acVars, sauVars
  <1>5. pc' \in {"DMA_BAR", "DMA_LAR", "MPU_CHECK"}
    BY DEF DmaBar, DmaLar, Goto
  <1>6. SauPartial' /\ FilterSoFar' /\ FilterHonest'
    <2>1. pc \in {"DMA_BAR", "DMA_LAR"}
      BY DEF DmaBar, DmaLar
    <2> QED
      BY <2>1, <1>4, <1>5 DEF TargetInv, SauPartial, FilterSoFar, FilterHonest
  <1>7. CASE DmaBar
    <2> DEFINE new == [dma[idx] EXCEPT !.base = DmaTable(idx).base]
    <2>1. dma' = [dma EXCEPT ![idx] = new]
      BY <1>7, <1>1, <1>2 DEF DmaBar
    <2>2. new \in Region /\ new.en = dma[idx].en /\ new.base = DmaTable(idx).base
      BY <1>2 DEF Region
    <2>3. dma[idx].en => new = dma[idx]
      BY <1>1, <1>2, SameBase DEF TargetInv, DmaPartial
    <2> HIDE DEF new
    <2>4. UnitsOK'
      <3>1. dma' \in [RegionIndex -> Region]
        BY <2>1, <2>2, <1>1, <1>2
      <3> QED
        BY <3>1, <1>4 DEF TargetInv, UnitsOK
    <2>5. DmaPartial'
      <3>1. idx' = idx
        BY <1>7 DEF DmaBar, Goto
      <3>2. \A i \in RegionIndex : dma'[i] = IF i = idx THEN new ELSE dma[i]
        BY <2>1, <1>2
      <3> QED
        BY <3>1, <3>2, <1>1, <2>2, <2>3 DEF TargetInv, DmaPartial
    <2> QED
      BY <1>3, <1>6, <2>4, <2>5 DEF TargetInv
  <1>8. CASE DmaLar
    <2>1. dma[idx].base = DmaTable(idx).base
      BY <1>8 DEF TargetInv, DmaPartial, DmaLar
    <2>2. [DmaTable(idx) EXCEPT !.base = dma[idx].base] = DmaTable(idx)
      BY <2>1, <1>2, SameBase
    <2>3. dma' = [dma EXCEPT ![idx] = DmaTable(idx)]
      BY <1>8, <2>2 DEF DmaLar
    <2>4. UnitsOK'
      <3>1. dma' \in [RegionIndex -> Region]
        BY <2>3, <1>1, <1>2
      <3> QED
        BY <3>1, <1>4 DEF TargetInv, UnitsOK
    <2>5. DmaPartial'
      <3>1. pc' # "DMA_LAR"
        BY <1>8 DEF DmaLar, Goto
      <3>2. \A i \in RegionIndex : dma'[i] = IF i = idx THEN DmaTable(i) ELSE dma[i]
        BY <2>3, <1>2
      <3> QED
        BY <3>1, <3>2 DEF TargetInv, DmaPartial
    <2> QED
      BY <1>3, <1>6, <2>4, <2>5 DEF TargetInv
  <1> QED
    BY <1>7, <1>8

(* bus_filter_cfg(). *)
LEMMA StepFilter ==
    ASSUME TargetInv, (AcCfgReset \/ AcGpio \/ AcPeriph \/ AcLock)
                      /\ UNCHANGED <<refusing, resets>>
    PROVE  TargetInv'
  <1> USE DEF acVars, sauVars, dmaVars, Goto
  <1>1. UNCHANGED <<sau, sauOn, seccfg, dmaDefaultS, dma>>
    BY DEF AcCfgReset, AcGpio, AcPeriph, AcLock
  <1>2. pc' \in {"AC_GPIO", "AC_PERIPH", "AC_LOCK", "FAILED", "DMA_CHAN"}
    BY DEF AcCfgReset, AcGpio, AcPeriph, AcLock
  <1>3. SauPartial' /\ DmaPartial'
    BY <1>1, <1>2 DEF TargetInv, SauPartial, DmaPartial
  <1>4. PlaceOK'
    <2>1. Len(Periphs) \in Nat \ {0} /\ Channels \in Nat \ {0}
      BY ListFacts, MapFacts
    <2>2. idx' \in Int /\ PlaceOK
      BY <2>1 DEF AcCfgReset, AcGpio, AcPeriph, AcLock, TargetInv, PlaceOK
    <2>3. pc' = "AC_GPIO" => idx' \in 0..1
      BY <2>2 DEF AcCfgReset, AcGpio, AcPeriph, AcLock, PlaceOK
    <2>4. pc' = "AC_PERIPH" => idx' \in 1..Len(Periphs)
      BY <2>1, <2>2 DEF AcCfgReset, AcGpio, AcPeriph, AcLock, PlaceOK
    <2>5. pc' = "DMA_CHAN" => idx' \in 0..(Channels - 1)
      BY <2>1 DEF AcCfgReset, AcGpio, AcPeriph, AcLock
    <2> QED
      BY <1>2, <2>3, <2>4, <2>5 DEF PlaceOK, TargetPc
  <1>5. CASE AcCfgReset \/ AcGpio
    <2>1. UnitsOK'
      BY <1>5, <1>1, ResetTyped DEF AcCfgReset, AcGpio, TargetInv, UnitsOK
    <2>2. pc' = "AC_PERIPH" => idx' = 1
      BY <1>5 DEF AcCfgReset, AcGpio
    <2>3. pc' \in {"AC_GPIO", "AC_PERIPH"}
      BY <1>5 DEF AcCfgReset, AcGpio
    <2>4. FilterSoFar' /\ FilterHonest'
      BY <2>2, <2>3 DEF FilterSoFar, FilterHonest
    <2> QED
      BY <1>3, <1>4, <2>1, <2>4 DEF TargetInv
  <1>6. CASE AcPeriph
    <2> DEFINE r == Periphs[idx]
    <2>1. idx \in 1..Len(Periphs) /\ Len(Periphs) \in Nat \ {0} /\ r \in AcReg
      BY <1>6, ListFacts DEF TargetInv, PlaceOK, AcPeriph
    <2>2. ac' = ac \/ ac' = [ac EXCEPT ![r] = Setting(r)]
      BY <1>6 DEF AcPeriph
    <2>3. ac \in [AcReg -> {Default, NS_PRIV, S_UNPRIV_C0, S_PRIV_C0}]
      BY DEF TargetInv, UnitsOK
    <2>4. err' \in BOOLEAN
      <3>1. err' = (err \/ ac'[r] # Setting(r))
        BY <1>6 DEF AcPeriph
      <3> QED
        BY <3>1, Zenon
    <2>5. UnitsOK'
      <3>1. ac' \in [AcReg -> {Default, NS_PRIV, S_UNPRIV_C0, S_PRIV_C0}]
        BY <2>1, <2>2, <2>3, SettingTyped
      <3>2. UNCHANGED <<gpio, lock>>
        BY <1>6 DEF AcPeriph
      <3> QED
        BY <1>1, <2>4, <3>1, <3>2 DEF TargetInv, UnitsOK
    <2>6. ~err' => ~err /\ ac'[r] = Setting(r)
      BY <1>6, Zenon DEF AcPeriph
    <2>7. \A q \in AcReg : ac[q] = Setting(q) => ac'[q] = Setting(q)
      BY <2>1, <2>2, <2>3
    <2>8. ~err' => \A k \in 1..idx : ac'[Periphs[k]] = Setting(Periphs[k])
      <3> SUFFICES ASSUME ~err', NEW k \in 1..idx
                   PROVE  ac'[Periphs[k]] = Setting(Periphs[k])
        OBVIOUS
      <3>1. k \in 1..Len(Periphs) /\ Periphs[k] \in AcReg
        BY <2>1, ListFacts
      <3>2. CASE k = idx
        BY <3>2, <2>6
      <3>3. CASE k # idx
        <4>1. k \in 1..(idx - 1)
          BY <3>3, <2>1
        <4>2. ac[Periphs[k]] = Setting(Periphs[k])
          BY <4>1, <2>6, <1>6 DEF TargetInv, FilterSoFar, AcPeriph
        <4> QED
          BY <3>1, <4>2, <2>7
      <3> QED
        BY <3>2, <3>3
    <2>9. \/ pc' = "AC_LOCK" /\ idx = Len(Periphs)
          \/ pc' = "AC_PERIPH" /\ idx' = idx + 1
      BY <1>6 DEF AcPeriph
    <2>10. FilterSoFar' /\ FilterHonest'
      <3>1. CASE pc' = "AC_LOCK" /\ idx = Len(Periphs)
        <4>1. ~err' => \A q \in AcReg : ac'[q] = Setting(q)
          BY <3>1, <2>8, ListFacts
        <4> QED
          BY <3>1, <4>1 DEF FilterSoFar, FilterHonest
      <3>2. CASE pc' = "AC_PERIPH" /\ idx' = idx + 1
        <4>1. idx' - 1 = idx
          BY <3>2, <2>1
        <4> QED
          BY <3>2, <4>1, <2>8 DEF FilterSoFar, FilterHonest
      <3> QED
        BY <2>9, <3>1, <3>2
    <2> QED
      BY <1>3, <1>4, <2>5, <2>10 DEF TargetInv
  <1>7. CASE AcLock
    <2>1. UnitsOK'
      BY <1>7, <1>1 DEF AcLock, TargetInv, UnitsOK
    <2>2. FilterSoFar' /\ FilterHonest'
      BY <1>7 DEF AcLock, TargetInv, FilterSoFar, FilterHonest
    <2> QED
      BY <1>3, <1>4, <2>1, <2>2 DEF TargetInv
  <1> QED
    BY <1>5, <1>6, <1>7

(* The stores that set one switch, and the channels of the DMA. *)
LEMMA StepSwitch ==
    ASSUME TargetInv, (SauEnable \/ DmaChannel \/ DmaCtrl) /\ UNCHANGED <<refusing, resets>>
    PROVE  TargetInv'
  <1> USE DEF acVars, sauVars, dmaVars, Goto
  <1>1. UNCHANGED <<sau, dma, ac, gpio, lock, err>>
    BY DEF SauEnable, DmaChannel, DmaCtrl
  <1>2. pc' \in {"AC_RESET", "DMA_CHAN", "DMA_CTRL", "DMA_BAR"}
    BY DEF SauEnable, DmaChannel, DmaCtrl
  <1>3. PlaceOK'
    BY MapFacts DEF SauEnable, DmaChannel, DmaCtrl, TargetInv, PlaceOK, TargetPc, RegionIndex
  <1>4. UnitsOK'
    <2>1. sauOn' \in BOOLEAN /\ dmaDefaultS' \in BOOLEAN
      BY Zenon DEF SauEnable, DmaChannel, DmaCtrl, TargetInv, UnitsOK
    <2>2. seccfg' \in [0..(Channels - 1) -> {"SP", "NSP"}]
      BY DEF SauEnable, DmaChannel, DmaCtrl, TargetInv, UnitsOK
    <2> QED
      BY <1>1, <2>1, <2>2 DEF TargetInv, UnitsOK
  <1>5. SauPartial' /\ DmaPartial'
    BY <1>1, <1>2 DEF TargetInv, SauPartial, DmaPartial
  <1>6. FilterSoFar' /\ FilterHonest'
    <2>1. pc' = "AC_RESET" \/ pc \in {"DMA_CHAN", "DMA_CTRL"}
      BY DEF SauEnable, DmaChannel, DmaCtrl
    <2> QED
      BY <1>1, <1>2, <2>1 DEF TargetInv, FilterSoFar, FilterHonest
  <1> QED
    BY <1>3, <1>4, <1>5, <1>6 DEF TargetInv

(* Wherever it comes, a reset only needs the registers to be in order.      *)
LEMMA StepReset ==
  ASSUME UnitsOK, SauPartial, DmaPartial, TargetReset
  PROVE  TargetInv'
  <1> USE DEF TargetReset, Goto, acVars, dmaVars
  <1>1. PlaceOK'
    BY DEF PlaceOK, TargetPc
  <1>2. UnitsOK'
    <2>1. sau' \in [RegionIndex -> Region]
      BY ResetTyped DEF UnitsOK
    <2>2. /\ ac' \in [AcReg -> {Default, NS_PRIV, S_UNPRIV_C0, S_PRIV_C0}]
          /\ gpio' \in [0..1 -> {"closed", "masked"}] /\ lock' \subseteq {"CORE1", "DMA"}
      BY ResetTyped DEF UnitsOK
    <2>3. /\ seccfg' \in [0..(Channels - 1) -> {"SP", "NSP"}]
          /\ dma' \in [RegionIndex -> Region]
      BY ResetTyped DEF UnitsOK
    <2>4. sauOn' \in BOOLEAN /\ err' \in BOOLEAN /\ dmaDefaultS' \in BOOLEAN
      BY Zenon DEF UnitsOK
    <2> QED
      BY <2>1, <2>2, <2>3, <2>4 DEF UnitsOK
  <1>3. SauPartial'
    <2>1. CASE sau' = sau
      BY <2>1 DEF SauPartial
    <2>2. CASE sau' \in SauReset
      BY <2>2 DEF SauPartial, SauReset, RegionIndex, Off, BootromRegion
    <2> QED
      BY <2>1, <2>2
  <1>4. DmaPartial'
    BY DEF DmaPartial, DmaReset, RegionIndex, Off
  <1>5. FilterSoFar' /\ FilterHonest'
    BY DEF FilterSoFar, FilterHonest
  <1> QED
    BY <1>1, <1>2, <1>3, <1>4, <1>5 DEF TargetInv

LEMMA StepTargetInv == TargetInv /\ [TargetNext]_targetVars => TargetInv'
  <1> SUFFICES ASSUME TargetInv, [TargetNext]_targetVars PROVE TargetInv'
    OBVIOUS
  <1>1. CASE TargetStep
    BY <1>1, StepSau, StepDma, StepFilter, StepSwitch DEF TargetStep
  <1>2. CASE TargetReset
    BY <1>2, StepReset DEF TargetInv
  <1>3. CASE UNCHANGED targetVars
    <2> USE <1>3 DEF targetVars, unitVars, sauVars, acVars, dmaVars
    <2>1. PlaceOK' /\ UnitsOK'
      BY DEF TargetInv, PlaceOK, UnitsOK
    <2>2. SauPartial' /\ DmaPartial'
      BY DEF TargetInv, SauPartial, DmaPartial
    <2>3. FilterSoFar' /\ FilterHonest'
      BY DEF TargetInv, FilterSoFar, FilterHonest
    <2> QED
      BY <2>1, <2>2, <2>3 DEF TargetInv
  <1> QED
    BY <1>1, <1>2, <1>3 DEF TargetNext

THEOREM TargetInvariant == TargetSpec => []TargetInv
  BY InitTargetInv, StepTargetInv, PTL DEF TargetSpec

(* Type correctness of SAU, bus filter and DMA through every set-up. *)
THEOREM TargetTypeCorrect == TargetSpec => []TargetTypeOK
  <1>1. TargetInv => TargetTypeOK
    BY DEF TargetInv, TargetTypeOK, PlaceOK
  <1> QED
    BY <1>1, TargetInvariant, PTL

(* A set-up that goes on past bus_filter_cfg() has every register as the    *)
(* code wants it, whichever registers refuse a write.                       *)
THEOREM FilterAlwaysHonest == TargetSpec => []FilterHonest
  <1>1. TargetInv => FilterHonest
    BY DEF TargetInv
  <1> QED
    BY <1>1, TargetInvariant, PTL

-----------------------------------------------------------------------------
LEMMA SecureOutsideTables ==
    ASSUME NEW a \in Nat, SecureOwned(a)
    PROVE  /\ \A i \in {2, 3, 4} : ~Hit(SauTable(i), a)
           /\ \A i \in RegionIndex : ~Hit(DmaTable(i), a)
           /\ \A r \in BootromRegion : ~Hit(r, a)
           /\ a < PPB_BASE
  <1> USE MapFacts DEF SecureOwned, Between, Hit, Open, Callable, Off
  <1>1. \A i \in {2, 3, 4} : ~Hit(SauTable(i), a)
    <2>1. ~Hit(SauTable(2), a) /\ ~Hit(SauTable(3), a) /\ ~Hit(SauTable(4), a)
      BY SauTableFacts
    <2> QED
      BY <2>1
  <1>2. \A i \in RegionIndex : ~Hit(DmaTable(i), a)
    BY DEF DmaTable, RegionIndex
  <1>3. \A r \in BootromRegion : ~Hit(r, a)
    BY DEF BootromRegion
  <1> QED
    BY <1>1, <1>2, <1>3

LEMMA SecureIsSecure ==
    ASSUME SauPartial, NEW a \in Nat, SecureOwned(a)
    PROVE  Attr(a) = "S"
  <1>1. \A i \in RegionIndex : ~Hit(sau[i], a)
    <2>1. \A i \in {2, 3, 4} : ~Hit(sau[i], a)
      BY SecureOutsideTables DEF SauPartial, Hit
    <2>2. \A i \in {0, 1, 5, 6} : ~Hit(sau[i], a)
      BY DEF SauPartial, Hit
    <2>3. ~Hit(sau[7], a)
      BY SecureOutsideTables DEF SauPartial
    <2> QED
      BY <2>1, <2>2, <2>3 DEF RegionIndex
  <1>2. ~(a >= PPB_BASE)
    BY SecureOutsideTables, MapFacts
  <1> QED
    BY <1>1, <1>2, Zenon DEF Attr, SauAttr

(* Half-written tables keep the Secure image closed. *)
LEMMA PartialTablesClosed == SauPartial /\ DmaPartial => SecureNeverOpen
  <1> SUFFICES ASSUME SauPartial, DmaPartial, NEW a \in Addr, SecureOwned(a)
               PROVE  /\ Attr(a) = "S"
                      /\ dmaDefaultS => ~DmaNsMay(dmaDefaultS, dma, a)
    BY DEF SecureNeverOpen
  <1>1. a \in Nat
    BY TargetAssumption
  <1>2. \A i \in RegionIndex : ~Hit(dma[i], a)
    BY <1>1, SecureOutsideTables DEF DmaPartial, Hit
  <1> QED
    BY <1>1, <1>2, SecureIsSecure DEF DmaNsMay

(* At no instant of the set-up, whatever an earlier boot or the boot ROM    *)
(* left in the units, is an address of the Secure image open to the         *)
(* Non-Secure world or its DMA channels.                                    *)
THEOREM SecureAlwaysClosed == TargetSpec => []SecureNeverOpen
  <1>1. TargetInv => SecureNeverOpen
    BY PartialTablesClosed DEF TargetInv
  <1> QED
    BY <1>1, TargetInvariant, PTL

-----------------------------------------------------------------------------
(* The set-up only moves forward, so its position says which stores are     *)
(* done: everything UnitsAgree asks for, one part per unit.                 *)
SauLoop == {"SAU_RBAR", "SAU_RLAR"}
DmaLoop == {"DMA_BAR", "DMA_LAR"}

SauProgress ==
    /\ \A k \in 1..4 : (pc \notin SauLoop \/ k < idx) => sau[SauOrder[k]] = SauTable(SauOrder[k])
    /\ pc \notin SauLoop \cup {"SAU_ON"} => sauOn

DmaProgress ==
    /\ \A c \in 0..(Channels - 1) :
         (pc = "DMA_CHAN" /\ c < idx) \/ pc \in DmaLoop \cup {"DMA_CTRL", "MPU_CHECK"}
           => seccfg[c] = "NSP"
    /\ pc \in DmaLoop \cup {"MPU_CHECK"} => dmaDefaultS
    /\ \A i \in RegionIndex :
         (pc \in DmaLoop /\ i < idx) \/ pc = "MPU_CHECK" => dma[i] = DmaTable(i)

LEMMA StepSauProgress ==
    TargetInv /\ SauProgress /\ [TargetNext]_targetVars => SauProgress'
  <1> SUFFICES ASSUME TargetInv, SauProgress, [TargetNext]_targetVars PROVE SauProgress'
    OBVIOUS
  <1> USE DEF Goto
  <1>1. CASE SauRbar
    <2> DEFINE r == SauOrder[idx]
    <2>1. idx \in 1..4 /\ pc = "SAU_RBAR" /\ pc' = "SAU_RLAR" /\ idx' = idx
      BY <1>1 DEF TargetInv, PlaceOK, SauRbar
    <2>2. \A i \in RegionIndex : i # r => sau'[i] = sau[i]
      BY <1>1 DEF SauRbar, TargetInv, UnitsOK
    <2>3. \A k \in 1..4 : k < idx => SauOrder[k] # r /\ SauOrder[k] \in RegionIndex
      BY <2>1, SauOrderFacts DEF RegionIndex
    <2> QED
      BY <2>1, <2>2, <2>3 DEF SauProgress, SauLoop
  <1>2. CASE SauRlar
    <2> DEFINE r == SauOrder[idx]
    <2>1. /\ idx \in 1..4 /\ r \in {2, 3, 4, 7} /\ r \in RegionIndex /\ pc = "SAU_RLAR"
          /\ sau \in [RegionIndex -> Region]
      BY <1>2, SauOrderFacts DEF TargetInv, PlaceOK, SauRlar, RegionIndex, UnitsOK
    <2>2. [SauTable(r) EXCEPT !.base = sau[r].base] = SauTable(r)
      BY <2>1, SauTableTyped, SameBase DEF TargetInv, SauPartial
    <2>3. sau' = [sau EXCEPT ![r] = SauTable(r)]
      BY <1>2, <2>2 DEF SauRlar
    <2>4. sau'[r] = SauTable(r) /\ \A i \in RegionIndex : i # r => sau'[i] = sau[i]
      BY <2>1, <2>3
    <2>5. \A k \in 1..4 : k < idx => SauOrder[k] # r /\ SauOrder[k] \in RegionIndex
      BY <2>1, SauOrderFacts DEF RegionIndex
    <2>6. \A k \in 1..4 : k <= idx => sau'[SauOrder[k]] = SauTable(SauOrder[k])
      BY <2>1, <2>4, <2>5 DEF SauProgress, SauLoop
    <2>7. \/ idx = 4 /\ pc' = "SAU_ON"
          \/ pc' = "SAU_RBAR" /\ idx' = idx + 1
      BY <1>2 DEF SauRlar
    <2> QED
      BY <2>1, <2>6, <2>7 DEF SauProgress, SauLoop
  <1>3. CASE SauEnable
    BY <1>3 DEF SauEnable, SauProgress, SauLoop
  <1>4. CASE AcCfgReset \/ AcGpio \/ AcPeriph \/ AcLock
    <2>1. UNCHANGED <<sau, sauOn>> /\ pc \notin SauLoop \cup {"SAU_ON"}
      BY <1>4 DEF AcCfgReset, AcGpio, AcPeriph, AcLock, sauVars, SauLoop
    <2> QED
      BY <2>1 DEF SauProgress
  <1>5. CASE DmaChannel \/ DmaCtrl \/ DmaBar \/ DmaLar
    <2>1. UNCHANGED <<sau, sauOn>> /\ pc \notin SauLoop \cup {"SAU_ON"}
      BY <1>5 DEF DmaChannel, DmaCtrl, DmaBar, DmaLar, sauVars, SauLoop
    <2> QED
      BY <2>1 DEF SauProgress
  <1>6. CASE TargetReset
    BY <1>6 DEF TargetReset, SauProgress, SauLoop
  <1>7. CASE UNCHANGED targetVars
    BY <1>7 DEF targetVars, unitVars, sauVars, SauProgress
  <1> QED
    BY <1>1, <1>2, <1>3, <1>4, <1>5, <1>6, <1>7 DEF TargetNext, TargetStep

LEMMA StepDmaProgress ==
    TargetInv /\ DmaProgress /\ [TargetNext]_targetVars => DmaProgress'
  <1> SUFFICES ASSUME TargetInv, DmaProgress, [TargetNext]_targetVars PROVE DmaProgress'
    OBVIOUS
  <1> USE DEF Goto
  <1>0. /\ dma \in [RegionIndex -> Region] /\ seccfg \in [0..(Channels - 1) -> {"SP", "NSP"}]
        /\ Channels \in Nat \ {0}
    BY MapFacts DEF TargetInv, UnitsOK
  <1>1. CASE SauRbar \/ SauRlar \/ SauEnable \/ AcCfgReset \/ AcGpio \/ AcPeriph \/ AcLock
    <2>1. \/ pc' \in {"SAU_RBAR", "SAU_RLAR", "SAU_ON", "AC_RESET", "AC_GPIO", "AC_PERIPH",
                      "AC_LOCK", "FAILED"}
          \/ pc' = "DMA_CHAN" /\ idx' = 0
      BY <1>1 DEF SauRbar, SauRlar, SauEnable, AcCfgReset, AcGpio, AcPeriph, AcLock
    <2> QED
      BY <2>1 DEF DmaProgress, DmaLoop
  <1>2. CASE DmaChannel
    <2>1. idx \in 0..(Channels - 1) /\ pc = "DMA_CHAN"
      BY <1>2 DEF TargetInv, PlaceOK, DmaChannel
    <2>2. \A c \in 0..(Channels - 1) : c <= idx => seccfg'[c] = "NSP"
      BY <1>0, <1>2, <2>1 DEF DmaChannel, DmaProgress
    <2>3. \/ idx = Channels - 1 /\ pc' = "DMA_CTRL"
          \/ pc' = "DMA_CHAN" /\ idx' = idx + 1
      BY <1>2 DEF DmaChannel
    <2> QED
      BY <1>0, <2>1, <2>2, <2>3 DEF DmaProgress, DmaLoop
  <1>3. CASE DmaCtrl
    <2>1. pc' = "DMA_BAR" /\ idx' = 0 /\ dmaDefaultS' = TRUE /\ seccfg' = seccfg /\ pc = "DMA_CTRL"
      BY <1>3 DEF DmaCtrl
    <2> QED
      BY <2>1 DEF DmaProgress, DmaLoop, RegionIndex
  <1>4. CASE DmaBar
    <2>1. /\ idx \in RegionIndex /\ pc = "DMA_BAR" /\ pc' = "DMA_LAR" /\ idx' = idx
          /\ UNCHANGED <<seccfg, dmaDefaultS>>
      BY <1>4 DEF TargetInv, PlaceOK, DmaBar
    <2>2. \A i \in RegionIndex : i # idx => dma'[i] = dma[i]
      BY <1>0, <1>4 DEF DmaBar
    <2> QED
      BY <2>1, <2>2 DEF DmaProgress, DmaLoop, RegionIndex
  <1>5. CASE DmaLar
    <2>1. /\ idx \in RegionIndex /\ pc = "DMA_LAR" /\ UNCHANGED <<seccfg, dmaDefaultS>>
      BY <1>5 DEF TargetInv, PlaceOK, DmaLar
    <2>2. [DmaTable(idx) EXCEPT !.base = dma[idx].base] = DmaTable(idx)
      BY <2>1, DmaTableTyped, SameBase DEF TargetInv, DmaPartial
    <2>3. dma' = [dma EXCEPT ![idx] = DmaTable(idx)]
      BY <1>5, <2>2 DEF DmaLar
    <2>4. \A i \in RegionIndex : i <= idx => dma'[i] = DmaTable(i)
      BY <1>0, <2>1, <2>3 DEF DmaProgress, DmaLoop, RegionIndex
    <2>5. \/ idx = 7 /\ pc' = "MPU_CHECK"
          \/ pc' = "DMA_BAR" /\ idx' = idx + 1
      BY <1>5 DEF DmaLar
    <2> QED
      BY <2>1, <2>4, <2>5 DEF DmaProgress, DmaLoop, RegionIndex
  <1>6. CASE TargetReset
    BY <1>6 DEF TargetReset, DmaProgress, DmaLoop
  <1>7. CASE UNCHANGED targetVars
    BY <1>7 DEF targetVars, unitVars, dmaVars, DmaProgress
  <1> QED
    BY <1>1, <1>2, <1>3, <1>4, <1>5, <1>6, <1>7 DEF TargetNext, TargetStep

THEOREM ProgressInvariant == TargetSpec => [](TargetInv /\ SauProgress /\ DmaProgress)
  <1>1. TargetInit => SauProgress /\ DmaProgress
    BY DEF TargetInit, SauProgress, DmaProgress, SauLoop, DmaLoop
  <1> QED
    BY <1>1, StepSauProgress, StepDmaProgress, TargetInvariant, PTL DEF TargetSpec

(* What the SAU says once its table is in place. *)
LEMMA SauDone ==
    ASSUME NEW a \in Nat, sauOn,
           \A i \in {2, 3, 4, 7} : sau[i] = SauTable(i), \A i \in {0, 1, 5, 6} : ~sau[i].en
    PROVE  /\ Between(VENEER_BASE, a, VENEER_LIMIT) => Attr(a) = "NSC"
           /\ Between(NS_PARTITION_BASE, a, NS_PARTITION_LIMIT) => Attr(a) = "NS"
           /\ Between(SRAM4_BASE, a, PPB_BASE - 1) => Attr(a) = "NS"
  <1> USE MapFacts
  <1>1. /\ sau[2] = Callable(VENEER_BASE, VENEER_LIMIT)
        /\ sau[3] = Open(NS_PARTITION_BASE, NS_PARTITION_LIMIT)
        /\ sau[4] = Open(SRAM4_BASE, PPB_BASE - 1) /\ sau[7] = Off
    BY SauTableFacts
  <1>2. \A i \in {0, 1, 5, 6, 7} : ~Hit(sau[i], a)
    BY <1>1 DEF Hit, Off
  <1>3. /\ Hit(sau[2], a) <=> Between(VENEER_BASE, a, VENEER_LIMIT)
        /\ Hit(sau[3], a) <=> Between(NS_PARTITION_BASE, a, NS_PARTITION_LIMIT)
        /\ Hit(sau[4], a) <=> Between(SRAM4_BASE, a, PPB_BASE - 1)
        /\ sau[2].nsc /\ ~sau[3].nsc /\ ~sau[4].nsc
    BY <1>1 DEF Hit, Open, Callable
  <1>4. CASE Between(VENEER_BASE, a, VENEER_LIMIT)
    <2>1. Hit(sau[2], a) /\ \A j \in RegionIndex \ {2} : ~Hit(sau[j], a)
      BY <1>2, <1>3, <1>4 DEF Between, RegionIndex
    <2>2. ~(a >= PPB_BASE) /\ 2 \in RegionIndex
      BY <1>4 DEF Between, RegionIndex
    <2>3. Attr(a) = "NSC"
      BY <2>1, <2>2, <1>3, Zenon DEF Attr, SauAttr
    <2> QED
      BY <2>3, <1>4 DEF Between
  <1>5. CASE Between(SRAM4_BASE, a, PPB_BASE - 1)
    <2>1. Hit(sau[4], a) /\ \A j \in RegionIndex \ {4} : ~Hit(sau[j], a)
      BY <1>2, <1>3, <1>5 DEF Between, RegionIndex
    <2>2. ~(a >= PPB_BASE) /\ 4 \in RegionIndex
      BY <1>5 DEF Between, RegionIndex
    <2>3. ~ \E i \in RegionIndex : Hit(sau[i], a) /\ sau[i].nsc
      BY <2>1, <1>3
    <2>4. Attr(a) = "NS"
      BY <2>1, <2>2, <2>3, Zenon DEF Attr, SauAttr
    <2> QED
      BY <2>4, <1>5 DEF Between
  <1>6. CASE Between(NS_PARTITION_BASE, a, NS_PARTITION_LIMIT)
    <2>1. Hit(sau[3], a) /\ \A j \in RegionIndex \ {3} : ~Hit(sau[j], a)
      BY <1>2, <1>3, <1>6 DEF Between, RegionIndex
    <2>2. ~(a >= PPB_BASE) /\ 3 \in RegionIndex
      BY <1>6 DEF Between, RegionIndex
    <2>3. ~ \E i \in RegionIndex : Hit(sau[i], a) /\ sau[i].nsc
      BY <2>1, <1>3
    <2>4. Attr(a) = "NS"
      BY <2>1, <2>2, <2>3, Zenon DEF Attr, SauAttr
    <2> QED
      BY <2>4, <1>6 DEF Between
  <1> QED
    BY <1>4, <1>5, <1>6

(* What the three units hold once their tables are in place. *)
LEMMA TablesAgree == TargetInv /\ SauProgress /\ DmaProgress => UnitsAgree
  <1> SUFFICES ASSUME TargetInv, SauProgress, DmaProgress, pc = "MPU_CHECK" PROVE UnitsAgree
    BY DEF UnitsAgree
  <1>1. sauOn /\ \A i \in {2, 3, 4, 7} : sau[i] = SauTable(i)
    <2>1. sauOn /\ \A k \in 1..4 : sau[SauOrder[k]] = SauTable(SauOrder[k])
      BY DEF SauProgress, SauLoop
    <2> QED
      BY <2>1, SauOrderFacts
  <1>2. \A i \in {0, 1, 5, 6} : ~sau[i].en
    BY DEF TargetInv, SauPartial
  <1>3. /\ dmaDefaultS /\ \A i \in RegionIndex : dma[i] = DmaTable(i)
        /\ \A c \in 0..(Channels - 1) : seccfg[c] = "NSP"
    BY DEF DmaProgress, DmaLoop
  <1>4. ASSUME NEW a \in Addr, Attr(a) = "S" PROVE ~DmaNsMay(dmaDefaultS, dma, a)
    <2>1. a \in Nat
      BY TargetAssumption
    <2>2. ~Between(VENEER_BASE, a, VENEER_LIMIT) /\ ~Between(SRAM4_BASE, a, PPB_BASE - 1)
      BY <1>1, <1>2, <1>4, <2>1, SauDone
    <2>3. \A i \in RegionIndex : ~Hit(DmaTable(i), a)
      BY <2>1, <2>2, MapFacts DEF DmaTable, RegionIndex, Hit, Between, Open, Off
    <2> QED
      BY <1>3, <2>3 DEF DmaNsMay
  <1>5. ASSUME NEW r \in SecureBank
        PROVE  "NSP" \notin ac[r] /\ Attr(BankAddr(r)) = "S"
    <2>1. r \in AcReg /\ r \notin Range(NsPeriphs) /\ NsPeriphs \in Seq(AcReg)
      BY TargetAssumption
    <2>2. ~Contains(NsPeriphs, r)
      BY <2>1 DEF Contains, Range
    <2>3. ac[r] = S_UNPRIV_C0
      BY <2>1, <2>2 DEF TargetInv, FilterHonest, Setting
    <2>4. SRAM0_BASE \in Nat /\ SecureOwned(SRAM0_BASE)
      BY MapFacts DEF SecureOwned, Between
    <2>5. Attr(SRAM0_BASE) = "S"
      BY <2>4, SecureIsSecure DEF TargetInv
    <2> QED
      BY <2>3, <2>5 DEF S_UNPRIV_C0, BankAddr
  <1>6. "SRAM4" \notin SecureBank /\ "NSP" \in ac["SRAM4"] /\ Attr(BankAddr("SRAM4")) = "NS"
    <2>1. /\ "SRAM4" \in Range(NsPeriphs) /\ "SRAM4" \notin SecureBank
          /\ NsPeriphs \in Seq(AcReg)
      BY TargetAssumption
    <2>2. "SRAM4" \in AcReg /\ Contains(NsPeriphs, "SRAM4")
      BY <2>1 DEF Contains, Range
    <2>3. ac["SRAM4"] = NS_PRIV
      BY <2>2 DEF TargetInv, FilterHonest, Setting
    <2>4. Attr(SRAM4_BASE) = "NS"
      BY <1>1, <1>2, SauDone, MapFacts DEF Between
    <2> QED
      BY <2>1, <2>3, <2>4 DEF NS_PRIV, BankAddr
  <1>7. \A c \in DOMAIN seccfg : seccfg[c] = "NSP"
    BY <1>3 DEF TargetInv, UnitsOK
  <1> QED
    BY <1>4, <1>5, <1>6, <1>7 DEF UnitsAgree

(* At the end of the set-up SAU, bus filter and DMA MPU say the same of     *)
(* what is Secure, though the code writes the three tables in three places. *)
THEOREM UnitsAlwaysAgree == TargetSpec => []UnitsAgree
  BY TablesAgree, ProgressInvariant, PTL

-----------------------------------------------------------------------------
(* Secure MPU, binding and scheduling *)

LatePc == {"MPU_CLEAR", "MPU_SET", "MPU_ON", "BIND", "BIND_FAILED", "RUN", "FAILED"}
MpuPc  == {"BIND", "BIND_FAILED", "RUN", "FAILED"}

-----------------------------------------------------------------------------
(* The invariant                                                            *)

(* SAU, bus filter and DMA, from the set-up to the last partition.          *)
UnitsInv ==
    /\ UnitsOK /\ SauPartial /\ DmaPartial /\ SauProgress /\ DmaProgress
    /\ pc \in TargetPc => TargetInv
    /\ err => refusing # {}

MpuRegion == [en : BOOLEAN, base : Nat, limit : Nat, write : BOOLEAN]

(* Where the program is in the loops over the slots, and what it has done.  *)
Filled(n) == \A i \in Slot : IF i < n THEN mpu[i] = Static[i + 1] ELSE ~mpu[i].en

MpuInv ==
    /\ mpu \in [Slot -> MpuRegion] /\ mpuOn \in BOOLEAN
    /\ pc \in {"MPU_CLEAR", "MPU_SET", "MPU_ON"} => Len(Static) <= build.slots
    /\ pc = "MPU_CLEAR" => idx \in Slot /\ \A i \in Slot : i < idx => ~mpu[i].en
    /\ pc = "MPU_SET" => idx \in 0..(Len(Static) - 1) /\ Filled(idx)
    /\ pc = "MPU_ON" => idx = Len(Static) /\ Filled(idx)
    /\ n_configured_regions \in 0..build.slots
    /\ pc \notin MpuPc => n_configured_regions = 0

(* Which partition and which of its assets is being bound.                  *)
PlaceInv ==
    /\ pc \in IsoPc /\ build \in Builds
    /\ part \in 1..(Len(Load) + 1)
    /\ pc \notin MpuPc => part = 1 /\ DOMAIN boundary = {}
    /\ pc = "BIND" /\ part \in Partition => idx \in 1..(Len(Assets(part)) + 1)
    /\ pc = "BIND_FAILED" => part \in Partition /\ idx \in 1..Len(Assets(part))
    /\ pc = "RUN" => part = Len(Load) + 1

HandleInv ==
    /\ \A p \in DOMAIN boundary : p \in Partition /\ p < part /\ boundary[p] = Handle(p)
    /\ running \in {0} \cup DOMAIN boundary
    /\ nPRIV = ~BoundaryOf(running).priv

(* The assets that have been dealt with. *)
Binding    == pc \in {"BIND", "BIND_FAILED"}
Dealt(p, k) == p < part \/ (p = part /\ Binding /\ k < idx)

(* Each slot beyond the static ones that is on belongs to one device.       *)
DeviceSlot(i) == i \in Slot /\ Len(Static) <= i /\ i < n_configured_regions
OwnedBy(i, p, k) ==
    /\ p \in Partition /\ ~Privileged(p) /\ k \in DOMAIN Assets(p) /\ Device(p, k)
    /\ mpu[i] = ReadWrite(Assets(p)[k]) /\ Dealt(p, k)

SlotsInv ==
    MpuReady =>
      /\ mpuOn /\ n_configured_regions \in Len(Static)..build.slots
      /\ \A i \in 0..(Len(Static) - 1) : mpu[i] = Static[i + 1]
      /\ \A i \in Slot : mpu[i].en <=> i < n_configured_regions
      /\ \A i \in Slot : DeviceSlot(i) => \E p \in Partition : \E k \in DOMAIN Assets(p) : OwnedBy(i, p, k)
      /\ \A i, j \in Slot : i # j /\ mpu[i].en /\ mpu[j].en => Apart(mpu[i], mpu[j])

(* What a device of p has been given, by ACCESSCTRL and by the MPU.         *)
Told(p, k) ==
    Assets(p)[k].named /\ Assets(p)[k].reg # AC_DO_NOT_CONFIGURE
      => ac[Assets(p)[k].reg] = AccessSetting(p)
Served(p, k) ==
    Assets(p)[k].named =>
      /\ Assets(p)[k].listed
      /\ ~Privileged(p) => Assets(p)[k].aligned
                           /\ \E i \in Slot : DeviceSlot(i) /\ mpu[i] = ReadWrite(Assets(p)[k])

DevicesInv ==
    MpuReady =>
      /\ \A p \in DOMAIN boundary : \A k \in DOMAIN Assets(p) :
           Served(p, k) /\ (LastGiven(p, Assets(p)[k]) => Told(p, k))
      /\ Binding /\ part \in Partition =>
           \A k \in DOMAIN Assets(part) : k < idx => Served(part, k) /\ Told(part, k)

(* The regions counted, as the promise counts them.                         *)
NamedBefore(p, k) == Cardinality({j \in 1..(k - 1) : Assets(p)[j].named})
CountInv ==
    /\ Binding /\ part \in Partition /\ ~Privileged(part) =>
         \A k \in 1..(idx - 1) : Assets(part)[k].named => NamedBefore(part, k) < Free
    /\ pc = "BIND_FAILED" =>
         /\ Assets(part)[idx].named
         /\ \/ ~Assets(part)[idx].listed
            \/ ~Privileged(part) /\ NoSlotFor(Assets(part)[idx])

IsoInv ==
    UnitsInv /\ MpuInv /\ PlaceInv /\ HandleInv /\ SlotsInv /\ DevicesInv /\ CountInv

-----------------------------------------------------------------------------
(* The constants                                                            *)

LEMMA BuildFacts ==
  ASSUME build \in Builds
  PROVE  /\ build.level \in {1, 2} /\ build.meta \in BOOLEAN /\ build.slots \in Nat
         /\ Len(Load) \in Nat /\ DOMAIN Load = Partition
         /\ \A p \in Partition :
              /\ Load[p].rot \in BOOLEAN /\ Load[p].ns \in BOOLEAN /\ Assets(p) \in Seq(Asset)
              /\ Len(Assets(p)) \in Nat /\ DOMAIN Assets(p) = 1..Len(Assets(p))
              /\ \A k \in DOMAIN Assets(p) : Assets(p)[k] \in Asset
  <1> DEFINE P == [rot : BOOLEAN, ns : BOOLEAN, assets : Seq(Asset)]
  <1>1. build \in System
    BY BuildAssumption
  <1>2. /\ build.level \in {1, 2} /\ build.meta \in BOOLEAN /\ build.slots \in Nat
        /\ Load \in Seq(P)
    BY <1>1 DEF System, Load
  <1> HIDE DEF P
  <1>3. Len(Load) \in Nat /\ DOMAIN Load = Partition /\ \A p \in Partition : Load[p] \in P
    BY <1>2 DEF Partition
  <1>4. \A p \in Partition : /\ Load[p].rot \in BOOLEAN /\ Load[p].ns \in BOOLEAN
                             /\ Assets(p) \in Seq(Asset)
    BY <1>3 DEF P, Assets
  <1>5. \A s \in Seq(Asset) : /\ Len(s) \in Nat /\ DOMAIN s = 1..Len(s)
                              /\ \A k \in DOMAIN s : s[k] \in Asset
    OBVIOUS
  <1> QED
    BY <1>2, <1>3, <1>4, <1>5

LEMMA StaticFacts ==
  /\ Len(Static) \in {4, 5} /\ Len(Static) = (IF build.meta THEN 5 ELSE 4)
  /\ \A i \in 0..(Len(Static) - 1) :
       /\ Static[i + 1] \in MpuRegion /\ Static[i + 1].en
       /\ Static[i + 1].base = Sections[i + 1].base
       /\ Static[i + 1].limit = Sections[i + 1].limit
  <1> DEFINE four == <<ReadOnly(Sections[1]), ReadOnly(Sections[2]), ReadOnly(Sections[3]),
                       ReadWrite(Sections[4])>>
             rest == IF build.meta THEN <<ReadWrite(Sections[5])>> ELSE <<>>
  <1>1. Static = four \o rest
    BY DEF Static, Sections
  <1>2. /\ Len(Static) = (IF build.meta THEN 5 ELSE 4)
        /\ Static[1] = ReadOnly(Sections[1]) /\ Static[2] = ReadOnly(Sections[2])
        /\ Static[3] = ReadOnly(Sections[3]) /\ Static[4] = ReadWrite(Sections[4])
        /\ build.meta => Static[5] = ReadWrite(Sections[5])
    <2> HIDE DEF Sections
    <2>1. CASE build.meta
      BY <1>1, <2>1
    <2>2. CASE ~build.meta
      BY <1>1, <2>2
    <2> QED
      BY <2>1, <2>2
  <1>3. \A r \in Extent : /\ ReadOnly(r) \in MpuRegion /\ ReadOnly(r).en
                          /\ ReadOnly(r).base = r.base /\ ReadOnly(r).limit = r.limit
                          /\ ReadWrite(r) \in MpuRegion /\ ReadWrite(r).en
                          /\ ReadWrite(r).base = r.base /\ ReadWrite(r).limit = r.limit
    BY DEF Extent, ReadOnly, ReadWrite, MpuRegion
  <1>4. \A i \in 1..5 : Sections[i] \in Extent
    BY SectionAssumption
  <1> HIDE DEF Sections
  <1>5. Len(Static) \in {4, 5}
    BY <1>2
  <1>6. ASSUME NEW i \in 0..(Len(Static) - 1)
        PROVE  /\ Sections[i + 1] \in Extent
               /\ \/ Static[i + 1] = ReadOnly(Sections[i + 1])
                  \/ Static[i + 1] = ReadWrite(Sections[i + 1])
    <2>1. i \in {0, 1, 2, 3} \/ (i = 4 /\ build.meta)
      BY <1>2
    <2>2. i + 1 \in 1..5
      BY <2>1
    <2> QED
      BY <1>2, <1>4, <2>1, <2>2
  <1> QED
    BY <1>2, <1>3, <1>5, <1>6

LEMMA StaticApart ==
  ASSUME NEW i \in 0..(Len(Static) - 1), NEW j \in 0..(Len(Static) - 1), i # j
  PROVE  Apart(Static[i + 1], Static[j + 1])
  <1>1. i + 1 \in 1..5 /\ j + 1 \in 1..5 /\ i + 1 # j + 1
    BY StaticFacts
  <1> QED
    BY <1>1, StaticFacts, SectionAssumption DEF Apart

LEMMA DeviceFacts ==
  ASSUME build \in Builds, NEW p \in Partition, NEW k \in DOMAIN Assets(p), Device(p, k)
  PROVE  /\ Assets(p)[k].base \in Nat /\ Assets(p)[k].limit \in Nat
         /\ Assets(p)[k].base <= Assets(p)[k].limit
         /\ ReadWrite(Assets(p)[k]) \in MpuRegion
         /\ \A i \in 0..(Len(Static) - 1) : Apart(ReadWrite(Assets(p)[k]), Static[i + 1])
  <1>1. Assets(p)[k] \in Asset /\ p \in DOMAIN Load
    BY BuildFacts
  <1>2. /\ Assets(p)[k].base <= Assets(p)[k].limit
        /\ \A i \in 1..5 : Apart(Assets(p)[k], Sections[i])
    BY <1>1, BuildAssumption DEF Assets, Load, Device
  <1>3. \A i \in 0..(Len(Static) - 1) : i + 1 \in 1..5
    BY StaticFacts
  <1>4. \A i \in 0..(Len(Static) - 1) : Apart(ReadWrite(Assets(p)[k]), Static[i + 1])
    BY <1>2, <1>3, StaticFacts DEF Apart, ReadWrite
  <1>5. /\ Assets(p)[k].base \in Nat /\ Assets(p)[k].limit \in Nat
        /\ ReadWrite(Assets(p)[k]) \in MpuRegion
    BY <1>1 DEF Asset, ReadWrite, MpuRegion
  <1> QED
    BY <1>2, <1>4, <1>5

LEMMA DevicesApart ==
  ASSUME build \in Builds,
         NEW p \in Partition, NEW k \in DOMAIN Assets(p), Device(p, k), ~Privileged(p),
         NEW q \in Partition, NEW l \in DOMAIN Assets(q), Device(q, l), ~Privileged(q),
         <<p, k>> # <<q, l>>
  PROVE  Apart(ReadWrite(Assets(p)[k]), ReadWrite(Assets(q)[l]))
  <1>1. p \in DOMAIN Load /\ q \in DOMAIN Load /\ build.level = 2
    BY BuildFacts DEF Privileged
  <1>2. Apart(Assets(p)[k], Assets(q)[l])
    BY <1>1, BuildAssumption DEF Assets, Load, Device, Privileged
  <1> QED
    BY <1>2 DEF Apart, ReadWrite

-----------------------------------------------------------------------------
(* SAU, bus filter and DMA                                                  *)

LEMMA TargetPlace == TargetStep => pc \in TargetPc
BY DEF TargetStep, SauRbar, SauRlar, SauEnable, AcCfgReset, AcGpio, AcPeriph, AcLock,
       DmaChannel, DmaCtrl, DmaBar, DmaLar, TargetPc

(* Only a register that refuses a write makes bus_filter_cfg() report one.  *)
LEMMA ErrHonest ==
  ASSUME TargetInv, err => refusing # {}, TargetStep
  PROVE  err' => refusing' # {}
  <1>1. CASE AcPeriph
    <2> DEFINE r == Periphs[idx]
    <2>1. r \in AcReg /\ ac \in [AcReg -> {Default, NS_PRIV, S_UNPRIV_C0, S_PRIV_C0}]
      <3>1. idx \in 1..Len(Periphs)
        BY <1>1 DEF TargetInv, PlaceOK, AcPeriph
      <3> QED
        BY <3>1, ListFacts DEF TargetInv, UnitsOK
    <2>2. r \notin refusing => ac'[r] = Setting(r)
      <3> HIDE DEF r
      <3>1. r = Periphs[idx]
        BY DEF r
      <3> QED
        BY <1>1, <2>1, <3>1 DEF AcPeriph
    <2>3. err' = (err \/ ac'[r] # Setting(r)) /\ refusing' = refusing
      BY <1>1 DEF AcPeriph, TargetStep
    <2> QED
      BY <2>2, <2>3
  <1>2. CASE ~AcPeriph
    <2>1. err' \in {err, FALSE} /\ refusing' = refusing
      BY <1>2 DEF TargetStep, SauRbar, SauRlar, SauEnable, AcCfgReset, AcGpio, AcLock,
                  DmaChannel, DmaCtrl, DmaBar, DmaLar
    <2> QED
      BY <2>1
  <1> QED
    BY <1>1, <1>2

LEMMA UnitsTarget == ASSUME UnitsInv, TargetStep PROVE UnitsInv'
  <1>1. TargetInv
    BY TargetPlace DEF UnitsInv
  <1>2. TargetInv' /\ SauProgress' /\ DmaProgress'
    BY <1>1, StepTargetInv, StepSauProgress, StepDmaProgress DEF UnitsInv, TargetNext
  <1>3. err' => refusing' # {}
    BY <1>1, ErrHonest DEF UnitsInv
  <1> QED
    BY <1>2, <1>3 DEF UnitsInv, TargetInv

(* Beyond the set-up the units stay as they are, ACCESSCTRL excepted.       *)
LEMMA UnitsLate ==
  ASSUME UnitsInv, UNCHANGED <<sauVars, gpio, lock, err, dmaVars, refusing>>,
         pc \in LatePc \cup {"MPU_CHECK"}, pc' \in LatePc,
         ac' \in [AcReg -> {Default, NS_PRIV, S_UNPRIV_C0, S_PRIV_C0}]
  PROVE  UnitsInv'
  <1> USE DEF sauVars, dmaVars
  <1>1. UnitsOK'
    BY DEF UnitsInv, UnitsOK
  <1>2. SauPartial' /\ DmaPartial'
    BY DEF UnitsInv, SauPartial, DmaPartial, LatePc
  <1>3. SauProgress' /\ DmaProgress'
    BY DEF UnitsInv, SauProgress, DmaProgress, SauLoop, DmaLoop, LatePc
  <1>4. pc' \in TargetPc => PlaceOK'
    BY DEF PlaceOK, LatePc
  <1>5. FilterSoFar' /\ FilterHonest'
    BY DEF FilterSoFar, FilterHonest, LatePc
  <1>6. err' => refusing' # {}
    BY DEF UnitsInv
  <1> QED
    BY <1>1, <1>2, <1>3, <1>4, <1>5, <1>6 DEF UnitsInv, TargetInv

LEMMA UnitsReset == ASSUME UnitsInv, TargetReset PROVE UnitsInv'
  <1>1. TargetInv'
    BY StepReset DEF UnitsInv
  <1>2. pc' = "SAU_RBAR" /\ idx' = 1 /\ err' = FALSE
    BY DEF TargetReset, Goto
  <1>3. SauProgress' /\ DmaProgress'
    BY <1>2 DEF SauProgress, DmaProgress, SauLoop, DmaLoop
  <1> QED
    BY <1>1, <1>2, <1>3 DEF UnitsInv, TargetInv

LEMMA SettingAllowed ==
  ASSUME UnitsOK, NEW p, NEW a, ConfigureAccess(p, a)
  PROVE  ac' \in [AcReg -> {Default, NS_PRIV, S_UNPRIV_C0, S_PRIV_C0}]
BY DEF UnitsOK, ConfigureAccess, AccessSetting

LEMMA UnitsStep == ASSUME UnitsInv, [IsoNext]_tfmVars PROVE UnitsInv'
  <1>1. CASE TargetStep
    BY <1>1, UnitsTarget
  <1>2. CASE IsoReset
    BY <1>2, UnitsReset DEF IsoReset
  <1>3. CASE IsoStep
    <2>0. UNCHANGED <<refusing, resets>>
      BY <1>3 DEF IsoStep
    <2>1. ac \in [AcReg -> {Default, NS_PRIV, S_UNPRIV_C0, S_PRIV_C0}]
      BY DEF UnitsInv, UnitsOK
    <2>2. CASE BindAsset
      <3>1. pc' \in LatePc /\ pc \in LatePc
        BY <2>2, Zenon DEF BindAsset, Goto, LatePc
      <3>2. ConfigureAccess(part, Assets(part)[idx])
        BY <2>2 DEF BindAsset
      <3>3. UNCHANGED <<sauVars, gpio, lock, err, dmaVars>>
        BY <2>2 DEF BindAsset
      <3> QED
        BY <2>0, <3>1, <3>2, <3>3, SettingAllowed, UnitsLate DEF UnitsInv
    <2>3. CASE MpuCheck \/ MpuClear \/ MpuSet \/ MpuEnable
      <3>1. pc' \in LatePc /\ pc \in LatePc \cup {"MPU_CHECK"} /\ UNCHANGED unitVars
        BY <2>3 DEF MpuCheck, MpuClear, MpuSet, MpuEnable, Goto, LatePc
      <3> QED
        BY <2>0, <2>1, <3>1, UnitsLate DEF unitVars, acVars
    <2>4. CASE SkipAsset \/ RefuseAsset \/ BindDone \/ BindFailed \/ AllBound
      <3>1. pc' \in LatePc /\ pc \in LatePc /\ UNCHANGED unitVars
        BY <2>4 DEF SkipAsset, RefuseAsset, BindDone, BindFailed, AllBound, Goto, LatePc
      <3> QED
        BY <2>0, <2>1, <3>1, UnitsLate DEF unitVars, acVars
    <2>5. CASE \E q \in Partition : Schedule(q)
      <3>1. pc' \in LatePc /\ pc \in LatePc /\ UNCHANGED unitVars
        BY <2>5 DEF Schedule, LatePc
      <3> QED
        BY <2>0, <2>1, <3>1, UnitsLate DEF unitVars, acVars
    <2> QED
      BY <1>3, <2>2, <2>3, <2>4, <2>5 DEF IsoStep
  <1>4. CASE UNCHANGED tfmVars
    <2>1. TargetInv' <=> TargetInv
      BY <1>4 DEF tfmVars, targetVars, unitVars, sauVars, acVars, dmaVars, TargetInv, PlaceOK,
                  UnitsOK, SauPartial, DmaPartial, FilterSoFar, FilterHonest
    <2>2. UNCHANGED <<pc, idx, sau, sauOn, ac, gpio, lock, err, seccfg, dmaDefaultS, dma, refusing>>
      BY <1>4 DEF tfmVars, targetVars, unitVars, sauVars, acVars, dmaVars
    <2> QED
      BY <2>1, <2>2 DEF UnitsInv, UnitsOK, SauPartial, DmaPartial, SauProgress, DmaProgress
  <1> QED
    BY <1>1, <1>2, <1>3, <1>4 DEF IsoNext

-----------------------------------------------------------------------------
(* The slots of the MPU, until the first partition is bound                 *)

LEMMA ResetSlots == MpuReset \subseteq [Slot -> MpuRegion]
  <1>1. Closed \in MpuRegion /\ ReadWrite([base |-> SRAM0_BASE, limit |-> SRAM8_BASE]) \in MpuRegion
    BY TargetAssumption DEF Closed, ReadWrite, MpuRegion
  <1> QED
    BY <1>1 DEF MpuReset

LEMMA MpuSettingUp ==
  ASSUME MpuInv, PlaceInv, MpuCheck \/ MpuClear \/ MpuSet \/ MpuEnable
  PROVE  MpuInv'
  <1> DEFINE n == Len(Static)
  <1>0. /\ build' = build /\ Static' = Static /\ Slot' = Slot /\ build.slots \in Nat /\ n \in {4, 5}
        /\ mpu \in [Slot -> MpuRegion] /\ mpuOn \in BOOLEAN
    BY StaticFacts, BuildFacts DEF MpuCheck, MpuClear, MpuSet, MpuEnable, Static, Slot, MpuInv, PlaceInv
  <1>1. CASE MpuCheck
    <2>1. /\ mpu' = mpu /\ mpuOn' \in BOOLEAN /\ n_configured_regions' = n_configured_regions
          /\ n_configured_regions = 0
      BY <1>0, <1>1 DEF MpuCheck, MpuInv, MpuPc
    <2>2. \/ pc' = "FAILED"
          \/ pc' = "MPU_CLEAR" /\ idx' = 0 /\ n <= build.slots
      BY <1>0, <1>1 DEF MpuCheck, Goto
    <2> HIDE DEF n
    <2>3. pc' = "MPU_CLEAR" => n <= build.slots /\ idx' \in Slot /\ \A i \in Slot : ~(i < idx')
      BY <1>0, <2>2 DEF Slot
    <2> QED
      BY <1>0, <2>1, <2>2, <2>3 DEF MpuInv, MpuPc, n
  <1>2. CASE MpuClear
    <2>1. /\ idx \in Slot /\ n <= build.slots /\ \A i \in Slot : i < idx => ~mpu[i].en
          /\ n_configured_regions' = 0 /\ mpuOn' = mpuOn /\ mpu' = [mpu EXCEPT ![idx] = Closed]
      BY <1>2 DEF MpuClear, MpuInv, MpuPc
    <2>2. \/ pc' = "MPU_CLEAR" /\ idx' = idx + 1 /\ idx + 1 < build.slots
          \/ pc' = "MPU_SET" /\ idx' = 0 /\ idx + 1 >= build.slots
      BY <1>0, <1>2, <2>1 DEF MpuClear, Goto, Slot
    <2>3. mpu' \in [Slot -> MpuRegion]
      BY <1>0, <2>1 DEF Closed, MpuRegion
    <2>4. \A i \in Slot : i <= idx => ~mpu'[i].en
      BY <1>0, <2>1 DEF Closed, Slot
    <2> HIDE DEF n
    <2>5. pc' = "MPU_CLEAR" => idx' \in Slot /\ \A i \in Slot : i < idx' => ~mpu'[i].en
      BY <1>0, <2>1, <2>2, <2>4 DEF Slot
    <2>6. pc' = "MPU_SET" => idx' \in 0..(n - 1) /\ \A i \in Slot : ~(i < idx') /\ ~mpu'[i].en
      BY <1>0, <2>1, <2>2, <2>4 DEF Slot
    <2>7. pc' = "MPU_SET" => Filled(idx)'
      BY <1>0, <2>6 DEF Filled
    <2> QED
      BY <1>0, <2>1, <2>2, <2>3, <2>5, <2>6, <2>7 DEF MpuInv, MpuPc, n
  <1>3. CASE MpuSet
    <2>1. /\ idx \in 0..(n - 1) /\ n <= build.slots /\ Filled(idx) /\ idx \in Slot
          /\ n_configured_regions' = 0 /\ mpuOn' = mpuOn
          /\ mpu' = [mpu EXCEPT ![idx] = Static[idx + 1]]
      BY <1>0, <1>3 DEF MpuSet, MpuInv, MpuPc, Slot
    <2>2. /\ idx' = idx + 1
          /\ \/ pc' = "MPU_SET" /\ idx + 1 < n
             \/ pc' = "MPU_ON" /\ idx + 1 = n
      BY <1>0, <1>3, <2>1 DEF MpuSet, Goto
    <2>3. mpu' \in [Slot -> MpuRegion]
      BY <1>0, <2>1, StaticFacts
    <2>4. \A i \in Slot : IF i < idx + 1 THEN mpu'[i] = Static[i + 1] ELSE ~mpu'[i].en
      BY <1>0, <2>1 DEF Filled, Slot
    <2>5. Filled(idx)'
      BY <1>0, <2>2, <2>4 DEF Filled
    <2> HIDE DEF n
    <2>6. pc' = "MPU_SET" => idx' \in 0..(n - 1)
      BY <1>0, <2>1, <2>2
    <2> QED
      BY <1>0, <2>1, <2>2, <2>3, <2>5, <2>6 DEF MpuInv, MpuPc, n
  <1>4. CASE MpuEnable
    <2>1. /\ pc' = "BIND" /\ mpu' = mpu /\ mpuOn' = TRUE
          /\ n_configured_regions' = n /\ n <= build.slots
      BY <1>4 DEF MpuEnable, Goto, MpuInv
    <2>2. n_configured_regions' \in 0..build.slots
      BY <1>0, <2>1
    <2> QED
      BY <1>0, <2>1, <2>2 DEF MpuInv, MpuPc
  <1> QED
    BY <1>1, <1>2, <1>3, <1>4

(* A region of the MPU for one more device. *)
Grown(a) == /\ ~NoSlotFor(a) /\ mpu' = [mpu EXCEPT ![n_configured_regions] = ReadWrite(a)]
            /\ n_configured_regions' = n_configured_regions + 1 /\ mpuOn' = TRUE

LEMMA BindCases ==
  ASSUME BindAsset
  PROVE  /\ pc = "BIND" /\ part \in Partition /\ idx <= Len(Assets(part)) /\ Device(part, idx)
         /\ ConfigureAccess(part, Assets(part)[idx])
         /\ UNCHANGED <<build, part, boundary, running, nPRIV>>
         /\ \/ /\ Privileged(part) /\ pc' = "BIND" /\ idx' = idx + 1
               /\ UNCHANGED <<mpu, n_configured_regions, mpuOn>>
            \/ /\ ~Privileged(part) /\ NoSlotFor(Assets(part)[idx])
               /\ pc' = "BIND_FAILED" /\ idx' = idx
               /\ UNCHANGED <<mpu, n_configured_regions, mpuOn>>
            \/ /\ ~Privileged(part) /\ Grown(Assets(part)[idx])
               /\ pc' = "BIND" /\ idx' = idx + 1
BY Zenon DEF BindAsset, Goto, Grown

LEMMA PartAsset ==
  ASSUME PlaceInv, pc = "BIND", part \in Partition, idx <= Len(Assets(part))
  PROVE  idx \in DOMAIN Assets(part) /\ idx \in 1..Len(Assets(part)) /\ build \in Builds
BY BuildFacts DEF PlaceInv

LEMMA MpuBinding == ASSUME MpuInv, PlaceInv, BindAsset PROVE MpuInv'
  <1>1. /\ mpu \in [Slot -> MpuRegion] /\ mpuOn \in BOOLEAN
        /\ n_configured_regions \in 0..build.slots /\ build.slots \in Nat
        /\ Slot' = Slot /\ build' = build /\ pc' \in {"BIND", "BIND_FAILED"}
    BY BindCases, BuildFacts DEF MpuInv, PlaceInv, Slot
  <1>2. CASE UNCHANGED <<mpu, n_configured_regions, mpuOn>>
    BY <1>1, <1>2 DEF MpuInv, MpuPc
  <1>3. CASE Grown(Assets(part)[idx])
    <2>1. ReadWrite(Assets(part)[idx]) \in MpuRegion
      BY BindCases, PartAsset, DeviceFacts
    <2>2. n_configured_regions \in Slot /\ n_configured_regions + 1 \in 0..build.slots
      BY <1>1, <1>3 DEF Grown, NoSlotFor, Slot
    <2>3. mpu' \in [Slot -> MpuRegion] /\ mpuOn' \in BOOLEAN
          /\ n_configured_regions' \in 0..build.slots
      BY <1>1, <1>3, <2>1, <2>2 DEF Grown
    <2> QED
      BY <1>1, <2>3 DEF MpuInv, MpuPc
  <1> QED
    BY <1>2, <1>3, BindCases

LEMMA MpuStep == ASSUME MpuInv, PlaceInv, [IsoNext]_tfmVars PROVE MpuInv'
  <1>1. CASE TargetStep /\ UNCHANGED isoVars
    <2>1. pc \in TargetPc /\ pc' \in TargetPc
      BY <1>1, TargetPlace DEF TargetStep, SauRbar, SauRlar, SauEnable, AcCfgReset, AcGpio,
         AcPeriph, AcLock, DmaChannel, DmaCtrl, DmaBar, DmaLar, Goto, TargetPc
    <2>2. Slot' = Slot /\ UNCHANGED <<build, mpu, mpuOn, n_configured_regions>>
      BY <1>1 DEF isoVars, Slot
    <2>3. pc # "FAILED"
      BY <1>1 DEF TargetStep, SauRbar, SauRlar, SauEnable, AcCfgReset, AcGpio,
         AcPeriph, AcLock, DmaChannel, DmaCtrl, DmaBar, DmaLar
    <2> QED
      BY <2>1, <2>2, <2>3 DEF MpuInv, TargetPc, MpuPc
  <1>2. CASE MpuCheck \/ MpuClear \/ MpuSet \/ MpuEnable
    BY <1>2, MpuSettingUp
  <1>3. CASE BindAsset
    BY <1>3, MpuBinding
  <1>4. CASE SkipAsset \/ RefuseAsset \/ BindDone \/ BindFailed \/ AllBound
             \/ \E q \in Partition : Schedule(q)
    <2>1. /\ Slot' = Slot /\ UNCHANGED <<build, mpu, mpuOn, n_configured_regions>>
          /\ pc \in MpuPc /\ pc' \in MpuPc
      BY <1>4 DEF SkipAsset, RefuseAsset, BindDone, BindFailed, AllBound, Schedule, Goto, isoVars,
                  MpuPc, Slot
    <2> QED
      BY <2>1 DEF MpuInv, MpuPc
  <1>5. CASE IsoReset
    <2>1. /\ pc' = "SAU_RBAR" /\ build' = build /\ Slot' = Slot /\ n_configured_regions' = 0
          /\ mpu' \in [Slot -> MpuRegion] /\ mpuOn' \in BOOLEAN /\ build.slots \in Nat
      BY <1>5, ResetSlots, BuildFacts DEF IsoReset, TargetReset, Goto, MpuInv, Slot, PlaceInv
    <2> QED
      BY <2>1 DEF MpuInv, MpuPc
  <1>6. CASE UNCHANGED tfmVars
    BY <1>6 DEF tfmVars, targetVars, isoVars, MpuInv, Slot, Static, Filled
  <1> QED
    BY <1>1, <1>2, <1>3, <1>4, <1>5, <1>6 DEF IsoNext, IsoStep

-----------------------------------------------------------------------------
(* The loop over the partitions                                             *)

(* Wherever the processor is before and after an instruction of the set-up. *)
LEMMA TargetMoves ==
  TargetStep => pc \in TargetPc \ {"FAILED", "MPU_CHECK"} /\ pc' \in TargetPc
BY DEF TargetStep, SauRbar, SauRlar, SauEnable, AcCfgReset, AcGpio, AcPeriph, AcLock,
       DmaChannel, DmaCtrl, DmaBar, DmaLar, Goto, TargetPc

LEMMA EmptyDomain == DOMAIN <<>> = {}
OBVIOUS

LEMMA PlaceSame ==
  ASSUME PlaceInv, UNCHANGED <<build, part, boundary>>, pc \notin MpuPc, pc' \in IsoPc,
         pc' \notin {"BIND", "BIND_FAILED", "RUN"}
  PROVE  PlaceInv'
  <1>1. /\ build' \in Builds /\ part' \in 1..(Len(Load)' + 1)
        /\ part' = 1 /\ DOMAIN boundary' = {}
    BY DEF PlaceInv, Load
  <1> QED
    BY <1>1 DEF PlaceInv

LEMMA PlaceStep == ASSUME PlaceInv, [IsoNext]_tfmVars PROVE PlaceInv'
  <1> USE DEF Goto
  <1>0. /\ pc \in IsoPc /\ build \in Builds /\ part \in 1..(Len(Load) + 1) /\ Len(Load) \in Nat
        /\ \A p \in Partition : Len(Assets(p)) \in Nat
    BY BuildFacts DEF PlaceInv
  <1>1. CASE TargetStep /\ UNCHANGED isoVars
    BY <1>1, TargetMoves, PlaceSame DEF isoVars, TargetPc, MpuPc, IsoPc
  <1>2. CASE MpuCheck \/ MpuClear \/ MpuSet
    <2>1. /\ UNCHANGED <<build, part, boundary>> /\ pc \notin MpuPc
          /\ pc' \in {"FAILED", "MPU_CLEAR", "MPU_SET", "MPU_ON"}
      BY <1>2 DEF MpuCheck, MpuClear, MpuSet, MpuPc
    <2> QED
      BY <2>1, PlaceSame DEF IsoPc
  <1>3. CASE MpuEnable
    <2>1. pc' = "BIND" /\ idx' = 1 /\ UNCHANGED <<build, part, boundary>>
      BY <1>3 DEF MpuEnable
    <2>2. Load' = Load /\ Partition' = Partition /\ \A p \in Partition : Assets(p)' = Assets(p)
      BY <2>1 DEF Load, Partition, Assets
    <2>3. (part \in Partition => idx \in 1..(Len(Assets(part)) + 1))'
      BY <1>0, <2>1 DEF Load, Partition, Assets
    <2> QED
      BY <1>0, <2>1, <2>2, <2>3 DEF PlaceInv, IsoPc, MpuPc
  <1>4. CASE SkipAsset \/ RefuseAsset \/ BindAsset
    <2>1. /\ pc = "BIND" /\ part \in Partition /\ idx <= Len(Assets(part))
          /\ UNCHANGED <<build, part, boundary>>
          /\ \/ pc' = "BIND" /\ idx' = idx + 1
             \/ pc' = "BIND_FAILED" /\ idx' = idx
      BY <1>4, BindCases DEF SkipAsset, RefuseAsset, isoVars
    <2>2. Load' = Load /\ Partition' = Partition /\ Assets(part)' = Assets(part)
      BY <2>1 DEF Load, Partition, Assets
    <2>3. idx \in 1..Len(Assets(part)) /\ Len(Assets(part)) \in Nat
      BY <1>0, <2>1 DEF PlaceInv
    <2>4. pc' = "BIND" => idx' \in 1..(Len(Assets(part)) + 1)
      BY <2>1, <2>3
    <2> QED
      BY <1>0, <2>1, <2>2, <2>3, <2>4 DEF PlaceInv, IsoPc, MpuPc
  <1>5. CASE BindDone \/ BindFailed
    <2>1. /\ pc \in {"BIND", "BIND_FAILED"} /\ part \in Partition /\ build' = build
          /\ \/ pc' = "BIND" /\ idx' = 1 /\ part' = part + 1
             \/ pc' = "FAILED" /\ part' = part
      BY <1>5 DEF BindDone, BindFailed, PlaceInv
    <2>2. Load' = Load /\ Partition' = Partition /\ \A p \in Partition : Assets(p)' = Assets(p)
      BY <2>1 DEF Load, Partition, Assets
    <2>3. part' \in 1..(Len(Load)' + 1)
      BY <1>0, <2>1, <2>2 DEF Partition
    <2>4. (pc = "BIND" /\ part \in Partition => idx \in 1..(Len(Assets(part)) + 1))'
      BY <1>0, <2>1 DEF Load, Partition, Assets
    <2> QED
      BY <1>0, <2>1, <2>3, <2>4 DEF PlaceInv, IsoPc, MpuPc
  <1>6. CASE AllBound \/ \E q \in Partition : Schedule(q)
    <2>1. pc' = "RUN" /\ UNCHANGED <<build, part, boundary>> /\ part = Len(Load) + 1
      BY <1>6 DEF AllBound, Schedule, isoVars, PlaceInv
    <2> QED
      BY <1>0, <2>1 DEF PlaceInv, IsoPc, MpuPc, Load
  <1>7. CASE IsoReset
    <2>1. pc' = "SAU_RBAR" /\ part' = 1 /\ DOMAIN boundary' = {} /\ build' = build
      BY <1>7, EmptyDomain DEF IsoReset, TargetReset
    <2> QED
      BY <1>0, <2>1 DEF PlaceInv, IsoPc, TargetPc, MpuPc, Load
  <1>8. CASE UNCHANGED tfmVars
    BY <1>8 DEF tfmVars, targetVars, isoVars, PlaceInv, Load, Partition, Assets
  <1> QED
    BY <1>1, <1>2, <1>3, <1>4, <1>5, <1>6, <1>7, <1>8 DEF IsoNext, IsoStep

-----------------------------------------------------------------------------
(* Handles and privilege                                                    *)

(* The switch itself: whether it is made or not, nPRIV says afterwards what *)
(* the new boundary says.                                                   *)
LEMMA SwitchRight ==
  ASSUME NEW from, NEW to, NEW n, from.priv \in BOOLEAN, to.priv \in BOOLEAN,
         n = ~from.priv
  PROVE  (IF NeedSwitch(from, to) THEN ~to.priv ELSE n) = ~to.priv
BY DEF NeedSwitch

LEMMA HandleBoolean == ASSUME NEW p PROVE Handle(p).priv \in BOOLEAN
BY DEF Handle, Privileged

LEMMA HandleQuiet ==
  ASSUME HandleInv, UNCHANGED <<build, boundary, running, nPRIV>>,
         part' \in {part, part + 1}, part \in Nat
  PROVE  HandleInv'
  <1>1. Partition' = Partition /\ \A p \in Partition : Handle(p)' = Handle(p)
    BY DEF Partition, Handle, Privileged, Load
  <1>2. BoundaryOf(running)' = BoundaryOf(running)
    BY DEF BoundaryOf, SpmBoundary
  <1>3. \A p \in Partition : p \in Nat
    BY DEF Partition
  <1> QED
    BY <1>1, <1>2, <1>3 DEF HandleInv

LEMMA HandleBindDone == ASSUME HandleInv, part \in Nat, BindDone PROVE HandleInv'
  <1>1. /\ boundary' = [p \in DOMAIN boundary \cup {part} |->
                          IF p = part THEN Handle(p) ELSE boundary[p]]
        /\ part' = part + 1 /\ running' = running /\ nPRIV' = nPRIV /\ build' = build
        /\ part \in Partition
    BY DEF BindDone
  <1>2. Partition' = Partition /\ \A p \in Partition : Handle(p)' = Handle(p) /\ p \in Nat
    BY <1>1 DEF Partition, Handle, Privileged, Load
  <1>3. \A p \in DOMAIN boundary : p # part /\ p \in DOMAIN boundary' /\ boundary'[p] = boundary[p]
    BY <1>1, <1>2 DEF HandleInv
  <1>4. ASSUME NEW p \in DOMAIN boundary'
        PROVE  p \in Partition' /\ p < part' /\ boundary'[p] = Handle(p)'
    <2>1. CASE p = part
      BY <1>1, <1>2, <2>1
    <2>2. CASE p # part
      <3>1. p \in DOMAIN boundary /\ boundary'[p] = boundary[p]
        BY <1>1, <2>2
      <3>2. p \in Partition /\ p < part /\ boundary[p] = Handle(p)
        BY <3>1 DEF HandleInv
      <3>3. Handle(p)' = Handle(p) /\ p \in Nat /\ Partition' = Partition
        BY <1>2, <3>2
      <3>4. p < part' /\ part' = part + 1
        BY <1>1, <3>2, <3>3
      <3> QED
        BY <3>1, <3>2, <3>3, <3>4
    <2> QED
      BY <2>1, <2>2
  <1>5. BoundaryOf(running)' = BoundaryOf(running) /\ running' \in {0} \cup DOMAIN boundary'
    BY <1>1, <1>2, <1>3 DEF HandleInv, BoundaryOf, SpmBoundary
  <1> QED
    BY <1>1, <1>4, <1>5 DEF HandleInv

LEMMA HandleSchedule ==
  ASSUME HandleInv, NEW q \in Partition, Schedule(q)
  PROVE  HandleInv'
  <1>1. /\ q \in DOMAIN boundary /\ q # 0 /\ running' = q
        /\ UNCHANGED <<boundary, part, build>>
    BY DEF Schedule, Bound, Partition
  <1>2. BoundaryOf(running).priv \in BOOLEAN /\ boundary[q].priv \in BOOLEAN
    <2>1. \A p \in DOMAIN boundary : boundary[p].priv \in BOOLEAN
      BY HandleBoolean DEF HandleInv
    <2>2. running = 0 \/ running \in DOMAIN boundary
      BY DEF HandleInv
    <2>3. CASE running = 0
      BY <1>1, <2>1, <2>3 DEF BoundaryOf, SpmBoundary
    <2>4. CASE running # 0
      BY <1>1, <2>1, <2>2, <2>4 DEF BoundaryOf
    <2> QED
      BY <2>3, <2>4
  <1>3. nPRIV' = ~boundary[q].priv
    BY <1>2, SwitchRight DEF Schedule, HandleInv
  <1>4. BoundaryOf(running)' = boundary[q]
    BY <1>1 DEF BoundaryOf
  <1>5. Partition' = Partition /\ \A p \in Partition : Handle(p)' = Handle(p)
    BY <1>1 DEF Partition, Handle, Privileged, Load
  <1> QED
    BY <1>1, <1>3, <1>4, <1>5 DEF HandleInv

LEMMA HandleStep == ASSUME HandleInv, PlaceInv, [IsoNext]_tfmVars PROVE HandleInv'
  <1>0. part \in Nat
    BY BuildFacts DEF PlaceInv
  <1>1. CASE (TargetStep /\ UNCHANGED isoVars) \/ UNCHANGED tfmVars
    BY <1>0, <1>1, HandleQuiet DEF isoVars, tfmVars
  <1>2. CASE MpuCheck \/ MpuClear \/ MpuSet \/ MpuEnable
    BY <1>0, <1>2, HandleQuiet DEF MpuCheck, MpuClear, MpuSet, MpuEnable
  <1>3. CASE SkipAsset \/ RefuseAsset \/ BindAsset \/ AllBound \/ BindFailed
    BY <1>0, <1>3, HandleQuiet DEF SkipAsset, RefuseAsset, BindAsset, AllBound, BindFailed, isoVars
  <1>4. CASE BindDone
    BY <1>0, <1>4, HandleBindDone
  <1>5. CASE \E q \in Partition : Schedule(q)
    BY <1>5, HandleSchedule
  <1>6. CASE IsoReset
    <2>1. boundary' = <<>> /\ running' = 0 /\ nPRIV' = FALSE
      BY <1>6 DEF IsoReset
    <2>2. DOMAIN boundary' = {} /\ BoundaryOf(running)'.priv = TRUE
      BY <2>1, EmptyDomain DEF BoundaryOf, SpmBoundary
    <2> QED
      BY <2>1, <2>2 DEF HandleInv
  <1> QED
    BY <1>1, <1>2, <1>3, <1>4, <1>5, <1>6 DEF IsoNext, IsoStep

-----------------------------------------------------------------------------
(* The slots of the MPU, while partitions are bound and run                 *)

(* What depends on the build alone. *)
LEMMA BuildSame ==
  ASSUME build' = build
  PROVE  /\ Load' = Load /\ Partition' = Partition /\ Slot' = Slot /\ Static' = Static
         /\ \A p : Assets(p)' = Assets(p) /\ (Privileged(p)' <=> Privileged(p))
                  /\ AccessSetting(p)' = AccessSetting(p)
         /\ \A p, k : Device(p, k)' <=> Device(p, k)
BY DEF Load, Partition, Slot, Static, Assets, Privileged, AccessSetting, Device

(* Steps that leave the MPU alone: no asset becomes one still to be bound.  *)
LEMMA SlotsQuiet ==
  ASSUME SlotsInv, MpuReady, UNCHANGED <<build, mpu, mpuOn, n_configured_regions>>,
         \A p \in Partition : \A k \in DOMAIN Assets(p) : Dealt(p, k) => Dealt(p, k)'
  PROVE  SlotsInv'
  <1>1. /\ mpuOn /\ n_configured_regions \in Len(Static)..build.slots
        /\ \A i \in 0..(Len(Static) - 1) : mpu[i] = Static[i + 1]
        /\ \A i \in Slot : mpu[i].en <=> i < n_configured_regions
        /\ \A i \in Slot : DeviceSlot(i) =>
             \E p \in Partition : \E k \in DOMAIN Assets(p) : OwnedBy(i, p, k)
        /\ \A i, j \in Slot : i # j /\ mpu[i].en /\ mpu[j].en => Apart(mpu[i], mpu[j])
    BY DEF SlotsInv
  <1>2. \A i : DeviceSlot(i)' <=> DeviceSlot(i)
    BY BuildSame DEF DeviceSlot
  <1>3. ASSUME NEW i \in Slot, DeviceSlot(i)
        PROVE  \E p \in Partition : \E k \in DOMAIN Assets(p) : OwnedBy(i, p, k)'
    <2>1. PICK p \in Partition : \E k \in DOMAIN Assets(p) : OwnedBy(i, p, k)
      BY <1>1, <1>3
    <2>2. PICK k \in DOMAIN Assets(p) : OwnedBy(i, p, k)
      BY <2>1
    <2>3. OwnedBy(i, p, k)'
      BY <2>2, BuildSame DEF OwnedBy
    <2> QED
      BY <2>3
  <1>4. /\ Slot' = Slot /\ Static' = Static /\ Partition' = Partition
        /\ \A p : DOMAIN Assets(p)' = DOMAIN Assets(p)
    BY BuildSame
  <1> QED
    BY <1>1, <1>2, <1>3, <1>4 DEF SlotsInv

LEMMA SlotsEnable ==
  ASSUME MpuInv, PlaceInv, MpuEnable
  PROVE  SlotsInv'
  <1> DEFINE n == Len(Static)
  <1>1. /\ Filled(n) /\ n <= build.slots /\ n_configured_regions' = n /\ mpuOn' = TRUE
        /\ mpu' = mpu /\ build' = build /\ n \in {4, 5} /\ build.slots \in Nat
    BY StaticFacts, BuildFacts DEF MpuEnable, MpuInv, PlaceInv
  <1>2. Slot' = Slot /\ Static' = Static
    BY <1>1, BuildSame
  <1>3. \A i \in 0..(n - 1) : i \in Slot /\ mpu[i] = Static[i + 1] /\ mpu[i].en
    BY <1>1, StaticFacts DEF Filled, Slot
  <1>4. \A i \in Slot : mpu[i].en <=> i < n
    BY <1>1, <1>3 DEF Filled, Slot
  <1>5. ASSUME NEW i \in Slot, NEW j \in Slot, i # j, mpu[i].en, mpu[j].en
        PROVE  Apart(mpu[i], mpu[j])
    <2>1. i \in 0..(n - 1) /\ j \in 0..(n - 1)
      BY <1>1, <1>4, <1>5 DEF Slot
    <2>2. Apart(Static[i + 1], Static[j + 1])
      BY <1>5, <2>1, StaticApart
    <2> QED
      BY <1>3, <2>1, <2>2
  <1>6. \A i \in Slot : ~DeviceSlot(i)'
    BY <1>1, <1>2 DEF DeviceSlot, Slot
  <1>7. n_configured_regions' \in n..build.slots
    BY <1>1
  <1> HIDE DEF n
  <1> QED
    BY <1>1, <1>2, <1>3, <1>4, <1>5, <1>6, <1>7 DEF SlotsInv, n

(* One more region: beside those there are, and of a device of its own.     *)
LEMMA SlotsGrown ==
  ASSUME MpuInv, PlaceInv, SlotsInv, BindAsset, ~Privileged(part), Grown(Assets(part)[idx]),
         pc' = "BIND", idx' = idx + 1
  PROVE  SlotsInv'
  <1> DEFINE n == n_configured_regions
             r == ReadWrite(Assets(part)[idx])
  <1>1. /\ part \in Partition /\ idx \in DOMAIN Assets(part) /\ Device(part, idx) /\ idx \in Nat
        /\ pc = "BIND" /\ build \in Builds /\ build' = build /\ part' = part /\ part \in Nat
        /\ build.slots \in Nat /\ Len(Static) \in {4, 5}
    BY BindCases, PartAsset, BuildFacts, StaticFacts DEF Partition
  <1>2. /\ mpuOn /\ n \in Len(Static)..build.slots
        /\ \A i \in 0..(Len(Static) - 1) : mpu[i] = Static[i + 1]
        /\ \A i \in Slot : mpu[i].en <=> i < n
        /\ \A i \in Slot : DeviceSlot(i) =>
             \E p \in Partition : \E k \in DOMAIN Assets(p) : OwnedBy(i, p, k)
        /\ \A i, j \in Slot : i # j /\ mpu[i].en /\ mpu[j].en => Apart(mpu[i], mpu[j])
        /\ mpu \in [Slot -> MpuRegion]
    BY <1>1 DEF SlotsInv, MpuReady, MpuInv
  <1>3. n \in Slot /\ n' = n + 1 /\ mpuOn' = TRUE /\ mpu' = [mpu EXCEPT ![n] = r]
    BY <1>1, <1>2 DEF Grown, NoSlotFor, Slot
  <1>4. Slot' = Slot /\ Static' = Static /\ Partition' = Partition
        /\ \A p : DOMAIN Assets(p)' = DOMAIN Assets(p)
    BY <1>1, BuildSame
  <1>5. mpu'[n] = r /\ \A i \in Slot : i # n => mpu'[i] = mpu[i]
    BY <1>2, <1>3
  <1>6. /\ r \in MpuRegion /\ r.en
        /\ \A i \in 0..(Len(Static) - 1) : Apart(r, Static[i + 1])
    BY <1>1, DeviceFacts DEF ReadWrite
  <1> HIDE DEF r
  <1>7. \A i \in 0..(Len(Static) - 1) : i \in Slot /\ i # n
    BY <1>1, <1>2, <1>3 DEF Slot
  <1>8. \A i \in 0..(Len(Static) - 1) : mpu'[i] = Static[i + 1]
    BY <1>2, <1>5, <1>7
  <1>9. \A i \in Slot : mpu'[i].en <=> i < n'
    BY <1>2, <1>3, <1>5, <1>6, <1>1 DEF Slot
  <1>10. \A p \in Partition : \A k \in DOMAIN Assets(p) : Dealt(p, k) => Dealt(p, k)'
    <2>1. \A p \in Partition : \A k \in DOMAIN Assets(p) : k \in Nat
      BY <1>1, BuildFacts
    <2> QED
      BY <1>1, <2>1 DEF Dealt, Binding
  <1>11. ASSUME NEW i \in Slot, DeviceSlot(i)'
         PROVE  \E p \in Partition : \E k \in DOMAIN Assets(p) : OwnedBy(i, p, k)'
    <2>1. CASE i = n
      <3>1. PICK p \in Partition : p = part
        BY <1>1
      <3>2. PICK k \in DOMAIN Assets(p) : k = idx
        BY <1>1, <3>1
      <3>3. Dealt(p, k)'
        BY <1>1, <3>1, <3>2 DEF Dealt, Binding
      <3>4. OwnedBy(i, p, k)'
        BY <1>1, <1>4, <1>5, <2>1, <3>1, <3>2, <3>3, BuildSame DEF OwnedBy, r
      <3> QED
        BY <3>4
    <2>2. CASE i # n
      <3>1. DeviceSlot(i)
        BY <1>1, <1>2, <1>3, <1>4, <1>11, <2>2 DEF DeviceSlot, Slot
      <3>2. PICK p \in Partition : \E k \in DOMAIN Assets(p) : OwnedBy(i, p, k)
        BY <1>2, <3>1
      <3>3. PICK k \in DOMAIN Assets(p) : OwnedBy(i, p, k)
        BY <3>2
      <3>4. OwnedBy(i, p, k)'
        BY <1>1, <1>5, <1>10, <2>2, <3>3, BuildSame DEF OwnedBy
      <3> QED
        BY <3>4
    <2> QED
      BY <2>1, <2>2
  <1>12. ASSUME NEW i \in Slot, i # n, mpu[i].en PROVE Apart(r, mpu[i])
    <2>1. CASE i < Len(Static)
      <3>1. i \in 0..(Len(Static) - 1)
        BY <1>1, <2>1 DEF Slot
      <3> QED
        BY <1>2, <1>6, <3>1
    <2>2. CASE ~(i < Len(Static))
      <3>1. DeviceSlot(i)
        BY <1>1, <1>2, <1>12, <2>2 DEF DeviceSlot, Slot
      <3>2. PICK p \in Partition : \E k \in DOMAIN Assets(p) : OwnedBy(i, p, k)
        BY <1>2, <3>1
      <3>3. PICK k \in DOMAIN Assets(p) : OwnedBy(i, p, k)
        BY <3>2
      <3>4. /\ <<part, idx>> # <<p, k>> /\ ~Privileged(p) /\ Device(p, k)
            /\ mpu[i] = ReadWrite(Assets(p)[k])
        BY <1>1, <3>3 DEF OwnedBy, Dealt
      <3> QED
        BY <1>1, <3>4, DevicesApart DEF r
    <2> QED
      BY <2>1, <2>2
  <1>13. ASSUME NEW i \in Slot, NEW j \in Slot, i # j, mpu'[i].en, mpu'[j].en
         PROVE  Apart(mpu'[i], mpu'[j])
    <2>1. CASE i = n
      <3>1. mpu'[i] = r /\ mpu'[j] = mpu[j] /\ mpu[j].en
        BY <1>5, <1>13, <2>1
      <3> QED
        BY <1>12, <1>13, <2>1, <3>1
    <2>2. CASE j = n
      <3>1. mpu'[j] = r /\ mpu'[i] = mpu[i] /\ mpu[i].en
        BY <1>5, <1>13, <2>2
      <3>2. Apart(r, mpu[i])
        BY <1>12, <1>13, <2>2, <3>1
      <3> QED
        BY <3>1, <3>2 DEF Apart
    <2>3. CASE i # n /\ j # n
      BY <1>2, <1>5, <1>13, <2>3
    <2> QED
      BY <2>1, <2>2, <2>3
  <1>14. n' \in Len(Static)..build.slots
    BY <1>1, <1>2, <1>3 DEF Slot
  <1> QED
    BY <1>1, <1>3, <1>4, <1>8, <1>9, <1>11, <1>13, <1>14 DEF SlotsInv

(* The assets that have been dealt with remain so. *)
LEMMA DealtKept ==
  ASSUME PlaceInv, build' = build, MpuReady, MpuReady',
         \/ part' = part /\ idx' \in {idx, idx + 1} /\ Binding /\ Binding' /\ part \in Partition
         \/ part' = part + 1
         \/ part' = part /\ part = Len(Load) + 1
  PROVE  \A p \in Partition : \A k \in DOMAIN Assets(p) : Dealt(p, k) => Dealt(p, k)'
  <1>1. /\ part \in Nat /\ \A p \in Partition : p \in Nat /\ p <= Len(Load)
        /\ \A p \in Partition : \A k \in DOMAIN Assets(p) : k \in Nat
        /\ Binding /\ part \in Partition => idx \in Nat /\ Len(Load) \in Nat
    BY BuildFacts DEF PlaceInv, Partition, Binding
  <1> QED
    BY <1>1 DEF Dealt

(* The steps between the MPU being on and a reset, but for a new region.    *)
QuietBinding ==
    /\ UNCHANGED <<build, mpu, mpuOn, n_configured_regions>> /\ MpuReady
    /\ \/ part' = part /\ idx' \in {idx, idx + 1} /\ Binding /\ Binding' /\ part \in Partition
       \/ part' = part + 1 /\ Binding'
       \/ part' = part /\ part = Len(Load) + 1 /\ pc' = "RUN"
       \/ pc' = "FAILED"

LEMMA QuietSteps ==
  ASSUME PlaceInv,
         \/ SkipAsset \/ RefuseAsset \/ BindDone \/ BindFailed \/ AllBound
         \/ \E q \in Partition : Schedule(q)
         \/ BindAsset /\ UNCHANGED <<mpu, n_configured_regions, mpuOn>>
  PROVE  QuietBinding
  <1> USE DEF QuietBinding, MpuReady, Binding, Goto, isoVars
  <1>1. CASE SkipAsset \/ RefuseAsset
    BY <1>1 DEF SkipAsset, RefuseAsset
  <1>2. CASE BindDone
    BY <1>2 DEF BindDone
  <1>3. CASE BindFailed
    BY <1>3 DEF BindFailed
  <1>4. CASE AllBound \/ \E q \in Partition : Schedule(q)
    BY <1>4 DEF AllBound, Schedule, PlaceInv
  <1>5. CASE BindAsset /\ UNCHANGED <<mpu, n_configured_regions, mpuOn>>
    <2>1. /\ pc = "BIND" /\ part \in Partition /\ UNCHANGED <<build, part>>
          /\ \/ pc' = "BIND" /\ idx' = idx + 1
             \/ pc' = "BIND_FAILED" /\ idx' = idx
      BY <1>5, BindCases
    <2> QED
      BY <1>5, <2>1
  <1> QED
    BY <1>1, <1>2, <1>3, <1>4, <1>5

LEMMA NotReadyBefore ==
  ASSUME (TargetStep /\ UNCHANGED isoVars) \/ MpuCheck \/ MpuClear \/ MpuSet \/ IsoReset
  PROVE  ~MpuReady'
BY TargetMoves DEF MpuCheck, MpuClear, MpuSet, IsoReset, TargetReset, Goto, TargetPc, MpuReady

LEMMA SlotsStep ==
  ASSUME MpuInv, PlaceInv, SlotsInv, [IsoNext]_tfmVars
  PROVE  SlotsInv'
  <1>1. CASE (TargetStep /\ UNCHANGED isoVars) \/ MpuCheck \/ MpuClear \/ MpuSet \/ IsoReset
    BY <1>1, NotReadyBefore DEF SlotsInv
  <1>2. CASE MpuEnable
    BY <1>2, SlotsEnable
  <1>3. CASE QuietBinding
    <2>1. CASE pc' = "FAILED"
      BY <2>1 DEF SlotsInv, MpuReady
    <2>2. CASE pc' # "FAILED"
      <3>1. MpuReady /\ MpuReady' /\ UNCHANGED <<build, mpu, mpuOn, n_configured_regions>>
        BY <1>3, <2>2 DEF QuietBinding, MpuReady, Binding
      <3>2. \/ part' = part /\ idx' \in {idx, idx + 1} /\ Binding /\ Binding' /\ part \in Partition
            \/ part' = part + 1
            \/ part' = part /\ part = Len(Load) + 1
        BY <1>3, <2>2 DEF QuietBinding
      <3> QED
        BY <3>1, <3>2, DealtKept, SlotsQuiet
    <2> QED
      BY <2>1, <2>2
  <1>4. CASE BindAsset
    BY <1>3, <1>4, BindCases, QuietSteps, SlotsGrown
  <1>5. CASE UNCHANGED tfmVars
    BY <1>5 DEF tfmVars, targetVars, isoVars, SlotsInv, MpuReady, DeviceSlot, OwnedBy, Dealt, Binding,
                Slot, Static, Partition, Load, Assets, Privileged, Device
  <1> QED
    BY <1>1, <1>2, <1>3, <1>4, <1>5, QuietSteps DEF IsoNext, IsoStep

-----------------------------------------------------------------------------
(* The devices of each partition                                            *)

(* A region stays with its device while others are added. *)
LEMMA ServedKept ==
  ASSUME build' = build, n_configured_regions' >= n_configured_regions,
         n_configured_regions \in Nat, n_configured_regions' \in Nat,
         \A i \in Slot : i < n_configured_regions => mpu'[i] = mpu[i],
         NEW p, NEW k, Served(p, k)
  PROVE  Served(p, k)'
  <1>1. ASSUME NEW i \in Slot, DeviceSlot(i), mpu[i] = ReadWrite(Assets(p)[k])
        PROVE  DeviceSlot(i)' /\ mpu'[i] = ReadWrite(Assets(p)[k])
    <2>1. i \in Slot' /\ Len(Static)' = Len(Static)
      BY BuildSame
    <2>2. i < n_configured_regions' /\ mpu'[i] = mpu[i]
      BY <1>1 DEF DeviceSlot, Slot
    <2> QED
      BY <1>1, <2>1, <2>2 DEF DeviceSlot
  <1>2. Assets(p)' = Assets(p) /\ (Privileged(p)' <=> Privileged(p)) /\ Slot' = Slot
    BY BuildSame
  <1> QED
    BY <1>1, <1>2 DEF Served

LEMMA ToldKept ==
  ASSUME build' = build, ac' = ac, NEW p, NEW k, Told(p, k)
  PROVE  Told(p, k)'
  <1>1. Assets(p)' = Assets(p) /\ AccessSetting(p)' = AccessSetting(p)
    BY BuildSame
  <1> QED
    BY <1>1 DEF Told

LEMMA LastSame ==
  ASSUME build' = build, NEW p, NEW k
  PROVE  LastGiven(p, Assets(p)[k])' <=> LastGiven(p, Assets(p)[k])
BY DEF LastGiven, Given, Partition, Assets, Load

(* One device more, told by ACCESSCTRL: nothing is taken from a device that *)
(* has been given for the last time, nor from those of the same partition.  *)
LEMMA ToldMore ==
  ASSUME BindAsset, UnitsOK, PlaceInv, NEW p \in Partition, NEW k \in DOMAIN Assets(p), Told(p, k),
         p = part \/ (p < part /\ LastGiven(p, Assets(p)[k]))
  PROVE  Told(p, k)'
  <1> DEFINE a == Assets(p)[k]
             b == Assets(part)[idx]
  <1>1. /\ part \in Partition /\ idx \in DOMAIN Assets(part) /\ b.named /\ ConfigureAccess(part, b)
        /\ build' = build /\ p \in Nat /\ part \in Nat
    BY BindCases, PartAsset DEF Device, Partition
  <1>2. Assets(p)' = Assets(p) /\ AccessSetting(p)' = AccessSetting(p)
    BY <1>1, BuildSame
  <1>3. b \in Given(part) /\ b.reg \in AcReg \cup {AC_DO_NOT_CONFIGURE}
        /\ a.reg \in AcReg \cup {AC_DO_NOT_CONFIGURE}
    BY <1>1, BuildFacts DEF Given, Asset, PlaceInv
  <1>4. ac \in [AcReg -> {Default, NS_PRIV, S_UNPRIV_C0, S_PRIV_C0}]
    BY DEF UnitsOK
  <1>5. p = part \/ b.reg # a.reg \/ a.reg = AC_DO_NOT_CONFIGURE
    BY <1>1, <1>3 DEF LastGiven
  <1>6. ac' = IF b.reg = AC_DO_NOT_CONFIGURE THEN ac
              ELSE [ac EXCEPT ![b.reg] = AccessSetting(part)]
    BY <1>1 DEF ConfigureAccess
  <1> HIDE DEF a, b
  <1>7. a.named /\ a.reg # AC_DO_NOT_CONFIGURE => ac[a.reg] = AccessSetting(p)
    BY DEF Told, a
  <1>8. a.named /\ a.reg # AC_DO_NOT_CONFIGURE => ac'[a.reg] = AccessSetting(p)
    BY <1>3, <1>4, <1>5, <1>6, <1>7
  <1> QED
    BY <1>2, <1>8 DEF Told, a

(* The device itself. *)
LEMMA ToldNow ==
  ASSUME BindAsset, UnitsOK, PlaceInv
  PROVE  \A p \in Partition : \A k \in DOMAIN Assets(p) : p = part /\ k = idx => Told(p, k)'
  <1> DEFINE b == Assets(part)[idx]
  <1>1. /\ part \in Partition /\ idx \in DOMAIN Assets(part) /\ ConfigureAccess(part, b)
        /\ build' = build
    BY BindCases, PartAsset
  <1>2. \A p : Assets(p)' = Assets(p) /\ AccessSetting(p)' = AccessSetting(p)
    BY <1>1, BuildSame
  <1>3. b.reg \in AcReg \cup {AC_DO_NOT_CONFIGURE}
    BY <1>1, BuildFacts DEF Asset, PlaceInv
  <1>4. ac \in [AcReg -> {Default, NS_PRIV, S_UNPRIV_C0, S_PRIV_C0}]
    BY DEF UnitsOK
  <1>5. b.reg # AC_DO_NOT_CONFIGURE => ac'[b.reg] = AccessSetting(part)
    BY <1>1, <1>3, <1>4 DEF ConfigureAccess
  <1> QED
    BY <1>2, <1>5 DEF Told

(* While partitions are bound and run, regions are only added, and          *)
(* ACCESSCTRL only changes for the device being bound.                      *)
Growing ==
    /\ build' = build /\ MpuReady /\ n_configured_regions' \in Nat
    /\ n_configured_regions' >= n_configured_regions
    /\ \A i \in Slot : i < n_configured_regions => mpu'[i] = mpu[i]
    /\ BindAsset \/ ac' = ac

LEMMA DevicesKept ==
  ASSUME UnitsOK, MpuInv, PlaceInv, HandleInv, DevicesInv, Growing
  PROVE  /\ \A p \in DOMAIN boundary : \A k \in DOMAIN Assets(p) :
              Served(p, k)' /\ (LastGiven(p, Assets(p)[k])' => Told(p, k)')
         /\ Binding /\ part \in Partition =>
              \A p \in Partition : \A k \in DOMAIN Assets(p) :
                p = part /\ k < idx => Served(p, k)' /\ Told(p, k)'
  <1>1. n_configured_regions \in Nat
    BY BuildFacts DEF MpuInv, PlaceInv
  <1>2. \A p, k : Served(p, k) => Served(p, k)'
    BY <1>1, ServedKept DEF Growing
  <1>3. ASSUME NEW p \in DOMAIN boundary, NEW k \in DOMAIN Assets(p)
        PROVE  Served(p, k)' /\ (LastGiven(p, Assets(p)[k])' => Told(p, k)')
    <2>1. Served(p, k) /\ (LastGiven(p, Assets(p)[k]) => Told(p, k))
      BY <1>3 DEF DevicesInv, Growing
    <2>2. p \in Partition /\ p < part
      BY <1>3 DEF HandleInv
    <2>3. ASSUME LastGiven(p, Assets(p)[k]) PROVE Told(p, k)'
      BY <1>3, <2>1, <2>2, <2>3, ToldKept, ToldMore DEF Growing
    <2> QED
      BY <1>2, <2>1, <2>3, LastSame DEF Growing
  <1>4. ASSUME Binding, part \in Partition, NEW p \in Partition, NEW k \in DOMAIN Assets(p),
               p = part, k < idx
        PROVE  Served(p, k)' /\ Told(p, k)'
    <2>1. Served(p, k) /\ Told(p, k)
      BY <1>4 DEF DevicesInv, Growing
    <2>2. Told(p, k)'
      BY <1>4, <2>1, ToldKept, ToldMore DEF Growing
    <2> QED
      BY <1>2, <2>1, <2>2
  <1> QED
    BY <1>3, <1>4

LEMMA QuietGrowing ==
  ASSUME MpuInv, PlaceInv, QuietBinding, BindAsset \/ ac' = ac
  PROVE  Growing
  <1>1. n_configured_regions \in Nat
    BY BuildFacts DEF MpuInv, PlaceInv
  <1> QED
    BY <1>1 DEF QuietBinding, Growing

LEMMA GrownGrowing ==
  ASSUME MpuInv, PlaceInv, BindAsset, Grown(Assets(part)[idx])
  PROVE  Growing /\ n_configured_regions \in Slot /\ n_configured_regions \in Nat
  <1>1. /\ build.slots \in Nat /\ n_configured_regions \in 0..build.slots
        /\ mpu \in [Slot -> MpuRegion]
    BY BuildFacts DEF MpuInv, PlaceInv
  <1>2. build' = build /\ pc = "BIND"
    BY BindCases
  <1>3. n_configured_regions \in Slot /\ n_configured_regions' = n_configured_regions + 1
        /\ mpu' = [mpu EXCEPT ![n_configured_regions] = ReadWrite(Assets(part)[idx])]
    BY <1>1 DEF Grown, NoSlotFor, Slot
  <1>4. \A i \in Slot : i < n_configured_regions => mpu'[i] = mpu[i]
    BY <1>1, <1>3 DEF Slot
  <1> QED
    BY <1>1, <1>2, <1>3, <1>4 DEF Growing, MpuReady

(* The boundaries unchanged, and the partition being bound goes on.         *)
LEMMA DevicesOn ==
  ASSUME UnitsOK, MpuInv, PlaceInv, HandleInv, DevicesInv, Growing, boundary' = boundary,
         part' = part, part \in Partition, Binding,
         \/ idx' = idx
         \/ /\ idx' = idx + 1
            /\ \A p \in Partition : \A k \in DOMAIN Assets(p) :
                 p = part /\ k = idx => Served(p, k)' /\ Told(p, k)'
  PROVE  DevicesInv'
  <1>1. /\ Partition' = Partition /\ \A p : DOMAIN Assets(p)' = DOMAIN Assets(p)
    BY BuildSame DEF Growing
  <1>2. \A p \in DOMAIN boundary' : \A k \in DOMAIN Assets(p)' :
          Served(p, k)' /\ (LastGiven(p, Assets(p)[k])' => Told(p, k)')
    BY <1>1, DevicesKept
  <1>3. idx \in Nat /\ \A p \in Partition : \A k \in DOMAIN Assets(p) : k \in Nat
    BY BuildFacts DEF PlaceInv, Binding
  <1>4. \A p \in Partition : p = part =>
          \A k \in DOMAIN Assets(p) : k < idx' => Served(p, k)' /\ Told(p, k)'
    BY <1>3, DevicesKept
  <1>5. PICK p \in Partition : p = part'
    OBVIOUS
  <1>6. (\A k \in DOMAIN Assets(part) : k < idx => Served(part, k) /\ Told(part, k))'
    BY <1>1, <1>4, <1>5
  <1> QED
    BY <1>2, <1>6 DEF DevicesInv

(* The next partition, or none. *)
LEMMA DevicesNext ==
  ASSUME UnitsOK, MpuInv, PlaceInv, HandleInv, DevicesInv, Growing, ~Binding' \/ idx' = 1,
         \A p \in DOMAIN boundary' \ DOMAIN boundary :
           p \in Partition /\ p = part /\ Binding
             /\ \A k \in DOMAIN Assets(p) : k < idx
  PROVE  DevicesInv'
  <1>1. /\ build' \in Builds /\ Partition' = Partition
        /\ \A p : DOMAIN Assets(p)' = DOMAIN Assets(p)
    BY BuildSame DEF Growing, PlaceInv
  <1>2. \A p \in DOMAIN boundary' : \A k \in DOMAIN Assets(p)' :
          Served(p, k)' /\ (LastGiven(p, Assets(p)[k])' => Told(p, k)')
    BY <1>1, DevicesKept
  <1>3. \A p \in Partition : \A k \in DOMAIN Assets(p) : ~(k < 1)
    BY BuildFacts DEF PlaceInv
  <1>4. (Binding /\ part \in Partition =>
           \A k \in DOMAIN Assets(part) : k < idx => Served(part, k) /\ Told(part, k))'
    BY <1>1, <1>3
  <1> QED
    BY <1>2, <1>4 DEF DevicesInv

LEMMA DevicesBind ==
  ASSUME UnitsOK, MpuInv, PlaceInv, HandleInv, SlotsInv, DevicesInv, BindAsset
  PROVE  DevicesInv'
  <1>1. /\ pc = "BIND" /\ part \in Partition /\ idx \in DOMAIN Assets(part) /\ Device(part, idx)
        /\ UNCHANGED <<build, part, boundary>> /\ Binding
    BY BindCases, PartAsset DEF Binding
  <1>2. CASE /\ Privileged(part) /\ idx' = idx + 1
             /\ UNCHANGED <<mpu, n_configured_regions, mpuOn>>
    <2>1. Growing
      BY <1>2, QuietSteps, QuietGrowing
    <2>2. \A p \in Partition : \A k \in DOMAIN Assets(p) : p = part /\ k = idx => Served(p, k)'
      BY <1>1, <1>2, BuildSame DEF Served, Device
    <2> QED
      BY <1>1, <1>2, <2>1, <2>2, ToldNow, DevicesOn
  <1>3. CASE idx' = idx /\ UNCHANGED <<mpu, n_configured_regions, mpuOn>>
    BY <1>1, <1>3, QuietSteps, QuietGrowing, DevicesOn
  <1>4. CASE ~Privileged(part) /\ Grown(Assets(part)[idx]) /\ idx' = idx + 1
    <2>1. Growing /\ n_configured_regions \in Slot /\ n_configured_regions \in Nat
      BY <1>4, GrownGrowing
    <2>2. PICK i \in Slot : i = n_configured_regions
      BY <2>1
    <2>3. Len(Static)' = Len(Static) /\ Len(Static) <= i /\ i \in Slot'
      BY <1>1, <2>2, BuildSame, StaticFacts DEF SlotsInv, MpuReady
    <2>4. DeviceSlot(i)' /\ mpu'[i] = ReadWrite(Assets(part)[idx])
      BY <1>4, <2>1, <2>2, <2>3 DEF DeviceSlot, Grown, MpuInv
    <2>5. \A p \in Partition : \A k \in DOMAIN Assets(p) : p = part /\ k = idx => Served(p, k)'
      BY <1>1, <1>4, <2>3, <2>4, BuildSame DEF Served, Device, Grown, NoSlotFor
    <2> QED
      BY <1>1, <1>4, <2>1, <2>5, ToldNow, DevicesOn
  <1> QED
    BY <1>2, <1>3, <1>4, BindCases

LEMMA DevicesStep ==
  ASSUME UnitsOK, MpuInv, PlaceInv, HandleInv, SlotsInv, DevicesInv, [IsoNext]_tfmVars
  PROVE  DevicesInv'
  <1>1. CASE (TargetStep /\ UNCHANGED isoVars) \/ MpuCheck \/ MpuClear \/ MpuSet \/ IsoReset
    BY <1>1, NotReadyBefore DEF DevicesInv
  <1>2. CASE MpuEnable
    <2>1. /\ DOMAIN boundary' = {} /\ idx' = 1 /\ build' \in Builds
      BY <1>2 DEF MpuEnable, PlaceInv, MpuPc, Goto
    <2>2. (\A p \in Partition : \A k \in DOMAIN Assets(p) : ~(k < 1))'
      <3>1. \A p \in Partition : \A k \in DOMAIN Assets(p) : ~(k < 1)
        BY BuildFacts DEF PlaceInv
      <3> QED
        BY <1>2, <3>1, BuildSame DEF MpuEnable
    <2> QED
      BY <2>1, <2>2 DEF DevicesInv
  <1>3. CASE SkipAsset
    <2>1. /\ Growing /\ UNCHANGED <<build, part, boundary>> /\ part \in Partition /\ Binding
          /\ idx' = idx + 1 /\ ~Assets(part)[idx].named
      BY <1>3, QuietSteps, QuietGrowing DEF SkipAsset, unitVars, acVars, isoVars, Goto, Binding
    <2>2. \A p \in Partition : \A k \in DOMAIN Assets(p) :
            p = part /\ k = idx => Served(p, k)' /\ Told(p, k)'
      BY <2>1, BuildSame DEF Served, Told
    <2> QED
      BY <2>1, <2>2, DevicesOn
  <1>4. CASE RefuseAsset
    <2>1. /\ Growing /\ UNCHANGED <<build, part, boundary, idx>> /\ part \in Partition /\ Binding
      BY <1>4, QuietSteps, QuietGrowing DEF RefuseAsset, unitVars, acVars, isoVars, Goto, Binding
    <2> QED
      BY <2>1, DevicesOn
  <1>5. CASE BindAsset
    BY <1>5, DevicesBind
  <1>6. CASE BindDone
    <2>1. /\ Growing /\ part \in Partition /\ Binding /\ idx' = 1 /\ idx = Len(Assets(part)) + 1
          /\ DOMAIN boundary' = DOMAIN boundary \cup {part}
      BY <1>6, QuietSteps, QuietGrowing DEF BindDone, unitVars, acVars, Goto, Binding
    <2>2. \A k \in DOMAIN Assets(part) : k < idx
      BY <2>1, BuildFacts DEF PlaceInv
    <2> QED
      BY <2>1, <2>2, DevicesNext
  <1>7. CASE BindFailed
    <2>1. /\ Growing /\ boundary' = boundary /\ (~Binding' \/ idx' = 1)
      BY <1>7, QuietSteps, QuietGrowing DEF BindFailed, unitVars, acVars, Goto, Binding
    <2> QED
      BY <2>1, DevicesNext
  <1>8. CASE AllBound \/ \E q \in Partition : Schedule(q)
    <2>1. /\ Growing /\ boundary' = boundary /\ ~Binding'
      BY <1>8, QuietSteps, QuietGrowing DEF AllBound, Schedule, unitVars, acVars, isoVars, Goto, Binding
    <2> QED
      BY <2>1, DevicesNext
  <1>9. CASE UNCHANGED tfmVars
    BY <1>9 DEF tfmVars, targetVars, unitVars, acVars, isoVars, DevicesInv, MpuReady, Binding, Served,
                Told, LastGiven, Given, DeviceSlot, Slot, Static, Partition, Load, Assets, Privileged,
                AccessSetting
  <1> QED
    BY <1>1, <1>2, <1>3, <1>4, <1>5, <1>6, <1>7, <1>8, <1>9 DEF IsoNext, IsoStep

-----------------------------------------------------------------------------
(* The regions of a partition, counted                                      *)

LEMMA CountNamed ==
  ASSUME NEW p, NEW k \in Nat \ {0}
  PROVE  /\ NamedBefore(p, k) \in Nat
         /\ NamedBefore(p, k + 1) =
              NamedBefore(p, k) + (IF Assets(p)[k].named THEN 1 ELSE 0)
  <1> DEFINE S(n) == {j \in 1..(n - 1) : Assets(p)[j].named}
  <1>1. IsFiniteSet(S(k)) /\ Cardinality(S(k)) \in Nat
    <2>1. IsFiniteSet(1..(k - 1))
      BY FS_Interval
    <2>2. S(k) \subseteq 1..(k - 1)
      OBVIOUS
    <2> QED
      BY <2>1, <2>2, FS_Subset, FS_CardinalityType
  <1>2. NamedBefore(p, k) = Cardinality(S(k)) /\ NamedBefore(p, k + 1) = Cardinality(S(k + 1))
    BY DEF NamedBefore
  <1>3. CASE Assets(p)[k].named
    <2>1. S(k + 1) = S(k) \cup {k} /\ k \notin S(k)
      BY <1>3
    <2> HIDE DEF S
    <2>2. Cardinality(S(k) \cup {k}) = Cardinality(S(k)) + 1
      BY <1>1, <2>1, FS_AddElement
    <2> QED
      BY <1>1, <1>2, <1>3, <2>1, <2>2
  <1>4. CASE ~Assets(p)[k].named
    <2>1. S(k + 1) = S(k)
      BY <1>4
    <2> HIDE DEF S
    <2> QED
      BY <1>1, <1>2, <1>4, <2>1
  <1> QED
    BY <1>3, <1>4

LEMMA FreeBinding ==
  ASSUME Binding, part \in Partition
  PROVE  Free = build.slots - n_configured_regions
                  + (IF Privileged(part) THEN 0 ELSE NamedBefore(part, idx))
BY DEF Free, Phase, GivenSoFar, NamedBefore, Binding

(* What is free is what was free when the binding of this partition began.  *)
LEMMA FreeKept ==
  ASSUME UnitsOK, MpuInv, PlaceInv, SkipAsset \/ RefuseAsset \/ BindAsset
  PROVE  /\ Free' = Free /\ Binding' /\ part' = part /\ Free \in Nat
         /\ idx' = idx + 1 /\ Assets(part)[idx].named /\ ~Privileged(part)
              => NamedBefore(part, idx) < Free
  <1> DEFINE c == NamedBefore(part, idx)
             n == n_configured_regions
  <1>1. /\ pc = "BIND" /\ part \in Partition /\ UNCHANGED <<build, part>> /\ Binding /\ Binding'
        /\ idx <= Len(Assets(part))
        /\ \/ idx' = idx + 1 /\ n' = n /\ (~Assets(part)[idx].named \/ Privileged(part))
           \/ idx' = idx /\ n' = n
           \/ /\ idx' = idx + 1 /\ n' = n + 1 /\ Assets(part)[idx].named /\ ~Privileged(part)
              /\ ~(build.slots <= n)
    BY BindCases DEF SkipAsset, RefuseAsset, isoVars, Goto, Binding, Grown, NoSlotFor, Device
  <1>2. /\ idx \in Nat \ {0} /\ n \in 0..build.slots /\ build.slots \in Nat
    BY <1>1, PartAsset, BuildFacts DEF MpuInv, PlaceInv
  <1>3. c \in Nat /\ NamedBefore(part, idx + 1) = c + (IF Assets(part)[idx].named THEN 1 ELSE 0)
    BY <1>2, CountNamed
  <1>4. part' \in Partition' /\ Privileged(part)' = Privileged(part)
    BY <1>1 DEF Partition, Load, Privileged
  <1>5. /\ idx' = idx => NamedBefore(part, idx)' = c
        /\ idx' = idx + 1 => NamedBefore(part, idx)' = NamedBefore(part, idx + 1)
    BY <1>1 DEF NamedBefore, Assets, Load
  <1>6. Free = build.slots - n + (IF Privileged(part) THEN 0 ELSE c)
    BY <1>1, FreeBinding
  <1>7. Free' = build.slots - n' + (IF Privileged(part) THEN 0 ELSE NamedBefore(part, idx)')
    <2>1. (Free = build.slots - n_configured_regions
                  + (IF Privileged(part) THEN 0 ELSE NamedBefore(part, idx)))'
      BY <1>1, <1>4 DEF Free, Phase, GivenSoFar, NamedBefore, Binding
    <2> QED
      BY <1>1, <1>4, <2>1
  <1> HIDE DEF c
  <1>8. CASE Privileged(part)
    <2>1. n' = n
      BY <1>1, <1>8
    <2>2. Free = build.slots - n + 0 /\ Free' = build.slots - n' + 0
      BY <1>6, <1>7, <1>8
    <2>3. Free' = Free /\ Free \in Nat
      BY <1>2, <2>1, <2>2
    <2> QED
      BY <1>1, <1>8, <2>3
  <1>9. CASE ~Privileged(part)
    <2>1. Free = build.slots - n + c /\ Free' = build.slots - n' + NamedBefore(part, idx)'
      BY <1>6, <1>7, <1>9
    <2>2. Free \in Nat
      BY <1>2, <1>3, <2>1
    <2>3. CASE idx' = idx + 1 /\ n' = n /\ ~Assets(part)[idx].named
      <3>1. NamedBefore(part, idx)' = c
        BY <1>3, <1>5, <2>3
      <3> QED
        BY <1>1, <2>1, <2>2, <2>3, <3>1
    <2>4. CASE idx' = idx /\ n' = n
      BY <1>1, <1>2, <1>5, <2>1, <2>2, <2>4
    <2>5. CASE idx' = idx + 1 /\ n' = n + 1 /\ Assets(part)[idx].named /\ ~(build.slots <= n)
      <3>1. NamedBefore(part, idx)' = c + 1
        BY <1>3, <1>5, <2>5
      <3>2. Free' = Free /\ c < Free
        BY <1>2, <1>3, <2>1, <2>5, <3>1
      <3> QED
        BY <1>1, <2>2, <3>2 DEF c
    <2> QED
      BY <1>1, <1>9, <2>3, <2>4, <2>5
  <1> QED
    BY <1>8, <1>9

LEMMA CountStep ==
  ASSUME UnitsOK, MpuInv, PlaceInv, CountInv, [IsoNext]_tfmVars
  PROVE  CountInv'
  <1> USE DEF Goto
  <1>1. CASE (TargetStep /\ UNCHANGED isoVars) \/ MpuCheck \/ MpuClear \/ MpuSet \/ IsoReset
    <2>1. ~Binding'
      BY <1>1, NotReadyBefore DEF Binding, MpuReady
    <2> QED
      BY <2>1 DEF CountInv, Binding
  <1>2. CASE MpuEnable \/ BindDone \/ BindFailed \/ AllBound \/ \E q \in Partition : Schedule(q)
    <2>1. pc' # "BIND_FAILED" /\ (~Binding' \/ idx' = 1)
      BY <1>2 DEF MpuEnable, BindDone, BindFailed, AllBound, Schedule, Binding
    <2>2. \A k \in 1..(1 - 1) : FALSE
      OBVIOUS
    <2> QED
      BY <2>1, <2>2 DEF CountInv
  <1>3. CASE SkipAsset \/ RefuseAsset \/ BindAsset
    <2>1. /\ pc = "BIND" /\ part \in Partition /\ build' = build /\ part' = part
          /\ idx <= Len(Assets(part))
          /\ \/ idx' = idx + 1 /\ pc' = "BIND"
             \/ /\ idx' = idx /\ pc' = "BIND_FAILED" /\ Assets(part)[idx].named
                /\ \/ ~Assets(part)[idx].listed
                   \/ /\ ~Privileged(part) /\ NoSlotFor(Assets(part)[idx])
                      /\ n_configured_regions' = n_configured_regions
      BY <1>3, BindCases DEF SkipAsset, RefuseAsset, isoVars, Device
    <2>2. Free' = Free /\ Binding /\ idx \in Nat \ {0}
      BY <1>3, <2>1, FreeKept, PartAsset DEF Binding
    <2>3. Assets(part)' = Assets(part) /\ (Privileged(part)' <=> Privileged(part))
          /\ \A k : NamedBefore(part, k)' = NamedBefore(part, k)
      BY <2>1 DEF Assets, Load, Privileged, NamedBefore
    <2>4. ASSUME ~Privileged(part), NEW k \in 1..(idx' - 1), Assets(part)[k].named
          PROVE  NamedBefore(part, k) < Free
      <3>1. CASE k = idx
        BY <1>3, <2>1, <2>2, <2>4, <3>1, FreeKept
      <3>2. CASE k # idx
        <4>1. k \in 1..(idx - 1)
          BY <2>1, <2>2, <3>2
        <4> QED
          BY <2>1, <2>2, <2>4, <4>1 DEF CountInv
      <3> QED
        BY <3>1, <3>2
    <2>5. (Binding /\ part \in Partition /\ ~Privileged(part) =>
             \A k \in 1..(idx - 1) : Assets(part)[k].named => NamedBefore(part, k) < Free)'
      BY <2>2, <2>3, <2>4
    <2>6. (pc = "BIND_FAILED" =>
             /\ Assets(part)[idx].named
             /\ \/ ~Assets(part)[idx].listed
                \/ ~Privileged(part) /\ NoSlotFor(Assets(part)[idx]))'
      BY <2>1, <2>3 DEF NoSlotFor
    <2> QED
      BY <2>5, <2>6 DEF CountInv
  <1>4. CASE UNCHANGED tfmVars
    BY <1>4 DEF tfmVars, targetVars, isoVars, CountInv, Binding, Partition, Load, Assets, Privileged,
                NamedBefore, NoSlotFor, Free, Phase, GivenSoFar
  <1> QED
    BY <1>1, <1>2, <1>3, <1>4 DEF IsoNext, IsoStep

-----------------------------------------------------------------------------
(* The invariant holds                                                      *)

LEMMA InitIsoInv == IsoInit => IsoInv
  <1> SUFFICES ASSUME IsoInit PROVE IsoInv
    OBVIOUS
  <1>1. /\ pc = "SAU_RBAR" /\ idx = 1 /\ err = FALSE /\ TargetInit /\ build \in Builds
        /\ mpu \in MpuReset /\ mpuOn = FALSE /\ n_configured_regions = 0 /\ part = 1
        /\ boundary = <<>> /\ running = 0 /\ nPRIV = FALSE
    BY DEF IsoInit, TargetInit
  <1>2. build.slots \in Nat /\ Len(Load) \in Nat
    BY <1>1, BuildFacts
  <1>3. UnitsInv
    <2>1. TargetInv
      BY <1>1, InitTargetInv
    <2>2. SauProgress /\ DmaProgress
      BY <1>1 DEF SauProgress, DmaProgress, SauLoop, DmaLoop
    <2> QED
      BY <1>1, <2>1, <2>2 DEF UnitsInv, TargetInv
  <1>4. MpuInv
    <2>1. mpu \in [Slot -> MpuRegion]
      BY <1>1, ResetSlots
    <2>2. mpuOn \in BOOLEAN /\ n_configured_regions \in 0..build.slots
      <3>1. mpuOn = FALSE /\ n_configured_regions = 0 /\ 0 \in 0..build.slots
        BY <1>1, <1>2
      <3> QED
        BY <3>1
    <2>3. pc \notin {"MPU_CLEAR", "MPU_SET", "MPU_ON"} /\ n_configured_regions = 0
      BY <1>1
    <2> QED
      BY <2>1, <2>2, <2>3 DEF MpuInv
  <1>5. PlaceInv
    BY <1>1, <1>2, EmptyDomain DEF PlaceInv, IsoPc, TargetPc, MpuPc
  <1>6. HandleInv
    <2>1. DOMAIN boundary = {} /\ BoundaryOf(running).priv = TRUE
      BY <1>1, EmptyDomain DEF BoundaryOf, SpmBoundary
    <2> QED
      BY <1>1, <2>1 DEF HandleInv
  <1>7. SlotsInv /\ DevicesInv /\ CountInv
    BY <1>1 DEF SlotsInv, DevicesInv, CountInv, MpuReady, Binding
  <1> QED
    BY <1>3, <1>4, <1>5, <1>6, <1>7 DEF IsoInv

LEMMA StepIsoInv == IsoInv /\ [IsoNext]_tfmVars => IsoInv'
  <1> SUFFICES ASSUME IsoInv, [IsoNext]_tfmVars PROVE IsoInv'
    OBVIOUS
  <1>1. UnitsInv /\ MpuInv /\ PlaceInv /\ HandleInv /\ SlotsInv /\ DevicesInv /\ CountInv
    BY DEF IsoInv
  <1>2. UnitsOK
    BY <1>1 DEF UnitsInv
  <1>3. UnitsInv' /\ MpuInv' /\ PlaceInv' /\ HandleInv'
    BY <1>1, UnitsStep, MpuStep, PlaceStep, HandleStep
  <1>4. SlotsInv' /\ DevicesInv' /\ CountInv'
    BY <1>1, <1>2, SlotsStep, DevicesStep, CountStep
  <1> QED
    BY <1>3, <1>4 DEF IsoInv

(* The MPU holds the static regions and one per device, each device is as   *)
(* its partition needs it, and whoever runs has the privilege of its handle.*)
THEOREM IsoInvariant == IsoSpec => []IsoInv
  BY InitIsoInv, StepIsoInv, PTL DEF IsoSpec

(* Type correctness of the isolation HAL, on units set up by target_cfg.c.  *)
THEOREM IsoTypeCorrect == IsoSpec => []IsoTypeOK
  <1>1. IsoInv => IsoTypeOK
    <2> SUFFICES ASSUME IsoInv PROVE IsoTypeOK
      OBVIOUS
    <2>1. UnitsOK /\ MpuInv /\ PlaceInv /\ HandleInv
      BY DEF IsoInv, UnitsInv
    <2>2. part \in Nat /\ \A p \in Partition : p \in Nat /\ 1 <= p
      BY <2>1, BuildFacts DEF PlaceInv, Partition
    <2>3. DOMAIN boundary \subseteq 1..(part - 1)
      BY <2>1, <2>2 DEF HandleInv
    <2>4. nPRIV \in BOOLEAN
      BY <2>1 DEF HandleInv
    <2>5. mpu \in [Slot -> [en : BOOLEAN, base : Nat, limit : Nat, write : BOOLEAN]]
      BY <2>1 DEF MpuInv, MpuRegion
    <2> QED
      BY <2>1, <2>3, <2>4, <2>5 DEF IsoTypeOK, MpuInv, PlaceInv, HandleInv
  <1> QED
    BY <1>1, IsoInvariant, PTL

(* Though switches are left out between privileged boundaries, the one that *)
(* runs has the privilege of its own handle: whatever the partitions, and   *)
(* in whatever order they are bound, refused and scheduled.                 *)
THEOREM PrivilegeAlwaysRight == IsoSpec => []RunningPrivilege
  <1>1. IsoInv => RunningPrivilege
    BY DEF IsoInv, HandleInv, RunningPrivilege
  <1> QED
    BY <1>1, IsoInvariant, PTL

(* What target_cfg.c set up outlives the binding of the partitions: the     *)
(* Secure image stays closed until the next reset and through it.           *)
THEOREM SecureClosedThroughout == IsoSpec => []SecureNeverOpen
  <1>1. IsoInv => SecureNeverOpen
    BY PartialTablesClosed DEF IsoInv, UnitsInv
  <1> QED
    BY <1>1, IsoInvariant, PTL

(* The set-up goes on past an error of no register, and ends with the three *)
(* units in agreement, also after a boot that went further.                 *)
THEOREM SetUpHonestThroughout == IsoSpec => [](FilterHonest /\ UnitsAgree)
  <1>1. IsoInv => FilterHonest
    <2>1. pc \in {"DMA_CHAN", "DMA_CTRL", "DMA_BAR", "DMA_LAR", "MPU_CHECK"} => pc \in TargetPc
      BY DEF TargetPc
    <2> QED
      BY <2>1 DEF IsoInv, UnitsInv, TargetInv, FilterHonest
  <1>2. IsoInv => UnitsAgree
    <2>1. pc = "MPU_CHECK" => pc \in TargetPc
      BY DEF TargetPc
    <2>2. pc # "MPU_CHECK" => UnitsAgree
      BY DEF UnitsAgree
    <2> QED
      BY <2>1, <2>2, TablesAgree DEF IsoInv, UnitsInv
  <1> QED
    BY <1>1, <1>2, IsoInvariant, PTL

-----------------------------------------------------------------------------
(* The regions of the MPU, and what they say about a device and a buffer    *)

(* No two regions that are on meet, so the one an address is in decides.    *)
LEMMA OneSlot ==
  ASSUME MpuInv, SlotsInv, MpuReady, NEW a \in Nat, NEW i \in SlotsAt(a)
  PROVE  SlotsAt(a) = {i} /\ i \in Slot
  <1>1. i \in Slot /\ mpuOn /\ SlotHit(i, a)
    BY DEF SlotsAt
  <1>2. \A j \in Slot : /\ mpu[j].en \in BOOLEAN /\ mpu[j].base \in Nat /\ mpu[j].limit \in Nat
                        /\ i # j /\ mpu[i].en /\ mpu[j].en => Apart(mpu[i], mpu[j])
    BY <1>1 DEF MpuInv, MpuRegion, SlotsInv
  <1>3. ASSUME NEW j \in Slot, SlotHit(j, a), i # j PROVE FALSE
    BY <1>1, <1>2, <1>3 DEF SlotHit, Apart, Between
  <1> QED
    BY <1>1, <1>3 DEF SlotsAt

LEMMA AtMostOne == ASSUME MpuInv, SlotsInv, MpuReady, NEW a \in Nat PROVE Cardinality(SlotsAt(a)) <= 1
  <1>1. CASE SlotsAt(a) = {}
    BY <1>1, FS_EmptySet
  <1>2. CASE SlotsAt(a) # {}
    <2>1. PICK i : i \in SlotsAt(a)
      BY <1>2
    <2>2. SlotsAt(a) = {i}
      BY <2>1, OneSlot
    <2>3. Cardinality({i}) = 1
      BY FS_Singleton
    <2> QED
      BY <2>2, <2>3
  <1> QED
    BY <1>1, <1>2

(* Once the MPU is on its slots hold the static regions, one region per     *)
(* device and nothing of an earlier boot, and no two of them overlap.       *)
THEOREM SlotsAlwaysSound == IsoSpec => []SlotsSound
  <1>1. IsoInv => SlotsSound
    <2> SUFFICES ASSUME IsoInv, MpuReady PROVE SlotsSound
      BY DEF SlotsSound
    <2>1. MpuInv /\ SlotsInv /\ Addr \subseteq Nat
      BY TargetAssumption DEF IsoInv
    <2>2. \A a \in Addr : Cardinality(SlotsAt(a)) <= 1
      BY <2>1, AtMostOne
    <2> QED
      BY <2>1, <2>2 DEF SlotsSound, SlotsInv
  <1> QED
    BY <1>1, IsoInvariant, PTL

(* Unprivileged code reaches a device that has a region of its own.         *)
LEMMA DeviceReached ==
  ASSUME MpuInv, SlotsInv, MpuReady, NEW i \in Slot, NEW a,
         a.base \in Nat, a.limit \in Nat, a.base <= a.limit, mpu[i] = ReadWrite(a)
  PROVE  MpuMay(FALSE, a.base, TRUE) /\ MpuMay(FALSE, a.limit, TRUE)
  <1>1. /\ mpu[i].en /\ mpu[i].base = a.base /\ mpu[i].limit = a.limit /\ mpu[i].write /\ mpuOn
    BY DEF ReadWrite, SlotsInv
  <1>2. i \in SlotsAt(a.base) /\ i \in SlotsAt(a.limit)
    BY <1>1 DEF SlotsAt, SlotHit, Between
  <1>3. SlotsAt(a.base) = {i} /\ SlotsAt(a.limit) = {i}
    BY <1>2, OneSlot
  <1> QED
    BY <1>1, <1>3 DEF MpuMay

(* While partitions run, each reaches its devices at its own privilege, and *)
(* no one below does.                                                       *)
THEOREM DevicesAlwaysBound == IsoSpec => []DevicesBound
  <1>1. IsoInv => DevicesBound
    <2> SUFFICES ASSUME IsoInv, pc = "RUN", NEW p \in DOMAIN boundary, NEW a \in Given(p),
                        LastGiven(p, a)
                 PROVE  /\ a.reg # AC_DO_NOT_CONFIGURE => "SP" \in ac[a.reg] /\ "NSP" \notin ac[a.reg]
                        /\ IF Privileged(p) THEN a.reg # AC_DO_NOT_CONFIGURE => ~UnprivMay(a)
                           ELSE UnprivMay(a)
      BY DEF DevicesBound
    <2>1. MpuInv /\ SlotsInv /\ DevicesInv /\ build \in Builds /\ MpuReady /\ p \in Partition
      BY DEF IsoInv, PlaceInv, HandleInv, MpuReady
    <2>2. PICK k \in DOMAIN Assets(p) : Assets(p)[k].named /\ a = Assets(p)[k]
      BY DEF Given
    <2>3. Served(p, k) /\ Told(p, k)
      BY <2>1, <2>2 DEF DevicesInv
    <2>4. a.reg # AC_DO_NOT_CONFIGURE => ac[a.reg] = AccessSetting(p)
      BY <2>2, <2>3 DEF Told
    <2>5. a.reg # AC_DO_NOT_CONFIGURE => "SP" \in ac[a.reg] /\ "NSP" \notin ac[a.reg]
      BY <2>4 DEF AccessSetting, S_PRIV_C0, S_UNPRIV_C0
    <2>6. CASE Privileged(p)
      <3>1. a.reg # AC_DO_NOT_CONFIGURE => "SU" \notin ac[a.reg]
        BY <2>4, <2>6 DEF AccessSetting, S_PRIV_C0
      <3> QED
        BY <2>5, <2>6, <3>1 DEF UnprivMay
    <2>7. CASE ~Privileged(p)
      <3>1. a.reg # AC_DO_NOT_CONFIGURE => "SU" \in ac[a.reg]
        BY <2>4, <2>7 DEF AccessSetting, S_UNPRIV_C0
      <3>2. Device(p, k) /\ \E i \in Slot : mpu[i] = ReadWrite(a)
        BY <2>2, <2>3, <2>7 DEF Served, Device
      <3>3. a.base \in Nat /\ a.limit \in Nat /\ a.base <= a.limit
        BY <2>1, <2>2, <3>2, DeviceFacts
      <3>4. MpuMay(FALSE, a.base, TRUE) /\ MpuMay(FALSE, a.limit, TRUE)
        BY <2>1, <3>2, <3>3, DeviceReached
      <3> QED
        BY <2>5, <2>7, <3>1, <3>4 DEF UnprivMay
    <2> QED
      BY <2>6, <2>7
  <1> QED
    BY <1>1, IsoInvariant, PTL

(* A buffer whose ends are in the same region is in that region.            *)
LEMMA RangeMpu ==
  ASSUME MpuInv, SlotsInv, MpuReady, NEW first \in Nat, NEW last \in Nat, NEW a \in Nat,
         Between(first, a, last), SlotsAt(first) = SlotsAt(last),
         NEW write, MpuMay(FALSE, first, write)
  PROVE  MpuMay(FALSE, a, write)
  <1>1. PICK i \in Slot : SlotsAt(first) = {i} /\ (write => mpu[i].write)
    BY DEF MpuMay, SlotsInv
  <1>2. mpuOn /\ SlotHit(i, first) /\ SlotHit(i, last)
    BY <1>1 DEF SlotsAt, SlotsInv
  <1>3. mpu[i].base \in Nat /\ mpu[i].limit \in Nat
    BY <1>1 DEF MpuInv, MpuRegion
  <1>4. i \in SlotsAt(a)
    BY <1>1, <1>2, <1>3 DEF SlotsAt, SlotHit, Between
  <1>5. SlotsAt(a) = {i}
    BY <1>4, OneSlot
  <1> QED
    BY <1>1, <1>5 DEF MpuMay

SauDonePc == pc \notin SauLoop \cup {"SAU_ON"}

LEMMA RangeNs ==
  ASSUME UnitsInv, SauDonePc, NEW first \in Nat, NEW last \in Nat, NEW a \in Nat,
         Between(first, a, last), Attr(first) = "NS",
         {i \in RegionIndex : Hit(sau[i], first)} = {i \in RegionIndex : Hit(sau[i], last)}
  PROVE  Attr(a) = "NS"
  <1>1. sauOn /\ \A i \in {2, 3, 4, 7} : sau[i] = SauTable(i)
    <2>1. sauOn /\ \A k \in 1..4 : sau[SauOrder[k]] = SauTable(SauOrder[k])
      BY DEF UnitsInv, SauProgress, SauDonePc
    <2> QED
      BY <2>1, SauOrderFacts
  <1>2. \A i \in {0, 1, 5, 6} : ~sau[i].en
    BY DEF UnitsInv, SauPartial
  <1>3. /\ sau[2] = Callable(VENEER_BASE, VENEER_LIMIT)
        /\ sau[3] = Open(NS_PARTITION_BASE, NS_PARTITION_LIMIT)
        /\ sau[4] = Open(SRAM4_BASE, PPB_BASE - 1) /\ sau[7] = Off
    BY <1>1, SauTableFacts
  <1>4. /\ \E i \in RegionIndex : Hit(sau[i], first)
        /\ ~ \E i \in RegionIndex : Hit(sau[i], first) /\ sau[i].nsc
    BY DEF Attr, SauAttr
  <1>5. \E i \in {3, 4} : Hit(sau[i], first)
    <2>1. \A i \in {0, 1, 5, 6, 7} : ~Hit(sau[i], first)
      BY <1>2, <1>3 DEF Hit, Off
    <2>2. sau[2].nsc
      BY <1>3 DEF Callable
    <2> QED
      BY <1>4, <2>1, <2>2 DEF RegionIndex
  <1>6. PICK i \in {3, 4} : Hit(sau[i], first) /\ Hit(sau[i], last)
    BY <1>5 DEF RegionIndex
  <1>7. CASE i = 3
    BY <1>1, <1>2, <1>3, <1>6, <1>7, SauDone, MapFacts DEF Hit, Open, Between
  <1>8. CASE i = 4
    BY <1>1, <1>2, <1>3, <1>6, <1>8, SauDone, MapFacts DEF Hit, Open, Between
  <1> QED
    BY <1>6, <1>7, <1>8

LEMMA RangeTasks ==
  ASSUME NEW first \in Nat, NEW last \in Nat, NEW a \in Nat, Between(first, a, last),
         TasksAt(first) = TasksAt(last), TasksAt(first) # {}
  PROVE  TasksAt(a) # {}
  <1>1. PICK t \in NsTasks : Between(t.base, first, t.limit) /\ Between(t.base, last, t.limit)
    BY DEF TasksAt
  <1>2. t.base \in Nat /\ t.limit \in Nat
    BY SectionAssumption DEF Extent
  <1> QED
    BY <1>1, <1>2 DEF TasksAt, Between

(* What the check of a range says about its two ends.                       *)
EndsAlike(first, last, ns, unpriv, write) ==
    /\ {i \in RegionIndex : Hit(sau[i], first)} = {i \in RegionIndex : Hit(sau[i], last)}
    /\ ns => TasksAt(first) = TasksAt(last) /\ NsMay(unpriv, first)
    /\ ~ns => SlotsAt(first) = SlotsAt(last) /\ MpuMay(~unpriv, first, write)

LEMMA RangeEnds ==
  ASSUME NEW first, NEW last, NEW ns, NEW unpriv, NEW write, write = TRUE \/ write = FALSE,
         CmseRange(first, last, ns, unpriv, write)
  PROVE  EndsAlike(first, last, ns, unpriv, write)
  <1> DEFINE tt(a) == TT(ns, unpriv, a)
  <1>1. tt(first) = tt(last) /\ tt(first).may[write]
    BY DEF CmseRange
  <1>2. \A a : /\ tt(a).sau = {i \in RegionIndex : Hit(sau[i], a)}
               /\ tt(a).mpu = (IF ns THEN TasksAt(a) ELSE {<<i>> : i \in SlotsAt(a)})
               /\ tt(a).may[write] = (IF ns THEN NsMay(unpriv, a) ELSE MpuMay(~unpriv, a, write))
    BY DEF TT
  <1> HIDE DEF tt
  <1>3. CASE ns
    BY <1>1, <1>2, <1>3 DEF EndsAlike
  <1>4. CASE ~ns
    <2>1. {<<i>> : i \in SlotsAt(first)} = {<<i>> : i \in SlotsAt(last)}
      BY <1>1, <1>2, <1>4
    <2>2. \A i : <<i>> \in {<<j>> : j \in SlotsAt(first)} <=> i \in SlotsAt(first)
      OBVIOUS
    <2>3. \A i : <<i>> \in {<<j>> : j \in SlotsAt(last)} <=> i \in SlotsAt(last)
      OBVIOUS
    <2>4. SlotsAt(first) = SlotsAt(last)
      BY <2>1, <2>2, <2>3
    <2> QED
      BY <1>1, <1>2, <1>4, <2>4 DEF EndsAlike
  <1> QED
    BY <1>3, <1>4

(* A buffer that passes tfm_hal_memory_check() is accessible in full, for   *)
(* every partition, every buffer and either privilege of the Non-Secure     *)
(* caller, though only its two ends are looked at.                          *)
THEOREM MemoryCheckAlwaysSound == IsoSpec => []MemoryCheckSound
  <1>1. IsoInv => MemoryCheckSound
    <2> DEFINE Checked(p, first, last, access, nsNPRIV) ==
                 /\ ~boundary[p].priv \/ FlagNs(boundary[p], access)
                 /\ MemoryCheck(boundary[p], first, last + 1 - first, access, nsNPRIV) = "SUCCESS"
                 /\ first <= last
               Accessible(p, access, nsNPRIV, a) ==
                 IF boundary[p].ns THEN NsMay(nsNPRIV, a)
                 ELSE IF "NS" \in access THEN Attr(a) = "NS"
                 ELSE MpuMay(FALSE, a, "WRITE" \in access)
    <2>0. SUFFICES ASSUME IsoInv, pc = "RUN", NEW p \in DOMAIN boundary,
                          NEW first \in CheckAddr, NEW last \in CheckAddr,
                          NEW access \in Accesses, NEW nsNPRIV \in BOOLEAN,
                          Checked(p, first, last, access, nsNPRIV),
                          NEW a \in Addr, Between(first, a, last)
                   PROVE  Accessible(p, access, nsNPRIV, a)
      BY Zenon DEF MemoryCheckSound
    <2> DEFINE b     == boundary[p]
               ns    == FlagNs(b, access)
               unpriv == FlagUnpriv(b, nsNPRIV)
               write == "WRITE" \in access
    <2>1. first \in Nat /\ last \in Nat /\ a \in Nat
      BY TargetAssumption, SectionAssumption
    <2>2. /\ UnitsInv /\ MpuInv /\ SlotsInv /\ MpuReady /\ SauDonePc
      BY <2>0 DEF IsoInv, MpuReady, SauDonePc, SauLoop
    <2>3. b.ns \in BOOLEAN /\ b.priv \in BOOLEAN
      <3>1. p \in Partition /\ b = Handle(p) /\ build \in Builds
        BY <2>0 DEF IsoInv, HandleInv, PlaceInv
      <3> QED
        BY <3>1, BuildFacts DEF Handle, Privileged
    <2>4. CmseRange(first, last, ns, unpriv, write)
      <3>1. last + 1 - first # 0 /\ first + (last + 1 - first) - 1 = last
        BY <2>0, <2>1
      <3> QED
        BY <2>0, <3>1 DEF MemoryCheck
    <2>5. write = TRUE \/ write = FALSE
      OBVIOUS
    <2> HIDE DEF ns, unpriv, write
    <2>6. EndsAlike(first, last, ns, unpriv, write)
      BY <2>4, <2>5, RangeEnds
    <2>7. ASSUME ns PROVE NsMay(unpriv, a)
      <3>1. Attr(a) = "NS"
        BY <2>0, <2>1, <2>2, <2>6, <2>7, RangeNs DEF NsMay, EndsAlike
      <3>2. unpriv => TasksAt(a) # {}
        BY <2>0, <2>1, <2>6, <2>7, RangeTasks DEF NsMay, EndsAlike
      <3> QED
        BY <3>1, <3>2 DEF NsMay
    <2>8. ASSUME ~ns, unpriv PROVE MpuMay(FALSE, a, write)
      <3>1. MpuMay(FALSE, first, write)
        BY <2>6, <2>8 DEF MpuMay, EndsAlike
      <3> QED
        BY <2>0, <2>1, <2>2, <2>6, <2>8, <3>1, RangeMpu DEF EndsAlike
    <2>9. CASE b.ns
      <3>1. ns /\ unpriv = nsNPRIV
        BY <2>9 DEF ns, unpriv, FlagNs, FlagUnpriv
      <3> QED
        BY <2>7, <2>9, <3>1
    <2>10. CASE ~b.ns /\ "NS" \in access
      <3>1. ns
        BY <2>10 DEF ns, FlagNs
      <3> QED
        BY <2>7, <2>10, <3>1 DEF NsMay
    <2>11. CASE ~b.ns /\ "NS" \notin access
      <3>1. ~ns /\ unpriv
        BY <2>0, <2>11 DEF ns, unpriv, FlagNs, FlagUnpriv
      <3> QED
        BY <2>8, <2>11, <3>1 DEF write
    <2> QED
      BY <2>9, <2>10, <2>11
  <1> QED
    BY <1>1, IsoInvariant, PTL

-----------------------------------------------------------------------------
(* The promise to the secure partition manager                              *)

LEMMA PromiseTerms ==
  ASSUME build \in Builds
  PROVE  /\ Promise!StaticRegions = Len(Static)
         /\ \A p : (Promise!Unprivileged(p) <=> ~Privileged(p)) /\ Promise!Assets(p) = Assets(p)
         /\ \A p, k : Promise!Regions(p, k) = IF Privileged(p) THEN 0 ELSE NamedBefore(p, k)
  <1>1. Promise!StaticRegions = Len(Static)
    BY StaticFacts DEF Promise!StaticRegions
  <1>2. \A p : (Promise!Unprivileged(p) <=> ~Privileged(p)) /\ Promise!Assets(p) = Assets(p)
    BY DEF Promise!Unprivileged, Promise!Assets, Privileged, Assets, Load
  <1>3. \A p, k : Promise!Regions(p, k) = IF Privileged(p) THEN 0 ELSE NamedBefore(p, k)
    <2> TAKE p, k
    <2>1. CASE Privileged(p)
      BY <1>2, <2>1 DEF Promise!Regions
    <2>2. CASE ~Privileged(p)
      <3>1. Promise!Unprivileged(p) /\ Promise!Assets(p) = Assets(p)
        BY <1>2, <2>2
      <3>2. {j \in 1..(k - 1) : Promise!Assets(p)[j].named} = {j \in 1..(k - 1) : Assets(p)[j].named}
        BY <3>1
      <3> QED
        BY <2>2, <3>1, <3>2 DEF Promise!Regions, NamedBefore, Promise!Cardinality, Cardinality
    <2> QED
      BY <2>1, <2>2
  <1> QED
    BY <1>1, <1>2, <1>3

(* What the MPU has left, as the count goes. *)
LEMMA FreeIs ==
  ASSUME MpuInv, PlaceInv, Binding, part \in Partition
  PROVE  /\ Free = build.slots - n_configured_regions + Promise!Regions(part, idx)
         /\ Free \in Nat /\ Promise!Regions(part, idx) \in Nat
  <1>1. idx \in Nat \ {0} /\ build.slots \in Nat /\ n_configured_regions \in 0..build.slots
    BY BuildFacts DEF MpuInv, PlaceInv, Binding
  <1>2. NamedBefore(part, idx) \in Nat
    BY <1>1, CountNamed
  <1>3. Promise!Regions(part, idx) = IF Privileged(part) THEN 0 ELSE NamedBefore(part, idx)
    BY PromiseTerms DEF PlaceInv
  <1> QED
    BY <1>1, <1>2, <1>3, FreeBinding

(* An asset that has been dealt with was no obstacle. *)
LEMMA NoObstacle ==
  ASSUME IsoInv, Binding, part \in Partition, NEW k \in DOMAIN Assets(part), k < idx
  PROVE  k \notin Promise!Obstacles(part)
  <1>1. MpuInv /\ PlaceInv /\ DevicesInv /\ CountInv /\ MpuReady
    BY DEF IsoInv, MpuReady, Binding
  <1>2. k \in Nat \ {0} /\ idx \in Nat /\ k \in 1..(idx - 1)
    BY <1>1, BuildFacts DEF PlaceInv, Binding
  <1>3. Served(part, k)
    BY <1>1 DEF DevicesInv
  <1>4. ~Privileged(part) /\ Assets(part)[k].named => NamedBefore(part, k) < Free
    BY <1>1, <1>2 DEF CountInv
  <1>5. NamedBefore(part, k) \in Nat /\ Free \in Nat
    BY <1>1, <1>2, CountNamed, FreeIs
  <1>6. /\ Promise!Unprivileged(part) <=> ~Privileged(part)
        /\ Promise!Assets(part) = Assets(part)
        /\ ~Privileged(part) => Promise!Regions(part, k) = NamedBefore(part, k)
    BY <1>1, PromiseTerms DEF PlaceInv
  <1> QED
    BY <1>3, <1>4, <1>5, <1>6 DEF Served, Promise!Obstacles

(* The asset a partition is refused for is the first obstacle. *)
LEMMA FirstObstacle ==
  ASSUME IsoInv, pc = "BIND_FAILED"
  PROVE  idx \in Promise!Obstacles(part) /\ Promise!Min(Promise!Obstacles(part)) = idx
  <1>1. /\ MpuInv /\ PlaceInv /\ CountInv /\ Binding /\ part \in Partition
        /\ idx \in DOMAIN Assets(part) /\ idx \in Nat /\ build \in Builds
    BY BuildFacts DEF IsoInv, PlaceInv, Binding
  <1>2. /\ Promise!Unprivileged(part) <=> ~Privileged(part)
        /\ Promise!Assets(part) = Assets(part)
    BY <1>1, PromiseTerms
  <1>3. NoSlotFor(Assets(part)[idx]) =>
          ~Assets(part)[idx].aligned \/ Promise!Regions(part, idx) >= Free
    <2>1. n_configured_regions \in 0..build.slots /\ build.slots \in Nat
      BY <1>1, BuildFacts DEF MpuInv
    <2> QED
      BY <1>1, <2>1, FreeIs DEF NoSlotFor
  <1>4. idx \in Promise!Obstacles(part)
    BY <1>1, <1>2, <1>3 DEF CountInv, Promise!Obstacles
  <1>5. ASSUME NEW k \in Promise!Obstacles(part) PROVE idx <= k
    <2>1. k \in DOMAIN Assets(part) /\ k \in Nat
      BY <1>1, <1>2, BuildFacts DEF Promise!Obstacles
    <2>2. ~(k < idx)
      BY <1>1, <2>1, NoObstacle
    <2> QED
      BY <1>1, <2>1, <2>2
  <1>6. \A k \in Promise!Obstacles(part) : k \in Nat
    BY <1>1, <1>2, BuildFacts DEF Promise!Obstacles
  <1>7. \A x \in Promise!Obstacles(part) : (\A y \in Promise!Obstacles(part) : x <= y) => x = idx
    BY <1>1, <1>4, <1>5, <1>6
  <1> QED
    BY <1>4, <1>5, <1>7 DEF Promise!Min

LEMMA InitPromise == IsoInit => Promise!PromiseInit
  <1> SUFFICES ASSUME IsoInit PROVE Promise!PromiseInit
    OBVIOUS
  <1>1. /\ pc = "SAU_RBAR" /\ build \in Builds /\ part = 1 /\ boundary = <<>>
        /\ running = 0 /\ nPRIV = FALSE
    BY DEF IsoInit, TargetInit
  <1>2. Phase = "down" /\ Free = 0 /\ DOMAIN boundary = {}
    BY <1>1, EmptyDomain DEF Phase, Free
  <1> QED
    BY <1>1, <1>2 DEF Promise!PromiseInit, Promise!Down

(* Before the MPU is on: nothing to be seen, or the end of the set-up.      *)
LEMMA PromiseSetUp ==
  ASSUME IsoInv, build' = build, refusing' = refusing,
         UNCHANGED <<part, boundary, running, nPRIV>>,
         pc \in IsoPc \ {"BIND", "BIND_FAILED", "RUN", "FAILED"},
         \/ pc' \in IsoPc \ {"BIND", "BIND_FAILED", "RUN", "FAILED"}
         \/ pc' = "FAILED" /\ (refusing # {} \/ build.slots < Len(Static))
         \/ /\ pc' = "BIND" /\ idx' = 1 /\ Len(Static) <= build.slots
            /\ n_configured_regions' = Len(Static)
  PROVE  Promise!SetUp \/ UNCHANGED Promise!promiseVars
  <1>1. Phase = "down" /\ Free = 0
    BY DEF Phase, Free
  <1>2. Promise!StaticRegions = Len(Static) /\ Len(Static) \in Nat /\ build.slots \in Nat
    BY PromiseTerms, StaticFacts, BuildFacts DEF IsoInv, PlaceInv
  <1>3. CASE pc' \in IsoPc \ {"BIND", "BIND_FAILED", "RUN", "FAILED"}
    <2>1. Phase' = "down" /\ Free' = 0
      BY <1>3 DEF Phase, Free
    <2> QED
      BY <1>1, <2>1 DEF Promise!promiseVars
  <1>4. CASE pc' = "FAILED" /\ (refusing # {} \/ build.slots < Len(Static))
    <2>1. Phase' = "stopped" /\ Free' = 0
      BY <1>4 DEF Phase, Free
    <2> QED
      BY <1>1, <1>2, <1>4, <2>1 DEF Promise!SetUp
  <1>5. CASE /\ pc' = "BIND" /\ idx' = 1 /\ Len(Static) <= build.slots
             /\ n_configured_regions' = Len(Static)
    <2>1. Phase' = "binding"
      BY <1>5 DEF Phase
    <2>2. GivenSoFar' = 0
      <3>1. {k \in 1..(1 - 1) : Assets(part)[k].named}' = {}
        OBVIOUS
      <3>2. GivenSoFar' = 0 \/ GivenSoFar' = Cardinality({})
        BY <1>5, <3>1 DEF GivenSoFar
      <3> QED
        BY <3>2, FS_EmptySet
    <2>3. Free' = build.slots - Len(Static)
      BY <1>2, <1>5, <2>1, <2>2 DEF Free
    <2> QED
      BY <1>1, <1>2, <1>5, <2>1, <2>3 DEF Promise!SetUp
  <1> QED
    BY <1>3, <1>4, <1>5

(* Where a partition's first asset is looked at, nothing is given yet.      *)
AtFirstAsset == Binding => idx = 1 \/ part \notin Partition
NothingGiven == GivenSoFar = 0

LEMMA GivenNothing == AtFirstAsset => NothingGiven
  <1> SUFFICES ASSUME Binding => idx = 1 \/ part \notin Partition
               PROVE  GivenSoFar = 0
    BY DEF AtFirstAsset, NothingGiven
  <1>1. CASE Binding /\ idx = 1
    <2>1. {k \in 1..(idx - 1) : Assets(part)[k].named} = {}
      BY <1>1
    <2>2. GivenSoFar \in {0, Cardinality({})}
      BY <2>1 DEF GivenSoFar
    <2> QED
      BY <2>2, FS_EmptySet
  <1>2. CASE ~Binding \/ part \notin Partition
    BY <1>2 DEF GivenSoFar, Binding
  <1> QED
    BY <1>1, <1>2

LEMMA PromiseBind == ASSUME IsoInv, BindDone, refusing' = refusing PROVE Promise!Bind
  <1> USE DEF Goto
  <1>1. /\ MpuInv /\ PlaceInv /\ build \in Builds /\ Binding /\ part \in Partition
        /\ idx = Len(Assets(part)) + 1 /\ pc = "BIND"
    BY DEF IsoInv, PlaceInv, BindDone, Binding
  <1>2. /\ pc' = "BIND" /\ idx' = 1 /\ part' = part + 1
        /\ UNCHANGED <<build, running, nPRIV, n_configured_regions>>
        /\ DOMAIN boundary' = DOMAIN boundary \cup {part}
    BY DEF BindDone
  <1>3. Phase = "binding" /\ Phase' = "binding"
    BY <1>1, <1>2 DEF Phase
  <1>4. Promise!Assets(part) = Assets(part) /\ Len(build.load) \in Nat /\ part <= Len(build.load)
    BY <1>1, PromiseTerms, BuildFacts DEF Partition, Load
  <1>5. Promise!Obstacles(part) = {}
    <2>1. \A k \in DOMAIN Assets(part) : k < idx
      BY <1>1, BuildFacts
    <2>2. \A k \in Promise!Obstacles(part) : k \in DOMAIN Assets(part)
      BY <1>4 DEF Promise!Obstacles
    <2> QED
      BY <1>1, <2>1, <2>2, NoObstacle
  <1>6. Free' = Free - Promise!Regions(part, Len(Assets(part)) + 1)
    <2>1. GivenSoFar' = 0
      <3>1. AtFirstAsset'
        BY <1>2 DEF AtFirstAsset
      <3>2. NothingGiven'
        BY <3>1, GivenNothing, PTL
      <3> QED
        BY <3>2 DEF NothingGiven
    <2>2. Free' = build.slots - n_configured_regions + 0
      BY <1>2, <1>3, <2>1 DEF Free
    <2>3. /\ build.slots \in Nat /\ n_configured_regions \in Nat
          /\ Free = build.slots - n_configured_regions + Promise!Regions(part, idx)
          /\ Promise!Regions(part, idx) \in Nat
      BY <1>1, FreeIs, BuildFacts DEF MpuInv
    <2> QED
      BY <1>1, <2>2, <2>3
  <1> QED
    BY <1>2, <1>3, <1>4, <1>5, <1>6 DEF Promise!Bind

LEMMA PromiseRefuse == ASSUME IsoInv, BindFailed, refusing' = refusing PROVE Promise!Refuse
  <1> USE DEF Goto
  <1>1. /\ MpuInv /\ PlaceInv /\ build \in Builds /\ Binding /\ part \in Partition
        /\ pc = "BIND_FAILED"
    BY DEF IsoInv, PlaceInv, BindFailed, Binding
  <1>2. /\ UNCHANGED <<build, running, nPRIV, n_configured_regions, boundary>>
        /\ \/ pc' = "FAILED" /\ part' = part
           \/ pc' = "BIND" /\ idx' = 1 /\ part' = part + 1
    BY DEF BindFailed
  <1>3. Len(build.load) \in Nat /\ part <= Len(build.load)
    BY <1>1, BuildFacts DEF Partition, Load
  <1>4. Promise!Obstacles(part) # {} /\ Promise!Min(Promise!Obstacles(part)) = idx
    BY <1>1, FirstObstacle
  <1>5. Phase = "binding"
    BY <1>1 DEF Phase
  <1>6. CASE pc' = "FAILED" /\ part' = part
    <2>1. Phase' = "stopped" /\ Free' = 0
      BY <1>6 DEF Phase, Free
    <2> QED
      BY <1>2, <1>3, <1>4, <1>5, <1>6, <2>1 DEF Promise!Refuse
  <1>7. CASE pc' = "BIND" /\ idx' = 1 /\ part' = part + 1
    <2>1. GivenSoFar' = 0
      <3>1. AtFirstAsset'
        BY <1>7 DEF AtFirstAsset
      <3>2. NothingGiven'
        BY <3>1, GivenNothing, PTL
      <3> QED
        BY <3>2 DEF NothingGiven
    <2>2. Phase' = "binding"
      BY <1>7 DEF Phase
    <2>3. Free' = build.slots - n_configured_regions + 0
      BY <1>2, <2>1, <2>2 DEF Free
    <2>4. /\ build.slots \in Nat /\ n_configured_regions \in Nat
          /\ Free = build.slots - n_configured_regions + Promise!Regions(part, idx)
          /\ Promise!Regions(part, idx) \in Nat
      BY <1>1, FreeIs, BuildFacts DEF MpuInv
    <2>5. Free' = Free - Promise!Regions(part, Promise!Min(Promise!Obstacles(part)))
      BY <1>4, <2>3, <2>4
    <2> QED
      BY <1>2, <1>3, <1>4, <1>5, <1>7, <2>2, <2>5 DEF Promise!Refuse
  <1> QED
    BY <1>2, <1>6, <1>7

LEMMA PromiseRun ==
  ASSUME IsoInv, IsoInv', NEW q \in Partition, Schedule(q), refusing' = refusing
  PROVE  Promise!Schedule
  <1>1. /\ pc = "RUN" /\ pc' = "RUN" /\ q \in DOMAIN boundary /\ running' = q /\ q # 0
        /\ UNCHANGED <<build, part, boundary, n_configured_regions>>
    BY DEF Schedule, Bound, Partition
  <1>2. Phase = "up" /\ Phase' = "up" /\ Free' = Free
    BY <1>1 DEF Phase, Free, GivenSoFar
  <1>3. boundary[q] = Handle(q) /\ nPRIV' = ~BoundaryOf(running)'.priv
    BY <1>1 DEF IsoInv, HandleInv
  <1>4. BoundaryOf(running)' = Handle(q)
    BY <1>1, <1>3 DEF BoundaryOf
  <1>5. nPRIV' = ~Privileged(q)
    BY <1>3, <1>4 DEF Handle
  <1>6. nPRIV' = Promise!Unprivileged(q)
    BY <1>5, Zenon DEF Promise!Unprivileged, Privileged, Load
  <1> QED
    BY <1>1, <1>2, <1>6 DEF Promise!Schedule

LEMMA StepPromise ==
  IsoInv /\ IsoInv' /\ [IsoNext]_tfmVars => [Promise!PromiseNext]_(Promise!promiseVars)
  <1> SUFFICES ASSUME IsoInv, IsoInv', [IsoNext]_tfmVars
               PROVE  Promise!PromiseNext \/ UNCHANGED Promise!promiseVars
    OBVIOUS
  <1> USE DEF Goto
  <1>0. UnitsInv /\ MpuInv /\ PlaceInv /\ UnitsOK /\ build \in Builds /\ pc \in IsoPc
        /\ build.slots \in Nat /\ Len(Static) \in Nat
    BY BuildFacts, StaticFacts DEF IsoInv, UnitsInv, PlaceInv
  <1>1. CASE TargetStep /\ UNCHANGED isoVars
    <2>1. /\ pc \in TargetPc \ {"FAILED", "MPU_CHECK"} /\ pc' \in TargetPc
          /\ UNCHANGED <<build, refusing, part, boundary, running, nPRIV>>
      BY <1>1, TargetMoves DEF TargetStep, isoVars
    <2>2. pc' = "FAILED" => err
      BY <1>1 DEF TargetStep, SauRbar, SauRlar, SauEnable, AcCfgReset, AcGpio, AcPeriph, AcLock,
                  DmaChannel, DmaCtrl, DmaBar, DmaLar
    <2>3. pc' = "FAILED" => refusing # {}
      BY <1>0, <2>2 DEF UnitsInv
    <2>4. /\ pc \in IsoPc \ {"BIND", "BIND_FAILED", "RUN", "FAILED"}
          /\ \/ pc' \in IsoPc \ {"BIND", "BIND_FAILED", "RUN", "FAILED"}
             \/ pc' = "FAILED" /\ refusing # {}
      BY <2>1, <2>3 DEF TargetPc, IsoPc
    <2> QED
      BY <2>1, <2>4, PromiseSetUp DEF Promise!PromiseNext
  <1>2. CASE (MpuCheck \/ MpuClear \/ MpuSet) /\ UNCHANGED <<refusing, resets>>
    <2>1. /\ pc \in {"MPU_CHECK", "MPU_CLEAR", "MPU_SET"}
          /\ UNCHANGED <<build, refusing, part, boundary, running, nPRIV>>
          /\ \/ pc' \in {"MPU_CLEAR", "MPU_SET", "MPU_ON"}
             \/ pc' = "FAILED" /\ build.slots < Len(Static)
      BY <1>2 DEF MpuCheck, MpuClear, MpuSet
    <2>2. /\ pc \in IsoPc \ {"BIND", "BIND_FAILED", "RUN", "FAILED"}
          /\ \/ pc' \in IsoPc \ {"BIND", "BIND_FAILED", "RUN", "FAILED"}
             \/ pc' = "FAILED" /\ build.slots < Len(Static)
      BY <2>1 DEF TargetPc, IsoPc
    <2> QED
      BY <2>1, <2>2, PromiseSetUp DEF Promise!PromiseNext
  <1>3. CASE MpuEnable /\ UNCHANGED <<refusing, resets>>
    <2>1. /\ pc = "MPU_ON" /\ pc' = "BIND" /\ idx' = 1 /\ n_configured_regions' = Len(Static)
          /\ Len(Static) <= build.slots
          /\ UNCHANGED <<build, refusing, part, boundary, running, nPRIV>>
      BY <1>0, <1>3 DEF MpuEnable, MpuInv
    <2>2. pc \in IsoPc \ {"BIND", "BIND_FAILED", "RUN", "FAILED"}
      BY <2>1 DEF IsoPc
    <2> QED
      BY <2>1, <2>2, PromiseSetUp DEF Promise!PromiseNext
  <1>4. CASE (SkipAsset \/ RefuseAsset \/ BindAsset) /\ UNCHANGED <<refusing, resets>>
    <2>1. Free' = Free /\ Binding' /\ part' = part /\ Binding
      BY <1>0, <1>4, FreeKept DEF SkipAsset, RefuseAsset, BindAsset, Binding
    <2>2. UNCHANGED <<build, refusing, boundary, running, nPRIV>>
      BY <1>4 DEF SkipAsset, RefuseAsset, BindAsset, isoVars
    <2>3. Phase = "binding" /\ Phase' = "binding"
      BY <2>1 DEF Phase, Binding
    <2> QED
      BY <2>1, <2>2, <2>3 DEF Promise!promiseVars
  <1>5. CASE BindDone /\ UNCHANGED <<refusing, resets>>
    BY <1>5, PromiseBind DEF Promise!PromiseNext
  <1>6. CASE BindFailed /\ UNCHANGED <<refusing, resets>>
    BY <1>6, PromiseRefuse DEF Promise!PromiseNext
  <1>7. CASE AllBound /\ UNCHANGED <<refusing, resets>>
    <2>1. /\ pc = "BIND" /\ pc' = "RUN" /\ part = Len(build.load) + 1
          /\ UNCHANGED <<build, refusing, part, boundary, running, nPRIV, n_configured_regions>>
      BY <1>7 DEF AllBound, isoVars, Load
    <2>2. Phase = "binding" /\ Phase' = "up"
      BY <2>1 DEF Phase
    <2>3. part \notin Partition
      BY <1>0, <2>1, BuildFacts DEF Partition, Load
    <2>4. GivenSoFar = 0 /\ GivenSoFar' = 0
      BY <2>1, <2>3 DEF GivenSoFar
    <2>5. Free' = Free
      BY <2>1, <2>2, <2>4 DEF Free
    <2> QED
      BY <2>1, <2>2, <2>5 DEF Promise!PromiseNext, Promise!Start
  <1>8. CASE (\E q \in Partition : Schedule(q)) /\ UNCHANGED <<refusing, resets>>
    BY <1>8, PromiseRun DEF Promise!PromiseNext
  <1>9. CASE IsoReset
    <2>1. /\ pc' = "SAU_RBAR" /\ part' = 1 /\ boundary' = <<>> /\ running' = 0 /\ nPRIV' = FALSE
          /\ UNCHANGED <<build, refusing>>
      BY <1>9 DEF IsoReset, TargetReset
    <2>2. Phase' = "down" /\ Free' = 0 /\ DOMAIN boundary' = {}
      BY <2>1, EmptyDomain DEF Phase, Free
    <2> QED
      BY <2>1, <2>2 DEF Promise!PromiseNext, Promise!Restart, Promise!Down
  <1>10. CASE UNCHANGED tfmVars
    BY <1>10 DEF tfmVars, targetVars, isoVars, Promise!promiseVars, Phase, Free, GivenSoFar,
                 Partition, Load, Assets, Privileged
  <1> QED
    BY <1>1, <1>2, <1>3, <1>4, <1>5, <1>6, <1>7, <1>8, <1>9, <1>10 DEF IsoNext, IsoStep

(* From reset to scheduling the port, register by register and device by    *)
(* device, does no more than TfmPromise: the safety half of KeepsPromise,   *)
(* for any system of partitions and any number of slots.                    *)
THEOREM BootRefinesPromise ==
    BootSpec => Promise!PromiseInit /\ [][Promise!PromiseNext]_(Promise!promiseVars)
  <1>1. IsoSpec => Promise!PromiseInit /\ [][Promise!PromiseNext]_(Promise!promiseVars)
    BY InitPromise, InitIsoInv, StepIsoInv, StepPromise, PTL DEF IsoSpec
  <1> QED
    BY <1>1, PTL DEF BootSpec
=============================================================================
