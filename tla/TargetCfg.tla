----------------------------- MODULE TargetCfg -----------------------------
(***************************************************************************)
(* reference/target_cfg.c of the TF-M port: sau_and_idau_cfg(),            *)
(* bus_filter_cfg() and dma_security_config(), called in this order by     *)
(* tfm_hal_set_up_static_boundaries(), one register write per step.        *)
(*                                                                         *)
(* bus_filter_cfg() reads each ACCESSCTRL register back: a register may    *)
(* refuse what is written to it.  A reset of the processor may come        *)
(* between any two steps; each unit is either reset with it or kept.       *)
(***************************************************************************)
EXTENDS Attribution, Sequences, SequencesExt

CONSTANTS
    ROM_LIMIT, XIP_BASE, SRAM0_BASE, SRAM4_BASE, SRAM8_BASE,
    VENEER_BASE, VENEER_LIMIT,          \* Image$$ER_VENEER, VENEER_ALIGN
    NS_PARTITION_BASE, NS_PARTITION_LIMIT,
    Addr,               \* the granules the properties look at
    C0C1Periphs,        \* c0_c1_unpriv_periph_offsets[]: AC_SRAM0 .. AC_SRAM3
    C0Periphs,          \* c0_unpriv_periph_offsets[]
    NsPeriphs,          \* ns_priv_periph_offsets[]
    SecureBank,         \* the registers of the SRAM banks below SRAM4
    Refusing,           \* the sets of registers that may refuse a write
    Channels,           \* DMA channels (16)
    MaxResets           \* bound: processor resets in a behaviour

Periphs == C0C1Periphs \o C0Periphs \o NsPeriphs
AcReg   == Range(Periphs)

ASSUME TargetAssumption ==
    /\ {ROM_LIMIT, XIP_BASE, SRAM0_BASE, SRAM4_BASE, SRAM8_BASE, VENEER_BASE, VENEER_LIMIT,
        NS_PARTITION_BASE, NS_PARTITION_LIMIT, PPB_BASE} \subseteq Nat
    /\ ROM_LIMIT < XIP_BASE /\ XIP_BASE < VENEER_BASE /\ VENEER_BASE <= VENEER_LIMIT
    /\ VENEER_LIMIT < NS_PARTITION_BASE /\ NS_PARTITION_BASE <= NS_PARTITION_LIMIT
    /\ NS_PARTITION_LIMIT < SRAM0_BASE /\ SRAM0_BASE < SRAM4_BASE
    /\ SRAM4_BASE < SRAM8_BASE /\ SRAM8_BASE < PPB_BASE
    /\ Addr \subseteq Nat
    /\ Refusing \subseteq SUBSET AcReg
    /\ {C0C1Periphs, C0Periphs, NsPeriphs} \subseteq Seq(AcReg)
    /\ C0C1Periphs # <<>> /\ C0Periphs # <<>> /\ NsPeriphs # <<>>
    /\ IsInjective(Periphs)
    /\ SecureBank \subseteq AcReg \ Range(NsPeriphs) /\ "SRAM4" \in Range(NsPeriphs)
    /\ Channels \in Nat \ {0} /\ MaxResets \in Nat

VARIABLES
    pc, idx,            \* the next step of the processor
    sau, sauOn,         \* the SAU
    ac, gpio, lock,     \* ACCESSCTRL: who may, GPIO_NSMASK, LOCK
    err,                \* bus_filter_cfg()'s err
    seccfg,             \* DMA_SECCFG of each channel
    dmaDefaultS, dma,   \* the DMA MPU
    refusing,           \* the registers that refuse writes: a broken part
    resets

sauVars == <<sau, sauOn>>
acVars  == <<ac, gpio, lock>>
dmaVars == <<seccfg, dmaDefaultS, dma>>
unitVars == <<sauVars, acVars, err, dmaVars>>
targetVars == <<pc, idx, unitVars, refusing, resets>>

-----------------------------------------------------------------------------
(* ACCESSCTRL settings: the bus actors and security states let through.     *)

NS_PRIV     == {"DBG", "DMA", "CORE1", "CORE0", "SP", "SU", "NSP"}
S_UNPRIV_C0 == {"DBG", "CORE0", "SP", "SU"}
S_PRIV_C0   == {"DBG", "CORE0", "SP"}

(* What bus_filter_cfg() gives each register; without the multi-core        *)
(* topology the first two lists get the same.                               *)
Setting(r) == IF Contains(NsPeriphs, r) THEN NS_PRIV ELSE S_UNPRIV_C0

Default == {"DBG", "DMA", "CORE1", "CORE0", "SP", "SU"}

(* Variant: region 4 starts at SRAM8, above the banks the bus filter opens. *)
SauTableHigh(i) ==
    IF i = 2 THEN Callable(VENEER_BASE, VENEER_LIMIT)
    ELSE IF i = 3 THEN Open(NS_PARTITION_BASE, NS_PARTITION_LIMIT)
    ELSE IF i = 4 THEN Open(SRAM8_BASE, PPB_BASE - 1) ELSE Off

(* The regions sau_and_idau_cfg() writes, in its order; 0 and 1 stay out    *)
(* (#if 0), 5 and 6 are never used.                                         *)
SauOrder == <<2, 3, 4, 7>>
SauTable(i) ==
    IF i = 2 THEN Callable(VENEER_BASE, VENEER_LIMIT)
    ELSE IF i = 3 THEN Open(NS_PARTITION_BASE, NS_PARTITION_LIMIT)
    ELSE IF i = 4 THEN Open(SRAM4_BASE, PPB_BASE - 1) ELSE Off

(* Variant: region 2 starts at SRAM0. *)
DmaTableLow(i) ==
    CASE i = 0 -> Open(VENEER_BASE, VENEER_LIMIT)
      [] i = 1 -> Open(NS_PARTITION_BASE, VENEER_LIMIT)
      [] i = 2 -> Open(SRAM0_BASE, PPB_BASE - 1)
      [] OTHER -> Off

(* Region 1 ends at the veneers' limit, as the code has it. *)
DmaTable(i) ==
    CASE i = 0 -> Open(VENEER_BASE, VENEER_LIMIT)
      [] i = 1 -> Open(NS_PARTITION_BASE, VENEER_LIMIT)
      [] i = 2 -> Open(SRAM4_BASE, PPB_BASE - 1)
      [] OTHER -> Off

SauReset ==
    {[i \in RegionIndex |-> IF i = 7 THEN r ELSE Off] :
       r \in {Off, Open(0, ROM_LIMIT), Callable(0, ROM_LIMIT)}}
AcReset   == [r \in AcReg |-> Default]
DmaReset  == [i \in RegionIndex |-> Off]
ChanReset == [c \in 0..(Channels - 1) |-> "SP"]

TargetInit ==
    /\ pc = "SAU_RBAR" /\ idx = 1 /\ resets = 0
    /\ sau \in SauReset /\ sauOn \in BOOLEAN
    /\ ac = AcReset /\ gpio = [k \in 0..1 |-> "closed"] /\ lock = {}
    /\ err = FALSE
    /\ seccfg = ChanReset /\ dmaDefaultS = FALSE /\ dma = DmaReset
    /\ refusing \in Refusing

Goto(next, i) == pc' = next /\ idx' = i

-----------------------------------------------------------------------------
(* sau_and_idau_cfg().  RNR is written before each pair, so the window is   *)
(* part of the store to RBAR.                                               *)

SauRbar ==
    /\ pc = "SAU_RBAR" /\ Goto("SAU_RLAR", idx)
    /\ sau' = [sau EXCEPT ![SauOrder[idx]].base = SauTable(SauOrder[idx]).base]
    /\ UNCHANGED <<sauOn, acVars, err, dmaVars>>

SauRlar ==
    /\ pc = "SAU_RLAR"
    /\ IF idx = 4 THEN Goto("SAU_ON", 0) ELSE Goto("SAU_RBAR", idx + 1)
    /\ sau' = [sau EXCEPT ![SauOrder[idx]] =
                 [SauTable(SauOrder[idx]) EXCEPT !.base = sau[SauOrder[idx]].base]]
    /\ UNCHANGED <<sauOn, acVars, err, dmaVars>>

SauEnable ==
    /\ pc = "SAU_ON" /\ Goto("AC_RESET", 0)
    /\ sauOn' = TRUE
    /\ UNCHANGED <<sau, acVars, err, dmaVars>>

-----------------------------------------------------------------------------
(* bus_filter_cfg() *)

AcCfgReset ==
    /\ pc = "AC_RESET" /\ Goto("AC_GPIO", 0)
    /\ ac' = AcReset /\ gpio' = [k \in 0..1 |-> "closed"] /\ err' = FALSE
    /\ UNCHANGED <<sauVars, lock, dmaVars>>

AcGpio ==
    /\ pc = "AC_GPIO"
    /\ IF idx = 1 THEN Goto("AC_PERIPH", 1) ELSE Goto("AC_GPIO", idx + 1)
    /\ gpio' = [gpio EXCEPT ![idx] = "masked"]
    /\ UNCHANGED <<sauVars, ac, lock, err, dmaVars>>

(* Variant: err says how the last register did. *)
AcPeriphLastErr ==
    /\ pc = "AC_PERIPH"
    /\ IF idx = Len(Periphs) THEN Goto("AC_LOCK", 0) ELSE Goto("AC_PERIPH", idx + 1)
    /\ LET r == Periphs[idx] IN
         /\ ac' = IF r \in refusing THEN ac ELSE [ac EXCEPT ![r] = Setting(r)]
         /\ err' = (ac'[r] # Setting(r))
    /\ UNCHANGED <<sauVars, gpio, lock, dmaVars>>

(* One register of the three loops: a write and the read back. *)
AcPeriph ==
    /\ pc = "AC_PERIPH"
    /\ IF idx = Len(Periphs) THEN Goto("AC_LOCK", 0) ELSE Goto("AC_PERIPH", idx + 1)
    /\ LET r == Periphs[idx] IN
         /\ ac' = IF r \in refusing THEN ac ELSE [ac EXCEPT ![r] = Setting(r)]
         /\ err' = (err \/ ac'[r] # Setting(r))
    /\ UNCHANGED <<sauVars, gpio, lock, dmaVars>>

(* LOCK is written whatever err says; then set_up_static_boundaries() gives *)
(* up on an error.                                                          *)
AcLock ==
    /\ pc = "AC_LOCK"
    /\ IF err THEN Goto("FAILED", 0) ELSE Goto("DMA_CHAN", 0)
    /\ lock' = {"CORE1", "DMA"}
    /\ UNCHANGED <<sauVars, ac, gpio, err, dmaVars>>

-----------------------------------------------------------------------------
(* dma_security_config() *)

DmaChannel ==
    /\ pc = "DMA_CHAN"
    /\ IF idx = Channels - 1 THEN Goto("DMA_CTRL", 0) ELSE Goto("DMA_CHAN", idx + 1)
    /\ seccfg' = [seccfg EXCEPT ![idx] = "NSP"]
    /\ UNCHANGED <<sauVars, acVars, err, dmaDefaultS, dma>>

DmaCtrl ==
    /\ pc = "DMA_CTRL" /\ Goto("DMA_BAR", 0)
    /\ dmaDefaultS' = TRUE
    /\ UNCHANGED <<sauVars, acVars, err, seccfg, dma>>

DmaBar ==
    /\ pc = "DMA_BAR" /\ Goto("DMA_LAR", idx)
    /\ dma' = [dma EXCEPT ![idx].base = DmaTable(idx).base]
    /\ UNCHANGED <<sauVars, acVars, err, seccfg, dmaDefaultS>>

DmaLar ==
    /\ pc = "DMA_LAR"
    /\ IF idx = 7 THEN Goto("MPU_CHECK", 0) ELSE Goto("DMA_BAR", idx + 1)
    /\ dma' = [dma EXCEPT ![idx] = [DmaTable(idx) EXCEPT !.base = dma[idx].base]]
    /\ UNCHANGED <<sauVars, acVars, err, seccfg, dmaDefaultS>>

TargetStep ==
    /\ \/ SauRbar \/ SauRlar \/ SauEnable
       \/ AcCfgReset \/ AcGpio \/ AcPeriph \/ AcLock
       \/ DmaChannel \/ DmaCtrl \/ DmaBar \/ DmaLar
    /\ UNCHANGED <<refusing, resets>>

(* Only a hard reset clears LOCK ("only hard reset can clear this"). *)
TargetReset ==
    /\ resets < MaxResets /\ resets' = resets + 1
    /\ Goto("SAU_RBAR", 1)
    /\ sauOn' \in BOOLEAN /\ sau' \in SauReset \cup {sau}
    /\ \/ UNCHANGED acVars
       \/ ac' = AcReset /\ gpio' = [k \in 0..1 |-> "closed"] /\ lock' = {}
    /\ \/ UNCHANGED dmaVars
       \/ seccfg' = ChanReset /\ dmaDefaultS' = FALSE /\ dma' = DmaReset
    /\ err' = FALSE /\ UNCHANGED refusing

TargetNext == TargetStep \/ TargetReset

TargetSpec == TargetInit /\ [][TargetNext]_targetVars

-----------------------------------------------------------------------------
(* Properties *)

Attr(a) == SauAttr(sauOn, sau, a)

(* The Secure image and its data: flash up to the veneers, SRAM0 to SRAM3.  *)
SecureOwned(a) ==
    Between(XIP_BASE, a, VENEER_BASE - 1) \/ Between(SRAM0_BASE, a, SRAM4_BASE - 1)

TargetPc == {"SAU_RBAR", "SAU_RLAR", "SAU_ON", "AC_RESET", "AC_GPIO", "AC_PERIPH",
             "AC_LOCK", "DMA_CHAN", "DMA_CTRL", "DMA_BAR", "DMA_LAR", "MPU_CHECK", "FAILED"}

(* Type correctness of the units. *)
UnitsOK ==
    /\ sau \in [RegionIndex -> Region] /\ sauOn \in BOOLEAN
    /\ ac \in [AcReg -> {Default, NS_PRIV, S_UNPRIV_C0, S_PRIV_C0}]
    /\ gpio \in [0..1 -> {"closed", "masked"}] /\ lock \subseteq {"CORE1", "DMA"}
    /\ seccfg \in [0..(Channels - 1) -> {"SP", "NSP"}]
    /\ dma \in [RegionIndex -> Region] /\ dmaDefaultS \in BOOLEAN /\ err \in BOOLEAN
TargetTypeOK == pc \in TargetPc /\ UnitsOK

(* At no instant of the set-up, not with half of an earlier boot's          *)
(* registers, does the SAU or, once it is on, the DMA MPU give away an      *)
(* address of the Secure image.                                             *)
SecureNeverOpen ==
    \A a \in Addr : SecureOwned(a) =>
      Attr(a) = "S" /\ (dmaDefaultS => ~DmaNsMay(dmaDefaultS, dma, a))

(* The set-up goes on to the MPU only if ACCESSCTRL took every setting: one *)
(* refused write among many fails it, however the later ones do.            *)
FilterHonest ==
    pc \in {"DMA_CHAN", "DMA_CTRL", "DMA_BAR", "DMA_LAR", "MPU_CHECK"} =>
      /\ \A r \in AcReg : ac[r] = Setting(r)
      /\ lock = {"CORE1", "DMA"}

(* At the end the three units tell one story: what is Secure for the        *)
(* processor is closed to the DMA, a bank of SRAM is Non-Secure on the bus  *)
(* exactly if the SAU says so, and every channel of the DMA is Non-Secure.  *)
BankAddr(r) == IF r \in SecureBank THEN SRAM0_BASE ELSE SRAM4_BASE
UnitsAgree ==
    pc = "MPU_CHECK" =>
      /\ \A a \in Addr : Attr(a) = "S" => ~DmaNsMay(dmaDefaultS, dma, a)
      /\ \A r \in SecureBank \cup {"SRAM4"} :
           "NSP" \in ac[r] <=> Attr(BankAddr(r)) = "NS"
      /\ \A c \in DOMAIN seccfg : seccfg[c] = "NSP"

(* target_cfg.c: "Configure DMA MPU to mirror SAU settings".  Its other     *)
(* half: what is Non-Secure for the processor is open to the DMA.           *)
DmaMirrorsSau ==
    pc = "MPU_CHECK" => \A a \in Addr : Attr(a) = "NS" => DmaNsMay(dmaDefaultS, dma, a)
=============================================================================
