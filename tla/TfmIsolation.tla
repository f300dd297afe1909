---------------------------- MODULE TfmIsolation ----------------------------
(***************************************************************************)
(* reference/tfm_hal_isolation_rp2350.c of the TF-M port, on top of the    *)
(* platform set-up of TargetCfg: the static regions of the Secure MPU, the *)
(* binding of each partition's devices, the boundary switched to when the  *)
(* secure partition manager (SPM) schedules a partition, and the check of  *)
(* a buffer on a partition's behalf.                                       *)
(*                                                                         *)
(* The SPM is not in this repository: it sets the boundaries up, binds the *)
(* partitions in load order, and after an error either stops or goes on    *)
(* without the partition.  It then runs the bound ones in any order,       *)
(* "compares the handle between partitions" and, if told to, activates.    *)
(***************************************************************************)
EXTENDS TargetCfg, FiniteSets

CONSTANTS
    UNPRIV_CODE, APP_CODE, APP_RW_STACK, SP_META,   \* Image$$..., as [base, limit]
    NsTasks,        \* what the Non-Secure OS opens to its own unprivileged code
    Builds,         \* [level, meta, slots, load]: how the system was built
    CheckAddr       \* where the buffers to be checked begin and end

VARIABLES
    build,
    mpu, mpuOn,             \* the Secure MPU: RBAR, RLAR of each slot; CTRL.ENABLE
    n_configured_regions,
    part,                   \* the partition being bound
    boundary,               \* the handles of the partitions bound so far
    running, nPRIV          \* the partition scheduled (0: the SPM), CONTROL.nPRIV

isoVars  == <<build, mpu, mpuOn, n_configured_regions, part, boundary, running, nPRIV>>
tfmVars  == <<targetVars, isoVars>>

-----------------------------------------------------------------------------
(* A partition is [rot, ns, assets]; an asset is a device, [named, listed,  *)
(* reg, base, limit, aligned]: whether it is a named MMIO, whether the      *)
(* platform's list has it, its ACCESSCTRL register, its addresses, and      *)
(* whether its bounds are those of whole granules.                          *)

Load          == build.load
Partition     == 1..Len(Load)
Assets(p)     == Load[p].assets
Slot          == 0..(build.slots - 1)
AC_DO_NOT_CONFIGURE == "none"

(* privileged: always at level 1, else only for the PSA root of trust. *)
Privileged(p) == build.level = 1 \/ Load[p].rot

Extent == [base : Nat, limit : Nat]
Asset  == [named : BOOLEAN, listed : BOOLEAN, aligned : BOOLEAN, base : Nat, limit : Nat,
           reg : AcReg \cup {AC_DO_NOT_CONFIGURE}]
System == [level : {1, 2}, meta : BOOLEAN, slots : Nat,
           load : Seq([rot : BOOLEAN, ns : BOOLEAN, assets : Seq(Asset)])]

Apart(r, s) == r.limit < s.base \/ s.limit < r.base
Sections    == <<[base |-> VENEER_BASE, limit |-> VENEER_LIMIT], UNPRIV_CODE, APP_CODE,
                 APP_RW_STACK, SP_META>>

(* The linker script lays the sections out one after the other. *)
ASSUME SectionAssumption ==
    /\ \A i \in 1..5 : Sections[i] \in Extent
    /\ \A i, j \in 1..5 : i # j => Apart(Sections[i], Sections[j])
    /\ NsTasks \subseteq Extent /\ CheckAddr \subseteq Nat

(* A device is not in a section, and no device is named by two unprivileged *)
(* partitions: their two regions would overlap, which the MPU answers with  *)
(* a fault.                                                                 *)
ASSUME BuildAssumption ==
    /\ Builds \subseteq System
    /\ \A b \in Builds : \A p, q \in DOMAIN b.load :
         \A k \in DOMAIN b.load[p].assets : \A l \in DOMAIN b.load[q].assets :
           LET r == b.load[p].assets[k]
               s == b.load[q].assets[l]
           IN  /\ r.named /\ r.listed =>
                    r.base <= r.limit /\ \A i \in 1..5 : Apart(r, Sections[i])
               /\ /\ b.level = 2
                  /\ r.named /\ r.listed /\ ~b.load[p].rot
                  /\ s.named /\ s.listed /\ ~b.load[q].rot /\ <<p, k>> # <<q, l>>
                  => Apart(r, s)

Closed         == [en |-> FALSE, base |-> 0, limit |-> 0, write |-> FALSE]
ReadOnly(r)    == [en |-> TRUE, base |-> r.base, limit |-> r.limit, write |-> FALSE]
ReadWrite(r)   == [en |-> TRUE, base |-> r.base, limit |-> r.limit, write |-> TRUE]

(* mpu_region_attributes[]; every region is open to unprivileged code. *)
Static ==
    <<ReadOnly([base |-> VENEER_BASE, limit |-> VENEER_LIMIT]),
      ReadOnly(UNPRIV_CODE), ReadOnly(APP_CODE), ReadWrite(APP_RW_STACK)>>
    \o (IF build.meta THEN <<ReadWrite(SP_META)>> ELSE <<>>)

Handle(p)   == [priv |-> Privileged(p), ns |-> Load[p].ns]
SpmBoundary == [priv |-> TRUE, ns |-> FALSE]        \* PROT_BOUNDARY_VAL
Bound(p)    == p \in DOMAIN boundary
BoundaryOf(p) == IF p = 0 THEN SpmBoundary ELSE boundary[p]

(* The slots out of reset: off, or holding anything. *)
MpuReset == {[i \in Slot |-> Closed],
             [i \in Slot |-> ReadWrite([base |-> SRAM0_BASE, limit |-> SRAM8_BASE])]}

IsoInit ==
    /\ TargetInit
    /\ build \in Builds
    /\ mpu \in MpuReset /\ mpuOn = FALSE /\ n_configured_regions = 0
    /\ part = 1 /\ boundary = <<>>
    /\ running = 0 /\ nPRIV = FALSE

-----------------------------------------------------------------------------
(* tfm_hal_set_up_static_boundaries(), after the steps of TargetCfg *)

(* Variant: the slots are not cleared. *)
MpuCheckKeepsSlots ==
    /\ pc = "MPU_CHECK"
    /\ IF build.slots < Len(Static)
       THEN Goto("FAILED", 0) /\ UNCHANGED mpuOn
       ELSE Goto("MPU_SET", 0) /\ mpuOn' = FALSE
    /\ UNCHANGED <<unitVars, build, mpu, n_configured_regions, part, boundary, running, nPRIV>>

(* The number of regions, then the MPU off. *)
MpuCheck ==
    /\ pc = "MPU_CHECK"
    /\ IF build.slots < Len(Static)
       THEN Goto("FAILED", 0) /\ UNCHANGED mpuOn
       ELSE Goto("MPU_CLEAR", 0) /\ mpuOn' = FALSE
    /\ UNCHANGED <<unitVars, build, mpu, n_configured_regions, part, boundary, running, nPRIV>>

MpuClear ==
    /\ pc = "MPU_CLEAR"
    /\ IF idx + 1 < build.slots THEN Goto("MPU_CLEAR", idx + 1) ELSE Goto("MPU_SET", 0)
    /\ mpu' = [mpu EXCEPT ![idx] = Closed]
    /\ UNCHANGED <<unitVars, build, mpuOn, n_configured_regions, part, boundary, running, nPRIV>>

MpuSet ==
    /\ pc = "MPU_SET"
    /\ IF idx + 1 < Len(Static) THEN Goto("MPU_SET", idx + 1) ELSE Goto("MPU_ON", idx + 1)
    /\ mpu' = [mpu EXCEPT ![idx] = Static[idx + 1]]
    /\ UNCHANGED <<unitVars, build, mpuOn, n_configured_regions, part, boundary, running, nPRIV>>

MpuEnable ==
    /\ pc = "MPU_ON" /\ Goto("BIND", 1)
    /\ n_configured_regions' = idx /\ mpuOn' = TRUE
    /\ UNCHANGED <<unitVars, build, mpu, part, boundary, running, nPRIV>>

-----------------------------------------------------------------------------
(* tfm_hal_bind_boundary(): one asset per step.  The SPM passes no null     *)
(* pointer.                                                                 *)

(* The asset is a device the code would set up: named, and in the list. *)
Device(p, k) == Assets(p)[k].named /\ Assets(p)[k].listed

(* Variant: the two settings swapped. *)
AccessSettingSwapped(p) == IF Privileged(p) THEN S_UNPRIV_C0 ELSE S_PRIV_C0

(* access_ctrl_configure_to_secure_privileged() and ..._unprivileged() *)
AccessSetting(p) == IF Privileged(p) THEN S_PRIV_C0 ELSE S_UNPRIV_C0

(* Every device of target_cfg.c leaves periph_ppc_bank 0, and so is not     *)
(* PPC_SP_DO_NOT_CONFIGURE.                                                 *)
ConfigureAccess(p, a) ==
    ac' = IF a.reg = AC_DO_NOT_CONFIGURE THEN ac ELSE [ac EXCEPT ![a.reg] = AccessSetting(p)]

(* Variant: one slot too few. *)
NoSlotFor1(a) == build.slots <= n_configured_regions + 1 \/ ~a.aligned

(* Variant: one slot too many. *)
NoSlotForOver(a) == build.slots < n_configured_regions \/ ~a.aligned

(* Why a device gets no region of the MPU: none left, or not on granules.   *)
NoSlotFor(a) == build.slots <= n_configured_regions \/ ~a.aligned

SkipAsset ==
    /\ pc = "BIND" /\ part \in Partition /\ idx <= Len(Assets(part))
    /\ ~Assets(part)[idx].named
    /\ Goto("BIND", idx + 1)
    /\ UNCHANGED <<unitVars, isoVars>>

RefuseAsset ==
    /\ pc = "BIND" /\ part \in Partition /\ idx <= Len(Assets(part))
    /\ Assets(part)[idx].named /\ ~Assets(part)[idx].listed
    /\ Goto("BIND_FAILED", idx)
    /\ UNCHANGED <<unitVars, isoVars>>

(* A region of the MPU is for an unprivileged partition at level 2 only.    *)
(* When there is none, ACCESSCTRL has already been told.                    *)
BindAsset ==
    /\ pc = "BIND" /\ part \in Partition /\ idx <= Len(Assets(part)) /\ Device(part, idx)
    /\ LET a == Assets(part)[idx] IN
         /\ ConfigureAccess(part, a)
         /\ IF Privileged(part)
            THEN Goto("BIND", idx + 1) /\ UNCHANGED <<mpu, n_configured_regions, mpuOn>>
            ELSE IF NoSlotFor(a)
            THEN Goto("BIND_FAILED", idx) /\ UNCHANGED <<mpu, n_configured_regions, mpuOn>>
            ELSE /\ Goto("BIND", idx + 1)
                 /\ mpu' = [mpu EXCEPT ![n_configured_regions] = ReadWrite(a)]
                 /\ n_configured_regions' = n_configured_regions + 1
                 /\ mpuOn' = TRUE
    /\ UNCHANGED <<sauVars, gpio, lock, err, dmaVars, build, part, boundary, running, nPRIV>>

BindDone ==
    /\ pc = "BIND" /\ part \in Partition /\ idx = Len(Assets(part)) + 1
    /\ boundary' = [p \in DOMAIN boundary \cup {part} |->
                      IF p = part THEN Handle(p) ELSE boundary[p]]
    /\ part' = part + 1 /\ Goto("BIND", 1)
    /\ UNCHANGED <<unitVars, build, mpu, mpuOn, n_configured_regions, running, nPRIV>>

(* The SPM on an error: it stops, or does without the partition. *)
BindFailed ==
    /\ pc = "BIND_FAILED"
    /\ \/ Goto("FAILED", 0) /\ UNCHANGED part
       \/ Goto("BIND", 1) /\ part' = part + 1
    /\ UNCHANGED <<unitVars, build, mpu, mpuOn, n_configured_regions, boundary, running, nPRIV>>

AllBound ==
    /\ pc = "BIND" /\ part = Len(Load) + 1 /\ Goto("RUN", 0)
    /\ UNCHANGED <<unitVars, isoVars>>

-----------------------------------------------------------------------------
(* Scheduling *)

(* Variant: no switch to or from a privileged boundary. *)
NeedSwitchEither(from, to) == from # to /\ ~(from.priv \/ to.priv)

(* tfm_hal_boundary_need_switch() *)
NeedSwitch(from, to) == from # to /\ ~(from.priv /\ to.priv)

(* The SPM schedules q; tfm_hal_activate_boundary() if it has to. *)
Schedule(q) ==
    /\ pc = "RUN" /\ Bound(q) /\ running' = q
    /\ nPRIV' = IF NeedSwitch(BoundaryOf(running), boundary[q]) THEN ~boundary[q].priv ELSE nPRIV
    /\ UNCHANGED <<pc, idx, unitVars, build, mpu, mpuOn, n_configured_regions, part, boundary>>

IsoStep ==
    /\ \/ MpuCheck \/ MpuClear \/ MpuSet \/ MpuEnable
       \/ SkipAsset \/ RefuseAsset \/ BindAsset \/ BindDone \/ BindFailed \/ AllBound
       \/ \E q \in Partition : Schedule(q)
    /\ UNCHANGED <<refusing, resets>>

(* RAM that is zeroed at start-up, and CONTROL, begin anew; the MPU may     *)
(* keep what it holds.                                                      *)
IsoReset ==
    /\ TargetReset
    /\ mpu' \in MpuReset \cup {mpu} /\ mpuOn' \in {FALSE, mpuOn}
    /\ n_configured_regions' = 0 /\ part' = 1
    /\ boundary' = <<>>
    /\ running' = 0 /\ nPRIV' = FALSE /\ UNCHANGED build

IsoNext == (TargetStep /\ UNCHANGED isoVars) \/ IsoStep \/ IsoReset

IsoSpec == IsoInit /\ [][IsoNext]_tfmVars

-----------------------------------------------------------------------------
(* tfm_hal_memory_check() *)

SlotHit(i, a) == mpu[i].en /\ Between(mpu[i].base, a, mpu[i].limit)
SlotsAt(a)    == IF mpuOn THEN {i \in Slot : SlotHit(i, a)} ELSE {}

(* The Secure MPU: two regions at one address fault; outside every region   *)
(* the default map (PRIVDEFENA) serves privileged code alone.               *)
MpuMay(priv, a, write) ==
    IF SlotsAt(a) = {} THEN priv \/ ~mpuOn
    ELSE \E i \in Slot : SlotsAt(a) = {i} /\ (write => mpu[i].write)

(* The Non-Secure MPU, the affair of the Non-Secure OS. *)
TasksAt(a)      == {t \in NsTasks : Between(t.base, a, t.limit)}
NsMay(unpriv, a) == Attr(a) = "NS" /\ (unpriv => TasksAt(a) # {})

(* cmse_check_address_range(): the two ends must be alike in everything the *)
(* TT instruction tells, and the first one accessible.                      *)
TT(ns, unpriv, a) ==
    [sau   |-> {i \in RegionIndex : Hit(sau[i], a)},
     mpu   |-> IF ns THEN TasksAt(a) ELSE {<<i>> : i \in SlotsAt(a)},
     may   |-> [write \in BOOLEAN |-> IF ns THEN NsMay(unpriv, a) ELSE MpuMay(~unpriv, a, write)],
     attr  |-> Attr(a)]
CmseRange(first, last, ns, unpriv, write) ==
    first <= last /\ TT(ns, unpriv, first) = TT(ns, unpriv, last)
                  /\ TT(ns, unpriv, first).may[write]

(* Variant: the caller's privilege is not looked up. *)
FlagUnprivOfHandle(b, nsNPRIV) == ~b.priv

(* CMSE_MPU_UNPRIV: for the Non-Secure agent it is what CONTROL_NS says. *)
FlagUnpriv(b, nsNPRIV) == IF b.ns THEN nsNPRIV ELSE ~b.priv

(* CMSE_NONSECURE *)
FlagNs(b, access) == "NS" \in access \/ b.ns

MemoryCheck(b, base, size, access, nsNPRIV) ==
    IF size = 0 THEN "SUCCESS"
    ELSE IF base = 0 \/ "READ" \notin access THEN "INVALID_INPUT"
    ELSE IF CmseRange(base, base + size - 1, FlagNs(b, access), FlagUnpriv(b, nsNPRIV),
                      "WRITE" \in access)
    THEN "SUCCESS" ELSE "MEM_FAULT"

-----------------------------------------------------------------------------
(* Properties *)

IsoPc == (TargetPc \ {"FAILED"}) \cup
         {"MPU_CLEAR", "MPU_SET", "MPU_ON", "BIND", "BIND_FAILED", "RUN", "FAILED"}

(* Type correctness. *)
IsoTypeOK ==
    /\ pc \in IsoPc /\ UnitsOK /\ build \in Builds
    /\ mpu \in [Slot -> [en : BOOLEAN, base : Nat, limit : Nat, write : BOOLEAN]]
    /\ mpuOn \in BOOLEAN /\ n_configured_regions \in 0..build.slots
    /\ part \in 1..(Len(Load) + 1)
    /\ DOMAIN boundary \subseteq 1..(part - 1)
    /\ running \in {0} \cup DOMAIN boundary /\ nPRIV \in BOOLEAN

MpuReady == pc \in {"BIND", "BIND_FAILED", "RUN"}

(* From the moment the MPU is on, its slots hold the static regions, then   *)
(* one region per device, and nothing of an earlier boot; no address is in  *)
(* two of them, which would fault whoever touches it.                       *)
SlotsSound ==
    MpuReady =>
      /\ mpuOn
      /\ \A i \in 0..(Len(Static) - 1) : mpu[i] = Static[i + 1]
      /\ \A i \in Slot : mpu[i].en <=> i < n_configured_regions
      /\ \A a \in Addr : Cardinality(SlotsAt(a)) <= 1

(* The devices a bound partition was given, and the last partition to be    *)
(* given a register: it decides what the register says.                     *)
Given(p)    == {Assets(p)[k] : k \in {j \in DOMAIN Assets(p) : Assets(p)[j].named}}
LastGiven(p, a) ==
    \A q \in Partition : q > p => \A b \in Given(q) : b.reg # a.reg \/ a.reg = AC_DO_NOT_CONFIGURE

(* What unprivileged Secure code can do to a device.                        *)
UnprivMay(a) ==
    /\ a.reg = AC_DO_NOT_CONFIGURE \/ "SU" \in ac[a.reg]
    /\ MpuMay(FALSE, a.base, TRUE) /\ MpuMay(FALSE, a.limit, TRUE)

(* While partitions run, a bound partition reaches each of its devices at   *)
(* the privilege it runs at; a device of a privileged one that ACCESSCTRL   *)
(* guards is out of reach of unprivileged code; and whatever ACCESSCTRL     *)
(* guards is out of reach of the Non-Secure world, though bus_filter_cfg()  *)
(* had left it open.                                                        *)
DevicesBound ==
    pc = "RUN" =>
      \A p \in DOMAIN boundary : \A a \in Given(p) : LastGiven(p, a) =>
        /\ a.reg # AC_DO_NOT_CONFIGURE => "SP" \in ac[a.reg] /\ "NSP" \notin ac[a.reg]
        /\ IF Privileged(p) THEN a.reg # AC_DO_NOT_CONFIGURE => ~UnprivMay(a)
           ELSE UnprivMay(a)

(* tfm_hal_isolation_rp2350.c: "SPM compares the handle between partitions  *)
(* to know if boundary update is necessary".  Though switches are left out, *)
(* the partition that runs always has the privilege of its own handle.      *)
RunningPrivilege == pc = "RUN" => (nPRIV <=> ~BoundaryOf(running).priv)

(* A buffer that passes the check is accessible in full, not only at its    *)
(* ends: to an unprivileged partition with the access it asked for, and to  *)
(* the Non-Secure caller the agent speaks for, at that caller's privilege.  *)
Accesses == {{"READ"}, {"READ", "WRITE"}, {"READ", "NS"}, {"READ", "WRITE", "NS"}, {"WRITE"}}
MemoryCheckSound ==
    pc = "RUN" =>
      \A p \in DOMAIN boundary : \A first, last \in CheckAddr, access \in Accesses, nsNPRIV \in BOOLEAN :
        /\ ~boundary[p].priv \/ FlagNs(boundary[p], access)
        /\ MemoryCheck(boundary[p], first, last + 1 - first, access, nsNPRIV) = "SUCCESS"
        /\ first <= last
        => \A a \in Addr : Between(first, a, last) =>
             IF boundary[p].ns THEN NsMay(nsNPRIV, a)
             ELSE IF "NS" \in access THEN Attr(a) = "NS"
             ELSE MpuMay(FALSE, a, "WRITE" \in access)
=============================================================================
