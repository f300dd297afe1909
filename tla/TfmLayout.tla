----------------------------- MODULE TfmLayout ------------------------------
(***************************************************************************)
(* reference/flash_layout.h and reference/region_defs.h of the TF-M port:  *)
(* where everything lies in flash and RAM, as a function of the build.     *)
(*                                                                         *)
(* A state is a build that the preprocessor accepts; a step changes some   *)
(* of its settings, and one that runs into an #error does not happen.      *)
(* Sizes and addresses are in granules of 32 bytes, the SAU's.             *)
(***************************************************************************)
EXTENDS Naturals

CONSTANTS
    SECTOR,                     \* FLASH_AREA_IMAGE_SECTOR_SIZE
    FLASH_TOTAL_SIZE, FLASH_AREA_BL2_SIZE, FLASH_AREA_SCRATCH_SIZE,
    XIP_BASE, SRAM0_BASE, SRAM4_BASE, SRAM_SCRATCH_X_BASE,
    S_DATA_OVERALL_SIZE, NS_DATA_OVERALL_SIZE, SCRATCH_X_SIZE, SCRATCH_Y_SIZE,
    BOOT_TFM_SHARED_DATA_SIZE,
    Shipped,                    \* the build of the documents
    Images, Partitions, Frames, Storages, Bundles   \* bounds: the settings tried

(* A build: whether there is a bootloader (BL2) and how many images it      *)
(* updates, whether the link is for the secondary slot, whether there is a  *)
(* Non-Secure image, and sizes: of the two partitions, of what the          *)
(* bootloader puts before and behind an image, of the three storage areas,  *)
(* of the provisioning bundle.                                              *)
Build == [bl2 : BOOLEAN, images : Nat, secondary : BOOLEAN, loadNs : BOOLEAN,
          s : Nat \ {0}, ns : Nat \ {0}, header : Nat, trailer : Nat,
          ps : Nat, its : Nat, nv : Nat, bundle : Nat]

VARIABLE build

-----------------------------------------------------------------------------
(* flash_layout.h: areas, one behind the other. *)

Area(off, size) == [off |-> off, size |-> size]
End(a)          == a.off + a.size
Apart(a, b)     == End(a) <= b.off \/ End(b) <= a.off

FLASH_AREA_BL2  == Area(0, FLASH_AREA_BL2_SIZE)
SlotSize(b)     == IF b.images = 1 THEN b.s + b.ns ELSE b.s

FLASH_AREA_0(b) == Area(End(FLASH_AREA_BL2), SlotSize(b))
FLASH_AREA_1(b) == Area(End(FLASH_AREA_0(b)), b.ns)             \* two images only

(* Variant: the secondary slot starts behind the Secure primary one also    *)
(* when the Non-Secure image has a slot of its own.                         *)
FLASH_AREA_2_Early(b) == Area(End(FLASH_AREA_0(b)), SlotSize(b))

FLASH_AREA_2(b) == Area(End(IF b.images = 1 THEN FLASH_AREA_0(b) ELSE FLASH_AREA_1(b)), SlotSize(b))
FLASH_AREA_3(b) == Area(End(FLASH_AREA_2(b)), b.ns)             \* two images only

FLASH_AREA_SCRATCH(b) ==
    Area(End(IF b.images = 1 THEN FLASH_AREA_2(b) ELSE FLASH_AREA_3(b)), FLASH_AREA_SCRATCH_SIZE)

FLASH_PS_AREA(b)              == Area(End(FLASH_AREA_SCRATCH(b)), b.ps)
FLASH_ITS_AREA(b)             == Area(End(FLASH_PS_AREA(b)), b.its)
FLASH_OTP_NV_COUNTERS_AREA(b) == Area(End(FLASH_ITS_AREA(b)), b.nv)
PROVISIONING_BUNDLE(b)        == Area(End(FLASH_OTP_NV_COUNTERS_AREA(b)), b.bundle)

(* The counters and their backup are the two halves of the area. *)
NvCounters(b) == Area(FLASH_OTP_NV_COUNTERS_AREA(b).off, b.nv \div 2)
NvBackup(b)   == Area(End(NvCounters(b)), b.nv \div 2)

WholeSectors(n) == n % SECTOR = 0

(* The #error checks of both headers. *)
InFlash(b)       == End(FLASH_OTP_NV_COUNTERS_AREA(b)) <= FLASH_TOTAL_SIZE
BundleInFlash(b) == End(PROVISIONING_BUNDLE(b)) <= FLASH_TOTAL_SIZE
PartitionsOK(b) == WholeSectors(b.s) /\ WholeSectors(b.ns)
StorageOK(size) == WholeSectors(size) /\ size \div SECTOR \notin {0, 1, 3}
NvOK(b)         == WholeSectors(b.nv) /\ b.nv >= 2 * SECTOR /\ (b.nv \div SECTOR) % 2 = 0

Accepted(b) ==
    /\ b.images \in {1, 2}
    /\ PartitionsOK(b) /\ StorageOK(b.ps) /\ StorageOK(b.its) /\ NvOK(b)
    /\ InFlash(b) /\ BundleInFlash(b)

(* assemble.py joins the two images for a common slot at this offset. *)
NON_SECURE_IMAGE_OFFSET(b) == b.s

-----------------------------------------------------------------------------
(* region_defs.h: what the linker scripts and target_cfg.c get. *)

(* The slots the images are linked for; without a bootloader the Secure     *)
(* image comes first, and the Non-Secure one stays where it was.            *)
LinkedSlot(b) == IF b.secondary THEN FLASH_AREA_2(b) ELSE FLASH_AREA_0(b)
OtherSlot(b)  == IF b.secondary THEN FLASH_AREA_0(b) ELSE FLASH_AREA_2(b)

S_IMAGE_PRIMARY_PARTITION_OFFSET(b)  == IF b.bl2 THEN LinkedSlot(b).off ELSE 0

(* Variant: the Non-Secure image does not follow to the secondary slot. *)
NsOffsetFixed(b) == FLASH_AREA_0(b).off + b.s

NS_IMAGE_PRIMARY_PARTITION_OFFSET(b) == LinkedSlot(b).off + b.s

(* Variant: a Secure image never leaves room for a trailer. *)
ImageSCodeSizeFull(b) == b.s - b.header

(* A Secure image with the Non-Secure one behind it, in one slot, has no    *)
(* trailer of its own.                                                      *)
IMAGE_S_CODE_SIZE(b) ==
    IF b.images = 1 /\ NS_IMAGE_PRIMARY_PARTITION_OFFSET(b) > S_IMAGE_PRIMARY_PARTITION_OFFSET(b)
    THEN b.s - b.header ELSE b.s - b.header - b.trailer
IMAGE_NS_CODE_SIZE(b) == b.ns - b.header - b.trailer

S_CODE(b)  == Area(XIP_BASE + S_IMAGE_PRIMARY_PARTITION_OFFSET(b) + b.header, IMAGE_S_CODE_SIZE(b))
NS_CODE(b) == Area(XIP_BASE + NS_IMAGE_PRIMARY_PARTITION_OFFSET(b) + b.header,
                   IF b.loadNs THEN IMAGE_NS_CODE_SIZE(b) ELSE 0)

(* SAU region 3 *)
NS_PARTITION(b) == Area(XIP_BASE + NS_IMAGE_PRIMARY_PARTITION_OFFSET(b), IF b.loadNs THEN b.ns ELSE 0)

(* With a bootloader: where it finds new images. *)
SECONDARY_PARTITION(b) == Area(XIP_BASE + OtherSlot(b).off, b.s + b.ns)

S_DATA          == Area(SRAM0_BASE, S_DATA_OVERALL_SIZE)
BOOT_TFM_SHARED == Area(S_DATA.off, BOOT_TFM_SHARED_DATA_SIZE)
SCRATCH_X       == Area(End(S_DATA), SCRATCH_X_SIZE)
SCRATCH_Y       == Area(End(SCRATCH_X), SCRATCH_Y_SIZE)
NS_DATA(b)      == Area(SRAM4_BASE, IF b.loadNs THEN NS_DATA_OVERALL_SIZE ELSE 0)

-----------------------------------------------------------------------------
(* What is left to the port: sizes no #error looks at. *)
ASSUME FlashAssumption ==
    /\ SECTOR \in Nat \ {0} /\ FLASH_TOTAL_SIZE \in Nat /\ XIP_BASE \in Nat
    /\ FLASH_AREA_BL2_SIZE \in Nat \ {0} /\ WholeSectors(FLASH_AREA_BL2_SIZE)
    /\ FLASH_AREA_SCRATCH_SIZE \in Nat \ {0} /\ WholeSectors(FLASH_AREA_SCRATCH_SIZE)
    /\ {SRAM0_BASE, SRAM4_BASE, SRAM_SCRATCH_X_BASE, S_DATA_OVERALL_SIZE, NS_DATA_OVERALL_SIZE,
        SCRATCH_X_SIZE, SCRATCH_Y_SIZE, BOOT_TFM_SHARED_DATA_SIZE} \subseteq Nat
    /\ BOOT_TFM_SHARED_DATA_SIZE <= S_DATA_OVERALL_SIZE
    /\ SRAM0_BASE + S_DATA_OVERALL_SIZE + SCRATCH_X_SIZE + SCRATCH_Y_SIZE <= SRAM4_BASE
    /\ SRAM4_BASE + NS_DATA_OVERALL_SIZE <= SRAM_SCRATCH_X_BASE
    /\ XIP_BASE + FLASH_TOTAL_SIZE <= SRAM0_BASE
    /\ Shipped \in Build /\ Accepted(Shipped)
    /\ Images \subseteq Nat /\ Bundles \subseteq Nat
    /\ Partitions \subseteq (Nat \ {0}) \X (Nat \ {0})
    /\ Frames \subseteq Nat \X Nat /\ Storages \subseteq Nat \X Nat \X Nat
    /\ \A p \in Partitions \cup {<<Shipped.s, Shipped.ns>>},
          f \in Frames \cup {<<Shipped.header, Shipped.trailer>>} :
         f[1] + f[2] < p[1] /\ f[1] + f[2] < p[2]

Init == build = Shipped

Rebuild(b) == Accepted(b) /\ build' = b

SetBootloader == \E on \in BOOLEAN, n \in Images, second \in BOOLEAN, f \in Frames :
    Rebuild([build EXCEPT !.bl2 = on, !.images = n, !.secondary = second,
                          !.header = f[1], !.trailer = f[2]])
SetNonSecure  == \E on \in BOOLEAN : Rebuild([build EXCEPT !.loadNs = on])
SetPartitions == \E p \in Partitions : Rebuild([build EXCEPT !.s = p[1], !.ns = p[2]])
SetStorage    == \E a \in Storages :
    Rebuild([build EXCEPT !.ps = a[1], !.its = a[2], !.nv = a[3]])
SetBundle     == \E n \in Bundles : Rebuild([build EXCEPT !.bundle = n])

Next == SetBootloader \/ SetNonSecure \/ SetPartitions \/ SetStorage \/ SetBundle

Spec == Init /\ [][Next]_build

-----------------------------------------------------------------------------
(* Properties *)

(* What lies in flash, by name; the slots and the scratch area are only     *)
(* there with a bootloader.                                                 *)
AreaNames(b) ==
    {"PS", "ITS", "NV", "bundle"}
      \cup (IF b.bl2 THEN {"BL2", "slot0", "slot2", "scratch"} ELSE {})
      \cup (IF b.bl2 /\ b.images = 2 THEN {"slot1", "slot3"} ELSE {})
AreaOf(b) ==
    [BL2 |-> FLASH_AREA_BL2, slot0 |-> FLASH_AREA_0(b), slot1 |-> FLASH_AREA_1(b),
     slot2 |-> FLASH_AREA_2(b), slot3 |-> FLASH_AREA_3(b), scratch |-> FLASH_AREA_SCRATCH(b),
     PS |-> FLASH_PS_AREA(b), ITS |-> FLASH_ITS_AREA(b), NV |-> FLASH_OTP_NV_COUNTERS_AREA(b),
     bundle |-> PROVISIONING_BUNDLE(b)]

(* The counters and their backup are one or more sectors each.              *)
BackupOfItsOwn ==
    /\ NvCounters(build).size > 0 /\ End(NvBackup(build)) = End(FLASH_OTP_NV_COUNTERS_AREA(build))
    /\ WholeSectors(NvCounters(build).off) /\ WholeSectors(NvBackup(build).off)

(* In every build that compiles, no two areas share a byte, all are in      *)
(* flash, and each begins with a sector: erasing one spares the others.     *)
(* And a crash while one copy of the NV counters is erased leaves the other.*)
AreasApart ==
    /\ \A m, n \in AreaNames(build) :
         /\ m # n => Apart(AreaOf(build)[m], AreaOf(build)[n])
         /\ End(AreaOf(build)[n]) <= FLASH_TOTAL_SIZE /\ WholeSectors(AreaOf(build)[n].off)
    /\ BackupOfItsOwn

(* The slot of the Non-Secure image, and the last one of an update. *)
NsSlot(b)   == IF b.images = 1 THEN LinkedSlot(b)
               ELSE IF b.secondary THEN FLASH_AREA_3(b) ELSE FLASH_AREA_1(b)
LastSlot(b) == IF b.images = 1 THEN OtherSlot(b)
               ELSE IF b.secondary THEN FLASH_AREA_1(b) ELSE FLASH_AREA_3(b)

(* What the linker scripts place is where the bootloader, and assemble.py   *)
(* for a common slot, have it, and spares the header and the trailer; the   *)
(* secondary partition is the other slots and nothing more.  An image of    *)
(* any accepted build has room for code.                                    *)
Holds(slot, code) ==
    /\ XIP_BASE + slot.off + build.header <= code.off
    /\ End(code) + build.trailer <= XIP_BASE + End(slot)
ImagesFit ==
    /\ IMAGE_S_CODE_SIZE(build) > 0 /\ IMAGE_NS_CODE_SIZE(build) > 0
    /\ build.bl2 =>
         /\ Holds(LinkedSlot(build), S_CODE(build))
         /\ build.loadNs => Holds(NsSlot(build), NS_CODE(build))
         /\ build.images = 1 => NS_PARTITION(build).off =
                                 XIP_BASE + LinkedSlot(build).off + NON_SECURE_IMAGE_OFFSET(build)
         /\ End(SECONDARY_PARTITION(build)) = XIP_BASE + End(LastSlot(build))

(* SAU regions 3 and 4, the Non-Secure partition and all from SRAM4 on,     *)
(* hold nothing of the Secure image, of the bootloader, of the storage or   *)
(* of the slot an update is put in.                                         *)
InFlashMap(a) == Area(XIP_BASE + a.off, a.size)
OnlyNonSecureOpens ==
    /\ Apart(S_CODE(build), NS_PARTITION(build))
    /\ \A n \in AreaNames(build) : AreaOf(build)[n] # NsSlot(build) =>
         Apart(InFlashMap(AreaOf(build)[n]), NS_PARTITION(build))
    /\ \A r \in {S_DATA, BOOT_TFM_SHARED, SCRATCH_X, SCRATCH_Y, S_CODE(build)} : End(r) <= SRAM4_BASE
    /\ End(NS_DATA(build)) <= SRAM_SCRATCH_X_BASE
=============================================================================
