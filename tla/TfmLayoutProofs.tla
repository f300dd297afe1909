-------------------------- MODULE TfmLayoutProofs --------------------------
(***************************************************************************)
(* The layout headers, proved for every flash size, sector size and choice *)
(* of sizes that their checks accept.                                      *)
(***************************************************************************)
EXTENDS TfmLayout, TLAPS

(* Whole sectors add up, and an even number of them has halves. *)
LEMMA SectorsAre ==
  ASSUME NEW n \in Nat, WholeSectors(n)
  PROVE  n = SECTOR * (n \div SECTOR) /\ n \div SECTOR \in Nat
<1>1. SECTOR \in Nat /\ SECTOR > 0
  BY FlashAssumption
<1> QED
  BY <1>1 DEF WholeSectors

LEMMA MultiplesAreWhole ==
  ASSUME NEW k \in Nat
  PROVE  WholeSectors(SECTOR * k)
<1>1. SECTOR \in Nat /\ SECTOR > 0
  BY FlashAssumption
<1> QED
  BY <1>1 DEF WholeSectors

LEMMA SumIsWhole ==
  ASSUME NEW m \in Nat, NEW n \in Nat, WholeSectors(m), WholeSectors(n)
  PROVE  WholeSectors(m + n)
<1>1. PICK j \in Nat, k \in Nat : m = SECTOR * j /\ n = SECTOR * k
  BY SectorsAre
<1>2. SECTOR * j + SECTOR * k = SECTOR * (j + k)
  BY FlashAssumption
<1> QED
  BY <1>1, <1>2, MultiplesAreWhole

LEMMA HalvesAreWhole ==
  ASSUME NEW n \in Nat, WholeSectors(n), (n \div SECTOR) % 2 = 0
  PROVE  WholeSectors(n \div 2) /\ n = 2 * (n \div 2)
<1>1. PICK k \in Nat : n = SECTOR * k /\ k % 2 = 0
  BY SectorsAre
<1>2. PICK j \in Nat : k = 2 * j
  BY <1>1
<1>3. n = 2 * (SECTOR * j) /\ SECTOR * j \in Nat
  BY <1>1, <1>2, FlashAssumption
<1>4. n \div 2 = SECTOR * j
  BY <1>3
<1> QED
  BY <1>3, <1>4, MultiplesAreWhole
-----------------------------------------------------------------------------
(* A build is reached by settings of the lists, the shipped one included,   *)
(* and compiles.                                                            *)
PartitionSizes == Partitions \cup {<<Shipped.s, Shipped.ns>>}
FrameSizes     == Frames \cup {<<Shipped.header, Shipped.trailer>>}

LayoutInv ==
    /\ build \in Build /\ Accepted(build)
    /\ <<build.s, build.ns>> \in PartitionSizes
    /\ <<build.header, build.trailer>> \in FrameSizes

LEMMA InitLayout == Init => LayoutInv
BY FlashAssumption DEF Init, LayoutInv, PartitionSizes, FrameSizes

LEMMA NextLayout == LayoutInv /\ [Next]_build => LayoutInv'
<1> SUFFICES ASSUME LayoutInv, [Next]_build PROVE LayoutInv'
  OBVIOUS
<1>1. CASE SetBootloader
  <2>1. PICK on \in BOOLEAN, n \in Images, second \in BOOLEAN, f \in Frames :
          Rebuild([build EXCEPT !.bl2 = on, !.images = n, !.secondary = second,
                                !.header = f[1], !.trailer = f[2]])
    BY <1>1 DEF SetBootloader
  <2>2. n \in Nat /\ f[1] \in Nat /\ f[2] \in Nat /\ f = <<f[1], f[2]>>
    BY FlashAssumption
  <2> QED
    BY <2>1, <2>2 DEF LayoutInv, Rebuild, Build, FrameSizes
<1>2. CASE SetNonSecure
  BY <1>2 DEF SetNonSecure, LayoutInv, Rebuild, Build
<1>3. CASE SetPartitions
  <2>1. PICK p \in Partitions : Rebuild([build EXCEPT !.s = p[1], !.ns = p[2]])
    BY <1>3 DEF SetPartitions
  <2>2. p[1] \in Nat \ {0} /\ p[2] \in Nat \ {0} /\ p = <<p[1], p[2]>>
    BY FlashAssumption
  <2> QED
    BY <2>1, <2>2 DEF LayoutInv, Rebuild, Build, PartitionSizes
<1>4. CASE SetStorage
  <2>1. PICK a \in Storages : Rebuild([build EXCEPT !.ps = a[1], !.its = a[2], !.nv = a[3]])
    BY <1>4 DEF SetStorage
  <2>2. a[1] \in Nat /\ a[2] \in Nat /\ a[3] \in Nat
    BY FlashAssumption
  <2> QED
    BY <2>1, <2>2 DEF LayoutInv, Rebuild, Build
<1>5. CASE SetBundle
  BY <1>5, FlashAssumption DEF SetBundle, LayoutInv, Rebuild, Build
<1>6. CASE UNCHANGED build
  BY <1>6 DEF LayoutInv
<1> QED
  BY <1>1, <1>2, <1>3, <1>4, <1>5, <1>6 DEF Next

THEOREM LayoutAlways == Spec => []LayoutInv
BY InitLayout, NextLayout, PTL DEF Spec

-----------------------------------------------------------------------------
(* Header and trailer leave room for code. *)
LEMMA FrameFits == LayoutInv => /\ build.header + build.trailer < build.s
                               /\ build.header + build.trailer < build.ns
<1> SUFFICES ASSUME LayoutInv PROVE /\ build.header + build.trailer < build.s
                                    /\ build.header + build.trailer < build.ns
  OBVIOUS
<1> DEFINE p == <<build.s, build.ns>>
           f == <<build.header, build.trailer>>
<1>1. p \in PartitionSizes /\ f \in FrameSizes
  BY DEF LayoutInv
<1>2. f[1] + f[2] < p[1] /\ f[1] + f[2] < p[2]
  BY <1>1, FlashAssumption DEF PartitionSizes, FrameSizes
<1> QED
  BY <1>2

-----------------------------------------------------------------------------
(* The areas lie in flash in the order in which the header defines them,    *)
(* each at the end of the one before.                                       *)
Whole(a) == /\ a.off \in Nat /\ a.size \in Nat /\ End(a) \in Nat
            /\ WholeSectors(a.off) /\ WholeSectors(End(a)) /\ a.off <= End(a)

LEMMA AreaIsWhole ==
  ASSUME NEW o \in Nat, NEW n \in Nat, WholeSectors(o), WholeSectors(n)
  PROVE  Whole(Area(o, n)) /\ Area(o, n).off = o /\ End(Area(o, n)) = o + n
BY SumIsWhole DEF Area, End, Whole

LEMMA NoneIsWhole == WholeSectors(0)
BY FlashAssumption DEF WholeSectors

LEMMA Chain ==
  ASSUME NEW b \in Build, Accepted(b)
  PROVE  /\ Whole(FLASH_AREA_BL2) /\ Whole(FLASH_AREA_0(b)) /\ Whole(FLASH_AREA_1(b))
         /\ Whole(FLASH_AREA_2(b)) /\ Whole(FLASH_AREA_3(b)) /\ Whole(FLASH_AREA_SCRATCH(b))
         /\ Whole(FLASH_PS_AREA(b)) /\ Whole(FLASH_ITS_AREA(b))
         /\ Whole(FLASH_OTP_NV_COUNTERS_AREA(b))
<1>1. /\ b.s \in Nat /\ b.ns \in Nat /\ WholeSectors(b.s) /\ WholeSectors(b.ns)
      /\ b.ps \in Nat /\ b.its \in Nat /\ b.nv \in Nat
      /\ WholeSectors(b.ps) /\ WholeSectors(b.its) /\ WholeSectors(b.nv)
  BY DEF Build, Accepted, PartitionsOK, StorageOK, NvOK
<1>2. SlotSize(b) \in Nat /\ WholeSectors(SlotSize(b))
  BY <1>1, SumIsWhole DEF SlotSize
<1>3. Whole(FLASH_AREA_BL2)
  BY FlashAssumption, NoneIsWhole, AreaIsWhole DEF FLASH_AREA_BL2
<1>4. Whole(FLASH_AREA_0(b))
  BY <1>2, <1>3, AreaIsWhole DEF FLASH_AREA_0, Whole
<1>5. Whole(FLASH_AREA_1(b))
  BY <1>1, <1>4, AreaIsWhole DEF FLASH_AREA_1, Whole
<1>6. Whole(FLASH_AREA_2(b))
  BY <1>2, <1>4, <1>5, AreaIsWhole DEF FLASH_AREA_2, Whole
<1>7. Whole(FLASH_AREA_3(b))
  BY <1>1, <1>6, AreaIsWhole DEF FLASH_AREA_3, Whole
<1>8. Whole(FLASH_AREA_SCRATCH(b))
  BY <1>6, <1>7, FlashAssumption, AreaIsWhole DEF FLASH_AREA_SCRATCH, Whole
<1>9. Whole(FLASH_PS_AREA(b))
  BY <1>1, <1>8, AreaIsWhole DEF FLASH_PS_AREA, Whole
<1>10. Whole(FLASH_ITS_AREA(b))
  BY <1>1, <1>9, AreaIsWhole DEF FLASH_ITS_AREA, Whole
<1>11. Whole(FLASH_OTP_NV_COUNTERS_AREA(b))
  BY <1>1, <1>10, AreaIsWhole DEF FLASH_OTP_NV_COUNTERS_AREA, Whole
<1> QED
  BY <1>3, <1>4, <1>5, <1>6, <1>7, <1>8, <1>9, <1>10, <1>11

LEMMA Order ==
  ASSUME NEW b \in Build, Accepted(b)
  PROVE  /\ FLASH_AREA_BL2.off = 0 /\ FLASH_AREA_0(b).off = End(FLASH_AREA_BL2)
         /\ FLASH_AREA_1(b).off = End(FLASH_AREA_0(b))
         /\ b.images = 1 => /\ FLASH_AREA_2(b).off = End(FLASH_AREA_0(b))
                            /\ FLASH_AREA_SCRATCH(b).off = End(FLASH_AREA_2(b))
         /\ b.images # 1 => /\ FLASH_AREA_2(b).off = End(FLASH_AREA_1(b))
                            /\ FLASH_AREA_SCRATCH(b).off = End(FLASH_AREA_3(b))
         /\ FLASH_AREA_3(b).off = End(FLASH_AREA_2(b))
         /\ FLASH_PS_AREA(b).off = End(FLASH_AREA_SCRATCH(b))
         /\ FLASH_ITS_AREA(b).off = End(FLASH_PS_AREA(b))
         /\ FLASH_OTP_NV_COUNTERS_AREA(b).off = End(FLASH_ITS_AREA(b))
         /\ PROVISIONING_BUNDLE(b).off = End(FLASH_OTP_NV_COUNTERS_AREA(b))
<1>1. \A o, n : Area(o, n).off = o
  BY DEF Area
<1> QED
  BY <1>1 DEF FLASH_AREA_BL2, FLASH_AREA_0, FLASH_AREA_1, FLASH_AREA_2, FLASH_AREA_3,
     FLASH_AREA_SCRATCH, FLASH_PS_AREA, FLASH_ITS_AREA, FLASH_OTP_NV_COUNTERS_AREA,
     PROVISIONING_BUNDLE

LEMMA BundleLast ==
  ASSUME NEW b \in Build, Accepted(b)
  PROVE  /\ End(PROVISIONING_BUNDLE(b)) \in Nat
         /\ End(FLASH_OTP_NV_COUNTERS_AREA(b)) <= End(PROVISIONING_BUNDLE(b))
         /\ End(PROVISIONING_BUNDLE(b)) <= FLASH_TOTAL_SIZE
<1>1. End(FLASH_OTP_NV_COUNTERS_AREA(b)) \in Nat /\ b.bundle \in Nat
  BY Chain DEF Whole, Build
<1>2. End(PROVISIONING_BUNDLE(b)) = End(FLASH_OTP_NV_COUNTERS_AREA(b)) + b.bundle
  BY DEF PROVISIONING_BUNDLE, Area, End
<1> QED
  BY <1>1, <1>2 DEF Accepted, BundleInFlash
-----------------------------------------------------------------------------
(* The same of the areas as a record. *)
LEMMA ChainOfAreas ==
  ASSUME NEW b \in Build, Accepted(b), NEW a, a = AreaOf(b)
  PROVE  /\ Whole(a.BL2) /\ Whole(a.slot0) /\ Whole(a.slot1) /\ Whole(a.slot2) /\ Whole(a.slot3)
         /\ Whole(a.scratch) /\ Whole(a.PS) /\ Whole(a.ITS) /\ Whole(a.NV)
         /\ a.BL2.off = 0 /\ a.slot0.off = End(a.BL2) /\ a.slot1.off = End(a.slot0)
         /\ b.images = 1 => a.slot2.off = End(a.slot0) /\ a.scratch.off = End(a.slot2)
         /\ b.images # 1 => a.slot2.off = End(a.slot1) /\ a.scratch.off = End(a.slot3)
         /\ a.slot3.off = End(a.slot2) /\ a.PS.off = End(a.scratch) /\ a.ITS.off = End(a.PS)
         /\ a.NV.off = End(a.ITS) /\ a.bundle.off = End(a.NV)
         /\ End(a.bundle) \in Nat /\ End(a.NV) <= End(a.bundle)
         /\ End(a.bundle) <= FLASH_TOTAL_SIZE
<1>1. /\ a.BL2 = FLASH_AREA_BL2 /\ a.slot0 = FLASH_AREA_0(b) /\ a.slot1 = FLASH_AREA_1(b)
      /\ a.slot2 = FLASH_AREA_2(b) /\ a.slot3 = FLASH_AREA_3(b)
      /\ a.scratch = FLASH_AREA_SCRATCH(b) /\ a.PS = FLASH_PS_AREA(b)
      /\ a.ITS = FLASH_ITS_AREA(b) /\ a.NV = FLASH_OTP_NV_COUNTERS_AREA(b)
      /\ a.bundle = PROVISIONING_BUNDLE(b)
  BY DEF AreaOf
<1> QED
  BY <1>1, Chain, Order, BundleLast

LEMMA BackupFollows == LayoutInv => BackupOfItsOwn
<1> SUFFICES ASSUME LayoutInv PROVE BackupOfItsOwn
  OBVIOUS
<1> DEFINE area == FLASH_OTP_NV_COUNTERS_AREA(build)
           half == build.nv \div 2
<1>1. build \in Build /\ Accepted(build) /\ build.nv \in Nat
  BY DEF LayoutInv, Build
<1>2. area.off \in Nat /\ WholeSectors(area.off) /\ area.size = build.nv
  BY <1>1, Chain DEF Whole, FLASH_OTP_NV_COUNTERS_AREA, Area
<1>3. WholeSectors(half) /\ build.nv = 2 * half /\ half \in Nat
  BY <1>1, HalvesAreWhole DEF Accepted, NvOK
<1>4. half > 0
  BY <1>1, <1>3, FlashAssumption DEF Accepted, NvOK
<1>5. WholeSectors(area.off + half)
  BY <1>2, <1>3, SumIsWhole
<1>6. /\ NvCounters(build).off = area.off /\ NvCounters(build).size = half
      /\ NvBackup(build).off = area.off + half /\ NvBackup(build).size = half
  BY DEF NvCounters, NvBackup, Area, End
<1> HIDE DEF area, half
<1>7. End(NvBackup(build)) = End(area)
  BY <1>2, <1>3, <1>6 DEF End
<1> QED
  BY <1>2, <1>4, <1>5, <1>6, <1>7 DEF BackupOfItsOwn, area

LEMMA ApartFollows == LayoutInv => AreasApart
<1> SUFFICES ASSUME LayoutInv PROVE AreasApart
  OBVIOUS
<1> DEFINE b == build
           a == AreaOf(b)
<1>1. b \in Build /\ Accepted(b) /\ b.images \in {1, 2} /\ FLASH_TOTAL_SIZE \in Nat
  BY FlashAssumption DEF LayoutInv, Accepted
<1> HIDE DEF a
<1>2. ASSUME NEW n \in AreaNames(b)
      PROVE  End(a[n]) <= FLASH_TOTAL_SIZE /\ WholeSectors(a[n].off)
  BY <1>1, ChainOfAreas DEF Whole, AreaNames, a
<1>3. ASSUME NEW m \in AreaNames(b), NEW n \in AreaNames(b), m # n
      PROVE  Apart(a[m], a[n])
  BY <1>1, <1>3, ChainOfAreas DEF Whole, AreaNames, Apart, a
<1> QED
  BY <1>2, <1>3, BackupFollows DEF AreasApart, a

(* No two areas of any accepted layout share a byte, all are in flash, each *)
(* begins with a sector, and the counters share none with their backup.     *)
THEOREM AreasAlwaysApart == Spec => []AreasApart
BY LayoutAlways, ApartFollows, PTL

-----------------------------------------------------------------------------
(* The two slots of an update, in numbers: the image is linked for one of   *)
(* them, the Secure partition is first in it, and the Non-Secure one ends   *)
(* where the slot, or the Non-Secure slot behind it, ends.                  *)
LEMMA SlotNumbers ==
  ASSUME LayoutInv
  PROVE  /\ build.s \in Nat /\ build.ns \in Nat /\ build.header \in Nat /\ build.trailer \in Nat
         /\ XIP_BASE \in Nat
         /\ LinkedSlot(build).off \in Nat /\ OtherSlot(build).off \in Nat
         /\ build.images = 1 =>
              /\ NsSlot(build) = LinkedSlot(build) /\ LastSlot(build) = OtherSlot(build)
              /\ End(LinkedSlot(build)) = LinkedSlot(build).off + (build.s + build.ns)
              /\ End(OtherSlot(build)) = OtherSlot(build).off + (build.s + build.ns)
         /\ build.images # 1 =>
              /\ End(LinkedSlot(build)) = LinkedSlot(build).off + build.s
              /\ NsSlot(build).off = End(LinkedSlot(build))
              /\ End(NsSlot(build)) = LinkedSlot(build).off + (build.s + build.ns)
              /\ End(LastSlot(build)) = OtherSlot(build).off + (build.s + build.ns)
<1>1. build \in Build /\ Accepted(build) /\ build.images \in {1, 2}
  BY DEF LayoutInv, Accepted
<1>2. /\ build.s \in Nat /\ build.ns \in Nat /\ build.header \in Nat /\ build.trailer \in Nat
      /\ XIP_BASE \in Nat
  BY <1>1, FlashAssumption DEF Build
<1>3. \A o, n : Area(o, n).off = o /\ Area(o, n).size = n
  BY DEF Area
<1>4. /\ FLASH_AREA_0(build).off \in Nat /\ FLASH_AREA_2(build).off \in Nat
  BY <1>1, Chain DEF Whole
<1>5. /\ FLASH_AREA_0(build).size = SlotSize(build) /\ FLASH_AREA_2(build).size = SlotSize(build)
      /\ FLASH_AREA_1(build).size = build.ns /\ FLASH_AREA_3(build).size = build.ns
  BY <1>3 DEF FLASH_AREA_0, FLASH_AREA_1, FLASH_AREA_2, FLASH_AREA_3
<1>6. /\ FLASH_AREA_1(build).off = End(FLASH_AREA_0(build))
      /\ FLASH_AREA_3(build).off = End(FLASH_AREA_2(build))
  BY <1>1, Order
<1>7. CASE build.images = 1
  BY <1>2, <1>4, <1>5, <1>7 DEF LinkedSlot, OtherSlot, NsSlot, LastSlot, SlotSize, End
<1>8. CASE build.images # 1
  BY <1>2, <1>4, <1>5, <1>6, <1>8 DEF LinkedSlot, OtherSlot, NsSlot, LastSlot, SlotSize, End
<1> QED
  BY <1>7, <1>8

LEMMA RoomForCode == LayoutInv => IMAGE_S_CODE_SIZE(build) > 0 /\ IMAGE_NS_CODE_SIZE(build) > 0
BY FrameFits DEF LayoutInv, Build, IMAGE_S_CODE_SIZE, IMAGE_NS_CODE_SIZE

LEMMA FitFollows == LayoutInv => ImagesFit
<1> SUFFICES ASSUME LayoutInv, build.bl2 PROVE ImagesFit
  BY RoomForCode DEF ImagesFit
<1> DEFINE l == LinkedSlot(build).off
           both == l + (build.s + build.ns)
<1>1. /\ build.s \in Nat /\ build.ns \in Nat /\ build.header \in Nat /\ build.trailer \in Nat
      /\ XIP_BASE \in Nat /\ l \in Nat /\ OtherSlot(build).off \in Nat
  BY SlotNumbers
<1>2. /\ build.header + build.trailer < build.s /\ build.header + build.trailer < build.ns
  BY FrameFits
<1>3. \A o, n : Area(o, n).off = o /\ End(Area(o, n)) = o + n
  BY DEF Area, End
<1>4. /\ S_CODE(build).off = XIP_BASE + l + build.header
      /\ End(S_CODE(build)) = XIP_BASE + l + build.header + IMAGE_S_CODE_SIZE(build)
  BY <1>3 DEF S_CODE, S_IMAGE_PRIMARY_PARTITION_OFFSET
<1>5. /\ build.images # 1 => IMAGE_S_CODE_SIZE(build) = build.s - build.header - build.trailer
      /\ IMAGE_S_CODE_SIZE(build) \in {build.s - build.header, build.s - build.header - build.trailer}
  BY DEF IMAGE_S_CODE_SIZE
<1>6. Holds(LinkedSlot(build), S_CODE(build))
  <2>1. CASE build.images = 1
    <3>1. End(LinkedSlot(build)) = l + (build.s + build.ns)
      BY <2>1, SlotNumbers
    <3> HIDE DEF l
    <3> QED
      BY <3>1, <1>1, <1>2, <1>4, <1>5 DEF Holds, l
  <2>2. CASE build.images # 1
    <3>1. End(LinkedSlot(build)) = l + build.s
      BY <2>2, SlotNumbers
    <3> QED
      BY <2>2, <3>1, <1>1, <1>2, <1>4, <1>5 DEF Holds
  <2> QED
    BY <2>1, <2>2
<1>7. ASSUME build.loadNs PROVE Holds(NsSlot(build), NS_CODE(build))
  <2>1. /\ NS_CODE(build).off = XIP_BASE + (l + build.s) + build.header
        /\ End(NS_CODE(build)) = XIP_BASE + (l + build.s) + build.header
                                  + (build.ns - build.header - build.trailer)
    BY <1>3, <1>7 DEF NS_CODE, NS_IMAGE_PRIMARY_PARTITION_OFFSET, IMAGE_NS_CODE_SIZE
  <2>2. /\ End(NsSlot(build)) = l + (build.s + build.ns)
        /\ NsSlot(build).off \in {l, l + build.s}
    BY SlotNumbers
  <2> HIDE DEF l
  <2> QED
    BY <1>1, <1>2, <2>1, <2>2 DEF Holds
<1>8. NS_PARTITION(build).off = XIP_BASE + l + NON_SECURE_IMAGE_OFFSET(build)
  BY <1>1, <1>3 DEF NS_PARTITION, NS_IMAGE_PRIMARY_PARTITION_OFFSET, NON_SECURE_IMAGE_OFFSET
<1>9. End(SECONDARY_PARTITION(build)) = XIP_BASE + End(LastSlot(build))
  <2>1. End(LastSlot(build)) = OtherSlot(build).off + (build.s + build.ns)
    BY SlotNumbers
  <2>2. End(SECONDARY_PARTITION(build)) = (XIP_BASE + OtherSlot(build).off) + (build.s + build.ns)
    BY <1>3 DEF SECONDARY_PARTITION
  <2> QED
    BY <1>1, <2>1, <2>2
<1> QED
  BY <1>6, <1>7, <1>8, <1>9, RoomForCode DEF ImagesFit

(* Every image that a bootloader starts is linked for where the bootloader  *)
(* has it, and clear of header and trailer, in every accepted layout.       *)
THEOREM ImagesAlwaysFit == Spec => []ImagesFit
BY LayoutAlways, FitFollows, PTL

-----------------------------------------------------------------------------
LEMMA OpensFollows == LayoutInv => OnlyNonSecureOpens
<1> SUFFICES ASSUME LayoutInv PROVE OnlyNonSecureOpens
  OBVIOUS
<1> DEFINE b == build
           a == AreaOf(b)
           l == LinkedSlot(b).off
           slot == NsSlot(b)
<1>1. b \in Build /\ Accepted(b) /\ b.images \in {1, 2}
  BY DEF LayoutInv, Accepted
<1>2. /\ b.s \in Nat /\ b.ns \in Nat /\ b.header \in Nat /\ b.trailer \in Nat /\ XIP_BASE \in Nat
      /\ l \in Nat /\ b.header + b.trailer < b.s
  BY SlotNumbers, FrameFits
<1>3. \A o, n : Area(o, n).off = o /\ End(Area(o, n)) = o + n
  BY DEF Area, End
<1>4. /\ NS_PARTITION(b).off = XIP_BASE + (l + b.s)
      /\ End(NS_PARTITION(b)) \in {XIP_BASE + (l + b.s), XIP_BASE + (l + b.s) + b.ns}
  <2>1. XIP_BASE + (l + b.s) + 0 = XIP_BASE + (l + b.s)
    BY <1>2
  <2> QED
    BY <1>3, <2>1 DEF NS_PARTITION, NS_IMAGE_PRIMARY_PARTITION_OFFSET
<1>5. /\ End(slot) = l + (b.s + b.ns) /\ slot.off \in {l, l + b.s}
  BY SlotNumbers
<1>6. End(S_CODE(b)) <= XIP_BASE + (l + b.s) /\ End(S_CODE(b)) \in Nat
  <2>1. IMAGE_S_CODE_SIZE(b) \in {b.s - b.header, b.s - b.header - b.trailer}
    BY DEF IMAGE_S_CODE_SIZE
  <2>2. /\ S_IMAGE_PRIMARY_PARTITION_OFFSET(b) \in {0, l}
        /\ End(S_CODE(b)) = XIP_BASE + S_IMAGE_PRIMARY_PARTITION_OFFSET(b) + b.header
                            + IMAGE_S_CODE_SIZE(b)
    BY <1>3 DEF S_CODE, S_IMAGE_PRIMARY_PARTITION_OFFSET
  <2> HIDE DEF l, b
  <2> QED
    BY <1>2, <2>1, <2>2
<1>7. Apart(S_CODE(b), NS_PARTITION(b))
  BY <1>4, <1>6 DEF Apart
<1>8. slot \in {a.slot0, a.slot1, a.slot2, a.slot3} /\ (b.images = 1 => slot \in {a.slot0, a.slot2})
      /\ End(slot) <= End(a.scratch) /\ End(a.scratch) \in Nat /\ End(a.scratch) <= FLASH_TOTAL_SIZE
  <2>1. slot \in {a.slot0, a.slot1, a.slot2, a.slot3} /\ (b.images = 1 => slot \in {a.slot0, a.slot2})
    BY DEF NsSlot, LinkedSlot, AreaOf
  <2> HIDE DEF a, slot
  <2> QED
    BY <1>1, <2>1, ChainOfAreas, FlashAssumption DEF Whole, a
<1>9. ASSUME NEW n \in AreaNames(b), a[n] # slot
      PROVE  Apart(a[n], slot)
  <2> HIDE DEF a, slot
  <2> QED
    BY <1>1, <1>8, <1>9, ChainOfAreas DEF Whole, AreaNames, Apart, a
<1>10. ASSUME NEW n \in AreaNames(b), a[n] # slot
       PROVE  Apart(InFlashMap(a[n]), NS_PARTITION(b))
  <2>1. Apart(a[n], slot)
    BY <1>9, <1>10
  <2>2. InFlashMap(a[n]).off = XIP_BASE + a[n].off /\ End(InFlashMap(a[n])) = XIP_BASE + a[n].off + a[n].size
    BY <1>3 DEF InFlashMap
  <2>3. a[n].off \in Nat /\ a[n].size \in Nat
    <3>1. /\ a.bundle.off \in Nat /\ a.bundle.size \in Nat
      BY <1>1, Order, Chain DEF AreaOf, Whole, PROVISIONING_BUNDLE, Area, Build
    <3> HIDE DEF a
    <3> QED
      BY <1>1, <3>1, ChainOfAreas DEF Whole, AreaNames, a
  <2> HIDE DEF a, slot, l, b
  <2> QED
    BY <1>2, <1>4, <1>5, <2>1, <2>2, <2>3 DEF Apart, End
<1>11. \A r \in {S_DATA, BOOT_TFM_SHARED, SCRATCH_X, SCRATCH_Y, S_CODE(b)} : End(r) <= SRAM4_BASE
  <2>1. End(S_DATA) <= SRAM4_BASE /\ End(BOOT_TFM_SHARED) <= SRAM4_BASE
        /\ End(SCRATCH_X) <= SRAM4_BASE /\ End(SCRATCH_Y) <= SRAM4_BASE
    BY FlashAssumption DEF S_DATA, BOOT_TFM_SHARED, SCRATCH_X, SCRATCH_Y, Area, End
  <2>2. XIP_BASE + FLASH_TOTAL_SIZE <= SRAM4_BASE /\ SRAM4_BASE \in Nat /\ FLASH_TOTAL_SIZE \in Nat
    BY FlashAssumption
  <2>3. End(S_CODE(b)) <= SRAM4_BASE
    <3> HIDE DEF a, slot, l, b
    <3> QED
      BY <1>2, <1>5, <1>6, <1>8, <2>2
  <2> QED
    BY <2>1, <2>3
<1>12. End(NS_DATA(b)) <= SRAM_SCRATCH_X_BASE
  BY FlashAssumption DEF NS_DATA, Area, End
<1> QED
  BY <1>7, <1>10, <1>11, <1>12 DEF OnlyNonSecureOpens

(* Behind the two regions that the SAU opens there is nothing of the Secure *)
(* image, the bootloader, the storage or the update slot, in every accepted *)
(* layout.                                                                  *)
THEOREM OnlyNonSecureAlwaysOpens == Spec => []OnlyNonSecureOpens
BY LayoutAlways, OpensFollows, PTL

=============================================================================
