---------------------------- MODULE Attribution -----------------------------
(***************************************************************************)
(* The two units of the RP2350 that divide its memory map between the      *)
(* Secure and the Non-Secure world, as functions of their registers: the   *)
(* SAU, which attributes every CPU access, and the MPU of the DMA.         *)
(*                                                                         *)
(* An address is the number of its 32-byte granule.  Both units ignore the *)
(* low five bits of the bounds they are given (the code masks them off     *)
(* with ~0x1F), so a granule is the finest thing either can tell apart,    *)
(* and a LIMIT, the last byte of a range, is the number of its last        *)
(* granule.                                                                *)
(***************************************************************************)
EXTENDS Integers

CONSTANT PPB_BASE       \* 0xE0000000, the core's own registers

Between(first, a, last) == first <= a /\ a <= last

(* A region register pair, RBAR and RLAR of the SAU, BAR and LAR of the DMA *)
(* MPU.  The SAU's RLAR also holds the NSC bit; no region of the DMA MPU is *)
(* ever given its S bit by this code, so a match there means Non-Secure.    *)

RegionIndex == 0..7
Region      == [base : Nat, limit : Int, en : BOOLEAN, nsc : BOOLEAN]
Off         == [base |-> 0, limit |-> 0, en |-> FALSE, nsc |-> FALSE]
Open(first, last)     == [base |-> first, limit |-> last, en |-> TRUE, nsc |-> FALSE]
Callable(first, last) == [base |-> first, limit |-> last, en |-> TRUE, nsc |-> TRUE]

Hit(r, a) == r.en /\ Between(r.base, a, r.limit)

(* The SAU (ARMv8-M; the IDAU of the RP2350 is Secure everywhere, as        *)
(* tz_config.c says): Secure when no region or more than one matches, and   *)
(* everywhere while it is off, since ALLNS stays 0.  The PPB is exempt.     *)
SauAttr(on, rgn, a) ==
    IF a >= PPB_BASE THEN "exempt"
    ELSE IF on /\ \E i \in RegionIndex :
                     /\ Hit(rgn[i], a)
                     /\ \A j \in RegionIndex \ {i} : ~Hit(rgn[j], a)
         THEN IF \E i \in RegionIndex : Hit(rgn[i], a) /\ rgn[i].nsc
              THEN "NSC" ELSE "NS"
         ELSE "S"

(* The DMA MPU: what a Non-Secure channel may move.  Outside every region   *)
(* the S bit of mpu_ctrl decides.                                           *)
DmaNsMay(secureDefault, rgn, a) ==
    (\E i \in RegionIndex : Hit(rgn[i], a)) \/ ~secureDefault
=============================================================================
