-------------------------- MODULE MinimalPmpProofs --------------------------
(***************************************************************************)
(* Proofs about MinimalPmp, for every placement of the stacks and of the   *)
(* two objects, every power-on content, form of the self-test's load and   *)
(* number of resets.                                                       *)
(***************************************************************************)
EXTENDS MinimalPmp, TLAPS

(* The instruction of main() or of the U-mode program that runs, was        *)
(* interrupted, or is resumed next: what has happened so far depends on it. *)
Point == IF pc \in TrapPc THEN csr.mepc ELSE pc

Trapping == {"XH3_LOAD", "U_CNT1", "U_CNT2", "U_SIGN", "U_READ"}
Resumed  == {"XH3_AFTER", "U_CNT1_SW", "U_CNT2_SW", "U_SIGN0"}

(* The program from an instruction on: what each store leaves behind. *)
FromBad      == {"U_BAD0", "U_READ"}
FromCnt2     == {"U_FILL", "U_SIGN", "U_SIGN0"} \cup FromBad
FromCnt1     == {"U_CNT2", "U_CNT2_SW"} \cup FromCnt2
FromUp       == {"U_CNT1", "U_CNT1_SW"} \cup FromCnt1
FromA11      == {"DROP", "U_UP"} \cup FromUp
FromRead     == {"SET_STAGE", "A11"} \cup FromA11
FromRecovery == {"XH3_AFTER"} \cup FromRead
FromBefore   == {"RESTRICT", "XH3_LOAD"} \cup FromRecovery
FromMagic    == {"PROT", "VECTOR", "PMP", "XH3_BEFORE"} \cup FromBefore

DataOK ==
    /\ csr \in [mscratch : Int, mtvec : {"sdk", "trap_entry"}, mepc : MainPc \cup UPc,
                mcause : Int, mpp : {"M", "U"}, cfgm0 : SUBSET {0}]
    /\ regs \in [Reg -> Int] /\ before.regs \in [Reg -> Int]
    /\ saved \in [at : Int, regs : [FrameRegs -> Int]]
    /\ g_mb \in [MbField -> Int] /\ g_prot \in [secret : Int, counter : 0..2]

CauseAt(p) == IF p \in {"XH3_LOAD", "XH3_AFTER", "U_READ"} THEN LOAD_FAULT ELSE U_ECALL

(* No access but the two that are meant to trap does, so that only five     *)
(* instructions are ever interrupted, and the last of them for good.        *)
PlaceOK ==
    /\ pc \in (MainPc \cup UPc \cup TrapPc) \ {"U_SPIN"} /\ idx \in 0..12
    /\ mode = (IF pc \in UPc THEN "U" ELSE "M")
    /\ pc = "ZERO" => idx # 0
    /\ pc \in {"SWAP", "SAVE", "DISPATCH"} => csr.mepc \in Trapping
    /\ pc \in {"RESTORE", "SWAP_BACK", "MRET"} => csr.mepc \in Resumed
    /\ pc = "HALT" => csr.mepc = "U_READ"
    /\ pc = "DISPATCH" => idx = 0 \/ (idx \in {1, 2} /\ csr.mepc = "U_READ")
    /\ pc \in TrapPc => /\ csr.mcause = CauseAt(csr.mepc)
                        /\ csr.mpp = (IF csr.mepc \in UPc THEN "U" ELSE "M")

FinalPmp ==
    [i \in 0..1 |-> IF i = 0 THEN [addr |-> "prot", on |-> TRUE, rwx |-> FALSE]
                             ELSE [addr |-> "all", on |-> TRUE, rwx |-> TRUE]]

UnitsOK ==
    /\ csr.mtvec = (IF Point \in {"ZERO", "MAGIC", "PROT", "VECTOR"} THEN "sdk" ELSE "trap_entry")
    /\ pmp = (IF Point \in {"XH3_BEFORE"} \cup FromBefore THEN FinalPmp ELSE ResetPmp)
    /\ csr.cfgm0 = (IF Point = "XH3_LOAD" THEN {0} ELSE {})
    /\ g_stage = (IF Point = "XH3_LOAD" THEN "xh3" ELSE IF Point \in FromRecovery THEN "u" ELSE "none")
    /\ Point \in {"VECTOR", "PMP", "XH3_BEFORE"} \cup FromBefore => g_prot.secret = SECRET
    /\ g_prot.counter = (IF Point \in {"U_CNT1_SW", "U_CNT2"} THEN 1
                         ELSE IF Point \in {"U_CNT2_SW"} \cup FromCnt2 THEN 2 ELSE 0)
    /\ challenge = (IF Point = "U_SIGN" THEN "plain"
                    ELSE IF Point \in {"U_SIGN0"} \cup FromBad THEN "keyed" ELSE "zero")

AnsweredA0 == pc \in TrapPc /\ csr.mcause = U_ECALL

(* The interrupted registers: in place, in the frame, or in both. *)
RegsOK ==
    /\ StacksApart
    /\ pc \notin HandlerPc => regs["sp"] = MAIN_SP
    /\ pc \in {"SAVE", "SWAP_BACK"} => regs["sp"] = TRAP_TOP
    /\ pc \in {"DISPATCH", "RESTORE", "HALT"} =>
         /\ saved.at = TRAP_TOP - 64 /\ regs["sp"] = TRAP_TOP - 64 /\ regs["s0"] = before.regs["s0"]
         /\ \A r \in FrameRegs : \/ saved.regs[r] = before.regs[r]
                                 \/ r = "a0" /\ pc = "RESTORE" /\ csr.mcause = U_ECALL
    /\ pc \in TrapPc => before.regs["sp"] = MAIN_SP
    /\ pc \in {"SWAP", "SAVE"} => \A r \in Reg \ {"sp"} : regs[r] = before.regs[r]
    /\ pc \in {"SWAP_BACK", "MRET"} =>
         \A r \in Reg \ {"sp"} : regs[r] = before.regs[r] \/ (r = "a0" /\ csr.mcause = U_ECALL)

(* What an ecall asks for, and what it has got. *)
CallsOK ==
    /\ pc \in {"SWAP", "SAVE", "DISPATCH"} =>
         /\ csr.mepc \in {"U_CNT1", "U_CNT2"} => before.regs["a7"] = GET_COUNTER
         /\ csr.mepc = "U_SIGN" => /\ before.regs["a7"] = SIGN
                                   /\ before.regs["a0"] = CHALLENGE /\ before.regs["a1"] = 16
    /\ Point \in {"U_CNT1_SW", "U_CNT2_SW"} =>
         IF pc = "RESTORE" THEN saved.regs["a0"] = g_prot.counter ELSE regs["a0"] = g_prot.counter

MailboxAt ==
    /\ pc = "ZERO" => \A i \in 1..12 : i < idx => g_mb[MbOrder[i]] = 0
    /\ pc = "MAGIC" => \A f \in MbField : g_mb[f] = 0
    /\ Point \in FromMagic    => g_mb["MAGIC"] = MAGIC_V2 /\ g_mb["LEAKED"] = 0
    /\ Point \in FromBefore   => g_mb["XH3_BEFORE"] = SECRET
    /\ Point \in FromRecovery => g_mb["XH3_MCAUSE"] = LOAD_FAULT
    /\ Point \in FromRead     => g_mb["XH3_AFTER"] = SECRET
    /\ Point \in FromMagic \ FromA11   => g_mb["STAGE"] = 0
    /\ Point \in FromA11 \ {"U_READ"}  => g_mb["STAGE"] = A11
    /\ Point = "U_READ" => g_mb["STAGE"] = (IF pc = "HALT" THEN CAUGHT ELSE BAD0)
    /\ Point \in FromUp   => g_mb["U_UP"] = 85
    /\ Point \in FromCnt1 => g_mb["CNT1"] = 1
    /\ Point \in FromCnt2 => g_mb["CNT2"] = 2
    /\ Point \in FromBad  => g_mb["SIGN0"] = KEYED
    /\ pc = "HALT" \/ (pc = "DISPATCH" /\ idx # 0) => g_mb["MCAUSE"] = LOAD_FAULT
    /\ pc = "HALT" \/ (pc = "DISPATCH" /\ idx = 2) => g_mb["MTVAL"] \in {0, G_PROT}

PmpInv ==
    DataOK /\ PlaceOK /\ UnitsOK /\ RegsOK /\ CallsOK /\ MailboxAt /\ MailboxConsistent

-----------------------------------------------------------------------------
LEMMA ObjectFacts ==
    /\ JUNK \in Int /\ SECRET \in Int /\ KEYED \in Int /\ MAIN_SP \in Int /\ TRAP_TOP \in Int
    /\ SECRET # 0 /\ KEYED # 0 /\ KEYED # PLAIN /\ JUNK # MAGIC_V2
    /\ LIVE \in [Reg -> Int] /\ LIVE["sp"] = MAIN_SP
    /\ CHALLENGE \in Int /\ G_PROT \in Int
  BY PmpAssumption, ObjectAssumption, GuardAssumption

LEMMA RegNames ==
    /\ Reg = FrameRegs \cup {"s0", "sp"} /\ "s0" \notin FrameRegs /\ "sp" \notin FrameRegs
    /\ {"a0", "a1", "a7", "ra"} \subseteq FrameRegs
  BY DEF Reg, FrameRegs

(* The U-mode program's buffer is not refused. *)
LEMMA ChallengeAccepted == ~Refused(CHALLENGE, 16)
  <1>1. /\ SPACE \in Nat \ {0} /\ G_PROT \in Nat /\ PROT_SIZE \in Nat /\ SIGN_MAX \in Nat
        /\ 0 < SIGN_MAX /\ 0 < PROT_SIZE /\ G_PROT + PROT_SIZE + SIGN_MAX <= SPACE
    BY GuardAssumption
  <1>2. CHALLENGE + 16 \in Nat /\ CHALLENGE + 16 <= SPACE /\ 16 <= SIGN_MAX
    BY ObjectAssumption
  <1>3. (G_PROT + PROT_SIZE) % SPACE = G_PROT + PROT_SIZE
    <2> DEFINE x == G_PROT + PROT_SIZE
    <2>1. x \in 0..(SPACE - 1)
      BY <1>1
    <2> HIDE DEF x
    <2>2. x % SPACE = x
      BY <1>1, <2>1
    <2> QED
      BY <2>2 DEF x
  <1>4. CASE CHALLENGE + 16 <= G_PROT
    <2> DEFINE x == CHALLENGE + 16
    <2>1. x \in 0..(SPACE - 1)
      BY <1>1, <1>2, <1>4
    <2> HIDE DEF x
    <2>2. x % SPACE = x
      BY <1>1, <2>1
    <2>3. ~((CHALLENGE + 16) % SPACE > G_PROT)
      BY <1>1, <1>2, <1>4, <2>2 DEF x
    <2> QED
      BY <1>1, <1>2, <2>3 DEF Refused
  <1>5. CASE G_PROT + PROT_SIZE <= CHALLENGE
    BY <1>1, <1>2, <1>3, <1>5, ObjectAssumption DEF Refused
  <1> QED
    BY <1>4, <1>5, ObjectAssumption

-----------------------------------------------------------------------------
(* What the PMP lets through, before and after pmp_isolate_secret(). *)
LEMMA AllowedBefore ==
    ASSUME pmp = ResetPmp, NEW m, NEW place
    PROVE  Allowed(m, place) <=> m = "M"
  BY DEF Allowed, ResetPmp

LEMMA Minima == Min({1}) = 1 /\ Min({0, 1}) = 0
  BY DEF Min

LEMMA AllowedAfter ==
    ASSUME pmp = FinalPmp, NEW m
    PROVE  /\ Allowed(m, "ram")
           /\ Allowed(m, "prot") <=> m = "M" /\ 0 \notin csr.cfgm0
  <1>1. {i \in 0..1 : pmp[i].on /\ pmp[i].addr \in {"ram", "all"}} = {1}
    BY DEF FinalPmp
  <1>2. {i \in 0..1 : pmp[i].on /\ pmp[i].addr \in {"prot", "all"}} = {0, 1}
    BY DEF FinalPmp
  <1>3. pmp[1].rwx = TRUE /\ pmp[0].rwx = FALSE
    BY DEF FinalPmp
  <1>4. Allowed(m, "ram")
    BY <1>1, <1>3, Minima DEF Allowed
  <1>5. Allowed(m, "prot") <=> m = "M" /\ 0 \notin csr.cfgm0
    BY <1>2, <1>3, Minima DEF Allowed
  <1> QED
    BY <1>4, <1>5

LEMMA RamAllowed ==
    ASSUME PlaceOK, UnitsOK
    PROVE  Allowed(mode, "ram")
  <1>1. CASE pmp = FinalPmp
    BY <1>1, AllowedAfter
  <1>2. CASE pmp = ResetPmp /\ Point \notin {"XH3_BEFORE"} \cup FromBefore
    <2>1. mode = "M"
      BY <1>2 DEF PlaceOK, Point, UPc, TrapPc, HandlerPc, FromBefore, FromRecovery, FromRead,
         FromA11, FromUp, FromCnt1, FromCnt2, FromBad
    <2> QED
      BY <1>2, <2>1, AllowedBefore
  <1> QED
    BY <1>1, <1>2 DEF UnitsOK

LEMMA ProtAllowed ==
    ASSUME UnitsOK, Point \in {"XH3_BEFORE"} \cup FromBefore
    PROVE  Allowed(mode, "prot") <=> mode = "M" /\ Point # "XH3_LOAD"
  BY AllowedAfter DEF UnitsOK

(* What a debugger reads follows from the point reached, once the magic of  *)
(* an earlier boot is gone.                                                 *)
MagicGone == pc = "ZERO" => idx > 1

LEMMA Consistent == PlaceOK /\ MailboxAt /\ MagicGone => MailboxConsistent
  <1> SUFFICES ASSUME PlaceOK, MailboxAt, pc = "ZERO" => idx > 1, g_mb["MAGIC"] = MAGIC_V2
               PROVE  MailboxConsistent
    BY DEF MailboxConsistent, MagicGone
  <1>1. pc \notin {"ZERO", "MAGIC"}
    <2>1. pc = "ZERO" => g_mb[MbOrder[1]] = 0
      BY DEF MailboxAt, PlaceOK
    <2> QED
      BY <2>1 DEF MailboxAt, MbOrder, MbField, MAGIC_V2
  <1>2. Point \in FromMagic
    BY <1>1 DEF PlaceOK, Point, MainPc, UPc, TrapPc, HandlerPc, Trapping, Resumed, FromMagic,
       FromBefore, FromRecovery, FromRead, FromA11, FromUp, FromCnt1, FromCnt2, FromBad
  <1>3. CASE Point \notin FromA11
    BY <1>2, <1>3 DEF MailboxAt, MailboxConsistent, BAD0, CAUGHT
  <1>4. CASE Point \in FromA11
    <2>1. /\ g_mb["XH3_BEFORE"] = SECRET /\ g_mb["XH3_AFTER"] = SECRET
          /\ g_mb["XH3_MCAUSE"] = LOAD_FAULT
      BY <1>4 DEF MailboxAt, FromBefore, FromRecovery, FromRead
    <2>2. CASE Point # "U_READ"
      BY <1>2, <1>4, <2>1, <2>2 DEF MailboxAt, MailboxConsistent, A11, BAD0, CAUGHT
    <2>3. CASE Point = "U_READ"
      <3>1. g_mb["U_UP"] = 85 /\ g_mb["CNT1"] = 1 /\ g_mb["CNT2"] = 2 /\ g_mb["SIGN0"] = KEYED
        BY <2>3 DEF MailboxAt, FromUp, FromCnt1, FromCnt2, FromBad
      <3> QED
        BY <1>2, <2>1, <2>3, <3>1 DEF MailboxAt, MailboxConsistent, A11, BAD0, CAUGHT
    <2> QED
      BY <2>2, <2>3
  <1> QED
    BY <1>3, <1>4

LEMMA ConsistentNext == PlaceOK' /\ MailboxAt' /\ MagicGone' => MailboxConsistent'
  BY Consistent, PTL

-----------------------------------------------------------------------------
THEOREM InitPmpInv == Init => PmpInv
  <1> SUFFICES ASSUME Init PROVE PmpInv
    OBVIOUS
  <1>1. pc = "ZERO" /\ idx = 1 /\ mode = "M" /\ Point = "ZERO" /\ csr = ResetCsr /\ pmp = ResetPmp
    BY DEF Init, Point, TrapPc, HandlerPc
  <1>2. DataOK
    BY ObjectFacts DEF Init, DataOK, ResetCsr, ResetSaved, MainPc
  <1>3. PlaceOK
    BY <1>1 DEF PlaceOK, MainPc, UPc, TrapPc, HandlerPc
  <1>4. UnitsOK
    BY <1>1 DEF Init, UnitsOK, ResetCsr, FromBefore, FromRecovery, FromRead,
         FromA11, FromUp, FromCnt1, FromCnt2, FromBad
  <1>5. RegsOK /\ CallsOK
    BY <1>1, ObjectFacts DEF Init, RegsOK, CallsOK, StacksApart, ResetCsr, TrapPc, HandlerPc
  <1>6. MailboxAt /\ MailboxConsistent
    BY <1>1, ObjectFacts DEF Init, MailboxAt, MailboxConsistent, MbField, FromMagic, FromBefore,
       FromRecovery, FromRead, FromA11, FromUp, FromCnt1, FromCnt2, FromBad
  <1> QED
    BY <1>2, <1>3, <1>4, <1>5, <1>6 DEF PmpInv

-----------------------------------------------------------------------------
(* main() and the U-mode program, between two traps. *)
RunPc == (MainPc \cup UPc) \ {"U_SPIN"}

LEMMA PcSets == TrapPc \cap RunPc = {} /\ HandlerPc \subseteq TrapPc /\ MainPc \cap UPc = {}
  BY DEF TrapPc, HandlerPc, RunPc, MainPc, UPc

(* A step from one instruction of theirs to the next, but not the one that  *)
(* reads an ecall's result.                                                 *)
LEMMA RunStep ==
    ASSUME PmpInv, pc \in RunPc, pc' \in RunPc \ {"U_CNT1_SW", "U_CNT2_SW"}, idx' \in 0..12,
           pc' = "ZERO" => idx' # 0, mode' = (IF pc' \in UPc THEN "U" ELSE "M"),
           UNCHANGED <<regs, saved, before>>,
           csr'.mtvec = csr.mtvec, csr'.mscratch = csr.mscratch
    PROVE  Point = pc /\ Point' = pc' /\ PlaceOK' /\ RegsOK' /\ CallsOK'
  <1>1. pc \notin TrapPc /\ pc' \notin TrapPc /\ pc \notin HandlerPc /\ pc' \notin HandlerPc
    BY PcSets
  <1>2. Point = pc /\ Point' = pc'
    BY <1>1 DEF Point
  <1>3. PlaceOK'
    BY <1>1 DEF PlaceOK, RunPc, TrapPc, HandlerPc
  <1>4. StacksApart'
    BY <1>1 DEF StacksApart, PmpInv, RegsOK
  <1>5. RegsOK'
    BY <1>1, <1>4 DEF PmpInv, RegsOK, TrapPc, HandlerPc
  <1>6. CallsOK'
    BY <1>1, <1>2 DEF CallsOK, TrapPc, HandlerPc
  <1> QED
    BY <1>2, <1>3, <1>5, <1>6

(* A store of theirs to the mailbox goes through. *)
LEMMA Stored ==
    ASSUME PmpInv, pc \in RunPc, NEW f \in MbField, NEW v \in Int,
           NEW next \in RunPc \ {"U_CNT1_SW", "U_CNT2_SW"}, NEW n \in 0..12,
           next = "ZERO" => n # 0, next \in UPc <=> pc \in UPc,
           Put(f, v, next, n)
    PROVE  /\ Point = pc /\ Point' = next /\ pc' = next /\ idx' = n
           /\ DataOK' /\ PlaceOK' /\ RegsOK' /\ CallsOK'
           /\ UNCHANGED <<csr, pmp, g_prot, g_stage, challenge>>
           /\ \A g \in MbField : g_mb'[g] = IF g = f THEN v ELSE g_mb[g]
  <1>1. Allowed(mode, "ram")
    BY RamAllowed DEF PmpInv
  <1>2. /\ g_mb' = [g_mb EXCEPT ![f] = v] /\ pc' = next /\ idx' = n
        /\ UNCHANGED <<mode, regs, csr, saved, before, pmp, g_prot, g_stage, challenge>>
    BY <1>1 DEF Put, Goto, hart
  <1>3. g_mb \in [MbField -> Int]
    BY DEF PmpInv, DataOK
  <1>4. g_mb' \in [MbField -> Int] /\ \A g \in MbField : g_mb'[g] = IF g = f THEN v ELSE g_mb[g]
    BY <1>2, <1>3
  <1>5. DataOK'
    BY <1>2, <1>4 DEF PmpInv, DataOK
  <1>6. mode' = (IF pc' \in UPc THEN "U" ELSE "M")
    BY <1>2 DEF PmpInv, PlaceOK
  <1> QED
    BY <1>2, <1>4, <1>5, <1>6, RunStep

LEMMA StepZeroMailbox == ASSUME PmpInv, ZeroMailbox PROVE PmpInv'
  <1>1. pc = "ZERO" /\ pc \in RunPc /\ pc \notin UPc /\ idx \in 1..12
    BY DEF ZeroMailbox, PmpInv, PlaceOK, RunPc, MainPc, UPc
  <1>2. MbOrder[idx] \in MbField /\ \A i \in 1..12 : MbOrder[i] \in MbField
    <2>1. 1..12 = {1, 2, 3, 4, 5, 6, 7, 8, 9, 10, 11, 12}
      OBVIOUS
    <2> QED
      BY <1>1, <2>1 DEF MbOrder, MbField
  <1>3. /\ Point = "ZERO" /\ DataOK' /\ PlaceOK' /\ RegsOK' /\ CallsOK'
        /\ UNCHANGED <<csr, pmp, g_prot, g_stage, challenge>>
        /\ \A g \in MbField : g_mb'[g] = IF g = MbOrder[idx] THEN 0 ELSE g_mb[g]
        /\ Point' = pc'
        /\ IF idx = 12 THEN pc' = "MAGIC" ELSE pc' = "ZERO" /\ idx' = idx + 1
    <2>1. CASE idx = 12
      <3>1. "MAGIC" \in RunPc \ {"U_CNT1_SW", "U_CNT2_SW"} /\ "MAGIC" \notin UPc
        BY DEF RunPc, MainPc, UPc
      <3> QED
        BY <1>1, <1>2, <2>1, <3>1, Stored DEF ZeroMailbox
    <2>2. CASE idx # 12
      <3>1. idx + 1 \in 0..12 /\ idx + 1 # 0 /\ pc \in RunPc \ {"U_CNT1_SW", "U_CNT2_SW"}
        BY <1>1, <2>2
      <3> QED
        BY <1>1, <1>2, <2>2, <3>1, Stored DEF ZeroMailbox
    <2> QED
      BY <2>1, <2>2
  <1>4. \A i \in 1..12 : i < idx + 1 => g_mb'[MbOrder[i]] = 0
    BY <1>1, <1>2, <1>3 DEF PmpInv, MailboxAt
  <1>5. pc' = "MAGIC" => \A f \in MbField : g_mb'[f] = 0
    <2>1. \A f \in MbField : \E i \in 1..12 : f = MbOrder[i]
      BY DEF MbField, MbOrder
    <2> QED
      BY <1>1, <1>3, <1>4, <2>1
  <1>6. pc' = "ZERO" => \A i \in 1..12 : i < idx' => g_mb'[MbOrder[i]] = 0
    BY <1>1, <1>3, <1>4
  <1>7. MailboxAt'
    BY <1>3, <1>5, <1>6 DEF MailboxAt, FromMagic, FromBefore, FromRecovery, FromRead, FromA11,
       FromUp, FromCnt1, FromCnt2, FromBad
  <1>8. UnitsOK'
    BY <1>3 DEF PmpInv, UnitsOK, FromBefore, FromRecovery, FromRead, FromA11, FromUp,
       FromCnt1, FromCnt2, FromBad
  <1>9. MailboxConsistent'
    <2>1. pc' = "ZERO" => idx' > 1
      BY <1>1, <1>3
    <2> QED
      BY <1>3, <1>7, <2>1, ConsistentNext DEF MagicGone
  <1> QED
    BY <1>3, <1>7, <1>8, <1>9 DEF PmpInv

(* The stores, in the order of the run. *)
LEMMA StepSayMagic == ASSUME PmpInv, SayMagic PROVE PmpInv'
  <1> USE DEF FromMagic, FromBefore, FromRecovery, FromRead, FromA11, FromUp, FromCnt1, FromCnt2,
              FromBad
  <1>1. pc = "MAGIC" /\ Put("MAGIC", MAGIC_V2, "PROT", 0)
    BY DEF SayMagic
  <1>2. /\ pc \in RunPc /\ "MAGIC" \in MbField /\ MAGIC_V2 \in Int
        /\ "PROT" \in RunPc \ {"U_CNT1_SW", "U_CNT2_SW"} /\ ("PROT" \in UPc <=> pc \in UPc)
    BY <1>1 DEF RunPc, MainPc, UPc, MbField, MAGIC_V2
  <1>3. /\ Point = "MAGIC" /\ Point' = "PROT" /\ pc' = "PROT"
        /\ DataOK' /\ PlaceOK' /\ RegsOK' /\ CallsOK'
        /\ UNCHANGED <<csr, pmp, g_prot, g_stage, challenge>>
        /\ \A g \in MbField : g_mb'[g] = IF g = "MAGIC" THEN MAGIC_V2 ELSE g_mb[g]
    BY <1>1, <1>2, Stored
  <1>4. UnitsOK'
    BY <1>3 DEF PmpInv, UnitsOK
  <1>5. MailboxAt'
    BY <1>1, <1>3 DEF PmpInv, MailboxAt, MbField
  <1> QED
    BY <1>3, <1>4, <1>5, ConsistentNext DEF PmpInv, MagicGone

LEMMA StepReadBefore == ASSUME PmpInv, ReadSecret, pc = "XH3_BEFORE" PROVE PmpInv'
  <1> USE DEF FromMagic, FromBefore, FromRecovery, FromRead, FromA11, FromUp, FromCnt1, FromCnt2,
              FromBad
  <1>1. pc = "XH3_BEFORE" /\ Put("XH3_BEFORE", SECRET, "RESTRICT", 0)
    <2>1. mode = "M" /\ Point = "XH3_BEFORE"
      BY DEF PmpInv, PlaceOK, Point, UPc, TrapPc, HandlerPc
    <2>2. Allowed(mode, "prot") /\ g_prot.secret = SECRET
      BY <2>1, ProtAllowed DEF PmpInv, UnitsOK
    <2> QED
      BY <2>2 DEF ReadSecret
  <1>2. /\ pc \in RunPc /\ "XH3_BEFORE" \in MbField /\ SECRET \in Int
        /\ "RESTRICT" \in RunPc \ {"U_CNT1_SW", "U_CNT2_SW"} /\ ("RESTRICT" \in UPc <=> pc \in UPc)
    BY <1>1, ObjectFacts DEF RunPc, MainPc, UPc, MbField
  <1>3. /\ Point = "XH3_BEFORE" /\ Point' = "RESTRICT" /\ pc' = "RESTRICT"
        /\ DataOK' /\ PlaceOK' /\ RegsOK' /\ CallsOK'
        /\ UNCHANGED <<csr, pmp, g_prot, g_stage, challenge>>
        /\ \A g \in MbField : g_mb'[g] = IF g = "XH3_BEFORE" THEN SECRET ELSE g_mb[g]
    BY <1>1, <1>2, Stored
  <1>4. UnitsOK'
    BY <1>3 DEF PmpInv, UnitsOK
  <1>5. MailboxAt'
    BY <1>1, <1>3 DEF PmpInv, MailboxAt, MbField
  <1> QED
    BY <1>3, <1>4, <1>5, ConsistentNext DEF PmpInv, MagicGone

LEMMA StepReadAfter == ASSUME PmpInv, ReadSecret, pc = "XH3_AFTER" PROVE PmpInv'
  <1> USE DEF FromMagic, FromBefore, FromRecovery, FromRead, FromA11, FromUp, FromCnt1, FromCnt2,
              FromBad
  <1>1. pc = "XH3_AFTER" /\ Put("XH3_AFTER", SECRET, "SET_STAGE", 0)
    <2>1. mode = "M" /\ Point = "XH3_AFTER"
      BY DEF PmpInv, PlaceOK, Point, UPc, TrapPc, HandlerPc
    <2>2. Allowed(mode, "prot") /\ g_prot.secret = SECRET
      BY <2>1, ProtAllowed DEF PmpInv, UnitsOK
    <2> QED
      BY <2>2 DEF ReadSecret
  <1>2. /\ pc \in RunPc /\ "XH3_AFTER" \in MbField /\ SECRET \in Int
        /\ "SET_STAGE" \in RunPc \ {"U_CNT1_SW", "U_CNT2_SW"} /\ ("SET_STAGE" \in UPc <=> pc \in UPc)
    BY <1>1, ObjectFacts DEF RunPc, MainPc, UPc, MbField
  <1>3. /\ Point = "XH3_AFTER" /\ Point' = "SET_STAGE" /\ pc' = "SET_STAGE"
        /\ DataOK' /\ PlaceOK' /\ RegsOK' /\ CallsOK'
        /\ UNCHANGED <<csr, pmp, g_prot, g_stage, challenge>>
        /\ \A g \in MbField : g_mb'[g] = IF g = "XH3_AFTER" THEN SECRET ELSE g_mb[g]
    BY <1>1, <1>2, Stored
  <1>4. UnitsOK'
    BY <1>3 DEF PmpInv, UnitsOK
  <1>5. MailboxAt'
    BY <1>1, <1>3 DEF PmpInv, MailboxAt, MbField
  <1> QED
    BY <1>3, <1>4, <1>5, ConsistentNext DEF PmpInv, MagicGone

LEMMA StepSayA11 == ASSUME PmpInv, SayA11 PROVE PmpInv'
  <1> USE DEF FromMagic, FromBefore, FromRecovery, FromRead, FromA11, FromUp, FromCnt1, FromCnt2,
              FromBad
  <1>1. pc = "A11" /\ Put("STAGE", A11, "DROP", 0)
    BY DEF SayA11
  <1>2. /\ pc \in RunPc /\ "STAGE" \in MbField /\ A11 \in Int
        /\ "DROP" \in RunPc \ {"U_CNT1_SW", "U_CNT2_SW"} /\ ("DROP" \in UPc <=> pc \in UPc)
    BY <1>1 DEF RunPc, MainPc, UPc, MbField, A11
  <1>3. /\ Point = "A11" /\ Point' = "DROP" /\ pc' = "DROP"
        /\ DataOK' /\ PlaceOK' /\ RegsOK' /\ CallsOK'
        /\ UNCHANGED <<csr, pmp, g_prot, g_stage, challenge>>
        /\ \A g \in MbField : g_mb'[g] = IF g = "STAGE" THEN A11 ELSE g_mb[g]
    BY <1>1, <1>2, Stored
  <1>4. UnitsOK'
    BY <1>3 DEF PmpInv, UnitsOK
  <1>5. MailboxAt'
    BY <1>1, <1>3 DEF PmpInv, MailboxAt, MbField
  <1> QED
    BY <1>3, <1>4, <1>5, ConsistentNext DEF PmpInv, MagicGone

LEMMA StepUUp == ASSUME PmpInv, UUp PROVE PmpInv'
  <1> USE DEF FromMagic, FromBefore, FromRecovery, FromRead, FromA11, FromUp, FromCnt1, FromCnt2,
              FromBad
  <1>1. pc = "U_UP" /\ Put("U_UP", 85, "U_CNT1", 0)
    BY DEF UUp
  <1>2. /\ pc \in RunPc /\ "U_UP" \in MbField /\ 85 \in Int
        /\ "U_CNT1" \in RunPc \ {"U_CNT1_SW", "U_CNT2_SW"} /\ ("U_CNT1" \in UPc <=> pc \in UPc)
    BY <1>1 DEF RunPc, MainPc, UPc, MbField
  <1>3. /\ Point = "U_UP" /\ Point' = "U_CNT1" /\ pc' = "U_CNT1"
        /\ DataOK' /\ PlaceOK' /\ RegsOK' /\ CallsOK'
        /\ UNCHANGED <<csr, pmp, g_prot, g_stage, challenge>>
        /\ \A g \in MbField : g_mb'[g] = IF g = "U_UP" THEN 85 ELSE g_mb[g]
    BY <1>1, <1>2, Stored
  <1>4. UnitsOK'
    BY <1>3 DEF PmpInv, UnitsOK
  <1>5. MailboxAt'
    BY <1>1, <1>3 DEF PmpInv, MailboxAt, MbField
  <1> QED
    BY <1>3, <1>4, <1>5, ConsistentNext DEF PmpInv, MagicGone

LEMMA StepCounted1 == ASSUME PmpInv, UCounted, pc = "U_CNT1_SW" PROVE PmpInv'
  <1> USE DEF FromMagic, FromBefore, FromRecovery, FromRead, FromA11, FromUp, FromCnt1, FromCnt2,
              FromBad
  <1>1. pc = "U_CNT1_SW" /\ Put("CNT1", 1, "U_CNT2", 0)
    <2>1. Point = "U_CNT1_SW"
      BY DEF Point, TrapPc, HandlerPc
    <2>2. regs["a0"] = 1
      BY <2>1 DEF PmpInv, CallsOK, UnitsOK
    <2> QED
      BY <2>2 DEF UCounted
  <1>2. /\ pc \in RunPc /\ "CNT1" \in MbField /\ 1 \in Int
        /\ "U_CNT2" \in RunPc \ {"U_CNT1_SW", "U_CNT2_SW"} /\ ("U_CNT2" \in UPc <=> pc \in UPc)
    BY <1>1 DEF RunPc, MainPc, UPc, MbField
  <1>3. /\ Point = "U_CNT1_SW" /\ Point' = "U_CNT2" /\ pc' = "U_CNT2"
        /\ DataOK' /\ PlaceOK' /\ RegsOK' /\ CallsOK'
        /\ UNCHANGED <<csr, pmp, g_prot, g_stage, challenge>>
        /\ \A g \in MbField : g_mb'[g] = IF g = "CNT1" THEN 1 ELSE g_mb[g]
    BY <1>1, <1>2, Stored
  <1>4. UnitsOK'
    BY <1>3 DEF PmpInv, UnitsOK
  <1>5. MailboxAt'
    BY <1>1, <1>3 DEF PmpInv, MailboxAt, MbField
  <1> QED
    BY <1>3, <1>4, <1>5, ConsistentNext DEF PmpInv, MagicGone

LEMMA StepCounted2 == ASSUME PmpInv, UCounted, pc = "U_CNT2_SW" PROVE PmpInv'
  <1> USE DEF FromMagic, FromBefore, FromRecovery, FromRead, FromA11, FromUp, FromCnt1, FromCnt2,
              FromBad
  <1>1. pc = "U_CNT2_SW" /\ Put("CNT2", 2, "U_FILL", 0)
    <2>1. Point = "U_CNT2_SW"
      BY DEF Point, TrapPc, HandlerPc
    <2>2. regs["a0"] = 2
      BY <2>1 DEF PmpInv, CallsOK, UnitsOK
    <2> QED
      BY <2>2 DEF UCounted
  <1>2. /\ pc \in RunPc /\ "CNT2" \in MbField /\ 2 \in Int
        /\ "U_FILL" \in RunPc \ {"U_CNT1_SW", "U_CNT2_SW"} /\ ("U_FILL" \in UPc <=> pc \in UPc)
    BY <1>1 DEF RunPc, MainPc, UPc, MbField
  <1>3. /\ Point = "U_CNT2_SW" /\ Point' = "U_FILL" /\ pc' = "U_FILL"
        /\ DataOK' /\ PlaceOK' /\ RegsOK' /\ CallsOK'
        /\ UNCHANGED <<csr, pmp, g_prot, g_stage, challenge>>
        /\ \A g \in MbField : g_mb'[g] = IF g = "CNT2" THEN 2 ELSE g_mb[g]
    BY <1>1, <1>2, Stored
  <1>4. UnitsOK'
    BY <1>3 DEF PmpInv, UnitsOK
  <1>5. MailboxAt'
    BY <1>1, <1>3 DEF PmpInv, MailboxAt, MbField
  <1> QED
    BY <1>3, <1>4, <1>5, ConsistentNext DEF PmpInv, MagicGone

LEMMA StepUSigned == ASSUME PmpInv, USigned PROVE PmpInv'
  <1> USE DEF FromMagic, FromBefore, FromRecovery, FromRead, FromA11, FromUp, FromCnt1, FromCnt2,
              FromBad
  <1>1. pc = "U_SIGN0" /\ Put("SIGN0", KEYED, "U_BAD0", 0)
    <2>1. pc = "U_SIGN0" /\ Point = "U_SIGN0"
      BY DEF USigned, Point, TrapPc, HandlerPc
    <2>2. challenge = "keyed"
      BY <2>1 DEF PmpInv, UnitsOK
    <2> QED
      BY <2>2 DEF USigned
  <1>2. /\ pc \in RunPc /\ "SIGN0" \in MbField /\ KEYED \in Int
        /\ "U_BAD0" \in RunPc \ {"U_CNT1_SW", "U_CNT2_SW"} /\ ("U_BAD0" \in UPc <=> pc \in UPc)
    BY <1>1, ObjectFacts DEF RunPc, MainPc, UPc, MbField
  <1>3. /\ Point = "U_SIGN0" /\ Point' = "U_BAD0" /\ pc' = "U_BAD0"
        /\ DataOK' /\ PlaceOK' /\ RegsOK' /\ CallsOK'
        /\ UNCHANGED <<csr, pmp, g_prot, g_stage, challenge>>
        /\ \A g \in MbField : g_mb'[g] = IF g = "SIGN0" THEN KEYED ELSE g_mb[g]
    BY <1>1, <1>2, Stored
  <1>4. UnitsOK'
    BY <1>3 DEF PmpInv, UnitsOK
  <1>5. MailboxAt'
    BY <1>1, <1>3 DEF PmpInv, MailboxAt, MbField
  <1> QED
    BY <1>3, <1>4, <1>5, ConsistentNext DEF PmpInv, MagicGone

LEMMA StepUSayBad == ASSUME PmpInv, USayBad PROVE PmpInv'
  <1> USE DEF FromMagic, FromBefore, FromRecovery, FromRead, FromA11, FromUp, FromCnt1, FromCnt2,
              FromBad
  <1>1. pc = "U_BAD0" /\ Put("STAGE", BAD0, "U_READ", 0)
    BY DEF USayBad
  <1>2. /\ pc \in RunPc /\ "STAGE" \in MbField /\ BAD0 \in Int
        /\ "U_READ" \in RunPc \ {"U_CNT1_SW", "U_CNT2_SW"} /\ ("U_READ" \in UPc <=> pc \in UPc)
    BY <1>1 DEF RunPc, MainPc, UPc, MbField, BAD0
  <1>3. /\ Point = "U_BAD0" /\ Point' = "U_READ" /\ pc' = "U_READ"
        /\ DataOK' /\ PlaceOK' /\ RegsOK' /\ CallsOK'
        /\ UNCHANGED <<csr, pmp, g_prot, g_stage, challenge>>
        /\ \A g \in MbField : g_mb'[g] = IF g = "STAGE" THEN BAD0 ELSE g_mb[g]
    BY <1>1, <1>2, Stored
  <1>4. UnitsOK'
    BY <1>3 DEF PmpInv, UnitsOK
  <1>5. MailboxAt'
    BY <1>1, <1>3 DEF PmpInv, MailboxAt, MbField
  <1> QED
    BY <1>3, <1>4, <1>5, ConsistentNext DEF PmpInv, MagicGone

-----------------------------------------------------------------------------
(* The other steps of main() and of the U-mode program. *)

LEMMA StepInitProt == ASSUME PmpInv, InitProt PROVE PmpInv'
  <1> USE DEF FromMagic, FromBefore, FromRecovery, FromRead, FromA11, FromUp, FromCnt1, FromCnt2,
              FromBad
  <1>1. /\ pc = "PROT" /\ pc' = "VECTOR" /\ idx' = 0 /\ UNCHANGED <<regs, saved, before, g_mb>>
        /\ mode' = (IF pc' \in UPc THEN "U" ELSE "M")
        /\ csr'.mtvec = csr.mtvec /\ csr'.mscratch = csr.mscratch /\ DataOK'
    BY ObjectFacts DEF InitProt, Goto, hart, PmpInv, DataOK, PlaceOK, UPc
  <1>2. pc \in RunPc /\ pc' \in RunPc \ {"U_CNT1_SW", "U_CNT2_SW"}
    BY <1>1 DEF RunPc, MainPc, UPc
  <1>3. Point = "PROT" /\ Point' = "VECTOR" /\ PlaceOK' /\ RegsOK' /\ CallsOK'
    BY <1>1, <1>2, RunStep
  <1>4. UnitsOK'
    BY <1>1, <1>3 DEF InitProt, hart, PmpInv, UnitsOK
  <1>5. MailboxAt'
    BY <1>1, <1>3 DEF PmpInv, MailboxAt, MbField
  <1> QED
    BY <1>1, <1>3, <1>4, <1>5, ConsistentNext DEF PmpInv, MagicGone

LEMMA StepIsolate == ASSUME PmpInv, pmp_isolate_secret PROVE PmpInv'
  <1> USE DEF FromMagic, FromBefore, FromRecovery, FromRead, FromA11, FromUp, FromCnt1, FromCnt2,
              FromBad
  <1>1. /\ pc = "PMP" /\ pc' = "XH3_BEFORE" /\ idx' = 0 /\ UNCHANGED <<regs, saved, before, g_mb>>
        /\ mode' = (IF pc' \in UPc THEN "U" ELSE "M")
        /\ csr'.mtvec = csr.mtvec /\ csr'.mscratch = csr.mscratch /\ DataOK'
    BY DEF pmp_isolate_secret, Goto, store, PmpInv, DataOK, PlaceOK, UPc
  <1>2. pc \in RunPc /\ pc' \in RunPc \ {"U_CNT1_SW", "U_CNT2_SW"}
    BY <1>1 DEF RunPc, MainPc, UPc
  <1>3. Point = "PMP" /\ Point' = "XH3_BEFORE" /\ PlaceOK' /\ RegsOK' /\ CallsOK'
    BY <1>1, <1>2, RunStep
  <1>4. UnitsOK'
    BY <1>1, <1>3 DEF pmp_isolate_secret, store, PmpInv, DataOK, UnitsOK, FinalPmp
  <1>5. MailboxAt'
    BY <1>1, <1>3 DEF PmpInv, MailboxAt, MbField
  <1> QED
    BY <1>1, <1>3, <1>4, <1>5, ConsistentNext DEF PmpInv, MagicGone

LEMMA StepRestrictM == ASSUME PmpInv, RestrictM PROVE PmpInv'
  <1> USE DEF FromMagic, FromBefore, FromRecovery, FromRead, FromA11, FromUp, FromCnt1, FromCnt2,
              FromBad
  <1>1. /\ pc = "RESTRICT" /\ pc' = "XH3_LOAD" /\ idx' = 0 /\ UNCHANGED <<regs, saved, before, g_mb>>
        /\ mode' = (IF pc' \in UPc THEN "U" ELSE "M")
        /\ csr'.mtvec = csr.mtvec /\ csr'.mscratch = csr.mscratch /\ DataOK'
    BY DEF RestrictM, Goto, PmpInv, DataOK, PlaceOK, UPc
  <1>2. pc \in RunPc /\ pc' \in RunPc \ {"U_CNT1_SW", "U_CNT2_SW"}
    BY <1>1 DEF RunPc, MainPc, UPc
  <1>3. Point = "RESTRICT" /\ Point' = "XH3_LOAD" /\ PlaceOK' /\ RegsOK' /\ CallsOK'
    BY <1>1, <1>2, RunStep
  <1>4. UnitsOK'
    BY <1>1, <1>3 DEF RestrictM, PmpInv, DataOK, UnitsOK
  <1>5. MailboxAt'
    BY <1>1, <1>3 DEF PmpInv, MailboxAt, MbField
  <1> QED
    BY <1>1, <1>3, <1>4, <1>5, ConsistentNext DEF PmpInv, MagicGone

LEMMA StepSetStageU == ASSUME PmpInv, SetStageU PROVE PmpInv'
  <1> USE DEF FromMagic, FromBefore, FromRecovery, FromRead, FromA11, FromUp, FromCnt1, FromCnt2,
              FromBad
  <1>1. /\ pc = "SET_STAGE" /\ pc' = "A11" /\ idx' = 0 /\ UNCHANGED <<regs, saved, before, g_mb>>
        /\ mode' = (IF pc' \in UPc THEN "U" ELSE "M")
        /\ csr'.mtvec = csr.mtvec /\ csr'.mscratch = csr.mscratch /\ DataOK'
    BY DEF SetStageU, Goto, hart, PmpInv, DataOK, PlaceOK, UPc
  <1>2. pc \in RunPc /\ pc' \in RunPc \ {"U_CNT1_SW", "U_CNT2_SW"}
    BY <1>1 DEF RunPc, MainPc, UPc
  <1>3. Point = "SET_STAGE" /\ Point' = "A11" /\ PlaceOK' /\ RegsOK' /\ CallsOK'
    BY <1>1, <1>2, RunStep
  <1>4. UnitsOK'
    BY <1>1, <1>3 DEF SetStageU, hart, PmpInv, UnitsOK
  <1>5. MailboxAt'
    BY <1>1, <1>3 DEF PmpInv, MailboxAt, MbField
  <1> QED
    BY <1>1, <1>3, <1>4, <1>5, ConsistentNext DEF PmpInv, MagicGone

LEMMA StepDropToU == ASSUME PmpInv, DropToU PROVE PmpInv'
  <1> USE DEF FromMagic, FromBefore, FromRecovery, FromRead, FromA11, FromUp, FromCnt1, FromCnt2,
              FromBad
  <1>1. /\ pc = "DROP" /\ pc' = "U_UP" /\ idx' = 0 /\ UNCHANGED <<regs, saved, before, g_mb>>
        /\ mode' = (IF pc' \in UPc THEN "U" ELSE "M")
        /\ csr'.mtvec = csr.mtvec /\ csr'.mscratch = csr.mscratch /\ DataOK'
    BY DEF DropToU, Resume, Goto, store, PmpInv, DataOK, UPc, MainPc
  <1>2. pc \in RunPc /\ pc' \in RunPc \ {"U_CNT1_SW", "U_CNT2_SW"}
    BY <1>1 DEF RunPc, MainPc, UPc
  <1>3. Point = "DROP" /\ Point' = "U_UP" /\ PlaceOK' /\ RegsOK' /\ CallsOK'
    BY <1>1, <1>2, RunStep
  <1>4. UnitsOK'
    BY <1>1, <1>3 DEF DropToU, Resume, store, PmpInv, DataOK, UnitsOK
  <1>5. MailboxAt'
    BY <1>1, <1>3 DEF PmpInv, MailboxAt, MbField
  <1> QED
    BY <1>1, <1>3, <1>4, <1>5, ConsistentNext DEF PmpInv, MagicGone

LEMMA StepUFill == ASSUME PmpInv, UFill PROVE PmpInv'
  <1> USE DEF FromMagic, FromBefore, FromRecovery, FromRead, FromA11, FromUp, FromCnt1, FromCnt2,
              FromBad
  <1>1. /\ pc = "U_FILL" /\ pc' = "U_SIGN" /\ idx' = 0 /\ UNCHANGED <<regs, saved, before, g_mb>>
        /\ mode' = (IF pc' \in UPc THEN "U" ELSE "M")
        /\ csr'.mtvec = csr.mtvec /\ csr'.mscratch = csr.mscratch /\ DataOK'
    <2>1. Allowed(mode, "ram")
      BY RamAllowed DEF PmpInv
    <2> QED
      BY <2>1 DEF UFill, Goto, hart, PmpInv, DataOK, PlaceOK, UPc
  <1>2. pc \in RunPc /\ pc' \in RunPc \ {"U_CNT1_SW", "U_CNT2_SW"}
    BY <1>1 DEF RunPc, MainPc, UPc
  <1>3. Point = "U_FILL" /\ Point' = "U_SIGN" /\ PlaceOK' /\ RegsOK' /\ CallsOK'
    BY <1>1, <1>2, RunStep
  <1>4. UnitsOK'
    <2>1. Allowed(mode, "ram")
      BY RamAllowed DEF PmpInv
    <2> QED
      BY <1>1, <1>3, <2>1 DEF UFill, hart, PmpInv, UnitsOK
  <1>5. MailboxAt'
    BY <1>1, <1>3 DEF PmpInv, MailboxAt, MbField
  <1> QED
    BY <1>1, <1>3, <1>4, <1>5, ConsistentNext DEF PmpInv, MagicGone

(* Before this one no trap may come, and none does. *)
LEMMA StepSetVector == ASSUME PmpInv, SetVector PROVE PmpInv'
  <1> USE DEF FromMagic, FromBefore, FromRecovery, FromRead, FromA11, FromUp, FromCnt1, FromCnt2,
              FromBad
  <1>1. /\ pc = "VECTOR" /\ pc' = "PMP" /\ idx' = 0 /\ csr' = [csr EXCEPT !.mscratch = TRAP_TOP,
                                                                    !.mtvec = "trap_entry"]
        /\ UNCHANGED <<mode, regs, saved, before, pmp, g_mb, g_prot, g_stage, challenge>>
    BY DEF SetVector, Goto, store
  <1>2. Point = "VECTOR" /\ Point' = "PMP"
    BY <1>1 DEF Point, TrapPc, HandlerPc
  <1>3. /\ csr'.mscratch = TRAP_TOP /\ csr'.mtvec = "trap_entry" /\ csr'.cfgm0 = csr.cfgm0
        /\ DataOK'
    BY <1>1, ObjectFacts DEF PmpInv, DataOK
  <1>4. PlaceOK'
    BY <1>1 DEF PmpInv, PlaceOK, MainPc, UPc, TrapPc, HandlerPc
  <1>5. UnitsOK'
    BY <1>1, <1>2, <1>3 DEF PmpInv, UnitsOK
  <1>6. RegsOK' /\ CallsOK'
    BY <1>1, <1>2, <1>3 DEF PmpInv, RegsOK, StacksApart, CallsOK, TrapPc, HandlerPc
  <1>7. MailboxAt'
    BY <1>1, <1>2 DEF PmpInv, MailboxAt, MbField
  <1> QED
    BY <1>1, <1>3, <1>4, <1>5, <1>6, <1>7, ConsistentNext DEF PmpInv, MagicGone

-----------------------------------------------------------------------------
(* A trap, of one of the five instructions that take one. *)
LEMMA Trapped ==
    ASSUME PmpInv, pc \in Trapping, NEW r \in [Reg -> Int], r["sp"] = regs["sp"],
           pc \in {"U_CNT1", "U_CNT2"} => r["a7"] = GET_COUNTER,
           pc = "U_SIGN" => r["a7"] = SIGN /\ r["a0"] = CHALLENGE /\ r["a1"] = 16,
           Trap(CauseAt(pc), r)
    PROVE  PmpInv' /\ pc' = "SWAP" /\ csr'.mepc = pc
  <1> USE DEF FromMagic, FromBefore, FromRecovery, FromRead, FromA11, FromUp, FromCnt1, FromCnt2,
              FromBad
  <1>1. pc \in RunPc /\ pc \notin TrapPc /\ Point = pc
    BY DEF Trapping, RunPc, MainPc, UPc, TrapPc, HandlerPc, Point
  <1>2. csr.mtvec = "trap_entry" /\ csr.mscratch = TRAP_TOP /\ regs["sp"] = MAIN_SP
    BY <1>1, PcSets DEF Trapping, PmpInv, UnitsOK, RegsOK, StacksApart
  <1>3. /\ pc' = "SWAP" /\ idx' = 0 /\ mode' = "M" /\ regs' = r
        /\ before' = [pc |-> pc, mode |-> mode, regs |-> r]
        /\ csr' = [csr EXCEPT !.mepc = pc, !.mcause = CauseAt(pc), !.mpp = mode]
        /\ UNCHANGED <<saved, pmp, g_mb, g_prot, g_stage, challenge>>
    BY <1>2 DEF Trap, Goto, store
  <1>4. mode = (IF pc \in UPc THEN "U" ELSE "M") /\ pc \in MainPc \cup UPc
    BY <1>1 DEF PmpInv, PlaceOK, RunPc
  <1>5. /\ csr'.mepc = pc /\ csr'.mcause = CauseAt(pc) /\ csr'.mpp = mode
        /\ csr'.mscratch = csr.mscratch /\ csr'.mtvec = csr.mtvec /\ csr'.cfgm0 = csr.cfgm0
        /\ DataOK'
    <2>1. CauseAt(pc) \in Int /\ mode \in {"M", "U"}
      BY <1>4 DEF CauseAt, LOAD_FAULT, U_ECALL
    <2> QED
      BY <1>3, <1>4, <2>1 DEF PmpInv, DataOK
  <1>6. Point' = Point
    BY <1>1, <1>3, <1>5 DEF Point, TrapPc
  <1>7. PlaceOK'
    BY <1>3, <1>4, <1>5 DEF PlaceOK, UPc, TrapPc, HandlerPc
  <1>8. UnitsOK'
    BY <1>3, <1>5, <1>6 DEF PmpInv, UnitsOK
  <1>9. RegsOK'
    BY <1>2, <1>3, <1>5 DEF RegsOK, StacksApart, TrapPc, HandlerPc
  <1>10. CallsOK'
    BY <1>1, <1>3, <1>5, <1>6 DEF CallsOK, Trapping
  <1>11. MailboxAt'
    BY <1>1, <1>3, <1>6 DEF PmpInv, MailboxAt, Trapping
  <1> QED
    BY <1>3, <1>5, <1>7, <1>8, <1>9, <1>10, <1>11, ConsistentNext DEF PmpInv, MagicGone

LEMMA StepTestLoad ==
    ASSUME PmpInv, TestLoad
    PROVE  PmpInv' /\ pc' = "SWAP" /\ csr'.mepc = "XH3_LOAD"
  <1> USE DEF FromMagic, FromBefore, FromRecovery, FromRead, FromA11, FromUp, FromCnt1, FromCnt2,
              FromBad
  <1>1. pc = "XH3_LOAD" /\ Point = "XH3_LOAD" /\ pc \in Trapping
    BY DEF TestLoad, Point, TrapPc, HandlerPc, Trapping
  <1>2. ~Allowed(mode, "prot")
    BY <1>1, ProtAllowed DEF PmpInv
  <1>3. Trap(CauseAt(pc), regs) /\ regs \in [Reg -> Int]
    BY <1>1, <1>2 DEF TestLoad, CauseAt, PmpInv, DataOK
  <1> QED
    BY <1>1, <1>3, Trapped

LEMMA StepEcall ==
    ASSUME PmpInv, UCount \/ USign
    PROVE  PmpInv' /\ pc' = "SWAP" /\ csr'.mepc = pc
  <1>1. /\ pc \in {"U_CNT1", "U_CNT2", "U_SIGN"} /\ pc \in Trapping /\ CauseAt(pc) = U_ECALL
    BY DEF UCount, USign, Trapping, CauseAt
  <1> DEFINE r(svc, x, y) == [regs EXCEPT !["a0"] = x, !["a1"] = y, !["a7"] = svc]
  <1>2. ASSUME NEW svc \in Int, NEW x \in Int, NEW y \in Int
        PROVE  /\ r(svc, x, y) \in [Reg -> Int] /\ r(svc, x, y)["sp"] = regs["sp"]
               /\ r(svc, x, y)["a7"] = svc /\ r(svc, x, y)["a0"] = x /\ r(svc, x, y)["a1"] = y
    BY DEF PmpInv, DataOK, Reg, FrameRegs
  <1>3. CASE UCount
    <2>1. Trap(CauseAt(pc), r(GET_COUNTER, 0, 0)) /\ pc # "U_SIGN"
      BY <1>1, <1>3 DEF UCount, Ecall
    <2>2. GET_COUNTER \in Int
      BY DEF GET_COUNTER
    <2> HIDE DEF r
    <2> QED
      BY <1>1, <1>2, <2>1, <2>2, Trapped
  <1>4. CASE USign
    <2>1. Trap(CauseAt(pc), r(SIGN, CHALLENGE, 16)) /\ pc = "U_SIGN"
      BY <1>1, <1>4 DEF USign, Ecall
    <2>2. SIGN \in Int /\ CHALLENGE \in Int
      BY ObjectFacts DEF SIGN
    <2> HIDE DEF r
    <2> QED
      BY <1>1, <1>2, <2>1, <2>2, Trapped
  <1> QED
    BY <1>3, <1>4

LEMMA StepUReadSecret ==
    ASSUME PmpInv, UReadSecret
    PROVE  PmpInv' /\ pc' = "SWAP" /\ csr'.mepc = "U_READ"
  <1> USE DEF FromMagic, FromBefore, FromRecovery, FromRead, FromA11, FromUp, FromCnt1, FromCnt2,
              FromBad
  <1>1. pc = "U_READ" /\ Point = "U_READ" /\ pc \in Trapping /\ mode = "U"
    BY DEF UReadSecret, Point, TrapPc, HandlerPc, Trapping, PmpInv, PlaceOK, UPc
  <1>2. ~Allowed(mode, "prot")
    BY <1>1, ProtAllowed DEF PmpInv
  <1>3. Trap(CauseAt(pc), regs) /\ regs \in [Reg -> Int]
    BY <1>1, <1>2 DEF UReadSecret, CauseAt, PmpInv, DataOK
  <1> QED
    BY <1>1, <1>3, Trapped

-----------------------------------------------------------------------------
(* trap_entry: the code around trap_dispatch(). *)
LEMMA FrameStep ==
    ASSUME PmpInv, pc \in TrapPc, Point' = Point, UNCHANGED <<pmp, store>>,
           csr'.mtvec = csr.mtvec, csr'.cfgm0 = csr.cfgm0,
           pc \notin {"HALT", "DISPATCH"}, pc' # "HALT", pc' = "DISPATCH" => idx' = 0,
           pc' \notin {"ZERO", "MAGIC"}
    PROVE  UnitsOK' /\ MailboxAt' /\ MailboxConsistent'
  <1>1. UNCHANGED <<pmp, g_mb, g_prot, g_stage, challenge>>
    BY DEF store
  <1>2. UnitsOK'
    BY <1>1 DEF PmpInv, UnitsOK
  <1>3. MailboxAt'
    BY <1>1 DEF PmpInv, MailboxAt
  <1>4. MailboxConsistent'
    BY <1>1 DEF PmpInv, MailboxConsistent
  <1> QED
    BY <1>2, <1>3, <1>4

(* csrrw sp, mscratch, sp *)
LEMMA Swapped ==
    ASSUME PmpInv, NEW from, NEW next, SwapStacks(from, next)
    PROVE  /\ regs' = [regs EXCEPT !["sp"] = csr.mscratch]
           /\ regs'["sp"] = csr.mscratch /\ \A r \in Reg \ {"sp"} : regs'[r] = regs[r]
           /\ csr'.mscratch = regs["sp"] /\ csr'.mtvec = csr.mtvec /\ csr'.mepc = csr.mepc
           /\ csr'.mcause = csr.mcause /\ csr'.mpp = csr.mpp /\ csr'.cfgm0 = csr.cfgm0
           /\ DataOK'
  <1>1. /\ regs' = [regs EXCEPT !["sp"] = csr.mscratch] /\ csr' = [csr EXCEPT !.mscratch = regs["sp"]]
        /\ UNCHANGED <<saved, before, g_mb, g_prot>>
    BY DEF SwapStacks, store
  <1>2. regs \in [Reg -> Int] /\ "sp" \in Reg /\ regs["sp"] \in Int /\ csr.mscratch \in Int
    BY RegNames DEF PmpInv, DataOK
  <1>3. /\ regs' \in [Reg -> Int] /\ regs'["sp"] = csr.mscratch
        /\ \A r \in Reg \ {"sp"} : regs'[r] = regs[r]
    BY <1>1, <1>2
  <1>4. DataOK'
    BY <1>1, <1>2, <1>3 DEF PmpInv, DataOK
  <1> QED
    BY <1>1, <1>3, <1>4 DEF PmpInv, DataOK

LEMMA StepEnterTrap == ASSUME PmpInv, EnterTrap PROVE PmpInv' /\ Point' = Point
  <1>1. /\ pc = "SWAP" /\ pc' = "SAVE" /\ idx' = 0 /\ SwapStacks("SWAP", "SAVE")
        /\ UNCHANGED <<mode, saved, before, pmp, store>>
    BY DEF EnterTrap, SwapStacks, Goto
  <1>2. pc \in TrapPc /\ pc' \in TrapPc /\ pc \notin HandlerPc /\ pc' \in HandlerPc
    BY <1>1 DEF TrapPc, HandlerPc
  <1>3. Point' = Point
    BY <1>1, <1>2, Swapped DEF Point
  <1>4. PlaceOK'
    BY <1>1, <1>2, Swapped DEF PmpInv, PlaceOK, UPc
  <1>5. UnitsOK' /\ MailboxAt' /\ MailboxConsistent'
    BY <1>1, <1>2, <1>3, Swapped, FrameStep
  <1>6. csr.mtvec = "trap_entry" /\ regs["sp"] = MAIN_SP /\ csr.mscratch = TRAP_TOP
    <2>1. Point \in Trapping
      BY <1>1, <1>2 DEF PmpInv, PlaceOK, Point
    <2> QED
      BY <1>2, <2>1 DEF PmpInv, UnitsOK, RegsOK, StacksApart, Trapping
  <1>7. RegsOK'
    BY <1>1, <1>2, <1>6, Swapped DEF PmpInv, RegsOK, StacksApart
  <1>8. CallsOK'
    BY <1>1, <1>2, <1>3, Swapped DEF PmpInv, CallsOK, PlaceOK, Trapping, Point
  <1> QED
    BY <1>3, <1>4, <1>5, <1>7, <1>8, <1>1, Swapped DEF PmpInv

LEMMA StepSaveFrame == ASSUME PmpInv, SaveFrame PROVE PmpInv' /\ Point' = Point
  <1>1. /\ pc = "SAVE" /\ pc' = "DISPATCH" /\ idx' = 0
        /\ saved' = [at |-> regs["sp"] - 64, regs |-> [r \in FrameRegs |-> regs[r]]]
        /\ regs' = [regs EXCEPT !["sp"] = regs["sp"] - 64, !["a0"] = regs["sp"] - 64, !["ra"] = JUNK]
        /\ UNCHANGED <<mode, csr, before, pmp, store>>
    BY DEF SaveFrame, Goto
  <1>2. pc \in HandlerPc /\ pc' \in HandlerPc /\ pc \in TrapPc /\ pc' \in TrapPc
    BY <1>1 DEF TrapPc, HandlerPc
  <1>3. Point' = Point
    BY <1>1, <1>2 DEF Point
  <1>4. regs["sp"] = TRAP_TOP /\ regs["sp"] - 64 \in Int /\ regs \in [Reg -> Int]
    BY <1>1, ObjectFacts DEF PmpInv, RegsOK, DataOK
  <1>5. /\ regs' \in [Reg -> Int] /\ regs'["sp"] = TRAP_TOP - 64 /\ regs'["s0"] = regs["s0"]
    BY <1>1, <1>4, ObjectFacts, RegNames
  <1>6. /\ saved'.at = TRAP_TOP - 64 /\ \A r \in FrameRegs : saved'.regs[r] = regs[r]
        /\ saved' \in [at : Int, regs : [FrameRegs -> Int]]
    BY <1>1, <1>4, RegNames
  <1>7. DataOK'
    BY <1>1, <1>5, <1>6 DEF PmpInv, DataOK, store
  <1>8. PlaceOK'
    BY <1>1, <1>2 DEF PmpInv, PlaceOK, UPc
  <1>9. UnitsOK' /\ MailboxAt' /\ MailboxConsistent'
    BY <1>1, <1>2, <1>3, FrameStep
  <1>10. RegsOK'
    <2>1. \A r \in FrameRegs : saved'.regs[r] = before'.regs[r]
      BY <1>1, <1>6, RegNames DEF PmpInv, RegsOK
    <2>2. regs'["s0"] = before'.regs["s0"]
      BY <1>1, <1>5, RegNames DEF PmpInv, RegsOK
    <2> QED
      BY <1>1, <1>2, <1>5, <1>6, <2>1, <2>2 DEF PmpInv, RegsOK, StacksApart
  <1>11. CallsOK'
    BY <1>1, <1>2, <1>3 DEF PmpInv, CallsOK, PlaceOK, Trapping, Point
  <1> QED
    BY <1>3, <1>7, <1>8, <1>9, <1>10, <1>11 DEF PmpInv

LEMMA StepRestoreFrame == ASSUME PmpInv, RestoreFrame PROVE PmpInv' /\ Point' = Point
  <1>1. /\ pc = "RESTORE" /\ pc' = "SWAP_BACK" /\ idx' = 0
        /\ regs' = [r \in Reg |-> IF r = "sp" THEN regs["sp"] + 64
                                   ELSE IF r \in FrameRegs /\ saved.at = regs["sp"]
                                        THEN saved.regs[r] ELSE regs[r]]
        /\ UNCHANGED <<mode, csr, saved, before, pmp, store>>
    BY DEF RestoreFrame, Goto
  <1>2. pc \in HandlerPc /\ pc' \in HandlerPc /\ pc \in TrapPc /\ pc' \in TrapPc
    BY <1>1 DEF TrapPc, HandlerPc
  <1>3. Point' = Point
    BY <1>1, <1>2 DEF Point
  <1>4. /\ saved.at = regs["sp"] /\ regs["sp"] = TRAP_TOP - 64 /\ regs["s0"] = before.regs["s0"]
        /\ saved.regs \in [FrameRegs -> Int] /\ regs \in [Reg -> Int] /\ before.regs["sp"] = MAIN_SP
    BY <1>1, <1>2 DEF PmpInv, RegsOK, DataOK
  <1>5. /\ regs'["sp"] = TRAP_TOP /\ regs'["s0"] = before.regs["s0"]
        /\ \A r \in FrameRegs : regs'[r] = saved.regs[r]
        /\ regs' \in [Reg -> Int]
    BY <1>1, <1>4, ObjectFacts, RegNames
  <1>6. DataOK'
    BY <1>1, <1>5 DEF PmpInv, DataOK, store
  <1>7. PlaceOK'
    BY <1>1, <1>2 DEF PmpInv, PlaceOK, UPc
  <1>8. UnitsOK' /\ MailboxAt' /\ MailboxConsistent'
    BY <1>1, <1>2, <1>3, FrameStep
  <1>9. RegsOK'
    <2>1. \A r \in Reg \ {"sp"} : regs'[r] = before.regs[r] \/ (r = "a0" /\ csr.mcause = U_ECALL)
      BY <1>1, <1>5, RegNames DEF PmpInv, RegsOK
    <2> QED
      BY <1>1, <1>2, <1>4, <1>5, <2>1 DEF PmpInv, RegsOK, StacksApart
  <1>10. CallsOK'
    BY <1>1, <1>3, <1>5, RegNames DEF PmpInv, CallsOK, store
  <1> QED
    BY <1>3, <1>6, <1>7, <1>8, <1>9, <1>10 DEF PmpInv

LEMMA StepLeaveTrap == ASSUME PmpInv, LeaveTrap PROVE PmpInv' /\ Point' = Point
  <1>1. /\ pc = "SWAP_BACK" /\ pc' = "MRET" /\ idx' = 0 /\ SwapStacks("SWAP_BACK", "MRET")
        /\ UNCHANGED <<mode, saved, before, pmp, store>>
    BY DEF LeaveTrap, SwapStacks, Goto
  <1>2. pc \in TrapPc /\ pc' \in TrapPc /\ pc \in HandlerPc /\ pc' \notin HandlerPc
    BY <1>1 DEF TrapPc, HandlerPc
  <1>3. Point' = Point
    BY <1>1, <1>2, Swapped DEF Point
  <1>4. PlaceOK'
    BY <1>1, <1>2, Swapped DEF PmpInv, PlaceOK, UPc
  <1>5. UnitsOK' /\ MailboxAt' /\ MailboxConsistent'
    BY <1>1, <1>2, <1>3, Swapped, FrameStep
  <1>6. csr.mtvec = "trap_entry" /\ regs["sp"] = TRAP_TOP /\ csr.mscratch = MAIN_SP
    <2>1. Point \in Resumed
      BY <1>1, <1>2 DEF PmpInv, PlaceOK, Point
    <2> QED
      BY <1>1, <1>2, <2>1 DEF PmpInv, UnitsOK, RegsOK, StacksApart, Resumed
  <1>7. RegsOK'
    BY <1>1, <1>2, <1>6, Swapped DEF PmpInv, RegsOK, StacksApart
  <1>8. CallsOK'
    BY <1>1, <1>2, <1>3, Swapped, RegNames DEF PmpInv, CallsOK, store
  <1> QED
    BY <1>1, <1>3, <1>4, <1>5, <1>7, <1>8, Swapped DEF PmpInv

LEMMA StepTrapMret == ASSUME PmpInv, TrapMret PROVE PmpInv' /\ Point' = Point /\ pc' = csr.mepc
  <1>1. /\ pc = "MRET" /\ pc' = csr.mepc /\ idx' = 0 /\ mode' = csr.mpp
        /\ csr' = [csr EXCEPT !.mpp = "U"]
        /\ UNCHANGED <<regs, saved, before, pmp, store>>
    BY DEF TrapMret, Resume, Goto
  <1>2. pc \in TrapPc /\ pc \notin HandlerPc /\ csr.mepc \in Resumed
    BY <1>1 DEF TrapPc, HandlerPc, PmpInv, PlaceOK
  <1>3. pc' \in RunPc /\ pc' \notin TrapPc /\ pc' \notin HandlerPc /\ pc' \notin {"ZERO", "MAGIC"}
    BY <1>1, <1>2 DEF Resumed, RunPc, MainPc, UPc, TrapPc, HandlerPc
  <1>4. Point' = Point
    BY <1>1, <1>2, <1>3 DEF Point
  <1>5. /\ csr'.mscratch = csr.mscratch /\ csr'.mtvec = csr.mtvec /\ csr'.cfgm0 = csr.cfgm0
        /\ DataOK'
    BY <1>1 DEF PmpInv, DataOK, store
  <1>6. PlaceOK'
    <2>1. mode' = (IF pc' \in UPc THEN "U" ELSE "M")
      BY <1>1, <1>2 DEF PmpInv, PlaceOK
    <2> QED
      BY <1>1, <1>3, <2>1 DEF PlaceOK, RunPc, TrapPc, HandlerPc
  <1>7. UnitsOK' /\ MailboxAt' /\ MailboxConsistent'
    <2>1. pc' \notin {"HALT", "DISPATCH"}
      BY <1>3 DEF TrapPc, HandlerPc
    <2> QED
      BY <1>1, <1>2, <1>3, <1>4, <1>5, <2>1, FrameStep
  <1>8. RegsOK'
    BY <1>1, <1>2, <1>3, <1>5 DEF PmpInv, RegsOK, StacksApart, TrapPc, HandlerPc
  <1>9. CallsOK'
    BY <1>1, <1>3, <1>4 DEF PmpInv, CallsOK, store, TrapPc, HandlerPc
  <1> QED
    BY <1>1, <1>4, <1>5, <1>6, <1>7, <1>8, <1>9 DEF PmpInv

-----------------------------------------------------------------------------
(* trap_dispatch(). *)
LEMMA AfterTrapping ==
    /\ After("XH3_LOAD") = "XH3_AFTER" /\ After("U_CNT1") = "U_CNT1_SW"
    /\ After("U_CNT2") = "U_CNT2_SW" /\ After("U_SIGN") = "U_SIGN0"
  BY DEF After

(* Its return, whatever it did to the services' state. *)
LEMMA Returned ==
    ASSUME PmpInv, pc = "DISPATCH", NEW epc \in Resumed, NEW a0 \in Int,
           CauseAt(epc) = csr.mcause, epc \in UPc <=> csr.mepc \in UPc,
           a0 = saved.regs["a0"] \/ csr.mcause = U_ECALL,
           ReturnTo(epc, {}, a0), g_mb' \in [MbField -> Int], g_prot' \in [secret : Int, counter : 0..2],
           epc \in {"U_CNT1_SW", "U_CNT2_SW"} => a0 = g_prot'.counter
    PROVE  /\ Point = csr.mepc /\ Point' = epc /\ pc' = "RESTORE" /\ pmp' = pmp
           /\ csr'.mtvec = csr.mtvec /\ csr'.cfgm0 = {}
           /\ DataOK' /\ PlaceOK' /\ RegsOK' /\ CallsOK'
  <1>1. /\ pc' = "RESTORE" /\ idx' = 0 /\ csr' = [csr EXCEPT !.mepc = epc, !.cfgm0 = {}]
        /\ saved' = [saved EXCEPT !.regs = [saved.regs EXCEPT !["a0"] = a0]]
        /\ regs' = [r \in Reg |-> IF r \in FrameRegs THEN JUNK ELSE regs[r]]
        /\ UNCHANGED <<mode, before, pmp>>
    BY DEF ReturnTo, Goto
  <1>2. pc \in HandlerPc /\ pc' \in HandlerPc /\ pc \in TrapPc /\ pc' \in TrapPc
    BY <1>1 DEF TrapPc, HandlerPc
  <1>3. /\ csr'.mepc = epc /\ csr'.mcause = csr.mcause /\ csr'.mpp = csr.mpp
        /\ csr'.mscratch = csr.mscratch /\ csr'.mtvec = csr.mtvec /\ csr'.cfgm0 = {}
        /\ csr' \in [mscratch : Int, mtvec : {"sdk", "trap_entry"}, mepc : MainPc \cup UPc,
                     mcause : Int, mpp : {"M", "U"}, cfgm0 : SUBSET {0}]
    BY <1>1 DEF PmpInv, DataOK, Resumed, MainPc, UPc
  <1>4. Point = csr.mepc /\ Point' = epc
    BY <1>2, <1>3 DEF Point
  <1>5. /\ saved'.at = saved.at /\ saved'.regs["a0"] = a0
        /\ \A r \in FrameRegs \ {"a0"} : saved'.regs[r] = saved.regs[r]
        /\ saved' \in [at : Int, regs : [FrameRegs -> Int]]
    <2>1. saved \in [at : Int, regs : [FrameRegs -> Int]] /\ "a0" \in FrameRegs
      BY RegNames DEF PmpInv, DataOK
    <2>2. [saved.regs EXCEPT !["a0"] = a0] \in [FrameRegs -> Int]
      BY <2>1
    <2> QED
      BY <1>1, <2>1, <2>2
  <1>6. /\ regs' \in [Reg -> Int] /\ regs'["sp"] = regs["sp"] /\ regs'["s0"] = regs["s0"]
    BY <1>1, ObjectFacts, RegNames DEF PmpInv, DataOK
  <1>7. DataOK'
    BY <1>1, <1>3, <1>5, <1>6 DEF PmpInv, DataOK
  <1>8. PlaceOK'
    BY <1>1, <1>2, <1>3 DEF PmpInv, PlaceOK, UPc
  <1>9. RegsOK'
    <2>1. \A r \in FrameRegs : \/ saved'.regs[r] = before'.regs[r]
                               \/ r = "a0" /\ csr'.mcause = U_ECALL
      BY <1>1, <1>3, <1>5 DEF PmpInv, RegsOK
    <2> QED
      BY <1>1, <1>2, <1>3, <1>5, <1>6, <2>1 DEF PmpInv, RegsOK, StacksApart
  <1>10. CallsOK'
    BY <1>1, <1>4, <1>5 DEF CallsOK
  <1> QED
    BY <1>1, <1>3, <1>4, <1>7, <1>8, <1>9, <1>10

(* What the dispatcher finds. *)
LEMMA Dispatched ==
    ASSUME PmpInv, pc = "DISPATCH"
    PROVE  /\ Point = csr.mepc /\ Point \in Trapping /\ csr.mcause = CauseAt(Point) /\ mode = "M"
           /\ saved.regs["a7"] = before.regs["a7"] /\ saved.regs["a0"] = before.regs["a0"]
           /\ saved.regs["a1"] = before.regs["a1"] /\ saved.regs \in [FrameRegs -> Int]
           /\ Point # "XH3_LOAD" => Allowed(mode, "prot")
  <1>1. Point = csr.mepc /\ Point \in Trapping /\ csr.mcause = CauseAt(Point) /\ mode = "M"
    BY DEF PmpInv, PlaceOK, Point, TrapPc, HandlerPc, UPc
  <1>2. {"a7", "a0", "a1"} \subseteq FrameRegs
    BY DEF FrameRegs
  <1>3. \A r \in FrameRegs : saved.regs[r] = before.regs[r]
    BY DEF PmpInv, RegsOK
  <1>4. Point # "XH3_LOAD" => Allowed(mode, "prot")
    BY <1>1, ProtAllowed DEF PmpInv, Trapping, FromMagic, FromBefore, FromRecovery, FromRead,
       FromA11, FromUp, FromCnt1, FromCnt2, FromBad
  <1> QED
    BY <1>1, <1>2, <1>3, <1>4 DEF PmpInv, DataOK

LEMMA StepServeCounter ==
    ASSUME PmpInv, ServeCounter
    PROVE  /\ PmpInv' /\ pc = "DISPATCH" /\ pc' = "RESTORE"
           /\ Point \in {"U_CNT1", "U_CNT2"} /\ Point' \in {"U_CNT1_SW", "U_CNT2_SW"}
           /\ g_prot'.counter = g_prot.counter + 1 /\ challenge' = challenge
  <1> USE DEF FromMagic, FromBefore, FromRecovery, FromRead, FromA11, FromUp, FromCnt1, FromCnt2,
              FromBad
  <1>1. pc = "DISPATCH" /\ csr.mcause = U_ECALL /\ saved.regs["a7"] = GET_COUNTER
    BY DEF ServeCounter, AtDispatch, Service
  <1>2. Point = csr.mepc /\ Point \in {"U_CNT1", "U_CNT2"} /\ Allowed(mode, "prot")
    BY <1>1, Dispatched DEF Trapping, CauseAt, U_ECALL, LOAD_FAULT, GET_COUNTER, SIGN, PmpInv, CallsOK
  <1>3. /\ g_prot' = [g_prot EXCEPT !.counter = g_prot.counter + 1]
        /\ ReturnTo(Skip(csr.mepc, 4), csr.cfgm0, g_prot.counter + 1)
        /\ UNCHANGED <<g_mb, g_stage, challenge>>
    BY <1>2 DEF ServeCounter
  <1>4. /\ csr.cfgm0 = {} /\ g_prot.counter = (IF Point = "U_CNT1" THEN 0 ELSE 1)
        /\ g_prot.secret = SECRET /\ g_prot \in [secret : Int, counter : 0..2]
    BY <1>2 DEF PmpInv, UnitsOK, DataOK
  <1>5. /\ g_prot' \in [secret : Int, counter : 0..2] /\ g_prot'.secret = SECRET
        /\ g_prot'.counter = g_prot.counter + 1
    BY <1>2, <1>3, <1>4
  <1> DEFINE epc == IF Point = "U_CNT1" THEN "U_CNT1_SW" ELSE "U_CNT2_SW"
  <1>6. Skip(csr.mepc, 4) = epc /\ epc \in Resumed
    BY <1>2, AfterTrapping DEF Skip, Size, HalfwordAt, ECALL, Resumed
  <1>7. /\ CauseAt(epc) = csr.mcause /\ (epc \in UPc <=> csr.mepc \in UPc)
        /\ g_prot.counter + 1 \in Int /\ g_prot.counter + 1 = g_prot'.counter
    BY <1>1, <1>2, <1>4, <1>5 DEF CauseAt, UPc
  <1>8. /\ Point' = epc /\ pc' = "RESTORE" /\ pmp' = pmp
        /\ csr'.mtvec = csr.mtvec /\ csr'.cfgm0 = {}
        /\ DataOK' /\ PlaceOK' /\ RegsOK' /\ CallsOK'
    <2>1. ReturnTo(epc, {}, g_prot.counter + 1) /\ g_mb' \in [MbField -> Int]
      BY <1>3, <1>4, <1>6 DEF PmpInv, DataOK
    <2> HIDE DEF epc
    <2> QED
      BY <1>1, <1>5, <1>6, <1>7, <2>1, Returned
  <1>9. UnitsOK'
    BY <1>2, <1>3, <1>4, <1>5, <1>8 DEF PmpInv, UnitsOK
  <1>10. MailboxAt'
    BY <1>1, <1>2, <1>3, <1>8 DEF PmpInv, MailboxAt
  <1> QED
    BY <1>1, <1>2, <1>3, <1>5, <1>8, <1>9, <1>10, ConsistentNext DEF PmpInv, MagicGone

LEMMA StepServeSign ==
    ASSUME PmpInv, ServeSign
    PROVE  /\ PmpInv' /\ pc = "DISPATCH" /\ pc' = "RESTORE"
           /\ Point = "U_SIGN" /\ Point' = "U_SIGN0" /\ UNCHANGED g_prot
           /\ challenge = "plain" /\ challenge' = "keyed"
  <1> USE DEF FromMagic, FromBefore, FromRecovery, FromRead, FromA11, FromUp, FromCnt1, FromCnt2,
              FromBad
  <1>1. pc = "DISPATCH" /\ csr.mcause = U_ECALL /\ saved.regs["a7"] # GET_COUNTER
    BY DEF ServeSign, AtDispatch, Service
  <1>2. Point = csr.mepc /\ Point = "U_SIGN" /\ Allowed(mode, "prot")
    BY <1>1, Dispatched DEF Trapping, CauseAt, U_ECALL, LOAD_FAULT, PmpInv, CallsOK
  <1>3. saved.regs["a7"] = SIGN /\ saved.regs["a0"] = CHALLENGE /\ saved.regs["a1"] = 16
    BY <1>1, <1>2, Dispatched DEF PmpInv, CallsOK
  <1>4. csr.cfgm0 = {} /\ challenge = "plain"
    BY <1>2 DEF PmpInv, UnitsOK
  <1>5. /\ challenge' = "keyed" /\ ReturnTo(Skip(csr.mepc, 4), csr.cfgm0, 0)
        /\ UNCHANGED <<g_mb, g_prot, g_stage>>
    BY <1>2, <1>3, <1>4, ChallengeAccepted DEF ServeSign, Service
  <1>6. Skip(csr.mepc, 4) = "U_SIGN0" /\ "U_SIGN0" \in Resumed
    BY <1>2, AfterTrapping DEF Skip, Size, HalfwordAt, ECALL, Resumed
  <1>7. /\ CauseAt("U_SIGN0") = csr.mcause /\ ("U_SIGN0" \in UPc <=> csr.mepc \in UPc)
        /\ "U_SIGN0" \notin {"U_CNT1_SW", "U_CNT2_SW"}
    BY <1>1, <1>2 DEF CauseAt, UPc
  <1>8. /\ Point' = "U_SIGN0" /\ pc' = "RESTORE" /\ pmp' = pmp
        /\ csr'.mtvec = csr.mtvec /\ csr'.cfgm0 = {}
        /\ DataOK' /\ PlaceOK' /\ RegsOK' /\ CallsOK'
    <2>1. ReturnTo("U_SIGN0", {}, 0)
      BY <1>4, <1>5, <1>6
    <2>2. g_mb' \in [MbField -> Int] /\ g_prot' \in [secret : Int, counter : 0..2] /\ 0 \in Int
      BY <1>5 DEF PmpInv, DataOK
    <2> QED
      BY <1>1, <1>6, <1>7, <2>1, <2>2, Returned
  <1>9. UnitsOK'
    BY <1>2, <1>5, <1>8 DEF PmpInv, UnitsOK
  <1>10. MailboxAt'
    BY <1>1, <1>2, <1>5, <1>8 DEF PmpInv, MailboxAt
  <1> QED
    BY <1>1, <1>2, <1>4, <1>5, <1>8, <1>9, <1>10, ConsistentNext DEF PmpInv, MagicGone

LEMMA StepRecover ==
    ASSUME PmpInv, Recover
    PROVE  /\ PmpInv' /\ pc = "DISPATCH" /\ pc' = "RESTORE"
           /\ Point = "XH3_LOAD" /\ Point' = "XH3_AFTER" /\ UNCHANGED <<g_prot, challenge>>
  <1> USE DEF FromMagic, FromBefore, FromRecovery, FromRead, FromA11, FromUp, FromCnt1, FromCnt2,
              FromBad
  <1>1. pc = "DISPATCH" /\ csr.mcause \in Faults /\ g_stage = "xh3"
    BY DEF Recover, AtDispatch
  <1>2. Point = csr.mepc /\ Point = "XH3_LOAD" /\ csr.mcause = LOAD_FAULT
    BY <1>1, Dispatched DEF PmpInv, UnitsOK, CauseAt
  <1>3. /\ g_mb' = [g_mb EXCEPT !["XH3_MCAUSE"] = csr.mcause] /\ g_stage' = "u"
        /\ ReturnTo(Skip(csr.mepc, Length(HalfwordAt(csr.mepc))), {}, saved.regs["a0"])
        /\ UNCHANGED <<g_prot, challenge>>
    BY DEF Recover
  <1>4. /\ g_mb' \in [MbField -> Int]
        /\ \A g \in MbField : g_mb'[g] = IF g = "XH3_MCAUSE" THEN LOAD_FAULT ELSE g_mb[g]
    BY <1>2, <1>3 DEF PmpInv, DataOK, LOAD_FAULT
  <1>5. Skip(csr.mepc, Length(HalfwordAt(csr.mepc))) = "XH3_AFTER" /\ "XH3_AFTER" \in Resumed
    BY <1>2, AfterTrapping DEF Skip, Size, Length, Resumed
  <1>6. /\ CauseAt("XH3_AFTER") = csr.mcause /\ ("XH3_AFTER" \in UPc <=> csr.mepc \in UPc)
        /\ "XH3_AFTER" \notin {"U_CNT1_SW", "U_CNT2_SW"}
    BY <1>2 DEF CauseAt, UPc
  <1>7. /\ Point' = "XH3_AFTER" /\ pc' = "RESTORE" /\ pmp' = pmp
        /\ csr'.mtvec = csr.mtvec /\ csr'.cfgm0 = {}
        /\ DataOK' /\ PlaceOK' /\ RegsOK' /\ CallsOK'
    <2>1. ReturnTo("XH3_AFTER", {}, saved.regs["a0"]) /\ saved.regs["a0"] \in Int
      BY <1>1, <1>3, <1>5, Dispatched, RegNames
    <2>2. g_prot' \in [secret : Int, counter : 0..2]
      BY <1>3 DEF PmpInv, DataOK
    <2> QED
      BY <1>1, <1>4, <1>5, <1>6, <2>1, <2>2, Returned
  <1>8. UnitsOK'
    BY <1>2, <1>3, <1>7 DEF PmpInv, UnitsOK
  <1>9. MailboxAt'
    BY <1>1, <1>2, <1>4, <1>7 DEF PmpInv, MailboxAt, MbField
  <1> QED
    BY <1>1, <1>2, <1>3, <1>7, <1>8, <1>9, ConsistentNext DEF PmpInv, MagicGone

(* The three stores about the fault that is not recovered from. *)
LEMMA StepCatchFault ==
    ASSUME PmpInv, CatchFault
    PROVE  /\ PmpInv' /\ pc = "DISPATCH" /\ pc' \in {"DISPATCH", "HALT"}
           /\ Point = "U_READ" /\ Point' = Point /\ UNCHANGED <<csr, pmp, mode, g_prot, challenge>>
  <1> USE DEF FromMagic, FromBefore, FromRecovery, FromRead, FromA11, FromUp, FromCnt1, FromCnt2,
              FromBad
  <1>1. pc = "DISPATCH" /\ Unrecovered
    BY DEF CatchFault
  <1>2. Point = "U_READ" /\ csr.mepc = "U_READ" /\ csr.mcause = LOAD_FAULT /\ mode = "M"
    BY <1>1, Dispatched DEF Unrecovered, Trapping, CauseAt, PmpInv, UnitsOK, Faults
  <1>3. Allowed(mode, "ram")
    BY RamAllowed DEF PmpInv
  <1>4. /\ UNCHANGED <<mode, regs, csr, saved, before, pmp, g_prot, g_stage, challenge>>
        /\ \/ /\ idx = 0 /\ pc' = "DISPATCH" /\ idx' = 1
              /\ g_mb' = [g_mb EXCEPT !["MCAUSE"] = LOAD_FAULT]
           \/ /\ idx = 1 /\ pc' = "DISPATCH" /\ idx' = 2
              /\ \E mtval \in {0, G_PROT} : g_mb' = [g_mb EXCEPT !["MTVAL"] = mtval]
           \/ /\ idx = 2 /\ pc' = "HALT" /\ idx' = 0
              /\ g_mb' = [g_mb EXCEPT !["STAGE"] = CAUGHT]
    BY <1>1, <1>2, <1>3 DEF CatchFault, Put, Goto, hart, Faults
  <1>5. \E f \in {"MCAUSE", "MTVAL", "STAGE"}, v \in Int :
          /\ g_mb' = [g_mb EXCEPT ![f] = v]
          /\ f = "MCAUSE" => idx = 0 /\ v = LOAD_FAULT
          /\ f = "MTVAL" => idx = 1 /\ v \in {0, G_PROT}
          /\ f = "STAGE" => idx = 2 /\ v = CAUGHT
    BY <1>4, ObjectFacts DEF LOAD_FAULT, CAUGHT
  <1>6. PICK f \in {"MCAUSE", "MTVAL", "STAGE"}, v \in Int :
          /\ g_mb' = [g_mb EXCEPT ![f] = v]
          /\ f = "MCAUSE" => idx = 0 /\ v = LOAD_FAULT
          /\ f = "MTVAL" => idx = 1 /\ v \in {0, G_PROT}
          /\ f = "STAGE" => idx = 2 /\ v = CAUGHT
    BY <1>5
  <1>7. /\ g_mb' \in [MbField -> Int]
        /\ \A g \in MbField : g_mb'[g] = IF g = f THEN v ELSE g_mb[g]
    BY <1>6 DEF PmpInv, DataOK, MbField
  <1>8. pc' \in {"DISPATCH", "HALT"} /\ Point' = Point
    BY <1>1, <1>4 DEF Point, TrapPc, HandlerPc
  <1>9. DataOK'
    BY <1>4, <1>7 DEF PmpInv, DataOK
  <1>10. PlaceOK'
    BY <1>1, <1>2, <1>4 DEF PmpInv, PlaceOK, UPc, TrapPc, HandlerPc
  <1>11. UnitsOK'
    BY <1>4, <1>8 DEF PmpInv, UnitsOK
  <1>12. RegsOK' /\ CallsOK'
    BY <1>1, <1>2, <1>4, <1>8 DEF PmpInv, RegsOK, StacksApart, CallsOK, TrapPc, HandlerPc
  <1>13. MailboxAt'
    BY <1>1, <1>2, <1>4, <1>6, <1>7, <1>8 DEF PmpInv, MailboxAt, MbField
  <1> QED
    BY <1>1, <1>2, <1>4, <1>8, <1>9, <1>10, <1>11, <1>12, <1>13, ConsistentNext DEF PmpInv, MagicGone

-----------------------------------------------------------------------------
LEMMA StepReset == ASSUME PmpInv, Reset PROVE PmpInv'
  <1> USE DEF FromMagic, FromBefore, FromRecovery, FromRead, FromA11, FromUp, FromCnt1, FromCnt2,
              FromBad
  <1>1. /\ pc' = "ZERO" /\ idx' = 1 /\ mode' = "M" /\ regs' = LIVE /\ csr' = ResetCsr
        /\ pmp' = ResetPmp /\ g_prot' = [secret |-> 0, counter |-> 0] /\ g_stage' = "none"
        /\ challenge' = "zero" /\ saved' = ResetSaved /\ g_mb' = g_mb
        /\ before' = [pc |-> "ZERO", mode |-> "M", regs |-> LIVE]
    BY DEF Reset, Goto
  <1>2. Point' = "ZERO"
    BY <1>1 DEF Point, TrapPc, HandlerPc
  <1>3. DataOK'
    BY <1>1, ObjectFacts DEF PmpInv, DataOK, ResetCsr, ResetSaved, MainPc
  <1>4. PlaceOK'
    BY <1>1 DEF PlaceOK, MainPc, UPc, TrapPc, HandlerPc
  <1>5. UnitsOK'
    BY <1>1, <1>2 DEF UnitsOK, ResetCsr
  <1>6. RegsOK' /\ CallsOK'
    BY <1>1, <1>2, ObjectFacts DEF RegsOK, CallsOK, StacksApart, ResetCsr, TrapPc, HandlerPc
  <1>7. MailboxAt' /\ MailboxConsistent'
    BY <1>1, <1>2 DEF PmpInv, MailboxAt, MailboxConsistent
  <1> QED
    BY <1>3, <1>4, <1>5, <1>6, <1>7 DEF PmpInv

LEMMA StepStutter ==
    ASSUME PmpInv, UNCHANGED vars
    PROVE  PmpInv' /\ UNCHANGED <<pc, mode, csr, pmp, Point, g_mb, g_prot, challenge>>
  <1>1. UNCHANGED <<pc, idx, mode, regs, csr, saved, before, pmp, g_mb, g_prot, g_stage, challenge>>
    BY DEF vars, hart, store
  <1>2. Point' = Point
    BY <1>1 DEF Point
  <1>3. DataOK' /\ PlaceOK'
    BY <1>1 DEF PmpInv, DataOK, PlaceOK
  <1>4. UnitsOK' /\ CallsOK'
    BY <1>1, <1>2 DEF PmpInv, UnitsOK, CallsOK
  <1>5. RegsOK'
    BY <1>1 DEF PmpInv, RegsOK, StacksApart
  <1>6. MailboxAt' /\ MailboxConsistent'
    BY <1>1, <1>2 DEF PmpInv, MailboxAt, MailboxConsistent
  <1> QED
    BY <1>1, <1>2, <1>3, <1>4, <1>5, <1>6 DEF PmpInv

LEMMA StepPmpInv == PmpInv /\ [Next]_vars => PmpInv'
  <1> SUFFICES ASSUME PmpInv, [Next]_vars PROVE PmpInv'
    OBVIOUS
  <1>1. ASSUME ReadSecret PROVE PmpInv'
    BY <1>1, StepReadBefore, StepReadAfter DEF ReadSecret
  <1>2. ASSUME UCounted PROVE PmpInv'
    BY <1>2, StepCounted1, StepCounted2 DEF UCounted
  <1>3. CASE MainStep
    BY <1>1, <1>3, StepZeroMailbox, StepSayMagic, StepInitProt, StepSetVector, StepIsolate,
       StepRestrictM, StepTestLoad, StepSetStageU, StepSayA11, StepDropToU DEF MainStep
  <1>4. CASE UStep
    BY <1>2, <1>4, StepUUp, StepEcall, StepUFill, StepUSigned, StepUSayBad, StepUReadSecret
    DEF UStep
  <1>5. CASE TrapStep
    BY <1>5, StepEnterTrap, StepSaveFrame, StepServeCounter, StepServeSign, StepRecover,
       StepCatchFault, StepRestoreFrame, StepLeaveTrap, StepTrapMret DEF TrapStep
  <1>6. CASE Reset
    BY <1>6, StepReset
  <1>7. CASE UNCHANGED vars
    BY <1>7, StepStutter
  <1> QED
    BY <1>3, <1>4, <1>5, <1>6, <1>7 DEF Next, HartStep

(* The inductive invariant of minimal-pmp. *)
THEOREM PmpInvariant == Spec => []PmpInv
  BY InitPmpInv, StepPmpInv, PTL DEF Spec

(* Type correctness: the hart is always at an instruction, in the mode that *)
(* runs it, and never at the U-mode program's last loop.                    *)
THEOREM PmpTypeCorrect == Spec => []PmpTypeOK
  <1>1. PmpInv => PmpTypeOK
    <2> SUFFICES ASSUME PmpInv PROVE PmpTypeOK
      OBVIOUS
    <2>1. g_stage \in {"none", "xh3", "u"} /\ g_prot.counter \in 0..2
      BY DEF PmpInv, UnitsOK, DataOK
    <2> QED
      BY <2>1 DEF PmpInv, PlaceOK, DataOK, PmpTypeOK
  <1> QED
    BY <1>1, PmpInvariant, PTL

(* Handler and interrupted code never share a stack (trap_entry's swap). *)
THEOREM StacksAlwaysApart == Spec => []StacksApart
  <1>1. PmpInv => StacksApart
    BY DEF PmpInv, RegsOK
  <1> QED
    BY <1>1, PmpInvariant, PTL

(* No reader of the mailbox, at whatever instant of whatever boot, finds it *)
(* up and wrong.                                                            *)
THEOREM MailboxAlwaysConsistent == Spec => []MailboxConsistent
  <1>1. PmpInv => MailboxConsistent
    BY DEF PmpInv
  <1> QED
    BY <1>1, PmpInvariant, PTL

-----------------------------------------------------------------------------
ResetsOK == resets \in 0..MaxResets

LEMMA ResetsCounted == Spec => []ResetsOK
  <1>1. Init => ResetsOK
    BY PmpAssumption DEF Init, ResetsOK
  <1>2. ResetsOK /\ [Next]_vars => ResetsOK'
    <2> SUFFICES ASSUME ResetsOK, [Next]_vars PROVE ResetsOK'
      OBVIOUS
    <2>1. resets' = resets \/ (resets < MaxResets /\ resets' = resets + 1)
      BY DEF Next, HartStep, Reset, vars
    <2> QED
      BY <2>1, PmpAssumption DEF ResetsOK
  <1> QED
    BY <1>1, <1>2, PTL DEF Spec

(* What a trap interrupted, and where and how it will go on.                *)
TrappedOK ==
    /\ pc \in {"SWAP", "SAVE", "DISPATCH"} => before.pc = csr.mepc
    /\ pc \in {"RESTORE", "SWAP_BACK", "MRET"} => csr.mepc = After(before.pc)
    /\ pc \in TrapPc => before.mode = csr.mpp

LEMMA TrapRemembers ==
    ASSUME PmpInv, NEW c, NEW r, Trap(c, r)
    PROVE  TrappedOK'
  <1>1. /\ pc' \in {"SWAP", "SDK"} /\ before' = [pc |-> pc, mode |-> mode, regs |-> r]
        /\ csr' = [csr EXCEPT !.mepc = pc, !.mcause = c, !.mpp = mode]
    BY DEF Trap, Goto
  <1>2. csr'.mepc = pc /\ csr'.mpp = mode
    BY <1>1 DEF PmpInv, DataOK
  <1> QED
    BY <1>1, <1>2 DEF TrappedOK, TrapPc, HandlerPc

(* The code that traps interrupt: it goes on by itself, or is interrupted.  *)
LEMMA RunsOrTraps ==
    ASSUME PmpInv, MainStep \/ UStep
    PROVE  pc' \notin TrapPc \/ \E c, r : Trap(c, r)
  <1> USE DEF Put, Goto, TrapPc, HandlerPc
  <1>1. CASE MainStep
    <2>1. After("XH3_LOAD") = "XH3_AFTER"
      BY AfterTrapping
    <2> QED
      BY <1>1, <2>1 DEF MainStep, ZeroMailbox, SayMagic, InitProt, SetVector, pmp_isolate_secret,
         ReadSecret, RestrictM, TestLoad, SetStageU, SayA11, DropToU, Resume
  <1>2. CASE UStep
    BY <1>2 DEF UStep, UUp, UCount, UCounted, UFill, USign, USigned, USayBad, UReadSecret, Ecall
  <1> QED
    BY <1>1, <1>2

(* The dispatcher skips what trapped, be it an ecall or the load.           *)
LEMMA SkipsTrapped ==
    ASSUME PmpInv, pc = "DISPATCH"
    PROVE  /\ csr.mcause = U_ECALL => Skip(csr.mepc, 4) = After(csr.mepc)
           /\ Skip(csr.mepc, Length(HalfwordAt(csr.mepc))) = After(csr.mepc)
  <1>1. csr.mcause = U_ECALL => csr.mepc # "XH3_LOAD"
    BY Dispatched DEF CauseAt, LOAD_FAULT, U_ECALL
  <1> QED
    BY <1>1 DEF Skip, Size, Length, HalfwordAt, ECALL

LEMMA ReturnRemembers ==
    ASSUME PmpInv, TrappedOK, pc = "DISPATCH", NEW m, NEW a0, ReturnTo(After(csr.mepc), m, a0)
    PROVE  TrappedOK'
  <1>1. /\ pc' = "RESTORE" /\ before' = before
        /\ csr' = [csr EXCEPT !.mepc = After(csr.mepc), !.cfgm0 = m]
    BY DEF ReturnTo, Goto
  <1>2. csr'.mepc = After(csr.mepc) /\ csr'.mpp = csr.mpp
    BY <1>1 DEF PmpInv, DataOK
  <1> QED
    BY <1>1, <1>2 DEF TrappedOK, TrapPc, HandlerPc

LEMMA StepTrappedOK == PmpInv /\ TrappedOK /\ [Next]_vars => TrappedOK'
  <1> SUFFICES ASSUME PmpInv, TrappedOK, [Next]_vars PROVE TrappedOK'
    OBVIOUS
  <1>1. CASE MainStep \/ UStep
    BY <1>1, RunsOrTraps, TrapRemembers DEF TrappedOK, TrapPc, HandlerPc
  <1>2. CASE EnterTrap \/ LeaveTrap
    <2>1. \/ pc = "SWAP" /\ pc' = "SAVE"
          \/ pc = "SWAP_BACK" /\ pc' = "MRET"
      BY <1>2 DEF EnterTrap, LeaveTrap, SwapStacks, Goto
    <2>2. csr'.mepc = csr.mepc /\ csr'.mpp = csr.mpp /\ before' = before
      BY <1>2 DEF EnterTrap, LeaveTrap, SwapStacks, PmpInv, DataOK
    <2> QED
      BY <2>1, <2>2 DEF TrappedOK, TrapPc, HandlerPc
  <1>3. CASE SaveFrame \/ RestoreFrame
    BY <1>3 DEF SaveFrame, RestoreFrame, Goto, TrappedOK, TrapPc, HandlerPc
  <1>4. CASE ServeCounter
    <2>1. pc = "DISPATCH" /\ csr.mcause = U_ECALL
      BY <1>4 DEF ServeCounter, AtDispatch
    <2>2. \/ ReturnTo(Skip(csr.mepc, 4), csr.cfgm0, g_prot.counter + 1)
          \/ Trap(LOAD_FAULT, regs)
      BY <1>4 DEF ServeCounter
    <2> QED
      BY <2>1, <2>2, SkipsTrapped, ReturnRemembers, TrapRemembers
  <1>5. CASE ServeSign
    <2>1. pc = "DISPATCH" /\ csr.mcause = U_ECALL
      BY <1>5 DEF ServeSign, AtDispatch
    <2>2. \/ ReturnTo(Skip(csr.mepc, 4), csr.cfgm0, IF Service = SIGN THEN 0 ELSE -1)
          \/ Trap(LOAD_FAULT, regs)
      BY <1>5 DEF ServeSign
    <2> QED
      BY <2>1, <2>2, SkipsTrapped, ReturnRemembers, TrapRemembers
  <1>6. CASE Recover
    <2>1. /\ pc = "DISPATCH"
          /\ ReturnTo(Skip(csr.mepc, Length(HalfwordAt(csr.mepc))), {}, saved.regs["a0"])
      BY <1>6 DEF Recover, AtDispatch
    <2> QED
      BY <2>1, SkipsTrapped, ReturnRemembers
  <1>7. CASE CatchFault
    <2>1. pc = "DISPATCH"
      BY <1>7 DEF CatchFault
    <2>2. \/ pc' \in {"DISPATCH", "HALT"} /\ UNCHANGED <<csr, before>>
          \/ Trap(STORE_FAULT, regs)
      BY <1>7 DEF CatchFault, Put, Goto, hart
    <2> QED
      BY <2>1, <2>2, TrapRemembers DEF TrappedOK, TrapPc, HandlerPc
  <1>8. CASE TrapMret
    <2>1. pc' \notin TrapPc
      BY <1>8, StepTrapMret DEF PmpInv, PlaceOK, TrapMret, Resumed, TrapPc, HandlerPc
    <2> QED
      BY <2>1 DEF TrappedOK, TrapPc, HandlerPc
  <1>9. CASE Reset
    BY <1>9 DEF Reset, Goto, TrappedOK, TrapPc, HandlerPc
  <1>10. CASE UNCHANGED vars
    BY <1>10 DEF vars, hart, TrappedOK
  <1> QED
    BY <1>1, <1>2, <1>3, <1>4, <1>5, <1>6, <1>7, <1>8, <1>9, <1>10 DEF Next, HartStep, TrapStep

(* The interrupted code goes on at the instruction after the one that       *)
(* trapped, in its own mode, and finds its registers and its stack as it    *)
(* left them, but for the a0 of an ecall, whatever trap_dispatch() did in   *)
(* between.                                                                 *)
THEOREM TrapsTransparent == Spec => TrapTransparent
  <1>1. PmpInv /\ TrappedOK /\ ResetsOK /\ [Next]_vars =>
          [pc = "MRET" /\ resets' = resets =>
             /\ pc' = After(before.pc) /\ mode' = before.mode
             /\ \A r \in Reg : regs'[r] = before.regs[r] \/ (r = "a0" /\ csr.mcause = U_ECALL)]_vars
    <2> SUFFICES ASSUME PmpInv, TrappedOK, ResetsOK, Next, pc = "MRET", resets' = resets
                 PROVE  /\ pc' = After(before.pc) /\ mode' = before.mode
                        /\ \A r \in Reg :
                             regs'[r] = before.regs[r] \/ (r = "a0" /\ csr.mcause = U_ECALL)
      OBVIOUS
    <2>1. ~Reset
      BY DEF Reset, ResetsOK
    <2>2. ~MainStep
      BY DEF MainStep, ZeroMailbox, SayMagic, InitProt, SetVector, pmp_isolate_secret, ReadSecret,
         RestrictM, TestLoad, SetStageU, SayA11, DropToU
    <2>3. ~UStep
      BY DEF UStep, UUp, UCount, UCounted, UFill, USign, USigned, USayBad, UReadSecret
    <2>4. TrapMret
      BY <2>1, <2>2, <2>3 DEF Next, HartStep, TrapStep, EnterTrap, SaveFrame, ServeCounter,
         ServeSign, Recover, CatchFault, RestoreFrame, LeaveTrap, SwapStacks, AtDispatch
    <2>5. pc' = After(before.pc) /\ mode' = before.mode
      BY <2>4 DEF TrapMret, Resume, Goto, TrappedOK, TrapPc
    <2>6. regs' = regs /\ regs["sp"] = before.regs["sp"]
      BY <2>4 DEF TrapMret, PmpInv, RegsOK, TrapPc, HandlerPc
    <2>7. \A r \in Reg : regs'[r] = before.regs[r] \/ (r = "a0" /\ csr.mcause = U_ECALL)
      BY <2>6 DEF PmpInv, RegsOK
    <2> QED
      BY <2>5, <2>7
  <1>2. Init => TrappedOK
    BY DEF Init, TrappedOK, TrapPc, HandlerPc
  <1>3. Spec => []TrappedOK
    BY <1>2, PmpInvariant, StepTrappedOK, PTL DEF Spec
  <1> QED
    BY <1>1, <1>3, PmpInvariant, ResetsCounted, PTL DEF Spec, TrapTransparent

-----------------------------------------------------------------------------
(* The safety half of ImplementsDemo: every behaviour of the example is one *)
(* of IsolationDemo.  What the promise sees follows from the point reached. *)
Reaching == Point = "U_READ" /\ pc \in TrapPc
ViewOK ==
    /\ BoundaryUp <=> Point \in UPc
    /\ Trespass = (IF Reaching THEN "blocked" ELSE "none")

LEMMA View == PmpInv => ViewOK
  <1> SUFFICES ASSUME PmpInv PROVE ViewOK
    OBVIOUS
  <1>1. FromU <=> Point \in UPc
    BY DEF PmpInv, PlaceOK, FromU, Point, UPc, TrapPc, HandlerPc
  <1>2. Point \in UPc => BoundaryUp
    <2> SUFFICES ASSUME Point \in UPc PROVE BoundaryUp
      OBVIOUS
    <2>1. pmp = FinalPmp /\ csr.cfgm0 = {}
      <3>1. Point # "U_SPIN"
        BY DEF PmpInv, PlaceOK, Point, Trapping, Resumed, TrapPc, HandlerPc
      <3> QED
        BY <3>1 DEF PmpInv, UnitsOK, UPc, FromBefore, FromRecovery, FromRead, FromA11, FromUp,
           FromCnt1, FromCnt2, FromBad
    <2>2. \A m : Allowed(m, "ram") /\ (Allowed(m, "prot") <=> m = "M")
      BY <2>1, AllowedAfter
    <2> QED
      BY <1>1, <2>2 DEF BoundaryUp
  <1>3. BoundaryUp => Point \in UPc
    BY <1>1 DEF BoundaryUp
  <1>4. pc \in TrapPc => (csr.mcause = LOAD_FAULT <=> CauseAt(Point) = LOAD_FAULT)
    BY DEF PmpInv, PlaceOK, Point
  <1>5. FromU /\ pc \in TrapPc /\ csr.mcause = LOAD_FAULT <=> Reaching
    BY <1>1, <1>4 DEF Reaching, CauseAt, LOAD_FAULT, U_ECALL, UPc
  <1>6. Trespass = (IF Reaching THEN "blocked" ELSE "none")
    BY <1>5 DEF Trespass, PmpInv, PlaceOK
  <1> QED
    BY <1>2, <1>3, <1>6 DEF ViewOK

LEMMA ViewNext == PmpInv' => ViewOK'
  BY View, PTL

LEMMA Invisible ==
    ASSUME PmpInv, PmpInv', Point \in UPc <=> Point' \in UPc, Reaching <=> Reaching',
           g_prot'.counter = g_prot.counter, challenge = "keyed" <=> challenge' = "keyed",
           pc # "HALT", pc' # "HALT"
    PROVE  UNCHANGED Demo!demoVars
  <1>1. BoundaryUp <=> BoundaryUp'
    BY View, ViewNext DEF ViewOK
  <1>2. BoundaryUp' = BoundaryUp
    BY <1>1, Zenon DEF BoundaryUp
  <1>3. HasSigned' = HasSigned
    BY Zenon DEF HasSigned
  <1>4. Trespass' = Trespass
    BY View, ViewNext DEF ViewOK
  <1>5. LeftBehind' = LeftBehind
    BY DEF LeftBehind
  <1> QED
    BY <1>2, <1>3, <1>4, <1>5 DEF Demo!demoVars

LEMMA InitDemo == Init => Demo!DemoInit
  <1> SUFFICES ASSUME Init PROVE Demo!DemoInit
    OBVIOUS
  <1>1. PmpInv /\ pc = "ZERO" /\ Point = "ZERO" /\ ~Reaching /\ "ZERO" \notin UPc
    BY InitPmpInv DEF Init, Point, Reaching, TrapPc, HandlerPc, UPc
  <1>2. BoundaryUp = FALSE /\ Trespass = "none"
    BY <1>1, View DEF ViewOK, BoundaryUp
  <1>3. HasSigned = FALSE /\ g_prot.counter = 0 /\ LeftBehind = Demo!NoReport
    BY <1>1 DEF Init, HasSigned, LeftBehind, Demo!NoReport
  <1> QED
    BY <1>2, <1>3 DEF Demo!DemoInit

LEMMA ResetDemo == ASSUME PmpInv, PmpInv', Reset PROVE Demo!Restart
  <1>1. pc' = "ZERO" /\ g_prot'.counter = 0 /\ challenge' = "zero"
    BY DEF Reset, Goto
  <1>2. Point' = "ZERO" /\ ~Reaching' /\ "ZERO" \notin UPc
    BY <1>1 DEF Point, Reaching, TrapPc, HandlerPc, UPc
  <1>3. BoundaryUp' = FALSE /\ Trespass' = "none"
    BY <1>2, ViewNext DEF ViewOK, BoundaryUp
  <1>4. HasSigned' = FALSE /\ LeftBehind' = Demo!NoReport
    BY <1>1 DEF HasSigned, LeftBehind, Demo!NoReport
  <1> QED
    BY <1>1, <1>3, <1>4 DEF Demo!Restart, Demo!demoVars

(* Where main() and the U-mode program go. *)
LEMMA MainMove ==
    ASSUME PmpInv, MainStep
    PROVE  /\ Point = pc /\ pc \in MainPc
           /\ \/ pc' \in MainPc
              \/ pc' = "SWAP" /\ csr'.mepc = "XH3_LOAD"
              \/ pc = "DROP" /\ pc' = "U_UP"
  <1>1. Allowed(mode, "ram")
    BY RamAllowed DEF PmpInv
  <1>2. pc \in MainPc
    BY DEF MainStep, ZeroMailbox, SayMagic, InitProt, SetVector, pmp_isolate_secret, ReadSecret,
       RestrictM, TestLoad, SetStageU, SayA11, DropToU, MainPc
  <1>3. Point = pc /\ mode = "M"
    BY <1>2 DEF PmpInv, PlaceOK, Point, MainPc, UPc, TrapPc, HandlerPc
  <1>4. CASE ReadSecret
    <2>1. pc \in {"XH3_BEFORE", "XH3_AFTER"}
      BY <1>4 DEF ReadSecret
    <2>2. Allowed(mode, "prot")
      BY <1>3, <2>1, ProtAllowed DEF PmpInv, FromBefore, FromRecovery
    <2>3. pc' \in {"RESTRICT", "SET_STAGE"}
      BY <1>1, <1>4, <2>1, <2>2 DEF ReadSecret, Put, Goto
    <2> QED
      BY <1>2, <1>3, <2>3 DEF MainPc
  <1>5. CASE TestLoad
    BY <1>2, <1>3, <1>5, StepTestLoad
  <1>6. CASE ZeroMailbox \/ SayMagic \/ SayA11
    BY <1>1, <1>2, <1>3, <1>6 DEF ZeroMailbox, SayMagic, SayA11, Put, Goto, MainPc
  <1>7. CASE InitProt \/ SetVector \/ pmp_isolate_secret \/ RestrictM \/ SetStageU \/ DropToU
    BY <1>2, <1>3, <1>7 DEF InitProt, SetVector, pmp_isolate_secret, RestrictM, SetStageU, DropToU,
       Resume, Goto, MainPc
  <1> QED
    BY <1>4, <1>5, <1>6, <1>7 DEF MainStep

LEMMA UMove ==
    ASSUME PmpInv, UStep
    PROVE  /\ Point = pc /\ pc \in UPc \ {"U_SPIN"}
           /\ \/ <<pc, pc'>> \in {<<"U_UP", "U_CNT1">>, <<"U_CNT1_SW", "U_CNT2">>,
                                <<"U_CNT2_SW", "U_FILL">>, <<"U_FILL", "U_SIGN">>,
                                <<"U_SIGN0", "U_BAD0">>, <<"U_BAD0", "U_READ">>}
              \/ pc' = "SWAP" /\ csr'.mepc = pc
  <1>1. Allowed(mode, "ram")
    BY RamAllowed DEF PmpInv
  <1>2. pc \in UPc \ {"U_SPIN"}
    BY DEF UStep, UUp, UCount, UCounted, UFill, USign, USigned, USayBad, UReadSecret, UPc
  <1>3. Point = pc
    BY <1>2 DEF Point, UPc, TrapPc, HandlerPc
  <1>4. CASE UCount \/ USign
    BY <1>2, <1>3, <1>4, StepEcall
  <1>5. CASE UReadSecret
    BY <1>2, <1>3, <1>5, StepUReadSecret DEF UReadSecret
  <1>6. CASE UUp \/ UCounted \/ UFill \/ USigned \/ USayBad
    BY <1>1, <1>2, <1>3, <1>6 DEF UUp, UCounted, UFill, USigned, USayBad, Put, Goto
  <1> QED
    BY <1>4, <1>5, <1>6 DEF UStep

LEMMA MainDemo ==
    ASSUME PmpInv, PmpInv', MainStep
    PROVE  UNCHANGED Demo!demoVars \/ Demo!RaiseBoundary
  <1> USE DEF FromMagic, FromBefore, FromRecovery, FromRead, FromA11, FromUp, FromCnt1, FromCnt2,
              FromBad
  <1>1. pc \in MainPc /\ Point = pc /\ Point \notin UPc /\ ~Reaching /\ pc # "HALT"
    BY MainMove DEF MainPc, UPc, Reaching, TrapPc, HandlerPc
  <1>2. CASE pc' \in MainPc \/ (pc' = "SWAP" /\ csr'.mepc = "XH3_LOAD")
    <2>1. Point' \in MainPc /\ Point' \notin UPc /\ ~Reaching' /\ pc' # "HALT"
      BY <1>2 DEF Point, MainPc, UPc, Reaching, TrapPc, HandlerPc
    <2>2. g_prot.counter = 0 /\ g_prot'.counter = 0 /\ challenge = "zero" /\ challenge' = "zero"
      BY <1>1, <2>1 DEF PmpInv, UnitsOK, MainPc
    <2> QED
      BY <1>1, <2>1, <2>2, Invisible
  <1>3. CASE pc = "DROP" /\ pc' = "U_UP"
    <2>1. Point' = "U_UP" /\ "U_UP" \in UPc /\ ~Reaching' /\ pc' # "HALT"
      BY <1>3 DEF Point, Reaching, UPc, TrapPc, HandlerPc
    <2>2. g_prot.counter = 0 /\ g_prot'.counter = 0 /\ challenge = "zero" /\ challenge' = "zero"
      BY <1>1, <1>3, <2>1 DEF PmpInv, UnitsOK
    <2>3. ~BoundaryUp /\ BoundaryUp' = TRUE /\ Trespass' = Trespass
      BY <1>1, <2>1, View, ViewNext DEF ViewOK, BoundaryUp
    <2>4. HasSigned' = HasSigned /\ LeftBehind' = LeftBehind
      BY <1>1, <2>1, <2>2 DEF HasSigned, LeftBehind
    <2> QED
      BY <2>2, <2>3, <2>4 DEF Demo!RaiseBoundary
  <1> QED
    BY <1>2, <1>3, MainMove

LEMMA UDemo ==
    ASSUME PmpInv, PmpInv', UStep
    PROVE  UNCHANGED Demo!demoVars \/ Demo!BlockTrespass
  <1> USE DEF FromMagic, FromBefore, FromRecovery, FromRead, FromA11, FromUp, FromCnt1, FromCnt2,
              FromBad
  <1>1. pc \in UPc \ {"U_SPIN"} /\ Point = pc /\ ~Reaching /\ pc # "HALT"
    BY UMove DEF UPc, Reaching, TrapPc, HandlerPc
  <1>2. CASE pc' = "SWAP" /\ csr'.mepc = pc
    <2>1. Point' = pc /\ (Reaching' <=> pc = "U_READ") /\ pc' # "HALT"
      BY <1>2 DEF Point, Reaching, TrapPc
    <2>2. g_prot'.counter = g_prot.counter /\ challenge' = challenge
      BY <1>1, <2>1 DEF PmpInv, UnitsOK
    <2>3. CASE pc = "U_READ"
      <3>1. HasSigned' = HasSigned /\ HasSigned
        BY <1>1, <2>2, <2>3 DEF HasSigned, PmpInv, UnitsOK
      <3>2. BoundaryUp <=> BoundaryUp'
        BY <1>1, <2>1, View, ViewNext DEF ViewOK
      <3>3. BoundaryUp' = BoundaryUp
        BY <3>2, Zenon DEF BoundaryUp
      <3>4. Trespass = "none" /\ Trespass' = "blocked" /\ LeftBehind' = LeftBehind
        BY <1>1, <2>1, <2>3, View, ViewNext DEF ViewOK, LeftBehind
      <3> QED
        BY <2>2, <3>1, <3>3, <3>4 DEF Demo!BlockTrespass
    <2>4. CASE pc # "U_READ"
      BY <1>1, <2>1, <2>2, <2>4, Invisible
    <2> QED
      BY <2>3, <2>4
  <1>3. CASE <<pc, pc'>> \in {<<"U_UP", "U_CNT1">>, <<"U_CNT1_SW", "U_CNT2">>,
                             <<"U_CNT2_SW", "U_FILL">>, <<"U_FILL", "U_SIGN">>,
                             <<"U_SIGN0", "U_BAD0">>, <<"U_BAD0", "U_READ">>}
    <2>1. Point' = pc' /\ pc' \in UPc /\ ~Reaching' /\ pc' # "HALT"
      BY <1>3 DEF Point, Reaching, UPc, TrapPc, HandlerPc
    <2>2. /\ g_prot'.counter = g_prot.counter
          /\ challenge = "keyed" <=> challenge' = "keyed"
      BY <1>1, <1>3, <2>1 DEF PmpInv, UnitsOK
    <2> QED
      BY <1>1, <2>1, <2>2, Invisible
  <1> QED
    BY <1>2, <1>3, UMove

LEMMA TrapDemo ==
    ASSUME PmpInv, PmpInv', TrapStep
    PROVE  UNCHANGED Demo!demoVars \/ Demo!DemoStep
  <1>1. CASE EnterTrap \/ SaveFrame \/ RestoreFrame \/ LeaveTrap \/ TrapMret
    <2>1. /\ pc \in TrapPc /\ pc # "HALT" /\ pc' # "HALT" /\ UNCHANGED <<g_prot, challenge>>
          /\ Reaching <=> Reaching'
      <3>1. CASE EnterTrap \/ SaveFrame \/ RestoreFrame \/ LeaveTrap
        BY <3>1, StepEnterTrap, StepSaveFrame, StepRestoreFrame, StepLeaveTrap
        DEF EnterTrap, SaveFrame, RestoreFrame, LeaveTrap, SwapStacks, Goto, store, Reaching,
            TrapPc, HandlerPc
      <3>2. CASE TrapMret
        BY <3>2, StepTrapMret DEF TrapMret, store, Reaching, Point, PmpInv, PlaceOK, Resumed,
           TrapPc, HandlerPc
      <3> QED
        BY <1>1, <3>1, <3>2
    <2>2. Point' = Point
      BY <1>1, StepEnterTrap, StepSaveFrame, StepRestoreFrame, StepLeaveTrap, StepTrapMret
    <2> QED
      BY <2>1, <2>2, Invisible
  <1>2. CASE Recover
    <2>1. ~Reaching /\ ~Reaching' /\ Point \notin UPc /\ Point' \notin UPc
      BY <1>2, StepRecover DEF Reaching, UPc
    <2> QED
      BY <1>2, <2>1, StepRecover, Invisible
  <1>3. CASE ServeCounter
    <2>1. ~Reaching /\ ~Reaching' /\ Point \in UPc /\ Point' \in UPc
      BY <1>3, StepServeCounter DEF Reaching, UPc
    <2>2. BoundaryUp = TRUE /\ BoundaryUp' = TRUE /\ Trespass = "none" /\ Trespass' = "none"
      BY <2>1, View, ViewNext DEF ViewOK, BoundaryUp
    <2>3. HasSigned' = HasSigned /\ LeftBehind' = LeftBehind
      BY <1>3, StepServeCounter DEF HasSigned, LeftBehind
    <2>4. g_prot.counter < 2 /\ g_prot'.counter = g_prot.counter + 1
      BY <1>3, StepServeCounter DEF PmpInv, UnitsOK
    <2> QED
      BY <2>2, <2>3, <2>4 DEF Demo!DemoStep, Demo!GiveCounter
  <1>4. CASE ServeSign
    <2>1. ~Reaching /\ ~Reaching' /\ Point \in UPc /\ Point' \in UPc
      BY <1>4, StepServeSign DEF Reaching, UPc
    <2>2. BoundaryUp = TRUE /\ BoundaryUp' = TRUE /\ Trespass = "none" /\ Trespass' = "none"
      BY <2>1, View, ViewNext DEF ViewOK, BoundaryUp
    <2>3. ~HasSigned /\ HasSigned' = TRUE /\ LeftBehind' = LeftBehind
      BY <1>4, StepServeSign DEF HasSigned, LeftBehind
    <2>4. g_prot.counter = 2 /\ g_prot'.counter = g_prot.counter
      BY <1>4, StepServeSign DEF PmpInv, UnitsOK, FromCnt2
    <2> QED
      BY <2>2, <2>3, <2>4 DEF Demo!DemoStep, Demo!GiveSignature
  <1>5. CASE CatchFault
    <2>1. Reaching /\ Reaching' /\ Point \in UPc /\ Point' \in UPc /\ pc # "HALT"
      BY <1>5, StepCatchFault DEF Reaching, UPc, TrapPc, HandlerPc
    <2>2. CASE pc' = "DISPATCH"
      BY <1>5, <2>1, <2>2, StepCatchFault, Invisible
    <2>3. CASE pc' = "HALT"
      <3>1. BoundaryUp = TRUE /\ BoundaryUp' = TRUE /\ Trespass = "blocked" /\ Trespass' = "blocked"
        BY <2>1, View, ViewNext DEF ViewOK, BoundaryUp
      <3>2. HasSigned' = HasSigned /\ g_prot'.counter = g_prot.counter
        BY <1>5, StepCatchFault DEF HasSigned
      <3>3. LeftBehind = Demo!NoReport
        BY <2>1 DEF LeftBehind, Demo!NoReport
      <3>4. /\ g_mb'["CNT1"] = 1 /\ g_mb'["CNT2"] = 2 /\ g_mb'["SIGN0"] = KEYED
            /\ g_mb'["LEAKED"] = 0
        BY <2>1 DEF PmpInv, MailboxAt, Reaching, FromMagic, FromBefore, FromRecovery, FromRead,
           FromA11, FromUp, FromCnt1, FromCnt2, FromBad
      <3>5. LeftBehind' = Demo!FullReport
        BY <2>3, <3>4 DEF LeftBehind, Demo!FullReport
      <3> QED
        BY <3>1, <3>2, <3>3, <3>5 DEF Demo!DemoStep, Demo!Publish
    <2> QED
      BY <1>5, <2>2, <2>3, StepCatchFault
  <1> QED
    BY <1>1, <1>2, <1>3, <1>4, <1>5 DEF TrapStep

LEMMA StepDemo ==
    PmpInv /\ PmpInv' /\ [Next]_vars => [Demo!DemoStep \/ Demo!Restart]_(Demo!demoVars)
  <1> SUFFICES ASSUME PmpInv, PmpInv', [Next]_vars
               PROVE  Demo!DemoStep \/ Demo!Restart \/ UNCHANGED Demo!demoVars
    OBVIOUS
  <1>1. CASE MainStep
    BY <1>1, MainDemo DEF Demo!DemoStep
  <1>2. CASE UStep
    BY <1>2, UDemo DEF Demo!DemoStep
  <1>3. CASE TrapStep
    BY <1>3, TrapDemo
  <1>4. CASE Reset
    BY <1>4, ResetDemo
  <1>5. CASE UNCHANGED vars
    <2>1. UNCHANGED <<pc, g_prot, challenge, g_mb, Point>> /\ (Reaching <=> Reaching')
      BY <1>5, StepStutter DEF Reaching
    <2>2. BoundaryUp <=> BoundaryUp'
      BY <2>1, View, ViewNext DEF ViewOK
    <2>3. BoundaryUp' = BoundaryUp
      BY <2>2, Zenon DEF BoundaryUp
    <2>4. HasSigned' = HasSigned /\ LeftBehind' = LeftBehind
      BY <2>1 DEF HasSigned, LeftBehind
    <2>5. Trespass' = Trespass
      BY <2>1, View, ViewNext DEF ViewOK
    <2> QED
      BY <2>1, <2>3, <2>4, <2>5 DEF Demo!demoVars
  <1> QED
    BY <1>1, <1>2, <1>3, <1>4, <1>5 DEF Next, HartStep

(* minimal-pmp keeps the safety half of the promise it shares with          *)
(* minimal-tz: the boundary, two counters, one signature, the trespass      *)
(* blocked, the full report, and nothing else in between.                   *)
THEOREM PmpDemoRefined ==
    Spec => Demo!DemoInit /\ [][Demo!DemoStep \/ Demo!Restart]_(Demo!demoVars)
  BY InitDemo, InitPmpInv, StepPmpInv, StepDemo, PTL DEF Spec
=============================================================================
