----------------------------- MODULE MinimalPmp -----------------------------
(***************************************************************************)
(* examples/minimal-pmp/main.c as a whole: the set-up of main(), the       *)
(* Xh3pmpm self-test, the U-mode program, and the trap path both take      *)
(* (trap_entry, trap_dispatch).  An access goes through or traps as the    *)
(* PMP registers stand; a trap saves, dispatches, restores and resumes at  *)
(* mepc, whose value the dispatcher computes from the size of the          *)
(* instruction that trapped.  The mailbox keeps its contents across a      *)
(* reset.                                                                  *)
(***************************************************************************)
EXTENDS PmpGuard, FiniteSetsExt

CONSTANTS
    JUNK,           \* RAM at power-on, and registers a call may spoil
    LIVE,           \* what main() and the U-mode program keep in their registers
    SECRET, KEYED,  \* g_prot.secret; the first word of the signed challenge
    MAIN_SP,        \* the stack of main() and of the U-mode program
    TRAP_TOP,       \* &g_m_trap_stack[128]
    CHALLENGE,      \* &challenge
    LOADS,          \* the first halfwords of loads, of 2 or of 4 bytes
    MaxResets       \* bound: processor resets in a behaviour

MAGIC_V2 == 1347244034      \* 0x504D5002
CAUGHT   == 24589           \* 0x600D
BAD0     == 47824           \* 0xBAD0
FA11     == 64017           \* 0xFA11
DEAD     == 57005           \* 0xDEAD
A11      == 2577            \* 0x0A11
PLAIN    == 67305985        \* 0x04030201, the first word of challenge[]

(* trap_frame_t: every register a called function may spoil. *)
FrameRegs == {"a0", "a1", "a2", "a3", "a4", "a5", "a6", "a7",
              "t0", "t1", "t2", "t3", "t4", "t5", "t6", "ra"}
Reg == FrameRegs \cup {"s0", "sp"}

ASSUME PmpAssumption ==
    /\ {JUNK, SECRET, KEYED, MAIN_SP, TRAP_TOP} \subseteq Int
    /\ LIVE \in [Reg -> Int] /\ LIVE["sp"] = MAIN_SP
    /\ JUNK # MAGIC_V2 /\ KEYED # PLAIN /\ SECRET # 0 /\ KEYED # 0
    /\ MAIN_SP # TRAP_TOP /\ MAIN_SP # TRAP_TOP - 64
    /\ MaxResets \in Nat

ASSUME CodeAssumption == LOADS \subseteq 0..65535

(* challenge[16] and g_prot are different objects of the image. *)
ASSUME ObjectAssumption ==
    /\ CHALLENGE \in Nat /\ CHALLENGE + 16 <= SPACE /\ 16 <= SIGN_MAX
    /\ CHALLENGE + 16 <= G_PROT \/ G_PROT + PROT_SIZE <= CHALLENGE

VARIABLES
    pc, idx,        \* the next instruction, the index of a loop
    mode,           \* "M" or "U"
    regs,           \* the registers
    csr,            \* mscratch, mtvec, mepc, mcause, mstatus.MPP, PMPCFGM0
    pmp,            \* entries 0 and 1
    saved,          \* the last trap_frame_t and where it lies
    g_mb, g_prot, g_stage,
    challenge,      \* challenge[16]: "zero", "plain" or "keyed"
    opcode,         \* first halfword of the self-test's load: the compiler's choice
    before,         \* history: what the last trap interrupted, and its registers
    resets

store  == <<g_mb, g_prot, g_stage, challenge>>
hart   == <<mode, regs, csr, saved, before>>
vars   == <<pc, idx, hart, pmp, store, opcode, resets>>

MbField == {"MAGIC", "XH3_BEFORE", "XH3_MCAUSE", "XH3_AFTER", "U_UP", "CNT1", "CNT2",
            "SIGN0", "MCAUSE", "MTVAL", "LEAKED", "STAGE"}
MbOrder == <<"MAGIC", "XH3_BEFORE", "XH3_MCAUSE", "XH3_AFTER", "U_UP", "CNT1", "CNT2",
             "SIGN0", "MCAUSE", "MTVAL", "LEAKED", "STAGE">>

ResetCsr == [mscratch |-> 0, mtvec |-> "sdk", mepc |-> "ZERO", mcause |-> 0,
             mpp |-> "M", cfgm0 |-> {}]
ResetPmp == [i \in 0..1 |-> [addr |-> "none", on |-> FALSE, rwx |-> FALSE]]
ResetSaved == [at |-> 0, regs |-> [r \in FrameRegs |-> 0]]

Init ==
    /\ pc = "ZERO" /\ idx = 1 /\ mode = "M" /\ resets = 0
    /\ regs = LIVE /\ csr = ResetCsr /\ pmp = ResetPmp
    /\ saved = ResetSaved
    /\ before = [pc |-> "ZERO", mode |-> "M", regs |-> LIVE]
    /\ g_mb = [f \in MbField |-> JUNK]
    /\ g_prot = [secret |-> 0, counter |-> 0] /\ g_stage = "none"
    /\ challenge = "zero"
    /\ opcode \in LOADS

-----------------------------------------------------------------------------
(* The hardware. *)

(* The PMP: the lowest entry that matches decides.  An entry binds M-mode   *)
(* only while its PMPCFGM0 bit is set; without a match M-mode passes and    *)
(* U-mode does not.                                                         *)
Allowed(m, place) ==
    LET hits == {i \in 0..1 : pmp[i].on /\ pmp[i].addr \in {place, "all"}}
    IN  IF hits = {} THEN m = "M"
        ELSE \/ m = "M" /\ Min(hits) \notin csr.cfgm0
             \/ pmp[Min(hits)].rwx

LOAD_FAULT  == 5
STORE_FAULT == 7
U_ECALL     == 8

Goto(next, i) == pc' = next /\ idx' = i

(* A trap of the instruction at pc, which found r in the registers. *)
Trap(cause, r) ==
    /\ Goto(IF csr.mtvec = "trap_entry" THEN "SWAP" ELSE "SDK", 0)
    /\ csr' = [csr EXCEPT !.mepc = pc, !.mcause = cause, !.mpp = mode]
    /\ mode' = "M" /\ regs' = r /\ before' = [pc |-> pc, mode |-> mode, regs |-> r]
    /\ UNCHANGED <<saved, pmp, store>>

(* mret *)
Resume(to) == mode' = to.mpp /\ Goto(to.mepc, 0) /\ csr' = [to EXCEPT !.mpp = "U"]

(* A store to the mailbox, or the trap it takes. *)
Put(field, value, next, i) ==
    IF Allowed(mode, "ram")
    THEN /\ g_mb' = [g_mb EXCEPT ![field] = value] /\ Goto(next, i)
         /\ UNCHANGED <<hart, pmp, g_prot, g_stage, challenge>>
    ELSE Trap(STORE_FAULT, regs)

(* The code in memory: the first halfword of an instruction that is skipped *)
(* and, by its low two bits, its size.                                      *)
ECALL == 115                \* 0x0073
HalfwordAt(p) == IF p = "XH3_LOAD" THEN opcode ELSE ECALL
Size(p)       == IF HalfwordAt(p) % 4 = 3 THEN 4 ELSE 2

(* What lies n bytes after the instruction at p: the next instruction if n  *)
(* is p's size, else none.                                                  *)
After(p) == CASE p = "XH3_LOAD" -> "XH3_AFTER" [] p = "U_CNT1" -> "U_CNT1_SW"
              [] p = "U_CNT2" -> "U_CNT2_SW"   [] p = "U_SIGN" -> "U_SIGN0"
              [] OTHER -> "WILD"
Skip(p, n) == IF n = Size(p) THEN After(p) ELSE "WILD"

-----------------------------------------------------------------------------
(* main().  Steps that touch nothing but M-mode's own state are one action. *)

ZeroMailbox ==
    /\ pc = "ZERO"
    /\ IF idx = 12 THEN Put(MbOrder[idx], 0, "MAGIC", 0)
                   ELSE Put(MbOrder[idx], 0, "ZERO", idx + 1)

SayMagic == pc = "MAGIC" /\ Put("MAGIC", MAGIC_V2, "PROT", 0)

InitProt ==
    /\ pc = "PROT" /\ Goto("VECTOR", 0)
    /\ g_prot' = [secret |-> SECRET, counter |-> 0]
    /\ UNCHANGED <<hart, pmp, g_mb, g_stage, challenge>>

SetVector ==
    /\ pc = "VECTOR" /\ Goto("PMP", 0)
    /\ csr' = [csr EXCEPT !.mscratch = TRAP_TOP, !.mtvec = "trap_entry"]
    /\ UNCHANGED <<mode, regs, saved, before, pmp, store>>

(* pmp_isolate_secret(): nothing for U-mode in entry 0, the rest in entry 1. *)
pmp_isolate_secret ==
    /\ pc = "PMP" /\ Goto("XH3_BEFORE", 0)
    /\ pmp' = [i \in 0..1 |-> IF i = 0 THEN [addr |-> "prot", on |-> TRUE, rwx |-> FALSE]
                                       ELSE [addr |-> "all", on |-> TRUE, rwx |-> TRUE]]
    /\ csr' = [csr EXCEPT !.cfgm0 = {}]
    /\ UNCHANGED <<mode, regs, saved, before, store>>

(* M-mode's own reads of the secret, before and after the restriction. *)
ReadSecret ==
    \E p \in {"XH3_BEFORE", "XH3_AFTER"} :
      /\ pc = p
      /\ IF Allowed(mode, "prot")
         THEN Put(p, g_prot.secret, IF p = "XH3_BEFORE" THEN "RESTRICT" ELSE "SET_STAGE", 0)
         ELSE Trap(LOAD_FAULT, regs)

RestrictM ==
    /\ pc = "RESTRICT" /\ Goto("XH3_LOAD", 0)
    /\ g_stage' = "xh3" /\ csr' = [csr EXCEPT !.cfgm0 = {0}]
    /\ UNCHANGED <<mode, regs, saved, before, pmp, g_mb, g_prot, challenge>>

TestLoad ==
    /\ pc = "XH3_LOAD"
    /\ IF Allowed(mode, "prot")
       THEN Goto(After(pc), 0) /\ UNCHANGED <<hart, pmp, store>>
       ELSE Trap(LOAD_FAULT, regs)

SetStageU ==
    /\ pc = "SET_STAGE" /\ Goto("A11", 0)
    /\ g_stage' = "u"
    /\ UNCHANGED <<hart, pmp, g_mb, g_prot, challenge>>

SayA11 == pc = "A11" /\ Put("STAGE", A11, "DROP", 0)

DropToU ==
    /\ pc = "DROP" /\ Resume([csr EXCEPT !.mpp = "U", !.mepc = "U_UP"])
    /\ UNCHANGED <<regs, saved, before, pmp, store>>

MainStep == ZeroMailbox \/ SayMagic \/ InitProt \/ SetVector \/ pmp_isolate_secret
            \/ ReadSecret \/ RestrictM \/ TestLoad \/ SetStageU \/ SayA11 \/ DropToU

-----------------------------------------------------------------------------
(* u_mode_entry() *)

(* u_ecall(): the assembly tells the compiler that only a0 changes. *)
Ecall(svc, arg0, arg1) ==
    Trap(U_ECALL, [regs EXCEPT !["a0"] = arg0, !["a1"] = arg1, !["a7"] = svc])

GET_COUNTER == 0
SIGN        == 1

UUp     == pc = "U_UP" /\ Put("U_UP", 85, "U_CNT1", 0)
UCount  == pc \in {"U_CNT1", "U_CNT2"} /\ Ecall(GET_COUNTER, 0, 0)
UCounted ==
    \/ pc = "U_CNT1_SW" /\ Put("CNT1", regs["a0"], "U_CNT2", 0)
    \/ pc = "U_CNT2_SW" /\ Put("CNT2", regs["a0"], "U_FILL", 0)

UFill ==
    /\ pc = "U_FILL"
    /\ IF Allowed(mode, "ram")
       THEN /\ challenge' = "plain" /\ Goto("U_SIGN", 0)
            /\ UNCHANGED <<hart, pmp, g_mb, g_prot, g_stage>>
       ELSE Trap(STORE_FAULT, regs)

USign   == pc = "U_SIGN" /\ Ecall(SIGN, CHALLENGE, 16)
USigned == pc = "U_SIGN0" /\ Put("SIGN0", IF challenge = "keyed" THEN KEYED ELSE PLAIN,
                                 "U_BAD0", 0)
USayBad == pc = "U_BAD0" /\ Put("STAGE", BAD0, "U_READ", 0)

(* Variant: the word read is not a protected one. *)
UReadMailbox ==
    /\ pc = "U_READ"
    /\ IF Allowed(mode, "ram") THEN Goto("U_SPIN", 0) /\ UNCHANGED <<hart, pmp, store>>
                               ELSE Trap(LOAD_FAULT, regs)

(* The read of the secret, and, should it ever be allowed, the two stores   *)
(* and the loop that follow it.                                             *)
UReadSecret ==
    /\ pc = "U_READ"
    /\ IF Allowed(mode, "prot")
       THEN /\ g_mb' = [g_mb EXCEPT !["LEAKED"] = g_prot.secret, !["STAGE"] = FA11]
            /\ Goto("U_SPIN", 0)
            /\ UNCHANGED <<hart, pmp, g_prot, g_stage, challenge>>
       ELSE Trap(LOAD_FAULT, regs)

UStep == UUp \/ UCount \/ UCounted \/ UFill \/ USign \/ USigned \/ USayBad \/ UReadSecret

-----------------------------------------------------------------------------
(* trap_entry() *)

SwapStacks(from, next) ==
    /\ pc = from /\ Goto(next, 0)
    /\ regs' = [regs EXCEPT !["sp"] = csr.mscratch]
    /\ csr' = [csr EXCEPT !.mscratch = regs["sp"]]
    /\ UNCHANGED <<mode, saved, before, pmp, store>>

EnterTrap == SwapStacks("SWAP", "SAVE")

(* a0 then becomes the pointer to the frame, and ra the way back. *)
SaveFrame ==
    /\ pc = "SAVE" /\ Goto("DISPATCH", 0)
    /\ saved' = [at |-> regs["sp"] - 64, regs |-> [r \in FrameRegs |-> regs[r]]]
    /\ regs' = [regs EXCEPT !["sp"] = regs["sp"] - 64,
                            !["a0"] = regs["sp"] - 64, !["ra"] = JUNK]
    /\ UNCHANGED <<mode, csr, before, pmp, store>>

(* Variant: t6 is left out of the restored registers. *)
RestoreFrameShort ==
    /\ pc = "RESTORE" /\ Goto("SWAP_BACK", 0)
    /\ regs' = [r \in Reg |-> IF r = "sp" THEN regs["sp"] + 64
                              ELSE IF r \in FrameRegs \ {"t6"} /\ saved.at = regs["sp"]
                                   THEN saved.regs[r] ELSE regs[r]]
    /\ UNCHANGED <<mode, csr, saved, before, pmp, store>>

RestoreFrame ==
    /\ pc = "RESTORE" /\ Goto("SWAP_BACK", 0)
    /\ regs' = [r \in Reg |-> IF r = "sp" THEN regs["sp"] + 64
                              ELSE IF r \in FrameRegs /\ saved.at = regs["sp"]
                                   THEN saved.regs[r] ELSE regs[r]]
    /\ UNCHANGED <<mode, csr, saved, before, pmp, store>>

(* Variant: the stacks are not swapped back. *)
LeaveTrapUnswapped ==
    /\ pc = "SWAP_BACK" /\ Goto("MRET", 0)
    /\ UNCHANGED <<hart, pmp, store>>

LeaveTrap == SwapStacks("SWAP_BACK", "MRET")

TrapMret ==
    /\ pc = "MRET" /\ Resume(csr)
    /\ UNCHANGED <<regs, saved, before, pmp, store>>

-----------------------------------------------------------------------------
(* trap_dispatch() *)

(* Its return: like any function it may have spoilt every register of the   *)
(* frame.  a0 is what the frame's a0 becomes.                               *)
ReturnTo(epc, cfgm0, a0) ==
    /\ Goto("RESTORE", 0)
    /\ csr' = [csr EXCEPT !.mepc = epc, !.cfgm0 = cfgm0]
    /\ saved' = [saved EXCEPT !.regs["a0"] = a0]
    /\ regs' = [r \in Reg |-> IF r \in FrameRegs THEN JUNK ELSE regs[r]]
    /\ UNCHANGED <<mode, before, pmp>>

AtDispatch(causes) == pc = "DISPATCH" /\ csr.mcause \in causes
Service == saved.regs["a7"]
Faults  == {LOAD_FAULT, STORE_FAULT}
Unrecovered == csr.mcause # U_ECALL /\ ~(csr.mcause \in Faults /\ g_stage = "xh3")

(* Variant: f->a0 = g_prot.counter++. *)
ServeCounterLate ==
    /\ AtDispatch({U_ECALL}) /\ Service = GET_COUNTER
    /\ g_prot' = [g_prot EXCEPT !.counter = g_prot.counter + 1]
    /\ ReturnTo(Skip(csr.mepc, 4), csr.cfgm0, g_prot.counter)
    /\ UNCHANGED <<g_mb, g_stage, challenge>>

ServeCounter ==
    /\ AtDispatch({U_ECALL}) /\ Service = GET_COUNTER
    /\ IF Allowed(mode, "prot")
       THEN /\ g_prot' = [g_prot EXCEPT !.counter = g_prot.counter + 1]
            /\ ReturnTo(Skip(csr.mepc, 4), csr.cfgm0, g_prot.counter + 1)
            /\ UNCHANGED <<g_mb, g_stage, challenge>>
       ELSE Trap(LOAD_FAULT, regs)

(* svc_sign(), in place: a second signature would undo the first.  Any      *)
(* other number is refused with 0xFFFFFFFF.                                 *)
ServeSign ==
    /\ AtDispatch({U_ECALL}) /\ Service # GET_COUNTER
    /\ IF Service = SIGN /\ ~Allowed(mode, "prot")
       THEN Trap(LOAD_FAULT, regs)
       ELSE /\ challenge' = IF Service # SIGN \/ Refused(saved.regs["a0"], saved.regs["a1"])
                            THEN challenge
                            ELSE IF challenge = "plain" THEN "keyed" ELSE "plain"
            /\ ReturnTo(Skip(csr.mepc, 4), csr.cfgm0, IF Service = SIGN THEN 0 ELSE -1)
            /\ UNCHANGED <<g_mb, g_prot, g_stage>>

(* Variant: the mask takes a bit too many. *)
LengthBy3Bits(halfword) == IF halfword % 8 = 7 THEN 4 ELSE 2

(* (opcode & 3u) == 3u *)
Length(halfword) == IF halfword % 4 = 3 THEN 4 ELSE 2

(* The self-test: record, lift the restriction, skip the load, whose first  *)
(* halfword tells the handler its size.                                     *)
Recover ==
    /\ AtDispatch(Faults) /\ g_stage = "xh3"
    /\ g_mb' = [g_mb EXCEPT !["XH3_MCAUSE"] = csr.mcause]
    /\ g_stage' = "u"
    /\ ReturnTo(Skip(csr.mepc, Length(HalfwordAt(csr.mepc))), {}, saved.regs["a0"])
    /\ UNCHANGED <<g_prot, challenge>>

(* Variant: the stage is stored before the cause and the address. *)
CatchFaultStageFirst ==
    /\ pc = "DISPATCH" /\ Unrecovered
    /\ \/ idx = 0 /\ Put("STAGE", CAUGHT, "DISPATCH", 1)
       \/ idx = 1 /\ Put("MCAUSE", csr.mcause, "DISPATCH", 2)
       \/ idx = 2 /\ \E mtval \in {0, G_PROT} : Put("MTVAL", mtval, "HALT", 0)

(* The fault of U-mode: three stores, then the loop; mtval may read 0.  A   *)
(* trap of any other cause is marked 0xDEAD, and loops as well.             *)
CatchFault ==
    /\ pc = "DISPATCH" /\ Unrecovered
    /\ \/ idx = 0 /\ IF csr.mcause \in Faults THEN Put("MCAUSE", csr.mcause, "DISPATCH", 1)
                                              ELSE Put("STAGE", DEAD, "HALT", 0)
       \/ idx = 1 /\ \E mtval \in {0, G_PROT} : Put("MTVAL", mtval, "DISPATCH", 2)
       \/ idx = 2 /\ Put("STAGE", CAUGHT, "HALT", 0)

TrapStep == EnterTrap \/ SaveFrame \/ ServeCounter \/ ServeSign \/ Recover \/ CatchFault
            \/ RestoreFrame \/ LeaveTrap \/ TrapMret

-----------------------------------------------------------------------------
HartStep == (MainStep \/ UStep \/ TrapStep) /\ UNCHANGED <<opcode, resets>>

(* The C runtime clears .bss; g_mb is in a section nothing clears. *)
Reset ==
    /\ resets < MaxResets /\ resets' = resets + 1
    /\ Goto("ZERO", 1) /\ mode' = "M"
    /\ regs' = LIVE /\ csr' = ResetCsr /\ pmp' = ResetPmp
    /\ g_prot' = [secret |-> 0, counter |-> 0] /\ g_stage' = "none" /\ challenge' = "zero"
    /\ saved' = ResetSaved /\ before' = [pc |-> "ZERO", mode |-> "M", regs |-> LIVE]
    /\ UNCHANGED <<g_mb, opcode>>

Next == HartStep \/ Reset

(* The hart goes on executing: nothing in the example sleeps. *)
Spec == Init /\ [][Next]_vars /\ WF_vars(HartStep)

-----------------------------------------------------------------------------
(* Properties *)

MainPc == {"ZERO", "MAGIC", "PROT", "VECTOR", "PMP", "XH3_BEFORE", "RESTRICT", "XH3_LOAD",
           "XH3_AFTER", "SET_STAGE", "A11", "DROP"}
UPc    == {"U_UP", "U_CNT1", "U_CNT1_SW", "U_CNT2", "U_CNT2_SW", "U_FILL", "U_SIGN",
           "U_SIGN0", "U_BAD0", "U_READ", "U_SPIN"}
HandlerPc == {"SAVE", "DISPATCH", "RESTORE", "SWAP_BACK", "HALT"}
TrapPc == HandlerPc \cup {"SWAP", "MRET"}

(* Type correctness.  The processor is always at an instruction: mepc never *)
(* resumes in the middle of one, whatever size the compiler gave the load.  *)
PmpTypeOK ==
    /\ pc \in MainPc \cup UPc \cup TrapPc /\ idx \in 0..12
    /\ mode = (IF pc \in UPc THEN "U" ELSE "M")
    /\ regs \in [Reg -> Int] /\ before.regs \in [Reg -> Int]
    /\ g_mb \in [MbField -> Int] /\ g_stage \in {"none", "xh3", "u"}
    /\ g_prot.counter \in 0..2

(* A trap is transparent: the interrupted code goes on at the instruction   *)
(* after the one that trapped, in its own mode, and finds its registers and *)
(* its stack as it left them, but for the a0 of an ecall (what u_ecall()'s  *)
(* assembly tells the compiler, and the self-test's load relies on).        *)
TrapTransparent ==
    [][pc = "MRET" /\ resets' = resets =>
         /\ pc' = After(before.pc) /\ mode' = before.mode
         /\ \A r \in Reg : regs'[r] = before.regs[r] \/ (r = "a0" /\ csr.mcause = U_ECALL)]_vars

(* The handler never runs on the stack of the code it interrupted, nor that *)
(* code on the handler's, over any number of traps: mscratch always holds   *)
(* the one not in use, and no trap comes while the handler holds it.        *)
StacksApart ==
    csr.mtvec = "trap_entry" =>
      IF pc \in HandlerPc
      THEN regs["sp"] \in {TRAP_TOP, TRAP_TOP - 64} /\ csr.mscratch = MAIN_SP
      ELSE regs["sp"] = MAIN_SP /\ csr.mscratch = TRAP_TOP

(* A debugger may stop the chip at any instant, also in the middle of a     *)
(* later boot: a mailbox whose magic says "up" never shows a leak, and its  *)
(* stage never announces what is not there ("On-board result" in the        *)
(* example's README).                                                       *)
MailboxConsistent ==
    g_mb["MAGIC"] = MAGIC_V2 =>
      /\ g_mb["LEAKED"] = 0 /\ g_mb["STAGE"] \in {0, A11, BAD0, CAUGHT}
      /\ g_mb["STAGE"] # 0 => /\ g_mb["XH3_BEFORE"] = SECRET /\ g_mb["XH3_AFTER"] = SECRET
                              /\ g_mb["XH3_MCAUSE"] = LOAD_FAULT
      /\ g_mb["STAGE"] \in {BAD0, CAUGHT} =>
           g_mb["U_UP"] = 85 /\ g_mb["CNT1"] = 1 /\ g_mb["CNT2"] = 2 /\ g_mb["SIGN0"] = KEYED
      /\ g_mb["STAGE"] = CAUGHT => g_mb["MCAUSE"] = LOAD_FAULT /\ g_mb["MTVAL"] \in {0, G_PROT}

(* minimal-pmp implements the promise of IsolationDemo, like minimal-tz.    *)
(* Its boundary is up when U-mode, or a handler of its traps, runs: the PMP *)
(* denies U-mode g_prot, gives it the rest, and leaves the services their   *)
(* access, the self-test having taken its restriction of M-mode back.       *)
FromU == mode = "U" \/ (pc \in TrapPc /\ csr.mpp = "U")
BoundaryUp == /\ FromU
              /\ ~Allowed("U", "prot") /\ Allowed("U", "ram")
              /\ Allowed("M", "prot") /\ Allowed("M", "ram")
HasSigned  == challenge = "keyed"
Trespass   == IF FromU /\ pc \in TrapPc /\ csr.mcause = LOAD_FAULT THEN "blocked"
              ELSE IF pc = "U_SPIN" THEN "leaked" ELSE "none"
LeftBehind == IF pc = "HALT"
              THEN [cnt1 |-> g_mb["CNT1"], cnt2 |-> g_mb["CNT2"],
                    keyed |-> g_mb["SIGN0"] = KEYED, leaked |-> g_mb["LEAKED"] # 0]
              ELSE [cnt1 |-> 0, cnt2 |-> 0, keyed |-> FALSE, leaked |-> FALSE]

Demo == INSTANCE IsolationDemo WITH
    boundary <- BoundaryUp, counter <- g_prot.counter, signed <- HasSigned,
    outcome <- Trespass, report <- LeftBehind
(* Every step of the example is a step of IsolationDemo or invisible to it, *)
(* and left alone after its last reset it ends in the handler, the fault    *)
(* caught, never in the U-mode program's last loop.                         *)
ImplementsDemo == Demo!DemoSpec
=============================================================================
