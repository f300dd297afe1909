----------------------------- MODULE MinimalTz -----------------------------
(***************************************************************************)
(* examples/minimal-tz as a whole: the boot of TzConfig, the Non-Secure    *)
(* program (nonsecure/main_ns.c), the two veneers it calls                 *)
(* (secure/secure_service.c, secret.c), the Secure fault handler           *)
(* (isr_hardfault in secure/main_s.c) and the two mailboxes a debugger     *)
(* reads: one in Non-Secure RAM, one, s_result, in Secure RAM.             *)
(*                                                                         *)
(* Whether an access of the Non-Secure program goes through or faults is   *)
(* decided by the SAU as the boot left it, never assumed.  RAM holds       *)
(* anything at power-on and keeps its contents across a reset.             *)
(***************************************************************************)
EXTENDS TzConfig, Sequences

CONSTANTS
    JUNK,           \* what a word of RAM holds at power-on
    SECRET,         \* the word at S_RAM_START
    KEYED           \* the first word of the signed challenge

VARIABLES
    mb,             \* the mailbox at NS_MAILBOX_ADDR
    sres,           \* s_result
    s_counter

tzVars == <<vars, mb, sres, s_counter>>

ALIVE == 1314062337         \* 0x4E530001
MARK  == 1590624256         \* 0x5ECF0000
BAD0  == 47824              \* 0xBAD0
FA11  == 64017              \* 0xFA11
SFSR_AUVIOL == 72           \* 0x48: AUVIOL | SFARVALID

ASSUME ValueAssumption ==
    /\ {JUNK, SECRET, KEYED} \subseteq Int
    /\ SECRET # 0 /\ KEYED # 0 /\ JUNK # ALIVE

MbOrder == <<"MAGIC", "CNT1", "CNT2", "SIGN_RC", "SIGN_R0", "LEAKED", "STAGE">>
SrOrder == <<"MARK", "SFSR", "CNT1", "CNT2", "SIGN_RC", "SIGN_R0", "LEAKED", "STAGE">>
MbField == {MbOrder[i] : i \in 1..7}
SrField == {SrOrder[i] : i \in 1..8}

(* The program's accesses: its RAM image, stack and mailbox, the veneers.   *)
NsMay(a)    == Attr(a) = "NS"
MayCallGate == Attr(VENEER_START) = "NSC"
StackAddr   == NS_RAM_LIMIT

(* Go on if the SAU lets the access through, else take the SecureFault,     *)
(* which escalates to the Secure HardFault.                                 *)
GotoIf(allowed, next, i) ==
    IF allowed THEN Goto(next, i) ELSE Goto("MARK", 0)

(* A store to the mailbox, then on to the next step. *)
Publish(field, value, next, i) ==
    /\ GotoIf(NsMay(NS_MAILBOX_ADDR), next, i)
    /\ mb' = IF NsMay(NS_MAILBOX_ADDR) THEN [mb EXCEPT ![field] = value] ELSE mb

TzInit ==
    /\ CfgInit
    /\ mb = [f \in MbField |-> JUNK]
    /\ sres = [f \in SrField |-> JUNK]
    /\ s_counter = 0

-----------------------------------------------------------------------------
(* launch_nonsecure()'s BLXNS, and ns_reset(): the image has no .bss.       *)
EnterNonSecure ==
    /\ pc = "BLXNS" /\ GotoIf(NsMay(NS_RAM_START), "NS_ZERO", 0)
    /\ UNCHANGED <<mb, s_counter>>

(* Variant: the last word of the mailbox, its stage, is not zeroed. *)
ZeroMailboxShort ==
    /\ pc = "NS_ZERO"
    /\ IF idx = 5 THEN Publish(MbOrder[idx + 1], 0, "NS_ALIVE", 0)
                  ELSE Publish(MbOrder[idx + 1], 0, "NS_ZERO", idx + 1)
    /\ UNCHANGED s_counter

(* ns_main(): the mailbox is zeroed word by word, then claimed. *)
ZeroMailbox ==
    /\ pc = "NS_ZERO"
    /\ IF idx = 6 THEN Publish(MbOrder[idx + 1], 0, "NS_ALIVE", 0)
                  ELSE Publish(MbOrder[idx + 1], 0, "NS_ZERO", idx + 1)
    /\ UNCHANGED s_counter

SayAlive ==
    /\ pc = "NS_ALIVE" /\ Publish("MAGIC", ALIVE, "NS_STAGE", 1)
    /\ UNCHANGED s_counter

(* NS_MB[MB_STAGE] = 1, 2, 3 and 0xBAD0, each before what it announces. *)
SetStage ==
    /\ pc = "NS_STAGE"
    /\ \/ idx = 1 /\ Publish("STAGE", 1, "NS_COUNTER", 1)
       \/ idx = 2 /\ Publish("STAGE", 2, "NS_SIGN", 0)
       \/ idx = 3 /\ Publish("STAGE", 3, "NS_STAGE", BAD0)
       \/ idx = BAD0 /\ Publish("STAGE", BAD0, "NS_READ", 0)
    /\ UNCHANGED s_counter

(* NS_MB[MB_CNTn] = secure_get_counter(), the veneer and its body included; *)
(* the counter is 32 bits wide and restarts at 0 with the processor.        *)
CallCounter ==
    /\ pc = "NS_COUNTER"
    /\ IF MayCallGate
       THEN /\ s_counter' = s_counter + 1
            /\ IF idx = 1 THEN Publish("CNT1", s_counter + 1, "NS_COUNTER", 2)
                          ELSE Publish("CNT2", s_counter + 1, "NS_STAGE", 2)
       ELSE Goto("MARK", 0) /\ UNCHANGED <<mb, s_counter>>

(* rc = secure_sign(challenge, result, 16): both buffers are on the stack.  *)
SignResult == IF NsMay(StackAddr) THEN 0 ELSE -2

CallSign ==
    /\ pc = "NS_SIGN"
    /\ IF MayCallGate
       THEN Publish("SIGN_RC", SignResult, "NS_R0", 0)
       ELSE Goto("MARK", 0) /\ UNCHANGED mb
    /\ UNCHANGED s_counter

(* The first word of result[], which was zeroed before the call. *)
PackResult ==
    /\ pc = "NS_R0"
    /\ Publish("SIGN_R0", IF mb["SIGN_RC"] = 0 THEN KEYED ELSE 0, "NS_STAGE", 3)
    /\ UNCHANGED s_counter

(* The read of S_RAM_START, and, should it ever be allowed, the two stores  *)
(* and the loop that follow it.                                             *)
IllegalRead ==
    /\ pc = "NS_READ"
    /\ GotoIf(NsMay(S_RAM_START), "NS_SPIN", 0)
    /\ mb' = IF NsMay(S_RAM_START)
             THEN [mb EXCEPT !["LEAKED"] = SECRET, !["STAGE"] = FA11] ELSE mb
    /\ UNCHANGED s_counter

NsStep ==
    /\ \/ EnterNonSecure \/ ZeroMailbox \/ SayAlive \/ SetStage
       \/ CallCounter \/ CallSign \/ PackResult \/ IllegalRead
    /\ UNCHANGED <<cfgVars, resets, sres>>

-----------------------------------------------------------------------------
(* isr_hardfault(): the mark comes first, then SFSR and the six words of    *)
(* the Non-Secure mailbox after its magic, one at a time; then it loops.    *)
MarkFault ==
    /\ pc = "MARK" /\ Goto("SNAP", 1)
    /\ sres' = [sres EXCEPT !["MARK"] = MARK]

(* Variant: the last word, the stage, is not copied. *)
SnapshotShort ==
    /\ pc = "SNAP"
    /\ IF idx = 6 THEN Goto("HALT", 0) ELSE Goto("SNAP", idx + 1)
    /\ sres' = [sres EXCEPT ![SrOrder[idx + 1]] =
                    IF idx = 1 THEN SFSR_AUVIOL ELSE mb[MbOrder[idx]]]

Snapshot ==
    /\ pc = "SNAP"
    /\ IF idx = 7 THEN Goto("HALT", 0) ELSE Goto("SNAP", idx + 1)
    /\ sres' = [sres EXCEPT ![SrOrder[idx + 1]] =
                    IF idx = 1 THEN SFSR_AUVIOL ELSE mb[MbOrder[idx]]]

FaultStep ==
    /\ MarkFault \/ Snapshot
    /\ UNCHANGED <<cfgVars, resets, mb, s_counter>>

BootStep == ConfigStep /\ UNCHANGED <<mb, sres, s_counter>>

(* Variant: s_counter lives in RAM the C runtime does not clear. *)
ResetKeepsCounter == ProcessorReset /\ UNCHANGED <<mb, sres, s_counter>>

(* The C runtime clears s_counter on the way to main(); nothing clears the  *)
(* Non-Secure mailbox, and s_result has no entry in linker_s.ld: it may     *)
(* keep its words or be loaded with zeros.                                  *)
Reset ==
    /\ ProcessorReset
    /\ s_counter' = 0 /\ UNCHANGED mb
    /\ sres' \in {sres, [f \in SrField |-> 0]}

ProcessorStep == BootStep \/ NsStep \/ FaultStep

TzNext == ProcessorStep \/ Reset

(* The processor goes on executing: nothing in the example ever sleeps. *)
TzSpec == TzInit /\ [][TzNext]_tzVars /\ WF_tzVars(ProcessorStep)

-----------------------------------------------------------------------------
(* Properties *)

NsPc    == {"NS_ZERO", "NS_ALIVE", "NS_STAGE", "NS_COUNTER", "NS_SIGN",
            "NS_R0", "NS_READ", "NS_SPIN"}
FaultPc == {"MARK", "SNAP", "HALT"}

(* Type correctness of the whole example: no loop of the boot runs over,    *)
(* and the counter restarts with it.                                        *)
TzTypeOK ==
    /\ pc \in ConfigPc \cup NsPc \cup FaultPc /\ (pc \in ConfigPc => PlaceOK)
    /\ SauOK /\ DmaOK /\ AcOK /\ RestOK
    /\ mb \in [MbField -> Int] /\ sres \in [SrField -> Int] /\ s_counter \in 0..2

(* A debugger may stop the chip at any instant, also in the middle of a     *)
(* later boot: a mailbox whose magic says "alive" never shows a leak, and   *)
(* its stage never claims results that are not there (the order of the      *)
(* stores in ns_main()).                                                    *)
MailboxConsistent ==
    mb["MAGIC"] = ALIVE =>
      /\ mb["LEAKED"] = 0
      /\ mb["STAGE"] \in {0, 1, 2, 3, BAD0}
      /\ mb["STAGE"] \in {2, 3, BAD0} => mb["CNT1"] = 1 /\ mb["CNT2"] = 2
      /\ mb["STAGE"] \in {3, BAD0} => mb["SIGN_RC"] = 0 /\ mb["SIGN_R0"] = KEYED

(* Once the handler loops, s_result is the record of this boot's run, none  *)
(* of it from power-on or from an earlier boot ("On-board result" in the    *)
(* example's README).                                                       *)
RecordOfThisBoot ==
    pc = "HALT" =>
      sres = [MARK |-> MARK, SFSR |-> SFSR_AUVIOL, CNT1 |-> 1, CNT2 |-> 2,
              SIGN_RC |-> 0, SIGN_R0 |-> KEYED, LEAKED |-> 0, STAGE |-> BAD0]

(* minimal-tz implements the promise of IsolationDemo.  Its boundary is up  *)
(* once the boot is over, as long as the SAU keeps the Secure RAM to itself *)
(* and lets the Non-Secure world call the veneers.                          *)
BoundaryUp == /\ pc \notin ConfigPc
              /\ Attr(S_RAM_START) = "S" /\ Attr(VENEER_START) = "NSC"
HasSigned  == \/ pc \in {"NS_R0", "NS_READ"} \cup FaultPc
              \/ pc = "NS_STAGE" /\ idx > 2
Trespass   == IF pc \in FaultPc THEN "blocked"
              ELSE IF pc = "NS_SPIN" THEN "leaked" ELSE "none"
LeftBehind == IF pc = "HALT"
              THEN [cnt1 |-> sres["CNT1"], cnt2 |-> sres["CNT2"],
                    keyed |-> sres["SIGN_R0"] = KEYED, leaked |-> sres["LEAKED"] # 0]
              ELSE [cnt1 |-> 0, cnt2 |-> 0, keyed |-> FALSE, leaked |-> FALSE]

Demo == INSTANCE IsolationDemo WITH
    boundary <- BoundaryUp, counter <- s_counter, signed <- HasSigned,
    outcome <- Trespass, report <- LeftBehind
(* Every step of the example is a step of IsolationDemo or invisible to it, *)
(* and left alone after its last reset it ends in the Secure fault handler  *)
(* with the full report, never in the client's last loop.                   *)
ImplementsDemo == Demo!DemoSpec
=============================================================================
