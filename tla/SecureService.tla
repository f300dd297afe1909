--------------------------- MODULE SecureService ---------------------------
(***************************************************************************)
(* The Non-Secure-callable gate of examples/minimal-tz: the two entry      *)
(* functions of secure/secure_service.c and the secret they guard          *)
(* (secure/secret.c), under any Non-Secure client the gate may be called   *)
(* by, one memory access per step.                                         *)
(*                                                                         *)
(* A client is a thread and its interrupt handlers.  A handler may preempt *)
(* a call while its Secure body runs, write any Non-Secure byte, and call  *)
(* the gate itself: calls nest, and only the innermost one runs.           *)
(***************************************************************************)
EXTENDS Integers

CONSTANTS
    AddrMax,            \* the last byte address (0xFFFFFFFF)
    NsRegions,          \* the regions the SAU gives to NS: pairs <<first, last>>
    SECURE_SIGN_MAX,    \* 256
    SECRET_KEY_LEN,     \* 16
    Byte, Xor, s_key,   \* bytes, exclusive or on them, the guarded key
    CounterRange,       \* 2^32
    Request,            \* the argument triples <<challenge, out, len>> tried
    Memory0,            \* the contents memory may start with
    MaxDepth,           \* bound: nested calls
    MaxCalls,           \* bound: calls in a behaviour
    MaxWrites           \* bound: stores by the client in a behaviour

Address == 0..AddrMax

ASSUME GateAssumption ==
    /\ AddrMax \in Nat
    /\ NsRegions \subseteq Address \X Address
    /\ SECURE_SIGN_MAX \in Nat \ {0} /\ SECRET_KEY_LEN \in Nat \ {0}
    /\ Byte # {} /\ Xor \in [Byte \X Byte -> Byte]
    /\ s_key \in [0..(SECRET_KEY_LEN - 1) -> Byte]
    /\ CounterRange \in Nat \ {0}
    /\ Request \subseteq Address \X Address \X Nat
    /\ Memory0 \subseteq [Address -> Byte]
    /\ MaxDepth \in Nat \ {0} /\ MaxCalls \in Nat /\ MaxWrites \in Nat

VARIABLES
    mem,            \* every byte of memory
    s_counter,
    depth,          \* calls in progress
    frame,          \* frame[d]: the d-th of them, outermost first
    calls, writes   \* spent of MaxCalls, MaxWrites

vars == <<mem, s_counter, depth, frame, calls, writes>>

-----------------------------------------------------------------------------
Within(a, r) == r[1] <= a /\ a <= r[2]
NsByte(a) == \E r \in NsRegions : Within(a, r)

(* cmse_check_address_range() with CMSE_NONSECURE: the range does not wrap  *)
(* and its first and last bytes lie in one and the same Non-Secure region.  *)
(* The Non-Secure MPU is off, so reading and writing are allowed alike.     *)
CmseCheck(p, len) ==
    /\ AddrMax - p >= len
    /\ \E r \in NsRegions : Within(p, r) /\ Within(p + len - 1, r)

Keyed(b, i) == Xor[<<b, s_key[i % SECRET_KEY_LEN]>>]

BufIndex == 0..(SECURE_SIGN_MAX - 1)
Stale    == [i \in BufIndex |-> CHOOSE b \in Byte : TRUE]   \* never read

(* A call in progress: its arguments in registers, the loop index, the two  *)
(* buffers on the Secure stack, and the result.  "orig" and "alone" are     *)
(* history: memory at the call, and whether nobody else has stored since.   *)
NewFrame(start, q) ==
    [pc |-> start, challenge |-> q[1], out |-> q[2], len |-> q[3], i |-> 0,
     tmp_in |-> Stale, tmp_out |-> Stale, rc |-> 0, orig |-> mem, alone |-> TRUE]

(* A store that is foreign to the first n calls. *)
Disturbed(n) ==
    [d \in 1..MaxDepth |-> IF d <= n THEN [frame[d] EXCEPT !.alone = FALSE] ELSE frame[d]]

Idle == [pc |-> "idle", challenge |-> 0, out |-> 0, len |-> 0, i |-> 0,
         tmp_in |-> Stale, tmp_out |-> Stale, rc |-> 0,
         orig |-> [a \in Address |-> CHOOSE b \in Byte : TRUE], alone |-> TRUE]

Init ==
    /\ mem \in Memory0
    /\ s_counter = 0 /\ depth = 0 /\ calls = 0 /\ writes = 0
    /\ frame = [d \in 1..MaxDepth |-> Idle]

-----------------------------------------------------------------------------
(* The client. *)

(* A call through a veneer, by the thread or by a handler that preempted    *)
(* the Secure body of another call.                                         *)
Enter(start, q) ==
    /\ depth < MaxDepth /\ calls < MaxCalls
    /\ calls' = calls + 1
    /\ depth' = depth + 1
    /\ frame' = [frame EXCEPT ![depth + 1] = NewFrame(start, q)]
    /\ UNCHANGED <<mem, s_counter, writes>>

CallGetCounter == Enter("load", <<0, 0, 0>>)
CallSign       == \E q \in Request : Enter("check_len", q)

(* A store of a handler, or of the thread between its calls. *)
ClientStore ==
    /\ writes < MaxWrites
    /\ writes' = writes + 1
    /\ \E a \in Address, b \in Byte : NsByte(a) /\ mem' = [mem EXCEPT ![a] = b]
    /\ frame' = Disturbed(depth)
    /\ UNCHANGED <<s_counter, depth, calls>>

-----------------------------------------------------------------------------
(* The innermost call. *)

Top == frame[depth]
At(p) == depth > 0 /\ Top.pc = p
SetTop(f) == frame' = [frame EXCEPT ![depth] = f]

(* Variant: the counter is not kept to its width. *)
LoadCounterUnbounded ==
    /\ At("load")
    /\ SetTop([Top EXCEPT !.pc = "store", !.rc = s_counter + 1])
    /\ UNCHANGED <<mem, s_counter, depth, calls, writes>>

(* secret_next_counter(): ++ on a volatile word is a load and a store. *)
LoadCounter ==
    /\ At("load")
    /\ SetTop([Top EXCEPT !.pc = "store", !.rc = (s_counter + 1) % CounterRange])
    /\ UNCHANGED <<mem, s_counter, depth, calls, writes>>

StoreCounter ==
    /\ At("store")
    /\ s_counter' = Top.rc
    /\ SetTop([Top EXCEPT !.pc = "return"])
    /\ UNCHANGED <<mem, depth, calls, writes>>

(* secure_sign(): the three checks, in order. *)
CheckLen ==
    /\ At("check_len")
    /\ IF Top.len = 0 \/ Top.len > SECURE_SIGN_MAX
       THEN SetTop([Top EXCEPT !.pc = "return", !.rc = -1])
       ELSE SetTop([Top EXCEPT !.pc = "check_in"])
    /\ UNCHANGED <<mem, s_counter, depth, calls, writes>>

CheckChallenge ==
    /\ At("check_in")
    /\ IF CmseCheck(Top.challenge, Top.len)
       THEN SetTop([Top EXCEPT !.pc = "check_out"])
       ELSE SetTop([Top EXCEPT !.pc = "return", !.rc = -2])
    /\ UNCHANGED <<mem, s_counter, depth, calls, writes>>

(* Variants: only the first byte of out is looked at; or the refusal sets   *)
(* the code and does not return.                                            *)
CheckOutFirstByte ==
    /\ At("check_out")
    /\ IF CmseCheck(Top.out, 1)
       THEN SetTop([Top EXCEPT !.pc = "copy_in"])
       ELSE SetTop([Top EXCEPT !.pc = "return", !.rc = -3])
    /\ UNCHANGED <<mem, s_counter, depth, calls, writes>>
CheckOutGoesOn ==
    /\ At("check_out")
    /\ SetTop([Top EXCEPT !.pc = "copy_in",
                          !.rc = IF CmseCheck(Top.out, Top.len) THEN 0 ELSE -3])
    /\ UNCHANGED <<mem, s_counter, depth, calls, writes>>

CheckOut ==
    /\ At("check_out")
    /\ IF CmseCheck(Top.out, Top.len)
       THEN SetTop([Top EXCEPT !.pc = "copy_in"])
       ELSE SetTop([Top EXCEPT !.pc = "return", !.rc = -3])
    /\ UNCHANGED <<mem, s_counter, depth, calls, writes>>

(* Variant: no Secure buffers, each byte is transformed into out at once. *)
CopyInUnbuffered ==
    /\ At("copy_in")
    /\ IF Top.i < Top.len
       THEN /\ mem' = [mem EXCEPT ![Top.out + Top.i] =
                         Keyed(mem[Top.challenge + Top.i], Top.i)]
            /\ frame' = [Disturbed(depth - 1) EXCEPT ![depth].i = Top.i + 1]
       ELSE SetTop([Top EXCEPT !.pc = "return"]) /\ UNCHANGED mem
    /\ UNCHANGED <<s_counter, depth, calls, writes>>

(* tmp_in[i] = challenge[i]; one Non-Secure byte per step. *)
CopyIn ==
    /\ At("copy_in")
    /\ IF Top.i < Top.len
       THEN SetTop([Top EXCEPT !.tmp_in[Top.i] = mem[Top.challenge + Top.i],
                               !.i = Top.i + 1])
       ELSE SetTop([Top EXCEPT !.pc = "transform"])
    /\ UNCHANGED <<mem, s_counter, depth, calls, writes>>

(* secret_keyed_transform() works on the two Secure buffers only, so no     *)
(* other actor can tell its steps apart.                                    *)
Transform ==
    /\ At("transform")
    /\ SetTop([Top EXCEPT !.pc = "copy_out", !.i = 0, !.tmp_out =
                 [j \in BufIndex |-> IF j < Top.len THEN Keyed(Top.tmp_in[j], j)
                                                    ELSE Top.tmp_out[j]]])
    /\ UNCHANGED <<mem, s_counter, depth, calls, writes>>

(* Variant: the loop index is never advanced. *)
CopyOutStuck ==
    /\ At("copy_out") /\ Top.i < Top.len
    /\ mem' = [mem EXCEPT ![Top.out + Top.i] = Top.tmp_out[Top.i]]
    /\ frame' = Disturbed(depth - 1)
    /\ UNCHANGED <<s_counter, depth, calls, writes>>

(* out[i] = tmp_out[i]; for a preempted call this is a foreign store. *)
CopyOut ==
    /\ At("copy_out")
    /\ IF Top.i < Top.len
       THEN /\ mem' = [mem EXCEPT ![Top.out + Top.i] = Top.tmp_out[Top.i]]
            /\ frame' = [Disturbed(depth - 1) EXCEPT ![depth].i = Top.i + 1]
       ELSE SetTop([Top EXCEPT !.pc = "return"]) /\ UNCHANGED mem
    /\ UNCHANGED <<s_counter, depth, calls, writes>>

(* Either function: rc is what the client gets. *)
Return ==
    /\ At("return")
    /\ SetTop(Idle) /\ depth' = depth - 1
    /\ UNCHANGED <<mem, s_counter, calls, writes>>

GateStep ==
    \/ LoadCounter \/ StoreCounter
    \/ CheckLen \/ CheckChallenge \/ CheckOut \/ CopyIn \/ Transform \/ CopyOut
    \/ Return

ClientStep == CallGetCounter \/ CallSign \/ ClientStore

Next == GateStep \/ ClientStep

(* The processor goes on with the call it is in once the handlers are done. *)
Spec == Init /\ [][Next]_vars /\ WF_vars(GateStep)

-----------------------------------------------------------------------------
(* Properties *)

FramePc == {"idle", "load", "store", "check_len", "check_in",
            "check_out", "copy_in", "transform", "copy_out", "return"}
Frame == [pc : FramePc, challenge : Address, out : Address, len : Nat, i : Nat,
          tmp_in : [BufIndex -> Byte], tmp_out : [BufIndex -> Byte], rc : Int,
          orig : [Address -> Byte], alone : BOOLEAN]

(* Type correctness; the calls in progress are the first depth frames. *)
TypeOK ==
    /\ mem \in [Address -> Byte]
    /\ s_counter \in 0..(CounterRange - 1)
    /\ depth \in 0..MaxDepth /\ frame \in [1..MaxDepth -> Frame]
    /\ calls \in 0..MaxCalls /\ writes \in 0..MaxWrites
    /\ \A d \in 1..MaxDepth : d > depth <=> frame[d].pc = "idle"

(* Whatever pointers, lengths and preemptions the client comes up with, no  *)
(* byte outside Non-Secure memory ever changes (the rule in the header of   *)
(* secure_service.c).                                                       *)
SecureBytesKept ==
    [][\A a \in Address : ~NsByte(a) => mem'[a] = mem[a]]_vars

(* And none is ever fetched: past the checks, all of both ranges is         *)
(* Non-Secure, and the copy loops stay inside them.                         *)
Busy == {"copy_in", "transform", "copy_out"}
RangesNonSecure ==
    \A d \in 1..MaxDepth : frame[d].pc \in Busy =>
        /\ frame[d].len \in 1..SECURE_SIGN_MAX /\ frame[d].i <= frame[d].len
        /\ \A j \in 0..(frame[d].len - 1) :
             /\ frame[d].challenge + j <= AddrMax /\ NsByte(frame[d].challenge + j)
             /\ frame[d].out + j <= AddrMax /\ NsByte(frame[d].out + j)

(* A call that returns 0 and met no foreign store has put the transform of  *)
(* the challenge as it stood at the call into out, also when the two        *)
(* buffers overlap in either direction (secret.h's out[i] = in[i] ^ key).   *)
SignsTheOriginal ==
    \A d \in 1..MaxDepth :
        frame[d].pc = "return" /\ frame[d].rc = 0 /\ frame[d].alone =>
          \A j \in 0..(frame[d].len - 1) :
            mem[frame[d].out + j] = Keyed(frame[d].orig[frame[d].challenge + j], j)

(* A refused call has stored nothing: memory is as it was at the call.      *)
RefusalsAreInert ==
    \A d \in 1..MaxDepth :
        frame[d].pc = "return" /\ frame[d].rc < 0 /\ frame[d].alone
          => mem = frame[d].orig

(* secret.h: "a monotonically increasing counter.  Each call bumps it by    *)
(* one": the store of a call moves the counter to its successor, and that   *)
(* is what the call returns.                                                *)
EachCallBumps ==
    [][\A d \in 1..MaxDepth :
         frame[d].pc = "store" /\ frame'[d].pc = "return" =>
           /\ s_counter' = (s_counter + 1) % CounterRange
           /\ frame'[d].rc = s_counter']_vars

(* Every call comes back: the loops are bounded by SECURE_SIGN_MAX. *)
CallsReturn == \A d \in 1..MaxDepth : depth >= d ~> depth < d
=============================================================================
