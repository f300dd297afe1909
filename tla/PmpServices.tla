---------------------------- MODULE PmpServices ----------------------------
(***************************************************************************)
(* The two services M-mode offers through ecall in examples/minimal-pmp    *)
(* (trap_dispatch and svc_sign in main.c), under any U-mode program that   *)
(* asks for them and stores to its own memory.  The counter and the key    *)
(* lie in memory, in the block g_prot, next to whatever the pointers of    *)
(* the requests name.                                                      *)
(***************************************************************************)
EXTENDS PmpGuard

CONSTANTS
    KEY_LEN,            \* 16
    COUNTER, KEY,       \* the address of g_prot.counter; the first byte of g_prot.key
    Byte, Xor,          \* bytes and exclusive or on them
    Counted,            \* the counter word after one more increment
    Memory0,            \* contents of memory when U-mode is entered
    Request,            \* the pairs <<buf, len>> tried
    MaxCalls            \* bound: ecalls and stores in a behaviour

ASSUME ServiceAssumption ==
    /\ KEY_LEN \in Nat \ {0}
    /\ COUNTER \in Prot /\ KEY \in Prot /\ COUNTER < KEY
    /\ KEY + KEY_LEN <= G_PROT + PROT_SIZE
    /\ Xor \in [Byte \X Byte -> Byte] /\ Counted \in [Byte -> Byte]
    /\ Memory0 \subseteq [Address -> Byte]
    /\ Request \subseteq Address \X (0..(SPACE - 1))
    /\ MaxCalls \in Nat

VARIABLES
    mem,
    pc,                 \* "user", or where the service is
    buf, len, i,        \* svc_sign's arguments and loop index
    a0,                 \* what the last ecall returned
    orig,               \* history: memory when svc_sign was called
    calls               \* spent of MaxCalls

vars == <<mem, pc, buf, len, i, a0, orig, calls>>

Init ==
    /\ mem \in Memory0 /\ orig = mem
    /\ pc = "user" /\ buf = 0 /\ len = 0 /\ i = 0 /\ a0 = 0 /\ calls = 0

-----------------------------------------------------------------------------
(* U-mode.  The PMP lets it store anywhere but in g_prot. *)

UserStore ==
    /\ pc = "user" /\ calls < MaxCalls /\ calls' = calls + 1
    /\ \E a \in Address \ Prot, b \in Byte : mem' = [mem EXCEPT ![a] = b]
    /\ UNCHANGED <<pc, buf, len, i, a0, orig>>

EcallGetCounter ==
    /\ pc = "user" /\ calls < MaxCalls /\ calls' = calls + 1
    /\ mem' = [mem EXCEPT ![COUNTER] = Counted[mem[COUNTER]]]
    /\ a0' = mem'[COUNTER]
    /\ UNCHANGED <<pc, buf, len, i, orig>>

EcallUnknown ==
    /\ pc = "user" /\ calls < MaxCalls /\ calls' = calls + 1
    /\ a0' = -1
    /\ UNCHANGED <<mem, pc, buf, len, i, orig>>

(* SVC_SIGN: a0 is 0 also when svc_sign() turns the request away. *)
EcallSign ==
    /\ pc = "user" /\ calls < MaxCalls /\ calls' = calls + 1
    /\ \E q \in Request :
         /\ buf' = q[1] /\ len' = q[2]
         /\ pc' = IF Refused(q[1], q[2]) THEN "refused" ELSE "loop"
    /\ i' = 0 /\ a0' = 0 /\ orig' = mem
    /\ UNCHANGED mem

-----------------------------------------------------------------------------
(* svc_sign()'s loop, in place. *)

KeyByte(n) == mem[KEY + (n % KEY_LEN)]

(* Variant: the key's index is taken from the address. *)
SignByteByAddress ==
    /\ pc = "loop" /\ i < len
    /\ mem' = [mem EXCEPT ![Nth(buf, i)] = Xor[<<mem[Nth(buf, i)], KeyByte(Nth(buf, i))>>]]
    /\ i' = i + 1
    /\ UNCHANGED <<pc, buf, len, a0, orig, calls>>

(* Variant: the loop's bound is one too far. *)
SignByteOver ==
    /\ pc = "loop" /\ i <= len
    /\ mem' = [mem EXCEPT ![Nth(buf, i)] = Xor[<<mem[Nth(buf, i)], KeyByte(i)>>]]
    /\ i' = i + 1
    /\ UNCHANGED <<pc, buf, len, a0, orig, calls>>

SignByte ==
    /\ pc = "loop" /\ i < len
    /\ mem' = [mem EXCEPT ![Nth(buf, i)] = Xor[<<mem[Nth(buf, i)], KeyByte(i)>>]]
    /\ i' = i + 1
    /\ UNCHANGED <<pc, buf, len, a0, orig, calls>>

(* Back through mret, from either end of svc_sign(). *)
SignReturn ==
    /\ \/ pc = "loop" /\ i >= len
       \/ pc = "refused"
    /\ pc' = "user"
    /\ UNCHANGED <<mem, buf, len, i, a0, orig, calls>>

Next == UserStore \/ EcallGetCounter \/ EcallUnknown \/ EcallSign \/ SignByte \/ SignReturn

Spec == Init /\ [][Next]_vars

-----------------------------------------------------------------------------
(* Properties *)

(* Type correctness; the loop never runs past len. *)
TypeOK ==
    /\ mem \in [Address -> Byte] /\ orig \in [Address -> Byte]
    /\ pc \in {"user", "loop", "refused"}
    /\ buf \in Address /\ len \in 0..(SPACE - 1) /\ i \in 0..len
    /\ a0 \in Byte \cup {0, -1}
    /\ calls \in 0..MaxCalls

(* The one refusal svc_sign() knows is neither too weak nor too strong: a   *)
(* request of at least one byte runs exactly if it is short enough and none *)
(* of its bytes lies in g_prot, also where buf + len wraps.                 *)
GuardExact ==
    /\ pc = "loop" /\ len > 0 => len <= SIGN_MAX /\ Touched(buf, len) \cap Prot = {}
    /\ pc = "refused" /\ len > 0 => len > SIGN_MAX \/ Touched(buf, len) \cap Prot # {}

(* Nothing U-mode asks for changes the protected block but the counter, and *)
(* that only by counting (the comment above svc_sign()).                    *)
ProtectedKept ==
    [][\A a \in Prot :
         mem'[a] = mem[a] \/ (a = COUNTER /\ mem'[a] = Counted[mem[a]])]_vars

(* A finished signature is the keyed transform of what the buffer held at   *)
(* the call, byte by byte, and the rest of memory is as it was.             *)
SignsInPlace ==
    pc = "loop" /\ i = len =>
      \A a \in Address :
        mem[a] = IF \E j \in 0..(len - 1) : a = Nth(buf, j)
                 THEN Xor[<<orig[a], KeyByte((a - buf) % SPACE)>>] ELSE orig[a]
=============================================================================
