------------------------------ MODULE PmpGuard ------------------------------
(***************************************************************************)
(* The guard of svc_sign() in examples/minimal-pmp/main.c, in the width of *)
(* the machine: sums of addresses wrap at SPACE.                           *)
(***************************************************************************)
EXTENDS Integers

CONSTANTS
    SPACE,          \* 2^32
    G_PROT,         \* &g_prot
    PROT_SIZE,      \* sizeof(g_prot), 64
    SIGN_MAX        \* 64

(* g_prot lies in RAM, a buffer's length away from both ends of the map. *)
ASSUME GuardAssumption ==
    /\ {SPACE, G_PROT, PROT_SIZE, SIGN_MAX} \subseteq Nat
    /\ 0 < PROT_SIZE /\ 0 < SIGN_MAX
    /\ SIGN_MAX <= G_PROT /\ G_PROT + PROT_SIZE + SIGN_MAX <= SPACE

Address == 0..(SPACE - 1)
Prot    == G_PROT..(G_PROT + PROT_SIZE - 1)

(* Variant: the overlap test compares the first byte only. *)
RefusedFirstByte(b, len) ==
    \/ len > SIGN_MAX
    \/ b >= G_PROT /\ b < G_PROT + PROT_SIZE

(* Variant: the test with <= and >=, one byte too strict at both ends.      *)
RefusedNeighbours(b, len) ==
    \/ len > SIGN_MAX
    \/ (b + len) % SPACE >= G_PROT /\ b <= (G_PROT + PROT_SIZE) % SPACE

(* svc_sign() turns the request (buf, len) away. *)
Refused(b, len) ==
    \/ len > SIGN_MAX
    \/ (b + len) % SPACE > G_PROT /\ b < (G_PROT + PROT_SIZE) % SPACE

(* The bytes its loop would read and write. *)
Nth(b, i) == (b + i) % SPACE
Touched(b, len) == {Nth(b, i) : i \in 0..(len - 1)}
=============================================================================
