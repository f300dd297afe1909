------------------------------ MODULE PmpSetup ------------------------------
(***************************************************************************)
(* pmp_isolate_secret() of examples/minimal-pmp/main.c, CSR write by CSR   *)
(* write, with the region in the encoding that the PMP decodes, for every  *)
(* place the linker may put g_prot in.  MinimalPmp has it as one step and  *)
(* says "prot" and "all" for the two regions.                              *)
(***************************************************************************)
EXTENDS Integers, FiniteSetsExt

CONSTANTS
    SPACE,          \* one past the greatest address and CSR value (2^32)
    Powers,         \* the powers of two up to it
    GRANULE,        \* the least block the PMP tells apart: 32 bytes
    BitOr(_, _),    \* the bitwise OR of two words
    Sizes,          \* what sizeof(g_prot) may be: 64, or a power of two from 8 up
    Junk            \* what pmpaddr0 and pmpaddr1 may hold out of reset

Address == 0..(SPACE - 1)

Blocks == {8 * p : p \in Powers} \cap Powers \cap Address

(* Of the powers of two, that twice the lesser divides the greater; of the  *)
(* OR, that it adds a multiple of one of them and a number below it.        *)
ASSUME SetupAssumption ==
    /\ SPACE \in Powers \cap {4 * p : p \in Powers} /\ Powers \subseteq 1..SPACE /\ SPACE \in Nat
    /\ 1 \in Powers /\ \A p, q \in Powers : p < q => q % (2 * p) = 0
    /\ \A p \in Powers : \A x \in Address, y \in 0..(p - 1) : x % p = 0 => BitOr(x, y) = x + y
    /\ GRANULE \in Blocks /\ Sizes \subseteq Blocks /\ Junk \subseteq Address

VARIABLES
    pc,
    G_PROT, size,   \* where g_prot lies, and its size
    pmpaddr,        \* pmpaddr0, pmpaddr1
    pmpcfg0,        \* the bytes of entries 0 and 1
    PMPCFGM0        \* the entries that bind M-mode

setupVars == <<pc, G_PROT, size, pmpaddr, pmpcfg0, PMPCFGM0>>

Ones == SPACE - 1
Off  == [napot |-> FALSE, rwx |-> FALSE]

(* g_prot is aligned to its size. *)
SetupInit ==
    /\ pc = "ADDR0"
    /\ size \in Sizes /\ G_PROT \in {a \in Address : a % size = 0}
    /\ pmpaddr \in [0..1 -> Junk] /\ pmpcfg0 = [i \in 0..1 |-> Off] /\ PMPCFGM0 = {}

-----------------------------------------------------------------------------
(* Variant: the mask covers half of the region. *)
pmp_napot_half(base, sz) == BitOr(base \div 4, (sz \div 16) - 1)

(* NAPOT pmpaddr: the address in words, its low bits replaced by ones. *)
pmp_napot(base, sz) == BitOr(base \div 4, (sz \div 8) - 1)

WriteAddr0 ==
    /\ pc = "ADDR0" /\ pc' = "ADDR1"
    /\ pmpaddr' = [pmpaddr EXCEPT ![0] = pmp_napot(G_PROT, size)]
    /\ UNCHANGED <<G_PROT, size, pmpcfg0, PMPCFGM0>>

WriteAddr1 ==
    /\ pc = "ADDR1" /\ pc' = "CFG0"
    /\ pmpaddr' = [pmpaddr EXCEPT ![1] = Ones]
    /\ UNCHANGED <<G_PROT, size, pmpcfg0, PMPCFGM0>>

WriteCfg0 ==
    /\ pc = "CFG0" /\ pc' = "CFGM0"
    /\ pmpcfg0' = [i \in 0..1 |-> [napot |-> TRUE, rwx |-> i = 1]]
    /\ UNCHANGED <<G_PROT, size, pmpaddr, PMPCFGM0>>

WriteCfgM0 ==
    /\ pc = "CFGM0" /\ pc' = "DONE"
    /\ PMPCFGM0' = {}
    /\ UNCHANGED <<G_PROT, size, pmpaddr, pmpcfg0>>

(* XH3: entry 0 binds M-mode too, until the handler lifts it. *)
RestrictM ==
    /\ pc = "DONE" /\ pc' = "RESTRICTED"
    /\ PMPCFGM0' = {0}
    /\ UNCHANGED <<G_PROT, size, pmpaddr, pmpcfg0>>

Lift ==
    /\ pc = "RESTRICTED" /\ pc' = "LIFTED"
    /\ PMPCFGM0' = {}
    /\ UNCHANGED <<G_PROT, size, pmpaddr, pmpcfg0>>

SetupNext == WriteAddr0 \/ WriteAddr1 \/ WriteCfg0 \/ WriteCfgM0 \/ RestrictM \/ Lift

SetupSpec == SetupInit /\ [][SetupNext]_setupVars

-----------------------------------------------------------------------------
(* The PMP.  pmpaddr is of limited width, a word address and no more, and   *)
(* its bits below the granule read as ones.                                 *)
Grain   == GRANULE \div 8
Held(y) == LET z == y % (SPACE \div 4) IN z - (z % Grain) + (Grain - 1)

(* The longest row of ones that z ends in, as one more than their value     *)
(* p - 1; the region is of 8 * p bytes, in words from the address with      *)
(* those ones taken away; the lowest entry decides.                         *)
OnesOf(z) == Max({p \in Powers : z % p = p - 1})
Region(z) == LET p == OnesOf(z) IN (4 * (z - (p - 1)))..(4 * (z - (p - 1)) + 8 * p - 1)
Napot(y)  == Region(Held(y))
Hits(a)   == {i \in 0..1 : pmpcfg0[i].napot /\ a \in Napot(pmpaddr[i])}

UMay(a) == Hits(a) # {} /\ pmpcfg0[Min(Hits(a))].rwx
MMay(a) == Hits(a) = {} \/ Min(Hits(a)) \notin PMPCFGM0 \/ pmpcfg0[Min(Hits(a))].rwx

-----------------------------------------------------------------------------
(* Properties *)

InProt(a) == a \in G_PROT..(G_PROT + size - 1)

(* "the PMP denies [it] to U-mode", and "the NAPOT region still covers the  *)
(* secret" whatever the granule masks: from the write of pmpcfg0 on, U-mode *)
(* has no byte of g_prot, wherever that lies, at the ends of the map too,   *)
(* and, if g_prot is a granule or more, every other byte; and M-mode has    *)
(* them all but while the self-test takes the same bytes from it.           *)
Denied(may(_)) ==
    \A a \in Address : /\ InProt(a) => ~may(a)
                       /\ ~InProt(a) /\ size >= GRANULE => may(a)
DeniesExactly ==
    /\ pc \in {"CFGM0", "DONE", "RESTRICTED", "LIFTED"} => Denied(UMay)
    /\ IF pc = "RESTRICTED" THEN Denied(MMay) ELSE \A a \in Address : MMay(a)
=============================================================================
