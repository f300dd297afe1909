--------------------------- MODULE MCTfmIsolation ---------------------------
(* Systems of up to four partitions on an MPU of eight slots, as on the     *)
(* RP2350, or of fewer so that it runs out.  The memory map is that of      *)
(* MCTargetMap; here the units have few registers, as the partitions are    *)
(* the subject.                                                             *)
EXTENDS TfmBoot, MCTargetMap

MC_IsoC0C1    == <<"SRAM0", "SRAM3">>
MC_IsoC0      == <<"TRNG">>
MC_IsoNs      == <<"SRAM4", "TIMER0", "UART1">>
MC_IsoBank    == {"SRAM0", "SRAM3"}
MC_IsoRefusing == {{}, {"SRAM3"}, {"UART1"}}

Block(base, kb) == [base |-> base, limit |-> base + kb * KB - 1]
MC_UnprivCode == Block(MC_XIP + 100 * KB, 4)
MC_AppCode    == Block(MC_XIP + 104 * KB, 64)
MC_AppRw      == Block(MC_SRAM0 + 32 * KB, 16)
MC_SpMeta     == Block(MC_SRAM0 + 48 * KB, 1)
MC_NsTasks    == {Block(MC_SRAM4 + 16 * KB, 8), Block(MC_SRAM4 + 40 * KB, 8)}

Mmio(reg, base, listed, aligned) ==
    [named |-> TRUE, listed |-> listed, reg |-> reg, base |-> base,
     limit |-> base + 16 * KB - 1, aligned |-> aligned]
UART0    == Mmio("none", 1048576 * KB + 448 * KB, TRUE, TRUE)      \* 0x40070000
UART1    == Mmio("UART1", 1048576 * KB + 480 * KB, TRUE, TRUE)     \* 0x40078000
TIMER0   == Mmio("TIMER0", 1048576 * KB + 704 * KB, TRUE, TRUE)    \* 0x400b0000
Unlisted == [UART1 EXCEPT !.listed = FALSE]
Ragged   == [UART0 EXCEPT !.aligned = FALSE]
Numbered == [UART1 EXCEPT !.named = FALSE]

Root(assets) == [rot |-> TRUE, ns |-> FALSE, assets |-> assets]
App(assets)  == [rot |-> FALSE, ns |-> FALSE, assets |-> assets]
Agent(rot)   == [rot |-> rot, ns |-> TRUE, assets |-> <<>>]

Build(level, meta, slots, load) == [level |-> level, meta |-> meta, slots |-> slots, load |-> load]
MC_Builds ==
    {Build(2, TRUE, 8, <<App(<<UART0, TIMER0>>), Root(<<UART1>>), Agent(TRUE), App(<<Numbered>>)>>),
     Build(2, FALSE, 5, <<App(<<TIMER0, UART1>>), App(<<UART0>>), Root(<<TIMER0>>)>>),
     Build(2, TRUE, 6, <<App(<<TIMER0>>), Agent(FALSE)>>),
     Build(2, TRUE, 8, <<App(<<TIMER0, Unlisted>>), App(<<Ragged>>), Root(<<Numbered, TIMER0>>)>>),
     Build(2, TRUE, 4, <<Root(<<>>)>>),
     Build(1, TRUE, 8, <<App(<<UART1>>), Agent(TRUE), Root(<<TIMER0>>)>>)}

MC_IsoAddr ==
    LET ranges == {MC_UnprivCode, MC_AppCode, MC_AppRw, MC_SpMeta, UART0, UART1, TIMER0}
                    \cup MC_NsTasks
        firsts == {MC_XIP, MC_VENEER, MC_NS, MC_SRAM0, MC_SRAM4, MC_SRAM8, MC_PPB} \cup {r.base : r \in ranges}
        lasts  == {MC_VENEER_LIM, MC_NS_LIM} \cup {r.limit : r \in ranges}
    IN  {b + d : b \in firsts \cup lasts, d \in {-1, 0, 1}}

MC_CheckAddr ==
    {0, MC_VENEER, MC_NS_LIM, MC_AppRw.base, MC_AppRw.limit, UART0.base, TIMER0.limit}
      \cup {t.base : t \in MC_NsTasks} \cup {t.limit : t \in MC_NsTasks}
=============================================================================
