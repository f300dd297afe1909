---------------------------- MODULE MCTargetCfg -----------------------------
(* The platform set-up on the RP2350's map.  Of the lists of registers,     *)
(* the first and the last of the Secure SRAM banks, and a few of the others.*)
EXTENDS TargetCfg, MCTargetMap

MC_Addr ==
    LET bounds == {MC_ROM_LIMIT + 1, MC_XIP, MC_VENEER, MC_VENEER_LIM + 1, MC_NS,
                   MC_NS_LIM + 1, MC_SRAM0, MC_SRAM4, MC_SRAM8, MC_PPB}
    IN  {0} \cup UNION {{b - 1, b, b + 1} : b \in bounds}

MC_C0C1       == <<"SRAM0", "SRAM3">>
MC_C0         == <<"TRNG">>
MC_Ns         == <<"SRAM4", "TIMER0">>
MC_SecureBank == {"SRAM0", "SRAM3"}
MC_Refusing   == {{}, {"SRAM3"}, {"TIMER0"}}
=============================================================================
