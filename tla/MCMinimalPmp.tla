---------------------------- MODULE MCMinimalPmp ----------------------------
(* A value of its own in every register; and for the self-test's load       *)
(* lw a5,0(a5), c.lw a5,0(a5) or c.lw a4,0(a5).                             *)
EXTENDS MinimalPmp

RegOrder == <<"a0", "a1", "a2", "a3", "a4", "a5", "a6", "a7",
              "t0", "t1", "t2", "t3", "t4", "t5", "t6", "ra", "s0">>
MC_Live == [r \in Reg |-> IF r = "sp" THEN MAIN_SP
                          ELSE 100 + (CHOOSE i \in 1..17 : RegOrder[i] = r)]
MC_Loads == {42883, 17308, 17304}     \* 0xA783, 0x439C, 0x4398
=============================================================================
