--------------------------- MODULE MCPmpServices ---------------------------
(* Twelve bytes, g_prot at 4..7: the counter, a spare byte and a key of two *)
(* bytes.  Bytes are two bits wide.                                         *)
EXTENDS PmpServices

MC_Byte == 0..3
MC_Xor ==
    [p \in MC_Byte \X MC_Byte |->
       LET bit(x, w) == (x \div w) % 2
       IN  ((bit(p[1], 1) + bit(p[2], 1)) % 2) + 2 * ((bit(p[1], 2) + bit(p[2], 2)) % 2)]
MC_Counted == [b \in MC_Byte |-> (b + 1) % 4]
MC_Memory0 ==
    {[a \in 0..11 |-> IF a = 4 THEN 0 ELSE IF a = 6 THEN 1 ELSE IF a = 7 THEN 2 ELSE fill[a % 2]] :
       fill \in [0..1 -> {0, 3}]}
(* Every request: any pointer, lengths from none to beyond the limit. *)
MC_Request == (0..11) \X (0..5)
=============================================================================
