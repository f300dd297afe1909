-------------------------- MODULE MCSecureService --------------------------
(* Eight bytes: 2..4 and 6..7 are two Non-Secure regions, 0, 1 and 5 are    *)
(* Secure; one-bit bytes and a two-byte key.                                *)
EXTENDS SecureService

MC_NsRegions == {<<2, 4>>, <<6, 7>>}
MC_Byte == 0..1
MC_Xor  == [p \in MC_Byte \X MC_Byte |-> (p[1] + p[2]) % 2]
MC_Key  == [i \in 0..1 |-> 1 - i]
MC_Memory0 == {[a \in 0..7 |-> IF a \in ones THEN 1 ELSE 0] : ones \in {{3}, {1, 2, 4, 7}}}

(* Overlaps both ways, the same buffer twice, ranges that leave a region at *)
(* either end, span two regions, wrap, or are too long or empty.            *)
MC_Request == {<<2, 3, 2>>, <<3, 2, 2>>, <<2, 2, 3>>, <<6, 2, 1>>, <<2, 6, 2>>,
               <<4, 6, 3>>, <<1, 2, 2>>, <<2, 4, 2>>, <<2, 1, 2>>, <<4, 2, 3>>,
               <<2, 7, 3>>, <<2, 2, 0>>, <<2, 2, 4>>}
(* Fewer requests, for the run about the counter. *)
MC_FewRequests == {<<2, 3, 2>>, <<3, 2, 2>>, <<2, 4, 2>>}
=============================================================================
