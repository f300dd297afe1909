---------------------------- MODULE MCSerialGate ----------------------------
(* The instance of MCSecureService, for one call at a time. *)
EXTENDS SerialGate

MC_NsRegions == {<<2, 4>>, <<6, 7>>}
MC_Byte == 0..1
MC_Xor  == [p \in MC_Byte \X MC_Byte |-> (p[1] + p[2]) % 2]
MC_Key  == [i \in 0..1 |-> 1 - i]
MC_Memory0 == {[a \in 0..7 |-> IF a \in ones THEN 1 ELSE 0] : ones \in {{3}, {1, 2, 4, 7}}}

(* Every pair of buffers, of every length up to one past the limit. *)
MC_Request == (1..7) \X (1..7) \X (0..4)
=============================================================================
