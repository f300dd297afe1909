----------------------------- MODULE MCPmpSetup -----------------------------
(* Addresses of eight bits, the granule of the RP2350, and blocks of a      *)
(* quarter and half of it, of one, and of two.                              *)
EXTENDS PmpSetup, Bitwise

MC_Powers   == {2^k : k \in 0..8}
MC_BitOr(x, y) == x | y
MC_Sizes    == {2^k : k \in 3..6}
MC_Junk     == {0, 37, 127}
=============================================================================
