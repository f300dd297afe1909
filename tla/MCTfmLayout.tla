---------------------------- MODULE MCTfmLayout -----------------------------
(* The RP2350 with 2 MB of flash and the shipped sizes, and around them     *)
(* sizes that the checks must refuse: partitions and storage areas that are *)
(* not whole sectors, storage of one or three, an odd number of sectors for *)
(* the counters, three images, and layouts one granule too long.            *)
EXTENDS TfmLayout, MCTargetMap

Sector == 4 * KB
MC_Shipped ==
    [bl2 |-> TRUE, images |-> 1, secondary |-> FALSE, loadNs |-> TRUE,
     s |-> 384 * KB, ns |-> 384 * KB, header |-> KB, trailer |-> KB,
     ps |-> 2 * Sector, its |-> 2 * Sector, nv |-> 2 * Sector, bundle |-> 10 * KB + 1]

MC_Images     == 1..3
MC_Partitions ==
    {<<384 * KB, 384 * KB>>, <<512 * KB, 256 * KB>>, <<256 * KB, 512 * KB>>,
     <<384 * KB, 96 * Sector + 1>>, <<480 * KB, 480 * KB>>, <<484 * KB, 480 * KB>>}
MC_Frames     == {<<0, 0>>, <<KB, KB>>, <<KB, 2 * KB>>}
MC_Storages   ==
    {<<2 * Sector, 2 * Sector, 2 * Sector>>, <<4 * Sector, 2 * Sector, 2 * Sector>>,
     <<2 * Sector, 4 * Sector, 4 * Sector>>, <<3 * Sector, 2 * Sector, 2 * Sector>>,
     <<2 * Sector, Sector, 2 * Sector>>, <<2 * Sector, 2 * Sector, 3 * Sector>>,
     <<2 * Sector + 1, 2 * Sector, 2 * Sector>>}
MC_Bundles    == {0, Sector, Sector + 1, 10 * KB + 1}

(* The map of the other instances is that of the shipped build. *)
ASSUME MapIsShipped ==
    /\ NS_PARTITION(Shipped) = Area(MC_NS, MC_NS_LIM + 1 - MC_NS)
    /\ S_CODE(Shipped).off <= MC_VENEER /\ MC_VENEER_LIM < End(S_CODE(Shipped))
=============================================================================
