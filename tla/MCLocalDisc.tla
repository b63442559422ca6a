---------------------------- MODULE MCLocalDisc -----------------------------
(***************************************************************************)
(* An instance of LocalDisc for TLC.                                       *)
(***************************************************************************)
EXTENDS LocalDisc

CONSTANTS a, b

MCData == {a, b}
MCHeap == {a}
MCFault == {"fwrite"}
MCHostFile == {[o \in 0 .. NSector * SectorLen - 1 |-> a]}
MCStaticImage == {[o \in 0 .. NSector * SectorLen - 1 |-> b]}
MCPlace == [drive : 0 .. NDrive - 1, sector : 0 .. NSector - 1]
MCBlock == [1 .. SectorLen -> {a, b}]

=============================================================================
