----------------------------- MODULE MCDiscMux ------------------------------
(***************************************************************************)
(* An instance of DiscMux for TLC.                                         *)
(***************************************************************************)
EXTENDS DiscMux

CONSTANTS a, b, j, k

MCData == {a, b}
MCHeap == {a}
MCHostFile == {[o \in 0 .. NSector * SectorLen - 1 |-> a]}
MCPlace == [drive : 0 .. NDrive - 1, sector : 0 .. NSector - 1]
MCBlock == {<<b>>}
MCKey == {j, k}
MCPrinted == {BS}

=============================================================================
