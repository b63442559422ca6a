---------------------------- MODULE MCDiscServer ----------------------------
(***************************************************************************)
(* Instances of DiscServer for TLC.  x stands for the byte 0xFF.           *)
(***************************************************************************)
EXTENDS DiscServer

CONSTANTS a, x

MCData == {a, x}
MCHeap == {a}
MCFault == {"fwrite"}
MCEnding == {"no disc", "hangup", "signal"}
MCHostFile == {[o \in 0 .. NSector * SectorLen - 1 |-> a]}
MCPlace == [drive : 0 .. NDrive - 1, sector : 0 .. NSector - 1]
MCBlock == {<<a, x>>}
MCChar == Ctl!Byte

=============================================================================
