------------------------------ MODULE MCPersci ------------------------------
(***************************************************************************)
(* Instances of PersciCallers for TLC.                                     *)
(***************************************************************************)
EXTENDS PersciCallers

CONSTANTS b

MCData == {b}

\* A file as long as the disc, and one that ends after the first byte.
MCWholeFile == [o \in Offset |-> Zero]
MCHostFile == {MCWholeFile, [o \in Offset |-> IF o = 0 THEN b ELSE NoByte]}

MCStaticImage == {[o \in Offset |-> b]}

=============================================================================
