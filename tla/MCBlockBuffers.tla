--------------------------- MODULE MCBlockBuffers ---------------------------
(***************************************************************************)
(* Instances of BlockBuffers for TLC.                                      *)
(***************************************************************************)
EXTENDS BlockBuffers, TLC

CONSTANTS zeros, v

MCWords == {"EMPTY-BUFFERS", "FLUSH", "COPY"}

=============================================================================
