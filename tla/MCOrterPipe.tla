----------------------------- MODULE MCOrterPipe -----------------------------
(***************************************************************************)
(* An instance of OrterPipe for TLC.                                       *)
(***************************************************************************)
EXTENDS OrterPipe

CONSTANTS x, y

MCChar == {x, y}

=============================================================================
