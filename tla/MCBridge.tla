------------------------------ MODULE MCBridge ------------------------------
(***************************************************************************)
(* An instance of Bridge for TLC.                                          *)
(***************************************************************************)
EXTENDS Bridge

CONSTANT t

AllModes == {"serial", "tcp client", "tcp server", "pty", "disc standard", "disc mux",
             "disc serial", "disc pty", "disc tcp client", "disc tcp server"}
MCOption == {{}, {"ixon"}, {"ack"}, {"delay", "onlcrx", "wait"}}
MCTyped == {t, LF}
MCSent == {XON, XOFF, ACK}
MCChar == MCTyped \cup MCSent \cup {CR}

=============================================================================
