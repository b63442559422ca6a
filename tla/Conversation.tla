---------------------------- MODULE Conversation ----------------------------
(***************************************************************************)
(* What the systems with a line between Forth and the controller have in   *)
(* common: the driver of DiscDriver and the controller of Persci, and what *)
(* is on its way between them, two queues of characters.  Where these are  *)
(* (pipes, a line, a line shared with a console) and who moves them is the *)
(* business of DiscServer and of DiscMux, which implement it; it           *)
(* implements BlockDevice.                                                 *)
(***************************************************************************)
EXTENDS DiscDriver

CONSTANTS
  NDrive, NSector, BufSize, MaxFrame, Data, ACK, ENQ, CommandError, ReadyError,
  HardDiskError, Zero, NoByte, NoDisc, NoFile, HostFile, StaticImage, Heap, Fault

VARIABLES
  state, buf, idx, target, disc, file, ejected, status, suspect,  \* see Persci
  up,      \* what R/W has sent and the controller not taken
  down,    \* what the controller has given and R/W not taken
  stored   \* history: the write R/W asked for has been made

Ctl == INSTANCE Persci

ctl == <<state, buf, idx, target, disc, file, ejected, status, suspect>>
vars == <<ctl, up, down, stored, hvars>>

Init ==
  /\ Ctl!Init /\ HostInit
  /\ up = <<>> /\ down = <<>>
  /\ stored = FALSE

\* Discs are put in before the controller has answered anything.
Mount ==
  /\ down = <<>>
  /\ \E d \in Ctl!Drive :
       (\E f \in HostFile : Ctl!Insert(d, f)) \/ Ctl!InsertFails(d)
  /\ UNCHANGED <<up, down, stored, hvars>>

Ask ==
  /\ HostAsk
  /\ stored' = FALSE
  /\ UNCHANGED <<ctl, up, down>>

Send ==
  /\ HostSent
  /\ up' = Append(up, NextChar)
  /\ UNCHANGED <<ctl, down, stored>>

\* The controller takes a character.
Take ==
  /\ up # <<>>
  /\ Ctl!Putc(Head(up))
  /\ up' = Tail(up)
  /\ stored' = (stored \/ state' = "WRITTEN")
  /\ UNCHANGED <<down, hvars>>

\* The controller gives one.
Give ==
  /\ Ctl!Getc
  /\ down' = Append(down, Ctl!GetChar)
  /\ UNCHANGED <<up, stored, hvars>>

Receive ==
  /\ down # <<>>
  /\ HostReceived(Head(down))
  /\ down' = Tail(down)
  /\ UNCHANGED <<ctl, up, stored>>

Next == Mount \/ Ask \/ Send \/ Take \/ Give \/ Receive

Spec == Init /\ [][Next]_vars

-----------------------------------------------------------------------------
(* It is a block device.                                                   *)

Place == [drive : 0 .. NDrive - 1, sector : 0 .. NSector - 1]

StoredAt(p) ==
  IF disc[p.drive] = NoDisc THEN <<>>
  ELSE Ctl!SectorOf(disc[p.drive], p.sector)

Device ==
  INSTANCE BlockDevice WITH
    Block <- HostBlock,
    Faulty <- (Fault # {}),
    store <- [p \in Place |-> StoredAt(p)],
    phase <- Phase(stored),
    request <- req,
    answer <- Answer

ImplementsDevice == Device!Spec

=============================================================================
