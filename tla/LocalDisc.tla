------------------------------ MODULE LocalDisc ------------------------------
(***************************************************************************)
(* orterforth on a modern platform: main of src/main.c, where the disc     *)
(* controller of Persci is in the process and rf_serial_put and            *)
(* rf_serial_get of src/system.c call it directly.  Forth installs itself  *)
(* from a disc that is a constant array, which is then ejected for the     *)
(* files of the command line.                                              *)
(***************************************************************************)
EXTENDS DiscDriver

CONSTANTS
  NDrive, NSector, BufSize, MaxFrame, Data, ACK, ENQ, CommandError, ReadyError,
  HardDiskError, Zero, NoByte, NoDisc, NoFile, HostFile, StaticImage, Heap, Fault,
  Args,        \* how many files the command line may name: 0, 1 or 2
  Nothing      \* the byte 0xFF: (uint8_t) -1

VARIABLES
  state, buf, idx, target, disc, file, ejected, status, suspect,  \* see Persci
  stage,     \* how far main is
  args,      \* argc - 1
  outOfStep, \* history: a character was put where none is taken, or got where
             \* none is given
  stored     \* history: the write that was asked for has been made

Ctl == INSTANCE Persci

Place == [drive : 0 .. NDrive - 1, sector : 0 .. NSector - 1]

ASSUME SizesAssumption ==
  /\ NDrive \in Nat \ {0} /\ NSector \in Nat \ {0} /\ SectorLen \in Nat \ {0}
  /\ BufSize = SectorLen + 3

ASSUME BytesAssumption ==
  /\ EOT \notin Ctl!Command \cup Ctl!Message \cup {SOH, ACK, NAK, ENQ}
  /\ SOH # NAK /\ {ACK, ENQ} \cap {SOH, NAK} = {}
  /\ NoDisc \notin Ctl!Image /\ NoFile \notin Ctl!File
  /\ HostFile \subseteq Ctl!File /\ StaticImage \subseteq Ctl!Image /\ Heap \subseteq Ctl!Byte

\* main takes no more than two files.
ASSUME ArgsAssumption == Args \subseteq {0, 1, 2}

\* R/W knows the first two drives, and a block is a sector.
ASSUME HostAssumption ==
  HostPlace \subseteq Place /\ HostBlock \subseteq [1 .. SectorLen -> Ctl!Byte]

ctl == <<state, buf, idx, target, disc, file, ejected, status, suspect>>
vars == <<ctl, hvars, stage, args, outOfStep, stored>>

Init ==
  /\ Ctl!Init /\ HostInit
  /\ stage = "start"
  /\ args \in Args
  /\ outOfStep = FALSE
  /\ stored = FALSE

-----------------------------------------------------------------------------
(* main                                                                    *)

InsertInst ==
  /\ stage = "start"
  /\ \E m \in StaticImage : Ctl!InsertBytes(0, m)
  /\ stage' = "rf_inst"

\* rf_inst has returned.
EjectInst ==
  /\ stage = "rf_inst" /\ hpc = "idle"
  /\ Ctl!Eject(0)
  /\ stage' = IF args = 0 THEN "cold" ELSE "DR0"

\* main returns 1 when a file cannot be inserted.
InsertFile(d) ==
  /\ stage = (IF d = 0 THEN "DR0" ELSE "DR1")
  /\ \/ /\ \E f \in HostFile : Ctl!Insert(d, f)
        /\ stage' = IF args = d + 1 THEN "cold" ELSE "DR1"
     \/ /\ Ctl!InsertFails(d)
        /\ stage' = "returned"

Main ==
  /\ InsertInst \/ EjectInst \/ InsertFile(0) \/ InsertFile(1)
  /\ UNCHANGED <<hvars, args, outOfStep, stored>>

-----------------------------------------------------------------------------
(* Forth.  What rf_inst loads from drive 0 reads it and writes nothing: it *)
(* saves no installation on a platform that keeps the controller in the    *)
(* process.                                                                *)

\* An installation that saves itself.
AskAtOnce ==
  /\ HostAsk
  /\ stage \in {"cold", "rf_inst"}
  /\ stored' = FALSE
  /\ UNCHANGED <<ctl, stage, args, outOfStep>>

Ask ==
  /\ HostAsk
  /\ \/ stage = "cold"
     \/ stage = "rf_inst" /\ req'.op = "I" /\ req'.place.drive = 0
  /\ stored' = FALSE
  /\ UNCHANGED <<ctl, stage, args, outOfStep>>

\* rf_serial_put: what rf_persci_putc returns is ignored.
Send ==
  /\ HostSent
  /\ IF Ctl!Accepting
       THEN /\ Ctl!Putc(NextChar)
            /\ stored' = (stored \/ state' = "WRITTEN")
            /\ UNCHANGED outOfStep
       ELSE /\ outOfStep' = TRUE
            /\ UNCHANGED <<ctl, stored>>
  /\ UNCHANGED <<stage, args>>

\* rf_serial_get never waits: with nothing to give it gives a 0xFF.
Receive ==
  /\ IF Ctl!Responding
       THEN Ctl!Getc /\ HostReceived(Ctl!GetChar) /\ UNCHANGED outOfStep
       ELSE /\ HostReceived(Nothing)
            /\ outOfStep' = TRUE
            /\ UNCHANGED ctl
  /\ UNCHANGED <<stage, args, stored>>

Next == Main \/ Ask \/ Send \/ Receive

\* One thread: R/W runs until it returns.
Fairness == WF_vars(Send) /\ WF_vars(Receive)

Spec == Init /\ [][Next]_vars /\ Fairness

-----------------------------------------------------------------------------
(* Properties.                                                             *)

\* Neither rf_serial_put nor rf_serial_get can report a failure, so Forth and
\* the controller must never disagree on whose turn it is, after an error as
\* after an answer; and the controller is idle whenever main changes the discs.
InStep ==
  /\ ~outOfStep
  /\ hpc = "idle" => Ctl!BetweenTransfers

\* The constant array of the installation disc is never written, and nothing
\* else makes the process exit or its behaviour undefined.
KeepsRunning == Ctl!KeepsRunning

\* What R/W of Forth returns is what the discs hold, as in DiscServer: with no
\* line between the two sides, and with a disc taken out on the way.
StoredAt(p) ==
  IF disc[p.drive] = NoDisc THEN <<>>
  ELSE Ctl!SectorOf(disc[p.drive], p.sector)

Device ==
  INSTANCE BlockDevice WITH
    Block <- HostBlock,
    Faulty <- (Fault # {}),
    store <- [p \in Place |-> StoredAt(p)],
    phase <- Phase(stored),
    request <- req,
    answer <- Answer

ImplementsDevice == Device!Spec

\* R/W returns or quits: the loops of ?DISC that wait for an EOT, which never
\* block and never give up, find one.
RequestAnswered == hpc # "idle" ~> hpc = "idle"

=============================================================================
