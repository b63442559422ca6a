------------------------------- MODULE DiscMux -------------------------------
(***************************************************************************)
(* A machine whose one serial line carries both its console and its disc:  *)
(* src/mux.c on the machine, and the mux server of src/disc.c, which is    *)
(* its terminal as well, at the other end.  Bit 7 says which of the two a  *)
(* character is for.  The line is a sequence each way, the server has four *)
(* pipes, and the driver and the controller are those of DiscServer.       *)
(*                                                                         *)
(* The characters of the console and of the disc have 7 bits: an eighth is *)
(* cut off on every path.  A write or a read of the line that finds it     *)
(* disconnected is repeated by mux.c until it is not, so the line is       *)
(* always there.                                                           *)
(***************************************************************************)
EXTENDS Pipes, DiscDriver

CONSTANTS
  NDrive, NSector, BufSize, MaxFrame, Data, ACK, ENQ, CommandError, ReadyError,
  HardDiskError, Zero, NoByte, NoDisc, NoFile, HostFile, StaticImage, Heap, Fault,
  Discs,      \* how many discs the command line names, 1 or 2 in the code
  WireSize,   \* characters the line holds in one direction
  Key,        \* the characters that may be typed
  Printed,    \* the characters the machine may print
  BS, Blank,  \* the characters that erase one
  MaxKeys,    \* bound: how many keys are on their way at a time
  MaxPrints   \* bound: how many characters are on their way to the terminal when
              \* the machine prints another

VARIABLES
  state, buf, idx, target, disc, file, ejected, status, suspect,  \* see Persci
  pc,         \* "insert", "move", "serial", "stdin", "disc" or "done"
  in, out, muxIn, muxOut,  \* the pipes of disc.c
  stdinOpen,  \* mux_in.in # -1
  stdin,      \* what has been typed and not read
  toServer, toHost,  \* the line
  toPrint,    \* what rf_console_put has still to write
  reading,    \* rf_console_get is waiting
  printing,   \* history: what was printed and is not yet on the terminal
  typing,     \* history: what was typed and the machine has not taken
  stored,     \* history: the write the host asked for has been made
  dropped     \* history: a character was lost between line and controller, or
              \* of the disc's at the machine

Ctl == INSTANCE Persci

Place == [drive : 0 .. NDrive - 1, sector : 0 .. NSector - 1]

ASSUME SizesAssumption ==
  /\ NDrive \in Nat \ {0} /\ NSector \in Nat \ {0} /\ SectorLen \in Nat \ {0}
  /\ BufSize = SectorLen + 3
  /\ Discs \in 1 .. 2 /\ Discs <= NDrive
  /\ WireSize \in Nat \ {0}

ASSUME BytesAssumption ==
  /\ EOT \notin Ctl!Command \cup Ctl!Message \cup {SOH, ACK, NAK, ENQ}
  /\ SOH # NAK /\ {ACK, ENQ} \cap {SOH, NAK} = {}
  /\ NoDisc \notin Ctl!Image /\ NoFile \notin Ctl!File
  /\ HostFile \subseteq Ctl!File /\ Heap \subseteq Ctl!Byte

\* R/W knows the first two drives, and a block is a sector.
ASSUME HostAssumption ==
  HostPlace \subseteq Place /\ HostBlock \subseteq [1 .. SectorLen -> Ctl!Byte]

ctl == <<state, buf, idx, target, disc, file, ejected, status, suspect>>
pipes == <<in, out, muxIn, muxOut>>
line == <<toServer, toHost>>
console == <<toPrint, reading>>
history == <<printing, typing, stored, dropped>>
vars == <<ctl, pc, pipes, stdinOpen, stdin, line, hvars, console, history>>

\* A character on the line, with its bit 7.
ForDisc(c)    == [disc |-> TRUE, c |-> c]
ForConsole(c) == [disc |-> FALSE, c |-> c]

Init ==
  /\ Ctl!Init /\ HostInit
  /\ pc = "insert"
  /\ in = EmptyPipe /\ out = EmptyPipe /\ muxIn = EmptyPipe /\ muxOut = EmptyPipe
  /\ stdinOpen = TRUE /\ stdin = <<>>
  /\ toServer = <<>> /\ toHost = <<>>
  /\ toPrint = <<>> /\ reading = FALSE
  /\ printing = <<>> /\ typing = <<>>
  /\ stored = FALSE /\ dropped = FALSE

-----------------------------------------------------------------------------
(* The server: serve, then orter_io_pipe_loop with process_mux.            *)

Inserted(d) == file[d] # NoFile

\* A disc that cannot be opened ends the server before its loop.
Serve ==
  /\ pc = "insert"
  /\ \E d \in 0 .. Discs - 1 :
       /\ ~Inserted(d) /\ \A e \in 0 .. d - 1 : Inserted(e)
       /\ \/ /\ \E f \in HostFile : Ctl!Insert(d, f)
             /\ pc' = IF d = Discs - 1 THEN "move" ELSE "insert"
          \/ /\ Ctl!InsertFails(d)
             /\ pc' = "done"
  /\ UNCHANGED <<pipes, stdinOpen, stdin, line, hvars, console, history>>

\* What a bufread may leave in the pipe and in what it reads from: some of the
\* characters move.
SomeRead(source) ==
  {<<PipeRead(SubSeq(source, 1, n)), SubSeq(source, n + 1, Len(source))>> :
     n \in {k \in 1 .. Len(source) : k <= PipeSize}}

\* A bufread that reads over what is in the pipe.
FilledAnyTime(pipe, source) ==
  IF source = <<>> THEN {<<pipe, source>>} ELSE SomeRead(source)

Filled(pipe, source) ==
  IF pipe.q # <<>> \/ source = <<>> THEN {<<pipe, source>>} ELSE SomeRead(source)

\* Each pipe whose descriptor is ready moves something; the terminal always takes
\* some of what it is given, the line what it has room for.
Move ==
  /\ pc = "move" /\ stdinOpen
  /\ \E r \in Filled(in, toServer) : in' = r[1] /\ toServer' = r[2]
  /\ \E r \in Filled(muxIn, stdin) : muxIn' = r[1] /\ stdin' = r[2]
  /\ \E n \in 0 .. Len(out.q) :
       /\ Len(toHost) + n <= WireSize
       /\ n = 0 => out.q = <<>> \/ Len(toHost) = WireSize
       /\ out' = IF n = 0 THEN out ELSE PipeWrite(out, n)
       /\ toHost' = toHost \o SubSeq(out.q, 1, n)
  /\ \E n \in 0 .. Len(muxOut.q) :
       /\ n = 0 => muxOut.q = <<>>
       /\ muxOut' = IF n = 0 THEN muxOut ELSE PipeWrite(muxOut, n)
       /\ printing' = SubSeq(printing, n + 1, Len(printing))
  /\ pc' = "serial"
  /\ UNCHANGED <<ctl, stdinOpen, hvars, console, typing, stored, dropped>>

\* The end of file of the keyboard ends the server.
StdinEnds ==
  /\ pc = "move" /\ stdinOpen
  /\ stdin = <<>> /\ muxIn.q = <<>>
  /\ stdinOpen' = FALSE
  /\ pc' = "done"
  /\ UNCHANGED <<ctl, pipes, stdin, line, hvars, console, history>>

\* A loop that takes a character before it asks for room on the terminal.
SerialLeftAnyTime == in.q # <<>>

\* Read from serial, while the terminal's pipe has room.
SerialLeft == in.q # <<>> /\ PipeLeft(muxOut) > 0

FromSerial ==
  /\ pc = "serial" /\ SerialLeft
  /\ in' = PipeGet(in)
  /\ LET char == Head(in.q)
         room == PipeLeft(muxOut) > 0
     IN  IF char.disc
           THEN /\ IF Ctl!Accepting
                     THEN /\ Ctl!Putc(char.c)
                          /\ stored' = (stored \/ state' = "WRITTEN")
                          /\ UNCHANGED <<dropped, pc>>
                     ELSE dropped' = TRUE /\ pc' = "stdin" /\ UNCHANGED <<ctl, stored>>
                /\ UNCHANGED muxOut
           ELSE /\ muxOut' = IF room THEN PipePut(muxOut, char.c) ELSE muxOut
                /\ pc' = IF room THEN "serial" ELSE "stdin"
                /\ UNCHANGED <<ctl, stored, dropped>>
  /\ UNCHANGED <<out, muxIn, stdinOpen, stdin, line, hvars, console, printing, typing>>

SerialEnds ==
  /\ pc = "serial" /\ ~SerialLeft
  /\ pc' = "stdin"
  /\ UNCHANGED <<ctl, pipes, stdinOpen, stdin, line, hvars, console, history>>

\* Read from stdin, while the line's pipe has room, and clear bit 7.
FromStdin ==
  /\ pc = "stdin" /\ muxIn.q # <<>> /\ PipeLeft(out) > 0
  /\ muxIn' = PipeGet(muxIn)
  /\ out' = PipePut(out, ForConsole(Head(muxIn.q)))
  /\ UNCHANGED <<ctl, pc, in, muxOut, stdinOpen, stdin, line, hvars, console, history>>

FromStdinEnds ==
  /\ pc = "stdin" /\ (muxIn.q = <<>> \/ PipeLeft(out) = 0)
  /\ pc' = "disc"
  /\ UNCHANGED <<ctl, pipes, stdinOpen, stdin, line, hvars, console, history>>

\* Read from disc, while the line's pipe has room, and set bit 7; the loop
\* ends after an EOT.
FromDisc ==
  /\ pc = "disc" /\ PipeLeft(out) > 0
  /\ Ctl!Getc
  /\ out' = PipePut(out, ForDisc(Ctl!GetChar))
  /\ pc' = IF Ctl!GetChar = EOT THEN "move" ELSE "disc"
  /\ UNCHANGED <<in, muxIn, muxOut, stdinOpen, stdin, line, hvars, console, history>>

FromDiscEnds ==
  /\ pc = "disc" /\ (PipeLeft(out) = 0 \/ ~Ctl!Responding)
  /\ pc' = "move"
  /\ UNCHANGED <<ctl, pipes, stdinOpen, stdin, line, hvars, console, history>>

ServerStep ==
  \/ Serve \/ Move
  \/ FromSerial \/ SerialEnds \/ FromStdin \/ FromStdinEnds \/ FromDisc \/ FromDiscEnds

\* The keyboard.
Type ==
  /\ Len(typing) < MaxKeys /\ stdinOpen
  /\ \E k \in Key :
       /\ typing' = Append(typing, k)
       /\ stdin' = Append(stdin, k)
  /\ UNCHANGED <<ctl, pc, pipes, stdinOpen, line, hvars, console, printing, stored, dropped>>

-----------------------------------------------------------------------------
(* The machine: one thread, that prints, reads a key or is in R/W.         *)

Free == toPrint = <<>> /\ ~reading

server == <<ctl, pc, pipes, stdinOpen, stdin>>

\* rf_mux_serial_put
Send ==
  /\ Free /\ Len(toServer) < WireSize
  /\ HostSent
  /\ toServer' = Append(toServer, ForDisc(NextChar))
  /\ UNCHANGED <<server, toHost, console, history>>

Ask ==
  /\ Free
  /\ HostAsk
  /\ stored' = FALSE
  /\ UNCHANGED <<server, line, console, printing, typing, dropped>>

\* rf_mux_serial_get: takes a character of the disc.  ?DISC prints those of a
\* message, its EOT too.
Receive ==
  /\ Free /\ toHost # <<>> /\ Head(toHost).disc
  /\ HostReceived(Head(toHost).c)
  /\ toHost' = Tail(toHost)
  /\ toPrint' = IF hpc = "message" THEN <<Head(toHost).c>> ELSE <<>>
  /\ UNCHANGED <<server, toServer, reading, history>>

\* rf_mux_serial_get: skips keyboard input.
SkipKey ==
  /\ Free /\ Receiving
  /\ toHost # <<>> /\ ~Head(toHost).disc
  /\ typing' = Tail(typing)
  /\ toHost' = Tail(toHost)
  /\ UNCHANGED <<server, toServer, hvars, console, printing, stored, dropped>>

\* What rf_console_put writes for a character.
Erased(c) == IF c = BS THEN <<BS, Blank, BS>> ELSE <<c>>

\* rf_console_put is called.
ConsolePut ==
  /\ Free /\ hpc = "idle"
  /\ Len(printing) < MaxPrints
  /\ \E c \in Printed : toPrint' = Erased(c)
  /\ UNCHANGED <<server, line, hvars, reading, history>>

\* putchar, with bit 7 clear.
PrintChar ==
  /\ toPrint # <<>> /\ Len(toServer) < WireSize
  /\ toServer' = Append(toServer, ForConsole(Head(toPrint)))
  /\ printing' = Append(printing, Head(toPrint))
  /\ toPrint' = Tail(toPrint)
  /\ UNCHANGED <<server, toHost, hvars, reading, typing, stored, dropped>>

\* rf_console_get is called.
ReadKey ==
  /\ Free /\ hpc = "idle"
  /\ reading' = TRUE
  /\ UNCHANGED <<server, line, hvars, toPrint, history>>

\* It takes a key, or skips a character of the disc.
TakeKey ==
  /\ reading /\ toHost # <<>>
  /\ LET char == Head(toHost)
     IN  /\ reading' = char.disc
         /\ typing' = IF char.disc THEN typing ELSE Tail(typing)
         /\ dropped' = (dropped \/ char.disc)
  /\ toHost' = Tail(toHost)
  /\ UNCHANGED <<server, toServer, hvars, toPrint, printing, stored>>

\* What the machine does once it has begun.
HostStep == Send \/ Receive \/ SkipKey \/ PrintChar \/ TakeKey

Next == ServerStep \/ StdinEnds \/ Type \/ Ask \/ ConsolePut \/ ReadKey \/ HostStep

Fairness == WF_vars(ServerStep) /\ WF_vars(HostStep)

Spec == Init /\ [][Next]_vars /\ Fairness

-----------------------------------------------------------------------------
(* Properties.                                                             *)

\* The characters of a part of the line that are the disc's, or those that are not.
Those(q, discs) ==
  LET those[n \in 0 .. Len(q)] ==
        IF n = 0 THEN <<>>
        ELSE IF q[n].disc = discs THEN Append(those[n - 1], q[n].c)
        ELSE those[n - 1]
  IN  those[Len(q)]

OfConsole(q) == Those(q, FALSE)

\* What the machine printed is on the terminal or on its way there, complete
\* and in order, whatever of the disc's goes between: process_mux leaves its
\* loop over the line with a character in hand if there is no room for it.
ConsoleFifo ==
  printing = muxOut.q \o OfConsole(in.q) \o OfConsole(toServer)

\* What was typed was read by the machine, or skipped by it, or is on its way,
\* in order.
KeysInOrder ==
  typing = OfConsole(toHost) \o OfConsole(out.q) \o muxIn.q \o stdin

\* The reader of the console skips characters of the disc and the controller
\* refuses characters out of turn, both in silence; neither ever happens, as
\* every answer has been taken whole when R/W is left, by QUIT as well.
DiscUndisturbed == ~dropped

\* R/W over the shared line is the block device that it is over a line of its
\* own, whatever is typed and printed.
StoredAt(p) ==
  IF disc[p.drive] = NoDisc THEN <<>>
  ELSE Ctl!SectorOf(disc[p.drive], p.sector)

Device ==
  INSTANCE BlockDevice WITH
    Block <- HostBlock,
    Faulty <- (Fault # {}),
    store <- [p \in Place |-> StoredAt(p)],
    phase <- Phase(stored),
    request <- req,
    answer <- Answer

ImplementsDevice == Device!Spec

\* Once the keyboard rests, R/W returns or quits, unless the server was ended from
\* its keyboard: neither what is on the line already nor what is printed keeps a
\* command or an answer from the other side.  A keyboard that never rests can fill
\* the line's pipe before the answer gets there, each time round.
KeyboardRests == <>[][~Type]_vars

RequestAnswered ==
  KeyboardRests => (hpc # "idle" ~> (hpc = "idle" \/ pc = "done"))

=============================================================================
