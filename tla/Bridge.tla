-------------------------------- MODULE Bridge --------------------------------
(***************************************************************************)
(* The bridges of orter between a terminal and a serial port, a TCP        *)
(* connection or a pseudoteletype: a Session whose loop relays characters  *)
(* in both directions.  The serial bridge (process of src/orter/serial.c)  *)
(* has two pipes each way, and between them it translates, delays, stops   *)
(* upon XOFF and looks for an ACK; the others have one pipe each way.      *)
(*                                                                         *)
(* in and in2 go from the terminal to the port, out and out2 back.  For    *)
(* the other bridges in and out are the two pipes and the second ones stay *)
(* empty.  The loop of a disc server is in DiscServer and DiscMux; here it *)
(* ends with its input.                                                    *)
(***************************************************************************)
EXTENDS Pipes, Session

CONSTANTS
  Option,    \* the options of orter serial: sets of "ixon", "ack", "delay",
             \* "wait" and "onlcrx"
  Typed,     \* the characters that may be typed
  Sent,      \* the characters that the port may send
  LF, CR, XON, XOFF, ACK,
  MaxChars,  \* a bound: how many characters come from both sides
  StdoutWhole  \* whether the terminal takes all it is given at once

ASSUME CharAssumption == Typed \cup Sent \cup {CR} \subseteq Char

VARIABLES
  opts,      \* the options given
  in, in2, out, out2,
  stdinOpen, \* in.in # -1
  stop,      \* XOFF has come
  eof,       \* "no", or once the EOF timer runs "waiting" and then "over"
  turn,      \* "move" or "process"
  stdin, stdinEnds,  \* what was typed and is not read; whether it ends there
  port,      \* what the port has sent and is not read
  cts,       \* whether the port takes characters
  nchars,    \* how many characters have come
  up, down,  \* history: what must still come out on each side
  stopped,   \* history: an XOFF was read from the port, and no XON since
  late       \* history: how many characters were written to the port since

pipes == <<in, in2, out, out2>>
relay == <<opts, pipes, stdinOpen, stop, eof, turn>>
sides == <<stdin, stdinEnds, port, cts, nchars>>
history == <<up, down, stopped, late>>
vars == <<session, relay, sides, history>>

Relays == mode \in {"serial", "tcp client", "tcp server", "pty"}
Serial == mode = "serial"

Init ==
  /\ SessionInit
  /\ opts \in Option /\ (~Serial => opts = {})
  /\ in = EmptyPipe /\ in2 = EmptyPipe /\ out = EmptyPipe /\ out2 = EmptyPipe
  /\ stdinOpen = TRUE /\ stop = FALSE /\ eof = "no" /\ turn = "move"
  /\ stdin = <<>> /\ stdinEnds = FALSE
  /\ port = <<>> /\ cts \in BOOLEAN
  /\ nchars = 0
  /\ up = <<>> /\ down = <<>>
  /\ stopped = FALSE /\ late = 0

-----------------------------------------------------------------------------
(* The loop.                                                               *)

LeastOf(m, n) == IF m < n THEN m ELSE n

Marks(chars) == SelectSeq(chars, LAMBDA c : c \in {XON, XOFF})

\* Whether the last XON or XOFF among some characters stops the output.
StopAfter(chars, before) ==
  IF Marks(chars) = <<>> \/ "ixon" \notin opts THEN before
  ELSE Marks(chars)[Len(Marks(chars))] = XOFF

\* How many characters bufread may take from a source.
Taken(source) == 1 .. LeastOf(Len(source), PipeSize)
ReadFrom(source, n) == <<PipeRead(SubSeq(source, 1, n)), SubSeq(source, n + 1, Len(source))>>

\* A bufread that does not look whether the pipe is empty.
BufReadOver(pipe, source) ==
  IF source = <<>> THEN {<<pipe, source>>} ELSE {ReadFrom(source, n) : n \in Taken(source)}

\* bufread: what may be left in a pipe and its source, without the end of file.
BufRead(pipe, source) ==
  IF pipe.q # <<>> THEN {<<pipe, source>>}
  ELSE IF source = <<>> THEN {<<pipe, source>>} ELSE {ReadFrom(source, n) : n \in Taken(source)}

\* bufwrite: how many characters may leave a pipe.
BufWritten(pipe, ready, whole) ==
  IF pipe.q = <<>> \/ ~ready THEN {0}
  ELSE {n \in 1 .. Len(pipe.q) : whole => n = Len(pipe.q)}

Write(pipe, n) == IF n = 0 THEN pipe ELSE PipeWrite(pipe, n)

\* orter_io_pipe_move of every pipe, in order.  n characters go to the port and
\* m to the terminal, from the pipe that is written to it.
Move ==
  /\ phase = "loop" /\ Relays /\ turn = "move" /\ ~finished
  /\ \E r \in BufRead(in, stdin), s \in BufRead(out, port) :
     \E n \in BufWritten(IF Serial THEN in2 ELSE r[1], cts, FALSE),
        m \in BufWritten(IF Serial THEN out2 ELSE s[1], TRUE, StdoutWhole) :
       /\ in' = IF Serial THEN r[1] ELSE Write(r[1], n)
       /\ in2' = IF Serial THEN Write(in2, n) ELSE in2
       /\ out' = IF Serial THEN s[1] ELSE Write(s[1], m)
       /\ out2' = IF Serial THEN Write(out2, m) ELSE out2
       /\ stdin' = r[2] /\ port' = s[2]
       /\ stdinOpen' = (stdinOpen /\ ~(in.q = <<>> /\ stdin = <<>> /\ stdinEnds))
       /\ up' = SubSeq(up, n + 1, Len(up))
       /\ down' = SubSeq(down, m + 1, Len(down))
       /\ stopped' = StopAfter(SubSeq(port, 1, Len(port) - Len(s[2])), stopped)
       /\ late' = IF stopped THEN late + n ELSE 0
  /\ turn' = "process"
  /\ UNCHANGED <<session, opts, stop, eof, stdinEnds, cts, nchars>>

\* -o onlcrx
Translated(c) == IF c = LF /\ "onlcrx" \in opts THEN CR ELSE c
TranslatedAll(q) == [i \in 1 .. Len(q) |-> Translated(q[i])]

PutAll(pipe, chars) == [pipe EXCEPT !.q = @ \o chars]

\* A loop to the port that goes on while stopped.
CountUpAlways ==
  LET n == LeastOf(Len(in.q), PipeLeft(in2))
  IN  IF "delay" \in opts THEN LeastOf(n, 1) ELSE n

\* How many characters go to the port's pipe: one at a time with a delay.
CountUp ==
  LET n == LeastOf(Len(in.q), PipeLeft(in2))
  IN  IF stop THEN 0 ELSE IF "delay" \in opts THEN LeastOf(n, 1) ELSE n

CountDown == LeastOf(Len(out.q), PipeLeft(out2))

\* An EOF timer that is set anew as long as the input is at its end.
EofAgain(ended) == IF ended THEN "waiting" ELSE eof

\* The EOF timer is set once.
EofNext(ended) == IF ended /\ eof = "no" THEN "waiting" ELSE eof

\* process of serial.c: both directions, and then the end of file unless the
\* bridge waits for an ACK.
ProcessSerial ==
  /\ phase = "loop" /\ Serial /\ turn = "process"
  /\ in' = Write(in, CountUp)
  /\ in2' = PutAll(in2, TranslatedAll(SubSeq(in.q, 1, CountUp)))
  /\ out' = Write(out, CountDown)
  /\ out2' = PutAll(out2, SubSeq(out.q, 1, CountDown))
  /\ stop' = StopAfter(SubSeq(out.q, 1, CountDown), stop)
  /\ LET acked == "ack" \in opts /\ \E i \in 1 .. CountDown : out.q[i] = ACK
         ended == "ack" \notin opts /\ ~stdinOpen /\ in'.q = <<>>
     IN  /\ eof' = EofNext(ended)
         /\ finished' = (finished \/ acked
                          \/ (ended /\ ("wait" \notin opts \/ eof' = "over")))
  /\ turn' = "move"
  /\ UNCHANGED <<mode, todo, held, phase, failed, opts, stdinOpen, sides, history>>

\* process of tcp.c ends when the input has ended and gone; pty.c has none.
ProcessOther ==
  /\ phase = "loop" /\ Relays /\ ~Serial /\ turn = "process"
  /\ finished' = (finished \/ (mode # "pty" /\ ~stdinOpen /\ in.q = <<>>))
  /\ turn' = "move"
  /\ UNCHANGED <<mode, todo, held, phase, failed, opts, pipes, stdinOpen, stop, eof,
                 sides, history>>

\* The loop of a disc server ends with its input.
DiscLoop ==
  /\ phase = "loop" /\ ~Relays
  /\ finished' = TRUE
  /\ UNCHANGED <<mode, todo, held, phase, failed, relay, sides, history>>

LoopStep == Move \/ ProcessSerial \/ ProcessOther

-----------------------------------------------------------------------------
(* Both sides, and time.                                                   *)

InLoop == phase = "loop" /\ Relays

Type ==
  /\ InLoop /\ ~stdinEnds /\ nchars < MaxChars
  /\ \E c \in Typed :
       stdin' = Append(stdin, c) /\ up' = Append(up, Translated(c))
  /\ nchars' = nchars + 1
  /\ UNCHANGED <<session, relay, stdinEnds, port, cts, down, stopped, late>>

StdinEof ==
  /\ InLoop /\ ~stdinEnds
  /\ stdinEnds' = TRUE
  /\ UNCHANGED <<session, relay, stdin, port, cts, nchars, history>>

PortSends ==
  /\ InLoop /\ nchars < MaxChars
  /\ \E c \in Sent : port' = Append(port, c) /\ down' = Append(down, c)
  /\ nchars' = nchars + 1
  /\ UNCHANGED <<session, relay, stdin, stdinEnds, cts, up, stopped, late>>

ClearToSend ==
  /\ InLoop /\ ~cts
  /\ cts' = TRUE
  /\ UNCHANGED <<session, relay, stdin, stdinEnds, port, nchars, history>>

EofTimer ==
  /\ InLoop /\ eof = "waiting"
  /\ eof' = "over"
  /\ UNCHANGED <<session, opts, pipes, stdinOpen, stop, turn, sides, history>>

Next ==
  \/ SessionStep /\ UNCHANGED <<relay, sides, history>>
  \/ LoopStep \/ DiscLoop
  \/ Type \/ StdinEof \/ PortSends \/ ClearToSend \/ EofTimer

\* pselect waits for a second at most, the port is ready some time, and time
\* passes.  Nothing makes a step before the loop return.
Fairness ==
  /\ WF_vars(LoopStep) /\ WF_vars(ClearToSend) /\ WF_vars(EofTimer)
  /\ WF_vars((EndLoop \/ Close) /\ UNCHANGED <<relay, sides, history>>)

Spec == Init /\ [][Next]_vars /\ Fairness

-----------------------------------------------------------------------------
(* Properties.                                                             *)

\* Each direction is a queue: across two pipes, the translation of some of the
\* characters, partial reads and writes, and loops that stop for want of room.
RelaysInOrder ==
  Relays => /\ up = in2.q \o TranslatedAll(in.q \o stdin)
            /\ down = out2.q \o out.q \o port

\* After an XOFF was read no more than a pipe of characters still goes to the
\* port: those that are in the second pipe, with those that process moves there
\* before it looks at what the port sent.
XoffHolds == late <= PipeSize

\* The bridge ends after a signal or an ACK that it waits for, and after the end
\* of its input, however little room there is in the pipes and with a pause after
\* every character, unless the port stops it.
EndsByInput == stdinEnds /\ mode # "pty" /\ "ack" \notin opts

BridgeEnds ==
  /\ phase = "loop" /\ finished ~> phase = "ended"
  /\ phase = "loop" /\ Relays /\ EndsByInput ~> phase = "ended" \/ stop

=============================================================================
