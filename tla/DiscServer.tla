----------------------------- MODULE DiscServer -----------------------------
(***************************************************************************)
(* A Forth system on its own machine and the disc server of src/disc.c at  *)
(* the other end of a line (serial, pty, TCP or standard input and output):*)
(* the driver of DiscDriver, the two pipes of orter_io_pipe_loop, and the  *)
(* controller of Persci, run by process_simple.                            *)
(*                                                                         *)
(* The server is one thread: an iteration of its loop moves characters     *)
(* between the line and the pipes (Move), gives the controller what came   *)
(* (Feed) and takes what it answers (Drain).  Between any two of its steps *)
(* the host may send or receive a character.                               *)
(*                                                                         *)
(* The line loses and reorders nothing (RTS/CTS or a stream socket) and    *)
(* holds at most WireSize characters each way.                             *)
(***************************************************************************)
EXTENDS Pipes, DiscDriver

CONSTANTS
  NDrive, NSector, BufSize, MaxFrame, Data, ACK, ENQ, CommandError, ReadyError,
  HardDiskError, Zero, NoByte, NoDisc, NoFile, HostFile, StaticImage, Heap, Fault,
  WireSize,    \* characters the line holds in one direction
  Discs,       \* how many discs the command line of the server names, 1 or 2
  MinusOne,    \* the byte 0xFF
  CharSigned,  \* whether char is signed where the server runs
  Ending       \* what may end the server: "no disc" to start with, a "hangup"
               \* of the line, a "signal"

VARIABLES
  state, buf, idx, target, disc, file, ejected, status, suspect,  \* see Persci
  pc,        \* "insert", "loop", "feed", "drain" or "done"
  in, out,   \* the pipes of disc.c
  inOpen,    \* in.in # -1
  finished,  \* orter_io_finished, but for what process_simple makes it
  toServer, toHost,  \* the characters on the line
  hungUp,    \* the host has closed the line
  stored,    \* history: the write the host asked for has been made
  dropped    \* history: the server has lost a character

Ctl == INSTANCE Persci

Place == [drive : 0 .. NDrive - 1, sector : 0 .. NSector - 1]

ASSUME SizesAssumption ==
  /\ NDrive \in Nat \ {0} /\ NSector \in Nat \ {0} /\ SectorLen \in Nat \ {0}
  /\ BufSize = SectorLen + 3
  /\ WireSize \in Nat \ {0}
  /\ Discs \in 1 .. 2 /\ Discs <= NDrive

\* The byte 0xFF has no part in the protocol, but for data.
ASSUME BytesAssumption ==
  /\ {EOT, MinusOne} \cap (Ctl!Command \cup Ctl!Message \cup {SOH, ACK, NAK, ENQ}) = {}
  /\ MinusOne # EOT /\ CharSigned \in BOOLEAN
  /\ SOH # NAK /\ {ACK, ENQ} \cap {SOH, NAK} = {}
  /\ NoDisc \notin Ctl!Image /\ NoFile \notin Ctl!File
  /\ HostFile \subseteq Ctl!File /\ Heap \subseteq Ctl!Byte

\* R/W knows the first two drives, and a block is a sector.
ASSUME HostAssumption ==
  HostPlace \subseteq Place /\ HostBlock \subseteq [1 .. SectorLen -> Ctl!Byte]

ctl == <<state, buf, idx, target, disc, file, ejected, status, suspect>>
line == <<toServer, toHost, hungUp>>
svars == <<pc, in, out, inOpen, finished>>
history == <<stored, dropped>>
vars == <<ctl, svars, line, hvars, history>>

Init ==
  /\ Ctl!Init /\ HostInit
  /\ pc = "insert"
  /\ in = EmptyPipe /\ out = EmptyPipe
  /\ inOpen = TRUE /\ finished = FALSE
  /\ toServer = <<>> /\ toHost = <<>> /\ hungUp = FALSE
  /\ stored = FALSE /\ dropped = FALSE

-----------------------------------------------------------------------------
(* serve: the discs of the command line are put in, in order.              *)

Inserted(d) == file[d] # NoFile

Serve ==
  /\ pc = "insert"
  /\ \E d \in 0 .. Discs - 1 :
       /\ ~Inserted(d) /\ \A e \in 0 .. d - 1 : Inserted(e)
       /\ \/ /\ \E f \in HostFile : Ctl!Insert(d, f)
             /\ pc' = IF d = Discs - 1 THEN "loop" ELSE "insert"
          \/ /\ "no disc" \in Ending
             /\ Ctl!InsertFails(d)
             /\ pc' = "done"
  /\ UNCHANGED <<in, out, inOpen, finished, line, hvars, history>>

-----------------------------------------------------------------------------
(* orter_io_pipe_loop, up to the call of process.  The wait of pselect     *)
(* ends after a second at most, so that it never keeps the loop.           *)

LeastOf(m, n) == IF m < n THEN m ELSE n

\* bufread of the input: a read of what the line holds, or the end of file.
MoveIn ==
  \/ /\ in.q # <<>> \/ (toServer = <<>> /\ ~hungUp)
     /\ UNCHANGED <<in, inOpen, toServer>>
  \/ /\ in.q = <<>> /\ toServer # <<>>
     /\ \E n \in 1 .. LeastOf(Len(toServer), PipeSize) :
          /\ in' = PipeRead(SubSeq(toServer, 1, n))
          /\ toServer' = SubSeq(toServer, n + 1, Len(toServer))
     /\ UNCHANGED inOpen
  \/ /\ in.q = <<>> /\ toServer = <<>> /\ hungUp
     /\ inOpen' = FALSE
     /\ UNCHANGED <<in, toServer>>

\* bufwrite of the output: the line takes what it has room for, or the write
\* fails since nobody is there.
MoveOut ==
  \/ /\ out.q = <<>> \/ (~hungUp /\ Len(toHost) = WireSize)
     /\ UNCHANGED <<out, toHost, finished>>
  \/ /\ out.q # <<>> /\ ~hungUp
     /\ \E n \in 1 .. LeastOf(Len(out.q), WireSize - Len(toHost)) :
          /\ toHost' = toHost \o SubSeq(out.q, 1, n)
          /\ out' = PipeWrite(out, n)
     /\ UNCHANGED finished
  \/ /\ out.q # <<>> /\ hungUp
     /\ finished' = TRUE
     /\ UNCHANGED <<out, toHost>>

\* A loop that does not end with its input.
LoopEndsBySignal == finished

\* process_simple ends with the input at its end: the loop ends as well.
LoopEnds == finished \/ ~inOpen

Move ==
  /\ pc = "loop" /\ ~LoopEnds
  /\ MoveIn /\ MoveOut
  /\ pc' = "feed"
  /\ UNCHANGED <<ctl, hungUp, hvars, history>>

Finish ==
  /\ pc = "loop" /\ LoopEnds
  /\ pc' = "done"
  /\ UNCHANGED <<ctl, in, out, inOpen, finished, line, hvars, history>>

-----------------------------------------------------------------------------
(* process_simple.                                                         *)

\* A char given as an int is -1, the sign of failure, for the byte 0xFF.
LooksLikeFailure(c) == CharSigned /\ c = MinusOne

\* The controller takes a character.  The loop leaves the rest in the pipe
\* after an EOT, and after a 0xFF that seems refused.
FeedTaken(c) ==
  /\ Ctl!Putc(c)
  /\ pc' = IF c = EOT \/ LooksLikeFailure(c) THEN "drain" ELSE "feed"
  /\ stored' = (stored \/ state' = "WRITTEN")
  /\ UNCHANGED dropped

\* The controller refuses it, and it has left the pipe.
FeedRefused ==
  /\ ~Ctl!Accepting
  /\ pc' = "drain"
  /\ dropped' = TRUE
  /\ UNCHANGED <<ctl, stored>>

Feed ==
  /\ pc = "feed" /\ in.q # <<>>
  /\ in' = PipeGet(in)
  /\ FeedTaken(Head(in.q)) \/ FeedRefused
  /\ UNCHANGED <<out, inOpen, finished, line, hvars>>

FeedEnds ==
  /\ pc = "feed" /\ in.q = <<>>
  /\ pc' = "drain"
  /\ UNCHANGED <<ctl, in, out, inOpen, finished, line, hvars, history>>

\* A loop that takes a character without asking for room first.
RoomNotAsked == TRUE

RoomForAnswer == PipeLeft(out) > 0

\* A character that looks like a failure is out of the controller for good.
Drain ==
  /\ pc = "drain" /\ RoomForAnswer
  /\ Ctl!Getc
  /\ LET c == Ctl!GetChar
         passed == PipeLeft(out) > 0 /\ ~LooksLikeFailure(c)
     IN  /\ out' = IF passed THEN PipePut(out, c) ELSE out
         /\ dropped' = (dropped \/ ~passed)
         /\ pc' = IF passed /\ c # EOT THEN "drain" ELSE "loop"
  /\ UNCHANGED <<in, inOpen, finished, line, hvars, stored>>

DrainEnds ==
  /\ pc = "drain"
  /\ ~RoomForAnswer \/ ~Ctl!Responding
  /\ pc' = "loop"
  /\ UNCHANGED <<ctl, in, out, inOpen, finished, line, hvars, history>>

\* The handler of orter_io_pipe_loop.
Signal ==
  /\ "signal" \in Ending
  /\ pc \in {"loop", "feed", "drain"} /\ ~finished
  /\ finished' = TRUE
  /\ UNCHANGED <<ctl, pc, in, out, inOpen, line, hvars, history>>

ServerStep == Serve \/ Move \/ Finish \/ Feed \/ FeedEnds \/ Drain \/ DrainEnds

-----------------------------------------------------------------------------
(* The host and its end of the line.                                       *)

Ask ==
  /\ ~hungUp /\ HostAsk
  /\ stored' = FALSE
  /\ UNCHANGED <<ctl, svars, line, dropped>>

Send ==
  /\ ~hungUp /\ Len(toServer) < WireSize
  /\ HostSent
  /\ toServer' = Append(toServer, NextChar)
  /\ UNCHANGED <<ctl, svars, toHost, hungUp, history>>

Receive ==
  /\ ~hungUp /\ toHost # <<>>
  /\ HostReceived(Head(toHost))
  /\ toHost' = Tail(toHost)
  /\ UNCHANGED <<ctl, svars, toServer, hungUp, history>>

HangUp ==
  /\ "hangup" \in Ending /\ ~hungUp
  /\ hungUp' = TRUE
  /\ UNCHANGED <<ctl, svars, toServer, toHost, hvars, history>>

Next == ServerStep \/ Signal \/ Ask \/ Send \/ Receive \/ HangUp

\* The server's loop never blocks and the host waits for nothing but the line.
\* Nothing obliges the host to ask.
Fairness == WF_vars(ServerStep) /\ WF_vars(Send) /\ WF_vars(Receive)

Spec == Init /\ [][Next]_vars /\ Fairness

-----------------------------------------------------------------------------
(* Properties.                                                             *)

\* What the host is told is what the discs hold: a write it is told has been
\* made is in the image, whole and where it asked, a read gives what the image
\* held, and an error is given only for a drive that is empty or a disc that
\* cannot be written.  This is about every hand-over on the way: the framing by
\* EOT, the state machine, the partial moves of the pipes, and ?DISC and
\* BLOCK-READ keeping in step with the answers.
StoredAt(p) ==
  IF disc[p.drive] = NoDisc THEN <<>>
  ELSE Ctl!SectorOf(disc[p.drive], p.sector)

Device ==
  INSTANCE BlockDevice WITH
    Block <- HostBlock,
    Faulty <- (Fault # {}),
    store <- [p \in Place |-> StoredAt(p)],
    phase <- Phase(stored),
    request <- req,
    answer <- Answer

ImplementsDevice == Device!Spec

\* No character is lost between the host and the controller, in spite of the
\* breaks of process_simple that leave a loop with a character in hand.
NothingDropped == ~dropped

\* A host that has asked something comes back from R/W, with an answer or an
\* error, unless the server ends: neither side waits for a character that the
\* other will not send.
RequestAnswered == hpc # "idle" ~> hpc = "idle" \/ pc = "done"

\* The server ends after a hangup or a signal, whatever it was doing.
ServerEnds == (hungUp \/ finished) ~> pc = "done"

=============================================================================
