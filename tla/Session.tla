------------------------------- MODULE Session -------------------------------
(***************************************************************************)
(* What the servers and bridges of orter open before their loop, and close *)
(* after it: the terminal (src/orter/io.c), a serial port (serial.c), TCP  *)
(* sockets (tcp.c) and a pseudoteletype (pty.c), as the entry functions of *)
(* src/disc.c, serial.c, tcp.c and pty.c put them together.                *)
(*                                                                         *)
(* Descriptors go when the process does.  Four things do not: the terminal *)
(* made nonblocking, its settings, those of the serial port, and the link  *)
(* to the pseudoteletype.  Calls that only fail where an earlier one has   *)
(* failed in the same way are one step with it.                            *)
(*                                                                         *)
(* Standard input is a terminal: of another one only the flags change.     *)
(* Left out: a failure of the calls that restore, which is only reported.  *)
(***************************************************************************)
EXTENDS Naturals, Sequences

CONSTANTS
  Mode,     \* the commands that are run
  Signals   \* whether a signal may come (SIGHUP, SIGINT, SIGTERM, SIGPIPE)

ASSUME ModeAssumption ==
  Mode \subseteq {"serial", "tcp client", "tcp server", "pty", "disc standard", "disc mux",
                 "disc serial", "disc pty", "disc tcp client", "disc tcp server"}

VARIABLES
  mode,     \* the command that runs
  todo,     \* the steps before the loop that are still to do
  held,     \* what has been opened or changed
  phase,    \* "open", "start", "loop", "close" or "ended"
  failed,   \* history: the step that failed, "signal", or "none"
  finished  \* orter_io_finished

session == <<mode, todo, held, phase, failed, finished>>

Lasting == {"nonblocking", "raw terminal", "raw port", "link"}

\* orter_io_std_open, orter_serial_open, orter_tcp_client_open,
\* orter_tcp_server_open, orter_pty_open
StdSteps    == <<"std fcntl", "std tcgetattr", "std tcsetattr">>
SerialSteps == <<"open", "tcgetattr", "baud", "tcsetattr", "tcflush">>
ClientSteps == <<"socket", "connect">>
ServerSteps == <<"socket", "listen", "accept">>
PtySteps    == <<"openpty", "symlink">>

\* What a step leaves behind when it succeeds.
Obtained(step) ==
  CASE step = "std fcntl"     -> {"nonblocking"}
    [] step = "std tcsetattr" -> {"raw terminal"}
    [] step = "open"          -> {"port"}
    [] step = "tcsetattr"     -> {"raw port"}
    [] step = "socket"        -> {"socket"}
    [] step = "accept"        -> {"connection"}
    [] step = "openpty"       -> {"pty"}
    [] step = "symlink"       -> {"link"}
    [] OTHER                  -> {}

Unit(step) ==
  CASE step \in {"std fcntl", "std tcgetattr", "std tcsetattr"} -> "std"
    [] step \in {"open", "tcgetattr", "baud", "tcsetattr", "tcflush"} -> "serial"
    [] step \in {"socket", "connect", "listen", "accept"} -> "tcp"
    [] step \in {"openpty", "symlink"} -> "pty"
    [] OTHER -> "insert"

\* orter_io_std_close, orter_serial_close, orter_tcp_close, orter_pty_close
Closed(unit) ==
  CASE unit = "std"    -> {"nonblocking", "raw terminal"}
    [] unit = "serial" -> {"raw port", "port"}
    [] unit = "tcp"    -> {"socket", "connection"}
    [] unit = "pty"    -> {"link", "pty"}

\* The entry functions: disc_standard and the others of disc.c insert the discs
\* in serve.
Steps(m) ==
  CASE m = "serial"          -> SerialSteps \o StdSteps
    [] m = "tcp client"      -> StdSteps \o ClientSteps
    [] m = "tcp server"      -> StdSteps \o ServerSteps
    [] m = "pty"             -> StdSteps \o PtySteps
    [] m = "disc standard"   -> StdSteps \o <<"insert">>
    [] m = "disc mux"        -> StdSteps \o SerialSteps \o <<"insert">>
    [] m = "disc serial"     -> SerialSteps \o <<"insert">>
    [] m = "disc pty"        -> PtySteps \o <<"insert">>
    [] m = "disc tcp client" -> ClientSteps \o <<"insert">>
    [] m = "disc tcp server" -> ServerSteps \o <<"insert">>

StepsOf(seq) == {seq[i] : i \in 1 .. Len(seq)}
Units == {Unit(s) : s \in StepsOf(Steps(mode))} \ {"insert"}

\* The units that are closed when a step fails, with std_close forgotten.
ClosedUponOwn(step) ==
  IF Unit(step) = "insert" \/ mode = "serial" THEN Units
  ELSE IF Unit(step) \in {"tcp", "pty"} THEN {Unit(step)} ELSE {}

\* The units that are closed when a step fails.  orter_serial restores all that
\* was opened; TCP and pty close themselves, and the entry functions close what
\* they had opened before; a step of std or serial leaves its own unit as it is.
ClosedUpon(step) ==
  IF Unit(step) = "insert" \/ mode = "serial" THEN Units
  ELSE (IF Unit(step) \in {"tcp", "pty"} THEN {Unit(step)} ELSE {})
         \cup (IF Unit(step) = "std" THEN {} ELSE Units \cap {"std"})

SessionInit ==
  /\ mode \in Mode
  /\ todo = Steps(mode)
  /\ held = {}
  /\ phase = "open"
  /\ failed = "none"
  /\ finished = FALSE

-----------------------------------------------------------------------------

StepSucceeds ==
  /\ phase = "open" /\ todo # <<>>
  /\ held' = held \cup Obtained(Head(todo))
  /\ todo' = Tail(todo)
  /\ UNCHANGED <<mode, phase, failed, finished>>

\* disc_tcp_client tries again until somebody listens.
Retries(step) == mode = "disc tcp client" /\ Unit(step) = "tcp"

After(units) == held \ UNION {Closed(u) : u \in units}

StepRetried ==
  /\ phase = "open" /\ todo # <<>> /\ Retries(Head(todo))
  /\ held' = After({"tcp"})
  /\ todo' = Steps(mode)
  /\ UNCHANGED <<mode, phase, failed, finished>>

StepFails ==
  /\ phase = "open" /\ todo # <<>> /\ ~Retries(Head(todo))
  /\ held' = After(ClosedUpon(Head(todo)))
  /\ failed' = Head(todo)
  /\ phase' = "ended"
  /\ UNCHANGED <<mode, todo, finished>>

\* orter_io_pipe_loop installs its handlers, and then clears the flag.
InstallHandlers ==
  /\ phase = "open" /\ todo = <<>>
  /\ phase' = "start"
  /\ UNCHANGED <<mode, todo, held, failed, finished>>

StartLoop ==
  /\ phase = "start"
  /\ phase' = "loop"
  /\ finished' = FALSE
  /\ UNCHANGED <<mode, todo, held, failed>>

EndLoop ==
  /\ phase = "loop" /\ finished
  /\ phase' = "close"
  /\ UNCHANGED <<mode, todo, held, failed, finished>>

\* The entry function closes what it opened.
Close ==
  /\ phase = "close"
  /\ held' = After(Units)
  /\ phase' = "ended"
  /\ UNCHANGED <<mode, todo, failed, finished>>

\* Before the loop a signal kills the process, with no handler to end the loop.
SignalKills ==
  /\ Signals /\ phase = "open"
  /\ phase' = "ended"
  /\ failed' = "signal"
  /\ UNCHANGED <<mode, todo, held, finished>>

\* handler
Handler ==
  /\ Signals /\ phase \in {"start", "loop"}
  /\ finished' = TRUE
  /\ UNCHANGED <<mode, todo, held, phase, failed>>

SessionStep ==
  \/ StepSucceeds \/ StepRetried \/ StepFails
  \/ InstallHandlers \/ StartLoop \/ EndLoop \/ Close
  \/ SignalKills \/ Handler

-----------------------------------------------------------------------------
(* Properties.                                                             *)

Clean == held \cap Lasting = {}

\* A process that ends of itself leaves the terminal, the port and the file
\* system as it found them, whichever step of whichever command failed, with
\* three exceptions: orter_io_std_open and orter_serial_open do not undo what
\* they did before one of their last calls fails, and only orter_serial does it
\* for them.
LeftAsFound ==
  phase = "ended" /\ failed # "signal" =>
    \/ Clean
    \/ mode # "serial" /\ failed \in {"std tcgetattr", "std tcsetattr", "tcflush"}

=============================================================================
