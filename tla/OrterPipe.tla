------------------------------ MODULE OrterPipe ------------------------------
(***************************************************************************)
(* A nonblocking pipe of src/orter/io.c (orter_io_pipe_t): an array, an    *)
(* offset and a length.  bufread and bufwrite move characters between it   *)
(* and file descriptors, orter_io_pipe_get and orter_io_pipe_put between   *)
(* it and the program.  Every operation of a pipe is an action, in any     *)
(* order; each pipe of the program uses two of the four.                   *)
(*                                                                         *)
(* The names of the operations begin with Array, those of Pipes with Pipe. *)
(* Left out: a read or write that fails for good, which ends the loop and  *)
(* with it the pipe (DiscServer has it).                                   *)
(***************************************************************************)
EXTENDS Pipes

CONSTANTS
  Nul,       \* what the array, a static variable, holds at first
  MaxGiven   \* bound: how many characters ever enter the pipe

ASSUME ArrayAssumption == Nul \in Char /\ MaxGiven \in Nat

VARIABLES
  cells,  \* pipe->buf
  off,    \* pipe->off - pipe->buf
  len,    \* pipe->len
  open,   \* pipe->in # -1
  given,  \* history: the characters that entered the pipe
  taken   \* history: the characters that left it

array == <<cells, off, len, open, given, taken>>

Cell == 0 .. PipeSize - 1

\* The characters in the pipe.
Slice(c, o, l) == [i \in 1 .. l |-> c[o + i - 1]]
Contents == Slice(cells, off, len)

\* orter_io_pipe_init
ArrayInit ==
  /\ cells = [j \in Cell |-> Nul]
  /\ off = 0
  /\ len = 0
  /\ open = TRUE
  /\ given = <<>>
  /\ taken = <<>>

Left == PipeSize - off - len

\* A pipe that does not go back to the start of its array.
LeaveForward(n) ==
  /\ len' = len - n
  /\ off' = off + n
  /\ taken' = taken \o SubSeq(Contents, 1, n)
  /\ UNCHANGED <<cells, open, given>>

\* n characters leave at the front; an empty pipe starts again.
Leave(n) ==
  /\ len' = len - n
  /\ off' = IF len = n THEN 0 ELSE off + n
  /\ taken' = taken \o SubSeq(Contents, 1, n)
  /\ UNCHANGED <<cells, open, given>>

\* A bufread that reads into a pipe that is not empty.
ReadAnyTime == len < PipeSize

\* bufread reads when the pipe is empty only.
ReadReady == len = 0

\* bufread: n characters came.
ArrayRead ==
  /\ open /\ ReadReady
  /\ \E n \in 1 .. PipeSize : \E chars \in [1 .. n -> Char] :
       /\ Len(given) + n <= MaxGiven
       /\ cells' = [j \in Cell |-> IF j < n THEN chars[j + 1] ELSE cells[j]]
       /\ off' = 0
       /\ len' = n
       /\ given' = given \o chars
  /\ UNCHANGED <<open, taken>>

\* bufread: end of file.
ArrayEof ==
  /\ open /\ len = 0
  /\ open' = FALSE
  /\ off' = 0
  /\ UNCHANGED <<cells, len, given, taken>>

\* bufwrite: the descriptor takes some of the characters.
ArrayWrite == \E n \in 1 .. len : Leave(n)

\* orter_io_pipe_get
ArrayGet == len > 0 /\ Leave(1)

\* Room counted as if the characters that have left took none.
HasRoomAnywhere == PipeSize - len > 0

HasRoom == Left > 0

\* orter_io_pipe_put: one character at the end, if there is room.
ArrayPut ==
  /\ HasRoom /\ Len(given) < MaxGiven
  /\ \E c \in Char :
       /\ cells' = [cells EXCEPT ![off + len] = c]
       /\ given' = Append(given, c)
  /\ len' = len + 1
  /\ UNCHANGED <<off, open, taken>>

ArrayNext == ArrayRead \/ ArrayEof \/ ArrayWrite \/ ArrayGet \/ ArrayPut

ArraySpec == ArrayInit /\ [][ArrayNext]_array

-----------------------------------------------------------------------------

ArrayTypeOK ==
  /\ cells \in [Cell -> Char]
  /\ off \in Nat /\ len \in Nat
  /\ open \in BOOLEAN
  /\ given \in Seq(Char) /\ taken \in Seq(Char)

\* The characters are inside the array, whatever mix of partial writes, reads,
\* gets and puts came before: orter_io_pipe_put stores at off + len, and a
\* partial write moves off without making room.
InArray == off + len <= PipeSize

\* An empty pipe has room for a whole buffer: bufread and the loop that fills
\* the out pipe rely on off going back on every path that empties the pipe.
EmptyHasRoom == len = 0 => Left = PipeSize

\* Nothing is lost, repeated or reordered between what entered the pipe and
\* what left it, across both the descriptor side and the program side.
Fifo == given = taken \o Contents

\* The array and its pointers are the queue that the servers are written for.
Queue == INSTANCE PipeQueue WITH pipe <- [off |-> off, q |-> Contents]
ImplementsQueue == Queue!Spec

=============================================================================
