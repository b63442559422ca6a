-------------------------------- MODULE Pipes --------------------------------
(***************************************************************************)
(* A pipe of src/orter/io.c as the rest of the program may see it: a queue *)
(* of characters that also takes up the room of the characters that left   *)
(* it since it was last empty.  A pipe is a record of that offset and of   *)
(* the queue.  PipeQueue is a pipe on its own, OrterPipe the array and the *)
(* pointer that implement it; DiscServer uses these operators.             *)
(***************************************************************************)
EXTENDS Naturals, Sequences

CONSTANTS
  PipeSize,  \* bytes of the buffer, 256 in the code
  Char       \* the characters that go through a pipe

ASSUME PipeSizeAssumption == PipeSize \in Nat \ {0}

EmptyPipe == [off |-> 0, q |-> <<>>]

Pipe == {p \in [off : 0 .. PipeSize, q : Seq(Char)] :
           /\ p.off + Len(p.q) <= PipeSize
           /\ p.q = <<>> => p.off = 0}

\* A pipe that has become empty starts again at offset 0.
Rewound(off, q) == [off |-> IF q = <<>> THEN 0 ELSE off, q |-> q]

\* orter_io_pipe_left
PipeLeft(p) == PipeSize - (p.off + Len(p.q))

\* orter_io_pipe_get, of a pipe that is not empty
PipeGet(p) == Rewound(p.off + 1, Tail(p.q))

\* orter_io_pipe_put, to a pipe with room left
PipePut(p, c) == [off |-> p.off, q |-> Append(p.q, c)]

\* bufread, of an empty pipe
PipeRead(chars) == [off |-> 0, q |-> chars]

\* bufwrite, when the file descriptor takes n of the characters
PipeWrite(p, n) == Rewound(p.off + n, SubSeq(p.q, n + 1, Len(p.q)))

=============================================================================
