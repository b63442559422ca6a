------------------------------ MODULE PipeQueue ------------------------------
(***************************************************************************)
(* One pipe of Pipes on its own, with any order of operations: what        *)
(* OrterPipe implements.                                                   *)
(***************************************************************************)
EXTENDS Pipes

VARIABLE pipe

Init == pipe = EmptyPipe

Read ==
  /\ pipe.q = <<>>
  /\ \E n \in 1 .. PipeSize :
       \E chars \in [1 .. n -> Char] : pipe' = PipeRead(chars)

Write == \E n \in 1 .. Len(pipe.q) : pipe' = PipeWrite(pipe, n)

Get == pipe.q # <<>> /\ pipe' = PipeGet(pipe)

Put == PipeLeft(pipe) > 0 /\ \E c \in Char : pipe' = PipePut(pipe, c)

Spec == Init /\ [][Read \/ Write \/ Get \/ Put]_pipe

=============================================================================
