----------------------------- MODULE BlockMemory -----------------------------
(***************************************************************************)
(* What the block words of Forth promise to a program: a memory of blocks  *)
(* that BLOCK shows and the program changes, backed by the disc.           *)
(***************************************************************************)
CONSTANTS
  Block,  \* the numbers of the blocks
  Val     \* what a block can hold

VARIABLES
  view,  \* what the program finds in each block
  saved  \* what the disc holds

Init == view \in [Block -> Val] /\ saved = view

\* The program stores a value into a block.
Store(n) == \E v \in Val : view' = [view EXCEPT ![n] = v] /\ UNCHANGED saved

\* A changed block goes to the disc, when the memory chooses.
Save(n) == saved' = [saved EXCEPT ![n] = view[n]] /\ UNCHANGED view

\* EMPTY-BUFFERS: what is not saved is lost.
Discard == view' = saved /\ UNCHANGED saved

Next == (\E n \in Block : Store(n) \/ Save(n)) \/ Discard

Spec == Init /\ [][Next]_<<view, saved>>

=============================================================================
