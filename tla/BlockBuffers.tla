---------------------------- MODULE BlockBuffers ----------------------------
(***************************************************************************)
(* The disc buffers of Forth, src/model.fs: a ring of buffers between      *)
(* FIRST and LIMIT, each with a header that holds a block number and the   *)
(* bit UPDATE sets, and the words +BUF, UPDATE, EMPTY-BUFFERS, BUFFER,     *)
(* BLOCK, FLUSH and COPY.                                                  *)
(*                                                                         *)
(* R/W is BlockDevice: it moves a whole block or it fails, and then ?DISC  *)
(* or ?ERROR leaves for QUIT from wherever it was called.                  *)
(*                                                                         *)
(* A program changes only the buffer BLOCK has just given it, and says     *)
(* UPDATE when it has (as all the words of EDITOR and of editor.fs do).    *)
(* The contents of a block are one value.  OFFSET is 0.                    *)
(***************************************************************************)
EXTENDS Naturals, Sequences

CONSTANTS
  NBuf,     \* buffers, 8 in the code
  NBlock,   \* blocks of the disc
  Flushed,  \* the block number FLUSH gives, 7FFF: of no block of the disc
  BScr,     \* B/SCR, the blocks of a screen, 8 in the code
  Val,      \* what a block can hold
  Erased,   \* a buffer full of zeros
  RWFails,  \* the operations of R/W that may fail: "read", "write"
  First,    \* the first block the programs use
  Words,    \* which of "EMPTY-BUFFERS", "FLUSH", "COPY" the programs use
  CopyOver  \* whether they use COPY with buffers that COPY does not expect:
            \* one for the block copied to, or a changed one for that copied

ASSUME BuffersAssumption ==
  /\ NBuf \in Nat /\ NBuf >= 2
  /\ NBlock \in Nat \ {0} /\ First \in Nat
  /\ BScr \in Nat \ {0}
  /\ Flushed \in Nat /\ Flushed >= NBlock
  /\ Erased \in Val

Buf    == 0 .. NBuf - 1
Block  == First .. NBlock - 1
Number == 0 .. NBlock - 1 \cup {Flushed}
Header == [n : Number, upd : BOOLEAN]
Step   == [word : {"BUFFER"}] \cup [word : {"BLOCK", "rename"}, n : Block]

VARIABLES
  use,     \* USE, the buffer to be taken next
  prev,    \* PREV, the buffer last referenced
  header,  \* the first cell of each buffer
  data,    \* the rest of it
  disc,    \* what the disc holds
  todo     \* what is left of the loop of FLUSH or COPY

vars == <<use, prev, header, data, disc, todo>>

Empty == [n |-> 0, upd |-> FALSE]  \* a header after ERASE

Init ==
  /\ use = 0 /\ prev = 0
  /\ header = [b \in Buf |-> Empty]
  /\ data = [b \in Buf |-> Erased]
  /\ disc \in [Block -> Val]
  /\ todo = <<>>

-----------------------------------------------------------------------------
(* BUFFER                                                                  *)

\* A +BUF that does not compare with LIMIT.
NextBufPastLimit(b) == b + 1

\* The address part of +BUF: the next buffer of the ring.
NextBuf(b) == (b + 1) % NBuf

\* BEGIN +BUF UNTIL: the next buffer that is not PREV.
UseAfter(b) == IF NextBuf(b) = prev THEN NextBuf(NextBuf(b)) ELSE NextBuf(b)

\* QUIT: nothing is left of the words that run.
Quits == todo' = <<>>

\* A BUFFER that gives the buffer its number and forgets to write it first.
BufferTakenUnsaved(h) ==
  /\ use' = UseAfter(use)
  /\ header' = [header EXCEPT ![use] = h]
  /\ prev' = use
  /\ UNCHANGED disc

\* A BUFFER that writes what the buffer at PREV holds.
BufferTakenWrong(h) ==
  /\ disc' = IF header[use].upd
               THEN [disc EXCEPT ![header[use].n] = data[prev]] ELSE disc
  /\ use' = UseAfter(use)
  /\ header' = [header EXCEPT ![use] = h]
  /\ prev' = use

\* A BUFFER that does not move USE.
BufferTakenAgain(h) ==
  /\ disc' = IF header[use].upd
               THEN [disc EXCEPT ![header[use].n] = data[use]] ELSE disc
  /\ header' = [header EXCEPT ![use] = h]
  /\ prev' = use
  /\ UNCHANGED use

\* The buffer at USE is written to the disc if it was changed, and becomes the
\* one at PREV, with header h.
BufferTaken(h) ==
  /\ disc' = IF header[use].upd
               THEN [disc EXCEPT ![header[use].n] = data[use]] ELSE disc
  /\ use' = UseAfter(use)
  /\ header' = [header EXCEPT ![use] = h]
  /\ prev' = use

\* That write fails, when USE has moved on already.
BufferQuits ==
  /\ "write" \in RWFails /\ header[use].upd
  /\ use' = UseAfter(use)
  /\ Quits
  /\ UNCHANGED <<prev, header, data, disc>>

-----------------------------------------------------------------------------
(* BLOCK                                                                   *)

Clean(n) == [n |-> n, upd |-> FALSE]
Changed(n) == [n |-> n, upd |-> TRUE]

\* A search that does not look at the buffer it starts from.
ResidentElsewhere(n) == \E b \in Buf \ {prev} : header[b].n = n

Resident(n) == \E b \in Buf : header[b].n = n

\* Where the search that starts at PREV finds block n.
Steps(b) == (b + NBuf - prev) % NBuf
Found(n) ==
  CHOOSE b \in Buf :
    /\ header[b].n = n
    /\ \A c \in Buf : header[c].n = n => Steps(b) <= Steps(c)

\* BLOCK finds a buffer.
BlockFound(n) ==
  /\ Resident(n)
  /\ prev' = Found(n)
  /\ UNCHANGED <<use, header, data, disc>>

\* BLOCK takes a buffer and reads block n into it.
BlockRead(n) ==
  /\ ~Resident(n)
  /\ BufferTaken(Clean(n))
  /\ data' = [data EXCEPT ![use] = disc[n]]

\* The read fails, when the buffer has the number of block n already.
BlockQuits(n) ==
  /\ ~Resident(n)
  /\ \/ BufferQuits
     \/ /\ "read" \in RWFails
        /\ BufferTaken(Clean(n))
        /\ Quits
        /\ UNCHANGED data

BlockWord(n) ==
  /\ todo = <<>>
  /\ \/ (BlockFound(n) \/ BlockRead(n)) /\ UNCHANGED todo
     \/ BlockQuits(n)

-----------------------------------------------------------------------------
(* The words of the programs.                                              *)

\* A program stores into the buffer that BLOCK gave, and says UPDATE.
Update(v) ==
  /\ todo = <<>>
  /\ header[prev].n \in Block
  /\ data' = [data EXCEPT ![prev] = v]
  /\ header' = [header EXCEPT ![prev].upd = TRUE]
  /\ UNCHANGED <<use, prev, disc, todo>>

\* EMPTY-BUFFERS
EmptyBuffers ==
  /\ todo = <<>> /\ "EMPTY-BUFFERS" \in Words
  /\ header' = [b \in Buf |-> Empty]
  /\ data' = [b \in Buf |-> Erased]
  /\ UNCHANGED <<use, prev, disc, todo>>

\* FLUSH: as many times BUFFER as there are buffers.
FlushSteps == [i \in 1 .. NBuf |-> [word |-> "BUFFER"]]

Flush ==
  /\ todo = <<>> /\ "FLUSH" \in Words
  /\ todo' = FlushSteps
  /\ UNCHANGED <<use, prev, header, data, disc>>

FlushStep ==
  /\ todo # <<>> /\ Head(todo).word = "BUFFER"
  /\ \/ /\ BufferTaken(Clean(Flushed))
        /\ todo' = Tail(todo)
        /\ UNCHANGED data
     \/ BufferQuits

\* COPY: for each block of the screen, BLOCK of the one, whose buffer gets the
\* number of the other and is marked by UPDATE; then FLUSH.
CopySteps(from, to) ==
  [i \in 1 .. 2 * BScr |->
     IF i % 2 = 1 THEN [word |-> "BLOCK", n |-> from * BScr + i \div 2]
     ELSE [word |-> "rename", n |-> to * BScr + i \div 2 - 1]]

ScreenBlocks(s) == s * BScr .. (s + 1) * BScr - 1

Copy(from, to) ==
  /\ todo = <<>> /\ "COPY" \in Words
  /\ from # to /\ ScreenBlocks(from) \cup ScreenBlocks(to) \subseteq Block
  /\ ~CopyOver => \A b \in Buf :
       /\ header[b].n \notin ScreenBlocks(to)
       /\ header[b].upd => header[b].n \notin ScreenBlocks(from)
  /\ todo' = CopySteps(from, to) \o FlushSteps
  /\ UNCHANGED <<use, prev, header, data, disc>>

CopyBlock ==
  /\ todo # <<>> /\ Head(todo).word = "BLOCK"
  /\ \/ (BlockFound(Head(todo).n) \/ BlockRead(Head(todo).n)) /\ todo' = Tail(todo)
     \/ BlockQuits(Head(todo).n)

CopyRename ==
  /\ todo # <<>> /\ Head(todo).word = "rename"
  /\ header' = [header EXCEPT ![prev] = Changed(Head(todo).n)]
  /\ todo' = Tail(todo)
  /\ UNCHANGED <<use, prev, data, disc>>

Next ==
  \/ \E n \in Block : BlockWord(n)
  \/ \E v \in Val : Update(v)
  \/ EmptyBuffers
  \/ Flush \/ FlushStep
  \/ (\E from, to \in 0 .. NBlock : Copy(from, to)) \/ CopyBlock \/ CopyRename

Spec == Init /\ [][Next]_vars

-----------------------------------------------------------------------------
(* Properties.                                                             *)

TypeOK ==
  /\ use \in Buf /\ prev \in Buf
  /\ header \in [Buf -> Header]
  /\ data \in [Buf -> Val]
  /\ disc \in [Block -> Val]
  /\ todo \in Seq(Step)

\* What BLOCK gives for n.
View(n) == IF Resident(n) THEN data[Found(n)] ELSE disc[n]

\* A block is in one buffer at most, so that no change is made to a copy that
\* BLOCK will not find, or is overwritten by an older one.
OneBuffer ==
  \A b, c \in Buf : header[b].n \in Block /\ header[b].n = header[c].n => b = c

\* A buffer without the UPDATE bit holds what the disc holds.
CleanMatchesDisc ==
  \A b \in Buf : header[b].n \in Block /\ ~header[b].upd =>
    data[b] = disc[header[b].n]

\* Only a block of the disc has the bit: R/W takes no other number, and a
\* buffer that cannot be written stops every FLUSH.
ChangedIsBlock == \A b \in Buf : header[b].upd => header[b].n \in Block

\* Whatever was read, changed, renamed, written, or failed to be, in any order.
Coherent == OneBuffer /\ CleanMatchesDisc /\ ChangedIsBlock

\* Whatever moves between buffers and disc, wherever it stops, BLOCK gives each
\* block as before: a change is neither lost when its buffer is taken, nor
\* hidden by what the disc held when the block was last read.
KeepsStores ==
  [][(\E n \in Block : BlockWord(n)) \/ FlushStep \/ CopyBlock =>
       \A n \in Block : View(n)' = View(n)]_vars

\* The buffers are a memory in front of the disc: a step stores into one block,
\* or saves one as BLOCK gives it, or discards all that is not saved; so the disc
\* gets what was stored, where it was stored, and nothing else.
Memory == INSTANCE BlockMemory WITH view <- [n \in Block |-> View(n)], saved <- disc
ImplementsMemory == Memory!Spec

\* How many buffers wait to be written when FLUSH has run to its end.
FlushDone == Len(todo) = 1 /\ Head(todo).word = "BUFFER" /\ ~header'[use].upd
Unsaved(hs) == {b \in Buf : hs[b].upd}

\* "WRITE ALL UPDATED BLOCKS TO DISC" (model.fs:1477) is too much to ask: FLUSH
\* takes as many buffers as there are, but BUFFER steps over the one PREV points
\* to, and takes another twice.  It leaves one block unwritten at most.
FlushLeavesOne ==
  [][FlushDone => \A b, c \in Unsaved(header') : b = c]_vars

=============================================================================
