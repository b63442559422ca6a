-------------------------------- MODULE Linker --------------------------------
(***************************************************************************)
(* What is at ORIGIN, saved in relocatable format (src/model.fs) and       *)
(* linked where it is loaded, by the rf_inst of src/link.c, in place: the  *)
(* image starts at ORIGIN, where what it becomes is written while the rest *)
(* is still to be read.                                                    *)
(***************************************************************************)
EXTENDS Core

CONSTANT Limit   \* RF_LIMIT

\* A chunk has its length in five bits, and it is on a machine with a C type for
\* its cells that an image is linked.
ASSUME LinkAssumption ==
  /\ WordSize < 32
  /\ Size \in Nat /\ Origin \in Nat /\ Limit \in Nat

VARIABLES
  image,   \* what was saved, <<>> until then
  chunks,  \* what is still to be saved
  pp, qq,  \* ptr of model.fs, or how far link.c has read and written
  kept     \* history: memory when the image was loaded

linker == <<mem, fp, image, chunks, pp, qq, kept>>

\* Bytes as they are, and cells that are addresses or code.
Chunk ==
  [kind : {"abs"}, length : 1 .. 31] \cup [kind : {"rto", "rtl", "lnk"}, length : {WordSize}]

\* The last of codes is not in link.c's.
LinkCodes == SubSeq(Codes, 1, Len(Codes) - 1)

\* Where the first chunks end, how many they may be.
EndOf(some) ==
  LET end[i \in 0 .. Len(some)] == IF i = 0 THEN Origin ELSE end[i - 1] + some[i].length
  IN  end

\* What lnk is used upon: the address of a code word that link.c knows.
IsCode(n) == n \in 1 .. Len(LinkCodes) /\ CodeOf(LinkCodes[n]) = n

LinkerInit ==
  /\ fp = "saving"
  /\ mem \in [0 .. Size - 1 -> 0 .. Byte - 1]
  /\ chunks \in Seq(Chunk)
  /\ EndOf(chunks)[Len(chunks)] <= Size
  /\ \A i \in DOMAIN chunks :
       chunks[i].kind = "lnk" => IsCode(Cell(mem, EndOf(chunks)[i - 1]))
  /\ image = <<>> /\ kept = mem /\ pp = Origin /\ qq = 0

-----------------------------------------------------------------------------
(* Saving.                                                                 *)

\* The byte before a chunk, and the cell it holds for one that is not as it is.
Flags == [abs |-> 0, rto |-> 32, rtl |-> 64, lnk |-> 96]
Relative(kind, n) ==
  CASE kind = "rto" -> Wrapped(n - Origin)
    [] kind = "rtl" -> Wrapped(n - Limit)
    [] kind = "lnk" -> n - 1

SavedChunk(m, chunk, at) ==
  <<Flags[chunk.kind] + chunk.length>>
    \o [i \in 1 .. chunk.length |->
          IF chunk.kind = "abs" THEN m[at + i - 1]
          ELSE BytesOf(Relative(chunk.kind, Cell(m, at)))[i - 1]]

SaveChunk ==
  /\ fp = "saving" /\ chunks # <<>>
  /\ image' = image \o SavedChunk(mem, Head(chunks), pp)
  /\ pp' = pp + Head(chunks).length
  /\ chunks' = Tail(chunks)
  /\ UNCHANGED <<mem, fp, qq, kept>>

\* What was saved ends with a null.  It is loaded at ORIGIN.
Load ==
  /\ fp = "saving" /\ chunks = <<>> /\ fp' = "linking"
  /\ image' = Append(image, 0)
  /\ mem' = [a \in DOMAIN mem \cup (Origin .. Origin + Len(image)) |->
               IF a \in Origin .. Origin + Len(image) THEN image'[a - Origin + 1] ELSE mem[a]]
  /\ kept' = mem
  /\ pp' = Origin /\ qq' = Origin
  /\ UNCHANGED chunks

-----------------------------------------------------------------------------
(* rf_inst of link.c.                                                      *)

\* Where the cell to fix up is: from qq before the bytes are moved, or, in error,
\* from pp after.
FixAfter(length) == pp + 1 + length
FixAt(length) == qq

\* A turn of its loop: the bytes of a chunk are moved, and its first cell fixed up.
LinkChunk ==
  LET b == mem[pp]
      length == b % 32
      moved == Moved(mem, pp + 1, qq, length)
      rr == FixAt(length)
      n == Cell(moved, rr)
  IN  /\ fp = "linking" /\ b # 0
      /\ mem' = CASE b - length = 32 -> Stored(moved, rr, Wrapped(n + Origin))
                  [] b - length = 64 -> Stored(moved, rr, Wrapped(n + Limit))
                  [] b - length = 96 -> Stored(moved, rr, CodeOf(LinkCodes[n + 1]))
                  [] OTHER -> moved
      /\ pp' = pp + 1 + length
      /\ qq' = qq + length
      /\ UNCHANGED <<fp, image, chunks, kept>>

\* main starts what is linked.
LinkDone ==
  /\ fp = "linking" /\ mem[pp] = 0
  /\ fp' = "cold"
  /\ UNCHANGED <<mem, image, chunks, pp, qq, kept>>

LinkerNext == SaveChunk \/ Load \/ LinkChunk \/ LinkDone

LinkerSpec == LinkerInit /\ [][LinkerNext]_linker

-----------------------------------------------------------------------------

\* The image is expanded onto itself and never over what it has still to read.
LinkReadsAhead ==
  fp = "linking" =>
    /\ qq <= pp
    /\ \A a \in pp .. Origin + Len(image) - 1 : mem[a] = image[a - Origin + 1]

\* As far as it has been linked, memory is what it was when it was saved: linked
\* where it was installed, an image is the installation.
LinkRestores ==
  fp = "linking" => \A a \in Origin .. qq - 1 : mem[a] = kept[a]

\* Both, for each turn of the loop: link.c reads with one pointer what it writes
\* with another that is at most as far, and fixes up in place what it has moved.
LinksInPlace == LinkReadsAhead /\ LinkRestores

=============================================================================
