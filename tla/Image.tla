-------------------------------- MODULE Image --------------------------------
(***************************************************************************)
(* An installation that is saved in relocatable format (src/model.fs) and  *)
(* linked where it is loaded.  Linker.tla has the format and both loops;   *)
(* here is what is saved.  Then COLD starts it.                            *)
(*                                                                         *)
(* What is saved is the program; it was compiled at ORIGIN, apart from the *)
(* words of the installation, which are where they were.                   *)
(***************************************************************************)
EXTENDS Installer, Linker

ivars == <<vars, image, chunks, pp, qq, kept>>

Abs(n) == [kind |-> "abs", length |-> n]
CellOf(kind) == [kind |-> kind, length |-> WordSize]

\* The boot-up literals: LATEST, USER to R0, DP, and where COLD starts.
Literals == [i \in 1 .. 23 |->
  IF i - 1 \in {6, 15, 22} THEN CellOf("rto")
  ELSE IF i - 1 \in {8, 9, 10} THEN CellOf("rtl") ELSE CellOf("abs")]

\* A definition: its name field, its link, its code.
Definition(token) ==
  <<Abs(LinkOf(0, token.name)), CellOf("rto"), CellOf("lnk")>>

Chunks ==
  LET tokens == SelectSeq(FlattenSeq(program.blocks), LAMBDA t : t.code # "dp")
  IN  Literals \o FlattenSeq([i \in DOMAIN tokens |->
        IF tokens[i].code # "" THEN Definition(tokens[i])
        ELSE IF tokens[i].name # "" THEN <<CellOf("rto")>> ELSE <<CellOf("abs")>>])

\* The boot-up literals of the installation, which has replaced the boot source's.
Launch ==
  LET go == CHOOSE i \in DOMAIN made : made[i].name = "go"
      cell(i, n) == Table(Origin + i * WordSize, <<n>>)
  IN  cell(6, Cell(mem, LatestAt)) @@ cell(15, Cell(mem, DpAt))
        @@ cell(22, Cfa(mem, made[go].at) + WordSize) @@ mem

\* When all is loaded the boot source would run it.
AllLoaded ==
  /\ fp = "exec"
  /\ ip = Cell(mem, Origin + 22 * WordSize) + Len(BootSource(program)) * WordSize

Save ==
  /\ AllLoaded /\ image = <<>> /\ fp' = "saving"
  /\ mem' = Launch /\ kept' = mem'
  /\ chunks' = Chunks /\ pp' = Origin
  /\ UNCHANGED <<sp, rp, ip, w, up, outside, program, source, made, image, qq>>

ImageInit == Init /\ image = <<>> /\ chunks = <<>> /\ pp = 0 /\ qq = 0 /\ kept = mem

ImageNext ==
  \/ Save
  \/ LinkerNext /\ UNCHANGED <<sp, rp, ip, w, up, outside, program, source, made>>
  \/ Next /\ UNCHANGED <<image, chunks, pp, qq, kept>>

ImageSpec == ImageInit /\ [][ImageNext]_ivars /\ WF_ivars(ImageNext)

-----------------------------------------------------------------------------

\* Types, and that what is to be saved is what the linker takes: chunks of five
\* bits of length, that end in memory, with code where they say so.
ImageTypeOK ==
  /\ TypeOK
  /\ fp = "saving" /\ image = <<>> => LinkerInit

=============================================================================
