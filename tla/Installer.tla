------------------------------ MODULE Installer ------------------------------
(***************************************************************************)
(* The installation of src/inst.c: headers, the proto interpreter, the     *)
(* code words and the boot source that rf_inst puts into empty memory, and *)
(* the run that follows, which loads blocks of source from disc, compiles  *)
(* each, and executes the last word but one.  ForthMachine.tla has the     *)
(* machine, Programs.tla the programs the blocks may hold.                 *)
(*                                                                         *)
(* A block holds the name of a piece of source, a byte.  The addresses     *)
(* are constants, as those of C objects and of system.inc are.             *)
(***************************************************************************)
EXTENDS ForthMachine, Programs

CONSTANTS
  DictionaryAt,  \* RF_INST_DICTIONARY
  ConstantsAt, CodesAt, CmdAt,     \* rf_inst_constants, rf_inst_codes, cmd
  User, S0, R0, First,             \* RF_USER ...
  BootBlock,     \* the first of the blocks that are loaded
  Discs      \* what may be on the disc

VARIABLES
  program,  \* what is on the disc
  source,   \* the text that the proto interpreter has still to read
  made      \* history: the definitions in the dictionary, their names and places

vars == <<machine, program, source, made>>

\* rf_inst_names, where there is one; the address of its code is the index of one.
NameOf ==
     "cl" :> "cl" @@ "cs" :> "cs" @@ "ln" :> "ln" @@ "LIT" :> "lit" @@ "EXECUTE" :> "exec"
  @@ "BRANCH" :> "bran" @@ "0BRANCH" :> "zbran" @@ "(LOOP)" :> "xloop" @@ "(DO)" :> "xdo"
  @@ "DIGIT" :> "digit" @@ "(FIND)" :> "pfind" @@ "ENCLOSE" :> "encl" @@ "CMOVE" :> "cmove"
  @@ "U*" :> "ustar" @@ "U/" :> "uslas" @@ "AND" :> "andd" @@ "SP@" :> "spat" @@ "SP!" :> "spsto"
  @@ ";S" :> "semis" @@ ">R" :> "tor" @@ "R>" :> "fromr" @@ "R" :> "rr" @@ "0=" :> "zequ"
  @@ "0<" :> "zless" @@ "+" :> "plus" @@ "MINUS" :> "minus" @@ "OVER" :> "over"
  @@ "DROP" :> "drop" @@ "SWAP" :> "swap" @@ "DUP" :> "dup" @@ "+!" :> "pstor"
  @@ "TOGGLE" :> "toggl" @@ "@" :> "at" @@ "C@" :> "cat" @@ "!" :> "store" @@ "C!" :> "cstor"
  @@ "COLD" :> "cold" @@ "D/CHAR" :> "dchar" @@ "BLOCK-WRITE" :> "bwrit"
  @@ "BLOCK-READ" :> "bread" @@ "MON" :> "mon" @@ "compile" :> "compile"

-----------------------------------------------------------------------------
(* Memory while it is filled.                                              *)

DpAt == User + 9 * WordSize

\* rf_inst_comma
Comma(m, n) ==
  LET here == Cell(m, DpAt) IN Table(here, <<Wrapped(n)>>) @@ Table(DpAt, <<here + WordSize>>) @@ m

\* The name field: a length without the smudge bit, the name, spaces to align
\* the link, and bit 7 on the last.
NameField(chars, there, end) == [a \in there .. end - 1 |->
  (IF a = there THEN Len(chars) + 128 ELSE IF a <= there + Len(chars) THEN chars[a - there] ELSE 32)
    + 128 * Flag(a = end - 1)]

\* Where the link of a header at an address goes, and where it would without
\* alignment.
LinkUnaligned(there, name) == there + 1 + Len(Spelling(name))
LinkOf(there, name) == Aligned(there + 1 + Len(Spelling(name)))

\* rf_inst_code
Header(m, name, code) ==
  LET there == Cell(m, DpAt)
      end   == LinkOf(there, name)
  IN  NameField(Spelling(name), there, end)
        @@ Table(end, <<Cell(m, LatestAt), CodeOf(code)>>)
        @@ Table(DpAt, <<end + 2 * WordSize>>) @@ Table(LatestAt, <<there>>) @@ m

\* rf_inst_find: unlike (FIND) it compares as many characters as the text has.
\* The first header with the name, from the newest on, or 0.
InstFind(m, chars) ==
  LET find[nfa \in DOMAIN m] ==
        IF \/ nfa = 0
           \/ /\ m[nfa] % 64 = Len(chars)
              /\ \A i \in DOMAIN chars : m[nfa + i] % 128 = chars[i]
        THEN nfa
        ELSE find[Cell(m, Lfa(m, nfa))]
  IN  find[Cell(m, LatestAt)]

\* rf_inst_cfa
Cfa(m, nfa) == Lfa(m, nfa) + WordSize

\* rf_inst_compile of a word that is to be made, or else of one to compile, or
\* else of a number.
Compiled(m, token) ==
  IF token.code = "dp" THEN Table(DpAt, <<token.n>>) @@ m
  ELSE IF token.code # "" THEN Header(m, token.name, token.code)
  ELSE LET nfa == IF token.name = "" THEN 0 ELSE InstFind(m, Spelling(token.name))
       IN  Comma(m, IF nfa # 0 THEN Cfa(m, nfa) ELSE token.n)

-----------------------------------------------------------------------------
(* rf_inst.                                                                *)

\* The sector of a remainder: they count from 1, or, in error, from 0.
SectorFromZero == <<>>
Sector == Literal(1) \o Words(<<"+">>)

\* The disc command is made from the block number; one digit, two, track and sector.
DiscSource ==
     Colon("ch", Words(<<"cmd", "+", "SWAP">>) \o Literal(48) \o Words(<<"+", "SWAP", "C!", ";S">>))
  \o Colon("hl", Words(<<">R">>) \o Literal(0) \o Literal(10) \o Words(<<"U/", "R", "ch", "R>">>)
                   \o Literal(1) \o Words(<<"+", "ch", ";S">>))
  \o Colon("hld", Literal(0) \o Literal(26) \o Words(<<"U/">>) \o Literal(2) \o Words(<<"hl">>)
                   \o Sector \o Literal(5) \o Words(<<"hl", "cmd", ";S">>))
  \o Colon("ic", Words(<<"cs", "id", "+", "@", ";S">>))
  \o Colon("FIRST", Literal(9) \o Words(<<"ic", ";S">>))

\* Anything but SOH is taken for an ACK, with the EOT that follows it.
BlockSource ==
     Colon("?DISC", Literal(1) \o Words(<<"D/CHAR", "DROP", "0BRANCH">>) \o CellsBy(2)
                   \o Words(<<";S">>)
                   \o Literal(4) \o Words(<<"D/CHAR", "DROP", "DROP", ";S">>))
  \o Colon("BLOCK", Words(<<"FIRST", "cl", "+", "OVER", "FIRST", "@", "MINUS", "+", "0BRANCH">>)
                   \o CellsBy(10)
                   \o Words(<<"OVER", "hld">>) \o Literal(10) \o Words(<<"BLOCK-WRITE", "?DISC">>)
                   \o Words(<<"DUP", "BLOCK-READ", "?DISC", "SWAP", "FIRST", "!", ";S">>))

\* Loads the blocks and executes what starts some cells before the last header.
BootSource(p) ==
     Words(<<"SP!">>) \o Literal(0) \o Words(<<"FIRST", "OVER", "OVER", "!", "cl", "+">>)
  \o Literal(BBlk) \o Words(<<"+", "!">>)
  \o Literal(BootBlock + Len(p.blocks)) \o Literal(BootBlock)
  \o Words(<<"(DO)", "R", "BLOCK", "compile", "(LOOP)">>) \o CellsBy(-4)
  \o Words(<<"LIT">>) \o CellsBy(21) \o Literal(8) \o Words(<<"ic", "+", "@", "@">>)
  \o Words(<<"LIT">>) \o CellsBy(-p.back) \o Words(<<"+", "EXECUTE">>)

\* The text of rf_inst: first the words it makes with rf_inst_code itself.
NamedCodes == SelectSeq(Codes, LAMBDA c : \E n \in DOMAIN NameOf : NameOf[n] = c)
InstSource ==
     Made("id", "docon") \o Number(ConstantsAt)
  \o [i \in DOMAIN NamedCodes |->
        Token(CHOOSE n \in DOMAIN NameOf : NameOf[n] = NamedCodes[i], 0, NamedCodes[i])]
  \o Made("cmd", "docon") \o Number(CmdAt)
  \o DiscSource \o BlockSource

\* What C lays out in memory, and the first DP.
Empty ==
  LET command == <<73, 32, 48, 48, 32, 48, 48, 32, 47, 48, EOT>>
  IN  Table(DpAt, <<DictionaryAt>>)
        @@ [a \in CmdAt .. CmdAt + 10 |-> command[a - CmdAt + 1]]
        @@ Table(CodesAt, [i \in DOMAIN Codes |-> i])
        @@ Table(ConstantsAt, <<0, 0, User, S0, R0, 0, 0, 0, Origin, First,
                                0, 0, 0, 0, 0, 0, 0, 0, CodesAt, 0>>)
        @@ [a \in 0 .. Size - 1 |-> 0]

Init ==
  /\ program \in Discs
  /\ source = InstSource \o BootSource(program)
  /\ mem = Empty /\ made = <<>>
  /\ fp = "inst" /\ sp = 0 /\ rp = 0 /\ ip = 0 /\ w = 0 /\ up = User
  /\ keys = program.keys /\ shown = <<>> /\ line = <<>> /\ sent = <<>>

\* A turn of the loop of rf_inst_compile.
CompileToken ==
  /\ fp \in {"inst", "compiling"} /\ source # <<>>
  /\ mem' = Compiled(mem, Head(source))
  /\ made' = IF Head(source).code \in {"", "dp"} THEN made
             ELSE Append(made, [name |-> Head(source).name, at |-> Cell(mem, DpAt)])
  /\ source' = Tail(source)
  /\ UNCHANGED <<registers, outside, program>>

\* The rest of rf_inst: the boot-up literals.  COLD starts at the boot source.
Inst ==
  /\ fp = "inst" /\ source = <<>> /\ fp' = "cold"
  /\ LET dp == Cell(mem, DpAt)
         literal == 22 :> dp - Len(BootSource(program)) * WordSize @@ 6 :> Cell(mem, LatestAt)
                      @@ 8 :> User @@ 9 :> S0 @@ 10 :> R0 @@ 15 :> dp @@ 21 :> LatestAt
         cells == [i \in 1 .. 23 |-> IF i - 1 \in DOMAIN literal THEN literal[i - 1] ELSE 0]
     IN  mem' = Table(Origin, cells) @@ mem
  /\ UNCHANGED <<sp, rp, ip, w, up, outside, program, source, made>>

\* rf_inst_code_compile, of the source that the block at an address names.
Compile ==
  /\ fp = "compile" /\ fp' = "compiling"
  /\ source' = program.blocks[mem[Sp(0)] - 64]
  /\ sp' = sp + WordSize
  /\ UNCHANGED <<mem, rp, ip, w, up, outside, program, made>>

CompileDone ==
  /\ fp = "compiling" /\ source = <<>> /\ fp' = "next"
  /\ UNCHANGED <<mem, sp, rp, ip, w, up, outside, program, source, made>>

Still == UNCHANGED <<program, source, made>>

Next == \/ CompileToken \/ Inst \/ Compile \/ CompileDone
        \/ (Control /\ Still) \/ (Arithmetic /\ Still) \/ (Memory /\ Still)
        \/ (TextWords /\ Still) \/ (Console /\ Still) \/ (Line /\ Still)

Spec == Init /\ [][Next]_vars /\ WF_vars(Next)

-----------------------------------------------------------------------------

\* Memory holds bytes, and the stacks stay in their areas.
TypeOK ==
  /\ fp \in {"next", "none"} => mem \in [0 .. Size - 1 -> 0 .. Byte - 1]
  /\ fp \in {Codes[i] : i \in DOMAIN Codes}
              \cup {"inst", "compiling", "saving", "linking", "next", "none"}
  /\ sp # 0 => sp \in CmdAt + 11 .. S0
  /\ rp # 0 => rp \in S0 .. R0

\* What a program leaves on the stacks and has shown is what it means, whatever
\* the machine did to get there: the branches that were counted when it was
\* compiled, the headers that were searched, and every code word on the way.
RunsAsMeant ==
  fp = "none" =>
    LET before == [ds |-> <<>>, rs |-> <<>>, vars |-> "v" :> 7 @@ "u" :> 0, left |-> FALSE,
                   bytes |-> [a \in Pad .. Size - 1 |-> 0], keys |-> program.keys, shown |-> <<>>]
        after == Does(program.defs, program.go, before)
    IN  /\ sp = S0 - Len(after.ds) * WordSize
        /\ \A i \in DOMAIN after.ds : Sp(i - 1) = after.ds[i]
        /\ rp \in {R0 - WordSize, R0}   \* as EXECUTE starts it, or COLD
        /\ shown = after.shown /\ keys = after.keys

\* The commands sent are for the blocks to load, in order, each once: the digits
\* that Forth makes of a block number are those of its track and its sector.
BlocksInOrder ==
  LET command(block) ==
        LET track == block \div 26
            sector == (block % 26) + 1
            two(n) == <<48 + n \div 10, 48 + (n % 10)>>
        IN  <<73, 32>> \o two(track) \o <<32>> \o two(sector) \o <<32, 47, 48, EOT>>
  IN  /\ sent = [i \in DOMAIN sent |-> command(BootBlock + i - 1)]
      /\ fp = "none" => Len(sent) = Len(program.blocks)

\* From the last definition the links lead through every one, the newest first,
\* and each header gives its name and has its link and code aligned.
HeadersChain ==
  made # <<>> /\ fp \in {"inst", "compiling", "none"} =>
    LET n == Len(made)
        name(d) == LET there == d.at IN [i \in 1 .. mem[there] % 32 |-> mem[there + i] % 128]
        link(d) == Cell(mem, Lfa(mem, d.at))
    IN  /\ Cell(mem, LatestAt) = made[n].at
        /\ \A i \in 1 .. n : /\ name(made[i]) = Spelling(made[i].name)
                             /\ Lfa(mem, made[i].at) % Align = 0
                             /\ link(made[i]) = IF i = 1 THEN 0 ELSE made[i - 1].at

\* NEXT only meets words: the cell it runs is the code field of a definition.
OnlyRunsWords == fp = "next" => \E i \in DOMAIN made : Cell(mem, ip) = Cfa(mem, made[i].at)

\* Installation ends: no branch and no wait for the disc goes on for ever.
Halts == <>(fp = "none")

=============================================================================
