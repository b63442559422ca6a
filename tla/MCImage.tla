------------------------------ MODULE MCImage -------------------------------
(***************************************************************************)
(* Programs to install and to link, and a disc controller that holds them. *)
(***************************************************************************)
EXTENDS Image

\* One character, the same twice, and the same with another after it.
Names == <<"id", "cl", "cs", "ln", "LIT", "EXECUTE", "BRANCH", "0BRANCH", "(LOOP)", "(DO)",
        "DIGIT", "(FIND)", "ENCLOSE", "CMOVE", "U*", "U/", "AND", "SP@", "SP!", ";S", ">R", "R>",
        "R", "0=", "0<", "+", "MINUS", "OVER", "DROP", "SWAP", "DUP", "+!", "TOGGLE", "@", "C@",
        "!", "C!", "COLD", "D/CHAR", "BLOCK-WRITE", "BLOCK-READ", "MON", "compile", "cmd", "ch",
        "hl", "hld", "ic", "FIRST", "?DISC", "BLOCK", "LEAVE", "(+LOOP)", "OR", "XOR", "D+",
        "DMINUS", "S->D", "EMIT", "KEY", "?TERMINAL", "CR", "v", "k", "u", "d", "set", "mk", "a",
        "b", "go", "last", "none", "sp">>
Spelt == [name \in Range(Names) |->
  LET i == CHOOSE j \in DOMAIN Names : Names[j] = name
      c == 36 + i \div 3
  IN  <<<<c>>, <<c, c>>, <<c, c + 1>>>>[1 + (i % 3)]]
MCSpelling(name) == Spelt[name]

\* Compilation goes on at ORIGIN, after the boot-up literals.
Resume == <<Token("", Origin + 23 * WordSize, "dp")>>

\* Words of model.fs that have no name while installing; variables, a constant,
\* a user variable; DOES> as model.fs has it, and what it was used upon.
CodeDefinitions ==
  LET all == <<<<"LEAVE", "leave">>, <<"(+LOOP)", "xploo">>, <<"OR", "orr">>, <<"XOR", "xorr">>,
               <<"D+", "dplus">>, <<"DMINUS", "dminu">>, <<"S->D", "stod">>, <<"EMIT", "emit">>,
               <<"KEY", "key">>, <<"?TERMINAL", "qterm">>, <<"CR", "cr">>>>
  IN  FlattenSeq([i \in DOMAIN all |-> Made(all[i][1], all[i][2])])
DataDefinitions == Made("v", "dovar") \o Number(7) \o Made("k", "docon") \o Number(300)
           \o Made("u", "douse") \o CellsBy(20)
DoesDefinitions == Made("d", "dovar") \o Number(0) \o Number(41)
           \o Colon("set", Words(<<"R>", "d", "!">>) \o Literal(CodeOf("dodoe"))
                             \o Words(<<"d", "cl", "MINUS", "+", "!", ";S">>))
           \o Colon("mk", Words(<<"set", "@">>) \o Literal(1) \o Words(<<"+", ";S">>))
           \o Colon("sp", Words(<<"SP@", "SP@", "MINUS", "+", ";S">>))
           \o Colon("last", Literal(7) \o Words(<<";S">>))

\* A program of words a and b, which means what its bodies mean.
Case(a, b, go, typed) ==
  LET word(name, body) == Colon(name, Text(body) \o Words(<<";S">>))
      main == Words(<<"SP!">>) \o Text(go) \o Words(<<"MON">>)
  IN  [ blocks |-> <<Resume \o CodeDefinitions \o DataDefinitions,
                     DoesDefinitions \o word("a", a) \o word("b", b),
                     Colon("go", main) \o Colon("last", <<>>)>>,
        back |-> Len(main) + 1, keys |-> typed, go |-> go,
        defs |-> ("a" :> a @@ "b" :> b @@ "k" :> <<Num(300)>> @@ "mk" :> <<>> @@ "d" :> <<Num(42)>>
                    @@ "sp" :> <<Num(2)>> @@ "last" :> <<Num(7)>>) ]

Most == 32767
Least == 32768

\* Arithmetic, at the edges of the numbers; products that ustar of DoubleArith.tla
\* gets right, and which TLC can compute.
Sums(x, y) == Case(
  Then(<<"OVER", "OVER", "+", ">R", "OVER", "OVER", "AND", ">R", "OVER", "OVER", "OR", ">R",
         "OVER", "OVER", "XOR", "R>", "R>", "R>">>),
  Then(<<"DUP", "0=", "SWAP", "DUP", "0<", "SWAP", "DUP", "MINUS", "SWAP", "S->D", "DMINUS">>),
  <<Num(x), Num(y), Do("a"), Num(x), Do("b"), Num(x), Num(y), Num(y), Num(x), Do("D+"),
    Num(x), Num(256), Do("U*"), Num(255), Num(255), Do("U*"),
    Num(x), Num(5), Num(Most), Do("U/"), Num(x), Num(y), Do("DMINUS")>>, <<>>)

\* Loops from x to y by n: the last index, how often, and their sum; and one left.
CountedTurn == <<Do("R"), Do("+"), Num(1), Add("v")>>
Loops(x, y, n) == Case(
  <<Num(0), Num(y), Num(x), DoStep(n, CountedTurn), Get("v")>>,
  <<Num(y), Num(x), DoLoop(<<Do("R"), Do("LEAVE"), Num(2), Num(0), DoLoop(<<Do("R")>>)>>)>>,
  <<Num(0), Put("v"), Do("a"), Do("b")>>, <<>>)

\* Branches in branches.
Branches(x) == Case(
  <<If(<<Num(1), If(<<Num(11)>>, <<Num(12)>>)>>, <<Num(0), If(<<Num(21)>>, <<>>), Num(22)>>)>>,
  <<While(<<Do("DUP")>>, <<Do("DUP"), Do("a"), Do("SWAP"), Num(65535), Do("+")>>)>>,
  <<Num(x), Do("b"), Num(3), Until(<<Num(65535), Do("+"), Do("DUP"), Do("0=")>>), Do("DROP"),
    Num(x), Do("a")>>, <<>>)

\* Bytes and variables, an area moved onto itself, and words made by DOES>.
Bytes(from, to) == Case(
  <<Num(5), Num(Pad), DoLoop(<<>>), Num(Pad + 6), Num(Pad),
    DoLoop(<<Do("R"), Do("R"), Do("C!")>>), Num(from), Num(to), Num(3), Do("CMOVE")>>,
  <<Num(Pad + 6), Num(Pad), DoLoop(<<Do("R"), Do("C@")>>)>>,
  <<Do("a"), Num(Pad + 1), Num(170), Do("TOGGLE"), Do("b"), Do("mk"), Do("d"), Do("k"), Do("sp"),
    Num(9), Put("u"), Num(65535), Add("u"), Get("u"), Num(3), Do("cs"), Num(3), Do("ln"),
    Num(4), Do("ln"), Do("cl")>>, <<>>)

\* Words of a text, and its digits.
Texts(text) == Case(
  FlattenSeq([i \in DOMAIN text |-> <<Num(text[i]), Num(Pad + i - 1), Do("C!")>>]),
  <<Num(64), Num(44), DoLoop(<<Do("R"), Num(16), Do("DIGIT")>>)>>,
  <<Do("a"), Num(Pad), Num(32), Do("ENCLOSE"), Num(72), Num(63),
    DoLoop(<<Do("R"), Num(20), Do("DIGIT"), If(<<>>, <<Num(99)>>)>>)>>, <<>>)

\* The dictionary searched; a definition that is smudged shows the one it hid.
Searches == Case(<<Num(5)>>, <<Num(6), Perform("a")>>,
  <<Perform("a"), Perform("b"), Perform("none"), Smudge, Perform("last"), Perform("k"), Smudge,
    Do("KEY"), Do("EMIT"), Do("CR"), Do("?TERMINAL")>>, <<200>>)

MCDiscs ==
       {Sums(x, y) : x \in {0, Most, 65535}, y \in {Least, 65535}}
  \cup {Loops(t[1], t[2], t[3]) : t \in {<<65534, 2, 1>>, <<2, 65534, 65535>>, <<0, 7, 3>>,
          <<3, 3, 1>>, <<1, 65535, 65535>>, <<4, 0, 0>>, <<32765, Most, 1>>}}
  \cup {Branches(x) : x \in {0, 2}}
  \cup {Bytes(Pad, Pad + 1), Bytes(Pad + 2, Pad)}
  \cup {Texts(<<32, 32, 65, 66, 32, 0>>), Texts(<<65, 0>>), Texts(<<32, 0, 65>>)}
  \cup {Searches}

\* The controller sends the block whose track and sector the command has.
MCAnswer(command) ==
  LET digits(i) == (command[i] - 48) * 10 + command[i + 1] - 48
  IN  <<1, 64 + digits(3) * 26 + digits(6) - 1 - BootBlock + 1>> \o <<0, 6, EOT>>
=============================================================================
