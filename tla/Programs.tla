------------------------------- MODULE Programs -------------------------------
(***************************************************************************)
(* Structured Forth programs: the text they compile from, with branches    *)
(* counted in cells as the control words of src/model.fs leave them, and   *)
(* what they mean, said without a machine: values on stacks, no addresses, *)
(* no branches.  Installer.tla runs the text and compares.                 *)
(*                                                                         *)
(* A body is a sequence of items.  An item is a record; "is" tells which.  *)
(***************************************************************************)
EXTENDS Cells, SequencesExt

CONSTANTS
  Spelling(_),  \* the characters of a name
  LatestAt,     \* the address of rf_inst_latest, at which the dictionary is found
  Pad           \* where programs write the names they search for

\* What the proto interpreter reads: a word to compile, with the number it would
\* be if it is not in the dictionary, or a word to make ("code" is not "").
Token(name, n, code) == [name |-> name, n |-> n, code |-> code]
Words(names) == [i \in DOMAIN names |-> Token(names[i], 0, "")]
Number(n) == <<Token("", n, "")>>
CellsBy(n) == Number(n * WordSize)   \* ^n
Literal(n) == Words(<<"LIT">>) \o Number(n)
Made(name, code) == <<Token(name, 0, code)>>
Colon(name, text) == Made(name, "docol") \o text

-----------------------------------------------------------------------------
(* Items.                                                                  *)

Num(n) == [is |-> "number", n |-> n]
Do(name) == [is |-> "word", name |-> name]
Get(name) == [is |-> "get", name |-> name]                \* a variable, @
Put(name) == [is |-> "put", name |-> name]                \* a variable, !
Add(name) == [is |-> "add", name |-> name]                \* a variable, +!
If(yes, no) == [is |-> "if", yes |-> yes, no |-> no]
Until(body) == [is |-> "until", body |-> body]
While(test, body) == [is |-> "while", test |-> test, body |-> body]
DoLoop(body) == [is |-> "loop", body |-> body]            \* DO body LOOP
DoStep(n, body) == [is |-> "step", n |-> n, body |-> body]  \* DO body n +LOOP
Perform(name) == [is |-> "perform", name |-> name]        \* find it, then run it
Smudge == [is |-> "smudge"]                               \* the newest definition
Then(names) == [i \in DOMAIN names |-> Do(names[i])]

-----------------------------------------------------------------------------
(* The text of a body.  The control words count from the cell of a branch. *)

Forward(branch, n, body) == Words(<<branch>>) \o CellsBy(n) \o body
Back(body, branch) == body \o Words(<<branch>>) \o CellsBy(-(Len(body) + 1))

\* The text that writes a name where it is searched for, and searches.
\* With a space, as WORD leaves them: (FIND) also compares what aligns a name.
Counted(name) == <<Len(Spelling(name))>> \o Spelling(name) \o <<32>>
Written(chars, at) == FlattenSeq([i \in DOMAIN chars |->
  Literal(chars[i]) \o Literal(at + i - 1) \o Words(<<"C!">>)])
Found(name) == Written(Counted(name), Pad) \o Literal(Pad)
                 \o Literal(LatestAt) \o Words(<<"@", "(FIND)">>)

RECURSIVE Text(_)
ItemText(i) ==
  CASE i.is = "number" -> Literal(i.n)
    [] i.is = "word"   -> Words(<<i.name>>)
    [] i.is = "get"    -> Words(<<i.name, "@">>)
    [] i.is = "put"    -> Words(<<i.name, "!">>)
    [] i.is = "add"    -> Words(<<i.name, "+!">>)
    [] i.is = "if"     -> LET yes == Text(i.yes)
                              no  == Text(i.no)
                          IN  IF no = <<>> THEN Forward("0BRANCH", Len(yes) + 1, yes)
                              ELSE Forward("0BRANCH", Len(yes) + 3, yes)
                                     \o Forward("BRANCH", Len(no) + 1, no)
    [] i.is = "until"  -> Back(Text(i.body), "0BRANCH")
    [] i.is = "while"  -> LET body == Text(i.body)
                              left == Forward("0BRANCH", Len(body) + 3, body)
                          IN  Back(Text(i.test) \o left, "BRANCH")
    [] i.is = "loop"   -> Words(<<"(DO)">>) \o Back(Text(i.body), "(LOOP)")
    [] i.is = "step"   -> Words(<<"(DO)">>) \o Back(Text(i.body) \o Literal(i.n), "(+LOOP)")
    \* the outer interpreter's: DROP the length, back from the PFA to the CFA
    [] i.is = "perform" -> LET run == Words(<<"DROP", "cl", "MINUS", "+", "EXECUTE">>)
                                        \o Words(<<"BRANCH">>) \o CellsBy(3)
                           IN  Found(i.name) \o Forward("0BRANCH", 8, run) \o Literal(0)
    [] i.is = "smudge" -> Literal(LatestAt) \o Words(<<"@">>) \o Literal(32) \o Words(<<"TOGGLE">>)
Text(body) == FlattenSeq([i \in DOMAIN body |-> ItemText(body[i])])

-----------------------------------------------------------------------------
(* What a body means.  A state has the data stack and the return stack,    *)
(* the top first, the variables by name, and bytes of memory at numbers.   *)

Top(s) == s.ds[1]
Second(s) == s.ds[2]
Popped(s, n) == [s EXCEPT !.ds = SubSeq(@, n + 1, Len(@))]
Onto(s, cells) == [s EXCEPT !.ds = cells \o @]
Instead(s, n, cells) == Onto(Popped(s, n), cells)

Bit(a, k) == (a \div 2 ^ k) % 2
OfBits(F(_)) == FoldSet(LAMBDA k, sum : sum + F(k) * 2 ^ k, 0, {k \in 0 .. 30 : 2 ^ k < W})

\* What a digit is worth.
Digits == [i \in 1 .. 36 |-> IF i <= 10 THEN 47 + i ELSE 54 + i]

\* The bytes of the scratch area, and words of text in it.
CopiedUp(bytes, from, to, n) == [a \in DOMAIN bytes |->
  IF a \in to .. to + n - 1
  THEN bytes[from + (IF from < to /\ to < from + n THEN (a - to) % (to - from) ELSE a - to)]
  ELSE bytes[a]]
\* The first word at a between characters c, up to a null: its start and end.
WordAt(bytes, a, c) ==
  LET start == Min({b \in DOMAIN bytes : b >= a /\ bytes[b] # c})
  IN  <<start, Min({b \in DOMAIN bytes : b > start /\ bytes[b] \in {c, 0}})>>

Primitive(name, s) ==
  LET a == Top(s)
      b == Second(s)
      c == s.ds[3]
      d == s.ds[4]
  IN
  CASE name = "+"      -> Instead(s, 2, <<(a + b) % W>>)
    [] name = "MINUS"  -> Instead(s, 1, <<(W - a) % W>>)
    [] name = "AND"    -> Instead(s, 2, <<OfBits(LAMBDA k : Bit(a, k) * Bit(b, k))>>)
    [] name = "OR"     -> Instead(s, 2, <<OfBits(LAMBDA k : Flag(Bit(a, k) + Bit(b, k) > 0))>>)
    [] name = "XOR"    -> Instead(s, 2, <<OfBits(LAMBDA k : Flag(Bit(a, k) # Bit(b, k)))>>)
    [] name = "0="     -> Instead(s, 1, <<Flag(a = 0)>>)
    [] name = "0<"     -> Instead(s, 1, <<Flag(a * 2 >= W)>>)
    [] name = "U*"     -> Instead(s, 2, <<(a * b) \div W, (a * b) % W>>)
    [] name = "U/"     -> Instead(s, 3, <<(b * W + c) \div a, (b * W + c) % a>>)
    [] name = "D+"     -> Instead(s, 4, <<(a + c + ((b + d) \div W)) % W, (b + d) % W>>)
    [] name = "DMINUS" -> Instead(s, 2, <<(IF b = 0 THEN W - a ELSE W - 1 - a) % W, (W - b) % W>>)
    [] name = "S->D"   -> Instead(s, 1, <<IF a * 2 >= W THEN W - 1 ELSE 0, a>>)
    [] name = "OVER"   -> Onto(s, <<b>>)
    [] name = "DROP"   -> Popped(s, 1)
    [] name = "SWAP"   -> Instead(s, 2, <<b, a>>)
    [] name = "DUP"    -> Onto(s, <<a>>)
    [] name = ">R"     -> [Popped(s, 1) EXCEPT !.rs = <<a>> \o @]
    [] name = "R>"     -> [Onto(s, <<Head(s.rs)>>) EXCEPT !.rs = Tail(@)]
    [] name = "R"      -> Onto(s, <<Head(s.rs)>>)
    [] name = "LEAVE"  -> [s EXCEPT !.left = TRUE]
    [] name = "cl"     -> Onto(s, <<WordSize>>)
    [] name = "cs"     -> Instead(s, 1, <<(a * WordSize) % W>>)
    [] name = "ln"     -> Instead(s, 1, <<a + (a % 2)>>)   \* cells of two bytes, aligned
    [] name = "KEY"    -> [Onto(s, <<Head(s.keys) % 128>>) EXCEPT !.keys = Tail(@)]
    [] name = "?TERMINAL" -> Onto(s, <<0>>)
    [] name = "EMIT"   -> [Popped(s, 1) EXCEPT !.shown = Append(@, a % 128)]
    [] name = "CR"     -> [s EXCEPT !.shown = Append(@, 10)]
    [] name = "C@"     -> Instead(s, 1, <<s.bytes[a]>>)
    [] name = "C!"     -> [Popped(s, 2) EXCEPT !.bytes[a] = b % Byte]
    [] name = "TOGGLE" -> [Popped(s, 2) EXCEPT !.bytes[b] =
                             OfBits(LAMBDA k : Flag(Bit(@, k) # Bit(a % Byte, k)))]
    [] name = "CMOVE"  -> [Popped(s, 3) EXCEPT !.bytes = CopiedUp(@, c, b, a)]
    [] name = "DIGIT"  -> LET places == {i \in 1 .. a : Digits[i] = b}
                          IN  Instead(s, 2, IF places = {} THEN <<0>> ELSE <<1, Min(places) - 1>>)
    [] name = "ENCLOSE" -> LET w == WordAt(s.bytes, b, a)
                               end == w[2] - b
                           IN  Instead(s, 2,
                                 IF s.bytes[w[1]] = 0 THEN <<w[1] - b, w[1] - b + 1, w[1] - b, b>>
                                 ELSE <<end + Flag(s.bytes[w[2]] # 0), end, w[1] - b, b>>)

RECURSIVE Item(_, _, _)

\* What a body does, where "defs" has the bodies of the words it calls.
Does(defs, body, s) == FoldLeft(LAMBDA t, i : Item(defs, i, t), s, body)

\* The values of the index of a loop: from the start by n until the limit is met.
Indices(start, limit, n) ==
  LET more == CASE n > 0 -> (limit - 1 - start) \div n
                [] n < 0 -> (start - limit - 1) \div (-n)
                [] n = 0 -> 0
  IN  [k \in 1 .. 1 + (IF more > 0 THEN more ELSE 0) |-> (start + (k - 1) * n) % W]

\* A loop is left after the turn in which LEAVE was run.
Each(defs, body, s, indices) ==
  LET turn(t, i) ==
        IF t.left THEN t ELSE [Does(defs, body, [t EXCEPT !.rs = <<i>> \o @]) EXCEPT !.rs = Tail(@)]
  IN  [FoldLeft(turn, [Popped(s, 2) EXCEPT !.left = FALSE], indices) EXCEPT !.left = s.left]

Item(defs, i, s) ==
  CASE i.is = "number" -> Onto(s, <<i.n % W>>)
    [] i.is = "word"   -> IF i.name \in DOMAIN defs THEN Does(defs, defs[i.name], s)
                          ELSE Primitive(i.name, s)
    [] i.is = "get"    -> Onto(s, <<s.vars[i.name]>>)
    [] i.is = "put"    -> [Popped(s, 1) EXCEPT !.vars[i.name] = Top(s)]
    [] i.is = "add"    -> [Popped(s, 1) EXCEPT !.vars[i.name] = (@ + Top(s)) % W]
    [] i.is = "if"     -> Does(defs, IF Top(s) # 0 THEN i.yes ELSE i.no, Popped(s, 1))
    [] i.is = "until"  -> LET t == Does(defs, i.body, s)
                          IN  IF Top(t) # 0 THEN Popped(t, 1) ELSE Item(defs, i, Popped(t, 1))
    [] i.is = "while"  -> LET t == Does(defs, i.test, s)
                          IN  IF Top(t) = 0 THEN Popped(t, 1)
                              ELSE Item(defs, i, Does(defs, i.body, Popped(t, 1)))
    [] i.is = "loop"   -> Each(defs, i.body, s, Indices(Signed(Top(s)), Signed(Second(s)), 1))
    [] i.is = "step"   -> Each(defs, i.body, s,
                               Indices(Signed(Top(s)), Signed(Second(s)), Signed(i.n)))
    [] i.is = "perform" -> IF i.name \in DOMAIN defs THEN Does(defs, defs[i.name], s)
                           ELSE Onto(s, <<0>>)
    [] i.is = "smudge" -> s

=============================================================================
