----------------------------- MODULE ForthMachine -----------------------------
(***************************************************************************)
(* The Forth machine of src/rf.c and src/rf.h: the registers, the two      *)
(* stacks in memory that grow down, the trampoline, NEXT, and one action   *)
(* for each code word, with the words of src/io.c for the console and the  *)
(* serial line.                                                            *)
(*                                                                         *)
(* Memory and rf_fp are those of Core: fp is "next", a code word, or       *)
(* "none", upon which the trampoline returns.  Left out: the code words in *)
(* assembly, which a target may have instead.                              *)
(***************************************************************************)
EXTENDS Core, SequencesExt, Bitwise

CONSTANTS
  Align,        \* RF_ALIGN, or 1
  BBlk,         \* bytes of a disc buffer, RF_BBLK
  DoubleArith,  \* RF_DOUBLE_ARITH
  Answer(_)     \* what the disc controller sends upon a command: bytes

VARIABLES
  sp, rp, ip, w, up,
  keys,  \* what will be typed
  shown, \* history: what was shown on the console
  line,  \* what comes from the serial line and is not read
  sent   \* history: the commands sent to the disc controller

registers == <<sp, rp, ip, w, up, fp>>
outside == <<keys, shown, line, sent>>
machine == <<mem, registers, outside>>

ColonCode == CodeOf("docol")

-----------------------------------------------------------------------------
(* Stacks.                                                                 *)

\* What is at depth k of each stack.
Sp(k) == Cell(mem, sp + k * WordSize)
Rp(k) == Cell(mem, rp + k * WordSize)

\* Cells pushed one after the other.
PushAll(m, at, cells) ==
  LET put[i \in 0 .. Len(cells)] ==
        IF i = 0 THEN m ELSE Stored(put[i - 1], at - i * WordSize, cells[i])
  IN  put[Len(cells)]

\* A code word that takes n cells from the data stack and pushes some, does the
\* same to the return stack, and goes on at an address.
Run(code, n, cells, rn, rcells, to) ==
  /\ fp = code /\ fp' = "next"
  /\ LET s == sp + n * WordSize
         r == rp + rn * WordSize
     IN  /\ sp' = s - Len(cells) * WordSize
         /\ rp' = r - Len(rcells) * WordSize
         /\ mem' = PushAll(PushAll(mem, s, cells), r, rcells)
  /\ ip' = to
  /\ UNCHANGED <<w, up, outside>>

Data(code, n, cells) == Run(code, n, cells, 0, <<>>, ip)

\* One that takes n cells and writes to memory.
Write(code, n, m) ==
  /\ fp = code /\ fp' = "next"
  /\ sp' = sp + n * WordSize
  /\ mem' = m
  /\ UNCHANGED <<rp, ip, w, up, outside>>

-----------------------------------------------------------------------------
(* NEXT, and the words of control.                                         *)

NextWord ==
  /\ fp = "next"
  /\ w' = Cell(mem, ip)
  /\ ip' = ip + WordSize
  /\ fp' = Codes[Cell(mem, w')]
  /\ UNCHANGED <<mem, sp, rp, up, outside>>

Exec ==
  /\ fp = "exec"
  /\ w' = Sp(0)
  /\ sp' = sp + WordSize
  /\ fp' = Codes[Cell(mem, w')]
  /\ UNCHANGED <<mem, rp, ip, up, outside>>

\* An offset that counts from after its cell.
BranchFromAfter == Wrapped(ip + WordSize + Cell(mem, ip))

\* rf_branch
Branch == Wrapped(ip + Cell(mem, ip))

After == ip + WordSize

Lit   == Run("lit", 0, <<Cell(mem, ip)>>, 0, <<>>, After)
Bran  == Run("bran", 0, <<>>, 0, <<>>, Branch)
ZBran == Run("zbran", 1, <<>>, 0, <<>>, IF Sp(0) # 0 THEN After ELSE Branch)

XDo == Run("xdo", 2, <<>>, 0, <<Sp(1), Sp(0)>>, ip)

GoesOn(index, limit) == Signed(limit) > Signed(index)

Loop(code, n, index, on) ==
  IF on THEN Run(code, n, <<>>, 2, <<Rp(1), index>>, Branch)
        ELSE Run(code, n, <<>>, 2, <<>>, After)

XLoop == LET index == Wrapped(Rp(0) + 1) IN Loop("xloop", 0, index, GoesOn(index, Rp(1)))

\* An increment of zero ends the loop.
XPLoo ==
  LET index == Wrapped(Rp(0) + Sp(0))
      n == Signed(Sp(0))
  IN  Loop("xploo", 1, index, \/ n > 0 /\ Signed(index) < Signed(Rp(1))
                              \/ n < 0 /\ Signed(index) > Signed(Rp(1)))

\* The limit becomes the index, so that the next (LOOP) ends.
Leave == Run("leave", 0, <<>>, 2, <<Rp(0), Rp(0)>>, ip)

DoCol == Run("docol", 0, <<>>, 0, <<ip>>, w + WordSize)
Semis == Run("semis", 0, <<>>, 1, <<>>, Rp(0))
DoDoe == Run("dodoe", 0, <<w + 2 * WordSize>>, 0, <<ip>>, Cell(mem, w + WordSize))
DoCon == Data("docon", 0, <<Cell(mem, w + WordSize)>>)
DoVar == Data("dovar", 0, <<w + WordSize>>)
DoUse == Data("douse", 0, <<up + Cell(mem, w + WordSize)>>)

ToR   == Run("tor", 1, <<>>, 0, <<Sp(0)>>, ip)
FromR == Run("fromr", 0, <<Rp(0)>>, 1, <<>>, ip)
RR    == Data("rr", 0, <<Rp(0)>>)

SpAt  == Data("spat", 0, <<sp>>)

SpSto ==
  /\ fp = "spsto" /\ fp' = "next"
  /\ sp' = Cell(mem, up + 3 * WordSize)
  /\ UNCHANGED <<mem, rp, ip, w, up, outside>>

RpSto ==
  /\ fp = "rpsto" /\ fp' = "next"
  /\ rp' = Cell(mem, up + 4 * WordSize)
  /\ UNCHANGED <<mem, sp, ip, w, up, outside>>

\* rf_cold
Cold ==
  /\ fp = "cold" /\ fp' = "rpsto"
  /\ LET origin(i) == Cell(mem, Origin + i * WordSize)
         user[i \in 0 .. 11] ==
           IF i = 0 THEN Stored(mem, origin(21), origin(6))
           ELSE Stored(user[i - 1], origin(8) + (11 - i) * WordSize, origin(17 - i))
     IN  /\ up' = origin(8)
         /\ mem' = user[11]
         /\ ip' = origin(22)
  /\ UNCHANGED <<sp, rp, w, outside>>

Mon ==
  /\ fp = "mon" /\ fp' = "none"
  /\ UNCHANGED <<mem, sp, rp, ip, w, up, outside>>

-----------------------------------------------------------------------------
(* Arithmetic, logic and the data stack.                                   *)

Plus  == Data("plus", 2, <<Wrapped(Sp(0) + Sp(1))>>)
Minus == Data("minus", 1, <<Wrapped(-Sp(0))>>)
AndD  == Data("andd", 2, <<Sp(0) & Sp(1)>>)
OrR   == Data("orr", 2, <<Sp(0) | Sp(1)>>)
XorR  == Data("xorr", 2, <<Sp(0) ^^ Sp(1)>>)
ZEqu  == Data("zequ", 1, <<Flag(Sp(0) = 0)>>)
ZLess == Data("zless", 1, <<Flag(Signed(Sp(0)) < 0)>>)

\* A double number pushed with its high cell on top.
Pair(d) == <<d[2], d[1]>>
HalfCell == CHOOSE h \in 1 .. W : h * h = W

UStarWord == Data("ustar", 2,
  Pair(IF DoubleArith THEN UStar(Sp(0), Sp(1)) ELSE UStarByHand(Sp(0), Sp(1), HalfCell)))
\* DoubleArith.tla has the division by hand.
USlas == Data("uslas", 3,
  Pair(IF ~DoubleArith /\ Sp(0) >= TopBit THEN <<W - 1, W - 1>> ELSE USlash(Sp(1), Sp(2), Sp(0))))
DPlusWord == Data("dplus", 4,
  Pair(IF DoubleArith THEN DPlus(Sp(0), Sp(1), Sp(2), Sp(3))
       ELSE DPlusByHand(Sp(0), Sp(1), Sp(2), Sp(3))))
DMinu == Data("dminu", 2,
  Pair(IF DoubleArith THEN DMinus(Sp(0), Sp(1)) ELSE DMinusByHand(Sp(0), Sp(1))))
SToD  == Data("stod", 1, <<Sp(0), IF Signed(Sp(0)) < 0 THEN W - 1 ELSE 0>>)

Over == Data("over", 2, <<Sp(1), Sp(0), Sp(1)>>)
Drop == Data("drop", 1, <<>>)
Swap == Data("swap", 2, <<Sp(0), Sp(1)>>)
Dup  == Data("dup", 1, <<Sp(0), Sp(0)>>)

Cl == Data("cl", 0, <<WordSize>>)
Cs == Data("cs", 1, <<Wrapped(Sp(0) * WordSize)>>)
Aligned(a) == ((a + Align - 1) \div Align) * Align
Ln == Data("ln", 1, <<Wrapped(Aligned(Sp(0)))>>)

-----------------------------------------------------------------------------
(* Memory.                                                                 *)

At    == Data("at", 1, <<Cell(mem, Sp(0))>>)
CAt   == Data("cat", 1, <<mem[Sp(0)]>>)
Store == Write("store", 2, Stored(mem, Sp(0), Sp(1)))
\* A store that does not take the low byte.
CStorWhole == Write("cstor", 2, [mem EXCEPT ![Sp(0)] = Sp(1)])

CStor == Write("cstor", 2, [mem EXCEPT ![Sp(0)] = Sp(1) % Byte])

PStor == Write("pstor", 2, Stored(mem, Sp(0), Wrapped(Cell(mem, Sp(0)) + Sp(1))))
Toggl == Write("toggl", 2, [mem EXCEPT ![Sp(1)] = @ ^^ (Sp(0) % Byte)])

CMove == Write("cmove", 3, Moved(mem, Sp(2), Sp(1), Sp(0)))

-----------------------------------------------------------------------------
(* Words that work on text, and on the headers of the dictionary.          *)

\* rf_digit: the value of a digit, and 255 where there is none.
DigitValue(base, c) ==
  LET d == (c - 48) % 256
      e == IF d > 9 THEN d - 7 ELSE d
  IN  IF (d > 9 /\ d < 17) \/ e >= base THEN 255 ELSE e

Digit == LET d == DigitValue(Sp(0) % Byte, Sp(1) % Byte)
         IN  Data("digit", 2, IF d = 255 THEN <<0>> ELSE <<d, 1>>)

\* The first address from a on of one of some bytes.
Seek(m, a, bytes) ==
  LET seek[b \in DOMAIN m] == IF m[b] \in bytes THEN b ELSE seek[b + 1]
  IN  seek[a]

Terminators == 128 .. Byte - 1

\* rf_lfa: the link follows the first character with bit 7.
Lfa(m, nfa) == Seek(m, nfa + 1, Terminators) + 1

\* The length with the smudge bit, and the whole name with what aligns it.
SameName(m, t, nfa) ==
  /\ m[t] % 64 = m[nfa] % 64
  /\ \A i \in 1 .. Lfa(m, nfa) - 1 - nfa : m[t + i] = m[nfa + i] % 128

\* rf_find: the first header from nfa on with the name at t, or 0.
Find(m, t, nfa) ==
  LET find[a \in DOMAIN m] ==
        IF a = 0 \/ SameName(m, t, a) THEN a ELSE find[Cell(m, Lfa(m, a))]
  IN  find[nfa]

PFind == LET f == Find(mem, Sp(1), Sp(0))
         IN  Data("pfind", 2, IF f = 0 THEN <<0>> ELSE <<Lfa(mem, f) + 2 * WordSize, mem[f], 1>>)

\* rf_enclose: offsets of the first character of a word, of its end, and of what
\* is not yet examined; a null ends a text, and is a word on its own.
Enclosed(c, a) ==
  LET start == Seek(mem, a, (0 .. Byte - 1) \ {c})
      end   == Seek(mem, start + 1, {c, 0})
  IN  IF mem[start] = 0 THEN <<start - a, start + 1 - a, start - a>>
      ELSE <<start - a, end - a, IF mem[end] = 0 THEN end - a ELSE end + 1 - a>>

Encl ==
  LET e == Enclosed(Sp(0) % Byte, Sp(1))
  IN  Data("encl", 2, <<Sp(1), e[1] % 256, e[2] % 256, e[3] % 256>>)

-----------------------------------------------------------------------------
(* The console, src/io.c.                                                  *)

\* OUT, the user variable that counts what is shown.
Emit ==
  /\ fp = "emit" /\ fp' = "next"
  /\ shown' = Append(shown, Sp(0) % 128)
  /\ mem' = LET out == up + 13 * WordSize IN Stored(mem, out, Wrapped(Cell(mem, out) + 1))
  /\ sp' = sp + WordSize
  /\ UNCHANGED <<rp, ip, w, up, keys, line, sent>>

Cr ==
  /\ fp = "cr" /\ fp' = "next"
  /\ shown' = Append(shown, 10)
  /\ UNCHANGED <<mem, sp, rp, ip, w, up, keys, line, sent>>

Key ==
  /\ fp = "key" /\ fp' = "next"
  /\ keys # <<>>
  /\ keys' = Tail(keys)
  /\ sp' = sp - WordSize
  /\ mem' = PushAll(mem, sp, <<Head(keys) % 128>>)
  /\ UNCHANGED <<rp, ip, w, up, shown, line, sent>>

\* rf_console_qterm of src/system.c never sees a key.
QTerm == Data("qterm", 0, <<0>>)

-----------------------------------------------------------------------------
(* The serial line, src/io.c.                                              *)

EOT == 4

DChar ==
  /\ fp = "dchar" /\ fp' = "next"
  /\ line # <<>>
  /\ sp' = sp - WordSize
  /\ mem' = PushAll(mem, sp + WordSize, <<Flag(Head(line) = Sp(0) % Byte), Head(line)>>)
  /\ line' = Tail(line)
  /\ UNCHANGED <<rp, ip, w, up, keys, shown, sent>>

\* One character more than the buffer holds.
EndsLate(i) == i = BBlk + 1 \/ line[i] = EOT

\* A buffer is full, or what comes ends with an EOT.
Ends(i) == i = BBlk \/ line[i] = EOT

BRead ==
  /\ fp = "bread" /\ fp' = "next"
  /\ LET ends == {i \in 1 .. Len(line) : Ends(i)}
         n == Min(ends)
         a == Sp(0)
     IN  /\ ends # {}
         /\ mem' = [x \in DOMAIN mem |-> IF x \in a .. a + n - 1 THEN line[x - a + 1] ELSE mem[x]]
         /\ line' = SubSeq(line, n + 1, Len(line))
  /\ sp' = sp + WordSize
  /\ UNCHANGED <<rp, ip, w, up, keys, shown, sent>>

BWrit ==
  /\ fp = "bwrit" /\ fp' = "next"
  /\ LET command == Append([i \in 1 .. Sp(0) % 256 |-> mem[Sp(1) + i - 1]], EOT)
     IN  /\ sent' = Append(sent, command)
         /\ line' = line \o Answer(command)
  /\ sp' = sp + 2 * WordSize
  /\ UNCHANGED <<mem, rp, ip, w, up, keys, shown>>

Control == NextWord \/ Exec \/ Lit \/ Bran \/ ZBran \/ XDo \/ XLoop \/ XPLoo \/ Leave \/ DoCol
             \/ Semis \/ DoDoe \/ DoCon \/ DoVar \/ DoUse \/ ToR \/ FromR \/ RR \/ SpAt \/ SpSto
             \/ RpSto \/ Cold \/ Mon
Arithmetic == Plus \/ Minus \/ AndD \/ OrR \/ XorR \/ ZEqu \/ ZLess \/ UStarWord \/ USlas
             \/ DPlusWord \/ DMinu \/ SToD \/ Over \/ Drop \/ Swap \/ Dup \/ Cl \/ Cs \/ Ln
Memory == At \/ CAt \/ Store \/ CStor \/ PStor \/ Toggl \/ CMove
TextWords == Digit \/ PFind \/ Encl
Console == Emit \/ Cr \/ Key \/ QTerm
Line == DChar \/ BRead \/ BWrit

CodeWord == Control \/ Arithmetic \/ Memory \/ TextWords \/ Console \/ Line

=============================================================================
