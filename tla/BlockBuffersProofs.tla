------------------------- MODULE BlockBuffersProofs -------------------------
(***************************************************************************)
(* Proofs about BlockBuffers, for any number of buffers and blocks.        *)
(*                                                                         *)
(* Types, and what FLUSH leaves unwritten, whatever the programs do and    *)
(* whatever fails; with reads that do not fail, programs that leave block  *)
(* 0 alone, and COPY used on blocks with no change pending, the buffers    *)
(* are coherent and implement BlockMemory.                                 *)
(***************************************************************************)
EXTENDS BlockBuffers, WellFoundedInduction, TLAPS

\* What COPY has still to do: the blocks it will copy to are in no buffer, and
\* nothing else it will do is about them.
Numbered(s) == s.word \in {"BLOCK", "rename"}

CopyAhead ==
  \A i \in 1 .. Len(todo) : todo[i].word = "rename" =>
    /\ ~Resident(todo[i].n)
    /\ \A j \in 1 .. Len(todo) : j # i /\ Numbered(todo[j]) => todo[j].n # todo[i].n

Inv == TypeOK /\ Coherent /\ CopyAhead

\* What is assumed of the programs and the discs.
Gentle == First >= 1 /\ "read" \notin RWFails /\ CopyOver = FALSE

-----------------------------------------------------------------------------

LEMMA NextBufType == \A b \in Buf : NextBuf(b) \in Buf
  BY BuffersAssumption DEF Buf, NextBuf

LEMMA UseAfterType == \A b \in Buf : UseAfter(b) \in Buf
  BY NextBufType DEF UseAfter

LEMMA NumberTypes == Block \subseteq Number /\ 0 \in Number /\ Flushed \in Number
  BY BuffersAssumption DEF Block, Number

LEMMA Numbers ==
  ASSUME Gentle
  PROVE  /\ Block \subseteq Number
         /\ 0 \in Number /\ 0 \notin Block
         /\ Flushed \in Number /\ Flushed \notin Block
  BY NumberTypes, BuffersAssumption DEF Gentle, Block

LEMMA InitTypes == Init => TypeOK
  BY NumberTypes, BuffersAssumption DEF Init, TypeOK, Buf, Header, Empty

LEMMA InitInv == ASSUME Gentle, Init PROVE Inv
<1>1. TypeOK
  BY InitTypes
<1>2. Coherent
  BY Numbers DEF Init, Coherent, OneBuffer, CleanMatchesDisc, ChangedIsBlock, Empty
<1>3. CopyAhead
  BY DEF Init, CopyAhead
<1> QED
  BY <1>1, <1>2, <1>3 DEF Inv

-----------------------------------------------------------------------------
(* Types: they hold whatever the programs do and whatever fails.           *)

LEMMA TakenTypes ==
  ASSUME TypeOK, NEW n \in Number, BufferTaken(Clean(n))
  PROVE  /\ use' \in Buf /\ prev' \in Buf
         /\ header' \in [Buf -> Header]
         /\ disc' \in [Block -> Val]
<1> USE DEF TypeOK
<1>1. use' \in Buf /\ prev' \in Buf
  BY UseAfterType DEF BufferTaken
<1>2. Clean(n) \in Header
  BY DEF Clean, Header
<1>3. header' \in [Buf -> Header]
  BY <1>2 DEF BufferTaken
<1>4. data[use] \in Val
  OBVIOUS
<1>5. disc' \in [Block -> Val]
  BY <1>4 DEF BufferTaken
<1> QED
  BY <1>1, <1>3, <1>5

LEMMA TakenHeaders ==
  ASSUME TypeOK, NEW n \in Number, BufferTaken(Clean(n))
  PROVE  /\ header'[use] = Clean(n)
         /\ \A b \in Buf : b # use => header'[b] = header[b]
BY DEF TypeOK, BufferTaken

\* The search of BLOCK ends in the ring, also if several buffers have the block.
LEMMA FoundInRing ==
  ASSUME TypeOK, NEW n \in Block, Resident(n)
  PROVE  Found(n) \in Buf /\ header[Found(n)].n = n
<1> DEFINE at == {b \in Buf : header[b].n = n}
           T == {Steps(b) : b \in at}
           R == OpToRel(<, Nat)
<1>1. \A b \in Buf : Steps(b) \in Nat
  BY BuffersAssumption DEF TypeOK, Steps, Buf
<1>2. T \subseteq Nat /\ T # {}
  BY <1>1 DEF Resident
<1>3. PICK m \in T : \A k \in T : <<k, m>> \notin R
  <2>1. IsWellFoundedOn(R, Nat)
    BY NatLessThanWellFounded
  <2> HIDE DEF R, T
  <2> QED
    BY <1>2, <2>1, WFMin
<1>4. PICK b \in at : Steps(b) = m
  BY <1>3
<1>5. \A c \in at : Steps(b) <= Steps(c)
  <2> SUFFICES ASSUME NEW c \in at PROVE Steps(b) <= Steps(c)
    OBVIOUS
  <2>1. Steps(c) \in T /\ Steps(b) \in Nat /\ Steps(c) \in Nat
    BY <1>1
  <2>2. ~(Steps(c) < Steps(b))
    BY <1>3, <1>4, <2>1 DEF OpToRel
  <2> QED
    BY <2>1, <2>2
<1> QED
  BY <1>5 DEF Found

LEMMA BlockFoundTypes ==
  ASSUME TypeOK, NEW n \in Block, BlockFound(n), todo' \in Seq(Step)
  PROVE  TypeOK'
BY FoundInRing DEF TypeOK, BlockFound

LEMMA BlockReadTypes ==
  ASSUME TypeOK, NEW n \in Block, BlockRead(n), todo' \in Seq(Step)
  PROVE  TypeOK'
<1>1. n \in Number /\ BufferTaken(Clean(n))
  BY NumberTypes DEF BlockRead
<1>2. disc[n] \in Val
  BY DEF TypeOK
<1>3. data' \in [Buf -> Val]
  BY <1>2 DEF TypeOK, BlockRead
<1> QED
  BY <1>1, <1>3, TakenTypes DEF TypeOK

LEMMA QuitTypes == TypeOK /\ BufferQuits => TypeOK'
  BY UseAfterType DEF TypeOK, BufferQuits, Quits

LEMMA BlockQuitsTypes ==
  ASSUME TypeOK, NEW n \in Block, BlockQuits(n)
  PROVE  TypeOK'
<1>1. CASE BufferQuits
  BY <1>1, QuitTypes
<1>2. CASE BufferTaken(Clean(n)) /\ Quits /\ UNCHANGED data
  <2>1. n \in Number /\ todo' = <<>>
    BY <1>2, NumberTypes DEF Quits
  <2> QED
    BY <1>2, <2>1, TakenTypes DEF TypeOK
<1> QED
  BY <1>1, <1>2 DEF BlockQuits

LEMMA BlockWordTypes ==
  ASSUME TypeOK, NEW n \in Block, BlockWord(n)
  PROVE  TypeOK'
<1>1. todo \in Seq(Step)
  BY DEF TypeOK
<1> QED
  BY <1>1, BlockFoundTypes, BlockReadTypes, BlockQuitsTypes DEF BlockWord

LEMMA UpdateTypes ==
  ASSUME TypeOK, NEW v \in Val, Update(v)
  PROVE  TypeOK'
<1>1. header' \in [Buf -> Header]
  BY DEF TypeOK, Update, Header
<1> QED
  BY <1>1 DEF TypeOK, Update

LEMMA EmptyBuffersTypes == TypeOK /\ EmptyBuffers => TypeOK'
  BY NumberTypes, BuffersAssumption DEF TypeOK, EmptyBuffers, Empty, Header

LEMMA Tails ==
  ASSUME NEW s \in Seq(Step), s # <<>>
  PROVE  /\ Head(s) \in Step /\ Head(s) = s[1] /\ 1 \in 1 .. Len(s)
         /\ Tail(s) \in Seq(Step)
         /\ \A i \in 1 .. Len(Tail(s)) : i + 1 \in 1 .. Len(s) /\ Tail(s)[i] = s[i + 1]
OBVIOUS

LEMMA FlushStepTypes == TypeOK /\ FlushStep => TypeOK'
<1> SUFFICES ASSUME TypeOK, FlushStep PROVE TypeOK'
  OBVIOUS
<1>1. todo \in Seq(Step) /\ todo # <<>>
  BY DEF TypeOK, FlushStep
<1>2. CASE BufferTaken(Clean(Flushed)) /\ todo' = Tail(todo) /\ data' = data
  BY <1>1, <1>2, NumberTypes, TakenTypes, Tails DEF TypeOK
<1> QED
  BY <1>2, QuitTypes DEF FlushStep

LEMMA CopyBlockTypes == TypeOK /\ CopyBlock => TypeOK'
<1> SUFFICES ASSUME TypeOK, CopyBlock PROVE TypeOK'
  OBVIOUS
<1>1. todo \in Seq(Step) /\ todo # <<>> /\ Head(todo).n \in Block /\ Tail(todo) \in Seq(Step)
  BY Tails DEF TypeOK, CopyBlock, Step
<1> QED
  BY <1>1, BlockFoundTypes, BlockReadTypes, BlockQuitsTypes DEF CopyBlock

LEMMA CopyRenameTypes == TypeOK /\ CopyRename => TypeOK'
<1> SUFFICES ASSUME TypeOK, CopyRename PROVE TypeOK'
  OBVIOUS
<1>1. todo \in Seq(Step) /\ todo # <<>> /\ Head(todo).n \in Block /\ Tail(todo) \in Seq(Step)
  BY Tails DEF TypeOK, CopyRename, Step
<1>2. Changed(Head(todo).n) \in Header
  BY <1>1, NumberTypes DEF Changed, Header
<1>3. header' \in [Buf -> Header]
  BY <1>2 DEF TypeOK, CopyRename
<1> QED
  BY <1>1, <1>3 DEF TypeOK, CopyRename

LEMMA Screens ==
  ASSUME NEW s \in Nat
  PROVE  s * BScr \in Nat /\ (s + 1) * BScr = s * BScr + BScr
BY BuffersAssumption

LEMMA ScreensApart ==
  ASSUME NEW s \in Nat, NEW t \in Nat, s # t
  PROVE  ScreenBlocks(s) \cap ScreenBlocks(t) = {}
<1>1. ASSUME NEW a \in Nat, NEW b \in Nat, a < b
      PROVE  (a + 1) * BScr <= b * BScr
  <2>1. b = a + 1 + (b - a - 1) /\ b - a - 1 \in Nat
    BY <1>1
  <2>2. \A d \in Nat : (a + 1 + d) * BScr = (a + 1) * BScr + d * BScr /\ d * BScr >= 0
    BY BuffersAssumption
  <2> QED
    BY <2>1, <2>2, BuffersAssumption
<1>2. (s + 1) * BScr <= t * BScr \/ (t + 1) * BScr <= s * BScr
  BY <1>1
<1> QED
  BY <1>2, Screens, BuffersAssumption DEF ScreenBlocks

LEMMA CopyStepsAre ==
  ASSUME NEW s \in Nat, NEW t \in Nat,
         ScreenBlocks(s) \cup ScreenBlocks(t) \subseteq Block,
         NEW i \in 1 .. 2 * BScr
  PROVE  \/ /\ CopySteps(s, t)[i].word = "BLOCK"
            /\ CopySteps(s, t)[i] = [word |-> "BLOCK", n |-> s * BScr + i \div 2]
            /\ CopySteps(s, t)[i].n = s * BScr + i \div 2
            /\ s * BScr + i \div 2 \in ScreenBlocks(s)
         \/ /\ CopySteps(s, t)[i].word = "rename"
            /\ CopySteps(s, t)[i] = [word |-> "rename", n |-> t * BScr + i \div 2 - 1]
            /\ CopySteps(s, t)[i].n = t * BScr + i \div 2 - 1
            /\ t * BScr + i \div 2 - 1 \in ScreenBlocks(t)
            /\ i = 2 * (i \div 2)
<1>1. CASE i % 2 = 1
  <2>1. i \div 2 \in 0 .. BScr - 1
    BY <1>1, BuffersAssumption
  <2>2. s * BScr + i \div 2 \in ScreenBlocks(s)
    BY <2>1, Screens, BuffersAssumption DEF ScreenBlocks
  <2> QED
    BY <1>1, <2>2 DEF CopySteps
<1>2. CASE i % 2 # 1
  <2>1. i \div 2 \in 1 .. BScr /\ i = 2 * (i \div 2)
    BY <1>2, BuffersAssumption
  <2>2. t * BScr + i \div 2 - 1 \in ScreenBlocks(t)
    BY <2>1, Screens, BuffersAssumption DEF ScreenBlocks
  <2> QED
    BY <1>2, <2>1, <2>2 DEF CopySteps
<1> QED
  BY <1>1, <1>2

LEMMA CopyStepIsStep ==
  ASSUME NEW s \in Nat, NEW t \in Nat,
         ScreenBlocks(s) \cup ScreenBlocks(t) \subseteq Block,
         NEW i \in 1 .. 2 * BScr
  PROVE  CopySteps(s, t)[i] \in Step
<1>1. \A n \in Block : [word |-> "BLOCK", n |-> n] \in Step
                     /\ [word |-> "rename", n |-> n] \in Step
  BY DEF Step
<1>2. \E n \in Block : \/ CopySteps(s, t)[i] = [word |-> "BLOCK", n |-> n]
                      \/ CopySteps(s, t)[i] = [word |-> "rename", n |-> n]
  BY CopyStepsAre
<1> QED
  BY <1>1, <1>2

LEMMA Joined ==
  ASSUME NEW a \in Seq(Step), NEW b \in Seq(Step)
  PROVE  /\ a \o b \in Seq(Step) /\ Len(a \o b) = Len(a) + Len(b)
         /\ \A i \in 1 .. Len(a) + Len(b) :
              (a \o b)[i] = IF i <= Len(a) THEN a[i] ELSE b[i - Len(a)]
OBVIOUS

LEMMA FlushStepsAre ==
  /\ FlushSteps \in Seq(Step) /\ Len(FlushSteps) = NBuf
  /\ \A i \in 1 .. NBuf : FlushSteps[i] = [word |-> "BUFFER"]
BY BuffersAssumption DEF FlushSteps, Step

\* What COPY starts: its own steps, then those of FLUSH.
LEMMA CopyTodo ==
  ASSUME NEW from \in Nat, NEW to \in Nat, Copy(from, to)
  PROVE  /\ todo' \in Seq(Step) /\ Len(todo') = 2 * BScr + NBuf
         /\ \A i \in 1 .. Len(todo') :
              todo'[i] = IF i <= 2 * BScr THEN CopySteps(from, to)[i]
                                          ELSE FlushSteps[i - 2 * BScr]
<1> DEFINE steps == CopySteps(from, to)
           all == steps \o FlushSteps
<1>1. steps \in Seq(Step) /\ Len(steps) = 2 * BScr
  <2>1. \A i \in 1 .. 2 * BScr : steps[i] \in Step
    BY CopyStepIsStep DEF Copy
  <2>2. steps = [i \in 1 .. 2 * BScr |-> steps[i]]
    BY DEF CopySteps
  <2> QED
    BY <2>1, <2>2, BuffersAssumption
<1>2. all \in Seq(Step) /\ Len(all) = Len(steps) + Len(FlushSteps)
      /\ \A i \in 1 .. Len(steps) + Len(FlushSteps) :
           all[i] = IF i <= Len(steps) THEN steps[i] ELSE FlushSteps[i - Len(steps)]
  <2> HIDE DEF steps
  <2> QED
    BY <1>1, FlushStepsAre, Joined
<1>3. todo' = all
  BY DEF Copy
<1> HIDE DEF all, steps
<1>4. todo' \in Seq(Step) /\ Len(todo') = 2 * BScr + NBuf
      /\ \A i \in 1 .. Len(todo') :
           todo'[i] = IF i <= 2 * BScr THEN steps[i] ELSE FlushSteps[i - 2 * BScr]
  BY <1>1, <1>2, <1>3, FlushStepsAre
<1> QED
  BY <1>4 DEF steps

LEMMA NextTypes == TypeOK /\ [Next]_vars => TypeOK'
<1> SUFFICES ASSUME TypeOK, [Next]_vars PROVE TypeOK'
  OBVIOUS
<1>1. CASE UNCHANGED vars
  BY <1>1 DEF vars, TypeOK
<1>2. CASE Flush
  BY <1>2, FlushStepsAre DEF TypeOK, Flush
<1>3. CASE \E from, to \in 0 .. NBlock : Copy(from, to)
  <2>1. PICK from \in Nat, to \in Nat : Copy(from, to)
    BY <1>3
  <2> QED
    BY <2>1, CopyTodo DEF TypeOK, Copy
<1> QED
  BY <1>1, <1>2, <1>3, BlockWordTypes, UpdateTypes, EmptyBuffersTypes, FlushStepTypes,
     CopyBlockTypes, CopyRenameTypes DEF Next

\* The pointers of the ring, the headers and the loops of FLUSH and COPY keep
\* their types: USE and PREV stay in the ring, whatever fails and whatever the
\* programs do.
THEOREM BuffersTypeCorrect == Spec => []TypeOK
  BY InitTypes, NextTypes, PTL DEF Spec

-----------------------------------------------------------------------------
(* FLUSH: how many buffers it leaves, also without any of the above.       *)

\* A loop ends with as many BUFFERs as there are buffers.
EndsInFlush ==
  \A i \in 1 .. Len(todo) : todo[i].word = "BUFFER" <=> i + NBuf > Len(todo)

\* How many buffers are taken before b by a BUFFER that begins at u and steps over
\* none.
Far(u, b) == IF b >= u THEN b - u ELSE b + NBuf - u
Ahead(b) == Far(use, b)

\* Once FLUSH has taken a buffer, the one at PREV is written, BUFFER will not
\* come to it at its next step, and all that is to be written, but one buffer,
\* is among those that are still to be taken.
FlushGoesRound ==
  todo # <<>> /\ Len(todo) < NBuf =>
    /\ ~header[prev].upd
    /\ NBuf >= 3 => use # prev
    /\ NBuf >= 4 => prev # NextBuf(use)
    /\ \E s \in Buf : \A b \in Buf : header[b].upd => b = s \/ Ahead(b) < Len(todo)

FInv == TypeOK /\ EndsInFlush /\ FlushGoesRound

LEMMA NextBufIs ==
  ASSUME NEW b \in Buf
  PROVE  NextBuf(b) = IF b + 1 = NBuf THEN 0 ELSE b + 1
<1>1. b \in Nat /\ b + 1 <= NBuf /\ NBuf \in Nat \ {0}
  BY BuffersAssumption DEF Buf
<1>2. CASE b + 1 = NBuf
  BY <1>1, <1>2 DEF NextBuf
<1>3. CASE b + 1 < NBuf
  BY <1>1, <1>3 DEF NextBuf
<1> QED
  BY <1>1, <1>2, <1>3

\* The ring, as USE goes from u to w past PREV at p.
LEMMA Ring ==
  ASSUME NEW u \in Buf, NEW p \in Buf, NEW w \in Buf,
         w = IF NextBuf(u) = p THEN NextBuf(NextBuf(u)) ELSE NextBuf(u)
  PROVE  /\ NBuf >= 3 => w # u
         /\ NBuf >= 4 => NextBuf(w) # u
<1>1. /\ u \in Nat /\ p \in Nat /\ w \in Nat /\ NBuf \in Nat /\ NBuf >= 2
      /\ u < NBuf /\ p < NBuf /\ w < NBuf
  BY BuffersAssumption DEF Buf
<1>2. /\ NextBuf(u) = IF u + 1 = NBuf THEN 0 ELSE u + 1
      /\ NextBuf(p) = IF p + 1 = NBuf THEN 0 ELSE p + 1
      /\ NextBuf(w) = IF w + 1 = NBuf THEN 0 ELSE w + 1
  BY NextBufIs
<1>3. CASE NextBuf(u) = p
  BY <1>1, <1>2, <1>3
<1>4. CASE NextBuf(u) # p
  BY <1>1, <1>2, <1>4
<1> QED
  BY <1>3, <1>4

LEMMA RingNear ==
  ASSUME NEW u \in Buf, NEW p \in Buf, NEW w \in Buf, NEW b \in Buf, b # u,
         w = IF NextBuf(u) = p THEN NextBuf(NextBuf(u)) ELSE NextBuf(u)
  PROVE  /\ Far(u, b) \in Nat /\ Far(w, b) \in Nat
         /\ NextBuf(u) # p => Far(w, b) = Far(u, b) - 1
         /\ b # p => Far(w, b) < NBuf - 1
<1>1. /\ u \in Nat /\ p \in Nat /\ w \in Nat /\ b \in Nat /\ NBuf \in Nat /\ NBuf >= 2
      /\ u < NBuf /\ p < NBuf /\ w < NBuf /\ b < NBuf
  BY BuffersAssumption DEF Buf
<1>2. /\ NextBuf(u) = IF u + 1 = NBuf THEN 0 ELSE u + 1
      /\ NextBuf(p) = IF p + 1 = NBuf THEN 0 ELSE p + 1
  BY NextBufIs
<1>3. Far(u, b) \in Nat /\ Far(w, b) \in Nat
  BY <1>1 DEF Far
<1>4. ASSUME NextBuf(u) # p
      PROVE  Far(w, b) = Far(u, b) - 1 /\ Far(w, b) < NBuf - 1
  BY <1>1, <1>2, <1>4 DEF Far
<1>5. ASSUME NextBuf(u) = p, b # p
      PROVE  Far(w, b) < NBuf - 1
  BY <1>1, <1>2, <1>5 DEF Far
<1> QED
  BY <1>3, <1>4, <1>5

\* A loop that goes on ends as it did.
LEMMA EndsTail ==
  ASSUME TypeOK, EndsInFlush, todo # <<>>, todo' = Tail(todo)
  PROVE  EndsInFlush' /\ Len(todo') = Len(todo) - 1
<1>1. todo \in Seq(Step)
  BY DEF TypeOK
<1>2. Len(todo') = Len(todo) - 1 /\ Len(todo) \in Nat
  BY <1>1
<1>3. \A i \in 1 .. Len(todo') : i + 1 \in 1 .. Len(todo) /\ todo'[i] = todo[i + 1]
  BY <1>1, Tails
<1> QED
  BY <1>2, <1>3, BuffersAssumption DEF EndsInFlush

\* The head of a loop says how much of it is left.
LEMMA HeadSays ==
  ASSUME TypeOK, EndsInFlush, todo # <<>>
  PROVE  /\ Len(todo) \in Nat \ {0}
         /\ Head(todo).word = "BUFFER" <=> Len(todo) <= NBuf
<1>1. todo \in Seq(Step)
  BY DEF TypeOK
<1>2. Head(todo) = todo[1] /\ 1 \in 1 .. Len(todo) /\ Len(todo) \in Nat \ {0}
  BY <1>1, Tails
<1> QED
  BY <1>2, BuffersAssumption DEF EndsInFlush

\* A step of FLUSH that takes a buffer, where it was and where it leaves off.
LEMMA FlushTakes ==
  ASSUME TypeOK, EndsInFlush, FlushGoesRound, todo # <<>>, Len(todo) <= NBuf,
         BufferTaken(Clean(Flushed)), todo' = Tail(todo)
  PROVE  FlushGoesRound' /\ (Len(todo) = 1 => \A b, c \in Unsaved(header') : b = c)
<1> DEFINE k == Len(todo)
           h == header'
<1>1. /\ use \in Buf /\ prev \in Buf /\ k \in Nat \ {0} /\ NBuf \in Nat /\ NBuf >= 2
      /\ \A b \in Buf : b \in Nat /\ b < NBuf
      /\ \A b \in Nat : b < NBuf => b \in Buf
  BY HeadSays, BuffersAssumption DEF TypeOK, Buf
<1>2. Len(todo') = k - 1
  BY EndsTail
<1>3. /\ ~h[use].upd
      /\ \A b \in Buf : b # use => h[b] = header[b]
  BY NumberTypes, TakenHeaders DEF Clean
<1>4. prev' = use /\ use' = UseAfter(use) /\ use' \in Buf
  BY <1>1, UseAfterType DEF BufferTaken
<1>5. use' = IF NextBuf(use) = prev THEN NextBuf(NextBuf(use)) ELSE NextBuf(use)
  BY <1>4 DEF UseAfter
<1>6. (NBuf >= 3 => use' # use) /\ (NBuf >= 4 => NextBuf(use') # use)
  BY <1>1, <1>4, <1>5, Ring
<1>7. ASSUME NEW b \in Buf, b # use
      PROVE  /\ Ahead(b) \in Nat /\ Ahead(b)' \in Nat
             /\ NextBuf(use) # prev => Ahead(b)' = Ahead(b) - 1
             /\ b # prev => Ahead(b)' < NBuf - 1
  BY <1>1, <1>4, <1>5, <1>7, RingNear DEF Ahead
<1>8. k < NBuf /\ NBuf >= 4 => NextBuf(use) # prev
  BY DEF FlushGoesRound
<1>9. k <= NBuf
  OBVIOUS
<1> HIDE DEF h
<1>10. \E s \in Buf : \A b \in Buf : h[b].upd => b = s \/ Ahead(b)' < k - 1
  <2>1. CASE k = NBuf
    BY <1>1, <1>3, <1>7, <2>1
  <2>2. CASE k < NBuf /\ NBuf = 2
    <3>1. \A b, c \in Buf : b # use /\ c # use => b = c
      BY <1>1, <2>2
    <3> QED
      BY <1>1, <1>3, <3>1
  <2>3. CASE k < NBuf /\ NBuf = 3
    <3>1. use # prev /\ ~header[prev].upd
      BY <2>3 DEF FlushGoesRound
    <3>2. \A b, c \in Buf : b \notin {use, prev} /\ c \notin {use, prev} => b = c
      BY <1>1, <2>3, <3>1
    <3>3. \A b \in Buf : h[b].upd => b \notin {use, prev}
      BY <1>1, <1>3, <3>1
    <3> QED
      BY <1>1, <3>2, <3>3
  <2>4. CASE k < NBuf /\ NBuf >= 4
    <3>1. PICK s \in Buf : \A b \in Buf : header[b].upd => b = s \/ Ahead(b) < k
      BY <2>4 DEF FlushGoesRound
    <3>2. \A b \in Buf : b # use => Ahead(b) \in Nat /\ Ahead(b)' = Ahead(b) - 1
      BY <1>7, <1>8, <2>4
    <3>3. \A b \in Buf : h[b].upd => b = s \/ Ahead(b)' < k - 1
      BY <1>1, <1>3, <3>1, <3>2
    <3> QED
      BY <3>3
  <2>5. k = NBuf \/ (k < NBuf /\ (NBuf = 2 \/ NBuf = 3 \/ NBuf >= 4))
    BY <1>1, <1>9
  <2> QED
    BY <2>1, <2>2, <2>3, <2>4, <2>5
<1>11. FlushGoesRound'
  BY <1>2, <1>3, <1>4, <1>6, <1>10 DEF FlushGoesRound, h
<1>12. ASSUME k = 1
       PROVE  \A b, c \in Unsaved(header') : b = c
  <2>1. \A b \in Buf : h[b].upd => b # use /\ Ahead(b)' \in Nat
    BY <1>3, <1>7
  <2>2. \E s \in Buf : \A b \in Buf : h[b].upd => b = s
    BY <1>10, <1>12, <2>1
  <2> QED
    BY <2>2 DEF Unsaved, h
<1> QED
  BY <1>11, <1>12

LEMMA FlushStepGoesRound ==
  ASSUME FInv, FlushStep
  PROVE  EndsInFlush' /\ FlushGoesRound'
<1>1. CASE BufferQuits
  BY <1>1 DEF BufferQuits, Quits, EndsInFlush, FlushGoesRound
<1>2. CASE BufferTaken(Clean(Flushed)) /\ todo' = Tail(todo)
  BY <1>2, HeadSays, EndsTail, FlushTakes DEF FInv, FlushStep
<1> QED
  BY <1>1, <1>2 DEF FlushStep

\* COPY has not come to FLUSH.
LEMMA CopyGoesOn ==
  ASSUME FInv, todo # <<>>, Head(todo).word # "BUFFER", todo' = Tail(todo)
  PROVE  EndsInFlush' /\ FlushGoesRound'
<1>1. Len(todo) \in Nat /\ Len(todo) > NBuf
  BY HeadSays, BuffersAssumption DEF FInv
<1> QED
  BY <1>1, EndsTail, BuffersAssumption DEF FInv, FlushGoesRound

LEMMA NextFInv == FInv /\ [Next]_vars => FInv'
<1> SUFFICES ASSUME FInv, [Next]_vars PROVE EndsInFlush' /\ FlushGoesRound'
  BY NextTypes DEF FInv
<1>1. CASE UNCHANGED vars
  BY <1>1 DEF vars, FInv, EndsInFlush, FlushGoesRound, Ahead, NextBuf
<1>2. CASE todo' = <<>>
  BY <1>2 DEF EndsInFlush, FlushGoesRound
<1>3. CASE Flush
  BY <1>3, FlushStepsAre, BuffersAssumption DEF Flush, EndsInFlush, FlushGoesRound
<1>4. CASE FlushStep
  BY <1>4, FlushStepGoesRound
<1>5. CASE \E from, to \in 0 .. NBlock : Copy(from, to)
  <2>1. PICK from \in Nat, to \in Nat : Copy(from, to)
    BY <1>5
  <2>2. /\ Len(todo') = 2 * BScr + NBuf
        /\ \A i \in 1 .. Len(todo') :
             todo'[i] = IF i <= 2 * BScr THEN CopySteps(from, to)[i]
                                         ELSE FlushSteps[i - 2 * BScr]
    BY <2>1, CopyTodo
  <2>3. \A i \in 1 .. 2 * BScr : CopySteps(from, to)[i].word # "BUFFER"
    BY <2>1, CopyStepsAre DEF Copy
  <2> QED
    BY <2>2, <2>3, FlushStepsAre, BuffersAssumption DEF EndsInFlush, FlushGoesRound
<1>6. CASE CopyBlock
  BY <1>2, <1>6, CopyGoesOn DEF CopyBlock, BlockQuits, BufferQuits, Quits
<1>7. CASE CopyRename
  BY <1>7, CopyGoesOn DEF CopyRename
<1>8. CASE (\E n \in Block : BlockWord(n)) \/ (\E v \in Val : Update(v)) \/ EmptyBuffers
  BY <1>2, <1>8 DEF BlockWord, BlockQuits, BufferQuits, Quits, Update, EmptyBuffers
<1> QED
  BY <1>1, <1>3, <1>4, <1>5, <1>6, <1>7, <1>8 DEF Next

LEMMA FlushEnds == FInv /\ [Next]_vars => [FlushDone => \A b, c \in Unsaved(header') : b = c]_vars
<1> SUFFICES ASSUME FInv, Next, FlushDone PROVE \A b, c \in Unsaved(header') : b = c
  OBVIOUS
<1>1. todo # <<>> /\ Len(todo) = 1 /\ Head(todo).word = "BUFFER" /\ ~header'[use].upd
  BY DEF FlushDone
<1>2. FlushStep
  BY <1>1 DEF Next, BlockWord, Update, EmptyBuffers, Flush, Copy, CopyBlock, CopyRename
<1>3. ~BufferQuits
  BY <1>1 DEF BufferQuits
<1> QED
  BY <1>1, <1>2, <1>3, FlushTakes, BuffersAssumption DEF FInv, FlushStep

\* FLUSH that ran to its end leaves one buffer unwritten at most, of any number
\* of buffers, wherever USE and PREV were when it began: BUFFER steps over one
\* buffer, and only in its first step if there are four or more.
THEOREM FlushWritesAllButOne == Spec => FlushLeavesOne
<1>1. Init => FInv
  BY InitTypes DEF Init, FInv, EndsInFlush, FlushGoesRound
<1>2. FInv /\ [Next]_vars => FInv'
  BY NextFInv
<1>3. FInv /\ [Next]_vars => [FlushDone => \A b, c \in Unsaved(header') : b = c]_vars
  BY FlushEnds
<1> QED
  BY <1>1, <1>2, <1>3, PTL DEF Spec, FlushLeavesOne

-----------------------------------------------------------------------------
(* A buffer is taken.                                                      *)

\* The block that BUFFER was asked for is in no buffer, or is none of the disc.
LEMMA TakenCoherent ==
  ASSUME Inv, Gentle, NEW n \in Number, BufferTaken(Clean(n)),
         n \in Block => ~Resident(n) /\ data' = [data EXCEPT ![use] = disc[n]],
         n \notin Block => data' = data
  PROVE  Coherent'
<1>0. use \in Buf /\ header \in [Buf -> Header] /\ data \in [Buf -> Val]
      /\ disc \in [Block -> Val]
  BY DEF Inv, TypeOK
<1>1. OneBuffer'
  BY <1>0, TakenHeaders DEF Inv, Coherent, OneBuffer, Resident, Clean
<1>2. CleanMatchesDisc'
  <2> SUFFICES ASSUME NEW b \in Buf, header'[b].n \in Block, ~header'[b].upd
               PROVE  data'[b] = disc'[header'[b].n]
    BY DEF CleanMatchesDisc
  <2>1. CASE b = use
    <3>1. header'[b].n = n /\ n \in Block
      BY <2>1, TakenHeaders DEF Inv, Clean
    <3>2. data'[b] = disc[n] /\ n # header[use].n
      BY <1>0, <2>1, <3>1 DEF Resident
    <3>3. disc'[n] = disc[n]
      BY <1>0, <3>1, <3>2 DEF BufferTaken
    <3> QED
      BY <3>1, <3>2, <3>3
  <2>2. CASE b # use
    <3>1. header'[b] = header[b] /\ data'[b] = data[b]
      BY <1>0, <2>2, TakenHeaders DEF Inv
    <3>2. data[b] = disc[header[b].n]
      BY <3>1 DEF Inv, Coherent, CleanMatchesDisc
    <3>3. header[use].upd => header[use].n # header[b].n
      BY <1>0, <2>2, <3>1 DEF Inv, Coherent, OneBuffer
    <3>4. disc'[header[b].n] = disc[header[b].n]
      BY <1>0, <3>1, <3>3 DEF BufferTaken
    <3> QED
      BY <3>1, <3>2, <3>4
  <2> QED
    BY <2>1, <2>2
<1>3. ChangedIsBlock'
  BY TakenHeaders DEF Inv, Coherent, ChangedIsBlock, Clean
<1> QED
  BY <1>1, <1>2, <1>3 DEF Coherent

\* The buffer that BLOCK searches for is the only one with the block.
LEMMA FoundBuffer ==
  ASSUME Inv, NEW n \in Block, NEW b \in Buf, header[b].n = n
  PROVE  Found(n) = b
<1>0. prev \in Buf
  BY DEF Inv, TypeOK
<1>1. Steps(b) <= Steps(b)
  BY <1>0, BuffersAssumption DEF Steps, Buf
<1>2. \A c \in Buf : header[c].n = n => c = b
  BY DEF Inv, Coherent, OneBuffer
<1> QED
  BY <1>1, <1>2 DEF Found

LEMMA FoundIsBuffer ==
  ASSUME Inv, NEW n \in Block, Resident(n)
  PROVE  Found(n) \in Buf /\ header[Found(n)].n = n
BY FoundBuffer DEF Resident

\* BLOCK, for any block, but for what is left to do.
LEMMA BlockFoundStep ==
  ASSUME Inv, NEW n \in Block, BlockFound(n), todo' \in Seq(Step)
  PROVE  TypeOK' /\ Coherent'
<1>1. TypeOK'
  BY BlockFoundTypes DEF Inv
<1>2. Coherent'
  BY DEF Inv, Coherent, OneBuffer, CleanMatchesDisc, ChangedIsBlock, BlockFound
<1> QED
  BY <1>1, <1>2

LEMMA BlockReadStep ==
  ASSUME Inv, Gentle, NEW n \in Block, BlockRead(n), todo' \in Seq(Step)
  PROVE  TypeOK' /\ Coherent'
<1>0. n \in Number /\ BufferTaken(Clean(n))
  BY Numbers DEF BlockRead
<1>1. TypeOK'
  BY BlockReadTypes DEF Inv
<1>2. Coherent'
  BY <1>0, TakenCoherent DEF BlockRead
<1> QED
  BY <1>1, <1>2

\* Whatever quits leaves the buffers and the disc as they are.
LEMMA QuitStep ==
  ASSUME Inv, BufferQuits
  PROVE  Inv'
<1>1. TypeOK'
  BY QuitTypes DEF Inv
<1>2. Coherent'
  BY DEF Inv, Coherent, OneBuffer, CleanMatchesDisc, ChangedIsBlock, BufferQuits
<1>3. CopyAhead'
  BY DEF CopyAhead, BufferQuits, Quits
<1> QED
  BY <1>1, <1>2, <1>3 DEF Inv

LEMMA BlockQuitsStep ==
  ASSUME Inv, Gentle, NEW n \in Block, BlockQuits(n)
  PROVE  Inv'
BY QuitStep DEF Gentle, BlockQuits

LEMMA BlockWordStep ==
  ASSUME Inv, Gentle, NEW n \in Block, BlockWord(n)
  PROVE  Inv'
<1>1. CASE BlockQuits(n)
  BY <1>1, BlockQuitsStep
<1>2. CASE (BlockFound(n) \/ BlockRead(n)) /\ UNCHANGED todo
  <2>1. todo' \in Seq(Step) /\ todo' = <<>>
    BY <1>2 DEF Inv, TypeOK, BlockWord
  <2>2. TypeOK' /\ Coherent'
    BY <1>2, <2>1, BlockFoundStep, BlockReadStep
  <2>3. CopyAhead'
    BY <2>1 DEF CopyAhead
  <2> QED
    BY <2>2, <2>3 DEF Inv
<1> QED
  BY <1>1, <1>2 DEF BlockWord

-----------------------------------------------------------------------------
(* The words of the programs.                                              *)

LEMMA UpdateStep ==
  ASSUME Inv, NEW v \in Val, Update(v)
  PROVE  Inv'
<1>0. prev \in Buf /\ header \in [Buf -> Header] /\ data \in [Buf -> Val]
  BY DEF Inv, TypeOK
<1>1. header' \in [Buf -> Header] /\ \A b \in Buf : header'[b].n = header[b].n
  BY <1>0 DEF Update, Header
<1>2. header'[prev].upd /\ \A b \in Buf : b # prev => header'[b] = header[b]
  BY <1>0 DEF Update, Header
<1>3. TypeOK'
  BY UpdateTypes DEF Inv
<1>4. OneBuffer'
  BY <1>1 DEF Inv, Coherent, OneBuffer
<1>5. CleanMatchesDisc'
  BY <1>0, <1>2 DEF Inv, Coherent, CleanMatchesDisc, Update
<1>6. ChangedIsBlock'
  BY <1>1, <1>2 DEF Inv, Coherent, ChangedIsBlock, Update
<1>7. CopyAhead'
  BY DEF CopyAhead, Update
<1> QED
  BY <1>3, <1>4, <1>5, <1>6, <1>7 DEF Inv, Coherent

LEMMA EmptyBuffersStep ==
  ASSUME Inv, Gentle, EmptyBuffers
  PROVE  Inv'
<1>1. \A b \in Buf : header'[b].n \notin Block /\ ~header'[b].upd
  BY Numbers DEF EmptyBuffers, Empty
<1>2. TypeOK'
  BY EmptyBuffersTypes DEF Inv
<1>3. Coherent'
  BY <1>1 DEF Coherent, OneBuffer, CleanMatchesDisc, ChangedIsBlock
<1>4. CopyAhead'
  BY DEF CopyAhead, EmptyBuffers
<1> QED
  BY <1>2, <1>3, <1>4 DEF Inv

-----------------------------------------------------------------------------
(* The steps of FLUSH and COPY.                                            *)

\* CopyAhead, of what is left when one step was taken: no buffer has got a
\* number that another step of COPY gives.
LEMMA CopyAheadTail ==
  ASSUME Inv, todo # <<>>, todo' = Tail(todo),
         \A i \in 2 .. Len(todo) : todo[i].word = "rename" =>
           \A b \in Buf : header'[b].n # todo[i].n
  PROVE  CopyAhead'
<1>0. todo \in Seq(Step)
  BY DEF Inv, TypeOK
<1> SUFFICES ASSUME NEW i \in 1 .. Len(todo'), todo'[i].word = "rename"
             PROVE  /\ \A b \in Buf : header'[b].n # todo'[i].n
                    /\ \A j \in 1 .. Len(todo') :
                         j # i /\ Numbered(todo'[j]) => todo'[j].n # todo'[i].n
  BY DEF CopyAhead, Numbered, Resident
<1>1. i + 1 \in 2 .. Len(todo) /\ todo'[i] = todo[i + 1]
  BY <1>0, Tails
<1>2. ASSUME NEW j \in 1 .. Len(todo'), j # i, Numbered(todo'[j])
      PROVE  todo'[j].n # todo'[i].n
  <2>1. j + 1 \in 1 .. Len(todo) /\ todo'[j] = todo[j + 1] /\ j + 1 # i + 1
    BY <1>0, <1>2, Tails
  <2> QED
    BY <1>1, <1>2, <2>1 DEF Inv, CopyAhead
<1> QED
  BY <1>1, <1>2

LEMMA FlushStepStep ==
  ASSUME Inv, Gentle, FlushStep
  PROVE  Inv'
<1>0. todo \in Seq(Step) /\ todo # <<>>
  BY DEF Inv, TypeOK, FlushStep
<1>1. CASE BufferQuits
  BY <1>1, QuitStep
<1>2. CASE BufferTaken(Clean(Flushed)) /\ todo' = Tail(todo) /\ data' = data
  <2>1. TypeOK'
    BY FlushStepTypes DEF Inv
  <2>2. Coherent'
    BY <1>2, Numbers, TakenCoherent
  <2>3. ASSUME NEW i \in 2 .. Len(todo), todo[i].word = "rename"
        PROVE  \A b \in Buf : header'[b].n # todo[i].n
    <3>1. todo[i].n \in Block /\ ~Resident(todo[i].n)
      BY <1>0, <2>3 DEF Inv, CopyAhead, Step
    <3> QED
      BY <1>2, <3>1, Numbers, TakenHeaders DEF Inv, Resident, Clean
  <2>4. CopyAhead'
    BY <1>0, <1>2, <2>3, CopyAheadTail
  <2> QED
    BY <2>1, <2>2, <2>4 DEF Inv
<1> QED
  BY <1>1, <1>2 DEF FlushStep

LEMMA CopyBlockStep ==
  ASSUME Inv, Gentle, CopyBlock
  PROVE  Inv'
<1> DEFINE n == Head(todo).n
<1>0. todo \in Seq(Step) /\ todo # <<>> /\ n = todo[1].n /\ n \in Block
  BY Tails DEF Inv, TypeOK, CopyBlock, Step
<1>1. CASE BlockQuits(n)
  BY <1>0, <1>1, BlockQuitsStep
<1>2. CASE (BlockFound(n) \/ BlockRead(n)) /\ todo' = Tail(todo)
  <2>1. todo' \in Seq(Step)
    BY <1>0, <1>2, Tails
  <2>2. TypeOK' /\ Coherent'
    BY <1>0, <1>2, <2>1, BlockFoundStep, BlockReadStep
  <2>3. ASSUME NEW i \in 2 .. Len(todo), todo[i].word = "rename"
        PROVE  \A b \in Buf : header'[b].n # todo[i].n
    <3>1. i \in 1 .. Len(todo) /\ 1 \in 1 .. Len(todo) /\ Numbered(todo[1])
      BY <1>0, Tails DEF Numbered, CopyBlock
    <3>2. ~Resident(todo[i].n) /\ n # todo[i].n
      BY <1>0, <2>3, <3>1 DEF Inv, CopyAhead
    <3>3. n \in Number
      BY <1>0, Numbers
    <3> QED
      BY <1>2, <3>2, <3>3, TakenHeaders DEF Inv, Resident, Clean, BlockFound, BlockRead
  <2>4. CopyAhead'
    BY <1>0, <1>2, <2>3, CopyAheadTail
  <2> QED
    BY <2>2, <2>4 DEF Inv
<1> QED
  BY <1>1, <1>2 DEF CopyBlock

LEMMA CopyRenameStep ==
  ASSUME Inv, Gentle, CopyRename
  PROVE  Inv'
<1> DEFINE n == Head(todo).n
<1>0. todo \in Seq(Step) /\ todo # <<>> /\ n = todo[1].n /\ n \in Block
  BY Tails DEF Inv, TypeOK, CopyRename, Step
<1>1. prev \in Buf /\ header \in [Buf -> Header] /\ n \in Number
  BY <1>0, Numbers DEF Inv, TypeOK
<1>2. header' \in [Buf -> Header] /\ header'[prev] = Changed(n)
      /\ \A b \in Buf : b # prev => header'[b] = header[b]
  BY <1>1 DEF CopyRename, Changed, Header
<1>3. ~Resident(n)
  BY <1>0, Tails DEF Inv, CopyAhead, CopyRename
<1>4. TypeOK'
  BY CopyRenameTypes DEF Inv
<1>5. OneBuffer'
  BY <1>1, <1>2, <1>3 DEF Inv, Coherent, OneBuffer, Resident, Changed
<1>6. CleanMatchesDisc'
  BY <1>1, <1>2 DEF Inv, Coherent, CleanMatchesDisc, CopyRename, Changed
<1>7. ChangedIsBlock'
  BY <1>0, <1>1, <1>2 DEF Inv, Coherent, ChangedIsBlock, Changed
<1>8. CopyAhead'
  <2>1. ASSUME NEW i \in 2 .. Len(todo), todo[i].word = "rename"
        PROVE  \A b \in Buf : header'[b].n # todo[i].n
    <3>1. i \in 1 .. Len(todo) /\ 1 \in 1 .. Len(todo) /\ Numbered(todo[1])
      BY <1>0, Tails DEF Numbered, CopyRename
    <3>2. ~Resident(todo[i].n) /\ n # todo[i].n
      BY <1>0, <2>1, <3>1 DEF Inv, CopyAhead
    <3> QED
      BY <1>2, <3>2 DEF Resident, Changed
  <2> QED
    BY <1>0, <2>1, CopyAheadTail DEF CopyRename
<1> QED
  BY <1>4, <1>5, <1>6, <1>7, <1>8 DEF Inv, Coherent

LEMMA FlushStart ==
  ASSUME Inv, Flush
  PROVE  Inv'
<1>1. TypeOK'
  BY FlushStepsAre DEF Inv, TypeOK, Flush
<1>2. Coherent'
  BY DEF Inv, Coherent, OneBuffer, CleanMatchesDisc, ChangedIsBlock, Flush
<1>3. CopyAhead'
  BY FlushStepsAre DEF CopyAhead, Flush
<1> QED
  BY <1>1, <1>2, <1>3 DEF Inv

LEMMA CopyStart ==
  ASSUME Inv, Gentle, NEW from \in Nat, NEW to \in Nat, Copy(from, to)
  PROVE  Inv'
<1> DEFINE steps == CopySteps(from, to)
<1>0. /\ from # to /\ ScreenBlocks(from) \cup ScreenBlocks(to) \subseteq Block
      /\ \A b \in Buf : header[b].n \notin ScreenBlocks(to)
  BY DEF Copy, Gentle
<1>2. todo' \in Seq(Step) /\ Len(todo') = 2 * BScr + NBuf
      /\ \A i \in 1 .. Len(todo') :
           todo'[i] = IF i <= 2 * BScr THEN steps[i] ELSE FlushSteps[i - 2 * BScr]
  BY CopyTodo
<1>3. TypeOK'
  BY <1>2 DEF Inv, TypeOK, Copy
<1>4. Coherent'
  BY DEF Inv, Coherent, OneBuffer, CleanMatchesDisc, ChangedIsBlock, Copy
<1>5. \A i \in 1 .. Len(todo') : Numbered(todo'[i]) => i \in 1 .. 2 * BScr /\ todo'[i] = steps[i]
  BY <1>2, FlushStepsAre, BuffersAssumption DEF Numbered
<1>6. CopyAhead'
  <2> SUFFICES ASSUME NEW i \in 1 .. Len(todo'), todo'[i].word = "rename"
               PROVE  /\ \A b \in Buf : header'[b].n # todo'[i].n
                      /\ \A j \in 1 .. Len(todo') :
                           j # i /\ Numbered(todo'[j]) => todo'[j].n # todo'[i].n
    BY DEF CopyAhead, Resident, Numbered
  <2>1. i \in 1 .. 2 * BScr /\ steps[i].word = "rename" /\ todo'[i] = steps[i]
    BY <1>5 DEF Numbered
  <2>2. /\ steps[i].n = to * BScr + i \div 2 - 1
        /\ steps[i].n \in ScreenBlocks(to)
        /\ i = 2 * (i \div 2)
    BY <1>0, <2>1, CopyStepsAre
  <2>3. \A b \in Buf : header'[b].n # todo'[i].n
    BY <1>0, <2>1, <2>2 DEF Copy
  <2>4. ASSUME NEW j \in 1 .. Len(todo'), j # i, Numbered(todo'[j])
        PROVE  todo'[j].n # todo'[i].n
    <3>1. j \in 1 .. 2 * BScr /\ todo'[j] = steps[j]
      BY <1>5, <2>4
    <3>2. CASE steps[j].n \in ScreenBlocks(from)
      BY <1>0, <2>1, <2>2, <3>1, <3>2, ScreensApart
    <3>3. CASE steps[j].n = to * BScr + j \div 2 - 1 /\ j = 2 * (j \div 2)
      <4>1. to * BScr \in Nat /\ i \div 2 # j \div 2
        BY <2>2, <2>4, <3>3, Screens
      <4> QED
        BY <2>1, <2>2, <3>1, <3>3, <4>1, BuffersAssumption
    <3> QED
      BY <1>0, <3>1, <3>2, <3>3, CopyStepsAre
  <2> QED
    BY <2>3, <2>4
<1> QED
  BY <1>3, <1>4, <1>6 DEF Inv

-----------------------------------------------------------------------------
(* The theorems.                                                           *)

LEMMA NextInv ==
  ASSUME Inv, Gentle, [Next]_vars
  PROVE  Inv'
<1>1. CASE UNCHANGED vars
  BY <1>1 DEF vars, Inv, TypeOK, Coherent, OneBuffer, CleanMatchesDisc,
    ChangedIsBlock, CopyAhead, Resident
<1>2. CASE \E n \in Block : BlockWord(n)
  BY <1>2, BlockWordStep
<1>3. CASE \E v \in Val : Update(v)
  BY <1>3, UpdateStep
<1>4. CASE EmptyBuffers
  BY <1>4, EmptyBuffersStep
<1>5. CASE Flush
  BY <1>5, FlushStart
<1>6. CASE FlushStep
  BY <1>6, FlushStepStep
<1>7. CASE \E from, to \in 0 .. NBlock : Copy(from, to)
  BY <1>7, CopyStart
<1>8. CASE CopyBlock
  BY <1>8, CopyBlockStep
<1>9. CASE CopyRename
  BY <1>9, CopyRenameStep
<1> QED
  BY <1>1, <1>2, <1>3, <1>4, <1>5, <1>6, <1>7, <1>8, <1>9 DEF Next

LEMMA Invariance == ASSUME Gentle PROVE Spec => []Inv
<1>1. Init => Inv
  BY InitInv
<1>2. Inv /\ [Next]_vars => Inv'
  BY NextInv
<1> QED
  BY <1>1, <1>2, PTL DEF Spec

\* However many buffers there are, a block is in one of them at most, one that
\* was not changed is what the disc holds, and only a block of the disc waits to
\* be written, after any sequence of BLOCK, UPDATE, BUFFER, FLUSH, COPY and
\* EMPTY-BUFFERS, and of writes that failed.
THEOREM BuffersCoherent == ASSUME Gentle PROVE Spec => []Coherent
<1>1. Inv => Coherent
  BY DEF Inv
<1> QED
  BY <1>1, Invariance, PTL

-----------------------------------------------------------------------------
(* The buffers implement the memory of BlockMemory: every step is a step   *)
(* of the memory, or changes nothing of it.                                *)

\* COPY reads blocks that have no change pending, and renames a buffer that
\* has just been given by BLOCK.
CopyClean ==
  /\ \A i \in 1 .. Len(todo) : todo[i].word = "BLOCK" =>
       \A b \in Buf : header[b].n = todo[i].n => ~header[b].upd
  /\ \A i \in 2 .. Len(todo) : todo[i].word = "rename" => todo[i - 1].word = "BLOCK"
  /\ todo # <<>> /\ todo[1].word = "rename" => ~header[prev].upd

RInv == Inv /\ CopyClean

\* What View is, for a resident block and for another.
Views ==
  \A n \in Block :
    /\ \A b \in Buf : header[b].n = n => View(n) = data[b]
    /\ ~Resident(n) => View(n) = disc[n]
    /\ View(n) \in Val

LEMMA ViewIs == Inv => Views
<1> SUFFICES ASSUME Inv, NEW n \in Block
             PROVE  /\ \A b \in Buf : header[b].n = n => View(n) = data[b]
                    /\ ~Resident(n) => View(n) = disc[n]
                    /\ View(n) \in Val
  BY DEF Views
<1>1. ASSUME NEW b \in Buf, header[b].n = n PROVE View(n) = data[b]
  BY <1>1, FoundBuffer DEF View, Resident
<1>2. ~Resident(n) => View(n) = disc[n]
  BY DEF View
<1>3. View(n) \in Val
  BY <1>1, <1>2 DEF Inv, TypeOK, Resident
<1> QED
  BY <1>1, <1>2, <1>3

LEMMA ViewIsNext == Inv' => Views'
BY ViewIs, PTL

-----------------------------------------------------------------------------
(* COPY keeps to blocks that are not changed.                              *)

\* As a step of COPY or FLUSH is taken.
LEMMA CopyCleanTail ==
  ASSUME Inv, CopyClean, todo # <<>>, todo' = Tail(todo),
         \A i \in 2 .. Len(todo) : todo[i].word = "BLOCK" =>
           \A b \in Buf : header'[b].n = todo[i].n => ~header'[b].upd,
         todo[1].word = "BLOCK" => ~header'[prev'].upd
  PROVE  CopyClean'
<1>0. todo \in Seq(Step)
  BY DEF Inv, TypeOK
<1>1. \A i \in 1 .. Len(todo') : i + 1 \in 2 .. Len(todo) /\ todo'[i] = todo[i + 1]
  BY <1>0, Tails
<1>2. \A i \in 1 .. Len(todo') : todo'[i].word = "BLOCK" =>
        \A b \in Buf : header'[b].n = todo'[i].n => ~header'[b].upd
  BY <1>1
<1>3. ASSUME NEW i \in 2 .. Len(todo'), todo'[i].word = "rename"
      PROVE  todo'[i - 1].word = "BLOCK"
  <2>1. i \in 1 .. Len(todo') /\ i - 1 \in 1 .. Len(todo') /\ (i - 1) + 1 = i /\ (i + 1) - 1 = i
    BY <1>0, Tails
  <2>2. todo'[i] = todo[i + 1] /\ todo'[i - 1] = todo[i] /\ i + 1 \in 2 .. Len(todo)
    BY <1>1, <2>1
  <2>3. todo[(i + 1) - 1].word = "BLOCK"
    BY <1>3, <2>2 DEF CopyClean
  <2> QED
    BY <2>1, <2>2, <2>3
<1>4. ASSUME todo' # <<>>, todo'[1].word = "rename"
      PROVE  ~header'[prev'].upd
  <2>1. 1 \in 1 .. Len(todo')
    BY <1>0, <1>4, Tails
  <2>2. 2 \in 2 .. Len(todo) /\ todo'[1] = todo[2]
    BY <1>1, <2>1
  <2>3. todo[2 - 1].word = "BLOCK"
    BY <1>4, <2>2 DEF CopyClean
  <2> QED
    BY <2>3
<1> QED
  BY <1>2, <1>3, <1>4 DEF CopyClean

\* Steps that leave nothing to do.
LEMMA CopyCleanEmpty == ASSUME todo' = <<>> PROVE CopyClean'
BY DEF CopyClean

LEMMA CopyCleanFlushStep ==
  ASSUME RInv, Gentle, FlushStep
  PROVE  CopyClean'
<1>1. CASE BufferQuits
  BY <1>1, CopyCleanEmpty DEF BufferQuits, Quits
<1>2. CASE BufferTaken(Clean(Flushed)) /\ todo' = Tail(todo)
  <2>1. todo # <<>> /\ todo[1].word # "BLOCK"
    BY Tails DEF FlushStep, RInv, Inv, TypeOK
  <2>2. ASSUME NEW i \in 2 .. Len(todo), todo[i].word = "BLOCK",
               NEW b \in Buf, header'[b].n = todo[i].n
        PROVE  ~header'[b].upd
    <3>1. i \in 1 .. Len(todo)
      BY DEF RInv, Inv, TypeOK
    <3> QED
      BY <1>2, <2>2, <3>1, Numbers, TakenHeaders DEF RInv, Inv, CopyClean, Clean
  <2> QED
    BY <1>2, <2>1, <2>2, CopyCleanTail DEF RInv
<1> QED
  BY <1>1, <1>2 DEF FlushStep

LEMMA CopyCleanBlock ==
  ASSUME RInv, Gentle, CopyBlock
  PROVE  CopyClean'
<1> DEFINE n == Head(todo).n
<1>0. todo \in Seq(Step) /\ todo # <<>> /\ n = todo[1].n /\ n \in Block
      /\ todo[1].word = "BLOCK" /\ 1 \in 1 .. Len(todo)
  BY Tails DEF RInv, Inv, TypeOK, CopyBlock, Step
<1>1. CASE BlockQuits(n)
  BY <1>1, CopyCleanEmpty DEF Gentle, BlockQuits, BufferQuits, Quits
<1>2. CASE (BlockFound(n) \/ BlockRead(n)) /\ todo' = Tail(todo)
  <2>1. n \in Number
    BY <1>0, Numbers
  <2>2. ASSUME NEW i \in 2 .. Len(todo), todo[i].word = "BLOCK",
               NEW b \in Buf, header'[b].n = todo[i].n
        PROVE  ~header'[b].upd
    <3>1. i \in 1 .. Len(todo)
      BY <1>0
    <3> QED
      BY <1>2, <2>1, <2>2, <3>1, TakenHeaders
      DEF RInv, Inv, CopyClean, Clean, BlockFound, BlockRead
  <2>3. ~header'[prev'].upd
    <3>1. CASE BlockFound(n)
      BY <1>0, <3>1, FoundIsBuffer DEF RInv, CopyClean, BlockFound
    <3>2. CASE BlockRead(n)
      <4>1. header'[use] = Clean(n)
        BY <2>1, <3>2, TakenHeaders DEF RInv, Inv, BlockRead
      <4>2. prev' = use
        BY <3>2 DEF BlockRead, BufferTaken
      <4> QED
        BY <4>1, <4>2 DEF Clean
    <3> QED
      BY <1>2, <3>1, <3>2
  <2> QED
    BY <1>0, <1>2, <2>2, <2>3, CopyCleanTail DEF RInv
<1> QED
  BY <1>1, <1>2 DEF CopyBlock

LEMMA CopyCleanRename ==
  ASSUME RInv, Gentle, CopyRename
  PROVE  CopyClean'
<1> DEFINE n == Head(todo).n
<1>0. /\ todo \in Seq(Step) /\ todo # <<>> /\ n = todo[1].n
      /\ todo[1].word = "rename" /\ 1 \in 1 .. Len(todo)
      /\ prev \in Buf /\ header \in [Buf -> Header]
  BY Tails DEF RInv, Inv, TypeOK, CopyRename
<1>1. ASSUME NEW i \in 2 .. Len(todo), todo[i].word = "BLOCK",
             NEW b \in Buf, header'[b].n = todo[i].n
      PROVE  ~header'[b].upd
  <2>1. i \in 1 .. Len(todo) /\ i # 1 /\ Numbered(todo[i])
    BY <1>0, <1>1 DEF Numbered
  <2>2. todo[i].n # n
    BY <1>0, <2>1 DEF RInv, Inv, CopyAhead
  <2>3. b # prev /\ header'[b] = header[b]
    BY <1>0, <1>1, <2>2 DEF CopyRename, Changed
  <2> QED
    BY <1>1, <2>1, <2>3 DEF RInv, CopyClean
<1> QED
  BY <1>0, <1>1, CopyCleanTail DEF RInv, CopyRename

LEMMA CopyCleanStart ==
  ASSUME RInv, Gentle, NEW from \in Nat, NEW to \in Nat, Copy(from, to)
  PROVE  CopyClean'
<1> DEFINE steps == CopySteps(from, to)
           all == steps \o FlushSteps
<1>0. /\ ScreenBlocks(from) \cup ScreenBlocks(to) \subseteq Block
      /\ \A b \in Buf : header[b].upd => header[b].n \notin ScreenBlocks(from)
      /\ todo' = all
      /\ header' = header
  BY DEF Copy, Gentle
<1>1. steps \in Seq(Step) /\ Len(steps) = 2 * BScr
  <2>1. \A i \in 1 .. 2 * BScr : steps[i] \in Step
    BY <1>0, CopyStepIsStep
  <2>2. steps = [i \in 1 .. 2 * BScr |-> steps[i]]
    BY DEF CopySteps
  <2> QED
    BY <2>1, <2>2, BuffersAssumption
<1>2. /\ Len(all) = 2 * BScr + NBuf
      /\ \A i \in 1 .. Len(all) :
           /\ i <= 2 * BScr => all[i] = steps[i]
           /\ i > 2 * BScr => all[i].word = "BUFFER"
  <2> HIDE DEF steps
  <2>1. /\ Len(all) = Len(steps) + Len(FlushSteps)
        /\ \A i \in 1 .. Len(steps) + Len(FlushSteps) :
             all[i] = IF i <= Len(steps) THEN steps[i] ELSE FlushSteps[i - Len(steps)]
    BY <1>1, FlushStepsAre, Joined
  <2>2. \A i \in 1 .. 2 * BScr + NBuf :
          i > 2 * BScr => FlushSteps[i - 2 * BScr].word = "BUFFER"
    BY FlushStepsAre, BuffersAssumption
  <2> HIDE DEF all
  <2> QED
    BY <1>1, <2>1, <2>2, FlushStepsAre
<1>3. \A i \in 1 .. 2 * BScr :
        \/ steps[i].word = "BLOCK" /\ steps[i].n \in ScreenBlocks(from)
        \/ steps[i].word = "rename" /\ i % 2 = 0
  <2>1. \A i \in 1 .. 2 * BScr :
          \/ steps[i].word = "BLOCK" /\ steps[i].n = from * BScr + i \div 2
             /\ from * BScr + i \div 2 \in ScreenBlocks(from)
          \/ steps[i].word = "rename" /\ i = 2 * (i \div 2)
    BY <1>0, CopyStepsAre
  <2>2. \A i \in 1 .. 2 * BScr : i = 2 * (i \div 2) => i % 2 = 0
    BY BuffersAssumption
  <2> HIDE DEF steps
  <2> QED
    BY <2>1, <2>2
<1>4. \A i \in 1 .. 2 * BScr : i % 2 = 1 => steps[i].word = "BLOCK"
  BY DEF CopySteps
<1> HIDE DEF all, steps
<1>5. ASSUME NEW i \in 1 .. Len(all), all[i].word = "BLOCK",
             NEW b \in Buf, header'[b].n = all[i].n
      PROVE  ~header'[b].upd
  BY <1>0, <1>2, <1>3, <1>5, BuffersAssumption
<1>6. ASSUME NEW i \in 1 .. Len(all), all[i].word = "rename"
      PROVE  i \in 1 .. 2 * BScr /\ i % 2 = 0
  BY <1>2, <1>3, <1>6, BuffersAssumption
<1>7. ASSUME NEW i \in 2 .. Len(all), all[i].word = "rename"
      PROVE  all[i - 1].word = "BLOCK"
  <2>1. i \in 1 .. 2 * BScr /\ i % 2 = 0
    BY <1>2, <1>6, <1>7, BuffersAssumption
  <2>2. i - 1 \in 1 .. 2 * BScr /\ (i - 1) % 2 = 1 /\ i - 1 \in 1 .. Len(all)
    BY <1>7, <2>1, <1>2, BuffersAssumption
  <2> QED
    BY <2>2, <1>2, <1>4
<1>8. all[1].word # "rename"
  BY <1>2, <1>6, BuffersAssumption
<1> QED
  BY <1>0, <1>5, <1>7, <1>8 DEF CopyClean

LEMMA NextRInv ==
  ASSUME RInv, Gentle, [Next]_vars
  PROVE  RInv'
<1>0. Inv'
  BY NextInv DEF RInv
<1> SUFFICES CopyClean'
  BY <1>0 DEF RInv
<1>1. CASE UNCHANGED vars
  BY <1>1 DEF vars, RInv, CopyClean
<1>2. CASE (\E n \in Block : BlockWord(n)) \/ (\E v \in Val : Update(v)) \/ EmptyBuffers
  BY <1>2, CopyCleanEmpty DEF BlockWord, Update, EmptyBuffers, BlockQuits, BufferQuits, Quits
<1>3. CASE Flush
  <2>1. todo' = FlushSteps /\ \A i \in 1 .. Len(todo') : todo'[i].word = "BUFFER"
    BY <1>3, FlushStepsAre DEF Flush
  <2>2. 1 \in 1 .. Len(todo') /\ \A i \in 2 .. Len(todo') : i \in 1 .. Len(todo')
    BY <2>1, FlushStepsAre, BuffersAssumption
  <2> QED
    BY <2>1, <2>2 DEF CopyClean
<1>4. CASE FlushStep
  BY <1>4, CopyCleanFlushStep
<1>5. CASE \E from, to \in 0 .. NBlock : Copy(from, to)
  BY <1>5, CopyCleanStart
<1>6. CASE CopyBlock
  BY <1>6, CopyCleanBlock
<1>7. CASE CopyRename
  BY <1>7, CopyCleanRename
<1> QED
  BY <1>1, <1>2, <1>3, <1>4, <1>5, <1>6, <1>7 DEF Next

-----------------------------------------------------------------------------
(* The steps of the memory.                                                *)

\* The memory's variables, by the names BlockBuffers gives them.
view == [n \in Block |-> View(n)]

Keeps == view' = view /\ disc' = disc

\* Each block is found as before, so the memory is as it was.
LEMMA SameView ==
  ASSUME \A n \in Block : View(n)' = View(n)
  PROVE  view' = view
BY DEF view

\* No header, contents or disc has changed: only pointers.
LEMMA PointersOnly ==
  ASSUME Inv, Inv', header' = header, data' = data, disc' = disc
  PROVE  Keeps
<1>1. Views /\ Views'
  BY ViewIs, ViewIsNext
<1>2. \A n \in Block : View(n)' = View(n)
  <2> SUFFICES ASSUME NEW n \in Block PROVE View(n)' = View(n)
    OBVIOUS
  <2>1. CASE Resident(n)
    <3>1. PICK b \in Buf : header[b].n = n
      BY <2>1 DEF Resident
    <3> QED
      BY <1>1, <3>1 DEF Views
  <2>2. CASE ~Resident(n)
    BY <1>1, <2>2 DEF Views, Resident
  <2> QED
    BY <2>1, <2>2
<1> QED
  BY <1>2, SameView DEF Keeps

\* A buffer is taken: what the memory shows is the same, and the disc is as it
\* was or has got what the memory shows of a block.
LEMMA TakenSaves ==
  ASSUME Inv, Inv', Gentle, NEW n \in Number, BufferTaken(Clean(n)),
         n \in Block => ~Resident(n) /\ data' = [data EXCEPT ![use] = disc[n]],
         n \notin Block => data' = data
  PROVE  Keeps \/ \E m \in Block : Memory!Save(m)
<1>0. /\ use \in Buf /\ header \in [Buf -> Header] /\ data \in [Buf -> Val]
      /\ disc \in [Block -> Val]
  BY DEF Inv, TypeOK
<1>1. Views /\ Views'
  BY ViewIs, ViewIsNext
<1>2. header'[use].n = n /\ \A b \in Buf : b # use => header'[b] = header[b]
  BY TakenHeaders DEF RInv, Inv, Clean
<1>3. \A b \in Buf : b # use => data'[b] = data[b]
  BY <1>0
<1>4. \A k \in Block : View(k)' = View(k)
  <2> SUFFICES ASSUME NEW k \in Block PROVE View(k)' = View(k)
    OBVIOUS
  <2>1. CASE \E b \in Buf : b # use /\ header[b].n = k
    <3>1. PICK b \in Buf : b # use /\ header[b].n = k
      BY <2>1
    <3>2. View(k) = data[b]
      BY <1>1, <3>1 DEF Views
    <3>3. header'[b].n = k /\ data'[b] = data[b]
      BY <1>2, <1>3, <3>1
    <3>4. View(k)' = data'[b]
      BY <1>1, <3>3 DEF Views
    <3> QED
      BY <3>2, <3>3, <3>4
  <2>2. CASE (\A b \in Buf : b # use => header[b].n # k) /\ k = n
    <3>1. ~Resident(k) /\ data'[use] = disc[k]
      BY <1>0, <2>2
    <3>2. View(k) = disc[k]
      BY <1>1, <3>1 DEF Views
    <3>3. View(k)' = data'[use]
      BY <1>0, <1>1, <1>2, <2>2 DEF Views
    <3> QED
      BY <3>1, <3>2, <3>3
  <2>3. CASE (\A b \in Buf : b # use => header[b].n # k) /\ k # n
    <3>1. \A b \in Buf : header'[b].n # k
      BY <1>2, <2>3
    <3>2. View(k)' = disc'[k]
      BY <1>1, <3>1 DEF Views, Resident
    <3>3. CASE header[use].n = k
      <4>1. View(k) = data[use]
        BY <1>0, <1>1, <3>3 DEF Views
      <4>2. CASE header[use].upd
        BY <1>0, <3>2, <3>3, <4>1, <4>2 DEF BufferTaken
      <4>3. CASE ~header[use].upd
        <5>1. data[use] = disc[k]
          BY <1>0, <3>3, <4>3 DEF Inv, Coherent, CleanMatchesDisc
        <5> QED
          BY <3>2, <4>1, <4>3, <5>1 DEF BufferTaken
      <4> QED
        BY <4>2, <4>3
    <3>4. CASE header[use].n # k
      <4>1. ~Resident(k)
        BY <2>3, <3>4 DEF Resident
      <4>2. disc'[k] = disc[k]
        BY <1>0, <3>4 DEF BufferTaken
      <4> QED
        BY <1>1, <3>2, <4>1, <4>2 DEF Views
    <3> QED
      BY <3>3, <3>4
  <2> QED
    BY <2>1, <2>2, <2>3
<1>5. view' = view
  BY <1>4, SameView
<1>6. CASE header[use].upd
  <2> DEFINE m == header[use].n
  <2>1. m \in Block
    BY <1>0, <1>6 DEF Inv, Coherent, ChangedIsBlock
  <2>2. View(m) = data[use]
    BY <1>0, <1>1, <2>1 DEF Views
  <2>3. disc' = [disc EXCEPT ![m] = view[m]]
    BY <1>6, <2>1, <2>2 DEF BufferTaken, view
  <2>4. Memory!Save(m)
    BY <1>5, <2>3 DEF Memory!Save, view
  <2> QED
    BY <2>1, <2>4
<1>7. CASE ~header[use].upd
  BY <1>5, <1>7 DEF BufferTaken, Keeps
<1> QED
  BY <1>6, <1>7

\* What BLOCK does, as a word and as a step of COPY.
LEMMA BlockMaps ==
  ASSUME Inv, Inv', Gentle, NEW n \in Block, BlockFound(n) \/ BlockRead(n) \/ BlockQuits(n)
  PROVE  Keeps \/ \E m \in Block : Memory!Save(m)
<1>1. CASE BlockFound(n)
  BY <1>1, PointersOnly DEF BlockFound
<1>2. CASE BlockRead(n)
  <2>1. n \in Number /\ BufferTaken(Clean(n)) /\ ~Resident(n)
        /\ data' = [data EXCEPT ![use] = disc[n]]
    BY <1>2, Numbers DEF BlockRead
  <2> QED
    BY <2>1, TakenSaves
<1>3. CASE BlockQuits(n)
  BY <1>3, PointersOnly DEF Gentle, BlockQuits, BufferQuits
<1> QED
  BY <1>1, <1>2, <1>3

LEMMA FlushStepMaps ==
  ASSUME Inv, Inv', Gentle, FlushStep
  PROVE  Keeps \/ \E m \in Block : Memory!Save(m)
<1>1. CASE BufferQuits
  BY <1>1, PointersOnly DEF BufferQuits
<1>2. CASE BufferTaken(Clean(Flushed)) /\ data' = data
  BY <1>2, Numbers, TakenSaves
<1> QED
  BY <1>1, <1>2 DEF FlushStep

\* A store into the memory, from what it shows of each block.
LEMMA Stores ==
  ASSUME NEW m \in Block, NEW v \in Val, disc' = disc,
         View(m)' = v, \A k \in Block : k # m => View(k)' = View(k)
  PROVE  Memory!Store(m)
<1>1. view' = [k \in Block |-> View(k)']
  BY DEF view
<1>2. view' = [view EXCEPT ![m] = v]
  BY <1>1 DEF view
<1> QED
  BY <1>2 DEF Memory!Store, view

LEMMA UpdateMaps ==
  ASSUME Inv, Inv', NEW v \in Val, Update(v)
  PROVE  \E m \in Block : Memory!Store(m)
<1>p. PICK m \in Block : m = header[prev].n
  BY DEF Update
<1>0. /\ prev \in Buf /\ header \in [Buf -> Header] /\ data \in [Buf -> Val]
      /\ disc' = disc /\ data' = [data EXCEPT ![prev] = v]
  BY DEF Inv, TypeOK, Update
<1>1. Views /\ Views'
  BY ViewIs, ViewIsNext
<1>2. \A b \in Buf : header'[b].n = header[b].n
  BY <1>0 DEF Update, Header
<1>3. View(m)' = v
  <2>1. header'[prev].n = m /\ data'[prev] = v
    BY <1>0, <1>2, <1>p
  <2> QED
    BY <1>0, <1>1, <2>1 DEF Views
<1>4. ASSUME NEW k \in Block, k # m PROVE View(k)' = View(k)
  <2>1. CASE Resident(k)
    <3>1. PICK b \in Buf : header[b].n = k
      BY <2>1 DEF Resident
    <3>2. header'[b].n = k /\ data'[b] = data[b]
      BY <1>0, <1>2, <1>4, <1>p, <3>1
    <3>3. View(k) = data[b] /\ View(k)' = data'[b]
      BY <1>1, <3>1, <3>2 DEF Views
    <3> QED
      BY <3>2, <3>3
  <2>2. CASE ~Resident(k)
    <3>1. \A b \in Buf : header'[b].n # k
      BY <1>2, <2>2 DEF Resident
    <3>2. View(k)' = disc'[k]
      BY <1>1, <3>1 DEF Views, Resident
    <3> QED
      BY <1>0, <1>1, <2>2, <3>2 DEF Views
  <2> QED
    BY <2>1, <2>2
<1> QED
  BY <1>0, <1>3, <1>4, Stores

\* COPY gives the block it copies to what the buffer holds; the block it copies
\* from is on the disc still, for it was not changed.
LEMMA RenameMaps ==
  ASSUME RInv, RInv', Gentle, CopyRename
  PROVE  \E m \in Block : Memory!Store(m)
<1>p. PICK m \in Block : m = Head(todo).n
  BY Tails DEF RInv, Inv, TypeOK, CopyRename, Step
<1>0. /\ todo \in Seq(Step) /\ todo # <<>>
      /\ todo[1].word = "rename" /\ 1 \in 1 .. Len(todo)
      /\ prev \in Buf /\ header \in [Buf -> Header] /\ data \in [Buf -> Val]
      /\ disc' = disc /\ data' = data
  BY Tails DEF RInv, Inv, TypeOK, CopyRename, Step
<1>1. Views /\ Views'
  BY ViewIs, ViewIsNext DEF RInv
<1>2. /\ header'[prev].n = m
      /\ \A b \in Buf : b # prev => header'[b] = header[b]
  BY <1>0, <1>p DEF CopyRename, Changed
<1>3. View(m)' = data[prev] /\ data[prev] \in Val
  <2>1. View(m)' = data'[prev]
    BY <1>0, <1>1, <1>2 DEF Views
  <2> QED
    BY <1>0, <2>1
<1>4. ASSUME NEW k \in Block, k # m PROVE View(k)' = View(k)
  <2>1. CASE \E b \in Buf : b # prev /\ header[b].n = k
    <3>1. PICK b \in Buf : b # prev /\ header[b].n = k
      BY <2>1
    <3>2. header'[b].n = k
      BY <1>2, <3>1
    <3>3. View(k) = data[b] /\ View(k)' = data'[b]
      BY <1>1, <3>1, <3>2 DEF Views
    <3> QED
      BY <1>0, <3>3
  <2>2. CASE \A b \in Buf : b # prev => header[b].n # k
    <3>1. \A b \in Buf : header'[b].n # k
      BY <1>2, <1>4, <2>2
    <3>2. View(k)' = disc'[k]
      BY <1>1, <3>1 DEF Views, Resident
    <3>3. CASE header[prev].n = k
      <4>1. ~header[prev].upd
        BY <1>0 DEF RInv, CopyClean
      <4>2. data[prev] = disc[k]
        BY <1>0, <3>3, <4>1 DEF RInv, Inv, Coherent, CleanMatchesDisc
      <4>3. View(k) = data[prev]
        BY <1>0, <1>1, <3>3 DEF Views
      <4> QED
        BY <1>0, <3>2, <4>2, <4>3
    <3>4. CASE header[prev].n # k
      <4>1. ~Resident(k)
        BY <2>2, <3>4 DEF Resident
      <4> QED
        BY <1>0, <1>1, <3>2, <4>1 DEF Views
    <3> QED
      BY <3>3, <3>4
  <2> QED
    BY <2>1, <2>2
<1> QED
  BY <1>0, <1>3, <1>4, Stores

LEMMA DiscardMaps ==
  ASSUME Inv, Inv', Gentle, EmptyBuffers
  PROVE  Memory!Discard
<1>0. disc \in [Block -> Val] /\ disc' = disc
  BY DEF Inv, TypeOK, EmptyBuffers
<1>1. \A n \in Block : View(n)' = disc[n]
  <2> SUFFICES ASSUME NEW n \in Block PROVE View(n)' = disc[n]
    OBVIOUS
  <2>1. \A b \in Buf : header'[b].n # n
    BY Numbers DEF EmptyBuffers, Empty
  <2>2. Views'
    BY ViewIsNext
  <2> QED
    BY <1>0, <2>1, <2>2 DEF Views, Resident
<1>2. view' = disc
  <2>1. view' = [n \in Block |-> View(n)']
    BY DEF view
  <2> QED
    BY <1>0, <1>1, <2>1
<1> QED
  BY <1>0, <1>2 DEF Memory!Discard, view

LEMMA NextMaps ==
  ASSUME RInv, RInv', Gentle, [Next]_vars
  PROVE  [Memory!Next]_<<view, disc>>
<1>0. Inv /\ Inv'
  BY DEF RInv
<1> SUFFICES \/ Keeps
             \/ \E m \in Block : Memory!Store(m) \/ Memory!Save(m)
             \/ Memory!Discard
  BY DEF Memory!Next, Keeps
<1>1. CASE UNCHANGED vars
  BY <1>0, <1>1, PointersOnly DEF vars
<1>2. CASE \E n \in Block : BlockWord(n)
  BY <1>0, <1>2, BlockMaps DEF BlockWord
<1>3. CASE \E v \in Val : Update(v)
  BY <1>0, <1>3, UpdateMaps
<1>4. CASE EmptyBuffers
  BY <1>0, <1>4, DiscardMaps
<1>5. CASE Flush
  BY <1>0, <1>5, PointersOnly DEF Flush
<1>6. CASE FlushStep
  BY <1>0, <1>6, FlushStepMaps
<1>7. CASE \E from, to \in 0 .. NBlock : Copy(from, to)
  BY <1>0, <1>7, PointersOnly DEF Copy
<1>8. CASE CopyBlock
  <2>1. Head(todo).n \in Block
    BY <1>0, <1>8, Tails DEF Inv, TypeOK, CopyBlock, Step
  <2> QED
    BY <1>0, <1>8, <2>1, BlockMaps DEF CopyBlock
<1>9. CASE CopyRename
  BY <1>9, RenameMaps
<1> QED
  BY <1>1, <1>2, <1>3, <1>4, <1>5, <1>6, <1>7, <1>8, <1>9 DEF Next

\* A step that keeps the view keeps what BLOCK gives for each block.
LEMMA KeptView ==
  ASSUME Keeps \/ \E m \in Block : Memory!Save(m)
  PROVE  \A n \in Block : View(n)' = View(n)
<1>1. view' = view
  BY DEF Keeps, Memory!Save, view
<1>2. view' = [n \in Block |-> View(n)'] /\ view = [n \in Block |-> View(n)]
  BY DEF view
<1> QED
  BY <1>1, <1>2

LEMMA MovesKeepView ==
  ASSUME RInv, RInv', Gentle
  PROVE  (\E n \in Block : BlockWord(n)) \/ FlushStep \/ CopyBlock =>
           \A n \in Block : View(n)' = View(n)
<1>0. Inv /\ Inv'
  BY DEF RInv
<1>1. CASE \E n \in Block : BlockWord(n)
  BY <1>0, <1>1, BlockMaps, KeptView DEF BlockWord
<1>2. CASE FlushStep
  BY <1>0, <1>2, FlushStepMaps, KeptView
<1>3. CASE CopyBlock
  <2>1. Head(todo).n \in Block
    BY <1>0, <1>3, Tails DEF Inv, TypeOK, CopyBlock, Step
  <2> QED
    BY <1>0, <1>3, <2>1, BlockMaps, KeptView DEF CopyBlock
<1> QED
  BY <1>1, <1>2, <1>3

LEMMA InitMaps ==
  ASSUME Gentle, Init
  PROVE  RInv /\ Memory!Init
<1>1. Inv
  BY InitInv
<1>2. CopyClean
  BY CopyCleanEmpty DEF Init, CopyClean
<1>3. view = disc
  <2>1. \A n \in Block : View(n) = disc[n]
    BY Numbers DEF Init, Empty, View, Resident
  <2> QED
    BY <2>1 DEF Init, view
<1> QED
  BY <1>1, <1>2, <1>3 DEF RInv, Memory!Init, view, Init

\* For any number of buffers and blocks, any screens and any failures to write,
\* BLOCK, FLUSH and the reads of COPY change nothing of what BLOCK gives.
THEOREM BuffersKeepStores == ASSUME Gentle PROVE Spec => KeepsStores
<1>1. Init => RInv
  BY InitMaps
<1>2. RInv /\ [Next]_vars => RInv'
  BY NextRInv
<1>3. RInv /\ RInv' /\ [Next]_vars =>
        [(\E n \in Block : BlockWord(n)) \/ FlushStep \/ CopyBlock =>
           \A n \in Block : View(n)' = View(n)]_vars
  BY MovesKeepView
<1> QED
  BY <1>1, <1>2, <1>3, PTL DEF Spec, KeepsStores

\* For any number of buffers and blocks, any screens and any failures to write,
\* the disc gets only what was stored, and only EMPTY-BUFFERS loses a change.
THEOREM BuffersImplementMemory == ASSUME Gentle PROVE Spec => ImplementsMemory
<1>1. Init => RInv /\ Memory!Init
  BY InitMaps
<1>2. RInv /\ [Next]_vars => RInv'
  BY NextRInv
<1>3. RInv /\ RInv' /\ [Next]_vars => [Memory!Next]_<<view, disc>>
  BY NextMaps
<1>4. [Memory!Next]_<<view, disc>> => [Memory!Next]_<<[n \in Block |-> View(n)], disc>>
  BY DEF view
<1> QED
  BY <1>1, <1>2, <1>3, <1>4, PTL DEF Spec, ImplementsMemory, Memory!Spec

=============================================================================
