---------------------------- MODULE DiscMuxProofs ----------------------------
(***************************************************************************)
(* DiscMux implements Conversation: what the line and the server's pipes   *)
(* hold of the disc's is a queue each way, whatever of the console's goes  *)
(* between.  So a disc is a device of blocks over a shared line as well,   *)
(* for blocks that hold no EOT; neither side takes from the other what is  *)
(* not for it; and what is printed and typed arrives complete and in       *)
(* order.                                                                  *)
(***************************************************************************)
EXTENDS DiscMux, SequenceTheorems, WellFoundedInduction, TLAPS

\* The line and the server's pipe at its end, each way, and what is typed.
Arriving == in.q \o toServer
Leaving  == toHost \o out.q
Keyed    == muxIn.q \o stdin

\* What R/W has sent and the controller not taken, and the other way.
Up   == Those(Arriving, TRUE)
Down == Those(Leaving, TRUE)

Barred == {EOT}

Talk == INSTANCE ConversationProofs WITH up <- Up, down <- Down, Barred <- Barred

\* No file or block holds an EOT, nor the memory an image is read into, and
\* fflush does not fail: its message, that goes to the image, ends in one.
TextOnly ==
  /\ \A f \in HostFile : \A o \in Ctl!Offset : f[o] # EOT
  /\ \A w \in HostBlock : \A i \in 1 .. SectorLen : w[i] # EOT
  /\ EOT \notin Heap
  /\ "fflush" \notin Fault

\* What is on the line, if the characters are those of T.
Tagged(T) == [disc : BOOLEAN, c : T]

-----------------------------------------------------------------------------
(* What Those takes out of a part of the line, by induction over it.       *)

LEMMA SetInduction ==
  ASSUME NEW S, 0 \in S, \A n \in Nat : n \in S => n + 1 \in S
  PROVE  Nat \subseteq S
<1> DEFINE T == Nat \ S
           R == OpToRel(<, Nat)
<1>1. SUFFICES ASSUME T # {} PROVE FALSE
  OBVIOUS
<1>2. PICK m \in T : \A k \in T : <<k, m>> \notin R
  <2>1. IsWellFoundedOn(R, Nat)
    BY NatLessThanWellFounded
  <2> HIDE DEF R
  <2> QED
    BY <1>1, <2>1, WFMin
<1>3. \A k \in Nat : k < m => k \in S
  BY <1>2 DEF OpToRel
<1>4. m \in Nat /\ m # 0 /\ m \notin S
  BY <1>2
<1>5. m - 1 \in Nat /\ m - 1 < m /\ (m - 1) + 1 = m
  BY <1>4
<1>6. m - 1 \in S
  BY <1>3, <1>5
<1> QED
  BY <1>4, <1>5, <1>6

\* What is taken from the first n characters of q, with what is taken from fewer.
Step(f, q, d, n) ==
  IF n = 0 THEN <<>>
  ELSE IF q[n].disc = d THEN Append(f[n - 1], q[n].c)
  ELSE f[n - 1]

\* f gives what is taken from the first characters of q, how many they may be.
Takes(f, q, d) == \A n \in 0 .. Len(q) : f[n] = Step(f, q, d, n)

\* There is such a function of a given length.
LEMMA TakesUpTo ==
  ASSUME NEW q, NEW d, NEW k \in Nat
  PROVE  \E f : f = [n \in 0 .. k |-> Step(f, q, d, n)]
<1> DEFINE S == {m \in Nat : \E f : f = [n \in 0 .. m |-> Step(f, q, d, n)]}
<1>1. 0 \in S
  <2> DEFINE f == [n \in 0 .. 0 |-> <<>>]
  <2>1. f = [n \in 0 .. 0 |-> Step(f, q, d, n)]
    BY DEF Step
  <2> QED
    BY <2>1
<1>2. ASSUME NEW m \in Nat, m \in S
      PROVE  m + 1 \in S
  <2>1. PICK f : f = [n \in 0 .. m |-> Step(f, q, d, n)]
    BY <1>2
  <2> DEFINE g == [n \in 0 .. m + 1 |-> IF n = m + 1 THEN Step(f, q, d, n) ELSE f[n]]
  <2>2. \A n \in 0 .. m : g[n] = f[n]
    OBVIOUS
  <2>3. ASSUME NEW n \in 0 .. m + 1
        PROVE  g[n] = Step(g, q, d, n)
    <3>1. n # 0 => n - 1 \in 0 .. m
      OBVIOUS
    <3>2. n # 0 => g[n - 1] = f[n - 1]
      BY <2>2, <3>1
    <3> HIDE DEF g
    <3>3. Step(g, q, d, n) = Step(f, q, d, n)
      BY <3>2 DEF Step
    <3>4. n # m + 1 => f[n] = Step(f, q, d, n)
      BY <2>1
    <3> QED
      BY <3>3, <3>4 DEF g
  <2>4. g = [n \in 0 .. m + 1 |-> g[n]]
    OBVIOUS
  <2> HIDE DEF g
  <2>5. g = [n \in 0 .. m + 1 |-> Step(g, q, d, n)]
    BY <2>3, <2>4
  <2> QED
    BY <2>5
<1>3. Nat \subseteq S
  <2> HIDE DEF S
  <2> QED
    BY <1>1, <1>2, SetInduction
<1> QED
  BY <1>3

LEMMA ThoseTakes ==
  ASSUME NEW q, NEW d, Len(q) \in Nat
  PROVE  \E f : Takes(f, q, d) /\ Those(q, d) = f[Len(q)]
<1> DEFINE Is(f) == f = [n \in 0 .. Len(q) |-> Step(f, q, d, n)]
           g == CHOOSE f : Is(f)
<1>1. \E f : Is(f)
  BY TakesUpTo
<1>2. Is(g)
  BY <1>1
<1>3. Those(q, d) = g[Len(q)]
  BY DEF Those, Step
<1> HIDE DEF g
<1>4. Takes(g, q, d)
  BY <1>2 DEF Takes
<1> QED
  BY <1>3, <1>4

\* Two sequences that begin alike, and what is taken from where they do.
LEMMA TakenAlike ==
  ASSUME NEW q, NEW r, NEW d, NEW f, NEW g, NEW k \in Nat,
         Len(q) \in Nat, Len(r) \in Nat, k <= Len(q), k <= Len(r),
         \A n \in 1 .. k : q[n] = r[n], Takes(f, q, d), Takes(g, r, d)
  PROVE  \A n \in 0 .. k : f[n] = g[n]
<1> DEFINE S == {m \in Nat : m <= k => f[m] = g[m]}
<1>1. 0 \in S
  BY DEF Takes, Step
<1>2. ASSUME NEW m \in Nat, m \in S
      PROVE  m + 1 \in S
  <2>1. CASE m + 1 <= k
    <3>1. f[m] = g[m] /\ q[m + 1] = r[m + 1]
      BY <1>2, <2>1
    <3>2. m + 1 \in 0 .. Len(q) /\ m + 1 \in 0 .. Len(r) /\ m + 1 # 0 /\ (m + 1) - 1 = m
      BY <2>1
    <3>3. f[m + 1] = Step(f, q, d, m + 1) /\ g[m + 1] = Step(g, r, d, m + 1)
      BY <3>2 DEF Takes
    <3>4. f[m + 1] = g[m + 1]
      BY <3>1, <3>2, <3>3 DEF Step
    <3> QED
      BY <3>4
  <2> QED
    BY <2>1
<1>3. Nat \subseteq S
  <2> HIDE DEF S
  <2> QED
    BY <1>1, <1>2, SetInduction
<1> QED
  BY <1>3

LEMMA LettersOf ==
  ASSUME NEW T, NEW q \in Seq(Tagged(T))
  PROVE  \A n \in 1 .. Len(q) : q[n].c \in T
<1>1. \A n \in 1 .. Len(q) : q[n] \in Tagged(T)
  BY ElementOfSeq
<1> QED
  BY <1>1 DEF Tagged

LEMMA ThoseType ==
  ASSUME NEW T, NEW q \in Seq(Tagged(T)), NEW d
  PROVE  Those(q, d) \in Seq(T)
<1> DEFINE k == Len(q)
<1>1. k \in Nat
  BY LenProperties
<1>2. PICK f : Takes(f, q, d) /\ Those(q, d) = f[k]
  BY <1>1, ThoseTakes
<1>3. \A n \in 1 .. k : q[n].c \in T
  BY LettersOf
<1> HIDE DEF k
<1> DEFINE S == {m \in Nat : m <= k => f[m] \in Seq(T)}
<1>4. 0 \in S
  <2>1. 0 \in 0 .. k
    BY <1>1
  <2>2. f[0] = Step(f, q, d, 0)
    BY <1>2, <2>1 DEF Takes, k
  <2> QED
    BY <2>2, EmptySeq DEF Step
<1>5. ASSUME NEW m \in Nat, m \in S
      PROVE  m + 1 \in S
  <2>1. CASE m + 1 <= k
    <3>1. f[m] \in Seq(T) /\ q[m + 1].c \in T
      BY <1>1, <1>3, <1>5, <2>1
    <3>2. m + 1 \in 0 .. k /\ m + 1 # 0 /\ (m + 1) - 1 = m
      BY <1>1, <2>1
    <3>3. f[m + 1] = Step(f, q, d, m + 1)
      BY <1>2, <3>2 DEF Takes, k
    <3>4. f[m + 1] = f[m] \/ f[m + 1] = Append(f[m], q[m + 1].c)
      BY <3>2, <3>3 DEF Step
    <3>5. Append(f[m], q[m + 1].c) \in Seq(T)
      <4>1. PICK s, e : s = f[m] /\ e = q[m + 1].c
        OBVIOUS
      <4>2. Append(s, e) \in Seq(T)
        BY <3>1, <4>1, AppendProperties
      <4> QED
        BY <4>1, <4>2
    <3>6. f[m + 1] \in Seq(T)
      BY <3>1, <3>4, <3>5
    <3> QED
      BY <3>6
  <2> QED
    BY <2>1
<1>6. Nat \subseteq S
  <2> HIDE DEF S
  <2> QED
    BY <1>4, <1>5, SetInduction
<1> QED
  BY <1>1, <1>2, <1>6

LEMMA ThoseNone == ASSUME NEW d PROVE Those(<<>>, d) = <<>>
<1>1. Len(<<>>) = 0
  BY EmptySeq, LenProperties
<1>2. PICK f : Takes(f, <<>>, d) /\ Those(<<>>, d) = f[0]
  BY <1>1, ThoseTakes
<1> QED
  BY <1>1, <1>2 DEF Takes, Step

\* One more character.
LEMMA ThoseAppend ==
  ASSUME NEW T, NEW q \in Seq(Tagged(T)), NEW x \in Tagged(T), NEW d
  PROVE  Those(Append(q, x), d) =
           IF x.disc = d THEN Append(Those(q, d), x.c) ELSE Those(q, d)
<1> DEFINE r == Append(q, x)
           k == Len(q)
<1>1. k \in Nat /\ Len(r) = k + 1 /\ r[k + 1] = x /\ \A n \in 1 .. k : q[n] = r[n]
  BY AppendProperties, LenProperties
<1> HIDE DEF r
<1>2. PICK f : Takes(f, q, d) /\ Those(q, d) = f[k]
  BY <1>1, ThoseTakes
<1>3. PICK g : Takes(g, r, d) /\ Those(r, d) = g[k + 1]
  BY <1>1, ThoseTakes
<1>4. f[k] = g[k]
  BY <1>1, <1>2, <1>3, TakenAlike
<1>5. g[k + 1] = Step(g, r, d, k + 1)
  BY <1>1, <1>3 DEF Takes
<1> HIDE DEF k
<1>6. k + 1 # 0 /\ (k + 1) - 1 = k
  BY <1>1
<1>7. Those(r, d) = IF x.disc = d THEN Append(Those(q, d), x.c) ELSE Those(q, d)
  BY <1>1, <1>2, <1>3, <1>4, <1>5, <1>6 DEF Step
<1> QED
  BY <1>7 DEF r

\* One part of the line after another.
LEMMA ThoseConcat ==
  ASSUME NEW T, NEW q \in Seq(Tagged(T)), NEW r \in Seq(Tagged(T)), NEW d
  PROVE  Those(q \o r, d) = Those(q, d) \o Those(r, d)
<1> DEFINE k == Len(q)
           l == Len(r)
           w == q \o r
           first == Those(q, d)
<1>1. /\ k \in Nat /\ l \in Nat /\ Len(w) = k + l
      /\ \A n \in 1 .. k : w[n] = q[n]
      /\ \A n \in 1 .. l : w[k + n] = r[n]
  <2>1. k \in Nat /\ l \in Nat
    BY LenProperties
  <2>2. Len(w) = k + l /\ \A n \in 1 .. k + l : w[n] = IF n <= k THEN q[n] ELSE r[n - k]
    BY ConcatProperties
  <2> HIDE DEF k, l, w
  <2>3. \A n \in 1 .. k : w[n] = q[n]
    BY <2>1, <2>2
  <2>4. \A n \in 1 .. l : k + n \in 1 .. k + l /\ ~(k + n <= k) /\ (k + n) - k = n
    BY <2>1
  <2> QED
    BY <2>1, <2>2, <2>3, <2>4
<1>2. first \in Seq(T)
  BY ThoseType
<1>3. PICK f : Takes(f, q, d) /\ first = f[k]
  BY <1>1, ThoseTakes
<1>4. PICK g : Takes(g, r, d) /\ Those(r, d) = g[l]
  BY <1>1, ThoseTakes
<1> HIDE DEF w, first
<1>5. PICK h : Takes(h, w, d) /\ Those(w, d) = h[Len(w)]
  <2>1. Len(w) \in Nat
    BY <1>1
  <2> QED
    BY <2>1, ThoseTakes
<1>6. f[k] = h[k]
  <2>1. /\ k \in Nat /\ Len(w) \in Nat /\ Len(q) \in Nat /\ k <= Len(w) /\ k <= Len(q)
        /\ \A n \in 1 .. k : w[n] = q[n]
    BY <1>1
  <2>2. k \in 0 .. k
    BY <2>1
  <2> HIDE DEF k
  <2>3. \A n \in 0 .. k : h[n] = f[n]
    BY <1>3, <1>5, <2>1, TakenAlike
  <2> QED
    BY <2>2, <2>3
<1>7. \A n \in 1 .. l : r[n].c \in T
  BY LettersOf
<1>8. \A n \in 0 .. l : g[n] = Step(g, r, d, n)
  BY <1>4 DEF Takes
<1>9. \A n \in 0 .. k + l : h[n] = Step(h, w, d, n)
  BY <1>1, <1>5 DEF Takes
<1> HIDE DEF k, l
<1> DEFINE S == {m \in Nat : m <= l => g[m] \in Seq(T) /\ h[k + m] = first \o g[m]}
<1>10. 0 \in S
  <2>1. g[0] = <<>>
    BY <1>1, <1>8 DEF Step
  <2>2. h[k + 0] = first
    BY <1>1, <1>3, <1>6
  <2>3. first \o <<>> = first /\ <<>> \in Seq(T)
    BY <1>2, ConcatEmptySeq, EmptySeq
  <2> QED
    BY <2>1, <2>2, <2>3
<1>11. ASSUME NEW m \in Nat, m \in S
       PROVE  m + 1 \in S
  <2>1. CASE m + 1 <= l
    <3>1. g[m] \in Seq(T) /\ h[k + m] = first \o g[m] /\ r[m + 1].c \in T
      BY <1>1, <1>7, <1>11, <2>1
    <3>2. /\ m + 1 \in 1 .. l /\ m + 1 \in 0 .. l /\ m + 1 # 0 /\ (m + 1) - 1 = m
          /\ k + (m + 1) \in 0 .. k + l /\ k + (m + 1) # 0 /\ (k + (m + 1)) - 1 = k + m
      BY <1>1, <2>1
    <3>3. w[k + (m + 1)] = r[m + 1]
      BY <1>1, <3>2
    <3>4. g[m + 1] = IF r[m + 1].disc = d THEN Append(g[m], r[m + 1].c) ELSE g[m]
      BY <1>8, <3>2 DEF Step
    <3>5. h[k + (m + 1)] =
            IF r[m + 1].disc = d THEN Append(h[k + m], r[m + 1].c) ELSE h[k + m]
      BY <1>9, <3>2, <3>3 DEF Step
    <3>6. /\ Append(g[m], r[m + 1].c) \in Seq(T)
          /\ first \o Append(g[m], r[m + 1].c) = Append(first \o g[m], r[m + 1].c)
      <4>1. PICK s, e : s = g[m] /\ e = r[m + 1].c
        OBVIOUS
      <4>2. s \in Seq(T) /\ e \in T
        BY <3>1, <4>1
      <4>3. Append(s, e) \in Seq(T) /\ first \o Append(s, e) = Append(first \o s, e)
        BY <1>2, <4>2, AppendProperties, Talk!AppendToConcat
      <4> QED
        BY <4>1, <4>3
    <3>7. g[m + 1] \in Seq(T) /\ h[k + (m + 1)] = first \o g[m + 1]
      BY <3>1, <3>4, <3>5, <3>6
    <3> QED
      BY <3>7
  <2> QED
    BY <1>1, <2>1
<1>12. Nat \subseteq S
  <2> HIDE DEF S
  <2> QED
    BY <1>10, <1>11, SetInduction
<1>13. h[k + l] = first \o g[l]
  BY <1>1, <1>12
<1>14. Those(w, d) = h[k + l]
  BY <1>1, <1>5
<1> QED
  BY <1>4, <1>13, <1>14 DEF w, first

\* The first character of the line.
LEMMA ThoseFirst ==
  ASSUME NEW T, NEW q \in Seq(Tagged(T)), q # <<>>, NEW d
  PROVE  /\ Head(q).disc # d => Those(q, d) = Those(Tail(q), d)
         /\ Head(q).disc = d =>
              /\ Those(q, d) # <<>> /\ Head(Those(q, d)) = Head(q).c
              /\ Tail(Those(q, d)) = Those(Tail(q), d)
<1>1. PICK x, r : x = Head(q) /\ r = Tail(q)
  OBVIOUS
<1>2. x \in Tagged(T) /\ r \in Seq(Tagged(T)) /\ <<x>> \in Seq(Tagged(T)) /\ <<x>> \o r = q
  <2>1. x \in Tagged(T) /\ r \in Seq(Tagged(T))
    BY <1>1, HeadTailProperties
  <2>2. <<Head(q)>> \o Tail(q) = q
    <3>1. <<>> \in Seq(Tagged(T))
      BY EmptySeq
    <3>2. Append(<<>>, Head(q)) \o Tail(q) = <<>> \o q
      BY <3>1, Talk!Moved
    <3>3. <<>> \o q = q /\ Append(<<>>, Head(q)) = <<Head(q)>>
      BY ConcatEmptySeq
    <3> QED
      BY <3>2, <3>3
  <2> QED
    BY <1>1, <2>1, <2>2
<1>3. Those(q, d) = Those(<<x>>, d) \o Those(r, d)
  <2>1. PICK h : h = <<x>>
    OBVIOUS
  <2>2. h \in Seq(Tagged(T)) /\ r \in Seq(Tagged(T))
    BY <1>2, <2>1
  <2>3. Those(h \o r, d) = Those(h, d) \o Those(r, d)
    BY <2>2, ThoseConcat
  <2> QED
    BY <1>2, <2>1, <2>3
<1>4. Those(<<x>>, d) = IF x.disc = d THEN <<x.c>> ELSE <<>>
  <2>1. <<>> \in Seq(Tagged(T)) /\ Append(<<>>, x) = <<x>>
    BY EmptySeq
  <2>2. Those(Append(<<>>, x), d) = IF x.disc = d THEN Append(Those(<<>>, d), x.c) ELSE Those(<<>>, d)
    BY <1>2, <2>1, ThoseAppend
  <2>3. Those(<<>>, d) = <<>> /\ Append(<<>>, x.c) = <<x.c>>
    BY ThoseNone
  <2> QED
    BY <2>1, <2>2, <2>3
<1>5. PICK s : s = Those(r, d)
  OBVIOUS
<1>6. s \in Seq(T) /\ x.c \in T
  BY <1>2, <1>5, ThoseType DEF Tagged
<1>7. CASE x.disc # d
  <2>1. <<>> \o s = s
    BY <1>6, ConcatEmptySeq
  <2> QED
    BY <1>1, <1>3, <1>4, <1>5, <1>7, <2>1
<1>8. CASE x.disc = d
  <2>1. PICK h : h = <<x.c>>
    OBVIOUS
  <2>2. h \in Seq(T) /\ h # <<>> /\ Head(h) = x.c /\ Tail(h) = <<>>
    BY <1>6, <2>1
  <2>3. h \o s # <<>> /\ Head(h \o s) = x.c /\ Tail(h \o s) = <<>> \o s
    BY <1>6, <2>2, Talk!HeadOfConcat
  <2>4. <<>> \o s = s
    BY <1>6, ConcatEmptySeq
  <2>5. Those(q, d) = h \o s
    BY <1>3, <1>4, <1>5, <1>8, <2>1
  <2>6. Those(q, d) # <<>> /\ Head(Those(q, d)) = x.c /\ Tail(Those(q, d)) = s
    BY <2>3, <2>4, <2>5
  <2> QED
    BY <1>1, <1>5, <1>8, <2>6
<1> QED
  BY <1>7, <1>8

\* What is left of two sequences when some of the first have gone.
LEMMA RestOfConcat ==
  ASSUME NEW S, NEW s \in Seq(S), NEW t \in Seq(S), NEW n \in 0 .. Len(s)
  PROVE  /\ SubSeq(s, n + 1, Len(s)) \in Seq(S)
         /\ SubSeq(s \o t, n + 1, Len(s \o t)) = SubSeq(s, n + 1, Len(s)) \o t
<1> DEFINE w == s \o t
           r == SubSeq(s, n + 1, Len(s))
           k == Len(s) + Len(t)
<1>1. Len(s) \in Nat /\ Len(t) \in Nat /\ n \in Nat /\ n <= Len(s) /\ k \in Nat
  BY LenProperties
<1>2. /\ w \in Seq(S) /\ Len(w) = k
      /\ \A i \in 1 .. k : w[i] = IF i <= Len(s) THEN s[i] ELSE t[i - Len(s)]
  BY ConcatProperties
<1>3. \A i \in 1 .. Len(s) : s[i] \in S
  BY ElementOfSeq
<1>4. \A i \in n + 1 .. Len(s) : s[i] \in S
  BY <1>1, <1>3
<1>5. /\ r \in Seq(S) /\ Len(r) = Len(s) - n
      /\ \A i \in 1 .. Len(s) - n : r[i] = s[n + i]
  <2>1. /\ r \in Seq(S)
        /\ Len(r) = IF n + 1 <= Len(s) THEN Len(s) - (n + 1) + 1 ELSE 0
        /\ \A i \in 1 .. Len(s) - (n + 1) + 1 : r[i] = s[(n + 1) + i - 1]
    BY <1>1, <1>4, SubSeqProperties
  <2> HIDE DEF r
  <2>2. Len(r) = Len(s) - n /\ Len(s) - (n + 1) + 1 = Len(s) - n
    BY <1>1, <2>1
  <2>3. \A i \in 1 .. Len(s) - n : (n + 1) + i - 1 = n + i
    BY <1>1
  <2> QED
    BY <2>1, <2>2, <2>3
<1> DEFINE u == r \o t
           v == SubSeq(w, n + 1, k)
<1>6. /\ u \in Seq(S) /\ Len(u) = Len(r) + Len(t)
      /\ \A i \in 1 .. Len(r) + Len(t) : u[i] = IF i <= Len(r) THEN r[i] ELSE t[i - Len(r)]
  BY <1>5, ConcatProperties
<1>7. \A i \in n + 1 .. k : w[i] \in S
  <2>1. \A i \in 1 .. k : w[i] \in S
    BY <1>2, ElementOfSeq
  <2> QED
    BY <1>1, <2>1
<1> HIDE DEF w, r, u
<1>8. /\ v \in Seq(S) /\ Len(v) = k - n /\ \A i \in 1 .. k - n : v[i] = w[n + i]
  <2>1. /\ v \in Seq(S)
        /\ Len(v) = IF n + 1 <= k THEN k - (n + 1) + 1 ELSE 0
        /\ \A i \in 1 .. k - (n + 1) + 1 : v[i] = w[(n + 1) + i - 1]
    BY <1>1, <1>7, SubSeqProperties
  <2> HIDE DEF v
  <2>2. Len(v) = k - n /\ k - (n + 1) + 1 = k - n
    BY <1>1, <2>1
  <2>3. \A i \in 1 .. k - n : (n + 1) + i - 1 = n + i
    BY <1>1
  <2> QED
    BY <2>1, <2>2, <2>3
<1> HIDE DEF v
<1>9. Len(u) = k - n
  BY <1>1, <1>5, <1>6
<1>10. ASSUME NEW i \in 1 .. k - n
       PROVE  v[i] = u[i]
  <2>1. i \in Nat /\ n + i \in 1 .. k
    BY <1>1
  <2>2. v[i] = w[n + i] /\ w[n + i] = IF n + i <= Len(s) THEN s[n + i] ELSE t[n + i - Len(s)]
    BY <1>2, <1>8, <2>1
  <2>3. u[i] = IF i <= Len(r) THEN r[i] ELSE t[i - Len(r)]
    BY <1>6, <1>9
  <2>4. CASE n + i <= Len(s)
    <3>1. i \in 1 .. Len(s) - n /\ i <= Len(r)
      BY <1>1, <1>5, <2>1, <2>4
    <3> QED
      BY <1>5, <2>2, <2>3, <2>4, <3>1
  <2>5. CASE ~(n + i <= Len(s))
    <3>1. ~(i <= Len(r)) /\ i - Len(r) = n + i - Len(s)
      BY <1>1, <1>5, <2>1, <2>5
    <3> QED
      BY <2>2, <2>3, <2>5, <3>1
  <2> QED
    BY <2>4, <2>5
<1>11. v = u
  BY <1>6, <1>8, <1>9, <1>10, SeqEqual
<1> QED
  BY <1>2, <1>5, <1>11 DEF u, v, w, r

\* Before some have gone.
LEMMA NoneGone == ASSUME NEW S, NEW s \in Seq(S) PROVE SubSeq(s, 0 + 1, Len(s)) = s
<1>1. SubSeq(s, 1, Len(s)) = s
  BY SubSeqFull
<1> QED
  BY <1>1

-----------------------------------------------------------------------------
(* What each step does to the queues of the line and of the console.       *)

\* Nothing but the characters of T is anywhere.
Typed(T) ==
  /\ in.q \in Seq(Tagged(T)) /\ toServer \in Seq(Tagged(T))
  /\ toHost \in Seq(Tagged(T)) /\ out.q \in Seq(Tagged(T))
  /\ muxIn.q \in Seq(T) /\ stdin \in Seq(T) /\ muxOut.q \in Seq(T) /\ toPrint \in Seq(T)

\* And T has those that the next step may put there.
Fits(T) ==
  /\ Typed(T)
  /\ {NextChar, Ctl!GetChar, BS, Blank} \cup Key \cup Printed \subseteq T

LEMMA SomeFits ==
  ASSUME NEW T, Typed(T)
  PROVE  \E U : Fits(U)
<1> DEFINE U == T \cup {NextChar, Ctl!GetChar, BS, Blank} \cup Key \cup Printed
<1>1. T \subseteq U /\ {NextChar, Ctl!GetChar, BS, Blank} \cup Key \cup Printed \subseteq U
  OBVIOUS
<1> HIDE DEF U
<1>2. Tagged(T) \subseteq Tagged(U)
  BY <1>1 DEF Tagged
<1>3. Typed(U)
  BY <1>1, <1>2, SeqMonotonic DEF Typed
<1> QED
  BY <1>1, <1>3 DEF Fits

LEMMA QueueTypes ==
  ASSUME NEW T, Typed(T)
  PROVE  /\ Arriving \in Seq(Tagged(T)) /\ Leaving \in Seq(Tagged(T)) /\ Keyed \in Seq(T)
         /\ \A d : Those(Arriving, d) \in Seq(T) /\ Those(Leaving, d) \in Seq(T)
<1>1. Arriving \in Seq(Tagged(T)) /\ Leaving \in Seq(Tagged(T)) /\ Keyed \in Seq(T)
  BY ConcatProperties DEF Typed, Arriving, Leaving, Keyed
<1>2. ASSUME NEW d
      PROVE  Those(Arriving, d) \in Seq(T) /\ Those(Leaving, d) \in Seq(T)
  <2>1. PICK q, r : q = Arriving /\ r = Leaving
    OBVIOUS
  <2>2. q \in Seq(Tagged(T)) /\ r \in Seq(Tagged(T))
    BY <1>1, <2>1
  <2>3. Those(q, d) \in Seq(T) /\ Those(r, d) \in Seq(T)
    BY <2>2, ThoseType
  <2> QED
    BY <2>1, <2>3
<1> QED
  BY <1>1, <1>2

SameQueues == Arriving' = Arriving /\ Leaving' = Leaving /\ Keyed' = Keyed

LEMMA NothingMoves ==
  ASSUME NEW T, Fits(T), UNCHANGED <<pipes, stdin, line>>, toPrint' \in Seq(T)
  PROVE  SameQueues /\ Typed(T)' /\ muxOut'.q = muxOut.q
BY DEF SameQueues, Arriving, Leaving, Keyed, Fits, Typed, pipes, line

\* A pipe p and a sequence s, on one side of it, of the characters S; and the same
\* when some of s have gone to p, or of p to s.
Holds(S, p, s) == p.q \in Seq(S) /\ s \in Seq(S)
Read(S, p, s, p2, s2) == Holds(S, p2, s2) /\ p2.q \o s2 = p.q \o s
Written(S, p, s, p2, s2) == Holds(S, p2, s2) /\ s2 \o p2.q = s \o p.q

\* A bufread takes from the front of what there is.
LEMMA FilledKeeps ==
  ASSUME NEW S, NEW p, NEW s, NEW r, Holds(S, p, s), r \in Filled(p, s)
  PROVE  Read(S, p, s, r[1], r[2])
<1> DEFINE p2 == r[1]
           s2 == r[2]
<1> SUFFICES p2.q \in Seq(S) /\ s2 \in Seq(S) /\ p2.q \o s2 = p.q \o s
  BY DEF Read, Holds
<1> USE DEF Holds
<1>1. CASE p.q # <<>> \/ s = <<>>
  <2>1. r = <<p, s>>
    BY <1>1 DEF Filled
  <2>2. p2 = p /\ s2 = s
    BY <2>1
  <2> QED
    BY <2>2
<1>2. CASE p.q = <<>> /\ s # <<>>
  <2>1. PICK n \in 1 .. Len(s) :
          r = <<PipeRead(SubSeq(s, 1, n)), SubSeq(s, n + 1, Len(s))>>
    BY <1>2 DEF Filled, SomeRead
  <2>2. p2.q = SubSeq(s, 1, n) /\ s2 = SubSeq(s, n + 1, Len(s))
    BY <2>1 DEF PipeRead
  <2>3. p.q \o s = s
    BY <1>2, ConcatEmptySeq
  <2>4. /\ SubSeq(s, 1, n) \in Seq(S) /\ SubSeq(s, n + 1, Len(s)) \in Seq(S)
        /\ SubSeq(s, 1, n) \o SubSeq(s, n + 1, Len(s)) = s
    BY Talk!Rejoined
  <2> QED
    BY <2>2, <2>3, <2>4
<1> QED
  BY <1>1, <1>2

\* A bufwrite moves from the front of the pipe.
LEMMA WriteKeeps ==
  ASSUME NEW S, NEW p, NEW h, NEW n, Holds(S, p, h), n \in 0 .. Len(p.q)
  PROVE  LET p2 == IF n = 0 THEN p ELSE PipeWrite(p, n)
         IN  /\ p2.q = SubSeq(p.q, n + 1, Len(p.q))
             /\ Written(S, p, h, p2, h \o SubSeq(p.q, 1, n))
<1> DEFINE p2 == IF n = 0 THEN p ELSE PipeWrite(p, n)
           h2 == h \o SubSeq(p.q, 1, n)
<1> SUFFICES /\ p2.q = SubSeq(p.q, n + 1, Len(p.q))
             /\ p2.q \in Seq(S) /\ h2 \in Seq(S) /\ h2 \o p2.q = h \o p.q
  BY DEF Written, Holds
<1> USE DEF Holds
<1>1. PICK q : q = p.q
  OBVIOUS
<1>2. q \in Seq(S) /\ n \in 0 .. Len(q) /\ Len(q) \in Nat
  BY <1>1, LenProperties
<1>3. CASE n = 0
  <2>1. SubSeq(q, 1, 0) = <<>>
    BY SubSeqEmpty
  <2>2. SubSeq(q, 0 + 1, Len(q)) = q
    BY <1>2, NoneGone
  <2>3. h \o <<>> = h
    BY ConcatEmptySeq
  <2>4. p2 = p /\ h2 = h \o SubSeq(q, 1, 0)
    BY <1>1, <1>3
  <2>5. p2.q = q /\ h2 = h
    BY <1>1, <2>1, <2>3, <2>4
  <2> QED
    BY <1>1, <1>2, <1>3, <2>2, <2>5
<1>4. CASE n # 0
  <2> DEFINE first == SubSeq(q, 1, n)
             last == SubSeq(q, n + 1, Len(q))
  <2>1. p2.q = last /\ h2 = h \o first
    BY <1>1, <1>4 DEF PipeWrite, Rewound
  <2>2. n \in 1 .. Len(q)
    BY <1>2, <1>4
  <2>3. first \in Seq(S) /\ last \in Seq(S) /\ first \o last = q
    BY <1>2, <2>2, Talk!Rejoined
  <2>4. p2.q = SubSeq(p.q, n + 1, Len(p.q))
    BY <1>1, <2>1
  <2> HIDE DEF first, last
  <2>5. h \o first \in Seq(S) /\ (h \o first) \o last = h \o (first \o last)
    <3>1. PICK a, b : a = first /\ b = last
      OBVIOUS
    <3>2. a \in Seq(S) /\ b \in Seq(S)
      BY <2>3, <3>1
    <3>3. h \o a \in Seq(S) /\ (h \o a) \o b = h \o (a \o b)
      BY <3>2, ConcatProperties, ConcatAssociative
    <3> QED
      BY <3>1, <3>3
  <2> QED
    BY <1>1, <2>1, <2>3, <2>4, <2>5
<1> QED
  BY <1>3, <1>4

LEMMA MoveEffect ==
  ASSUME NEW T, Fits(T), Move
  PROVE  /\ SameQueues /\ Typed(T)'
         /\ \E n \in 0 .. Len(muxOut.q) :
              /\ muxOut'.q = SubSeq(muxOut.q, n + 1, Len(muxOut.q))
              /\ printing' = SubSeq(printing, n + 1, Len(printing))
<1>1. PICK r1 \in Filled(in, toServer) : in' = r1[1] /\ toServer' = r1[2]
  BY DEF Move
<1>2. PICK r2 \in Filled(muxIn, stdin) : muxIn' = r2[1] /\ stdin' = r2[2]
  BY DEF Move
<1>3. PICK m \in 0 .. Len(out.q) :
        /\ Len(toHost) + m <= WireSize
        /\ m = 0 => out.q = <<>> \/ Len(toHost) = WireSize
        /\ out' = IF m = 0 THEN out ELSE PipeWrite(out, m)
        /\ toHost' = toHost \o SubSeq(out.q, 1, m)
  BY DEF Move
<1>4. PICK n \in 0 .. Len(muxOut.q) :
        /\ n = 0 => muxOut.q = <<>>
        /\ muxOut' = IF n = 0 THEN muxOut ELSE PipeWrite(muxOut, n)
        /\ printing' = SubSeq(printing, n + 1, Len(printing))
  BY DEF Move
<1>5. in'.q \in Seq(Tagged(T)) /\ toServer' \in Seq(Tagged(T)) /\ Arriving' = Arriving
  <2>1. Holds(Tagged(T), in, toServer)
    BY DEF Fits, Typed, Holds
  <2>2. Read(Tagged(T), in, toServer, in', toServer')
    BY <1>1, <2>1, FilledKeeps
  <2> QED
    BY <2>2 DEF Read, Holds, Arriving
<1>6. muxIn'.q \in Seq(T) /\ stdin' \in Seq(T) /\ Keyed' = Keyed
  <2>1. Holds(T, muxIn, stdin)
    BY DEF Fits, Typed, Holds
  <2>2. Read(T, muxIn, stdin, muxIn', stdin')
    BY <1>2, <2>1, FilledKeeps
  <2> QED
    BY <2>2 DEF Read, Holds, Keyed
<1>7. out'.q \in Seq(Tagged(T)) /\ toHost' \in Seq(Tagged(T)) /\ Leaving' = Leaving
  <2>1. Holds(Tagged(T), out, toHost)
    BY DEF Fits, Typed, Holds
  <2>2. Written(Tagged(T), out, toHost, out', toHost')
    BY <1>3, <2>1, WriteKeeps
  <2> QED
    BY <2>2 DEF Written, Holds, Leaving
<1>8. muxOut'.q \in Seq(T) /\ muxOut'.q = SubSeq(muxOut.q, n + 1, Len(muxOut.q))
  <2>1. Holds(T, muxOut, stdin)
    BY DEF Fits, Typed, Holds
  <2>2. /\ muxOut'.q = SubSeq(muxOut.q, n + 1, Len(muxOut.q))
        /\ Written(T, muxOut, stdin, muxOut', stdin \o SubSeq(muxOut.q, 1, n))
    BY <1>4, <2>1, WriteKeeps
  <2> QED
    BY <2>2 DEF Written, Holds
<1>9. toPrint' \in Seq(T)
  BY DEF Move, console, Fits, Typed
<1>10. Typed(T)'
  BY <1>5, <1>6, <1>7, <1>8, <1>9 DEF Typed
<1> QED
  BY <1>4, <1>5, <1>6, <1>7, <1>8, <1>10 DEF SameQueues

\* What leaves the server's pipe for the controller or the terminal.
LEMMA FromSerialEffect ==
  ASSUME NEW T, Fits(T), FromSerial
  PROVE  /\ in.q # <<>> /\ Arriving # <<>> /\ Head(Arriving) = Head(in.q)
         /\ Arriving' = Tail(Arriving) /\ Leaving' = Leaving /\ Keyed' = Keyed /\ Typed(T)'
         /\ muxOut'.q = IF Head(in.q).disc THEN muxOut.q ELSE Append(muxOut.q, Head(in.q).c)
<1>1. /\ in.q # <<>> /\ in' = PipeGet(in) /\ PipeLeft(muxOut) > 0
      /\ UNCHANGED <<out, muxIn, stdin, toServer, toHost, toPrint>>
  BY DEF FromSerial, SerialLeft, line, console
<1>2. /\ Head(in.q).disc => muxOut' = muxOut
      /\ ~Head(in.q).disc => muxOut' = PipePut(muxOut, Head(in.q).c)
  BY <1>1 DEF FromSerial
<1>3. PICK q, s, o : q = in.q /\ s = toServer /\ o = muxOut.q
  OBVIOUS
<1>4. q \in Seq(Tagged(T)) /\ s \in Seq(Tagged(T)) /\ o \in Seq(T) /\ q # <<>>
  BY <1>1, <1>3 DEF Fits, Typed
<1>5. /\ q \o s # <<>> /\ Head(q \o s) = Head(q) /\ Tail(q \o s) = Tail(q) \o s
      /\ Head(q) \in Tagged(T) /\ Tail(q) \in Seq(Tagged(T))
  BY <1>4, HeadTailProperties, Talk!HeadOfConcat
<1>6. in'.q = Tail(q)
  BY <1>1, <1>3 DEF PipeGet, Rewound
<1>7. Arriving = q \o s /\ Arriving' = Tail(q) \o s
  BY <1>1, <1>3, <1>6 DEF Arriving
<1>8. Leaving' = Leaving /\ Keyed' = Keyed
  BY <1>1 DEF Leaving, Keyed
<1>9. muxOut'.q = IF Head(q).disc THEN o ELSE Append(o, Head(q).c)
  <2>1. CASE Head(q).disc
    <3>1. Head(in.q).disc
      BY <1>3, <2>1
    <3> QED
      BY <1>2, <1>3, <2>1, <3>1
  <2>2. CASE ~Head(q).disc
    <3>1. muxOut' = PipePut(muxOut, Head(in.q).c)
      BY <1>2, <1>3, <2>2
    <3> QED
      BY <1>3, <2>2, <3>1 DEF PipePut
  <2> QED
    BY <2>1, <2>2
<1>10. muxOut'.q \in Seq(T)
  <2>1. PICK x : x = Head(q).c
    OBVIOUS
  <2>2. x \in T
    BY <1>5, <2>1 DEF Tagged
  <2>3. Append(o, x) \in Seq(T)
    BY <1>4, <2>2, AppendProperties
  <2> QED
    BY <1>4, <1>9, <2>1, <2>3
<1>11. Typed(T)'
  BY <1>1, <1>5, <1>6, <1>10 DEF Fits, Typed
<1> QED
  BY <1>1, <1>3, <1>5, <1>7, <1>8, <1>9, <1>11

\* What is put at the end of the line to the server.
LEMMA SentEffect ==
  ASSUME NEW T, Fits(T), NEW x \in Tagged(T), toServer' = Append(toServer, x),
         UNCHANGED <<pipes, stdin, toHost>>, toPrint' \in Seq(T)
  PROVE  /\ Arriving' = Append(Arriving, x) /\ Leaving' = Leaving /\ Keyed' = Keyed
         /\ Typed(T)' /\ muxOut'.q = muxOut.q
<1>1. PICK q, s : q = in.q /\ s = toServer
  OBVIOUS
<1>2. q \in Seq(Tagged(T)) /\ s \in Seq(Tagged(T))
  BY <1>1 DEF Fits, Typed
<1>3. q \o Append(s, x) = Append(q \o s, x) /\ Append(s, x) \in Seq(Tagged(T))
  BY <1>2, AppendProperties, Talk!AppendToConcat
<1>4. UNCHANGED <<in, out, muxIn, muxOut>>
  BY DEF pipes
<1>5. Arriving' = q \o Append(s, x) /\ Arriving = q \o s
  BY <1>1, <1>4 DEF Arriving
<1>6. Leaving' = Leaving /\ Keyed' = Keyed /\ muxOut'.q = muxOut.q
  BY <1>4 DEF Leaving, Keyed
<1>7. toServer' \in Seq(Tagged(T))
  BY <1>1, <1>3
<1>8. Typed(T)'
  BY <1>4, <1>7 DEF Fits, Typed
<1> QED
  BY <1>3, <1>5, <1>6, <1>8

\* What is put into the server's pipe to the line, of what was typed or of the
\* disc's.
LEMMA AnsweredEffect ==
  ASSUME NEW T, Fits(T), NEW x \in Tagged(T), out' = PipePut(out, x),
         muxIn'.q \in Seq(T), UNCHANGED <<in, muxOut, stdin, line, toPrint>>
  PROVE  Leaving' = Append(Leaving, x) /\ Arriving' = Arriving /\ Typed(T)'
<1>1. PICK q, h : q = out.q /\ h = toHost
  OBVIOUS
<1>2. q \in Seq(Tagged(T)) /\ h \in Seq(Tagged(T))
  BY <1>1 DEF Fits, Typed
<1>3. h \o Append(q, x) = Append(h \o q, x) /\ Append(q, x) \in Seq(Tagged(T))
  BY <1>2, AppendProperties, Talk!AppendToConcat
<1>4. out'.q = Append(q, x) /\ UNCHANGED <<toServer, toHost>>
  BY <1>1 DEF PipePut, line
<1>5. Leaving' = h \o Append(q, x) /\ Leaving = h \o q
  BY <1>1, <1>4 DEF Leaving
<1>6. Arriving' = Arriving
  BY <1>4 DEF Arriving
<1>7. out'.q \in Seq(Tagged(T))
  BY <1>3, <1>4
<1>8. Typed(T)'
  BY <1>4, <1>7 DEF Fits, Typed
<1> QED
  BY <1>3, <1>5, <1>6, <1>8

\* A key that the server takes.
LEMMA FromStdinEffect ==
  ASSUME NEW T, Fits(T), FromStdin
  PROVE  /\ Keyed # <<>> /\ Head(Keyed) \in T /\ Keyed' = Tail(Keyed)
         /\ Leaving' = Append(Leaving, ForConsole(Head(Keyed)))
         /\ Arriving' = Arriving /\ Typed(T)'
<1>1. /\ muxIn.q # <<>> /\ muxIn' = PipeGet(muxIn)
      /\ out' = PipePut(out, ForConsole(Head(muxIn.q)))
      /\ UNCHANGED <<in, muxOut, stdin, line, toPrint>>
  BY DEF FromStdin, console
<1>2. PICK q, s : q = muxIn.q /\ s = stdin
  OBVIOUS
<1>3. q \in Seq(T) /\ s \in Seq(T) /\ q # <<>>
  BY <1>1, <1>2 DEF Fits, Typed
<1>4. /\ q \o s # <<>> /\ Head(q \o s) = Head(q) /\ Tail(q \o s) = Tail(q) \o s
      /\ Head(q) \in T /\ Tail(q) \in Seq(T)
  BY <1>3, HeadTailProperties, Talk!HeadOfConcat
<1>5. muxIn'.q = Tail(q)
  BY <1>1, <1>2 DEF PipeGet, Rewound
<1>6. Keyed = q \o s /\ Keyed' = Tail(q) \o s
  BY <1>1, <1>2, <1>5 DEF Keyed
<1>7. PICK x : x = ForConsole(Head(q))
  OBVIOUS
<1>8. x \in Tagged(T) /\ out' = PipePut(out, x) /\ muxIn'.q \in Seq(T)
  BY <1>1, <1>2, <1>4, <1>5, <1>7 DEF Tagged, ForConsole
<1>9. Leaving' = Append(Leaving, x) /\ Arriving' = Arriving /\ Typed(T)'
  BY <1>1, <1>8, AnsweredEffect
<1> QED
  BY <1>4, <1>6, <1>7, <1>9

LEMMA FromDiscEffect ==
  ASSUME NEW T, Fits(T), FromDisc
  PROVE  /\ Leaving' = Append(Leaving, ForDisc(Ctl!GetChar)) /\ Arriving' = Arriving
         /\ Keyed' = Keyed /\ Typed(T)' /\ muxOut'.q = muxOut.q
<1>1. PICK x : x = ForDisc(Ctl!GetChar)
  OBVIOUS
<1>2. /\ out' = PipePut(out, x)
      /\ UNCHANGED <<in, muxIn, muxOut, stdin, line, toPrint>>
  BY <1>1 DEF FromDisc, console
<1>3. x \in Tagged(T) /\ muxIn'.q \in Seq(T)
  BY <1>1, <1>2 DEF Fits, Typed, Tagged, ForDisc
<1>4. Leaving' = Append(Leaving, x) /\ Arriving' = Arriving /\ Typed(T)'
  BY <1>2, <1>3, AnsweredEffect
<1>5. Keyed' = Keyed
  BY <1>2 DEF Keyed
<1> QED
  BY <1>1, <1>2, <1>4, <1>5

\* A character that the machine takes from the line.
LEMMA TakenEffect ==
  ASSUME NEW T, Fits(T), toHost # <<>>, toHost' = Tail(toHost),
         UNCHANGED <<pipes, stdin, toServer>>, toPrint' \in Seq(T)
  PROVE  /\ Leaving # <<>> /\ Head(Leaving) = Head(toHost) /\ Leaving' = Tail(Leaving)
         /\ Head(toHost) \in Tagged(T)
         /\ Arriving' = Arriving /\ Keyed' = Keyed /\ Typed(T)' /\ muxOut'.q = muxOut.q
<1>1. PICK q, h : q = out.q /\ h = toHost
  OBVIOUS
<1>2. q \in Seq(Tagged(T)) /\ h \in Seq(Tagged(T)) /\ h # <<>>
  BY <1>1 DEF Fits, Typed
<1>3. /\ h \o q # <<>> /\ Head(h \o q) = Head(h) /\ Tail(h \o q) = Tail(h) \o q
      /\ Head(h) \in Tagged(T) /\ Tail(h) \in Seq(Tagged(T))
  BY <1>2, HeadTailProperties, Talk!HeadOfConcat
<1>4. UNCHANGED <<in, out, muxIn, muxOut>>
  BY DEF pipes
<1>5. Leaving = h \o q /\ Leaving' = Tail(h) \o q
  BY <1>1, <1>4 DEF Leaving
<1>6. Arriving' = Arriving /\ Keyed' = Keyed /\ muxOut'.q = muxOut.q
  BY <1>4 DEF Arriving, Keyed
<1>7. toHost' \in Seq(Tagged(T))
  BY <1>1, <1>3
<1>8. Typed(T)'
  BY <1>4, <1>7 DEF Fits, Typed
<1> QED
  BY <1>1, <1>3, <1>5, <1>6, <1>8

-----------------------------------------------------------------------------
(* The console: of what is printed and typed nothing is lost or reordered, *)
(* whatever the discs hold and whatever goes between.                      *)

Printing == printing = muxOut.q \o Those(Arriving, FALSE)
Typing   == typing = Those(Leaving, FALSE) \o Keyed

ConsoleInv == (\E T : Typed(T)) /\ Printing /\ Typing

LEMMA QuietKeeps ==
  ASSUME NEW T, Fits(T), Printing, Typing,
         UNCHANGED <<pipes, stdin, line, printing, typing>>, toPrint' \in Seq(T)
  PROVE  Typed(T)' /\ Printing' /\ Typing'
<1>1. SameQueues /\ Typed(T)' /\ muxOut'.q = muxOut.q
  BY NothingMoves
<1> QED
  BY <1>1 DEF SameQueues, Printing, Typing

LEMMA MoveKeeps ==
  ASSUME NEW T, Fits(T), Printing, Typing, Move
  PROVE  Typed(T)' /\ Printing' /\ Typing'
<1>1. SameQueues /\ Typed(T)'
  BY MoveEffect
<1>2. PICK n \in 0 .. Len(muxOut.q) :
        /\ muxOut'.q = SubSeq(muxOut.q, n + 1, Len(muxOut.q))
        /\ printing' = SubSeq(printing, n + 1, Len(printing))
  BY MoveEffect
<1>3. PICK m, a : m = muxOut.q /\ a = Those(Arriving, FALSE)
  OBVIOUS
<1>4. m \in Seq(T) /\ a \in Seq(T) /\ n \in 0 .. Len(m)
  BY <1>3, QueueTypes DEF Fits, Typed
<1>5. SubSeq(m \o a, n + 1, Len(m \o a)) = SubSeq(m, n + 1, Len(m)) \o a
  BY <1>4, RestOfConcat
<1>6. printing = m \o a
  BY <1>3 DEF Printing
<1>7. Those(Arriving, FALSE)' = a
  BY <1>1, <1>3 DEF SameQueues
<1>8. Printing'
  BY <1>2, <1>3, <1>5, <1>6, <1>7 DEF Printing
<1>9. typing' = typing
  BY DEF Move
<1> QED
  BY <1>1, <1>8, <1>9 DEF SameQueues, Typing

LEMMA FromSerialKeeps ==
  ASSUME NEW T, Fits(T), Printing, Typing, FromSerial
  PROVE  Typed(T)' /\ Printing' /\ Typing'
<1>1. /\ Arriving # <<>> /\ Head(Arriving) = Head(in.q)
      /\ Arriving' = Tail(Arriving) /\ Leaving' = Leaving /\ Keyed' = Keyed /\ Typed(T)'
      /\ muxOut'.q = IF Head(in.q).disc THEN muxOut.q ELSE Append(muxOut.q, Head(in.q).c)
  BY FromSerialEffect
<1>2. UNCHANGED <<printing, typing>>
  BY DEF FromSerial
<1>3. PICK q, m, m2, x, a : /\ q = Arriving /\ m = muxOut.q /\ m2 = muxOut'.q
                            /\ x = Head(q) /\ a = Those(q, FALSE)
  OBVIOUS
<1>4. q \in Seq(Tagged(T)) /\ m \in Seq(T) /\ q # <<>> /\ a \in Seq(T)
  BY <1>1, <1>3, QueueTypes DEF Fits, Typed
<1>5. x \in Tagged(T)
  BY <1>3, <1>4, HeadTailProperties
<1>6. m2 \o Those(Tail(q), FALSE) = m \o a
  <2>1. CASE x.disc
    <3>1. Those(q, FALSE) = Those(Tail(q), FALSE)
      BY <1>3, <1>4, <2>1, ThoseFirst
    <3> QED
      BY <1>1, <1>3, <2>1, <3>1
  <2>2. CASE ~x.disc
    <3>1. x.disc = FALSE
      BY <1>5, <2>2 DEF Tagged
    <3>2. a # <<>> /\ Head(a) = x.c /\ Tail(a) = Those(Tail(q), FALSE)
      BY <1>3, <1>4, <3>1, ThoseFirst
    <3>3. Append(m, Head(a)) \o Tail(a) = m \o a
      BY <1>4, <3>2, Talk!Moved
    <3>4. m2 = Append(m, x.c)
      BY <1>1, <1>3, <2>2
    <3> QED
      BY <3>2, <3>3, <3>4
  <2> QED
    BY <2>1, <2>2
<1>7. Those(Arriving, FALSE)' = Those(Tail(q), FALSE)
  BY <1>1, <1>3
<1>8. Printing'
  BY <1>2, <1>3, <1>6, <1>7 DEF Printing
<1> QED
  BY <1>1, <1>2, <1>8 DEF Typing

LEMMA FromStdinKeeps ==
  ASSUME NEW T, Fits(T), Printing, Typing, FromStdin
  PROVE  Typed(T)' /\ Printing' /\ Typing'
<1>1. /\ Keyed # <<>> /\ Head(Keyed) \in T /\ Keyed' = Tail(Keyed)
      /\ Leaving' = Append(Leaving, ForConsole(Head(Keyed)))
      /\ Arriving' = Arriving /\ Typed(T)'
  BY FromStdinEffect
<1>2. UNCHANGED <<printing, typing, muxOut>>
  BY DEF FromStdin, history
<1>3. PICK q, k, x, l : /\ q = Leaving /\ k = Keyed /\ x = ForConsole(Head(k))
                        /\ l = Those(q, FALSE)
  OBVIOUS
<1>4. q \in Seq(Tagged(T)) /\ k \in Seq(T) /\ k # <<>> /\ l \in Seq(T)
  BY <1>1, <1>3, QueueTypes DEF Fits
<1>5. x \in Tagged(T) /\ x.disc = FALSE /\ x.c = Head(k)
  BY <1>1, <1>3 DEF Tagged, ForConsole
<1>6. Those(Append(q, x), FALSE) = Append(l, Head(k))
  <2>1. Those(Append(q, x), FALSE) = Append(Those(q, FALSE), x.c)
    <3>1. PICK d : d = FALSE
      OBVIOUS
    <3>2. q \in Seq(Tagged(T)) /\ x \in Tagged(T) /\ x.disc = d
      BY <1>4, <1>5, <3>1
    <3>3. Those(Append(q, x), d) = Append(Those(q, d), x.c)
      BY <3>2, ThoseAppend
    <3> QED
      BY <3>1, <3>3
  <2> QED
    BY <1>3, <1>5, <2>1
<1>7. Append(l, Head(k)) \o Tail(k) = l \o k
  BY <1>4, Talk!Moved
<1>8. Those(Leaving, FALSE)' = Append(l, Head(k)) /\ Keyed' = Tail(k)
  BY <1>1, <1>3, <1>6
<1>9. Typing'
  BY <1>2, <1>3, <1>7, <1>8 DEF Typing
<1> QED
  BY <1>1, <1>2, <1>9 DEF Printing

LEMMA FromDiscKeeps ==
  ASSUME NEW T, Fits(T), Printing, Typing, FromDisc
  PROVE  Typed(T)' /\ Printing' /\ Typing'
<1>1. /\ Leaving' = Append(Leaving, ForDisc(Ctl!GetChar)) /\ Arriving' = Arriving
      /\ Keyed' = Keyed /\ Typed(T)' /\ muxOut'.q = muxOut.q
  BY FromDiscEffect
<1>2. UNCHANGED <<printing, typing>>
  BY DEF FromDisc, history
<1>3. PICK q, x : q = Leaving /\ x = ForDisc(Ctl!GetChar)
  OBVIOUS
<1>4. q \in Seq(Tagged(T)) /\ x \in Tagged(T) /\ x.disc = TRUE
  BY <1>3, QueueTypes DEF Fits, Tagged, ForDisc
<1>5. Those(Append(q, x), FALSE) = Those(q, FALSE)
  BY <1>4, ThoseAppend
<1>6. Those(Leaving, FALSE)' = Those(Leaving, FALSE)
  BY <1>1, <1>3, <1>5
<1> QED
  BY <1>1, <1>2, <1>6 DEF Printing, Typing

LEMMA TypeKeeps ==
  ASSUME NEW T, Fits(T), Printing, Typing, Type
  PROVE  Typed(T)' /\ Printing' /\ Typing'
<1>1. PICK k \in Key : typing' = Append(typing, k) /\ stdin' = Append(stdin, k)
  BY DEF Type
<1>2. UNCHANGED <<in, out, muxIn, muxOut, toServer, toHost, toPrint, printing>>
  BY DEF Type, pipes, line, console
<1>3. PICK m, s, l : m = muxIn.q /\ s = stdin /\ l = Those(Leaving, FALSE)
  OBVIOUS
<1>4. m \in Seq(T) /\ s \in Seq(T) /\ l \in Seq(T) /\ k \in T
  BY <1>1, <1>3, QueueTypes DEF Fits, Typed
<1>5. /\ Append(s, k) \in Seq(T) /\ m \o s \in Seq(T)
      /\ m \o Append(s, k) = Append(m \o s, k)
  BY <1>4, AppendProperties, ConcatProperties, Talk!AppendToConcat
<1>6. l \o Append(m \o s, k) = Append(l \o (m \o s), k)
  <2>1. PICK w : w = m \o s
    OBVIOUS
  <2>2. l \o Append(w, k) = Append(l \o w, k)
    BY <1>4, <1>5, <2>1, Talk!AppendToConcat
  <2> QED
    BY <2>1, <2>2
<1>7. Keyed = m \o s /\ Keyed' = m \o Append(s, k)
  BY <1>1, <1>2, <1>3 DEF Keyed
<1>8. Leaving' = Leaving /\ Arriving' = Arriving
  BY <1>2 DEF Leaving, Arriving
<1>9. Typing'
  BY <1>1, <1>3, <1>5, <1>6, <1>7, <1>8 DEF Typing
<1>10. Typed(T)'
  BY <1>1, <1>2, <1>3, <1>5 DEF Fits, Typed
<1> QED
  BY <1>2, <1>8, <1>9, <1>10 DEF Printing

LEMMA SendKeeps ==
  ASSUME NEW T, Fits(T), Printing, Typing, Send
  PROVE  Typed(T)' /\ Printing' /\ Typing'
<1>1. PICK q, x : q = Arriving /\ x = ForDisc(NextChar)
  OBVIOUS
<1>2. x \in Tagged(T) /\ x.disc = TRUE /\ q \in Seq(Tagged(T))
  BY <1>1, QueueTypes DEF Fits, Tagged, ForDisc
<1>3. /\ toServer' = Append(toServer, x) /\ UNCHANGED <<pipes, stdin, toHost>>
      /\ toPrint' \in Seq(T) /\ UNCHANGED <<printing, typing>>
  BY <1>1 DEF Send, server, console, history, Fits, Typed
<1>4. /\ Arriving' = Append(Arriving, x) /\ Leaving' = Leaving /\ Keyed' = Keyed
      /\ Typed(T)' /\ muxOut'.q = muxOut.q
  BY <1>2, <1>3, SentEffect
<1>5. Those(Append(q, x), FALSE) = Those(q, FALSE)
  BY <1>2, ThoseAppend
<1>6. Those(Arriving, FALSE)' = Those(Arriving, FALSE)
  BY <1>1, <1>4, <1>5
<1> QED
  BY <1>3, <1>4, <1>6 DEF Printing, Typing

LEMMA PrintCharKeeps ==
  ASSUME NEW T, Fits(T), Printing, Typing, PrintChar
  PROVE  Typed(T)' /\ Printing' /\ Typing'
<1>1. PICK q, p, m, x, a : /\ q = Arriving /\ p = toPrint /\ m = muxOut.q
                           /\ x = ForConsole(Head(p)) /\ a = Those(q, FALSE)
  OBVIOUS
<1>2. q \in Seq(Tagged(T)) /\ p \in Seq(T) /\ p # <<>> /\ m \in Seq(T) /\ a \in Seq(T)
  BY <1>1, QueueTypes DEF Fits, Typed, PrintChar
<1>3. Head(p) \in T /\ Tail(p) \in Seq(T)
  BY <1>2, HeadTailProperties
<1>4. x \in Tagged(T) /\ x.disc = FALSE /\ x.c = Head(p)
  BY <1>1, <1>3 DEF Tagged, ForConsole
<1>5. /\ toServer' = Append(toServer, x) /\ UNCHANGED <<pipes, stdin, toHost, typing>>
      /\ toPrint' = Tail(p) /\ printing' = Append(printing, Head(p))
  BY <1>1 DEF PrintChar, server
<1>6. /\ Arriving' = Append(Arriving, x) /\ Leaving' = Leaving /\ Keyed' = Keyed
      /\ Typed(T)' /\ muxOut'.q = muxOut.q
  BY <1>3, <1>4, <1>5, SentEffect
<1>7. Those(Append(q, x), FALSE) = Append(a, Head(p))
  <2>1. Those(Append(q, x), FALSE) = Append(Those(q, FALSE), x.c)
    <3>1. PICK d : d = FALSE
      OBVIOUS
    <3>2. q \in Seq(Tagged(T)) /\ x \in Tagged(T) /\ x.disc = d
      BY <1>2, <1>4, <3>1
    <3>3. Those(Append(q, x), d) = Append(Those(q, d), x.c)
      BY <3>2, ThoseAppend
    <3> QED
      BY <3>1, <3>3
  <2> QED
    BY <1>1, <1>4, <2>1
<1>8. m \o Append(a, Head(p)) = Append(m \o a, Head(p))
  BY <1>2, <1>3, Talk!AppendToConcat
<1>9. Those(Arriving, FALSE)' = Append(a, Head(p))
  BY <1>1, <1>6, <1>7
<1>10. Printing'
  BY <1>1, <1>5, <1>6, <1>8, <1>9 DEF Printing
<1> QED
  BY <1>5, <1>6, <1>10 DEF Typing

\* The machine takes a character: one of the disc's leaves those of the console
\* where they are, one of the console leaves them without the first.
LEMMA TakenKeeps ==
  ASSUME NEW T, Fits(T), Printing, Typing, toHost # <<>>, toHost' = Tail(toHost),
         UNCHANGED <<pipes, stdin, toServer, printing>>, toPrint' \in Seq(T),
         typing' = IF Head(toHost).disc THEN typing ELSE Tail(typing)
  PROVE  Typed(T)' /\ Printing' /\ Typing'
<1>1. /\ Leaving # <<>> /\ Head(Leaving) = Head(toHost) /\ Leaving' = Tail(Leaving)
      /\ Head(toHost) \in Tagged(T)
      /\ Arriving' = Arriving /\ Keyed' = Keyed /\ Typed(T)' /\ muxOut'.q = muxOut.q
  BY TakenEffect
<1>2. PICK q, k, l, x, t : /\ q = Leaving /\ k = Keyed /\ l = Those(q, FALSE)
                           /\ x = Head(q) /\ t = typing
  OBVIOUS
<1>3. /\ q \in Seq(Tagged(T)) /\ q # <<>> /\ k \in Seq(T) /\ l \in Seq(T) /\ x \in Tagged(T)
      /\ t = l \o k
  BY <1>1, <1>2, QueueTypes DEF Fits, Typing
<1>4. Those(Leaving, FALSE)' = Those(Tail(q), FALSE) /\ Keyed' = k
  BY <1>1, <1>2
<1>5. CASE x.disc
  <2>1. Those(Tail(q), FALSE) = l
    BY <1>2, <1>3, <1>5, ThoseFirst
  <2>2. typing' = t
    BY <1>1, <1>2, <1>5
  <2> QED
    BY <1>1, <1>3, <1>4, <2>1, <2>2 DEF Printing, Typing
<1>6. CASE ~x.disc
  <2>1. x.disc = FALSE
    BY <1>3, <1>6 DEF Tagged
  <2>2. l # <<>> /\ Tail(l) = Those(Tail(q), FALSE)
    BY <1>2, <1>3, <2>1, ThoseFirst
  <2>3. Tail(l \o k) = Tail(l) \o k
    BY <1>3, <2>2, Talk!HeadOfConcat
  <2>4. typing' = Tail(t)
    BY <1>1, <1>2, <1>6
  <2>5. Typing'
    BY <1>3, <1>4, <2>2, <2>3, <2>4 DEF Typing
  <2> QED
    BY <1>1, <2>5 DEF Printing
<1> QED
  BY <1>5, <1>6

\* What ?DISC prints of a message.
LEMMA ReceivedPrints == ASSUME NEW T, Fits(T), Receive PROVE toPrint' \in Seq(T)
<1>1. /\ toHost # <<>>
      /\ toPrint' = IF hpc = "message" THEN <<Head(toHost).c>> ELSE <<>>
  BY DEF Receive
<1>2. PICK h, c : h = toHost /\ c = Head(h).c
  OBVIOUS
<1>3. h \in Seq(Tagged(T)) /\ h # <<>>
  BY <1>1, <1>2 DEF Fits, Typed
<1>4. Head(h) \in Tagged(T)
  BY <1>3, HeadTailProperties
<1>5. c \in T
  BY <1>2, <1>4 DEF Tagged
<1>6. <<c>> \in Seq(T) /\ <<>> \in Seq(T)
  BY <1>5
<1> QED
  BY <1>1, <1>2, <1>6

LEMMA ConsoleStep ==
  ASSUME NEW T, Fits(T), Printing, Typing, [Next]_vars
  PROVE  Typed(T)' /\ Printing' /\ Typing'
<1>1. toPrint \in Seq(T)
  BY DEF Fits, Typed
<1>2. CASE Serve \/ StdinEnds \/ SerialEnds \/ FromStdinEnds \/ FromDiscEnds \/ Ask
             \/ ReadKey \/ UNCHANGED vars
  <2>1. UNCHANGED <<pipes, stdin, line, printing, typing>> /\ toPrint' = toPrint
    BY <1>2 DEF Serve, StdinEnds, SerialEnds, FromStdinEnds, FromDiscEnds, Ask, ReadKey,
         vars, server, console, history
  <2> QED
    BY <1>1, <2>1, QuietKeeps
<1>3. CASE ConsolePut
  <2>1. UNCHANGED <<pipes, stdin, line, printing, typing>>
    BY <1>3 DEF ConsolePut, server, history
  <2>2. PICK c \in Printed : toPrint' = Erased(c)
    BY <1>3 DEF ConsolePut
  <2>3. c \in T /\ BS \in T /\ Blank \in T
    BY DEF Fits
  <2>4. toPrint' \in Seq(T)
    <3>1. <<BS, Blank, BS>> \in Seq(T) /\ <<c>> \in Seq(T)
      BY <2>3
    <3> QED
      BY <2>2, <3>1 DEF Erased
  <2> QED
    BY <2>1, <2>4, QuietKeeps
<1>4. CASE Move
  BY <1>4, MoveKeeps
<1>5. CASE FromSerial
  BY <1>5, FromSerialKeeps
<1>6. CASE FromStdin
  BY <1>6, FromStdinKeeps
<1>7. CASE FromDisc
  BY <1>7, FromDiscKeeps
<1>8. CASE Type
  BY <1>8, TypeKeeps
<1>9. CASE Send
  BY <1>9, SendKeeps
<1>10. CASE PrintChar
  BY <1>10, PrintCharKeeps
<1>11. CASE Receive
  <2>1. /\ toHost # <<>> /\ Head(toHost).disc /\ toHost' = Tail(toHost)
        /\ UNCHANGED <<pipes, stdin, toServer, printing, typing>>
    BY <1>11 DEF Receive, server, history
  <2>2. toPrint' \in Seq(T)
    BY <1>11, ReceivedPrints
  <2> QED
    BY <2>1, <2>2, TakenKeeps
<1>12. CASE SkipKey
  <2>1. /\ toHost # <<>> /\ ~Head(toHost).disc /\ toHost' = Tail(toHost)
        /\ UNCHANGED <<pipes, stdin, toServer, printing>>
        /\ toPrint' \in Seq(T) /\ typing' = Tail(typing)
    BY <1>1, <1>12 DEF SkipKey, server, console
  <2> QED
    BY <2>1, TakenKeeps
<1>13. CASE TakeKey
  <2>1. /\ toHost # <<>> /\ toHost' = Tail(toHost)
        /\ UNCHANGED <<pipes, stdin, toServer, printing>>
        /\ toPrint' \in Seq(T)
        /\ typing' = IF Head(toHost).disc THEN typing ELSE Tail(typing)
    BY <1>1, <1>13 DEF TakeKey, server
  <2> QED
    BY <2>1, TakenKeeps
<1> QED
  BY <1>2, <1>3, <1>4, <1>5, <1>6, <1>7, <1>8, <1>9, <1>10, <1>11, <1>12, <1>13
  DEF Next, ServerStep, HostStep

LEMMA InitConsole == Init => ConsoleInv
<1> SUFFICES ASSUME Init PROVE ConsoleInv
  OBVIOUS
<1>1. /\ in.q = <<>> /\ out.q = <<>> /\ muxIn.q = <<>> /\ muxOut.q = <<>> /\ stdin = <<>>
      /\ toServer = <<>> /\ toHost = <<>> /\ toPrint = <<>>
      /\ printing = <<>> /\ typing = <<>>
  BY DEF Init, EmptyPipe
<1>2. Typed({})
  BY <1>1, EmptySeq DEF Typed
<1>3. Arriving = <<>> /\ Leaving = <<>> /\ Keyed = <<>>
  BY <1>1, ConcatEmptySeq, EmptySeq DEF Arriving, Leaving, Keyed
<1>4. Those(Arriving, FALSE) = <<>> /\ Those(Leaving, FALSE) = <<>>
  BY <1>3, ThoseNone
<1>5. Printing /\ Typing
  BY <1>1, <1>3, <1>4, ConcatEmptySeq, EmptySeq DEF Printing, Typing
<1> QED
  BY <1>2, <1>5 DEF ConsoleInv

LEMMA NextConsole == ConsoleInv /\ [Next]_vars => ConsoleInv'
<1> SUFFICES ASSUME ConsoleInv, [Next]_vars PROVE ConsoleInv'
  OBVIOUS
<1>1. PICK T : Fits(T)
  BY SomeFits DEF ConsoleInv
<1>2. Typed(T)' /\ Printing' /\ Typing'
  BY <1>1, ConsoleStep DEF ConsoleInv
<1> QED
  BY <1>2 DEF ConsoleInv

LEMMA ConsoleInvariant == Spec => []ConsoleInv
BY InitConsole, NextConsole, PTL DEF Spec

\* What the invariant says of the parts of the line.
LEMMA ConsoleInOrder == ConsoleInv => ConsoleFifo /\ KeysInOrder
<1> SUFFICES ASSUME ConsoleInv PROVE ConsoleFifo /\ KeysInOrder
  OBVIOUS
<1>1. PICK T : Typed(T)
  BY DEF ConsoleInv
<1>2. PICK i, s, h, o, m, k, d :
        /\ i = in.q /\ s = toServer /\ h = toHost /\ o = out.q
        /\ m = muxOut.q /\ k = muxIn.q /\ d = stdin
  OBVIOUS
<1>3. /\ i \in Seq(Tagged(T)) /\ s \in Seq(Tagged(T)) /\ h \in Seq(Tagged(T))
      /\ o \in Seq(Tagged(T)) /\ m \in Seq(T) /\ k \in Seq(T) /\ d \in Seq(T)
  BY <1>1, <1>2 DEF Typed
<1>4. /\ Those(i \o s, FALSE) = Those(i, FALSE) \o Those(s, FALSE)
      /\ Those(h \o o, FALSE) = Those(h, FALSE) \o Those(o, FALSE)
  <2>1. i \in Seq(Tagged(T)) /\ s \in Seq(Tagged(T))
    BY <1>3
  <2>2. \A e : Those(i \o s, e) = Those(i, e) \o Those(s, e)
    BY <2>1, ThoseConcat
  <2>3. h \in Seq(Tagged(T)) /\ o \in Seq(Tagged(T))
    BY <1>3
  <2>4. \A e : Those(h \o o, e) = Those(h, e) \o Those(o, e)
    BY <2>3, ThoseConcat
  <2> QED
    BY <2>2, <2>4
<1>5. PICK i1, s1, h1, o1 :
        /\ i1 = Those(i, FALSE) /\ s1 = Those(s, FALSE)
        /\ h1 = Those(h, FALSE) /\ o1 = Those(o, FALSE)
  OBVIOUS
<1>6. i1 \in Seq(T) /\ s1 \in Seq(T) /\ h1 \in Seq(T) /\ o1 \in Seq(T)
  BY <1>3, <1>5, ThoseType
<1>7. (m \o i1) \o s1 = m \o (i1 \o s1)
  <2>1. m \in Seq(T) /\ i1 \in Seq(T) /\ s1 \in Seq(T)
    BY <1>3, <1>6
  <2> QED
    BY <2>1, ConcatAssociative
<1>8. ((h1 \o o1) \o k) \o d = (h1 \o o1) \o (k \o d)
  <2>1. PICK w : w = h1 \o o1
    OBVIOUS
  <2>2. w \in Seq(T)
    BY <1>6, <2>1, ConcatProperties
  <2>3. (w \o k) \o d = w \o (k \o d)
    <3>1. w \in Seq(T) /\ k \in Seq(T) /\ d \in Seq(T)
      BY <1>3, <2>2
    <3> QED
      BY <3>1, ConcatAssociative
  <2> QED
    BY <2>1, <2>3
<1>9. printing = m \o (i1 \o s1) /\ typing = (h1 \o o1) \o (k \o d)
  BY <1>2, <1>4, <1>5 DEF ConsoleInv, Printing, Typing, Arriving, Leaving, Keyed
<1>10. ConsoleFifo
  BY <1>2, <1>5, <1>7, <1>9 DEF ConsoleFifo, OfConsole
<1>11. KeysInOrder
  BY <1>2, <1>5, <1>8, <1>9 DEF KeysInOrder, OfConsole
<1> QED
  BY <1>10, <1>11

\* What is printed comes to the terminal, complete and in order, over a line the
\* disc shares: process_mux stops reading the line before it has a character in
\* hand that the terminal has no room for.
THEOREM PrintedInOrder == Spec => []ConsoleFifo
BY ConsoleInvariant, ConsoleInOrder, PTL

\* What is typed comes to the machine, complete and in order.
THEOREM TypedInOrder == Spec => []KeysInOrder
BY ConsoleInvariant, ConsoleInOrder, PTL

-----------------------------------------------------------------------------
(* The controller and the driver are those of Conversation.                *)

LEMMA SameBytes ==
  /\ Talk!Ctl!Byte = Ctl!Byte /\ Talk!Ctl!Command = Ctl!Command
  /\ Talk!Ctl!Message = Ctl!Message /\ Talk!Ctl!Offset = Ctl!Offset
  /\ Talk!Ctl!Image = Ctl!Image /\ Talk!Ctl!File = Ctl!File /\ Talk!Ctl!Drive = Ctl!Drive
<1>1. /\ Talk!Ctl!Command = Ctl!Command /\ Talk!Ctl!Message = Ctl!Message
      /\ Talk!Ctl!Offset = Ctl!Offset /\ Talk!Ctl!Drive = Ctl!Drive
      /\ Talk!Ctl!Control = Ctl!Control
  BY Zenon DEF Talk!Ctl!Command, Ctl!Command, Talk!Ctl!Message, Ctl!Message,
       Talk!Ctl!Offset, Ctl!Offset, Talk!Ctl!Drive, Ctl!Drive, Talk!Ctl!Control, Ctl!Control
<1>2. Talk!Ctl!Byte = Ctl!Byte
  BY <1>1, Zenon DEF Talk!Ctl!Byte, Ctl!Byte
<1> QED
  BY <1>1, <1>2, Zenon DEF Talk!Ctl!Image, Ctl!Image, Talk!Ctl!File, Ctl!File

LEMMA SameInit == (Talk!Ctl!Init <=> Ctl!Init) /\ (Talk!HostInit <=> HostInit)
BY SameBytes, Zenon DEF Talk!Ctl!Init, Ctl!Init, Talk!HostInit, HostInit

LEMMA SameInsert ==
  ASSUME NEW d, NEW f
  PROVE  (Talk!Ctl!Insert(d, f) <=> Ctl!Insert(d, f))
           /\ (Talk!Ctl!InsertFails(d) <=> Ctl!InsertFails(d))
BY SameBytes, Zenon
  DEF Talk!Ctl!Insert, Ctl!Insert, Talk!Ctl!InsertFails, Ctl!InsertFails,
      Talk!Ctl!BetweenTransfers, Ctl!BetweenTransfers, Talk!Ctl!DriveEmpty, Ctl!DriveEmpty,
      Talk!Ctl!ImageOf, Ctl!ImageOf

LEMMA SamePutc == ASSUME NEW c PROVE Talk!Ctl!Putc(c) <=> Ctl!Putc(c)
<1>1. ASSUME NEW chars
      PROVE  Talk!Ctl!WriteChars(chars) <=> Ctl!WriteChars(chars)
  BY SameBytes, Zenon
    DEF Talk!Ctl!WriteChars, Talk!Ctl!WriteRefused, Talk!Ctl!WriteNotFlushed,
        Talk!Ctl!Overlaid, Talk!Ctl!Written, Talk!Ctl!FitsDisc, Talk!Ctl!FileFails, Talk!Ctl!FileAfter,
        Talk!Ctl!FileWritten,
        Talk!Ctl!MemoryWritten, Talk!Ctl!Overwrite, Talk!Ctl!Acknowledge, Talk!Ctl!Touched,
        Talk!Ctl!SectorOffset, Talk!Ctl!Error, Talk!Ctl!ErrorText, Talk!Ctl!Respond,
        Ctl!WriteChars, Ctl!WriteRefused, Ctl!WriteNotFlushed, Ctl!Overlaid,
        Ctl!Written, Ctl!FitsDisc, Ctl!FileFails, Ctl!FileAfter, Ctl!FileWritten,
        Ctl!MemoryWritten, Ctl!Overwrite,
        Ctl!Acknowledge, Ctl!Touched, Ctl!SectorOffset, Ctl!Error, Ctl!ErrorText, Ctl!Respond
<1>2. Talk!Ctl!RunCommand <=> Ctl!RunCommand
  BY SameBytes, Zenon
    DEF Talk!Ctl!RunCommand, Talk!Ctl!IsCommand, Talk!Ctl!Rejected, Talk!Ctl!Input,
        Talk!Ctl!Output, Talk!Ctl!Valid, Talk!Ctl!Error, Talk!Ctl!ErrorText,
        Talk!Ctl!Respond, Talk!Ctl!SectorOf, Talk!Ctl!SectorOffset, Talk!Ctl!drives,
        Ctl!RunCommand, Ctl!IsCommand, Ctl!Rejected, Ctl!Input, Ctl!Output, Ctl!Valid,
        Ctl!Error, Ctl!ErrorText, Ctl!Respond, Ctl!SectorOf, Ctl!SectorOffset, Ctl!drives
<1>3. Talk!Ctl!WriteUndefined <=> Ctl!WriteUndefined
  BY Zenon
    DEF Talk!Ctl!WriteUndefined, Talk!Ctl!FitsDisc, Talk!Ctl!SectorOffset, Talk!Ctl!drives,
        Ctl!WriteUndefined, Ctl!FitsDisc, Ctl!SectorOffset, Ctl!drives
<1> QED
  BY <1>1, <1>2, <1>3, Zenon
    DEF Talk!Ctl!Putc, Talk!Ctl!Accepting, Talk!Ctl!PutOverflow, Talk!Ctl!PutChar,
        Talk!Ctl!PutEOT, Talk!Ctl!Write, Talk!Ctl!drives,
        Ctl!Putc, Ctl!Accepting, Ctl!PutOverflow, Ctl!PutChar, Ctl!PutEOT, Ctl!Write, Ctl!drives

LEMMA SameGetc == (Talk!Ctl!Getc <=> Ctl!Getc) /\ Talk!Ctl!GetChar = Ctl!GetChar
BY Zenon DEF Talk!Ctl!Getc, Ctl!Getc, Talk!Ctl!GetChar, Ctl!GetChar,
     Talk!Ctl!Responding, Ctl!Responding, Talk!Ctl!drives, Ctl!drives

LEMMA SameHost ==
  /\ Talk!HostAsk <=> HostAsk
  /\ Talk!HostSent <=> HostSent
  /\ Talk!NextChar = NextChar
  /\ \A c : Talk!HostReceived(c) <=> HostReceived(c)
<1>1. Talk!HostAsk <=> HostAsk
  BY Zenon DEF Talk!HostAsk, HostAsk, Talk!HostRequest, HostRequest
<1>2. Talk!HostSent <=> HostSent
  BY Zenon DEF Talk!HostSent, HostSent, Talk!Sending, Sending
<1>3. Talk!NextChar = NextChar
  BY Zenon DEF Talk!NextChar, NextChar, Talk!CommandText, CommandText
<1>4. \A c : Talk!HostReceived(c) <=> HostReceived(c)
  BY Zenon DEF Talk!HostReceived, HostReceived, Talk!TakeReply, TakeReply, Talk!TakeRest,
       TakeRest, Talk!TakeData, TakeData, Talk!TakeMessage, TakeMessage, Talk!DiscReturns,
       DiscReturns
<1> QED
  BY <1>1, <1>2, <1>3, <1>4

LEMMA SameDevice ==
  /\ Talk!Device!Init <=> Device!Init
  /\ [Talk!Device!Next]_(Talk!Device!vars) <=> [Device!Next]_(Device!vars)
<1> DEFINE There == [p \in Talk!Place |-> Talk!StoredAt(p)]
           Here == [p \in Place |-> StoredAt(p)]
<1>1. There = Here /\ There' = Here'
  BY Zenon DEF Talk!Place, Place, Talk!StoredAt, StoredAt,
       Talk!Ctl!SectorOf, Ctl!SectorOf, Talk!Ctl!SectorOffset, Ctl!SectorOffset
<1>2. /\ Talk!Phase(stored) = Phase(stored) /\ Talk!Phase(stored)' = Phase(stored)'
      /\ Talk!Answer = Answer /\ Talk!Answer' = Answer'
  BY Zenon DEF Talk!Phase, Phase, Talk!Answer, Answer
<1>3. Talk!Place = Place
  BY Zenon DEF Talk!Place, Place
<1>4. Talk!Device!Init <=> Device!Init
  BY <1>1, <1>2, <1>3, Zenon DEF Talk!Device!Init, Device!Init, Talk!Device!NoAnswer, Device!NoAnswer
<1>5. Talk!Device!Mount <=> Device!Mount
  BY <1>1, <1>2, <1>3, Zenon
  DEF Talk!Device!Mount, Device!Mount
<1>6. Talk!Device!Unmount <=> Device!Unmount
  BY <1>1, <1>2, <1>3, Zenon
  DEF Talk!Device!Unmount, Device!Unmount
<1>7. Talk!Device!Ask <=> Device!Ask
  BY <1>1, <1>2, <1>3, Zenon
  DEF Talk!Device!Ask, Device!Ask,
       Talk!Device!Request, Device!Request, Talk!Device!NoAnswer, Device!NoAnswer
<1>8. Talk!Device!Store <=> Device!Store
  BY <1>1, <1>2, <1>3, Zenon
  DEF Talk!Device!Store, Device!Store
<1>9. Talk!Device!AnswerWrite <=> Device!AnswerWrite
  BY <1>1, <1>2, <1>3, Zenon
  DEF Talk!Device!AnswerWrite, Device!AnswerWrite,
       Talk!Device!Ok, Device!Ok
<1>10. Talk!Device!AnswerRead <=> Device!AnswerRead
  BY <1>1, <1>2, <1>3, Zenon
  DEF Talk!Device!AnswerRead, Device!AnswerRead,
       Talk!Device!Ok, Device!Ok
<1>11. Talk!Device!Refuse <=> Device!Refuse
  BY <1>1, <1>2, <1>3, Zenon
  DEF Talk!Device!Refuse, Device!Refuse,
       Talk!Device!Refusal, Device!Refusal
<1>12. Talk!Device!vars = Device!vars /\ Talk!Device!vars' = Device!vars'
  BY <1>1, <1>2, Zenon DEF Talk!Device!vars, Device!vars
<1>13. Talk!Device!Next <=> Device!Next
  BY <1>5, <1>6, <1>7, <1>8, <1>9, <1>10, <1>11, Zenon DEF Talk!Device!Next, Device!Next
<1> QED
  BY <1>4, <1>12, <1>13

-----------------------------------------------------------------------------
(* The disc.                                                               *)

LEMMA Allowed == Talk!Lawful /\ (TextOnly => Talk!TextOnly)
<1>1. /\ EOT \in Barred
      /\ (Ctl!Command \cup Ctl!Message \cup {SOH, ACK, NAK, ENQ}) \cap Barred = {}
  BY BytesAssumption DEF Barred
<1>2. Talk!Place = Place
  BY Zenon DEF Talk!Place, Place
<1>3. Talk!Lawful
  BY <1>1, <1>2, SameBytes, SizesAssumption, BytesAssumption, HostAssumption DEF Talk!Lawful
<1>4. TextOnly => Talk!TextOnly
  BY SameBytes DEF TextOnly, Talk!TextOnly, Barred
<1> QED
  BY <1>3, <1>4

\* Nothing goes to the machine before the discs are in, and it is not in R/W when
\* it waits for a key.
Apart ==
  /\ pc = "insert" => Leaving = <<>>
  /\ reading => hpc = "idle"

DInv == Apart /\ Talk!IInv /\ DiscUndisturbed

\* What a step of the system has to be.
Relays == Apart' /\ DiscUndisturbed' /\ [Talk!Next]_(Talk!vars)

LEMMA InitDInv == Init => DInv /\ Talk!Init
<1> SUFFICES ASSUME Init PROVE DInv /\ Talk!Init
  OBVIOUS
<1>1. /\ in.q = <<>> /\ out.q = <<>> /\ toServer = <<>> /\ toHost = <<>>
      /\ ~reading /\ ~dropped
  BY DEF Init, EmptyPipe
<1>2. Arriving = <<>> /\ Leaving = <<>>
  BY <1>1, ConcatEmptySeq, EmptySeq DEF Arriving, Leaving
<1>3. Up = <<>> /\ Down = <<>>
  BY <1>2, ThoseNone DEF Up, Down
<1>4. Talk!Init
  BY <1>3, SameInit DEF Init, Talk!Init
<1>5. Talk!IInv
  BY <1>4, Talk!InitIInv
<1> QED
  BY <1>1, <1>2, <1>4, <1>5 DEF DInv, Apart, DiscUndisturbed

\* The steps that move nothing of the disc's.
LEMMA Stutters ==
  ASSUME DInv, Up' = Up, Down' = Down, UNCHANGED <<ctl, hvars, stored, dropped>>, Apart'
  PROVE  Relays
<1>1. Talk!vars' = Talk!vars
  BY DEF Talk!vars, Talk!ctl, Talk!hvars, ctl, hvars
<1>2. DiscUndisturbed'
  BY DEF DInv, DiscUndisturbed
<1> QED
  BY <1>1, <1>2 DEF Relays

\* What is the disc's of the line, when a character is added to it or taken from it.
LEMMA DiscAdded ==
  ASSUME NEW T, NEW q \in Seq(Tagged(T)), NEW x \in Tagged(T)
  PROVE  Those(Append(q, x), TRUE) =
           IF x.disc THEN Append(Those(q, TRUE), x.c) ELSE Those(q, TRUE)
<1>1. PICK d : d = TRUE
  OBVIOUS
<1>2. x.disc \in BOOLEAN
  BY DEF Tagged
<1>3. x.disc = d => Those(Append(q, x), d) = Append(Those(q, d), x.c)
  BY ThoseAppend
<1>4. x.disc # d => Those(Append(q, x), d) = Those(q, d)
  BY ThoseAppend
<1>5. CASE x.disc
  <2>1. x.disc = d
    BY <1>1, <1>2, <1>5
  <2> QED
    BY <1>1, <1>3, <1>5, <2>1
<1>6. CASE ~x.disc
  <2>1. x.disc # d
    BY <1>1, <1>2, <1>6
  <2> QED
    BY <1>1, <1>4, <1>6, <2>1
<1> QED
  BY <1>5, <1>6

LEMMA DiscTaken ==
  ASSUME NEW T, NEW q \in Seq(Tagged(T)), q # <<>>
  PROVE  /\ ~Head(q).disc => Those(Tail(q), TRUE) = Those(q, TRUE)
         /\ Head(q).disc =>
              /\ Those(q, TRUE) # <<>> /\ Head(Those(q, TRUE)) = Head(q).c
              /\ Those(Tail(q), TRUE) = Tail(Those(q, TRUE))
<1>1. PICK d : d = TRUE
  OBVIOUS
<1>2. Head(q).disc \in BOOLEAN
  <2>1. Head(q) \in Tagged(T)
    BY HeadTailProperties
  <2> QED
    BY <2>1 DEF Tagged
<1>3. Head(q).disc # d => Those(q, d) = Those(Tail(q), d)
  BY ThoseFirst
<1>4. Head(q).disc = d =>
        /\ Those(q, d) # <<>> /\ Head(Those(q, d)) = Head(q).c
        /\ Tail(Those(q, d)) = Those(Tail(q), d)
  BY ThoseFirst
<1>5. CASE Head(q).disc
  <2>1. Head(q).disc = d
    BY <1>1, <1>2, <1>5
  <2> QED
    BY <1>1, <1>4, <1>5, <2>1
<1>6. CASE ~Head(q).disc
  <2>1. Head(q).disc # d
    BY <1>1, <1>2, <1>6
  <2> QED
    BY <1>1, <1>3, <1>6, <2>1
<1> QED
  BY <1>5, <1>6

LEMMA ServeStep == ASSUME NEW T, Fits(T), DInv, Serve PROVE Relays
<1>1. /\ pc = "insert"
      /\ UNCHANGED <<pipes, stdin, line, console, hvars, stored, dropped>>
  BY DEF Serve, history
<1>2. PICK d \in 0 .. Discs - 1 :
        (\E f \in HostFile : Ctl!Insert(d, f)) \/ Ctl!InsertFails(d)
  BY DEF Serve
<1>3. Arriving' = Arriving /\ Leaving' = Leaving
  BY <1>1 DEF Arriving, Leaving, pipes, line
<1>4. Leaving = <<>>
  BY <1>1 DEF DInv, Apart
<1>5. Down = <<>> /\ Up' = Up /\ Down' = Down
  BY <1>3, <1>4, ThoseNone DEF Up, Down
<1>6. d \in Talk!Ctl!Drive
  BY SizesAssumption DEF Talk!Ctl!Drive
<1>7. Talk!Mount
  BY <1>1, <1>2, <1>5, <1>6, SameInsert DEF Talk!Mount, Talk!hvars, hvars
<1>8. Apart'
  BY <1>1, <1>3, <1>4 DEF DInv, Apart, console, hvars
<1>9. DiscUndisturbed'
  BY <1>1 DEF DInv, DiscUndisturbed
<1> QED
  BY <1>7, <1>8, <1>9 DEF Relays, Talk!Next

\* The steps of the server, of the keyboard and of the console that move none of
\* the disc's characters.
LEMMA QuietStep ==
  ASSUME NEW T, Fits(T), DInv,
         Move \/ StdinEnds \/ SerialEnds \/ FromStdinEnds \/ FromDiscEnds \/ Type
           \/ ConsolePut \/ ReadKey \/ UNCHANGED vars
  PROVE  Relays
<1>1. Arriving' = Arriving /\ Leaving' = Leaving
  <2>1. CASE Move
    BY <2>1, MoveEffect DEF SameQueues
  <2>2. CASE ~Move
    <3>1. UNCHANGED <<in, out, toServer, toHost>>
      BY <2>2 DEF StdinEnds, SerialEnds, FromStdinEnds, FromDiscEnds, Type, ConsolePut,
           ReadKey, vars, server, pipes, line
    <3> QED
      BY <3>1 DEF Arriving, Leaving
  <2> QED
    BY <2>1, <2>2
<1>2. UNCHANGED <<ctl, hvars, stored, dropped>>
  BY DEF Move, StdinEnds, SerialEnds, FromStdinEnds, FromDiscEnds, Type, ConsolePut,
     ReadKey, vars, server, history
<1>3. pc' = pc \/ pc' # "insert"
  BY DEF Move, StdinEnds, SerialEnds, FromStdinEnds, FromDiscEnds, Type, ConsolePut,
     ReadKey, vars, server
<1>4. reading' => reading \/ hpc = "idle"
  BY DEF Move, StdinEnds, SerialEnds, FromStdinEnds, FromDiscEnds, Type, ConsolePut,
     ReadKey, vars, server, console
<1>5. hpc' = hpc
  BY <1>2 DEF hvars
<1>6. Apart'
  BY <1>1, <1>3, <1>4, <1>5 DEF DInv, Apart
<1>7. Up' = Up /\ Down' = Down
  BY <1>1 DEF Up, Down
<1> QED
  BY <1>2, <1>6, <1>7, Stutters

\* The keyboard's characters and the console's are none of the disc's.
LEMMA FromStdinStep == ASSUME NEW T, Fits(T), DInv, FromStdin PROVE Relays
<1>1. /\ Keyed # <<>> /\ Head(Keyed) \in T
      /\ Leaving' = Append(Leaving, ForConsole(Head(Keyed))) /\ Arriving' = Arriving
  BY FromStdinEffect
<1>2. pc # "insert" /\ UNCHANGED <<ctl, hvars, console, pc, stored, dropped>>
  BY DEF FromStdin, history
<1>3. PICK q, x : q = Leaving /\ x = ForConsole(Head(Keyed))
  OBVIOUS
<1>4. q \in Seq(Tagged(T)) /\ x \in Tagged(T) /\ ~x.disc
  BY <1>1, <1>3, QueueTypes DEF Fits, Tagged, ForConsole
<1>5. Those(Append(q, x), TRUE) = Those(q, TRUE)
  BY <1>4, DiscAdded
<1>6. Up' = Up /\ Down' = Down
  BY <1>1, <1>3, <1>5 DEF Up, Down
<1>7. Apart'
  BY <1>2 DEF DInv, Apart, console, hvars
<1> QED
  BY <1>2, <1>6, <1>7, Stutters

LEMMA PrintCharStep == ASSUME NEW T, Fits(T), DInv, PrintChar PROVE Relays
<1>1. /\ toPrint # <<>> /\ toServer' = Append(toServer, ForConsole(Head(toPrint)))
      /\ toPrint' = Tail(toPrint)
      /\ UNCHANGED <<ctl, pc, pipes, stdin, toHost, hvars, reading, stored, dropped>>
  BY DEF PrintChar, server
<1>2. PICK q, p, x : q = Arriving /\ p = toPrint /\ x = ForConsole(Head(p))
  OBVIOUS
<1>3. q \in Seq(Tagged(T)) /\ p \in Seq(T) /\ p # <<>>
  BY <1>1, <1>2, QueueTypes DEF Fits, Typed
<1>4. Head(p) \in T /\ Tail(p) \in Seq(T)
  BY <1>3, HeadTailProperties
<1>5. x \in Tagged(T) /\ ~x.disc
  BY <1>2, <1>4 DEF Tagged, ForConsole
<1>6. Arriving' = Append(Arriving, x) /\ Leaving' = Leaving
  <2>1. toServer' = Append(toServer, x) /\ toPrint' \in Seq(T)
    BY <1>1, <1>2, <1>4
  <2> QED
    BY <1>1, <1>5, <2>1, SentEffect
<1>7. Those(Append(q, x), TRUE) = Those(q, TRUE)
  BY <1>3, <1>5, DiscAdded
<1>8. Up' = Up /\ Down' = Down
  BY <1>2, <1>6, <1>7 DEF Up, Down
<1>9. Apart'
  BY <1>1, <1>6 DEF DInv, Apart, hvars
<1> QED
  BY <1>1, <1>8, <1>9, Stutters

\* The controller takes whatever comes to it: a frame is on its way only while it
\* waits for one.
LEMMA Accepts == ASSUME TextOnly, DInv, Up # <<>> PROVE Ctl!Accepting
<1>1. PICK f \in Seq(Talk!Plain) : \E n \in 0 .. Len(f) + 1 : Talk!Frame(f, n)
  BY Allowed, Talk!FrameOnItsWay DEF DInv
<1> QED
  BY <1>1 DEF Talk!Frame, Talk!Commanding, Talk!Storing, Ctl!Accepting

LEMMA FromSerialStep == ASSUME TextOnly, NEW T, Fits(T), DInv, FromSerial PROVE Relays
<1>1. /\ Arriving # <<>> /\ Head(Arriving) = Head(in.q)
      /\ Arriving' = Tail(Arriving) /\ Leaving' = Leaving
  BY FromSerialEffect
<1>2. PICK q : q = Arriving
  OBVIOUS
<1>3. q \in Seq(Tagged(T)) /\ q # <<>>
  BY <1>1, <1>2, QueueTypes DEF Fits
<1>4. /\ ~Head(q).disc => Those(Tail(q), TRUE) = Those(q, TRUE)
      /\ Head(q).disc =>
           /\ Those(q, TRUE) # <<>> /\ Head(Those(q, TRUE)) = Head(q).c
           /\ Those(Tail(q), TRUE) = Tail(Those(q, TRUE))
  BY <1>3, DiscTaken
<1>5. Up = Those(q, TRUE) /\ Up' = Those(Tail(q), TRUE) /\ Down' = Down
  BY <1>1, <1>2 DEF Up, Down
<1>6. pc # "insert" /\ pc' # "insert" /\ UNCHANGED <<hvars, console>>
  BY DEF FromSerial
<1>7. Apart'
  BY <1>6 DEF DInv, Apart, console, hvars
<1>8. CASE Head(in.q).disc
  <2>1. Up # <<>> /\ Head(Up) = Head(in.q).c /\ Up' = Tail(Up)
    BY <1>1, <1>2, <1>4, <1>5, <1>8
  <2>2. Ctl!Accepting
    BY <2>1, Accepts
  <2>3. /\ Ctl!Putc(Head(in.q).c) /\ stored' = (stored \/ state' = "WRITTEN")
        /\ dropped' = dropped
    BY <1>8, <2>2 DEF FromSerial
  <2>4. Talk!Take
    BY <1>5, <1>6, <2>1, <2>3, SamePutc DEF Talk!Take, Talk!hvars, hvars
  <2>5. DiscUndisturbed'
    BY <2>3 DEF DInv, DiscUndisturbed
  <2> QED
    BY <1>7, <2>4, <2>5 DEF Relays, Talk!Next
<1>9. CASE ~Head(in.q).disc
  <2>1. UNCHANGED <<ctl, stored, dropped>>
    BY <1>9 DEF FromSerial
  <2>2. Up' = Up
    BY <1>1, <1>2, <1>4, <1>5, <1>9
  <2> QED
    BY <1>5, <1>6, <1>7, <2>1, <2>2, Stutters
<1> QED
  BY <1>8, <1>9

LEMMA FromDiscStep == ASSUME NEW T, Fits(T), DInv, FromDisc PROVE Relays
<1>1. Leaving' = Append(Leaving, ForDisc(Ctl!GetChar)) /\ Arriving' = Arriving
  BY FromDiscEffect
<1>2. /\ Ctl!Getc /\ pc # "insert" /\ pc' # "insert"
      /\ UNCHANGED <<hvars, console, stored, dropped>>
  BY DEF FromDisc, history
<1>3. Talk!Ctl!Getc /\ Talk!Ctl!GetChar = Ctl!GetChar
  BY <1>2, SameGetc
<1>4. PICK q, x, c : q = Leaving /\ x = ForDisc(c) /\ c = Ctl!GetChar
  OBVIOUS
<1>5. q \in Seq(Tagged(T)) /\ x \in Tagged(T) /\ x.disc /\ x.c = c
  BY <1>4, QueueTypes DEF Fits, Tagged, ForDisc
<1>6. Those(Append(q, x), TRUE) = Append(Those(q, TRUE), c)
  BY <1>5, DiscAdded
<1>7. Up' = Up /\ Down' = Append(Down, c)
  BY <1>1, <1>4, <1>6 DEF Up, Down
<1>8. Talk!Give
  BY <1>2, <1>3, <1>4, <1>7 DEF Talk!Give, Talk!hvars, hvars
<1>9. Apart'
  BY <1>2 DEF DInv, Apart, console, hvars
<1>10. DiscUndisturbed'
  BY <1>2 DEF DInv, DiscUndisturbed
<1> QED
  BY <1>8, <1>9, <1>10 DEF Relays, Talk!Next

LEMMA AskStep == ASSUME DInv, Ask PROVE Relays
<1>1. /\ ~reading /\ HostAsk /\ stored' = FALSE
      /\ UNCHANGED <<ctl, pc, pipes, line, reading, dropped>>
  BY DEF Ask, Free, server, console
<1>2. Arriving' = Arriving /\ Leaving' = Leaving
  BY <1>1 DEF Arriving, Leaving, pipes, line
<1>3. Up' = Up /\ Down' = Down
  BY <1>2 DEF Up, Down
<1>4. Talk!Ask
  BY <1>1, <1>3, SameHost DEF Talk!Ask, Talk!ctl, ctl
<1>5. Apart'
  BY <1>1, <1>2 DEF DInv, Apart
<1>6. DiscUndisturbed'
  BY <1>1 DEF DInv, DiscUndisturbed
<1> QED
  BY <1>4, <1>5, <1>6 DEF Relays, Talk!Next

LEMMA SendStep == ASSUME NEW T, Fits(T), DInv, Send PROVE Relays
<1>1. /\ ~reading /\ HostSent /\ toServer' = Append(toServer, ForDisc(NextChar))
      /\ UNCHANGED <<ctl, pc, pipes, stdin, toHost, toPrint, reading, stored, dropped>>
  BY DEF Send, Free, server, console, history
<1>2. PICK q, x, c : q = Arriving /\ x = ForDisc(c) /\ c = NextChar
  OBVIOUS
<1>3. q \in Seq(Tagged(T)) /\ x \in Tagged(T) /\ x.disc /\ x.c = c
  BY <1>2, QueueTypes DEF Fits, Tagged, ForDisc
<1>4. Arriving' = Append(Arriving, x) /\ Leaving' = Leaving
  <2>1. toServer' = Append(toServer, x) /\ toPrint' \in Seq(T)
    BY <1>1, <1>2 DEF Fits, Typed
  <2> QED
    BY <1>1, <1>3, <2>1, SentEffect
<1>5. Those(Append(q, x), TRUE) = Append(Those(q, TRUE), c)
  BY <1>3, DiscAdded
<1>6. Up' = Append(Up, NextChar) /\ Down' = Down
  BY <1>2, <1>4, <1>5 DEF Up, Down
<1>7. Talk!Send
  BY <1>1, <1>6, SameHost DEF Talk!Send, Talk!ctl, ctl
<1>8. Apart'
  BY <1>1, <1>4 DEF DInv, Apart
<1>9. DiscUndisturbed'
  BY <1>1 DEF DInv, DiscUndisturbed
<1> QED
  BY <1>7, <1>8, <1>9 DEF Relays, Talk!Next

\* What the machine takes from the line.
LEMMA TakenDown ==
  ASSUME NEW T, Fits(T), toHost # <<>>, toHost' = Tail(toHost),
         UNCHANGED <<pipes, stdin, toServer>>, toPrint' \in Seq(T)
  PROVE  /\ Leaving # <<>> /\ Up' = Up
         /\ ~Head(toHost).disc => Down' = Down
         /\ Head(toHost).disc =>
              Down # <<>> /\ Head(Down) = Head(toHost).c /\ Down' = Tail(Down)
<1>1. /\ Leaving # <<>> /\ Head(Leaving) = Head(toHost) /\ Leaving' = Tail(Leaving)
      /\ Arriving' = Arriving
  BY TakenEffect
<1>2. PICK q : q = Leaving
  OBVIOUS
<1>3. q \in Seq(Tagged(T)) /\ q # <<>>
  BY <1>1, <1>2, QueueTypes DEF Fits
<1>4. /\ ~Head(q).disc => Those(Tail(q), TRUE) = Those(q, TRUE)
      /\ Head(q).disc =>
           /\ Those(q, TRUE) # <<>> /\ Head(Those(q, TRUE)) = Head(q).c
           /\ Those(Tail(q), TRUE) = Tail(Those(q, TRUE))
  BY <1>3, DiscTaken
<1>5. Down = Those(q, TRUE) /\ Down' = Those(Tail(q), TRUE) /\ Up' = Up
  BY <1>1, <1>2 DEF Up, Down
<1> QED
  BY <1>1, <1>2, <1>4, <1>5

LEMMA ReceiveStep == ASSUME NEW T, Fits(T), DInv, Receive PROVE Relays
<1>1. /\ ~reading /\ toHost # <<>> /\ Head(toHost).disc /\ HostReceived(Head(toHost).c)
      /\ toHost' = Tail(toHost)
      /\ UNCHANGED <<ctl, pc, pipes, stdin, toServer, reading, stored, dropped>>
  BY DEF Receive, Free, server, history
<1>2. toPrint' \in Seq(T)
  BY ReceivedPrints
<1>3. /\ Leaving # <<>> /\ Up' = Up
      /\ Down # <<>> /\ Head(Down) = Head(toHost).c /\ Down' = Tail(Down)
  BY <1>1, <1>2, TakenDown
<1>4. Talk!Receive
  BY <1>1, <1>3, SameHost DEF Talk!Receive, Talk!ctl, ctl
<1>5. Apart'
  BY <1>1, <1>3 DEF DInv, Apart
<1>6. DiscUndisturbed'
  BY <1>1 DEF DInv, DiscUndisturbed
<1> QED
  BY <1>4, <1>5, <1>6 DEF Relays, Talk!Next

LEMMA SkipKeyStep == ASSUME NEW T, Fits(T), DInv, SkipKey PROVE Relays
<1>1. /\ ~reading /\ toHost # <<>> /\ ~Head(toHost).disc /\ toHost' = Tail(toHost)
      /\ UNCHANGED <<ctl, pc, pipes, stdin, toServer, toPrint, reading, hvars, stored, dropped>>
  BY DEF SkipKey, Free, server, console
<1>2. toPrint' \in Seq(T)
  BY <1>1 DEF Fits, Typed
<1>3. Leaving # <<>> /\ Up' = Up /\ Down' = Down
  BY <1>1, <1>2, TakenDown
<1>4. Apart'
  BY <1>1, <1>3 DEF DInv, Apart
<1> QED
  BY <1>1, <1>3, <1>4, Stutters

\* The machine waits for a key only when all of the last answer has been taken.
LEMMA TakeKeyStep == ASSUME NEW T, Fits(T), DInv, TakeKey PROVE Relays
<1>1. /\ reading /\ toHost # <<>> /\ toHost' = Tail(toHost)
      /\ reading' = Head(toHost).disc /\ dropped' = (dropped \/ Head(toHost).disc)
      /\ UNCHANGED <<ctl, pc, pipes, stdin, toServer, toPrint, hvars, stored>>
  BY DEF TakeKey, server
<1>2. toPrint' \in Seq(T)
  BY <1>1 DEF Fits, Typed
<1>3. Down = <<>>
  BY <1>1 DEF DInv, Apart, Talk!IInv, Talk!Aligned
<1>4. /\ Leaving # <<>> /\ Up' = Up /\ ~Head(toHost).disc /\ Down' = Down
  BY <1>1, <1>2, <1>3, TakenDown
<1>5. ~dropped' /\ ~reading'
  <2>1. Head(toHost).disc \in BOOLEAN
    <3>1. Head(toHost) \in Tagged(T)
      BY <1>1, HeadTailProperties DEF Fits, Typed
    <3> QED
      BY <3>1 DEF Tagged
  <2>2. Head(toHost).disc = FALSE
    BY <1>4, <2>1
  <2>3. ~dropped
    BY DEF DInv, DiscUndisturbed
  <2> QED
    BY <1>1, <2>2, <2>3
<1>6. Apart'
  BY <1>1, <1>4, <1>5 DEF DInv, Apart
<1>7. Talk!vars' = Talk!vars
  BY <1>1, <1>4 DEF Talk!vars, Talk!ctl, Talk!hvars, ctl, hvars
<1> QED
  BY <1>5, <1>6, <1>7 DEF Relays, DiscUndisturbed

LEMMA NextDInv ==
  ASSUME TextOnly, ConsoleInv, DInv, [Next]_vars
  PROVE  DInv' /\ [Talk!Next]_(Talk!vars)
<1>1. PICK T : Fits(T)
  BY SomeFits DEF ConsoleInv
<1>2. Relays
  <2>1. CASE Serve
    BY <1>1, <2>1, ServeStep
  <2>2. CASE Move \/ StdinEnds \/ SerialEnds \/ FromStdinEnds \/ FromDiscEnds \/ Type
               \/ ConsolePut \/ ReadKey \/ UNCHANGED vars
    BY <1>1, <2>2, QuietStep
  <2>3. CASE FromStdin
    BY <1>1, <2>3, FromStdinStep
  <2>4. CASE PrintChar
    BY <1>1, <2>4, PrintCharStep
  <2>5. CASE FromSerial
    BY <1>1, <2>5, FromSerialStep
  <2>6. CASE FromDisc
    BY <1>1, <2>6, FromDiscStep
  <2>7. CASE Ask
    BY <2>7, AskStep
  <2>8. CASE Send
    BY <1>1, <2>8, SendStep
  <2>9. CASE Receive
    BY <1>1, <2>9, ReceiveStep
  <2>10. CASE SkipKey
    BY <1>1, <2>10, SkipKeyStep
  <2>11. CASE TakeKey
    BY <1>1, <2>11, TakeKeyStep
  <2> QED
    BY <2>1, <2>2, <2>3, <2>4, <2>5, <2>6, <2>7, <2>8, <2>9, <2>10, <2>11
    DEF Next, ServerStep, HostStep
<1>3. Talk!IInv'
  BY <1>2, Allowed, Talk!NextIInv DEF DInv, Relays
<1> QED
  BY <1>2, <1>3 DEF DInv, Relays

LEMMA DiscInvariant == ASSUME TextOnly PROVE Spec => []DInv
BY ConsoleInvariant, InitDInv, NextDInv, PTL DEF Spec

\* The machine never reads a character of the disc as a key, nor does the server
\* give the controller one it is not waiting for, whenever keys are typed and
\* characters printed: with TextOnly, as what follows.
THEOREM DiscIsUndisturbed == ASSUME TextOnly PROVE Spec => []DiscUndisturbed
BY DiscInvariant, PTL DEF DInv

\* The characters of the disc on a shared line, and in the pipes of its server,
\* are two queues between R/W and the controller.
THEOREM MuxIsAConversation == ASSUME TextOnly PROVE Spec => Talk!Spec
BY ConsoleInvariant, InitDInv, NextDInv, DiscInvariant, PTL DEF Spec, Talk!Spec

\* What R/W is told is what the discs hold, over a line shared with the console,
\* whatever stdio calls fail but fflush.
THEOREM MuxIsADevice == ASSUME TextOnly PROVE Spec => ImplementsDevice
<1>1. Spec => Talk!Spec
  BY MuxIsAConversation
<1>2. Talk!Spec => Talk!ImplementsDevice
  BY Allowed, Talk!ConversationIsADevice
<1> QED
  BY <1>1, <1>2, SameDevice, PTL
  DEF ImplementsDevice, Device!Spec, Talk!ImplementsDevice, Talk!Device!Spec

=============================================================================
