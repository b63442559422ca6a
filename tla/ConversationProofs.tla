------------------------- MODULE ConversationProofs -------------------------
(***************************************************************************)
(* Proofs about Conversation, for every number of drives and sectors,      *)
(* every size of a sector and everything the discs may hold but the bytes  *)
(* the protocol cannot carry.                                              *)
(*                                                                         *)
(* R/W and the controller take turns: while one has sent less than a whole *)
(* frame, the other has nothing on its way.  So the inductive invariant    *)
(* gives for each place in R/W the state of the controller, and what is in *)
(* its buffer and on its way together.                                     *)
(***************************************************************************)
EXTENDS Conversation, SequenceTheorems, TLAPS

\* The bytes that do not come through as data: EOT, which ends it, and what a
\* server may take for a failure.
CONSTANT Barred

Plain == Ctl!Byte \ Barred

\* What may be on its way.
Passing == Plain \cup {EOT}

Text == [Ctl!Offset -> Plain]

\* A block is a sector of a disc that R/W knows, and the characters of the
\* protocol differ where they must.
Lawful ==
  /\ NDrive \in Nat \ {0} /\ NSector \in Nat \ {0} /\ SectorLen \in Nat \ {0}
  /\ BufSize = SectorLen + 3
  /\ EOT \in Barred
  /\ (Ctl!Command \cup Ctl!Message \cup {SOH, ACK, NAK, ENQ}) \cap Barred = {}
  /\ SOH # NAK /\ {ACK, ENQ} \cap {SOH, NAK} = {}
  /\ NoDisc \notin Ctl!Image /\ NoFile \notin Ctl!File
  /\ HostFile \subseteq Ctl!File /\ Heap \subseteq Ctl!Byte
  /\ HostPlace \subseteq Place /\ HostBlock \subseteq [1 .. SectorLen -> Ctl!Byte]

\* No file or block holds a barred byte, nor the memory an image is read into,
\* and fflush does not fail: its message, that goes to the image, ends in one.
TextOnly ==
  /\ \A f \in HostFile : \A o \in Ctl!Offset : f[o] \notin Barred
  /\ \A w \in HostBlock : \A i \in 1 .. SectorLen : w[i] \notin Barred
  /\ Heap \cap Barred = {}
  /\ "fflush" \notin Fault

-----------------------------------------------------------------------------
(* What is on its way on behalf of the request R/W serves.                 *)

\* What the controller has still to give, and what R/W has still to take.
Rest == IF Ctl!Responding THEN SubSeq(buf, idx + 1, Len(buf)) ELSE <<>>
Owed == down \o Rest

Present == req \in HostRequest /\ disc[req.place.drive] # NoDisc
Sector == Ctl!SectorOf(disc[req.place.drive], req.place.sector)

\* The write goes to a file, where R/W wants it.
Targeted ==
  /\ req \in HostRequest /\ req.op = "O"
  /\ disc[req.place.drive] # NoDisc /\ file[req.place.drive] # NoFile
  /\ target.drive = req.place.drive /\ target.sector = req.place.sector

\* R/W has sent n characters of a frame and its EOT, of which the controller has
\* the first and takes the others.
Sent(frame, n) ==
  /\ down = <<>> /\ idx = 0 /\ stored = FALSE
  /\ Len(buf) <= Len(frame)
  /\ buf \o up = SubSeq(Append(frame, EOT), 1, n)

Commanding(n) == state = "IDLE" /\ Sent(<<CommandText>>, n)
Storing(n) == state = "WRITING" /\ Targeted /\ Sent(req.data, n)

\* Of an answer, R/W has taken k characters.  The controller has some left to
\* give, or goes on.
Given(answer, k, during, after) ==
  /\ up = <<>>
  /\ Owed = SubSeq(answer, k + 1, Len(answer))
  /\ \/ state = during /\ idx < Len(buf)
     \/ state = after /\ idx = 0 /\ buf = <<>>

Reading(k) ==
  /\ req.op = "I" /\ Present /\ stored = FALSE
  /\ Given(<<SOH>> \o Sector \o <<ACK, EOT>>, k, "INPUT", "IDLE")
  /\ \A i \in 1 .. Len(got) : got[i] = Sector[i]

Promised(k) ==
  Targeted /\ stored = FALSE /\ Given(<<ENQ, EOT>>, k, "OUTPUT", "WRITING")

Acknowledged(k) ==
  req.op = "O" /\ stored = TRUE /\ Given(<<ACK, EOT>>, k, "WRITTEN", "IDLE")

Refused(k) ==
  /\ stored = FALSE
  /\ \E m \in Ctl!Message : Given(<<NAK, m, EOT>>, k, "ERROR", "IDLE")
  /\ disc[req.place.drive] = NoDisc \/ (req.op = "O" /\ Fault # {})

Aligned ==
  /\ hpc = "idle" => up = <<>> /\ down = <<>> /\ state = "IDLE" /\ buf = <<>> /\ idx = 0
  /\ hpc = "text" => Commanding(0)
  /\ hpc = "textEOT" => Commanding(1)
  /\ hpc = "reply" => Commanding(2) \/ Refused(0) \/ Reading(0) \/ Promised(0)
  /\ hpc = "absorb" => Promised(1)
  /\ hpc = "read" => Len(got) < SectorLen /\ Reading(1 + Len(got))
  /\ hpc = "block" => sent < SectorLen /\ Storing(sent)
  /\ hpc = "blockEOT" => Storing(SectorLen)
  /\ hpc = "lastReply" =>
       \/ Storing(SectorLen + 1) \/ Acknowledged(0) \/ Refused(0)
       \/ Len(got) = SectorLen /\ Reading(1 + SectorLen)
  /\ hpc = "lastAbsorb" =>
       Acknowledged(1) \/ (Len(got) = SectorLen /\ Reading(2 + SectorLen))
  /\ hpc = "message" => Refused(1) \/ Refused(2)

\* R/W begins with nothing, and has not returned yet.
Starting ==
  /\ hpc \in {"text", "textEOT", "reply", "absorb"} => sent = 0
  /\ hpc \in {"text", "textEOT", "reply"} => got = <<>>
  /\ hpc # "idle" => result = "none"

Mounted == \A d \in Ctl!Drive : disc[d] = NoDisc <=> file[d] = NoFile

TypeInv ==
  /\ hpc \in {"idle", "text", "textEOT", "reply", "absorb", "read", "block", "blockEOT",
              "lastReply", "lastAbsorb", "message"}
  /\ hpc # "idle" => req \in HostRequest
  /\ sent \in Nat /\ stored \in BOOLEAN /\ idx \in Nat
  /\ buf \in Seq(Passing) /\ up \in Seq(Passing) /\ down \in Seq(Passing) /\ got \in Seq(Passing)
  /\ disc \in [Ctl!Drive -> Text \cup {NoDisc}]
  /\ file \in [Ctl!Drive -> Ctl!File \cup {NoFile}]

IInv == TypeInv /\ Mounted /\ Aligned /\ Starting /\ status = "running"

-----------------------------------------------------------------------------
(* Sequences.                                                              *)

\* What is left of a sequence after its first k elements.
LEMMA Onward ==
  ASSUME NEW S, NEW q \in Seq(S), NEW k \in Nat, k < Len(q)
  PROVE  /\ SubSeq(q, k + 1, Len(q)) \in Seq(S) /\ SubSeq(q, k + 1, Len(q)) # <<>>
         /\ Head(SubSeq(q, k + 1, Len(q))) = q[k + 1] /\ q[k + 1] \in S
         /\ Tail(SubSeq(q, k + 1, Len(q))) = SubSeq(q, (k + 1) + 1, Len(q))
<1> DEFINE n == Len(q)
           m == k + 1
<1>1. n \in Nat /\ m \in 1 .. n /\ n \in m .. n
  BY LenProperties
<1>2. \A i \in m .. n : q[i] \in S
  BY <1>1, ElementOfSeq
<1>3. q[m] \in S
  BY <1>1, <1>2
<1> HIDE DEF m
<1>4. Head(SubSeq(q, m, n)) = q[m] /\ Tail(SubSeq(q, m, n)) = SubSeq(q, m + 1, n)
  BY <1>1, HeadTailOfSubSeq
<1>5. SubSeq(q, m, n) \in Seq(S) /\ Len(SubSeq(q, m, n)) = n - m + 1
  BY <1>1, <1>2, SubSeqProperties
<1>6. Len(SubSeq(q, m, n)) # 0
  BY <1>1, <1>5
<1>7. SubSeq(q, m, n) # <<>>
  BY <1>6, EmptySeq
<1> QED
  BY <1>3, <1>4, <1>5, <1>7 DEF m

LEMMA NothingLeft ==
  ASSUME NEW S, NEW q \in Seq(S), NEW k \in Nat, k >= Len(q)
  PROVE  SubSeq(q, k + 1, Len(q)) = <<>>
BY LenProperties, SubSeqEmpty

LEMMA HeadOfConcat ==
  ASSUME NEW S, NEW s \in Seq(S), NEW t \in Seq(S), s # <<>>
  PROVE  s \o t # <<>> /\ Head(s \o t) = Head(s) /\ Tail(s \o t) = Tail(s) \o t
<1> DEFINE w == s \o t
           u == Tail(s) \o t
<1>1. /\ Head(s) \in S /\ Tail(s) \in Seq(S) /\ Len(Tail(s)) = Len(s) - 1
      /\ \A i \in 1 .. Len(Tail(s)) : Tail(s)[i] = s[i + 1]
      /\ Len(s) \in Nat /\ Len(s) > 0 /\ Len(t) \in Nat
  BY HeadTailProperties, LenProperties, EmptySeq
<1>2. /\ w \in Seq(S) /\ Len(w) = Len(s) + Len(t)
      /\ \A i \in 1 .. Len(s) + Len(t) : w[i] = IF i <= Len(s) THEN s[i] ELSE t[i - Len(s)]
  BY ConcatProperties
<1>3. /\ u \in Seq(S) /\ Len(u) = Len(Tail(s)) + Len(t)
      /\ \A i \in 1 .. Len(Tail(s)) + Len(t) :
           u[i] = IF i <= Len(Tail(s)) THEN Tail(s)[i] ELSE t[i - Len(Tail(s))]
  BY <1>1, ConcatProperties
<1> HIDE DEF w, u
<1>4. w # <<>>
  BY <1>1, <1>2, EmptySeq
<1>5. /\ Tail(w) \in Seq(S) /\ Len(Tail(w)) = Len(w) - 1
      /\ \A i \in 1 .. Len(Tail(w)) : Tail(w)[i] = w[i + 1]
  BY <1>2, <1>4, HeadTailProperties
<1>6. Head(w) = w[1] /\ Head(s) = s[1] /\ w[1] = s[1]
  BY <1>1, <1>2, <1>4
<1>7. Len(Tail(w)) = Len(u)
  BY <1>1, <1>2, <1>3, <1>5
<1>8. ASSUME NEW i \in 1 .. Len(u)
      PROVE  Tail(w)[i] = u[i]
  <2>1. Tail(w)[i] = w[i + 1] /\ i + 1 \in 1 .. Len(s) + Len(t) /\ i \in Nat
    BY <1>1, <1>2, <1>3, <1>5, <1>7
  <2>2. CASE i <= Len(s) - 1
    BY <1>1, <1>2, <1>3, <2>1, <2>2
  <2>3. CASE ~(i <= Len(s) - 1)
    <3>1. ~(i + 1 <= Len(s)) /\ (i + 1) - Len(s) = i - (Len(s) - 1)
      BY <1>1, <2>1, <2>3
    <3> QED
      BY <1>1, <1>2, <1>3, <2>1, <2>3, <3>1
  <2> QED
    BY <2>2, <2>3
<1>9. Tail(w) = u
  BY <1>3, <1>5, <1>7, <1>8, SeqEqual
<1> QED
  BY <1>4, <1>6, <1>9 DEF w, u

\* A character that moves from the front of one sequence to the end of another.
LEMMA Moved ==
  ASSUME NEW S, NEW s \in Seq(S), NEW t \in Seq(S), t # <<>>
  PROVE  Append(s, Head(t)) \o Tail(t) = s \o t
<1>1. Head(t) \in S /\ Tail(t) \in Seq(S)
  BY HeadTailProperties
<1> DEFINE h == <<Head(t)>>
<1>2. h \in Seq(S) /\ Append(s, Head(t)) = s \o h /\ h \o Tail(t) = t
  BY <1>1, AppendIsConcat
<1> HIDE DEF h
<1> QED
  BY <1>1, <1>2, ConcatAssociative

\* A part of a queue joined to the rest of it.
LEMMA Rejoined ==
  ASSUME NEW S, NEW s \in Seq(S), NEW n \in 1 .. Len(s)
  PROVE  /\ SubSeq(s, 1, n) \in Seq(S) /\ SubSeq(s, n + 1, Len(s)) \in Seq(S)
         /\ SubSeq(s, 1, n) \o SubSeq(s, n + 1, Len(s)) = s
<1>1. n \in Nat /\ Len(s) \in Nat /\ n <= Len(s) /\ n > 0
  BY LenProperties
<1>2. \A i \in 1 .. Len(s) : s[i] \in S
  BY ElementOfSeq
<1>3. \A i \in 1 .. n : s[i] \in S
  BY <1>1, <1>2
<1>4. \A i \in n + 1 .. Len(s) : s[i] \in S
  BY <1>1, <1>2
<1>5. SubSeq(s, 1, n) \in Seq(S)
  BY <1>1, <1>3, SubSeqProperties
<1>6. SubSeq(s, n + 1, Len(s)) \in Seq(S)
  BY <1>1, <1>4, SubSeqProperties
<1>7. 1 \in 1 .. Len(s) + 1 /\ n \in 1 - 1 .. Len(s) /\ Len(s) \in n .. Len(s)
  BY <1>1
<1>8. SubSeq(s, 1, n) \o SubSeq(s, n + 1, Len(s)) = SubSeq(s, 1, Len(s))
  BY <1>7, ConcatAdjacentSubSeq
<1>9. SubSeq(s, 1, Len(s)) = s
  BY SubSeqFull
<1> QED
  BY <1>5, <1>6, <1>8, <1>9

\* A character appended to the second of two sequences.
LEMMA AppendToConcat ==
  ASSUME NEW S, NEW s \in Seq(S), NEW t \in Seq(S), NEW e \in S
  PROVE  s \o Append(t, e) = Append(s \o t, e)
<1> DEFINE h == <<e>>
<1>1. /\ h \in Seq(S) /\ Append(t, e) = t \o h /\ s \o t \in Seq(S)
      /\ Append(s \o t, e) = (s \o t) \o h
  BY AppendIsConcat, ConcatProperties
<1> HIDE DEF h
<1> QED
  BY <1>1, ConcatAssociative

-----------------------------------------------------------------------------
(* Characters, commands and answers.                                       *)

LEMMA Constants ==
  ASSUME Lawful
  PROVE  /\ Ctl!Command \subseteq Plain /\ Ctl!Message \subseteq Plain
         /\ {SOH, ACK, NAK, ENQ} \subseteq Plain
         /\ EOT \in Ctl!Byte /\ EOT \notin Plain /\ Plain \subseteq Passing /\ EOT \in Passing
         /\ Passing \subseteq Ctl!Byte /\ Plain \subseteq Ctl!Byte
         /\ SOH # NAK /\ ACK \notin {SOH, NAK} /\ ENQ \notin {SOH, NAK}
         /\ NDrive \in Nat /\ NDrive > 0 /\ NSector \in Nat /\ NSector > 0
         /\ SectorLen \in Nat /\ SectorLen > 0 /\ BufSize \in Nat /\ BufSize = SectorLen + 3
<1>1. /\ Ctl!Command \subseteq Ctl!Byte /\ Ctl!Message \subseteq Ctl!Byte
      /\ {SOH, ACK, NAK, ENQ, EOT} \subseteq Ctl!Byte
  BY DEF Ctl!Byte, Ctl!Control
<1>2. EOT \in Ctl!Byte /\ EOT \notin Plain /\ Plain \subseteq Passing /\ EOT \in Passing
      /\ Passing \subseteq Ctl!Byte /\ Plain \subseteq Ctl!Byte
  BY <1>1 DEF Lawful, Plain, Passing
<1>3. Ctl!Command \subseteq Plain /\ Ctl!Message \subseteq Plain
      /\ {SOH, ACK, NAK, ENQ} \subseteq Plain
  BY <1>1 DEF Lawful, Plain
<1>4. SOH # NAK /\ ACK \notin {SOH, NAK} /\ ENQ \notin {SOH, NAK}
  BY DEF Lawful
<1>5. /\ NDrive \in Nat /\ NDrive > 0 /\ NSector \in Nat /\ NSector > 0
      /\ SectorLen \in Nat /\ SectorLen > 0 /\ BufSize \in Nat /\ BufSize = SectorLen + 3
  BY DEF Lawful
<1> QED
  BY <1>2, <1>3, <1>4, <1>5

\* The bytes of a sector that is on the disc are at offsets of the disc.
LEMMA SectorIsOnDisc ==
  ASSUME Lawful, NEW s \in 0 .. NSector - 1, NEW i \in 1 .. SectorLen
  PROVE  s * SectorLen + i - 1 \in Ctl!Offset
<1>1. NSector \in Nat /\ SectorLen \in Nat /\ s \in Nat /\ i \in Nat
  BY Constants
<1>2. s * SectorLen \in Nat /\ NSector * SectorLen \in Nat
  BY <1>1
<1>3. (s + 1) * SectorLen <= NSector * SectorLen
  BY <1>1
<1>4. (s + 1) * SectorLen = s * SectorLen + SectorLen
  BY <1>1
<1> QED
  BY <1>1, <1>2, <1>3, <1>4 DEF Ctl!Offset

\* What a sector holds.
LEMMA SectorType ==
  ASSUME Lawful, NEW m \in Text, NEW s \in 0 .. NSector - 1
  PROVE  /\ Ctl!SectorOf(m, s) \in Seq(Plain) /\ Len(Ctl!SectorOf(m, s)) = SectorLen
         /\ Ctl!SectorOf(m, s) # <<>>
<1> DEFINE q == Ctl!SectorOf(m, s)
<1>1. /\ q = [i \in 1 .. SectorLen |-> m[s * SectorLen + i - 1]]
      /\ SectorLen \in Nat /\ SectorLen > 0
  BY Constants DEF Ctl!SectorOf, Ctl!SectorOffset
<1> HIDE DEF q
<1>2. \A i \in 1 .. SectorLen : m[s * SectorLen + i - 1] \in Plain
  BY SectorIsOnDisc DEF Text
<1>3. q \in [1 .. SectorLen -> Plain]
  BY <1>1, <1>2
<1>4. q \in Seq(Plain)
  BY <1>1, <1>3, SeqDef
<1>5. Len(q) = SectorLen
  BY <1>1, <1>3, <1>4, LenProperties
<1>6. q # <<>>
  BY <1>1, <1>4, <1>5, EmptySeq
<1> QED
  BY <1>4, <1>5, <1>6 DEF q

\* The answer to an I command, character by character.
LEMMA ReadAnswer ==
  ASSUME Lawful, NEW q \in Seq(Plain), Len(q) = SectorLen,
         NEW r, r = <<SOH>> \o q \o <<ACK, EOT>>
  PROVE  /\ r \in Seq(Passing) /\ Len(r) = SectorLen + 3 /\ r[1] = SOH
         /\ \A i \in 1 .. SectorLen : r[i + 1] = q[i]
         /\ r[SectorLen + 2] = ACK /\ r[SectorLen + 3] = EOT
<1> DEFINE first == <<SOH>>
           last == <<ACK, EOT>>
           p == first \o q
<1>1. /\ first \in Seq(Passing) /\ Len(first) = 1 /\ first[1] = SOH
      /\ last \in Seq(Passing) /\ Len(last) = 2 /\ last[1] = ACK /\ last[2] = EOT
      /\ q \in Seq(Passing)
  BY Constants, SeqMonotonic
<1>2. r = p \o last
  OBVIOUS
<1> HIDE DEF first, last
<1>3. /\ p \in Seq(Passing) /\ Len(p) = 1 + SectorLen /\ p[1] = SOH
      /\ \A i \in 1 .. SectorLen : p[i + 1] = q[i]
  <2>1. /\ p \in Seq(Passing) /\ Len(p) = Len(first) + Len(q)
        /\ \A i \in 1 .. Len(first) + Len(q) :
             p[i] = IF i <= Len(first) THEN first[i] ELSE q[i - Len(first)]
    BY <1>1, ConcatProperties
  <2> HIDE DEF p
  <2>2. \A i \in 1 .. SectorLen : i + 1 \in 1 .. 1 + SectorLen /\ ~(i + 1 <= 1) /\ i + 1 - 1 = i
    BY Constants
  <2> QED
    BY <1>1, <2>1, <2>2, Constants
<1> HIDE DEF p
<1>4. /\ p \o last \in Seq(Passing) /\ Len(p \o last) = Len(p) + Len(last)
      /\ \A i \in 1 .. Len(p) + Len(last) :
           (p \o last)[i] = IF i <= Len(p) THEN p[i] ELSE last[i - Len(p)]
  BY <1>1, <1>3, ConcatProperties
<1>5. /\ r \in Seq(Passing) /\ Len(r) = SectorLen + 3
      /\ \A i \in 1 .. SectorLen + 3 :
           r[i] = IF i <= 1 + SectorLen THEN p[i] ELSE last[i - (1 + SectorLen)]
  BY <1>1, <1>2, <1>3, <1>4, Constants
<1>6. /\ 1 \in 1 .. SectorLen + 3 /\ 1 <= 1 + SectorLen
      /\ \A i \in 1 .. SectorLen : i + 1 \in 1 .. SectorLen + 3 /\ i + 1 <= 1 + SectorLen
  BY Constants
<1>7. r[1] = p[1] /\ \A i \in 1 .. SectorLen : r[i + 1] = p[i + 1]
  BY <1>5, <1>6
<1>8. r[SectorLen + 2] = last[1] /\ r[SectorLen + 3] = last[2]
  <2>1. ASSUME NEW k \in {1, 2}
        PROVE  r[SectorLen + 1 + k] = last[k]
    <3> DEFINE n == SectorLen + 1 + k
    <3>1. n \in 1 .. SectorLen + 3 /\ ~(n <= 1 + SectorLen) /\ n - (1 + SectorLen) = k
      BY Constants
    <3> HIDE DEF n
    <3>2. r[n] = last[n - (1 + SectorLen)]
      BY <1>5, <3>1
    <3> QED
      BY <3>1, <3>2 DEF n
  <2>2. SectorLen + 1 + 1 = SectorLen + 2 /\ SectorLen + 1 + 2 = SectorLen + 3
    BY Constants
  <2>3. r[SectorLen + 1 + 1] = last[1] /\ r[SectorLen + 1 + 2] = last[2]
    BY <2>1
  <2> QED
    BY <2>2, <2>3
<1>9. \A i \in 1 .. SectorLen : r[i + 1] = q[i]
  BY <1>3, <1>7
<1> QED
  BY <1>1, <1>3, <1>5, <1>7, <1>8, <1>9

\* The other answers.
LEMMA TwoChars ==
  ASSUME Lawful, NEW c \in Plain
  PROVE  <<c, EOT>> \in Seq(Passing) /\ Len(<<c, EOT>>) = 2 /\ <<c, EOT>>[1] = c /\ <<c, EOT>>[2] = EOT
BY Constants

LEMMA ThreeChars ==
  ASSUME Lawful, NEW m \in Ctl!Message
  PROVE  /\ <<NAK, m, EOT>> \in Seq(Passing) /\ Len(<<NAK, m, EOT>>) = 3
         /\ <<NAK, m, EOT>>[1] = NAK /\ <<NAK, m, EOT>>[2] = m /\ <<NAK, m, EOT>>[3] = EOT
         /\ m # EOT
<1>1. NAK \in Passing /\ m \in Passing /\ EOT \in Passing /\ m # EOT
  BY Constants
<1> QED
  BY <1>1

\* A request names a drive and a sector that there are.
LEMMA RequestType ==
  ASSUME Lawful, TextOnly, NEW r \in HostRequest
  PROVE  /\ r.op \in {"I", "O"} /\ r.place \in Place
         /\ r.place.drive \in Ctl!Drive /\ r.place.sector \in 0 .. NSector - 1
         /\ r.op = "I" => r.data = <<>>
         /\ r.op = "O" => /\ r.data \in HostBlock /\ r.data \in [1 .. SectorLen -> Plain]
                          /\ r.data \in Seq(Plain) /\ Len(r.data) = SectorLen
<1>1. r.op \in {"I", "O"} /\ r.place \in HostPlace
      /\ (r.op = "I" => r.data = <<>>) /\ (r.op = "O" => r.data \in HostBlock)
  BY DEF HostRequest
<1>2. r.place \in Place
  BY <1>1 DEF Lawful
<1>3. r.place.drive \in Ctl!Drive /\ r.place.sector \in 0 .. NSector - 1
  BY <1>2 DEF Place, Ctl!Drive
<1>4. ASSUME NEW w \in HostBlock
      PROVE  w \in [1 .. SectorLen -> Plain] /\ w \in Seq(Plain) /\ Len(w) = SectorLen
  <2>1. w \in [1 .. SectorLen -> Plain] /\ SectorLen \in Nat
    BY Constants DEF Lawful, TextOnly, Plain
  <2>2. w \in Seq(Plain)
    BY <2>1, SeqDef
  <2> QED
    BY <2>1, <2>2, LenProperties
<1> QED
  BY <1>1, <1>2, <1>3, <1>4

LEMMA CommandType ==
  ASSUME Lawful, TextOnly, req \in HostRequest
  PROVE  /\ CommandText \in Ctl!Command /\ CommandText \in Plain
         /\ <<CommandText>> \in Seq(Plain) /\ Len(<<CommandText>>) = 1
         /\ CommandText.op = req.op /\ CommandText.drive = req.place.drive
         /\ CommandText.sector = req.place.sector
<1>1. /\ req.op \in {"I", "O"} /\ req.place.drive \in 0 .. NDrive
      /\ req.place.sector \in 0 .. NSector
  BY RequestType, Constants DEF Ctl!Drive
<1>2. /\ CommandText \in Ctl!Command
      /\ CommandText.op = req.op /\ CommandText.drive = req.place.drive
      /\ CommandText.sector = req.place.sector
  BY <1>1 DEF CommandText, Ctl!Command
<1> QED
  BY <1>2, Constants

-----------------------------------------------------------------------------
(* What is on its way.                                                     *)

LEMMA OwedType ==
  ASSUME TypeInv
  PROVE  Rest \in Seq(Passing) /\ Owed \in Seq(Passing)
<1>1. buf \in Seq(Passing) /\ down \in Seq(Passing) /\ idx \in Nat /\ Len(buf) \in Nat
  BY LenProperties DEF TypeInv
<1>2. \A i \in idx + 1 .. Len(buf) : buf[i] \in Passing
  BY <1>1, ElementOfSeq
<1>3. SubSeq(buf, idx + 1, Len(buf)) \in Seq(Passing)
  BY <1>1, <1>2, SubSeqProperties
<1>4. Rest \in Seq(Passing)
  BY <1>3, EmptySeq DEF Rest
<1> QED
  BY <1>1, <1>4, ConcatProperties DEF Owed

\* As long as the controller has something to give, R/W has something to take.
LEMMA GivenSome ==
  ASSUME TypeInv, NEW a \in Seq(Passing), NEW k \in Nat, k < Len(a), NEW d, NEW e,
         Given(a, k, d, e)
  PROVE  /\ up = <<>> /\ Owed # <<>> /\ Head(Owed) = a[k + 1]
         /\ Tail(Owed) = SubSeq(a, (k + 1) + 1, Len(a))
BY Onward DEF Given

LEMMA GivenAll ==
  ASSUME TypeInv, NEW a \in Seq(Passing), NEW k \in Nat, k >= Len(a),
         NEW d \in {"INPUT", "OUTPUT", "WRITTEN", "ERROR"}, NEW e, Given(a, k, d, e)
  PROVE  up = <<>> /\ down = <<>> /\ state = e /\ idx = 0 /\ buf = <<>>
<1>1. Owed = <<>>
  BY NothingLeft DEF Given
<1>2. down = <<>> /\ Rest = <<>>
  BY <1>1, OwedType, ConcatEqualIffEmpty DEF Owed, TypeInv
<1>3. ~(state = d /\ idx < Len(buf))
  <2>1. ASSUME state = d, idx < Len(buf) PROVE FALSE
    <3>1. Rest = SubSeq(buf, idx + 1, Len(buf))
      BY <2>1 DEF Rest, Ctl!Responding
    <3>2. Rest # <<>>
      BY <2>1, <3>1, Onward DEF TypeInv
    <3> QED
      BY <1>2, <3>2
  <2> QED
    BY <2>1
<1> QED
  BY <1>2, <1>3 DEF Given

\* A character that the controller gives goes from its buffer to what is on its
\* way; after the last one the controller goes on.
LEMMA GiveMoves ==
  ASSUME TypeInv, Give
  PROVE  /\ Owed' = Owed /\ Ctl!GetChar \in Passing
         /\ UNCHANGED <<up, disc, file, target, status, stored, hpc, req, sent, got, result>>
         /\ state \in {"INPUT", "OUTPUT", "WRITTEN", "ERROR"} /\ idx < Len(buf)
         /\ \/ state' = state /\ buf' = buf /\ idx' = idx + 1 /\ idx' < Len(buf')
            \/ /\ buf' = <<>> /\ idx' = 0
               /\ state' = (IF state = "OUTPUT" THEN "WRITING" ELSE "IDLE")
         /\ down' \in Seq(Passing)
<1>1. /\ idx < Len(buf) /\ state \in {"INPUT", "OUTPUT", "WRITTEN", "ERROR"}
      /\ UNCHANGED <<up, disc, file, target, status, stored, hpc, req, sent, got, result>>
      /\ down' = Append(down, buf[idx + 1])
  BY DEF Give, Ctl!Getc, Ctl!GetChar, Ctl!Responding, Ctl!drives, hvars
<1>2. Rest = SubSeq(buf, idx + 1, Len(buf))
  BY <1>1 DEF Rest, Ctl!Responding
<1>3. /\ Rest # <<>> /\ Head(Rest) = buf[idx + 1] /\ buf[idx + 1] \in Passing
      /\ Tail(Rest) = SubSeq(buf, (idx + 1) + 1, Len(buf))
  BY <1>1, <1>2, Onward DEF TypeInv
<1>4. down' = Append(down, Head(Rest)) /\ down' \in Seq(Passing)
  BY <1>1, <1>3, AppendProperties DEF TypeInv
<1>5. CASE idx + 1 < Len(buf)
  <2>1. state' = state /\ buf' = buf /\ idx' = idx + 1
    BY <1>5 DEF Give, Ctl!Getc
  <2>2. Rest' = Tail(Rest)
    BY <1>1, <1>3, <2>1 DEF Rest, Ctl!Responding
  <2>3. Owed' = Owed
    BY <1>3, <1>4, <2>2, Moved, OwedType DEF Owed, TypeInv
  <2> QED
    BY <1>1, <1>3, <1>4, <1>5, <2>1, <2>3 DEF Ctl!GetChar
<1>6. CASE ~(idx + 1 < Len(buf))
  <2>1. buf' = <<>> /\ idx' = 0 /\ state' = (IF state = "OUTPUT" THEN "WRITING" ELSE "IDLE")
    BY <1>6 DEF Give, Ctl!Getc
  <2>2. Rest' = <<>>
    BY <2>1 DEF Rest, Ctl!Responding
  <2>3. Tail(Rest) = <<>>
    <3>1. idx + 1 \in Nat /\ idx + 1 >= Len(buf) /\ buf \in Seq(Passing)
      BY <1>6, LenProperties DEF TypeInv
    <3> QED
      BY <1>3, <3>1, NothingLeft
  <2>4. Owed' = Owed
    BY <1>3, <1>4, <2>2, <2>3, Moved, OwedType DEF Owed, TypeInv
  <2> QED
    BY <1>1, <1>3, <1>4, <2>1, <2>4 DEF Ctl!GetChar
<1> QED
  BY <1>5, <1>6

LEMMA GivenKept ==
  ASSUME TypeInv, Give, NEW a, NEW k,
         NEW d \in {"INPUT", "OUTPUT", "WRITTEN", "ERROR"}, NEW e \in {"IDLE", "WRITING"},
         d = "OUTPUT" <=> e = "WRITING",
         Given(a, k, d, e)
  PROVE  Given(a, k, d, e)'
BY GiveMoves DEF Given

\* R/W takes the next character of the answer.
LEMMA GivenTaken ==
  ASSUME TypeInv, Receive, NEW a \in Seq(Passing), NEW k \in Nat, k < Len(a), NEW d, NEW e,
         Given(a, k, d, e)
  PROVE  HostReceived(a[k + 1]) /\ Given(a, k + 1, d, e)'
<1>1. /\ down # <<>> /\ down' = Tail(down) /\ HostReceived(Head(down))
      /\ UNCHANGED <<state, buf, idx, up>>
  BY DEF Receive, ctl
<1>2. Rest' = Rest
  BY <1>1 DEF Rest, Ctl!Responding
<1>3. Head(Owed) = Head(down) /\ Owed' = Tail(Owed)
  BY <1>1, <1>2, HeadOfConcat, OwedType DEF Owed, TypeInv
<1>4. Head(Owed) = a[k + 1] /\ Tail(Owed) = SubSeq(a, (k + 1) + 1, Len(a))
  BY GivenSome
<1> QED
  BY <1>1, <1>3, <1>4 DEF Given

\* R/W sends the next character of a frame.
LEMMA SentMore ==
  ASSUME TypeInv, Lawful, Send, NEW f \in Seq(Plain), NEW n \in 0 .. Len(f), Sent(f, n),
         NextChar = Append(f, EOT)[n + 1]
  PROVE  Sent(f, n + 1)' /\ up' \in Seq(Passing)
<1> DEFINE w == Append(f, EOT)
<1>1. /\ w \in Seq(Passing) /\ Len(w) = Len(f) + 1 /\ Len(f) \in Nat /\ n \in Nat
      /\ EOT \in Passing
  BY Constants, SeqMonotonic, AppendProperties, LenProperties
<1> HIDE DEF w
<1>2. w[n + 1] \in Passing /\ n + 1 \in 1 .. Len(w)
  BY <1>1, ElementOfSeq
<1>3. UNCHANGED <<buf, idx, down, stored>> /\ up' = Append(up, w[n + 1])
  BY DEF Send, ctl, w
<1>4. buf \o up' = Append(buf \o up, w[n + 1]) /\ up' \in Seq(Passing)
  <2>1. PICK p, q, e : p = buf /\ q = up /\ e = w[n + 1]
    OBVIOUS
  <2>2. p \in Seq(Passing) /\ q \in Seq(Passing) /\ e \in Passing
    BY <1>2, <2>1 DEF TypeInv
  <2>3. p \o Append(q, e) = Append(p \o q, e)
    BY <2>2, AppendToConcat
  <2>4. Append(q, e) \in Seq(Passing)
    BY <2>2, AppendProperties
  <2> QED
    BY <1>3, <2>1, <2>3, <2>4
<1>5. SubSeq(w, 1, n + 1) = Append(SubSeq(w, 1, n), w[n + 1])
  <2>1. SubSeq(w, 1, n + 1) = SubSeq(w, 1, (n + 1) - 1) \o <<w[n + 1]>>
    <3>1. 1 \in 1 .. Len(w) /\ n + 1 \in 1 .. Len(w)
      BY <1>1, <1>2
    <3> QED
      BY <1>1, <3>1, SubSeqRecursiveSecond
  <2>2. SubSeq(w, 1, n) \in Seq(Passing)
    <3>1. \A i \in 1 .. n : w[i] \in Passing
      BY <1>1, ElementOfSeq
    <3> QED
      BY <1>1, <3>1, SubSeqProperties
  <2>3. (n + 1) - 1 = n
    BY <1>1
  <2> QED
    BY <1>2, <2>1, <2>2, <2>3, AppendIsConcat
<1>6. buf \o up = SubSeq(w, 1, n) /\ down = <<>> /\ idx = 0 /\ stored = FALSE /\ Len(buf) <= Len(f)
  BY DEF Sent, w
<1>7. buf' \o up' = SubSeq(w, 1, n + 1)
  BY <1>3, <1>4, <1>5, <1>6
<1> QED
  BY <1>3, <1>4, <1>6, <1>7 DEF Sent, w

\* The next character of a frame that the controller takes is in its place, and
\* the EOT is the last.
LEMMA SentNext ==
  ASSUME TypeInv, Lawful, NEW f \in Seq(Plain), NEW n \in 0 .. Len(f) + 1, Sent(f, n), up # <<>>
  PROVE  /\ Head(up) \in Passing /\ Tail(up) \in Seq(Passing)
         /\ \/ Len(buf) < Len(f) /\ Head(up) \in Plain
            \/ n = Len(f) + 1 /\ Head(up) = EOT /\ Tail(up) = <<>> /\ buf = f
<1> DEFINE w == Append(f, EOT)
           b == Len(buf)
<1>1. /\ w \in Seq(Passing) /\ Len(w) = Len(f) + 1 /\ Len(f) \in Nat
      /\ n \in Nat /\ n <= Len(f) + 1
      /\ \A i \in 1 .. Len(f) : w[i] = f[i]
      /\ w[Len(f) + 1] = EOT
  BY Constants, SeqMonotonic, AppendProperties, LenProperties
<1> HIDE DEF w
<1>2. /\ SubSeq(w, 1, n) \in Seq(Passing) /\ Len(SubSeq(w, 1, n)) = n
      /\ \A i \in 1 .. n : SubSeq(w, 1, n)[i] = w[i]
  <2>1. \A i \in 1 .. n : w[i] \in Passing
    BY <1>1, ElementOfSeq
  <2>2. n - 1 + 1 = n /\ (1 <= n => n - 1 + 1 = n) /\ (~(1 <= n) => n = 0) /\ \A i \in 1 .. n : 1 + i - 1 = i
    BY <1>1
  <2> QED
    BY <1>1, <2>1, <2>2, SubSeqProperties
<1>3. /\ buf \in Seq(Passing) /\ up \in Seq(Passing) /\ b \in Nat /\ Len(up) \in Nat /\ Len(up) > 0
      /\ b <= Len(f) /\ buf \o up = SubSeq(w, 1, n)
  BY LenProperties, EmptySeq DEF Sent, TypeInv, w
<1>4. /\ Len(buf \o up) = b + Len(up)
      /\ \A i \in 1 .. b + Len(up) : (buf \o up)[i] = IF i <= b THEN buf[i] ELSE up[i - b]
  BY <1>3, ConcatProperties
<1>5. /\ Head(up) \in Passing /\ Tail(up) \in Seq(Passing) /\ Len(Tail(up)) = Len(up) - 1
      /\ Head(up) = up[1]
  BY <1>3, HeadTailProperties
<1>6. n = b + Len(up) /\ up[1] = w[b + 1] /\ \A i \in 1 .. b : buf[i] = w[i]
  <2>1. n = b + Len(up)
    BY <1>2, <1>3, <1>4
  <2>2. b + 1 \in 1 .. n /\ ~(b + 1 <= b) /\ (b + 1) - b = 1
    BY <1>3, <2>1
  <2>3. (buf \o up)[b + 1] = up[1] /\ (buf \o up)[b + 1] = w[b + 1]
    BY <1>2, <1>3, <1>4, <2>1, <2>2
  <2>4. \A i \in 1 .. b : i \in 1 .. n /\ i <= b
    BY <1>3, <2>1
  <2>5. \A i \in 1 .. b : buf[i] = w[i]
    BY <1>2, <1>3, <1>4, <2>1, <2>4
  <2> QED
    BY <2>1, <2>3, <2>5
<1>7. CASE b < Len(f)
  <2>1. b + 1 \in 1 .. Len(f)
    BY <1>1, <1>3, <1>7
  <2>2. w[b + 1] = f[b + 1] /\ f[b + 1] \in Plain
    BY <1>1, <2>1, ElementOfSeq
  <2> QED
    BY <1>5, <1>6, <1>7, <2>2
<1>8. CASE b = Len(f)
  <2>1. Len(up) = 1 /\ n = Len(f) + 1
    <3>1. /\ n = Len(f) + Len(up) /\ Len(up) \in Nat /\ Len(up) > 0
          /\ Len(f) \in Nat /\ n \in Nat /\ n <= Len(f) + 1
      BY <1>1, <1>3, <1>6, <1>8
    <3>2. ASSUME NEW l \in Nat, NEW u \in Nat, u > 0, l + u <= l + 1
          PROVE  u = 1
      BY <3>2
    <3> QED
      BY <3>1, <3>2
  <2>2. Len(Tail(up)) = 0
    BY <1>5, <2>1
  <2>6. Tail(up) = <<>>
    BY <1>5, <2>2, EmptySeq
  <2>3. f \in Seq(Passing)
    BY Constants, SeqMonotonic
  <2>4. \A i \in 1 .. Len(buf) : buf[i] = f[i]
    BY <1>1, <1>6, <1>8
  <2>5. buf = f
    BY <1>3, <1>8, <2>3, <2>4, SeqEqual
  <2> QED
    BY <1>1, <1>5, <1>6, <1>8, <2>1, <2>5, <2>6
<1> QED
  BY <1>1, <1>3, <1>7, <1>8

\* The answer to a read.
LEMMA Reads ==
  ASSUME Lawful, TextOnly, TypeInv, Present, NEW r, r = <<SOH>> \o Sector \o <<ACK, EOT>>
  PROVE  /\ Sector \in Seq(Plain) /\ Len(Sector) = SectorLen /\ Sector # <<>>
         /\ r \in Seq(Passing) /\ Len(r) = SectorLen + 3 /\ r[1] = SOH
         /\ \A i \in 1 .. SectorLen : r[i + 1] = Sector[i]
         /\ r[SectorLen + 2] = ACK /\ r[SectorLen + 3] = EOT
<1>1. disc[req.place.drive] \in Text /\ req.place.sector \in 0 .. NSector - 1
  BY RequestType DEF Present, TypeInv
<1>2. Sector \in Seq(Plain) /\ Len(Sector) = SectorLen /\ Sector # <<>>
  BY <1>1, SectorType DEF Sector
<1> QED
  BY <1>2, ReadAnswer

\* R/W has not taken all of an answer: there is some of it on its way.
LEMMA AnswerOnItsWay ==
  ASSUME Lawful, TextOnly, TypeInv, NEW k \in Nat,
         \/ Reading(k) /\ k < SectorLen + 3
         \/ (Promised(k) \/ Acknowledged(k)) /\ k < 2
         \/ Refused(k) /\ k < 3
  PROVE  Owed # <<>> /\ up = <<>>
<1>1. CASE Reading(k) /\ k < SectorLen + 3
  <2>1. PICK r : r = <<SOH>> \o Sector \o <<ACK, EOT>>
    OBVIOUS
  <2>2. r \in Seq(Passing) /\ Len(r) = SectorLen + 3
    BY <1>1, <2>1, Reads DEF Reading
  <2> QED
    BY <1>1, <2>1, <2>2, GivenSome DEF Reading
<1>2. CASE Promised(k) /\ k < 2
  BY <1>2, TwoChars, GivenSome, Constants DEF Promised
<1>3. CASE Acknowledged(k) /\ k < 2
  BY <1>3, TwoChars, GivenSome, Constants DEF Acknowledged
<1>4. CASE Refused(k) /\ k < 3
  BY <1>4, ThreeChars, GivenSome DEF Refused
<1> QED
  BY <1>1, <1>2, <1>3, <1>4

\* When nothing of an answer is on its way, R/W has one still to ask for: it is
\* in the middle of a command or of a block, or has not begun.
LEMMA NoAnswer ==
  ASSUME Lawful, TextOnly, IInv, Owed = <<>>
  PROVE  \/ hpc = "idle"
         \/ hpc = "text" /\ Commanding(0)
         \/ hpc = "textEOT" /\ Commanding(1)
         \/ hpc = "reply" /\ Commanding(2)
         \/ hpc = "block" /\ Storing(sent) /\ sent < SectorLen
         \/ hpc = "blockEOT" /\ Storing(SectorLen)
         \/ hpc = "lastReply" /\ Storing(SectorLen + 1)
<1>1. /\ TypeInv /\ Len(got) \in Nat /\ SectorLen \in Nat
  BY Constants, LenProperties DEF IInv, TypeInv
<1>2. ~Reading(0) /\ ~Promised(0) /\ ~Acknowledged(0) /\ ~Refused(0)
  BY <1>1, AnswerOnItsWay, Constants
<1>3. ~Promised(1) /\ ~Acknowledged(1) /\ ~Refused(1) /\ ~Refused(2)
  BY <1>1, AnswerOnItsWay
<1>4. ~Reading(1 + SectorLen) /\ ~Reading(2 + SectorLen)
      /\ ~(Len(got) < SectorLen /\ Reading(1 + Len(got)))
  <2>1. \A k \in Nat : k < SectorLen + 3 => ~Reading(k)
    BY <1>1, AnswerOnItsWay
  <2>2. /\ 1 + SectorLen \in Nat /\ 1 + SectorLen < SectorLen + 3
        /\ 2 + SectorLen \in Nat /\ 2 + SectorLen < SectorLen + 3
        /\ 1 + Len(got) \in Nat /\ (Len(got) < SectorLen => 1 + Len(got) < SectorLen + 3)
    BY <1>1
  <2> QED
    BY <2>1, <2>2
<1> QED
  BY <1>1, <1>2, <1>3, <1>4 DEF IInv, Aligned, TypeInv

-----------------------------------------------------------------------------
(* Each action preserves the inductive invariant.                          *)

LEMMA InitIInv == Init => IInv
<1> SUFFICES ASSUME Init PROVE IInv
  OBVIOUS
<1>1. /\ state = "IDLE" /\ buf = <<>> /\ idx = 0 /\ status = "running"
      /\ disc = [d \in Ctl!Drive |-> NoDisc] /\ file = [d \in Ctl!Drive |-> NoFile]
      /\ hpc = "idle" /\ sent = 0 /\ got = <<>> /\ up = <<>> /\ down = <<>> /\ stored = FALSE
  BY DEF Init, Ctl!Init, HostInit
<1>2. TypeInv
  BY <1>1, EmptySeq DEF TypeInv
<1> QED
  BY <1>1, <1>2 DEF IInv, Mounted, Aligned, Starting

\* A disc may be put in while a command is on its way, but not once it is
\* answered.
LEMMA MountStep ==
  ASSUME Lawful, TextOnly, IInv, Mount
  PROVE  IInv' /\ \A d \in Ctl!Drive : disc[d] # NoDisc => disc'[d] = disc[d]
<1>1. PICK d \in Ctl!Drive : (\E f \in HostFile : Ctl!Insert(d, f)) \/ Ctl!InsertFails(d)
  BY DEF Mount
<1>2. /\ state = "IDLE" /\ buf = <<>> /\ down = <<>> /\ file[d] = NoFile
      /\ UNCHANGED <<state, buf, idx, target, status, up, down, stored, hpc, req, sent, got, result>>
  BY <1>1 DEF Mount, Ctl!Insert, Ctl!InsertFails, Ctl!BetweenTransfers, Ctl!DriveEmpty, hvars
<1>3. Owed = <<>>
  BY <1>2 DEF Owed, Rest, Ctl!Responding
<1>4. disc[d] = NoDisc /\ NoDisc \notin Text
  <2>1. Text \subseteq Ctl!Image
    BY DEF Text, Ctl!Image, Plain
  <2> QED
    BY <1>2, <2>1 DEF IInv, Mounted, Lawful
<1>5. /\ disc' \in [Ctl!Drive -> Text \cup {NoDisc}]
      /\ file' \in [Ctl!Drive -> Ctl!File \cup {NoFile}]
      /\ Mounted' /\ \A e \in Ctl!Drive : disc[e] # NoDisc => disc'[e] = disc[e]
  <2>1. CASE Ctl!InsertFails(d)
    <3>1. disc' = disc /\ file' = file
      BY <1>4, <2>1 DEF Ctl!InsertFails, IInv, TypeInv
    <3> QED
      BY <3>1 DEF IInv, TypeInv, Mounted
  <2>2. ASSUME NEW f \in HostFile, Ctl!Insert(d, f)
        PROVE  /\ disc' \in [Ctl!Drive -> Text \cup {NoDisc}]
               /\ file' \in [Ctl!Drive -> Ctl!File \cup {NoFile}]
               /\ Mounted' /\ \A e \in Ctl!Drive : disc[e] # NoDisc => disc'[e] = disc[e]
    <3>1. PICK h \in [Ctl!Offset -> Heap] : disc' = [disc EXCEPT ![d] = Ctl!ImageOf(f, h)]
      BY <2>2 DEF Ctl!Insert
    <3>2. file' = [file EXCEPT ![d] = f] /\ f \in Ctl!File /\ f # NoFile
      BY <2>2 DEF Ctl!Insert, Lawful
    <3>3. Ctl!ImageOf(f, h) \in Text
      BY <2>2, <3>2 DEF Ctl!ImageOf, Ctl!File, Text, Plain, TextOnly, Lawful
    <3> HIDE DEF Text
    <3> QED
      BY <1>4, <3>1, <3>2, <3>3 DEF IInv, TypeInv, Mounted
  <2> QED
    BY <1>1, <2>1, <2>2
<1>6. TypeInv'
  BY <1>2, <1>5 DEF IInv, TypeInv
<1>7. \A n \in 0 .. 2 : Commanding(n) => Commanding(n)'
  <2>1. CommandText' = CommandText
    BY <1>2 DEF CommandText
  <2> QED
    BY <1>2, <2>1 DEF Commanding, Sent
<1>8. \/ hpc = "idle"
      \/ hpc = "text" /\ Commanding(0)
      \/ hpc = "textEOT" /\ Commanding(1)
      \/ hpc = "reply" /\ Commanding(2)
  BY <1>2, <1>3, NoAnswer DEF Storing
<1>9. Aligned'
  BY <1>2, <1>7, <1>8 DEF Aligned, IInv
<1> QED
  BY <1>2, <1>5, <1>6, <1>9 DEF IInv, Starting

LEMMA AskStep ==
  ASSUME IInv, Ask
  PROVE  IInv'
<1>1. /\ UNCHANGED <<state, buf, idx, status, disc, file, up, down>>
      /\ hpc = "idle" /\ hpc' = "text" /\ req' \in HostRequest /\ sent' = 0 /\ got' = <<>>
      /\ result' = "none" /\ stored' = FALSE
  BY DEF Ask, HostAsk, ctl
<1>2. TypeInv'
  BY <1>1, EmptySeq DEF IInv, TypeInv
<1>3. buf = <<>> /\ up = <<>> /\ down = <<>> /\ idx = 0 /\ state = "IDLE"
  BY <1>1 DEF IInv, Aligned
<1>4. Commanding(0)'
  <2>1. \A w : SubSeq(w, 1, 0) = <<>>
    BY SubSeqEmpty
  <2>2. buf' \o up' = <<>> /\ Len(buf') = 0
    BY <1>1, <1>3, ConcatEmptySeq, EmptySeq
  <2>3. \A c : Len(<<c>>) = 1
    OBVIOUS
  <2> QED
    BY <1>1, <1>3, <2>1, <2>2, <2>3 DEF Commanding, Sent
<1> QED
  BY <1>1, <1>2, <1>4 DEF IInv, Mounted, Starting, Aligned

\* R/W sends a character.
LEMMA SendQuiet ==
  ASSUME Lawful, TextOnly, IInv, Send
  PROVE  /\ UNCHANGED <<state, buf, idx, target, disc, file, status, down, stored, req, got, result>>
         /\ hpc \in {"text", "textEOT", "block", "blockEOT"} /\ req \in HostRequest
         /\ CommandText' = CommandText /\ (Targeted <=> Targeted')
<1>1. /\ UNCHANGED <<state, buf, idx, target, disc, file, status, down, stored, req, got, result>>
      /\ hpc \in {"text", "textEOT", "block", "blockEOT"}
  BY DEF Send, HostSent, Sending, ctl
<1> QED
  BY <1>1 DEF IInv, TypeInv, CommandText, Targeted

LEMMA SendStep ==
  ASSUME Lawful, TextOnly, IInv, Send
  PROVE  IInv' /\ UNCHANGED <<disc, req, stored>> /\ hpc # "idle" /\ hpc' # "idle"
<1>1. /\ TypeInv /\ Starting /\ Aligned /\ sent \in Nat
      /\ SectorLen \in Nat /\ SectorLen > 0
  BY Constants DEF IInv, TypeInv
<1>2. SUFFICES /\ Aligned' /\ up' \in Seq(Passing) /\ sent' \in Nat
               /\ hpc' \in {"textEOT", "reply", "block", "blockEOT", "lastReply"}
               /\ hpc' \in {"textEOT", "reply"} => sent' = 0 /\ got' = <<>>
  <2>1. hpc \in {"text", "textEOT", "block", "blockEOT"} /\ result = "none"
    BY SendQuiet DEF IInv, Starting
  <2> QED
    BY <1>2, <2>1, SendQuiet DEF IInv, TypeInv, Starting, Mounted
<1>3. CASE hpc \in {"text", "textEOT"}
  <2>1. PICK f : f = <<CommandText>>
    OBVIOUS
  <2>2. f \in Seq(Plain) /\ Len(f) = 1 /\ Append(f, EOT)[1] = CommandText /\ Append(f, EOT)[2] = EOT
    BY <2>1, SendQuiet, CommandType
  <2>3. sent' = sent /\ sent = 0 /\ got = <<>> /\ got' = got
    BY <1>1, <1>3, SendQuiet DEF Send, HostSent, Starting
  <2>4. CASE hpc = "text"
    <3>1. hpc' = "textEOT" /\ NextChar = CommandText
      BY <2>4 DEF Send, HostSent, NextChar
    <3>2. state = "IDLE" /\ Sent(f, 0)
      BY <1>1, <2>1, <2>4 DEF Aligned, Commanding
    <3>3. Sent(f, 1)' /\ up' \in Seq(Passing)
      <4>1. 0 \in 0 .. Len(f) /\ NextChar = Append(f, EOT)[0 + 1] /\ 0 + 1 = 1
        BY <2>2, <3>1
      <4> QED
        BY <1>1, <2>2, <3>2, <4>1, SentMore
    <3>4. Commanding(1)'
      BY <2>1, <3>2, <3>3, SendQuiet DEF Commanding, Sent
    <3> QED
      BY <2>3, <3>1, <3>3, <3>4 DEF Aligned
  <2>5. CASE hpc = "textEOT"
    <3>1. hpc' = "reply" /\ NextChar = EOT
      BY <2>5 DEF Send, HostSent, NextChar
    <3>2. state = "IDLE" /\ Sent(f, 1)
      BY <1>1, <2>1, <2>5 DEF Aligned, Commanding
    <3>3. Sent(f, 2)' /\ up' \in Seq(Passing)
      <4>1. 1 \in 0 .. Len(f) /\ 1 + 1 = 2
        BY <2>2
      <4>2. NextChar = Append(f, EOT)[1 + 1]
        BY <2>2, <3>1, <4>1
      <4> QED
        BY <1>1, <2>2, <3>2, <4>1, <4>2, SentMore
    <3>4. Commanding(2)'
      BY <2>1, <3>2, <3>3, SendQuiet DEF Commanding, Sent
    <3> QED
      BY <2>3, <3>1, <3>3, <3>4 DEF Aligned
  <2> QED
    BY <1>3, <2>4, <2>5
<1>4. CASE hpc \in {"block", "blockEOT"}
  <2>1. PICK f : f = req.data
    OBVIOUS
  <2>2. Targeted
    BY <1>1, <1>4 DEF Aligned, Storing
  <2>3. f \in Seq(Plain) /\ Len(f) = SectorLen /\ f \in [1 .. SectorLen -> Plain]
    BY <2>1, <2>2, RequestType DEF Targeted
  <2>4. /\ \A i \in 1 .. SectorLen : Append(f, EOT)[i] = f[i]
        /\ Append(f, EOT)[SectorLen + 1] = EOT
    BY <2>3, AppendProperties, Constants, SeqMonotonic
  <2>5. CASE hpc = "block"
    <3>1. /\ sent < SectorLen /\ state = "WRITING" /\ Sent(f, sent)
      BY <1>1, <2>1, <2>5 DEF Aligned, Storing
    <3>2. /\ hpc' = (IF sent + 1 = SectorLen THEN "blockEOT" ELSE "block") /\ sent' = sent + 1
          /\ NextChar = f[sent + 1]
      BY <2>1, <2>5 DEF Send, HostSent, NextChar
    <3>3. PICK n : n = sent
      OBVIOUS
    <3>4. Sent(f, n + 1)' /\ up' \in Seq(Passing)
      <4>1. n \in 0 .. Len(f) /\ n + 1 \in 1 .. SectorLen
        BY <1>1, <2>3, <3>1, <3>3
      <4>2. NextChar = Append(f, EOT)[n + 1]
        BY <2>4, <3>2, <3>3, <4>1
      <4> QED
        BY <1>1, <2>3, <3>1, <3>3, <4>1, <4>2, SentMore
    <3>5. Storing(n + 1)'
      BY <2>1, <2>2, <3>1, <3>4, SendQuiet DEF Storing, Sent
    <3>6. n \in Nat /\ sent' = n + 1 /\ n < SectorLen /\ (n + 1 # SectorLen => n + 1 < SectorLen)
      BY <1>1, <3>1, <3>2, <3>3
    <3> QED
      BY <3>2, <3>3, <3>4, <3>5, <3>6 DEF Aligned
  <2>6. CASE hpc = "blockEOT"
    <3>1. state = "WRITING" /\ Sent(f, SectorLen)
      BY <1>1, <2>1, <2>6 DEF Aligned, Storing
    <3>2. hpc' = "lastReply" /\ sent' = sent /\ NextChar = EOT
      BY <2>6 DEF Send, HostSent, NextChar
    <3>3. Sent(f, SectorLen + 1)' /\ up' \in Seq(Passing)
      <4>1. SectorLen \in 0 .. Len(f) /\ NextChar = Append(f, EOT)[SectorLen + 1]
        BY <1>1, <2>3, <2>4, <3>2
      <4> QED
        BY <1>1, <2>3, <3>1, <4>1, SentMore
    <3>4. Storing(SectorLen + 1)'
      BY <2>1, <2>2, <3>1, <3>3, SendQuiet DEF Storing, Sent
    <3> QED
      BY <1>1, <3>2, <3>3, <3>4 DEF Aligned
  <2> QED
    BY <1>4, <2>5, <2>6
<1> QED
  BY <1>3, <1>4, SendQuiet

LEMMA NextCharType == ASSUME Lawful, TextOnly, IInv, Send PROVE NextChar \in Passing
<1>1. up \in Seq(Passing) /\ up' \in Seq(Passing) /\ up' = Append(up, NextChar)
  BY SendStep DEF IInv, TypeInv, Send
<1>2. PICK q, c : q = up /\ c = NextChar
  OBVIOUS
<1> DEFINE T == Passing \cup {c}
<1>3. q \in Seq(T) /\ c \in T /\ Append(q, c) \in Seq(Passing)
  BY <1>1, <1>2, SeqMonotonic
<1>4. Len(Append(q, c)) = Len(q) + 1 /\ Append(q, c)[Len(q) + 1] = c /\ Len(q) \in Nat
  BY <1>3, AppendProperties, LenProperties
<1>5. Len(q) + 1 \in 1 .. Len(Append(q, c))
  BY <1>4
<1>6. Append(q, c)[Len(q) + 1] \in Passing
  BY <1>3, <1>5, ElementOfSeq
<1> QED
  BY <1>2, <1>4, <1>6

\* The frame of which R/W has sent n characters.
Frame(f, n) ==
  \/ /\ state = "IDLE" /\ f = <<CommandText>>
     /\ \/ hpc = "text" /\ n = 0
        \/ hpc = "textEOT" /\ n = 1
        \/ hpc = "reply" /\ n = 2
  \/ /\ state = "WRITING" /\ Targeted /\ f = req.data
     /\ \/ hpc = "block" /\ n = sent /\ n < SectorLen
        \/ hpc = "blockEOT" /\ n = SectorLen
        \/ hpc = "lastReply" /\ n = SectorLen + 1

LEMMA FrameOnItsWay ==
  ASSUME Lawful, TextOnly, IInv, up # <<>>
  PROVE  \E f \in Seq(Plain) : \E n \in 0 .. Len(f) + 1 :
           Frame(f, n) /\ Sent(f, n) /\ Len(f) <= SectorLen
<1>1. /\ req \in HostRequest /\ Aligned /\ hpc # "idle" /\ sent \in Nat
      /\ SectorLen \in Nat /\ SectorLen > 0
  BY Constants DEF IInv, TypeInv, Aligned
<1>2. /\ \A k : ~Reading(k) /\ ~Promised(k) /\ ~Acknowledged(k) /\ ~Refused(k)
  BY DEF Reading, Promised, Acknowledged, Refused, Given
<1>3. \/ \E n \in {0, 1, 2} : Commanding(n) /\ Frame(<<CommandText>>, n)
      \/ \E n \in 0 .. SectorLen + 1 : Storing(n) /\ Frame(req.data, n)
  <2>1. \A n \in {0, 1, 2} :
          /\ Commanding(n)
          /\ (hpc = "text" /\ n = 0) \/ (hpc = "textEOT" /\ n = 1) \/ (hpc = "reply" /\ n = 2)
          => Frame(<<CommandText>>, n)
    BY DEF Frame, Commanding
  <2>2. \A n \in 0 .. SectorLen + 1 :
          /\ Storing(n)
          /\ \/ hpc = "block" /\ n = sent /\ n < SectorLen
             \/ hpc = "blockEOT" /\ n = SectorLen
             \/ hpc = "lastReply" /\ n = SectorLen + 1
          => Frame(req.data, n)
    BY DEF Frame, Storing
  <2>3. /\ SectorLen \in 0 .. SectorLen + 1 /\ SectorLen + 1 \in 0 .. SectorLen + 1
        /\ sent < SectorLen => sent \in 0 .. SectorLen + 1
    BY <1>1
  <2> QED
    BY <1>1, <1>2, <2>1, <2>2, <2>3 DEF Aligned, IInv, TypeInv
<1>4. <<CommandText>> \in Seq(Plain) /\ Len(<<CommandText>>) = 1
  BY <1>1, CommandType
<1>5. CASE \E n \in {0, 1, 2} : Commanding(n) /\ Frame(<<CommandText>>, n)
  <2>1. PICK n \in {0, 1, 2} : Sent(<<CommandText>>, n) /\ Frame(<<CommandText>>, n)
    BY <1>5 DEF Commanding
  <2>2. PICK f : f = <<CommandText>>
    OBVIOUS
  <2>3. f \in Seq(Plain) /\ Frame(f, n) /\ Sent(f, n)
    BY <1>4, <2>1, <2>2
  <2>4. n \in 0 .. Len(f) + 1 /\ Len(f) <= SectorLen
    BY <1>1, <1>4, <2>2
  <2> QED
    BY <2>3, <2>4
<1>6. CASE \E n \in 0 .. SectorLen + 1 : Storing(n) /\ Frame(req.data, n)
  <2>1. PICK n \in 0 .. SectorLen + 1 : Sent(req.data, n) /\ Targeted /\ Frame(req.data, n)
    BY <1>6 DEF Storing
  <2>2. req.data \in Seq(Plain) /\ Len(req.data) = SectorLen
    BY <2>1, RequestType DEF Targeted
  <2> QED
    BY <1>1, <2>1, <2>2
<1> QED
  BY <1>3, <1>5, <1>6

LEMMA TakeQuiet ==
  ASSUME IInv, Take
  PROVE  /\ Ctl!Putc(Head(up)) /\ up # <<>> /\ up' = Tail(up) /\ stored' = (stored \/ state' = "WRITTEN")
         /\ UNCHANGED <<down, hpc, req, sent, got, result>> /\ CommandText' = CommandText
BY DEF Take, hvars, CommandText

\* The controller puts a character of a frame in its buffer.
LEMMA CharTaken ==
  ASSUME Lawful, TextOnly, IInv, Take,
         NEW f \in Seq(Plain), NEW n \in 0 .. Len(f) + 1, Frame(f, n), Sent(f, n),
         Len(f) <= SectorLen, Len(buf) < Len(f)
  PROVE  IInv' /\ UNCHANGED <<disc, req, stored, hpc, result, got>>
<1>1. /\ TypeInv /\ Len(f) \in Nat /\ Len(buf) \in Nat /\ buf \in Seq(Passing) /\ up \in Seq(Passing)
      /\ down = <<>> /\ idx = 0 /\ stored = FALSE
  BY LenProperties DEF IInv, TypeInv, Sent
<1>2. Head(up) \in Passing /\ Tail(up) \in Seq(Passing) /\ Head(up) \in Plain
  BY <1>1, TakeQuiet, SentNext
<1>3. Ctl!PutChar(Head(up))
  BY <1>1, <1>2, TakeQuiet, Constants DEF Ctl!Putc, Ctl!PutOverflow
<1>4. buf' = Append(buf, Head(up)) /\ UNCHANGED <<state, idx, target, disc, file, status>>
  BY <1>3 DEF Ctl!PutChar, Ctl!drives
<1>5. buf' \in Seq(Passing) /\ Len(buf') = Len(buf) + 1 /\ buf' \o up' = buf \o up
  BY <1>1, <1>2, <1>4, TakeQuiet, AppendProperties, Moved
<1>6. state \in {"IDLE", "WRITING"} /\ stored' = FALSE
  BY <1>1, <1>4, TakeQuiet DEF Frame
<1>7. Sent(f, n)'
  <2>1. Len(buf') <= Len(f) /\ down' = <<>> /\ idx' = 0
    BY <1>1, <1>4, <1>5, TakeQuiet
  <2>2. buf' \o up' = SubSeq(Append(f, EOT), 1, n)
    BY <1>5 DEF Sent
  <2> QED
    BY <1>6, <2>1, <2>2 DEF Sent
<1>8. Frame(f, n)'
  BY <1>4, TakeQuiet DEF Frame, Targeted
<1>9. Aligned'
  BY <1>7, <1>8 DEF Frame, Aligned, Commanding, Storing
<1>10. TypeInv'
  BY <1>1, <1>2, <1>4, <1>5, <1>6, TakeQuiet DEF TypeInv
<1> QED
  BY <1>1, <1>4, <1>6, <1>9, <1>10, TakeQuiet DEF IInv, Starting, Mounted

\* An answer that the controller has just begun.
LEMMA Answered ==
  ASSUME NEW a \in Seq(Passing), NEW d \in {"INPUT", "OUTPUT", "WRITTEN", "ERROR"}, NEW e,
         Len(a) > 0, up' = <<>>, down' = <<>>, idx' = 0, buf' = a, state' = d
  PROVE  Given(a, 0, d, e)'
<1>1. SubSeq(a, 1, Len(a)) = a /\ 0 + 1 = 1 /\ <<>> \o a = a
  BY SubSeqFull, ConcatEmptySeq
<1>2. Rest' = a
  BY <1>1 DEF Rest, Ctl!Responding
<1> QED
  BY <1>1, <1>2 DEF Given, Owed

\* The command is refused for want of a disc, or answered.
LEMMA CommandTaken ==
  ASSUME Lawful, TextOnly, IInv, Take, hpc = "reply",
         state = "IDLE", buf = <<CommandText>>, Head(up) = EOT, Tail(up) = <<>>,
         down = <<>>, stored = FALSE
  PROVE  IInv' /\ UNCHANGED <<disc, req, stored, hpc, result, got>>
<1>1. /\ TypeInv /\ Starting /\ req \in HostRequest
      /\ req.place.drive \in Ctl!Drive /\ req.place.sector \in 0 .. NSector - 1
      /\ req.op \in {"I", "O"}
  BY RequestType DEF IInv, TypeInv
<1>2. /\ CommandText \in Ctl!Command /\ CommandText.op = req.op
      /\ CommandText.drive = req.place.drive /\ CommandText.sector = req.place.sector
  BY <1>1, CommandType
<1>3. Len(buf) = 1 /\ buf[1] = CommandText /\ Ctl!IsCommand(buf)
  BY <1>2 DEF Ctl!IsCommand
<1>4. Ctl!RunCommand
  BY <1>3, TakeQuiet, Constants
     DEF Ctl!Putc, Ctl!PutOverflow, Ctl!PutChar, Ctl!PutEOT, Ctl!Write, Ctl!WriteUndefined
<1>5. UNCHANGED <<disc, file, status>>
  BY <1>4 DEF Ctl!RunCommand, Ctl!drives
<1>6. Ctl!Rejected(CommandText) \/ Ctl!Input(CommandText) \/ Ctl!Output(CommandText)
  BY <1>3, <1>4 DEF Ctl!RunCommand
<1>7. /\ Ctl!Valid(CommandText) <=> disc[req.place.drive] # NoDisc
      /\ state' \in {"ERROR", "INPUT", "OUTPUT"} /\ idx' = 0
  <2>1. req.place.sector < NSector
    BY <1>1, Constants
  <2> QED
    BY <1>1, <1>2, <1>6, <2>1
       DEF Ctl!Valid, Ctl!Rejected, Ctl!Input, Ctl!Output, Ctl!Error, Ctl!ErrorText,
           Ctl!Respond
<1>8. up' = <<>> /\ down' = <<>> /\ stored' = FALSE /\ got = <<>> /\ sent = 0 /\ result = "none"
  BY <1>1, <1>7, TakeQuiet DEF Starting
<1>9. buf' \in Seq(Passing) /\ (Refused(0)' \/ Reading(0)' \/ Promised(0)')
  <2>1. CASE Ctl!Rejected(CommandText)
    <3>1. PICK m \in Ctl!Message : state' = "ERROR" /\ buf' = <<NAK, m, EOT>>
      BY <2>1 DEF Ctl!Rejected, Ctl!Error, Ctl!ErrorText, Ctl!Respond, Ctl!Message
    <3>2. disc[req.place.drive] = NoDisc
      BY <1>7, <2>1 DEF Ctl!Rejected
    <3>3. PICK a : a = <<NAK, m, EOT>>
      OBVIOUS
    <3>4. a \in Seq(Passing) /\ Len(a) = 3 /\ Len(a) > 0
      BY <3>3, ThreeChars
    <3>5. Given(a, 0, "ERROR", "IDLE")'
      BY <1>7, <1>8, <3>1, <3>3, <3>4, Answered
    <3>6. Refused(0)'
      BY <1>5, <1>8, <3>2, <3>3, <3>5, TakeQuiet DEF Refused
    <3> QED
      BY <3>1, <3>3, <3>4, <3>6
  <2>2. CASE Ctl!Input(CommandText)
    <3>1. /\ state' = "INPUT" /\ req.op = "I" /\ disc[req.place.drive] # NoDisc
          /\ buf' = <<SOH>> \o Sector \o <<ACK, EOT>>
      BY <1>2, <1>7, <2>2 DEF Ctl!Input, Ctl!Respond, Sector
    <3>2. Present
      BY <1>1, <3>1 DEF Present
    <3>3. PICK a : a = <<SOH>> \o Sector \o <<ACK, EOT>>
      OBVIOUS
    <3>4. a \in Seq(Passing) /\ Len(a) > 0
      <4>1. a \in Seq(Passing) /\ Len(a) = SectorLen + 3
        BY <1>1, <3>2, <3>3, Reads
      <4> QED
        BY <4>1, Constants
    <3>5. Given(a, 0, "INPUT", "IDLE")'
      BY <1>7, <1>8, <3>1, <3>3, <3>4, Answered
    <3>6. Sector' = Sector /\ Present'
      BY <1>5, <3>2, TakeQuiet DEF Sector, Ctl!SectorOf, Present
    <3>7. got' = <<>> /\ \A i \in 1 .. Len(got') : got'[i] = Sector[i]
      BY <1>8, TakeQuiet, EmptySeq
    <3>8. Reading(0)'
      BY <1>8, <3>1, <3>3, <3>5, <3>6, <3>7, TakeQuiet DEF Reading
    <3> QED
      BY <3>1, <3>3, <3>4, <3>8
  <2>3. CASE Ctl!Output(CommandText)
    <3>1. /\ state' = "OUTPUT" /\ req.op = "O" /\ disc[req.place.drive] # NoDisc
          /\ buf' = <<ENQ, EOT>>
          /\ target' = [drive |-> req.place.drive, sector |-> req.place.sector]
      BY <1>2, <1>7, <2>3 DEF Ctl!Output, Ctl!Respond
    <3>2. file[req.place.drive] # NoFile
      BY <1>1, <3>1 DEF IInv, Mounted
    <3>3. Targeted'
      BY <1>1, <1>5, <3>1, <3>2, TakeQuiet DEF Targeted
    <3>4. PICK a : a = <<ENQ, EOT>>
      OBVIOUS
    <3>5. a \in Seq(Passing) /\ Len(a) = 2 /\ Len(a) > 0
      BY <3>4, TwoChars, Constants
    <3>6. Given(a, 0, "OUTPUT", "WRITING")'
      BY <1>7, <1>8, <3>1, <3>4, <3>5, Answered
    <3>7. Promised(0)'
      BY <1>8, <3>3, <3>4, <3>6 DEF Promised
    <3> QED
      BY <3>1, <3>4, <3>5, <3>7
  <2> QED
    BY <1>6, <2>1, <2>2, <2>3
<1>10. Aligned'
  BY <1>9, TakeQuiet DEF Aligned
<1>11. TypeInv'
  BY <1>1, <1>5, <1>7, <1>8, <1>9, TakeQuiet, EmptySeq DEF TypeInv
<1> QED
  BY <1>1, <1>5, <1>8, <1>10, <1>11, TakeQuiet DEF IInv, Starting, Mounted

\* What a write leaves in an image and in a file.
LEMMA OverwriteType ==
  ASSUME Lawful, NEW m \in Text, NEW off \in Nat, NEW chars \in Seq(Plain)
  PROVE  Ctl!Overwrite(m, off, chars) \in Text
<1>1. ASSUME NEW o \in Ctl!Offset, o \in off .. off + Len(chars) - 1
      PROVE  chars[o - off + 1] \in Plain
  <2>1. Len(chars) \in Nat /\ o \in Nat
    BY Constants, LenProperties DEF Ctl!Offset
  <2>2. o - off + 1 \in 1 .. Len(chars)
    BY <1>1, <2>1
  <2> QED
    BY <2>2, ElementOfSeq
<1> QED
  BY <1>1 DEF Ctl!Overwrite, Text

LEMMA FileAfterType ==
  ASSUME Lawful, NEW f \in Ctl!File, NEW off \in Nat, NEW chars \in Seq(Plain)
  PROVE  Ctl!FileAfter(f, off, chars) \in Ctl!File
<1>1. ASSUME NEW o \in Ctl!Offset, o \in off .. off + Len(chars) - 1
      PROVE  chars[o - off + 1] \in Ctl!Byte
  <2>1. Len(chars) \in Nat /\ o \in Nat
    BY Constants, LenProperties DEF Ctl!Offset
  <2>2. o - off + 1 \in 1 .. Len(chars)
    BY <1>1, <2>1
  <2> QED
    BY <2>2, ElementOfSeq, Constants
<1>2. Zero \in Ctl!Byte
  BY DEF Ctl!Byte
<1> QED
  BY <1>1, <1>2 DEF Ctl!FileAfter, Ctl!File

\* The whole block is in the buffer: it fits the disc.
BlockReady ==
  /\ state = "WRITING" /\ Targeted /\ buf = req.data
  /\ Head(up) = EOT /\ Tail(up) = <<>> /\ down = <<>> /\ stored = FALSE

LEMMA BlockFits ==
  ASSUME Lawful, TextOnly, IInv, BlockReady
  PROVE  /\ buf \in Seq(Plain) /\ Len(buf) = SectorLen
         /\ target.drive \in Ctl!Drive /\ target.sector \in 0 .. NSector - 1
         /\ file[target.drive] \in Ctl!File /\ disc[target.drive] \in Text
         /\ Ctl!FitsDisc(buf) /\ Ctl!SectorOffset(target.sector) \in Nat
<1>1. /\ req \in HostRequest /\ req.op = "O" /\ buf = req.data
      /\ target.drive = req.place.drive /\ target.sector = req.place.sector
      /\ file[target.drive] # NoFile /\ disc[target.drive] # NoDisc
  BY DEF BlockReady, Targeted
<1>2. /\ req.data \in Seq(Plain) /\ Len(req.data) = SectorLen
      /\ target.drive \in Ctl!Drive /\ target.sector \in 0 .. NSector - 1
  BY <1>1, RequestType
<1>3. disc[target.drive] \in Text /\ file[target.drive] \in Ctl!File
  BY <1>1, <1>2 DEF IInv, TypeInv
<1>4. target.sector \in Nat /\ NSector \in Nat /\ SectorLen \in Nat
  BY <1>2, Constants
<1>5. (target.sector + 1) * SectorLen <= NSector * SectorLen
  BY <1>2, <1>4
<1>6. (target.sector + 1) * SectorLen = target.sector * SectorLen + SectorLen
      /\ target.sector * SectorLen \in Nat
  BY <1>4
<1> QED
  BY <1>1, <1>2, <1>3, <1>5, <1>6 DEF Ctl!FitsDisc, Ctl!SectorOffset

\* The EOT after a block writes it: R/W is refused and the image is as it was, or
\* it has an ACK and the image holds the block.
LEMMA BlockWritten ==
  ASSUME Lawful, TextOnly, IInv, Take, BlockReady
  PROVE  /\ \/ /\ state' = "ERROR" /\ Fault # {} /\ disc' = disc
               /\ \E m \in Ctl!Message : buf' = <<NAK, m, EOT>>
            \/ /\ state' = "WRITTEN" /\ buf' = <<ACK, EOT>>
               /\ disc' = [disc EXCEPT ![req.place.drive] =
                             Ctl!Overwrite(@, req.place.sector * SectorLen, req.data)]
         /\ idx' = 0 /\ status' = status
         /\ disc' \in [Ctl!Drive -> Text \cup {NoDisc}]
         /\ file' \in [Ctl!Drive -> Ctl!File \cup {NoFile}]
         /\ \A d \in Ctl!Drive : /\ disc'[d] = NoDisc <=> disc[d] = NoDisc
                                 /\ file'[d] = NoFile <=> file[d] = NoFile
<1> DEFINE t == target.drive
           off == Ctl!SectorOffset(target.sector)
<1>1. /\ t \in Ctl!Drive /\ disc[t] \in Text /\ file[t] \in Ctl!File /\ off \in Nat
      /\ buf \in Seq(Plain) /\ Len(buf) = SectorLen /\ buf = req.data
      /\ disc \in [Ctl!Drive -> Text \cup {NoDisc}]
      /\ file \in [Ctl!Drive -> Ctl!File \cup {NoFile}]
      /\ state = "WRITING" /\ target.drive = req.place.drive /\ target.sector = req.place.sector
  BY BlockFits DEF IInv, TypeInv, BlockReady, Targeted
<1>2. Head(up) = EOT /\ NoDisc \notin Text /\ NoFile \notin Ctl!File
  <2>1. Text \subseteq Ctl!Image
    BY DEF Text, Ctl!Image, Plain
  <2> QED
    BY <2>1 DEF BlockReady, Lawful
<1>3. Ctl!Write
  <2>1. ~Ctl!PutOverflow /\ ~Ctl!PutChar(Head(up)) /\ ~Ctl!RunCommand
    BY <1>1, <1>2, Constants DEF Ctl!PutOverflow, Ctl!PutChar, Ctl!RunCommand
  <2>2. ~Ctl!WriteUndefined
    BY <1>1, <1>2, BlockFits DEF Ctl!WriteUndefined
  <2> QED
    BY <2>1, <2>2, TakeQuiet DEF Ctl!Putc, Ctl!PutEOT
<1>4. ASSUME NEW chars \in Seq(Plain),
             file' = [file EXCEPT ![t] = Ctl!FileAfter(@, off, chars)]
      PROVE  /\ file' \in [Ctl!Drive -> Ctl!File \cup {NoFile}]
             /\ \A d \in Ctl!Drive : file'[d] = NoFile <=> file[d] = NoFile
  <2>1. Ctl!FileAfter(file[t], off, chars) \in Ctl!File
    BY <1>1, FileAfterType
  <2> HIDE DEF off
  <2> QED
    BY <1>1, <1>2, <1>4, <2>1
<1>5. ASSUME NEW fault, Ctl!FileFails(fault, buf)
      PROVE  /\ file' \in [Ctl!Drive -> Ctl!File \cup {NoFile}]
             /\ \A d \in Ctl!Drive : file'[d] = NoFile <=> file[d] = NoFile
  <2>1. PICK k \in 0 .. Len(buf) :
          file' = [file EXCEPT ![t] = Ctl!FileAfter(@, off, SubSeq(buf, 1, k))]
    BY <1>5 DEF Ctl!FileFails
  <2>2. SubSeq(buf, 1, k) \in Seq(Plain)
    BY <1>1, SubSeqProperties, LenProperties
  <2> QED
    BY <1>4, <2>1, <2>2
<1>6. CASE \E fault \in Fault : Ctl!WriteRefused(fault, buf)
  <2>1. PICK fault \in Fault : Ctl!WriteRefused(fault, buf)
    BY <1>6
  <2>2. /\ state' = "ERROR" /\ idx' = 0 /\ disc' = disc /\ Fault # {}
        /\ \E m \in Ctl!Message : buf' = <<NAK, m, EOT>>
    BY <2>1 DEF Ctl!WriteRefused, Ctl!Error, Ctl!ErrorText, Ctl!Respond, Ctl!Message
  <2> QED
    BY <1>1, <1>3, <1>5, <2>1, <2>2 DEF Ctl!WriteRefused, Ctl!Write
<1>7. CASE Ctl!Written(buf)
  <2>1. /\ state' = "WRITTEN" /\ idx' = 0 /\ buf' = <<ACK, EOT>>
        /\ disc' = [disc EXCEPT ![t] = Ctl!Overwrite(@, off, buf)]
    BY <1>7 DEF Ctl!Written, Ctl!Acknowledge, Ctl!Respond, Ctl!MemoryWritten
  <2>2. Ctl!Overwrite(disc[t], off, buf) \in Text
    BY <1>1, OverwriteType
  <2>3. /\ file' \in [Ctl!Drive -> Ctl!File \cup {NoFile}]
        /\ \A d \in Ctl!Drive : file'[d] = NoFile <=> file[d] = NoFile
    BY <1>1, <1>2, <1>4, <1>5, <1>7 DEF Ctl!Written, Ctl!FileWritten
  <2>4. disc' = [disc EXCEPT ![req.place.drive] =
                   Ctl!Overwrite(@, req.place.sector * SectorLen, req.data)]
    BY <1>1, <2>1 DEF Ctl!SectorOffset
  <2>5. /\ disc' \in [Ctl!Drive -> Text \cup {NoDisc}]
        /\ \A d \in Ctl!Drive : disc'[d] = NoDisc <=> disc[d] = NoDisc
    <3> HIDE DEF off
    <3> QED
      BY <1>1, <1>2, <2>1, <2>2
  <2> QED
    BY <1>3, <2>1, <2>3, <2>4, <2>5 DEF Ctl!Write
<1>8. ~Ctl!WriteNotFlushed(buf)
  BY DEF Ctl!WriteNotFlushed, Ctl!FileFails, TextOnly
<1> QED
  BY <1>3, <1>6, <1>7, <1>8 DEF Ctl!Write, Ctl!WriteChars

LEMMA BlockTaken ==
  ASSUME Lawful, TextOnly, IInv, Take, hpc = "lastReply", BlockReady
  PROVE  IInv' /\ UNCHANGED <<req, hpc, result, got>> /\ stored' = (state' = "WRITTEN")
<1>1. /\ TypeInv /\ Starting /\ stored' = (state' = "WRITTEN") /\ result = "none"
      /\ req \in HostRequest /\ req.op = "O" /\ up' = <<>> /\ down' = <<>>
  BY TakeQuiet DEF IInv, TypeInv, Starting, BlockReady, Targeted
<1>2. buf' \in Seq(Passing) /\ (Acknowledged(0)' \/ Refused(0)')
  <2>1. CASE state' = "ERROR" /\ Fault # {} /\ \E m \in Ctl!Message : buf' = <<NAK, m, EOT>>
    <3>1. PICK m \in Ctl!Message : buf' = <<NAK, m, EOT>>
      BY <2>1
    <3>2. PICK a : a = <<NAK, m, EOT>>
      OBVIOUS
    <3>3. a \in Seq(Passing) /\ Len(a) = 3 /\ Len(a) > 0
      BY <3>2, ThreeChars
    <3>4. Given(a, 0, "ERROR", "IDLE")'
      BY <1>1, <2>1, <3>1, <3>2, <3>3, BlockWritten, Answered
    <3>5. Refused(0)'
      BY <1>1, <2>1, <3>2, <3>4, TakeQuiet DEF Refused
    <3> QED
      BY <3>1, <3>2, <3>3, <3>5
  <2>2. CASE state' = "WRITTEN" /\ buf' = <<ACK, EOT>>
    <3>1. PICK a : a = <<ACK, EOT>>
      OBVIOUS
    <3>2. a \in Seq(Passing) /\ Len(a) = 2 /\ Len(a) > 0
      BY <3>1, TwoChars, Constants
    <3>3. Given(a, 0, "WRITTEN", "IDLE")'
      BY <1>1, <2>2, <3>1, <3>2, BlockWritten, Answered
    <3>4. Acknowledged(0)'
      BY <1>1, <2>2, <3>1, <3>3, TakeQuiet DEF Acknowledged
    <3> QED
      BY <2>2, <3>1, <3>2, <3>4
  <2> QED
    BY <2>1, <2>2, BlockWritten
<1>3. Aligned'
  BY <1>2, TakeQuiet DEF Aligned
<1>4. TypeInv'
  BY <1>1, <1>2, TakeQuiet, BlockWritten, EmptySeq DEF TypeInv
<1>5. Mounted'
  BY BlockWritten DEF IInv, Mounted
<1> QED
  BY <1>1, <1>3, <1>4, <1>5, TakeQuiet, BlockWritten DEF IInv, Starting

\* A character that the controller takes goes to its buffer, or is the EOT of the
\* command or of the block.
LEMMA TakeStep ==
  ASSUME Lawful, TextOnly, IInv, Take
  PROVE  /\ IInv' /\ UNCHANGED <<req, hpc, result, got>> /\ hpc # "idle" /\ stored = FALSE
         /\ \/ UNCHANGED <<disc, stored>>
            \/ BlockReady /\ stored' = (state' = "WRITTEN")
<1>1. PICK f \in Seq(Plain) : \E n \in 0 .. Len(f) + 1 :
             Frame(f, n) /\ Sent(f, n) /\ Len(f) <= SectorLen
  BY TakeQuiet, FrameOnItsWay
<1>2. PICK n \in 0 .. Len(f) + 1 : Frame(f, n) /\ Sent(f, n) /\ Len(f) <= SectorLen
  BY <1>1
<1>3. hpc # "idle" /\ stored = FALSE /\ down = <<>> /\ TypeInv
  BY <1>2 DEF Frame, Sent, IInv
<1>4. CASE Len(buf) < Len(f)
  BY <1>2, <1>3, <1>4, CharTaken
<1>5. CASE n = Len(f) + 1 /\ Head(up) = EOT /\ Tail(up) = <<>> /\ buf = f
  <2>1. CASE hpc = "reply" /\ state = "IDLE" /\ buf = <<CommandText>>
    BY <1>3, <1>5, <2>1, CommandTaken
  <2>2. CASE hpc = "lastReply" /\ BlockReady
    BY <1>3, <2>2, BlockTaken
  <2>3. \/ hpc = "reply" /\ state = "IDLE" /\ buf = <<CommandText>>
        \/ hpc = "lastReply" /\ BlockReady
    <3>1. CASE f = <<CommandText>> /\ state = "IDLE"
      <4>1. n = 2
        BY <1>5, <3>1
      <4> QED
        BY <1>2, <1>5, <3>1, <4>1 DEF Frame
    <3>2. CASE f = req.data /\ Targeted /\ state = "WRITING"
      <4>1. Len(f) = SectorLen /\ SectorLen \in Nat
        BY <3>2, RequestType, Constants DEF Targeted
      <4>2. n # SectorLen /\ ~(n < SectorLen)
        BY <1>5, <4>1
      <4>3. hpc = "lastReply"
        BY <1>2, <3>2, <4>2 DEF Frame
      <4> QED
        BY <1>3, <1>5, <3>2, <4>3 DEF BlockReady
    <3> QED
      BY <1>2, <3>1, <3>2 DEF Frame
  <2> QED
    BY <2>1, <2>2, <2>3
<1> QED
  BY <1>2, <1>3, <1>4, <1>5, TakeQuiet, SentNext

\* What the controller gives is still on its way.
LEMMA GiveStep ==
  ASSUME Lawful, TextOnly, IInv, Give
  PROVE  IInv' /\ UNCHANGED <<disc, req, stored, hpc, result, got>>
<1>1. /\ TypeInv /\ Aligned /\ state \in {"INPUT", "OUTPUT", "WRITTEN", "ERROR"}
      /\ UNCHANGED <<up, disc, file, target, status, stored, hpc, req, sent, got, result>>
      /\ down' \in Seq(Passing)
  BY GiveMoves DEF IInv
<1>2. \A k : ~Commanding(k) /\ ~Storing(k)
  BY <1>1 DEF Commanding, Storing
<1>3. ASSUME NEW k \in Nat, Reading(k)
      PROVE  Reading(k)'
  <2>1. PICK a : a = <<SOH>> \o Sector \o <<ACK, EOT>>
    OBVIOUS
  <2>2. Sector' = Sector /\ Present' = Present
    BY <1>1 DEF Sector, Ctl!SectorOf, Present
  <2>3. Given(a, k, "INPUT", "IDLE")'
    BY <1>1, <1>3, <2>1, GivenKept DEF Reading
  <2> QED
    BY <1>1, <1>3, <2>1, <2>2, <2>3 DEF Reading
<1>4. ASSUME NEW k \in Nat, Promised(k)
      PROVE  Promised(k)'
  <2>1. Given(<<ENQ, EOT>>, k, "OUTPUT", "WRITING")'
    BY <1>1, <1>4, GivenKept DEF Promised
  <2> QED
    BY <1>1, <1>4, <2>1 DEF Promised, Targeted
<1>5. ASSUME NEW k \in Nat, Acknowledged(k)
      PROVE  Acknowledged(k)'
  <2>1. Given(<<ACK, EOT>>, k, "WRITTEN", "IDLE")'
    BY <1>1, <1>5, GivenKept DEF Acknowledged
  <2> QED
    BY <1>1, <1>5, <2>1 DEF Acknowledged
<1>6. ASSUME NEW k \in Nat, Refused(k)
      PROVE  Refused(k)'
  <2>1. PICK m \in Ctl!Message : Given(<<NAK, m, EOT>>, k, "ERROR", "IDLE")
    BY <1>6 DEF Refused
  <2>2. Given(<<NAK, m, EOT>>, k, "ERROR", "IDLE")'
    BY <1>1, <2>1, GivenKept
  <2> QED
    BY <1>1, <1>6, <2>2 DEF Refused
<1>7. Aligned'
  <2>1. /\ 1 + Len(got) \in Nat /\ 1 + SectorLen \in Nat /\ 2 + SectorLen \in Nat
        /\ 0 \in Nat /\ 1 \in Nat /\ 2 \in Nat
    BY <1>1, Constants, LenProperties DEF TypeInv
  <2>2. hpc # "idle"
    BY <1>1 DEF Aligned
  <2>3. /\ hpc = "reply" => Refused(0)' \/ Reading(0)' \/ Promised(0)'
        /\ hpc = "absorb" => Promised(1)'
        /\ hpc = "lastReply" =>
             Acknowledged(0)' \/ Refused(0)' \/ (Len(got) = SectorLen /\ Reading(1 + SectorLen)')
        /\ hpc = "lastAbsorb" =>
             Acknowledged(1)' \/ (Len(got) = SectorLen /\ Reading(2 + SectorLen)')
        /\ hpc = "message" => Refused(1)' \/ Refused(2)'
        /\ hpc \notin {"text", "textEOT", "block", "blockEOT"}
    BY <1>1, <1>2, <1>3, <1>4, <1>5, <1>6, <2>1 DEF Aligned
  <2>4. hpc = "read" => Len(got) < SectorLen /\ (\E k : k = 1 + Len(got) /\ Reading(k)')
    <3>1. \A k \in Nat : Reading(k) => Reading(k)'
      BY <1>3
    <3> QED
      BY <1>1, <2>1, <3>1 DEF Aligned
  <2> QED
    BY <1>1, <2>2, <2>3, <2>4 DEF Aligned
<1>8. TypeInv'
  <2>1. idx \in Nat /\ buf \in Seq(Passing) /\ <<>> \in Seq(Passing)
    BY <1>1, EmptySeq DEF TypeInv
  <2>2. \/ buf' = buf /\ idx' = idx + 1
        \/ buf' = <<>> /\ idx' = 0
    BY <1>1, GiveMoves
  <2>3. buf' \in Seq(Passing)
    BY <2>1, <2>2
  <2>4. idx' \in Nat
    BY <2>1, <2>2
  <2> QED
    BY <1>1, <2>3, <2>4 DEF TypeInv
<1> QED
  BY <1>1, <1>7, <1>8 DEF IInv, Starting, Mounted

\* R/W takes a character.
LEMMA ReceiveQuiet ==
  ASSUME IInv, Receive
  PROVE  /\ HostReceived(Head(down)) /\ down # <<>> /\ down' \in Seq(Passing)
         /\ UNCHANGED <<state, buf, idx, target, disc, file, status, up, stored, req, sent>>
         /\ hpc \in {"reply", "absorb", "read", "lastReply", "lastAbsorb", "message"}
         /\ req \in HostRequest /\ Sector' = Sector
         /\ Targeted' = Targeted /\ Present' = Present
         /\ \A n : ~Commanding(n) /\ ~Storing(n)
<1>1. /\ HostReceived(Head(down)) /\ down # <<>> /\ down' = Tail(down)
      /\ UNCHANGED <<state, buf, idx, target, disc, file, status, up, stored, req, sent>>
      /\ hpc \in {"reply", "absorb", "read", "lastReply", "lastAbsorb", "message"}
  BY DEF Receive, HostReceived, TakeReply, TakeRest, TakeMessage, TakeData, ctl
<1>2. down' \in Seq(Passing) /\ req \in HostRequest
  BY <1>1, HeadTailProperties DEF IInv, TypeInv
<1>3. Sector' = Sector /\ Targeted' = Targeted /\ Present' = Present
  BY <1>1 DEF Sector, Ctl!SectorOf, Targeted, Present
<1>4. \A n : ~Commanding(n) /\ ~Storing(n)
  BY <1>1 DEF Commanding, Storing, Sent
<1> QED
  BY <1>1, <1>2, <1>3, <1>4

LEMMA ReceiveKeeps ==
  ASSUME IInv, Receive,
         hpc' \in {"idle", "absorb", "read", "block", "lastReply", "lastAbsorb", "message"},
         got' \in Seq(Passing), Aligned',
         hpc' # "idle" => result' = result, hpc' = "absorb" => sent = 0
  PROVE  IInv'
<1>1. hpc # "idle"
  BY ReceiveQuiet
<1>2. TypeInv'
  BY <1>1, ReceiveQuiet DEF IInv, TypeInv
<1>3. Mounted' /\ Starting' /\ status' = "running"
  BY <1>1, ReceiveQuiet DEF IInv, Mounted, Starting
<1> QED
  BY <1>2, <1>3 DEF IInv

LEMMA NothingOwed ==
  ASSUME NEW S, NEW q \in Seq(S), NEW b \in Seq(S), NEW i \in Nat,
         q \o SubSeq(b, i + 1, Len(b)) = <<>>
  PROVE  q = <<>> /\ ~(i < Len(b))
<1>1. SubSeq(b, i + 1, Len(b)) \in Seq(S)
  <2>1. \A j \in i + 1 .. Len(b) : b[j] \in S
    BY LenProperties, ElementOfSeq
  <2> QED
    BY <2>1, LenProperties, SubSeqProperties
<1>2. q = <<>> /\ SubSeq(b, i + 1, Len(b)) = <<>>
  BY <1>1, ConcatEqualIffEmpty
<1> QED
  BY <1>2, Onward

\* The last character of an answer: the controller has gone on.
LEMMA LastTaken ==
  ASSUME IInv, Receive, NEW a \in Seq(Passing), NEW k \in Nat, k + 1 = Len(a),
         NEW d \in {"INPUT", "OUTPUT", "WRITTEN", "ERROR"}, NEW e \in {"IDLE", "WRITING"},
         Given(a, k, d, e)
  PROVE  /\ HostReceived(a[k + 1])
         /\ up' = <<>> /\ down' = <<>> /\ state' = e /\ idx' = 0 /\ buf' = <<>>
<1>1. HostReceived(a[k + 1]) /\ Given(a, k + 1, d, e)'
  BY GivenTaken DEF IInv
<1>2. Owed' = <<>>
  <2>1. k + 1 \in Nat /\ k + 1 >= Len(a)
    OBVIOUS
  <2>2. SubSeq(a, (k + 1) + 1, Len(a)) = <<>>
    BY <2>1, NothingLeft
  <2> QED
    BY <1>1, <2>2 DEF Given
<1>3. /\ down' \in Seq(Passing) /\ buf' \in Seq(Passing) /\ idx' \in Nat
  BY ReceiveQuiet DEF IInv, TypeInv
<1>4. CASE state' = d
  <2>1. Rest' = SubSeq(buf', idx' + 1, Len(buf'))
    BY <1>4 DEF Rest, Ctl!Responding
  <2>2. down' = <<>> /\ ~(idx' < Len(buf'))
    <3>1. down' \o SubSeq(buf', idx' + 1, Len(buf')) = <<>>
      BY <1>2, <2>1 DEF Owed
    <3> QED
      BY <1>3, <3>1, NothingOwed
  <2> QED
    BY <1>1, <2>2 DEF Given
<1>5. CASE state' # d
  <2>1. state' = e /\ Rest' = <<>>
    BY <1>1, <1>5 DEF Given, Rest, Ctl!Responding
  <2>2. down' = <<>>
    BY <1>2, <1>3, <2>1, ConcatEmptySeq DEF Owed
  <2> QED
    BY <1>1, <1>5, <2>1, <2>2 DEF Given
<1> QED
  BY <1>1, <1>4, <1>5

LEMMA ReplyStep ==
  ASSUME Lawful, TextOnly, IInv, Receive, hpc = "reply"
  PROVE  IInv' /\ hpc' \in {"message", "read", "absorb"}
<1>1. /\ TypeInv /\ (Refused(0) \/ Reading(0) \/ Promised(0))
      /\ got = <<>> /\ got \in Seq(Passing) /\ sent = 0
  BY ReceiveQuiet DEF IInv, Aligned, Starting, TypeInv
<1>2. \A c : HostReceived(c) => TakeReply(c) /\ got' = got
  BY DEF HostReceived, TakeReply, TakeRest, TakeMessage, TakeData
<1>3. CASE Refused(0)
  <2>1. PICK m \in Ctl!Message : Given(<<NAK, m, EOT>>, 0, "ERROR", "IDLE")
    BY <1>3 DEF Refused
  <2>2. PICK a : a = <<NAK, m, EOT>>
    OBVIOUS
  <2>3. a \in Seq(Passing) /\ 0 < Len(a) /\ a[0 + 1] = NAK /\ 0 + 1 = 1
    BY <2>2, ThreeChars
  <2>4. HostReceived(NAK) /\ Given(a, 1, "ERROR", "IDLE")'
    <3>1. HostReceived(a[0 + 1]) /\ Given(a, 0 + 1, "ERROR", "IDLE")'
      BY <1>1, <2>1, <2>2, <2>3, GivenTaken
    <3> QED
      BY <2>3, <3>1
  <2>5. hpc' = "message" /\ result' = result /\ got' = got
    BY <1>2, <2>4, Constants DEF TakeReply
  <2>6. Refused(1)'
    BY <1>3, <2>2, <2>4, ReceiveQuiet DEF Refused
  <2>7. Aligned'
    BY <2>5, <2>6 DEF Aligned
  <2> QED
    BY <1>1, <2>5, <2>7, ReceiveKeeps
<1>4. CASE Reading(0)
  <2>1. PICK a : a = <<SOH>> \o Sector \o <<ACK, EOT>>
    OBVIOUS
  <2>2. a \in Seq(Passing) /\ Len(a) = SectorLen + 3 /\ a[1] = SOH
    BY <1>1, <1>4, <2>1, Reads DEF Reading
  <2>3. 0 < Len(a) /\ 0 + 1 = 1
    BY <2>2, Constants
  <2>4. HostReceived(SOH) /\ Given(a, 1, "INPUT", "IDLE")'
    <3>1. HostReceived(a[0 + 1]) /\ Given(a, 0 + 1, "INPUT", "IDLE")'
      BY <1>1, <1>4, <2>1, <2>2, <2>3, GivenTaken DEF Reading
    <3> QED
      BY <2>2, <2>3, <3>1
  <2>5. hpc' = "read" /\ result' = result /\ got' = got
    BY <1>2, <1>4, <2>4, Constants DEF TakeReply, DiscReturns, Reading
  <2>6. Reading(1)' /\ Len(got') = 0
    <3>1. Len(got') = 0
      BY <1>1, <2>5, EmptySeq
    <3> QED
      BY <1>4, <2>1, <2>4, <2>5, <3>1, ReceiveQuiet DEF Reading
  <2>7. Aligned'
    <3>1. 1 + Len(got') = 1 /\ Len(got') < SectorLen
      BY <2>6, Constants
    <3> QED
      BY <2>5, <2>6, <3>1 DEF Aligned
  <2> QED
    BY <1>1, <2>5, <2>7, ReceiveKeeps
<1>5. CASE Promised(0)
  <2>1. PICK a : a = <<ENQ, EOT>>
    OBVIOUS
  <2>2. a \in Seq(Passing) /\ 0 < Len(a) /\ a[0 + 1] = ENQ /\ 0 + 1 = 1
    BY <2>1, TwoChars, Constants
  <2>3. HostReceived(ENQ) /\ Given(a, 1, "OUTPUT", "WRITING")'
    <3>1. HostReceived(a[0 + 1]) /\ Given(a, 0 + 1, "OUTPUT", "WRITING")'
      BY <1>1, <1>5, <2>1, <2>2, GivenTaken DEF Promised
    <3> QED
      BY <2>2, <3>1
  <2>4. hpc' = "absorb" /\ result' = result /\ got' = got
    BY <1>2, <2>3, Constants DEF TakeReply
  <2>5. Promised(1)'
    BY <1>5, <2>1, <2>3, ReceiveQuiet DEF Promised
  <2>6. Aligned'
    BY <2>4, <2>5 DEF Aligned
  <2> QED
    BY <1>1, <2>4, <2>6, ReceiveKeeps
<1> QED
  BY <1>1, <1>3, <1>4, <1>5

LEMMA AbsorbStep ==
  ASSUME Lawful, TextOnly, IInv, Receive, hpc = "absorb"
  PROVE  IInv' /\ hpc' = "block"
<1>1. TypeInv /\ Promised(1) /\ sent = 0 /\ got \in Seq(Passing)
  BY DEF IInv, Aligned, Starting, TypeInv
<1>2. PICK a : a = <<ENQ, EOT>>
  OBVIOUS
<1>3. a \in Seq(Passing) /\ 1 + 1 = Len(a) /\ a[1 + 1] = EOT
  BY <1>2, TwoChars, Constants
<1>4. /\ HostReceived(EOT)
      /\ up' = <<>> /\ down' = <<>> /\ state' = "WRITING" /\ idx' = 0 /\ buf' = <<>>
  <2>1. Given(a, 1, "OUTPUT", "WRITING")
    BY <1>1, <1>2 DEF Promised
  <2> QED
    BY <1>3, <2>1, LastTaken
<1>5. hpc' = "block" /\ result' = result /\ got' = got
  <2>1. TakeRest(EOT) /\ req.op = "O"
    BY <1>1, <1>4 DEF HostReceived, TakeReply, TakeMessage, TakeData, Promised, Targeted
  <2> QED
    BY <2>1 DEF TakeRest, DiscReturns
<1>6. Storing(0)' /\ sent' = 0 /\ 0 < SectorLen
  <2>1. \A w : SubSeq(w, 1, 0) = <<>>
    BY SubSeqEmpty
  <2>2. buf' \o up' = <<>> /\ Len(buf') = 0
    BY <1>4, ConcatEmptySeq, EmptySeq
  <2>3. 0 < SectorLen /\ Len(req.data) = SectorLen /\ req' = req /\ stored' = FALSE
    BY <1>1, RequestType, ReceiveQuiet, Constants DEF Promised, Targeted
  <2> QED
    BY <1>1, <1>4, <2>1, <2>2, <2>3, ReceiveQuiet DEF Storing, Sent, Promised
<1>7. Aligned'
  BY <1>5, <1>6 DEF Aligned
<1> QED
  BY <1>1, <1>5, <1>7, ReceiveKeeps

\* BLOCK-READ stores a character: none of a sector is an EOT.
LEMMA ReadStep ==
  ASSUME Lawful, TextOnly, IInv, Receive, hpc = "read"
  PROVE  IInv' /\ hpc' \in {"read", "lastReply"}
<1>1. TypeInv /\ Len(got) < SectorLen /\ Reading(1 + Len(got)) /\ got \in Seq(Passing)
  BY DEF IInv, Aligned, TypeInv
<1>2. PICK n : n = Len(got)
  OBVIOUS
<1>3. /\ n \in Nat /\ SectorLen \in Nat /\ n < SectorLen /\ Reading(1 + n)
      /\ n + 1 \in 1 .. SectorLen /\ 1 + n \in Nat /\ 1 + n < SectorLen + 3 /\ (1 + n) + 1 = (n + 1) + 1
  BY <1>1, <1>2, Constants, LenProperties
<1>4. PICK a : a = <<SOH>> \o Sector \o <<ACK, EOT>>
  OBVIOUS
<1>5. /\ a \in Seq(Passing) /\ Len(a) = SectorLen + 3 /\ a[(n + 1) + 1] = Sector[n + 1]
      /\ Sector \in Seq(Plain) /\ Len(Sector) = SectorLen
  BY <1>1, <1>3, <1>4, Reads DEF Reading
<1>6. PICK c : c = Sector[n + 1]
  OBVIOUS
<1>7. c \in Plain /\ c \in Passing /\ c # EOT
  BY <1>3, <1>5, <1>6, ElementOfSeq, Constants
<1>8. HostReceived(c) /\ Given(a, 2 + n, "INPUT", "IDLE")'
  <2>1. Given(a, 1 + n, "INPUT", "IDLE")
    BY <1>3, <1>4 DEF Reading
  <2>2. HostReceived(a[(1 + n) + 1]) /\ Given(a, (1 + n) + 1, "INPUT", "IDLE")'
    BY <1>1, <1>3, <1>5, <2>1, GivenTaken
  <2>3. (1 + n) + 1 = 2 + n /\ a[(1 + n) + 1] = c
    BY <1>3, <1>5, <1>6
  <2> QED
    BY <2>2, <2>3
<1>9. /\ got' = Append(got, c) /\ result' = result
      /\ hpc' = IF n + 1 = SectorLen THEN "lastReply" ELSE "read"
  BY <1>2, <1>7, <1>8 DEF HostReceived, TakeReply, TakeRest, TakeMessage, TakeData
<1>10. /\ got' \in Seq(Passing) /\ Len(got') = n + 1 /\ got'[n + 1] = c
       /\ \A i \in 1 .. n : got'[i] = got[i]
  BY <1>1, <1>2, <1>7, <1>9, AppendProperties
<1>11. \A i \in 1 .. Len(got') : got'[i] = Sector[i]
  <2>1. \A i \in 1 .. n : got[i] = Sector[i]
    BY <1>2, <1>3 DEF Reading
  <2>2. \A i \in 1 .. n + 1 : i \in 1 .. n \/ i = n + 1
    BY <1>3
  <2> QED
    BY <1>6, <1>10, <2>1, <2>2
<1>12. Reading(2 + n)'
  BY <1>3, <1>4, <1>8, <1>11, ReceiveQuiet DEF Reading
<1>13. Aligned'
  <2>1. /\ 1 + Len(got') = 2 + n
        /\ n + 1 = SectorLen => Len(got') = SectorLen /\ 1 + SectorLen = 2 + n
        /\ n + 1 # SectorLen => Len(got') < SectorLen
    BY <1>3, <1>10
  <2> QED
    BY <1>9, <1>12, <2>1 DEF Aligned
<1> QED
  BY <1>9, <1>10, <1>13, ReceiveKeeps

LEMMA LastReplyStep ==
  ASSUME Lawful, TextOnly, IInv, Receive, hpc = "lastReply"
  PROVE  IInv' /\ hpc' \in {"lastAbsorb", "message"}
<1>1. /\ TypeInv /\ got \in Seq(Passing)
      /\ Acknowledged(0) \/ Refused(0) \/ (Len(got) = SectorLen /\ Reading(1 + SectorLen))
  BY ReceiveQuiet DEF IInv, Aligned, TypeInv
<1>2. \A c : HostReceived(c) => TakeReply(c) /\ got' = got
  BY DEF HostReceived, TakeReply, TakeRest, TakeMessage, TakeData
<1>3. CASE Refused(0)
  <2>1. PICK m \in Ctl!Message : Given(<<NAK, m, EOT>>, 0, "ERROR", "IDLE")
    BY <1>3 DEF Refused
  <2>2. PICK a : a = <<NAK, m, EOT>>
    OBVIOUS
  <2>3. a \in Seq(Passing) /\ 0 < Len(a) /\ a[0 + 1] = NAK /\ 0 + 1 = 1
    BY <2>2, ThreeChars
  <2>4. HostReceived(NAK) /\ Given(a, 1, "ERROR", "IDLE")'
    <3>1. HostReceived(a[0 + 1]) /\ Given(a, 0 + 1, "ERROR", "IDLE")'
      BY <1>1, <2>1, <2>2, <2>3, GivenTaken
    <3> QED
      BY <2>3, <3>1
  <2>5. hpc' = "message" /\ result' = result /\ got' = got
    BY <1>2, <2>4, Constants DEF TakeReply
  <2>6. Refused(1)'
    BY <1>3, <2>2, <2>4, ReceiveQuiet DEF Refused
  <2>7. Aligned'
    BY <2>5, <2>6 DEF Aligned
  <2> QED
    BY <1>1, <2>5, <2>7, ReceiveKeeps
<1>4. CASE Len(got) = SectorLen /\ Reading(1 + SectorLen)
  <2>1. PICK a : a = <<SOH>> \o Sector \o <<ACK, EOT>>
    OBVIOUS
  <2>2. a \in Seq(Passing) /\ Len(a) = SectorLen + 3 /\ a[SectorLen + 2] = ACK
    BY <1>1, <1>4, <2>1, Reads DEF Reading
  <2>3. /\ 1 + SectorLen \in Nat /\ 1 + SectorLen < SectorLen + 3
        /\ (1 + SectorLen) + 1 = SectorLen + 2 /\ (1 + SectorLen) + 1 = 2 + SectorLen
    BY Constants
  <2>4. HostReceived(ACK) /\ Given(a, 2 + SectorLen, "INPUT", "IDLE")'
    <3>1. Given(a, 1 + SectorLen, "INPUT", "IDLE")
      BY <1>4, <2>1 DEF Reading
    <3>2. /\ HostReceived(a[(1 + SectorLen) + 1])
          /\ Given(a, (1 + SectorLen) + 1, "INPUT", "IDLE")'
      BY <1>1, <2>2, <2>3, <3>1, GivenTaken
    <3> QED
      BY <2>2, <2>3, <3>2
  <2>5. hpc' = "lastAbsorb" /\ result' = result /\ got' = got
    BY <1>2, <2>4, Constants DEF TakeReply
  <2>6. Reading(2 + SectorLen)'
    BY <1>4, <2>1, <2>4, <2>5, ReceiveQuiet DEF Reading
  <2>7. Aligned'
    BY <1>4, <2>5, <2>6 DEF Aligned
  <2> QED
    BY <1>1, <2>5, <2>7, ReceiveKeeps
<1>5. CASE Acknowledged(0)
  <2>1. PICK a : a = <<ACK, EOT>>
    OBVIOUS
  <2>2. a \in Seq(Passing) /\ 0 < Len(a) /\ a[0 + 1] = ACK /\ 0 + 1 = 1
    BY <2>1, TwoChars, Constants
  <2>3. HostReceived(ACK) /\ Given(a, 1, "WRITTEN", "IDLE")'
    <3>1. HostReceived(a[0 + 1]) /\ Given(a, 0 + 1, "WRITTEN", "IDLE")'
      BY <1>1, <1>5, <2>1, <2>2, GivenTaken DEF Acknowledged
    <3> QED
      BY <2>2, <3>1
  <2>4. hpc' = "lastAbsorb" /\ result' = result /\ got' = got
    BY <1>2, <2>3, Constants DEF TakeReply
  <2>5. Acknowledged(1)'
    BY <1>5, <2>1, <2>3, ReceiveQuiet DEF Acknowledged
  <2>6. Aligned'
    BY <2>4, <2>5 DEF Aligned
  <2> QED
    BY <1>1, <2>4, <2>6, ReceiveKeeps
<1> QED
  BY <1>1, <1>3, <1>4, <1>5

\* The EOT after an ACK ends R/W and leaves the controller idle.
LEMMA LastAbsorbStep ==
  ASSUME Lawful, TextOnly, IInv, Receive, hpc = "lastAbsorb"
  PROVE  /\ IInv' /\ hpc' = "idle" /\ result' = "ok" /\ got' = got
         /\ \/ req.op = "I" /\ got = Sector /\ Sector # <<>> /\ stored = FALSE /\ Present
            \/ req.op = "O" /\ stored = TRUE
<1>1. /\ TypeInv /\ got \in Seq(Passing)
      /\ Acknowledged(1) \/ (Len(got) = SectorLen /\ Reading(2 + SectorLen))
  BY DEF IInv, Aligned, TypeInv
<1>2. /\ HostReceived(EOT)
      /\ up' = <<>> /\ down' = <<>> /\ state' = "IDLE" /\ idx' = 0 /\ buf' = <<>>
  <2>1. CASE Reading(2 + SectorLen)
    <3>1. PICK a : a = <<SOH>> \o Sector \o <<ACK, EOT>>
      OBVIOUS
    <3>2. a \in Seq(Passing) /\ Len(a) = SectorLen + 3 /\ a[SectorLen + 3] = EOT
      BY <1>1, <2>1, <3>1, Reads DEF Reading
    <3>3. 2 + SectorLen \in Nat /\ (2 + SectorLen) + 1 = SectorLen + 3
      BY Constants
    <3>4. (2 + SectorLen) + 1 = Len(a) /\ a[(2 + SectorLen) + 1] = EOT
      BY <3>2, <3>3
    <3>5. Given(a, 2 + SectorLen, "INPUT", "IDLE")
      BY <2>1, <3>1 DEF Reading
    <3> QED
      BY <3>2, <3>3, <3>4, <3>5, LastTaken
  <2>2. CASE Acknowledged(1)
    <3>1. PICK a : a = <<ACK, EOT>>
      OBVIOUS
    <3>2. a \in Seq(Passing) /\ 1 + 1 = Len(a) /\ a[1 + 1] = EOT
      BY <3>1, TwoChars, Constants
    <3>3. Given(a, 1, "WRITTEN", "IDLE")
      BY <2>2, <3>1 DEF Acknowledged
    <3> QED
      BY <3>2, <3>3, LastTaken
  <2> QED
    BY <1>1, <2>1, <2>2
<1>3. hpc' = "idle" /\ result' = "ok" /\ got' = got
  BY <1>2 DEF HostReceived, TakeReply, TakeMessage, TakeData, TakeRest, DiscReturns
<1>4. Aligned'
  BY <1>2, <1>3 DEF Aligned
<1>5. \/ req.op = "I" /\ got = Sector /\ Sector # <<>> /\ stored = FALSE /\ Present
      \/ req.op = "O" /\ stored = TRUE
  <2>1. CASE Len(got) = SectorLen /\ Reading(2 + SectorLen)
    <3>1. PICK a : a = <<SOH>> \o Sector \o <<ACK, EOT>>
      OBVIOUS
    <3>2. Sector \in Seq(Passing) /\ Len(Sector) = SectorLen /\ Sector # <<>>
      BY <1>1, <2>1, <3>1, Reads, Constants, SeqMonotonic DEF Reading
    <3>3. \A i \in 1 .. Len(got) : got[i] = Sector[i]
      BY <2>1 DEF Reading
    <3>4. got = Sector
      BY <1>1, <2>1, <3>2, <3>3, SeqEqual
    <3> QED
      BY <2>1, <3>2, <3>4 DEF Reading
  <2>2. CASE Acknowledged(1)
    BY <2>2 DEF Acknowledged
  <2> QED
    BY <1>1, <2>1, <2>2
<1> QED
  BY <1>1, <1>3, <1>4, <1>5, ReceiveKeeps

\* The message, and the EOT after it.
LEMMA MessageStep ==
  ASSUME Lawful, TextOnly, IInv, Receive, hpc = "message"
  PROVE  /\ IInv' /\ stored = FALSE
         /\ \/ hpc' = "message"
            \/ /\ hpc' = "idle" /\ result' = "error"
               /\ disc[req.place.drive] = NoDisc \/ (req.op = "O" /\ Fault # {})
<1>1. /\ TypeInv /\ (Refused(1) \/ Refused(2)) /\ got \in Seq(Passing)
  BY DEF IInv, Aligned, TypeInv
<1>2. \A c : HostReceived(c) => TakeMessage(c) /\ got' = got
  BY DEF HostReceived, TakeReply, TakeRest, TakeMessage, TakeData
<1>3. /\ stored = FALSE
      /\ disc[req.place.drive] = NoDisc \/ (req.op = "O" /\ Fault # {})
  BY <1>1 DEF Refused
<1>4. CASE Refused(1)
  <2>1. PICK m \in Ctl!Message : Given(<<NAK, m, EOT>>, 1, "ERROR", "IDLE")
    BY <1>4 DEF Refused
  <2>2. PICK a : a = <<NAK, m, EOT>>
    OBVIOUS
  <2>3. a \in Seq(Passing) /\ 1 < Len(a) /\ a[1 + 1] = m /\ 1 + 1 = 2 /\ m # EOT
    BY <2>2, ThreeChars
  <2>4. HostReceived(m) /\ Given(a, 2, "ERROR", "IDLE")'
    <3>1. HostReceived(a[1 + 1]) /\ Given(a, 1 + 1, "ERROR", "IDLE")'
      BY <1>1, <2>1, <2>2, <2>3, GivenTaken
    <3> QED
      BY <2>3, <3>1
  <2>5. hpc' = "message" /\ result' = result /\ got' = got
    BY <1>2, <2>3, <2>4 DEF TakeMessage
  <2>6. Refused(2)'
    BY <1>4, <2>2, <2>4, ReceiveQuiet DEF Refused
  <2>7. Aligned'
    BY <2>5, <2>6 DEF Aligned
  <2> QED
    BY <1>1, <1>3, <2>5, <2>7, ReceiveKeeps
<1>5. CASE Refused(2)
  <2>1. PICK m \in Ctl!Message : Given(<<NAK, m, EOT>>, 2, "ERROR", "IDLE")
    BY <1>5 DEF Refused
  <2>2. PICK a : a = <<NAK, m, EOT>>
    OBVIOUS
  <2>3. a \in Seq(Passing) /\ 2 + 1 = Len(a) /\ a[2 + 1] = EOT
    BY <2>2, ThreeChars
  <2>4. /\ HostReceived(EOT)
        /\ up' = <<>> /\ down' = <<>> /\ state' = "IDLE" /\ idx' = 0 /\ buf' = <<>>
    <3>1. Given(a, 2, "ERROR", "IDLE")
      BY <2>1, <2>2
    <3> QED
      BY <2>3, <3>1, LastTaken
  <2>5. hpc' = "idle" /\ result' = "error" /\ got' = got
    BY <1>2, <2>4 DEF TakeMessage
  <2>6. Aligned'
    BY <2>4, <2>5 DEF Aligned
  <2> QED
    BY <1>1, <1>3, <2>5, <2>6, ReceiveKeeps
<1> QED
  BY <1>1, <1>4, <1>5

LEMMA NextIInv == Lawful /\ TextOnly /\ IInv /\ [Next]_vars => IInv'
<1> SUFFICES ASSUME Lawful, TextOnly, IInv, [Next]_vars PROVE IInv'
  OBVIOUS
<1>1. CASE Receive
  BY <1>1, ReceiveQuiet, ReplyStep, AbsorbStep, ReadStep, LastReplyStep, LastAbsorbStep, MessageStep
<1>2. CASE UNCHANGED vars
  <2>1. UNCHANGED <<state, buf, idx, target, disc, file, status, up, down, stored,
                    hpc, req, sent, got, result>>
    BY <1>2 DEF vars, ctl, hvars
  <2>2. /\ Sector' = Sector /\ Present' = Present /\ Targeted' = Targeted
        /\ CommandText' = CommandText /\ Owed' = Owed
    BY <2>1 DEF Sector, Ctl!SectorOf, Present, Targeted, CommandText, Owed, Rest, Ctl!Responding
  <2>3. /\ \A f, n : Sent(f, n)' <=> Sent(f, n)
        /\ \A a, k, d, e : Given(a, k, d, e)' <=> Given(a, k, d, e)
    BY <2>1, <2>2 DEF Sent, Given
  <2>4. /\ \A n : (Commanding(n)' <=> Commanding(n)) /\ (Storing(n)' <=> Storing(n))
        /\ \A k : /\ Reading(k)' <=> Reading(k)
                  /\ Promised(k)' <=> Promised(k)
                  /\ Acknowledged(k)' <=> Acknowledged(k)
                  /\ Refused(k)' <=> Refused(k)
    BY <2>1, <2>2, <2>3
       DEF Commanding, Storing, Reading, Promised, Acknowledged, Refused
  <2>5. Aligned' <=> Aligned
    BY <2>1, <2>4 DEF Aligned
  <2> QED
    BY <2>1, <2>5 DEF IInv, TypeInv, Mounted, Starting
<1> QED
  BY <1>1, <1>2, MountStep, AskStep, SendStep, TakeStep, GiveStep DEF Next

LEMMA ConversationInvariant == ASSUME Lawful, TextOnly PROVE Spec => []IInv
BY InitIInv, NextIInv, PTL DEF Spec

-----------------------------------------------------------------------------
(* Conversation implements BlockDevice.                                     *)

Held == [p \in Place |-> StoredAt(p)]

\* Two sectors of a disc have no offset in common.
LEMMA SectorsApart ==
  ASSUME Lawful, NEW s \in Nat, NEW u \in Nat, s # u, NEW i \in 1 .. SectorLen
  PROVE  u * SectorLen + i - 1 \notin s * SectorLen .. s * SectorLen + SectorLen - 1
<1>1. SectorLen \in Nat /\ i \in Nat /\ s * SectorLen \in Nat /\ u * SectorLen \in Nat
  BY Constants
<1>2. CASE s < u
  <2>1. u >= s + 1
    BY <1>2
  <2>2. u * SectorLen >= (s + 1) * SectorLen
    BY <1>1, <2>1
  <2>3. (s + 1) * SectorLen = s * SectorLen + SectorLen
    BY <1>1
  <2> QED
    BY <1>1, <2>2, <2>3
<1>3. CASE u < s
  <2>1. s >= u + 1
    BY <1>3
  <2>2. s * SectorLen >= (u + 1) * SectorLen
    BY <1>1, <2>1
  <2>3. (u + 1) * SectorLen = u * SectorLen + SectorLen
    BY <1>1
  <2> QED
    BY <1>1, <2>2, <2>3
<1> QED
  BY <1>2, <1>3

\* A block that is written over a sector is what it holds, and no other does.
LEMMA SectorAfter ==
  ASSUME Lawful, NEW m \in Text, NEW s \in 0 .. NSector - 1, NEW u \in 0 .. NSector - 1,
         NEW w \in [1 .. SectorLen -> Plain], Len(w) = SectorLen
  PROVE  Ctl!SectorOf(Ctl!Overwrite(m, s * SectorLen, w), u)
           = IF u = s THEN w ELSE Ctl!SectorOf(m, u)
<1> DEFINE after == Ctl!Overwrite(m, s * SectorLen, w)
<1>1. s \in Nat /\ u \in Nat /\ SectorLen \in Nat /\ s * SectorLen \in Nat /\ u * SectorLen \in Nat
  BY Constants
<1>2. ASSUME NEW i \in 1 .. SectorLen
      PROVE  after[u * SectorLen + i - 1] = IF u = s THEN w[i] ELSE m[u * SectorLen + i - 1]
  <2> DEFINE o == u * SectorLen + i - 1
  <2>1. o \in Ctl!Offset
    BY SectorIsOnDisc
  <2>2. after[o] = IF o \in s * SectorLen .. s * SectorLen + SectorLen - 1
                     THEN w[o - s * SectorLen + 1] ELSE m[o]
    BY <2>1 DEF Ctl!Overwrite
  <2>3. CASE u = s
    <3>1. o \in s * SectorLen .. s * SectorLen + SectorLen - 1 /\ o - s * SectorLen + 1 = i
      BY <1>1, <2>3
    <3> QED
      BY <2>2, <2>3, <3>1
  <2>4. CASE u # s
    <3>1. o \notin s * SectorLen .. s * SectorLen + SectorLen - 1
      BY <1>1, <2>4, SectorsApart
    <3> QED
      BY <2>2, <2>4, <3>1
  <2> QED
    BY <2>3, <2>4
<1> HIDE DEF after
<1>3. Ctl!SectorOf(after, u) = [i \in 1 .. SectorLen |-> after[u * SectorLen + i - 1]]
  BY DEF Ctl!SectorOf, Ctl!SectorOffset
<1>4. Ctl!SectorOf(m, u) = [i \in 1 .. SectorLen |-> m[u * SectorLen + i - 1]]
  BY DEF Ctl!SectorOf, Ctl!SectorOffset
<1>5. Ctl!SectorOf(after, u) = IF u = s THEN w ELSE Ctl!SectorOf(m, u)
  BY <1>2, <1>3, <1>4
<1> QED
  BY <1>5 DEF after

\* R/W on its way to the answer: the device does not see it.
LEMMA OnTheWay ==
  ASSUME disc' = disc, req' = req, hpc # "idle", hpc' # "idle", stored' = stored
  PROVE  UNCHANGED Device!vars
BY DEF Device!vars, StoredAt, Ctl!SectorOf, Phase, Answer

LEMMA InitDevice == Init => Device!Init
<1> SUFFICES ASSUME Init PROVE Device!Init
  OBVIOUS
<1>1. \A p \in Place : StoredAt(p) = <<>>
  BY DEF Init, Ctl!Init, StoredAt, Place, Ctl!Drive
<1> QED
  BY <1>1 DEF Init, HostInit, Device!Init, Device!NoAnswer, Phase, Answer

\* Discs are put in drives that have none.
LEMMA MountMaps ==
  ASSUME Lawful, TextOnly, IInv, Mount
  PROVE  Device!Mount
<1>1. PICK d \in Ctl!Drive : (\E f \in HostFile : Ctl!Insert(d, f)) \/ Ctl!InsertFails(d)
  BY DEF Mount
<1>2. UNCHANGED <<stored, hpc, req, got, result>>
  BY DEF Mount, hvars
<1>3. \A p \in Place : p.drive \in Ctl!Drive
  BY DEF Place, Ctl!Drive
<1>4. ASSUME NEW p \in Place, StoredAt(p) # <<>>
      PROVE  StoredAt(p)' = StoredAt(p)
  <2>1. disc[p.drive] # NoDisc
    BY <1>4 DEF StoredAt
  <2>2. disc'[p.drive] = disc[p.drive]
    BY <1>3, <2>1, MountStep
  <2> QED
    BY <2>2 DEF StoredAt, Ctl!SectorOf
<1> QED
  BY <1>2, <1>4 DEF Device!Mount, Phase, Answer

LEMMA AskMaps ==
  ASSUME Lawful, IInv, Ask
  PROVE  Device!Ask
<1>1. /\ disc' = disc /\ hpc = "idle" /\ hpc' = "text" /\ req' \in HostRequest
      /\ result' = "none" /\ stored' = FALSE
  BY DEF Ask, HostAsk, ctl
<1>2. req' \in Device!Request
  BY <1>1 DEF HostRequest, Device!Request, Lawful
<1>3. \A p \in Place : StoredAt(p)' = StoredAt(p)
  BY <1>1 DEF StoredAt, Ctl!SectorOf
<1> QED
  BY <1>1, <1>2, <1>3 DEF Device!Ask, Device!NoAnswer, Phase, Answer

\* The write of a block is the moment it is stored.
LEMMA BlockMaps ==
  ASSUME Lawful, TextOnly, IInv, Take, BlockReady, stored' = (state' = "WRITTEN")
  PROVE  Device!Store \/ UNCHANGED Device!vars
<1>1. UNCHANGED <<hpc, req, got, result>> /\ hpc # "idle" /\ stored = FALSE
  BY TakeStep
<1>2. CASE state' = "ERROR" /\ disc' = disc
  <2>1. stored' = stored
    BY <1>1, <1>2
  <2> QED
    BY <1>1, <1>2, <2>1, OnTheWay
<1>3. CASE /\ state' = "WRITTEN"
           /\ disc' = [disc EXCEPT ![req.place.drive] =
                         Ctl!Overwrite(@, req.place.sector * SectorLen, req.data)]
  <2> DEFINE d == req.place.drive
             s == req.place.sector
             w == req.data
  <2>1. /\ d \in Ctl!Drive /\ s \in 0 .. NSector - 1 /\ req.place \in Place /\ req.op = "O"
        /\ w \in [1 .. SectorLen -> Plain] /\ Len(w) = SectorLen
        /\ target.drive = d
    BY RequestType DEF BlockReady, Targeted
  <2>2. disc[d] \in Text /\ disc \in [Ctl!Drive -> Text \cup {NoDisc}] /\ NoDisc \notin Text
    <3>1. Text \subseteq Ctl!Image
      BY DEF Text, Ctl!Image, Plain
    <3> QED
      BY <2>1, <3>1, BlockFits DEF IInv, TypeInv, Lawful
  <2>3. disc' = [disc EXCEPT ![d] = Ctl!Overwrite(@, s * SectorLen, w)]
    BY <1>3
  <2>4. /\ disc'[d] = Ctl!Overwrite(disc[d], s * SectorLen, w) /\ disc'[d] # NoDisc
        /\ \A e \in Ctl!Drive : e # d => disc'[e] = disc[e]
    <3>1. disc'[d] # NoDisc
      BY <2>1, <2>2, BlockWritten
    <3> HIDE DEF d, s, w
    <3> QED
      BY <2>1, <2>2, <2>3, <3>1
  <2>5. ASSUME NEW p \in Place
        PROVE  StoredAt(p)' = IF p = req.place THEN w ELSE StoredAt(p)
    <3>1. /\ p.drive \in Ctl!Drive /\ p.sector \in 0 .. NSector - 1
          /\ p = req.place <=> p.drive = d /\ p.sector = s
      BY <2>1 DEF Place, Ctl!Drive
    <3>2. StoredAt(p)' = IF disc'[p.drive] = NoDisc THEN <<>>
                         ELSE Ctl!SectorOf(disc'[p.drive], p.sector)
      BY DEF StoredAt, Ctl!SectorOf
    <3>3. CASE p.drive # d
      BY <2>4, <3>1, <3>2, <3>3 DEF StoredAt
    <3>4. CASE p.drive = d
      <4>1. Ctl!SectorOf(disc'[d], p.sector)
              = IF p.sector = s THEN w ELSE Ctl!SectorOf(disc[d], p.sector)
        BY <2>1, <2>2, <2>4, <3>1, SectorAfter
      <4>2. StoredAt(p) = Ctl!SectorOf(disc[d], p.sector)
        BY <2>2, <3>4 DEF StoredAt
      <4>3. StoredAt(p)' = Ctl!SectorOf(disc'[d], p.sector)
        BY <2>4, <3>2, <3>4
      <4> QED
        BY <3>1, <3>4, <4>1, <4>2, <4>3
    <3> QED
      BY <3>3, <3>4
  <2>6. StoredAt(req.place) # <<>>
    <3>1. StoredAt(req.place) = Ctl!SectorOf(disc[d], s)
      BY <2>2 DEF StoredAt
    <3> QED
      BY <2>1, <2>2, <3>1, SectorType
  <2>7. /\ Phase(stored) = "asked" /\ Phase(stored)' = "stored" /\ Answer' = Answer
    BY <1>1, <1>3 DEF Phase, Answer
  <2>8. Held' = [Held EXCEPT ![req.place] = w]
    BY <2>1, <2>5 DEF Held
  <2>9. Held[req.place] # <<>>
    BY <2>1, <2>6 DEF Held
  <2> QED
    BY <1>1, <2>1, <2>7, <2>8, <2>9 DEF Device!Store, Held
<1> QED
  BY <1>2, <1>3, BlockWritten

\* The last character of an answer is the answer.
LEMMA AnswerMaps ==
  ASSUME Lawful, TextOnly, IInv, Receive, hpc = "lastAbsorb"
  PROVE  Device!AnswerRead \/ Device!AnswerWrite
<1>1. /\ hpc' = "idle" /\ result' = "ok" /\ got' = got /\ disc' = disc /\ req' = req
      /\ req \in HostRequest /\ stored' = stored
  BY LastAbsorbStep, ReceiveQuiet
<1>2. req.place \in Place /\ \A p \in Place : StoredAt(p)' = StoredAt(p)
  BY <1>1, RequestType DEF StoredAt, Ctl!SectorOf
<1>3. Held' = Held /\ Held[req.place] = StoredAt(req.place)
  BY <1>2 DEF Held
<1>4. CASE req.op = "I" /\ got = Sector /\ Sector # <<>> /\ stored = FALSE /\ Present
  <2>1. StoredAt(req.place) = Sector
    BY <1>4 DEF StoredAt, Sector, Present
  <2>2. Phase(stored) = "asked" /\ Phase(stored)' = "idle" /\ Answer' = [kind |-> "ok", data |-> Sector]
    BY <1>1, <1>4 DEF Phase, Answer
  <2> QED
    BY <1>1, <1>3, <1>4, <2>1, <2>2 DEF Device!AnswerRead, Device!Ok, Held
<1>5. CASE req.op = "O" /\ stored = TRUE
  <2>1. Phase(stored) = "stored" /\ Phase(stored)' = "idle" /\ Answer' = [kind |-> "ok", data |-> <<>>]
    BY <1>1, <1>5 DEF Phase, Answer
  <2> QED
    BY <1>1, <1>3, <2>1 DEF Device!AnswerWrite, Device!Ok, Held
<1> QED
  BY <1>4, <1>5, LastAbsorbStep

LEMMA MessageMaps ==
  ASSUME Lawful, TextOnly, IInv, Receive, hpc = "message"
  PROVE  Device!Refuse \/ UNCHANGED Device!vars
<1>1. /\ disc' = disc /\ req' = req /\ req \in HostRequest /\ stored' = stored /\ stored = FALSE
  BY MessageStep, ReceiveQuiet
<1>2. CASE hpc' = "message"
  BY <1>1, <1>2, OnTheWay
<1>3. CASE /\ hpc' = "idle" /\ result' = "error"
           /\ disc[req.place.drive] = NoDisc \/ (req.op = "O" /\ Fault # {})
  <2>1. req.place \in Place /\ \A p \in Place : StoredAt(p)' = StoredAt(p)
    BY <1>1, RequestType DEF StoredAt, Ctl!SectorOf
  <2>2. Held' = Held /\ Held[req.place] = StoredAt(req.place)
    BY <2>1 DEF Held
  <2>3. StoredAt(req.place) = <<>> \/ (req.op = "O" /\ Fault # {})
    BY <1>3 DEF StoredAt
  <2>4. Phase(stored) = "asked" /\ Phase(stored)' = "idle" /\ Answer' = [kind |-> "error", data |-> <<>>]
    BY <1>1, <1>3 DEF Phase, Answer
  <2> QED
    BY <1>1, <2>2, <2>3, <2>4 DEF Device!Refuse, Device!Refusal, Held
<1> QED
  BY <1>2, <1>3, MessageStep

LEMMA NextMaps ==
  ASSUME Lawful, TextOnly, IInv, [Next]_vars
  PROVE  [Device!Next]_(Device!vars)
<1>1. CASE Send
  BY <1>1, SendStep, OnTheWay
<1>2. CASE Take
  <2>1. UNCHANGED <<req, hpc>> /\ hpc # "idle"
    BY <1>2, TakeStep
  <2>2. CASE UNCHANGED <<disc, stored>>
    BY <2>1, <2>2, OnTheWay
  <2>3. CASE BlockReady /\ stored' = (state' = "WRITTEN")
    BY <1>2, <2>3, BlockMaps DEF Device!Next
  <2> QED
    BY <1>2, <2>2, <2>3, TakeStep
<1>3. CASE Give
  BY <1>3, GiveStep DEF Device!vars, StoredAt, Ctl!SectorOf, Phase, Answer
<1>4. CASE Receive
  <2>1. CASE hpc \notin {"lastAbsorb", "message"}
    <3>1. disc' = disc /\ stored' = stored /\ req' = req /\ hpc # "idle" /\ hpc' # "idle"
      BY <1>4, <2>1, ReceiveQuiet, ReplyStep, AbsorbStep, ReadStep, LastReplyStep
    <3> QED
      BY <3>1, OnTheWay
  <2>2. CASE hpc = "lastAbsorb"
    BY <1>4, <2>2, AnswerMaps DEF Device!Next
  <2>3. CASE hpc = "message"
    BY <1>4, <2>3, MessageMaps DEF Device!Next
  <2> QED
    BY <2>1, <2>2, <2>3
<1>5. CASE UNCHANGED vars
  BY <1>5 DEF vars, ctl, hvars, Device!vars, StoredAt, Ctl!SectorOf, Phase, Answer
<1> QED
  BY <1>1, <1>2, <1>3, <1>4, <1>5, MountMaps, AskMaps DEF Next, Device!Next

\* R/W is a store of blocks over any line that keeps the order of the characters
\* and loses none: for blocks that hold no barred byte, and whatever stdio calls
\* fail but fflush.
THEOREM ConversationIsADevice == ASSUME Lawful, TextOnly PROVE Spec => ImplementsDevice
BY ConversationInvariant, InitDevice, NextMaps, PTL DEF Spec, ImplementsDevice, Device!Spec

=============================================================================
