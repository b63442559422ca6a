--------------------------- MODULE LocalDiscProofs ---------------------------
(***************************************************************************)
(* Proofs about LocalDisc, for every number of drives and sectors, every   *)
(* size of a sector, everything the discs may hold but an EOT, which the   *)
(* protocol cannot carry, and every stdio call that fails but fflush, for  *)
(* which the controller itself puts an EOT on the disc.                    *)
(*                                                                         *)
(* R/W and the controller take turns without a line between them, so the   *)
(* inductive invariant gives for each place in R/W the state of the        *)
(* controller and exactly what its buffer holds.                           *)
(***************************************************************************)
EXTENDS LocalDisc, SequenceTheorems, TLAPS

\* No file, array or block holds an EOT, nor the memory an image is read into,
\* and fflush does not fail: its message, that goes to the image, ends in one.
TextOnly ==
  /\ \A f \in HostFile : \A o \in Ctl!Offset : f[o] # EOT
  /\ \A m \in StaticImage : \A o \in Ctl!Offset : m[o] # EOT
  /\ \A w \in HostBlock : \A i \in 1 .. SectorLen : w[i] # EOT
  /\ EOT \notin Heap
  /\ "fflush" \notin Fault

Text == {m \in Ctl!Image : \A o \in Ctl!Offset : m[o] # EOT}

-----------------------------------------------------------------------------
(* What is in the buffer on behalf of the request R/W serves.              *)

Present == req \in HostRequest /\ disc[req.place.drive] # NoDisc

Sector == Ctl!SectorOf(disc[req.place.drive], req.place.sector)

\* A sector is given, of which BLOCK-READ has the beginning.
Reading ==
  /\ state = "INPUT" /\ req.op = "I" /\ Present
  /\ buf = <<SOH>> \o Sector \o <<ACK, EOT>>
  /\ got \in Seq(Ctl!Byte) /\ \A i \in 1 .. Len(got) : got[i] = Sector[i]

\* The write goes to a file, where R/W wants it.
Targeted ==
  /\ req.op = "O" /\ Present
  /\ target.drive = req.place.drive /\ target.sector = req.place.sector
  /\ file[target.drive] # NoFile

Promised == state = "OUTPUT" /\ Targeted /\ buf = <<ENQ, EOT>>

Taking ==
  /\ state = "WRITING" /\ Targeted /\ idx = 0
  /\ buf \in Seq(Ctl!Byte) /\ Len(buf) = sent
  /\ \A i \in 1 .. sent : buf[i] = req.data[i]

Acknowledged == state = "WRITTEN" /\ req.op = "O" /\ buf = <<ACK, EOT>>

Refused ==
  /\ state = "ERROR" /\ \E m \in Ctl!Message : buf = <<NAK, m, EOT>>
  /\ req \in HostRequest
  /\ disc[req.place.drive] = NoDisc \/ (req.op = "O" /\ Fault # {})

Aligned ==
  /\ hpc \in {"idle", "text"} => state = "IDLE" /\ buf = <<>> /\ idx = 0
  /\ hpc = "textEOT" => state = "IDLE" /\ buf = <<CommandText>> /\ idx = 0
  /\ hpc = "reply" => idx = 0 /\ (Refused \/ (Reading /\ got = <<>>) \/ Promised)
  /\ hpc = "absorb" => idx = 1 /\ Promised
  /\ hpc = "read" => idx = 1 + Len(got) /\ Len(got) < SectorLen /\ Reading
  /\ hpc = "block" => sent < SectorLen /\ Taking
  /\ hpc = "blockEOT" => sent = SectorLen /\ Taking
  /\ hpc = "lastReply" =>
       \/ idx = 1 + SectorLen /\ Len(got) = SectorLen /\ Reading
       \/ idx = 0 /\ (Acknowledged \/ Refused)
  /\ hpc = "lastAbsorb" =>
       \/ idx = 2 + SectorLen /\ Len(got) = SectorLen /\ Reading
       \/ idx = 1 /\ Acknowledged
  /\ hpc = "message" => idx \in {1, 2} /\ Refused

\* The discs, as far as main has come.  Nothing writes to the constant array.
Mounted ==
  /\ stage \notin {"rf_inst", "cold"} => hpc = "idle"
  /\ stage = "rf_inst" /\ hpc # "idle" => req.op = "I"
  /\ stage \in {"start", "rf_inst"} => \A d \in Ctl!Drive : file[d] = NoFile
  /\ stage \in {"start", "DR0"} => \A d \in Ctl!Drive : disc[d] = NoDisc
  /\ stage \in {"rf_inst", "DR1"} => \A d \in Ctl!Drive : d # 0 => disc[d] = NoDisc
  /\ (stage = "DR0" => args # 0) /\ (stage = "DR1" => args = 2)
  /\ stage \in {"DR0", "DR1", "cold"} =>
       \A d \in Ctl!Drive : disc[d] # NoDisc => file[d] # NoFile

TypeInv ==
  /\ hpc \in {"idle", "text", "textEOT", "reply", "absorb", "read", "block", "blockEOT",
              "lastReply", "lastAbsorb", "message"}
  /\ stage \in {"start", "rf_inst", "DR0", "DR1", "cold", "returned"}
  /\ args \in {0, 1, 2}
  /\ hpc # "idle" => req \in HostRequest
  /\ sent \in Nat /\ stored \in BOOLEAN /\ got \in Seq(Ctl!Byte)
  /\ disc \in [Ctl!Drive -> Text \cup {NoDisc}]
  /\ file \in [Ctl!Drive -> Ctl!File \cup {NoFile}]

\* R/W has its answer when the write is made.
StoredKnown ==
  hpc # "idle" => (stored <=> hpc \in {"lastReply", "lastAbsorb"} /\ state = "WRITTEN")

\* R/W has not returned yet, and begins with nothing.
Starting ==
  /\ hpc \in {"text", "textEOT", "reply"} => sent = 0 /\ got = <<>>
  /\ hpc = "absorb" => sent = 0
  /\ hpc # "idle" => result = "none"

IInv ==
  /\ TypeInv /\ Mounted /\ Aligned /\ StoredKnown /\ Starting
  /\ ~outOfStep /\ status = "running"

-----------------------------------------------------------------------------
(* Characters, commands and responses.                                     *)

LEMMA Constants ==
  /\ Ctl!Command \subseteq Ctl!Byte /\ Ctl!Message \subseteq Ctl!Byte
  /\ {SOH, ACK, NAK, ENQ, EOT} \subseteq Ctl!Byte
  /\ \A c \in Ctl!Command \cup Ctl!Message : c # EOT
  /\ SOH # EOT /\ ACK # EOT /\ NAK # EOT /\ ENQ # EOT
  /\ SOH # NAK /\ ACK \notin {SOH, NAK} /\ ENQ \notin {SOH, NAK}
  /\ NDrive \in Nat /\ NDrive > 0 /\ NSector \in Nat /\ NSector > 0
  /\ SectorLen \in Nat /\ SectorLen > 0 /\ BufSize \in Nat /\ BufSize = SectorLen + 3
<1>1. /\ NDrive \in Nat /\ NDrive > 0 /\ NSector \in Nat /\ NSector > 0
      /\ SectorLen \in Nat /\ SectorLen > 0 /\ BufSize \in Nat /\ BufSize = SectorLen + 3
  BY SizesAssumption
<1>2. /\ Ctl!Command \subseteq Ctl!Byte /\ Ctl!Message \subseteq Ctl!Byte
      /\ {SOH, ACK, NAK, ENQ, EOT} \subseteq Ctl!Byte
  BY DEF Ctl!Byte, Ctl!Control
<1> QED
  BY <1>1, <1>2, BytesAssumption

\* The bytes of a sector that is on the disc are at offsets of the disc.
LEMMA SectorIsOnDisc ==
  ASSUME NEW s \in 0 .. NSector - 1, NEW i \in 1 .. SectorLen
  PROVE  s * SectorLen + i - 1 \in Ctl!Offset
<1>1. NSector \in Nat /\ SectorLen \in Nat /\ s \in Nat /\ i \in Nat
  BY Constants
<1>2. s * SectorLen \in Nat /\ NSector * SectorLen \in Nat
  BY <1>1
<1>3. (s + 1) * SectorLen <= NSector * SectorLen
  BY <1>1
<1>4. (s + 1) * SectorLen = s * SectorLen + SectorLen
  BY <1>1
<1> QED
  BY <1>1, <1>2, <1>3, <1>4 DEF Ctl!Offset

\* What a sector holds.
LEMMA SectorType ==
  ASSUME NEW m \in Text, NEW s \in 0 .. NSector - 1
  PROVE  /\ Ctl!SectorOf(m, s) \in Seq(Ctl!Byte)
         /\ Len(Ctl!SectorOf(m, s)) = SectorLen
         /\ Ctl!SectorOf(m, s) # <<>>
         /\ \A i \in 1 .. SectorLen : Ctl!SectorOf(m, s)[i] # EOT
<1> DEFINE q == Ctl!SectorOf(m, s)
<1>1. /\ q = [i \in 1 .. SectorLen |-> m[s * SectorLen + i - 1]]
      /\ SectorLen \in Nat /\ SectorLen > 0
  BY Constants DEF Ctl!SectorOf, Ctl!SectorOffset
<1> HIDE DEF q
<1>2. \A i \in 1 .. SectorLen :
        m[s * SectorLen + i - 1] \in Ctl!Byte /\ m[s * SectorLen + i - 1] # EOT
  BY SectorIsOnDisc DEF Text, Ctl!Image
<1>3. q \in [1 .. SectorLen -> Ctl!Byte]
  BY <1>1, <1>2
<1>4. q \in Seq(Ctl!Byte)
  BY <1>1, <1>3, SeqDef
<1>5. Len(q) = SectorLen
  BY <1>1, <1>3, <1>4, LenProperties
<1>6. q # <<>>
  BY <1>1, <1>4, <1>5, EmptySeq
<1> QED
  BY <1>1, <1>2, <1>4, <1>5, <1>6 DEF q

\* The response to an I command, character by character.
LEMMA ReadResponse ==
  ASSUME NEW q \in Seq(Ctl!Byte), Len(q) = SectorLen, NEW r, r = <<SOH>> \o q \o <<ACK, EOT>>
  PROVE  /\ Len(r) = SectorLen + 3 /\ r[1] = SOH
         /\ \A i \in 1 .. SectorLen : r[i + 1] = q[i]
         /\ r[SectorLen + 2] = ACK /\ r[SectorLen + 3] = EOT
<1> DEFINE first == <<SOH>>
           last == <<ACK, EOT>>
           p == first \o q
<1>1. /\ first \in Seq(Ctl!Byte) /\ Len(first) = 1 /\ first[1] = SOH
      /\ last \in Seq(Ctl!Byte) /\ Len(last) = 2 /\ last[1] = ACK /\ last[2] = EOT
  BY Constants
<1>2. r = p \o last
  OBVIOUS
<1> HIDE DEF first, last
<1>3. /\ p \in Seq(Ctl!Byte) /\ Len(p) = 1 + SectorLen /\ p[1] = SOH
      /\ \A i \in 1 .. SectorLen : p[i + 1] = q[i]
  <2>1. /\ p \in Seq(Ctl!Byte) /\ Len(p) = Len(first) + Len(q)
        /\ \A i \in 1 .. Len(first) + Len(q) :
             p[i] = IF i <= Len(first) THEN first[i] ELSE q[i - Len(first)]
    BY <1>1, ConcatProperties
  <2> HIDE DEF p
  <2>2. \A i \in 1 .. SectorLen : i + 1 \in 1 .. 1 + SectorLen /\ ~(i + 1 <= 1) /\ i + 1 - 1 = i
    BY Constants
  <2> QED
    BY <1>1, <2>1, <2>2, Constants
<1> HIDE DEF p
<1>4. /\ Len(p \o last) = Len(p) + Len(last)
      /\ \A i \in 1 .. Len(p) + Len(last) :
           (p \o last)[i] = IF i <= Len(p) THEN p[i] ELSE last[i - Len(p)]
  BY <1>1, <1>3, ConcatProperties
<1>5. /\ Len(r) = SectorLen + 3
      /\ \A i \in 1 .. SectorLen + 3 :
           r[i] = IF i <= 1 + SectorLen THEN p[i] ELSE last[i - (1 + SectorLen)]
  BY <1>1, <1>2, <1>3, <1>4, Constants
<1>6. /\ 1 \in 1 .. SectorLen + 3 /\ 1 <= 1 + SectorLen
      /\ \A i \in 1 .. SectorLen : i + 1 \in 1 .. SectorLen + 3 /\ i + 1 <= 1 + SectorLen
      /\ SectorLen + 2 \in 1 .. SectorLen + 3 /\ ~(SectorLen + 2 <= 1 + SectorLen)
      /\ SectorLen + 3 \in 1 .. SectorLen + 3 /\ ~(SectorLen + 3 <= 1 + SectorLen)
      /\ SectorLen + 2 - (1 + SectorLen) = 1 /\ SectorLen + 3 - (1 + SectorLen) = 2
  BY Constants
<1>7. r[1] = p[1] /\ \A i \in 1 .. SectorLen : r[i + 1] = p[i + 1]
  BY <1>5, <1>6
<1>8. r[SectorLen + 2] = last[1] /\ r[SectorLen + 3] = last[2]
  <2>1. ASSUME NEW k \in {1, 2}
        PROVE  r[SectorLen + 1 + k] = last[k]
    <3> DEFINE n == SectorLen + 1 + k
    <3>1. n \in 1 .. SectorLen + 3 /\ ~(n <= 1 + SectorLen) /\ n - (1 + SectorLen) = k
      BY Constants
    <3> HIDE DEF n
    <3>2. r[n] = last[n - (1 + SectorLen)]
      BY <1>5, <3>1
    <3> QED
      BY <3>1, <3>2 DEF n
  <2>2. SectorLen + 1 + 1 = SectorLen + 2 /\ SectorLen + 1 + 2 = SectorLen + 3
    BY Constants
  <2>3. r[SectorLen + 1 + 1] = last[1] /\ r[SectorLen + 1 + 2] = last[2]
    BY <2>1
  <2> QED
    BY <2>2, <2>3
<1>9. \A i \in 1 .. SectorLen : r[i + 1] = q[i]
  BY <1>3, <1>7
<1> QED
  BY <1>1, <1>3, <1>5, <1>7, <1>8, <1>9

\* A request names a drive and a sector that there are.
LEMMA RequestType ==
  ASSUME NEW r \in HostRequest
  PROVE  /\ r.op \in {"I", "O"} /\ r.place \in Place
         /\ r.place.drive \in Ctl!Drive /\ r.place.sector \in 0 .. NSector - 1
         /\ r.op = "I" => r.data = <<>>
         /\ r.op = "O" => /\ r.data \in HostBlock /\ r.data \in [1 .. SectorLen -> Ctl!Byte]
                          /\ r.data \in Seq(Ctl!Byte) /\ Len(r.data) = SectorLen
<1>1. r.op \in {"I", "O"} /\ r.place \in HostPlace
      /\ (r.op = "I" => r.data = <<>>) /\ (r.op = "O" => r.data \in HostBlock)
  BY DEF HostRequest
<1>2. r.place \in Place
  BY <1>1, HostAssumption
<1>3. r.place.drive \in Ctl!Drive /\ r.place.sector \in 0 .. NSector - 1
  BY <1>2 DEF Place, Ctl!Drive
<1>4. ASSUME NEW w \in HostBlock
      PROVE  w \in [1 .. SectorLen -> Ctl!Byte] /\ w \in Seq(Ctl!Byte) /\ Len(w) = SectorLen
  <2>1. w \in [1 .. SectorLen -> Ctl!Byte] /\ SectorLen \in Nat
    BY HostAssumption, Constants
  <2>2. w \in Seq(Ctl!Byte)
    BY <2>1, SeqDef
  <2> QED
    BY <2>1, <2>2, LenProperties
<1> QED
  BY <1>1, <1>2, <1>3, <1>4

LEMMA CommandType ==
  ASSUME req \in HostRequest
  PROVE  /\ CommandText \in Ctl!Command /\ CommandText # EOT
         /\ CommandText.op = req.op /\ CommandText.drive = req.place.drive
         /\ CommandText.sector = req.place.sector
<1>1. /\ req.op \in {"I", "O"} /\ req.place.drive \in 0 .. NDrive
      /\ req.place.sector \in 0 .. NSector
  BY RequestType, Constants DEF Ctl!Drive
<1> QED
  BY <1>1, Constants DEF CommandText, Ctl!Command

-----------------------------------------------------------------------------
(* Each action preserves the inductive invariant.                          *)

LEMMA InitIInv == Init => IInv
<1> SUFFICES ASSUME Init PROVE IInv
  OBVIOUS
<1>1. /\ state = "IDLE" /\ buf = <<>> /\ idx = 0 /\ status = "running"
      /\ disc = [d \in Ctl!Drive |-> NoDisc] /\ file = [d \in Ctl!Drive |-> NoFile]
      /\ hpc = "idle" /\ sent = 0 /\ got = <<>> /\ stage = "start"
      /\ args \in {0, 1, 2} /\ outOfStep = FALSE /\ stored = FALSE
  BY ArgsAssumption DEF Init, Ctl!Init, HostInit
<1>2. TypeInv
  BY <1>1, EmptySeq DEF TypeInv
<1> QED
  BY <1>1, <1>2 DEF IInv, Mounted, Aligned, StoredKnown, Starting

\* main changes the discs between requests, and nothing else of the controller.
LEMMA MainQuiet ==
  ASSUME IInv, Main
  PROVE  /\ hpc = "idle"
         /\ UNCHANGED <<state, buf, idx, target, status, hvars, args, outOfStep, stored>>
<1>1. hpc = "idle" /\ UNCHANGED <<hvars, args, outOfStep, stored>>
  BY DEF Main, InsertInst, EjectInst, InsertFile, IInv, Mounted
<1>2. UNCHANGED <<state, buf, idx, target, status>>
  BY DEF Main, InsertInst, EjectInst, InsertFile,
         Ctl!InsertBytes, Ctl!Eject, Ctl!Insert, Ctl!InsertFails
<1> QED
  BY <1>1, <1>2

\* What main has done to the discs once it is at its next stage.
LEMMA MainMounts ==
  ASSUME TextOnly, IInv, Main
  PROVE  /\ disc' \in [Ctl!Drive -> Text \cup {NoDisc}]
         /\ file' \in [Ctl!Drive -> Ctl!File \cup {NoFile}]
         /\ stage' \in {"rf_inst", "DR0", "DR1", "cold", "returned"}
         /\ Mounted'
<1>1. /\ disc \in [Ctl!Drive -> Text \cup {NoDisc}]
      /\ file \in [Ctl!Drive -> Ctl!File \cup {NoFile}]
      /\ args \in {0, 1, 2} /\ 0 \in Ctl!Drive
  BY Constants DEF IInv, TypeInv, Ctl!Drive
<1>2. hpc' = "idle" /\ args' = args
  BY MainQuiet DEF hvars
<1>3. CASE InsertInst
  <2>1. PICK m \in StaticImage : disc' = [disc EXCEPT ![0] = m]
    BY <1>3 DEF InsertInst, Ctl!InsertBytes
  <2>2. file' = file /\ stage = "start" /\ stage' = "rf_inst"
    BY <1>3 DEF InsertInst, Ctl!InsertBytes
  <2>3. m \in Text
    BY BytesAssumption DEF TextOnly, Text
  <2> QED
    BY <1>1, <1>2, <2>1, <2>2, <2>3 DEF IInv, Mounted
<1>4. CASE EjectInst
  <2>1. /\ disc' = [disc EXCEPT ![0] = NoDisc] /\ file' = [file EXCEPT ![0] = NoFile]
        /\ stage = "rf_inst" /\ stage' \in {"cold", "DR0"} /\ (stage' = "DR0" => args # 0)
    BY <1>4 DEF EjectInst, Ctl!Eject
  <2>2. \A d \in Ctl!Drive : disc'[d] = NoDisc
    BY <1>1, <2>1 DEF IInv, Mounted
  <2> QED
    BY <1>1, <1>2, <2>1, <2>2 DEF Mounted
<1>5. ASSUME NEW d \in {0, 1}, InsertFile(d)
      PROVE  /\ disc' \in [Ctl!Drive -> Text \cup {NoDisc}]
             /\ file' \in [Ctl!Drive -> Ctl!File \cup {NoFile}]
             /\ stage' \in {"rf_inst", "DR0", "DR1", "cold", "returned"}
             /\ Mounted'
  <2>1. CASE Ctl!InsertFails(d) /\ stage' = "returned"
    <3>1. disc' \in [Ctl!Drive -> Text \cup {NoDisc}] /\ file' = file
      BY <1>1, <2>1 DEF Ctl!InsertFails
    <3> QED
      BY <1>1, <1>2, <2>1, <3>1 DEF Mounted
  <2>2. ASSUME NEW f \in HostFile, Ctl!Insert(d, f),
               stage' = IF args = d + 1 THEN "cold" ELSE "DR1"
        PROVE  /\ disc' \in [Ctl!Drive -> Text \cup {NoDisc}]
               /\ file' \in [Ctl!Drive -> Ctl!File \cup {NoFile}]
               /\ stage' \in {"rf_inst", "DR0", "DR1", "cold", "returned"}
               /\ Mounted'
    <3>1. PICK h \in [Ctl!Offset -> Heap] : disc' = [disc EXCEPT ![d] = Ctl!ImageOf(f, h)]
      BY <2>2 DEF Ctl!Insert
    <3>2. file' = [file EXCEPT ![d] = f] /\ f \in Ctl!File /\ f # NoFile
      BY <2>2, BytesAssumption DEF Ctl!Insert
    <3>3. Ctl!ImageOf(f, h) \in Text
      BY <3>2, BytesAssumption DEF Ctl!ImageOf, Ctl!Image, Ctl!File, Text, TextOnly
    <3>4. stage = (IF d = 0 THEN "DR0" ELSE "DR1")
      BY <1>5 DEF InsertFile
    <3>5. \A e \in Ctl!Drive : e # d => disc'[e] = disc[e] /\ file'[e] = file[e]
      BY <1>1, <3>1, <3>2
    <3>6. \A e \in Ctl!Drive : disc'[e] # NoDisc => file'[e] # NoFile
      BY <1>1, <3>2, <3>4, <3>5 DEF IInv, Mounted
    <3>7. stage' \in {"cold", "DR1"} /\ (stage' = "DR1" => d = 0 /\ args = 2)
      BY <1>1, <2>2, <3>4 DEF IInv, Mounted
    <3>8. d = 0 => \A e \in Ctl!Drive : e # 0 => disc'[e] = NoDisc
      BY <3>4, <3>5 DEF IInv, Mounted
    <3> QED
      BY <1>1, <1>2, <3>1, <3>2, <3>3, <3>6, <3>7, <3>8 DEF Mounted
  <2> QED
    BY <1>5, <2>1, <2>2 DEF InsertFile
<1> QED
  BY <1>3, <1>4, <1>5 DEF Main

LEMMA MainStep ==
  ASSUME TextOnly, IInv, Main
  PROVE  IInv'
<1>1. /\ hpc = "idle"
      /\ UNCHANGED <<state, buf, idx, status, hpc, req, sent, got, result, args, outOfStep, stored>>
  BY MainQuiet DEF hvars
<1>2. TypeInv' /\ Mounted'
  BY <1>1, MainMounts DEF IInv, TypeInv
<1> QED
  BY <1>1, <1>2 DEF IInv, Aligned, StoredKnown, Starting

LEMMA AskStep ==
  ASSUME IInv, Ask
  PROVE  IInv'
<1>1. /\ UNCHANGED <<state, buf, idx, status, disc, file, stage, args, outOfStep>>
      /\ hpc = "idle" /\ hpc' = "text" /\ req' \in HostRequest /\ sent' = 0 /\ got' = <<>>
      /\ result' = "none" /\ stored' = FALSE
      /\ stage \in {"rf_inst", "cold"} /\ (stage = "rf_inst" => req'.op = "I")
  BY DEF Ask, HostAsk, ctl
<1>2. TypeInv'
  BY <1>1, EmptySeq DEF IInv, TypeInv
<1>3. Aligned'
  BY <1>1 DEF IInv, Aligned
<1> QED
  BY <1>1, <1>2, <1>3 DEF IInv, Mounted, StoredKnown, Starting

\* The controller takes what R/W sends.
LEMMA SendTaken ==
  ASSUME IInv, Send
  PROVE  /\ Ctl!Putc(NextChar)
         /\ stored' = (stored \/ state' = "WRITTEN")
         /\ UNCHANGED <<outOfStep, stage, args, req, got, result>>
         /\ hpc \in {"text", "textEOT", "block", "blockEOT"} /\ req \in HostRequest
<1>1. hpc \in {"text", "textEOT", "block", "blockEOT"} /\ UNCHANGED <<stage, args, req, got, result>>
  BY DEF Send, HostSent, Sending
<1>2. state \in {"IDLE", "WRITING"}
  BY <1>1 DEF IInv, Aligned, Taking
<1>3. Ctl!Accepting
  BY <1>2 DEF Ctl!Accepting
<1> QED
  BY <1>1, <1>3 DEF Send, IInv, TypeInv

LEMMA TextStep ==
  ASSUME IInv, Send, hpc = "text"
  PROVE  IInv' /\ UNCHANGED <<disc, stored>> /\ hpc' = "textEOT"
<1>1. hpc' = "textEOT" /\ sent' = sent /\ sent = 0 /\ got = <<>>
  BY DEF Send, HostSent, IInv, Starting
<1>2. CommandText \in Ctl!Byte /\ NextChar = CommandText /\ CommandText # EOT
  BY SendTaken, CommandType, Constants DEF NextChar
<1>3. state = "IDLE" /\ buf = <<>> /\ idx = 0 /\ stored = FALSE
  BY DEF IInv, Aligned, StoredKnown, TypeInv
<1>4. Len(buf) = 0
  BY <1>3, EmptySeq
<1>5. Ctl!PutChar(NextChar)
  BY <1>2, <1>4, SendTaken, Constants DEF Ctl!Putc, Ctl!PutOverflow
<1>6. buf' = <<CommandText>>
  BY <1>2, <1>3, <1>5 DEF Ctl!PutChar
<1>7. UNCHANGED <<state, idx, disc, file, status>>
  BY <1>5 DEF Ctl!PutChar, Ctl!drives
<1>8. stored' = FALSE /\ CommandText' = CommandText
  BY <1>3, <1>7, SendTaken DEF CommandText
<1>9. TypeInv'
  BY <1>1, <1>7, <1>8, SendTaken DEF IInv, TypeInv
<1>10. Aligned'
  BY <1>1, <1>3, <1>6, <1>7, <1>8 DEF Aligned
<1>11. Mounted' /\ StoredKnown' /\ Starting'
  BY <1>1, <1>3, <1>7, <1>8, SendTaken DEF IInv, Mounted, StoredKnown, Starting
<1>12. ~outOfStep' /\ status' = "running"
  BY <1>7, SendTaken DEF IInv
<1> QED
  BY <1>1, <1>3, <1>7, <1>8, <1>9, <1>10, <1>11, <1>12 DEF IInv

\* The command is refused for want of a disc, or answered.
LEMMA CommandStep ==
  ASSUME IInv, Send, hpc = "textEOT"
  PROVE  IInv' /\ UNCHANGED <<disc, stored>> /\ hpc' = "reply"
<1>1. hpc' = "reply" /\ sent' = sent /\ sent = 0 /\ got = <<>> /\ got' = got
  BY DEF Send, HostSent, IInv, Starting
<1>2. /\ CommandText \in Ctl!Command /\ CommandText.op = req.op
      /\ CommandText.drive = req.place.drive /\ CommandText.sector = req.place.sector
      /\ NextChar = EOT /\ req \in HostRequest
  BY SendTaken, CommandType DEF NextChar
<1>3. /\ req.op \in {"I", "O"} /\ req.place.drive \in Ctl!Drive
      /\ req.place.sector \in 0 .. NSector - 1
  BY <1>2, RequestType
<1>4. state = "IDLE" /\ buf = <<CommandText>> /\ idx = 0 /\ stored = FALSE
  BY DEF IInv, Aligned, StoredKnown, TypeInv
<1>5. Len(buf) = 1 /\ buf[1] = CommandText /\ Ctl!IsCommand(buf)
  BY <1>2, <1>4 DEF Ctl!IsCommand
<1>6. Ctl!RunCommand
  BY <1>2, <1>4, <1>5, SendTaken, Constants
     DEF Ctl!Putc, Ctl!PutOverflow, Ctl!PutChar, Ctl!PutEOT, Ctl!Write, Ctl!WriteUndefined
<1>7. UNCHANGED <<disc, file, status>>
  BY <1>6 DEF Ctl!RunCommand, Ctl!drives
<1>8. Ctl!Rejected(CommandText) \/ Ctl!Input(CommandText) \/ Ctl!Output(CommandText)
  BY <1>5, <1>6 DEF Ctl!RunCommand
<1>9. /\ Ctl!Valid(CommandText) <=> disc[req.place.drive] # NoDisc
      /\ state' \in {"ERROR", "INPUT", "OUTPUT"} /\ idx' = 0
  <2>1. req.place.sector < NSector
    BY <1>3, Constants
  <2> QED
    BY <1>2, <1>3, <1>8, <2>1
       DEF Ctl!Valid, Ctl!Rejected, Ctl!Input, Ctl!Output, Ctl!Error, Ctl!ErrorText,
           Ctl!Respond
<1>10. CASE Ctl!Rejected(CommandText)
  <2>1. PICK m \in Ctl!Message : state' = "ERROR" /\ buf' = <<NAK, m, EOT>>
    BY <1>10 DEF Ctl!Rejected, Ctl!Error, Ctl!ErrorText, Ctl!Respond, Ctl!Message
  <2>2. disc[req.place.drive] = NoDisc
    BY <1>9, <1>10 DEF Ctl!Rejected
  <2> QED
    BY <1>1, <1>2, <1>4, <1>7, <1>9, <2>1, <2>2, SendTaken
       DEF IInv, TypeInv, Mounted, Aligned, StoredKnown, Starting, Refused
<1>11. CASE Ctl!Input(CommandText)
  <2>1. /\ state' = "INPUT" /\ req.op = "I" /\ disc[req.place.drive] # NoDisc
        /\ buf' = <<SOH>> \o Sector \o <<ACK, EOT>>
    BY <1>2, <1>9, <1>11 DEF Ctl!Input, Ctl!Respond, Sector
  <2>2. Sector' = Sector /\ req' = req
    BY <1>7, SendTaken DEF Sector, Ctl!SectorOf
  <2>3. Reading'
    <3>1. got' \in Seq(Ctl!Byte) /\ \A i \in 1 .. Len(got') : got'[i] = Sector[i]
      BY <1>1, EmptySeq
    <3>2. Present'
      BY <1>2, <1>7, <2>1, <2>2 DEF Present
    <3> QED
      BY <2>1, <2>2, <3>1, <3>2 DEF Reading
  <2> QED
    BY <1>1, <1>2, <1>4, <1>7, <1>9, <2>1, <2>3, SendTaken
       DEF IInv, TypeInv, Mounted, Aligned, StoredKnown, Starting
<1>12. CASE Ctl!Output(CommandText)
  <2>1. /\ state' = "OUTPUT" /\ req.op = "O" /\ disc[req.place.drive] # NoDisc
        /\ buf' = <<ENQ, EOT>>
        /\ target' = [drive |-> req.place.drive, sector |-> req.place.sector]
    BY <1>2, <1>9, <1>12 DEF Ctl!Output, Ctl!Respond
  <2>2. stage = "cold"
    BY <1>1, <2>1 DEF IInv, Mounted
  <2>3. file[req.place.drive] # NoFile
    BY <1>3, <2>1, <2>2 DEF IInv, Mounted
  <2>4. Promised'
    BY <1>2, <1>7, <2>1, <2>3, SendTaken DEF Promised, Targeted, Present
  <2> QED
    BY <1>1, <1>2, <1>4, <1>7, <1>9, <2>1, <2>4, SendTaken
       DEF IInv, TypeInv, Mounted, Aligned, StoredKnown, Starting
<1> QED
  BY <1>8, <1>10, <1>11, <1>12, <1>1, <1>4, <1>7, <1>9, SendTaken

\* A byte of the block.
LEMMA BlockStep ==
  ASSUME TextOnly, IInv, Send, hpc = "block"
  PROVE  IInv' /\ UNCHANGED <<disc, stored>> /\ hpc' \in {"block", "blockEOT"}
<1>1. /\ hpc' = (IF sent + 1 = SectorLen THEN "blockEOT" ELSE "block")
      /\ sent' = sent + 1 /\ sent \in Nat /\ sent < SectorLen /\ SectorLen \in Nat
      /\ UNCHANGED <<req, got, result, stage, args, outOfStep>>
  BY SendTaken, Constants DEF Send, HostSent, IInv, Aligned, TypeInv
<1>2. Taking /\ stored = FALSE
  BY DEF IInv, Aligned, StoredKnown, TypeInv
<1>3. /\ req.op = "O" /\ req.data \in HostBlock /\ req.data \in [1 .. SectorLen -> Ctl!Byte]
  BY <1>2, SendTaken, RequestType DEF Taking, Targeted
<1>4. NextChar = req.data[sent + 1] /\ NextChar \in Ctl!Byte /\ NextChar # EOT
  <2>1. sent + 1 \in 1 .. SectorLen
    BY <1>1
  <2> QED
    BY <1>3, <2>1 DEF NextChar, TextOnly
<1>5. buf \in Seq(Ctl!Byte) /\ Len(buf) = sent /\ \A i \in 1 .. sent : buf[i] = req.data[i]
  BY <1>2 DEF Taking
<1>6. Ctl!PutChar(NextChar)
  BY <1>1, <1>4, <1>5, SendTaken, Constants DEF Ctl!Putc, Ctl!PutOverflow
<1>7. buf' = Append(buf, NextChar) /\ UNCHANGED <<state, idx, target, disc, file, status>>
  BY <1>6 DEF Ctl!PutChar, Ctl!drives
<1>8. /\ buf' \in Seq(Ctl!Byte) /\ Len(buf') = sent + 1
      /\ \A i \in 1 .. sent : buf'[i] = buf[i]
      /\ buf'[sent + 1] = NextChar
  BY <1>4, <1>5, <1>7, AppendProperties
<1>9. \A i \in 1 .. sent' : buf'[i] = req.data[i]
  <2>1. \A i \in 1 .. sent' : i \in 1 .. sent \/ i = sent + 1
    BY <1>1
  <2> QED
    BY <1>4, <1>5, <1>8, <2>1
<1>10. Taking' /\ stored' = FALSE
  BY <1>1, <1>2, <1>7, <1>8, <1>9, SendTaken DEF Taking, Targeted, Present
<1>11. Aligned'
  <2>1. IF sent + 1 = SectorLen THEN sent' = SectorLen ELSE sent' < SectorLen
    BY <1>1
  <2> QED
    BY <1>1, <1>10, <2>1 DEF Aligned
<1>12. TypeInv' /\ Mounted'
  <2>1. hpc' \in {"block", "blockEOT"} /\ sent' \in Nat /\ req \in HostRequest
    BY <1>1, SendTaken
  <2>2. TypeInv'
    BY <1>1, <1>7, <1>10, <2>1 DEF IInv, TypeInv
  <2> QED
    BY <1>1, <1>7, <2>1, <2>2 DEF IInv, Mounted
<1>13. StoredKnown' /\ Starting'
  BY <1>1, <1>7, <1>10 DEF IInv, StoredKnown, Starting
<1>14. ~outOfStep' /\ status' = "running"
  BY <1>1, <1>7 DEF IInv
<1> QED
  BY <1>1, <1>2, <1>7, <1>10, <1>11, <1>12, <1>13, <1>14 DEF IInv

\* What a write leaves in an image and in a file.
LEMMA OverwriteType ==
  ASSUME NEW m \in Text, NEW off \in Nat, NEW chars \in Seq(Ctl!Byte),
         \A i \in 1 .. Len(chars) : chars[i] # EOT
  PROVE  Ctl!Overwrite(m, off, chars) \in Text
<1>1. ASSUME NEW o \in Ctl!Offset, o \in off .. off + Len(chars) - 1
      PROVE  chars[o - off + 1] \in Ctl!Byte /\ chars[o - off + 1] # EOT
  <2>1. Len(chars) \in Nat /\ o \in Nat
    BY Constants, LenProperties DEF Ctl!Offset
  <2>2. o - off + 1 \in 1 .. Len(chars)
    BY <1>1, <2>1
  <2> QED
    BY <2>2, ElementOfSeq
<1> QED
  BY <1>1 DEF Ctl!Overwrite, Ctl!Image, Text

LEMMA FileAfterType ==
  ASSUME NEW f \in Ctl!File, NEW off \in Nat, NEW chars \in Seq(Ctl!Byte)
  PROVE  Ctl!FileAfter(f, off, chars) \in Ctl!File
<1>1. ASSUME NEW o \in Ctl!Offset, o \in off .. off + Len(chars) - 1
      PROVE  chars[o - off + 1] \in Ctl!Byte
  <2>1. Len(chars) \in Nat /\ o \in Nat
    BY Constants, LenProperties DEF Ctl!Offset
  <2>2. o - off + 1 \in 1 .. Len(chars)
    BY <1>1, <2>1
  <2> QED
    BY <2>2, ElementOfSeq
<1>2. Zero \in Ctl!Byte
  BY DEF Ctl!Byte
<1> QED
  BY <1>1, <1>2 DEF Ctl!FileAfter, Ctl!File

\* A block that is all there fits the buffer and the disc.
LEMMA BlockReady ==
  ASSUME TextOnly, IInv, hpc = "blockEOT"
  PROVE  /\ buf \in Seq(Ctl!Byte) /\ Len(buf) = SectorLen /\ buf = req.data
         /\ \A i \in 1 .. Len(buf) : buf[i] # EOT
         /\ req.op = "O" /\ req \in HostRequest
         /\ target.drive = req.place.drive /\ target.sector = req.place.sector
         /\ target.drive \in Ctl!Drive /\ target.sector \in 0 .. NSector - 1
         /\ file[target.drive] # NoFile /\ disc[target.drive] \in Text
         /\ Ctl!FitsDisc(buf) /\ state = "WRITING" /\ stored = FALSE
<1>1. Taking /\ sent = SectorLen /\ stored = FALSE
  BY DEF IInv, Aligned, StoredKnown, TypeInv
<1>2. /\ buf \in Seq(Ctl!Byte) /\ Len(buf) = SectorLen
      /\ \A i \in 1 .. SectorLen : buf[i] = req.data[i]
      /\ req.op = "O" /\ req \in HostRequest /\ state = "WRITING"
      /\ target.drive = req.place.drive /\ target.sector = req.place.sector
      /\ file[target.drive] # NoFile /\ disc[target.drive] # NoDisc
  BY <1>1 DEF Taking, Targeted, Present
<1>3. /\ req.data \in HostBlock /\ req.data \in Seq(Ctl!Byte) /\ Len(req.data) = SectorLen
      /\ target.drive \in Ctl!Drive /\ target.sector \in 0 .. NSector - 1
  BY <1>2, RequestType
<1>4. buf = req.data
  BY <1>2, <1>3, SeqEqual
<1>5. disc[target.drive] \in Text
  BY <1>2, <1>3 DEF IInv, TypeInv
<1>6. Ctl!FitsDisc(buf)
  <2>1. target.sector \in Nat /\ NSector \in Nat /\ SectorLen \in Nat
    BY <1>3, Constants
  <2>2. (target.sector + 1) * SectorLen <= NSector * SectorLen
    BY <1>3, <2>1
  <2>3. (target.sector + 1) * SectorLen = target.sector * SectorLen + SectorLen
    BY <2>1
  <2> QED
    BY <1>2, <2>2, <2>3 DEF Ctl!FitsDisc, Ctl!SectorOffset
<1> QED
  BY <1>1, <1>2, <1>3, <1>4, <1>5, <1>6 DEF TextOnly

\* The EOT after a block writes it: R/W is refused and the image is as it was, or
\* it has an ACK and the image holds the block.
LEMMA BlockWritten ==
  ASSUME TextOnly, IInv, Send, hpc = "blockEOT"
  PROVE  /\ \/ /\ state' = "ERROR" /\ Fault # {} /\ disc' = disc
               /\ \E m \in Ctl!Message : buf' = <<NAK, m, EOT>>
            \/ /\ state' = "WRITTEN" /\ buf' = <<ACK, EOT>>
               /\ disc' = [disc EXCEPT ![req.place.drive] =
                             Ctl!Overwrite(@, req.place.sector * SectorLen, req.data)]
         /\ idx' = 0 /\ status' = status
         /\ disc' \in [Ctl!Drive -> Text \cup {NoDisc}]
         /\ file' \in [Ctl!Drive -> Ctl!File \cup {NoFile}]
         /\ \A d \in Ctl!Drive : /\ disc'[d] = NoDisc <=> disc[d] = NoDisc
                                 /\ file'[d] = NoFile <=> file[d] = NoFile
<1> DEFINE t == target.drive
           off == Ctl!SectorOffset(target.sector)
<1>1. /\ t \in Ctl!Drive /\ disc[t] \in Text /\ file[t] # NoFile /\ off \in Nat
      /\ buf \in Seq(Ctl!Byte) /\ Len(buf) = SectorLen /\ buf = req.data
      /\ \A i \in 1 .. Len(buf) : buf[i] # EOT
      /\ disc \in [Ctl!Drive -> Text \cup {NoDisc}]
      /\ file \in [Ctl!Drive -> Ctl!File \cup {NoFile}]
      /\ state = "WRITING" /\ target.drive = req.place.drive /\ target.sector = req.place.sector
  <2>1. target.sector * SectorLen \in Nat
    <3>1. target.sector \in Nat /\ SectorLen \in Nat
      BY BlockReady, Constants
    <3> QED
      BY <3>1
  <2> QED
    BY <2>1, BlockReady DEF IInv, TypeInv, Ctl!SectorOffset
<1>2. NextChar = EOT /\ NoDisc \notin Text /\ NoFile \notin Ctl!File
  BY BytesAssumption DEF NextChar, Text
<1>3. Ctl!Write
  <2>1. ~Ctl!PutOverflow /\ ~Ctl!PutChar(NextChar) /\ ~Ctl!RunCommand
    BY <1>1, <1>2, Constants DEF Ctl!PutOverflow, Ctl!PutChar, Ctl!RunCommand
  <2>2. ~Ctl!WriteUndefined
    BY <1>1, <1>2, BlockReady DEF Ctl!WriteUndefined
  <2> QED
    BY <2>1, <2>2, SendTaken DEF Ctl!Putc, Ctl!PutEOT
<1>4. ASSUME NEW chars \in Seq(Ctl!Byte),
             file' = [file EXCEPT ![t] = Ctl!FileAfter(@, off, chars)]
      PROVE  /\ file' \in [Ctl!Drive -> Ctl!File \cup {NoFile}]
             /\ \A d \in Ctl!Drive : file'[d] = NoFile <=> file[d] = NoFile
  <2>1. Ctl!FileAfter(file[t], off, chars) \in Ctl!File
    BY <1>1, FileAfterType
  <2> HIDE DEF off
  <2> QED
    BY <1>1, <1>2, <1>4, <2>1
<1>5. ASSUME NEW fault, Ctl!FileFails(fault, buf)
      PROVE  /\ file' \in [Ctl!Drive -> Ctl!File \cup {NoFile}]
             /\ \A d \in Ctl!Drive : file'[d] = NoFile <=> file[d] = NoFile
  <2>1. PICK k \in 0 .. Len(buf) :
          file' = [file EXCEPT ![t] = Ctl!FileAfter(@, off, SubSeq(buf, 1, k))]
    BY <1>5 DEF Ctl!FileFails
  <2>2. SubSeq(buf, 1, k) \in Seq(Ctl!Byte)
    BY <1>1, SubSeqProperties, LenProperties
  <2> QED
    BY <1>4, <2>1, <2>2
<1>6. CASE \E fault \in Fault : Ctl!WriteRefused(fault, buf)
  <2>1. PICK fault \in Fault : Ctl!WriteRefused(fault, buf)
    BY <1>6
  <2>2. /\ state' = "ERROR" /\ idx' = 0 /\ disc' = disc /\ Fault # {}
        /\ \E m \in Ctl!Message : buf' = <<NAK, m, EOT>>
    BY <2>1 DEF Ctl!WriteRefused, Ctl!Error, Ctl!ErrorText, Ctl!Respond, Ctl!Message
  <2> QED
    BY <1>1, <1>3, <1>5, <2>1, <2>2 DEF Ctl!WriteRefused, Ctl!Write
<1>7. CASE Ctl!Written(buf)
  <2>1. /\ state' = "WRITTEN" /\ idx' = 0 /\ buf' = <<ACK, EOT>>
        /\ disc' = [disc EXCEPT ![t] = Ctl!Overwrite(@, off, buf)]
    BY <1>7 DEF Ctl!Written, Ctl!Acknowledge, Ctl!Respond, Ctl!MemoryWritten
  <2>2. Ctl!Overwrite(disc[t], off, buf) \in Text
    BY <1>1, OverwriteType
  <2>3. /\ file' \in [Ctl!Drive -> Ctl!File \cup {NoFile}]
        /\ \A d \in Ctl!Drive : file'[d] = NoFile <=> file[d] = NoFile
    BY <1>1, <1>4, <1>5, <1>7 DEF Ctl!Written, Ctl!FileWritten
  <2>4. disc' = [disc EXCEPT ![req.place.drive] =
                   Ctl!Overwrite(@, req.place.sector * SectorLen, req.data)]
    BY <1>1, <2>1 DEF Ctl!SectorOffset
  <2>5. /\ disc' \in [Ctl!Drive -> Text \cup {NoDisc}]
        /\ \A d \in Ctl!Drive : disc'[d] = NoDisc <=> disc[d] = NoDisc
    <3> HIDE DEF off
    <3> QED
      BY <1>1, <1>2, <2>1, <2>2
  <2> QED
    BY <1>3, <2>1, <2>3, <2>4, <2>5 DEF Ctl!Write
<1>8. ~Ctl!WriteNotFlushed(buf)
  BY DEF Ctl!WriteNotFlushed, Ctl!FileFails, TextOnly
<1> QED
  BY <1>3, <1>6, <1>7, <1>8 DEF Ctl!Write, Ctl!WriteChars

LEMMA BlockEndStep ==
  ASSUME TextOnly, IInv, Send, hpc = "blockEOT"
  PROVE  IInv' /\ hpc' = "lastReply"
<1>1. /\ hpc' = "lastReply" /\ sent' = sent /\ stored' = (state' = "WRITTEN")
      /\ UNCHANGED <<req, got, result, stage, args, outOfStep>>
  BY SendTaken, BlockReady DEF Send, HostSent
<1>2. req \in HostRequest /\ req.op = "O" /\ stage = "cold"
  BY BlockReady DEF IInv, Mounted
<1>3. TypeInv'
  BY <1>1, <1>2, BlockWritten DEF IInv, TypeInv
<1>4. Mounted'
  BY <1>1, <1>2, BlockWritten DEF IInv, Mounted
<1>5. Aligned'
  <2>1. idx' = 0 /\ (Acknowledged' \/ Refused')
    BY <1>1, <1>2, BlockWritten DEF Acknowledged, Refused
  <2> QED
    BY <1>1, <2>1 DEF Aligned
<1>6. StoredKnown' /\ Starting'
  BY <1>1 DEF IInv, StoredKnown, Starting
<1>7. ~outOfStep' /\ status' = "running"
  BY <1>1, BlockWritten DEF IInv
<1> QED
  BY <1>1, <1>3, <1>4, <1>5, <1>6, <1>7 DEF IInv

\* The controller has something to give when R/W takes it.
LEMMA ReceiveTaken ==
  ASSUME IInv, Receive
  PROVE  /\ Ctl!Getc /\ HostReceived(buf[idx + 1])
         /\ UNCHANGED <<disc, file, target, status, outOfStep, stage, args, stored, req, sent>>
         /\ hpc \in {"reply", "absorb", "read", "lastReply", "lastAbsorb", "message"}
         /\ req \in HostRequest
<1>1. hpc \in {"reply", "absorb", "read", "lastReply", "lastAbsorb", "message"}
      /\ UNCHANGED <<stage, args, stored, req, sent>>
  BY DEF Receive, HostReceived, TakeReply, TakeRest, TakeMessage, TakeData
<1>2. state \in {"INPUT", "OUTPUT", "WRITTEN", "ERROR"}
  BY <1>1 DEF IInv, Aligned, Reading, Promised, Acknowledged, Refused
<1>3. Ctl!Getc /\ HostReceived(buf[idx + 1]) /\ outOfStep' = outOfStep
  BY <1>2 DEF Receive, Ctl!Responding, Ctl!GetChar
<1>4. UNCHANGED <<disc, file, target, status>>
  BY <1>3 DEF Ctl!Getc, Ctl!drives
<1> QED
  BY <1>1, <1>3, <1>4 DEF IInv, TypeInv

\* A character that is not the last one of its response.
LEMMA MoreToGet ==
  ASSUME Ctl!Getc, idx + 1 < Len(buf)
  PROVE  idx' = idx + 1 /\ UNCHANGED <<state, buf>>
BY DEF Ctl!Getc

\* The EOT of a response.
LEMMA LastToGet ==
  ASSUME Ctl!Getc, idx + 1 = Len(buf), Len(buf) \in Nat
  PROVE  /\ idx' = 0 /\ buf' = <<>>
         /\ state' = (IF state = "OUTPUT" THEN "WRITING" ELSE "IDLE")
<1>1. ~(idx + 1 < Len(buf))
  OBVIOUS
<1> QED
  BY <1>1 DEF Ctl!Getc

\* The parts of the invariant that a character read leaves as they are.
LEMMA ReceiveKeeps ==
  ASSUME IInv, Receive,
         hpc' \in {"idle", "absorb", "read", "block", "lastReply", "lastAbsorb", "message"},
         got' \in Seq(Ctl!Byte), Aligned',
         hpc' # "idle" => result' = result /\ (hpc' = "absorb" => sent = 0),
         hpc' # "idle" => (stored <=> hpc' \in {"lastReply", "lastAbsorb"} /\ state' = "WRITTEN")
  PROVE  IInv'
<1>1. hpc # "idle"
  BY ReceiveTaken
<1>2. TypeInv'
  BY ReceiveTaken DEF IInv, TypeInv
<1>3. Mounted'
  BY <1>1, ReceiveTaken DEF IInv, Mounted
<1>4. StoredKnown' /\ Starting'
  BY <1>1, ReceiveTaken DEF IInv, StoredKnown, Starting
<1>5. ~outOfStep' /\ status' = "running"
  BY ReceiveTaken DEF IInv
<1> QED
  BY <1>2, <1>3, <1>4, <1>5 DEF IInv

\* Short responses.
LEMMA TwoChars ==
  ASSUME NEW c \in Ctl!Byte
  PROVE  Len(<<c, EOT>>) = 2 /\ <<c, EOT>>[1] = c /\ <<c, EOT>>[2] = EOT
OBVIOUS

LEMMA ThreeChars ==
  ASSUME NEW m \in Ctl!Message
  PROVE  /\ Len(<<NAK, m, EOT>>) = 3 /\ <<NAK, m, EOT>>[1] = NAK
         /\ <<NAK, m, EOT>>[2] = m /\ <<NAK, m, EOT>>[3] = EOT /\ m # EOT
BY Constants

\* The sector that is read: its response, and what BLOCK-READ makes of it.
LEMMA ReadingResponse ==
  ASSUME IInv, Reading
  PROVE  /\ Sector \in Seq(Ctl!Byte) /\ Len(Sector) = SectorLen /\ Sector # <<>>
         /\ \A i \in 1 .. SectorLen : Sector[i] # EOT
         /\ Len(buf) = SectorLen + 3 /\ buf[1] = SOH
         /\ \A i \in 1 .. SectorLen : buf[i + 1] = Sector[i]
         /\ buf[SectorLen + 2] = ACK /\ buf[SectorLen + 3] = EOT
<1>1. /\ req \in HostRequest /\ disc[req.place.drive] # NoDisc
      /\ buf = <<SOH>> \o Sector \o <<ACK, EOT>>
  BY DEF Reading, Present
<1>2. disc[req.place.drive] \in Text /\ req.place.sector \in 0 .. NSector - 1
  BY <1>1, RequestType DEF IInv, TypeInv
<1>3. /\ Sector \in Seq(Ctl!Byte) /\ Len(Sector) = SectorLen /\ Sector # <<>>
      /\ \A i \in 1 .. SectorLen : Sector[i] # EOT
  BY <1>2, SectorType DEF Sector
<1> QED
  BY <1>1, <1>3, ReadResponse

LEMMA ReplyStep ==
  ASSUME IInv, Receive, hpc = "reply"
  PROVE  IInv' /\ hpc' \in {"message", "read", "absorb"}
<1>1. idx = 0 /\ (Refused \/ (Reading /\ got = <<>>) \/ Promised)
      /\ stored = FALSE /\ sent = 0 /\ got = <<>>
  BY DEF IInv, Aligned, StoredKnown, Starting, TypeInv
<1>2. TakeReply(buf[1])
  BY <1>1, ReceiveTaken DEF HostReceived, TakeRest, TakeMessage, TakeData
<1>3. got' = got /\ got \in Seq(Ctl!Byte)
  BY <1>2 DEF TakeReply, IInv, TypeInv
<1>4. CASE Refused
  <2>1. PICK m \in Ctl!Message : buf = <<NAK, m, EOT>>
    BY <1>4 DEF Refused
  <2>2. buf[1] = NAK /\ Len(buf) = 3
    BY <2>1, ThreeChars
  <2>3. idx' = 1 /\ UNCHANGED <<state, buf>>
    BY <1>1, <2>2, ReceiveTaken, MoreToGet
  <2>4. hpc' = "message" /\ result' = result
    BY <1>2, <2>2, Constants DEF TakeReply
  <2>5. Refused'
    BY <1>4, <2>3, ReceiveTaken DEF Refused
  <2>6. Aligned'
    BY <2>3, <2>4, <2>5 DEF Aligned
  <2> QED
    BY <1>1, <1>3, <2>4, <2>6, ReceiveKeeps
<1>5. CASE Reading
  <2>1. buf[1] = SOH /\ Len(buf) = SectorLen + 3 /\ 0 + 1 < Len(buf)
    BY <1>5, ReadingResponse, Constants
  <2>2. idx' = 1 /\ UNCHANGED <<state, buf>>
    BY <1>1, <2>1, ReceiveTaken, MoreToGet
  <2>3. hpc' = "read" /\ result' = result
    BY <1>2, <1>5, <2>1, Constants DEF TakeReply, DiscReturns, Reading
  <2>4. Reading' /\ Len(got') = 0
    <3>1. Sector' = Sector
      BY ReceiveTaken DEF Sector, Ctl!SectorOf
    <3>2. Reading'
      BY <1>3, <1>5, <2>2, <3>1, ReceiveTaken DEF Reading, Present
    <3> QED
      BY <1>1, <1>3, <3>2, EmptySeq
  <2>5. Aligned'
    BY <2>2, <2>3, <2>4, Constants DEF Aligned
  <2> QED
    BY <1>1, <1>3, <2>3, <2>5, ReceiveKeeps
<1>6. CASE Promised
  <2>1. buf = <<ENQ, EOT>> /\ buf[1] = ENQ /\ Len(buf) = 2
    BY <1>6, TwoChars, Constants DEF Promised
  <2>2. idx' = 1 /\ UNCHANGED <<state, buf>>
    BY <1>1, <2>1, ReceiveTaken, MoreToGet
  <2>3. hpc' = "absorb" /\ result' = result
    BY <1>2, <2>1, Constants DEF TakeReply
  <2>4. Promised'
    BY <1>6, <2>2, ReceiveTaken DEF Promised, Targeted, Present
  <2>5. Aligned'
    BY <2>2, <2>3, <2>4 DEF Aligned
  <2> QED
    BY <1>1, <1>3, <2>3, <2>5, ReceiveKeeps
<1> QED
  BY <1>1, <1>4, <1>5, <1>6

LEMMA AbsorbStep ==
  ASSUME IInv, Receive, hpc = "absorb"
  PROVE  IInv' /\ hpc' = "block"
<1>1. idx = 1 /\ Promised /\ stored = FALSE /\ sent = 0 /\ got \in Seq(Ctl!Byte)
  BY DEF IInv, Aligned, StoredKnown, Starting, TypeInv
<1>2. TakeRest(buf[2])
  BY <1>1, ReceiveTaken DEF HostReceived, TakeReply, TakeMessage, TakeData
<1>3. buf = <<ENQ, EOT>> /\ buf[2] = EOT /\ Len(buf) = 2 /\ state = "OUTPUT" /\ Targeted
  BY <1>1, TwoChars, Constants DEF Promised
<1>4. idx' = 0 /\ buf' = <<>> /\ state' = "WRITING"
  BY <1>1, <1>3, ReceiveTaken, LastToGet
<1>5. hpc' = "block" /\ result' = result /\ got' = got
  BY <1>2, <1>3 DEF TakeRest, DiscReturns, Targeted
<1>6. Taking' /\ sent' < SectorLen
  <2>1. buf' \in Seq(Ctl!Byte) /\ Len(buf') = 0 /\ sent' = 0
    BY <1>1, <1>4, ReceiveTaken, EmptySeq
  <2>2. Targeted'
    BY <1>3, ReceiveTaken DEF Targeted, Present
  <2> QED
    BY <1>4, <2>1, <2>2, Constants DEF Taking
<1>7. Aligned'
  BY <1>5, <1>6 DEF Aligned
<1> QED
  BY <1>1, <1>5, <1>7, ReceiveKeeps

\* BLOCK-READ stores a character: none of a sector is an EOT.
LEMMA ReadStep ==
  ASSUME IInv, Receive, hpc = "read"
  PROVE  IInv' /\ hpc' \in {"read", "lastReply"}
<1>1. /\ idx = 1 + Len(got) /\ Len(got) < SectorLen /\ Reading /\ stored = FALSE
      /\ got \in Seq(Ctl!Byte) /\ Len(got) \in Nat
  BY LenProperties DEF IInv, Aligned, StoredKnown, TypeInv
<1> DEFINE n == Len(got)
           c == buf[idx + 1]
<1>2. n \in Nat /\ n + 1 \in 1 .. SectorLen /\ n + 1 <= SectorLen /\ SectorLen \in Nat
  BY <1>1, Constants
<1>3. TakeData(c)
  BY <1>1, ReceiveTaken DEF HostReceived, TakeReply, TakeRest, TakeMessage
<1>4. c = Sector[n + 1] /\ c # EOT /\ c \in Ctl!Byte
  <2>1. idx + 1 = (n + 1) + 1
    BY <1>1, <1>2
  <2>2. buf[(n + 1) + 1] = Sector[n + 1] /\ Sector[n + 1] # EOT
    BY <1>1, <1>2, ReadingResponse
  <2>3. Sector[n + 1] \in Ctl!Byte
    BY <1>1, <1>2, ReadingResponse, ElementOfSeq
  <2> QED
    BY <2>1, <2>2, <2>3
<1>5. /\ got' = Append(got, c) /\ result' = result
      /\ hpc' = IF n + 1 = SectorLen THEN "lastReply" ELSE "read"
  BY <1>3, <1>4 DEF TakeData
<1> HIDE DEF c
<1>6. /\ got' \in Seq(Ctl!Byte) /\ Len(got') = n + 1 /\ got'[n + 1] = c
      /\ \A i \in 1 .. n : got'[i] = got[i]
  BY <1>1, <1>4, <1>5, AppendProperties
<1>7. idx' = idx + 1 /\ UNCHANGED <<state, buf>>
  <2>1. Len(buf) = SectorLen + 3
    BY <1>1, ReadingResponse
  <2>2. idx + 1 < Len(buf)
    BY <1>1, <1>2, <2>1
  <2> QED
    BY <2>2, ReceiveTaken, MoreToGet
<1>8. Sector' = Sector
  BY ReceiveTaken DEF Sector, Ctl!SectorOf
<1>9. \A i \in 1 .. Len(got') : got'[i] = Sector[i]
  <2>1. \A i \in 1 .. n : got[i] = Sector[i]
    BY <1>1 DEF Reading
  <2>2. \A i \in 1 .. n + 1 : i \in 1 .. n \/ i = n + 1
    BY <1>2
  <2> HIDE DEF n
  <2> QED
    BY <1>4, <1>6, <2>1, <2>2
<1>10. Reading'
  BY <1>1, <1>6, <1>7, <1>8, <1>9, ReceiveTaken DEF Reading, Present
<1>11. idx' = 1 + Len(got') /\ (IF n + 1 = SectorLen THEN Len(got') = SectorLen
                                                    ELSE Len(got') < SectorLen)
  <2>1. idx = 1 + n
    BY <1>1
  <2> HIDE DEF n
  <2> QED
    BY <1>2, <1>6, <1>7, <2>1
<1>12. Aligned'
  BY <1>5, <1>10, <1>11 DEF Aligned
<1>13. state' # "WRITTEN"
  BY <1>10 DEF Reading
<1> QED
  BY <1>1, <1>5, <1>6, <1>12, <1>13, ReceiveKeeps

LEMMA LastReplyStep ==
  ASSUME IInv, Receive, hpc = "lastReply"
  PROVE  IInv' /\ hpc' \in {"lastAbsorb", "message"}
<1>1. /\ \/ idx = 1 + SectorLen /\ Len(got) = SectorLen /\ Reading
         \/ idx = 0 /\ (Acknowledged \/ Refused)
      /\ stored = (state = "WRITTEN") /\ got \in Seq(Ctl!Byte)
  BY DEF IInv, Aligned, StoredKnown, TypeInv
<1>2. TakeReply(buf[idx + 1])
  BY ReceiveTaken DEF HostReceived, TakeRest, TakeMessage, TakeData
<1>3. got' = got
  BY <1>2 DEF TakeReply
<1>4. CASE idx = 1 + SectorLen /\ Len(got) = SectorLen /\ Reading
  <2>1. Len(buf) = SectorLen + 3 /\ buf[SectorLen + 2] = ACK
    BY <1>4, ReadingResponse
  <2>2. idx + 1 = SectorLen + 2 /\ idx + 1 < Len(buf)
    BY <1>4, <2>1, Constants
  <2>3. idx' = 2 + SectorLen /\ UNCHANGED <<state, buf>>
    <3>1. idx' = idx + 1 /\ UNCHANGED <<state, buf>>
      BY <2>2, ReceiveTaken, MoreToGet
    <3> QED
      BY <2>2, <3>1, Constants
  <2>4. hpc' = "lastAbsorb" /\ result' = result
    BY <1>2, <2>1, <2>2, Constants DEF TakeReply
  <2>5. Reading'
    <3>1. Sector' = Sector
      BY ReceiveTaken DEF Sector, Ctl!SectorOf
    <3> QED
      BY <1>3, <1>4, <2>3, <3>1, ReceiveTaken DEF Reading, Present
  <2>6. Aligned'
    BY <1>3, <1>4, <2>3, <2>4, <2>5 DEF Aligned
  <2> QED
    BY <1>1, <1>3, <2>3, <2>4, <2>6, ReceiveKeeps
<1>5. CASE idx = 0 /\ Acknowledged
  <2>1. buf = <<ACK, EOT>> /\ buf[1] = ACK /\ Len(buf) = 2
    BY <1>5, TwoChars, Constants DEF Acknowledged
  <2>2. idx' = 1 /\ UNCHANGED <<state, buf>>
    BY <1>5, <2>1, ReceiveTaken, MoreToGet
  <2>3. hpc' = "lastAbsorb" /\ result' = result
    BY <1>2, <1>5, <2>1, Constants DEF TakeReply
  <2>4. Acknowledged'
    BY <1>5, <2>2, ReceiveTaken DEF Acknowledged
  <2>5. Aligned'
    BY <2>2, <2>3, <2>4 DEF Aligned
  <2> QED
    BY <1>1, <1>3, <2>2, <2>3, <2>5, ReceiveKeeps
<1>6. CASE idx = 0 /\ Refused
  <2>1. PICK m \in Ctl!Message : buf = <<NAK, m, EOT>>
    BY <1>6 DEF Refused
  <2>2. buf[1] = NAK /\ Len(buf) = 3
    BY <2>1, ThreeChars
  <2>3. idx' = 1 /\ UNCHANGED <<state, buf>>
    BY <1>6, <2>2, ReceiveTaken, MoreToGet
  <2>4. hpc' = "message" /\ result' = result
    BY <1>2, <1>6, <2>2, Constants DEF TakeReply
  <2>5. Refused'
    BY <1>6, <2>3, ReceiveTaken DEF Refused
  <2>6. Aligned'
    BY <2>3, <2>4, <2>5 DEF Aligned
  <2>7. stored = FALSE
    BY <1>1, <1>6 DEF Refused
  <2> QED
    BY <1>1, <1>3, <2>4, <2>6, <2>7, ReceiveKeeps
<1> QED
  BY <1>1, <1>4, <1>5, <1>6

\* The EOT after an ACK ends R/W and leaves the controller idle.
LEMMA LastAbsorbStep ==
  ASSUME IInv, Receive, hpc = "lastAbsorb"
  PROVE  /\ IInv' /\ hpc' = "idle" /\ result' = "ok" /\ got' = got
         /\ \/ req.op = "I" /\ got = Sector /\ Sector # <<>> /\ stored = FALSE /\ Present
            \/ req.op = "O" /\ stored = TRUE
<1>1. /\ \/ idx = 2 + SectorLen /\ Len(got) = SectorLen /\ Reading
         \/ idx = 1 /\ Acknowledged
      /\ stored = (state = "WRITTEN") /\ got \in Seq(Ctl!Byte)
  BY DEF IInv, Aligned, StoredKnown, TypeInv
<1>2. TakeRest(buf[idx + 1])
  BY ReceiveTaken DEF HostReceived, TakeReply, TakeMessage, TakeData
<1>3. /\ buf[idx + 1] = EOT /\ idx + 1 = Len(buf) /\ Len(buf) \in Nat
      /\ state \in {"INPUT", "WRITTEN"}
  <2>1. CASE idx = 2 + SectorLen /\ Reading
    <3>1. Len(buf) = SectorLen + 3 /\ buf[SectorLen + 3] = EOT /\ state = "INPUT"
      BY <2>1, ReadingResponse DEF Reading
    <3>2. idx + 1 = SectorLen + 3 /\ SectorLen + 3 \in Nat
      BY <2>1, Constants
    <3> QED
      BY <3>1, <3>2
  <2>2. CASE idx = 1 /\ Acknowledged
    BY <2>2, TwoChars, Constants DEF Acknowledged
  <2> QED
    BY <1>1, <2>1, <2>2
<1>4. idx' = 0 /\ buf' = <<>> /\ state' = "IDLE"
  BY <1>3, ReceiveTaken, LastToGet
<1>5. hpc' = "idle" /\ result' = "ok" /\ got' = got
  BY <1>2, <1>3 DEF TakeRest, DiscReturns
<1>6. Aligned'
  BY <1>4, <1>5 DEF Aligned
<1>7. \/ req.op = "I" /\ got = Sector /\ Sector # <<>> /\ stored = FALSE /\ Present
      \/ req.op = "O" /\ stored = TRUE
  <2>1. CASE Len(got) = SectorLen /\ Reading
    <3>1. Sector \in Seq(Ctl!Byte) /\ Len(Sector) = SectorLen /\ Sector # <<>>
      BY <2>1, ReadingResponse
    <3>2. \A i \in 1 .. Len(got) : got[i] = Sector[i]
      BY <2>1 DEF Reading
    <3>3. got = Sector
      BY <1>1, <2>1, <3>1, <3>2, SeqEqual
    <3> QED
      BY <1>1, <2>1, <3>1, <3>3 DEF Reading
  <2>2. CASE Acknowledged
    BY <1>1, <2>2 DEF Acknowledged
  <2> QED
    BY <1>1, <2>1, <2>2
<1> QED
  BY <1>1, <1>5, <1>6, <1>7, ReceiveKeeps

\* The message, and the EOT after it.
LEMMA MessageStep ==
  ASSUME IInv, Receive, hpc = "message"
  PROVE  /\ IInv' /\ stored = FALSE
         /\ \/ hpc' = "message"
            \/ hpc' = "idle" /\ result' = "error" /\ Refused
<1>1. idx \in {1, 2} /\ Refused /\ stored = FALSE /\ got \in Seq(Ctl!Byte)
  BY DEF IInv, Aligned, StoredKnown, TypeInv
<1>2. TakeMessage(buf[idx + 1])
  BY ReceiveTaken DEF HostReceived, TakeReply, TakeRest, TakeData
<1>3. got' = got
  BY <1>2 DEF TakeMessage
<1>4. PICK m \in Ctl!Message : buf = <<NAK, m, EOT>>
  BY <1>1 DEF Refused
<1>5. Len(buf) = 3 /\ buf[2] = m /\ buf[3] = EOT /\ m # EOT /\ state = "ERROR"
  BY <1>1, <1>4, ThreeChars DEF Refused
<1>6. CASE idx = 1
  <2>1. idx' = 2 /\ UNCHANGED <<state, buf>>
    BY <1>5, <1>6, ReceiveTaken, MoreToGet
  <2>2. hpc' = "message" /\ result' = result
    BY <1>2, <1>5, <1>6 DEF TakeMessage
  <2>3. Refused'
    BY <1>1, <2>1, ReceiveTaken DEF Refused
  <2>4. Aligned'
    BY <2>1, <2>2, <2>3 DEF Aligned
  <2> QED
    BY <1>1, <1>3, <2>2, <2>4, ReceiveKeeps
<1>7. CASE idx = 2
  <2>1. idx' = 0 /\ buf' = <<>> /\ state' = "IDLE"
    BY <1>5, <1>7, ReceiveTaken, LastToGet
  <2>2. hpc' = "idle" /\ result' = "error"
    BY <1>2, <1>5, <1>7 DEF TakeMessage
  <2>3. Aligned'
    BY <2>1, <2>2 DEF Aligned
  <2> QED
    BY <1>1, <1>3, <2>2, <2>3, ReceiveKeeps
<1> QED
  BY <1>1, <1>6, <1>7

LEMMA NextIInv == TextOnly /\ IInv /\ [Next]_vars => IInv'
<1> SUFFICES ASSUME TextOnly, IInv, [Next]_vars PROVE IInv'
  OBVIOUS
<1>1. CASE Send
  BY <1>1, SendTaken, TextStep, CommandStep, BlockStep, BlockEndStep
<1>2. CASE Receive
  BY <1>2, ReceiveTaken, ReplyStep, AbsorbStep, ReadStep, LastReplyStep, LastAbsorbStep, MessageStep
<1>3. CASE UNCHANGED vars
  <2>1. UNCHANGED <<state, buf, idx, target, disc, file, status, hpc, req, sent, got, result,
                    stage, args, outOfStep, stored>>
    BY <1>3 DEF vars, ctl, hvars
  <2>2. Present' = Present /\ Sector' = Sector /\ CommandText' = CommandText
    BY <2>1 DEF Present, Sector, Ctl!SectorOf, CommandText
  <2>3. Reading' = Reading /\ Targeted' = Targeted
    BY <2>1, <2>2 DEF Reading, Targeted
  <2>4. /\ Promised' = Promised /\ Taking' = Taking
        /\ Acknowledged' = Acknowledged /\ Refused' = Refused
    BY <2>1, <2>3 DEF Promised, Taking, Acknowledged, Refused
  <2>5. Aligned' = Aligned
    BY <2>1, <2>2, <2>3, <2>4 DEF Aligned
  <2> QED
    BY <2>1, <2>5 DEF IInv, TypeInv, Mounted, StoredKnown, Starting
<1> QED
  BY <1>1, <1>2, <1>3, MainStep, AskStep DEF Next

LEMMA LocalInvariant == ASSUME TextOnly PROVE Spec => []IInv
BY InitIInv, NextIInv, PTL DEF Spec

-----------------------------------------------------------------------------
(* The theorems.                                                           *)

\* R/W and the controller agree on whose turn it is at every character, after
\* every error and with every disc taken out, and between two requests nothing
\* of the last one is left: with blocks that hold no EOT and an fflush that does
\* not fail.
THEOREM TurnsAgree == ASSUME TextOnly PROVE Spec => []InStep
<1>1. IInv => InStep
  BY DEF IInv, Aligned, InStep, Ctl!BetweenTransfers
<1> QED
  BY <1>1, LocalInvariant, PTL

\* Forth writes to files only, a sector at a time: nothing it asks makes the
\* controller exit or write past its image or to the constant array: with the
\* same hypothesis, for it is the turns that keep what is sent to a sector.
THEOREM LocalRunsOn == ASSUME TextOnly PROVE Spec => []KeepsRunning
<1>1. IInv => KeepsRunning
  BY DEF IInv, KeepsRunning, Ctl!KeepsRunning
<1> QED
  BY <1>1, LocalInvariant, PTL

-----------------------------------------------------------------------------
(* LocalDisc implements BlockDevice.                                       *)

Held == [p \in Place |-> StoredAt(p)]

\* Two sectors of a disc have no offset in common.
LEMMA SectorsApart ==
  ASSUME NEW s \in Nat, NEW u \in Nat, s # u, NEW i \in 1 .. SectorLen
  PROVE  u * SectorLen + i - 1 \notin s * SectorLen .. s * SectorLen + SectorLen - 1
<1>1. SectorLen \in Nat /\ i \in Nat /\ s * SectorLen \in Nat /\ u * SectorLen \in Nat
  BY Constants
<1>2. CASE s < u
  <2>1. u >= s + 1
    BY <1>2
  <2>2. u * SectorLen >= (s + 1) * SectorLen
    BY <1>1, <2>1
  <2>3. (s + 1) * SectorLen = s * SectorLen + SectorLen
    BY <1>1
  <2> QED
    BY <1>1, <2>2, <2>3
<1>3. CASE u < s
  <2>1. s >= u + 1
    BY <1>3
  <2>2. s * SectorLen >= (u + 1) * SectorLen
    BY <1>1, <2>1
  <2>3. (u + 1) * SectorLen = u * SectorLen + SectorLen
    BY <1>1
  <2> QED
    BY <1>1, <2>2, <2>3
<1> QED
  BY <1>2, <1>3

\* A block that is written over a sector is what it holds, and no other does.
LEMMA SectorAfter ==
  ASSUME NEW m \in Text, NEW s \in 0 .. NSector - 1, NEW u \in 0 .. NSector - 1,
         NEW w \in [1 .. SectorLen -> Ctl!Byte], Len(w) = SectorLen
  PROVE  Ctl!SectorOf(Ctl!Overwrite(m, s * SectorLen, w), u)
           = IF u = s THEN w ELSE Ctl!SectorOf(m, u)
<1> DEFINE after == Ctl!Overwrite(m, s * SectorLen, w)
<1>1. s \in Nat /\ u \in Nat /\ SectorLen \in Nat /\ s * SectorLen \in Nat /\ u * SectorLen \in Nat
  BY Constants
<1>2. ASSUME NEW i \in 1 .. SectorLen
      PROVE  after[u * SectorLen + i - 1] = IF u = s THEN w[i] ELSE m[u * SectorLen + i - 1]
  <2> DEFINE o == u * SectorLen + i - 1
  <2>1. o \in Ctl!Offset
    BY SectorIsOnDisc
  <2>2. after[o] = IF o \in s * SectorLen .. s * SectorLen + SectorLen - 1
                     THEN w[o - s * SectorLen + 1] ELSE m[o]
    BY <2>1 DEF Ctl!Overwrite
  <2>3. CASE u = s
    <3>1. o \in s * SectorLen .. s * SectorLen + SectorLen - 1 /\ o - s * SectorLen + 1 = i
      BY <1>1, <2>3
    <3> QED
      BY <2>2, <2>3, <3>1
  <2>4. CASE u # s
    <3>1. o \notin s * SectorLen .. s * SectorLen + SectorLen - 1
      BY <1>1, <2>4, SectorsApart
    <3> QED
      BY <2>2, <2>4, <3>1
  <2> QED
    BY <2>3, <2>4
<1> HIDE DEF after
<1>3. Ctl!SectorOf(after, u) = [i \in 1 .. SectorLen |-> after[u * SectorLen + i - 1]]
  BY DEF Ctl!SectorOf, Ctl!SectorOffset
<1>4. Ctl!SectorOf(m, u) = [i \in 1 .. SectorLen |-> m[u * SectorLen + i - 1]]
  BY DEF Ctl!SectorOf, Ctl!SectorOffset
<1>5. Ctl!SectorOf(after, u) = IF u = s THEN w ELSE Ctl!SectorOf(m, u)
  BY <1>2, <1>3, <1>4
<1> QED
  BY <1>5 DEF after

\* R/W on its way to the answer: the device does not see it.
LEMMA OnTheWay ==
  ASSUME disc' = disc, req' = req, hpc # "idle", hpc' # "idle", stored' = stored
  PROVE  UNCHANGED Device!vars
BY DEF Device!vars, StoredAt, Ctl!SectorOf, Phase, Answer

LEMMA InitDevice == Init => Device!Init
<1> SUFFICES ASSUME Init PROVE Device!Init
  OBVIOUS
<1>1. \A p \in Place : StoredAt(p) = <<>>
  BY DEF Init, Ctl!Init, StoredAt, Place, Ctl!Drive
<1> QED
  BY <1>1 DEF Init, HostInit, Device!Init, Device!NoAnswer, Phase, Answer

\* main puts discs in drives that have none, or takes them out.
LEMMA MainMaps ==
  ASSUME IInv, Main
  PROVE  Device!Mount \/ Device!Unmount
<1>1. /\ hpc = "idle" /\ req' = req
      /\ Phase(stored)' = Phase(stored) /\ Answer' = Answer /\ Phase(stored) = "idle"
  BY MainQuiet DEF hvars, Phase, Answer
<1>2. \/ \A d \in Ctl!Drive : disc[d] # NoDisc => disc'[d] = disc[d]
      \/ \A d \in Ctl!Drive : disc'[d] \in {disc[d], NoDisc}
  <2>1. disc \in [Ctl!Drive -> Text \cup {NoDisc}]
    BY DEF IInv, TypeInv
  <2>2. CASE InsertInst
    BY <2>2 DEF InsertInst, IInv, Mounted
  <2>3. CASE EjectInst
    BY <2>1, <2>3 DEF EjectInst, Ctl!Eject
  <2>4. ASSUME NEW d \in {0, 1}, InsertFile(d)
        PROVE  \/ \A e \in Ctl!Drive : disc[e] # NoDisc => disc'[e] = disc[e]
               \/ \A e \in Ctl!Drive : disc'[e] \in {disc[e], NoDisc}
    <3>1. CASE Ctl!InsertFails(d)
      BY <2>1, <3>1 DEF Ctl!InsertFails
    <3>2. ASSUME NEW f \in HostFile, Ctl!Insert(d, f)
          PROVE  \A e \in Ctl!Drive : disc[e] # NoDisc => disc'[e] = disc[e]
      <4>1. PICK h : disc' = [disc EXCEPT ![d] = h]
        BY <3>2 DEF Ctl!Insert
      <4>2. \A e \in Ctl!Drive : e = d => disc[e] = NoDisc
        BY <2>4 DEF InsertFile, IInv, Mounted
      <4> QED
        BY <2>1, <4>1, <4>2
    <3> QED
      BY <2>4, <3>1, <3>2 DEF InsertFile
  <2> QED
    BY <2>2, <2>3, <2>4 DEF Main
<1>3. \/ \A p \in Place : StoredAt(p) # <<>> => StoredAt(p)' = StoredAt(p)
      \/ \A p \in Place : StoredAt(p)' \in {StoredAt(p), <<>>}
  <2>1. \A p \in Place : p.drive \in Ctl!Drive
    BY DEF Place, Ctl!Drive
  <2>2. ASSUME NEW p \in Place, disc'[p.drive] = disc[p.drive]
        PROVE  StoredAt(p)' = StoredAt(p)
    BY <2>2 DEF StoredAt, Ctl!SectorOf
  <2>3. ASSUME NEW p \in Place, disc'[p.drive] = NoDisc
        PROVE  StoredAt(p)' = <<>>
    BY <2>3 DEF StoredAt
  <2>4. ASSUME NEW p \in Place, disc[p.drive] = NoDisc
        PROVE  StoredAt(p) = <<>>
    BY <2>4 DEF StoredAt
  <2> QED
    BY <1>2, <2>1, <2>2, <2>3, <2>4
<1> QED
  BY <1>1, <1>3 DEF Device!Mount, Device!Unmount

LEMMA AskMaps ==
  ASSUME IInv, Ask
  PROVE  Device!Ask
<1>1. /\ disc' = disc /\ hpc = "idle" /\ hpc' = "text" /\ req' \in HostRequest
      /\ result' = "none" /\ stored' = FALSE
  BY DEF Ask, HostAsk, ctl
<1>2. req' \in Device!Request
  BY <1>1, HostAssumption DEF HostRequest, Device!Request
<1>3. \A p \in Place : StoredAt(p)' = StoredAt(p)
  BY <1>1 DEF StoredAt, Ctl!SectorOf
<1> QED
  BY <1>1, <1>2, <1>3 DEF Device!Ask, Device!NoAnswer, Phase, Answer

\* The write of a block is the moment it is stored.
LEMMA BlockEndMaps ==
  ASSUME TextOnly, IInv, Send, hpc = "blockEOT"
  PROVE  Device!Store \/ UNCHANGED Device!vars
<1>1. /\ hpc' = "lastReply" /\ stored = FALSE /\ stored' = (state' = "WRITTEN")
      /\ req' = req /\ result' = result
  BY SendTaken, BlockReady, BlockEndStep
<1>2. CASE state' = "ERROR"
  <2>1. disc' = disc /\ stored' = stored
    BY <1>1, <1>2, BlockWritten
  <2> QED
    BY <1>1, <2>1, OnTheWay
<1>3. CASE state' = "WRITTEN"
  <2> DEFINE d == req.place.drive
             s == req.place.sector
             w == req.data
  <2>1. /\ d \in Ctl!Drive /\ s \in 0 .. NSector - 1 /\ req.place \in Place /\ req.op = "O"
        /\ w \in [1 .. SectorLen -> Ctl!Byte] /\ Len(w) = SectorLen
    BY BlockReady, RequestType
  <2>2. disc[d] \in Text /\ disc \in [Ctl!Drive -> Text \cup {NoDisc}] /\ NoDisc \notin Text
    BY BlockReady, BytesAssumption DEF IInv, TypeInv, Text
  <2>3. disc' = [disc EXCEPT ![d] = Ctl!Overwrite(@, s * SectorLen, w)]
    BY <1>3, BlockWritten
  <2>4. /\ disc'[d] = Ctl!Overwrite(disc[d], s * SectorLen, w) /\ disc'[d] # NoDisc
        /\ \A e \in Ctl!Drive : e # d => disc'[e] = disc[e]
    <3>1. disc'[d] # NoDisc
      BY <2>1, <2>2, BlockWritten
    <3> HIDE DEF d, s, w
    <3> QED
      BY <2>1, <2>2, <2>3, <3>1
  <2>5. ASSUME NEW p \in Place
        PROVE  StoredAt(p)' = IF p = req.place THEN w ELSE StoredAt(p)
    <3>1. /\ p.drive \in Ctl!Drive /\ p.sector \in 0 .. NSector - 1
          /\ p = req.place <=> p.drive = d /\ p.sector = s
      BY <2>1 DEF Place, Ctl!Drive
    <3>2. StoredAt(p)' = IF disc'[p.drive] = NoDisc THEN <<>>
                         ELSE Ctl!SectorOf(disc'[p.drive], p.sector)
      BY DEF StoredAt, Ctl!SectorOf
    <3>3. CASE p.drive # d
      BY <2>4, <3>1, <3>2, <3>3 DEF StoredAt
    <3>4. CASE p.drive = d
      <4>1. Ctl!SectorOf(disc'[d], p.sector)
              = IF p.sector = s THEN w ELSE Ctl!SectorOf(disc[d], p.sector)
        BY <2>1, <2>2, <2>4, <3>1, SectorAfter
      <4>2. StoredAt(p) = Ctl!SectorOf(disc[d], p.sector)
        BY <2>2, <3>4 DEF StoredAt
      <4>3. StoredAt(p)' = Ctl!SectorOf(disc'[d], p.sector)
        BY <2>4, <3>2, <3>4
      <4> QED
        BY <3>1, <3>4, <4>1, <4>2, <4>3
    <3> QED
      BY <3>3, <3>4
  <2>6. StoredAt(req.place) # <<>>
    <3>1. StoredAt(req.place) = Ctl!SectorOf(disc[d], s)
      BY <2>2 DEF StoredAt
    <3> QED
      BY <2>1, <2>2, <3>1, SectorType
  <2>7. /\ Phase(stored) = "asked" /\ Phase(stored)' = "stored" /\ Answer' = Answer
    BY <1>1, <1>3 DEF Phase, Answer
  <2>8. Held' = [Held EXCEPT ![req.place] = w]
    BY <2>1, <2>5 DEF Held
  <2>9. Held[req.place] # <<>>
    BY <2>1, <2>6 DEF Held
  <2> QED
    BY <1>1, <2>1, <2>7, <2>8, <2>9 DEF Device!Store, Held
<1> QED
  BY <1>2, <1>3, BlockWritten

\* The last character of an answer is the answer.
LEMMA AnswerMaps ==
  ASSUME IInv, Receive, hpc = "lastAbsorb"
  PROVE  Device!AnswerRead \/ Device!AnswerWrite
<1>1. /\ hpc' = "idle" /\ result' = "ok" /\ got' = got /\ disc' = disc /\ req' = req
      /\ req \in HostRequest /\ stored' = stored
  BY LastAbsorbStep, ReceiveTaken
<1>2. req.place \in Place /\ \A p \in Place : StoredAt(p)' = StoredAt(p)
  BY <1>1, RequestType DEF StoredAt, Ctl!SectorOf
<1>3. Held' = Held /\ Held[req.place] = StoredAt(req.place)
  BY <1>2 DEF Held
<1>4. CASE req.op = "I" /\ got = Sector /\ Sector # <<>> /\ stored = FALSE /\ Present
  <2>1. StoredAt(req.place) = Sector
    BY <1>4 DEF StoredAt, Sector, Present
  <2>2. Phase(stored) = "asked" /\ Phase(stored)' = "idle" /\ Answer' = [kind |-> "ok", data |-> Sector]
    BY <1>1, <1>4 DEF Phase, Answer
  <2> QED
    BY <1>1, <1>3, <1>4, <2>1, <2>2 DEF Device!AnswerRead, Device!Ok, Held
<1>5. CASE req.op = "O" /\ stored = TRUE
  <2>1. Phase(stored) = "stored" /\ Phase(stored)' = "idle" /\ Answer' = [kind |-> "ok", data |-> <<>>]
    BY <1>1, <1>5 DEF Phase, Answer
  <2> QED
    BY <1>1, <1>3, <2>1 DEF Device!AnswerWrite, Device!Ok, Held
<1> QED
  BY <1>4, <1>5, LastAbsorbStep

LEMMA MessageMaps ==
  ASSUME IInv, Receive, hpc = "message"
  PROVE  Device!Refuse \/ UNCHANGED Device!vars
<1>1. /\ disc' = disc /\ req' = req /\ req \in HostRequest /\ stored' = stored /\ stored = FALSE
  BY MessageStep, ReceiveTaken
<1>2. CASE hpc' = "message"
  BY <1>1, <1>2, OnTheWay
<1>3. CASE hpc' = "idle" /\ result' = "error" /\ Refused
  <2>1. req.place \in Place /\ \A p \in Place : StoredAt(p)' = StoredAt(p)
    BY <1>1, RequestType DEF StoredAt, Ctl!SectorOf
  <2>2. Held' = Held /\ Held[req.place] = StoredAt(req.place)
    BY <2>1 DEF Held
  <2>3. StoredAt(req.place) = <<>> \/ (req.op = "O" /\ Fault # {})
    BY <1>3 DEF Refused, StoredAt
  <2>4. Phase(stored) = "asked" /\ Phase(stored)' = "idle" /\ Answer' = [kind |-> "error", data |-> <<>>]
    BY <1>1, <1>3 DEF Phase, Answer
  <2> QED
    BY <1>1, <2>2, <2>3, <2>4 DEF Device!Refuse, Device!Refusal, Held
<1> QED
  BY <1>2, <1>3, MessageStep

LEMMA NextMaps ==
  ASSUME TextOnly, IInv, [Next]_vars
  PROVE  [Device!Next]_(Device!vars)
<1>1. CASE Send
  <2>1. CASE hpc # "blockEOT"
    <3>1. disc' = disc /\ stored' = stored /\ req' = req /\ hpc # "idle" /\ hpc' # "idle"
      BY <1>1, <2>1, SendTaken, TextStep, CommandStep, BlockStep
    <3> QED
      BY <3>1, OnTheWay
  <2>2. CASE hpc = "blockEOT"
    BY <1>1, <2>2, BlockEndMaps DEF Device!Next
  <2> QED
    BY <2>1, <2>2
<1>2. CASE Receive
  <2>1. CASE hpc \notin {"lastAbsorb", "message"}
    <3>1. disc' = disc /\ stored' = stored /\ req' = req /\ hpc # "idle" /\ hpc' # "idle"
      BY <1>2, <2>1, ReceiveTaken, ReplyStep, AbsorbStep, ReadStep, LastReplyStep
    <3> QED
      BY <3>1, OnTheWay
  <2>2. CASE hpc = "lastAbsorb"
    BY <1>2, <2>2, AnswerMaps DEF Device!Next
  <2>3. CASE hpc = "message"
    BY <1>2, <2>3, MessageMaps DEF Device!Next
  <2> QED
    BY <2>1, <2>2, <2>3
<1>3. CASE UNCHANGED vars
  BY <1>3 DEF vars, ctl, hvars, Device!vars, StoredAt, Ctl!SectorOf, Phase, Answer
<1> QED
  BY <1>1, <1>2, <1>3, MainMaps, AskMaps DEF Next, Device!Next

\* R/W is a store of blocks: what is written and acknowledged is stored, what is
\* refused is not and there was a reason, and what is read is what is stored,
\* also after a failed write, for blocks that hold no EOT and an fflush that does
\* not fail: one that does is acknowledged and stores its message.
THEOREM LocalDiscIsADevice == ASSUME TextOnly PROVE Spec => ImplementsDevice
BY LocalInvariant, InitDevice, NextMaps, PTL DEF Spec, ImplementsDevice, Device!Spec

=============================================================================
