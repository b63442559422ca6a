---------------------------- MODULE PersciProofs ----------------------------
(***************************************************************************)
(* Proofs about the controller of Persci, for every number of drives and   *)
(* every size of sector and disc, and about what PersciCallers says of it. *)
(*                                                                         *)
(* The inductive invariant adds to TypeOK and BufferFollowsState that the  *)
(* drive named by an accepted O command holds an image until the write:    *)
(* drives change between transfers only.                                   *)
(***************************************************************************)
EXTENDS PersciCallers, SequenceTheorems, TLAPS

TargetPresent == state \in {"OUTPUT", "WRITING"} => disc[target.drive] # NoDisc

IInv == TypeOK /\ BufferFollowsState /\ TargetPresent

\* The constants that are characters, and what Offset is made of.
LEMMA Constants ==
  /\ Data \subseteq Byte /\ Command \subseteq Byte /\ Message \subseteq Byte
  /\ {SOH, ACK, NAK, ENQ, EOT, Zero} \subseteq Byte
  /\ EOT \notin Command /\ EOT \notin Data
  /\ NoByte \notin Byte /\ NoDisc \notin Image /\ NoFile \notin File
  /\ NDrive \in Nat /\ NSector \in Nat /\ SectorLen \in Nat /\ BufSize \in Nat
  /\ BufSize = SectorLen + 3 /\ MaxFrame \in Nat /\ MaxFrame > 0 /\ NDrive > 0 /\ NSector > 0
  /\ SectorLen > 0
BY SizesAssumption, BytesAssumption DEF Byte, Control

\* The bytes of a sector that is on the disc are at offsets of the disc.
LEMMA SectorIsOnDisc ==
  ASSUME NEW s \in 0 .. NSector - 1, NEW i \in 1 .. SectorLen
  PROVE  SectorOffset(s) + i - 1 \in Offset
<1>1. NSector \in Nat /\ SectorLen \in Nat /\ s \in Nat /\ i \in Nat
  BY Constants
<1>2. s * SectorLen \in Nat
  BY <1>1
<1>3. (s + 1) * SectorLen <= NSector * SectorLen
  BY <1>1
<1>4. (s + 1) * SectorLen = s * SectorLen + SectorLen
  BY <1>1
<1>5. NSector * SectorLen \in Nat
  BY <1>1
<1> QED
  BY <1>1, <1>2, <1>3, <1>4, <1>5 DEF SectorOffset, Offset

\* A response of one character and an EOT.
LEMMA ShortResponse ==
  ASSUME NEW c \in Byte, NEW d \in Byte
  PROVE  /\ <<c, d, EOT>> \in Seq(Byte) /\ Len(<<c, d, EOT>>) = 3
         /\ <<c, d, EOT>>[3] = EOT
         /\ <<c, EOT>> \in Seq(Byte) /\ Len(<<c, EOT>>) = 2
         /\ <<c, EOT>>[2] = EOT
BY Constants

\* The response to an I command is as long as the buffer and ends in EOT.
LEMMA SectorResponse ==
  ASSUME NEW m \in Image, NEW s \in 0 .. NSector - 1
  PROVE  LET r == <<SOH>> \o SectorOf(m, s) \o <<ACK, EOT>>
         IN  /\ r \in Seq(Byte)
             /\ Len(r) = BufSize
             /\ r[Len(r)] = EOT
<1> DEFINE q == SectorOf(m, s)
<1>1. \A i \in 1 .. SectorLen : m[SectorOffset(s) + i - 1] \in Byte
  BY SectorIsOnDisc DEF Image
<1>2. q \in [1 .. SectorLen -> Byte]
  BY <1>1 DEF SectorOf
<1>3. SectorLen \in Nat
  BY Constants
<1>4. q \in Seq(Byte)
  BY <1>2, <1>3, SeqDef
<1>5. Len(q) = SectorLen
  BY <1>2, <1>3, <1>4, LenProperties
<1>6. /\ <<SOH>> \in Seq(Byte) /\ Len(<<SOH>>) = 1
      /\ <<ACK, EOT>> \in Seq(Byte) /\ Len(<<ACK, EOT>>) = 2
      /\ <<ACK, EOT>>[2] = EOT
  BY Constants, ShortResponse
<1> HIDE DEF q
<1>7. /\ <<SOH>> \o q \in Seq(Byte)
      /\ Len(<<SOH>> \o q) = 1 + SectorLen
  BY <1>4, <1>5, <1>6, ConcatProperties
<1>8. /\ (<<SOH>> \o q) \o <<ACK, EOT>> \in Seq(Byte)
      /\ Len((<<SOH>> \o q) \o <<ACK, EOT>>) = SectorLen + 3
      /\ ((<<SOH>> \o q) \o <<ACK, EOT>>)[SectorLen + 3] = EOT
  BY <1>3, <1>6, <1>7, ConcatProperties
<1> QED
  BY <1>8, Constants DEF q

-----------------------------------------------------------------------------
(* What a write leaves in the image and in the file.                       *)

LEMMA OverwriteType ==
  ASSUME NEW m \in Image, NEW off \in Nat, NEW chars \in Seq(Byte)
  PROVE  Overwrite(m, off, chars) \in Image
<1>1. ASSUME NEW o \in Offset, o \in off .. off + Len(chars) - 1
      PROVE  chars[o - off + 1] \in Byte
  <2>1. Len(chars) \in Nat /\ o \in Nat
    BY Constants, LenProperties DEF Offset
  <2>2. o - off + 1 \in 1 .. Len(chars)
    BY <1>1, <2>1
  <2> QED
    BY <2>2, ElementOfSeq
<1> QED
  BY <1>1 DEF Overwrite, Image

LEMMA FileAfterType ==
  ASSUME NEW f \in File, NEW off \in Nat, NEW chars \in Seq(Byte)
  PROVE  FileAfter(f, off, chars) \in File
<1>1. ASSUME NEW o \in Offset, o \in off .. off + Len(chars) - 1
      PROVE  chars[o - off + 1] \in Byte
  <2>1. Len(chars) \in Nat /\ o \in Nat
    BY Constants, LenProperties DEF Offset
  <2>2. o - off + 1 \in 1 .. Len(chars)
    BY <1>1, <2>1
  <2> QED
    BY <2>2, ElementOfSeq
<1>2. Zero \in Byte
  BY Constants
<1> QED
  BY <1>1, <1>2 DEF FileAfter, File

\* The characters that an error message is written over are as many as before.
LEMMA OverlaidType ==
  ASSUME NEW chars \in Seq(Byte), NEW message \in Message
  PROVE  /\ Overlaid(chars, ErrorText(message)) \in Seq(Byte)
         /\ Len(Overlaid(chars, ErrorText(message))) = Len(chars)
<1> DEFINE text == ErrorText(message)
<1>1. text \in Seq(Byte) /\ Len(text) = 3
  <2>1. message \in Byte /\ NAK \in Byte
    BY Constants
  <2> QED
    BY <2>1, ShortResponse DEF ErrorText
<1>2. Len(chars) \in Nat /\ Len(text) \in Nat
  BY <1>1, LenProperties
<1> HIDE DEF text
<1>3. ASSUME NEW i \in 1 .. Len(chars)
      PROVE  (IF i <= Len(text) THEN text[i] ELSE chars[i]) \in Byte
  <2>1. ASSUME i <= Len(text) PROVE text[i] \in Byte
    <3>1. i \in 1 .. Len(text)
      BY <1>2, <2>1
    <3> QED
      BY <1>1, <3>1, ElementOfSeq
  <2>2. chars[i] \in Byte
    BY ElementOfSeq
  <2> QED
    BY <2>1, <2>2
<1>4. Overlaid(chars, text) \in [1 .. Len(chars) -> Byte]
  BY <1>3 DEF Overlaid
<1>5. Overlaid(chars, text) \in Seq(Byte)
  BY <1>2, <1>4, SeqDef
<1>6. Len(Overlaid(chars, text)) = Len(chars)
  BY <1>2, <1>4, <1>5, LenProperties
<1> QED
  BY <1>5, <1>6 DEF text

\* The offset of a sector of the disc is a natural number.
LEMMA SectorOffsetType ==
  ASSUME NEW s \in 0 .. NSector - 1
  PROVE  SectorOffset(s) \in Nat
BY Constants DEF SectorOffset

-----------------------------------------------------------------------------
(* Each action preserves the inductive invariant.                          *)

LEMMA InitIInv == Init => IInv
<1> SUFFICES ASSUME Init PROVE IInv
  OBVIOUS
<1>1. 0 \in Drive /\ 0 \in 0 .. NSector - 1
  BY Constants DEF Drive
<1>2. TypeOK
  BY <1>1 DEF Init, TypeOK, States
<1>3. BufferFollowsState
  BY Constants DEF Init, BufferFollowsState, Accepting, Responding
<1>4. TargetPresent
  BY DEF Init, TargetPresent
<1> QED
  BY <1>2, <1>3, <1>4 DEF IInv

\* A change of drives, between transfers.
LEMMA DrivesStep ==
  ASSUME IInv, NEW d \in Drive,
         \/ \E f \in HostFile : Insert(d, f)
         \/ InsertFails(d)
         \/ \E m \in StaticImage : InsertBytes(d, m)
         \/ Eject(d)
  PROVE  IInv'
<1> USE DEF IInv
<1>1. state = "IDLE" /\ UNCHANGED <<state, buf, idx, target, status>>
  BY DEF Insert, InsertFails, InsertBytes, Eject, BetweenTransfers
<1>2. /\ disc' \in [Drive -> Image \cup {NoDisc}]
      /\ file' \in [Drive -> File \cup {NoFile}]
      /\ ejected' \in BOOLEAN
      /\ suspect' \in [Drive -> SUBSET Offset]
  <2>1. CASE \E f \in HostFile : Insert(d, f)
    <3>1. PICK f \in HostFile : Insert(d, f)
      BY <2>1
    <3>2. f \in File /\ Heap \subseteq Byte
      BY BytesAssumption
    <3>3. ASSUME NEW h \in [Offset -> Heap] PROVE ImageOf(f, h) \in Image
      BY <3>2 DEF ImageOf, Image, File
    <3> QED
      BY <3>1, <3>2, <3>3 DEF Insert, TypeOK
  <2>2. CASE InsertFails(d)
    BY <2>2 DEF InsertFails, TypeOK
  <2>3. CASE \E m \in StaticImage : InsertBytes(d, m)
    BY <2>3, BytesAssumption DEF InsertBytes, TypeOK
  <2>4. CASE Eject(d)
    BY <2>4 DEF Eject, TypeOK
  <2> QED
    BY <2>1, <2>2, <2>3, <2>4
<1>3. TypeOK'
  BY <1>1, <1>2 DEF TypeOK
<1>4. BufferFollowsState'
  BY <1>1 DEF BufferFollowsState, Accepting, Responding
<1> QED
  BY <1>1, <1>3, <1>4 DEF TargetPresent

\* A response leaves the buffer as BufferFollowsState asks.
LEMMA RespondStep ==
  ASSUME NEW st \in {"INPUT", "OUTPUT", "WRITTEN", "ERROR"},
         NEW chars \in Seq(Byte),
         Len(chars) > 0, Len(chars) <= BufSize, chars[Len(chars)] = EOT,
         Respond(st, chars)
  PROVE  /\ BufferFollowsState'
         /\ state' \in States /\ buf' \in Seq(Byte) /\ idx' \in Nat
BY DEF Respond, BufferFollowsState, Accepting, Responding, States

LEMMA ErrorStep ==
  ASSUME NEW message \in Message, Error(message)
  PROVE  /\ BufferFollowsState'
         /\ state' = "ERROR"
         /\ state' \in States /\ buf' \in Seq(Byte) /\ idx' \in Nat
<1>1. message \in Byte /\ NAK \in Byte
  BY Constants
<1> DEFINE r == <<NAK, message, EOT>>
<1>2. r \in Seq(Byte) /\ Len(r) = 3 /\ r[Len(r)] = EOT
  BY <1>1, ShortResponse
<1>3. Len(r) > 0 /\ Len(r) <= BufSize
  BY <1>2, Constants
<1>4. Respond("ERROR", r)
  BY DEF Error, ErrorText
<1> HIDE DEF r
<1>5. BufferFollowsState' /\ buf' \in Seq(Byte) /\ idx' \in Nat
  BY <1>2, <1>3, <1>4, RespondStep
<1>6. state' = "ERROR"
  BY <1>4 DEF Respond
<1> QED
  BY <1>5, <1>6 DEF States

\* An EOT after a command.
LEMMA RunCommandStep ==
  ASSUME IInv, RunCommand
  PROVE  IInv'
<1> USE DEF IInv
<1>1. UNCHANGED <<disc, file, ejected, suspect, status>>
  BY DEF RunCommand, drives
<1>2. SUFFICES /\ target' \in [drive : Drive, sector : 0 .. NSector - 1]
               /\ state' \in States /\ buf' \in Seq(Byte) /\ idx' \in Nat
               /\ BufferFollowsState' /\ TargetPresent'
  BY <1>1 DEF TypeOK
<1>3. ASSUME NEW message \in Message, Error(message), UNCHANGED target
      PROVE  /\ target' \in [drive : Drive, sector : 0 .. NSector - 1]
             /\ state' \in States /\ buf' \in Seq(Byte) /\ idx' \in Nat
             /\ BufferFollowsState' /\ TargetPresent'
  BY <1>3, ErrorStep DEF TypeOK, TargetPresent
<1>4. CASE IsCommand(buf)
  <2>1. PICK c \in Command : Rejected(c) \/ Input(c) \/ Output(c)
    BY <1>4 DEF RunCommand, IsCommand
  <2>2. CASE Rejected(c)
    BY <2>2, <1>3 DEF Rejected, Message
  <2>3. CASE Input(c)
    <3>1. disc[c.drive] \in Image /\ c.sector \in 0 .. NSector - 1
      BY <2>3, Constants DEF Input, Valid, TypeOK, Command
    <3> DEFINE r == <<SOH>> \o SectorOf(disc[c.drive], c.sector) \o <<ACK, EOT>>
    <3>2. r \in Seq(Byte) /\ Len(r) = BufSize /\ r[Len(r)] = EOT
      BY <3>1, SectorResponse
    <3>3. Respond("INPUT", r) /\ UNCHANGED target
      BY <2>3 DEF Input
    <3> HIDE DEF r
    <3>4. BufSize > 0 /\ BufSize \in Nat
      BY Constants
    <3>5. /\ BufferFollowsState'
          /\ state' \in States /\ buf' \in Seq(Byte) /\ idx' \in Nat
      BY <3>2, <3>3, <3>4, RespondStep
    <3>6. state' = "INPUT"
      BY <3>3 DEF Respond
    <3> QED
      BY <3>3, <3>5, <3>6 DEF TypeOK, TargetPresent
  <2>4. CASE Output(c)
    <3>1. /\ target' = [drive |-> c.drive, sector |-> c.sector]
          /\ c.drive \in Drive /\ disc[c.drive] # NoDisc
          /\ c.sector \in 0 .. NSector - 1
      BY <2>4, Constants DEF Output, Valid, Command
    <3> DEFINE r == <<ENQ, EOT>>
    <3>2. /\ r \in Seq(Byte) /\ r[Len(r)] = EOT
          /\ Len(r) > 0 /\ Len(r) <= BufSize
      BY Constants, ShortResponse
    <3>3. Respond("OUTPUT", r)
      BY <2>4 DEF Output
    <3> HIDE DEF r
    <3>4. /\ BufferFollowsState'
          /\ state' \in States /\ buf' \in Seq(Byte) /\ idx' \in Nat
      BY <3>2, <3>3, RespondStep
    <3> QED
      BY <1>1, <3>1, <3>4 DEF TargetPresent
  <2> QED
    BY <2>1, <2>2, <2>3, <2>4
<1>5. CASE ~IsCommand(buf)
  BY <1>3, <1>5 DEF RunCommand, Message
<1> QED
  BY <1>4, <1>5

\* An ACK leaves the controller as the invariant asks.
LEMMA AcknowledgeStep ==
  ASSUME TypeOK, NEW chars \in Seq(Byte), Acknowledge(chars)
  PROVE  /\ BufferFollowsState'
         /\ state' = "WRITTEN"
         /\ state' \in States /\ buf' \in Seq(Byte) /\ idx' \in Nat
         /\ suspect' \in [Drive -> SUBSET Offset]
<1> DEFINE r == <<ACK, EOT>>
<1>1. /\ r \in Seq(Byte) /\ r[Len(r)] = EOT
      /\ Len(r) > 0 /\ Len(r) <= BufSize
  BY Constants, ShortResponse
<1>2. Respond("WRITTEN", r)
  BY DEF Acknowledge
<1> HIDE DEF r
<1>3. BufferFollowsState' /\ buf' \in Seq(Byte) /\ idx' \in Nat
  BY <1>1, <1>2, RespondStep
<1>4. state' = "WRITTEN"
  BY <1>2 DEF Respond
<1>5. suspect' \in [Drive -> SUBSET Offset]
  BY DEF Acknowledge, TypeOK
<1> QED
  BY <1>3, <1>4, <1>5 DEF States

\* An EOT after data.
LEMMA WriteStep ==
  ASSUME IInv, Write
  PROVE  IInv'
<1> USE DEF IInv
<1>1. UNCHANGED <<target, ejected, status>> /\ state = "WRITING"
  BY DEF Write
<1>2. /\ target.drive \in Drive /\ target.sector \in 0 .. NSector - 1
      /\ disc[target.drive] \in Image
      /\ buf \in Seq(Byte)
  BY DEF Write, TypeOK
<1> DEFINE off == SectorOffset(target.sector)
<1>3. off \in Nat
  BY <1>2, SectorOffsetType
<1>4. ASSUME NEW fault, FileFails(fault, buf)
      PROVE  file' \in [Drive -> File \cup {NoFile}]
  <2>1. PICK k \in 0 .. Len(buf) :
          file' = [file EXCEPT ![target.drive] =
                     FileAfter(@, off, SubSeq(buf, 1, k))]
    BY <1>4 DEF FileFails
  <2>2. SubSeq(buf, 1, k) \in Seq(Byte)
    BY <1>2, SubSeqProperties, LenProperties
  <2>3. file[target.drive] \in File
    BY <1>2, <1>4 DEF FileFails, TypeOK
  <2>4. FileAfter(file[target.drive], off, SubSeq(buf, 1, k)) \in File
    BY <1>3, <2>2, <2>3, FileAfterType
  <2> HIDE DEF off
  <2> QED
    BY <1>2, <2>1, <2>4 DEF TypeOK
<1>5. ASSUME NEW chars \in Seq(Byte), MemoryWritten(chars)
      PROVE  disc' \in [Drive -> Image \cup {NoDisc}]
  <2>1. Overwrite(disc[target.drive], off, chars) \in Image
    BY <1>2, <1>3, OverwriteType
  <2> QED
    BY <1>2, <1>5, <2>1 DEF MemoryWritten, TypeOK
<1>6. ASSUME FileWritten(buf)
      PROVE  file' \in [Drive -> File \cup {NoFile}]
  <2>1. file[target.drive] # NoFile =>
          FileAfter(file[target.drive], off, buf) \in File
    BY <1>2, <1>3, FileAfterType DEF TypeOK
  <2> QED
    BY <1>2, <1>6, <2>1 DEF FileWritten, TypeOK
<1>7. CASE \E fault \in Fault : WriteRefused(fault, buf)
  <2>1. PICK fault \in Fault : WriteRefused(fault, buf)
    BY <1>7
  <2>2. Error(HardDiskError) /\ HardDiskError \in Message
    BY <2>1 DEF WriteRefused, Message
  <2>3. suspect' \in [Drive -> SUBSET Offset]
    BY <2>1, <1>2 DEF WriteRefused, TypeOK, Touched
  <2>4. file' \in [Drive -> File \cup {NoFile}] /\ disc' = disc
    BY <2>1, <1>4 DEF WriteRefused
  <2> QED
    BY <1>1, <2>2, <2>3, <2>4, ErrorStep DEF TypeOK, TargetPresent
<1>8. CASE WriteNotFlushed(buf) \/ Written(buf)
  <2>1. Acknowledge(buf)
    BY <1>8 DEF WriteNotFlushed, Written
  <2>2. /\ file' \in [Drive -> File \cup {NoFile}]
        /\ disc' \in [Drive -> Image \cup {NoDisc}]
    <3>1. Overlaid(buf, ErrorText(HardDiskError)) \in Seq(Byte)
      BY <1>2, OverlaidType DEF Message
    <3> QED
      BY <1>2, <1>4, <1>5, <1>6, <1>8, <3>1 DEF WriteNotFlushed, Written
  <2> QED
    BY <1>1, <1>2, <2>1, <2>2, AcknowledgeStep DEF TypeOK, TargetPresent
<1> QED
  BY <1>7, <1>8 DEF Write, WriteChars

LEMMA PutStep ==
  ASSUME IInv, NEW c \in Byte, Putc(c)
  PROVE  IInv'
<1> USE DEF IInv
<1>1. CASE PutOverflow \/ WriteUndefined
  BY <1>1 DEF PutOverflow, WriteUndefined, drives, TypeOK, BufferFollowsState,
              Accepting, Responding, TargetPresent
<1>2. CASE PutChar(c)
  <2>1. Accepting /\ c # EOT /\ buf' = Append(buf, c) /\ Len(buf) < BufSize
    BY <1>2 DEF Putc, PutChar
  <2>2. UNCHANGED <<state, idx, target, disc, file, ejected, suspect, status>>
    BY <1>2 DEF PutChar, drives
  <2>3. /\ buf' \in Seq(Byte) /\ Len(buf') = Len(buf) + 1
        /\ \A i \in 1 .. Len(buf) : buf'[i] = buf[i]
        /\ buf'[Len(buf) + 1] = c
    BY <2>1, AppendProperties DEF TypeOK
  <2>4. Len(buf) \in Nat /\ BufSize \in Nat
    BY Constants, LenProperties DEF TypeOK
  <2>5. \A i \in 1 .. Len(buf') : buf'[i] # EOT
    BY <2>1, <2>3, <2>4 DEF BufferFollowsState
  <2>6. Len(buf') <= BufSize
    BY <2>1, <2>3, <2>4
  <2>7. BufferFollowsState'
    BY <2>1, <2>2, <2>5, <2>6 DEF BufferFollowsState, Accepting, Responding
  <2> QED
    BY <2>2, <2>3, <2>7 DEF TypeOK, TargetPresent
<1>3. CASE RunCommand
  BY <1>3, RunCommandStep
<1>4. CASE Write
  BY <1>4, WriteStep
<1> QED
  BY <1>1, <1>2, <1>3, <1>4 DEF Putc, PutEOT

LEMMA GetcStep ==
  ASSUME IInv, Getc
  PROVE  IInv'
<1> USE DEF IInv
<1>1. UNCHANGED <<target, disc, file, ejected, suspect, status>>
  BY DEF Getc, drives
<1>2. Responding /\ idx \in Nat /\ idx < Len(buf) /\ Len(buf) \in Nat
  BY LenProperties DEF Getc, TypeOK
<1>3. CASE idx + 1 < Len(buf)
  BY <1>1, <1>2, <1>3 DEF Getc, TypeOK, BufferFollowsState, Accepting,
                          Responding, TargetPresent
<1>4. CASE ~(idx + 1 < Len(buf))
  <2>1. buf' = <<>> /\ idx' = 0 /\ state' \in {"WRITING", "IDLE"}
        /\ (state' = "WRITING" => state = "OUTPUT")
    BY <1>4 DEF Getc
  <2>2. BufferFollowsState'
    BY <2>1, Constants DEF BufferFollowsState, Accepting, Responding
  <2> QED
    BY <1>1, <2>1, <2>2 DEF TypeOK, TargetPresent, States
<1> QED
  BY <1>3, <1>4

LEMMA NextIInv == IInv /\ [Next]_vars => IInv'
<1> SUFFICES ASSUME IInv, [Next]_vars PROVE IInv'
  OBVIOUS
<1>1. CASE DrivesChange
  BY <1>1, DrivesStep DEF DrivesChange
<1>2. CASE \E c \in Incoming : Putc(c)
  <2>1. PICK c \in Incoming : Putc(c)
    BY <1>2
  <2>2. c \in Byte
    BY Constants DEF Incoming
  <2> QED
    BY <2>1, <2>2, PutStep
<1>3. CASE Getc
  BY <1>3, GetcStep
<1>4. CASE UNCHANGED vars
  BY <1>4 DEF vars, IInv, TypeOK, BufferFollowsState, Accepting, Responding,
              TargetPresent
<1> QED
  BY <1>1, <1>2, <1>3, <1>4 DEF Next

\* The controller's variables have their types.
THEOREM TypeCorrect == Spec => []TypeOK
<1>1. IInv => TypeOK
  BY DEF IInv
<1> QED
  BY <1>1, InitIInv, NextIInv, PTL DEF Spec

\* In a state that takes characters nothing in the buffer is read or an EOT; in
\* a state that gives them there is one to give, and an EOT at the end. It holds
\* whatever is sent, so rf_persci_r never finds the buffer empty, and a
\* controller that answers can always be read until it listens again.
THEOREM BufferCorrect == Spec => []BufferFollowsState
<1>1. IInv => BufferFollowsState
  BY DEF IInv
<1> QED
  BY <1>1, InitIInv, NextIInv, PTL DEF Spec

-----------------------------------------------------------------------------
(* Image and file.                                                         *)

\* Outside the characters written, a file keeps the bytes it has.
LEMMA FileAfterKeeps ==
  ASSUME NEW f \in File, NEW off \in Nat, NEW chars \in Seq(Byte),
         NEW o \in Offset, o \notin Touched(off, chars), f[o] # NoByte
  PROVE  FileAfter(f, off, chars)[o] = f[o]
BY DEF FileAfter, Touched

\* A part of the characters touches a part of the offsets.
LEMMA TouchedPart ==
  ASSUME NEW off \in Nat, NEW chars \in Seq(Byte), NEW k \in 0 .. Len(chars)
  PROVE  Touched(off, SubSeq(chars, 1, k)) \subseteq Touched(off, chars)
<1>1. Len(chars) \in Nat
  BY LenProperties
<1>2. Len(SubSeq(chars, 1, k)) = k
  BY <1>1, SubSeqProperties
<1>3. \A o \in Offset : o \in Nat
  BY Constants DEF Offset
<1>4. ASSUME NEW o \in Offset, o \in off .. off + k - 1
      PROVE  o \in off .. off + Len(chars) - 1
  BY <1>1, <1>3, <1>4
<1> QED
  BY <1>2, <1>4 DEF Touched

\* An acknowledged write puts the same characters in the image and in the file.
LEMMA WrittenMatches ==
  ASSUME IInv, ImageMatchesFile, state = "WRITING", UNCHANGED target,
         disc[target.drive] # NoDisc, Written(buf)
  PROVE  ImageMatchesFile'
<1> DEFINE t == target.drive
           off == SectorOffset(target.sector)
<1>1. /\ t \in Drive /\ target.sector \in 0 .. NSector - 1
      /\ disc[t] \in Image /\ buf \in Seq(Byte)
  BY DEF IInv, TypeOK
<1>2. off \in Nat
  BY <1>1, SectorOffsetType
<1>3. /\ disc' = [disc EXCEPT ![t] = Overwrite(@, off, buf)]
      /\ suspect' = [suspect EXCEPT ![t] = @ \ Touched(off, buf)]
      /\ file' = IF file[t] = NoFile THEN file
                 ELSE [file EXCEPT ![t] = FileAfter(@, off, buf)]
  BY DEF Written, MemoryWritten, FileWritten, Acknowledge
<1>4. disc \in [Drive -> Image \cup {NoDisc}] /\ file \in [Drive -> File \cup {NoFile}]
      /\ suspect \in [Drive -> SUBSET Offset]
  BY DEF IInv, TypeOK
<1>5. Overwrite(disc[t], off, buf) \in Image
  BY <1>1, <1>2, OverwriteType
<1> HIDE DEF off
<1>6. ASSUME NEW d \in Drive, file'[d] # NoFile, NEW o \in Offset, o \notin suspect'[d],
             d = t
      PROVE  disc'[d][o] = file'[d][o]
  <2>1. file[t] # NoFile /\ file[t] \in File
    BY <1>1, <1>3, <1>4, <1>6
  <2>2. /\ disc'[t] = Overwrite(disc[t], off, buf)
        /\ file'[t] = FileAfter(file[t], off, buf)
        /\ suspect'[t] = suspect[t] \ Touched(off, buf)
    BY <1>1, <1>3, <1>4, <2>1
  <2>3. CASE o \in Touched(off, buf)
    <3>1. o \in off .. off + Len(buf) - 1
      BY <2>3 DEF Touched
    <3>2. buf # <<>>
      <4>1. SUFFICES ASSUME buf = <<>> PROVE FALSE
        OBVIOUS
      <4>2. o \in off .. off + 0 - 1 /\ o \in Nat
        BY <3>1, <4>1, Constants DEF Offset
      <4> QED
        BY <4>2, <1>2
    <3> QED
      BY <1>6, <2>2, <3>1, <3>2 DEF Overwrite, FileAfter
  <2>4. CASE o \notin Touched(off, buf)
    <3>1. o \notin suspect[t]
      BY <1>6, <2>2, <2>4
    <3>2. disc[t][o] = file[t][o]
      BY <1>1, <2>1, <3>1 DEF ImageMatchesFile
    <3>3. disc[t][o] \in Byte
      BY <1>1 DEF Image
    <3>4. file[t][o] # NoByte
      BY <3>2, <3>3, Constants
    <3>5. file'[t][o] = file[t][o]
      BY <1>1, <1>2, <2>1, <2>2, <2>4, <3>4, FileAfterKeeps
    <3>6. disc'[t][o] = disc[t][o]
      BY <2>2, <2>4 DEF Overwrite, Touched
    <3> QED
      BY <1>6, <3>2, <3>5, <3>6
  <2> QED
    BY <2>3, <2>4
<1>7. ASSUME NEW d \in Drive, d # t
      PROVE  disc'[d] = disc[d] /\ file'[d] = file[d] /\ suspect'[d] = suspect[d]
  BY <1>1, <1>3, <1>4, <1>7
<1>8. disc'[t] # NoDisc
  BY <1>1, <1>3, <1>4, <1>5, Constants
<1> QED
  BY <1>6, <1>7, <1>8 DEF ImageMatchesFile

\* A refused write leaves the image alone, and the file where it is suspect.
LEMMA RefusedMatches ==
  ASSUME IInv, ImageMatchesFile, state = "WRITING", UNCHANGED target,
         NEW fault \in Fault, WriteRefused(fault, buf)
  PROVE  ImageMatchesFile'
<1> DEFINE t == target.drive
           off == SectorOffset(target.sector)
<1>1. /\ t \in Drive /\ target.sector \in 0 .. NSector - 1
      /\ buf \in Seq(Byte)
  BY DEF IInv, TypeOK
<1>2. off \in Nat
  BY <1>1, SectorOffsetType
<1>3. PICK k \in 0 .. Len(buf) :
        file' = [file EXCEPT ![t] = FileAfter(@, off, SubSeq(buf, 1, k))]
  BY DEF WriteRefused, FileFails
<1>4. /\ disc' = disc
      /\ suspect' = [suspect EXCEPT ![t] = @ \cup Touched(off, buf)]
      /\ file[t] # NoFile
  BY DEF WriteRefused, FileFails
<1>5. /\ disc \in [Drive -> Image \cup {NoDisc}]
      /\ file \in [Drive -> File \cup {NoFile}]
      /\ suspect \in [Drive -> SUBSET Offset]
  BY DEF IInv, TypeOK
<1>6. SubSeq(buf, 1, k) \in Seq(Byte)
  BY <1>1, LenProperties, SubSeqProperties
<1>7. disc[t] # NoDisc /\ disc[t] \in Image /\ file[t] \in File
  BY <1>1, <1>4, <1>5 DEF ImageMatchesFile
<1> HIDE DEF off
<1>8. ASSUME NEW o \in Offset, o \notin suspect'[t]
      PROVE  disc'[t][o] = file'[t][o]
  <2>1. o \notin suspect[t] /\ o \notin Touched(off, buf)
    BY <1>1, <1>4, <1>5, <1>8
  <2>2. o \notin Touched(off, SubSeq(buf, 1, k))
    BY <1>1, <1>2, <2>1, TouchedPart
  <2>3. disc[t][o] = file[t][o]
    BY <1>1, <1>4, <2>1 DEF ImageMatchesFile
  <2>4. disc[t][o] \in Byte
    BY <1>7 DEF Image
  <2>5. file[t][o] # NoByte
    BY <2>3, <2>4, Constants
  <2>6. FileAfter(file[t], off, SubSeq(buf, 1, k))[o] = file[t][o]
    BY <1>2, <1>6, <1>7, <2>2, <2>5, FileAfterKeeps
  <2> QED
    BY <1>1, <1>3, <1>4, <1>5, <2>3, <2>6
<1>9. ASSUME NEW d \in Drive, d # t
      PROVE  disc'[d] = disc[d] /\ file'[d] = file[d] /\ suspect'[d] = suspect[d]
  BY <1>1, <1>3, <1>4, <1>5, <1>9
<1> QED
  BY <1>4, <1>7, <1>8, <1>9 DEF ImageMatchesFile

LEMMA InsertMatches ==
  ASSUME IInv, ImageMatchesFile, NEW d \in Drive,
         \/ \E f \in HostFile : Insert(d, f)
         \/ InsertFails(d)
         \/ \E m \in StaticImage : InsertBytes(d, m)
         \/ Eject(d)
  PROVE  ImageMatchesFile'
<1>1. /\ disc \in [Drive -> Image \cup {NoDisc}]
      /\ file \in [Drive -> File \cup {NoFile}]
      /\ suspect \in [Drive -> SUBSET Offset]
  BY DEF IInv, TypeOK
<1>2. CASE \E f \in HostFile : Insert(d, f)
  <2>1. PICK f \in HostFile : Insert(d, f)
    BY <1>2
  <2>2. PICK h \in [Offset -> Heap] :
          disc' = [disc EXCEPT ![d] = ImageOf(f, h)]
    BY <2>1 DEF Insert
  <2>3. /\ file' = [file EXCEPT ![d] = f]
        /\ suspect' = [suspect EXCEPT ![d] = {o \in Offset : f[o] = NoByte}]
    BY <2>1 DEF Insert
  <2>4. f \in File /\ Heap \subseteq Byte
    BY BytesAssumption
  <2>5. ImageOf(f, h) \in Image
    BY <2>4 DEF ImageOf, Image, File
  <2>6. ImageOf(f, h) # NoDisc
    BY <2>5, Constants
  <2>7. \A o \in Offset : f[o] # NoByte => ImageOf(f, h)[o] = f[o]
    BY DEF ImageOf
  <2> QED
    BY <1>1, <2>2, <2>3, <2>6, <2>7 DEF ImageMatchesFile
<1>3. CASE InsertFails(d) \/ \E m \in StaticImage : InsertBytes(d, m)
  <2>1. file' = file /\ suspect' = suspect /\ file[d] = NoFile
    BY <1>3 DEF InsertFails, InsertBytes, DriveEmpty
  <2>2. \A e \in Drive : e # d => disc'[e] = disc[e]
    BY <1>1, <1>3 DEF InsertFails, InsertBytes
  <2> QED
    BY <2>1, <2>2 DEF ImageMatchesFile
<1>4. CASE Eject(d)
  BY <1>1, <1>4 DEF Eject, ImageMatchesFile
<1> QED
  BY <1>2, <1>3, <1>4

\* With no fault in fflush, what a caller was told is on the disc is in the
\* image and in the file alike, whatever other stdio calls fail.
THEOREM ImageCorrect ==
  ASSUME "fflush" \notin Fault
  PROVE  Spec => []ImageMatchesFile
<1> DEFINE Inv == IInv /\ ImageMatchesFile
<1>1. Init => Inv
  BY InitIInv DEF Init, ImageMatchesFile
<1>2. Inv /\ [Next]_vars => Inv'
  <2> SUFFICES ASSUME IInv, ImageMatchesFile, [Next]_vars PROVE ImageMatchesFile'
    BY NextIInv
  <2>1. CASE UNCHANGED <<disc, file, suspect>>
    BY <2>1 DEF ImageMatchesFile
  <2>2. CASE DrivesChange
    BY <2>2, InsertMatches DEF DrivesChange
  <2>3. CASE Write
    <3>1. state = "WRITING" /\ UNCHANGED target /\ disc[target.drive] # NoDisc
      BY <2>3 DEF Write
    <3>2. ~WriteNotFlushed(buf)
      BY DEF WriteNotFlushed, FileFails
    <3> QED
      BY <2>3, <3>1, <3>2, WrittenMatches, RefusedMatches DEF Write, WriteChars
  <2>4. ASSUME NEW c \in Incoming, Putc(c)
        PROVE  Write \/ UNCHANGED <<disc, file, suspect>>
    BY <2>4 DEF Putc, PutOverflow, PutChar, PutEOT, RunCommand, WriteUndefined, drives
  <2>5. Getc => UNCHANGED <<disc, file, suspect>>
    BY DEF Getc, drives
  <2> QED
    BY <2>1, <2>2, <2>3, <2>4, <2>5 DEF Next, vars
<1>3. Inv => ImageMatchesFile
  OBVIOUS
<1> QED
  BY <1>1, <1>2, <1>3, PTL DEF Spec

-----------------------------------------------------------------------------
(* The history of PersciCallers.  While the process runs, the characters   *)
(* put since the last EOT are those of the buffer, and from the answer to  *)
(* an O command to its write the controller keeps the place it named.      *)

HistoryInv ==
  status = "running" =>
    /\ Accepting => sent = Len(buf)
    /\ Responding => sent = 0
    /\ state \in {"OUTPUT", "WRITING"} =>
         /\ named.drive = target.drive /\ named.sector = target.sector
         /\ named.writable => file[target.drive] # NoFile

\* What a step of a caller is, without the history.
LEMMA CallersStep == CallersNext => Next
BY DEF CallersNext, Next

\* An EOT after a command is answered, and the place of an O is kept.
LEMMA CommandNamed ==
  ASSUME IInv, RunCommand, named' = NamedAfter(EOT)
  PROVE  /\ state' \in {"INPUT", "OUTPUT", "ERROR"} /\ UNCHANGED <<disc, file>>
         /\ state' = "OUTPUT" =>
              /\ named'.drive = target'.drive /\ named'.sector = target'.sector
              /\ named'.writable => file'[target'.drive] # NoFile
<1>1. state' \in {"INPUT", "OUTPUT", "ERROR"} /\ UNCHANGED <<disc, file>>
  BY DEF RunCommand, Rejected, Input, Output, Error, Respond, drives
<1>2. ASSUME state' = "OUTPUT"
      PROVE  /\ named'.drive = target'.drive /\ named'.sector = target'.sector
             /\ named'.writable => file'[target'.drive] # NoFile
  <2>1. state = "IDLE" /\ IsCommand(buf) /\ Output(buf[1])
    BY <1>2 DEF RunCommand, Rejected, Input, Error, Respond
  <2>2. /\ buf[1].op = "O"
        /\ target' = [drive |-> buf[1].drive, sector |-> buf[1].sector]
    BY <2>1 DEF Output
  <2>3. named' = PlaceOf(buf[1])
    BY <2>1, <2>2 DEF NamedAfter
  <2>4. /\ named'.drive = buf[1].drive /\ named'.sector = buf[1].sector
        /\ named'.writable = (buf[1].drive \in Drive /\ file[buf[1].drive] # NoFile)
    BY <2>3 DEF PlaceOf
  <2>5. target'.drive = buf[1].drive /\ target'.sector = buf[1].sector
    BY <2>2
  <2>6. file' = file
    BY <1>1
  <2>7. named'.writable => file'[target'.drive] # NoFile
    <3> DEFINE w == named'.writable
    <3>1. w = (buf[1].drive \in Drive /\ file[buf[1].drive] # NoFile)
      BY <2>4
    <3> HIDE DEF w
    <3>2. w => file[buf[1].drive] # NoFile
      BY <3>1
    <3> QED
      BY <2>5, <2>6, <3>2 DEF w
  <2> QED
    BY <2>4, <2>5, <2>7
<1> QED
  BY <1>1, <1>2

\* A write is answered.
LEMMA WriteAnswered ==
  ASSUME Write
  PROVE  state' \in {"WRITTEN", "ERROR"}
BY DEF Write, WriteChars, WriteRefused, WriteNotFlushed, Written, Acknowledge,
       Error, Respond

LEMMA HistoryStep ==
  ASSUME IInv, HistoryInv, [CallersNext]_callersVars
  PROVE  HistoryInv'
<1> SUFFICES ASSUME status' = "running" PROVE HistoryInv'
  BY DEF HistoryInv
<1>1. CASE DrivesChange /\ UNCHANGED history
  <2>1. state = "IDLE" /\ UNCHANGED <<state, buf, status, sent>>
    BY <1>1 DEF DrivesChange, Insert, InsertFails, InsertBytes, Eject,
                BetweenTransfers, history
  <2> QED
    BY <2>1 DEF HistoryInv, Accepting, Responding
<1>2. ASSUME NEW c \in Incoming, Putc(c), named' = NamedAfter(c), sent' = SentAfter(c)
      PROVE  HistoryInv'
  <2>1. status = "running" /\ Accepting /\ sent = Len(buf) /\ buf \in Seq(Byte)
    BY <1>2 DEF Putc, HistoryInv, IInv, TypeOK
  <2>2. CASE PutOverflow \/ WriteUndefined
    BY <2>2 DEF PutOverflow, WriteUndefined
  <2>3. CASE PutChar(c)
    <3>1. /\ c # EOT /\ c \in Byte /\ buf' = Append(buf, c)
          /\ UNCHANGED <<state, target, file, status>>
      BY <1>2, <2>3, Constants DEF PutChar, Incoming, drives
    <3>2. sent' = sent + 1 /\ named' = named
      BY <1>2, <3>1 DEF SentAfter, NamedAfter
    <3>3. Len(buf') = Len(buf) + 1
      BY <2>1, <3>1, AppendProperties
    <3>4. ~Responding'
      BY <2>1, <3>1 DEF Accepting, Responding
    <3> QED
      BY <2>1, <3>1, <3>2, <3>3, <3>4 DEF HistoryInv
  <2>4. CASE c = EOT /\ (RunCommand \/ Write)
    <3>1. sent' = 0 /\ named' = NamedAfter(EOT)
      BY <1>2, <2>4 DEF SentAfter
    <3>2. CASE RunCommand
      BY <3>1, <3>2, CommandNamed DEF HistoryInv, Accepting
    <3>3. CASE Write
      BY <3>1, <3>3, WriteAnswered DEF HistoryInv, Accepting
    <3> QED
      BY <2>4, <3>2, <3>3
  <2> QED
    BY <1>2, <2>2, <2>3, <2>4 DEF Putc, PutEOT
<1>3. CASE Getc /\ UNCHANGED history
  <2>1. /\ status = "running" /\ Responding /\ sent = 0
        /\ UNCHANGED <<named, sent, target, file, status>>
    BY <1>3 DEF Getc, history, drives, HistoryInv
  <2>2. \/ UNCHANGED <<state, buf>>
        \/ /\ buf' = <<>> /\ state' \in {"WRITING", "IDLE"}
           /\ state' = "WRITING" => state = "OUTPUT"
    BY <1>3 DEF Getc
  <2>3. CASE UNCHANGED <<state, buf>>
    BY <2>1, <2>3 DEF HistoryInv, Accepting, Responding
  <2>4. CASE /\ buf' = <<>> /\ state' \in {"WRITING", "IDLE"}
             /\ state' = "WRITING" => state = "OUTPUT"
    BY <2>1, <2>4 DEF HistoryInv, Responding
  <2> QED
    BY <2>2, <2>3, <2>4
<1>4. CASE UNCHANGED callersVars
  BY <1>4 DEF callersVars, history, vars, HistoryInv, Accepting, Responding
<1> QED
  BY <1>1, <1>2, <1>3, <1>4 DEF CallersNext

LEMMA CallersInvariant == CallersSpec => [](IInv /\ HistoryInv)
<1>1. CallersInit => IInv /\ HistoryInv
  BY InitIInv DEF CallersInit, Init, HistoryInv, Accepting, Responding
<1>2. IInv /\ HistoryInv /\ [CallersNext]_callersVars => IInv' /\ HistoryInv'
  <2>1. [CallersNext]_callersVars => [Next]_vars
    BY CallersStep DEF callersVars
  <2> QED
    BY <2>1, NextIInv, HistoryStep
<1> QED
  BY <1>1, <1>2, PTL DEF CallersSpec

-----------------------------------------------------------------------------
(* What stops the process.                                                 *)

\* A frame that fits a sector ends on the disc, wherever the sector is.
LEMMA FrameFits ==
  ASSUME TypeOK, NEW chars \in Seq(Byte), Len(chars) <= SectorLen
  PROVE  FitsDisc(chars)
<1>1. target.sector \in 0 .. NSector - 1
  BY DEF TypeOK
<1>2. /\ NSector \in Nat /\ SectorLen \in Nat /\ target.sector \in Nat
      /\ Len(chars) \in Nat
  BY <1>1, Constants, LenProperties
<1>3. (target.sector + 1) * SectorLen <= NSector * SectorLen
  BY <1>1, <1>2
<1>4. (target.sector + 1) * SectorLen = target.sector * SectorLen + SectorLen
  BY <1>2
<1>5. target.sector * SectorLen \in Nat /\ NSector * SectorLen \in Nat
  BY <1>2
<1> QED
  BY <1>2, <1>3, <1>4, <1>5 DEF FitsDisc, SectorOffset

\* The status changes when the buffer is full or the write is undefined.
LEMMA StatusStep ==
  ASSUME [Next]_vars
  PROVE  \/ status' = status
         \/ status = "running" /\ Accepting /\ status' = "exited" /\ Len(buf) >= BufSize
         \/ status = "running" /\ Accepting /\ status' = "undefined" /\ WriteUndefined
<1>1. CASE DrivesChange
  BY <1>1 DEF DrivesChange, Insert, InsertFails, InsertBytes, Eject
<1>2. ASSUME NEW c \in Incoming, Putc(c)
      PROVE  \/ status' = status
             \/ /\ status = "running" /\ Accepting /\ status' = "exited"
                /\ Len(buf) >= BufSize
             \/ /\ status = "running" /\ Accepting /\ status' = "undefined"
                /\ WriteUndefined
  BY <1>2 DEF Putc, PutOverflow, PutChar, PutEOT, RunCommand, Write, WriteUndefined
<1>3. CASE Getc
  BY <1>3 DEF Getc
<1>4. CASE UNCHANGED vars
  BY <1>4 DEF vars
<1> QED
  BY <1>1, <1>2, <1>3, <1>4 DEF Next

\* Whatever callers put, in whatever order, and whatever stdio calls fail, the
\* controller exits only when its caller has put as many characters as the
\* buffer holds since its last EOT, and does nothing undefined but for a caller
\* that has put more than a sector, or that asked to write to a drive without a
\* file: the constant image of main.c can be read and never be written to.
THEOREM StraysAloneStop == CallersSpec => StopsOnlyForStrays
<1> DEFINE Stops ==
             /\ status' = "exited" => status = "exited" \/ sent >= BufSize
             /\ status' = "undefined" =>
                  status = "undefined" \/ sent > SectorLen \/ ~named.writable
<1>1. IInv /\ HistoryInv /\ [CallersNext]_callersVars => Stops
  <2> SUFFICES ASSUME IInv, HistoryInv, [CallersNext]_callersVars PROVE Stops
    OBVIOUS
  <2>1. [Next]_vars
    BY CallersStep DEF callersVars
  <2>2. CASE status' = status
    BY <2>2
  <2>3. CASE /\ status = "running" /\ Accepting /\ status' = "exited"
             /\ Len(buf) >= BufSize
    BY <2>3 DEF HistoryInv
  <2>4. CASE /\ status = "running" /\ Accepting /\ status' = "undefined"
             /\ WriteUndefined
    <3>1. state = "WRITING" /\ sent = Len(buf) /\ TargetPresent
      BY <2>4 DEF WriteUndefined, HistoryInv, IInv
    <3>2. ~FitsDisc(buf) \/ file[target.drive] = NoFile
      BY <2>4, <3>1 DEF WriteUndefined, TargetPresent
    <3>3. TypeOK /\ buf \in Seq(Byte) /\ Len(buf) \in Nat /\ SectorLen \in Nat
      BY Constants, LenProperties DEF IInv, TypeOK
    <3>4. ~FitsDisc(buf) => sent > SectorLen
      BY <3>1, <3>3, FrameFits
    <3>5. file[target.drive] = NoFile => ~named.writable
      BY <2>4, <3>1 DEF HistoryInv
    <3> QED
      BY <2>4, <3>2, <3>4, <3>5
  <2> QED
    BY <2>1, <2>2, <2>3, <2>4, StatusStep
<1>2. IInv /\ HistoryInv /\ [CallersNext]_callersVars => [Stops]_callersVars
  BY <1>1
<1> HIDE DEF Stops
<1> QED
  BY <1>2, CallersInvariant, PTL DEF CallersSpec, StopsOnlyForStrays, Stops

-----------------------------------------------------------------------------
(* Where a write goes.                                                     *)

\* Outside the characters written, a file keeps its bytes or has its gap filled.
LEMMA FileAfterOutside ==
  ASSUME NEW f \in File, NEW off, NEW chars, NEW o \in Offset, o \notin Touched(off, chars)
  PROVE  \/ FileAfter(f, off, chars)[o] = f[o]
         \/ o < off /\ f[o] = NoByte /\ FileAfter(f, off, chars)[o] = Zero
BY DEF FileAfter, Touched

\* A write overwrites the image with as many characters as are in the buffer,
\* and the file with some of them.
LEMMA WriteEffect ==
  ASSUME IInv, Write
  PROVE  LET t   == target.drive
             off == SectorOffset(target.sector)
         IN  /\ \/ disc' = disc
                \/ \E chars \in Seq(Byte) :
                     /\ Len(chars) = Len(buf)
                     /\ disc' = [disc EXCEPT ![t] = Overwrite(@, off, chars)]
             /\ \/ file' = file
                \/ /\ file[t] # NoFile
                   /\ \E k \in 0 .. Len(buf) :
                        file' = [file EXCEPT ![t] = FileAfter(@, off, SubSeq(buf, 1, k))]
<1> DEFINE t == target.drive
           off == SectorOffset(target.sector)
<1>1. buf \in Seq(Byte)
  BY DEF IInv, TypeOK
<1>2. \/ disc' = disc
      \/ \E chars \in Seq(Byte) :
           /\ Len(chars) = Len(buf)
           /\ disc' = [disc EXCEPT ![t] = Overwrite(@, off, chars)]
  <2> DEFINE shown == Overlaid(buf, ErrorText(HardDiskError))
  <2>1. shown \in Seq(Byte) /\ Len(shown) = Len(buf)
    BY <1>1, OverlaidType DEF Message
  <2>2. disc' = disc \/ MemoryWritten(shown) \/ MemoryWritten(buf)
    BY DEF Write, WriteChars, WriteRefused, WriteNotFlushed, Written
  <2> HIDE DEF shown
  <2> QED
    BY <1>1, <2>1, <2>2 DEF MemoryWritten
<1>3. \/ file' = file
      \/ /\ file[t] # NoFile
         /\ \E k \in 0 .. Len(buf) :
              file' = [file EXCEPT ![t] = FileAfter(@, off, SubSeq(buf, 1, k))]
  <2>1. CASE \E fault \in Fault \cup {"fflush"} : FileFails(fault, buf)
    BY <2>1 DEF FileFails
  <2>2. CASE FileWritten(buf) /\ file[t] # NoFile
    <3>1. SubSeq(buf, 1, Len(buf)) = buf /\ Len(buf) \in 0 .. Len(buf)
      BY <1>1, SubSeqFull, LenProperties
    <3>2. file' = [file EXCEPT ![t] = FileAfter(@, off, buf)]
      BY <2>2 DEF FileWritten
    <3> DEFINE n == Len(buf)
    <3>3. file' = [file EXCEPT ![t] = FileAfter(@, off, SubSeq(buf, 1, n))]
      BY <3>1, <3>2
    <3> HIDE DEF n
    <3>4. n \in 0 .. Len(buf)
      BY <3>1 DEF n
    <3> QED
      BY <2>2, <3>3, <3>4
  <2>3. CASE FileWritten(buf) /\ file[t] = NoFile
    BY <2>3 DEF FileWritten
  <2> QED
    BY <2>1, <2>2, <2>3 DEF Write, WriteChars, WriteRefused, WriteNotFlushed, Written
<1> QED
  BY <1>2, <1>3

\* While a transfer is under way no drive changes but the one that the last O
\* command named, and in its image and its file only bytes from the sector it
\* named on, as many as its caller has put since, and the gap before them, for
\* every caller and whichever stdio calls fail.
THEOREM WritesStayInSector == CallersSpec => WriteStaysInSector
<1> DEFINE Stays(d) ==
             /\ d # named.drive => disc'[d] = disc[d] /\ file'[d] = file[d]
             /\ d = named.drive => \A o \in Offset \ NamedOffsets :
                  /\ disc[d] # NoDisc => disc'[d][o] = disc[d][o]
                  /\ file[d] # NoFile => KeptOrFilled(file[d][o], file'[d][o], o)
<1>1. ASSUME IInv, HistoryInv, [CallersNext]_callersVars,
             buf # <<>> \/ state # "IDLE", NEW d \in Drive
      PROVE  Stays(d)
  <2>1. CASE UNCHANGED <<disc, file>>
    BY <2>1 DEF KeptOrFilled
  <2>2. CASE Write /\ status = "running"
    <3> DEFINE t == target.drive
               off == SectorOffset(target.sector)
    <3>1. /\ t \in Drive /\ buf \in Seq(Byte)
          /\ disc \in [Drive -> Image \cup {NoDisc}] /\ file \in [Drive -> File \cup {NoFile}]
          /\ disc[t] # NoDisc /\ target.sector \in 0 .. NSector - 1
      BY <1>1, <2>2 DEF IInv, TypeOK, Write
    <3>2. off \in Nat
      BY <3>1, SectorOffsetType
    <3>3. named.drive = t /\ named.sector = target.sector /\ sent = Len(buf)
      BY <1>1, <2>2 DEF HistoryInv, Write, Accepting
    <3>4. Touched(off, buf) = NamedOffsets /\ SectorOffset(named.sector) = off
      BY <3>3 DEF Touched, NamedOffsets
    <3>5. \/ disc' = disc
          \/ \E chars \in Seq(Byte) :
               /\ Len(chars) = Len(buf)
               /\ disc' = [disc EXCEPT ![t] = Overwrite(@, off, chars)]
      BY <1>1, <2>2, WriteEffect
    <3>6. \/ file' = file
          \/ /\ file[t] # NoFile
             /\ \E k \in 0 .. Len(buf) :
                  file' = [file EXCEPT ![t] = FileAfter(@, off, SubSeq(buf, 1, k))]
      BY <1>1, <2>2, WriteEffect
    <3> HIDE DEF off, t
    <3>7. ASSUME d # t PROVE disc'[d] = disc[d] /\ file'[d] = file[d]
      BY <3>1, <3>5, <3>6, <3>7
    <3>8. ASSUME NEW o \in Offset \ NamedOffsets, disc[t] # NoDisc
          PROVE  disc'[t][o] = disc[t][o]
      <4>1. CASE disc' = disc
        BY <4>1
      <4>2. ASSUME NEW chars \in Seq(Byte), Len(chars) = Len(buf),
                   disc' = [disc EXCEPT ![t] = Overwrite(@, off, chars)]
            PROVE  disc'[t][o] = disc[t][o]
        <5>1. o \notin off .. off + Len(chars) - 1
          BY <3>4, <3>8, <4>2 DEF Touched
        <5> QED
          BY <3>1, <4>2, <5>1 DEF Overwrite
      <4> QED
        BY <3>5, <4>1, <4>2
    <3>9. ASSUME NEW o \in Offset \ NamedOffsets, file[t] # NoFile
          PROVE  KeptOrFilled(file[t][o], file'[t][o], o)
      <4>1. CASE file' = file
        BY <4>1 DEF KeptOrFilled
      <4>2. ASSUME NEW k \in 0 .. Len(buf),
                   file' = [file EXCEPT ![t] = FileAfter(@, off, SubSeq(buf, 1, k))]
            PROVE  KeptOrFilled(file[t][o], file'[t][o], o)
        <5>1. o \notin Touched(off, SubSeq(buf, 1, k))
          BY <3>1, <3>2, <3>4, <3>9, TouchedPart
        <5>2. file[t] \in File /\ file'[t] = FileAfter(file[t], off, SubSeq(buf, 1, k))
          BY <3>1, <3>9, <4>2
        <5> QED
          BY <3>4, <5>1, <5>2, FileAfterOutside DEF KeptOrFilled
      <4> QED
        BY <3>6, <4>1, <4>2
    <3> QED
      BY <3>3, <3>7, <3>8, <3>9
  <2>3. ASSUME NEW c \in Incoming, Putc(c)
        PROVE  (Write /\ status = "running") \/ UNCHANGED <<disc, file>>
    BY <2>3 DEF Putc, PutOverflow, PutChar, PutEOT, RunCommand, WriteUndefined, drives
  <2>4. ~DrivesChange
    BY <1>1 DEF DrivesChange, Insert, InsertFails, InsertBytes, Eject, BetweenTransfers
  <2>5. Getc \/ UNCHANGED callersVars => UNCHANGED <<disc, file>>
    BY DEF Getc, drives, callersVars, vars
  <2> QED
    BY <1>1, <2>1, <2>2, <2>3, <2>4, <2>5 DEF CallersNext
<1>2. IInv /\ HistoryInv /\ [CallersNext]_callersVars =>
        [buf # <<>> \/ state # "IDLE" => \A d \in Drive : Stays(d)]_callersVars
  BY <1>1
<1> HIDE DEF Stays
<1> QED
  BY <1>2, CallersInvariant, PTL DEF CallersSpec, WriteStaysInSector, Stays

=============================================================================
