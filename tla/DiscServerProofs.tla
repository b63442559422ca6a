-------------------------- MODULE DiscServerProofs --------------------------
(***************************************************************************)
(* DiscServer implements Conversation: the pipe and the line before the    *)
(* controller are one queue, and so are the line and the pipe after it.    *)
(* So the server loses no character, and is a device of blocks, whatever   *)
(* the sizes of pipes and line, with anything that may end it: for blocks  *)
(* that hold no EOT and, where char is signed, no 0xFF.                    *)
(***************************************************************************)
EXTENDS DiscServer, SequenceTheorems, TLAPS

\* What R/W has sent and the controller not taken, and the other way.
Up   == in.q \o toServer
Down == toHost \o out.q

Barred == {EOT} \cup (IF CharSigned THEN {MinusOne} ELSE {})

Talk == INSTANCE ConversationProofs WITH up <- Up, down <- Down, Barred <- Barred

\* No file or block holds a byte that does not come through, nor the memory an
\* image is read into, and fflush does not fail: its message, that goes to the
\* image, ends in an EOT.
TextOnly ==
  /\ \A f \in HostFile : \A o \in Ctl!Offset : f[o] \notin Barred
  /\ \A w \in HostBlock : \A i \in 1 .. SectorLen : w[i] \notin Barred
  /\ Heap \cap Barred = {}
  /\ "fflush" \notin Fault

-----------------------------------------------------------------------------
(* The controller and the driver are those of Conversation.                *)

LEMMA SameBytes ==
  /\ Talk!Ctl!Byte = Ctl!Byte /\ Talk!Ctl!Command = Ctl!Command
  /\ Talk!Ctl!Message = Ctl!Message /\ Talk!Ctl!Offset = Ctl!Offset
  /\ Talk!Ctl!Image = Ctl!Image /\ Talk!Ctl!File = Ctl!File /\ Talk!Ctl!Drive = Ctl!Drive
<1>1. /\ Talk!Ctl!Command = Ctl!Command /\ Talk!Ctl!Message = Ctl!Message
      /\ Talk!Ctl!Offset = Ctl!Offset /\ Talk!Ctl!Drive = Ctl!Drive
      /\ Talk!Ctl!Control = Ctl!Control
  BY Zenon DEF Talk!Ctl!Command, Ctl!Command, Talk!Ctl!Message, Ctl!Message,
       Talk!Ctl!Offset, Ctl!Offset, Talk!Ctl!Drive, Ctl!Drive, Talk!Ctl!Control, Ctl!Control
<1>2. Talk!Ctl!Byte = Ctl!Byte
  BY <1>1, Zenon DEF Talk!Ctl!Byte, Ctl!Byte
<1> QED
  BY <1>1, <1>2, Zenon DEF Talk!Ctl!Image, Ctl!Image, Talk!Ctl!File, Ctl!File

LEMMA SameInit == (Talk!Ctl!Init <=> Ctl!Init) /\ (Talk!HostInit <=> HostInit)
BY SameBytes, Zenon DEF Talk!Ctl!Init, Ctl!Init, Talk!HostInit, HostInit

LEMMA SameInsert ==
  ASSUME NEW d, NEW f
  PROVE  (Talk!Ctl!Insert(d, f) <=> Ctl!Insert(d, f))
           /\ (Talk!Ctl!InsertFails(d) <=> Ctl!InsertFails(d))
BY SameBytes, Zenon
  DEF Talk!Ctl!Insert, Ctl!Insert, Talk!Ctl!InsertFails, Ctl!InsertFails,
      Talk!Ctl!BetweenTransfers, Ctl!BetweenTransfers, Talk!Ctl!DriveEmpty, Ctl!DriveEmpty,
      Talk!Ctl!ImageOf, Ctl!ImageOf

LEMMA SamePutc == ASSUME NEW c PROVE Talk!Ctl!Putc(c) <=> Ctl!Putc(c)
<1>1. ASSUME NEW chars
      PROVE  Talk!Ctl!WriteChars(chars) <=> Ctl!WriteChars(chars)
  BY SameBytes, Zenon
    DEF Talk!Ctl!WriteChars, Talk!Ctl!WriteRefused, Talk!Ctl!WriteNotFlushed,
        Talk!Ctl!Overlaid, Talk!Ctl!Written, Talk!Ctl!FitsDisc, Talk!Ctl!FileFails, Talk!Ctl!FileAfter,
        Talk!Ctl!FileWritten,
        Talk!Ctl!MemoryWritten, Talk!Ctl!Overwrite, Talk!Ctl!Acknowledge, Talk!Ctl!Touched,
        Talk!Ctl!SectorOffset, Talk!Ctl!Error, Talk!Ctl!ErrorText, Talk!Ctl!Respond,
        Ctl!WriteChars, Ctl!WriteRefused, Ctl!WriteNotFlushed, Ctl!Overlaid,
        Ctl!Written, Ctl!FitsDisc, Ctl!FileFails, Ctl!FileAfter, Ctl!FileWritten,
        Ctl!MemoryWritten, Ctl!Overwrite,
        Ctl!Acknowledge, Ctl!Touched, Ctl!SectorOffset, Ctl!Error, Ctl!ErrorText, Ctl!Respond
<1>2. Talk!Ctl!RunCommand <=> Ctl!RunCommand
  BY SameBytes, Zenon
    DEF Talk!Ctl!RunCommand, Talk!Ctl!IsCommand, Talk!Ctl!Rejected, Talk!Ctl!Input,
        Talk!Ctl!Output, Talk!Ctl!Valid, Talk!Ctl!Error, Talk!Ctl!ErrorText,
        Talk!Ctl!Respond, Talk!Ctl!SectorOf, Talk!Ctl!SectorOffset, Talk!Ctl!drives,
        Ctl!RunCommand, Ctl!IsCommand, Ctl!Rejected, Ctl!Input, Ctl!Output, Ctl!Valid,
        Ctl!Error, Ctl!ErrorText, Ctl!Respond, Ctl!SectorOf, Ctl!SectorOffset, Ctl!drives
<1>3. Talk!Ctl!WriteUndefined <=> Ctl!WriteUndefined
  BY Zenon
    DEF Talk!Ctl!WriteUndefined, Talk!Ctl!FitsDisc, Talk!Ctl!SectorOffset, Talk!Ctl!drives,
        Ctl!WriteUndefined, Ctl!FitsDisc, Ctl!SectorOffset, Ctl!drives
<1> QED
  BY <1>1, <1>2, <1>3, Zenon
    DEF Talk!Ctl!Putc, Talk!Ctl!Accepting, Talk!Ctl!PutOverflow, Talk!Ctl!PutChar,
        Talk!Ctl!PutEOT, Talk!Ctl!Write, Talk!Ctl!drives,
        Ctl!Putc, Ctl!Accepting, Ctl!PutOverflow, Ctl!PutChar, Ctl!PutEOT, Ctl!Write, Ctl!drives

LEMMA SameGetc == (Talk!Ctl!Getc <=> Ctl!Getc) /\ Talk!Ctl!GetChar = Ctl!GetChar
BY Zenon DEF Talk!Ctl!Getc, Ctl!Getc, Talk!Ctl!GetChar, Ctl!GetChar,
     Talk!Ctl!Responding, Ctl!Responding, Talk!Ctl!drives, Ctl!drives

LEMMA SameHost ==
  /\ Talk!HostAsk <=> HostAsk
  /\ Talk!HostSent <=> HostSent
  /\ Talk!NextChar = NextChar
  /\ \A c : Talk!HostReceived(c) <=> HostReceived(c)
<1>1. Talk!HostAsk <=> HostAsk
  BY Zenon DEF Talk!HostAsk, HostAsk, Talk!HostRequest, HostRequest
<1>2. Talk!HostSent <=> HostSent
  BY Zenon DEF Talk!HostSent, HostSent, Talk!Sending, Sending
<1>3. Talk!NextChar = NextChar
  BY Zenon DEF Talk!NextChar, NextChar, Talk!CommandText, CommandText
<1>4. \A c : Talk!HostReceived(c) <=> HostReceived(c)
  BY Zenon DEF Talk!HostReceived, HostReceived, Talk!TakeReply, TakeReply, Talk!TakeRest,
       TakeRest, Talk!TakeData, TakeData, Talk!TakeMessage, TakeMessage, Talk!DiscReturns,
       DiscReturns
<1> QED
  BY <1>1, <1>2, <1>3, <1>4

LEMMA SameDevice ==
  /\ Talk!Device!Init <=> Device!Init
  /\ [Talk!Device!Next]_(Talk!Device!vars) <=> [Device!Next]_(Device!vars)
<1> DEFINE There == [p \in Talk!Place |-> Talk!StoredAt(p)]
           Here == [p \in Place |-> StoredAt(p)]
<1>1. There = Here /\ There' = Here'
  BY Zenon DEF Talk!Place, Place, Talk!StoredAt, StoredAt,
       Talk!Ctl!SectorOf, Ctl!SectorOf, Talk!Ctl!SectorOffset, Ctl!SectorOffset
<1>2. /\ Talk!Phase(stored) = Phase(stored) /\ Talk!Phase(stored)' = Phase(stored)'
      /\ Talk!Answer = Answer /\ Talk!Answer' = Answer'
  BY Zenon DEF Talk!Phase, Phase, Talk!Answer, Answer
<1>3. Talk!Place = Place
  BY Zenon DEF Talk!Place, Place
<1>4. Talk!Device!Init <=> Device!Init
  BY <1>1, <1>2, <1>3, Zenon DEF Talk!Device!Init, Device!Init, Talk!Device!NoAnswer, Device!NoAnswer
<1>5. Talk!Device!Mount <=> Device!Mount
  BY <1>1, <1>2, <1>3, Zenon
  DEF Talk!Device!Mount, Device!Mount
<1>6. Talk!Device!Unmount <=> Device!Unmount
  BY <1>1, <1>2, <1>3, Zenon
  DEF Talk!Device!Unmount, Device!Unmount
<1>7. Talk!Device!Ask <=> Device!Ask
  BY <1>1, <1>2, <1>3, Zenon
  DEF Talk!Device!Ask, Device!Ask,
       Talk!Device!Request, Device!Request, Talk!Device!NoAnswer, Device!NoAnswer
<1>8. Talk!Device!Store <=> Device!Store
  BY <1>1, <1>2, <1>3, Zenon
  DEF Talk!Device!Store, Device!Store
<1>9. Talk!Device!AnswerWrite <=> Device!AnswerWrite
  BY <1>1, <1>2, <1>3, Zenon
  DEF Talk!Device!AnswerWrite, Device!AnswerWrite,
       Talk!Device!Ok, Device!Ok
<1>10. Talk!Device!AnswerRead <=> Device!AnswerRead
  BY <1>1, <1>2, <1>3, Zenon
  DEF Talk!Device!AnswerRead, Device!AnswerRead,
       Talk!Device!Ok, Device!Ok
<1>11. Talk!Device!Refuse <=> Device!Refuse
  BY <1>1, <1>2, <1>3, Zenon
  DEF Talk!Device!Refuse, Device!Refuse,
       Talk!Device!Refusal, Device!Refusal
<1>12. Talk!Device!vars = Device!vars /\ Talk!Device!vars' = Device!vars'
  BY <1>1, <1>2, Zenon DEF Talk!Device!vars, Device!vars
<1>13. Talk!Device!Next <=> Device!Next
  BY <1>5, <1>6, <1>7, <1>8, <1>9, <1>10, <1>11, Zenon DEF Talk!Device!Next, Device!Next
<1> QED
  BY <1>4, <1>12, <1>13

-----------------------------------------------------------------------------
(* What the proofs need of the bytes.                                      *)

LEMMA Allowed ==
  /\ Talk!Lawful /\ (TextOnly => Talk!TextOnly)
  /\ WireSize \in Nat
  /\ \A c \in Talk!Passing : ~LooksLikeFailure(c)
<1>1. /\ EOT \in Barred
      /\ (Ctl!Command \cup Ctl!Message \cup {SOH, ACK, NAK, ENQ}) \cap Barred = {}
  BY BytesAssumption DEF Barred
<1>2. Talk!Place = Place
  BY Zenon DEF Talk!Place, Place
<1>3. Talk!Lawful
  BY <1>1, <1>2, SameBytes, SizesAssumption, BytesAssumption, HostAssumption DEF Talk!Lawful
<1>4. TextOnly => Talk!TextOnly
  BY SameBytes DEF TextOnly, Talk!TextOnly
<1>5. \A c \in Talk!Passing : ~LooksLikeFailure(c)
  BY BytesAssumption DEF Talk!Passing, Talk!Plain, Barred, LooksLikeFailure
<1> QED
  BY <1>3, <1>4, <1>5, SizesAssumption

-----------------------------------------------------------------------------
(* The invariant.                                                          *)

\* Nothing goes to the host before the discs are in.
Queued ==
  /\ in.q \in Seq(Ctl!Byte) /\ toServer \in Seq(Ctl!Byte)
  /\ out.q \in Seq(Ctl!Byte) /\ toHost \in Seq(Ctl!Byte)
  /\ pc = "insert" => toHost = <<>> /\ out.q = <<>>

SInv == Queued /\ Talk!IInv /\ NothingDropped

\* What a step of the server has to be.
Relays == Queued' /\ NothingDropped' /\ [Talk!Next]_(Talk!vars)

LEMMA InitSInv == Init => SInv /\ Talk!Init
<1> SUFFICES ASSUME Init PROVE SInv /\ Talk!Init
  OBVIOUS
<1>1. in.q = <<>> /\ out.q = <<>> /\ toServer = <<>> /\ toHost = <<>>
  BY DEF Init, EmptyPipe
<1>2. Up = <<>> /\ Down = <<>>
  BY <1>1, ConcatEmptySeq, EmptySeq DEF Up, Down
<1>3. Talk!Init
  BY <1>2, SameInit DEF Init, Talk!Init
<1>4. Talk!IInv
  BY <1>3, Talk!InitIInv
<1>5. Queued /\ NothingDropped
  BY <1>1, EmptySeq DEF Queued, NothingDropped, Init
<1> QED
  BY <1>3, <1>4, <1>5 DEF SInv

\* The steps that move nothing.
LEMMA Stutters ==
  ASSUME SInv, Up' = Up, Down' = Down, UNCHANGED <<ctl, hvars, stored>>
  PROVE  [Talk!Next]_(Talk!vars)
BY DEF Talk!vars, Talk!ctl, Talk!hvars, ctl, hvars

LEMMA ServeStep == ASSUME SInv, Serve PROVE Relays
<1>1. /\ pc = "insert"
      /\ UNCHANGED <<in, out, toServer, toHost, hvars, stored, dropped>>
  BY DEF Serve, line, history
<1>2. PICK d \in 0 .. Discs - 1 :
        (\E f \in HostFile : Ctl!Insert(d, f)) \/ Ctl!InsertFails(d)
  BY DEF Serve
<1>3. d \in Talk!Ctl!Drive
  BY SizesAssumption DEF Talk!Ctl!Drive
<1>4. Down = <<>> /\ Up' = Up /\ Down' = Down
  BY <1>1, ConcatEmptySeq, EmptySeq DEF SInv, Queued, Up, Down
<1>5. Talk!Mount
  BY <1>1, <1>2, <1>3, <1>4, SameInsert DEF Talk!Mount, Talk!hvars, hvars
<1>6. Queued' /\ NothingDropped'
  BY <1>1 DEF SInv, Queued, NothingDropped
<1> QED
  BY <1>5, <1>6 DEF Relays, Talk!Next

LEMMA MoveInKeeps ==
  ASSUME Queued, MoveIn
  PROVE  Up' = Up /\ in'.q \in Seq(Ctl!Byte) /\ toServer' \in Seq(Ctl!Byte)
<1>1. CASE UNCHANGED <<in, toServer>>
  BY <1>1 DEF Queued, Up
<1>2. ASSUME in.q = <<>>, toServer # <<>>,
             NEW n \in 1 .. LeastOf(Len(toServer), PipeSize),
             in' = PipeRead(SubSeq(toServer, 1, n)),
             toServer' = SubSeq(toServer, n + 1, Len(toServer))
      PROVE  Up' = Up /\ in'.q \in Seq(Ctl!Byte) /\ toServer' \in Seq(Ctl!Byte)
  <2>1. toServer \in Seq(Ctl!Byte) /\ Len(toServer) \in Nat
    BY LenProperties DEF Queued
  <2>2. n \in 1 .. Len(toServer)
    BY <2>1, PipeSizeAssumption DEF LeastOf
  <2>3. in'.q = SubSeq(toServer, 1, n)
    BY <1>2 DEF PipeRead
  <2>4. Up' = toServer /\ in'.q \in Seq(Ctl!Byte) /\ toServer' \in Seq(Ctl!Byte)
    <3>1. PICK s : s = toServer
      OBVIOUS
    <3>2. s \in Seq(Ctl!Byte) /\ n \in 1 .. Len(s)
      BY <2>1, <2>2, <3>1
    <3>3. /\ SubSeq(s, 1, n) \in Seq(Ctl!Byte) /\ SubSeq(s, n + 1, Len(s)) \in Seq(Ctl!Byte)
          /\ SubSeq(s, 1, n) \o SubSeq(s, n + 1, Len(s)) = s
      BY <3>2, Talk!Rejoined
    <3>4. in'.q = SubSeq(s, 1, n) /\ toServer' = SubSeq(s, n + 1, Len(s))
      BY <1>2, <2>3, <3>1
    <3> QED
      BY <3>1, <3>3, <3>4 DEF Up
  <2>5. Up = toServer
    BY <1>2, <2>1, ConcatEmptySeq DEF Up
  <2> QED
    BY <2>4, <2>5
<1> QED
  BY <1>1, <1>2 DEF MoveIn

LEMMA MoveOutKeeps ==
  ASSUME Queued, MoveOut
  PROVE  Down' = Down /\ out'.q \in Seq(Ctl!Byte) /\ toHost' \in Seq(Ctl!Byte)
<1>1. CASE UNCHANGED <<out, toHost>>
  BY <1>1 DEF Queued, Down
<1>2. ASSUME NEW n \in 1 .. LeastOf(Len(out.q), WireSize - Len(toHost)),
             toHost' = toHost \o SubSeq(out.q, 1, n),
             out' = PipeWrite(out, n)
      PROVE  Down' = Down /\ out'.q \in Seq(Ctl!Byte) /\ toHost' \in Seq(Ctl!Byte)
  <2> DEFINE q == out.q
             first == SubSeq(q, 1, n)
             last == SubSeq(q, n + 1, Len(q))
  <2>1. /\ q \in Seq(Ctl!Byte) /\ toHost \in Seq(Ctl!Byte)
        /\ Len(q) \in Nat /\ Len(toHost) \in Nat /\ WireSize \in Nat
    BY Allowed, LenProperties DEF Queued
  <2>2. n \in 1 .. Len(q)
    BY <2>1 DEF LeastOf
  <2>3. out'.q = last
    BY <1>2 DEF PipeWrite, Rewound
  <2>4. first \in Seq(Ctl!Byte) /\ last \in Seq(Ctl!Byte) /\ first \o last = q
    BY <2>1, <2>2, Talk!Rejoined
  <2> HIDE DEF q, first, last
  <2>5. (toHost \o first) \o last = toHost \o (first \o last)
    <3>1. PICK h, s, t : h = toHost /\ s = first /\ t = last
      OBVIOUS
    <3>2. h \in Seq(Ctl!Byte) /\ s \in Seq(Ctl!Byte) /\ t \in Seq(Ctl!Byte)
      BY <2>1, <2>4, <3>1
    <3>3. (h \o s) \o t = h \o (s \o t)
      BY <3>2, ConcatAssociative
    <3> QED
      BY <3>1, <3>3
  <2>6. toHost' = toHost \o first /\ Down' = toHost' \o last /\ Down = toHost \o q
    BY <1>2, <2>3 DEF Down, first, q
  <2>7. toHost \o first \in Seq(Ctl!Byte)
    BY <2>1, <2>4, ConcatProperties
  <2> QED
    BY <2>3, <2>4, <2>5, <2>6, <2>7
<1> QED
  BY <1>1, <1>2 DEF MoveOut

LEMMA MoveStep == ASSUME SInv, Move PROVE Relays
<1>1. /\ Up' = Up /\ in'.q \in Seq(Ctl!Byte) /\ toServer' \in Seq(Ctl!Byte)
      /\ Down' = Down /\ out'.q \in Seq(Ctl!Byte) /\ toHost' \in Seq(Ctl!Byte)
  BY MoveInKeeps, MoveOutKeeps DEF SInv, Move
<1>2. pc' = "feed" /\ UNCHANGED <<ctl, hvars, stored, dropped>>
  BY DEF Move, history
<1> QED
  BY <1>1, <1>2, Stutters DEF Relays, SInv, Queued, NothingDropped

\* The steps of the server, of a signal and of a hangup that only change where
\* it is.
LEMMA QuietStep ==
  ASSUME SInv, Finish \/ FeedEnds \/ DrainEnds \/ Signal \/ HangUp
  PROVE  Relays
<1>1. /\ UNCHANGED <<ctl, hvars, stored, dropped, in, out, toServer, toHost>>
      /\ pc' = pc \/ pc' \in {"done", "drain", "loop"}
  BY DEF Finish, FeedEnds, DrainEnds, Signal, HangUp, line, history, svars
<1>2. Up' = Up /\ Down' = Down
  BY <1>1 DEF Up, Down
<1>3. Queued' /\ NothingDropped'
  BY <1>1 DEF SInv, Queued, NothingDropped
<1> QED
  BY <1>1, <1>2, <1>3, Stutters DEF Relays

-----------------------------------------------------------------------------
(* The controller takes and gives.                                         *)

\* It takes whatever comes to it: a frame is on its way only while it waits for
\* one.
LEMMA Accepts == ASSUME TextOnly, SInv, in.q # <<>> PROVE Ctl!Accepting
<1>1. Up # <<>>
  BY Talk!HeadOfConcat DEF SInv, Queued, Up
<1>2. PICK f \in Seq(Talk!Plain) : \E n \in 0 .. Len(f) + 1 : Talk!Frame(f, n)
  BY <1>1, Allowed, Talk!FrameOnItsWay DEF SInv
<1> QED
  BY <1>2 DEF Talk!Frame, Talk!Commanding, Talk!Storing, Ctl!Accepting

LEMMA FeedStep == ASSUME TextOnly, SInv, Feed PROVE Relays
<1>1. /\ in.q \in Seq(Ctl!Byte) /\ in.q # <<>> /\ toServer \in Seq(Ctl!Byte)
      /\ in' = PipeGet(in) /\ UNCHANGED <<out, toServer, toHost, hvars>>
  BY DEF SInv, Queued, Feed, line
<1>2. /\ Ctl!Putc(Head(in.q)) /\ pc' # "insert"
      /\ stored' = (stored \/ state' = "WRITTEN") /\ dropped' = dropped
  BY <1>1, Accepts DEF Feed, FeedTaken, FeedRefused
<1>3. in'.q = Tail(in.q) /\ in'.q \in Seq(Ctl!Byte)
  BY <1>1, HeadTailProperties DEF PipeGet, Rewound
<1>4. Up # <<>> /\ Head(Up) = Head(in.q) /\ Up' = Tail(Up) /\ Down' = Down
  BY <1>1, <1>3, Talk!HeadOfConcat DEF Up, Down
<1>5. Talk!Take
  BY <1>1, <1>2, <1>4, SamePutc DEF Talk!Take, Talk!hvars, hvars
<1>6. Queued' /\ NothingDropped'
  BY <1>1, <1>2, <1>3 DEF SInv, Queued, NothingDropped
<1> QED
  BY <1>5, <1>6 DEF Relays, Talk!Next

LEMMA DrainStep == ASSUME SInv, Drain PROVE Relays
<1> DEFINE c == Ctl!GetChar
<1>1. /\ UNCHANGED <<in, toServer, toHost, hvars, stored>> /\ pc' # "insert"
      /\ Ctl!Getc /\ PipeLeft(out) > 0
  BY DEF Drain, line, RoomForAnswer
<1>2. /\ out.q \in Seq(Ctl!Byte) /\ toHost \in Seq(Ctl!Byte)
      /\ in.q \in Seq(Ctl!Byte) /\ toServer \in Seq(Ctl!Byte)
  BY DEF SInv, Queued
<1>3. Talk!Ctl!Getc /\ Talk!Ctl!GetChar = c
  BY <1>1, SameGetc
<1>4. out' = (IF PipeLeft(out) > 0 /\ ~LooksLikeFailure(c) THEN PipePut(out, c) ELSE out)
      /\ dropped' = (dropped \/ ~(PipeLeft(out) > 0 /\ ~LooksLikeFailure(c)))
  BY DEF Drain
<1>5. c \in Talk!Passing
  <2>1. PICK e : e = Talk!Ctl!GetChar
    OBVIOUS
  <2>2. buf \in Seq(Talk!Passing) /\ idx \in Nat /\ idx < Len(buf)
    BY <1>3 DEF SInv, Talk!IInv, Talk!TypeInv, Talk!Ctl!Getc
  <2>3. \A i \in 1 .. Len(buf) : buf[i] \in Talk!Passing
    BY <2>2, ElementOfSeq
  <2>4. idx + 1 \in 1 .. Len(buf)
    BY <2>2, LenProperties
  <2> QED
    BY <1>3, <2>3, <2>4 DEF Talk!Ctl!GetChar
<1>6. ~LooksLikeFailure(c) /\ c \in Ctl!Byte
  BY <1>5, Allowed, SameBytes, Talk!Constants
<1>7. out'.q = Append(out.q, c) /\ ~dropped'
  <2>1. out' = PipePut(out, c)
    BY <1>1, <1>4, <1>6
  <2>2. ~dropped'
    BY <1>1, <1>4, <1>6, Zenon DEF SInv, NothingDropped
  <2> QED
    BY <2>1, <2>2 DEF PipePut
<1>8. /\ Append(out.q, c) \in Seq(Ctl!Byte)
      /\ toHost \o Append(out.q, c) = Append(toHost \o out.q, c)
  <2>1. PICK h, q, e : h = toHost /\ q = out.q /\ e = c
    OBVIOUS
  <2>2. h \in Seq(Ctl!Byte) /\ q \in Seq(Ctl!Byte) /\ e \in Ctl!Byte
    BY <1>2, <1>6, <2>1
  <2>3. Append(q, e) \in Seq(Ctl!Byte) /\ h \o Append(q, e) = Append(h \o q, e)
    BY <2>2, AppendProperties, Talk!AppendToConcat
  <2> QED
    BY <2>1, <2>3
<1>9. Up' = Up /\ Down' = Append(Down, c)
  BY <1>1, <1>7, <1>8 DEF Up, Down
<1>10. Talk!Give
  BY <1>1, <1>3, <1>9 DEF Talk!Give, Talk!hvars, hvars
<1>11. Queued' /\ NothingDropped'
  BY <1>1, <1>2, <1>7, <1>8 DEF SInv, Queued, NothingDropped
<1> QED
  BY <1>10, <1>11 DEF Relays, Talk!Next

-----------------------------------------------------------------------------
(* The host.                                                               *)

LEMMA AskStep == ASSUME SInv, Ask PROVE Relays
<1>1. /\ HostAsk /\ stored' = FALSE
      /\ UNCHANGED <<ctl, pc, in, out, toServer, toHost, dropped>>
  BY DEF Ask, svars, line
<1>2. Up' = Up /\ Down' = Down
  BY <1>1 DEF Up, Down
<1>3. Talk!Ask
  BY <1>1, <1>2, SameHost DEF Talk!Ask, Talk!ctl, ctl
<1>4. Queued' /\ NothingDropped'
  BY <1>1 DEF SInv, Queued, NothingDropped
<1> QED
  BY <1>3, <1>4 DEF Relays, Talk!Next

LEMMA SendStep == ASSUME TextOnly, SInv, Send PROVE Relays
<1>1. /\ HostSent /\ toServer' = Append(toServer, NextChar)
      /\ UNCHANGED <<ctl, pc, in, out, toHost, stored, dropped>>
  BY DEF Send, svars, history
<1>2. /\ out.q \in Seq(Ctl!Byte) /\ toHost \in Seq(Ctl!Byte)
      /\ in.q \in Seq(Ctl!Byte) /\ toServer \in Seq(Ctl!Byte)
  BY DEF SInv, Queued
<1>3. in.q \o Append(toServer, NextChar) = Append(in.q \o toServer, NextChar)
  <2>1. PICK q, s, e : q = in.q /\ s = toServer /\ e = NextChar
    OBVIOUS
  <2> DEFINE T == Ctl!Byte \cup {e}
  <2>2. q \in Seq(T) /\ s \in Seq(T) /\ e \in T
    BY <1>2, <2>1, SeqMonotonic
  <2>3. q \o Append(s, e) = Append(q \o s, e)
    BY <2>2, Talk!AppendToConcat
  <2> QED
    BY <2>1, <2>3
<1>4. Up' = Append(Up, NextChar) /\ Down' = Down
  BY <1>1, <1>3 DEF Up, Down
<1>5. Talk!Send
  BY <1>1, <1>4, SameHost DEF Talk!Send, Talk!ctl, ctl
<1>6. NextChar \in Ctl!Byte
  BY <1>5, Allowed, SameBytes, SameHost, Talk!NextCharType, Talk!Constants DEF SInv
<1>7. toServer' \in Seq(Ctl!Byte)
  BY <1>1, <1>2, <1>6, AppendProperties
<1>8. Queued' /\ NothingDropped'
  BY <1>1, <1>2, <1>7 DEF SInv, Queued, NothingDropped
<1> QED
  BY <1>5, <1>8 DEF Relays, Talk!Next

LEMMA ReceiveStep == ASSUME SInv, Receive PROVE Relays
<1>1. /\ toHost # <<>> /\ HostReceived(Head(toHost)) /\ toHost' = Tail(toHost)
      /\ UNCHANGED <<ctl, pc, in, out, toServer, stored, dropped>>
  BY DEF Receive, svars, history
<1>2. /\ out.q \in Seq(Ctl!Byte) /\ toHost \in Seq(Ctl!Byte) /\ pc # "insert"
  BY <1>1 DEF SInv, Queued
<1>3. /\ Down # <<>> /\ Head(Down) = Head(toHost) /\ Tail(toHost) \in Seq(Ctl!Byte)
      /\ Tail(toHost) \o out.q = Tail(Down)
  BY <1>1, <1>2, HeadTailProperties, Talk!HeadOfConcat DEF Down
<1>4. Up' = Up /\ Down' = Tail(Down)
  BY <1>1, <1>3 DEF Up, Down
<1>5. Talk!Receive
  BY <1>1, <1>3, <1>4, SameHost DEF Talk!Receive, Talk!ctl, ctl
<1>6. Queued' /\ NothingDropped'
  BY <1>1, <1>2, <1>3 DEF SInv, Queued, NothingDropped
<1> QED
  BY <1>5, <1>6 DEF Relays, Talk!Next

-----------------------------------------------------------------------------
(* The theorems.                                                           *)

LEMMA NextSInv ==
  ASSUME TextOnly, SInv, [Next]_vars
  PROVE  SInv' /\ [Talk!Next]_(Talk!vars)
<1>1. Relays
  <2>1. CASE Serve
    BY <2>1, ServeStep
  <2>2. CASE Move
    BY <2>2, MoveStep
  <2>3. CASE Finish \/ FeedEnds \/ DrainEnds \/ Signal \/ HangUp
    BY <2>3, QuietStep
  <2>4. CASE Feed
    BY <2>4, FeedStep
  <2>5. CASE Drain
    BY <2>5, DrainStep
  <2>6. CASE Ask
    BY <2>6, AskStep
  <2>7. CASE Send
    BY <2>7, SendStep
  <2>8. CASE Receive
    BY <2>8, ReceiveStep
  <2>9. CASE UNCHANGED vars
    <3>1. UNCHANGED <<ctl, hvars, stored, dropped, pc, in, out, toServer, toHost>>
      BY <2>9 DEF vars, svars, line, history
    <3>2. Up' = Up /\ Down' = Down
      BY <3>1 DEF Up, Down
    <3> QED
      BY <3>1, <3>2, Stutters DEF Relays, SInv, Queued, NothingDropped
  <2> QED
    BY <2>1, <2>2, <2>3, <2>4, <2>5, <2>6, <2>7, <2>8, <2>9 DEF Next, ServerStep
<1>2. Talk!IInv'
  BY <1>1, Allowed, Talk!NextIInv DEF SInv, Relays
<1> QED
  BY <1>1, <1>2 DEF SInv, Relays

LEMMA ServerInvariant == ASSUME TextOnly PROVE Spec => []SInv
BY InitSInv, NextSInv, PTL DEF Spec

\* The breaks of process_simple that leave a loop with a character in hand never
\* have one that counts: a character that the controller does not take, or that
\* the line has no room for, does not come: with TextOnly, as what follows.
THEOREM NothingIsDropped == ASSUME TextOnly PROVE Spec => []NothingDropped
BY ServerInvariant, PTL DEF SInv

\* The server with its pipes and line is two queues between R/W and the
\* controller.
THEOREM ServerIsAConversation == ASSUME TextOnly PROVE Spec => Talk!Spec
BY InitSInv, NextSInv, ServerInvariant, PTL DEF Spec, Talk!Spec

\* What R/W is told is what the discs hold, with a server at the other end,
\* whatever stdio calls fail but fflush.
THEOREM ServerIsADevice == ASSUME TextOnly PROVE Spec => ImplementsDevice
<1>1. Spec => Talk!Spec
  BY ServerIsAConversation
<1>2. Talk!Spec => Talk!ImplementsDevice
  BY Allowed, Talk!ConversationIsADevice
<1> QED
  BY <1>1, <1>2, SameDevice, PTL
  DEF ImplementsDevice, Device!Spec, Talk!ImplementsDevice, Talk!Device!Spec

=============================================================================
