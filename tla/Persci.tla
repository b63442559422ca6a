------------------------------- MODULE Persci -------------------------------
(***************************************************************************)
(* The PerSci 1070 disc controller emulation, src/persci.c: four drives,   *)
(* one buffer for everything that comes in or goes out, and a state        *)
(* machine driven one character at a time by rf_persci_putc and            *)
(* rf_persci_getc.                                                         *)
(*                                                                         *)
(* Abstractions.  A character is a member of Byte.  The text of a command  *)
(* ("I 05 01 /0") is a single member of Command: its digits are the        *)
(* business of PersciCommand.  A command's track and sector are one sector *)
(* index, NSector standing for every pair out of range, and the drive      *)
(* NDrive for every drive number above 3.  The text of an error message is *)
(* one member of Message.                                                  *)
(*                                                                         *)
(* Left out: the delay of rf_persci_serve (usleep only) and the log.       *)
(***************************************************************************)
EXTENDS Naturals, Sequences

CONSTANTS
  NDrive,      \* number of drives, 4 in the code
  NSector,     \* sectors of a disc, 77 * 26 in the code
  SectorLen,   \* bytes of a sector, 128 in the code
  BufSize,     \* size of rf_persci_buf, 131 in the code
  MaxFrame,    \* the most characters a caller puts before an EOT
  Data,        \* the characters a caller puts that are not commands nor EOT
  SOH, ACK, NAK, ENQ, EOT,                  \* control characters
  CommandError, ReadyError, HardDiskError,  \* texts of the error messages
  Zero,        \* the byte a file system fills the gaps of a file with
  NoByte,      \* not a byte: what a file holds past its end
  NoDisc,      \* not an image: discs[drive] == 0
  NoFile,      \* not a file: files[drive] == 0
  HostFile,    \* the contents of the files that may be inserted
  StaticImage, \* the byte arrays that may be given to insert_bytes
  Heap,        \* the bytes that malloc'ed memory may hold before it is written
  Fault        \* the stdio calls that may fail during a write

Drive   == 0 .. NDrive - 1
Offset  == 0 .. NSector * SectorLen - 1
Command == [op : {"I", "O"}, drive : 0 .. NDrive, sector : 0 .. NSector]
Control == {SOH, ACK, NAK, ENQ, EOT}
Message == {CommandError, ReadyError, HardDiskError}
Byte    == Data \cup Control \cup Message \cup Command \cup {Zero}
Image   == [Offset -> Byte]
File    == [Offset -> Byte \cup {NoByte}]

\* rf_persci_buf takes the longest response: SOH, a sector, ACK, EOT.
ASSUME SizesAssumption ==
  /\ NDrive \in Nat \ {0} /\ NSector \in Nat \ {0} /\ SectorLen \in Nat \ {0}
  /\ BufSize \in Nat /\ BufSize = SectorLen + 3
  /\ MaxFrame \in Nat \ {0}

ASSUME BytesAssumption ==
  /\ EOT \notin Data \cup Command \cup Message \cup {SOH, ACK, NAK, ENQ, Zero}
  /\ Data \cap Command = {}
  /\ NoByte \notin Byte
  /\ NoDisc \notin Image /\ NoFile \notin File
  /\ HostFile \subseteq File /\ StaticImage \subseteq Image /\ Heap \subseteq Byte
  /\ Fault \subseteq {"fseek", "fwrite", "fflush"}

VARIABLES
  state,    \* rf_persci_state
  buf,      \* the rf_persci_len characters of rf_persci_buf
  idx,      \* rf_persci_idx: how many of them were read
  target,   \* rf_persci_drive, rf_persci_track and rf_persci_sector
  disc,     \* discs[]: the image in memory of each drive
  file,     \* files[]: the contents of the open file of each drive
  ejected,  \* rf_persci_ejected
  status,   \* "running", "exited" or "undefined" once behaviour is undefined
  suspect   \* history: the offsets of each drive that nothing has told the
            \* caller are on file, because the file ended before them when it
            \* was inserted or because the last write to them was refused

vars == <<state, buf, idx, target, disc, file, ejected, status, suspect>>
drives == <<disc, file, ejected, suspect>>

States == {"IDLE", "INPUT", "OUTPUT", "WRITING", "WRITTEN", "ERROR"}

\* putc takes a character in these states, getc gives one in the others.
Accepting  == state \in {"IDLE", "WRITING"}
Responding == state \in {"INPUT", "OUTPUT", "WRITTEN", "ERROR"}

Init ==
  /\ state = "IDLE"
  /\ buf = <<>>
  /\ idx = 0
  /\ target = [drive |-> 0, sector |-> 0]
  /\ disc = [d \in Drive |-> NoDisc]
  /\ file = [d \in Drive |-> NoFile]
  /\ ejected = FALSE
  /\ status = "running"
  /\ suspect = [d \in Drive |-> {}]

-----------------------------------------------------------------------------
(* Drives.  disc.c inserts before it serves, and main.c inserts and ejects *)
(* between two block transfers: never while the controller has a command   *)
(* half received or half answered.                                         *)

InsertAtAnyTime == status = "running"

BetweenTransfers == status = "running" /\ state = "IDLE" /\ buf = <<>>

\* validate_drive_empty looks at files[] alone: an image given to
\* insert_bytes does not occupy the drive.
DriveEmpty(d) == file[d] = NoFile

\* The file is read into malloc'ed memory: what the file is too short for is
\* left as malloc gave it.
ImageOf(f, malloced) ==
  [o \in Offset |-> IF f[o] = NoByte THEN malloced[o] ELSE f[o]]

Insert(d, f) ==
  /\ BetweenTransfers /\ DriveEmpty(d)
  /\ \E malloced \in [Offset -> Heap] :
       disc' = [disc EXCEPT ![d] = ImageOf(f, malloced)]
  /\ file' = [file EXCEPT ![d] = f]
  /\ suspect' = [suspect EXCEPT ![d] = {o \in Offset : f[o] = NoByte}]
  /\ UNCHANGED <<state, buf, idx, target, ejected, status>>

\* fopen fails and nothing changes, or malloc or fread fails once discs[d]
\* has been assigned.
InsertFails(d) ==
  /\ BetweenTransfers /\ DriveEmpty(d)
  /\ disc' \in {disc, [disc EXCEPT ![d] = NoDisc]}
  /\ UNCHANGED <<state, buf, idx, target, file, ejected, status, suspect>>

InsertBytes(d, m) ==
  /\ BetweenTransfers /\ DriveEmpty(d)
  /\ disc' = [disc EXCEPT ![d] = m]
  /\ UNCHANGED <<state, buf, idx, target, file, ejected, status, suspect>>

Eject(d) ==
  /\ BetweenTransfers
  /\ file' = [file EXCEPT ![d] = NoFile]
  /\ disc' = [disc EXCEPT ![d] = NoDisc]
  /\ suspect' = [suspect EXCEPT ![d] = {}]
  /\ ejected' = TRUE
  /\ UNCHANGED <<state, buf, idx, target, status>>

-----------------------------------------------------------------------------
(* Responses.  Each resets the buffer, fills it and sets the state.        *)

Respond(st, chars) ==
  /\ state' = st
  /\ buf' = chars
  /\ idx' = 0

ErrorText(message) == <<NAK, message, EOT>>

\* rf_persci_error and rf_persci_error_on_drive
Error(message) == Respond("ERROR", ErrorText(message))

SectorOffset(s) == s * SectorLen

SectorOf(image, s) ==
  [i \in 1 .. SectorLen |-> image[SectorOffset(s) + i - 1]]

\* rf_persci_validate, for a command it lets through
Valid(c) ==
  /\ c.drive \in Drive
  /\ disc[c.drive] # NoDisc
  /\ c.sector < NSector

Rejected(c) ==
  /\ ~Valid(c)
  /\ Error(IF c.drive \in Drive /\ disc[c.drive] = NoDisc
             THEN ReadyError ELSE CommandError)
  /\ UNCHANGED target

\* rf_persci_input
Input(c) ==
  /\ c.op = "I" /\ Valid(c)
  /\ Respond("INPUT", <<SOH>> \o SectorOf(disc[c.drive], c.sector) \o <<ACK, EOT>>)
  /\ UNCHANGED target

\* An output that keeps the sector number of the command, which starts at one.
OutputFromOne(c) ==
  /\ c.op = "O" /\ Valid(c)
  /\ target' = [drive |-> c.drive, sector |-> c.sector + 1]
  /\ Respond("OUTPUT", <<ENQ, EOT>>)

\* An output that keeps the drive of the write before it.
OutputKeepsDrive(c) ==
  /\ c.op = "O" /\ Valid(c)
  /\ target' = [target EXCEPT !.sector = c.sector]
  /\ Respond("OUTPUT", <<ENQ, EOT>>)

\* rf_persci_output
Output(c) ==
  /\ c.op = "O" /\ Valid(c)
  /\ target' = [drive |-> c.drive, sector |-> c.sector]
  /\ Respond("OUTPUT", <<ENQ, EOT>>)

\* rf_persci_command, once the EOT has come.  Anything in the buffer but the
\* text of one command fails to parse.
IsCommand(chars) == Len(chars) = 1 /\ chars[1] \in Command

RunCommand ==
  /\ state = "IDLE"
  /\ \/ /\ IsCommand(buf)
        /\ LET c == buf[1] IN Rejected(c) \/ Input(c) \/ Output(c)
     \/ /\ ~IsCommand(buf)
        /\ Error(CommandError)
        /\ UNCHANGED target
  /\ UNCHANGED <<drives, status>>

-----------------------------------------------------------------------------
(* rf_persci_write: the characters before the EOT go to the file, then to  *)
(* the image in memory.                                                    *)

Overwrite(image, off, chars) ==
  [o \in Offset |-> IF o \in off .. off + Len(chars) - 1
                      THEN chars[o - off + 1] ELSE image[o]]

\* Writing past the end of a file fills what is between with zeros.
FileAfter(f, off, chars) ==
  IF chars = <<>> THEN f
  ELSE [o \in Offset |->
          IF o \in off .. off + Len(chars) - 1 THEN chars[o - off + 1]
          ELSE IF o < off /\ f[o] = NoByte THEN Zero
          ELSE f[o]]

Touched(off, chars) == {o \in Offset : o \in off .. off + Len(chars) - 1}

\* The longest sequence of characters that stays on the disc.
FitsDisc(chars) ==
  SectorOffset(target.sector) + Len(chars) <= NSector * SectorLen

\* fseek, fwrite or fflush has failed, after k characters reached the file.
FileFails(fault, chars) ==
  LET d   == target.drive
      off == SectorOffset(target.sector)
  IN  /\ fault \in Fault /\ file[d] # NoFile
      /\ \E k \in 0 .. Len(chars) :
           /\ fault = "fseek" => k = 0
           /\ file' = [file EXCEPT ![d] = FileAfter(@, off, SubSeq(chars, 1, k))]

FileWritten(chars) ==
  file' = IF file[target.drive] = NoFile THEN file
          ELSE [file EXCEPT ![target.drive] =
                  FileAfter(@, SectorOffset(target.sector), chars)]

MemoryWritten(chars) ==
  disc' = [disc EXCEPT ![target.drive] =
             Overwrite(@, SectorOffset(target.sector), chars)]

\* ACK: the caller takes the characters to be on the disc from now on.
Acknowledge(chars) ==
  /\ Respond("WRITTEN", <<ACK, EOT>>)
  /\ suspect' = [suspect EXCEPT ![target.drive] =
                   @ \ Touched(SectorOffset(target.sector), chars)]

\* An error path that does not return, as the one of fflush.
WriteGoesOn(fault, chars) ==
  /\ fault \in {"fseek", "fwrite"} /\ FitsDisc(chars)
  /\ FileFails(fault, chars)
  /\ MemoryWritten(chars)
  /\ Acknowledge(chars)

\* fseek and fwrite return after the error message.
WriteRefused(fault, chars) ==
  /\ fault \in {"fseek", "fwrite"} /\ FitsDisc(chars)
  /\ FileFails(fault, chars)
  /\ Error(HardDiskError)
  /\ suspect' = [suspect EXCEPT ![target.drive] =
                   @ \cup Touched(SectorOffset(target.sector), chars)]
  /\ UNCHANGED disc

\* The characters after a text that is written over the start of the buffer.
Overlaid(chars, text) ==
  [i \in 1 .. Len(chars) |-> IF i <= Len(text) THEN text[i] ELSE chars[i]]

\* After the error message of fflush the write goes on: the message is in the
\* buffer that the image is written from, over the characters of the caller,
\* who gets an ACK.
WriteNotFlushed(chars) ==
  /\ FitsDisc(chars)
  /\ FileFails("fflush", chars)
  /\ MemoryWritten(Overlaid(chars, ErrorText(HardDiskError)))
  /\ Acknowledge(chars)

Written(chars) ==
  /\ FitsDisc(chars)
  /\ FileWritten(chars)
  /\ MemoryWritten(chars)
  /\ Acknowledge(chars)

WriteChars(chars) ==
  \/ \E fault \in Fault : WriteRefused(fault, chars)
  \/ WriteNotFlushed(chars)
  \/ Written(chars)

Write ==
  /\ state = "WRITING" /\ disc[target.drive] # NoDisc
  /\ WriteChars(buf)
  /\ UNCHANGED <<target, ejected, status>>

\* Behaviour is undefined when there is no image, when the characters go past
\* its end, or when it is a constant array (main.c declares model_img const).
WriteUndefined ==
  /\ state = "WRITING"
  /\ \/ disc[target.drive] = NoDisc
     \/ ~FitsDisc(buf)
     \/ file[target.drive] = NoFile
  /\ status' = "undefined"
  /\ UNCHANGED <<state, buf, idx, target, drives>>

-----------------------------------------------------------------------------
(* Characters in and out.                                                  *)

\* rf_persci_w finds the buffer full and exits.
PutOverflow ==
  /\ Len(buf) >= BufSize
  /\ status' = "exited"
  /\ UNCHANGED <<state, buf, idx, target, drives>>

PutChar(c) ==
  /\ Len(buf) < BufSize /\ c # EOT
  /\ buf' = Append(buf, c)
  /\ UNCHANGED <<state, idx, target, drives, status>>

\* rf_persci_serve: the EOT is read back and belongs to no command or data.
PutEOT ==
  /\ Len(buf) < BufSize
  /\ RunCommand \/ Write \/ WriteUndefined

\* rf_persci_putc, when it takes the character.
Putc(c) ==
  /\ status = "running" /\ Accepting
  /\ PutOverflow \/ PutChar(c) \/ (c = EOT /\ PutEOT)

\* rf_persci_getc, when it has a character: buf[idx + 1].
GetChar == buf[idx + 1]

\* A getc that leaves rf_persci_idx at the end of the response.
GetcKeepsIndex ==
  /\ status = "running" /\ Responding /\ idx < Len(buf)
  /\ idx' = idx + 1
  /\ IF idx + 1 < Len(buf)
       THEN UNCHANGED <<state, buf>>
       ELSE /\ buf' = <<>>
            /\ state' = IF state = "OUTPUT" THEN "WRITING" ELSE "IDLE"
  /\ UNCHANGED <<target, drives, status>>

Getc ==
  /\ status = "running" /\ Responding /\ idx < Len(buf)
  /\ IF idx + 1 < Len(buf)
       THEN /\ idx' = idx + 1
            /\ UNCHANGED <<state, buf>>
       ELSE /\ buf' = <<>>
            /\ idx' = 0
            /\ state' = IF state = "OUTPUT" THEN "WRITING" ELSE "IDLE"
  /\ UNCHANGED <<target, drives, status>>

-----------------------------------------------------------------------------
(* The callers.  Between two EOTs they put at most MaxFrame characters and *)
(* an EOT: a command, or data.  (A command text that comes after other     *)
(* characters, or while the controller waits for data, is data like any    *)
(* other.)  They may name any drive, put more than a sector, and write to  *)
(* the image that main.c gives as bytes.                                   *)

Incoming ==
  {EOT} \cup (IF Len(buf) < MaxFrame THEN Data ELSE {})
        \cup (IF state = "IDLE" /\ buf = <<>> THEN Command ELSE {})

DrivesChange ==
  \E d \in Drive :
    \/ \E f \in HostFile : Insert(d, f)
    \/ InsertFails(d)
    \/ \E m \in StaticImage : InsertBytes(d, m)
    \/ Eject(d)

Next ==
  \/ DrivesChange
  \/ \E c \in Incoming : Putc(c)
  \/ Getc

Spec == Init /\ [][Next]_vars

-----------------------------------------------------------------------------
(* Properties.                                                             *)

TypeOK ==
  /\ state \in States
  /\ buf \in Seq(Byte)
  /\ idx \in Nat
  /\ target \in [drive : Drive, sector : 0 .. NSector - 1]
  /\ disc \in [Drive -> Image \cup {NoDisc}]
  /\ file \in [Drive -> File \cup {NoFile}]
  /\ ejected \in BOOLEAN
  /\ status \in {"running", "exited", "undefined"}
  /\ suspect \in [Drive -> SUBSET Offset]

\* The one buffer serves both directions, so its contents must follow the
\* state: while the controller takes characters the buffer holds only what
\* came since the last EOT, none of it read; while it gives characters there is
\* always one more to give, and the last one is the EOT the caller waits for.
\* Otherwise putc would append to a half read response, or getc would give -1
\* for ever in a state putc does not leave.
BufferFollowsState ==
  /\ Len(buf) <= BufSize
  /\ Accepting => idx = 0 /\ \A i \in 1 .. Len(buf) : buf[i] # EOT
  /\ Responding => idx < Len(buf) /\ buf[Len(buf)] = EOT

\* Every byte a caller may take to be on the disc is the same in the image that
\* reads are served from and in the file that outlives the process: the order
\* of file, image, ACK and of the returns on the error paths of
\* rf_persci_write.
ImageMatchesFile ==
  \A d \in Drive : file[d] # NoFile =>
    /\ disc[d] # NoDisc
    /\ \A o \in Offset \ suspect[d] : disc[d][o] = file[d][o]

\* The process goes on and does nothing undefined.
KeepsRunning == status = "running"

=============================================================================
