----------------------------- MODULE DiscDriver -----------------------------
(***************************************************************************)
(* The disc driver of Forth: R/W and ?DISC of model.fs over the words of   *)
(* io.c, D/CHAR, BLOCK-READ and BLOCK-WRITE.  It talks to a controller one *)
(* character at a time; what carries the characters is the business of the *)
(* module that composes it with one (DiscServer, LocalDisc).               *)
(*                                                                         *)
(* Left out: the arithmetic of R/W on the block number, which gives drives *)
(* 0 and 1 and the first 2000 sectors of each, and the printing of the     *)
(* error message.                                                          *)
(***************************************************************************)
EXTENDS Naturals, Sequences

CONSTANTS
  SectorLen,      \* bytes of a block, B/BUF and RF_BBLK
  SOH, NAK, EOT,  \* control characters
  HostPlace,      \* the places R/W is asked for: records of drive and sector
  HostBlock       \* the blocks it is asked to write

VARIABLES
  hpc,     \* where R/W is
  req,     \* the request it serves
  sent,    \* how much of the block BLOCK-WRITE has sent
  got,     \* what BLOCK-READ has stored in the buffer
  result   \* "none" while R/W runs, then "ok", or "error" if it has QUIT

hvars == <<hpc, req, sent, got, result>>

HostInit ==
  /\ hpc = "idle"
  /\ req = [op |-> "I", place |-> CHOOSE p \in HostPlace : TRUE, data |-> <<>>]
  /\ sent = 0
  /\ got = <<>>
  /\ result = "none"

HostRequest ==
  [op : {"I"}, place : HostPlace, data : {<<>>}] \cup
  [op : {"O"}, place : HostPlace, data : HostBlock]

\* R/W is called.
HostAsk ==
  /\ hpc = "idle"
  /\ req' \in HostRequest
  /\ hpc' = "text"
  /\ sent' = 0
  /\ got' = <<>>
  /\ result' = "none"

-----------------------------------------------------------------------------
(* BLOCK-WRITE, of the command text and then of the block.                 *)

CommandText ==
  [op |-> req.op, drive |-> req.place.drive, sector |-> req.place.sector]

Sending == hpc \in {"text", "textEOT", "block", "blockEOT"}

NextChar ==
  IF hpc = "text" THEN CommandText
  ELSE IF hpc = "block" THEN req.data[sent + 1]
  ELSE EOT

HostSent ==
  /\ Sending
  /\ hpc' = CASE hpc = "text"     -> "textEOT"
              [] hpc = "textEOT"  -> "reply"
              [] hpc = "block"    -> IF sent + 1 = SectorLen THEN "blockEOT" ELSE "block"
              [] hpc = "blockEOT" -> "lastReply"
  /\ sent' = IF hpc = "block" THEN sent + 1 ELSE sent
  /\ UNCHANGED <<req, got, result>>

-----------------------------------------------------------------------------
(* ?DISC and BLOCK-READ take a character.                                  *)

Receiving == hpc \in {"reply", "absorb", "read", "lastReply", "lastAbsorb", "message"}

\* ?DISC returns, to the IF of R/W or to its end.
DiscReturns(last) ==
  IF last THEN hpc' = "idle" /\ result' = "ok"
  ELSE hpc' = (IF req.op = "I" THEN "read" ELSE "block") /\ UNCHANGED result

\* A ?DISC that takes one character of ENQ EOT and of ACK EOT.
TakeReplyAlone(c) ==
  /\ hpc \in {"reply", "lastReply"}
  /\ \/ c = NAK /\ hpc' = "message" /\ UNCHANGED result
     \/ c # NAK /\ DiscReturns(hpc = "lastReply")
  /\ UNCHANGED got

\* The first character of an answer.
TakeReply(c) ==
  /\ hpc \in {"reply", "lastReply"}
  /\ \/ c = SOH /\ DiscReturns(hpc = "lastReply")
     \/ c = NAK /\ hpc' = "message" /\ UNCHANGED result
     \/ /\ c \notin {SOH, NAK}
        /\ hpc' = IF hpc = "reply" THEN "absorb" ELSE "lastAbsorb"
        /\ UNCHANGED result
  /\ UNCHANGED got

\* The characters after it, up to EOT.
TakeRest(c) ==
  /\ hpc \in {"absorb", "lastAbsorb"}
  /\ IF c = EOT THEN DiscReturns(hpc = "lastAbsorb") ELSE UNCHANGED <<hpc, result>>
  /\ UNCHANGED got

\* A ?DISC that does not quit upon NAK.
TakeMessageAndReturn(c) ==
  /\ hpc = "message"
  /\ IF c = EOT THEN hpc' = "idle" /\ result' = "ok" ELSE UNCHANGED <<hpc, result>>
  /\ UNCHANGED got

\* An error message, printed up to EOT; then QUIT leaves R/W.
TakeMessage(c) ==
  /\ hpc = "message"
  /\ IF c = EOT THEN hpc' = "idle" /\ result' = "error" ELSE UNCHANGED <<hpc, result>>
  /\ UNCHANGED got

\* A BLOCK-READ that reads a character more than a sector has.
TakeDataOneMore(c) ==
  /\ hpc = "read"
  /\ got' = Append(got, c)
  /\ hpc' = IF c = EOT \/ Len(got) = SectorLen THEN "lastReply" ELSE "read"
  /\ UNCHANGED result

\* BLOCK-READ stops at EOT.
TakeData(c) ==
  /\ hpc = "read"
  /\ got' = Append(got, c)
  /\ hpc' = IF c = EOT \/ Len(got) + 1 = SectorLen THEN "lastReply" ELSE "read"
  /\ UNCHANGED result

HostReceived(c) ==
  /\ TakeReply(c) \/ TakeRest(c) \/ TakeMessage(c) \/ TakeData(c)
  /\ UNCHANGED <<req, sent>>

-----------------------------------------------------------------------------
(* The driver as BlockDevice sees it, where stored says that the write it  *)
(* serves has been made.                                                   *)

Phase(stored) ==
  IF hpc = "idle" THEN "idle" ELSE IF stored THEN "stored" ELSE "asked"

Answer ==
  IF hpc # "idle" \/ result = "none" THEN [kind |-> "none", data |-> <<>>]
  ELSE [kind |-> result,
        data |-> IF result = "ok" /\ req.op = "I" THEN got ELSE <<>>]

=============================================================================
