--------------------------- MODULE PersciCallers ----------------------------
(***************************************************************************)
(* The controller of Persci with a history of what its callers put: where  *)
(* the command that came last said to write, and how many characters came  *)
(* after the last EOT.  The place is taken from the text of the command    *)
(* when its EOT comes, and never from the target, so that what is written  *)
(* later is measured against what the caller asked for.                    *)
(***************************************************************************)
EXTENDS Persci

VARIABLES
  named,  \* the place named by the command before the last EOT, if it was an
          \* O, and whether its drive held a file then
  sent    \* how many characters the caller has put since the last EOT

history == <<named, sent>>
callersVars == <<vars, history>>

\* NDrive and NSector are no drive and no sector of a disc.
Nowhere == [drive |-> NDrive, sector |-> NSector, writable |-> FALSE]

PlaceOf(c) ==
  [drive |-> c.drive, sector |-> c.sector,
   writable |-> c.drive \in Drive /\ file[c.drive] # NoFile]

NamedAfter(c) ==
  IF c # EOT THEN named
  ELSE IF state = "IDLE" /\ IsCommand(buf) /\ buf[1].op = "O"
         THEN PlaceOf(buf[1]) ELSE Nowhere

SentAfter(c) == IF c = EOT THEN 0 ELSE sent + 1

CallersInit == Init /\ named = Nowhere /\ sent = 0

CallersNext ==
  \/ DrivesChange /\ UNCHANGED history
  \/ \E c \in Incoming :
       Putc(c) /\ named' = NamedAfter(c) /\ sent' = SentAfter(c)
  \/ Getc /\ UNCHANGED history

CallersSpec == CallersInit /\ [][CallersNext]_callersVars

-----------------------------------------------------------------------------
(* Properties.                                                             *)

\* The bytes a caller has asked to be written: as many as it has put, from the
\* start of the sector that its last command named.
NamedOffsets ==
  {o \in Offset : o \in SectorOffset(named.sector) ..
                        SectorOffset(named.sector) + sent - 1}

\* A byte of a file stays as it is, or is of the gap that is filled when the
\* file is written past its end.
KeptOrFilled(before, after, o) ==
  \/ after = before
  \/ o < SectorOffset(named.sector) /\ before = NoByte /\ after = Zero

\* While a transfer is under way nothing changes on a drive but the one that
\* the last command named, if it was an O, and there only the bytes from the
\* sector it named on, as many as the caller has put since (within the sector,
\* if it has put no more than a sector), apart from the gap before them being
\* filled.  Drive and sector travel from the command to the write through
\* static variables, past the ENQ response and any error in between, and
\* nothing bounds the count of characters but the buffer.
WriteStaysInSector ==
  [][buf # <<>> \/ state # "IDLE" =>
       \A d \in Drive :
         /\ d # named.drive => disc'[d] = disc[d] /\ file'[d] = file[d]
         /\ d = named.drive => \A o \in Offset \ NamedOffsets :
              /\ disc[d] # NoDisc => disc'[d][o] = disc[d][o]
              /\ file[d] # NoFile => KeptOrFilled(file[d][o], file'[d][o], o)
    ]_callersVars

\* The controller exits only for a caller that has filled the buffer since its
\* last EOT, and does something undefined only for one that has put more than a
\* sector, or that wrote to a drive which held no file when it gave the command:
\* not for a command without its data, data without a command, an eject after a
\* command that was refused, or an error in between.
StopsOnlyForStrays ==
  [][/\ status' = "exited" => status = "exited" \/ sent >= BufSize
     /\ status' = "undefined" =>
          status = "undefined" \/ sent > SectorLen \/ ~named.writable]_callersVars

=============================================================================
