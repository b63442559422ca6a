# A verification development for orterforth

orterforth is fig-Forth with, instead of a disc drive, a program that speaks the
protocol of a PerSci 1070 disc controller over a serial line. A target machine
runs the Forth; `orter`, on a modern machine, serves the disc images. On a modern
machine Forth and the controller are in one process. This directory models that
system in TLA+, checks the models with TLC and proves what matters most with TLAPS.

All line numbers are those of the files in `src/`.

## 1. The system

### Inventory

| component | source | state | operations |
|---|---|---|---|
| disc controller | `persci.c` | state machine, one buffer and index for both directions, the target of a pending write, images, files, the eject flag | insert, insert_bytes, eject, putc, getc |
| orter pipes and loop | `orter/io.c` | array, offset, length and descriptors of each pipe; the finished flag | bufread, bufwrite, get, put, left; the `pselect` loop; signal handler |
| disc server | `disc.c` | two pipes or four, the controller, the image names | serve, process_simple, process_mux, six entry functions, disc_create |
| Forth disc driver | `model.fs` 1064-1120, `io.c` | position in R/W, characters sent and stored | R/W, ?DISC, D/CHAR, BLOCK-READ, BLOCK-WRITE |
| disc buffers | `model.fs` 925-975, 1477-1484 | USE, PREV, a header and contents for each buffer | +BUF, UPDATE, EMPTY-BUFFERS, BUFFER, BLOCK, FLUSH, COPY |
| local system | `main.c`, `system.c` | how far `main` is; the controller | insert and eject, rf_serial_put, rf_serial_get, rf_inst, rf_trampoline |
| multiplexed line | `mux.c`, `disc.c` | four pipes, bit 7 of each character | console and disc over one line |
| virtual machine | `rf.c`, `io.c` | IP, W, SP, RP, UP, memory | the trampoline, NEXT and sixty code words; double arithmetic in two versions |
| dictionary and compiler | `model.fs` | DP, CURRENT, CONTEXT, LATEST, SMUDGE, STATE, IN, BLK | CREATE, FORGET, (FIND), INTERPRET, QUIT, ERROR, LOAD |
| installer | `inst.c`, `link.c`, `model.fs` 1745-1823 | the dictionary, the image and its relocations | rf_inst, the proto interpreter, save, link |
| bridges | `orter/serial.c`, `tcp.c`, `pty.c` | what has been opened or changed, two or four pipes, flow control, a timer at end of file | open, relay, restore |
| orter tools | `orter/*.c` | none | converters of file formats |
| assembly ports | `rf_*.s`, `*.asm` | as the virtual machine | as the virtual machine |
| Forth programs | `forth/*.fs` | screens | editor, library, tests |
| scripts | `scripts/`, `Makefile` | none | builds, emulators, wait-until-saved |

### How they interact

R/W builds a command text (`I 05 01 /0`), sends it and an EOT, and reads what the
controller answers: SOH, a sector, ACK, EOT for a read; ENQ, EOT and, after the sector
and another EOT, ACK, EOT for a write; or NAK, a message, EOT. The characters go

- through `rf_serial_put` and `rf_serial_get` directly to `rf_persci_putc` and
  `rf_persci_getc` (local system), or
- over a line to `orter`, where `orter_io_pipe_loop` moves them between descriptors and
  two pipes and `process_simple` between the pipes and the controller, or
- over the one line that a machine has for console and disc: `mux.c` sets bit 7 of what
  is for the disc, and `process_mux` sorts what comes into controller and terminal.

Above R/W, BLOCK keeps blocks in a ring of buffers. A failing R/W does not return: ?DISC
or ?ERROR leaves for QUIT through every word that is running.

Forth itself is installed from a disc: `rf_inst` writes headers and code words and a boot
source into bare memory, the machine runs that source, which reads blocks of Forth text,
and `rf_inst_compile`, a code word, compiles each. The result may be saved in a
relocatable format, which `rf_inst` of `link.c` expands in place on another machine.

`orter`'s other commands relay characters between a terminal and a serial port, a TCP
connection or a pseudoteletype, with the pipes and the loop of the disc server.

### What is hard, and what makes each part correct

- **controller**: one buffer for both directions, target of a write kept across a
  response, a file, an image and an ACK that must agree when a stdio call fails between
  them. Correct when the buffer follows the state for any caller, image and file agree on
  what was acknowledged, and a write stays in its sector.
- **pipe**: the offset moves on partial writes and must go back whenever the pipe
  empties. Correct when it is a queue.
- **server**: loops that leave with a character in hand; buffers shorter than an
  answer on each side of a line; signals and hangups anywhere. Correct when the
  host sees a block device, is answered, and the server ends when told.
- **local system**: no flow control and no error returns. Correct when Forth and the
  controller agree at each character whose turn it is.
- **multiplexed line**: two streams through one line and shared pipes, each reader
  throwing away what is for the other. Correct when each stream is a queue and the disc is
  still a block device.
- **bridges**: calls that fail halfway through the opening of several things; two
  pipes in a row, flow control that is seen late, a timer that runs while characters still
  come. Correct when order is kept, the bridge ends, and what outlives the process is put
  back.
- **buffers**: words that fail halfway, two pointers that chase each other round a ring,
  COPY that renames buffers. Correct when BLOCK always gives what was last stored.
- **virtual machine**: numbers that wrap, signed and unsigned, stacks that grow down in
  the same memory as the program, and double arithmetic by hand. Correct when a program
  leaves what it means and a cell that is run is a code word.
- **installer**: branches counted by hand, words that are not found taken for numbers,
  an image expanded over itself. Correct when the program installed, or saved, linked and
  started, means what it was written to.

`PROJECT.json` lists the hazards one by one, with the properties that watch them.

## 2. The modules

    BlockMemory        what the block words promise
      BlockBuffers     the ring of buffers
        BlockBuffersProofs
    BlockDevice        what R/W promises
      Conversation     Forth + a queue of characters each way + controller
        ConversationProofs
        DiscServer     Forth + line + pipes + server + controller
          DiscServerProofs
      DiscMux          Forth and its console + line + pipes + server + controller
          DiscMuxProofs
      LocalDisc        Forth + controller in one process
        LocalDiscProofs
        DiscDriver     R/W and its words          (all four)
        Persci         the controller             (all four)
          PersciCallers  what callers put, as history
            PersciProofs
        Pipes          pipes as values            (DiscServer, DiscMux, Bridge)
    PipeQueue          a pipe on its own, of Pipes
      OrterPipe        array and offset         (proofs in BridgeProofs)
    Session            what orter opens before its loop and closes after it
      Bridge           a session whose loop relays
        BridgeProofs     (of Session and OrterPipe too)
    Cells              numbers of a cell's width, memory, double arithmetic
      DoubleArith      U/ by hand, bit by bit
      Core             memory and code words
        Linker         the relocatable format: saving, linking in place
        ForthMachine   registers, stacks, NEXT, an action for each code word
      MachineProofs      (of DoubleArith and Linker)
      Programs         programs: their text, and what they mean
        Installer      rf_inst and the run that follows  (with ForthMachine)
          Image        an installation saved, linked and started  (with Linker)

**Persci** has the static variables of `persci.c` under shorter names (`state`, `buf`,
`idx`, `target`, `disc`, `file`, `ejected`). `Putc` is `rf_persci_putc` with all it
calls: on EOT that is a whole command or a whole write; `Getc` is `rf_persci_getc`.
`Insert`, `InsertFails`, `InsertBytes`, `Eject` are the functions of those names, called
between transfers as their callers do. `status` says whether `rf_persci_w` has called
`exit` or the code has done something undefined (written to a constant array or past an
image). `suspect` is a history variable: the bytes of a file a caller was *not* told are
written. A command text is one value and a track and sector are one index; an index
and a drive that are too large stand for all such. When fflush fails, `WriteNotFlushed` puts what
the code does into the image: the text of the error message, which was written over the buffer
(`Overlaid`), as many characters of it as the caller had sent.

**PersciCallers** adds history variables: `named`, the place of the last command, if it was an O,
and whether its drive then held a file, and `sent`, how many characters came since the last EOT.
The place is read from the text of the command when its EOT comes, and never from `target`, so
that a target that is stored wrong, overwritten or taken from an earlier command shows.

**Pipes**, **PipeQueue**, **OrterPipe**: a pipe as a queue with an offset (values, then a
specification), and as the array and pointers of `orter_io_pipe_t`. A read or a write of a
descriptor may move any number of characters.

**DiscDriver** is R/W as a sequence of characters sent and received. It takes no part in
how they travel. **DiscServer** composes it with a bounded line each way, the pipes, the
loop and Persci. An iteration of `orter_io_pipe_loop` is `Move` (everything `pselect`
allows), then `Feed` and `Drain` steps of `process_simple`, a character each, as
between any two the host may go on. **DiscMux** does the same with `process_mux`, whose three
loops are `FromSerial`, `FromStdin` and `FromDisc`, and with the console words of `mux.c`;
a character on the line is a record that says for whom it is (bit 7). **LocalDisc** has `main` and
the direct calls. **Conversation** is what is left of DiscServer when one no longer asks where
between R/W and the controller a character is: it has `up`, what R/W has sent and the controller
not taken, and `down`, the other way, and is used in
proofs only, those of DiscServer and of DiscMux. **BlockDevice** is what all promise: one request at a time, a
write stored exactly once before it is acknowledged, a read answered with what is stored, a
refusal only for an empty drive or, of a write, for a disc that fails.

**Session** has the opening and closing of ten commands as a sequence of calls, each of
which may fail; `held` is what they have obtained. Calls that can only fail together are
one step. **Bridge** adds the loop: `Move` is `orter_io_pipe_move` of every pipe,
`ProcessSerial` is `process` of `serial.c` (translation, delay, XON and XOFF, ACK, the
timer), `ProcessOther` those of `tcp.c` and `pty.c`. `up` and `down` are history: what must
still come out on each side.

**BlockBuffers** has USE and PREV as indices in the ring, headers as a number and the UPDATE
bit. BLOCK is atomic but for how it ends (found, read, quits when writing, quits when
reading); FLUSH and COPY are loops, kept in `todo`, each step of which may quit.
**BlockMemory** is what it promises: `view`, what BLOCK gives, and `saved`, the disc. As a
program may store at any time, the refinement alone would let a lost change pass for a store:
`KeepsStores` says of the words that only move blocks that they store nothing.

**Cells** has memory as bytes and cells of `WordSize` bytes in either order, and the double
arithmetic twice, as `rf.c` has: through a type of twice the width and by hand. **DoubleArith**
is the loop of `rf_uslas` by hand, a shift per step.

**Core** has what the next two share: memory, `rf_fp` and the code words; the address
of one is its index in `Codes`, so that a cell that holds no such index cannot be run.

**Linker** is the relocatable format: `SaveChunk` is what `model.fs` does for bytes as they are
(absb, abs) and for cells relative to ORIGIN, to LIMIT or to the table of code words (rto, rtl,
lnk); `Load` puts the image at ORIGIN; `LinkChunk` is a turn of the loop of `link.c`, its move byte
by byte and its fix-up in the memory that the move left. `kept` is history: memory as it was
when it was saved. The hexadecimal that an image travels in is left out. On its own, Linker
saves any memory in any chunks.

**ForthMachine** has the registers, and in memory both stacks.
`NextWord` is NEXT, and every other action a code word of `rf.c` or `io.c`. **Programs** writes
structured programs in two ways: as the text that the proto interpreter reads, with branches
counted in cells as `model.fs` counts them, and as what they mean, on sequences of
values, with neither addresses nor branches. **Installer** is `rf_inst` of `inst.c` (headers,
code words, boot source), then the machine, which reads blocks with the disc words, compiles
them with `compile` and runs the last word but one. **Image** may, instead of running
it, save what was loaded, link it with the actions of Linker and start it with COLD: the chunks
are those that `model.fs` would make of the boot-up literals and the program's definitions.

## 3. The runs

| run | question | result |
|---|---|---|
| controller | Does the controller stay correct when discs fail and callers stray? | holds |
| controller_fflush | Is an acknowledged write in the file? | **no**, after a failing fflush |
| pipe | Is a pipe a queue? | holds |
| disc_server | Is Forth over a line a block device that answers, and does the server end? | holds |
| disc_server_signed | Does every byte of a disc get to the host? | **no**, 0xFF where char is signed |
| local_disc | Is Forth in one process a block device that stays in step? | holds |
| disc_mux | Is it one over a line shared with the console, and is the console in order? | holds |
| buffers | Are the buffers a memory? | holds |
| bridge | Do the bridges keep order, stop, end, and put back what they changed? | holds |
| double_arith | Do division, D+ and DMINUS by hand give the right result? | holds |
| ustar | Does U* by hand? | **no**, a carry is lost |
| forth | Does what was installed, or saved and linked, do what it means? | holds |

What the less obvious properties say:

- `WriteStaysInSector`: while a transfer is under way no drive changes but the one that the last
  O command named, and there only as many bytes as were sent since, from the sector it named on,
  and the gap of a short file before them.
- `StopsOnlyForStrays`: the process exits only for a caller that filled the buffer between two
  EOTs, and does something undefined only for one that sent more than a sector, or gave its
  command when the drive held no file.
- `InStep`: neither word of the local serial line is called when the controller refuses or
  has nothing, and the discs change only between transfers.
- `NothingDropped`, `DiscUndisturbed`: no character is lost where a loop holds one that
  the other side does not take.
- `KeysInOrder`, `ConsoleFifo`: what was typed or printed and has not arrived is on its way,
  in order, over pipes and line.
- `LeftAsFound`: a command that ends of itself leaves terminal, port and file system as it
  found them, with the exceptions of section 5.
- `XoffHolds`: after an XOFF is read, at most a pipe of characters still goes out.
- `OnlyRunsWords`: NEXT never meets a cell that is no code word.
- `RunsAsMeant`: when the program ends, both stacks, what it showed and the keys it took are what
  its meaning says; variables and memory are seen as far as a program pushes them.
- `LinksInPlace`: linking never overwrites what it has still to read, and as far as it has come
  memory is byte for byte what was saved.
- `ImageTypeOK`: types, that the stacks stay in their areas, and that what an
  installation saves is what Linker takes (`LinkerInit`): chunks of at most 31 bytes that end in memory, with a code word wherever `lnk` is used.

### Bounds, and why they are enough

- *Controller*: two drives and two sectors of one byte: two tell the one addressed from another,
  and a sector from an empty write and one that goes on into the next sector or past the disc.
  `BufSize = SectorLen + 3`, as 131 = 128 + 3, and `MaxFrame` is as much, so that callers fill the
  buffer and the process exits. Files are as long as the disc or end within the first sector. For
  fflush one drive with a sector of three bytes, the length of the error text of the model: a short
  write gets its beginning, and a whole sector all of it with the EOT.
- *Pipe*: an array of three and six characters through it: it fills, empties and
  restarts twice with partial writes at each offset.
- *Server*: pipes of three and a line of two, where the longest answer has five
  characters, so that every buffer fills in the middle of an answer. The real pipe, of
  256, is longer than an answer of 131; the small one is the harder case. On the shared
  line pipes and line have two, with two keys and three printed characters on their way.
- *Bridge*: pipes of two and four characters from both sides together; four sets of options,
  between which each option is set and not set. `StdoutWhole`: the terminal takes what it is given
  (section 5 says what happens when it does not).
- *Buffers*: four buffers and three blocks (block 0 is left out: see 5). With
  three buffers BUFFER's step over PREV comes round before FLUSH ends and nothing is left
  unwritten, so FLUSH cannot be judged with fewer than four. `BScr` is 1 in the runs;
  the proofs have any.
- *Double arithmetic*: cells of four bits, with all numerators and divisors. U* needs
  half words of two bits at least to have a carry to lose.
- *Forth*: cells of two bytes and 21 programs which between them use every code word, at the
  edges of signed and unsigned numbers, with loops that wrap and that go by negative steps and by
  zero, branches in branches, an area moved onto itself, words made by DOES>, searches for names
  that are hidden, and texts that end in each of the ways ENCLOSE knows. Each is run,
  and also saved, linked and run. Blocks hold one byte, the name of a piece of text.
- `MaxGiven`, `MaxChars`, `MaxKeys`, `MaxPrints` bound the characters on their way or in
  total; `MaxFrame` those a caller sends between two EOTs, as many as the buffer holds in run
  controller, so that nothing is excluded there.

Deadlock is checked where the system goes on for ever: controller_fflush, buffers and
disc_server_signed. It is off where the system really stops: after the controller has exited or
done something undefined, after the server, the bridge,
`main`, the division or the program of the run has ended, and when a pipe's input has. A
program that stops before its end violates `Halts`.

### Fairness

- `ServerStep` and `LoopStep` are weakly fair: the loop is one thread, `pselect` has a
  timeout of one second, and no call in it blocks.
- `Send` and `Receive` of the host, and `HostStep` of a machine with one line, are weakly fair:
  these words wait for nothing but the line.
- Of a bridge, `ClearToSend` and `EofTimer` are weakly fair (a port takes characters some
  time, and time passes), and so are the steps after the loop. The steps before it are not: a
  connection may never be made.
- The Forth machine is one thread that waits for nothing the runs do not provide.
- Nothing obliges the host to ask, a key or a signal to come or the line to hang up. So
  `RequestAnswered`, `ServerEnds` and `BridgeEnds` are leads-to properties from requests and
  endings that did happen. On the shared line `RequestAnswered` assumes that the keyboard
  rests some time (`KeyboardRests`); section 5 says why.

## 4. The proofs

TLAPS checks these for every value of the constants that satisfies the named assumptions.
Most say what the repository's own constants are like (`SizesAssumption`: a response fits
the buffer; `PipeSizeAssumption`, `ArrayAssumption`, `BuffersAssumption`, `CellAssumption`, `LinkAssumption`,
`BitsAssumption`: what sizes are possible), that characters of the protocol differ
(`BytesAssumption`, `CharAssumption`), which commands and arguments there are (`ModeAssumption`,
`ArgsAssumption`), and that a block is a sector of a disc R/W knows (`HostAssumption`). TLC
evaluates them in every run. Whatever else a theorem needs is a hypothesis that it names.

**PersciProofs.** The invariant `IInv` adds to the types and to BufferFollowsState that the
target of a write names a drive with an image while a write is pending (`TargetPresent`):
without it the step of a write could not be shown to have types. From it, `TypeCorrect` and
`BufferCorrect` hold for any caller. `ImageCorrect` assumes that fflush does not fail (run
controller_fflush shows it must).

`StraysAloneStop` and `WritesStayInSector` are about `CallersSpec`, with the history, for any
caller and any failing call. Their invariant (`HistoryInv`) ties history and controller
while the process runs: when the controller listens, its buffer has as many characters as were sent since
the last EOT; from the answer to an O command until its data is written, the target is the place
that was named, and its drive holds a file if it held one then. What is undefined in a write, given
this, is arithmetic: characters that fit a sector end on the disc (`FrameFits`). What a write does
to image and file is `WriteEffect`, for each of its ways out, that of a failing fflush
included: the image gets the text of an error, but no more of it than was sent (`OverlaidType`).

**LocalDiscProofs.** R/W and the controller take turns at each character and nothing is ever on
its way, so the invariant can say, for each of the eleven places in R/W, the state of the
controller and exactly what its buffer holds and how much of it has been read (`Aligned`): a
sector of which BLOCK-READ has the beginning, a block of which BLOCK-WRITE has sent the
beginning, a target that is the place of the request. `Mounted` says which discs are in as far as
`main` has come; that what is written to holds a file is the reason why the constant array
never is. From these: `TurnsAgree` (InStep), `LocalRunsOn` (KeepsRunning), and
`LocalDiscIsADevice`, where the EOT of a block is the Store of BlockDevice, the EOT of an
answer the answer, and every other character a stutter. The hypothesis `TextOnly` is that no
file, array, block or fresh memory holds an EOT: the protocol cannot carry one, and section 6 says
what happens to it. It also has that fflush does not fail: what such a write stores is not the
block, and may have an EOT in it (finding 1). Every other call may fail.

**ConversationProofs, DiscServerProofs.** With a line between them the two sides still take
turns, but by frames: while R/W has sent less than a frame and its EOT nothing is on its way
back, and while an answer is on its way R/W sends nothing. `Sent(frame, n)` says that what the
controller has in its buffer and what is on its way to it are together the first `n` characters
of the frame; `Given(answer, k, ...)` that what is on its way back and what the controller has
still to give are together what is left of the answer after its first `k`. With these `Aligned`
reads as that of LocalDisc, and `ConversationIsADevice` follows in the same way: now it is the
controller's taking of a block's EOT that is the Store. The hypotheses are `Lawful`, the
assumptions of the modules that use it, and `TextOnly`, for a set `Barred` of bytes that
do not come through; again no fflush fails.

DiscServer then implements Conversation by a mapping with no invariant of its own but types:
`up` is what is in the pipe followed by what is on the line, `down` the line followed by the
pipe. Moving characters between pipe and line is a stutter, whatever part of them is moved.
That the controller never refuses a character (`Accepts`) is what Conversation's
invariant says of a queue that is not empty, and that no character looks like a failure follows
from what may be on its way: so `NothingIsDropped`, with `Barred` the EOT and, where char is
signed, 0xFF. `ServerIsAConversation` and `ConversationIsADevice` give `ServerIsADevice`, for any
size of pipes and line, and with hangups, signals and discs that cannot be put in at any time.
All three assume `TextOnly`, and so that fflush does not fail.

**DiscMuxProofs.** On the shared line each of the three ways that characters go is one queue made
of two or three parts: `Arriving` (the pipe `in` and the line before it), `Leaving` (the line to
the machine and the pipe `out` before it) and `Keyed` (the pipe `muxIn` and what is typed). Moving
any number of characters within one of them changes nothing, and every other step adds one
character at the end or takes the first. `Those(q, d)` is what a queue holds with bit 7 as `d`
says; that it distributes over concatenation and is found character by character
(`ThoseAppend`, `ThoseConcat`, `ThoseFirst`) is proved by induction over the length of the queue.

`PrintedInOrder` and `TypedInOrder` need no hypothesis on discs or on what is sent: the invariant
(`ConsoleInv`) is that `printing` is what `muxOut` holds followed by what `Arriving` holds of
the console's, the same of `typing`, and that all of these are sequences of characters of
*some* set, which may grow as R/W and the controller send more. The one place where a character
could get lost, FromSerial with a character in hand and no room for it, is excluded by its
guard, which asks for room first.

For the disc, `Up` and `Down` are what `Arriving` and `Leaving` hold of the disc's. With these
DiscMux implements Conversation (`MuxIsAConversation`): what the console does is a stutter, for it
adds and takes only characters without bit 7. Conversation's invariant then says that the
controller accepts whenever something is on its way to it, and that nothing of the disc's is on
its way to the machine when R/W is left, however it is left: hence `DiscIsUndisturbed`. The
invariant `Apart` adds that a key is waited for only outside of R/W, and that nothing goes to
the machine before the server runs. `MuxIsADevice` follows from
`ConversationIsADevice`. These three assume `TextOnly`, again with no failing fflush.

**BridgeProofs.** `EverythingRestored`: of the ten commands with any call failing but, in the
nine that are not `orter_serial`, the terminal's tcgetattr and tcsetattr and the port's tcflush:
after these terminal or port are left changed (section 5), and `LeftAsFound` says nothing.
The invariant `SessionInv` says what is held: only what the calls before the current one
obtain, which the order of the calls in each command (`StepOrder`) makes either closed with
the unit or closed by the failing call. `BridgeRelaysInOrder`: `RelayInv` adds the types of the
pipes to the property itself; the rest is that translation distributes over concatenation and that
what a partial move takes from one queue is what it adds to the next (`Split`,
`TranslationOfConcat`). `XoffHoldsWithin`: `FlowInv` says that the flow control seen by the loop
is the last that was read (`FlowKnown`), and that what has gone out since an XOFF and what may still
go is within the pipe (`LateFits`). Its hypothesis `StdoutWhole` is that of the run.

Last, what the pipes of all this are made of, OrterPipe: `InArray`, `EmptyHasRoom` and `Fifo` need each
other, as a slice of the array is the queue only within its bounds, and a read starts at 0
only because the pipe was empty. `PipeImplementsQueue` maps each operation of the array to that of
the queue, with an offset, that Bridge, DiscServer and DiscMux count on.

**BlockBuffersProofs.** Coherence (a block in one buffer, unchanged buffers equal to the
disc, only blocks of the disc changed) is inductive but for COPY, which renames a buffer
without looking for another of that number. `CopyAhead` says what saves it: while COPY
runs, the blocks it has still to give out are in no buffer, and it reads none of them.
That rests on the arithmetic of screens (`ScreensApart`).

`BuffersKeepStores`: moving blocks between buffers and disc never
changes what BLOCK gives. `BuffersImplementMemory`: every step is a step of BlockMemory
or changes nothing of it. Taking a buffer is a Save or a stutter, UPDATE a Store, COPY's
rename a Store of the target. For the last, `CopyClean` is needed: the source was
not changed, so what the rename takes away from the buffers is on the disc.

These assume `Gentle`: reads do not fail, programs leave block 0 alone, and COPY is
used with no buffer for its target and no change pending for its source. Section 5 says what
happens without each. Writes may fail at any time.

Without it, `BuffersTypeCorrect` and `FlushWritesAllButOne` hold: where several buffers have a
block, the search of BLOCK still ends at the one nearest to PREV (`FoundInRing`, by
well-foundedness), and FLUSH leaves one buffer unwritten at most, wherever USE and PREV were
when it began. The invariant is `FlushGoesRound`: once FLUSH has taken a buffer, all that waits
to be written, but one buffer, is less far ahead of USE than there are BUFFERs to come. It
is kept because BUFFER does not step over PREV again: with four buffers or more USE is never
right behind it (`Ring`). With three it may be, and with two it always is; there FLUSH comes
round to what it stepped over, or nothing else is left.

**MachineProofs**, the double arithmetic. For cells of any width, the division by hand is right.
What holds halfway (`Halfway`) is that the part of the numerator shifted in so far is quotient
times divisor plus remainder, while the rest waits above the quotient in the low cell. Each shift
keeps it because the remainder is below a divisor that has no top bit, so that no bit
is lost; when the weight is 1 it says that quotient and remainder are those of the integers.
`BitsAssumption` gives that the weights are powers of two. `DPlusCarries` and
`DMinusBorrows`: a sum has wrapped exactly when it is smaller than a term; `CarriesKept` says so of
the numbers of the run.

**MachineProofs**, the linker. `LinkedInPlace` is about LinkerSpec: whatever memory and whatever
chunks of it are saved, with cells of any width below 32 bytes in either byte order, any ORIGIN
and any LIMIT (`LinkAssumption`; a chunk has five bits for its length). That neither pointer of
`link.c` spoils what the other needs takes three facts. Each chunk has a
flag byte that is read and not written, so that reading is ahead by the number of chunks read
(`Ahead`). A move to
lower addresses, from the lowest byte up, reads each byte before it is written (`MovedDown`), so
that it leaves the chunk, and all from the next flag on, as they were. And what `SavedChunk` made of a
cell, the fix-up undoes: a difference that wrapped comes back by a sum that wraps
(`RelativeRestored`), through the bytes of the cell (`CellOfBytes`, `BytesOfCell`).

The inductive invariant, `LinkerInv`, says so of all chunks at once, as `LinksInPlace` cannot: while
saving, that the image is the first k chunks as `SavedChunk` has them and the rest is still
listed (`Saving`); while linking, that k chunks are linked, both pointers are right after them in
the image and in memory, below them memory is `kept`, and above it is the image (`Linking`). The
chunks themselves are gone from the state by then, so the invariant says that there are some.
LinkerSpec starts where the saving starts, in `LinkerInit`; that every installation of the run
gets there is `ImageTypeOK`, which TLC checks.

What a cell is, what is stored, where a chunk ends and what a move leaves are recursive functions.
That they have the values their equations give (`Stepwise`, `Recursion`), and what follows of those
values, is by `SetInduction`, which takes a set and not an operator and so stands in for the
library's induction.

**Only model-checked**: liveness and everything that needs fairness (`RequestAnswered`,
`ServerEnds`, `BridgeEnds`, `Halts`), with ENABLED in it; and all of Installer
(`RunsAsMeant`, `BlocksInOrder`, `HeadersChain`, `OnlyRunsWords`, types), as
programs nest to any depth (RECURSIVE operators in Programs) and code words use the bits of
numbers (Bitwise in ForthMachine), both out of TLAPS's reach.

## 5. Findings

Three runs show a behaviour that the code's own words exclude:

1. `persci.c:343`: an fflush that fails is answered with ACK, and the image gets the text of
   the error message instead of the data: it was written over the buffer that is then copied to
   the image. In a full sector its 31 characters are whole, and the last is an EOT, which ends a
   later read of the sector early.
2. `persci.c:472`: where char is signed, the byte 0xFF of a disc is taken out of the buffer
   and never sent. Text screens have no such byte; binary ones do.
3. `rf.c:533`: U* by hand loses a carry, so that some products are one too small in the high
   cell. Builds without RF_DOUBLE_ARITH have it: Windows, the QL with C68, the HX-20.

Met on the way, with no run of their own, or stated by the models as what does happen:

- *Buffers*, as in fig-Forth itself, which the code follows. FLUSH may leave one changed block
  unwritten (`model.fs:1479`); `FlushLeavesOne` shows it is never more. A BLOCK that failed to
  read leaves the number on the buffer (`model.fs:967`), to be found later. COPY drops a
  change to its source that is not yet written (`model.fs:1483`). An empty header is that of
  block 0 (`model.fs:964`), so a BLOCK of block 0 may give zeros: programs of the models
  leave block 0 alone. BUFFER avoids the PREV of the moment USE was chosen (`model.fs:948`),
  which a later BLOCK may have moved: the model takes that buffer as the code does, and its
  programs change only the buffer BLOCK gave last, keeping no older address.
- *Controller*: "disc must be not already inserted" (`persci.c:57`) is a test of the file,
  which an image given as bytes does not have.
- *Opening and closing*: a signal before the loop kills `orter` with the terminal raw
  or the port changed (`orter/io.c:324`), and one between the handlers and the clearing of the flag
  is forgotten (`orter/io.c:336`). `orter_io_std_open` and `orter_serial_open` do not undo what they
  did before one of their last calls fails. An unknown baud rate ends with status 0, as errno is not
  set (`orter/serial.c:177`, `orter/serial.c:394`).
- *Bridges*: none ends because the far side has closed, and that of a pseudoteletype ends by
  a signal only. What is still in the second pipe when the input ends, and the port does
  not take, is lost. If the terminal takes nothing, an XOFF waits unseen behind what is in
  the pipes.
- *Shared line*: a keyboard that never rests fills the pipe to the machine before the
  disc's answer gets to it, each time round (`disc.c:255`). Bit 7 of data is cut off
  (`disc.c:264`). Keys typed while R/W runs are thrown away (`mux.c:65`).
- *Installation*: ?DISC of the boot source waits for ever after an error answer
  (`inst.c:474`). A word that is not found is compiled as the number 0 (`inst.c:176`). A branch
  back in the boot source is right for one length of ABORT (`inst.c:488`). A chunk of 32
  bytes or more would run into the bits that say how to relocate it (`link.c:79`).
- *Code words*: (+LOOP) by zero ends the loop, as does an index that wraps past the largest
  number (`rf.c:187`). (FIND) also compares the spaces that align a name. U/ by hand
  refuses divisors with the top bit, which U/ with a double type does not.

## 6. What is not modelled

- The digits of a command, and so `rf_persci_read_int` and its wrap at 256.
- Data that holds control characters: a sector with the byte 4 in it ends early.
- A host that restarts in the middle of a transfer.
- Timing: the delay of `rf_persci_serve`, the length of those of `serial.c`.
- The bits of the terminal settings; a failure of the calls that restore them.
- Of Forth, what is written in Forth above the code words: CREATE, FORGET, vocabularies,
  INTERPRET, QUIT and ERROR; the copy of the finished `model.fs` that the installation
  makes; the hexadecimal in which an image is sent.
- In run forth, divisors with the top bit and products that finding 3 is about: it has the
  arithmetic by hand.
- `disc_create` and the converters of file formats: pure input and output.
- Assembly ports: another processor's instructions. Scripts.

## 7. The plan

Done: controller, pipes, driver, server, shared line, local system, buffers, bridges, double
arithmetic, the machine with installation and linking; proofs of all but the code words and the
installation.

Next, in this order:

1. **PersciCommand** and the arithmetic of **R/W**: block number to drive, track and sector
   and back, over all block numbers; where a number of three digits wraps.
2. **Host restarts** in DiscServer: what the controller takes the next command for.
3. LocalDisc with BlockBuffers above it: buffers across a change of discs.
4. **Dictionary and Interpreter**: headers and vocabularies under CREATE and FORGET; QUIT and
   ERROR, and what LOAD leaves behind when a screen fails.
