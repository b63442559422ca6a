--------------------------------- MODULE Core ---------------------------------
(***************************************************************************)
(* What the Forth machine, its installation and the linker have in common: *)
(* memory, the code words, and rf_fp, which says what is to run.           *)
(*                                                                         *)
(* Memory is bytes.  The address of a code word is its index in Codes; a   *)
(* cell that does not hold one cannot be run.                              *)
(***************************************************************************)
EXTENDS Cells

CONSTANTS
  Size,    \* of memory
  Origin   \* RF_ORIGIN

VARIABLES
  mem,
  fp   \* rf_fp, or what runs instead of the trampoline: "inst", "compiling",
       \* "saving" or "linking"

\* rf_inst_codes of src/inst.c, codes of src/link.c
Codes == <<
  "cl", "cs", "ln", "lit", "exec", "bran", "zbran", "xloop", "xploo", "xdo", "digit", "pfind",
  "encl", "emit", "emit", "key", "qterm", "cr", "cmove", "ustar", "uslas", "andd", "orr", "xorr",
  "spat", "spsto", "rpsto", "semis", "leave", "tor", "fromr", "rr", "zequ", "zless", "plus",
  "dplus", "minus", "dminu", "over", "drop", "swap", "dup", "pstor", "toggl", "at", "cat",
  "store", "cstor", "docol", "docon", "dovar", "douse", "dodoe", "cold", "stod", "dchar",
  "bwrit", "bread", "mon", "compile" >>

CodeOf(name) == CHOOSE i \in 1 .. Len(Codes) : Codes[i] = name

\* A move that is right for areas that overlap.
MovedWhole(m, from, to, count) ==
  [a \in DOMAIN m |-> IF a \in to .. to + count - 1 THEN m[a - to + from] ELSE m[a]]

\* From the lowest address up, so that an area that is moved onto its own next
\* byte is filled with its first.
Moved(m, from, to, count) ==
  LET move[i \in 0 .. count] ==
        IF i = 0 THEN m
        ELSE [move[i - 1] EXCEPT ![to + i - 1] = move[i - 1][from + i - 1]]
  IN  move[count]

\* A cell as it is in memory, and cells one after the other, from an address on.
BytesOf(n) == Stored([i \in 0 .. WordSize - 1 |-> 0], 0, n)
Table(at, cells) ==
  [a \in at .. at + Len(cells) * WordSize - 1 |->
     BytesOf(cells[1 + ((a - at) \div WordSize)])[(a - at) % WordSize]]

=============================================================================
