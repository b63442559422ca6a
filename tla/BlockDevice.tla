----------------------------- MODULE BlockDevice -----------------------------
(***************************************************************************)
(* What R/W of model.fs is to the rest of Forth: a store of blocks that    *)
(* answers one request at a time.  A write that is answered is stored, a   *)
(* write that is refused is not, and a read is answered with what is       *)
(* stored.  DiscServer implements it over a serial line, and LocalDisc     *)
(* inside the process.                                                     *)
(***************************************************************************)
EXTENDS Sequences

CONSTANTS
  Place,   \* where a block can be: records of a drive and a sector
  Block,   \* what a block can hold
  Faulty   \* whether the discs may fail to be written

\* A request for a place; a read carries no data.
Request ==
  [op : {"I"}, place : Place, data : {<<>>}] \cup
  [op : {"O"}, place : Place, data : Block]

NoAnswer == [kind |-> "none", data |-> <<>>]
Refusal  == [kind |-> "error", data |-> <<>>]
Ok(data) == [kind |-> "ok", data |-> data]

VARIABLES
  store,    \* the block at each place, <<>> where there is no disc
  phase,    \* "idle", "asked", or "stored" between a write and its answer
  request,  \* the last request
  answer    \* the answer to it, once there is one

vars == <<store, phase, request, answer>>

Init ==
  /\ store \in [Place -> {<<>>}]
  /\ phase = "idle"
  /\ answer = NoAnswer

\* Discs are put in drives that have none.
Mount ==
  /\ DOMAIN store' = Place
  /\ \A p \in Place : store[p] # <<>> => store'[p] = store[p]
  /\ UNCHANGED <<phase, request, answer>>

\* Discs are taken out between requests.
Unmount ==
  /\ phase = "idle"
  /\ DOMAIN store' = Place
  /\ \A p \in Place : store'[p] \in {store[p], <<>>}
  /\ UNCHANGED <<phase, request, answer>>

Ask ==
  /\ phase = "idle"
  /\ request' \in Request
  /\ phase' = "asked"
  /\ answer' = NoAnswer
  /\ UNCHANGED store

Store ==
  /\ phase = "asked" /\ request.op = "O"
  /\ store[request.place] # <<>>
  /\ store' = [store EXCEPT ![request.place] = request.data]
  /\ phase' = "stored"
  /\ UNCHANGED <<request, answer>>

AnswerWrite ==
  /\ phase = "stored"
  /\ phase' = "idle"
  /\ answer' = Ok(<<>>)
  /\ UNCHANGED <<store, request>>

AnswerRead ==
  /\ phase = "asked" /\ request.op = "I"
  /\ store[request.place] # <<>>
  /\ phase' = "idle"
  /\ answer' = Ok(store[request.place])
  /\ UNCHANGED <<store, request>>

\* A request is refused for no other reason than these two.
Refuse ==
  /\ phase = "asked"
  /\ store[request.place] = <<>> \/ (Faulty /\ request.op = "O")
  /\ phase' = "idle"
  /\ answer' = Refusal
  /\ UNCHANGED <<store, request>>

Next ==
  \/ Mount \/ Unmount
  \/ Ask \/ Store \/ AnswerWrite \/ AnswerRead \/ Refuse

Spec == Init /\ [][Next]_vars

=============================================================================
