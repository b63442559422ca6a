----------------------------- MODULE BridgeProofs -----------------------------
(***************************************************************************)
(* Proofs about Bridge and the Session it runs in, for pipes of any size   *)
(* and any alphabet: what a command leaves behind when it ends, the order  *)
(* of the characters in both directions, and what still goes to the port   *)
(* after an XOFF.  Last, what a pipe itself is made of (OrterPipe): its    *)
(* array holds its characters, loses none, and implements the queue.       *)
(***************************************************************************)
EXTENDS Bridge, OrterPipe, SequenceTheorems, TLAPS

-----------------------------------------------------------------------------
(* The session.                                                            *)

AllSteps ==
  {"std fcntl", "std tcgetattr", "std tcsetattr",
   "open", "tcgetattr", "baud", "tcsetattr", "tcflush",
   "socket", "connect", "listen", "accept", "openpty", "symlink", "insert"}

Commands ==
  {"serial", "tcp client", "tcp server", "pty", "disc standard", "disc mux",
   "disc serial", "disc pty", "disc tcp client", "disc tcp server"}

\* The lists of steps that the commands are made of.
LEMMA Parts ==
  /\ StdSteps \in Seq(AllSteps) /\ Len(StdSteps) = 3
  /\ StdSteps[1] = "std fcntl" /\ StdSteps[2] = "std tcgetattr" /\ StdSteps[3] = "std tcsetattr"
  /\ SerialSteps \in Seq(AllSteps) /\ Len(SerialSteps) = 5
  /\ SerialSteps[1] = "open" /\ SerialSteps[2] = "tcgetattr" /\ SerialSteps[3] = "baud"
  /\ SerialSteps[4] = "tcsetattr" /\ SerialSteps[5] = "tcflush"
  /\ ClientSteps \in Seq(AllSteps) /\ Len(ClientSteps) = 2
  /\ ClientSteps[1] = "socket" /\ ClientSteps[2] = "connect"
  /\ ServerSteps \in Seq(AllSteps) /\ Len(ServerSteps) = 3
  /\ ServerSteps[1] = "socket" /\ ServerSteps[2] = "listen" /\ ServerSteps[3] = "accept"
  /\ PtySteps \in Seq(AllSteps) /\ Len(PtySteps) = 2
  /\ PtySteps[1] = "openpty" /\ PtySteps[2] = "symlink"
  /\ <<"insert">> \in Seq(AllSteps) /\ Len(<<"insert">>) = 1 /\ <<"insert">>[1] = "insert"
BY DEF AllSteps, StdSteps, SerialSteps, ClientSteps, ServerSteps, PtySteps

\* What is common to two lists, one after the other.
LEMMA OneAfterAnother ==
  ASSUME NEW s \in Seq(AllSteps), NEW t \in Seq(AllSteps)
  PROVE  /\ s \o t \in Seq(AllSteps) /\ Len(s \o t) = Len(s) + Len(t)
         /\ \A j \in 1 .. Len(s \o t) :
              \/ j <= Len(s) /\ (s \o t)[j] = s[j]
              \/ j > Len(s) /\ (s \o t)[j] = t[j - Len(s)] /\ j - Len(s) \in 1 .. Len(t)
<1>1. Len(s) \in Nat /\ Len(t) \in Nat
  BY LenProperties
<1> QED
  BY <1>1, ConcatProperties

\* What the step at the head of the list says of the ones before it, when it is a
\* step that does not close all.
Before(earlier, step) ==
  /\ Unit(step) = "std" => step # "std fcntl"
  /\ Unit(step) = "serial" =>
       \/ Unit(earlier) = "std"
       \/ Unit(earlier) = "serial" /\ (earlier = "tcsetattr" => step = "tcflush")
  /\ Unit(step) \in {"tcp", "pty"} => Unit(earlier) \in {"std", Unit(step)}

Ordered(list) ==
  \A i, j \in 1 .. Len(list) : i < j => Before(list[i], list[j])

\* The unit of each step.
LEMMA UnitOf ==
  /\ Unit("std fcntl") = "std" /\ Unit("std tcgetattr") = "std"
  /\ Unit("std tcsetattr") = "std"
  /\ Unit("open") = "serial" /\ Unit("tcgetattr") = "serial" /\ Unit("baud") = "serial"
  /\ Unit("tcsetattr") = "serial" /\ Unit("tcflush") = "serial"
  /\ Unit("socket") = "tcp" /\ Unit("connect") = "tcp" /\ Unit("listen") = "tcp"
  /\ Unit("accept") = "tcp"
  /\ Unit("openpty") = "pty" /\ Unit("symlink") = "pty"
  /\ Unit("insert") = "insert"
BY DEF Unit

\* Each part belongs to one unit.
LEMMA PartsOrdered ==
  /\ \A i \in 1 .. 3 : Unit(StdSteps[i]) = "std" /\ (i # 1 => StdSteps[i] # "std fcntl")
  /\ \A i \in 1 .. 5 : /\ Unit(SerialSteps[i]) = "serial"
                       /\ SerialSteps[i] = "tcsetattr" => i = 4
                       /\ i = 5 => SerialSteps[i] = "tcflush"
  /\ \A i \in 1 .. 2 : Unit(ClientSteps[i]) = "tcp" /\ Unit(PtySteps[i]) = "pty"
  /\ \A i \in 1 .. 3 : Unit(ServerSteps[i]) = "tcp"
<1>1. ASSUME NEW i \in 1 .. 3
      PROVE  Unit(StdSteps[i]) = "std" /\ (i # 1 => StdSteps[i] # "std fcntl")
  <2>1. CASE i = 1
    BY <2>1, Parts, UnitOf
  <2>2. CASE i = 2
    BY <2>2, Parts, UnitOf
  <2>3. CASE i = 3
    BY <2>3, Parts, UnitOf
  <2>4. i = 1 \/ i = 2 \/ i = 3
    OBVIOUS
  <2> QED
    BY <2>1, <2>2, <2>3, <2>4
<1>2. ASSUME NEW i \in 1 .. 5
      PROVE  /\ Unit(SerialSteps[i]) = "serial"
             /\ SerialSteps[i] = "tcsetattr" => i = 4
             /\ i = 5 => SerialSteps[i] = "tcflush"
  <2>1. CASE i = 1
    BY <2>1, Parts, UnitOf
  <2>2. CASE i = 2
    BY <2>2, Parts, UnitOf
  <2>3. CASE i = 3
    BY <2>3, Parts, UnitOf
  <2>4. CASE i = 4
    BY <2>4, Parts, UnitOf
  <2>5. CASE i = 5
    BY <2>5, Parts, UnitOf
  <2> QED
    BY <2>1, <2>2, <2>3, <2>4, <2>5
<1>3. ASSUME NEW i \in 1 .. 2
      PROVE  Unit(ClientSteps[i]) = "tcp" /\ Unit(PtySteps[i]) = "pty"
  <2>1. CASE i = 1
    BY <2>1, Parts, UnitOf
  <2>2. CASE i = 2
    BY <2>2, Parts, UnitOf
  <2> QED
    BY <2>1, <2>2
<1>4. ASSUME NEW i \in 1 .. 3
      PROVE  Unit(ServerSteps[i]) = "tcp"
  <2>1. CASE i = 1
    BY <2>1, Parts, UnitOf
  <2>2. CASE i = 2
    BY <2>2, Parts, UnitOf
  <2>3. CASE i = 3
    BY <2>3, Parts, UnitOf
  <2> QED
    BY <2>1, <2>2, <2>3
<1> QED
  BY <1>1, <1>2, <1>3, <1>4

\* Two lists in a row are ordered when both are, and each step of the first may
\* come before each of the second.
LEMMA OrderedConcat ==
  ASSUME NEW s \in Seq(AllSteps), NEW t \in Seq(AllSteps), Ordered(s), Ordered(t),
         \A i \in 1 .. Len(s), j \in 1 .. Len(t) : Before(s[i], t[j])
  PROVE  Ordered(s \o t)
<1>1. Len(s) \in Nat /\ Len(t) \in Nat
  BY LenProperties
<1> SUFFICES ASSUME NEW i \in 1 .. Len(s \o t), NEW j \in 1 .. Len(s \o t), i < j
             PROVE  Before((s \o t)[i], (s \o t)[j])
  BY DEF Ordered
<1>2. /\ \/ i <= Len(s) /\ (s \o t)[i] = s[i]
         \/ i > Len(s) /\ (s \o t)[i] = t[i - Len(s)] /\ i - Len(s) \in 1 .. Len(t)
      /\ \/ j <= Len(s) /\ (s \o t)[j] = s[j]
         \/ j > Len(s) /\ (s \o t)[j] = t[j - Len(s)] /\ j - Len(s) \in 1 .. Len(t)
      /\ Len(s \o t) = Len(s) + Len(t)
  BY OneAfterAnother
<1>3. CASE j <= Len(s)
  BY <1>1, <1>2, <1>3 DEF Ordered
<1>4. CASE i <= Len(s) /\ j > Len(s)
  BY <1>1, <1>2, <1>4
<1>5. CASE i > Len(s)
  BY <1>1, <1>2, <1>5 DEF Ordered
<1> QED
  BY <1>1, <1>2, <1>3, <1>4, <1>5

\* The steps of every command but orter serial are ordered.
LEMMA StepOrder ==
  ASSUME NEW m \in Commands
  PROVE  Steps(m) \in Seq(AllSteps) /\ (m # "serial" => Ordered(Steps(m)))
<1> DEFINE insert == <<"insert">>
<1>1. insert \in Seq(AllSteps) /\ Len(insert) = 1 /\ insert[1] = "insert"
  BY Parts
<1> HIDE DEF insert
<1>2. Ordered(StdSteps) /\ Ordered(SerialSteps)
  <2>1. ASSUME NEW i \in 1 .. 3, NEW j \in 1 .. 3, i < j
        PROVE  Before(StdSteps[i], StdSteps[j])
    <3>1. j # 1
      BY <2>1
    <3> QED
      BY <3>1, PartsOrdered DEF Before
  <2>2. ASSUME NEW i \in 1 .. 5, NEW j \in 1 .. 5, i < j
        PROVE  Before(SerialSteps[i], SerialSteps[j])
    <3>1. i = 4 => j = 5
      BY <2>2
    <3> QED
      BY <3>1, PartsOrdered DEF Before
  <2> QED
    BY <2>1, <2>2, Parts DEF Ordered
<1>3. Ordered(ClientSteps) /\ Ordered(ServerSteps) /\ Ordered(PtySteps) /\ Ordered(insert)
  <2>1. \A x, y : \/ Unit(x) = "tcp" /\ Unit(y) = "tcp"
                  \/ Unit(x) = "pty" /\ Unit(y) = "pty"
                  => Before(x, y)
    BY DEF Before
  <2>2. Ordered(insert)
    BY <1>1 DEF Ordered
  <2>3. ASSUME NEW i \in 1 .. 2, NEW j \in 1 .. 2
        PROVE  Before(ClientSteps[i], ClientSteps[j]) /\ Before(PtySteps[i], PtySteps[j])
    BY <2>1, PartsOrdered
  <2>4. ASSUME NEW i \in 1 .. 3, NEW j \in 1 .. 3
        PROVE  Before(ServerSteps[i], ServerSteps[j])
    BY <2>1, PartsOrdered
  <2> QED
    BY <2>2, <2>3, <2>4, Parts DEF Ordered
<1>4. \A x : \A j \in 1 .. Len(insert) : Before(x, insert[j])
  <2>1. \A j \in 1 .. Len(insert) : insert[j] = "insert"
    BY <1>1
  <2>2. \A x : Before(x, "insert")
    BY UnitOf DEF Before
  <2> QED
    BY <2>1, <2>2
<1>5. ASSUME NEW s \in {StdSteps, SerialSteps, ClientSteps, ServerSteps, PtySteps}
      PROVE  s \o insert \in Seq(AllSteps) /\ Ordered(s \o insert)
  <2>1. \A i \in 1 .. Len(s), j \in 1 .. Len(insert) : Before(s[i], insert[j])
    BY <1>4
  <2> QED
    BY <1>1, <1>2, <1>3, <2>1, Parts, OneAfterAnother, OrderedConcat
<1>6. ASSUME NEW t \in Seq(AllSteps), Ordered(t),
             \A j \in 1 .. Len(t) : Unit(t[j]) # "std"
      PROVE  StdSteps \o t \in Seq(AllSteps) /\ Ordered(StdSteps \o t)
  <2>1. \A i \in 1 .. Len(StdSteps), j \in 1 .. Len(t) : Before(StdSteps[i], t[j])
    BY <1>6, Parts, PartsOrdered DEF Before
  <2> QED
    BY <1>2, <1>6, <2>1, Parts, OneAfterAnother, OrderedConcat
<1>7. CASE m = "serial"
  BY <1>7, Parts, OneAfterAnother DEF Steps
<1>8. CASE m = "tcp client"
  <2>1. Steps(m) = StdSteps \o ClientSteps
    BY <1>8 DEF Steps
  <2> QED
    BY <1>3, <1>6, <2>1, Parts, PartsOrdered
<1>9. CASE m = "tcp server"
  <2>1. Steps(m) = StdSteps \o ServerSteps
    BY <1>9 DEF Steps
  <2> QED
    BY <1>3, <1>6, <2>1, Parts, PartsOrdered
<1>10. CASE m = "pty"
  <2>1. Steps(m) = StdSteps \o PtySteps
    BY <1>10 DEF Steps
  <2> QED
    BY <1>3, <1>6, <2>1, Parts, PartsOrdered
<1>11. CASE m = "disc standard"
  <2>1. Steps(m) = StdSteps \o insert
    BY <1>11 DEF Steps, insert
  <2> QED
    BY <1>5, <2>1
<1>12. CASE m = "disc mux"
  <2>1. Steps(m) = (StdSteps \o SerialSteps) \o insert
    BY <1>12 DEF Steps, insert
  <2>2. StdSteps \o SerialSteps \in Seq(AllSteps) /\ Ordered(StdSteps \o SerialSteps)
    BY <1>2, <1>6, Parts, PartsOrdered
  <2>3. \A i \in 1 .. Len(StdSteps \o SerialSteps), j \in 1 .. Len(insert) :
          Before((StdSteps \o SerialSteps)[i], insert[j])
    BY <1>4
  <2> QED
    BY <1>1, <1>3, <2>1, <2>2, <2>3, OneAfterAnother, OrderedConcat
<1>13. CASE m \in {"disc serial", "disc pty", "disc tcp client", "disc tcp server"}
  <2>1. Steps(m) \in {SerialSteps \o insert, PtySteps \o insert,
                      ClientSteps \o insert, ServerSteps \o insert}
    BY <1>13 DEF Steps, insert
  <2> QED
    BY <1>5, <2>1
<1> QED
  BY <1>7, <1>8, <1>9, <1>10, <1>11, <1>12, <1>13 DEF Commands

\* What a step leaves behind is closed with its unit, and only three kinds of
\* steps leave something that outlives the process.
LEMMA ObtainedIsClosed ==
  ASSUME NEW step \in AllSteps
  PROVE  /\ Unit(step) = "insert" => Obtained(step) = {}
         /\ Unit(step) # "insert" => Obtained(step) \subseteq Closed(Unit(step))
         /\ Unit(step) \in {"std", "serial", "tcp", "pty", "insert"}
         /\ Unit(step) = "serial" /\ step # "tcsetattr" => Obtained(step) \cap Lasting = {}
         /\ Unit(step) = "std" => step \in {"std fcntl", "std tcgetattr", "std tcsetattr"}
<1>1. CASE step \in {"std fcntl", "std tcgetattr", "std tcsetattr"}
  BY <1>1 DEF Unit, Obtained, Closed
<1>2. CASE step \in {"open", "tcgetattr", "baud", "tcsetattr", "tcflush"}
  BY <1>2 DEF Unit, Obtained, Closed, Lasting
<1>3. CASE step \in {"socket", "connect", "listen", "accept"}
  BY <1>3 DEF Unit, Obtained, Closed
<1>4. CASE step \in {"openpty", "symlink"}
  BY <1>4 DEF Unit, Obtained, Closed
<1>5. CASE step = "insert"
  BY <1>5 DEF Unit, Obtained
<1> QED
  BY <1>1, <1>2, <1>3, <1>4, <1>5 DEF AllSteps

\* The first k steps have been done: the others are left, and these have left all
\* that is held.
DoneSteps(k) ==
  /\ todo = SubSeq(Steps(mode), k + 1, Len(Steps(mode)))
  /\ \A x \in held : \E i \in 1 .. k : x \in Obtained(Steps(mode)[i])

SessionInv ==
  /\ mode \in Mode
  /\ phase # "ended" => failed = "none" /\ \E k \in 0 .. Len(Steps(mode)) : DoneSteps(k)
  /\ LeftAsFound

LEMMA InitSession == SessionInit => SessionInv
<1> SUFFICES ASSUME SessionInit PROVE SessionInv
  OBVIOUS
<1>1. mode \in Commands
  BY ModeAssumption DEF SessionInit, Commands
<1>2. Steps(mode) \in Seq(AllSteps) /\ Len(Steps(mode)) \in Nat
  BY <1>1, StepOrder, LenProperties
<1>3. DoneSteps(0)
  BY <1>2, SubSeqFull DEF SessionInit, DoneSteps
<1> QED
  BY <1>2, <1>3 DEF SessionInit, SessionInv, LeftAsFound

\* A step is done, and one more has been.
LEMMA StepDone ==
  ASSUME SessionInv, StepSucceeds
  PROVE  \E k \in 0 .. Len(Steps(mode)) : DoneSteps(k)'
<1> DEFINE list == Steps(mode)
<1>1. PICK k \in 0 .. Len(list) : DoneSteps(k)
  BY DEF SessionInv, StepSucceeds
<1>2. list \in Seq(AllSteps) /\ Len(list) \in Nat
  BY ModeAssumption, StepOrder, LenProperties DEF SessionInv, Commands
<1>3. todo = SubSeq(list, k + 1, Len(list)) /\ todo # <<>>
  BY <1>1 DEF DoneSteps, StepSucceeds
<1>4. k + 1 \in 1 .. Len(list)
  BY <1>2, <1>3, SubSeqEmpty
<1>5. Head(todo) = list[k + 1] /\ Tail(todo) = SubSeq(list, (k + 1) + 1, Len(list))
  BY <1>2, <1>3, <1>4, HeadTailOfSubSeq
<1>6. \A x \in held' : \E i \in 1 .. k + 1 : x \in Obtained(list[i])
  BY <1>1, <1>4, <1>5 DEF DoneSteps, StepSucceeds
<1>7. mode' = mode /\ todo' = SubSeq(list, (k + 1) + 1, Len(list))
  BY <1>5 DEF StepSucceeds
<1>8. DoneSteps(k + 1)'
  BY <1>6, <1>7 DEF DoneSteps
<1> QED
  BY <1>4, <1>8

\* What a failed step leaves behind.
LEMMA StepFailsLeaves ==
  ASSUME SessionInv, StepFails
  PROVE  LeftAsFound'
<1> DEFINE list == Steps(mode)
           step == Head(todo)
<1>1. PICK k \in 0 .. Len(list) : DoneSteps(k)
  BY DEF SessionInv, StepFails
<1>2. mode \in Commands /\ list \in Seq(AllSteps) /\ Len(list) \in Nat
  BY ModeAssumption, StepOrder, LenProperties DEF SessionInv, Commands
<1>3. todo = SubSeq(list, k + 1, Len(list)) /\ todo # <<>>
  BY <1>1 DEF DoneSteps, StepFails
<1>4. k + 1 \in 1 .. Len(list)
  BY <1>2, <1>3, SubSeqEmpty
<1>5. step = list[k + 1] /\ step \in AllSteps
  <2>1. step = list[k + 1]
    BY <1>2, <1>3, <1>4, HeadTailOfSubSeq
  <2> QED
    BY <1>2, <1>4, <2>1, ElementOfSeq
<1> HIDE DEF step
<1>6. /\ held' = held \ UNION {Closed(u) : u \in ClosedUpon(step)}
      /\ failed' = step /\ mode' = mode
  BY DEF StepFails, After, step
<1> SUFFICES ASSUME NEW x \in held' \cap Lasting
             PROVE  mode # "serial" /\ step \in {"std tcgetattr", "std tcsetattr", "tcflush"}
  BY <1>6 DEF LeftAsFound, Clean, Lasting
<1>7. PICK i \in 1 .. k : x \in Obtained(list[i])
  BY <1>1, <1>6 DEF DoneSteps
<1> DEFINE earlier == list[i]
<1>8. earlier \in AllSteps /\ i \in 1 .. Len(list)
  BY <1>2, <1>4, <1>7, ElementOfSeq
<1>9. x \in Obtained(earlier) /\ Unit(earlier) # "insert" /\ x \in Closed(Unit(earlier))
  BY <1>7, <1>8, ObtainedIsClosed
<1>10. Unit(earlier) \in Units
  BY <1>8, <1>9 DEF Units, StepsOf
<1>11. Unit(earlier) \notin ClosedUpon(step)
  BY <1>6, <1>9
<1>12. mode # "serial" /\ Unit(step) # "insert"
  BY <1>10, <1>11 DEF ClosedUpon
<1>13. Before(earlier, step)
  <2>1. i < k + 1
    BY <1>7
  <2> QED
    BY <1>2, <1>4, <1>5, <1>8, <1>12, <2>1, StepOrder DEF Ordered
<1> HIDE DEF earlier
<1>14. CASE Unit(step) = "std"
  BY <1>5, <1>12, <1>13, <1>14, ObtainedIsClosed DEF Before
<1>15. CASE Unit(step) = "serial"
  <2>1. Unit(earlier) # "std"
    BY <1>10, <1>11, <1>12, <1>15 DEF ClosedUpon
  <2>2. Unit(earlier) = "serial" /\ (earlier = "tcsetattr" => step = "tcflush")
    BY <1>13, <1>15, <2>1 DEF Before
  <2>3. earlier = "tcsetattr"
    BY <1>8, <1>9, <2>2, ObtainedIsClosed DEF earlier
  <2> QED
    BY <1>12, <2>2, <2>3
<1>16. CASE Unit(step) \in {"tcp", "pty"}
  BY <1>10, <1>11, <1>12, <1>13, <1>16 DEF Before, ClosedUpon
<1> QED
  BY <1>5, <1>12, <1>14, <1>15, <1>16, ObtainedIsClosed

\* Closing every unit leaves nothing.
LEMMA CloseLeavesNothing ==
  ASSUME SessionInv, phase # "ended"
  PROVE  After(Units) = {}
<1>1. PICK k \in 0 .. Len(Steps(mode)) : DoneSteps(k)
  BY DEF SessionInv
<1>2. Steps(mode) \in Seq(AllSteps) /\ Len(Steps(mode)) \in Nat
  BY ModeAssumption, StepOrder, LenProperties DEF SessionInv, Commands
<1> SUFFICES ASSUME NEW x \in held PROVE \E u \in Units : x \in Closed(u)
  BY DEF After
<1>3. PICK i \in 1 .. k : x \in Obtained(Steps(mode)[i])
  BY <1>1 DEF DoneSteps
<1>4. i \in 1 .. Len(Steps(mode)) /\ Steps(mode)[i] \in AllSteps
  BY <1>2, <1>3, ElementOfSeq
<1>5. Unit(Steps(mode)[i]) # "insert" /\ x \in Closed(Unit(Steps(mode)[i]))
  BY <1>3, <1>4, ObtainedIsClosed
<1> QED
  BY <1>4, <1>5 DEF Units, StepsOf

\* A client that tries again starts with nothing held.
LEMMA RetryLeavesNothing ==
  ASSUME SessionInv, StepRetried
  PROVE  held' = {}
<1> DEFINE insert == <<"insert">>
           list == Steps(mode)
<1>1. PICK k \in 0 .. Len(list) : DoneSteps(k)
  BY DEF SessionInv, StepRetried
<1>2. list = ClientSteps \o insert
  BY DEF StepRetried, Retries, Steps
<1>3. insert \in Seq(AllSteps) /\ Len(insert) = 1 /\ insert[1] = "insert"
  BY Parts
<1> HIDE DEF insert, list
<1>4. ClientSteps \in Seq(AllSteps) /\ Len(ClientSteps) = 2
  BY Parts
<1>5. /\ list \in Seq(AllSteps) /\ Len(list) = Len(ClientSteps) + Len(insert)
      /\ \A j \in 1 .. Len(list) :
           \/ j <= Len(ClientSteps) /\ list[j] = ClientSteps[j]
           \/ list[j] = insert[j - Len(ClientSteps)] /\ j - Len(ClientSteps) \in 1 .. Len(insert)
  BY <1>2, <1>3, <1>4, OneAfterAnother
<1>6. \A i \in 1 .. Len(list) : list[i] \in AllSteps /\ Unit(list[i]) \in {"tcp", "insert"}
  <2> SUFFICES ASSUME NEW i \in 1 .. Len(list)
               PROVE  list[i] \in AllSteps /\ Unit(list[i]) \in {"tcp", "insert"}
    OBVIOUS
  <2>1. list[i] \in AllSteps
    BY <1>5, ElementOfSeq
  <2>2. CASE i <= Len(ClientSteps) /\ list[i] = ClientSteps[i]
    <3>1. i \in 1 .. 2
      BY <1>4, <2>2
    <3> QED
      BY <2>1, <2>2, <3>1, PartsOrdered
  <2>3. CASE list[i] = insert[i - Len(ClientSteps)] /\ i - Len(ClientSteps) \in 1 .. Len(insert)
    <3>1. i - Len(ClientSteps) = 1
      BY <1>3, <1>4, <2>3
    <3> QED
      BY <1>3, <2>1, <2>3, <3>1, UnitOf
  <2> QED
    BY <1>5, <2>2, <2>3
<1>7. ASSUME NEW x \in held PROVE x \in Closed("tcp")
  <2>1. PICK i \in 1 .. k : x \in Obtained(list[i])
    BY <1>1 DEF DoneSteps, list
  <2>2. i \in 1 .. Len(list)
    <3>1. Len(list) \in Nat
      BY <1>3, <1>4, <1>5
    <3> QED
      BY <3>1
  <2> QED
    BY <1>6, <2>1, <2>2, ObtainedIsClosed
<1> QED
  BY <1>7 DEF StepRetried, After

LEMMA NextSession ==
  ASSUME SessionInv, SessionStep \/ UNCHANGED <<mode, todo, held, phase, failed>>
  PROVE  SessionInv'
<1>1. CASE StepSucceeds
  BY <1>1, StepDone DEF SessionInv, StepSucceeds, LeftAsFound
<1>2. CASE StepRetried
  <2>1. mode \in Commands
    BY ModeAssumption DEF SessionInv, Commands
  <2>2. Steps(mode) \in Seq(AllSteps) /\ Len(Steps(mode)) \in Nat
    BY <2>1, StepOrder, LenProperties
  <2>3. DoneSteps(0)'
    BY <1>2, <2>2, RetryLeavesNothing, SubSeqFull DEF StepRetried, DoneSteps
  <2> QED
    BY <1>2, <2>2, <2>3 DEF SessionInv, StepRetried, LeftAsFound
<1>3. CASE StepFails
  BY <1>3, StepFailsLeaves DEF SessionInv, StepFails
<1>4. CASE Close
  <2>1. held' = {}
    BY <1>4, CloseLeavesNothing DEF Close
  <2> QED
    BY <1>4, <2>1 DEF SessionInv, Close, LeftAsFound, Clean
<1>5. CASE SignalKills
  BY <1>5 DEF SessionInv, SignalKills, LeftAsFound
<1>6. CASE \/ InstallHandlers \/ StartLoop \/ EndLoop \/ Handler
           \/ UNCHANGED <<mode, todo, held, phase, failed>>
  <2>1. UNCHANGED <<mode, todo, held, failed>>
    BY <1>6 DEF InstallHandlers, StartLoop, EndLoop, Handler
  <2>2. \A k : DoneSteps(k) => DoneSteps(k)'
    BY <2>1 DEF DoneSteps
  <2>3. (phase # "ended" /\ phase' # "ended") \/ phase' = phase
    BY <1>6 DEF InstallHandlers, StartLoop, EndLoop, Handler
  <2> QED
    BY <2>1, <2>2, <2>3 DEF SessionInv, LeftAsFound, Clean
<1> QED
  BY <1>1, <1>2, <1>3, <1>4, <1>5, <1>6 DEF SessionStep

\* Whatever relays the characters, the session makes its own steps or none.
LEMMA SessionOfNext ==
  ASSUME [Next]_vars
  PROVE  SessionStep \/ UNCHANGED <<mode, todo, held, phase, failed>>
BY DEF Next, vars, session, LoopStep, Move, ProcessSerial, ProcessOther, DiscLoop, Type,
       StdinEof, PortSends, ClearToSend, EofTimer

\* Whichever step of whichever command fails, what outlives the process is as it
\* was, but for failures of tcgetattr or tcsetattr of the terminal and of tcflush,
\* which only orter_serial undoes: of those the theorem says nothing for the other
\* nine commands, as terminal or port are left changed.
THEOREM EverythingRestored == Spec => []LeftAsFound
<1>1. Init => SessionInv
  BY InitSession DEF Init
<1>2. SessionInv /\ [Next]_vars => SessionInv'
  BY SessionOfNext, NextSession
<1>3. SessionInv => LeftAsFound
  BY DEF SessionInv
<1> QED
  BY <1>1, <1>2, <1>3, PTL DEF Spec

-----------------------------------------------------------------------------
(* Sequences and pipes.                                                    *)

\* A sequence split after n characters.
LEMMA Split ==
  ASSUME NEW s \in Seq(Char), NEW n \in 0 .. Len(s)
  PROVE  /\ SubSeq(s, 1, n) \in Seq(Char) /\ Len(SubSeq(s, 1, n)) = n
         /\ SubSeq(s, n + 1, Len(s)) \in Seq(Char)
         /\ Len(SubSeq(s, n + 1, Len(s))) = Len(s) - n
         /\ SubSeq(s, 1, n) \o SubSeq(s, n + 1, Len(s)) = s
<1>1. Len(s) \in Nat /\ n \in Nat /\ \A i \in 1 .. Len(s) : s[i] \in Char
  BY LenProperties, ElementOfSeq
<1>2. SubSeq(s, 1, n) \in Seq(Char) /\ Len(SubSeq(s, 1, n)) = n
  BY <1>1, SubSeqProperties
<1>3. SubSeq(s, n + 1, Len(s)) \in Seq(Char) /\ Len(SubSeq(s, n + 1, Len(s))) = Len(s) - n
  BY <1>1, SubSeqProperties
<1>4. SubSeq(s, 1, n) \o SubSeq(s, n + 1, Len(s)) = SubSeq(s, 1, Len(s))
  <2>1. 1 \in 1 .. Len(s) + 1 /\ n \in 1 - 1 .. Len(s) /\ Len(s) \in n .. Len(s)
    BY <1>1
  <2> QED
    BY <2>1, ConcatAdjacentSubSeq
<1> QED
  BY <1>2, <1>3, <1>4, SubSeqFull

\* Characters that leave the first of two sequences leave both.
LEMMA DropOfConcat ==
  ASSUME NEW s \in Seq(Char), NEW t \in Seq(Char), NEW n \in 0 .. Len(s)
  PROVE  SubSeq(s \o t, n + 1, Len(s \o t)) = SubSeq(s, n + 1, Len(s)) \o t
<1> DEFINE f == SubSeq(s, 1, n)
           b == SubSeq(s, n + 1, Len(s))
           w == s \o t
           g == SubSeq(w, 1, n)
           d == SubSeq(w, n + 1, Len(w))
<1>1. f \in Seq(Char) /\ Len(f) = n /\ b \in Seq(Char) /\ f \o b = s
  BY Split
<1>2. w \in Seq(Char) /\ Len(w) = Len(s) + Len(t) /\ Len(s) \in Nat /\ Len(t) \in Nat
  BY ConcatProperties, LenProperties
<1>3. n \in 0 .. Len(w) /\ n \in Nat
  BY <1>2
<1>4. g \in Seq(Char) /\ Len(g) = n /\ d \in Seq(Char) /\ g \o d = w
  BY <1>2, <1>3, Split
<1>5. g = f
  <2>1. CASE n = 0
    BY <2>1, <1>1, <1>4, EmptySeq
  <2>2. CASE n > 0
    <3>1. 1 \in 1 .. Len(s) /\ n \in 1 .. Len(s)
      BY <2>2, <1>2
    <3> QED
      BY <3>1, SubSeqOfConcat1
  <2> QED
    BY <2>1, <2>2, <1>3
<1> HIDE DEF f, b, g, d
<1>6. s \o t = f \o (b \o t) /\ b \o t \in Seq(Char)
  <2>1. f \in Seq(Char) /\ b \in Seq(Char) /\ t \in Seq(Char)
    BY <1>1
  <2>2. (f \o b) \o t = f \o (b \o t)
    BY <2>1, ConcatAssociative
  <2> QED
    BY <1>1, <2>1, <2>2, ConcatProperties
<1> HIDE DEF w
<1>7. f \o d = f \o (b \o t)
  BY <1>4, <1>5, <1>6 DEF w
<1>8. d = b \o t
  BY <1>1, <1>4, <1>6, <1>7, ConcatSimplifications
<1> QED
  BY <1>8 DEF d, b, w

LEMMA Associative ==
  \A s, t, u \in Seq(Char) : /\ s \o t \in Seq(Char)
                             /\ (s \o t) \o u = s \o (t \o u)
BY ConcatAssociative, ConcatProperties

LEMMA PipeParts ==
  ASSUME NEW p \in Pipe
  PROVE  /\ p.off \in Nat /\ p.q \in Seq(Char) /\ Len(p.q) \in Nat
         /\ p.off + Len(p.q) <= PipeSize /\ Len(p.q) <= PipeSize
         /\ p.q = <<>> => p.off = 0
         /\ p = [off |-> p.off, q |-> p.q]
         /\ p \in [off : 0 .. PipeSize, q : Seq(Char)]
<1>1. p \in [off : 0 .. PipeSize, q : Seq(Char)] /\ PipeSize \in Nat
  BY PipeSizeAssumption DEF Pipe
<1>2. Len(p.q) \in Nat
  BY <1>1, LenProperties
<1> QED
  BY <1>1, <1>2 DEF Pipe

LEMMA EmptyPipeType == EmptyPipe \in Pipe /\ EmptyPipe.q = <<>> /\ Len(EmptyPipe.q) = 0
<1>1. <<>> \in Seq(Char) /\ Len(<<>>) = 0
  BY EmptySeq
<1> QED
  BY <1>1, PipeSizeAssumption DEF EmptyPipe, Pipe

\* A write takes characters off the front.
LEMMA WriteType ==
  ASSUME NEW p \in Pipe, NEW n \in 0 .. Len(p.q)
  PROVE  /\ Write(p, n) \in Pipe
         /\ Write(p, n).q = SubSeq(p.q, n + 1, Len(p.q))
         /\ n = Len(p.q) => Write(p, n) = EmptyPipe
<1>1. /\ p.off \in Nat /\ p.q \in Seq(Char) /\ Len(p.q) \in Nat
      /\ p.off + Len(p.q) <= PipeSize
      /\ p.q = <<>> => p.off = 0
      /\ p = [off |-> p.off, q |-> p.q]
  BY PipeParts
<1> DEFINE d == SubSeq(p.q, n + 1, Len(p.q))
<1>2. d \in Seq(Char) /\ Len(d) = Len(p.q) - n
  BY <1>1, Split
<1>3. d = <<>> <=> n = Len(p.q)
  <2> HIDE DEF d
  <2> QED
    BY <1>1, <1>2, EmptySeq
<1>4. CASE n = 0
  <2>1. Write(p, n) = p /\ d = p.q
    BY <1>1, <1>4, SubSeqFull DEF Write
  <2>2. n = Len(p.q) => p = EmptyPipe
    BY <1>1, <1>3, <2>1 DEF EmptyPipe
  <2> QED
    BY <2>1, <2>2
<1>5. CASE n # 0
  <2>1. Write(p, n) = [off |-> IF d = <<>> THEN 0 ELSE p.off + n, q |-> d]
    BY <1>5 DEF Write, PipeWrite, Rewound
  <2> HIDE DEF d
  <2>2. Write(p, n) \in Pipe
    BY <1>1, <1>2, <1>3, <1>5, <2>1, PipeSizeAssumption DEF Pipe
  <2> QED
    BY <1>3, <2>1, <2>2 DEF EmptyPipe, d
<1> QED
  BY <1>4, <1>5

\* A put adds characters at the end.
LEMMA PutAllType ==
  ASSUME NEW p \in Pipe, NEW chars \in Seq(Char), Len(chars) <= PipeLeft(p)
  PROVE  PutAll(p, chars) \in Pipe /\ PutAll(p, chars).q = p.q \o chars
<1>1. /\ p.off \in Nat /\ p.q \in Seq(Char) /\ Len(p.q) \in Nat
      /\ p.q = <<>> => p.off = 0
      /\ p \in [off : 0 .. PipeSize, q : Seq(Char)]
  BY PipeParts
<1>2. PutAll(p, chars) = [off |-> p.off, q |-> p.q \o chars]
  <2>1. \A q : [p EXCEPT !.q = q] = [off |-> p.off, q |-> q]
    BY <1>1
  <2> QED
    BY <2>1 DEF PutAll
<1>3. /\ p.q \o chars \in Seq(Char) /\ Len(p.q \o chars) = Len(p.q) + Len(chars)
      /\ (p.q \o chars = <<>> => p.q = <<>>)
  BY <1>1, ConcatProperties, ConcatEqualIffEmpty
<1>4. Len(chars) \in Nat /\ PipeSize \in Nat /\ p.off + Len(p.q) + Len(chars) <= PipeSize
  BY <1>1, LenProperties, PipeSizeAssumption DEF PipeLeft
<1> QED
  BY <1>1, <1>2, <1>3, <1>4 DEF Pipe

\* A read moves characters from what is read to an empty pipe.
LEMMA BufReadType ==
  ASSUME NEW p \in Pipe, NEW source \in Seq(Char), NEW r \in BufRead(p, source)
  PROVE  /\ r[1] \in Pipe /\ r[2] \in Seq(Char)
         /\ r[1].q \o r[2] = p.q \o source
         /\ p.q = <<>> => r[1].q = SubSeq(source, 1, Len(source) - Len(r[2]))
<1>1. p.q \in Seq(Char) /\ Len(source) \in Nat /\ PipeSize \in Nat
  BY PipeParts, LenProperties, PipeSizeAssumption
<1>2. CASE r = <<p, source>>
  <2>1. Len(source) - Len(r[2]) = 0 /\ SubSeq(source, 1, 0) = <<>>
    BY <1>1, <1>2, SubSeqEmpty
  <2> QED
    BY <1>2, <2>1
<1>3. CASE p.q = <<>> /\ \E n \in Taken(source) : r = ReadFrom(source, n)
  <2>1. PICK n \in Taken(source) : r = ReadFrom(source, n)
    BY <1>3
  <2>2. n \in 0 .. Len(source) /\ n \in Nat /\ n > 0 /\ n <= PipeSize
    BY <1>1, <2>1 DEF Taken, LeastOf
  <2> DEFINE f == SubSeq(source, 1, n)
             b == SubSeq(source, n + 1, Len(source))
  <2>3. f \in Seq(Char) /\ Len(f) = n /\ b \in Seq(Char) /\ Len(b) = Len(source) - n /\ f \o b = source
    BY <2>2, Split
  <2>4. r[1] = [off |-> 0, q |-> f] /\ r[2] = b
    BY <2>1 DEF ReadFrom, PipeRead
  <2>5. f = SubSeq(source, 1, Len(source) - Len(b))
    <3>1. Len(source) - Len(b) = n
      <4> HIDE DEF b
      <4> QED
        BY <1>1, <2>2, <2>3
    <3> QED
      BY <3>1
  <2> HIDE DEF f, b
  <2>6. f # <<>>
    BY <2>2, <2>3, EmptySeq
  <2>7. r[1] \in Pipe
    BY <1>1, <2>2, <2>3, <2>4, <2>6 DEF Pipe
  <2>8. p.q \o source = source
    BY <1>3, ConcatEmptySeq
  <2> QED
    BY <2>3, <2>4, <2>5, <2>7, <2>8
<1> QED
  BY <1>2, <1>3 DEF BufRead

LEMMA BufWrittenType ==
  ASSUME NEW p \in Pipe, NEW ready, NEW whole, NEW n \in BufWritten(p, ready, whole)
  PROVE  n \in 0 .. Len(p.q) /\ (ready /\ whole => n = Len(p.q))
<1>1. Len(p.q) \in Nat /\ (p.q = <<>> => Len(p.q) = 0)
  BY PipeParts, EmptySeq
<1> QED
  BY <1>1 DEF BufWritten

-----------------------------------------------------------------------------
(* The order of the characters.                                            *)

\* Translation goes through concatenation, and there is none without -o onlcrx.
LEMMA TranslationType ==
  ASSUME NEW s \in Seq(Char)
  PROVE  /\ TranslatedAll(s) \in Seq(Char) /\ Len(TranslatedAll(s)) = Len(s)
         /\ \A i \in 1 .. Len(s) : TranslatedAll(s)[i] = Translated(s[i])
         /\ "onlcrx" \notin opts => TranslatedAll(s) = s
<1>1. Len(s) \in Nat /\ \A i \in 1 .. Len(s) : s[i] \in Char
  BY LenProperties, ElementOfSeq
<1>2. \A c \in Char : Translated(c) \in Char
  BY CharAssumption DEF Translated
<1> DEFINE t == TranslatedAll(s)
<1>3. t = [i \in 1 .. Len(s) |-> Translated(s[i])]
  BY DEF TranslatedAll
<1> HIDE DEF t
<1>4. t \in [1 .. Len(s) -> Char]
  BY <1>1, <1>2, <1>3
<1>5. t \in Seq(Char)
  BY <1>1, <1>4, SeqDef
<1>6. Len(t) = Len(s)
  BY <1>1, <1>4, <1>5, LenProperties
<1>7. ASSUME "onlcrx" \notin opts PROVE t = s
  <2>1. \A i \in 1 .. Len(t) : t[i] = s[i]
    BY <1>3, <1>6, <1>7 DEF Translated
  <2> QED
    BY <1>5, <1>6, <2>1, SeqEqual
<1> QED
  BY <1>3, <1>5, <1>6, <1>7 DEF t

LEMMA TranslationOfConcat ==
  ASSUME NEW s \in Seq(Char), NEW t \in Seq(Char)
  PROVE  TranslatedAll(s \o t) = TranslatedAll(s) \o TranslatedAll(t)
<1> DEFINE a == TranslatedAll(s \o t)
           b == TranslatedAll(s) \o TranslatedAll(t)
<1>1. /\ s \o t \in Seq(Char) /\ Len(s \o t) = Len(s) + Len(t)
      /\ Len(s) \in Nat /\ Len(t) \in Nat
      /\ \A i \in 1 .. Len(s) + Len(t) :
           (s \o t)[i] = IF i <= Len(s) THEN s[i] ELSE t[i - Len(s)]
  BY ConcatProperties, LenProperties
<1>2. /\ a \in Seq(Char) /\ Len(a) = Len(s) + Len(t)
      /\ \A i \in 1 .. Len(a) : a[i] = Translated((s \o t)[i])
  BY <1>1, TranslationType
<1>3. /\ b \in Seq(Char) /\ Len(b) = Len(s) + Len(t)
      /\ \A i \in 1 .. Len(b) :
           b[i] = IF i <= Len(s) THEN Translated(s[i]) ELSE Translated(t[i - Len(s)])
  <2> DEFINE x == TranslatedAll(s)
             y == TranslatedAll(t)
  <2>1. /\ x \in Seq(Char) /\ Len(x) = Len(s)
        /\ y \in Seq(Char) /\ Len(y) = Len(t)
        /\ \A i \in 1 .. Len(s) : x[i] = Translated(s[i])
        /\ \A i \in 1 .. Len(t) : y[i] = Translated(t[i])
    BY TranslationType
  <2> HIDE DEF x, y
  <2>2. /\ x \o y \in Seq(Char) /\ Len(x \o y) = Len(s) + Len(t)
        /\ \A i \in 1 .. Len(s) + Len(t) :
             (x \o y)[i] = IF i <= Len(s) THEN x[i] ELSE y[i - Len(s)]
    <3>1. x \in Seq(Char) /\ y \in Seq(Char)
      BY <2>1
    <3>2. /\ x \o y \in Seq(Char) /\ Len(x \o y) = Len(x) + Len(y)
          /\ \A i \in 1 .. Len(x) + Len(y) :
               (x \o y)[i] = IF i <= Len(x) THEN x[i] ELSE y[i - Len(x)]
      BY <3>1, ConcatProperties
    <3> QED
      BY <2>1, <3>2
  <2>3. \A i \in 1 .. Len(s) + Len(t) :
          (x \o y)[i] = IF i <= Len(s) THEN Translated(s[i]) ELSE Translated(t[i - Len(s)])
    <3> SUFFICES ASSUME NEW i \in 1 .. Len(s) + Len(t)
                 PROVE  (x \o y)[i] = IF i <= Len(s) THEN Translated(s[i])
                                                     ELSE Translated(t[i - Len(s)])
      OBVIOUS
    <3>1. i <= Len(s) => i \in 1 .. Len(s)
      BY <1>1
    <3>2. ~(i <= Len(s)) => i - Len(s) \in 1 .. Len(t)
      BY <1>1
    <3> QED
      BY <2>1, <2>2, <3>1, <3>2
  <2> QED
    BY <2>2, <2>3 DEF x, y
<1> HIDE DEF a, b
<1>4. \A i \in 1 .. Len(a) : a[i] = b[i]
  BY <1>1, <1>2, <1>3
<1>5. a = b
  BY <1>2, <1>3, <1>4, SeqEqual
<1> QED
  BY <1>5 DEF a, b

RelayTypeOK ==
  /\ in \in Pipe /\ in2 \in Pipe /\ out \in Pipe /\ out2 \in Pipe
  /\ stdin \in Seq(Char) /\ port \in Seq(Char)

\* Only the serial bridge has second pipes and options.
OnePipeEachWay == ~Serial => in2 = EmptyPipe /\ out2 = EmptyPipe /\ opts = {}

RelayInv == RelayTypeOK /\ OnePipeEachWay /\ RelaysInOrder

LEMMA InitRelay == Init => RelayInv
<1> SUFFICES ASSUME Init PROVE RelayInv
  OBVIOUS
<1>1. <<>> \in Seq(Char) /\ <<>> \o <<>> = <<>>
  BY EmptySeq, ConcatEmptySeq
<1>2. RelayTypeOK
  BY <1>1, EmptyPipeType DEF Init, RelayTypeOK
<1>3. TranslatedAll(<<>>) = <<>>
  BY <1>1, TranslationType, EmptySeq
<1> QED
  BY <1>1, <1>2, <1>3, EmptyPipeType DEF Init, RelayInv, OnePipeEachWay, RelaysInOrder

\* Characters that leave the front of a direction.
LEMMA MoveStep ==
  ASSUME RelayInv, Move
  PROVE  RelayInv'
<1>1. PICK r \in BufRead(in, stdin), s \in BufRead(out, port) :
      \E n \in BufWritten(IF Serial THEN in2 ELSE r[1], cts, FALSE),
         m \in BufWritten(IF Serial THEN out2 ELSE s[1], TRUE, StdoutWhole) :
        /\ in' = IF Serial THEN r[1] ELSE Write(r[1], n)
        /\ in2' = IF Serial THEN Write(in2, n) ELSE in2
        /\ out' = IF Serial THEN s[1] ELSE Write(s[1], m)
        /\ out2' = IF Serial THEN Write(out2, m) ELSE out2
        /\ stdin' = r[2] /\ port' = s[2]
        /\ stdinOpen' = (stdinOpen /\ ~(in.q = <<>> /\ stdin = <<>> /\ stdinEnds))
        /\ up' = SubSeq(up, n + 1, Len(up))
        /\ down' = SubSeq(down, m + 1, Len(down))
        /\ stopped' = StopAfter(SubSeq(port, 1, Len(port) - Len(s[2])), stopped)
        /\ late' = IF stopped THEN late + n ELSE 0
  BY DEF Move
<1>2. PICK n \in BufWritten(IF Serial THEN in2 ELSE r[1], cts, FALSE),
           m \in BufWritten(IF Serial THEN out2 ELSE s[1], TRUE, StdoutWhole) :
        /\ in' = IF Serial THEN r[1] ELSE Write(r[1], n)
        /\ in2' = IF Serial THEN Write(in2, n) ELSE in2
        /\ out' = IF Serial THEN s[1] ELSE Write(s[1], m)
        /\ out2' = IF Serial THEN Write(out2, m) ELSE out2
        /\ stdin' = r[2] /\ port' = s[2]
        /\ up' = SubSeq(up, n + 1, Len(up))
        /\ down' = SubSeq(down, m + 1, Len(down))
  BY <1>1
<1>3. /\ in \in Pipe /\ in2 \in Pipe /\ out \in Pipe /\ out2 \in Pipe
      /\ stdin \in Seq(Char) /\ port \in Seq(Char)
      /\ in.q \in Seq(Char) /\ in2.q \in Seq(Char) /\ out.q \in Seq(Char) /\ out2.q \in Seq(Char)
  BY PipeParts DEF RelayInv, RelayTypeOK
<1>4. /\ r[1] \in Pipe /\ r[2] \in Seq(Char) /\ r[1].q \o r[2] = in.q \o stdin
      /\ s[1] \in Pipe /\ s[2] \in Seq(Char) /\ s[1].q \o s[2] = out.q \o port
      /\ r[1].q \in Seq(Char) /\ s[1].q \in Seq(Char)
  BY <1>3, BufReadType, PipeParts
<1>5. UNCHANGED <<mode, opts>> /\ Relays
  BY DEF Move, session
<1> DEFINE waiting == TranslatedAll(in.q \o stdin)
<1>6. /\ up = in2.q \o waiting /\ down = out2.q \o out.q \o port
      /\ waiting \in Seq(Char)
  <2>1. in.q \o stdin \in Seq(Char)
    BY <1>3, ConcatProperties
  <2> QED
    BY <1>5, <2>1, TranslationType DEF RelayInv, RelaysInOrder
<1>7. waiting = TranslatedAll(in.q \o stdin)
  OBVIOUS
<1>8. RelaysInOrder' <=> /\ up' = in2'.q \o TranslatedAll(in'.q \o stdin')
                         /\ down' = out2'.q \o out'.q \o port'
  BY <1>5 DEF RelaysInOrder, Relays, TranslatedAll, Translated
<1> HIDE DEF waiting
<1>9. CASE Serial
  <2>1. n \in 0 .. Len(in2.q) /\ m \in 0 .. Len(out2.q)
    BY <1>3, <1>9, BufWrittenType
  <2>2. /\ in2' \in Pipe /\ in2'.q = SubSeq(in2.q, n + 1, Len(in2.q))
        /\ out2' \in Pipe /\ out2'.q = SubSeq(out2.q, m + 1, Len(out2.q))
    BY <1>2, <1>3, <1>9, <2>1, WriteType
  <2>3. in' = r[1] /\ out' = s[1] /\ stdin' = r[2] /\ port' = s[2]
    BY <1>2, <1>9
  <2>4. up' = in2'.q \o waiting
    <3>1. in2.q \in Seq(Char) /\ waiting \in Seq(Char) /\ n \in 0 .. Len(in2.q)
      BY <1>3, <1>6, <2>1
    <3>2. SubSeq(in2.q \o waiting, n + 1, Len(in2.q \o waiting))
            = SubSeq(in2.q, n + 1, Len(in2.q)) \o waiting
      BY <3>1, DropOfConcat
    <3> QED
      BY <1>2, <1>6, <2>2, <3>2
  <2>5. up' = in2'.q \o TranslatedAll(in'.q \o stdin')
    BY <1>4, <1>7, <2>3, <2>4
  <2>6. down' = out2'.q \o (out.q \o port)
    <3> DEFINE rest == out.q \o port
    <3>1. out2.q \in Seq(Char) /\ out.q \in Seq(Char) /\ port \in Seq(Char)
      BY <1>3
    <3>2. rest \in Seq(Char) /\ out2.q \o out.q \o port = out2.q \o rest
      BY <3>1, Associative
    <3> HIDE DEF rest
    <3>3. SubSeq(out2.q \o rest, m + 1, Len(out2.q \o rest))
            = SubSeq(out2.q, m + 1, Len(out2.q)) \o rest
      BY <2>1, <3>1, <3>2, DropOfConcat
    <3>4. down' = out2'.q \o rest
      BY <1>2, <1>6, <2>2, <3>2, <3>3
    <3> QED
      BY <3>4 DEF rest
  <2>7. down' = out2'.q \o out'.q \o port'
    <3>1. out2'.q \in Seq(Char) /\ s[1].q \in Seq(Char) /\ s[2] \in Seq(Char)
      BY <1>4, <2>2, PipeParts
    <3>2. out2'.q \o s[1].q \o s[2] = out2'.q \o (s[1].q \o s[2])
      BY <3>1, Associative
    <3> QED
      BY <1>4, <2>3, <2>6, <3>2
  <2> QED
    BY <1>3, <1>4, <1>5, <1>8, <1>9, <2>2, <2>3, <2>5, <2>7
       DEF RelayInv, RelayTypeOK, OnePipeEachWay, Serial
<1>10. CASE ~Serial
  <2>1. in2 = EmptyPipe /\ out2 = EmptyPipe /\ opts = {} /\ in2' = in2 /\ out2' = out2
    BY <1>2, <1>10 DEF RelayInv, OnePipeEachWay
  <2>2. n \in 0 .. Len(r[1].q) /\ m \in 0 .. Len(s[1].q)
    BY <1>4, <1>10, BufWrittenType
  <2>3. /\ in' \in Pipe /\ in'.q = SubSeq(r[1].q, n + 1, Len(r[1].q))
        /\ out' \in Pipe /\ out'.q = SubSeq(s[1].q, m + 1, Len(s[1].q))
    BY <1>2, <1>4, <1>10, <2>2, WriteType
  <2>4. in'.q \in Seq(Char) /\ out'.q \in Seq(Char) /\ stdin' \in Seq(Char) /\ port' \in Seq(Char)
    BY <1>2, <1>4, <2>3, PipeParts
  <2>5. up = r[1].q \o r[2] /\ down = s[1].q \o s[2]
    <3>1. waiting = r[1].q \o r[2]
      <4>1. r[1].q \o r[2] \in Seq(Char)
        BY <1>4, ConcatProperties
      <4> QED
        BY <1>4, <1>7, <2>1, <4>1, TranslationType
    <3>2. in2.q = <<>> /\ out2.q = <<>>
      BY <2>1, EmptyPipeType
    <3> QED
      BY <1>3, <1>4, <1>6, <3>1, <3>2, ConcatEmptySeq
  <2>6. up' = in'.q \o stdin' /\ down' = out'.q \o port'
    <3>1. /\ r[1].q \in Seq(Char) /\ r[2] \in Seq(Char) /\ n \in 0 .. Len(r[1].q)
          /\ s[1].q \in Seq(Char) /\ s[2] \in Seq(Char) /\ m \in 0 .. Len(s[1].q)
      BY <1>4, <2>2
    <3>2. SubSeq(r[1].q \o r[2], n + 1, Len(r[1].q \o r[2]))
            = SubSeq(r[1].q, n + 1, Len(r[1].q)) \o r[2]
      BY <3>1, DropOfConcat
    <3>3. SubSeq(s[1].q \o s[2], m + 1, Len(s[1].q \o s[2]))
            = SubSeq(s[1].q, m + 1, Len(s[1].q)) \o s[2]
      BY <3>1, DropOfConcat
    <3> QED
      BY <1>2, <2>3, <2>5, <3>2, <3>3
  <2>7. RelaysInOrder'
    <3>1. in'.q \o stdin' \in Seq(Char) /\ out'.q \o port' \in Seq(Char)
      BY <2>4, ConcatProperties
    <3>2. TranslatedAll(in'.q \o stdin') = in'.q \o stdin'
      BY <2>1, <3>1, TranslationType
    <3>3. in2'.q = <<>> /\ out2'.q = <<>>
      BY <2>1, EmptyPipeType
    <3> QED
      BY <1>8, <2>4, <2>6, <3>1, <3>2, <3>3, ConcatEmptySeq
  <2> QED
    BY <1>2, <1>3, <1>4, <1>5, <1>10, <2>1, <2>3, <2>7
       DEF RelayInv, RelayTypeOK, OnePipeEachWay, Serial
<1> QED
  BY <1>9, <1>10

\* How many characters process moves fits both pipes of a direction.
LEMMA Counts ==
  ASSUME RelayTypeOK
  PROVE  /\ CountUp \in 0 .. Len(in.q) /\ CountUp <= PipeLeft(in2)
         /\ CountDown \in 0 .. Len(out.q) /\ CountDown <= PipeLeft(out2)
         /\ stop => CountUp = 0
<1>1. /\ Len(in.q) \in Nat /\ Len(out.q) \in Nat
      /\ PipeLeft(in2) \in Nat /\ PipeLeft(out2) \in Nat
  <2>1. \A p \in Pipe : Len(p.q) \in Nat /\ PipeLeft(p) \in Nat
    BY PipeParts, PipeSizeAssumption DEF PipeLeft
  <2> QED
    BY <2>1 DEF RelayTypeOK
<1> QED
  BY <1>1 DEF CountUp, CountDown, LeastOf

LEMMA ProcessSerialStep ==
  ASSUME RelayInv, ProcessSerial
  PROVE  RelayInv'
<1>1. /\ in' = Write(in, CountUp)
      /\ in2' = PutAll(in2, TranslatedAll(SubSeq(in.q, 1, CountUp)))
      /\ out' = Write(out, CountDown)
      /\ out2' = PutAll(out2, SubSeq(out.q, 1, CountDown))
      /\ UNCHANGED <<mode, opts, stdin, port, up, down>>
      /\ Serial /\ Relays
  BY DEF ProcessSerial, sides, history, Serial, Relays
<1>2. /\ in \in Pipe /\ in2 \in Pipe /\ out \in Pipe /\ out2 \in Pipe
      /\ stdin \in Seq(Char) /\ port \in Seq(Char)
      /\ in.q \in Seq(Char) /\ in2.q \in Seq(Char) /\ out.q \in Seq(Char) /\ out2.q \in Seq(Char)
      /\ RelayTypeOK
  BY PipeParts DEF RelayInv, RelayTypeOK
<1> DEFINE f == SubSeq(in.q, 1, CountUp)
           b == SubSeq(in.q, CountUp + 1, Len(in.q))
           g == SubSeq(out.q, 1, CountDown)
           d == SubSeq(out.q, CountDown + 1, Len(out.q))
<1>3. /\ f \in Seq(Char) /\ Len(f) = CountUp /\ b \in Seq(Char) /\ f \o b = in.q
      /\ g \in Seq(Char) /\ Len(g) = CountDown /\ d \in Seq(Char) /\ g \o d = out.q
  BY <1>2, Counts, Split
<1>4. in' \in Pipe /\ in'.q = b /\ out' \in Pipe /\ out'.q = d
  BY <1>1, <1>2, Counts, WriteType
<1> HIDE DEF f, b, g, d
<1>5. TranslatedAll(f) \in Seq(Char) /\ Len(TranslatedAll(f)) = CountUp
  BY <1>3, TranslationType
<1>6. in2' \in Pipe /\ in2'.q = in2.q \o TranslatedAll(f)
  BY <1>1, <1>2, <1>5, Counts, PutAllType DEF f
<1>7. out2' \in Pipe /\ out2'.q = out2.q \o g
  BY <1>1, <1>2, <1>3, Counts, PutAllType DEF g
<1>8. up' = in2'.q \o TranslatedAll(b \o stdin)
  <2>1. b \o stdin \in Seq(Char) /\ in.q \o stdin = f \o (b \o stdin)
    <3>1. f \in Seq(Char) /\ b \in Seq(Char) /\ stdin \in Seq(Char)
      BY <1>2, <1>3
    <3>2. b \o stdin \in Seq(Char) /\ (f \o b) \o stdin = f \o (b \o stdin)
      BY <3>1, Associative
    <3>3. f \o b = in.q
      BY <1>3
    <3> QED
      BY <3>2, <3>3
  <2>2. TranslatedAll(in.q \o stdin) = TranslatedAll(f) \o TranslatedAll(b \o stdin)
    BY <1>3, <2>1, TranslationOfConcat
  <2>3. TranslatedAll(b \o stdin) \in Seq(Char)
    BY <2>1, TranslationType
  <2>4. in2.q \o (TranslatedAll(f) \o TranslatedAll(b \o stdin))
          = (in2.q \o TranslatedAll(f)) \o TranslatedAll(b \o stdin)
    <3> DEFINE x == TranslatedAll(f)
               y == TranslatedAll(b \o stdin)
    <3>1. in2.q \in Seq(Char) /\ x \in Seq(Char) /\ y \in Seq(Char)
      BY <1>2, <1>5, <2>3
    <3> HIDE DEF x, y
    <3>2. in2.q \o (x \o y) = (in2.q \o x) \o y
      BY <3>1, Associative
    <3> QED
      BY <3>2 DEF x, y
  <2>5. up = in2.q \o TranslatedAll(in.q \o stdin)
    BY <1>1 DEF RelayInv, RelaysInOrder
  <2> QED
    BY <1>1, <1>6, <2>2, <2>4, <2>5
<1>9. down' = out2'.q \o out'.q \o port'
  <2>1. (out2.q \o g) \o d = out2.q \o (g \o d)
    <3>1. out2.q \in Seq(Char) /\ g \in Seq(Char) /\ d \in Seq(Char)
      BY <1>2, <1>3
    <3> QED
      BY <3>1, Associative
  <2>2. (out2.q \o g) \o d = out2.q \o out.q
    BY <1>3, <2>1
  <2>3. down = (out2.q \o out.q) \o port
    BY <1>1 DEF RelayInv, RelaysInOrder
  <2>4. down' = down /\ port' = port /\ out2'.q = out2.q \o g /\ out'.q = d
    BY <1>1, <1>4, <1>7
  <2> QED
    BY <2>2, <2>3, <2>4, Zenon
<1>10. RelaysInOrder' <=> /\ up' = in2'.q \o TranslatedAll(in'.q \o stdin')
                          /\ down' = out2'.q \o out'.q \o port'
  BY <1>1 DEF RelaysInOrder, Relays, TranslatedAll, Translated
<1>11. RelaysInOrder'
  BY <1>1, <1>4, <1>8, <1>9, <1>10
<1> QED
  BY <1>1, <1>2, <1>4, <1>6, <1>7, <1>11
     DEF RelayInv, RelayTypeOK, OnePipeEachWay, Serial

\* A character comes in on either side.
LEMMA SidesStep ==
  ASSUME RelayInv, Type \/ PortSends
  PROVE  RelayInv'
<1>1. UNCHANGED <<mode, opts, in, in2, out, out2>> /\ Relays
  BY DEF Type, PortSends, InLoop, session, relay, pipes
<1>2. /\ stdin \in Seq(Char) /\ port \in Seq(Char)
      /\ in.q \in Seq(Char) /\ in2.q \in Seq(Char) /\ out.q \in Seq(Char) /\ out2.q \in Seq(Char)
  BY PipeParts DEF RelayInv, RelayTypeOK
<1>3. up = in2.q \o TranslatedAll(in.q \o stdin) /\ down = out2.q \o out.q \o port
  BY <1>1 DEF RelayInv, RelaysInOrder
<1>4. RelaysInOrder' <=> /\ up' = in2.q \o TranslatedAll(in.q \o stdin')
                         /\ down' = out2.q \o out.q \o port'
  BY <1>1 DEF RelaysInOrder, Relays, TranslatedAll, Translated
<1>5. CASE Type
  <2>1. PICK c \in Typed : stdin' = Append(stdin, c) /\ up' = Append(up, Translated(c))
    BY <1>5 DEF Type
  <2>2. UNCHANGED <<port, down>>
    BY <1>5 DEF Type
  <2>3. c \in Char /\ Translated(c) \in Char
    BY CharAssumption DEF Translated
  <2> DEFINE q == in.q \o stdin
  <2>4. q \in Seq(Char)
    BY <1>2, Associative
  <2>5. stdin' = stdin \o <<c>> /\ <<c>> \in Seq(Char) /\ stdin' \in Seq(Char)
    BY <1>2, <2>1, <2>3, AppendIsConcat, AppendProperties
  <2>6. in.q \o stdin' = q \o <<c>>
    <3> DEFINE one == <<c>>
    <3>1. in.q \in Seq(Char) /\ stdin \in Seq(Char) /\ one \in Seq(Char)
      BY <1>2, <2>5
    <3>2. stdin' = stdin \o one
      BY <2>5
    <3> HIDE DEF one
    <3>3. (in.q \o stdin) \o one = in.q \o (stdin \o one)
      BY <3>1, Associative
    <3> QED
      BY <3>2, <3>3 DEF one
  <2> HIDE DEF q
  <2>7. TranslatedAll(<<c>>) = <<Translated(c)>>
    <3>1. Len(<<c>>) = 1 /\ <<c>>[1] = c
      OBVIOUS
    <3>2. TranslatedAll(<<c>>) = [i \in 1 .. 1 |-> Translated(<<c>>[i])]
      BY <3>1 DEF TranslatedAll
    <3> DEFINE a == TranslatedAll(<<c>>)
               e == <<Translated(c)>>
    <3>3. a \in Seq(Char) /\ Len(a) = 1 /\ a[1] = Translated(c)
      <4>1. a \in Seq(Char) /\ Len(a) = Len(<<c>>)
        BY <2>5, TranslationType
      <4>2. a[1] = Translated(<<c>>[1])
        <5>1. a = [i \in 1 .. 1 |-> Translated(<<c>>[i])]
          BY <3>2
        <5> HIDE DEF a
        <5>2. 1 \in 1 .. 1
          OBVIOUS
        <5> QED
          BY <5>1, <5>2
      <4> QED
        BY <3>1, <4>1, <4>2
    <3>4. e \in Seq(Char) /\ Len(e) = 1 /\ e[1] = Translated(c)
      BY <2>3
    <3> HIDE DEF a, e
    <3>5. \A i \in 1 .. Len(a) : a[i] = e[i]
      BY <3>3, <3>4
    <3>6. a = e
      BY <3>3, <3>4, <3>5, SeqEqual
    <3> QED
      BY <3>6 DEF a, e
  <2>8. TranslatedAll(in.q \o stdin') = TranslatedAll(q) \o <<Translated(c)>>
    BY <2>4, <2>5, <2>6, <2>7, TranslationOfConcat
  <2>9. TranslatedAll(q) \in Seq(Char) /\ <<Translated(c)>> \in Seq(Char)
    BY <2>3, <2>4, TranslationType
  <2>10. up \in Seq(Char) /\ up = in2.q \o TranslatedAll(q)
    BY <1>2, <1>3, <2>9, Associative DEF q
  <2>11. Append(up, Translated(c)) = up \o <<Translated(c)>>
    BY <2>3, <2>10, AppendIsConcat
  <2>12. up' = in2.q \o TranslatedAll(in.q \o stdin')
    <3> DEFINE w == TranslatedAll(q)
               one == <<Translated(c)>>
    <3>1. in2.q \in Seq(Char) /\ w \in Seq(Char) /\ one \in Seq(Char)
      BY <1>2, <2>9
    <3>2. /\ up' = up \o one /\ up = in2.q \o w
          /\ TranslatedAll(in.q \o stdin') = w \o one
      BY <2>1, <2>8, <2>10, <2>11
    <3> HIDE DEF w, one
    <3>3. (in2.q \o w) \o one = in2.q \o (w \o one)
      BY <3>1, Associative
    <3> QED
      BY <3>2, <3>3
  <2> QED
    BY <1>1, <1>3, <1>4, <2>2, <2>5, <2>12
       DEF RelayInv, RelayTypeOK, OnePipeEachWay, Serial
<1>6. CASE PortSends
  <2>1. PICK c \in Sent : port' = Append(port, c) /\ down' = Append(down, c)
    BY <1>6 DEF PortSends
  <2>2. UNCHANGED <<stdin, up>>
    BY <1>6 DEF PortSends
  <2>3. c \in Char
    BY CharAssumption
  <2>4. port' = port \o <<c>> /\ <<c>> \in Seq(Char) /\ port' \in Seq(Char)
    BY <1>2, <2>1, <2>3, AppendIsConcat, AppendProperties
  <2> DEFINE q == out2.q \o out.q
  <2>5. q \in Seq(Char)
    BY <1>2, Associative
  <2> HIDE DEF q
  <2>6. down = q \o port /\ down \in Seq(Char)
    BY <1>2, <1>3, <2>5, Associative DEF q
  <2>7. down' = down \o <<c>>
    BY <2>1, <2>3, <2>6, AppendIsConcat
  <2>8. down' = q \o port'
    <3> DEFINE one == <<c>>
    <3>1. q \in Seq(Char) /\ port \in Seq(Char) /\ one \in Seq(Char)
      BY <1>2, <2>4, <2>5
    <3>2. down' = (q \o port) \o one /\ port' = port \o one
      BY <2>4, <2>6, <2>7
    <3> HIDE DEF one
    <3>3. (q \o port) \o one = q \o (port \o one)
      BY <3>1, Associative
    <3> QED
      BY <3>2, <3>3
  <2> QED
    BY <1>1, <1>3, <1>4, <2>2, <2>4, <2>8
       DEF RelayInv, RelayTypeOK, OnePipeEachWay, Serial, q
<1> QED
  BY <1>5, <1>6

\* Nothing else moves a character.
LEMMA OtherStep ==
  ASSUME RelayInv, UNCHANGED <<mode, opts, pipes, stdin, port, up, down>>
  PROVE  RelayInv'
BY DEF RelayInv, RelayTypeOK, OnePipeEachWay, RelaysInOrder, Serial, Relays, pipes,
       TranslatedAll, Translated

LEMMA StepsOfNext ==
  ASSUME [Next]_vars
  PROVE  \/ Move \/ ProcessSerial \/ Type \/ PortSends
         \/ UNCHANGED <<mode, opts, pipes, stdin, port, up, down>>
BY DEF Next, vars, session, relay, sides, history, LoopStep, ProcessOther, DiscLoop, StdinEof,
       ClearToSend, EofTimer, SessionStep, StepSucceeds, StepRetried, StepFails,
       InstallHandlers, StartLoop, EndLoop, Close, SignalKills, Handler

LEMMA RelayInvariant == Spec => []RelayInv
<1>1. RelayInv /\ [Next]_vars => RelayInv'
  BY MoveStep, ProcessSerialStep, SidesStep, OtherStep, StepsOfNext
<1> QED
  BY InitRelay, <1>1, PTL DEF Spec

\* Each direction of each bridge is a queue, with pipes of any size and any mix of
\* partial reads and writes.
THEOREM BridgeRelaysInOrder == Spec => []RelaysInOrder
<1>1. RelayInv => RelaysInOrder
  BY DEF RelayInv
<1> QED
  BY <1>1, RelayInvariant, PTL

-----------------------------------------------------------------------------
(* XON and XOFF.                                                           *)

\* The bridge knows of the last XON or XOFF that was read as soon as process has
\* seen all of it, which is in the turn that read it.
FlowKnown ==
  Serial => /\ turn = "move" => stop = stopped /\ out.q = <<>>
            /\ turn = "process" => out2 = EmptyPipe /\ stopped = StopAfter(out.q, stop)

\* While it stops, the second pipe is not filled; before, nothing came late.
LateFits ==
  /\ late \in Nat /\ late <= PipeSize
  /\ stop => late + Len(in2.q) <= PipeSize
  /\ turn = "process" /\ ~stop => late = 0

NeverStopped == ~Serial => ~stop /\ ~stopped

FlowInv ==
  /\ stop \in BOOLEAN /\ stopped \in BOOLEAN /\ turn \in {"move", "process"}
  /\ FlowKnown /\ LateFits /\ NeverStopped

LEMMA StopAfterType ==
  ASSUME NEW chars, NEW before \in BOOLEAN
  PROVE  /\ StopAfter(chars, before) \in BOOLEAN
         /\ opts = {} => StopAfter(chars, before) = before
BY DEF StopAfter

LEMMA InitFlow == Init => FlowInv
<1> SUFFICES ASSUME Init PROVE FlowInv
  OBVIOUS
<1>1. LateFits
  BY EmptyPipeType, PipeSizeAssumption DEF Init, LateFits
<1> QED
  BY <1>1, EmptyPipeType DEF Init, FlowInv, FlowKnown, NeverStopped

LEMMA MoveFlows ==
  ASSUME StdoutWhole, RelayInv, FlowInv, Move
  PROVE  FlowInv'
<1>1. PICK r \in BufRead(in, stdin), s \in BufRead(out, port) :
      \E n \in BufWritten(IF Serial THEN in2 ELSE r[1], cts, FALSE),
         m \in BufWritten(IF Serial THEN out2 ELSE s[1], TRUE, StdoutWhole) :
        /\ in' = IF Serial THEN r[1] ELSE Write(r[1], n)
        /\ in2' = IF Serial THEN Write(in2, n) ELSE in2
        /\ out' = IF Serial THEN s[1] ELSE Write(s[1], m)
        /\ out2' = IF Serial THEN Write(out2, m) ELSE out2
        /\ stdin' = r[2] /\ port' = s[2]
        /\ stdinOpen' = (stdinOpen /\ ~(in.q = <<>> /\ stdin = <<>> /\ stdinEnds))
        /\ up' = SubSeq(up, n + 1, Len(up))
        /\ down' = SubSeq(down, m + 1, Len(down))
        /\ stopped' = StopAfter(SubSeq(port, 1, Len(port) - Len(s[2])), stopped)
        /\ late' = IF stopped THEN late + n ELSE 0
  BY DEF Move
<1>2. PICK n \in BufWritten(IF Serial THEN in2 ELSE r[1], cts, FALSE),
           m \in BufWritten(IF Serial THEN out2 ELSE s[1], TRUE, StdoutWhole) :
        /\ in2' = IF Serial THEN Write(in2, n) ELSE in2
        /\ out' = IF Serial THEN s[1] ELSE Write(s[1], m)
        /\ out2' = IF Serial THEN Write(out2, m) ELSE out2
        /\ stopped' = StopAfter(SubSeq(port, 1, Len(port) - Len(s[2])), stopped)
        /\ late' = IF stopped THEN late + n ELSE 0
  BY <1>1
<1>3. turn = "move" /\ turn' = "process" /\ UNCHANGED <<mode, opts, stop>>
  BY DEF Move, session
<1>4. /\ in2 \in Pipe /\ out \in Pipe /\ out2 \in Pipe /\ port \in Seq(Char)
      /\ stop \in BOOLEAN /\ stopped \in BOOLEAN
  BY DEF RelayInv, RelayTypeOK, FlowInv
<1>5. stopped' \in BOOLEAN
  BY <1>2, <1>4, StopAfterType
<1>6. CASE Serial
  <2>1. n \in 0 .. Len(in2.q) /\ m \in 0 .. Len(out2.q) /\ m = Len(out2.q)
    BY <1>4, <1>6, BufWrittenType
  <2>2. stop = stopped /\ out.q = <<>>
    BY <1>3, <1>6 DEF FlowInv, FlowKnown
  <2>3. out2' = EmptyPipe /\ out' = s[1]
    BY <1>2, <1>4, <1>6, <2>1, WriteType
  <2>4. s[1].q = SubSeq(port, 1, Len(port) - Len(s[2]))
    BY <1>4, <2>2, BufReadType
  <2>5. stopped' = StopAfter(out'.q, stop')
    BY <1>2, <1>3, <2>2, <2>3, <2>4
  <2>6. FlowKnown'
    <3>1. StopAfter(out.q, stop)' = StopAfter(out'.q, stop')
      BY <1>3 DEF StopAfter
    <3> QED
      BY <1>3, <2>3, <2>5, <3>1 DEF FlowKnown, Serial
  <2>7. LateFits'
    <3>1. in2'.q = SubSeq(in2.q, n + 1, Len(in2.q))
      BY <1>2, <1>4, <1>6, <2>1, WriteType
    <3>2. Len(in2'.q) = Len(in2.q) - n /\ Len(in2.q) \in Nat
      <4>1. in2.q \in Seq(Char) /\ Len(in2.q) \in Nat
        BY <1>4, PipeParts
      <4> QED
        BY <2>1, <3>1, <4>1, Split
    <3>3. late \in Nat /\ late <= PipeSize /\ (stop => late + Len(in2.q) <= PipeSize)
      BY DEF FlowInv, LateFits
    <3>4. late' = IF stop THEN late + n ELSE 0
      BY <1>2, <2>2
    <3>5. n \in Nat /\ n <= Len(in2.q) /\ PipeSize \in Nat /\ stop' = stop
      BY <1>3, <2>1, <3>2, PipeSizeAssumption
    <3>6. /\ late' \in Nat /\ late' <= PipeSize
          /\ stop' => late' + Len(in2'.q) <= PipeSize
          /\ ~stop' => late' = 0
      <4> DEFINE k == Len(in2.q)
                 left == Len(in2'.q)
      <4>1. k \in Nat /\ left = k - n /\ n <= k /\ (stop => late + k <= PipeSize)
        BY <3>2, <3>3, <3>5
      <4> HIDE DEF k, left
      <4>2. CASE stop
        <5>1. late' = late + n /\ late \in Nat /\ n \in Nat /\ stop'
          BY <3>3, <3>4, <3>5, <4>2
        <5>2. late' \in Nat /\ late' + left <= PipeSize /\ late' <= PipeSize
          BY <3>5, <4>1, <4>2, <5>1
        <5> QED
          BY <5>1, <5>2 DEF left
      <4>3. CASE ~stop
        BY <3>4, <3>5, <4>3
      <4> QED
        BY <4>2, <4>3
    <3> QED
      BY <3>6 DEF LateFits
  <2> QED
    BY <1>3, <1>4, <1>5, <1>6, <2>6, <2>7 DEF FlowInv, NeverStopped, Serial
<1>7. CASE ~Serial
  <2>1. opts = {} /\ ~stop /\ ~stopped
    BY <1>7 DEF RelayInv, OnePipeEachWay, FlowInv, NeverStopped
  <2>2. ~stopped' /\ late' = 0
    BY <1>2, <1>4, <2>1, StopAfterType
  <2> QED
    BY <1>3, <1>5, <1>7, <2>1, <2>2, PipeSizeAssumption
       DEF FlowInv, FlowKnown, LateFits, NeverStopped, Serial
<1> QED
  BY <1>6, <1>7

LEMMA ProcessFlows ==
  ASSUME RelayInv, FlowInv, ProcessSerial
  PROVE  FlowInv'
<1>1. /\ in2' = PutAll(in2, TranslatedAll(SubSeq(in.q, 1, CountUp)))
      /\ out' = Write(out, CountDown)
      /\ stop' = StopAfter(SubSeq(out.q, 1, CountDown), stop)
      /\ UNCHANGED <<mode, opts, stopped, late>>
      /\ Serial /\ turn = "process" /\ turn' = "move"
  BY DEF ProcessSerial, history
<1>2. /\ in \in Pipe /\ in2 \in Pipe /\ out \in Pipe /\ RelayTypeOK
      /\ stop \in BOOLEAN /\ stopped \in BOOLEAN
      /\ in.q \in Seq(Char) /\ out.q \in Seq(Char)
  BY PipeParts DEF RelayInv, RelayTypeOK, FlowInv
<1>3. out2 = EmptyPipe /\ stopped = StopAfter(out.q, stop)
  BY <1>1 DEF FlowInv, FlowKnown
<1>4. CountDown = Len(out.q)
  <2>1. /\ Len(out.q) \in Nat /\ Len(out.q) <= PipeSize
        /\ PipeLeft(EmptyPipe) = PipeSize
    BY <1>2, PipeParts, EmptyPipeType, PipeSizeAssumption DEF PipeLeft, EmptyPipe
  <2> QED
    BY <1>3, <2>1, PipeSizeAssumption DEF CountDown, LeastOf
<1>5. SubSeq(out.q, 1, CountDown) = out.q
  BY <1>2, <1>4, SubSeqFull
<1>6. stop' = stopped' /\ out' = EmptyPipe
  BY <1>1, <1>2, <1>3, <1>4, <1>5, Counts, WriteType
<1>7. LateFits'
  <2> DEFINE f == SubSeq(in.q, 1, CountUp)
             g == TranslatedAll(f)
  <2>1. f \in Seq(Char) /\ Len(f) = CountUp
    BY <1>2, Counts, Split
  <2>2. g \in Seq(Char) /\ Len(g) = CountUp
    <3> HIDE DEF f
    <3> QED
      BY <2>1, TranslationType
  <2>3. in2' = PutAll(in2, g)
    BY <1>1
  <2> HIDE DEF f, g
  <2>4. in2' \in Pipe /\ in2'.q = in2.q \o g
    BY <1>2, <2>2, <2>3, Counts, PutAllType
  <2>5. Len(in2'.q) \in Nat /\ Len(in2'.q) <= PipeSize
    BY <2>4, PipeParts
  <2>6. ASSUME stop PROVE in2'.q = in2.q
    <3>1. Len(g) = 0
      BY <1>2, <2>2, <2>6, Counts
    <3>2. in2.q \in Seq(Char) /\ g = <<>>
      BY <1>2, <2>2, <3>1, PipeParts, EmptySeq
    <3> QED
      BY <2>4, <3>2, ConcatEmptySeq
  <2>7. /\ late \in Nat /\ late <= PipeSize
        /\ stop => late + Len(in2.q) <= PipeSize
        /\ ~stop => late = 0
    BY <1>1 DEF FlowInv, LateFits
  <2> QED
    BY <1>1, <2>5, <2>6, <2>7 DEF LateFits
<1> QED
  BY <1>1, <1>2, <1>6, <1>7, EmptyPipeType DEF FlowInv, FlowKnown, NeverStopped, Serial

LEMMA OtherFlows ==
  ASSUME FlowInv, UNCHANGED <<mode, opts, pipes, stop, stopped, late>>,
         turn' = turn \/ (~Serial /\ turn' = "move")
  PROVE  FlowInv'
<1>1. StopAfter(out.q, stop)' = StopAfter(out.q, stop)
  BY DEF StopAfter, pipes
<1> QED
  BY <1>1 DEF FlowInv, FlowKnown, LateFits, NeverStopped, Serial, pipes

LEMMA FlowStepsOfNext ==
  ASSUME [Next]_vars
  PROVE  \/ Move \/ ProcessSerial
         \/ /\ UNCHANGED <<mode, opts, pipes, stop, stopped, late>>
            /\ turn' = turn \/ (~Serial /\ turn' = "move")
BY DEF Next, vars, session, relay, sides, history, LoopStep, ProcessOther, DiscLoop, StdinEof,
       ClearToSend, EofTimer, SessionStep, StepSucceeds, StepRetried, StepFails, Type, PortSends,
       InstallHandlers, StartLoop, EndLoop, Close, SignalKills, Handler

\* The port gets no more than a pipe of characters after it asked for none, when
\* the terminal takes all it is given: otherwise process may leave the XOFF in
\* the first pipe.
THEOREM XoffHoldsWithin == ASSUME StdoutWhole PROVE Spec => []XoffHolds
<1>1. FlowInv /\ RelayInv /\ [Next]_vars => FlowInv'
  BY MoveFlows, ProcessFlows, OtherFlows, FlowStepsOfNext
<1>2. FlowInv => XoffHolds
  BY DEF FlowInv, LateFits, XoffHolds
<1> QED
  BY InitFlow, <1>1, <1>2, RelayInvariant, PTL DEF Spec

-----------------------------------------------------------------------------
(* The pipes themselves: Bridge counts on queues with an offset, OrterPipe *)
(* is the array with a pointer and a length that io.c makes of each.       *)
(*                                                                         *)
(* InArray is not inductive on its own: orter_io_pipe_put stores at        *)
(* off + len, so the invariant needs Fifo for the order and EmptyHasRoom   *)
(* for the offset of an empty pipe.                                        *)

ArrayInv == ArrayTypeOK /\ InArray /\ EmptyHasRoom /\ Fifo

\* A slice that is inside an array is a sequence of its elements.
LEMMA SliceType ==
  ASSUME NEW c \in [Cell -> Char], NEW o \in Nat, NEW l \in Nat, o + l <= PipeSize
  PROVE  /\ Slice(c, o, l) \in Seq(Char)
         /\ Len(Slice(c, o, l)) = l
         /\ \A i \in 1 .. l : Slice(c, o, l)[i] = c[o + i - 1]
<1>1. \A i \in 1 .. l : o + i - 1 \in Cell
  BY PipeSizeAssumption DEF Cell
<1>2. Slice(c, o, l) \in [1 .. l -> Char]
  BY <1>1 DEF Slice
<1>3. Slice(c, o, l) \in Seq(Char)
  BY <1>2, SeqDef
<1>4. Len(Slice(c, o, l)) = l
  BY <1>2, <1>3, LenProperties
<1> QED
  BY <1>3, <1>4 DEF Slice

LEMMA ContentsType ==
  ASSUME ArrayTypeOK, InArray
  PROVE  /\ Contents \in Seq(Char)
         /\ Len(Contents) = len
         /\ \A i \in 1 .. len : Contents[i] = cells[off + i - 1]
BY SliceType DEF Contents, ArrayTypeOK, InArray

LEMMA InitArray == ArrayInit => ArrayInv
<1> SUFFICES ASSUME ArrayInit PROVE ArrayInv
  OBVIOUS
<1>1. ArrayTypeOK
  BY PipeSizeAssumption, ArrayAssumption DEF ArrayInit, ArrayTypeOK
<1>2. InArray /\ EmptyHasRoom
  BY PipeSizeAssumption DEF ArrayInit, InArray, EmptyHasRoom, Left
<1>3. Contents \in Seq(Char) /\ Len(Contents) = 0
  BY <1>1, <1>2, ContentsType DEF ArrayInit
<1>4. Contents = <<>>
  BY <1>3, EmptySeq
<1>5. Fifo
  BY <1>4, ConcatEmptySeq, EmptySeq DEF Fifo, ArrayInit
<1> QED
  BY <1>1, <1>2, <1>5 DEF ArrayInv

\* What is left in the pipe after n characters have gone.
LEMMA LeaveContents ==
  ASSUME ArrayTypeOK, InArray, NEW n \in 1 .. len, Leave(n)
  PROVE  /\ ArrayTypeOK' /\ InArray' /\ EmptyHasRoom'
         /\ Contents' = SubSeq(Contents, n + 1, len)
<1>1. /\ len' = len - n /\ off' = (IF len = n THEN 0 ELSE off + n)
      /\ UNCHANGED <<cells, open, given>>
      /\ len \in Nat /\ off \in Nat /\ n \in Nat
  BY DEF Leave, ArrayTypeOK
<1>2. /\ Contents \in Seq(Char) /\ Len(Contents) = len
      /\ \A i \in 1 .. len : Contents[i] = cells[off + i - 1]
  BY ContentsType
<1>3. \A i \in n + 1 .. len : Contents[i] \in Char
  BY <1>1, <1>2, ElementOfSeq
<1>4. \A i \in 1 .. n : Contents[i] \in Char
  BY <1>1, <1>2, ElementOfSeq
<1>5. SubSeq(Contents, 1, n) \in Seq(Char)
  BY <1>1, <1>4, SubSeqProperties
<1>6. taken' \in Seq(Char)
  BY <1>5, ConcatProperties DEF Leave, ArrayTypeOK
<1>7. ArrayTypeOK'
  BY <1>1, <1>6 DEF ArrayTypeOK
<1>8. InArray'
  BY <1>1, PipeSizeAssumption DEF InArray
<1>9. EmptyHasRoom'
  BY <1>1, PipeSizeAssumption DEF EmptyHasRoom, Left
<1>10. /\ SubSeq(Contents, n + 1, len) \in Seq(Char)
       /\ Len(SubSeq(Contents, n + 1, len)) = len - n
       /\ \A i \in 1 .. len - n : SubSeq(Contents, n + 1, len)[i] = Contents[n + i]
  BY <1>1, <1>3, SubSeqProperties
<1>11. /\ Contents' \in Seq(Char) /\ Len(Contents') = len - n
       /\ \A i \in 1 .. len - n : Contents'[i] = cells[off' + i - 1]
  <2>1. /\ off' \in Nat /\ len' \in Nat /\ off' + len' <= PipeSize
        /\ cells' \in [Cell -> Char]
    BY <1>7, <1>8 DEF ArrayTypeOK, InArray
  <2>2. Contents' = Slice(cells', off', len')
    BY DEF Contents
  <2>3. /\ Slice(cells', off', len') \in Seq(Char)
        /\ Len(Slice(cells', off', len')) = len'
        /\ \A i \in 1 .. len' : Slice(cells', off', len')[i] = cells'[off' + i - 1]
    BY <2>1, SliceType
  <2> QED
    BY <1>1, <2>2, <2>3
<1>12. ASSUME NEW i \in 1 .. len - n
       PROVE  Contents'[i] = SubSeq(Contents, n + 1, len)[i]
  <2>1. len # n
    BY <1>1
  <2>2. Contents'[i] = cells[off + n + i - 1]
    BY <1>1, <1>11, <2>1
  <2>3. n + i \in 1 .. len /\ off + n + i - 1 = off + (n + i) - 1
    BY <1>1
  <2> QED
    BY <1>2, <1>10, <2>2, <2>3
<1>13. Contents' = SubSeq(Contents, n + 1, len)
  <2> DEFINE s == Contents'
             t == SubSeq(Contents, n + 1, len)
  <2>1. s \in Seq(Char) /\ t \in Seq(Char) /\ Len(s) = Len(t)
    BY <1>10, <1>11
  <2>2. \A i \in 1 .. Len(s) : s[i] = t[i]
    BY <1>11, <1>12
  <2> HIDE DEF s, t
  <2>3. s = t
    BY <2>1, <2>2, SeqEqual
  <2> QED
    BY <2>3 DEF s, t
<1> QED
  BY <1>7, <1>8, <1>9, <1>13

LEMMA LeaveArray ==
  ASSUME ArrayInv, NEW n \in 1 .. len, Leave(n)
  PROVE  ArrayInv'
<1>1. /\ ArrayTypeOK' /\ InArray' /\ EmptyHasRoom'
      /\ Contents' = SubSeq(Contents, n + 1, len)
  BY LeaveContents DEF ArrayInv
<1>2. /\ Contents \in Seq(Char) /\ Len(Contents) = len
      /\ len \in Nat /\ taken \in Seq(Char)
  BY ContentsType DEF ArrayInv, ArrayTypeOK
<1> DEFINE f == SubSeq(Contents, 1, n)
           b == SubSeq(Contents, n + 1, len)
<1>3. f \in Seq(Char) /\ b \in Seq(Char)
  BY <1>2, ElementOfSeq, SubSeqProperties
<1>4. f \o b = Contents
  BY <1>2, ConcatAdjacentSubSeq, SubSeqFull
<1>5. taken' = taken \o f /\ given' = given
  BY DEF Leave
<1> HIDE DEF f, b
<1>6. (taken \o f) \o b = taken \o (f \o b)
  <2>1. taken \in Seq(Char) /\ f \in Seq(Char) /\ b \in Seq(Char)
    BY <1>2, <1>3
  <2> QED
    BY <2>1, ConcatAssociative
<1>7. given = taken \o Contents
  BY DEF ArrayInv, Fifo
<1>8. Fifo'
  BY <1>1, <1>4, <1>5, <1>6, <1>7 DEF Fifo, b
<1> QED
  BY <1>1, <1>8 DEF ArrayInv

\* A read replaces the contents of an empty pipe.
LEMMA ReadContents ==
  ASSUME ArrayTypeOK, InArray, ArrayRead
  PROVE  \E n \in 1 .. PipeSize : \E chars \in [1 .. n -> Char] :
           /\ ArrayTypeOK' /\ InArray' /\ off' = 0 /\ len' = n
           /\ chars \in Seq(Char) /\ Contents' = chars
           /\ given' = given \o chars /\ taken' = taken
<1>0. PICK n \in 1 .. PipeSize : \E chars \in [1 .. n -> Char] :
        /\ cells' = [j \in Cell |-> IF j < n THEN chars[j + 1] ELSE cells[j]]
        /\ off' = 0 /\ len' = n /\ given' = given \o chars
  BY DEF ArrayRead
<1>1. PICK chars \in [1 .. n -> Char] :
        /\ cells' = [j \in Cell |-> IF j < n THEN chars[j + 1] ELSE cells[j]]
        /\ off' = 0 /\ len' = n /\ given' = given \o chars
  BY <1>0
<1>2. UNCHANGED <<open, taken>>
  BY DEF ArrayRead
<1>3. n \in Nat /\ PipeSize \in Nat /\ chars \in Seq(Char)
  BY PipeSizeAssumption, SeqDef
<1>4. \A j \in Cell : j < n => j + 1 \in 1 .. n
  BY <1>3 DEF Cell
<1>5. cells' \in [Cell -> Char]
  BY <1>1, <1>4 DEF ArrayTypeOK
<1>6. ArrayTypeOK' /\ InArray'
  BY <1>1, <1>2, <1>3, <1>5, ConcatProperties DEF ArrayTypeOK, InArray
<1>7. Contents' = [i \in 1 .. n |-> cells'[0 + i - 1]]
  BY <1>1 DEF Contents, Slice
<1>8. ASSUME NEW i \in 1 .. n PROVE cells'[0 + i - 1] = chars[i]
  <2>1. 0 + i - 1 \in Cell /\ 0 + i - 1 < n /\ (0 + i - 1) + 1 = i
    BY <1>3 DEF Cell
  <2> QED
    BY <1>1, <2>1
<1>9. Contents' = chars
  BY <1>7, <1>8
<1> QED
  BY <1>1, <1>2, <1>3, <1>6, <1>9

LEMMA ReadArray ==
  ASSUME ArrayInv, ArrayRead
  PROVE  ArrayInv'
<1>0. PICK n \in 1 .. PipeSize : \E chars \in [1 .. n -> Char] :
           /\ ArrayTypeOK' /\ InArray' /\ off' = 0 /\ len' = n
           /\ chars \in Seq(Char) /\ Contents' = chars
           /\ given' = given \o chars /\ taken' = taken
  BY ReadContents DEF ArrayInv
<1>1. PICK chars \in [1 .. n -> Char] :
           /\ ArrayTypeOK' /\ InArray' /\ off' = 0 /\ len' = n
           /\ chars \in Seq(Char) /\ Contents' = chars
           /\ given' = given \o chars /\ taken' = taken
  BY <1>0
<1>2. EmptyHasRoom'
  BY <1>1, PipeSizeAssumption DEF EmptyHasRoom, Left
<1>3. Contents \in Seq(Char) /\ Len(Contents) = 0 /\ taken \in Seq(Char)
  BY ContentsType DEF ArrayInv, ArrayTypeOK, ArrayRead, ReadReady
<1>4. Contents = <<>>
  BY <1>3, EmptySeq
<1>5. given = taken
  BY <1>3, <1>4, ConcatEmptySeq DEF ArrayInv, Fifo
<1>6. Fifo'
  BY <1>1, <1>5 DEF Fifo
<1> QED
  BY <1>1, <1>2, <1>6 DEF ArrayInv

\* A put appends one character.
LEMMA PutContents ==
  ASSUME ArrayTypeOK, InArray, ArrayPut
  PROVE  \E c \in Char :
           /\ ArrayTypeOK' /\ InArray' /\ off' = off /\ len' = len + 1
           /\ Contents' = Append(Contents, c)
           /\ given' = Append(given, c) /\ taken' = taken
<1>1. PICK c \in Char : /\ cells' = [cells EXCEPT ![off + len] = c]
                        /\ given' = Append(given, c)
  BY DEF ArrayPut
<1>2. /\ len' = len + 1 /\ UNCHANGED <<off, open, taken>>
      /\ off + len < PipeSize
      /\ off \in Nat /\ len \in Nat /\ PipeSize \in Nat
  BY PipeSizeAssumption DEF ArrayPut, HasRoom, Left, ArrayTypeOK
<1>3. off + len \in Cell
  BY <1>2 DEF Cell
<1>4. ArrayTypeOK' /\ InArray'
  BY <1>1, <1>2, <1>3, AppendProperties DEF ArrayTypeOK, InArray
<1>5. /\ Contents \in Seq(Char) /\ Len(Contents) = len
      /\ \A i \in 1 .. len : Contents[i] = cells[off + i - 1]
  BY ContentsType
<1> DEFINE t == Append(Contents, c)
<1>6. /\ t \in Seq(Char) /\ Len(t) = len + 1
      /\ \A i \in 1 .. len : t[i] = Contents[i]
      /\ t[len + 1] = c
  BY <1>5, AppendProperties
<1> DEFINE s == Slice(cells', off', len')
<1>7. /\ s \in Seq(Char) /\ Len(s) = len + 1
      /\ \A i \in 1 .. len + 1 : s[i] = cells'[off + i - 1]
  <2>1. /\ off' \in Nat /\ len' \in Nat /\ off' + len' <= PipeSize
        /\ cells' \in [Cell -> Char]
    BY <1>4 DEF ArrayTypeOK, InArray
  <2>2. /\ s \in Seq(Char) /\ Len(s) = len'
        /\ \A i \in 1 .. len' : s[i] = cells'[off' + i - 1]
    BY <2>1, SliceType
  <2> QED
    BY <1>2, <2>2
<1> HIDE DEF s, t
<1>8. ASSUME NEW i \in 1 .. len + 1 PROVE s[i] = t[i]
  <2>1. CASE i = len + 1
    <3>1. off + i - 1 = off + len
      BY <1>2, <2>1
    <3>2. s[i] = c
      BY <1>1, <1>3, <1>7, <3>1 DEF ArrayTypeOK
    <3> QED
      BY <1>6, <2>1, <3>2
  <2>2. CASE i \in 1 .. len
    <3>1. off + i - 1 # off + len /\ off + i - 1 \in Cell
      BY <1>2, <2>2 DEF Cell
    <3>2. s[i] = cells[off + i - 1]
      BY <1>1, <1>7, <3>1 DEF ArrayTypeOK
    <3> QED
      BY <1>5, <1>6, <2>2, <3>2
  <2> QED
    BY <1>2, <2>1, <2>2
<1>9. s = t
  BY <1>6, <1>7, <1>8, SeqEqual
<1>10. Contents' = Append(Contents, c)
  BY <1>9 DEF s, t, Contents
<1> QED
  BY <1>1, <1>2, <1>4, <1>10

LEMMA PutArray ==
  ASSUME ArrayInv, ArrayPut
  PROVE  ArrayInv'
<1>1. PICK c \in Char :
           /\ ArrayTypeOK' /\ InArray' /\ off' = off /\ len' = len + 1
           /\ Contents' = Append(Contents, c)
           /\ given' = Append(given, c) /\ taken' = taken
  BY PutContents DEF ArrayInv
<1>2. EmptyHasRoom'
  BY <1>1 DEF EmptyHasRoom, ArrayInv, ArrayTypeOK
<1>3. Contents \in Seq(Char) /\ taken \in Seq(Char)
  BY ContentsType DEF ArrayInv, ArrayTypeOK
<1>4. <<c>> \in Seq(Char) /\ taken \o Contents \in Seq(Char)
  BY <1>3, ConcatProperties
<1>5. Append(Contents, c) = Contents \o <<c>>
  BY <1>3, AppendIsConcat
<1>6. Append(taken \o Contents, c) = (taken \o Contents) \o <<c>>
  BY <1>4, AppendIsConcat
<1>7. (taken \o Contents) \o <<c>> = taken \o (Contents \o <<c>>)
  BY <1>3, <1>4, ConcatAssociative
<1>8. given = taken \o Contents
  BY DEF ArrayInv, Fifo
<1>9. Fifo'
  BY <1>1, <1>5, <1>6, <1>7, <1>8 DEF Fifo
<1> QED
  BY <1>1, <1>2, <1>9 DEF ArrayInv

\* The end of the input leaves an empty pipe as it is.
LEMMA EofArray ==
  ASSUME ArrayInv, ArrayEof
  PROVE  ArrayInv' /\ Contents' = Contents /\ off' = off
<1>1. off = 0 /\ UNCHANGED <<cells, off, len, given, taken>>
  BY PipeSizeAssumption DEF ArrayEof, ArrayInv, EmptyHasRoom, Left, ArrayTypeOK, InArray
<1>2. ArrayTypeOK'
  BY <1>1 DEF ArrayEof, ArrayInv, ArrayTypeOK
<1> QED
  BY <1>1, <1>2 DEF ArrayInv, InArray, EmptyHasRoom, Left, Fifo, Contents

LEMMA NextArray == ArrayInv /\ [ArrayNext]_array => ArrayInv'
<1> SUFFICES ASSUME ArrayInv, [ArrayNext]_array PROVE ArrayInv'
  OBVIOUS
<1>1. CASE ArrayRead
  BY <1>1, ReadArray
<1>2. CASE ArrayEof
  BY <1>2, EofArray
<1>3. CASE ArrayWrite
  BY <1>3, LeaveArray DEF ArrayWrite
<1>4. CASE ArrayGet
  <2>1. 1 \in 1 .. len
    BY <1>4 DEF ArrayGet, ArrayInv, ArrayTypeOK
  <2> QED
    BY <1>4, <2>1, LeaveArray DEF ArrayGet
<1>5. CASE ArrayPut
  BY <1>5, PutArray
<1>6. CASE UNCHANGED array
  BY <1>6 DEF array, ArrayInv, ArrayTypeOK, InArray, EmptyHasRoom,
              Left, Fifo, Contents
<1> QED
  BY <1>1, <1>2, <1>3, <1>4, <1>5, <1>6 DEF ArrayNext

LEMMA ArrayInvariant == ArraySpec => []ArrayInv
BY InitArray, NextArray, PTL DEF ArraySpec

\* No store goes past the end of the array, whatever the order of operations.
THEOREM StoresInArray == ArraySpec => []InArray
<1>1. ArrayInv => InArray
  BY DEF ArrayInv
<1> QED
  BY <1>1, ArrayInvariant, PTL

\* An empty pipe always has room for a whole buffer.
THEOREM EmptyPipeHasRoom == ArraySpec => []EmptyHasRoom
<1>1. ArrayInv => EmptyHasRoom
  BY DEF ArrayInv
<1> QED
  BY <1>1, ArrayInvariant, PTL

\* What left the pipe and what is in it is what entered it, in order.
THEOREM PipeIsFifo == ArraySpec => []Fifo
<1>1. ArrayInv => Fifo
  BY DEF ArrayInv
<1> QED
  BY <1>1, ArrayInvariant, PTL

\* Every step of the array is a step of the queue.
LEMMA QueueLeave ==
  ASSUME ArrayInv, NEW n \in 1 .. len, Leave(n)
  PROVE  [off |-> off', q |-> Contents'] =
           Queue!Rewound(off + n, SubSeq(Contents, n + 1, Len(Contents)))
<1>1. /\ len \in Nat /\ n \in Nat /\ Len(Contents) = len
      /\ Contents \in Seq(Char)
      /\ off' = (IF len = n THEN 0 ELSE off + n)
  BY ContentsType DEF ArrayInv, ArrayTypeOK, Leave
<1>2. Contents' = SubSeq(Contents, n + 1, Len(Contents))
  BY <1>1, LeaveContents DEF ArrayInv
<1> DEFINE b == SubSeq(Contents, n + 1, Len(Contents))
<1>3. b \in Seq(Char) /\ Len(b) = len - n
  <2>1. \A i \in n + 1 .. len : Contents[i] \in Char
    BY <1>1, ElementOfSeq
  <2> QED
    BY <1>1, <2>1, SubSeqProperties
<1> HIDE DEF b
<1>4. b = <<>> <=> len = n
  BY <1>1, <1>3, EmptySeq
<1>5. Contents' = b
  BY <1>2 DEF b
<1>6. off' = IF b = <<>> THEN 0 ELSE off + n
  BY <1>1, <1>4
<1>7. [off |-> off', q |-> Contents'] = Queue!Rewound(off + n, b)
  BY <1>5, <1>6 DEF Queue!Rewound
<1> QED
  BY <1>7 DEF b

\* The array with its offset and length implements the queue with an offset.
THEOREM PipeImplementsQueue == ArraySpec => ImplementsQueue
<1> DEFINE p == [off |-> off, q |-> Contents]
<1>1. ArrayInit => Queue!Init
  <2> SUFFICES ASSUME ArrayInit PROVE Queue!Init
    OBVIOUS
  <2>1. ArrayInv /\ len = 0 /\ off = 0
    BY InitArray DEF ArrayInit
  <2>2. Contents \in Seq(Char) /\ Len(Contents) = 0
    BY <2>1, ContentsType DEF ArrayInv
  <2> QED
    BY <2>1, <2>2, EmptySeq DEF Queue!Init, Queue!EmptyPipe
<1>2. ArrayInv /\ [ArrayNext]_array =>
        [Queue!Read \/ Queue!Write \/ Queue!Get \/ Queue!Put]_p
  <2> SUFFICES ASSUME ArrayInv, [ArrayNext]_array
               PROVE  \/ Queue!Read \/ Queue!Write
                      \/ Queue!Get \/ Queue!Put
                      \/ p' = p
    OBVIOUS
  <2>1. /\ Contents \in Seq(Char) /\ Len(Contents) = len
        /\ len \in Nat /\ off \in Nat
    BY ContentsType DEF ArrayInv, ArrayTypeOK
  <2>2. CASE ArrayRead
    <3>1. PICK n \in 1 .. PipeSize : \E chars \in [1 .. n -> Char] :
            Contents' = chars /\ off' = 0
      BY <2>2, ReadContents DEF ArrayInv
    <3>2. Contents = <<>>
      BY <2>1, <2>2, EmptySeq DEF ArrayRead, ReadReady
    <3> QED
      BY <3>1, <3>2 DEF Queue!Read, Queue!PipeRead
  <2>3. CASE ArrayEof
    <3>1. Contents' = Contents /\ off' = off
      BY <2>3, EofArray
    <3> QED
      BY <3>1
  <2>4. CASE ArrayWrite
    <3>1. PICK n \in 1 .. len : Leave(n)
      BY <2>4 DEF ArrayWrite
    <3> QED
      BY <2>1, <3>1, QueueLeave DEF Queue!Write, Queue!PipeWrite
  <2>5. CASE ArrayGet
    <3>1. 1 \in 1 .. len /\ Leave(1)
      BY <2>1, <2>5 DEF ArrayGet
    <3>2. Contents # <<>>
      BY <2>1, <3>1, EmptySeq
    <3>3. Tail(Contents) = SubSeq(Contents, 1 + 1, Len(Contents))
      BY <2>1, <3>2, TailIsSubSeq
    <3> QED
      BY <2>1, <3>1, <3>2, <3>3, QueueLeave DEF Queue!Get, Queue!PipeGet
  <2>6. CASE ArrayPut
    <3>1. PICK c \in Char : off' = off /\ Contents' = Append(Contents, c)
      BY <2>6, PutContents DEF ArrayInv
    <3>2. p' = Queue!PipePut(p, c)
      BY <3>1 DEF Queue!PipePut
    <3>3. Queue!PipeLeft(p) > 0
      BY <2>1, <2>6, PipeSizeAssumption DEF ArrayPut, HasRoom, Left, Queue!PipeLeft
    <3> QED
      BY <3>2, <3>3 DEF Queue!Put
  <2>7. CASE UNCHANGED array
    BY <2>7 DEF array, Contents
  <2> QED
    BY <2>2, <2>3, <2>4, <2>5, <2>6, <2>7 DEF ArrayNext
<1> QED
  BY <1>1, <1>2, ArrayInvariant, PTL DEF ArraySpec, ImplementsQueue, Queue!Spec

=============================================================================
