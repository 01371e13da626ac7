-------------------------- MODULE Iec101LinkProofs --------------------------
(***************************************************************************)
(* Proofs about Iec101Link, for every number of repetitions, of values, of *)
(* commands, of faults and of late answers.                                *)
(***************************************************************************)
EXTENDS Iec101Link, FiniteSetTheorems, TLAPS

Frames == [func : {"none", "status", "reset", "request", "user", "bad", "ack", "nodata", "data"},
           class : Class \cup {"none"}, n : Nat]

\* What the master sends in each state.
Sends == [EXREQLINK |-> "status", EXRESETLINK |-> "reset", EXREQRES |-> "request",
          SENDCON |-> "user"]

LinkType ==
  /\ m_state \in {"LINKRESET", "WAITFORREQ", "SLAVELINKAVAIL"} \cup DOMAIN Sends
  /\ s_state \in Reading \cup {"MASTERLINKAVAIL", "PROCESS_INCOMING_DATA"}
  /\ waiting \in BOOLEAN /\ ACD \in BOOLEAN
  /\ Trpcount \in Nat /\ commands \in Nat /\ confirmed \in Nat /\ rxbuffer \in Nat /\ taken \in Nat
  /\ txbuffer \in Frames /\ write_q \in Seq(Nat)
  /\ got \in [Class -> Seq(Nat)] /\ queue \in [Class -> Seq(Nat)] /\ made \in [Class -> Nat]
  /\ executed \in [n : Nat, times : Nat]
  /\ m2s \in Seq(Frames) /\ s2m \in Seq(Frames)
  /\ budget \in [fault : Nat, late : 0..Lates]
  /\ m_state \in DOMAIN Sends => txbuffer.func = Sends[m_state]
  /\ waiting => m_state \in DOMAIN Sends

-----------------------------------------------------------------------------
(* Lines. *)

\* What losing, garbling and reading make of a line: some of the first frames are gone and
\* any of the others may be garbled.
Thinned(new, old) ==
  /\ new \in Seq(Frames)
  /\ \E d \in 0..Len(old) :
       /\ Len(new) = Len(old) - d
       /\ \A i \in 1..Len(new) : i + d \in 1..Len(old) /\ new[i] \in {old[i + d], Short("bad")}

LEMMA Bounds == TrpMax \in Nat /\ Values \in Nat /\ Commands \in Nat /\ Faults \in Nat /\ Lates \in Nat
BY BoundsAssumption

LEMMA ShortFrames ==
  ASSUME NEW func \in {"none", "status", "reset", "request", "user", "bad", "ack", "nodata", "data"}
  PROVE  Short(func) \in Frames /\ Short(func).func = func
BY DEF Short, Frame, Frames

LEMMA UserFrames == \A n \in Nat : Frame("user", n) \in Frames
BY DEF Frame, Frames

LEMMA DataFrames == \A c \in Class, n \in Nat : Data(c, n) \in Frames
BY DEF Data, Frames

LEMMA FramesOfLine ==
  ASSUME NEW line \in Seq(Frames)
  PROVE  /\ Len(line) \in Nat
         /\ \A i \in 1..Len(line) : line[i] \in Frames /\ line[i].n \in Nat
<1>1. \A i \in 1..Len(line) : line[i] \in Frames
  OBVIOUS
<1>2. \A f \in Frames : f.n \in Nat
  BY DEF Frames
<1> QED  BY <1>1, <1>2

LEMMA NumbersOfQueue ==
  ASSUME NEW q \in Seq(Nat)
  PROVE  Len(q) \in Nat /\ \A i \in 1..Len(q) : q[i] \in Nat
OBVIOUS

\* A read leaves the end of the line.
LEMMA RestOfLine ==
  ASSUME NEW S, NEW line \in Seq(S), line # <<>>, NEW rest \in Rest(line)
  PROVE  /\ Head(line) = line[1] /\ line[1] \in S /\ Len(line) \in Nat \ {0} /\ rest \in Seq(S)
         /\ \E d \in 1..Len(line) :
              /\ Len(rest) = Len(line) - d
              /\ \A i \in 1..Len(rest) : i + d \in 1..Len(line) /\ rest[i] = line[i + d]
<1>1. PICK k \in 2..(Len(line) + 1) : rest = SubSeq(line, k, Len(line))
  BY DEF Rest
<1>2. Len(line) \in Nat /\ Len(line) > 0 /\ Head(line) = line[1]
  OBVIOUS
<1>3. rest \in Seq(S)
  BY <1>1, <1>2
<1>4. Len(rest) = Len(line) - (k - 1)
  BY <1>1, <1>2
<1>5. ASSUME NEW i \in 1..Len(rest)
      PROVE  i + (k - 1) \in 1..Len(line) /\ rest[i] = line[i + (k - 1)]
  <2>1. i \in 1..(Len(line) - k + 1) /\ i + (k - 1) \in 1..Len(line) /\ k + i - 1 = i + (k - 1)
    BY <1>2, <1>4
  <2>2. rest[i] = line[k + i - 1]
    BY <1>1, <1>2, <2>1
  <2> QED  BY <2>1, <2>2
<1>6. k - 1 \in 1..Len(line)
  BY <1>2
<1>7. \E d \in 1..Len(line) :
        /\ Len(rest) = Len(line) - d
        /\ \A i \in 1..Len(rest) : i + d \in 1..Len(line) /\ rest[i] = line[i + d]
  <2> DEFINE d == k - 1
  <2>1. d \in 1..Len(line) /\ Len(rest) = Len(line) - d
        /\ \A i \in 1..Len(rest) : i + d \in 1..Len(line) /\ rest[i] = line[i + d]
    BY <1>4, <1>5, <1>6
  <2> HIDE DEF d
  <2> QED  BY <2>1
<1>8. line[1] \in S /\ Len(line) \in Nat \ {0}
  BY <1>2
<1> QED  BY <1>2, <1>3, <1>7, <1>8, Zenon

LEMMA RestIsThinned ==
  ASSUME NEW line \in Seq(Frames), line # <<>>, NEW rest \in Rest(line)
  PROVE  Thinned(rest, line)
<1>1. PICK d \in 1..Len(line) :
        /\ Len(rest) = Len(line) - d
        /\ \A i \in 1..Len(rest) : i + d \in 1..Len(line) /\ rest[i] = line[i + d]
  BY RestOfLine
<1>2. rest \in Seq(Frames) /\ d \in 0..Len(line)
  BY RestOfLine
<1> QED  BY <1>1, <1>2 DEF Thinned

LEMMA TailIsThinned ==
  ASSUME NEW line \in Seq(Frames), line # <<>>
  PROVE  Thinned(Tail(line), line) /\ Len(Tail(line)) < Len(line)
<1>1. Len(line) \in Nat /\ Len(line) > 0
  OBVIOUS
<1>2. Tail(line) \in Seq(Frames) /\ Len(Tail(line)) = Len(line) - 1
  OBVIOUS
<1>3. \A i \in 1..Len(Tail(line)) : i + 1 \in 1..Len(line) /\ Tail(line)[i] = line[i + 1]
  BY <1>1, <1>2
<1>4. 1 \in 0..Len(line)
  BY <1>1
<1> QED  BY <1>1, <1>2, <1>3, <1>4 DEF Thinned

LEMMA GarbledIsThinned ==
  ASSUME NEW line \in Seq(Frames), line # <<>>
  PROVE  /\ Thinned([line EXCEPT ![1] = Short("bad")], line)
         /\ Len([line EXCEPT ![1] = Short("bad")]) = Len(line)
<1> DEFINE new == [line EXCEPT ![1] = Short("bad")]
<1>1. Len(line) \in Nat /\ Short("bad") \in Frames
  BY ShortFrames
<1>2. new \in Seq(Frames) /\ Len(new) = Len(line)
  BY <1>1
<1>3. \A i \in 1..Len(new) : i + 0 \in 1..Len(line) /\ new[i] \in {line[i + 0], Short("bad")}
  BY <1>1, <1>2
<1>4. 0 \in 0..Len(line) /\ Len(new) = Len(line) - 0
  BY <1>1, <1>2
<1> HIDE DEF new
<1>5. Thinned(new, line)
  BY <1>2, <1>3, <1>4 DEF Thinned
<1> QED  BY <1>2, <1>5 DEF new

LEMMA AppendedLine ==
  ASSUME NEW S, NEW line \in Seq(S), NEW f \in S
  PROVE  /\ Append(line, f) \in Seq(S) /\ Len(Append(line, f)) = Len(line) + 1 /\ Len(line) \in Nat
         /\ \A i \in 1..Len(line) : Append(line, f)[i] = line[i]
         /\ Append(line, f)[Len(line) + 1] = f
         /\ \A i \in 1..Len(Append(line, f)) : i \in 1..Len(line) \/ i = Len(line) + 1
OBVIOUS

LEMMA TailOfQueue ==
  ASSUME NEW q \in Seq(Nat), q # <<>>
  PROVE  /\ Tail(q) \in Seq(Nat) /\ Head(q) = q[1] /\ Head(q) \in Nat /\ Len(Tail(q)) = Len(q) - 1
         /\ Len(q) \in Nat \ {0} /\ 1 \in 1..Len(q)
         /\ \A i \in 1..Len(Tail(q)) : i + 1 \in 1..Len(q) /\ Tail(q)[i] = q[i + 1]
OBVIOUS

-----------------------------------------------------------------------------
(* Types. *)

LEMMA SendsStates == DOMAIN Sends = {"EXREQLINK", "EXRESETLINK", "EXREQRES", "SENDCON"}
                     /\ Sends["EXREQLINK"] = "status" /\ Sends["EXRESETLINK"] = "reset"
                     /\ Sends["EXREQRES"] = "request" /\ Sends["SENDCON"] = "user"
BY DEF Sends

LEMMA InitLinkType == Init => LinkType
<1> SUFFICES ASSUME Init PROVE LinkType
  OBVIOUS
<1>1. Short("none") \in Frames
  BY ShortFrames
<1>2. <<>> \in Seq(Frames) /\ <<>> \in Seq(Nat)
  OBVIOUS
<1>3. got \in [Class -> Seq(Nat)] /\ queue \in [Class -> Seq(Nat)] /\ made \in [Class -> Nat]
  BY <1>2 DEF Init
<1>4. budget \in [fault : Nat, late : 0..Lates] /\ executed \in [n : Nat, times : Nat]
  BY Bounds DEF Init
<1> QED  BY <1>1, <1>2, <1>3, <1>4, SendsStates DEF Init, LinkType, Reading

\* A fault is paid for, and is all that changes the budget.
LEMMA SpendType ==
  ASSUME LinkType, NEW what \in {"fault", "late"}, Spend(what)
  PROVE  budget' \in [fault : Nat, late : 0..Lates]
BY Bounds DEF LinkType, Spend

LEMMA LineFaultType ==
  ASSUME LinkType, Lose \/ Garble
  PROVE  LinkType'
<1>1. UNCHANGED <<master, slave>> /\ budget' \in [fault : Nat, late : 0..Lates]
  BY SpendType DEF Lose, Garble
<1>2. m2s \in Seq(Frames) /\ s2m \in Seq(Frames)
  BY DEF LinkType
<1>3. m2s' \in Seq(Frames) /\ s2m' \in Seq(Frames)
  BY <1>2, TailIsThinned, GarbledIsThinned DEF Lose, Garble, Thinned
<1> QED  BY <1>1, <1>3 DEF LinkType, master, slave

LEMMA MasterPlanType ==
  ASSUME LinkType, Command \/ WaitForReq \/ ReqLink \/ TxOneFrame
  PROVE  LinkType'
<1>1. CASE Command
  <2>1. write_q' \in Seq(Nat) /\ commands' \in Nat
    BY <1>1 DEF Command, LinkType
  <2> QED  BY <1>1, <2>1 DEF Command, LinkType, slave
<1>2. CASE WaitForReq
  BY <1>2, SendsStates DEF WaitForReq, LinkType, slave
<1>3. CASE ReqLink
  BY <1>3, SendsStates, ShortFrames DEF ReqLink, LinkType, slave
<1>4. CASE TxOneFrame
  <2>1. m2s' \in Seq(Frames) /\ Trpcount' \in Nat
    BY <1>4 DEF TxOneFrame, LinkType
  <2> QED  BY <1>4, <2>1, SendsStates DEF TxOneFrame, LinkType, slave
<1> QED  BY <1>1, <1>2, <1>3, <1>4

LEMMA SlaveLinkAvailType ==
  ASSUME LinkType, SlaveLinkAvail
  PROVE  LinkType'
<1>1. write_q' \in Seq(Nat) /\ ~waiting
  BY TailOfQueue, SendsStates DEF SlaveLinkAvail, LinkType
<1>2. txbuffer' \in Frames /\ m_state' \in DOMAIN Sends /\ txbuffer'.func = Sends[m_state']
  <2>1. CASE write_q # <<>>
    <3>1. Head(write_q) \in Nat
      BY <2>1, TailOfQueue DEF LinkType
    <3> QED  BY <2>1, <3>1, UserFrames, SendsStates DEF SlaveLinkAvail, Frame
  <2>2. CASE write_q = <<>>
    BY <2>2, ShortFrames, SendsStates DEF SlaveLinkAvail
  <2> QED  BY <2>1, <2>2
<1> QED  BY <1>1, <1>2 DEF SlaveLinkAvail, LinkType, slave

\* After a read the master is in a state of the loop, with the frame it sends there.
LEMMA MovesType ==
  ASSUME LinkType, waiting, NEW state, Moves(state),
         state \in {m_state, "WAITFORREQ", "SLAVELINKAVAIL"}
           \/ (state = "EXRESETLINK" /\ m_state = "EXREQLINK")
  PROVE  /\ m_state' \in {"LINKRESET", "WAITFORREQ", "SLAVELINKAVAIL"} \cup DOMAIN Sends
         /\ txbuffer' \in Frames /\ Trpcount' \in Nat
         /\ m_state' \in DOMAIN Sends => txbuffer'.func = Sends[m_state']
<1>1. m_state \in DOMAIN Sends /\ txbuffer.func = Sends[m_state] /\ txbuffer \in Frames
      /\ Trpcount \in Nat
  BY DEF LinkType
<1>2. CASE state = "EXRESETLINK" /\ m_state = "EXREQLINK"
  BY <1>2, ShortFrames, SendsStates DEF Moves
<1>3. CASE state \in {m_state, "WAITFORREQ", "SLAVELINKAVAIL"}
  BY <1>1, <1>3, SendsStates DEF Moves
<1> QED  BY <1>2, <1>3

LEMMA AfterStates ==
  /\ AfterSilence \in {m_state, "WAITFORREQ"}
  /\ \A func : After(func) \in {m_state, "WAITFORREQ", "SLAVELINKAVAIL"}
                 \/ (After(func) = "EXRESETLINK" /\ m_state = "EXREQLINK")
BY DEF AfterSilence, After

LEMMA MasterReadsType ==
  ASSUME LinkType, MasterReads
  PROVE  LinkType'
<1> DEFINE f == Head(s2m)
<1>1. s2m' \in Seq(Frames) /\ f \in Frames
  BY RestOfLine DEF MasterReads, LinkType
<1>2. waiting /\ Moves(After(f.func))
  BY DEF MasterReads
<1>3. /\ m_state' \in {"LINKRESET", "WAITFORREQ", "SLAVELINKAVAIL"} \cup DOMAIN Sends
      /\ txbuffer' \in Frames /\ Trpcount' \in Nat
      /\ m_state' \in DOMAIN Sends => txbuffer'.func = Sends[m_state']
  <2> HIDE DEF f
  <2> QED  BY <1>2, AfterStates, MovesType
<1>4. confirmed' \in Nat
  <2>1. txbuffer.n \in Nat
    BY DEF LinkType, Frames
  <2> QED  BY <2>1 DEF MasterReads, LinkType
<1>5. got' \in [Class -> Seq(Nat)]
  <2>1. f.n \in Nat /\ got \in [Class -> Seq(Nat)]
    BY <1>1 DEF LinkType, Frames
  <2>2. \A c \in Class : Append(got[c], f.n) \in Seq(Nat)
    BY <2>1
  <2>3. got' = got \/ got' = [got EXCEPT ![f.class] = Append(@, f.n)]
    BY DEF MasterReads
  <2> HIDE DEF f
  <2> QED  BY <2>1, <2>2, <2>3
<1> QED  BY <1>1, <1>3, <1>4, <1>5 DEF MasterReads, LinkType, slave

LEMMA MasterReadsNothingType ==
  ASSUME LinkType, MasterReadsNothing
  PROVE  LinkType'
<1>1. waiting /\ Moves(AfterSilence)
  BY DEF MasterReadsNothing
<1>2. /\ m_state' \in {"LINKRESET", "WAITFORREQ", "SLAVELINKAVAIL"} \cup DOMAIN Sends
      /\ txbuffer' \in Frames /\ Trpcount' \in Nat
      /\ m_state' \in DOMAIN Sends => txbuffer'.func = Sends[m_state']
  BY <1>1, AfterStates, MovesType
<1>3. budget' \in [fault : Nat, late : 0..Lates]
  BY SpendType DEF MasterReadsNothing, LinkType
<1> QED  BY <1>2, <1>3 DEF MasterReadsNothing, LinkType, slave

LEMMA MakeValueType ==
  ASSUME LinkType, NEW c \in Class, MakeValue(c)
  PROVE  LinkType'
<1>1. made' \in [Class -> Nat]
  BY DEF MakeValue, LinkType
<1>2. Append(queue[c], made[c] + 1) \in Seq(Nat)
  BY DEF LinkType
<1>3. queue' \in [Class -> Seq(Nat)]
  BY <1>2 DEF MakeValue, LinkType
<1> QED  BY <1>1, <1>3 DEF MakeValue, LinkType, master

\* What a reading slave makes of a frame: its state, its answer and the command it takes.
LEMMA SlaveReadsType ==
  ASSUME LinkType, SlaveReads
  PROVE  LinkType'
<1>1. m2s' \in Seq(Frames) /\ Head(m2s) \in Frames
  BY RestOfLine DEF SlaveReads, LinkType
<1>2. s_state \in Reading /\ s2m \in Seq(Frames)
  BY DEF SlaveReads, LinkType
<1>3. \A func \in {"status", "ack"} : Append(s2m, Short(func)) \in Seq(Frames)
  BY <1>2, ShortFrames, AppendedLine
<1>4. s2m' \in Seq(Frames) /\ s_state' \in Reading \cup {"MASTERLINKAVAIL", "PROCESS_INCOMING_DATA"}
      /\ ACD' \in BOOLEAN /\ rxbuffer' \in Nat /\ taken' \in Nat
  <2>1. Head(m2s).n \in Nat
    BY <1>1 DEF Frames
  <2>2. CASE Handles(Head(m2s))
    BY <1>2, <1>3, <2>1, <2>2 DEF Handles, Answers, TakesCommand, Reading, LinkType
  <2>3. CASE ~Known(Head(m2s).func)
    BY <1>2, <2>3 DEF SlaveReads, Reading, LinkType
  <2> QED  BY <2>2, <2>3 DEF SlaveReads
<1> QED  BY <1>1, <1>4 DEF SlaveReads, LinkType, master

LEMMA MasterLinkAvailType ==
  ASSUME LinkType, MasterLinkAvail
  PROVE  LinkType'
<1>1. CASE \E c \in Class, acd \in BOOLEAN : queue[c] # <<>> /\ Serve(c, acd)
  <2>1. PICK c \in Class, acd \in BOOLEAN : queue[c] # <<>> /\ Serve(c, acd)
    BY <1>1
  <2>2. queue[c] \in Seq(Nat) /\ Tail(queue[c]) \in Seq(Nat) /\ Head(queue[c]) \in Nat
    BY <2>1, TailOfQueue DEF LinkType
  <2>3. queue' \in [Class -> Seq(Nat)]
    BY <2>1, <2>2 DEF Serve, LinkType
  <2>4. Data(c, Head(queue[c])) \in Frames
    BY <2>2, DataFrames
  <2>5. s2m' \in Seq(Frames)
    BY <2>1, <2>4, AppendedLine DEF Serve, Answers, LinkType
  <2> QED  BY <2>1, <2>3, <2>5 DEF MasterLinkAvail, Serve, Answers, LinkType, master, Reading
<1>2. CASE UNCHANGED queue /\ \E acd \in BOOLEAN : Answers(Short("nodata"), "EXREQRES", acd)
  <2>1. s2m' \in Seq(Frames) /\ ACD' \in BOOLEAN /\ s_state' = "EXREQRES"
    BY <1>2, ShortFrames, AppendedLine DEF Answers, LinkType
  <2> QED  BY <1>2, <2>1 DEF MasterLinkAvail, LinkType, master, Reading
<1> QED  BY <1>1, <1>2 DEF MasterLinkAvail, Class

LEMMA SlaveStepType ==
  ASSUME LinkType, SlaveGivesUp \/ ProcessIncomingData
  PROVE  LinkType'
<1>1. CASE SlaveGivesUp
  BY <1>1, SpendType DEF SlaveGivesUp, LinkType, master, Reading
<1>2. CASE ProcessIncomingData
  <2>1. executed' \in [n : Nat, times : Nat]
    <3>1. executed \in [n : Nat, times : Nat] /\ rxbuffer \in Nat
      BY DEF LinkType
    <3>2. [executed EXCEPT !.times = @ + 1] \in [n : Nat, times : Nat]
      BY <3>1
    <3>3. [n |-> rxbuffer, times |-> 1] \in [n : Nat, times : Nat]
      BY <3>1
    <3> QED  BY <1>2, <3>2, <3>3 DEF ProcessIncomingData
  <2> QED  BY <1>2, <2>1 DEF ProcessIncomingData, LinkType, master, Reading
<1> QED  BY <1>1, <1>2

LEMMA NextLinkType == LinkType /\ [Next]_vars => LinkType'
<1> SUFFICES ASSUME LinkType, [Next]_vars PROVE LinkType'
  OBVIOUS
<1>1. CASE UNCHANGED vars
  BY <1>1 DEF LinkType, vars, master, slave
<1>2. CASE Next
  BY <1>2, LineFaultType, MasterPlanType, SlaveLinkAvailType, MasterReadsType,
     MasterReadsNothingType, MakeValueType, SlaveReadsType, MasterLinkAvailType, SlaveStepType
     DEF Next
<1> QED  BY <1>1, <1>2

LEMMA LinkTypeHolds == Spec => []LinkType
BY InitLinkType, NextLinkType, PTL DEF Spec

-----------------------------------------------------------------------------
(* The values of a class: what the control centre has, what is on the line and what waits *)
(* at the slave are in the order in which they were made.                                 *)

Carries(f, c) == f.func = "data" /\ f.class = c

\* y is the youngest value delivered, q waits at the slave, m values have been made.
InOrder(y, q, line, m, c) ==
  /\ \A i, j \in 1..Len(q) : i < j => q[i] < q[j]
  /\ \A i \in 1..Len(q) : y < q[i] /\ q[i] <= m
  /\ \A i \in 1..Len(line) : Carries(line[i], c) => y < line[i].n /\ line[i].n <= m
  /\ \A i, j \in 1..Len(line) :
       i < j /\ Carries(line[i], c) /\ Carries(line[j], c) => line[i].n < line[j].n
  /\ \A i \in 1..Len(line), j \in 1..Len(q) : Carries(line[i], c) => line[i].n < q[j]

ValuesInOrder ==
  \A c \in Class : /\ Transfer!Youngest(c) <= made[c]
                   /\ InOrder(Transfer!Youngest(c), queue[c], s2m, made[c], c)

LEMMA ThinnedInOrder ==
  ASSUME NEW y \in Nat, NEW q \in Seq(Nat), NEW line \in Seq(Frames), NEW m \in Nat, NEW c,
         InOrder(y, q, line, m, c), NEW new, Thinned(new, line)
  PROVE  InOrder(y, q, new, m, c)
<1>1. PICK d \in 0..Len(line) :
        /\ Len(new) = Len(line) - d
        /\ \A i \in 1..Len(new) : i + d \in 1..Len(line) /\ new[i] \in {line[i + d], Short("bad")}
  BY DEF Thinned
<1>2. d \in Nat /\ Len(new) \in Nat
  BY DEF Thinned
<1>3. ~Carries(Short("bad"), c)
  BY ShortFrames DEF Carries
<1>4. \A i \in 1..Len(new) : Carries(new[i], c) => i + d \in 1..Len(line) /\ new[i] = line[i + d]
  BY <1>1, <1>3
<1>5. \A i, j \in 1..Len(new) : i < j => i + d < j + d
  BY <1>2
<1> QED  BY <1>4, <1>5 DEF InOrder

LEMMA NumberAppended ==
  ASSUME NEW q \in Seq(Nat), NEW n \in Nat
  PROVE  /\ Len(q) \in Nat /\ Len(Append(q, n + 1)) = Len(q) + 1
         /\ \A i \in 1..Len(q) : Append(q, n + 1)[i] = q[i]
         /\ Append(q, n + 1)[Len(q) + 1] = n + 1
         /\ \A i \in 1..Len(Append(q, n + 1)) : i \in 1..Len(q) \/ i = Len(q) + 1
<1>1. Len(q) \in Nat /\ n + 1 \in Nat
  OBVIOUS
<1>2. Len(Append(q, n + 1)) = Len(q) + 1
  BY <1>1
<1> QED  BY <1>1, <1>2

LEMMA MadeInOrder ==
  ASSUME NEW y \in Nat, NEW q \in Seq(Nat), NEW line \in Seq(Frames), NEW m \in Nat, NEW c,
         InOrder(y, q, line, m, c), y <= m
  PROVE  InOrder(y, Append(q, m + 1), line, m + 1, c)
<1> DEFINE p == Append(q, m + 1)
<1>1. /\ Len(q) \in Nat /\ Len(p) = Len(q) + 1 /\ \A i \in 1..Len(q) : p[i] = q[i]
      /\ p[Len(q) + 1] = m + 1 /\ \A i \in 1..Len(p) : i \in 1..Len(q) \/ i = Len(q) + 1
  BY NumberAppended
<1>2. \A i \in 1..Len(line) : line[i].n \in Nat
  BY FramesOfLine
<1>3. \A i \in 1..Len(q) : q[i] \in Nat /\ q[i] <= m /\ y < q[i]
  BY DEF InOrder
<1> HIDE DEF p
<1>4. ASSUME NEW i \in 1..Len(p), NEW j \in 1..Len(p), i < j
      PROVE  p[i] < p[j]
  <2>1. i \in 1..Len(q) /\ p[i] = q[i] /\ q[i] \in Nat
    BY <1>1, <1>3, <1>4
  <2>2. CASE j \in 1..Len(q)
    BY <1>1, <1>4, <2>1, <2>2 DEF InOrder
  <2>3. CASE j = Len(q) + 1
    BY <1>1, <1>3, <2>1, <2>3
  <2> QED  BY <1>1, <2>2, <2>3
<1>5. \A i \in 1..Len(p) : y < p[i] /\ p[i] <= m + 1
  BY <1>1, <1>3
<1>6. \A i \in 1..Len(line) : Carries(line[i], c) => y < line[i].n /\ line[i].n <= m + 1
  BY <1>2 DEF InOrder
<1>7. ASSUME NEW i \in 1..Len(line), NEW j \in 1..Len(p), Carries(line[i], c)
      PROVE  line[i].n < p[j]
  <2>1. CASE j \in 1..Len(q)
    BY <1>1, <1>7, <2>1 DEF InOrder
  <2>2. CASE j = Len(q) + 1
    <3>1. line[i].n \in Nat /\ line[i].n <= m
      BY <1>2, <1>7 DEF InOrder
    <3>2. p[j] = m + 1
      BY <1>1, <2>2
    <3> QED  BY <3>1, <3>2
  <2> QED  BY <1>1, <2>1, <2>2
<1>8. InOrder(y, p, line, m + 1, c)
  BY <1>4, <1>5, <1>6, <1>7 DEF InOrder
<1> QED  BY <1>8 DEF p

LEMMA OthersInOrder ==
  ASSUME NEW y \in Nat, NEW q \in Seq(Nat), NEW line \in Seq(Frames), NEW m \in Nat, NEW c,
         InOrder(y, q, line, m, c), NEW f \in Frames, ~Carries(f, c)
  PROVE  InOrder(y, q, Append(line, f), m, c)
<1> DEFINE new == Append(line, f)
<1>1. /\ Len(line) \in Nat /\ \A i \in 1..Len(line) : new[i] = line[i]
      /\ new[Len(line) + 1] = f /\ \A i \in 1..Len(new) : i \in 1..Len(line) \/ i = Len(line) + 1
  BY AppendedLine
<1> HIDE DEF new
<1>2. \A i \in 1..Len(new) : Carries(new[i], c) => i \in 1..Len(line) /\ new[i] = line[i]
  BY <1>1
<1>3. InOrder(y, q, new, m, c)
  BY <1>2 DEF InOrder
<1> QED  BY <1>3 DEF new

LEMMA ServedInOrder ==
  ASSUME NEW y \in Nat, NEW q \in Seq(Nat), NEW line \in Seq(Frames), NEW m \in Nat,
         NEW c \in Class, InOrder(y, q, line, m, c), q # <<>>
  PROVE  InOrder(y, Tail(q), Append(line, Data(c, Head(q))), m, c)
<1> DEFINE f == Data(c, Head(q))
           new == Append(line, f)
           p == Tail(q)
<1>1. /\ p \in Seq(Nat) /\ Head(q) = q[1] /\ Head(q) \in Nat /\ Len(p) = Len(q) - 1
      /\ Len(q) \in Nat \ {0} /\ 1 \in 1..Len(q)
      /\ \A i \in 1..Len(p) : i + 1 \in 1..Len(q) /\ p[i] = q[i + 1]
  BY TailOfQueue
<1>2. f \in Frames /\ f.n = Head(q)
  BY <1>1, DataFrames DEF Data
<1> HIDE DEF f
<1>3. /\ Len(line) \in Nat /\ \A i \in 1..Len(line) : new[i] = line[i]
      /\ new[Len(line) + 1] = f /\ \A i \in 1..Len(new) : i \in 1..Len(line) \/ i = Len(line) + 1
  BY <1>2, AppendedLine
<1> HIDE DEF new, p
<1>4. ASSUME NEW i \in 1..Len(p)
      PROVE  q[1] < p[i] /\ y < p[i] /\ p[i] <= m
  <2>1. i + 1 \in 1..Len(q) /\ 1 < i + 1 /\ p[i] = q[i + 1]
    BY <1>1
  <2> QED  BY <1>1, <2>1 DEF InOrder
<1>5. ASSUME NEW i \in 1..Len(p), NEW j \in 1..Len(p), i < j
      PROVE  p[i] < p[j]
  <2>1. i + 1 \in 1..Len(q) /\ j + 1 \in 1..Len(q) /\ i + 1 < j + 1
    BY <1>1, <1>5
  <2> QED  BY <1>1, <2>1 DEF InOrder
<1>6. \A i \in 1..Len(new) : Carries(new[i], c) => y < new[i].n /\ new[i].n <= m
  BY <1>1, <1>2, <1>3 DEF InOrder
<1>7. \A i, j \in 1..Len(new) :
        i < j /\ Carries(new[i], c) /\ Carries(new[j], c) => new[i].n < new[j].n
  <2> SUFFICES ASSUME NEW i \in 1..Len(new), NEW j \in 1..Len(new), i < j,
                      Carries(new[i], c), Carries(new[j], c)
               PROVE  new[i].n < new[j].n
    OBVIOUS
  <2>1. i \in 1..Len(line) /\ new[i] = line[i]
    BY <1>3
  <2>2. CASE j \in 1..Len(line)
    BY <1>3, <2>1, <2>2 DEF InOrder
  <2>3. CASE j = Len(line) + 1
    BY <1>1, <1>2, <1>3, <2>1, <2>3 DEF InOrder
  <2> QED  BY <1>3, <2>2, <2>3
<1>8. \A i \in 1..Len(new), j \in 1..Len(p) : Carries(new[i], c) => new[i].n < p[j]
  BY <1>1, <1>2, <1>3, <1>4 DEF InOrder
<1>9. InOrder(y, p, new, m, c)
  BY <1>4, <1>5, <1>6, <1>7, <1>8 DEF InOrder
<1> QED  BY <1>9 DEF f, new, p

LEMMA DeliveredInOrder ==
  ASSUME NEW y \in Nat, NEW q \in Seq(Nat), NEW line \in Seq(Frames), NEW m \in Nat, NEW c,
         InOrder(y, q, line, m, c), line # <<>>, Carries(Head(line), c), NEW rest \in Rest(line)
  PROVE  Head(line).n \in (y + 1)..m /\ InOrder(Head(line).n, q, rest, m, c)
<1>1. Head(line) = line[1] /\ line[1].n \in Nat /\ Len(line) \in Nat \ {0} /\ rest \in Seq(Frames)
  <2>1. Head(line) = line[1] /\ Len(line) \in Nat \ {0} /\ rest \in Seq(Frames)
    BY RestOfLine
  <2> QED  BY <2>1, FramesOfLine
<1>2. PICK d \in 1..Len(line) :
        /\ Len(rest) = Len(line) - d
        /\ \A i \in 1..Len(rest) : i + d \in 1..Len(line) /\ rest[i] = line[i + d]
  BY RestOfLine
<1>3. 1 \in 1..Len(line)
  BY <1>1
<1>4. y < line[1].n /\ line[1].n <= m /\ \A i \in 1..Len(q) : line[1].n < q[i] /\ q[i] <= m
  BY <1>1, <1>3 DEF InOrder
<1>5. ASSUME NEW i \in 1..Len(rest), Carries(rest[i], c)
      PROVE  line[1].n < rest[i].n /\ rest[i].n <= m
  <2>1. i + d \in 1..Len(line) /\ 1 < i + d /\ rest[i] = line[i + d] /\ Carries(line[1], c)
    BY <1>1, <1>2
  <2> QED  BY <1>3, <1>5, <2>1 DEF InOrder
<1>6. ASSUME NEW i \in 1..Len(rest), NEW j \in 1..Len(rest), i < j,
             Carries(rest[i], c), Carries(rest[j], c)
      PROVE  rest[i].n < rest[j].n
  <2>1. i + d \in 1..Len(line) /\ j + d \in 1..Len(line) /\ i + d < j + d
        /\ rest[i] = line[i + d] /\ rest[j] = line[j + d]
    <3>1. i + d \in 1..Len(line) /\ rest[i] = line[i + d]
      BY <1>2
    <3>2. j + d \in 1..Len(line) /\ rest[j] = line[j + d]
      BY <1>2
    <3>3. i \in Int /\ j \in Int /\ d \in Int
      OBVIOUS
    <3>4. i + d < j + d
      BY <1>6, <3>3
    <3> QED  BY <3>1, <3>2, <3>4
  <2> QED  BY <1>6, <2>1 DEF InOrder
<1>7. \A i \in 1..Len(rest), j \in 1..Len(q) : Carries(rest[i], c) => rest[i].n < q[j]
  BY <1>2 DEF InOrder
<1>8. InOrder(line[1].n, q, rest, m, c)
  BY <1>4, <1>5, <1>6, <1>7 DEF InOrder
<1> QED  BY <1>1, <1>4, <1>8

LEMMA YoungestType ==
  ASSUME LinkType, NEW c \in Class
  PROVE  Transfer!Youngest(c) \in Nat
<1>1. got[c] \in Seq(Nat)
  BY DEF LinkType
<1> QED  BY <1>1 DEF Transfer!Youngest

\* What is delivered becomes the youngest value of its class, and no other class sees it.
LEMMA AppendedIsYoungest ==
  ASSUME LinkType, NEW c \in Class, NEW n \in Nat, got' = [got EXCEPT ![c] = Append(@, n)]
  PROVE  \A e \in Class : Transfer!Youngest(e)' = IF e = c THEN n ELSE Transfer!Youngest(e)
<1>1. got[c] \in Seq(Nat) /\ got \in [Class -> Seq(Nat)]
  BY DEF LinkType
<1>2. Append(got[c], n) # <<>> /\ Append(got[c], n)[Len(Append(got[c], n))] = n
  <2>1. Len(Append(got[c], n)) = Len(got[c]) + 1 /\ Append(got[c], n)[Len(got[c]) + 1] = n
        /\ Len(got[c]) \in Nat
    BY <1>1, AppendedLine
  <2>2. Len(<<>>) = 0
    OBVIOUS
  <2> QED  BY <2>1, <2>2
<1>3. got'[c] = Append(got[c], n) /\ \A e \in Class : e # c => got'[e] = got[e]
  BY <1>1
<1> QED  BY <1>2, <1>3 DEF Transfer!Youngest

LEMMA InitValues == Init => ValuesInOrder
<1> SUFFICES ASSUME Init PROVE ValuesInOrder
  OBVIOUS
<1>1. \A c \in Class : Transfer!Youngest(c) = 0 /\ made[c] = 0 /\ queue[c] = <<>> /\ s2m = <<>>
  BY DEF Init, Transfer!Youngest
<1> QED  BY <1>1 DEF ValuesInOrder, InOrder

\* A step that adds at most an answer without a value to a line that is thinned.
LEMMA SameValues ==
  ASSUME LinkType, ValuesInOrder, UNCHANGED <<got, made, queue>>,
         s2m' = s2m \/ Thinned(s2m', s2m)
           \/ \E f \in Frames : f.func # "data" /\ s2m' = Append(s2m, f)
  PROVE  ValuesInOrder'
<1> SUFFICES ASSUME NEW c \in Class
             PROVE  InOrder(Transfer!Youngest(c), queue[c], s2m', made[c], c)
  BY DEF ValuesInOrder, Transfer!Youngest
<1>1. /\ Transfer!Youngest(c) \in Nat /\ queue[c] \in Seq(Nat) /\ s2m \in Seq(Frames)
      /\ made[c] \in Nat
  BY YoungestType DEF LinkType
<1>2. InOrder(Transfer!Youngest(c), queue[c], s2m, made[c], c)
  BY DEF ValuesInOrder
<1>3. CASE Thinned(s2m', s2m)
  BY <1>1, <1>2, <1>3, ThinnedInOrder
<1>4. CASE \E f \in Frames : f.func # "data" /\ s2m' = Append(s2m, f)
  BY <1>1, <1>2, <1>4, OthersInOrder DEF Carries
<1> QED  BY <1>2, <1>3, <1>4

LEMMA MakeKeepsValues ==
  ASSUME LinkType, ValuesInOrder, NEW c \in Class, MakeValue(c)
  PROVE  ValuesInOrder'
<1> SUFFICES ASSUME NEW e \in Class
             PROVE  /\ Transfer!Youngest(e) <= made'[e]
                    /\ InOrder(Transfer!Youngest(e), queue'[e], s2m, made'[e], e)
  BY DEF ValuesInOrder, Transfer!Youngest, MakeValue, master
<1>1. /\ Transfer!Youngest(e) \in Nat /\ queue[e] \in Seq(Nat) /\ s2m \in Seq(Frames)
      /\ made[e] \in Nat
  BY YoungestType DEF LinkType
<1>2. /\ Transfer!Youngest(e) <= made[e]
      /\ InOrder(Transfer!Youngest(e), queue[e], s2m, made[e], e)
  BY DEF ValuesInOrder
<1>3. CASE e = c
  <2>1. made'[e] = made[e] + 1 /\ queue'[e] = Append(queue[e], made[e] + 1)
    BY <1>3 DEF MakeValue, LinkType
  <2> QED  BY <1>1, <1>2, <2>1, MadeInOrder
<1>4. CASE e # c
  BY <1>2, <1>4 DEF MakeValue, LinkType
<1> QED  BY <1>3, <1>4

LEMMA ServeKeepsValues ==
  ASSUME LinkType, ValuesInOrder, NEW c \in Class, NEW acd, queue[c] # <<>>, Serve(c, acd),
         UNCHANGED <<got, made>>
  PROVE  ValuesInOrder'
<1> SUFFICES ASSUME NEW e \in Class
             PROVE  InOrder(Transfer!Youngest(e), queue'[e], s2m', made[e], e)
  BY DEF ValuesInOrder, Transfer!Youngest
<1>1. /\ Transfer!Youngest(e) \in Nat /\ queue[e] \in Seq(Nat) /\ s2m \in Seq(Frames)
      /\ made[e] \in Nat
  BY YoungestType DEF LinkType
<1>2. InOrder(Transfer!Youngest(e), queue[e], s2m, made[e], e)
  BY DEF ValuesInOrder
<1>3. s2m' = Append(s2m, Data(c, Head(queue[c])))
  BY DEF Serve, Answers
<1>4. CASE e = c
  <2>1. queue'[e] = Tail(queue[e])
    BY <1>4 DEF Serve, LinkType
  <2> QED  BY <1>1, <1>2, <1>3, <1>4, <2>1, ServedInOrder
<1>5. CASE e # c
  <2>1. queue'[e] = queue[e]
    BY <1>5 DEF Serve, LinkType
  <2>2. Data(c, Head(queue[c])) \in Frames /\ ~Carries(Data(c, Head(queue[c])), e)
    <3>1. Head(queue[c]) \in Nat
      BY TailOfQueue DEF LinkType
    <3> QED  BY <1>5, <3>1, DataFrames DEF Data, Carries
  <2> QED  BY <1>1, <1>2, <1>3, <2>1, <2>2, OthersInOrder
<1> QED  BY <1>4, <1>5

\* Taking a frame off the line delivers the value it carries, or none.
LEMMA ReadKeepsValues ==
  ASSUME LinkType, ValuesInOrder, MasterReads
  PROVE  /\ ValuesInOrder'
         /\ (\E c \in Class : Transfer!Deliver(c)) \/ UNCHANGED <<made, got>>
<1> DEFINE f == Head(s2m)
<1>1. /\ s2m \in Seq(Frames) /\ s2m # <<>> /\ s2m' \in Rest(s2m) /\ UNCHANGED <<made, queue>>
      /\ got' = IF m_state = "EXREQRES" /\ f.func = "data"
                THEN [got EXCEPT ![f.class] = Append(@, f.n)] ELSE got
  BY DEF MasterReads, LinkType, slave
<1>2. f \in Frames /\ f.n \in Nat
  <2>1. Head(s2m) \in Frames
    BY <1>1, RestOfLine
  <2> QED  BY <2>1 DEF Frames
<1> HIDE DEF f
<1>3. CASE got' = got
  BY <1>1, <1>3, RestIsThinned, SameValues
<1>4. CASE f.func = "data" /\ f.class \in Class /\ got' = [got EXCEPT ![f.class] = Append(@, f.n)]
  <2> DEFINE c == f.class
  <2>1. \A e \in Class :
          /\ Transfer!Youngest(e) \in Nat /\ queue[e] \in Seq(Nat) /\ made[e] \in Nat
          /\ InOrder(Transfer!Youngest(e), queue[e], s2m, made[e], e)
          /\ Transfer!Youngest(e) <= made[e]
    BY YoungestType DEF LinkType, ValuesInOrder
  <2>2. \A e \in Class : Transfer!Youngest(e)' = IF e = c THEN f.n ELSE Transfer!Youngest(e)
    BY <1>2, <1>4, AppendedIsYoungest
  <2>3. Carries(Head(s2m), c)
    BY <1>4 DEF Carries, f
  <2>4. f.n \in (Transfer!Youngest(c) + 1)..made[c] /\ InOrder(f.n, queue[c], s2m', made[c], c)
    BY <1>1, <1>4, <2>1, <2>3, DeliveredInOrder DEF f
  <2>5. \A e \in Class : e # c => InOrder(Transfer!Youngest(e), queue[e], s2m', made[e], e)
    BY <1>1, <2>1, RestIsThinned, ThinnedInOrder
  <2>6. ValuesInOrder'
    <3> SUFFICES ASSUME NEW e \in Class
                 PROVE  /\ Transfer!Youngest(e)' <= made[e]
                        /\ InOrder(Transfer!Youngest(e)', queue[e], s2m', made[e], e)
      BY <1>1 DEF ValuesInOrder
    <3>1. CASE e = c
      BY <2>1, <2>2, <2>4, <3>1
    <3>2. CASE e # c
      BY <2>1, <2>2, <2>5, <3>2
    <3> QED  BY <3>1, <3>2
  <2>7. Transfer!Deliver(c)
    BY <1>1, <1>4, <2>4 DEF Transfer!Deliver
  <2> QED  BY <1>4, <2>6, <2>7
<1>5. CASE f.func = "data" /\ f.class \notin Class /\ got' = [got EXCEPT ![f.class] = Append(@, f.n)]
  BY <1>3, <1>5 DEF LinkType
<1> QED  BY <1>1, <1>3, <1>4, <1>5

LEMMA OtherStepsKeepValues ==
  ASSUME LinkType, ValuesInOrder,
         \/ UNCHANGED vars
         \/ Command \/ WaitForReq \/ ReqLink \/ SlaveLinkAvail \/ TxOneFrame \/ MasterReadsNothing
         \/ SlaveReads \/ SlaveGivesUp \/ ProcessIncomingData \/ Lose \/ Garble
  PROVE  ValuesInOrder' /\ UNCHANGED <<made, got>>
<1>1. UNCHANGED <<got, made, queue>>
  BY DEF vars, master, slave, Command, WaitForReq, ReqLink, SlaveLinkAvail, TxOneFrame,
         MasterReadsNothing, SlaveReads, SlaveGivesUp, ProcessIncomingData, Lose, Garble
<1>2. CASE SlaveReads
  <2>1. s2m' = s2m \/ s2m' = Append(s2m, Short("status")) \/ s2m' = Append(s2m, Short("ack"))
    BY <1>2 DEF SlaveReads, Handles, Answers, TakesCommand
  <2>2. Short("status") \in Frames /\ Short("status").func # "data"
        /\ Short("ack") \in Frames /\ Short("ack").func # "data"
    BY ShortFrames
  <2> QED  BY <1>1, <2>1, <2>2, SameValues
<1>3. CASE Lose \/ Garble
  <2>1. s2m' = s2m \/ Thinned(s2m', s2m)
    BY <1>3, TailIsThinned, GarbledIsThinned DEF Lose, Garble, LinkType
  <2> QED  BY <1>1, <2>1, SameValues
<1>4. CASE s2m' = s2m
  BY <1>1, <1>4, SameValues
<1> QED
  BY <1>1, <1>2, <1>3, <1>4 DEF vars, master, slave, Command, WaitForReq, ReqLink, SlaveLinkAvail,
     TxOneFrame, MasterReadsNothing, SlaveGivesUp, ProcessIncomingData

LEMMA PollKeepsValues ==
  ASSUME LinkType, ValuesInOrder, MasterLinkAvail
  PROVE  ValuesInOrder' /\ UNCHANGED <<made, got>>
<1>1. UNCHANGED <<made, got>>
  BY DEF MasterLinkAvail, master
<1>2. CASE \E c \in Class, acd \in BOOLEAN : queue[c] # <<>> /\ Serve(c, acd)
  BY <1>1, <1>2, ServeKeepsValues
<1>3. CASE UNCHANGED queue /\ s2m' = Append(s2m, Short("nodata"))
  BY <1>1, <1>3, ShortFrames, SameValues
<1> QED  BY <1>1, <1>2, <1>3 DEF MasterLinkAvail, Answers, Class

LEMMA NextValues ==
  ASSUME LinkType, ValuesInOrder, [Next]_vars
  PROVE  ValuesInOrder' /\ [Transfer!Next]_<<made, got>>
<1>1. CASE MasterReads
  BY <1>1, ReadKeepsValues DEF Transfer!Next
<1>2. CASE \E c \in Class : MakeValue(c)
  <2>1. PICK c \in Class : MakeValue(c)
    BY <1>2
  <2>2. Transfer!Make(c)
    BY <2>1 DEF MakeValue, Transfer!Make, master
  <2> QED  BY <2>1, <2>2, MakeKeepsValues DEF Transfer!Next
<1>3. CASE MasterLinkAvail
  BY <1>3, PollKeepsValues
<1> QED  BY <1>1, <1>2, <1>3, OtherStepsKeepValues DEF Next

LEMMA ValuesHold == Spec => []ValuesInOrder
<1>1. Init => ValuesInOrder
  BY InitValues
<1>2. LinkType /\ ValuesInOrder /\ [Next]_vars => ValuesInOrder'
  BY NextValues
<1> QED  BY <1>1, <1>2, LinkTypeHolds, PTL DEF Spec

\* A value reaches the control centre at most once and never after a younger one of its
\* class, whatever the line does and however often either side gives the link up
\* (link_unbalance_master.c:358-426, link_unbalance_slave.c:626-729).
THEOREM LinkImplementsTransfer == Spec => ImplementsTransfer
<1>1. Init => Transfer!Init
  BY DEF Init, Transfer!Init
<1>2. LinkType /\ ValuesInOrder /\ [Next]_vars => [Transfer!Next]_<<made, got>>
  BY NextValues
<1> QED  BY <1>1, <1>2, LinkTypeHolds, ValuesHold, PTL DEF Spec, ImplementsTransfer, Transfer!Spec

-----------------------------------------------------------------------------
(* Commands: what the slave has taken, what is on the line, what the master sends and what *)
(* it still has to send.                                                                   *)

Sending == m_state = "SENDCON"

IsUser(f) == f.func = "user"

\* lo is the last command taken, top the last one sent, q those to be sent, hi the last one.
Ordered(lo, line, top, q, hi) ==
  /\ lo <= top /\ top <= hi
  /\ \A i \in 1..Len(line) : IsUser(line[i]) => lo <= line[i].n /\ line[i].n <= top
  /\ \A i, j \in 1..Len(line) :
       i < j /\ IsUser(line[i]) /\ IsUser(line[j]) => line[i].n <= line[j].n
  /\ \A i, j \in 1..Len(q) : i < j => q[i] < q[j]
  /\ \A i \in 1..Len(q) : top < q[i] /\ q[i] <= hi

CommandsOrdered ==
  /\ executed.n <= taken
  /\ s_state = "PROCESS_INCOMING_DATA" => rxbuffer = taken
  /\ \E top \in Nat : /\ Ordered(taken, m2s, top, write_q, commands)
                      /\ Sending => txbuffer.n = top

LEMMA ThinnedOrdered ==
  ASSUME NEW lo \in Nat, NEW line \in Seq(Frames), NEW top \in Nat, NEW q \in Seq(Nat),
         NEW hi \in Nat, Ordered(lo, line, top, q, hi), NEW new, Thinned(new, line)
  PROVE  Ordered(lo, new, top, q, hi)
<1>1. PICK d \in 0..Len(line) :
        /\ Len(new) = Len(line) - d
        /\ \A i \in 1..Len(new) : i + d \in 1..Len(line) /\ new[i] \in {line[i + d], Short("bad")}
  BY DEF Thinned
<1>2. d \in Nat /\ Len(new) \in Nat
  BY DEF Thinned
<1>3. ~IsUser(Short("bad"))
  BY ShortFrames DEF IsUser
<1>4. \A i \in 1..Len(new) : IsUser(new[i]) => i + d \in 1..Len(line) /\ new[i] = line[i + d]
  BY <1>1, <1>3
<1>5. \A i, j \in 1..Len(new) : i < j => i + d < j + d
  BY <1>2
<1> QED  BY <1>4, <1>5 DEF Ordered

LEMMA SentOrdered ==
  ASSUME NEW lo \in Nat, NEW line \in Seq(Frames), NEW top \in Nat, NEW q \in Seq(Nat),
         NEW hi \in Nat, Ordered(lo, line, top, q, hi), NEW f \in Frames, IsUser(f) => f.n = top
  PROVE  Ordered(lo, Append(line, f), top, q, hi)
<1> DEFINE new == Append(line, f)
<1>1. /\ Len(line) \in Nat /\ \A i \in 1..Len(line) : new[i] = line[i]
      /\ new[Len(line) + 1] = f /\ \A i \in 1..Len(new) : i \in 1..Len(line) \/ i = Len(line) + 1
  BY AppendedLine
<1> HIDE DEF new
<1>2. ASSUME NEW i \in 1..Len(new), IsUser(new[i])
      PROVE  lo <= new[i].n /\ new[i].n <= top
  <2>1. CASE i \in 1..Len(line)
    BY <1>1, <1>2, <2>1 DEF Ordered
  <2>2. CASE i = Len(line) + 1
    BY <1>1, <1>2, <2>2 DEF Ordered
  <2> QED  BY <1>1, <2>1, <2>2
<1>3. ASSUME NEW i \in 1..Len(new), NEW j \in 1..Len(new), i < j, IsUser(new[i]), IsUser(new[j])
      PROVE  new[i].n <= new[j].n
  <2>1. i \in 1..Len(line) /\ new[i] = line[i]
    <3>1. (i \in 1..Len(line) \/ i = Len(line) + 1) /\ (j \in 1..Len(line) \/ j = Len(line) + 1)
      BY <1>1
    <3>2. i \in 1..Len(line)
      BY <1>3, <3>1
    <3> QED  BY <1>1, <3>2
  <2>2. CASE j \in 1..Len(line)
    BY <1>1, <1>3, <2>1, <2>2 DEF Ordered
  <2>3. CASE j = Len(line) + 1
    BY <1>1, <1>2, <1>3, <2>1, <2>3
  <2> QED  BY <1>1, <2>2, <2>3
<1>4. Ordered(lo, new, top, q, hi)
  BY <1>2, <1>3 DEF Ordered
<1> QED  BY <1>4 DEF new

LEMMA TakenOrdered ==
  ASSUME NEW lo \in Nat, NEW line \in Seq(Frames), NEW top \in Nat, NEW q \in Seq(Nat),
         NEW hi \in Nat, Ordered(lo, line, top, q, hi), line # <<>>, IsUser(Head(line)),
         NEW rest \in Rest(line)
  PROVE  lo <= Head(line).n /\ Ordered(Head(line).n, rest, top, q, hi)
<1>1. Head(line) = line[1] /\ line[1].n \in Nat /\ Len(line) \in Nat \ {0} /\ rest \in Seq(Frames)
  <2>1. Head(line) = line[1] /\ Len(line) \in Nat \ {0} /\ rest \in Seq(Frames)
    BY RestOfLine
  <2> QED  BY <2>1, FramesOfLine
<1>2. PICK d \in 1..Len(line) :
        /\ Len(rest) = Len(line) - d
        /\ \A i \in 1..Len(rest) : i + d \in 1..Len(line) /\ rest[i] = line[i + d]
  BY RestOfLine
<1>3. 1 \in 1..Len(line) /\ IsUser(line[1]) /\ lo <= line[1].n /\ line[1].n <= top
  BY <1>1 DEF Ordered
<1>4. ASSUME NEW i \in 1..Len(rest), IsUser(rest[i])
      PROVE  line[1].n <= rest[i].n /\ rest[i].n <= top
  <2>1. i + d \in 1..Len(line) /\ 1 < i + d /\ rest[i] = line[i + d]
    BY <1>1, <1>2
  <2> QED  BY <1>3, <1>4, <2>1 DEF Ordered
<1>5. ASSUME NEW i \in 1..Len(rest), NEW j \in 1..Len(rest), i < j,
             IsUser(rest[i]), IsUser(rest[j])
      PROVE  rest[i].n <= rest[j].n
  <2>1. i + d \in 1..Len(line) /\ j + d \in 1..Len(line) /\ i + d < j + d
        /\ rest[i] = line[i + d] /\ rest[j] = line[j + d]
    BY <1>1, <1>2, <1>5
  <2> QED  BY <1>5, <2>1 DEF Ordered
<1>6. Ordered(line[1].n, rest, top, q, hi)
  BY <1>3, <1>4, <1>5 DEF Ordered
<1> QED  BY <1>1, <1>3, <1>6

LEMMA NextCommandOrdered ==
  ASSUME NEW lo \in Nat, NEW line \in Seq(Frames), NEW top \in Nat, NEW q \in Seq(Nat),
         NEW hi \in Nat, Ordered(lo, line, top, q, hi), q # <<>>
  PROVE  Head(q) \in Nat /\ top < Head(q) /\ Ordered(lo, line, Head(q), Tail(q), hi)
<1> DEFINE p == Tail(q)
<1>1. /\ p \in Seq(Nat) /\ Head(q) = q[1] /\ q[1] \in Nat /\ Len(p) = Len(q) - 1
      /\ Len(q) \in Nat \ {0} /\ 1 \in 1..Len(q)
      /\ \A i \in 1..Len(p) : i + 1 \in 1..Len(q) /\ p[i] = q[i + 1]
  BY TailOfQueue
<1> HIDE DEF p
<1>2. top < q[1] /\ q[1] <= hi
  BY <1>1 DEF Ordered
<1>3. ASSUME NEW i \in 1..Len(p)
      PROVE  q[1] < p[i] /\ p[i] <= hi
  <2>1. i + 1 \in 1..Len(q) /\ 1 < i + 1 /\ p[i] = q[i + 1]
    BY <1>1
  <2> QED  BY <1>1, <2>1 DEF Ordered
<1>4. ASSUME NEW i \in 1..Len(p), NEW j \in 1..Len(p), i < j
      PROVE  p[i] < p[j]
  <2>1. i + 1 \in 1..Len(q) /\ j + 1 \in 1..Len(q) /\ i + 1 < j + 1
    BY <1>1, <1>4
  <2> QED  BY <1>1, <2>1 DEF Ordered
<1>5. ASSUME NEW i \in 1..Len(line), IsUser(line[i])
      PROVE  lo <= line[i].n /\ line[i].n <= q[1]
  <2>1. line[i].n \in Nat
    BY FramesOfLine
  <2>2. lo <= line[i].n /\ line[i].n <= top
    BY <1>5 DEF Ordered
  <2> QED  BY <1>1, <1>2, <2>1, <2>2
<1>6. Ordered(lo, line, q[1], p, hi)
  BY <1>1, <1>2, <1>3, <1>4, <1>5 DEF Ordered
<1> QED  BY <1>1, <1>2, <1>6 DEF p

LEMMA CommandOrdered ==
  ASSUME NEW lo \in Nat, NEW line \in Seq(Frames), NEW top \in Nat, NEW q \in Seq(Nat),
         NEW hi \in Nat, Ordered(lo, line, top, q, hi)
  PROVE  Ordered(lo, line, top, Append(q, hi + 1), hi + 1)
<1> DEFINE p == Append(q, hi + 1)
<1>1. /\ Len(q) \in Nat /\ \A i \in 1..Len(q) : p[i] = q[i]
      /\ p[Len(q) + 1] = hi + 1 /\ \A i \in 1..Len(p) : i \in 1..Len(q) \/ i = Len(q) + 1
  BY NumberAppended
<1> HIDE DEF p
<1>2. \A i \in 1..Len(q) : q[i] \in Nat /\ top < q[i] /\ q[i] <= hi
  <2>1. \A i \in 1..Len(q) : q[i] \in Nat
    BY NumbersOfQueue
  <2> QED  BY <2>1 DEF Ordered
<1>3. lo <= top /\ top <= hi
  BY DEF Ordered
<1>4. ASSUME NEW i \in 1..Len(p)
      PROVE  top < p[i] /\ p[i] <= hi + 1
  <2>1. CASE i \in 1..Len(q)
    <3>1. p[i] = q[i] /\ q[i] \in Nat /\ top < q[i] /\ q[i] <= hi
      BY <1>1, <1>2, <2>1
    <3>2. p[i] \in Nat /\ top < p[i] /\ p[i] <= hi
      BY <3>1
    <3> QED  BY <3>2
  <2>2. CASE i = Len(q) + 1
    <3>1. p[i] = hi + 1
      BY <1>1, <2>2
    <3>2. top < hi + 1
      BY <1>3
    <3> QED  BY <3>1, <3>2
  <2> QED  BY <1>1, <2>1, <2>2
<1>5. ASSUME NEW i \in 1..Len(p), NEW j \in 1..Len(p), i < j
      PROVE  p[i] < p[j]
  <2>1. i \in 1..Len(q) /\ p[i] = q[i]
    BY <1>1, <1>5
  <2>2. CASE j \in 1..Len(q)
    BY <1>1, <1>5, <2>1, <2>2 DEF Ordered
  <2>3. CASE j = Len(q) + 1
    BY <1>1, <1>2, <2>1, <2>3
  <2> QED  BY <1>1, <2>2, <2>3
<1>6. Ordered(lo, line, top, p, hi + 1)
  BY <1>3, <1>4, <1>5 DEF Ordered
<1> QED  BY <1>6 DEF p

LEMMA InitCommands == Init => CommandsOrdered
<1> SUFFICES ASSUME Init PROVE CommandsOrdered
  OBVIOUS
<1>1. Ordered(taken, m2s, 0, write_q, commands)
  BY DEF Init, Ordered
<1> QED  BY <1>1 DEF Init, CommandsOrdered, Sending

\* The steps that leave the commands of both sides alone, and lose nothing but frames.
LEMMA SameCommands ==
  ASSUME LinkType, CommandsOrdered, UNCHANGED <<taken, write_q, commands, executed>>,
         s_state' = "PROCESS_INCOMING_DATA" => UNCHANGED <<s_state, rxbuffer>>,
         Sending' => Sending /\ UNCHANGED txbuffer,
         m2s' = m2s \/ Thinned(m2s', m2s)
  PROVE  CommandsOrdered'
<1>1. PICK top \in Nat : Ordered(taken, m2s, top, write_q, commands) /\ (Sending => txbuffer.n = top)
  BY DEF CommandsOrdered
<1>2. Ordered(taken, m2s', top, write_q, commands)
  BY <1>1, ThinnedOrdered DEF LinkType
<1>3. Sending' => txbuffer'.n = top
  BY <1>1
<1> QED  BY <1>2, <1>3 DEF CommandsOrdered

LEMMA MasterKeepsCommands ==
  ASSUME LinkType, CommandsOrdered, Command \/ SlaveLinkAvail \/ TxOneFrame
  PROVE  CommandsOrdered'
<1>1. PICK top \in Nat : Ordered(taken, m2s, top, write_q, commands) /\ (Sending => txbuffer.n = top)
  BY DEF CommandsOrdered
<1>2. /\ taken \in Nat /\ m2s \in Seq(Frames) /\ write_q \in Seq(Nat) /\ commands \in Nat
      /\ txbuffer \in Frames
  BY DEF LinkType
<1>3. CASE Command
  <2>1. /\ write_q' = Append(write_q, commands + 1) /\ commands' = commands + 1
        /\ UNCHANGED <<m_state, txbuffer, m2s, slave>>
    BY <1>3 DEF Command
  <2>2. Ordered(taken, m2s, top, write_q', commands')
    BY <1>1, <1>2, <2>1, CommandOrdered
  <2> QED  BY <1>1, <2>1, <2>2 DEF CommandsOrdered, slave, Sending
<1>4. CASE SlaveLinkAvail
  <2>1. UNCHANGED <<commands, slave, m2s>>
    BY <1>4 DEF SlaveLinkAvail
  <2>2. CASE write_q # <<>>
    <3>1. write_q' = Tail(write_q) /\ txbuffer'.n = Head(write_q)
      BY <1>4, <2>2 DEF SlaveLinkAvail, Frame
    <3>2. Head(write_q) \in Nat /\ Ordered(taken, m2s, Head(write_q), write_q', commands)
      BY <1>1, <1>2, <2>2, <3>1, NextCommandOrdered
    <3> QED  BY <2>1, <3>1, <3>2 DEF CommandsOrdered, slave
  <2>3. CASE write_q = <<>>
    BY <1>1, <1>4, <2>1, <2>3 DEF SlaveLinkAvail, CommandsOrdered, slave, Sending
  <2> QED  BY <2>2, <2>3
<1>5. CASE TxOneFrame
  <2>1. m2s' = Append(m2s, txbuffer) /\ UNCHANGED <<m_state, txbuffer, write_q, commands, slave>>
    BY <1>5 DEF TxOneFrame
  <2>2. IsUser(txbuffer) => Sending
    BY <1>5, SendsStates DEF TxOneFrame, LinkType, IsUser, Sending
  <2>3. Ordered(taken, m2s', top, write_q, commands)
    BY <1>1, <1>2, <2>1, <2>2, SentOrdered
  <2> QED  BY <1>1, <2>1, <2>3 DEF CommandsOrdered, slave, Sending
<1> QED  BY <1>3, <1>4, <1>5

LEMMA SlaveKeepsCommands ==
  ASSUME LinkType, CommandsOrdered, SlaveReads \/ ProcessIncomingData
  PROVE  CommandsOrdered' /\ executed.n <= executed'.n
<1>1. PICK top \in Nat : Ordered(taken, m2s, top, write_q, commands) /\ (Sending => txbuffer.n = top)
  BY DEF CommandsOrdered
<1>2. /\ taken \in Nat /\ m2s \in Seq(Frames) /\ write_q \in Seq(Nat) /\ commands \in Nat
      /\ executed.n \in Nat /\ executed.n <= taken
  BY DEF LinkType, CommandsOrdered
<1>3. CASE SlaveReads
  <2>1. UNCHANGED <<write_q, commands, executed, m_state, txbuffer>> /\ m2s' \in Rest(m2s)
        /\ m2s # <<>>
    BY <1>3 DEF SlaveReads, master
  <2>2. CASE Head(m2s).func = "user" /\ TakesCommand(Head(m2s))
    <3>1. s_state' = "PROCESS_INCOMING_DATA" /\ rxbuffer' = Head(m2s).n /\ taken' = Head(m2s).n
      BY <2>2 DEF TakesCommand, Answers
    <3>2. taken <= taken' /\ Ordered(taken', m2s', top, write_q, commands)
      BY <1>1, <1>2, <2>1, <2>2, <3>1, TakenOrdered DEF IsUser
    <3>3. taken' \in Nat
      <4>1. Head(m2s) \in Frames
        BY <1>2, <2>1, RestOfLine
      <4> QED  BY <3>1, <4>1 DEF Frames
    <3>4. executed'.n <= taken'
      BY <1>2, <2>1, <3>2, <3>3
    <3> QED  BY <1>1, <1>2, <2>1, <3>1, <3>2, <3>4 DEF CommandsOrdered, Sending
  <2>3. CASE UNCHANGED <<rxbuffer, taken>> /\ s_state' # "PROCESS_INCOMING_DATA"
    <3>1. Thinned(m2s', m2s)
      BY <1>2, <2>1, RestIsThinned
    <3> QED  BY <1>2, <2>1, <2>3, <3>1, SameCommands DEF Sending
  <2> QED
    BY <1>3, <2>2, <2>3 DEF SlaveReads, Handles, Answers, Reading
<1>4. CASE ProcessIncomingData
  <2>1. /\ UNCHANGED <<taken, m2s, master>> /\ s_state' = "EXREQRES" /\ executed'.n = taken
    BY <1>4 DEF ProcessIncomingData, CommandsOrdered, LinkType
  <2> QED  BY <1>1, <1>2, <2>1 DEF CommandsOrdered, master, Sending
<1> QED  BY <1>3, <1>4

LEMMA OthersKeepCommands ==
  ASSUME LinkType, CommandsOrdered,
         \/ UNCHANGED vars
         \/ WaitForReq \/ ReqLink \/ MasterReads \/ MasterReadsNothing
         \/ (\E c \in Class : MakeValue(c)) \/ SlaveGivesUp \/ MasterLinkAvail \/ Lose \/ Garble
  PROVE  CommandsOrdered' /\ UNCHANGED executed
<1>1. UNCHANGED <<taken, write_q, commands, executed, rxbuffer>>
  BY DEF vars, master, slave, WaitForReq, ReqLink, MasterReads, MasterReadsNothing, MakeValue,
         SlaveGivesUp, MasterLinkAvail, Lose, Garble
<1>2. s_state' = "PROCESS_INCOMING_DATA" => UNCHANGED s_state
  BY DEF vars, master, slave, WaitForReq, ReqLink, MasterReads, MasterReadsNothing, MakeValue,
         SlaveGivesUp, MasterLinkAvail, Serve, Answers, Lose, Garble
<1>3. Sending' => Sending /\ UNCHANGED txbuffer
  <2>1. CASE MasterReads
    BY <2>1, AfterStates DEF MasterReads, Moves, Sending
  <2>2. CASE MasterReadsNothing
    BY <2>2, AfterStates DEF MasterReadsNothing, Moves, Sending
  <2> QED  BY <2>1, <2>2 DEF vars, master, slave, WaitForReq, ReqLink, MakeValue,
              SlaveGivesUp, MasterLinkAvail, Lose, Garble, Sending
<1>4. m2s' = m2s \/ Thinned(m2s', m2s)
  BY TailIsThinned, GarbledIsThinned DEF vars, master, slave, WaitForReq, ReqLink, MasterReads,
     MasterReadsNothing, MakeValue, SlaveGivesUp, MasterLinkAvail, Lose, Garble, LinkType
<1> QED  BY <1>1, <1>2, <1>3, <1>4, SameCommands

LEMMA NextCommands ==
  ASSUME LinkType, CommandsOrdered, [Next]_vars
  PROVE  CommandsOrdered' /\ executed.n <= executed'.n
<1>1. executed.n \in Nat
  BY DEF LinkType
<1>2. CASE Command \/ SlaveLinkAvail \/ TxOneFrame
  <2>1. UNCHANGED slave
    BY <1>2 DEF Command, SlaveLinkAvail, TxOneFrame
  <2>2. executed.n <= executed'.n
    BY <1>1, <2>1 DEF slave
  <2> QED  BY <1>2, <2>2, MasterKeepsCommands
<1>3. CASE SlaveReads \/ ProcessIncomingData
  BY <1>3, SlaveKeepsCommands
<1> QED  BY <1>1, <1>2, <1>3, OthersKeepCommands DEF Next

LEMMA CommandsOrderHolds == Spec => []CommandsOrdered
<1>1. LinkType /\ CommandsOrdered /\ [Next]_vars => CommandsOrdered'
  BY NextCommands
<1> QED  BY <1>1, InitCommands, LinkTypeHolds, PTL DEF Spec

\* Commands are passed on to the field in the order in which they were given, whatever is
\* lost, garbled, repeated or late (link_unbalance_master.c:304-357,
\* link_unbalance_slave.c:730-758).
THEOREM CommandsKeepOrder == Spec => CommandsInOrder
<1>1. LinkType /\ CommandsOrdered /\ [Next]_vars => [executed'.n >= executed.n]_vars
  <2> SUFFICES ASSUME LinkType, CommandsOrdered, [Next]_vars PROVE executed'.n >= executed.n
    OBVIOUS
  <2>1. executed.n <= executed'.n /\ executed.n \in Nat /\ executed'.n \in Nat
    BY NextCommands, NextLinkType DEF LinkType
  <2> QED  BY <2>1
<1> QED  BY <1>1, LinkTypeHolds, CommandsOrderHolds, PTL DEF Spec, CommandsInOrder

-----------------------------------------------------------------------------
(* Counting the frames of a kind on a line. *)

Places(line, kind) == {i \in 1..Len(line) : line[i] \in kind}
Count(line, kind) == Cardinality(Places(line, kind))

LEMMA CountType ==
  ASSUME NEW line \in Seq(Frames), NEW kind
  PROVE  /\ IsFiniteSet(Places(line, kind)) /\ Count(line, kind) \in Nat
         /\ Count(line, kind) <= Len(line)
<1>1. Len(line) \in Nat
  OBVIOUS
<1>2. IsFiniteSet(1..Len(line)) /\ Cardinality(1..Len(line)) = Len(line)
  <2>1. 1 \in Int /\ Len(line) \in Int
    BY <1>1
  <2>2. /\ IsFiniteSet(1..Len(line))
        /\ Cardinality(1..Len(line)) = IF 1 > Len(line) THEN 0 ELSE Len(line) - 1 + 1
    BY <2>1, FS_Interval, Zenon
  <2> QED  BY <1>1, <2>2
<1>3. Places(line, kind) \in SUBSET (1..Len(line))
  BY DEF Places
<1>4. IsFiniteSet(Places(line, kind)) /\ Cardinality(Places(line, kind)) <= Len(line)
  BY <1>2, <1>3, FS_Subset
<1> QED  BY <1>4, FS_CardinalityType DEF Count

LEMMA CountNone ==
  ASSUME NEW line \in Seq(Frames), NEW kind, \A i \in 1..Len(line) : line[i] \notin kind
  PROVE  Count(line, kind) = 0
<1>1. Places(line, kind) = {}
  BY DEF Places
<1> QED  BY <1>1, FS_EmptySet DEF Count

LEMMA CountAppend ==
  ASSUME NEW line \in Seq(Frames), NEW kind, NEW f \in Frames
  PROVE  Count(Append(line, f), kind) = Count(line, kind) + IF f \in kind THEN 1 ELSE 0
<1> DEFINE new == Append(line, f)
           n == Len(line) + 1
<1>1. /\ Len(new) = n /\ Len(line) \in Nat /\ \A i \in 1..Len(line) : new[i] = line[i]
      /\ new[n] = f /\ \A i \in 1..Len(new) : i \in 1..Len(line) \/ i = n
  BY AppendedLine
<1>2. IsFiniteSet(Places(line, kind)) /\ Count(line, kind) \in Nat
  BY CountType
<1>3. n \notin Places(line, kind) /\ n \in 1..n /\ \A i \in 1..Len(line) : i \in 1..n
  BY <1>1 DEF Places
<1> HIDE DEF new, n
<1>4. CASE f \in kind
  <2>1. Places(new, kind) = Places(line, kind) \cup {n}
    BY <1>1, <1>3, <1>4 DEF Places
  <2>2. Cardinality(Places(line, kind) \cup {n}) = Cardinality(Places(line, kind)) + 1
    BY <1>2, <1>3, FS_AddElement
  <2> QED  BY <1>4, <2>1, <2>2 DEF Count, new
<1>5. CASE f \notin kind
  <2>1. Places(new, kind) = Places(line, kind)
    BY <1>1, <1>3, <1>5 DEF Places
  <2> QED  BY <1>2, <1>5, <2>1 DEF Count, new
<1> QED  BY <1>4, <1>5

\* Places that move by d places are no more than those they move to.
LEMMA Shifted ==
  ASSUME NEW S \in SUBSET Nat, NEW T, IsFiniteSet(T), NEW d \in Nat, \A i \in S : i + d \in T
  PROVE  Cardinality(S) <= Cardinality(T)
<1> DEFINE move == [i \in S |-> i + d]
<1>1. move \in [S -> T]
  OBVIOUS
<1>2. ASSUME NEW a \in S, NEW b \in S, move[a] = move[b]
      PROVE  a = b
  <2>1. a \in Nat /\ b \in Nat /\ move[a] = a + d /\ move[b] = b + d
    OBVIOUS
  <2> QED  BY <1>2, <2>1
<1> HIDE DEF move
<1>3. move \in Injection(S, T)
  BY <1>1, <1>2 DEF Injection, IsInjective
<1> QED  BY <1>3, FS_Injection

LEMMA CountThinned ==
  ASSUME NEW line \in Seq(Frames), NEW kind, Short("bad") \notin kind, NEW new, Thinned(new, line)
  PROVE  Count(new, kind) <= Count(line, kind)
<1>1. PICK d \in 0..Len(line) :
        \A i \in 1..Len(new) : i + d \in 1..Len(line) /\ new[i] \in {line[i + d], Short("bad")}
  BY DEF Thinned
<1>2. d \in Nat /\ Len(new) \in Nat
  BY DEF Thinned
<1>3. \A i \in Places(new, kind) : i + d \in Places(line, kind)
  BY <1>1 DEF Places
<1>4. Places(new, kind) \in SUBSET Nat
  BY <1>2 DEF Places
<1>5. IsFiniteSet(Places(line, kind))
  BY CountType
<1> QED  BY <1>2, <1>3, <1>4, <1>5, Shifted DEF Count

\* A read takes the first frame at least.
LEMMA CountRead ==
  ASSUME NEW line \in Seq(Frames), NEW kind, line # <<>>, NEW rest \in Rest(line)
  PROVE  Count(rest, kind) + (IF Head(line) \in kind THEN 1 ELSE 0) <= Count(line, kind)
<1>1. Head(line) = line[1] /\ Len(line) \in Nat \ {0} /\ rest \in Seq(Frames)
  BY RestOfLine
<1>2. PICK d \in 1..Len(line) :
        /\ Len(rest) = Len(line) - d
        /\ \A i \in 1..Len(rest) : i + d \in 1..Len(line) /\ rest[i] = line[i + d]
  BY RestOfLine
<1>3. d \in Nat /\ d >= 1 /\ Len(rest) \in Nat
  BY <1>1, <1>2
<1>4. \A i \in Places(rest, kind) : i + d \in Places(line, kind) /\ i + d # 1
  BY <1>2, <1>3 DEF Places
<1>5. Places(rest, kind) \in SUBSET Nat
  BY <1>3 DEF Places
<1>6. IsFiniteSet(Places(line, kind)) /\ Count(line, kind) \in Nat /\ Count(rest, kind) \in Nat
  BY <1>1, CountType
<1>7. CASE line[1] \in kind
  <2>1. 1 \in Places(line, kind)
    BY <1>1, <1>7 DEF Places
  <2>2. IsFiniteSet(Places(line, kind) \ {1})
        /\ Cardinality(Places(line, kind) \ {1}) = Cardinality(Places(line, kind)) - 1
    BY <1>6, <2>1, FS_RemoveElement
  <2>3. \A i \in Places(rest, kind) : i + d \in Places(line, kind) \ {1}
    BY <1>4
  <2>4. Cardinality(Places(rest, kind)) <= Cardinality(Places(line, kind) \ {1})
    BY <1>3, <1>5, <2>2, <2>3, Shifted
  <2> QED  BY <1>1, <1>6, <1>7, <2>2, <2>4 DEF Count
<1>8. CASE line[1] \notin kind
  <2>1. Cardinality(Places(rest, kind)) <= Cardinality(Places(line, kind))
    BY <1>3, <1>4, <1>5, <1>6, Shifted
  <2> QED  BY <1>1, <1>6, <1>8, <2>1 DEF Count
<1> QED  BY <1>7, <1>8

-----------------------------------------------------------------------------
(* Frames and answers that are under way. *)

Late == Lates - budget.late

\* The master waits for an answer; the slave is about to answer a request for data.
Awaited == IF waiting THEN 1 ELSE 0
Polled == IF s_state = "MASTERLINKAVAIL" THEN 1 ELSE 0

\* Every frame sent and every answer due.
Out == Len(m2s) + Len(s2m) + Polled

\* No more are under way than answers have been late, and one while the master waits.
LockStep == Out <= Late + Awaited

LEMMA OutType == LinkType => Out \in Nat /\ Late \in Nat /\ Awaited \in Nat
<1> SUFFICES ASSUME LinkType PROVE Out \in Nat /\ Late \in Nat /\ Awaited \in Nat
  OBVIOUS
<1>1. Len(m2s) \in Nat /\ Len(s2m) \in Nat
  BY FramesOfLine DEF LinkType
<1> QED  BY <1>1, Bounds DEF LinkType, Out, Late, Awaited, Polled

LEMMA LateGrows ==
  ASSUME LinkType, [Next]_vars
  PROVE  /\ Late' \in Nat /\ Late <= Late'
         /\ ~MasterReadsNothing \/ ~Coming => UNCHANGED Late
<1>1. budget \in [fault : Nat, late : 0..Lates] /\ Lates \in Nat
  BY Bounds DEF LinkType
<1>2. CASE Spend("late") /\ MasterReadsNothing /\ Coming
  BY <1>1, <1>2 DEF Spend, Late
<1>3. CASE budget'.late = budget.late
  BY <1>1, <1>3 DEF Late
<1>4. Spend("fault") => budget'.late = budget.late
  BY <1>1 DEF Spend
<1> QED
  BY <1>2, <1>3, <1>4 DEF Next, vars, Command, WaitForReq, ReqLink, SlaveLinkAvail, TxOneFrame,
     MasterReads, MasterReadsNothing, MakeValue, SlaveReads, SlaveGivesUp, MasterLinkAvail,
     ProcessIncomingData, Lose, Garble

LEMMA InitLockStep == Init => LockStep
<1> SUFFICES ASSUME Init PROVE LockStep
  OBVIOUS
<1>1. Len(m2s) = 0 /\ Len(s2m) = 0 /\ Late = 0
  BY Bounds DEF Init, Late
<1> QED  BY <1>1 DEF Init, LockStep, Out, Awaited, Polled

\* What is read leaves the line.
LEMMA ReadIsShorter ==
  ASSUME NEW line \in Seq(Frames), line # <<>>, NEW rest \in Rest(line)
  PROVE  Len(rest) \in Nat /\ Len(line) \in Nat /\ Len(rest) < Len(line)
<1>1. PICK d \in 1..Len(line) : Len(rest) = Len(line) - d
  BY RestOfLine
<1>2. rest \in Seq(Frames)
  BY RestOfLine
<1>3. Len(rest) \in Nat /\ Len(line) \in Nat
  BY <1>2
<1> QED  BY <1>1, <1>3

LEMMA LinesShorter ==
  ASSUME LinkType, Lose \/ Garble
  PROVE  Out' <= Out /\ UNCHANGED <<master, slave>>
<1>1. Len(m2s) \in Nat /\ Len(s2m) \in Nat /\ m2s \in Seq(Frames) /\ s2m \in Seq(Frames)
  BY FramesOfLine DEF LinkType
<1>2. Len(m2s') \in Nat /\ Len(m2s') <= Len(m2s) /\ Len(s2m') \in Nat /\ Len(s2m') <= Len(s2m)
  <2>1. m2s' = m2s \/ Len(m2s') = Len(m2s) \/ (m2s # <<>> /\ m2s' = Tail(m2s))
    BY <1>1, GarbledIsThinned DEF Lose, Garble
  <2>2. s2m' = s2m \/ Len(s2m') = Len(s2m) \/ (s2m # <<>> /\ s2m' = Tail(s2m))
    BY <1>1, GarbledIsThinned DEF Lose, Garble
  <2> QED  BY <1>1, <2>1, <2>2
<1>3. UNCHANGED <<master, slave>>
  BY DEF Lose, Garble
<1> QED  BY <1>1, <1>2, <1>3 DEF Out, Awaited, Polled, slave

LEMMA SlaveKeepsOut ==
  ASSUME LinkType, SlaveReads \/ MasterLinkAvail \/ SlaveGivesUp \/ ProcessIncomingData
  PROVE  Out' <= Out /\ UNCHANGED master
<1>1. Len(m2s) \in Nat /\ Len(s2m) \in Nat /\ m2s \in Seq(Frames) /\ s2m \in Seq(Frames)
  BY FramesOfLine DEF LinkType
<1>2. \A f : Len(Append(s2m, f)) = Len(s2m) + 1
  BY <1>1
<1>3. CASE SlaveReads
  <2>1. Len(m2s') \in Nat /\ Len(m2s') < Len(m2s)
    BY <1>1, <1>3, ReadIsShorter DEF SlaveReads
  <2>2. Len(s2m') + Polled' <= Len(s2m) + 1 /\ Len(s2m') \in Nat
    BY <1>1, <1>2, <1>3 DEF SlaveReads, Handles, Answers, TakesCommand, Awaited, Polled, Reading
  <2> QED  BY <1>1, <1>3, <2>1, <2>2 DEF SlaveReads, Out, Awaited, Polled
<1>4. CASE MasterLinkAvail
  <2>1. /\ Len(s2m') = Len(s2m) + 1 /\ s_state = "MASTERLINKAVAIL" /\ s_state' = "EXREQRES"
        /\ UNCHANGED <<m2s, master>>
    BY <1>2, <1>4 DEF MasterLinkAvail, Serve, Answers
  <2> QED  BY <1>1, <2>1 DEF Out, Awaited, Polled
<1>5. CASE SlaveGivesUp \/ ProcessIncomingData
  BY <1>1, <1>5 DEF SlaveGivesUp, ProcessIncomingData, Out, Awaited, Polled
<1> QED  BY <1>3, <1>4, <1>5

LEMMA NextLockStep ==
  ASSUME LinkType, LockStep, [Next]_vars
  PROVE  LockStep'
<1>1. /\ Out \in Nat /\ Late \in Nat /\ Late' \in Nat /\ Late <= Late' /\ Out' \in Nat
      /\ Out <= Late + Awaited /\ Awaited \in {0, 1} /\ Awaited' \in {0, 1}
  <2>1. Out \in Nat /\ Late \in Nat /\ Out <= Late + Awaited
    BY OutType DEF LockStep
  <2>2. Late' \in Nat /\ Late <= Late'
    BY LateGrows
  <2>3. Out' \in Nat
    <3>1. m2s' \in Seq(Frames) /\ s2m' \in Seq(Frames)
      BY NextLinkType DEF LinkType
    <3>2. Len(m2s') \in Nat /\ Len(s2m') \in Nat
      BY <3>1
    <3> QED  BY <3>2 DEF Out, Awaited, Polled
  <2> QED  BY <2>1, <2>2, <2>3 DEF Awaited, Polled
<1>2. Len(m2s) \in Nat /\ Len(s2m) \in Nat /\ m2s \in Seq(Frames) /\ s2m \in Seq(Frames)
  BY FramesOfLine DEF LinkType
<1>3. ASSUME Out' <= Out + (Awaited' - Awaited) \/ Out' <= Late'
      PROVE  LockStep'
  <2>1. PICK o \in Nat, l \in Nat, a \in {0, 1}, oo \in Nat, ll \in Nat, aa \in {0, 1} :
               o = Out /\ l = Late /\ a = Awaited /\ oo = Out' /\ ll = Late' /\ aa = Awaited'
    BY <1>1
  <2>2. o <= l + a /\ l <= ll /\ (oo <= o + (aa - a) \/ oo <= ll)
    BY <1>1, <1>3, <2>1, Zenon
  <2>3. oo <= ll + aa
    BY <2>2
  <2> QED  BY <2>1, <2>3, Zenon DEF LockStep
<1>4. CASE TxOneFrame
  <2>1. Len(m2s') = Len(m2s) + 1 /\ UNCHANGED <<s2m, slave>> /\ ~waiting /\ waiting' = TRUE
    BY <1>2, <1>4 DEF TxOneFrame
  <2>2. Out' = Out + 1
    BY <1>2, <2>1 DEF Out, Awaited, Polled, slave
  <2>3. Awaited = 0 /\ Awaited' = 1
    BY <2>1 DEF Awaited, Polled
  <2> QED  BY <1>1, <1>3, <2>2, <2>3
<1>5. CASE MasterReads
  <2>1. Len(s2m') \in Nat /\ Len(s2m') < Len(s2m) /\ waiting /\ waiting' = FALSE
        /\ UNCHANGED <<m2s, slave>>
    BY <1>2, <1>5, ReadIsShorter DEF MasterReads
  <2>2. Out' < Out
    BY <1>2, <2>1 DEF Out, Awaited, Polled, slave
  <2>3. Awaited = 1 /\ Awaited' = 0
    BY <2>1 DEF Awaited, Polled
  <2> QED  BY <1>1, <1>3, <2>2, <2>3
<1>6. CASE MasterReadsNothing
  <2>1. waiting /\ waiting' = FALSE /\ UNCHANGED <<m2s, s2m, slave>>
    BY <1>6 DEF MasterReadsNothing
  <2>2. Out' = Out /\ Awaited = 1
    BY <2>1 DEF Out, slave, Awaited, Polled
  <2>3. CASE Coming
    <3>1. Late' = Late + 1
      BY <1>6, <2>3, Bounds DEF MasterReadsNothing, Spend, Late, LinkType
    <3> QED  BY <1>1, <1>3, <2>2, <3>1
  <2>4. CASE ~Coming
    <3>1. m2s = <<>> /\ s2m = <<>> /\ s_state # "MASTERLINKAVAIL"
      BY <2>4 DEF Coming
    <3>2. Out = 0
      BY <3>1 DEF Out, Awaited, Polled
    <3> QED  BY <1>1, <1>3, <2>2, <3>2
  <2> QED  BY <2>3, <2>4
<1>7. CASE Out' <= Out /\ UNCHANGED waiting
  <2>1. Awaited' = Awaited
    BY <1>7 DEF Awaited, Polled
  <2> QED  BY <1>1, <1>3, <1>7, <2>1
<1>8. CASE SlaveReads \/ MasterLinkAvail \/ SlaveGivesUp \/ ProcessIncomingData
  BY <1>7, <1>8, SlaveKeepsOut DEF master
<1>9. CASE Lose \/ Garble
  BY <1>7, <1>9, LinesShorter DEF master
<1>10. CASE Command \/ WaitForReq \/ ReqLink \/ SlaveLinkAvail \/ UNCHANGED vars
           \/ \E c \in Class : MakeValue(c)
  <2>1. UNCHANGED <<m2s, s2m, s_state, waiting>>
    BY <1>10 DEF Command, WaitForReq, ReqLink, SlaveLinkAvail, MakeValue, vars, master, slave
  <2>2. Out' = Out
    BY <2>1 DEF Out, Awaited, Polled
  <2> QED  BY <1>1, <1>7, <2>1, <2>2
<1> QED  BY <1>4, <1>5, <1>6, <1>8, <1>9, <1>10 DEF Next

LEMMA LockStepHolds == Spec => []LockStep
<1>1. LinkType /\ LockStep /\ [Next]_vars => LockStep'
  BY NextLockStep
<1> QED  BY <1>1, InitLockStep, LinkTypeHolds, PTL DEF Spec

-----------------------------------------------------------------------------
(* ConfirmedIsTaken. *)

\* The line carries no frame but repetitions of one command.
Only(line, n) ==
  \A i \in 1..Len(line) : line[i].func = "bad" \/ (IsUser(line[i]) /\ line[i].n = n)

\* While no answer has been late, what is on the line belongs to the command the master
\* repeats, and an acknowledgement says that the slave has taken it.
OnlyThisCommand ==
  Late = 0 /\ Sending =>
    /\ Only(m2s, txbuffer.n)
    /\ \A i \in 1..Len(s2m) : s2m[i].func = "ack" => taken = txbuffer.n

ConfirmedInv == OnlyThisCommand /\ ConfirmedIsTaken

LEMMA NotLate == LinkType => (budget.late = Lates <=> Late = 0)
<1> SUFFICES ASSUME LinkType PROVE budget.late = Lates <=> Late = 0
  OBVIOUS
<1>1. budget.late \in Nat /\ Lates \in Nat
  BY Bounds DEF LinkType
<1> QED  BY <1>1 DEF Late

LEMMA InitConfirmed == Init => ConfirmedInv
<1> SUFFICES ASSUME Init PROVE ConfirmedInv
  OBVIOUS
<1> QED  BY DEF Init, ConfirmedInv, OnlyThisCommand, Only, ConfirmedIsTaken, Sending

LEMMA TakenGrows ==
  ASSUME LinkType, CommandsOrdered, [Next]_vars
  PROVE  taken \in Nat /\ taken' \in Nat /\ taken <= taken'
<1>1. taken \in Nat /\ taken' \in Nat
  BY NextLinkType DEF LinkType
<1>2. CASE SlaveReads
  <2>1. taken' = taken \/ (IsUser(Head(m2s)) /\ taken' = Head(m2s).n)
    BY <1>2 DEF SlaveReads, Handles, TakesCommand, IsUser
  <2>2. PICK top \in Nat : Ordered(taken, m2s, top, write_q, commands)
    BY DEF CommandsOrdered
  <2>3. IsUser(Head(m2s)) => taken <= Head(m2s).n
    BY <1>1, <1>2, <2>2, TakenOrdered DEF SlaveReads, LinkType
  <2> QED  BY <1>1, <2>1, <2>3
<1>3. ~SlaveReads => UNCHANGED taken
  BY DEF Next, vars, master, slave, Command, WaitForReq, ReqLink, SlaveLinkAvail, TxOneFrame,
     MasterReads, MasterReadsNothing, MakeValue, SlaveGivesUp, MasterLinkAvail,
     ProcessIncomingData, Lose, Garble
<1> QED  BY <1>1, <1>2, <1>3

LEMMA ThisCommandThinned ==
  ASSUME NEW line \in Seq(Frames), NEW new, Thinned(new, line), NEW n,
         Only(line, n)
  PROVE  Only(new, n)
<1>1. Short("bad").func = "bad"
  BY ShortFrames
<1> QED  BY <1>1 DEF Thinned, Only

LEMMA AcksThinned ==
  ASSUME NEW line \in Seq(Frames), NEW new, Thinned(new, line),
         NEW i \in 1..Len(new), new[i].func = "ack"
  PROVE  \E j \in 1..Len(line) : line[j].func = "ack"
<1>1. Short("bad").func = "bad"
  BY ShortFrames
<1> QED  BY <1>1 DEF Thinned

\* The line is empty when a command is sent for the first time.
LEMMA FirstSent ==
  ASSUME LinkType, LockStep, Late = 0, ~waiting
  PROVE  m2s = <<>> /\ s2m = <<>>
<1>1. Len(m2s) \in Nat /\ Len(s2m) \in Nat
  BY FramesOfLine DEF LinkType
<1>2. Len(m2s) = 0 /\ Len(s2m) = 0
  BY <1>1 DEF LockStep, Out, Awaited, Polled
<1> QED  BY <1>2 DEF LinkType

LEMMA NextOnlyThisCommand ==
  ASSUME LinkType, LockStep, OnlyThisCommand, [Next]_vars
  PROVE  OnlyThisCommand'
<1> SUFFICES ASSUME Late' = 0, Sending'
             PROVE  /\ Only(m2s', txbuffer'.n)
                    /\ \A i \in 1..Len(s2m') : s2m'[i].func = "ack" => taken' = txbuffer'.n
  BY DEF OnlyThisCommand
<1>1. Late = 0 /\ m2s \in Seq(Frames) /\ s2m \in Seq(Frames)
  BY LateGrows, OutType DEF LinkType
<1>2. CASE SlaveLinkAvail
  <2>1. m2s' = <<>> /\ s2m' = <<>>
    BY <1>1, <1>2, FirstSent, SendsStates DEF SlaveLinkAvail, LinkType
  <2> QED  BY <2>1 DEF Only
<1>3. CASE TxOneFrame
  <2>1. m2s' = <<txbuffer>> /\ s2m' = <<>> /\ UNCHANGED <<m_state, txbuffer>>
    BY <1>1, <1>3, FirstSent DEF TxOneFrame
  <2>2. txbuffer.func = "user"
    BY <2>1, SendsStates DEF Sending, LinkType
  <2> QED  BY <2>1, <2>2 DEF IsUser, Only
<1>4. CASE ~SlaveLinkAvail /\ ~TxOneFrame
  <2>1. Sending /\ UNCHANGED txbuffer
    <3>1. CASE MasterReads
      BY <3>1, AfterStates DEF MasterReads, Moves, Sending
    <3>2. CASE MasterReadsNothing
      BY <3>2, AfterStates DEF MasterReadsNothing, Moves, Sending
    <3> QED  BY <1>4, <3>1, <3>2 DEF Next, vars, master, slave, Command, WaitForReq, ReqLink,
                MakeValue, SlaveReads, SlaveGivesUp, MasterLinkAvail, ProcessIncomingData,
                Lose, Garble, Sending
  <2>2. /\ Only(m2s, txbuffer.n)
        /\ \A i \in 1..Len(s2m) : s2m[i].func = "ack" => taken = txbuffer.n
    BY <1>1, <2>1 DEF OnlyThisCommand
  <2>3. ASSUME UNCHANGED m2s \/ Thinned(m2s', m2s), UNCHANGED s2m \/ Thinned(s2m', s2m),
               UNCHANGED taken
        PROVE  OnlyThisCommand'
    <3>1. Only(m2s', txbuffer.n)
      <4>1. CASE UNCHANGED m2s
        BY <2>2, <4>1
      <4>2. CASE Thinned(m2s', m2s)
        BY <1>1, <2>2, <4>2, ThisCommandThinned
      <4> QED  BY <2>3, <4>1, <4>2
    <3>2. \A i \in 1..Len(s2m') : s2m'[i].func = "ack" => taken = txbuffer.n
      BY <1>1, <2>2, <2>3, AcksThinned
    <3> QED  BY <2>1, <2>3, <3>1, <3>2 DEF OnlyThisCommand
  <2>4. CASE SlaveReads
    <3>1. Thinned(m2s', m2s) /\ m2s # <<>>
      BY <1>1, <2>4, RestIsThinned DEF SlaveReads
    <3>2. Only(m2s', txbuffer.n)
      BY <1>1, <2>2, <3>1, ThisCommandThinned
    <3>3. Head(m2s).func = "bad" \/ (IsUser(Head(m2s)) /\ Head(m2s).n = txbuffer.n)
      BY <1>1, <2>2, <3>1 DEF Only
    <3>4. UNCHANGED <<s2m, taken>> \/ taken' = txbuffer.n
      BY <2>4, <3>3 DEF SlaveReads, Handles, TakesCommand, Answers, IsUser
    <3> QED  BY <2>1, <2>2, <3>2, <3>4
  <2>5. CASE MasterLinkAvail
    <3>1. UNCHANGED <<m2s, taken>>
      BY <2>5 DEF MasterLinkAvail
    <3>2. PICK f \in Frames : s2m' = Append(s2m, f) /\ f.func \in {"data", "nodata"}
      <4>1. CASE \E c \in Class, acd \in BOOLEAN : queue[c] # <<>> /\ Serve(c, acd)
        <5>1. PICK c \in Class, acd \in BOOLEAN : queue[c] # <<>> /\ Serve(c, acd)
          BY <4>1
        <5>2. Head(queue[c]) \in Nat
          BY <5>1, TailOfQueue DEF LinkType
        <5> QED  BY <5>1, <5>2, DataFrames DEF Serve, Answers, Data
      <4>2. CASE s2m' = Append(s2m, Short("nodata"))
        BY <4>2, ShortFrames
      <4> QED  BY <2>5, <4>1, <4>2 DEF MasterLinkAvail, Answers, Class
    <3>3. /\ \A i \in 1..Len(s2m) : s2m'[i] = s2m[i] /\ s2m'[Len(s2m) + 1] = f
          /\ \A i \in 1..Len(s2m') : i \in 1..Len(s2m) \/ i = Len(s2m) + 1
      BY <1>1, <3>2, AppendedLine
    <3>4. s2m'[Len(s2m) + 1] = f
      BY <1>1, <3>2, AppendedLine
    <3>5. \A i \in 1..Len(s2m') : s2m'[i].func = "ack" => taken' = txbuffer.n
      BY <2>2, <3>1, <3>2, <3>3, <3>4
    <3> QED  BY <2>1, <2>2, <3>1, <3>5
  <2>6. CASE MasterReads
    BY <1>1, <2>3, <2>6, RestIsThinned DEF MasterReads, slave, OnlyThisCommand
  <2>7. CASE Lose \/ Garble
    BY <1>1, <2>3, <2>7, TailIsThinned, GarbledIsThinned DEF Lose, Garble, slave, OnlyThisCommand
  <2>8. CASE Command \/ WaitForReq \/ ReqLink \/ MasterReadsNothing \/ UNCHANGED vars
             \/ (\E c \in Class : MakeValue(c)) \/ SlaveGivesUp \/ ProcessIncomingData
    BY <2>3, <2>8 DEF Command, WaitForReq, ReqLink, MasterReadsNothing, vars, MakeValue,
       SlaveGivesUp, ProcessIncomingData, master, slave, OnlyThisCommand
  <2> QED  BY <1>4, <2>4, <2>5, <2>6, <2>7, <2>8 DEF Next
<1> QED  BY <1>2, <1>3, <1>4

LEMMA NextConfirmed ==
  ASSUME LinkType, CommandsOrdered, LockStep, ConfirmedInv, [Next]_vars
  PROVE  ConfirmedInv'
<1>1. OnlyThisCommand'
  BY NextOnlyThisCommand DEF ConfirmedInv
<1>2. ConfirmedIsTaken'
  <2> SUFFICES ASSUME budget'.late = Lates PROVE confirmed' <= taken'
    BY DEF ConfirmedIsTaken
  <2>1. Late' = 0
    <3>1. Lates \in Nat
      BY Bounds
    <3> QED  BY <3>1 DEF Late
  <2>2. Late = 0 /\ confirmed <= taken /\ confirmed \in Nat
    BY <2>1, LateGrows, OutType, NotLate DEF ConfirmedInv, ConfirmedIsTaken, LinkType
  <2>3. taken \in Nat /\ taken' \in Nat /\ taken <= taken'
    BY TakenGrows
  <2>4. CASE MasterReads /\ Sending /\ Head(s2m).func = "ack"
    <3>1. s2m[1].func = "ack" /\ 1 \in 1..Len(s2m)
      BY <2>4, RestOfLine DEF MasterReads, LinkType
    <3>2. taken = txbuffer.n
      BY <2>2, <2>4, <3>1 DEF ConfirmedInv, OnlyThisCommand
    <3>3. confirmed' = txbuffer.n /\ taken' = taken
      BY <2>4 DEF MasterReads, Sending, slave
    <3> QED  BY <2>3, <3>2, <3>3
  <2>5. CASE confirmed' = confirmed
    BY <2>2, <2>3, <2>5
  <2> QED
    BY <2>4, <2>5 DEF Next, vars, master, slave, Command, WaitForReq, ReqLink, SlaveLinkAvail,
       TxOneFrame, MasterReads, MasterReadsNothing, MakeValue, SlaveReads, SlaveGivesUp,
       MasterLinkAvail, ProcessIncomingData, Lose, Garble, Sending
<1> QED  BY <1>1, <1>2 DEF ConfirmedInv

\* If no answer has been late, a command the master takes for confirmed has reached the
\* slave, whatever was lost or garbled (link_unbalance_master.c:438-516,
\* link_unbalance_slave.c:730-758).
THEOREM ConfirmedWasTaken == Spec => []ConfirmedIsTaken
<1>1. LinkType /\ CommandsOrdered /\ LockStep /\ ConfirmedInv /\ [Next]_vars => ConfirmedInv'
  BY NextConfirmed
<1>2. ConfirmedInv => ConfirmedIsTaken
  BY DEF ConfirmedInv
<1> QED
  BY <1>1, <1>2, InitConfirmed, LinkTypeHolds, CommandsOrderHolds, LockStepHolds, PTL DEF Spec

-----------------------------------------------------------------------------
(* RepeatsBounded: how often a command is sent. *)

\* Requests that are no command, and the answers to them.
Asking == {f \in Frames : f.func \in {"status", "reset", "request"}}
Strange == {f \in Frames : f.func \notin {"ack", "bad"}}

\* What is under way and not about the command being sent: each such answer makes the
\* master send it once more.
Stale == Count(m2s, Asking) + Count(s2m, Strange) + Polled

SentBounded == Sending => Trpcount + Stale <= TrpMax + Late + Awaited

LEMMA LinesType ==
  ASSUME LinkType
  PROVE  /\ m2s \in Seq(Frames) /\ s2m \in Seq(Frames) /\ Trpcount \in Nat /\ txbuffer \in Frames
         /\ Len(m2s) \in Nat /\ Len(s2m) \in Nat
BY FramesOfLine DEF LinkType

LEMMA StaleType ==
  ASSUME m2s \in Seq(Frames), s2m \in Seq(Frames)
  PROVE  Stale \in Nat /\ Stale <= Out
<1>1. /\ Count(m2s, Asking) \in Nat /\ Count(m2s, Asking) <= Len(m2s) /\ Len(m2s) \in Nat
      /\ Count(s2m, Strange) \in Nat /\ Count(s2m, Strange) <= Len(s2m) /\ Len(s2m) \in Nat
  BY CountType, FramesOfLine
<1>2. Polled \in Nat
  BY DEF Awaited, Polled
<1> QED  BY <1>1, <1>2 DEF Stale, Out

LEMMA StaleTypeAfter ==
  ASSUME LinkType, [Next]_vars
  PROVE  Stale' \in Nat /\ Out' \in Nat /\ Stale' <= Out'
<1>1. m2s' \in Seq(Frames) /\ s2m' \in Seq(Frames)
  BY NextLinkType DEF LinkType
<1>2. /\ Count(m2s', Asking) \in Nat /\ Count(m2s', Asking) <= Len(m2s') /\ Len(m2s') \in Nat
      /\ Count(s2m', Strange) \in Nat /\ Count(s2m', Strange) <= Len(s2m') /\ Len(s2m') \in Nat
  BY <1>1, CountType, FramesOfLine
<1>3. Polled' \in Nat
  BY DEF Awaited, Polled
<1> QED  BY <1>2, <1>3 DEF Stale, Out

LEMMA BadIsNone == Short("bad") \notin Asking /\ Short("bad") \notin Strange
BY ShortFrames DEF Asking, Strange

LEMMA FaultsKeepStale ==
  ASSUME LinkType, Lose \/ Garble
  PROVE  Stale' <= Stale /\ UNCHANGED <<master, slave>>
<1>1. m2s \in Seq(Frames) /\ s2m \in Seq(Frames)
  BY LinesType
<1>2. /\ m2s' = m2s \/ Thinned(m2s', m2s)
      /\ s2m' = s2m \/ Thinned(s2m', s2m)
  BY <1>1, TailIsThinned, GarbledIsThinned DEF Lose, Garble
<1>3. m2s' \in Seq(Frames) /\ s2m' \in Seq(Frames)
  BY <1>1, <1>2 DEF Thinned
<1>4. /\ Count(m2s, Asking) \in Nat /\ Count(m2s', Asking) \in Nat
      /\ Count(s2m, Strange) \in Nat /\ Count(s2m', Strange) \in Nat
  BY <1>1, <1>3, CountType
<1>5. Count(m2s', Asking) <= Count(m2s, Asking)
  BY <1>1, <1>2, <1>4, BadIsNone, CountThinned
<1>6. Count(s2m', Strange) <= Count(s2m, Strange)
  BY <1>1, <1>2, <1>4, BadIsNone, CountThinned
<1>7. UNCHANGED <<master, slave>>
  BY DEF Lose, Garble
<1>8. Polled' = Polled
      /\ Polled \in Nat
  BY <1>7 DEF slave, Awaited, Polled
<1> QED  BY <1>4, <1>5, <1>6, <1>7, <1>8 DEF Stale

LEMMA SlaveReadsKeepsStale ==
  ASSUME LinkType, SlaveReads
  PROVE  Stale' <= Stale
<1> DEFINE f == Head(m2s)
           a == Count(m2s, Asking)
           b == Count(m2s', Asking)
           c == Count(s2m, Strange)
           d == Count(s2m', Strange)
<1>1. m2s \in Seq(Frames) /\ s2m \in Seq(Frames) /\ m2s # <<>> /\ m2s' \in Rest(m2s)
      /\ f \in Frames /\ m2s' \in Seq(Frames)
  <2>1. m2s \in Seq(Frames) /\ s2m \in Seq(Frames) /\ m2s # <<>> /\ m2s' \in Rest(m2s)
    BY LinesType DEF SlaveReads
  <2> QED  BY <2>1, RestOfLine
<1>2. a \in Nat /\ b \in Nat /\ c \in Nat /\ b + (IF f \in Asking THEN 1 ELSE 0) <= a
  BY <1>1, CountType, CountRead
<1>3. Polled = 0
  BY DEF SlaveReads, Reading, Awaited, Polled
<1>4. \A g \in Frames : Count(Append(s2m, g), Strange) = c + IF g \in Strange THEN 1 ELSE 0
  BY <1>1, CountAppend
<1>5. /\ Short("status") \in Frames /\ Short("ack") \in Frames /\ Short("ack") \notin Strange
  BY ShortFrames DEF Strange
<1>6. Count(Append(s2m, Short("status")), Strange) <= c + 1
      /\ Count(Append(s2m, Short("status")), Strange) \in Nat
      /\ Count(Append(s2m, Short("ack")), Strange) = c
  BY <1>2, <1>4, <1>5
<1> HIDE DEF f, a, b, c, d
<1>7. CASE f.func \in {"status", "request"} /\ Handles(f)
  <2>1. f \in Asking
    BY <1>1, <1>7 DEF Asking
  <2>2. \/ s2m' = Append(s2m, Short("status")) /\ s_state' # "MASTERLINKAVAIL"
        \/ s2m' = s2m
    BY <1>7 DEF Handles, Answers
  <2>3. d \in Nat /\ d + Polled' <= c + 1
    <3>1. CASE s2m' = s2m
      BY <1>2, <3>1 DEF Polled, c, d
    <3>2. CASE s2m' = Append(s2m, Short("status")) /\ s_state' # "MASTERLINKAVAIL"
      <4>1. Polled' = 0
        BY <3>2 DEF Polled
      <4> QED  BY <1>6, <3>2, <4>1 DEF d
    <3> QED  BY <2>2, <3>1, <3>2
  <2>4. Polled' \in Nat
    BY DEF Awaited, Polled
  <2> QED  BY <1>2, <1>3, <2>1, <2>3, <2>4 DEF Stale, a, b, c, d
<1>8. CASE /\ s2m' = s2m \/ s2m' = Append(s2m, Short("ack"))
           /\ s_state' # "MASTERLINKAVAIL"
  <2>1. d = c
    BY <1>6, <1>8 DEF c, d
  <2>2. b <= a
    BY <1>2
  <2>3. Polled' = 0
    BY <1>8 DEF Awaited, Polled
  <2> QED  BY <1>2, <1>3, <2>1, <2>2, <2>3 DEF Stale, a, b, c, d
<1> QED
  BY <1>7, <1>8 DEF SlaveReads, Handles, Answers, TakesCommand, Reading, f

LEMMA PollKeepsStale ==
  ASSUME LinkType, MasterLinkAvail
  PROVE  Stale' <= Stale
<1>1. m2s \in Seq(Frames) /\ s2m \in Seq(Frames)
  BY LinesType
<1>2. PICK g \in Frames : s2m' = Append(s2m, g)
  <2>1. CASE \E c \in Class, acd \in BOOLEAN : queue[c] # <<>> /\ Serve(c, acd)
    <3>1. PICK c \in Class, acd \in BOOLEAN : queue[c] # <<>> /\ Serve(c, acd)
      BY <2>1
    <3>2. Head(queue[c]) \in Nat
      BY <3>1, TailOfQueue DEF LinkType
    <3> QED  BY <3>1, <3>2, DataFrames DEF Serve, Answers
  <2>2. CASE s2m' = Append(s2m, Short("nodata"))
    BY <2>2, ShortFrames
  <2> QED  BY <2>1, <2>2 DEF MasterLinkAvail, Answers, Class
<1>3. Count(s2m', Strange) = Count(s2m, Strange) + IF g \in Strange THEN 1 ELSE 0
  BY <1>1, <1>2, CountAppend
<1>4. Count(s2m, Strange) \in Nat /\ Count(m2s, Asking) \in Nat
  BY <1>1, CountType
<1>5. s_state = "MASTERLINKAVAIL" /\ s_state' = "EXREQRES" /\ m2s' = m2s
  BY DEF MasterLinkAvail, Serve, Answers
<1>6. Polled = 1 /\ Polled' = 0
  BY <1>5 DEF Awaited, Polled
<1> QED  BY <1>3, <1>4, <1>5, <1>6 DEF Stale

\* An answer that is no acknowledgement and not garbled was stale.
LEMMA StrangeWasStale ==
  ASSUME LinkType, MasterReads
  PROVE  /\ Stale' <= Stale
         /\ Head(s2m).func \notin {"ack", "bad"} => Stale' < Stale
<1>1. m2s \in Seq(Frames) /\ s2m \in Seq(Frames) /\ s2m # <<>> /\ s2m' \in Rest(s2m)
      /\ UNCHANGED <<m2s, slave>>
  BY LinesType DEF MasterReads
<1>2. Head(s2m) \in Frames /\ s2m' \in Seq(Frames)
  BY <1>1, RestOfLine
<1>3. /\ Count(m2s, Asking) \in Nat /\ Count(s2m, Strange) \in Nat /\ Count(s2m', Strange) \in Nat
      /\ Count(s2m', Strange) + (IF Head(s2m) \in Strange THEN 1 ELSE 0) <= Count(s2m, Strange)
  BY <1>1, <1>2, CountType, CountRead
<1>4. Head(s2m).func \notin {"ack", "bad"} => Head(s2m) \in Strange
  BY <1>2 DEF Strange
<1>5. Polled' = Polled
      /\ Polled \in Nat
  BY <1>1 DEF slave, Awaited, Polled
<1> QED  BY <1>1, <1>3, <1>4, <1>5 DEF Stale

\* The sums behind the next step, over numbers.
LEMMA SentSums ==
  ASSUME NEW m \in Nat, NEW t \in Nat, NEW tt \in Nat, NEW s \in Nat, NEW ss \in Nat,
         NEW l \in Nat, NEW ll \in Nat, NEW a \in {0, 1}, NEW aa \in {0, 1}, NEW oo \in Nat,
         ss <= oo, l <= ll, oo <= ll + aa
  PROVE  /\ (aa = 0 /\ tt <= m) => tt + ss <= m + ll + aa
         /\ (t + s <= m + l + a /\ tt = t /\ aa = a /\ ss <= s) => tt + ss <= m + ll + aa
         /\ (t + s <= m + l + a /\ tt = t + 1 /\ a = 0 /\ aa = 1 /\ ss = s)
              => tt + ss <= m + ll + aa
         /\ (t + s <= m + l + a /\ tt = t /\ a = 1 /\ aa = 0 /\ ss < s)
              => tt + ss <= m + ll + aa
OBVIOUS

LEMMA NextSent ==
  ASSUME LinkType, LockStep, SentBounded, [Next]_vars
  PROVE  SentBounded'
<1> SUFFICES ASSUME Sending' PROVE Trpcount' + Stale' <= TrpMax + Late' + Awaited'
  BY DEF SentBounded
<1>1. /\ TrpMax \in Nat /\ Trpcount \in Nat /\ Trpcount' \in Nat /\ Stale \in Nat /\ Stale' \in Nat
      /\ Out' \in Nat /\ Stale' <= Out' /\ Late \in Nat /\ Late' \in Nat /\ Late <= Late'
      /\ Awaited \in {0, 1} /\ Awaited' \in {0, 1}
  <2>1. TrpMax \in Nat /\ Trpcount \in Nat /\ Trpcount' \in Nat
    BY Bounds, NextLinkType DEF LinkType
  <2>2. Stale \in Nat /\ Stale' \in Nat /\ Out' \in Nat /\ Stale' <= Out'
    BY StaleType, StaleTypeAfter, LinesType
  <2>3. Late \in Nat /\ Late' \in Nat /\ Late <= Late'
    BY OutType, LateGrows
  <2> QED  BY <2>1, <2>2, <2>3 DEF Awaited, Polled
<1>2. Sending => Trpcount + Stale <= TrpMax + Late + Awaited
  BY DEF SentBounded
<1>3. Out' <= Late' + Awaited'
  BY NextLockStep DEF LockStep
\* After a read that did not exceed the repetitions the lines say enough.
<1>4. ASSUME Awaited' = 0, Trpcount' <= TrpMax
      PROVE  Trpcount' + Stale' <= TrpMax + Late' + Awaited'
  BY <1>1, <1>3, <1>4, SentSums, Zenon
<1>5. ASSUME Sending, Trpcount' = Trpcount, Awaited' = Awaited, Stale' <= Stale
      PROVE  Trpcount' + Stale' <= TrpMax + Late' + Awaited'
  BY <1>1, <1>2, <1>3, <1>5, SentSums, Zenon
<1>6. CASE SlaveLinkAvail
  <2>1. ~waiting /\ waiting' = waiting /\ Trpcount' = 0
    BY <1>6, SendsStates DEF SlaveLinkAvail, LinkType
  <2>2. Awaited' = 0
    BY <2>1 DEF Awaited
  <2>3. Trpcount' = 0
    BY <2>1
  <2>4. Trpcount' <= TrpMax
    BY <1>1, <2>3
  <2> QED  BY <1>4, <2>2, <2>4
<1>7. CASE TxOneFrame
  <2>1. /\ m2s' = Append(m2s, txbuffer) /\ UNCHANGED <<m_state, s2m, slave>>
        /\ Trpcount' = Trpcount + 1 /\ ~waiting /\ waiting' = TRUE
    BY <1>7 DEF TxOneFrame
  <2>2. Sending /\ txbuffer \notin Asking
    BY <2>1, SendsStates DEF Sending, LinkType, Asking
  <2>3. Count(m2s', Asking) = Count(m2s, Asking) + 0
    BY <2>1, <2>2, LinesType, CountAppend
  <2>4. Count(m2s, Asking) \in Nat
    BY LinesType, CountType
  <2>5. Polled' = Polled /\ s2m' = s2m /\ Trpcount' = Trpcount + 1
    BY <2>1 DEF Polled, slave
  <2>6. Stale' = Stale
    BY <2>3, <2>4, <2>5 DEF Stale
  <2>7. Awaited = 0 /\ Awaited' = 1
    BY <2>1 DEF Awaited
  <2> QED  BY <1>1, <1>2, <1>3, <2>2, <2>5, <2>6, <2>7, SentSums, Zenon
<1>8. CASE MasterReads
  <2>1. Moves(After(Head(s2m).func)) /\ waiting /\ waiting' = FALSE
    BY <1>8 DEF MasterReads
  <2>2. Sending /\ After(Head(s2m).func) = "SENDCON" /\ Trpcount' = Trpcount
    BY <2>1, AfterStates DEF Moves, Sending
  <2>3. Head(s2m).func # "ack" /\ (Head(s2m).func = "bad" => ~(Trpcount > TrpMax))
    BY <2>2 DEF After, Sending
  <2>4. Awaited = 1 /\ Awaited' = 0
    BY <2>1 DEF Awaited
  <2>5. CASE Head(s2m).func = "bad"
    <3>1. Trpcount' <= TrpMax
      BY <1>1, <2>2, <2>3, <2>5
    <3> QED  BY <1>4, <2>4, <3>1
  <2>6. CASE Head(s2m).func # "bad"
    <3>1. Stale' < Stale
      BY <1>8, <2>3, <2>6, StrangeWasStale
    <3> QED  BY <1>1, <1>2, <1>3, <2>2, <2>4, <3>1, SentSums, Zenon
  <2> QED  BY <2>5, <2>6
<1>9. CASE MasterReadsNothing
  <2>1. Moves(AfterSilence) /\ waiting' = FALSE
    BY <1>9 DEF MasterReadsNothing
  <2>2. ~(Trpcount > TrpMax) /\ Trpcount' = Trpcount
    BY <2>1, AfterStates DEF Moves, Sending, AfterSilence
  <2>3. Trpcount' <= TrpMax
    BY <1>1, <2>2
  <2>4. Awaited' = 0
    BY <2>1 DEF Awaited
  <2> QED  BY <1>4, <2>3, <2>4
<1>10. ASSUME Stale' <= Stale, UNCHANGED <<m_state, Trpcount, waiting>>
       PROVE  Trpcount' + Stale' <= TrpMax + Late' + Awaited'
  <2>1. Sending /\ Trpcount' = Trpcount /\ Awaited' = Awaited
    BY <1>10 DEF Sending, Awaited
  <2> QED  BY <1>5, <1>10, <2>1
<1>11. CASE SlaveReads \/ MasterLinkAvail
  <2>1. UNCHANGED master
    BY <1>11 DEF SlaveReads, MasterLinkAvail
  <2>2. Stale' <= Stale
    BY <1>11, SlaveReadsKeepsStale, PollKeepsStale
  <2> QED  BY <1>10, <2>1, <2>2 DEF master
<1>12. CASE Lose \/ Garble
  BY <1>10, <1>12, FaultsKeepStale DEF master
<1>13. CASE Command \/ UNCHANGED vars \/ SlaveGivesUp \/ ProcessIncomingData
            \/ \E c \in Class : MakeValue(c)
  <2>1. /\ UNCHANGED <<m_state, Trpcount, waiting, m2s, s2m>>
        /\ (s_state' = "MASTERLINKAVAIL") <=> (s_state = "MASTERLINKAVAIL")
    BY <1>13 DEF Command, vars, MakeValue, SlaveGivesUp, ProcessIncomingData, master, slave
  <2>2. Polled' = Polled
    BY <2>1 DEF Polled
  <2>3. Stale' = Stale
    BY <2>1, <2>2 DEF Stale
  <2>4. Stale' <= Stale
    BY <1>1, <2>3
  <2> QED  BY <1>10, <2>1, <2>4
<1>14. CASE WaitForReq \/ ReqLink
  BY <1>14 DEF WaitForReq, ReqLink, Sending
<1> QED  BY <1>6, <1>7, <1>8, <1>9, <1>11, <1>12, <1>13, <1>14 DEF Next

-----------------------------------------------------------------------------
(* RepeatsBounded: how often a command is executed. *)

Copy(n) == {f \in Frames : f.func = "user" /\ f.n = n}

Due(n) == IF s_state = "PROCESS_INCOMING_DATA" /\ rxbuffer = n THEN 1 ELSE 0

Done(n) == IF executed.n = n THEN executed.times ELSE 0

\* The executions of a command: those done, the one due and those still on the line.
Copies(n) == Count(m2s, Copy(n)) + Due(n) + Done(n)

Bound(n) == IF Sending /\ txbuffer.n = n THEN Trpcount ELSE TrpMax + 1 + Late

CopiesBounded == \A n \in Nat : Copies(n) <= Bound(n)

RepeatsInv == SentBounded /\ CopiesBounded

LEMMA CopiesType ==
  ASSUME LinkType, NEW n
  PROVE  /\ Count(m2s, Copy(n)) \in Nat /\ Copies(n) \in Nat
         /\ Due(n) \in {0, 1} /\ Done(n) \in Nat
<1>1. Count(m2s, Copy(n)) \in Nat
  BY LinesType, CountType
<1>2. Due(n) \in {0, 1}
  BY DEF Due
<1>3. Done(n) \in Nat
  BY DEF LinkType, Done
<1> QED  BY <1>1, <1>2, <1>3 DEF Copies

LEMMA InitRepeats == Init => RepeatsInv
<1> SUFFICES ASSUME Init PROVE RepeatsInv
  OBVIOUS
<1>1. SentBounded
  BY DEF Init, SentBounded, Sending
<1>2. ASSUME NEW n \in Nat PROVE Copies(n) <= Bound(n)
  <2>1. m2s = <<>> /\ m2s \in Seq(Frames)
    BY DEF Init
  <2>2. Count(m2s, Copy(n)) = 0
    <3>1. \A i \in 1..Len(m2s) : m2s[i] \notin Copy(n)
      BY <2>1
    <3> QED  BY <2>1, <3>1, CountNone
  <2>3. Due(n) = 0 /\ Done(n) = 0
    BY DEF Init, Due, Done
  <2>4. Bound(n) \in Nat
    BY Bounds, InitLinkType, OutType DEF Bound, Init, Sending
  <2> QED  BY <2>2, <2>3, <2>4 DEF Copies
<1> QED  BY <1>1, <1>2 DEF RepeatsInv, CopiesBounded

\* A command that has never been sent.
LEMMA FreshCommand ==
  ASSUME LinkType, CommandsOrdered, NEW top \in Nat, NEW n \in Nat,
         Ordered(taken, m2s, top, write_q, commands), top < n
  PROVE  Copies(n) = 0
<1>1. taken \in Nat /\ executed.n \in Nat /\ executed.n <= taken /\ taken <= top
  BY DEF LinkType, CommandsOrdered, Ordered
<1>2. \A i \in 1..Len(m2s) : m2s[i] \notin Copy(n)
  <2>1. ASSUME NEW i \in 1..Len(m2s), m2s[i] \in Copy(n) PROVE FALSE
    <3>1. IsUser(m2s[i]) /\ m2s[i].n = n
      BY <2>1 DEF Copy, IsUser
    <3>2. m2s[i].n <= top
      BY <3>1 DEF Ordered
    <3> QED  BY <3>1, <3>2
  <2> QED  BY <2>1
<1>3. Count(m2s, Copy(n)) = 0
  BY <1>2, LinesType, CountNone
<1>4. Due(n) = 0
  <2>1. ~(s_state = "PROCESS_INCOMING_DATA" /\ rxbuffer = n)
    BY <1>1 DEF CommandsOrdered
  <2> QED  BY <2>1 DEF Due
<1>5. Done(n) = 0
  BY <1>1 DEF Done
<1> QED  BY <1>3, <1>4, <1>5 DEF Copies

LEMMA CopiesTypeAfter ==
  ASSUME LinkType, [Next]_vars, NEW n
  PROVE  /\ Count(m2s', Copy(n)) \in Nat /\ Copies(n)' \in Nat
         /\ Due(n)' \in {0, 1} /\ Done(n)' \in Nat
<1>1. m2s' \in Seq(Frames) /\ executed' \in [n : Nat, times : Nat]
  BY NextLinkType DEF LinkType
<1>2. Count(m2s', Copy(n)) \in Nat
  BY <1>1, CountType
<1>3. Due(n)' \in {0, 1}
  BY DEF Due
<1>4. Done(n)' \in Nat
  BY <1>1 DEF Done
<1> QED  BY <1>2, <1>3, <1>4 DEF Copies

\* What loses or garbles frames and what reads them executes no command twice.
LEMMA CopiesKept ==
  ASSUME LinkType, [Next]_vars, ~TxOneFrame, NEW n \in Nat
  PROVE  Copies(n)' <= Copies(n)
<1> DEFINE k == Copy(n)
<1>1. /\ Count(m2s, Copy(n)) \in Nat /\ Due(n) \in {0, 1} /\ Done(n) \in Nat
      /\ Count(m2s', Copy(n)) \in Nat /\ Due(n)' \in {0, 1} /\ Done(n)' \in Nat
  BY CopiesType, CopiesTypeAfter
<1>2. ASSUME Count(m2s', Copy(n)) <= Count(m2s, Copy(n)), Due(n)' = Due(n), Done(n)' = Done(n)
      PROVE  Copies(n)' <= Copies(n)
  BY <1>1, <1>2 DEF Copies
<1>3. CASE Lose \/ Garble
  <2>1. UNCHANGED slave /\ (m2s' = m2s \/ Thinned(m2s', m2s)) /\ m2s \in Seq(Frames)
    BY <1>3, LinesType, TailIsThinned, GarbledIsThinned DEF Lose, Garble
  <2>2. Short("bad") \notin Copy(n)
    BY ShortFrames DEF Copy
  <2>3. Count(m2s', Copy(n)) <= Count(m2s, Copy(n))
    BY <1>1, <2>1, <2>2, CountThinned
  <2> QED  BY <1>2, <2>1, <2>3 DEF slave, Due, Done
<1>4. CASE SlaveReads
  <2>1. /\ m2s \in Seq(Frames) /\ m2s # <<>> /\ m2s' \in Rest(m2s) /\ Head(m2s) \in Frames
        /\ Due(n) = 0 /\ UNCHANGED executed
    <3>1. m2s \in Seq(Frames) /\ m2s # <<>> /\ m2s' \in Rest(m2s) /\ UNCHANGED executed
          /\ s_state # "PROCESS_INCOMING_DATA"
      BY <1>4, LinesType DEF SlaveReads, Reading
    <3> QED  BY <3>1, RestOfLine DEF Due
  <2>2. Count(m2s', Copy(n)) + (IF Head(m2s) \in Copy(n) THEN 1 ELSE 0) <= Count(m2s, Copy(n))
    BY <2>1, CountRead
  <2>3. Done(n)' = Done(n)
    BY <2>1 DEF Done
  <2>4. Due(n)' = 1 => Head(m2s) \in Copy(n)
    <3>1. ASSUME s_state' = "PROCESS_INCOMING_DATA"
          PROVE  Head(m2s).func = "user" /\ rxbuffer' = Head(m2s).n
      BY <1>4, <3>1 DEF SlaveReads, Handles, Answers, TakesCommand, Reading
    <3> QED  BY <2>1, <3>1 DEF Due, Copy
  <2> QED  BY <1>1, <2>1, <2>2, <2>3, <2>4 DEF Copies
<1>5. CASE ProcessIncomingData
  <2>1. /\ s_state = "PROCESS_INCOMING_DATA" /\ s_state' = "EXREQRES" /\ m2s' = m2s
        /\ executed \in [n : Nat, times : Nat]
        /\ executed' = IF executed.n = rxbuffer THEN [executed EXCEPT !.times = @ + 1]
                       ELSE [n |-> rxbuffer, times |-> 1]
    BY <1>5 DEF ProcessIncomingData, LinkType
  <2>2. Due(n)' = 0
    BY <2>1 DEF Due
  <2>3. CASE rxbuffer = n
    <3>1. Due(n) = 1
      BY <2>1, <2>3 DEF Due
    <3>2. Done(n)' = Done(n) + 1
      BY <2>1, <2>3 DEF Done
    <3> QED  BY <1>1, <2>1, <2>2, <3>1, <3>2 DEF Copies
  <2>4. CASE rxbuffer # n
    <3>1. Done(n)' = 0
      BY <2>1, <2>4 DEF Done
    <3> QED  BY <1>1, <2>1, <2>2, <3>1 DEF Copies
  <2> QED  BY <2>3, <2>4
<1>6. CASE /\ UNCHANGED <<m2s, rxbuffer, executed>>
           /\ s_state' = s_state \/ {s_state, s_state'} \subseteq
                {"WAITREQSTATUS", "EXREQRES", "MASTERLINKAVAIL"}
  <2>1. Due(n)' = Due(n) /\ Done(n)' = Done(n) /\ m2s' = m2s
    BY <1>6 DEF Due, Done
  <2> QED  BY <1>1, <1>2, <2>1
<1>7. CASE SlaveGivesUp \/ MasterLinkAvail
  <2>1. UNCHANGED <<m2s, rxbuffer, executed>>
    BY <1>7 DEF SlaveGivesUp, MasterLinkAvail
  <2>2. {s_state, s_state'} \subseteq {"WAITREQSTATUS", "EXREQRES", "MASTERLINKAVAIL"}
    BY <1>7 DEF SlaveGivesUp, MasterLinkAvail, Serve, Answers
  <2> QED  BY <1>6, <2>1, <2>2
<1>8. CASE UNCHANGED <<m2s, s_state, rxbuffer, executed>>
  BY <1>6, <1>8
<1> QED
  BY <1>3, <1>4, <1>5, <1>7, <1>8 DEF Next, vars, slave, Command, WaitForReq, ReqLink,
     SlaveLinkAvail, MasterReads, MasterReadsNothing, MakeValue

\* While it sends a command the master keeps it and its count; it starts one afresh.
LEMMA SendingKept ==
  ASSUME LinkType, [Next]_vars
  PROVE  /\ Sending /\ Sending' /\ ~TxOneFrame => UNCHANGED <<txbuffer, Trpcount>>
         /\ Sending' /\ ~Sending => SlaveLinkAvail
<1>1. CASE MasterReads \/ MasterReadsNothing
  <2>1. PICK state : /\ Moves(state)
                     /\ state \in {m_state, "WAITFORREQ", "SLAVELINKAVAIL", "EXRESETLINK"}
    <3>1. CASE MasterReads
      <4>1. Moves(After(Head(s2m).func))
        BY <3>1 DEF MasterReads
      <4>2. After(Head(s2m).func)
              \in {m_state, "WAITFORREQ", "SLAVELINKAVAIL", "EXRESETLINK"}
        BY AfterStates
      <4> QED  BY <4>1, <4>2
    <3>2. CASE MasterReadsNothing
      <4>1. Moves(AfterSilence)
        BY <3>2 DEF MasterReadsNothing
      <4>2. AfterSilence \in {m_state, "WAITFORREQ", "SLAVELINKAVAIL", "EXRESETLINK"}
        BY AfterStates
      <4> QED  BY <4>1, <4>2
    <3> QED  BY <1>1, <3>1, <3>2
  <2>2. m_state' = state /\ (state # "EXRESETLINK" => UNCHANGED <<txbuffer, Trpcount>>)
    BY <2>1 DEF Moves
  <2> QED  BY <2>1, <2>2 DEF Sending
<1>2. CASE WaitForReq \/ ReqLink
  BY <1>2 DEF WaitForReq, ReqLink, Sending
<1>3. CASE SlaveLinkAvail
  BY <1>3 DEF SlaveLinkAvail, Sending
<1>4. CASE TxOneFrame
  BY <1>4 DEF TxOneFrame, Sending
<1>5. CASE UNCHANGED <<m_state, txbuffer, Trpcount>>
  BY <1>5 DEF Sending
<1> QED
  BY <1>1, <1>2, <1>3, <1>4, <1>5 DEF Next, vars, master, Command, MakeValue, SlaveReads,
     SlaveGivesUp, MasterLinkAvail, ProcessIncomingData, Lose, Garble

\* The bound of a command does not sink, unless it is sent for the first time.
LEMMA BoundKept ==
  ASSUME LinkType, SentBounded, [Next]_vars, NEW n \in Nat,
         ~(Sending' /\ ~Sending /\ txbuffer'.n = n), ~TxOneFrame
  PROVE  Bound(n) \in Nat /\ Bound(n)' \in Nat /\ Bound(n) <= Bound(n)'
<1>1. PICK m \in Nat, t \in Nat, s \in Nat, l \in Nat, ll \in Nat, a \in {0, 1} :
        /\ m = TrpMax /\ t = Trpcount /\ s = Stale /\ l = Late /\ ll = Late' /\ a = Awaited
  <2>1. TrpMax \in Nat /\ Trpcount \in Nat /\ Stale \in Nat /\ Late \in Nat /\ Late' \in Nat
        /\ Awaited \in {0, 1}
    BY Bounds, LinesType, StaleType, OutType, LateGrows DEF Awaited
  <2> QED  BY <2>1, Zenon
<1>2. l <= ll
  BY <1>1, LateGrows, Zenon
<1>3. Bound(n) = IF Sending /\ txbuffer.n = n THEN t ELSE m + 1 + l
  BY <1>1, Zenon DEF Bound
<1>4. TrpMax' = TrpMax
  OBVIOUS
<1>5. CASE Sending /\ txbuffer.n = n /\ Sending'
  <2>1. txbuffer' = txbuffer /\ Trpcount' = Trpcount
    BY <1>5, SendingKept
  <2>2. Bound(n)' = t
    BY <1>1, <1>5, <2>1, Zenon DEF Bound
  <2> QED  BY <1>3, <1>5, <2>2
<1>6. CASE Sending /\ txbuffer.n = n /\ ~Sending'
  <2>1. t + s <= m + l + a
    BY <1>1, <1>6, Zenon DEF SentBounded
  <2>2. Bound(n)' = m + 1 + ll
    BY <1>1, <1>6, Zenon DEF Bound
  <2>3. t <= m + 1 + ll
    BY <1>2, <2>1
  <2> QED  BY <1>3, <1>6, <2>2, <2>3
<1>7. CASE ~(Sending /\ txbuffer.n = n)
  <2>1. ~(Sending' /\ txbuffer'.n = n)
    <3>1. CASE Sending /\ Sending'
      <4>1. txbuffer' = txbuffer
        BY <3>1, SendingKept
      <4> QED  BY <1>7, <3>1, <4>1
    <3> QED  BY <3>1
  <2>2. Bound(n)' = m + 1 + ll
    BY <1>1, <2>1, Zenon DEF Bound
  <2> QED  BY <1>2, <1>3, <1>7, <2>2
<1> QED  BY <1>5, <1>6, <1>7

LEMMA NextCopies ==
  ASSUME LinkType, CommandsOrdered, RepeatsInv, [Next]_vars, NEW n \in Nat
  PROVE  Copies(n)' <= Bound(n)'
<1>1. Copies(n) \in Nat /\ Copies(n)' \in Nat /\ Copies(n) <= Bound(n)
  BY CopiesType, CopiesTypeAfter DEF RepeatsInv, CopiesBounded
<1>2. CASE TxOneFrame
  <2>1. /\ m2s' = Append(m2s, txbuffer) /\ UNCHANGED <<m_state, s2m, slave, budget, txbuffer>>
        /\ Trpcount' = Trpcount + 1 /\ m_state \in DOMAIN Sends
    BY <1>2, SendsStates DEF TxOneFrame
  <2>2. m2s \in Seq(Frames) /\ txbuffer \in Frames /\ txbuffer.func = Sends[m_state]
        /\ Trpcount \in Nat
    BY <2>1, LinesType DEF LinkType
  <2>3. txbuffer \in Copy(n) <=> Sending /\ txbuffer.n = n
    BY <2>1, <2>2, SendsStates DEF Copy, Sending
  <2>4. Count(m2s', Copy(n)) = Count(m2s, Copy(n)) + IF txbuffer \in Copy(n) THEN 1 ELSE 0
    BY <2>1, <2>2, CountAppend
  <2>5. Due(n)' = Due(n) /\ Done(n)' = Done(n)
    BY <2>1 DEF slave, Due, Done
  <2>6. Count(m2s, Copy(n)) \in Nat /\ Due(n) \in Nat /\ Done(n) \in Nat
    BY CopiesType
  <2>7. Copies(n)' = Copies(n) + IF txbuffer \in Copy(n) THEN 1 ELSE 0
    BY <2>4, <2>5, <2>6 DEF Copies
  <2>8. Late' = Late /\ Sending' = Sending
    BY <2>1 DEF Late, Sending
  <2>9. Bound(n)' = Bound(n) + IF txbuffer \in Copy(n) THEN 1 ELSE 0
    <3>1. CASE txbuffer \in Copy(n)
      <4>1. Bound(n) = Trpcount /\ Bound(n)' = Trpcount'
        BY <2>1, <2>3, <2>8, <3>1 DEF Bound
      <4> QED  BY <2>1, <3>1, <4>1
    <3>2. CASE txbuffer \notin Copy(n)
      <4>1. Bound(n) = TrpMax + 1 + Late /\ Bound(n)' = TrpMax + 1 + Late
        BY <2>1, <2>3, <2>8, <3>2 DEF Bound
      <4>2. TrpMax \in Nat /\ Late \in Nat
        BY Bounds, OutType
      <4> QED  BY <3>2, <4>1, <4>2
    <3> QED  BY <3>1, <3>2
  <2>10. Bound(n) \in Nat
    BY <2>2, Bounds, OutType DEF Bound
  <2> QED  BY <1>1, <2>7, <2>9, <2>10
<1>3. CASE Sending' /\ ~Sending /\ txbuffer'.n = n
  <2>1. SlaveLinkAvail
    BY <1>3, SendingKept
  <2>2. write_q # <<>> /\ txbuffer'.n = Head(write_q) /\ Trpcount' = 0 /\ ~TxOneFrame
    BY <1>3, <2>1 DEF SlaveLinkAvail, TxOneFrame, Sending, Frame
  <2>3. PICK top \in Nat : Ordered(taken, m2s, top, write_q, commands)
    BY DEF CommandsOrdered
  <2>4. taken \in Nat /\ m2s \in Seq(Frames) /\ write_q \in Seq(Nat) /\ commands \in Nat
    BY DEF LinkType
  <2>5. top < n
    BY <1>3, <2>2, <2>3, <2>4, NextCommandOrdered
  <2>6. Copies(n) = 0
    BY <2>3, <2>5, FreshCommand
  <2>7. Copies(n)' <= Copies(n)
    BY <2>2, CopiesKept
  <2>8. Bound(n)' = 0
    BY <1>3, <2>2 DEF Bound
  <2> QED  BY <1>1, <2>6, <2>7, <2>8
<1>4. CASE ~TxOneFrame /\ ~(Sending' /\ ~Sending /\ txbuffer'.n = n)
  <2>1. Copies(n)' <= Copies(n)
    BY <1>4, CopiesKept
  <2>2. Bound(n) \in Nat /\ Bound(n)' \in Nat /\ Bound(n) <= Bound(n)'
    BY <1>4, BoundKept DEF RepeatsInv
  <2> QED  BY <1>1, <2>1, <2>2
<1> QED  BY <1>2, <1>3, <1>4

LEMMA RepeatsHold == LinkType /\ RepeatsInv => RepeatsBounded
<1> SUFFICES ASSUME LinkType, RepeatsInv PROVE RepeatsBounded
  OBVIOUS
<1>1. PICK n \in Nat : n = executed.n
  BY DEF LinkType
<1>2. Copies(n) <= Bound(n)
  BY DEF RepeatsInv, CopiesBounded
<1>3. PICK m \in Nat, t \in Nat, s \in Nat, l \in Nat, a \in {0, 1} :
        m = TrpMax /\ t = Trpcount /\ s = Stale /\ l = Late /\ a = Awaited
  <2>1. TrpMax \in Nat /\ Trpcount \in Nat /\ Stale \in Nat /\ Late \in Nat /\ Awaited \in {0, 1}
    BY Bounds, LinesType, StaleType, OutType DEF Awaited
  <2> QED  BY <2>1, Zenon
<1>4. Bound(n) \in Nat /\ Bound(n) <= m + 1 + l
  <2>1. CASE Sending /\ txbuffer.n = n
    <3>1. t + s <= m + l + a
      BY <1>3, <2>1, Zenon DEF RepeatsInv, SentBounded
    <3>2. Bound(n) = t
      BY <1>3, <2>1, Zenon DEF Bound
    <3> QED  BY <3>1, <3>2
  <2>2. CASE ~(Sending /\ txbuffer.n = n)
    <3>1. Bound(n) = m + 1 + l
      BY <1>3, <2>2, Zenon DEF Bound
    <3> QED  BY <3>1
  <2> QED  BY <2>1, <2>2
<1>5. Count(m2s, Copy(n)) \in Nat /\ Due(n) \in Nat /\ executed.times \in Nat
      /\ Copies(n) = Count(m2s, Copy(n)) + Due(n) + executed.times
  BY <1>1, CopiesType DEF Copies, Done
<1>6. executed.times <= m + 1 + l
  BY <1>2, <1>4, <1>5
<1> QED  BY <1>3, <1>6, Zenon DEF RepeatsBounded, Late

\* RepeatsBounded: with the commands in order and the lines in step, the copies of a command on
\* the line and in the slave are the ones the master has counted, and an answer taken for the
\* wrong frame uses up a stale one.
THEOREM RepeatsAreBounded == Spec => []RepeatsBounded
<1>1. LinkType /\ CommandsOrdered /\ LockStep /\ RepeatsInv /\ [Next]_vars => RepeatsInv'
  <2> SUFFICES ASSUME LinkType, CommandsOrdered, LockStep, RepeatsInv, [Next]_vars
               PROVE  RepeatsInv'
    OBVIOUS
  <2>1. SentBounded'
    BY NextSent DEF RepeatsInv
  <2>2. CopiesBounded'
    BY NextCopies DEF CopiesBounded
  <2> QED  BY <2>1, <2>2 DEF RepeatsInv
<1> QED
  BY <1>1, InitRepeats, RepeatsHold, LinkTypeHolds, CommandsOrderHolds, LockStepHolds,
     PTL DEF Spec
=============================================================================
