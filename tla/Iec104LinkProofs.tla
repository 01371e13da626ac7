-------------------------- MODULE Iec104LinkProofs --------------------------
(***************************************************************************)
(* Theorems about Iec104Link, for all values of its constants: types, then *)
(* the timers and the buffer slots, then the delivery of ASDUs: sequence   *)
(* numbers, window, and the refinement of AsduTransfer; the order of the   *)
(* send queues; last the timers of both stations together.  For delivery,  *)
(* lemmas about arithmetic modulo Mod and about channels come first, then  *)
(* one lemma per step for the conjuncts of DeliveryInv.  For the timers    *)
(* NextFacts says once what each action does, and each conjunct of T1Inv   *)
(* and T0Inv has a lemma on top of it.                                     *)
(***************************************************************************)
EXTENDS Iec104LinkInv, FiniteSetTheorems, TLAPS

-----------------------------------------------------------------------------
(* Type correctness. *)

\* The remainders of Mod are sequence numbers.
LEMMA ModIsSeqno == \A x \in Int : x % Mod \in Seqno
  BY LinkAssumption, SMT DEF Seqno

LEMMA DurationIsClock == {T0, T1, T2, T3, Off} \subseteq Nat \cup {Off}
  BY LinkAssumption

LEMMA PeerIsStation == \A e \in Station : Peer(e) \in Station /\ Peer(e) # e /\ Peer(Peer(e)) = e
  BY DEF Peer, Station

\* Every process that ends leaves the types alone.
LEMMA ExitType ==
    ASSUME TypeOK, NEW e \in Station, NEW why \in Causes, Exit(e, why)
    PROVE  TypeOK'
<1>1. Peer(e) \in Station  BY PeerIsStation
<1>2. Stopped \in [Timer -> Nat \cup {Off}]  BY DEF Stopped
<1>3. net' \in [Station -> Seq(Frame)]  BY <1>1 DEF TypeOK, Exit
<1>4. timer' \in [Station -> [Timer -> Nat \cup {Off}]]  BY <1>2 DEF TypeOK, Exit
<1> QED  BY <1>3, <1>4 DEF TypeOK, Exit, queues, seqnos, flags

\* The initial values, which every restart brings back.
LEMMA FreshTypes ==
    /\ Zero \in [Station -> Seqno] /\ Zero \in [Station -> Int]
    /\ \A S : None \in [Station -> Seq(S)]
    /\ NoQueues \in [Station -> [Queue -> Seq(Asdu)]]
    /\ NoneMade \in [Station -> [Queue -> Nat]]
    /\ [e \in Station |-> Stopped] \in [Station -> [Timer -> Nat \cup {Off}]]
    /\ [e \in Station |-> TRUE] \in [Station -> BOOLEAN]
    /\ [e \in Station |-> FALSE] \in [Station -> BOOLEAN]
    /\ AllIdle \in [Station -> {"idle", "open"} \cup Causes]
<1>1. 0 \in Seqno  BY LinkAssumption DEF Seqno
<1>2. \A S : <<>> \in Seq(S)  OBVIOUS
<1> QED
  BY <1>1, <1>2 DEF Zero, None, NoQueues, NoneMade, Stopped, AllIdle

LEMMA InitType == Init => TypeOK
  BY FreshTypes, ZenonT(60) DEF TypeOK, Init

LEMMA RestartType == Restart => TypeOK'
<1> SUFFICES ASSUME Restart PROVE TypeOK'
  OBVIOUS
<1>1. /\ link' = AllIdle /\ cut' = FALSE /\ net' = None /\ ackw_q' = None
      /\ stopdt' = [e \in Station |-> TRUE] /\ testfr' = [e \in Station |-> FALSE]
      /\ timer' = [e \in Station |-> Stopped]
      /\ pending' = NoQueues /\ made' = NoneMade
      /\ sent' = None /\ delivered' = None
  BY Zenon DEF Restart
<1>2. vs' = Zero /\ vr' = Zero /\ v_ack' = Zero /\ v_ack_rem' = Zero /\ used' = Zero
  BY Zenon DEF Restart
<1> QED  BY <1>1, <1>2, FreshTypes DEF TypeOK

LEMMA ConnectType == TypeOK /\ (Connect \/ ConnectFails \/ Accept \/ Cut) => TypeOK'
<1> SUFFICES ASSUME TypeOK, Connect \/ ConnectFails \/ Accept \/ Cut PROVE TypeOK'
  OBVIOUS
<1>1. CASE Connect
  <2>1. UFrame("STARTDTACT") \in Frame  BY DEF UFrame, Frame, UFrames, UFunc
  <2>2. net' \in [Station -> Seq(Frame)]  BY <1>1, <2>1 DEF TypeOK, Connect, Station
  <2>3. timer' \in [Station -> [Timer -> Nat \cup {Off}]]
    BY <1>1, DurationIsClock DEF TypeOK, Connect, Station, Timer
  <2> QED  BY <1>1, <2>2, <2>3 DEF TypeOK, Connect, queues, seqnos
<1>2. CASE ConnectFails
  BY <1>2, ExitType DEF ConnectFails, Station, Causes
<1>3. CASE Accept
  BY <1>3 DEF TypeOK, Accept, queues, seqnos
<1>4. CASE Cut
  BY <1>4 DEF TypeOK, Cut, queues, seqnos, flags
<1> QED  BY <1>1, <1>2, <1>3, <1>4

-----------------------------------------------------------------------------
(* Sending. *)

\* Both orders of the send queues name the two queues.
LEMMA SendOrderQueues == SendOrder[1] = "high" /\ SendOrder[2] = "spont"
  BY DEF SendOrder

LEMMA CanQueueType == TypeOK => \A e \in Station : can_queue(e) \in Int
<1> SUFFICES ASSUME TypeOK, NEW e \in Station PROVE can_queue(e) \in Int
  OBVIOUS
<1>1. vs[e] - v_ack[e] + Mod \in Int  BY LinkAssumption DEF TypeOK, Seqno
<1> QED  BY <1>1, ModIsSeqno, LinkAssumption DEF can_queue, Dist, Seqno

\* A run of the send queues takes no more than waits in them or fits the window.
LEMMA SendCountBound ==
    ASSUME TypeOK, NEW e \in Station
    PROVE  /\ ToSend(e) \in Seq(Asdu)
           /\ Len(ToSend(e)) = Len(pending[e]["high"]) + Len(pending[e]["spont"])
           /\ SendCount(e) \in Int
           /\ SendCount(e) <= Len(ToSend(e)) /\ SendCount(e) <= can_queue(e)
<1>1. pending[e]["high"] \in Seq(Asdu) /\ pending[e]["spont"] \in Seq(Asdu)
  BY DEF TypeOK, Queue
<1>2. /\ ToSend(e) \in Seq(Asdu)
      /\ Len(ToSend(e)) = Len(pending[e]["high"]) + Len(pending[e]["spont"])
  BY <1>1, SendOrderQueues DEF ToSend
<1>3. can_queue(e) \in Int  BY CanQueueType
<1>4. \A a, b \in Int : Least(a, b) \in Int /\ Least(a, b) <= a /\ Least(a, b) <= b
  BY DEF Least
<1>5. Batch \in Int /\ Len(ToSend(e)) \in Int  BY <1>2, LinkAssumption
<1>6. PICK fits \in Int : fits = Least(Batch, Len(ToSend(e))) /\ fits <= Len(ToSend(e))
  BY <1>4, <1>5
<1>7. SendCount(e) = Least(fits, can_queue(e))  BY <1>6 DEF SendCount
<1>8. SendCount(e) \in Int /\ SendCount(e) <= fits /\ SendCount(e) <= can_queue(e)
  BY <1>3, <1>4, <1>7
<1>9. SendCount(e) <= Len(ToSend(e))  BY <1>5, <1>6, <1>8
<1> QED  BY <1>2, <1>8, <1>9

\* What a run leaves of a queue is a suffix of it.
LEMMA RestType ==
    ASSUME NEW S, NEW q \in Seq(S), NEW p \in Nat, NEW n \in Nat
    PROVE  /\ Rest(q, p, n) \in Seq(S)
           /\ Len(Rest(q, p, n)) = IF n <= p THEN Len(q)
                                   ELSE IF n - p <= Len(q) THEN Len(q) - (n - p) ELSE 0
  BY DEF Rest, Least

LEMMA SubmitType == \A e \in Station, q \in Queue : TypeOK /\ Submit(e, q) => TypeOK'
<1> SUFFICES ASSUME NEW e \in Station, NEW q \in Queue, TypeOK, Submit(e, q) PROVE TypeOK'
  OBVIOUS
<1>1. <<q, made[e][q] + 1>> \in Asdu  BY DEF TypeOK, Asdu
<1>2. pending' \in [Station -> [Queue -> Seq(Asdu)]]
  <2>1. Append(pending[e][q], <<q, made[e][q] + 1>>) \in Seq(Asdu)  BY <1>1 DEF TypeOK
  <2>2. pending' = [pending EXCEPT ![e][q] = Append(pending[e][q], <<q, made[e][q] + 1>>)]
    BY DEF Submit, TAILQ_INSERT_TAIL
  <2>3. pending \in [Station -> [Queue -> Seq(Asdu)]]  BY DEF TypeOK
  <2> QED  BY <2>1, <2>2, <2>3
<1>3. made' \in [Station -> [Queue -> Nat]] /\ used' \in [Station -> Int]
  BY DEF TypeOK, Submit
<1> QED  BY <1>2, <1>3 DEF TypeOK, Submit, session, seqnos, flags

\* The frames, acknowledgement entries and ASDUs of a run of the send queues.
LEMMA RunFrames ==
    ASSUME TypeOK, NEW e \in Station, NEW n \in Nat, NEW q \in Seq(Asdu), n <= Len(q)
    PROVE  /\ [i \in 1..n |-> IFrame(e, q, i)] \in Seq(Frame)
           /\ [i \in 1..n |-> Plus(vs[e], i - 1)] \in Seq(Seqno)
           /\ SubSeq(q, 1, n) \in Seq(Asdu)
           /\ Plus(vs[e], n) \in Seqno
<1>1. ASSUME NEW i \in Nat PROVE Plus(vs[e], i) \in Seqno
  <2>1. vs[e] + i \in Int  BY LinkAssumption DEF TypeOK, Seqno
  <2> QED  BY <2>1, ModIsSeqno DEF Plus
<1>2. ASSUME NEW i \in 1..n PROVE IFrame(e, q, i) \in IFrames
  <2>1. (vs[e] + i - 1) \in Int  BY LinkAssumption DEF TypeOK, Seqno
  <2>2. (vs[e] + i - 1) % Mod \in Seqno  BY <2>1, ModIsSeqno
  <2>3. q[i] \in Asdu  OBVIOUS
  <2>4. Len(sent[e]) + i \in Nat /\ Len(delivered[e]) \in Nat  BY DEF TypeOK
  <2>5. vr[e] \in Seqno  BY DEF TypeOK
  <2> QED  BY <2>2, <2>3, <2>4, <2>5 DEF IFrame, IFrames
<1>3. [i \in 1..n |-> IFrame(e, q, i)] \in Seq(Frame)  BY <1>2 DEF Frame
<1>4. [i \in 1..n |-> Plus(vs[e], i - 1)] \in Seq(Seqno)  BY <1>1
<1> QED  BY <1>1, <1>3, <1>4

LEMMA RunSendQueuesType == \A e \in Station : TypeOK /\ RunSendQueues(e) => TypeOK'
<1> SUFFICES ASSUME NEW e \in Station, TypeOK, RunSendQueues(e) PROVE TypeOK'
  OBVIOUS
<1> DEFINE n == SendCount(e)
           q == ToSend(e)
           p == Len(pending[e][SendOrder[1]])
<1>1. /\ n \in Nat /\ q \in Seq(Asdu) /\ n <= Len(q) /\ p \in Nat
  <2>1. pending[e]["high"] \in Seq(Asdu)  BY DEF TypeOK, Queue
  <2>2. n > 0  BY DEF RunSendQueues
  <2>3. q \in Seq(Asdu) /\ n \in Int /\ n <= Len(q)  BY SendCountBound
  <2>4. p \in Nat  BY <2>1, SendOrderQueues
  <2> QED  BY <2>2, <2>3, <2>4
<1> HIDE DEF n, q, p
<1>2. /\ [i \in 1..n |-> IFrame(e, q, i)] \in Seq(Frame)
      /\ [i \in 1..n |-> Plus(vs[e], i - 1)] \in Seq(Seqno)
      /\ SubSeq(q, 1, n) \in Seq(Asdu)
      /\ Plus(vs[e], n) \in Seqno
  BY <1>1, RunFrames
<1>3. pending' \in [Station -> [Queue -> Seq(Asdu)]]
  <2>1. /\ pending[e]["high"] \in Seq(Asdu) /\ pending[e]["spont"] \in Seq(Asdu)
    BY DEF TypeOK, Queue
  <2>2. /\ Rest(pending[e]["high"], 0, n) \in Seq(Asdu)
        /\ Rest(pending[e]["spont"], p, n) \in Seq(Asdu)
    BY <2>1, <1>1, RestType
  <2>3. pending' = [pending EXCEPT ![e]["high"] = Rest(@, 0, n), ![e]["spont"] = Rest(@, p, n)]
    BY SendOrderQueues DEF RunSendQueues, n, q, p
  <2> QED  BY <2>2, <2>3 DEF TypeOK, Queue
<1>4. /\ net' = [net EXCEPT ![e] = @ \o [i \in 1..n |-> IFrame(e, q, i)]]
      /\ ackw_q' = [ackw_q EXCEPT ![e] = @ \o [i \in 1..n |-> Plus(vs[e], i - 1)]]
      /\ vs' = [vs EXCEPT ![e] = Plus(@, n)]
      /\ sent' = [sent EXCEPT ![e] = @ \o SubSeq(q, 1, n)]
      /\ timer' = [timer EXCEPT ![e]["t1"] = T1]
  BY DEF RunSendQueues, n, q
<1>5. net' \in [Station -> Seq(Frame)]  BY <1>2, <1>4 DEF TypeOK
<1>6. ackw_q' \in [Station -> Seq(Seqno)]  BY <1>2, <1>4 DEF TypeOK
<1>7. sent' \in [Station -> Seq(Asdu)] /\ vs' \in [Station -> Seqno]  BY <1>2, <1>4 DEF TypeOK
<1>8. timer' \in [Station -> [Timer -> Nat \cup {Off}]]
  BY <1>4, DurationIsClock DEF TypeOK, Timer
<1> QED
  BY <1>3, <1>5, <1>6, <1>7, <1>8 DEF TypeOK, RunSendQueues, session, flags

-----------------------------------------------------------------------------
(* Receiving. *)

\* Dropping acknowledged frames leaves a suffix of the queue.
LEMMA AfterAckType ==
    ASSUME NEW S, NEW q \in Seq(S), NEW nr
    PROVE  /\ Dropped(q, nr) \in 0..Len(q)
           /\ AfterAck(q, nr) \in Seq(S)
           /\ Len(AfterAck(q, nr)) = Len(q) - Dropped(q, nr)
<1> DEFINE D == {i \in 1..Len(q) : \A j \in 1..i : q[j] # nr}
<1>1. Len(q) \in Nat  OBVIOUS
<1>2. IsFiniteSet(1..Len(q)) /\ Cardinality(1..Len(q)) = Len(q)
  BY <1>1, FS_Interval, SMTT(30)
<1>3. D \subseteq 1..Len(q)  OBVIOUS
<1>4. IsFiniteSet(D) /\ Cardinality(D) <= Len(q)  BY <1>2, <1>3, FS_Subset
<1>5. Cardinality(D) \in Nat  BY <1>4, FS_CardinalityType
<1>6. Dropped(q, nr) \in 0..Len(q)  BY <1>1, <1>4, <1>5 DEF Dropped
<1> QED  BY <1>6 DEF AfterAck

LEMMA HeardType ==
    ASSUME TypeOK, NEW e \in Station, NEW nr
    PROVE  /\ Heard(e) \in [Timer -> Nat \cup {Off}]
           /\ TimersAfterI(e, nr) \in [Timer -> Nat \cup {Off}]
           /\ TimersAfterTest(e) \in [Timer -> Nat \cup {Off}]
           /\ [Heard(e) EXCEPT !["t1"] = T1After(e, nr)] \in [Timer -> Nat \cup {Off}]
           /\ [Heard(e) EXCEPT !["t1"] = Off] \in [Timer -> Nat \cup {Off}]
<1>1. timer[e] \in [Timer -> Nat \cup {Off}]  BY DEF TypeOK
<1>2. Heard(e) \in [Timer -> Nat \cup {Off}]
  BY <1>1, DurationIsClock DEF Heard, Timer
<1>3. T1After(e, nr) \in Nat \cup {Off}  BY <1>1 DEF T1After, Timer
<1> QED  BY <1>2, <1>3, DurationIsClock DEF TimersAfterI, TimersAfterTest, Timer

LEMMA AnswerType ==
    ASSUME TypeOK, NEW e \in Station, Receivable(e), NEW out \in Seq(Frame)
    PROVE  /\ Answer(e, out) \in [Station -> Seq(Frame)]
           /\ Incoming(e) \in Frame
<1>1. Peer(e) \in Station /\ Peer(e) # e  BY PeerIsStation
<1>2. net[Peer(e)] \in Seq(Frame) /\ net[Peer(e)] # <<>> /\ net[e] \in Seq(Frame)
  BY <1>1 DEF TypeOK, Receivable
<1>3. Tail(net[Peer(e)]) \in Seq(Frame) /\ Head(net[Peer(e)]) \in Frame  BY <1>2
<1>4. net[e] \o out \in Seq(Frame)  BY <1>2
<1> QED  BY <1>1, <1>3, <1>4 DEF TypeOK, Answer, Incoming

\* What the kind of the incoming frame says of its fields.
LEMMA IncomingFields ==
    ASSUME TypeOK, NEW e \in Station
    PROVE  /\ Gets(e, "I") => Incoming(e) \in IFrames
           /\ Gets(e, "S") => Incoming(e) \in SFrames
<1> SUFFICES ASSUME Receivable(e), NEW kind \in {"I", "S"}, Incoming(e).kind = kind
             PROVE  /\ kind = "I" => Incoming(e) \in IFrames
                    /\ kind = "S" => Incoming(e) \in SFrames
  BY DEF Gets
<1>1. Incoming(e) \in Frame
  <2>1. <<>> \in Seq(Frame)  OBVIOUS
  <2> QED  BY <2>1, AnswerType
<1> QED  BY <1>1 DEF Frame, IFrames, SFrames, UFrames, UFunc

LEMMA AcknowledgeType ==
    ASSUME TypeOK, NEW e \in Station, NEW nr \in Seqno, Acknowledge(e, nr)
    PROVE  /\ ackw_q' \in [Station -> Seq(Seqno)]
           /\ used' \in [Station -> Int]
           /\ v_ack' \in [Station -> Seqno]
<1>1. ackw_q[e] \in Seq(Seqno)  BY DEF TypeOK
<1>2. AfterAck(ackw_q[e], nr) \in Seq(Seqno) /\ Freed(e, nr) \in Int
  BY <1>1, AfterAckType DEF Freed
<1>3. used[e] - Freed(e, nr) \in Int  BY <1>2 DEF TypeOK
<1> QED  BY <1>2, <1>3 DEF TypeOK, Acknowledge

LEMMA TakeIType ==
    ASSUME TypeOK, NEW e \in Station, Gets(e, "I"), TakeI(e)
    PROVE  TypeOK'
<1> DEFINE f == Incoming(e)
           next == Plus(vr[e], 1)
           ackn == [kind |-> "S", nr |-> next, ack |-> Len(delivered[e]) + 1]
           out == IF OwesAck(e) THEN <<ackn>> ELSE <<>>
<1>1. f.nr \in Seqno /\ f.asdu \in Asdu  BY IncomingFields DEF IFrames
<1>2. next \in Seqno
  <2>1. vr[e] + 1 \in Int  BY LinkAssumption DEF TypeOK, Seqno
  <2> QED  BY <2>1, ModIsSeqno DEF Plus
<1>3. out \in Seq(Frame)
  <2>1. Len(delivered[e]) + 1 \in Nat  BY DEF TypeOK
  <2>2. ackn \in Frame  BY <1>2, <2>1 DEF Frame, SFrames
  <2> QED  BY <2>2
<1>4. Receivable(e)  BY DEF Gets
<1>5. net' \in [Station -> Seq(Frame)]
  <2>1. net' = Answer(e, out)  BY DEF TakeI
  <2> QED  BY <1>3, <1>4, <2>1, AnswerType
<1>6. timer' \in [Station -> [Timer -> Nat \cup {Off}]]
  <2>1. timer' = [timer EXCEPT ![e] = TimersAfterI(e, f.nr)]  BY DEF TakeI
  <2> QED  BY <2>1, HeardType DEF TypeOK
<1>7. ackw_q' \in [Station -> Seq(Seqno)] /\ used' \in [Station -> Int]
      /\ v_ack' \in [Station -> Seqno]
  <2>1. Acknowledge(e, f.nr)  BY DEF TakeI
  <2> QED  BY <1>1, <2>1, AcknowledgeType
<1>8. vr' \in [Station -> Seqno] /\ v_ack_rem' \in [Station -> Seqno]
  BY <1>2 DEF TypeOK, TakeI
<1>9. delivered' \in [Station -> Seq(Asdu)]
  <2>1. delivered' = [delivered EXCEPT ![e] = Append(@, f.asdu)]  BY DEF TakeI
  <2> QED  BY <1>1, <2>1 DEF TypeOK
<1> QED
  BY <1>5, <1>6, <1>7, <1>8, <1>9 DEF TypeOK, TakeI, session, flags

LEMMA DropType ==
    ASSUME TypeOK, NEW e \in Station, Receivable(e), Drop(e)
    PROVE  TypeOK'
<1>1. net' \in [Station -> Seq(Frame)]
  <2>1. <<>> \in Seq(Frame)  OBVIOUS
  <2> QED  BY <2>1, AnswerType DEF Drop
<1>2. timer' \in [Station -> [Timer -> Nat \cup {Off}]]  BY HeardType DEF Drop, TypeOK
<1> QED  BY <1>1, <1>2 DEF TypeOK, Drop, session, queues, seqnos, flags

LEMMA TakeSType ==
    ASSUME TypeOK, NEW e \in Station, Gets(e, "S"), TakeS(e)
    PROVE  TypeOK'
<1>1. Incoming(e).nr \in Seqno  BY IncomingFields DEF SFrames
<1>2. net' \in [Station -> Seq(Frame)]
  <2>1. <<>> \in Seq(Frame)  OBVIOUS
  <2> QED  BY <2>1, AnswerType DEF TakeS, Gets
<1>3. timer' \in [Station -> [Timer -> Nat \cup {Off}]]  BY HeardType DEF TakeS, TypeOK
<1>4. ackw_q' \in [Station -> Seq(Seqno)] /\ used' \in [Station -> Int]
      /\ v_ack' \in [Station -> Seqno]
  BY <1>1, AcknowledgeType DEF TakeS
<1> QED  BY <1>2, <1>3, <1>4 DEF TypeOK, TakeS, session, flags

LEMMA ReceiveType == \A e \in Station : TypeOK /\ Receive(e) => TypeOK'
<1> SUFFICES ASSUME NEW e \in Station, TypeOK, Receive(e) PROVE TypeOK'
  OBVIOUS
<1>1. ASSUME NEW func \in UFunc PROVE <<UFrame(func)>> \in Seq(Frame)
  BY <1>1 DEF UFrame, Frame, UFrames
<1>2. CASE RecvI(e)
  BY <1>2, ExitType, DropType, TakeIType DEF RecvI, Gets, Causes
<1>3. CASE RecvS(e)
  BY <1>3, ExitType, TakeSType DEF RecvS, Causes
<1>4. CASE RecvStartAct(e)
  <2>1. CASE Start(e, <<UFrame("STARTDTCON")>>, Heard(e))
    <3>1. <<UFrame("STARTDTCON")>> \in Seq(Frame) /\ Receivable(e)
      BY <1>1, <1>4 DEF UFunc, RecvStartAct, Gets
    <3>2. net' \in [Station -> Seq(Frame)]  BY <2>1, <3>1, AnswerType DEF Start
    <3>3. timer' \in [Station -> [Timer -> Nat \cup {Off}]]
      BY <2>1, HeardType DEF Start, TypeOK
    <3> QED  BY <2>1, <3>2, <3>3 DEF TypeOK, Start, session, queues, seqnos
  <2> QED  BY <1>4, <2>1, ExitType DEF RecvStartAct, Causes
<1>5. CASE RecvStartCon(e)
  <2>1. CASE Start(e, <<>>, [Heard(e) EXCEPT !["t1"] = Off])
    <3>1. <<>> \in Seq(Frame) /\ Receivable(e)  BY <1>5 DEF RecvStartCon, Gets
    <3>2. net' \in [Station -> Seq(Frame)]  BY <2>1, <3>1, AnswerType DEF Start
    <3>3. timer' \in [Station -> [Timer -> Nat \cup {Off}]]
      BY <2>1, HeardType DEF Start, TypeOK
    <3> QED  BY <2>1, <3>2, <3>3 DEF TypeOK, Start, session, queues, seqnos
  <2> QED  BY <1>5, <2>1, ExitType DEF RecvStartCon, Causes
<1>6. CASE RecvTestAct(e)
  <2>1. <<UFrame("TESTFRCON")>> \in Seq(Frame) /\ Receivable(e)
    BY <1>1, <1>6 DEF UFunc, RecvTestAct, Gets
  <2>2. net' \in [Station -> Seq(Frame)]  BY <1>6, <2>1, AnswerType DEF RecvTestAct
  <2>3. timer' \in [Station -> [Timer -> Nat \cup {Off}]]
    BY <1>6, HeardType DEF RecvTestAct, TypeOK
  <2> QED  BY <1>6, <2>2, <2>3 DEF TypeOK, RecvTestAct, session, queues, seqnos, flags
<1>7. CASE RecvTestCon(e)
  <2>1. CASE Tested(e)
    <3>1. <<>> \in Seq(Frame) /\ Receivable(e)  BY <1>7 DEF RecvTestCon, Gets
    <3>2. net' \in [Station -> Seq(Frame)]  BY <2>1, <3>1, AnswerType DEF Tested
    <3>3. timer' \in [Station -> [Timer -> Nat \cup {Off}]]
      BY <2>1, HeardType DEF Tested, TypeOK
    <3> QED  BY <2>1, <3>2, <3>3 DEF TypeOK, Tested, session, queues, seqnos
  <2> QED  BY <1>7, <2>1, ExitType DEF RecvTestCon, Causes
<1> QED  BY <1>2, <1>3, <1>4, <1>5, <1>6, <1>7 DEF Receive

-----------------------------------------------------------------------------
(* Timers, and the theorem. *)

LEMMA TimerType ==
    \A e \in Station :
        TypeOK /\ (T0Expire(e) \/ T1Expire(e) \/ T2Expire(e) \/ T3Expire(e)) => TypeOK'
<1> SUFFICES ASSUME NEW e \in Station, TypeOK,
                    T0Expire(e) \/ T1Expire(e) \/ T2Expire(e) \/ T3Expire(e)
             PROVE  TypeOK'
  OBVIOUS
<1>1. CASE T0Expire(e)  BY <1>1, ExitType DEF T0Expire, Causes
<1>2. CASE T1Expire(e)  BY <1>2, ExitType DEF T1Expire, Causes
<1>3. CASE T2Expire(e)
  <2>1. SFrame(e) \in Frame  BY DEF SFrame, Frame, SFrames, TypeOK
  <2>2. net' \in [Station -> Seq(Frame)]  BY <1>3, <2>1 DEF T2Expire, TypeOK
  <2>3. timer' \in [Station -> [Timer -> Nat \cup {Off}]]
    BY <1>3 DEF T2Expire, TypeOK, Timer
  <2>4. v_ack_rem' \in [Station -> Seqno]  BY <1>3 DEF T2Expire, TypeOK
  <2> QED  BY <1>3, <2>2, <2>3, <2>4 DEF TypeOK, T2Expire, session, queues, flags
<1>4. CASE T3Expire(e)
  <2>1. UFrame("TESTFRACT") \in Frame  BY DEF UFrame, Frame, UFrames, UFunc
  <2>2. net' \in [Station -> Seq(Frame)]  BY <1>4, <2>1 DEF T3Expire, TypeOK
  <2>3. timer' \in [Station -> [Timer -> Nat \cup {Off}]]
    BY <1>4, DurationIsClock DEF T3Expire, TypeOK, Timer
  <2> QED  BY <1>4, <2>2, <2>3 DEF TypeOK, T3Expire, session, queues, seqnos
<1> QED  BY <1>1, <1>2, <1>3, <1>4

LEMMA TickType == TypeOK /\ Tick => TypeOK'
<1> SUFFICES ASSUME TypeOK, Tick PROVE TypeOK'  OBVIOUS
<1>1. timer' \in [Station -> [Timer -> Nat \cup {Off}]]  BY DEF TypeOK, Tick, Off
<1> QED  BY <1>1 DEF TypeOK, Tick, session, queues, seqnos, flags

LEMMA StutterType == TypeOK /\ UNCHANGED vars => TypeOK'
  BY DEF TypeOK, vars, session, queues, seqnos, flags

LEMMA NextType == TypeOK /\ [Next]_vars => TypeOK'
<1> SUFFICES ASSUME TypeOK, Next PROVE TypeOK'  BY StutterType
<1>1. CASE \E e \in Station : Step(e)
  <2>1. PICK e \in Station : Step(e)  BY <1>1
  <2>2. CASE PeerGone(e)  BY <2>2, ExitType DEF PeerGone, Causes
  <2>3. CASE RunSendQueues(e)  BY <2>3, RunSendQueuesType
  <2>4. CASE Receive(e)  BY <2>4, ReceiveType
  <2>5. CASE T0Expire(e) \/ T1Expire(e) \/ T2Expire(e) \/ T3Expire(e)
    BY <2>5, TimerType
  <2>6. CASE \E q \in Queue : Submit(e, q)  BY <2>6, SubmitType
  <2>7. CASE \E q \in Queue : PoolExhausted(e, q)
    BY <2>7, ExitType DEF PoolExhausted, Causes
  <2> QED  BY <2>1, <2>2, <2>3, <2>4, <2>5, <2>6, <2>7 DEF Step
<1> QED  BY <1>1, ConnectType, RestartType, TickType DEF Next

\* TypeCorrect: in every reachable state every field of the two iecsock and
\* every queue and frame has its type; sequence numbers never leave 0..Mod-1.
THEOREM TypeCorrect == Spec => []TypeOK
  BY InitType, NextType, PTL DEF Spec

-----------------------------------------------------------------------------
(* StartedIsSupervised. *)

\* A process that ends leaves the timers of the other one alone.
LEMMA ExitSupervised ==
    ASSUME TypeOK, StartedIsSupervised, NEW e \in Station, NEW why \in Causes, Exit(e, why)
    PROVE  StartedIsSupervised'
<1> SUFFICES ASSUME NEW d \in Station, Active(d)'
             PROVE  \E t \in {"t0", "t1", "t3"} : timer'[d][t] # Off
  BY DEF StartedIsSupervised, Running
<1>1. link'[d] = "open" /\ ~stopdt[d]  BY DEF Exit, Active, flags
<1>2. d # e  BY <1>1 DEF TypeOK, Exit, Causes
<1>3. timer'[d] = timer[d] /\ link[d] = "open"  BY <1>1, <1>2 DEF TypeOK, Exit
<1> QED  BY <1>1, <1>3 DEF StartedIsSupervised, Running, Active

\* A step of e that leaves the connection and the data transfer of the other
\* station alone, and e with one of the three timers running.
LEMMA OwnTimers ==
    ASSUME TypeOK, StartedIsSupervised, NEW e \in Station, UNCHANGED link,
           NEW timers \in [Timer -> Nat \cup {Off}],
           timer' = [timer EXCEPT ![e] = timers],
           \E t \in {"t0", "t1", "t3"} : timers[t] # Off,
           \A d \in Station \ {e} : stopdt'[d] = stopdt[d]
    PROVE  StartedIsSupervised'
<1> SUFFICES ASSUME NEW d \in Station, Active(d)'
             PROVE  \E t \in {"t0", "t1", "t3"} : timer'[d][t] # Off
  BY DEF StartedIsSupervised, Running
<1>1. CASE d = e  BY <1>1 DEF TypeOK
<1>2. CASE d # e
  <2>1. Active(d) /\ timer'[d] = timer[d]  BY <1>2 DEF TypeOK, Active
  <2> QED  BY <2>1 DEF StartedIsSupervised, Running
<1> QED  BY <1>1, <1>2

\* Whatever a frame does to the timers, one of T0 and T3 runs after it.
LEMMA FramesSupervise ==
    ASSUME TypeOK, NEW e \in Station, NEW nr
    PROVE  /\ Heard(e)["t3"] # Off
           /\ TimersAfterI(e, nr)["t3"] # Off
           /\ [Heard(e) EXCEPT !["t1"] = T1After(e, nr)]["t3"] # Off
           /\ [Heard(e) EXCEPT !["t1"] = Off]["t3"] # Off
           /\ \E t \in {"t0", "t3"} : TimersAfterTest(e)[t] # Off
<1>1. T0 # Off /\ T3 # Off  BY LinkAssumption DEF Off
<1>2. timer[e] \in [Timer -> Nat \cup {Off}]  BY DEF TypeOK
<1>3. Heard(e) \in [Timer -> Nat \cup {Off}] /\ Heard(e)["t3"] = T3
  BY <1>2, HeardType DEF Heard, Timer
<1>4. TimersAfterI(e, nr)["t3"] = T3  BY <1>3 DEF TimersAfterI, Timer
<1>5. \E t \in {"t0", "t3"} : TimersAfterTest(e)[t] # Off
  BY <1>1, <1>3 DEF TimersAfterTest, Timer
<1> QED  BY <1>1, <1>3, <1>4, <1>5 DEF Timer

LEMMA ReceiveSupervised ==
    ASSUME TypeOK, StartedIsSupervised, NEW e \in Station, Receive(e)
    PROVE  StartedIsSupervised'
<1> DEFINE nr == Incoming(e).nr
<1>1. ASSUME NEW timers \in {Heard(e), TimersAfterI(e, nr), TimersAfterTest(e),
                             [Heard(e) EXCEPT !["t1"] = T1After(e, nr)],
                             [Heard(e) EXCEPT !["t1"] = Off]},
             timer' = [timer EXCEPT ![e] = timers], UNCHANGED link,
             \A d \in Station \ {e} : stopdt'[d] = stopdt[d]
      PROVE  StartedIsSupervised'
  <2>1. timers \in [Timer -> Nat \cup {Off}]  BY HeardType
  <2>2. \E t \in {"t0", "t1", "t3"} : timers[t] # Off  BY FramesSupervise
  <2> QED  BY <1>1, <2>1, <2>2, OwnTimers
<1>2. CASE \E why \in Causes : Exit(e, why)  BY <1>2, ExitSupervised
<1>3. CASE RecvI(e)
  <2>1. CASE Drop(e)  BY <1>1, <2>1 DEF Drop, session, flags
  <2>2. CASE TakeI(e)  BY <1>1, <2>2 DEF TakeI, session, flags
  <2> QED  BY <1>2, <1>3, <2>1, <2>2 DEF RecvI, Causes
<1>4. CASE RecvS(e)
  <2>1. CASE TakeS(e)  BY <1>1, <2>1 DEF TakeS, session, flags
  <2> QED  BY <1>2, <1>4, <2>1 DEF RecvS, Causes
<1>5. CASE RecvStartAct(e)
  <2>1. CASE Start(e, <<UFrame("STARTDTCON")>>, Heard(e))
    BY <1>1, <2>1 DEF Start, session, TypeOK
  <2> QED  BY <1>2, <1>5, <2>1 DEF RecvStartAct, Causes
<1>6. CASE RecvStartCon(e)
  <2>1. CASE Start(e, <<>>, [Heard(e) EXCEPT !["t1"] = Off])
    BY <1>1, <2>1 DEF Start, session, TypeOK
  <2> QED  BY <1>2, <1>6, <2>1 DEF RecvStartCon, Causes
<1>7. CASE RecvTestAct(e)  BY <1>1, <1>7 DEF RecvTestAct, session, flags
<1>8. CASE RecvTestCon(e)
  <2>1. CASE Tested(e)  BY <1>1, <2>1 DEF Tested, session
  <2> QED  BY <1>2, <1>8, <2>1 DEF RecvTestCon, Causes
<1> QED  BY <1>3, <1>4, <1>5, <1>6, <1>7, <1>8 DEF Receive

LEMMA NextSupervised == TypeOK /\ StartedIsSupervised /\ [Next]_vars => StartedIsSupervised'
<1> SUFFICES ASSUME TypeOK, StartedIsSupervised, [Next]_vars PROVE StartedIsSupervised'
  OBVIOUS
<1>1. CASE UNCHANGED <<link, stopdt, timer>>
  BY <1>1 DEF StartedIsSupervised, Active, Running
<1>2. CASE \E e \in Station, why \in Causes : Exit(e, why)  BY <1>2, ExitSupervised
<1>3. CASE Connect
  \* Connect stops the data transfer of the master; the slave is idle.
  BY <1>3 DEF Connect, StartedIsSupervised, Active, Station, TypeOK
<1>4. CASE Accept
  BY <1>4 DEF Accept, StartedIsSupervised, Active, Running, Station, TypeOK
<1>5. CASE Restart
  BY <1>5 DEF Restart, StartedIsSupervised, Active, AllIdle
<1>6. CASE Tick
  <2>1. \A e \in Station, t \in Timer : timer[e][t] # Off => timer'[e][t] # Off
    BY <1>6 DEF Tick, TypeOK, Off
  <2>2. {"t0", "t1", "t3"} \subseteq Timer  BY DEF Timer
  <2> QED  BY <1>6, <2>1, <2>2 DEF Tick, session, flags, StartedIsSupervised, Active, Running
<1>7. ASSUME NEW e \in Station, RunSendQueues(e) PROVE StartedIsSupervised'
  <2>1. timer' = [timer EXCEPT ![e] = [timer[e] EXCEPT !["t1"] = T1]]
    BY <1>7 DEF RunSendQueues, TypeOK
  <2>2. timer[e] \in [Timer -> Nat \cup {Off}]  BY DEF TypeOK
  <2>3. [timer[e] EXCEPT !["t1"] = T1] \in [Timer -> Nat \cup {Off}]
    BY <2>2, DurationIsClock DEF Timer
  <2>4. [timer[e] EXCEPT !["t1"] = T1]["t1"] # Off  BY <2>2, LinkAssumption DEF Timer, Off
  <2> QED  BY <1>7, <2>1, <2>3, <2>4, OwnTimers DEF RunSendQueues, session, flags
<1>8. ASSUME NEW e \in Station, T2Expire(e) PROVE StartedIsSupervised'
  <2>1. \A d \in Station, t \in {"t0", "t1", "t3"} : timer'[d][t] = timer[d][t]
    BY <1>8 DEF T2Expire, TypeOK, Timer
  <2> QED  BY <1>8, <2>1 DEF T2Expire, session, flags, StartedIsSupervised, Active, Running
<1>9. ASSUME NEW e \in Station, T3Expire(e) PROVE StartedIsSupervised'
  <2> DEFINE timers == [timer[e] EXCEPT !["t3"] = Off, !["t1"] = T1]
  <2>1. timer' = [timer EXCEPT ![e] = timers]  BY <1>9 DEF T3Expire, TypeOK
  <2>2. timer[e] \in [Timer -> Nat \cup {Off}]  BY DEF TypeOK
  <2>3. timers \in [Timer -> Nat \cup {Off}]  BY <2>2, DurationIsClock DEF Timer
  <2>4. timers["t1"] # Off  BY <2>2, LinkAssumption DEF Timer, Off
  <2> QED  BY <1>9, <2>1, <2>3, <2>4, OwnTimers DEF T3Expire, session
<1>10. CASE \E e \in Station : Receive(e)  BY <1>10, ReceiveSupervised
<1>11. CASE \E e \in Station, q \in Queue : Submit(e, q)
  BY <1>1, <1>11 DEF Submit, session, flags
<1>12. CASE Cut  BY <1>1, <1>12 DEF Cut, flags
<1>13. CASE UNCHANGED vars  BY <1>1, <1>13 DEF vars, session, flags
<1>14. CASE \E e \in Station : PeerGone(e) \/ T0Expire(e) \/ T1Expire(e)
                              \/ \E q \in Queue : PoolExhausted(e, q)
  BY <1>2, <1>14 DEF PeerGone, T0Expire, T1Expire, PoolExhausted, Causes
<1>15. CASE ConnectFails
  BY <1>2, <1>15 DEF ConnectFails, Causes, Station
<1> QED
  BY <1>3, <1>4, <1>5, <1>6, <1>7, <1>8, <1>9, <1>10, <1>11, <1>12, <1>13, <1>14, <1>15
  DEF Next, Step

\* Supervised: a station whose data transfer has started always has T0, T1 or T3
\* running, so silence of the peer ends in a test frame or in the connection's end.
THEOREM Supervised == Spec => []StartedIsSupervised
<1>1. Init => StartedIsSupervised  BY DEF Init, StartedIsSupervised, Active, AllIdle
<1> QED  BY <1>1, NextSupervised, TypeCorrect, PTL DEF Spec

-----------------------------------------------------------------------------
(* AckOwedIsTimed. *)

\* Dist is the distance from a to b around the circle of sequence numbers.
LEMMA DistFacts ==
    ASSUME NEW a \in Seqno, NEW b \in Seqno
    PROVE  /\ Dist(a, b) \in Seqno
           /\ Dist(a, b) = 0 <=> a = b
           /\ Dist(a, Plus(b, 1)) = IF Dist(a, b) = Mod - 1 THEN 0 ELSE Dist(a, b) + 1
<1>1. a \in Int /\ b \in Int /\ 0 <= a /\ a < Mod /\ 0 <= b /\ b < Mod /\ Mod \in Int
  BY LinkAssumption DEF Seqno
<1>2. Dist(a, b) = IF a <= b THEN b - a ELSE b - a + Mod
  BY <1>1, SMT DEF Dist
<1>3. Plus(b, 1) = IF b = Mod - 1 THEN 0 ELSE b + 1
  BY <1>1, SMT DEF Plus
<1>4. Plus(b, 1) \in Int /\ 0 <= Plus(b, 1) /\ Plus(b, 1) < Mod  BY <1>1, <1>3
<1>5. Dist(a, Plus(b, 1)) = IF a <= Plus(b, 1) THEN Plus(b, 1) - a ELSE Plus(b, 1) - a + Mod
  <2>1. \A x \in Int : 0 <= x /\ x < Mod =>
            (x - a + Mod) % Mod = IF a <= x THEN x - a ELSE x - a + Mod
    BY <1>1, SMT
  <2> QED  BY <1>4, <2>1 DEF Dist
<1> QED  BY <1>1, <1>2, <1>3, <1>5 DEF Seqno

\* Steps that neither take I frames nor acknowledge them, and leave T2 running.
LEMMA AckUntouched ==
    ASSUME TypeOK, AckTimed, UNCHANGED <<vr, v_ack_rem>>,
           \A d \in Station :
               /\ link'[d] = "open" => link[d] \in {"open", "idle"}
               /\ link'[d] = "idle" => link[d] = "idle"
               /\ link'[d] = "open" /\ timer[d]["t2"] # Off => timer'[d]["t2"] # Off
    PROVE  AckTimed'
<1>1. ASSUME NEW d \in Station, link'[d] = "open"
      PROVE  /\ Dist(v_ack_rem[d], vr[d]) < W
             /\ v_ack_rem[d] # vr[d] => timer'[d]["t2"] # Off
  <2>1. CASE link[d] = "open"
    BY <1>1, <2>1 DEF AckTimed, AckOwedIsTimed, Running
  <2>2. CASE link[d] = "idle"
    <3>1. v_ack_rem[d] = vr[d] /\ vr[d] \in Seqno  BY <2>2 DEF AckTimed, TypeOK
    <3>2. Dist(v_ack_rem[d], vr[d]) = 0  BY <3>1, DistFacts
    <3> QED  BY <3>1, <3>2, LinkAssumption
  <2> QED  BY <1>1, <2>1, <2>2
<1>2. \A d \in Station : link'[d] = "idle" => v_ack_rem'[d] = vr'[d]  BY DEF AckTimed
<1>3. \A d \in Station : Dist(v_ack_rem[d], vr[d])' = Dist(v_ack_rem[d], vr[d])  BY DEF Dist
<1> QED  BY <1>1, <1>2, <1>3 DEF AckTimed, AckOwedIsTimed, Running

LEMMA ExitAckTimed ==
    ASSUME TypeOK, AckTimed, NEW e \in Station, NEW why \in Causes, Exit(e, why)
    PROVE  AckTimed'
<1>1. why # "open" /\ why # "idle"  BY DEF Causes
<1>2. ASSUME NEW d \in Station
      PROVE  /\ link'[d] = "open" => link[d] \in {"open", "idle"}
             /\ link'[d] = "idle" => link[d] = "idle"
             /\ link'[d] = "open" /\ timer[d]["t2"] # Off => timer'[d]["t2"] # Off
  BY <1>1 DEF Exit, TypeOK
<1>3. UNCHANGED <<vr, v_ack_rem>>  BY DEF Exit, seqnos
<1> QED  BY <1>2, <1>3, AckUntouched

\* A frame other than an I frame leaves T2 alone.
LEMMA FramesLeaveT2 ==
    ASSUME TypeOK, NEW e \in Station, NEW nr
    PROVE  /\ Heard(e)["t2"] = timer[e]["t2"]
           /\ TimersAfterTest(e)["t2"] = timer[e]["t2"]
           /\ [Heard(e) EXCEPT !["t1"] = T1After(e, nr)]["t2"] = timer[e]["t2"]
           /\ [Heard(e) EXCEPT !["t1"] = Off]["t2"] = timer[e]["t2"]
<1>1. timer[e] \in [Timer -> Nat \cup {Off}]  BY DEF TypeOK
<1>2. Heard(e)["t2"] = timer[e]["t2"] /\ Heard(e) \in [Timer -> Nat \cup {Off}]
  BY <1>1, HeardType DEF Heard, Timer
<1> QED  BY <1>2 DEF TimersAfterTest, Timer

LEMMA TakeIAckTimed ==
    ASSUME TypeOK, AckTimed, NEW e \in Station, Gets(e, "I"), TakeI(e)
    PROVE  AckTimed'
<1> DEFINE next == Plus(vr[e], 1)
<1>1. link' = link /\ link[e] = "open"  BY DEF TakeI, session, Gets, Receivable
<1>2. vr[e] \in Seqno /\ v_ack_rem[e] \in Seqno  BY DEF TypeOK
<1>3. next \in Seqno
  <2>1. vr[e] + 1 \in Int  BY <1>2, LinkAssumption DEF Seqno
  <2> QED  BY <2>1, ModIsSeqno DEF Plus
<1>4. /\ vr'[e] = next
      /\ v_ack_rem'[e] = IF OwesAck(e) THEN next ELSE v_ack_rem[e]
      /\ \A d \in Station \ {e} : vr'[d] = vr[d] /\ v_ack_rem'[d] = v_ack_rem[d]
  BY DEF TakeI, TypeOK
<1>5. timer'[e]["t2"] # Off /\ \A d \in Station \ {e} : timer'[d] = timer[d]
  <2>1. timer' = [timer EXCEPT ![e] = TimersAfterI(e, Incoming(e).nr)]  BY DEF TakeI
  <2>2. TimersAfterI(e, Incoming(e).nr)["t2"] = T2  BY HeardType DEF TimersAfterI, Timer
  <2> QED  BY <2>1, <2>2, LinkAssumption DEF TypeOK, Off
<1>6. Dist(v_ack_rem'[e], vr'[e]) < W
  <2>1. CASE OwesAck(e)
    <3>1. Dist(next, next) = 0  BY <1>3, DistFacts
    <3> QED  BY <1>4, <2>1, <3>1, LinkAssumption
  <2>2. CASE ~OwesAck(e)
    <3>1. Dist(v_ack_rem[e], next) # W  BY <2>2 DEF OwesAck
    <3>2. Dist(v_ack_rem[e], vr[e]) < W  BY <1>1 DEF AckTimed, AckOwedIsTimed
    <3>3. Dist(v_ack_rem[e], next) <= Dist(v_ack_rem[e], vr[e]) + 1
      <4>1. Dist(v_ack_rem[e], next) = IF Dist(v_ack_rem[e], vr[e]) = Mod - 1
                                       THEN 0 ELSE Dist(v_ack_rem[e], vr[e]) + 1
        BY <1>2, DistFacts
      <4>2. Dist(v_ack_rem[e], vr[e]) \in Seqno  BY <1>2, DistFacts
      <4> HIDE DEF next
      <4> QED  BY <4>1, <4>2, LinkAssumption DEF Seqno
    <3>4. Dist(v_ack_rem[e], next) \in Seqno /\ Dist(v_ack_rem[e], vr[e]) \in Seqno
      BY <1>2, <1>3, DistFacts
    <3>5. Dist(v_ack_rem[e], next) < W  BY <3>1, <3>2, <3>3, <3>4, LinkAssumption DEF Seqno
    <3> QED  BY <1>4, <2>2, <3>5
  <2> QED  BY <2>1, <2>2
<1>7. ASSUME NEW d \in Station, link'[d] = "open"
      PROVE  Dist(v_ack_rem'[d], vr'[d]) < W /\ (v_ack_rem'[d] # vr'[d] => timer'[d]["t2"] # Off)
  <2>1. CASE d = e  BY <1>5, <1>6, <2>1
  <2>2. CASE d # e
    BY <1>1, <1>4, <1>5, <1>7, <2>2 DEF AckTimed, AckOwedIsTimed, Running
  <2> QED  BY <2>1, <2>2
<1>8. \A d \in Station : link'[d] = "idle" => v_ack_rem'[d] = vr'[d]
  BY <1>1, <1>4 DEF AckTimed
<1>9. \A d \in Station : Dist(v_ack_rem[d], vr[d])' = Dist(v_ack_rem'[d], vr'[d])  BY DEF Dist
<1> QED  BY <1>7, <1>8, <1>9 DEF AckTimed, AckOwedIsTimed, Running

LEMMA ReceiveAckTimed ==
    ASSUME TypeOK, AckTimed, NEW e \in Station, Receive(e)
    PROVE  AckTimed'
<1> DEFINE nr == Incoming(e).nr
<1>1. ASSUME NEW timers \in {Heard(e), TimersAfterTest(e),
                             [Heard(e) EXCEPT !["t1"] = T1After(e, nr)],
                             [Heard(e) EXCEPT !["t1"] = Off]},
             timer' = [timer EXCEPT ![e] = timers], UNCHANGED <<link, vr, v_ack_rem>>
      PROVE  AckTimed'
  <2>1. timers["t2"] = timer[e]["t2"]  BY FramesLeaveT2
  <2>2. \A d \in Station : timer'[d]["t2"] = timer[d]["t2"]  BY <1>1, <2>1 DEF TypeOK
  <2> QED  BY <1>1, <2>2, AckUntouched
<1>2. CASE \E why \in Causes : Exit(e, why)  BY <1>2, ExitAckTimed
<1>3. CASE RecvI(e)
  <2>1. CASE Drop(e)  BY <1>1, <2>1 DEF Drop, session, seqnos
  <2>2. CASE TakeI(e)  BY <1>3, <2>2, TakeIAckTimed DEF RecvI
  <2> QED  BY <1>2, <1>3, <2>1, <2>2 DEF RecvI, Causes
<1>4. CASE RecvS(e)
  <2>1. CASE TakeS(e)  BY <1>1, <2>1 DEF TakeS, session
  <2> QED  BY <1>2, <1>4, <2>1 DEF RecvS, Causes
<1>5. CASE RecvStartAct(e)
  <2>1. CASE Start(e, <<UFrame("STARTDTCON")>>, Heard(e))
    BY <1>1, <2>1 DEF Start, session, seqnos
  <2> QED  BY <1>2, <1>5, <2>1 DEF RecvStartAct, Causes
<1>6. CASE RecvStartCon(e)
  <2>1. CASE Start(e, <<>>, [Heard(e) EXCEPT !["t1"] = Off])
    BY <1>1, <2>1 DEF Start, session, seqnos
  <2> QED  BY <1>2, <1>6, <2>1 DEF RecvStartCon, Causes
<1>7. CASE RecvTestAct(e)  BY <1>1, <1>7 DEF RecvTestAct, session, seqnos
<1>8. CASE RecvTestCon(e)
  <2>1. CASE Tested(e)  BY <1>1, <2>1 DEF Tested, session, seqnos
  <2> QED  BY <1>2, <1>8, <2>1 DEF RecvTestCon, Causes
<1> QED  BY <1>3, <1>4, <1>5, <1>6, <1>7, <1>8 DEF Receive

\* T2 sends the acknowledgement that is owed.
LEMMA T2AckTimed ==
    ASSUME TypeOK, AckTimed, NEW e \in Station, T2Expire(e)
    PROVE  AckTimed'
<1>1. /\ link' = link /\ vr' = vr /\ v_ack_rem'[e] = vr[e]
      /\ \A d \in Station \ {e} : v_ack_rem'[d] = v_ack_rem[d] /\ timer'[d] = timer[d]
  BY DEF T2Expire, TypeOK, session
<1>2. ASSUME NEW d \in Station, link'[d] = "open"
      PROVE  Dist(v_ack_rem'[d], vr'[d]) < W /\ (v_ack_rem'[d] # vr'[d] => timer'[d]["t2"] # Off)
  <2>1. CASE d = e
    <3>1. vr[e] \in Seqno  BY DEF TypeOK
    <3>2. Dist(vr[e], vr[e]) = 0  BY <3>1, DistFacts
    <3> QED  BY <1>1, <2>1, <3>2, LinkAssumption
  <2>2. CASE d # e
    BY <1>1, <1>2, <2>2 DEF AckTimed, AckOwedIsTimed, Running
  <2> QED  BY <2>1, <2>2
<1>3. \A d \in Station : link'[d] = "idle" => v_ack_rem'[d] = vr'[d]
  BY <1>1 DEF AckTimed
<1>4. \A d \in Station : Dist(v_ack_rem[d], vr[d])' = Dist(v_ack_rem'[d], vr'[d])  BY DEF Dist
<1> QED  BY <1>2, <1>3, <1>4 DEF AckTimed, AckOwedIsTimed, Running

LEMMA NextAckTimed == TypeOK /\ AckTimed /\ [Next]_vars => AckTimed'
<1> SUFFICES ASSUME TypeOK, AckTimed, [Next]_vars PROVE AckTimed'
  OBVIOUS
<1>1. CASE /\ UNCHANGED <<link, vr, v_ack_rem>>
           /\ \A d \in Station : timer[d]["t2"] # Off => timer'[d]["t2"] # Off
  BY <1>1, AckUntouched
<1>2. CASE \E e \in Station, why \in Causes : Exit(e, why)  BY <1>2, ExitAckTimed
<1>3. CASE Connect
  <2>1. \A d \in Station : timer'[d]["t2"] = timer[d]["t2"]
    <3>1. timer \in [Station -> [Timer -> Nat \cup {Off}]]  BY DEF TypeOK
    <3>2. timer' = [timer EXCEPT !["master"] = [timer["master"] EXCEPT !["t1"] = T1, !["t0"] = Off]]
      BY <1>3, <3>1 DEF Connect, Station
    <3>3. timer'["slave"] = timer["slave"]  BY <3>1, <3>2 DEF Station
    <3>4. timer'["master"] = [timer["master"] EXCEPT !["t1"] = T1, !["t0"] = Off]
      BY <3>1, <3>2 DEF Station
    <3>5. [timer["master"] EXCEPT !["t1"] = T1, !["t0"] = Off]["t2"] = timer["master"]["t2"]
      BY <3>1 DEF Station, Timer
    <3> QED  BY <3>3, <3>4, <3>5 DEF Station
  <2>2. \A d \in Station : /\ link'[d] = "open" => link[d] \in {"open", "idle"}
                           /\ link'[d] = "idle" => link[d] = "idle"
    BY <1>3 DEF Connect, TypeOK, Station
  <2>3. UNCHANGED <<vr, v_ack_rem>>  BY <1>3 DEF Connect, seqnos
  <2> QED  BY <2>1, <2>2, <2>3, AckUntouched
<1>4. CASE Accept
  <2>1. \A d \in Station : /\ link'[d] = "open" => link[d] \in {"open", "idle"}
                           /\ link'[d] = "idle" => link[d] = "idle"
    BY <1>4 DEF Accept, TypeOK, Station
  <2>2. UNCHANGED <<timer, vr, v_ack_rem>>  BY <1>4 DEF Accept, seqnos
  <2> QED  BY <2>1, <2>2, AckUntouched
<1>5. CASE Restart
  BY <1>5 DEF Restart, AckTimed, AckOwedIsTimed, AllIdle, Zero
<1>6. CASE Tick
  <2>1. \A e \in Station, t \in Timer : timer[e][t] # Off => timer'[e][t] # Off
    BY <1>6 DEF Tick, TypeOK, Off
  <2>2. "t2" \in Timer  BY DEF Timer
  <2> QED  BY <1>1, <1>6, <2>1, <2>2 DEF Tick, session, seqnos
<1>7. ASSUME NEW e \in Station, RunSendQueues(e) \/ T3Expire(e) PROVE AckTimed'
  <2>1. CASE RunSendQueues(e)
    <3>1. \A d \in Station : timer'[d]["t2"] = timer[d]["t2"]
      BY <2>1 DEF RunSendQueues, TypeOK, Timer
    <3> QED  BY <1>1, <2>1, <3>1 DEF RunSendQueues, session
  <2>2. CASE T3Expire(e)
    <3>1. \A d \in Station : timer'[d]["t2"] = timer[d]["t2"]
      BY <2>2 DEF T3Expire, TypeOK, Timer
    <3> QED  BY <1>1, <2>2, <3>1 DEF T3Expire, session, seqnos
  <2> QED  BY <1>7, <2>1, <2>2
<1>8. CASE \E e \in Station : Receive(e) \/ T2Expire(e)
  BY <1>8, ReceiveAckTimed, T2AckTimed
<1>9. CASE \E e \in Station, q \in Queue : Submit(e, q)
  BY <1>1, <1>9 DEF Submit, session, seqnos
<1>10. CASE Cut \/ UNCHANGED vars  BY <1>1, <1>10 DEF Cut, vars, session, seqnos
<1>11. CASE \E e \in Station : PeerGone(e) \/ T0Expire(e) \/ T1Expire(e)
                              \/ \E q \in Queue : PoolExhausted(e, q)
  BY <1>2, <1>11 DEF PeerGone, T0Expire, T1Expire, PoolExhausted, Causes
<1>12. CASE ConnectFails
  BY <1>2, <1>12 DEF ConnectFails, Causes, Station
<1> QED
  BY <1>3, <1>4, <1>5, <1>6, <1>7, <1>8, <1>9, <1>10, <1>11, <1>12 DEF Next, Step

LEMMA AckTimedAlways == Spec => []AckTimed
<1>1. Init => AckTimed
  BY DEF Init, AckTimed, AckOwedIsTimed, AllIdle, Zero
<1> QED  BY <1>1, NextAckTimed, TypeCorrect, PTL DEF Spec

\* AcksTimed: a station that owes an acknowledgement owes fewer than W and has T2
\* running: the window of its peer is never left closed for good.
THEOREM AcksTimed == Spec => []AckOwedIsTimed
<1>1. AckTimed => AckOwedIsTimed  BY DEF AckTimed
<1> QED  BY <1>1, AckTimedAlways, PTL

-----------------------------------------------------------------------------
(* SlotsAccounted. *)

\* Steps that change neither the queues nor the pool.
LEMMA SlotsUntouched ==
    SlotsAccounted /\ UNCHANGED <<used, pending, ackw_q>> => SlotsAccounted'
  BY DEF SlotsAccounted

\* The lengths of the three queues of e, and the slots they hold.
LEMMA SlotsOf ==
    ASSUME TypeOK, SlotsAccounted, NEW e \in Station
    PROVE  /\ pending[e]["high"] \in Seq(Asdu) /\ pending[e]["spont"] \in Seq(Asdu)
           /\ ackw_q[e] \in Seq(Seqno)
           /\ \E h, s, a \in Nat :
                /\ h = Len(pending[e]["high"]) /\ s = Len(pending[e]["spont"])
                /\ a = Len(ackw_q[e])
                /\ used[e] = h + s + a /\ used[e] <= PoolSize
<1>1. pending[e]["high"] \in Seq(Asdu) /\ pending[e]["spont"] \in Seq(Asdu)
      /\ ackw_q[e] \in Seq(Seqno)
  BY DEF TypeOK, Queue
<1>2. /\ used[e] = Len(pending[e]["high"]) + Len(pending[e]["spont"]) + Len(ackw_q[e])
      /\ used[e] <= PoolSize
  BY DEF SlotsAccounted
<1>3. /\ Len(pending[e]["high"]) \in Nat /\ Len(pending[e]["spont"]) \in Nat
      /\ Len(ackw_q[e]) \in Nat
  BY <1>1
<1> QED  BY <1>1, <1>2, <1>3, Zenon

\* Steps that change the slots and the queues of e only, in step.
LEMMA OwnSlots ==
    ASSUME TypeOK, SlotsAccounted, NEW e \in Station,
           \A d \in Station \ {e} :
               used'[d] = used[d] /\ pending'[d] = pending[d] /\ ackw_q'[d] = ackw_q[d],
           NEW h, NEW s, NEW a,
           h = Len(pending'[e]["high"]), s = Len(pending'[e]["spont"]), a = Len(ackw_q'[e]),
           used'[e] = h + s + a, used'[e] <= PoolSize
    PROVE  SlotsAccounted'
<1>1. used'[e] = Len(pending'[e]["high"]) + Len(pending'[e]["spont"]) + Len(ackw_q'[e])
  BY Zenon
<1> QED  BY <1>1 DEF SlotsAccounted

LEMMA SubmitSlots ==
    ASSUME TypeOK, SlotsAccounted, NEW e \in Station, NEW q \in Queue, Submit(e, q)
    PROVE  SlotsAccounted'
<1> DEFINE asdu == <<q, made[e][q] + 1>>
<1>1. pending[e] \in [Queue -> Seq(Asdu)] /\ asdu \in Asdu  BY DEF TypeOK, Asdu
<1>2. pending'[e] = [pending[e] EXCEPT ![q] = Append(@, asdu)]
  BY DEF Submit, TAILQ_INSERT_TAIL, TypeOK
<1>3. used'[e] = used[e] + 1 /\ ackw_q' = ackw_q /\ used[e] < PoolSize
  BY DEF Submit, seqnos, TypeOK
<1>4. \A d \in Station \ {e} : used'[d] = used[d] /\ pending'[d] = pending[d]
  BY DEF Submit, TypeOK
<1> HIDE DEF asdu
<1>5. PICK h, s, a \in Nat :
          /\ h = Len(pending[e]["high"]) /\ s = Len(pending[e]["spont"]) /\ a = Len(ackw_q[e])
          /\ used[e] = h + s + a
  BY SlotsOf
<1>6. used'[e] = h + s + a + 1 /\ used'[e] <= PoolSize
  <2>1. used[e] = h + s + a  BY <1>5
  <2> QED  BY <1>3, <2>1, LinkAssumption
<1>7. CASE q = "high"
  <2>1. /\ pending'[e]["high"] = Append(pending[e]["high"], asdu)
        /\ pending'[e]["spont"] = pending[e]["spont"]
    BY <1>1, <1>2, <1>7 DEF Queue
  <2>2. h + 1 = Len(pending'[e]["high"])
    <3>1. pending[e]["high"] \in Seq(Asdu)  BY SlotsOf
    <3>2. Len(Append(pending[e]["high"], asdu)) = Len(pending[e]["high"]) + 1  BY <1>1, <3>1
    <3> QED  BY <1>5, <2>1, <3>2, Zenon
  <2>3. used'[e] = (h + 1) + s + a  BY <1>6
  <2> QED  BY <1>3, <1>4, <1>5, <1>6, <2>1, <2>2, <2>3, OwnSlots, ZenonT(60)
<1>8. CASE q = "spont"
  <2>1. /\ pending'[e]["spont"] = Append(pending[e]["spont"], asdu)
        /\ pending'[e]["high"] = pending[e]["high"]
    BY <1>1, <1>2, <1>8 DEF Queue
  <2>2. s + 1 = Len(pending'[e]["spont"])
    <3>1. pending[e]["spont"] \in Seq(Asdu)  BY SlotsOf
    <3>2. Len(Append(pending[e]["spont"], asdu)) = Len(pending[e]["spont"]) + 1  BY <1>1, <3>1
    <3> QED  BY <1>5, <2>1, <3>2, Zenon
  <2>3. used'[e] = h + (s + 1) + a  BY <1>6
  <2> QED  BY <1>3, <1>4, <1>5, <1>6, <2>1, <2>2, <2>3, OwnSlots, ZenonT(60)
<1> QED  BY <1>7, <1>8 DEF Queue

\* A run of the send queues moves buffers from the queues to ackw_q.
LEMMA RunSlots ==
    ASSUME TypeOK, SlotsAccounted, NEW e \in Station, RunSendQueues(e)
    PROVE  SlotsAccounted'
<1> DEFINE n == SendCount(e)
           entries == [i \in 1..n |-> Plus(vs[e], i - 1)]
<1>1. PICK h, s, a \in Nat :
          /\ h = Len(pending[e]["high"]) /\ s = Len(pending[e]["spont"]) /\ a = Len(ackw_q[e])
          /\ used[e] = h + s + a /\ used[e] <= PoolSize
  BY SlotsOf
<1>2. n \in Nat /\ n <= h + s
  <2>1. n > 0  BY DEF RunSendQueues
  <2>2. n \in Int /\ n <= Len(ToSend(e))  BY SendCountBound
  <2>3. Len(ToSend(e)) = h + s
    <3>1. Len(ToSend(e)) = Len(pending[e]["high"]) + Len(pending[e]["spont"])
      BY SendCountBound
    <3>2. h = Len(pending[e]["high"]) /\ s = Len(pending[e]["spont"])  BY <1>1
    <3> QED  BY <3>1, <3>2, Zenon
  <2> HIDE DEF n
  <2> QED  BY <2>1, <2>2, <2>3
<1>3. /\ pending' = [pending EXCEPT ![e]["high"] = Rest(@, 0, n), ![e]["spont"] = Rest(@, h, n)]
      /\ ackw_q' = [ackw_q EXCEPT ![e] = @ \o entries]
      /\ used' = used
  BY <1>1, SendOrderQueues DEF RunSendQueues
<1> HIDE DEF n
<1>4. /\ pending'[e]["high"] = Rest(pending[e]["high"], 0, n)
      /\ pending'[e]["spont"] = Rest(pending[e]["spont"], h, n)
  BY <1>3 DEF TypeOK, Queue
<1> DEFINE h2 == IF n <= h THEN h - n ELSE 0
           s2 == IF n <= h THEN s ELSE s - (n - h)
<1>5. h2 = Len(pending'[e]["high"])
  <2>1. Len(Rest(pending[e]["high"], 0, n))
          = IF n <= 0 THEN h ELSE IF n - 0 <= h THEN h - (n - 0) ELSE 0
    <3>1. pending[e]["high"] \in Seq(Asdu) /\ Len(pending[e]["high"]) = h /\ n \in Nat /\ 0 \in Nat
      BY <1>1, <1>2, SlotsOf
    <3> QED  BY <3>1, RestType, ZenonT(60)
  <2> QED  BY <1>2, <1>4, <2>1
<1>6. s2 = Len(pending'[e]["spont"])
  <2>1. Len(Rest(pending[e]["spont"], h, n))
          = IF n <= h THEN s ELSE IF n - h <= s THEN s - (n - h) ELSE 0
    <3>1. pending[e]["spont"] \in Seq(Asdu) /\ s = Len(pending[e]["spont"])
      BY <1>1, SlotsOf
    <3>2. n \in Nat /\ h \in Nat  BY <1>2
    <3> QED  BY <3>1, <3>2, RestType
  <2>2. n <= h + s  BY <1>2
  <2> QED  BY <1>2, <1>4, <2>1, <2>2
<1>7. a + n = Len(ackw_q'[e])
  <2>1. entries \in Seq(Seqno)
    <3>1. ASSUME NEW i \in 1..n PROVE Plus(vs[e], i - 1) \in Seqno
      <4>1. vs[e] + (i - 1) \in Int  BY <1>2, LinkAssumption DEF TypeOK, Seqno
      <4> QED  BY <4>1, ModIsSeqno DEF Plus
    <3> QED  BY <1>2, <3>1
  <2>2. Len(entries) = n  BY <1>2
  <2>3. ackw_q'[e] = ackw_q[e] \o entries  BY <1>3 DEF TypeOK
  <2> HIDE DEF entries
  <2>4. Len(ackw_q'[e]) = Len(ackw_q[e]) + Len(entries)  BY <2>1, <2>3, SlotsOf
  <2> QED  BY <1>1, <2>2, <2>4
<1>8. used'[e] = h2 + s2 + (a + n) /\ used'[e] <= PoolSize
  <2>1. used[e] = h + s + a /\ used[e] <= PoolSize  BY <1>1
  <2>2. h + s + a = h2 + s2 + (a + n)  BY <1>2
  <2>3. used'[e] = used[e]  BY <1>3
  <2> QED  BY <2>1, <2>2, <2>3, Zenon
<1>9. \A d \in Station \ {e} :
          used'[d] = used[d] /\ pending'[d] = pending[d] /\ ackw_q'[d] = ackw_q[d]
  BY <1>3 DEF TypeOK
<1> HIDE DEF h2, s2
<1> QED  BY <1>5, <1>6, <1>7, <1>8, <1>9, OwnSlots

LEMMA AcknowledgeSlots ==
    ASSUME TypeOK, SlotsAccounted, NEW e \in Station, NEW nr, Acknowledge(e, nr), pending' = pending
    PROVE  SlotsAccounted'
<1>1. PICK h, s, a \in Nat :
          /\ h = Len(pending[e]["high"]) /\ s = Len(pending[e]["spont"]) /\ a = Len(ackw_q[e])
          /\ used[e] = h + s + a /\ used[e] <= PoolSize
  BY SlotsOf, ZenonT(60)
<1>2. PICK n \in 0..a : n = Dropped(ackw_q[e], nr)  BY <1>1, SlotsOf, AfterAckType
<1>3. Len(AfterAck(ackw_q[e], nr)) = a - n  BY <1>1, <1>2, SlotsOf, AfterAckType
<1>4. used'[e] = used[e] - n /\ ackw_q'[e] = AfterAck(ackw_q[e], nr)
  BY <1>2 DEF Acknowledge, Freed, TypeOK
<1>5. used'[e] = h + s + (a - n) /\ used'[e] <= PoolSize
  <2>1. used[e] = h + s + a /\ used[e] <= PoolSize  BY <1>1
  <2>2. used'[e] = used[e] - n  BY <1>4
  <2> QED  BY <2>1, <2>2, LinkAssumption
<1>6. \A d \in Station \ {e} : used'[d] = used[d] /\ ackw_q'[d] = ackw_q[d]
  BY DEF Acknowledge, TypeOK
<1> QED  BY <1>1, <1>3, <1>4, <1>5, <1>6, OwnSlots

LEMMA NextSlots == TypeOK /\ SlotsAccounted /\ [Next]_vars => SlotsAccounted'
<1> SUFFICES ASSUME TypeOK, SlotsAccounted, [Next]_vars PROVE SlotsAccounted'
  OBVIOUS
<1>1. CASE UNCHANGED <<used, pending, ackw_q>>  BY <1>1, SlotsUntouched
<1>2. CASE \E e \in Station, why \in Causes : Exit(e, why)
  BY <1>1, <1>2 DEF Exit, queues, seqnos
<1>3. CASE Restart
  <2>1. ASSUME NEW e \in Station
        PROVE  used'[e] = 0 /\ ackw_q'[e] = <<>> /\ pending'[e]["high"] = <<>> /\ pending'[e]["spont"] = <<>>
    BY <1>3 DEF Restart, Zero, None, NoQueues, Queue
  <2>2. ASSUME NEW e \in Station
        PROVE  /\ used'[e] = Len(pending'[e]["high"]) + Len(pending'[e]["spont"]) + Len(ackw_q'[e])
               /\ used'[e] <= PoolSize
    <3>1. used'[e] = 0 /\ ackw_q'[e] = <<>> /\ pending'[e]["high"] = <<>> /\ pending'[e]["spont"] = <<>>
      BY <2>1
    <3> QED  BY <3>1, LinkAssumption
  <2> QED  BY <2>2 DEF SlotsAccounted
<1>4. ASSUME NEW e \in Station, NEW q \in Queue, Submit(e, q) PROVE SlotsAccounted'
  BY <1>4, SubmitSlots
<1>5. ASSUME NEW e \in Station, RunSendQueues(e) PROVE SlotsAccounted'  BY <1>5, RunSlots
<1>6. ASSUME NEW e \in Station, TakeI(e) \/ TakeS(e) PROVE SlotsAccounted'
  BY <1>6, AcknowledgeSlots DEF TakeI, TakeS
<1>7. ASSUME NEW e \in Station, Receive(e) PROVE SlotsAccounted'
  <2>1. CASE RecvI(e)
    BY <1>1, <1>2, <1>6, <2>1 DEF RecvI, Drop, queues, seqnos, Causes
  <2>2. CASE RecvS(e)  BY <1>2, <1>6, <2>2 DEF RecvS, Causes
  <2>3. CASE RecvStartAct(e) \/ RecvStartCon(e)
    BY <1>1, <1>2, <2>3 DEF RecvStartAct, RecvStartCon, Start, queues, seqnos, Causes
  <2>4. CASE RecvTestAct(e) \/ RecvTestCon(e)
    BY <1>1, <1>2, <2>4 DEF RecvTestAct, RecvTestCon, Tested, queues, seqnos, Causes
  <2> QED  BY <1>7, <2>1, <2>2, <2>3, <2>4 DEF Receive
<1>8. ASSUME NEW e \in Station, T2Expire(e) \/ T3Expire(e) PROVE SlotsAccounted'
  BY <1>1, <1>8 DEF T2Expire, T3Expire, queues, seqnos
<1>9. CASE Connect \/ Accept \/ Cut \/ Tick \/ UNCHANGED vars
  BY <1>1, <1>9 DEF Connect, Accept, Cut, Tick, vars, queues, seqnos
<1>10. CASE \E e \in Station : PeerGone(e) \/ T0Expire(e) \/ T1Expire(e)
                              \/ \E q \in Queue : PoolExhausted(e, q)
  BY <1>2, <1>10 DEF PeerGone, T0Expire, T1Expire, PoolExhausted, Causes
<1>11. CASE ConnectFails
  BY <1>2, <1>11 DEF ConnectFails, Causes, Station
<1> QED
  BY <1>3, <1>4, <1>5, <1>7, <1>8, <1>9, <1>10, <1>11 DEF Next, Step

\* SlotsKept: the pool never loses a slot and never has one used twice: those in
\* use are the buffers that are queued or wait for an acknowledgement.
THEOREM SlotsKept == Spec => []SlotsAccounted
<1>1. Init => SlotsAccounted
  <2> SUFFICES ASSUME Init PROVE SlotsAccounted  OBVIOUS
  <2>1. ASSUME NEW e \in Station
        PROVE  used[e] = 0 /\ ackw_q[e] = <<>> /\ pending[e]["high"] = <<>> /\ pending[e]["spont"] = <<>>
    BY DEF Init, Zero, None, NoQueues, Queue
  <2>2. ASSUME NEW e \in Station
        PROVE  /\ used[e] = Len(pending[e]["high"]) + Len(pending[e]["spont"]) + Len(ackw_q[e])
               /\ used[e] <= PoolSize
    <3>1. used[e] = 0 /\ ackw_q[e] = <<>> /\ pending[e]["high"] = <<>> /\ pending[e]["spont"] = <<>>
      BY <2>1
    <3> QED  BY <3>1, LinkAssumption
  <2> QED  BY <2>2 DEF SlotsAccounted
<1> QED  BY <1>1, NextSlots, TypeCorrect, PTL DEF Spec

-----------------------------------------------------------------------------
(* Arithmetic modulo M. *)

LEMMA Division ==
    ASSUME NEW M \in Nat \ {0}, NEW x \in Int
    PROVE  /\ x \div M \in Int /\ (x % M) \in 0..(M - 1)
           /\ x = (x \div M) * M + (x % M)
  BY SMTT(30)

LEMMA Remainder ==
    ASSUME NEW M \in Nat \ {0}, NEW p \in Int, NEW r \in 0..(M - 1)
    PROVE  (p * M + r) % M = r
  BY SMTT(30)

LEMMA Difference ==
    ASSUME NEW M \in Nat \ {0}, NEW x \in Nat, NEW y \in Nat, x <= y, y - x < M
    PROVE  ((y % M) - (x % M) + M) % M = y - x
  BY SMTT(30)

LEMMA Sum ==
    ASSUME NEW M \in Nat \ {0}, NEW x \in Nat, NEW n \in Nat
    PROVE  ((x % M) + n) % M = (x + n) % M
<1>1. PICK q \in Int, r \in 0..(M - 1) : q = x \div M /\ r = x % M /\ x = q * M + r
  BY Division
<1>2. PICK t \in Int, u \in 0..(M - 1) : u = (r + n) % M /\ r + n = t * M + u
  <2>1. r + n \in Int  OBVIOUS
  <2> QED  BY <2>1, Division
<1>3. x + n = (q + t) * M + u
  <2>1. ASSUME NEW a \in Int, NEW b \in Int, x = a + r, r + n = b + u PROVE x + n = a + b + u
    BY <2>1
  <2>2. q * M \in Int /\ t * M \in Int  OBVIOUS
  <2>3. x + n = q * M + t * M + u  BY <1>1, <1>2, <2>1, <2>2
  <2>4. q * M + t * M = (q + t) * M  BY SMT
  <2> QED  BY <2>3, <2>4
<1>4. (x + n) % M = u
  <2>1. q + t \in Int  OBVIOUS
  <2> QED  BY <1>3, <2>1, Remainder
<1> QED  BY <1>1, <1>2, <1>4

LEMMA ModIsPositive == Mod \in Nat \ {0} /\ K \in Nat /\ K < Mod  BY LinkAssumption

-----------------------------------------------------------------------------
(* Positions and their sequence numbers. *)

\* Within a window smaller than Mod a sequence number names one position.
LEMMA NumberIsPosition ==
    ASSUME NEW x \in Nat, NEW y \in Nat, x <= y, y - x < Mod, x % Mod = y % Mod
    PROVE  x = y
<1>1. ((y % Mod) - (x % Mod) + Mod) % Mod = y - x  BY ModIsPositive, Difference
<1>2. (x % Mod) \in Int  BY ModIsPositive, Division
<1>3. Mod % Mod = 0  BY ModIsPositive, Remainder
<1>4. (y % Mod) - (x % Mod) + Mod = Mod  BY <1>2, ModIsPositive
<1> QED  BY <1>1, <1>3, <1>4

LEMMA DistOfPositions ==
    ASSUME NEW x \in Nat, NEW y \in Nat, x <= y, y - x < Mod
    PROVE  Dist(x % Mod, y % Mod) = y - x
  BY ModIsPositive, Difference DEF Dist

LEMMA PlusOfPosition ==
    ASSUME NEW x \in Nat, NEW n \in Nat
    PROVE  Plus(x % Mod, n) = (x + n) % Mod
  BY ModIsPositive, Sum DEF Plus

\* The k frames before the one numbered nr, or all k when there is none.
LEMMA DroppedFrames ==
    ASSUME NEW S, NEW queue \in Seq(S), NEW nr, NEW k \in 0..Len(queue),
           \A j \in 1..Len(queue) : queue[j] = nr <=> j = k + 1
    PROVE  Dropped(queue, nr) = k
<1>1. ASSUME NEW i \in 1..Len(queue) PROVE (\A j \in 1..i : queue[j] # nr) <=> i <= k
  <2>1. CASE i <= k  BY <2>1
  <2>2. CASE ~(i <= k)
    <3>1. k + 1 \in 1..i /\ k + 1 \in 1..Len(queue)  BY <2>2
    <3>2. queue[k + 1] = nr  BY <3>1
    <3> QED  BY <2>2, <3>1, <3>2, Zenon
  <2> QED  BY <2>1, <2>2
<1> DEFINE D == {i \in 1..Len(queue) : \A j \in 1..i : queue[j] # nr}
<1>2. D = 1..k
  <2>1. \A i \in 1..Len(queue) : i \in D <=> i <= k  BY <1>1, Zenon
  <2>2. D \subseteq 1..Len(queue)  OBVIOUS
  <2>3. \A i : i \in 1..k <=> i \in 1..Len(queue) /\ i <= k  OBVIOUS
  <2> HIDE DEF D
  <2> QED  BY <2>1, <2>2, <2>3, Zenon
<1>3. Cardinality(1..k) = k  BY FS_Interval
<1> QED  BY <1>2, <1>3 DEF Dropped

\* N(R) removes from ackw_q the frames before the position it stands for.
LEMMA AfterAckNumbers ==
    ASSUME NEW queue \in Seq(Seqno), NEW first \in Nat, Len(queue) < Mod,
           \A i \in 1..Len(queue) : queue[i] = (first + i - 1) % Mod,
           NEW ack \in first..(first + Len(queue))
    PROVE  /\ AfterAck(queue, ack % Mod) \in Seq(Seqno)
           /\ Len(AfterAck(queue, ack % Mod)) = Len(queue) - (ack - first)
           /\ \A i \in 1..Len(AfterAck(queue, ack % Mod)) :
                AfterAck(queue, ack % Mod)[i] = (ack + i - 1) % Mod
<1>1. PICK n \in Nat : n = Len(queue)  OBVIOUS
<1>2. PICK k \in 0..n : k = ack - first  BY <1>1
<1>3. ASSUME NEW j \in 1..n PROVE queue[j] = ack % Mod <=> j = k + 1
  <2>1. PICK p \in Nat : p = first + j - 1  BY <1>1
  <2>2. queue[j] = p % Mod  BY <1>1, <2>1
  <2>3. p % Mod = ack % Mod => p = ack
    <3>1. CASE p <= ack
      <4>1. ack - p < Mod  BY <1>1, <1>2, <2>1, ModIsPositive
      <4> QED  BY <3>1, <4>1, NumberIsPosition
    <3>2. CASE ack <= p
      <4>1. p - ack < Mod  BY <1>1, <1>2, <2>1, ModIsPositive
      <4> QED  BY <3>2, <4>1, NumberIsPosition
    <3> QED  BY <3>1, <3>2
  <2>4. p = ack <=> j = k + 1  BY <1>2, <2>1
  <2> QED  BY <2>2, <2>3, <2>4, Zenon
<1>4. Dropped(queue, ack % Mod) = k  BY <1>1, <1>2, <1>3, DroppedFrames
<1>5. PICK rest : rest = SubSeq(queue, k + 1, n)  OBVIOUS
<1>6. AfterAck(queue, ack % Mod) = rest  BY <1>1, <1>4, <1>5 DEF AfterAck
<1>7. rest \in Seq(Seqno) /\ Len(rest) = n - k  BY <1>1, <1>2, <1>5
<1>8. ASSUME NEW i \in 1..Len(rest) PROVE rest[i] = (ack + i - 1) % Mod
  <2>1. i \in 1..(n - k)  BY <1>7
  <2>2. rest[i] = queue[k + i]  BY <1>1, <1>2, <1>5, <2>1
  <2>3. k + i \in 1..n /\ first + (k + i) - 1 = ack + i - 1  BY <1>2, <2>1
  <2>4. queue[k + i] = (first + (k + i) - 1) % Mod  BY <1>1, <2>3
  <2> QED  BY <2>2, <2>3, <2>4, Zenon
<1> QED  BY <1>1, <1>2, <1>6, <1>7, <1>8

-----------------------------------------------------------------------------
(* Channels: what the head says, and what taking or adding frames keeps. *)

LEMMA TailFrames ==
    ASSUME NEW S, NEW ch \in Seq(S), ch # <<>>
    PROVE  /\ Len(ch) \in Nat \ {0} /\ Head(ch) = ch[1] /\ ch[1] \in S
           /\ Tail(ch) \in Seq(S) /\ Len(Tail(ch)) = Len(ch) - 1
           /\ \A i \in 1..Len(Tail(ch)) : i + 1 \in 1..Len(ch) /\ Tail(ch)[i] = ch[i + 1]
           /\ \A i \in 1..Len(ch) : i = 1 \/ (i - 1 \in 1..Len(Tail(ch)) /\ Tail(ch)[i - 1] = ch[i])
  OBVIOUS

LEMMA MoreFrames ==
    ASSUME NEW S, NEW ch \in Seq(S), NEW more \in Seq(S)
    PROVE  /\ ch \o more \in Seq(S) /\ Len(ch \o more) = Len(ch) + Len(more)
           /\ \A i \in 1..Len(ch) : i \in 1..Len(ch \o more) /\ (ch \o more)[i] = ch[i]
           /\ \A i \in 1..Len(more) :
                Len(ch) + i \in 1..Len(ch \o more) /\ (ch \o more)[Len(ch) + i] = more[i]
           /\ \A i \in 1..Len(ch \o more) : i \in 1..Len(ch) \/
                (i - Len(ch) \in 1..Len(more) /\ (ch \o more)[i] = more[i - Len(ch)])
  OBVIOUS

LEMMA JoinedFrames ==
    ASSUME NEW S, NEW ch \in Seq(S), NEW more \in Seq(S), NEW all,
           NEW n, NEW l, n = Len(ch), l = Len(more), all = ch \o more
    PROVE  /\ Len(all) = n + l
           /\ \A i \in 1..n : all[i] = ch[i]
           /\ \A i \in 1..l : all[n + i] = more[i]
  OBVIOUS

\* The first frame, when it is an I frame, is the next one its reader expects.
LEMMA NextFrame ==
    ASSUME NEW ch \in Seq(Frame), ch # <<>>, NEW out \in Seq(Asdu), NEW got \in Nat,
           Head(ch).kind = "I", got <= Len(out), Carries(ch, out, got), Complete(ch, out, got)
    PROVE  /\ got + 1 <= Len(out)
           /\ Head(ch).num = got + 1 /\ Head(ch).ns = got % Mod /\ Head(ch).asdu = out[got + 1]
           /\ Carries(Tail(ch), out, got + 1) /\ Complete(Tail(ch), out, got + 1)
<1>1. PICK n \in Nat, m \in Nat : n = Len(ch) /\ m = Len(out)  OBVIOUS
<1>2. /\ n > 0 /\ Head(ch) = ch[1] /\ Len(Tail(ch)) = n - 1
      /\ \A i \in 1..(n - 1) : i + 1 \in 1..n /\ Tail(ch)[i] = ch[i + 1]
      /\ \A i \in 1..n : i = 1 \/ (i - 1 \in 1..(n - 1) /\ Tail(ch)[i - 1] = ch[i])
  BY <1>1, TailFrames
<1>3. /\ \A i \in 1..n : ch[i].kind = "I" =>
            /\ ch[i].num \in (got + 1)..m
            /\ ch[i].ns = (ch[i].num - 1) % Mod
            /\ ch[i].asdu = out[ch[i].num]
      /\ \A i, j \in 1..n : i < j /\ ch[i].kind = "I" /\ ch[j].kind = "I" => ch[i].num < ch[j].num
  BY <1>1, Zenon DEF Carries
<1>4. \A k \in (got + 1)..m : \E i \in 1..n : ch[i].kind = "I" /\ ch[i].num = k
  BY <1>1, Zenon DEF Complete
<1>5. 1 \in 1..n  BY <1>2
<1>6. ch[1].kind = "I"  BY <1>2
<1>7. ch[1].num \in (got + 1)..m  BY <1>3, <1>5, <1>6
<1>8. ch[1].num = got + 1
  <2>1. PICK i \in 1..n : ch[i].kind = "I" /\ ch[i].num = got + 1  BY <1>4, <1>7
  <2>2. ~(1 < i)
    <3>1. 1 < i => ch[1].num < ch[i].num  BY <1>3, <1>5, <1>6, <2>1
    <3> QED  BY <3>1, <2>1, <1>7
  <2> QED  BY <2>1, <2>2
<1>9. ASSUME NEW i \in 1..(n - 1), Tail(ch)[i].kind = "I"
      PROVE  /\ Tail(ch)[i].num \in (got + 2)..m
             /\ Tail(ch)[i].ns = (Tail(ch)[i].num - 1) % Mod
             /\ Tail(ch)[i].asdu = out[Tail(ch)[i].num]
  <2>1. i + 1 \in 1..n /\ Tail(ch)[i] = ch[i + 1] /\ 1 < i + 1  BY <1>2
  <2>2. ch[i + 1].num \in (got + 1)..m /\ ch[1].num < ch[i + 1].num
    BY <1>3, <1>5, <1>6, <1>9, <2>1
  <2>3. ch[i + 1].num \in (got + 2)..m
    <3>1. PICK x \in (got + 1)..m : x = ch[i + 1].num  BY <2>2
    <3>2. got + 1 < x  BY <1>8, <2>2, <3>1, Zenon
    <3>3. x \in (got + 2)..m  BY <3>2
    <3> QED  BY <3>1, <3>3, Zenon
  <2> QED  BY <1>3, <1>9, <2>1, <2>3
<1>10. ASSUME NEW i \in 1..(n - 1), NEW j \in 1..(n - 1),
              i < j, Tail(ch)[i].kind = "I", Tail(ch)[j].kind = "I"
       PROVE  Tail(ch)[i].num < Tail(ch)[j].num
  <2>1. i + 1 \in 1..n /\ j + 1 \in 1..n /\ i + 1 < j + 1  BY <1>10
  <2>2. Tail(ch)[i] = ch[i + 1] /\ Tail(ch)[j] = ch[j + 1]  BY <1>2
  <2> QED  BY <1>3, <1>10, <2>1, <2>2
<1>11. ASSUME NEW k \in (got + 2)..m
       PROVE  \E i \in 1..(n - 1) : Tail(ch)[i].kind = "I" /\ Tail(ch)[i].num = k
  <2>1. k \in (got + 1)..m /\ k # got + 1  OBVIOUS
  <2>2. PICK i \in 1..n : ch[i].kind = "I" /\ ch[i].num = k  BY <1>4, <2>1
  <2>3. i # 1  BY <1>8, <2>1, <2>2
  <2> QED  BY <1>2, <2>2, <2>3
<1>12. got + 1 + 1 = got + 2 /\ got + 1 \in Nat /\ got + 1 - 1 = got  OBVIOUS
<1>13. Carries(Tail(ch), out, got + 1)  BY <1>1, <1>2, <1>9, <1>10, <1>12, Zenon DEF Carries
<1>14. Complete(Tail(ch), out, got + 1)  BY <1>1, <1>2, <1>11, <1>12, Zenon DEF Complete
<1>15. ch[1].ns = (ch[1].num - 1) % Mod /\ ch[1].asdu = out[ch[1].num]  BY <1>3, <1>5, <1>6
<1> QED  BY <1>1, <1>2, <1>7, <1>8, <1>12, <1>13, <1>14, <1>15

\* Taking another frame, or adding others, leaves the I frames alone.
LEMMA OtherFrameTaken ==
    ASSUME NEW ch \in Seq(Frame), ch # <<>>, NEW out, NEW got, Head(ch).kind # "I"
    PROVE  /\ Carries(ch, out, got) => Carries(Tail(ch), out, got)
           /\ Complete(ch, out, got) => Complete(Tail(ch), out, got)
<1>1. PICK n \in Nat : n = Len(ch)  OBVIOUS
<1>2. /\ n > 0 /\ Head(ch) = ch[1] /\ Len(Tail(ch)) = n - 1
      /\ \A i \in 1..(n - 1) : i + 1 \in 1..n /\ Tail(ch)[i] = ch[i + 1]
      /\ \A i \in 1..n : i = 1 \/ (i - 1 \in 1..(n - 1) /\ Tail(ch)[i - 1] = ch[i])
      /\ \A i, j \in 1..(n - 1) : i < j => i + 1 < j + 1
  BY <1>1, TailFrames
<1>3. ASSUME Carries(ch, out, got) PROVE Carries(Tail(ch), out, got)
  <2>1. ASSUME NEW i \in 1..(n - 1), Tail(ch)[i].kind = "I"
        PROVE  /\ Tail(ch)[i].num \in (got + 1)..Len(out)
               /\ Tail(ch)[i].ns = (Tail(ch)[i].num - 1) % Mod
               /\ Tail(ch)[i].asdu = out[Tail(ch)[i].num]
    <3>1. i + 1 \in 1..n /\ Tail(ch)[i] = ch[i + 1]  BY <1>2
    <3>2. \A j \in 1..n : ch[j].kind = "I" =>
            /\ ch[j].num \in (got + 1)..Len(out)
            /\ ch[j].ns = (ch[j].num - 1) % Mod
            /\ ch[j].asdu = out[ch[j].num]
      BY <1>1, <1>3, Zenon DEF Carries
    <3> QED  BY <2>1, <3>1, <3>2, Zenon
  <2>2. ASSUME NEW i \in 1..(n - 1), NEW j \in 1..(n - 1),
               i < j, Tail(ch)[i].kind = "I", Tail(ch)[j].kind = "I"
        PROVE  Tail(ch)[i].num < Tail(ch)[j].num
    <3>1. i + 1 \in 1..n /\ j + 1 \in 1..n /\ i + 1 < j + 1  BY <1>2, <2>2
    <3>2. Tail(ch)[i] = ch[i + 1] /\ Tail(ch)[j] = ch[j + 1]  BY <1>2
    <3> QED  BY <1>1, <1>3, <2>2, <3>1, <3>2, Zenon DEF Carries
  <2> QED  BY <1>2, <2>1, <2>2, Zenon DEF Carries
<1>4. ASSUME Complete(ch, out, got) PROVE Complete(Tail(ch), out, got)
  <2>1. ASSUME NEW k \in (got + 1)..Len(out)
        PROVE  \E i \in 1..(n - 1) : Tail(ch)[i].kind = "I" /\ Tail(ch)[i].num = k
    <3>1. PICK i \in 1..n : ch[i].kind = "I" /\ ch[i].num = k
      BY <1>1, <1>4, Zenon DEF Complete
    <3>2. i # 1  BY <1>2, <3>1
    <3> QED  BY <1>2, <3>1, <3>2, Zenon
  <2> QED  BY <1>2, <2>1, Zenon DEF Complete
<1> QED  BY <1>3, <1>4

LEMMA OtherFramesAdded ==
    ASSUME NEW ch \in Seq(Frame), NEW more \in Seq(Frame), NEW out, NEW got,
           \A i \in 1..Len(more) : more[i].kind # "I"
    PROVE  /\ Carries(ch, out, got) => Carries(ch \o more, out, got)
           /\ Complete(ch, out, got) => Complete(ch \o more, out, got)
<1>1. /\ \A i \in 1..Len(ch) : i \in 1..Len(ch \o more) /\ (ch \o more)[i] = ch[i]
      /\ \A i \in 1..Len(ch \o more) : i \in 1..Len(ch) \/ (ch \o more)[i].kind # "I"
  BY MoreFrames
<1>2. Carries(ch, out, got) => Carries(ch \o more, out, got)  BY <1>1, Zenon DEF Carries
<1>3. Complete(ch, out, got) => Complete(ch \o more, out, got)  BY <1>1, Zenon DEF Complete
<1> QED  BY <1>2, <1>3

\* The I frames of a run that follow what is on its way, for a station whose
\* transmitted ASDUs grow by the same number.
LEMMA RunCarried ==
    ASSUME NEW ch \in Seq(Frame), NEW run \in Seq(Frame), NEW out \in Seq(Asdu),
           NEW more \in Seq(Asdu), NEW got \in Nat, got <= Len(out), Len(run) = Len(more),
           \A i \in 1..Len(run) :
                /\ run[i].kind = "I" /\ run[i].num = Len(out) + i
                /\ run[i].ns = (Len(out) + i - 1) % Mod /\ run[i].asdu = more[i]
    PROVE  /\ Carries(ch, out, got) => Carries(ch \o run, out \o more, got)
           /\ Complete(ch, out, got) => Complete(ch \o run, out \o more, got)
<1> DEFINE n == Len(ch)
           m == Len(out)
           l == Len(run)
           new == ch \o run
           all == out \o more
<1>1. n \in Nat /\ m \in Nat /\ l \in Nat /\ l = Len(more) /\ got <= m  OBVIOUS
<1>2. /\ Len(new) = n + l
      /\ \A i \in 1..n : i \in 1..(n + l) /\ new[i] = ch[i]
      /\ \A i \in 1..l : n + i \in 1..(n + l) /\ new[n + i] = run[i]
      /\ \A i \in 1..(n + l) : i \in 1..n \/ (i - n \in 1..l /\ new[i] = run[i - n])
  <2>1. ASSUME NEW a \in Seq(Frame), NEW b \in Seq(Frame)
        PROVE  /\ Len(a \o b) = Len(a) + Len(b)
               /\ \A i \in 1..Len(a) : i \in 1..Len(a \o b) /\ (a \o b)[i] = a[i]
               /\ \A i \in 1..Len(b) :
                    Len(a) + i \in 1..Len(a \o b) /\ (a \o b)[Len(a) + i] = b[i]
               /\ \A i \in 1..Len(a \o b) : i \in 1..Len(a) \/
                    (i - Len(a) \in 1..Len(b) /\ (a \o b)[i] = b[i - Len(a)])
    BY MoreFrames
  <2>2. /\ Len(new) = n + l
        /\ \A i \in 1..n : i \in 1..Len(new) /\ new[i] = ch[i]
        /\ \A i \in 1..l : n + i \in 1..Len(new) /\ new[n + i] = run[i]
        /\ \A i \in 1..Len(new) : i \in 1..n \/ (i - n \in 1..l /\ new[i] = run[i - n])
    BY <2>1, Zenon
  <2> HIDE DEF n, l, new
  <2> QED  BY <2>2, Zenon
<1>3. /\ Len(all) = m + l
      /\ \A i \in 1..m : all[i] = out[i]
      /\ \A i \in 1..l : all[m + i] = more[i]
  BY <1>1, MoreFrames
<1>4. ASSUME NEW i \in 1..l
      PROVE  /\ run[i].kind = "I" /\ run[i].num = m + i /\ run[i].ns = (m + i - 1) % Mod
             /\ run[i].asdu = all[m + i]
  BY <1>1, <1>3
<1> USE <1>1
<1> HIDE DEF n, m, l, new, all
<1>5. ASSUME Carries(ch, out, got) PROVE Carries(new, all, got)
  <2>1. /\ \A i \in 1..n : ch[i].kind = "I" =>
            /\ ch[i].num \in (got + 1)..m
            /\ ch[i].ns = (ch[i].num - 1) % Mod
            /\ ch[i].asdu = out[ch[i].num]
        /\ \A i, j \in 1..n : i < j /\ ch[i].kind = "I" /\ ch[j].kind = "I" => ch[i].num < ch[j].num
    BY <1>5, Zenon DEF Carries, n, m
  <2>2. ASSUME NEW i \in 1..(n + l), new[i].kind = "I"
        PROVE  /\ new[i].num \in (got + 1)..(m + l)
               /\ new[i].ns = (new[i].num - 1) % Mod
               /\ new[i].asdu = all[new[i].num]
    <3>1. CASE i \in 1..n
      <4>1. new[i] = ch[i]  BY <1>2, <3>1
      <4>2. /\ ch[i].num \in (got + 1)..m
            /\ ch[i].ns = (ch[i].num - 1) % Mod
            /\ ch[i].asdu = out[ch[i].num]
        BY <2>1, <2>2, <3>1, <4>1
      <4>3. ch[i].num \in 1..m /\ ch[i].num \in (got + 1)..(m + l)
        BY <4>2, SMTT(30)
      <4>4. all[ch[i].num] = out[ch[i].num]  BY <1>3, <4>3
      <4> QED  BY <4>1, <4>2, <4>3, <4>4, Zenon
    <3>2. CASE ~(i \in 1..n)
      <4>1. PICK k \in 1..l : k = i - n /\ new[i] = run[k]  BY <1>2, <3>2
      <4>2. run[k].num = m + k /\ run[k].ns = (m + k - 1) % Mod /\ run[k].asdu = all[m + k]
        BY <1>4
      <4>3. m + k \in (got + 1)..(m + l)  BY <1>1
      <4>4. run[k].num - 1 = m + k - 1  BY <4>2
      <4> QED  BY <4>1, <4>2, <4>3, <4>4, Zenon
    <3> QED  BY <3>1, <3>2
  <2>3. ASSUME NEW i \in 1..(n + l), NEW j \in 1..(n + l),
               i < j, new[i].kind = "I", new[j].kind = "I"
        PROVE  new[i].num < new[j].num
    <3>1. CASE j \in 1..n
      <4>1. i \in 1..n  BY <2>3, <3>1
      <4> QED  BY <1>2, <2>1, <2>3, <3>1, <4>1
    <3>2. CASE ~(j \in 1..n)
      <4>1. PICK k \in 1..l : k = j - n /\ new[j] = run[k]  BY <1>2, <3>2
      <4>2. new[j].num = m + k  BY <1>4, <4>1
      <4>3. CASE i \in 1..n
        <5>1. new[i].num \in (got + 1)..m  BY <1>2, <2>1, <2>3, <4>3
        <5>2. PICK x \in (got + 1)..m : x = new[i].num  BY <5>1
        <5>3. x < m + k  BY <1>1
        <5> QED  BY <4>2, <5>2, <5>3, Zenon
      <4>4. CASE ~(i \in 1..n)
        <5>1. PICK h \in 1..l : h = i - n /\ new[i] = run[h]  BY <1>2, <4>4
        <5>2. new[i].num = m + h  BY <1>4, <5>1
        <5>3. h < k  BY <1>1, <2>3, <4>1, <5>1
        <5>4. m + h < m + k  BY <1>1, <5>3
        <5> QED  BY <4>2, <5>2, <5>4, Zenon
      <4> QED  BY <4>3, <4>4
    <3> QED  BY <3>1, <3>2
  <2> QED  BY <1>2, <1>3, <2>2, <2>3, Zenon DEF Carries
<1>6. ASSUME Complete(ch, out, got) PROVE Complete(new, all, got)
  <2>1. ASSUME NEW k \in (got + 1)..(m + l)
        PROVE  \E i \in 1..(n + l) : new[i].kind = "I" /\ new[i].num = k
    <3>1. CASE k <= m
      <4>1. k \in (got + 1)..m  BY <3>1
      <4>2. PICK i \in 1..n : ch[i].kind = "I" /\ ch[i].num = k
        BY <1>6, <4>1, Zenon DEF Complete, n, m
      <4> QED  BY <1>2, <4>2, Zenon
    <3>2. CASE ~(k <= m)
      <4>1. PICK h \in 1..l : h = k - m  BY <3>2
      <4>2. run[h].kind = "I" /\ run[h].num = k  BY <1>4, <4>1
      <4>3. n + h \in 1..(n + l) /\ new[n + h] = run[h]  BY <1>2
      <4> QED  BY <4>2, <4>3, Zenon
    <3> QED  BY <3>1, <3>2
  <2> QED  BY <1>2, <1>3, <2>1, Zenon DEF Complete
<1> QED  BY <1>5, <1>6, Zenon DEF new, all

\* The acknowledgement in the first frame: the number of ASDUs it stands for
\* lies between what its reader has seen acknowledged and what was received.
LEMMA NextAck ==
    ASSUME NEW ch \in Seq(Frame), ch # <<>>, NEW acked \in Nat, NEW received \in Nat,
           Acknowledges(ch, acked, received)
    PROVE  /\ Acknowledges(Tail(ch), acked, received)
           /\ Acks(Head(ch)) =>
                /\ Head(ch).ack \in acked..received
                /\ Head(ch).nr = Head(ch).ack % Mod
                /\ Acknowledges(Tail(ch), Head(ch).ack, received)
<1>1. PICK n \in Nat : n = Len(ch)  OBVIOUS
<1>2. /\ n > 0 /\ Head(ch) = ch[1] /\ Len(Tail(ch)) = n - 1 /\ 1 \in 1..n
      /\ \A i \in 1..(n - 1) : i + 1 \in 1..n /\ 1 < i + 1 /\ Tail(ch)[i] = ch[i + 1]
  BY <1>1, TailFrames
<1>3. /\ \A i \in 1..n : Acks(ch[i]) => ch[i].ack \in acked..received /\ ch[i].nr = ch[i].ack % Mod
      /\ \A i, j \in 1..n : i < j /\ Acks(ch[i]) /\ Acks(ch[j]) => ch[i].ack <= ch[j].ack
  BY <1>1, Zenon DEF Acknowledges
<1>4. ASSUME NEW i \in 1..(n - 1), NEW j \in 1..(n - 1),
             i < j, Acks(Tail(ch)[i]), Acks(Tail(ch)[j])
      PROVE  Tail(ch)[i].ack <= Tail(ch)[j].ack
  <2>1. i + 1 \in 1..n /\ j + 1 \in 1..n /\ i + 1 < j + 1  BY <1>4
  <2>2. Tail(ch)[i] = ch[i + 1] /\ Tail(ch)[j] = ch[j + 1]  BY <1>2
  <2>3. Acks(ch[i + 1]) /\ Acks(ch[j + 1])  BY <1>4, <2>2, Zenon
  <2>4. ch[i + 1].ack <= ch[j + 1].ack  BY <1>3, <2>1, <2>3
  <2> QED  BY <2>2, <2>4, Zenon
<1>5. ASSUME NEW i \in 1..(n - 1), Acks(Tail(ch)[i])
      PROVE  Tail(ch)[i].ack \in acked..received /\ Tail(ch)[i].nr = Tail(ch)[i].ack % Mod
  <2>1. i + 1 \in 1..n /\ Tail(ch)[i] = ch[i + 1]  BY <1>2
  <2> QED  BY <1>3, <1>5, <2>1, Zenon
<1>6. Acknowledges(Tail(ch), acked, received)
  BY <1>2, <1>4, <1>5, Zenon DEF Acknowledges
<1>7. ASSUME Acks(Head(ch)) PROVE Acknowledges(Tail(ch), Head(ch).ack, received)
  <2>1. Acks(ch[1]) /\ ch[1].ack \in acked..received  BY <1>2, <1>3, <1>7
  <2>2. ASSUME NEW i \in 1..(n - 1), Acks(Tail(ch)[i])
        PROVE  Tail(ch)[i].ack \in ch[1].ack..received
    <3>1. i + 1 \in 1..n /\ 1 < i + 1 /\ Tail(ch)[i] = ch[i + 1]  BY <1>2
    <3>2. Acks(ch[i + 1])  BY <2>2, <3>1, Zenon
    <3>3. ch[1].ack <= ch[i + 1].ack  BY <1>2, <1>3, <2>1, <3>1, <3>2
    <3>4. ch[i + 1].ack \in acked..received  BY <1>3, <3>1, <3>2
    <3>5. ASSUME NEW a \in Int, NEW b \in acked..received, a <= b PROVE b \in a..received
      BY <3>5
    <3>6. ch[i + 1].ack \in ch[1].ack..received  BY <2>1, <3>3, <3>4, <3>5
    <3> QED  BY <3>1, <3>6, Zenon
  <2> QED  BY <1>2, <1>4, <1>5, <2>2, Zenon DEF Acknowledges
<1> QED  BY <1>2, <1>3, <1>6, <1>7, Zenon

\* Frames written when received ASDUs have been received acknowledge them.
LEMMA AcksAdded ==
    ASSUME NEW ch \in Seq(Frame), NEW more \in Seq(Frame), NEW acked \in Nat,
           NEW before \in Nat, NEW received \in Nat, before <= received, acked <= received,
           Acknowledges(ch, acked, before),
           \A i \in 1..Len(more) : Acks(more[i]) =>
                more[i].ack = received /\ more[i].nr = received % Mod
    PROVE  Acknowledges(ch \o more, acked, received)
<1> DEFINE n == Len(ch)
           l == Len(more)
           new == ch \o more
<1>1. n \in Nat /\ l \in Nat
      /\ \A i \in 1..l : Acks(more[i]) => more[i].ack = received /\ more[i].nr = received % Mod
  OBVIOUS
<1>2. /\ Len(new) = n + l
      /\ \A i \in 1..n : new[i] = ch[i]
      /\ \A i \in 1..(n + l) : i \in 1..n \/ (i - n \in 1..l /\ new[i] = more[i - n])
  BY MoreFrames
<1>3. /\ \A i \in 1..n : Acks(ch[i]) => ch[i].ack \in acked..before /\ ch[i].nr = ch[i].ack % Mod
      /\ \A i, j \in 1..n : i < j /\ Acks(ch[i]) /\ Acks(ch[j]) => ch[i].ack <= ch[j].ack
  BY Zenon DEF Acknowledges
<1> USE <1>1
<1> HIDE DEF n, l, new
<1>4. ASSUME NEW i \in 1..(n + l), Acks(new[i]), ~(i \in 1..n)
      PROVE  new[i].ack = received /\ new[i].nr = received % Mod
  <2>1. i - n \in 1..l /\ new[i] = more[i - n]  BY <1>2, <1>4
  <2> QED  BY <1>1, <1>4, <2>1, Zenon
<1>5. ASSUME NEW i \in 1..(n + l), Acks(new[i]), i \in 1..n
      PROVE  /\ new[i] = ch[i] /\ Acks(ch[i])
             /\ ch[i].ack \in acked..before /\ ch[i].nr = ch[i].ack % Mod
  BY <1>2, <1>3, <1>5, Zenon
<1>6. ASSUME NEW i \in 1..(n + l), Acks(new[i])
      PROVE  new[i].ack \in acked..received /\ new[i].nr = new[i].ack % Mod
  <2>1. CASE i \in 1..n
    <3>1. new[i].ack \in acked..before  BY <1>5, <1>6, <2>1
    <3>2. new[i].ack \in acked..received  BY <3>1
    <3> QED  BY <1>5, <1>6, <2>1, <3>2, Zenon
  <2>2. CASE ~(i \in 1..n)
    <3>1. received \in acked..received  OBVIOUS
    <3> QED  BY <1>4, <1>6, <2>2, <3>1, Zenon
  <2> QED  BY <2>1, <2>2
<1>7. ASSUME NEW i \in 1..(n + l), NEW j \in 1..(n + l), i < j, Acks(new[i]), Acks(new[j])
      PROVE  new[i].ack <= new[j].ack
  <2>1. CASE j \in 1..n
    <3>1. i \in 1..n  BY <1>7, <2>1
    <3>2. ch[i].ack <= ch[j].ack  BY <1>3, <1>5, <1>7, <2>1, <3>1
    <3> QED  BY <1>5, <1>7, <2>1, <3>1, <3>2, Zenon
  <2>2. CASE ~(j \in 1..n)
    <3>1. new[j].ack = received  BY <1>4, <1>7, <2>2
    <3>2. new[i].ack \in acked..received  BY <1>6, <1>7
    <3> QED  BY <3>1, <3>2
  <2> QED  BY <2>1, <2>2
<1>8. Acknowledges(new, acked, received)  BY <1>2, <1>6, <1>7, Zenon DEF Acknowledges
<1> QED  BY <1>8 DEF new

-----------------------------------------------------------------------------
(* Steps that transmit, deliver and acknowledge no ASDU. *)

LEMMA FlowTypes ==
    ASSUME TypeOK, NEW e \in Station
    PROVE  /\ Peer(e) \in Station /\ Peer(e) # e /\ Peer(Peer(e)) = e
           /\ sent[e] \in Seq(Asdu) /\ delivered[e] \in Seq(Asdu) /\ ackw_q[e] \in Seq(Seqno)
           /\ net[e] \in Seq(Frame)
           /\ Len(sent[e]) \in Nat /\ Len(delivered[e]) \in Nat /\ Len(ackw_q[e]) \in Nat
           /\ vs[e] \in Seqno /\ vr[e] \in Seqno /\ v_ack[e] \in Seqno
  BY PeerIsStation DEF TypeOK

LEMMA AckedType ==
    ASSUME TypeOK, NEW e \in Station, Flow(e)
    PROVE  /\ Acked(e) \in Nat /\ Acked(e) <= Len(delivered[Peer(e)])
           /\ Len(delivered[Peer(e)]) <= Len(sent[e])
           /\ Len(sent[e]) - Acked(e) = Len(ackw_q[e]) /\ Len(ackw_q[e]) <= K
           /\ Acked(e) <= Len(sent[e]) /\ Len(sent[e]) - Acked(e) < Mod
           /\ v_ack[e] = Acked(e) % Mod
           /\ vs[e] = Len(sent[e]) % Mod
           /\ vr[Peer(e)] = Len(delivered[Peer(e)]) % Mod
<1>1. /\ Len(sent[e]) \in Nat /\ Len(delivered[Peer(e)]) \in Nat /\ Len(ackw_q[e]) \in Nat
  BY FlowTypes
<1>2. Window(sent[e], delivered[Peer(e)], ackw_q[e])  BY Zenon DEF Flow
<1>3. Counters(sent[e], delivered[Peer(e)], ackw_q[e], vs[e], vr[Peer(e)], v_ack[e])
  BY Zenon DEF Flow
<1>4. v_ack[e] = Acked(e) % Mod /\ vs[e] = Len(sent[e]) % Mod
      /\ vr[Peer(e)] = Len(delivered[Peer(e)]) % Mod
  BY <1>3, Zenon DEF Counters, Acked
<1>5. PICK o \in Nat, i \in Nat, w \in Nat :
        o = Len(sent[e]) /\ i = Len(delivered[Peer(e)]) /\ w = Len(ackw_q[e])
  BY <1>1
<1>6. Acked(e) = o - w  BY <1>5, Zenon DEF Acked
<1>7. w <= K /\ w <= o /\ o - w <= i /\ i <= o  BY <1>2, <1>5, Zenon DEF Window
<1>8. PICK a \in Nat : a = o - w  BY <1>7
<1>9. a <= i /\ a <= o /\ o - a = w /\ o - a < Mod  BY <1>7, <1>8, ModIsPositive
<1> QED  BY <1>4, <1>5, <1>6, <1>7, <1>8, <1>9

\* A frame e may write when it transmits nothing: it acknowledges what it received.
Control(e, f) ==
    /\ f \in Frame /\ f.kind # "I"
    /\ Acks(f) => f.ack = Len(delivered[e]) /\ f.nr = vr[e]

\* What may become of the channel of e without an ASDU being sent or received.
QuietNet(e) ==
    \/ net'[e] = net[e]
    \/ net'[e] = <<>> /\ ~Alive(Peer(e))'
    \/ net[e] # <<>> /\ Head(net[e]).kind # "I" /\ net'[e] = Tail(net[e])
    \/ \E f : Control(e, f) /\ net'[e] = net[e] \o <<f>>

LEMMA EmptyChannel ==
    /\ \A out, got : Carries(<<>>, out, got)
    /\ \A acked, received : Acknowledges(<<>>, acked, received)
  BY DEF Carries, Acknowledges

LEMMA QuietCarries ==
    ASSUME TypeOK, NEW e \in Station, Flow(e), QuietNet(e), Alive(Peer(e))' => Alive(Peer(e))
    PROVE  /\ Carries(net'[e], sent[e], Len(delivered[Peer(e)]))
           /\ Alive(Peer(e))' => Complete(net'[e], sent[e], Len(delivered[Peer(e)]))
<1>1. net[e] \in Seq(Frame)  BY FlowTypes
<1>2. PICK out, got : out = sent[e] /\ got = Len(delivered[Peer(e)])  OBVIOUS
<1>3. Carries(net[e], out, got) /\ (Alive(Peer(e))' => Complete(net[e], out, got))
  BY <1>2, Zenon DEF Flow
<1>4. CASE net'[e] = net[e]  BY <1>2, <1>3, <1>4, Zenon
<1>5. CASE net'[e] = <<>> /\ ~Alive(Peer(e))'  BY <1>5, EmptyChannel, Zenon
<1>6. CASE net[e] # <<>> /\ Head(net[e]).kind # "I" /\ net'[e] = Tail(net[e])
  BY <1>1, <1>2, <1>3, <1>6, OtherFrameTaken, Zenon
<1>7. CASE \E f : Control(e, f) /\ net'[e] = net[e] \o <<f>>
  <2>1. PICK f : Control(e, f) /\ net'[e] = net[e] \o <<f>>  BY <1>7
  <2>2. <<f>> \in Seq(Frame) /\ \A i \in 1..Len(<<f>>) : <<f>>[i].kind # "I"
    BY <2>1 DEF Control
  <2> QED  BY <1>1, <1>2, <1>3, <2>1, <2>2, OtherFramesAdded, Zenon
<1> QED  BY <1>4, <1>5, <1>6, <1>7, Zenon DEF QuietNet

LEMMA QuietAcks ==
    ASSUME TypeOK, NEW e \in Station, Flow(e), QuietNet(Peer(e))
    PROVE  Acknowledges(net'[Peer(e)], Acked(e), Len(delivered[Peer(e)]))
<1> DEFINE d == Peer(e)
<1>1. d \in Station /\ net[d] \in Seq(Frame)  BY FlowTypes
<1>2. PICK acked \in Nat, got \in Nat : acked = Acked(e) /\ got = Len(delivered[d])
  BY <1>1, AckedType, FlowTypes
<1>3. acked <= got /\ vr[d] = got % Mod  BY <1>2, AckedType
<1> HIDE DEF d
<1>4. Acknowledges(net[d], acked, got)  BY <1>2, Zenon DEF Flow, d
<1>5. CASE net'[d] = net[d]  BY <1>2, <1>4, <1>5, Zenon DEF d
<1>6. CASE net'[d] = <<>>  BY <1>6, EmptyChannel, Zenon DEF d
<1>7. CASE net[d] # <<>> /\ net'[d] = Tail(net[d])
  BY <1>1, <1>2, <1>4, <1>7, NextAck, Zenon DEF d
<1>8. CASE \E f : Control(d, f) /\ net'[d] = net[d] \o <<f>>
  <2>1. PICK f : Control(d, f) /\ net'[d] = net[d] \o <<f>>  BY <1>8
  <2>2. /\ <<f>> \in Seq(Frame)
        /\ \A i \in 1..Len(<<f>>) : Acks(<<f>>[i]) =>
                <<f>>[i].ack = got /\ <<f>>[i].nr = got % Mod
    <3>1. Acks(f) => f.ack = got /\ f.nr = got % Mod
      BY <1>2, <1>3, <2>1, Zenon DEF Control
    <3>2. f \in Frame  BY <2>1, Zenon DEF Control
    <3>3. <<f>> \in Seq(Frame) /\ \A i \in 1..Len(<<f>>) : <<f>>[i] = f  BY <3>2
    <3> QED  BY <3>1, <3>3, Zenon
  <2>3. Acknowledges(net[d] \o <<f>>, acked, got)
    <3>1. got <= got  OBVIOUS
    <3> QED  BY <1>1, <1>3, <1>4, <2>2, <3>1, AcksAdded, Zenon
  <2> QED  BY <1>2, <2>1, <2>3, Zenon DEF d
<1> QED  BY <1>5, <1>6, <1>7, <1>8, Zenon DEF QuietNet, d

LEMMA QuietFlow ==
    ASSUME TypeOK, NEW e \in Station, Flow(e), QuietNet(e), QuietNet(Peer(e)),
           Alive(Peer(e))' => Alive(Peer(e)),
           sent'[e] = sent[e], ackw_q'[e] = ackw_q[e], vs'[e] = vs[e], v_ack'[e] = v_ack[e],
           delivered'[Peer(e)] = delivered[Peer(e)], vr'[Peer(e)] = vr[Peer(e)]
    PROVE  Flow(e)'
<1>1. /\ Window(sent[e], delivered[Peer(e)], ackw_q[e])
      /\ Prefix(delivered[Peer(e)], sent[e])
      /\ Counters(sent[e], delivered[Peer(e)], ackw_q[e], vs[e], vr[Peer(e)], v_ack[e])
  BY Zenon DEF Flow
<1>2. Acked(e)' = Acked(e)  BY DEF Acked
<1>3. Peer(e)' = Peer(e)  OBVIOUS
<1> QED  BY <1>1, <1>2, <1>3, QuietCarries, QuietAcks, Zenon DEF Flow

\* The channels after a step that reads a frame and writes at most one.
LEMMA AnswerNet ==
    ASSUME TypeOK, NEW e \in Station, Receivable(e), NEW out \in Seq(Frame), net' = Answer(e, out)
    PROVE  /\ net[Peer(e)] # <<>> /\ Incoming(e) = Head(net[Peer(e)])
           /\ net'[Peer(e)] = Tail(net[Peer(e)]) /\ net'[e] = net[e] \o out
           /\ \A d \in Station : d = e \/ d = Peer(e)
<1>1. \A d \in Station : d = e \/ d = Peer(e)  BY DEF Station, Peer
<1> QED  BY <1>1, FlowTypes DEF TypeOK, Receivable, Incoming, Answer

LEMMA QuietAnswer ==
    ASSUME TypeOK, NEW e \in Station, Receivable(e), Incoming(e).kind # "I",
           NEW out \in Seq(Frame), net' = Answer(e, out),
           out = <<>> \/ \E f : Control(e, f) /\ out = <<f>>
    PROVE  \A d \in Station : QuietNet(d)
<1>1. /\ net[Peer(e)] # <<>> /\ Incoming(e) = Head(net[Peer(e)])
      /\ net'[Peer(e)] = Tail(net[Peer(e)]) /\ net'[e] = net[e] \o out
      /\ \A d \in Station : d = e \/ d = Peer(e)
  BY AnswerNet
<1>2. QuietNet(Peer(e))  BY <1>1, Zenon DEF QuietNet
<1>3. QuietNet(e)
  <2>1. CASE out = <<>>
    <3>1. net[e] \in Seq(Frame)  BY FlowTypes
    <3>2. net'[e] = net[e]  BY <1>1, <2>1, <3>1
    <3> QED  BY <3>2, Zenon DEF QuietNet
  <2> QED  BY <1>1, <2>1, Zenon DEF QuietNet
<1> QED  BY <1>1, <1>2, <1>3, Zenon

LEMMA QuietWrite ==
    ASSUME TypeOK, NEW e \in Station, NEW f, Control(e, f), net' = [net EXCEPT ![e] = Append(@, f)]
    PROVE  \A d \in Station : QuietNet(d)
<1>1. net[e] \in Seq(Frame) /\ f \in Frame  BY FlowTypes DEF Control
<1>2. net'[e] = net[e] \o <<f>>  BY <1>1 DEF TypeOK
<1>3. \A d \in Station \ {e} : net'[d] = net[d]  BY DEF TypeOK
<1> QED  BY <1>2, <1>3, Zenon DEF QuietNet

LEMMA ControlFrames ==
    ASSUME TypeOK, NEW e \in Station
    PROVE  /\ \A func \in UFunc : Control(e, UFrame(func))
           /\ Control(e, SFrame(e))
<1>1. ASSUME NEW func \in UFunc PROVE Control(e, UFrame(func))
  BY <1>1 DEF Control, UFrame, UFunc, Frame, UFrames, Acks
<1>2. Control(e, SFrame(e))
  BY FlowTypes DEF Control, SFrame, Frame, SFrames, Acks
<1> QED  BY <1>1, <1>2

\* The steps that leave the flow of ASDUs and the connection of the others alone.
NoTransfer ==
    /\ \A d \in Station : QuietNet(d) /\ (Alive(d)' => Alive(d))
    /\ UNCHANGED <<sent, delivered, ackw_q, vs, vr, v_ack>>

LEMMA ExitQuiet ==
    ASSUME TypeOK, NEW e \in Station, NEW why \in Causes, Exit(e, why)
    PROVE  NoTransfer
<1>1. link' = [link EXCEPT ![e] = why] /\ net' = [net EXCEPT ![Peer(e)] = <<>>]
      /\ UNCHANGED <<sent, delivered, ackw_q, vs, vr, v_ack>>
  BY DEF Exit, seqnos
<1>2. ~Alive(e)' /\ \A d \in Station \ {e} : link'[d] = link[d]
  BY <1>1 DEF TypeOK, Alive
<1>3. \A d \in Station : Alive(d)' => Alive(d)  BY <1>2 DEF Alive
<1>4. net'[Peer(e)] = <<>> /\ net'[e] = net[e] /\ Peer(Peer(e)) = e
  BY <1>1, FlowTypes DEF TypeOK
<1>5. \A d \in Station : d = e \/ d = Peer(e)  BY DEF Station, Peer
<1>6. \A d \in Station : QuietNet(d)  BY <1>2, <1>4, <1>5, Zenon DEF QuietNet
<1> QED  BY <1>1, <1>3, <1>6, Zenon DEF NoTransfer

LEMMA QuietFlows ==
    ASSUME TypeOK, \A e \in Station : Flow(e), NoTransfer
    PROVE  \A e \in Station : Flow(e)'
<1> SUFFICES ASSUME NEW e \in Station PROVE Flow(e)'  OBVIOUS
<1>1. Peer(e) \in Station  BY FlowTypes
<1> QED  BY <1>1, QuietFlow, Zenon DEF NoTransfer

\* Every step of a station but a run of its send queues and the taking of an I or
\* S frame is one of those; a frame of another kind than U has the number it must.
LEMMA UFrameQuiet ==
    ASSUME TypeOK, NEW e \in Station,
           RecvStartAct(e) \/ RecvStartCon(e) \/ RecvTestAct(e) \/ RecvTestCon(e)
    PROVE  NoTransfer
<1>1. ASSUME Receivable(e), Incoming(e).kind # "I", UNCHANGED <<link, seqnos>>,
             NEW out \in {<<>>, <<UFrame("STARTDTCON")>>, <<UFrame("TESTFRCON")>>},
             net' = Answer(e, out)
      PROVE  NoTransfer
  <2>1. out = <<>> \/ \E f : Control(e, f) /\ out = <<f>>
    BY <1>1, ControlFrames DEF UFunc
  <2>2. out \in Seq(Frame)
    <3>1. \A f \in Frame : <<f>> \in Seq(Frame)  OBVIOUS
    <3>2. <<>> \in Seq(Frame)  OBVIOUS
    <3> QED  BY <2>1, <3>1, <3>2, Zenon DEF Control
  <2>3. \A d \in Station : QuietNet(d)  BY <1>1, <2>1, <2>2, QuietAnswer
  <2> QED  BY <1>1, <2>3 DEF NoTransfer, Alive, seqnos
<1>2. CASE RecvStartAct(e)
  BY <1>1, <1>2, ExitQuiet DEF RecvStartAct, Start, Gets, Causes, session
<1>3. CASE RecvStartCon(e)
  BY <1>1, <1>3, ExitQuiet DEF RecvStartCon, Start, Gets, Causes, session
<1>4. CASE RecvTestAct(e)
  BY <1>1, <1>4 DEF RecvTestAct, Gets, session
<1>5. CASE RecvTestCon(e)
  BY <1>1, <1>5, ExitQuiet DEF RecvTestCon, Tested, Gets, Causes, session
<1> QED  BY <1>2, <1>3, <1>4, <1>5

LEMMA TimerQuiet ==
    ASSUME TypeOK, NEW e \in Station,
           T0Expire(e) \/ T1Expire(e) \/ T2Expire(e) \/ T3Expire(e)
    PROVE  NoTransfer
<1>1. CASE T0Expire(e) \/ T1Expire(e)  BY <1>1, ExitQuiet DEF T0Expire, T1Expire, Causes
<1>2. CASE T2Expire(e)
  <2>1. \A d \in Station : QuietNet(d)
    BY <1>2, ControlFrames, QuietWrite DEF T2Expire
  <2> QED  BY <1>2, <2>1 DEF T2Expire, NoTransfer, Alive, session
<1>3. CASE T3Expire(e)
  <2>1. \A d \in Station : QuietNet(d)
    BY <1>3, ControlFrames, QuietWrite DEF T3Expire, UFunc
  <2> QED  BY <1>3, <2>1 DEF T3Expire, NoTransfer, Alive, session, seqnos
<1> QED  BY <1>1, <1>2, <1>3

LEMMA ConnectionQuiet ==
    ASSUME TypeOK, Connect \/ ConnectFails \/ Accept \/ Cut \/ Tick \/ UNCHANGED vars
    PROVE  NoTransfer
<1>1. ASSUME UNCHANGED <<net, seqnos>>, \A d \in Station : Alive(d)' => Alive(d)
      PROVE  NoTransfer
  BY <1>1 DEF NoTransfer, QuietNet, seqnos
<1>2. CASE Connect
  <2>1. \A d \in Station : QuietNet(d)
    BY <1>2, ControlFrames, QuietWrite DEF Connect, UFunc, Station
  <2>2. \A d \in Station : Alive(d)' => Alive(d)
    BY <1>2 DEF Connect, TypeOK, Alive, Station, Causes
  <2> QED  BY <1>2, <2>1, <2>2 DEF Connect, NoTransfer, seqnos
<1>3. CASE ConnectFails  BY <1>3, ExitQuiet DEF ConnectFails, Station, Causes
<1>4. CASE Accept
  <2>1. \A d \in Station : Alive(d)' => Alive(d)
    BY <1>4 DEF Accept, TypeOK, Alive, Station, Causes
  <2> QED  BY <1>1, <1>4, <2>1 DEF Accept
<1>5. CASE Cut \/ Tick \/ UNCHANGED vars
  BY <1>1, <1>5 DEF Cut, Tick, vars, session, Alive
<1> QED  BY <1>2, <1>3, <1>4, <1>5

-----------------------------------------------------------------------------
(* Acknowledgements. *)

\* The N(R) of the next frame passes check_nr and leaves in ackw_q exactly the
\* frames sent after the ASDUs it acknowledges.
LEMMA AckTaken ==
    ASSUME TypeOK, NEW e \in Station, Flow(e), Receivable(e), Acks(Incoming(e))
    PROVE  LET f == Incoming(e)
               queue == AfterAck(ackw_q[e], f.nr)
           IN  /\ f.ack \in Acked(e)..Len(delivered[Peer(e)]) /\ f.nr = f.ack % Mod
               /\ check_nr(e, f.nr)
               /\ queue \in Seq(Seqno) /\ Len(queue) = Len(sent[e]) - f.ack
               /\ \A i \in 1..Len(queue) : queue[i] = (f.ack + i - 1) % Mod
               /\ Acknowledges(Tail(net[Peer(e)]), f.ack, Len(delivered[Peer(e)]))
<1> DEFINE f == Incoming(e)
<1>1. PICK acked \in Nat, got \in Nat, all \in Nat, w \in Nat :
        /\ acked = Acked(e) /\ got = Len(delivered[Peer(e)]) /\ all = Len(sent[e])
        /\ w = Len(ackw_q[e])
  BY AckedType, FlowTypes
<1>2. /\ acked <= got /\ got <= all /\ all - acked = w /\ w < Mod /\ w <= K
      /\ Mod \in Nat
  BY <1>1, AckedType, ModIsPositive
<1>3. net[Peer(e)] \in Seq(Frame) /\ net[Peer(e)] # <<>> /\ f = Head(net[Peer(e)])
  BY FlowTypes DEF Receivable, Incoming
<1> HIDE DEF f
<1>4. Acknowledges(net[Peer(e)], acked, got)  BY <1>1, Zenon DEF Flow
<1>5. /\ f.ack \in acked..got /\ f.nr = f.ack % Mod
      /\ Acknowledges(Tail(net[Peer(e)]), f.ack, got)
  BY <1>3, <1>4, NextAck, Zenon DEF f
<1>6. PICK ack \in Nat : ack = f.ack /\ acked <= ack /\ ack <= got
  <2>1. \A x \in acked..got : x \in Nat /\ acked <= x /\ x <= got  OBVIOUS
  <2> QED  BY <1>5, <2>1, Zenon
<1>7. check_nr(e, f.nr)
  <2>1. acked <= all /\ all - acked < Mod /\ ack - acked < Mod  BY <1>2, <1>6
  <2>2. v_ack[e] = acked % Mod /\ vs[e] = all % Mod /\ f.nr = ack % Mod
    BY <1>1, <1>5, <1>6, AckedType, Zenon
  <2>3. Dist(v_ack[e], f.nr) = ack - acked  BY <1>6, <2>1, <2>2, DistOfPositions, Zenon
  <2>4. Dist(v_ack[e], vs[e]) = all - acked  BY <2>1, <2>2, DistOfPositions, Zenon
  <2>5. ack - acked <= all - acked  BY <1>2, <1>6
  <2> QED  BY <2>3, <2>4, <2>5, Zenon DEF check_nr
<1>8. \A i \in 1..w : ackw_q[e][i] = (acked + i - 1) % Mod
  BY <1>1, Zenon DEF Flow, Counters, Acked
<1>9. ack \in acked..(acked + w) /\ ackw_q[e] \in Seq(Seqno) /\ w - (ack - acked) = all - ack
  BY <1>2, <1>6, FlowTypes
<1>10. LET queue == AfterAck(ackw_q[e], f.nr)
       IN  /\ queue \in Seq(Seqno) /\ Len(queue) = all - ack
           /\ \A i \in 1..Len(queue) : queue[i] = (ack + i - 1) % Mod
  <2>1. f.nr = ack % Mod  BY <1>5, <1>6, Zenon
  <2>2. /\ AfterAck(ackw_q[e], ack % Mod) \in Seq(Seqno)
        /\ Len(AfterAck(ackw_q[e], ack % Mod)) = w - (ack - acked)
        /\ \A i \in 1..Len(AfterAck(ackw_q[e], ack % Mod)) :
                AfterAck(ackw_q[e], ack % Mod)[i] = (ack + i - 1) % Mod
    <3>1. /\ ack \in acked..(acked + Len(ackw_q[e])) /\ Len(ackw_q[e]) < Mod
          /\ \A i \in 1..Len(ackw_q[e]) : ackw_q[e][i] = (acked + i - 1) % Mod
      BY <1>1, <1>2, <1>8, <1>9, Zenon
    <3>2. Len(AfterAck(ackw_q[e], ack % Mod)) = Len(ackw_q[e]) - (ack - acked)
      BY <1>9, <3>1, AfterAckNumbers, Zenon
    <3> QED  BY <1>1, <1>9, <3>1, <3>2, AfterAckNumbers, Zenon
  <2> QED  BY <1>9, <2>1, <2>2, Zenon
<1> QED  BY <1>1, <1>5, <1>6, <1>7, <1>10, Zenon DEF f

LEMMA AckFlow ==
    ASSUME TypeOK, NEW e \in Station, Flow(e), Receivable(e), Acks(Incoming(e)),
           ackw_q'[e] = AfterAck(ackw_q[e], Incoming(e).nr), v_ack'[e] = Incoming(e).nr,
           sent'[e] = sent[e], vs'[e] = vs[e],
           delivered'[Peer(e)] = delivered[Peer(e)], vr'[Peer(e)] = vr[Peer(e)],
           net'[Peer(e)] = Tail(net[Peer(e)]),
           Carries(net'[e], sent[e], Len(delivered[Peer(e)])),
           Alive(Peer(e))' => Complete(net'[e], sent[e], Len(delivered[Peer(e)]))
    PROVE  Flow(e)'
<1>1. PICK acked \in Nat, got \in Nat, all \in Nat, w \in Nat :
        /\ acked = Acked(e) /\ got = Len(delivered[Peer(e)]) /\ all = Len(sent[e])
        /\ w = Len(ackw_q[e])
  BY AckedType, FlowTypes
<1>2. acked <= got /\ got <= all /\ all - acked = w /\ w <= K /\ K \in Nat
  BY <1>1, AckedType, ModIsPositive
<1>3. PICK ack \in acked..got :
        /\ ack = Incoming(e).ack /\ Incoming(e).nr = ack % Mod
        /\ Len(ackw_q'[e]) = all - ack
        /\ \A i \in 1..(all - ack) : ackw_q'[e][i] = (ack + i - 1) % Mod
        /\ Acknowledges(net'[Peer(e)], ack, got)
  <2> DEFINE f == Incoming(e)
             queue == AfterAck(ackw_q[e], f.nr)
  <2>1. /\ f.ack \in acked..got /\ f.nr = f.ack % Mod
        /\ Len(queue) = all - f.ack
        /\ \A i \in 1..Len(queue) : queue[i] = (f.ack + i - 1) % Mod
        /\ Acknowledges(Tail(net[Peer(e)]), f.ack, got)
    BY <1>1, AckTaken, Zenon
  <2>2. queue = ackw_q'[e]  OBVIOUS
  <2> HIDE DEF f, queue
  <2> QED  BY <2>1, <2>2, Zenon DEF f
<1>4. all - (all - ack) = ack /\ all - ack <= K /\ all - ack <= all /\ ack <= got
  BY <1>2
<1>5. Window(sent'[e], delivered'[Peer(e)], ackw_q'[e])
  BY <1>1, <1>2, <1>3, <1>4, Zenon DEF Window
<1>6. Counters(sent'[e], delivered'[Peer(e)], ackw_q'[e], vs'[e], vr'[Peer(e)], v_ack'[e])
  <2>1. vs[e] = all % Mod /\ vr[Peer(e)] = got % Mod  BY <1>1, AckedType
  <2> QED  BY <1>1, <1>3, <1>4, <2>1, Zenon DEF Counters
<1>7. Acked(e)' = ack  BY <1>1, <1>3, <1>4 DEF Acked
<1>8. Prefix(delivered[Peer(e)], sent[e])  BY Zenon DEF Flow
<1>9. Peer(e)' = Peer(e)  OBVIOUS
<1> QED  BY <1>1, <1>3, <1>5, <1>6, <1>7, <1>8, <1>9, Zenon DEF Flow

LEMMA TakeSFlow ==
    ASSUME TypeOK, \A d \in Station : Flow(d), NEW e \in Station, Gets(e, "S"), TakeS(e)
    PROVE  \A d \in Station : Flow(d)'
<1> DEFINE p == Peer(e)
<1>1. p \in Station /\ p # e /\ Peer(p) = e /\ \A d \in Station : d = e \/ d = p
  BY FlowTypes DEF Station, Peer
<1>2. Receivable(e) /\ Incoming(e).kind # "I" /\ Acks(Incoming(e)) /\ net' = Answer(e, <<>>)
  BY DEF Gets, TakeS, Acks
<1>3. <<>> \in Seq(Frame)  OBVIOUS
<1>4. QuietNet(e) /\ QuietNet(p)  BY <1>1, <1>2, <1>3, QuietAnswer
<1>5. net'[p] = Tail(net[p])  BY <1>2, <1>3, AnswerNet
<1>6. /\ ackw_q' = [ackw_q EXCEPT ![e] = AfterAck(@, Incoming(e).nr)]
      /\ v_ack' = [v_ack EXCEPT ![e] = Incoming(e).nr]
      /\ UNCHANGED <<link, vs, vr, sent, delivered>>
  BY DEF TakeS, Acknowledge, session
<1>7. /\ ackw_q'[e] = AfterAck(ackw_q[e], Incoming(e).nr) /\ v_ack'[e] = Incoming(e).nr
      /\ ackw_q'[p] = ackw_q[p] /\ v_ack'[p] = v_ack[p]
  BY <1>1, <1>6 DEF TypeOK
<1>8. \A d \in Station : Alive(d)' <=> Alive(d)  BY <1>6 DEF Alive
<1>9. Flow(e)'
  <2>1. /\ Carries(net'[e], sent[e], Len(delivered[p]))
        /\ Alive(p)' => Complete(net'[e], sent[e], Len(delivered[p]))
    BY <1>1, <1>4, <1>8, QuietCarries
  <2> QED  BY <1>1, <1>2, <1>5, <1>6, <1>7, <2>1, AckFlow
<1>10. Flow(p)'
  <2>1. Flow(p) /\ QuietNet(p) /\ QuietNet(Peer(p)) /\ (Alive(Peer(p))' => Alive(Peer(p)))
    BY <1>1, <1>4, <1>8
  <2> HIDE DEF p
  <2> QED  BY <1>1, <1>6, <1>7, <2>1, QuietFlow
<1> QED  BY <1>1, <1>9, <1>10, Zenon

\* What the station is handed is the next ASDU its peer has transmitted.
LEMMA Delivers ==
    ASSUME TypeOK, NEW e \in Station, Flow(Peer(e)), Gets(e, "I")
    PROVE  LET p == Peer(e)
               f == Incoming(e)
               got == Len(delivered[e])
           IN  /\ got + 1 <= Len(sent[p]) /\ f.ns = vr[e] /\ f.asdu = sent[p][got + 1]
               /\ Carries(Tail(net[p]), sent[p], got + 1)
               /\ Complete(Tail(net[p]), sent[p], got + 1)
<1> DEFINE p == Peer(e)
           f == Incoming(e)
           got == Len(delivered[e])
<1>1. p \in Station /\ Peer(p) = e  BY FlowTypes
<1>2. net[p] \in Seq(Frame) /\ sent[p] \in Seq(Asdu) /\ got \in Nat  BY <1>1, FlowTypes
<1>3. net[p] # <<>> /\ f = Head(net[p]) /\ f.kind = "I" /\ Alive(e)
  BY DEF Gets, Receivable, Incoming, Alive, Causes
<1>4. Carries(net[p], sent[p], got) /\ Complete(net[p], sent[p], got)
  BY <1>1, <1>3, Zenon DEF Flow
<1>5. got <= Len(sent[p]) /\ vr[e] = got % Mod  BY <1>1, AckedType, Zenon
<1> HIDE DEF p, f, got
<1>6. /\ got + 1 <= Len(sent[p]) /\ f.ns = got % Mod /\ f.asdu = sent[p][got + 1]
      /\ Carries(Tail(net[p]), sent[p], got + 1)
      /\ Complete(Tail(net[p]), sent[p], got + 1)
  BY <1>2, <1>3, <1>4, <1>5, NextFrame, Zenon
<1> QED  BY <1>5, <1>6, Zenon DEF p, f, got

LEMMA TakeIFlow ==
    ASSUME TypeOK, \A d \in Station : Flow(d), NEW e \in Station, Gets(e, "I"), TakeI(e)
    PROVE  \A d \in Station : Flow(d)'
<1> DEFINE p == Peer(e)
           f == Incoming(e)
           next == Plus(vr[e], 1)
           ackn == [kind |-> "S", nr |-> next, ack |-> Len(delivered[e]) + 1]
           out == IF OwesAck(e) THEN <<ackn>> ELSE <<>>
<1>1. p \in Station /\ p # e /\ Peer(p) = e /\ \A d \in Station : d = e \/ d = p
  BY FlowTypes DEF Station, Peer
<1>2. Receivable(e) /\ Acks(f) /\ f \in IFrames
  BY IncomingFields DEF Gets, Acks
<1>3. /\ ackw_q' = [ackw_q EXCEPT ![e] = AfterAck(@, f.nr)]
      /\ v_ack' = [v_ack EXCEPT ![e] = f.nr]
      /\ vr' = [vr EXCEPT ![e] = next]
      /\ delivered' = [delivered EXCEPT ![e] = Append(@, f.asdu)]
      /\ net' = Answer(e, out)
      /\ UNCHANGED <<link, vs, sent>>
  BY DEF TakeI, Acknowledge, session
<1>4. PICK got \in Nat : got = Len(delivered[e])  BY FlowTypes
<1>5. next = (got + 1) % Mod
  <2>1. vr[e] = got % Mod  BY <1>1, <1>4, AckedType, Zenon
  <2>2. got + 1 \in Nat /\ 1 \in Nat  OBVIOUS
  <2> QED  BY <2>1, <2>2, PlusOfPosition, Zenon
<1>6. /\ out \in Seq(Frame)
      /\ \A i \in 1..Len(out) : out[i].kind # "I"
            /\ (Acks(out[i]) => out[i].ack = got + 1 /\ out[i].nr = next)
  <2>1. next \in Seqno
    <3>1. vr[e] + 1 \in Int  BY LinkAssumption DEF TypeOK, Seqno
    <3> QED  BY <3>1, ModIsSeqno DEF Plus
  <2>2. ackn \in Frame /\ ackn.kind # "I" /\ ackn.ack = got + 1 /\ ackn.nr = next
    BY <1>4, <2>1 DEF Frame, SFrames
  <2> HIDE DEF ackn, next
  <2> QED  BY <2>2
<1> HIDE DEF f, next, ackn, out
<1>7. /\ net[p] # <<>> /\ f = Head(net[p])
      /\ net'[p] = Tail(net[p]) /\ net'[e] = net[e] \o out
  BY <1>2, <1>3, <1>6, AnswerNet DEF f
<1>8. /\ ackw_q'[e] = AfterAck(ackw_q[e], f.nr) /\ v_ack'[e] = f.nr
      /\ ackw_q'[p] = ackw_q[p] /\ v_ack'[p] = v_ack[p]
      /\ delivered'[p] = delivered[p] /\ vr'[p] = vr[p]
      /\ delivered'[e] = Append(delivered[e], f.asdu) /\ vr'[e] = next
  BY <1>1, <1>3 DEF TypeOK
<1>9. \A d \in Station : Alive(d)' <=> Alive(d)  BY <1>3 DEF Alive
<1>10. Flow(e)'
  <2>1. net[e] \in Seq(Frame)  BY FlowTypes
  <2>2. /\ Carries(net[e], sent[e], Len(delivered[p]))
        /\ Alive(p)' => Complete(net[e], sent[e], Len(delivered[p]))
    BY <1>1, <1>9, Zenon DEF Flow
  <2>3. /\ Carries(net'[e], sent[e], Len(delivered[p]))
        /\ Alive(p)' => Complete(net'[e], sent[e], Len(delivered[p]))
    BY <1>6, <1>7, <2>1, <2>2, OtherFramesAdded, Zenon
  <2> QED  BY <1>1, <1>2, <1>3, <1>7, <1>8, <2>3, AckFlow DEF f
<1>11. Flow(p)'
  <2>1. /\ got + 1 <= Len(sent[p]) /\ f.asdu = sent[p][got + 1]
        /\ Carries(net'[p], sent[p], got + 1) /\ Complete(net'[p], sent[p], got + 1)
    BY <1>1, <1>4, <1>7, Delivers, Zenon DEF f
  <2>2. delivered[e] \in Seq(Asdu) /\ f.asdu \in Asdu
    BY <1>2, FlowTypes DEF IFrames
  <2>3. /\ Len(delivered'[e]) = got + 1 /\ delivered'[e][got + 1] = f.asdu
        /\ \A i \in 1..got : delivered'[e][i] = delivered[e][i]
        /\ \A i \in 1..(got + 1) : i \in 1..got \/ i = got + 1
    BY <1>4, <1>8, <2>2
  <2>4. Prefix(delivered'[e], sent[p])
    <3>1. \A i \in 1..got : delivered[e][i] = sent[p][i]
      BY <1>1, <1>4, Zenon DEF Flow, Prefix
    <3> QED  BY <2>1, <2>3, <3>1, Zenon DEF Prefix
  <2>5. PICK acked \in Nat, all \in Nat : acked = Acked(p) /\ all = Len(sent[p])
    BY <1>1, AckedType, FlowTypes
  <2>6. acked <= got /\ got <= got + 1 /\ acked <= got + 1 /\ got + 1 \in Nat
    BY <1>1, <1>4, <2>5, AckedType
  <2>7. Window(sent[p], delivered'[e], ackw_q[p])
    BY <1>1, <2>1, <2>3, <2>5, <2>6, Zenon DEF Window, Flow, Acked
  <2>8. Counters(sent[p], delivered'[e], ackw_q[p], vs[p], vr'[e], v_ack[p])
    BY <1>1, <1>5, <1>8, <2>3, Zenon DEF Counters, Flow
  <2>9. Acknowledges(net'[e], acked, got + 1)
    <3>1. Acknowledges(net[e], acked, got)  BY <1>1, <1>4, <2>5, Zenon DEF Flow
    <3>2. net[e] \in Seq(Frame)  BY FlowTypes
    <3>3. \A i \in 1..Len(out) : Acks(out[i]) =>
            out[i].ack = got + 1 /\ out[i].nr = (got + 1) % Mod
      BY <1>5, <1>6, Zenon
    <3> QED  BY <1>6, <1>7, <2>6, <3>1, <3>2, <3>3, AcksAdded, Zenon
  <2>10. Acked(p)' = acked  BY <1>3, <1>8, <2>5, Zenon DEF Acked
  <2>11. Peer(p)' = e  BY <1>1
  <2> QED
    BY <1>3, <1>8, <2>1, <2>3, <2>4, <2>7, <2>8, <2>9, <2>10, <2>11, Zenon DEF Flow
<1> QED  BY <1>1, <1>10, <1>11, Zenon

-----------------------------------------------------------------------------
(* A run of the send queues. *)

\* A run fits the window.
LEMMA RunFits ==
    ASSUME TypeOK, NEW e \in Station, Flow(e), RunSendQueues(e)
    PROVE  /\ SendCount(e) \in Nat \ {0} /\ SendCount(e) <= Len(ToSend(e))
           /\ ToSend(e) \in Seq(Asdu)
           /\ Len(ackw_q[e]) + SendCount(e) <= K
<1>1. PICK acked \in Nat, all \in Nat, w \in Nat :
        acked = Acked(e) /\ all = Len(sent[e]) /\ w = Len(ackw_q[e])
  BY AckedType, FlowTypes
<1>2. acked <= all /\ all - acked < Mod /\ all - acked = w  BY <1>1, AckedType
<1>3. v_ack[e] = acked % Mod /\ vs[e] = all % Mod  BY <1>1, AckedType
<1>4. Dist(v_ack[e], vs[e]) = w  BY <1>2, <1>3, DistOfPositions, Zenon
<1>5. can_queue(e) = K - w  BY <1>4, Zenon DEF can_queue
<1>6. /\ ToSend(e) \in Seq(Asdu) /\ SendCount(e) \in Int
      /\ SendCount(e) <= Len(ToSend(e)) /\ SendCount(e) <= can_queue(e)
  BY SendCountBound
<1>7. SendCount(e) > 0  BY DEF RunSendQueues
<1>8. K \in Nat  BY ModIsPositive
<1> QED  BY <1>1, <1>5, <1>6, <1>7, <1>8

LEMMA RunFlow ==
    ASSUME TypeOK, \A d \in Station : Flow(d), NEW e \in Station, RunSendQueues(e)
    PROVE  \A d \in Station : Flow(d)'
<1> DEFINE p == Peer(e)
           n == SendCount(e)
           q == ToSend(e)
           run == [i \in 1..n |-> IFrame(e, q, i)]
           numbers == [i \in 1..n |-> Plus(vs[e], i - 1)]
           more == SubSeq(q, 1, n)
<1>1. p \in Station /\ p # e /\ Peer(p) = e /\ \A d \in Station : d = e \/ d = p
  BY FlowTypes DEF Station, Peer
<1>2. n \in Nat \ {0} /\ n <= Len(q) /\ q \in Seq(Asdu) /\ Len(ackw_q[e]) + n <= K
  BY RunFits
<1>3. /\ net' = [net EXCEPT ![e] = @ \o run]
      /\ ackw_q' = [ackw_q EXCEPT ![e] = @ \o numbers]
      /\ vs' = [vs EXCEPT ![e] = Plus(@, n)]
      /\ sent' = [sent EXCEPT ![e] = @ \o more]
      /\ UNCHANGED <<link, vr, v_ack, delivered>>
  BY DEF RunSendQueues, session
<1> HIDE DEF p, n, q
<1>4. run \in Seq(Frame) /\ numbers \in Seq(Seqno) /\ more \in Seq(Asdu)
  BY <1>2, RunFrames
<1>5. Len(run) = n /\ Len(numbers) = n /\ Len(more) = n /\ \A i \in 1..n : more[i] = q[i]
  BY <1>2
<1>6. PICK all \in Nat, got \in Nat, w \in Nat, back \in Nat :
        /\ all = Len(sent[e]) /\ got = Len(delivered[p]) /\ w = Len(ackw_q[e])
        /\ back = Len(delivered[e])
  BY <1>1, FlowTypes
<1>7. vs[e] = all % Mod /\ vr[e] = back % Mod  BY <1>1, <1>6, AckedType, Zenon
<1>8. ASSUME NEW i \in 1..n
      PROVE  /\ run[i].kind = "I" /\ run[i].num = all + i /\ run[i].ns = (all + i - 1) % Mod
             /\ run[i].asdu = more[i] /\ run[i].ack = back /\ run[i].nr = back % Mod
             /\ numbers[i] = (all + i - 1) % Mod
  <2>1. i - 1 \in Nat /\ all + (i - 1) = all + i - 1  BY <1>2
  <2>2. Plus(vs[e], i - 1) = (all + i - 1) % Mod  BY <1>7, <2>1, PlusOfPosition, Zenon
  <2>3. vs[e] \in Int  BY FlowTypes, LinkAssumption DEF Seqno
  <2>4. vs[e] + (i - 1) = vs[e] + i - 1  BY <1>2, <2>3
  <2>5. (vs[e] + i - 1) % Mod = (all + i - 1) % Mod  BY <2>2, <2>4, Zenon DEF Plus
  <2>6. run[i] = IFrame(e, q, i) /\ numbers[i] = Plus(vs[e], i - 1)  OBVIOUS
  <2>7. /\ run[i].kind = "I" /\ run[i].ns = (vs[e] + i - 1) % Mod /\ run[i].nr = vr[e]
        /\ run[i].asdu = q[i] /\ run[i].num = Len(sent[e]) + i
        /\ run[i].ack = Len(delivered[e])
    BY <2>6 DEF IFrame
  <2> HIDE DEF run, numbers, more
  <2> QED  BY <1>5, <1>6, <1>7, <2>2, <2>5, <2>6, <2>7, Zenon
<1> HIDE DEF run, numbers, more
<1>9. /\ net'[e] = net[e] \o run /\ net'[p] = net[p]
      /\ ackw_q'[e] = ackw_q[e] \o numbers /\ ackw_q'[p] = ackw_q[p]
      /\ vs'[e] = Plus(vs[e], n) /\ vs'[p] = vs[p]
      /\ sent'[e] = sent[e] \o more /\ sent'[p] = sent[p]
  BY <1>1, <1>3 DEF TypeOK
<1>10. /\ net[e] \in Seq(Frame) /\ ackw_q[e] \in Seq(Seqno) /\ sent[e] \in Seq(Asdu)
  BY FlowTypes
<1>11. \A d \in Station : Alive(d)' <=> Alive(d)  BY <1>3 DEF Alive
<1>12. Flow(e)'
  <2>1. PICK acked \in Nat : acked = Acked(e)  BY AckedType
  <2>2. acked <= got /\ got <= all /\ all - acked = w /\ w + n <= K /\ K \in Nat
        /\ w <= all
    <3>1. /\ acked <= got /\ got <= all /\ all - acked = w
      BY <1>6, <2>1, AckedType, Zenon DEF p
    <3>2. Len(ackw_q[e]) + n <= K /\ Len(ackw_q[e]) = w /\ K \in Nat
      BY <1>2, <1>6, ModIsPositive, Zenon
    <3>3. w + n <= K  BY <3>2
    <3> QED  BY <3>1, <3>2, <3>3
  <2>3. /\ Len(sent'[e]) = all + n
        /\ \A i \in 1..all : sent'[e][i] = sent[e][i]
    <3>1. n = Len(more) /\ sent'[e] = sent[e] \o more  BY <1>5, <1>9
    <3> QED  BY <1>4, <1>6, <1>10, <3>1, JoinedFrames
  <2>4. /\ Len(ackw_q'[e]) = w + n
        /\ \A i \in 1..w : ackw_q'[e][i] = ackw_q[e][i]
        /\ \A i \in 1..n : ackw_q'[e][w + i] = numbers[i]
        /\ \A i \in 1..(w + n) : i \in 1..w \/ i - w \in 1..n
    <3>1. /\ Len(ackw_q'[e]) = w + n
          /\ \A i \in 1..w : ackw_q'[e][i] = ackw_q[e][i]
          /\ \A i \in 1..n : ackw_q'[e][w + i] = numbers[i]
      <4>1. n = Len(numbers) /\ ackw_q'[e] = ackw_q[e] \o numbers  BY <1>5, <1>9
      <4> QED  BY <1>4, <1>6, <1>10, <4>1, JoinedFrames
    <3>2. \A i \in 1..(w + n) : i \in 1..w \/ i - w \in 1..n  BY <1>2
    <3> QED  BY <3>1, <3>2
  <2>5. (all + n) - (w + n) = acked /\ got <= all + n /\ w + n <= all + n
    BY <1>2, <2>2
  <2>6. Window(sent'[e], delivered[p], ackw_q'[e])
    BY <1>6, <2>2, <2>3, <2>4, <2>5, Zenon DEF Window
  <2>7. Prefix(delivered[p], sent'[e])
    <3>1. \A i \in 1..got : delivered[p][i] = sent[e][i]
      BY <1>1, <1>6, Zenon DEF Flow, Prefix, p
    <3>2. \A i \in 1..got : i \in 1..all  BY <2>2
    <3> QED  BY <1>6, <2>3, <3>1, <3>2, Zenon DEF Prefix
  <2>8. vs'[e] = (all + n) % Mod  BY <1>2, <1>7, <1>9, PlusOfPosition, Zenon
  <2>9. ASSUME NEW i \in 1..(w + n) PROVE ackw_q'[e][i] = (acked + i - 1) % Mod
    <3>1. CASE i \in 1..w
      <4>1. \A j \in 1..w : ackw_q[e][j] = (acked + j - 1) % Mod
        BY <1>6, <2>1, Zenon DEF Flow, Counters, Acked
      <4> QED  BY <2>4, <3>1, <4>1, Zenon
    <3>2. CASE i - w \in 1..n
      <4>1. PICK j \in 1..n : j = i - w  BY <3>2
      <4>2. i = w + j  BY <1>2, <4>1
      <4>3. all + j - 1 = acked + i - 1  BY <1>2, <2>2, <4>2
      <4>4. ackw_q'[e][i] = numbers[j]  BY <2>4, <4>2, Zenon
      <4> QED  BY <1>8, <4>3, <4>4, Zenon
    <3> QED  BY <2>4, <3>1, <3>2, Zenon
  <2>10. vr[p] = got % Mod /\ v_ack[e] = acked % Mod
    BY <1>6, <2>1, AckedType, Zenon DEF p
  <2>11. Counters(sent'[e], delivered[p], ackw_q'[e], vs'[e], vr[p], v_ack[e])
    BY <1>6, <2>3, <2>4, <2>5, <2>8, <2>9, <2>10, Zenon DEF Counters
  <2>12. /\ Carries(net'[e], sent'[e], got)
         /\ Alive(p)' => Complete(net'[e], sent'[e], got)
    <3>1. Carries(net[e], sent[e], got) /\ (Alive(p) => Complete(net[e], sent[e], got))
      BY <1>6, Zenon DEF Flow, p
    <3>2. \A i \in 1..Len(run) :
            /\ run[i].kind = "I" /\ run[i].num = Len(sent[e]) + i
            /\ run[i].ns = (Len(sent[e]) + i - 1) % Mod /\ run[i].asdu = more[i]
      BY <1>5, <1>6, <1>8, Zenon
    <3>3. got <= Len(sent[e]) /\ Len(run) = Len(more)  BY <1>5, <1>6, <2>2, Zenon
    <3>4. /\ Carries(net[e], sent[e], got) => Carries(net[e] \o run, sent[e] \o more, got)
          /\ Complete(net[e], sent[e], got) => Complete(net[e] \o run, sent[e] \o more, got)
      <4> DEFINE ch == net[e]
                 out == sent[e]
      <4>1. ch \in Seq(Frame) /\ out \in Seq(Asdu) /\ got <= Len(out)  BY <1>10, <3>3, Zenon
      <4>2. \A i \in 1..Len(run) :
              /\ run[i].kind = "I" /\ run[i].num = Len(out) + i
              /\ run[i].ns = (Len(out) + i - 1) % Mod /\ run[i].asdu = more[i]
        BY <3>2, Zenon
      <4> HIDE DEF ch, out
      <4>3. /\ Carries(ch, out, got) => Carries(ch \o run, out \o more, got)
            /\ Complete(ch, out, got) => Complete(ch \o run, out \o more, got)
        BY <1>4, <3>3, <4>1, <4>2, RunCarried, ZenonT(60)
      <4> QED  BY <4>3, Zenon DEF ch, out
    <3>5. Alive(p)' => Alive(p)  BY <1>1, <1>11, Zenon
    <3>6. net'[e] = net[e] \o run /\ sent'[e] = sent[e] \o more  BY <1>9, Zenon
    <3> HIDE DEF p
    <3> QED  BY <3>1, <3>4, <3>5, <3>6, ZenonT(60)
  <2>13. Acknowledges(net'[p], acked, got)  BY <1>6, <1>9, <2>1, Zenon DEF Flow, p
  <2>14. Acked(e)' = acked  BY <2>3, <2>4, <2>5, Zenon DEF Acked
  <2> QED
    BY <1>3, <1>6, <1>9, <2>6, <2>7, <2>11, <2>12, <2>13, <2>14, Zenon DEF Flow, p
<1>13. Flow(p)'
  <2>1. PICK acked \in Nat : acked = Acked(p) /\ acked <= back
    BY <1>1, <1>6, AckedType, Zenon
  <2>2. Acknowledges(net'[e], acked, back)
    <3>1. Acknowledges(net[e], acked, back)  BY <1>1, <1>6, <2>1, Zenon DEF Flow
    <3>2. \A i \in 1..Len(run) : Acks(run[i]) => run[i].ack = back /\ run[i].nr = back % Mod
      BY <1>5, <1>8, Zenon
    <3>3. back <= back  OBVIOUS
    <3> QED  BY <1>4, <1>9, <1>10, <2>1, <3>1, <3>2, <3>3, AcksAdded, Zenon
  <2>3. Acked(p)' = acked  BY <1>9, <2>1, Zenon DEF Acked
  <2> QED
    BY <1>1, <1>3, <1>6, <1>9, <1>11, <2>2, <2>3, Zenon DEF Flow
<1> QED  BY <1>1, <1>12, <1>13, Zenon

-----------------------------------------------------------------------------
(* The order of the start, and the errors that cannot happen. *)

\* A frame e may write as far as the start of the data transfer is concerned.
Startable(e, f) ==
    /\ e = "master" => f.kind # "STARTDTCON" /\ (f.kind = "I" => ~stopdt'["slave"])
    /\ e = "slave" => f.kind # "STARTDTACT" /\ (f.kind = "STARTDTCON" => ~stopdt'["slave"])

\* A channel nothing is added to.
OnlyRead(e) ==
    \/ net'[e] = net[e] \/ net'[e] = <<>>
    \/ net[e] # <<>> /\ net'[e] = Tail(net[e])

LEMMA StartNet ==
    ASSUME TypeOK, NEW e \in Station, NEW out \in Seq(Frame),
           \A i \in 1..Len(out) : Startable(e, out[i]),
           OnlyRead(e) \/ net'[e] = net[e] \o out
    PROVE  \A i \in 1..Len(net'[e]) :
             (\E j \in 1..Len(net[e]) : net'[e][i] = net[e][j]) \/ Startable(e, net'[e][i])
<1>1. net[e] \in Seq(Frame)  BY FlowTypes
<1>2. CASE net'[e] = net[e]  BY <1>2, Zenon
<1>3. CASE net'[e] = <<>>  BY <1>3
<1>4. CASE net[e] # <<>> /\ net'[e] = Tail(net[e])
  <2>1. \A i \in 1..Len(Tail(net[e])) :
          i + 1 \in 1..Len(net[e]) /\ Tail(net[e])[i] = net[e][i + 1]
    BY <1>1, <1>4, TailFrames
  <2> QED  BY <1>4, <2>1, Zenon
<1>5. CASE net'[e] = net[e] \o out
  <2>1. \A i \in 1..Len(net[e] \o out) : i \in 1..Len(net[e]) \/
          (i - Len(net[e]) \in 1..Len(out) /\ (net[e] \o out)[i] = out[i - Len(net[e])])
    BY <1>1, MoreFrames
  <2>2. \A i \in 1..Len(net[e]) : (net[e] \o out)[i] = net[e][i]  BY <1>1, MoreFrames
  <2> QED  BY <1>5, <2>1, <2>2, Zenon
<1> QED  BY <1>2, <1>3, <1>4, <1>5, Zenon DEF OnlyRead

LEMMA StartKept ==
    ASSUME TypeOK, StartOrder, NEW e \in Station, NEW out \in Seq(Frame),
           \A i \in 1..Len(out) : Startable(e, out[i]),
           OnlyRead(e) \/ net'[e] = net[e] \o out,
           \A d \in Station \ {e} : OnlyRead(d),
           stopdt'["slave"] => stopdt["slave"] /\ stopdt'["master"],
           link'["slave"] = "idle" => stopdt'["slave"]
    PROVE  StartOrder'
<1>1. ASSUME NEW d \in Station, NEW i \in 1..Len(net'[d])
      PROVE  (\E j \in 1..Len(net[d]) : net'[d][i] = net[d][j]) \/ Startable(d, net'[d][i])
  <2>1. CASE d = e  BY <2>1, StartNet
  <2>2. CASE d # e
    <3>1. OnlyRead(d) /\ <<>> \in Seq(Frame) /\ \A k \in 1..Len(<<>>) : Startable(d, <<>>[k])
      BY <2>2
    <3> QED  BY <3>1, StartNet
  <2> QED  BY <2>1, <2>2
<1>2. "master" \in Station /\ "slave" \in Station  BY DEF Station
<1>3. ASSUME NEW i \in 1..Len(net'["master"])
      PROVE  /\ net'["master"][i].kind # "STARTDTCON"
             /\ net'["master"][i].kind = "I" => ~stopdt'["slave"]
  BY <1>1, <1>2, Zenon DEF StartOrder, Startable
<1>4. ASSUME NEW i \in 1..Len(net'["slave"])
      PROVE  /\ net'["slave"][i].kind # "STARTDTACT"
             /\ net'["slave"][i].kind = "STARTDTCON" => ~stopdt'["slave"]
  BY <1>1, <1>2, Zenon DEF StartOrder, Startable
<1> QED  BY <1>3, <1>4, Zenon DEF StartOrder

\* The same for a step that leaves stopdt alone, and for one that writes one frame.
LEMMA StartQuiet ==
    ASSUME TypeOK, StartOrder, NEW e \in Station, NEW out \in Seq(Frame), UNCHANGED stopdt,
           \A i \in 1..Len(out) : Startable(e, out[i]),
           OnlyRead(e) \/ net'[e] = net[e] \o out,
           \A d \in Station \ {e} : OnlyRead(d),
           link'["slave"] = "idle" => link["slave"] = "idle"
    PROVE  StartOrder'
  BY StartKept DEF StartOrder

LEMMA ExitStart ==
    ASSUME TypeOK, StartOrder, NEW e \in Station, NEW why \in Causes, Exit(e, why)
    PROVE  StartOrder'
<1>1. UNCHANGED stopdt /\ (link'["slave"] = "idle" => link["slave"] = "idle")
  BY DEF Exit, TypeOK, Causes, flags
<1>2. \A d \in Station : OnlyRead(d)  BY DEF Exit, TypeOK, OnlyRead
<1>3. <<>> \in Seq(Frame) /\ \A i \in 1..Len(<<>>) : Startable(e, <<>>[i])  OBVIOUS
<1> QED  BY <1>1, <1>2, <1>3, StartQuiet

\* What may arrive, given the order of the start.
LEMMA IncomingStart ==
    ASSUME TypeOK, StartOrder, NEW e \in Station, Receivable(e)
    PROVE  /\ e = "slave" =>
                /\ Incoming(e).kind # "STARTDTCON"
                /\ Incoming(e).kind = "I" => ~stopdt["slave"]
           /\ e = "master" =>
                /\ Incoming(e).kind # "STARTDTACT"
                /\ Incoming(e).kind = "STARTDTCON" => ~stopdt["slave"]
<1>1. Peer(e) \in Station /\ net[Peer(e)] \in Seq(Frame) /\ net[Peer(e)] # <<>>
  BY FlowTypes DEF Receivable
<1>2. Incoming(e) = net[Peer(e)][1] /\ 1 \in 1..Len(net[Peer(e)])
  BY <1>1, TailFrames DEF Incoming
<1>3. (e = "slave" => Peer(e) = "master") /\ (e = "master" => Peer(e) = "slave")
  BY DEF Peer
<1> QED  BY <1>2, <1>3, Zenon DEF StartOrder

\* No check of a received frame fails and no I frame is dropped.
LEMMA NoErrors ==
    ASSUME TypeOK, DeliveryInv, NEW e \in Station
    PROVE  /\ RecvI(e) => Gets(e, "I") /\ TakeI(e)
           /\ RecvS(e) => Gets(e, "S") /\ TakeS(e)
           /\ RecvStartAct(e) => e = "slave" /\ Start(e, <<UFrame("STARTDTCON")>>, Heard(e))
           /\ RecvStartCon(e) => e = "master" /\ ~stopdt["slave"]
                /\ Start(e, <<>>, [Heard(e) EXCEPT !["t1"] = Off])
<1>1. Flow(e) /\ Flow(Peer(e)) /\ StartOrder  BY FlowTypes DEF DeliveryInv
<1>2. ASSUME Gets(e, "I")
      PROVE  /\ ~(e = "slave" /\ stopdt[e])
             /\ check_nr(e, Incoming(e).nr) /\ check_ns(e, Incoming(e).ns)
  <2>1. Receivable(e) /\ Acks(Incoming(e)) /\ Incoming(e).kind = "I"
    BY <1>2 DEF Gets, Acks
  <2>2. check_nr(e, Incoming(e).nr)  BY <1>1, <2>1, AckTaken
  <2>3. check_ns(e, Incoming(e).ns)  BY <1>1, <1>2, Delivers DEF check_ns
  <2> QED  BY <1>1, <2>1, <2>2, <2>3, IncomingStart
<1>3. ASSUME Gets(e, "S") PROVE check_nr(e, Incoming(e).nr)
  <2>1. Receivable(e) /\ Acks(Incoming(e))  BY <1>3 DEF Gets, Acks
  <2> QED  BY <1>1, <2>1, AckTaken
<1>4. ASSUME Gets(e, "STARTDTACT") PROVE e = "slave"
  BY <1>1, <1>4, IncomingStart DEF Gets, Station
<1>5. ASSUME Gets(e, "STARTDTCON") PROVE e = "master" /\ ~stopdt["slave"]
  BY <1>1, <1>5, IncomingStart DEF Gets, Station
<1>6. RecvI(e) => Gets(e, "I") /\ TakeI(e)  BY <1>2, Zenon DEF RecvI
<1>7. RecvS(e) => Gets(e, "S") /\ TakeS(e)  BY <1>3, Zenon DEF RecvS
<1>8. RecvStartAct(e) => e = "slave" /\ Start(e, <<UFrame("STARTDTCON")>>, Heard(e))
  BY <1>4, Zenon DEF RecvStartAct
<1>9. RecvStartCon(e) => e = "master" /\ ~stopdt["slave"]
                /\ Start(e, <<>>, [Heard(e) EXCEPT !["t1"] = Off])
  BY <1>5, Zenon DEF RecvStartCon
<1> QED  BY <1>6, <1>7, <1>8, <1>9

LEMMA ReceiveStart ==
    ASSUME TypeOK, DeliveryInv, NEW e \in Station, Receive(e)
    PROVE  StartOrder'
<1>1. StartOrder  BY DEF DeliveryInv
<1>2. ASSUME UNCHANGED <<link, stopdt>>, Receivable(e),
             NEW out \in Seq(Frame), net' = Answer(e, out),
             \A i \in 1..Len(out) : Startable(e, out[i])
      PROVE  StartOrder'
  <2>1. OnlyRead(Peer(e)) /\ net'[e] = net[e] \o out /\ \A d \in Station : d = e \/ d = Peer(e)
    BY <1>2, AnswerNet DEF OnlyRead
  <2> QED  BY <1>1, <1>2, <2>1, StartQuiet
<1>3. <<>> \in Seq(Frame) /\ \A i \in 1..Len(<<>>) : Startable(e, <<>>[i])  OBVIOUS
<1>4. CASE RecvI(e)
  <2>1. Receivable(e) /\ TakeI(e) /\ UNCHANGED <<link, stopdt>>
    BY <1>4, NoErrors DEF Gets, TakeI, session, flags
  <2> DEFINE ackn == [kind |-> "S", nr |-> Plus(vr[e], 1), ack |-> Len(delivered[e]) + 1]
  <2>2. net' = Answer(e, IF OwesAck(e) THEN <<ackn>> ELSE <<>>)  BY <2>1 DEF TakeI
  <2>3. ackn \in Frame
    <3>1. vr[e] + 1 \in Int  BY LinkAssumption DEF TypeOK, Seqno
    <3>2. Plus(vr[e], 1) \in Seqno  BY <3>1, ModIsSeqno DEF Plus
    <3>3. Len(delivered[e]) + 1 \in Nat  BY FlowTypes
    <3> QED  BY <3>2, <3>3 DEF Frame, SFrames
  <2>4. Startable(e, ackn)  BY DEF Startable
  <2> HIDE DEF ackn
  <2>5. <<ackn>> \in Seq(Frame) /\ \A i \in 1..Len(<<ackn>>) : Startable(e, <<ackn>>[i])
    BY <2>3, <2>4
  <2> QED  BY <1>2, <1>3, <2>1, <2>2, <2>5
<1>5. CASE RecvS(e)
  <2>1. Receivable(e) /\ net' = Answer(e, <<>>) /\ UNCHANGED <<link, stopdt>>
    BY <1>5, NoErrors DEF Gets, TakeS, session, flags
  <2> QED  BY <1>2, <1>3, <2>1
<1>6. CASE RecvStartAct(e)
  <2> DEFINE out == <<UFrame("STARTDTCON")>>
  <2>1. e = "slave" /\ Start(e, out, Heard(e)) /\ Receivable(e)
    BY <1>6, NoErrors DEF RecvStartAct, Gets
  <2>2. stopdt' = [stopdt EXCEPT !["slave"] = FALSE] /\ net' = Answer(e, out)
        /\ link' = link
    BY <2>1 DEF Start, session
  <2>3. ~stopdt'["slave"]  BY <2>2 DEF TypeOK, Station
  <2>4. out \in Seq(Frame) /\ \A i \in 1..Len(out) : Startable(e, out[i])
    BY <2>1, <2>3 DEF Frame, UFrames, UFrame, UFunc, Startable
  <2> HIDE DEF out
  <2>5. OnlyRead(Peer(e)) /\ net'[e] = net[e] \o out /\ \A d \in Station : d = e \/ d = Peer(e)
    BY <2>1, <2>2, <2>4, AnswerNet DEF OnlyRead
  <2>6. link["slave"] # "idle"  BY <2>1 DEF Receivable
  <2> QED  BY <1>1, <2>2, <2>3, <2>4, <2>5, <2>6, StartKept
<1>7. CASE RecvStartCon(e)
  <2>1. e = "master" /\ ~stopdt["slave"] /\ Start(e, <<>>, [Heard(e) EXCEPT !["t1"] = Off])
        /\ Receivable(e)
    BY <1>7, NoErrors DEF RecvStartCon, Gets
  <2>2. stopdt' = [stopdt EXCEPT !["master"] = FALSE] /\ net' = Answer(e, <<>>)
        /\ link' = link
    BY <2>1 DEF Start, session
  <2>3. ~stopdt'["slave"]  BY <2>1, <2>2 DEF TypeOK, Station
  <2>4. OnlyRead(Peer(e)) /\ net'[e] = net[e] \o <<>> /\ \A d \in Station : d = e \/ d = Peer(e)
    BY <1>3, <2>1, <2>2, AnswerNet DEF OnlyRead
  <2>5. link["slave"] # "idle"  BY <1>1, <2>1 DEF StartOrder
  <2> QED  BY <1>1, <1>3, <2>2, <2>3, <2>4, <2>5, StartKept
<1>8. CASE RecvTestAct(e)
  <2>1. Receivable(e) /\ net' = Answer(e, <<UFrame("TESTFRCON")>>) /\ UNCHANGED <<link, stopdt>>
    BY <1>8 DEF RecvTestAct, Gets, session, flags
  <2>2. /\ <<UFrame("TESTFRCON")>> \in Seq(Frame)
        /\ \A i \in 1..Len(<<UFrame("TESTFRCON")>>) : Startable(e, <<UFrame("TESTFRCON")>>[i])
    BY DEF Frame, UFrames, UFrame, UFunc, Startable
  <2> QED  BY <1>2, <2>1, <2>2
<1>9. CASE RecvTestCon(e)
  <2>1. CASE Tested(e)
    <3>1. Receivable(e) /\ net' = Answer(e, <<>>) /\ UNCHANGED <<link, stopdt>>
      BY <1>9, <2>1 DEF Tested, RecvTestCon, Gets, session
    <3> QED  BY <1>2, <1>3, <3>1
  <2> QED  BY <1>1, <1>9, <2>1, ExitStart DEF RecvTestCon, Causes
<1> QED  BY <1>4, <1>5, <1>6, <1>7, <1>8, <1>9 DEF Receive

LEMMA NextStart ==
    ASSUME TypeOK, DeliveryInv, [Next]_vars
    PROVE  StartOrder'
<1>1. StartOrder  BY DEF DeliveryInv
<1>2. <<>> \in Seq(Frame) /\ \A e \in Station, i \in 1..Len(<<>>) : Startable(e, <<>>[i])
  OBVIOUS
<1>3. CASE \E e \in Station, why \in Causes : Exit(e, why)  BY <1>1, <1>3, ExitStart
<1>4. CASE UNCHANGED <<link, stopdt, net>>  BY <1>1, <1>4 DEF StartOrder
<1>5. CASE Connect
  <2> DEFINE out == <<UFrame("STARTDTACT")>>
  <2>1. /\ link["slave"] = "idle" /\ "master" \in Station
        /\ stopdt' = [stopdt EXCEPT !["master"] = TRUE]
        /\ net' = [net EXCEPT !["master"] = Append(@, UFrame("STARTDTACT"))]
    BY <1>5 DEF Connect, Station
  <2>2. stopdt["slave"] /\ stopdt'["slave"] /\ stopdt'["master"]
    BY <1>1, <2>1 DEF StartOrder, TypeOK, Station
  <2>3. UFrame("STARTDTACT") \in Frame  BY DEF Frame, UFrames, UFrame, UFunc
  <2>4. out \in Seq(Frame) /\ \A i \in 1..Len(out) : Startable("master", out[i])
    BY <2>3 DEF Startable, UFrame
  <2>5. net'["master"] = net["master"] \o out
    <3>1. net["master"] \in Seq(Frame)  BY <2>1, FlowTypes
    <3> QED  BY <2>1, <2>3, <3>1 DEF TypeOK
  <2>6. \A d \in Station \ {"master"} : OnlyRead(d)  BY <2>1 DEF TypeOK, OnlyRead
  <2> HIDE DEF out
  <2> QED  BY <1>1, <2>1, <2>2, <2>4, <2>5, <2>6, StartKept
<1>6. CASE Accept
  <2>1. stopdt' = [stopdt EXCEPT !["slave"] = TRUE] /\ net' = net /\ link["slave"] = "idle"
        /\ link' = [link EXCEPT !["slave"] = "open"]
    BY <1>6 DEF Accept
  <2>2. stopdt["slave"] /\ stopdt["master"]  BY <1>1, <2>1 DEF StartOrder
  <2>3. stopdt'["slave"] /\ stopdt'["master"]  BY <2>1, <2>2 DEF TypeOK, Station
  <2>4. "slave" \in Station /\ \A d \in Station : OnlyRead(d)  BY <2>1 DEF OnlyRead, Station
  <2> QED  BY <1>1, <1>2, <2>2, <2>3, <2>4, StartKept
<1>7. CASE Restart
  BY <1>7 DEF Restart, StartOrder, AllIdle, None, Station
<1>8. CASE Cut \/ Tick \/ UNCHANGED vars \/ \E e \in Station, q \in Queue : Submit(e, q)
  BY <1>4, <1>8 DEF Cut, Tick, vars, Submit, session, flags
<1>9. ASSUME NEW e \in Station, RunSendQueues(e) PROVE StartOrder'
  <2> DEFINE n == SendCount(e)
             q == ToSend(e)
             run == [i \in 1..n |-> IFrame(e, q, i)]
  <2>1. n \in Nat /\ n <= Len(q) /\ q \in Seq(Asdu)  BY <1>9, RunFits DEF DeliveryInv
  <2>2. net' = [net EXCEPT ![e] = @ \o run] /\ UNCHANGED <<link, stopdt>>
    BY <1>9 DEF RunSendQueues, session, flags
  <2>3. ~stopdt[e]  BY <1>9 DEF RunSendQueues, Active
  <2> HIDE DEF n, q
  <2>4. run \in Seq(Frame)  BY <2>1, RunFrames
  <2>5. \A i \in 1..Len(run) : run[i].kind = "I"  BY <2>1 DEF IFrame
  <2> HIDE DEF run
  <2>6. \A i \in 1..Len(run) : Startable(e, run[i])
    BY <1>1, <2>2, <2>3, <2>5 DEF Startable, StartOrder
  <2>7. net'[e] = net[e] \o run /\ \A d \in Station \ {e} : OnlyRead(d)
    BY <2>2 DEF TypeOK, OnlyRead
  <2> QED  BY <1>1, <2>2, <2>4, <2>6, <2>7, StartQuiet
<1>10. ASSUME NEW e \in Station, NEW f \in {SFrame(e), UFrame("TESTFRACT")},
              net' = [net EXCEPT ![e] = Append(@, f)], UNCHANGED <<link, stopdt>>
       PROVE  StartOrder'
  <2>1. f \in Frame /\ Startable(e, f)
    <3>1. SFrame(e) \in Frame /\ UFrame("TESTFRACT") \in Frame
      BY ControlFrames DEF Control, UFunc
    <3> QED  BY <1>10, <3>1 DEF Startable, SFrame, UFrame
  <2>2. <<f>> \in Seq(Frame) /\ \A i \in 1..Len(<<f>>) : Startable(e, <<f>>[i])  BY <2>1
  <2>3. net'[e] = net[e] \o <<f>>
    <3>1. net[e] \in Seq(Frame)  BY FlowTypes
    <3> QED  BY <1>10, <2>1, <3>1 DEF TypeOK
  <2>4. \A d \in Station \ {e} : OnlyRead(d)  BY <1>10 DEF TypeOK, OnlyRead
  <2> QED  BY <1>1, <1>10, <2>2, <2>3, <2>4, StartQuiet
<1>11. ASSUME NEW e \in Station, T2Expire(e) \/ T3Expire(e) PROVE StartOrder'
  BY <1>10, <1>11 DEF T2Expire, T3Expire, session, flags
<1>12. CASE \E e \in Station : PeerGone(e) \/ T0Expire(e) \/ T1Expire(e)
                              \/ \E q \in Queue : PoolExhausted(e, q)
  BY <1>3, <1>12 DEF PeerGone, T0Expire, T1Expire, PoolExhausted, Causes
<1>13. CASE ConnectFails  BY <1>3, <1>13 DEF ConnectFails, Causes, Station
<1>14. CASE \E e \in Station : Receive(e)  BY <1>14, ReceiveStart
<1> QED
  BY <1>5, <1>6, <1>7, <1>8, <1>9, <1>11, <1>12, <1>13, <1>14 DEF Next, Step

-----------------------------------------------------------------------------
(* The theorems. *)

LEMMA FreshFlow ==
    /\ Window(<<>>, <<>>, <<>>) /\ Prefix(<<>>, <<>>)
    /\ Counters(<<>>, <<>>, <<>>, 0, 0, 0)
    /\ Complete(<<>>, <<>>, 0) /\ Len(<<>>) = 0
<1>1. Len(<<>>) = 0 /\ 0 <= K  BY ModIsPositive
<1>2. Window(<<>>, <<>>, <<>>)  BY <1>1 DEF Window
<1>3. 0 % Mod = 0  BY ModIsPositive, Remainder
<1>4. Counters(<<>>, <<>>, <<>>, 0, 0, 0)  BY <1>1, <1>3 DEF Counters
<1>5. Complete(<<>>, <<>>, 0) /\ Prefix(<<>>, <<>>)  BY <1>1 DEF Complete, Prefix
<1> QED  BY <1>1, <1>2, <1>4, <1>5

LEMMA InitDelivery == Init => DeliveryInv
<1> SUFFICES ASSUME Init PROVE DeliveryInv  OBVIOUS
<1>1. ASSUME NEW e \in Station PROVE Flow(e)
  <2>1. /\ sent[e] = <<>> /\ delivered[Peer(e)] = <<>> /\ ackw_q[e] = <<>>
        /\ net[e] = <<>> /\ net[Peer(e)] = <<>>
        /\ vs[e] = 0 /\ vr[Peer(e)] = 0 /\ v_ack[e] = 0
    BY PeerIsStation DEF Init, None, Zero
  <2> QED  BY <2>1, FreshFlow, EmptyChannel, Zenon DEF Flow
<1>2. StartOrder  BY DEF Init, StartOrder, None, Station
<1>3. NoSequenceError  BY DEF Init, NoSequenceError, AllIdle
<1> QED  BY <1>1, <1>2, <1>3 DEF DeliveryInv

LEMMA RestartFlow == Restart => \A e \in Station : Flow(e)'
<1> SUFFICES ASSUME Restart, NEW e \in Station PROVE Flow(e)'  OBVIOUS
<1>1. /\ sent'[e] = <<>> /\ delivered'[Peer(e)] = <<>> /\ ackw_q'[e] = <<>>
      /\ net'[e] = <<>> /\ net'[Peer(e)] = <<>>
      /\ vs'[e] = 0 /\ vr'[Peer(e)] = 0 /\ v_ack'[e] = 0
  BY PeerIsStation DEF Restart, None, Zero
<1>2. Peer(e)' = Peer(e)  OBVIOUS
<1> QED  BY <1>1, <1>2, FreshFlow, EmptyChannel, Zenon DEF Flow

\* The steps of a station that send or deliver an ASDU or acknowledge one, and the
\* others.
LEMMA StepCases ==
    ASSUME TypeOK, DeliveryInv, [Next]_vars
    PROVE  \/ NoTransfer
           \/ Restart
           \/ \E e \in Station : RunSendQueues(e)
           \/ \E e \in Station : Gets(e, "I") /\ TakeI(e)
           \/ \E e \in Station : Gets(e, "S") /\ TakeS(e)
<1>1. CASE Connect \/ ConnectFails \/ Accept \/ Cut \/ Tick \/ UNCHANGED vars
  BY <1>1, ConnectionQuiet
<1>2. ASSUME NEW e \in Station, NEW q \in Queue, Submit(e, q) PROVE NoTransfer
  BY <1>2 DEF Submit, NoTransfer, QuietNet, Alive, session, seqnos
<1>3. ASSUME NEW e \in Station, PeerGone(e) \/ \E q \in Queue : PoolExhausted(e, q)
      PROVE  NoTransfer
  BY <1>3, ExitQuiet DEF PeerGone, PoolExhausted, Causes
<1>4. ASSUME NEW e \in Station, Receive(e)
      PROVE  NoTransfer \/ (Gets(e, "I") /\ TakeI(e)) \/ (Gets(e, "S") /\ TakeS(e))
  BY <1>4, NoErrors, UFrameQuiet DEF Receive
<1> QED  BY <1>1, <1>2, <1>3, <1>4, TimerQuiet DEF Next, Step

LEMMA NextFlow ==
    ASSUME TypeOK, DeliveryInv, [Next]_vars
    PROVE  \A e \in Station : Flow(e)'
<1>1. \A e \in Station : Flow(e)  BY DEF DeliveryInv
<1>2. CASE NoTransfer  BY <1>1, <1>2, QuietFlows
<1>3. CASE \E e \in Station : RunSendQueues(e)  BY <1>1, <1>3, RunFlow
<1>4. CASE \E e \in Station : Gets(e, "I") /\ TakeI(e)  BY <1>1, <1>4, TakeIFlow
<1>5. CASE \E e \in Station : Gets(e, "S") /\ TakeS(e)  BY <1>1, <1>5, TakeSFlow
<1> QED  BY <1>2, <1>3, <1>4, <1>5, StepCases, RestartFlow

LEMMA NextNoError ==
    ASSUME TypeOK, DeliveryInv, [Next]_vars
    PROVE  NoSequenceError'
<1>1. \A d \in Station : link[d] \notin {"nr", "ns", "utype"}
  BY DEF DeliveryInv, NoSequenceError
<1>2. ASSUME NEW e \in Station, NEW why \in {"refused", "eof", "t0", "t1", "testfr", "pool"},
             Exit(e, why)
      PROVE  NoSequenceError'
  BY <1>1, <1>2 DEF NoSequenceError, Exit, TypeOK
<1>3. CASE UNCHANGED link  BY <1>1, <1>3 DEF NoSequenceError
<1>4. CASE Connect \/ Accept \/ Restart
  BY <1>1, <1>4 DEF Connect, Accept, Restart, AllIdle, NoSequenceError, TypeOK
<1>5. CASE Cut \/ Tick \/ UNCHANGED vars  BY <1>3, <1>5 DEF Cut, Tick, vars, session
<1>6. ASSUME NEW e \in Station, Receive(e) PROVE NoSequenceError'
  <2>1. CASE RecvI(e) \/ RecvS(e) \/ RecvStartAct(e) \/ RecvStartCon(e)
    BY <1>3, <2>1, NoErrors DEF TakeI, TakeS, Start, session
  <2>2. CASE RecvTestAct(e) \/ RecvTestCon(e)
    BY <1>2, <1>3, <2>2 DEF RecvTestAct, RecvTestCon, Tested, session
  <2> QED  BY <1>6, <2>1, <2>2 DEF Receive
<1>7. ASSUME NEW e \in Station,
             RunSendQueues(e) \/ T2Expire(e) \/ T3Expire(e) \/ \E q \in Queue : Submit(e, q)
      PROVE  NoSequenceError'
  BY <1>3, <1>7 DEF RunSendQueues, T2Expire, T3Expire, Submit, session
<1>8. ASSUME NEW e \in Station,
             PeerGone(e) \/ T0Expire(e) \/ T1Expire(e) \/ \E q \in Queue : PoolExhausted(e, q)
      PROVE  NoSequenceError'
  BY <1>2, <1>8 DEF PeerGone, T0Expire, T1Expire, PoolExhausted
<1>9. CASE ConnectFails  BY <1>2, <1>9 DEF ConnectFails, Station
<1> QED  BY <1>4, <1>5, <1>6, <1>7, <1>8, <1>9 DEF Next, Step

LEMMA NextDelivery == TypeOK /\ DeliveryInv /\ [Next]_vars => DeliveryInv'
<1> SUFFICES ASSUME TypeOK, DeliveryInv, [Next]_vars PROVE DeliveryInv'  OBVIOUS
<1>1. \A e \in Station : Flow(e)'  BY NextFlow
<1>2. StartOrder'  BY NextStart
<1>3. NoSequenceError'  BY NextNoError
<1> QED  BY <1>1, <1>2, <1>3, Zenon DEF DeliveryInv

\* Delivery: the counters of both stations, their windows and every frame on its
\* way agree with the ASDUs sent, delivered and acknowledged.
THEOREM Delivery == Spec => []DeliveryInv
  BY InitDelivery, NextDelivery, TypeCorrect, PTL DEF Spec

\* NoErrorBetweenPeers: two stations running this code never close a connection for
\* a sequence number or a U frame of the wrong type.
THEOREM NoErrorBetweenPeers == Spec => []NoSequenceError
<1>1. DeliveryInv => NoSequenceError  BY DEF DeliveryInv
<1> QED  BY <1>1, Delivery, PTL

\* AcknowledgedMeansDelivered: what has left ackw_q is with the peer's application.
THEOREM AcknowledgedMeansDelivered == Spec => []AckedWasDelivered
<1>1. TypeOK /\ DeliveryInv => AckedWasDelivered
  BY AckedType DEF DeliveryInv, AckedWasDelivered
<1> QED  BY <1>1, Delivery, TypeCorrect, PTL

\* WindowKept: ackw_q is the window between V(A) and V(S), and at most K long.
THEOREM WindowKept == Spec => []WindowRespected
<1>1. ASSUME TypeOK, DeliveryInv, NEW e \in Station
      PROVE  /\ Len(ackw_q[e]) = Dist(v_ack[e], vs[e]) /\ Len(ackw_q[e]) <= K
             /\ \A i \in 1..Len(ackw_q[e]) : ackw_q[e][i] = Plus(v_ack[e], i - 1)
  <2>1. Flow(e)  BY <1>1 DEF DeliveryInv
  <2>2. PICK acked \in Nat, all \in Nat, w \in Nat :
          acked = Acked(e) /\ all = Len(sent[e]) /\ w = Len(ackw_q[e])
    BY <1>1, <2>1, AckedType, FlowTypes
  <2>3. acked <= all /\ all - acked < Mod /\ all - acked = w /\ w <= K
    BY <1>1, <2>1, <2>2, AckedType
  <2>4. v_ack[e] = acked % Mod /\ vs[e] = all % Mod
    BY <1>1, <2>1, <2>2, AckedType, Zenon
  <2>5. Dist(v_ack[e], vs[e]) = w  BY <2>3, <2>4, DistOfPositions, Zenon
  <2>6. ASSUME NEW i \in 1..w PROVE ackw_q[e][i] = Plus(v_ack[e], i - 1)
    <3>1. i - 1 \in Nat /\ acked + (i - 1) = acked + i - 1  OBVIOUS
    <3>2. ackw_q[e][i] = (acked + i - 1) % Mod
      BY <2>1, <2>2, Zenon DEF Flow, Counters, Acked
    <3> QED  BY <2>4, <3>1, <3>2, PlusOfPosition, Zenon
  <2> QED  BY <2>2, <2>3, <2>5, <2>6, Zenon
<1>2. TypeOK /\ DeliveryInv => WindowRespected  BY <1>1 DEF WindowRespected
<1> QED  BY <1>2, Delivery, TypeCorrect, PTL

-----------------------------------------------------------------------------
(* The link implements the pipe of AsduTransfer. *)

LEMMA ExtensionKeeps ==
    ASSUME NEW S, NEW s \in Seq(S), NEW more \in Seq(S)
    PROVE  Len(s) <= Len(s \o more) /\ SubSeq(s \o more, 1, Len(s)) = s
<1> DEFINE n == Len(s)
           all == s \o more
           part == SubSeq(all, 1, n)
<1>1. n \in Nat /\ Len(more) \in Nat  OBVIOUS
<1>2. all \in Seq(S) /\ Len(all) = n + Len(more) /\ \A i \in 1..n : all[i] = s[i]  OBVIOUS
<1>3. n <= Len(all)  BY <1>1, <1>2
<1>4. part \in Seq(S) /\ Len(part) = n /\ \A i \in 1..n : part[i] = all[i]
  <2> HIDE DEF all, n
  <2> QED  BY <1>1, <1>2, <1>3
<1> HIDE DEF part, all
<1>5. part = s  BY <1>2, <1>4
<1> QED  BY <1>3, <1>5 DEF part, all

LEMMA RunTransmits ==
    ASSUME TypeOK, TypeOK', DeliveryInv, DeliveryInv', NEW e \in Station, RunSendQueues(e)
    PROVE  Transfer!Transmit(e)
<1> DEFINE more == SubSeq(ToSend(e), 1, SendCount(e))
<1>1. more \in Seq(Asdu)  BY RunFits, RunFrames DEF DeliveryInv
<1>2. /\ sent' = [sent EXCEPT ![e] = @ \o more]
      /\ delivered' = delivered
  BY DEF RunSendQueues
<1> HIDE DEF more
<1>3. sent'[e] = sent[e] \o more /\ sent[e] \in Seq(Asdu)  BY <1>2 DEF TypeOK
<1>4. Len(sent[e]) <= Len(sent'[e]) /\ SubSeq(sent'[e], 1, Len(sent[e])) = sent[e]
  BY <1>1, <1>3, ExtensionKeeps
<1>5. Len(sent'[e]) <= Len(delivered[Peer(e)]) + K
  <2>1. Window(sent'[e], delivered'[Peer(e)], ackw_q'[e])  BY DEF DeliveryInv, Flow
  <2>2. /\ Len(sent'[e]) \in Nat /\ Len(ackw_q'[e]) \in Nat /\ Len(delivered'[Peer(e)]) \in Nat
    <3>1. /\ sent' \in [Station -> Seq(Asdu)] /\ delivered' \in [Station -> Seq(Asdu)]
          /\ ackw_q' \in [Station -> Seq(Seqno)]
      BY Zenon DEF TypeOK
    <3>2. /\ sent'[e] \in Seq(Asdu) /\ delivered'[Peer(e)] \in Seq(Asdu)
          /\ ackw_q'[e] \in Seq(Seqno)
      BY <3>1, PeerIsStation
    <3> QED  BY <3>2
  <2>3. /\ Len(ackw_q'[e]) <= K
        /\ Len(sent'[e]) - Len(ackw_q'[e]) <= Len(delivered'[Peer(e)])
    BY <2>1 DEF Window
  <2>4. Len(sent'[e]) <= Len(delivered'[Peer(e)]) + K
    <3>1. PICK all \in Nat, got \in Nat, w \in Nat :
            all = Len(sent'[e]) /\ got = Len(delivered'[Peer(e)]) /\ w = Len(ackw_q'[e])
      BY <2>2
    <3>2. all - w <= got /\ w <= K  BY <2>3, <3>1, Zenon
    <3>3. all <= got + K  BY <3>2, ModIsPositive
    <3> QED  BY <3>1, <3>3, Zenon
  <2> QED  BY <1>2, <2>4
<1>6. sent' \in [Station -> Seq(Asdu)] /\ \A d \in Station \ {e} : sent'[d] = sent[d]
  BY <1>2 DEF TypeOK
<1>7. [d \in Station |-> Peer(d)][e] = Peer(e)  OBVIOUS
<1> QED  BY <1>2, <1>4, <1>5, <1>6, <1>7 DEF Transfer!Transmit

LEMMA TakeIDelivers ==
    ASSUME TypeOK, DeliveryInv, NEW e \in Station, Gets(e, "I"), TakeI(e)
    PROVE  Transfer!Deliver(e)
<1>1. Flow(Peer(e))  BY PeerIsStation DEF DeliveryInv
<1>2. /\ Len(delivered[e]) + 1 <= Len(sent[Peer(e)])
      /\ Incoming(e).asdu = sent[Peer(e)][Len(delivered[e]) + 1]
  BY <1>1, Delivers
<1>3. delivered' = [delivered EXCEPT ![e] = Append(@, Incoming(e).asdu)] /\ sent' = sent
  BY DEF TakeI
<1>4. Len(delivered[e]) < Len(sent[Peer(e)])
  <2>1. Len(delivered[e]) \in Nat /\ Len(sent[Peer(e)]) \in Nat  BY PeerIsStation, FlowTypes
  <2> QED  BY <1>2, <2>1
<1>5. [d \in Station |-> Peer(d)][e] = Peer(e)  OBVIOUS
<1>6. delivered' = [delivered EXCEPT ![e] = Append(@, sent[Peer(e)][Len(@) + 1])]
  BY <1>2, <1>3
<1> QED  BY <1>3, <1>4, <1>5, <1>6 DEF Transfer!Deliver

\* LinkImplementsTransfer: whatever the constants, the link loses, doubles and
\* reorders nothing, and no station has more than K ASDUs on their way.
THEOREM LinkImplementsTransfer == Spec => ImplementsTransfer
<1>1. Init => Transfer!TransferInit
  BY DEF Init, None, Transfer!TransferInit, Transfer!Nothing
<1>2. ASSUME TypeOK, TypeOK', DeliveryInv, DeliveryInv', [Next]_vars
      PROVE  [Transfer!TransferNext]_<<sent, delivered>>
  <2>1. CASE NoTransfer  BY <2>1 DEF NoTransfer
  <2>2. CASE Restart
    BY <2>2 DEF Restart, None, Transfer!TransferNext, Transfer!NewSession, Transfer!Nothing
  <2>3. CASE \E e \in Station : RunSendQueues(e)
    BY <1>2, <2>3, RunTransmits DEF Transfer!TransferNext
  <2>4. CASE \E e \in Station : Gets(e, "I") /\ TakeI(e)
    BY <1>2, <2>4, TakeIDelivers DEF Transfer!TransferNext
  <2>5. CASE \E e \in Station : Gets(e, "S") /\ TakeS(e)
    BY <2>5 DEF TakeS
  <2> QED  BY <1>2, <2>1, <2>2, <2>3, <2>4, <2>5, StepCases
<1> QED
  BY <1>1, <1>2, Delivery, TypeCorrect, PTL DEF Spec, ImplementsTransfer, Transfer!TransferSpec

-----------------------------------------------------------------------------
(* QueueOrderKept. *)

\* ASDUs that wait in a queue keep the order when they follow what has been sent.
LEMMA RunInOrder ==
    ASSUME NEW s \in Seq(Asdu), NEW t \in Seq(Asdu), NEW q \in Queue, NEW c \in Nat,
           InOrder(s), Holds(s, q, c), Waits(t, q, c)
    PROVE  InOrder(s \o t)
<1> DEFINE all == s \o t
           n == Len(s)
           k == Len(t)
<1>1. /\ n \in Nat /\ k \in Nat /\ Len(all) = n + k
      /\ \A i \in 1..n : all[i] = s[i]
      /\ \A i \in (n + 1)..(n + k) : all[i] = t[i - n]
  OBVIOUS
<1>2. \A i \in 1..k : t[i] = <<q, c + i>>  BY DEF Waits
<1>4. /\ \A j \in 1..n : s[j][1] = q => s[j][2] \in 1..c
      /\ \A m \in 1..c : \E j \in 1..n : s[j] = <<q, m>>
  BY DEF Holds
<1>5. \A i \in 1..n :
        /\ \A j \in 1..(i - 1) : s[j][1] = s[i][1] => s[j][2] < s[i][2]
        /\ \A m \in 1..(s[i][2] - 1) : \E j \in 1..(i - 1) : s[j] = <<s[i][1], m>>
  BY DEF InOrder
<1> HIDE DEF all, n, k
<1>6. ASSUME NEW i \in 1..n
      PROVE  /\ \A j \in 1..(i - 1) : all[j][1] = all[i][1] => all[j][2] < all[i][2]
             /\ \A m \in 1..(all[i][2] - 1) : \E j \in 1..(i - 1) : all[j] = <<all[i][1], m>>
  <2>1. all[i] = s[i] /\ \A j \in 1..(i - 1) : j \in 1..n /\ all[j] = s[j]  BY <1>1
  <2> QED  BY <1>5, <2>1, Zenon
<1>7. ASSUME NEW i \in (n + 1)..(n + k)
      PROVE  /\ \A j \in 1..(i - 1) : all[j][1] = all[i][1] => all[j][2] < all[i][2]
             /\ \A m \in 1..(all[i][2] - 1) : \E j \in 1..(i - 1) : all[j] = <<all[i][1], m>>
  <2>1. PICK x \in 1..k : i = n + x
    <3>1. i - n \in 1..k /\ i = n + (i - n)  BY <1>1
    <3> QED  BY <3>1
  <2>2. all[i] = t[x]
    <3>1. i - n = x  BY <1>1, <2>1
    <3> QED  BY <1>1, <3>1
  <2>3. all[i] = <<q, c + x>>  BY <1>2, <2>2
  <2>4. all[i][1] = q /\ all[i][2] = c + x  BY <2>3
  <2>5. ASSUME NEW j \in 1..(i - 1), all[j][1] = q PROVE all[j][2] < c + x
    <3>1. CASE j \in 1..n
      <4>1. all[j] = s[j]  BY <1>1, <3>1
      <4>2. s[j][2] \in 1..c  BY <1>4, <2>5, <3>1, <4>1
      <4> QED  BY <4>1, <4>2, <1>1, <2>1
    <3>2. CASE j \notin 1..n
      <4>1. j \in (n + 1)..(n + k) /\ j - n \in 1..k /\ j - n < x
        <5>1. n \in Nat /\ k \in Nat  BY <1>1
        <5> QED  BY <2>1, <3>2, <5>1
      <4>2. all[j] = <<q, c + (j - n)>>  BY <1>1, <1>2, <4>1
      <4>3. all[j][2] = c + (j - n)  BY <4>2
      <4> QED  BY <1>1, <4>1, <4>3
    <3> QED  BY <3>1, <3>2
  <2>6. ASSUME NEW m \in 1..((c + x) - 1) PROVE \E j \in 1..(i - 1) : all[j] = <<q, m>>
    <3>1. CASE m \in 1..c
      <4>1. PICK j \in 1..n : s[j] = <<q, m>>  BY <1>4, <3>1
      <4>2. all[j] = <<q, m>> /\ j \in 1..(i - 1)  BY <1>1, <4>1, <2>1
      <4> QED  BY <4>2
    <3>2. CASE m \notin 1..c
      <4> DEFINE j == n + (m - c)
      <4>1. /\ m - c \in 1..k /\ j \in (n + 1)..(n + k) /\ j \in 1..(i - 1)
            /\ j - n = m - c /\ c + (m - c) = m
        BY <1>1, <2>1, <3>2
      <4>2. all[j] = t[j - n]  BY <1>1, <4>1
      <4>3. all[j] = <<q, m>>  BY <1>2, <4>1, <4>2
      <4> QED  BY <4>1, <4>3
    <3> QED  BY <3>1, <3>2
  <2>7. ASSUME NEW j \in 1..(i - 1), all[j][1] = all[i][1] PROVE all[j][2] < all[i][2]
    BY <2>4, <2>5, <2>7, Zenon
  <2>8. ASSUME NEW m \in 1..(all[i][2] - 1)
        PROVE  \E j \in 1..(i - 1) : all[j] = <<all[i][1], m>>
    <3>1. m \in 1..((c + x) - 1)  BY <2>4, <2>8, Zenon
    <3> QED  BY <2>4, <2>6, <3>1, Zenon
  <2> QED  BY <2>7, <2>8, Zenon
<1>8. 1..Len(all) = 1..n \cup (n + 1)..(n + k)  BY <1>1
<1>9. InOrder(all)  BY <1>6, <1>7, <1>8, Zenon DEF InOrder
<1> QED  BY <1>9 DEF all

\* They bring forward the queue they come from, and no other.
LEMMA RunHeld ==
    ASSUME NEW s \in Seq(Asdu), NEW t \in Seq(Asdu), NEW q \in Queue, NEW c \in Nat,
           Holds(s, q, c), Waits(t, q, c)
    PROVE  /\ Holds(s \o t, q, c + Len(t))
           /\ \A d \in Queue \ {q}, x \in Nat : Holds(s, d, x) => Holds(s \o t, d, x)
<1> DEFINE all == s \o t
           n == Len(s)
           k == Len(t)
<1>1. /\ n \in Nat /\ k \in Nat /\ Len(all) = n + k
      /\ \A i \in 1..n : all[i] = s[i]
      /\ \A i \in (n + 1)..(n + k) : all[i] = t[i - n]
  OBVIOUS
<1>2. \A i \in 1..k : t[i] = <<q, c + i>>  BY DEF Waits
<1>4. /\ \A j \in 1..n : s[j][1] = q => s[j][2] \in 1..c
      /\ \A m \in 1..c : \E j \in 1..n : s[j] = <<q, m>>
  BY DEF Holds
<1> HIDE DEF all, n, k
<1>5. ASSUME NEW j \in (n + 1)..(n + k)
      PROVE  j - n \in 1..k /\ all[j] = <<q, c + (j - n)>>
  BY <1>1, <1>2
<1>6. Holds(all, q, c + k)
  <2>1. ASSUME NEW j \in 1..(n + k), all[j][1] = q PROVE all[j][2] \in 1..(c + k)
    <3>1. CASE j \in 1..n
      <4>1. all[j] = s[j]  BY <1>1, <3>1
      <4>2. s[j][2] \in 1..c  BY <1>4, <2>1, <3>1, <4>1
      <4> QED  BY <4>1, <4>2, <1>1
    <3>2. CASE j \notin 1..n
      <4>1. j \in (n + 1)..(n + k)  BY <1>1, <3>2
      <4>2. j - n \in 1..k /\ all[j][2] = c + (j - n)  BY <1>5, <4>1
      <4> QED  BY <1>1, <4>2
    <3> QED  BY <3>1, <3>2
  <2>2. ASSUME NEW m \in 1..(c + k) PROVE \E j \in 1..(n + k) : all[j] = <<q, m>>
    <3>1. CASE m \in 1..c
      <4>1. PICK j \in 1..n : s[j] = <<q, m>>  BY <1>4, <3>1
      <4>2. all[j] = <<q, m>> /\ j \in 1..(n + k)  BY <1>1, <4>1
      <4> QED  BY <4>2
    <3>2. CASE m \notin 1..c
      <4> DEFINE j == n + (m - c)
      <4>1. j \in (n + 1)..(n + k) /\ j \in 1..(n + k) /\ c + (j - n) = m  BY <1>1, <3>2
      <4>2. all[j] = <<q, m>>  BY <1>5, <4>1
      <4> QED  BY <4>1, <4>2
    <3> QED  BY <3>1, <3>2
  <2> QED  BY <1>1, <2>1, <2>2, Zenon DEF Holds
<1>7. ASSUME NEW d \in Queue \ {q}, NEW x \in Nat, Holds(s, d, x) PROVE Holds(all, d, x)
  <2>0. /\ \A j \in 1..n : s[j][1] = d => s[j][2] \in 1..x
        /\ \A m \in 1..x : \E j \in 1..n : s[j] = <<d, m>>
    BY <1>7 DEF Holds, n
  <2>1. ASSUME NEW j \in 1..(n + k), all[j][1] = d PROVE all[j][2] \in 1..x
    <3>1. CASE j \in 1..n
      <4>1. all[j] = s[j]  BY <1>1, <3>1
      <4> QED  BY <2>0, <2>1, <3>1, <4>1
    <3>2. CASE j \notin 1..n
      <4>1. j \in (n + 1)..(n + k)  BY <1>1, <3>2
      <4>2. all[j][1] = q  BY <1>5, <4>1
      <4> QED  BY <2>1, <4>2
    <3> QED  BY <3>1, <3>2
  <2>2. ASSUME NEW m \in 1..x PROVE \E j \in 1..(n + k) : all[j] = <<d, m>>
    <3>1. PICK j \in 1..n : s[j] = <<d, m>>  BY <2>0
    <3>2. all[j] = <<d, m>> /\ j \in 1..(n + k)  BY <1>1, <3>1
    <3> QED  BY <3>2
  <2> QED  BY <1>1, <2>1, <2>2, Zenon DEF Holds
<1> QED  BY <1>6, <1>7 DEF all, k

\* What remains of a queue follows what a run took of it.
LEMMA RestWaits ==
    ASSUME NEW t \in Seq(Asdu), NEW q \in Queue, NEW c \in Nat, NEW x \in 0..Len(t),
           Waits(t, q, c)
    PROVE  /\ SubSeq(t, 1, x) \in Seq(Asdu) /\ Len(SubSeq(t, 1, x)) = x
           /\ Waits(SubSeq(t, 1, x), q, c)
           /\ SubSeq(t, x + 1, Len(t)) \in Seq(Asdu)
           /\ Len(SubSeq(t, x + 1, Len(t))) = Len(t) - x
           /\ Waits(SubSeq(t, x + 1, Len(t)), q, c + x)
<1>1. /\ SubSeq(t, 1, x) \in Seq(Asdu) /\ Len(SubSeq(t, 1, x)) = x
      /\ \A i \in 1..x : SubSeq(t, 1, x)[i] = t[i]
  OBVIOUS
<1>2. /\ SubSeq(t, x + 1, Len(t)) \in Seq(Asdu)
      /\ Len(SubSeq(t, x + 1, Len(t))) = Len(t) - x
      /\ \A i \in 1..(Len(t) - x) : SubSeq(t, x + 1, Len(t))[i] = t[x + i]
  OBVIOUS
<1>3. \A i \in 1..Len(t) : t[i] = <<q, c + i>>  BY DEF Waits
<1>4. Waits(SubSeq(t, 1, x), q, c)
  <2>1. \A i \in 1..x : i \in 1..Len(t)  OBVIOUS
  <2> QED  BY <1>1, <1>3, <2>1, Zenon DEF Waits
<1>5. Waits(SubSeq(t, x + 1, Len(t)), q, c + x)
  <2>1. ASSUME NEW i \in 1..(Len(t) - x)
        PROVE  SubSeq(t, x + 1, Len(t))[i] = <<q, (c + x) + i>>
    <3>1. x + i \in 1..Len(t) /\ c + (x + i) = (c + x) + i  OBVIOUS
    <3> QED  BY <1>2, <1>3, <3>1, Zenon
  <2> QED  BY <1>2, <2>1, Zenon DEF Waits
<1> QED  BY <1>1, <1>2, <1>4, <1>5

LEMMA SameSequence ==
    ASSUME NEW S, NEW s \in Seq(S), NEW t \in Seq(S), Len(s) = Len(t),
           \A i \in 1..Len(s) : s[i] = t[i]
    PROVE  s = t
  BY SMTT(30)

\* The first n of two queues are the first of the one, then the first of the other.
LEMMA RunOfTwo ==
    ASSUME NEW u \in Seq(Asdu), NEW v \in Seq(Asdu), NEW a \in 0..Len(u), NEW b \in 0..Len(v),
           b > 0 => a = Len(u)
    PROVE  SubSeq(u \o v, 1, a + b) = SubSeq(u, 1, a) \o SubSeq(v, 1, b)
<1> DEFINE both == u \o v
           left == SubSeq(u, 1, a)
           right == SubSeq(v, 1, b)
           run == SubSeq(both, 1, a + b)
<1>1. PICK x \in Nat, y \in Nat : x = Len(u) /\ y = Len(v)  OBVIOUS
<1>2. /\ both \in Seq(Asdu) /\ Len(both) = x + y
      /\ \A i \in 1..x : both[i] = u[i]
      /\ \A i \in (x + 1)..(x + y) : both[i] = v[i - x]
  BY <1>1
<1>3. left \in Seq(Asdu) /\ Len(left) = a /\ \A i \in 1..a : left[i] = u[i]  OBVIOUS
<1>4. right \in Seq(Asdu) /\ Len(right) = b /\ \A i \in 1..b : right[i] = v[i]  OBVIOUS
<1>5. a \in Nat /\ b \in Nat /\ a <= x /\ b <= y /\ (b > 0 => a = x)  BY <1>1
<1> HIDE DEF both, left, right
<1>6. run \in Seq(Asdu) /\ Len(run) = a + b /\ \A i \in 1..(a + b) : run[i] = both[i]
  <2>1. a + b \in Nat /\ a + b <= Len(both)  BY <1>2, <1>5
  <2> QED  BY <1>2, <2>1
<1>7. /\ left \o right \in Seq(Asdu) /\ Len(left \o right) = a + b
      /\ \A i \in 1..a : (left \o right)[i] = left[i]
      /\ \A i \in (a + 1)..(a + b) : (left \o right)[i] = right[i - a]
  BY <1>3, <1>4
<1> HIDE DEF run
<1>8. ASSUME NEW i \in 1..(a + b) PROVE run[i] = (left \o right)[i]
  <2>1. CASE i <= a
    <3>1. i \in 1..a /\ i \in 1..x  BY <1>5, <2>1
    <3> QED  BY <1>2, <1>3, <1>6, <1>7, <3>1
  <2>2. CASE i > a
    <3>1. a = x /\ i \in (a + 1)..(a + b) /\ i \in (x + 1)..(x + y) /\ i - a \in 1..b
      BY <1>5, <2>2
    <3>2. run[i] = v[i - a]  BY <1>2, <1>6, <3>1
    <3>3. (left \o right)[i] = v[i - a]  BY <1>4, <1>7, <3>1
    <3> QED  BY <3>2, <3>3
  <2>3. i <= a \/ i > a  BY <1>5
  <2> QED  BY <2>1, <2>2, <2>3, Zenon
<1>9. run = left \o right
  <2>1. Len(run) = Len(left \o right)  BY <1>6, <1>7
  <2>2. \A i \in 1..Len(run) : run[i] = (left \o right)[i]  BY <1>6, <1>8
  <2> QED  BY <1>6, <1>7, <2>1, <2>2, SameSequence
<1> QED  BY <1>9 DEF run, left, right, both

\* Steps that leave the queues and what was sent alone, and steps of one station.
LEMMA QueuesUntouched ==
    QueueInv /\ UNCHANGED <<sent, pending, made>> => QueueInv'
  BY DEF QueueInv, Taken

LEMMA OwnQueues ==
    ASSUME QueueInv, NEW e \in Station,
           \A d \in Station \ {e} :
               sent'[d] = sent[d] /\ pending'[d] = pending[d] /\ made'[d] = made[d],
           InOrder(sent'[e]),
           \A q \in Queue : \E c \in Nat :
               /\ c = made'[e][q] - Len(pending'[e][q])
               /\ Holds(sent'[e], q, c) /\ Waits(pending'[e][q], q, c)
    PROVE  QueueInv'
<1>1. ASSUME NEW d \in Station \ {e}
      PROVE  /\ InOrder(sent'[d])
             /\ \A q \in Queue :
                    /\ Taken(d, q)' \in Nat
                    /\ Holds(sent'[d], q, Taken(d, q)')
                    /\ Waits(pending'[d][q], q, Taken(d, q)')
  <2>1. \A q \in Queue : Taken(d, q)' = Taken(d, q)  BY DEF Taken
  <2>2. sent'[d] = sent[d] /\ pending'[d] = pending[d]  OBVIOUS
  <2>3. /\ InOrder(sent[d])
        /\ \A q \in Queue :
              /\ Taken(d, q) \in Nat
              /\ Holds(sent[d], q, Taken(d, q))
              /\ Waits(pending[d][q], q, Taken(d, q))
    BY DEF QueueInv
  <2> QED  BY <2>1, <2>2, <2>3, Zenon
<1>2. ASSUME NEW q \in Queue
      PROVE  /\ Taken(e, q)' \in Nat
             /\ Holds(sent'[e], q, Taken(e, q)')
             /\ Waits(pending'[e][q], q, Taken(e, q)')
  BY Zenon DEF Taken
<1>3. ASSUME NEW d \in Station
      PROVE  /\ InOrder(sent'[d])
             /\ \A q \in Queue :
                    /\ Taken(d, q)' \in Nat
                    /\ Holds(sent'[d], q, Taken(d, q)')
                    /\ Waits(pending'[d][q], q, Taken(d, q)')
  <2>1. CASE d = e  BY <1>2, <2>1, Zenon
  <2>2. CASE d # e  BY <1>1, <2>2, Zenon
  <2> QED  BY <2>1, <2>2
<1> QED  BY <1>3, Zenon DEF QueueInv

\* What QueueInv says of one queue, in plain numbers.
LEMMA QueueOf ==
    ASSUME TypeOK, QueueInv, NEW e \in Station, NEW q \in Queue
    PROVE  /\ sent[e] \in Seq(Asdu) /\ pending[e][q] \in Seq(Asdu) /\ InOrder(sent[e])
           /\ \E c, l \in Nat :
                /\ made[e][q] = c + l /\ l = Len(pending[e][q])
                /\ Holds(sent[e], q, c) /\ Waits(pending[e][q], q, c)
<1>1. sent[e] \in Seq(Asdu) /\ pending[e][q] \in Seq(Asdu) /\ made[e][q] \in Nat
  BY DEF TypeOK
<1>2. PICK l \in Nat : l = Len(pending[e][q])  BY <1>1
<1>3. /\ InOrder(sent[e])
      /\ Taken(e, q) \in Nat
      /\ Holds(sent[e], q, Taken(e, q)) /\ Waits(pending[e][q], q, Taken(e, q))
  BY DEF QueueInv
<1>4. PICK c \in Nat : c = Taken(e, q)  BY <1>3
<1>5. c = made[e][q] - l  BY <1>2, <1>4, Zenon DEF Taken
<1>6. made[e][q] = c + l  BY <1>1, <1>2, <1>4, <1>5
<1> QED  BY <1>1, <1>2, <1>3, <1>4, <1>6, Zenon

\* A submission lengthens one queue by one ASDU.
LEMMA SubmitOne ==
    ASSUME TypeOK, NEW e \in Station, NEW q \in Queue, Submit(e, q)
    PROVE  /\ pending'[e][q] = Append(pending[e][q], <<q, made[e][q] + 1>>)
           /\ made'[e][q] = made[e][q] + 1
           /\ \A p \in Queue \ {q} : pending'[e][p] = pending[e][p] /\ made'[e][p] = made[e][p]
           /\ \A d \in Station \ {e} : pending'[d] = pending[d] /\ made'[d] = made[d]
  BY DEF Submit, TAILQ_INSERT_TAIL, TypeOK

\* An ASDU that is submitted follows the last one of its queue.
LEMMA SubmitQueued ==
    ASSUME TypeOK, QueueInv, NEW e \in Station, NEW q \in Queue, Submit(e, q)
    PROVE  QueueInv'
<1>1. PICK c \in Nat, l \in Nat :
          /\ made[e][q] = c + l /\ l = Len(pending[e][q])
          /\ Holds(sent[e], q, c) /\ Waits(pending[e][q], q, c)
  BY QueueOf
<1>2. /\ pending'[e][q] = Append(pending[e][q], <<q, made[e][q] + 1>>)
      /\ made'[e][q] = made[e][q] + 1
      /\ \A p \in Queue \ {q} : pending'[e][p] = pending[e][p] /\ made'[e][p] = made[e][p]
      /\ \A d \in Station \ {e} : pending'[d] = pending[d] /\ made'[d] = made[d]
  BY SubmitOne
<1>3. sent' = sent  BY DEF Submit, seqnos
<1>4. <<q, made[e][q] + 1>> = <<q, c + (l + 1)>> /\ <<q, c + (l + 1)>> \in Asdu
  <2>1. c + (l + 1) \in Nat /\ (c + l) + 1 = c + (l + 1)  OBVIOUS
  <2>2. made[e][q] + 1 = c + (l + 1)  BY <1>1, <2>1, Zenon
  <2> QED  BY <2>1, <2>2 DEF Asdu
<1>5. Len(pending'[e][q]) = l + 1 /\ Waits(pending'[e][q], q, c)
  <2> DEFINE t == pending[e][q]
             more == Append(t, <<q, c + (l + 1)>>)
  <2>1. /\ Len(more) = l + 1 /\ \A i \in 1..l : more[i] = t[i]
        /\ more[l + 1] = <<q, c + (l + 1)>>
    <3>1. t \in Seq(Asdu) /\ Len(t) = l  BY <1>1, QueueOf
    <3> HIDE DEF t
    <3> QED  BY <1>4, <3>1
  <2>2. \A i \in 1..l : t[i] = <<q, c + i>>  BY <1>1 DEF Waits
  <2>3. more = pending'[e][q]  BY <1>2, <1>4, Zenon
  <2> HIDE DEF t, more
  <2>4. ASSUME NEW i \in 1..(l + 1) PROVE more[i] = <<q, c + i>>
    <3>1. i \in 1..l \/ i = l + 1  OBVIOUS
    <3> QED  BY <2>1, <2>2, <3>1, Zenon
  <2>5. Waits(more, q, c)  BY <2>1, <2>4, Zenon DEF Waits
  <2> QED  BY <2>1, <2>3, <2>5, Zenon
<1>6. made'[e][q] - Len(pending'[e][q]) = c
  <2>1. made'[e][q] = (c + l) + 1  BY <1>1, <1>2, Zenon
  <2>2. ((c + l) + 1) - (l + 1) = c  OBVIOUS
  <2> QED  BY <1>5, <2>1, <2>2, Zenon
<1>7. ASSUME NEW p \in Queue
      PROVE  \E x \in Nat : /\ x = made'[e][p] - Len(pending'[e][p])
                            /\ Holds(sent'[e], p, x) /\ Waits(pending'[e][p], p, x)
  <2>1. CASE p = q  BY <1>1, <1>3, <1>5, <1>6, <2>1, Zenon
  <2>2. CASE p # q
    <3>1. /\ Taken(e, p) \in Nat
          /\ Holds(sent[e], p, Taken(e, p)) /\ Waits(pending[e][p], p, Taken(e, p))
      BY DEF QueueInv
    <3>2. pending'[e][p] = pending[e][p] /\ made'[e][p] = made[e][p]  BY <1>2, <2>2
    <3> QED  BY <1>3, <3>1, <3>2, Zenon DEF Taken
  <2> QED  BY <2>1, <2>2
<1>8. InOrder(sent'[e])  BY <1>3 DEF QueueInv
<1>9. \A d \in Station \ {e} :
          sent'[d] = sent[d] /\ pending'[d] = pending[d] /\ made'[d] = made[d]
  BY <1>2, <1>3
<1> QED  BY <1>7, <1>8, <1>9, OwnQueues

\* A run takes a of the high-priority queue and b of the spontaneous one, and of
\* the second only when nothing of the first remains.
LEMMA RunParts ==
    ASSUME TypeOK, NEW e \in Station, NEW n \in Nat, n <= Len(ToSend(e))
    PROVE  LET u == pending[e]["high"]
               v == pending[e]["spont"]
           IN  \E a \in 0..Len(u), b \in 0..Len(v) :
                  /\ b > 0 => a = Len(u)
                  /\ SubSeq(ToSend(e), 1, n) = SubSeq(u, 1, a) \o SubSeq(v, 1, b)
                  /\ Rest(u, 0, n) = SubSeq(u, a + 1, Len(u))
                  /\ Rest(v, Len(u), n) = SubSeq(v, b + 1, Len(v))
<1> DEFINE u == pending[e]["high"]
           v == pending[e]["spont"]
           Parts == \E a \in 0..Len(u), b \in 0..Len(v) :
                      /\ b > 0 => a = Len(u)
                      /\ SubSeq(ToSend(e), 1, n) = SubSeq(u, 1, a) \o SubSeq(v, 1, b)
                      /\ Rest(u, 0, n) = SubSeq(u, a + 1, Len(u))
                      /\ Rest(v, Len(u), n) = SubSeq(v, b + 1, Len(v))
<1> SUFFICES Parts  OBVIOUS
<1>1. u \in Seq(Asdu) /\ v \in Seq(Asdu)  BY DEF TypeOK, Queue
<1>2. PICK x \in Nat, y \in Nat : x = Len(u) /\ y = Len(v)  BY <1>1
<1>3. ToSend(e) = u \o v  BY SendOrderQueues DEF ToSend
<1> HIDE DEF u, v
<1>4. n <= x + y
  <2>1. Len(u \o v) = Len(u) + Len(v)  BY <1>1
  <2> QED  BY <1>2, <1>3, <2>1, Zenon
<1>5. CASE n <= x
  <2>1. SubSeq(ToSend(e), 1, n + 0) = SubSeq(u, 1, n) \o SubSeq(v, 1, 0)
    <3>1. n \in 0..Len(u) /\ 0 \in 0..Len(v) /\ (0 > 0 => n = Len(u))  BY <1>2, <1>5
    <3>2. SubSeq(u \o v, 1, n + 0) = SubSeq(u, 1, n) \o SubSeq(v, 1, 0)
      BY <1>1, <3>1, RunOfTwo, Zenon
    <3> QED  BY <1>3, <3>2, Zenon
  <2>2. Rest(u, 0, n) = SubSeq(u, n + 1, Len(u))
    <3>1. n - Least(n, 0) = n  BY DEF Least
    <3> QED  BY <3>1, Zenon DEF Rest
  <2>3. Rest(v, Len(u), n) = SubSeq(v, 0 + 1, Len(v))
    <3>1. n - Least(n, x) = 0  BY <1>5 DEF Least
    <3> QED  BY <1>2, <3>1, Zenon DEF Rest
  <2>4. n + 0 = n /\ n \in 0..Len(u) /\ 0 \in 0..Len(v) /\ ~(0 > 0)  BY <1>2, <1>5
  <2> QED  BY <2>1, <2>2, <2>3, <2>4, Zenon
<1>6. CASE n > x
  <2> DEFINE b == n - x
  <2>1. x \in 0..Len(u) /\ b \in 0..Len(v) /\ x = Len(u) /\ x + b = n
    <3>1. x \in 0..x /\ b \in 0..y /\ x + b = n  BY <1>4, <1>6
    <3> QED  BY <1>2, <3>1, Zenon
  <2>2. Rest(v, Len(u), n) = SubSeq(v, b + 1, Len(v))
    <3>1. n - Least(n, x) = b  BY <1>6 DEF Least
    <3> QED  BY <1>2, <3>1, Zenon DEF Rest
  <2> HIDE DEF b
  <2>3. SubSeq(ToSend(e), 1, n) = SubSeq(u, 1, x) \o SubSeq(v, 1, b)
    <3>1. SubSeq(u \o v, 1, x + b) = SubSeq(u, 1, x) \o SubSeq(v, 1, b)
      BY <1>1, <2>1, RunOfTwo
    <3> QED  BY <1>3, <2>1, <3>1, Zenon
  <2>4. Rest(u, 0, n) = SubSeq(u, x + 1, Len(u))
    <3>1. n - Least(n, 0) = n  BY DEF Least
    <3>2. Rest(u, 0, n) = SubSeq(u, n + 1, x)  BY <1>2, <3>1, Zenon DEF Rest
    <3>3. SubSeq(u, n + 1, x) = <<>> /\ SubSeq(u, x + 1, x) = <<>>  BY <1>1, <1>2, <1>6
    <3> QED  BY <1>2, <3>2, <3>3, Zenon
  <2> QED  BY <2>1, <2>2, <2>3, <2>4, Zenon
<1>7. n <= x \/ n > x  BY <1>2
<1> QED  BY <1>5, <1>6, <1>7, Zenon

LEMMA ConcatThree ==
    ASSUME NEW S, NEW s \in Seq(S), NEW t \in Seq(S), NEW u \in Seq(S)
    PROVE  s \o (t \o u) = (s \o t) \o u
  BY SMTT(30)

\* A run of the send queues takes from both, and from the queues of one station.
LEMMA RunOne ==
    ASSUME TypeOK, NEW e \in Station, RunSendQueues(e)
    PROVE  LET n == SendCount(e)
               u == pending[e]["high"]
               v == pending[e]["spont"]
           IN  /\ pending'[e]["high"] = Rest(u, 0, n)
               /\ pending'[e]["spont"] = Rest(v, Len(u), n)
               /\ sent'[e] = sent[e] \o SubSeq(ToSend(e), 1, n)
               /\ made' = made
               /\ \A d \in Station \ {e} : pending'[d] = pending[d] /\ sent'[d] = sent[d]
<1> DEFINE n == SendCount(e)
           u == pending[e]["high"]
           v == pending[e]["spont"]
           more == SubSeq(ToSend(e), 1, n)
           rest == Rest(u, 0, n)
           after == Rest(v, Len(u), n)
<1>1. /\ pending' = [pending EXCEPT ![e]["high"] = rest, ![e]["spont"] = after]
      /\ sent' = [sent EXCEPT ![e] = @ \o more]
      /\ made' = made
  BY SendOrderQueues DEF RunSendQueues
<1>2. pending \in [Station -> [Queue -> Seq(Asdu)]] /\ sent \in [Station -> Seq(Asdu)]
  BY DEF TypeOK
<1> HIDE DEF more, rest, after
<1>3. pending'[e]["high"] = rest /\ pending'[e]["spont"] = after  BY <1>1, <1>2 DEF Queue
<1>4. \A d \in Station \ {e} : pending'[d] = pending[d] /\ sent'[d] = sent[d]  BY <1>1, <1>2
<1>5. sent'[e] = sent[e] \o more  BY <1>1, <1>2
<1> QED  BY <1>1, <1>3, <1>4, <1>5 DEF more, rest, after

LEMMA RunQueued ==
    ASSUME TypeOK, DeliveryInv, QueueInv, NEW e \in Station, RunSendQueues(e)
    PROVE  QueueInv'
<1> DEFINE n == SendCount(e)
           u == pending[e]["high"]
           v == pending[e]["spont"]
           s == sent[e]
<1>1. n \in Nat /\ n <= Len(ToSend(e))  BY RunFits DEF DeliveryInv
<1>2. /\ pending'[e]["high"] = Rest(u, 0, n) /\ pending'[e]["spont"] = Rest(v, Len(u), n)
      /\ sent'[e] = s \o SubSeq(ToSend(e), 1, n)
      /\ made' = made
      /\ \A d \in Station \ {e} : pending'[d] = pending[d] /\ sent'[d] = sent[d]  BY RunOne, Zenon
<1>3. PICK c1 \in Nat, l1 \in Nat :
        /\ made[e]["high"] = c1 + l1 /\ l1 = Len(u)
        /\ Holds(s, "high", c1) /\ Waits(u, "high", c1)
  <2>1. "high" \in Queue  BY DEF Queue
  <2> QED  BY <2>1, QueueOf
<1>4. PICK c2 \in Nat, l2 \in Nat :
        /\ made[e]["spont"] = c2 + l2 /\ l2 = Len(v)
        /\ Holds(s, "spont", c2) /\ Waits(v, "spont", c2)
  <2>1. "spont" \in Queue  BY DEF Queue
  <2> QED  BY <2>1, QueueOf
<1>5. /\ u \in Seq(Asdu) /\ v \in Seq(Asdu) /\ s \in Seq(Asdu) /\ InOrder(s)
  BY DEF TypeOK, Queue, QueueInv
<1>6. PICK a \in 0..Len(u), b \in 0..Len(v) :
              /\ b > 0 => a = Len(u)
              /\ SubSeq(ToSend(e), 1, n) = SubSeq(u, 1, a) \o SubSeq(v, 1, b)
              /\ Rest(u, 0, n) = SubSeq(u, a + 1, Len(u))
              /\ Rest(v, Len(u), n) = SubSeq(v, b + 1, Len(v))
  <2> HIDE DEF n
  <2> QED  BY <1>1, RunParts, Zenon
<1> DEFINE u1 == SubSeq(u, 1, a)
           u2 == SubSeq(u, a + 1, Len(u))
           v1 == SubSeq(v, 1, b)
           v2 == SubSeq(v, b + 1, Len(v))
           mid == s \o u1
           all == mid \o v1
<1>7. /\ u1 \in Seq(Asdu) /\ Len(u1) = a /\ Waits(u1, "high", c1)
      /\ Len(u2) = Len(u) - a /\ Waits(u2, "high", c1 + a)
  <2>1. "high" \in Queue  BY DEF Queue
  <2> HIDE DEF u
  <2> QED  BY <1>3, <1>5, <2>1, RestWaits
<1>8. /\ v1 \in Seq(Asdu) /\ Len(v1) = b /\ Waits(v1, "spont", c2)
      /\ Len(v2) = Len(v) - b /\ Waits(v2, "spont", c2 + b)
  <2>1. "spont" \in Queue  BY DEF Queue
  <2> HIDE DEF v
  <2> QED  BY <1>4, <1>5, <2>1, RestWaits
<1>9. a \in Nat /\ b \in Nat /\ "high" \in Queue /\ "spont" \in Queue
  BY <1>5 DEF Queue
<1>10. sent'[e] = all
  <2>1. s \o (u1 \o v1) = (s \o u1) \o v1
    <3>1. s \in Seq(Asdu) /\ u1 \in Seq(Asdu) /\ v1 \in Seq(Asdu)  BY <1>5, <1>7, <1>8
    <3> HIDE DEF s, u1, v1
    <3> QED  BY <3>1, ConcatThree, SMTT(30)
  <2> QED  BY <1>2, <1>6, <2>1, Zenon
<1>11. made'[e]["high"] - Len(pending'[e]["high"]) = c1 + a
  <2>1. made'[e]["high"] = c1 + l1 /\ Len(pending'[e]["high"]) = l1 - a
    BY <1>2, <1>3, <1>6, <1>7, Zenon
  <2>2. (c1 + l1) - (l1 - a) = c1 + a  BY <1>9
  <2> QED  BY <2>1, <2>2, Zenon
<1>12. made'[e]["spont"] - Len(pending'[e]["spont"]) = c2 + b
  <2>1. made'[e]["spont"] = c2 + l2 /\ Len(pending'[e]["spont"]) = l2 - b
    BY <1>2, <1>4, <1>6, <1>8, Zenon
  <2>2. (c2 + l2) - (l2 - b) = c2 + b  BY <1>9
  <2> QED  BY <2>1, <2>2, Zenon
<1>13. Waits(pending'[e]["high"], "high", c1 + a) /\ Waits(pending'[e]["spont"], "spont", c2 + b)
  BY <1>2, <1>6, <1>7, <1>8, Zenon
<1> HIDE DEF n, u, v, s, u1, u2, v1, v2
<1>14. /\ mid \in Seq(Asdu) /\ InOrder(mid)
       /\ Holds(mid, "high", c1 + a) /\ Holds(mid, "spont", c2)
  <2>1. mid \in Seq(Asdu)  BY <1>5, <1>7
  <2>2. InOrder(mid)  BY <1>3, <1>5, <1>7, <1>9, RunInOrder
  <2>3. Holds(mid, "high", c1 + Len(u1))  BY <1>3, <1>5, <1>7, <1>9, RunHeld
  <2>4. Holds(mid, "spont", c2)
    <3>1. "spont" \in Queue \ {"high"}  BY DEF Queue
    <3> QED  BY <1>3, <1>4, <1>5, <1>7, <1>9, <3>1, RunHeld
  <2> QED  BY <1>7, <2>1, <2>2, <2>3, <2>4, Zenon
<1> HIDE DEF mid
<1>15. /\ InOrder(all) /\ Holds(all, "high", c1 + a) /\ Holds(all, "spont", c2 + b)
  <2>1. InOrder(all)  BY <1>4, <1>8, <1>9, <1>14, RunInOrder
  <2>2. Holds(all, "spont", c2 + Len(v1))  BY <1>4, <1>8, <1>9, <1>14, RunHeld
  <2>3. Holds(all, "high", c1 + a)
    <3>1. "high" \in Queue \ {"spont"} /\ c1 + a \in Nat  BY <1>9 DEF Queue
    <3> QED  BY <1>4, <1>8, <1>9, <1>14, <3>1, RunHeld
  <2> QED  BY <1>8, <2>1, <2>2, <2>3, Zenon
<1> HIDE DEF all
<1>16. ASSUME NEW q \in Queue
       PROVE  \E c \in Nat : /\ c = made'[e][q] - Len(pending'[e][q])
                             /\ Holds(sent'[e], q, c) /\ Waits(pending'[e][q], q, c)
  <2>1. c1 + a \in Nat /\ c2 + b \in Nat  BY <1>9
  <2>2. CASE q = "high"  BY <1>10, <1>11, <1>13, <1>15, <2>1, <2>2, Zenon
  <2>3. CASE q = "spont"  BY <1>10, <1>12, <1>13, <1>15, <2>1, <2>3, Zenon
  <2> QED  BY <2>2, <2>3 DEF Queue
<1>17. InOrder(sent'[e])  BY <1>10, <1>15, Zenon
<1>18. \A d \in Station \ {e} :
          sent'[d] = sent[d] /\ pending'[d] = pending[d] /\ made'[d] = made[d]
  BY <1>2
<1> QED  BY <1>16, <1>17, <1>18, OwnQueues

\* Nothing has been submitted or sent in a session that begins.
LEMMA FreshQueues ==
    ASSUME NEW e \in Station
    PROVE  /\ InOrder(None[e])
           /\ \A q \in Queue :
                 /\ NoneMade[e][q] - Len(NoQueues[e][q]) = 0
                 /\ Holds(None[e], q, 0) /\ Waits(NoQueues[e][q], q, 0)
<1>1. None[e] = <<>> /\ \A q \in Queue : NoneMade[e][q] = 0 /\ NoQueues[e][q] = <<>>
  BY DEF None, NoneMade, NoQueues
<1>2. InOrder(<<>>)  BY DEF InOrder
<1>3. ASSUME NEW q \in Queue PROVE Holds(<<>>, q, 0) /\ Waits(<<>>, q, 0)
  BY DEF Holds, Waits
<1>4. 0 - Len(<<>>) = 0
  <2>1. Len(<<>>) = 0  OBVIOUS
  <2>2. 0 - 0 = 0  OBVIOUS
  <2> QED  BY <2>1, <2>2, Zenon
<1> QED  BY <1>1, <1>2, <1>3, <1>4, Zenon

\* The steps that touch the queues or what was sent.
LEMMA QueueSteps ==
    ASSUME [Next]_vars
    PROVE  \/ UNCHANGED <<sent, pending, made>>
           \/ Restart
           \/ \E e \in Station, q \in Queue : Submit(e, q)
           \/ \E e \in Station : RunSendQueues(e)
<1> DEFINE Same == UNCHANGED <<sent, pending, made>>
<1>1. \A e \in Station, why \in Causes : Exit(e, why) => Same  BY DEF Exit, queues, seqnos
<1>2. \A e \in Station : TakeI(e) \/ TakeS(e) \/ Drop(e) => Same
  BY DEF TakeI, TakeS, Drop, queues, seqnos
<1>3. ASSUME NEW e \in Station, Receive(e) PROVE Same
  <2>1. CASE RecvI(e)  BY <1>1, <1>2, <2>1 DEF RecvI, Causes
  <2>2. CASE RecvS(e)  BY <1>1, <1>2, <2>2 DEF RecvS, Causes
  <2>3. CASE RecvStartAct(e) \/ RecvStartCon(e)
    BY <1>1, <2>3 DEF RecvStartAct, RecvStartCon, Start, queues, seqnos, Causes
  <2>4. CASE RecvTestAct(e) \/ RecvTestCon(e)
    BY <1>1, <2>4 DEF RecvTestAct, RecvTestCon, Tested, queues, seqnos, Causes
  <2> QED  BY <1>3, <2>1, <2>2, <2>3, <2>4 DEF Receive
<1>4. ASSUME NEW e \in Station, T2Expire(e) \/ T3Expire(e) PROVE Same
  BY <1>4 DEF T2Expire, T3Expire, queues, seqnos
<1>5. CASE Connect \/ Accept \/ Cut \/ Tick \/ UNCHANGED vars
  BY <1>5 DEF Connect, Accept, Cut, Tick, vars, queues, seqnos
<1>6. CASE \E e \in Station : PeerGone(e) \/ T0Expire(e) \/ T1Expire(e)
                              \/ \E q \in Queue : PoolExhausted(e, q)
  BY <1>1, <1>6 DEF PeerGone, T0Expire, T1Expire, PoolExhausted, Causes
<1>7. CASE ConnectFails
  BY <1>1, <1>7 DEF ConnectFails, Causes, Station
<1> QED  BY <1>3, <1>4, <1>5, <1>6, <1>7 DEF Next, Step

LEMMA NextQueued == TypeOK /\ DeliveryInv /\ QueueInv /\ [Next]_vars => QueueInv'
<1> SUFFICES ASSUME TypeOK, DeliveryInv, QueueInv, [Next]_vars PROVE QueueInv'
  OBVIOUS
<1>1. CASE Restart
  <2>1. sent' = None /\ pending' = NoQueues /\ made' = NoneMade  BY <1>1 DEF Restart
  <2>2. \A e \in Station, q \in Queue :
          Taken(e, q)' = NoneMade[e][q] - Len(NoQueues[e][q])
    BY <2>1, Zenon DEF Taken
  <2>3. 0 \in Nat  OBVIOUS
  <2> QED  BY <2>1, <2>2, <2>3, FreshQueues, Zenon DEF QueueInv
<1> QED  BY <1>1, QueuesUntouched, SubmitQueued, RunQueued, QueueSteps, Zenon

\* A delivered sequence is what was sent first, and keeps its order.
LEMMA PrefixInOrder ==
    ASSUME NEW s \in Seq(Asdu), NEW r \in Seq(Asdu), Len(r) <= Len(s), Prefix(r, s), InOrder(s)
    PROVE  InOrder(r)
<1>1. PICK n \in Nat, k \in Nat : n = Len(r) /\ k = Len(s)  OBVIOUS
<1>2. n <= k  BY <1>1, Zenon
<1>3. \A i \in 1..n : i \in 1..k /\ \A j \in 1..(i - 1) : j \in 1..n  BY <1>2
<1>4. \A i \in 1..n : r[i] = s[i]  BY <1>1, Zenon DEF Prefix
<1>5. ASSUME NEW i \in 1..n
      PROVE  /\ \A j \in 1..(i - 1) : r[j][1] = r[i][1] => r[j][2] < r[i][2]
             /\ \A m \in 1..(r[i][2] - 1) : \E j \in 1..(i - 1) : r[j] = <<r[i][1], m>>
  <2>1. /\ \A j \in 1..(i - 1) : s[j][1] = s[i][1] => s[j][2] < s[i][2]
        /\ \A m \in 1..(s[i][2] - 1) : \E j \in 1..(i - 1) : s[j] = <<s[i][1], m>>
    BY <1>1, <1>3, Zenon DEF InOrder
  <2>2. r[i] = s[i] /\ \A j \in 1..(i - 1) : r[j] = s[j]  BY <1>3, <1>4, Zenon
  <2> QED  BY <2>1, <2>2, Zenon
<1> QED  BY <1>1, <1>5, Zenon DEF InOrder

\* QueueOrder: whatever the constants, the ASDUs of one queue reach the application
\* of the peer in the order they were submitted, none left out, though the runs of
\* the send queues let one queue overtake the other.
THEOREM QueueOrder == Spec => []QueueOrderKept
<1>1. Init => QueueInv
  <2> SUFFICES ASSUME Init PROVE QueueInv  OBVIOUS
  <2>1. sent = None /\ pending = NoQueues /\ made = NoneMade  BY DEF Init
  <2>2. \A e \in Station, q \in Queue : Taken(e, q) = NoneMade[e][q] - Len(NoQueues[e][q])
    BY <2>1, Zenon DEF Taken
  <2>3. 0 \in Nat  OBVIOUS
  <2> QED  BY <2>1, <2>2, <2>3, FreshQueues, Zenon DEF QueueInv
<1>2. TypeOK /\ DeliveryInv /\ QueueInv => QueueOrderKept
  <2> SUFFICES ASSUME TypeOK, DeliveryInv, QueueInv, NEW e \in Station
               PROVE  InOrder(delivered[e])
    BY Zenon DEF QueueOrderKept, InOrder
  <2>1. Peer(e) \in Station /\ Peer(Peer(e)) = e  BY PeerIsStation
  <2>2. sent[Peer(e)] \in Seq(Asdu) /\ delivered[e] \in Seq(Asdu)  BY <2>1 DEF TypeOK
  <2>3. Len(delivered[e]) <= Len(sent[Peer(e)]) /\ Prefix(delivered[e], sent[Peer(e)])
    BY <2>1, Zenon DEF DeliveryInv, Flow, Window
  <2>4. InOrder(sent[Peer(e)])  BY <2>1 DEF QueueInv
  <2> QED  BY <2>2, <2>3, <2>4, PrefixInOrder
<1> QED  BY <1>1, <1>2, NextQueued, Delivery, TypeCorrect, PTL DEF Spec

-----------------------------------------------------------------------------
(* HighPriorityFirst. *)

\* PriorityKept: whatever the constants, no run of the send queues takes from the
\* spontaneous queue and leaves a high-priority ASDU behind; no other step of a
\* station that stays open takes from it.
THEOREM PriorityKept == Spec => HighPriorityFirst
<1>1. ASSUME TypeOK, DeliveryInv, [Next]_vars, NEW e \in Station, link'[e] = "open",
             Len(pending'[e]["spont"]) < Len(pending[e]["spont"])
      PROVE  pending'[e]["high"] = <<>>
  <2> DEFINE u == pending[e]["high"]
             v == pending[e]["spont"]
  <2>1. u \in Seq(Asdu) /\ v \in Seq(Asdu)  BY <1>1 DEF TypeOK, Queue
  <2>2. PICK x \in Nat, y \in Nat : x = Len(u) /\ y = Len(v)  BY <2>1
  <2>3. ~(y < y) /\ ~(y + 1 < y)  BY <2>2
  <2>4. pending'[e] # pending[e]  BY <1>1, <2>2, <2>3, Zenon
  <2>5. CASE Restart  BY <1>1, <2>5 DEF Restart, AllIdle
  <2>6. ASSUME NEW d \in Station, NEW q \in Queue, Submit(d, q) PROVE FALSE
    <3>1. d = e  BY <1>1, <2>4, <2>6 DEF Submit, TypeOK
    <3>2. Submit(e, q)  BY <2>6, <3>1, Zenon
    <3>3. "spont" \in Queue  BY DEF Queue
    <3>4. CASE q = "spont"
      <4>1. pending'[e]["spont"] = Append(v, <<q, made[e][q] + 1>>)
        BY <1>1, <3>2, <3>4, SubmitOne, Zenon
      <4>2. <<q, made[e][q] + 1>> \in Asdu
        <5>1. made[e][q] \in Nat  BY <1>1 DEF TypeOK
        <5> QED  BY <5>1 DEF Asdu
      <4>3. Len(pending'[e]["spont"]) = y + 1
        <5> HIDE DEF v
        <5> QED  BY <2>1, <2>2, <4>1, <4>2
      <4> QED  BY <1>1, <2>2, <2>3, <4>3, Zenon
    <3>5. CASE q # "spont"
      <4>1. pending'[e]["spont"] = v  BY <1>1, <3>2, <3>3, <3>5, SubmitOne
      <4> QED  BY <1>1, <2>2, <2>3, <4>1, Zenon
    <3> QED  BY <3>4, <3>5
  <2>7. ASSUME NEW d \in Station, RunSendQueues(d) PROVE pending'[e]["high"] = <<>>
    <3>1. d = e
      <4>1. pending \in [Station -> [Queue -> Seq(Asdu)]]  BY <1>1 DEF TypeOK
      <4>2. \A f \in Station \ {d} : pending'[f] = pending[f]
        BY <2>7, <4>1 DEF RunSendQueues
      <4> QED  BY <2>4, <4>2
    <3> DEFINE n == SendCount(e)
    <3>2. n \in Nat /\ n <= Len(ToSend(e))  BY <1>1, <2>7, <3>1, RunFits DEF DeliveryInv
    <3>3. pending'[e]["high"] = Rest(u, 0, n) /\ pending'[e]["spont"] = Rest(v, Len(u), n)
      BY <1>1, <2>7, <3>1, RunOne, Zenon
    <3>4. PICK a \in 0..Len(u), b \in 0..Len(v) :
              /\ b > 0 => a = Len(u)
              /\ SubSeq(ToSend(e), 1, n) = SubSeq(u, 1, a) \o SubSeq(v, 1, b)
              /\ Rest(u, 0, n) = SubSeq(u, a + 1, Len(u))
              /\ Rest(v, Len(u), n) = SubSeq(v, b + 1, Len(v))
      <4> HIDE DEF n
      <4> QED  BY <1>1, <3>2, RunParts, Zenon
    <3> HIDE DEF n, u, v
    <3>5. b > 0
      <4>1. SUFFICES ASSUME b = 0 PROVE FALSE  BY <2>2, <3>4
      <4>2. SubSeq(v, 0 + 1, Len(v)) = v  BY <2>1
      <4>3. pending'[e]["spont"] = v  BY <3>3, <3>4, <4>1, <4>2, Zenon
      <4> QED  BY <1>1, <2>2, <2>3, <4>3, Zenon DEF v
    <3>6. SubSeq(u, Len(u) + 1, Len(u)) = <<>>  BY <2>1
    <3> QED  BY <3>3, <3>4, <3>5, <3>6, Zenon
  <2> QED  BY <1>1, <2>4, <2>5, <2>6, <2>7, QueueSteps
<1>2. ASSUME TypeOK, DeliveryInv, [Next]_vars
      PROVE  \A e \in Station :
               link'[e] = "open" /\ Len(pending'[e]["spont"]) < Len(pending[e]["spont"])
                 => pending'[e]["high"] = <<>>
  BY <1>1, <1>2, Zenon
<1> QED  BY <1>2, Delivery, TypeCorrect, PTL DEF Spec, HighPriorityFirst

-----------------------------------------------------------------------------
(* Frames on their way. *)

LEMMA ComingTail ==
    ASSUME NEW ch \in Seq(Frame), ch # <<>>, NEW kind, Coming(ch, kind)
    PROVE  Head(ch).kind = kind \/ Coming(Tail(ch), kind)
<1>1. PICK i \in 1..Len(ch) : ch[i].kind = kind  BY DEF Coming
<1>2. CASE i = 1  BY <1>1, <1>2
<1>3. CASE i # 1
  <2>1. i - 1 \in 1..Len(Tail(ch)) /\ Tail(ch)[i - 1] = ch[i]  BY <1>3
  <2> QED  BY <1>1, <2>1 DEF Coming
<1> QED  BY <1>2, <1>3

LEMMA ComingLess ==
    ASSUME NEW ch \in Seq(Frame), ch # <<>>, NEW kind, Coming(Tail(ch), kind)
    PROVE  Coming(ch, kind)
<1>1. PICK i \in 1..Len(Tail(ch)) : Tail(ch)[i].kind = kind  BY DEF Coming
<1>2. i + 1 \in 1..Len(ch) /\ Tail(ch)[i] = ch[i + 1]  BY TailFrames
<1> QED  BY <1>1, <1>2 DEF Coming

LEMMA ComingMore ==
    ASSUME NEW ch \in Seq(Frame), NEW more \in Seq(Frame), NEW kind
    PROVE  Coming(ch \o more, kind) <=> Coming(ch, kind) \/ Coming(more, kind)
<1> DEFINE all == ch \o more
           n == Len(ch)
<1>1. n \in Nat /\ Len(more) \in Nat  OBVIOUS
<1>2. /\ Len(all) = n + Len(more) /\ \A i \in 1..n : all[i] = ch[i]
      /\ \A i \in 1..Len(more) : all[n + i] = more[i]
  BY JoinedFrames
<1> HIDE DEF all
<1>3. ASSUME Coming(ch, kind) PROVE Coming(all, kind)
  BY <1>1, <1>2, <1>3 DEF Coming, n
<1>4. ASSUME Coming(more, kind) PROVE Coming(all, kind)
  <2>1. PICK i \in 1..Len(more) : more[i].kind = kind  BY <1>4 DEF Coming
  <2>2. n + i \in 1..Len(all) /\ all[n + i] = more[i]  BY <1>1, <1>2, <2>1
  <2> QED  BY <2>1, <2>2 DEF Coming
<1>5. ASSUME Coming(all, kind) PROVE Coming(ch, kind) \/ Coming(more, kind)
  <2>1. PICK i \in 1..Len(all) : all[i].kind = kind  BY <1>5 DEF Coming
  <2>2. CASE i \in 1..n  BY <1>2, <2>1, <2>2 DEF Coming, n
  <2>3. CASE i \notin 1..n
    <3>1. i - n \in 1..Len(more) /\ all[n + (i - n)] = more[i - n] /\ n + (i - n) = i
      BY <1>1, <1>2, <2>1, <2>3
    <3> QED  BY <2>1, <3>1 DEF Coming
  <2> QED  BY <2>2, <2>3
<1> QED  BY <1>3, <1>4, <1>5 DEF all

LEMMA AckingTail ==
    ASSUME NEW ch \in Seq(Frame), ch # <<>>, NEW n, Acking(ch, n)
    PROVE  (Acks(Head(ch)) /\ Head(ch).ack = n) \/ Acking(Tail(ch), n)
<1>1. PICK i \in 1..Len(ch) : Acks(ch[i]) /\ ch[i].ack = n  BY DEF Acking
<1>2. CASE i = 1  BY <1>1, <1>2
<1>3. CASE i # 1
  <2>1. i - 1 \in 1..Len(Tail(ch)) /\ Tail(ch)[i - 1] = ch[i]  BY <1>3
  <2> QED  BY <1>1, <2>1 DEF Acking
<1> QED  BY <1>2, <1>3

LEMMA AckingMore ==
    ASSUME NEW ch \in Seq(Frame), NEW more \in Seq(Frame), NEW n
    PROVE  /\ Acking(ch, n) => Acking(ch \o more, n)
           /\ Acking(more, n) => Acking(ch \o more, n)
<1> DEFINE all == ch \o more
           l == Len(ch)
<1>1. l \in Nat /\ Len(more) \in Nat  OBVIOUS
<1>2. /\ Len(all) = l + Len(more) /\ \A i \in 1..l : all[i] = ch[i]
      /\ \A i \in 1..Len(more) : all[l + i] = more[i]
  BY JoinedFrames
<1> HIDE DEF all
<1>3. ASSUME Acking(ch, n) PROVE Acking(all, n)
  <2>1. PICK i \in 1..l : Acks(ch[i]) /\ ch[i].ack = n  BY <1>3 DEF Acking, l
  <2>2. i \in 1..Len(all) /\ all[i] = ch[i]  BY <1>1, <1>2, <2>1
  <2> QED  BY <2>1, <2>2 DEF Acking
<1>4. ASSUME Acking(more, n) PROVE Acking(all, n)
  <2>1. PICK i \in 1..Len(more) : Acks(more[i]) /\ more[i].ack = n  BY <1>4 DEF Acking
  <2>2. l + i \in 1..Len(all) /\ all[l + i] = more[i]  BY <1>1, <1>2, <2>1
  <2> QED  BY <2>1, <2>2 DEF Acking
<1> QED  BY <1>3, <1>4 DEF all

LEMMA ComingOne ==
    ASSUME NEW kind
    PROVE  /\ ~Coming(<<>>, kind)
           /\ \A f : Coming(<<f>>, kind) <=> f.kind = kind
  BY DEF Coming

-----------------------------------------------------------------------------
(* What each step does to the timers, the counters and the channels. *)

\* A step of e leaves the state of its peer alone.
StepOf(e) ==
    /\ UNCHANGED <<link, cut>>
    /\ \A d \in Station \ {e} :
        /\ timer'[d] = timer[d] /\ stopdt'[d] = stopdt[d] /\ testfr'[d] = testfr[d]
        /\ vs'[d] = vs[d] /\ v_ack'[d] = v_ack[d]
        /\ vr'[d] = vr[d] /\ v_ack_rem'[d] = v_ack_rem[d]
        /\ delivered'[d] = delivered[d] /\ Acked(d)' = Acked(d)

Wrote(e, out) ==
    /\ out \in Seq(Frame) /\ net[e] \in Seq(Frame)
    /\ net'[e] = net[e] \o out /\ net'[Peer(e)] = net[Peer(e)]

\* e has read a frame of this kind and written out.
Replied(e, kind, out) ==
    /\ Gets(e, kind) /\ out \in Seq(Frame)
    /\ net[e] \in Seq(Frame) /\ net[Peer(e)] \in Seq(Frame) /\ net[Peer(e)] # <<>>
    /\ Head(net[Peer(e)]).kind = kind
    /\ net'[e] = net[e] \o out /\ net'[Peer(e)] = Tail(net[Peer(e)])

\* The four timers of e.
Timers(e, a, b, c, d) ==
    timer'[e]["t0"] = a /\ timer'[e]["t1"] = b /\ timer'[e]["t2"] = c /\ timer'[e]["t3"] = d

KeepsFlags(e) == stopdt'[e] = stopdt[e] /\ testfr'[e] = testfr[e]
KeepsAcks(e)  == v_ack'[e] = v_ack[e] /\ vs'[e] = vs[e] /\ Acked(e)' = Acked(e)
Receives(e)   == vr'[e] = vr[e] /\ v_ack_rem'[e] = v_ack_rem[e] /\ delivered'[e] = delivered[e]

\* The frame e has read acknowledges what it transmitted up to n.
Counted(e, n) ==
    /\ vs'[e] = vs[e] /\ v_ack'[e] = Incoming(e).nr /\ Acked(e)' = n
    /\ n \in Nat /\ Acked(e) <= n /\ n <= Len(delivered[Peer(e)]) /\ Incoming(e).ack = n

\* What each action does.
Ran(e) ==
    /\ StepOf(e) /\ link[e] = "open" /\ KeepsFlags(e) /\ Receives(e)
    /\ v_ack'[e] # vs'[e] /\ Acked(e)' = Acked(e)
    /\ Timers(e, timer[e]["t0"], T1, timer[e]["t2"], timer[e]["t3"])
    /\ \E out \in Seq(Frame) :
         Wrote(e, out) /\ out # <<>> /\ \A i \in 1..Len(out) : out[i].kind = "I"

TookI(e) ==
    /\ StepOf(e) /\ KeepsFlags(e) /\ link[e] = "open"
    /\ Counted(e, Incoming(e).ack)
    /\ Timers(e, Off, T1After(e, Incoming(e).nr), T2, T3)
    /\ delivered'[e] \in Seq(Asdu)
    /\ \/ /\ v_ack_rem'[e] = vr'[e]
          /\ \E f \in Frame : /\ f.kind = "S" /\ f.ack = Len(delivered'[e])
                              /\ Replied(e, "I", <<f>>)
       \/ /\ v_ack_rem'[e] # vr'[e] /\ Replied(e, "I", <<>>)
          /\ Dist(v_ack_rem'[e], vr'[e]) = Dist(v_ack_rem[e], vr[e]) + 1
          /\ Dist(v_ack_rem[e], vr[e]) + 1 \in 1..(W - 1)

TookS(e) ==
    /\ StepOf(e) /\ KeepsFlags(e) /\ Receives(e) /\ Replied(e, "S", <<>>)
    /\ Counted(e, Incoming(e).ack)
    /\ Timers(e, Off, T1After(e, Incoming(e).nr), timer[e]["t2"], T3)

TookStartAct(e) ==
    /\ StepOf(e) /\ KeepsAcks(e) /\ Receives(e) /\ e = "slave"
    /\ testfr'[e] = testfr[e]
    /\ Timers(e, Off, timer[e]["t1"], timer[e]["t2"], T3)
    /\ Replied(e, "STARTDTACT", <<UFrame("STARTDTCON")>>)

TookStartCon(e) ==
    /\ StepOf(e) /\ KeepsAcks(e) /\ Receives(e) /\ e = "master"
    /\ testfr'[e] = testfr[e] /\ stopdt'[e] = FALSE
    /\ Timers(e, Off, Off, timer[e]["t2"], T3)
    /\ Replied(e, "STARTDTCON", <<>>)

TookTestAct(e) ==
    /\ StepOf(e) /\ KeepsAcks(e) /\ Receives(e) /\ KeepsFlags(e)
    /\ IF e = "slave" /\ ~testfr[e]
       THEN Timers(e, T0, timer[e]["t1"], timer[e]["t2"], Off)
       ELSE Timers(e, Off, timer[e]["t1"], timer[e]["t2"], T3)
    /\ Replied(e, "TESTFRACT", <<UFrame("TESTFRCON")>>)

TookTestCon(e) ==
    /\ StepOf(e) /\ KeepsAcks(e) /\ Receives(e)
    /\ stopdt'[e] = stopdt[e] /\ testfr'[e] = FALSE
    /\ Timers(e, Off, Off, timer[e]["t2"], T3)
    /\ Replied(e, "TESTFRCON", <<>>)

Acknowledged(e) ==
    /\ StepOf(e) /\ KeepsAcks(e) /\ KeepsFlags(e) /\ Expired(e, "t2")
    /\ v_ack_rem'[e] = vr'[e] /\ vr'[e] = vr[e] /\ delivered'[e] = delivered[e]
    /\ Timers(e, timer[e]["t0"], timer[e]["t1"], Off, timer[e]["t3"])
    /\ \E f \in Frame : f.kind = "S" /\ f.ack = Len(delivered[e]) /\ Wrote(e, <<f>>)

Tests(e) ==
    /\ StepOf(e) /\ KeepsAcks(e) /\ Receives(e) /\ Expired(e, "t3")
    /\ stopdt'[e] = stopdt[e] /\ testfr'[e] = TRUE
    /\ Timers(e, timer[e]["t0"], T1, timer[e]["t2"], Off)
    /\ Wrote(e, <<UFrame("TESTFRACT")>>)

\* The state of a station that its timers depend on.
Kept(e) ==
    KeepsFlags(e) /\ KeepsAcks(e) /\ Receives(e)

Exited(e) ==
    /\ cut' = cut /\ link'[Peer(e)] = link[Peer(e)] /\ link'[e] \in Causes
    /\ link'[e] = "t1" => Expired(e, "t1")
    /\ link'[e] = "t0" => Expired(e, "t0") /\ e = "slave"
    /\ \A d \in Station : Kept(d)
    /\ Timers(e, Off, Off, Off, Off) /\ timer'[Peer(e)] = timer[Peer(e)]
    /\ net'[e] = net[e] /\ net'[Peer(e)] = <<>>

Connected ==
    /\ cut' = cut /\ link["master"] = "idle" /\ link["slave"] = "idle"
    /\ link'["master"] = "open" /\ link'["slave"] = "idle"
    /\ \A d \in Station : testfr'[d] = testfr[d] /\ KeepsAcks(d) /\ Receives(d)
    /\ stopdt'["master"] = TRUE
    /\ Timers("master", Off, T1, timer["master"]["t2"], timer["master"]["t3"])
    /\ timer'["slave"] = timer["slave"]
    /\ Wrote("master", <<UFrame("STARTDTACT")>>)

Accepted ==
    /\ cut' = cut /\ link["master"] = "open" /\ link["slave"] = "idle"
    /\ link'["master"] = "open" /\ link'["slave"] = "open"
    /\ \A d \in Station : testfr'[d] = testfr[d] /\ KeepsAcks(d) /\ Receives(d)
    /\ stopdt'["master"] = stopdt["master"]
    /\ timer' = timer /\ net' = net

\* Submit, Cut, or no step.
Idled ==
    /\ link' = link /\ cut' \in BOOLEAN /\ (cut => cut')
    /\ timer' = timer /\ net' = net /\ \A d \in Station : Kept(d)

Ticked ==
    /\ Quiet /\ link' = link /\ cut' = cut /\ net' = net
    /\ \A d \in Station : Kept(d)
    /\ \A d \in Station, t \in Timer :
         timer'[d][t] = IF timer[d][t] > 0 THEN timer[d][t] - 1 ELSE timer[d][t]

LEMMA TimersSet ==
    ASSUME TypeOK, NEW e \in Station, NEW nr, NEW x
    PROVE  /\ timer' = [timer EXCEPT ![e] = Heard(e)] =>
                Timers(e, Off, timer[e]["t1"], timer[e]["t2"], T3)
           /\ timer' = [timer EXCEPT ![e] = [Heard(e) EXCEPT !["t1"] = x]] =>
                Timers(e, Off, x, timer[e]["t2"], T3)
           /\ timer' = [timer EXCEPT ![e] = TimersAfterI(e, nr)] =>
                Timers(e, Off, T1After(e, nr), T2, T3)
           /\ timer' = [timer EXCEPT ![e] = TimersAfterTest(e)] =>
                IF e = "slave" /\ ~testfr[e]
                THEN Timers(e, T0, timer[e]["t1"], timer[e]["t2"], Off)
                ELSE Timers(e, Off, timer[e]["t1"], timer[e]["t2"], T3)
<1>1. timer[e] \in [Timer -> Nat \cup {Off}] /\ timer \in [Station -> [Timer -> Nat \cup {Off}]]
  BY DEF TypeOK
<1>2. /\ Heard(e) \in [Timer -> Nat \cup {Off}]
      /\ Heard(e)["t0"] = Off /\ Heard(e)["t1"] = timer[e]["t1"]
      /\ Heard(e)["t2"] = timer[e]["t2"] /\ Heard(e)["t3"] = T3
  BY <1>1, HeardType DEF Heard, Timer
<1> QED  BY <1>1, <1>2 DEF Timers, TimersAfterI, TimersAfterTest, Timer

LEMMA Stations == \A e \in Station, d \in Station : d = e \/ d = Peer(e)
  BY DEF Station, Peer

LEMMA RepliedFacts ==
    ASSUME TypeOK, NEW e \in Station, NEW kind, Gets(e, kind), NEW out \in Seq(Frame),
           net' = Answer(e, out)
    PROVE  Replied(e, kind, out)
  BY AnswerNet, FlowTypes DEF Replied, Gets

LEMMA CountedFacts ==
    ASSUME TypeOK, NEW e \in Station, Flow(e), Receivable(e), Acks(Incoming(e)),
           ackw_q'[e] = AfterAck(ackw_q[e], Incoming(e).nr), v_ack'[e] = Incoming(e).nr,
           sent'[e] = sent[e], vs'[e] = vs[e]
    PROVE  Counted(e, Incoming(e).ack)
<1> DEFINE a == Incoming(e).ack
<1>1. /\ a \in Acked(e)..Len(delivered[Peer(e)])
      /\ Len(ackw_q'[e]) = Len(sent[e]) - a
  BY AckTaken
<1>2. Acked(e) \in Nat /\ Len(sent[e]) \in Nat  BY AckedType, FlowTypes
<1>3. Len(delivered[Peer(e)]) \in Nat  BY FlowTypes
<1>4. a \in Nat /\ Acked(e) <= a /\ a <= Len(delivered[Peer(e)])  BY <1>1, <1>2, <1>3
<1>5. Acked(e)' = a
  <2>1. PICK l \in Nat : l = Len(sent[e])  BY <1>2
  <2>2. l - (l - a) = a  BY <1>4
  <2> QED  BY <1>1, <2>1, <2>2 DEF Acked
<1> QED  BY <1>4, <1>5 DEF Counted

LEMMA StepOthers ==
    ASSUME TypeOK, NEW e \in Station, UNCHANGED <<link, cut>>,
           \A d \in Station \ {e} :
             /\ timer'[d] = timer[d] /\ stopdt'[d] = stopdt[d] /\ testfr'[d] = testfr[d]
             /\ vs'[d] = vs[d] /\ v_ack'[d] = v_ack[d]
             /\ vr'[d] = vr[d] /\ v_ack_rem'[d] = v_ack_rem[d]
             /\ delivered'[d] = delivered[d] /\ sent'[d] = sent[d] /\ ackw_q'[d] = ackw_q[d]
    PROVE  StepOf(e)
  BY DEF StepOf, Acked

LEMMA TakeIFacts ==
    ASSUME TypeOK, AckTimed, NEW e \in Station, Flow(e), Gets(e, "I"), TakeI(e)
    PROVE  TookI(e)
<1> DEFINE next == Plus(vr[e], 1)
           ackn == [kind |-> "S", nr |-> next, ack |-> Len(delivered[e]) + 1]
<1>1. /\ UNCHANGED <<link, cut, stopdt, testfr, vs, sent>> /\ link[e] = "open"
      /\ v_ack' = [v_ack EXCEPT ![e] = Incoming(e).nr]
      /\ ackw_q' = [ackw_q EXCEPT ![e] = AfterAck(@, Incoming(e).nr)]
      /\ timer' = [timer EXCEPT ![e] = TimersAfterI(e, Incoming(e).nr)]
      /\ vr' = [vr EXCEPT ![e] = next]
      /\ delivered' = [delivered EXCEPT ![e] = Append(@, Incoming(e).asdu)]
      /\ v_ack_rem' = [v_ack_rem EXCEPT ![e] = IF OwesAck(e) THEN next ELSE @]
      /\ net' = Answer(e, IF OwesAck(e) THEN <<ackn>> ELSE <<>>)
  BY DEF TakeI, Acknowledge, session, flags, Gets, Receivable
<1>2. vr[e] \in Seqno /\ v_ack_rem[e] \in Seqno /\ next \in Seqno
  <2>1. vr[e] \in Seqno /\ v_ack_rem[e] \in Seqno  BY DEF TypeOK
  <2>2. vr[e] + 1 \in Int  BY <2>1, LinkAssumption DEF Seqno
  <2> QED  BY <2>1, <2>2, ModIsSeqno DEF Plus
<1>3. ackn \in Frame /\ ackn.kind = "S" /\ ackn.ack = Len(delivered[e]) + 1
  <2>1. Len(delivered[e]) + 1 \in Nat  BY FlowTypes
  <2> QED  BY <1>2, <2>1 DEF Frame, SFrames
<1>4. Dist(v_ack_rem[e], vr[e]) \in 0..(W - 1)
  <2>1. Dist(v_ack_rem[e], vr[e]) < W /\ Dist(v_ack_rem[e], vr[e]) \in Seqno
    BY <1>1, <1>2, DistFacts DEF AckTimed, AckOwedIsTimed
  <2> QED  BY <2>1, LinkAssumption DEF Seqno
<1>5. Dist(v_ack_rem[e], next) = Dist(v_ack_rem[e], vr[e]) + 1
  <2>1. Dist(v_ack_rem[e], vr[e]) # Mod - 1  BY <1>4, LinkAssumption
  <2> QED  BY <1>2, <2>1, DistFacts
<1> HIDE DEF next, ackn
<1>6. StepOf(e)  BY <1>1, StepOthers DEF TypeOK
<1>7. /\ KeepsFlags(e) /\ vs'[e] = vs[e] /\ v_ack'[e] = Incoming(e).nr
      /\ ackw_q'[e] = AfterAck(ackw_q[e], Incoming(e).nr)
      /\ vr'[e] = next /\ v_ack_rem'[e] = IF OwesAck(e) THEN next ELSE v_ack_rem[e]
  BY <1>1 DEF KeepsFlags, TypeOK
<1>8. Timers(e, Off, T1After(e, Incoming(e).nr), T2, T3)  BY <1>1, TimersSet
<1>9. delivered'[e] \in Seq(Asdu) /\ Len(delivered'[e]) = Len(delivered[e]) + 1
  <2>1. delivered'[e] = Append(delivered[e], Incoming(e).asdu)  BY <1>1 DEF TypeOK
  <2>2. Incoming(e).asdu \in Asdu /\ delivered[e] \in Seq(Asdu)
    BY IncomingFields, FlowTypes DEF IFrames
  <2> QED  BY <2>1, <2>2
<1>10. Counted(e, Incoming(e).ack)
  <2>1. Receivable(e) /\ Acks(Incoming(e)) /\ sent'[e] = sent[e]  BY <1>1 DEF Gets, Acks
  <2> QED  BY <1>7, <2>1, CountedFacts
<1>11. CASE OwesAck(e)
  <2>1. v_ack_rem'[e] = vr'[e]  BY <1>7, <1>11
  <2>2. <<ackn>> \in Seq(Frame)  BY <1>3
  <2>3. Replied(e, "I", <<ackn>>)  BY <1>1, <1>11, <2>2, RepliedFacts
  <2> QED  BY <1>1, <1>3, <1>6, <1>7, <1>8, <1>9, <1>10, <2>1, <2>3 DEF TookI
<1>12. CASE ~OwesAck(e)
  <2>1. v_ack_rem'[e] = v_ack_rem[e] /\ vr'[e] = next  BY <1>7, <1>12
  <2>2. Dist(v_ack_rem[e], next) # W  BY <1>12 DEF OwesAck, next
  <2>3. Dist(v_ack_rem[e], vr[e]) + 1 \in 1..(W - 1)
    BY <1>4, <1>5, <2>2, LinkAssumption
  <2>4. v_ack_rem[e] # next
    <3>1. Dist(v_ack_rem[e], next) # 0  BY <1>5, <2>3
    <3> QED  BY <1>2, <3>1, DistFacts
  <2>5. <<>> \in Seq(Frame)  OBVIOUS
  <2>6. Replied(e, "I", <<>>)  BY <1>1, <1>12, <2>5, RepliedFacts
  <2> QED  BY <1>1, <1>5, <1>6, <1>7, <1>8, <1>9, <1>10, <2>1, <2>3, <2>4, <2>6 DEF TookI
<1> QED  BY <1>11, <1>12

LEMMA TakeSFacts ==
    ASSUME TypeOK, NEW e \in Station, Flow(e), Gets(e, "S"), TakeS(e)
    PROVE  TookS(e)
<1>1. /\ UNCHANGED <<link, cut, stopdt, testfr, vs, vr, v_ack_rem, sent, delivered>>
      /\ v_ack' = [v_ack EXCEPT ![e] = Incoming(e).nr]
      /\ ackw_q' = [ackw_q EXCEPT ![e] = AfterAck(@, Incoming(e).nr)]
      /\ timer' = [timer EXCEPT ![e] =
                       [Heard(e) EXCEPT !["t1"] = T1After(e, Incoming(e).nr)]]
      /\ net' = Answer(e, <<>>)
  BY DEF TakeS, Acknowledge, session, flags
<1>2. StepOf(e)  BY <1>1, StepOthers DEF TypeOK
<1>3. /\ KeepsFlags(e) /\ Receives(e) /\ vs'[e] = vs[e] /\ v_ack'[e] = Incoming(e).nr
      /\ ackw_q'[e] = AfterAck(ackw_q[e], Incoming(e).nr) /\ sent'[e] = sent[e]
  BY <1>1 DEF KeepsFlags, Receives, TypeOK
<1>4. Timers(e, Off, T1After(e, Incoming(e).nr), timer[e]["t2"], T3)  BY <1>1, TimersSet
<1>5. <<>> \in Seq(Frame) /\ Receivable(e) /\ Acks(Incoming(e))  BY DEF Gets, Acks
<1>6. Replied(e, "S", <<>>)  BY <1>1, <1>5, RepliedFacts
<1>7. Counted(e, Incoming(e).ack)  BY <1>3, <1>5, CountedFacts
<1> QED  BY <1>2, <1>3, <1>4, <1>6, <1>7 DEF TookS

LEMMA UFrameIsFrame ==
    \A func \in UFunc : UFrame(func) \in Frame /\ UFrame(func).kind = func
                        /\ <<UFrame(func)>> \in Seq(Frame)
  BY DEF UFrame, Frame, UFrames

LEMMA StartActFacts ==
    ASSUME TypeOK, NEW e \in Station, Gets(e, "STARTDTACT"), e = "slave",
           Start(e, <<UFrame("STARTDTCON")>>, Heard(e))
    PROVE  TookStartAct(e)
<1>1. /\ UNCHANGED <<link, cut, testfr, vs, v_ack, vr, v_ack_rem, ackw_q, sent, delivered>>
      /\ stopdt' = [stopdt EXCEPT ![e] = FALSE]
      /\ timer' = [timer EXCEPT ![e] = Heard(e)]
      /\ net' = Answer(e, <<UFrame("STARTDTCON")>>)
  BY DEF Start, session, seqnos
<1>2. StepOf(e)  BY <1>1, StepOthers DEF TypeOK
<1>3. KeepsAcks(e) /\ Receives(e) /\ testfr'[e] = testfr[e]
  BY <1>1 DEF KeepsAcks, Receives, Acked
<1>4. Timers(e, Off, timer[e]["t1"], timer[e]["t2"], T3)  BY <1>1, TimersSet
<1>5. Replied(e, "STARTDTACT", <<UFrame("STARTDTCON")>>)
  BY <1>1, RepliedFacts, UFrameIsFrame DEF UFunc
<1> QED  BY <1>2, <1>3, <1>4, <1>5 DEF TookStartAct

LEMMA StartConFacts ==
    ASSUME TypeOK, NEW e \in Station, Gets(e, "STARTDTCON"), e = "master",
           Start(e, <<>>, [Heard(e) EXCEPT !["t1"] = Off])
    PROVE  TookStartCon(e)
<1>1. /\ UNCHANGED <<link, cut, testfr, vs, v_ack, vr, v_ack_rem, ackw_q, sent, delivered>>
      /\ stopdt' = [stopdt EXCEPT ![e] = FALSE]
      /\ timer' = [timer EXCEPT ![e] = [Heard(e) EXCEPT !["t1"] = Off]]
      /\ net' = Answer(e, <<>>)
  BY DEF Start, session, seqnos
<1>2. StepOf(e)  BY <1>1, StepOthers DEF TypeOK
<1>3. KeepsAcks(e) /\ Receives(e) /\ testfr'[e] = testfr[e] /\ stopdt'[e] = FALSE
  BY <1>1 DEF KeepsAcks, Receives, Acked, TypeOK
<1>4. Timers(e, Off, Off, timer[e]["t2"], T3)  BY <1>1, TimersSet
<1>5. Replied(e, "STARTDTCON", <<>>)
  <2>1. <<>> \in Seq(Frame)  OBVIOUS
  <2> QED  BY <1>1, <2>1, RepliedFacts
<1> QED  BY <1>2, <1>3, <1>4, <1>5 DEF TookStartCon

LEMMA TestActFacts ==
    ASSUME TypeOK, NEW e \in Station, RecvTestAct(e)
    PROVE  TookTestAct(e)
<1>1. /\ UNCHANGED <<link, cut, stopdt, testfr>> /\ Gets(e, "TESTFRACT")
      /\ UNCHANGED <<vs, v_ack, vr, v_ack_rem, ackw_q, sent, delivered>>
      /\ timer' = [timer EXCEPT ![e] = TimersAfterTest(e)]
      /\ net' = Answer(e, <<UFrame("TESTFRCON")>>)
  BY DEF RecvTestAct, session, seqnos, flags
<1>2. StepOf(e)  BY <1>1, StepOthers DEF TypeOK
<1>3. KeepsAcks(e) /\ Receives(e) /\ KeepsFlags(e)
  BY <1>1 DEF KeepsAcks, Receives, KeepsFlags, Acked
<1>4. IF e = "slave" /\ ~testfr[e]
      THEN Timers(e, T0, timer[e]["t1"], timer[e]["t2"], Off)
      ELSE Timers(e, Off, timer[e]["t1"], timer[e]["t2"], T3)
  BY <1>1, TimersSet
<1>5. Replied(e, "TESTFRACT", <<UFrame("TESTFRCON")>>)
  BY <1>1, RepliedFacts, UFrameIsFrame DEF UFunc
<1> QED  BY <1>2, <1>3, <1>4, <1>5 DEF TookTestAct

LEMMA TestConFacts ==
    ASSUME TypeOK, NEW e \in Station, Gets(e, "TESTFRCON"), Tested(e)
    PROVE  TookTestCon(e)
<1>1. /\ UNCHANGED <<link, cut, stopdt>> /\ testfr' = [testfr EXCEPT ![e] = FALSE]
      /\ UNCHANGED <<vs, v_ack, vr, v_ack_rem, ackw_q, sent, delivered>>
      /\ timer' = [timer EXCEPT ![e] = [Heard(e) EXCEPT !["t1"] = Off]]
      /\ net' = Answer(e, <<>>)
  BY DEF Tested, session, seqnos
<1>2. StepOf(e)  BY <1>1, StepOthers DEF TypeOK
<1>3. KeepsAcks(e) /\ Receives(e) /\ stopdt'[e] = stopdt[e] /\ testfr'[e] = FALSE
  BY <1>1 DEF KeepsAcks, Receives, Acked, TypeOK
<1>4. Timers(e, Off, Off, timer[e]["t2"], T3)  BY <1>1, TimersSet
<1>5. Replied(e, "TESTFRCON", <<>>)
  <2>1. <<>> \in Seq(Frame)  OBVIOUS
  <2> QED  BY <1>1, <2>1, RepliedFacts
<1> QED  BY <1>2, <1>3, <1>4, <1>5 DEF TookTestCon

LEMMA WroteFacts ==
    ASSUME TypeOK, NEW e \in Station, NEW f \in Frame, net' = [net EXCEPT ![e] = Append(@, f)]
    PROVE  Wrote(e, <<f>>)
<1>1. net[e] \in Seq(Frame) /\ <<f>> \in Seq(Frame) /\ Peer(e) # e  BY FlowTypes
<1>2. net'[e] = Append(net[e], f) /\ net'[Peer(e)] = net[Peer(e)]
  BY <1>1, PeerIsStation DEF TypeOK
<1>3. Append(net[e], f) = net[e] \o <<f>>  BY <1>1
<1> QED  BY <1>1, <1>2, <1>3 DEF Wrote

LEMMA T2Facts ==
    ASSUME TypeOK, NEW e \in Station, T2Expire(e)
    PROVE  Acknowledged(e)
<1>1. /\ UNCHANGED <<link, cut, stopdt, testfr>> /\ Expired(e, "t2")
      /\ UNCHANGED <<vs, v_ack, vr, ackw_q, sent, delivered>>
      /\ v_ack_rem' = [v_ack_rem EXCEPT ![e] = vr[e]]
      /\ timer' = [timer EXCEPT ![e]["t2"] = Off]
      /\ net' = [net EXCEPT ![e] = Append(@, SFrame(e))]
  BY DEF T2Expire, session, flags
<1>2. StepOf(e)  BY <1>1, StepOthers DEF TypeOK
<1>3. /\ KeepsAcks(e) /\ KeepsFlags(e) /\ v_ack_rem'[e] = vr'[e] /\ vr'[e] = vr[e]
      /\ delivered'[e] = delivered[e]
  BY <1>1 DEF KeepsAcks, KeepsFlags, Acked, TypeOK
<1>4. Timers(e, timer[e]["t0"], timer[e]["t1"], Off, timer[e]["t3"])
  BY <1>1 DEF Timers, TypeOK, Timer
<1>5. SFrame(e) \in Frame /\ SFrame(e).kind = "S" /\ SFrame(e).ack = Len(delivered[e])
  BY FlowTypes DEF SFrame, Frame, SFrames
<1>6. Wrote(e, <<SFrame(e)>>)  BY <1>1, <1>5, WroteFacts
<1> QED  BY <1>1, <1>2, <1>3, <1>4, <1>5, <1>6 DEF Acknowledged

LEMMA T3Facts ==
    ASSUME TypeOK, NEW e \in Station, T3Expire(e)
    PROVE  Tests(e)
<1>1. /\ UNCHANGED <<link, cut, stopdt>> /\ testfr' = [testfr EXCEPT ![e] = TRUE]
      /\ UNCHANGED <<vs, v_ack, vr, v_ack_rem, ackw_q, sent, delivered>> /\ Expired(e, "t3")
      /\ timer' = [timer EXCEPT ![e]["t3"] = Off, ![e]["t1"] = T1]
      /\ net' = [net EXCEPT ![e] = Append(@, UFrame("TESTFRACT"))]
  BY DEF T3Expire, session, seqnos
<1>2. StepOf(e)  BY <1>1, StepOthers DEF TypeOK
<1>3. KeepsAcks(e) /\ Receives(e) /\ stopdt'[e] = stopdt[e] /\ testfr'[e] = TRUE
  BY <1>1 DEF KeepsAcks, Receives, Acked, TypeOK
<1>4. Timers(e, timer[e]["t0"], T1, timer[e]["t2"], Off)
  BY <1>1 DEF Timers, TypeOK, Timer
<1>5. Wrote(e, <<UFrame("TESTFRACT")>>)  BY <1>1, WroteFacts, UFrameIsFrame DEF UFunc
<1> QED  BY <1>1, <1>2, <1>3, <1>4, <1>5 DEF Tests

LEMMA RunFacts ==
    ASSUME TypeOK, NEW e \in Station, Flow(e), RunSendQueues(e)
    PROVE  Ran(e)
<1> DEFINE n == SendCount(e)
           q == ToSend(e)
           out == [i \in 1..n |-> IFrame(e, q, i)]
           ns == [i \in 1..n |-> Plus(vs[e], i - 1)]
<1>1. /\ n \in Nat \ {0} /\ n <= Len(q) /\ q \in Seq(Asdu) /\ Len(ackw_q[e]) + n <= K
  BY RunFits
<1>2. /\ out \in Seq(Frame) /\ ns \in Seq(Seqno) /\ SubSeq(q, 1, n) \in Seq(Asdu)
      /\ Plus(vs[e], n) \in Seqno
  BY <1>1, RunFrames
<1>3. Len(out) = n /\ Len(ns) = n /\ Len(SubSeq(q, 1, n)) = n
  BY <1>1, <1>2
<1>4. out # <<>> /\ \A i \in 1..Len(out) : out[i].kind = "I"
  BY <1>1, <1>3 DEF IFrame
<1>5. /\ UNCHANGED <<link, cut, stopdt, testfr, vr, v_ack, v_ack_rem, delivered>>
      /\ link[e] = "open"
      /\ vs' = [vs EXCEPT ![e] = Plus(@, n)]
      /\ sent' = [sent EXCEPT ![e] = @ \o SubSeq(q, 1, n)]
      /\ ackw_q' = [ackw_q EXCEPT ![e] = @ \o ns]
      /\ timer' = [timer EXCEPT ![e]["t1"] = T1]
      /\ net' = [net EXCEPT ![e] = @ \o out]
  BY DEF RunSendQueues, Active, session, flags
<1> HIDE DEF n, q, out, ns
<1>6. StepOf(e)  BY <1>5, StepOthers DEF TypeOK
<1>7. KeepsFlags(e) /\ Receives(e)  BY <1>5 DEF KeepsFlags, Receives
<1>8. Timers(e, timer[e]["t0"], T1, timer[e]["t2"], timer[e]["t3"])
  BY <1>5 DEF Timers, TypeOK, Timer
<1>9. Wrote(e, out)
  <2>1. net[e] \in Seq(Frame) /\ Peer(e) \in Station /\ Peer(e) # e  BY FlowTypes
  <2>2. net'[e] = net[e] \o out /\ net'[Peer(e)] = net[Peer(e)]  BY <1>5, <2>1 DEF TypeOK
  <2> QED  BY <1>2, <2>1, <2>2 DEF Wrote
<1>10. PICK s \in Nat, l \in Nat : s = Len(sent[e]) /\ l = Len(ackw_q[e])  BY FlowTypes
<1>11. Acked(e)' = Acked(e)
  <2>1. sent[e] \in Seq(Asdu) /\ ackw_q[e] \in Seq(Seqno)  BY FlowTypes
  <2>2. sent'[e] = sent[e] \o SubSeq(q, 1, n) /\ ackw_q'[e] = ackw_q[e] \o ns
    BY <1>5 DEF TypeOK
  <2>3. Len(sent'[e]) = s + n  BY <1>2, <1>3, <1>10, <2>1, <2>2
  <2>4. Len(ackw_q'[e]) = l + n
    <3>1. ns \in Seq(Seqno) /\ Len(ns) = n  BY <1>2, <1>3
    <3>2. PICK all : all = ackw_q[e] \o ns  OBVIOUS
    <3>3. Len(all) = l + n  BY <1>10, <2>1, <3>1, <3>2, JoinedFrames
    <3> QED  BY <2>2, <3>2, <3>3
  <2>5. (s + n) - (l + n) = s - l  BY <1>1, <1>10
  <2> QED  BY <1>10, <2>3, <2>4, <2>5 DEF Acked
<1>12. v_ack'[e] # vs'[e]
  <2>1. PICK a \in Nat : a = Acked(e)  BY AckedType
  <2>2. /\ vs[e] = s % Mod /\ v_ack[e] = a % Mod /\ s - a = l /\ a <= s
    BY <1>10, <2>1, AckedType
  <2>3. vs'[e] = (s + n) % Mod /\ v_ack'[e] = a % Mod
    BY <1>1, <1>5, <1>10, <2>2, PlusOfPosition DEF TypeOK
  <2>4. PICK m \in Nat \ {0} : m = n /\ l + m <= K  BY <1>1, <1>10
  <2>5. s - a = l /\ a <= s  BY <2>2
  <2>6. s + m \in Nat /\ a <= s + m /\ (s + m) - a < Mod /\ a # s + m
    BY <2>4, <2>5, ModIsPositive
  <2>7. vs'[e] = (s + m) % Mod /\ v_ack'[e] = a % Mod  BY <2>3, <2>4
  <2>8. a % Mod # (s + m) % Mod  BY <2>6, NumberIsPosition, Zenon
  <2> QED  BY <2>7, <2>8
<1> QED  BY <1>2, <1>4, <1>5, <1>6, <1>7, <1>8, <1>9, <1>11, <1>12 DEF Ran

LEMMA ExitFacts ==
    ASSUME TypeOK, NEW e \in Station, NEW why \in Causes, Exit(e, why),
           why = "t1" => Expired(e, "t1"), why = "t0" => Expired(e, "t0") /\ e = "slave"
    PROVE  Exited(e)
<1>1. /\ UNCHANGED <<cut, stopdt, testfr, vs, v_ack, vr, v_ack_rem, ackw_q, sent, delivered>>
      /\ link' = [link EXCEPT ![e] = why]
      /\ timer' = [timer EXCEPT ![e] = Stopped]
      /\ net' = [net EXCEPT ![Peer(e)] = <<>>]
  BY DEF Exit, seqnos, flags
<1>2. \A d \in Station : Kept(d)
  BY <1>1 DEF Kept, KeepsFlags, KeepsAcks, Receives, Acked
<1>3. Timers(e, Off, Off, Off, Off)  BY <1>1 DEF Timers, TypeOK, Stopped, Timer
<1>4. /\ link'[Peer(e)] = link[Peer(e)] /\ link'[e] = why /\ timer'[Peer(e)] = timer[Peer(e)]
      /\ net'[e] = net[e] /\ net'[Peer(e)] = <<>>
  BY <1>1, PeerIsStation DEF TypeOK
<1> QED  BY <1>1, <1>2, <1>3, <1>4 DEF Exited

LEMMA ConnectFacts ==
    ASSUME TypeOK, Connect
    PROVE  Connected
<1>1. /\ UNCHANGED <<cut, testfr, vs, v_ack, vr, v_ack_rem, ackw_q, sent, delivered>>
      /\ link["master"] = "idle" /\ link["slave"] = "idle"
      /\ link' = [link EXCEPT !["master"] = "open"]
      /\ stopdt' = [stopdt EXCEPT !["master"] = TRUE]
      /\ timer' = [timer EXCEPT !["master"]["t1"] = T1, !["master"]["t0"] = Off]
      /\ net' = [net EXCEPT !["master"] = Append(@, UFrame("STARTDTACT"))]
  BY DEF Connect, seqnos
<1>2. \A d \in Station : testfr'[d] = testfr[d] /\ KeepsAcks(d) /\ Receives(d)
  BY <1>1 DEF KeepsAcks, Receives, Acked
<1>3. /\ Timers("master", Off, T1, timer["master"]["t2"], timer["master"]["t3"])
      /\ timer'["slave"] = timer["slave"]
  BY <1>1 DEF Timers, TypeOK, Timer, Station
<1>4. Wrote("master", <<UFrame("STARTDTACT")>>)
  BY <1>1, WroteFacts, UFrameIsFrame DEF UFunc, Station
<1>5. link'["master"] = "open" /\ link'["slave"] = "idle" /\ stopdt'["master"] = TRUE
  BY <1>1 DEF TypeOK, Station
<1> QED  BY <1>1, <1>2, <1>3, <1>4, <1>5 DEF Connected

LEMMA AcceptFacts ==
    ASSUME TypeOK, Accept
    PROVE  Accepted
<1>1. /\ UNCHANGED <<cut, testfr, vs, v_ack, vr, v_ack_rem, ackw_q, sent, delivered, timer, net>>
      /\ link["master"] = "open" /\ link["slave"] = "idle"
      /\ link' = [link EXCEPT !["slave"] = "open"]
      /\ stopdt' = [stopdt EXCEPT !["slave"] = TRUE]
  BY DEF Accept, seqnos
<1>2. \A d \in Station : testfr'[d] = testfr[d] /\ KeepsAcks(d) /\ Receives(d)
  BY <1>1 DEF KeepsAcks, Receives, Acked
<1>3. link'["master"] = "open" /\ link'["slave"] = "open" /\ stopdt'["master"] = stopdt["master"]
  BY <1>1 DEF TypeOK, Station
<1> QED  BY <1>1, <1>2, <1>3 DEF Accepted

LEMMA IdleFacts ==
    ASSUME TypeOK, NEW e \in Station, NEW q \in Queue, Submit(e, q) \/ Cut \/ UNCHANGED vars
    PROVE  Idled
<1>1. /\ UNCHANGED <<stopdt, testfr, vs, v_ack, vr, v_ack_rem, ackw_q, sent, delivered>>
      /\ UNCHANGED <<link, timer, net>> /\ cut' \in BOOLEAN /\ (cut => cut')
  BY DEF Submit, Cut, TypeOK, vars, session, seqnos, flags
<1> QED  BY <1>1 DEF Idled, Kept, KeepsFlags, KeepsAcks, Receives, Acked

LEMMA TickFacts ==
    ASSUME TypeOK, Tick
    PROVE  Ticked
<1>1. /\ UNCHANGED <<stopdt, testfr, vs, v_ack, vr, v_ack_rem, ackw_q, sent, delivered>>
      /\ UNCHANGED <<link, cut, net>> /\ Quiet
      /\ timer' = [e \in Station |-> [t \in Timer |->
                       IF timer[e][t] > 0 THEN timer[e][t] - 1 ELSE timer[e][t]]]
  BY DEF Tick, session, seqnos, flags
<1>2. \A d \in Station : Kept(d)
  BY <1>1 DEF Kept, KeepsFlags, KeepsAcks, Receives, Acked
<1> QED  BY <1>1, <1>2 DEF Ticked

\* A step of one station; RecvI and the others without the errors that NoErrors excludes.
Moves(e) ==
    \/ Ran(e) \/ TookI(e) \/ TookS(e) \/ TookStartAct(e) \/ TookStartCon(e) \/ TookTestAct(e)
    \/ TookTestCon(e) \/ Acknowledged(e) \/ Tests(e) \/ Exited(e)

LEMMA ReceiveFacts ==
    ASSUME TypeOK, DeliveryInv, AckTimed, NEW e \in Station, Receive(e)
    PROVE  Moves(e)
<1>1. Flow(e)  BY DEF DeliveryInv
<1>2. CASE RecvI(e)
  <2>1. Gets(e, "I") /\ TakeI(e)  BY <1>2, NoErrors
  <2> QED  BY <1>1, <2>1, TakeIFacts DEF Moves
<1>3. CASE RecvS(e)
  <2>1. Gets(e, "S") /\ TakeS(e)  BY <1>3, NoErrors
  <2> QED  BY <1>1, <2>1, TakeSFacts DEF Moves
<1>4. CASE RecvStartAct(e)
  <2>1. e = "slave" /\ Start(e, <<UFrame("STARTDTCON")>>, Heard(e))  BY <1>4, NoErrors
  <2>2. Gets(e, "STARTDTACT")  BY <1>4 DEF RecvStartAct
  <2> QED  BY <2>1, <2>2, StartActFacts DEF Moves
<1>5. CASE RecvStartCon(e)
  <2>1. e = "master" /\ Start(e, <<>>, [Heard(e) EXCEPT !["t1"] = Off])  BY <1>5, NoErrors
  <2>2. Gets(e, "STARTDTCON")  BY <1>5 DEF RecvStartCon
  <2> QED  BY <2>1, <2>2, StartConFacts DEF Moves
<1>6. CASE RecvTestAct(e)  BY <1>6, TestActFacts DEF Moves
<1>7. CASE RecvTestCon(e)
  <2>1. Gets(e, "TESTFRCON")  BY <1>7 DEF RecvTestCon
  <2>2. CASE Tested(e)  BY <2>1, <2>2, TestConFacts DEF Moves
  <2>3. CASE Exit(e, "testfr")
    <3>1. "testfr" \in Causes  BY DEF Causes
    <3>2. Exited(e)  BY <2>3, <3>1, ExitFacts
    <3> QED  BY <3>2 DEF Moves
  <2> QED  BY <1>7, <2>2, <2>3 DEF RecvTestCon
<1> QED  BY <1>2, <1>3, <1>4, <1>5, <1>6, <1>7 DEF Receive

LEMMA StepFacts ==
    ASSUME TypeOK, DeliveryInv, AckTimed, NEW e \in Station, Step(e)
    PROVE  Moves(e) \/ Idled
<1> USE DEF Moves
<1>1. {"eof", "t0", "t1", "pool"} \subseteq Causes  BY DEF Causes
<1>2. CASE PeerGone(e)
  <2>1. Exit(e, "eof")  BY <1>2 DEF PeerGone
  <2> QED  BY <1>1, <2>1, ExitFacts
<1>3. CASE RunSendQueues(e)
  <2>1. Flow(e)  BY DEF DeliveryInv
  <2> QED  BY <1>3, <2>1, RunFacts
<1>4. CASE Receive(e)  BY <1>4, ReceiveFacts
<1>5. CASE T0Expire(e)
  <2>1. Exit(e, "t0") /\ Expired(e, "t0") /\ e = "slave"  BY <1>5 DEF T0Expire
  <2> QED  BY <1>1, <2>1, ExitFacts
<1>6. CASE T1Expire(e)
  <2>1. Exit(e, "t1") /\ Expired(e, "t1")  BY <1>6 DEF T1Expire
  <2> QED  BY <1>1, <2>1, ExitFacts
<1>7. CASE T2Expire(e)  BY <1>7, T2Facts
<1>8. CASE T3Expire(e)  BY <1>8, T3Facts
<1>9. ASSUME NEW q \in Queue, Submit(e, q) PROVE Idled  BY <1>9, IdleFacts
<1>10. ASSUME NEW q \in Queue, PoolExhausted(e, q) PROVE Exited(e)
  <2>1. Exit(e, "pool")  BY <1>10 DEF PoolExhausted
  <2> QED  BY <1>1, <2>1, ExitFacts
<1> QED  BY <1>2, <1>3, <1>4, <1>5, <1>6, <1>7, <1>8, <1>9, <1>10 DEF Step

LEMMA NextFacts ==
    ASSUME TypeOK, DeliveryInv, AckTimed, [Next]_vars
    PROVE  \/ Restart \/ Idled \/ Ticked \/ Connected \/ Accepted
           \/ \E e \in Station : Moves(e)
<1>1. CASE Connect  BY <1>1, ConnectFacts
<1>2. CASE ConnectFails
  <2>1. Exit("master", "refused") /\ "master" \in Station /\ "refused" \in Causes
    BY <1>2 DEF ConnectFails, Station, Causes
  <2> QED  BY <2>1, ExitFacts DEF Moves
<1>3. CASE Accept  BY <1>3, AcceptFacts
<1>4. CASE Cut \/ UNCHANGED vars  BY <1>4, IdleFacts DEF Station, Queue
<1>5. CASE Tick  BY <1>5, TickFacts
<1>6. ASSUME NEW e \in Station, Step(e) PROVE Moves(e) \/ Idled  BY <1>6, StepFacts
<1> QED  BY <1>1, <1>2, <1>3, <1>4, <1>5, <1>6 DEF Next

-----------------------------------------------------------------------------
(* Timers run on open sockets only. *)

LEMMA OwnKnown ==
    ASSUME TimersKnown, NEW e \in Station, link' = link, link[e] = "open",
           \A d \in Station \ {e} : timer'[d] = timer[d],
           timer'[e]["t2"] <= T2, timer'[e]["t3"] <= T3
    PROVE  TimersKnown'
<1> SUFFICES ASSUME NEW d \in Station
             PROVE  /\ link'[d] # "open" => \A t \in Timer : timer'[d][t] = Off
                    /\ timer'[d]["t2"] <= T2 /\ timer'[d]["t3"] <= T3
  BY DEF TimersKnown, Running
<1>1. CASE d = e  BY <1>1
<1>2. CASE d # e  BY <1>2 DEF TimersKnown, Running
<1> QED  BY <1>1, <1>2

LEMMA MoveKnown ==
    ASSUME TypeOK, TimersKnown, NEW e \in Station, Moves(e)
    PROVE  TimersKnown'
<1>1. Off <= T2 /\ Off <= T3 /\ T2 <= T2 /\ T3 <= T3  BY LinkAssumption DEF Off
<1>2. timer[e]["t2"] <= T2 /\ timer[e]["t3"] <= T3  BY DEF TimersKnown
<1>3. CASE Exited(e)
  <2> SUFFICES ASSUME NEW d \in Station
               PROVE  /\ link'[d] # "open" => \A t \in Timer : timer'[d][t] = Off
                      /\ timer'[d]["t2"] <= T2 /\ timer'[d]["t3"] <= T3
    BY DEF TimersKnown, Running
  <2>1. CASE d = e  BY <1>1, <1>3, <2>1 DEF Exited, Timers, Timer
  <2>2. CASE d = Peer(e)
    <3>1. timer'[d] = timer[d] /\ link'[d] = link[d]  BY <1>3, <2>2 DEF Exited
    <3> QED  BY <3>1 DEF TimersKnown, Running
  <2> QED  BY <2>1, <2>2, Stations
<1>4. ASSUME StepOf(e), link[e] = "open", timer'[e]["t2"] <= T2, timer'[e]["t3"] <= T3
      PROVE  TimersKnown'
  <2>1. link' = link /\ \A d \in Station \ {e} : timer'[d] = timer[d]  BY <1>4 DEF StepOf
  <2> QED  BY <1>4, <2>1, OwnKnown
<1>5. ASSUME NEW t \in Timer, Expired(e, t) PROVE link[e] = "open"
  BY <1>5 DEF TimersKnown, Running, Expired, Off
<1>6. ASSUME NEW k, Gets(e, k) PROVE link[e] = "open"  BY <1>6 DEF Gets, Receivable
<1>7. CASE Ran(e)  BY <1>1, <1>2, <1>4, <1>7 DEF Ran, Timers
<1>8. CASE TookI(e)  BY <1>1, <1>2, <1>4, <1>8 DEF TookI, Timers
<1>9. CASE TookS(e)
  <2>1. link[e] = "open"  BY <1>6, <1>9 DEF TookS, Replied
  <2> QED  BY <1>1, <1>2, <1>4, <1>9, <2>1 DEF TookS, Timers
<1>10. CASE TookStartAct(e)
  <2>1. link[e] = "open"  BY <1>6, <1>10 DEF TookStartAct, Replied
  <2> QED  BY <1>1, <1>2, <1>4, <1>10, <2>1 DEF TookStartAct, Timers
<1>11. CASE TookStartCon(e)
  <2>1. link[e] = "open"  BY <1>6, <1>11 DEF TookStartCon, Replied
  <2> QED  BY <1>1, <1>2, <1>4, <1>11, <2>1 DEF TookStartCon, Timers
<1>12. CASE TookTestAct(e)
  <2>1. link[e] = "open"  BY <1>6, <1>12 DEF TookTestAct, Replied
  <2>2. timer'[e]["t2"] <= T2 /\ timer'[e]["t3"] <= T3
    BY <1>1, <1>2, <1>12 DEF TookTestAct, Timers
  <2> QED  BY <1>4, <1>12, <2>1, <2>2 DEF TookTestAct
<1>13. CASE TookTestCon(e)
  <2>1. link[e] = "open"  BY <1>6, <1>13 DEF TookTestCon, Replied
  <2> QED  BY <1>1, <1>2, <1>4, <1>13, <2>1 DEF TookTestCon, Timers
<1>14. CASE Acknowledged(e)
  <2>1. link[e] = "open"  BY <1>5, <1>14 DEF Acknowledged, Timer
  <2> QED  BY <1>1, <1>2, <1>4, <1>14, <2>1 DEF Acknowledged, Timers
<1>15. CASE Tests(e)
  <2>1. link[e] = "open"  BY <1>5, <1>15 DEF Tests, Timer
  <2> QED  BY <1>1, <1>2, <1>4, <1>15, <2>1 DEF Tests, Timers
<1> QED  BY <1>3, <1>7, <1>8, <1>9, <1>10, <1>11, <1>12, <1>13, <1>14, <1>15 DEF Moves

LEMMA FreshTimers ==
    ASSUME \A e \in Station : \A t \in Timer : timer[e][t] = Off
    PROVE  TimersKnown
<1>1. Off <= T2 /\ Off <= T3 /\ "t2" \in Timer /\ "t3" \in Timer
  BY LinkAssumption DEF Off, Timer
<1> QED  BY <1>1 DEF TimersKnown, Running

LEMMA NextKnown ==
    ASSUME TypeOK, DeliveryInv, AckTimed, TimersKnown, [Next]_vars
    PROVE  TimersKnown'
<1>1. CASE Restart
  <2>1. timer' = [e \in Station |-> Stopped]  BY <1>1 DEF Restart
  <2> QED
    <3>1. Off <= T2 /\ Off <= T3  BY LinkAssumption DEF Off
    <3> QED  BY <2>1, <3>1 DEF TimersKnown, Running, Stopped, Timer
<1>2. CASE Idled  BY <1>2 DEF Idled, TimersKnown, Running
<1>3. CASE Ticked
  <2> SUFFICES ASSUME NEW d \in Station
               PROVE  /\ link'[d] # "open" => \A t \in Timer : timer'[d][t] = Off
                      /\ timer'[d]["t2"] <= T2 /\ timer'[d]["t3"] <= T3
    BY DEF TimersKnown, Running
  <2>1. link' = link /\ \A t \in Timer :
          timer'[d][t] = IF timer[d][t] > 0 THEN timer[d][t] - 1 ELSE timer[d][t]
    BY <1>3 DEF Ticked
  <2>2. \A t \in Timer : timer[d][t] \in Nat \cup {Off}  BY DEF TypeOK
  <2>3. link[d] # "open" => \A t \in Timer : timer[d][t] = Off
    BY DEF TimersKnown, Running
  <2>4. timer[d]["t2"] <= T2 /\ timer[d]["t3"] <= T3  BY DEF TimersKnown
  <2> QED  BY <2>1, <2>2, <2>3, <2>4, LinkAssumption DEF Timer, Off
<1>4. CASE Connected
  <2> SUFFICES ASSUME NEW d \in Station
               PROVE  /\ link'[d] # "open" => \A t \in Timer : timer'[d][t] = Off
                      /\ timer'[d]["t2"] <= T2 /\ timer'[d]["t3"] <= T3
    BY DEF TimersKnown, Running
  <2>1. CASE d = "master"  BY <1>4, <2>1 DEF Connected, Timers, TimersKnown
  <2>2. CASE d = "slave"  BY <1>4, <2>2 DEF Connected, TimersKnown, Running
  <2> QED  BY <2>1, <2>2 DEF Station
<1>5. CASE Accepted
  <2> SUFFICES ASSUME NEW d \in Station
               PROVE  /\ link'[d] # "open" => \A t \in Timer : timer'[d][t] = Off
                      /\ timer'[d]["t2"] <= T2 /\ timer'[d]["t3"] <= T3
    BY DEF TimersKnown, Running
  <2>1. timer' = timer /\ link'[d] = "open"  BY <1>5 DEF Accepted, Station
  <2> QED  BY <2>1 DEF TimersKnown
<1>6. ASSUME NEW e \in Station, Moves(e) PROVE TimersKnown'  BY <1>6, MoveKnown
<1> QED  BY <1>1, <1>2, <1>3, <1>4, <1>5, <1>6, NextFacts

-----------------------------------------------------------------------------
(* What a station waits for is on its way. *)

LEMMA WroteComing ==
    ASSUME NEW e \in Station, NEW out, Wrote(e, out), net[Peer(e)] \in Seq(Frame)
    PROVE  /\ \A d \in Station : \A kind : Coming(net[d], kind) => Coming(net'[d], kind)
           /\ \A kind : Coming(out, kind) => Coming(net'[e], kind)
           /\ \A d \in Station : \A n : Acking(net[d], n) => Acking(net'[d], n)
           /\ \A n : Acking(out, n) => Acking(net'[e], n)
<1>1. out \in Seq(Frame) /\ net[e] \in Seq(Frame) /\ net'[e] = net[e] \o out
      /\ net'[Peer(e)] = net[Peer(e)]
  BY DEF Wrote
<1>2. \A kind : /\ Coming(net[e], kind) => Coming(net'[e], kind)
                /\ Coming(out, kind) => Coming(net'[e], kind)
  BY <1>1, ComingMore
<1>3. \A n : /\ Acking(net[e], n) => Acking(net'[e], n)
             /\ Acking(out, n) => Acking(net'[e], n)
  BY <1>1, AckingMore
<1> QED  BY <1>1, <1>2, <1>3, Stations, Zenon

LEMMA RepliedComing ==
    ASSUME NEW e \in Station, NEW k, NEW out, Replied(e, k, out)
    PROVE  /\ \A kind : Coming(net[e], kind) => Coming(net'[e], kind)
           /\ \A kind : kind # k /\ Coming(net[Peer(e)], kind) => Coming(net'[Peer(e)], kind)
           /\ \A kind : Coming(out, kind) => Coming(net'[e], kind)
           /\ \A kind : Coming(net'[Peer(e)], kind) => Coming(net[Peer(e)], kind)
           /\ \A kind : Coming(net'[e], kind) => Coming(net[e], kind) \/ Coming(out, kind)
           /\ \A n : Acking(net[e], n) => Acking(net'[e], n)
           /\ \A n : Acking(out, n) => Acking(net'[e], n)
           /\ \A n : Acking(net[Peer(e)], n) =>
                (Acks(Incoming(e)) /\ Incoming(e).ack = n) \/ Acking(net'[Peer(e)], n)
<1>1. /\ out \in Seq(Frame) /\ net[e] \in Seq(Frame) /\ net'[e] = net[e] \o out
      /\ net[Peer(e)] \in Seq(Frame) /\ net[Peer(e)] # <<>>
      /\ Head(net[Peer(e)]).kind = k /\ net'[Peer(e)] = Tail(net[Peer(e)])
  BY DEF Replied
<1>2. \A kind : Coming(net'[e], kind) <=> Coming(net[e], kind) \/ Coming(out, kind)
  BY <1>1, ComingMore
<1>3. \A n : /\ Acking(net[e], n) => Acking(net'[e], n)
             /\ Acking(out, n) => Acking(net'[e], n)
  BY <1>1, AckingMore
<1>4. \A kind : kind # k /\ Coming(net[Peer(e)], kind) => Coming(net'[Peer(e)], kind)
  BY <1>1, ComingTail, Zenon
<1>5. \A kind : Coming(net'[Peer(e)], kind) => Coming(net[Peer(e)], kind)
  BY <1>1, ComingLess, Zenon
<1>6. \A n : Acking(net[Peer(e)], n) =>
                (Acks(Incoming(e)) /\ Incoming(e).ack = n) \/ Acking(net'[Peer(e)], n)
  <2>1. Incoming(e) = Head(net[Peer(e)])  BY DEF Incoming
  <2> QED  BY <1>1, <2>1, AckingTail, Zenon
<1> QED  BY <1>2, <1>3, <1>4, <1>5, <1>6, Zenon

LEMMA OneComing ==
    /\ \A func \in UFunc : Coming(<<UFrame(func)>>, func)
    /\ \A f \in Frame : f.kind = "S" => Acking(<<f>>, f.ack)
<1>1. \A func \in UFunc : UFrame(func).kind = func  BY UFrameIsFrame
<1>2. ASSUME NEW func \in UFunc PROVE Coming(<<UFrame(func)>>, func)
  BY <1>1, ComingOne
<1>3. ASSUME NEW f \in Frame, f.kind = "S" PROVE Acking(<<f>>, f.ack)
  BY <1>3 DEF Acking, Acks
<1> QED  BY <1>2, <1>3

\* What the two stations wait for, as one sentence about the state of one end.
Awaited(e) ==
    /\ Alive(e) /\ Alive(Peer(e)) /\ testfr[e] => Asked(e, "TESTFRACT", "TESTFRCON")
    /\ e = "master" /\ link[e] = "open" /\ Alive(Peer(e)) /\ stopdt[e] =>
        Asked(e, "STARTDTACT", "STARTDTCON")

LEMMA AnsweredIs == Answered <=> \A e \in Station : Awaited(e)
<1>1. Peer("master") = "slave" /\ "master" \in Station  BY DEF Peer, Station
<1> QED  BY <1>1 DEF Answered, Awaited

\* A step that opens nothing and loses no question and no answer.
LEMMA StillAsked ==
    ASSUME NEW d \in Station, Awaited(d),
           link'[d] = link[d], link'[Peer(d)] = link[Peer(d)],
           testfr'[d] => testfr[d] \/ Coming(net'[d], "TESTFRACT"),
           d = "master" /\ stopdt'[d] => stopdt[d],
           testfr'[d] /\ Coming(net[d], "TESTFRACT") =>
               Coming(net'[d], "TESTFRACT") \/ Coming(net'[Peer(d)], "TESTFRCON"),
           testfr'[d] /\ Coming(net[Peer(d)], "TESTFRCON") => Coming(net'[Peer(d)], "TESTFRCON"),
           d = "master" /\ Coming(net[d], "STARTDTACT") =>
               Coming(net'[d], "STARTDTACT") \/ Coming(net'[Peer(d)], "STARTDTCON"),
           d = "master" /\ stopdt'[d] /\ Coming(net[Peer(d)], "STARTDTCON") =>
               Coming(net'[Peer(d)], "STARTDTCON")
    PROVE  Awaited(d)'
<1>1. Alive(d)' = Alive(d) /\ Alive(Peer(d))' = Alive(Peer(d))  BY DEF Alive
<1>2. Awaited(d)' <=>
         /\ Alive(d)' /\ Alive(Peer(d))' /\ testfr'[d] =>
              Coming(net'[d], "TESTFRACT") \/ Coming(net'[Peer(d)], "TESTFRCON")
         /\ d = "master" /\ link'[d] = "open" /\ Alive(Peer(d))' /\ stopdt'[d] =>
              Coming(net'[d], "STARTDTACT") \/ Coming(net'[Peer(d)], "STARTDTCON")
  BY DEF Awaited, Asked
<1> QED  BY <1>1, <1>2, Zenon DEF Awaited, Asked

LEMMA MoveAnswered ==
    ASSUME TypeOK, NEW e \in Station, Moves(e), NEW d \in Station, Awaited(d)
    PROVE  Awaited(d)'
<1>1. /\ Peer(e) \in Station /\ Peer(e) # e /\ Peer(Peer(e)) = e
      /\ net[e] \in Seq(Frame) /\ net[Peer(e)] \in Seq(Frame)
  BY FlowTypes
<1>2. d = e \/ d = Peer(e)  BY Stations
<1>3. ASSUME StepOf(e)
      PROVE  /\ link'[d] = link[d] /\ link'[Peer(d)] = link[Peer(d)]
             /\ d = Peer(e) => testfr'[d] = testfr[d] /\ stopdt'[d] = stopdt[d]
  BY <1>1, <1>3 DEF StepOf
<1>4. ASSUME StepOf(e), NEW out, Wrote(e, out), stopdt'[e] = stopdt[e],
             testfr'[e] => testfr[e] \/ Coming(net'[e], "TESTFRACT")
      PROVE  Awaited(d)'
  <2>1. \A b \in Station : \A kind : Coming(net[b], kind) => Coming(net'[b], kind)
    BY <1>1, <1>4, WroteComing
  <2>2. CASE d = e  BY <1>1, <1>3, <1>4, <2>1, <2>2, StillAsked
  <2>3. CASE d = Peer(e)  BY <1>1, <1>3, <1>4, <2>1, <2>3, StillAsked
  <2> QED  BY <1>2, <2>2, <2>3
<1>5. ASSUME StepOf(e), NEW k, NEW out, Replied(e, k, out),
             testfr'[e] => testfr[e] /\ k # "TESTFRCON",
             e = "master" /\ stopdt'[e] => stopdt[e] /\ k # "STARTDTCON",
             k = "TESTFRACT" => Coming(out, "TESTFRCON"),
             k = "STARTDTACT" => Coming(out, "STARTDTCON")
      PROVE  Awaited(d)'
  <2>1. /\ \A kind : Coming(net[e], kind) => Coming(net'[e], kind)
        /\ \A kind : kind # k /\ Coming(net[Peer(e)], kind) => Coming(net'[Peer(e)], kind)
        /\ \A kind : Coming(out, kind) => Coming(net'[e], kind)
    BY <1>5, RepliedComing
  <2>2. CASE d = e
    <3>1. Coming(net[d], "TESTFRACT") => Coming(net'[d], "TESTFRACT")  BY <2>1, <2>2
    <3>2. Coming(net[d], "STARTDTACT") => Coming(net'[d], "STARTDTACT")  BY <2>1, <2>2
    <3>3. testfr'[d] /\ Coming(net[Peer(d)], "TESTFRCON") => Coming(net'[Peer(d)], "TESTFRCON")
      BY <1>5, <2>1, <2>2
    <3>4. d = "master" /\ stopdt'[d] /\ Coming(net[Peer(d)], "STARTDTCON") =>
             Coming(net'[Peer(d)], "STARTDTCON")
      BY <1>5, <2>1, <2>2
    <3> QED  BY <1>3, <1>5, <2>2, <3>1, <3>2, <3>3, <3>4, StillAsked
  <2>3. CASE d = Peer(e)
    <3>1. Coming(net[d], "TESTFRACT") =>
            Coming(net'[d], "TESTFRACT") \/ Coming(net'[Peer(d)], "TESTFRCON")
      BY <1>1, <1>5, <2>1, <2>3
    <3>2. Coming(net[d], "STARTDTACT") =>
            Coming(net'[d], "STARTDTACT") \/ Coming(net'[Peer(d)], "STARTDTCON")
      BY <1>1, <1>5, <2>1, <2>3
    <3>3. \A kind : Coming(net[Peer(d)], kind) => Coming(net'[Peer(d)], kind)
      BY <1>1, <2>1, <2>3
    <3> QED  BY <1>3, <1>5, <2>3, <3>1, <3>2, <3>3, StillAsked
  <2> QED  BY <1>2, <2>2, <2>3
<1>6. CASE Exited(e)
  <2>1. ~Alive(e)' /\ link'[e] # "open"  BY <1>6 DEF Exited, Alive, Causes
  <2>2. d = e \/ Peer(d) = e  BY <1>1, <1>2
  <2>3. ~(Alive(d)' /\ Alive(Peer(d))') /\ ~(link'[d] = "open" /\ Alive(Peer(d))')
    BY <2>1, <2>2
  <2> QED  BY <2>3 DEF Awaited
<1>7. CASE Ran(e)
  <2>1. PICK out \in Seq(Frame) : Wrote(e, out)  BY <1>7 DEF Ran
  <2> QED  BY <1>4, <1>7, <2>1 DEF Ran, KeepsFlags
<1>8. CASE TookI(e)
  <2>1. PICK out : Replied(e, "I", out)  BY <1>8 DEF TookI
  <2> QED  BY <1>5, <1>8, <2>1 DEF TookI, KeepsFlags
<1>9. CASE TookS(e)  BY <1>5, <1>9 DEF TookS, KeepsFlags
<1>10. CASE TookStartAct(e)
  <2>1. Coming(<<UFrame("STARTDTCON")>>, "STARTDTCON")  BY OneComing DEF UFunc
  <2> QED  BY <1>5, <1>10, <2>1 DEF TookStartAct
<1>11. CASE TookStartCon(e)  BY <1>5, <1>11 DEF TookStartCon
<1>12. CASE TookTestAct(e)
  <2>1. Coming(<<UFrame("TESTFRCON")>>, "TESTFRCON")  BY OneComing DEF UFunc
  <2> QED  BY <1>5, <1>12, <2>1 DEF TookTestAct, KeepsFlags
<1>13. CASE TookTestCon(e)  BY <1>5, <1>13 DEF TookTestCon
<1>14. CASE Acknowledged(e)
  <2>1. PICK f \in Frame : Wrote(e, <<f>>)  BY <1>14 DEF Acknowledged
  <2> QED  BY <1>4, <1>14, <2>1 DEF Acknowledged, KeepsFlags
<1>15. CASE Tests(e)
  <2>1. Coming(<<UFrame("TESTFRACT")>>, "TESTFRACT")  BY OneComing DEF UFunc
  <2>2. Wrote(e, <<UFrame("TESTFRACT")>>)  BY <1>15 DEF Tests
  <2>3. Coming(net'[e], "TESTFRACT")  BY <1>1, <2>1, <2>2, WroteComing
  <2> QED  BY <1>4, <1>15, <2>2, <2>3 DEF Tests
<1> QED  BY <1>6, <1>7, <1>8, <1>9, <1>10, <1>11, <1>12, <1>13, <1>14, <1>15 DEF Moves

LEMMA NextAnswered ==
    ASSUME TypeOK, DeliveryInv, AckTimed, Answered, [Next]_vars
    PROVE  Answered'
<1> SUFFICES ASSUME NEW d \in Station PROVE Awaited(d)'
  <2>1. Peer("master") = "slave" /\ "master" \in Station  BY DEF Peer, Station
  <2> QED  BY <2>1 DEF Answered, Awaited
<1>1. Awaited(d)  BY AnsweredIs
<1>2. CASE Restart
  <2>1. link' = AllIdle /\ testfr' = [e \in Station |-> FALSE]  BY <1>2 DEF Restart
  <2>2. ~testfr'[d] /\ link'[d] # "open"  BY <2>1 DEF AllIdle
  <2> QED  BY <2>2 DEF Awaited
<1>3. CASE Idled \/ Ticked
  <2>1. UNCHANGED <<link, net>> /\ testfr'[d] = testfr[d] /\ stopdt'[d] = stopdt[d]
    BY <1>3 DEF Idled, Ticked, Kept, KeepsFlags
  <2> QED  BY <1>1, <2>1 DEF Awaited, Asked, Alive
<1>4. CASE Connected
  <2>1. /\ "master" \in Station /\ Peer("master") = "slave" /\ net["slave"] \in Seq(Frame)
        /\ Peer("slave") = "master" /\ "slave" \in Station
    BY DEF Station, Peer, TypeOK
  <2>2. Wrote("master", <<UFrame("STARTDTACT")>>)  BY <1>4 DEF Connected
  <2>3. /\ \A b \in Station : \A kind : Coming(net[b], kind) => Coming(net'[b], kind)
        /\ \A kind : Coming(<<UFrame("STARTDTACT")>>, kind) => Coming(net'["master"], kind)
    BY <2>1, <2>2, WroteComing
  <2>4. Coming(net'["master"], "STARTDTACT")  BY <2>3, OneComing DEF UFunc
  <2>5. \A b \in Station : Alive(b) /\ testfr'[b] = testfr[b]
    BY <1>4 DEF Connected, Alive, Causes, Station
  <2>6. Peer(d) \in Station  BY PeerIsStation
  <2>7. testfr'[d] => Coming(net'[d], "TESTFRACT") \/ Coming(net'[Peer(d)], "TESTFRCON")
    BY <1>1, <2>3, <2>5, <2>6 DEF Awaited, Asked
  <2> QED  BY <2>4, <2>7 DEF Awaited, Asked
<1>5. CASE Accepted
  <2>1. /\ "master" \in Station /\ Peer("master") = "slave"
        /\ Peer("slave") = "master" /\ "slave" \in Station
    BY DEF Station, Peer
  <2>2. \A b \in Station : Alive(b) /\ testfr'[b] = testfr[b]
    BY <1>5 DEF Accepted, Alive, Causes, Station
  <2>3. /\ net' = net /\ stopdt'["master"] = stopdt["master"] /\ link["master"] = "open"
    BY <1>5 DEF Accepted
  <2>4. Peer(d) \in Station  BY PeerIsStation
  <2> QED  BY <1>1, <2>1, <2>2, <2>3, <2>4 DEF Awaited, Asked
<1>6. ASSUME NEW e \in Station, Moves(e) PROVE Awaited(d)'  BY <1>1, <1>6, MoveAnswered
<1> QED  BY <1>2, <1>3, <1>4, <1>5, <1>6, NextFacts

-----------------------------------------------------------------------------
(* What a station has acknowledged reaches its peer. *)

AckComes(e) ==
    Alive(Peer(e)) /\ v_ack_rem[e] = vr[e] =>
        \/ Acked(Peer(e)) = Len(delivered[e])
        \/ Acking(net[e], Len(delivered[e]))

LEMMA StillAcked ==
    ASSUME NEW d \in Station, AckComes(d), Alive(Peer(d))' => Alive(Peer(d)),
           vr'[d] = vr[d], v_ack_rem'[d] = v_ack_rem[d], delivered'[d] = delivered[d],
           Acked(Peer(d)) = Len(delivered[d]) => Acked(Peer(d))' = Len(delivered[d]),
           Acking(net[d], Len(delivered[d])) =>
               Acking(net'[d], Len(delivered[d])) \/ Acked(Peer(d))' = Len(delivered[d])
    PROVE  AckComes(d)'
<1>1. AckComes(d)' <=>
        (Alive(Peer(d))' /\ v_ack_rem'[d] = vr'[d] =>
            \/ Acked(Peer(d))' = Len(delivered'[d])
            \/ Acking(net'[d], Len(delivered'[d])))
  BY DEF AckComes
<1> QED  BY <1>1, Zenon DEF AckComes

LEMMA MoveAckSent ==
    ASSUME TypeOK, NEW e \in Station, Moves(e), NEW d \in Station, AckComes(d)
    PROVE  AckComes(d)'
<1>1. /\ Peer(e) \in Station /\ Peer(e) # e /\ Peer(Peer(e)) = e
      /\ net[e] \in Seq(Frame) /\ net[Peer(e)] \in Seq(Frame)
  BY FlowTypes
<1>2. d = e \/ d = Peer(e)  BY Stations
<1>3. ASSUME StepOf(e)
      PROVE  /\ Alive(Peer(d))' = Alive(Peer(d))
             /\ d = Peer(e) => /\ vr'[d] = vr[d] /\ v_ack_rem'[d] = v_ack_rem[d]
                               /\ delivered'[d] = delivered[d]
             /\ d = e => Acked(Peer(d))' = Acked(Peer(d))
  BY <1>1, <1>3 DEF StepOf, Alive
<1>4. ASSUME StepOf(e), NEW out, Wrote(e, out), Receives(e), Acked(e)' = Acked(e)
      PROVE  AckComes(d)'
  <2>1. \A b \in Station : \A n : Acking(net[b], n) => Acking(net'[b], n)
    BY <1>1, <1>4, WroteComing
  <2>2. CASE d = e  BY <1>3, <1>4, <2>1, <2>2, StillAcked DEF Receives
  <2>3. CASE d = Peer(e)  BY <1>1, <1>3, <1>4, <2>1, <2>3, StillAcked
  <2> QED  BY <1>2, <2>2, <2>3
\* The peer of the reader.
<1>5. ASSUME StepOf(e), NEW k, NEW out, Replied(e, k, out), d = Peer(e),
             (~Acks(Incoming(e)) /\ Acked(e)' = Acked(e)) \/ Counted(e, Incoming(e).ack)
      PROVE  AckComes(d)'
  <2>1. \A n : Acking(net[Peer(e)], n) =>
          (Acks(Incoming(e)) /\ Incoming(e).ack = n) \/ Acking(net'[Peer(e)], n)
    BY <1>5, RepliedComing
  <2>2. Peer(d) = e  BY <1>1, <1>5
  <2>3. CASE ~Acks(Incoming(e)) /\ Acked(e)' = Acked(e)
    BY <1>3, <1>5, <2>1, <2>2, <2>3, StillAcked
  <2>4. CASE Counted(e, Incoming(e).ack)
    <3>1. PICK n \in Nat : n = Incoming(e).ack /\ Acked(e)' = n
      BY <2>4 DEF Counted
    <3>2. Acked(e) <= n /\ n <= Len(delivered[d])  BY <1>5, <2>4, <3>1 DEF Counted
    <3>3. Acked(e) = Len(delivered[d]) => Acked(e)' = Len(delivered[d])
      <4>1. PICK l \in Nat : l = Len(delivered[d])  BY FlowTypes
      <4> QED  BY <3>1, <3>2, <4>1
    <3>4. Acking(net[d], Len(delivered[d])) =>
            Acking(net'[d], Len(delivered[d])) \/ Acked(e)' = Len(delivered[d])
      BY <1>5, <2>1, <3>1, Zenon
    <3> QED  BY <1>3, <1>5, <2>2, <3>3, <3>4, StillAcked
  <2> QED  BY <1>5, <2>3, <2>4
\* The reader, when it still owes the same.
<1>6. ASSUME StepOf(e), NEW k, NEW out, Replied(e, k, out), d = e, Receives(e)
      PROVE  AckComes(d)'
  <2>1. \A n : Acking(net[e], n) => Acking(net'[e], n)  BY <1>6, RepliedComing
  <2> QED  BY <1>3, <1>6, <2>1, StillAcked DEF Receives
<1>7. ASSUME StepOf(e), NEW k, NEW out, Replied(e, k, out), k \in UFunc,
             Receives(e), KeepsAcks(e)
      PROVE  AckComes(d)'
  <2>1. ~Acks(Incoming(e))  BY <1>7 DEF Replied, Gets, Acks, UFunc
  <2> QED  BY <1>2, <1>5, <1>6, <1>7, <2>1 DEF KeepsAcks
<1>8. CASE Exited(e)
  <2>1. CASE d = Peer(e)
    <3>1. ~Alive(Peer(d))'  BY <1>1, <1>8, <2>1 DEF Exited, Alive
    <3> QED  BY <3>1 DEF AckComes
  <2>2. CASE d = e
    <3>1. /\ Alive(Peer(d))' = Alive(Peer(d)) /\ net'[d] = net[d]
          /\ Acked(Peer(d))' = Acked(Peer(d)) /\ Receives(d)
      BY <1>1, <1>8, <2>2 DEF Exited, Alive, Kept, KeepsAcks
    <3> QED  BY <3>1, StillAcked DEF Receives
  <2> QED  BY <1>2, <2>1, <2>2
<1>9. CASE Ran(e)
  <2>1. PICK out \in Seq(Frame) : Wrote(e, out)  BY <1>9 DEF Ran
  <2> QED  BY <1>4, <1>9, <2>1 DEF Ran
<1>10. CASE TookI(e)
  <2>1. CASE d = Peer(e)
    <3>1. PICK out : Replied(e, "I", out)  BY <1>10 DEF TookI
    <3> QED  BY <1>5, <1>10, <2>1, <3>1 DEF TookI
  <2>2. CASE d = e /\ v_ack_rem'[e] = vr'[e]
    <3>1. v_ack_rem'[e] = vr'[e]  BY <2>2
    <3>2. PICK f \in Frame : f.kind = "S" /\ f.ack = Len(delivered'[e]) /\ Replied(e, "I", <<f>>)
      BY <1>10, <3>1 DEF TookI
    <3>3. Acking(<<f>>, Len(delivered'[e]))  BY <3>2, OneComing
    <3>4. Acking(net'[e], Len(delivered'[e]))  BY <3>2, <3>3, RepliedComing
    <3> QED  BY <2>2, <3>4 DEF AckComes
  <2>3. CASE d = e /\ v_ack_rem'[e] # vr'[e]  BY <2>3 DEF AckComes
  <2> QED  BY <1>2, <2>1, <2>2, <2>3
<1>11. CASE TookS(e)  BY <1>2, <1>5, <1>6, <1>11 DEF TookS
<1>12. CASE TookStartAct(e)  BY <1>7, <1>12 DEF TookStartAct, UFunc
<1>13. CASE TookStartCon(e)  BY <1>7, <1>13 DEF TookStartCon, UFunc
<1>14. CASE TookTestAct(e)  BY <1>7, <1>14 DEF TookTestAct, UFunc
<1>15. CASE TookTestCon(e)  BY <1>7, <1>15 DEF TookTestCon, UFunc
<1>16. CASE Acknowledged(e)
  <2>1. PICK f \in Frame : f.kind = "S" /\ f.ack = Len(delivered[e]) /\ Wrote(e, <<f>>)
    BY <1>16 DEF Acknowledged
  <2>2. /\ \A b \in Station : \A n : Acking(net[b], n) => Acking(net'[b], n)
        /\ \A n : Acking(<<f>>, n) => Acking(net'[e], n)
    BY <1>1, <2>1, WroteComing
  <2>3. StepOf(e) /\ Acked(e)' = Acked(e) /\ delivered'[e] = delivered[e]
    BY <1>16 DEF Acknowledged, KeepsAcks
  <2>4. CASE d = e
    <3>1. Acking(net'[e], Len(delivered[e]))  BY <2>1, <2>2, OneComing
    <3> QED  BY <2>3, <2>4, <3>1 DEF AckComes
  <2>5. CASE d = Peer(e)  BY <1>1, <1>3, <2>2, <2>3, <2>5, StillAcked
  <2> QED  BY <1>2, <2>4, <2>5
<1>17. CASE Tests(e)  BY <1>4, <1>17 DEF Tests, KeepsAcks
<1> QED
  BY <1>8, <1>9, <1>10, <1>11, <1>12, <1>13, <1>14, <1>15, <1>16, <1>17 DEF Moves

LEMMA NextAckSent ==
    ASSUME TypeOK, DeliveryInv, AckTimed, AckSent, [Next]_vars
    PROVE  AckSent'
<1> SUFFICES ASSUME NEW d \in Station PROVE AckComes(d)'
  BY DEF AckSent, AckComes
<1>1. AckComes(d)  BY DEF AckSent, AckComes
<1>2. Peer(d) \in Station  BY PeerIsStation
<1>3. CASE Restart
  <2>1. sent' = None /\ ackw_q' = None /\ delivered' = None  BY <1>3 DEF Restart
  <2>2. Acked(Peer(d))' = 0 /\ Len(delivered'[d]) = 0  BY <1>2, <2>1 DEF Acked, None
  <2> QED  BY <2>2 DEF AckComes
<1>4. CASE Idled \/ Ticked
  <2>1. UNCHANGED <<link, net>> /\ \A b \in Station : KeepsAcks(b) /\ Receives(b)
    BY <1>4 DEF Idled, Ticked, Kept
  <2>2. Alive(Peer(d))' = Alive(Peer(d))  BY <2>1 DEF Alive
  <2> QED  BY <1>1, <1>2, <2>1, <2>2, StillAcked DEF Receives, KeepsAcks
<1>5. CASE Connected
  <2>1. net["slave"] \in Seq(Frame) /\ Peer("master") = "slave" /\ "master" \in Station
    BY DEF TypeOK, Peer, Station
  <2>2. Wrote("master", <<UFrame("STARTDTACT")>>)  BY <1>5 DEF Connected
  <2>3. \A b \in Station : \A n : Acking(net[b], n) => Acking(net'[b], n)
    BY <2>1, <2>2, WroteComing
  <2>4. \A b \in Station : Alive(b) /\ KeepsAcks(b) /\ Receives(b)
    BY <1>5 DEF Connected, Alive, Causes, Station
  <2> QED  BY <1>1, <1>2, <2>3, <2>4, StillAcked DEF Receives, KeepsAcks
<1>6. CASE Accepted
  <2>1. net' = net /\ \A b \in Station : Alive(b) /\ KeepsAcks(b) /\ Receives(b)
    BY <1>6 DEF Accepted, Alive, Causes, Station
  <2> QED  BY <1>1, <1>2, <2>1, StillAcked DEF Receives, KeepsAcks
<1>7. ASSUME NEW e \in Station, Moves(e) PROVE AckComes(d)'  BY <1>1, <1>7, MoveAckSent
<1> QED  BY <1>3, <1>4, <1>5, <1>6, <1>7, NextFacts

-----------------------------------------------------------------------------
(* T1 runs for an answer. *)

AwaitsT1(e) ==
    link[e] = "open" /\ timer[e]["t1"] # Off =>
        v_ack[e] # vs[e] \/ testfr[e] \/ (e = "master" /\ stopdt[e])

LEMMA MoveAwaits ==
    ASSUME TypeOK, NEW e \in Station, Moves(e), NEW d \in Station, AwaitsT1(d)
    PROVE  AwaitsT1(d)'
<1>1. d = e \/ d \in Station \ {e}  OBVIOUS
<1>2. AwaitsT1(d)' <=>
        (link'[d] = "open" /\ timer'[d]["t1"] # Off =>
           v_ack'[d] # vs'[d] \/ testfr'[d] \/ (d = "master" /\ stopdt'[d]))
  BY DEF AwaitsT1
<1>3. ASSUME StepOf(e), d \in Station \ {e} PROVE AwaitsT1(d)'
  BY <1>3 DEF StepOf, AwaitsT1
<1>4. ASSUME StepOf(e), KeepsAcks(e), timer'[e]["t1"] # Off => timer'[e]["t1"] = timer[e]["t1"],
             testfr'[e] = testfr[e], e = "master" => stopdt'[e] = stopdt[e]
      PROVE  AwaitsT1(d)'
  <2>1. CASE d = e  BY <1>2, <1>4, <2>1 DEF StepOf, KeepsAcks, AwaitsT1
  <2> QED  BY <1>1, <1>3, <1>4, <2>1
<1>5. ASSUME StepOf(e), timer'[e]["t1"] = Off \/ v_ack'[e] # vs'[e] \/ testfr'[e]
      PROVE  AwaitsT1(d)'
  <2>1. CASE d = e  BY <1>2, <1>5, <2>1
  <2> QED  BY <1>1, <1>3, <1>5, <2>1
<1>6. CASE Ran(e)  BY <1>5, <1>6 DEF Ran
<1>7. ASSUME Counted(e, Incoming(e).ack), timer'[e]["t1"] = T1After(e, Incoming(e).nr)
      PROVE  timer'[e]["t1"] = Off \/ v_ack'[e] # vs'[e]
  BY <1>7 DEF Counted, T1After
<1>8. CASE TookI(e)  BY <1>5, <1>7, <1>8 DEF TookI, Timers
<1>9. CASE TookS(e)  BY <1>5, <1>7, <1>9 DEF TookS, Timers
<1>10. CASE TookStartAct(e)  BY <1>4, <1>10 DEF TookStartAct, Timers
<1>11. CASE TookStartCon(e)  BY <1>5, <1>11 DEF TookStartCon, Timers
<1>12. CASE TookTestAct(e)
  <2>1. timer'[e]["t1"] = timer[e]["t1"]  BY <1>12 DEF TookTestAct, Timers
  <2> QED  BY <1>4, <1>12, <2>1 DEF TookTestAct, KeepsFlags
<1>13. CASE TookTestCon(e)  BY <1>5, <1>13 DEF TookTestCon, Timers
<1>14. CASE Acknowledged(e)  BY <1>4, <1>14 DEF Acknowledged, Timers, KeepsFlags
<1>15. CASE Tests(e)  BY <1>5, <1>15 DEF Tests
<1>16. CASE Exited(e)
  <2>1. CASE d = e  BY <1>2, <1>16, <2>1 DEF Exited, Causes
  <2>2. CASE d = Peer(e)
    BY <1>2, <1>16, <2>2 DEF Exited, Kept, KeepsFlags, KeepsAcks, AwaitsT1
  <2> QED  BY <2>1, <2>2, Stations
<1> QED
  BY <1>6, <1>8, <1>9, <1>10, <1>11, <1>12, <1>13, <1>14, <1>15, <1>16 DEF Moves

LEMMA NextAwaits ==
    ASSUME TypeOK, DeliveryInv, AckTimed, TimersKnown, T1Awaits, [Next]_vars
    PROVE  T1Awaits'
<1> SUFFICES ASSUME NEW d \in Station PROVE AwaitsT1(d)'
  BY DEF T1Awaits, AwaitsT1, Running
<1>1. AwaitsT1(d)  BY DEF T1Awaits, AwaitsT1, Running
<1>2. AwaitsT1(d)' <=>
        (link'[d] = "open" /\ timer'[d]["t1"] # Off =>
           v_ack'[d] # vs'[d] \/ testfr'[d] \/ (d = "master" /\ stopdt'[d]))
  BY DEF AwaitsT1
<1>3. CASE Restart
  <2>1. link'[d] # "open"  BY <1>3 DEF Restart, AllIdle
  <2> QED  BY <1>2, <2>1
<1>4. CASE Idled
  BY <1>1, <1>2, <1>4 DEF Idled, Kept, KeepsFlags, KeepsAcks, AwaitsT1
<1>5. CASE Ticked
  <2>1. timer'[d]["t1"] # Off => timer[d]["t1"] # Off
    BY <1>5 DEF Ticked, Timer, Off
  <2> QED  BY <1>1, <1>2, <1>5, <2>1 DEF Ticked, Kept, KeepsFlags, KeepsAcks, AwaitsT1
<1>6. CASE Connected
  <2>1. link'[d] = "open" => d = "master" /\ stopdt'[d]  BY <1>6 DEF Connected, Station
  <2> QED  BY <1>2, <2>1
<1>7. CASE Accepted
  <2>1. CASE d = "slave"
    <3>1. timer'[d]["t1"] = Off
      BY <1>7, <2>1 DEF Accepted, TimersKnown, Running, Timer, Station
    <3> QED  BY <1>2, <3>1
  <2>2. CASE d = "master"  BY <1>1, <1>2, <1>7, <2>2 DEF Accepted, KeepsAcks, AwaitsT1
  <2> QED  BY <2>1, <2>2 DEF Station
<1>8. ASSUME NEW e \in Station, Moves(e) PROVE AwaitsT1(d)'  BY <1>1, <1>8, MoveAwaits
<1> QED  BY <1>3, <1>4, <1>5, <1>6, <1>7, <1>8, NextFacts

-----------------------------------------------------------------------------
(* While the network works T1 does not run out. *)

LEMMA FullT1 ==
    ASSUME T2 < T1, NEW d \in Station, timer'[d]["t1"] = T1
    PROVE  T1Left(d)'
<1>1. T1 > 0  BY LinkAssumption
<1> QED  BY <1>1 DEF T1Left

LEMMA StillLeft ==
    ASSUME NEW d \in Station, T1Left(d), ~cut' => ~cut, link'[d] = "open" => link[d] = "open",
           timer'[d]["t1"] # Off => timer'[d]["t1"] = timer[d]["t1"],
           Coming(net'[d], "I") => Coming(net[d], "I"),
           v_ack_rem[Peer(d)] = vr[Peer(d)] =>
               v_ack_rem'[Peer(d)] = vr'[Peer(d)],
           \/ timer'[Peer(d)]["t2"] = timer[Peer(d)]["t2"]
           \/ v_ack_rem'[Peer(d)] = vr'[Peer(d)]
    PROVE  T1Left(d)'
<1>1. T1Left(d)' <=>
        (~cut' /\ link'[d] = "open" /\ timer'[d]["t1"] # Off =>
           /\ timer'[d]["t1"] > 0
           /\ Coming(net'[d], "I") => timer'[d]["t1"] = T1
           /\ \/ timer'[d]["t1"] = T1
              \/ v_ack_rem'[Peer(d)] = vr'[Peer(d)]
              \/ timer'[Peer(d)]["t2"] < timer'[d]["t1"])
  BY DEF T1Left, Running
<1> QED  BY <1>1, Zenon DEF T1Left, Running

LEMMA MoveLeft ==
    ASSUME TypeOK, T2 < T1, NEW e \in Station, Moves(e), NEW d \in Station, T1Left(d)
    PROVE  T1Left(d)'
<1>1. /\ Peer(e) \in Station /\ Peer(e) # e /\ Peer(Peer(e)) = e
      /\ net[e] \in Seq(Frame) /\ net[Peer(e)] \in Seq(Frame)
  BY FlowTypes
<1>2. d = e \/ d = Peer(e)  BY Stations
<1>3. ASSUME StepOf(e)
      PROVE  /\ cut' = cut /\ link' = link
             /\ timer'[Peer(e)] = timer[Peer(e)]
             /\ v_ack_rem'[Peer(e)] = v_ack_rem[Peer(e)] /\ vr'[Peer(e)] = vr[Peer(e)]
  BY <1>1, <1>3 DEF StepOf
<1>4. ASSUME StepOf(e), net'[Peer(e)] = net[Peer(e)], d = Peer(e),
             timer'[e]["t2"] = timer[e]["t2"] \/ v_ack_rem'[e] = vr'[e],
             v_ack_rem[e] = vr[e] => v_ack_rem'[e] = vr'[e]
      PROVE  T1Left(d)'
  BY <1>1, <1>3, <1>4, StillLeft
\* The reader restarts or stops T1 and writes no I frame.
<1>5. ASSUME StepOf(e), NEW k, NEW out, Replied(e, k, out), ~Coming(out, "I"), d = e,
             timer'[e]["t1"] # Off => timer'[e]["t1"] = timer[e]["t1"]
      PROVE  T1Left(d)'
  <2>1. Coming(net'[e], "I") => Coming(net[e], "I")  BY <1>5, RepliedComing
  <2> QED  BY <1>3, <1>5, <2>1, StillLeft
\* The station whose frame is read.
<1>6. ASSUME StepOf(e), NEW k, NEW out, Replied(e, k, out), d = Peer(e),
             timer'[e]["t2"] = timer[e]["t2"], Receives(e)
      PROVE  T1Left(d)'
  <2>1. Coming(net'[Peer(e)], "I") => Coming(net[Peer(e)], "I")  BY <1>6, RepliedComing
  <2> QED  BY <1>1, <1>3, <1>6, <2>1, StillLeft DEF Receives
<1>7. \A func \in UFunc : ~Coming(<<UFrame(func)>>, "I")
  BY ComingOne, UFrameIsFrame DEF UFunc
<1>8. ~Coming(<<>>, "I")  BY ComingOne
<1>9. ASSUME StepOf(e), NEW f, Wrote(e, <<f>>), f.kind # "I", d = e,
             timer'[e]["t1"] = timer[e]["t1"]
      PROVE  T1Left(d)'
  <2>1. net[e] \in Seq(Frame) /\ <<f>> \in Seq(Frame) /\ net'[e] = net[e] \o <<f>>
    BY <1>9 DEF Wrote
  <2>2. ~Coming(<<f>>, "I")  BY <1>9, ComingOne
  <2>3. Coming(net'[e], "I") => Coming(net[e], "I")  BY <2>1, <2>2, ComingMore
  <2> QED  BY <1>3, <1>9, <2>3, StillLeft
<1>10. CASE Exited(e)
  <2>1. CASE d = e  BY <1>10, <2>1 DEF Exited, T1Left, Causes
  <2>2. CASE d = Peer(e)
    <3>1. cut' = cut /\ link'[d] = link[d] /\ timer'[d] = timer[d] /\ Receives(e)
      BY <1>10, <2>2 DEF Exited, Kept
    <3>2. timer'[e]["t2"] = Off /\ ~Coming(net'[d], "I")
      BY <1>8, <1>10, <2>2 DEF Exited, Timers
    <3>3. timer'[d]["t1"] > 0 => timer'[e]["t2"] < timer'[d]["t1"]
      <4>1. timer[d]["t1"] \in Nat \cup {Off}  BY DEF TypeOK, Timer
      <4> QED  BY <3>1, <3>2, <4>1 DEF Off
    <3> QED  BY <1>1, <2>2, <3>1, <3>2, <3>3 DEF T1Left, Running
  <2> QED  BY <1>2, <2>1, <2>2
<1>11. CASE Ran(e)
  <2>1. CASE d = e  BY <1>11, <2>1, FullT1 DEF Ran, Timers
  <2>2. CASE d = Peer(e)
    BY <1>4, <1>11, <2>2 DEF Ran, Timers, Wrote, Receives
  <2> QED  BY <1>2, <2>1, <2>2
<1>12. CASE TookI(e)
  <2>1. PICK out : Replied(e, "I", out) /\ ~Coming(out, "I")
    <3>1. ASSUME NEW f, f.kind = "S" PROVE ~Coming(<<f>>, "I")  BY <3>1, ComingOne
    <3> QED  BY <1>8, <1>12, <3>1 DEF TookI
  <2>2. CASE d = e  BY <1>5, <1>12, <2>1, <2>2 DEF TookI, Timers, T1After
  <2>3. CASE d = Peer(e)
    <3>1. cut' = cut /\ link' = link /\ timer'[d] = timer[d]  BY <1>3, <1>12, <2>3 DEF TookI
    <3>2. Coming(net[d], "I")
      <4>1. /\ net[d] \in Seq(Frame) /\ net[d] # <<>> /\ Head(net[d]).kind = "I"
        BY <2>1, <2>3 DEF Replied
      <4>2. 1 \in 1..Len(net[d]) /\ net[d][1].kind = "I"  BY <4>1
      <4> QED  BY <4>2 DEF Coming
    <3>3. CASE timer[d]["t1"] = T1  BY <3>1, <3>3, FullT1
    <3>4. CASE timer[d]["t1"] # T1  BY <3>1, <3>2, <3>4 DEF T1Left, Running
    <3> QED  BY <3>3, <3>4
  <2> QED  BY <1>2, <2>2, <2>3
<1>13. CASE TookS(e)
  <2>1. CASE d = e  BY <1>5, <1>8, <1>13, <2>1 DEF TookS, Timers, T1After
  <2>2. CASE d = Peer(e)  BY <1>6, <1>13, <2>2 DEF TookS, Timers
  <2> QED  BY <1>2, <2>1, <2>2
<1>14. CASE TookStartAct(e)
  <2>1. ~Coming(<<UFrame("STARTDTCON")>>, "I")  BY <1>7 DEF UFunc
  <2>2. CASE d = e  BY <1>5, <1>14, <2>1, <2>2 DEF TookStartAct, Timers
  <2>3. CASE d = Peer(e)  BY <1>6, <1>14, <2>3 DEF TookStartAct, Timers
  <2> QED  BY <1>2, <2>2, <2>3
<1>15. CASE TookStartCon(e)
  <2>1. CASE d = e  BY <1>5, <1>8, <1>15, <2>1 DEF TookStartCon, Timers
  <2>2. CASE d = Peer(e)  BY <1>6, <1>15, <2>2 DEF TookStartCon, Timers
  <2> QED  BY <1>2, <2>1, <2>2
<1>16. CASE TookTestAct(e)
  <2>1. ~Coming(<<UFrame("TESTFRCON")>>, "I")  BY <1>7 DEF UFunc
  <2>2. timer'[e]["t1"] = timer[e]["t1"] /\ timer'[e]["t2"] = timer[e]["t2"]
    BY <1>16 DEF TookTestAct, Timers
  <2>3. CASE d = e  BY <1>5, <1>16, <2>1, <2>2, <2>3 DEF TookTestAct
  <2>4. CASE d = Peer(e)  BY <1>6, <1>16, <2>2, <2>4 DEF TookTestAct
  <2> QED  BY <1>2, <2>3, <2>4
<1>17. CASE TookTestCon(e)
  <2>1. CASE d = e  BY <1>5, <1>8, <1>17, <2>1 DEF TookTestCon, Timers
  <2>2. CASE d = Peer(e)  BY <1>6, <1>17, <2>2 DEF TookTestCon, Timers
  <2> QED  BY <1>2, <2>1, <2>2
<1>18. CASE Acknowledged(e)
  <2>1. PICK f \in Frame : f.kind = "S" /\ Wrote(e, <<f>>)  BY <1>18 DEF Acknowledged
  <2>2. CASE d = e  BY <1>9, <1>18, <2>1, <2>2 DEF Acknowledged, Timers
  <2>3. CASE d = Peer(e)  BY <1>4, <1>18, <2>1, <2>3 DEF Acknowledged, Wrote
  <2> QED  BY <1>2, <2>2, <2>3
<1>19. CASE Tests(e)
  <2>1. CASE d = e  BY <1>19, <2>1, FullT1 DEF Tests, Timers
  <2>2. CASE d = Peer(e)  BY <1>4, <1>19, <2>2 DEF Tests, Timers, Wrote, Receives
  <2> QED  BY <1>2, <2>1, <2>2
<1> QED
  BY <1>10, <1>11, <1>12, <1>13, <1>14, <1>15, <1>16, <1>17, <1>18, <1>19 DEF Moves

\* When nothing is due, the two stations have read everything.
LEMMA QuietNets ==
    ASSUME TypeOK, Quiet, ~cut, NEW e \in Station, link[e] = "open"
    PROVE  /\ link[Peer(e)] = "open"
           /\ net[e] = <<>> /\ net[Peer(e)] = <<>>
           /\ Alive(e) /\ Alive(Peer(e))
<1>1. Peer(e) \in Station /\ Peer(Peer(e)) = e  BY PeerIsStation
<1>2. link[Peer(e)] = "open" /\ ~Receivable(e) /\ ~Receivable(Peer(e))
  BY <1>1 DEF Quiet
<1> QED  BY <1>1, <1>2 DEF Receivable, Alive, Causes

\* A station that waits for an acknowledgement is owed one, and T2 will send it.
LEMMA QuietOwes ==
    ASSUME TypeOK, DeliveryInv, AckTimed, AckSent, Quiet, ~cut,
           NEW e \in Station, link[e] = "open", v_ack[e] # vs[e]
    PROVE  /\ v_ack_rem[Peer(e)] # vr[Peer(e)]
           /\ Running(Peer(e), "t2") /\ ~Expired(Peer(e), "t2")
<1> DEFINE p == Peer(e)
<1>1. p \in Station /\ Peer(p) = e  BY PeerIsStation
<1>2. link[p] = "open" /\ net[e] = <<>> /\ net[p] = <<>> /\ Alive(e) /\ Alive(p)
  BY QuietNets
<1>3. Flow(e)  BY DEF DeliveryInv
<1> HIDE DEF p
<1>4. PICK s, r, a \in Nat : s = Len(sent[e]) /\ r = Len(delivered[p]) /\ a = Acked(e)
  BY <1>1, <1>3, FlowTypes, AckedType
<1>5. r = s
  <2>1. Complete(net[e], sent[e], Len(delivered[p])) /\ r <= s
    BY <1>2, <1>3, <1>4, AckedType DEF Flow, p
  <2>2. \A n \in (r + 1)..s : \E i \in 1..Len(net[e]) : TRUE  BY <1>4, <2>1 DEF Complete
  <2>3. Len(net[e]) = 0  BY <1>2
  <2>4. ~(s \in (r + 1)..s)  BY <2>2, <2>3
  <2> QED  BY <1>4, <2>1, <2>4
<1>6. a # s
  <2>1. v_ack[e] = a % Mod /\ vs[e] = s % Mod  BY <1>3, <1>4, AckedType
  <2> QED  BY <2>1
<1>7. v_ack_rem[p] # vr[p]
  <2>1. ~Acking(net[p], r)  BY <1>2 DEF Acking
  <2> QED  BY <1>1, <1>2, <1>4, <1>5, <1>6, <2>1 DEF AckSent
<1>8. Running(p, "t2")  BY <1>1, <1>2, <1>7 DEF AckTimed, AckOwedIsTimed
<1>9. ~Expired(p, "t2")  BY <1>1 DEF Quiet, Timer
<1> QED  BY <1>7, <1>8, <1>9 DEF p

LEMMA TickLeft ==
    ASSUME TypeOK, DeliveryInv, AckTimed, T2 < T1, TimersKnown, Answered, AckSent, T1Awaits,
           Ticked, NEW d \in Station, T1Left(d)
    PROVE  T1Left(d)'
<1> SUFFICES ASSUME ~cut, link[d] = "open", timer'[d]["t1"] # Off PROVE T1Left(d)'
  BY DEF Ticked, T1Left, Running
<1>1. /\ Quiet /\ link' = link /\ cut' = cut /\ net' = net
      /\ \A b \in Station, t \in Timer :
           timer'[b][t] = IF timer[b][t] > 0 THEN timer[b][t] - 1 ELSE timer[b][t]
  BY DEF Ticked
<1>2. Peer(d) \in Station /\ "t1" \in Timer /\ "t2" \in Timer  BY PeerIsStation DEF Timer
<1>3. Running(d, "t1")  BY <1>1, <1>2 DEF Running, Off
<1>4. /\ net[d] = <<>> /\ net[Peer(d)] = <<>> /\ Alive(d) /\ Alive(Peer(d))
      /\ link[Peer(d)] = "open"
  BY <1>1, QuietNets
<1>5. ~Coming(net[d], "I") /\ ~Asked(d, "TESTFRACT", "TESTFRCON")
      /\ ~Asked(d, "STARTDTACT", "STARTDTCON")
  BY <1>4, ComingOne DEF Asked
<1>6. v_ack[d] # vs[d]
  <2>1. ~testfr[d]  BY <1>4, <1>5 DEF Answered
  <2>2. ~(d = "master" /\ stopdt[d])
    BY <1>4, <1>5 DEF Answered, Peer
  <2> QED  BY <1>3, <2>1, <2>2 DEF T1Awaits
<1>7. v_ack_rem[Peer(d)] # vr[Peer(d)] /\ timer[Peer(d)]["t2"] \notin {Off, 0}
  BY <1>1, <1>6, QuietOwes DEF Running, Expired
<1>8. PICK x, y \in Nat : x = timer[d]["t1"] /\ y = timer[Peer(d)]["t2"] /\ y # 0
  <2>1. timer[d]["t1"] \in Nat \cup {Off} /\ timer[Peer(d)]["t2"] \in Nat \cup {Off}
    BY <1>2 DEF TypeOK
  <2> QED  BY <1>3, <1>7, <2>1 DEF Running
<1>9. x > 0 /\ (x = T1 \/ y < x)  BY <1>3, <1>7, <1>8 DEF T1Left
<1>10. y <= T2  BY <1>2, <1>8 DEF TimersKnown
<1>11. y < x  BY <1>8, <1>9, <1>10, LinkAssumption
<1>12. timer'[d]["t1"] = x - 1 /\ timer'[Peer(d)]["t2"] = y - 1
  BY <1>1, <1>2, <1>8, <1>9
<1>13. x - 1 > 0 /\ y - 1 < x - 1  BY <1>8, <1>11
<1>14. ~Coming(net'[d], "I")  BY <1>1, <1>5
<1> QED  BY <1>12, <1>13, <1>14 DEF T1Left

LEMMA NextLeft ==
    ASSUME TypeOK, DeliveryInv, AckTimed, T2 < T1, TimersKnown, Answered, AckSent, T1Awaits,
           [Next]_vars, NEW d \in Station, T1Left(d)
    PROVE  T1Left(d)'
<1>1. CASE Restart
  <2>1. link'[d] # "open"  BY <1>1 DEF Restart, AllIdle
  <2> QED  BY <2>1 DEF T1Left
<1>2. CASE Idled
  <2>1. Peer(d) \in Station  BY PeerIsStation
  <2> QED  BY <1>2, <2>1, StillLeft DEF Idled, Kept, Receives
<1>3. CASE Ticked  BY <1>3, TickLeft
<1>4. CASE Connected
  <2>1. CASE d = "master"  BY <1>4, <2>1, FullT1 DEF Connected, Timers
  <2>2. CASE d = "slave"  BY <1>4, <2>2 DEF Connected, T1Left
  <2> QED  BY <2>1, <2>2 DEF Station
<1>5. CASE Accepted
  <2>1. CASE d = "slave"
    <3>1. timer'[d]["t1"] = Off
      BY <1>5, <2>1 DEF Accepted, TimersKnown, Running, Timer, Station
    <3> QED  BY <3>1 DEF T1Left, Running
  <2>2. CASE d = "master"
    <3>1. Peer(d) \in Station  BY PeerIsStation
    <3> QED  BY <1>5, <2>2, <3>1, StillLeft DEF Accepted, Receives
  <2> QED  BY <2>1, <2>2 DEF Station
<1>6. ASSUME NEW e \in Station, Moves(e) PROVE T1Left(d)'  BY <1>6, MoveLeft
<1> QED  BY <1>1, <1>2, <1>3, <1>4, <1>5, <1>6, NextFacts

\* A process ends for an expired timer only when that timer has run out.
LEMMA EndedBy ==
    ASSUME TypeOK, DeliveryInv, AckTimed, [Next]_vars, NEW e \in Station
    PROVE  /\ link'[e] = "t1" /\ ~cut' => link[e] = "t1" \/ (~cut /\ Expired(e, "t1"))
           /\ link'[e] = "t0" /\ ~cut' =>
                link[e] = "t0" \/ (~cut /\ Expired(e, "t0") /\ e = "slave")
           /\ ~cut' => ~cut \/ Restart
<1>1. CASE Restart  BY <1>1 DEF Restart, AllIdle
<1>2. CASE Idled \/ Ticked  BY <1>2 DEF Idled, Ticked
<1>3. CASE Connected \/ Accepted  BY <1>3 DEF Connected, Accepted, Station
<1>4. ASSUME NEW d \in Station, Moves(d)
      PROVE  /\ cut' = cut
             /\ link'[e] = link[e] \/ (Exited(d) /\ e = d)
  <2>1. CASE Exited(d)
    <3>1. e = d \/ e = Peer(d)  BY Stations
    <3> QED  BY <2>1, <3>1 DEF Exited
  <2>2. CASE ~Exited(d)
    <3>1. StepOf(d)
      BY <1>4, <2>2 DEF Moves, Ran, TookI, TookS, TookStartAct, TookStartCon, TookTestAct,
                        TookTestCon, Acknowledged, Tests
    <3> QED  BY <3>1 DEF StepOf
  <2> QED  BY <2>1, <2>2
<1>5. ASSUME NEW d \in Station, Exited(d), e = d
      PROVE  /\ link'[e] = "t1" => Expired(e, "t1")
             /\ link'[e] = "t0" => Expired(e, "t0") /\ e = "slave"
  BY <1>5 DEF Exited
<1> QED  BY <1>1, <1>2, <1>3, <1>4, <1>5, NextFacts

LEMMA NextNoSpuriousT1 ==
    ASSUME TypeOK, DeliveryInv, AckTimed, T1Inv, [Next]_vars
    PROVE  NoSpuriousT1'
<1> SUFFICES ASSUME ~cut', NEW e \in Station, link'[e] = "t1" PROVE FALSE
  BY DEF NoSpuriousT1
<1>1. ~Restart  BY DEF Restart, AllIdle
<1>2. ~cut /\ (link[e] = "t1" \/ Expired(e, "t1"))  BY <1>1, EndedBy
<1>3. link[e] # "t1"  BY <1>2 DEF T1Inv, NoSpuriousT1
<1>4. timer[e]["t1"] = 0 /\ Running(e, "t1")  BY <1>2, <1>3 DEF Expired, Running, Off
<1>5. link[e] = "open"  BY <1>4 DEF T1Inv, TimersKnown, Timer
<1>6. timer[e]["t1"] > 0  BY <1>2, <1>4, <1>5 DEF T1Inv, T1Left
<1> QED  BY <1>4, <1>6

LEMMA NextT1 ==
    ASSUME TypeOK, DeliveryInv, AckTimed, T2 < T1, T1Inv, [Next]_vars
    PROVE  T1Inv'
<1>1. /\ TimersKnown /\ Answered /\ AckSent /\ T1Awaits
      /\ \A e \in Station : T1Left(e)
  BY DEF T1Inv
<1>2. TimersKnown' /\ Answered' /\ AckSent' /\ T1Awaits'
  BY <1>1, NextKnown, NextAnswered, NextAckSent, NextAwaits
<1>3. \A e \in Station : T1Left(e)'  BY <1>1, NextLeft
<1>4. NoSpuriousT1'  BY NextNoSpuriousT1
<1> QED  BY <1>2, <1>3, <1>4 DEF T1Inv

LEMMA InitTimers == Init => TimersKnown /\ Answered /\ AckSent /\ T1Awaits
<1> SUFFICES ASSUME Init PROVE TimersKnown /\ Answered /\ AckSent /\ T1Awaits
  OBVIOUS
<1>1. /\ \A e \in Station : link[e] = "idle" /\ testfr[e] = FALSE /\ sent[e] = <<>>
                            /\ delivered[e] = <<>> /\ ackw_q[e] = <<>>
      /\ \A e \in Station : \A t \in Timer : timer[e][t] = Off
  BY DEF Init, AllIdle, None, Stopped
<1>2. TimersKnown  BY <1>1, FreshTimers
<1>3. Answered  BY <1>1 DEF Answered, Station
<1>4. AckSent
  <2>1. \A e \in Station : Acked(Peer(e)) = 0 /\ Len(delivered[e]) = 0
    BY <1>1, PeerIsStation DEF Acked
  <2> QED  BY <2>1 DEF AckSent
<1>5. T1Awaits  BY <1>1 DEF T1Awaits
<1> QED  BY <1>2, <1>3, <1>4, <1>5

LEMMA InitT1 == Init => T1Inv
<1>1. Init => \A e \in Station : link[e] = "idle"  BY DEF Init, AllIdle
<1> QED  BY <1>1, InitTimers DEF T1Inv, T1Left, NoSpuriousT1

-----------------------------------------------------------------------------
(* T3 of the master, and T0 of the slave. *)

T3Runs ==
    /\ link["master"] = "open" => timer["master"]["t3"] # Off \/ testfr["master"] \/ stopdt["master"]
    /\ timer["slave"]["t0"] # Off => timer["slave"]["t3"] = Off

LEMMA T3KnownIs == T3Known <=> T3Runs  BY DEF T3Known, T3Runs, Running

LEMMA MoveT3Known ==
    ASSUME TypeOK, NEW e \in Station, Moves(e), T3Runs
    PROVE  T3Runs'
<1>1. T3 # Off /\ Peer("master") = "slave" /\ Peer("slave") = "master"
  BY LinkAssumption DEF Off, Peer
<1>2. T3Runs' <=>
        /\ link'["master"] = "open" =>
             timer'["master"]["t3"] # Off \/ testfr'["master"] \/ stopdt'["master"]
        /\ timer'["slave"]["t0"] # Off => timer'["slave"]["t3"] = Off
  BY DEF T3Runs
<1>3. ASSUME StepOf(e),
             e = "master" => timer'[e]["t3"] # Off \/ testfr'[e]
                             \/ (timer'[e]["t3"] = timer[e]["t3"] /\ KeepsFlags(e)),
             e = "slave" => (timer'[e]["t0"] # Off => timer'[e]["t3"] = Off)
      PROVE  T3Runs'
  <2>1. CASE e = "master"  BY <1>2, <1>3, <2>1 DEF StepOf, Station, T3Runs, KeepsFlags
  <2>2. CASE e = "slave"  BY <1>2, <1>3, <2>2 DEF StepOf, Station, T3Runs
  <2> QED  BY <2>1, <2>2 DEF Station
<1>4. CASE Ran(e)  BY <1>3, <1>4 DEF Ran, Timers, T3Runs
<1>5. CASE TookI(e)  BY <1>1, <1>3, <1>5 DEF TookI, Timers
<1>6. CASE TookS(e)  BY <1>1, <1>3, <1>6 DEF TookS, Timers
<1>7. CASE TookStartAct(e)  BY <1>1, <1>3, <1>7 DEF TookStartAct, Timers
<1>8. CASE TookStartCon(e)  BY <1>1, <1>3, <1>8 DEF TookStartCon, Timers
<1>9. CASE TookTestAct(e)
  <2>1. e = "master" => timer'[e]["t3"] # Off  BY <1>1, <1>9 DEF TookTestAct, Timers
  <2>2. timer'[e]["t0"] # Off => timer'[e]["t3"] = Off  BY <1>9 DEF TookTestAct, Timers
  <2> QED  BY <1>3, <1>9, <2>1, <2>2 DEF TookTestAct
<1>10. CASE TookTestCon(e)  BY <1>1, <1>3, <1>10 DEF TookTestCon, Timers
<1>11. CASE Acknowledged(e)  BY <1>3, <1>11 DEF Acknowledged, Timers, T3Runs
<1>12. CASE Tests(e)  BY <1>3, <1>12 DEF Tests, Timers
<1>13. CASE Exited(e)
  <2>1. CASE e = "master"
    BY <1>1, <1>2, <1>13, <2>1 DEF Exited, Timers, Causes, T3Runs
  <2>2. CASE e = "slave"
    <3>1. /\ timer'["slave"]["t0"] = Off /\ timer'["master"] = timer["master"]
          /\ link'["master"] = link["master"] /\ KeepsFlags("master")
      BY <1>1, <1>13, <2>2 DEF Exited, Timers, Kept, Station
    <3> QED  BY <1>2, <3>1 DEF T3Runs, KeepsFlags
  <2> QED  BY <2>1, <2>2 DEF Station
<1> QED
  BY <1>4, <1>5, <1>6, <1>7, <1>8, <1>9, <1>10, <1>11, <1>12, <1>13 DEF Moves

LEMMA NextT3Known ==
    ASSUME TypeOK, DeliveryInv, AckTimed, TimersKnown, T3Known, [Next]_vars
    PROVE  T3Known'
<1> SUFFICES T3Runs'  BY DEF T3Known, T3Runs, Running
<1>1. T3Runs  BY T3KnownIs
<1>2. T3Runs' <=>
        /\ link'["master"] = "open" =>
             timer'["master"]["t3"] # Off \/ testfr'["master"] \/ stopdt'["master"]
        /\ timer'["slave"]["t0"] # Off => timer'["slave"]["t3"] = Off
  BY DEF T3Runs
<1>3. CASE Restart
  BY <1>2, <1>3 DEF Restart, AllIdle, Stopped, Station, Timer
<1>4. CASE Idled
  BY <1>1, <1>2, <1>4 DEF Idled, Kept, KeepsFlags, T3Runs, Station
<1>5. CASE Ticked
  <2>1. \A e \in Station, t \in Timer :
           timer'[e][t] = IF timer[e][t] > 0 THEN timer[e][t] - 1 ELSE timer[e][t]
    BY <1>5 DEF Ticked
  <2>2. \A e \in Station, t \in Timer : timer'[e][t] = Off <=> timer[e][t] = Off
    <3> SUFFICES ASSUME NEW e \in Station, NEW t \in Timer
                 PROVE  timer'[e][t] = Off <=> timer[e][t] = Off
      OBVIOUS
    <3>1. timer[e][t] \in Nat \cup {Off}  BY DEF TypeOK
    <3> QED  BY <2>1, <3>1 DEF Off
  <2>3. link' = link /\ KeepsFlags("master")  BY <1>5 DEF Ticked, Kept, Station
  <2> QED  BY <1>1, <1>2, <2>2, <2>3 DEF T3Runs, KeepsFlags, Station, Timer
<1>6. CASE Connected
  <2>1. timer["slave"]["t0"] = Off
    BY <1>6 DEF Connected, TimersKnown, Running, Station, Timer
  <2> QED  BY <1>2, <1>6, <2>1 DEF Connected
<1>7. CASE Accepted
  BY <1>1, <1>2, <1>7 DEF Accepted, T3Runs, Station
<1>8. ASSUME NEW e \in Station, Moves(e) PROVE T3Runs'  BY <1>1, <1>8, MoveT3Known
<1> QED  BY <1>3, <1>4, <1>5, <1>6, <1>7, <1>8, NextFacts

LEMMA Multiples ==
    ASSUME NEW w \in Nat, NEW t \in Nat
    PROVE  /\ w * t \in Nat
           /\ (w + 1) * t = w * t + t
  BY SMT

LEMMA PatienceFacts ==
    /\ Patience(0) \in Nat /\ W * T2 = Patience(0) + T2
    /\ \A n \in 0..(W - 1) :
         /\ Patience(n) \in Nat /\ Patience(n) <= Patience(0)
         /\ n + 1 \in 1..(W - 1) => Patience(n) = Patience(n + 1) + T2
<1>1. W \in Nat \ {0} /\ T2 \in Nat /\ W - 1 \in Nat  BY LinkAssumption
<1>2. W * T2 = (W - 1) * T2 + T2 /\ (W - 1) * T2 \in Nat
  <2>1. PICK w \in Nat : w = W - 1  BY <1>1
  <2>2. W = w + 1  BY <1>1, <2>1
  <2> QED  BY <1>1, <2>1, <2>2, Multiples
<1>3. Patience(0) = (W - 1) * T2
  <2>1. W - 1 - 0 = W - 1  BY <1>1
  <2> QED  BY <2>1 DEF Patience
<1>4. ASSUME NEW n \in 0..(W - 1)
      PROVE  /\ Patience(n) \in Nat /\ Patience(n) <= Patience(0)
             /\ n + 1 \in 1..(W - 1) => Patience(n) = Patience(n + 1) + T2
  <2>1. PICK m \in Nat : m = W - 1 - n /\ m + n = W - 1  BY <1>1
  <2>2. Patience(n) = m * T2 /\ m * T2 \in Nat  BY <1>1, <2>1, Multiples DEF Patience
  <2>3. (m + n) * T2 = m * T2 + n * T2 /\ n * T2 \in Nat
    <3>1. n \in Nat  BY <1>1
    <3> QED  BY <1>1, <3>1, SMT
  <2>4. Patience(n) <= Patience(0)  BY <1>3, <2>1, <2>2, <2>3
  <2>5. ASSUME n + 1 \in 1..(W - 1) PROVE Patience(n) = Patience(n + 1) + T2
    <3>1. PICK k \in Nat : k = W - 1 - (n + 1) /\ k + 1 = m  BY <1>1, <2>1, <2>5
    <3>2. Patience(n + 1) = k * T2  BY <3>1 DEF Patience
    <3> QED  BY <1>1, <2>2, <3>1, <3>2, Multiples
  <2> QED  BY <2>2, <2>4, <2>5
<1> QED  BY <1>2, <1>3, <1>4

LEMMA ReserveFacts ==
    /\ Reserve \in Nat /\ LongT0 \in BOOLEAN
    /\ LongT0 => Reserve = Patience(0) + 1 /\ T0 > T3 + (Patience(0) + T2)
    /\ ~LongT0 => Reserve = 0
  BY PatienceFacts, LinkAssumption DEF Reserve, LongT0

-----------------------------------------------------------------------------
(* While the network works T0 outlasts what the master may be silent for. *)

OnlyI(ch) == \A i \in 1..Len(ch) : ch[i].kind = "I"

\* T0Covers on the values it reads: what is left of T0, the I frames the master owes,
\* its T2 and T3, the T2 of the slave, and the frames of the slave on their way.
Covers(left, owed, t2, t3, t2s, ch) ==
    IF t2 # Off
    THEN LongT0 => left > t2 + Patience(owed)
    ELSE \/ left >= T3 + Reserve + (IF t2s # Off THEN t2s ELSE 0)
         \/ left >= t3 + Reserve /\ t3 # Off /\ t2s = Off /\ OnlyI(ch)

Owed == Dist(v_ack_rem["master"], vr["master"])

Covered ==
    Covers(timer["slave"]["t0"], Owed, timer["master"]["t2"], timer["master"]["t3"],
           timer["slave"]["t2"], net["slave"])

LEMMA T0LeftIs ==
    T0Left <=>
        (~cut /\ link["slave"] = "open" /\ timer["slave"]["t0"] # Off =>
           /\ LongT0 => timer["slave"]["t0"] > 0
           /\ link["master"] = "open" /\ net["master"] = <<>> => Covered)
  BY Zenon DEF T0Left, T0Covers, Covered, Covers, Owed, OnlyI, Running

LEMMA T0LeftNext ==
    T0Left' <=>
        (~cut' /\ link'["slave"] = "open" /\ timer'["slave"]["t0"] # Off =>
           /\ LongT0 => timer'["slave"]["t0"] > 0
           /\ link'["master"] = "open" /\ net'["master"] = <<>> =>
                Covers(timer'["slave"]["t0"], Dist(v_ack_rem'["master"], vr'["master"]),
                       timer'["master"]["t2"], timer'["master"]["t3"],
                       timer'["slave"]["t2"], net'["slave"]))
  BY Zenon DEF T0Left, T0Covers, Covers, OnlyI, Running

\* The clocks of the two stations and what the master owes are numbers.
LEMMA Clocks ==
    ASSUME TypeOK
    PROVE  /\ \A e \in Station, t \in Timer : timer[e][t] \in Nat \cup {Off}
           /\ v_ack_rem["master"] \in Seqno /\ vr["master"] \in Seqno
           /\ v_ack_rem["master"] = vr["master"] <=> Owed = 0
           /\ AckTimed /\ link["master"] = "open" =>
                /\ Owed \in 0..(W - 1)
                /\ timer["master"]["t2"] = Off => Owed = 0
<1>1. /\ \A e \in Station, t \in Timer : timer[e][t] \in Nat \cup {Off}
      /\ v_ack_rem["master"] \in Seqno /\ vr["master"] \in Seqno
  BY DEF TypeOK, Station
<1>2. Owed \in Seqno /\ (v_ack_rem["master"] = vr["master"] <=> Owed = 0)
  BY <1>1, DistFacts DEF Owed
<1>3. ASSUME AckTimed, link["master"] = "open"
      PROVE  Owed \in 0..(W - 1) /\ (timer["master"]["t2"] = Off => Owed = 0)
  <2>1. Owed < W /\ (v_ack_rem["master"] # vr["master"] => timer["master"]["t2"] # Off)
    BY <1>3 DEF AckTimed, AckOwedIsTimed, Owed, Running, Station
  <2> QED  BY <1>2, <2>1, LinkAssumption DEF Seqno
<1> QED  BY <1>1, <1>2, <1>3

LEMMA OnlyITail ==
    ASSUME NEW ch \in Seq(Frame), ch # <<>>, OnlyI(ch)
    PROVE  Head(ch).kind = "I" /\ OnlyI(Tail(ch))
<1>1. 1 \in 1..Len(ch) /\ Head(ch) = ch[1]  OBVIOUS
<1>2. \A i \in 1..Len(Tail(ch)) : i + 1 \in 1..Len(ch) /\ Tail(ch)[i] = ch[i + 1]
  BY TailFrames
<1> QED  BY <1>1, <1>2, Zenon DEF OnlyI

LEMMA OnlyIMore ==
    ASSUME NEW ch \in Seq(Frame), NEW more \in Seq(Frame), OnlyI(ch), OnlyI(more)
    PROVE  OnlyI(ch \o more)
<1> DEFINE all == ch \o more
           n == Len(ch)
<1>1. n \in Nat /\ Len(more) \in Nat  OBVIOUS
<1>2. /\ Len(all) = n + Len(more) /\ \A i \in 1..n : all[i] = ch[i]
      /\ \A i \in 1..Len(more) : all[n + i] = more[i]
  BY JoinedFrames
<1> HIDE DEF all
<1> SUFFICES ASSUME NEW i \in 1..Len(all) PROVE all[i].kind = "I"
  BY DEF OnlyI, all
<1>3. CASE i \in 1..n  BY <1>2, <1>3 DEF OnlyI, n
<1>4. CASE i \notin 1..n
  <2>1. i - n \in 1..Len(more) /\ n + (i - n) = i  BY <1>1, <1>2, <1>4
  <2>2. all[i] = more[i - n]  BY <1>2, <2>1
  <2> QED  BY <2>1, <2>2 DEF OnlyI
<1> QED  BY <1>3, <1>4

\* A master that has just been told to be patient: T0 has started.
LEMMA FullT0 ==
    ASSUME T2 + T3 <= T0, NEW owed \in 0..(W - 1), NEW t2 \in Nat \cup {Off}, t2 <= T2,
           NEW t2s \in Nat \cup {Off}, t2s <= T2, NEW t3, NEW ch
    PROVE  (LongT0 => T0 > 0) /\ Covers(T0, owed, t2, t3, t2s, ch)
<1>1. /\ Patience(0) \in Nat
      /\ Patience(owed) \in Nat /\ Patience(owed) <= Patience(0)
  BY PatienceFacts
<1>2. T3 \in Nat /\ T2 \in Nat /\ T0 \in Nat  BY LinkAssumption
<1>3. LongT0 => T0 > 0 /\ (t2 # Off => T0 > t2 + Patience(owed))
  BY <1>1, <1>2, ReserveFacts
<1>4. T0 >= T3 + Reserve + (IF t2s # Off THEN t2s ELSE 0)
  <2>1. CASE LongT0  BY <1>1, <1>2, <2>1, ReserveFacts
  <2>2. CASE ~LongT0  BY <1>2, <2>2, ReserveFacts
  <2> QED  BY <2>1, <2>2
<1> QED  BY <1>3, <1>4 DEF Covers

\* The master counts an I frame and starts T2 again.
LEMMA OneMore ==
    ASSUME NEW left \in Nat, NEW owed \in 0..(W - 1), owed + 1 \in 1..(W - 1),
           NEW t2 \in Nat \cup {Off}, t2 = Off => owed = 0,
           NEW t3 \in Nat \cup {Off}, NEW t2s \in Nat \cup {Off}, NEW ch,
           Covers(left, owed, t2, t3, t2s, ch)
    PROVE  LongT0 => left > T2 + Patience(owed + 1)
<1> SUFFICES ASSUME LongT0 PROVE left > T2 + Patience(owed + 1)
  OBVIOUS
<1>1. Patience(owed) = Patience(owed + 1) + T2 /\ Patience(owed) \in Nat
      /\ Patience(owed + 1) \in Nat /\ Patience(0) \in Nat
  <2>1. owed + 1 \in 0..(W - 1) /\ 0 \in 0..(W - 1)  BY LinkAssumption
  <2> QED  BY <2>1, PatienceFacts
<1>2. T3 \in Nat /\ T2 \in Nat  BY LinkAssumption
<1>3. CASE t2 # Off  BY <1>1, <1>2, <1>3 DEF Covers
<1>4. CASE t2 = Off
  <2>1. Patience(0) = Patience(owed + 1) + T2  BY <1>1, <1>4
  <2>2. left > Patience(0)
    <3>1. Reserve = Patience(0) + 1  BY ReserveFacts
    <3> QED  BY <1>1, <1>2, <1>4, <3>1 DEF Covers, Off
  <2> QED  BY <1>1, <1>2, <2>1, <2>2
<1> QED  BY <1>3, <1>4

\* A tick of all the clocks when nothing is due and nothing is on its way.
LEMMA OneTick ==
    ASSUME NEW left \in Nat, NEW owed \in 0..(W - 1),
           NEW t2 \in (Nat \ {0}) \cup {Off}, NEW t3 \in Nat \ {0}, t3 <= T3,
           NEW t2s \in (Nat \ {0}) \cup {Off}, NEW ch, NEW t2n, NEW t2m,
           t2n = (IF t2 = Off THEN Off ELSE t2 - 1),
           t2m = (IF t2s = Off THEN Off ELSE t2s - 1),
           Covers(left, owed, t2, t3, t2s, ch)
    PROVE  (LongT0 => left - 1 > 0) /\ Covers(left - 1, owed, t2n, t3 - 1, t2m, <<>>)
<1>1. /\ Patience(owed) \in Nat /\ T3 \in Nat
      /\ Reserve \in Nat /\ (LongT0 => Reserve >= 1)
  BY PatienceFacts, ReserveFacts, LinkAssumption
<1>2. OnlyI(<<>>)  BY DEF OnlyI
<1>3. CASE t2 # Off
  <2>1. t2n # Off /\ t2n = t2 - 1  BY <1>3 DEF Off
  <2>2. LongT0 => left > t2 + Patience(owed)  BY <1>3 DEF Covers
  <2>3. LongT0 => left - 1 > t2n + Patience(owed) /\ left - 1 > 0
    BY <1>1, <1>3, <2>1, <2>2
  <2> QED  BY <2>1, <2>3 DEF Covers
<1>4. CASE t2 = Off
  <2>1. t2n = Off  BY <1>4
  <2>2. CASE t2s # Off
    <3>1. t2m # Off /\ t2m = t2s - 1  BY <2>2 DEF Off
    <3>2. left >= T3 + Reserve + t2s  BY <1>4, <2>2 DEF Covers
    <3>3. left - 1 >= T3 + Reserve + t2m /\ (LongT0 => left - 1 > 0)
      BY <1>1, <2>2, <3>1, <3>2
    <3> QED  BY <2>1, <3>1, <3>3 DEF Covers
  <2>3. CASE t2s = Off
    <3>1. t2m = Off  BY <2>3
    <3>2. left >= t3 + Reserve  BY <1>1, <1>4, <2>3 DEF Covers
    <3>3. left - 1 >= (t3 - 1) + Reserve /\ (LongT0 => left - 1 > 0) /\ t3 - 1 # Off
      BY <1>1, <3>2 DEF Off
    <3> QED  BY <1>2, <2>1, <3>1, <3>3 DEF Covers
  <2> QED  BY <2>2, <2>3
<1> QED  BY <1>3, <1>4

\* A step of the slave leaves the master alone, and the other way round.
LEMMA Ends ==
    /\ Station = {"master", "slave"} /\ Peer("master") = "slave" /\ Peer("slave") = "master"
    /\ "master" \in Station /\ "slave" \in Station
    /\ Timer = {"t0", "t1", "t2", "t3"}
  BY DEF Station, Peer, Timer

LEMMA SlaveMove ==
    ASSUME TypeOK, AckTimed, TimersKnown, T3Runs, T2 + T3 <= T0, T0Left, Moves("slave")
    PROVE  T0Left'
<1> DEFINE t == timer["slave"]
<1>1. /\ t["t0"] \in Nat \cup {Off} /\ t["t2"] \in Nat \cup {Off}
      /\ timer["master"]["t2"] \in Nat \cup {Off} /\ t["t3"] \in Nat \cup {Off}
  BY Clocks, Ends
<1>2. net["slave"] \in Seq(Frame) /\ net["master"] \in Seq(Frame)  BY Ends DEF TypeOK
<1>3. ASSUME timer'["slave"]["t0"] = Off PROVE T0Left'  BY <1>3, T0LeftNext
<1>4. ASSUME StepOf("slave")
      PROVE  /\ link' = link /\ cut' = cut /\ timer'["master"] = timer["master"]
             /\ Dist(v_ack_rem'["master"], vr'["master"]) = Owed
  BY <1>4, Ends DEF StepOf, Owed
<1> HIDE DEF t
<1>5. CASE Ran("slave")
  <2>1. PICK out \in Seq(Frame) :
          Wrote("slave", out) /\ \A i \in 1..Len(out) : out[i].kind = "I"
    BY <1>5 DEF Ran
  <2>2. net'["slave"] = net["slave"] \o out /\ net'["master"] = net["master"]
    BY <2>1, Ends DEF Wrote
  <2>3. OnlyI(net["slave"]) => OnlyI(net'["slave"])
    BY <1>2, <2>1, <2>2, OnlyIMore DEF OnlyI
  <2>4. timer'["slave"]["t0"] = t["t0"] /\ timer'["slave"]["t2"] = t["t2"]
    BY <1>5 DEF Ran, Timers, t
  <2>5. Covered => Covers(t["t0"], Owed, timer["master"]["t2"], timer["master"]["t3"],
                          t["t2"], net'["slave"])
    BY <2>3 DEF Covered, Covers, t
  <2>6. StepOf("slave")  BY <1>5 DEF Ran
  <2> QED  BY <1>4, <2>2, <2>4, <2>5, <2>6, T0LeftIs, T0LeftNext, Zenon DEF t
<1>6. CASE TookI("slave")  BY <1>3, <1>6 DEF TookI, Timers
<1>7. CASE TookS("slave")  BY <1>3, <1>7 DEF TookS, Timers
<1>8. CASE TookStartAct("slave")  BY <1>3, <1>8 DEF TookStartAct, Timers
<1>9. CASE TookStartCon("slave")  BY <1>9 DEF TookStartCon
<1>10. CASE TookTestAct("slave")
  <2>1. CASE testfr["slave"]  BY <1>3, <1>10, <2>1 DEF TookTestAct, Timers
  <2>2. CASE ~testfr["slave"]
    <3>1. StepOf("slave") /\ timer'["slave"]["t0"] = T0 /\ timer'["slave"]["t2"] = t["t2"]
      BY <1>10, <2>2 DEF TookTestAct, Timers, t
    <3>2. LongT0 => T0 > 0
      <4>1. 0 \in 0..(W - 1) /\ Off \in Nat \cup {Off} /\ Off <= T2
        BY LinkAssumption DEF Off
      <4> QED  BY <4>1, FullT0
    <3>3. ASSUME link["master"] = "open"
          PROVE  Covers(T0, Owed, timer["master"]["t2"], timer["master"]["t3"], t["t2"],
                        net'["slave"])
      <4>1. Owed \in 0..(W - 1)  BY <3>3, Clocks
      <4>2. timer["master"]["t2"] <= T2 /\ t["t2"] <= T2  BY Ends DEF TimersKnown, t
      <4> QED  BY <1>1, <4>1, <4>2, FullT0
    <3> QED  BY <1>4, <3>1, <3>2, <3>3, T0LeftNext
  <2> QED  BY <2>1, <2>2
<1>11. CASE TookTestCon("slave")  BY <1>3, <1>11 DEF TookTestCon, Timers
<1>12. CASE Acknowledged("slave")
  <2>1. PICK f : Wrote("slave", <<f>>)  BY <1>12 DEF Acknowledged
  <2>2. net'["master"] = net["master"]  BY <2>1, Ends DEF Wrote
  <2>3. /\ timer'["slave"]["t0"] = t["t0"] /\ timer'["slave"]["t2"] = Off /\ t["t2"] = 0
        /\ StepOf("slave")
    BY <1>12 DEF Acknowledged, Timers, Expired, t
  <2>4. ASSUME Covered
        PROVE  Covers(t["t0"], Owed, timer["master"]["t2"], timer["master"]["t3"],
                      Off, net'["slave"])
    <3>1. 0 # Off /\ T3 + Reserve + 0 = T3 + Reserve
      BY ReserveFacts, LinkAssumption DEF Off
    <3> QED  BY <2>3, <2>4, <3>1 DEF Covered, Covers, t
  <2> QED  BY <1>4, <2>2, <2>3, <2>4, T0LeftIs, T0LeftNext, Zenon DEF t
<1>13. CASE Tests("slave")
  <2>1. t["t3"] = 0 /\ timer'["slave"]["t0"] = t["t0"]
    BY <1>13 DEF Tests, Timers, Expired, t
  <2>2. t["t0"] = Off  BY <2>1 DEF T3Runs, Off, t
  <2> QED  BY <1>3, <2>1, <2>2
<1>14. CASE Exited("slave")  BY <1>3, <1>14 DEF Exited, Timers
<1> QED
  BY <1>5, <1>6, <1>7, <1>8, <1>9, <1>10, <1>11, <1>12, <1>13, <1>14 DEF Moves

LEMMA MasterMove ==
    ASSUME TypeOK, AckTimed, TimersKnown, T0Left, Moves("master")
    PROVE  T0Left'
<1> DEFINE left == timer["slave"]["t0"]
           t2s == timer["slave"]["t2"]
           t2 == timer["master"]["t2"]
           t3 == timer["master"]["t3"]
<1>1. /\ left \in Nat \cup {Off} /\ t2s \in Nat \cup {Off}
      /\ t2 \in Nat \cup {Off} /\ t3 \in Nat \cup {Off}
  BY Clocks, Ends
<1>2. net["slave"] \in Seq(Frame) /\ net["master"] \in Seq(Frame)  BY Ends DEF TypeOK
<1>3. ASSUME StepOf("master")
      PROVE  /\ link' = link /\ cut' = cut
             /\ timer'["slave"]["t0"] = left /\ timer'["slave"]["t2"] = t2s
  BY <1>3, Ends DEF StepOf
<1>4. T0Left <=>
        (~cut /\ link["slave"] = "open" /\ left # Off =>
           /\ LongT0 => left > 0
           /\ link["master"] = "open" /\ net["master"] = <<>> =>
                Covers(left, Owed, t2, t3, t2s, net["slave"]))
  BY T0LeftIs, Zenon DEF Covered
<1> HIDE DEF left, t2s, t2, t3
\* A master that writes.
<1>5. ASSUME StepOf("master"), net'["master"] # <<>> PROVE T0Left'
  BY <1>3, <1>4, <1>5, T0LeftNext, Zenon
<1>6. ASSUME NEW more \in Seq(Frame), more # <<>>, net'["master"] = net["master"] \o more
      PROVE  net'["master"] # <<>>
  <2>1. Len(more) > 0 /\ Len(more) \in Nat /\ Len(net["master"]) \in Nat  BY <1>2, <1>6
  <2>2. Len(net'["master"]) = Len(net["master"]) + Len(more)  BY <1>2, <1>6, MoreFrames
  <2> QED  BY <2>1, <2>2
\* A master that only reads a frame that is no I frame.
<1>7. ASSUME StepOf("master"), NEW k, k # "I", Replied("master", k, <<>>), Receives("master"),
             timer'["master"]["t2"] = t2
      PROVE  T0Left'
  <2>1. net'["master"] = net["master"]
    <3>1. net'["master"] = net["master"] \o <<>>  BY <1>7 DEF Replied
    <3> QED  BY <1>2, <3>1
  <2>2. net["slave"] # <<>> /\ Head(net["slave"]).kind = k  BY <1>7, Ends DEF Replied
  <2>3. ~OnlyI(net["slave"])  BY <1>2, <1>7, <2>2, OnlyITail
  <2>4. Covers(left, Owed, t2, t3, t2s, net["slave"]) =>
          Covers(left, Owed, t2, timer'["master"]["t3"], t2s, net'["slave"])
    BY <2>3 DEF Covers
  <2>5. Dist(v_ack_rem'["master"], vr'["master"]) = Owed  BY <1>7 DEF Receives, Owed
  <2> QED  BY <1>3, <1>4, <1>7, <2>1, <2>4, <2>5, T0LeftNext, Zenon
<1>8. CASE Ran("master")
  <2>1. PICK out \in Seq(Frame) : Wrote("master", out) /\ out # <<>>  BY <1>8 DEF Ran
  <2>2. net'["master"] # <<>>  BY <1>6, <2>1 DEF Wrote
  <2> QED  BY <1>5, <1>8, <2>2 DEF Ran
<1>9. CASE TookI("master")
  <2>1. StepOf("master")  BY <1>9 DEF TookI
  <2>2. CASE v_ack_rem'["master"] = vr'["master"]
    <3>1. PICK f \in Frame : Replied("master", "I", <<f>>)  BY <1>9, <2>2 DEF TookI
    <3>2. <<f>> \in Seq(Frame) /\ <<f>> # <<>>  OBVIOUS
    <3>3. net'["master"] # <<>>  BY <1>6, <3>1, <3>2 DEF Replied
    <3> QED  BY <1>5, <2>1, <3>3
  <2>3. CASE v_ack_rem'["master"] # vr'["master"]
    <3>1. /\ Dist(v_ack_rem'["master"], vr'["master"]) = Owed + 1
          /\ Owed + 1 \in 1..(W - 1) /\ Replied("master", "I", <<>>)
          /\ link["master"] = "open" /\ timer'["master"]["t2"] = T2
      BY <1>9, <2>3 DEF TookI, Owed, Timers
    <3>2. net'["master"] = net["master"]
      <4>1. net'["master"] = net["master"] \o <<>>  BY <3>1 DEF Replied
      <4> QED  BY <1>2, <4>1
    <3>3. Owed \in 0..(W - 1) /\ (t2 = Off => Owed = 0)  BY <3>1, Clocks DEF t2
    <3>4. ASSUME left # Off, Covers(left, Owed, t2, t3, t2s, net["slave"])
          PROVE  Covers(left, Owed + 1, T2, timer'["master"]["t3"], t2s, net'["slave"])
      <4>1. LongT0 => left > T2 + Patience(Owed + 1)
        <5>1. left \in Nat  BY <1>1, <3>4
        <5>2. PICK n \in 0..(W - 1) : n = Owed  BY <3>3
        <5>3. LongT0 => left > T2 + Patience(n + 1)
          BY <1>1, <3>1, <3>3, <3>4, <5>1, <5>2, OneMore
        <5> QED  BY <5>2, <5>3
      <4>2. T2 # Off  BY LinkAssumption DEF Off
      <4> QED  BY <4>1, <4>2 DEF Covers
    <3> QED  BY <1>3, <1>4, <2>1, <3>1, <3>2, <3>4, T0LeftNext, Zenon
  <2> QED  BY <2>2, <2>3
<1>10. CASE TookS("master")  BY <1>7, <1>10 DEF TookS, Timers, t2
<1>11. CASE TookStartAct("master")  BY <1>11 DEF TookStartAct
<1>12. CASE TookStartCon("master")  BY <1>7, <1>12 DEF TookStartCon, Timers, t2
<1>13. CASE TookTestAct("master")
  <2>1. StepOf("master") /\ net'["master"] = net["master"] \o <<UFrame("TESTFRCON")>>
    BY <1>13 DEF TookTestAct, Replied
  <2>2. <<UFrame("TESTFRCON")>> \in Seq(Frame) /\ <<UFrame("TESTFRCON")>> # <<>>
    BY UFrameIsFrame DEF UFunc
  <2> QED  BY <1>5, <1>6, <2>1, <2>2
<1>14. CASE TookTestCon("master")  BY <1>7, <1>14 DEF TookTestCon, Timers, t2
<1>15. CASE Acknowledged("master")
  <2>1. PICK f \in Frame : Wrote("master", <<f>>)  BY <1>15 DEF Acknowledged
  <2>2. <<f>> \in Seq(Frame) /\ <<f>> # <<>>  OBVIOUS
  <2>3. net'["master"] # <<>>  BY <1>6, <2>1, <2>2 DEF Wrote
  <2> QED  BY <1>5, <1>15, <2>3 DEF Acknowledged
<1>16. CASE Tests("master")
  <2>1. StepOf("master") /\ net'["master"] = net["master"] \o <<UFrame("TESTFRACT")>>
    BY <1>16 DEF Tests, Wrote
  <2>2. <<UFrame("TESTFRACT")>> \in Seq(Frame) /\ <<UFrame("TESTFRACT")>> # <<>>
    BY UFrameIsFrame DEF UFunc
  <2> QED  BY <1>5, <1>6, <2>1, <2>2
<1>17. CASE Exited("master")
  <2>1. /\ link'["master"] # "open" /\ link'["slave"] = link["slave"] /\ cut' = cut
        /\ timer'["slave"] = timer["slave"]
    BY <1>17, Ends DEF Exited, Causes
  <2> QED  BY <1>4, <2>1, T0LeftNext, Zenon DEF left
<1> QED
  BY <1>8, <1>9, <1>10, <1>11, <1>12, <1>13, <1>14, <1>15, <1>16, <1>17 DEF Moves

LEMMA TickT0 ==
    ASSUME TypeOK, AckTimed, TimersKnown, Answered, T3Runs, T0Left, Ticked
    PROVE  T0Left'
<1> SUFFICES ASSUME ~cut, link["slave"] = "open", timer'["slave"]["t0"] # Off PROVE T0Left'
  BY T0LeftNext DEF Ticked
<1>1. /\ Quiet /\ link' = link /\ cut' = cut /\ net' = net /\ Receives("master")
      /\ \A e \in Station, t \in Timer :
           timer'[e][t] = IF timer[e][t] > 0 THEN timer[e][t] - 1 ELSE timer[e][t]
  BY Ends DEF Ticked, Kept
<1>2. /\ link["master"] = "open" /\ net["slave"] = <<>> /\ net["master"] = <<>>
      /\ Alive("slave") /\ Alive("master")
  BY <1>1, QuietNets, Ends
<1>3. timer["slave"]["t0"] # Off  BY <1>1, Ends DEF Off
<1>4. Covered  BY <1>2, <1>3, T0LeftIs
<1>5. timer["master"]["t3"] # Off
  <2>1. ~Asked("master", "TESTFRACT", "TESTFRCON") /\ ~Asked("master", "STARTDTACT", "STARTDTCON")
    BY <1>2, ComingOne, Ends DEF Asked
  <2>2. ~testfr["master"] /\ ~stopdt["master"]  BY <1>2, <2>1, Ends DEF Answered
  <2> QED  BY <1>2, <2>2 DEF T3Runs
<1>6. \A e \in Station, t \in Timer : timer[e][t] \in Nat \cup {Off} /\ timer[e][t] # 0
  BY <1>1, Clocks DEF Quiet, Expired
<1>7. \A e \in Station, t \in Timer :
         timer'[e][t] = IF timer[e][t] = Off THEN Off ELSE timer[e][t] - 1
  <2> SUFFICES ASSUME NEW e \in Station, NEW t \in Timer
               PROVE  timer'[e][t] = IF timer[e][t] = Off THEN Off ELSE timer[e][t] - 1
    OBVIOUS
  <2>1. timer'[e][t] = IF timer[e][t] > 0 THEN timer[e][t] - 1 ELSE timer[e][t]  BY <1>1
  <2>2. timer[e][t] \in Nat \cup {Off} /\ timer[e][t] # 0  BY <1>6
  <2> QED  BY <2>1, <2>2 DEF Off
<1>8. PICK left \in Nat, t3 \in Nat \ {0} :
         left = timer["slave"]["t0"] /\ t3 = timer["master"]["t3"]
  BY <1>3, <1>5, <1>6, Ends
<1>9. PICK t2, t2s \in (Nat \ {0}) \cup {Off} :
         t2 = timer["master"]["t2"] /\ t2s = timer["slave"]["t2"]
  BY <1>6, Ends
<1>10. t3 <= T3  BY <1>8, Ends DEF TimersKnown
<1>11. PICK owed \in 0..(W - 1) : owed = Owed  BY <1>2, Clocks
<1>12. Covers(left, owed, t2, t3, t2s, net["slave"])  BY <1>4, <1>8, <1>9, <1>11 DEF Covered
<1>13. /\ timer'["slave"]["t0"] = left - 1 /\ timer'["master"]["t3"] = t3 - 1
       /\ timer'["master"]["t2"] = (IF t2 = Off THEN Off ELSE t2 - 1)
       /\ timer'["slave"]["t2"] = (IF t2s = Off THEN Off ELSE t2s - 1)
  BY <1>3, <1>5, <1>7, <1>8, <1>9, Ends, Zenon
<1>14. /\ LongT0 => left - 1 > 0
       /\ Covers(left - 1, owed, timer'["master"]["t2"], t3 - 1, timer'["slave"]["t2"], <<>>)
  BY <1>10, <1>12, <1>13, OneTick
<1>15. Dist(v_ack_rem'["master"], vr'["master"]) = owed  BY <1>1, <1>11 DEF Receives, Owed
<1> QED  BY <1>1, <1>2, <1>13, <1>14, <1>15, T0LeftNext

LEMMA NextT0Left ==
    ASSUME TypeOK, DeliveryInv, AckTimed, T2 + T3 <= T0, T0Inv, [Next]_vars
    PROVE  T0Left'
<1>1. TimersKnown /\ Answered /\ T3Runs /\ T0Left  BY T3KnownIs DEF T0Inv
<1>2. CASE Restart
  <2>1. link'["slave"] # "open"  BY <1>2, Ends DEF Restart, AllIdle
  <2> QED  BY <2>1, T0LeftNext
<1>3. CASE Idled
  <2>1. link' = link /\ timer' = timer /\ net' = net /\ (cut => cut') /\ Receives("master")
    BY <1>3, Ends DEF Idled, Kept
  <2> QED  BY <1>1, <2>1, T0LeftIs, T0LeftNext DEF Covered, Owed, Receives
<1>4. CASE Ticked  BY <1>1, <1>4, TickT0
<1>5. CASE Connected
  <2>1. link'["slave"] # "open"  BY <1>5 DEF Connected
  <2> QED  BY <2>1, T0LeftNext
<1>6. CASE Accepted
  <2>1. timer'["slave"]["t0"] = Off
    BY <1>1, <1>6, Ends DEF Accepted, TimersKnown, Running
  <2> QED  BY <2>1, T0LeftNext
<1>7. ASSUME NEW e \in Station, Moves(e) PROVE T0Left'
  <2>1. CASE e = "slave"  BY <1>1, <1>7, <2>1, SlaveMove
  <2>2. CASE e = "master"  BY <1>1, <1>7, <2>2, MasterMove
  <2> QED  BY <2>1, <2>2, Ends
<1> QED  BY <1>2, <1>3, <1>4, <1>5, <1>6, <1>7, NextFacts

LEMMA NextT0 ==
    ASSUME TypeOK, DeliveryInv, AckTimed, T2 + T3 <= T0, T0Inv, [Next]_vars
    PROVE  T0Inv'
<1>1. TimersKnown' /\ Answered' /\ T3Known'
  BY NextKnown, NextAnswered, NextT3Known DEF T0Inv
<1>2. T0Left'  BY NextT0Left
<1> QED  BY <1>1, <1>2 DEF T0Inv

LEMMA InitT0 == Init => T0Inv
<1> SUFFICES ASSUME Init PROVE T0Inv
  OBVIOUS
<1>1. \A e \in Station : link[e] = "idle" /\ \A t \in Timer : timer[e][t] = Off
  BY DEF Init, AllIdle, Stopped
<1>2. TimersKnown /\ Answered  BY InitTimers
<1>3. T3Known /\ T0Left  BY <1>1, Ends DEF T3Known, T0Left, Running
<1> QED  BY <1>2, <1>3 DEF T0Inv

\* A T0 that is due leaves nothing of what T0Covers promises.
LEMMA DueT0 ==
    ASSUME TypeOK, 0 < T3, T0Inv, NothingHeard, Expired("slave", "t0")
    PROVE  T0 <= T3 + W * T2 /\ (Running("master", "t2") \/ Expired("master", "t3"))
<1>1. ~cut /\ link["slave"] = "open" /\ link["master"] = "open" /\ net["master"] = <<>>
  BY DEF NothingHeard
<1>2. timer["slave"]["t0"] = 0 /\ timer["slave"]["t0"] # Off  BY DEF Expired, Off
<1>3. (LongT0 => timer["slave"]["t0"] > 0) /\ Covered
  BY <1>1, <1>2, T0LeftIs DEF T0Inv
<1>4. T0 <= T3 + W * T2
  <2>1. ~LongT0  BY <1>2, <1>3
  <2>2. W * T2 \in Nat  BY PatienceFacts, LinkAssumption
  <2> QED  BY <2>1, <2>2, LinkAssumption DEF LongT0
<1>5. ASSUME timer["master"]["t2"] = Off PROVE timer["master"]["t3"] = 0
  <2>1. timer["slave"]["t2"] \in Nat \cup {Off} /\ timer["master"]["t3"] \in Nat \cup {Off}
    BY Clocks, Ends
  <2>2. T3 \in Nat /\ Reserve \in Nat  BY ReserveFacts, LinkAssumption
  <2> QED  BY <1>2, <1>3, <1>5, <2>1, <2>2 DEF Covered, Covers
<1> QED  BY <1>4, <1>5 DEF Running, Expired

\* NoSpuriousT1 is invariant when T2 is shorter than T1, as the comments on DEFAULT_T1
\* and DEFAULT_T2 require (iec_library.h): with T1Inv.
THEOREM T1NeverSpurious ==
    ASSUME T2 < T1
    PROVE  Spec => []NoSpuriousT1
<1>1. Init => T1Inv  BY InitT1
<1>2. TypeOK /\ DeliveryInv /\ AckTimed /\ T1Inv /\ [Next]_vars => T1Inv'  BY NextT1
<1>3. T1Inv => NoSpuriousT1  BY DEF T1Inv
<1>4. Spec => []AckTimed  BY AckTimedAlways
<1> QED  BY <1>1, <1>2, <1>3, <1>4, TypeCorrect, Delivery, PTL DEF Spec

\* T0OutlastsSilence is invariant when T0 is at least T2 + T3, as the defaults are
\* (iec_library.h:22-25); T0 > T3 alone leaves out an S frame of the slave that
\* restarts the T3 of the master after T2.  With T0Inv.
THEOREM T0Outlasts ==
    ASSUME 0 < T3, T2 + T3 <= T0
    PROVE  Spec => []T0OutlastsSilence
<1>1. Init => T0Inv  BY InitT0
<1>2. TypeOK /\ DeliveryInv /\ AckTimed /\ T0Inv /\ [Next]_vars => T0Inv'  BY NextT0
<1>3. TypeOK /\ T0Inv => T0OutlastsSilence
  <2> SUFFICES ASSUME TypeOK, T0Inv, NothingHeard, Expired("slave", "t0")
               PROVE  T0 <= T3 + W * T2 /\ (Running("master", "t2") \/ Expired("master", "t3"))
    BY DEF T0OutlastsSilence
  <2> QED  BY DueT0
<1>4. Spec => []AckTimed  BY AckTimedAlways
<1> QED  BY <1>1, <1>2, <1>3, <1>4, TypeCorrect, Delivery, PTL DEF Spec
=============================================================================
