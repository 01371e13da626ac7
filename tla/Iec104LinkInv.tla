--------------------------- MODULE Iec104LinkInv ---------------------------
(***************************************************************************)
(* The inductive invariants behind the safety properties of Iec104Link:    *)
(* what the sequence numbers of the two stations and of the frames on      *)
(* their way have to do with the ASDUs sent and delivered.  They make no   *)
(* new claim about the code; TLAPS proves them inductive                   *)
(* (Iec104LinkProofs).                                                     *)
(***************************************************************************)
EXTENDS Iec104Link

Alive(e) == link[e] \notin Causes

\* Acknowledged, received and transmitted ASDUs of one direction, in that order,
\* where queue holds the transmitted ones that are not acknowledged.
Window(out, in, queue) ==
    /\ Len(queue) <= K /\ Len(queue) <= Len(out)
    /\ Len(out) - Len(queue) <= Len(in)
    /\ Len(in) <= Len(out)

\* What has been received is what was transmitted first.
Prefix(in, out) == \A i \in 1..Len(in) : in[i] = out[i]

\* The counters of a direction are positions in the histories, modulo Mod.
Counters(out, in, queue, s, r, a) ==
    /\ s = Len(out) % Mod
    /\ r = Len(in) % Mod
    /\ a = (Len(out) - Len(queue)) % Mod
    /\ \A i \in 1..Len(queue) : queue[i] = (Len(out) - Len(queue) + i - 1) % Mod

\* The I frames of a channel that carries the ASDUs out: each has its ASDU and
\* its number, follows the first got of them, and none overtakes another.
Carries(ch, out, got) ==
    /\ \A i \in 1..Len(ch) : ch[i].kind = "I" =>
        /\ ch[i].num \in (got + 1)..Len(out)
        /\ ch[i].ns = (ch[i].num - 1) % Mod
        /\ ch[i].asdu = out[ch[i].num]
    /\ \A i, j \in 1..Len(ch) :
        i < j /\ ch[i].kind = "I" /\ ch[j].kind = "I" => ch[i].num < ch[j].num

\* Every ASDU after the first got is on its way.
Complete(ch, out, got) ==
    \A n \in (got + 1)..Len(out) : \E i \in 1..Len(ch) : ch[i].kind = "I" /\ ch[i].num = n

\* The acknowledgements on a channel never go back: they start from what the
\* reader has seen acknowledged and end at what the writer has received.
Acks(f) == f.kind \in {"I", "S"}
Acknowledges(ch, acked, received) ==
    /\ \A i \in 1..Len(ch) : Acks(ch[i]) =>
        /\ ch[i].ack \in acked..received
        /\ ch[i].nr = ch[i].ack % Mod
    /\ \A i, j \in 1..Len(ch) :
        i < j /\ Acks(ch[i]) /\ Acks(ch[j]) => ch[i].ack <= ch[j].ack

\* The ASDUs that e sends to its peer, and the acknowledgements that come back.
Flow(e) ==
    LET in == delivered[Peer(e)] IN
    /\ Window(sent[e], in, ackw_q[e])
    /\ Prefix(in, sent[e])
    /\ Counters(sent[e], in, ackw_q[e], vs[e], vr[Peer(e)], v_ack[e])
    /\ Carries(net[e], sent[e], Len(in))
    /\ Alive(Peer(e)) => Complete(net[e], sent[e], Len(in))
    /\ Acknowledges(net[Peer(e)], Acked(e), Len(in))

\* STARTDTACT goes from the master, STARTDTCON from the slave, and nothing moves
\* before the slave has been started.
StartOrder ==
    /\ stopdt["slave"] => stopdt["master"]
    /\ link["slave"] = "idle" => stopdt["slave"]
    /\ \A i \in 1..Len(net["master"]) :
        /\ net["master"][i].kind # "STARTDTCON"
        /\ net["master"][i].kind = "I" => ~stopdt["slave"]
    /\ \A i \in 1..Len(net["slave"]) :
        /\ net["slave"][i].kind # "STARTDTACT"
        /\ net["slave"][i].kind = "STARTDTCON" => ~stopdt["slave"]

\* DeliveryInv: inductive with TypeOK; it implies WindowRespected,
\* NoSequenceError, AckedWasDelivered and ImplementsTransfer.
DeliveryInv ==
    /\ \A e \in Station : Flow(e)
    /\ StartOrder
    /\ NoSequenceError

\* AckTimed: AckOwedIsTimed, and what it needs to be inductive: a process that has
\* not connected yet owes nothing.
AckTimed ==
    /\ AckOwedIsTimed
    /\ \A e \in Station : link[e] = "idle" => v_ack_rem[e] = vr[e]

\* In s, the ASDUs of a queue come in the order of their numbers, from 1 on and
\* without a gap.
InOrder(s) == \A i \in 1..Len(s) :
    /\ \A j \in 1..(i - 1) : s[j][1] = s[i][1] => s[j][2] < s[i][2]
    /\ \A m \in 1..(s[i][2] - 1) : \E j \in 1..(i - 1) : s[j] = <<s[i][1], m>>

\* The ASDUs of the queue q in s are the first c of it; t waits to follow them.
Holds(s, q, c) ==
    /\ \A j \in 1..Len(s) : s[j][1] = q => s[j][2] \in 1..c
    /\ \A m \in 1..c : \E j \in 1..Len(s) : s[j] = <<q, m>>
Waits(t, q, c) == \A i \in 1..Len(t) : t[i] = <<q, c + i>>

\* The ASDUs the queue q of e has given to the link.
Taken(e, q) == made[e][q] - Len(pending[e][q])

\* QueueInv: inductive with TypeOK; with DeliveryInv it implies QueueOrderKept.
QueueInv ==
    \A e \in Station :
        /\ InOrder(sent[e])
        /\ \A q \in Queue :
            /\ Taken(e, q) \in Nat
            /\ Holds(sent[e], q, Taken(e, q))
            /\ Waits(pending[e][q], q, Taken(e, q))

-----------------------------------------------------------------------------
(* The timers of the two stations together. *)

\* Only an open socket has timers, and none runs for longer than its duration.
TimersKnown ==
    \A e \in Station :
        /\ link[e] # "open" => \A t \in Timer : ~Running(e, t)
        /\ timer[e]["t2"] <= T2 /\ timer[e]["t3"] <= T3

Coming(ch, kind) == \E i \in 1..Len(ch) : ch[i].kind = kind

\* A question of e is on its way to its peer, or the answer is on its way back.
Asked(e, question, answer) == Coming(net[e], question) \/ Coming(net[Peer(e)], answer)

\* What a station waits for will come.
Answered ==
    /\ \A e \in Station : Alive(e) /\ Alive(Peer(e)) /\ testfr[e] =>
        Asked(e, "TESTFRACT", "TESTFRCON")
    /\ link["master"] = "open" /\ Alive("slave") /\ stopdt["master"] =>
        Asked("master", "STARTDTACT", "STARTDTCON")

\* An acknowledgement of the first n ASDUs is on its way.
Acking(ch, n) == \E i \in 1..Len(ch) : Acks(ch[i]) /\ ch[i].ack = n

\* A station that owes no acknowledgement has sent it, and it has been or will be read.
AckSent ==
    \A e \in Station : Alive(Peer(e)) /\ v_ack_rem[e] = vr[e] =>
        \/ Acked(Peer(e)) = Len(delivered[e])
        \/ Acking(net[e], Len(delivered[e]))

\* T1 runs for something: an I frame, a test or the start.
T1Awaits ==
    \A e \in Station : link[e] = "open" /\ Running(e, "t1") =>
        v_ack[e] # vs[e] \/ testfr[e] \/ (e = "master" /\ stopdt[e])

\* While the network works T1 has more left than the T2 of the peer that owes the
\* acknowledgement, and all of its duration while an I frame is on its way.
T1Left(e) ==
    ~cut /\ link[e] = "open" /\ Running(e, "t1") =>
        /\ timer[e]["t1"] > 0
        /\ Coming(net[e], "I") => timer[e]["t1"] = T1
        /\ \/ timer[e]["t1"] = T1
           \/ v_ack_rem[Peer(e)] = vr[Peer(e)]
           \/ timer[Peer(e)]["t2"] < timer[e]["t1"]

\* T1Inv: inductive with TypeOK, DeliveryInv and AckTimed if T2 < T1.
T1Inv ==
    /\ TimersKnown /\ Answered /\ AckSent /\ T1Awaits
    /\ \A e \in Station : T1Left(e)
    /\ NoSpuriousT1

\* The T3 of the master runs unless it tests or starts; a slave that waits under T0
\* leaves the test to it.
T3Known ==
    /\ link["master"] = "open" => Running("master", "t3") \/ testfr["master"] \/ stopdt["master"]
    /\ Running("slave", "t0") => ~Running("slave", "t3")

\* How long a master that owes n I frames may wait for the W-th, if each comes just
\* before T2 expires.
Patience(n) == (W - 1 - n) * T2

\* A T0 that outlasts all of it, and what it then has left beyond T3.
LongT0  == T3 + W * T2 < T0
Reserve == IF LongT0 THEN Patience(0) + 1 ELSE 0

\* The T0 of a slave has as much left as the master may be silent: until its T3
\* expires, where an S frame of the slave may restart T3 once more.  A master whose T2
\* runs is silent for longer, and only a long T0 covers that.
T0Covers ==
    IF Running("master", "t2")
    THEN LongT0 => timer["slave"]["t0"] >
             timer["master"]["t2"] + Patience(Dist(v_ack_rem["master"], vr["master"]))
    ELSE \/ timer["slave"]["t0"] >=
              T3 + Reserve + (IF Running("slave", "t2") THEN timer["slave"]["t2"] ELSE 0)
         \/ /\ timer["slave"]["t0"] >= timer["master"]["t3"] + Reserve
            /\ Running("master", "t3") /\ ~Running("slave", "t2")
            /\ \A i \in 1..Len(net["slave"]) : net["slave"][i].kind = "I"

T0Left ==
    ~cut /\ link["slave"] = "open" /\ Running("slave", "t0") =>
        /\ LongT0 => timer["slave"]["t0"] > 0
        /\ link["master"] = "open" /\ net["master"] = <<>> => T0Covers

\* T0Inv: inductive with TypeOK, DeliveryInv and AckTimed if T2 + T3 <= T0.
T0Inv == TimersKnown /\ Answered /\ T3Known /\ T0Left
=============================================================================
