----------------------------- MODULE Iec104Link -----------------------------
(***************************************************************************)
(* The IEC 60870-5-104 link of drivers/iec104/protocol/iec_library.c: the  *)
(* master (iec104master.exe, the front end of an RTU) and the slave        *)
(* (iec104slave.exe) of one TCP connection.  Each side runs one libevent   *)
(* loop, so a callback is atomic and is one action here.                   *)
(*                                                                         *)
(* The connection is a reliable FIFO pipe in each direction (TCP) that may *)
(* end (a process exits) or go silent (Cut).  Every protocol error and     *)
(* every T1/T0 expiry ends the process: the hooks call ExitProcess and     *)
(* iec_call_exit_handler raises SIGABRT.  A supervisor starts it again.    *)
(*                                                                         *)
(* Clocks.  A running timer holds the ticks it has left.  With T0..T3 all  *)
(* 0 a running timer may expire at any moment, which covers every timing;  *)
(* with positive values Tick counts them down and every callback that is   *)
(* due runs before time moves on.                                          *)
(***************************************************************************)
EXTENDS Integers, Sequences, FiniteSets

CONSTANTS
    K,          \* unacknowledged I frames a sender may have     (DEFAULT_K = 12)
    W,          \* I frames a receiver takes before it sends S   (DEFAULT_W = 8)
    Mod,        \* modulus of the sequence numbers               (32768)
    T0, T1, T2, T3,     \* durations of the timers, in ticks     (30, 15, 10, 20 s)
    Batch,      \* I frames that fit DEFAULT_SOCK_SNDBUF_SIZE in one run
    PoolSize,   \* slots of v_iec_buf                            (IEC_104_MAX_EVENTS)
    NetCap,     \* bound: frames in flight at which T3 is held back
    MaxAsdu     \* bound: ASDUs a station submits to each queue in a session

Station == {"master", "slave"}
Queue   == {"high", "spont"}     \* high_priority_q and spontaneous_q
Timer   == {"t0", "t1", "t2", "t3"}

ASSUME LinkAssumption ==
    /\ Mod \in Nat \ {0} /\ K \in 1..(Mod - 1) /\ W \in 1..(Mod - 1)
    /\ T0 \in Nat /\ T1 \in Nat /\ T2 \in Nat /\ T3 \in Nat
    /\ Batch \in Nat \ {0} /\ PoolSize \in Nat \ {0} /\ NetCap \in Nat
    /\ MaxAsdu \in [Station -> [Queue -> Nat]]

VARIABLES
    link,       \* "idle", "open", or why the process of the station ended
    cut,        \* the network has gone silent without closing the connection
    net,        \* net[e]: frames e has written and its peer has not read
    stopdt, testfr, vs, vr, v_ack, v_ack_rem,   \* the fields of struct iecsock
    ackw_q,     \* N(S) of the I frames that wait for an acknowledgement
    pending,    \* pending[e]: high_priority_q and spontaneous_q of e
    timer,      \* ticks left of each timer of a station, or Off
    used,       \* slots of v_iec_buf that are in use
    made,       \* history: ASDUs submitted to each queue in this session
    sent,       \* history: sent[e], ASDUs e has transmitted, in order
    delivered   \* history: delivered[e], ASDUs handed to the application of e

session == <<link, cut>>
queues  == <<pending, made, used>>
seqnos  == <<vs, vr, v_ack, v_ack_rem, ackw_q, sent, delivered>>
flags   == <<stopdt, testfr>>
vars    == <<session, net, queues, seqnos, flags, timer>>

-----------------------------------------------------------------------------
(* Frames, sequence numbers and timers. *)

Asdu   == Queue \X Nat
Seqno  == 0..(Mod - 1)
Off    == -1
UFunc  == {"STARTDTACT", "STARTDTCON", "TESTFRACT", "TESTFRCON"}
Causes == {"refused", "eof", "t0", "t1", "nr", "ns", "utype", "testfr", "pool"}

\* num and ack are history fields no handler reads: the position of the ASDU in
\* sent, and the number of ASDUs the writer had received.
IFrames == [kind : {"I"}, ns : Seqno, nr : Seqno, asdu : Asdu, num : Nat, ack : Nat]
SFrames == [kind : {"S"}, nr : Seqno, ack : Nat]
UFrames == [kind : UFunc]
Frame   == IFrames \cup SFrames \cup UFrames

UFrame(func) == [kind |-> func]
\* iecsock_sframe_send; the mutant acknowledges the frame it expects next.
SFrameAhead(e) == [kind |-> "S", nr |-> (vr[e] + 1) % Mod, ack |-> Len(delivered[e])]
SFrame(e) == [kind |-> "S", nr |-> vr[e], ack |-> Len(delivered[e])]

\* The i-th I frame of a run that sends from q; the mutant takes from the tail.
IFrameFromTail(e, q, i) ==
    [kind |-> "I", ns |-> (vs[e] + i - 1) % Mod, nr |-> vr[e],
     asdu |-> q[Len(q) + 1 - i], num |-> Len(sent[e]) + i, ack |-> Len(delivered[e])]
IFrame(e, q, i) ==
    [kind |-> "I", ns |-> (vs[e] + i - 1) % Mod, nr |-> vr[e],
     asdu |-> q[i], num |-> Len(sent[e]) + i, ack |-> Len(delivered[e])]

Peer(e)     == IF e = "master" THEN "slave" ELSE "master"
Least(a, b) == IF a < b THEN a ELSE b

\* Arithmetic on sequence numbers; the mutant lets them run over 15 bits.
PlusNoWrap(a, n) == a + n
Plus(a, n) == (a + n) % Mod
Dist(a, b) == (b - a + Mod) % Mod

Stopped       == [t \in Timer |-> Off]
Running(e, t) == timer[e][t] # Off
Expired(e, t) == timer[e][t] = 0

\* check_nr; the mutant refuses an N(R) that acknowledges everything.
check_nr_strict(e, nr) == Dist(v_ack[e], nr) < Dist(v_ack[e], vs[e])
check_nr(e, nr) == Dist(v_ack[e], nr) <= Dist(v_ack[e], vs[e])
check_ns(e, ns) == ns = vr[e]

\* iecsock_can_queue; the mutant is off by one.
can_queue_more(e) == K + 1 - Dist(v_ack[e], vs[e])
can_queue(e) == K - Dist(v_ack[e], vs[e])

\* The frames at the head of ackw_q that come before N(R) = nr, or all of them
\* when none has that number, and what remains.
Dropped(q, nr)  == Cardinality({i \in 1..Len(q) : \A j \in 1..i : q[j] # nr})
AfterAck(q, nr) == SubSeq(q, Dropped(q, nr) + 1, Len(q))

-----------------------------------------------------------------------------
(* The life of the connection and of the two processes. *)

Zero     == [e \in Station |-> 0]
None     == [e \in Station |-> <<>>]
NoQueues == [e \in Station |-> [q \in Queue |-> <<>>]]
NoneMade == [e \in Station |-> [q \in Queue |-> 0]]
AllIdle  == [e \in Station |-> "idle"]

Init ==
    /\ link = AllIdle /\ cut = FALSE /\ net = None
    /\ stopdt = [e \in Station |-> TRUE] /\ testfr = [e \in Station |-> FALSE]
    /\ vs = Zero /\ vr = Zero /\ v_ack = Zero /\ v_ack_rem = Zero
    /\ ackw_q = None /\ sent = None /\ delivered = None
    /\ pending = NoQueues /\ made = NoneMade /\ used = Zero
    /\ timer = [e \in Station |-> Stopped]

\* The process of e ends; frames it has written may still be read by its peer.
Exit(e, why) ==
    /\ link' = [link EXCEPT ![e] = why]
    /\ timer' = [timer EXCEPT ![e] = Stopped]
    /\ net' = [net EXCEPT ![Peer(e)] = <<>>]
    /\ UNCHANGED <<cut, queues, seqnos, flags>>

\* connect_writecb on success.
Connect ==
    /\ link["master"] = "idle" /\ link["slave"] = "idle"
    /\ link' = [link EXCEPT !["master"] = "open"]
    /\ stopdt' = [stopdt EXCEPT !["master"] = TRUE]
    /\ net' = [net EXCEPT !["master"] = Append(@, UFrame("STARTDTACT"))]
    /\ timer' = [timer EXCEPT !["master"]["t1"] = T1, !["master"]["t0"] = Off]
    /\ UNCHANGED <<cut, queues, seqnos, testfr>>

\* connect() fails in iecsock_connect: Start() returns an error and main ends.
\* The same end follows when connect_writecb meets an error: it adds the event
\* of a closed socket, select() fails and event_dispatch returns.
ConnectFails ==
    /\ link["master"] = "idle"
    /\ Exit("master", "refused")

\* listen_readcb.
Accept ==
    /\ link["slave"] = "idle" /\ link["master"] = "open"
    /\ link' = [link EXCEPT !["slave"] = "open"]
    /\ stopdt' = [stopdt EXCEPT !["slave"] = TRUE]
    /\ UNCHANGED <<cut, net, queues, seqnos, testfr, timer>>

\* buferrorcb on EOF or reset: disconnect_hook ends the process.
PeerGone(e) ==
    /\ link[e] = "open" /\ link[Peer(e)] \in Causes /\ ~cut
    /\ Exit(e, "eof")

\* The network goes silent: nothing is read any more, no end of file either.
Cut ==
    /\ ~cut /\ \E e \in Station : link[e] = "open"
    /\ cut' = TRUE
    /\ UNCHANGED <<link, net, queues, seqnos, flags, timer>>

\* A socket listen_readcb has accepted and whose master vanished before its first
\* frame: no timer runs on it, nothing will ever close it.
Orphan(e) ==
    /\ e = "slave" /\ link[e] = "open" /\ cut
    /\ link[Peer(e)] # "open" /\ timer[e] = Stopped

\* The supervisors start the processes again.  Nothing of a session survives,
\* and a master that starts before the slave only exits once more.  An orphan
\* stays behind: its process accepts the next master on a new iecsock.
Restart ==
    /\ \A e \in Station : link[e] # "open" \/ Orphan(e)
    /\ \E e \in Station : link[e] # "idle"
    /\ link' = AllIdle /\ cut' = FALSE /\ net' = None
    /\ stopdt' = [e \in Station |-> TRUE] /\ testfr' = [e \in Station |-> FALSE]
    /\ vs' = Zero /\ vr' = Zero /\ v_ack' = Zero /\ v_ack_rem' = Zero
    /\ ackw_q' = None /\ sent' = None /\ delivered' = None
    /\ pending' = NoQueues /\ made' = NoneMade /\ used' = Zero
    /\ timer' = [e \in Station |-> Stopped]

-----------------------------------------------------------------------------
(* Sending: the 1 ms user timer, started by activation_hook. *)

Active(e) == link[e] = "open" /\ ~stopdt[e]

TAILQ_INSERT_HEAD(q, asdu) == <<asdu>> \o q
TAILQ_INSERT_TAIL(q, asdu) == Append(q, asdu)

\* The application takes a slot of v_iec_buf and appends an ASDU to a queue.
Submit(e, q) ==
    /\ Active(e)
    /\ made[e][q] < MaxAsdu[e][q]
    /\ used[e] < PoolSize
    /\ made' = [made EXCEPT ![e][q] = @ + 1]
    /\ used' = [used EXCEPT ![e] = @ + 1]
    /\ pending' = [pending EXCEPT ![e][q] = TAILQ_INSERT_TAIL(@, <<q, made[e][q] + 1>>)]
    /\ UNCHANGED <<session, net, seqnos, flags, timer>>

\* get_iec_buf finds no free slot: "No more space in iec queue".
PoolExhausted(e, q) ==
    /\ Active(e)
    /\ made[e][q] < MaxAsdu[e][q]
    /\ used[e] = PoolSize
    /\ Exit(e, "pool")

\* The queues in the order iecsock_run_send_queues empties them.
SpontaneousFirst == <<"spont", "high">>
SendOrder        == <<"high", "spont">>

\* What waits to be sent, and how many ASDUs one run of the send queues takes:
\* it stops when the window closes or the socket buffer would overflow.
ToSend(e) == pending[e][SendOrder[1]] \o pending[e][SendOrder[2]]
SendCount(e) == Least(Least(Batch, Len(ToSend(e))), can_queue(e))

\* A queue that has p ASDUs before it, after a run that took n.
Rest(q, p, n) == SubSeq(q, n - Least(n, p) + 1, Len(q))

\* iecsock_run_send_queues and the iecsock_run_write_queue calls in it: each
\* ASDU goes through write_q to the socket and to the tail of ackw_q.
RunSendQueues(e) ==
    /\ Active(e)
    /\ SendCount(e) > 0
    /\ LET n == SendCount(e)
           q == ToSend(e)
           p == Len(pending[e][SendOrder[1]])
       IN  /\ pending' = [pending EXCEPT
                  ![e][SendOrder[1]] = Rest(@, 0, n), ![e][SendOrder[2]] = Rest(@, p, n)]
           /\ net' = [net EXCEPT ![e] = @ \o [i \in 1..n |-> IFrame(e, q, i)]]
           /\ ackw_q' = [ackw_q EXCEPT ![e] = @ \o [i \in 1..n |-> Plus(vs[e], i - 1)]]
           /\ vs' = [vs EXCEPT ![e] = Plus(@, n)]
           /\ sent' = [sent EXCEPT ![e] = @ \o SubSeq(q, 1, n)]
           /\ timer' = [timer EXCEPT ![e]["t1"] = T1]
    /\ UNCHANGED <<session, made, used, vr, v_ack, v_ack_rem, delivered, flags>>

-----------------------------------------------------------------------------
(* Receiving: iecsock_frame_recv dispatches one complete frame. *)

Receivable(e) == link[e] = "open" /\ ~cut /\ net[Peer(e)] # <<>>
Incoming(e)   == Head(net[Peer(e)])
Gets(e, kind) == Receivable(e) /\ Incoming(e).kind = kind

\* net after e has read a frame and written the frames out.
Answer(e, out) == [net EXCEPT ![Peer(e)] = Tail(@), ![e] = @ \o out]

\* Any frame stops the T0 of a slave and restarts T3; the mutant leaves T0.
HeardOnlyT3(e) == [timer[e] EXCEPT !["t3"] = T3]
Heard(e) == [timer[e] EXCEPT !["t3"] = T3, !["t0"] = Off]

\* T1 stops when the acknowledgement N(R) = nr leaves nothing unacknowledged.
T1After(e, nr) == IF nr = vs[e] THEN Off ELSE timer[e]["t1"]

\* The timers after an I frame; the mutant does not start T2.
TimersWithoutT2(e, nr) == [Heard(e) EXCEPT !["t1"] = T1After(e, nr)]
TimersAfterI(e, nr) == [Heard(e) EXCEPT !["t1"] = T1After(e, nr), !["t2"] = T2]

\* The timers after TESTFRACT: a slave that is not testing itself leaves the test
\* frames to the master and waits under T0; the mutant forgets T0.
TimersWithoutT0(e) ==
    IF e = "slave" /\ ~testfr[e] THEN [Heard(e) EXCEPT !["t3"] = Off] ELSE Heard(e)
TimersAfterTest(e) ==
    IF e = "slave" /\ ~testfr[e]
    THEN [Heard(e) EXCEPT !["t3"] = Off, !["t0"] = T0]
    ELSE Heard(e)

\* iecsock_run_ackw_queue and v_ack = N(R); the slots of the acknowledged frames
\* are freed (the mutant leaks them).
FreedNone(e, nr) == 0
Freed(e, nr) == Dropped(ackw_q[e], nr)
Acknowledge(e, nr) ==
    /\ ackw_q' = [ackw_q EXCEPT ![e] = AfterAck(@, nr)]
    /\ used' = [used EXCEPT ![e] = @ - Freed(e, nr)]
    /\ v_ack' = [v_ack EXCEPT ![e] = nr]

\* A frame that is only read: its arrival restarts the supervision of the peer.
Drop(e) ==
    /\ net' = Answer(e, <<>>)
    /\ timer' = [timer EXCEPT ![e] = Heard(e)]
    /\ UNCHANGED <<session, queues, seqnos, flags>>

\* The frame about to be counted is the W-th not acknowledged by an S frame; the
\* mutant looks before it counts.
OwesTooLate(e) == Dist(v_ack_rem[e], vr[e]) = W
OwesAck(e) == Dist(v_ack_rem[e], Plus(vr[e], 1)) = W

\* iecsock_iframe_recv, both checks passed: acknowledge, restart T2, count the
\* frame, send S when W frames are owed, and hand the ASDU to the application.
TakeI(e) ==
    LET f == Incoming(e)
        next == Plus(vr[e], 1)
        ackn == [kind |-> "S", nr |-> next, ack |-> Len(delivered[e]) + 1]
    IN  /\ Acknowledge(e, f.nr)
        /\ timer' = [timer EXCEPT ![e] = TimersAfterI(e, f.nr)]
        /\ vr' = [vr EXCEPT ![e] = next]
        /\ delivered' = [delivered EXCEPT ![e] = Append(@, f.asdu)]
        /\ v_ack_rem' = [v_ack_rem EXCEPT ![e] = IF OwesAck(e) THEN next ELSE @]
        /\ net' = Answer(e, IF OwesAck(e) THEN <<ackn>> ELSE <<>>)
        /\ UNCHANGED <<session, pending, made, vs, sent, flags>>

\* An I frame.  A slave that has not been started drops it; N(R) outside the
\* window, or N(S) not the next number, ends the process.
RecvI(e) ==
    /\ Gets(e, "I")
    /\ IF e = "slave" /\ stopdt[e] THEN Drop(e)
       ELSE IF ~check_nr(e, Incoming(e).nr) THEN Exit(e, "nr")
       ELSE IF ~check_ns(e, Incoming(e).ns) THEN Exit(e, "ns")
       ELSE TakeI(e)

\* iecsock_sframe_recv.
TakeS(e) ==
    /\ Acknowledge(e, Incoming(e).nr)
    /\ timer' = [timer EXCEPT ![e] =
                    [Heard(e) EXCEPT !["t1"] = T1After(e, Incoming(e).nr)]]
    /\ net' = Answer(e, <<>>)
    /\ UNCHANGED <<session, pending, made, vs, vr, v_ack_rem, sent, delivered, flags>>

RecvS(e) ==
    /\ Gets(e, "S")
    /\ IF check_nr(e, Incoming(e).nr) THEN TakeS(e) ELSE Exit(e, "nr")

\* iecsock_uframe_recv, cases STARTDTACT and STARTDTCON.
Start(e, out, timers) ==
    /\ stopdt' = [stopdt EXCEPT ![e] = FALSE]
    /\ net' = Answer(e, out)
    /\ timer' = [timer EXCEPT ![e] = timers]
    /\ UNCHANGED <<session, queues, seqnos, testfr>>

RecvStartAct(e) ==
    /\ Gets(e, "STARTDTACT")
    /\ IF e = "slave" THEN Start(e, <<UFrame("STARTDTCON")>>, Heard(e))
       ELSE Exit(e, "utype")

RecvStartCon(e) ==
    /\ Gets(e, "STARTDTCON")
    /\ IF e = "master" THEN Start(e, <<>>, [Heard(e) EXCEPT !["t1"] = Off])
       ELSE Exit(e, "utype")

\* iecsock_uframe_recv, case TESTFRACT.
RecvTestAct(e) ==
    /\ Gets(e, "TESTFRACT")
    /\ net' = Answer(e, <<UFrame("TESTFRCON")>>)
    /\ timer' = [timer EXCEPT ![e] = TimersAfterTest(e)]
    /\ UNCHANGED <<session, queues, seqnos, flags>>

\* iecsock_uframe_recv, case TESTFRCON.
Tested(e) ==
    /\ testfr' = [testfr EXCEPT ![e] = FALSE]
    /\ net' = Answer(e, <<>>)
    /\ timer' = [timer EXCEPT ![e] = [Heard(e) EXCEPT !["t1"] = Off]]
    /\ UNCHANGED <<session, queues, seqnos, stopdt>>

RecvTestCon(e) ==
    /\ Gets(e, "TESTFRCON")
    /\ IF testfr[e] THEN Tested(e) ELSE Exit(e, "testfr")

Receive(e) ==
    \/ RecvI(e) \/ RecvS(e)
    \/ RecvStartAct(e) \/ RecvStartCon(e) \/ RecvTestAct(e) \/ RecvTestCon(e)

-----------------------------------------------------------------------------
(* The timers. *)

\* t1_timer_run: errorcb, disconnect_hook, ExitProcess.
T1Expire(e) ==
    /\ Expired(e, "t1")
    /\ Exit(e, "t1")

\* t0_timer_run on a slave: like t1_timer_run.
T0Expire(e) ==
    /\ Expired(e, "t0") /\ e = "slave"
    /\ Exit(e, "t0")

\* t2_timer_run.
T2Expire(e) ==
    /\ Expired(e, "t2")
    /\ net' = [net EXCEPT ![e] = Append(@, SFrame(e))]
    /\ v_ack_rem' = [v_ack_rem EXCEPT ![e] = vr[e]]
    /\ timer' = [timer EXCEPT ![e]["t2"] = Off]
    /\ UNCHANGED <<session, queues, vs, vr, v_ack, ackw_q, sent, delivered, flags>>

\* t3_timer_run.
T3Expire(e) ==
    /\ Expired(e, "t3")
    /\ cut \/ Len(net[e]) < NetCap
    /\ testfr' = [testfr EXCEPT ![e] = TRUE]
    /\ net' = [net EXCEPT ![e] = Append(@, UFrame("TESTFRACT"))]
    /\ timer' = [timer EXCEPT ![e]["t3"] = Off, ![e]["t1"] = T1]
    /\ UNCHANGED <<session, queues, seqnos, stopdt>>

\* No callback of an open link is due.
Quiet ==
    \A e \in Station :
        /\ \A t \in Timer : ~Expired(e, t)
        /\ ~Receivable(e)
        /\ Active(e) => SendCount(e) <= 0
        /\ link[e] = "open" => (cut \/ link[Peer(e)] = "open")

Tick ==
    /\ Quiet
    /\ \E e \in Station, t \in Timer : timer[e][t] > 0
    /\ timer' = [e \in Station |-> [t \in Timer |->
                    IF timer[e][t] > 0 THEN timer[e][t] - 1 ELSE timer[e][t]]]
    /\ UNCHANGED <<session, net, queues, seqnos, flags>>

-----------------------------------------------------------------------------
(* The specification. *)

Step(e) ==
    \/ PeerGone(e) \/ RunSendQueues(e) \/ Receive(e)
    \/ T0Expire(e) \/ T1Expire(e) \/ T2Expire(e) \/ T3Expire(e)
    \/ \E q \in Queue : Submit(e, q) \/ PoolExhausted(e, q)

Next ==
    \/ Connect \/ ConnectFails \/ Accept \/ Cut \/ Restart \/ Tick
    \/ \E e \in Station : Step(e)

Spec == Init /\ [][Next]_vars

\* The event loop serves every ready socket and every due timer, and time passes.  T0,
\* T1 and T3 need no fairness while the peer answers, and get it in DeadPeerSpec.
Fairness ==
    /\ WF_vars(Connect) /\ WF_vars(Accept) /\ WF_vars(Tick)
    /\ \A e \in Station :
        WF_vars(Receive(e)) /\ WF_vars(RunSendQueues(e)) /\ WF_vars(T2Expire(e))

FairSpec == Spec /\ Fairness

TimerFairness ==
    \A e \in Station :
        WF_vars(T0Expire(e)) /\ WF_vars(T1Expire(e)) /\ WF_vars(T3Expire(e))

DeadPeerSpec == FairSpec /\ TimerFairness

-----------------------------------------------------------------------------
(* Properties. *)

\* TypeOK: every field keeps the type it has in struct iecsock; the sequence
\* numbers stay below the modulus and the queues hold what they are meant to.
TypeOK ==
    /\ link \in [Station -> {"idle", "open"} \cup Causes]
    /\ cut \in BOOLEAN
    /\ net \in [Station -> Seq(Frame)]
    /\ stopdt \in [Station -> BOOLEAN] /\ testfr \in [Station -> BOOLEAN]
    /\ vs \in [Station -> Seqno] /\ vr \in [Station -> Seqno]
    /\ v_ack \in [Station -> Seqno] /\ v_ack_rem \in [Station -> Seqno]
    /\ ackw_q \in [Station -> Seq(Seqno)]
    /\ pending \in [Station -> [Queue -> Seq(Asdu)]]
    /\ timer \in [Station -> [Timer -> Nat \cup {Off}]]
    /\ used \in [Station -> Int]
    /\ made \in [Station -> [Queue -> Nat]]
    /\ sent \in [Station -> Seq(Asdu)] /\ delivered \in [Station -> Seq(Asdu)]

\* ASDUs of e the peer has acknowledged: those no longer in ackw_q.
Acked(e) == Len(sent[e]) - Len(ackw_q[e])

\* WindowRespected: what waits in ackw_q is exactly the window [V(A), V(S)) of
\* the sequence numbers, and it never exceeds K, whatever mixture of I and S
\* frames acknowledges it and wherever the numbers wrap (iec_library.c:477-603).
WindowRespected ==
    \A e \in Station :
        /\ Len(ackw_q[e]) = Dist(v_ack[e], vs[e])
        /\ Len(ackw_q[e]) <= K
        /\ \A i \in 1..Len(ackw_q[e]) : ackw_q[e][i] = Plus(v_ack[e], i - 1)

\* NoSequenceError: over a FIFO connection two stations running this code never
\* close it for a bad N(S) or N(R), nor for a U frame of the wrong type.
NoSequenceError ==
    \A e \in Station : link[e] \notin {"nr", "ns", "utype"}

\* AckedWasDelivered: a frame leaves ackw_q, and its buffer is reused, only
\* after the peer's application has the ASDU (iecsock_run_ackw_queue).
AckedWasDelivered ==
    \A e \in Station : Acked(e) <= Len(delivered[Peer(e)])

\* QueueOrderKept: ASDUs of one queue reach the peer's application in the order
\* they were submitted and without a gap, though the two queues overtake each
\* other (iecsock_run_send_queues).
QueueOrderKept ==
    \A e \in Station : \A i \in 1..Len(delivered[e]) :
        LET asdu == delivered[e][i] IN
        /\ \A j \in 1..(i - 1) :
                delivered[e][j][1] = asdu[1] => delivered[e][j][2] < asdu[2]
        /\ \A m \in 1..(asdu[2] - 1) :
                \E j \in 1..(i - 1) : delivered[e][j] = <<asdu[1], m>>

\* SlotsAccounted: the slots of v_iec_buf marked used are those of the ASDUs that
\* are queued or wait for an acknowledgement: no slot leaks, none is freed twice.
SlotsAccounted ==
    \A e \in Station :
        /\ used[e] = Len(pending[e]["high"]) + Len(pending[e]["spont"]) + Len(ackw_q[e])
        /\ used[e] <= PoolSize

\* AckOwedIsTimed: a station that has taken I frames it has not acknowledged with
\* an S frame owes fewer than W and has T2 running, so the peer's window cannot
\* stay closed (iecsock_iframe_recv, t2_timer_run).
AckOwedIsTimed ==
    \A e \in Station : link[e] = "open" =>
        /\ Dist(v_ack_rem[e], vr[e]) < W
        /\ v_ack_rem[e] # vr[e] => Running(e, "t2")

\* StartedIsSupervised: once data transfer has started, T0, T1 or T3 is running,
\* whatever acknowledgements and test frames stop and restart them.
StartedIsSupervised ==
    \A e \in Station : Active(e) => \E t \in {"t0", "t1", "t3"} : Running(e, t)

\* HighPriorityFirst: a spontaneous ASDU is transmitted only by a step that
\* leaves no high-priority one waiting (iecsock_run_send_queues).
HighPriorityFirst ==
    [][\A e \in Station :
          link'[e] = "open" /\ Len(pending'[e]["spont"]) < Len(pending[e]["spont"])
              => pending'[e]["high"] = <<>>]_vars

\* Everything submitted has been delivered and acknowledged.
Drained ==
    \A e \in Station :
        pending[e] = [q \in Queue |-> <<>>] /\ ackw_q[e] = <<>> /\ delivered[Peer(e)] = sent[e]

\* EventuallyDrained: while the processes live and the network works, every ASDU
\* submitted is delivered and acknowledged, also when K is lower than W and the
\* window reopens only by T2.
EventuallyDrained ==
    []<>(Drained \/ cut \/ \E e \in Station : link[e] # "open")

\* DeadPeerDetected: a started station whose network has gone silent ends its
\* process: one of its timers expires, however they restart each other.
DeadPeerDetected ==
    \A e \in Station : (cut /\ Active(e)) ~> (link[e] # "open")

\* NoSpuriousT1: T1 ends a process only when the network has gone silent: with
\* these durations every I frame, test frame and start frame is answered in time.
NoSpuriousT1 == cut \/ \A e \in Station : link[e] # "t1"

\* NoSpuriousT0: the T0 a slave starts when the master tests it ends the process
\* only when the network has gone silent.  This is how iec_library.h:249 explains T0 >
\* T3; it is not so for every T0 > T3.
NoSpuriousT0 == cut \/ \A e \in Station : link[e] # "t0"

\* The link works, and no frame of the master waits to be read.
NothingHeard ==
    ~cut /\ link["master"] = "open" /\ link["slave"] = "open" /\ net["master"] = <<>>

\* T0OutlastsSilence: without data T0 outlasts the T3 of the master, as iec_library.h:249
\* asks.  It is due on a link that works only if T0 <= T3 + W * T2, and then only while
\* T2 runs in the master, which has taken an I frame and keeps its acknowledgement back
\* (line 644), or in the moment in which T3 is due too.
T0OutlastsSilence ==
    NothingHeard /\ Expired("slave", "t0") =>
        T0 <= T3 + W * T2 /\ (Running("master", "t2") \/ Expired("master", "t3"))

\* The link implements the pipe of AsduTransfer.
Transfer == INSTANCE AsduTransfer WITH
    End <- Station, Other <- [e \in Station |-> Peer(e)], Message <- Asdu, Limit <- K

\* ImplementsTransfer: every step of the link is a step of the pipe or none of
\* it: nothing is lost, doubled or reordered and at most K ASDUs travel.
ImplementsTransfer == Transfer!TransferSpec
=============================================================================
