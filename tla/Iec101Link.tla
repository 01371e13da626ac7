----------------------------- MODULE Iec101Link -----------------------------
(***************************************************************************)
(* The unbalanced link of IEC 60870-5-101 over a serial line: the loop of  *)
(* the master (iec101/protocol/link_unbalance_master.c) and the one of the *)
(* slave (link_unbalance_slave.c).  The master polls; the slave speaks     *)
(* only when it is asked.  ASDUs of the slave carry values of two classes, *)
(* those of the master commands; both are numbered.                        *)
(*                                                                         *)
(* A frame arrives whole, garbled ("bad": checksum or start octet wrong)   *)
(* or not at all, in order.  A read gives all the octets there are: of     *)
(* several frames the first is decoded and the others go with it.  Frames  *)
(* carry the address of this slave.  The master toggles the frame count    *)
(* bit and the slave never looks at it, and it answers both classes of     *)
(* request alike, so that neither is here.  The two counters of reads of   *)
(* the slave (Trpcount against TrpMax and TrpMax*MULTIPLIER) depend on the *)
(* polling times and are a choice here.                                    *)
(***************************************************************************)
EXTENDS Naturals, Sequences

CONSTANTS
  TrpMax,     \* repetitions of a frame (3 in InitLink)
  Values,     \* bound: values the slave makes of each class
  Commands,   \* bound: commands of the master
  Faults,     \* bound: frames lost or garbled, links the slave gives up
  Lates       \* bound: frames that come after the read that waits for them

ASSUME BoundsAssumption == {TrpMax, Values, Commands, Faults, Lates} \subseteq Nat

Class == {"high", "spont"}

VARIABLES
  m_state,     \* link_state of the master
  waiting,     \* it has sent its frame and is in RxOneFrame
  Trpcount,    \* of the master
  txbuffer,    \* its frame
  write_q,     \* its commands
  commands,    \* commands it has taken
  confirmed,   \* history: the last command it has taken a confirmation for
  got,         \* history: by class, the values it has passed on
  s_state,     \* link_state of the slave
  ACD,         \* of the slave
  queue,       \* by class: high_priority_q and spontaneous_q
  made,        \* by class: values made
  rxbuffer,    \* the command it has to process
  taken,       \* history: the last command it has received
  executed,    \* history: the last command passed on to the field, and how often
  m2s, s2m,    \* frames on the line
  budget

master == <<m_state, waiting, Trpcount, txbuffer, write_q, commands, confirmed, got>>
slave == <<s_state, ACD, queue, made, rxbuffer, taken, executed>>
vars == <<master, slave, m2s, s2m, budget>>

Frame(func, n) == [func |-> func, class |-> "none", n |-> n]
Short(func) == Frame(func, 0)
Data(class, n) == [func |-> "data", class |-> class, n |-> n]

Init ==
  /\ m_state = "LINKRESET" /\ waiting = FALSE /\ Trpcount = 0 /\ txbuffer = Short("none")
  /\ write_q = <<>> /\ commands = 0 /\ confirmed = 0 /\ got = [c \in Class |-> <<>>]
  /\ s_state = "WAITREQSTATUS" /\ ACD = FALSE /\ queue = [c \in Class |-> <<>>]
  /\ made = [c \in Class |-> 0] /\ rxbuffer = 0 /\ taken = 0
  /\ executed = [n |-> 0, times |-> 0]
  /\ m2s = <<>> /\ s2m = <<>>
  /\ budget = [fault |-> Faults, late |-> Lates]

Spend(what) == budget[what] > 0 /\ budget' = [budget EXCEPT ![what] = @ - 1]

\* Everything a read may leave on the line after the first frame.
Rest(line) == {SubSeq(line, k, Len(line)) : k \in 2..(Len(line) + 1)}

-----------------------------------------------------------------------------
(* The line *)

Lose ==
  /\ Spend("fault")
  /\ \/ m2s # <<>> /\ m2s' = Tail(m2s) /\ UNCHANGED s2m
     \/ s2m # <<>> /\ s2m' = Tail(s2m) /\ UNCHANGED m2s
  /\ UNCHANGED <<master, slave>>

Garble ==
  /\ Spend("fault")
  /\ \/ m2s # <<>> /\ m2s' = [m2s EXCEPT ![1] = Short("bad")] /\ UNCHANGED s2m
     \/ s2m # <<>> /\ s2m' = [s2m EXCEPT ![1] = Short("bad")] /\ UNCHANGED m2s
  /\ UNCHANGED <<master, slave>>

-----------------------------------------------------------------------------
(* The master *)

Connected == m_state \in {"SLAVELINKAVAIL", "EXREQRES", "SENDCON"}

\* Mutant: the youngest command is sent first.
CommandFirst ==
  /\ ~waiting /\ Connected /\ commands < Commands
  /\ commands' = commands + 1
  /\ write_q' = <<commands + 1>> \o write_q
  /\ UNCHANGED <<m_state, waiting, Trpcount, txbuffer, confirmed, got, slave, m2s, s2m, budget>>

\* send_items and iec101_run_send_queues, between two turns of State_process: a command
\* is not buffered when the link is down.
Command ==
  /\ ~waiting /\ Connected /\ commands < Commands
  /\ commands' = commands + 1
  /\ write_q' = Append(write_q, commands + 1)
  /\ UNCHANGED <<m_state, waiting, Trpcount, txbuffer, confirmed, got, slave, m2s, s2m, budget>>

WaitForReq ==
  /\ m_state = "LINKRESET" /\ m_state' = "WAITFORREQ"
  /\ UNCHANGED <<waiting, Trpcount, txbuffer, write_q, commands, confirmed, got, slave,
                 m2s, s2m, budget>>

ReqLink ==
  /\ m_state = "WAITFORREQ" /\ m_state' = "EXREQLINK" /\ Trpcount' = 0
  /\ txbuffer' = Short("status")
  /\ UNCHANGED <<waiting, write_q, commands, confirmed, got, slave, m2s, s2m, budget>>

\* Mutant: the command stays in the queue.
SlaveLinkAvailKeeps ==
  /\ m_state = "SLAVELINKAVAIL" /\ Trpcount' = 0
  /\ IF write_q # <<>> THEN txbuffer' = Frame("user", Head(write_q)) /\ m_state' = "SENDCON"
     ELSE txbuffer' = Short("request") /\ m_state' = "EXREQRES"
  /\ UNCHANGED <<waiting, write_q, commands, confirmed, got, slave, m2s, s2m, budget>>

\* STAM_SLAVELINKAVAIL_moveto: a command goes before the next poll.
SlaveLinkAvail ==
  /\ m_state = "SLAVELINKAVAIL" /\ Trpcount' = 0
  /\ \/ /\ write_q # <<>> /\ write_q' = Tail(write_q)
        /\ txbuffer' = Frame("user", Head(write_q)) /\ m_state' = "SENDCON"
     \/ /\ write_q = <<>> /\ UNCHANGED write_q
        /\ txbuffer' = Short("request") /\ m_state' = "EXREQRES"
  /\ UNCHANGED <<waiting, commands, confirmed, got, slave, m2s, s2m, budget>>

\* TxOneFrame, again in every turn of the state.
TxOneFrame ==
  /\ m_state \in {"EXREQLINK", "EXRESETLINK", "EXREQRES", "SENDCON"} /\ ~waiting
  /\ m2s' = Append(m2s, txbuffer) /\ waiting' = TRUE
  /\ Trpcount' = Trpcount + 1
  /\ UNCHANGED <<m_state, txbuffer, write_q, commands, confirmed, got, slave, s2m, budget>>

\* The state after a read of nothing.
AfterSilence ==
  IF m_state \in {"EXREQLINK", "EXRESETLINK"} \/ Trpcount > TrpMax THEN "WAITFORREQ"
  ELSE m_state

\* The state after a frame.
After(func) ==
  CASE m_state \in {"EXREQLINK", "EXRESETLINK"} /\ Trpcount > TrpMax -> "WAITFORREQ"
    [] m_state = "EXREQLINK" /\ func = "status" -> "EXRESETLINK"
    [] m_state = "EXRESETLINK" /\ func = "ack" -> "SLAVELINKAVAIL"
    [] m_state = "EXREQRES" /\ func \in {"data", "nodata"} -> "SLAVELINKAVAIL"
    [] m_state = "SENDCON" /\ func = "ack" -> "SLAVELINKAVAIL"
    [] func = "bad" -> IF Trpcount > TrpMax THEN "WAITFORREQ" ELSE m_state
    [] OTHER -> m_state

Moves(state) ==
  /\ m_state' = state
  /\ IF state = "EXRESETLINK" /\ m_state = "EXREQLINK"
     THEN Trpcount' = 0 /\ txbuffer' = Short("reset")
     ELSE UNCHANGED <<Trpcount, txbuffer>>

MasterReads ==
  /\ waiting /\ waiting' = FALSE /\ s2m # <<>>
  /\ s2m' \in Rest(s2m)
  /\ LET f == Head(s2m)
     IN /\ Moves(After(f.func))
        /\ got' = IF m_state = "EXREQRES" /\ f.func = "data"
                   THEN [got EXCEPT ![f.class] = Append(@, f.n)] ELSE got
        /\ confirmed' = IF m_state = "SENDCON" /\ f.func = "ack"
                        THEN txbuffer.n ELSE confirmed
  /\ UNCHANGED <<write_q, commands, slave, m2s, budget>>

\* An answer is on its way.
Coming == s2m # <<>> \/ m2s # <<>> \/ s_state = "MASTERLINKAVAIL"

MasterReadsNothing ==
  /\ waiting /\ waiting' = FALSE
  /\ IF Coming THEN Spend("late") ELSE UNCHANGED budget
  /\ Moves(AfterSilence)
  /\ UNCHANGED <<write_q, commands, confirmed, got, slave, m2s, s2m>>

-----------------------------------------------------------------------------
(* The slave *)

\* send_items, between two turns of State_process.
MakeValue(c) ==
  /\ made[c] < Values
  /\ made' = [made EXCEPT ![c] = @ + 1]
  /\ queue' = [queue EXCEPT ![c] = Append(@, made[c] + 1)]
  /\ UNCHANGED <<s_state, ACD, rxbuffer, taken, executed, master, m2s, s2m, budget>>

\* Mutant: waiting data is never announced.
AnswersPlainly(f, state, acd) == s2m' = Append(s2m, f) /\ s_state' = state /\ ACD' = FALSE

Answers(f, state, acd) == s2m' = Append(s2m, f) /\ s_state' = state /\ ACD' = acd

\* Mutant: a command is confirmed and not taken.
ConfirmsCommand(f) ==
  /\ Answers(Short("ack"), "EXREQRES", ACD)
  /\ UNCHANGED <<rxbuffer, taken>>

TakesCommand(f) ==
  /\ Answers(Short("ack"), "PROCESS_INCOMING_DATA", ACD)
  /\ rxbuffer' = f.n /\ taken' = f.n

\* What the slave makes of a frame, by its state: what is not named here is ignored.
Handles(f) ==
  \/ /\ f.func = "status"
     /\ Answers(Short("status"), "STATUSOFLINK", FALSE)
     /\ UNCHANGED <<rxbuffer, taken>>
  \/ /\ f.func = "reset" /\ s_state = "STATUSOFLINK"
     /\ Answers(Short("ack"), "POSITIVEACK", TRUE)
     /\ UNCHANGED <<rxbuffer, taken>>
  \/ /\ f.func = "request" /\ s_state \in {"POSITIVEACK", "EXREQRES"}
     /\ s_state' = "MASTERLINKAVAIL"
     /\ UNCHANGED <<s2m, ACD, rxbuffer, taken>>
  \/ f.func = "user" /\ s_state = "EXREQRES" /\ TakesCommand(f)

Known(func) ==
  CASE s_state = "WAITREQSTATUS" -> func = "status"
    [] s_state = "STATUSOFLINK"  -> func \in {"status", "reset"}
    [] s_state = "POSITIVEACK"   -> func \in {"status", "request"}
    [] s_state = "EXREQRES"      -> func \in {"status", "request", "user"}
    [] OTHER                     -> FALSE

Reading == {"WAITREQSTATUS", "STATUSOFLINK", "POSITIVEACK", "EXREQRES"}

\* A garbled frame may be one too many for STAM_EXREQRES_moveto.
SlaveReads ==
  /\ s_state \in Reading /\ m2s # <<>>
  /\ m2s' \in Rest(m2s)
  /\ LET f == Head(m2s)
     IN \/ Known(f.func) /\ Handles(f)
        \/ /\ ~Known(f.func)
           /\ s_state' \in {s_state} \cup
                (IF s_state = "EXREQRES" /\ f.func = "bad" THEN {"WAITREQSTATUS"} ELSE {})
           /\ UNCHANGED <<s2m, ACD, rxbuffer, taken>>
  /\ UNCHANGED <<queue, made, executed, master, budget>>

\* Too many reads of nothing.
SlaveGivesUp ==
  /\ s_state = "EXREQRES" /\ m2s = <<>> /\ Spend("fault")
  /\ s_state' = "WAITREQSTATUS"
  /\ UNCHANGED <<ACD, queue, made, rxbuffer, taken, executed, master, m2s, s2m>>

\* Mutant: what is sent stays in the queue.
ServeAgain(c, acd) ==
  UNCHANGED queue /\ Answers(Data(c, Head(queue[c])), "EXREQRES", acd)

Serve(c, acd) ==
  /\ queue' = [queue EXCEPT ![c] = Tail(@)]
  /\ Answers(Data(c, Head(queue[c])), "EXREQRES", acd)

\* STAM_MASTERLINKAVAIL_moveto: data of the first class is announced first.  A buffer that
\* has been sent is not given back to v_iec_buf.
MasterLinkAvail ==
  /\ s_state = "MASTERLINKAVAIL"
  /\ \/ queue["high"] # <<>> /\ ACD /\ Serve("high", TRUE)
     \/ queue["high"] # <<>> /\ ~ACD
        /\ Answers(Short("nodata"), "EXREQRES", TRUE) /\ UNCHANGED queue
     \/ queue["high"] = <<>> /\ queue["spont"] # <<>> /\ Serve("spont", FALSE)
     \/ queue["high"] = <<>> /\ queue["spont"] = <<>>
        /\ Answers(Short("nodata"), "EXREQRES", FALSE) /\ UNCHANGED queue
  /\ UNCHANGED <<made, rxbuffer, taken, executed, master, m2s, budget>>

ProcessIncomingData ==
  /\ s_state = "PROCESS_INCOMING_DATA" /\ s_state' = "EXREQRES"
  /\ executed' = IF executed.n = rxbuffer THEN [executed EXCEPT !.times = @ + 1]
                 ELSE [n |-> rxbuffer, times |-> 1]
  /\ rxbuffer' = 0
  /\ UNCHANGED <<ACD, queue, made, taken, master, m2s, s2m, budget>>

-----------------------------------------------------------------------------
MasterStep ==
  WaitForReq \/ ReqLink \/ SlaveLinkAvail \/ TxOneFrame \/ MasterReads
  \/ (~Coming /\ MasterReadsNothing)

SlaveStep == SlaveReads \/ MasterLinkAvail \/ ProcessIncomingData

Next ==
  \/ Command \/ WaitForReq \/ ReqLink \/ SlaveLinkAvail \/ TxOneFrame \/ MasterReads
  \/ MasterReadsNothing
  \/ (\E c \in Class : MakeValue(c)) \/ SlaveReads \/ SlaveGivesUp \/ MasterLinkAvail
  \/ ProcessIncomingData
  \/ Lose \/ Garble

\* Both loops turn.
Spec == Init /\ [][Next]_vars /\ WF_vars(MasterStep) /\ WF_vars(SlaveStep)

-----------------------------------------------------------------------------
(* Properties *)

\* The variables keep their types; each side sends only the frames of its part.
TypeOK ==
  /\ m_state \in {"LINKRESET", "WAITFORREQ", "EXREQLINK", "EXRESETLINK", "SLAVELINKAVAIL",
                  "EXREQRES", "SENDCON"}
  /\ s_state \in Reading \cup {"MASTERLINKAVAIL", "PROCESS_INCOMING_DATA"}
  /\ waiting \in BOOLEAN /\ ACD \in BOOLEAN
  /\ {Trpcount, commands, confirmed, rxbuffer, taken} \subseteq Nat
  /\ \A i \in 1..Len(m2s) : m2s[i].func \in {"status", "reset", "request", "user", "bad"}
  /\ \A i \in 1..Len(s2m) : s2m[i].func \in {"status", "ack", "nodata", "data", "bad"}

\* A value reaches the control centre at most once and not after a younger one of its
\* class, whatever is lost, garbled or late.
Transfer == INSTANCE LossyTransfer
ImplementsTransfer == Transfer!Spec

\* Commands are not reordered (link_unbalance_master.c:304-357).
CommandsInOrder == [][executed'.n >= executed.n]_vars

\* A command is passed on to the field once for each time it is sent: the slave knows no
\* repetition.  TrpMax bounds them as long as no answer is late; each late one may be
\* taken for the answer of the next frame, which is then sent once more.
RepeatsBounded == executed.times <= TrpMax + 1 + (Lates - budget.late)

\* What the master takes for confirmed has reached the slave, if no answer is late.
ConfirmedIsTaken == budget.late = Lates => confirmed <= taken

\* When the line works again the link comes back and everything queued is sent.
Drained ==
  <>[](write_q = <<>> /\ \A c \in Class : queue[c] = <<>>) /\ []<>(m_state = "SLAVELINKAVAIL")

\* On a line without a fault the link is kept once it is there.
LinkKept == [][Connected => m_state' # "WAITFORREQ"]_vars
=============================================================================
