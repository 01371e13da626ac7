------------------------- MODULE Iec104Interrogation -------------------------
(***************************************************************************)
(* How a general interrogation (GI) travels: the driver instance in        *)
(* monitor.exe asks for one when its line comes back, iec104master.exe     *)
(* sends it on the link, iec104slave.exe passes it to the field and the    *)
(* answers come back through the queues of the slave and the FIFO of the   *)
(* instance.  It is what brings the values shown up to date after a        *)
(* failure, so the field is a single point whose value changes.            *)
(*                                                                         *)
(* The link is what AsduTransfer promises: it loses ASDUs only with the    *)
(* session.  Both station processes end with the session; the field does   *)
(* not notice.  The publications of the middleware are reliable here       *)
(* unless the process that should take them is dead.                       *)
(*                                                                         *)
(* The field answers one request after the other: confirmation, values,    *)
(* termination.  Negative answers are left out.                            *)
(***************************************************************************)
EXTENDS Naturals, Sequences, SequencesExt

CONSTANTS
  Changes,   \* bound: changes of the value in the field
  Faults     \* bound: sessions lost or ended by the watchdog of the instance,
             \* confirmations not waited for and C_RP_NA_1 of the field

ASSUME BudgetAssumption == {Changes, Faults} \subseteq Nat

VARIABLES
  State,      \* of the driver instance
  inbox,      \* its fifo_monitor_direction, with what the middleware holds
  shown,      \* the value it has posted last
  killing,    \* the instance is in the pause of TerminateChild
  killed,     \* history: it has ended a session
  proc,       \* the master process: "dead", "connecting" or "up"
  control,    \* C_IC_NA_1 in its fifo_control_direction
  gi,         \* its state_general_interrogation
  down,       \* activations on their way to the slave
  slaveGI,    \* state_general_interrogation of the slave
  loading,    \* its state_database is LOAD_DATABASE
  events,     \* its fifo_monitor_direction
  high,       \* its high_priority_q
  spont,      \* its spontaneous_q
  up,         \* ASDUs on their way to the master
  value,      \* of the point in the field
  requests,   \* GI requests the field has been given
  run,        \* what the field has still to answer to the present one
  runs,       \* history: interrogations the field has begun
  ended,      \* history: those whose termination it has taken in this session
  budget

instance == <<State, inbox, shown, killing, killed>>
master == <<proc, control, gi, ended>>
slave == <<slaveGI, loading, events, high, spont>>
field == <<value, requests, run, runs>>
vars == <<instance, master, down, slave, up, field, budget>>

Item(kind) == [kind |-> kind, v |-> 0, run |-> 0]
Value(v, r) == [kind |-> "value", v |-> v, run |-> r]

Init ==
  /\ State = "AFTER_RESET" /\ inbox = <<>> /\ shown = 0 /\ killing = FALSE /\ killed = FALSE
  /\ proc = "dead" /\ control = 0 /\ gi = "IDLE" /\ ended = {}
  /\ slaveGI = "IDLE" /\ loading = FALSE /\ events = <<>> /\ high = <<>> /\ spont = <<>>
  /\ down = 0 /\ up = <<>>
  /\ value = 1 /\ requests = 0 /\ run = "none" /\ runs = 0
  /\ budget = [change |-> Changes, fault |-> Faults]

Spend(what) == budget[what] > 0 /\ budget' = [budget EXCEPT ![what] = @ - 1]

-----------------------------------------------------------------------------
(* The field *)

Sends(item) == events' = Append(events, item)

FieldConfirms ==
  /\ run = "none" /\ requests > 0
  /\ requests' = requests - 1 /\ run' = "values" /\ runs' = runs + 1
  /\ Sends(Item("confirmation"))
  /\ UNCHANGED <<instance, master, down, slaveGI, loading, high, spont, up, value, budget>>

FieldReports ==
  /\ run = "values" /\ run' = "termination"
  /\ Sends(Value(value, runs))
  /\ UNCHANGED <<instance, master, down, slaveGI, loading, high, spont, up, value,
                 requests, runs, budget>>

FieldTerminates ==
  /\ run = "termination" /\ run' = "none"
  /\ Sends([Item("termination") EXCEPT !.run = runs])
  /\ UNCHANGED <<instance, master, down, slaveGI, loading, high, spont, up, value,
                 requests, runs, budget>>

\* A spontaneous event.
Change ==
  /\ Spend("change")
  /\ value' = value + 1
  /\ Sends(Value(value', 0))
  /\ UNCHANGED <<instance, master, down, slaveGI, loading, high, spont, up, requests,
                 run, runs>>

\* Any other message of the field, when the line has been quiet.
Beat ==
  /\ events \o spont \o up \o inbox = <<>> /\ run = "none"
  /\ Sends(Item("other"))
  /\ UNCHANGED <<instance, master, down, slaveGI, loading, high, spont, up, field, budget>>

\* C_RP_NA_1: the slave shall say that it is initialised.
Reset ==
  /\ Spend("fault")
  /\ Sends(Item("reset"))
  /\ UNCHANGED <<instance, master, down, slaveGI, loading, high, spont, up, field>>

-----------------------------------------------------------------------------
(* The slave *)

SlaveReceives ==
  /\ down > 0 /\ down' = down - 1
  /\ slaveGI' = "REQUEST"
  /\ UNCHANGED <<instance, master, loading, events, high, spont, up, field, budget>>

\* Mutant: the termination goes with the confirmation.
BothHighPriority == {"confirmation", "termination"}

\* send_items: where an item of the field goes.  The confirmation overtakes, so that it
\* is in time; the termination follows the values.
HighPriority == {"confirmation"}
InOrder == {"value", "other", "termination"}

\* The items of some kinds, in their order.
Places(q, kinds) == {i \in 1..Len(q) : q[i].kind \in kinds}
Upto(q, kinds, i) == {j \in Places(q, kinds) : j <= i}
Chosen(q, kinds) ==
  [k \in 1..Cardinality(Places(q, kinds)) |->
     q[CHOOSE i \in Places(q, kinds) : Cardinality(Upto(q, kinds, i)) = k]]

\* LOAD_DATABASE: the slave says that it is initialised.
EndOfInit == IF loading THEN <<Item("initialised")>> ELSE <<>>

\* The interrogation has been passed on to the field.
GIRequested == IF slaveGI = "REQUEST" THEN "DONE" ELSE slaveGI

\* process_timer_send_frame: database, then interrogation, then the items of the field.
\* All that are there are taken (the code takes 100 in a turn), and each is an ASDU (the
\* code puts neighbours of one type and cause into one).
SlaveTick ==
  /\ proc = "up"
  /\ slaveGI' = IF Places(events, {"confirmation", "termination"}) # {} THEN "IDLE" ELSE GIRequested
  /\ requests' = IF slaveGI = "REQUEST" THEN requests + 1 ELSE requests
  /\ high' = high \o EndOfInit \o Chosen(events, HighPriority)
  /\ spont' = spont \o Chosen(events, InOrder)
  /\ loading' = Contains(events, Item("reset"))
  /\ events' = <<>>
  /\ UNCHANGED <<instance, master, down, up, value, run, runs, budget>>

\* iecsock_run_send_queues: the spontaneous queue waits for the other one.
Transmit ==
  /\ \/ high # <<>> /\ up' = Append(up, Head(high)) /\ high' = Tail(high) /\ UNCHANGED spont
     \/ high = <<>> /\ spont # <<>>
        /\ up' = Append(up, Head(spont)) /\ spont' = Tail(spont) /\ UNCHANGED high
  /\ UNCHANGED <<instance, master, down, slaveGI, loading, events, field, budget>>

-----------------------------------------------------------------------------
(* The master *)

\* process_data_received_hook, whatever the state of the interrogation.
MasterReceives ==
  /\ up # <<>> /\ up' = Tail(up)
  /\ LET item == Head(up)
     IN /\ gi' = CASE item.kind = "confirmation" -> "CONFIRMATION"
                   [] item.kind = "termination"  -> "TERMINATION"
                   [] item.kind = "initialised"  -> "ACTIVATION"
                   [] OTHER                      -> gi
        /\ down' = IF item.kind = "initialised" THEN down + 1 ELSE down
        /\ inbox' = IF item.kind \in {"value", "other"} THEN Append(inbox, item) ELSE inbox
        /\ ended' = IF item.kind = "termination" THEN ended \cup {item.run} ELSE ended
  /\ UNCHANGED <<State, shown, killing, killed, proc, control, slave, field, budget>>

\* Mutant: a termination waits for another one.
GIStepAgain ==
  CASE gi = "ACTIVATION" -> "WAIT_FOR_CONFIRMATION"
    [] gi \in {"CONFIRMATION", "TERMINATION"} -> "WAIT_FOR_TERMINATION"
    [] OTHER -> gi

\* The timer's step of the interrogation; only the confirmation has a time limit.
GIStep ==
  CASE gi = "ACTIVATION"   -> "WAIT_FOR_CONFIRMATION"
    [] gi = "CONFIRMATION" -> "WAIT_FOR_TERMINATION"
    [] gi = "TERMINATION"  -> "IDLE"
    [] OTHER               -> gi

\* Of the requests of the instance the first is sent if no interrogation is going on;
\* the others are dropped.
MasterTickFrom(state) ==
  /\ proc = "up"
  /\ LET sends == control > 0 /\ state = "IDLE"
     IN /\ gi' = IF sends THEN "ACTIVATION" ELSE state
        /\ down' = IF sends THEN down + 1 ELSE down
  /\ control' = 0
  /\ UNCHANGED <<instance, proc, ended, slave, up, field>>

MasterTick == MasterTickFrom(GIStep) /\ UNCHANGED budget

NoConfirmation ==
  gi = "WAIT_FOR_CONFIRMATION" /\ Spend("fault") /\ MasterTickFrom("IDLE")

StartMaster ==
  /\ proc = "dead" /\ proc' = "connecting"
  /\ UNCHANGED <<instance, control, gi, ended, down, slave, up, field, budget>>

Connect ==
  /\ proc = "connecting" /\ proc' = "up"
  /\ IF killing THEN Spend("fault") ELSE UNCHANGED budget
  /\ UNCHANGED <<instance, control, gi, ended, down, slave, up, field>>

\* The station refuses, or the watchdog kills a process that waits for it.
EndProcess ==
  /\ proc # "up" /\ proc' = "dead" /\ control' = 0
  /\ UNCHANGED <<gi, ended, down, slave, up>>

ConnectFails == proc = "connecting" /\ EndProcess /\ UNCHANGED <<instance, field, budget>>

\* Both processes of a session end with it and forget everything.
EndSession ==
  /\ proc' = "dead" /\ control' = 0 /\ gi' = "IDLE" /\ ended' = {}
  /\ slaveGI' = "IDLE" /\ loading' = FALSE /\ events' = <<>> /\ high' = <<>> /\ spont' = <<>>
  /\ down' = 0 /\ up' = <<>>

\* disconnect_hook: C_LO_ST_1 is the last message of the process.
LinkLost ==
  /\ proc = "up" /\ Spend("fault")
  /\ inbox' = Append(inbox, Item("lost"))
  /\ EndSession
  /\ UNCHANGED <<State, shown, killing, killed, field>>

-----------------------------------------------------------------------------
(* The driver instance *)

\* Mutant: a driver that hears its line again runs on without asking.
RunsOn(state, item) ==
  IF item.kind = "lost" THEN "FAIL"
  ELSE IF state = "AFTER_RESET" THEN "ASK_GENERAL_INTERROGATION"
  ELSE IF state = "FAIL" THEN "RUNNING"
  ELSE state

\* get_items_from_local_fifo: what one message makes of the state.
AfterItem(state, item) ==
  IF item.kind = "lost" THEN "FAIL"
  ELSE IF state \in {"FAIL", "AFTER_RESET"} THEN "ASK_GENERAL_INTERROGATION"
  ELSE state

ValueShown(v, item) == IF item.kind = "value" THEN item.v ELSE v

Reading == {"AFTER_RESET", "FAIL", "RUNNING"}

GetItems ==
  /\ State \in Reading /\ ~killing
  /\ State' = FoldLeft(AfterItem, State, inbox)
  /\ shown' = FoldLeft(ValueShown, shown, inbox)
  /\ inbox' = <<>>
  /\ UNCHANGED <<killing, killed, master, down, slave, up, field, budget>>

\* check_for_commands of a running process; nobody else takes the publication.
AskGI ==
  /\ State = "ASK_GENERAL_INTERROGATION" /\ State' = "GENERAL_INTERROGATION_DONE"
  /\ control' = IF proc # "dead" THEN control + 1 ELSE control
  /\ UNCHANGED <<inbox, shown, killing, killed, proc, gi, ended, down, slave, up,
                 field, budget>>

GIAsked ==
  /\ State = "GENERAL_INTERROGATION_DONE" /\ State' = "RUNNING"
  /\ UNCHANGED <<inbox, shown, killing, killed, master, down, slave, up, field, budget>>

\* Mutant: the watchdog looks at connected lines only.
SilenceConnected ==
  /\ State \in Reading /\ inbox = <<>> /\ ~killing /\ proc = "up"
  /\ State' = "FAIL" /\ killing' = TRUE
  /\ Spend("fault")
  /\ UNCHANGED <<inbox, shown, killed, master, down, slave, up, field>>

\* 60 s without a message: the instance fails and ends the process (TerminateChild), which
\* takes it 100 ms.
Silence ==
  /\ State \in Reading /\ inbox = <<>> /\ ~killing
  /\ State' = "FAIL" /\ killing' = TRUE
  /\ IF proc = "up" THEN Spend("fault") ELSE UNCHANGED budget
  /\ UNCHANGED <<inbox, shown, killed, master, down, slave, up, field>>

TerminateChild ==
  /\ killing /\ killing' = FALSE /\ killed' = (killed \/ proc = "up")
  /\ EndProcess \/ (proc = "up" /\ EndSession)
  /\ UNCHANGED <<State, inbox, shown, field, budget>>

InstanceTick == GetItems \/ AskGI \/ GIAsked

FieldStep == FieldConfirms \/ FieldReports \/ FieldTerminates \/ Beat
SlaveStep == SlaveReceives \/ SlaveTick \/ Transmit
MasterStep == MasterReceives \/ MasterTick \/ StartMaster

Next ==
  \/ FieldStep \/ Change \/ Reset
  \/ SlaveStep
  \/ MasterStep \/ NoConfirmation \/ Connect \/ ConnectFails \/ LinkLost
  \/ InstanceTick \/ Silence \/ TerminateChild

\* Every process runs and the field answers; nothing makes the station reachable.
Fairness ==
  /\ WF_vars(FieldConfirms) /\ WF_vars(FieldReports) /\ WF_vars(FieldTerminates)
  /\ WF_vars(Beat)
  /\ WF_vars(SlaveReceives) /\ WF_vars(SlaveTick) /\ WF_vars(Transmit)
  /\ WF_vars(MasterReceives) /\ WF_vars(MasterTick)
  /\ WF_vars(StartMaster)
  /\ WF_vars(InstanceTick) /\ WF_vars(proc # "up" /\ Silence) /\ WF_vars(TerminateChild)

Spec == Init /\ [][Next]_vars /\ Fairness

-----------------------------------------------------------------------------
(* Properties *)

\* The variables keep their types.
TypeOK ==
  /\ State \in Reading \cup {"ASK_GENERAL_INTERROGATION", "GENERAL_INTERROGATION_DONE"}
  /\ proc \in {"dead", "connecting", "up"}
  /\ gi \in {"IDLE", "ACTIVATION", "WAIT_FOR_CONFIRMATION", "CONFIRMATION",
             "WAIT_FOR_TERMINATION", "TERMINATION"}
  /\ slaveGI \in {"IDLE", "REQUEST", "DONE"}
  /\ run \in {"none", "values", "termination"}
  /\ {killing, killed} \subseteq BOOLEAN
  /\ {control, down, shown, value, requests, runs} \subseteq Nat

\* The termination of an interrogation does not overtake its values: what the master has
\* taken the termination of is no longer in any queue (asdu.c:10289).
TerminationIsLast ==
  \A r \in ended : \A q \in {events, high, spont, up} :
    \A i \in 1..Len(q) : ~(q[i].kind = "value" /\ q[i].run = r)

\* No interrogation of the master stays open, whatever requests of the operator, of the
\* instance and of the slave's initialisation overlap, even if nothing times out.
InterrogationEnds == gi # "IDLE" ~> gi = "IDLE"

\* In a session that lasts, the value shown becomes and stays the value of the field:
\* what was lost with earlier sessions is asked for again.
Refreshed == <>[](proc = "up") /\ []~killed => <>[](shown = value)

\* When the line stays down the driver shows its failure for good.
FailureShown == <>[](proc # "up") => <>[](State = "FAIL")
=============================================================================
