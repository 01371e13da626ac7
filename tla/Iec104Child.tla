----------------------------- MODULE Iec104Child -----------------------------
(***************************************************************************)
(* The processes of one IEC 104 line: monitor.exe with the driver thread   *)
(* that starts, watches and restarts iec104master.exe                      *)
(* (iec104driverthread.cpp), the watchdog and the stop of the driver       *)
(* instance (iec104driver_instance.cpp), and the child's side: one         *)
(* instance per line, and an end when its keep-alive pipe breaks           *)
(* (main_master.cpp).                                                      *)
(*                                                                         *)
(* A child survives the death of monitor.exe.  Such an orphan keeps the    *)
(* line: every new child ends at once, until the new thread has connected  *)
(* to the orphan's pipe and closed it again.                               *)
(*                                                                         *)
(* Time is abstract: the periods of the thread (1 s, 2 s, 10 s) are steps  *)
(* in any order, and the one duration the code relies on, the 30 s it      *)
(* leaves an orphan to end, is the guard of StopWaiting.  Disconnect       *)
(* deletes the thread object while its thread may still run; the thread is *)
(* modelled as going on with what it had.                                  *)
(***************************************************************************)
EXTENDS Integers, FiniteSets

CONSTANTS
  Threads,    \* objects of Iec104DriverThread that can exist at a time
  Children,   \* process numbers, reused when nothing refers to them any more
  Exits,      \* bound: children that end by themselves
  Kills,      \* bound: watchdog kills
  Failures,   \* bound: CreateProcess that fail
  Crashes,    \* bound: deaths of monitor.exe
  Stops,      \* bound: stops of the driver
  EarlyStop   \* may the stop come before the thread has run line 71?

ASSUME ConstantsAssumption ==
  /\ Threads \cup Children \subseteq Nat \ {0} /\ IsFiniteSet(Threads) /\ IsFiniteSet(Children)
  /\ {Exits, Kills, Failures, Crashes, Stops} \subseteq Nat
  /\ EarlyStop \in BOOLEAN

VARIABLES
  thread,   \* per thread: pc, hProcess, h_pipe and fRequestHalt
  child,    \* state of each process
  broken,   \* the keep-alive pipe of the process has been closed by its client
  current,  \* the thread pConnect points to, or None
  ending,   \* the main thread is in the pause of EndProcess
  budget    \* faults still to come

vars == <<thread, child, broken, current, ending, budget>>

None == 0       \* no process, no thread: hProcess = 0, h_pipe = NULL
Invalid == -1   \* h_pipe = INVALID_HANDLE_VALUE

Alive(c) == child[c] \in {"starting", "serving"}

NoThread == [pc |-> "none", hProcess |-> None, h_pipe |-> None, halt |-> FALSE]

Init ==
  /\ thread = [t \in Threads |-> NoThread]
  /\ child = [c \in Children |-> "ended"]
  /\ broken = [c \in Children |-> FALSE]
  /\ current = None /\ ending = FALSE
  /\ budget = [exit |-> Exits, kill |-> Kills, fail |-> Failures,
               crash |-> Crashes, stop |-> Stops]

Spend(fault) == budget[fault] > 0 /\ budget' = [budget EXCEPT ![fault] = @ - 1]

-----------------------------------------------------------------------------
(* The driver thread *)

\* A process number nothing refers to any more.
Unused ==
  {c \in Children : ~Alive(c) /\ \A t \in Threads : c \notin {thread[t].hProcess, thread[t].h_pipe}}

NewChild == CHOOSE c \in Unused : TRUE

\* StartProcess forgets the old process first; CreateProcess may fail.
StartProcess(t, next) ==
  \/ /\ Unused # {}
     /\ child' = [child EXCEPT ![NewChild] = "starting"]
     /\ broken' = [broken EXCEPT ![NewChild] = FALSE]
     /\ thread' = [thread EXCEPT ![t].hProcess = NewChild, ![t].pc = next]
     /\ UNCHANGED <<current, ending, budget>>
  \/ /\ Spend("fail")
     /\ thread' = [thread EXCEPT ![t].hProcess = None, ![t].pc = next]
     /\ UNCHANGED <<child, broken, current, ending>>

FirstStart(t) == thread[t].pc = "start" /\ StartProcess(t, "started")

\* fRequestHalt = false, after the first start.
EnterLoop(t) ==
  /\ thread[t].pc = "started"
  /\ thread' = [thread EXCEPT ![t].halt = FALSE, ![t].pc = "loop"]
  /\ UNCHANGED <<child, broken, current, ending, budget>>

HaltSeen(t) ==
  /\ thread[t].pc = "loop" /\ thread[t].halt
  /\ thread' = [thread EXCEPT ![t].pc = "halted"]
  /\ UNCHANGED <<child, broken, current, ending, budget>>

\* h_pipe after pipe_put: CreateFile succeeds only when a child has its pipe open, and
\* the handle of a failure is kept.
PipeAfterPut(t) ==
  IF thread[t].h_pipe # None THEN {thread[t].h_pipe}
  ELSE LET servers == {c \in Children : child[c] = "serving"}
       IN IF servers = {} THEN {Invalid} ELSE servers

\* WriteFile succeeds while the process at the other end lives; the packet that opens the
\* pipe is lost, because the pipe has no message mode to be set.
Writable(pipe) == pipe \in Children /\ child[pipe] = "serving"

\* The packet of every 2 s; its result is not looked at.
KeepAlive(t) ==
  /\ thread[t].pc = "loop" /\ ~thread[t].halt
  /\ \E pipe \in PipeAfterPut(t) : thread' = [thread EXCEPT ![t].h_pipe = pipe]
  /\ UNCHANGED <<child, broken, current, ending, budget>>

\* The check of every 10 s finds that the process has ended.
ChildEnded(t) ==
  /\ thread[t].pc = "loop" /\ ~thread[t].halt
  /\ thread[t].hProcess # None /\ ~Alive(thread[t].hProcess)
  /\ thread' = [thread EXCEPT ![t].hProcess = None, ![t].pc = "ended"]
  /\ UNCHANGED <<child, broken, current, ending, budget>>

\* Mutant: without an orphan nothing is started in place of the child.
ProbeOnly(t) ==
  /\ thread[t].pc = "ended"
  /\ \E pipe \in PipeAfterPut(t) :
       /\ thread' = [thread EXCEPT ![t].h_pipe = None,
                                   ![t].pc = IF Writable(thread[t].h_pipe) THEN "wait" ELSE "loop"]
       /\ broken' = IF pipe \in Children THEN [broken EXCEPT ![pipe] = TRUE] ELSE broken
  /\ UNCHANGED <<child, current, ending, budget>>

\* Mutant: the pipe of an orphan is not closed.
ProbeKeepsPipe(t) ==
  /\ thread[t].pc = "ended"
  /\ \E pipe \in PipeAfterPut(t) :
       thread' = [thread EXCEPT ![t].h_pipe = pipe,
                                ![t].pc = IF Writable(thread[t].h_pipe) THEN "wait" ELSE "restart"]
  /\ UNCHANGED <<child, broken, current, ending, budget>>

\* The packet after the end of a child: if it can be written, an orphan listens.  Either
\* way the pipe is closed, which breaks it for a process that listens.
Probe(t) ==
  /\ thread[t].pc = "ended"
  /\ \E pipe \in PipeAfterPut(t) :
       /\ thread' = [thread EXCEPT ![t].h_pipe = None,
                                   ![t].pc = IF Writable(thread[t].h_pipe) THEN "wait" ELSE "restart"]
       /\ broken' = IF pipe \in Children THEN [broken EXCEPT ![pipe] = TRUE] ELSE broken
  /\ UNCHANGED <<child, current, ending, budget>>

\* 30 s are longer than a process takes to notice its broken pipe.
StopWaiting(t) ==
  /\ thread[t].pc = "wait"
  /\ \A c \in Children : ~(broken[c] /\ Alive(c))
  /\ thread' = [thread EXCEPT ![t].pc = "restart"]
  /\ UNCHANGED <<child, broken, current, ending, budget>>

Restart(t) == thread[t].pc = "restart" /\ StartProcess(t, "loop")

ThreadStep(t) ==
  \/ FirstStart(t) \/ EnterLoop(t) \/ HaltSeen(t) \/ ChildEnded(t)
  \/ Probe(t) \/ StopWaiting(t) \/ Restart(t)

-----------------------------------------------------------------------------
(* The child process *)

\* IsSingleInstance: a second process of the line ends; the first opens its pipe.
Instance(c) ==
  /\ child[c] = "starting"
  /\ child' = [child EXCEPT ![c] = IF \E d \in Children : child[d] = "serving"
                                   THEN "ended" ELSE "serving"]
  /\ UNCHANGED <<thread, broken, current, ending, budget>>

\* PipeWorker: GetOverlappedResult fails.
PipeBroken(c) ==
  /\ child[c] = "serving" /\ broken[c]
  /\ child' = [child EXCEPT ![c] = "ended"]
  /\ UNCHANGED <<thread, broken, current, ending, budget>>

\* The process ends by itself: a connection refused, a timer of the link.
Exit(c) ==
  /\ Alive(c) /\ Spend("exit")
  /\ child' = [child EXCEPT ![c] = "ended"]
  /\ UNCHANGED <<thread, broken, current, ending>>

ChildStep(c) == Instance(c) \/ PipeBroken(c)

-----------------------------------------------------------------------------
(* The main thread of monitor.exe *)

Connect(t) ==
  /\ current = None /\ thread[t].pc \in {"none", "halted"}
  /\ thread' = [thread EXCEPT ![t] = [NoThread EXCEPT !.pc = "start"]]
  /\ current' = t
  /\ UNCHANGED <<child, broken, ending, budget>>

Killed(c) == IF c = None THEN child ELSE [child EXCEPT ![c] = "ended"]

\* TerminateChild, 60 s without a message: the process that hProcess holds now.
TerminateChild ==
  /\ current # None /\ ~ending /\ Spend("kill")
  /\ child' = Killed(thread[current].hProcess)
  /\ UNCHANGED <<thread, broken, current, ending>>

\* EndProcess of Disconnect waits 100 ms when there is a process to end ...
BeginStop ==
  /\ current # None /\ ~ending /\ Spend("stop")
  /\ EarlyStop \/ thread[current].pc \notin {"start", "started"}
  /\ IF thread[current].hProcess # None
     THEN ending' = TRUE /\ UNCHANGED <<thread, current>>
     ELSE /\ thread' = [thread EXCEPT ![current].halt = TRUE]
          /\ current' = None /\ UNCHANGED ending
  /\ UNCHANGED <<child, broken>>

\* ... and ends what hProcess holds by then.
FinishStop ==
  /\ ending
  /\ child' = Killed(thread[current].hProcess)
  /\ thread' = [thread EXCEPT ![current].hProcess = None, ![current].halt = TRUE]
  /\ current' = None /\ ending' = FALSE
  /\ UNCHANGED <<broken, budget>>

\* monitor.exe dies: its threads end, its pipes break, its children live on.
MonitorDies ==
  /\ Spend("crash")
  /\ broken' = [c \in Children |-> broken[c] \/ \E t \in Threads : thread[t].h_pipe = c]
  /\ thread' = [t \in Threads |-> NoThread]
  /\ current' = None /\ ending' = FALSE
  /\ UNCHANGED child

Next ==
  \/ \E t \in Threads : ThreadStep(t) \/ KeepAlive(t) \/ Connect(t)
  \/ \E c \in Children : ChildStep(c) \/ Exit(c)
  \/ TerminateChild \/ BeginStop \/ FinishStop \/ MonitorDies

\* Threads and processes run.
Fairness ==
  /\ \A t \in Threads : WF_vars(ThreadStep(t)) /\ WF_vars(KeepAlive(t))
  /\ \A c \in Children : WF_vars(ChildStep(c))
  /\ WF_vars(FinishStop)

Spec == Init /\ [][Next]_vars /\ Fairness

-----------------------------------------------------------------------------
(* Properties *)

\* The variables keep their types, and only the driver that pConnect points to is stopped.
TypeOK ==
  /\ thread \in [Threads -> [pc : {"none", "start", "started", "loop", "ended", "wait",
                                   "restart", "halted"},
                             hProcess : Children \cup {None},
                             h_pipe : Children \cup {None, Invalid},
                             halt : BOOLEAN]]
  /\ child \in [Children -> {"starting", "serving", "ended"}]
  /\ broken \in [Children -> BOOLEAN]
  /\ current \in Threads \cup {None} /\ ending \in BOOLEAN /\ (ending => current # None)
  /\ budget \in [exit : Nat, kill : Nat, fail : 0..Failures, crash : Nat, stop : Nat]

\* The thread holds the process that serves the line.
Served ==
  current # None /\ \E c \in Children : child[c] = "serving" /\ thread[current].hProcess = c

\* The thread holds no process and will not start one.
GaveUp ==
  current # None /\ thread[current].pc = "loop" /\ thread[current].hProcess = None

\* Whatever processes have ended, been killed or survived monitor.exe, a driver that is
\* not stopped gets its line back under its own child, unless a process could not be
\* created.
LineRecovers == <>[](current = None \/ Served \/ GaveUp)

\* Only a process that could not be created makes the thread give up: no order of ends,
\* kills and stops makes it forget a child.
GivesUpOnlyOnFailure == GaveUp => budget.fail < Failures

\* Once a stop is complete no child of the driver is left (iec104driverthread.cpp:283).
StopEndsChildren ==
  current = None /\ budget.crash = Crashes
      /\ (\A t \in Threads : thread[t].pc \in {"none", "halted"})
    => \A c \in Children : ~Alive(c)
=============================================================================
