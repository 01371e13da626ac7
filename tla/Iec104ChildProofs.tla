-------------------------- MODULE Iec104ChildProofs --------------------------
(***************************************************************************)
(* Proofs about Iec104Child, for every number of threads, of processes and *)
(* of faults.                                                              *)
(***************************************************************************)
EXTENDS Iec104Child, TLAPS

\* A thread that has just started its first child may find none, and has not entered its
\* loop: GivesUpOnlyOnFailure is not inductive without it.
StartKnown ==
  current # None /\ thread[current].pc \in {"started", "loop"}
      /\ thread[current].hProcess = None
    => budget.fail < Failures

ChildInv == TypeOK /\ StartKnown

Thread == [pc : {"none", "start", "started", "loop", "ended", "wait", "restart", "halted"},
           hProcess : Children \cup {None},
           h_pipe : Children \cup {None, Invalid},
           halt : BOOLEAN]

Budget == [exit : Nat, kill : Nat, fail : 0..Failures, crash : Nat, stop : Nat]

-----------------------------------------------------------------------------
LEMMA NoneIsNobody == None \notin Threads \cup Children
BY ConstantsAssumption DEF None

LEMMA SpendType ==
  ASSUME budget \in Budget, NEW f \in {"exit", "kill", "fail", "crash", "stop"}, Spend(f)
  PROVE  budget' \in Budget /\ budget'.fail <= budget.fail
<1>1. CASE f = "fail"
  BY <1>1, ConstantsAssumption DEF Spend, Budget
<1>2. CASE f # "fail"
  BY <1>2, ConstantsAssumption DEF Spend, Budget
<1> QED  BY <1>1, <1>2

\* A thread in its loop, or about to enter it, that holds no process.
Held(t) == thread[t].pc \in {"started", "loop"} /\ thread[t].hProcess = None

LEMMA ThreadsType == TypeOK => thread \in [Threads -> Thread] /\ budget \in Budget
BY DEF TypeOK, Thread, Budget

\* A step that makes no thread lose its process, and that changes no driver.
LEMMA Keeps ==
  ASSUME ChildInv, TypeOK', current' \in {current, None}, budget'.fail <= budget.fail,
         current # None => (Held(current)' => Held(current))
  PROVE  ChildInv'
<1>1. budget.fail \in Int /\ budget'.fail \in Int /\ Failures \in Int
  BY ConstantsAssumption DEF ChildInv, TypeOK
<1>2. ASSUME current' # None, thread'[current'].pc \in {"started", "loop"},
             thread'[current'].hProcess = None
      PROVE  budget'.fail < Failures
  <2>1. current' = current /\ current # None
    BY <1>2
  <2>2. Held(current)
    BY <1>2, <2>1 DEF Held
  <2> QED  BY <1>1, <2>1, <2>2 DEF Held, ChildInv, StartKnown
<1> QED  BY <1>2 DEF ChildInv, StartKnown

\* A process that is started is one of Children, so hProcess is not None; one that could
\* not be created has used up a failure.
LEMMA StartKeeps ==
  ASSUME ChildInv, NEW t \in Threads, NEW next \in {"started", "loop"}, StartProcess(t, next)
  PROVE  ChildInv'
<1>1. TypeOK /\ thread \in [Threads -> Thread] /\ budget \in Budget
  BY ThreadsType DEF ChildInv
<1>2. CASE /\ Unused # {}
           /\ child' = [child EXCEPT ![NewChild] = "starting"]
           /\ broken' = [broken EXCEPT ![NewChild] = FALSE]
           /\ thread' = [thread EXCEPT ![t].hProcess = NewChild, ![t].pc = next]
           /\ UNCHANGED <<current, ending, budget>>
  <2>1. NewChild \in Children
    BY <1>2 DEF NewChild, Unused
  <2>2. NewChild # None
    BY <2>1, NoneIsNobody
  <2>3. /\ thread' \in [Threads -> Thread]
        /\ \A u \in Threads : u # t => thread'[u] = thread[u]
        /\ thread'[t].hProcess = NewChild
    BY <1>1, <1>2, <2>1 DEF Thread
  <2>4. TypeOK'
    BY <1>1, <1>2, <2>1, <2>3 DEF TypeOK, Thread
  <2>5. current # None => (Held(current)' => Held(current))
    BY <1>1, <1>2, <2>2, <2>3 DEF Held, TypeOK
  <2>6. budget'.fail <= budget.fail
    BY <1>1, <1>2, ConstantsAssumption DEF Budget
  <2> QED  BY <1>2, <2>4, <2>5, <2>6, Keeps
<1>3. CASE /\ Spend("fail")
           /\ thread' = [thread EXCEPT ![t].hProcess = None, ![t].pc = next]
           /\ UNCHANGED <<child, broken, current, ending>>
  <2> DEFINE th == [thread[t] EXCEPT !.hProcess = None, !.pc = next]
  <2>1. thread' \in [Threads -> Thread]
    <3>1. th \in Thread
      BY <1>1 DEF Thread
    <3>2. thread' = [thread EXCEPT ![t] = th]
      BY <1>3
    <3> HIDE DEF th
    <3> QED  BY <1>1, <3>1, <3>2
  <2>2. budget' \in Budget /\ budget'.fail < Failures
    BY <1>1, <1>3, ConstantsAssumption DEF Spend, Budget
  <2>3. TypeOK'
    BY <1>1, <1>3, <2>1, <2>2 DEF TypeOK, Thread, Budget
  <2> QED  BY <2>2, <2>3 DEF ChildInv, StartKnown
<1> QED  BY <1>2, <1>3 DEF StartProcess

\* The steps of a thread that change nothing but its own record and a pipe.
LEMMA ThreadKeeps ==
  ASSUME ChildInv, NEW t \in Threads,
         NEW th \in Thread, thread' = [thread EXCEPT ![t] = th],
         th.pc \in {"started", "loop"} /\ th.hProcess = None => Held(t),
         broken' \in [Children -> BOOLEAN],
         UNCHANGED <<child, current, ending, budget>>
  PROVE  ChildInv'
<1>1. TypeOK /\ thread \in [Threads -> Thread] /\ budget \in Budget
  BY ThreadsType DEF ChildInv
<1>2. /\ thread' \in [Threads -> Thread] /\ thread'[t] = th
      /\ \A u \in Threads : u # t => thread'[u] = thread[u]
  BY <1>1
<1>3. TypeOK'
  BY <1>1, <1>2 DEF TypeOK, Thread
<1>4. current # None => (Held(current)' => Held(current))
  BY <1>1, <1>2 DEF Held, TypeOK
<1>5. budget'.fail <= budget.fail
  BY <1>1, ConstantsAssumption DEF Budget
<1> QED  BY <1>3, <1>4, <1>5, Keeps

LEMMA ThreadStepKeeps ==
  ASSUME ChildInv, NEW t \in Threads, ThreadStep(t) \/ KeepAlive(t)
  PROVE  ChildInv'
<1>1. TypeOK /\ thread \in [Threads -> Thread] /\ broken \in [Children -> BOOLEAN]
  BY ThreadsType DEF ChildInv, TypeOK
<1>2. \A pipe \in PipeAfterPut(t) : pipe \in Children \cup {None, Invalid}
  BY <1>1 DEF PipeAfterPut, Thread
<1>3. CASE FirstStart(t)  BY <1>3, StartKeeps DEF FirstStart
<1>4. CASE Restart(t)  BY <1>4, StartKeeps DEF Restart
<1>5. CASE EnterLoop(t)
  <2> DEFINE th == [thread[t] EXCEPT !.halt = FALSE, !.pc = "loop"]
  <2>1. th \in Thread /\ thread' = [thread EXCEPT ![t] = th]
    BY <1>1, <1>5 DEF EnterLoop, Thread
  <2>2. th.hProcess = None => Held(t)
    BY <1>1, <1>5 DEF EnterLoop, Held, Thread
  <2> QED  BY <1>1, <1>5, <2>1, <2>2, ThreadKeeps DEF EnterLoop
<1>6. CASE HaltSeen(t)
  <2> DEFINE th == [thread[t] EXCEPT !.pc = "halted"]
  <2>1. th \in Thread /\ th.pc = "halted" /\ thread' = [thread EXCEPT ![t] = th]
    BY <1>1, <1>6 DEF HaltSeen, Thread
  <2> QED  BY <1>1, <1>6, <2>1, ThreadKeeps DEF HaltSeen
<1>7. CASE ChildEnded(t)
  <2> DEFINE th == [thread[t] EXCEPT !.hProcess = None, !.pc = "ended"]
  <2>1. th \in Thread /\ th.pc = "ended" /\ thread' = [thread EXCEPT ![t] = th]
    BY <1>1, <1>7 DEF ChildEnded, Thread
  <2> QED  BY <1>1, <1>7, <2>1, ThreadKeeps DEF ChildEnded
<1>8. CASE StopWaiting(t)
  <2> DEFINE th == [thread[t] EXCEPT !.pc = "restart"]
  <2>1. th \in Thread /\ th.pc = "restart" /\ thread' = [thread EXCEPT ![t] = th]
    BY <1>1, <1>8 DEF StopWaiting, Thread
  <2> QED  BY <1>1, <1>8, <2>1, ThreadKeeps DEF StopWaiting
<1>9. CASE Probe(t)
  <2>1. PICK pipe \in PipeAfterPut(t) :
          /\ thread' = [thread EXCEPT ![t].h_pipe = None,
                           ![t].pc = IF Writable(thread[t].h_pipe) THEN "wait" ELSE "restart"]
          /\ broken' = IF pipe \in Children THEN [broken EXCEPT ![pipe] = TRUE] ELSE broken
    BY <1>9 DEF Probe
  <2> DEFINE th == [thread[t] EXCEPT !.h_pipe = None,
                                     !.pc = IF Writable(thread[t].h_pipe) THEN "wait" ELSE "restart"]
  <2>2. th \in Thread /\ th.pc \in {"wait", "restart"} /\ thread' = [thread EXCEPT ![t] = th]
    BY <1>1, <2>1 DEF Thread
  <2>3. broken' \in [Children -> BOOLEAN]
    BY <1>1, <2>1
  <2> HIDE DEF th
  <2> QED  BY <1>9, <2>2, <2>3, ThreadKeeps DEF Probe
<1>10. CASE KeepAlive(t)
  <2>1. PICK pipe \in PipeAfterPut(t) : thread' = [thread EXCEPT ![t].h_pipe = pipe]
    BY <1>10 DEF KeepAlive
  <2> DEFINE th == [thread[t] EXCEPT !.h_pipe = pipe]
  <2>2. th \in Thread /\ thread' = [thread EXCEPT ![t] = th]
    BY <1>1, <1>2, <2>1 DEF Thread
  <2>3. th.hProcess = thread[t].hProcess /\ th.pc = thread[t].pc
    BY <1>1 DEF Thread
  <2> HIDE DEF th
  <2> QED  BY <1>1, <1>10, <2>2, <2>3, ThreadKeeps DEF KeepAlive, Held
<1> QED  BY <1>3, <1>4, <1>5, <1>6, <1>7, <1>8, <1>9, <1>10 DEF ThreadStep

\* A step that leaves the threads alone.
LEMMA ProcessKeeps ==
  ASSUME ChildInv, UNCHANGED <<thread, broken, current>>, budget' \in Budget,
         budget'.fail <= budget.fail,
         ending' \in BOOLEAN, ending' => current # None,
         child' \in [Children -> {"starting", "serving", "ended"}]
  PROVE  ChildInv'
<1>1. TypeOK'
  BY DEF ChildInv, TypeOK, Budget
<1> QED  BY <1>1, Keeps DEF Held

LEMMA ChildKeeps ==
  ASSUME ChildInv, NEW c \in Children, ChildStep(c) \/ Exit(c)
  PROVE  ChildInv'
<1>1. child \in [Children -> {"starting", "serving", "ended"}] /\ ending \in BOOLEAN
  BY DEF ChildInv, TypeOK
<1>2. budget \in Budget /\ budget.fail <= budget.fail /\ (ending => current # None)
  BY ConstantsAssumption DEF ChildInv, TypeOK, Budget
<1>3. CASE Instance(c)  BY <1>1, <1>2, <1>3, ProcessKeeps DEF Instance
<1>4. CASE PipeBroken(c)  BY <1>1, <1>2, <1>4, ProcessKeeps DEF PipeBroken
<1>5. CASE Exit(c)  BY <1>1, <1>2, <1>5, SpendType, ProcessKeeps DEF Exit
<1> QED  BY <1>3, <1>4, <1>5 DEF ChildStep

-----------------------------------------------------------------------------
(* The main thread. *)

LEMMA KilledType ==
  ASSUME TypeOK, NEW c \in Children \cup {None}
  PROVE  Killed(c) \in [Children -> {"starting", "serving", "ended"}]
BY DEF Killed, TypeOK

LEMMA MainKeeps ==
  ASSUME ChildInv, TerminateChild \/ BeginStop \/ FinishStop \/ MonitorDies
  PROVE  ChildInv'
<1>1. TypeOK /\ thread \in [Threads -> Thread] /\ budget \in Budget
  BY ThreadsType DEF ChildInv
<1>2. budget.fail <= budget.fail
  BY <1>1, ConstantsAssumption DEF Budget
<1>3. CASE TerminateChild
  <2>1. thread[current].hProcess \in Children \cup {None}
    BY <1>1, <1>3 DEF TerminateChild, TypeOK, Thread
  <2>2. child' \in [Children -> {"starting", "serving", "ended"}]
    BY <1>1, <1>3, <2>1, KilledType DEF TerminateChild
  <2> QED  BY <1>1, <1>3, <2>2, SpendType, ProcessKeeps DEF TerminateChild, TypeOK
<1>4. CASE BeginStop
  <2>1. budget' \in Budget /\ budget'.fail <= budget.fail
    BY <1>1, <1>4, SpendType DEF BeginStop
  <2>2. CASE thread[current].hProcess # None
    BY <1>1, <1>4, <2>1, <2>2, ProcessKeeps DEF BeginStop, TypeOK
  <2>3. CASE thread[current].hProcess = None
    <3>1. /\ thread' = [thread EXCEPT ![current].halt = TRUE] /\ current' = None
          /\ UNCHANGED <<child, broken, ending>> /\ ~ending
      BY <1>4, <2>3 DEF BeginStop
    <3>2. thread' \in [Threads -> Thread]
      BY <1>1, <3>1 DEF Thread
    <3>3. TypeOK'
      BY <1>1, <2>1, <3>1, <3>2 DEF TypeOK, Thread, Budget
    <3> QED  BY <3>1, <3>3 DEF ChildInv, StartKnown
  <2> QED  BY <2>2, <2>3
<1>5. CASE FinishStop
  <2>1. current \in Threads /\ current' = None
    BY <1>1, <1>5 DEF FinishStop, TypeOK
  <2> DEFINE th == [thread[current] EXCEPT !.hProcess = None, !.halt = TRUE]
  <2>2. thread' \in [Threads -> Thread]
    <3>1. th \in Thread
      BY <1>1, <2>1 DEF Thread
    <3>2. thread' = [thread EXCEPT ![current] = th]
      BY <1>5 DEF FinishStop
    <3> HIDE DEF th
    <3> QED  BY <1>1, <2>1, <3>1, <3>2
  <2>3. child' \in [Children -> {"starting", "serving", "ended"}]
    <3>1. thread[current].hProcess \in Children \cup {None}
      BY <1>1, <2>1 DEF Thread
    <3> QED  BY <1>1, <1>5, <3>1, KilledType DEF FinishStop
  <2>4. TypeOK'
    BY <1>1, <1>5, <2>2, <2>3 DEF FinishStop, TypeOK, Thread, Budget
  <2> QED  BY <2>1, <2>4 DEF ChildInv, StartKnown
<1>6. CASE MonitorDies
  <2>1. NoThread \in Thread
    BY DEF NoThread, Thread
  <2>2. thread' \in [Threads -> Thread] /\ current' = None /\ ending' = FALSE
    BY <1>6, <2>1 DEF MonitorDies
  <2>3. broken' \in [Children -> BOOLEAN] /\ child' = child
    BY <1>1, <1>6 DEF MonitorDies, TypeOK
  <2>4. budget' \in Budget
    BY <1>1, <1>6, SpendType DEF MonitorDies
  <2>5. TypeOK'
    BY <1>1, <2>2, <2>3, <2>4 DEF TypeOK, Thread, Budget
  <2> QED  BY <2>2, <2>5 DEF ChildInv, StartKnown
<1> QED  BY <1>3, <1>4, <1>5, <1>6

LEMMA ConnectKeeps ==
  ASSUME ChildInv, NEW t \in Threads, Connect(t)
  PROVE  ChildInv'
<1>1. TypeOK /\ thread \in [Threads -> Thread] /\ budget \in Budget
  BY ThreadsType DEF ChildInv
<1>2. [NoThread EXCEPT !.pc = "start"] \in Thread
  BY DEF NoThread, Thread
<1>3. /\ thread' \in [Threads -> Thread] /\ thread'[t].pc = "start" /\ current' = t
      /\ UNCHANGED <<child, broken, ending, budget>>
  BY <1>1, <1>2 DEF Connect, NoThread
<1>4. TypeOK'
  BY <1>1, <1>3, NoneIsNobody DEF TypeOK, Thread
<1> QED  BY <1>3, <1>4 DEF ChildInv, StartKnown

LEMMA InitInv == Init => ChildInv
<1> SUFFICES ASSUME Init  PROVE ChildInv
  OBVIOUS
<1>1. NoThread \in Thread
  BY DEF NoThread, Thread
<1>2. budget \in Budget
  BY ConstantsAssumption DEF Init, Budget
<1> QED  BY <1>1, <1>2 DEF Init, ChildInv, TypeOK, StartKnown, Thread, Budget

LEMMA StepKeepsInv == ChildInv /\ [Next]_vars => ChildInv'
<1> SUFFICES ASSUME ChildInv, [Next]_vars  PROVE ChildInv'
  OBVIOUS
<1>1. CASE UNCHANGED vars
  BY <1>1 DEF vars, ChildInv, TypeOK, StartKnown
<1> QED
  BY <1>1, ThreadStepKeeps, ChildKeeps, MainKeeps, ConnectKeeps DEF Next

LEMMA ChildInvariant == Spec => []ChildInv
BY InitInv, StepKeepsInv, PTL DEF Spec

-----------------------------------------------------------------------------
\* The handles of a thread are those of processes of the line, 0 or an invalid one
\* (iec104driverthread.h).
THEOREM ChildTypeCorrect == Spec => []TypeOK
<1>1. ChildInv => TypeOK
  BY DEF ChildInv
<1> QED  BY <1>1, ChildInvariant, PTL

\* A driver thread in its loop without a process has met a CreateProcess that failed
\* (iec104driverthread.cpp:94-112), whatever ends, is killed, stopped or survives.
THEOREM ThreadGivesUpOnlyOnFailure == Spec => []GivesUpOnlyOnFailure
<1>1. ChildInv => GivesUpOnlyOnFailure
  BY DEF ChildInv, StartKnown, GivesUpOnlyOnFailure, GaveUp
<1> QED  BY <1>1, ChildInvariant, PTL
==============================================================================
