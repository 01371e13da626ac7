----------------------------- MODULE Dispatcher -----------------------------
(***************************************************************************)
(* How notifications travel between the processes of a host: the dispatcher*)
(* server (dispatcher/server/server_dispatcher.cpp), which gives every     *)
(* session a thread of a pool and writes each notification to all sessions,*)
(* and its clients (common/dispatch.cpp, dispatch_reader.cpp): a GUI       *)
(* thread with a queue, a thread that writes, one that reads and one that  *)
(* connects.                                                               *)
(*                                                                         *)
(* A critical section of the server is one step.  A write to a socket      *)
(* never blocks: a client that stops reading, and the watchdog that then   *)
(* ends the server, appear as the server's death only.  The server comes   *)
(* back at once and its clients know the right password.  stop() and       *)
(* delayed notifications are left out.                                     *)
(***************************************************************************)
EXTENDS Integers, Sequences, FiniteSets

CONSTANTS
  Clients,
  Sockets,                 \* bound: connections at a time
  optimalNumberOfThreads,
  Notes,                   \* bound: notifications they make
  Deaths,                  \* bound: deaths of the server
  Leaves,                  \* bound: clients that close their connection
  Slow                     \* bound: connections that take longer than Connect waits

ASSUME BoundsAssumption ==
  {Sockets, optimalNumberOfThreads, Notes, Deaths, Leaves, Slow} \subseteq Nat

\* The pool keeps a thread (dispatcher.cpp:88 makes it 8).
ASSUME PoolAssumption == optimalNumberOfThreads > 0

Sessions == 1..Sockets
None == 0

VARIABLES
  place,       \* by session: "free", "backlog", "wait", "active" or "gone"
  waitList,    \* a stack
  nIdleThreads,
  nActiveThreads,
  threads,     \* threads of the pool there are
  go,          \* the count of the semaphore
  toServer,    \* by session, what is on its way
  toClient,
  owner,       \* by session, its client
  hung,        \* sessions whose client has shut its socket
  log,         \* history: the notifications in the order of their broadcasts
  gui,         \* by client: the GUI thread is in its first Connect, in its event loop, in
               \* a later Connect, or the process has ended
  link,        \* pConnect: none, or how far its connecting thread has come
  conn,        \* its session
  started,     \* its writer and reader threads run
  fFail,
  WriteQueue,
  busy,        \* the notification its writer thread has
  posted,      \* events for its GUI thread
  made,        \* notifications it has made
  received,    \* history: the notifications it has been told of
  asserted,    \* history: its assertions held
  budget

server == <<place, waitList, nIdleThreads, nActiveThreads, threads, go>>
wires == <<toServer, toClient, owner, hung>>
thread == <<link, conn, started, fFail>>
notifications == <<WriteQueue, busy, posted, made, received, asserted>>
vars == <<server, wires, log, gui, thread, notifications, budget>>

Note(p, k) == [by |-> p, k |-> k]
Notification == [by : Clients, k : 1..Notes]
LoginOf(p) == Note(p, 0)     \* the request and the response cli_ok

ServerInit ==
  /\ place = [c \in Sessions |-> "free"] /\ waitList = <<>>
  /\ nIdleThreads = 0 /\ nActiveThreads = 0 /\ threads = 0 /\ go = 0

Init ==
  /\ ServerInit
  /\ toServer = [c \in Sessions |-> <<>>] /\ toClient = [c \in Sessions |-> <<>>]
  /\ owner = [c \in Sessions |-> CHOOSE p \in Clients : TRUE] /\ hung = {} /\ log = <<>>
  /\ gui = [p \in Clients |-> "first"] /\ link = [p \in Clients |-> "opening"]
  /\ conn = [p \in Clients |-> None]
  /\ started = [p \in Clients |-> FALSE] /\ fFail = [p \in Clients |-> FALSE]
  /\ WriteQueue = [p \in Clients |-> <<>>] /\ busy = [p \in Clients |-> <<>>]
  /\ posted = [p \in Clients |-> <<>>] /\ made = [p \in Clients |-> 0]
  /\ received = [p \in Clients |-> <<>>] /\ asserted = TRUE
  /\ budget = [note |-> Notes, death |-> Deaths, leave |-> Leaves, slow |-> Slow]

Spend(what) == budget[what] > 0 /\ budget' = [budget EXCEPT ![what] = @ - 1]

-----------------------------------------------------------------------------
(* The server *)

\* Mutant: a new thread is not told of its session.
acceptUntold(c) ==
  /\ place[c] = "backlog" /\ place' = [place EXCEPT ![c] = "wait"]
  /\ waitList' = <<c>> \o waitList
  /\ IF nIdleThreads = 0 THEN nIdleThreads' = 1 /\ threads' = threads + 1 /\ go' = go
     ELSE UNCHANGED <<nIdleThreads, threads>> /\ go' = go + 1
  /\ UNCHANGED <<nActiveThreads, wires, log, gui, thread, notifications, budget>>

\* acceptConnection: a thread is made when none is idle.
acceptConnection(c) ==
  /\ place[c] = "backlog" /\ place' = [place EXCEPT ![c] = "wait"]
  /\ waitList' = <<c>> \o waitList
  /\ IF nIdleThreads = 0 THEN nIdleThreads' = 1 /\ threads' = threads + 1
     ELSE UNCHANGED <<nIdleThreads, threads>>
  /\ go' = go + 1
  /\ UNCHANGED <<nActiveThreads, wires, log, gui, thread, notifications, budget>>

\* serveClient: an idle thread takes the session that came last.
Take ==
  /\ go > 0 /\ nIdleThreads > 0 /\ waitList # <<>>
  /\ go' = go - 1
  /\ place' = [place EXCEPT ![Head(waitList)] = "active"] /\ waitList' = Tail(waitList)
  /\ nIdleThreads' = nIdleThreads - 1 /\ nActiveThreads' = nActiveThreads + 1
  /\ UNCHANGED <<threads, wires, log, gui, thread, notifications, budget>>

\* Mutant: a login is not answered.
LoginUnanswered(c) ==
  /\ toServer[c] # <<>> /\ Head(toServer[c]) = LoginOf(owner[c])
  /\ toServer' = [toServer EXCEPT ![c] = Tail(@)]
  /\ UNCHANGED <<server, toClient, owner, hung, log>>

\* cli_cmd_login; the session has been in activeList for a while.
Login(c) ==
  /\ toServer[c] # <<>> /\ Head(toServer[c]) = LoginOf(owner[c])
  /\ toServer' = [toServer EXCEPT ![c] = Tail(@)]
  /\ toClient' = [toClient EXCEPT ![c] = Append(@, LoginOf(owner[c]))]
  /\ UNCHANGED <<server, owner, hung, log>>

Hears(c) == place[c] = "active"

Broadcast(c) ==
  /\ toServer[c] # <<>> /\ Head(toServer[c]) \in Notification
  /\ toServer' = [toServer EXCEPT ![c] = Tail(@)]
  /\ toClient' = [d \in Sessions |-> IF Hears(d) THEN Append(toClient[d], Head(toServer[c]))
                                     ELSE toClient[d]]
  /\ log' = Append(log, Head(toServer[c]))
  /\ UNCHANGED <<server, owner, hung>>

\* Mutant: off by one.
StaysTooFew == nActiveThreads - 1 + nIdleThreads < optimalNumberOfThreads - 1

\* After its session a thread stays if the pool is short of threads.
Stays == nActiveThreads - 1 + nIdleThreads < optimalNumberOfThreads

\* cli_cmd_close_session or the end of the stream.
Finish(c) ==
  /\ toServer[c] = <<>> /\ c \in hung
  /\ place' = [place EXCEPT ![c] = "gone"]
  /\ nActiveThreads' = nActiveThreads - 1
  /\ IF Stays THEN nIdleThreads' = nIdleThreads + 1 /\ UNCHANGED threads
     ELSE threads' = threads - 1 /\ UNCHANGED nIdleThreads
  /\ UNCHANGED <<waitList, go, wires, log>>

serveClient(c) ==
  /\ place[c] = "active"
  /\ Login(c) \/ Broadcast(c) \/ Finish(c)
  /\ UNCHANGED <<gui, thread, notifications, budget>>

\* Its watchdog, or anything else.
Dies ==
  /\ Spend("death")
  /\ place' = [c \in Sessions |-> IF place[c] = "free" THEN "free" ELSE "gone"]
  /\ toServer' = [c \in Sessions |-> <<>>]
  /\ waitList' = <<>> /\ nIdleThreads' = 0 /\ nActiveThreads' = 0 /\ threads' = 0 /\ go' = 0
  /\ UNCHANGED <<toClient, owner, hung, log, gui, thread, notifications>>

-----------------------------------------------------------------------------
(* A client: its threads *)

Free == {c \in Sessions : place[c] \in {"free", "gone"} /\ \A p \in Clients : conn[p] # c}

\* cli_open_dispatcher connects and writes its login.
Opens(p) ==
  /\ link[p] = "opening" /\ conn[p] = None /\ Free # {}
  /\ LET c == CHOOSE x \in Free : TRUE
     IN /\ conn' = [conn EXCEPT ![p] = c]
        /\ place' = [place EXCEPT ![c] = "backlog"]
        /\ toServer' = [toServer EXCEPT ![c] = <<LoginOf(p)>>]
        /\ toClient' = [toClient EXCEPT ![c] = <<>>]
        /\ owner' = [owner EXCEPT ![c] = p] /\ hung' = hung \ {c}
  /\ UNCHANGED <<waitList, nIdleThreads, nActiveThreads, threads, go, log, gui, link,
                 started, fFail, notifications, budget>>

\* What it makes of the first octets it is sent: a response that is not cli_ok is given
\* back as if it were a descriptor, and that of a notification is its length.
Response(answer) == IF answer.k = 0 THEN "open" ELSE "foreign"

Opened(p) ==
  /\ link[p] = "opening" /\ conn[p] # None
  /\ \/ /\ toClient[conn[p]] # <<>>
        /\ link' = [link EXCEPT ![p] = Response(Head(toClient[conn[p]]))]
        /\ toClient' = [toClient EXCEPT ![conn[p]] = Tail(@)]
        /\ UNCHANGED fFail
     \/ /\ toClient[conn[p]] = <<>> /\ place[conn[p]] = "gone"
        /\ link' = [link EXCEPT ![p] = "failed"] /\ fFail' = [fFail EXCEPT ![p] = TRUE]
        /\ UNCHANGED toClient
  /\ UNCHANGED <<server, toServer, owner, hung, log, gui, conn, started, notifications, budget>>

\* Mutant: the youngest event is handled first.
PostFirst(p, event) == posted' = [posted EXCEPT ![p] = <<event>> \o @]

Post(p, event) == posted' = [posted EXCEPT ![p] = Append(@, event)]
Written(n) == [op |-> "END_WRITE_NOTIF", n |-> n]
\* Mutant: the reader posts the event of the writer.
ReadAsWritten(n) == Written(n)

Read(n) == [op |-> "END_READ_NOTIF", n |-> n]

Reachable(p) == link[p] = "open" /\ place[conn[p]] # "gone"

\* Dispatcher_Thread::run: a write to a session the server has closed may still succeed.
Writes(p) ==
  /\ started[p] /\ busy[p] # <<>>
  /\ \/ /\ Reachable(p)
        /\ toServer' = [toServer EXCEPT ![conn[p]] = Append(@, Head(busy[p]))]
        /\ UNCHANGED fFail
     \/ /\ ~Reachable(p)
        /\ UNCHANGED toServer
        /\ fFail' \in {[fFail EXCEPT ![p] = TRUE]} \cup
                      (IF link[p] = "open" /\ ~fFail[p] THEN {fFail} ELSE {})
  /\ busy' = [busy EXCEPT ![p] = <<>>]
  /\ Post(p, Written(Head(busy[p])))
  /\ UNCHANGED <<server, toClient, owner, hung, log, gui, link, conn, started, WriteQueue, made,
                 received, asserted, budget>>

\* Dispatcher_Reader_Thread::run; the end of the stream ends the thread and is not told.
Reads(p) ==
  /\ started[p] /\ link[p] = "open" /\ toClient[conn[p]] # <<>>
  /\ toClient' = [toClient EXCEPT ![conn[p]] = Tail(@)]
  /\ Post(p, Read(Head(toClient[conn[p]])))
  /\ UNCHANGED <<server, toServer, owner, hung, log, gui, thread, WriteQueue, busy, made, received,
                 asserted, budget>>

-----------------------------------------------------------------------------
(* A client: its GUI thread *)

SetNotif(p, n) == busy' = [busy EXCEPT ![p] = <<n>>]

\* Mutant: the writer is given the notification although it has another one.
DoExecAtOnce(p) ==
  /\ gui[p] = "loop" /\ started[p] /\ Spend("note")
  /\ made' = [made EXCEPT ![p] = @ + 1]
  /\ WriteQueue' = [WriteQueue EXCEPT ![p] = Append(@, Note(p, made[p] + 1))]
  /\ SetNotif(p, Note(p, made[p] + 1))
  /\ UNCHANGED <<server, wires, log, gui, thread, posted, received, asserted>>

DoExec(p) ==
  /\ gui[p] = "loop" /\ started[p] /\ Spend("note")
  /\ made' = [made EXCEPT ![p] = @ + 1]
  /\ WriteQueue' = [WriteQueue EXCEPT ![p] = Append(@, Note(p, made[p] + 1))]
  /\ IF WriteQueue[p] = <<>> /\ busy[p] = <<>> THEN SetNotif(p, Note(p, made[p] + 1))
     ELSE UNCHANGED busy
  /\ UNCHANGED <<server, wires, log, gui, thread, posted, received, asserted>>

\* Mutant: off by one, the last of the queue is left.
KickUnlessLast(p, rest) ==
  IF Len(rest) > 1 /\ ~fFail[p] /\ busy[p] = <<>> THEN SetNotif(p, Head(rest))
  ELSE UNCHANGED busy

Kick(p, rest) ==
  IF rest # <<>> /\ ~fFail[p] /\ busy[p] = <<>> THEN SetNotif(p, Head(rest))
  ELSE UNCHANGED busy

\* END_WRITE_NOTIF: the head has been written; what fails is not written again.
EndWrite(p, n) ==
  /\ asserted' = (asserted /\ (WriteQueue[p] # <<>> => Head(WriteQueue[p]) = n))
  /\ LET rest == IF WriteQueue[p] = <<>> THEN <<>> ELSE Tail(WriteQueue[p])
     IN /\ WriteQueue' = [WriteQueue EXCEPT ![p] = rest]
        /\ Kick(p, rest)
  /\ UNCHANGED received

notificationEvent(p) ==
  /\ gui[p] = "loop" /\ posted[p] # <<>>
  /\ posted' = [posted EXCEPT ![p] = Tail(@)]
  /\ LET e == Head(posted[p])
     IN \/ e.op = "END_WRITE_NOTIF" /\ EndWrite(p, e.n)
        \/ /\ e.op = "END_READ_NOTIF"
           /\ received' = [received EXCEPT ![p] = Append(@, e.n)]
           /\ UNCHANGED <<WriteQueue, busy, asserted>>
  /\ UNCHANGED <<server, wires, log, gui, thread, made, budget>>

Ok(p) == started[p] /\ ~fFail[p]
IsConnected(p) == link[p] \in {"open", "foreign"}

\* The destructors wait for the threads: what the writer has not begun with is dropped.
\* The events its threads have posted stay.
Drops(p) ==
  busy' = [busy EXCEPT ![p] = <<>>] /\ WriteQueue' = [WriteQueue EXCEPT ![p] = <<>>]

\* A socket without a descriptor is left open.
Shut(p) == IF link[p] = "open" THEN hung' = hung \cup {conn[p]} ELSE UNCHANGED hung

\* Tick of monitor.exe, and of the user interface: Disconnect and Connect.
Tick(p) ==
  /\ gui[p] = "loop" /\ ~Ok(p) /\ link[p] # "opening"
  /\ IF IsConnected(p) THEN Shut(p) /\ Drops(p)
     ELSE UNCHANGED <<hung, WriteQueue, busy>>
  /\ gui' = [gui EXCEPT ![p] = "connecting"]
  /\ link' = [link EXCEPT ![p] = "opening"] /\ conn' = [conn EXCEPT ![p] = None]
  /\ started' = [started EXCEPT ![p] = FALSE] /\ fFail' = [fFail EXCEPT ![p] = FALSE]
  /\ UNCHANGED <<server, toServer, toClient, owner, log, posted, made, received, asserted,
                 budget>>

\* OpenDispatcherConnection gives up when its Connect finds that the thread has failed.
GivesUp(p) == gui[p] = "first" /\ fFail[p]

Waits(p) == conn[p] # None /\ place[conn[p]] = "wait" /\ nIdleThreads = 0

\* The process ends: the system closes its sockets.
Ends(p) ==
  /\ gui' = [gui EXCEPT ![p] = "ended"]
  /\ hung' = hung \cup {c \in Sessions : owner[c] = p} /\ Drops(p)
  /\ posted' = [posted EXCEPT ![p] = <<>>]
  /\ link' = [link EXCEPT ![p] = "none"] /\ conn' = [conn EXCEPT ![p] = None]
  /\ started' = [started EXCEPT ![p] = FALSE]
  /\ UNCHANGED <<server, toServer, toClient, owner, log, fFail, made, received, asserted>>

\* Connect waits 100 ms for its thread.
ConnectReturns(p) ==
  /\ gui[p] \in {"first", "connecting"} /\ ~GivesUp(p) /\ gui' = [gui EXCEPT ![p] = "loop"]
  /\ IF link[p] = "opening" /\ ~Waits(p) THEN Spend("slow") ELSE UNCHANGED budget
  /\ started' = [started EXCEPT ![p] = IsConnected(p)]
  /\ UNCHANGED <<server, wires, log, link, conn, fFail, notifications>>

\* OpenDispatcherConnection, and main after it: the first Connect has failed.
OpenFails(p) == GivesUp(p) /\ Ends(p) /\ UNCHANGED budget

\* CloseDispatcherConnection, and the end of the process.
Leave(p) == gui[p] = "loop" /\ started[p] /\ Spend("leave") /\ Ends(p)

-----------------------------------------------------------------------------
ServerStep == Take \/ \E c \in Sessions : acceptConnection(c) \/ serveClient(c)

ClientStep(p) ==
  Opens(p) \/ Opened(p) \/ Writes(p) \/ Reads(p) \/ notificationEvent(p)

Next ==
  \/ ServerStep \/ Dies
  \/ \E p \in Clients : ClientStep(p) \/ DoExec(p) \/ Tick(p)
                         \/ ConnectReturns(p) \/ OpenFails(p) \/ Leave(p)

\* Every thread of the server and of a client runs, and the timers of its GUI.
Spec ==
  /\ Init /\ [][Next]_vars
  /\ WF_vars(Take)
  /\ \A c \in Sessions : WF_vars(acceptConnection(c)) /\ WF_vars(serveClient(c))
  /\ \A p \in Clients :
       /\ WF_vars(Opens(p)) /\ WF_vars(Opened(p)) /\ WF_vars(Writes(p)) /\ WF_vars(Reads(p))
       /\ WF_vars(notificationEvent(p)) /\ WF_vars(Tick(p)) /\ WF_vars(ConnectReturns(p))
       /\ WF_vars(OpenFails(p))

-----------------------------------------------------------------------------
(* Properties *)

\* The variables keep their types.
TypeOK ==
  /\ place \in [Sessions -> {"free", "backlog", "wait", "active", "gone"}]
  /\ waitList \in Seq(Sessions) /\ hung \subseteq Sessions /\ owner \in [Sessions -> Clients]
  /\ {nIdleThreads, nActiveThreads, threads, go} \subseteq Nat
  /\ log \in Seq(Notification)
  /\ gui \in [Clients -> {"first", "loop", "connecting", "ended"}]
  /\ link \in [Clients -> {"none", "opening", "open", "foreign", "failed"}]
  /\ conn \in [Clients -> Sessions \cup {None}]
  /\ started \in [Clients -> BOOLEAN] /\ fFail \in [Clients -> BOOLEAN]
  /\ WriteQueue \in [Clients -> Seq(Notification)] /\ busy \in [Clients -> Seq(Notification)]
  /\ received \in [Clients -> Seq(Notification)] /\ made \in [Clients -> 0..Notes]

\* The counts of the pool are true in whatever order sessions come, wait, are taken and
\* end (server_dispatcher.cpp:242-248, 349-368, 396-404).
In(where) == {c \in Sessions : place[c] = where}
PoolAccounted ==
  /\ threads = nIdleThreads + nActiveThreads
  /\ nActiveThreads = Cardinality(In("active"))
  /\ go = Len(waitList) /\ In("wait") = {waitList[i] : i \in 1..Len(waitList)}

\* A session that waits does so while a thread of the pool is idle or will end its session:
\* the pool is never given up with somebody waiting.
SomeoneServes == waitList # <<>> => threads > 0

\* What a client makes is told to everybody in the order it was made, and once.
OwnInOrder ==
  \A i, j \in 1..Len(log) : i < j /\ log[i].by = log[j].by => log[i].k < log[j].k

\* Two clients that are told of the same two notifications are told in the same order,
\* over their reconnections too.
Before(p, a, b) ==
  \E i, j \in 1..Len(received[p]) : i < j /\ received[p][i] = a /\ received[p][j] = b
SameOrder ==
  \A p, q \in Clients : \A a, b \in Notification : Before(p, a, b) => ~Before(q, b, a)

\* What is written to a session is told to its client if the session lasts.
Has(seq, n) == \E i \in 1..Len(seq) : seq[i] = n
OnItsWay(p, n) == link[p] = "open" /\ Has(toClient[conn[p]], n)
Told ==
  \A p \in Clients : \A n \in Notification :
    OnItsWay(p, n) ~> (Has(received[p], n) \/ link[p] # "open")

\* What a client has queued is broadcast, or its connection is lost, in behaviours in
\* which the assertion at dispatch.cpp:334 holds (a stale event takes a notification away).
Sent ==
  []asserted =>
    \A n \in Notification : Has(WriteQueue[n.by], n) ~> (Has(log, n) \/ ~Reachable(n.by))

\* A client that never has a connection again is one whose session waits for a thread, or
\* one that has not noticed: its Ok() stays true, because its reader thread has ended
\* without a word (dispatch_reader.cpp:105) or its writer has what it takes for a
\* descriptor, and it writes nothing more.  Whoever notices returns, unless its first
\* Connect fails: then its process has ended (dispatch.cpp:609-625).
Returns ==
  \A p \in Clients :
    <>[](~Reachable(p) /\ gui[p] # "ended") => <>[]Waits(p) \/ <>[]Ok(p)

\* cli_open_dispatcher gives a descriptor or an error (cli_dispatcher.h:174-176).
OpenReturnsDescriptor == \A p \in Clients : link[p] # "foreign"
=============================================================================
