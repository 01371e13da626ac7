--------------------------- MODULE DispatcherProofs ---------------------------
(***************************************************************************)
(* The dispatcher for every number of clients and connections, every size  *)
(* of the pool and every number of notifications and faults: the pool of   *)
(* the server is accounted for and is never given up, a client's           *)
(* notifications are broadcast in its order and once, and all clients are  *)
(* told of notifications in one order.                                     *)
(***************************************************************************)
EXTENDS Dispatcher, FiniteSetTheorems, SequenceTheorems, TLAPS

ServerType ==
  /\ place \in [Sessions -> {"free", "backlog", "wait", "active", "gone"}]
  /\ waitList \in Seq(Sessions)
  /\ nIdleThreads \in Nat /\ nActiveThreads \in Nat /\ threads \in Nat /\ go \in Nat

\* A session waits once.
WaitsOnce == \A i, j \in 1..Len(waitList) : waitList[i] = waitList[j] => i = j

\* The inductive invariant: PoolAccounted alone does not say that a session that is taken
\* has left the list, nor SomeoneServes that a thread that goes has been counted.
PoolInv == ServerType /\ PoolAccounted /\ WaitsOnce /\ SomeoneServes

-----------------------------------------------------------------------------
(* Sessions at a place. *)

LEMMA InFinite ==
  ASSUME NEW where
  PROVE  IsFiniteSet(In(where)) /\ Cardinality(In(where)) \in Nat
<1>1. IsFiniteSet(Sessions)
  BY BoundsAssumption, FS_Interval DEF Sessions
<1>2. In(where) \in SUBSET Sessions
  BY DEF In
<1> QED  BY <1>1, <1>2, FS_Subset, FS_CardinalityType

\* A session that is moved joins one set of sessions and leaves the other.
LEMMA Moved ==
  ASSUME ServerType, NEW c \in Sessions, NEW to, place' = [place EXCEPT ![c] = to],
         NEW where
  PROVE  In(where)' = IF where = to THEN In(where) \cup {c} ELSE In(where) \ {c}
<1>1. \A d \in Sessions : place'[d] = IF d = c THEN to ELSE place[d]
  BY DEF ServerType
<1> QED  BY <1>1 DEF In

-----------------------------------------------------------------------------
(* The steps of the pool. *)

LEMMA AcceptKeeps ==
  ASSUME PoolInv, NEW c \in Sessions, acceptConnection(c)
  PROVE  PoolInv'
<1>1. ServerType /\ PoolAccounted /\ WaitsOnce /\ place[c] = "backlog"
  BY DEF PoolInv, acceptConnection
<1>2. /\ place' = [place EXCEPT ![c] = "wait"]
      /\ waitList' = <<c>> \o waitList /\ go' = go + 1 /\ nActiveThreads' = nActiveThreads
      /\ \/ nIdleThreads = 0 /\ nIdleThreads' = 1 /\ threads' = threads + 1
         \/ nIdleThreads # 0 /\ nIdleThreads' = nIdleThreads /\ threads' = threads
  BY DEF acceptConnection
<1>3. waitList' \in Seq(Sessions) /\ Len(waitList') = Len(waitList) + 1
  BY <1>1, <1>2 DEF ServerType
<1>4. \A i \in 1..Len(waitList') : waitList'[i] = IF i = 1 THEN c ELSE waitList[i - 1]
  BY <1>1, <1>2 DEF ServerType
<1>5. \A i \in 1..Len(waitList') : i = 1 \/ i - 1 \in 1..Len(waitList)
  BY <1>1, <1>3 DEF ServerType
<1>6. ServerType'
  BY <1>1, <1>2, <1>3 DEF ServerType
<1>7. In("active")' = In("active") /\ In("wait")' = In("wait") \cup {c}
  <2>1. c \notin In("active")
    BY <1>1 DEF In
  <2>2. In("active")' = In("active") \ {c}
    BY <1>1, <1>2, Moved
  <2>3. In("wait")' = In("wait") \cup {c}
    BY <1>1, <1>2, Moved
  <2> QED  BY <2>1, <2>2, <2>3
<1>8. threads' = nIdleThreads' + nActiveThreads' /\ threads' > 0
  <2>1. threads = nIdleThreads + nActiveThreads
    BY <1>1 DEF PoolAccounted
  <2>2. nIdleThreads \in Nat /\ nActiveThreads \in Nat
    BY <1>1 DEF ServerType
  <2> QED  BY <1>2, <2>1, <2>2
<1>9. In("wait")' = {waitList'[i] : i \in 1..Len(waitList')}
  <2>1. ASSUME NEW d \in In("wait")'
        PROVE  \E i \in 1..Len(waitList') : waitList'[i] = d
    <3>1. CASE d = c
      <4>1. 1 \in 1..Len(waitList')
        BY <1>1, <1>3 DEF ServerType
      <4> QED  BY <3>1, <4>1, <1>4
    <3>2. CASE d # c
      <4>1. PICK j \in 1..Len(waitList) : waitList[j] = d
        BY <2>1, <3>2, <1>1, <1>7 DEF PoolAccounted
      <4>2. j + 1 \in 1..Len(waitList') /\ j + 1 # 1 /\ j + 1 - 1 = j
        BY <4>1, <1>1, <1>3 DEF ServerType
      <4>3. waitList'[j + 1] = d
        BY <4>1, <4>2, <1>4
      <4> QED  BY <4>2, <4>3
    <3> QED  BY <3>1, <3>2
  <2>2. ASSUME NEW i \in 1..Len(waitList')
        PROVE  waitList'[i] \in In("wait")'
    BY <1>1, <1>4, <1>5, <1>7 DEF PoolAccounted
  <2> QED  BY <2>1, <2>2
<1>10. PoolAccounted'
  <2>1. nActiveThreads' = Cardinality(In("active")') /\ go' = Len(waitList')
    BY <1>1, <1>2, <1>3, <1>7 DEF PoolAccounted
  <2> QED  BY <1>8, <1>9, <2>1 DEF PoolAccounted, In
<1>11. WaitsOnce'
  <2>1. \A i \in 1..Len(waitList) : waitList[i] # c
    BY <1>1 DEF PoolAccounted, In
  <2>2. ASSUME NEW i \in 1..Len(waitList'), NEW j \in 1..Len(waitList'),
               waitList'[i] = waitList'[j]
        PROVE  i = j
    <3>1. i = 1 <=> j = 1
      BY <2>1, <2>2, <1>4, <1>5
    <3>2. CASE i # 1
      <4>1. i - 1 = j - 1
        BY <1>1, <1>4, <1>5, <2>2, <3>1, <3>2 DEF WaitsOnce
      <4> QED  BY <4>1
    <3> QED  BY <3>1, <3>2
  <2> QED  BY <2>2 DEF WaitsOnce
<1>12. SomeoneServes'
  BY <1>8 DEF SomeoneServes
<1> QED  BY <1>6, <1>10, <1>11, <1>12 DEF PoolInv

LEMMA TakeKeeps ==
  ASSUME PoolInv, Take
  PROVE  PoolInv'
<1> DEFINE c == Head(waitList)
<1>1. ServerType /\ waitList # <<>> /\ nIdleThreads > 0 /\ go > 0
  BY DEF PoolInv, Take
<1>2. c \in Sessions /\ c = waitList[1] /\ 1 \in 1..Len(waitList)
  BY <1>1 DEF ServerType
<1>3. /\ waitList' \in Seq(Sessions) /\ Len(waitList') = Len(waitList) - 1
      /\ \A i \in 1..Len(waitList') : waitList'[i] = waitList[i + 1]
  BY <1>1 DEF ServerType, Take
<1>4. place' = [place EXCEPT ![c] = "active"]
  BY DEF Take
<1>5. ServerType'
  BY <1>1, <1>2, <1>3, <1>4 DEF ServerType, Take
<1>6. In("active")' = In("active") \cup {c} /\ In("wait")' = In("wait") \ {c}
  BY <1>1, <1>2, <1>4, Moved
<1>7. c \in In("wait") /\ c \notin In("active")
  <2>1. c \in In("wait")
    BY <1>2 DEF PoolInv, PoolAccounted
  <2> QED  BY <2>1 DEF In
<1>8. PoolAccounted'
  <2>1. threads' = nIdleThreads' + nActiveThreads' /\ go' = Len(waitList')
    BY <1>1, <1>3 DEF PoolInv, PoolAccounted, ServerType, Take
  <2>2. nActiveThreads' = Cardinality(In("active")')
    BY <1>6, <1>7, InFinite, FS_AddElement DEF PoolInv, PoolAccounted, Take
  <2>3. In("wait")' = {waitList'[i] : i \in 1..Len(waitList')}
    <3>1. ASSUME NEW d \in In("wait")'
          PROVE  \E i \in 1..Len(waitList') : waitList'[i] = d
      <4>1. PICK j \in 1..Len(waitList) : waitList[j] = d /\ d # c
        BY <3>1, <1>6 DEF PoolInv, PoolAccounted
      <4>2. j - 1 \in 1..Len(waitList') /\ waitList'[j - 1] = d
        BY <4>1, <1>1, <1>2, <1>3 DEF ServerType
      <4> QED  BY <4>2
    <3>2. ASSUME NEW i \in 1..Len(waitList')
          PROVE  waitList'[i] \in In("wait")'
      <4>1. i + 1 \in 1..Len(waitList) /\ i + 1 # 1
        BY <1>1, <1>3 DEF ServerType
      <4>2. waitList[i + 1] # c
        BY <4>1, <1>2 DEF PoolInv, WaitsOnce
      <4> QED  BY <4>1, <4>2, <1>3, <1>6 DEF PoolInv, PoolAccounted
    <3> QED  BY <3>1, <3>2
  <2> QED  BY <2>1, <2>2, <2>3 DEF PoolAccounted, In
<1>9. WaitsOnce'
  <2>1. ASSUME NEW i \in 1..Len(waitList'), NEW j \in 1..Len(waitList'),
               waitList'[i] = waitList'[j]
        PROVE  i = j
    <3>1. i + 1 \in 1..Len(waitList) /\ j + 1 \in 1..Len(waitList)
      BY <1>1, <1>3 DEF ServerType
    <3>2. i + 1 = j + 1
      BY <3>1, <2>1, <1>3 DEF PoolInv, WaitsOnce
    <3> QED  BY <3>2
  <2> QED  BY <2>1 DEF WaitsOnce
<1>10. SomeoneServes'
  BY <1>1 DEF PoolInv, SomeoneServes, Take
<1> QED  BY <1>5, <1>8, <1>9, <1>10 DEF PoolInv

\* The last thread of the pool never leaves it: this is what Stays decides.
LEMMA FinishKeeps ==
  ASSUME PoolInv, NEW c \in Sessions, place[c] = "active", Finish(c)
  PROVE  PoolInv'
<1>1. ServerType
  BY DEF PoolInv
<1>2. In("active")' = In("active") \ {c} /\ In("wait")' = In("wait") \ {c}
  BY <1>1, Moved DEF Finish
<1>3. c \in In("active") /\ c \notin In("wait")
  BY DEF In
<1>4. nActiveThreads' = Cardinality(In("active")') /\ nActiveThreads' \in Nat
  <2>1. IsFiniteSet(In("active")) /\ nActiveThreads = Cardinality(In("active"))
    BY InFinite DEF PoolInv, PoolAccounted
  <2>2. /\ IsFiniteSet(In("active") \ {c})
        /\ Cardinality(In("active") \ {c}) = nActiveThreads - 1
    BY <1>3, <2>1, FS_RemoveElement
  <2>3. Cardinality(In("active") \ {c}) \in Nat
    BY <2>2, FS_CardinalityType
  <2> QED  BY <1>2, <2>2, <2>3 DEF Finish
<1>5. threads' = nIdleThreads' + nActiveThreads' /\ nIdleThreads' \in Nat
  <2>1. /\ nActiveThreads' = nActiveThreads - 1
        /\ \/ nIdleThreads' = nIdleThreads + 1 /\ threads' = threads
           \/ nIdleThreads' = nIdleThreads /\ threads' = threads - 1
    BY DEF Finish
  <2>2. /\ threads = nIdleThreads + nActiveThreads
        /\ nIdleThreads \in Nat /\ nActiveThreads \in Nat /\ threads \in Nat
    BY <1>1 DEF PoolInv, PoolAccounted, ServerType
  <2> QED  BY <2>1, <2>2
<1>6. threads' > 0 /\ threads' \in Nat
  <2>1. nActiveThreads - 1 = nActiveThreads' /\ nActiveThreads \in Nat /\ nIdleThreads \in Nat
    BY <1>1 DEF Finish, ServerType
  <2>2. CASE Stays
    BY <1>4, <1>5, <2>1, <2>2 DEF Finish
  <2>3. CASE ~Stays
    <3>1. nActiveThreads' + nIdleThreads' >= optimalNumberOfThreads
      BY <1>4, <2>1, <2>3, BoundsAssumption DEF Finish, Stays
    <3> QED  BY <1>4, <1>5, <3>1, BoundsAssumption, PoolAssumption
  <2> QED  BY <2>2, <2>3
<1>7. ServerType'
  BY <1>1, <1>4, <1>5, <1>6 DEF ServerType, Finish
<1>8. PoolAccounted'
  BY <1>2, <1>3, <1>4, <1>5 DEF PoolInv, PoolAccounted, Finish, In
<1>9. WaitsOnce' /\ SomeoneServes'
  BY <1>6 DEF PoolInv, WaitsOnce, SomeoneServes, Finish
<1> QED  BY <1>7, <1>8, <1>9 DEF PoolInv

\* A step that neither moves a session to or from the pool nor changes its counts.
LEMMA Elsewhere ==
  ASSUME PoolInv, ServerType', In("active")' = In("active"), In("wait")' = In("wait"),
         UNCHANGED <<waitList, nIdleThreads, nActiveThreads, threads, go>>
  PROVE  PoolInv'
<1>1. PoolAccounted'
  BY DEF PoolInv, PoolAccounted
<1>2. WaitsOnce' /\ SomeoneServes'
  BY DEF PoolInv, WaitsOnce, SomeoneServes
<1> QED  BY <1>1, <1>2 DEF PoolInv

LEMMA OpensKeeps ==
  ASSUME PoolInv, NEW p \in Clients, Opens(p)
  PROVE  PoolInv'
<1> DEFINE c == CHOOSE x \in Free : TRUE
<1>1. c \in Sessions /\ place[c] \in {"free", "gone"}
  BY DEF Opens, Free
<1>2. place' = [place EXCEPT ![c] = "backlog"] /\ ServerType
  BY DEF Opens, PoolInv
<1>3. In("active")' = In("active") /\ In("wait")' = In("wait")
  <2>1. c \notin In("active") /\ c \notin In("wait")
    BY <1>1 DEF In
  <2> HIDE DEF c
  <2>2. In("active")' = In("active") \ {c}
    BY <1>1, <1>2, Moved
  <2>3. In("wait")' = In("wait") \ {c}
    BY <1>1, <1>2, Moved
  <2> QED  BY <2>1, <2>2, <2>3
<1>4. UNCHANGED <<waitList, nIdleThreads, nActiveThreads, threads, go>>
  BY DEF Opens
<1>5. ServerType'
  BY <1>1, <1>2, <1>4 DEF ServerType
<1> QED  BY <1>3, <1>4, <1>5, Elsewhere

LEMMA DiesKeeps ==
  ASSUME PoolInv, Dies
  PROVE  PoolInv'
<1>1. In("active")' = {} /\ In("wait")' = {}
  BY DEF Dies, In
<1>2. ServerType'
  BY DEF ServerType, Dies, PoolInv
<1>3. waitList' = <<>> /\ Len(waitList') = 0
  BY DEF Dies
<1>4. PoolAccounted'
  BY <1>1, <1>3, FS_EmptySet DEF PoolAccounted, Dies, In
<1>5. WaitsOnce' /\ SomeoneServes'
  BY <1>3 DEF WaitsOnce, SomeoneServes
<1> QED  BY <1>2, <1>4, <1>5 DEF PoolInv

\* A process ends with its connection or without ever having one.
LEMMA LeavesEnd == \A p \in Clients : Leave(p) \/ OpenFails(p) => Ends(p)
BY DEF Leave, OpenFails

LEMMA StepKeepsPool == PoolInv /\ [Next]_vars => PoolInv'
<1> SUFFICES ASSUME PoolInv, [Next]_vars  PROVE PoolInv'
  OBVIOUS
<1> DEFINE Quiet == UNCHANGED <<place, waitList, nIdleThreads, nActiveThreads, threads, go>>
<1>1. Quiet => PoolInv'
  <2> SUFFICES ASSUME Quiet  PROVE PoolInv'
    OBVIOUS
  <2>1. In("active")' = In("active") /\ In("wait")' = In("wait") /\ ServerType'
    BY DEF In, ServerType, PoolInv
  <2> QED  BY <2>1, Elsewhere
<1>2. CASE Take  BY <1>2, TakeKeeps
<1>3. CASE Dies  BY <1>3, DiesKeeps
<1>4. ASSUME NEW c \in Sessions, acceptConnection(c)  PROVE PoolInv'
  BY <1>4, AcceptKeeps
<1>5. ASSUME NEW c \in Sessions, serveClient(c)  PROVE PoolInv'
  <2>1. CASE Finish(c)
    BY <1>5, <2>1, FinishKeeps DEF serveClient
  <2>2. CASE Login(c) \/ Broadcast(c)
    BY <2>2, <1>1 DEF Login, Broadcast, server
  <2> QED  BY <1>5, <2>1, <2>2 DEF serveClient
<1>6. ASSUME NEW p \in Clients, ClientStep(p)  PROVE PoolInv'
  <2>1. CASE Opens(p)
    BY <2>1, OpensKeeps
  <2>2. CASE Opened(p) \/ Writes(p) \/ Reads(p) \/ notificationEvent(p)
    BY <2>2, <1>1 DEF Opened, Writes, Reads, notificationEvent, server
  <2> QED  BY <1>6, <2>1, <2>2 DEF ClientStep
<1>7. ASSUME NEW p \in Clients, DoExec(p) \/ Tick(p) \/ ConnectReturns(p) \/ Ends(p)
      PROVE  PoolInv'
  BY <1>7, <1>1 DEF DoExec, Tick, ConnectReturns, Ends, server
<1>8. CASE UNCHANGED vars
  BY <1>8, <1>1 DEF vars, server
<1> QED  BY <1>2, <1>3, <1>4, <1>5, <1>6, <1>7, <1>8, LeavesEnd DEF Next, ServerStep

LEMMA InitPool == Init => PoolInv
<1> SUFFICES ASSUME Init  PROVE PoolInv
  OBVIOUS
<1>1. In("active") = {} /\ In("wait") = {} /\ waitList = <<>>
  BY DEF Init, ServerInit, In
<1>2. ServerType /\ WaitsOnce /\ SomeoneServes
  BY <1>1 DEF Init, ServerInit, ServerType, WaitsOnce, SomeoneServes
<1>3. PoolAccounted
  <2>1. Len(waitList) = 0 /\ go = 0 /\ threads = 0 /\ nIdleThreads = 0 /\ nActiveThreads = 0
    BY <1>1 DEF Init, ServerInit
  <2> QED  BY <1>1, <2>1, FS_EmptySet DEF PoolAccounted
<1> QED  BY <1>2, <1>3 DEF PoolInv

-----------------------------------------------------------------------------
LEMMA PoolInvariant == Spec => []PoolInv
BY InitPool, StepKeepsPool, PTL DEF Spec

\* The counts of the pool are the numbers of its threads and of the sessions they serve,
\* and the semaphore counts the sessions that wait (server_dispatcher.cpp:349-404).
THEOREM CountsAreTrue == Spec => []PoolAccounted
<1>1. PoolInv => PoolAccounted
  BY DEF PoolInv
<1> QED  BY <1>1, PoolInvariant, PTL

\* The pool is never left without a thread while a session waits: the last thread that
\* ends a session stays (server_dispatcher.cpp:363).
THEOREM PoolNeverGivenUp == Spec => []SomeoneServes
<1>1. PoolInv => SomeoneServes
  BY DEF PoolInv
<1> QED  BY <1>1, PoolInvariant, PTL

-----------------------------------------------------------------------------
(* The notifications and the threads of the clients. *)

Msg == [by : Clients, k : Nat]
Event == [op : {"END_WRITE_NOTIF", "END_READ_NOTIF"}, n : Msg]

ClientType ==
  /\ toServer \in [Sessions -> Seq(Msg)] /\ toClient \in [Sessions -> Seq(Msg)]
  /\ log \in Seq(Notification)
  /\ gui \in [Clients -> {"first", "loop", "connecting", "ended"}]
  /\ link \in [Clients -> {"none", "opening", "open", "foreign", "failed"}]
  /\ conn \in [Clients -> Sessions \cup {None}]
  /\ started \in [Clients -> BOOLEAN] /\ fFail \in [Clients -> BOOLEAN]
  /\ WriteQueue \in [Clients -> Seq(Msg)] /\ busy \in [Clients -> Seq(Msg)]
  /\ posted \in [Clients -> Seq(Event)] /\ received \in [Clients -> Seq(Msg)]
  /\ made \in [Clients -> Nat]

LEMMA MsgFacts ==
  /\ \A p \in Clients, k \in Nat : Note(p, k) \in Msg /\ Note(p, k).by = p /\ Note(p, k).k = k
  /\ \A p \in Clients : LoginOf(p) \in Msg /\ LoginOf(p) \notin Notification
  /\ \A n \in Msg : Written(n) \in Event /\ Read(n) \in Event
  /\ \A n \in Notification : n \in Msg
  /\ None \notin Sessions
<1>1. 0 \notin 1..Notes
  OBVIOUS
<1> QED
  BY <1>1, BoundsAssumption DEF Note, Msg, LoginOf, Notification, Written, Read, Event, None,
                                   Sessions

LEMMA TailFacts ==
  ASSUME NEW S, NEW s \in Seq(S), s # <<>>
  PROVE  /\ Tail(s) \in Seq(S) /\ Len(s) \in Nat /\ Len(Tail(s)) = Len(s) - 1
         /\ Head(s) = s[1] /\ 1 \in 1..Len(s) /\ Head(s) \in S
         /\ \A i \in 1..Len(Tail(s)) :
              Tail(s)[i] = s[i + 1] /\ i + 1 \in 1..Len(s) /\ i + 1 # 1
<1>1. /\ Tail(s) \in Seq(S) /\ Len(s) \in Nat /\ Len(s) # 0 /\ Len(Tail(s)) = Len(s) - 1
      /\ Head(s) = s[1]
  OBVIOUS
<1>2. 1 \in 1..Len(s) /\ s[1] \in S
  BY <1>1
<1>3. \A i \in 1..Len(Tail(s)) : i + 1 \in 1..Len(s) /\ i + 1 # 1
  BY <1>1
<1>4. \A i \in 1..Len(Tail(s)) : Tail(s)[i] = s[i + 1]
  BY <1>1
<1> QED  BY <1>1, <1>2, <1>3, <1>4

LEMMA AppendFacts ==
  ASSUME NEW S, NEW s \in Seq(S), NEW x \in S
  PROVE  /\ Append(s, x) \in Seq(S) /\ Len(s) \in Nat /\ Len(Append(s, x)) = Len(s) + 1
         /\ \A i \in 1..Len(s) : Append(s, x)[i] = s[i] /\ i \in 1..Len(Append(s, x))
         /\ Append(s, x)[Len(s) + 1] = x /\ Len(s) + 1 \in 1..Len(Append(s, x))
         /\ \A i \in 1..Len(Append(s, x)) : i \in 1..Len(s) \/ i = Len(s) + 1
<1>1. Append(s, x) \in Seq(S) /\ Len(s) \in Nat /\ Len(Append(s, x)) = Len(s) + 1
  OBVIOUS
<1>2. \A i \in 1..Len(s) : Append(s, x)[i] = s[i]
  OBVIOUS
<1>3. Append(s, x)[Len(s) + 1] = x
  OBVIOUS
<1>4. \A i \in 1..(Len(s) + 1) : i \in 1..Len(s) \/ i = Len(s) + 1
  BY <1>1
<1>5. \A i \in 1..Len(s) : i \in 1..(Len(s) + 1)
  BY <1>1
<1>6. Len(s) + 1 \in 1..(Len(s) + 1)
  BY <1>1
<1> QED  BY <1>1, <1>2, <1>3, <1>4, <1>5, <1>6

LEMMA OneMsg ==
  ASSUME NEW S, NEW x \in S
  PROVE  /\ <<x>> \in Seq(S) /\ Len(<<x>>) = 1 /\ <<x>>[1] = x /\ Head(<<x>>) = x /\ <<x>> # <<>>
         /\ \A i \in 1..Len(<<x>>) : i = 1
<1>1. <<x>> \in Seq(S) /\ Len(<<x>>) = 1 /\ <<x>>[1] = x /\ Head(<<x>>) = x
  OBVIOUS
<1>2. <<x>> # <<>>
  OBVIOUS
<1>3. \A i \in 1..1 : i = 1
  OBVIOUS
<1> QED  BY <1>1, <1>2, <1>3

LEMMA NoMsg == \A S : <<>> \in Seq(S) /\ Len(<<>>) = 0 /\ \A i \in 1..Len(<<>>) : FALSE
OBVIOUS

LEMMA InitClients == Init => ClientType
BY NoMsg DEF Init, ClientType

\* How the threads of a client, its connection and its session go together.
Wired ==
  /\ \A c \in Sessions : place[c] \in {"free", "gone"} => toServer[c] = <<>>
  /\ \A p \in Clients :
       /\ conn[p] # None => place[conn[p]] # "free"
       /\ link[p] = "open" => conn[p] # None
       /\ link[p] \in {"none", "opening"} => ~started[p]
       /\ link[p] = "opening" => ~fFail[p]
       /\ gui[p] # "loop" => ~started[p]
       /\ fFail[p] /\ link[p] = "open" => place[conn[p]] = "gone"

LEMMA ServedType ==
  ASSUME ClientType, NEW c \in Sessions, serveClient(c)
  PROVE  ClientType'
<1> DEFINE h == Head(toServer[c])
<1>1. /\ UNCHANGED <<gui, thread, notifications>>
      /\ toServer[c] \in Seq(Msg)
      /\ \A d \in Sessions : toClient[d] \in Seq(Msg)
  BY DEF serveClient, Login, Broadcast, Finish, wires, ClientType
<1>2. CASE Login(c)
  <2>1. Tail(toServer[c]) \in Seq(Msg) /\ LoginOf(owner[c]) \in Msg
    BY <1>1, <1>2, TailFacts DEF Login
  <2>2. Append(toClient[c], LoginOf(owner[c])) \in Seq(Msg)
    BY <1>1, <2>1, AppendFacts
  <2> QED  BY <1>1, <1>2, <2>1, <2>2 DEF Login, ClientType, thread, notifications
<1>3. CASE Broadcast(c)
  <2>1. Tail(toServer[c]) \in Seq(Msg) /\ h \in Msg /\ h \in Notification
    BY <1>1, <1>3, TailFacts DEF Broadcast
  <2>2. Append(log, h) \in Seq(Notification)
    BY <2>1, AppendFacts DEF ClientType
  <2>3. \A d \in Sessions : Append(toClient[d], h) \in Seq(Msg)
    BY <1>1, <2>1, AppendFacts
  <2>4. toServer' \in [Sessions -> Seq(Msg)] /\ log' \in Seq(Notification)
    BY <1>1, <1>3, <2>1, <2>2 DEF Broadcast, ClientType
  <2>5. toClient' \in [Sessions -> Seq(Msg)]
    BY <1>1, <1>3, <2>3 DEF Broadcast
  <2> QED  BY <1>1, <2>4, <2>5 DEF ClientType, thread, notifications
<1>4. CASE Finish(c)
  BY <1>1, <1>4 DEF Finish, ClientType, thread, notifications, wires
<1> QED  BY <1>2, <1>3, <1>4 DEF serveClient

LEMMA OpensType ==
  ASSUME ClientType, NEW p \in Clients, Opens(p)
  PROVE  ClientType'
<1>1. PICK c \in Sessions : /\ conn' = [conn EXCEPT ![p] = c]
                            /\ toServer' = [toServer EXCEPT ![c] = <<LoginOf(p)>>]
                            /\ toClient' = [toClient EXCEPT ![c] = <<>>]
  BY DEF Opens, Free
<1>2. <<LoginOf(p)>> \in Seq(Msg)
  BY MsgFacts, OneMsg
<1>3. UNCHANGED <<log, gui, link, started, fFail, WriteQueue, busy, posted, made, received>>
  BY DEF Opens, notifications
<1>4. toServer' \in [Sessions -> Seq(Msg)] /\ toClient' \in [Sessions -> Seq(Msg)]
  BY <1>1, <1>2, NoMsg DEF ClientType
<1>5. conn' \in [Clients -> Sessions \cup {None}]
  BY <1>1 DEF ClientType
<1> QED  BY <1>3, <1>4, <1>5 DEF ClientType

LEMMA OpenedType ==
  ASSUME ClientType, NEW p \in Clients, Opened(p)
  PROVE  ClientType'
<1>1. conn[p] \in Sessions
  BY DEF Opened, ClientType
<1>2. toClient[conn[p]] # <<>> => Tail(toClient[conn[p]]) \in Seq(Msg)
  BY <1>1, TailFacts DEF ClientType
<1>3. UNCHANGED <<toServer, log, gui, conn, started, WriteQueue, busy, posted, made, received>>
  BY DEF Opened, notifications
<1>4. toClient' \in [Sessions -> Seq(Msg)]
  BY <1>1, <1>2 DEF Opened, ClientType
<1>5. link' \in [Clients -> {"none", "opening", "open", "foreign", "failed"}]
      /\ fFail' \in [Clients -> BOOLEAN]
  BY DEF Opened, ClientType, Response
<1> QED  BY <1>3, <1>4, <1>5 DEF ClientType

LEMMA WritesType ==
  ASSUME ClientType, Wired, NEW p \in Clients, Writes(p)
  PROVE  ClientType'
<1>1. busy[p] \in Seq(Msg) /\ Head(busy[p]) \in Msg
  BY TailFacts DEF Writes, ClientType
<1>2. Append(posted[p], Written(Head(busy[p]))) \in Seq(Event)
  BY <1>1, MsgFacts, AppendFacts DEF ClientType
<1>3. \A c \in Sessions : Append(toServer[c], Head(busy[p])) \in Seq(Msg)
  BY <1>1, AppendFacts DEF ClientType
<1>4. toServer' \in [Sessions -> Seq(Msg)]
  <2>1. CASE Reachable(p)
    <3>1. conn[p] \in Sessions
      BY <2>1 DEF Reachable, Wired, ClientType
    <3> QED  BY <2>1, <3>1, <1>3 DEF Writes, ClientType
  <2>2. CASE ~Reachable(p)
    BY <2>2 DEF Writes, ClientType
  <2> QED  BY <2>1, <2>2
<1>5. posted' \in [Clients -> Seq(Event)] /\ busy' \in [Clients -> Seq(Msg)]
  BY <1>2, NoMsg DEF Writes, Post, ClientType
<1>6. fFail' \in [Clients -> BOOLEAN]
  BY DEF Writes, ClientType
<1>7. UNCHANGED <<toClient, log, gui, link, conn, started, WriteQueue, made, received>>
  BY DEF Writes
<1> QED  BY <1>4, <1>5, <1>6, <1>7 DEF ClientType

LEMMA ReadsType ==
  ASSUME ClientType, Wired, NEW p \in Clients, Reads(p)
  PROVE  ClientType'
<1>1. conn[p] \in Sessions
  BY DEF Reads, Wired, ClientType
<1>2. Head(toClient[conn[p]]) \in Msg /\ Tail(toClient[conn[p]]) \in Seq(Msg)
  BY <1>1, TailFacts DEF Reads, ClientType
<1>3. Append(posted[p], Read(Head(toClient[conn[p]]))) \in Seq(Event)
  BY <1>2, MsgFacts, AppendFacts DEF ClientType
<1>4. UNCHANGED <<toServer, log, gui, thread, WriteQueue, busy, made, received>>
  BY DEF Reads
<1> QED  BY <1>1, <1>2, <1>3, <1>4 DEF Reads, Post, ClientType, thread

LEMMA EventType ==
  ASSUME ClientType, NEW p \in Clients, notificationEvent(p)
  PROVE  ClientType'
<1> DEFINE e == Head(posted[p])
<1>1. posted[p] \in Seq(Event) /\ posted[p] # <<>>
  BY DEF notificationEvent, ClientType
<1>2. e \in Event /\ Tail(posted[p]) \in Seq(Event)
  BY <1>1, TailFacts
<1>3. e.n \in Msg /\ Append(received[p], e.n) \in Seq(Msg)
  BY <1>2, AppendFacts DEF Event, ClientType
<1>4. /\ UNCHANGED <<toServer, toClient, log, gui, link, conn, started, fFail, made>>
      /\ posted' = [posted EXCEPT ![p] = Tail(@)]
  BY DEF notificationEvent, wires, thread
<1>5. /\ WriteQueue' \in [Clients -> Seq(Msg)] /\ busy' \in [Clients -> Seq(Msg)]
      /\ received' \in [Clients -> Seq(Msg)]
  <2>1. CASE EndWrite(p, e.n)
    <3> DEFINE rest == IF WriteQueue[p] = <<>> THEN <<>> ELSE Tail(WriteQueue[p])
    <3>1. rest \in Seq(Msg)
      BY NoMsg, TailFacts DEF ClientType
    <3>2. rest # <<>> => <<Head(rest)>> \in Seq(Msg)
      BY <3>1, TailFacts, OneMsg
    <3>3. /\ WriteQueue' = [WriteQueue EXCEPT ![p] = rest] /\ received' = received
          /\ busy' = busy \/ (rest # <<>> /\ busy' = [busy EXCEPT ![p] = <<Head(rest)>>])
      BY <2>1 DEF EndWrite, Kick, SetNotif
    <3> HIDE DEF rest
    <3> QED  BY <3>1, <3>2, <3>3 DEF ClientType
  <2>2. CASE received' = [received EXCEPT ![p] = Append(@, e.n)]
             /\ UNCHANGED <<WriteQueue, busy>>
    BY <1>3, <2>2 DEF ClientType
  <2> QED  BY <2>1, <2>2 DEF notificationEvent
<1> QED  BY <1>2, <1>4, <1>5 DEF ClientType

LEMMA ExecType ==
  ASSUME ClientType, NEW p \in Clients, DoExec(p)
  PROVE  ClientType'
<1> DEFINE n == Note(p, made[p] + 1)
<1>1. made[p] \in Nat /\ made[p] + 1 \in Nat
  BY DEF ClientType
<1>2. n \in Msg
  BY <1>1, MsgFacts
<1>3. Append(WriteQueue[p], n) \in Seq(Msg) /\ <<n>> \in Seq(Msg)
  BY <1>2, AppendFacts, OneMsg DEF ClientType
<1>4. /\ UNCHANGED <<toServer, toClient, log, gui, link, conn, started, fFail, posted, received>>
      /\ made' = [made EXCEPT ![p] = @ + 1]
      /\ WriteQueue' = [WriteQueue EXCEPT ![p] = Append(@, n)]
      /\ busy' = busy \/ busy' = [busy EXCEPT ![p] = <<n>>]
  BY DEF DoExec, SetNotif, wires, thread
<1> HIDE DEF n
<1> QED  BY <1>1, <1>3, <1>4 DEF ClientType

LEMMA DropsType ==
  ASSUME ClientType, NEW p \in Clients, Drops(p)
  PROVE  busy' \in [Clients -> Seq(Msg)] /\ WriteQueue' \in [Clients -> Seq(Msg)]
BY NoMsg DEF Drops, ClientType

LEMMA ClosesType ==
  ASSUME ClientType, NEW p \in Clients, Tick(p) \/ ConnectReturns(p) \/ Ends(p)
  PROVE  ClientType'
<1>1. CASE Tick(p)
  <2>1. UNCHANGED <<toServer, toClient, log, posted, made, received>>
    BY <1>1 DEF Tick
  <2>2. busy' \in [Clients -> Seq(Msg)] /\ WriteQueue' \in [Clients -> Seq(Msg)]
    <3>1. CASE Drops(p)  BY <3>1, DropsType
    <3>2. CASE UNCHANGED <<WriteQueue, busy>>  BY <3>2 DEF ClientType
    <3> QED  BY <1>1, <3>1, <3>2 DEF Tick
  <2>3. /\ gui' \in [Clients -> {"first", "loop", "connecting", "ended"}]
        /\ link' \in [Clients -> {"none", "opening", "open", "foreign", "failed"}]
    BY <1>1 DEF Tick, ClientType
  <2>4. /\ conn' \in [Clients -> Sessions \cup {None}]
        /\ started' \in [Clients -> BOOLEAN] /\ fFail' \in [Clients -> BOOLEAN]
    BY <1>1 DEF Tick, ClientType
  <2> QED  BY <2>1, <2>2, <2>3, <2>4 DEF ClientType
<1>2. CASE ConnectReturns(p)
  BY <1>2 DEF ConnectReturns, IsConnected, ClientType, wires, notifications
<1>3. CASE Ends(p)
  <2>1. UNCHANGED <<toServer, toClient, log, fFail, made, received>> /\ Drops(p)
    BY <1>3 DEF Ends
  <2>2. busy' \in [Clients -> Seq(Msg)] /\ WriteQueue' \in [Clients -> Seq(Msg)]
    BY <2>1, DropsType
  <2>3. /\ gui' \in [Clients -> {"first", "loop", "connecting", "ended"}]
        /\ link' \in [Clients -> {"none", "opening", "open", "foreign", "failed"}]
        /\ posted' \in [Clients -> Seq(Event)]
    BY <1>3, NoMsg DEF Ends, ClientType
  <2>4. conn' \in [Clients -> Sessions \cup {None}] /\ started' \in [Clients -> BOOLEAN]
    BY <1>3 DEF Ends, ClientType
  <2> QED  BY <2>1, <2>2, <2>3, <2>4 DEF ClientType
<1> QED  BY <1>1, <1>2, <1>3

LEMMA StepKeepsType == ClientType /\ Wired /\ [Next]_vars => ClientType'
<1> SUFFICES ASSUME ClientType, Wired, [Next]_vars  PROVE ClientType'
  OBVIOUS
<1>1. CASE UNCHANGED <<wires, log, gui, thread, notifications>>
  BY <1>1 DEF ClientType, wires, thread, notifications
<1>2. CASE Take
  BY <1>1, <1>2 DEF Take
<1>3. CASE Dies
  BY <1>3, NoMsg DEF Dies, ClientType, thread, notifications
<1>4. ASSUME NEW c \in Sessions, acceptConnection(c)  PROVE ClientType'
  BY <1>1, <1>4 DEF acceptConnection
<1>5. ASSUME NEW c \in Sessions, serveClient(c)  PROVE ClientType'
  BY <1>5, ServedType
<1>6. ASSUME NEW p \in Clients, ClientStep(p)  PROVE ClientType'
  BY <1>6, OpensType, OpenedType, WritesType, ReadsType, EventType DEF ClientStep
<1>7. ASSUME NEW p \in Clients, DoExec(p) \/ Tick(p) \/ ConnectReturns(p) \/ Ends(p)
      PROVE  ClientType'
  BY <1>7, ExecType, ClosesType
<1>8. CASE UNCHANGED vars
  BY <1>1, <1>8 DEF vars
<1> QED  BY <1>2, <1>3, <1>4, <1>5, <1>6, <1>7, <1>8, LeavesEnd DEF Next, ServerStep

-----------------------------------------------------------------------------
(* How threads, connection and session go together. *)

\* A step that keeps what Wired speaks of, and only moves sessions onwards.
LEMMA WiredByServer ==
  ASSUME ClientType, PoolInv, Wired,
         Take \/ Dies \/ \E c \in Sessions : acceptConnection(c) \/ serveClient(c)
  PROVE  Wired'
<1>1. UNCHANGED <<gui, link, conn, started, fFail>>
  BY DEF Take, Dies, acceptConnection, serveClient, thread
<1>2. \A d \in Sessions : place[d] = "gone" => place'[d] = "gone"
  <2>1. CASE Take
    <3>1. /\ waitList \in Seq(Sessions) /\ waitList # <<>>
          /\ place \in [Sessions -> {"free", "backlog", "wait", "active", "gone"}]
      BY <2>1 DEF Take, PoolInv, ServerType
    <3>2. Head(waitList) = waitList[1] /\ 1 \in 1..Len(waitList)
      BY <3>1, TailFacts
    <3>3. place[Head(waitList)] = "wait"
      BY <3>2 DEF PoolInv, PoolAccounted, In
    <3> QED  BY <2>1, <3>1, <3>3 DEF Take
  <2>2. CASE Dies  BY <2>2 DEF Dies
  <2>3. ASSUME NEW c \in Sessions, acceptConnection(c) \/ serveClient(c)
        PROVE  \A d \in Sessions : place[d] = "gone" => place'[d] = "gone"
    BY <2>3 DEF acceptConnection, serveClient, Login, Broadcast, Finish, server, PoolInv, ServerType
  <2> QED  BY <2>1, <2>2, <2>3
<1>3. \A d \in Sessions : place[d] # "free" => place'[d] # "free"
  BY DEF Take, Dies, acceptConnection, serveClient, Login, Broadcast, Finish, server, PoolInv,
         ServerType
<1>4. \A d \in Sessions : place'[d] \in {"free", "gone"} => toServer'[d] = <<>>
  <2>1. CASE Take
    <3>1. /\ place \in [Sessions -> {"free", "backlog", "wait", "active", "gone"}]
          /\ place' = [place EXCEPT ![Head(waitList)] = "active"] /\ toServer' = toServer
      BY <2>1 DEF Take, PoolInv, ServerType, wires
    <3> QED  BY <3>1 DEF Wired
  <2>2. CASE Dies  BY <2>2 DEF Dies
  <2>3. ASSUME NEW c \in Sessions, acceptConnection(c)
        PROVE  \A d \in Sessions : place'[d] \in {"free", "gone"} => toServer'[d] = <<>>
    <3>1. /\ place \in [Sessions -> {"free", "backlog", "wait", "active", "gone"}]
          /\ place' = [place EXCEPT ![c] = "wait"] /\ toServer' = toServer
      BY <2>3 DEF acceptConnection, PoolInv, ServerType, wires
    <3> QED  BY <3>1 DEF Wired
  <2>4. ASSUME NEW c \in Sessions, serveClient(c)
        PROVE  \A d \in Sessions : place'[d] \in {"free", "gone"} => toServer'[d] = <<>>
    <3>1. CASE Login(c) \/ Broadcast(c)
      <4>1. place' = place /\ toServer' = [toServer EXCEPT ![c] = Tail(@)] /\ place[c] = "active"
        BY <2>4, <3>1 DEF Login, Broadcast, serveClient, server
      <4> QED  BY <4>1 DEF Wired, ClientType
    <3>2. CASE Finish(c)
      <4>1. place' = [place EXCEPT ![c] = "gone"] /\ toServer' = toServer /\ toServer[c] = <<>>
        BY <3>2 DEF Finish, wires
      <4>2. place \in [Sessions -> {"free", "backlog", "wait", "active", "gone"}]
        BY DEF PoolInv, ServerType
      <4> QED  BY <4>1, <4>2 DEF Wired
    <3> QED  BY <2>4, <3>1, <3>2 DEF serveClient
  <2> QED  BY <2>1, <2>2, <2>3, <2>4
<1>5. ASSUME NEW p \in Clients
      PROVE  /\ conn[p] # None => place'[conn[p]] # "free"
             /\ fFail[p] /\ link[p] = "open" => place'[conn[p]] = "gone"
  <2>1. conn[p] \in Sessions \/ conn[p] = None
    BY DEF ClientType
  <2>2. link[p] = "open" => conn[p] # None
    BY DEF Wired
  <2> QED  BY <2>1, <2>2, <1>2, <1>3 DEF Wired
<1> QED  BY <1>1, <1>4, <1>5 DEF Wired

LEMMA WiredByOpens ==
  ASSUME ClientType, PoolInv, Wired, NEW p \in Clients, Opens(p)
  PROVE  Wired'
<1>1. PICK c \in Sessions : /\ conn' = [conn EXCEPT ![p] = c]
                            /\ place' = [place EXCEPT ![c] = "backlog"]
                            /\ toServer' = [toServer EXCEPT ![c] = <<LoginOf(p)>>]
                            /\ \A q \in Clients : conn[q] # c
  BY DEF Opens, Free
<1>2. link[p] = "opening" /\ UNCHANGED <<gui, link, started, fFail>>
  BY DEF Opens
<1>3. /\ place \in [Sessions -> {"free", "backlog", "wait", "active", "gone"}]
      /\ \A q \in Clients : conn[q] \in Sessions \cup {None}
      /\ c # None
  BY MsgFacts DEF PoolInv, ServerType, ClientType
<1>4. \A d \in Sessions : place'[d] \in {"free", "gone"} => toServer'[d] = <<>>
  BY <1>1, <1>3 DEF Wired, ClientType
<1>5. \A q \in Clients : conn'[q] # None => place'[conn'[q]] # "free"
  BY <1>1, <1>3 DEF Wired, ClientType
<1>6. \A q \in Clients : link[q] = "open" => conn'[q] # None
  BY <1>1, <1>3 DEF Wired, ClientType
<1>7. \A q \in Clients : fFail[q] /\ link[q] = "open" => place'[conn'[q]] = "gone"
  <2> SUFFICES ASSUME NEW q \in Clients, fFail[q], link[q] = "open"
               PROVE  place'[conn'[q]] = "gone"
    OBVIOUS
  <2>1. q # p /\ conn'[q] = conn[q] /\ conn[q] # c /\ conn[q] \in Sessions
    BY <1>1, <1>2, <1>3 DEF Wired, ClientType
  <2> QED  BY <2>1, <1>1, <1>3 DEF Wired
<1> QED  BY <1>2, <1>4, <1>5, <1>6, <1>7 DEF Wired

LEMMA WiredByWrites ==
  ASSUME ClientType, PoolInv, Wired, NEW p \in Clients, Writes(p)
  PROVE  Wired'
<1>1. UNCHANGED <<place, gui, link, conn, started>> /\ started[p]
  BY DEF Writes, server
<1>2. CASE Reachable(p)
  <2>1. /\ toServer' = [toServer EXCEPT ![conn[p]] = Append(@, Head(busy[p]))]
        /\ fFail' = fFail /\ place[conn[p]] # "gone" /\ place[conn[p]] # "free"
    BY <1>2 DEF Writes, Reachable, Wired
  <2>2. \A d \in Sessions : d # conn[p] => toServer'[d] = toServer[d]
    BY <2>1 DEF ClientType
  <2> QED  BY <1>1, <2>1, <2>2 DEF Wired
<1>3. CASE ~Reachable(p)
  <2>1. toServer' = toServer /\ \A q \in Clients : q # p => fFail'[q] = fFail[q]
    BY <1>3 DEF Writes, ClientType
  <2>2. link[p] # "opening" /\ (link[p] = "open" => place[conn[p]] = "gone")
    BY <1>1, <1>3 DEF Reachable, Wired
  <2> QED  BY <1>1, <2>1, <2>2 DEF Wired
<1> QED  BY <1>2, <1>3

LEMMA WiredByOpened ==
  ASSUME ClientType, PoolInv, Wired, NEW p \in Clients, Opened(p)
  PROVE  Wired'
<1>1. UNCHANGED <<place, toServer, gui, conn, started>> /\ conn[p] # None /\ link[p] = "opening"
  BY DEF Opened, server
<1>2. /\ \A q \in Clients : q # p => link'[q] = link[q] /\ fFail'[q] = fFail[q]
      /\ \/ link'[p] \in {"open", "foreign"} /\ fFail'[p] = fFail[p]
         \/ link'[p] = "failed"
  BY DEF Opened, Response, ClientType
<1>3. ~fFail[p]
  BY <1>1 DEF Wired
<1> QED  BY <1>1, <1>2, <1>3 DEF Wired

LEMMA WiredByGui ==
  ASSUME ClientType, PoolInv, Wired, NEW p \in Clients,
         Tick(p) \/ ConnectReturns(p) \/ Ends(p)
  PROVE  Wired'
<1>1. /\ UNCHANGED <<place, toServer>>
      /\ \A q \in Clients : q # p =>
           /\ gui'[q] = gui[q] /\ link'[q] = link[q] /\ conn'[q] = conn[q]
           /\ started'[q] = started[q] /\ fFail'[q] = fFail[q]
  BY DEF Tick, ConnectReturns, Ends, ClientType, server, wires
<1>2. /\ conn'[p] # None => place[conn'[p]] # "free"
      /\ link'[p] = "open" => conn'[p] # None
      /\ link'[p] \in {"none", "opening"} => ~started'[p]
      /\ link'[p] = "opening" => ~fFail'[p]
      /\ gui'[p] # "loop" => ~started'[p]
      /\ fFail'[p] /\ link'[p] = "open" => place[conn'[p]] = "gone"
  <2>1. CASE Tick(p)
    BY <2>1 DEF Tick, ClientType
  <2>2. CASE ConnectReturns(p)
    BY <2>2 DEF ConnectReturns, ClientType, IsConnected, Wired
  <2>3. CASE Ends(p)
    BY <2>3 DEF Ends, ClientType
  <2> QED  BY <2>1, <2>2, <2>3
<1> QED  BY <1>1, <1>2 DEF Wired

LEMMA StepKeepsWired == ClientType /\ PoolInv /\ Wired /\ [Next]_vars => Wired'
<1> SUFFICES ASSUME ClientType, PoolInv, Wired, [Next]_vars  PROVE Wired'
  OBVIOUS
<1>1. CASE UNCHANGED <<place, toServer, gui, thread>>
  BY <1>1 DEF Wired, thread
<1>2. ASSUME NEW p \in Clients, ClientStep(p)  PROVE Wired'
  <2>1. CASE Reads(p) \/ notificationEvent(p)
    BY <2>1, <1>1 DEF Reads, notificationEvent, server, wires
  <2> QED  BY <1>2, <2>1, WiredByOpens, WiredByOpened, WiredByWrites DEF ClientStep
<1>3. ASSUME NEW p \in Clients, DoExec(p) \/ Tick(p) \/ ConnectReturns(p) \/ Ends(p)
      PROVE  Wired'
  BY <1>1, <1>3, WiredByGui DEF DoExec, server, wires
<1>4. CASE UNCHANGED vars
  BY <1>1, <1>4 DEF vars, server, wires
<1> QED  BY <1>2, <1>3, <1>4, WiredByServer, LeavesEnd DEF Next, ServerStep

LEMMA InitWired == Init => Wired
BY DEF Init, ServerInit, Wired

-----------------------------------------------------------------------------
(* The numbers of the notifications of a client in a sequence, and their order. *)

Numbers(s, p) == {k \in 1..Notes : \E i \in 1..Len(s) : s[i] = Note(p, k)}
Below(A, B) == \A a \in A, b \in B : a < b
Rising(s, p) ==
  \A i, j \in 1..Len(s), a, b \in 1..Notes :
    i < j /\ s[i] = Note(p, a) /\ s[j] = Note(p, b) => a < b

\* What client p has on its way to the server, and what its queue holds behind its head.
Wire(p) == UNION {Numbers(toServer[c], p) : c \in Sessions}
Rest(q) == IF q = <<>> THEN <<>> ELSE Tail(q)

\* Logged before on the wire before with the writer before in the queue, and made by then.
Line(L, W, B, R, m) ==
  /\ Below(L, W) /\ Below(L, B) /\ Below(L, R) /\ Below(W, B) /\ Below(W, R) /\ Below(B, R)
  /\ L \cup W \cup B \cup R \subseteq 1..m

Own(s, p) == \A i \in 1..Len(s) : s[i].by = p

IssuedBy(p) ==
  /\ Line(Numbers(log, p), Wire(p), Numbers(busy[p], p), Numbers(Rest(WriteQueue[p]), p), made[p])
  /\ Numbers(WriteQueue[p], p) \subseteq 1..made[p]
  /\ Rising(log, p) /\ Rising(WriteQueue[p], p) /\ \A c \in Sessions : Rising(toServer[c], p)
  /\ Own(busy[p], p) /\ Own(WriteQueue[p], p)

\* A client has notifications on the wire of one session at most: its own.
OneWire(p) ==
  \A c \in Sessions : Numbers(toServer[c], p) # {} =>
    /\ gui[p] # "ended" => started[p] /\ link[p] = "open" /\ conn[p] = c
    /\ \A d \in Sessions : Numbers(toServer[d], p) # {} => c = d

IssuedInv == \A p \in Clients : OneWire(p) /\ IssuedBy(p)

LEMMA NumbersNat == \A s, p : Numbers(s, p) \subseteq Nat /\ Numbers(s, p) \subseteq 1..Notes
BY BoundsAssumption DEF Numbers

LEMMA NumbersNone == \A p : Numbers(<<>>, p) = {} /\ Rising(<<>>, p)
BY NoMsg DEF Numbers, Rising

LEMMA NumbersTail ==
  ASSUME NEW s \in Seq(Msg), s # <<>>, NEW p
  PROVE  /\ Numbers(Tail(s), p) \subseteq Numbers(s, p)
         /\ Rising(s, p) => Rising(Tail(s), p)
<1> DEFINE t == Tail(s)
<1>1. \A i \in 1..Len(t) : t[i] = s[i + 1] /\ i + 1 \in 1..Len(s)
  BY TailFacts
<1>2. \A i, j \in 1..Len(t) : i < j => i + 1 < j + 1
  BY TailFacts
<1> HIDE DEF t
<1>3. Numbers(t, p) \subseteq Numbers(s, p)
  BY <1>1 DEF Numbers
<1>4. ASSUME Rising(s, p), NEW i \in 1..Len(t), NEW j \in 1..Len(t), NEW a \in 1..Notes,
             NEW b \in 1..Notes, i < j, t[i] = Note(p, a), t[j] = Note(p, b)
      PROVE  a < b
  <2>1. s[i + 1] = Note(p, a) /\ s[j + 1] = Note(p, b) /\ i + 1 < j + 1
        /\ i + 1 \in 1..Len(s) /\ j + 1 \in 1..Len(s)
    BY <1>1, <1>2, <1>4
  <2> QED  BY <2>1, <1>4 DEF Rising
<1> QED  BY <1>3, <1>4 DEF Rising, t

\* The head of a sequence in order comes before all that follows.
LEMMA HeadFirst ==
  ASSUME NEW s \in Seq(Msg), s # <<>>, NEW p, Rising(s, p)
  PROVE  Below(Numbers(<<Head(s)>>, p), Numbers(Tail(s), p))
<1>1. Head(s) = s[1] /\ 1 \in 1..Len(s)
  BY TailFacts
<1>2. \A i \in 1..Len(Tail(s)) : Tail(s)[i] = s[i + 1] /\ i + 1 \in 1..Len(s) /\ 1 < i + 1
  BY TailFacts
<1>3. ASSUME NEW a \in Numbers(<<Head(s)>>, p), NEW b \in Numbers(Tail(s), p)
      PROVE  a < b
  <2>1. a \in 1..Notes /\ s[1] = Note(p, a)
    BY <1>1, <1>3, OneMsg DEF Numbers
  <2>2. PICK i \in 1..Len(Tail(s)) : Tail(s)[i] = Note(p, b)
    BY <1>3 DEF Numbers
  <2>3. b \in 1..Notes /\ s[i + 1] = Note(p, b) /\ i + 1 \in 1..Len(s) /\ 1 < i + 1
    BY <1>2, <1>3, <2>2 DEF Numbers
  <2> QED  BY <1>1, <2>1, <2>3 DEF Rising
<1> QED  BY <1>3 DEF Below

LEMMA HeadOfNumbers ==
  ASSUME NEW s \in Seq(Msg), s # <<>>, NEW p
  PROVE  Numbers(<<Head(s)>>, p) \subseteq Numbers(s, p)
<1>1. Head(s) = s[1] /\ 1 \in 1..Len(s)
  BY TailFacts
<1>2. \A i \in 1..Len(<<Head(s)>>) : <<Head(s)>>[i] = s[1]
  BY <1>1, OneMsg
<1> QED  BY <1>1, <1>2 DEF Numbers

LEMMA NumbersOfOne ==
  ASSUME NEW p \in Clients, NEW q \in Clients, NEW k \in Nat
  PROVE  Numbers(<<Note(q, k)>>, p) = IF p = q /\ k \in 1..Notes THEN {k} ELSE {}
<1>1. <<Note(q, k)>>[1] = Note(q, k) /\ Len(<<Note(q, k)>>) = 1
  BY OneMsg, MsgFacts
<1>2. \A a : Note(q, k) = Note(p, a) => p = q /\ a = k
  BY DEF Note
<1>3. 1..1 = {1}
  OBVIOUS
<1> QED  BY <1>1, <1>2, <1>3 DEF Numbers

LEMMA NumbersAppend ==
  ASSUME NEW s \in Seq(Msg), NEW x \in Msg, NEW p
  PROVE  /\ Numbers(Append(s, x), p) = Numbers(s, p) \cup Numbers(<<x>>, p)
         /\ Rising(s, p) /\ Below(Numbers(s, p), Numbers(<<x>>, p)) => Rising(Append(s, x), p)
<1> DEFINE t == Append(s, x)
           n == Len(s) + 1
<1>1. /\ \A i \in 1..Len(s) : t[i] = s[i] /\ i \in 1..Len(t) /\ i < n
      /\ t[n] = x /\ n \in 1..Len(t)
      /\ \A i \in 1..Len(t) : i \in 1..Len(s) \/ i = n
  BY AppendFacts
<1>2. \A i \in 1..Len(t) : ~(n < i)
  BY AppendFacts
<1> HIDE DEF t, n
<1>3. 1 \in 1..Len(<<x>>) /\ \A i \in 1..Len(<<x>>) : <<x>>[i] = x
  BY OneMsg
<1>4. Numbers(t, p) = Numbers(s, p) \cup Numbers(<<x>>, p)
  BY <1>1, <1>3 DEF Numbers
<1>5. ASSUME Rising(s, p), Below(Numbers(s, p), Numbers(<<x>>, p)),
             NEW i \in 1..Len(t), NEW j \in 1..Len(t), NEW a \in 1..Notes, NEW b \in 1..Notes,
             i < j, t[i] = Note(p, a), t[j] = Note(p, b)
      PROVE  a < b
  <2>1. i \in 1..Len(s)
    BY <1>1, <1>2, <1>5
  <2>2. CASE j \in 1..Len(s)
    BY <1>1, <1>5, <2>1, <2>2 DEF Rising
  <2>3. CASE j = n
    <3>1. a \in Numbers(s, p) /\ b \in Numbers(<<x>>, p)
      BY <1>1, <1>3, <1>5, <2>1, <2>3 DEF Numbers
    <3> QED  BY <3>1, <1>5 DEF Below
  <2> QED  BY <1>1, <2>2, <2>3
<1> QED  BY <1>4, <1>5 DEF Rising, t

\* Of what is further back it matters that it becomes less, of the count that it grows.
LEMMA LineShrinks ==
  ASSUME NEW L, NEW W, NEW B, NEW R, NEW m \in Nat, Line(L, W, B, R, m),
         NEW W2 \in SUBSET W, NEW B2 \in SUBSET B, NEW R2 \in SUBSET R, NEW m2 \in Nat, m <= m2
  PROVE  Line(L, W2, B2, R2, m2)
<1>1. 1..m \subseteq 1..m2
  OBVIOUS
<1> QED  BY <1>1 DEF Line, Below

LEMMA OwnTail ==
  ASSUME NEW s \in Seq(Msg), s # <<>>, NEW p, Own(s, p)
  PROVE  Own(Tail(s), p) /\ Own(<<Head(s)>>, p) /\ Head(s).by = p
<1>1. Head(s) = s[1] /\ 1 \in 1..Len(s)
      /\ \A i \in 1..Len(Tail(s)) : Tail(s)[i] = s[i + 1] /\ i + 1 \in 1..Len(s)
  BY TailFacts
<1>2. \A i \in 1..Len(<<Head(s)>>) : <<Head(s)>>[i] = Head(s)
  BY <1>1, OneMsg
<1> QED  BY <1>1, <1>2 DEF Own

LEMMA OwnAppend ==
  ASSUME NEW s \in Seq(Msg), NEW x \in Msg, NEW p, Own(s, p), x.by = p
  PROVE  Own(Append(s, x), p) /\ Own(<<x>>, p)
<1>1. /\ \A i \in 1..Len(s) : Append(s, x)[i] = s[i]
      /\ Append(s, x)[Len(s) + 1] = x
      /\ \A i \in 1..Len(Append(s, x)) : i \in 1..Len(s) \/ i = Len(s) + 1
  BY AppendFacts
<1>2. \A i \in 1..Len(<<x>>) : <<x>>[i] = x
  BY OneMsg
<1> QED  BY <1>1, <1>2 DEF Own

LEMMA OwnNone == \A p : Own(<<>>, p)
BY NoMsg DEF Own

\* What is not of a client has no number of it.
LEMMA OfAnother ==
  ASSUME NEW x \in Msg, NEW p \in Clients, x.by # p
  PROVE  Numbers(<<x>>, p) = {}
<1>1. \A i \in 1..Len(<<x>>) : <<x>>[i] = x
  BY OneMsg
<1> QED  BY <1>1 DEF Numbers, Note

LEMMA RestFacts ==
  ASSUME NEW s \in Seq(Msg), NEW p
  PROVE  /\ Rest(s) \in Seq(Msg) /\ Numbers(Rest(s), p) \subseteq Numbers(s, p)
         /\ Rising(s, p) => Rising(Rest(s), p)
         /\ Own(s, p) => Own(Rest(s), p)
<1>1. CASE s = <<>>
  BY <1>1, NoMsg DEF Rest
<1>2. CASE s # <<>>
  BY <1>2, TailFacts, NumbersTail, OwnTail DEF Rest
<1> QED  BY <1>1, <1>2

-----------------------------------------------------------------------------
(* Each kind of step, for one client. *)

Sheds(p) ==
  /\ log' = log /\ made'[p] = made[p]
  /\ \A c \in Sessions : /\ Numbers(toServer'[c], p) \subseteq Numbers(toServer[c], p)
                         /\ Rising(toServer'[c], p)

\* Its thread and connection stay as they are, or it has nothing on a wire.
Settled(p) ==
  \/ gui'[p] = gui[p] /\ started'[p] = started[p] /\ link'[p] = link[p] /\ conn'[p] = conn[p]
  \/ gui'[p] = "ended"
  \/ \A c \in Sessions : Numbers(toServer[c], p) = {}

LEMMA ShedsKeeps ==
  ASSUME ClientType, ClientType', NEW p \in Clients, OneWire(p), IssuedBy(p), Sheds(p), Settled(p),
         \/ busy'[p] = busy[p] /\ WriteQueue'[p] = WriteQueue[p]
         \/ busy'[p] = <<>> /\ WriteQueue'[p] \in {<<>>, WriteQueue[p]}
         \/ busy'[p] = busy[p] /\ WriteQueue'[p] = Rest(WriteQueue[p])
  PROVE  OneWire(p)' /\ IssuedBy(p)'
<1>1. OneWire(p)'
  BY DEF OneWire, Sheds, Settled
<1>2. /\ WriteQueue[p] \in Seq(Msg) /\ busy[p] \in Seq(Msg) /\ made[p] \in Nat
      /\ Rest(WriteQueue[p]) \in Seq(Msg)
  BY RestFacts DEF ClientType
<1>3. /\ Numbers(WriteQueue'[p], p) \subseteq Numbers(WriteQueue[p], p)
      /\ Rising(WriteQueue'[p], p) /\ Own(WriteQueue'[p], p)
  BY <1>2, NumbersNone, RestFacts, OwnNone DEF IssuedBy
<1>4. Numbers(Rest(WriteQueue'[p]), p) \subseteq Numbers(Rest(WriteQueue[p]), p)
  <2>1. Rest(<<>>) = <<>>
    BY DEF Rest
  <2>2. CASE WriteQueue'[p] = Rest(WriteQueue[p])
    BY <1>2, <2>2, RestFacts
  <2> QED  BY <2>1, <2>2, NumbersNone
<1>5. Numbers(busy'[p], p) \subseteq Numbers(busy[p], p) /\ Own(busy'[p], p)
  BY NumbersNone, OwnNone DEF IssuedBy
<1>6. Wire(p)' \subseteq Wire(p)
  BY DEF Wire, Sheds
<1>7. Line(Numbers(log, p), Wire(p)', Numbers(busy'[p], p),
           Numbers(Rest(WriteQueue'[p]), p), made[p])
  BY <1>2, <1>4, <1>5, <1>6, LineShrinks DEF IssuedBy
<1>8. IssuedBy(p)'
  BY <1>3, <1>5, <1>7 DEF IssuedBy, Sheds
<1> QED  BY <1>1, <1>8

LEMMA BroadcastKeeps ==
  ASSUME ClientType, ClientType', NEW c \in Sessions, Broadcast(c),
         UNCHANGED <<gui, thread, notifications>>,
         NEW p \in Clients, OneWire(p), IssuedBy(p)
  PROVE  OneWire(p)' /\ IssuedBy(p)'
<1> DEFINE h == Head(toServer[c])
           N == Numbers(<<h>>, p)
           T == Numbers(Tail(toServer[c]), p)
<1>1. /\ toServer[c] # <<>> /\ toServer[c] \in Seq(Msg) /\ h \in Msg
      /\ log' = Append(log, h) /\ toServer' = [toServer EXCEPT ![c] = Tail(@)]
      /\ log \in Seq(Msg)
  BY TailFacts, MsgFacts DEF Broadcast, ClientType
<1>2. /\ N \subseteq Numbers(toServer[c], p) /\ T \subseteq Numbers(toServer[c], p)
      /\ Rising(Tail(toServer[c]), p) /\ Below(N, T)
  BY <1>1, NumbersTail, HeadFirst, HeadOfNumbers DEF IssuedBy
<1>3. \A d \in Sessions : toServer'[d] = IF d = c THEN Tail(toServer[c]) ELSE toServer[d]
  BY <1>1 DEF ClientType
<1>4. /\ \A d \in Sessions : /\ Numbers(toServer'[d], p) \subseteq Numbers(toServer[d], p)
                             /\ Rising(toServer'[d], p)
  BY <1>2, <1>3 DEF IssuedBy
<1>5. OneWire(p)'
  BY <1>4 DEF OneWire, thread
<1>6. N \subseteq Wire(p) /\ Wire(p)' \subseteq Wire(p)
  BY <1>2, <1>4 DEF Wire
<1>7. Below(N, Wire(p)')
  <2>1. ASSUME NEW a \in N, NEW b \in Wire(p)'
        PROVE  a < b
    <3>1. PICK d \in Sessions : b \in Numbers(toServer'[d], p)
      BY <2>1 DEF Wire
    <3>2. d = c
      BY <2>1, <3>1, <1>2, <1>4 DEF OneWire
    <3>3. b \in T
      BY <3>1, <3>2, <1>3
    <3> QED  BY <2>1, <3>3, <1>2 DEF Below
  <2> QED  BY <2>1 DEF Below
<1>8. Line(Numbers(log, p), Wire(p), Numbers(busy[p], p),
           Numbers(Rest(WriteQueue[p]), p), made[p])
  BY DEF IssuedBy
<1>9. Numbers(log', p) = Numbers(log, p) \cup N /\ Rising(log', p)
  <2>1. Below(Numbers(log, p), N)
    BY <1>6, <1>8 DEF Line, Below
  <2> QED  BY <1>1, <2>1, NumbersAppend DEF IssuedBy
<1> HIDE DEF N, T
<1>10. Line(Numbers(log', p), Wire(p)', Numbers(busy[p], p),
            Numbers(Rest(WriteQueue[p]), p), made[p])
  BY <1>6, <1>7, <1>8, <1>9 DEF Line, Below
<1>11. IssuedBy(p)'
  BY <1>4, <1>9, <1>10 DEF IssuedBy, notifications
<1> QED  BY <1>5, <1>11

LEMMA SendKeeps ==
  ASSUME ClientType, ClientType', Wired, NEW q \in Clients, Writes(q), Reachable(q),
         OneWire(q), IssuedBy(q), NEW p \in Clients, OneWire(p), IssuedBy(p)
  PROVE  OneWire(p)' /\ IssuedBy(p)'
<1> DEFINE c == conn[q]
           x == Head(busy[q])
           N == Numbers(<<x>>, p)
<1>1. /\ c \in Sessions /\ busy[q] # <<>> /\ busy[q] \in Seq(Msg) /\ x \in Msg
      /\ toServer[c] \in Seq(Msg)
  BY TailFacts DEF Writes, Reachable, Wired, ClientType
<1>2. /\ toServer' = [toServer EXCEPT ![c] = Append(@, x)] /\ busy' = [busy EXCEPT ![q] = <<>>]
      /\ UNCHANGED <<log, gui, link, conn, started, WriteQueue, made>>
      /\ started[q] /\ link[q] = "open"
  BY DEF Writes, Reachable
<1>3. p # q => N = {} /\ busy'[p] = busy[p]
  <2>1. x.by = q
    BY <1>1, OwnTail DEF IssuedBy
  <2> QED  BY <1>1, <1>2, <2>1, OfAnother DEF ClientType
<1>4. p = q => N \subseteq Numbers(busy[p], p) /\ busy'[p] = <<>>
  BY <1>1, <1>2, HeadOfNumbers DEF ClientType
<1>5. gui[q] # "ended"
  BY <1>2 DEF Wired
<1>6. \A d \in Sessions : d # c => toServer'[d] = toServer[d]
  BY <1>2 DEF ClientType
<1>7. toServer'[c] = Append(toServer[c], x)
  BY <1>1, <1>2 DEF ClientType
<1>8. Numbers(toServer'[c], p) = Numbers(toServer[c], p) \cup N
  BY <1>1, <1>7, NumbersAppend
<1>9. Line(Numbers(log, p), Wire(p), Numbers(busy[p], p),
           Numbers(Rest(WriteQueue[p]), p), made[p])
  BY DEF IssuedBy
<1>10. Rising(toServer'[c], p)
  <2>1. Numbers(toServer[c], p) \subseteq Wire(p)
    BY <1>1 DEF Wire
  <2>2. Below(Numbers(toServer[c], p), N)
    BY <1>3, <1>4, <1>9, <2>1 DEF Line, Below
  <2> QED  BY <1>1, <1>7, <2>2, NumbersAppend DEF IssuedBy
<1>11. OneWire(p)'
  <2> HIDE DEF c, x, N
  <2>1. CASE p # q
    <3>1. \A d \in Sessions : Numbers(toServer'[d], p) = Numbers(toServer[d], p)
      BY <1>3, <1>6, <1>8, <2>1
    <3> QED  BY <1>2, <3>1 DEF OneWire
  <2>2. CASE p = q
    <3>1. \A d \in Sessions : Numbers(toServer[d], p) # {} => d = c
      BY <1>5, <2>2 DEF OneWire, c
    <3>2. \A d \in Sessions : Numbers(toServer'[d], p) # {} => d = c
      BY <1>6, <3>1
    <3>3. started'[p] /\ link'[p] = "open" /\ conn'[p] = c
      BY <1>2, <2>2 DEF c
    <3> QED  BY <3>2, <3>3 DEF OneWire
  <2> QED  BY <2>1, <2>2
<1>12. Wire(p)' \subseteq Wire(p) \cup N
  <2>1. ASSUME NEW k \in Wire(p)'  PROVE k \in Wire(p) \cup N
    <3>1. PICK d \in Sessions : k \in Numbers(toServer'[d], p)
      BY <2>1 DEF Wire
    <3>2. k \in Numbers(toServer[d], p) \cup N
      BY <1>6, <1>8, <3>1
    <3> QED  BY <3>2 DEF Wire
  <2> QED  BY <2>1
<1>13. Line(Numbers(log, p), Wire(p)', Numbers(busy'[p], p),
            Numbers(Rest(WriteQueue[p]), p), made[p])
  <2> HIDE DEF N, c, x
  <2>1. CASE p # q
    BY <1>3, <1>9, <1>12, <2>1 DEF Line, Below
  <2>2. CASE p = q
    <3>1. Numbers(busy'[p], p) = {}
      BY <1>4, <2>2, NumbersNone
    <3> QED  BY <1>4, <1>9, <1>12, <2>2, <3>1 DEF Line, Below
  <2> QED  BY <2>1, <2>2
<1>14. IssuedBy(p)'
  <2>1. Own(busy'[p], p)
    BY <1>3, <1>4, OwnNone DEF IssuedBy
  <2>2. \A d \in Sessions : Rising(toServer'[d], p)
    BY <1>6, <1>10 DEF IssuedBy
  <2> QED  BY <1>2, <1>13, <2>1, <2>2 DEF IssuedBy
<1> QED  BY <1>11, <1>14

LEMMA RestAppend ==
  ASSUME NEW s \in Seq(Msg), NEW x \in Msg, NEW p
  PROVE  Numbers(Rest(Append(s, x)), p) \subseteq
           Numbers(Rest(s), p) \cup (IF s = <<>> THEN {} ELSE Numbers(<<x>>, p))
<1> DEFINE t == Append(s, x)
<1>1. t \in Seq(Msg) /\ t # <<>> /\ Len(t) = Len(s) + 1 /\ Len(s) \in Nat
  BY AppendFacts
<1>2. /\ Rest(t) = Tail(t) /\ Len(Tail(t)) = Len(s)
      /\ \A i \in 1..Len(Tail(t)) : Tail(t)[i] = t[i + 1] /\ i + 1 \in 1..Len(t)
  BY <1>1, TailFacts DEF Rest
<1>3. CASE s = <<>>
  <2>1. Tail(t) = <<>>
    BY <1>2, <1>3, <1>1
  <2> QED  BY <1>2, <2>1, NumbersNone
<1>4. CASE s # <<>>
  <2>1. ASSUME NEW k \in Numbers(Tail(t), p)
        PROVE  k \in Numbers(Rest(s), p) \cup Numbers(<<x>>, p)
    <3>1. PICK i \in 1..Len(Tail(t)) : Tail(t)[i] = Note(p, k)
      BY <2>1 DEF Numbers
    <3>2. t[i + 1] = Note(p, k) /\ k \in 1..Notes
      BY <1>2, <2>1, <3>1 DEF Numbers
    <3>3. CASE i + 1 = Len(s) + 1
      <4>1. x = Note(p, k)
        BY <3>2, <3>3, AppendFacts
      <4> QED  BY <3>2, <4>1, OneMsg DEF Numbers
    <3>4. CASE i + 1 # Len(s) + 1
      <4>1. i \in 1..Len(Tail(s)) /\ i + 1 \in 1..Len(s)
        BY <1>1, <1>2, <1>4, <3>1, <3>4, TailFacts
      <4>2. Tail(s)[i] = Note(p, k)
        BY <1>4, <3>2, <4>1, TailFacts, AppendFacts
      <4> QED  BY <1>4, <3>2, <4>1, <4>2 DEF Numbers, Rest
    <3> QED  BY <3>3, <3>4
  <2> QED  BY <1>2, <1>4, <2>1
<1> QED  BY <1>3, <1>4

LEMMA ExecKeeps ==
  ASSUME ClientType, ClientType', NEW p \in Clients, DoExec(p), OneWire(p), IssuedBy(p)
  PROVE  OneWire(p)' /\ IssuedBy(p)'
<1> DEFINE m == made[p] + 1
           n == Note(p, m)
           N == Numbers(<<n>>, p)
           s == WriteQueue[p]
<1>1. made[p] \in Nat /\ m \in Nat /\ made[p] < m /\ s \in Seq(Msg) /\ busy[p] \in Seq(Msg)
  BY DEF ClientType
<1>2. n \in Msg /\ n.by = p
  BY <1>1, MsgFacts
<1>3. /\ UNCHANGED <<toServer, log, gui, link, conn, started>>
      /\ made'[p] = m /\ WriteQueue'[p] = Append(s, n)
      /\ busy'[p] = IF s = <<>> /\ busy[p] = <<>> THEN <<n>> ELSE busy[p]
  BY DEF DoExec, SetNotif, wires, thread, ClientType
<1>4. N \subseteq {m}
  BY <1>1, NumbersOfOne
<1>5. Line(Numbers(log, p), Wire(p), Numbers(busy[p], p), Numbers(Rest(s), p), made[p])
      /\ Numbers(s, p) \subseteq 1..made[p]
  BY DEF IssuedBy
<1>6. \A A \in SUBSET (1..made[p]) : Below(A, N) /\ A \subseteq 1..m /\ {m} \subseteq 1..m
  BY <1>1, <1>4 DEF Below
<1> HIDE DEF m, n, N, s
<1>7. OneWire(p)'
  BY <1>3 DEF OneWire
<1>8. /\ Numbers(WriteQueue'[p], p) = Numbers(s, p) \cup N
      /\ Rising(WriteQueue'[p], p) /\ Own(WriteQueue'[p], p)
  BY <1>1, <1>2, <1>3, <1>5, <1>6, NumbersAppend, OwnAppend DEF IssuedBy, N, s
<1>9. Numbers(Rest(WriteQueue'[p]), p) \subseteq
        Numbers(Rest(s), p) \cup (IF s = <<>> THEN {} ELSE N)
  BY <1>1, <1>2, <1>3, RestAppend DEF N
<1>10. Own(busy'[p], p)
  <2>1. Own(s, p) /\ Own(busy[p], p)
    BY DEF IssuedBy, s
  <2>2. Own(<<n>>, p)
    BY <1>1, <1>2, <2>1, OwnAppend
  <2> QED  BY <1>3, <2>1, <2>2
<1>11. Line(Numbers(log, p), Wire(p), Numbers(busy'[p], p), Numbers(Rest(WriteQueue'[p]), p), m)
  <2>1. CASE s = <<>> /\ busy[p] = <<>>
    <3>1. busy'[p] = <<n>> /\ Numbers(Rest(WriteQueue'[p]), p) = {}
      BY <1>3, <1>9, <2>1, NumbersNone DEF Rest
    <3>2. Numbers(busy'[p], p) = N
      BY <3>1 DEF N
    <3>3. /\ Numbers(log, p) \subseteq 1..made[p] /\ Wire(p) \subseteq 1..made[p]
          /\ Below(Numbers(log, p), Wire(p))
      BY <1>5 DEF Line
    <3>4. /\ Below(Numbers(log, p), N) /\ Below(Wire(p), N)
          /\ Numbers(log, p) \subseteq 1..m /\ Wire(p) \subseteq 1..m /\ N \subseteq 1..m
      BY <1>4, <1>6, <3>3
    <3> QED  BY <3>1, <3>2, <3>3, <3>4 DEF Line, Below
  <2>2. CASE ~(s = <<>> /\ busy[p] = <<>>)
    <3>1. Numbers(busy'[p], p) = Numbers(busy[p], p)
      BY <1>3, <2>2
    <3>2. /\ Numbers(log, p) \subseteq 1..made[p] /\ Wire(p) \subseteq 1..made[p]
          /\ Numbers(busy[p], p) \subseteq 1..made[p] /\ Numbers(Rest(s), p) \subseteq 1..made[p]
      BY <1>5 DEF Line
    <3>3. /\ Below(Numbers(log, p), N) /\ Below(Wire(p), N) /\ Below(Numbers(busy[p], p), N)
          /\ Numbers(log, p) \subseteq 1..m /\ Wire(p) \subseteq 1..m
          /\ Numbers(busy[p], p) \subseteq 1..m /\ Numbers(Rest(s), p) \subseteq 1..m
          /\ N \subseteq 1..m
      BY <1>4, <1>6, <3>2
    <3>4. Numbers(Rest(WriteQueue'[p]), p) \subseteq Numbers(Rest(s), p) \cup N
      BY <1>9
    <3> QED  BY <1>5, <3>1, <3>3, <3>4 DEF Line, Below
  <2> QED  BY <2>1, <2>2
<1>12. Numbers(WriteQueue'[p], p) \subseteq 1..m
  BY <1>4, <1>5, <1>6, <1>8
<1>13. Wire(p)' = Wire(p)
  BY <1>3 DEF Wire
<1> QED  BY <1>3, <1>7, <1>8, <1>10, <1>11, <1>12, <1>13 DEF IssuedBy

\* The writer is given what follows what it had.
LEMMA KickKeeps ==
  ASSUME ClientType, ClientType', NEW p \in Clients, OneWire(p), IssuedBy(p),
         UNCHANGED <<toServer, log, gui, thread, made>>,
         Rest(WriteQueue[p]) # <<>>, WriteQueue'[p] = Rest(WriteQueue[p]),
         busy'[p] = <<Head(Rest(WriteQueue[p]))>>, busy[p] = <<>>
  PROVE  OneWire(p)' /\ IssuedBy(p)'
<1> DEFINE s == WriteQueue[p]
           r == Rest(s)
           N == Numbers(<<Head(r)>>, p)
<1>1. /\ r \in Seq(Msg) /\ Numbers(r, p) \subseteq Numbers(s, p) /\ Rising(r, p) /\ Own(r, p)
      /\ r # <<>> /\ made[p] \in Nat
  BY RestFacts DEF IssuedBy, ClientType
<1>2. /\ N \subseteq Numbers(r, p) /\ Numbers(Tail(r), p) \subseteq Numbers(r, p)
      /\ Below(N, Numbers(Tail(r), p)) /\ Own(<<Head(r)>>, p)
  BY <1>1, HeadOfNumbers, HeadFirst, NumbersTail, OwnTail
<1>3. Rest(WriteQueue'[p]) = Tail(r) /\ WriteQueue'[p] = r /\ busy'[p] = <<Head(r)>>
  BY <1>1 DEF Rest
<1>4. Line(Numbers(log, p), Wire(p), Numbers(busy[p], p), Numbers(r, p), made[p])
      /\ Numbers(s, p) \subseteq 1..made[p]
  BY DEF IssuedBy
<1> HIDE DEF s, r, N
<1>5. Line(Numbers(log, p), Wire(p), N, Numbers(Tail(r), p), made[p])
  BY <1>2, <1>4 DEF Line, Below
<1>6. Wire(p)' = Wire(p) /\ OneWire(p)'
  BY DEF Wire, OneWire, thread
<1>7. N = Numbers(busy'[p], p)
  BY <1>3 DEF N
<1>8. Numbers(WriteQueue'[p], p) \subseteq 1..made[p]
  BY <1>1, <1>3, <1>4
<1>9. Line(Numbers(log', p), Wire(p)', Numbers(busy'[p], p),
           Numbers(Rest(WriteQueue'[p]), p), made'[p])
  BY <1>3, <1>5, <1>6, <1>7
<1>10. /\ Rising(log', p) /\ Rising(WriteQueue'[p], p)
       /\ \A c \in Sessions : Rising(toServer'[c], p)
       /\ Own(busy'[p], p) /\ Own(WriteQueue'[p], p)
  BY <1>1, <1>2, <1>3 DEF IssuedBy
<1> QED  BY <1>6, <1>8, <1>9, <1>10 DEF IssuedBy

LEMMA EventKeeps ==
  ASSUME ClientType, ClientType', NEW q \in Clients, notificationEvent(q),
         NEW p \in Clients, OneWire(p), IssuedBy(p)
  PROVE  OneWire(p)' /\ IssuedBy(p)'
<1>1. UNCHANGED <<toServer, log, gui, thread, made>>
  BY DEF notificationEvent, wires
<1>2. Sheds(p) /\ Settled(p)
  BY <1>1 DEF Sheds, Settled, IssuedBy, thread
<1>3. CASE busy'[p] = busy[p] /\ WriteQueue'[p] \in {WriteQueue[p], Rest(WriteQueue[p])}
  BY <1>2, <1>3, ShedsKeeps
<1>4. CASE \E n \in Msg : EndWrite(q, n)
  <2>1. /\ WriteQueue' = [WriteQueue EXCEPT ![q] = Rest(WriteQueue[q])]
        /\ Kick(q, Rest(WriteQueue[q]))
    BY <1>4 DEF EndWrite, Rest
  <2>2. CASE p = q
    <3>1. WriteQueue'[p] = Rest(WriteQueue[p])
      BY <2>1, <2>2 DEF ClientType
    <3>2. CASE busy' = busy
      BY <1>3, <3>1, <3>2
    <3>3. CASE /\ Rest(WriteQueue[q]) # <<>> /\ busy[q] = <<>>
               /\ SetNotif(q, Head(Rest(WriteQueue[q])))
      <4>1. busy'[p] = <<Head(Rest(WriteQueue[p]))>>
        BY <2>2, <3>3 DEF SetNotif, ClientType
      <4> QED  BY <1>1, <2>2, <3>1, <3>3, <4>1, KickKeeps
    <3> QED  BY <2>1, <3>2, <3>3 DEF Kick
  <2>3. CASE p # q
    <3>1. WriteQueue'[p] = WriteQueue[p] /\ busy'[p] = busy[p]
      BY <2>1, <2>3 DEF Kick, SetNotif, ClientType
    <3> QED  BY <1>3, <3>1
  <2> QED  BY <2>2, <2>3
<1>5. CASE UNCHANGED <<WriteQueue, busy>>
  BY <1>3, <1>5
<1>6. posted[q] \in Seq(Event) /\ posted[q] # <<>>
  BY DEF notificationEvent, ClientType
<1>7. Head(posted[q]) \in Event
  BY <1>6, TailFacts
<1>8. Head(posted[q]).n \in Msg
  BY <1>7 DEF Event
<1> QED  BY <1>4, <1>5, <1>8 DEF notificationEvent

LEMMA UnansweredKeeps ==
  ASSUME ClientType, ClientType', NEW q \in Clients, Writes(q), ~Reachable(q),
         NEW p \in Clients, OneWire(p), IssuedBy(p)
  PROVE  OneWire(p)' /\ IssuedBy(p)'
<1>1. UNCHANGED <<toServer, log, gui, link, conn, started, WriteQueue, made>>
      /\ busy' = [busy EXCEPT ![q] = <<>>]
  BY DEF Writes
<1>2. Sheds(p) /\ Settled(p)
  BY <1>1 DEF Sheds, Settled, IssuedBy
<1>3. CASE p # q
  BY <1>1, <1>2, <1>3, ShedsKeeps DEF ClientType
<1>4. CASE p = q
  <2>1. busy'[p] = <<>> /\ WriteQueue'[p] = WriteQueue[p]
    BY <1>1, <1>4 DEF ClientType
  <2> QED  BY <1>2, <2>1, ShedsKeeps
<1> QED  BY <1>3, <1>4

\* A step that takes from the wires at most, of the thread and connection of another client.
LEMMA QuietKeeps ==
  ASSUME ClientType, ClientType', NEW p \in Clients, OneWire(p), IssuedBy(p),
         UNCHANGED <<log, busy, WriteQueue, made>>, Settled(p),
         \A c \in Sessions : \/ toServer'[c] = toServer[c]
                             \/ Numbers(toServer'[c], p) = {} /\ Rising(toServer'[c], p)
                             \/ toServer[c] # <<>> /\ toServer'[c] = Tail(toServer[c])
  PROVE  OneWire(p)' /\ IssuedBy(p)'
<1>1. Sheds(p)
  <2>1. ASSUME NEW c \in Sessions
        PROVE  Numbers(toServer'[c], p) \subseteq Numbers(toServer[c], p) /\ Rising(toServer'[c], p)
    <3>1. toServer[c] \in Seq(Msg) /\ Rising(toServer[c], p)
      BY DEF ClientType, IssuedBy
    <3> QED  BY <3>1, NumbersTail
  <2> QED  BY <2>1 DEF Sheds
<1> QED  BY <1>1, ShedsKeeps

\* Nothing of a client whose threads do not run is on a wire.
LEMMA WireIsEmpty ==
  ASSUME ClientType, NEW p \in Clients, OneWire(p), gui[p] # "ended",
         ~started[p] \/ link[p] # "open"
  PROVE  \A c \in Sessions : Numbers(toServer[c], p) = {}
BY DEF OneWire

LEMMA OpensKeepsOrder ==
  ASSUME ClientType, ClientType', Wired, NEW q \in Clients, Opens(q),
         NEW p \in Clients, OneWire(p), IssuedBy(p)
  PROVE  OneWire(p)' /\ IssuedBy(p)'
<1>1. PICK c \in Sessions : /\ conn' = [conn EXCEPT ![q] = c]
                            /\ toServer' = [toServer EXCEPT ![c] = <<LoginOf(q)>>]
  BY DEF Opens, Free
<1>2. UNCHANGED <<log, gui, link, started, busy, WriteQueue, made>> /\ link[q] = "opening"
  BY DEF Opens, notifications
<1>3. Numbers(<<LoginOf(q)>>, p) = {} /\ Rising(<<LoginOf(q)>>, p)
  <2>1. 0 \in Nat /\ 0 \notin 1..Notes
    OBVIOUS
  <2>2. Numbers(<<LoginOf(q)>>, p) = {}
    BY <2>1, NumbersOfOne DEF LoginOf
  <2>3. <<LoginOf(q)>> \in Seq(Msg) /\ \A i, j \in 1..Len(<<LoginOf(q)>>) : ~(i < j)
    BY MsgFacts, OneMsg
  <2> QED  BY <2>2, <2>3 DEF Rising
<1>4. Settled(p)
  <2>1. CASE p = q
    BY <1>2, <2>1, WireIsEmpty DEF Settled
  <2>2. CASE p # q
    BY <1>1, <1>2, <2>2 DEF Settled, ClientType
  <2> QED  BY <2>1, <2>2
<1>5. \A d \in Sessions : toServer'[d] = toServer[d] \/ toServer'[d] = <<LoginOf(q)>>
  BY <1>1 DEF ClientType
<1>6. \A d \in Sessions : \/ toServer'[d] = toServer[d]
                          \/ Numbers(toServer'[d], p) = {} /\ Rising(toServer'[d], p)
  BY <1>3, <1>5
<1> QED  BY <1>2, <1>4, <1>6, QuietKeeps

\* Disconnect and Connect: what was written is broadcast before the server lets the session
\* go, so that nothing of the client is on a wire when it connects again.
LEMMA GuiKeepsOrder ==
  ASSUME ClientType, ClientType', Wired, NEW q \in Clients,
         Tick(q) \/ ConnectReturns(q) \/ Ends(q),
         NEW p \in Clients, OneWire(p), IssuedBy(p)
  PROVE  OneWire(p)' /\ IssuedBy(p)'
<1>0. Drops(q) \/ UNCHANGED <<WriteQueue, busy>>
  BY DEF Tick, ConnectReturns, Ends, notifications
<1>1. UNCHANGED <<toServer, log, made>>
  BY DEF Tick, ConnectReturns, Ends, wires, notifications
<1>2. Sheds(p)
  BY <1>1 DEF Sheds, IssuedBy
<1>3. CASE p # q
  <2>1. /\ gui'[p] = gui[p] /\ started'[p] = started[p] /\ link'[p] = link[p]
        /\ conn'[p] = conn[p]
    <3>1. CASE Tick(q)
      BY <1>3, <3>1 DEF Tick, ClientType
    <3>2. CASE ConnectReturns(q)
      BY <1>3, <3>2 DEF ConnectReturns, ClientType
    <3>3. CASE Ends(q)
      BY <1>3, <3>3 DEF Ends, ClientType
    <3> QED  BY <3>1, <3>2, <3>3
  <2>2. Settled(p)
    BY <2>1 DEF Settled
  <2>3. busy'[p] = busy[p] /\ WriteQueue'[p] = WriteQueue[p]
    BY <1>0, <1>3 DEF Drops, ClientType
  <2> QED  BY <1>2, <2>2, <2>3, ShedsKeeps
<1>4. CASE p = q
  <2>1. Settled(p)
    <3>1. CASE Tick(q)
      <4>1. gui[p] # "ended" /\ ~Ok(p)
        BY <1>4, <3>1 DEF Tick
      <4>2. ASSUME NEW c \in Sessions, Numbers(toServer[c], p) # {}
            PROVE  FALSE
        <5>1. started[p] /\ link[p] = "open" /\ conn[p] = c
          BY <4>1, <4>2 DEF OneWire
        <5>2. toServer[c] = <<>>
          BY <4>1, <5>1 DEF Ok, Wired
        <5> QED  BY <4>2, <5>2, NumbersNone
      <4> QED  BY <4>2 DEF Settled
    <3>2. CASE ConnectReturns(q)
      <4>1. gui[p] \in {"first", "connecting"}
        BY <1>4, <3>2 DEF ConnectReturns
      <4>2. ~started[p] /\ gui[p] # "ended"
        BY <4>1 DEF Wired
      <4> QED  BY <4>2, WireIsEmpty DEF Settled
    <3>3. CASE Ends(q)
      BY <1>4, <3>3 DEF Ends, Settled, ClientType
    <3> QED  BY <3>1, <3>2, <3>3
  <2>2. \/ busy'[p] = busy[p] /\ WriteQueue'[p] = WriteQueue[p]
        \/ busy'[p] = <<>> /\ WriteQueue'[p] = <<>>
    <3>1. busy \in [Clients -> Seq(Msg)] /\ WriteQueue \in [Clients -> Seq(Msg)]
      BY DEF ClientType
    <3> QED  BY <1>0, <1>4, <3>1 DEF Drops
  <2> QED  BY <1>2, <2>1, <2>2, ShedsKeeps
<1> QED  BY <1>3, <1>4

LEMMA OpenedKeepsOrder ==
  ASSUME ClientType, ClientType', Wired, NEW q \in Clients, Opened(q),
         NEW p \in Clients, OneWire(p), IssuedBy(p)
  PROVE  OneWire(p)' /\ IssuedBy(p)'
<1>1. /\ UNCHANGED <<toServer, log, gui, conn, started, busy, WriteQueue, made>>
      /\ link[q] = "opening"
  BY DEF Opened, notifications
<1>2. Settled(p)
  <2>1. CASE p = q
    BY <1>1, <2>1, WireIsEmpty DEF Settled
  <2>2. CASE p # q
    BY <1>1, <2>2 DEF Opened, Settled, ClientType
  <2> QED  BY <2>1, <2>2
<1> QED  BY <1>1, <1>2, QuietKeeps

LEMMA StepKeepsIssued ==
  ClientType /\ ClientType' /\ Wired /\ IssuedInv /\ [Next]_vars => IssuedInv'
<1> SUFFICES ASSUME ClientType, ClientType', Wired, IssuedInv, [Next]_vars, NEW p \in Clients
             PROVE  OneWire(p)' /\ IssuedBy(p)'
  BY DEF IssuedInv
<1>0. OneWire(p) /\ IssuedBy(p)
  BY DEF IssuedInv
<1>1. ASSUME UNCHANGED <<log, gui, thread, busy, WriteQueue, made>>,
             \A c \in Sessions : \/ toServer'[c] = toServer[c]
                                 \/ toServer'[c] = <<>>
                                 \/ toServer[c] # <<>> /\ toServer'[c] = Tail(toServer[c])
      PROVE  OneWire(p)' /\ IssuedBy(p)'
  <2>1. Settled(p)
    BY <1>1 DEF Settled, thread
  <2> QED  BY <1>0, <1>1, <2>1, QuietKeeps, NumbersNone
<1>2. CASE Take
  BY <1>1, <1>2 DEF Take, wires, notifications
<1>3. CASE Dies
  BY <1>1, <1>3 DEF Dies, notifications
<1>4. ASSUME NEW c \in Sessions, acceptConnection(c)
      PROVE  OneWire(p)' /\ IssuedBy(p)'
  BY <1>1, <1>4 DEF acceptConnection, wires, notifications
<1>5. ASSUME NEW c \in Sessions, serveClient(c)
      PROVE  OneWire(p)' /\ IssuedBy(p)'
  <2>1. UNCHANGED <<gui, thread, notifications>>
    BY <1>5 DEF serveClient
  <2>2. CASE Login(c)
    BY <1>1, <2>1, <2>2 DEF Login, notifications, ClientType
  <2>3. CASE Broadcast(c)
    BY <1>0, <2>1, <2>3, BroadcastKeeps
  <2>4. CASE Finish(c)
    BY <1>1, <2>1, <2>4 DEF Finish, wires, notifications
  <2> QED  BY <1>5, <2>2, <2>3, <2>4 DEF serveClient
<1>6. ASSUME NEW q \in Clients, ClientStep(q)
      PROVE  OneWire(p)' /\ IssuedBy(p)'
  <2>1. CASE Reads(q)
    BY <1>1, <2>1 DEF Reads
  <2>2. CASE Writes(q)
    <3>1. OneWire(q) /\ IssuedBy(q)
      BY DEF IssuedInv
    <3>2. CASE Reachable(q)
      BY <1>0, <2>2, <3>1, <3>2, SendKeeps
    <3>3. CASE ~Reachable(q)
      BY <1>0, <2>2, <3>3, UnansweredKeeps
    <3> QED  BY <3>2, <3>3
  <2> QED  BY <1>0, <1>6, <2>1, <2>2, OpensKeepsOrder, OpenedKeepsOrder, EventKeeps DEF ClientStep
<1>7. ASSUME NEW q \in Clients, DoExec(q)
      PROVE  OneWire(p)' /\ IssuedBy(p)'
  <2>1. CASE p = q
    BY <1>0, <1>7, <2>1, ExecKeeps
  <2>2. CASE p # q
    <3>1. /\ UNCHANGED <<toServer, log, gui, link, conn, started>> /\ made'[p] = made[p]
          /\ busy'[p] = busy[p] /\ WriteQueue'[p] = WriteQueue[p]
      BY <1>7, <2>2 DEF DoExec, SetNotif, wires, thread, ClientType
    <3>2. Sheds(p) /\ Settled(p)
      BY <1>0, <3>1 DEF Sheds, Settled, IssuedBy
    <3> QED  BY <1>0, <3>1, <3>2, ShedsKeeps
  <2> QED  BY <2>1, <2>2
<1>8. ASSUME NEW q \in Clients, Tick(q) \/ ConnectReturns(q) \/ Ends(q)
      PROVE  OneWire(p)' /\ IssuedBy(p)'
  BY <1>0, <1>8, GuiKeepsOrder
<1>9. CASE UNCHANGED vars
  BY <1>1, <1>9 DEF vars, wires, notifications
<1> QED  BY <1>2, <1>3, <1>4, <1>5, <1>6, <1>7, <1>8, <1>9, LeavesEnd DEF Next, ServerStep

LEMMA InitIssued == Init => IssuedInv
<1> SUFFICES ASSUME Init, NEW p \in Clients  PROVE OneWire(p) /\ IssuedBy(p)
  BY DEF IssuedInv
<1>1. /\ log = <<>> /\ \A c \in Sessions : toServer[c] = <<>>
      /\ WriteQueue[p] = <<>> /\ busy[p] = <<>> /\ made[p] = 0
  BY DEF Init
<1>2. OneWire(p) /\ Wire(p) = {}
  BY <1>1, NumbersNone DEF OneWire, Wire
<1>3. Rest(WriteQueue[p]) = <<>>
  BY <1>1 DEF Rest
<1>4. Line({}, {}, {}, {}, 0)
  BY DEF Line, Below
<1> QED  BY <1>1, <1>2, <1>3, <1>4, NumbersNone, OwnNone DEF IssuedBy

-----------------------------------------------------------------------------
OrderInv == ClientType /\ PoolInv /\ Wired /\ IssuedInv

LEMMA OrderInvariant == Spec => []OrderInv
<1>1. Init => OrderInv
  BY InitClients, InitPool, InitWired, InitIssued DEF OrderInv
<1>2. OrderInv /\ [Next]_vars => OrderInv'
  <2>1. OrderInv /\ [Next]_vars => ClientType' /\ PoolInv' /\ Wired'
    BY StepKeepsType, StepKeepsPool, StepKeepsWired DEF OrderInv
  <2>2. OrderInv /\ [Next]_vars => IssuedInv'
    BY <2>1, StepKeepsIssued DEF OrderInv
  <2> QED  BY <2>1, <2>2 DEF OrderInv
<1> QED  BY <1>1, <1>2, PTL DEF Spec

LEMMA LogInOrder == ClientType /\ IssuedInv => OwnInOrder
<1> SUFFICES ASSUME ClientType, IssuedInv, NEW i \in 1..Len(log), NEW j \in 1..Len(log),
                    i < j, log[i].by = log[j].by
             PROVE  log[i].k < log[j].k
  BY DEF OwnInOrder
<1>1. log[i] \in Notification /\ log[j] \in Notification
  BY DEF ClientType
<1> DEFINE p == log[i].by
<1>2. p \in Clients /\ log[i].k \in 1..Notes /\ log[j].k \in 1..Notes
      /\ log[i] = Note(p, log[i].k) /\ log[j] = Note(p, log[j].k)
  BY <1>1 DEF Notification, Note
<1>3. Rising(log, p)
  BY <1>2 DEF IssuedInv, IssuedBy
<1> QED  BY <1>2, <1>3 DEF Rising

\* What a client makes is broadcast in the order it was made, and once, over every loss of
\* its connection (dispatch.cpp:328-347 and 514-539, server_dispatcher.cpp:313-341).
THEOREM OwnOrderKept == Spec => []OwnInOrder
<1>1. OrderInv => OwnInOrder
  BY LogInOrder DEF OrderInv
<1> QED  BY <1>1, OrderInvariant, PTL

-----------------------------------------------------------------------------
(* What a client has been told of, what its GUI thread will be told of and what comes, in  *)
(* this order, is a part of the log.                                                       *)

Of(s) == {n \in Notification : \E i \in 1..Len(s) : s[i] = n}
Precedes(l, a, b) == \E i, j \in 1..Len(l) : i < j /\ l[i] = a /\ l[j] = b
Follows(l, A, B) == \A a \in A, b \in B : Precedes(l, a, b)
Ordered(l, s) ==
  /\ Of(s) \subseteq Of(l)
  /\ \A i, j \in 1..Len(s) :
       i < j /\ s[i] \in Notification /\ s[j] \in Notification => Precedes(l, s[i], s[j])

\* One sequence is another and one more element, or the other without its first.
Longer(t, s, x) ==
  /\ Len(s) \in Nat /\ Len(t) = Len(s) + 1 /\ t[Len(s) + 1] = x
  /\ \A i \in 1..Len(s) : t[i] = s[i]
Shorter(t, s) ==
  /\ Len(s) \in Nat /\ Len(t) \in Nat /\ Len(s) = Len(t) + 1
  /\ \A i \in 1..Len(t) : t[i] = s[i + 1]

Silent == Note(None, 0)
Heard(q) == [i \in 1..Len(q) |-> IF q[i].op = "END_READ_NOTIF" THEN q[i].n ELSE Silent]
Coming(p) == IF conn[p] = None THEN <<>> ELSE toClient[conn[p]]

ToldPart(l, R, H, C) ==
  /\ Ordered(l, R) /\ Ordered(l, H) /\ Ordered(l, C)
  /\ Follows(l, Of(R), Of(H)) /\ Follows(l, Of(R), Of(C)) /\ Follows(l, Of(H), Of(C))

ToldInv == \A p \in Clients : ToldPart(log, received[p], Heard(posted[p]), Coming(p))

LEMMA SilentIsNone == Silent \notin Notification
<1>1. 0 \notin 1..Notes
  OBVIOUS
<1> QED  BY <1>1 DEF Silent, Note, Notification

LEMMA OfLonger ==
  ASSUME NEW t, NEW s, NEW x, Longer(t, s, x)
  PROVE  Of(t) = Of(s) \cup ({x} \cap Notification)
<1>1. \A i \in 1..Len(t) : i \in 1..Len(s) \/ i = Len(s) + 1
  BY DEF Longer
<1>2. \A i \in 1..Len(s) : i \in 1..Len(t)
  BY DEF Longer
<1>3. Len(s) + 1 \in 1..Len(t) /\ t[Len(s) + 1] = x /\ \A i \in 1..Len(s) : t[i] = s[i]
  BY DEF Longer
<1> QED  BY <1>1, <1>2, <1>3 DEF Of

LEMMA OfShorter ==
  ASSUME NEW t, NEW s, Shorter(t, s)
  PROVE  /\ Of(t) \subseteq Of(s) /\ 1 \in 1..Len(s) /\ (s[1] \in Notification => s[1] \in Of(s))
         /\ \A i \in 1..Len(t) : t[i] = s[i + 1] /\ i + 1 \in 1..Len(s) /\ 1 < i + 1
         /\ \A i, j \in 1..Len(t) : i < j => i + 1 < j + 1
<1>1. 1 \in 1..Len(s)
  BY DEF Shorter
<1>2. \A i \in 1..Len(t) : t[i] = s[i + 1] /\ i + 1 \in 1..Len(s) /\ 1 < i + 1
  BY DEF Shorter
<1>3. \A i, j \in 1..Len(t) : i < j => i + 1 < j + 1
  OBVIOUS
<1>4. Of(t) \subseteq Of(s)
  BY <1>2 DEF Of
<1> QED  BY <1>1, <1>2, <1>3, <1>4 DEF Of

\* The log grows at its end: all that was in it precedes what comes.
LEMMA LogGrows ==
  ASSUME NEW k, NEW l, NEW x, Longer(k, l, x)
  PROVE  /\ \A a, b : Precedes(l, a, b) => Precedes(k, a, b)
         /\ \A a \in Of(l) : Precedes(k, a, x)
         /\ Of(l) \subseteq Of(k)
<1>1. \A i \in 1..Len(l) : i \in 1..Len(k) /\ k[i] = l[i] /\ i < Len(l) + 1
  BY DEF Longer
<1>2. Len(l) + 1 \in 1..Len(k) /\ k[Len(l) + 1] = x
  BY DEF Longer
<1>3. ASSUME NEW a, NEW b, Precedes(l, a, b)  PROVE Precedes(k, a, b)
  BY <1>1, <1>3 DEF Precedes
<1>4. ASSUME NEW a \in Of(l)  PROVE Precedes(k, a, x)
  <2>1. PICK i \in 1..Len(l) : l[i] = a
    BY DEF Of
  <2> QED  BY <1>1, <1>2, <2>1 DEF Precedes
<1>5. Of(l) \subseteq Of(k)
  BY <1>1 DEF Of
<1> QED  BY <1>3, <1>4, <1>5

LEMMA OrderedInLonger ==
  ASSUME NEW k, NEW l, NEW x, Longer(k, l, x), NEW s, Ordered(l, s)
  PROVE  Ordered(k, s)
BY LogGrows DEF Ordered

LEMMA FollowsInLonger ==
  ASSUME NEW k, NEW l, NEW x, Longer(k, l, x), NEW A, NEW B, Follows(l, A, B)
  PROVE  Follows(k, A, B)
BY LogGrows DEF Follows

\* An element at the end of a part of the log that precedes it.
LEMMA OrderedAppend ==
  ASSUME NEW l, NEW t, NEW s, NEW x, Longer(t, s, x), Ordered(l, s),
         x \in Notification => x \in Of(l) /\ Follows(l, Of(s), {x})
  PROVE  Ordered(l, t)
<1>1. Of(t) \subseteq Of(l)
  BY OfLonger DEF Ordered
<1>2. ASSUME NEW i \in 1..Len(t), NEW j \in 1..Len(t), i < j, t[i] \in Notification,
             t[j] \in Notification
      PROVE  Precedes(l, t[i], t[j])
  <2>1. i \in 1..Len(s) /\ t[i] = s[i] /\ (j \in 1..Len(s) \/ j = Len(s) + 1)
    BY <1>2 DEF Longer
  <2>2. CASE j \in 1..Len(s)
    <3>1. t[j] = s[j]
      BY <2>2 DEF Longer
    <3> QED  BY <1>2, <2>1, <2>2, <3>1 DEF Ordered
  <2>3. CASE j = Len(s) + 1
    <3>1. t[j] = x
      BY <2>3 DEF Longer
    <3>2. s[i] \in Of(s)
      BY <1>2, <2>1 DEF Of
    <3> QED  BY <1>2, <2>1, <3>1, <3>2 DEF Follows
  <2> QED  BY <2>1, <2>2, <2>3
<1> QED  BY <1>1, <1>2 DEF Ordered

LEMMA OrderedTail ==
  ASSUME NEW l, NEW t, NEW s, Shorter(t, s), Ordered(l, s)
  PROVE  Ordered(l, t) /\ (s[1] \in Notification => Follows(l, {s[1]}, Of(t)))
<1>1. Of(t) \subseteq Of(l)
  BY OfShorter DEF Ordered
<1>2. ASSUME NEW i \in 1..Len(t), NEW j \in 1..Len(t), i < j, t[i] \in Notification,
             t[j] \in Notification
      PROVE  Precedes(l, t[i], t[j])
  BY <1>2, OfShorter DEF Ordered
<1>3. ASSUME s[1] \in Notification, NEW b \in Of(t)
      PROVE  Precedes(l, s[1], b)
  <2>1. PICK j \in 1..Len(t) : t[j] = b /\ b \in Notification
    BY <1>3 DEF Of
  <2> QED  BY <1>3, <2>1, OfShorter DEF Ordered
<1> QED  BY <1>1, <1>2, <1>3 DEF Ordered, Follows

LEMMA OrderedNone == \A l : Ordered(l, <<>>) /\ Of(<<>>) = {}
BY NoMsg DEF Ordered, Of

LEMMA OrderedLess ==
  ASSUME NEW l, NEW s, NEW t, Ordered(l, s), t = s \/ t = <<>> \/ Shorter(t, s)
  PROVE  Ordered(l, t) /\ Of(t) \subseteq Of(s)
<1>1. CASE t = s  BY <1>1
<1>2. CASE t = <<>>
  <2>1. Ordered(l, <<>>) /\ Of(<<>>) = {}
    BY OrderedNone
  <2> QED  BY <1>2, <2>1
<1>3. CASE Shorter(t, s)
  <2>1. Ordered(l, t)
    BY <1>3, OrderedTail
  <2>2. Of(t) \subseteq Of(s)
    BY <1>3, OfShorter
  <2> QED  BY <2>1, <2>2
<1> QED  BY <1>1, <1>2, <1>3

LEMMA OrderedSilent ==
  ASSUME NEW l, NEW s, NEW t, NEW x, Ordered(l, s), x \notin Notification,
         t = s \/ Longer(t, s, x)
  PROVE  Ordered(l, t) /\ Of(t) = Of(s)
<1>1. CASE t = s  BY <1>1
<1>2. CASE Longer(t, s, x)
  <2>1. Of(t) = Of(s) \cup ({x} \cap Notification)
    BY <1>2, OfLonger
  <2>2. Ordered(l, t)
    BY <1>2, OrderedAppend
  <2> QED  BY <2>1, <2>2
<1> QED  BY <1>1, <1>2

\* The steps of the three parts: one is shortened or emptied, one gets what is silent, the
\* head of one moves to the end of the one before it, the log grows.
LEMMA PartShrinks ==
  ASSUME NEW l, NEW R, NEW H, NEW C, ToldPart(l, R, H, C),
         NEW H2, H2 = H \/ H2 = <<>> \/ Shorter(H2, H),
         NEW C2, C2 = C \/ C2 = <<>> \/ Shorter(C2, C)
  PROVE  ToldPart(l, R, H2, C2)
<1>1. Ordered(l, H) /\ Ordered(l, C)
  BY DEF ToldPart
<1>2. Ordered(l, H2) /\ Of(H2) \subseteq Of(H)
  BY <1>1, OrderedLess
<1>3. Ordered(l, C2) /\ Of(C2) \subseteq Of(C)
  BY <1>1, OrderedLess
<1> QED  BY <1>2, <1>3 DEF ToldPart, Follows

LEMMA PartSilent ==
  ASSUME NEW l, NEW R, NEW H, NEW C, ToldPart(l, R, H, C), NEW x, x \notin Notification,
         NEW H2, H2 = H \/ Longer(H2, H, x),
         NEW C2, C2 = C \/ Longer(C2, C, x)
  PROVE  ToldPart(l, R, H2, C2)
<1>1. Ordered(l, H) /\ Ordered(l, C)
  BY DEF ToldPart
<1>2. Ordered(l, H2) /\ Of(H2) = Of(H)
  BY <1>1, OrderedSilent
<1>3. Ordered(l, C2) /\ Of(C2) = Of(C)
  BY <1>1, OrderedSilent
<1> QED  BY <1>2, <1>3 DEF ToldPart

\* A read: the head of what comes is posted.
LEMMA PartRead ==
  ASSUME NEW l, NEW R, NEW H, NEW C, ToldPart(l, R, H, C),
         NEW C2, Shorter(C2, C), NEW H2, Longer(H2, H, C[1])
  PROVE  ToldPart(l, R, H2, C2)
<1>1. Ordered(l, C2) /\ Of(C2) \subseteq Of(C)
      /\ (C[1] \in Notification => Follows(l, {C[1]}, Of(C2)) /\ C[1] \in Of(C))
  BY OrderedTail, OfShorter DEF ToldPart
<1>2. Of(H2) = Of(H) \cup ({C[1]} \cap Notification)
  BY OfLonger
<1>3. C[1] \in Notification => C[1] \in Of(l) /\ Follows(l, Of(H), {C[1]})
  BY <1>1 DEF ToldPart, Ordered, Follows
<1>4. Ordered(l, H2)
  BY <1>3, OrderedAppend DEF ToldPart
<1> QED  BY <1>1, <1>2, <1>4 DEF ToldPart, Follows

\* An event: the client is told of the head of what was posted.
LEMMA PartTold ==
  ASSUME NEW l, NEW R, NEW H, NEW C, ToldPart(l, R, H, C),
         NEW H2, Shorter(H2, H), NEW R2, Longer(R2, R, H[1])
  PROVE  ToldPart(l, R2, H2, C)
<1>1. Ordered(l, H2) /\ Of(H2) \subseteq Of(H)
      /\ (H[1] \in Notification => Follows(l, {H[1]}, Of(H2)) /\ H[1] \in Of(H))
  BY OrderedTail, OfShorter DEF ToldPart
<1>2. Of(R2) = Of(R) \cup ({H[1]} \cap Notification)
  BY OfLonger
<1>3. H[1] \in Notification => H[1] \in Of(l) /\ Follows(l, Of(R), {H[1]})
  BY <1>1 DEF ToldPart, Ordered, Follows
<1>4. Ordered(l, R2)
  BY <1>3, OrderedAppend DEF ToldPart
<1> QED  BY <1>1, <1>2, <1>4 DEF ToldPart, Follows

\* A broadcast.
LEMMA PartBroadcast ==
  ASSUME NEW l, NEW R, NEW H, NEW C, ToldPart(l, R, H, C), NEW x \in Notification,
         NEW k, Longer(k, l, x), NEW C2, C2 = C \/ Longer(C2, C, x)
  PROVE  ToldPart(k, R, H, C2)
<1>1. Ordered(k, R) /\ Ordered(k, H) /\ Ordered(k, C)
  BY OrderedInLonger DEF ToldPart
<1>2. Follows(k, Of(R), Of(H)) /\ Follows(k, Of(R), Of(C)) /\ Follows(k, Of(H), Of(C))
  BY FollowsInLonger DEF ToldPart
<1>3. x \in Of(k) /\ Follows(k, Of(R), {x}) /\ Follows(k, Of(H), {x}) /\ Follows(k, Of(C), {x})
  BY LogGrows, OfLonger DEF ToldPart, Ordered, Follows
<1>4. Ordered(k, C2) /\ Of(C2) \subseteq Of(C) \cup {x}
  BY <1>1, <1>3, OrderedAppend, OfLonger
<1> QED  BY <1>1, <1>2, <1>3, <1>4 DEF ToldPart, Follows

-----------------------------------------------------------------------------
(* The steps of the program. *)

LEMMA LongerByAppend ==
  ASSUME NEW S, NEW s \in Seq(S), NEW x \in S
  PROVE  Longer(Append(s, x), s, x)
BY AppendFacts DEF Longer

LEMMA ShorterByTail ==
  ASSUME NEW S, NEW s \in Seq(S), s # <<>>
  PROVE  Shorter(Tail(s), s) /\ s[1] = Head(s)
BY TailFacts DEF Shorter

HeardOf(e) == IF e.op = "END_READ_NOTIF" THEN e.n ELSE Silent

LEMMA HeardFacts ==
  ASSUME NEW q \in Seq(Event)
  PROVE  /\ Len(Heard(q)) = Len(q) /\ Len(q) \in Nat
         /\ \A i \in 1..Len(q) : Heard(q)[i] = HeardOf(q[i])
<1> DEFINE h == Heard(q)
           U == {HeardOf(q[i]) : i \in 1..Len(q)}
<1>1. Len(q) \in Nat
  OBVIOUS
<1>2. h \in [1..Len(q) -> U] /\ \A i \in 1..Len(q) : h[i] = HeardOf(q[i])
  BY DEF Heard, HeardOf
<1> HIDE DEF h, U
<1>3. h \in Seq(U)
  BY <1>1, <1>2, SeqDef
<1>4. Len(h) \in Nat /\ DOMAIN h = 1..Len(h) /\ DOMAIN h = 1..Len(q)
  BY <1>2, <1>3, LenProperties
<1>5. Len(h) = Len(q)
  BY <1>1, <1>4
<1> QED  BY <1>1, <1>2, <1>5 DEF h

LEMMA HeardAppend ==
  ASSUME NEW q \in Seq(Event), NEW e \in Event
  PROVE  Longer(Heard(Append(q, e)), Heard(q), HeardOf(e))
<1>1. Append(q, e) \in Seq(Event) /\ Longer(Append(q, e), q, e)
  BY AppendFacts, LongerByAppend
<1>2. /\ Len(Heard(q)) = Len(q) /\ Len(q) \in Nat /\ Len(Heard(Append(q, e))) = Len(q) + 1
      /\ \A i \in 1..Len(q) : Heard(q)[i] = HeardOf(q[i])
      /\ \A i \in 1..(Len(q) + 1) : Heard(Append(q, e))[i] = HeardOf(Append(q, e)[i])
  BY <1>1, HeardFacts DEF Longer
<1>3. \A i \in 1..Len(q) : i \in 1..(Len(q) + 1)
  BY <1>2
<1>4. Len(q) + 1 \in 1..(Len(q) + 1)
  BY <1>2
<1> QED  BY <1>1, <1>2, <1>3, <1>4 DEF Longer

LEMMA HeardTail ==
  ASSUME NEW q \in Seq(Event), q # <<>>
  PROVE  Shorter(Heard(Tail(q)), Heard(q)) /\ Heard(q)[1] = HeardOf(Head(q))
<1>1. /\ Tail(q) \in Seq(Event) /\ Len(q) \in Nat /\ Len(Tail(q)) = Len(q) - 1
      /\ Head(q) = q[1] /\ 1 \in 1..Len(q)
      /\ \A i \in 1..Len(Tail(q)) : Tail(q)[i] = q[i + 1] /\ i + 1 \in 1..Len(q)
  BY TailFacts
<1>2. /\ Len(Heard(q)) = Len(q) /\ Len(Heard(Tail(q))) = Len(Tail(q)) /\ Len(Tail(q)) \in Nat
      /\ \A i \in 1..Len(q) : Heard(q)[i] = HeardOf(q[i])
      /\ \A i \in 1..Len(Tail(q)) : Heard(Tail(q))[i] = HeardOf(Tail(q)[i])
  BY <1>1, HeardFacts
<1>3. Heard(q)[1] = HeardOf(Head(q))
  BY <1>1, <1>2
<1>4. \A i \in 1..Len(Heard(Tail(q))) : Heard(Tail(q))[i] = Heard(q)[i + 1]
  BY <1>1, <1>2
<1>5. /\ Len(Heard(q)) \in Nat /\ Len(Heard(Tail(q))) \in Nat
      /\ Len(Heard(q)) = Len(Heard(Tail(q))) + 1
  <2>1. Len(q) \in Nat /\ Len(Tail(q)) \in Nat /\ Len(q) = Len(Tail(q)) + 1
    OBVIOUS
  <2> QED  BY <1>2, <2>1, Zenon
<1>6. Shorter(Heard(Tail(q)), Heard(q))
  BY <1>4, <1>5, Zenon DEF Shorter
<1> QED  BY <1>3, <1>6

\* The steps that neither broadcast nor tell.
LEMMA ToldShrinks ==
  ASSUME ToldInv, UNCHANGED <<log, received>>,
         \A p \in Clients :
           /\ posted'[p] = posted[p] \/ Heard(posted'[p]) = <<>>
           /\ \/ Coming(p)' = Coming(p) \/ Coming(p)' = <<>> \/ Shorter(Coming(p)', Coming(p))
  PROVE  ToldInv'
<1> SUFFICES ASSUME NEW p \in Clients
             PROVE  ToldPart(log, received[p], Heard(posted'[p]), Coming(p)')
  BY DEF ToldInv
<1>1. ToldPart(log, received[p], Heard(posted[p]), Coming(p))
  BY DEF ToldInv
<1>2. Heard(posted'[p]) = Heard(posted[p]) \/ Heard(posted'[p]) = <<>>
  OBVIOUS
<1> QED  BY <1>1, <1>2, PartShrinks

LEMMA HeardNone == Heard(<<>>) = <<>>
<1>1. <<>> \in Seq(Event)
  OBVIOUS
<1> DEFINE h == Heard(<<>>)
           U == {HeardOf(<<>>[i]) : i \in 1..Len(<<>>)}
<1>2. h \in [1..0 -> U]
  BY DEF Heard, HeardOf
<1> HIDE DEF h, U
<1>3. h \in Seq(U) /\ 0 \in Nat
  BY <1>2, SeqDef
<1>4. Len(h) = 0
  BY <1>1, HeardFacts DEF h
<1>5. h = <<>>
  BY <1>3, <1>4
<1> QED  BY <1>5 DEF h

LEMMA LoginTells ==
  ASSUME ClientType, ToldInv, NEW c \in Sessions, Login(c),
         UNCHANGED <<gui, thread, notifications>>
  PROVE  ToldInv'
<1> DEFINE x == LoginOf(owner[c])
<1>1. x \in Msg /\ x \notin Notification
  <2>1. x \in Msg
    BY TailFacts DEF Login, ClientType
  <2>2. 0 \notin 1..Notes
    OBVIOUS
  <2> QED  BY <2>1, <2>2 DEF LoginOf, Note, Notification
<1>2. \A d \in Sessions : toClient'[d] = toClient[d] \/ Longer(toClient'[d], toClient[d], x)
  BY <1>1, LongerByAppend DEF Login, ClientType
<1> HIDE DEF x
<1>3. ASSUME NEW p \in Clients
      PROVE  ToldPart(log, received[p], Heard(posted[p]), Coming(p)')
  <2>1. Coming(p)' = Coming(p) \/ Longer(Coming(p)', Coming(p), x)
    BY <1>2 DEF Coming, ClientType, thread
  <2>2. ToldPart(log, received[p], Heard(posted[p]), Coming(p))
    BY DEF ToldInv
  <2> QED  BY <1>1, <2>1, <2>2, PartSilent
<1> QED  BY <1>3 DEF ToldInv, Login, notifications

LEMMA BroadcastTells ==
  ASSUME ClientType, ToldInv, NEW c \in Sessions, Broadcast(c),
         UNCHANGED <<gui, thread, notifications>>
  PROVE  ToldInv'
<1> DEFINE x == Head(toServer[c])
<1>1. x \in Notification /\ x \in Msg
  BY MsgFacts DEF Broadcast
<1>2. Longer(log', log, x)
  BY <1>1, LongerByAppend DEF Broadcast, ClientType
<1>3. \A d \in Sessions : toClient'[d] = toClient[d] \/ Longer(toClient'[d], toClient[d], x)
  BY <1>1, LongerByAppend DEF Broadcast, ClientType
<1> HIDE DEF x
<1>4. ASSUME NEW p \in Clients
      PROVE  ToldPart(log', received[p], Heard(posted[p]), Coming(p)')
  <2>1. Coming(p)' = Coming(p) \/ Longer(Coming(p)', Coming(p), x)
    BY <1>3 DEF Coming, ClientType, thread
  <2>2. ToldPart(log, received[p], Heard(posted[p]), Coming(p))
    BY DEF ToldInv
  <2> QED  BY <1>1, <1>2, <2>1, <2>2, PartBroadcast
<1> QED  BY <1>4 DEF ToldInv, notifications

LEMMA WritesTells ==
  ASSUME ClientType, ToldInv, NEW q \in Clients, Writes(q)
  PROVE  ToldInv'
<1> DEFINE e == Written(Head(busy[q]))
<1>1. UNCHANGED <<log, received, conn, toClient>> /\ posted' = [posted EXCEPT ![q] = Append(@, e)]
  BY DEF Writes, Post
<1>2. e \in Event
  BY TailFacts, MsgFacts DEF Writes, ClientType
<1>3. HeardOf(e) = Silent
  BY DEF HeardOf, Written
<1> HIDE DEF e
<1>4. ASSUME NEW p \in Clients
      PROVE  ToldPart(log, received[p], Heard(posted'[p]), Coming(p))
  <2>1. posted[p] \in Seq(Event)
    BY DEF ClientType
  <2>2. Heard(posted'[p]) = Heard(posted[p]) \/ Longer(Heard(posted'[p]), Heard(posted[p]), Silent)
    <3>1. CASE p = q
      <4>1. posted'[p] = Append(posted[p], e)
        BY <1>1, <3>1 DEF ClientType
      <4> QED  BY <1>2, <1>3, <2>1, <4>1, HeardAppend
    <3>2. CASE p # q
      <4>1. posted'[p] = posted[p]
        BY <1>1, <3>2 DEF ClientType
      <4> QED  BY <4>1
    <3> QED  BY <3>1, <3>2
  <2>3. ToldPart(log, received[p], Heard(posted[p]), Coming(p))
    BY DEF ToldInv
  <2> QED  BY <2>2, <2>3, SilentIsNone, PartSilent
<1> QED  BY <1>1, <1>4 DEF ToldInv, Coming

LEMMA ReadsTells ==
  ASSUME ClientType, Wired, ToldInv, NEW q \in Clients, Reads(q)
  PROVE  ToldInv'
<1> DEFINE c == conn[q]
           s == toClient[c]
           e == Read(Head(s))
<1>1. UNCHANGED <<log, received, conn>> /\ posted' = [posted EXCEPT ![q] = Append(@, e)]
      /\ toClient' = [toClient EXCEPT ![c] = Tail(@)] /\ s # <<>>
  BY DEF Reads, Post, thread
<1>2. c \in Sessions /\ c # None
  BY DEF Reads, Wired, ClientType
<1>3. s \in Seq(Msg) /\ Shorter(Tail(s), s) /\ s[1] = Head(s) /\ Head(s) \in Msg
  BY <1>1, <1>2, ShorterByTail, TailFacts DEF ClientType
<1>4. e \in Event /\ HeardOf(e) = s[1]
  BY <1>3, MsgFacts DEF HeardOf, Read
<1>5. toClient'[c] = Tail(s) /\ \A d \in Sessions : d # c => toClient'[d] = toClient[d]
  BY <1>1, <1>2 DEF ClientType
<1> HIDE DEF c, s, e
<1>6. ASSUME NEW p \in Clients
      PROVE  ToldPart(log, received[p], Heard(posted'[p]), Coming(p)')
  <2>1. ToldPart(log, received[p], Heard(posted[p]), Coming(p))
    BY DEF ToldInv
  <2>2. CASE p = q
    <3>1. Coming(p) = s /\ Coming(p)' = Tail(s)
      BY <1>1, <1>2, <1>5, <2>2 DEF Coming, c, s
    <3>2. posted'[p] = Append(posted[p], e) /\ posted[p] \in Seq(Event)
      BY <1>1, <2>2 DEF ClientType
    <3>3. Longer(Heard(posted'[p]), Heard(posted[p]), s[1])
      BY <1>4, <3>2, HeardAppend
    <3> QED  BY <1>3, <2>1, <3>1, <3>3, PartRead
  <2>3. CASE p # q
    <3>1. posted'[p] = posted[p]
      BY <1>1, <2>3 DEF ClientType
    <3>2. Coming(p)' = Coming(p) \/ Shorter(Coming(p)', Coming(p))
      <4>1. CASE conn[p] = c
        BY <1>1, <1>2, <1>3, <1>5, <4>1 DEF Coming, s
      <4>2. CASE conn[p] # c
        BY <1>1, <1>5, <4>2 DEF Coming, ClientType
      <4> QED  BY <4>1, <4>2
    <3> QED  BY <2>1, <3>1, <3>2, PartShrinks
  <2> QED  BY <2>2, <2>3
<1> QED  BY <1>1, <1>6 DEF ToldInv

LEMMA EventTells ==
  ASSUME ClientType, ToldInv, NEW q \in Clients, notificationEvent(q)
  PROVE  ToldInv'
<1> DEFINE e == Head(posted[q])
<1>1. UNCHANGED <<log, conn, toClient>> /\ posted' = [posted EXCEPT ![q] = Tail(@)]
      /\ posted[q] # <<>> /\ posted[q] \in Seq(Event)
  BY DEF notificationEvent, wires, thread, ClientType
<1>2. /\ Shorter(Heard(posted'[q]), Heard(posted[q])) /\ Heard(posted[q])[1] = HeardOf(e)
      /\ e \in Event
  <2>1. posted'[q] = Tail(posted[q])
    BY <1>1 DEF ClientType
  <2> QED  BY <1>1, <2>1, HeardTail, TailFacts
<1>3. \/ received' = received
      \/ HeardOf(e) = e.n /\ received' = [received EXCEPT ![q] = Append(@, e.n)]
  BY DEF notificationEvent, EndWrite, HeardOf
<1> HIDE DEF e
<1>4. ASSUME NEW p \in Clients
      PROVE  ToldPart(log, received'[p], Heard(posted'[p]), Coming(p))
  <2>1. ToldPart(log, received[p], Heard(posted[p]), Coming(p))
    BY DEF ToldInv
  <2>2. CASE p # q
    <3>1. posted'[p] = posted[p] /\ received'[p] = received[p]
      BY <1>1, <1>3, <2>2 DEF ClientType
    <3> QED  BY <2>1, <3>1
  <2>3. CASE p = q /\ received' = received
    BY <1>2, <2>1, <2>3, PartShrinks
  <2>4. CASE p = q /\ HeardOf(e) = e.n /\ received' = [received EXCEPT ![q] = Append(@, e.n)]
    <3>1. received[p] \in Seq(Msg) /\ e.n \in Msg /\ received'[p] = Append(received[p], e.n)
      BY <1>2, <2>4 DEF ClientType, Event
    <3>2. Longer(received'[p], received[p], Heard(posted[p])[1])
      BY <1>2, <2>4, <3>1, LongerByAppend
    <3> QED  BY <1>2, <2>1, <2>4, <3>2, PartTold
  <2> QED  BY <1>3, <2>2, <2>3, <2>4
<1> QED  BY <1>1, <1>4 DEF ToldInv, Coming

LEMMA OpensTells ==
  ASSUME ClientType, ToldInv, NEW q \in Clients, Opens(q)
  PROVE  ToldInv'
<1>1. PICK c \in Sessions : /\ conn' = [conn EXCEPT ![q] = c]
                            /\ toClient' = [toClient EXCEPT ![c] = <<>>]
                            /\ \A p \in Clients : conn[p] # c
  BY DEF Opens, Free
<1>2. UNCHANGED <<log, received, posted>>
  BY DEF Opens, notifications
<1>3. ASSUME NEW p \in Clients
      PROVE  Coming(p)' = Coming(p) \/ Coming(p)' = <<>>
  <2>1. CASE p = q
    BY <1>1, <2>1 DEF Coming, ClientType
  <2>2. CASE p # q
    BY <1>1, <2>2 DEF Coming, ClientType
  <2> QED  BY <2>1, <2>2
<1> QED  BY <1>2, <1>3, ToldShrinks

LEMMA OpenedTells ==
  ASSUME ClientType, ToldInv, NEW q \in Clients, Opened(q)
  PROVE  ToldInv'
<1>1. UNCHANGED <<log, received, posted, conn>> /\ conn[q] \in Sessions
  BY DEF Opened, notifications, ClientType
<1>2. \A d \in Sessions : toClient'[d] = toClient[d] \/ Shorter(toClient'[d], toClient[d])
  <2>1. \/ toClient' = toClient
        \/ toClient[conn[q]] # <<>> /\ toClient' = [toClient EXCEPT ![conn[q]] = Tail(@)]
    BY DEF Opened
  <2>2. toClient[conn[q]] # <<>> => Shorter(Tail(toClient[conn[q]]), toClient[conn[q]])
    BY <1>1, ShorterByTail DEF ClientType
  <2> QED  BY <1>1, <2>1, <2>2 DEF ClientType
<1>3. ASSUME NEW p \in Clients
      PROVE  Coming(p)' = Coming(p) \/ Shorter(Coming(p)', Coming(p))
  BY <1>1, <1>2 DEF Coming, ClientType
<1> QED  BY <1>1, <1>3, ToldShrinks

LEMMA GuiTells ==
  ASSUME ClientType, ToldInv, NEW q \in Clients, Tick(q) \/ ConnectReturns(q) \/ Ends(q)
  PROVE  ToldInv'
<1>1. UNCHANGED <<log, received, toClient>>
  BY DEF Tick, ConnectReturns, Ends, wires, notifications
<1>2. ASSUME NEW p \in Clients
      PROVE  /\ posted'[p] = posted[p] \/ posted'[p] = <<>>
             /\ conn'[p] = conn[p] \/ conn'[p] = None
  BY DEF Tick, ConnectReturns, Ends, ClientType, notifications
<1>3. ASSUME NEW p \in Clients
      PROVE  Coming(p)' = Coming(p) \/ Coming(p)' = <<>>
  BY <1>1, <1>2 DEF Coming
<1> QED  BY <1>1, <1>2, <1>3, ToldShrinks, HeardNone

LEMMA StepKeepsTold == ClientType /\ Wired /\ ToldInv /\ [Next]_vars => ToldInv'
<1> SUFFICES ASSUME ClientType, Wired, ToldInv, [Next]_vars  PROVE ToldInv'
  OBVIOUS
<1>1. CASE UNCHANGED <<log, received, posted, conn, toClient>>
  BY <1>1 DEF ToldInv, Coming
<1>2. CASE Take \/ Dies \/ \E c \in Sessions : acceptConnection(c)
  BY <1>1, <1>2 DEF Take, Dies, acceptConnection, wires, thread, notifications
<1>3. ASSUME NEW c \in Sessions, serveClient(c)  PROVE ToldInv'
  <2>1. UNCHANGED <<gui, thread, notifications>>
    BY <1>3 DEF serveClient
  <2>2. CASE Finish(c)
    BY <1>1, <2>1, <2>2 DEF Finish, wires, thread, notifications
  <2> QED  BY <1>3, <2>1, <2>2, LoginTells, BroadcastTells DEF serveClient
<1>4. ASSUME NEW q \in Clients, ClientStep(q)  PROVE ToldInv'
  BY <1>4, OpensTells, OpenedTells, WritesTells, ReadsTells, EventTells DEF ClientStep
<1>5. ASSUME NEW q \in Clients, DoExec(q)  PROVE ToldInv'
  BY <1>1, <1>5 DEF DoExec, wires, thread
<1>6. ASSUME NEW q \in Clients, Tick(q) \/ ConnectReturns(q) \/ Ends(q)  PROVE ToldInv'
  BY <1>6, GuiTells
<1>7. CASE UNCHANGED vars
  BY <1>1, <1>7 DEF vars, wires, thread, notifications
<1> QED  BY <1>2, <1>3, <1>4, <1>5, <1>6, <1>7, LeavesEnd DEF Next, ServerStep

LEMMA InitTold == Init => ToldInv
<1> SUFFICES ASSUME Init, NEW p \in Clients
             PROVE  ToldPart(log, received[p], Heard(posted[p]), Coming(p))
  BY DEF ToldInv
<1>1. received[p] = <<>> /\ posted[p] = <<>> /\ Coming(p) = <<>>
  BY DEF Init, Coming
<1> QED  BY <1>1, HeardNone, OrderedNone DEF ToldPart, Follows

LEMMA ToldInvariant == Spec => []ToldInv
<1>1. OrderInv /\ ToldInv /\ [Next]_vars => ToldInv'
  BY StepKeepsTold DEF OrderInv
<1> QED  BY <1>1, InitTold, OrderInvariant, PTL DEF Spec

\* No two notifications of the log are the same.
LEMMA TwiceNever ==
  ASSUME ClientType, OwnInOrder, NEW i \in 1..Len(log), NEW j \in 1..Len(log), log[i] = log[j]
  PROVE  i = j
<1>1. i \in Nat /\ j \in Nat /\ log[i].k \in Nat
  <2>1. log[i] \in Notification
    BY DEF ClientType
  <2>2. log[i].k \in 1..Notes
    BY <2>1 DEF Notification
  <2> QED  BY <2>2
<1>2. ~(i < j) /\ ~(j < i)
  BY <1>1 DEF OwnInOrder
<1> QED  BY <1>1, <1>2

LEMMA ToldInOrder == ClientType /\ OwnInOrder /\ ToldInv => SameOrder
<1> SUFFICES ASSUME ClientType, OwnInOrder, ToldInv, NEW p \in Clients, NEW q \in Clients,
                    NEW a \in Notification, NEW b \in Notification, Before(p, a, b), Before(q, b, a)
             PROVE  FALSE
  BY DEF SameOrder
<1>1. Precedes(log, a, b)
  BY DEF Before, ToldInv, ToldPart, Ordered
<1>2. Precedes(log, b, a)
  BY DEF Before, ToldInv, ToldPart, Ordered
<1>3. PICK i \in 1..Len(log), j \in 1..Len(log) : i < j /\ log[i] = a /\ log[j] = b
  BY <1>1 DEF Precedes
<1>4. PICK m \in 1..Len(log), n \in 1..Len(log) : m < n /\ log[m] = b /\ log[n] = a
  BY <1>2 DEF Precedes
<1>5. i = n /\ j = m
  BY <1>3, <1>4, TwiceNever
<1> QED  BY <1>3, <1>4, <1>5

\* Two clients that are told of the same two notifications are told in the same order, over
\* losses of their connections and deaths of the server: the broadcasts are written to all
\* sessions under one mutex, and a client reads and handles what it is told in turn
\* (server_dispatcher.cpp:326-341, dispatch_reader.cpp:88-133, dispatch.cpp:323-327).
THEOREM SameOrderKept == Spec => []SameOrder
<1>1. OrderInv /\ ToldInv => SameOrder
  BY LogInOrder, ToldInOrder DEF OrderInv
<1> QED  BY <1>1, OrderInvariant, ToldInvariant, PTL
===============================================================================
