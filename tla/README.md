# A verification development for IndigoSCADA

IndigoSCADA is a SCADA system: field drivers poll remote stations, a real-time
database and a historian store what they report, a dispatcher notifies the
programs that watch it, and a monitor and a user interface raise alarms and
issue commands. This directory holds TLA+ models of the code whose behaviour
depends on order, timing and failure, the TLC runs that check them and the
proofs that TLAPS checks. Paths are relative to the sources; unless said
otherwise `iec_library.c`, `iec_library.h`, `asdu.c` and `client.c` are those of
`drivers/iec104/protocol/`.

## 1. Inventory

| Part | State it keeps | Operations | What makes it hard | What makes it correct |
|---|---|---|---|---|
| **IEC 104 link** `iec_library.c` | `struct iecsock`: V(S), V(R), V(A), `v_ack_rem`, STARTDT and test flags, four queues, T0..T3 | callbacks of one libevent loop: connect, accept, frame received, four timers, the 1 ms user timer, end of file | two peers, timers that restart each other, sequence numbers that wrap, a bounded buffer pool, connections that end or fall silent | nothing lost, doubled or reordered; window of K; acknowledgement by W or T2; a dead peer is noticed and a live one is not cut off |
| **IEC 104 framing** `bufreadcb`, `iecsock_buffer_read` | a partial frame, the missing length, libevent's read watermark | one callback per read that reaches the watermark | TCP cuts the stream anywhere | frames whole and in order |
| **IEC 104 station** `asdu.c`, `client.c`, `server.c`, `iec104_imp*.cpp`, `main_*.cpp` | state machines of general interrogation, database, file transfer, commands; the buffer pool `v_iec_buf` | `process_timer_send_frame` each ms, `process_data_received_hook` for each ASDU | states without a time-out, queues of two priorities, wall-clock comparisons | an interrogation ends and its termination is last; the values shown are those of the field |
| **IEC 101 link** `drivers/iec101/protocol/` | link state, repetition counter, ACD, queues | a polling loop per station | repeated, lost, garbled and late frames on a serial line | values at most once and in order; commands in order and not confirmed unless taken; the link comes back |
| **Shared-memory FIFO** `fifo/` | a queue in a mapped file, a semaphore, an event, the lock of the storage | `put`, `get` by several threads | a full queue that must not block for ever, a lock made of counters and events | what is got was put; one thread in the storage; nobody waits for ever |
| **Child supervision** `drivers/iec104/iec104driverthread.cpp`, `common/proc_manager.cpp`, `manager/buttongroups.cpp` | process handle, pipe, halt flag | keep-alive every 2 s, check every 10 s, restart, halt | restarts that fail, orphans, kills and stops by another thread | one serving child per line; a dead child is replaced; a stop ends it |
| **Driver instance** `drivers/iec104/iec104driver_instance.cpp` | `State`, counters of silence | `Tick`, items from the FIFO, watchdog, Connect, Disconnect | failure and recovery observed by two sources | after a failure the values are asked for again; a lasting failure is shown |
| **Dispatcher** `dispatcher/server/`, `dispatcher/client/`, `common/dispatch*.cpp` | session lists, thread pool; in the client a write queue, three threads, the connection state | accept, serve, broadcast; connect, write, read, events | threads on both sides, a server that dies, events that outlive their thread | every client is told in one order, once; who lost the server comes back |
| **Monitor and schedule** `monitor/` | alarm states, schedule of units | `UpdateCurrentValue`, `Schedule::Tick` | boundaries of time | every unit polled once per period |
| Real-time and historical SQL servers, other drivers, user interface, configurator, database adapters | | | thin programs around third-party engines and protocol stacks, SQL and widgets | not modelled |
| Third party: fastdb, gigabase, EiC, ORTE, libevent, pthreads-w32, sqlite, qwt, hmi_designer, libxml2, the OPC UA stack and other protocol stacks | | | | not modelled |

How they interact: the driver thread in `monitor.exe` starts `iec104master.exe`
and keeps it alive through a named pipe. The child runs the 104 link with the RTU
(or another IndigoSCADA's `iec104slave.exe`); what it receives is published and
put into the FIFO of the driver instance, which updates the real-time database
and raises alarms; the dispatcher tells every client. The link calls the station
through hooks (`connect`, `activation`, `data`, `disconnect`); the station puts
ASDUs into the queues of the link, in buffers of a pool which the link frees when
the peer has acknowledged them. The slave passes interrogations and commands on to
a field driver, for instance the 101 master, through FIFOs.

`PROJECT.json` lists every component and, under `hazards`, what can go wrong in
each at its line and which property would show it.

## 2. Modules

| Module | What it is |
|---|---|
| `Iec104Link` | the two stations of one 104 connection, every callback an action |
| `AsduTransfer` | what the link promises: a bounded, lossless, ordered pipe each way |
| `Iec104LinkInv`, `Iec104LinkProofs` | the inductive invariants of the link (delivery, order, timers), and its proofs |
| `MCIec104Link`, `MCIec104Framing` | instances for TLC |
| `Iec104Framing`, `Iec104FramingProofs` | the byte stream cut into frames, and its proof |
| `ShmFifo` | the queue of `fifo.h`: one step per locked section, signal and wait |
| `Mutex`, `ShmMonitor` | a lock, and the lock of `shmem.cpp` step by step |
| `ShmQueue` | the queue on that lock: the composition of the two |
| `ShmMonitorProofs`, `ShmQueueProofs` | proofs about the lock, and about the queue with single steps and on the lock |
| `Iec104Child`, `Iec104ChildProofs` | the driver thread, its child processes and its pipe, and proofs about them |
| `Iec104Interrogation`, `Iec104InterrogationProofs` | a general interrogation from the driver instance to the field and back, and its proof |
| `LossyTransfer`, `Iec101Link`, `Iec101LinkProofs` | a pipe that may lose but not double or reorder, the 101 link over a serial line, and its proofs |
| `Dispatcher`, `DispatcherProofs` | the dispatcher server and its clients, and proofs about its pool and its order |

### 2.1 `Iec104Link`

Each process runs one libevent loop in one thread, so a callback is atomic and is
one action; the actions of the two stations interleave freely.

* `net[e]` is what `e` has written with `bufferevent_write` and its peer has not
  read: a FIFO, since TCP neither loses nor reorders. A connection may end (a
  process exits: `PeerGone` at the other side, at any moment, so that frames on
  their way may be lost with it) or fall silent (`Cut`).
* `link[e]` is `"idle"` until `Connect`/`Accept`, then `"open"`, and at the end
  names why the process ended. Every error path of the link ends the process:
  `disconnect_hook` calls `ExitProcess`, `iec_call_exit_handler` raises
  `SIGABRT`, whose handler calls `ExitProcess`. Statements after those calls
  (the reconnection in `iecsock_close`) are never reached. `Restart` stands for
  the supervisors that start both programs again with nothing left of the
  session; a slave whose accepted socket has no timer running survives its
  master (`Orphan`) and takes the next connection on a new `iecsock`.
* `pending[e]` are `high_priority_q` and `spontaneous_q`; `RunSendQueues` is one
  run of the user timer: high priority first, as many as the window and the
  1460 octets of a run allow (`Batch` frames). `write_q` is always empty
  between callbacks, because `iecsock_can_queue` is asked before each insertion.
* `Submit` is the station taking a slot of `v_iec_buf` and queueing an ASDU. In
  the code it happens within the user timer or within the data hook; as an action
  of its own it allows those orders and more.
* `Receive` dispatches on the frame as `iecsock_frame_recv` does: T0 and T3 are
  restarted first, then the U, S or I handler, with its order of checks.
* A timer holds the ticks that are left. With T0 = .. = T3 = 0 a running timer
  may expire at any moment, so every relative timing is covered. With positive
  durations `Tick` moves time, and only when no callback is due.
* `num`, `ack`, `sent`, `delivered` and `made` are history: no handler reads them.

Abstractions: the contents of ASDUs (an ASDU is its queue and its number),
sizes of frames (`Batch`), logging, the hooks' effects above the link. The limit
`NetCap` keeps T3 from firing while that many frames of the station are in
flight, unless the network is cut; `MaxAsdu` bounds what is submitted.
STOPDT is not modelled: neither station of this repository sends it.

### 2.2 `AsduTransfer`

Two variables: what each station has transmitted and what each has been given.
A transmission may not put more than `Limit` messages on their way, a delivery is
always the next message, a new session forgets both. `ImplementsTransfer` says
that every step of the link is one of these or leaves both unchanged, with
`Limit` = K.

### 2.3 `Iec104Framing`

`bufreadcb` runs when a read leaves at least the low watermark in the input
buffer, and then loops until that buffer is empty; each iteration is an action. A
byte is known by its frame and its place, so that any byte lost, repeated or put
into the wrong frame shows. TCP cuts the stream anywhere, inside a
header too. `FramesWhole` says of the bytes that are not handed over yet, from the
buffer of the link to the socket, that each is followed by the next one of its frame or
by the first of the next frame, as far as the last byte written: the same as being the
concatenation of the frames that are left, without a recursive definition.

### 2.4 `ShmFifo`, `ShmMonitor`, `ShmQueue`

`ShmFifo` counts messages: what is in the storage, the permits of `not_empty`, the
state of the manual-reset event `not_full`, and where each thread stands in `put`
or `get`. An enqueue or dequeue is one step, because it runs inside
`exclusive_lock`; the signal after it is another one. A producer that finds the
storage full takes a permit and removes a message itself, then waits for `not_full`
all the same (`fifo.h:197-209`). `SignalNotFull` releases any subset of those that
wait: a thread that has read the state of the event late waits on, and finds it set.

`ShmMonitor` is the lock: `cs` is moved by `InterlockedDecrement` and `-Increment`,
`hCS` hands the critical section over, `hEvent` wakes those that found the storage
locked and `hSemaphore` collects one token of each. Each of these calls is a step.
Shared locks, nested locks and time-outs are left out, since the queue uses none.

`ShmQueue` puts one on the other: a thread takes the lock, reads the storage, writes
what it makes of it and gives the lock back. `ImplementsFifo` says that this is still
`ShmFifo`, with the fairness of its threads; the mapping is the identity on the
variables of `ShmFifo`, and the steps of the lock are stutters.

### 2.5 `Iec104Child`

Threads and processes have numbers. A thread has `hProcess`, `h_pipe`, `fRequestHalt`
and its place in `run`; a process is starting, serving or ended. A second process of
the line ends at `IsSingleInstance`. A process whose pipe is closed by its client ends
too (`PipeWorker`), which is how orphans of a dead `monitor.exe` are ended: the
first packet after the end of a child goes to whoever listens, and the pipe is closed
behind it. The 30 s pause is a step that waits until such a process has ended.
Stopping has two steps, since `EndProcess` pauses 100 ms before it looks at
`hProcess` again, and the thread runs meanwhile.

### 2.6 `Iec104Interrogation`

The instance (`State`, its FIFO, the value shown), the master (`gi`, its process), the
slave (`slaveGI`, database state, its queues), and a field that answers a request by
confirmation, value and termination, and reports changes in between. The link is what
`AsduTransfer` promises and is written as two sequences that end with the session.
`SlaveTick` and `MasterTick` are one turn of `process_timer_send_frame` with every
step it makes, but all the items of the field at once, each in an ASDU of its own: the
slave takes at most 100 in a turn and groups neighbours of one type and cause; `GetItems` empties the FIFO as the loop of the instance does.

### 2.7 `Iec101Link`

Master and slave are the functions `STAM_*_moveto`, with the frame a master repeats,
`Trpcount`, `ACD`, and the queues. A transmission and the read that waits for the
answer are two steps of the master. The line may lose a frame, garble it (the check
sum fails) or deliver it after the read has ended (`Lates`); a read takes the first
frame and whatever follows it may be thrown away with it (`Rest`), as `DetectHead`
and the fixed buffer do. The slave ignores the frame count bit, so repetition is not
recognised; `LossyTransfer` says what remains: each class arrives in order and without
duplicates, with gaps.

### 2.8 `Dispatcher`

The server has sessions (`backlog`, `waitList`, active), a pool of threads with its
counters, and the semaphore `go`; a broadcast is one step, since it runs under the
mutex, and reaches every session in `activeList`, logged in or not. A client has its
GUI thread (event loop, in `Connect`, ended), a connecting thread, and after that a
writer and a reader thread that post events to the GUI thread. The first connection is
`OpenDispatcherConnection`'s: if its `Connect` finds that the thread has failed, the
process ends (`OpenFails`). After that `Tick`, the timer of `monitor.exe` and of the user
interface, disconnects and connects again, for ever. `Connect` waits 100 ms and returns
whatever has happened; `Slow` bounds how often that is too short although a thread of the
server is free. `Dies` stands for the watchdog's `ExitProcess` and any other end; the
server is started again at once. `asserted` records that the assertion at
`dispatch.cpp:334` has held, and is the premise of `Sent`: an event of an old writer
thread otherwise removes a notification that has not been written.

`Returns` says which clients stay without a connection: one whose session waits for a
thread, one whose process has ended, and one that has not noticed. The last is a client
whose reader thread has ended silently (`dispatch_reader.cpp:105`) or whose writer holds
what it takes for a descriptor (finding 3): its `Ok()` stays true, and unless it
writes it never finds out.

## 3. What the runs check

| Run | Question | Result |
|---|---|---|
| `link_window` | Both stations send at once, sequence numbers wrap, every timing: window, order of each queue, no frame released before it was delivered, no protocol error, no slot lost, every owed acknowledgement timed, refinement of `AsduTransfer` | holds |
| `link_supervision` | Timers that count, with the default durations, both stations sending and testing, K < W: is a started station always supervised, does a session over a dead peer end, is everything acknowledged, does T1 leave a healthy session alone, does T0 outlast a silence without data? | holds |
| `framing_split` | Cut anywhere: frames whole, in order, nothing lost | holds |
| `queue` | Two producers and a consumer, step by step on the lock: mutual exclusion, the hand-shake of wake-up, no lost signal, every call returns, the queue runs empty, refinement of `ShmFifo` | holds |
| `child` | A child that ends, is killed, is orphaned or cannot be created, a driver stopped and started: does the line come back? | holds |
| `gi` | Interrogations that overlap with events, with initialisation, with lost sessions and watchdog kills: do they end, is the termination last, is the value shown right in the end? | holds |
| `iec101` | One frame lost or garbled and one late: values in order without duplicates, commands in order, bounded repetition, no false confirmation, queues emptied | holds |
| `dispatcher` | Two clients, a death of the server, a client that leaves: counts of the pool, one order of notifications, everything told or the connection lost, who comes back | holds |
| `child_stop` | Is no child left after a stop? | violated: finding 1 |
| `iec101_link` | Does a faultless line keep its link? | violated: finding 2 |
| `dispatch_login` | Does `cli_open_dispatcher` return a descriptor or an error? | violated: finding 3 |
| `link_defaults` | Does T0 leave a session alone whose network works? | violated: finding 4 |

Findings.

1. *A stop may start a child.* `EndProcess` does nothing while `hProcess` is 0, which it
   is from the end of one child to the start of the next, a pause of 30 s included.
   The thread then starts the next child, sees the halt and ends; the child stays.
2. *A command before the first poll costs the 101 link.* After the reset of the link the
   slave waits for a poll and ignores user data, but the master sends queued commands
   first. It repeats the command four times, gives up and initialises the link again;
   the command is lost.
3. *A broadcast during a login is taken for its response.* The length of the
   notification becomes the descriptor. The client counts as connected but has no
   reader, and its socket stays a session nobody reads.
4. *T0 ends a session that carries data.* `iec_library.h:249` asks for T0 > T3 and says
   that the two supervise the channel when there is no data. After TESTFRACT the slave
   waits under T0 for any frame of the master; its own I frames restart the T2 and T3 of
   the master, which stays silent until it owes W of them. T0 would have to exceed
   T3 + W * T2: 100 s with the defaults, which have 30.

Other facts met while modelling, which no run of its own states:

* Link: TESTFRCON stops the T1 of I frames that wait for an acknowledgement (line 823).
  `listen_readcb` starts no timer (line 1269). A refused connection ends the master,
  against the comment at line 1412. A header split by TCP ends the process (line 943),
  and a body split by TCP may be held back until a later frame (line 988).
* Child: the handle of a failed `CreateFile` is kept in `h_pipe`, so the child gets no
  keep-alive (`iec104driverthread.cpp:251`). A halt before line 71 is erased
  (constant `EarlyStop`).
* Interrogation: a message that arrives in the 100 ms of `TerminateChild` clears
  `STATE_FAIL` before the session has ended; the interrogation it asks for goes to a
  process that is being killed. This is why `Refreshed` speaks of behaviours in
  which the watchdog has not ended a session. The request is published best effort
  (`iec104_imp.cpp:363`).
* 101: buffers of sent values are never given back (`asdu.c:1279` of the 101 code). An
  acknowledgement that comes late confirms the next command, hence the conditions of
  `RepeatsBounded` and `ConfirmedIsTaken`. `asdu.c:10480` of the 101 slave queues the
  termination of an interrogation right behind its confirmation.
* Dispatcher: two sessions accepted before the new thread runs make only one thread; the
  older one waits for as long as the younger lasts, and its client retries for ever.
  `Returns` allows exactly that. An event of an old writer thread fails the
  assertion at `dispatch.cpp:334` after a reconnection. A client that only reads does
  not notice the death of the server. A notification whose write fails is not repeated.

### Bounds, and why they are enough

*Link.* The window is decided by the position of N(R) and N(S) relative to V(A), V(S)
and V(R), so the least moduli that tell all positions apart with a wrap in the middle
are what matters: K = 2 with Mod = 3 wraps after three frames. `link_window` lets the
slave submit four ASDUs through two queues and the master two, with three slots: the
pool exceeds the window and still runs out. `NetCap` = 0 leaves out test frames there;
`link_supervision` has them in both directions, with K = 2 below W = 3; there time is
counted in ticks of 5 s, and (6, 3, 2, 4) are the default T0 = 30, T1 = 15, T2 = 10,
T3 = 20 s. A frame is read before time moves on while the network works, so T3 is not due
twice before a test frame is answered (the hazard at `iec_library.c:813`). `link_defaults` has the same
durations and W = 4, K = 6 for 8 and 12, with slave data only. Its T0 is rounded up to 35 s:
with 30, T0 and an acknowledgement that comes T2 + T3 after the test may be due in the same
instant, which is not what finding 4 is about. `Batch` is 2, so that a run is cut both by
the window and by the socket buffer. In `framing_split` the header has 3 bytes and the bodies are
shorter and longer than it. Most of what the safety runs of the link check is also
proved for every value of the constants (section 4).

*Queue.* Two producers with two messages each and a storage of two: a full queue, both
producers blocked, a producer and a consumer that compete for a permit, and three
threads at the lock, so that one sleeps and one waits while a third is inside. The
safety part holds for any number of threads (section 4).

*Child.* Two thread objects, so that an old thread may outlive its stop; one fault of
each kind in any order; process numbers enough for the processes these can lead to.

*Interrogation.* One change of the value and one fault, each at any place; the
interrogations of the start, of the initialisation and after a failure overlap, so up to
three are on their way.

*101.* Two values of each class and two commands, TrpMax = 1 (the code has 3: the bound
of repetitions is a parameter, and the run reaches it), one fault and one late answer.
`iec101_link` has the 3 of `InitLink`.

*Dispatcher.* Two clients and two notifications show every order; four sockets let both
reconnect once; `optimalNumberOfThreads` = 1 lets threads leave the pool (the 8 of the
code would never be reached by two clients). `Slow` = 0: a connection takes longer than
the 100 ms of `Connect` only when its session waits for a thread. With `Slow` = 1 the state
space is too large for a death of the server and a client that leaves together; with one of
the two the same properties hold (289 297 states without a death, 550 150 without a leave).

Deadlock is checked in the link runs. The other models stop where their loads and faults are
used up or where a process has ended: `CHECK_DEADLOCK FALSE`.

### Fairness

`Iec104Link`: weak fairness of connecting, accepting, receiving, running the send queues
and of T2: one libevent loop serves every ready socket and every due timer in each turn,
and the user timer rearms itself each millisecond. `Tick` is fair
too: time passes. `TimerFairness` adds T0, T1 and T3 for `DeadPeerDetected`: a timer that is
due fires. `ShmQueue`: a thread that is in `put` or `get` runs
on, and an event that stays set releases its waiter; `Drained` also needs consumers that
poll, which they do in a loop (`iec104_imp.cpp:113`). `Iec104Child`,
`Iec104Interrogation`, `Iec101Link` and `Dispatcher`: every thread and polling loop runs
on, and in `Iec104Interrogation` the field answers. There is nowhere fairness for
faults, for users, for submitting, or for the success of a connection to a station.

## 4. What is proved

*Link.* For arbitrary K, W, Mod, T0..T3, Batch, PoolSize, NetCap and MaxAsdu that satisfy
`LinkAssumption` (K and W between 1 and Mod - 1, natural durations, positive batch and
pool):

* `TypeCorrect`: `Spec => []TypeOK`. `TypeOK` is inductive by itself. One lemma
  per action; the helpers (`AfterAckType`, `RestType`, `SendCountBound`,
  `ModIsSeqno`, `RunFrames`) say what the operators on queues and sequence
  numbers return.
* `Supervised`: `Spec => []StartedIsSupervised`, from `TypeOK`: every callback that
  stops one of T0, T1, T3 of a started station leaves another one running.
* `AcksTimed`: `Spec => []AckOwedIsTimed`. Not inductive alone: a process that has
  not connected must owe nothing, which `AckTimed` adds. The arithmetic is that
  the distance from `v_ack_rem` to V(R) grows by one per frame modulo Mod and is
  reset when it reaches W < Mod (`DistFacts` and the lemmas after it).
* `SlotsKept`: `Spec => []SlotsAccounted`. A run of the send queues moves as many
  buffers into `ackw_q` as it takes from the two queues, an acknowledgement frees
  exactly what it removes.
* `Delivery`: `Spec => []DeliveryInv`, the invariant behind the sequence numbers.
  None of `WindowRespected`, `NoSequenceError` and `AckedWasDelivered` is inductive:
  whether a check of N(S) or N(R) passes depends on the frames still on their way.
  `Flow(e)` therefore says, for the direction from `e`, that the counters of both
  sides are positions in `sent[e]` and `delivered[Peer(e)]` modulo Mod (`Counters`),
  that the channel holds in order every ASDU between the two (`Carries`,
  `Complete`), and that the acknowledgements on their way back never decrease and
  never exceed what was received (`Acknowledges`). `StartOrder` adds that no I frame
  moves before the slave is started. That two positions less than Mod apart with
  equal remainders are the same (`NumberIsPosition`) is where K < Mod is needed. Most
  steps neither send nor deliver (`NoTransfer`, `QuietFlows`); `RunFlow`, `TakeIFlow`
  and `TakeSFlow` treat the others.
* `NoErrorBetweenPeers`, `AcknowledgedMeansDelivered`, `WindowKept` follow from it, and
  so does `LinkImplementsTransfer`: `Spec => ImplementsTransfer` (`RunSendQueues` maps
  to `Transmit`, a taken I frame to `Deliver`, `Restart` to `NewSession`, every other
  step to a stutter).
* `QueueOrder`: `Spec => []QueueOrderKept`. `QueueInv` says of each queue that what the
  link has taken of it are its first `Taken` ASDUs, that they stand in `sent` in their
  order with none left out, and that what waits continues their numbers. The two queues
  interleave in `sent`, so the order is one of places: every ASDU with a smaller number is
  at an earlier place (`InOrder`). That `delivered` is a prefix of `sent` (`DeliveryInv`)
  carries it over to the other side.
* `PriorityKept`: `Spec => HighPriorityFirst`. `RunParts` and its lemmas say how a run
  divides between the two queues, whatever the window and `Batch` allow.
* `T1NeverSpurious`: `Spec => []NoSpuriousT1` if T2 < T1, as `iec_library.h:252` asks and
  the defaults obey: T1 ends a session only after the network was cut. `T1Inv` relates the
  timers of the two stations. What T1 runs for is an I frame, a test or the start
  (`T1Awaits`); the answer to a test or a start is on its way, or the question still is
  (`Answered`); of an I frame, the acknowledgement is on its way (`AckSent`), the frame
  itself is and T1 has all of its duration, or the peer owes the acknowledgement and its T2
  has less left (`T1Left`).
* `T0Outlasts`: `Spec => []T0OutlastsSilence` if 0 < T3 and T2 + T3 <= T0, which the defaults
  obey (20 + 10 s against 30 s). T0 > T3 alone is not enough even without data: an S frame of
  the slave may restart the T3 of the master up to T2 after the test. The theorem says when
  the T0 of a slave can be due on a link that works and on which no frame of the master waits:
  only if T0 <= T3 + W * T2, and then only while the master has taken an I frame and keeps its
  acknowledgement back, or in the same moment as T3. So the first case is finding 4, and a T0
  that is longer is never due. A slave that waits under T0 leaves the test to the master
  (`T3Known`), so it is the silence of the master that counts. A master that owes n frames is
  silent for W - 1 - n intervals of T2 at most (`Patience`), one that owes none until T3
  expires; `T0Left` says that T0 has more left than that, in the second case always and in
  the first if T0 is longer than T3 + W * T2 (`LongT0`, `Reserve`).
* Both use `NextFacts`, which says once what each action does to the two channels, the
  counters and the timers; each conjunct of the invariants is then a lemma of its own.

*Framing.* `WholeFrames`: `Spec => []FramesWhole`, for any lengths of frames and any way
TCP cuts the stream. `FramingInv` adds that the missing length and the buffered bytes make
up the frame that is being read (`BufferCounts`). The lemmas say what cutting and
joining do to a sequence (`Cut`, `CutJoined`): a callback moves the cuts between buffer,
libevent and socket, and their concatenation only changes when a frame is handed over.

*Queue and lock.* For any finite sets of producers and consumers, any capacity that has
room for one message of each producer (`RoomAssumption`; the queues are sized for
hundreds), and any number of messages:

* The queue with single steps (`ShmQueueProofs`): `QueueTypeCorrect`, `PermitsAreHonoured`, `NoProducerAbandoned`. The
  invariant counts: the stored messages are the permits, those about to be
  announced and those whose permit a thread has taken. With it, if a producer waits and
  `not_full` is reset, the storage was full when it was reset, and one message of each
  producer fits, so a permit or its holder exists (`HoldersFind` and its lemmas on
  cardinalities of the sets of threads at a step).
* `ShmMonitorProofs`: `StorageExclusive`, `CriticalSectionExclusive`, `HandshakeCorrect`
  and the refinement `MonitorIsMutex`. The invariant relates `cs` to the threads inside
  and waiting, `hCS` to the one hand-over that may be open, and `n_waiters` to the
  sleepers and their tokens; mutual exclusion alone is not inductive, since who is let
  in depends on the counter.
* The queue on the lock (`ShmQueueProofs`): it takes and gives back the lock as
  `ShmMonitor` assumes (`LockSpec`), hence `QueueLockSafe` and `QueueHandshake`; what a thread has read is still true when it
  writes, because it alone is in the storage, hence every step is a step of `ShmFifo` or
  a stutter: `QueueIsFifo`; and with it everything proved of `ShmFifo` (`QueueIsSafe`).

*Child.* `Iec104ChildProofs`, for any threads, processes and faults: `ChildTypeCorrect`, and
`ThreadGivesUpOnlyOnFailure`. The invariant adds the moment between the first start and the
loop (`StartKnown`): a thread without a process there, or in its loop, has met a failure.
Every step either leaves the thread its process, moves it away from there, or is the failure.

*Interrogation.* `TerminationComesLast`, for any number of interrogations, changes and
faults. `OrderInv` says of every queue between the field and the instance, and of every
pair of them, that no value of a run stands behind its termination (`Sound`, `Ahead`), and
that a run whose termination has arrived is over. `send_items` takes the items of some
kinds out of a queue: `ChosenIsPart` says that they keep their order, from which
everything `SlaveTick` and `MasterTick` move follows.

*101 link.* `Iec101LinkProofs`, for any number of values, commands, faults and late
answers and any `TrpMax`:

* `LinkImplementsTransfer`: `Spec => ImplementsTransfer`. Per class, the youngest value
  delivered, the values on the line and those still queued form one increasing sequence
  (`ValuesInOrder`); whatever is lost or thrown away leaves it one.
* `CommandsKeepOrder`: the same for commands, with repetitions (`CommandsOrdered`). What
  is in `txbuffer` while the master is sending is the last of them.
* `ConfirmedWasTaken` and `RepeatsAreBounded`: no more frames and answers are on the two
  lines together than answers have been late, and one more while the master waits
  (`LockStep`). While no answer has been late the one frame on the line thus belongs to the
  command being repeated (`ConfirmedInv`). The copies of a command on the line, in the
  slave and executed are counted by `Trpcount` while it is being sent, and each answer
  taken for the wrong frame uses up a late one (`RepeatsInv`).

*Dispatcher.* `DispatcherProofs`, for any clients, connections, notifications and deaths
and any size of the pool (`PoolAssumption`: at least one):

* `CountsAreTrue` and `PoolNeverGivenUp` need each other and that a session is in
  `waitList` once; a thread that goes leaves at least `optimalNumberOfThreads` behind.
* `OwnOrderKept`: what a client has had logged comes before what it has on the wire,
  that before what its writer thread holds, and that before what waits behind the
  head of its queue (`IssuedBy`). It needs that only one session carries
  notifications of a client, and that it is its present one (`OneWire`); a reconnection would
  otherwise let an old session overtake the new one.
* `SameOrderKept`: what a client has been told, what is posted to its GUI thread and what
  comes from its socket is, in this order, a part of one log (`ToldInv`), so two
  clients cannot disagree about the order of two notifications.

Every safety invariant and action property a passing run checks is thus stated by a
theorem. Only model-checked are:

* Liveness (`DeadPeerDetected`, `EventuallyDrained`, `CallsReturn`, `Drained`, `LineRecovers`,
  `InterrogationEnds`, `Refreshed`, `FailureShown`, `Told`, `Sent`, `Returns`), which TLAPS does
  not reach. `ImplementsFifo` includes the fairness of `ShmFifo`; `QueueIsFifo` is its
  safety part.

Each module states its `TypeOK`. Those of the link, of the child processes, of the queue, of
the lock and of the framing are proved; `GIType`, `LinkType`, `ServerType` and `ClientType` in the
other proof modules are the part of it that the proofs there need, and are proved too.

## 5. Not modelled

* Link: STOPDT, which neither station sends, and several sockets of one slave.
* Station: select before operate, age of commands, file transfer, clock
  synchronisation, negative confirmations: state machines whose steps are wall-clock
  comparisons around the same queues.
* `proc_manager.cpp` and `buttongroups.cpp`: the same restart as `Iec104Child` without a
  pipe; their races are with a user's clicks.
* Dispatcher: `stop()` (it joins a thread that never returns), delayed notifications, a
  refused login, full socket buffers.
* Schedule, SQL servers, user interface, configurator: date arithmetic and SQL around
  third-party engines.
* The other drivers and the third-party code make up nearly all of the repository's 1.4
  million lines (sqlite, libxml2, OPC UA, Qt widgets, protocol stacks, database engines),
  so the lines modelled are a small share of all of them; they are most of the
  control of the parts listed above as modelled.

## 6. Plan

1. Commands of the 104 station on top of `AsduTransfer`: select, operate, age.
2. A slave with any master: STOPDT and STARTDT with frames in `write_q`, several sockets.
3. `Schedule`; delayed notifications and `stop()` of the dispatcher.
