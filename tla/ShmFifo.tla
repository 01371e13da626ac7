------------------------------- MODULE ShmFifo -------------------------------
(***************************************************************************)
(* The bounded queue (fifo/fifo.h) that joins the threads of a driver      *)
(* process.  A queue lives in a storage that is locked exclusively for one *)
(* enqueue or one dequeue; around it a counting semaphore not_empty holds  *)
(* one permit per announced message and a manual-reset event not_full lets *)
(* blocked producers try again.  The steps between the locked section and  *)
(* the signal that follows it are separate: other threads run between      *)
(* them.  A full queue does not block for ever: the producer takes a       *)
(* permit and removes the oldest message itself                            *)
(* (USE_NOT_BLOCKING_FIFO_WHEN_FULL).                                      *)
(*                                                                         *)
(* All messages of a queue are one struct iec_item, so the storage holds a *)
(* fixed number of them, and what is counted is enough: the properties are *)
(* about how many messages there are, not about which.                     *)
(***************************************************************************)
EXTENDS Integers, FiniteSets

CONSTANTS
  Producers,   \* threads that call fifo_put
  Consumers,   \* threads that call fifo_get
  Capacity,    \* messages the storage has room for
  Puts         \* bound: messages one producer puts in a behaviour

ASSUME ThreadsAssumption ==
  /\ IsFiniteSet(Producers) /\ IsFiniteSet(Consumers)
  /\ Producers \cap Consumers = {}

ASSUME SizesAssumption == Capacity \in Nat \ {0} /\ Puts \in Nat

\* iec104driver_instance.h:54 and iec104.h:32-35 size every queue for more messages
\* than a process has threads.
ASSUME RoomAssumption == Capacity >= Cardinality(Producers)

Threads == Producers \cup Consumers

VARIABLES
  stored,    \* messages in the storage
  permits,   \* count of the semaphore not_empty
  notFull,   \* state of the event not_full
  pc,        \* where each thread stands in put or get
  left       \* messages each producer has still to put

vars == <<stored, permits, notFull, pc, left>>

\* "put": about to enqueue; "announce": enqueued, not_empty not yet signalled; "full":
\* the enqueue failed; "drop": took a permit to remove the oldest message; "blocked":
\* waits for not_full.  "take": a consumer with a permit.  "freed": a message was
\* removed, not_full not yet signalled.
ProducerSteps == {"idle", "put", "announce", "full", "drop", "freed", "blocked"}
ConsumerSteps == {"idle", "take", "freed"}

At(steps) == {t \in Threads : pc[t] \in steps}

Goto(t, step) == pc' = [pc EXCEPT ![t] = step]

Init ==
  /\ stored = 0
  /\ permits = 0
  /\ notFull = FALSE
  /\ pc = [t \in Threads |-> "idle"]
  /\ left = [p \in Producers |-> Puts]

-----------------------------------------------------------------------------
(* put *)

StartPut(p) ==
  /\ pc[p] = "idle" /\ left[p] > 0
  /\ left' = [left EXCEPT ![p] = @ - 1]
  /\ Goto(p, "put")
  /\ UNCHANGED <<stored, permits, notFull>>

Enqueue(p) ==
  /\ pc[p] = "put" /\ stored < Capacity
  /\ stored' = stored + 1
  /\ Goto(p, "announce")
  /\ UNCHANGED <<permits, notFull, left>>

\* The event is reset inside the locked section: a dequeue that follows sets it again.
EnqueueFails(p) ==
  /\ pc[p] = "put" /\ stored = Capacity
  /\ notFull' = FALSE
  /\ Goto(p, "full")
  /\ UNCHANGED <<stored, permits, left>>

\* Mutant: the semaphore is an event and holds one permit at most.
AnnounceOnce(p) ==
  /\ pc[p] = "announce"
  /\ permits' = 1
  /\ Goto(p, "idle")
  /\ UNCHANGED <<stored, notFull, left>>

Announce(p) ==
  /\ pc[p] = "announce"
  /\ permits' = permits + 1
  /\ Goto(p, "idle")
  /\ UNCHANGED <<stored, notFull, left>>

\* Mutant: a producer looks at the semaphore without taking the permit.
LooksForPermit(p) ==
  /\ pc[p] = "full" /\ permits > 0
  /\ Goto(p, "drop")
  /\ UNCHANGED <<stored, permits, notFull, left>>

\* not_empty.wait(1 ms) of a producer that found the storage full.
TakePermitToDrop(p) ==
  /\ pc[p] = "full" /\ permits > 0
  /\ permits' = permits - 1
  /\ Goto(p, "drop")
  /\ UNCHANGED <<stored, notFull, left>>

NoPermitToDrop(p) ==
  /\ pc[p] = "full" /\ permits = 0
  /\ Goto(p, "blocked")
  /\ UNCHANGED <<stored, permits, notFull, left>>

\* The result of this dequeue is not looked at.
Drop(p) ==
  /\ pc[p] = "drop"
  /\ stored' = IF stored = 0 THEN 0 ELSE stored - 1
  /\ Goto(p, "freed")
  /\ UNCHANGED <<permits, notFull, left>>

\* not_full.wait() returns because the event is set.
Unblock(p) ==
  /\ pc[p] = "blocked" /\ notFull
  /\ Goto(p, "put")
  /\ UNCHANGED <<stored, permits, notFull, left>>

-----------------------------------------------------------------------------
(* get; not_full.signal() of both *)

TakePermit(c) ==
  /\ pc[c] = "idle" /\ permits > 0
  /\ permits' = permits - 1
  /\ Goto(c, "take")
  /\ UNCHANGED <<stored, notFull, left>>

Dequeue(c) ==
  /\ pc[c] = "take"
  /\ stored' = IF stored = 0 THEN 0 ELSE stored - 1
  /\ Goto(c, "freed")
  /\ UNCHANGED <<permits, notFull, left>>

\* Mutant: the event is pulsed: it releases those that wait and stays as it was.
PulseNotFull(t) ==
  /\ pc[t] = "freed"
  /\ pc' = [u \in Threads |->
              IF pc[u] = "blocked" THEN "put"
              ELSE IF u # t THEN pc[u]
              ELSE IF t \in Producers THEN "blocked" ELSE "idle"]
  /\ UNCHANGED <<stored, permits, notFull, left>>

\* SetEvent releases the producers that already wait for the event, whatever happens to
\* it next; one that has not yet reached its wait is not among them.
SignalNotFull(t) ==
  /\ pc[t] = "freed"
  /\ notFull' = TRUE
  /\ \E released \in SUBSET At({"blocked"}) :
       pc' = [u \in Threads |->
                IF u \in released THEN "put"
                ELSE IF u # t THEN pc[u]
                ELSE IF t \in Producers THEN "blocked" ELSE "idle"]
  /\ UNCHANGED <<stored, permits, left>>

PutStep(p) ==
  \/ Enqueue(p) \/ EnqueueFails(p) \/ Announce(p) \/ TakePermitToDrop(p)
  \/ NoPermitToDrop(p) \/ Drop(p) \/ Unblock(p) \/ SignalNotFull(p)

GetStep(c) == Dequeue(c) \/ SignalNotFull(c)

Next ==
  \/ \E p \in Producers : StartPut(p) \/ PutStep(p)
  \/ \E c \in Consumers : TakePermit(c) \/ GetStep(c)

Spec == Init /\ [][Next]_vars

\* A thread that is inside put or get keeps running; nobody has to call either.
StartedFairness ==
  /\ \A p \in Producers : WF_vars(PutStep(p))
  /\ \A c \in Consumers : WF_vars(GetStep(c))

FairSpec == Spec /\ StartedFairness

\* The consumers poll in a loop (iec104_imp.cpp:113, iec104_imp_srv.cpp:93).
ConsumersPoll == \A c \in Consumers : WF_vars(TakePermit(c))

-----------------------------------------------------------------------------
(* Properties *)

\* The variables keep their types, and the storage never holds more than its capacity.
TypeOK ==
  /\ stored \in 0..Capacity
  /\ permits \in Nat
  /\ notFull \in BOOLEAN
  /\ pc \in [Threads -> ProducerSteps \cup ConsumerSteps]
  /\ \A p \in Producers : pc[p] \in ProducerSteps
  /\ \A c \in Consumers : pc[c] \in ConsumerSteps
  /\ left \in [Producers -> 0..Puts]

\* Whoever took a permit finds a message in the storage: the check after the dequeue of
\* get, which ends the process when it fails, never fails, although producers remove
\* messages too.
PermitFindsMessage == At({"take", "drop"}) # {} => stored > 0

\* Every stored message is either announced by a permit or in the hands of a thread that
\* will announce or remove it: no message is stranded in the queue, no permit is left
\* over.
PermitsAccounted ==
  stored = permits + Cardinality(At({"announce"})) + Cardinality(At({"take", "drop"}))

\* A producer that waits for not_full is never abandoned: the event is set, or another
\* thread is between a full queue, or a permit, and the signal, so that one of them gets
\* to signal (fifo.h:197-209, 216-222).
NotAbandoned ==
  At({"blocked"}) # {} =>
    \/ notFull
    \/ At({"full", "drop", "take", "freed"}) # {}

\* While the consumers poll, the queue runs empty: no message is left behind by a lost
\* signal.
Drained == ConsumersPoll => (stored > 0 ~> stored = 0)
=============================================================================
