------------------------------ MODULE ShmQueue ------------------------------
(***************************************************************************)
(* The queue of ShmFifo on the lock of ShmMonitor: what fifo.h and         *)
(* shmem.cpp are together.  An enqueue or dequeue is no longer one step:   *)
(* the thread locks the storage, reads it, writes it and unlocks it, and   *)
(* every other thread may run in between.  ImplementsFifo says that this   *)
(* is still the queue of ShmFifo.                                          *)
(***************************************************************************)
EXTENDS ShmFifo

CONSTANT Nobody

VARIABLES
  cs, hCS, n_writers, n_waiters, hEvent, hSemaphore,
  lockPc,    \* where each thread stands in lock or unlock
  seen       \* messages each thread has read to be in the storage, or Unread

Lock == INSTANCE ShmMonitor WITH pc <- lockPc

\* The storage is locked by threads other than Nobody.
ASSUME LockAssumption == Lock!ThreadsAssumption

lockVars == <<cs, hCS, n_writers, n_waiters, hEvent, hSemaphore, lockPc>>
allVars == <<vars, lockVars, seen>>

Unread == -1

\* The steps of put and get that run inside exclusive_lock.
Locked == {"put", "drop", "take"}

QueueInit == Init /\ Lock!Init /\ seen = [t \in Threads |-> Unread]

\* exclusive_lock xlock(shmem)
Construct(t) ==
  /\ pc[t] \in Locked /\ Lock!StartLock(t)
  /\ UNCHANGED <<vars, seen>>

\* Mutant: the storage is read before the lock is held.
ReadEarly(t) ==
  /\ pc[t] \in Locked /\ seen[t] = Unread
  /\ seen' = [seen EXCEPT ![t] = stored]
  /\ UNCHANGED <<vars, lockVars>>

\* The storage as the thread finds it.
Read(t) ==
  /\ pc[t] \in Locked /\ lockPc[t] = "held" /\ seen[t] = Unread
  /\ seen' = [seen EXCEPT ![t] = stored]
  /\ UNCHANGED <<vars, lockVars>>

\* The storage becomes what the thread makes of what it has read.
Written(t) ==
  IF pc[t] = "put" THEN IF seen[t] < Capacity THEN seen[t] + 1 ELSE seen[t]
                   ELSE IF seen[t] = 0 THEN 0 ELSE seen[t] - 1

Write(t) ==
  /\ pc[t] \in Locked /\ seen[t] # Unread
  /\ stored' = Written(t)
  /\ notFull' = IF pc[t] = "put" /\ seen[t] = Capacity THEN FALSE ELSE notFull
  /\ Goto(t, IF pc[t] # "put" THEN "freed"
             ELSE IF seen[t] = Capacity THEN "full" ELSE "announce")
  /\ seen' = [seen EXCEPT ![t] = Unread]
  /\ UNCHANGED <<permits, left, lockVars>>

\* The lock object goes out of scope.
Destruct(t) ==
  /\ pc[t] \notin Locked /\ Lock!StartUnlock(t)
  /\ UNCHANGED <<vars, seen>>

LockRuns(t) == (Lock!LockStep(t) \/ Lock!UnlockStep(t)) /\ UNCHANGED <<vars, seen>>

\* The rest of put and get runs outside the lock.
Unlocked(t, step) == lockPc[t] = "out" /\ step /\ UNCHANGED <<lockVars, seen>>

StartedStep(t) ==
  \/ Construct(t) \/ Read(t) \/ Write(t) \/ Destruct(t) \/ LockRuns(t)
  \/ Unlocked(t, t \in Producers /\
                   (Announce(t) \/ TakePermitToDrop(t) \/ NoPermitToDrop(t) \/ Unblock(t)))
  \/ Unlocked(t, SignalNotFull(t))

QueueNext ==
  \/ \E t \in Threads : StartedStep(t)
  \/ \E p \in Producers : Unlocked(p, StartPut(p))
  \/ \E c \in Consumers : Unlocked(c, TakePermit(c))

QueueSpec == QueueInit /\ [][QueueNext]_allVars /\ \A t \in Threads : WF_allVars(StartedStep(t))

-----------------------------------------------------------------------------
(* Properties *)

\* The queue on its lock does what the queue with single steps does.
ImplementsFifo == FairSpec

\* The lock underneath, used as the queue uses it: one thread at a time has the storage,
\* and n_writers says so.
StorageExclusive == Lock!MutualExclusion

\* One thread at a time is in the critical section, the hand-over by hCS included.
CriticalSectionExclusive == Lock!OneInside

\* An unlock that wakes the sleepers collects the tokens of exactly these.
HandshakeExact == Lock!HandshakeExact

\* Every thread gets out of put and get, whichever of them hold the lock, wait for it or
\* wait for the queue.
CallsReturn ==
  \A t \in Threads : pc[t] \in {"put", "take"} ~> pc[t] = "idle" /\ lockPc[t] = "out"
=============================================================================
