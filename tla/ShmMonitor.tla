----------------------------- MODULE ShmMonitor -----------------------------
(***************************************************************************)
(* The exclusive lock of the shared storage (fifo/shmem.cpp, the Win32     *)
(* half): what makes one enqueue or dequeue of ShmFifo a single step.      *)
(* The monitor n_writers/n_waiters is guarded by a critical section made   *)
(* of an interlocked counter cs and an auto-reset event hCS; a thread that *)
(* finds the storage locked sleeps on the manual-reset event hEvent, and   *)
(* the thread that unlocks collects one token of hSemaphore from every     *)
(* sleeper before it leaves the critical section.                          *)
(*                                                                         *)
(* Only what the queue uses is here: exclusive locks, no time limit, no    *)
(* nesting (lock_shared and n_nested_exclusive_locks > 1 occur in          *)
(* fifo/tstshmem.cpp only).                                                *)
(***************************************************************************)
EXTENDS Integers, FiniteSets

CONSTANTS
  Threads,   \* threads of all processes that opened the storage
  Nobody     \* the holder of a free lock, in the abstract view

\* What the threads are assumed to be, here and wherever the lock is used.
ThreadsAssumption == IsFiniteSet(Threads) /\ Nobody \notin Threads

VARIABLES
  cs,          \* 1 minus the threads in the critical section or waiting for it
  hCS,         \* auto-reset event: the critical section is handed to a waiter
  n_writers,   \* 1 while the storage is locked
  n_waiters,   \* threads that sleep until it is unlocked
  hEvent,      \* manual-reset event: the storage was unlocked
  hSemaphore,  \* tokens of the threads that woke up
  pc           \* where each thread stands in lock or unlock

vars == <<cs, hCS, n_writers, n_waiters, hEvent, hSemaphore, pc>>

(* The way in: "out", "locking" (before the interlocked decrement), "lockwait" (for   *)
(* hCS), "lock" (inside).  Found locked: "parkleave", "parkpass" (before SetEvent(hCS)),*)
(* "asleep", then "locking" again.  Granted: "gotleave", "gotpass", "held".  The way   *)
(* out: "unlocking", "unlockwait", "unlock", "collect", "outleave", "outpass".         *)
Inside == {"lock", "parkleave", "gotleave", "unlock", "collect", "outleave"}
Waiting == {"lockwait", "unlockwait"}
Passing == {"parkpass", "gotpass", "outpass"}
Steps == Inside \cup Waiting \cup Passing \cup {"out", "locking", "asleep", "held", "unlocking"}

At(steps) == {t \in Threads : pc[t] \in steps}

Goto(t, from, to) == pc[t] = from /\ pc' = [pc EXCEPT ![t] = to]

Init ==
  /\ cs = 1 /\ hCS = FALSE
  /\ n_writers = 0 /\ n_waiters = 0
  /\ hEvent = FALSE /\ hSemaphore = 0
  /\ pc = [t \in Threads |-> "out"]

-----------------------------------------------------------------------------
(* enter_critical_section and leave_critical_section *)

\* InterlockedDecrement(&cs): who finds it at 1 is in, the others wait for hCS.
Decrement(t, from, in, wait) ==
  /\ Goto(t, from, IF cs = 1 THEN in ELSE wait)
  /\ cs' = cs - 1
  /\ UNCHANGED <<hCS, n_writers, n_waiters, hEvent, hSemaphore>>

\* WaitForSingleObject(hCS) returns and resets the event.
Granted(t, wait, in) ==
  /\ hCS /\ hCS' = FALSE
  /\ Goto(t, wait, in)
  /\ UNCHANGED <<cs, n_writers, n_waiters, hEvent, hSemaphore>>

\* InterlockedIncrement(&cs): others wait if the result is not positive.
Increment(t, from, pass, to) ==
  /\ Goto(t, from, IF cs + 1 <= 0 THEN pass ELSE to)
  /\ cs' = cs + 1
  /\ UNCHANGED <<hCS, n_writers, n_waiters, hEvent, hSemaphore>>

\* SetEvent(hCS)
Pass(t, pass, to) ==
  /\ Goto(t, pass, to)
  /\ hCS' = TRUE
  /\ UNCHANGED <<cs, n_writers, n_waiters, hEvent, hSemaphore>>

-----------------------------------------------------------------------------
(* lock *)

StartLock(t) ==
  /\ Goto(t, "out", "locking")
  /\ UNCHANGED <<cs, hCS, n_writers, n_waiters, hEvent, hSemaphore>>

\* The storage is locked: the first to wait resets the event.
Park(t) ==
  /\ n_writers # 0
  /\ Goto(t, "lock", "parkleave")
  /\ n_waiters' = n_waiters + 1
  /\ hEvent' = IF n_waiters = 0 THEN FALSE ELSE hEvent
  /\ UNCHANGED <<cs, hCS, n_writers, hSemaphore>>

\* hEvent is set: give the token and try again.
Awake(t) ==
  /\ hEvent
  /\ Goto(t, "asleep", "locking")
  /\ hSemaphore' = hSemaphore + 1
  /\ UNCHANGED <<cs, hCS, n_writers, n_waiters, hEvent>>

\* Mutant: n_writers is not looked at.
TakeBlind(t) ==
  /\ Goto(t, "lock", "gotleave")
  /\ n_writers' = 1
  /\ UNCHANGED <<cs, hCS, n_waiters, hEvent, hSemaphore>>

Take(t) ==
  /\ n_writers = 0
  /\ Goto(t, "lock", "gotleave")
  /\ n_writers' = 1
  /\ UNCHANGED <<cs, hCS, n_waiters, hEvent, hSemaphore>>

LockStep(t) ==
  \/ Decrement(t, "locking", "lock", "lockwait") \/ Granted(t, "lockwait", "lock")
  \/ Park(t) \/ Increment(t, "parkleave", "parkpass", "asleep") \/ Pass(t, "parkpass", "asleep")
  \/ Awake(t)
  \/ Take(t) \/ Increment(t, "gotleave", "gotpass", "held") \/ Pass(t, "gotpass", "held")

-----------------------------------------------------------------------------
(* unlock *)

StartUnlock(t) ==
  /\ Goto(t, "held", "unlocking")
  /\ UNCHANGED <<cs, hCS, n_writers, n_waiters, hEvent, hSemaphore>>

\* Mutant: hEvent is not set.
FreeSilently(t) ==
  /\ Goto(t, "unlock", IF n_waiters # 0 THEN "collect" ELSE "outleave")
  /\ n_writers' = 0
  /\ UNCHANGED <<cs, hCS, n_waiters, hEvent, hSemaphore>>

\* The storage is free; the sleepers, if any, are woken all together.
Free(t) ==
  /\ Goto(t, "unlock", IF n_waiters # 0 THEN "collect" ELSE "outleave")
  /\ n_writers' = 0
  /\ hEvent' = IF n_waiters # 0 THEN TRUE ELSE hEvent
  /\ UNCHANGED <<cs, hCS, n_waiters, hSemaphore>>

\* Mutant: the first token is taken for all.
CollectOne(t) ==
  /\ hSemaphore > 0 /\ hSemaphore' = hSemaphore - 1
  /\ n_waiters' = n_waiters - 1
  /\ Goto(t, "collect", "outleave")
  /\ UNCHANGED <<cs, hCS, n_writers, hEvent>>

\* One token of each of them, still inside the critical section.
Collect(t) ==
  /\ hSemaphore > 0 /\ hSemaphore' = hSemaphore - 1
  /\ n_waiters' = n_waiters - 1
  /\ Goto(t, "collect", IF n_waiters - 1 # 0 THEN "collect" ELSE "outleave")
  /\ UNCHANGED <<cs, hCS, n_writers, hEvent>>

UnlockStep(t) ==
  \/ Decrement(t, "unlocking", "unlock", "unlockwait") \/ Granted(t, "unlockwait", "unlock")
  \/ Free(t) \/ Collect(t)
  \/ Increment(t, "outleave", "outpass", "out") \/ Pass(t, "outpass", "out")

Next == \E t \in Threads : StartLock(t) \/ LockStep(t) \/ StartUnlock(t) \/ UnlockStep(t)

Spec == Init /\ [][Next]_vars

-----------------------------------------------------------------------------
(* Properties *)

\* The variables keep their types.
TypeOK ==
  /\ cs \in Int /\ hCS \in BOOLEAN
  /\ n_writers \in {0, 1} /\ n_waiters \in Nat
  /\ hEvent \in BOOLEAN /\ hSemaphore \in Nat
  /\ pc \in [Threads -> Steps]

\* The steps at which a thread has the storage to itself.
Holding == {"gotleave", "gotpass", "held", "unlocking", "unlockwait", "unlock"}

\* At most one thread at a time has the storage, and n_writers says so.
MutualExclusion ==
  /\ \A t, u \in At(Holding) : t = u
  /\ n_writers = 1 <=> At(Holding) # {}

\* At most one thread is in the critical section, counting the hand-over by hCS.
OneInside ==
  /\ \A t, u \in At(Inside \cup Passing) : t = u
  /\ hCS => At(Inside \cup Passing) = {}

\* Every thread counted as a waiter is still asleep (or about to be), or has left its
\* token; a token is there only while an unlock collects them, so none is taken for
\* a later sleeper's.
HandshakeExact ==
  /\ n_waiters = Cardinality(At({"parkleave", "parkpass", "asleep"})) + hSemaphore
  /\ hSemaphore > 0 => At({"collect"}) # {}

Lock == INSTANCE Mutex WITH
  asking <- At({"locking", "lockwait", "lock", "parkleave", "parkpass", "asleep"}),
  holder <- IF At(Holding) = {} THEN Nobody ELSE CHOOSE t \in At(Holding) : TRUE,
  releasing <- At({"collect", "outleave", "outpass"})

\* Locking and unlocking the storage is taking and releasing a mutex.
ImplementsMutex == Lock!Spec
=============================================================================
