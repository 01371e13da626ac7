-------------------------- MODULE ShmMonitorProofs --------------------------
(***************************************************************************)
(* Proofs about ShmMonitor, for every finite set of threads.               *)
(***************************************************************************)
EXTENDS ShmMonitor, FiniteSetTheorems, TLAPS

\* The interlocked counter counts the threads in the critical section or before it.
CounterExact == cs = 1 - Cardinality(At(Inside \cup Waiting))

\* The critical section is handed over only to a thread that waits for it.
HandedToWaiter == hCS \/ At(Passing) # {} => At(Waiting) # {}

\* The critical section made of cs and hCS.
Critical == TypeOK /\ OneInside /\ CounterExact /\ HandedToWaiter

\* A sleeper that sees hEvent set is one that an unlock is collecting.
Parked == {"parkleave", "parkpass", "asleep"}
WokenAreCollected == hEvent /\ At(Parked) # {} => At({"collect"}) # {}

\* The inductive invariant.
IInv == Critical /\ MutualExclusion /\ HandshakeExact /\ WokenAreCollected

\* Steps that are neither in the critical section, nor before it, nor handing it over.
Outside == {"out", "locking", "asleep", "held", "unlocking"}

-----------------------------------------------------------------------------
(* The threads at some steps. *)

LEMMA AtFinite ==
  ASSUME ThreadsAssumption, NEW S
  PROVE  IsFiniteSet(At(S)) /\ Cardinality(At(S)) \in Nat
<1>1. At(S) \in SUBSET Threads
  BY DEF At
<1> QED  BY <1>1, ThreadsAssumption, FS_Subset, FS_CardinalityType DEF ThreadsAssumption

LEMMA Someone ==
  ASSUME ThreadsAssumption, NEW S
  PROVE  At(S) # {} <=> Cardinality(At(S)) > 0
BY AtFinite, FS_EmptySet

LEMMA Moves ==
  ASSUME TypeOK, NEW t \in Threads, NEW from, NEW to, Goto(t, from, to), NEW S
  PROVE  At(S)' = IF to \in S THEN At(S) \cup {t} ELSE At(S) \ {t}
<1>1. \A u \in Threads : pc'[u] = IF u = t THEN to ELSE pc[u]
  BY DEF TypeOK, Goto
<1> QED  BY <1>1 DEF At

\* What the step from `from' to `to' adds to the number of threads at S.
Change(from, to, S) == (IF to \in S THEN 1 ELSE 0) - (IF from \in S THEN 1 ELSE 0)

LEMMA ChangeType == \A from, to, S : Change(from, to, S) \in {-1, 0, 1}
BY DEF Change

LEMMA Counts ==
  ASSUME ThreadsAssumption, TypeOK, NEW t \in Threads, NEW from, NEW to, Goto(t, from, to), NEW S
  PROVE  Cardinality(At(S))' = Cardinality(At(S)) + Change(from, to, S)
<1>1. At(S)' = IF to \in S THEN At(S) \cup {t} ELSE At(S) \ {t}
  BY Moves
<1>2. t \in At(S) <=> from \in S
  BY DEF At, Goto
<1>3. IsFiniteSet(At(S)) /\ Cardinality(At(S)) \in Nat
  BY AtFinite
<1>4. Cardinality(At(S) \cup {t}) = IF t \in At(S) THEN Cardinality(At(S)) ELSE Cardinality(At(S)) + 1
  BY <1>3, FS_AddElement
<1>5. Cardinality(At(S) \ {t}) = IF t \in At(S) THEN Cardinality(At(S)) - 1 ELSE Cardinality(At(S))
  BY <1>3, FS_RemoveElement
<1>6. CASE to \in S
  BY <1>1, <1>2, <1>3, <1>4, <1>6 DEF Change
<1>7. CASE to \notin S
  BY <1>1, <1>2, <1>3, <1>5, <1>7 DEF Change
<1> QED  BY <1>6, <1>7

LEMMA Stays ==
  ASSUME TypeOK, NEW t \in Threads, NEW from, NEW to, Goto(t, from, to), NEW S,
         from \in S <=> to \in S
  PROVE  At(S)' = At(S)
<1>1. \A u \in Threads : pc'[u] = IF u = t THEN to ELSE pc[u]
  BY DEF TypeOK, Goto
<1> QED  BY <1>1 DEF At, Goto

LEMMA PcType ==
  ASSUME TypeOK, NEW t \in Threads, NEW from, NEW to \in Steps, Goto(t, from, to)
  PROVE  pc' \in [Threads -> Steps]
BY DEF TypeOK, Goto

-----------------------------------------------------------------------------
(* The critical section: each kind of step keeps Critical. *)

Rest == /\ n_writers' \in {0, 1} /\ n_waiters' \in Nat
        /\ hEvent' \in BOOLEAN /\ hSemaphore' \in Nat

LEMMA StepSets ==
  /\ Inside \cap Waiting = {} /\ Inside \cap Passing = {} /\ Waiting \cap Passing = {}
  /\ Outside \cap (Inside \cup Waiting \cup Passing) = {}
  /\ Inside \cup Waiting \cup Passing \cup Outside = Steps
BY DEF Inside, Waiting, Passing, Outside, Steps

\* Moves that stay on one side of the critical section.
LEMMA SameSide ==
  ASSUME Critical, NEW t \in Threads, NEW from, NEW to, Goto(t, from, to),
         \/ from \in Inside /\ to \in Inside
         \/ from \in Outside /\ to \in Outside,
         cs' = cs, hCS' = hCS, Rest
  PROVE  Critical'
<1>1. TypeOK'
  BY PcType, StepSets DEF Critical, TypeOK, Rest
<1>2. /\ At(Inside \cup Passing)' = At(Inside \cup Passing)
      /\ At(Inside \cup Waiting)' = At(Inside \cup Waiting)
      /\ At(Passing)' = At(Passing) /\ At(Waiting)' = At(Waiting)
  BY Stays, StepSets DEF Critical
<1>3. OneInside' /\ CounterExact' /\ HandedToWaiter'
  BY <1>2 DEF Critical, OneInside, CounterExact, HandedToWaiter
<1> QED  BY <1>1, <1>3 DEF Critical

\* cs is 1: nobody is in, nobody waits, nobody hands over.
LEMMA FreeCounter ==
  ASSUME ThreadsAssumption, Critical, cs = 1
  PROVE  At(Inside \cup Waiting \cup Passing) = {} /\ ~hCS
<1>1. Cardinality(At(Inside \cup Waiting)) = 0
  BY AtFinite DEF Critical, CounterExact
<1>2. At(Inside \cup Waiting) = {}
  BY <1>1, AtFinite, FS_EmptySet
<1>3. At(Waiting) = {} /\ At(Inside) = {}
  BY <1>2 DEF At
<1>4. ~hCS /\ At(Passing) = {}
  BY <1>3 DEF Critical, HandedToWaiter
<1> QED  BY <1>3, <1>4 DEF At

LEMMA DecrementKeeps ==
  ASSUME ThreadsAssumption, Critical, NEW t \in Threads, NEW from \in Outside, NEW in \in Inside,
         NEW wait \in Waiting, Decrement(t, from, in, wait)
  PROVE  Critical'
<1> DEFINE to == IF cs = 1 THEN in ELSE wait
<1>a. Goto(t, from, to) /\ to \in Inside \cup Waiting /\ from \notin Inside \cup Waiting \cup Passing
  BY StepSets DEF Decrement
<1>1. TypeOK'
  <2>1. to \in Steps
    BY StepSets
  <2>2. pc' \in [Threads -> Steps]
    BY <1>a, <2>1, PcType DEF Critical
  <2> QED  BY <2>2 DEF Critical, TypeOK, Decrement
<1>2. CounterExact'
  <2>1. Cardinality(At(Inside \cup Waiting))' = Cardinality(At(Inside \cup Waiting)) + 1
    BY <1>a, Counts DEF Critical, Change
  <2> QED  BY <2>1, AtFinite DEF Critical, CounterExact, Decrement
<1>3. CASE cs = 1
  <2>1. At(Inside \cup Waiting \cup Passing) = {} /\ ~hCS
    BY <1>3, FreeCounter
  <2>2. At(Inside \cup Passing) = {}
    BY <2>1 DEF At
  <2>3. At(Inside \cup Passing)' = {t}
    <3>1. to \in Inside \cup Passing
      BY <1>3
    <3>2. At(Inside \cup Passing)' = At(Inside \cup Passing) \cup {t}
      BY <1>a, <3>1, Moves DEF Critical
    <3> QED  BY <2>2, <3>2
  <2>4. ~hCS' /\ At(Passing)' = {}
    <3>1. At(Passing)' = At(Passing)
      BY <1>a, <1>3, Stays, StepSets DEF Critical
    <3> QED  BY <2>1, <2>2, <3>1 DEF At, Decrement
  <2>5. OneInside' /\ HandedToWaiter'
    BY <2>3, <2>4 DEF OneInside, HandedToWaiter
  <2> QED  BY <1>1, <1>2, <2>5 DEF Critical
<1>4. CASE cs # 1
  <2>1. At(Inside \cup Passing)' = At(Inside \cup Passing)
    BY <1>a, <1>4, Stays, StepSets DEF Critical
  <2>2. At(Waiting)' # {}
    BY <1>a, <1>4, Moves DEF Critical
  <2>3. OneInside' /\ HandedToWaiter'
    BY <2>1, <2>2 DEF OneInside, HandedToWaiter, Critical, Decrement
  <2> QED  BY <1>1, <1>2, <2>3 DEF Critical
<1> QED  BY <1>3, <1>4

LEMMA GrantedKeeps ==
  ASSUME Critical, NEW t \in Threads, NEW wait \in Waiting, NEW in \in Inside,
         Granted(t, wait, in)
  PROVE  Critical'
<1>a. Goto(t, wait, in)
  BY DEF Granted
<1>1. TypeOK'
  BY <1>a, PcType, StepSets DEF Critical, TypeOK, Granted
<1>2. At(Inside \cup Waiting)' = At(Inside \cup Waiting) /\ At(Passing)' = At(Passing)
  BY <1>a, Stays, StepSets DEF Critical
<1>3. At(Inside \cup Passing) = {}
  BY DEF Critical, OneInside, Granted
<1>4. At(Inside \cup Passing)' = {t}
  <2>1. At(Inside \cup Passing)' = At(Inside \cup Passing) \cup {t}
    BY <1>a, Moves DEF Critical
  <2> QED  BY <1>3, <2>1
<1>5. At(Passing) = {}
  BY <1>3 DEF At
<1>6. OneInside' /\ CounterExact' /\ HandedToWaiter'
  BY <1>2, <1>4, <1>5 DEF Critical, OneInside, CounterExact, HandedToWaiter, Granted
<1> QED  BY <1>1, <1>6 DEF Critical

LEMMA IncrementKeeps ==
  ASSUME ThreadsAssumption, Critical, NEW t \in Threads, NEW from \in Inside, NEW pass \in Passing,
         NEW to \in Outside, Increment(t, from, pass, to)
  PROVE  Critical'
<1> DEFINE next == IF cs + 1 <= 0 THEN pass ELSE to
<1>a. /\ Goto(t, from, next) /\ next \notin Inside \cup Waiting
      /\ next \in Steps /\ from \notin Waiting /\ from \notin Passing
  BY StepSets DEF Increment
<1>b. At(Inside \cup Passing) = {t} /\ ~hCS
  <2>1. t \in At(Inside \cup Passing)
    BY <1>a DEF Goto, At
  <2> QED  BY <2>1 DEF Critical, OneInside
<1>1. TypeOK'
  <2>1. pc' \in [Threads -> Steps]
    BY <1>a, PcType DEF Critical
  <2> QED  BY <2>1 DEF Critical, TypeOK, Increment
<1>2. CounterExact'
  <2>1. Cardinality(At(Inside \cup Waiting))' = Cardinality(At(Inside \cup Waiting)) - 1
    <3>1. Change(from, next, Inside \cup Waiting) = -1
      BY <1>a DEF Change
    <3>2. Cardinality(At(Inside \cup Waiting))'
            = Cardinality(At(Inside \cup Waiting)) + Change(from, next, Inside \cup Waiting)
      BY <1>a, Counts DEF Critical
    <3> QED  BY <3>1, <3>2, AtFinite
  <2> QED  BY <2>1, AtFinite DEF Critical, CounterExact, Increment
<1>3. At(Waiting)' = At(Waiting)
  BY <1>a, Stays DEF Critical
<1>4. CASE cs + 1 <= 0
  <2>1. next \in Inside \cup Passing
    BY <1>4
  <2>2. At(Inside \cup Passing)' = {t}
    <3>1. At(Inside \cup Passing)' = At(Inside \cup Passing) \cup {t}
      BY <1>a, <2>1, Moves DEF Critical
    <3> QED  BY <1>b, <3>1
  <2>3. At(Waiting) # {}
    <3>1. ~ (At(Inside \cup Waiting) \subseteq {t})
      <4>1. SUFFICES ASSUME At(Inside \cup Waiting) \subseteq {t} PROVE FALSE
        OBVIOUS
      <4>2. IsFiniteSet({t}) /\ Cardinality({t}) = 1
        BY FS_Singleton
      <4>3. Cardinality(At(Inside \cup Waiting)) <= 1
        BY <4>1, <4>2, FS_Subset
      <4> QED  BY <1>4, <4>3, AtFinite DEF Critical, CounterExact, TypeOK
    <3> QED  BY <1>b, <3>1 DEF At
  <2>4. OneInside' /\ HandedToWaiter'
    BY <1>3, <2>2, <2>3, <1>b DEF OneInside, HandedToWaiter, Increment
  <2> QED  BY <1>1, <1>2, <2>4 DEF Critical
<1>5. CASE ~(cs + 1 <= 0)
  <2>1. next \notin Inside \cup Passing
    BY <1>5, StepSets
  <2>2. At(Inside \cup Passing)' = {}
    <3>1. At(Inside \cup Passing)' = At(Inside \cup Passing) \ {t}
      BY <1>a, <2>1, Moves DEF Critical
    <3> QED  BY <1>b, <3>1
  <2>3. At(Passing)' = {}
    BY <2>2 DEF At
  <2>4. OneInside' /\ HandedToWaiter'
    BY <2>2, <2>3, <1>b DEF OneInside, HandedToWaiter, Increment
  <2> QED  BY <1>1, <1>2, <2>4 DEF Critical
<1> QED  BY <1>4, <1>5

LEMMA PassKeeps ==
  ASSUME Critical, NEW t \in Threads, NEW pass \in Passing, NEW to \in Outside,
         Pass(t, pass, to)
  PROVE  Critical'
<1>a. Goto(t, pass, to) /\ to \notin Inside \cup Passing
  BY StepSets DEF Pass
<1>1. TypeOK'
  BY <1>a, PcType, StepSets DEF Critical, TypeOK, Pass
<1>2. At(Inside \cup Waiting)' = At(Inside \cup Waiting) /\ At(Waiting)' = At(Waiting)
  BY <1>a, Stays, StepSets DEF Critical
<1>3. t \in At(Passing) /\ t \in At(Inside \cup Passing)
  BY <1>a DEF Goto, At
<1>4. At(Inside \cup Passing)' = {}
  <2>1. At(Inside \cup Passing)' = At(Inside \cup Passing) \ {t}
    BY <1>a, Moves DEF Critical
  <2>2. At(Inside \cup Passing) = {t}
    BY <1>3 DEF Critical, OneInside
  <2> QED  BY <2>1, <2>2
<1>5. At(Waiting) # {}
  BY <1>3 DEF Critical, HandedToWaiter
<1>6. OneInside' /\ CounterExact' /\ HandedToWaiter'
  BY <1>2, <1>4, <1>5 DEF Critical, OneInside, CounterExact, HandedToWaiter, Pass
<1> QED  BY <1>1, <1>6 DEF Critical

LEMMA LockKeepsCritical ==
  ASSUME ThreadsAssumption, Critical, NEW t \in Threads, StartLock(t) \/ LockStep(t) \/ StartUnlock(t)
  PROVE  Critical'
<1> USE DEF Inside, Waiting, Passing, Outside
<1>1. CASE StartLock(t)
  BY <1>1, SameSide DEF StartLock, Rest, Critical, TypeOK
<1>2. CASE Decrement(t, "locking", "lock", "lockwait")
  BY <1>2, DecrementKeeps
<1>3. CASE Granted(t, "lockwait", "lock")
  BY <1>3, GrantedKeeps
<1>4. CASE Park(t)
  <2>1. Rest
    <3>1. hEvent' \in BOOLEAN
      BY <1>4 DEF Park, Critical, TypeOK
    <3>2. n_writers' \in {0, 1} /\ n_waiters' \in Nat /\ hSemaphore' \in Nat
      BY <1>4 DEF Park, Critical, TypeOK
    <3> QED  BY <3>1, <3>2 DEF Rest
  <2> QED  BY <1>4, <2>1, SameSide DEF Park
<1>5. CASE Increment(t, "parkleave", "parkpass", "asleep")
  BY <1>5, IncrementKeeps
<1>6. CASE Pass(t, "parkpass", "asleep")
  BY <1>6, PassKeeps
<1>7. CASE Awake(t)
  <2>1. Rest
    BY <1>7 DEF Awake, Rest, Critical, TypeOK
  <2> QED  BY <1>7, <2>1, SameSide DEF Awake
<1>8. CASE Take(t)
  <2>1. Rest
    BY <1>8 DEF Take, Rest, Critical, TypeOK
  <2> QED  BY <1>8, <2>1, SameSide DEF Take
<1>9. CASE Increment(t, "gotleave", "gotpass", "held")
  BY <1>9, IncrementKeeps
<1>10. CASE Pass(t, "gotpass", "held")
  BY <1>10, PassKeeps
<1>11. CASE StartUnlock(t)
  BY <1>11, SameSide DEF StartUnlock, Rest, Critical, TypeOK
<1> QED  BY <1>1, <1>2, <1>3, <1>4, <1>5, <1>6, <1>7, <1>8, <1>9, <1>10, <1>11 DEF LockStep

LEMMA UnlockKeepsCritical ==
  ASSUME ThreadsAssumption, Critical, HandshakeExact, NEW t \in Threads, UnlockStep(t)
  PROVE  Critical'
<1> USE DEF Inside, Waiting, Passing, Outside
<1>1. CASE Decrement(t, "unlocking", "unlock", "unlockwait")
  BY <1>1, DecrementKeeps
<1>2. CASE Granted(t, "unlockwait", "unlock")
  BY <1>2, GrantedKeeps
<1>3. CASE Free(t)
  <2>1. Rest
    BY <1>3 DEF Free, Rest, Critical, TypeOK
  <2> QED  BY <1>3, <2>1, SameSide DEF Free
<1>4. CASE Collect(t)
  <2>1. n_waiters - 1 \in Nat /\ hSemaphore - 1 \in Nat
    BY <1>4, AtFinite DEF Collect, HandshakeExact, Critical, TypeOK
  <2>2. Rest
    BY <1>4, <2>1 DEF Collect, Rest, Critical, TypeOK
  <2> QED  BY <1>4, <2>2, SameSide DEF Collect
<1>5. CASE Increment(t, "outleave", "outpass", "out")
  BY <1>5, IncrementKeeps
<1>6. CASE Pass(t, "outpass", "out")
  BY <1>6, PassKeeps
<1> QED  BY <1>1, <1>2, <1>3, <1>4, <1>5, <1>6 DEF UnlockStep

-----------------------------------------------------------------------------
(* The storage: who holds it. *)

LEMMA HoldingStays ==
  ASSUME TypeOK, MutualExclusion, NEW t \in Threads, NEW from, NEW to, Goto(t, from, to),
         from \in Holding <=> to \in Holding, n_writers' = n_writers
  PROVE  MutualExclusion'
<1>1. At(Holding)' = At(Holding)
  BY Stays
<1> QED  BY <1>1 DEF MutualExclusion

LEMMA LockKeepsExclusion ==
  ASSUME TypeOK, MutualExclusion, NEW t \in Threads,
         StartLock(t) \/ LockStep(t) \/ StartUnlock(t)
  PROVE  MutualExclusion'
<1> USE HoldingStays DEF Holding
<1>1. CASE StartLock(t)
  BY <1>1 DEF StartLock
<1>2. CASE Decrement(t, "locking", "lock", "lockwait")
  BY <1>2 DEF Decrement
<1>3. CASE Granted(t, "lockwait", "lock")
  BY <1>3 DEF Granted
<1>4. CASE Park(t)
  BY <1>4 DEF Park
<1>5. CASE Increment(t, "parkleave", "parkpass", "asleep")
  BY <1>5 DEF Increment
<1>6. CASE Pass(t, "parkpass", "asleep")
  BY <1>6 DEF Pass
<1>7. CASE Awake(t)
  BY <1>7 DEF Awake
<1>8. CASE Take(t)
  <2>1. Goto(t, "lock", "gotleave") /\ n_writers = 0 /\ n_writers' = 1
    BY <1>8 DEF Take
  <2>2. At(Holding) = {}
    BY <2>1 DEF MutualExclusion
  <2>3. At(Holding)' = At(Holding) \cup {t}
    BY <2>1, Moves
  <2> QED  BY <2>1, <2>2, <2>3 DEF MutualExclusion
<1>9. CASE Increment(t, "gotleave", "gotpass", "held")
  BY <1>9 DEF Increment
<1>10. CASE Pass(t, "gotpass", "held")
  BY <1>10 DEF Pass
<1>11. CASE StartUnlock(t)
  BY <1>11 DEF StartUnlock
<1> QED  BY <1>1, <1>2, <1>3, <1>4, <1>5, <1>6, <1>7, <1>8, <1>9, <1>10, <1>11 DEF LockStep

LEMMA UnlockKeepsExclusion ==
  ASSUME TypeOK, MutualExclusion, NEW t \in Threads, UnlockStep(t)
  PROVE  MutualExclusion'
<1> USE HoldingStays DEF Holding
<1>1. CASE Decrement(t, "unlocking", "unlock", "unlockwait")
  BY <1>1 DEF Decrement
<1>2. CASE Granted(t, "unlockwait", "unlock")
  BY <1>2 DEF Granted
<1>3. CASE Free(t)
  <2> DEFINE to == IF n_waiters # 0 THEN "collect" ELSE "outleave"
  <2>1. Goto(t, "unlock", to) /\ n_writers' = 0
    BY <1>3 DEF Free
  <2>2. At(Holding) = {t}
    <3>1. t \in At(Holding)
      BY <2>1 DEF At, Goto
    <3> QED  BY <3>1 DEF MutualExclusion
  <2>3. At(Holding)' = At(Holding) \ {t}
    <3>1. to \notin Holding
      OBVIOUS
    <3> QED  BY <2>1, <3>1, Moves
  <2> QED  BY <2>1, <2>2, <2>3 DEF MutualExclusion
<1>4. CASE Collect(t)
  BY <1>4 DEF Collect
<1>5. CASE Increment(t, "outleave", "outpass", "out")
  BY <1>5 DEF Increment
<1>6. CASE Pass(t, "outpass", "out")
  BY <1>6 DEF Pass
<1> QED  BY <1>1, <1>2, <1>3, <1>4, <1>5, <1>6 DEF UnlockStep

-----------------------------------------------------------------------------
(* The handshake between an unlock and the sleepers. *)

Handshake == HandshakeExact /\ WokenAreCollected

Sleepers == Cardinality(At(Parked))

LEMMA HandshakeInNumbers ==
  ASSUME ThreadsAssumption, TypeOK
  PROVE  /\ HandshakeExact <=> /\ n_waiters = Sleepers + hSemaphore
                               /\ hSemaphore > 0 => At({"collect"}) # {}
         /\ Sleepers \in Nat /\ n_waiters \in Nat /\ hSemaphore \in Nat
         /\ Sleepers > 0 <=> At(Parked) # {}
BY AtFinite, Someone DEF HandshakeExact, Sleepers, Parked, TypeOK

LEMMA HandshakeStays ==
  ASSUME TypeOK, Handshake, NEW t \in Threads, NEW from, NEW to, Goto(t, from, to),
         from \in Parked <=> to \in Parked,
         from \in {"collect"} <=> to \in {"collect"},
         n_waiters' = n_waiters, hSemaphore' = hSemaphore, hEvent' = hEvent
  PROVE  Handshake'
<1>1. At(Parked)' = At(Parked) /\ At({"collect"})' = At({"collect"})
  BY Stays
<1> QED  BY <1>1 DEF Handshake, HandshakeExact, WokenAreCollected, Parked

\* A thread that parks finds the event reset, unless an unlock is collecting.
LEMMA ParkKeepsHandshake ==
  ASSUME ThreadsAssumption, TypeOK, TypeOK', Handshake, NEW t \in Threads, Park(t)
  PROVE  Handshake'
<1>1. Goto(t, "lock", "parkleave") /\ n_waiters' = n_waiters + 1 /\ hSemaphore' = hSemaphore
  BY DEF Park
<1>2. At({"collect"})' = At({"collect"})
  BY <1>1, Stays
<1>3. Sleepers' = Sleepers + 1
  <2>1. Change("lock", "parkleave", Parked) = 1
    BY DEF Change, Parked
  <2>2. Sleepers' = Sleepers + Change("lock", "parkleave", Parked)
    BY <1>1, Counts DEF Sleepers
  <2> QED  BY <2>1, <2>2
<1>4. HandshakeExact'
  <2>1. n_waiters' = Sleepers' + hSemaphore'
    BY <1>1, <1>3, HandshakeInNumbers DEF Handshake
  <2>2. hSemaphore' > 0 => (At({"collect"}) # {})'
    BY <1>1, <1>2 DEF Handshake, HandshakeExact
  <2> QED  BY <2>1, <2>2 DEF HandshakeExact, Sleepers, Parked
<1>5. ASSUME hEvent' PROVE At({"collect"}) # {}
  <2>1. hEvent /\ n_waiters # 0
    BY <1>5 DEF Park
  <2>2. hSemaphore > 0 \/ Sleepers > 0
    BY <2>1, HandshakeInNumbers DEF Handshake
  <2>3. CASE hSemaphore > 0
    BY <2>3 DEF Handshake, HandshakeExact
  <2>4. CASE Sleepers > 0
    BY <2>1, <2>4, HandshakeInNumbers DEF Handshake, WokenAreCollected
  <2> QED  BY <2>2, <2>3, <2>4
<1> QED  BY <1>2, <1>4, <1>5 DEF Handshake, WokenAreCollected

\* A sleeper that wakes up leaves its token to the unlock that is collecting.
LEMMA AwakeKeepsHandshake ==
  ASSUME ThreadsAssumption, TypeOK, Handshake, NEW t \in Threads, Awake(t)
  PROVE  Handshake'
<1>1. Goto(t, "asleep", "locking") /\ n_waiters' = n_waiters /\ hSemaphore' = hSemaphore + 1
  BY DEF Awake
<1>2. At({"collect"})' = At({"collect"})
  BY <1>1, Stays
<1>3. Sleepers' = Sleepers - 1
  <2>1. Change("asleep", "locking", Parked) = -1
    BY DEF Change, Parked
  <2>2. Sleepers' = Sleepers + Change("asleep", "locking", Parked)
    BY <1>1, Counts DEF Sleepers
  <2> QED  BY <2>1, <2>2, HandshakeInNumbers
<1>4. At({"collect"}) # {}
  <2>1. At(Parked) # {}
    BY <1>1 DEF At, Parked, Goto
  <2> QED  BY <2>1 DEF Awake, Handshake, WokenAreCollected
<1>5. n_waiters' = Sleepers' + hSemaphore'
  BY <1>1, <1>3, HandshakeInNumbers DEF Handshake
<1> QED  BY <1>2, <1>4, <1>5 DEF Handshake, HandshakeExact, WokenAreCollected, Sleepers, Parked

LEMMA FreeKeepsHandshake ==
  ASSUME TypeOK, Handshake, NEW t \in Threads, Free(t)
  PROVE  Handshake'
<1>1. n_waiters' = n_waiters /\ hSemaphore' = hSemaphore
  BY DEF Free
<1>2. CASE n_waiters = 0
  BY <1>1, <1>2, HandshakeStays DEF Free, Parked
<1>3. CASE n_waiters # 0
  <2>1. Goto(t, "unlock", "collect")
    BY <1>3 DEF Free
  <2>2. At(Parked)' = At(Parked)
    BY <2>1, Stays DEF Parked
  <2>3. (At({"collect"}) # {})'
    BY <2>1, Moves
  <2> QED  BY <1>1, <2>2, <2>3 DEF Handshake, HandshakeExact, WokenAreCollected, Parked
<1> QED  BY <1>2, <1>3

LEMMA CollectKeepsHandshake ==
  ASSUME ThreadsAssumption, TypeOK, Handshake, NEW t \in Threads, Collect(t)
  PROVE  Handshake'
<1> DEFINE to == IF n_waiters - 1 # 0 THEN "collect" ELSE "outleave"
<1>1. /\ Goto(t, "collect", to) /\ hEvent' = hEvent
      /\ n_waiters' = n_waiters - 1 /\ hSemaphore' = hSemaphore - 1 /\ hSemaphore > 0
  BY DEF Collect
<1>2. At(Parked)' = At(Parked)
  BY <1>1, Stays DEF Parked
<1>3. n_waiters' = Sleepers + hSemaphore'
  BY <1>1, HandshakeInNumbers DEF Handshake
<1>4. CASE n_waiters - 1 # 0
  <2>1. (At({"collect"}) # {})'
    BY <1>1, <1>4, Moves
  <2> QED  BY <1>2, <1>3, <2>1 DEF Handshake, HandshakeExact, WokenAreCollected, Sleepers, Parked
<1>5. CASE n_waiters - 1 = 0
  <2>1. Sleepers = 0 /\ hSemaphore' = 0
    BY <1>1, <1>3, <1>5, HandshakeInNumbers
  <2>2. At(Parked) = {}
    BY <2>1, HandshakeInNumbers
  <2> QED  BY <1>2, <1>3, <2>1, <2>2 DEF Handshake, HandshakeExact, WokenAreCollected, Sleepers, Parked
<1> QED  BY <1>4, <1>5

LEMMA LockKeepsHandshake ==
  ASSUME ThreadsAssumption, TypeOK, TypeOK', Handshake, NEW t \in Threads,
         StartLock(t) \/ LockStep(t) \/ StartUnlock(t)
  PROVE  Handshake'
<1> USE HandshakeStays DEF Parked
<1>1. CASE StartLock(t)
  BY <1>1 DEF StartLock
<1>2. CASE Decrement(t, "locking", "lock", "lockwait")
  BY <1>2 DEF Decrement
<1>3. CASE Granted(t, "lockwait", "lock")
  BY <1>3 DEF Granted
<1>4. CASE Park(t)
  BY <1>4, ParkKeepsHandshake
<1>5. CASE Increment(t, "parkleave", "parkpass", "asleep")
  BY <1>5 DEF Increment
<1>6. CASE Pass(t, "parkpass", "asleep")
  BY <1>6 DEF Pass
<1>7. CASE Awake(t)
  BY <1>7, AwakeKeepsHandshake
<1>8. CASE Take(t)
  BY <1>8 DEF Take
<1>9. CASE Increment(t, "gotleave", "gotpass", "held")
  BY <1>9 DEF Increment
<1>10. CASE Pass(t, "gotpass", "held")
  BY <1>10 DEF Pass
<1>11. CASE StartUnlock(t)
  BY <1>11 DEF StartUnlock
<1> QED  BY <1>1, <1>2, <1>3, <1>4, <1>5, <1>6, <1>7, <1>8, <1>9, <1>10, <1>11 DEF LockStep

LEMMA UnlockKeepsHandshake ==
  ASSUME ThreadsAssumption, TypeOK, Handshake, NEW t \in Threads, UnlockStep(t)
  PROVE  Handshake'
<1> USE HandshakeStays DEF Parked
<1>1. CASE Decrement(t, "unlocking", "unlock", "unlockwait")
  BY <1>1 DEF Decrement
<1>2. CASE Granted(t, "unlockwait", "unlock")
  BY <1>2 DEF Granted
<1>3. CASE Free(t)
  BY <1>3, FreeKeepsHandshake
<1>4. CASE Collect(t)
  BY <1>4, CollectKeepsHandshake
<1>5. CASE Increment(t, "outleave", "outpass", "out")
  BY <1>5 DEF Increment
<1>6. CASE Pass(t, "outpass", "out")
  BY <1>6 DEF Pass
<1> QED  BY <1>1, <1>2, <1>3, <1>4, <1>5, <1>6 DEF UnlockStep

-----------------------------------------------------------------------------
(* Theorems *)

LEMMA InitIInv == Init => IInv
<1> SUFFICES ASSUME Init PROVE IInv
  OBVIOUS
<1>1. \A S : "out" \notin S => At(S) = {}
  BY DEF Init, At
<1>2. TypeOK
  <2>1. "out" \in Steps
    BY DEF Steps
  <2>2. pc \in [Threads -> Steps]
    BY <2>1 DEF Init
  <2>3. cs \in Int /\ n_writers \in {0, 1} /\ n_waiters \in Nat /\ hSemaphore \in Nat
    BY DEF Init
  <2>4. hCS \in BOOLEAN /\ hEvent \in BOOLEAN
    BY DEF Init
  <2> QED  BY <2>2, <2>3, <2>4 DEF TypeOK
<1>3. /\ At(Inside \cup Waiting) = {} /\ At(Inside \cup Passing) = {} /\ At(Passing) = {}
      /\ At(Holding) = {} /\ At({"parkleave", "parkpass", "asleep"}) = {}
  BY <1>1 DEF Inside, Waiting, Passing, Holding
<1>4. Critical
  BY <1>2, <1>3, FS_EmptySet DEF Init, Critical, OneInside, CounterExact, HandedToWaiter
<1>5. MutualExclusion
  BY <1>3 DEF Init, MutualExclusion
<1>6. HandshakeExact /\ WokenAreCollected
  BY <1>3, FS_EmptySet DEF Init, HandshakeExact, WokenAreCollected
<1> QED  BY <1>4, <1>5, <1>6 DEF IInv

LEMMA NextIInv ==
  ASSUME ThreadsAssumption
  PROVE  IInv /\ [Next]_vars => IInv'
<1> SUFFICES ASSUME IInv, [Next]_vars PROVE IInv'
  OBVIOUS
<1>a. TypeOK /\ Critical /\ MutualExclusion /\ HandshakeExact /\ Handshake
  BY DEF IInv, Critical, Handshake
<1>1. CASE UNCHANGED vars
  BY <1>1 DEF vars, IInv, Critical, TypeOK, OneInside, CounterExact, HandedToWaiter,
              MutualExclusion, HandshakeExact, WokenAreCollected, At
<1>2. ASSUME NEW t \in Threads, StartLock(t) \/ LockStep(t) \/ StartUnlock(t) PROVE IInv'
  <2>1. Critical'
    BY <1>a, <1>2, LockKeepsCritical
  <2>2. MutualExclusion'
    BY <1>a, <1>2, LockKeepsExclusion
  <2>3. Handshake'
    BY <1>a, <1>2, <2>1, LockKeepsHandshake DEF Critical
  <2> QED  BY <2>1, <2>2, <2>3 DEF IInv, Handshake
<1>3. ASSUME NEW t \in Threads, UnlockStep(t) PROVE IInv'
  <2>1. Critical'
    BY <1>a, <1>3, UnlockKeepsCritical
  <2>2. MutualExclusion'
    BY <1>a, <1>3, UnlockKeepsExclusion
  <2>3. Handshake'
    BY <1>a, <1>3, UnlockKeepsHandshake
  <2> QED  BY <2>1, <2>2, <2>3 DEF IInv, Handshake
<1> QED  BY <1>1, <1>2, <1>3 DEF Next

LEMMA Invariance ==
  ASSUME ThreadsAssumption
  PROVE  Spec => []IInv
BY InitIInv, NextIInv, PTL DEF Spec

\* At most one thread has the storage, and n_writers says whether one has it
\* (shmem.cpp:137-139, 186-191), for any number of threads.
THEOREM StorageExclusive ==
  ASSUME ThreadsAssumption
  PROVE  Spec => []MutualExclusion
BY Invariance, PTL DEF IInv

\* The counter and the auto-reset event let one thread at a time into the critical
\* section (shmem.cpp:26-46).
THEOREM CriticalSectionExclusive ==
  ASSUME ThreadsAssumption
  PROVE  Spec => []OneInside
<1>1. IInv => OneInside
  BY DEF IInv, Critical
<1> QED  BY <1>1, Invariance, PTL

\* The tokens an unlock collects are those of the sleepers it woke (shmem.cpp:193-200).
THEOREM HandshakeCorrect ==
  ASSUME ThreadsAssumption
  PROVE  Spec => []HandshakeExact
BY Invariance, PTL DEF IInv

-----------------------------------------------------------------------------
(* The refinement: which abstract action each step is. *)

Asking == {"locking", "lockwait", "lock", "parkleave", "parkpass", "asleep"}
Leaving == {"collect", "outleave", "outpass"}

Holder == IF At(Holding) = {} THEN Nobody ELSE CHOOSE t \in At(Holding) : TRUE

LEMMA HolderIs ==
  ASSUME ThreadsAssumption, MutualExclusion
  PROVE  /\ At(Holding) = {} <=> Holder = Nobody
         /\ \A t \in At(Holding) : Holder = t
<1>1. CASE At(Holding) = {}
  BY <1>1 DEF Holder
<1>2. CASE At(Holding) # {}
  <2>1. Holder \in At(Holding)
    BY <1>2 DEF Holder
  <2>2. Holder # Nobody
    BY <2>1, ThreadsAssumption DEF ThreadsAssumption, At
  <2> QED  BY <1>2, <2>1, <2>2 DEF MutualExclusion
<1> QED  BY <1>1, <1>2

\* A move between steps of the same role is invisible.
LEMMA Invisible ==
  ASSUME TypeOK, NEW t \in Threads, NEW from, NEW to, Goto(t, from, to),
         from \in Asking <=> to \in Asking,
         from \in Holding <=> to \in Holding,
         from \in Leaving <=> to \in Leaving
  PROVE  UNCHANGED <<At(Asking), Holder, At(Leaving)>>
<1>1. /\ At(Asking)' = At(Asking) /\ At(Holding)' = At(Holding)
      /\ At(Leaving)' = At(Leaving)
  BY Stays
<1> QED  BY <1>1 DEF Holder

LEMMA SameHolder ==
  ASSUME TypeOK, NEW t \in Threads, NEW from, NEW to, Goto(t, from, to),
         from \notin Holding, to \notin Holding
  PROVE  Holder' = Holder
<1>1. At(Holding)' = At(Holding)
  BY Stays
<1> QED  BY <1>1 DEF Holder

AbstractStep ==
  \/ \E t \in Threads : Lock!Ask(t) \/ Lock!Acquire(t) \/ Lock!Release(t) \/ Lock!Released(t)
  \/ UNCHANGED <<At(Asking), Holder, At(Leaving)>>

LEMMA AskStep ==
  ASSUME ThreadsAssumption, TypeOK, MutualExclusion, NEW t \in Threads, StartLock(t)
  PROVE  Lock!Ask(t)
<1>1. Goto(t, "out", "locking")
  BY DEF StartLock
<1>2. At(Asking)' = At(Asking) \cup {t} /\ At(Leaving)' = At(Leaving)
  BY <1>1, Moves, Stays DEF Asking, Leaving
<1>3. Holder' = Holder
  BY <1>1, SameHolder DEF Holding
<1>4. t \notin At(Asking) \cup At(Leaving) /\ t \notin At(Holding)
  BY <1>1 DEF At, Goto, Asking, Leaving, Holding
<1>5. t # Holder
  BY <1>4, HolderIs, ThreadsAssumption DEF ThreadsAssumption, Holder
<1> QED  BY <1>2, <1>3, <1>4, <1>5 DEF Lock!Ask, Asking, Leaving, Holder

LEMMA AcquireStep ==
  ASSUME ThreadsAssumption, TypeOK, MutualExclusion, MutualExclusion', NEW t \in Threads, Take(t)
  PROVE  Lock!Acquire(t)
<1>1. Goto(t, "lock", "gotleave") /\ n_writers = 0
  BY DEF Take
<1>2. At(Asking)' = At(Asking) \ {t} /\ At(Leaving)' = At(Leaving)
  BY <1>1, Moves, Stays DEF Asking, Leaving
<1>3. t \in At(Asking)
  BY <1>1 DEF At, Goto, Asking
<1>4. Holder = Nobody
  BY <1>1, HolderIs DEF MutualExclusion
<1>5. At(Holding)' = {t}
  <2>1. At(Holding)' = At(Holding) \cup {t}
    BY <1>1, Moves DEF Holding
  <2>2. At(Holding) = {}
    BY <1>1 DEF MutualExclusion
  <2> QED  BY <2>1, <2>2
<1>6. Holder' = t
  BY <1>5 DEF Holder
<1> QED  BY <1>2, <1>3, <1>4, <1>6 DEF Lock!Acquire, Asking, Leaving, Holder

LEMMA ReleaseStep ==
  ASSUME ThreadsAssumption, TypeOK, MutualExclusion, NEW t \in Threads, Free(t)
  PROVE  Lock!Release(t)
<1> DEFINE to == IF n_waiters # 0 THEN "collect" ELSE "outleave"
<1>1. Goto(t, "unlock", to) /\ to \in Leaving /\ to \notin Asking \cup Holding
  BY DEF Free, Leaving, Asking, Holding
<1> HIDE DEF to
<1>2. At(Leaving)' = At(Leaving) \cup {t}
  BY <1>1, Moves
<1>3. At(Asking)' = At(Asking)
  BY <1>1, Stays DEF Asking
<1>4. t \in At(Holding)
  BY <1>1 DEF At, Goto, Holding
<1>5. Holder = t
  BY <1>4, HolderIs
<1>6. At(Holding)' = {}
  <2>1. At(Holding)' = At(Holding) \ {t}
    BY <1>1, Moves
  <2> QED  BY <1>4, <2>1 DEF MutualExclusion
<1>7. Holder' = Nobody
  BY <1>6 DEF Holder
<1> QED  BY <1>2, <1>3, <1>5, <1>7 DEF Lock!Release, Asking, Leaving, Holder

LEMMA ReleasedStep ==
  ASSUME TypeOK, NEW t \in Threads, NEW from \in {"outleave", "outpass"}, Goto(t, from, "out")
  PROVE  Lock!Released(t)
<1>1. At(Leaving)' = At(Leaving) \ {t}
  BY Moves DEF Leaving
<1>2. At(Asking)' = At(Asking)
  BY Stays DEF Asking
<1>3. Holder' = Holder
  BY SameHolder DEF Holding
<1>4. t \in At(Leaving)
  BY DEF At, Goto, Leaving
<1> QED  BY <1>1, <1>2, <1>3, <1>4 DEF Lock!Released, Asking, Leaving, Holder

LEMMA LockRefines ==
  ASSUME ThreadsAssumption, TypeOK, MutualExclusion, MutualExclusion', NEW t \in Threads,
         StartLock(t) \/ LockStep(t) \/ StartUnlock(t)
  PROVE  AbstractStep
<1> USE DEF Asking, Holding, Leaving
<1>1. CASE StartLock(t)
  BY <1>1, AskStep DEF AbstractStep
<1>2. CASE Decrement(t, "locking", "lock", "lockwait")
  BY <1>2, Invisible DEF Decrement, AbstractStep
<1>3. CASE Granted(t, "lockwait", "lock")
  BY <1>3, Invisible DEF Granted, AbstractStep
<1>4. CASE Park(t)
  BY <1>4, Invisible DEF Park, AbstractStep
<1>5. CASE Increment(t, "parkleave", "parkpass", "asleep")
  BY <1>5, Invisible DEF Increment, AbstractStep
<1>6. CASE Pass(t, "parkpass", "asleep")
  BY <1>6, Invisible DEF Pass, AbstractStep
<1>7. CASE Awake(t)
  BY <1>7, Invisible DEF Awake, AbstractStep
<1>8. CASE Take(t)
  BY <1>8, AcquireStep DEF AbstractStep
<1>9. CASE Increment(t, "gotleave", "gotpass", "held")
  BY <1>9, Invisible DEF Increment, AbstractStep
<1>10. CASE Pass(t, "gotpass", "held")
  BY <1>10, Invisible DEF Pass, AbstractStep
<1>11. CASE StartUnlock(t)
  BY <1>11, Invisible DEF StartUnlock, AbstractStep
<1> QED  BY <1>1, <1>2, <1>3, <1>4, <1>5, <1>6, <1>7, <1>8, <1>9, <1>10, <1>11 DEF LockStep

LEMMA UnlockRefines ==
  ASSUME ThreadsAssumption, TypeOK, MutualExclusion, NEW t \in Threads, UnlockStep(t)
  PROVE  AbstractStep
<1> USE DEF Asking, Holding, Leaving
<1>1. CASE Decrement(t, "unlocking", "unlock", "unlockwait")
  BY <1>1, Invisible DEF Decrement, AbstractStep
<1>2. CASE Granted(t, "unlockwait", "unlock")
  BY <1>2, Invisible DEF Granted, AbstractStep
<1>3. CASE Free(t)
  BY <1>3, ReleaseStep DEF AbstractStep
<1>4. CASE Collect(t)
  BY <1>4, Invisible DEF Collect, AbstractStep
<1>5. CASE Increment(t, "outleave", "outpass", "out")
  <2>1. CASE cs + 1 <= 0
    <3>1. Goto(t, "outleave", "outpass")
      BY <1>5, <2>1 DEF Increment
    <3> QED  BY <3>1, Invisible DEF AbstractStep
  <2>2. CASE ~(cs + 1 <= 0)
    <3>1. Goto(t, "outleave", "out")
      BY <1>5, <2>2 DEF Increment
    <3> QED  BY <3>1, ReleasedStep DEF AbstractStep
  <2> QED  BY <2>1, <2>2
<1>6. CASE Pass(t, "outpass", "out")
  BY <1>6, ReleasedStep DEF Pass, AbstractStep
<1> QED  BY <1>1, <1>2, <1>3, <1>4, <1>5, <1>6 DEF UnlockStep

\* Locking and unlocking the shared storage is taking and releasing a mutex
\* (shmem.cpp:48-202): every step is a step of Mutex or changes nothing it sees.
THEOREM MonitorIsMutex ==
  ASSUME ThreadsAssumption
  PROVE  Spec => ImplementsMutex
<1>1. Init => Lock!Init
  <2> SUFFICES ASSUME Init PROVE Lock!Init
    OBVIOUS
  <2>1. \A S : "out" \notin S => At(S) = {}
    BY DEF Init, At
  <2>2. At(Asking) = {} /\ At(Holding) = {} /\ At(Leaving) = {}
    BY <2>1 DEF Asking, Holding, Leaving
  <2> QED  BY <2>2 DEF Lock!Init, Asking, Leaving
<1>2. IInv /\ IInv' /\ [Next]_vars => [Lock!Next]_(Lock!vars)
  <2> SUFFICES ASSUME IInv, IInv', [Next]_vars PROVE AbstractStep
    BY DEF AbstractStep, Lock!Next, Lock!vars, Asking, Leaving, Holder
  <2>1. TypeOK /\ MutualExclusion /\ MutualExclusion'
    BY DEF IInv, Critical
  <2>2. CASE UNCHANGED vars
    BY <2>2 DEF vars, AbstractStep, At, Holder
  <2>3. CASE Next
    BY <2>1, <2>3, LockRefines, UnlockRefines DEF Next
  <2> QED  BY <2>2, <2>3
<1> QED  BY <1>1, <1>2, Invariance, PTL DEF Spec, ImplementsMutex, Lock!Spec
=============================================================================
