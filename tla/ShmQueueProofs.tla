--------------------------- MODULE ShmQueueProofs ---------------------------
(***************************************************************************)
(* Proofs about ShmFifo, for every finite set of threads and every         *)
(* capacity that is at least the number of producers, and then about       *)
(* ShmQueue: the lock of ShmMonitor, used as put and get use it, makes the *)
(* steps of ShmFifo atomic.  What is proved of the lock and of the queue   *)
(* holds of the two together.                                              *)
(***************************************************************************)
EXTENDS ShmQueue, FiniteSetTheorems, TLAPS

\* A producer that has just found the storage full, and has seen no signal since, finds
\* it still full, or another thread is between making room and signalling it.
FullIsCurrent ==
  ~notFull /\ At({"full"}) # {} =>
    stored = Capacity \/ At({"drop", "take", "freed"}) # {}

\* The inductive invariant.
IInv == TypeOK /\ PermitsAccounted /\ FullIsCurrent /\ NotAbandoned

Steps == ProducerSteps \cup ConsumerSteps

-----------------------------------------------------------------------------
(* Counting the threads at some steps. *)

LEMMA AtFinite ==
  ASSUME NEW S
  PROVE  IsFiniteSet(At(S)) /\ Cardinality(At(S)) \in Nat
<1>1. IsFiniteSet(Threads)
  BY ThreadsAssumption, FS_Union DEF Threads
<1>2. At(S) \in SUBSET Threads
  BY DEF At
<1> QED  BY <1>1, <1>2, FS_Subset, FS_CardinalityType

\* A thread that goes to another step leaves one set of threads or joins another.
LEMMA Moves ==
  ASSUME TypeOK, NEW t \in Threads, NEW step, Goto(t, step), NEW S
  PROVE  At(S)' = IF step \in S THEN At(S) \cup {t} ELSE At(S) \ {t}
<1>1. \A u \in Threads : pc'[u] = IF u = t THEN step ELSE pc[u]
  BY DEF TypeOK, Goto
<1> QED  BY <1>1 DEF At

\* What the step from `from' to `to' adds to the number of threads at S.
Change(from, to, S) == (IF to \in S THEN 1 ELSE 0) - (IF from \in S THEN 1 ELSE 0)

LEMMA ChangeType == \A from, to, S : Change(from, to, S) \in {-1, 0, 1}
BY DEF Change

\* The number of threads at S grows by one, shrinks by one or stays.
LEMMA Counts ==
  ASSUME TypeOK, NEW t \in Threads, NEW step, Goto(t, step), NEW S
  PROVE  Cardinality(At(S))' = Cardinality(At(S)) + Change(pc[t], step, S)
<1>1. At(S)' = IF step \in S THEN At(S) \cup {t} ELSE At(S) \ {t}
  BY Moves
<1>2. t \in At(S) <=> pc[t] \in S
  BY DEF At
<1>3. IsFiniteSet(At(S)) /\ Cardinality(At(S)) \in Nat
  BY AtFinite
<1>4. Cardinality(At(S) \cup {t}) = IF t \in At(S) THEN Cardinality(At(S)) ELSE Cardinality(At(S)) + 1
  BY <1>3, FS_AddElement
<1>5. Cardinality(At(S) \ {t}) = IF t \in At(S) THEN Cardinality(At(S)) - 1 ELSE Cardinality(At(S))
  BY <1>3, FS_RemoveElement
<1>6. CASE step \in S
  BY <1>1, <1>2, <1>3, <1>4, <1>6 DEF Change
<1>7. CASE step \notin S
  BY <1>1, <1>2, <1>3, <1>5, <1>7 DEF Change
<1> QED  BY <1>6, <1>7

\* Somebody at S means the count is positive, and conversely.
LEMMA Someone ==
  ASSUME NEW S
  PROVE  At(S) # {} <=> Cardinality(At(S)) > 0
BY AtFinite, FS_EmptySet

LEMMA AnnouncingAreProducers ==
  ASSUME TypeOK
  PROVE  /\ Cardinality(At({"announce"})) <= Cardinality(Producers)
         /\ \A p \in Producers : pc[p] # "announce" =>
              Cardinality(At({"announce"})) < Cardinality(Producers)
<1>1. At({"announce"}) \in SUBSET Producers
  BY DEF At, TypeOK, Threads, ConsumerSteps
<1>2. \A p \in Producers : pc[p] # "announce" => At({"announce"}) # Producers
  BY DEF At
<1>3. Cardinality(Producers) \in Nat /\ Cardinality(At({"announce"})) \in Nat
  BY ThreadsAssumption, FS_CardinalityType, AtFinite
<1>4. /\ Cardinality(At({"announce"})) <= Cardinality(Producers)
      /\ Cardinality(Producers) = Cardinality(At({"announce"})) => Producers = At({"announce"})
  BY <1>1, ThreadsAssumption, FS_Subset
<1> QED  BY <1>2, <1>3, <1>4

-----------------------------------------------------------------------------
(* A step of one thread, as the invariant sees it. *)

Announcing == Cardinality(At({"announce"}))
Permitted == Cardinality(At({"take", "drop"}))

LEMMA CountsAreNaturals == Announcing \in Nat /\ Permitted \in Nat
BY AtFinite DEF Announcing, Permitted

\* A thread that holds a permit finds a message.
LEMMA HoldersFind ==
  ASSUME TypeOK, PermitsAccounted
  PROVE  PermitFindsMessage
<1>1. At({"take", "drop"}) # {} => Permitted > 0
  BY Someone DEF Permitted
<1>2. stored = permits + Announcing + Permitted /\ permits \in Nat
  BY DEF PermitsAccounted, TypeOK, Announcing, Permitted
<1> QED  BY <1>1, <1>2, CountsAreNaturals DEF PermitFindsMessage

-----------------------------------------------------------------------------
(* Every action keeps types and accounts. *)

LEMMA GotoType ==
  ASSUME TypeOK, NEW t \in Threads, NEW step, Goto(t, step),
         t \in Producers => step \in ProducerSteps,
         t \in Consumers => step \in ConsumerSteps
  PROVE  /\ pc' \in [Threads -> Steps]
         /\ \A p \in Producers : pc'[p] \in ProducerSteps
         /\ \A c \in Consumers : pc'[c] \in ConsumerSteps
BY DEF TypeOK, Goto, Threads, Steps

\* The accounts after a step of one thread, in numbers.
LEMMA AccountsKept ==
  ASSUME TypeOK, PermitsAccounted, NEW t \in Threads, NEW step, Goto(t, step),
         stored' - stored = (permits' - permits)
           + Change(pc[t], step, {"announce"}) + Change(pc[t], step, {"take", "drop"}),
         stored' \in Int, permits' \in Int
  PROVE  PermitsAccounted'
<1>1. stored = permits + Announcing + Permitted /\ stored \in Int /\ permits \in Int
  BY DEF PermitsAccounted, TypeOK, Announcing, Permitted
<1>2. /\ Announcing' = Announcing + Change(pc[t], step, {"announce"})
      /\ Permitted' = Permitted + Change(pc[t], step, {"take", "drop"})
  BY Counts DEF Announcing, Permitted
<1>3. /\ Change(pc[t], step, {"announce"}) \in Int
      /\ Change(pc[t], step, {"take", "drop"}) \in Int
  BY ChangeType
<1>4. stored' = permits' + Announcing' + Permitted'
  BY <1>1, <1>2, <1>3, CountsAreNaturals
<1> QED  BY <1>4 DEF PermitsAccounted, Announcing, Permitted

Base == TypeOK /\ PermitsAccounted

LEMMA BaseInit ==
  ASSUME Init
  PROVE  Base
<1>1. TypeOK
  <2>1. pc \in [Threads -> Steps]
    BY DEF Init, Steps, ProducerSteps
  <2>2. \A t \in Threads : pc[t] \in ProducerSteps /\ pc[t] \in ConsumerSteps
    BY DEF Init, ProducerSteps, ConsumerSteps
  <2>3. left \in [Producers -> 0..Puts] /\ stored \in 0..Capacity /\ permits \in Nat
    BY SizesAssumption DEF Init, SizesAssumption
  <2> QED  BY <2>1, <2>2, <2>3 DEF Init, TypeOK, Threads, Steps
<1>2. At({"announce"}) = {} /\ At({"take", "drop"}) = {}
  BY DEF Init, At
<1>3. Cardinality(At({"announce"})) = 0 /\ Cardinality(At({"take", "drop"})) = 0
  BY <1>2, FS_EmptySet
<1> QED  BY <1>1, <1>3 DEF Init, Base, PermitsAccounted

-----------------------------------------------------------------------------
(* Each action keeps TypeOK and PermitsAccounted. *)

\* Actions of one thread that goes from a known step to a known step.
LEMMA BaseMove ==
  ASSUME Base, NEW t \in Threads, NEW step, Goto(t, step),
         t \in Producers => step \in ProducerSteps,
         t \in Consumers => step \in ConsumerSteps,
         stored' \in 0..Capacity, permits' \in Nat, notFull' \in BOOLEAN,
         left' \in [Producers -> 0..Puts],
         stored' - stored = (permits' - permits)
           + Change(pc[t], step, {"announce"}) + Change(pc[t], step, {"take", "drop"})
  PROVE  Base'
<1>1. stored' \in Int /\ permits' \in Int
  OBVIOUS
<1>2. PermitsAccounted'
  BY <1>1, AccountsKept DEF Base
<1>3. /\ pc' \in [Threads -> Steps]
      /\ \A p \in Producers : pc'[p] \in ProducerSteps
      /\ \A c \in Consumers : pc'[c] \in ConsumerSteps
  BY GotoType DEF Base
<1> QED  BY <1>2, <1>3 DEF Base, TypeOK, Steps

LEMMA FoundByHolder ==
  ASSUME Base, NEW t \in Threads, pc[t] \in {"take", "drop"}
  PROVE  stored > 0
<1>1. At({"take", "drop"}) # {}
  BY DEF At
<1> QED  BY <1>1, HoldersFind DEF Base, PermitFindsMessage

LEMMA PutKeepsBase ==
  ASSUME Base, NEW p \in Producers, StartPut(p) \/ (PutStep(p) /\ ~SignalNotFull(p))
  PROVE  Base'
<1> USE DEF Base, TypeOK, ProducerSteps
<1>a. p \in Threads /\ p \notin Consumers
  BY ThreadsAssumption DEF ThreadsAssumption, Threads
<1>b. Capacity \in Nat
  BY SizesAssumption DEF SizesAssumption
<1>1. CASE StartPut(p)
  <2>1. Goto(p, "put")
    BY <1>1 DEF StartPut
  <2>2. /\ stored' \in 0..Capacity /\ permits' \in Nat /\ notFull' \in BOOLEAN
        /\ left' \in [Producers -> 0..Puts]
    BY <1>1, <1>a, <1>b, SizesAssumption DEF StartPut, SizesAssumption
  <2>3. stored' - stored = (permits' - permits)
          + Change(pc[p], "put", {"announce"}) + Change(pc[p], "put", {"take", "drop"})
    BY <1>1, <1>a, <1>b, SizesAssumption DEF StartPut, Change, SizesAssumption
  <2> QED  BY <2>1, <2>2, <2>3, <1>a, BaseMove
<1>2. CASE Enqueue(p)
  <2>1. Goto(p, "announce")
    BY <1>2 DEF Enqueue
  <2>2. /\ stored' \in 0..Capacity /\ permits' \in Nat /\ notFull' \in BOOLEAN
        /\ left' \in [Producers -> 0..Puts]
    BY <1>2, <1>a, <1>b, SizesAssumption DEF Enqueue, SizesAssumption
  <2>3. stored' - stored = (permits' - permits)
          + Change(pc[p], "announce", {"announce"}) + Change(pc[p], "announce", {"take", "drop"})
    BY <1>2, <1>a, <1>b, SizesAssumption DEF Enqueue, Change, SizesAssumption
  <2> QED  BY <2>1, <2>2, <2>3, <1>a, BaseMove
<1>3. CASE EnqueueFails(p)
  <2>1. Goto(p, "full")
    BY <1>3 DEF EnqueueFails
  <2>2. /\ stored' \in 0..Capacity /\ permits' \in Nat /\ notFull' \in BOOLEAN
        /\ left' \in [Producers -> 0..Puts]
    BY <1>3, <1>a, <1>b, SizesAssumption DEF EnqueueFails, SizesAssumption
  <2>3. stored' - stored = (permits' - permits)
          + Change(pc[p], "full", {"announce"}) + Change(pc[p], "full", {"take", "drop"})
    BY <1>3, <1>a, <1>b, SizesAssumption DEF EnqueueFails, Change, SizesAssumption
  <2> QED  BY <2>1, <2>2, <2>3, <1>a, BaseMove
<1>4. CASE Announce(p)
  <2>1. Goto(p, "idle")
    BY <1>4 DEF Announce
  <2>2. /\ stored' \in 0..Capacity /\ permits' \in Nat /\ notFull' \in BOOLEAN
        /\ left' \in [Producers -> 0..Puts]
    BY <1>4, <1>a, <1>b, SizesAssumption DEF Announce, SizesAssumption
  <2>3. stored' - stored = (permits' - permits)
          + Change(pc[p], "idle", {"announce"}) + Change(pc[p], "idle", {"take", "drop"})
    BY <1>4, <1>a, <1>b, SizesAssumption DEF Announce, Change, SizesAssumption
  <2> QED  BY <2>1, <2>2, <2>3, <1>a, BaseMove
<1>5. CASE TakePermitToDrop(p)
  <2>1. Goto(p, "drop")
    BY <1>5 DEF TakePermitToDrop
  <2>2. /\ stored' \in 0..Capacity /\ permits' \in Nat /\ notFull' \in BOOLEAN
        /\ left' \in [Producers -> 0..Puts]
    BY <1>5, <1>a, <1>b, SizesAssumption DEF TakePermitToDrop, SizesAssumption
  <2>3. stored' - stored = (permits' - permits)
          + Change(pc[p], "drop", {"announce"}) + Change(pc[p], "drop", {"take", "drop"})
    BY <1>5, <1>a, <1>b, SizesAssumption DEF TakePermitToDrop, Change, SizesAssumption
  <2> QED  BY <2>1, <2>2, <2>3, <1>a, BaseMove
<1>6. CASE NoPermitToDrop(p)
  <2>1. Goto(p, "blocked")
    BY <1>6 DEF NoPermitToDrop
  <2>2. /\ stored' \in 0..Capacity /\ permits' \in Nat /\ notFull' \in BOOLEAN
        /\ left' \in [Producers -> 0..Puts]
    BY <1>6, <1>a, <1>b, SizesAssumption DEF NoPermitToDrop, SizesAssumption
  <2>3. stored' - stored = (permits' - permits)
          + Change(pc[p], "blocked", {"announce"}) + Change(pc[p], "blocked", {"take", "drop"})
    BY <1>6, <1>a, <1>b, SizesAssumption DEF NoPermitToDrop, Change, SizesAssumption
  <2> QED  BY <2>1, <2>2, <2>3, <1>a, BaseMove
<1>7. CASE Drop(p)
  <2>1. Goto(p, "freed")
    BY <1>7 DEF Drop
  <2>2. /\ stored' \in 0..Capacity /\ permits' \in Nat /\ notFull' \in BOOLEAN
        /\ left' \in [Producers -> 0..Puts]
    BY <1>7, <1>a, <1>b, SizesAssumption DEF Drop, SizesAssumption
  <2>3. stored' - stored = (permits' - permits)
          + Change(pc[p], "freed", {"announce"}) + Change(pc[p], "freed", {"take", "drop"})
    BY <1>7, <1>a, <1>b, FoundByHolder, SizesAssumption DEF Drop, Change, SizesAssumption
  <2> QED  BY <2>1, <2>2, <2>3, <1>a, BaseMove
<1>8. CASE Unblock(p)
  <2>1. Goto(p, "put")
    BY <1>8 DEF Unblock
  <2>2. /\ stored' \in 0..Capacity /\ permits' \in Nat /\ notFull' \in BOOLEAN
        /\ left' \in [Producers -> 0..Puts]
    BY <1>8, <1>a, <1>b, SizesAssumption DEF Unblock, SizesAssumption
  <2>3. stored' - stored = (permits' - permits)
          + Change(pc[p], "put", {"announce"}) + Change(pc[p], "put", {"take", "drop"})
    BY <1>8, <1>a, <1>b, SizesAssumption DEF Unblock, Change, SizesAssumption
  <2> QED  BY <2>1, <2>2, <2>3, <1>a, BaseMove
<1> QED  BY <1>1, <1>2, <1>3, <1>4, <1>5, <1>6, <1>7, <1>8 DEF PutStep

LEMMA GetKeepsBase ==
  ASSUME Base, NEW c \in Consumers, TakePermit(c) \/ Dequeue(c)
  PROVE  Base'
<1> USE DEF Base, TypeOK, ConsumerSteps
<1>a. c \in Threads /\ c \notin Producers
  BY ThreadsAssumption DEF ThreadsAssumption, Threads
<1>b. Capacity \in Nat
  BY SizesAssumption DEF SizesAssumption
<1>1. CASE TakePermit(c)
  <2>1. Goto(c, "take")
    BY <1>1 DEF TakePermit
  <2>2. /\ stored' \in 0..Capacity /\ permits' \in Nat /\ notFull' \in BOOLEAN
        /\ left' \in [Producers -> 0..Puts]
    BY <1>1, <1>a, <1>b DEF TakePermit
  <2>3. stored' - stored = (permits' - permits)
          + Change(pc[c], "take", {"announce"}) + Change(pc[c], "take", {"take", "drop"})
    BY <1>1, <1>a, <1>b DEF TakePermit, Change
  <2> QED  BY <2>1, <2>2, <2>3, <1>a, BaseMove
<1>2. CASE Dequeue(c)
  <2>1. Goto(c, "freed")
    BY <1>2 DEF Dequeue
  <2>2. /\ stored' \in 0..Capacity /\ permits' \in Nat /\ notFull' \in BOOLEAN
        /\ left' \in [Producers -> 0..Puts]
    BY <1>2, <1>a, <1>b DEF Dequeue
  <2>3. stored' - stored = (permits' - permits)
          + Change(pc[c], "freed", {"announce"}) + Change(pc[c], "freed", {"take", "drop"})
    BY <1>2, <1>a, <1>b, FoundByHolder DEF Dequeue, Change
  <2> QED  BY <2>1, <2>2, <2>3, <1>a, BaseMove
<1> QED  BY <1>1, <1>2

\* A signal moves threads between steps that hold neither a message nor a permit.
LEMMA SignalKeepsAt ==
  ASSUME TypeOK, NEW t \in Threads, SignalNotFull(t), NEW S,
         S \cap {"freed", "blocked", "put", "idle"} = {}
  PROVE  At(S)' = At(S)
<1>1. PICK released \in SUBSET At({"blocked"}) :
        pc' = [u \in Threads |->
                 IF u \in released THEN "put"
                 ELSE IF u # t THEN pc[u]
                 ELSE IF t \in Producers THEN "blocked" ELSE "idle"]
  BY DEF SignalNotFull
<1>2. \A u \in released : pc[u] = "blocked"
  BY DEF At
<1>3. pc[t] = "freed"
  BY DEF SignalNotFull
<1>4. \A u \in Threads : pc'[u] \in S <=> pc[u] \in S
  BY <1>1, <1>2, <1>3
<1> QED  BY <1>4 DEF At

LEMMA SignalKeepsBase ==
  ASSUME Base, NEW t \in Threads, SignalNotFull(t)
  PROVE  Base'
<1>1. PICK released \in SUBSET At({"blocked"}) :
        pc' = [u \in Threads |->
                 IF u \in released THEN "put"
                 ELSE IF u # t THEN pc[u]
                 ELSE IF t \in Producers THEN "blocked" ELSE "idle"]
  BY DEF SignalNotFull
<1>2. \A u \in released : u \in Producers
  BY DEF Base, TypeOK, At, ConsumerSteps, Threads
<1>3. \A u \in Producers : pc'[u] \in ProducerSteps
  BY <1>1 DEF Base, TypeOK, Threads, ProducerSteps
<1>4. \A u \in Consumers : pc'[u] \in ConsumerSteps
  BY <1>1, <1>2, ThreadsAssumption DEF Base, TypeOK, Threads, ConsumerSteps, ThreadsAssumption
<1>5. pc' \in [Threads -> Steps]
  BY <1>1, <1>3, <1>4 DEF Threads, Steps
<1>6. TypeOK'
  BY <1>3, <1>4, <1>5 DEF Base, TypeOK, SignalNotFull, Steps
<1>7. At({"announce"})' = At({"announce"}) /\ At({"take", "drop"})' = At({"take", "drop"})
  BY SignalKeepsAt DEF Base
<1>8. PermitsAccounted'
  BY <1>7 DEF Base, PermitsAccounted, SignalNotFull
<1> QED  BY <1>6, <1>8 DEF Base

-----------------------------------------------------------------------------
(* Each action keeps the two facts about waiting producers. *)

Wakeful == FullIsCurrent /\ NotAbandoned

Making == {"drop", "take", "freed"}    \* steps that end in a signal

LEMMA MovesElsewhere ==
  ASSUME TypeOK, NEW t \in Threads, NEW step, Goto(t, step), NEW S,
         pc[t] \notin S, step \notin S
  PROVE  At(S)' = At(S)
<1>1. t \notin At(S)
  BY DEF At
<1> QED  BY <1>1, Moves

\* A thread that is making room, or a set event, keeps every producer from being
\* abandoned.
LEMMA MakerIsEnough ==
  ASSUME (At(Making) # {})' \/ notFull'
  PROVE  Wakeful'
BY DEF Wakeful, FullIsCurrent, NotAbandoned, Making, At

LEMMA MovesTo ==
  ASSUME TypeOK, NEW t \in Threads, NEW step, Goto(t, step), NEW S, step \in S
  PROVE  (At(S) # {})'
BY Moves

\* Steps that touch neither the event nor a waiting producer, and do not make the
\* storage emptier.
LEMMA QuietStep ==
  ASSUME Base, Wakeful, NEW t \in Threads, NEW step, Goto(t, step),
         pc[t] \notin Making \cup {"full", "blocked"},
         step \notin Making \cup {"full", "blocked"},
         notFull' = notFull,
         stored' = stored \/ stored < Capacity
  PROVE  Wakeful'
<1>1. /\ At({"full"})' = At({"full"})
      /\ At({"blocked"})' = At({"blocked"})
      /\ At({"drop", "take", "freed"})' = At({"drop", "take", "freed"})
      /\ At({"full", "drop", "take", "freed"})' = At({"full", "drop", "take", "freed"})
  BY MovesElsewhere DEF Base, Making
<1>2. FullIsCurrent'
  BY <1>1, SizesAssumption DEF Base, TypeOK, Wakeful, FullIsCurrent, SizesAssumption
<1>3. NotAbandoned'
  BY <1>1 DEF Wakeful, NotAbandoned
<1> QED  BY <1>2, <1>3 DEF Wakeful

\* The producer that finds the storage full is itself the one that will make room.
LEMMA FailingWakes ==
  ASSUME Base, Wakeful, NEW p \in Producers, EnqueueFails(p)
  PROVE  Wakeful'
<1>1. p \in Threads /\ Goto(p, "full")
  BY DEF Threads, EnqueueFails
<1>2. (At({"full", "drop", "take", "freed"}) # {})'
  BY <1>1, MovesTo DEF Base
<1>3. stored' = Capacity
  BY DEF EnqueueFails
<1> QED  BY <1>2, <1>3 DEF Wakeful, FullIsCurrent, NotAbandoned

\* No permit to be had, nobody making room, and the storage full: then every message
\* belongs to a producer that has yet to announce it, and there are not that many.
LEMMA NobodyLeft ==
  ASSUME Base, NEW p \in Producers, pc[p] # "announce", permits = 0,
         At({"drop", "take", "freed"}) = {}
  PROVE  stored < Capacity
<1>1. At({"take", "drop"}) = {}
  BY DEF At
<1>2. Cardinality(At({"take", "drop"})) = 0
  BY <1>1, FS_EmptySet
<1>3. stored = Announcing
  BY <1>2, CountsAreNaturals DEF Base, PermitsAccounted, Announcing
<1>4. Announcing < Cardinality(Producers)
  BY AnnouncingAreProducers DEF Base, Announcing
<1>5. Cardinality(Producers) \in Nat /\ Capacity \in Nat
  BY ThreadsAssumption, SizesAssumption, FS_CardinalityType DEF ThreadsAssumption, SizesAssumption
<1> QED  BY <1>3, <1>4, <1>5, RoomAssumption, CountsAreNaturals DEF RoomAssumption

LEMMA GivingUpWakes ==
  ASSUME Base, Wakeful, NEW p \in Producers, NoPermitToDrop(p)
  PROVE  Wakeful'
<1>1. p \in Threads /\ Goto(p, "blocked") /\ pc[p] = "full"
  BY DEF Threads, NoPermitToDrop
<1>2. CASE At(Making) # {}
  <2>1. At(Making)' = At(Making)
    BY <1>1, MovesElsewhere DEF Base, Making
  <2> QED  BY <1>2, <2>1, MakerIsEnough
<1>3. CASE At(Making) = {}
  <2>1. stored < Capacity
    BY <1>1, <1>3, NobodyLeft DEF NoPermitToDrop, Making
  <2>2. At({"full"}) # {}
    BY <1>1 DEF At
  <2>3. notFull
    BY <1>3, <2>1, <2>2, SizesAssumption
    DEF Wakeful, FullIsCurrent, Making, Base, TypeOK, SizesAssumption
  <2> QED  BY <2>3, MakerIsEnough DEF NoPermitToDrop
<1> QED  BY <1>2, <1>3

LEMMA PutKeepsWakeful ==
  ASSUME Base, Wakeful, NEW p \in Producers, StartPut(p) \/ PutStep(p)
  PROVE  Wakeful'
<1>a. p \in Threads /\ TypeOK
  BY DEF Threads, Base
<1>1. CASE StartPut(p)
  BY <1>1, <1>a, QuietStep DEF StartPut, Making
<1>2. CASE Enqueue(p)
  BY <1>2, <1>a, QuietStep DEF Enqueue, Making
<1>3. CASE EnqueueFails(p)
  BY <1>3, FailingWakes
<1>4. CASE Announce(p)
  BY <1>4, <1>a, QuietStep DEF Announce, Making
<1>5. CASE TakePermitToDrop(p)
  BY <1>5, <1>a, MovesTo, MakerIsEnough DEF TakePermitToDrop, Making
<1>6. CASE NoPermitToDrop(p)
  BY <1>6, GivingUpWakes
<1>7. CASE Drop(p)
  BY <1>7, <1>a, MovesTo, MakerIsEnough DEF Drop, Making
<1>8. CASE Unblock(p)
  BY <1>8, MakerIsEnough DEF Unblock
<1>9. CASE SignalNotFull(p)
  BY <1>9, MakerIsEnough DEF SignalNotFull
<1> QED  BY <1>1, <1>2, <1>3, <1>4, <1>5, <1>6, <1>7, <1>8, <1>9 DEF PutStep

LEMMA GetKeepsWakeful ==
  ASSUME Base, Wakeful, NEW c \in Consumers, TakePermit(c) \/ GetStep(c)
  PROVE  Wakeful'
<1>a. c \in Threads /\ TypeOK
  BY DEF Threads, Base
<1>1. CASE TakePermit(c)
  BY <1>1, <1>a, MovesTo, MakerIsEnough DEF TakePermit, Making
<1>2. CASE Dequeue(c)
  BY <1>2, <1>a, MovesTo, MakerIsEnough DEF Dequeue, Making
<1>3. CASE SignalNotFull(c)
  BY <1>3, MakerIsEnough DEF SignalNotFull
<1> QED  BY <1>1, <1>2, <1>3 DEF GetStep

-----------------------------------------------------------------------------
(* Theorems *)

LEMMA InitIInv == Init => IInv
<1> SUFFICES ASSUME Init PROVE IInv
  OBVIOUS
<1>1. At({"full"}) = {} /\ At({"blocked"}) = {}
  BY DEF Init, At
<1> QED  BY <1>1, BaseInit DEF IInv, Base, FullIsCurrent, NotAbandoned

LEMMA NextIInv == IInv /\ [Next]_vars => IInv'
<1> SUFFICES ASSUME IInv, [Next]_vars PROVE IInv'
  OBVIOUS
<1>a. Base /\ Wakeful
  BY DEF IInv, Base, Wakeful
<1>1. CASE UNCHANGED vars
  BY <1>1 DEF vars, IInv, TypeOK, PermitsAccounted, FullIsCurrent, NotAbandoned, At
<1>2. ASSUME NEW p \in Producers, StartPut(p) \/ PutStep(p) PROVE IInv'
  <2>1. Base'
    BY <1>a, <1>2, PutKeepsBase, SignalKeepsBase DEF Threads
  <2>2. Wakeful'
    BY <1>a, <1>2, PutKeepsWakeful
  <2> QED  BY <2>1, <2>2 DEF IInv, Base, Wakeful
<1>3. ASSUME NEW c \in Consumers, TakePermit(c) \/ GetStep(c) PROVE IInv'
  <2>1. Base'
    BY <1>a, <1>3, GetKeepsBase, SignalKeepsBase DEF Threads, GetStep
  <2>2. Wakeful'
    BY <1>a, <1>3, GetKeepsWakeful
  <2> QED  BY <2>1, <2>2 DEF IInv, Base, Wakeful
<1> QED  BY <1>1, <1>2, <1>3 DEF Next

LEMMA Invariance == Spec => []IInv
BY InitIInv, NextIInv, PTL DEF Spec

\* The variables keep their types, and the storage never holds more than its capacity.
THEOREM QueueTypeCorrect == Spec => []TypeOK
BY Invariance, PTL DEF IInv

\* The dequeue of get, and the one of a producer that makes room, always find a message
\* (fifo.h:218-221).
THEOREM PermitsAreHonoured == Spec => [](PermitsAccounted /\ PermitFindsMessage)
<1>1. IInv => PermitsAccounted /\ PermitFindsMessage
  BY HoldersFind DEF IInv
<1> QED  BY <1>1, Invariance, PTL

\* No interleaving of put and get leaves a producer waiting for a signal that nobody is
\* going to give, as long as the queue has room for one message of every producer
\* (fifo.h:186-211).
THEOREM NoProducerAbandoned == Spec => []NotAbandoned
BY Invariance, PTL DEF IInv

-----------------------------------------------------------------------------
(* The queue with its lock. *)

Monitor == INSTANCE ShmMonitorProofs WITH pc <- lockPc

\* A thread that has read the storage holds the lock, and the storage is still what the
\* thread has read.
SeenIsStored ==
  /\ seen \in [Threads -> Nat \cup {Unread}]
  /\ \A t \in Threads : seen[t] # Unread =>
       lockPc[t] = "held" /\ pc[t] \in Locked /\ seen[t] = stored

-----------------------------------------------------------------------------
(* The lock. *)

LEMMA LockInit == QueueInit => Monitor!Init
BY DEF QueueInit, Lock!Init, Monitor!Init

LEMMA LockNext == [QueueNext]_allVars => [Monitor!Next]_(Monitor!vars)
<1> SUFFICES ASSUME [QueueNext]_allVars PROVE Lock!Next \/ UNCHANGED lockVars
  BY DEF Lock!Next, Monitor!Next, lockVars, Monitor!vars,
     Lock!StartLock, Lock!LockStep, Lock!StartUnlock, Lock!UnlockStep,
     Monitor!StartLock, Monitor!LockStep, Monitor!StartUnlock, Monitor!UnlockStep,
     Lock!Decrement, Lock!Granted, Lock!Increment, Lock!Pass, Lock!Goto, Lock!Park,
     Lock!Awake, Lock!Take, Lock!Free, Lock!Collect,
     Monitor!Decrement, Monitor!Granted, Monitor!Increment, Monitor!Pass, Monitor!Goto,
     Monitor!Park, Monitor!Awake, Monitor!Take, Monitor!Free, Monitor!Collect
<1>1. CASE UNCHANGED allVars
  BY <1>1 DEF allVars, lockVars
<1>2. CASE QueueNext
  BY <1>2 DEF QueueNext, StartedStep, Construct, Read, Write, Destruct, LockRuns, Unlocked,
              Lock!Next, lockVars
<1> QED  BY <1>1, <1>2

LEMMA LockSpec == QueueSpec => Monitor!Spec
BY LockInit, LockNext, PTL DEF QueueSpec, Monitor!Spec

LEMMA LockThreads == Monitor!ThreadsAssumption
BY LockAssumption DEF Lock!ThreadsAssumption, Monitor!ThreadsAssumption,
   Lock!IsFiniteSet, Monitor!IsFiniteSet

LEMMA LockExclusive == QueueSpec => []StorageExclusive
<1>1. Monitor!MutualExclusion => StorageExclusive
  BY DEF Monitor!MutualExclusion, StorageExclusive, Lock!MutualExclusion, Monitor!At, Lock!At,
         Monitor!Holding, Lock!Holding
<1> QED  BY <1>1, LockSpec, LockThreads, Monitor!StorageExclusive, PTL

LEMMA CriticalExclusive == QueueSpec => []CriticalSectionExclusive
<1>1. Monitor!OneInside => CriticalSectionExclusive
  BY DEF Monitor!OneInside, CriticalSectionExclusive, Lock!OneInside, Monitor!At, Lock!At,
         Monitor!Inside, Lock!Inside, Monitor!Passing, Lock!Passing
<1> QED  BY <1>1, LockSpec, LockThreads, Monitor!CriticalSectionExclusive, PTL

LEMMA TokensExact == QueueSpec => []HandshakeExact
<1>1. Monitor!HandshakeExact => HandshakeExact
  BY DEF Monitor!HandshakeExact, HandshakeExact, Lock!HandshakeExact, Monitor!At, Lock!At,
         Monitor!Cardinality, Lock!Cardinality, Monitor!IsFiniteSet, Lock!IsFiniteSet
<1> QED  BY <1>1, LockSpec, LockThreads, Monitor!HandshakeCorrect, PTL
-----------------------------------------------------------------------------
(* The steps of the queue. *)

\* What holds of the queue and its lock in every state.
QInv == IInv /\ SeenIsStored /\ lockPc \in [Threads -> Lock!Steps]

\* Only a holder unlocks, and nothing else moves a holder.
LEMMA LockMoves ==
  ASSUME QInv, NEW t \in Threads,
         Lock!StartLock(t) \/ Lock!LockStep(t) \/ Lock!StartUnlock(t) \/ Lock!UnlockStep(t)
  PROVE  /\ lockPc' \in [Threads -> Lock!Steps]
         /\ \A u \in Threads : lockPc[u] = "held" =>
              lockPc'[u] = "held" \/ (u = t /\ Lock!StartUnlock(t))
<1> USE DEF QInv, Lock!Goto, Lock!Steps, Lock!Inside, Lock!Waiting, Lock!Passing
<1>1. CASE Lock!StartLock(t)
  BY <1>1 DEF Lock!StartLock
<1>2. CASE Lock!LockStep(t)
  BY <1>2 DEF Lock!LockStep, Lock!Decrement, Lock!Granted, Lock!Park, Lock!Increment,
              Lock!Pass, Lock!Awake, Lock!Take
<1>3. CASE Lock!StartUnlock(t)
  BY <1>3 DEF Lock!StartUnlock
<1>4. CASE Lock!UnlockStep(t)
  BY <1>4 DEF Lock!UnlockStep, Lock!Decrement, Lock!Granted, Lock!Increment, Lock!Pass,
              Lock!Free, Lock!Collect
<1> QED  BY <1>1, <1>2, <1>3, <1>4

\* A write is an enqueue or a dequeue of the storage as it is.
LEMMA WriteIsOneStep ==
  ASSUME QInv, NEW t \in Threads, Write(t)
  PROVE  Next
<1>1. seen[t] = stored /\ pc[t] \in Locked /\ TypeOK
  BY DEF QInv, SeenIsStored, Write, IInv
<1>2. CASE t \in Producers
  <2>1. pc[t] \in {"put", "drop"}
    BY <1>1, <1>2 DEF TypeOK, Locked, ProducerSteps
  <2>2. CASE pc[t] = "put" /\ stored = Capacity
    <3>1. stored' = stored /\ Goto(t, "full") /\ notFull' = FALSE
      BY <1>1, <2>2, SizesAssumption DEF Write, Written
    <3> QED  BY <1>2, <2>2, <3>1 DEF Next, PutStep, EnqueueFails, Write
  <2>3. CASE pc[t] = "put" /\ stored # Capacity
    <3>1. stored < Capacity
      BY <1>1, <2>3, SizesAssumption DEF TypeOK
    <3>2. stored' = stored + 1 /\ Goto(t, "announce") /\ notFull' = notFull
      BY <1>1, <2>3, <3>1 DEF Write, Written
    <3> QED  BY <1>2, <2>3, <3>1, <3>2 DEF Next, PutStep, Enqueue, Write
  <2>4. CASE pc[t] = "drop"
    <3>1. Drop(t)
      BY <1>1, <2>4 DEF Write, Written, Drop
    <3> QED  BY <1>2, <3>1 DEF Next, PutStep
  <2> QED  BY <2>1, <2>2, <2>3, <2>4
<1>3. CASE t \in Consumers
  <2>1. pc[t] = "take"
    BY <1>1, <1>3 DEF TypeOK, Locked, ConsumerSteps
  <2>2. Dequeue(t)
    BY <1>1, <2>1 DEF Write, Written, Dequeue
  <2> QED  BY <1>3, <2>2 DEF Next, GetStep
<1> QED  BY <1>2, <1>3 DEF Threads

LEMMA EveryStepIsOneStep ==
  ASSUME QInv, [QueueNext]_allVars
  PROVE  [Next]_vars
<1>1. CASE UNCHANGED allVars
  BY <1>1 DEF allVars
<1>2. CASE QueueNext
  <2>1. ASSUME NEW t \in Threads, StartedStep(t) PROVE [Next]_vars
    <3>1. CASE Construct(t) \/ Read(t) \/ Destruct(t) \/ LockRuns(t)
      BY <3>1 DEF Construct, Read, Destruct, LockRuns
    <3>2. CASE Write(t)
      BY <3>2, WriteIsOneStep
    <3>3. CASE t \in Producers /\
               (Announce(t) \/ TakePermitToDrop(t) \/ NoPermitToDrop(t) \/ Unblock(t))
      BY <3>3 DEF Next, PutStep
    <3>4. CASE SignalNotFull(t)
      BY <3>4 DEF Next, PutStep, GetStep, Threads
    <3> QED  BY <2>1, <3>1, <3>2, <3>3, <3>4 DEF StartedStep, Unlocked
  <2> QED  BY <1>2, <2>1 DEF QueueNext, Unlocked, Next
<1> QED  BY <1>1, <1>2

-----------------------------------------------------------------------------
(* The invariant. *)

\* Outside the lock a thread has read nothing, and it leaves the storage and the steps of
\* the threads that hold the lock alone.
LEMMA UnlockedKeepsSeen ==
  ASSUME QInv, NEW t \in Threads, lockPc[t] = "out", UNCHANGED <<lockVars, seen>>,
         stored' = stored,
         \A u \in Threads : u # t => pc'[u] = pc[u] \/ pc'[u] = "put"
  PROVE  SeenIsStored'
<1>1. seen[t] = Unread
  BY DEF QInv, SeenIsStored
<1> QED  BY <1>1 DEF QInv, SeenIsStored, Locked, lockVars

LEMMA StartedKeepsSeen ==
  ASSUME QInv, StorageExclusive, NEW t \in Threads, StartedStep(t)
  PROVE  SeenIsStored' /\ lockPc' \in [Threads -> Lock!Steps]
<1>t. TypeOK /\ pc \in [Threads -> ProducerSteps \cup ConsumerSteps]
  BY DEF QInv, IInv, TypeOK
<1>1. CASE Construct(t)
  BY <1>1, LockMoves DEF Construct, QInv, SeenIsStored, vars, Lock!StartLock, Lock!Goto
<1>2. CASE Read(t)
  BY <1>2, <1>t DEF Read, QInv, SeenIsStored, vars, lockVars, TypeOK
<1>3. CASE Write(t)
  <2>1. \A u \in Threads : seen[u] # Unread => u = t
    BY <1>3 DEF QInv, SeenIsStored, Write, StorageExclusive, Lock!MutualExclusion, Lock!At,
                Lock!Holding
  <2>2. seen' = [seen EXCEPT ![t] = Unread] /\ UNCHANGED lockVars
    BY <1>3 DEF Write
  <2> QED  BY <2>1, <2>2 DEF QInv, SeenIsStored, lockVars
<1>4. CASE Destruct(t)
  BY <1>4, LockMoves DEF Destruct, QInv, SeenIsStored, vars
<1>5. CASE LockRuns(t)
  <2>1. lockPc[t] # "held"
    BY <1>5 DEF LockRuns, Lock!LockStep, Lock!UnlockStep, Lock!Decrement, Lock!Granted,
                Lock!Park, Lock!Increment, Lock!Pass, Lock!Awake, Lock!Take, Lock!Free,
                Lock!Collect, Lock!Goto
  <2>2. ~Lock!StartUnlock(t)
    BY <2>1 DEF Lock!StartUnlock, Lock!Goto
  <2> QED  BY <1>5, <2>2, LockMoves DEF LockRuns, QInv, SeenIsStored, vars
<1>6. CASE Unlocked(t, t \in Producers /\
             (Announce(t) \/ TakePermitToDrop(t) \/ NoPermitToDrop(t) \/ Unblock(t)))
  <2>1. stored' = stored /\ \A u \in Threads : u # t => pc'[u] = pc[u]
    BY <1>6, <1>t DEF Unlocked, Announce, TakePermitToDrop, NoPermitToDrop, Unblock, Goto
  <2> QED  BY <1>6, <2>1, UnlockedKeepsSeen DEF Unlocked, QInv, lockVars
<1>7. CASE Unlocked(t, SignalNotFull(t))
  <2>1. stored' = stored /\ \A u \in Threads : u # t => pc'[u] = pc[u] \/ pc'[u] = "put"
    BY <1>7, <1>t DEF Unlocked, SignalNotFull
  <2> QED  BY <1>7, <2>1, UnlockedKeepsSeen DEF Unlocked, QInv, lockVars
<1> QED  BY <1>1, <1>2, <1>3, <1>4, <1>5, <1>6, <1>7 DEF StartedStep

LEMMA InitQInv == QueueInit => QInv
<1> SUFFICES ASSUME QueueInit PROVE QInv
  OBVIOUS
<1>1. IInv
  BY InitIInv DEF QueueInit
<1>2. lockPc \in [Threads -> Lock!Steps]
  BY DEF QueueInit, Lock!Init, Lock!Steps
<1>3. SeenIsStored
  BY DEF QueueInit, SeenIsStored
<1> QED  BY <1>1, <1>2, <1>3 DEF QInv

LEMMA NextQInv == QInv /\ StorageExclusive /\ [QueueNext]_allVars => QInv'
<1> SUFFICES ASSUME QInv, StorageExclusive, [QueueNext]_allVars PROVE QInv'
  OBVIOUS
<1>1. IInv'
  BY EveryStepIsOneStep, NextIInv DEF QInv
<1>2. SeenIsStored' /\ lockPc' \in [Threads -> Lock!Steps]
  <2>1. CASE UNCHANGED allVars
    BY <2>1 DEF allVars, vars, lockVars, QInv, SeenIsStored
  <2>2. ASSUME NEW t \in Threads, StartedStep(t)
        PROVE  SeenIsStored' /\ lockPc' \in [Threads -> Lock!Steps]
    BY <2>2, StartedKeepsSeen
  <2>3. ASSUME NEW p \in Producers, Unlocked(p, StartPut(p))
        PROVE  SeenIsStored' /\ lockPc' \in [Threads -> Lock!Steps]
    <3>1. stored' = stored /\ \A u \in Threads : u # p => pc'[u] = pc[u]
      BY <2>3 DEF Unlocked, StartPut, Goto, QInv, IInv, TypeOK
    <3> QED  BY <2>3, <3>1, UnlockedKeepsSeen DEF Unlocked, Threads, QInv, lockVars
  <2>4. ASSUME NEW c \in Consumers, Unlocked(c, TakePermit(c))
        PROVE  SeenIsStored' /\ lockPc' \in [Threads -> Lock!Steps]
    <3>1. stored' = stored /\ \A u \in Threads : u # c => pc'[u] = pc[u]
      BY <2>4 DEF Unlocked, TakePermit, Goto, QInv, IInv, TypeOK
    <3> QED  BY <2>4, <3>1, UnlockedKeepsSeen DEF Unlocked, Threads, QInv, lockVars
  <2> QED  BY <2>1, <2>2, <2>3, <2>4 DEF QueueNext
<1> QED  BY <1>1, <1>2 DEF QInv

LEMMA QueueInvariance == QueueSpec => []QInv
BY InitQInv, NextQInv, LockExclusive, PTL DEF QueueSpec

-----------------------------------------------------------------------------
(* The theorems. *)

\* Between exclusive_lock and its end there is at most one thread of all processes, in the
\* critical section too (shmem.cpp:26-202).
THEOREM QueueLockSafe == QueueSpec => [](StorageExclusive /\ CriticalSectionExclusive)
BY LockExclusive, CriticalExclusive, PTL

\* The tokens an unlock collects are those of the sleepers it woke, whatever put and get
\* do between its steps (shmem.cpp:152-202).
THEOREM QueueHandshake == QueueSpec => []HandshakeExact
BY TokensExact, PTL

\* put and get on the shared storage, with every step of the lock between theirs, is the
\* queue with an atomic enqueue and dequeue (fifo.h:97-220 on shmem.cpp:48-202): the
\* safety part of ImplementsFifo.
THEOREM QueueIsFifo == QueueSpec => Spec
<1>1. QueueInit => Init
  BY DEF QueueInit
<1> QED  BY <1>1, EveryStepIsOneStep, QueueInvariance, PTL DEF QueueSpec, Spec

\* So the queue on its lock never runs a get into an empty storage, and never abandons a
\* producer (fifo.h:186-221).
THEOREM QueueIsSafe == QueueSpec => [](PermitFindsMessage /\ PermitsAccounted /\ NotAbandoned)
BY QueueIsFifo, PermitsAreHonoured, NoProducerAbandoned, PTL
=============================================================================
