---------------------- MODULE Iec104InterrogationProofs ----------------------
(***************************************************************************)
(* That the termination of an interrogation is the last of its items,      *)
(* wherever they are and whatever else the field sends.                    *)
(***************************************************************************)
EXTENDS Iec104Interrogation, FiniteSetTheorems, TLAPS

Items == [kind : {"confirmation", "termination", "value", "other", "reset", "initialised"},
          v : Nat, run : Nat]

GIType ==
  /\ events \in Seq(Items) /\ high \in Seq(Items) /\ spont \in Seq(Items) /\ up \in Seq(Items)
  /\ run \in {"none", "values", "termination"} /\ runs \in Nat /\ value \in Nat

-----------------------------------------------------------------------------
(* What Chosen returns. *)

\* p holds some of the items of q, in the same order.
Part(p, q) ==
  /\ p \in Seq(Items)
  /\ \E f \in [1..Len(p) -> 1..Len(q)] :
       /\ \A k \in 1..Len(p) : p[k] = q[f[k]]
       /\ \A k, l \in 1..Len(p) : k < l => f[k] < f[l]

LEMMA UptoGrows ==
  ASSUME NEW q \in Seq(Items), NEW kinds
  PROVE  /\ IsFiniteSet(Places(q, kinds)) /\ Cardinality(Places(q, kinds)) \in Nat
         /\ \A i \in Places(q, kinds) :
              Cardinality(Upto(q, kinds, i)) \in 1..Cardinality(Places(q, kinds))
         /\ \A i, j \in Places(q, kinds) :
              i < j => Cardinality(Upto(q, kinds, i)) < Cardinality(Upto(q, kinds, j))
<1> DEFINE at == Places(q, kinds)
           to(i) == Upto(q, kinds, i)
<1>1. Len(q) \in Nat /\ at \in SUBSET (1..Len(q)) /\ IsFiniteSet(1..Len(q))
  <2>1. Len(q) \in Nat
    OBVIOUS
  <2>2. IsFiniteSet(1..Len(q))
    BY <2>1, FS_Interval
  <2> QED  BY <2>1, <2>2 DEF Places
<1>2. IsFiniteSet(at) /\ Cardinality(at) \in Nat /\ at \in SUBSET Int
  <2>1. IsFiniteSet(at)
    BY <1>1, FS_Subset
  <2>2. at \in SUBSET Int
    BY <1>1
  <2> QED  BY <2>1, <2>2, FS_CardinalityType
<1>3. ASSUME NEW i \in at
      PROVE  /\ to(i) \in SUBSET at /\ i \in to(i) /\ IsFiniteSet(to(i))
             /\ Cardinality(to(i)) \in 1..Cardinality(at)
  <2>1. to(i) \in SUBSET at /\ i \in to(i)
    BY <1>2, <1>3 DEF Upto
  <2>2. IsFiniteSet(to(i)) /\ Cardinality(to(i)) <= Cardinality(at)
    BY <1>2, <2>1, FS_Subset
  <2>3. Cardinality(to(i)) \in Nat /\ Cardinality(to(i)) # 0
    BY <2>1, <2>2, FS_CardinalityType, FS_EmptySet
  <2> QED  BY <1>2, <2>1, <2>2, <2>3
<1>4. ASSUME NEW i \in at, NEW j \in at, i < j
      PROVE  Cardinality(to(i)) < Cardinality(to(j))
  <2>1. i \in Int /\ j \in Int /\ \A k \in at : k \in Int
    BY <1>2
  <2>2. to(i) \in SUBSET to(j) /\ j \notin to(i)
    <3>1. ASSUME NEW k \in to(i) PROVE k \in to(j)
      <4>1. k \in at /\ k \in Int /\ k <= i
        BY <2>1, <3>1 DEF Upto
      <4>2. k <= j
        BY <1>4, <2>1, <4>1
      <4> QED  BY <4>1, <4>2 DEF Upto
    <3>2. ~(j <= i)
      BY <1>4, <2>1
    <3>3. j \notin to(i)
      BY <3>2 DEF Upto
    <3> QED  BY <3>1, <3>3
  <2>3. IsFiniteSet(to(j)) /\ j \in to(j)
    BY <1>3
  <2>4. /\ Cardinality(to(i)) <= Cardinality(to(j))
        /\ Cardinality(to(j)) = Cardinality(to(i)) => to(j) = to(i)
    <3> HIDE DEF to
    <3> QED  BY <2>2, <2>3, FS_Subset
  <2>5. Cardinality(to(i)) \in Nat /\ Cardinality(to(j)) \in Nat
    BY <1>2, <1>3
  <2> QED  BY <2>2, <2>3, <2>4, <2>5
<1> QED  BY <1>2, <1>3, <1>4

LEMMA EveryRankTaken ==
  ASSUME NEW q \in Seq(Items), NEW kinds, NEW k \in 1..Cardinality(Places(q, kinds))
  PROVE  \E i \in Places(q, kinds) : Cardinality(Upto(q, kinds, i)) = k
<1> DEFINE at == Places(q, kinds)
           n == Cardinality(at)
           rank == [i \in at |-> Cardinality(Upto(q, kinds, i))]
<1>1. IsFiniteSet(at) /\ n \in Nat /\ rank \in [at -> 1..n] /\ at \in SUBSET Int
  <2>1. IsFiniteSet(at) /\ n \in Nat /\ rank \in [at -> 1..n]
    BY UptoGrows
  <2>2. at \in SUBSET Int
    BY DEF Places
  <2> QED  BY <2>1, <2>2
<1>2. \A i, j \in at : i # j => rank[i] # rank[j]
  <2>1. ASSUME NEW i \in at, NEW j \in at, i < j PROVE rank[i] < rank[j]
    BY <2>1, UptoGrows
  <2>2. \A i \in at : rank[i] \in Int /\ i \in Int
    BY <1>1
  <2> QED  BY <2>1, <2>2
<1> HIDE DEF rank, at
<1>3. rank \in Injection(at, 1..n)
  BY <1>1, <1>2 DEF Injection, IsInjective
<1>4. IsFiniteSet(1..n) /\ Cardinality(1..n) = n
  <2>1. /\ IsFiniteSet(1..n)
        /\ Cardinality(1..n) = IF 1 > n THEN 0 ELSE n - 1 + 1
    <3>1. 1 \in Int /\ n \in Int
      BY <1>1
    <3> HIDE DEF n
    <3> QED  BY <3>1, FS_Interval
  <2> QED  BY <1>1, <2>1
<1>5. rank \in Surjection(at, 1..n)
  BY <1>3, <1>4, FS_Injection
<1>6. \E i \in at : rank[i] = k
  BY <1>5 DEF Surjection, at
<1> QED  BY <1>6 DEF rank, at

\* Chosen: the items of these kinds, each once and in their order.
LEMMA ChosenIsPart ==
  ASSUME NEW q \in Seq(Items), NEW kinds
  PROVE  /\ Part(Chosen(q, kinds), q)
         /\ \A k \in 1..Len(Chosen(q, kinds)) : Chosen(q, kinds)[k].kind \in kinds
<1> DEFINE at == Places(q, kinds)
           n == Cardinality(at)
           f == [k \in 1..n |-> CHOOSE i \in at : Cardinality(Upto(q, kinds, i)) = k]
           p == Chosen(q, kinds)
<1>1. n \in Nat /\ at \in SUBSET (1..Len(q))
  BY UptoGrows DEF Places
<1>2. ASSUME NEW k \in 1..n
      PROVE  f[k] \in at /\ Cardinality(Upto(q, kinds, f[k])) = k
  BY EveryRankTaken
<1>3. ASSUME NEW k \in 1..n
      PROVE  p[k] = q[f[k]] /\ p[k] \in Items /\ p[k].kind \in kinds
  <2>1. p[k] = q[f[k]]
    BY DEF Chosen
  <2>2. f[k] \in 1..Len(q) /\ q[f[k]].kind \in kinds
    BY <1>2 DEF Places
  <2>3. q[f[k]] \in Items
    BY <2>2
  <2> QED  BY <2>1, <2>2, <2>3
<1>4. p \in Seq(Items) /\ Len(p) = n
  <2>1. p = [k \in 1..n |-> p[k]]
    BY DEF Chosen
  <2>2. \A k \in 1..n : p[k] \in Items
    BY <1>3
  <2> HIDE DEF p, n
  <2>3. p \in [1..n -> Items]
    BY <2>1, <2>2
  <2> QED  BY <1>1, <2>3
<1>5. ASSUME NEW k \in 1..n, NEW l \in 1..n, k < l
      PROVE  f[k] < f[l]
  <2>1. f[k] \in at /\ f[l] \in at /\ f[k] \in Int /\ f[l] \in Int
    BY <1>1, <1>2
  <2>2. f[k] # f[l]
    BY <1>2, <1>5
  <2>3. ~(f[l] < f[k])
    <3>1. SUFFICES ASSUME f[l] < f[k] PROVE FALSE
      OBVIOUS
    <3>2. Cardinality(Upto(q, kinds, f[l])) < Cardinality(Upto(q, kinds, f[k]))
      BY <2>1, <3>1, UptoGrows
    <3>3. l < k
      BY <1>2, <3>2
    <3> QED  BY <1>1, <1>5, <3>3
  <2> QED  BY <2>1, <2>2, <2>3
<1>6. f \in [1..Len(p) -> 1..Len(q)]
  BY <1>1, <1>2, <1>4
<1> HIDE DEF f, p, n
<1>7. Part(p, q)
  BY <1>3, <1>4, <1>5, <1>6 DEF Part
<1>8. \A k \in 1..Len(p) : p[k].kind \in kinds
  BY <1>3, <1>4
<1> QED  BY <1>7, <1>8 DEF p

LEMMA HeadAndTailArePart ==
  ASSUME NEW q \in Seq(Items), q # <<>>
  PROVE  /\ Part(Tail(q), q) /\ Part(<<Head(q)>>, q)
         /\ Head(q) = q[1] /\ 1 \in 1..Len(q) /\ Head(q) \in Items
         /\ \A j \in 1..Len(Tail(q)) : j + 1 \in 1..Len(q) /\ 1 < j + 1 /\ Tail(q)[j] = q[j + 1]
<1>1. Len(q) \in Nat /\ Len(q) > 0 /\ Head(q) = q[1] /\ Head(q) \in Items /\ 1 \in 1..Len(q)
  OBVIOUS
<1>2. Tail(q) \in Seq(Items) /\ Len(Tail(q)) = Len(q) - 1
  OBVIOUS
<1>3. \A j \in 1..Len(Tail(q)) : j + 1 \in 1..Len(q) /\ 1 < j + 1 /\ Tail(q)[j] = q[j + 1]
  BY <1>1, <1>2
<1>4. Part(Tail(q), q)
  <2> DEFINE f == [k \in 1..Len(Tail(q)) |-> k + 1]
  <2>1. f \in [1..Len(Tail(q)) -> 1..Len(q)] /\ \A k \in 1..Len(Tail(q)) : Tail(q)[k] = q[f[k]]
    BY <1>3
  <2>2. \A k, l \in 1..Len(Tail(q)) : k < l => f[k] < f[l]
    OBVIOUS
  <2> HIDE DEF f
  <2> QED  BY <1>2, <2>1, <2>2 DEF Part
<1>5. Part(<<Head(q)>>, q)
  <2> DEFINE p == <<Head(q)>>
             f == [k \in 1..1 |-> 1]
  <2>1. p \in Seq(Items) /\ Len(p) = 1 /\ p[1] = q[1]
    BY <1>1
  <2>2. f \in [1..Len(p) -> 1..Len(q)] /\ \A k \in 1..Len(p) : p[k] = q[f[k]]
    BY <1>1, <2>1
  <2>3. \A k, l \in 1..Len(p) : k < l => f[k] < f[l]
    BY <2>1
  <2> HIDE DEF f, p
  <2>4. Part(p, q)
    BY <2>1, <2>2, <2>3 DEF Part
  <2> QED  BY <2>4 DEF p
<1> QED  BY <1>1, <1>3, <1>4, <1>5

LEMMA JoinedItems ==
  ASSUME NEW a \in Seq(Items), NEW b \in Seq(Items)
  PROVE  /\ a \o b \in Seq(Items) /\ Len(a) \in Nat /\ Len(b) \in Nat
         /\ Len(a \o b) = Len(a) + Len(b)
         /\ \A i \in 1..Len(a \o b) :
              \/ i \in 1..Len(a) /\ (a \o b)[i] = a[i]
              \/ i - Len(a) \in 1..Len(b) /\ (a \o b)[i] = b[i - Len(a)]
<1>1. /\ a \o b \in Seq(Items) /\ Len(a) \in Nat /\ Len(b) \in Nat
      /\ Len(a \o b) = Len(a) + Len(b)
  OBVIOUS
<1>2. ASSUME NEW i \in 1..Len(a \o b)
      PROVE  \/ i \in 1..Len(a) /\ (a \o b)[i] = a[i]
             \/ i - Len(a) \in 1..Len(b) /\ (a \o b)[i] = b[i - Len(a)]
  <2>1. CASE i <= Len(a)
    BY <1>1, <2>1
  <2>2. CASE i > Len(a)
    BY <1>1, <2>2
  <2> QED  BY <1>1, <2>1, <2>2
<1> QED  BY <1>1, <1>2

-----------------------------------------------------------------------------
(* The order of values and terminations, on a queue and between queues. *)

IsValue(item) == item.kind = "value"
IsTermination(item) == item.kind = "termination"

\* A run that the field has ended: the present one is over, or it is an earlier one.
Over(r, begun, going) == r \in 1..begun /\ (r = begun => going = "none")

\* No termination of a has the run of a value of b: a may go before b.
Ahead(a, b) ==
  \A i \in 1..Len(a), j \in 1..Len(b) : IsTermination(a[i]) /\ IsValue(b[j]) => a[i].run # b[j].run

\* On a queue the terminations are those of runs that are over, no value belongs to a run that
\* the master knows the end of, and none follows the termination of its run.
Sound(q, begun, going, over) ==
  /\ \A i \in 1..Len(q) : IsTermination(q[i]) => Over(q[i].run, begun, going)
  /\ \A i \in 1..Len(q) : IsValue(q[i]) => q[i].run <= begun /\ q[i].run \notin over
  /\ \A i, j \in 1..Len(q) : i < j /\ IsTermination(q[i]) /\ IsValue(q[j]) => q[i].run # q[j].run

Plain(q) == \A i \in 1..Len(q) : ~IsValue(q[i]) /\ ~IsTermination(q[i])

OrderInv ==
  /\ run # "none" => runs # 0
  /\ \A r \in ended : Over(r, runs, run)
  /\ Plain(high)
  /\ Sound(events, runs, run, ended) /\ Sound(spont, runs, run, ended) /\ Sound(up, runs, run, ended)
  /\ Ahead(up, spont) /\ Ahead(up, events) /\ Ahead(spont, events)

LEMMA PartKept ==
  ASSUME NEW p, NEW q \in Seq(Items), Part(p, q)
  PROVE  /\ p \in Seq(Items)
         /\ \A n, going, over : Sound(q, n, going, over) => Sound(p, n, going, over)
         /\ \A b : (Ahead(q, b) => Ahead(p, b)) /\ (Ahead(b, q) => Ahead(b, p))
         /\ Plain(q) => Plain(p)
<1>1. PICK f \in [1..Len(p) -> 1..Len(q)] :
        /\ \A k \in 1..Len(p) : p[k] = q[f[k]]
        /\ \A k, l \in 1..Len(p) : k < l => f[k] < f[l]
  BY DEF Part
<1>2. \A k \in 1..Len(p) : f[k] \in 1..Len(q) /\ p[k] = q[f[k]]
  <2>1. PICK m, n : m = 1..Len(p) /\ n = 1..Len(q)
    OBVIOUS
  <2>2. f \in [m -> n]
    BY <2>1
  <2>3. \A k \in m : f[k] \in n
    BY <2>2
  <2> QED  BY <1>1, <2>1, <2>3, Zenon
<1>3. ASSUME NEW n, NEW going, NEW over, Sound(q, n, going, over)
      PROVE  Sound(p, n, going, over)
  <2>1. ASSUME NEW i \in 1..Len(p)
        PROVE  /\ IsTermination(p[i]) => Over(p[i].run, n, going)
               /\ IsValue(p[i]) => p[i].run <= n /\ p[i].run \notin over
    BY <1>2, <1>3, Zenon DEF Sound
  <2>2. ASSUME NEW i \in 1..Len(p), NEW j \in 1..Len(p), i < j,
               IsTermination(p[i]), IsValue(p[j])
        PROVE  p[i].run # p[j].run
    <3>1. f[i] \in 1..Len(q) /\ f[j] \in 1..Len(q) /\ p[i] = q[f[i]] /\ p[j] = q[f[j]] /\ f[i] < f[j]
      BY <1>1, <1>2, <2>2, Zenon
    <3> QED  BY <1>3, <2>2, <3>1, Zenon DEF Sound
  <2> QED  BY <2>1, <2>2, Zenon DEF Sound
<1>4. \A b : (Ahead(q, b) => Ahead(p, b)) /\ (Ahead(b, q) => Ahead(b, p))
  <2>1. \A b : Ahead(q, b) => Ahead(p, b)
    BY <1>2 DEF Ahead
  <2>2. ASSUME NEW b, Ahead(b, q) PROVE Ahead(b, p)
    <3>1. \A i \in 1..Len(b), j \in 1..Len(q) :
            IsTermination(b[i]) /\ IsValue(q[j]) => b[i].run # q[j].run
      BY <2>2 DEF Ahead
    <3>2. ASSUME NEW i \in 1..Len(b), NEW j \in 1..Len(p), IsTermination(b[i]), IsValue(p[j])
          PROVE  b[i].run # p[j].run
      BY <1>2, <3>1, <3>2
    <3> QED  BY <3>2 DEF Ahead
  <2> QED  BY <2>1, <2>2
<1>5. Plain(q) => Plain(p)
  BY <1>2, Zenon DEF Plain
<1>6. p \in Seq(Items)
  BY DEF Part
<1> QED  BY <1>3, <1>4, <1>5, <1>6

LEMMA JoinedSound ==
  ASSUME NEW a \in Seq(Items), NEW b \in Seq(Items), NEW n, NEW going, NEW over,
         Sound(a, n, going, over), Sound(b, n, going, over), Ahead(a, b)
  PROVE  Sound(a \o b, n, going, over)
<1> DEFINE q == a \o b
<1>1. /\ Len(a) \in Nat /\ Len(b) \in Nat /\ Len(q) = Len(a) + Len(b)
      /\ \A i \in 1..Len(q) :
           \/ i \in 1..Len(a) /\ q[i] = a[i]
           \/ i - Len(a) \in 1..Len(b) /\ q[i] = b[i - Len(a)]
  BY JoinedItems
<1> HIDE DEF q
<1>2. ASSUME NEW i \in 1..Len(q)
      PROVE  /\ IsTermination(q[i]) => Over(q[i].run, n, going)
             /\ IsValue(q[i]) => q[i].run <= n /\ q[i].run \notin over
  <2>1. CASE i \in 1..Len(a) /\ q[i] = a[i]
    BY <2>1 DEF Sound
  <2>2. CASE i - Len(a) \in 1..Len(b) /\ q[i] = b[i - Len(a)]
    BY <2>2 DEF Sound
  <2> QED  BY <1>1, <2>1, <2>2
<1>3. ASSUME NEW i \in 1..Len(q), NEW j \in 1..Len(q), i < j, IsTermination(q[i]), IsValue(q[j])
      PROVE  q[i].run # q[j].run
  <2>1. CASE i \in 1..Len(a) /\ q[i] = a[i] /\ j \in 1..Len(a) /\ q[j] = a[j]
    BY <1>3, <2>1 DEF Sound
  <2>2. CASE /\ i \in 1..Len(a) /\ q[i] = a[i]
             /\ j - Len(a) \in 1..Len(b) /\ q[j] = b[j - Len(a)]
    BY <1>3, <2>2 DEF Ahead
  <2>3. CASE /\ i - Len(a) \in 1..Len(b) /\ q[i] = b[i - Len(a)]
             /\ j - Len(a) \in 1..Len(b) /\ q[j] = b[j - Len(a)]
    <3>1. i - Len(a) < j - Len(a)
      BY <1>1, <1>3
    <3> QED  BY <1>3, <2>3, <3>1 DEF Sound
  <2>4. ~(i - Len(a) \in 1..Len(b) /\ j \in 1..Len(a))
    BY <1>1, <1>3
  <2> QED  BY <1>1, <2>1, <2>2, <2>3, <2>4
<1>4. Sound(q, n, going, over)
  BY <1>2, <1>3 DEF Sound
<1> QED  BY <1>4 DEF q

LEMMA JoinedAhead ==
  ASSUME NEW a \in Seq(Items), NEW b \in Seq(Items)
  PROVE  /\ \A c : Ahead(a, c) /\ Ahead(b, c) => Ahead(a \o b, c)
         /\ \A c : Ahead(c, a) /\ Ahead(c, b) => Ahead(c, a \o b)
         /\ Plain(a) /\ Plain(b) => Plain(a \o b)
<1> DEFINE q == a \o b
<1>1. \A i \in 1..Len(q) : \/ i \in 1..Len(a) /\ q[i] = a[i]
                           \/ i - Len(a) \in 1..Len(b) /\ q[i] = b[i - Len(a)]
  BY JoinedItems
<1> HIDE DEF q
<1>2. \A c : Ahead(a, c) /\ Ahead(b, c) => Ahead(q, c)
  BY <1>1 DEF Ahead
<1>3. \A c : Ahead(c, a) /\ Ahead(c, b) => Ahead(c, q)
  BY <1>1 DEF Ahead
<1>4. Plain(a) /\ Plain(b) => Plain(q)
  BY <1>1 DEF Plain
<1> QED  BY <1>2, <1>3, <1>4 DEF q

LEMMA OneItem ==
  ASSUME NEW x \in Items
  PROVE  /\ <<x>> \in Seq(Items)
         /\ \A n, going, over :
              /\ IsTermination(x) => Over(x.run, n, going)
              /\ IsValue(x) => x.run <= n /\ x.run \notin over
              => Sound(<<x>>, n, going, over)
         /\ \A b : (\A j \in 1..Len(b) : IsTermination(b[j]) /\ IsValue(x) => b[j].run # x.run)
                   => Ahead(b, <<x>>)
         /\ ~IsValue(x) /\ ~IsTermination(x) => Plain(<<x>>)
<1> DEFINE q == <<x>>
<1>1. q \in Seq(Items) /\ Len(q) = 1 /\ \A i \in 1..Len(q) : i = 1 /\ q[i] = x
  <2>1. q \in Seq(Items) /\ Len(q) = 1 /\ q[1] = x
    OBVIOUS
  <2>2. \A i \in 1..1 : i = 1
    OBVIOUS
  <2> QED  BY <2>1, <2>2
<1>2. ~\E i, j \in 1..Len(q) : i < j
  <2>1. ASSUME NEW i \in 1..Len(q), NEW j \in 1..Len(q), i < j PROVE FALSE
    <3>1. i = 1 /\ j = 1
      BY <1>1
    <3> QED  BY <2>1, <3>1
  <2> QED  BY <2>1
<1> HIDE DEF q
<1>3. ASSUME NEW n, NEW going, NEW over,
             IsTermination(x) => Over(x.run, n, going),
             IsValue(x) => x.run <= n /\ x.run \notin over
      PROVE  Sound(q, n, going, over)
  BY <1>1, <1>2, <1>3 DEF Sound
<1>4. \A b : (\A j \in 1..Len(b) : IsTermination(b[j]) /\ IsValue(x) => b[j].run # x.run)
             => Ahead(b, q)
  BY <1>1 DEF Ahead
<1>5. ~IsValue(x) /\ ~IsTermination(x) => Plain(q)
  BY <1>1 DEF Plain
<1> QED  BY <1>1, <1>3, <1>4, <1>5 DEF q

LEMMA NothingWaits ==
  /\ <<>> \in Seq(Items) /\ Plain(<<>>)
  /\ \A n, going, over : Sound(<<>>, n, going, over)
  /\ \A b : Ahead(<<>>, b) /\ Ahead(b, <<>>)
<1>1. Len(<<>>) = 0 /\ \A i \in 1..Len(<<>>) : FALSE
  OBVIOUS
<1> QED  BY <1>1 DEF Plain, Sound, Ahead

\* A queue that nothing plain is added to loses nothing when the field goes on.
LEMMA StillSound ==
  ASSUME NEW q, NEW n \in Nat, NEW nn \in Nat, NEW going, NEW gg, NEW over, n <= nn,
         \A i \in 1..Len(q) : IsValue(q[i]) => q[i].run \in Nat,
         \A r : Over(r, n, going) => Over(r, nn, gg), Sound(q, n, going, over)
  PROVE  Sound(q, nn, gg, over)
BY DEF Sound

LEMMA AppendIsJoin ==
  ASSUME NEW q \in Seq(Items), NEW x \in Items
  PROVE  Append(q, x) = q \o <<x>> /\ q \o <<x>> \in Seq(Items)
<1>1. Append(q, x) \in Seq(Items) /\ q \o <<x>> \in Seq(Items)
      /\ Len(Append(q, x)) = Len(q) + 1 /\ Len(q \o <<x>>) = Len(q) + 1 /\ Len(q) \in Nat
  OBVIOUS
<1>2. ASSUME NEW i \in 1..(Len(q) + 1)
      PROVE  Append(q, x)[i] = (q \o <<x>>)[i]
  OBVIOUS
<1> QED  BY <1>1, <1>2

LEMMA ItemTypes ==
  /\ \A kind \in {"confirmation", "termination", "value", "other", "reset", "initialised"} :
       Item(kind) \in Items /\ Item(kind).kind = kind
  /\ \A v, r \in Nat : Value(v, r) \in Items /\ IsValue(Value(v, r)) /\ ~IsTermination(Value(v, r))
                       /\ Value(v, r).run = r
  /\ \A r \in Nat : LET x == [Item("termination") EXCEPT !.run = r]
                    IN x \in Items /\ ~IsValue(x) /\ IsTermination(x) /\ x.run = r
BY DEF Item, Value, Items, IsValue, IsTermination

\* What the field sends comes last.
LEMMA FieldSends ==
  ASSUME GIType, OrderInv, NEW x \in Items, NEW n \in Nat, NEW going, runs <= n,
         \A r : Over(r, runs, run) => Over(r, n, going),
         IsTermination(x) => Over(x.run, n, going),
         IsValue(x) => x.run <= n /\ ~Over(x.run, runs, run)
  PROVE  /\ Append(events, x) \in Seq(Items)
         /\ Sound(Append(events, x), n, going, ended)
         /\ Sound(spont, n, going, ended) /\ Sound(up, n, going, ended)
         /\ Ahead(up, Append(events, x)) /\ Ahead(spont, Append(events, x))
<1>1. /\ events \in Seq(Items) /\ spont \in Seq(Items) /\ up \in Seq(Items) /\ runs \in Nat
      /\ Append(events, x) = events \o <<x>> /\ events \o <<x>> \in Seq(Items) /\ <<x>> \in Seq(Items)
  BY AppendIsJoin, OneItem DEF GIType
<1>2. ASSUME NEW q \in Seq(Items), Sound(q, runs, run, ended)
      PROVE  Sound(q, n, going, ended)
  <2>1. \A i \in 1..Len(q) : IsValue(q[i]) => q[i].run \in Nat
    <3>1. \A i \in 1..Len(q) : q[i] \in Items
      OBVIOUS
    <3> QED  BY <3>1 DEF Items
  <2> QED  BY <1>1, <1>2, <2>1, StillSound
<1>3. IsValue(x) => x.run \notin ended
  BY DEF OrderInv
<1>4. Sound(<<x>>, n, going, ended)
  BY <1>3, OneItem
<1>5. ASSUME NEW q, Sound(q, runs, run, ended)
      PROVE  Ahead(q, <<x>>)
  <2>1. \A j \in 1..Len(q) : IsTermination(q[j]) /\ IsValue(x) => q[j].run # x.run
    BY <1>5 DEF Sound
  <2> QED  BY <2>1, OneItem
<1>6. Sound(events \o <<x>>, n, going, ended)
  BY <1>1, <1>2, <1>4, <1>5, JoinedSound DEF OrderInv
<1>7. Ahead(up, events \o <<x>>) /\ Ahead(spont, events \o <<x>>)
  BY <1>1, <1>5, JoinedAhead DEF OrderInv
<1> QED  BY <1>1, <1>2, <1>6, <1>7 DEF OrderInv

LEMMA NextOfField ==
  ASSUME GIType, OrderInv,
         FieldConfirms \/ FieldReports \/ FieldTerminates \/ Beat \/ Change \/ Reset
  PROVE  GIType' /\ OrderInv'
<1>1. runs \in Nat /\ run \in {"none", "values", "termination"} /\ (run # "none" => runs # 0)
      /\ value \in Nat /\ runs <= runs
  BY DEF GIType, OrderInv
<1>2. UNCHANGED <<ended, high, spont, up>>
  BY DEF FieldConfirms, FieldReports, FieldTerminates, Beat, Change, Reset, slave, master
<1>3. ASSUME NEW x \in Items, Sends(x), runs' \in Nat, runs <= runs', value' \in Nat,
             run' \in {"none", "values", "termination"}, run' # "none" => runs' # 0,
             \A r : Over(r, runs, run) => Over(r, runs', run'),
             IsTermination(x) => Over(x.run, runs', run'),
             IsValue(x) => x.run <= runs' /\ ~Over(x.run, runs, run)
      PROVE  GIType' /\ OrderInv'
  <2>1. events' = Append(events, x)
    BY <1>3 DEF Sends
  <2>2. /\ Append(events, x) \in Seq(Items)
        /\ Sound(Append(events, x), runs', run', ended)
        /\ Sound(spont, runs', run', ended) /\ Sound(up, runs', run', ended)
        /\ Ahead(up, Append(events, x)) /\ Ahead(spont, Append(events, x))
    BY <1>3, FieldSends
  <2>3. GIType'
    BY <1>2, <1>3, <2>1, <2>2 DEF GIType
  <2>4. \A r \in ended' : Over(r, runs', run')
    BY <1>2, <1>3 DEF OrderInv
  <2> QED  BY <1>2, <1>3, <2>1, <2>2, <2>3, <2>4 DEF OrderInv
<1>4. CASE FieldConfirms
  <2>1. run = "none" /\ run' = "values" /\ runs' = runs + 1 /\ value' = value
        /\ Sends(Item("confirmation"))
    BY <1>4 DEF FieldConfirms, field
  <2>2. \A r : Over(r, runs, run) => Over(r, runs', run')
    BY <1>1, <2>1 DEF Over
  <2>3. Item("confirmation") \in Items /\ ~IsTermination(Item("confirmation"))
        /\ ~IsValue(Item("confirmation"))
    BY ItemTypes DEF IsTermination, IsValue
  <2>4. runs' \in Nat /\ runs <= runs' /\ runs' # 0
    BY <1>1, <2>1
  <2> QED  BY <1>1, <1>3, <2>1, <2>2, <2>3, <2>4
<1>5. CASE FieldReports
  <2>1. run = "values" /\ run' = "termination" /\ UNCHANGED <<runs, value>>
        /\ Sends(Value(value, runs))
    BY <1>5 DEF FieldReports
  <2>2. /\ \A r : Over(r, runs, run) => Over(r, runs', run')
        /\ ~Over(runs, runs, run)
    BY <1>1, <2>1 DEF Over
  <2>3. Value(value, runs) \in Items /\ ~IsTermination(Value(value, runs))
        /\ Value(value, runs).run = runs
    BY <1>1, ItemTypes
  <2> QED  BY <1>1, <1>3, <2>1, <2>2, <2>3
<1>6. CASE FieldTerminates
  <2> DEFINE x == [Item("termination") EXCEPT !.run = runs]
  <2>1. run = "termination" /\ run' = "none" /\ UNCHANGED <<runs, value>> /\ Sends(x)
    BY <1>6 DEF FieldTerminates
  <2>2. (\A r : Over(r, runs, run) => Over(r, runs', run')) /\ Over(runs, runs', run')
    BY <1>1, <2>1 DEF Over
  <2>3. x \in Items /\ ~IsValue(x) /\ x.run = runs
    BY <1>1, ItemTypes
  <2> HIDE DEF x
  <2> QED  BY <1>1, <1>3, <2>1, <2>2, <2>3
<1>7. CASE Change
  <2>1. UNCHANGED <<run, runs>> /\ value' = value + 1 /\ Sends(Value(value', 0))
    BY <1>7 DEF Change
  <2>2. ~Over(0, runs, run)
    BY DEF Over
  <2>3. value' \in Nat /\ 0 \in Nat /\ 0 <= runs
    BY <1>1, <2>1
  <2>4. Value(value', 0) \in Items /\ ~IsTermination(Value(value', 0)) /\ Value(value', 0).run = 0
    BY <2>3, ItemTypes
  <2> QED  BY <1>1, <1>3, <2>1, <2>2, <2>3, <2>4
<1>8. CASE Beat \/ Reset
  <2>1. UNCHANGED <<run, runs, value>>
    BY <1>8 DEF Beat, Reset, field
  <2>2. PICK x \in {Item("other"), Item("reset")} : Sends(x)
    BY <1>8 DEF Beat, Reset
  <2>3. x \in Items /\ ~IsTermination(x) /\ ~IsValue(x)
    BY ItemTypes DEF IsTermination, IsValue
  <2> QED  BY <1>1, <1>3, <2>1, <2>2, <2>3
<1> QED  BY <1>4, <1>5, <1>6, <1>7, <1>8

LEMMA NextOfTick ==
  ASSUME GIType, OrderInv, SlaveTick
  PROVE  GIType' /\ OrderInv'
<1> DEFINE c == Chosen(events, InOrder)
           h == Chosen(events, HighPriority)
           i == IF loading THEN <<Item("initialised")>> ELSE <<>>
<1>1. /\ events' = <<>> /\ spont' = spont \o c /\ high' = high \o i \o h
      /\ UNCHANGED <<up, run, runs, value, ended>>
  BY DEF SlaveTick, EndOfInit, master
<1>2. events \in Seq(Items) /\ spont \in Seq(Items) /\ high \in Seq(Items) /\ up \in Seq(Items)
  BY DEF GIType
<1>3. /\ Part(c, events) /\ Part(h, events) /\ h \in Seq(Items) /\ c \in Seq(Items)
      /\ \A k \in 1..Len(h) : h[k].kind = "confirmation"
  <2>1. Part(c, events) /\ Part(h, events) /\ \A k \in 1..Len(h) : h[k].kind \in HighPriority
    BY <1>2, ChosenIsPart
  <2> QED  BY <2>1 DEF Part, HighPriority
<1>4. Plain(h)
  BY <1>3 DEF Plain, IsValue, IsTermination
<1>5. i \in Seq(Items) /\ Plain(i)
  <2>1. Item("initialised") \in Items /\ Item("initialised").kind = "initialised"
    BY ItemTypes
  <2>2. <<Item("initialised")>> \in Seq(Items) /\ Plain(<<Item("initialised")>>)
    BY <2>1, OneItem DEF IsValue, IsTermination
  <2> QED  BY <2>2, NothingWaits
<1> HIDE DEF c, h, i
<1>6. high \o i \in Seq(Items) /\ Plain(high \o i)
  BY <1>2, <1>5, JoinedAhead, JoinedItems DEF OrderInv
<1>7. high' \in Seq(Items) /\ Plain(high')
  BY <1>1, <1>3, <1>4, <1>6, JoinedAhead, JoinedItems
<1>8. Sound(c, runs, run, ended) /\ Ahead(spont, c) /\ Ahead(up, c)
  BY <1>2, <1>3, PartKept DEF OrderInv
<1>9. /\ spont \o c \in Seq(Items) /\ Sound(spont \o c, runs, run, ended)
      /\ Ahead(up, spont \o c)
  BY <1>2, <1>3, <1>8, JoinedSound, JoinedAhead, JoinedItems DEF OrderInv
<1>10. GIType'
  BY <1>1, <1>7, <1>9, NothingWaits DEF GIType
<1>11. Sound(<<>>, runs, run, ended) /\ Ahead(up, <<>>) /\ Ahead(spont \o c, <<>>)
  BY NothingWaits
<1> QED  BY <1>1, <1>7, <1>9, <1>10, <1>11 DEF OrderInv

LEMMA NextOfTransmit ==
  ASSUME GIType, OrderInv, Transmit
  PROVE  GIType' /\ OrderInv'
<1>1. /\ events \in Seq(Items) /\ spont \in Seq(Items) /\ high \in Seq(Items) /\ up \in Seq(Items)
      /\ UNCHANGED <<events, run, runs, value, ended>>
  BY DEF Transmit, GIType, master, field
<1>2. ASSUME NEW x \in Items, up' = Append(up, x), Sound(<<x>>, runs, run, ended),
             Ahead(up, <<x>>), Ahead(<<x>>, spont'), Ahead(<<x>>, events), Ahead(up, spont')
      PROVE  /\ up' \in Seq(Items) /\ Sound(up', runs, run, ended)
             /\ Ahead(up', spont') /\ Ahead(up', events)
  <2>1. up' = up \o <<x>> /\ <<x>> \in Seq(Items) /\ up \o <<x>> \in Seq(Items)
    BY <1>1, <1>2, AppendIsJoin, OneItem
  <2>2. Sound(up \o <<x>>, runs, run, ended)
    BY <1>1, <1>2, <2>1, JoinedSound DEF OrderInv
  <2>3. Ahead(up \o <<x>>, spont') /\ Ahead(up \o <<x>>, events)
    BY <1>1, <1>2, <2>1, JoinedAhead DEF OrderInv
  <2> QED  BY <2>1, <2>2, <2>3
<1>3. CASE high # <<>> /\ up' = Append(up, Head(high)) /\ high' = Tail(high) /\ UNCHANGED spont
  <2> DEFINE x == Head(high)
  <2>1. Part(Tail(high), high) /\ x = high[1] /\ 1 \in 1..Len(high) /\ x \in Items
    BY <1>1, <1>3, HeadAndTailArePart
  <2>2. ~IsValue(x) /\ ~IsTermination(x)
    BY <2>1 DEF OrderInv, Plain
  <2>3. Tail(high) \in Seq(Items) /\ Plain(Tail(high))
    BY <1>1, <2>1, PartKept DEF OrderInv
  <2> HIDE DEF x
  <2>4. Sound(<<x>>, runs, run, ended) /\ Ahead(up, <<x>>)
    BY <2>1, <2>2, OneItem
  <2>5. \A b : Ahead(<<x>>, b)
    <3>1. \A k \in 1..Len(<<x>>) : <<x>>[k] = x
      <4>1. Len(<<x>>) = 1 /\ <<x>>[1] = x /\ \A k \in 1..1 : k = 1
        OBVIOUS
      <4> QED  BY <4>1
    <3> QED  BY <2>2, <3>1 DEF Ahead
  <2>6. up' \in Seq(Items) /\ Sound(up', runs, run, ended) /\ Ahead(up', spont') /\ Ahead(up', events)
    BY <1>2, <1>3, <2>1, <2>4, <2>5 DEF OrderInv, x
  <2>7. GIType'
    BY <1>1, <1>3, <2>3, <2>6 DEF GIType
  <2> QED  BY <1>1, <1>3, <2>3, <2>6, <2>7 DEF OrderInv
<1>4. CASE /\ high = <<>> /\ spont # <<>>
           /\ up' = Append(up, Head(spont)) /\ spont' = Tail(spont) /\ UNCHANGED high
  <2> DEFINE x == Head(spont)
  <2>1. /\ Part(Tail(spont), spont) /\ Part(<<x>>, spont) /\ x = spont[1] /\ 1 \in 1..Len(spont)
        /\ x \in Items
        /\ \A j \in 1..Len(Tail(spont)) :
             j + 1 \in 1..Len(spont) /\ 1 < j + 1 /\ Tail(spont)[j] = spont[j + 1]
    BY <1>1, <1>4, HeadAndTailArePart
  <2>2. /\ Tail(spont) \in Seq(Items) /\ Sound(Tail(spont), runs, run, ended)
        /\ Ahead(up, Tail(spont)) /\ Ahead(Tail(spont), events)
    BY <1>1, <2>1, PartKept DEF OrderInv
  <2>3. Sound(<<x>>, runs, run, ended) /\ Ahead(up, <<x>>) /\ Ahead(<<x>>, events)
    BY <1>1, <2>1, PartKept DEF OrderInv
  <2>4. Ahead(<<x>>, Tail(spont))
    <3>1. \A j \in 1..Len(Tail(spont)) :
            IsTermination(x) /\ IsValue(Tail(spont)[j]) => x.run # Tail(spont)[j].run
      BY <2>1 DEF OrderInv, Sound
    <3>2. \A k \in 1..Len(<<x>>) : <<x>>[k] = x
      <4>1. Len(<<x>>) = 1 /\ <<x>>[1] = x /\ \A k \in 1..1 : k = 1
        OBVIOUS
      <4> QED  BY <4>1
    <3> HIDE DEF x
    <3> QED  BY <3>1, <3>2 DEF Ahead
  <2>5. up' \in Seq(Items) /\ Sound(up', runs, run, ended) /\ Ahead(up', spont') /\ Ahead(up', events)
    BY <1>2, <1>4, <2>1, <2>2, <2>3, <2>4
  <2>6. GIType'
    BY <1>1, <1>4, <2>2, <2>5 DEF GIType
  <2> QED  BY <1>1, <1>4, <2>2, <2>5, <2>6 DEF OrderInv
<1> QED  BY <1>3, <1>4 DEF Transmit

\* When the master takes a termination, no value of its run is in any queue.
LEMMA NextOfReceipt ==
  ASSUME GIType, OrderInv, MasterReceives
  PROVE  GIType' /\ OrderInv'
<1> DEFINE x == Head(up)
<1>1. /\ events \in Seq(Items) /\ spont \in Seq(Items) /\ high \in Seq(Items) /\ up \in Seq(Items)
      /\ up # <<>> /\ up' = Tail(up) /\ UNCHANGED <<events, spont, high, run, runs, value>>
      /\ ended' = IF IsTermination(x) THEN ended \cup {x.run} ELSE ended
  BY DEF MasterReceives, GIType, slave, field, IsTermination
<1>2. /\ Part(Tail(up), up) /\ x = up[1] /\ 1 \in 1..Len(up)
      /\ \A j \in 1..Len(Tail(up)) :
           j + 1 \in 1..Len(up) /\ 1 < j + 1 /\ Tail(up)[j] = up[j + 1]
  BY <1>1, HeadAndTailArePart
<1>3. /\ Tail(up) \in Seq(Items) /\ Sound(Tail(up), runs, run, ended)
      /\ Ahead(Tail(up), spont) /\ Ahead(Tail(up), events)
  BY <1>1, <1>2, PartKept DEF OrderInv
<1>4. ASSUME IsTermination(x)
      PROVE  /\ Over(x.run, runs, run)
             /\ \A j \in 1..Len(Tail(up)) : IsValue(Tail(up)[j]) => Tail(up)[j].run # x.run
             /\ \A j \in 1..Len(spont) : IsValue(spont[j]) => spont[j].run # x.run
             /\ \A j \in 1..Len(events) : IsValue(events[j]) => events[j].run # x.run
  <2>1. Over(x.run, runs, run)
    BY <1>2, <1>4 DEF OrderInv, Sound
  <2>2. \A j \in 1..Len(Tail(up)) : IsValue(Tail(up)[j]) => Tail(up)[j].run # x.run
    BY <1>2, <1>4 DEF OrderInv, Sound
  <2>3. Ahead(up, spont) /\ Ahead(up, events)
    BY DEF OrderInv
  <2> QED  BY <1>2, <1>4, <2>1, <2>2, <2>3 DEF Ahead
<1> HIDE DEF x
<1>5. ASSUME NEW q, Sound(q, runs, run, ended),
             IsTermination(x) => \A j \in 1..Len(q) : IsValue(q[j]) => q[j].run # x.run
      PROVE  Sound(q, runs, run, ended')
  BY <1>1, <1>5 DEF Sound
<1>6. /\ Sound(Tail(up), runs, run, ended') /\ Sound(spont, runs, run, ended')
      /\ Sound(events, runs, run, ended')
  BY <1>3, <1>4, <1>5 DEF OrderInv
<1>7. \A r \in ended' : Over(r, runs, run)
  BY <1>1, <1>4 DEF OrderInv
<1>8. GIType'
  BY <1>1, <1>3 DEF GIType
<1> QED  BY <1>1, <1>3, <1>6, <1>7, <1>8 DEF OrderInv

LEMMA NextOrder == GIType /\ OrderInv /\ [Next]_vars => GIType' /\ OrderInv'
<1> SUFFICES ASSUME GIType, OrderInv, [Next]_vars PROVE GIType' /\ OrderInv'
  OBVIOUS
<1>1. CASE EndSession /\ UNCHANGED field
  <2>1. /\ events' = <<>> /\ high' = <<>> /\ spont' = <<>> /\ up' = <<>> /\ ended' = {}
        /\ UNCHANGED <<run, runs, value>>
    BY <1>1 DEF EndSession, field
  <2>2. GIType'
    BY <2>1, NothingWaits DEF GIType
  <2> QED  BY <2>1, <2>2, NothingWaits DEF OrderInv
<1>2. CASE UNCHANGED <<events, high, spont, up, run, runs, value, ended>>
  BY <1>2 DEF GIType, OrderInv
<1>3. CASE \/ SlaveReceives \/ MasterTick \/ NoConfirmation \/ StartMaster \/ Connect \/ ConnectFails
           \/ InstanceTick \/ Silence \/ UNCHANGED vars
  BY <1>2, <1>3 DEF SlaveReceives, MasterTick, NoConfirmation, MasterTickFrom, StartMaster, Connect,
     ConnectFails, EndProcess, InstanceTick, GetItems, AskGI, GIAsked, Silence, vars, slave, master,
     field
<1>4. CASE LinkLost
  BY <1>1, <1>4 DEF LinkLost
<1>5. CASE TerminateChild
  <2>1. CASE EndProcess
    BY <1>2, <1>5, <2>1 DEF TerminateChild, EndProcess, slave, field
  <2>2. CASE EndSession
    BY <1>1, <1>5, <2>2 DEF TerminateChild
  <2> QED  BY <1>5, <2>1, <2>2 DEF TerminateChild
<1> QED
  BY <1>3, <1>4, <1>5, NextOfField, NextOfTick, NextOfTransmit, NextOfReceipt
     DEF Next, FieldStep, SlaveStep, MasterStep

LEMMA InitOrder == Init => GIType /\ OrderInv
<1> SUFFICES ASSUME Init PROVE GIType /\ OrderInv
  OBVIOUS
<1>1. GIType
  BY NothingWaits DEF Init, GIType
<1> QED  BY <1>1, NothingWaits DEF Init, OrderInv

\* TerminationIsLast: between the field and the master the items of a run and its termination
\* are never in the wrong order, on a queue or on two of them.
THEOREM TerminationComesLast == Spec => []TerminationIsLast
<1>1. OrderInv => TerminationIsLast
  <2> SUFFICES ASSUME OrderInv, NEW r \in ended, NEW q \in {events, high, spont, up},
                      NEW i \in 1..Len(q), q[i].kind = "value", q[i].run = r
               PROVE  FALSE
    BY DEF TerminationIsLast
  <2>1. IsValue(q[i])
    BY DEF IsValue
  <2>2. CASE q = high
    BY <2>1, <2>2 DEF OrderInv, Plain
  <2>3. CASE q \in {events, spont, up}
    <3>1. Sound(q, runs, run, ended)
      BY <2>3 DEF OrderInv
    <3> QED  BY <2>1, <3>1 DEF Sound
  <2> QED  BY <2>2, <2>3
<1> QED  BY <1>1, InitOrder, NextOrder, PTL DEF Spec
=============================================================================
