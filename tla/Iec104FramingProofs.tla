------------------------- MODULE Iec104FramingProofs -------------------------
(***************************************************************************)
(* Theorems about Iec104Framing, for all frames and however the stream is  *)
(* cut.  The bytes not handed over yet are one sequence, from the buffer   *)
(* of the link to the socket; lemmas about it come first, then one lemma   *)
(* per step for FramingInv.                                                *)
(***************************************************************************)
EXTENDS Iec104Framing, TLAPS

\* The frame in the buffer is one byte short at least, and left counts them.
BufferCounts ==
    \/ buf = <<>> /\ left = 0
    \/ buf # <<>> /\ left > 0 /\ Len(buf) + left = Size(Len(got) + 1)

\* FramingInv: inductive; it implies FramesWhole.
FramingInv == TypeOK /\ FramesWhole /\ BufferCounts

-----------------------------------------------------------------------------
(* Sequences. *)

LEMMA SameSequence ==
    ASSUME NEW S, NEW s \in Seq(S), NEW t \in Seq(S), Len(s) = Len(t),
           \A i \in 1..Len(s) : s[i] = t[i]
    PROVE  s = t
  BY SMTT(30)

\* The parts a sequence is cut into.
LEMMA Cut ==
    ASSUME NEW S, NEW s \in Seq(S), NEW n \in 0..Len(s)
    PROVE  /\ First(s, n) \in Seq(S) /\ Without(s, n) \in Seq(S)
           /\ Len(First(s, n)) = n /\ Len(Without(s, n)) = Len(s) - n
           /\ \A i \in 1..n : First(s, n)[i] = s[i]
           /\ \A i \in 1..(Len(s) - n) : Without(s, n)[i] = s[n + i]
  BY DEF First, Without

LEMMA CutJoined ==
    ASSUME NEW S, NEW s \in Seq(S), NEW n \in 0..Len(s)
    PROVE  First(s, n) \o Without(s, n) = s
<1> DEFINE a == First(s, n)
           b == Without(s, n)
<1>1. PICK l \in Nat : l = Len(s)  OBVIOUS
<1>2. /\ a \in Seq(S) /\ b \in Seq(S) /\ Len(a) = n /\ Len(b) = l - n
      /\ \A i \in 1..n : a[i] = s[i]
      /\ \A i \in 1..(l - n) : b[i] = s[n + i]
  BY <1>1, Cut
<1> HIDE DEF a, b
<1>3. n \in Nat /\ n <= l  BY <1>1
<1>4. a \o b \in Seq(S) /\ Len(a \o b) = l
  <2>1. a \o b \in Seq(S) /\ Len(a \o b) = Len(a) + Len(b)
    <3>1. a \in Seq(S) /\ b \in Seq(S)  BY <1>2
    <3> QED  BY <3>1, SMTT(20)
  <2>2. n + (l - n) = l  BY <1>3
  <2> QED  BY <1>2, <2>1, <2>2, Zenon
<1>5. ASSUME NEW i \in 1..l PROVE (a \o b)[i] = s[i]
  <2>1. CASE i <= n
    <3>1. i \in 1..n  BY <1>3, <2>1
    <3> QED  BY <1>2, <3>1
  <2>2. CASE i > n
    <3>1. i - n \in 1..(l - n) /\ n + (i - n) = i  BY <1>3, <2>2
    <3>2. (a \o b)[n + (i - n)] = b[i - n]  BY <1>2, <1>3, <3>1
    <3> QED  BY <1>2, <3>1, <3>2
  <2>3. i <= n \/ i > n  BY <1>3
  <2> QED  BY <2>1, <2>2, <2>3, Zenon
<1>6. a \o b = s  BY <1>1, <1>4, <1>5, SameSequence
<1> QED  BY <1>6 DEF a, b

\* A sequence and what it was put before are its parts.
LEMMA PartsOfJoined ==
    ASSUME NEW S, NEW s \in Seq(S), NEW t \in Seq(S), Len(s) > 0
    PROVE  /\ Len(s) <= Len(s \o t) /\ s \o t # <<>>
           /\ First(s \o t, Len(s)) = s /\ Without(s \o t, Len(s)) = t
<1>1. PICK l \in Nat, k \in Nat : l = Len(s) /\ k = Len(t)  OBVIOUS
<1> DEFINE u == s \o t
<1>2. /\ u \in Seq(S) /\ Len(u) = l + k
      /\ \A i \in 1..l : u[i] = s[i]
      /\ \A i \in 1..k : u[l + i] = t[i]
  BY <1>1
<1> HIDE DEF u
<1>3. l > 0  BY <1>1
<1>4. l <= Len(u) /\ u # <<>> /\ l \in 0..Len(u) /\ Len(u) - l = k  BY <1>2, <1>3
<1>5. /\ First(u, l) \in Seq(S) /\ Without(u, l) \in Seq(S)
      /\ Len(First(u, l)) = l /\ Len(Without(u, l)) = k
      /\ \A i \in 1..l : First(u, l)[i] = u[i]
      /\ \A i \in 1..k : Without(u, l)[i] = u[l + i]
  BY <1>2, <1>4, Cut
<1>6. First(u, l) = s  BY <1>1, <1>2, <1>5, SameSequence
<1>7. Without(u, l) = t  BY <1>1, <1>2, <1>5, SameSequence
<1> QED  BY <1>1, <1>4, <1>6, <1>7, Zenon DEF u

-----------------------------------------------------------------------------
(* The bytes that remain. *)

LEMMA ByteFields ==
    \A b \in Byte : \E f \in 1..Len(Lengths), i \in Nat \ {0} : b = <<f, i>>
<1>1. \A b \in Byte : /\ b[1] \in 1..Len(Lengths) /\ b[2] \in Nat \ {0}
                     /\ b = <<b[1], b[2]>>
  BY DEF Byte
<1> QED  BY <1>1, Zenon

LEMMA SizeType ==
    ASSUME NEW f \in 1..Len(Lengths)
    PROVE  /\ Lengths[f] \in Nat /\ Header \in Nat \ {0, 1}
           /\ Size(f) \in Nat \ {0, 1} /\ Size(f) = Header + Lengths[f]
           /\ Bytes(f) \in Seq(Byte) /\ Len(Bytes(f)) = Size(f)
           /\ \A i \in 1..Size(f) : Bytes(f)[i] = <<f, i>>
<1>1. Lengths[f] \in Nat /\ Header \in Nat \ {0, 1}  BY FramingAssumption
<1>2. Size(f) \in Nat \ {0, 1} /\ Size(f) = Header + Lengths[f]  BY <1>1 DEF Size
<1>3. PICK n \in Nat : n = Size(f)  BY <1>2
<1>4. Bytes(f) = [i \in 1..n |-> <<f, i>>]  BY <1>3 DEF Bytes
<1>5. \A i \in 1..n : <<f, i>> \in Byte  BY DEF Byte
<1>6. Bytes(f) \in Seq(Byte) /\ Len(Bytes(f)) = n  BY <1>4, <1>5
<1> QED  BY <1>1, <1>2, <1>3, <1>4, <1>6

\* A frame that is there whole is the next one, and the others remain.
LEMMA FrameTaken ==
    ASSUME NEW s \in Seq(Byte), NEW n \in Nat, NEW last \in 0..Len(Lengths),
           Remains(s, n, last), s # <<>>, NEW z, z = Size(n + 1), z <= Len(s)
    PROVE  /\ n + 1 \in 1..Len(Lengths) /\ z \in Nat
           /\ First(s, z) = Bytes(n + 1)
           /\ Remains(Without(s, z), n + 1, last)
<1> DEFINE f == n + 1
           u == Without(s, z)
<1>1. PICK l \in Nat \ {0} : l = Len(s)  OBVIOUS
<1>2. /\ s[1] = <<f, 1>> /\ s[l] = <<last, Size(last)>>
      /\ \A i, j \in 1..l : i <= j =>
            /\ s[i][2] + (j - i) <= Size(s[i][1]) => s[j] = <<s[i][1], s[i][2] + (j - i)>>
            /\ s[i][2] + (j - i) = Size(s[i][1]) + 1 => s[j] = <<s[i][1] + 1, 1>>
  BY <1>1, Zenon DEF Remains, InSequence
<1>3. f \in 1..Len(Lengths)
  <2>1. s[1] \in Byte  BY <1>1
  <2> QED  BY <1>2, <2>1 DEF Byte
<1>4. z \in Nat /\ z > 0 /\ z <= l  BY <1>1, <1>3, SizeType
<1>5. ASSUME NEW j \in 1..l PROVE /\ j <= z => s[j] = <<f, j>>
                                  /\ j = z + 1 => s[j] = <<f + 1, 1>>
  <2>1. 1 \in 1..l /\ 1 <= j /\ 1 + (j - 1) = j  BY <1>1
  <2>2. s[1][1] = f /\ s[1][2] = 1  BY <1>2
  <2>3. /\ 1 + (j - 1) <= Size(f) => s[j] = <<f, 1 + (j - 1)>>
        /\ 1 + (j - 1) = Size(f) + 1 => s[j] = <<f + 1, 1>>
    BY <1>2, <2>1, <2>2, Zenon
  <2> QED  BY <2>1, <2>3, Zenon
<1>6. First(s, z) = Bytes(f)
  <2>1. z \in 0..Len(s)  BY <1>1, <1>4
  <2>2. First(s, z) \in Seq(Byte) /\ Len(First(s, z)) = z /\ \A i \in 1..z : First(s, z)[i] = s[i]
    BY <2>1, Cut
  <2>3. Bytes(f) \in Seq(Byte) /\ Len(Bytes(f)) = z /\ \A i \in 1..z : Bytes(f)[i] = <<f, i>>
    BY <1>3, SizeType
  <2>4. \A i \in 1..z : i \in 1..l /\ i <= z  BY <1>4
  <2>5. \A i \in 1..z : First(s, z)[i] = Bytes(f)[i]  BY <1>5, <2>2, <2>3, <2>4, Zenon
  <2> QED  BY <2>2, <2>3, <2>5, SameSequence
<1>7. /\ u \in Seq(Byte) /\ Len(u) = l - z
      /\ \A i \in 1..(l - z) : u[i] = s[z + i]
  <2>1. z \in 0..Len(s)  BY <1>1, <1>4
  <2>2. /\ u \in Seq(Byte) /\ Len(u) = Len(s) - z
        /\ \A i \in 1..(Len(s) - z) : u[i] = s[z + i]
    BY <2>1, Cut
  <2> QED  BY <1>1, <2>2, Zenon
<1> HIDE DEF u, f
<1>8. CASE z = l
  <2>1. u = <<>>
    <3>1. Len(u) = 0  BY <1>4, <1>7, <1>8
    <3> QED  BY <1>7, <3>1
  <2>2. s[l] = <<f, l>>  BY <1>4, <1>5, <1>8
  <2>3. f = last  BY <1>2, <2>2
  <2> QED  BY <1>3, <1>4, <1>6, <2>1, <2>3 DEF Remains, u, f
<1>9. CASE z < l
  <2>1. u # <<>>
    <3>1. Len(u) > 0  BY <1>4, <1>7, <1>9
    <3> QED  BY <3>1
  <2>2. u[1] = <<f + 1, 1>>
    <3>1. 1 \in 1..(l - z) /\ z + 1 \in 1..l  BY <1>4, <1>9
    <3>2. u[1] = s[z + 1] /\ s[z + 1] = <<f + 1, 1>>  BY <1>5, <1>7, <3>1
    <3> QED  BY <3>2
  <2>3. u[l - z] = <<last, Size(last)>>
    <3>1. l - z \in 1..(l - z) /\ z + (l - z) = l  BY <1>4, <1>9
    <3> QED  BY <1>2, <1>7, <3>1, Zenon
  <2>4. ASSUME NEW i \in 1..(l - z), NEW j \in 1..(l - z), i <= j
        PROVE  /\ u[i][2] + (j - i) <= Size(u[i][1]) => u[j] = <<u[i][1], u[i][2] + (j - i)>>
               /\ u[i][2] + (j - i) = Size(u[i][1]) + 1 => u[j] = <<u[i][1] + 1, 1>>
    <3>1. /\ z + i \in 1..l /\ z + j \in 1..l /\ z + i <= z + j
          /\ (z + j) - (z + i) = j - i
      <4>1. i \in Nat /\ j \in Nat /\ i <= l - z /\ j <= l - z /\ 1 <= i /\ 1 <= j  BY <1>4
      <4>2. z + i <= l /\ z + j <= l /\ 1 <= z + i /\ 1 <= z + j  BY <1>4, <4>1
      <4>3. z + i <= z + j /\ (z + j) - (z + i) = j - i  BY <1>4, <2>4, <4>1
      <4>4. z + i \in Nat /\ z + j \in Nat  BY <1>4, <4>1
      <4> QED  BY <4>2, <4>3, <4>4
    <3>2. u[i] = s[z + i] /\ u[j] = s[z + j]  BY <1>7
    <3> DEFINE x == z + i
               y == z + j
    <3> HIDE DEF x, y
    <3>3. /\ s[x][2] + (y - x) <= Size(s[x][1]) => s[y] = <<s[x][1], s[x][2] + (y - x)>>
          /\ s[x][2] + (y - x) = Size(s[x][1]) + 1 => s[y] = <<s[x][1] + 1, 1>>
      BY <1>2, <3>1, Zenon DEF x, y
    <3> QED  BY <3>1, <3>2, <3>3, Zenon DEF x, y
  <2>5. InSequence(u)  BY <1>7, <2>4, Zenon DEF InSequence
  <2>6. Remains(u, f, last)  BY <1>7, <2>1, <2>2, <2>3, <2>5, Zenon DEF Remains
  <2> QED  BY <1>3, <1>4, <1>6, <2>6 DEF u, f
<1> QED  BY <1>4, <1>8, <1>9
\* A frame that is written comes after all the others.
LEMMA FrameAdded ==
    ASSUME NEW s \in Seq(Byte), NEW n \in Nat, NEW last \in Nat, last + 1 \in 1..Len(Lengths),
           Remains(s, n, last)
    PROVE  Remains(s \o Bytes(last + 1), n, last + 1)
<1> DEFINE f == last + 1
           t == Bytes(f)
           u == s \o t
<1>1. PICK z \in Nat \ {0, 1} : z = Size(f)  BY SizeType
<1>2. t \in Seq(Byte) /\ Len(t) = z /\ \A i \in 1..z : t[i] = <<f, i>>  BY <1>1, SizeType
<1>3. PICK l \in Nat : l = Len(s)  OBVIOUS
<1> HIDE DEF t
<1>4. /\ u \in Seq(Byte) /\ Len(u) = l + z
      /\ \A i \in 1..l : u[i] = s[i]
      /\ \A i \in 1..z : u[l + i] = t[i]
      /\ \A i \in 1..(l + z) : i \in 1..l \/ (i - l \in 1..z /\ u[i] = t[i - l])
  <2>1. z \in Nat  OBVIOUS
  <2>2. t \in Seq(Byte) /\ Len(t) = z /\ Len(s) = l  BY <1>2, <1>3, Zenon
  <2> QED  BY <2>1, <2>2, SMTT(30)
<1> HIDE DEF u, f
<1>5. \A i \in 1..(l + z) : i \in 1..l \/ (i - l \in 1..z /\ u[i] = <<f, i - l>>)
  BY <1>2, <1>4, Zenon
<1>6. u # <<>> /\ u[l + z] = <<f, Size(f)>>
  <2>1. l + z > 0 /\ z \in 1..z  OBVIOUS
  <2>2. u # <<>>  BY <1>4, <2>1
  <2> QED  BY <1>1, <1>2, <1>4, <2>1, <2>2, Zenon
<1>7. ASSUME NEW i \in 1..(l + z), NEW j \in 1..(l + z), i <= j, ~(i \in 1..l)
      PROVE  /\ u[i][2] + (j - i) <= Size(u[i][1]) => u[j] = <<u[i][1], u[i][2] + (j - i)>>
             /\ u[i][2] + (j - i) # Size(u[i][1]) + 1
  <2>1. i - l \in 1..z /\ u[i] = <<f, i - l>>  BY <1>5, <1>7, Zenon
  <2>2. ~(j \in 1..l)  BY <1>7
  <2>3. j - l \in 1..z /\ u[j] = <<f, j - l>>  BY <1>5, <2>2, Zenon
  <2>4. u[i][1] = f /\ u[i][2] = i - l  BY <2>1
  <2>5. (i - l) + (j - i) = j - l /\ j - l # z + 1  BY <2>3
  <2> QED  BY <1>1, <2>3, <2>4, <2>5, Zenon
<1>8. CASE s = <<>>
  <2>1. l = 0  BY <1>3, <1>8
  <2>2. n = last  BY <1>8 DEF Remains
  <2>3. u[1] = <<n + 1, 1>>
    <3>1. 1 \in 1..z /\ l + 1 = 1  BY <2>1
    <3>2. u[1] = <<f, 1>>  BY <1>2, <1>4, <3>1, Zenon
    <3> QED  BY <2>2, <3>2 DEF f
  <2>4. \A i \in 1..(l + z) : ~(i \in 1..l)  BY <2>1
  <2>5. InSequence(u)  BY <1>4, <1>7, <2>4, Zenon DEF InSequence
  <2> QED  BY <1>4, <1>6, <2>3, <2>5, Zenon DEF Remains, u, t, f
<1>9. CASE s # <<>>
  <2>1. /\ s[1] = <<n + 1, 1>> /\ s[l] = <<last, Size(last)>> /\ l \in 1..l
        /\ \A i, j \in 1..l : i <= j =>
              /\ s[i][2] + (j - i) <= Size(s[i][1]) => s[j] = <<s[i][1], s[i][2] + (j - i)>>
              /\ s[i][2] + (j - i) = Size(s[i][1]) + 1 => s[j] = <<s[i][1] + 1, 1>>
    <3>1. l > 0  BY <1>3, <1>9
    <3>2. l \in 1..l  BY <3>1
    <3> QED  BY <1>3, <1>9, <3>2, Zenon DEF Remains, InSequence
  <2>2. ASSUME NEW i \in 1..l, NEW j \in 1..(l + z), ~(j \in 1..l)
        PROVE  /\ ~(s[i][2] + (j - i) <= Size(s[i][1]))
               /\ s[i][2] + (j - i) = Size(s[i][1]) + 1 => u[j] = <<s[i][1] + 1, 1>>
    <3>1. PICK g \in 1..Len(Lengths), k \in Nat \ {0} : s[i] = <<g, k>>
      <4>1. s[i] \in Byte  BY <1>3
      <4> QED  BY <4>1, ByteFields, Zenon
    <3>2. s[i][1] = g /\ s[i][2] = k  BY <3>1
    <3>3. PICK y \in Nat : y = Size(g)  BY SizeType
    <3>4. i <= l /\ j > l /\ j <= l + z  BY <2>2
    <3>5. /\ k + (l - i) <= y => s[l] = <<g, k + (l - i)>>
          /\ k + (l - i) = y + 1 => s[l] = <<g + 1, 1>>
      BY <2>1, <3>2, <3>3, <3>4, Zenon
    <3>6. CASE k + (l - i) <= y
      <4>1. <<g, k + (l - i)>> = <<last, Size(last)>>  BY <2>1, <3>5, <3>6, Zenon
      <4>2. g = last /\ k + (l - i) = Size(last)  BY <4>1
      <4>3. k + (l - i) = y  BY <3>3, <4>2, Zenon
      <4>4. k + (j - i) = y + (j - l)  BY <4>3
      <4>5. ~(k + (j - i) <= y)  BY <3>4, <4>4
      <4>6. ASSUME k + (j - i) = y + 1 PROVE u[j] = <<g + 1, 1>>
        <5>1. j - l = 1  BY <4>4, <4>6
        <5>2. u[j] = <<f, 1>>  BY <1>5, <2>2, <5>1, Zenon
        <5> QED  BY <4>2, <5>2 DEF f
      <4> QED  BY <3>2, <3>3, <4>5, <4>6, Zenon
    <3>7. CASE k + (l - i) > y
      <4>1. k + (j - i) > y + 1  BY <3>4, <3>7
      <4>2. ~(k + (j - i) <= y) /\ k + (j - i) # y + 1  BY <4>1
      <4> QED  BY <3>2, <3>3, <4>2, Zenon
    <3>8. k + (l - i) <= y \/ k + (l - i) > y  OBVIOUS
    <3> QED  BY <3>6, <3>7, <3>8, Zenon
  <2>3. ASSUME NEW i \in 1..(l + z), NEW j \in 1..(l + z), i <= j
        PROVE  /\ u[i][2] + (j - i) <= Size(u[i][1]) => u[j] = <<u[i][1], u[i][2] + (j - i)>>
               /\ u[i][2] + (j - i) = Size(u[i][1]) + 1 => u[j] = <<u[i][1] + 1, 1>>
    <3>1. CASE ~(i \in 1..l)  BY <1>7, <2>3, <3>1, Zenon
    <3>2. CASE i \in 1..l /\ j \in 1..l
      <4>1. /\ s[i][2] + (j - i) <= Size(s[i][1]) => s[j] = <<s[i][1], s[i][2] + (j - i)>>
            /\ s[i][2] + (j - i) = Size(s[i][1]) + 1 => s[j] = <<s[i][1] + 1, 1>>
        BY <2>1, <2>3, <3>2, Zenon
      <4>2. u[i] = s[i] /\ u[j] = s[j]  BY <1>4, <3>2, Zenon
      <4> QED  BY <4>1, <4>2, Zenon
    <3>3. CASE i \in 1..l /\ ~(j \in 1..l)
      <4>1. /\ ~(s[i][2] + (j - i) <= Size(s[i][1]))
            /\ s[i][2] + (j - i) = Size(s[i][1]) + 1 => u[j] = <<s[i][1] + 1, 1>>
        BY <2>2, <3>3, Zenon
      <4>2. u[i] = s[i]  BY <1>4, <3>3, Zenon
      <4> QED  BY <4>1, <4>2, Zenon
    <3> QED  BY <3>1, <3>2, <3>3, Zenon
  <2>4. InSequence(u)  BY <1>4, <2>3, Zenon DEF InSequence
  <2>5. u[1] = <<n + 1, 1>>
    <3>1. 1 \in 1..l  BY <2>1
    <3> QED  BY <1>4, <2>1, <3>1, Zenon
  <2> QED  BY <1>4, <1>6, <2>4, <2>5, Zenon DEF Remains, u, t, f
<1> QED  BY <1>8, <1>9, Zenon
-----------------------------------------------------------------------------
(* The steps. *)

\* The bytes that are not in a frame handed over.
LEMMA Ahead ==
    ASSUME FramingInv
    PROVE  /\ socket \in Seq(Byte) /\ input \in Seq(Byte) /\ buf \in Seq(Byte)
           /\ got \in Seq(Seq(Byte)) /\ Len(got) \in Nat
           /\ left \in Nat /\ written \in 0..Len(Lengths)
           /\ buf \o input \o socket \in Seq(Byte)
           /\ Remains(buf \o input \o socket, Len(got), written)
<1>1. /\ socket \in Seq(Byte) /\ input \in Seq(Byte) /\ buf \in Seq(Byte)
      /\ got \in Seq(Seq(Byte)) /\ left \in Nat /\ written \in 0..Len(Lengths)
  BY DEF FramingInv, TypeOK
<1>2. Len(got) \in Nat /\ buf \o input \o socket \in Seq(Byte)  BY <1>1
<1> QED  BY <1>1, <1>2 DEF FramingInv, FramesWhole

LEMMA WriteFraming ==
    ASSUME FramingInv, Write
    PROVE  FramingInv'
<1>1. /\ written < Len(Lengths) /\ written' = written + 1
      /\ socket' = socket \o Bytes(written + 1)
      /\ UNCHANGED <<input, low, reading, buf, left, got, ended>>
  BY DEF Write
<1>2. Len(Lengths) \in Nat  BY FramingAssumption
<1>3. written \in Nat /\ written + 1 \in 1..Len(Lengths) /\ written' \in 0..Len(Lengths)
  BY <1>1, <1>2, Ahead
<1>4. Bytes(written + 1) \in Seq(Byte)  BY <1>3, SizeType
<1>5. socket' \in Seq(Byte)  BY <1>1, <1>4, Ahead
<1>6. TypeOK'  BY <1>1, <1>3, <1>5 DEF FramingInv, TypeOK
<1>7. Remains((buf \o input \o socket) \o Bytes(written + 1), Len(got), written + 1)
  BY <1>3, Ahead, FrameAdded
<1>8. (buf \o input \o socket) \o Bytes(written + 1)
        = buf \o input \o (socket \o Bytes(written + 1))
  <2>1. buf \o input \in Seq(Byte) /\ socket \in Seq(Byte)  BY Ahead
  <2> QED  BY <1>4, <2>1, SMTT(30)
<1>9. FramesWhole'  BY <1>1, <1>7, <1>8 DEF FramingInv, FramesWhole
<1>10. BufferCounts'  BY <1>1 DEF FramingInv, BufferCounts
<1> QED  BY <1>6, <1>9, <1>10 DEF FramingInv

LEMMA ArriveFraming ==
    ASSUME FramingInv, NEW n \in 1..Len(socket), Arrive(n)
    PROVE  FramingInv'
<1> DEFINE more == First(socket, n)
           rest == Without(socket, n)
<1>1. /\ input' = input \o more /\ socket' = rest /\ reading' = (Len(input') >= low)
      /\ UNCHANGED <<written, low, buf, left, got, ended>>
  BY DEF Arrive
<1>2. more \in Seq(Byte) /\ rest \in Seq(Byte) /\ more \o rest = socket
  <2>1. n \in 0..Len(socket) /\ socket \in Seq(Byte)  BY Ahead
  <2> QED  BY <2>1, Cut, CutJoined
<1> HIDE DEF more, rest
<1>a. socket \in Seq(Byte) /\ input \in Seq(Byte) /\ buf \in Seq(Byte)  BY Ahead
<1>b. more \in Seq(Byte) /\ rest \in Seq(Byte)  BY <1>2
<1>3. input' \in Seq(Byte)  BY <1>1, <1>2, Ahead
<1>4. reading' \in BOOLEAN  BY <1>1
<1>5. TypeOK'  BY <1>1, <1>2, <1>3, <1>4 DEF FramingInv, TypeOK
<1>6. buf \o (input \o more) \o rest = buf \o input \o socket
  <2>1. buf \o (input \o more) = (buf \o input) \o more  BY <1>a, <1>b, SMTT(30)
  <2>2. buf \o input \in Seq(Byte)  BY <1>a
  <2>3. ((buf \o input) \o more) \o rest = (buf \o input) \o (more \o rest)
    BY <1>b, <2>2, SMTT(30)
  <2> QED  BY <1>2, <2>1, <2>3, Zenon
<1>7. FramesWhole'  BY <1>1, <1>6 DEF FramingInv, FramesWhole
<1>8. BufferCounts'  BY <1>1 DEF FramingInv, BufferCounts
<1> QED  BY <1>5, <1>7, <1>8 DEF FramingInv

\* A step that takes n bytes of the input, behind those of the buffer: when these
\* are a frame it is handed over, otherwise they wait in the buffer.
LEMMA FrameHandedOver ==
    ASSUME FramingInv, NEW n \in 1..Len(input), NEW frame, frame = buf \o First(input, n),
           Len(frame) = Size(Len(got) + 1), FrameRecv(frame), input' = Without(input, n),
           UNCHANGED <<written, socket, reading, ended>>
    PROVE  FramingInv'
<1> DEFINE more == First(input, n)
           rest == Without(input, n)
           all == buf \o input \o socket
           ahead == rest \o socket
<1>1. more \in Seq(Byte) /\ rest \in Seq(Byte) /\ more \o rest = input /\ Len(more) = n
  <2>1. n \in 0..Len(input) /\ input \in Seq(Byte)  BY Ahead
  <2> QED  BY <2>1, Cut, CutJoined
<1>2. got' = Append(got, frame) /\ buf' = <<>> /\ left' = 0 /\ low' = Header
      /\ input' = rest /\ UNCHANGED <<written, socket, reading, ended>>
  BY DEF FrameRecv
<1>3. frame = buf \o more  OBVIOUS
<1>a. socket \in Seq(Byte) /\ input \in Seq(Byte) /\ buf \in Seq(Byte)  BY Ahead
<1>b. more \in Seq(Byte) /\ rest \in Seq(Byte)  BY <1>1
<1> HIDE DEF more, rest
<1>4. frame \in Seq(Byte) /\ ahead \in Seq(Byte)  BY <1>a, <1>3, <1>b
<1>5. all = frame \o ahead
  <2>1. buf \o (more \o rest) = (buf \o more) \o rest  BY <1>a, <1>b, SMTT(30)
  <2>2. (frame \o rest) \o socket = frame \o (rest \o socket)
    BY <1>a, <1>4, <1>b, SMTT(30)
  <2> QED  BY <1>1, <1>3, <2>1, <2>2, Zenon
<1>6. all \in Seq(Byte) /\ Remains(all, Len(got), written)  BY Ahead
<1> HIDE DEF all, ahead
<1> DEFINE z == Len(frame)
<1>7. z \in Nat /\ z > 0
  <2>1. n \in Nat \ {0}  BY <1>a
  <2>2. Len(buf) \in Nat /\ Len(frame) = Len(buf) + Len(more)  BY <1>a, <1>3, <1>b
  <2> QED  BY <1>1, <2>1, <2>2
<1>8. z <= Len(all) /\ all # <<>> /\ First(all, z) = frame /\ Without(all, z) = ahead
  BY <1>4, <1>5, <1>7, PartsOfJoined
<1>9. /\ Len(got) + 1 \in 1..Len(Lengths) /\ frame = Bytes(Len(got) + 1)
      /\ Remains(ahead, Len(got) + 1, written)
  <2>1. z = Size(Len(got) + 1)  OBVIOUS
  <2>2. Len(got) \in Nat /\ written \in 0..Len(Lengths)  BY Ahead
  <2> HIDE DEF z
  <2>3. /\ Len(got) + 1 \in 1..Len(Lengths) /\ First(all, z) = Bytes(Len(got) + 1)
        /\ Remains(Without(all, z), Len(got) + 1, written)
    BY <1>6, <1>8, <2>1, <2>2, FrameTaken
  <2> QED  BY <1>8, <2>3
<1>10. got' \in Seq(Seq(Byte)) /\ Len(got') = Len(got) + 1
       /\ \A i \in 1..Len(got') : got'[i] = Bytes(i)
  <2>1. got \in Seq(Seq(Byte)) /\ \A i \in 1..Len(got) : got[i] = Bytes(i)
    BY Ahead DEF FramingInv, FramesWhole
  <2>2. Len(got) \in Nat  BY <2>1
  <2> DEFINE g == Append(got, frame)
  <2>3. /\ g \in Seq(Seq(Byte)) /\ Len(g) = Len(got) + 1
        /\ \A i \in 1..Len(got) : g[i] = got[i]
        /\ g[Len(got) + 1] = frame
    BY <1>4, <2>1
  <2> HIDE DEF g
  <2>4. ASSUME NEW i \in 1..(Len(got) + 1) PROVE g[i] = Bytes(i)
    <3>1. i \in 1..Len(got) \/ i = Len(got) + 1  BY <2>2
    <3> QED  BY <1>9, <2>1, <2>3, <3>1, Zenon
  <2> QED  BY <1>2, <2>3, <2>4, Zenon DEF g
<1>11. TypeOK'
  <2>1. Header \in Nat \ {0}  BY FramingAssumption
  <2> QED  BY <1>1, <1>2, <1>10, <2>1 DEF FramingInv, TypeOK
<1>12. FramesWhole'
  <2>1. buf' \o input' \o socket' = ahead  BY <1>1, <1>2 DEF ahead
  <2> QED  BY <1>2, <1>9, <1>10, <2>1 DEF FramesWhole
<1> QED  BY <1>2, <1>11, <1>12 DEF FramingInv, BufferCounts

LEMMA FrameGrows ==
    ASSUME FramingInv, NEW n \in 1..Len(input), NEW frame, frame = buf \o First(input, n),
           NEW missing \in Nat \ {0}, Len(frame) + missing = Size(Len(got) + 1),
           NEW mark \in Nat \ {0}, KeepReading(frame, missing, mark),
           input' = Without(input, n), UNCHANGED <<written, socket, reading, ended>>
    PROVE  FramingInv'
<1> DEFINE more == First(input, n)
           rest == Without(input, n)
<1>1. more \in Seq(Byte) /\ rest \in Seq(Byte) /\ more \o rest = input /\ Len(more) = n
  <2>1. n \in 0..Len(input) /\ input \in Seq(Byte)  BY Ahead
  <2> QED  BY <2>1, Cut, CutJoined
<1>2. buf' = frame /\ left' = missing /\ low' = mark /\ got' = got
      /\ input' = rest /\ UNCHANGED <<written, socket, reading, ended>>
  BY DEF KeepReading
<1>3. frame = buf \o more  OBVIOUS
<1>a. socket \in Seq(Byte) /\ input \in Seq(Byte) /\ buf \in Seq(Byte)  BY Ahead
<1>b. more \in Seq(Byte) /\ rest \in Seq(Byte)  BY <1>1
<1> HIDE DEF more, rest
<1>4. frame \in Seq(Byte) /\ frame # <<>>
  <2>1. n \in Nat \ {0}  BY <1>a
  <2>3. Len(buf) \in Nat /\ Len(frame) = Len(buf) + Len(more) /\ frame \in Seq(Byte)
    BY <1>a, <1>3, <1>b
  <2>2. Len(frame) # 0  BY <1>1, <2>1, <2>3
  <2> QED  BY <2>2, <2>3
<1>5. frame \o rest \o socket = buf \o input \o socket
  <2>1. buf \o (more \o rest) = (buf \o more) \o rest  BY <1>a, <1>b, SMTT(30)
  <2> QED  BY <1>1, <1>3, <2>1, Zenon
<1>6. TypeOK'  BY <1>1, <1>2, <1>4 DEF FramingInv, TypeOK
<1>7. FramesWhole'  BY <1>2, <1>5 DEF FramingInv, FramesWhole
<1>8. BufferCounts'
  <2>1. missing > 0  OBVIOUS
  <2>2. Len(buf') + left' = Size(Len(got') + 1)  BY <1>2, Zenon
  <2> QED  BY <1>2, <1>4, <2>1, <2>2 DEF BufferCounts
<1> QED  BY <1>6, <1>7, <1>8 DEF FramingInv

\* The length in the first byte of the input is that of the frame it starts.
LEMMA HeaderFraming ==
    ASSUME FramingInv, ReadHeader
    PROVE  FramingInv'
<1> DEFINE g == Len(got) + 1
           body == BodyLength(input[1])
           frame == First(input, Header)
<1>1. /\ left = 0 /\ Len(input) >= Header
      /\ IF body = 0 THEN FrameRecv(frame) ELSE KeepReading(frame, body, body)
      /\ input' = Without(input, Header) /\ UNCHANGED <<written, socket, reading, ended>>
  BY DEF ReadHeader
<1>2. buf = <<>>  BY <1>1 DEF FramingInv, BufferCounts
<1>3. Header \in Nat \ {0, 1} /\ Header \in 1..Len(input)
  <2>1. Header \in Nat \ {0, 1} /\ Len(input) \in Nat  BY Ahead, FramingAssumption
  <2> QED  BY <1>1, <2>1
<1>4. input[1] = <<g, 1>> /\ g \in 1..Len(Lengths)
  <2> DEFINE all == buf \o input \o socket
  <2>1. all = input \o socket  BY <1>2, Ahead
  <2>2. 1 \in 1..Len(input)  BY <1>3
  <2>3. all # <<>> /\ all[1] = input[1]  BY <2>1, <2>2, Ahead
  <2>4. all[1] = <<g, 1>>  BY <2>3, Ahead, Zenon DEF Remains
  <2>5. input[1] \in Byte  BY <2>2, Ahead
  <2> QED  BY <2>3, <2>4, <2>5 DEF Byte
<1>5. body = Lengths[g] /\ body \in Nat /\ Size(g) = Header + body
  BY <1>4, SizeType DEF BodyLength
<1>6. frame = buf \o First(input, Header) /\ Len(frame) = Header
  <2>1. frame \in Seq(Byte) /\ Len(frame) = Header
    <3>1. Header \in 0..Len(input) /\ input \in Seq(Byte)  BY <1>3, Ahead
    <3> QED  BY <3>1, Cut
  <2> HIDE DEF frame
  <2>2. frame = <<>> \o frame  BY <2>1
  <2> QED  BY <1>2, <2>1, <2>2 DEF frame
<1> HIDE DEF body, frame
<1>7. CASE body = 0
  <2>1. Len(frame) = Size(g)  BY <1>3, <1>5, <1>6, <1>7
  <2>2. FrameRecv(frame)  BY <1>1, <1>7
  <2> QED  BY <1>1, <1>3, <1>6, <2>1, <2>2, FrameHandedOver
<1>8. CASE body # 0
  <2>1. Len(frame) + body = Size(g)  BY <1>5, <1>6
  <2>2. body \in Nat \ {0}  BY <1>5, <1>8
  <2>3. KeepReading(frame, body, body)  BY <1>1, <1>8
  <2> QED  BY <1>1, <1>3, <1>6, <2>1, <2>2, <2>3, FrameGrows
<1> QED  BY <1>7, <1>8

LEMMA BodyFraming ==
    ASSUME FramingInv, ReadBody
    PROVE  FramingInv'
<1> DEFINE n == Least(left, Len(input))
           frame == WithBody(First(input, n))
<1>1. /\ left > 0 /\ input # <<>>
      /\ IF n = left THEN FrameRecv(frame) ELSE KeepReading(frame, left - n, low)
      /\ input' = Without(input, n) /\ UNCHANGED <<written, socket, reading, ended>>
  BY DEF ReadBody
<1>2. n \in 1..Len(input) /\ n <= left /\ left \in Nat
  <2>1. Len(input) \in Nat \ {0} /\ left \in Nat  BY <1>1, Ahead
  <2> QED  BY <1>1, <2>1 DEF Least
<1>3. Len(buf) + left = Size(Len(got) + 1)  BY <1>1 DEF FramingInv, BufferCounts
<1> HIDE DEF n
<1>4. frame = buf \o First(input, n)  BY DEF WithBody
<1>5. Len(frame) = Len(buf) + n /\ Len(buf) \in Nat
  <2>1. First(input, n) \in Seq(Byte) /\ Len(First(input, n)) = n
    <3>1. n \in 0..Len(input) /\ input \in Seq(Byte)  BY <1>2, Ahead
    <3> QED  BY <3>1, Cut
  <2>2. buf \in Seq(Byte)  BY Ahead
  <2> DEFINE more == First(input, n)
  <2> HIDE DEF more
  <2>3. Len(buf \o more) = Len(buf) + Len(more) /\ Len(buf) \in Nat  BY <2>1, <2>2 DEF more
  <2> QED  BY <1>4, <2>1, <2>3, Zenon DEF more
<1> HIDE DEF frame
<1>6. CASE n = left
  <2>1. Len(frame) = Size(Len(got) + 1)  BY <1>3, <1>5, <1>6, Zenon
  <2>2. FrameRecv(frame)  BY <1>1, <1>6
  <2> QED  BY <1>1, <1>2, <1>4, <2>1, <2>2, FrameHandedOver
<1>7. CASE n # left
  <2>1. Len(frame) + (left - n) = Size(Len(got) + 1)
    <3>1. (Len(buf) + n) + (left - n) = Len(buf) + left  BY <1>2, <1>5
    <3> QED  BY <1>3, <1>5, <3>1, Zenon
  <2>2. left - n \in Nat \ {0} /\ low \in Nat \ {0}
    BY <1>2, <1>7 DEF FramingInv, TypeOK
  <2>3. KeepReading(frame, left - n, low)  BY <1>1, <1>7
  <2> QED  BY <1>1, <1>2, <1>4, <2>1, <2>2, <2>3, FrameGrows
<1> QED  BY <1>6, <1>7

LEMMA NextFraming == FramingInv /\ [Next]_vars => FramingInv'
<1> SUFFICES ASSUME FramingInv, [Next]_vars PROVE FramingInv'  OBVIOUS
<1>1. CASE UNCHANGED <<written, socket, input, low, buf, left, got>>
          /\ reading' \in BOOLEAN /\ ended' \in BOOLEAN
  BY <1>1 DEF FramingInv, TypeOK, FramesWhole, BufferCounts
<1>2. CASE ShortHeader \/ Return \/ UNCHANGED vars
  BY <1>1, <1>2 DEF ShortHeader, Return, vars, FramingInv, TypeOK
<1> QED
  BY <1>2, WriteFraming, ArriveFraming, HeaderFraming, BodyFraming DEF Next, Callback

\* WholeFrames: whatever frames the peer writes and however TCP cuts them, the link
\* is handed those frames, whole, in order and each once, and no byte is lost.
THEOREM WholeFrames == Spec => []FramesWhole
<1>1. Init => FramingInv
  <2> SUFFICES ASSUME Init PROVE FramingInv  OBVIOUS
  <2>1. /\ written = 0 /\ socket = <<>> /\ input = <<>> /\ low = Header /\ reading = FALSE
        /\ buf = <<>> /\ left = 0 /\ got = <<>> /\ ended = FALSE
    BY DEF Init
  <2>2. \A S : <<>> \in Seq(S)  OBVIOUS
  <2>3. 0 \in 0..Len(Lengths) /\ Header \in Nat \ {0}  BY FramingAssumption
  <2>4. TypeOK  BY <2>1, <2>2, <2>3 DEF TypeOK
  <2>5. <<>> \o <<>> \o <<>> = <<>> /\ Len(<<>>) = 0  BY SMT
  <2>6. FramesWhole  BY <2>1, <2>5 DEF FramesWhole, Remains
  <2> QED  BY <2>1, <2>4, <2>6 DEF FramingInv, BufferCounts
<1>2. FramingInv => FramesWhole  BY DEF FramingInv
<1> QED  BY <1>1, <1>2, NextFraming, PTL DEF Spec
=============================================================================
