--------------------------- MODULE HostSide_proofs ----------------------------
(***************************************************************************)
(* The host's side of the SoC.  The bridge: for every credit count, every  *)
(* ring at least as deep and every set of addresses and values, while a    *)
(* host restarts only a drained bridge, the beats the SoC has in flight    *)
(* are those the bridge holds, the ring is never overrun, and bridge and   *)
(* DRAM together are a MemoryFace.  The runtime: for every number of       *)
(* threads, layout, program and kernel, what the program holds is what it  *)
(* reads back, and a launch reports its own failures and its own log.      *)
(***************************************************************************)
EXTENDS Sg0Bridge, HostLaunch, RingTheorems

-----------------------------------------------------------------------------
(* What a beat reads behind the writes before it *)

\* The j-th beat writes address a.
Sets(P, j, a) == P[j].we /\ P[j].addr = a

\* What the i-th of the beats P reads at a, over a memory M
SeenIn(M, P, i, a) ==
  LET writes == {j \in 1 .. i - 1 : P[j].we /\ P[j].addr = a}
  IN  IF writes = {} THEN M[a]
      ELSE P[CHOOSE j \in writes : \A k \in writes : k <= j].data

\* The j-th is the last write to a before the i-th.
LastWrite(P, i, j, a) == Sets(P, j, a) /\ \A k \in j + 1 .. i - 1 : ~Sets(P, k, a)
NoWrite(P, i, a) == \A k \in 1 .. i - 1 : ~Sets(P, k, a)

\* Either no beat before writes a, or one is the last to; it decides.
LastDecides(M, P, i, a) ==
  /\ NoWrite(P, i, a) => SeenIn(M, P, i, a) = M[a]
  /\ \A j \in 1 .. i - 1 : LastWrite(P, i, j, a) => SeenIn(M, P, i, a) = P[j].data
  /\ NoWrite(P, i, a) \/ \E j \in 1 .. i - 1 : LastWrite(P, i, j, a)

\* It always does.
LEMMA SeenLast ==
  ASSUME NEW M, NEW P, NEW i \in Nat \ {0}, NEW a
  PROVE  LastDecides(M, P, i, a)
<1> DEFINE writes == {j \in 1 .. i - 1 : P[j].we /\ P[j].addr = a}
           last == CHOOSE j \in writes : \A k \in writes : k <= j
<1>1. SeenIn(M, P, i, a) = IF writes = {} THEN M[a] ELSE P[last].data
  BY DEF SeenIn
<1>2. \A j \in 1 .. i - 1 : j \in writes <=> Sets(P, j, a)
  BY DEF Sets
<1>3. writes \subseteq 0 .. i - 1 /\ writes \subseteq 1 .. i - 1
  OBVIOUS
<1>4. NoWrite(P, i, a) <=> writes = {}
  BY <1>2 DEF NoWrite
<1>5. ASSUME NEW j \in 1 .. i - 1, LastWrite(P, i, j, a)
      PROVE  SeenIn(M, P, i, a) = P[j].data
  <2>1. j \in writes
    BY <1>2, <1>5 DEF LastWrite
  <2>2. \A k \in writes : k <= j
    <3>1. ASSUME NEW k \in writes, ~(k <= j)
          PROVE  FALSE
      <4>1. k \in j + 1 .. i - 1 /\ k \in 1 .. i - 1
        BY <1>3, <3>1
      <4>. QED BY <1>2, <1>5, <3>1, <4>1 DEF LastWrite
    <3>. QED BY <3>1
  <2>3. last \in writes /\ \A k \in writes : k <= last
    BY <2>1, <2>2
  <2>4. last = j
    BY <1>3, <2>1, <2>2, <2>3
  <2>. QED BY <1>1, <2>1, <2>4
<1>6. ASSUME writes # {}
      PROVE  \E j \in 1 .. i - 1 : LastWrite(P, i, j, a)
  <2>1. PICK j \in writes : \A k \in writes : k <= j
    <3> HIDE DEF writes
    <3>1. i - 1 \in Nat
      OBVIOUS
    <3>. QED BY <1>3, <1>6, <3>1, Greatest
  <2>2. j \in 1 .. i - 1 /\ Sets(P, j, a)
    BY <1>2, <1>3
  <2>3. \A k \in j + 1 .. i - 1 : ~Sets(P, k, a)
    <3>1. ASSUME NEW k \in j + 1 .. i - 1, Sets(P, k, a)
          PROVE  FALSE
      <4>1. k \in 1 .. i - 1 /\ ~(k <= j)
        BY <2>2, <3>1
      <4>. QED BY <1>2, <2>1, <3>1, <4>1
    <3>. QED BY <3>1
  <2>. QED BY <2>2, <2>3 DEF LastWrite
<1> HIDE DEF writes, last
<1>. QED BY <1>1, <1>4, <1>5, <1>6 DEF LastDecides

\* The first beat reads the memory; each beat adds its own write.
LEMMA SeenStep ==
  ASSUME NEW M, NEW P, NEW a
  PROVE  /\ SeenIn(M, P, 1, a) = M[a]
         /\ \A i \in Nat \ {0} :
              SeenIn(M, P, i + 1, a) = IF Sets(P, i, a) THEN P[i].data ELSE SeenIn(M, P, i, a)
<1>1. SeenIn(M, P, 1, a) = M[a]
  <2>1. NoWrite(P, 1, a)
    BY DEF NoWrite
  <2>2. LastDecides(M, P, 1, a)
    BY SeenLast
  <2>. QED BY <2>1, <2>2 DEF LastDecides
<1>2. ASSUME NEW i \in Nat \ {0}
      PROVE  SeenIn(M, P, i + 1, a) = IF Sets(P, i, a) THEN P[i].data ELSE SeenIn(M, P, i, a)
  <2>1. PICK n \in Nat \ {0} : n = i + 1
    OBVIOUS
  <2>2. LastDecides(M, P, n, a) /\ LastDecides(M, P, i, a)
    BY SeenLast
  <2>3. CASE Sets(P, i, a)
    <3>1. i \in 1 .. n - 1 /\ LastWrite(P, n, i, a)
      BY <2>1, <2>3 DEF LastWrite
    <3>. QED BY <2>1, <2>2, <2>3, <3>1 DEF LastDecides
  <2>4. CASE ~Sets(P, i, a)
    <3>1. CASE NoWrite(P, i, a)
      <4>1. NoWrite(P, n, a)
        BY <2>1, <2>4, <3>1 DEF NoWrite
      <4>. QED BY <2>1, <2>2, <2>4, <3>1, <4>1 DEF LastDecides
    <3>2. CASE ~NoWrite(P, i, a)
      <4>1. PICK j \in 1 .. i - 1 : LastWrite(P, i, j, a)
        BY <2>2, <3>2 DEF LastDecides
      <4>2. j \in 1 .. n - 1 /\ LastWrite(P, n, j, a)
        BY <2>1, <2>4, <4>1 DEF LastWrite
      <4>. QED BY <2>1, <2>2, <2>4, <4>1, <4>2 DEF LastDecides
    <3>. QED BY <3>1, <3>2
  <2>. QED BY <2>3, <2>4
<1>. QED BY <1>1, <1>2

\* Q is P from its place s + 1 on, for n places.
Same(P, Q, s, n) == \A j \in 1 .. n : Q[j] = P[j + s]

\* Beats that come later change nothing for those before.
LEMMA SeenBefore ==
  ASSUME NEW M, NEW P, NEW Q, NEW a, NEW n \in Nat, Same(P, Q, 0, n), NEW i \in 1 .. n + 1
  PROVE  SeenIn(M, Q, i, a) = SeenIn(M, P, i, a)
<1>1. \A j \in 1 .. i - 1 : Q[j] = P[j]
  <2>1. \A j \in 1 .. i - 1 : j \in 1 .. n /\ j + 0 = j
    OBVIOUS
  <2>. QED BY <2>1 DEF Same
<1>2. \A j \in 1 .. i - 1 : Sets(Q, j, a) <=> Sets(P, j, a)
  BY <1>1 DEF Sets
<1>3. LastDecides(M, P, i, a) /\ LastDecides(M, Q, i, a)
  <2>1. i \in Nat \ {0}
    OBVIOUS
  <2>. QED BY <2>1, SeenLast
<1>4. CASE NoWrite(P, i, a)
  <2>1. NoWrite(Q, i, a)
    BY <1>2, <1>4 DEF NoWrite
  <2>. QED BY <1>4, <2>1, <1>3 DEF LastDecides
<1>5. CASE ~NoWrite(P, i, a)
  <2>1. PICK j \in 1 .. i - 1 : LastWrite(P, i, j, a)
    BY <1>5, <1>3 DEF LastDecides
  <2>2. LastWrite(Q, i, j, a)
    <3>1. \A k \in j + 1 .. i - 1 : k \in 1 .. i - 1
      OBVIOUS
    <3>. QED BY <1>2, <2>1, <3>1 DEF LastWrite
  <2>. QED BY <1>1, <2>1, <2>2, <1>3 DEF LastDecides
<1>. QED BY <1>4, <1>5

\* When the first beat leaves and the memory takes its write, nothing changes
\* for the beats behind it.
LEMMA SeenBehind ==
  ASSUME NEW M, NEW M1, NEW P, NEW Q, NEW a, NEW n \in Nat, Same(P, Q, 1, n), NEW i \in 1 .. n + 1,
         M1[a] = IF Sets(P, 1, a) THEN P[1].data ELSE M[a]
  PROVE  SeenIn(M1, Q, i, a) = SeenIn(M, P, i + 1, a)
<1>1. \A j \in 1 .. i - 1 : Q[j] = P[j + 1]
  <2>1. \A j \in 1 .. i - 1 : j \in 1 .. n
    OBVIOUS
  <2>. QED BY <2>1 DEF Same
<1>2. \A j \in 1 .. i - 1 : Sets(Q, j, a) <=> Sets(P, j + 1, a)
  BY <1>1 DEF Sets
<1>3. PICK m \in Nat \ {0} : m = i + 1
  OBVIOUS
<1>4. LastDecides(M, P, m, a) /\ LastDecides(M1, Q, i, a)
  <2>1. i \in Nat \ {0}
    OBVIOUS
  <2>. QED BY <2>1, SeenLast
<1>5. CASE NoWrite(Q, i, a)
  <2>1. \A k \in 2 .. m - 1 : ~Sets(P, k, a)
    <3>1. ASSUME NEW k \in 2 .. m - 1
          PROVE  ~Sets(P, k, a)
      <4>1. PICK j \in 1 .. i - 1 : k = j + 1
        BY <1>3
      <4>. QED BY <1>2, <1>5, <4>1 DEF NoWrite
    <3>. QED BY <3>1
  <2>2. SeenIn(M1, Q, i, a) = M1[a]
    BY <1>5, <1>4 DEF LastDecides
  <2>3. CASE Sets(P, 1, a)
    <3>1. 1 \in 1 .. m - 1 /\ LastWrite(P, m, 1, a)
      BY <1>3, <2>1, <2>3 DEF LastWrite
    <3>2. SeenIn(M, P, m, a) = P[1].data
      BY <3>1, <1>4 DEF LastDecides
    <3>. QED BY <1>3, <2>2, <2>3, <3>2
  <2>4. CASE ~Sets(P, 1, a)
    <3>1. NoWrite(P, m, a)
      <4>1. \A k \in 1 .. m - 1 : k = 1 \/ k \in 2 .. m - 1
        OBVIOUS
      <4>. QED BY <2>1, <2>4, <4>1 DEF NoWrite
    <3>2. SeenIn(M, P, m, a) = M[a]
      BY <3>1, <1>4 DEF LastDecides
    <3>. QED BY <1>3, <2>2, <2>4, <3>2
  <2>. QED BY <2>3, <2>4
<1>6. CASE ~NoWrite(Q, i, a)
  <2>1. PICK j \in 1 .. i - 1 : LastWrite(Q, i, j, a)
    BY <1>6, <1>4 DEF LastDecides
  <2>2. PICK l \in 1 .. m - 1 : l = j + 1
    BY <1>3
  <2>3. LastWrite(P, m, l, a)
    <3>1. ASSUME NEW k \in l + 1 .. m - 1
          PROVE  ~Sets(P, k, a)
      <4>1. PICK k1 \in j + 1 .. i - 1 : k = k1 + 1 /\ k1 \in 1 .. i - 1
        BY <1>3, <2>2
      <4>. QED BY <1>2, <2>1, <4>1 DEF LastWrite
    <3>. QED BY <1>2, <2>1, <2>2, <3>1 DEF LastWrite
  <2>4. SeenIn(M, P, m, a) = P[l].data
    BY <2>3, <1>4 DEF LastDecides
  <2>. QED BY <1>1, <1>3, <2>1, <2>2, <2>4, <1>4 DEF LastDecides
<1>. QED BY <1>5, <1>6

-----------------------------------------------------------------------------
(* Beats, and the face a queue of them is *)

\* The writes among the beats
Writes == {Write(a, d) : a \in Addrs, d \in Values}

\* A beat with its write enable set is a write, and carries data.
LEMMA BeatKinds ==
  ASSUME NEW b \in Beats
  PROVE  b.addr \in Addrs /\ b.we \in BOOLEAN /\ (b.we => b \in Writes /\ b.data \in Values)
<1>1. CASE b \in {Read(a) : a \in Addrs}
  <2>1. PICK a \in Addrs : b = Read(a)
    BY <1>1
  <2>. QED BY <2>1 DEF Read
<1>2. CASE b \in Writes
  <2>1. PICK a \in Addrs, d \in Values : b = Write(a, d)
    BY <1>2 DEF Writes
  <2>. QED BY <1>2, <2>1 DEF Write
<1>. QED BY <1>1, <1>2 DEF Beats, Writes

\* The flat memory behind a queue of beats P, and the responses owed for them
FlatOf(M, P) == [a \in Addrs |-> SeenIn(M, P, Len(P) + 1, a)]
OwedOf(M, P) ==
  [i \in 1 .. Len(P) |-> IF P[i].we THEN Ack ELSE SeenIn(M, P, i, P[i].addr)]

Answered == Values \union {Ack}

\* Every beat reads a value.
LEMMA SeenType ==
  ASSUME NEW M \in [Addrs -> Values], NEW P \in Seq(Beats), NEW i \in 1 .. Len(P) + 1,
         NEW a \in Addrs
  PROVE  SeenIn(M, P, i, a) \in Values
<1>1. LastDecides(M, P, i, a)
  <2>1. i \in Nat \ {0}
    OBVIOUS
  <2>. QED BY <2>1, SeenLast
<1>2. CASE NoWrite(P, i, a)
  BY <1>1, <1>2 DEF LastDecides
<1>3. CASE ~NoWrite(P, i, a)
  <2>1. PICK j \in 1 .. i - 1 : LastWrite(P, i, j, a) /\ SeenIn(M, P, i, a) = P[j].data
    BY <1>1, <1>3 DEF LastDecides
  <2>2. P[j] \in Beats /\ P[j].we
    <3>1. j \in 1 .. Len(P)
      OBVIOUS
    <3>. QED BY <2>1, <3>1 DEF LastWrite, Sets
  <2>. QED BY <2>1, <2>2, BeatKinds
<1>. QED BY <1>2, <1>3

\* Types and elements of both
Elements(M, P) ==
  /\ FlatOf(M, P) \in [Addrs -> Values]
  /\ \A a \in Addrs : FlatOf(M, P)[a] = SeenIn(M, P, Len(P) + 1, a)
  /\ OwedOf(M, P) \in Seq(Answered)
  /\ Len(OwedOf(M, P)) = Len(P)
  /\ \A i \in 1 .. Len(P) :
       OwedOf(M, P)[i] = IF P[i].we THEN Ack ELSE SeenIn(M, P, i, P[i].addr)

\* They have them.
LEMMA FaceType ==
  ASSUME NEW M \in [Addrs -> Values], NEW P \in Seq(Beats)
  PROVE  Elements(M, P)
<1>1. PICK n \in Nat : n = Len(P)
  OBVIOUS
<1>2. FlatOf(M, P) \in [Addrs -> Values] /\ \A a \in Addrs : FlatOf(M, P)[a] = SeenIn(M, P, Len(P) + 1, a)
  <2>1. n + 1 \in 1 .. Len(P) + 1
    BY <1>1
  <2>2. \A a \in Addrs : SeenIn(M, P, Len(P) + 1, a) \in Values
    BY <1>1, <2>1, SeenType
  <2>. QED BY <2>2 DEF FlatOf
<1>3. ASSUME NEW i \in 1 .. n
      PROVE  (IF P[i].we THEN Ack ELSE SeenIn(M, P, i, P[i].addr)) \in Answered
  <2>1. P[i] \in Beats /\ i \in 1 .. Len(P) + 1
    BY <1>1
  <2>2. P[i].addr \in Addrs
    BY <2>1, BeatKinds
  <2>. QED BY <2>1, <2>2, SeenType DEF Answered
<1> DEFINE owed == [i \in 1 .. n |-> IF P[i].we THEN Ack ELSE SeenIn(M, P, i, P[i].addr)]
<1>4. owed \in [1 .. n -> Answered]
  BY <1>3
<1>5. \A i \in 1 .. n : owed[i] = IF P[i].we THEN Ack ELSE SeenIn(M, P, i, P[i].addr)
  OBVIOUS
<1>6. OwedOf(M, P) = owed
  BY <1>1 DEF OwedOf
<1> HIDE DEF owed
<1>7. owed \in Seq(Answered) /\ Len(owed) = n
  BY <1>4
<1>. QED BY <1>1, <1>2, <1>5, <1>6, <1>7 DEF Elements

\* A request: the flat memory takes its effect, and its response is owed last.
LEMMA Requested ==
  ASSUME NEW M \in [Addrs -> Values], NEW P \in Seq(Beats), NEW b \in Beats
  PROVE  /\ FlatOf(M, Append(P, b)) = Face!Apply(FlatOf(M, P), b)
         /\ OwedOf(M, Append(P, b)) = Append(OwedOf(M, P), Face!Result(FlatOf(M, P), b))
<1>1. PICK n \in Nat, m \in Nat \ {0}, Q \in Seq(Beats) :
        n = Len(P) /\ m = n + 1 /\ Q = Append(P, b) /\ Len(Q) = m
  <2>1. PICK n \in Nat : n = Len(P)
    OBVIOUS
  <2>2. Append(P, b) \in Seq(Beats) /\ Len(Append(P, b)) = n + 1 /\ n + 1 \in Nat \ {0}
    BY <2>1
  <2>. QED BY <2>1, <2>2
<1>2. Elements(M, P) /\ Elements(M, Q)
  BY FaceType
<1>3. Q[m] = b /\ Same(P, Q, 0, n)
  BY <1>1 DEF Same
<1>4. b.addr \in Addrs /\ b.we \in BOOLEAN /\ (b.we => b.data \in Values)
  BY BeatKinds
<1>5. ASSUME NEW a, NEW i \in 1 .. m
      PROVE  SeenIn(M, Q, i, a) = SeenIn(M, P, i, a)
  BY <1>1, <1>3, SeenBefore
<1>6. ASSUME NEW a \in Addrs
      PROVE  SeenIn(M, Q, m + 1, a) = IF Sets(Q, m, a) THEN b.data ELSE SeenIn(M, P, m, a)
  <2>1. SeenIn(M, Q, m + 1, a) = IF Sets(Q, m, a) THEN Q[m].data ELSE SeenIn(M, Q, m, a)
    BY SeenStep
  <2>. QED BY <1>3, <1>5, <2>1
<1>7. PICK F \in [Addrs -> Values] :
        F = FlatOf(M, P) /\ \A a \in Addrs : F[a] = SeenIn(M, P, m, a)
  BY <1>1, <1>2 DEF Elements
<1>8. PICK G \in [Addrs -> Values] :
        G = FlatOf(M, Q) /\ \A a \in Addrs : G[a] = SeenIn(M, Q, m + 1, a)
  BY <1>1, <1>2 DEF Elements
<1>9. G = Face!Apply(F, b)
  <2>1. \A a \in Addrs : G[a] = IF Sets(Q, m, a) THEN b.data ELSE F[a]
    BY <1>6, <1>7, <1>8
  <2>2. \A a : Sets(Q, m, a) <=> b.we /\ b.addr = a
    BY <1>3 DEF Sets
  <2>3. CASE b.we
    <3>1. G = [F EXCEPT ![b.addr] = b.data]
      BY <1>4, <2>1, <2>2, <2>3
    <3>. QED BY <2>3, <3>1 DEF Face!Apply
  <2>4. CASE ~b.we
    <3>1. G = F
      BY <2>1, <2>2, <2>4
    <3>. QED BY <2>4, <3>1 DEF Face!Apply
  <2>. QED BY <1>4, <2>3, <2>4
<1>10. PICK r : r = Face!Result(F, b) /\ r \in Answered /\ r = IF b.we THEN Ack ELSE F[b.addr]
  BY <1>4 DEF Face!Result, Answered
<1>11. PICK o \in Seq(Answered) :
        /\ o = OwedOf(M, P) /\ Len(o) = n
        /\ \A i \in 1 .. n : o[i] = IF P[i].we THEN Ack ELSE SeenIn(M, P, i, P[i].addr)
  BY <1>1, <1>2 DEF Elements
<1>12. PICK q \in Seq(Answered) :
        /\ q = OwedOf(M, Q) /\ Len(q) = m
        /\ \A i \in 1 .. m : q[i] = IF Q[i].we THEN Ack ELSE SeenIn(M, Q, i, Q[i].addr)
  BY <1>1, <1>2 DEF Elements
<1>13. \A i \in 1 .. n : q[i] = o[i]
  <2>1. ASSUME NEW i \in 1 .. n
        PROVE  q[i] = o[i]
    <3>1. i \in 1 .. m /\ Q[i] = P[i]
      BY <1>1
    <3>2. SeenIn(M, Q, i, P[i].addr) = SeenIn(M, P, i, P[i].addr)
      BY <1>5, <3>1
    <3>. QED BY <1>11, <1>12, <3>1, <3>2
  <2>. QED BY <2>1
<1>14. q[m] = r
  <2>1. m \in 1 .. m
    OBVIOUS
  <2>2. q[m] = IF b.we THEN Ack ELSE SeenIn(M, Q, m, b.addr)
    BY <1>3, <1>12, <2>1
  <2>3. SeenIn(M, Q, m, b.addr) = F[b.addr]
    BY <1>4, <1>5, <1>7, <2>1
  <2>. QED BY <1>10, <2>2, <2>3
<1>15. q = Append(o, r)
  BY <1>1, <1>10, <1>11, <1>12, <1>13, <1>14
<1>. QED BY <1>1, <1>7, <1>8, <1>9, <1>10, <1>11, <1>12, <1>15

\* An answer: the oldest beat leaves, the memory behind takes its write, and
\* the oldest response owed is what it was given.
LEMMA Served ==
  ASSUME NEW M \in [Addrs -> Values], NEW P \in Seq(Beats), P # <<>>
  PROVE  /\ FlatOf(Face!Apply(M, Head(P)), Tail(P)) = FlatOf(M, P)
         /\ OwedOf(Face!Apply(M, Head(P)), Tail(P)) = Tail(OwedOf(M, P))
         /\ OwedOf(M, P) # <<>>
         /\ Head(OwedOf(M, P)) = Face!Result(M, Head(P))
<1>1. PICK n \in Nat, m \in Nat \ {0}, Q \in Seq(Beats), b \in Beats :
        m = Len(P) /\ m = n + 1 /\ Q = Tail(P) /\ Len(Q) = n /\ b = Head(P) /\ b = P[1]
  <2>1. PICK n \in Nat, m \in Nat \ {0} : m = Len(P) /\ m = n + 1
    OBVIOUS
  <2>2. Tail(P) \in Seq(Beats) /\ Len(Tail(P)) = n /\ Head(P) = P[1] /\ Head(P) \in Beats
    <3>1. /\ Tail(P) \in Seq(Beats) /\ Len(Tail(P)) = Len(P) - 1
          /\ Head(P) = P[1] /\ Head(P) \in Beats
      BY TailOf
    <3>. QED BY <2>1, <3>1
  <2>. QED BY <2>1, <2>2
<1>2. Same(P, Q, 1, n)
  <2>1. \A k \in 1 .. n : Q[k] = P[k + 1]
    BY <1>1, TailOf
  <2>. QED BY <2>1 DEF Same
<1>3. b.addr \in Addrs /\ b.we \in BOOLEAN /\ (b.we => b.data \in Values)
  BY BeatKinds
<1>4. PICK N \in [Addrs -> Values] :
        N = Face!Apply(M, b) /\ \A a \in Addrs : N[a] = IF b.we /\ b.addr = a THEN b.data ELSE M[a]
  <2>1. CASE b.we
    <3>1. [M EXCEPT ![b.addr] = b.data] \in [Addrs -> Values]
      BY <1>3, <2>1
    <3>2. \A a \in Addrs : [M EXCEPT ![b.addr] = b.data][a] = IF b.addr = a THEN b.data ELSE M[a]
      BY <1>3
    <3>3. Face!Apply(M, b) = [M EXCEPT ![b.addr] = b.data]
      BY <2>1 DEF Face!Apply
    <3>. QED BY <2>1, <3>1, <3>2, <3>3
  <2>2. CASE ~b.we
    BY <1>3, <2>2 DEF Face!Apply
  <2>. QED BY <1>3, <2>1, <2>2
<1>5. Elements(M, P) /\ Elements(N, Q)
  BY FaceType
<1>6. ASSUME NEW a \in Addrs, NEW i \in 1 .. n + 1
      PROVE  SeenIn(N, Q, i, a) = SeenIn(M, P, i + 1, a)
  <2>1. N[a] = IF Sets(P, 1, a) THEN P[1].data ELSE M[a]
    BY <1>1, <1>4 DEF Sets
  <2>. QED BY <1>2, <2>1, SeenBehind
<1>7. FlatOf(N, Q) = FlatOf(M, P)
  <2>1. PICK F \in [Addrs -> Values] :
          F = FlatOf(N, Q) /\ \A a \in Addrs : F[a] = SeenIn(N, Q, n + 1, a)
    BY <1>1, <1>5 DEF Elements
  <2>2. PICK G \in [Addrs -> Values] :
          G = FlatOf(M, P) /\ \A a \in Addrs : G[a] = SeenIn(M, P, m + 1, a)
    BY <1>1, <1>5 DEF Elements
  <2>3. n + 1 \in 1 .. n + 1 /\ m + 1 = n + 1 + 1
    BY <1>1
  <2>4. F = G
    BY <1>6, <2>1, <2>2, <2>3
  <2>. QED BY <2>1, <2>2, <2>4
<1>8. PICK o \in Seq(Answered) :
        /\ o = OwedOf(M, P) /\ Len(o) = m
        /\ \A i \in 1 .. m : o[i] = IF P[i].we THEN Ack ELSE SeenIn(M, P, i, P[i].addr)
  BY <1>1, <1>5 DEF Elements
<1>9. PICK q \in Seq(Answered) :
        /\ q = OwedOf(N, Q) /\ Len(q) = n
        /\ \A i \in 1 .. n : q[i] = IF Q[i].we THEN Ack ELSE SeenIn(N, Q, i, Q[i].addr)
  BY <1>1, <1>5 DEF Elements
<1>10. \A i \in 1 .. n : q[i] = o[i + 1]
  <2>1. ASSUME NEW i \in 1 .. n
        PROVE  q[i] = o[i + 1]
    <3>1. Q[i] = P[i + 1] /\ Q[i] \in Beats /\ i \in 1 .. n + 1
      BY <1>1, <1>2 DEF Same
    <3>2. SeenIn(N, Q, i, Q[i].addr) = SeenIn(M, P, i + 1, Q[i].addr)
      BY <1>6, <3>1, BeatKinds
    <3>3. i + 1 \in 1 .. m
      BY <1>1
    <3>. QED BY <1>8, <1>9, <3>1, <3>2, <3>3
  <2>. QED BY <2>1
<1>11. o # <<>> /\ q = Tail(o) /\ Head(o) = o[1]
  BY <1>1, <1>8, <1>9, <1>10
<1>12. o[1] = Face!Result(M, b)
  <2>1. 1 \in 1 .. m
    OBVIOUS
  <2>2. SeenIn(M, P, 1, b.addr) = M[b.addr]
    BY SeenStep
  <2>. QED BY <1>1, <1>8, <2>1, <2>2 DEF Face!Result
<1>. QED BY <1>1, <1>4, <1>7, <1>8, <1>9, <1>11, <1>12


-----------------------------------------------------------------------------
(* The inductive invariant *)

\* The registers of the master fit one another: a beat on the bus, and of the
\* kind its state is for.
BusOK ==
  /\ dst \in {"IDLE", "AR", "R", "AW", "B"}
  /\ cur \in Beats \union {NoBeat}
  /\ dst # "IDLE" => cur \in Beats
  /\ dst \in {"AR", "R"} => ~cur.we
  /\ dst \in {"AW", "B"} => cur.we
  /\ aw_done \in BOOLEAN
  /\ w_done \in BOOLEAN
  /\ dmem_ack \in BOOLEAN
  /\ dmem_rdata \in Values
  /\ dram \in [Addrs -> Values]

\* The slots between the pointers hold beats.
RingOK == Ring(DEPTH, dq_wi, dq_ri, dq, Beats, Beats \union {NoBeat})

acked == IF dmem_ack THEN 1 ELSE 0

\* CreditsCoverRing is not inductive: it does not say that a slot between the
\* pointers holds a beat, nor that the beat on the bus fits the bus's state.
IInv ==
  /\ BusOK
  /\ RingOK
  /\ run_q \in BOOLEAN
  /\ infl \in 0 .. CRED
  /\ run_q => infl = Len(Pending) + acked
  /\ ~run_q => infl = 0

OnBus == IF dst = "IDLE" THEN <<>> ELSE <<cur>>
Waits == InRing(DEPTH, dq_wi, dq_ri, dq)

\* Pending is the beat on the bus and what the ring holds.
PendingFits ==
  /\ Pending = OnBus \o Waits
  /\ OnBus \in Seq(Beats) /\ Waits \in Seq(Beats)
  /\ Pending \in Seq(Beats)
  /\ Len(Waits) = dq_occ /\ dq_occ \in 0 .. DEPTH
  /\ dq_occ <= Len(Pending)

\* In every state with a filled ring.
LEMMA PendingIs == BusOK /\ RingOK => PendingFits
<1> SUFFICES ASSUME BusOK, RingOK
             PROVE  PendingFits
  OBVIOUS
<1>1. Pending = OnBus \o Waits /\ dq_occ = Ahead(dq_wi, dq_ri, DEPTH)
  BY DEF Pending, OnBus, Waits, InRing, Content, Slot, dq_occ, Ahead
<1>2. Waits \in Seq(Beats) /\ Len(Waits) = Ahead(dq_wi, dq_ri, DEPTH) /\ Ahead(dq_wi, dq_ri, DEPTH) \in 0 .. DEPTH
  BY RingContent DEF RingOK, Waits
<1>3. OnBus \in Seq(Beats)
  BY DEF BusOK, OnBus
<1>4. OnBus \o Waits \in Seq(Beats) /\ Len(OnBus \o Waits) = Len(OnBus) + Len(Waits) /\ Len(OnBus) \in Nat
  BY <1>2, <1>3
<1>5. PICK n \in Nat, l \in Nat : n = Len(Waits) /\ l = Len(OnBus)
  BY <1>2, <1>4
<1>. QED BY <1>1, <1>2, <1>3, <1>4, <1>5 DEF PendingFits

\* The invariant gives the property.
LEMMA IInvImplies ==
  ASSUME IInv
  PROVE  CreditsCoverRing
<1>1. dq_occ \in 0 .. DEPTH
  BY PendingIs DEF IInv, PendingFits
<1>2. /\ dq \in [0 .. DEPTH - 1 -> Beats \union {NoBeat}]
      /\ dq_wi \in 0 .. 2 * DEPTH - 1 /\ dq_ri \in 0 .. 2 * DEPTH - 1
  BY DEF IInv, RingOK, Ring, Pointers
<1>3. TypeOK
  BY <1>2 DEF IInv, BusOK, TypeOK
<1>4. dq_occ <= DEPTH
  BY <1>1, DepthAssumption
<1>. QED BY <1>3, <1>4 DEF IInv, CreditsCoverRing, acked

-----------------------------------------------------------------------------
(* The bridge after reset: an empty ring, an idle master *)

\* It holds nothing.
LEMMA InitPending ==
  ASSUME Init
  PROVE  BusOK /\ RingOK /\ Pending = <<>>
<1>1. DEPTH \in Nat \ {0} /\ 0 \in Pointers(DEPTH)
  BY DepthAssumption DEF Pointers
<1>2. Ahead(0, 0, DEPTH) = 0
  BY <1>1, AheadCases
<1>3. Filled(dq, 0, 0, DEPTH, Beats)
  BY DEF Filled
<1>4. RingOK
  BY <1>1, <1>2, <1>3 DEF Init, RingOK, Ring
<1>5. BusOK
  BY InitialAssumption DEF Init, BusOK
<1>6. dq_occ = 0 /\ dst = "IDLE"
  BY <1>2 DEF Init, dq_occ, Ahead
<1>7. Pending = <<>>
  <2>1. Waits \in Seq(Beats) /\ Len(Waits) = 0 /\ Pending = <<>> \o Waits
    BY <1>4, <1>5, <1>6, PendingIs DEF OnBus, PendingFits
  <2>. QED BY <2>1
<1>. QED BY <1>4, <1>5, <1>7

\* The invariant holds at first.
LEMMA InitIInv ==
  ASSUME Init
  PROVE  IInv
<1>1. BusOK /\ RingOK /\ Pending = <<>>
  BY InitPending
<1>2. Len(Pending) = 0
  BY <1>1
<1>3. run_q = FALSE /\ infl = 0 /\ 0 \in 0 .. CRED
  BY DepthAssumption DEF Init
<1>. QED BY <1>1, <1>2, <1>3 DEF IInv

-----------------------------------------------------------------------------
(* The master at one edge *)

\* It takes a beat off the ring, answers the one on the bus, or neither.
Moves(taken, answered) ==
  /\ taken => dst = "IDLE" /\ dst' # "IDLE" /\ dq_occ # 0 /\ cur' = dq[dq_ri % DEPTH]
  /\ dq_ri' = IF taken THEN After(dq_ri, DEPTH) ELSE dq_ri
  /\ answered => dst # "IDLE" /\ dst' = "IDLE" /\ ~taken
  /\ ~taken => cur' = cur
  /\ ~taken /\ ~answered => (dst' = "IDLE" <=> dst = "IDLE")
  /\ dmem_ack' = answered
  /\ dram' = IF answered THEN Face!Apply(dram, cur) ELSE dram
  /\ answered => (IF cur.we THEN Ack ELSE dmem_rdata') = Face!Result(dram, cur)

\* The head of the ring is a beat.
LEMMA HeadIsBeat ==
  ASSUME RingOK, dq_occ # 0
  PROVE  dq_head \in Beats
<1>1. Ahead(dq_wi, dq_ri, DEPTH) # 0
  BY DEF dq_occ, Ahead
<1>2. dq[dq_ri % DEPTH] \in Beats
  BY <1>1, RingPop DEF RingOK
<1>. QED BY <1>2 DEF dq_head, Slot

\* An idle master takes the head of the ring, if there is one.
LEMMA IdleMoves ==
  ASSUME BusOK, RingOK, Idle
  PROVE  (Moves(FALSE, FALSE) \/ Moves(TRUE, FALSE)) /\ BusOK'
<1>1. dst = "IDLE" /\ dmem_ack' = FALSE /\ UNCHANGED <<dmem_rdata, dram>>
  BY DEF Idle
<1>2. CASE dq_empty
  <2>1. dst' = "IDLE" /\ UNCHANGED <<cur, dq_ri, aw_done, w_done>>
    BY <1>1, <1>2 DEF Idle
  <2>2. Moves(FALSE, FALSE)
    BY <1>1, <2>1 DEF Moves
  <2>3. BusOK'
    BY <1>1, <2>1 DEF BusOK
  <2>. QED BY <2>2, <2>3
<1>3. CASE ~dq_empty
  <2>1. dq_occ # 0 /\ dq_head \in Beats
    BY <1>3, HeadIsBeat DEF dq_empty
  <2>2. dq_head.we \in BOOLEAN
    BY <2>1, BeatKinds
  <2>3. cur' = dq_head /\ dq_ri' = Bump(dq_ri) /\ dst' = IF dq_head.we THEN "AW" ELSE "AR"
    BY <1>3 DEF Idle
  <2>4. dq_head = dq[dq_ri % DEPTH] /\ Bump(dq_ri) = After(dq_ri, DEPTH)
    BY DEF dq_head, Slot, Bump, After
  <2>5. dst' # "IDLE" /\ dst' \in {"AW", "AR"}
    BY <2>3
  <2>6. Moves(TRUE, FALSE)
    BY <1>1, <2>1, <2>3, <2>4, <2>5 DEF Moves
  <2>7. aw_done' \in BOOLEAN /\ w_done' \in BOOLEAN
    <3>1. CASE dq_head.we
      BY <1>3, <3>1 DEF Idle
    <3>2. CASE ~dq_head.we
      <4>1. aw_done' = aw_done /\ w_done' = w_done
        BY <1>3, <3>2 DEF Idle
      <4>. QED BY <4>1 DEF BusOK
    <3>. QED BY <3>1, <3>2
  <2>8. /\ dst' \in {"AR", "R"} => ~dq_head.we
        /\ dst' \in {"AW", "B"} => dq_head.we
    BY <2>3
  <2>9. dmem_ack' \in BOOLEAN /\ dmem_rdata' \in Values /\ dram' \in [Addrs -> Values]
    BY <1>1 DEF BusOK
  <2>10. BusOK'
    BY <2>1, <2>3, <2>5, <2>7, <2>8, <2>9 DEF BusOK
  <2>. QED BY <2>6, <2>10
<1>. QED BY <1>2, <1>3


\* A master on the bus keeps its beat or answers it.
LEMMA BusMoves ==
  ASSUME BusOK, NEW axi,
         ReadAddress(axi) \/ ReadData(axi) \/ WriteAddress(axi) \/ WriteAnswer(axi)
  PROVE  (Moves(FALSE, FALSE) \/ Moves(FALSE, TRUE)) /\ BusOK'
<1>1. CASE ReadAddress(axi)
  <2>1. /\ dst = "AR" /\ dst' \in {"AR", "R"} /\ dmem_ack' = FALSE
        /\ UNCHANGED <<cur, dq_ri, aw_done, w_done, dmem_rdata, dram>>
    BY <1>1 DEF ReadAddress
  <2>2. dst' # "IDLE" /\ dst # "IDLE"
    BY <2>1
  <2>3. Moves(FALSE, FALSE)
    BY <2>1, <2>2 DEF Moves
  <2>4. BusOK'
    BY <2>1 DEF BusOK
  <2>. QED BY <2>3, <2>4
<1>2. CASE ReadData(axi)
  <2>1. dst = "R" /\ dst # "IDLE" /\ UNCHANGED <<cur, dq_ri, aw_done, w_done, dram>>
    BY <1>2 DEF ReadData
  <2>2. dmem_ack' = ("rvalid" \in axi)
    BY <1>2 DEF ReadData
  <2>3. ("rvalid" \in axi => dmem_ack' = TRUE) /\ ("rvalid" \notin axi => dmem_ack' = FALSE)
    <3>1. CASE "rvalid" \in axi
      <4>1. ("rvalid" \in axi) = TRUE
        BY <3>1
      <4>2. dmem_ack' = TRUE
        BY <2>2, <4>1, Zenon
      <4>. QED BY <3>1, <4>2
    <3>2. CASE "rvalid" \notin axi
      <4>1. ("rvalid" \in axi) = FALSE
        BY <3>2
      <4>2. dmem_ack' = FALSE
        BY <2>2, <4>1, Zenon
      <4>. QED BY <3>2, <4>2
    <3>. QED BY <3>1, <3>2
  <2>4. cur \in Beats /\ ~cur.we /\ cur.addr \in Addrs
    BY <2>1, BeatKinds DEF BusOK
  <2>5. CASE "rvalid" \in axi
    <3>1. dst' = "IDLE" /\ dmem_rdata' = dram[cur.addr]
      BY <1>2, <2>5 DEF ReadData
    <3>2. dmem_rdata' \in Values
      BY <2>4, <3>1 DEF BusOK
    <3>3. Face!Apply(dram, cur) = dram /\ Face!Result(dram, cur) = dram[cur.addr]
      BY <2>4 DEF Face!Apply, Face!Result
    <3>4. Moves(FALSE, TRUE)
      BY <2>1, <2>3, <2>4, <2>5, <3>1, <3>3 DEF Moves
    <3>5. BusOK'
      BY <2>1, <2>3, <2>5, <3>1, <3>2 DEF BusOK
    <3>. QED BY <3>4, <3>5
  <2>6. CASE "rvalid" \notin axi
    <3>1. dst' = "R" /\ dmem_rdata' = dmem_rdata
      BY <1>2, <2>1, <2>6 DEF ReadData
    <3>2. Moves(FALSE, FALSE)
      BY <2>1, <2>3, <2>6, <3>1 DEF Moves
    <3>3. BusOK'
      BY <2>1, <2>3, <2>6, <3>1 DEF BusOK
    <3>. QED BY <3>2, <3>3
  <2>. QED BY <2>5, <2>6
<1>3. CASE WriteAddress(axi)
  <2>1. /\ dst = "AW" /\ dmem_ack' = FALSE /\ UNCHANGED <<cur, dq_ri, dmem_rdata, dram>>
        /\ aw_done' \in BOOLEAN /\ w_done' \in BOOLEAN
    BY <1>3 DEF WriteAddress
  <2>2. dst' \in {"AW", "B"} /\ dst' # "IDLE" /\ dst # "IDLE"
    BY <1>3, <2>1 DEF WriteAddress
  <2>3. Moves(FALSE, FALSE)
    BY <2>1, <2>2 DEF Moves
  <2>4. BusOK'
    BY <2>1, <2>2 DEF BusOK
  <2>. QED BY <2>3, <2>4
<1>4. CASE WriteAnswer(axi)
  <2>1. dst = "B" /\ dst # "IDLE" /\ UNCHANGED <<cur, dq_ri, aw_done, w_done, dmem_rdata>>
    BY <1>4 DEF WriteAnswer
  <2>2. dmem_ack' = ("bvalid" \in axi)
    BY <1>4 DEF WriteAnswer
  <2>3. ("bvalid" \in axi => dmem_ack' = TRUE) /\ ("bvalid" \notin axi => dmem_ack' = FALSE)
    <3>1. CASE "bvalid" \in axi
      <4>1. ("bvalid" \in axi) = TRUE
        BY <3>1
      <4>2. dmem_ack' = TRUE
        BY <2>2, <4>1, Zenon
      <4>. QED BY <3>1, <4>2
    <3>2. CASE "bvalid" \notin axi
      <4>1. ("bvalid" \in axi) = FALSE
        BY <3>2
      <4>2. dmem_ack' = FALSE
        BY <2>2, <4>1, Zenon
      <4>. QED BY <3>2, <4>2
    <3>. QED BY <3>1, <3>2
  <2>4. cur \in Beats /\ cur.we /\ cur.addr \in Addrs /\ cur.data \in Values
    BY <2>1, BeatKinds DEF BusOK
  <2>5. CASE "bvalid" \in axi
    <3>1. dst' = "IDLE" /\ dram' = [dram EXCEPT ![cur.addr] = cur.data]
      BY <1>4, <2>5 DEF WriteAnswer
    <3>2. dram' \in [Addrs -> Values]
      BY <2>4, <3>1 DEF BusOK
    <3>3. Face!Apply(dram, cur) = dram' /\ Face!Result(dram, cur) = Ack
      BY <2>4, <3>1 DEF Face!Apply, Face!Result
    <3>4. Moves(FALSE, TRUE)
      BY <2>1, <2>3, <2>4, <2>5, <3>1, <3>3 DEF Moves
    <3>5. BusOK'
      BY <2>1, <2>3, <2>5, <3>1, <3>2 DEF BusOK
    <3>. QED BY <3>4, <3>5
  <2>6. CASE "bvalid" \notin axi
    <3>1. dst' = "B" /\ dram' = dram
      BY <1>4, <2>1, <2>6 DEF WriteAnswer
    <3>2. Moves(FALSE, FALSE)
      BY <2>1, <2>3, <2>6, <3>1 DEF Moves
    <3>3. BusOK'
      BY <2>1, <2>3, <2>6, <3>1 DEF BusOK
    <3>. QED BY <3>2, <3>3
  <2>. QED BY <2>5, <2>6
<1>. QED BY <1>1, <1>2, <1>3, <1>4

\* In every state the master takes, keeps or answers.
LEMMA MasterMoves ==
  ASSUME BusOK, RingOK, NEW axi, Master(axi)
  PROVE  BusOK' /\ \E taken \in BOOLEAN, answered \in BOOLEAN : Moves(taken, answered)
<1>1. CASE Idle
  BY <1>1, IdleMoves
<1>2. CASE ReadAddress(axi) \/ ReadData(axi) \/ WriteAddress(axi) \/ WriteAnswer(axi)
  BY <1>2, BusMoves
<1>. QED BY <1>1, <1>2 DEF Master


-----------------------------------------------------------------------------
(* The beats in the bridge at one edge *)

\* The queue with the beat the SoC pulses, if it does
Asked(P, b) == IF b = NoBeat THEN P ELSE Append(P, b)

\* An append behind a sequence
LEMMA AppendBehind ==
  ASSUME NEW T, NEW s \in Seq(T), NEW t \in Seq(T), NEW x \in T
  PROVE  s \o Append(t, x) = Append(s \o t, x)
<1>1. PICK r : r = Append(t, x)
  OBVIOUS
<1>2. r \in Seq(T) /\ Len(r) = Len(t) + 1 /\ r[Len(t) + 1] = x /\ \A i \in 1 .. Len(t) : r[i] = t[i]
  BY <1>1
<1>3. PICK q : q = s \o t
  OBVIOUS
<1>4. /\ q \in Seq(T) /\ Len(q) = Len(s) + Len(t)
      /\ \A i \in 1 .. Len(q) : q[i] = IF i <= Len(s) THEN s[i] ELSE t[i - Len(s)]
  BY <1>3
<1>5. PICK u : u = s \o r
  OBVIOUS
<1>6. /\ u \in Seq(T) /\ Len(u) = Len(s) + Len(r)
      /\ \A i \in 1 .. Len(u) : u[i] = IF i <= Len(s) THEN s[i] ELSE r[i - Len(s)]
  <2>1. r \in Seq(T)
    BY <1>2
  <2>. QED BY <2>1, <1>5
<1>7. PICK v : v = Append(q, x)
  OBVIOUS
<1>8. v \in Seq(T) /\ Len(v) = Len(q) + 1 /\ v[Len(q) + 1] = x /\ \A i \in 1 .. Len(q) : v[i] = q[i]
  <2>1. q \in Seq(T)
    BY <1>4
  <2>. QED BY <2>1, <1>7
<1>9. Len(u) = Len(v) /\ Len(u) = Len(q) + 1
  BY <1>2, <1>4, <1>6, <1>8
<1>10. ASSUME NEW i \in 1 .. Len(u)
       PROVE  u[i] = v[i]
  <2>1. CASE i = Len(q) + 1
    <3>1. ~(i <= Len(s)) /\ i - Len(s) = Len(t) + 1
      BY <1>4, <2>1
    <3>. QED BY <1>2, <1>6, <1>8, <2>1, <3>1
  <2>2. CASE i # Len(q) + 1
    <3>1. i \in 1 .. Len(q)
      BY <1>9, <2>2, <1>4
    <3>2. CASE i <= Len(s)
      BY <1>4, <1>6, <1>8, <3>1, <3>2
    <3>3. CASE ~(i <= Len(s))
      <4>1. i - Len(s) \in 1 .. Len(t)
        BY <1>4, <3>1, <3>3
      <4>. QED BY <1>2, <1>4, <1>6, <1>8, <3>1, <3>3, <4>1
    <3>. QED BY <3>2, <3>3
  <2>. QED BY <2>1, <2>2
<1>11. u = v
  <2>1. u \in Seq(T) /\ v \in Seq(T) /\ Len(u) = Len(v)
    BY Zenon, <1>6, <1>8, <1>9
  <2>. QED BY Zenon, <1>10, <2>1, SeqEqual
<1>. QED BY <1>1, <1>3, <1>5, <1>7, <1>11

\* A beat is taken off the ring onto the bus: the queue stays.  One is
\* answered: the head goes.  The SoC's beat comes last.
LEMMA PendingEdge ==
  ASSUME BusOK, RingOK, BusOK',
         NEW b \in Beats \union {NoBeat}, Enqueue(b), b # NoBeat => dq_occ # DEPTH,
         NEW taken \in BOOLEAN, NEW answered \in BOOLEAN, Moves(taken, answered)
  PROVE  /\ RingOK'
         /\ answered => Pending # <<>> /\ Head(Pending) = cur
         /\ Pending' = IF answered THEN Tail(Asked(Pending, b)) ELSE Asked(Pending, b)
<1>1. PICK push \in BOOLEAN : push <=> b # NoBeat
  OBVIOUS
<1>2. push => b \in Beats
  BY <1>1
<1>3. RingEdge(DEPTH, dq_wi, dq_ri, dq, dq_wi', dq_ri', dq', b, push, taken)
  <2>1. dq_occ = Ahead(dq_wi, dq_ri, DEPTH)
    BY DEF dq_occ, Ahead
  <2>2. dq_wi' = IF push THEN After(dq_wi, DEPTH) ELSE dq_wi
    BY <1>1 DEF Enqueue, Bump, After
  <2>3. dq' = IF push THEN Put(dq, dq_wi, b, DEPTH) ELSE dq
    BY <1>1 DEF Enqueue, Put, Slot
  <2>4. dq_ri' = (IF taken THEN After(dq_ri, DEPTH) ELSE dq_ri) /\ (taken => dq_occ # 0)
    BY DEF Moves
  <2>. QED BY <1>1, <2>1, <2>2, <2>3, <2>4 DEF RingEdge
<1>4. /\ RingOK'
      /\ taken => Waits # <<>> /\ Head(Waits) = dq[dq_ri % DEPTH]
      /\ Waits' = IF push THEN Append(IF taken THEN Tail(Waits) ELSE Waits, b)
                  ELSE IF taken THEN Tail(Waits) ELSE Waits
  BY <1>2, <1>3, RingStep DEF RingOK, Waits
<1>5. /\ Pending = OnBus \o Waits /\ OnBus \in Seq(Beats) /\ Waits \in Seq(Beats)
      /\ Pending \in Seq(Beats)
  BY PendingIs DEF PendingFits
<1>6. Pending' = OnBus' \o Waits' /\ OnBus' \in Seq(Beats) /\ Waits' \in Seq(Beats)
  <2>1. (BusOK /\ RingOK => PendingFits)'
    BY PendingIs, PTL
  <2>. QED BY <1>4, <2>1 DEF PendingFits
<1>7. PICK p \in Seq(Beats), w \in Seq(Beats), o \in Seq(Beats), o1 \in Seq(Beats), w1 \in Seq(Beats) :
        p = Pending /\ w = Waits /\ o = OnBus /\ o1 = OnBus' /\ w1 = Waits' /\ p = o \o w
  BY <1>5, <1>6
<1>8. CASE taken
  <2>1. dst = "IDLE" /\ dst' # "IDLE" /\ cur' = dq[dq_ri % DEPTH] /\ answered = FALSE
    BY <1>8 DEF Moves
  <2>2. o = <<>> /\ w # <<>> /\ o1 = <<Head(w)>>
    BY <1>4, <1>7, <1>8, <2>1 DEF OnBus
  <2>3. p = w
    BY <1>7, <2>2
  <2>4. Head(w) \in Beats /\ Tail(w) \in Seq(Beats) /\ w = <<Head(w)>> \o Tail(w)
    BY <2>2, SplitHead
  <2>5. CASE push
    <3>1. w1 = Append(Tail(w), b)
      BY <1>4, <1>7, <1>8, <2>5
    <3>2. <<Head(w)>> \o Append(Tail(w), b) = Append(<<Head(w)>> \o Tail(w), b)
      BY <1>2, <2>4, <2>5, AppendBehind
    <3>3. o1 \o w1 = Append(p, b)
      BY <2>2, <2>3, <2>4, <3>1, <3>2
    <3>. QED BY <1>1, <1>4, <1>6, <1>7, <2>1, <2>5, <3>3 DEF Asked
  <2>6. CASE ~push
    <3>1. w1 = Tail(w)
      BY <1>4, <1>7, <1>8, <2>6
    <3>2. o1 \o w1 = p
      BY <2>2, <2>3, <2>4, <3>1
    <3>. QED BY <1>1, <1>4, <1>6, <1>7, <2>1, <2>6, <3>2 DEF Asked
  <2>. QED BY <2>5, <2>6
<1>9. CASE answered
  <2>1. dst # "IDLE" /\ dst' = "IDLE" /\ ~taken /\ cur \in Beats
    BY <1>9 DEF Moves, BusOK
  <2>2. o = <<cur>> /\ o1 = <<>>
    BY <1>7, <2>1 DEF OnBus
  <2>3. p # <<>> /\ Head(p) = cur /\ Tail(p) = w
    BY <1>7, <2>1, <2>2, HeadTail
  <2>4. o1 \o w1 = w1
    BY <2>2
  <2>5. CASE push
    <3>1. w1 = Append(w, b) /\ Append(w, b) \in Seq(Beats)
      BY <1>2, <1>4, <1>7, <2>1, <2>5
    <3>2. Append(p, b) = <<cur>> \o Append(w, b)
      BY <1>2, <1>7, <2>2, <2>5, AppendBehind
    <3>3. Tail(Append(p, b)) = w1
      BY <2>1, <3>1, <3>2, HeadTail
    <3>. QED BY <1>1, <1>4, <1>6, <1>7, <1>9, <2>3, <2>4, <2>5, <3>3 DEF Asked
  <2>6. CASE ~push
    <3>1. w1 = w
      BY <1>4, <1>7, <2>1, <2>6
    <3>. QED BY <1>1, <1>4, <1>6, <1>7, <1>9, <2>3, <2>4, <2>6, <3>1 DEF Asked
  <2>. QED BY <2>5, <2>6
<1>10. CASE ~taken /\ ~answered
  <2>1. (dst' = "IDLE" <=> dst = "IDLE") /\ cur' = cur
    BY <1>10 DEF Moves
  <2>2. o1 = o
    BY <1>7, <2>1 DEF OnBus
  <2>3. CASE push
    <3>1. w1 = Append(w, b)
      BY <1>4, <1>7, <1>10, <2>3
    <3>2. o \o Append(w, b) = Append(o \o w, b)
      BY <1>2, <2>3, AppendBehind
    <3>. QED BY <1>1, <1>4, <1>6, <1>7, <1>10, <2>2, <2>3, <3>1, <3>2 DEF Asked
  <2>4. CASE ~push
    <3>1. w1 = w
      BY <1>4, <1>7, <1>10, <2>4
    <3>. QED BY <1>1, <1>4, <1>6, <1>7, <1>10, <2>2, <2>4, <3>1 DEF Asked
  <2>. QED BY <2>3, <2>4
<1>. QED BY <1>8, <1>9, <1>10

\* The length of the queue after such an edge
LEMMA AskedLength ==
  ASSUME NEW P \in Seq(Beats), NEW b \in Beats \union {NoBeat}, NEW answered \in BOOLEAN,
         answered => P # <<>>
  PROVE  /\ Asked(P, b) \in Seq(Beats)
         /\ Len(IF answered THEN Tail(Asked(P, b)) ELSE Asked(P, b))
            = Len(P) + (IF b = NoBeat THEN 0 ELSE 1) - (IF answered THEN 1 ELSE 0)
<1>1. PICK n \in Nat, q \in Seq(Beats) :
        n = Len(P) /\ q = Asked(P, b) /\ Len(q) = n + (IF b = NoBeat THEN 0 ELSE 1)
  <2>1. CASE b = NoBeat
    BY <2>1 DEF Asked
  <2>2. CASE b # NoBeat
    <3>1. Append(P, b) \in Seq(Beats) /\ Len(Append(P, b)) = Len(P) + 1 /\ Len(P) \in Nat
      BY <2>2
    <3>. QED BY <2>2, <3>1 DEF Asked
  <2>. QED BY <2>1, <2>2
<1>2. CASE answered
  <2>1. n > 0 /\ q # <<>>
    BY <1>1, <1>2
  <2>2. Len(Tail(q)) = Len(q) - 1
    BY <2>1, TailOf
  <2>. QED BY <1>1, <1>2, <2>2
<1>3. CASE ~answered
  BY <1>1, <1>3
<1>. QED BY <1>2, <1>3


-----------------------------------------------------------------------------
(* One clock edge: push, pop, answer and the host together *)

\* What an edge with the SoC's beat b does to the queue: it may answer its head.
Serves(b, answered) ==
  /\ answered => Pending # <<>> /\ Head(Pending) = cur /\ cur' = cur
  /\ Pending' = IF answered THEN Tail(Asked(Pending, b)) ELSE Asked(Pending, b)
  /\ dmem_ack' = answered
  /\ dram' = IF answered THEN Face!Apply(dram, cur) ELSE dram
  /\ answered => (IF cur.we THEN Ack ELSE dmem_rdata') = Face!Result(dram, cur)

\* While the SoC's count covers the queue, a beat finds a free slot.
LEMMA EdgeServes ==
  ASSUME IInv, NEW b \in Beats \union {NoBeat}, NEW axi, NEW ctl, Edge(b, axi, ctl)
  PROVE  /\ BusOK' /\ RingOK'
         /\ \E answered \in BOOLEAN : Serves(b, answered)
         /\ dq_occ = 0 /\ dst = "IDLE" => Serves(b, FALSE)
<1>1. BusOK /\ RingOK
  BY DEF IInv
<1>2. PICK taken \in BOOLEAN, answered \in BOOLEAN : BusOK' /\ Moves(taken, answered)
  BY <1>1, MasterMoves DEF Edge
<1>3. b # NoBeat => dq_occ # DEPTH
  <2>1. SUFFICES ASSUME b # NoBeat PROVE dq_occ # DEPTH
    OBVIOUS
  <2>2. run_q /\ infl < CRED
    BY <2>1 DEF Edge, SoC
  <2>3. PICK l \in Nat, a \in {0, 1}, o \in Nat : l = Len(Pending) /\ a = acked /\ o = dq_occ /\ o <= l
    <3>1. dq_occ \in Nat /\ dq_occ <= Len(Pending) /\ Len(Pending) \in Nat
      BY <1>1, PendingIs, DepthAssumption DEF PendingFits
    <3>2. acked \in {0, 1}
      BY DEF acked
    <3>. QED BY <3>1, <3>2
  <2>4. infl = l + a
    BY <2>2, <2>3 DEF IInv
  <2>. QED BY <2>2, <2>3, <2>4, DepthAssumption
<1>4. /\ RingOK'
      /\ answered => Pending # <<>> /\ Head(Pending) = cur
      /\ Pending' = IF answered THEN Tail(Asked(Pending, b)) ELSE Asked(Pending, b)
  BY <1>1, <1>2, <1>3, PendingEdge DEF Edge
<1>5. Serves(b, answered)
  BY <1>2, <1>4 DEF Serves, Moves
<1>6. dst = "IDLE" => answered = FALSE
  BY <1>2 DEF Moves
<1>. QED BY <1>2, <1>4, <1>5, <1>6

\* Every edge keeps the invariant.
LEMMA EdgeIInv ==
  ASSUME HostWaits, IInv,
         NEW b \in Beats \union {NoBeat}, NEW axi, NEW ctl \in BOOLEAN, Edge(b, axi, ctl)
  PROVE  IInv'
<1>1. BusOK' /\ RingOK'
  BY EdgeServes
<1>2. PICK answered \in BOOLEAN : Serves(b, answered) /\ (dq_occ = 0 /\ dst = "IDLE" => answered = FALSE)
  <2>1. CASE dq_occ = 0 /\ dst = "IDLE"
    BY <2>1, EdgeServes
  <2>2. CASE ~(dq_occ = 0 /\ dst = "IDLE")
    BY <2>2, EdgeServes
  <2>. QED BY <2>1, <2>2
<1>3. PICK P \in Seq(Beats), l \in Nat, a \in {0, 1} : P = Pending /\ l = Len(P) /\ a = acked
  <2>1. Pending \in Seq(Beats)
    BY PendingIs DEF IInv, PendingFits
  <2>2. Len(Pending) \in Nat /\ acked \in {0, 1}
    BY <2>1 DEF acked
  <2>. QED BY <2>1, <2>2
<1>4. PICK p \in {0, 1}, r \in {0, 1} :
        p = (IF b = NoBeat THEN 0 ELSE 1) /\ r = (IF answered THEN 1 ELSE 0)
  OBVIOUS
<1>5. Len(Pending') = l + p - r
  <2>1. answered => P # <<>>
    BY <1>2, <1>3 DEF Serves
  <2>2. Pending' = IF answered THEN Tail(Asked(P, b)) ELSE Asked(P, b)
    BY <1>2, <1>3 DEF Serves
  <2>. QED BY <1>3, <1>4, <2>1, <2>2, AskedLength
<1>6. acked' = r
  <2>1. dmem_ack' = answered
    BY <1>2 DEF Serves
  <2>2. acked' = IF dmem_ack' THEN 1 ELSE 0
    BY DEF acked
  <2>. QED BY <1>4, <2>1, <2>2
<1>7. /\ infl \in 0 .. CRED /\ CRED \in Nat /\ run_q \in BOOLEAN
      /\ (run_q => infl = l + a) /\ (~run_q => infl = 0)
  BY <1>3, DepthAssumption DEF IInv
<1>8. p = 1 => run_q /\ infl < CRED
  BY <1>4 DEF Edge, SoC
<1>9. run_q' \in BOOLEAN
  BY DEF Edge, Host
<1>10. /\ run_q /\ run_q' => infl' = infl + p - a
       /\ ~(run_q /\ run_q') => infl' = 0
  <2>1. a = IF dmem_ack THEN 1 ELSE 0
    BY <1>3 DEF acked
  <2>. QED BY <1>4, <2>1 DEF Edge, SoC
<1>11. infl' \in 0 .. CRED /\ (run_q' => infl' = l + p - r + r)
  <2>1. CASE run_q /\ run_q'
    <3>1. PICK i \in Int : i = infl'
      BY <1>7, <1>10, <2>1
    <3>2. i = infl + p - a /\ infl = l + a
      BY <1>7, <1>10, <2>1, <3>1
    <3>. QED BY <1>7, <1>8, <3>1, <3>2
  <2>2. CASE ~run_q /\ run_q'
    <3>1. dq_occ = 0 /\ dst = "IDLE" /\ ~dmem_ack
      BY <2>2 DEF Edge, Host, Drained, dq_empty
    <3>2. r = 0 /\ p = 0 /\ infl' = 0
      BY <1>2, <1>4, <1>8, <1>10, <2>2, <3>1
    <3>3. l = 0
      <4>1. Len(Waits) = 0 /\ Waits \in Seq(Beats) /\ Pending = <<>> \o Waits
        BY <3>1, PendingIs DEF IInv, PendingFits, OnBus
      <4>. QED BY <1>3, <4>1
    <3>. QED BY <1>7, <3>2, <3>3
  <2>3. CASE ~run_q'
    BY <1>7, <1>10, <2>3
  <2>. QED BY <2>1, <2>2, <2>3
<1>12. run_q' => infl' = Len(Pending') + acked'
  BY <1>5, <1>6, <1>11
<1>13. ~run_q' => infl' = 0
  BY <1>10
<1>. QED BY <1>1, <1>9, <1>11, <1>12, <1>13 DEF IInv

\* The same for a step or a stutter
LEMMA NextIInv ==
  ASSUME HostWaits, IInv, [Next]_vars
  PROVE  IInv'
<1>1. CASE Next
  BY <1>1, EdgeIInv DEF Next
<1>2. CASE UNCHANGED vars
  <2>1. BusOK' /\ RingOK' /\ acked' = acked /\ Pending' = Pending
    BY <1>2 DEF vars, IInv, BusOK, RingOK, acked, Pending, dq_occ
  <2>. QED BY <1>2, <2>1 DEF vars, IInv
<1>. QED BY <1>1, <1>2

\* sg0_bridge.sv:262 asserts that the ring never overruns: with a host that
\* restarts a drained bridge it cannot, because the SoC's credits count what
\* the bridge holds.
THEOREM CreditsCover ==
  ASSUME HostWaits
  PROVE  Spec => []CreditsCoverRing
<1>1. Init => IInv
  BY InitIInv
<1>2. IInv /\ [Next]_vars => IInv'
  BY NextIInv
<1>3. IInv => CreditsCoverRing
  BY IInvImplies
<1>. QED BY <1>1, <1>2, <1>3, PTL DEF Spec

-----------------------------------------------------------------------------
(* The bridge and the DRAM are a MemoryFace *)

OnWires == IF ~dmem_ack THEN NoAnswer ELSE IF cur.we THEN Ack ELSE dmem_rdata

\* The refinement mapping, by the operators above
LEMMA Mapping ==
  /\ [a \in Addrs |-> Seen(Len(Pending) + 1, a)] = FlatOf(dram, Pending)
  /\ [i \in 1 .. Len(Pending) |-> Promised(i)] = OwedOf(dram, Pending)
BY DEF FlatOf, OwedOf, SeenIn, Seen, Promised

\* Its initial states are the face's.
LEMMA FaceInit == Init => Face!Init
<1> SUFFICES ASSUME Init PROVE Face!Init
  OBVIOUS
<1>1. Pending = <<>> /\ dram = [a \in Addrs |-> Initial] /\ dram \in [Addrs -> Values]
  BY InitPending DEF Init, BusOK
<1>2. PICK P : P = <<>> /\ P = Pending
  BY <1>1
<1>3. P \in Seq(Beats) /\ Len(P) = 0 /\ Len(P) + 1 = 1
  BY <1>2
<1>4. Elements(dram, P)
  BY <1>1, <1>3, FaceType
<1>5. OwedOf(dram, P) = <<>>
  BY <1>2, <1>3, <1>4 DEF Elements
<1>6. FlatOf(dram, P) = [a \in Addrs |-> Initial]
  <2>1. \A a \in Addrs : SeenIn(dram, P, 1, a) = dram[a]
    BY SeenStep
  <2>2. \A a \in Addrs : FlatOf(dram, P)[a] = dram[a]
    BY <1>3, <1>4, <2>1 DEF Elements
  <2>3. FlatOf(dram, P) \in [Addrs -> Values]
    BY <1>4 DEF Elements
  <2>4. FlatOf(dram, P) = dram
    BY <1>1, <2>2, <2>3
  <2>. QED BY <1>1, <2>4
<1>7. OnWires = NoAnswer
  BY DEF Init, OnWires
<1>. QED BY <1>2, <1>5, <1>6, <1>7, Mapping DEF Face!Init, OnWires

\* The responses owed once beat b is asked
Due(M, P, b) ==
  IF b = NoBeat THEN OwedOf(M, P) ELSE Append(OwedOf(M, P), Face!Result(FlatOf(M, P), b))

\* A beat asked, and the head answered or not
QueueStep(M, P, b, answered, M1, P1) ==
  /\ answered => P # <<>>
  /\ P1 = IF answered THEN Tail(Asked(P, b)) ELSE Asked(P, b)
  /\ M1 = IF answered THEN Face!Apply(M, Head(P)) ELSE M

\* The face's view of it
LEMMA FaceEdge ==
  ASSUME NEW M \in [Addrs -> Values], NEW P \in Seq(Beats), NEW b \in Beats \union {NoBeat},
         NEW answered \in BOOLEAN, NEW P1, NEW M1, QueueStep(M, P, b, answered, M1, P1)
  PROVE  /\ FlatOf(M1, P1) = IF b = NoBeat THEN FlatOf(M, P) ELSE Face!Apply(FlatOf(M, P), b)
         /\ OwedOf(M1, P1) = IF answered THEN Tail(Due(M, P, b)) ELSE Due(M, P, b)
         /\ answered => Due(M, P, b) # <<>> /\ Head(Due(M, P, b)) = Face!Result(M, Head(P))
<1>. USE DEF QueueStep
<1>1. PICK Q \in Seq(Beats) : Q = Asked(P, b) /\ (answered => Q # <<>> /\ Head(Q) = Head(P))
  <2>1. CASE b = NoBeat
    BY <2>1 DEF Asked
  <2>2. CASE b # NoBeat
    <3>1. Append(P, b) \in Seq(Beats) /\ Append(P, b) # <<>>
      BY <2>2
    <3>2. P # <<>> => Head(Append(P, b)) = Head(P)
      BY <2>2
    <3>. QED BY <2>2, <3>1, <3>2 DEF Asked
  <2>. QED BY <2>1, <2>2
<1>2. FlatOf(M, Q) = (IF b = NoBeat THEN FlatOf(M, P) ELSE Face!Apply(FlatOf(M, P), b))
      /\ OwedOf(M, Q) = Due(M, P, b)
  <2>1. CASE b = NoBeat
    BY <1>1, <2>1 DEF Asked, Due
  <2>2. CASE b # NoBeat
    BY <1>1, <2>2, Requested DEF Asked, Due
  <2>. QED BY <2>1, <2>2
<1>3. CASE answered
  <2>1. /\ FlatOf(M1, P1) = FlatOf(M, Q)
        /\ OwedOf(M1, P1) = Tail(OwedOf(M, Q))
        /\ OwedOf(M, Q) # <<>>
        /\ Head(OwedOf(M, Q)) = Face!Result(M, Head(P))
    BY <1>1, <1>3, Served
  <2>. QED BY <1>2, <1>3, <2>1
<1>4. CASE ~answered
  BY <1>1, <1>2, <1>4
<1>. QED BY <1>3, <1>4

\* A clock edge of the bridge is an edge of the flat memory with the same beat.
LEMMA FaceNext == IInv /\ IInv' /\ [Next]_vars => [Face!Next]_(Face!faceVars)
<1> SUFFICES ASSUME IInv, IInv', [Next]_vars PROVE [Face!Next]_(Face!faceVars)
  OBVIOUS
<1>1. CASE Next
  <2>1. PICK b \in Beats \union {NoBeat}, axi \in SUBSET Waiting, ctl \in BOOLEAN : Edge(b, axi, ctl)
    BY <1>1 DEF Next
  <2>2. PICK answered \in BOOLEAN : Serves(b, answered)
    BY <2>1, EdgeServes
  <2>3. PICK P \in Seq(Beats), M \in [Addrs -> Values] : P = Pending /\ M = dram
    BY PendingIs DEF IInv, BusOK, PendingFits
  <2>4. PICK P1, M1 : P1 = Pending' /\ M1 = dram'
    OBVIOUS
  <2> DEFINE due == Due(M, P, b)
  <2>5. QueueStep(M, P, b, answered, M1, P1)
    BY <2>2, <2>3, <2>4 DEF Serves, QueueStep
  <2>6. /\ FlatOf(M1, P1) = IF b = NoBeat THEN FlatOf(M, P) ELSE Face!Apply(FlatOf(M, P), b)
        /\ OwedOf(M1, P1) = IF answered THEN Tail(due) ELSE due
        /\ answered => due # <<>> /\ Head(due) = Face!Result(M, Head(P))
    BY <2>5, FaceEdge
  <2> HIDE DEF due
  <2>7. OnWires' = IF answered THEN Head(due) ELSE NoAnswer
    <3>1. CASE answered
      <4>1. dmem_ack' = TRUE /\ cur' = cur /\ Head(P) = cur
        BY <2>2, <2>3, <3>1 DEF Serves
      <4>2. OnWires' = IF cur.we THEN Ack ELSE dmem_rdata'
        BY <4>1 DEF OnWires
      <4>3. (IF cur.we THEN Ack ELSE dmem_rdata') = Face!Result(M, cur)
        BY <2>2, <2>3, <3>1 DEF Serves
      <4>. QED BY <2>6, <3>1, <4>1, <4>2, <4>3
    <3>2. CASE ~answered
      <4>1. ~dmem_ack'
        BY <2>2, <3>2 DEF Serves
      <4>. QED BY <3>2, <4>1 DEF OnWires
    <3>. QED BY <3>1, <3>2
  <2>8. /\ [a \in Addrs |-> Seen(Len(Pending) + 1, a)] = FlatOf(M, P)
        /\ [i \in 1 .. Len(Pending) |-> Promised(i)] = OwedOf(M, P)
    BY <2>3, Mapping
  <2>9. /\ [a \in Addrs |-> Seen(Len(Pending) + 1, a)]' = FlatOf(M1, P1)
        /\ [i \in 1 .. Len(Pending) |-> Promised(i)]' = OwedOf(M1, P1)
    BY <2>4 DEF FlatOf, OwedOf, SeenIn, Seen, Promised
  <2>10. b # NoBeat => Face!MayRequest
    <3>1. SUFFICES ASSUME b # NoBeat PROVE Face!MayRequest
      OBVIOUS
    <3>2. run_q /\ infl < CRED
      BY <2>1, <3>1 DEF Edge, SoC
    <3>3. infl = Len(P) + acked
      BY <2>3, <3>2 DEF IInv
    <3>4. Len(OwedOf(M, P)) = Len(P)
      BY FaceType DEF Elements
    <3>5. (IF OnWires = NoAnswer THEN 0 ELSE 1) = acked
      <4>1. dmem_ack => OnWires \in Values \union {Ack}
        BY DEF IInv, BusOK, OnWires
      <4>2. dmem_ack => OnWires # NoAnswer
        BY <4>1, AnswerAssumption
      <4>3. ~dmem_ack => OnWires = NoAnswer
        BY DEF OnWires
      <4>. QED BY <4>2, <4>3 DEF acked
    <3>. QED BY <2>8, <3>2, <3>3, <3>4, <3>5 DEF Face!MayRequest, Face!Outstanding, OnWires
  <2>11. Face!Edge(b, answered)
    BY <2>6, <2>7, <2>8, <2>9, <2>10 DEF Face!Edge, OnWires, due, Due
  <2>12. b \in Face!Beats \union {NoBeat}
    BY DEF Beats, Face!Beats, Read, Write, Face!Read, Face!Write
  <2>. QED BY <2>11, <2>12 DEF Face!Next
<1>2. CASE UNCHANGED vars
  <2>1. Pending' = Pending /\ dram' = dram /\ OnWires' = OnWires
    BY <1>2 DEF vars, Pending, dq_occ, OnWires
  <2>2. UNCHANGED [a \in Addrs |-> Seen(Len(Pending) + 1, a)]
    BY <2>1 DEF Seen
  <2>3. UNCHANGED [i \in 1 .. Len(Pending) |-> Promised(i)]
    BY <2>1 DEF Seen, Promised
  <2>. QED BY <2>1, <2>2, <2>3 DEF Face!faceVars, OnWires
<1>. QED BY <1>1, <1>2

\* For every depth, credits, addresses and values, with such a host: one
\* response per beat, in request order, a read's with the value of the last
\* write pulsed before it (sg0_bridge.sv:27-36).
THEOREM BridgeIsFlatMemory ==
  ASSUME HostWaits
  PROVE  Spec => FlatMemoryFace
<1>1. Spec => []IInv
  <2>1. IInv /\ [Next]_vars => IInv'
    BY NextIInv
  <2>. QED BY <2>1, InitIInv, PTL DEF Spec
<1>2. IInv /\ IInv' /\ [Next]_vars => [Face!Next]_(Face!faceVars)
  BY FaceNext
<1>. QED BY <1>1, <1>2, FaceInit, PTL DEF Spec, FlatMemoryFace, Face!Spec

-----------------------------------------------------------------------------
(* What the host's program and the device's memory owe each other *)

Held == [addr : Nat, words : Seq(Nat)]
Specs == UNION {{s[k] : k \in DOMAIN s} : s \in Sessions}
HostType ==
  /\ transport \in {"sim", "uio"}
  /\ mem \in [0 .. HEAP_END - 1 -> Nat] /\ imem \in [0 .. ImageRoom - 1 -> Nat]
  /\ heap \in HEAP_BASE .. HEAP_END
  /\ bufs \subseteq Held /\ args \in Seq(Nat) /\ todo \in Seq(Specs)
  /\ call \in [at : {"none", "loop", "run"}, kernel : Nat, ran : Nat]
  /\ thread \in [Tids -> [at : Nat \ {0}, i : Nat, w : Nat]]
  /\ did \in [Tids -> [code : Nat, log : Seq(Nat)]]
  /\ outcome.kind \in {"none", "exhausted", "not implemented", "ok", "KernelAssert", "TimeoutError"}
  /\ launches \in Nat

\* The buffers lie in the heap, apart from one another.
BuffersApart ==
  /\ \A b \in bufs : Len(b.words) > 0 /\ HEAP_BASE <= b.addr /\ b.addr + Len(b.words) <= heap
  /\ \A b, c \in bufs : b = c \/ b.addr + Len(b.words) <= c.addr \/ c.addr + Len(c.words) <= b.addr

\* The arguments are what the session allocated.
Handed(s) ==
  /\ \A k \in DOMAIN args :
       /\ IsBuffer(s[k]) => \E b \in bufs :
            /\ b.addr = args[k] /\ Len(b.words) = Size(s[k])
            /\ s[k].kind = "out" /\ s[k].memset => \A x \in DOMAIN b.words : b.words[x] = 0
       /\ s[k].kind = "int" => args[k] = s[k].val
  /\ \A j, k \in DOMAIN args : j # k /\ IsBuffer(s[j]) /\ IsBuffer(s[k]) => args[j] # args[k]
Place(s) ==
  /\ Len(s) = Len(args) + Len(todo)
  /\ \A k \in DOMAIN todo : todo[k] = s[Len(args) + k]
  /\ Handed(s)
InSession == todo # <<>> => \E s \in Sessions : Place(s)

InCall == call.at \in {"loop", "run"}
Reported == outcome.kind \in {"ok", "KernelAssert", "TimeoutError"}
\* The kernel in memory is the session's, with its grid and arguments.
Called(s) ==
  /\ Len(s) = Len(args) + 1 /\ s[Len(s)].kind = "launch" /\ call.kernel = s[Len(s)].kernel
  /\ mem[PARAMS_BASE + 1] = Padded(s[Len(s)].grid_n)
  /\ \A k \in DOMAIN args : mem[PARAMS_BASE + 1 + k] = args[k]
  /\ Handed(s)
CallLegal == InCall => outcome.kind = "none" /\ todo = <<>> /\ \E s \in Sessions : Called(s)

\* The image in memory, and what a DONE word says of its thread.
ThreadsPlaced ==
  InCall \/ Reported =>
    /\ call.kernel \in DOMAIN Kernels /\ mem[0] = call.kernel
    /\ \A t \in Tids : /\ thread[t].at <= Len(Script(t)) + 2
                       /\ mem[DONE_BASE + t] \in {0, 1}
                       /\ mem[DONE_BASE + t] = 1 => thread[t].at = Len(Script(t)) + 2
ImageLaunched == call.kernel # 0 => (IF transport = "uio" THEN imem[0] ELSE mem[0]) = call.kernel

HostInv == HostType /\ BuffersApart /\ InSession /\ CallLegal /\ ThreadsPlaced /\ ImageLaunched

\* The reports in memory are the threads'; a ring over the ASSERT words is empty.
ReportsMatch ==
  /\ \A t \in Tids : LogRing(t) + LOG_SLOTS >= ASSERT_BASE => did[t].log = <<>>
  /\ InCall \/ Reported => \A t \in Tids :
       /\ mem[ASSERT_BASE + t] = did[t].code
       /\ mem[LogRing(t)] = Len(did[t].log) /\ Len(did[t].log) <= LOG_SLOTS
       /\ \A k \in DOMAIN did[t].log : mem[LogRing(t) + k] = did[t].log[k]
  /\ Reported =>
       /\ outcome.fails = _assert_failures
       /\ outcome.kind = "ok" => \A t \in Tids : mem[DONE_BASE + t] = 1

\* Outside a launch a buffer holds what the program expects; in one, so does a
\* buffer that the kernel does not write.
Kept ==
  \A b \in bufs :
    ~InCall \/ b.addr \notin Written(Kernels[call.kernel][0]) =>
      \A k \in DOMAIN b.words : mem[b.addr + k - 1] = b.words[k]

\* A thread that trapped has parked without its DONE word.
Trapped(t) == thread[t].at = Len(Script(t)) + 2 /\ mem[DONE_BASE + t] = 0
Arrived(t, p) == thread[t].at > p \/ (thread[t].at = p /\ thread[t].w > 0)
Ops == Kernels[call.kernel][0]
\* How many operations are behind word j of a buffer for a thread at a place of its
\* script.  Word j is thread j % NTHREADS's.
Level(place, j) ==
  IF \/ place.at > Len(Ops)
     \/ Ops[place.at].op = "add" /\ j < place.i
     \/ Ops[place.at].op = "barrier" /\ place.w > 0
  THEN IF place.at > Len(Ops) THEN Len(Ops) ELSE place.at
  ELSE place.at - 1
\* The words of a buffer after p operations
WordsLeft(p, b) == WordsAt(HeldAfter(Ops)[p], b.addr)

\* A thread is past a barrier when every thread has arrived there.
Met ==
  \A p \in DOMAIN Ops : Ops[p].op = "barrier" => \A t, u \in Tids :
    /\ thread[t].at > p => Arrived(u, p)
    /\ thread[t].at = p /\ u + 1 < thread[t].w => Arrived(u, p)
\* A word is as the operations behind it leave it.
Computing ==
  \A b \in bufs : \A j \in 0 .. Len(b.words) - 1 :
    mem[b.addr + j] = WordsLeft(Level(thread[j % NTHREADS], j), b)[j + 1]
Striding == \A t \in Tids : thread[t].i % NTHREADS = t /\ thread[t].w <= NTHREADS
OnTrack == InCall /\ (\A t \in Tids : ~Trapped(t)) => Met /\ Computing /\ Striding

-----------------------------------------------------------------------------
(* The layout of the device's memory *)

\* The areas of the device's memory follow one another.
LEMMA Areas ==
  /\ NTHREADS \in Nat \ {0} /\ LOG_SLOTS \in Nat /\ LOG_SLOTS >= 2
  /\ Modulus \in Nat \ {0} /\ TrapBit \in Nat \ {0} /\ HeapRoom \in Nat \ {0}
  /\ ImageRoom \in Nat \ {0} /\ ParamRoom \in Nat
  /\ PARAMS_BASE = ImageRoom /\ DONE_BASE = PARAMS_BASE + ParamRoom /\ LOG_BASE = DONE_BASE + NTHREADS
  /\ PARAMS_BASE \in Nat /\ DONE_BASE \in Nat /\ LOG_BASE \in Nat /\ ASSERT_BASE \in Nat
  /\ LOG_BASE <= ASSERT_BASE /\ HEAP_BASE = ASSERT_BASE + NTHREADS /\ HEAP_BASE \in Nat
  /\ HEAP_END = HEAP_BASE + HeapRoom /\ HEAP_END \in Nat
  /\ 0 \in Tids /\ Tids = 0 .. NTHREADS - 1
<1>1. PICK n \in Nat : n = NTHREADS * LOG_SLOTS
  BY LayoutAssumption
<1>2. ASSERT_BASE = LOG_BASE + n
  BY <1>1 DEF ASSERT_BASE
<1>. QED BY <1>2, LayoutAssumption DEF PARAMS_BASE, DONE_BASE, LOG_BASE, HEAP_BASE, HEAP_END, Tids

\* The rings of the log follow one another up to the heap.
LEMMA Rings ==
  /\ \A t \in Tids : /\ LogRing(t) \in Nat /\ LOG_BASE <= LogRing(t)
                     /\ LogRing(t) + LOG_SLOTS < HEAP_BASE
  /\ \A t, u \in Tids : t < u => LogRing(t) + LOG_SLOTS < LogRing(u)
<1> DEFINE w == LOG_SLOTS + 1
<1>1. w \in Nat /\ w = LOG_SLOTS + 1 /\ LOG_SLOTS \in Nat /\ LOG_BASE \in Nat /\ NTHREADS \in Nat
  BY Areas
<1> HIDE DEF w
<1>2. \A t \in Tids : LogRing(t) = LOG_BASE + t * w
  BY DEF LogRing, w
<1>3. HEAP_BASE = LOG_BASE + NTHREADS * w
  BY LayoutAssumption, <1>1 DEF HEAP_BASE, ASSERT_BASE
<1>4. \A t \in Tids : t * w \in Nat /\ (t + 1) * w = t * w + w /\ (t + 1) * w <= NTHREADS * w /\ NTHREADS * w \in Nat
  <2> TAKE t \in Tids
  <2>1. t \in Nat /\ t + 1 \in Nat /\ t + 1 <= NTHREADS
    BY Areas
  <2>. QED BY <2>1, <1>1, TimesGrows
<1>5. \A t, u \in Tids : t < u => (t + 1) * w <= u * w
  <2> TAKE t, u \in Tids
  <2>1. t \in Nat /\ u \in Nat
    BY Areas
  <2>. QED BY <2>1, <1>1, TimesGrows
<1>6. \A t \in Tids : /\ LogRing(t) \in Nat /\ LOG_BASE <= LogRing(t)
                      /\ LogRing(t) + LOG_SLOTS < HEAP_BASE
  BY <1>1, <1>2, <1>3, <1>4
<1>7. ASSUME NEW t \in Tids, NEW u \in Tids, t < u
      PROVE  LogRing(t) + LOG_SLOTS < LogRing(u)
  <2>1. PICK x \in Nat, y \in Nat : x = t * w /\ y = u * w
    BY <1>4
  <2>2. x + w <= y
    BY <2>1, <1>4, <1>5, <1>7
  <2>. QED BY <2>1, <2>2, <1>1, <1>2
<1>. QED BY <1>6, <1>7

\* Words stored where they fit.
LEMMA StoredWords ==
  ASSUME NEW n \in Nat, NEW m \in [0 .. n - 1 -> Nat], NEW a \in Nat, NEW words \in Seq(Nat)
  PROVE  /\ Stored(m, a, words) \in [0 .. n - 1 -> Nat]
         /\ \A k \in 1 .. Len(words) : a + k - 1 < n => Stored(m, a, words)[a + k - 1] = words[k]
         /\ \A x \in 0 .. n - 1 : x < a \/ a + Len(words) <= x => Stored(m, a, words)[x] = m[x]
<1>1. \A x \in 0 .. n - 1 : x - a \in 0 .. Len(words) - 1 => x - a + 1 \in 1 .. Len(words)
  OBVIOUS
<1>2. \A k \in 1 .. Len(words) : words[k] \in Nat
  OBVIOUS
<1>3. \A x \in 0 .. n - 1 : Stored(m, a, words)[x] = IF x - a \in 0 .. Len(words) - 1 THEN words[x - a + 1] ELSE m[x]
  BY DEF Stored
<1>4. DOMAIN Stored(m, a, words) = 0 .. n - 1 /\ Stored(m, a, words) = [x \in 0 .. n - 1 |-> Stored(m, a, words)[x]]
  BY DEF Stored
<1>5. \A x \in 0 .. n - 1 : Stored(m, a, words)[x] \in Nat
  BY <1>1, <1>2, <1>3
<1>6. ASSUME NEW k \in 1 .. Len(words), a + k - 1 < n
      PROVE  Stored(m, a, words)[a + k - 1] = words[k]
  <2>1. a + k - 1 \in 0 .. n - 1 /\ (a + k - 1) - a \in 0 .. Len(words) - 1 /\ (a + k - 1) - a + 1 = k
    BY <1>6
  <2>. QED BY <2>1, <1>3
<1>7. Stored(m, a, words) \in [0 .. n - 1 -> Nat]
  <2> DEFINE f == Stored(m, a, words)
  <2>1. f = [x \in 0 .. n - 1 |-> f[x]] /\ \A x \in 0 .. n - 1 : f[x] \in Nat
    BY <1>4, <1>5
  <2> HIDE DEF f
  <2>2. f \in [0 .. n - 1 -> Nat]
    BY <2>1
  <2>. QED BY <2>2 DEF f
<1>8. \A x \in 0 .. n - 1 : x < a \/ a + Len(words) <= x => Stored(m, a, words)[x] = m[x]
  BY <1>3
<1>. QED BY <1>6, <1>7, <1>8

\* A tid's padding of the grid is a number.
LEMMA PaddedNat ==
  ASSUME NEW grid_n \in Nat
  PROVE  Padded(grid_n) \in Nat
<1>1. PICK n \in Nat \ {0}, y \in Nat : n = NTHREADS /\ y = grid_n + n - 1
  BY Areas
<1>2. PICK q \in Int : q = y \div n /\ q >= 0
  OBVIOUS
<1>3. q * n \in Nat
  BY <1>2
<1>. QED BY <1>1, <1>2, <1>3 DEF Padded

\* A sequence before another
LEMMA Concatenated ==
  ASSUME NEW p \in Seq(Nat), Len(p) = 2, NEW s \in Seq(Nat), NEW q, q = p \o s
  PROVE  /\ q \in Seq(Nat) /\ Len(q) = Len(s) + 2 /\ q[2] = p[2]
         /\ \A k \in 1 .. Len(s) : q[k + 2] = s[k]
<1>1. PICK a \in Nat : a = Len(s)
  OBVIOUS
<1>2. /\ q \in Seq(Nat) /\ Len(q) = Len(p) + Len(s)
      /\ \A i \in 1 .. Len(p) + Len(s) : q[i] = IF i <= Len(p) THEN p[i] ELSE s[i - Len(p)]
  BY ConcatProperties
<1>3. Len(q) = Len(s) + 2 /\ q[2] = p[2]
  BY <1>1, <1>2
<1>4. ASSUME NEW k \in 1 .. Len(s)
      PROVE  q[k + 2] = s[k]
  <2>1. k + 2 \in 1 .. Len(p) + Len(s) /\ ~(k + 2 <= Len(p)) /\ (k + 2) - Len(p) = k
    BY <1>1
  <2>. QED BY <1>2, <2>1
<1>. QED BY <1>2, <1>3, <1>4

Writing == [addr : Nat, words : Seq(Nat)]

\* The writes of a launch: the image, the parameters, and zeros up to the heap.
LEMMA WritesOf ==
  ASSUME NEW kernel \in Nat, NEW grid_n \in Nat, args \in Seq(Nat)
  PROVE  \E w1, w2, w3, w4, w5 \in Writing :
         /\ LaunchWrites(kernel, grid_n) = <<w1, w2, w3, w4, w5>>
         /\ w1.addr = 0 /\ Len(w1.words) = 1 /\ w1.words[1] = kernel
         /\ w2.addr = PARAMS_BASE /\ Len(w2.words) = Len(args) + 2
         /\ w2.words[2] = Padded(grid_n) /\ \A k \in 1 .. Len(args) : w2.words[k + 2] = args[k]
         /\ w3.addr = DONE_BASE /\ w3.words = Zeros(NTHREADS)
         /\ w4.addr = ASSERT_BASE /\ w4.words = Zeros(NTHREADS)
         /\ w5.addr = LOG_BASE /\ w5.words = Zeros(HEAP_BASE - LOG_BASE)
<1>1. \A n \in Nat : Zeros(n) \in Seq(Nat)
  BY DEF Zeros
<1>2. PICK n \in Nat : n = NTHREADS * (LOG_SLOTS + 1) /\ n = HEAP_BASE - LOG_BASE
  <2>1. NTHREADS * (LOG_SLOTS + 1) = NTHREADS * LOG_SLOTS + NTHREADS /\ NTHREADS * LOG_SLOTS \in Nat
    BY LayoutAssumption
  <2>. QED BY <2>1, Areas DEF HEAP_BASE, ASSERT_BASE
<1>3. <<Len(args), Padded(grid_n)>> \in Seq(Nat) /\ Len(<<Len(args), Padded(grid_n)>>) = 2
      /\ <<Len(args), Padded(grid_n)>>[2] = Padded(grid_n)
  BY PaddedNat
<1>4. /\ Parameters(grid_n) \in Seq(Nat) /\ Len(Parameters(grid_n)) = Len(args) + 2
      /\ Parameters(grid_n)[2] = Padded(grid_n)
      /\ \A k \in 1 .. Len(args) : Parameters(grid_n)[k + 2] = args[k]
  <2>1. PICK p \in Seq(Nat) : p = <<Len(args), Padded(grid_n)>> /\ Len(p) = 2 /\ p[2] = Padded(grid_n)
    BY <1>3
  <2>2. Parameters(grid_n) = p \o args
    BY <2>1 DEF Parameters
  <2>. QED BY <2>1, <2>2, Concatenated
<1>5. <<kernel>> \in Seq(Nat) /\ Len(<<kernel>>) = 1 /\ <<kernel>>[1] = kernel
  OBVIOUS
<1> DEFINE w1 == write(0, <<kernel>>)
           w2 == write(PARAMS_BASE, Parameters(grid_n))
           w3 == write(DONE_BASE, Zeros(NTHREADS))
           w4 == write(ASSERT_BASE, Zeros(NTHREADS))
           w5 == write(LOG_BASE, Zeros(n))
<1>6. LaunchWrites(kernel, grid_n) = <<w1, w2, w3, w4, w5>>
  BY <1>2 DEF LaunchWrites
<1>7. /\ w1 \in Writing /\ w2 \in Writing /\ w3 \in Writing /\ w4 \in Writing /\ w5 \in Writing
  <2>1. \A a \in Nat, words \in Seq(Nat) : write(a, words) \in Writing
    BY DEF Writing, write
  <2>. QED BY <1>1, <1>2, <1>4, <1>5, <2>1, Areas
<1>8. /\ w1.addr = 0 /\ w1.words = <<kernel>> /\ w2.addr = PARAMS_BASE /\ w2.words = Parameters(grid_n)
      /\ w3.addr = DONE_BASE /\ w3.words = Zeros(NTHREADS) /\ w4.addr = ASSERT_BASE /\ w4.words = Zeros(NTHREADS)
      /\ w5.addr = LOG_BASE /\ w5.words = Zeros(HEAP_BASE - LOG_BASE)
  BY <1>2 DEF write
<1> HIDE DEF w1, w2, w3, w4, w5
<1>9. /\ Len(w1.words) = 1 /\ w1.words[1] = kernel /\ Len(w2.words) = Len(args) + 2
      /\ w2.words[2] = Padded(grid_n) /\ \A k \in 1 .. Len(args) : w2.words[k + 2] = args[k]
  BY Zenon, <1>4, <1>5, <1>8
<1> USE <1>7
<1> WITNESS w1 \in Writing, w2 \in Writing, w3 \in Writing, w4 \in Writing, w5 \in Writing
<1>. QED BY Zenon, <1>6, <1>8, <1>9

\* A word of memory holds the last write that covers it.
LEMMA LastCovering ==
  ASSUME NEW m, NEW w1, NEW w2, NEW w3, NEW w4, NEW w5, NEW x \in DOMAIN m,
         NEW f, f = AllStored(m, <<w1, w2, w3, w4, w5>>)
  PROVE  /\ Covers(w1, x) /\ ~Covers(w2, x) /\ ~Covers(w3, x) /\ ~Covers(w4, x) /\ ~Covers(w5, x) =>
              f[x] = w1.words[x - w1.addr + 1]
         /\ Covers(w2, x) /\ ~Covers(w3, x) /\ ~Covers(w4, x) /\ ~Covers(w5, x) =>
              f[x] = w2.words[x - w2.addr + 1]
         /\ Covers(w3, x) /\ ~Covers(w4, x) /\ ~Covers(w5, x) => f[x] = w3.words[x - w3.addr + 1]
         /\ Covers(w5, x) => f[x] = w5.words[x - w5.addr + 1]
         /\ ~Covers(w1, x) /\ ~Covers(w2, x) /\ ~Covers(w3, x) /\ ~Covers(w4, x) /\ ~Covers(w5, x) =>
              f[x] = m[x]
<1> DEFINE ws == <<w1, w2, w3, w4, w5>>
<1>0. DOMAIN ws = 1 .. 5 /\ ws[1] = w1 /\ ws[2] = w2 /\ ws[3] = w3 /\ ws[4] = w4 /\ ws[5] = w5
  OBVIOUS
<1>f. f = AllStored(m, ws)
  OBVIOUS
<1> HIDE DEF ws
<1> DEFINE over == {k \in DOMAIN ws : Covers(ws[k], x)}
           last == ws[Max(over)]
<1>1. AllStored(m, ws)[x] = IF over = {} THEN m[x] ELSE last.words[x - last.addr + 1]
  BY DEF AllStored
<1>2. DOMAIN ws = 1 .. 5
  BY <1>0
<1>3. ASSUME NEW j \in 1 .. 5, Covers(ws[j], x), \A k \in j + 1 .. 5 : ~Covers(ws[k], x)
      PROVE  AllStored(m, ws)[x] = ws[j].words[x - ws[j].addr + 1]
  <2>1. j \in over /\ \A k \in over : k \in 1 .. 5 /\ k <= j
    BY <1>2, <1>3
  <2>2. Max(over) = j
    <3> HIDE DEF over
    <3>1. \E y \in over : \A z \in over : y >= z
      BY <2>1
    <3>2. Max(over) \in over /\ \A z \in over : Max(over) >= z
      BY Zenon, <3>1 DEF Max
    <3>3. Max(over) >= j /\ Max(over) <= j /\ Max(over) \in 1 .. 5
      BY <2>1, <3>2
    <3> HIDE DEF last
    <3>. QED BY <3>3
  <2>3. over # {}
    BY <2>1
  <2>. QED BY <1>1, <2>2, <2>3
<1>4. (\A k \in 1 .. 5 : ~Covers(ws[k], x)) => AllStored(m, ws)[x] = m[x]
  BY <1>1, <1>2
<1> HIDE DEF over, last
<1>5. /\ \A k \in 1 + 1 .. 5 : k \in {2, 3, 4, 5}
      /\ \A k \in 2 + 1 .. 5 : k \in {3, 4, 5}
      /\ \A k \in 3 + 1 .. 5 : k \in {4, 5}
      /\ 5 + 1 .. 5 = {} /\ 1 .. 5 = {1, 2, 3, 4, 5}
  OBVIOUS
<1>. QED BY <1>0, <1>f, <1>3, <1>4, <1>5

\* What a launch leaves in memory.
LEMMA LaunchMemory ==
  ASSUME HostType, NEW kernel \in Nat, NEW grid_n \in Nat, Len(args) + 2 <= ParamRoom,
         NEW m, m = AllStored(mem, LaunchWrites(kernel, grid_n))
  PROVE  /\ m \in [0 .. HEAP_END - 1 -> Nat]
         /\ m[0] = kernel /\ m[PARAMS_BASE + 1] = Padded(grid_n)
         /\ \A k \in DOMAIN args : m[PARAMS_BASE + 1 + k] = args[k]
         /\ \A x \in DONE_BASE .. HEAP_BASE - 1 : m[x] = 0
         /\ \A x \in HEAP_BASE .. HEAP_END - 1 : m[x] = mem[x]
<1>1. args \in Seq(Nat) /\ mem \in [0 .. HEAP_END - 1 -> Nat]
  BY Zenon DEF HostType
<1>2. PICK n \in Nat : n = Len(args) /\ DOMAIN args = 1 .. n /\ n + 2 <= ParamRoom
  BY <1>1
<1>a. PICK w1, w2, w3, w4, w5 \in Writing :
         /\ LaunchWrites(kernel, grid_n) = <<w1, w2, w3, w4, w5>>
         /\ w1.addr = 0 /\ Len(w1.words) = 1 /\ w1.words[1] = kernel
         /\ w2.addr = PARAMS_BASE /\ Len(w2.words) = Len(args) + 2
         /\ w2.words[2] = Padded(grid_n) /\ \A k \in 1 .. Len(args) : w2.words[k + 2] = args[k]
         /\ w3.addr = DONE_BASE /\ w3.words = Zeros(NTHREADS)
         /\ w4.addr = ASSERT_BASE /\ w4.words = Zeros(NTHREADS)
         /\ w5.addr = LOG_BASE /\ w5.words = Zeros(HEAP_BASE - LOG_BASE)
  BY Zenon, <1>1, WritesOf
<1>3.    /\ LaunchWrites(kernel, grid_n) = <<w1, w2, w3, w4, w5>>
         /\ w1.addr = 0 /\ Len(w1.words) = 1 /\ w1.words[1] = kernel
         /\ w2.addr = PARAMS_BASE /\ Len(w2.words) = n + 2
         /\ w2.words[2] = Padded(grid_n) /\ \A k \in 1 .. n : w2.words[k + 2] = args[k]
         /\ w3.addr = DONE_BASE /\ w3.words = Zeros(NTHREADS)
         /\ w4.addr = ASSERT_BASE /\ w4.words = Zeros(NTHREADS)
         /\ w5.addr = LOG_BASE /\ w5.words = Zeros(HEAP_BASE - LOG_BASE)
  BY Zenon, <1>2, <1>a
<1>4. \A l \in Nat : Len(Zeros(l)) = l /\ \A k \in 1 .. l : Zeros(l)[k] = 0
  BY DEF Zeros
<1>5. Len(w3.words) = NTHREADS /\ Len(w4.words) = NTHREADS /\ Len(w5.words) = HEAP_BASE - LOG_BASE
  <2>1. NTHREADS \in Nat /\ HEAP_BASE - LOG_BASE \in Nat
    BY Areas
  <2>. QED BY Zenon, <1>3, <1>4, <2>1
<1>6. \A x \in Int :
        /\ Covers(w1, x) <=> x = 0
        /\ Covers(w2, x) <=> PARAMS_BASE <= x /\ x < PARAMS_BASE + n + 2
        /\ Covers(w3, x) <=> DONE_BASE <= x /\ x < LOG_BASE
        /\ Covers(w4, x) <=> ASSERT_BASE <= x /\ x < HEAP_BASE
        /\ Covers(w5, x) <=> LOG_BASE <= x /\ x < HEAP_BASE
  <2>1. PICK a2 \in Nat, a3 \in Nat, a4 \in Nat, a5 \in Nat, e \in Nat, th \in Nat :
          /\ a2 = PARAMS_BASE /\ a3 = DONE_BASE /\ a4 = ASSERT_BASE /\ a5 = LOG_BASE /\ e = HEAP_BASE /\ th = NTHREADS
          /\ a5 = a3 + th /\ e = a4 + th
    BY Areas
  <2>2. /\ w1.addr = 0 /\ Len(w1.words) = 1 /\ w2.addr = a2 /\ Len(w2.words) = n + 2
        /\ w3.addr = a3 /\ Len(w3.words) = th /\ w4.addr = a4 /\ Len(w4.words) = th
        /\ w5.addr = a5 /\ Len(w5.words) = e - a5
    BY Zenon, <1>3, <1>5, <2>1
  <2>. QED BY <2>1, <2>2 DEF Covers
<1>7. m = AllStored(mem, <<w1, w2, w3, w4, w5>>)
  BY <1>3
<1>9. ASSUME NEW x \in 0 .. HEAP_END - 1
      PROVE  /\ x = 0 => m[x] = kernel
             /\ \A k \in 1 .. n + 2 : x = PARAMS_BASE + k - 1 => m[x] = w2.words[k]
             /\ DONE_BASE <= x /\ x < HEAP_BASE => m[x] = 0
             /\ x >= HEAP_BASE => m[x] = mem[x]
             /\ m[x] \in Nat
  <2>1. x \in DOMAIN mem /\ x \in Int /\ mem[x] \in Nat
    BY <1>1, Areas
  <2>2. /\ Covers(w1, x) /\ ~Covers(w2, x) /\ ~Covers(w3, x) /\ ~Covers(w4, x) /\ ~Covers(w5, x) =>
             m[x] = w1.words[x - w1.addr + 1]
        /\ Covers(w2, x) /\ ~Covers(w3, x) /\ ~Covers(w4, x) /\ ~Covers(w5, x) =>
             m[x] = w2.words[x - w2.addr + 1]
        /\ Covers(w3, x) /\ ~Covers(w4, x) /\ ~Covers(w5, x) => m[x] = w3.words[x - w3.addr + 1]
        /\ Covers(w5, x) => m[x] = w5.words[x - w5.addr + 1]
        /\ ~Covers(w1, x) /\ ~Covers(w2, x) /\ ~Covers(w3, x) /\ ~Covers(w4, x) /\ ~Covers(w5, x) =>
             m[x] = mem[x]
    BY ONLY <1>7, <2>1, LastCovering
  <2>3. CASE x = 0
    <3>1. m[x] = kernel
      BY <1>3, <1>6, <2>1, <2>2, <2>3, Areas
    <3>2. \A k \in 1 .. n + 2 : x # PARAMS_BASE + k - 1
      BY <2>3, Areas
    <3>3. ~(DONE_BASE <= x) /\ ~(x >= HEAP_BASE) /\ m[x] \in Nat
      BY <2>3, <3>1, Areas
    <3>. QED BY Zenon, <3>1, <3>2, <3>3
  <2>4. CASE PARAMS_BASE <= x /\ x < PARAMS_BASE + n + 2
    <3>1. m[x] = w2.words[x - PARAMS_BASE + 1]
      BY <1>2, <1>3, <1>6, <2>1, <2>2, <2>4, Areas, SMTT(30)
    <3>2. x - PARAMS_BASE + 1 \in 1 .. n + 2 /\ x # 0 /\ x < DONE_BASE
      BY <1>2, <2>4, Areas
    <3>3. w2.words \in Seq(Nat) /\ w2.words[x - PARAMS_BASE + 1] \in Nat
      <4>1. w2.words \in Seq(Nat) /\ DOMAIN w2.words = 1 .. n + 2
        BY <1>3 DEF Writing
      <4>. QED BY <3>2, <4>1, SMTT(30)
    <3>4. \A k \in 1 .. n + 2 : x = PARAMS_BASE + k - 1 => k = x - PARAMS_BASE + 1
      BY Areas
    <3>. QED BY <3>1, <3>2, <3>3, <3>4, Areas
  <2>5. CASE DONE_BASE <= x /\ x < LOG_BASE
    <3>6. Covers(w3, x) /\ ~Covers(w4, x) /\ ~Covers(w5, x)
      BY <1>6, <2>1, <2>5, Areas
    <3>1. m[x] = w3.words[x - DONE_BASE + 1]
      BY <1>3, <2>2, <3>6
    <3>2. x - DONE_BASE + 1 \in 1 .. NTHREADS
      BY <2>5, Areas
    <3>3. m[x] = 0
      <4>1. NTHREADS \in Nat
        BY Areas
      <4>. QED BY <1>3, <1>4, <3>1, <3>2, <4>1
    <3>4. \A k \in 1 .. n + 2 : x # PARAMS_BASE + k - 1
      BY <1>2, <2>5, Areas
    <3>. QED BY <2>5, <3>3, <3>4, Areas
  <2>6. CASE LOG_BASE <= x /\ x < HEAP_BASE
    <3>1. m[x] = w5.words[x - LOG_BASE + 1]
      BY <1>3, <1>6, <2>1, <2>2, <2>6
    <3>2. x - LOG_BASE + 1 \in 1 .. HEAP_BASE - LOG_BASE /\ HEAP_BASE - LOG_BASE \in Nat
      BY <2>6, Areas
    <3>3. m[x] = 0
      BY <1>3, <1>4, <3>1, <3>2
    <3>4. \A k \in 1 .. n + 2 : x # PARAMS_BASE + k - 1
      BY <1>2, <2>6, Areas
    <3>. QED BY <2>6, <3>3, <3>4, Areas
  <2>7. CASE /\ x # 0 /\ ~(PARAMS_BASE <= x /\ x < PARAMS_BASE + n + 2)
             /\ x < DONE_BASE \/ x >= HEAP_BASE
    <3>1. m[x] = mem[x]
      BY <1>6, <2>1, <2>2, <2>7, Areas
    <3>2. \A k \in 1 .. n + 2 : x # PARAMS_BASE + k - 1
      BY <2>7, Areas
    <3>. QED BY <2>1, <2>7, <3>1, <3>2, Areas
  <2>. QED BY <2>3, <2>4, <2>5, <2>6, <2>7, Areas
<1>10. DOMAIN m = 0 .. HEAP_END - 1 /\ m = [x \in DOMAIN m |-> m[x]]
  BY <1>1 DEF AllStored
<1>11. m \in [0 .. HEAP_END - 1 -> Nat]
  BY <1>9, <1>10
<1>12. m[0] = kernel
  BY <1>9, Areas
<1>13. ASSUME NEW k \in 1 .. n + 2
       PROVE  m[PARAMS_BASE + k - 1] = w2.words[k]
  <2>1. PARAMS_BASE + k - 1 \in 0 .. HEAP_END - 1
    BY <1>2, Areas
  <2>. QED BY <1>9, <2>1
<1>14. m[PARAMS_BASE + 1] = Padded(grid_n)
  <2>1. 2 \in 1 .. n + 2 /\ PARAMS_BASE + 2 - 1 = PARAMS_BASE + 1
    BY Areas
  <2>. QED BY ZenonT(40), <1>3, <1>13, <2>1
<1>15. ASSUME NEW k \in DOMAIN args
       PROVE  m[PARAMS_BASE + 1 + k] = args[k]
  <2>1. k + 2 \in 1 .. n + 2 /\ PARAMS_BASE + (k + 2) - 1 = PARAMS_BASE + 1 + k /\ k \in 1 .. n
    BY <1>2, Areas
  <2>2. m[PARAMS_BASE + (k + 2) - 1] = w2.words[k + 2]
    BY <1>13, <2>1
  <2>. QED BY <1>3, <2>1, <2>2
<1>16. /\ \A x \in DONE_BASE .. HEAP_BASE - 1 : m[x] = 0
       /\ \A x \in HEAP_BASE .. HEAP_END - 1 : m[x] = mem[x]
  BY <1>9, Areas
<1>. QED BY <1>11, <1>12, <1>14, <1>15, <1>16

\* The bridge's instruction memory then holds the image.
LEMMA LaunchImage ==
  ASSUME HostType, NEW kernel \in Nat, NEW grid_n \in Nat,
         NEW m, m = AllStored(imem, LaunchWrites(kernel, grid_n))
  PROVE  m \in [0 .. ImageRoom - 1 -> Nat] /\ m[0] = kernel
<1>1. args \in Seq(Nat) /\ imem \in [0 .. ImageRoom - 1 -> Nat]
  BY Zenon DEF HostType
<1>2. PICK w1, w2, w3, w4, w5 \in Writing :
         /\ LaunchWrites(kernel, grid_n) = <<w1, w2, w3, w4, w5>>
         /\ w1.addr = 0 /\ Len(w1.words) = 1 /\ w1.words[1] = kernel
         /\ w2.addr = PARAMS_BASE /\ Len(w2.words) = Len(args) + 2
         /\ w2.words[2] = Padded(grid_n) /\ \A k \in 1 .. Len(args) : w2.words[k + 2] = args[k]
         /\ w3.addr = DONE_BASE /\ w3.words = Zeros(NTHREADS)
         /\ w4.addr = ASSERT_BASE /\ w4.words = Zeros(NTHREADS)
         /\ w5.addr = LOG_BASE /\ w5.words = Zeros(HEAP_BASE - LOG_BASE)
  BY Zenon, <1>1, WritesOf
<1>3. \A x \in 0 .. ImageRoom - 1 :
        /\ Covers(w1, x) <=> x = 0
        /\ ~Covers(w2, x) /\ ~Covers(w3, x) /\ ~Covers(w4, x) /\ ~Covers(w5, x)
  <2>2. \A x \in 0 .. ImageRoom - 1 : Covers(w1, x) <=> x = 0
    BY <1>2, Areas DEF Covers
  <2>3. \A w \in {w2, w3, w4, w5} : w.addr >= ImageRoom /\ w.addr \in Nat
    <3>1. \A a \in {PARAMS_BASE, DONE_BASE, LOG_BASE, ASSERT_BASE} : a >= ImageRoom /\ a \in Nat
      BY Areas
    <3>. QED BY <1>2, <3>1
  <2>4. \A w \in {w2, w3, w4, w5} : \A x \in 0 .. ImageRoom - 1 : ~Covers(w, x)
    BY <2>3, Areas DEF Covers
  <2>. QED BY <2>2, <2>4
<1>4. m = AllStored(imem, <<w1, w2, w3, w4, w5>>)
  BY <1>2
<1>6. ASSUME NEW x \in 0 .. ImageRoom - 1
      PROVE  m[x] = IF x = 0 THEN kernel ELSE imem[x]
  <2>1. x \in DOMAIN imem
    BY <1>1
  <2>2. /\ Covers(w1, x) /\ ~Covers(w2, x) /\ ~Covers(w3, x) /\ ~Covers(w4, x) /\ ~Covers(w5, x) =>
             m[x] = w1.words[x - w1.addr + 1]
        /\ ~Covers(w1, x) /\ ~Covers(w2, x) /\ ~Covers(w3, x) /\ ~Covers(w4, x) /\ ~Covers(w5, x) =>
             m[x] = imem[x]
    BY ONLY <1>4, <2>1, LastCovering
  <2>. QED BY <1>2, <1>3, <2>2
<1>7. DOMAIN m = 0 .. ImageRoom - 1 /\ m = [x \in DOMAIN m |-> m[x]]
  BY <1>1 DEF AllStored
<1>8. \A x \in 0 .. ImageRoom - 1 : m[x] \in Nat
  BY <1>1, <1>6
<1>9. 0 \in 0 .. ImageRoom - 1
  BY Areas
<1>. QED BY <1>6, <1>7, <1>8, <1>9

-----------------------------------------------------------------------------
(* The kernel's operations, and the buffers they are given *)

\* The operation finds its buffers among the program's.
OpHeld(op) ==
  /\ op.op = "add" =>
       /\ op.n \in DOMAIN args /\ args[op.n] <= mk_grid_n
       /\ \A k \in {op.a, op.b, op.c} :
            k \in DOMAIN args /\ \E b \in bufs : b.addr = args[k] /\ args[op.n] <= Len(b.words)
  /\ op.op = "combine" =>
       /\ op.src \in DOMAIN args /\ \E b \in bufs : b.addr = args[op.src] /\ Len(b.words) = op.n
       /\ op.dst \in DOMAIN args /\ \E b \in bufs : b.addr = args[op.dst] /\ Len(b.words) = 1
  /\ op.op = "barrier" =>
       op.scr \in DOMAIN args /\ \E b \in bufs :
         b.addr = args[op.scr] /\ Len(b.words) = 2 * NTHREADS /\ \A x \in DOMAIN b.words : b.words[x] = 0

\* A session is a legal sequence of what the program does.
LEMMA SessionFacts ==
  ASSUME NEW s \in Sessions
  PROVE  /\ s \in Seq(Specs) /\ Len(s) \in Nat /\ DOMAIN s = 1 .. Len(s) /\ Len(s) + 1 <= ParamRoom
         /\ \A k \in DOMAIN s : SpecLegal(s[k]) /\ (s[k].kind = "launch" => k = Len(s))
         /\ \A k \in DOMAIN s : s[k].kind = "launch" =>
              \A t \in Tids : \A p \in DOMAIN Kernels[s[k].kernel][t] :
                Fits(Kernels[s[k].kernel][t][p], s, s[k].grid_n)
<1> DEFINE R == {s[k] : k \in DOMAIN s}
<1>1. s \in Seq(R) /\ SessionLegal(s)
  BY Zenon, ProgramAssumption
<1>2. R \subseteq Specs
  BY Zenon DEF Specs
<1> HIDE DEF R
<1>3. s \in Seq(Specs) /\ Len(s) \in Nat /\ DOMAIN s = 1 .. Len(s)
  BY <1>1, <1>2
<1>. QED BY Zenon, <1>1, <1>3 DEF SessionLegal

\* A thread's script is a sequence of legal operations.
LEMMA ScriptFacts ==
  ASSUME NEW k \in DOMAIN Kernels, NEW t \in Tids
  PROVE  /\ k \in Nat \ {0} /\ Len(Kernels[k][t]) \in Nat /\ DOMAIN Kernels[k][t] = 1 .. Len(Kernels[k][t])
         /\ \A p \in DOMAIN Kernels[k][t] : OpLegal(Kernels[k][t][p])
<1>1. PICK script, R : script = Kernels[k][t] /\ script \in Seq(R)
  BY ProgramAssumption
<1>2. Len(script) \in Nat /\ DOMAIN script = 1 .. Len(script)
  BY <1>1
<1>. QED BY <1>1, <1>2, ProgramAssumption

\* In a call every operation of the kernel fits the buffers it was given.
LEMMA OpsHeld ==
  ASSUME HostInv, InCall
  PROVE  /\ call.kernel \in DOMAIN Kernels /\ mem[0] = call.kernel
         /\ \A k \in DOMAIN args : mk_arg(k) = args[k]
         /\ \A t \in Tids : Script(t) = Kernels[call.kernel][t]
         /\ \A t \in Tids : \A p \in DOMAIN Script(t) : OpHeld(Script(t)[p])
<1>1. PICK s \in Sessions : Called(s)
  BY DEF HostInv, CallLegal
<1>2. args \in Seq(Nat) /\ mem[0] = call.kernel
  BY Zenon DEF HostInv, HostType, ThreadsPlaced
<1>3. PICK n \in Nat : n = Len(args) /\ DOMAIN args = 1 .. n
  BY <1>2
<1>4. /\ Len(s) = n + 1 /\ s[n + 1].kind = "launch" /\ call.kernel = s[n + 1].kernel
      /\ mem[PARAMS_BASE + 1] = Padded(s[n + 1].grid_n)
      /\ \A k \in DOMAIN args : mem[PARAMS_BASE + 1 + k] = args[k]
      /\ Handed(s)
  BY <1>1, <1>3 DEF Called
<1>5. /\ n + 1 \in DOMAIN s /\ SpecLegal(s[n + 1])
      /\ \A t \in Tids : \A p \in DOMAIN Kernels[call.kernel][t] :
           Fits(Kernels[call.kernel][t][p], s, s[n + 1].grid_n)
  BY <1>3, <1>4, SessionFacts
<1>6. call.kernel \in DOMAIN Kernels
  BY <1>4, <1>5 DEF SpecLegal
<1>7. \A t \in Tids : Script(t) = Kernels[call.kernel][t]
  BY <1>2 DEF Script
<1>8. \A k \in DOMAIN args : mk_arg(k) = args[k]
  BY <1>4 DEF mk_arg
<1>b. \A k \in DOMAIN args : IsBuffer(s[k]) => \E b \in bufs : b.addr = args[k] /\ Len(b.words) = Size(s[k])
  BY Zenon, <1>4 DEF Handed
<1>9. ASSUME NEW t \in Tids, NEW p \in DOMAIN Script(t)
      PROVE  OpHeld(Script(t)[p])
  <2>1. PICK op : op = Script(t)[p] /\ Fits(op, s, s[n + 1].grid_n)
    BY <1>5, <1>7
  <2>2. \A k : k \in 1 .. Len(s) - 1 <=> k \in DOMAIN args
    BY <1>3, <1>4
  <2>3. ASSUME op.op = "add"
        PROVE  /\ op.n \in DOMAIN args /\ args[op.n] <= mk_grid_n
               /\ \A k \in {op.a, op.b, op.c} :
                    k \in DOMAIN args /\ \E b \in bufs : b.addr = args[k] /\ args[op.n] <= Len(b.words)
    <3>1. /\ op.n \in DOMAIN args /\ s[op.n].kind = "int" /\ s[op.n].val <= Padded(s[n + 1].grid_n)
          /\ \A k \in {op.a, op.b, op.c} : k \in DOMAIN args /\ IsBuffer(s[k]) /\ s[op.n].val <= Size(s[k])
      BY <2>1, <2>2, <2>3 DEF Fits
    <3>2. args[op.n] = s[op.n].val /\ mk_grid_n = Padded(s[n + 1].grid_n)
      BY <1>4, <3>1 DEF Handed, mk_grid_n
    <3>3. args \in Seq(Nat)
      BY <1>2
    <3>4. ASSUME NEW k \in {op.a, op.b, op.c}
          PROVE  k \in DOMAIN args /\ \E b \in bufs : b.addr = args[k] /\ args[op.n] <= Len(b.words)
      <4>1. k \in DOMAIN args /\ IsBuffer(s[k]) /\ s[op.n].val <= Size(s[k])
        BY <3>1
      <4>2. PICK b \in bufs : b.addr = args[k] /\ Len(b.words) = Size(s[k])
        BY <1>b, <4>1
      <4>3. args[op.n] <= Len(b.words)
        BY <3>2, <4>1, <4>2
      <4>. QED BY <4>1, <4>2, <4>3
    <3>. QED BY <3>1, <3>2, <3>4
  <2>4. ASSUME op.op = "combine"
        PROVE  /\ op.src \in DOMAIN args /\ \E b \in bufs : b.addr = args[op.src] /\ Len(b.words) = op.n
               /\ op.dst \in DOMAIN args /\ \E b \in bufs : b.addr = args[op.dst] /\ Len(b.words) = 1
    <3>1. /\ op.src \in DOMAIN args /\ IsBuffer(s[op.src]) /\ op.n = Size(s[op.src])
          /\ op.dst \in DOMAIN args /\ IsBuffer(s[op.dst]) /\ Size(s[op.dst]) = 1
      BY <2>1, <2>2, <2>4 DEF Fits
    <3>2. \E b \in bufs : b.addr = args[op.src] /\ Len(b.words) = op.n
      BY <1>b, <3>1
    <3>3. \E b \in bufs : b.addr = args[op.dst] /\ Len(b.words) = 1
      BY <1>b, <3>1
    <3>. QED BY <3>1, <3>2, <3>3
  <2>5. ASSUME op.op = "barrier"
        PROVE  op.scr \in DOMAIN args /\ \E b \in bufs :
                 b.addr = args[op.scr] /\ Len(b.words) = 2 * NTHREADS /\ \A x \in DOMAIN b.words : b.words[x] = 0
    <3>1. op.scr \in DOMAIN args /\ s[op.scr].kind = "out" /\ s[op.scr].memset /\ s[op.scr].n = 2 * NTHREADS
      BY <2>1, <2>2, <2>5 DEF Fits
    <3>2. IsBuffer(s[op.scr]) /\ Size(s[op.scr]) = 2 * NTHREADS
      BY <3>1 DEF IsBuffer, Size
    <3>3. \E b \in bufs :
            /\ b.addr = args[op.scr] /\ Len(b.words) = Size(s[op.scr])
            /\ s[op.scr].kind = "out" /\ s[op.scr].memset => \A x \in DOMAIN b.words : b.words[x] = 0
      BY Zenon, <1>4, <3>1, <3>2 DEF Handed
    <3>. QED BY Zenon, <3>1, <3>2, <3>3
  <2>. QED BY <2>1, <2>3, <2>4, <2>5 DEF OpHeld
<1>. QED BY <1>2, <1>6, <1>7, <1>8, <1>9

-----------------------------------------------------------------------------
(* What a kernel leaves in the buffers *)

\* The total of words is a number.
LEMMA TotalNat ==
  ASSUME NEW words \in Seq(Nat)
  PROVE  Total(words) \in Nat
<1> DEFINE n == Len(words)
           step == [x \in Nat \X Nat |-> IF x[1] + 1 \in 1 .. n THEN (x[2] + words[x[1] + 1]) % Modulus ELSE 0]
<1>1. n \in Nat /\ \A k \in 1 .. n : words[k] \in Nat
  OBVIOUS
<1>2. \A x \in Nat, y \in Nat : (x + y) % Modulus \in Nat
  BY Areas
<1>3. step \in [Nat \X Nat -> Nat] /\ 0 \in Nat
  BY <1>1, <1>2
<1>4. PICK f : Counts(f, Nat, step, 0, n)
  <2> HIDE DEF step, n
  <2>. QED BY <1>1, <1>3, CountedIteration
<1>5. f \in [0 .. n -> Nat] /\ f[0] = 0 /\ \A k \in 0 .. n - 1 : f[k + 1] = (f[k] + words[k + 1]) % Modulus
  <2>1. f \in [0 .. n -> Nat] /\ f[0] = 0 /\ \A k \in 0 .. n - 1 : f[k + 1] = step[<<k, f[k]>>]
    BY <1>4 DEF Counts
  <2>2. \A k \in 0 .. n - 1 : <<k, f[k]>> \in Nat \X Nat /\ k + 1 \in 1 .. n
    BY <1>1, <2>1
  <2>. QED BY <2>1, <2>2
<1>6. Total(words) = f[n]
  <2> DEFINE body(g) == [k \in 0 .. n |-> IF k = 0 THEN 0 ELSE (g[k - 1] + words[k]) % Modulus]
  <2>1. f = body(f)
    <3>1. \A k \in 0 .. n : f[k] = IF k = 0 THEN 0 ELSE (f[k - 1] + words[k]) % Modulus
      <4> TAKE k \in 0 .. n
      <4>1. CASE k = 0
        BY <1>5, <4>1
      <4>2. CASE k # 0
        <5>1. k - 1 \in 0 .. n - 1 /\ (k - 1) + 1 = k
          BY <1>1, <4>2
        <5>. QED BY <1>5, <4>2, <5>1
      <4>. QED BY <4>1, <4>2
    <3>2. f = [k \in 0 .. n |-> f[k]]
      BY <1>5
    <3>. QED BY <3>1, <3>2
  <2> DEFINE sum == CHOOSE g : g = body(g)
  <2>2. sum = body(sum)
    BY <2>1
  <2>3. Total(words) = sum[n]
    BY DEF Total
  <2>4. ASSUME NEW k \in 0 .. n
        PROVE  sum[k] = IF k = 0 THEN 0 ELSE (sum[k - 1] + words[k]) % Modulus
    <3> HIDE DEF sum
    <3>1. body(sum)[k] = IF k = 0 THEN 0 ELSE (sum[k - 1] + words[k]) % Modulus
      OBVIOUS
    <3>. QED BY <2>2, <3>1
  <2> HIDE DEF sum
  <2> DEFINE P == {k \in 0 .. n : sum[k] = f[k]}
  <2>5. 0 \in P
    BY <1>1, <1>5, <2>4
  <2>6. ASSUME NEW k \in 0 .. n - 1, k \in P
        PROVE  k + 1 \in P
    <3>1. k + 1 \in 0 .. n /\ k + 1 # 0 /\ (k + 1) - 1 = k
      BY <1>1
    <3>. QED BY <1>5, <2>4, <2>6, <3>1
  <2>7. n \in P
    <3> HIDE DEF P
    <3>1. \A k \in 0 .. n : k \in P
      BY <1>1, <2>5, <2>6, Upto
    <3>. QED BY <1>1, <3>1
  <2>. QED BY <2>3, <2>7
<1>. QED BY <1>1, <1>5, <1>6


\* The buffers with other words in them, as many.
Contents == {f \in [bufs -> Seq(Nat)] : \A b \in bufs : Len(f[b]) = Len(b.words)}
Shape(f) == {[addr |-> b.addr, words |-> f[b]] : b \in bufs}

\* A buffer is known by its address.
LEMMA BuffersNamed ==
  ASSUME HostInv
  PROVE  /\ \A b \in bufs : /\ b.addr \in Nat /\ b.words \in Seq(Nat) /\ Len(b.words) \in Nat \ {0}
                            /\ b = [addr |-> b.addr, words |-> b.words]
         /\ \A b, c \in bufs : b.addr = c.addr => b = c
<1>1. bufs \subseteq Held
  BY Zenon DEF HostInv, HostType
<1>2. \A b \in bufs : Len(b.words) > 0 /\ HEAP_BASE <= b.addr /\ b.addr + Len(b.words) <= heap
  BY Zenon DEF HostInv, BuffersApart
<1>3. \A b, c \in bufs : b = c \/ b.addr + Len(b.words) <= c.addr \/ c.addr + Len(c.words) <= b.addr
  BY Zenon DEF HostInv, BuffersApart
<1>4. \A b \in bufs : b.addr \in Nat /\ b.words \in Seq(Nat) /\ b = [addr |-> b.addr, words |-> b.words]
  BY <1>1 DEF Held
<1>5. \A b \in bufs : Len(b.words) \in Nat \ {0}
  BY <1>2, <1>4
<1>6. ASSUME NEW b \in bufs, NEW c \in bufs, b.addr = c.addr
      PROVE  b = c
  <2>1. PICK a \in Nat, m \in Nat \ {0}, n \in Nat \ {0} :
          a = b.addr /\ a = c.addr /\ m = Len(b.words) /\ n = Len(c.words)
    BY <1>4, <1>5, <1>6
  <2>2. ~(a + m <= a) /\ ~(a + n <= a)
    OBVIOUS
  <2>. QED BY Zenon, <1>3, <2>1, <2>2
<1>. QED BY Zenon, <1>4, <1>5, <1>6

\* The words of a buffer are found by its address.
LEMMA WordsFound ==
  ASSUME HostInv, NEW f \in Contents, NEW b \in bufs
  PROVE  WordsAt(Shape(f), b.addr) = f[b]
<1> DEFINE r == [addr |-> b.addr, words |-> f[b]]
<1>1. r \in Shape(f) /\ r.addr = b.addr /\ r.words = f[b]
  BY DEF Shape
<1>2. ASSUME NEW q \in Shape(f), q.addr = b.addr
      PROVE  q = r
  <2>1. PICK c \in bufs : q = [addr |-> c.addr, words |-> f[c]]
    BY DEF Shape
  <2>2. c.addr = b.addr
    BY <1>2, <2>1
  <2>3. c = b
    BY <2>2, BuffersNamed
  <2>. QED BY <2>1, <2>3
<1> HIDE DEF r
<1>3. (CHOOSE q \in Shape(f) : q.addr = b.addr) = r
  BY Zenon, <1>1, <1>2
<1>. QED BY Zenon, <1>1, <1>3 DEF WordsAt

\* An operation on the buffers changes their words only.
LEMMA EffectShape ==
  ASSUME HostInv, NEW f \in Contents, NEW op, OpHeld(op)
  PROVE  LET g == [b \in bufs |-> Result(Shape(f), op, [addr |-> b.addr, words |-> f[b]])]
         IN  g \in Contents /\ Effect(Shape(f), op) = Shape(g)
<1> DEFINE r(b) == [addr |-> b.addr, words |-> f[b]]
           g == [b \in bufs |-> Result(Shape(f), op, r(b))]
<1>1. f \in [bufs -> Seq(Nat)] /\ \A b \in bufs : Len(f[b]) = Len(b.words)
  BY DEF Contents
<1>2. ASSUME NEW b \in bufs
      PROVE  Result(Shape(f), op, r(b)) \in Seq(Nat) /\ Len(Result(Shape(f), op, r(b))) = Len(b.words)
  <2>1. r(b).addr = b.addr /\ r(b).words = f[b] /\ f[b] \in Seq(Nat) /\ Len(f[b]) = Len(b.words)
    BY <1>1
  <2>2. PICK n \in Nat : n = Len(b.words) /\ DOMAIN f[b] = 1 .. n
    BY <2>1
  <2>3. CASE op.op = "add" /\ b.addr = args[op.c]
    <3>1. PICK A \in bufs : A.addr = args[op.a] /\ args[op.n] <= Len(A.words)
      BY <2>3 DEF OpHeld
    <3>2. PICK B \in bufs : B.addr = args[op.b] /\ args[op.n] <= Len(B.words)
      BY <2>3 DEF OpHeld
    <3>3. WordsAt(Shape(f), args[op.a]) = f[A] /\ WordsAt(Shape(f), args[op.b]) = f[B]
      BY <3>1, <3>2, WordsFound
    <3>4. Result(Shape(f), op, r(b)) =
            [k \in 1 .. n |-> IF k <= args[op.n] THEN (f[A][k] + f[B][k]) % Modulus ELSE f[b][k]]
      BY <2>1, <2>2, <2>3, <3>3 DEF Result
    <3>5. ASSUME NEW k \in 1 .. n
          PROVE  (IF k <= args[op.n] THEN (f[A][k] + f[B][k]) % Modulus ELSE f[b][k]) \in Nat
      <4>1. args[op.n] \in Nat
        <5>1. args \in Seq(Nat) /\ op.n \in DOMAIN args
          BY Zenon, <2>3 DEF HostInv, HostType, OpHeld
        <5>. QED BY <5>1
      <4>2. CASE k <= args[op.n]
        <5>1. f[A] \in Seq(Nat) /\ f[B] \in Seq(Nat) /\ Len(f[A]) = Len(A.words) /\ Len(f[B]) = Len(B.words)
          BY <1>1
        <5>2. k \in 1 .. Len(f[A]) /\ k \in 1 .. Len(f[B])
          <6>1. PICK x \in Nat, y \in Nat, z \in Nat : x = args[op.n] /\ y = Len(f[A]) /\ z = Len(f[B])
            BY <4>1, <5>1
          <6>2. k <= x /\ x <= y /\ x <= z
            BY Zenon, <3>1, <3>2, <4>2, <5>1, <6>1
          <6>3. k \in 1 .. y /\ k \in 1 .. z
            BY <6>2
          <6>. QED BY Zenon, <6>1, <6>3
        <5>3. f[A][k] \in Nat /\ f[B][k] \in Nat
          BY <5>1, <5>2, SMTT(30)
        <5>4. (f[A][k] + f[B][k]) % Modulus \in Nat
          BY <5>3, Areas
        <5>. QED BY <4>2, <5>4
      <4>3. CASE ~(k <= args[op.n])
        BY <2>1, <2>2, <4>3
      <4>. QED BY <4>2, <4>3
    <3>. QED BY <2>2, <3>4, <3>5
  <2>4. CASE op.op = "combine" /\ b.addr = args[op.dst]
    <3>1. PICK s \in bufs : s.addr = args[op.src]
      BY <2>4 DEF OpHeld
    <3>2. WordsAt(Shape(f), args[op.src]) = f[s] /\ f[s] \in Seq(Nat)
      BY <1>1, <3>1, WordsFound
    <3>3. Result(Shape(f), op, r(b)) = <<Total(f[s])>>
      BY <2>1, <2>4, <3>2 DEF Result
    <3>4. PICK d \in bufs : d.addr = args[op.dst] /\ Len(d.words) = 1
      BY <2>4 DEF OpHeld
    <3>5. d = b
      BY <2>4, <3>4, BuffersNamed
    <3>6. Total(f[s]) \in Nat
      BY <3>2, TotalNat
    <3>7. <<Total(f[s])>> \in Seq(Nat) /\ Len(<<Total(f[s])>>) = 1
      BY <3>6
    <3>. QED BY Zenon, <3>3, <3>4, <3>5, <3>7
  <2>5. CASE op.op = "barrier" /\ b.addr = args[op.scr]
    <3>1. Result(Shape(f), op, r(b)) = [k \in 1 .. n |-> f[b][k] + 1]
      BY <2>1, <2>2, <2>5 DEF Result
    <3>2. \A k \in 1 .. n : f[b][k] + 1 \in Nat
      BY <2>1, <2>2
    <3>. QED BY <2>2, <3>1, <3>2
  <2>6. CASE /\ ~(op.op = "add" /\ b.addr = args[op.c]) /\ ~(op.op = "combine" /\ b.addr = args[op.dst])
             /\ ~(op.op = "barrier" /\ b.addr = args[op.scr])
    <3>1. Result(Shape(f), op, r(b)) = f[b]
      BY <2>1, <2>6 DEF Result
    <3>. QED BY <2>1, <3>1
  <2>. QED BY <2>3, <2>4, <2>5, <2>6
<1>3. g \in Contents
  BY <1>2 DEF Contents
<1>4. Effect(Shape(f), op) = Shape(g)
  <2>1. Effect(Shape(f), op) = {[addr |-> q.addr, words |-> Result(Shape(f), op, q)] : q \in Shape(f)}
    BY DEF Effect
  <2>2. \A b \in bufs : r(b) \in Shape(f) /\ r(b).addr = b.addr /\ g[b] = Result(Shape(f), op, r(b))
    BY DEF Shape
  <2>3. \A q \in Shape(f) : \E b \in bufs : q = r(b)
    BY DEF Shape
  <2>4. Shape(g) = {[addr |-> b.addr, words |-> g[b]] : b \in bufs}
    BY DEF Shape
  <2>5. \A b \in bufs : [addr |-> b.addr, words |-> g[b]] = [addr |-> r(b).addr, words |-> Result(Shape(f), op, r(b))]
    BY Zenon, <2>2
  <2> HIDE DEF g, r
  <2>. QED BY <2>1, <2>2, <2>3, <2>4, <2>5
<1>. QED BY <1>3, <1>4

\* The buffers after each operation.
LEMMA AfterShape ==
  ASSUME HostInv, InCall
  PROVE  LET n == Len(Ops) h == HeldAfter(Ops)
         IN  /\ h[0] = bufs
             /\ \A p \in 0 .. n : \E f \in Contents : h[p] = Shape(f)
             /\ \A p \in 1 .. n : h[p] = Effect(h[p - 1], Ops[p])
<1> DEFINE n == Len(Ops)
           S == {Shape(f) : f \in Contents}
           step == [x \in Nat \X S |-> IF x[1] + 1 \in 1 .. n THEN Effect(x[2], Ops[x[1] + 1]) ELSE x[2]]
           body(h) == [p \in 0 .. n |-> IF p = 0 THEN bufs ELSE Effect(h[p - 1], Ops[p])]
<1>1. n \in Nat /\ DOMAIN Ops = 1 .. n /\ \A p \in 1 .. n : OpHeld(Ops[p])
  <2>1. call.kernel \in DOMAIN Kernels /\ Script(0) = Ops /\ \A p \in DOMAIN Script(0) : OpHeld(Script(0)[p])
    BY OpsHeld, Areas DEF Ops
  <2>2. Len(Ops) \in Nat /\ DOMAIN Ops = 1 .. Len(Ops)
    BY <2>1, ScriptFacts, Areas DEF Ops
  <2>. QED BY <2>1, <2>2
<1>2. bufs \in S
  <2> DEFINE f == [b \in bufs |-> b.words]
  <2>1. f \in Contents
    BY BuffersNamed DEF Contents
  <2>2. Shape(f) = bufs
    <3>1. \A b \in bufs : [addr |-> b.addr, words |-> f[b]] = b
      BY BuffersNamed
    <3> HIDE DEF f
    <3>. QED BY <3>1 DEF Shape
  <2>. QED BY <2>1, <2>2
<1>3. ASSUME NEW h \in S, NEW p \in 1 .. n
      PROVE  Effect(h, Ops[p]) \in S
  <2>1. PICK f \in Contents : h = Shape(f)
    OBVIOUS
  <2>. QED BY Zenon, <1>1, <1>3, <2>1, EffectShape
<1> HIDE DEF S, n
<1>4. step \in [Nat \X S -> S]
  BY <1>3
<1>5. PICK f : Counts(f, S, step, bufs, n)
  <2> HIDE DEF step
  <2>. QED BY <1>1, <1>2, <1>4, CountedIteration
<1>6. f \in [0 .. n -> S] /\ f[0] = bufs /\ \A k \in 0 .. n - 1 : f[k + 1] = Effect(f[k], Ops[k + 1])
  <2>1. f \in [0 .. n -> S] /\ f[0] = bufs /\ \A k \in 0 .. n - 1 : f[k + 1] = step[<<k, f[k]>>]
    BY Zenon, <1>5 DEF Counts
  <2>2. \A k \in 0 .. n - 1 : <<k, f[k]>> \in Nat \X S /\ k + 1 \in 1 .. n
    BY <1>1, <2>1
  <2>. QED BY <2>1, <2>2
<1>7. f = body(f)
  <2>1. ASSUME NEW k \in 0 .. n
        PROVE  f[k] = IF k = 0 THEN bufs ELSE Effect(f[k - 1], Ops[k])
    <3>1. CASE k = 0
      BY <1>6, <3>1
    <3>2. CASE k # 0
      <4>1. k - 1 \in 0 .. n - 1 /\ (k - 1) + 1 = k
        BY <1>1, <3>2
      <4>. QED BY <1>6, <3>2, <4>1
    <3>. QED BY <3>1, <3>2
  <2>2. f = [k \in 0 .. n |-> f[k]]
    BY <1>6
  <2>. QED BY <2>1, <2>2
<1> DEFINE h == CHOOSE g : g = body(g)
<1>8. h = body(h)
  BY Zenon, <1>7
<1>9. HeldAfter(Ops) = h
  BY Zenon DEF HeldAfter, n
<1>10. ASSUME NEW k \in 0 .. n
       PROVE  h[k] = IF k = 0 THEN bufs ELSE Effect(h[k - 1], Ops[k])
  <2> HIDE DEF h
  <2>1. body(h)[k] = IF k = 0 THEN bufs ELSE Effect(h[k - 1], Ops[k])
    OBVIOUS
  <2>. QED BY <1>8, <2>1
<1> HIDE DEF h
<1> DEFINE P == {k \in 0 .. n : h[k] \in S}
<1>11. 0 \in P
  BY <1>1, <1>2, <1>10
<1>12. ASSUME NEW k \in 0 .. n - 1, k \in P
       PROVE  k + 1 \in P
  <2>1. k + 1 \in 0 .. n /\ k + 1 # 0 /\ (k + 1) - 1 = k /\ k + 1 \in 1 .. n
    BY <1>1
  <2>2. h[k + 1] = Effect(h[k], Ops[k + 1])
    BY <1>10, <2>1
  <2>. QED BY <1>3, <1>12, <2>1, <2>2
<1>13. \A k \in 0 .. n : h[k] \in S
  <2>1. \A k \in 0 .. n : k \in P
    <3> HIDE DEF P
    <3>. QED BY <1>1, <1>11, <1>12, Upto
  <2>. QED BY <2>1
<1>14. h[0] = bufs /\ \A p \in 1 .. n : h[p] = Effect(h[p - 1], Ops[p])
  <2>1. \A p \in 1 .. n : p \in 0 .. n /\ p # 0
    BY <1>1
  <2>2. 0 \in 0 .. n
    BY <1>1
  <2>. QED BY <1>10, <2>1, <2>2
<1>. QED BY Zenon, <1>9, <1>13, <1>14 DEF S, n

-----------------------------------------------------------------------------
(* The program's steps *)

\* The allocator rounds up.
LEMMA AlignedAbove ==
  ASSUME NEW a \in Nat, NEW align \in Nat \ {0}
  PROVE  Aligned(a, align) \in Nat /\ a <= Aligned(a, align)
<1>1. PICK x \in Int : x = a + align - 1
  OBVIOUS
<1>a. x = align * (x \div align) + (x % align) /\ x % align \in 0 .. align - 1 /\ x \div align \in Int
  BY ONLY align \in Nat \ {0}, x \in Int, Quotient
<1>2. PICK q \in Int, r \in 0 .. align - 1 : q = x \div align /\ r = x % align
  BY <1>a
<1>3. x = align * q + r
  BY <1>a, <1>2
<1>4. PICK y \in Int : y = align * q /\ y = q * align
  BY <1>2
<1>5. y >= a
  BY <1>1, <1>2, <1>3, <1>4
<1>. QED BY <1>1, <1>2, <1>4, <1>5 DEF Aligned

\* A program begins with nothing allocated and no launch.
LEMMA InitHost == HostInit => HostInv
<1> SUFFICES ASSUME HostInit PROVE HostInv
  OBVIOUS
<1>1. HostType
  <2>1. mem \in [0 .. HEAP_END - 1 -> Nat] /\ imem \in [0 .. ImageRoom - 1 -> Nat]
    BY DEF HostInit
  <2>2. heap \in HEAP_BASE .. HEAP_END
    BY Areas DEF HostInit
  <2>3. thread \in [Tids -> [at : Nat \ {0}, i : Nat, w : Nat]]
    <3>1. \A t \in Tids : [at |-> 1, i |-> t, w |-> 0] \in [at : Nat \ {0}, i : Nat, w : Nat]
      BY Areas
    <3>. QED BY <3>1 DEF HostInit, Asleep
  <2>4. did \in [Tids -> [code : Nat, log : Seq(Nat)]]
    <3>1. [code |-> 0, log |-> <<>>] \in [code : Nat, log : Seq(Nat)]
      OBVIOUS
    <3>. QED BY <3>1 DEF HostInit, Silent
  <2>5. args \in Seq(Nat) /\ todo \in Seq(Specs)
    BY DEF HostInit
  <2>6. call \in [at : {"none", "loop", "run"}, kernel : Nat, ran : Nat]
    BY DEF HostInit, NoCall
  <2>. QED BY <2>1, <2>2, <2>3, <2>4, <2>5, <2>6 DEF HostType, HostInit
<1>2. BuffersApart /\ InSession
  BY DEF HostInit, BuffersApart, InSession
<1>3. ~InCall /\ ~Reported /\ ImageLaunched
  BY DEF HostInit, InCall, Reported, ImageLaunched, NoCall
<1>. QED BY <1>1, <1>2, <1>3 DEF HostInv, CallLegal, ThreadsPlaced

\* What the program does next is the session's next.
LEMMA NextSpec ==
  ASSUME HostInv, todo # <<>>
  PROVE  \E s \in Sessions, n \in Nat :
           /\ Place(s) /\ n = Len(args) /\ DOMAIN args = 1 .. n /\ n + 1 <= Len(s) /\ DOMAIN s = 1 .. Len(s)
           /\ Head(todo) = s[n + 1] /\ SpecLegal(s[n + 1])
           /\ Tail(todo) \in Seq(Specs) /\ Len(Tail(todo)) = Len(s) - n - 1
           /\ \A k \in 1 .. Len(Tail(todo)) : Tail(todo)[k] = s[n + 1 + k]
           /\ s[n + 1].kind = "launch" => Len(s) = n + 1
           /\ Len(s) \in Nat /\ Len(s) + 1 <= ParamRoom
<1>1. args \in Seq(Nat) /\ todo \in Seq(Specs)
  BY Zenon DEF HostInv, HostType
<1>2. PICK s \in Sessions : Place(s)
  BY DEF HostInv, InSession
<1>3. PICK n \in Nat : n = Len(args) /\ DOMAIN args = 1 .. n
  BY <1>1
<1>4. /\ Tail(todo) \in Seq(Specs) /\ Len(Tail(todo)) = Len(todo) - 1 /\ Len(todo) > 0 /\ Head(todo) = todo[1]
      /\ \A k \in 1 .. Len(Tail(todo)) : Tail(todo)[k] = todo[k + 1]
  BY <1>1, TailOf
<1>5. Len(s) = n + Len(todo) /\ \A k \in DOMAIN todo : todo[k] = s[n + k]
  BY <1>2, <1>3 DEF Place
<1>6. PICK m \in Nat : m = Len(todo) /\ DOMAIN todo = 1 .. m /\ m > 0
  <2>1. Len(todo) \in Nat /\ DOMAIN todo = 1 .. Len(todo)
    BY <1>1
  <2>. QED BY Zenon, <1>4, <2>1
<1>7. n + 1 \in DOMAIN s /\ DOMAIN s = 1 .. Len(s) /\ Len(s) \in Nat /\ Len(s) + 1 <= ParamRoom
  <2>1. DOMAIN s = 1 .. Len(s) /\ Len(s) \in Nat /\ Len(s) + 1 <= ParamRoom
    BY SessionFacts
  <2>. QED BY <1>5, <1>6, <2>1
<1>8. SpecLegal(s[n + 1]) /\ (s[n + 1].kind = "launch" => n + 1 = Len(s))
  BY Zenon, <1>7, SessionFacts
<1>9. Head(todo) = s[n + 1]
  BY <1>4, <1>5, <1>6
<1>10. ASSUME NEW k \in 1 .. Len(Tail(todo))
       PROVE  Tail(todo)[k] = s[n + 1 + k]
  <2>1. k + 1 \in 1 .. m /\ n + (k + 1) = n + 1 + k
    BY <1>4, <1>6
  <2>. QED BY <1>4, <1>5, <1>6, <2>1
<1>11. Len(Tail(todo)) = Len(s) - n - 1
  BY <1>4, <1>5, <1>6
<1>12. n + 1 <= Len(s) /\ (s[n + 1].kind = "launch" => Len(s) = n + 1)
  <2>1. n + 1 <= Len(s)
    BY <1>7
  <2>. QED BY Zenon, <1>8, <2>1
<1>. QED BY Zenon, <1>2, <1>3, <1>4, <1>7, <1>8, <1>9, <1>10, <1>11, <1>12

\* The session goes on with one argument more.
LEMMA KeepsSession ==
  ASSUME HostInv, todo # <<>>, NEW s \in Sessions, Place(s), NEW v \in Nat,
         args' = Append(args, v), todo' = Tail(todo), bufs \subseteq bufs',
         IsBuffer(Head(todo)) =>
           /\ \A k \in DOMAIN args : IsBuffer(s[k]) => args[k] # v
           /\ \E b \in bufs' :
                /\ b.addr = v /\ Len(b.words) = Size(Head(todo))
                /\ Head(todo).kind = "out" /\ Head(todo).memset => \A x \in DOMAIN b.words : b.words[x] = 0,
         Head(todo).kind = "int" => v = Head(todo).val
  PROVE  InSession' /\ args' \in Seq(Nat) /\ todo' \in Seq(Specs)
<1>1. args \in Seq(Nat) /\ todo \in Seq(Specs)
  BY Zenon DEF HostInv, HostType
<1>2. PICK n \in Nat : n = Len(args) /\ DOMAIN args = 1 .. n
  BY <1>1
<1>3. /\ Tail(todo) \in Seq(Specs) /\ Len(Tail(todo)) = Len(todo) - 1 /\ Len(todo) > 0 /\ Head(todo) = todo[1]
      /\ \A k \in 1 .. Len(Tail(todo)) : Tail(todo)[k] = todo[k + 1]
  BY <1>1, TailOf
<1>4. PICK m \in Nat : m = Len(todo) /\ DOMAIN todo = 1 .. m /\ m > 0
  <2>1. Len(todo) \in Nat /\ DOMAIN todo = 1 .. Len(todo)
    BY <1>1
  <2>. QED BY Zenon, <1>3, <2>1
<1>5. Len(s) = n + m /\ (\A k \in DOMAIN todo : todo[k] = s[n + k]) /\ Handed(s)
  BY <1>2, <1>4 DEF Place
<1>6. /\ args' \in Seq(Nat) /\ Len(args') = n + 1 /\ args'[n + 1] = v
      /\ DOMAIN args' = 1 .. n + 1 /\ \A k \in 1 .. n : args'[k] = args[k]
  BY <1>1, <1>2
<1>7. Head(todo) = s[n + 1]
  BY <1>3, <1>4, <1>5
<1>8. Len(s) = Len(args') + Len(todo')
  BY <1>3, <1>4, <1>5, <1>6
<1>9. ASSUME NEW k \in DOMAIN todo'
      PROVE  todo'[k] = s[Len(args') + k]
  <2>1. k \in 1 .. m - 1
    <3>1. DOMAIN Tail(todo) = 1 .. Len(Tail(todo))
      BY <1>3
    <3>. QED BY <1>3, <1>4, <3>1
  <2>2. k + 1 \in 1 .. m /\ n + (k + 1) = Len(args') + k
    <3>1. Len(args') = n + 1
      BY <1>6
    <3>2. k \in Nat /\ k + 1 \in 1 .. m
      BY <2>1
    <3>3. n + (k + 1) = (n + 1) + k
      BY <3>2
    <3>. QED BY <3>1, <3>2, <3>3
  <2>. QED BY <1>3, <1>4, <1>5, <2>1, <2>2
<1>10. \A k \in 1 .. n + 1 : k \in 1 .. n \/ k = n + 1
  OBVIOUS
<1>11. Handed(s)'
  <2>1. ASSUME NEW k \in 1 .. n + 1
        PROVE  /\ IsBuffer(s[k]) => \E b \in bufs' :
                    /\ b.addr = args'[k] /\ Len(b.words) = Size(s[k])
                    /\ s[k].kind = "out" /\ s[k].memset => \A x \in DOMAIN b.words : b.words[x] = 0
               /\ s[k].kind = "int" => args'[k] = s[k].val
    <3>1. CASE k \in 1 .. n
      <4>1. args'[k] = args[k] /\ k \in DOMAIN args
        BY <1>2, <1>6, <3>1
      <4>2. /\ IsBuffer(s[k]) => \E b \in bufs :
                 /\ b.addr = args[k] /\ Len(b.words) = Size(s[k])
                 /\ s[k].kind = "out" /\ s[k].memset => \A x \in DOMAIN b.words : b.words[x] = 0
            /\ s[k].kind = "int" => args[k] = s[k].val
        BY Zenon, <1>5, <4>1 DEF Handed
      <4>. QED BY Zenon, <4>1, <4>2
    <3>2. CASE k = n + 1
      BY Zenon, <1>6, <1>7, <3>2
    <3>. QED BY <1>10, <3>1, <3>2
  <2>2. ASSUME NEW j \in 1 .. n + 1, NEW k \in 1 .. n + 1, j # k, IsBuffer(s[j]), IsBuffer(s[k])
        PROVE  args'[j] # args'[k]
    <3>1. CASE j \in 1 .. n /\ k \in 1 .. n
      BY <1>2, <1>5, <1>6, <2>2, <3>1 DEF Handed
    <3>2. CASE j \in 1 .. n /\ k = n + 1
      BY <1>2, <1>6, <1>7, <2>2, <3>2
    <3>3. CASE j = n + 1 /\ k \in 1 .. n
      BY <1>2, <1>6, <1>7, <2>2, <3>3
    <3>. QED BY <1>10, <2>2, <3>1, <3>2, <3>3
  <2>. QED BY ZenonT(40), <1>6, <2>1, <2>2 DEF Handed
<1>12. Place(s)'
  BY <1>8, <1>9, <1>11 DEF Place
<1>. QED BY <1>3, <1>6, <1>12 DEF InSession

\* A buffer above the heap's top is apart from the others.
LEMMA KeepsApart ==
  ASSUME HostInv, NEW a \in Nat, heap <= a, NEW words \in Seq(Nat), Len(words) > 0, a + Len(words) <= HEAP_END,
         NEW b, b = [addr |-> a, words |-> words], bufs' = bufs \union {b}, heap' = a + Len(words)
  PROVE  /\ BuffersApart' /\ bufs' \subseteq Held /\ heap' \in HEAP_BASE .. HEAP_END
         /\ \A c \in bufs : c.addr + Len(c.words) <= a /\ c.addr # a
<1>1. bufs \subseteq Held /\ heap \in HEAP_BASE .. HEAP_END
  BY Zenon DEF HostInv, HostType
<1>2. \A c \in bufs : Len(c.words) > 0 /\ HEAP_BASE <= c.addr /\ c.addr + Len(c.words) <= heap
  BY Zenon DEF HostInv, BuffersApart
<1>3. \A c \in bufs : c.addr \in Nat /\ Len(c.words) \in Nat
  BY <1>1 DEF Held
<1>4. b.addr = a /\ b.words = words /\ b \in Held
  BY DEF Held
<1>5. Len(words) \in Nat
  OBVIOUS
<1>6. \A c \in bufs : c.addr + Len(c.words) <= a /\ c.addr # a
  BY <1>1, <1>2, <1>3, Areas
<1>7. heap <= heap' /\ heap' \in HEAP_BASE .. HEAP_END
  BY <1>1, <1>5, Areas
<1>8. \A c \in bufs' : Len(c.words) > 0 /\ HEAP_BASE <= c.addr /\ c.addr + Len(c.words) <= heap'
  <2>1. \A c \in bufs : c.addr + Len(c.words) <= heap'
    BY <1>1, <1>2, <1>3, <1>7
  <2>2. HEAP_BASE <= a
    BY <1>1, Areas
  <2>. QED BY <1>2, <1>4, <2>1, <2>2
<1>9. \A c, d \in bufs' : c = d \/ c.addr + Len(c.words) <= d.addr \/ d.addr + Len(d.words) <= c.addr
  <2>1. \A c, d \in bufs : c = d \/ c.addr + Len(c.words) <= d.addr \/ d.addr + Len(d.words) <= c.addr
    BY Zenon DEF HostInv, BuffersApart
  <2>. QED BY <1>4, <1>6, <2>1
<1>10. bufs' \subseteq Held
  BY <1>1, <1>4
<1>. QED BY <1>6, <1>7, <1>8, <1>9, <1>10 DEF BuffersApart

\* Outside a launch, what the host stores in the heap leaves what lies below.
LEMMA BelowHeap ==
  ASSUME HostInv, mem' \in [0 .. HEAP_END - 1 -> Nat], \A x \in 0 .. HEAP_BASE - 1 : mem'[x] = mem[x],
         imem' \in [0 .. ImageRoom - 1 -> Nat], imem'[0] = imem[0],
         call.at = "none", UNCHANGED <<transport, call, thread, outcome>>
  PROVE  CallLegal' /\ ThreadsPlaced' /\ ImageLaunched'
<1>1. ~InCall' /\ (Reported' <=> Reported)
  BY DEF InCall, Reported
<1>2. mem'[0] = mem[0] /\ \A t \in Tids : mem'[DONE_BASE + t] = mem[DONE_BASE + t]
  <2>1. 0 \in 0 .. HEAP_BASE - 1 /\ \A t \in Tids : DONE_BASE + t \in 0 .. HEAP_BASE - 1
    BY Areas
  <2>. QED BY <2>1
<1>3. \A t \in Tids : Script(t)' = Script(t)
  BY <1>2 DEF Script
<1>4. ThreadsPlaced'
  BY Zenon, <1>1, <1>2, <1>3 DEF HostInv, ThreadsPlaced
<1>5. ImageLaunched'
  BY Zenon, <1>2 DEF HostInv, ImageLaunched
<1>. QED BY <1>1, <1>4, <1>5 DEF CallLegal

\* Words stored in the device's memory.
IsStored(f, m, a, words) ==
  /\ f \in [0 .. HEAP_END - 1 -> Nat]
  /\ \A k \in 1 .. Len(words) : a + k - 1 < HEAP_END => f[a + k - 1] = words[k]
  /\ \A x \in 0 .. HEAP_END - 1 : x < a \/ a + Len(words) <= x => f[x] = m[x]

\* A write puts its words where they belong, and leaves the others.
LEMMA MemoryStored ==
  ASSUME NEW m \in [0 .. HEAP_END - 1 -> Nat], NEW a \in Nat, NEW words \in Seq(Nat)
  PROVE  IsStored(Stored(m, a, words), m, a, words)
<1>1. PICK n \in Nat : n = HEAP_END
  BY Areas
<1>2. m \in [0 .. n - 1 -> Nat]
  BY <1>1
<1>3. /\ Stored(m, a, words) \in [0 .. n - 1 -> Nat]
      /\ \A k \in 1 .. Len(words) : a + k - 1 < n => Stored(m, a, words)[a + k - 1] = words[k]
      /\ \A x \in 0 .. n - 1 : x < a \/ a + Len(words) <= x => Stored(m, a, words)[x] = m[x]
  BY <1>2, StoredWords
<1>. QED BY Zenon, <1>1, <1>3 DEF IsStored

\* What to_device and an output add: a buffer above the heap's top.
Adds(a, words) ==
  /\ heap <= a /\ Len(words) > 0 /\ a + Len(words) <= HEAP_END
  /\ heap' = a + Len(words) /\ bufs' = Holding([addr |-> a], words) /\ args' = Append(args, a)
  /\ mem' \in [0 .. HEAP_END - 1 -> Nat] /\ imem' \in [0 .. ImageRoom - 1 -> Nat] /\ imem'[0] = imem[0]
  /\ \A x \in 0 .. HEAP_END - 1 : x < a \/ a + Len(words) <= x => mem'[x] = mem[x]
  /\ \A k \in 1 .. Len(words) : mem'[a + k - 1] = words[k]
  /\ IsBuffer(Head(todo)) /\ Len(words) = Size(Head(todo))
  /\ Head(todo).kind = "out" /\ Head(todo).memset => \A x \in DOMAIN words : words[x] = 0

\* An array sent to the device is a buffer more, over fresh words.
LEMMA ToDeviceAdds ==
  ASSUME HostInv, ToDevice
  PROVE  \E a \in Nat, words \in Seq(Nat) : Adds(a, words)
<1>1. todo # <<>> /\ Head(todo).kind = "in"
  BY DEF ToDevice, NextOf
<1>2. SpecLegal(Head(todo))
  BY <1>1, NextSpec
<1>3. PICK arr \in Seq(Nat), align \in Nat \ {0} : arr = Head(todo).arr /\ align = Head(todo).align /\ Len(arr) > 0
  BY <1>1, <1>2 DEF SpecLegal
<1>4. heap \in HEAP_BASE .. HEAP_END /\ mem \in [0 .. HEAP_END - 1 -> Nat] /\ imem \in [0 .. ImageRoom - 1 -> Nat]
  BY Zenon DEF HostInv, HostType
<1>5. heap \in Nat
  BY <1>4, Areas
<1>6. PICK a \in Nat : a = Aligned(heap, align) /\ heap <= a
  BY <1>3, <1>5, AlignedAbove
<1>7. /\ a + Len(arr) <= HEAP_END /\ heap' = a + Len(arr)
      /\ mem' = Stored(mem, a, arr) /\ imem' = Mirrored(imem, a, arr)
      /\ bufs' = Holding([addr |-> a], arr) /\ args' = Append(args, a)
  BY <1>3, <1>6 DEF ToDevice, alloc, Holding
<1>8. /\ mem' \in [0 .. HEAP_END - 1 -> Nat]
      /\ \A k \in 1 .. Len(arr) : a + k - 1 < HEAP_END => mem'[a + k - 1] = arr[k]
      /\ \A x \in 0 .. HEAP_END - 1 : x < a \/ a + Len(arr) <= x => mem'[x] = mem[x]
  <2>2. mem' = Stored(mem, a, arr) /\ mem \in [0 .. HEAP_END - 1 -> Nat]
    BY <1>4, <1>7
  <2>3. IsStored(Stored(mem, a, arr), mem, a, arr)
    BY <2>2, MemoryStored
  <2>. QED BY Zenon, <2>2, <2>3 DEF IsStored
<1>9. \A k \in 1 .. Len(arr) : a + k - 1 < HEAP_END
  <2>1. Len(arr) \in Nat /\ HEAP_END \in Nat
    BY Areas
  <2>. QED BY <1>7, <2>1
<1>10. imem' \in [0 .. ImageRoom - 1 -> Nat] /\ imem'[0] = imem[0]
  <2>1. CASE imem' = imem
    BY <1>4, <2>1
  <2>2. CASE imem' = Stored(imem, a, arr)
    <3>1. ImageRoom \in Nat /\ 0 \in 0 .. ImageRoom - 1 /\ 0 < a
      BY <1>4, <1>6, Areas
    <3>2. /\ imem' \in [0 .. ImageRoom - 1 -> Nat]
          /\ \A x \in 0 .. ImageRoom - 1 : x < a \/ a + Len(arr) <= x => imem'[x] = imem[x]
      BY ONLY a \in Nat, arr \in Seq(Nat), <1>4, <2>2, <3>1, StoredWords
    <3>. QED BY <3>1, <3>2
  <2>. QED BY <1>7, <2>1, <2>2 DEF Mirrored
<1>11. IsBuffer(Head(todo)) /\ Len(arr) = Size(Head(todo)) /\ Head(todo).kind # "out"
  BY <1>1, <1>3 DEF IsBuffer, Size
<1>12. Adds(a, arr)
  BY Zenon, <1>3, <1>6, <1>7, <1>8, <1>9, <1>10, <1>11 DEF Adds
<1>. QED BY <1>12

\* So is an output.
LEMMA OutAdds ==
  ASSUME HostInv, Out
  PROVE  \E a \in Nat, words \in Seq(Nat) : Adds(a, words)
<1>1. todo # <<>> /\ Head(todo).kind = "out"
  BY DEF Out, NextOf
<1>2. SpecLegal(Head(todo))
  BY <1>1, NextSpec
<1>3. PICK n \in Nat \ {0}, align \in Nat \ {0} :
        n = Head(todo).n /\ align = Head(todo).align /\ Head(todo).memset \in BOOLEAN
  BY <1>1, <1>2 DEF SpecLegal
<1>4. heap \in HEAP_BASE .. HEAP_END /\ mem \in [0 .. HEAP_END - 1 -> Nat] /\ imem \in [0 .. ImageRoom - 1 -> Nat]
  BY Zenon DEF HostInv, HostType
<1>5. heap \in Nat
  BY <1>4, Areas
<1>6. PICK a \in Nat : a = Aligned(heap, align) /\ heap <= a
  BY <1>3, <1>5, AlignedAbove
<1> DEFINE words == Get(mem', a, n)
<1>7. /\ a + n <= HEAP_END /\ heap' = a + n
      /\ mem' = IF Head(todo).memset THEN Stored(mem, a, Zeros(n)) ELSE mem
      /\ bufs' = Holding([addr |-> a], words) /\ args' = Append(args, a)
      /\ imem' = imem
  BY <1>3, <1>6 DEF Out, alloc, Holding
<1>8. Zeros(n) \in Seq(Nat) /\ Len(Zeros(n)) = n /\ \A k \in 1 .. n : Zeros(n)[k] = 0
  BY DEF Zeros
<1>9. /\ mem' \in [0 .. HEAP_END - 1 -> Nat]
      /\ Head(todo).memset => \A k \in 1 .. n : a + k - 1 < HEAP_END => mem'[a + k - 1] = 0
      /\ \A x \in 0 .. HEAP_END - 1 : x < a \/ a + n <= x => mem'[x] = mem[x]
  <2>1. HEAP_END \in Nat
    BY Areas
  <2>2. CASE Head(todo).memset
    <3>1. mem' = Stored(mem, a, Zeros(n))
      BY <1>7, <2>2
    <3>2. /\ mem' \in [0 .. HEAP_END - 1 -> Nat]
          /\ \A k \in 1 .. Len(Zeros(n)) : a + k - 1 < HEAP_END => mem'[a + k - 1] = Zeros(n)[k]
          /\ \A x \in 0 .. HEAP_END - 1 : x < a \/ a + Len(Zeros(n)) <= x => mem'[x] = mem[x]
      <4>1. mem \in [0 .. HEAP_END - 1 -> Nat] /\ Zeros(n) \in Seq(Nat)
        BY <1>4, <1>8
      <4>2. IsStored(Stored(mem, a, Zeros(n)), mem, a, Zeros(n))
        BY <4>1, MemoryStored
      <4>. QED BY Zenon, <3>1, <4>2 DEF IsStored
    <3>3. \A k \in 1 .. n : a + k - 1 < HEAP_END => mem'[a + k - 1] = 0
      <4> TAKE k \in 1 .. n
      <4>1. k \in 1 .. Len(Zeros(n)) /\ Zeros(n)[k] = 0
        BY Zenon, <1>8
      <4>. QED BY Zenon, <3>2, <4>1
    <3>4. \A x \in 0 .. HEAP_END - 1 : x < a \/ a + n <= x => mem'[x] = mem[x]
      <4>1. Len(Zeros(n)) = n
        BY Zenon, <1>8
      <4>. QED BY Zenon, <3>2, <4>1
    <3>. QED BY Zenon, <3>2, <3>3, <3>4
  <2>3. CASE ~Head(todo).memset
    BY <1>4, <1>7, <2>3
  <2>. QED BY <1>3, <2>2, <2>3
<1>10. \A k \in 1 .. n : a + k - 1 < HEAP_END /\ a + k - 1 \in 0 .. HEAP_END - 1
  <2>1. HEAP_END \in Nat
    BY Areas
  <2>. QED BY <1>7, <2>1
<1>11. words \in Seq(Nat) /\ Len(words) = n /\ DOMAIN words = 1 .. n /\ \A k \in 1 .. n : words[k] = mem'[a + k - 1]
  <2>1. \A k \in 1 .. n : mem'[a + k - 1] \in Nat
    BY <1>9, <1>10
  <2>2. words = [k \in 1 .. n |-> mem'[a + k - 1]]
    BY DEF Get
  <2> HIDE DEF words
  <2>. QED BY <2>1, <2>2
<1> HIDE DEF words
<1>12. \A k \in 1 .. Len(words) : mem'[a + k - 1] = words[k]
  BY <1>11
<1>13. IsBuffer(Head(todo)) /\ Len(words) = Size(Head(todo))
  BY <1>1, <1>3, <1>11 DEF IsBuffer, Size
<1>14. Head(todo).memset => \A x \in DOMAIN words : words[x] = 0
  BY <1>9, <1>10, <1>11
<1>15. imem' \in [0 .. ImageRoom - 1 -> Nat] /\ imem'[0] = imem[0]
  BY <1>4, <1>7
<1>16. Len(words) > 0
  BY <1>11
<1>17. \A x \in 0 .. HEAP_END - 1 : x < a \/ a + Len(words) <= x => mem'[x] = mem[x]
  BY <1>9, <1>11
<1>18. a + Len(words) <= HEAP_END /\ heap' = a + Len(words)
  BY <1>7, <1>11
<1>19. Adds(a, words)
  BY Zenon, <1>6, <1>7, <1>9, <1>12, <1>13, <1>14, <1>15, <1>16, <1>17, <1>18 DEF Adds
<1>. QED BY <1>11, <1>19

\* A buffer more leaves the invariant.
LEMMA AddsInv ==
  ASSUME HostInv, NEW a \in Nat, NEW words \in Seq(Nat), Adds(a, words), call.at = "none", todo # <<>>,
         todo' = Tail(todo), UNCHANGED <<transport, call, thread, did, outcome, launches>>
  PROVE  HostInv'
<1> DEFINE b == [addr |-> a, words |-> words]
<1>1. PICK s \in Sessions, n \in Nat : Place(s) /\ n = Len(args) /\ DOMAIN args = 1 .. n
  BY NextSpec
<1>2. heap' = a + Len(words) /\ bufs' = bufs \union {b} /\ args' = Append(args, a)
      /\ heap <= a /\ Len(words) > 0 /\ a + Len(words) <= HEAP_END
  BY DEF Adds, Holding
<1>3. /\ BuffersApart' /\ bufs' \subseteq Held /\ heap' \in HEAP_BASE .. HEAP_END
      /\ \A c \in bufs : c.addr + Len(c.words) <= a /\ c.addr # a
  BY <1>2, KeepsApart
<1>4. InSession' /\ args' \in Seq(Nat) /\ todo' \in Seq(Specs)
  <2>1. bufs \subseteq bufs' /\ b \in bufs' /\ b.addr = a /\ b.words = words
    BY <1>2
  <2>2. \E c \in bufs' :
          /\ c.addr = a /\ Len(c.words) = Size(Head(todo))
          /\ Head(todo).kind = "out" /\ Head(todo).memset => \A x \in DOMAIN c.words : c.words[x] = 0
    <3> HIDE DEF b
    <3>. QED BY Zenon, <2>1 DEF Adds
  <2>3. ASSUME NEW k \in DOMAIN args, IsBuffer(s[k])
        PROVE  args[k] # a
    <3>1. Handed(s)
      BY <1>1 DEF Place
    <3>2. \E c \in bufs : c.addr = args[k]
      BY Zenon, <2>3, <3>1 DEF Handed
    <3>. QED BY <1>3, <3>2
  <2>4. Head(todo).kind # "int"
    BY DEF Adds, IsBuffer
  <2>. QED BY <1>1, <1>2, <2>1, <2>2, <2>3, <2>4, KeepsSession
<1>5. CallLegal' /\ ThreadsPlaced' /\ ImageLaunched'
  <2>1. \A x \in 0 .. HEAP_BASE - 1 : x \in 0 .. HEAP_END - 1 /\ x < a
    <3>1. heap \in HEAP_BASE .. HEAP_END
      BY Zenon DEF HostInv, HostType
    <3>. QED BY <1>2, <3>1, Areas
  <2>2. \A x \in 0 .. HEAP_BASE - 1 : mem'[x] = mem[x]
    BY <2>1 DEF Adds
  <2>3. mem' \in [0 .. HEAP_END - 1 -> Nat] /\ imem' \in [0 .. ImageRoom - 1 -> Nat] /\ imem'[0] = imem[0]
    BY DEF Adds
  <2>. QED BY <2>2, <2>3, BelowHeap
<1>6. HostType'
  BY Zenon, <1>3, <1>4 DEF HostInv, HostType, Adds
<1>. QED BY <1>3, <1>4, <1>5, <1>6 DEF HostInv

\* A number for an argument does.
LEMMA IntArgInv ==
  ASSUME HostInv, IntArg
  PROVE  HostInv'
<1>1. /\ call.at = "none" /\ todo # <<>> /\ Head(todo).kind = "int"
      /\ args' = Append(args, Head(todo).val) /\ todo' = Tail(todo)
      /\ UNCHANGED <<transport, mem, imem, heap, bufs, call, thread, did, outcome, launches>>
  BY DEF IntArg, NextOf
<1>2. PICK s \in Sessions : Place(s) /\ SpecLegal(Head(todo))
  BY <1>1, NextSpec
<1>3. PICK v \in Nat : v = Head(todo).val
  BY <1>1, <1>2 DEF SpecLegal
<1>4. ~IsBuffer(Head(todo))
  BY <1>1 DEF IsBuffer
<1>5. InSession' /\ args' \in Seq(Nat) /\ todo' \in Seq(Specs)
  BY <1>1, <1>2, <1>3, <1>4, KeepsSession
<1>6. HostType'
  BY Zenon, <1>1, <1>5 DEF HostInv, HostType
<1>7. CallLegal' /\ ThreadsPlaced' /\ ImageLaunched'
  <2>1. mem \in [0 .. HEAP_END - 1 -> Nat] /\ imem \in [0 .. ImageRoom - 1 -> Nat]
    BY Zenon DEF HostInv, HostType
  <2>. QED BY <1>1, <2>1, BelowHeap
<1>8. BuffersApart'
  BY Zenon, <1>1 DEF HostInv, BuffersApart
<1>. QED BY <1>5, <1>6, <1>7, <1>8 DEF HostInv

\* The end of the heap does.
LEMMA ExhaustedInv ==
  ASSUME HostInv, Exhausted
  PROVE  HostInv'
<1>1. /\ call.at = "none" /\ outcome' = [kind |-> "exhausted", fails |-> {}] /\ todo' = <<>>
      /\ launches' = MaxLaunches
      /\ UNCHANGED <<transport, mem, imem, heap, bufs, args, call, thread, did>>
  BY Zenon DEF Exhausted
<1>2. todo' \in Seq(Specs) /\ launches' \in Nat /\ outcome'.kind = "exhausted"
  BY <1>1, LayoutAssumption
<1>3. HostType'
  BY Zenon, <1>1, <1>2 DEF HostInv, HostType
<1>4. ~InCall' /\ ~Reported'
  BY <1>1, <1>2 DEF InCall, Reported
<1>5. CallLegal' /\ ThreadsPlaced' /\ InSession'
  BY <1>1, <1>4 DEF CallLegal, ThreadsPlaced, InSession
<1>6. ImageLaunched' /\ BuffersApart'
  BY Zenon, <1>1 DEF HostInv, ImageLaunched, BuffersApart
<1>. QED BY <1>3, <1>5, <1>6 DEF HostInv

\* The next session does, with the buffers kept or freed.
LEMMA BeginInv ==
  ASSUME HostInv, Begin
  PROVE  HostInv'
<1>1. PICK s \in Sessions, free \in BOOLEAN :
        /\ todo' = s /\ args' = <<>>
        /\ heap' = IF free THEN HEAP_BASE ELSE heap
        /\ bufs' = IF free THEN {} ELSE bufs
  BY Zenon DEF Begin
<1>2. /\ call.at = "none"
      /\ UNCHANGED <<transport, mem, imem, call, thread, did, outcome, launches>>
  BY Zenon DEF Begin
<1>3. todo' \in Seq(Specs) /\ args' \in Seq(Nat) /\ Len(args') = 0 /\ DOMAIN args' = {}
  <2>1. s \in Seq(Specs)
    BY SessionFacts
  <2>. QED BY <1>1, <2>1
<1>4. InSession'
  <2>1. Len(s) = Len(args') + Len(todo') /\ \A k \in DOMAIN todo' : todo'[k] = s[Len(args') + k]
    <3>1. DOMAIN s = 1 .. Len(s) /\ Len(s) \in Nat
      BY SessionFacts
    <3>. QED BY <1>1, <1>3, <3>1
  <2>2. Handed(s)'
    BY <1>3 DEF Handed
  <2>. QED BY <2>1, <2>2 DEF InSession, Place
<1>5. BuffersApart' /\ heap' \in HEAP_BASE .. HEAP_END /\ bufs' \subseteq Held
  <2>1. BuffersApart /\ heap \in HEAP_BASE .. HEAP_END /\ bufs \subseteq Held
    BY Zenon DEF HostInv, HostType
  <2>2. CASE free
    <3>1. heap' = HEAP_BASE /\ bufs' = {}
      BY <1>1, <2>2
    <3>. QED BY <3>1, Areas DEF BuffersApart
  <2>3. CASE ~free
    <3>1. heap' = heap /\ bufs' = bufs
      BY <1>1, <2>3
    <3>. QED BY Zenon, <2>1, <3>1 DEF BuffersApart
  <2>. QED BY <2>2, <2>3
<1>6. HostType'
  BY Zenon, <1>2, <1>3, <1>5 DEF HostInv, HostType
<1>7. CallLegal' /\ ThreadsPlaced' /\ ImageLaunched'
  <2>1. mem \in [0 .. HEAP_END - 1 -> Nat] /\ imem \in [0 .. ImageRoom - 1 -> Nat]
    BY Zenon DEF HostInv, HostType
  <2>. QED BY <1>2, <2>1, BelowHeap
<1>. QED BY <1>4, <1>5, <1>6, <1>7 DEF HostInv

\* A launch leaves the heap, and clears what the threads report.
LEMMA LaunchFacts ==
  ASSUME HostInv, Launch
  PROVE  \E s \in Sessions :
         /\ Called(s)' /\ s[Len(s)].kind = "launch" /\ todo' = <<>>
         /\ call'.kernel \in DOMAIN Kernels /\ call'.ran = 0
         /\ call'.at = IF transport = "sim" THEN "loop" ELSE "none"
         /\ mem' \in [0 .. HEAP_END - 1 -> Nat] /\ mem'[0] = call'.kernel
         /\ \A x \in DONE_BASE .. HEAP_BASE - 1 : mem'[x] = 0
         /\ \A x \in HEAP_BASE .. HEAP_END - 1 : mem'[x] = mem[x]
         /\ imem' \in [0 .. ImageRoom - 1 -> Nat]
         /\ transport = "uio" => imem'[0] = call'.kernel
<1>1. call.at = "none" /\ todo # <<>> /\ Head(todo).kind = "launch"
  BY Zenon DEF Launch, NextOf
<1>2. PICK s \in Sessions, n \in Nat :
           /\ Place(s) /\ n = Len(args) /\ DOMAIN args = 1 .. n /\ n + 1 <= Len(s) /\ DOMAIN s = 1 .. Len(s)
           /\ Head(todo) = s[n + 1] /\ SpecLegal(s[n + 1])
           /\ Tail(todo) \in Seq(Specs) /\ Len(Tail(todo)) = Len(s) - n - 1
           /\ s[n + 1].kind = "launch" => Len(s) = n + 1
           /\ Len(s) \in Nat /\ Len(s) + 1 <= ParamRoom
  BY Zenon, <1>1, NextSpec
<1>3. Len(s) = n + 1 /\ s[n + 1].kind = "launch"
  BY Zenon, <1>1, <1>2
<1>4. Tail(todo) = <<>>
  <2>1. Len(Tail(todo)) = 0
    BY <1>2, <1>3
  <2>2. Tail(todo) \in Seq(Specs)
    BY Zenon, <1>2
  <2>3. \A q \in Seq(Specs) : Len(q) = 0 => q = <<>>
    BY EmptySeq
  <2>. QED BY Zenon, <2>1, <2>2, <2>3
<1>5. PICK kernel \in DOMAIN Kernels, grid_n \in Nat : kernel = s[n + 1].kernel /\ grid_n = s[n + 1].grid_n
  BY <1>2, <1>3 DEF SpecLegal
<1>6. kernel \in Nat
  BY ProgramAssumption
<1>7. /\ mem' = AllStored(mem, LaunchWrites(kernel, grid_n))
      /\ imem' = IF transport = "uio" THEN AllStored(imem, LaunchWrites(kernel, grid_n)) ELSE imem
      /\ call' = [at |-> IF transport = "sim" THEN "loop" ELSE "none", kernel |-> kernel, ran |-> 0]
      /\ todo' = Tail(todo) /\ UNCHANGED <<transport, heap, bufs, args>>
  BY Zenon, <1>2, <1>5 DEF Launch
<1>8. HostType
  BY DEF HostInv
<1>9. Len(args) + 2 <= ParamRoom
  BY <1>2, <1>3, Areas
<1>10. /\ mem' \in [0 .. HEAP_END - 1 -> Nat]
       /\ mem'[0] = kernel /\ mem'[PARAMS_BASE + 1] = Padded(grid_n)
       /\ \A k \in DOMAIN args : mem'[PARAMS_BASE + 1 + k] = args[k]
       /\ \A x \in DONE_BASE .. HEAP_BASE - 1 : mem'[x] = 0
       /\ \A x \in HEAP_BASE .. HEAP_END - 1 : mem'[x] = mem[x]
  BY <1>6, <1>7, <1>8, <1>9, LaunchMemory
<1>11. imem' \in [0 .. ImageRoom - 1 -> Nat] /\ (transport = "uio" => imem'[0] = kernel)
  <2>1. imem \in [0 .. ImageRoom - 1 -> Nat]
    BY Zenon, <1>8 DEF HostType
  <2>2. CASE transport = "uio"
    <3>1. imem' = AllStored(imem, LaunchWrites(kernel, grid_n))
      BY <1>7, <2>2
    <3>. QED BY <1>6, <1>8, <3>1, LaunchImage
  <2>3. CASE transport # "uio"
    BY <1>7, <2>1, <2>3
  <2>. QED BY <2>2, <2>3
<1>12. Handed(s)'
  <2>1. Handed(s)
    BY <1>2 DEF Place
  <2>. QED BY Zenon, <1>7, <2>1 DEF Handed
<1>13. Called(s)'
  <2>1. call'.kernel = kernel /\ Len(args') = n /\ args' = args
    BY Zenon, <1>2, <1>7
  <2>. QED BY <1>2, <1>3, <1>5, <1>10, <1>12, <2>1 DEF Called
<1>14. /\ call'.kernel = kernel /\ call'.ran = 0
       /\ call'.at = IF transport = "sim" THEN "loop" ELSE "none"
  BY <1>7
<1>15. s[Len(s)].kind = "launch" /\ todo' = <<>>
  BY <1>3, <1>4, <1>7
<1>. QED BY Zenon, <1>5, <1>10, <1>11, <1>13, <1>14, <1>15

\* A launch leaves a legal call behind it.
LEMMA LaunchInv ==
  ASSUME HostInv, Launch
  PROVE  HostInv'
<1>1. PICK s \in Sessions :
         /\ Called(s)' /\ s[Len(s)].kind = "launch" /\ todo' = <<>>
         /\ call'.kernel \in DOMAIN Kernels /\ call'.ran = 0
         /\ call'.at = IF transport = "sim" THEN "loop" ELSE "none"
         /\ mem' \in [0 .. HEAP_END - 1 -> Nat] /\ mem'[0] = call'.kernel
         /\ \A x \in DONE_BASE .. HEAP_BASE - 1 : mem'[x] = 0
         /\ \A x \in HEAP_BASE .. HEAP_END - 1 : mem'[x] = mem[x]
         /\ imem' \in [0 .. ImageRoom - 1 -> Nat]
         /\ transport = "uio" => imem'[0] = call'.kernel
  BY LaunchFacts
<1>2. /\ thread' = Asleep /\ did' = Silent
      /\ outcome' = [kind |-> IF transport = "sim" THEN "none" ELSE "not implemented", fails |-> {}]
      /\ launches' = launches + 1
      /\ UNCHANGED <<transport, heap, bufs, args>>
  BY Zenon DEF Launch
<1>3. call' \in [at : {"none", "loop", "run"}, kernel : Nat, ran : Nat]
  <2>1. PICK k, at : call' = [at |-> at, kernel |-> k, ran |-> 0]
    BY Zenon DEF Launch
  <2>2. k \in Nat /\ at \in {"none", "loop", "run"}
    <3>1. call'.kernel = k /\ call'.at = at
      BY <2>1
    <3>2. k \in Nat
      BY <1>1, <3>1, ProgramAssumption
    <3>. QED BY <1>1, <3>1, <3>2
  <2>. QED BY <2>1, <2>2
<1>4. thread' \in [Tids -> [at : Nat \ {0}, i : Nat, w : Nat]] /\ did' \in [Tids -> [code : Nat, log : Seq(Nat)]]
  <2>1. \A t \in Tids : [at |-> 1, i |-> t, w |-> 0] \in [at : Nat \ {0}, i : Nat, w : Nat]
    BY Areas
  <2>2. [code |-> 0, log |-> <<>>] \in [code : Nat, log : Seq(Nat)]
    OBVIOUS
  <2>. QED BY Zenon, <1>2, <2>1, <2>2 DEF Asleep, Silent
<1>5. outcome'.kind = IF transport = "sim" THEN "none" ELSE "not implemented"
  BY Zenon, <1>2
<1>6. todo' \in Seq(Specs)
  BY <1>1
<1>7. launches' \in Nat
  <2>1. launches \in Nat
    BY Zenon DEF HostInv, HostType
  <2>2. launches' = launches + 1
    BY Zenon DEF Launch
  <2>. QED BY <2>1, <2>2
<1>8. HostType'
  <2>1. HostType
    BY DEF HostInv
  <2>2. outcome'.kind \in {"none", "exhausted", "not implemented", "ok", "KernelAssert", "TimeoutError"}
    BY Zenon, <1>5
  <2>. QED BY Zenon, <1>1, <1>2, <1>3, <1>4, <1>6, <1>7, <2>1, <2>2 DEF HostType
<1>9. BuffersApart' /\ InSession'
  BY Zenon, <1>1, <1>2 DEF HostInv, BuffersApart, InSession
<1>10. CallLegal'
  <2>1. InCall' => transport = "sim"
    BY <1>1 DEF InCall
  <2>. QED BY <1>1, <1>5, <2>1 DEF CallLegal
<1>11. ThreadsPlaced'
  <2>1. \A t \in Tids : mem'[DONE_BASE + t] = 0
    <3>1. \A t \in Tids : DONE_BASE + t \in DONE_BASE .. HEAP_BASE - 1
      BY Areas
    <3>. QED BY <1>1, <3>1
  <2>2. \A t \in Tids : thread'[t].at <= Len(Script(t)') + 2
    <3> TAKE t \in Tids
    <3>1. Script(t)' = Kernels[call'.kernel][t]
      BY <1>1 DEF Script
    <3>2. Len(Script(t)') \in Nat
      BY <1>1, <3>1, ScriptFacts
    <3>3. thread'[t].at = 1
      BY Zenon, <1>2 DEF Asleep
    <3>. QED BY <3>2, <3>3
  <2>. QED BY <1>1, <2>1, <2>2 DEF ThreadsPlaced
<1>12. ImageLaunched'
  BY Zenon, <1>1, <1>2 DEF ImageLaunched
<1>. QED BY <1>8, <1>9, <1>10, <1>11, <1>12 DEF HostInv

\* RUN, and a poll that goes on.
LEMMA CallGoesOn ==
  ASSUME HostInv, InCall, InCall', call' \in [at : {"none", "loop", "run"}, kernel : Nat, ran : Nat],
         call'.kernel = call.kernel,
         UNCHANGED <<transport, mem, imem, heap, bufs, args, todo, thread, did, outcome, launches>>
  PROVE  HostInv'
<1>1. HostType'
  BY Zenon DEF HostInv, HostType
<1>a. \A s : Handed(s)' <=> Handed(s)
  BY DEF Handed
<1>2. BuffersApart' /\ ImageLaunched'
  BY Zenon DEF HostInv, BuffersApart, ImageLaunched
<1>b. InSession'
  <2>1. \A s : Place(s)' <=> Place(s)
    BY <1>a DEF Place
  <2>. QED BY Zenon, <2>1 DEF HostInv, InSession
<1>3. CallLegal'
  <2>1. \A s : Called(s)' <=> Called(s)
    BY <1>a DEF Called
  <2>. QED BY Zenon, <2>1 DEF HostInv, CallLegal
<1>4. ThreadsPlaced'
  BY Zenon DEF HostInv, ThreadsPlaced, Script
<1>. QED BY <1>1, <1>2, <1>b, <1>3, <1>4 DEF HostInv

\* RUN only hands the device the cycles.
LEMMA RunInv ==
  ASSUME HostInv, RUN
  PROVE  HostInv'
<1>1. call \in [at : {"none", "loop", "run"}, kernel : Nat, ran : Nat]
  BY Zenon DEF HostInv, HostType
<1>2. /\ call.at = "loop" /\ call' = [call EXCEPT !.at = "run"]
      /\ UNCHANGED <<transport, mem, imem, heap, bufs, args, todo, thread, did, outcome, launches>>
  BY DEF RUN
<1>3. call'.at = "run" /\ call'.kernel = call.kernel /\ call' \in [at : {"none", "loop", "run"}, kernel : Nat, ran : Nat]
  BY <1>1, <1>2
<1>. QED BY <1>2, <1>3, CallGoesOn DEF InCall

\* What a poll does: the kernel ended, the host waits on, or it gives up.
LEMMA PollCases ==
  ASSUME HostInv, Poll
  PROVE  /\ InCall /\ UNCHANGED <<transport, mem, imem, heap, args, todo, thread, did, launches>>
         /\ call'.kernel = call.kernel /\ call' \in [at : {"none", "loop", "run"}, kernel : Nat, ran : Nat]
         /\ \/ /\ done_sum = NTHREADS /\ bufs' = Computed(call.kernel) /\ call'.at = "none"
               /\ outcome'.kind = IF _assert_failures # {} THEN "KernelAssert" ELSE "ok"
               /\ outcome'.fails = _assert_failures
            \/ call'.at = "loop" /\ UNCHANGED <<bufs, outcome>>
            \/ /\ bufs' = Forgotten(call.kernel) /\ call'.at = "none"
               /\ outcome'.kind = IF _assert_failures # {} THEN "KernelAssert" ELSE "TimeoutError"
               /\ outcome'.fails = _assert_failures
<1>1. call \in [at : {"none", "loop", "run"}, kernel : Nat, ran : Nat]
  BY Zenon DEF HostInv, HostType
<1>2. call.at = "run" /\ UNCHANGED <<transport, mem, imem, heap, args, todo, thread, did, launches>>
  BY Zenon DEF Poll
<1>3. \/ done_sum = NTHREADS /\ Return("ok") /\ bufs' = Computed(call.kernel)
      \/ call' = [call EXCEPT !.at = "loop", !.ran = Counted] /\ UNCHANGED <<bufs, outcome>>
      \/ Return("TimeoutError") /\ bufs' = Forgotten(call.kernel)
  BY Zenon DEF Poll
<1>4. ASSUME NEW kind, Return(kind)
      PROVE  /\ call'.kernel = call.kernel /\ call' \in [at : {"none", "loop", "run"}, kernel : Nat, ran : Nat]
             /\ call'.at = "none" /\ outcome'.kind = IF _assert_failures # {} THEN "KernelAssert" ELSE kind
             /\ outcome'.fails = _assert_failures
  <2>1. call' = [call EXCEPT !.at = "none", !.ran = 0]
    BY Zenon, <1>4 DEF Return
  <2>2. outcome' = [kind |-> IF _assert_failures # {} THEN "KernelAssert" ELSE kind, fails |-> _assert_failures]
    BY Zenon, <1>4 DEF Return
  <2>3. call'.kernel = call.kernel /\ call'.at = "none" /\ call' \in [at : {"none", "loop", "run"}, kernel : Nat, ran : Nat]
    BY <1>1, <2>1
  <2>. QED BY <2>2, <2>3
<1>5. ASSUME call' = [call EXCEPT !.at = "loop", !.ran = Counted]
      PROVE  /\ call'.kernel = call.kernel /\ call' \in [at : {"none", "loop", "run"}, kernel : Nat, ran : Nat]
             /\ call'.at = "loop"
  <2>1. Counted \in Nat
    BY <1>1 DEF Counted
  <2>. QED BY <1>1, <1>5, <2>1
<1>6. InCall
  BY <1>2 DEF InCall
<1>7. CASE done_sum = NTHREADS /\ Return("ok") /\ bufs' = Computed(call.kernel)
  BY Zenon, <1>2, <1>4, <1>6, <1>7
<1>8. CASE call' = [call EXCEPT !.at = "loop", !.ran = Counted] /\ UNCHANGED <<bufs, outcome>>
  BY Zenon, <1>2, <1>5, <1>6, <1>8
<1>9. CASE Return("TimeoutError") /\ bufs' = Forgotten(call.kernel)
  BY Zenon, <1>2, <1>4, <1>6, <1>9
<1>. QED BY Zenon, <1>3, <1>7, <1>8, <1>9

\* What a kernel computes lies where the buffers lie.
LEMMA ComputedApart ==
  ASSUME HostInv, NEW f \in Contents, bufs' = Shape(f), heap' = heap
  PROVE  BuffersApart' /\ bufs' \subseteq Held
<1>1. \A b \in bufs : f[b] \in Seq(Nat) /\ Len(f[b]) = Len(b.words)
  BY DEF Contents
<1>2. \A q \in bufs' : \E b \in bufs : q = [addr |-> b.addr, words |-> f[b]]
  BY Zenon DEF Shape
<1>3. ASSUME NEW q \in bufs'
      PROVE  q \in Held /\ \E b \in bufs : q = [addr |-> b.addr, words |-> f[b]] /\ q.addr = b.addr /\ Len(q.words) = Len(b.words)
  <2>1. PICK b \in bufs : q = [addr |-> b.addr, words |-> f[b]]
    BY <1>2
  <2>. QED BY <1>1, <2>1, BuffersNamed DEF Held
<1>4. \A b \in bufs : Len(b.words) > 0 /\ HEAP_BASE <= b.addr /\ b.addr + Len(b.words) <= heap
  BY Zenon DEF HostInv, BuffersApart
<1>5. \A b, c \in bufs : b = c \/ b.addr + Len(b.words) <= c.addr \/ c.addr + Len(c.words) <= b.addr
  BY Zenon DEF HostInv, BuffersApart
<1>6. \A q \in bufs' : Len(q.words) > 0 /\ HEAP_BASE <= q.addr /\ q.addr + Len(q.words) <= heap'
  BY Zenon, <1>3, <1>4
<1>7. \A q, r \in bufs' : q = r \/ q.addr + Len(q.words) <= r.addr \/ r.addr + Len(r.words) <= q.addr
  <2> TAKE q, r \in bufs'
  <2>1. PICK b \in bufs : q = [addr |-> b.addr, words |-> f[b]] /\ q.addr = b.addr /\ Len(q.words) = Len(b.words)
    BY <1>3
  <2>2. PICK c \in bufs : r = [addr |-> c.addr, words |-> f[c]] /\ r.addr = c.addr /\ Len(r.words) = Len(c.words)
    BY <1>3
  <2>. QED BY Zenon, <1>5, <2>1, <2>2
<1>. QED BY <1>3, <1>6, <1>7 DEF BuffersApart

\* The host reads the mailboxes and returns, or runs on.
LEMMA PollInv ==
  ASSUME HostInv, Poll
  PROVE  HostInv'
<1>1. /\ InCall /\ UNCHANGED <<transport, mem, imem, heap, args, todo, thread, did, launches>>
      /\ call'.kernel = call.kernel /\ call' \in [at : {"none", "loop", "run"}, kernel : Nat, ran : Nat]
  BY Zenon, PollCases
<1>2. CASE call'.at = "loop" /\ UNCHANGED <<bufs, outcome>>
  <2>1. InCall'
    BY <1>2 DEF InCall
  <2>. QED BY Zenon, <1>1, <1>2, <2>1, CallGoesOn
<1>3. ASSUME bufs' \subseteq Held, BuffersApart', call'.at = "none",
             outcome'.kind \in {"ok", "KernelAssert", "TimeoutError"}
      PROVE  HostInv'
  <2>1. outcome'.kind \in {"none", "exhausted", "not implemented", "ok", "KernelAssert", "TimeoutError"}
    BY Zenon, <1>3
  <2>2. HostType'
    BY Zenon, <1>1, <1>3, <2>1 DEF HostInv, HostType
  <2>3. ~InCall'
    BY <1>3 DEF InCall
  <2>4. todo' = <<>>
    BY <1>1 DEF HostInv, CallLegal
  <2>5. ThreadsPlaced'
    BY Zenon, <1>1 DEF HostInv, ThreadsPlaced, Script
  <2>6. ImageLaunched'
    BY Zenon, <1>1 DEF HostInv, ImageLaunched
  <2>. QED BY <1>3, <2>2, <2>3, <2>4, <2>5, <2>6 DEF HostInv, InSession, CallLegal
<1>4. CASE bufs' = Computed(call.kernel) /\ call'.at = "none" /\ outcome'.kind \in {"ok", "KernelAssert"}
  <2>1. PICK f \in Contents : bufs' = Shape(f)
    <3>1. bufs' = HeldAfter(Ops)[Len(Ops)]
      BY <1>4 DEF Computed, Ops
    <3>2. Len(Ops) \in 0 .. Len(Ops)
      <4>1. Len(Ops) \in Nat
        BY <1>1, OpsHeld, ScriptFacts, Areas DEF Ops
      <4>. QED BY <4>1
    <3>. QED BY Zenon, <1>1, <3>1, <3>2, AfterShape
  <2>2. BuffersApart' /\ bufs' \subseteq Held
    BY <1>1, <2>1, ComputedApart
  <2>. QED BY <1>3, <1>4, <2>2
<1>5. CASE bufs' = Forgotten(call.kernel) /\ call'.at = "none" /\ outcome'.kind \in {"KernelAssert", "TimeoutError"}
  <2>1. bufs' \subseteq bufs
    BY <1>5 DEF Forgotten
  <2>2. bufs' \subseteq Held
    BY Zenon, <2>1 DEF HostInv, HostType
  <2>3. BuffersApart'
    <3>1. /\ \A b \in bufs : Len(b.words) > 0 /\ HEAP_BASE <= b.addr /\ b.addr + Len(b.words) <= heap
          /\ \A b, c \in bufs : b = c \/ b.addr + Len(b.words) <= c.addr \/ c.addr + Len(c.words) <= b.addr
      BY Zenon DEF HostInv, BuffersApart
    <3>2. heap' = heap
      BY <1>1
    <3>. QED BY Zenon, <2>1, <3>1, <3>2 DEF BuffersApart
  <2>. QED BY <1>3, <1>5, <2>2, <2>3
<1>. QED BY <1>2, <1>4, <1>5, PollCases

-----------------------------------------------------------------------------
(* The device's steps *)

\* Where a thread is in its script.
LEMMA Running_ ==
  ASSUME HostInv, NEW t \in Tids, Running(t)
  PROVE  /\ InCall /\ thread[t].at \in DOMAIN Script(t) /\ Op(t) = Script(t)[thread[t].at]
         /\ OpHeld(Op(t)) /\ OpLegal(Op(t))
         /\ thread[t].at \in Nat \ {0} /\ thread[t].i \in Nat /\ thread[t].w \in Nat
         /\ \A k \in DOMAIN args : mk_arg(k) = args[k] /\ args[k] \in Nat
<1>1. InCall
  BY DEF Running, InCall
<1>2. thread[t].at \in Nat \ {0} /\ thread[t].i \in Nat /\ thread[t].w \in Nat
  <2>1. thread \in [Tids -> [at : Nat \ {0}, i : Nat, w : Nat]]
    BY Zenon DEF HostInv, HostType
  <2>. QED BY <2>1
<1>3. /\ Script(t) = Kernels[call.kernel][t] /\ call.kernel \in DOMAIN Kernels
      /\ \A p \in DOMAIN Script(t) : OpHeld(Script(t)[p])
      /\ \A k \in DOMAIN args : mk_arg(k) = args[k]
  BY <1>1, OpsHeld
<1>4. DOMAIN Script(t) = 1 .. Len(Script(t)) /\ \A p \in DOMAIN Script(t) : OpLegal(Script(t)[p])
  BY <1>3, ScriptFacts
<1>5. thread[t].at \in DOMAIN Script(t)
  BY <1>2, <1>4 DEF Running
<1>6. \A k \in DOMAIN args : args[k] \in Nat
  <2>1. args \in Seq(Nat)
    BY Zenon DEF HostInv, HostType
  <2>. QED BY <2>1
<1>. QED BY Zenon, <1>1, <1>2, <1>3, <1>4, <1>5, <1>6 DEF Op

\* The words of a buffer lie in the heap.
LEMMA InHeap ==
  ASSUME HostInv, NEW b \in bufs, NEW k \in 0 .. Len(b.words) - 1
  PROVE  b.addr + k \in HEAP_BASE .. HEAP_END - 1
<1>1. heap \in HEAP_BASE .. HEAP_END
  BY Zenon DEF HostInv, HostType
<1>2. HEAP_BASE <= b.addr /\ b.addr + Len(b.words) <= heap
  BY Zenon DEF HostInv, BuffersApart
<1>3. b.addr \in Nat /\ Len(b.words) \in Nat
  BY BuffersNamed
<1>. QED BY <1>1, <1>2, <1>3, Areas

\* What a step of the device may change: its thread's place, and of the memory the
\* data, its DONE word, or its reports.
ThreadMoves(t) ==
  /\ mem' \in [0 .. HEAP_END - 1 -> Nat]
  /\ thread' \in [Tids -> [at : Nat \ {0}, i : Nat, w : Nat]] /\ did' \in [Tids -> [code : Nat, log : Seq(Nat)]]
  /\ InCall /\ host' = host
  /\ \A u \in Tids : u # t => thread'[u] = thread[u] /\ did'[u] = did[u]
  /\ thread[t].at <= Len(Script(t)) + 1 /\ thread'[t].at <= Len(Script(t)) + 2
  /\ thread'[t].at >= thread[t].at
OnlyAt(X) == \A x \in 0 .. HEAP_END - 1 : x \notin X => mem'[x] = mem[x]
Goes(t, at, i, w) == thread'[t].at = at /\ thread'[t].i = i /\ thread'[t].w = w

\* The thread's place after a step.
Moved(t) ==
  /\ thread' \in [Tids -> [at : Nat \ {0}, i : Nat, w : Nat]]
  /\ \A u \in Tids : u # t => thread'[u] = thread[u]

\* A thread that goes to its next operation moves within its script.
LEMMA Steps ==
  ASSUME HostInv, NEW t \in Tids, Step(t)
  PROVE  Moved(t) /\ Goes(t, thread[t].at + 1, t, 0)
<1>1. thread \in [Tids -> [at : Nat \ {0}, i : Nat, w : Nat]]
  BY Zenon DEF HostInv, HostType
<1>2. PICK p \in Nat \ {0} : p = thread[t].at
  BY <1>1
<1>3. thread' = [thread EXCEPT ![t] = [at |-> p + 1, i |-> t, w |-> 0]]
  BY <1>2 DEF Step
<1>4. [at |-> p + 1, i |-> t, w |-> 0] \in [at : Nat \ {0}, i : Nat, w : Nat] /\ t \in Nat
  BY Areas
<1>. QED BY <1>1, <1>2, <1>3, <1>4 DEF Moved, Goes

\* So does one that goes to its next index,
LEMMA Strides ==
  ASSUME HostInv, NEW t \in Tids, NEW i \in Nat, thread' = [thread EXCEPT ![t].i = i]
  PROVE  Moved(t) /\ Goes(t, thread[t].at, i, thread[t].w)
<1>1. thread \in [Tids -> [at : Nat \ {0}, i : Nat, w : Nat]]
  BY Zenon DEF HostInv, HostType
<1>. QED BY <1>1 DEF Moved, Goes

\* one that looks at the next flag,
LEMMA BarrierWaits ==
  ASSUME HostInv, NEW t \in Tids, NEW w \in Nat, thread' = [thread EXCEPT ![t].w = w]
  PROVE  Moved(t) /\ Goes(t, thread[t].at, thread[t].i, w)
<1>1. thread \in [Tids -> [at : Nat \ {0}, i : Nat, w : Nat]]
  BY Zenon DEF HostInv, HostType
<1>. QED BY <1>1 DEF Moved, Goes

\* and one that parks behind a trap.
LEMMA Parks ==
  ASSUME HostInv, NEW t \in Tids, NEW p \in Nat \ {0}, thread' = [thread EXCEPT ![t].at = p]
  PROVE  Moved(t) /\ Goes(t, p, thread[t].i, thread[t].w)
<1>1. thread \in [Tids -> [at : Nat \ {0}, i : Nat, w : Nat]]
  BY Zenon DEF HostInv, HostType
<1>. QED BY <1>1 DEF Moved, Goes

\* A step inside the script moves so.
LEMMA RunningMoves ==
  ASSUME HostInv, NEW t \in Tids, Running(t), Moved(t), host' = host,
         mem' \in [0 .. HEAP_END - 1 -> Nat], did' \in [Tids -> [code : Nat, log : Seq(Nat)]],
         \A u \in Tids : u # t => did'[u] = did[u],
         thread'[t].at \in {thread[t].at, thread[t].at + 1, Len(Script(t)) + 2}
  PROVE  ThreadMoves(t)
<1>1. PICK p \in Nat, n \in Nat : p = thread[t].at /\ n = Len(Script(t)) /\ p <= n
  <2>1. InCall /\ thread[t].at \in Nat
    BY Running_
  <2>2. Script(t) = Kernels[call.kernel][t] /\ call.kernel \in DOMAIN Kernels
    BY <2>1, OpsHeld
  <2>3. Len(Script(t)) \in Nat
    BY <2>2, ScriptFacts
  <2>. QED BY <2>1, <2>3 DEF Running
<1>2. PICK q \in Nat : q = thread'[t].at /\ q \in {p, p + 1, n + 2}
  BY <1>1
<1>3. thread[t].at <= Len(Script(t)) + 1 /\ thread'[t].at <= Len(Script(t)) + 2 /\ thread'[t].at >= thread[t].at
  <2>1. p <= n /\ (q = p \/ q = p + 1 \/ q = n + 2)
    BY Zenon, <1>1, <1>2
  <2>2. p <= n + 1 /\ q <= n + 2 /\ q >= p
    BY ONLY p \in Nat, n \in Nat, q \in Nat, <2>1
  <2>. QED BY Zenon, <1>1, <1>2, <2>2
<1>4. InCall
  BY Running_
<1>. QED BY Zenon, <1>3, <1>4 DEF ThreadMoves, Moved

\* One round of the sum: word i of C becomes the sum, while i is inside it.
AddStep(t, A, B, C, n) ==
  LET op == Op(t)
      i  == thread[t].i
      p  == thread[t].at
  IN  /\ A.addr = args[op.a] /\ B.addr = args[op.b] /\ C.addr = args[op.c] /\ n = args[op.n]
      /\ n <= Len(A.words) /\ n <= Len(B.words) /\ n <= Len(C.words)
      /\ \/ /\ i < n /\ Goes(t, p, i + NTHREADS, thread[t].w)
            /\ mem' = [mem EXCEPT ![C.addr + i] = (mem[A.addr + i] + mem[B.addr + i]) % Modulus]
         \/ n <= i /\ mem' = mem /\ Goes(t, p, i + NTHREADS, thread[t].w)
         \/ n <= i /\ mem' = mem /\ Goes(t, p + 1, t, 0)

\* A round of the sum writes inside the output buffer.
LEMMA AddFacts ==
  ASSUME HostInv, NEW t \in Tids, Add(t)
  PROVE  /\ ThreadMoves(t) /\ did' = did /\ OnlyAt(HEAP_BASE .. HEAP_END - 1) /\ Running(t) /\ Op(t).op = "add"
         /\ \E A, B, C \in bufs, n \in Nat : AddStep(t, A, B, C, n)
<1>1. Running(t) /\ Op(t).op = "add" /\ did' = did /\ host' = host
  BY DEF Add, Doing, host
<1> DEFINE op == Op(t)
<1>2. /\ OpHeld(op) /\ thread[t].at \in Nat \ {0} /\ thread[t].i \in Nat
      /\ \A k \in DOMAIN args : mk_arg(k) = args[k] /\ args[k] \in Nat
  BY <1>1, Running_
<1>3. /\ op.n \in DOMAIN args /\ args[op.n] <= mk_grid_n
      /\ \A k \in {op.a, op.b, op.c} :
           k \in DOMAIN args /\ \E b \in bufs : b.addr = args[k] /\ args[op.n] <= Len(b.words)
  BY <1>1, <1>2 DEF OpHeld
<1>4. PICK n \in Nat : n = args[op.n]
  BY <1>2, <1>3
<1>5. PICK A \in bufs : A.addr = args[op.a] /\ n <= Len(A.words)
  BY <1>3, <1>4
<1>6. PICK B \in bufs : B.addr = args[op.b] /\ n <= Len(B.words)
  BY <1>3, <1>4
<1>7. PICK C \in bufs : C.addr = args[op.c] /\ n <= Len(C.words)
  BY <1>3, <1>4
<1>8. mk_arg(op.a) = A.addr /\ mk_arg(op.b) = B.addr /\ mk_arg(op.c) = C.addr /\ mk_arg(op.n) = n
  BY <1>2, <1>3, <1>4, <1>5, <1>6, <1>7
<1>9. PICK i \in Nat, p \in Nat : i = thread[t].i /\ p = thread[t].at
  BY <1>2
<1>10. \/ /\ i < mk_grid_n /\ thread' = [thread EXCEPT ![t].i = i + NTHREADS]
          /\ mem' = IF i < n THEN [mem EXCEPT ![C.addr + i] = (mem[A.addr + i] + mem[B.addr + i]) % Modulus] ELSE mem
       \/ ~(i < mk_grid_n) /\ Step(t) /\ mem' = mem
  BY Zenon, <1>8, <1>9 DEF Add
<1>11. mem \in [0 .. HEAP_END - 1 -> Nat] /\ did \in [Tids -> [code : Nat, log : Seq(Nat)]]
  BY Zenon DEF HostInv, HostType
<1>12. ASSUME i < n
       PROVE  /\ A.addr + i \in HEAP_BASE .. HEAP_END - 1 /\ B.addr + i \in HEAP_BASE .. HEAP_END - 1
              /\ C.addr + i \in HEAP_BASE .. HEAP_END - 1
              /\ (mem[A.addr + i] + mem[B.addr + i]) % Modulus \in Nat
  <2>1. \A b \in bufs : Len(b.words) \in Nat
    BY BuffersNamed
  <2>2. i \in 0 .. Len(A.words) - 1 /\ i \in 0 .. Len(B.words) - 1 /\ i \in 0 .. Len(C.words) - 1
    BY <1>5, <1>6, <1>7, <1>12, <2>1
  <2>3. /\ A.addr + i \in HEAP_BASE .. HEAP_END - 1 /\ B.addr + i \in HEAP_BASE .. HEAP_END - 1
        /\ C.addr + i \in HEAP_BASE .. HEAP_END - 1
    BY <2>2, InHeap
  <2>4. mem[A.addr + i] \in Nat /\ mem[B.addr + i] \in Nat
    <3>1. HEAP_BASE .. HEAP_END - 1 \subseteq 0 .. HEAP_END - 1
      BY Areas
    <3>. QED BY <1>11, <2>3, <3>1
  <2>5. (mem[A.addr + i] + mem[B.addr + i]) % Modulus \in Nat
    BY <2>4, Areas
  <2>. QED BY <2>3, <2>5
<1>13. mem' \in [0 .. HEAP_END - 1 -> Nat] /\ OnlyAt(HEAP_BASE .. HEAP_END - 1)
  <2>1. CASE mem' = mem
    BY <1>11, <2>1 DEF OnlyAt
  <2>2. CASE i < n /\ mem' = [mem EXCEPT ![C.addr + i] = (mem[A.addr + i] + mem[B.addr + i]) % Modulus]
    <3>1. PICK v \in Nat, x \in HEAP_BASE .. HEAP_END - 1 : mem' = [mem EXCEPT ![x] = v]
      BY <1>12, <2>2
    <3>. QED BY <1>11, <3>1 DEF OnlyAt
  <2>. QED BY <1>10, <2>1, <2>2
<1>14. i + NTHREADS \in Nat
  BY Areas
<1>15. ~(i < mk_grid_n) => n <= i
  <2>1. mk_grid_n \in Nat
    <3>1. PARAMS_BASE + 1 \in 0 .. HEAP_END - 1
      BY Areas
    <3>. QED BY <1>11, <3>1 DEF mk_grid_n
  <2>. QED BY <1>3, <1>4, <2>1
<1>16. /\ Moved(t) /\ thread'[t].at \in {p, p + 1}
       /\ \/ i < mk_grid_n /\ Goes(t, p, i + NTHREADS, thread[t].w)
          \/ ~(i < mk_grid_n) /\ Goes(t, p + 1, t, 0)
  <2>1. CASE thread' = [thread EXCEPT ![t].i = i + NTHREADS] /\ i < mk_grid_n
    <3>1. Moved(t) /\ Goes(t, p, i + NTHREADS, thread[t].w)
      BY <1>9, <1>14, <2>1, Strides
    <3>. QED BY <2>1, <3>1 DEF Goes
  <2>2. CASE Step(t) /\ ~(i < mk_grid_n)
    <3>1. Moved(t) /\ Goes(t, p + 1, t, 0)
      BY <1>9, <2>2, Steps
    <3>. QED BY <2>2, <3>1 DEF Goes
  <2>. QED BY <1>10, <2>1, <2>2
<1>17. ThreadMoves(t)
  BY Zenon, <1>1, <1>9, <1>11, <1>13, <1>16, RunningMoves
<1>18. AddStep(t, A, B, C, n)
  <2>1. CASE i < mk_grid_n /\ i < n
    <3>1. /\ mem' = [mem EXCEPT ![C.addr + i] = (mem[A.addr + i] + mem[B.addr + i]) % Modulus]
          /\ Goes(t, p, i + NTHREADS, thread[t].w)
      BY <1>10, <1>16, <2>1
    <3>. QED BY Zenon, <1>4, <1>5, <1>6, <1>7, <1>9, <2>1, <3>1 DEF AddStep
  <2>2. CASE i < mk_grid_n /\ ~(i < n)
    <3>1. mem' = mem /\ Goes(t, p, i + NTHREADS, thread[t].w) /\ n <= i
      BY <1>10, <1>16, <2>2
    <3>. QED BY Zenon, <1>4, <1>5, <1>6, <1>7, <1>9, <3>1 DEF AddStep
  <2>3. CASE ~(i < mk_grid_n)
    <3>1. mem' = mem /\ Goes(t, p + 1, t, 0) /\ n <= i
      BY <1>10, <1>15, <1>16, <2>3
    <3>. QED BY Zenon, <1>4, <1>5, <1>6, <1>7, <1>9, <3>1 DEF AddStep
  <2>. QED BY <2>1, <2>2, <2>3
<1>. QED BY Zenon, <1>1, <1>13, <1>17, <1>18

\* The flags and phases of a barrier: two words to a thread.
Flags(t, S) == S.addr = args[Op(t).scr] /\ Len(S.words) = 2 * NTHREADS

\* The flags and phases of a barrier lie in one buffer, the kernel's.
LEMMA BarrierFlags ==
  ASSUME HostInv, NEW t \in Tids, Running(t), Op(t).op = "barrier"
  PROVE  \E S \in bufs :
           /\ Flags(t, S) /\ S.addr \in Nat /\ \A x \in DOMAIN S.words : S.words[x] = 0
           /\ ph(Op(t), t) = S.addr + NTHREADS + t /\ \A w : bar(Op(t), w) = S.addr + w
           /\ S.addr + NTHREADS + t \in HEAP_BASE .. HEAP_END - 1
           /\ \A w \in Tids : S.addr + w \in HEAP_BASE .. HEAP_END - 1
           /\ S.addr + NTHREADS + t # S.addr + t
<1> DEFINE op == Op(t)
<1>1. op.scr \in DOMAIN args /\ mk_arg(op.scr) = args[op.scr]
      /\ \E b \in bufs : b.addr = args[op.scr] /\ Len(b.words) = 2 * NTHREADS /\ \A x \in DOMAIN b.words : b.words[x] = 0
  BY Zenon, Running_ DEF OpHeld
<1>2. PICK S \in bufs :
        S.addr = args[op.scr] /\ Len(S.words) = 2 * NTHREADS /\ \A x \in DOMAIN S.words : S.words[x] = 0
  BY <1>1
<1>3. PICK a \in Nat : a = S.addr
  BY BuffersNamed
<1>4. ph(op, t) = a + NTHREADS + t /\ \A w : bar(op, w) = a + w
  BY <1>1, <1>2, <1>3 DEF ph, bar
<1>5. t \in 0 .. NTHREADS - 1 /\ NTHREADS \in Nat \ {0}
  BY Areas
<1>6. \A k \in 0 .. 2 * NTHREADS - 1 : a + k \in HEAP_BASE .. HEAP_END - 1
  BY <1>2, <1>3, InHeap
<1>7. a + NTHREADS + t \in HEAP_BASE .. HEAP_END - 1
  <2>1. NTHREADS + t \in 0 .. 2 * NTHREADS - 1 /\ a + (NTHREADS + t) = a + NTHREADS + t
    BY <1>5
  <2>. QED BY <1>6, <2>1
<1>8. \A w \in Tids : a + w \in HEAP_BASE .. HEAP_END - 1
  <2>1. \A w \in Tids : w \in 0 .. 2 * NTHREADS - 1
    BY <1>5, Areas
  <2>. QED BY <1>6, <2>1
<1>9. a + NTHREADS + t # a + t
  BY <1>5
<1>. QED BY Zenon, <1>2, <1>3, <1>4, <1>7, <1>8, <1>9 DEF Flags

\* A thread arrives at a barrier: its phase and its flag go up.
ArriveStep(t, S) ==
  LET v == mem[S.addr + NTHREADS + t] + 1
  IN  /\ Flags(t, S) /\ thread[t].w = 0
      /\ Goes(t, thread[t].at, thread[t].i, 1)
      /\ mem' = [mem EXCEPT ![S.addr + NTHREADS + t] = v, ![S.addr + t] = v]

\* An arrival writes the thread's flag and phase.
LEMMA ArriveFacts ==
  ASSUME HostInv, NEW t \in Tids, Arrive(t)
  PROVE  /\ ThreadMoves(t) /\ did' = did /\ OnlyAt(HEAP_BASE .. HEAP_END - 1) /\ Running(t) /\ Op(t).op = "barrier"
         /\ \E S \in bufs : ArriveStep(t, S)
<1>1. Running(t) /\ Op(t).op = "barrier" /\ thread[t].w = 0 /\ did' = did /\ host' = host
  BY DEF Arrive, Doing, host
<1>2. PICK S \in bufs :
           /\ Flags(t, S) /\ S.addr \in Nat
           /\ ph(Op(t), t) = S.addr + NTHREADS + t /\ \A w : bar(Op(t), w) = S.addr + w
           /\ S.addr + NTHREADS + t \in HEAP_BASE .. HEAP_END - 1
           /\ \A w \in Tids : S.addr + w \in HEAP_BASE .. HEAP_END - 1
  BY Zenon, <1>1, BarrierFlags
<1>3. /\ mem' = [mem EXCEPT ![S.addr + NTHREADS + t] = mem[S.addr + NTHREADS + t] + 1,
                            ![S.addr + t] = mem[S.addr + NTHREADS + t] + 1]
      /\ thread' = [thread EXCEPT ![t].w = 1]
  BY Zenon, <1>2 DEF Arrive
<1>4. mem \in [0 .. HEAP_END - 1 -> Nat] /\ did \in [Tids -> [code : Nat, log : Seq(Nat)]]
  BY Zenon DEF HostInv, HostType
<1>5. PICK x \in HEAP_BASE .. HEAP_END - 1, y \in HEAP_BASE .. HEAP_END - 1 : x = S.addr + NTHREADS + t /\ y = S.addr + t
  BY <1>2
<1>6. HEAP_BASE .. HEAP_END - 1 \subseteq 0 .. HEAP_END - 1
  BY Areas
<1>7. mem[x] + 1 \in Nat
  BY <1>4, <1>6
<1>8. mem' = [mem EXCEPT ![x] = mem[x] + 1, ![y] = mem[x] + 1]
  BY <1>3, <1>5
<1>9. mem' \in [0 .. HEAP_END - 1 -> Nat] /\ OnlyAt(HEAP_BASE .. HEAP_END - 1)
  BY <1>4, <1>6, <1>7, <1>8 DEF OnlyAt
<1>10. Moved(t) /\ Goes(t, thread[t].at, thread[t].i, 1)
  BY <1>3, BarrierWaits
<1>11. ThreadMoves(t)
  <2>1. thread'[t].at \in {thread[t].at, thread[t].at + 1, Len(Script(t)) + 2}
    BY <1>10 DEF Goes
  <2>. QED BY Zenon, <1>1, <1>4, <1>9, <1>10, <2>1, RunningMoves
<1>12. ArriveStep(t, S)
  BY Zenon, <1>1, <1>2, <1>3, <1>10 DEF ArriveStep
<1>. QED BY Zenon, <1>1, <1>9, <1>11, <1>12

\* A thread finds the flag of thread w - 1 raised.
PollStep(t, S) ==
  LET w == thread[t].w
  IN  /\ Flags(t, S) /\ w \in Nat \ {0} /\ mem' = mem
      /\ mem[S.addr + (w - 1)] >= mem[S.addr + NTHREADS + t]
      /\ \/ w < NTHREADS /\ Goes(t, thread[t].at, thread[t].i, w + 1)
         \/ w >= NTHREADS /\ Goes(t, thread[t].at + 1, t, 0)

\* A look at a flag writes nothing.
LEMMA PollFlagFacts ==
  ASSUME HostInv, NEW t \in Tids, PollFlag(t)
  PROVE  /\ ThreadMoves(t) /\ did' = did /\ OnlyAt({}) /\ Running(t) /\ Op(t).op = "barrier"
         /\ \E S \in bufs : PollStep(t, S)
<1>1. Running(t) /\ Op(t).op = "barrier" /\ thread[t].w > 0 /\ did' = did /\ host' = host /\ mem' = mem
  BY DEF PollFlag, Doing, host
<1>2. PICK S \in bufs :
           /\ Flags(t, S) /\ S.addr \in Nat
           /\ ph(Op(t), t) = S.addr + NTHREADS + t /\ \A w : bar(Op(t), w) = S.addr + w
  BY Zenon, <1>1, BarrierFlags
<1>3. PICK w \in Nat \ {0} : w = thread[t].w
  BY <1>1, Running_
<1>4. mem[S.addr + (w - 1)] >= mem[S.addr + NTHREADS + t]
  BY Zenon, <1>2, <1>3 DEF PollFlag
<1>5. \/ w < NTHREADS /\ thread' = [thread EXCEPT ![t].w = w + 1]
      \/ w >= NTHREADS /\ Step(t)
  <2>1. IF w < NTHREADS THEN thread' = [thread EXCEPT ![t].w = w + 1] ELSE Step(t)
    BY Zenon, <1>3 DEF PollFlag
  <2>2. w < NTHREADS \/ w >= NTHREADS
    BY Areas
  <2>3. ~(w < NTHREADS /\ w >= NTHREADS)
    BY Areas
  <2>. QED BY Zenon, <2>1, <2>2, <2>3
<1>6. mem \in [0 .. HEAP_END - 1 -> Nat] /\ did \in [Tids -> [code : Nat, log : Seq(Nat)]]
  BY Zenon DEF HostInv, HostType
<1>7. Moved(t) /\ \/ w < NTHREADS /\ Goes(t, thread[t].at, thread[t].i, w + 1)
                  \/ w >= NTHREADS /\ Goes(t, thread[t].at + 1, t, 0)
  <2>1. w + 1 \in Nat
    OBVIOUS
  <2>2. CASE w < NTHREADS /\ thread' = [thread EXCEPT ![t].w = w + 1]
    BY <2>1, <2>2, BarrierWaits
  <2>3. CASE w >= NTHREADS /\ Step(t)
    BY <2>3, Steps
  <2>. QED BY <1>5, <2>2, <2>3
<1>8. ThreadMoves(t)
  <2>1. thread'[t].at \in {thread[t].at, thread[t].at + 1, Len(Script(t)) + 2}
    BY <1>7 DEF Goes
  <2>. QED BY Zenon, <1>1, <1>6, <1>7, <2>1, RunningMoves
<1>9. PollStep(t, S)
  BY Zenon, <1>1, <1>2, <1>3, <1>4, <1>7 DEF PollStep
<1>10. OnlyAt({})
  BY <1>1 DEF OnlyAt
<1>. QED BY Zenon, <1>1, <1>8, <1>9, <1>10

\* Hart 0 stores the total of S at D.
CombineStep(t, S, D) ==
  LET op == Op(t)
  IN  /\ S.addr = args[op.src] /\ Len(S.words) = op.n /\ D.addr = args[op.dst] /\ Len(D.words) = 1
      /\ Goes(t, thread[t].at + 1, t, 0)
      /\ mem' = IF t = 0 THEN [mem EXCEPT ![D.addr] = Total(Get(mem, S.addr, op.n))] ELSE mem

\* Hart 0 writes the one word of the total.
LEMMA CombineFacts ==
  ASSUME HostInv, NEW t \in Tids, Combine(t)
  PROVE  /\ ThreadMoves(t) /\ did' = did /\ OnlyAt(HEAP_BASE .. HEAP_END - 1) /\ Running(t) /\ Op(t).op = "combine"
         /\ \E S, D \in bufs : CombineStep(t, S, D)
<1> DEFINE op == Op(t)
<1>1. Running(t) /\ op.op = "combine" /\ did' = did /\ host' = host /\ Step(t)
  BY DEF Combine, Doing, host
<1>2. /\ op.src \in DOMAIN args /\ mk_arg(op.src) = args[op.src]
      /\ op.dst \in DOMAIN args /\ mk_arg(op.dst) = args[op.dst]
      /\ \E b \in bufs : b.addr = args[op.src] /\ Len(b.words) = op.n
      /\ \E b \in bufs : b.addr = args[op.dst] /\ Len(b.words) = 1
  BY Zenon, <1>1, Running_ DEF OpHeld
<1>3. PICK S \in bufs : S.addr = args[op.src] /\ Len(S.words) = op.n
  BY <1>2
<1>4. PICK D \in bufs : D.addr = args[op.dst] /\ Len(D.words) = 1
  BY <1>2
<1>5. mem' = IF t = 0 THEN [mem EXCEPT ![D.addr] = Total(Get(mem, S.addr, op.n))] ELSE mem
  BY Zenon, <1>2, <1>3, <1>4 DEF Combine
<1>6. mem \in [0 .. HEAP_END - 1 -> Nat] /\ did \in [Tids -> [code : Nat, log : Seq(Nat)]]
  BY Zenon DEF HostInv, HostType
<1>7. HEAP_BASE .. HEAP_END - 1 \subseteq 0 .. HEAP_END - 1
  BY Areas
<1>8. D.addr \in HEAP_BASE .. HEAP_END - 1
  <2>1. 0 \in 0 .. Len(D.words) - 1 /\ D.addr + 0 = D.addr
    BY <1>4, BuffersNamed
  <2>. QED BY <2>1, InHeap
<1>9. Total(Get(mem, S.addr, op.n)) \in Nat
  <2>1. PICK n \in Nat, a \in Nat : n = op.n /\ n = Len(S.words) /\ a = S.addr
    BY <1>3, BuffersNamed
  <2>2. ASSUME NEW k \in 1 .. n
        PROVE  mem[a + k - 1] \in Nat
    <3>1. k - 1 \in 0 .. Len(S.words) - 1
      BY <2>1
    <3>2. a + (k - 1) \in HEAP_BASE .. HEAP_END - 1
      BY <2>1, <3>1, InHeap
    <3>3. a + (k - 1) = a + k - 1
      OBVIOUS
    <3>. QED BY <1>6, <1>7, <3>2, <3>3
  <2>3. Get(mem, a, n) \in Seq(Nat)
    BY <2>2 DEF Get
  <2>. QED BY <2>1, <2>3, TotalNat
<1>10. mem' \in [0 .. HEAP_END - 1 -> Nat] /\ OnlyAt(HEAP_BASE .. HEAP_END - 1)
  <2>1. CASE mem' = mem
    BY <1>6, <2>1 DEF OnlyAt
  <2>2. CASE mem' = [mem EXCEPT ![D.addr] = Total(Get(mem, S.addr, op.n))]
    <3>1. PICK v \in Nat, x \in HEAP_BASE .. HEAP_END - 1 : mem' = [mem EXCEPT ![x] = v]
      BY <1>8, <1>9, <2>2
    <3>. QED BY <1>6, <1>7, <3>1 DEF OnlyAt
  <2>. QED BY <1>5, <2>1, <2>2
<1>11. Moved(t) /\ Goes(t, thread[t].at + 1, t, 0)
  BY <1>1, Steps
<1>12. ThreadMoves(t)
  <2>1. thread'[t].at \in {thread[t].at, thread[t].at + 1, Len(Script(t)) + 2}
    BY <1>11 DEF Goes
  <2>. QED BY Zenon, <1>1, <1>6, <1>10, <1>11, <2>1, RunningMoves
<1>13. CombineStep(t, S, D)
  BY Zenon, <1>3, <1>4, <1>5, <1>11 DEF CombineStep
<1>. QED BY Zenon, <1>1, <1>10, <1>12, <1>13

\* A thread logs while its ring has room.
LogStep(t) ==
  LET v == Op(t).v
      r == LogRing(t)
      n == mem[r]
  IN  /\ v \in Nat /\ Goes(t, thread[t].at + 1, t, 0)
      /\ mem' = IF n < LOG_SLOTS THEN [mem EXCEPT ![r + 1 + n] = v, ![r] = n + 1] ELSE mem
      /\ did' = [did EXCEPT ![t].log = IF Len(@) < LOG_SLOTS THEN Append(@, v) ELSE @]

\* A ring and the ASSERT words lie between the DONE words and the heap.
LEMMA RingRoom ==
  ASSUME NEW t \in Tids, NEW n \in 0 .. LOG_SLOTS
  PROVE  LogRing(t) + n \in LOG_BASE .. HEAP_BASE - 1
<1>1. LogRing(t) \in Nat /\ LOG_BASE <= LogRing(t) /\ LogRing(t) + LOG_SLOTS < HEAP_BASE
  BY Rings
<1>. QED BY <1>1, Areas

\* mk_log writes there,
LEMMA LogFacts ==
  ASSUME HostInv, NEW t \in Tids, mk_log(t)
  PROVE  /\ ThreadMoves(t) /\ OnlyAt(LOG_BASE .. HEAP_BASE - 1) /\ Running(t) /\ Op(t).op = "log"
         /\ LogStep(t)
<1>1. Running(t) /\ Op(t).op = "log" /\ host' = host /\ Step(t)
  BY DEF mk_log, Doing, host
<1>2. PICK v \in Nat : v = Op(t).v
  BY <1>1, Running_ DEF OpLegal
<1>3. mem \in [0 .. HEAP_END - 1 -> Nat] /\ did \in [Tids -> [code : Nat, log : Seq(Nat)]]
  BY Zenon DEF HostInv, HostType
<1>4. PICK r \in Nat : r = LogRing(t) /\ r \in LOG_BASE .. HEAP_BASE - 1
  <2>1. 0 \in 0 .. LOG_SLOTS /\ LogRing(t) + 0 = LogRing(t)
    BY Rings, Areas
  <2>. QED BY <2>1, RingRoom, Rings
<1>5. LOG_BASE .. HEAP_BASE - 1 \subseteq 0 .. HEAP_END - 1
  BY Areas
<1>6. PICK n \in Nat : n = mem[r]
  BY <1>3, <1>4, <1>5
<1>7. mem' = IF n < LOG_SLOTS THEN [mem EXCEPT ![r + 1 + n] = v, ![r] = n + 1] ELSE mem
  BY Zenon, <1>2, <1>4, <1>6 DEF mk_log
<1>8. did' = [did EXCEPT ![t].log = IF Len(@) < LOG_SLOTS THEN Append(@, v) ELSE @]
  BY Zenon, <1>2 DEF mk_log
<1>9. mem' \in [0 .. HEAP_END - 1 -> Nat] /\ OnlyAt(LOG_BASE .. HEAP_BASE - 1)
  <2>1. CASE n < LOG_SLOTS
    <3>1. n + 1 \in 0 .. LOG_SLOTS /\ r + (n + 1) = r + 1 + n
      BY <2>1, Areas
    <3>2. PICK x \in LOG_BASE .. HEAP_BASE - 1 : x = r + 1 + n
      BY <1>4, <3>1, RingRoom
    <3>3. mem' = [mem EXCEPT ![x] = v, ![r] = n + 1] /\ n + 1 \in Nat
      BY <1>7, <2>1, <3>2
    <3>. QED BY <1>3, <1>4, <1>5, <3>3 DEF OnlyAt
  <2>2. CASE ~(n < LOG_SLOTS)
    BY <1>3, <1>7, <2>2 DEF OnlyAt
  <2>. QED BY <2>1, <2>2
<1>10. did' \in [Tids -> [code : Nat, log : Seq(Nat)]] /\ \A u \in Tids : u # t => did'[u] = did[u]
  <2>1. PICK l \in Seq(Nat) : did' = [did EXCEPT ![t].log = l]
    <3>1. did[t].log \in Seq(Nat)
      BY <1>3
    <3>2. (IF Len(did[t].log) < LOG_SLOTS THEN Append(did[t].log, v) ELSE did[t].log) \in Seq(Nat)
      BY <3>1
    <3>. QED BY <1>8, <3>2
  <2>. QED BY <1>3, <2>1
<1>11. Moved(t) /\ Goes(t, thread[t].at + 1, t, 0)
  BY <1>1, Steps
<1>12. ThreadMoves(t)
  <2>1. thread'[t].at \in {thread[t].at, thread[t].at + 1, Len(Script(t)) + 2}
    BY <1>11 DEF Goes
  <2>. QED BY Zenon, <1>1, <1>9, <1>10, <1>11, <2>1, RunningMoves
<1>13. LogStep(t)
  BY Zenon, <1>2, <1>4, <1>6, <1>7, <1>8, <1>11 DEF LogStep
<1>. QED BY Zenon, <1>1, <1>9, <1>12, <1>13

\* The first assertion of a thread stays.
AssertStep(t) ==
  \E code \in Nat \ {0} :
    /\ Goes(t, thread[t].at + 1, t, 0)
    /\ mem' = [mem EXCEPT ![ASSERT_BASE + t] = IF @ = 0 THEN code ELSE @]
    /\ did' = [did EXCEPT ![t].code = IF @ = 0 THEN code ELSE @]

\* mk_assert writes there,
LEMMA AssertFacts ==
  ASSUME HostInv, NEW t \in Tids, mk_assert(t)
  PROVE  /\ ThreadMoves(t) /\ OnlyAt(LOG_BASE .. HEAP_BASE - 1) /\ Running(t) /\ Op(t).op = "assert"
         /\ AssertStep(t)
<1>1. Running(t) /\ Op(t).op = "assert" /\ host' = host /\ Step(t)
  BY DEF mk_assert, Doing, host
<1>2. PICK code \in Nat \ {0} : code = IF Op(t).code = 0 THEN 1 ELSE Op(t).code
  BY <1>1, Running_ DEF OpLegal
<1>3. mem \in [0 .. HEAP_END - 1 -> Nat] /\ did \in [Tids -> [code : Nat, log : Seq(Nat)]]
  BY Zenon DEF HostInv, HostType
<1>4. PICK x \in LOG_BASE .. HEAP_BASE - 1 : x = ASSERT_BASE + t
  BY Areas
<1>5. LOG_BASE .. HEAP_BASE - 1 \subseteq 0 .. HEAP_END - 1
  BY Areas
<1>6. /\ mem' = [mem EXCEPT ![ASSERT_BASE + t] = IF @ = 0 THEN code ELSE @]
      /\ did' = [did EXCEPT ![t].code = IF @ = 0 THEN code ELSE @]
  BY Zenon, <1>2 DEF mk_assert
<1>7. mem' \in [0 .. HEAP_END - 1 -> Nat] /\ OnlyAt(LOG_BASE .. HEAP_BASE - 1)
  <2>1. PICK v \in Nat : mem' = [mem EXCEPT ![x] = v]
    <3>1. (IF mem[x] = 0 THEN code ELSE mem[x]) \in Nat
      BY <1>3, <1>5
    <3>. QED BY <1>4, <1>6, <3>1
  <2>. QED BY <1>3, <1>5, <2>1 DEF OnlyAt
<1>8. did' \in [Tids -> [code : Nat, log : Seq(Nat)]] /\ \A u \in Tids : u # t => did'[u] = did[u]
  <2>1. PICK v \in Nat : did' = [did EXCEPT ![t].code = v]
    <3>1. (IF did[t].code = 0 THEN code ELSE did[t].code) \in Nat
      BY <1>3
    <3>. QED BY <1>6, <3>1
  <2>. QED BY <1>3, <2>1
<1>9. Moved(t) /\ Goes(t, thread[t].at + 1, t, 0)
  BY <1>1, Steps
<1>10. ThreadMoves(t)
  <2>1. thread'[t].at \in {thread[t].at, thread[t].at + 1, Len(Script(t)) + 2}
    BY <1>9 DEF Goes
  <2>. QED BY Zenon, <1>1, <1>7, <1>8, <1>9, <2>1, RunningMoves
<1>11. AssertStep(t)
  BY Zenon, <1>6, <1>9 DEF AssertStep
<1>. QED BY Zenon, <1>1, <1>7, <1>10, <1>11

\* A trap's report: the cause where an assertion would be, and two words in the log.
TrapStep(t) ==
  \E code \in Nat \ {0}, x, y \in Nat :
    /\ thread'[t].at = Len(Script(t)) + 2
    /\ IsStored(mem', [mem EXCEPT ![ASSERT_BASE + t] = code], LogRing(t), <<2, x, y>>)
    /\ did' = [did EXCEPT ![t] = [code |-> code, log |-> <<x, y>>]]

\* the trap handler writes there,
LEMMA TrapFacts ==
  ASSUME HostInv, NEW t \in Tids, _mk_trap(t)
  PROVE  /\ ThreadMoves(t) /\ OnlyAt(LOG_BASE .. HEAP_BASE - 1) /\ Running(t) /\ Op(t).op = "trap"
         /\ TrapStep(t)
<1>1. Running(t) /\ Op(t).op = "trap" /\ host' = host /\ thread' = [thread EXCEPT ![t].at = Len(Script(t)) + 2]
  BY DEF _mk_trap, Doing, host
<1>2. PICK c \in Nat, x \in Nat, y \in Nat : c = Op(t).cause /\ x = Op(t).mepc /\ y = Op(t).mtval
  BY <1>1, Running_ DEF OpLegal
<1>3. PICK code \in Nat \ {0} : code = TrapBit + c
  BY Areas
<1>4. mem \in [0 .. HEAP_END - 1 -> Nat] /\ did \in [Tids -> [code : Nat, log : Seq(Nat)]]
  BY Zenon DEF HostInv, HostType
<1>5. PICK z \in LOG_BASE .. HEAP_BASE - 1 : z = ASSERT_BASE + t
  BY Areas
<1>6. LOG_BASE .. HEAP_BASE - 1 \subseteq 0 .. HEAP_END - 1
  BY Areas
<1> DEFINE m == [mem EXCEPT ![ASSERT_BASE + t] = code]
<1>7. /\ mem' = Stored(m, LogRing(t), <<2, x, y>>)
      /\ did' = [did EXCEPT ![t] = [code |-> code, log |-> <<x, y>>]]
  BY Zenon, <1>2, <1>3 DEF _mk_trap
<1>8. m \in [0 .. HEAP_END - 1 -> Nat] /\ \A q \in 0 .. HEAP_END - 1 : q \notin LOG_BASE .. HEAP_BASE - 1 => m[q] = mem[q]
  BY <1>4, <1>5, <1>6
<1>9. <<2, x, y>> \in Seq(Nat) /\ Len(<<2, x, y>>) = 3 /\ <<x, y>> \in Seq(Nat)
  OBVIOUS
<1> HIDE DEF m
<1>10. IsStored(mem', m, LogRing(t), <<2, x, y>>)
  <2>1. LogRing(t) \in Nat
    BY Rings
  <2>2. IsStored(Stored(m, LogRing(t), <<2, x, y>>), m, LogRing(t), <<2, x, y>>)
    BY Zenon, <1>8, <1>9, <2>1, MemoryStored
  <2>. QED BY Zenon, <1>7, <2>2
<1>11. mem' \in [0 .. HEAP_END - 1 -> Nat] /\ OnlyAt(LOG_BASE .. HEAP_BASE - 1)
  <2>1. /\ mem' \in [0 .. HEAP_END - 1 -> Nat]
        /\ \A q \in 0 .. HEAP_END - 1 : q < LogRing(t) \/ LogRing(t) + 3 <= q => mem'[q] = m[q]
    BY Zenon, <1>9, <1>10 DEF IsStored
  <2>2. LogRing(t) \in Nat /\ LOG_BASE <= LogRing(t) /\ LogRing(t) + 3 <= HEAP_BASE
    BY Rings, Areas
  <2>3. ASSUME NEW q \in 0 .. HEAP_END - 1, q \notin LOG_BASE .. HEAP_BASE - 1
        PROVE  mem'[q] = mem[q]
    <3>1. PICK r \in Nat : r = LogRing(t) /\ LOG_BASE <= r /\ r + 3 <= HEAP_BASE
      BY <2>2
    <3>2. q < r \/ r + 3 <= q
      BY <2>3, <3>1, Areas
    <3>. QED BY <1>8, <2>1, <2>3, <3>1, <3>2
  <2>. QED BY <2>1, <2>3 DEF OnlyAt
<1>12. did' \in [Tids -> [code : Nat, log : Seq(Nat)]] /\ \A u \in Tids : u # t => did'[u] = did[u]
  <2>1. [code |-> code, log |-> <<x, y>>] \in [code : Nat, log : Seq(Nat)]
    BY <1>9
  <2>. QED BY <1>4, <1>7, <2>1
<1>13. Moved(t) /\ thread'[t].at = Len(Script(t)) + 2
  <2>1. Len(Script(t)) + 2 \in Nat \ {0}
    <3>1. Script(t) = Kernels[call.kernel][t] /\ call.kernel \in DOMAIN Kernels
      BY <1>1, Running_, OpsHeld
    <3>2. Len(Script(t)) \in Nat
      BY <3>1, ScriptFacts
    <3>. QED BY <3>2
  <2>2. Moved(t) /\ Goes(t, Len(Script(t)) + 2, thread[t].i, thread[t].w)
    BY Zenon, <1>1, <2>1, Parks
  <2>. QED BY <2>2 DEF Goes
<1>14. ThreadMoves(t)
  <2>1. thread'[t].at \in {thread[t].at, thread[t].at + 1, Len(Script(t)) + 2}
    BY <1>13
  <2>. QED BY Zenon, <1>1, <1>11, <1>12, <1>13, <2>1, RunningMoves
<1>15. TrapStep(t)
  BY Zenon, <1>7, <1>10, <1>13 DEF TrapStep, m
<1>. QED BY Zenon, <1>1, <1>11, <1>14, <1>15

\* A thread that returns sets its DONE word.
DoneStep(t) ==
  /\ thread[t].at = Len(Script(t)) + 1 /\ Goes(t, Len(Script(t)) + 2, t, 0)
  /\ mem' = [mem EXCEPT ![DONE_BASE + t] = 1]

\* and a thread that is done writes its DONE word.
LEMMA DoneFacts ==
  ASSUME HostInv, NEW t \in Tids, Done(t)
  PROVE  ThreadMoves(t) /\ did' = did /\ OnlyAt({DONE_BASE + t}) /\ DoneStep(t)
<1>1. /\ call.at = "run" /\ thread[t].at = Len(Script(t)) + 1 /\ host' = host /\ did' = did /\ Step(t)
      /\ mem' = [mem EXCEPT ![DONE_BASE + t] = 1]
  BY Zenon DEF Done, host
<1>2. InCall
  BY <1>1 DEF InCall
<1>3. PICK n \in Nat : n = Len(Script(t))
  <2>1. Script(t) = Kernels[call.kernel][t] /\ call.kernel \in DOMAIN Kernels
    BY <1>2, OpsHeld
  <2>. QED BY <2>1, ScriptFacts
<1>4. mem \in [0 .. HEAP_END - 1 -> Nat] /\ did \in [Tids -> [code : Nat, log : Seq(Nat)]]
  BY Zenon DEF HostInv, HostType
<1>5. Moved(t) /\ Goes(t, thread[t].at + 1, t, 0)
  BY <1>1, Steps
<1>6. thread[t].at + 1 = n + 2
  BY <1>1, <1>3
<1>7. mem' \in [0 .. HEAP_END - 1 -> Nat] /\ OnlyAt({DONE_BASE + t})
  <2>1. DONE_BASE + t \in 0 .. HEAP_END - 1
    BY Areas
  <2>. QED BY <1>1, <1>4, <2>1 DEF OnlyAt
<1>8. ThreadMoves(t)
  <2>1. thread[t].at <= n + 1 /\ thread'[t].at <= n + 2 /\ thread'[t].at >= thread[t].at
    BY <1>1, <1>3, <1>5, <1>6 DEF Goes
  <2>. QED BY Zenon, <1>1, <1>2, <1>3, <1>4, <1>5, <1>7, <2>1 DEF ThreadMoves, Moved
<1>9. DoneStep(t)
  BY Zenon, <1>1, <1>3, <1>5, <1>6 DEF DoneStep
<1>. QED BY Zenon, <1>1, <1>7, <1>8, <1>9

\* Where the device's steps write.
LEMMA DeviceMoves ==
  ASSUME HostInv, NEW t \in Tids, DeviceStep(t)
  PROVE  /\ ThreadMoves(t)
         /\ \/ OnlyAt(LOG_BASE .. HEAP_END - 1) /\ Running(t)
            \/ OnlyAt({DONE_BASE + t}) /\ DoneStep(t)
<1>1. /\ HEAP_BASE .. HEAP_END - 1 \subseteq LOG_BASE .. HEAP_END - 1
      /\ LOG_BASE .. HEAP_BASE - 1 \subseteq LOG_BASE .. HEAP_END - 1
  BY Areas
<1>2. \A X, Y : X \subseteq Y /\ OnlyAt(X) => OnlyAt(Y)
  BY DEF OnlyAt
<1>3. CASE Add(t)
  BY Zenon, <1>1, <1>2, <1>3, AddFacts
<1>4. CASE Arrive(t)
  BY Zenon, <1>1, <1>2, <1>4, ArriveFacts
<1>5. CASE PollFlag(t)
  <2>1. OnlyAt({}) => OnlyAt(LOG_BASE .. HEAP_END - 1)
    BY DEF OnlyAt
  <2>. QED BY Zenon, <1>5, <2>1, PollFlagFacts
<1>6. CASE Combine(t)
  BY Zenon, <1>1, <1>2, <1>6, CombineFacts
<1>7. CASE mk_log(t)
  BY Zenon, <1>1, <1>2, <1>7, LogFacts
<1>8. CASE mk_assert(t)
  BY Zenon, <1>1, <1>2, <1>8, AssertFacts
<1>9. CASE _mk_trap(t)
  BY Zenon, <1>1, <1>2, <1>9, TrapFacts
<1>10. CASE Done(t)
  BY Zenon, <1>10, DoneFacts
<1>. QED BY Zenon, <1>3, <1>4, <1>5, <1>6, <1>7, <1>8, <1>9, <1>10 DEF DeviceStep

\* Every step of the device leaves the image, the parameters and the other threads'
\* DONE words.
LEMMA DeviceLeaves ==
  ASSUME HostInv, NEW t \in Tids, DeviceStep(t)
  PROVE  /\ mem'[0] = mem[0] /\ \A k \in 1 .. Len(args) + 1 : k < ParamRoom => mem'[PARAMS_BASE + k] = mem[PARAMS_BASE + k]
         /\ \A u \in Tids : u # t => mem'[DONE_BASE + u] = mem[DONE_BASE + u]
         /\ \/ mem'[DONE_BASE + t] = mem[DONE_BASE + t] /\ Running(t)
            \/ mem'[DONE_BASE + t] = 1 /\ DoneStep(t)
         /\ \A u \in Tids : Script(u)' = Script(u)
<1>1. CASE OnlyAt(LOG_BASE .. HEAP_END - 1) /\ Running(t)
  <2>1. \A x \in 0 .. LOG_BASE - 1 : mem'[x] = mem[x]
    <3>1. \A x \in 0 .. LOG_BASE - 1 : x \in 0 .. HEAP_END - 1 /\ x \notin LOG_BASE .. HEAP_END - 1
      BY Areas
    <3>. QED BY Zenon, <1>1, <3>1 DEF OnlyAt
  <2>2. 0 \in 0 .. LOG_BASE - 1 /\ \A u \in Tids : DONE_BASE + u \in 0 .. LOG_BASE - 1
    BY Areas
  <2>3. \A k \in Nat : k < ParamRoom => PARAMS_BASE + k \in 0 .. LOG_BASE - 1
    BY Areas
  <2>4. \A k \in 1 .. Len(args) + 1 : k \in Nat
    OBVIOUS
  <2>5. \A u \in Tids : Script(u)' = Script(u)
    BY <2>1, <2>2 DEF Script
  <2>. QED BY <1>1, <2>1, <2>2, <2>3, <2>4, <2>5
<1>2. CASE OnlyAt({DONE_BASE + t}) /\ DoneStep(t)
  <2>1. \A x \in 0 .. HEAP_END - 1 : x # DONE_BASE + t => mem'[x] = mem[x]
    BY <1>2 DEF OnlyAt
  <2>2. /\ 0 \in 0 .. HEAP_END - 1 /\ 0 # DONE_BASE + t /\ DONE_BASE + t \in 0 .. HEAP_END - 1
        /\ \A u \in Tids : DONE_BASE + u \in 0 .. HEAP_END - 1 /\ (u # t => DONE_BASE + u # DONE_BASE + t)
    BY Areas
  <2>3. \A k \in Nat : k < ParamRoom => PARAMS_BASE + k \in 0 .. HEAP_END - 1 /\ PARAMS_BASE + k # DONE_BASE + t
    BY Areas
  <2>4. \A k \in 1 .. Len(args) + 1 : k \in Nat
    OBVIOUS
  <2>5. \A u \in Tids : Script(u)' = Script(u)
    BY <2>1, <2>2 DEF Script
  <2>6. mem'[DONE_BASE + t] = 1
    <3>1. mem \in [0 .. HEAP_END - 1 -> Nat]
      BY Zenon DEF HostInv, HostType
    <3>. QED BY <1>2, <2>2, <3>1 DEF DoneStep
  <2>. QED BY <1>2, <2>1, <2>2, <2>3, <2>4, <2>5, <2>6
<1>. QED BY <1>1, <1>2, DeviceMoves

\* A step of the device leaves the invariant.
LEMMA DeviceInv ==
  ASSUME HostInv, NEW t \in Tids, DeviceStep(t)
  PROVE  HostInv'
<1>1. /\ mem' \in [0 .. HEAP_END - 1 -> Nat] /\ InCall
      /\ thread' \in [Tids -> [at : Nat \ {0}, i : Nat, w : Nat]] /\ did' \in [Tids -> [code : Nat, log : Seq(Nat)]]
      /\ \A u \in Tids : u # t => thread'[u] = thread[u]
      /\ thread[t].at <= Len(Script(t)) + 1 /\ thread'[t].at <= Len(Script(t)) + 2
  BY DeviceMoves DEF ThreadMoves
<1>2. UNCHANGED <<transport, imem, heap, bufs, args, todo, call, outcome, launches>>
  BY DeviceMoves DEF ThreadMoves, host
<1>3. HostType'
  BY Zenon, <1>1, <1>2 DEF HostInv, HostType
<1>4. BuffersApart'
  BY Zenon, <1>2 DEF HostInv, BuffersApart
<1>5. outcome.kind = "none" /\ todo = <<>> /\ \E s \in Sessions : Called(s)
  BY <1>1 DEF HostInv, CallLegal
<1>6. PICK s \in Sessions : Called(s)
  BY <1>5
<1>7. Called(s)'
  <2>1. /\ Len(s) = Len(args) + 1 /\ s[Len(s)].kind = "launch" /\ call.kernel = s[Len(s)].kernel
        /\ mem[PARAMS_BASE + 1] = Padded(s[Len(s)].grid_n)
        /\ \A k \in DOMAIN args : mem[PARAMS_BASE + 1 + k] = args[k]
        /\ Handed(s)
    BY Zenon, <1>6 DEF Called
  <2>2. PICK n \in Nat : n = Len(args) /\ DOMAIN args = 1 .. n
    <3>1. args \in Seq(Nat)
      BY Zenon DEF HostInv, HostType
    <3>. QED BY <3>1
  <2>3. n + 1 < ParamRoom
    <3>1. Len(s) + 1 <= ParamRoom
      BY SessionFacts
    <3>. QED BY <2>1, <2>2, <3>1, Areas
  <2>4. \A k \in 1 .. n + 1 : mem'[PARAMS_BASE + k] = mem[PARAMS_BASE + k]
    <3>1. \A k \in 1 .. n + 1 : k < ParamRoom
      BY <2>3, Areas
    <3>. QED BY <2>2, <3>1, DeviceLeaves
  <2>5. mem'[PARAMS_BASE + 1] = mem[PARAMS_BASE + 1]
    BY <2>4
  <2>6. \A k \in DOMAIN args : mem'[PARAMS_BASE + 1 + k] = mem[PARAMS_BASE + 1 + k]
    <3>1. \A k \in 1 .. n : k + 1 \in 1 .. n + 1 /\ PARAMS_BASE + (k + 1) = PARAMS_BASE + 1 + k
      BY Areas
    <3>. QED BY <2>2, <2>4, <3>1
  <2>7. Handed(s)'
    BY Zenon, <1>2, <2>1 DEF Handed
  <2>. QED BY <1>2, <2>1, <2>5, <2>6, <2>7 DEF Called
<1>8. CallLegal' /\ InSession'
  BY <1>2, <1>5, <1>7 DEF CallLegal, InSession
<1>9. ThreadsPlaced'
  <2>1. /\ call.kernel \in DOMAIN Kernels /\ mem[0] = call.kernel
        /\ \A u \in Tids : /\ thread[u].at <= Len(Script(u)) + 2
                           /\ mem[DONE_BASE + u] \in {0, 1}
                           /\ mem[DONE_BASE + u] = 1 => thread[u].at = Len(Script(u)) + 2
    BY Zenon, <1>1 DEF HostInv, ThreadsPlaced
  <2>2. ASSUME NEW u \in Tids
        PROVE  /\ thread'[u].at <= Len(Script(u)) + 2
               /\ mem'[DONE_BASE + u] \in {0, 1}
               /\ mem'[DONE_BASE + u] = 1 => thread'[u].at = Len(Script(u)) + 2
    <3>1. CASE u # t
      <4>1. mem'[DONE_BASE + u] = mem[DONE_BASE + u] /\ thread'[u] = thread[u]
        BY <1>1, <3>1, DeviceLeaves
      <4>. QED BY Zenon, <2>1, <4>1
    <3>2. CASE u = t /\ mem'[DONE_BASE + t] = mem[DONE_BASE + t] /\ Running(t)
      <4>1. mem[DONE_BASE + t] # 1
        <5>1. PICK n \in Nat, p \in Nat : n = Len(Script(t)) /\ p = thread[t].at
          <6>1. Script(t) = Kernels[call.kernel][t]
            BY <2>1 DEF Script
          <6>. QED BY <2>1, <3>2, <6>1, ScriptFacts, Running_
        <5>2. p <= n
          BY <3>2, <5>1 DEF Running
        <5>3. p # n + 2
          BY <5>2
        <5>. QED BY Zenon, <2>1, <5>1, <5>3
      <4>. QED BY Zenon, <1>1, <2>1, <3>2, <4>1
    <3>3. CASE u = t /\ mem'[DONE_BASE + t] = 1 /\ DoneStep(t)
      <4>1. thread'[t].at = Len(Script(t)) + 2
        BY <3>3 DEF DoneStep, Goes
      <4>. QED BY Zenon, <1>1, <3>3, <4>1
    <3>. QED BY Zenon, <3>1, <3>2, <3>3, DeviceLeaves
  <2>3. mem'[0] = mem[0] /\ \A u \in Tids : Script(u)' = Script(u)
    BY DeviceLeaves
  <2>. QED BY Zenon, <1>2, <2>1, <2>2, <2>3 DEF ThreadsPlaced
<1>10. ImageLaunched'
  BY Zenon, <1>2, DeviceLeaves DEF HostInv, ImageLaunched
<1>. QED BY <1>3, <1>4, <1>8, <1>9, <1>10 DEF HostInv

\* The invariant is inductive.
LEMMA HostInvStep ==
  ASSUME HostInv, [HostNext]_hostVars
  PROVE  HostInv'
<1>1. CASE UNCHANGED hostVars
  <2>1. UNCHANGED <<transport, mem, imem, heap, bufs, args, todo, call, thread, did, outcome, launches>>
    BY <1>1 DEF hostVars
  <2>2. \A s : (Place(s)' <=> Place(s)) /\ (Called(s)' <=> Called(s))
    BY <2>1 DEF Place, Called, Handed
  <2>3. HostType' /\ BuffersApart' /\ ImageLaunched'
    BY Zenon, <2>1 DEF HostInv, HostType, BuffersApart, ImageLaunched
  <2>4. InSession' /\ CallLegal' 
    BY Zenon, <2>1, <2>2 DEF HostInv, InSession, CallLegal, InCall
  <2>5. ThreadsPlaced'
    BY Zenon, <2>1 DEF HostInv, ThreadsPlaced, Script, InCall, Reported
  <2>. QED BY <2>3, <2>4, <2>5 DEF HostInv
<1>2. CASE ToDevice
  BY <1>2, ToDeviceAdds, AddsInv DEF ToDevice, NextOf
<1>3. CASE Out
  BY <1>3, OutAdds, AddsInv DEF Out, NextOf
<1>4. CASE IntArg \/ Exhausted \/ Launch \/ RUN \/ Poll \/ Begin
  BY <1>4, IntArgInv, ExhaustedInv, LaunchInv, RunInv, PollInv, BeginInv
<1>5. CASE \E t \in Tids : DeviceStep(t)
  BY <1>5, DeviceInv
<1>. QED BY <1>1, <1>2, <1>3, <1>4, <1>5 DEF HostNext, HostStep

\* mkcuda.py and mk.h together: whatever the program allocates, launches and frees,
\* its buffers stay apart in the heap; while a launch runs, the memory holds the image
\* launched and the parameters of its session, whatever the threads write; no thread
\* leaves its script, and a DONE word says that its thread has ended.
THEOREM HostAlways == HostSpec => []HostInv
<1>1. HostInit => HostInv
  BY InitHost
<1>2. HostInv /\ [HostNext]_hostVars => HostInv'
  BY HostInvStep
<1>. QED BY <1>1, <1>2, PTL DEF HostSpec

-----------------------------------------------------------------------------
(* The reports *)

\* The sum of the DONE words is the number of threads when each is done.
LEMMA AllDone ==
  ASSUME HostInv, InCall, done_sum = NTHREADS
  PROVE  \A t \in Tids : mem[DONE_BASE + t] = 1
<1> DEFINE n == NTHREADS
           done(k) == mem[DONE_BASE + k - 1]
           step == [x \in Nat \X Nat |-> IF x[1] + 1 \in 1 .. n THEN x[2] + done(x[1] + 1) ELSE 0]
           body(g) == [k \in 0 .. n |-> IF k = 0 THEN 0 ELSE g[k - 1] + done(k)]
<1>1. n \in Nat /\ \A k \in 1 .. n : done(k) \in {0, 1}
  <2>1. \A t \in Tids : mem[DONE_BASE + t] \in {0, 1}
    BY Zenon DEF HostInv, ThreadsPlaced
  <2>2. \A k \in 1 .. n : k - 1 \in Tids /\ DONE_BASE + (k - 1) = DONE_BASE + k - 1
    BY Areas
  <2>. QED BY <2>1, <2>2, Areas
<1> HIDE DEF n, done
<1>2. step \in [Nat \X Nat -> Nat] /\ 0 \in Nat
  <2>1. \A k \in 1 .. n : done(k) \in Nat
    BY <1>1
  <2>. QED BY <2>1
<1>3. PICK f : Counts(f, Nat, step, 0, n)
  <2> HIDE DEF step
  <2>. QED BY <1>1, <1>2, CountedIteration
<1>4. f \in [0 .. n -> Nat] /\ f[0] = 0 /\ \A k \in 0 .. n - 1 : f[k + 1] = f[k] + done(k + 1)
  <2>1. f \in [0 .. n -> Nat] /\ f[0] = 0 /\ \A k \in 0 .. n - 1 : f[k + 1] = step[<<k, f[k]>>]
    BY <1>3 DEF Counts
  <2>2. \A k \in 0 .. n - 1 : <<k, f[k]>> \in Nat \X Nat /\ k + 1 \in 1 .. n
    BY <1>1, <2>1
  <2>. QED BY <2>1, <2>2
<1>5. f = body(f)
  <2>1. ASSUME NEW k \in 0 .. n
        PROVE  f[k] = IF k = 0 THEN 0 ELSE f[k - 1] + done(k)
    <3>1. CASE k = 0
      BY <1>4, <3>1
    <3>2. CASE k # 0
      <4>1. k - 1 \in 0 .. n - 1 /\ (k - 1) + 1 = k
        BY <1>1, <3>2
      <4>. QED BY <1>4, <3>2, <4>1
    <3>. QED BY <3>1, <3>2
  <2>2. f = [k \in 0 .. n |-> f[k]]
    BY <1>4
  <2>. QED BY <2>1, <2>2
<1> DEFINE sum == CHOOSE g : g = body(g)
<1>6. sum = body(sum)
  BY Zenon, <1>5
<1>7. sum[n] = n
  <2>1. done_sum = sum[n]
    BY Zenon DEF done_sum, n, done
  <2>. QED BY <2>1 DEF n
<1>8. ASSUME NEW k \in 0 .. n
      PROVE  sum[k] = IF k = 0 THEN 0 ELSE sum[k - 1] + done(k)
  <2> HIDE DEF sum
  <2>1. body(sum)[k] = IF k = 0 THEN 0 ELSE sum[k - 1] + done(k)
    OBVIOUS
  <2>. QED BY <1>6, <2>1
<1> HIDE DEF sum
<1> DEFINE P == {k \in 0 .. n : sum[k] \in 0 .. k /\ (sum[k] = k => \A j \in 1 .. k : done(j) = 1)}
<1>9. 0 \in P
  BY <1>1, <1>8
<1>10. ASSUME NEW k \in 0 .. n - 1, k \in P
       PROVE  k + 1 \in P
  <2>1. k + 1 \in 0 .. n /\ k + 1 # 0 /\ (k + 1) - 1 = k /\ k + 1 \in 1 .. n
    BY <1>1
  <2>2. sum[k + 1] = sum[k] + done(k + 1) /\ done(k + 1) \in {0, 1}
    BY <1>1, <1>8, <2>1
  <2>3. sum[k] \in 0 .. k /\ (sum[k] = k => \A j \in 1 .. k : done(j) = 1)
    BY <1>10
  <2>4. sum[k + 1] \in 0 .. k + 1 /\ (sum[k + 1] = k + 1 => sum[k] = k /\ done(k + 1) = 1)
    BY <2>2, <2>3
  <2>5. \A j \in 1 .. k + 1 : j \in 1 .. k \/ j = k + 1
    OBVIOUS
  <2>. QED BY <2>1, <2>3, <2>4, <2>5
<1>11. n \in P
  <2>1. \A k \in 0 .. n : k \in P
    <3> HIDE DEF P
    <3>. QED BY <1>1, <1>9, <1>10, Upto
  <2>. QED BY <1>1, <2>1
<1>12. \A j \in 1 .. n : done(j) = 1
  BY <1>7, <1>11
<1>13. \A t \in Tids : t + 1 \in 1 .. n /\ DONE_BASE + (t + 1) - 1 = DONE_BASE + t
  BY Areas DEF n
<1>. QED BY <1>12, <1>13 DEF done

\* What does not touch the reports keeps them.
LEMMA ReportsKept ==
  ASSUME HostInv, ReportsMatch, did' = did, \A x \in LOG_BASE .. HEAP_BASE - 1 : mem'[x] = mem[x],
         InCall' \/ Reported' => InCall \/ Reported,
         Reported' => Reported /\ outcome' = outcome /\ \A t \in Tids : mem'[DONE_BASE + t] = mem[DONE_BASE + t]
  PROVE  ReportsMatch'
<1>1. \A t \in Tids : LogRing(t) + LOG_SLOTS >= ASSERT_BASE => did'[t].log = <<>>
  BY Zenon DEF ReportsMatch
<1>2. did \in [Tids -> [code : Nat, log : Seq(Nat)]]
  BY Zenon DEF HostInv, HostType
<1>3. \A t \in Tids : mem'[ASSERT_BASE + t] = mem[ASSERT_BASE + t]
  <2>1. \A t \in Tids : ASSERT_BASE + t \in LOG_BASE .. HEAP_BASE - 1
    BY Areas
  <2>. QED BY <2>1
<1>4. ASSUME NEW t \in Tids, InCall' \/ Reported'
      PROVE  /\ mem'[ASSERT_BASE + t] = did'[t].code
             /\ mem'[LogRing(t)] = Len(did'[t].log) /\ Len(did'[t].log) <= LOG_SLOTS
             /\ \A k \in DOMAIN did'[t].log : mem'[LogRing(t) + k] = did'[t].log[k]
  <2>1. /\ mem[ASSERT_BASE + t] = did[t].code
        /\ mem[LogRing(t)] = Len(did[t].log) /\ Len(did[t].log) <= LOG_SLOTS
        /\ \A k \in DOMAIN did[t].log : mem[LogRing(t) + k] = did[t].log[k]
    BY Zenon, <1>4 DEF ReportsMatch
  <2>2. PICK l \in Seq(Nat) : l = did[t].log /\ DOMAIN l = 1 .. Len(l) /\ Len(l) \in Nat
    BY <1>2
  <2>3. \A k \in 0 .. LOG_SLOTS : mem'[LogRing(t) + k] = mem[LogRing(t) + k]
    BY RingRoom
  <2>4. mem'[LogRing(t)] = mem[LogRing(t)]
    <3>1. 0 \in 0 .. LOG_SLOTS /\ LogRing(t) + 0 = LogRing(t)
      BY Areas, Rings
    <3>. QED BY <2>3, <3>1
  <2>5. \A k \in DOMAIN l : k \in 0 .. LOG_SLOTS
    BY <2>1, <2>2, Areas
  <2>. QED BY Zenon, <1>3, <2>1, <2>2, <2>3, <2>4, <2>5
<1>5. Reported' =>
        /\ outcome'.fails = _assert_failures'
        /\ outcome'.kind = "ok" => \A t \in Tids : mem'[DONE_BASE + t] = 1
  <2>1. _assert_failures' = _assert_failures
    BY <1>3 DEF _assert_failures
  <2>. QED BY Zenon, <2>1 DEF ReportsMatch
<1>. QED BY Zenon, <1>1, <1>4, <1>5 DEF ReportsMatch

\* A launch begins with empty reports.
LEMMA LaunchReports ==
  ASSUME HostInv, Launch
  PROVE  ReportsMatch'
<1>1. did' = Silent /\ ~Reported'
  <2>1. outcome'.kind \in {"none", "not implemented"}
    BY Zenon DEF Launch
  <2>. QED BY Zenon, <2>1 DEF Launch, Reported
<1>2. \A t \in Tids : did'[t].log = <<>> /\ did'[t].code = 0
  BY <1>1 DEF Silent
<1>3. \A x \in DONE_BASE .. HEAP_BASE - 1 : mem'[x] = 0
  BY LaunchFacts
<1>4. ASSUME NEW t \in Tids
      PROVE  mem'[ASSERT_BASE + t] = 0 /\ mem'[LogRing(t)] = 0
  <2>1. ASSERT_BASE + t \in DONE_BASE .. HEAP_BASE - 1
    BY Areas
  <2>2. LogRing(t) \in DONE_BASE .. HEAP_BASE - 1
    BY Areas, Rings
  <2>. QED BY <1>3, <2>1, <2>2
<1>5. Len(<<>>) = 0 /\ DOMAIN <<>> = {} /\ Len(<<>>) <= LOG_SLOTS
  BY Areas
<1>. QED BY Zenon, <1>1, <1>2, <1>4, <1>5 DEF ReportsMatch

\* What the host reports is what the memory reports.
LEMMA PollReports ==
  ASSUME HostInv, ReportsMatch, Poll
  PROVE  ReportsMatch'
<1>1. /\ InCall /\ UNCHANGED <<transport, mem, imem, heap, args, todo, thread, did, launches>>
      /\ \/ /\ done_sum = NTHREADS
            /\ outcome'.kind = IF _assert_failures # {} THEN "KernelAssert" ELSE "ok"
            /\ outcome'.fails = _assert_failures
         \/ call'.at = "loop" /\ UNCHANGED <<bufs, outcome>>
         \/ /\ outcome'.kind = IF _assert_failures # {} THEN "KernelAssert" ELSE "TimeoutError"
            /\ outcome'.fails = _assert_failures
  BY Zenon, PollCases
<1>2. outcome.kind = "none"
  BY Zenon, <1>1 DEF HostInv, CallLegal
<1>3. CASE UNCHANGED <<bufs, outcome>>
  <2>1. ~Reported'
    BY <1>2, <1>3 DEF Reported
  <2>. QED BY Zenon, <1>1, <2>1, ReportsKept
<1>4. ASSUME outcome'.fails = _assert_failures, outcome'.kind = "ok" => done_sum = NTHREADS
      PROVE  ReportsMatch'
  <2>1. _assert_failures' = _assert_failures
    BY <1>1 DEF _assert_failures
  <2>2. outcome'.kind = "ok" => \A t \in Tids : mem[DONE_BASE + t] = 1
    BY <1>1, <1>4, AllDone
  <2>. QED BY Zenon, <1>1, <1>4, <2>1, <2>2 DEF ReportsMatch
<1>. QED BY <1>1, <1>3, <1>4

\* The report of one thread.
Report(t) ==
  /\ mem[ASSERT_BASE + t] = did[t].code
  /\ mem[LogRing(t)] = Len(did[t].log) /\ Len(did[t].log) <= LOG_SLOTS
  /\ \A k \in DOMAIN did[t].log : mem[LogRing(t) + k] = did[t].log[k]

\* A thread that reports has its ring and its ASSERT word for itself.
LEMMA ReporterApart ==
  ASSUME KernelsApart, HostInv, NEW t \in Tids, Running(t)
  PROVE  /\ Op(t).op \in {"log", "trap"} => LogRing(t) + LOG_SLOTS < ASSERT_BASE
         /\ Op(t).op \in {"assert", "trap"} => \A u \in Tids : LogRing(u) # ASSERT_BASE + t
<1>1. /\ InCall /\ thread[t].at \in DOMAIN Script(t) /\ Op(t) = Script(t)[thread[t].at]
  BY Running_
<1>2. Script(t) = Kernels[call.kernel][t] /\ call.kernel \in DOMAIN Kernels
  BY <1>1, OpsHeld
<1>3. RingsApart(Kernels[call.kernel])
  BY <1>2 DEF KernelsApart
<1>4. /\ LogRing(t) + LOG_SLOTS >= ASSERT_BASE => Op(t).op \notin {"log", "trap"}
      /\ \A u \in Tids : LogRing(u) = ASSERT_BASE + t => Op(t).op \notin {"assert", "trap"}
  BY Zenon, <1>1, <1>2, <1>3 DEF RingsApart
<1>5. LogRing(t) \in Nat /\ LOG_SLOTS \in Nat /\ ASSERT_BASE \in Nat
  BY Rings, Areas
<1>6. ~(LogRing(t) + LOG_SLOTS >= ASSERT_BASE) => LogRing(t) + LOG_SLOTS < ASSERT_BASE
  BY <1>5
<1>. QED BY Zenon, <1>4, <1>6

\* Two rings share no word.
LEMMA RingsDisjoint ==
  ASSUME NEW t \in Tids, NEW u \in Tids, u # t, NEW k \in 0 .. LOG_SLOTS
  PROVE  LogRing(u) + k \notin LogRing(t) .. LogRing(t) + LOG_SLOTS
<1>1. PICK r \in Nat, q \in Nat : r = LogRing(t) /\ q = LogRing(u)
  BY Rings
<1>2. t < u \/ u < t
  BY Areas
<1>3. r + LOG_SLOTS < q \/ q + LOG_SLOTS < r
  BY <1>1, <1>2, Rings
<1>. QED BY <1>1, <1>3, Areas

\* A report that no step touches stays.
LEMMA ReportKept ==
  ASSUME HostInv, NEW u \in Tids, Report(u), did'[u] = did[u],
         mem'[ASSERT_BASE + u] = mem[ASSERT_BASE + u], mem'[LogRing(u)] = mem[LogRing(u)],
         did[u].log # <<>> => \A k \in 1 .. LOG_SLOTS : mem'[LogRing(u) + k] = mem[LogRing(u) + k]
  PROVE  Report(u)'
<1>1. did \in [Tids -> [code : Nat, log : Seq(Nat)]]
  BY Zenon DEF HostInv, HostType
<1>2. PICK l \in Seq(Nat) : l = did[u].log /\ DOMAIN l = 1 .. Len(l) /\ Len(l) \in Nat
  BY <1>1
<1>3. Len(l) <= LOG_SLOTS /\ \A k \in DOMAIN l : mem[LogRing(u) + k] = l[k]
  BY <1>2 DEF Report
<1>4. ASSUME NEW k \in DOMAIN l
      PROVE  mem'[LogRing(u) + k] = l[k]
  <2>0. PICK n \in Nat : n = Len(l) /\ k \in 1 .. n
    BY Zenon, <1>2
  <2>1. k \in 1 .. LOG_SLOTS
    <3>1. n <= LOG_SLOTS /\ LOG_SLOTS \in Nat
      BY Zenon, <1>3, <2>0, Areas
    <3>. QED BY <2>0, <3>1
  <2>2. l # <<>>
    BY <2>0
  <2>. QED BY <1>2, <1>3, <2>1, <2>2
<1>. QED BY Zenon, <1>2, <1>3, <1>4 DEF Report

\* A log entry goes into its own ring.
LEMMA LogReports ==
  ASSUME KernelsApart, HostInv, ReportsMatch, NEW t \in Tids, mk_log(t)
  PROVE  ReportsMatch'
<1>1. /\ ThreadMoves(t) /\ Running(t) /\ Op(t).op = "log" /\ LogStep(t)
  BY LogFacts
<1>2. InCall /\ outcome.kind = "none" /\ outcome' = outcome
  BY <1>1 DEF ThreadMoves, HostInv, CallLegal, host
<1>3. \A u \in Tids : Report(u)
  BY Zenon, <1>2 DEF ReportsMatch, Report
<1>4. PICK r \in Nat, b \in Nat : r = LogRing(t) /\ b = ASSERT_BASE /\ r + LOG_SLOTS < b /\ b \in Nat
  BY <1>1, ReporterApart, Rings, Areas
<1>5. did \in [Tids -> [code : Nat, log : Seq(Nat)]] /\ mem \in [0 .. HEAP_END - 1 -> Nat]
  BY Zenon DEF HostInv, HostType
<1>6. PICK l \in Seq(Nat), n \in Nat : l = did[t].log /\ n = Len(l) /\ DOMAIN l = 1 .. n /\ mem[r] = n /\ n <= LOG_SLOTS
  <2>1. did[t].log \in Seq(Nat)
    BY <1>5
  <2>. QED BY <1>3, <1>4, <2>1 DEF Report
<1>7. PICK v \in Nat :
        /\ mem' = IF n < LOG_SLOTS THEN [mem EXCEPT ![r + 1 + n] = v, ![r] = n + 1] ELSE mem
        /\ did' = [did EXCEPT ![t].log = IF n < LOG_SLOTS THEN Append(l, v) ELSE l]
  <2>1. /\ Op(t).v \in Nat
        /\ mem' = IF n < LOG_SLOTS THEN [mem EXCEPT ![r + 1 + n] = Op(t).v, ![r] = n + 1] ELSE mem
        /\ did' = [did EXCEPT ![t].log = IF Len(@) < LOG_SLOTS THEN Append(@, Op(t).v) ELSE @]
    BY Zenon, <1>1, <1>4, <1>6 DEF LogStep
  <2>2. did' = [did EXCEPT ![t].log = IF n < LOG_SLOTS THEN Append(l, Op(t).v) ELSE l]
    BY <1>6, <2>1
  <2>. QED BY <2>1, <2>2
<1>8. r + LOG_SLOTS < HEAP_BASE /\ LOG_SLOTS \in Nat /\ HEAP_BASE \in Nat /\ HEAP_BASE <= HEAP_END /\ HEAP_END \in Nat
  BY <1>4, Rings, Areas
<1>9. \A x \in 0 .. HEAP_END - 1 : x \notin r .. r + LOG_SLOTS => mem'[x] = mem[x]
  <2>1. CASE n < LOG_SLOTS
    <3>1. r + 1 + n \in r .. r + LOG_SLOTS /\ r \in r .. r + LOG_SLOTS
      BY <1>8, <2>1
    <3>. QED BY <1>5, <1>7, <2>1, <3>1
  <2>. QED BY <1>7, <2>1
<1>10. \A u \in Tids : ASSERT_BASE + u \in 0 .. HEAP_END - 1 /\ ASSERT_BASE + u \notin r .. r + LOG_SLOTS
  BY <1>4, <1>8, Areas
<1>11. ASSUME NEW u \in Tids, u # t
       PROVE  Report(u)'
  <2>1. did'[u] = did[u]
    BY <1>1, <1>11 DEF ThreadMoves
  <2>2. \A k \in 0 .. LOG_SLOTS : mem'[LogRing(u) + k] = mem[LogRing(u) + k]
    <3> TAKE k \in 0 .. LOG_SLOTS
    <3>1. LogRing(u) + k \notin r .. r + LOG_SLOTS
      BY <1>4, <1>11, RingsDisjoint
    <3>2. LogRing(u) + k \in 0 .. HEAP_END - 1
      <4>1. LogRing(u) + k \in LOG_BASE .. HEAP_BASE - 1
        BY RingRoom
      <4>. QED BY <4>1, Areas
    <3>. QED BY <1>9, <3>1, <3>2
  <2>3. mem'[LogRing(u)] = mem[LogRing(u)]
    <3>1. 0 \in 0 .. LOG_SLOTS /\ LogRing(u) + 0 = LogRing(u)
      BY <1>8, Rings
    <3>. QED BY <2>2, <3>1
  <2>4. \A k \in 1 .. LOG_SLOTS : k \in 0 .. LOG_SLOTS
    OBVIOUS
  <2>5. mem'[ASSERT_BASE + u] = mem[ASSERT_BASE + u]
    BY <1>9, <1>10
  <2>. QED BY Zenon, <1>3, <2>1, <2>2, <2>3, <2>4, <2>5, ReportKept
<1>12. Report(t)'
  <2>1. mem'[ASSERT_BASE + t] = mem[ASSERT_BASE + t]
    BY <1>9, <1>10
  <2>2. did'[t].code = did[t].code
    BY <1>5, <1>7
  <2>3. \A k \in 1 .. n : mem[r + k] = l[k]
    BY <1>3, <1>4, <1>6 DEF Report
  <2>4. CASE n < LOG_SLOTS
    <3>1. did'[t].log = Append(l, v)
      BY <1>5, <1>7, <2>4
    <3>2. PICK l2 \in Seq(Nat) : /\ l2 = did'[t].log /\ Len(l2) = n + 1 /\ DOMAIN l2 = 1 .. n + 1
                                 /\ l2[n + 1] = v /\ \A k \in 1 .. n : l2[k] = l[k]
      <4>1. l \in Seq(Nat) /\ n = Len(l)
        BY <1>6
      <4>2. /\ Append(l, v) \in Seq(Nat) /\ Len(Append(l, v)) = Len(l) + 1
            /\ Append(l, v)[Len(l) + 1] = v /\ \A k \in 1 .. Len(l) : Append(l, v)[k] = l[k]
        BY ONLY <4>1, v \in Nat
      <4>3. DOMAIN Append(l, v) = 1 .. Len(Append(l, v))
        BY <4>2
      <4>. QED BY Zenon, <3>1, <4>1, <4>2, <4>3
    <3>3. mem' = [mem EXCEPT ![r + 1 + n] = v, ![r] = n + 1]
      BY <1>7, <2>4
    <3>4. r \in 0 .. HEAP_END - 1 /\ r + 1 + n \in 0 .. HEAP_END - 1 /\ r + (n + 1) = r + 1 + n /\ r + 1 + n # r
      BY <1>8, <2>4
    <3>5. mem'[r] = n + 1 /\ mem'[r + (n + 1)] = v
      BY <1>5, <3>3, <3>4
    <3>6. ASSUME NEW k \in 1 .. n
          PROVE  mem'[r + k] = l[k]
      <4>1. r + k \in 0 .. HEAP_END - 1 /\ r + k # r /\ r + k # r + 1 + n
        BY <1>8, <2>4
      <4>. QED BY <1>5, <2>3, <3>3, <4>1
    <3>7. \A k \in 1 .. n + 1 : k \in 1 .. n \/ k = n + 1
      OBVIOUS
    <3>8. \A k \in DOMAIN l2 : mem'[r + k] = l2[k]
      BY <3>2, <3>5, <3>6, <3>7
    <3>9. n + 1 <= LOG_SLOTS
      BY <1>8, <2>4
    <3>. QED BY Zenon, <1>3, <1>4, <2>1, <2>2, <3>2, <3>5, <3>8, <3>9 DEF Report
  <2>5. CASE ~(n < LOG_SLOTS)
    <3>1. mem' = mem /\ did'[t].log = l
      BY <1>5, <1>7, <2>5
    <3>. QED BY ZenonT(60), <1>3, <1>6, <2>2, <3>1 DEF Report
  <2>. QED BY <2>4, <2>5
<1>13. \A u \in Tids : LogRing(u) + LOG_SLOTS >= ASSERT_BASE => did'[u].log = <<>>
  <2>1. \A u \in Tids : LogRing(u) + LOG_SLOTS >= ASSERT_BASE => did[u].log = <<>>
    BY Zenon DEF ReportsMatch
  <2>2. ~(LogRing(t) + LOG_SLOTS >= ASSERT_BASE)
    BY <1>4, <1>8
  <2>. QED BY Zenon, <1>1, <2>1, <2>2 DEF ThreadMoves
<1>14. ~Reported'
  BY <1>2 DEF Reported
<1>. QED BY Zenon, <1>11, <1>12, <1>13, <1>14 DEF ReportsMatch, Report

\* An ASSERT word lies in no ring that holds anything.
LEMMA AssertWord ==
  ASSUME KernelsApart, HostInv, ReportsMatch, NEW t \in Tids, Running(t), Op(t).op \in {"assert", "trap"},
         NEW u \in Tids
  PROVE  /\ ASSERT_BASE + t # LogRing(u)
         /\ did[u].log # <<>> => \A k \in 1 .. LOG_SLOTS : ASSERT_BASE + t # LogRing(u) + k
<1>1. ASSERT_BASE + t # LogRing(u)
  BY ReporterApart
<1>2. ASSUME did[u].log # <<>>, NEW k \in 1 .. LOG_SLOTS
      PROVE  ASSERT_BASE + t # LogRing(u) + k
  <2>1. ~(LogRing(u) + LOG_SLOTS >= ASSERT_BASE)
    BY Zenon, <1>2 DEF ReportsMatch
  <2>2. LogRing(u) \in Nat /\ ASSERT_BASE \in Nat /\ LOG_SLOTS \in Nat /\ t \in Nat
    BY Rings, Areas
  <2>. QED BY <2>1, <2>2
<1>. QED BY <1>1, <1>2

\* A code goes into its own ASSERT word, once.
LEMMA AssertReports ==
  ASSUME KernelsApart, HostInv, ReportsMatch, NEW t \in Tids, mk_assert(t)
  PROVE  ReportsMatch'
<1>1. /\ ThreadMoves(t) /\ Running(t) /\ Op(t).op = "assert" /\ AssertStep(t)
  BY AssertFacts
<1>2. InCall /\ outcome.kind = "none" /\ outcome' = outcome
  BY <1>1 DEF ThreadMoves, HostInv, CallLegal, host
<1>3. \A u \in Tids : Report(u)
  BY Zenon, <1>2 DEF ReportsMatch, Report
<1>4. PICK code \in Nat \ {0} :
        /\ mem' = [mem EXCEPT ![ASSERT_BASE + t] = IF @ = 0 THEN code ELSE @]
        /\ did' = [did EXCEPT ![t].code = IF @ = 0 THEN code ELSE @]
  BY <1>1 DEF AssertStep
<1>5. did \in [Tids -> [code : Nat, log : Seq(Nat)]] /\ mem \in [0 .. HEAP_END - 1 -> Nat]
  BY Zenon DEF HostInv, HostType
<1>6. PICK x \in 0 .. HEAP_END - 1 : x = ASSERT_BASE + t
  BY Areas
<1>7. (\A y \in 0 .. HEAP_END - 1 : y # x => mem'[y] = mem[y]) /\ mem'[x] = IF mem[x] = 0 THEN code ELSE mem[x]
  BY <1>4, <1>5, <1>6
<1>8. /\ did'[t].log = did[t].log /\ did'[t].code = IF did[t].code = 0 THEN code ELSE did[t].code
      /\ \A u \in Tids : u # t => did'[u] = did[u]
  BY <1>4, <1>5
<1>9. \A u \in Tids, k \in 0 .. LOG_SLOTS : LogRing(u) + k \in 0 .. HEAP_END - 1
  <2> TAKE u \in Tids, k \in 0 .. LOG_SLOTS
  <2>1. LogRing(u) + k \in LOG_BASE .. HEAP_BASE - 1
    BY RingRoom
  <2>. QED BY <2>1, Areas
<1>10. ASSUME NEW u \in Tids
       PROVE  /\ mem'[LogRing(u)] = mem[LogRing(u)]
              /\ did[u].log # <<>> => \A k \in 1 .. LOG_SLOTS : mem'[LogRing(u) + k] = mem[LogRing(u) + k]
  <2>1. /\ x # LogRing(u)
        /\ did[u].log # <<>> => \A k \in 1 .. LOG_SLOTS : x # LogRing(u) + k
    BY <1>1, <1>6, AssertWord
  <2>2. LogRing(u) \in 0 .. HEAP_END - 1
    <3>1. 0 \in 0 .. LOG_SLOTS /\ LogRing(u) + 0 = LogRing(u)
      BY Areas, Rings
    <3>. QED BY <1>9, <3>1
  <2>3. \A k \in 1 .. LOG_SLOTS : k \in 0 .. LOG_SLOTS
    BY Areas
  <2>. QED BY Zenon, <1>7, <1>9, <2>1, <2>2, <2>3
<1>11. ASSUME NEW u \in Tids, u # t
       PROVE  Report(u)'
  <2>1. mem'[ASSERT_BASE + u] = mem[ASSERT_BASE + u]
    <3>1. ASSERT_BASE + u \in 0 .. HEAP_END - 1 /\ ASSERT_BASE + u # x
      BY <1>6, <1>11, Areas
    <3>. QED BY <1>7, <3>1
  <2>. QED BY Zenon, <1>3, <1>8, <1>10, <1>11, <2>1, ReportKept
<1>12. Report(t)'
  <2>1. mem'[ASSERT_BASE + t] = did'[t].code
    BY <1>3, <1>6, <1>7, <1>8 DEF Report
  <2>2. PICK l \in Seq(Nat) : l = did[t].log /\ l = did'[t].log /\ DOMAIN l = 1 .. Len(l) /\ Len(l) \in Nat
    BY <1>5, <1>8
  <2>3. Len(l) <= LOG_SLOTS /\ mem'[LogRing(t)] = Len(l)
    BY <1>3, <1>10, <2>2 DEF Report
  <2>4. ASSUME NEW k \in DOMAIN l
        PROVE  mem'[LogRing(t) + k] = l[k]
    <3>1. l # <<>> /\ k \in 1 .. LOG_SLOTS
      BY <2>2, <2>3, Areas
    <3>2. mem[LogRing(t) + k] = l[k]
      BY <1>3, <2>2 DEF Report
    <3>. QED BY <1>10, <2>2, <3>1, <3>2
  <2>. QED BY Zenon, <2>1, <2>2, <2>3, <2>4 DEF Report
<1>13. \A u \in Tids : LogRing(u) + LOG_SLOTS >= ASSERT_BASE => did'[u].log = <<>>
  BY Zenon, <1>8 DEF ReportsMatch
<1>14. ~Reported'
  BY <1>2 DEF Reported
<1>. QED BY Zenon, <1>11, <1>12, <1>13, <1>14 DEF ReportsMatch, Report

\* A trap does both.
LEMMA TrapReports ==
  ASSUME KernelsApart, HostInv, ReportsMatch, NEW t \in Tids, _mk_trap(t)
  PROVE  ReportsMatch'
<1>1. /\ ThreadMoves(t) /\ Running(t) /\ Op(t).op = "trap" /\ TrapStep(t)
  BY TrapFacts
<1>2. InCall /\ outcome.kind = "none" /\ outcome' = outcome
  BY <1>1 DEF ThreadMoves, HostInv, CallLegal, host
<1>3. \A u \in Tids : Report(u)
  BY Zenon, <1>2 DEF ReportsMatch, Report
<1>4. PICK code \in Nat \ {0}, x \in Nat, y \in Nat :
        /\ IsStored(mem', [mem EXCEPT ![ASSERT_BASE + t] = code], LogRing(t), <<2, x, y>>)
        /\ did' = [did EXCEPT ![t] = [code |-> code, log |-> <<x, y>>]]
  BY Zenon, <1>1 DEF TrapStep
<1>5. did \in [Tids -> [code : Nat, log : Seq(Nat)]] /\ mem \in [0 .. HEAP_END - 1 -> Nat]
  BY Zenon DEF HostInv, HostType
<1>6. PICK r \in Nat : r = LogRing(t) /\ r + LOG_SLOTS < ASSERT_BASE
  BY <1>1, ReporterApart, Rings
<1>7. PICK z \in 0 .. HEAP_END - 1 : z = ASSERT_BASE + t /\ r + LOG_SLOTS < z
  BY <1>6, Areas
<1>8. /\ <<2, x, y>>[1] = 2 /\ <<2, x, y>>[2] = x /\ <<2, x, y>>[3] = y
      /\ Len(<<2, x, y>>) = 3 /\ 1 \in 1 .. 3 /\ 2 \in 1 .. 3 /\ 3 \in 1 .. 3
  OBVIOUS
<1>9. r + 2 < HEAP_END /\ r + 1 - 1 = r /\ r + 2 - 1 = r + 1 /\ r + 3 - 1 = r + 2 /\ LOG_SLOTS >= 2
  BY <1>6, Areas
<1> DEFINE m == [mem EXCEPT ![ASSERT_BASE + t] = code]
<1>10. /\ \A k \in 1 .. 3 : r + k - 1 < HEAP_END => mem'[r + k - 1] = <<2, x, y>>[k]
       /\ \A q \in 0 .. HEAP_END - 1 : q < r \/ r + 3 <= q => mem'[q] = m[q]
  BY <1>4, <1>6, <1>8 DEF IsStored
<1>11. mem'[r] = 2 /\ mem'[r + 1] = x /\ mem'[r + 2] = y
  <2>1. r + 1 - 1 < HEAP_END /\ r + 2 - 1 < HEAP_END /\ r + 3 - 1 < HEAP_END
    BY <1>9, Areas
  <2>. QED BY Zenon, <1>8, <1>9, <1>10, <2>1
<1>12. m[z] = code /\ \A q \in 0 .. HEAP_END - 1 : q # z => m[q] = mem[q]
  BY <1>5, <1>7
<1> HIDE DEF m
<1>13. mem'[z] = code /\ \A q \in 0 .. HEAP_END - 1 : q \notin r .. r + LOG_SLOTS /\ q # z => mem'[q] = mem[q]
  <2>1. r + 3 <= z
    BY <1>7, <1>9, Areas
  <2>2. \A q \in 0 .. HEAP_END - 1 : q \notin r .. r + LOG_SLOTS => q < r \/ r + 3 <= q
    BY <1>9, Areas
  <2>. QED BY <1>7, <1>10, <1>12, <2>1, <2>2
<1>14. \A u \in Tids, k \in 0 .. LOG_SLOTS : LogRing(u) + k \in 0 .. HEAP_END - 1
  <2> TAKE u \in Tids, k \in 0 .. LOG_SLOTS
  <2>1. LogRing(u) + k \in LOG_BASE .. HEAP_BASE - 1
    BY RingRoom
  <2>. QED BY <2>1, Areas
<1>15. ASSUME NEW u \in Tids, u # t
       PROVE  Report(u)'
  <2>1. did'[u] = did[u]
    BY <1>1, <1>15 DEF ThreadMoves
  <2>2. mem'[ASSERT_BASE + u] = mem[ASSERT_BASE + u]
    <3>1. ASSERT_BASE + u \in 0 .. HEAP_END - 1 /\ ASSERT_BASE + u # z /\ ASSERT_BASE + u \notin r .. r + LOG_SLOTS
      BY <1>6, <1>7, <1>15, Areas
    <3>. QED BY <1>13, <3>1
  <2>3. \A k \in 0 .. LOG_SLOTS : LogRing(u) + k # z => mem'[LogRing(u) + k] = mem[LogRing(u) + k]
    <3> TAKE k \in 0 .. LOG_SLOTS
    <3>1. LogRing(u) + k \notin r .. r + LOG_SLOTS
      BY <1>6, <1>15, RingsDisjoint
    <3>. QED BY <1>13, <1>14, <3>1
  <2>4. /\ z # LogRing(u)
        /\ did[u].log # <<>> => \A k \in 1 .. LOG_SLOTS : z # LogRing(u) + k
    BY <1>1, <1>7, AssertWord
  <2>5. mem'[LogRing(u)] = mem[LogRing(u)]
    <3>1. 0 \in 0 .. LOG_SLOTS /\ LogRing(u) + 0 = LogRing(u)
      BY Areas, Rings
    <3>. QED BY Zenon, <2>3, <2>4, <3>1
  <2>6. \A k \in 1 .. LOG_SLOTS : k \in 0 .. LOG_SLOTS
    BY Areas
  <2>. QED BY Zenon, <1>3, <2>1, <2>2, <2>3, <2>4, <2>5, <2>6, ReportKept
<1>16. Report(t)'
  <2>1. did'[t].code = code /\ did'[t].log = <<x, y>>
    BY <1>4, <1>5
  <2>2. mem'[ASSERT_BASE + t] = code
    BY <1>7, <1>13
  <2>3. Len(<<x, y>>) = 2 /\ DOMAIN <<x, y>> = 1 .. 2 /\ <<x, y>>[1] = x /\ <<x, y>>[2] = y
    OBVIOUS
  <2>4. \A k \in 1 .. 2 : k = 1 \/ k = 2
    OBVIOUS
  <2>5. Len(<<x, y>>) <= LOG_SLOTS
    BY <1>9, <2>3, Areas
  <2>6. \A k \in DOMAIN <<x, y>> : mem'[r + k] = <<x, y>>[k]
    BY <1>11, <2>3, <2>4
  <2>. QED BY ZenonT(40), <1>6, <1>11, <2>1, <2>2, <2>3, <2>5, <2>6 DEF Report
<1>17. \A u \in Tids : LogRing(u) + LOG_SLOTS >= ASSERT_BASE => did'[u].log = <<>>
  <2>1. \A u \in Tids : LogRing(u) + LOG_SLOTS >= ASSERT_BASE => did[u].log = <<>>
    BY Zenon DEF ReportsMatch
  <2>2. ~(LogRing(t) + LOG_SLOTS >= ASSERT_BASE)
    BY <1>6, Areas
  <2>. QED BY Zenon, <1>1, <2>1, <2>2 DEF ThreadMoves
<1>18. ~Reported'
  BY <1>2 DEF Reported
<1>. QED BY Zenon, <1>15, <1>16, <1>17, <1>18 DEF ReportsMatch, Report

\* A step of the device leaves the reports matched.
LEMMA DeviceReports ==
  ASSUME KernelsApart, HostInv, ReportsMatch, NEW t \in Tids, DeviceStep(t)
  PROVE  ReportsMatch'
<1>1. CASE mk_log(t) \/ mk_assert(t) \/ _mk_trap(t)
  BY <1>1, LogReports, AssertReports, TrapReports
<1>2. ASSUME ThreadMoves(t), did' = did, OnlyAt(HEAP_BASE .. HEAP_END - 1) \/ OnlyAt({}) \/ OnlyAt({DONE_BASE + t})
      PROVE  ReportsMatch'
  <2>1. InCall /\ outcome.kind = "none" /\ outcome' = outcome
    BY <1>2 DEF ThreadMoves, HostInv, CallLegal, host
  <2>2. ~Reported'
    BY <2>1 DEF Reported
  <2>3. \A x \in LOG_BASE .. HEAP_BASE - 1 : x \in 0 .. HEAP_END - 1 /\ x \notin HEAP_BASE .. HEAP_END - 1 /\ x # DONE_BASE + t
    BY Areas
  <2>4. \A x \in LOG_BASE .. HEAP_BASE - 1 : mem'[x] = mem[x]
    BY <1>2, <2>3 DEF OnlyAt
  <2>. QED BY Zenon, <1>2, <2>1, <2>2, <2>4, ReportsKept
<1>3. CASE Add(t) \/ Arrive(t) \/ PollFlag(t) \/ Combine(t) \/ Done(t)
  BY Zenon, <1>2, <1>3, AddFacts, ArriveFacts, PollFlagFacts, CombineFacts, DoneFacts
<1>. QED BY Zenon, <1>1, <1>3 DEF DeviceStep

\* Every step does.
LEMMA ReportsStep ==
  ASSUME KernelsApart, HostInv, ReportsMatch, [HostNext]_hostVars
  PROVE  ReportsMatch'
<1>1. ASSUME did' = did, \A x \in 0 .. HEAP_BASE - 1 : mem'[x] = mem[x], outcome' = outcome,
             InCall' => InCall
      PROVE  ReportsMatch'
  <2>1. (\A t \in Tids : DONE_BASE + t \in 0 .. HEAP_BASE - 1)
        /\ \A x \in LOG_BASE .. HEAP_BASE - 1 : x \in 0 .. HEAP_BASE - 1
    BY Areas
  <2>2. Reported' <=> Reported
    BY <1>1 DEF Reported
  <2>. QED BY Zenon, <1>1, <2>1, <2>2, ReportsKept
<1>2. CASE UNCHANGED hostVars
  BY <1>1, <1>2 DEF hostVars, InCall
<1>3. CASE ToDevice \/ Out
  <2>1. UNCHANGED <<call, did, outcome>>
    BY <1>3 DEF ToDevice, Out
  <2>2. PICK a \in Nat, words \in Seq(Nat) : Adds(a, words)
    BY <1>3, ToDeviceAdds, OutAdds
  <2>3. heap \in HEAP_BASE .. HEAP_END
    BY Zenon DEF HostInv, HostType
  <2>4. \A x \in 0 .. HEAP_BASE - 1 : x \in 0 .. HEAP_END - 1 /\ x < heap /\ (heap <= a => x < a)
    BY <2>3, Areas
  <2>5. \A x \in 0 .. HEAP_BASE - 1 : mem'[x] = mem[x]
    BY <2>2, <2>4 DEF Adds
  <2>. QED BY <1>1, <2>1, <2>5 DEF InCall
<1>4. CASE IntArg \/ Begin
  BY <1>1, <1>4 DEF IntArg, Begin, InCall
<1>5. CASE RUN
  <2>1. UNCHANGED <<mem, did, outcome>> /\ call.at = "loop"
    BY <1>5 DEF RUN
  <2>. QED BY <1>1, <2>1 DEF InCall
<1>6. CASE Exhausted
  <2>1. did' = did /\ outcome'.kind = "exhausted" /\ call' = call /\ call.at = "none"
    BY <1>6 DEF Exhausted
  <2>2. ~Reported' /\ ~InCall'
    BY <2>1 DEF Reported, InCall
  <2>. QED BY Zenon, <2>1, <2>2 DEF ReportsMatch
<1>7. CASE Launch \/ Poll \/ \E t \in Tids : DeviceStep(t)
  BY <1>7, LaunchReports, PollReports, DeviceReports
<1>. QED BY <1>2, <1>3, <1>4, <1>5, <1>6, <1>7 DEF HostNext, HostStep

\* At first nothing is reported.
LEMMA InitReports == HostInit => ReportsMatch
<1> SUFFICES ASSUME HostInit PROVE ReportsMatch
  OBVIOUS
<1>1. ~InCall /\ ~Reported
  BY DEF HostInit, InCall, Reported, NoCall
<1>2. \A t \in Tids : did[t].log = <<>>
  BY DEF HostInit, Silent
<1>. QED BY Zenon, <1>1, <1>2 DEF ReportsMatch

\* With the reports as they are, a failure is the launch's own.
LEMMA ReportsOwn ==
  ASSUME HostInv, ReportsMatch
  PROVE  FailuresOwn /\ LogOwn
<1>1. ASSUME Reported
      PROVE  /\ outcome.fails = {<<t, did[t].code>> : t \in {u \in Tids : did[u].code # 0}}
             /\ outcome.kind = "ok" => \A t \in Tids : thread[t].at = Len(Script(t)) + 2
  <2>1. /\ \A t \in Tids : mem[ASSERT_BASE + t] = did[t].code
        /\ outcome.fails = _assert_failures
        /\ outcome.kind = "ok" => \A t \in Tids : mem[DONE_BASE + t] = 1
    BY Zenon, <1>1 DEF ReportsMatch
  <2>2. _assert_failures = {<<t, did[t].code>> : t \in {u \in Tids : did[u].code # 0}}
    BY <2>1 DEF _assert_failures
  <2>3. \A t \in Tids : mem[DONE_BASE + t] = 1 => thread[t].at = Len(Script(t)) + 2
    BY Zenon, <1>1 DEF HostInv, ThreadsPlaced
  <2>. QED BY Zenon, <2>1, <2>2, <2>3
<1>2. ASSUME Reported, NEW t \in Tids
      PROVE  device_log(t) = did[t].log
  <2>1. /\ mem[LogRing(t)] = Len(did[t].log) /\ Len(did[t].log) <= LOG_SLOTS
        /\ \A k \in DOMAIN did[t].log : mem[LogRing(t) + k] = did[t].log[k]
    BY Zenon, <1>2 DEF ReportsMatch
  <2>2. PICK l \in Seq(Nat), n \in Nat : l = did[t].log /\ n = Len(l) /\ DOMAIN l = 1 .. n
    <3>1. did \in [Tids -> [code : Nat, log : Seq(Nat)]]
      BY Zenon DEF HostInv, HostType
    <3>2. did[t].log \in Seq(Nat)
      BY <3>1
    <3>. QED BY <3>2
  <2>3. PICK r \in Nat : r = LogRing(t)
    BY Rings
  <2>4. (IF mem[r] < LOG_SLOTS THEN mem[r] ELSE LOG_SLOTS) = n
    BY <2>1, <2>2, <2>3, Areas
  <2>5. device_log(t) = [k \in 1 .. n |-> mem[r + 1 + k - 1]]
    BY Zenon, <2>3, <2>4 DEF device_log, Get
  <2>6. \A k \in 1 .. n : mem[r + 1 + k - 1] = l[k]
    <3>1. \A k \in 1 .. n : r + 1 + k - 1 = r + k
      OBVIOUS
    <3>. QED BY <2>1, <2>2, <2>3, <3>1
  <2>7. l = [k \in 1 .. n |-> l[k]]
    BY <2>2
  <2>. QED BY <2>2, <2>5, <2>6, <2>7
<1>. QED BY Zenon, <1>1, <1>2 DEF FailuresOwn, LogOwn, Reported

\* mk.h mk_assert, mkcuda.py _assert_failures: when no thread's reports lie over
\* another's, a launch reports the assertions and traps of its own threads and those
\* only, and it reports success only when every thread has ended.
THEOREM FailuresAreOwn ==
  ASSUME KernelsApart
  PROVE  HostSpec => []FailuresOwn
<1>1. HostInit => HostInv /\ ReportsMatch
  BY InitHost, InitReports
<1>2. HostInv /\ ReportsMatch /\ [HostNext]_hostVars => HostInv' /\ ReportsMatch'
  BY HostInvStep, ReportsStep
<1>3. HostInv /\ ReportsMatch => FailuresOwn
  BY ReportsOwn
<1>. QED BY <1>1, <1>2, <1>3, PTL DEF HostSpec

\* mk.h mk_log, mkcuda.py device_log: with the same kernels, the log read back after a
\* launch is what its own threads logged, in their order, up to the room of a ring.
THEOREM LogsAreOwn ==
  ASSUME KernelsApart
  PROVE  HostSpec => []LogOwn
<1>1. HostInit => HostInv /\ ReportsMatch
  BY InitHost, InitReports
<1>2. HostInv /\ ReportsMatch /\ [HostNext]_hostVars => HostInv' /\ ReportsMatch'
  BY HostInvStep, ReportsStep
<1>3. HostInv /\ ReportsMatch => LogOwn
  BY ReportsOwn
<1>. QED BY <1>1, <1>2, <1>3, PTL DEF HostSpec
-----------------------------------------------------------------------------
(* The words of the buffers *)

\* The arguments that an operation uses as buffers
Uses(op, k) ==
  \/ op.op = "add" /\ k \in {op.a, op.b, op.c}
  \/ op.op = "combine" /\ k \in {op.src, op.dst}
  \/ op.op = "barrier" /\ k = op.scr

\* Two arguments of a kernel are two buffers.
LEMMA BuffersDiffer ==
  ASSUME HostInv, InCall, NEW p \in DOMAIN Ops, NEW q \in DOMAIN Ops,
         NEW j, NEW k, Uses(Ops[p], j), Uses(Ops[q], k), j # k
  PROVE  args[j] # args[k]
<1>1. PICK s \in Sessions : Called(s)
  BY DEF HostInv, CallLegal
<1>2. args \in Seq(Nat)
  BY Zenon DEF HostInv, HostType
<1>3. PICK n \in Nat : n = Len(args) /\ DOMAIN args = 1 .. n
  BY <1>2
<1>4. Len(s) = n + 1 /\ s[n + 1].kind = "launch" /\ call.kernel = s[n + 1].kernel /\ Handed(s)
  BY <1>1, <1>3 DEF Called
<1>5. n + 1 \in DOMAIN s
  BY <1>3, <1>4, SessionFacts
<1>6. \A x \in DOMAIN Ops : Fits(Ops[x], s, s[n + 1].grid_n)
  BY <1>4, <1>5, SessionFacts, Areas DEF Ops
<1>7. \A x : x \in 1 .. Len(s) - 1 <=> x \in DOMAIN args
  BY <1>3, <1>4
<1>8. ASSUME NEW x \in DOMAIN Ops, NEW y, Uses(Ops[x], y)
      PROVE  y \in DOMAIN args /\ IsBuffer(s[y])
  <2>1. PICK op : op = Ops[x] /\ Fits(op, s, s[n + 1].grid_n) /\ Uses(op, y)
    BY <1>6, <1>8
  <2>2. CASE op.op = "add"
    BY <1>7, <2>1, <2>2 DEF Fits, Uses
  <2>3. CASE op.op = "combine"
    BY <1>7, <2>1, <2>3 DEF Fits, Uses
  <2>4. CASE op.op = "barrier"
    BY <1>7, <2>1, <2>4 DEF Fits, Uses, IsBuffer
  <2>. QED BY <2>1, <2>2, <2>3, <2>4 DEF Uses
<1>. QED BY Zenon, <1>4, <1>8 DEF Handed

\* The threads of a kernel run the same operations on the buffers.
SameOps ==
  /\ \A t \in Tids : \A p \in DOMAIN Script(t) :
       DataOp(Script(t)[p]) => p \in DOMAIN Ops /\ Ops[p] = Script(t)[p]
  /\ \A t \in Tids : \A p \in DOMAIN Ops :
       DataOp(Ops[p]) => p \in DOMAIN Script(t) /\ Script(t)[p] = Ops[p]
\* Flags are no data, and a barrier lies between a sum and its parts.
OpsApart ==
  /\ \A p, q \in DOMAIN Ops : Ops[p].op = "barrier" /\ Ops[q].op = "add" =>
       args[Ops[p].scr] \notin {args[Ops[q].a], args[Ops[q].b], args[Ops[q].c]}
  /\ \A p, q \in DOMAIN Ops : Ops[p].op = "barrier" /\ Ops[q].op = "combine" =>
       args[Ops[p].scr] \notin {args[Ops[q].src], args[Ops[q].dst]}
  /\ \A p, q \in DOMAIN Ops : Ops[p].op = "combine" /\ Ops[q].op = "add" /\ args[Ops[q].c] = args[Ops[p].src] =>
       \E r \in DOMAIN Ops : Ops[r].op = "barrier" /\ ((p < r /\ r < q) \/ (q < r /\ r < p))

\* What a kernel without races gives its call.
LEMMA RaceFacts ==
  ASSUME KernelsRaceFree, HostInv, InCall
  PROVE  SameOps /\ OpsApart
<1>1. RaceFree(Kernels[call.kernel]) /\ \A t \in Tids : Script(t) = Kernels[call.kernel][t]
  BY OpsHeld DEF KernelsRaceFree
<1>2. SameOps
  <2>1. \A t \in Tids : \A p \in DOMAIN Ops \union DOMAIN Script(t) :
          (p \in DOMAIN Ops /\ DataOp(Ops[p])) \/ (p \in DOMAIN Script(t) /\ DataOp(Script(t)[p])) =>
             p \in DOMAIN Ops /\ p \in DOMAIN Script(t) /\ Script(t)[p] = Ops[p]
    <3>1. PICK kernel : kernel = Kernels[call.kernel]
      OBVIOUS
    <3>2. RaceFree(kernel) /\ Ops = kernel[0] /\ \A t \in Tids : Script(t) = kernel[t]
      BY Zenon, <1>1, <3>1 DEF Ops
    <3>3. \A t \in Tids : \A p \in DOMAIN Ops \union DOMAIN kernel[t] :
            (p \in DOMAIN Ops /\ DataOp(Ops[p])) \/ (p \in DOMAIN kernel[t] /\ DataOp(kernel[t][p])) =>
               p \in DOMAIN Ops /\ p \in DOMAIN kernel[t] /\ kernel[t][p] = Ops[p]
      BY Zenon, <3>2 DEF RaceFree
    <3>. QED BY <3>2, <3>3
  <2>. QED BY Zenon, <2>1 DEF SameOps
<1>3. \A p, q \in DOMAIN Ops :
        /\ Ops[p].op = "barrier" /\ Ops[q].op = "add" => Ops[p].scr \notin {Ops[q].a, Ops[q].b, Ops[q].c}
        /\ Ops[p].op = "barrier" /\ Ops[q].op = "combine" => Ops[p].scr \notin {Ops[q].src, Ops[q].dst}
        /\ Ops[p].op = "combine" /\ Ops[q].op = "add" /\ Ops[q].c = Ops[p].src =>
             \E r \in DOMAIN Ops : Ops[r].op = "barrier" /\ ((p < r /\ r < q) \/ (q < r /\ r < p))
  BY Zenon, <1>1 DEF RaceFree, Ops
<1>4. ASSUME NEW p \in DOMAIN Ops, NEW q \in DOMAIN Ops, Ops[p].op = "barrier", Ops[q].op = "add"
      PROVE  args[Ops[p].scr] \notin {args[Ops[q].a], args[Ops[q].b], args[Ops[q].c]}
  <2>1. Uses(Ops[p], Ops[p].scr) /\ \A k \in {Ops[q].a, Ops[q].b, Ops[q].c} : Uses(Ops[q], k) /\ k # Ops[p].scr
    BY <1>3, <1>4 DEF Uses
  <2>. QED BY <2>1, BuffersDiffer
<1>5. ASSUME NEW p \in DOMAIN Ops, NEW q \in DOMAIN Ops, Ops[p].op = "barrier", Ops[q].op = "combine"
      PROVE  args[Ops[p].scr] \notin {args[Ops[q].src], args[Ops[q].dst]}
  <2>1. Uses(Ops[p], Ops[p].scr) /\ \A k \in {Ops[q].src, Ops[q].dst} : Uses(Ops[q], k) /\ k # Ops[p].scr
    BY <1>3, <1>5 DEF Uses
  <2>. QED BY <2>1, BuffersDiffer
<1>6. ASSUME NEW p \in DOMAIN Ops, NEW q \in DOMAIN Ops, Ops[p].op = "combine", Ops[q].op = "add",
             args[Ops[q].c] = args[Ops[p].src]
      PROVE  Ops[q].c = Ops[p].src
  <2>1. Uses(Ops[p], Ops[p].src) /\ Uses(Ops[q], Ops[q].c)
    BY <1>6 DEF Uses
  <2>. QED BY <1>6, <2>1, BuffersDiffer
<1>7. OpsApart
  BY Zenon, <1>3, <1>4, <1>5, <1>6 DEF OpsApart
<1>. QED BY <1>2, <1>7

\* The operations of the call are a sequence.
LEMMA OpsFacts ==
  ASSUME HostInv, InCall
  PROVE  Len(Ops) \in Nat /\ DOMAIN Ops = 1 .. Len(Ops) /\ \A p \in DOMAIN Ops : OpHeld(Ops[p])
<1>1. call.kernel \in DOMAIN Kernels /\ Script(0) = Ops /\ \A p \in DOMAIN Script(0) : OpHeld(Script(0)[p])
  BY OpsHeld, Areas DEF Ops
<1>2. Len(Ops) \in Nat /\ DOMAIN Ops = 1 .. Len(Ops)
  BY <1>1, ScriptFacts, Areas DEF Ops
<1>. QED BY <1>1, <1>2

\* After any number of operations a buffer holds as many words as before,
LEMMA WordsShape ==
  ASSUME HostInv, InCall, NEW b \in bufs
  PROVE  /\ WordsLeft(0, b) = b.words
         /\ \A p \in 0 .. Len(Ops) : /\ WordsLeft(p, b) \in Seq(Nat) /\ Len(WordsLeft(p, b)) = Len(b.words)
                                     /\ \A j \in 0 .. Len(b.words) - 1 : WordsLeft(p, b)[j + 1] \in Nat
<1>1. PICK n \in Nat : n = Len(Ops)
  BY Zenon, OpsFacts
<1>2. HeldAfter(Ops)[0] = bufs /\ \A p \in 0 .. n : \E f \in Contents : HeldAfter(Ops)[p] = Shape(f)
  BY <1>1, AfterShape
<1>3. WordsLeft(0, b) = b.words
  <2> DEFINE f == [c \in bufs |-> c.words]
  <2>1. f \in Contents
    BY BuffersNamed DEF Contents
  <2>2. Shape(f) = bufs
    <3>1. \A c \in bufs : [addr |-> c.addr, words |-> f[c]] = c
      BY BuffersNamed
    <3> HIDE DEF f
    <3>. QED BY <3>1 DEF Shape
  <2>3. WordsAt(Shape(f), b.addr) = f[b] /\ f[b] = b.words
    BY <2>1, WordsFound
  <2>. QED BY Zenon, <1>2, <2>2, <2>3 DEF WordsLeft
<1>4. ASSUME NEW p \in 0 .. Len(Ops)
      PROVE  /\ WordsLeft(p, b) \in Seq(Nat) /\ Len(WordsLeft(p, b)) = Len(b.words)
             /\ \A j \in 0 .. Len(b.words) - 1 : WordsLeft(p, b)[j + 1] \in Nat
  <2>1. PICK f \in Contents : HeldAfter(Ops)[p] = Shape(f)
    BY <1>1, <1>2
  <2>2. WordsLeft(p, b) = f[b]
    BY <2>1, WordsFound DEF WordsLeft
  <2>3. f[b] \in Seq(Nat) /\ Len(f[b]) = Len(b.words)
    BY DEF Contents
  <2>4. \A j \in 0 .. Len(b.words) - 1 : f[b][j + 1] \in Nat
    BY <2>3
  <2>. QED BY <2>2, <2>3, <2>4
<1>. QED BY <1>3, <1>4

\* and each operation writes its buffer only.
LEMMA WordsStep ==
  ASSUME HostInv, InCall, NEW b \in bufs, NEW p \in DOMAIN Ops
  PROVE  LET op == Ops[p] h == HeldAfter(Ops)[p - 1]
         IN  /\ p - 1 \in 0 .. Len(Ops) /\ p \in 0 .. Len(Ops)
             /\ WordsLeft(p, b) = Result(h, op, [addr |-> b.addr, words |-> WordsLeft(p - 1, b)])
             /\ \A c \in bufs : WordsAt(h, c.addr) = WordsLeft(p - 1, c)
<1>1. PICK n \in Nat : n = Len(Ops) /\ DOMAIN Ops = 1 .. n
  BY Zenon, OpsFacts
<1>2. p - 1 \in 0 .. n /\ p \in 0 .. n /\ p \in 1 .. n
  BY <1>1
<1>3. PICK f \in Contents : HeldAfter(Ops)[p - 1] = Shape(f)
  BY <1>1, <1>2, AfterShape
<1>4. HeldAfter(Ops)[p] = Effect(Shape(f), Ops[p])
  BY <1>1, <1>2, <1>3, AfterShape
<1>5. OpHeld(Ops[p])
  BY OpsFacts
<1> DEFINE g == [c \in bufs |-> Result(Shape(f), Ops[p], [addr |-> c.addr, words |-> f[c]])]
<1>6. g \in Contents /\ Effect(Shape(f), Ops[p]) = Shape(g)
  BY <1>5, EffectShape
<1>7. WordsLeft(p, b) = g[b]
  <2> HIDE DEF g
  <2>. QED BY <1>4, <1>6, WordsFound DEF WordsLeft
<1>8. \A c \in bufs : WordsAt(Shape(f), c.addr) = f[c]
  BY WordsFound
<1>9. \A c \in bufs : WordsLeft(p - 1, c) = f[c]
  BY <1>3, <1>8 DEF WordsLeft
<1>10. g[b] = Result(Shape(f), Ops[p], [addr |-> b.addr, words |-> WordsLeft(p - 1, b)])
  BY <1>9
<1> HIDE DEF g
<1>. QED BY <1>1, <1>2, <1>3, <1>7, <1>8, <1>9, <1>10

\* Operation p adds A and B into C, as far as n;
Sums(p, A, B, C, n) ==
  /\ Ops[p].op = "add" /\ n = args[Ops[p].n]
  /\ A.addr = args[Ops[p].a] /\ B.addr = args[Ops[p].b] /\ C.addr = args[Ops[p].c]
\* what the buffers hold after it.
Summed(p, A, B, C, n) ==
  \A b \in bufs : \A j \in 0 .. Len(b.words) - 1 :
    WordsLeft(p, b)[j + 1] =
      IF b = C /\ j < n THEN (WordsLeft(p - 1, A)[j + 1] + WordsLeft(p - 1, B)[j + 1]) % Modulus
      ELSE WordsLeft(p - 1, b)[j + 1]

\* A sum sets the words below its length, in its output only.
LEMMA AddWords ==
  ASSUME HostInv, InCall, NEW p \in DOMAIN Ops, NEW A \in bufs, NEW B \in bufs, NEW C \in bufs, NEW n \in Nat,
         Sums(p, A, B, C, n)
  PROVE  Summed(p, A, B, C, n)
<1> SUFFICES ASSUME NEW b \in bufs, NEW j \in 0 .. Len(b.words) - 1
             PROVE  WordsLeft(p, b)[j + 1] =
                      IF b = C /\ j < n THEN (WordsLeft(p - 1, A)[j + 1] + WordsLeft(p - 1, B)[j + 1]) % Modulus
                      ELSE WordsLeft(p - 1, b)[j + 1]
  BY DEF Summed
<1>0. /\ Ops[p].op = "add" /\ n = args[Ops[p].n]
      /\ A.addr = args[Ops[p].a] /\ B.addr = args[Ops[p].b] /\ C.addr = args[Ops[p].c]
  BY DEF Sums
<1> DEFINE h == HeldAfter(Ops)[p - 1]
           r == [addr |-> b.addr, words |-> WordsLeft(p - 1, b)]
<1>1. /\ p - 1 \in 0 .. Len(Ops)
      /\ WordsLeft(p, b) = Result(h, Ops[p], r)
      /\ \A c \in bufs : WordsAt(h, c.addr) = WordsLeft(p - 1, c)
  BY Zenon, WordsStep
<1>2. r.addr = b.addr /\ r.words = WordsLeft(p - 1, b)
  OBVIOUS
<1>3. j + 1 \in DOMAIN WordsLeft(p - 1, b) /\ (j + 1 <= n <=> j < n)
  <2>1. WordsLeft(p - 1, b) \in Seq(Nat) /\ Len(WordsLeft(p - 1, b)) = Len(b.words)
    BY <1>1, WordsShape
  <2>. QED BY <2>1
<1> HIDE DEF h, r
<1>4. CASE b = C
  <2>1. Result(h, Ops[p], r) =
          [k \in DOMAIN r.words |->
             IF k <= n THEN (WordsAt(h, A.addr)[k] + WordsAt(h, B.addr)[k]) % Modulus ELSE r.words[k]]
    BY <1>0, <1>2, <1>4 DEF Result
  <2>2. Result(h, Ops[p], r)[j + 1] =
          IF j + 1 <= n THEN (WordsAt(h, A.addr)[j + 1] + WordsAt(h, B.addr)[j + 1]) % Modulus ELSE r.words[j + 1]
    BY Zenon, <1>2, <1>3, <2>1
  <2>. QED BY Zenon, <1>1, <1>2, <1>3, <1>4, <2>2
<1>5. CASE b # C
  <2>1. b.addr # args[Ops[p].c]
    BY <1>0, <1>5, BuffersNamed
  <2>2. Result(h, Ops[p], r) = r.words
    BY <1>0, <1>2, <2>1 DEF Result
  <2>. QED BY Zenon, <1>1, <1>2, <1>5, <2>2
<1>. QED BY <1>4, <1>5

\* A barrier counts its flags up, and touches no data.
LEMMA BarrierWords ==
  ASSUME HostInv, InCall, NEW p \in DOMAIN Ops, Ops[p].op = "barrier",
         NEW S \in bufs, S.addr = args[Ops[p].scr],
         NEW b \in bufs, NEW j \in 0 .. Len(b.words) - 1
  PROVE  WordsLeft(p, b)[j + 1] = IF b = S THEN WordsLeft(p - 1, b)[j + 1] + 1 ELSE WordsLeft(p - 1, b)[j + 1]
<1> DEFINE h == HeldAfter(Ops)[p - 1]
           r == [addr |-> b.addr, words |-> WordsLeft(p - 1, b)]
<1>1. p - 1 \in 0 .. Len(Ops) /\ WordsLeft(p, b) = Result(h, Ops[p], r)
  BY Zenon, WordsStep
<1>2. r.addr = b.addr /\ r.words = WordsLeft(p - 1, b)
  OBVIOUS
<1>3. j + 1 \in DOMAIN WordsLeft(p - 1, b)
  <2>1. WordsLeft(p - 1, b) \in Seq(Nat) /\ Len(WordsLeft(p - 1, b)) = Len(b.words)
    BY <1>1, WordsShape
  <2>. QED BY <2>1
<1> HIDE DEF h, r
<1>4. CASE b = S
  <2>1. Result(h, Ops[p], r) = [k \in DOMAIN r.words |-> r.words[k] + 1]
    BY <1>2, <1>4 DEF Result
  <2>. QED BY Zenon, <1>1, <1>2, <1>3, <1>4, <2>1
<1>5. CASE b # S
  <2>1. b.addr # args[Ops[p].scr]
    BY <1>5, BuffersNamed
  <2>2. Result(h, Ops[p], r) = r.words
    BY <1>2, <2>1 DEF Result
  <2>. QED BY Zenon, <1>1, <1>2, <1>5, <2>2
<1>. QED BY <1>4, <1>5

\* The total goes into its buffer only.
LEMMA CombineWords ==
  ASSUME HostInv, InCall, NEW p \in DOMAIN Ops, Ops[p].op = "combine",
         NEW S \in bufs, NEW D \in bufs, S.addr = args[Ops[p].src], D.addr = args[Ops[p].dst]
  PROVE  /\ WordsLeft(p, D)[1] = Total(WordsLeft(p - 1, S))
         /\ \A b \in bufs : b # D => WordsLeft(p, b) = WordsLeft(p - 1, b)
<1> DEFINE h == HeldAfter(Ops)[p - 1]
           r(b) == [addr |-> b.addr, words |-> WordsLeft(p - 1, b)]
<1>1. /\ \A b \in bufs : WordsLeft(p, b) = Result(h, Ops[p], r(b))
      /\ \A c \in bufs : WordsAt(h, c.addr) = WordsLeft(p - 1, c)
  BY Zenon, WordsStep
<1>2. \A b \in bufs : r(b).addr = b.addr /\ r(b).words = WordsLeft(p - 1, b)
  OBVIOUS
<1> HIDE DEF h, r
<1>3. Result(h, Ops[p], r(D)) = <<Total(WordsLeft(p - 1, S))>>
  BY <1>1, <1>2 DEF Result
<1>4. ASSUME NEW b \in bufs, b # D
      PROVE  WordsLeft(p, b) = WordsLeft(p - 1, b)
  <2>1. b.addr # args[Ops[p].dst]
    BY <1>4, BuffersNamed
  <2>2. Result(h, Ops[p], r(b)) = r(b).words
    BY <1>2, <2>1 DEF Result
  <2>. QED BY Zenon, <1>1, <1>2, <2>2
<1>5. WordsLeft(p, D)[1] = Total(WordsLeft(p - 1, S))
  BY <1>1, <1>3
<1>. QED BY <1>4, <1>5

\* An operation that is none on buffers leaves the words.
LEMMA OtherWords ==
  ASSUME HostInv, InCall, NEW p \in DOMAIN Ops, ~DataOp(Ops[p]), NEW b \in bufs
  PROVE  WordsLeft(p, b) = WordsLeft(p - 1, b)
<1> DEFINE h == HeldAfter(Ops)[p - 1]
           r == [addr |-> b.addr, words |-> WordsLeft(p - 1, b)]
<1>1. WordsLeft(p, b) = Result(h, Ops[p], r)
  BY Zenon, WordsStep
<1>2. r.words = WordsLeft(p - 1, b)
  OBVIOUS
<1> HIDE DEF h, r
<1>3. Result(h, Ops[p], r) = r.words
  BY DEF Result, DataOp
<1>. QED BY <1>1, <1>2, <1>3

\* A buffer that no operation of a stretch writes holds the same at its ends.
LEMMA Untouched ==
  ASSUME NEW b, NEW lo \in Nat, NEW hi \in Nat, lo <= hi,
         \A m \in lo + 1 .. hi : WordsLeft(m, b) = WordsLeft(m - 1, b)
  PROVE  WordsLeft(hi, b) = WordsLeft(lo, b)
<1> DEFINE P == {k \in 0 .. hi - lo : WordsLeft(lo + k, b) = WordsLeft(lo, b)}
<1>1. hi - lo \in Nat /\ lo + 0 = lo /\ lo + (hi - lo) = hi
  OBVIOUS
<1>2. 0 \in P
  BY <1>1
<1>3. ASSUME NEW k \in 0 .. (hi - lo) - 1, k \in P
      PROVE  k + 1 \in P
  <2>1. lo + (k + 1) \in lo + 1 .. hi /\ (lo + (k + 1)) - 1 = lo + k /\ k + 1 \in 0 .. hi - lo
    OBVIOUS
  <2>2. WordsLeft(lo + (k + 1), b) = WordsLeft(lo + k, b)
    BY <2>1
  <2>. QED BY <1>3, <2>1, <2>2
<1>4. \A k \in 0 .. hi - lo : k \in P
  <2> HIDE DEF P
  <2>. QED BY <1>1, <1>2, <1>3, Upto
<1>5. hi - lo \in P
  BY <1>1, <1>4
<1>. QED BY <1>1, <1>5

\* The flags of a barrier are equal, and go up by one at each barrier.
FlagCount(S, c) ==
  /\ c \in [0 .. Len(Ops) -> Nat]
  /\ \A q \in 0 .. Len(Ops) : \A j \in 0 .. Len(S.words) - 1 : WordsLeft(q, S)[j + 1] = c[q]
  /\ \A q \in DOMAIN Ops : IF Ops[q].op = "barrier" /\ S.addr = args[Ops[q].scr]
                           THEN c[q] = c[q - 1] + 1 ELSE c[q] = c[q - 1]

\* After p operations a flag buffer holds the number of its barriers among them.
LEMMA FlagsCount ==
  ASSUME KernelsRaceFree, HostInv, InCall, NEW r \in DOMAIN Ops, Ops[r].op = "barrier",
         NEW S \in bufs, S.addr = args[Ops[r].scr], \A x \in DOMAIN S.words : S.words[x] = 0
  PROVE  \E c : FlagCount(S, c)
<1> DEFINE n == Len(Ops)
           c == [q \in 0 .. n |-> WordsLeft(q, S)[1]]
           goes(q) == Ops[q].op = "barrier" /\ S.addr = args[Ops[q].scr]
<1>1. n \in Nat /\ DOMAIN Ops = 1 .. n
  BY OpsFacts
<1>2. PICK m \in Nat \ {0} : m = Len(S.words)
  BY BuffersNamed
<1>3. \A q \in 0 .. n : \A j \in 0 .. m - 1 : WordsLeft(q, S)[j + 1] \in Nat
  BY <1>2, WordsShape
<1>4. \A j \in 0 .. m - 1 : WordsLeft(0, S)[j + 1] = 0
  <2>1. WordsLeft(0, S) = S.words /\ S.words \in Seq(Nat)
    BY WordsShape, BuffersNamed
  <2>2. \A j \in 0 .. m - 1 : j + 1 \in DOMAIN S.words
    BY <1>2, <2>1
  <2>. QED BY <2>1, <2>2
<1>5. ASSUME NEW q \in DOMAIN Ops, NEW j \in 0 .. m - 1
      PROVE  WordsLeft(q, S)[j + 1] = IF goes(q) THEN WordsLeft(q - 1, S)[j + 1] + 1 ELSE WordsLeft(q - 1, S)[j + 1]
  <2>1. OpsApart /\ OpHeld(Ops[q])
    BY RaceFacts, OpsFacts
  <2>2. CASE Ops[q].op = "barrier"
    <3>1. PICK T \in bufs : T.addr = args[Ops[q].scr]
      BY <2>1, <2>2 DEF OpHeld
    <3>2. WordsLeft(q, S)[j + 1] = IF S = T THEN WordsLeft(q - 1, S)[j + 1] + 1 ELSE WordsLeft(q - 1, S)[j + 1]
      BY <1>2, <2>2, <3>1, BarrierWords
    <3>3. S = T <=> S.addr = args[Ops[q].scr]
      BY <3>1, BuffersNamed
    <3>. QED BY Zenon, <2>2, <3>2, <3>3
  <2>3. CASE Ops[q].op = "add"
    <3>1. /\ \E A \in bufs : A.addr = args[Ops[q].a]
          /\ \E B \in bufs : B.addr = args[Ops[q].b]
          /\ \E C \in bufs : C.addr = args[Ops[q].c]
          /\ args[Ops[q].n] \in Nat
      <4>1. args \in Seq(Nat) /\ Ops[q].n \in DOMAIN args
        BY Zenon, <2>1, <2>3 DEF HostInv, HostType, OpHeld
      <4>2. args[Ops[q].n] \in Nat
        BY <4>1
      <4>3. \A k \in {Ops[q].a, Ops[q].b, Ops[q].c} : \E b \in bufs : b.addr = args[k]
        BY <2>1, <2>3 DEF OpHeld
      <4>. QED BY <4>2, <4>3
    <3>2. PICK A \in bufs, B \in bufs, C \in bufs, k \in Nat :
            /\ A.addr = args[Ops[q].a] /\ B.addr = args[Ops[q].b] /\ C.addr = args[Ops[q].c]
            /\ k = args[Ops[q].n]
      BY <3>1
    <3>3. S # C
      BY <2>1, <2>3, <3>2 DEF OpsApart
    <3>4. WordsLeft(q, S)[j + 1] = WordsLeft(q - 1, S)[j + 1]
      <4>1. Summed(q, A, B, C, k)
        BY <2>3, <3>2, AddWords DEF Sums
      <4>. QED BY <1>2, <3>3, <4>1 DEF Summed
    <3>. QED BY <2>3, <3>4
  <2>4. CASE Ops[q].op = "combine"
    <3>1. PICK T \in bufs, D \in bufs : T.addr = args[Ops[q].src] /\ D.addr = args[Ops[q].dst]
      BY <2>1, <2>4 DEF OpHeld
    <3>2. S # D
      BY <2>1, <2>4, <3>1 DEF OpsApart
    <3>3. WordsLeft(q, S) = WordsLeft(q - 1, S)
      BY <2>4, <3>1, <3>2, CombineWords
    <3>. QED BY <2>4, <3>3
  <2>5. CASE ~DataOp(Ops[q])
    <3>1. WordsLeft(q, S) = WordsLeft(q - 1, S) /\ Ops[q].op # "barrier"
      BY <2>5, OtherWords DEF DataOp
    <3>. QED BY <3>1
  <2>. QED BY <2>2, <2>3, <2>4, <2>5 DEF DataOp
<1> HIDE DEF goes
<1> DEFINE P == {q \in 0 .. n : \A j \in 0 .. m - 1 : WordsLeft(q, S)[j + 1] = c[q]}
<1>6. 0 \in P
  <2>1. 0 \in 0 .. n /\ 0 \in 0 .. m - 1
    BY <1>1, <1>2
  <2>2. c[0] = WordsLeft(0, S)[0 + 1]
    BY <2>1
  <2>. QED BY <1>4, <2>1, <2>2
<1>7. ASSUME NEW k \in 0 .. n - 1, k \in P
      PROVE  k + 1 \in P
  <2>1. k + 1 \in DOMAIN Ops /\ (k + 1) - 1 = k /\ k + 1 \in 0 .. n /\ k \in 0 .. n /\ 0 \in 0 .. m - 1
    BY <1>1, <1>2
  <2>2. \A j \in 0 .. m - 1 : WordsLeft(k + 1, S)[j + 1] = IF goes(k + 1) THEN c[k] + 1 ELSE c[k]
    BY <1>5, <1>7, <2>1
  <2>3. c[k + 1] = WordsLeft(k + 1, S)[0 + 1]
    BY <2>1
  <2>4. \A j \in 0 .. m - 1 : WordsLeft(k + 1, S)[j + 1] = c[k + 1]
    BY <2>1, <2>2, <2>3
  <2>. QED BY <2>1, <2>4
<1>8. \A q \in 0 .. n : q \in P
  <2> HIDE DEF P
  <2>. QED BY <1>1, <1>6, <1>7, Upto
<1>9. c \in [0 .. n -> Nat]
  <2>1. 0 \in 0 .. m - 1
    BY <1>2
  <2>2. \A q \in 0 .. n : WordsLeft(q, S)[0 + 1] \in Nat
    BY <1>3, <2>1
  <2>. QED BY <2>2
<1>10. ASSUME NEW q \in DOMAIN Ops
       PROVE  IF goes(q) THEN c[q] = c[q - 1] + 1 ELSE c[q] = c[q - 1]
  <2>1. q \in 0 .. n /\ q - 1 \in 0 .. n /\ 0 \in 0 .. m - 1
    BY <1>1, <1>2
  <2>2. c[q] = WordsLeft(q, S)[0 + 1] /\ c[q - 1] = WordsLeft(q - 1, S)[0 + 1]
    BY <2>1
  <2> HIDE DEF c
  <2>. QED BY <1>5, <2>1, <2>2
<1>11. FlagCount(S, c)
  <2>1. \A q \in 0 .. n : \A j \in 0 .. m - 1 : WordsLeft(q, S)[j + 1] = c[q]
    BY <1>8
  <2> HIDE DEF c
  <2>. QED BY <1>2, <1>9, <1>10, <2>1 DEF FlagCount, goes
<1>. QED BY Zenon, <1>11

\* A flag raised by a barrier was lower at every level before it.
LEMMA FlagsRise ==
  ASSUME HostInv, InCall, NEW r \in DOMAIN Ops, Ops[r].op = "barrier", NEW S \in bufs,
         S.addr = args[Ops[r].scr], NEW c, FlagCount(S, c), NEW q \in 0 .. r - 1
  PROVE  c[q] < c[r]
<1>1. PICK n \in Nat : n = Len(Ops) /\ DOMAIN Ops = 1 .. n
  BY Zenon, OpsFacts
<1>2. /\ c \in [0 .. n -> Nat] /\ \A x \in 1 .. n : c[x] = c[x - 1] \/ c[x] = c[x - 1] + 1
      /\ c[r] = c[r - 1] + 1
  BY <1>1 DEF FlagCount
<1> DEFINE P == {k \in 0 .. (r - 1) - q : c[q] <= c[q + k]}
<1>3. r \in 1 .. n /\ q \in 0 .. n /\ (r - 1) - q \in Nat /\ q + ((r - 1) - q) = r - 1 /\ r - 1 \in 0 .. n
  BY <1>1
<1>4. 0 \in P
  BY <1>2, <1>3
<1>5. ASSUME NEW k \in 0 .. ((r - 1) - q) - 1, k \in P
      PROVE  k + 1 \in P
  <2>1. q + (k + 1) \in 1 .. n /\ (q + (k + 1)) - 1 = q + k /\ k + 1 \in 0 .. (r - 1) - q
        /\ q + k \in 0 .. n /\ q + (k + 1) \in 0 .. n
    BY <1>3
  <2>2. PICK x \in Nat, y \in Nat, z \in Nat : x = c[q] /\ y = c[q + k] /\ z = c[q + (k + 1)]
    BY <1>2, <1>3, <2>1
  <2>3. x <= y /\ (z = y \/ z = y + 1)
    BY <1>2, <1>5, <2>1, <2>2
  <2>4. x <= z
    BY <2>3
  <2>. QED BY <2>1, <2>2, <2>4
<1>6. (r - 1) - q \in P
  <2>1. \A k \in 0 .. (r - 1) - q : k \in P
    <3> HIDE DEF P
    <3>. QED BY <1>3, <1>4, <1>5, Upto
  <2>2. (r - 1) - q \in 0 .. (r - 1) - q
    BY <1>3
  <2>. QED BY <2>1, <2>2
<1>7. PICK x \in Nat, y \in Nat : x = c[q] /\ y = c[r - 1] /\ x <= y /\ c[r] = y + 1
  BY <1>2, <1>3, <1>6
<1>. QED BY <1>7

-----------------------------------------------------------------------------
(* How far a word is *)

PlaceType == [at : Nat \ {0}, i : Nat, w : Nat]

\* How many operations are behind a word, by the operation its thread is at.
LEMMA LevelCases ==
  ASSUME HostInv, InCall, NEW place \in PlaceType, NEW j
  PROVE  LET p == place.at l == Level(place, j)
         IN  /\ l \in 0 .. Len(Ops)
             /\ p \notin DOMAIN Ops => l = Len(Ops) /\ p > Len(Ops)
             /\ p \in DOMAIN Ops /\ Ops[p].op \notin {"add", "barrier"} => l = p - 1
             /\ p \in DOMAIN Ops /\ Ops[p].op = "add" => l = IF j < place.i THEN p ELSE p - 1
             /\ p \in DOMAIN Ops /\ Ops[p].op = "barrier" => l = IF place.w > 0 THEN p ELSE p - 1
<1>1. PICK n \in Nat, p \in Nat \ {0} : n = Len(Ops) /\ DOMAIN Ops = 1 .. n /\ p = place.at
  BY Zenon, OpsFacts DEF PlaceType
<1>2. Level(place, j) =
        IF p > n \/ (Ops[p].op = "add" /\ j < place.i) \/ (Ops[p].op = "barrier" /\ place.w > 0)
        THEN IF p > n THEN n ELSE p ELSE p - 1
  BY Zenon, <1>1 DEF Level
<1>3. p \in DOMAIN Ops <=> ~(p > n)
  BY <1>1
<1>4. CASE p > n
  <2>1. Level(place, j) = n /\ n \in 0 .. n
    BY <1>2, <1>4
  <2>. QED BY <1>1, <1>3, <1>4, <2>1
<1>5. CASE ~(p > n)
  <2>1. p \in 0 .. n /\ p - 1 \in 0 .. n
    BY <1>5
  <2>2. Level(place, j) =
          IF (Ops[p].op = "add" /\ j < place.i) \/ (Ops[p].op = "barrier" /\ place.w > 0) THEN p ELSE p - 1
    BY Zenon, <1>2, <1>5
  <2>. QED BY <1>1, <1>3, <1>5, <2>1, <2>2
<1>. QED BY <1>4, <1>5

\* A thread that steps to the next operation has its words behind it.
LEMMA NextLevel ==
  ASSUME HostInv, InCall, NEW t \in Tids, NEW j \in Nat, j % NTHREADS = t,
         NEW p \in Nat \ {0}, NEW place \in PlaceType, place.at = p + 1, place.i = t, place.w = 0
  PROVE  Level(place, j) = IF p \in DOMAIN Ops THEN p ELSE Len(Ops)
<1>1. PICK n \in Nat : n = Len(Ops) /\ DOMAIN Ops = 1 .. n
  BY Zenon, OpsFacts
<1>2. ~(j < t)
  <2>1. PICK m \in Nat \ {0} : m = NTHREADS /\ t \in 0 .. m - 1
    BY Areas
  <2>2. j < m => j % m = j
    OBVIOUS
  <2>. QED BY <2>1, <2>2
<1> DEFINE l == Level(place, j)
<1>3. /\ p + 1 \notin DOMAIN Ops => l = n
      /\ p + 1 \in DOMAIN Ops /\ Ops[p + 1].op \notin {"add", "barrier"} => l = (p + 1) - 1
      /\ p + 1 \in DOMAIN Ops /\ Ops[p + 1].op = "add" => l = IF j < t THEN p + 1 ELSE (p + 1) - 1
      /\ p + 1 \in DOMAIN Ops /\ Ops[p + 1].op = "barrier" => l = IF 0 > 0 THEN p + 1 ELSE (p + 1) - 1
  BY <1>1, LevelCases
<1> HIDE DEF l
<1>4. (p + 1) - 1 = p /\ ~(0 > 0)
  OBVIOUS
<1>5. p + 1 \in DOMAIN Ops => l = p /\ p \in DOMAIN Ops
  <2>1. p + 1 \in DOMAIN Ops => p \in DOMAIN Ops
    BY <1>1
  <2>. QED BY Zenon, <1>2, <1>3, <1>4, <2>1
<1>6. p + 1 \notin DOMAIN Ops => l = n /\ (p \in DOMAIN Ops => p = n)
  BY <1>1, <1>3
<1>. QED BY <1>1, <1>5, <1>6 DEF l

\* What the device's steps leave: the kernel's operations and their effects.
LEMMA SameWords ==
  ASSUME host' = host
  PROVE  /\ Ops' = Ops /\ HeldAfter(Ops)' = HeldAfter(Ops) /\ bufs' = bufs /\ args' = args /\ call' = call
         /\ InCall' <=> InCall
<1>1. bufs' = bufs /\ args' = args /\ call' = call
  BY DEF host
<1>2. Ops' = Ops
  BY <1>1 DEF Ops
<1>3. HeldAfter(Ops)' = HeldAfter(Ops)
  BY <1>1, <1>2 DEF HeldAfter, Effect, Result, WordsAt, Total
<1>4. InCall' <=> InCall
  BY <1>1 DEF InCall
<1>. QED BY <1>1, <1>2, <1>3, <1>4

\* The words of the thread that steps are as its new place leaves them.
Carries(t) ==
  \A b \in bufs : \A j \in 0 .. Len(b.words) - 1 :
    IF j % NTHREADS = t THEN mem'[b.addr + j] = WordsLeft(Level(thread'[t], j), b)[j + 1]
    ELSE mem'[b.addr + j] = mem[b.addr + j]

\* What the stepping thread carries keeps every word on track.
LEMMA CarriesOn ==
  ASSUME HostInv, Computing, NEW t \in Tids, ThreadMoves(t), Carries(t)
  PROVE  Computing'
<1>1. host' = host /\ \A u \in Tids : u # t => thread'[u] = thread[u]
  BY DEF ThreadMoves
<1>2. Ops' = Ops /\ HeldAfter(Ops)' = HeldAfter(Ops) /\ bufs' = bufs
  BY <1>1, SameWords
<1>3. ASSUME NEW b \in bufs, NEW j \in 0 .. Len(b.words) - 1
      PROVE  mem'[b.addr + j] = WordsLeft(Level(thread'[j % NTHREADS], j), b)[j + 1]
  <2>1. j % NTHREADS \in Tids
    <3>1. j \in Int /\ NTHREADS \in Nat \ {0} /\ Tids = 0 .. NTHREADS - 1
      BY Areas
    <3>. QED BY <3>1, Quotient
  <2>2. CASE j % NTHREADS = t
    BY Zenon, <2>2 DEF Carries
  <2>3. CASE j % NTHREADS # t
    <3>1. mem'[b.addr + j] = mem[b.addr + j] /\ thread'[j % NTHREADS] = thread[j % NTHREADS]
      BY Zenon, <1>1, <2>1, <2>3 DEF Carries
    <3>2. mem[b.addr + j] = WordsLeft(Level(thread[j % NTHREADS], j), b)[j + 1]
      BY Zenon DEF Computing
    <3>. QED BY Zenon, <3>1, <3>2
  <2>. QED BY <2>2, <2>3
<1>4. ASSUME NEW b \in bufs, NEW j \in 0 .. Len(b.words) - 1
      PROVE  mem'[b.addr + j] = WordsAt(HeldAfter(Ops)'[Level(thread[j % NTHREADS], j)'], b.addr)[j + 1]
  <2>1. Level(thread[j % NTHREADS], j)' = Level(thread'[j % NTHREADS], j)
    BY <1>2 DEF Level
  <2>2. \A l : WordsAt(HeldAfter(Ops)'[l], b.addr) = WordsLeft(l, b)
    BY <1>2 DEF WordsLeft
  <2>3. WordsAt(HeldAfter(Ops)'[Level(thread[j % NTHREADS], j)'], b.addr) = WordsLeft(Level(thread'[j % NTHREADS], j), b)
    BY Zenon, <2>1, <2>2
  <2>. QED BY Zenon, <1>3, <2>3
<1>. QED BY Zenon, <1>2, <1>4 DEF Computing, WordsLeft, WordsAt

\* A step past an operation that is none on buffers
LEMMA PassesOn ==
  ASSUME HostInv, InCall, Computing, NEW t \in Tids, ThreadMoves(t),
         thread[t].at \in DOMAIN Ops => ~DataOp(Ops[thread[t].at]),
         Goes(t, thread[t].at + 1, t, 0), \A x \in HEAP_BASE .. HEAP_END - 1 : mem'[x] = mem[x]
  PROVE  Carries(t)
<1>1. PICK n \in Nat : n = Len(Ops) /\ DOMAIN Ops = 1 .. n
  BY Zenon, OpsFacts
<1>2. thread[t] \in PlaceType /\ thread'[t] \in PlaceType
  BY Zenon DEF HostInv, HostType, ThreadMoves, PlaceType
<1>3. PICK p \in Nat \ {0} : p = thread[t].at
  BY <1>2 DEF PlaceType
<1>4. thread'[t].at = p + 1 /\ thread'[t].i = t /\ thread'[t].w = 0
  BY <1>3 DEF Goes
<1>5. ASSUME NEW b \in bufs, NEW j \in 0 .. Len(b.words) - 1
      PROVE  mem'[b.addr + j] = mem[b.addr + j]
  BY Zenon, <1>5, InHeap
<1>6. ASSUME NEW b \in bufs, NEW j \in 0 .. Len(b.words) - 1, j % NTHREADS = t
      PROVE  mem'[b.addr + j] = WordsLeft(Level(thread'[t], j), b)[j + 1]
  <2>1. mem[b.addr + j] = WordsLeft(Level(thread[t], j), b)[j + 1]
    BY Zenon, <1>6 DEF Computing
  <2>2. j \in Nat
    OBVIOUS
  <2>3. Level(thread'[t], j) = IF p \in DOMAIN Ops THEN p ELSE Len(Ops)
    BY <1>2, <1>4, <1>6, <2>2, NextLevel
  <2>4. WordsLeft(Level(thread'[t], j), b) = WordsLeft(Level(thread[t], j), b)
    <3>1. CASE p \in DOMAIN Ops
      <4>1. Level(thread[t], j) = p - 1
        BY <1>2, <1>3, <3>1, LevelCases DEF DataOp
      <4>2. WordsLeft(p, b) = WordsLeft(p - 1, b)
        BY <1>3, <3>1, OtherWords
      <4>. QED BY <2>3, <3>1, <4>1, <4>2
    <3>2. CASE p \notin DOMAIN Ops
      <4>1. Level(thread[t], j) = Len(Ops)
        BY <1>2, <1>3, <3>2, LevelCases
      <4>. QED BY <2>3, <3>2, <4>1
    <3>. QED BY <3>1, <3>2
  <2>. QED BY Zenon, <1>5, <2>1, <2>4
<1>. QED BY Zenon, <1>5, <1>6 DEF Carries

\* The place of a thread in a data operation
LEMMA DataPlace ==
  ASSUME KernelsRaceFree, HostInv, NEW t \in Tids, Running(t), DataOp(Op(t))
  PROVE  /\ InCall /\ thread[t] \in PlaceType /\ thread[t].at \in DOMAIN Ops /\ Op(t) = Ops[thread[t].at]
         /\ OpHeld(Op(t))
<1>1. InCall /\ thread[t].at \in DOMAIN Script(t) /\ Op(t) = Script(t)[thread[t].at] /\ OpHeld(Op(t))
  BY Running_
<1>2. thread[t].at \in DOMAIN Ops /\ Ops[thread[t].at] = Script(t)[thread[t].at]
  BY <1>1, RaceFacts DEF SameOps
<1>3. thread[t] \in PlaceType
  BY Zenon DEF HostInv, HostType, PlaceType
<1>. QED BY Zenon, <1>1, <1>2, <1>3

\* A thread past its script, or at another operation, is at none on buffers.
LEMMA OtherPlace ==
  ASSUME KernelsRaceFree, HostInv, InCall, NEW t \in Tids,
         thread[t].at \in DOMAIN Script(t) => ~DataOp(Script(t)[thread[t].at])
  PROVE  thread[t].at \in DOMAIN Ops => ~DataOp(Ops[thread[t].at])
<1>1. SameOps
  BY RaceFacts
<1>. QED BY Zenon, <1>1 DEF SameOps

\* Two words at one address are one word.
LEMMA WordsApart ==
  ASSUME HostInv, NEW b \in bufs, NEW c \in bufs, NEW j \in 0 .. Len(b.words) - 1, NEW k \in 0 .. Len(c.words) - 1,
         b.addr + j = c.addr + k
  PROVE  b = c /\ j = k
<1>1. b = c \/ b.addr + Len(b.words) <= c.addr \/ c.addr + Len(c.words) <= b.addr
  BY Zenon DEF HostInv, BuffersApart
<1>2. PICK x \in Nat, y \in Nat, m \in Nat, n \in Nat : x = b.addr /\ y = c.addr /\ m = Len(b.words) /\ n = Len(c.words)
  BY BuffersNamed
<1>3. x + j = y + k /\ j \in 0 .. m - 1 /\ k \in 0 .. n - 1
  BY <1>2
<1>4. ~(x + m <= y) /\ ~(y + n <= x)
  BY <1>3
<1>5. b = c
  BY Zenon, <1>1, <1>2, <1>4
<1>6. x = y
  BY <1>2, <1>5
<1>. QED BY <1>3, <1>5, <1>6

\* A stride over the words of a thread passes one of them.
LEMMA OneStride ==
  ASSUME NEW m \in Nat \ {0}, NEW i \in Nat, NEW j \in Nat, j % m = i % m
  PROVE  j < i + m <=> j < i \/ j = i
<1>1. ASSUME j < i + m, ~(j < i), j # i
      PROVE  FALSE
  <2>1. PICK k \in 1 .. m - 1 : j = i + k
    <3>1. j - i \in 1 .. m - 1 /\ j = i + (j - i)
      BY <1>1
    <3>. QED BY <3>1
  <2>2. (i + k) % m # i % m
    <3>1. i \in Int
      OBVIOUS
    <3>. QED BY Zenon, <3>1, RemaindersDiffer
  <2>. QED BY <2>1, <2>2
<1>. QED BY <1>1

\* The words of a buffer are words of the memory.
LEMMA InDomain ==
  ASSUME HostInv, NEW b \in bufs, NEW j \in 0 .. Len(b.words) - 1
  PROVE  b.addr + j \in DOMAIN mem
<1>1. b.addr + j \in HEAP_BASE .. HEAP_END - 1
  BY InHeap
<1>2. DOMAIN mem = 0 .. HEAP_END - 1
  BY Zenon DEF HostInv, HostType
<1>. QED BY <1>1, <1>2, Areas

\* A round of the sum carries its word over the operation.
LEMMA AddCarries ==
  ASSUME KernelsRaceFree, HostInv, Computing, Striding, NEW t \in Tids, Add(t)
  PROVE  Carries(t)
<1>1. /\ ThreadMoves(t) /\ Running(t) /\ Op(t).op = "add"
      /\ \E A, B, C \in bufs, n \in Nat : AddStep(t, A, B, C, n)
  BY Zenon, AddFacts
<1>2. PICK A \in bufs, B \in bufs, C \in bufs, n \in Nat : AddStep(t, A, B, C, n)
  BY Zenon, <1>1
<1>3. InCall /\ thread[t] \in PlaceType /\ thread[t].at \in DOMAIN Ops /\ Op(t) = Ops[thread[t].at]
  BY <1>1, DataPlace DEF DataOp
<1>4. thread'[t] \in PlaceType
  BY Zenon, <1>1 DEF ThreadMoves, PlaceType
<1>5. PICK p \in Nat \ {0}, i \in Nat : p = thread[t].at /\ i = thread[t].i /\ p \in DOMAIN Ops /\ Op(t) = Ops[p]
  BY <1>3 DEF PlaceType
<1>6. NTHREADS \in Nat \ {0} /\ i % NTHREADS = t
  BY <1>5, Areas DEF Striding
<1>7. /\ A.addr = args[Ops[p].a] /\ B.addr = args[Ops[p].b] /\ C.addr = args[Ops[p].c] /\ n = args[Ops[p].n]
      /\ n <= Len(A.words) /\ n <= Len(B.words) /\ n <= Len(C.words) /\ Ops[p].op = "add"
  BY Zenon, <1>1, <1>2, <1>5 DEF AddStep
<1>8. \A b \in bufs : \A j \in 0 .. Len(b.words) - 1 :
        WordsLeft(p, b)[j + 1] =
          IF b = C /\ j < n THEN (WordsLeft(p - 1, A)[j + 1] + WordsLeft(p - 1, B)[j + 1]) % Modulus
          ELSE WordsLeft(p - 1, b)[j + 1]
  <2>1. Sums(p, A, B, C, n)
    BY <1>7 DEF Sums
  <2>2. InCall /\ p \in DOMAIN Ops
    BY <1>3, <1>5
  <2>3. Summed(p, A, B, C, n)
    BY <2>1, <2>2, AddWords
  <2>. QED BY <2>3 DEF Summed
<1>9. \A b \in bufs : \A j \in 0 .. Len(b.words) - 1 : j % NTHREADS = t =>
        mem[b.addr + j] = IF j < i THEN WordsLeft(p, b)[j + 1] ELSE WordsLeft(p - 1, b)[j + 1]
  <2> TAKE b \in bufs
  <2> TAKE j \in 0 .. Len(b.words) - 1
  <2> HAVE j % NTHREADS = t
  <2>1. mem[b.addr + j] = WordsLeft(Level(thread[t], j), b)[j + 1]
    BY Zenon DEF Computing
  <2>2. Level(thread[t], j) = IF j < i THEN p ELSE p - 1
    BY <1>3, <1>5, <1>7, LevelCases
  <2>. QED BY <2>1, <2>2
<1>10. \A b \in bufs : Len(b.words) \in Nat
  BY BuffersNamed
<1>11. CASE Goes(t, p, i + NTHREADS, thread[t].w)
  <2>1. \A j \in Nat : Level(thread'[t], j) = IF j < i + NTHREADS THEN p ELSE p - 1
    BY <1>3, <1>4, <1>5, <1>7, <1>11, LevelCases DEF Goes
  <2>2. \A j \in Nat : j % NTHREADS = t => (j < i + NTHREADS <=> j < i \/ j = i)
    BY <1>6, OneStride
  <2>3. CASE i < n /\ mem' = [mem EXCEPT ![C.addr + i] = (mem[A.addr + i] + mem[B.addr + i]) % Modulus]
    <3>1. /\ i \in 0 .. Len(A.words) - 1 /\ i \in 0 .. Len(B.words) - 1 /\ i \in 0 .. Len(C.words) - 1
          /\ ~(i < i)
      BY <1>7, <1>10, <2>3
    <3>2. mem[A.addr + i] = WordsLeft(p - 1, A)[i + 1] /\ mem[B.addr + i] = WordsLeft(p - 1, B)[i + 1]
      BY Zenon, <1>6, <1>9, <3>1
    <3>3. WordsLeft(p, C)[i + 1] = (mem[A.addr + i] + mem[B.addr + i]) % Modulus
      BY Zenon, <1>8, <2>3, <3>1, <3>2
    <3>4. C.addr + i \in DOMAIN mem
      BY <3>1, InDomain
    <3>5. mem'[C.addr + i] = WordsLeft(p, C)[i + 1] /\ \A x \in DOMAIN mem : x # C.addr + i => mem'[x] = mem[x]
      BY <2>3, <3>3, <3>4
    <3>6. ASSUME NEW b \in bufs, NEW j \in 0 .. Len(b.words) - 1
          PROVE  IF j % NTHREADS = t THEN mem'[b.addr + j] = WordsLeft(Level(thread'[t], j), b)[j + 1]
                 ELSE mem'[b.addr + j] = mem[b.addr + j]
      <4>1. j \in Nat
        OBVIOUS
      <4>2. CASE b = C /\ j = i
        <5>1. Level(thread'[t], j) = p
          BY <1>6, <2>1, <2>2, <4>1, <4>2
        <5>. QED BY <1>6, <3>5, <4>2, <5>1
      <4>3. CASE ~(b = C /\ j = i)
        <5>1. mem'[b.addr + j] = mem[b.addr + j]
          <6>1. b.addr + j # C.addr + i
            BY ZenonT(40), <3>1, <4>3, WordsApart
          <6>2. b.addr + j \in DOMAIN mem
            BY InDomain
          <6>. QED BY <3>5, <6>1, <6>2
        <5>2. ASSUME j % NTHREADS = t
              PROVE  mem[b.addr + j] = WordsLeft(Level(thread'[t], j), b)[j + 1]
          <6>1. CASE j = i
            <7>1. Level(thread'[t], j) = p
              BY <2>1, <2>2, <4>1, <5>2, <6>1
            <7>2. mem[b.addr + j] = WordsLeft(p - 1, b)[j + 1]
              BY Zenon, <1>9, <3>1, <5>2, <6>1
            <7>3. WordsLeft(p, b)[j + 1] = WordsLeft(p - 1, b)[j + 1]
              BY Zenon, <1>8, <4>3, <6>1
            <7>. QED BY <7>1, <7>2, <7>3
          <6>2. CASE j # i
            <7>1. Level(thread'[t], j) = IF j < i THEN p ELSE p - 1
              BY <2>1, <2>2, <4>1, <5>2, <6>2
            <7>. QED BY <1>9, <5>2, <7>1
          <6>. QED BY <6>1, <6>2
        <5>. QED BY <5>1, <5>2
      <4>. QED BY <4>2, <4>3
    <3>. QED BY Zenon, <3>6 DEF Carries
  <2>4. CASE n <= i /\ mem' = mem
    <3>1. ASSUME NEW b \in bufs, NEW j \in 0 .. Len(b.words) - 1, j % NTHREADS = t
          PROVE  mem[b.addr + j] = WordsLeft(Level(thread'[t], j), b)[j + 1]
      <4>1. j \in Nat
        OBVIOUS
      <4>2. Level(thread'[t], j) = IF j < i \/ j = i THEN p ELSE p - 1
        BY <2>1, <2>2, <3>1, <4>1
      <4>3. mem[b.addr + j] = IF j < i THEN WordsLeft(p, b)[j + 1] ELSE WordsLeft(p - 1, b)[j + 1]
        BY <1>9, <3>1
      <4>4. j = i => WordsLeft(p, b)[j + 1] = WordsLeft(p - 1, b)[j + 1]
        <5>1. j = i => ~(j < n)
          BY <2>4
        <5>. QED BY <1>8, <5>1
      <4>. QED BY <4>2, <4>3, <4>4
    <3>. QED BY Zenon, <2>4, <3>1 DEF Carries
  <2>5. \/ i < n /\ mem' = [mem EXCEPT ![C.addr + i] = (mem[A.addr + i] + mem[B.addr + i]) % Modulus]
        \/ n <= i /\ mem' = mem
    BY Zenon, <1>2, <1>5 DEF AddStep
  <2>. QED BY <2>3, <2>4, <2>5
<1>12. CASE n <= i /\ mem' = mem /\ Goes(t, p + 1, t, 0)
  <2>1. ASSUME NEW b \in bufs, NEW j \in 0 .. Len(b.words) - 1, j % NTHREADS = t
        PROVE  mem[b.addr + j] = WordsLeft(Level(thread'[t], j), b)[j + 1]
    <3>1. j \in Nat /\ thread'[t].at = p + 1 /\ thread'[t].i = t /\ thread'[t].w = 0
      BY <1>12 DEF Goes
    <3>2. Level(thread'[t], j) = p
      BY <1>3, <1>4, <1>5, <2>1, <3>1, NextLevel
    <3>3. mem[b.addr + j] = IF j < i THEN WordsLeft(p, b)[j + 1] ELSE WordsLeft(p - 1, b)[j + 1]
      BY <1>9, <2>1
    <3>4. ~(j < i) => WordsLeft(p, b)[j + 1] = WordsLeft(p - 1, b)[j + 1]
      <4>1. ~(j < i) => ~(j < n)
        BY <1>12
      <4>. QED BY <1>8, <4>1
    <3>. QED BY <3>2, <3>3, <3>4
  <2>. QED BY Zenon, <1>12, <2>1 DEF Carries
<1>13. \/ Goes(t, p, i + NTHREADS, thread[t].w) \/ (n <= i /\ mem' = mem /\ Goes(t, p + 1, t, 0))
  BY Zenon, <1>2, <1>5 DEF AddStep
<1>. QED BY <1>11, <1>12, <1>13

\* The words of a thread in a barrier: its flag and its phase
LEMMA OwnFlags ==
  ASSUME NEW t \in Tids, NEW j \in 0 .. 2 * NTHREADS - 1
  PROVE  j % NTHREADS = t <=> j = t \/ j = NTHREADS + t
<1>1. PICK m \in Nat \ {0} : m = NTHREADS /\ t \in 0 .. m - 1
  BY Areas
<1>2. t % m = t
  BY <1>1
<1>3. (m + t) % m = t
  <2>1. m + t = m * 1 + t
    BY <1>1
  <2>. QED BY <1>1, <2>1, Remainder
<1>4. ASSUME j % m = t
      PROVE  j = t \/ j = m + t
  <2>1. CASE j < m
    <3>1. j % m = j
      BY <1>1, <2>1
    <3>. QED BY <1>4, <3>1
  <2>2. CASE ~(j < m)
    <3>1. j - m \in 0 .. m - 1 /\ j = m * 1 + (j - m)
      BY <1>1, <2>2
    <3>2. j % m = j - m
      BY <3>1, Remainder
    <3>. QED BY <1>1, <1>4, <3>2
  <2>. QED BY <2>1, <2>2
<1>. QED BY <1>1, <1>2, <1>3, <1>4

\* An arrival carries the flag and the phase of its thread over the barrier.
LEMMA ArriveCarries ==
  ASSUME KernelsRaceFree, HostInv, Computing, Striding, NEW t \in Tids, Arrive(t)
  PROVE  Carries(t)
<1>1. ThreadMoves(t) /\ Running(t) /\ Op(t).op = "barrier" /\ \E S \in bufs : ArriveStep(t, S)
  BY Zenon, ArriveFacts
<1>2. PICK S \in bufs : ArriveStep(t, S)
  BY Zenon, <1>1
<1>3. InCall /\ thread[t] \in PlaceType /\ thread[t].at \in DOMAIN Ops /\ Op(t) = Ops[thread[t].at] /\ OpHeld(Op(t))
  BY <1>1, DataPlace DEF DataOp
<1>4. thread'[t] \in PlaceType
  BY Zenon, <1>1 DEF ThreadMoves, PlaceType
<1>5. PICK p \in Nat \ {0} : p = thread[t].at /\ p \in DOMAIN Ops /\ Op(t) = Ops[p] /\ Ops[p].op = "barrier"
  BY <1>1, <1>3 DEF PlaceType
<1>6. S.addr = args[Ops[p].scr] /\ Len(S.words) = 2 * NTHREADS
  BY Zenon, <1>2, <1>5 DEF ArriveStep, Flags
<1>7. \A x \in DOMAIN S.words : S.words[x] = 0
  <2>1. PICK b \in bufs : b.addr = args[Ops[p].scr] /\ \A x \in DOMAIN b.words : b.words[x] = 0
    BY <1>3, <1>5 DEF OpHeld
  <2>2. b = S
    BY <1>6, <2>1, BuffersNamed
  <2>. QED BY <2>1, <2>2
<1>8. PICK c : FlagCount(S, c)
  BY <1>3, <1>5, <1>6, <1>7, FlagsCount
<1>9. \A j \in Nat : Level(thread[t], j) = p - 1 /\ Level(thread'[t], j) = p
  <2>1. thread[t].w = 0 /\ thread'[t].at = p /\ thread'[t].w = 1
    BY Zenon, <1>2, <1>5 DEF ArriveStep, Goes
  <2>2. ~(0 > 0) /\ 1 > 0
    OBVIOUS
  <2>. QED BY <1>3, <1>4, <1>5, <2>1, <2>2, LevelCases
<1>10. PICK m \in Nat \ {0}, a \in Nat : m = NTHREADS /\ a = S.addr /\ t \in 0 .. m - 1
  BY BuffersNamed, Areas
<1>11. p - 1 \in 0 .. Len(Ops)
  BY <1>5, OpsFacts
<1>12. \A j \in 0 .. 2 * m - 1 : WordsLeft(p - 1, S)[j + 1] = c[p - 1] /\ WordsLeft(p, S)[j + 1] = c[p - 1] + 1
  <2> TAKE j \in 0 .. 2 * m - 1
  <2>1. j \in 0 .. Len(S.words) - 1
    BY <1>6, <1>10
  <2>2. WordsLeft(p - 1, S)[j + 1] = c[p - 1]
    BY Zenon, <1>8, <1>11, <2>1 DEF FlagCount
  <2>3. WordsLeft(p, S)[j + 1] = WordsLeft(p - 1, S)[j + 1] + 1
    BY <1>3, <1>5, <1>6, <2>1, BarrierWords
  <2>. QED BY <2>2, <2>3
<1>13. \A b \in bufs : \A j \in 0 .. Len(b.words) - 1 : j % NTHREADS = t => mem[b.addr + j] = WordsLeft(p - 1, b)[j + 1]
  <2> TAKE b \in bufs
  <2> TAKE j \in 0 .. Len(b.words) - 1
  <2> HAVE j % NTHREADS = t
  <2>1. mem[b.addr + j] = WordsLeft(Level(thread[t], j), b)[j + 1]
    BY Zenon DEF Computing
  <2>. QED BY <1>9, <2>1
<1>14. /\ m + t \in 0 .. Len(S.words) - 1 /\ t \in 0 .. Len(S.words) - 1
       /\ m + t \in 0 .. 2 * NTHREADS - 1 /\ t \in 0 .. 2 * NTHREADS - 1 /\ m + t \in 0 .. 2 * m - 1
       /\ a + m + t = a + (m + t) /\ a + (m + t) # a + t
  BY <1>6, <1>10
<1>15. mem[a + (m + t)] = c[p - 1]
  <2>1. (m + t) % NTHREADS = t
    BY <1>10, <1>14, OwnFlags
  <2>2. mem[S.addr + (m + t)] = WordsLeft(p - 1, S)[(m + t) + 1]
    BY Zenon, <1>13, <1>14, <2>1
  <2>. QED BY Zenon, <1>10, <1>12, <1>14, <2>2
<1>16. mem' = [mem EXCEPT ![a + (m + t)] = c[p - 1] + 1, ![a + t] = c[p - 1] + 1]
  <2>1. mem' = [mem EXCEPT ![S.addr + NTHREADS + t] = mem[S.addr + NTHREADS + t] + 1,
                           ![S.addr + t] = mem[S.addr + NTHREADS + t] + 1]
    BY Zenon, <1>2 DEF ArriveStep
  <2>2. S.addr + NTHREADS + t = a + (m + t) /\ S.addr + t = a + t
    BY <1>10, <1>14
  <2>. QED BY <1>15, <2>1, <2>2
<1>17. a + (m + t) \in DOMAIN mem /\ a + t \in DOMAIN mem
  <2>1. S.addr + (m + t) \in HEAP_BASE .. HEAP_END - 1 /\ S.addr + t \in HEAP_BASE .. HEAP_END - 1
    BY Zenon, <1>14, InHeap
  <2>2. DOMAIN mem = 0 .. HEAP_END - 1
    BY Zenon DEF HostInv, HostType
  <2>3. HEAP_BASE .. HEAP_END - 1 \subseteq 0 .. HEAP_END - 1
    BY Areas
  <2>. QED BY <1>10, <2>1, <2>2, <2>3
<1>18. /\ mem'[a + (m + t)] = c[p - 1] + 1 /\ mem'[a + t] = c[p - 1] + 1
       /\ \A x \in DOMAIN mem : x # a + (m + t) /\ x # a + t => mem'[x] = mem[x]
  <2>1. PICK x \in DOMAIN mem, y \in DOMAIN mem, v \in {c[p - 1] + 1} : x = a + (m + t) /\ y = a + t /\ v = c[p - 1] + 1
    BY <1>17
  <2>2. mem' = [mem EXCEPT ![x] = v, ![y] = v] /\ x # y
    BY <1>14, <1>16, <2>1
  <2>3. mem'[x] = v /\ mem'[y] = v /\ \A z \in DOMAIN mem : z # x /\ z # y => mem'[z] = mem[z]
    <3>1. mem = [z \in DOMAIN mem |-> mem[z]]
      BY Zenon DEF HostInv, HostType
    <3>2. mem' = [z \in DOMAIN mem |-> IF z = y THEN v ELSE IF z = x THEN v ELSE mem[z]]
      BY Zenon, <2>2
    <3>3. mem'[x] = v /\ mem'[y] = v
      BY <3>2
    <3>4. \A z \in DOMAIN mem : z # x /\ z # y => mem'[z] = mem[z]
      BY <3>1, <3>2
    <3>. QED BY <3>3, <3>4
  <2>. QED BY Zenon, <2>1, <2>3
<1>19. ASSUME NEW b \in bufs, NEW j \in 0 .. Len(b.words) - 1
       PROVE  IF j % NTHREADS = t THEN mem'[b.addr + j] = WordsLeft(Level(thread'[t], j), b)[j + 1]
              ELSE mem'[b.addr + j] = mem[b.addr + j]
  <2>1. j \in Nat /\ Level(thread'[t], j) = p
    BY <1>9
  <2>0. b.addr + j \in DOMAIN mem
    BY InDomain
  <2>2. CASE b = S
    <3>1. j \in 0 .. 2 * NTHREADS - 1 /\ j \in 0 .. 2 * m - 1
      BY <1>6, <1>10, <2>2
    <3>2. j % NTHREADS = t <=> j = t \/ j = m + t
      BY <1>10, <3>1, OwnFlags
    <3>3. CASE j % NTHREADS = t
      <4>1. mem'[b.addr + j] = c[p - 1] + 1
        BY <1>10, <1>18, <2>2, <3>2, <3>3
      <4>. QED BY <1>12, <2>1, <2>2, <3>1, <3>3, <4>1
    <3>4. CASE j % NTHREADS # t
      <4>1. a + j # a + (m + t) /\ a + j # a + t
        BY <1>10, <2>1, <3>2, <3>4
      <4>. QED BY <1>10, <1>18, <2>0, <2>2, <3>4, <4>1
    <3>. QED BY <3>3, <3>4
  <2>3. CASE b # S
    <3>1. b.addr + j # S.addr + (m + t) /\ b.addr + j # S.addr + t
      <4>1. b.addr + j # S.addr + (m + t)
        BY Zenon, <1>14, <2>3, WordsApart
      <4>2. ASSUME b.addr + j = S.addr + t
            PROVE  FALSE
        <5>0. PICK k \in 0 .. Len(S.words) - 1 : k = t
          BY <1>14
        <5>1. b = S
          BY Zenon, <4>2, <5>0, WordsApart
        <5>. QED BY <2>3, <5>1
      <4>. QED BY <4>1, <4>2
    <3>2. mem'[b.addr + j] = mem[b.addr + j]
      BY <1>10, <1>18, <2>0, <3>1
    <3>3. WordsLeft(p, b)[j + 1] = WordsLeft(p - 1, b)[j + 1]
      BY <1>3, <1>5, <1>6, <2>3, BarrierWords
    <3>. QED BY <1>13, <2>1, <3>2, <3>3
  <2>. QED BY <2>2, <2>3
<1>. QED BY Zenon, <1>19 DEF Carries

\* Past the last flag the thread's own words are those behind the barrier.
LEMMA PollCarries ==
  ASSUME KernelsRaceFree, HostInv, Computing, NEW t \in Tids, PollFlag(t)
  PROVE  Carries(t)
<1>1. ThreadMoves(t) /\ Running(t) /\ Op(t).op = "barrier" /\ \E S \in bufs : PollStep(t, S)
  BY Zenon, PollFlagFacts
<1>2. PICK S \in bufs : PollStep(t, S)
  BY Zenon, <1>1
<1>3. InCall /\ thread[t] \in PlaceType /\ thread[t].at \in DOMAIN Ops /\ Op(t) = Ops[thread[t].at]
  BY <1>1, DataPlace DEF DataOp
<1>4. thread'[t] \in PlaceType
  BY Zenon, <1>1 DEF ThreadMoves, PlaceType
<1>5. PICK p \in Nat \ {0}, w \in Nat \ {0} :
        p = thread[t].at /\ p \in DOMAIN Ops /\ Ops[p].op = "barrier" /\ w = thread[t].w
  BY <1>1, <1>2, <1>3 DEF PlaceType, PollStep
<1>6. \A j \in Nat : Level(thread[t], j) = p
  BY <1>3, <1>5, LevelCases
<1>7. \A j \in Nat : j % NTHREADS = t => Level(thread'[t], j) = p
  <2>1. CASE Goes(t, p, thread[t].i, w + 1)
    <3>1. thread'[t].at = p /\ thread'[t].w > 0
      BY <1>5, <2>1 DEF Goes
    <3>2. \A j \in Nat : Level(thread'[t], j) = IF thread'[t].w > 0 THEN p ELSE p - 1
      BY <1>3, <1>4, <1>5, <3>1, LevelCases
    <3>. QED BY <3>1, <3>2
  <2>2. CASE Goes(t, p + 1, t, 0)
    BY <1>3, <1>4, <1>5, <2>2, NextLevel DEF Goes
  <2>3. Goes(t, p, thread[t].i, w + 1) \/ Goes(t, p + 1, t, 0)
    BY Zenon, <1>2, <1>5 DEF PollStep
  <2>. QED BY <2>1, <2>2, <2>3
<1>8. mem' = mem
  BY <1>2 DEF PollStep
<1>9. ASSUME NEW b \in bufs, NEW j \in 0 .. Len(b.words) - 1, j % NTHREADS = t
      PROVE  mem[b.addr + j] = WordsLeft(Level(thread'[t], j), b)[j + 1]
  <2>1. mem[b.addr + j] = WordsLeft(Level(thread[t], j), b)[j + 1]
    BY Zenon, <1>9 DEF Computing
  <2>. QED BY <1>6, <1>7, <1>9, <2>1
<1>. QED BY Zenon, <1>8, <1>9 DEF Carries

\* Between the barriers around it, the source of a combination stays.
LEMMA SourceStill ==
  ASSUME KernelsRaceFree, HostInv, Met, Computing, Running(0), Op(0).op = "combine",
         NEW S \in bufs, S.addr = args[Op(0).src], Len(S.words) = Op(0).n
  PROVE  Get(mem, S.addr, Op(0).n) = WordsLeft(thread[0].at - 1, S)
<1>0. 0 \in Tids /\ \A u \in Tids : thread[u] \in PlaceType
  BY Zenon, Areas DEF HostInv, HostType, PlaceType
<1>1. InCall /\ thread[0].at \in DOMAIN Ops /\ Op(0) = Ops[thread[0].at] /\ OpsApart
  BY <1>0, DataPlace, RaceFacts DEF DataOp
<1>2. PICK n \in Nat : n = Len(Ops) /\ DOMAIN Ops = 1 .. n
  BY Zenon, <1>1, OpsFacts
<1>3. PICK p \in Nat \ {0} : p = thread[0].at /\ p \in 1 .. n /\ Ops[p].op = "combine" /\ S.addr = args[Ops[p].src]
  BY <1>0, <1>1, <1>2 DEF PlaceType
<1>4. PICK l \in Nat \ {0}, a \in Nat : l = Len(S.words) /\ l = Op(0).n /\ a = S.addr
  BY BuffersNamed
<1>5. ASSUME l > 1, NEW q \in DOMAIN Ops, WordsLeft(q, S) # WordsLeft(q - 1, S)
      PROVE  \E r \in DOMAIN Ops : Ops[r].op = "barrier" /\ ((p < r /\ r < q) \/ (q < r /\ r < p))
  <2>1. OpHeld(Ops[q])
    BY <1>1, OpsFacts
  <2>2. CASE Ops[q].op = "add"
    <3>1. CASE args[Ops[q].c] = S.addr
      BY <1>1, <1>2, <1>3, <2>2, <3>1 DEF OpsApart
    <3>2. CASE args[Ops[q].c] # S.addr
      <4>1. /\ \E A \in bufs : A.addr = args[Ops[q].a]
            /\ \E B \in bufs : B.addr = args[Ops[q].b]
            /\ \E C \in bufs : C.addr = args[Ops[q].c]
        BY <2>1, <2>2 DEF OpHeld
      <4>2. args[Ops[q].n] \in Nat
        <5>1. args \in Seq(Nat) /\ Ops[q].n \in DOMAIN args
          BY Zenon, <2>1, <2>2 DEF HostInv, HostType, OpHeld
        <5>. QED BY <5>1
      <4>3. PICK A \in bufs, B \in bufs, C \in bufs, k \in Nat : Sums(q, A, B, C, k)
        BY <2>2, <4>1, <4>2 DEF Sums
      <4>4. Summed(q, A, B, C, k) /\ S # C
        BY <1>1, <3>2, <4>3, AddWords DEF Sums
      <4>5. \A j \in 0 .. l - 1 : WordsLeft(q, S)[j + 1] = WordsLeft(q - 1, S)[j + 1]
        BY <1>4, <4>4 DEF Summed
      <4>6. q \in 0 .. n /\ q - 1 \in 0 .. n
        BY <1>2
      <4>7. /\ WordsLeft(q, S) \in Seq(Nat) /\ WordsLeft(q - 1, S) \in Seq(Nat)
            /\ Len(WordsLeft(q, S)) = l /\ Len(WordsLeft(q - 1, S)) = l
        BY <1>1, <1>2, <1>4, <4>6, WordsShape
      <4>8. \A k1 \in 1 .. l : k1 - 1 \in 0 .. l - 1 /\ (k1 - 1) + 1 = k1
        OBVIOUS
      <4>9. \A k1 \in 1 .. l : WordsLeft(q, S)[k1] = WordsLeft(q - 1, S)[k1]
        BY <4>5, <4>8
      <4>10. WordsLeft(q, S) = WordsLeft(q - 1, S)
        BY Zenon, <4>7, <4>9, SeqEqual
      <4>. QED BY <1>5, <4>10
    <3>. QED BY Zenon, <3>1, <3>2
  <2>3. CASE Ops[q].op = "combine"
    <3>1. PICK T \in bufs, D \in bufs : T.addr = args[Ops[q].src] /\ D.addr = args[Ops[q].dst] /\ Len(D.words) = 1
      BY <2>1, <2>3 DEF OpHeld
    <3>2. S # D
      <4>1. Len(S.words) # 1
        BY <1>4, <1>5
      <4>. QED BY <3>1, <4>1
    <3>3. WordsLeft(q, S) = WordsLeft(q - 1, S)
      BY <1>1, <2>3, <3>1, <3>2, CombineWords
    <3>. QED BY <1>5, <3>3
  <2>4. CASE Ops[q].op = "barrier"
    <3>1. args[Ops[q].scr] # S.addr
      BY <1>1, <1>2, <1>3, <2>4 DEF OpsApart
    <3>2. PICK T \in bufs : T.addr = args[Ops[q].scr]
      BY <2>1, <2>4 DEF OpHeld
    <3>3. \A j \in 0 .. l - 1 : WordsLeft(q, S)[j + 1] = WordsLeft(q - 1, S)[j + 1]
      <4> TAKE j \in 0 .. l - 1
      <4>1. S # T /\ j \in 0 .. Len(S.words) - 1
        BY <1>4, <3>1, <3>2
      <4>. QED BY <1>1, <2>4, <3>2, <4>1, BarrierWords
    <3>4. q \in 0 .. n /\ q - 1 \in 0 .. n
      BY <1>2
    <3>5. /\ WordsLeft(q, S) \in Seq(Nat) /\ WordsLeft(q - 1, S) \in Seq(Nat)
          /\ Len(WordsLeft(q, S)) = l /\ Len(WordsLeft(q - 1, S)) = l
      BY <1>1, <1>2, <1>4, <3>4, WordsShape
    <3>6. \A k1 \in 1 .. l : k1 - 1 \in 0 .. l - 1 /\ (k1 - 1) + 1 = k1
      OBVIOUS
    <3>7. \A k1 \in 1 .. l : WordsLeft(q, S)[k1] = WordsLeft(q - 1, S)[k1]
      BY <3>3, <3>6
    <3>8. WordsLeft(q, S) = WordsLeft(q - 1, S)
      BY Zenon, <3>5, <3>7, SeqEqual
    <3>. QED BY <1>5, <3>8
  <2>5. CASE ~DataOp(Ops[q])
    <3>1. WordsLeft(q, S) = WordsLeft(q - 1, S)
      BY <1>1, <2>5, OtherWords
    <3>. QED BY <1>5, <3>1
  <2>. QED BY <2>2, <2>3, <2>4, <2>5 DEF DataOp
<1>6. \A u \in Tids : \A r \in DOMAIN Ops : Ops[r].op = "barrier" =>
        /\ thread[u].at > r => p >= r
        /\ p > r => thread[u].at >= r
  <2> SUFFICES ASSUME NEW u \in Tids, NEW r \in DOMAIN Ops, Ops[r].op = "barrier"
               PROVE  (thread[u].at > r => p >= r) /\ (p > r => thread[u].at >= r)
    OBVIOUS
  <2>1. thread[u].at > r => Arrived(0, r)
    BY Zenon, <1>0 DEF Met
  <2>2. thread[0].at > r => Arrived(u, r)
    BY Zenon, <1>0 DEF Met
  <2>3. PICK x \in Nat : x = thread[u].at
    BY <1>0 DEF PlaceType
  <2>. QED BY <1>2, <1>3, <2>1, <2>2, <2>3 DEF Arrived
<1>7. ASSUME NEW j \in 0 .. l - 1
      PROVE  mem[a + j] = WordsLeft(p - 1, S)[j + 1]
  <2> DEFINE u == j % NTHREADS
             q == Level(thread[u], j)
  <2>1. u \in Tids /\ j \in Nat /\ j \in 0 .. Len(S.words) - 1
    <3>1. j \in Int /\ NTHREADS \in Nat \ {0} /\ Tids = 0 .. NTHREADS - 1
      BY Areas
    <3>2. j % NTHREADS \in Tids
      BY <3>1, Quotient
    <3>. QED BY <1>4, <3>2
  <2>2. mem[a + j] = WordsLeft(q, S)[j + 1]
    BY Zenon, <1>4, <2>1 DEF Computing
  <2>3. CASE u = 0
    <3>1. q = p - 1
      BY <1>0, <1>1, <1>2, <1>3, <2>3, LevelCases
    <3>. QED BY <2>2, <3>1
  <2>4. CASE u # 0
    <3>1. l > 1
      <4>1. 0 % NTHREADS = 0
        BY Areas
      <4>2. j # 0
        BY <2>4, <4>1
      <4>. QED BY <4>2
    <3>2. PICK x \in Nat \ {0} : x = thread[u].at
      BY <1>0, <2>1 DEF PlaceType
    <3>3. q \in 0 .. n /\ q <= x /\ (q >= x - 1 \/ q = n)
      <4>1. thread[u] \in PlaceType
        BY <1>0, <2>1
      <4> HIDE DEF u
      <4>2. /\ q \in 0 .. n
            /\ x \notin DOMAIN Ops => q = n /\ x > n
            /\ x \in DOMAIN Ops /\ Ops[x].op \notin {"add", "barrier"} => q = x - 1
            /\ x \in DOMAIN Ops /\ Ops[x].op = "add" => q = IF j < thread[u].i THEN x ELSE x - 1
            /\ x \in DOMAIN Ops /\ Ops[x].op = "barrier" => q = IF thread[u].w > 0 THEN x ELSE x - 1
        BY <1>1, <1>2, <3>2, <4>1, LevelCases
      <4> HIDE DEF q
      <4>. QED BY <4>2
    <3>4. \A r \in DOMAIN Ops : Ops[r].op = "barrier" => (x > r => p >= r) /\ (p > r => x >= r)
      BY Zenon, <1>6, <2>1, <3>2
    <3> HIDE DEF q, u
    <3>5. CASE p - 1 <= q
      <4>1. ASSUME NEW m \in (p - 1) + 1 .. q, WordsLeft(m, S) # WordsLeft(m - 1, S)
            PROVE  FALSE
        <5>1. m \in DOMAIN Ops
          BY <1>2, <1>3, <3>3
        <5>2. PICK r \in DOMAIN Ops : Ops[r].op = "barrier" /\ ((p < r /\ r < m) \/ (m < r /\ r < p))
          BY <1>5, <3>1, <4>1, <5>1
        <5>3. p < r /\ x > r
          BY <1>2, <1>3, <3>3, <5>2
        <5>. QED BY <1>2, <3>4, <5>2, <5>3
      <4>2. WordsLeft(q, S) = WordsLeft(p - 1, S)
        <5>1. p - 1 \in Nat /\ q \in Nat
          BY <1>3, <3>3
        <5>. QED BY <3>5, <4>1, <5>1, Untouched
      <4>. QED BY <2>2, <4>2
    <3>6. CASE q < p - 1
      <4>1. ASSUME NEW m \in q + 1 .. p - 1, WordsLeft(m, S) # WordsLeft(m - 1, S)
            PROVE  FALSE
        <5>1. m \in DOMAIN Ops
          BY <1>2, <1>3, <3>3
        <5>2. PICK r \in DOMAIN Ops : Ops[r].op = "barrier" /\ ((p < r /\ r < m) \/ (m < r /\ r < p))
          BY <1>5, <3>1, <4>1, <5>1
        <5>3. m < r /\ r < p
          BY <1>2, <1>3, <3>3, <5>2
        <5>4. x >= r
          BY <1>2, <3>4, <5>2, <5>3
        <5>. QED BY <1>2, <1>3, <3>3, <5>3, <5>4
      <4>2. WordsLeft(p - 1, S) = WordsLeft(q, S)
        <5>1. p - 1 \in Nat /\ q \in Nat /\ q <= p - 1
          BY <1>3, <3>3, <3>6
        <5>. QED BY <4>1, <5>1, Untouched
      <4>. QED BY <2>2, <4>2
    <3>. QED BY <1>3, <3>3, <3>5, <3>6
  <2>. QED BY <2>3, <2>4
<1>8. WordsLeft(p - 1, S) \in Seq(Nat) /\ Len(WordsLeft(p - 1, S)) = l
  <2>1. p - 1 \in 0 .. Len(Ops)
    BY <1>2, <1>3
  <2>. QED BY <1>1, <1>4, <2>1, WordsShape
<1>9. Get(mem, a, l) = [k \in 1 .. l |-> mem[a + k - 1]]
  BY DEF Get
<1>10. \A k \in 1 .. l : mem[a + k - 1] = WordsLeft(p - 1, S)[k]
  <2> TAKE k \in 1 .. l
  <2>1. k - 1 \in 0 .. l - 1 /\ a + (k - 1) = a + k - 1 /\ (k - 1) + 1 = k
    OBVIOUS
  <2>2. mem[a + (k - 1)] = WordsLeft(p - 1, S)[(k - 1) + 1]
    BY <1>7, <2>1
  <2>. QED BY <2>1, <2>2
<1>11. Get(mem, a, l) = WordsLeft(p - 1, S)
  BY <1>8, <1>9, <1>10, SMTT(30)
<1>. QED BY <1>3, <1>4, <1>11

\* The total that hart 0 writes is of the words after the barrier.
LEMMA CombineCarries ==
  ASSUME KernelsRaceFree, HostInv, Met, Computing, NEW t \in Tids, Combine(t)
  PROVE  Carries(t)
<1>1. ThreadMoves(t) /\ Running(t) /\ Op(t).op = "combine" /\ \E S, D \in bufs : CombineStep(t, S, D)
  BY Zenon, CombineFacts
<1>2. PICK S \in bufs, D \in bufs : CombineStep(t, S, D)
  BY Zenon, <1>1
<1>3. InCall /\ thread[t] \in PlaceType /\ thread[t].at \in DOMAIN Ops /\ Op(t) = Ops[thread[t].at]
  BY <1>1, DataPlace DEF DataOp
<1>4. thread'[t] \in PlaceType
  BY Zenon, <1>1 DEF ThreadMoves, PlaceType
<1>5. PICK p \in Nat \ {0} : p = thread[t].at /\ p \in DOMAIN Ops /\ Op(t) = Ops[p] /\ Ops[p].op = "combine"
  BY <1>1, <1>3 DEF PlaceType
<1>6. /\ S.addr = args[Ops[p].src] /\ Len(S.words) = Ops[p].n /\ D.addr = args[Ops[p].dst] /\ Len(D.words) = 1
      /\ thread'[t].at = p + 1 /\ thread'[t].i = t /\ thread'[t].w = 0
      /\ mem' = IF t = 0 THEN [mem EXCEPT ![D.addr] = Total(Get(mem, S.addr, Ops[p].n))] ELSE mem
  BY Zenon, <1>2, <1>5 DEF CombineStep, Goes
<1>7. \A j \in Nat : j % NTHREADS = t => Level(thread[t], j) = p - 1 /\ Level(thread'[t], j) = p
  <2>1. \A j : Level(thread[t], j) = p - 1
    <3>1. Ops[p].op \notin {"add", "barrier"}
      BY <1>5
    <3>. QED BY Zenon, <1>3, <1>5, <3>1, LevelCases
  <2>2. \A j \in Nat : j % NTHREADS = t => Level(thread'[t], j) = IF p \in DOMAIN Ops THEN p ELSE Len(Ops)
    <3>1. InCall /\ thread'[t].at = p + 1 /\ thread'[t].i = t /\ thread'[t].w = 0
      BY Zenon, <1>3, <1>6
    <3>. QED BY <1>4, <1>5, <3>1, NextLevel
  <2>. QED BY Zenon, <1>5, <2>1, <2>2
<1>8. /\ WordsLeft(p, D)[1] = Total(WordsLeft(p - 1, S))
      /\ \A b \in bufs : b # D => WordsLeft(p, b) = WordsLeft(p - 1, b)
  BY <1>3, <1>5, <1>6, CombineWords
<1>9. \A b \in bufs : \A j \in 0 .. Len(b.words) - 1 : j % NTHREADS = t => mem[b.addr + j] = WordsLeft(p - 1, b)[j + 1]
  <2> TAKE b \in bufs
  <2> TAKE j \in 0 .. Len(b.words) - 1
  <2> HAVE j % NTHREADS = t
  <2>1. mem[b.addr + j] = WordsLeft(Level(thread[t], j), b)[j + 1]
    BY Zenon DEF Computing
  <2>. QED BY <1>7, <2>1
<1>10. 0 \in 0 .. Len(D.words) - 1 /\ D.addr + 0 = D.addr /\ D.addr \in DOMAIN mem /\ 0 % NTHREADS = 0
  <2>1. 0 \in 0 .. Len(D.words) - 1 /\ D.addr + 0 = D.addr /\ 0 % NTHREADS = 0
    <3>1. D.addr \in Nat /\ Len(D.words) = 1
      BY <1>6, BuffersNamed
    <3>2. NTHREADS \in Nat \ {0}
      BY Areas
    <3>. QED BY <3>1, <3>2
  <2>2. D.addr + 0 \in DOMAIN mem
    BY Zenon, <2>1, InDomain
  <2>. QED BY <2>1, <2>2
<1>11. t = 0 => mem'[D.addr] = WordsLeft(p, D)[1]
  <2> SUFFICES ASSUME t = 0
               PROVE  mem'[D.addr] = WordsLeft(p, D)[1]
    OBVIOUS
  <2>1. Get(mem, S.addr, Ops[p].n) = WordsLeft(p - 1, S)
    <3>1. Running(0) /\ Op(0).op = "combine" /\ S.addr = args[Op(0).src] /\ Len(S.words) = Op(0).n
      BY <1>1, <1>5, <1>6
    <3>2. Get(mem, S.addr, Op(0).n) = WordsLeft(thread[0].at - 1, S)
      BY Zenon, <3>1, SourceStill
    <3>. QED BY <1>5, <3>2
  <2>2. mem'[D.addr] = Total(Get(mem, S.addr, Ops[p].n))
    BY <1>6, <1>10
  <2>. QED BY <1>8, <2>1, <2>2
<1>12. \A x \in DOMAIN mem : t # 0 \/ x # D.addr => mem'[x] = mem[x]
  BY <1>6
<1>13. ASSUME NEW b \in bufs, NEW j \in 0 .. Len(b.words) - 1
       PROVE  IF j % NTHREADS = t THEN mem'[b.addr + j] = WordsLeft(Level(thread'[t], j), b)[j + 1]
              ELSE mem'[b.addr + j] = mem[b.addr + j]
  <2>1. j \in Nat /\ b.addr + j \in DOMAIN mem /\ (b = D => j = 0)
    <3>1. b.addr + j \in DOMAIN mem
      BY InDomain
    <3>2. b = D => j \in 0 .. 1 - 1
      BY <1>6
    <3>. QED BY <3>1, <3>2
  <2>2. CASE b = D
    <3>1. j = 0 /\ b.addr + j = D.addr /\ j % NTHREADS = 0
      BY <1>10, <2>1, <2>2
    <3>2. CASE t = 0
      <4>1. Level(thread'[t], j) = p
        BY <1>7, <2>1, <3>1, <3>2
      <4>. QED BY <1>11, <2>2, <3>1, <3>2, <4>1
    <3>3. CASE t # 0
      BY <1>12, <2>1, <3>1, <3>3
    <3>. QED BY <3>2, <3>3
  <2>3. CASE b # D
    <3>1. b.addr + j # D.addr
      <4>1. b.addr + j # D.addr + 0
        BY Zenon, <1>10, <2>3, WordsApart
      <4>. QED BY <1>10, <4>1
    <3>2. mem'[b.addr + j] = mem[b.addr + j]
      BY <1>12, <2>1, <3>1
    <3>. QED BY <1>7, <1>8, <1>9, <2>1, <2>3, <3>2
  <2>. QED BY <2>2, <2>3
<1>. QED BY Zenon, <1>13 DEF Carries

\* A thread goes on where it is, or past an operation that all have come to.
LEMMA MetOn ==
  ASSUME HostInv, InCall, Met, NEW t \in Tids, ThreadMoves(t),
         \/ /\ thread'[t].at = thread[t].at /\ (thread[t].w > 0 => thread'[t].w > 0)
            /\ thread[t].at \in DOMAIN Ops /\ Ops[thread[t].at].op = "barrier" =>
                 \A u \in Tids : u + 1 < thread'[t].w => Arrived(u, thread[t].at)
         \/ /\ thread'[t].at = thread[t].at + 1 /\ thread'[t].w = 0
            /\ thread[t].at \in DOMAIN Ops /\ Ops[thread[t].at].op = "barrier" =>
                 \A u \in Tids : Arrived(u, thread[t].at)
  PROVE  Met'
<1>1. Ops' = Ops /\ \A u \in Tids : u # t => thread'[u] = thread[u]
  BY SameWords DEF ThreadMoves
<1>2. PICK n \in Nat : n = Len(Ops) /\ DOMAIN Ops = 1 .. n
  BY Zenon, OpsFacts
<1>3. \A u \in Tids : thread[u] \in PlaceType /\ thread'[u] \in PlaceType
  BY Zenon DEF HostInv, HostType, ThreadMoves, PlaceType
<1>4. PICK a \in Nat, v \in Nat, b \in Nat, w \in Nat :
        a = thread[t].at /\ v = thread[t].w /\ b = thread'[t].at /\ w = thread'[t].w
  BY <1>3 DEF PlaceType
<1>5. \A u \in Tids : \A q \in DOMAIN Ops : Arrived(u, q) => Arrived(u, q)'
  <2> TAKE u \in Tids
  <2> TAKE q \in DOMAIN Ops
  <2>1. CASE u # t
    BY <1>1, <2>1 DEF Arrived
  <2>2. CASE u = t
    <3>1. b > a \/ (b = a /\ (v > 0 => w > 0))
      BY <1>4
    <3>2. Arrived(t, q) <=> a > q \/ (a = q /\ v > 0)
      BY <1>4 DEF Arrived
    <3>3. Arrived(t, q)' <=> b > q \/ (b = q /\ w > 0)
      BY <1>4 DEF Arrived
    <3>4. q \in Nat
      BY <1>2
    <3>. QED BY <2>2, <3>1, <3>2, <3>3, <3>4
  <2>. QED BY <2>1, <2>2
<1>6. ASSUME NEW q \in DOMAIN Ops, Ops[q].op = "barrier", NEW x \in Tids, NEW u \in Tids
      PROVE  /\ thread'[x].at > q => Arrived(u, q)'
             /\ thread'[x].at = q /\ u + 1 < thread'[x].w => Arrived(u, q)'
  <2>0. q \in Nat /\ u \in Nat
    BY <1>2, Areas
  <2>1. /\ thread[x].at > q => Arrived(u, q)
        /\ thread[x].at = q /\ u + 1 < thread[x].w => Arrived(u, q)
    BY Zenon, <1>6 DEF Met
  <2>2. CASE x # t
    BY <1>1, <1>5, <2>1, <2>2
  <2>3. CASE x = t /\ b = a
    <3>1. a = q /\ u + 1 < w => Arrived(u, q)
      BY <1>4, <1>6, <2>3
    <3>. QED BY <1>4, <1>5, <2>1, <2>3, <3>1
  <2>4. CASE x = t /\ b # a
    <3>1. b = a + 1 /\ w = 0 /\ (a = q => Arrived(u, q))
      BY <1>4, <1>6, <2>4
    <3>2. b > q => a > q \/ a = q
      BY <2>0, <3>1
    <3>3. ~(u + 1 < w)
      BY <2>0, <3>1
    <3>. QED BY <1>4, <1>5, <2>1, <2>4, <3>1, <3>2, <3>3
  <2>. QED BY <2>2, <2>3, <2>4
<1>7. \A q \in DOMAIN Ops : Ops'[q].op = "barrier" => \A x, u \in Tids :
        /\ thread'[x].at > q => Arrived(u, q)'
        /\ thread'[x].at = q /\ u + 1 < thread'[x].w => Arrived(u, q)'
  BY <1>1, <1>6
<1>. QED BY Zenon, <1>1, <1>7 DEF Met

\* A flag as high as one's own phase is the flag of a thread that has arrived.
LEMMA FlagSeen ==
  ASSUME KernelsRaceFree, HostInv, Computing, Striding, NEW t \in Tids, PollFlag(t),
         NEW u \in Tids, u + 1 = thread[t].w
  PROVE  Arrived(u, thread[t].at)
<1>1. ThreadMoves(t) /\ Running(t) /\ Op(t).op = "barrier" /\ \E S \in bufs : PollStep(t, S)
  BY Zenon, PollFlagFacts
<1>2. PICK S \in bufs : PollStep(t, S)
  BY Zenon, <1>1
<1>3. InCall /\ thread[t].at \in DOMAIN Ops /\ Op(t) = Ops[thread[t].at] /\ OpHeld(Op(t))
  BY <1>1, DataPlace DEF DataOp
<1>4. thread[t] \in PlaceType /\ thread[u] \in PlaceType
  BY Zenon DEF HostInv, HostType, PlaceType
<1>5. PICK p \in Nat \ {0}, q \in Nat \ {0}, w \in Nat, n \in Nat :
        /\ p = thread[t].at /\ p \in DOMAIN Ops /\ Op(t) = Ops[p] /\ Ops[p].op = "barrier"
        /\ q = thread[u].at /\ w = thread[u].w /\ n = Len(Ops) /\ DOMAIN Ops = 1 .. n
  BY Zenon, <1>1, <1>3, <1>4, OpsFacts DEF PlaceType
<1>6. S.addr = args[Ops[p].scr] /\ Len(S.words) = 2 * NTHREADS
  BY Zenon, <1>2, <1>5 DEF PollStep, Flags
<1>7. \A x \in DOMAIN S.words : S.words[x] = 0
  <2>1. PICK b \in bufs : b.addr = args[Ops[p].scr] /\ \A x \in DOMAIN b.words : b.words[x] = 0
    BY <1>3, <1>5 DEF OpHeld
  <2>2. b = S
    BY <1>6, <2>1, BuffersNamed
  <2>. QED BY <2>1, <2>2
<1>8. PICK c : FlagCount(S, c)
  BY <1>3, <1>5, <1>6, <1>7, FlagsCount
<1>9. PICK m \in Nat \ {0}, a \in Nat : m = NTHREADS /\ a = S.addr /\ t \in 0 .. m - 1 /\ u \in 0 .. m - 1
  BY BuffersNamed, Areas
<1>10. /\ m + t \in 0 .. Len(S.words) - 1 /\ u \in 0 .. Len(S.words) - 1
       /\ m + t \in 0 .. 2 * NTHREADS - 1 /\ u \in 0 .. 2 * NTHREADS - 1
       /\ (u + 1) - 1 = u /\ a + m + t = a + (m + t)
  BY <1>6, <1>9
<1>11. (m + t) % NTHREADS = t /\ u % NTHREADS = u
  BY <1>9, <1>10, OwnFlags
<1>12. PICK lu \in 0 .. n, lt \in 0 .. n : lu = Level(thread[u], u) /\ lt = Level(thread[t], m + t)
  BY <1>3, <1>4, <1>5, LevelCases
<1>13. mem[a + u] = c[lu] /\ mem[a + (m + t)] = c[lt]
  <2>1. mem[S.addr + u] = WordsLeft(Level(thread[u], u), S)[u + 1]
    BY Zenon, <1>10, <1>11 DEF Computing
  <2>2. mem[S.addr + (m + t)] = WordsLeft(Level(thread[t], m + t), S)[(m + t) + 1]
    BY Zenon, <1>10, <1>11 DEF Computing
  <2>3. WordsLeft(lu, S)[u + 1] = c[lu] /\ WordsLeft(lt, S)[(m + t) + 1] = c[lt]
    BY Zenon, <1>5, <1>8, <1>10, <1>12 DEF FlagCount
  <2>. QED BY <1>9, <1>12, <2>1, <2>2, <2>3
<1>14. mem[a + u] >= mem[a + (m + t)]
  <2>1. mem[S.addr + (thread[t].w - 1)] >= mem[S.addr + NTHREADS + t]
    BY Zenon, <1>2 DEF PollStep
  <2>. QED BY <1>9, <1>10, <2>1
<1>15. lt = p
  <2>1. thread[t].w > 0
    BY <1>9
  <2>. QED BY <1>3, <1>4, <1>5, <1>12, <2>1, LevelCases
<1>16. ASSUME ~Arrived(u, p)
       PROVE  lu \in 0 .. p - 1
  <2>1. q < p \/ (q = p /\ w = 0)
    BY <1>5, <1>16 DEF Arrived
  <2>2. q \in DOMAIN Ops
    BY <1>5, <2>1
  <2>3. CASE q < p
    <3>1. lu <= q
      <4>1. /\ Ops[q].op \notin {"add", "barrier"} => lu = q - 1
            /\ Ops[q].op = "add" => lu = IF u < thread[u].i THEN q ELSE q - 1
            /\ Ops[q].op = "barrier" => lu = IF thread[u].w > 0 THEN q ELSE q - 1
        BY <1>3, <1>4, <1>5, <1>12, <2>2, LevelCases
      <4>. QED BY <4>1
    <3>. QED BY <2>3, <3>1
  <2>4. CASE q = p /\ w = 0
    <3>1. lu = p - 1
      <4>1. Ops[q].op = "barrier" => lu = IF thread[u].w > 0 THEN q ELSE q - 1
        BY <1>3, <1>4, <1>5, <1>12, <2>2, LevelCases
      <4>2. ~(thread[u].w > 0)
        BY <1>5, <2>4
      <4>. QED BY <1>5, <2>4, <4>1, <4>2
    <3>. QED BY <3>1
  <2>. QED BY <2>1, <2>3, <2>4
<1>17. ASSUME ~Arrived(u, p)
       PROVE  FALSE
  <2>1. c[lu] < c[p]
    BY <1>3, <1>5, <1>6, <1>8, <1>16, <1>17, FlagsRise
  <2>2. c[lu] \in Nat /\ c[p] \in Nat
    <3>1. c \in [0 .. n -> Nat] /\ p \in 0 .. n
      BY <1>5, <1>8 DEF FlagCount
    <3>. QED BY <3>1
  <2>. QED BY <1>13, <1>14, <1>15, <2>1, <2>2
<1>. QED BY <1>5, <1>17

\* An index stays with its thread.
LEMMA StridingOn ==
  ASSUME Striding, NEW t \in Tids, ThreadMoves(t), thread'[t].i % NTHREADS = t, thread'[t].w <= NTHREADS
  PROVE  Striding'
<1>1. \A u \in Tids : u # t => thread'[u] = thread[u]
  BY DEF ThreadMoves
<1>2. \A u \in Tids : thread'[u].i % NTHREADS = u /\ thread'[u].w <= NTHREADS
  BY <1>1 DEF Striding
<1>. QED BY <1>2 DEF Striding

\* What is kept of a step: where the threads have met, and how they stride.
TrackOn == Met' /\ Computing' /\ Striding'

\* A sum keeps the call on track,
LEMMA AddTrack ==
  ASSUME KernelsRaceFree, HostInv, Met, Computing, Striding, NEW t \in Tids, Add(t)
  PROVE  TrackOn
<1>1. /\ ThreadMoves(t) /\ Running(t) /\ Op(t).op = "add"
      /\ \E A, B, C \in bufs, n \in Nat : AddStep(t, A, B, C, n)
  BY Zenon, AddFacts
<1>2. PICK A \in bufs, B \in bufs, C \in bufs, n \in Nat : AddStep(t, A, B, C, n)
  BY Zenon, <1>1
<1>3. InCall /\ thread[t] \in PlaceType /\ thread[t].at \in DOMAIN Ops /\ Ops[thread[t].at].op # "barrier"
  BY <1>1, DataPlace DEF DataOp
<1>4. PICK p \in Nat \ {0}, i \in Nat, w \in Nat : p = thread[t].at /\ i = thread[t].i /\ w = thread[t].w
  BY <1>3 DEF PlaceType
<1>5. PICK m \in Nat \ {0} : m = NTHREADS /\ t \in 0 .. m - 1 /\ i % m = t /\ w <= m
  BY <1>4, Areas DEF Striding
<1>6. Goes(t, p, i + m, w) \/ Goes(t, p + 1, t, 0)
  BY Zenon, <1>2, <1>4, <1>5 DEF AddStep
<1>7. (i + m) % m = t /\ t % m = t
  <2>1. (i + m * 1) % m = i % m /\ m * 1 = m
    <3>1. i \in Int /\ 1 \in Int /\ m * 1 = m
      OBVIOUS
    <3>. QED BY Zenon, <3>1, RemainderShift
  <2>2. t % m = t
    BY <1>5
  <2>. QED BY <1>5, <2>1, <2>2
<1>8. Met'
  BY <1>1, <1>3, <1>4, <1>6, MetOn DEF Goes
<1>9. Computing'
  BY Zenon, <1>1, AddCarries, CarriesOn
<1>10. thread'[t].i % NTHREADS = t /\ thread'[t].w <= NTHREADS
  BY <1>5, <1>6, <1>7 DEF Goes
<1>. QED BY Zenon, <1>1, <1>8, <1>9, <1>10, StridingOn DEF TrackOn

\* an arrival does,
LEMMA ArriveTrack ==
  ASSUME KernelsRaceFree, HostInv, Met, Computing, Striding, NEW t \in Tids, Arrive(t)
  PROVE  TrackOn
<1>1. ThreadMoves(t) /\ Running(t) /\ Op(t).op = "barrier" /\ \E S \in bufs : ArriveStep(t, S)
  BY Zenon, ArriveFacts
<1>2. InCall /\ thread[t] \in PlaceType
  BY <1>1, DataPlace DEF DataOp
<1>3. PICK p \in Nat \ {0}, i \in Nat : p = thread[t].at /\ i = thread[t].i
  BY <1>2 DEF PlaceType
<1>4. thread[t].w = 0 /\ thread'[t].at = p /\ thread'[t].i = i /\ thread'[t].w = 1
  BY Zenon, <1>1, <1>3 DEF ArriveStep, Goes
<1>5. \A u \in Tids : ~(u + 1 < 1)
  BY Areas
<1>6. Met'
  BY <1>1, <1>2, <1>3, <1>4, <1>5, MetOn
<1>7. Computing'
  BY Zenon, <1>1, ArriveCarries, CarriesOn
<1>8. thread'[t].i % NTHREADS = t /\ thread'[t].w <= NTHREADS
  <2>1. thread[t].i % NTHREADS = t /\ 1 <= NTHREADS
    BY Areas DEF Striding
  <2>. QED BY <1>3, <1>4, <2>1
<1>. QED BY Zenon, <1>1, <1>6, <1>7, <1>8, StridingOn DEF TrackOn

\* a look at a flag does,
LEMMA PollTrack ==
  ASSUME KernelsRaceFree, HostInv, Met, Computing, Striding, NEW t \in Tids, PollFlag(t)
  PROVE  TrackOn
<1>1. ThreadMoves(t) /\ Running(t) /\ Op(t).op = "barrier" /\ \E S \in bufs : PollStep(t, S)
  BY Zenon, PollFlagFacts
<1>2. InCall /\ thread[t] \in PlaceType /\ thread[t].at \in DOMAIN Ops /\ Ops[thread[t].at].op = "barrier"
  BY <1>1, DataPlace DEF DataOp
<1>3. PICK p \in Nat \ {0}, i \in Nat, w \in Nat \ {0}, m \in Nat \ {0} :
        p = thread[t].at /\ i = thread[t].i /\ w = thread[t].w /\ m = NTHREADS
  BY <1>1, <1>2, Areas DEF PlaceType, PollStep
<1>4. i % m = t /\ w <= m /\ t \in 0 .. m - 1 /\ t % m = t
  <2>1. thread[t].i % NTHREADS = t /\ thread[t].w <= NTHREADS
    BY DEF Striding
  <2>2. t \in 0 .. m - 1
    BY <1>3, Areas
  <2>3. t % m = t
    BY <2>2
  <2>. QED BY <1>3, <2>1, <2>2, <2>3
<1>5. \A u \in Tids : u \in 0 .. m - 1 /\ (u + 1 < w => Arrived(u, p)) /\ (u + 1 = w => Arrived(u, p))
  <2> TAKE u \in Tids
  <2>1. u \in 0 .. m - 1
    BY <1>3, Areas
  <2>2. u + 1 < w => Arrived(u, p)
    BY Zenon, <1>2, <1>3 DEF Met
  <2>3. u + 1 = w => Arrived(u, p)
    BY Zenon, <1>3, FlagSeen
  <2>. QED BY <2>1, <2>2, <2>3
<1>6. \/ w < m /\ Goes(t, p, i, w + 1)
      \/ w >= m /\ Goes(t, p + 1, t, 0)
  BY Zenon, <1>1, <1>3 DEF PollStep
<1>7. Met'
  <2>1. CASE w < m /\ Goes(t, p, i, w + 1)
    <3>1. thread'[t].at = p /\ thread'[t].w = w + 1 /\ w + 1 > 0
      BY <2>1 DEF Goes
    <3>2. \A u \in Tids : u + 1 < thread'[t].w => Arrived(u, p)
      BY <1>5, <3>1
    <3>. QED BY <1>1, <1>2, <1>3, <3>1, <3>2, MetOn
  <2>2. CASE w >= m /\ Goes(t, p + 1, t, 0)
    <3>1. thread'[t].at = p + 1 /\ thread'[t].w = 0
      BY <2>2 DEF Goes
    <3>2. \A u \in Tids : Arrived(u, p)
      <4> TAKE u \in Tids
      <4>1. u + 1 < w \/ u + 1 = w
        BY <1>4, <1>5, <2>2
      <4>. QED BY <1>5, <4>1
    <3>. QED BY <1>1, <1>2, <1>3, <3>1, <3>2, MetOn
  <2>. QED BY <1>6, <2>1, <2>2
<1>8. Computing'
  BY Zenon, <1>1, PollCarries, CarriesOn
<1>9. thread'[t].i % NTHREADS = t /\ thread'[t].w <= NTHREADS
  <2>1. CASE w < m /\ Goes(t, p, i, w + 1)
    BY <1>3, <1>4, <2>1 DEF Goes
  <2>2. CASE w >= m /\ Goes(t, p + 1, t, 0)
    BY <1>3, <1>4, <2>2 DEF Goes
  <2>. QED BY <1>6, <2>1, <2>2
<1>. QED BY Zenon, <1>1, <1>7, <1>8, <1>9, StridingOn DEF TrackOn

\* Past an operation that is no barrier
LEMMA StepTrack ==
  ASSUME HostInv, InCall, Met, Computing, Striding, NEW t \in Tids, ThreadMoves(t), Carries(t),
         Goes(t, thread[t].at + 1, t, 0),
         thread[t].at \in DOMAIN Ops => Ops[thread[t].at].op # "barrier"
  PROVE  TrackOn
<1>1. thread'[t].at = thread[t].at + 1 /\ thread'[t].i = t /\ thread'[t].w = 0
  BY DEF Goes
<1>2. Met'
  BY <1>1, MetOn
<1>3. Computing'
  BY Zenon, CarriesOn
<1>4. thread'[t].i % NTHREADS = t /\ thread'[t].w <= NTHREADS
  <2>1. PICK m \in Nat \ {0} : m = NTHREADS /\ t \in 0 .. m - 1
    BY Areas
  <2>2. t % m = t /\ 0 <= m
    BY <2>1
  <2>. QED BY <1>1, <2>1, <2>2
<1>. QED BY Zenon, <1>2, <1>3, <1>4, StridingOn DEF TrackOn

\* the total does,
LEMMA CombineTrack ==
  ASSUME KernelsRaceFree, HostInv, Met, Computing, Striding, NEW t \in Tids, Combine(t)
  PROVE  TrackOn
<1>1. ThreadMoves(t) /\ Running(t) /\ Op(t).op = "combine" /\ \E S, D \in bufs : CombineStep(t, S, D)
  BY Zenon, CombineFacts
<1>2. InCall /\ Ops[thread[t].at].op # "barrier"
  BY <1>1, DataPlace DEF DataOp
<1>3. Goes(t, thread[t].at + 1, t, 0)
  BY Zenon, <1>1 DEF CombineStep
<1>. QED BY Zenon, <1>1, <1>2, <1>3, CombineCarries, StepTrack

\* A step that is none on buffers
LEMMA PassTrack ==
  ASSUME KernelsRaceFree, HostInv, InCall, Met, Computing, Striding, NEW t \in Tids, ThreadMoves(t),
         thread[t].at \in DOMAIN Script(t) => ~DataOp(Script(t)[thread[t].at]),
         Goes(t, thread[t].at + 1, t, 0), \A x \in HEAP_BASE .. HEAP_END - 1 : mem'[x] = mem[x]
  PROVE  TrackOn
<1>1. thread[t].at \in DOMAIN Ops => ~DataOp(Ops[thread[t].at])
  BY Zenon, OtherPlace
<1>2. Carries(t)
  BY Zenon, <1>1, PassesOn
<1>3. thread[t].at \in DOMAIN Ops => Ops[thread[t].at].op # "barrier"
  BY <1>1 DEF DataOp
<1>. QED BY Zenon, <1>2, <1>3, StepTrack

\* What is written below the heap leaves the buffers.
LEMMA HeapLeft ==
  ASSUME HostInv, NEW X, OnlyAt(X), X \subseteq 0 .. HEAP_BASE - 1
  PROVE  \A x \in HEAP_BASE .. HEAP_END - 1 : mem'[x] = mem[x]
<1>1. \A x \in HEAP_BASE .. HEAP_END - 1 : x \in 0 .. HEAP_END - 1 /\ x \notin X
  BY Areas
<1>. QED BY Zenon, <1>1 DEF OnlyAt

\* The reports lie below the heap.
LEMMA ReportAreas ==
  /\ LOG_BASE .. HEAP_BASE - 1 \subseteq 0 .. HEAP_BASE - 1
  /\ \A t \in Tids : {DONE_BASE + t} \subseteq 0 .. HEAP_BASE - 1
BY Areas

\* and so does every step of the device.
LEMMA DeviceTrack ==
  ASSUME KernelsRaceFree, HostInv, OnTrack, NEW t \in Tids, DeviceStep(t)
  PROVE  OnTrack'
<1> SUFFICES ASSUME InCall', \A u \in Tids : ~Trapped(u)'
             PROVE  TrackOn
  BY DEF OnTrack, TrackOn
<1>1. ThreadMoves(t) /\ InCall
  BY Zenon, DeviceMoves DEF ThreadMoves
<1>2. /\ \A u \in Tids : u # t => mem'[DONE_BASE + u] = mem[DONE_BASE + u]
      /\ \/ mem'[DONE_BASE + t] = mem[DONE_BASE + t] /\ Running(t)
         \/ mem'[DONE_BASE + t] = 1 /\ DoneStep(t)
      /\ \A u \in Tids : Script(u)' = Script(u)
  BY Zenon, DeviceLeaves
<1>3. \A u \in Tids : ~Trapped(u)
  <2> TAKE u \in Tids
  <2>1. CASE u # t
    <3>1. thread'[u] = thread[u] /\ Script(u)' = Script(u) /\ mem'[DONE_BASE + u] = mem[DONE_BASE + u]
      BY <1>1, <1>2, <2>1 DEF ThreadMoves
    <3>. QED BY <3>1 DEF Trapped
  <2>2. CASE u = t
    <3>1. thread[t].at <= Len(Script(t)) + 1
      BY <1>1 DEF ThreadMoves
    <3>2. thread[t].at \in Nat /\ Len(Script(t)) \in Nat
      <4>1. thread[t] \in PlaceType
        BY Zenon DEF HostInv, HostType, PlaceType
      <4>2. Len(Script(t)) \in Nat
        BY <1>1, OpsHeld, ScriptFacts
      <4>. QED BY <4>1, <4>2 DEF PlaceType
    <3>. QED BY <2>2, <3>1, <3>2 DEF Trapped
  <2>. QED BY <2>1, <2>2
<1>4. Met /\ Computing /\ Striding
  BY Zenon, <1>1, <1>3 DEF OnTrack
<1>5. CASE Add(t)
  BY Zenon, <1>4, <1>5, AddTrack
<1>6. CASE Arrive(t)
  BY Zenon, <1>4, <1>6, ArriveTrack
<1>7. CASE PollFlag(t)
  BY Zenon, <1>4, <1>7, PollTrack
<1>8. CASE Combine(t)
  BY Zenon, <1>4, <1>8, CombineTrack
<1>9. CASE mk_log(t)
  <2>1. OnlyAt(LOG_BASE .. HEAP_BASE - 1) /\ Running(t) /\ Op(t).op = "log" /\ LogStep(t)
    BY Zenon, <1>9, LogFacts
  <2>2. Goes(t, thread[t].at + 1, t, 0)
    BY Zenon, <2>1 DEF LogStep
  <2>3. \A x \in HEAP_BASE .. HEAP_END - 1 : mem'[x] = mem[x]
    BY Zenon, <2>1, HeapLeft, ReportAreas
  <2>4. ~DataOp(Script(t)[thread[t].at])
    BY <2>1, Running_ DEF DataOp
  <2>. QED BY Zenon, <1>1, <1>4, <2>2, <2>3, <2>4, PassTrack
<1>10. CASE mk_assert(t)
  <2>1. OnlyAt(LOG_BASE .. HEAP_BASE - 1) /\ Running(t) /\ Op(t).op = "assert" /\ AssertStep(t)
    BY Zenon, <1>10, AssertFacts
  <2>2. Goes(t, thread[t].at + 1, t, 0)
    BY Zenon, <2>1 DEF AssertStep
  <2>3. \A x \in HEAP_BASE .. HEAP_END - 1 : mem'[x] = mem[x]
    BY Zenon, <2>1, HeapLeft, ReportAreas
  <2>4. ~DataOp(Script(t)[thread[t].at])
    BY <2>1, Running_ DEF DataOp
  <2>. QED BY Zenon, <1>1, <1>4, <2>2, <2>3, <2>4, PassTrack
<1>11. CASE _mk_trap(t)
  <2>1. Running(t) /\ TrapStep(t)
    BY Zenon, <1>11, TrapFacts
  <2>2. thread'[t].at = Len(Script(t)) + 2
    BY <2>1 DEF TrapStep
  <2>3. thread[t].at <= Len(Script(t)) /\ thread[t].at \in Nat /\ Len(Script(t)) \in Nat
    <3>1. thread[t] \in PlaceType
      BY Zenon DEF HostInv, HostType, PlaceType
    <3>2. Len(Script(t)) \in Nat
      BY <1>1, OpsHeld, ScriptFacts
    <3>. QED BY <2>1, <3>1, <3>2 DEF PlaceType, Running
  <2>4. ~DoneStep(t)
    BY <2>3 DEF DoneStep
  <2>5. mem[DONE_BASE + t] = 0
    <3>1. mem[DONE_BASE + t] \in {0, 1} /\ (mem[DONE_BASE + t] = 1 => thread[t].at = Len(Script(t)) + 2)
      BY Zenon, <1>1 DEF HostInv, ThreadsPlaced
    <3>. QED BY <2>3, <3>1
  <2>6. mem'[DONE_BASE + t] = 0
    BY <1>2, <2>4, <2>5
  <2>7. Trapped(t)'
    BY <1>2, <2>2, <2>6 DEF Trapped
  <2>. QED BY <2>7
<1>12. CASE Done(t)
  <2>1. OnlyAt({DONE_BASE + t}) /\ DoneStep(t)
    BY Zenon, <1>12, DoneFacts
  <2>2. Len(Script(t)) \in Nat /\ DOMAIN Script(t) = 1 .. Len(Script(t))
    BY <1>1, OpsHeld, ScriptFacts
  <2>3. thread[t].at \notin DOMAIN Script(t) /\ thread[t].at + 1 = Len(Script(t)) + 2
    BY <2>1, <2>2 DEF DoneStep
  <2>4. Goes(t, thread[t].at + 1, t, 0)
    BY <2>1, <2>3 DEF DoneStep
  <2>5. \A x \in HEAP_BASE .. HEAP_END - 1 : mem'[x] = mem[x]
    BY Zenon, <2>1, HeapLeft, ReportAreas
  <2>. QED BY Zenon, <1>1, <1>4, <2>3, <2>4, <2>5, PassTrack
<1>. QED BY Zenon, <1>5, <1>6, <1>7, <1>8, <1>9, <1>10, <1>11, <1>12 DEF DeviceStep

-----------------------------------------------------------------------------
(* What the program holds *)

\* A buffer holds these words.
HoldsWords(m, b) == \A k \in DOMAIN b.words : m[b.addr + k - 1] = b.words[k]

\* A kept buffer holds its words.
LEMMA KeptHolds ==
  ASSUME HostInv, Kept, NEW b \in bufs, ~InCall \/ b.addr \notin Written(Ops)
  PROVE  HoldsWords(mem, b)
BY Zenon DEF Kept, HoldsWords, Ops

\* What leaves the words of a buffer leaves what it holds.
LEMMA HoldsOn ==
  ASSUME HostInv, NEW b \in bufs, HoldsWords(mem, b),
         \A j \in 0 .. Len(b.words) - 1 : mem'[b.addr + j] = mem[b.addr + j]
  PROVE  HoldsWords(mem', b)
<1>1. PICK a \in Nat, n \in Nat : a = b.addr /\ n = Len(b.words) /\ DOMAIN b.words = 1 .. n
  BY BuffersNamed
<1>2. \A k \in 1 .. n : k - 1 \in 0 .. n - 1 /\ a + (k - 1) = a + k - 1
  OBVIOUS
<1>3. \A k \in 1 .. n : mem'[a + k - 1] = mem[a + k - 1]
  BY <1>1, <1>2
<1>. QED BY <1>1, <1>3 DEF HoldsWords

\* An operation writes where the kernel writes.
LEMMA WrittenOps ==
  ASSUME NEW p \in DOMAIN Ops
  PROVE  /\ Ops[p].op = "add" => args[Ops[p].c] \in Written(Ops)
         /\ Ops[p].op = "combine" => args[Ops[p].dst] \in Written(Ops)
         /\ Ops[p].op = "barrier" => args[Ops[p].scr] \in Written(Ops)
<1> DEFINE W(q) == LET op == Ops[q] IN CASE op.op = "add" -> {args[op.c]} [] op.op = "combine" -> {args[op.dst]}
                                          [] op.op = "barrier" -> {args[op.scr]} [] OTHER -> {}
<1>1. Written(Ops) = UNION {W(q) : q \in DOMAIN Ops}
  BY Zenon DEF Written
<1>2. /\ Ops[p].op = "add" => args[Ops[p].c] \in W(p)
      /\ Ops[p].op = "combine" => args[Ops[p].dst] \in W(p)
      /\ Ops[p].op = "barrier" => args[Ops[p].scr] \in W(p)
  OBVIOUS
<1> HIDE DEF W
<1>. QED BY Zenon, <1>1, <1>2

\* The device writes only the buffers that the kernel writes.
LEMMA DeviceWrites ==
  ASSUME KernelsRaceFree, HostInv, NEW t \in Tids, DeviceStep(t),
         NEW b \in bufs, b.addr \notin Written(Ops), NEW j \in 0 .. Len(b.words) - 1
  PROVE  mem'[b.addr + j] = mem[b.addr + j]
<1>1. b.addr + j \in HEAP_BASE .. HEAP_END - 1 /\ b.addr + j \in DOMAIN mem
  BY Zenon, InHeap, InDomain
<1>2. CASE Add(t)
  <2>1. Running(t) /\ Op(t).op = "add" /\ \E A, B, C \in bufs, n \in Nat : AddStep(t, A, B, C, n)
    BY Zenon, <1>2, AddFacts
  <2>2. PICK A \in bufs, B \in bufs, C \in bufs, n \in Nat : AddStep(t, A, B, C, n)
    BY Zenon, <2>1
  <2>3. thread[t].at \in DOMAIN Ops /\ Op(t) = Ops[thread[t].at] /\ thread[t].i \in Nat
    BY <2>1, DataPlace DEF DataOp, PlaceType
  <2>4. C.addr = args[Op(t).c] /\ n <= Len(C.words)
    BY Zenon, <2>2 DEF AddStep
  <2>5. C # b
    BY <2>1, <2>3, <2>4, WrittenOps
  <2>6. PICK i \in Nat : i = thread[t].i
    BY <2>3
  <2>7. CASE mem' = mem
    BY <2>7
  <2>8. CASE i < n /\ mem' = [mem EXCEPT ![C.addr + i] = (mem[A.addr + i] + mem[B.addr + i]) % Modulus]
    <3>1. i \in 0 .. Len(C.words) - 1
      BY <2>4, <2>8, BuffersNamed
    <3>2. b.addr + j # C.addr + i
      BY Zenon, <2>5, <3>1, WordsApart
    <3>. QED BY <1>1, <2>8, <3>2
  <2>. QED BY Zenon, <2>2, <2>6, <2>7, <2>8 DEF AddStep
<1>3. CASE Arrive(t)
  <2>1. Running(t) /\ Op(t).op = "barrier" /\ \E S \in bufs : ArriveStep(t, S)
    BY Zenon, <1>3, ArriveFacts
  <2>2. PICK S \in bufs : ArriveStep(t, S)
    BY Zenon, <2>1
  <2>3. thread[t].at \in DOMAIN Ops /\ Op(t) = Ops[thread[t].at]
    BY <2>1, DataPlace DEF DataOp
  <2>4. S.addr = args[Op(t).scr] /\ Len(S.words) = 2 * NTHREADS
    BY Zenon, <2>2 DEF ArriveStep, Flags
  <2>5. S # b
    BY <2>1, <2>3, <2>4, WrittenOps
  <2>6. PICK m \in Nat, a \in Nat : m = NTHREADS /\ t \in 0 .. m - 1 /\ a = S.addr
    BY Areas, BuffersNamed
  <2>7. PICK x \in 0 .. Len(S.words) - 1, y \in 0 .. Len(S.words) - 1 : x = m + t /\ y = t
    BY <2>4, <2>6
  <2>8. b.addr + j # S.addr + x
    BY Zenon, <2>5, WordsApart
  <2>9. b.addr + j # S.addr + y
    BY Zenon, <2>5, WordsApart
  <2>10. PICK v : mem' = [mem EXCEPT ![S.addr + NTHREADS + t] = v, ![S.addr + t] = v]
    BY Zenon, <2>2 DEF ArriveStep
  <2>11. S.addr + NTHREADS + t = S.addr + x /\ S.addr + t = S.addr + y
    BY <2>6, <2>7
  <2>12. mem' = [mem EXCEPT ![S.addr + x] = v, ![S.addr + y] = v]
    BY Zenon, <2>10, <2>11
  <2>. QED BY <1>1, <2>8, <2>9, <2>12
<1>4. CASE PollFlag(t)
  <2>1. PICK S \in bufs : PollStep(t, S)
    BY Zenon, <1>4, PollFlagFacts
  <2>. QED BY <2>1 DEF PollStep
<1>5. CASE Combine(t)
  <2>1. Running(t) /\ Op(t).op = "combine" /\ \E S, D \in bufs : CombineStep(t, S, D)
    BY Zenon, <1>5, CombineFacts
  <2>2. PICK S \in bufs, D \in bufs : CombineStep(t, S, D)
    BY Zenon, <2>1
  <2>3. thread[t].at \in DOMAIN Ops /\ Op(t) = Ops[thread[t].at]
    BY <2>1, DataPlace DEF DataOp
  <2>4. D.addr = args[Op(t).dst] /\ Len(D.words) = 1
    BY Zenon, <2>2 DEF CombineStep
  <2>5. D # b
    BY <2>1, <2>3, <2>4, WrittenOps
  <2>6. 0 \in 0 .. Len(D.words) - 1 /\ D.addr + 0 = D.addr
    BY <2>4, BuffersNamed
  <2>7. b.addr + j # D.addr + 0
    BY Zenon, <2>5, <2>6, WordsApart
  <2>8. mem' = IF t = 0 THEN [mem EXCEPT ![D.addr] = Total(Get(mem, S.addr, Op(t).n))] ELSE mem
    BY Zenon, <2>2 DEF CombineStep
  <2>. QED BY <1>1, <2>6, <2>7, <2>8
<1>6. CASE mk_log(t)
  <2>1. OnlyAt(LOG_BASE .. HEAP_BASE - 1)
    BY Zenon, <1>6, LogFacts
  <2>. QED BY Zenon, <1>1, <2>1, HeapLeft, ReportAreas
<1>7. CASE mk_assert(t)
  <2>1. OnlyAt(LOG_BASE .. HEAP_BASE - 1)
    BY Zenon, <1>7, AssertFacts
  <2>. QED BY Zenon, <1>1, <2>1, HeapLeft, ReportAreas
<1>8. CASE _mk_trap(t)
  <2>1. OnlyAt(LOG_BASE .. HEAP_BASE - 1)
    BY Zenon, <1>8, TrapFacts
  <2>. QED BY Zenon, <1>1, <2>1, HeapLeft, ReportAreas
<1>9. CASE Done(t)
  <2>1. OnlyAt({DONE_BASE + t})
    BY Zenon, <1>9, DoneFacts
  <2>. QED BY Zenon, <1>1, <2>1, HeapLeft, ReportAreas
<1>. QED BY Zenon, <1>2, <1>3, <1>4, <1>5, <1>6, <1>7, <1>8, <1>9 DEF DeviceStep

\* Where the kernel writes is fixed by the call.
LEMMA WrittenSame ==
  ASSUME call'.kernel = call.kernel, args' = args
  PROVE  Ops' = Ops /\ Written(Ops)' = Written(Ops)
<1> DEFINE W(q) == LET op == Ops[q] IN CASE op.op = "add" -> {args[op.c]} [] op.op = "combine" -> {args[op.dst]}
                                          [] op.op = "barrier" -> {args[op.scr]} [] OTHER -> {}
<1>1. Ops' = Ops
  BY DEF Ops
<1>2. Written(Ops) = UNION {W(q) : q \in DOMAIN Ops}
  BY Zenon DEF Written
<1>3. Written(Ops)' = UNION {W(q)' : q \in DOMAIN Ops'}
  BY Zenon DEF Written
<1>4. \A q : W(q)' = W(q)
  BY <1>1
<1> HIDE DEF W
<1>5. Written(Ops)' = UNION {W(q) : q \in DOMAIN Ops}
  BY Zenon, <1>1, <1>3, <1>4
<1>. QED BY Zenon, <1>1, <1>2, <1>5

\* After a step a buffer holds what the program expects, where the kernel does not write.
LEMMA KeptNext ==
  ASSUME Ops' = Ops, Written(Ops)' = Written(Ops),
         \A b \in bufs' : ~InCall' \/ b.addr \notin Written(Ops) => HoldsWords(mem', b)
  PROVE  Kept'
<1>1. Written(Kernels[call.kernel][0])' = Written(Ops)
  BY Zenon DEF Ops
<1>. QED BY Zenon, <1>1 DEF Kept, HoldsWords

\* The device leaves the buffers that the kernel does not write.
LEMMA DeviceKept ==
  ASSUME KernelsRaceFree, HostInv, Kept, NEW t \in Tids, DeviceStep(t)
  PROVE  Kept'
<1>1. InCall /\ host' = host
  BY Zenon, DeviceMoves DEF ThreadMoves
<1>2. Ops' = Ops /\ bufs' = bufs /\ args' = args /\ call' = call /\ (InCall' <=> InCall)
  BY Zenon, <1>1, SameWords
<1>3. Written(Ops)' = Written(Ops)
  BY <1>2, WrittenSame
<1>4. ASSUME NEW b \in bufs, b.addr \notin Written(Ops)
      PROVE  HoldsWords(mem', b)
  <2>1. HoldsWords(mem, b)
    BY Zenon, <1>4, KeptHolds
  <2>2. \A j \in 0 .. Len(b.words) - 1 : mem'[b.addr + j] = mem[b.addr + j]
    BY Zenon, <1>4, DeviceWrites
  <2>. QED BY Zenon, <2>1, <2>2, HoldsOn
<1>. QED BY Zenon, <1>1, <1>2, <1>3, <1>4, KeptNext

\* A new buffer holds its words, and the others theirs.
LEMMA AddsKept ==
  ASSUME HostInv, Kept, NEW a \in Nat, NEW words \in Seq(Nat), Adds(a, words), call.at = "none", call' = call
  PROVE  Kept'
<1>1. ~InCall
  BY DEF InCall
<1>2. /\ heap <= a /\ bufs' = bufs \union {[addr |-> a, words |-> words]}
      /\ \A x \in 0 .. HEAP_END - 1 : x < a \/ a + Len(words) <= x => mem'[x] = mem[x]
      /\ \A k \in 1 .. Len(words) : mem'[a + k - 1] = words[k]
  BY Zenon DEF Adds, Holding
<1>3. ASSUME NEW b \in bufs
      PROVE  HoldsWords(mem', b)
  <2>1. HoldsWords(mem, b)
    BY Zenon, <1>1, KeptHolds
  <2>2. ASSUME NEW j \in 0 .. Len(b.words) - 1
        PROVE  mem'[b.addr + j] = mem[b.addr + j]
    <3>1. b.addr + Len(b.words) <= heap /\ b.addr + j \in 0 .. HEAP_END - 1
      <4>1. b.addr + j \in HEAP_BASE .. HEAP_END - 1
        BY InHeap
      <4>2. b.addr + Len(b.words) <= heap
        BY Zenon DEF HostInv, BuffersApart
      <4>. QED BY <4>1, <4>2, Areas
    <3>2. heap \in Nat /\ b.addr \in Nat /\ Len(b.words) \in Nat
      <4>1. heap \in HEAP_BASE .. HEAP_END
        BY Zenon DEF HostInv, HostType
      <4>2. heap \in Nat
        BY <4>1, Areas
      <4>. QED BY Zenon, <4>2, BuffersNamed
    <3>3. b.addr + j < a
      BY <1>2, <3>1, <3>2
    <3>. QED BY <1>2, <3>1, <3>3
  <2>. QED BY Zenon, <2>1, <2>2, HoldsOn
<1>4. HoldsWords(mem', [addr |-> a, words |-> words])
  <2>1. [addr |-> a, words |-> words].addr = a /\ [addr |-> a, words |-> words].words = words
    OBVIOUS
  <2>2. DOMAIN words = 1 .. Len(words)
    OBVIOUS
  <2>. QED BY Zenon, <1>2, <2>1, <2>2 DEF HoldsWords
<1>5. \A b \in bufs' : HoldsWords(mem', b)
  BY Zenon, <1>2, <1>3, <1>4
<1>. QED BY Zenon, <1>5 DEF Kept, HoldsWords

\* Outside a launch, what changes neither the memory nor adds a buffer
LEMMA StillKept ==
  ASSUME HostInv, Kept, call.at = "none", mem' = mem, bufs' \subseteq bufs
  PROVE  Kept'
<1>1. ~InCall
  BY DEF InCall
<1>2. \A b \in bufs' : HoldsWords(mem', b)
  BY Zenon, <1>1, KeptHolds
<1>. QED BY Zenon, <1>2 DEF Kept, HoldsWords

\* A launch leaves what the buffers hold.
BuffersHold == \A b \in bufs : HoldsWords(mem, b)

\* A launch leaves the words of every buffer.
LEMMA LaunchKept ==
  ASSUME HostInv, Kept, Launch
  PROVE  BuffersHold' /\ Kept'
<1>1. bufs' = bufs /\ ~InCall
  BY Zenon DEF Launch, NextOf, InCall
<1>2. \A x \in HEAP_BASE .. HEAP_END - 1 : mem'[x] = mem[x]
  BY Zenon, LaunchFacts
<1>3. ASSUME NEW b \in bufs
      PROVE  HoldsWords(mem', b)
  <2>1. HoldsWords(mem, b)
    BY Zenon, <1>1, KeptHolds
  <2>2. \A j \in 0 .. Len(b.words) - 1 : mem'[b.addr + j] = mem[b.addr + j]
    BY Zenon, <1>2, InHeap
  <2>. QED BY Zenon, <2>1, <2>2, HoldsOn
<1>4. \A b \in bufs' : HoldsWords(mem', b)
  BY Zenon, <1>1, <1>3
<1>5. BuffersHold'
  BY Zenon, <1>4 DEF BuffersHold, HoldsWords
<1>. QED BY Zenon, <1>4, <1>5 DEF Kept, HoldsWords

\* At its begin a kernel is on track.
LEMMA FreshTrack ==
  ASSUME HostInv, InCall, BuffersHold, thread = Asleep
  PROVE  Met /\ Computing /\ Striding
<1>1. \A t \in Tids : thread[t].at = 1 /\ thread[t].i = t /\ thread[t].w = 0
  BY DEF Asleep
<1>2. PICK n \in Nat : n = Len(Ops) /\ DOMAIN Ops = 1 .. n
  BY Zenon, OpsFacts
<1>3. PICK m \in Nat \ {0} : m = NTHREADS /\ Tids = 0 .. m - 1
  BY Areas
<1>4. Met
  <2>1. \A p \in DOMAIN Ops : \A t \in Tids, u \in Tids :
          ~(thread[t].at > p) /\ ~(u + 1 < thread[t].w)
    <3>1. \A p \in DOMAIN Ops : ~(1 > p)
      BY <1>2
    <3>2. \A u \in Tids : ~(u + 1 < 0)
      BY <1>3
    <3>. QED BY <1>1, <3>1, <3>2
  <2>. QED BY Zenon, <2>1 DEF Met
<1>5. Striding
  <2>1. \A t \in Tids : t % m = t /\ 0 <= m
    BY <1>3
  <2>. QED BY <1>1, <1>3, <2>1 DEF Striding
<1>6. ASSUME NEW b \in bufs, NEW j \in 0 .. Len(b.words) - 1
      PROVE  mem[b.addr + j] = WordsLeft(Level(thread[j % NTHREADS], j), b)[j + 1]
  <2>1. PICK t \in Tids : t = j % NTHREADS
    <3>1. j \in Int /\ NTHREADS \in Nat \ {0} /\ Tids = 0 .. NTHREADS - 1
      BY Areas
    <3>2. j % NTHREADS \in Tids
      BY <3>1, Quotient
    <3>. QED BY <3>2
  <2>2. thread[t] \in PlaceType
    BY Zenon DEF HostInv, HostType, PlaceType
  <2>3. ~(j < t)
    <3>1. j \in Nat /\ (j < m => j % m = j)
      OBVIOUS
    <3>. QED BY <1>3, <2>1, <3>1
  <2>4. Level(thread[t], j) = 0
    <3>1. /\ 1 \notin DOMAIN Ops => Level(thread[t], j) = n
          /\ 1 \in DOMAIN Ops /\ Ops[1].op \notin {"add", "barrier"} => Level(thread[t], j) = 1 - 1
          /\ 1 \in DOMAIN Ops /\ Ops[1].op = "add" => Level(thread[t], j) = IF j < t THEN 1 ELSE 1 - 1
          /\ 1 \in DOMAIN Ops /\ Ops[1].op = "barrier" => Level(thread[t], j) = IF 0 > 0 THEN 1 ELSE 1 - 1
      BY <1>1, <1>2, <2>2, LevelCases
    <3>2. 1 \notin DOMAIN Ops => n = 0
      BY <1>2
    <3>. QED BY <2>3, <3>1, <3>2
  <2>5. WordsLeft(0, b) = b.words
    BY WordsShape
  <2>6. mem[b.addr + j] = b.words[j + 1]
    <3>1. PICK a \in Nat, l \in Nat : a = b.addr /\ l = Len(b.words) /\ DOMAIN b.words = 1 .. l
      BY BuffersNamed
    <3>2. j + 1 \in DOMAIN b.words /\ a + (j + 1) - 1 = a + j
      BY <3>1
    <3>3. mem[b.addr + (j + 1) - 1] = b.words[j + 1]
      BY Zenon, <3>2 DEF BuffersHold, HoldsWords
    <3>. QED BY <3>1, <3>2, <3>3
  <2>. QED BY <2>1, <2>4, <2>5, <2>6
<1>7. Computing
  BY Zenon, <1>6 DEF Computing
<1>. QED BY <1>4, <1>5, <1>7

\* When every thread is done, the memory holds what the kernel computes.
LEMMA EndedWords ==
  ASSUME KernelsRaceFree, HostInv, OnTrack, InCall, done_sum = NTHREADS,
         NEW b \in bufs, NEW j \in 0 .. Len(b.words) - 1
  PROVE  mem[b.addr + j] = WordsLeft(Len(Ops), b)[j + 1]
<1>1. PICK n \in Nat : n = Len(Ops) /\ DOMAIN Ops = 1 .. n
  BY Zenon, OpsFacts
<1>2. \A t \in Tids : mem[DONE_BASE + t] = 1 /\ thread[t].at = Len(Script(t)) + 2
  <2>1. \A t \in Tids : mem[DONE_BASE + t] = 1
    BY Zenon, AllDone
  <2>. QED BY Zenon, <2>1 DEF HostInv, ThreadsPlaced
<1>3. Computing
  <2>1. \A t \in Tids : ~Trapped(t)
    BY <1>2 DEF Trapped
  <2>. QED BY Zenon, <2>1 DEF OnTrack
<1>4. PICK t \in Tids : t = j % NTHREADS
  <2>1. j \in Int /\ NTHREADS \in Nat \ {0} /\ Tids = 0 .. NTHREADS - 1
    BY Areas
  <2>2. j % NTHREADS \in Tids
    BY <2>1, Quotient
  <2>. QED BY <2>2
<1>5. thread[t] \in PlaceType
  BY Zenon DEF HostInv, HostType, PlaceType
<1>6. PICK l \in Nat, p \in Nat \ {0} : l = Len(Script(t)) /\ DOMAIN Script(t) = 1 .. l /\ p = thread[t].at /\ p = l + 2
  BY <1>2, OpsHeld, ScriptFacts
<1>7. \A q \in DOMAIN Ops : q > l => ~DataOp(Ops[q])
  <2>1. SameOps
    BY RaceFacts
  <2>2. \A q \in DOMAIN Ops : q > l => q \notin DOMAIN Script(t)
    BY <1>1, <1>6
  <2>. QED BY Zenon, <2>1, <2>2 DEF SameOps
<1>8. mem[b.addr + j] = WordsLeft(Level(thread[t], j), b)[j + 1]
  BY Zenon, <1>3, <1>4 DEF Computing
<1>9. CASE p \notin DOMAIN Ops
  BY <1>5, <1>6, <1>8, <1>9, LevelCases
<1>10. CASE p \in DOMAIN Ops
  <2>1. ~DataOp(Ops[p])
    BY <1>6, <1>7, <1>10
  <2>2. Level(thread[t], j) = p - 1
    BY <1>5, <1>6, <1>10, <2>1, LevelCases DEF DataOp
  <2>3. \A q \in (p - 1) + 1 .. n : WordsLeft(q, b) = WordsLeft(q - 1, b)
    <3> TAKE q \in (p - 1) + 1 .. n
    <3>1. q \in DOMAIN Ops /\ q > l
      BY <1>1, <1>6
    <3>. QED BY <1>7, <3>1, OtherWords
  <2>4. WordsLeft(n, b) = WordsLeft(p - 1, b)
    <3>1. p - 1 \in Nat /\ p - 1 <= n
      BY <1>1, <1>10
    <3>. QED BY <2>3, <3>1, Untouched
  <2>. QED BY <1>1, <1>8, <2>2, <2>4
<1>. QED BY <1>9, <1>10

-----------------------------------------------------------------------------
(* What a buffer reads back as *)

\* A step of the host's that leaves the call, the buffers and the device as they are
LEMMA CallKeepsTrack ==
  ASSUME Kept, OnTrack, InCall, InCall', UNCHANGED <<mem, bufs, args, thread>>, call'.kernel = call.kernel
  PROVE  Kept' /\ OnTrack'
<1>0. mem' = mem /\ bufs' = bufs /\ args' = args /\ thread' = thread
  OBVIOUS
<1>1. Ops' = Ops /\ Written(Ops)' = Written(Ops)
  BY WrittenSame
<1>2. HeldAfter(Ops)' = HeldAfter(Ops)
  BY <1>1 DEF HeldAfter, Effect, Result, WordsAt, Total
<1>3. Kept'
  <2>1. ASSUME NEW b \in bufs', b.addr \notin Written(Ops)
        PROVE  HoldsWords(mem', b)
    <3>1. b \in bufs /\ mem' = mem
      BY <2>1
    <3>. QED BY Zenon, <2>1, <3>1 DEF Kept, HoldsWords, Ops
  <2>. QED BY Zenon, <1>1, <2>1, KeptNext
<1>4. (\A t \in Tids : ~Trapped(t))' => Met /\ Computing /\ Striding
  <2>1. (\A t \in Tids : ~Trapped(t))' => \A t \in Tids : ~Trapped(t)
    BY DEF Trapped, Script
  <2>. QED BY Zenon, <2>1 DEF OnTrack
<1>5. Met => Met'
  <2> SUFFICES ASSUME Met PROVE Met'
    OBVIOUS
  <2>1. \A u \in Tids, q \in DOMAIN Ops : Arrived(u, q)' <=> Arrived(u, q)
    BY <1>0 DEF Arrived
  <2>2. \A q \in DOMAIN Ops : Ops'[q].op = "barrier" => \A x, u \in Tids :
          /\ thread'[x].at > q => Arrived(u, q)'
          /\ thread'[x].at = q /\ u + 1 < thread'[x].w => Arrived(u, q)'
    BY Zenon, <1>0, <1>1, <2>1 DEF Met
  <2>. QED BY Zenon, <1>1, <2>2 DEF Met
<1>6. Striding => Striding'
  BY DEF Striding
<1>7. Computing => Computing'
  <2> SUFFICES ASSUME Computing PROVE Computing'
    OBVIOUS
  <2>1. ASSUME NEW b \in bufs, NEW j \in 0 .. Len(b.words) - 1
        PROVE  mem'[b.addr + j] = WordsAt(HeldAfter(Ops)'[Level(thread[j % NTHREADS], j)'], b.addr)[j + 1]
    <3>1. Level(thread[j % NTHREADS], j)' = Level(thread[j % NTHREADS], j)
      BY <1>0, <1>1 DEF Level
    <3>2. \A l : WordsAt(HeldAfter(Ops)'[l], b.addr) = WordsLeft(l, b)
      BY <1>2 DEF WordsLeft
    <3>. QED BY ZenonT(40), <1>0, <3>1, <3>2 DEF Computing
  <2>. QED BY Zenon, <1>0, <2>1 DEF Computing, WordsLeft, WordsAt
<1>. QED BY Zenon, <1>3, <1>4, <1>5, <1>6, <1>7 DEF OnTrack

\* With no call there is nothing to be on track of.
LEMMA NoTrack ==
  ASSUME call'.at = "none"
  PROVE  OnTrack'
BY DEF OnTrack, InCall

\* A launch begins on track.
LEMMA LaunchTrack ==
  ASSUME HostInv, HostInv', Kept, Launch
  PROVE  OnTrack'
<1>1. BuffersHold'
  BY Zenon, LaunchKept
<1>2. (thread = Asleep)'
  BY Zenon DEF Launch, Asleep
<1>3. HostInv' /\ InCall' /\ BuffersHold' /\ (thread = Asleep)' => Met' /\ Computing' /\ Striding'
  BY FreshTrack, PTL
<1>. QED BY Zenon, <1>1, <1>2, <1>3 DEF OnTrack

\* The buffers after the kernel
LEMMA ComputedHeld ==
  ASSUME KernelsRaceFree, HostInv, OnTrack, InCall, done_sum = NTHREADS,
         NEW c \in Computed(call.kernel)
  PROVE  HoldsWords(mem, c)
<1>1. PICK n \in Nat : n = Len(Ops) /\ DOMAIN Ops = 1 .. n
  BY Zenon, OpsFacts
<1>2. Computed(call.kernel) = HeldAfter(Ops)[n]
  BY Zenon, <1>1 DEF Computed, Ops
<1>3. PICK f \in Contents : HeldAfter(Ops)[n] = Shape(f)
  <2>1. n \in 0 .. n
    OBVIOUS
  <2>. QED BY Zenon, <1>1, <2>1, AfterShape
<1>4. PICK b \in bufs : c = [addr |-> b.addr, words |-> f[b]]
  BY Zenon, <1>2, <1>3 DEF Shape
<1>5. WordsLeft(n, b) = f[b]
  BY Zenon, <1>3, WordsFound DEF WordsLeft
<1>6. PICK a \in Nat, l \in Nat : a = b.addr /\ l = Len(b.words)
  BY BuffersNamed
<1>7. f[b] \in Seq(Nat) /\ Len(f[b]) = l
  BY <1>6 DEF Contents
<1>8. c.addr = a /\ c.words = f[b] /\ DOMAIN c.words = 1 .. l
  BY <1>4, <1>6, <1>7
<1>9. ASSUME NEW k \in 1 .. l
      PROVE  mem[a + k - 1] = f[b][k]
  <2>1. k - 1 \in 0 .. l - 1 /\ a + (k - 1) = a + k - 1 /\ (k - 1) + 1 = k
    OBVIOUS
  <2>2. mem[b.addr + (k - 1)] = WordsLeft(Len(Ops), b)[(k - 1) + 1]
    BY Zenon, <1>6, <2>1, EndedWords
  <2>. QED BY Zenon, <1>1, <1>5, <1>6, <2>1, <2>2
<1>. QED BY Zenon, <1>8, <1>9 DEF HoldsWords

\* A launch that ended leaves the results in the buffers; one that did not, no promise for what it writes.
LEMMA PollKept ==
  ASSUME KernelsRaceFree, HostInv, Kept, OnTrack, Poll
  PROVE  Kept' /\ OnTrack'
<1>1. /\ InCall /\ UNCHANGED <<mem, args, thread>> /\ call'.kernel = call.kernel
      /\ \/ done_sum = NTHREADS /\ bufs' = Computed(call.kernel) /\ call'.at = "none"
         \/ call'.at = "loop" /\ bufs' = bufs
         \/ bufs' = Forgotten(call.kernel) /\ call'.at = "none"
  BY Zenon, PollCases
<1>2. Ops' = Ops /\ Written(Ops)' = Written(Ops)
  BY <1>1, WrittenSame
<1>3. CASE call'.at = "loop" /\ bufs' = bufs
  <2>1. InCall'
    BY <1>3 DEF InCall
  <2>. QED BY Zenon, <1>1, <1>3, <2>1, CallKeepsTrack
<1>4. CASE done_sum = NTHREADS /\ bufs' = Computed(call.kernel) /\ call'.at = "none"
  <2>1. \A b \in bufs' : HoldsWords(mem', b)
    BY Zenon, <1>1, <1>4, ComputedHeld
  <2>. QED BY Zenon, <1>2, <1>4, <2>1, KeptNext, NoTrack
<1>5. CASE bufs' = Forgotten(call.kernel) /\ call'.at = "none"
  <2>1. \A b \in bufs' : b \in bufs /\ b.addr \notin Written(Ops)
    BY Zenon, <1>5 DEF Forgotten, Ops
  <2>2. \A b \in bufs' : HoldsWords(mem', b)
    BY Zenon, <1>1, <2>1, KeptHolds
  <2>. QED BY Zenon, <1>2, <1>5, <2>2, KeptNext, NoTrack
<1>. QED BY Zenon, <1>1, <1>3, <1>4, <1>5

\* Every step keeps what the buffers hold.
LEMMA ViewStep ==
  ASSUME KernelsRaceFree, HostInv, HostInv', Kept, OnTrack, [HostNext]_hostVars
  PROVE  Kept' /\ OnTrack'
<1>1. CASE UNCHANGED hostVars
  <2>1. UNCHANGED <<mem, bufs, args, thread, call>>
    BY <1>1 DEF hostVars
  <2>2. CASE InCall
    <3>1. InCall' /\ call'.kernel = call.kernel
      BY <2>1, <2>2 DEF InCall
    <3>. QED BY Zenon, <2>1, <2>2, <3>1, CallKeepsTrack
  <2>3. CASE ~InCall
    <3>1. call.at = "none"
      <4>1. call \in [at : {"none", "loop", "run"}, kernel : Nat, ran : Nat]
        BY Zenon DEF HostInv, HostType
      <4>. QED BY <2>3, <4>1 DEF InCall
    <3>2. call'.at = "none" /\ bufs' \subseteq bufs
      BY <2>1, <3>1
    <3>. QED BY Zenon, <2>1, <3>1, <3>2, StillKept, NoTrack
  <2>. QED BY <2>2, <2>3
<1>2. CASE ToDevice \/ Out
  <2>1. call.at = "none" /\ call' = call
    BY <1>2 DEF ToDevice, Out, NextOf
  <2>2. PICK a \in Nat, words \in Seq(Nat) : Adds(a, words)
    BY Zenon, <1>2, ToDeviceAdds, OutAdds
  <2>3. call'.at = "none"
    BY <2>1
  <2>. QED BY Zenon, <2>1, <2>2, <2>3, AddsKept, NoTrack
<1>3. CASE IntArg \/ Exhausted \/ Begin
  <2>1. call.at = "none" /\ call'.at = "none" /\ mem' = mem /\ bufs' \subseteq bufs
    BY <1>3 DEF IntArg, NextOf, Exhausted, Begin
  <2>. QED BY Zenon, <2>1, StillKept, NoTrack
<1>4. CASE Launch
  BY Zenon, <1>4, LaunchKept, LaunchTrack
<1>5. CASE RUN
  <2>1. UNCHANGED <<mem, bufs, args, thread>> /\ call'.kernel = call.kernel /\ InCall /\ InCall'
    <3>1. call \in [at : {"none", "loop", "run"}, kernel : Nat, ran : Nat]
      BY Zenon DEF HostInv, HostType
    <3>. QED BY <1>5, <3>1 DEF RUN, InCall
  <2>. QED BY Zenon, <2>1, CallKeepsTrack
<1>6. CASE Poll
  BY Zenon, <1>6, PollKept
<1>7. CASE \E t \in Tids : DeviceStep(t)
  BY Zenon, <1>7, DeviceKept, DeviceTrack
<1>. QED BY Zenon, <1>1, <1>2, <1>3, <1>4, <1>5, <1>6, <1>7 DEF HostNext, HostStep

\* At first the program holds nothing.
LEMMA InitView == HostInit => Kept /\ OnTrack
<1> SUFFICES ASSUME HostInit PROVE Kept /\ OnTrack
  OBVIOUS
<1>1. bufs = {} /\ ~InCall
  BY DEF HostInit, NoCall, InCall
<1>. QED BY Zenon, <1>1 DEF Kept, OnTrack

\* What is kept is what the program reads.
LEMMA KeptView ==
  ASSUME HostInv, Kept
  PROVE  HostView
<1>1. ASSUME NEW b \in bufs, call.at = "none"
      PROVE  Get(mem, b.addr, Len(b.words)) = b.words
  <2>1. ~InCall
    BY <1>1 DEF InCall
  <2>2. PICK n \in Nat, w \in Seq(Nat) : w = b.words /\ n = Len(w) /\ DOMAIN w = 1 .. n
    BY BuffersNamed
  <2>3. \A k \in 1 .. n : mem[b.addr + k - 1] = w[k]
    BY Zenon, <2>1, <2>2, KeptHolds DEF HoldsWords
  <2>4. Get(mem, b.addr, n) = [k \in 1 .. n |-> w[k]]
    BY Zenon, <2>3 DEF Get
  <2>5. w = [k \in 1 .. n |-> w[k]]
    BY <2>2, SMTT(30)
  <2>. QED BY <2>2, <2>4, <2>5
<1>2. call.kernel # 0 => (IF transport = "uio" THEN imem[0] ELSE mem[0]) = call.kernel
  BY Zenon DEF HostInv, ImageLaunched
<1>. QED BY Zenon, <1>1, <1>2 DEF HostView

\* mkcuda.py launch: with kernels whose threads meet at a barrier before they read each
\* other's words, in every interleaving, a buffer reads back as the program wrote it or
\* as the result of every kernel that ended since, whatever was allocated, launched,
\* trapped or timed out in between; and the image in memory is the one launched.
THEOREM ViewHolds ==
  ASSUME KernelsRaceFree
  PROVE  HostSpec => []HostView
<1>1. HostInit => HostInv /\ Kept /\ OnTrack
  BY InitHost, InitView
<1>2. HostInv /\ Kept /\ OnTrack /\ [HostNext]_hostVars => HostInv' /\ Kept' /\ OnTrack'
  <2> SUFFICES ASSUME HostInv, Kept, OnTrack, [HostNext]_hostVars PROVE HostInv' /\ Kept' /\ OnTrack'
    OBVIOUS
  <2>1. HostInv'
    BY HostInvStep
  <2>. QED BY Zenon, <2>1, ViewStep
<1>3. HostInv /\ Kept => HostView
  BY KeptView
<1>. QED BY <1>1, <1>2, <1>3, PTL DEF HostSpec
=============================================================================
