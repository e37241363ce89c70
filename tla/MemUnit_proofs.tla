---------------------------- MODULE MemUnit_proofs ----------------------------
(***************************************************************************)
(* The memory unit, for every number of lanes, bytes in a word, words of   *)
(* memory and access sizes that divide a word: a drained instruction has   *)
(* done what its lanes do one after the other, and its beats are those of  *)
(* the golden coalescer, in order.                                         *)
(***************************************************************************)
EXTENDS MemUnit, RingTheorems, FiniteSetTheorems

-----------------------------------------------------------------------------
(* First and last lanes *)

\* The least of a set of lanes
LEMMA MinOf ==
  ASSUME NEW S, S \subseteq Nat, S # {}
  PROVE  Min(S) \in S /\ \A y \in S : Min(S) <= y
<1>1. \E x \in S : \A y \in S : x <= y
  BY Least
<1>. QED BY <1>1 DEF Min

\* The greatest
LEMMA MaxOf ==
  ASSUME NEW n \in Nat, NEW S, S \subseteq 0 .. n, S # {}
  PROVE  Max(S) \in S /\ \A y \in S : y <= Max(S)
<1>1. \E x \in S : \A y \in S : y <= x
  BY Greatest
<1>2. \E x \in S : \A y \in S : x >= y
  <2>1. PICK x \in S : \A y \in S : y <= x
    BY <1>1
  <2>2. \A y \in S : x >= y
    BY <2>1
  <2>. QED BY <2>2
<1>3. PICK x \in 0 .. n : x = Max(S) /\ x \in S /\ \A y \in S : x >= y
  BY <1>2 DEF Max
<1>4. \A y \in S : y <= x
  BY <1>3
<1>. QED BY <1>3, <1>4

\* Whoever is in it and not below another is it.
LEMMA MaxIs ==
  ASSUME NEW n \in Nat, NEW S, S \subseteq 0 .. n, NEW x \in S, \A y \in S : y <= x
  PROVE  Max(S) = x
<1>1. PICK z \in 0 .. n : z = Max(S) /\ z \in S /\ \A y \in S : y <= z
  BY MaxOf
<1>2. x \in 0 .. n /\ x <= z /\ z <= x
  BY <1>1
<1>. QED BY <1>1, <1>2

-----------------------------------------------------------------------------
(* Aligned accesses stay in their word *)

Memory == 0 .. Words * Unit - 1

\* An instruction's accesses
Accesses(addrs, size) ==
  /\ size \in Sizes
  /\ LanesOf(addrs) \subseteq Lanes /\ LanesOf(addrs) # {}
  /\ addrs \in [LanesOf(addrs) -> {a \in Memory : a % size = 0}]

\* An access of a size that divides a word lies in the word of its address.
LEMMA InOneWord ==
  ASSUME NEW size \in Sizes, NEW a \in Nat, a % size = 0, NEW i \in Bytes(size)
  PROVE  Word(a + i) = Word(a) /\ (Word(a) * Unit) + (a % Unit) = a
<1>1. PICK u \in Nat \ {0} : u = Unit
  BY WordsAssumption
<1>2. PICK s \in 1 .. u : s = size /\ u % s = 0
  BY <1>1, SizesAssumption
<1>3. PICK w \in Int, r \in 0 .. u - 1 : w = a \div u /\ r = a % u /\ a = u * w + r
  <2>1. a = u * (a \div u) + (a % u) /\ a % u \in 0 .. u - 1 /\ a \div u \in Int
    BY Quotient
  <2>. QED BY <2>1
<1>4. PICK q \in Int : u = s * q
  <2>1. u = s * (u \div s) + (u % s) /\ u \div s \in Int
    BY <1>2, Quotient
  <2>. QED BY <1>2, <2>1
<1>5. PICK p \in Int : a = s * p
  <2>1. a = s * (a \div s) + (a % s) /\ a \div s \in Int
    BY <1>2, Quotient
  <2>2. a % s = 0
    BY <1>2
  <2>. QED BY <2>1, <2>2
<1>6. PICK t \in Int : r = s * t
  <2>1. u * w = s * (q * w) /\ q * w \in Int
    BY <1>4
  <2>2. r = s * p - s * (q * w)
    BY <1>3, <1>5, <2>1
  <2>3. s * p - s * (q * w) = s * (p - q * w) /\ p - q * w \in Int
    BY <2>1
  <2>. QED BY <2>2, <2>3
<1>7. r + s <= u
  <2>1. t < q
    <3>1. ASSUME ~(t < q) PROVE FALSE
      <4>1. PICK d \in Nat : t = q + d
        <5>1. t - q \in Nat /\ t = q + (t - q)
          BY <3>1
        <5>. QED BY <5>1
      <4>2. s * t = s * q + s * d /\ s * d \in Nat
        BY <4>1
      <4>. QED BY <1>3, <1>4, <1>6, <4>2
    <3>. QED BY <3>1
  <2>2. PICK d \in Nat : q = t + 1 + d
    <3>1. q - t - 1 \in Nat /\ q = t + 1 + (q - t - 1)
      BY <2>1
    <3>. QED BY <3>1
  <2>3. s * q = s * t + s + s * d /\ s * d \in Nat
    BY <2>2
  <2>. QED BY <1>4, <1>6, <2>3
<1>8. PICK x \in 0 .. u - 1 : x = r + i
  BY <1>2, <1>7 DEF Bytes
<1>9. a + i = u * w + x
  BY <1>3, <1>8 DEF Bytes
<1>10. (a + i) \div u = w
  <2>1. PICK y \in Int : y = a + i
    BY DEF Bytes
  <2>2. PICK b \in Int, z \in 0 .. u - 1 : b = y \div u /\ z = y % u /\ y = u * b + z
    <3>1. y = u * (y \div u) + (y % u) /\ y % u \in 0 .. u - 1 /\ y \div u \in Int
      BY Quotient
    <3>. QED BY <3>1
  <2>3. z = x
    BY <1>9, <2>1, <2>2, Remainder
  <2>4. u * (b - w) = 0 /\ b - w \in Int
    <3>1. u * b = u * w
      <4>1. u * b \in Int /\ u * w \in Int /\ u * b + z = u * w + x
        BY <1>9, <2>1, <2>2
      <4>. QED BY <2>3, <4>1
    <3>. QED BY <3>1
  <2>5. b = w
    BY <2>4
  <2>. QED BY <2>1, <2>2, <2>5
<1>11. w * u = u * w
  OBVIOUS
<1>. QED BY <1>1, <1>3, <1>10, <1>11 DEF Word

\* A word of memory
LEMMA WordOfMemory ==
  ASSUME NEW a \in Memory
  PROVE  a \in Nat /\ Word(a) \in 0 .. Words - 1
<1>1. PICK u \in Nat \ {0}, h \in Nat : u = Unit /\ h = Words
  BY WordsAssumption
<1>2. a \in 0 .. (h * u) - 1
  BY <1>1 DEF Memory
<1>3. PICK r \in 0 .. h - 1, c \in 0 .. u - 1 : a = (r * u) + c
  BY <1>2, RowAndColumn
<1>4. a \div u = r
  BY <1>3, PlaceOf
<1>5. a \in Nat
  BY <1>1, <1>2
<1>. QED BY <1>1, <1>4, <1>5 DEF Word

-----------------------------------------------------------------------------
(* The lanes one after the other *)

\* The lanes of S that store byte a, and what memory holds when they have
Writers(addrs, size, S, a) == {l \in S : a - addrs[l] \in Bytes(size)}
Stored(addrs, size, S) ==
  [a \in Memory |->
     LET last == Max(Writers(addrs, size, S, a))
     IN  IF Writers(addrs, size, S, a) = {} THEN Old ELSE <<last, a - addrs[last]>>]

Below(addrs, n) == {l \in LanesOf(addrs) : l < n}

\* How far the lanes reach
LEMMA ReachIs ==
  ASSUME NEW addrs, NEW size, Accesses(addrs, size)
  PROVE  /\ Reach(addrs) \in Nat /\ Below(addrs, 0) = {}
         /\ Below(addrs, Reach(addrs)) = LanesOf(addrs)
         /\ \A l \in LanesOf(addrs) : l \in 0 .. Reach(addrs) - 1
<1>1. PICK n \in Nat : n = L - 1 /\ Lanes = 0 .. n
  BY LanesAssumption DEF Lanes
<1>2. LanesOf(addrs) \subseteq 0 .. n /\ LanesOf(addrs) # {}
  BY <1>1 DEF Accesses
<1>3. PICK x \in 0 .. n : x = Max(LanesOf(addrs)) /\ \A y \in LanesOf(addrs) : y <= x
  BY <1>1, <1>2, MaxOf
<1>4. Reach(addrs) = x + 1
  BY <1>3 DEF Reach
<1>. QED BY <1>2, <1>3, <1>4 DEF Below

\* One lane more
LEMMA StoredNext ==
  ASSUME NEW addrs, NEW size, Accesses(addrs, size), NEW k \in Nat
  PROVE  Stored(addrs, size, Below(addrs, k + 1)) =
           IF k \in LanesOf(addrs)
           THEN StoreLane(Stored(addrs, size, Below(addrs, k)), addrs, size, k)
           ELSE Stored(addrs, size, Below(addrs, k))
<1>1. PICK n \in Nat : LanesOf(addrs) \subseteq 0 .. n
  <2>1. LanesOf(addrs) \subseteq 0 .. L - 1 /\ L - 1 \in Nat
    BY LanesAssumption DEF Accesses, Lanes
  <2>. QED BY <2>1
<1>2. PICK S : S = Below(addrs, k)
  OBVIOUS
<1>3. CASE k \notin LanesOf(addrs)
  <2>1. Below(addrs, k + 1) = Below(addrs, k)
    BY <1>1, <1>3 DEF Below
  <2>. QED BY <1>3, <2>1
<1>4. CASE k \in LanesOf(addrs)
  <2>1. Below(addrs, k + 1) = S \union {k} /\ \A l \in S : l < k /\ l \in 0 .. n
    BY <1>1, <1>2, <1>4 DEF Below
  <2>2. ASSUME NEW a \in Memory
        PROVE  Stored(addrs, size, S \union {k})[a] =
                 IF a - addrs[k] \in Bytes(size) THEN <<k, a - addrs[k]>>
                 ELSE Stored(addrs, size, S)[a]
    <3>1. CASE a - addrs[k] \in Bytes(size)
      <4>1. PICK T : T = Writers(addrs, size, S \union {k}, a)
        OBVIOUS
      <4>2. k \in T /\ T \subseteq 0 .. n /\ \A l \in T : l <= k
        BY <1>1, <1>4, <2>1, <3>1, <4>1 DEF Writers
      <4>3. Max(T) = k
        BY <4>2, MaxIs
      <4>. QED BY <3>1, <4>1, <4>2, <4>3 DEF Stored
    <3>2. CASE a - addrs[k] \notin Bytes(size)
      <4>1. Writers(addrs, size, S \union {k}, a) = Writers(addrs, size, S, a)
        BY <3>2 DEF Writers
      <4>. QED BY <3>2, <4>1 DEF Stored
    <3>. QED BY <3>1, <3>2
  <2>3. DOMAIN Stored(addrs, size, S) = Memory
    BY DEF Stored
  <2>4. StoreLane(Stored(addrs, size, S), addrs, size, k) =
          [a \in Memory |-> IF a - addrs[k] \in Bytes(size) THEN <<k, a - addrs[k]>>
                            ELSE Stored(addrs, size, S)[a]]
    BY <2>3 DEF StoreLane
  <2>5. Stored(addrs, size, S \union {k}) =
          [a \in Memory |-> Stored(addrs, size, S \union {k})[a]]
    BY DEF Stored
  <2>6. Stored(addrs, size, S \union {k}) = StoreLane(Stored(addrs, size, S), addrs, size, k)
    BY <2>2, <2>4, <2>5
  <2>. QED BY <1>2, <1>4, <2>1, <2>6
<1>. QED BY <1>3, <1>4

\* The lanes one after the other leave, in each byte, the highest lane's.
LEMMA SerialIs ==
  ASSUME NEW addrs, NEW size, Accesses(addrs, size)
  PROVE  LaneSerial(Before, addrs, size) = Stored(addrs, size, LanesOf(addrs))
<1>1. PICK n \in Nat : n = Reach(addrs)
  BY ReachIs
<1> DEFINE body(h) == [to \in 0 .. n |->
                         IF to = 0 THEN Before
                         ELSE IF to - 1 \in LanesOf(addrs)
                              THEN StoreLane(h[to - 1], addrs, size, to - 1)
                         ELSE h[to - 1]]
           after == CHOOSE h : h = body(h)
           f == [to \in 0 .. n |-> Stored(addrs, size, Below(addrs, to))]
<1>2. LaneSerial(Before, addrs, size) = after[n]
  BY <1>1 DEF LaneSerial
<1>3. Stored(addrs, size, Below(addrs, 0)) = Before
  <2>1. Below(addrs, 0) = {}
    BY ReachIs
  <2>2. Stored(addrs, size, {}) = [a \in Memory |-> Old]
    BY DEF Stored, Writers
  <2>. QED BY <2>1, <2>2 DEF Before, Memory
<1>4. \A to \in 0 .. n : to # 0 =>
        f[to] = IF to - 1 \in LanesOf(addrs) THEN StoreLane(f[to - 1], addrs, size, to - 1)
                ELSE f[to - 1]
  <2>1. ASSUME NEW to \in 0 .. n, to # 0
        PROVE  f[to] = IF to - 1 \in LanesOf(addrs) THEN StoreLane(f[to - 1], addrs, size, to - 1)
                       ELSE f[to - 1]
    <3>1. PICK k \in 0 .. n - 1 : to = k + 1 /\ to - 1 = k /\ k \in 0 .. n
      BY <2>1
    <3>. QED BY <3>1, StoredNext
  <2>. QED BY <2>1
<1>5. f[0] = Before
  BY <1>3
<1>6. f = body(f)
  <2>1. f = [to \in 0 .. n |-> f[to]]
    OBVIOUS
  <2> HIDE DEF f
  <2>. QED BY <1>4, <1>5, <2>1
<1>7. after = body(after)
  <2> HIDE DEF f
  <2>. QED BY <1>6
<1> HIDE DEF after
<1>8. \A to \in 0 .. n : after[to] = f[to]
  <2> DEFINE P == {to \in 0 .. n : after[to] = f[to]}
  <2>1. 0 \in P
    <3>1. 0 \in 0 .. n
      OBVIOUS
    <3>2. after[0] = Before
      BY <1>7, <3>1
    <3>. QED BY <1>5, <3>1, <3>2
  <2>2. ASSUME NEW k \in 0 .. n - 1, k \in P
        PROVE  k + 1 \in P
    <3>1. k + 1 \in 0 .. n /\ k + 1 # 0 /\ (k + 1) - 1 = k
      OBVIOUS
    <3>2. after[k + 1] = IF k \in LanesOf(addrs) THEN StoreLane(after[k], addrs, size, k)
                         ELSE after[k]
      BY <1>7, <3>1
    <3>3. f[k + 1] = IF k \in LanesOf(addrs) THEN StoreLane(f[k], addrs, size, k) ELSE f[k]
      <4> HIDE DEF f
      <4>. QED BY <1>4, <3>1
    <3> HIDE DEF f
    <3>4. after[k + 1] = f[k + 1]
      BY <2>2, <3>2, <3>3
    <3>. QED BY <3>1, <3>4
  <2>3. \A to \in 0 .. n : to \in P
    <3> HIDE DEF P
    <3>. QED BY <2>1, <2>2, Upto
  <2>. QED BY <2>3
<1>9. n \in 0 .. n /\ Below(addrs, n) = LanesOf(addrs)
  BY <1>1, ReachIs
<1>. QED BY <1>2, <1>8, <1>9

-----------------------------------------------------------------------------
(* The golden order of words *)

\* The words of the lanes below n, each once, in the order of first touchers
Ordered(addrs, o, n) ==
  /\ o \in Seq(Nat)
  /\ \A i, j \in 1 .. Len(o) : o[i] = o[j] => i = j
  /\ \A i \in 1 .. Len(o) : \E l \in Below(addrs, n) : Word(addrs[l]) = o[i]
  /\ \A l \in Below(addrs, n) : \E i \in 1 .. Len(o) : o[i] = Word(addrs[l])
  /\ \A j \in 1 .. Len(o), m \in Below(addrs, n) :
       Word(addrs[m]) = o[j] =>
         \A i \in 1 .. j - 1 : \E l \in Below(addrs, n) : l < m /\ Word(addrs[l]) = o[i]

OneLane(addrs, o, k) ==
  LET w == Word(addrs[k])
  IN  IF k \in LanesOf(addrs) /\ w \notin Range(o) THEN Append(o, w) ELSE o

\* A lane more keeps that.
LEMMA OrderNext ==
  ASSUME NEW addrs, NEW size, Accesses(addrs, size), NEW k \in Nat, NEW o, Ordered(addrs, o, k)
  PROVE  Ordered(addrs, OneLane(addrs, o, k), k + 1) /\ OneLane(addrs, o, k) \in Seq(Nat)
<1>1. PICK p : p = OneLane(addrs, o, k)
  OBVIOUS
<1>2. o \in Seq(Nat) /\ Range(o) = {o[i] : i \in 1 .. Len(o)}
  BY DEF Ordered, Range
<1>3. LanesOf(addrs) \subseteq Nat /\ \A l \in LanesOf(addrs) : Word(addrs[l]) \in Nat
  BY WordOfMemory DEF Accesses, Lanes
<1>4. CASE k \notin LanesOf(addrs)
  <2>1. p = o /\ Below(addrs, k + 1) = Below(addrs, k)
    BY <1>1, <1>3, <1>4 DEF OneLane, Below
  <2>2. Ordered(addrs, o, k + 1)
    BY <2>1 DEF Ordered
  <2>. QED BY <1>1, <1>2, <2>1, <2>2
<1>5. CASE k \in LanesOf(addrs)
  <2>1. Below(addrs, k + 1) = Below(addrs, k) \union {k} /\ \A l \in Below(addrs, k) : l < k
    BY <1>3, <1>5 DEF Below
  <2>2. PICK w \in Nat : w = Word(addrs[k])
    BY <1>3, <1>5
  <2>3. CASE w \in Range(o)
    <3>1. p = o
      BY <1>1, <2>2, <2>3 DEF OneLane
    <3>2. PICK j0 \in 1 .. Len(o) : o[j0] = w
      BY <1>2, <2>3
    <3>3. ASSUME NEW j \in 1 .. Len(o), NEW m \in Below(addrs, k + 1), Word(addrs[m]) = o[j],
                 NEW i \in 1 .. j - 1
          PROVE  \E l \in Below(addrs, k + 1) : l < m /\ Word(addrs[l]) = o[i]
      <4>1. CASE m \in Below(addrs, k)
        BY <2>1, <3>3, <4>1 DEF Ordered
      <4>2. CASE m = k
        <5>1. i \in 1 .. Len(o)
          BY <1>2
        <5>2. PICK l \in Below(addrs, k) : Word(addrs[l]) = o[i]
          BY <5>1 DEF Ordered
        <5>. QED BY <2>1, <4>2, <5>2
      <4>. QED BY <2>1, <4>1, <4>2
    <3>4. \A l \in Below(addrs, k + 1) : \E i \in 1 .. Len(o) : o[i] = Word(addrs[l])
      BY <2>1, <2>2, <3>2 DEF Ordered
    <3>5. \A i \in 1 .. Len(o) : \E l \in Below(addrs, k + 1) : Word(addrs[l]) = o[i]
      BY <2>1 DEF Ordered
    <3>6. \A i, j \in 1 .. Len(o) : o[i] = o[j] => i = j
      BY DEF Ordered
    <3>. QED BY <1>1, <1>2, <3>1, <3>3, <3>4, <3>5, <3>6 DEF Ordered
  <2>4. CASE w \notin Range(o)
    <3>1. p = Append(o, w)
      BY <1>1, <1>5, <2>2, <2>4 DEF OneLane
    <3>2. PICK n \in Nat : n = Len(o)
      BY <1>2
    <3>3. /\ p \in Seq(Nat) /\ Len(p) = n + 1 /\ p[n + 1] = w
          /\ \A i \in 1 .. n : p[i] = o[i]
      BY <1>2, <3>1, <3>2
    <3>4. \A i \in 1 .. n + 1 : i \in 1 .. n \/ i = n + 1
      OBVIOUS
    <3>5. \A i \in 1 .. n : o[i] # w
      BY <1>2, <2>4, <3>2
    <3>6. ASSUME NEW i \in 1 .. n + 1, NEW j \in 1 .. n + 1, p[i] = p[j]
          PROVE  i = j
      <4>1. CASE i \in 1 .. n /\ j \in 1 .. n
        <5>1. o[i] = o[j]
          BY <3>3, <3>6, <4>1
        <5>. QED BY <3>2, <4>1, <5>1 DEF Ordered
      <4>2. CASE i = n + 1 \/ j = n + 1
        BY <3>3, <3>4, <3>5, <3>6, <4>2
      <4>. QED BY <3>4, <4>1, <4>2
    <3>7. \A i \in 1 .. n + 1 : \E l \in Below(addrs, k + 1) : Word(addrs[l]) = p[i]
      BY <2>1, <2>2, <3>2, <3>3, <3>4 DEF Ordered
    <3>8. \A l \in Below(addrs, k + 1) : \E i \in 1 .. n + 1 : p[i] = Word(addrs[l])
      <4>1. n + 1 \in 1 .. n + 1 /\ \A i \in 1 .. n : i \in 1 .. n + 1
        OBVIOUS
      <4>. QED BY <2>1, <2>2, <3>2, <3>3, <4>1 DEF Ordered
    <3>9. ASSUME NEW j \in 1 .. n + 1, NEW m \in Below(addrs, k + 1), Word(addrs[m]) = p[j],
                 NEW i \in 1 .. j - 1
          PROVE  \E l \in Below(addrs, k + 1) : l < m /\ Word(addrs[l]) = p[i]
      <4>1. i \in 1 .. n /\ p[i] = o[i]
        BY <3>3
      <4>2. CASE m = k
        <5>1. PICK l \in Below(addrs, k) : Word(addrs[l]) = o[i]
          BY <3>2, <4>1 DEF Ordered
        <5>. QED BY <2>1, <4>1, <4>2, <5>1
      <4>3. CASE m \in Below(addrs, k)
        <5>1. PICK x \in 1 .. n : o[x] = Word(addrs[m])
          BY <3>2, <4>3 DEF Ordered
        <5>2. j \in 1 .. n /\ p[j] = o[j]
          BY <3>3, <3>4, <3>5, <3>9, <5>1
        <5>. QED BY <2>1, <3>2, <3>9, <4>1, <4>3, <5>2 DEF Ordered
      <4>. QED BY <2>1, <4>2, <4>3
    <3>. QED BY <1>1, <3>3, <3>6, <3>7, <3>8, <3>9 DEF Ordered
  <2>. QED BY <2>3, <2>4
<1>. QED BY <1>4, <1>5

\* The golden loop makes that order.
LEMMA OrderIs ==
  ASSUME NEW addrs, NEW size, Accesses(addrs, size)
  PROVE  Ordered(addrs, WordsInOrder(addrs), Reach(addrs))
<1>1. PICK n \in Nat : n = Reach(addrs)
  BY ReachIs
<1>2. LanesOf(addrs) \subseteq Nat /\ \A l \in LanesOf(addrs) : Word(addrs[l]) \in Nat
  BY WordOfMemory DEF Accesses, Lanes
<1> DEFINE step == [x \in Nat \X Seq(Nat) |-> OneLane(addrs, x[2], x[1])]
           body(h) == [to \in 0 .. n |->
                         IF to = 0 THEN <<>>
                         ELSE LET w == Word(addrs[to - 1])
                              IN  IF to - 1 \in LanesOf(addrs) /\ w \notin Range(h[to - 1])
                                  THEN Append(h[to - 1], w) ELSE h[to - 1]]
           order == CHOOSE h : h = body(h)
<1>3. WordsInOrder(addrs) = order[n]
  BY <1>1 DEF WordsInOrder
<1>4. step \in [Nat \X Seq(Nat) -> Seq(Nat)]
  <2>1. ASSUME NEW x \in Nat \X Seq(Nat)
        PROVE  OneLane(addrs, x[2], x[1]) \in Seq(Nat)
    <3>1. x[2] \in Seq(Nat) /\ x[1] \in Nat
      OBVIOUS
    <3>2. CASE x[1] \in LanesOf(addrs) /\ Word(addrs[x[1]]) \notin Range(x[2])
      <4>1. OneLane(addrs, x[2], x[1]) = Append(x[2], Word(addrs[x[1]]))
        BY <3>2 DEF OneLane
      <4>2. Word(addrs[x[1]]) \in Nat
        BY <1>2, <3>2
      <4>. QED BY <3>1, <4>1, <4>2
    <3>3. CASE ~(x[1] \in LanesOf(addrs) /\ Word(addrs[x[1]]) \notin Range(x[2]))
      BY <3>1, <3>3 DEF OneLane
    <3>. QED BY <3>2, <3>3
  <2>. QED BY <2>1
<1>5. PICK f : Counts(f, Seq(Nat), step, <<>>, n)
  <2>1. <<>> \in Seq(Nat)
    OBVIOUS
  <2> HIDE DEF step
  <2>. QED BY <1>4, <2>1, CountedIteration
<1>6. /\ f \in [0 .. n -> Seq(Nat)] /\ f[0] = <<>>
      /\ \A k \in 0 .. n - 1 : f[k + 1] = OneLane(addrs, f[k], k)
  <2>1. \A k \in 0 .. n - 1 : k \in 0 .. n /\ k \in Nat
    OBVIOUS
  <2>. QED BY <1>5, <2>1 DEF Counts
<1>7. f = body(f)
  <2>1. ASSUME NEW to \in 0 .. n
        PROVE  f[to] = body(f)[to]
    <3>1. CASE to = 0
      BY <1>6, <3>1
    <3>2. CASE to # 0
      <4>1. PICK k \in 0 .. n - 1 : to = k + 1 /\ to - 1 = k
        BY <3>2
      <4>. QED BY <1>6, <3>2, <4>1 DEF OneLane
    <3>. QED BY <3>1, <3>2
  <2>. QED BY <1>6, <2>1
<1>8. order = body(order)
  BY <1>7
<1>9. order[0] = <<>>
  <2>1. 0 \in 0 .. n
    OBVIOUS
  <2> HIDE DEF order
  <2>. QED BY <1>8, <2>1
<1>10. \A k \in 0 .. n - 1 : order[k + 1] = OneLane(addrs, order[k], k)
  <2>1. ASSUME NEW k \in 0 .. n - 1
        PROVE  order[k + 1] = OneLane(addrs, order[k], k)
    <3>1. k + 1 \in 0 .. n /\ k + 1 # 0 /\ (k + 1) - 1 = k
      OBVIOUS
    <3>2. body(order)[k + 1] = OneLane(addrs, order[k], k)
      <4> HIDE DEF order
      <4>. QED BY <3>1 DEF OneLane
    <3> HIDE DEF body, order
    <3>. QED BY <1>8, <3>2
  <2>. QED BY <2>1
<1> HIDE DEF order, body, step
<1>11. \A k \in 0 .. n : Ordered(addrs, order[k], k)
  <2> DEFINE P == {k \in 0 .. n : Ordered(addrs, order[k], k)}
  <2>1. 0 \in P
    <3>1. Ordered(addrs, <<>>, 0)
      BY ReachIs DEF Ordered
    <3>. QED BY <1>9, <3>1
  <2>2. ASSUME NEW k \in 0 .. n - 1, k \in P
        PROVE  k + 1 \in P
    <3>1. Ordered(addrs, order[k], k) /\ k \in Nat /\ k + 1 \in 0 .. n
      BY <2>2
    <3>2. Ordered(addrs, order[k + 1], k + 1)
      BY <1>10, <3>1, OrderNext
    <3>. QED BY <3>1, <3>2
  <2>3. \A k \in 0 .. n : k \in P
    <3> HIDE DEF P
    <3>. QED BY <2>1, <2>2, Upto
  <2>. QED BY <2>3
<1>. QED BY <1>1, <1>3, <1>11


-----------------------------------------------------------------------------
(* The lanes of a beat *)

\* Served lanes come word by word,
Whole(addrs, S) == \A k \in S, l \in LanesOf(addrs) : Word(addrs[l]) = Word(addrs[k]) => l \in S
\* and each of their words has a lane before all lanes that wait.
Earlier(addrs, S) ==
  \A k \in S : \E f \in S : /\ Word(addrs[f]) = Word(addrs[k])
                            /\ \A l \in LanesOf(addrs) \ S : f < l

Waiting(addrs, S) == LanesOf(addrs) \ S
Leads(addrs, S, l0) == l0 \in Waiting(addrs, S) /\ \A l \in Waiting(addrs, S) : l0 <= l
BeatOf(addrs, S, l0) == {l \in Waiting(addrs, S) : Word(addrs[l]) = Word(addrs[l0])}

\* A beat serves all the sharers of its word, and keeps both.
LEMMA BeatIsWhole ==
  ASSUME NEW addrs, NEW size, Accesses(addrs, size), NEW S, S \subseteq LanesOf(addrs),
         Whole(addrs, S), Earlier(addrs, S), NEW l0, Leads(addrs, S, l0)
  PROVE  LET T == BeatOf(addrs, S, l0)
         IN  /\ T = Sharers(addrs, Word(addrs[l0])) /\ l0 \in T /\ S \intersect T = {}
             /\ S \union T \subseteq LanesOf(addrs)
             /\ Whole(addrs, S \union T) /\ Earlier(addrs, S \union T)
<1> DEFINE T == BeatOf(addrs, S, l0)
<1>1. /\ l0 \in LanesOf(addrs) /\ l0 \notin S
      /\ \A l \in LanesOf(addrs) \ S : l0 <= l
      /\ T = {l \in LanesOf(addrs) \ S : Word(addrs[l]) = Word(addrs[l0])}
  BY DEF Leads, Waiting, BeatOf
<1>2. LanesOf(addrs) \subseteq Nat
  BY DEF Accesses, Lanes
<1> HIDE DEF T
<1>3. \A l \in S : Word(addrs[l]) # Word(addrs[l0])
  BY <1>1 DEF Whole
<1>4. T = Sharers(addrs, Word(addrs[l0])) /\ l0 \in T /\ S \intersect T = {}
  BY <1>1, <1>3 DEF Sharers
<1>5. Whole(addrs, S \union T)
  BY <1>1 DEF Whole
<1>6. ASSUME NEW k \in S \union T
      PROVE  \E f \in S \union T : /\ Word(addrs[f]) = Word(addrs[k])
                                   /\ \A l \in LanesOf(addrs) \ (S \union T) : f < l
  <2>1. CASE k \in S
    BY <2>1 DEF Earlier
  <2>2. CASE k \in T
    <3>1. \A l \in LanesOf(addrs) \ (S \union T) : l0 < l
      BY <1>1, <1>2, <1>4
    <3>. QED BY <1>1, <1>4, <2>2, <3>1
  <2>. QED BY <2>1, <2>2
<1>7. Earlier(addrs, S \union T)
  BY <1>6 DEF Earlier
<1>. QED BY <1>1, <1>4, <1>5, <1>7 DEF T

\* Its word is the next one of the golden order.
LEMMA BeatIsNext ==
  ASSUME NEW addrs, NEW size, Accesses(addrs, size), NEW S, S \subseteq LanesOf(addrs),
         Whole(addrs, S), Earlier(addrs, S), NEW l0, Leads(addrs, S, l0)
  PROVE  LET o == WordsInOrder(addrs)
             k == 1 + Cardinality({Word(addrs[l]) : l \in S})
         IN  k \in 1 .. Len(o) /\ o[k] = Word(addrs[l0]) /\ o \in Seq(Nat)
<1>1. /\ l0 \in LanesOf(addrs) /\ l0 \notin S
      /\ \A l \in LanesOf(addrs) \ S : l0 <= l
  BY DEF Leads, Waiting
<1>2. LanesOf(addrs) \subseteq Nat
  BY DEF Accesses, Lanes
<1>3. PICK o : o = WordsInOrder(addrs)
  OBVIOUS
<1>4. /\ o \in Seq(Nat)
      /\ \A i, j \in 1 .. Len(o) : o[i] = o[j] => i = j
      /\ \A l \in LanesOf(addrs) : \E i \in 1 .. Len(o) : o[i] = Word(addrs[l])
      /\ \A j \in 1 .. Len(o), m \in LanesOf(addrs) :
           Word(addrs[m]) = o[j] =>
             \A i \in 1 .. j - 1 : \E l \in LanesOf(addrs) : l < m /\ Word(addrs[l]) = o[i]
  <2>1. Ordered(addrs, o, Reach(addrs)) /\ Below(addrs, Reach(addrs)) = LanesOf(addrs)
    BY <1>3, OrderIs, ReachIs
  <2>. QED BY <2>1 DEF Ordered
<1>5. PICK q \in 1 .. Len(o) : o[q] = Word(addrs[l0])
  BY <1>1, <1>4
<1>6. PICK n \in Nat : q = n + 1 /\ 1 .. q - 1 = 1 .. n /\ \A i \in 1 .. n : i \in 1 .. Len(o) /\ i < q
  <2>1. q - 1 \in Nat /\ q = (q - 1) + 1
    BY <1>4
  <2>2. \A i \in 1 .. q - 1 : i \in 1 .. Len(o) /\ i < q
    BY <1>4
  <2>. QED BY <2>1, <2>2
<1>7. ASSUME NEW i \in 1 .. n
      PROVE  \E l \in S : Word(addrs[l]) = o[i]
  <2>1. PICK l \in LanesOf(addrs) : l < l0 /\ Word(addrs[l]) = o[i]
    BY <1>1, <1>4, <1>5, <1>6
  <2>2. l \in S
    BY <1>1, <1>2, <2>1
  <2>. QED BY <2>1, <2>2
<1>8. ASSUME NEW k \in S
      PROVE  \E i \in 1 .. n : Word(addrs[k]) = o[i]
  <2>1. PICK i \in 1 .. Len(o) : o[i] = Word(addrs[k])
    BY <1>4
  <2>2. i # q
    BY <1>1, <1>5, <2>1 DEF Whole
  <2>3. ASSUME i > q PROVE FALSE
    <3>1. PICK f \in S : Word(addrs[f]) = Word(addrs[k]) /\ \A l \in LanesOf(addrs) \ S : f < l
      BY DEF Earlier
    <3>2. q \in 1 .. i - 1
      BY <2>3
    <3>3. PICK l \in LanesOf(addrs) : l < f /\ Word(addrs[l]) = o[q]
      BY <1>4, <2>1, <3>1, <3>2
    <3>4. l \in S
      BY <1>2, <3>1, <3>3
    <3>. QED BY <1>1, <1>5, <3>3, <3>4 DEF Whole
  <2>4. i \in 1 .. n
    BY <1>4, <1>6, <2>2, <2>3
  <2>. QED BY <2>1, <2>4
<1>9. PICK W : W = {Word(addrs[l]) : l \in S}
  OBVIOUS
<1>10. Cardinality(W) = n
  <2> DEFINE g == [i \in 1 .. n |-> o[i]]
  <2>1. \A i \in 1 .. n : o[i] \in W
    BY <1>7, <1>9
  <2>2. \A w \in W : \E i \in 1 .. n : o[i] = w
    BY <1>8, <1>9
  <2>3. g \in Bijection(1 .. n, W)
    <3>1. \A i, j \in 1 .. n : o[i] = o[j] => i = j
      BY <1>4, <1>6
    <3>2. g \in Injection(1 .. n, W)
      BY <2>1, <3>1 DEF Injection, IsInjective
    <3>3. g \in Surjection(1 .. n, W)
      BY <2>1, <2>2 DEF Surjection
    <3>. QED BY <3>2, <3>3 DEF Bijection
  <2>4. ExistsBijection(1 .. n, W)
    BY <2>3 DEF ExistsBijection
  <2>. QED BY <2>4, FS_CountingElements
<1>11. 1 + Cardinality(W) = q
  BY <1>6, <1>10
<1>. QED BY <1>3, <1>4, <1>5, <1>9, <1>11

\* Storing it after the lanes of S, as the byte enables say, is what the lanes
\* of both store.
LEMMA BeatStored ==
  ASSUME NEW addrs, NEW size, Accesses(addrs, size), NEW S, S \subseteq LanesOf(addrs),
         Whole(addrs, S), NEW l0, Leads(addrs, S, l0)
  PROVE  LET T == BeatOf(addrs, S, l0)
             data == Merge(addrs, size, T, Word(addrs[l0]))
             before == Stored(addrs, size, S)
         IN  [a \in Memory |-> IF a \in DOMAIN data THEN data[a] ELSE before[a]]
               = Stored(addrs, size, S \union T)
<1>1. PICK T : /\ T = BeatOf(addrs, S, l0) /\ T \subseteq LanesOf(addrs)
               /\ \A l \in T : Word(addrs[l]) = Word(addrs[l0])
               /\ \A l \in S : Word(addrs[l]) # Word(addrs[l0])
  <2>1. l0 \in LanesOf(addrs) /\ l0 \notin S
    BY DEF Leads, Waiting
  <2>2. \A l \in S : Word(addrs[l]) # Word(addrs[l0])
    BY <2>1 DEF Whole
  <2>3. /\ BeatOf(addrs, S, l0) \subseteq LanesOf(addrs)
        /\ \A l \in BeatOf(addrs, S, l0) : Word(addrs[l]) = Word(addrs[l0])
    BY DEF BeatOf, Waiting
  <2>. QED BY <2>2, <2>3
<1>2. size \in Sizes /\ \A l \in LanesOf(addrs) : addrs[l] \in Nat /\ addrs[l] % size = 0
  <2>1. \A l \in LanesOf(addrs) : addrs[l] \in Memory /\ addrs[l] % size = 0
    BY DEF Accesses
  <2>. QED BY <2>1, WordOfMemory DEF Accesses
<1>3. PICK data : data = Merge(addrs, size, T, Word(addrs[l0]))
  OBVIOUS
<1>4. PICK before : before = Stored(addrs, size, S)
  OBVIOUS
<1>5. ASSUME NEW a, NEW l \in LanesOf(addrs), a - addrs[l] \in Bytes(size), a \in Memory
      PROVE  Word(a) = Word(addrs[l])
  <2>1. a \in Nat /\ addrs[l] \in Nat /\ addrs[l] % size = 0
    BY <1>2, <1>5, WordOfMemory
  <2>2. PICK i \in Bytes(size) : i = a - addrs[l] /\ a = addrs[l] + i
    BY <1>5, <2>1
  <2>. QED BY <1>2, <2>1, <2>2, InOneWord
<1>6. ASSUME NEW a \in Memory
      PROVE  a \in DOMAIN data <=> Writers(addrs, size, T, a) # {}
  <2>1. DOMAIN data = {addrs[l] + i : l \in T, i \in Bytes(size)}
    BY <1>3 DEF Merge
  <2>2. a \in Nat /\ \A l \in T : addrs[l] \in Nat
    BY <1>1, <1>2, WordOfMemory
  <2>3. ASSUME NEW l \in T, NEW i \in Bytes(size)
        PROVE  a = addrs[l] + i <=> a - addrs[l] = i
    <3>1. i \in Int /\ addrs[l] \in Int /\ a \in Int
      BY <2>2 DEF Bytes
    <3>. QED BY <3>1
  <2>. QED BY <2>1, <2>3 DEF Writers
<1>7. ASSUME NEW a \in Memory
      PROVE  (IF a \in DOMAIN data THEN data[a] ELSE before[a])
                = Stored(addrs, size, S \union T)[a]
  <2>1. CASE Writers(addrs, size, T, a) = {}
    <3>1. Writers(addrs, size, S \union T, a) = Writers(addrs, size, S, a)
      BY <2>1 DEF Writers
    <3>. QED BY <1>4, <1>6, <2>1, <3>1 DEF Stored
  <2>2. CASE Writers(addrs, size, T, a) # {}
    <3>1. PICK l \in T : a - addrs[l] \in Bytes(size)
      BY <2>2 DEF Writers
    <3>2. Word(a) = Word(addrs[l0])
      BY <1>1, <1>5, <3>1
    <3>3. \A k \in S : a - addrs[k] \notin Bytes(size)
      BY <1>1, <1>5, <3>2
    <3>4. Writers(addrs, size, S \union T, a) = Writers(addrs, size, T, a)
      BY <3>3 DEF Writers
    <3>5. a \in DOMAIN data
      BY <1>6, <2>2
    <3>6. data[a] = <<Max(Writers(addrs, size, T, a)), a - addrs[Max(Writers(addrs, size, T, a))]>>
      BY <1>3, <3>5 DEF Merge, Writers
    <3>. QED BY <2>2, <3>4, <3>5, <3>6 DEF Stored
  <2>. QED BY <2>1, <2>2
<1>8. Stored(addrs, size, S \union T) = [a \in Memory |-> Stored(addrs, size, S \union T)[a]]
  BY DEF Stored
<1>. QED BY <1>1, <1>3, <1>4, <1>7, <1>8

-----------------------------------------------------------------------------
(* The inductive invariant *)

\* The registers when the lanes of S have loaded
Loaded(addrs, size, S) ==
  [l \in Lanes |-> IF l \in S THEN LoadLane(addrs, size, l) ELSE Nothing]

\* The lanes whose beats memory has acknowledged
Taken == IF mu_st = "WLB" THEN mu_srvcd \union mu_share ELSE mu_srvcd

Draining ==
  /\ Accesses(mu_cur.addrs, mu_cur.size)
  /\ Taken \subseteq Mask /\ Whole(mu_cur.addrs, Taken) /\ Earlier(mu_cur.addrs, Taken)
  /\ IF mu_cur.store
     THEN mem = Stored(mu_cur.addrs, mu_cur.size, mu_srvcd)
     ELSE rf = Loaded(mu_cur.addrs, mu_cur.size, mu_srvcd)

Asking == pick_any /\ mu_share = share_c
Writing ==
  /\ ~mu_cur.store /\ mu_wlb \in mu_share
  /\ \A l \in mu_share : Word(Addr(l)) = mu_word

IInv ==
  /\ TypeOK
  /\ mu_st # "IDLE" => Draining
  /\ mu_st = "REQ" => Asking
  /\ mu_st = "WLB" => Writing
  /\ mu_st = "DONE" => mu_srvcd = Mask

\* The lane that leads the next beat
LEMMA LeaderIs ==
  ASSUME Draining, pick_any, mu_st # "WLB"
  PROVE  /\ Accesses(mu_cur.addrs, mu_cur.size) /\ mu_srvcd \subseteq Mask
         /\ Whole(mu_cur.addrs, mu_srvcd) /\ Earlier(mu_cur.addrs, mu_srvcd)
         /\ Leads(mu_cur.addrs, mu_srvcd, pick_leader)
         /\ BeatOf(mu_cur.addrs, mu_srvcd, pick_leader) = share_c
<1>1. /\ Accesses(mu_cur.addrs, mu_cur.size) /\ mu_srvcd \subseteq Mask
      /\ Whole(mu_cur.addrs, mu_srvcd) /\ Earlier(mu_cur.addrs, mu_srvcd)
  BY DEF Draining, Taken
<1>2. Unserved \subseteq Nat /\ Unserved # {} /\ Unserved = Waiting(mu_cur.addrs, mu_srvcd)
  BY <1>1 DEF Accesses, Lanes, pick_any, Unserved, Mask, LanesOf, Waiting
<1>3. Min(Unserved) \in Unserved /\ \A y \in Unserved : Min(Unserved) <= y
  BY <1>2, MinOf
<1>. QED BY <1>1, <1>2, <1>3 DEF Leads, BeatOf, share_c, pick_leader, Addr

\* The invariant holds at the start,
LEMMA InitHolds ==
  ASSUME Init
  PROVE  IInv
<1>1. TypeOK
  BY LanesAssumption, WordsAssumption DEF Init, TypeOK, Lanes
<1>. QED BY <1>1 DEF Init, IInv

\* when an instruction is taken,
LEMMA TakeHolds ==
  ASSUME IInv, Take
  PROVE  IInv'
<1>1. PICK mask \in (SUBSET Lanes) \ {{}}, s \in Sizes :
        mu_cur' \in [store : BOOLEAN, size : {s},
                     addrs : [mask -> {a \in DOMAIN Before : a % s = 0}]]
  <2> DEFINE R(mask, s) == [store : BOOLEAN, size : {s},
                            addrs : [mask -> {a \in DOMAIN Before : a % s = 0}]]
  <2>1. Instructions = UNION {R(mask, s) : mask \in (SUBSET Lanes) \ {{}}, s \in Sizes}
    BY DEF Instructions
  <2>2. mu_cur' \in Instructions
    BY DEF Take
  <2> HIDE DEF R
  <2>3. \E mask \in (SUBSET Lanes) \ {{}}, s \in Sizes : mu_cur' \in R(mask, s)
    BY <2>1, <2>2
  <2>. QED BY <2>3 DEF R
<1>2. PICK addrs, size : addrs = mu_cur'.addrs /\ size = mu_cur'.size
  OBVIOUS
<1>3. Accesses(addrs, size)
  <2>1. DOMAIN Before = Memory
    BY DEF Before, Memory
  <2>2. size = s /\ addrs \in [mask -> {a \in Memory : a % s = 0}] /\ mask \subseteq Lanes /\ mask # {}
    BY <1>1, <1>2, <2>1
  <2>. QED BY <2>2 DEF Accesses, LanesOf
<1>4. Stored(addrs, size, {}) = Before
  BY DEF Stored, Writers, Before, Memory
<1>5. Loaded(addrs, size, {}) = [l \in Lanes |-> Nothing]
  BY DEF Loaded
<1>6. Draining'
  <2>1. Taken' = {} /\ mu_srvcd' = {} /\ mem' = Before /\ rf' = [l \in Lanes |-> Nothing]
    BY DEF Take, Taken
  <2>2. Whole(addrs, {}) /\ Earlier(addrs, {})
    BY DEF Whole, Earlier
  <2>. QED BY <1>2, <1>3, <1>4, <1>5, <2>1, <2>2 DEF Draining, Mask
<1>7. TypeOK'
  BY DEF IInv, Take, TypeOK, Mask
<1>. QED BY <1>6, <1>7 DEF IInv, Take

\* when the unserved lanes are looked at,
LEMMA PickHolds ==
  ASSUME IInv, Pick
  PROVE  IInv'
<1>1. TypeOK /\ Draining
  BY DEF IInv, Pick
<1>2. TypeOK'
  BY <1>1 DEF Pick, TypeOK, Mask
<1>3. Draining'
  BY <1>1 DEF Draining, Taken, Pick, Mask
<1>4. mu_st' = "REQ" => Asking'
  BY DEF Pick, Asking, pick_any, share_c, pick_leader, Unserved, Mask, Addr
<1>5. mu_st' = "DONE" => mu_srvcd' = Mask'
  BY <1>1 DEF Pick, TypeOK, pick_any, Unserved, Mask
<1>. QED BY <1>2, <1>3, <1>4, <1>5 DEF IInv, Pick

\* when memory takes a stored word,
LEMMA StoreBeatHolds ==
  ASSUME IInv, StoreBeat
  PROVE  IInv'
<1>1. /\ TypeOK /\ Draining /\ Asking /\ mu_st = "REQ" /\ mu_cur.store
      /\ mu_cur' = mu_cur /\ mu_srvcd' = mu_srvcd \union mu_share /\ mu_st' = "PICK"
  BY DEF IInv, StoreBeat, dmem_req
<1>2. PICK addrs, size, S, l0 :
        addrs = mu_cur.addrs /\ size = mu_cur.size /\ S = mu_srvcd /\ l0 = pick_leader
  OBVIOUS
<1>3. /\ Accesses(addrs, size) /\ S \subseteq LanesOf(addrs)
      /\ Whole(addrs, S) /\ Earlier(addrs, S) /\ Leads(addrs, S, l0)
      /\ BeatOf(addrs, S, l0) = mu_share
  BY <1>1, <1>2, LeaderIs DEF Asking, Mask, LanesOf
<1>4. PICK T : T = mu_share /\ T = BeatOf(addrs, S, l0)
  BY <1>3
<1>5. /\ S \union T \subseteq LanesOf(addrs)
      /\ Whole(addrs, S \union T) /\ Earlier(addrs, S \union T)
  BY <1>3, <1>4, BeatIsWhole
<1>6. mem' = Stored(addrs, size, S \union T)
  <2>1. mem = Stored(addrs, size, S) /\ DOMAIN mem = Memory
    <3>1. mem = Stored(addrs, size, S)
      BY <1>1, <1>2 DEF Draining
    <3>. QED BY <3>1 DEF Stored
  <2>2. Beat.data = Merge(addrs, size, T, Word(addrs[l0]))
    BY <1>1, <1>2, <1>4 DEF Beat, Asking, Addr
  <2>3. mem' = [a \in Memory |-> IF a \in DOMAIN Beat.data THEN Beat.data[a] ELSE mem[a]]
    BY <2>1 DEF StoreBeat
  <2>. QED BY <1>3, <1>4, <2>1, <2>2, <2>3, BeatStored
<1>7. Draining'
  <2>1. Taken' = S \union T /\ mu_srvcd' = S \union T
    BY <1>1, <1>2, <1>4 DEF Taken
  <2>2. Mask' = LanesOf(addrs)
    BY <1>1, <1>2 DEF Mask, LanesOf
  <2>. QED BY <1>1, <1>2, <1>3, <1>5, <1>6, <2>1, <2>2 DEF Draining
<1>8. TypeOK'
  <2>1. mu_srvcd' \subseteq Mask'
    BY <1>1, <1>2, <1>4, <1>5 DEF Mask, LanesOf
  <2>2. DOMAIN mem' = DOMAIN Before
    BY <1>6 DEF Stored, Before, Memory
  <2>. QED BY <1>1, <2>1, <2>2 DEF TypeOK, StoreBeat
<1>. QED BY <1>1, <1>7, <1>8 DEF IInv

\* when it gives a loaded one,
LEMMA LoadBeatHolds ==
  ASSUME IInv, LoadBeat
  PROVE  IInv'
<1>1. /\ TypeOK /\ Draining /\ Asking /\ mu_st = "REQ" /\ ~mu_cur.store
      /\ mu_cur' = mu_cur /\ mu_srvcd' = mu_srvcd /\ mu_share' = mu_share /\ mu_st' = "WLB"
      /\ mem' = mem /\ rf' = rf
  BY DEF IInv, LoadBeat, dmem_req
<1>2. PICK addrs, size, S, l0 :
        addrs = mu_cur.addrs /\ size = mu_cur.size /\ S = mu_srvcd /\ l0 = pick_leader
  OBVIOUS
<1>3. /\ Accesses(addrs, size) /\ S \subseteq LanesOf(addrs)
      /\ Whole(addrs, S) /\ Earlier(addrs, S) /\ Leads(addrs, S, l0)
      /\ BeatOf(addrs, S, l0) = mu_share
  BY <1>1, <1>2, LeaderIs DEF Asking, Mask, LanesOf
<1>4. PICK T : T = mu_share /\ T = BeatOf(addrs, S, l0)
  BY <1>3
<1>5. /\ l0 \in T /\ S \intersect T = {} /\ S \union T \subseteq LanesOf(addrs)
      /\ Whole(addrs, S \union T) /\ Earlier(addrs, S \union T)
  BY <1>3, <1>4, BeatIsWhole
<1>6. mu_word' = Word(addrs[l0])
  BY <1>2 DEF LoadBeat, Beat, Addr
<1>7. mu_wlb' \in T
  <2>1. mu_wlb' = Min(T \ S)
    BY <1>2, <1>4, <1>5 DEF LoadBeat, wlb_next, wlb_any
  <2>2. T \ S = T /\ T # {} /\ T \subseteq Nat
    BY <1>3, <1>5 DEF Accesses, Lanes
  <2>. QED BY <2>1, <2>2, MinOf
<1>8. Draining'
  <2>1. Taken' = S \union T /\ Mask' = LanesOf(addrs)
    BY <1>1, <1>2, <1>4 DEF Taken, Mask, LanesOf
  <2>. QED BY <1>1, <1>2, <1>3, <1>5, <2>1 DEF Draining
<1>9. Writing'
  <2>1. \A l \in T : Word(addrs[l]) = Word(addrs[l0])
    BY <1>4 DEF BeatOf
  <2>. QED BY <1>1, <1>2, <1>4, <1>6, <1>7, <2>1 DEF Writing, Addr
<1>10. TypeOK'
  <2>1. mu_wlb' \in Lanes
    BY <1>3, <1>5, <1>7 DEF Accesses
  <2>2. mu_word' \in 0 .. Words - 1
    <3>1. addrs[l0] \in Memory
      BY <1>3, <1>5 DEF Accesses
    <3>. QED BY <1>6, <3>1, WordOfMemory
  <2>. QED BY <1>1, <2>1, <2>2 DEF TypeOK, Mask
<1>. QED BY <1>1, <1>8, <1>9, <1>10 DEF IInv

\* when a lane of that is written back,
LEMMA WriteBackHolds ==
  ASSUME IInv, WriteBack
  PROVE  IInv'
<1>1. /\ TypeOK /\ Draining /\ Writing /\ mu_st = "WLB"
      /\ mu_cur' = mu_cur /\ mu_srvcd' = mu_srvcd \union {mu_wlb} /\ mu_share' = mu_share
      /\ mu_word' = mu_word /\ mem' = mem /\ rf' = [rf EXCEPT ![mu_wlb] = Extract(mu_wlb)]
  BY DEF IInv, WriteBack
<1>2. PICK addrs, size, S, T :
        addrs = mu_cur.addrs /\ size = mu_cur.size /\ S = mu_srvcd /\ T = mu_share
  OBVIOUS
<1>3. /\ Accesses(addrs, size) /\ S \union T \subseteq LanesOf(addrs)
      /\ Whole(addrs, S \union T) /\ Earlier(addrs, S \union T)
      /\ rf = Loaded(addrs, size, S) /\ ~mu_cur.store
      /\ mu_wlb \in T /\ \A l \in T : Word(addrs[l]) = mu_word
  BY <1>1, <1>2 DEF Draining, Taken, Writing, Mask, LanesOf, Addr
<1>4. LanesOf(addrs) \subseteq Nat /\ LanesOf(addrs) \subseteq Lanes
  BY <1>3 DEF Accesses, Lanes
<1>5. Extract(mu_wlb) = LoadLane(addrs, size, mu_wlb)
  <2>1. PICK a : a = addrs[mu_wlb] /\ a \in Nat /\ a % size = 0 /\ size \in Sizes /\ Word(a) = mu_word
    <3>1. addrs[mu_wlb] \in Memory /\ addrs[mu_wlb] % size = 0 /\ size \in Sizes
      BY <1>3 DEF Accesses
    <3>. QED BY <1>3, <3>1, WordOfMemory
  <2>2. ASSUME NEW i \in Bytes(size)
        PROVE  (mu_word * Unit) + (a % Unit) + i = a + i
    BY <2>1, <2>2, InOneWord
  <2>. QED BY <1>2, <2>1, <2>2 DEF Extract, LoadLane, Addr
<1>6. rf' = Loaded(addrs, size, S \union {mu_wlb})
  BY <1>1, <1>3, <1>4, <1>5 DEF Loaded
<1>7. CASE wlb_any
  <2>1. mu_st' = "WLB" /\ mu_wlb' = Min(T \ S) /\ T \ S # {}
    BY <1>2, <1>7 DEF WriteBack, wlb_any, wlb_next
  <2>2. mu_wlb' \in T
    BY <1>3, <1>4, <2>1, MinOf
  <2>3. Taken' = S \union T
    BY <1>1, <1>2, <1>3, <2>1 DEF Taken
  <2>4. Mask' = LanesOf(addrs)
    BY <1>1, <1>2 DEF Mask, LanesOf
  <2>5. Draining'
    BY <1>1, <1>2, <1>3, <1>6, <2>3, <2>4 DEF Draining
  <2>6. Writing'
    BY <1>1, <1>2, <1>3, <2>2 DEF Writing, Addr
  <2>7. TypeOK'
    <3>1. mu_wlb' \in Lanes /\ mu_srvcd' \subseteq Mask'
      BY <1>1, <1>2, <1>3, <1>4, <2>2, <2>4
    <3>. QED BY <1>1, <2>1, <3>1 DEF TypeOK
  <2>. QED BY <2>1, <2>5, <2>6, <2>7 DEF IInv
<1>8. CASE ~wlb_any
  <2>1. mu_st' = "PICK" /\ mu_wlb' = mu_wlb /\ T \subseteq S
    BY <1>2, <1>8 DEF WriteBack, wlb_any
  <2>2. Taken' = S \union T /\ mu_srvcd' = S \union T
    BY <1>1, <1>2, <1>3, <2>1 DEF Taken
  <2>3. Mask' = LanesOf(addrs) /\ S \union {mu_wlb} = S \union T
    BY <1>1, <1>2, <1>3, <2>1 DEF Mask, LanesOf
  <2>4. Draining'
    BY <1>1, <1>2, <1>3, <1>6, <2>2, <2>3 DEF Draining
  <2>5. TypeOK'
    BY <1>1, <1>3, <2>1, <2>2, <2>3 DEF TypeOK
  <2>. QED BY <2>1, <2>4, <2>5 DEF IInv
<1>. QED BY <1>7, <1>8

\* and so at every clock edge.
LEMMA Inductive == IInv /\ [Next]_vars => IInv'
<1> SUFFICES ASSUME IInv, [Next]_vars PROVE IInv'
  OBVIOUS
<1>1. CASE Take
  BY <1>1, TakeHolds
<1>2. CASE Pick
  BY <1>2, PickHolds
<1>3. CASE StoreBeat
  BY <1>3, StoreBeatHolds
<1>4. CASE LoadBeat
  BY <1>4, LoadBeatHolds
<1>5. CASE WriteBack
  BY <1>5, WriteBackHolds
<1>6. CASE Done
  BY <1>6 DEF IInv, Done, TypeOK, Mask
<1>7. CASE UNCHANGED vars
  BY <1>7 DEF IInv, vars, TypeOK, Draining, Asking, Writing, Taken, Mask, Addr, pick_any,
              share_c, pick_leader, Unserved
<1>. QED BY <1>1, <1>2, <1>3, <1>4, <1>5, <1>6, <1>7 DEF Next, Busy, Ack

\* It holds in every behaviour.
LEMMA Invariant == Spec => []IInv
<1>1. Init => IInv
  BY InitHolds
<1>. QED BY <1>1, Inductive, PTL DEF Spec

-----------------------------------------------------------------------------
(* What the runs check *)

\* A drained instruction has done what its lanes do one after the other.
THEOREM DrainsLaneSerial == Spec => []LaneSerialEffect
<1>1. ASSUME IInv
      PROVE  LaneSerialEffect
  <2>1. TypeOK
    BY <1>1 DEF IInv
  <2>2. ASSUME mu_st = "DONE"
        PROVE  IF mu_cur.store
               THEN mem = LaneSerial(Before, mu_cur.addrs, mu_cur.size)
               ELSE rf = [l \in Lanes |-> IF l \in Mask THEN LoadLane(mu_cur.addrs, mu_cur.size, l)
                                          ELSE Nothing]
    <3>1. /\ Accesses(mu_cur.addrs, mu_cur.size)
          /\ IF mu_cur.store THEN mem = Stored(mu_cur.addrs, mu_cur.size, Mask)
             ELSE rf = Loaded(mu_cur.addrs, mu_cur.size, Mask)
      BY <1>1, <2>2 DEF IInv, Draining
    <3>2. LaneSerial(Before, mu_cur.addrs, mu_cur.size) = Stored(mu_cur.addrs, mu_cur.size, Mask)
      BY <3>1, SerialIs DEF Mask, LanesOf
    <3>. QED BY <3>1, <3>2 DEF Loaded
  <2>. QED BY <2>1, <2>2 DEF LaneSerialEffect
<1>. QED BY <1>1, Invariant, PTL

\* Its beats are the golden coalescer's, one to one.
THEOREM BeatsAreGolden == Spec => []BeatsInGoldenOrder
<1>1. ASSUME IInv
      PROVE  BeatsInGoldenOrder
  <2> SUFFICES ASSUME dmem_req
               PROVE  LET beats == Coalesce(mu_cur.addrs, mu_cur.size, mu_cur.store)
                          k == 1 + Cardinality({Word(Addr(l)) : l \in mu_srvcd})
                      IN  /\ k <= Len(beats)
                          /\ Beat = beats[k]
                          /\ mu_share = Sharers(mu_cur.addrs, beats[k].word)
                          /\ mu_share \intersect mu_srvcd = {}
    BY DEF BeatsInGoldenOrder
  <2>1. Draining /\ Asking /\ mu_st = "REQ"
    BY <1>1 DEF IInv, dmem_req
  <2>2. PICK addrs, size, S, l0 :
          addrs = mu_cur.addrs /\ size = mu_cur.size /\ S = mu_srvcd /\ l0 = pick_leader
    OBVIOUS
  <2>3. /\ Accesses(addrs, size) /\ S \subseteq LanesOf(addrs)
        /\ Whole(addrs, S) /\ Earlier(addrs, S) /\ Leads(addrs, S, l0)
        /\ BeatOf(addrs, S, l0) = mu_share /\ mu_share = share_c
    BY <2>1, <2>2, LeaderIs DEF Asking, Mask, LanesOf
  <2>4. mu_share = Sharers(addrs, Word(addrs[l0])) /\ S \intersect mu_share = {}
    BY <2>3, BeatIsWhole
  <2>5. PICK o, k : /\ o = WordsInOrder(addrs) /\ o \in Seq(Nat)
                    /\ k = 1 + Cardinality({Word(addrs[l]) : l \in S})
                    /\ k \in 1 .. Len(o) /\ o[k] = Word(addrs[l0])
    BY <2>3, BeatIsNext
  <2>6. PICK beats : beats = Coalesce(addrs, size, mu_cur.store)
    OBVIOUS
  <2>7. /\ beats[k] = [word |-> o[k],
                       data |-> IF mu_cur.store
                                THEN Merge(addrs, size, Sharers(addrs, o[k]), o[k]) ELSE <<>>]
        /\ Len(beats) = Len(o)
    <3> DEFINE F(i) == [word |-> o[i],
                        data |-> IF mu_cur.store
                                 THEN Merge(addrs, size, Sharers(addrs, o[i]), o[i]) ELSE <<>>]
    <3>1. beats = [i \in 1 .. Len(o) |-> F(i)]
      BY <2>5, <2>6 DEF Coalesce
    <3> HIDE DEF F
    <3>2. PICK n \in Nat : n = Len(o)
      BY <2>5
    <3>3. Len([i \in 1 .. n |-> F(i)]) = n
      OBVIOUS
    <3>4. beats[k] = F(k) /\ Len(beats) = Len(o)
      BY <2>5, <3>1, <3>2, <3>3
    <3>. QED BY <3>4 DEF F
  <2>8. Beat = beats[k]
    BY <2>2, <2>3, <2>4, <2>5, <2>7 DEF Beat, Addr
  <2>9. beats[k].word = Word(addrs[l0]) /\ k <= Len(beats)
    BY <2>5, <2>7
  <2>. QED BY <2>2, <2>4, <2>5, <2>6, <2>8, <2>9 DEF Addr
<1>. QED BY <1>1, Invariant, PTL

===============================================================================
