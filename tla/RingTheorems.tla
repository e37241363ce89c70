---------------------------- MODULE RingTheorems ----------------------------
(***************************************************************************)
(* The queues and cursors of the chip, as facts for the proofs: numbers,   *)
(* rings, matrices and streams of beats.  A hardware queue of d            *)
(* slots is a table with two pointers that count modulo 2 * d (one bit     *)
(* more than a slot needs), so that full and empty differ.  Its content is *)
(* a sequence; a push appends to it and a pop takes its head.              *)
(***************************************************************************)
EXTENDS Integers, Sequences, SequenceTheorems, WellFoundedInduction, TLAPS

-----------------------------------------------------------------------------
(* Remainders *)

\* A quotient and a remainder are unique.
LEMMA Remainder ==
  ASSUME NEW m \in Nat \ {0}, NEW x \in Int, NEW q \in Int, NEW r \in 0 .. m - 1, x = m * q + r
  PROVE  x % m = r
  OBVIOUS

\* Euclid: a number is quotient and remainder.
LEMMA Quotient ==
  ASSUME NEW m \in Nat \ {0}, NEW x \in Int
  PROVE  x = m * (x \div m) + (x % m) /\ x % m \in 0 .. m - 1 /\ x \div m \in Int
  OBVIOUS

\* A whole number of moduli does not change a remainder.
LEMMA RemainderShift ==
  ASSUME NEW m \in Nat \ {0}, NEW x \in Int, NEW n \in Int
  PROVE  (x + m * n) % m = x % m
<1>1. PICK q \in Int, r \in 0 .. m - 1 : q = x \div m /\ r = x % m
  BY Quotient
<1>2. x = m * q + r
  BY <1>1, Quotient
<1>3. x + m * n = m * (q + n) + r /\ x + m * n \in Int /\ q + n \in Int
  BY <1>2
<1>4. (x + m * n) % m = r
  <2> DEFINE y == x + m * n
             p == q + n
  <2>1. y \in Int /\ p \in Int /\ y = m * p + r
    BY <1>3
  <2> HIDE DEF y, p
  <2>2. y % m = r
    BY <2>1, Remainder
  <2>. QED BY <2>2 DEF y
<1>. QED BY <1>1, <1>4

\* A remainder by 2 * d loses nothing that a remainder by d keeps.
LEMMA RemainderOfRemainder ==
  ASSUME NEW d \in Nat \ {0}, NEW x \in Int, NEW y \in Int
  PROVE  ((x % (2 * d)) + y) % d = (x + y) % d
<1>1. PICK m \in Nat \ {0} : m = 2 * d
  OBVIOUS
<1>2. PICK q \in Int, r \in 0 .. m - 1 : q = x \div m /\ r = x % m
  BY Quotient
<1>3. x = m * q + r
  BY <1>2, Quotient
<1>4. PICK z \in Int, n \in Int : z = r + y /\ n = 2 * q
  BY <1>1, <1>2
<1>5. x + y = z + d * n
  BY <1>1, <1>3, <1>4
<1>6. (z + d * n) % d = z % d
  BY RemainderShift
<1>. QED BY <1>1, <1>2, <1>4, <1>5, <1>6

\* Numbers less than d apart have different remainders.
LEMMA RemaindersDiffer ==
  ASSUME NEW d \in Nat \ {0}, NEW x \in Int, NEW k \in 1 .. d - 1
  PROVE  (x + k) % d # x % d
<1>1. PICK q \in Int, r \in 0 .. d - 1 : q = x \div d /\ r = x % d
  BY Quotient
<1>2. x = d * q + r
  BY <1>1, Quotient
<1>3. CASE r + k < d
  <2>1. PICK y \in Int, s \in 0 .. d - 1 : y = x + k /\ s = r + k
    BY <1>3
  <2>2. y = d * q + s
    BY <1>2, <2>1
  <2>3. y % d = s
    BY <2>2, Remainder
  <2>. QED BY <1>1, <2>1, <2>3
<1>4. CASE r + k >= d
  <2>1. PICK y \in Int, s \in 0 .. d - 1, p \in Int : y = x + k /\ s = r + k - d /\ p = q + 1
    BY <1>4
  <2>2. y = d * p + s
    BY <1>2, <2>1
  <2>3. y % d = s
    BY <2>2, Remainder
  <2>. QED BY <1>1, <2>1, <2>3
<1>. QED BY <1>3, <1>4

-----------------------------------------------------------------------------
(* Sets of numbers *)

\* A set of naturals that is not empty has a least member,
LEMMA Least ==
  ASSUME NEW S, S \subseteq Nat, S # {}
  PROVE  \E x \in S : \A y \in S : x <= y
<1>1. IsWellFoundedOn(OpToRel(<, Nat), Nat)
  BY NatLessThanWellFounded
<1>2. PICK x \in S : \A y \in S : <<y, x>> \notin OpToRel(<, Nat)
  BY <1>1, WFMin
<1>3. ASSUME NEW y \in S
      PROVE  x <= y
  <2>1. <<y, x>> \in OpToRel(<, Nat) <=> y < x
    BY DEF OpToRel
  <2>2. ~(y < x)
    BY <1>2, <2>1
  <2>3. x \in Nat /\ y \in Nat
    OBVIOUS
  <2>. QED BY <2>2, <2>3
<1>. QED BY <1>3

\* and, if it is bounded, a greatest.
LEMMA Greatest ==
  ASSUME NEW n \in Nat, NEW S, S \subseteq 0 .. n, S # {}
  PROVE  \E x \in S : \A y \in S : y <= x
<1> DEFINE R == {n - y : y \in S}
<1>1. R \subseteq Nat /\ R # {}
  <2>1. \A y \in S : n - y \in Nat
    OBVIOUS
  <2>. QED BY <2>1
<1>2. PICK r \in R : \A z \in R : r <= z
  BY <1>1, Least
<1>3. PICK x \in S : r = n - x
  BY <1>2
<1>4. \A y \in S : y <= x
  BY <1>2, <1>3
<1>. QED BY <1>4

\* Induction up to n: a set with 0 and with each number's successor
LEMMA Upto ==
  ASSUME NEW n \in Nat, NEW P, 0 \in P, \A k \in 0 .. n - 1 : k \in P => k + 1 \in P
  PROVE  \A k \in 0 .. n : k \in P
<1> DEFINE S == {k \in 0 .. n : k \notin P}
<1> SUFFICES ASSUME S # {} PROVE FALSE
  OBVIOUS
<1>1. S \subseteq Nat
  OBVIOUS
<1>2. PICK x \in S : \A y \in S : x <= y
  <2> HIDE DEF S
  <2>. QED BY <1>1, Least
<1>3. x \in 0 .. n /\ x \notin P /\ x # 0
  BY <1>2
<1>4. PICK k \in 0 .. n - 1 : x = k + 1
  BY <1>3
<1>5. k \notin S
  BY <1>2, <1>4
<1>. QED BY <1>3, <1>4, <1>5

-----------------------------------------------------------------------------
(* Loops: a step repeated n times *)

Iterates(f, S, step, s, n) ==
  /\ f \in [0 .. n -> S] /\ f[0] = s
  /\ \A k \in 0 .. n - 1 : f[k + 1] = step[f[k]]

\* There is such a run,
LEMMA Iteration ==
  ASSUME NEW n \in Nat, NEW S, NEW step \in [S -> S], NEW s \in S
  PROVE  \E f : Iterates(f, S, step, s, n)
<1> DEFINE P == {k \in 0 .. n : \E f : Iterates(f, S, step, s, k)}
<1>1. 0 \in P
  <2>1. PICK f \in [0 .. 0 -> S] : f[0] = s
    <3>1. [k \in 0 .. 0 |-> s] \in [0 .. 0 -> S] /\ [k \in 0 .. 0 |-> s][0] = s
      OBVIOUS
    <3>. QED BY <3>1
  <2>2. Iterates(f, S, step, s, 0)
    BY <2>1 DEF Iterates
  <2>. QED BY <2>2
<1>2. ASSUME NEW k \in 0 .. n - 1, k \in P
      PROVE  k + 1 \in P
  <2>1. PICK f : Iterates(f, S, step, s, k)
    BY <1>2
  <2>2. PICK g : g = [j \in 0 .. k + 1 |-> IF j = k + 1 THEN step[f[k]] ELSE f[j]]
    OBVIOUS
  <2>3. f \in [0 .. k -> S] /\ f[0] = s /\ \A j \in 0 .. k - 1 : f[j + 1] = step[f[j]]
    BY <2>1 DEF Iterates
  <2>4. g \in [0 .. k + 1 -> S] /\ g[0] = s
    BY <2>2, <2>3
  <2>5. ASSUME NEW j \in 0 .. (k + 1) - 1
        PROVE  g[j + 1] = step[g[j]]
    <3>1. g[j] = f[j]
      BY <2>2
    <3>2. CASE j = k
      BY <2>2, <3>1, <3>2
    <3>3. CASE j # k
      <4>1. g[j + 1] = f[j + 1] /\ j \in 0 .. k - 1
        BY <2>2, <3>3
      <4>. QED BY <2>3, <3>1, <4>1
    <3>. QED BY <3>2, <3>3
  <2>6. Iterates(g, S, step, s, k + 1)
    BY <2>4, <2>5 DEF Iterates
  <2>. QED BY <2>6
<1>3. \A k \in 0 .. n : k \in P
  <2> HIDE DEF P
  <2>. QED BY <1>1, <1>2, Upto
<1>4. n \in 0 .. n
  OBVIOUS
<1>. QED BY <1>3, <1>4

Counts(f, S, step, s, n) ==
  /\ f \in [0 .. n -> S] /\ f[0] = s
  /\ \A k \in 0 .. n - 1 : f[k + 1] = step[<<k, f[k]>>]

\* also when the step looks at how often it was made,
LEMMA CountedIteration ==
  ASSUME NEW n \in Nat, NEW S, NEW step \in [Nat \X S -> S], NEW s \in S
  PROVE  \E f : Counts(f, S, step, s, n)
<1> DEFINE T == Nat \X S
           up == [x \in T |-> <<x[1] + 1, step[x]>>]
<1>1. up \in [T -> T] /\ <<0, s>> \in T
  OBVIOUS
<1>2. PICK g : Iterates(g, T, up, <<0, s>>, n)
  <2> HIDE DEF T, up
  <2>. QED BY <1>1, Iteration
<1>3. /\ g[0] = <<0, s>>
      /\ \A k \in 0 .. n : g[k] \in T
      /\ \A k \in 0 .. n - 1 : g[k + 1] = up[g[k]]
  BY <1>2 DEF Iterates
<1>4. \A k \in 0 .. n : g[k][1] = k
  <2> DEFINE P == {k \in 0 .. n : g[k][1] = k}
  <2>1. 0 \in P
    BY <1>3
  <2>2. ASSUME NEW k \in 0 .. n - 1, k \in P
        PROVE  k + 1 \in P
    <3>1. g[k] \in T /\ g[k][1] = k /\ g[k + 1] = up[g[k]] /\ k + 1 \in 0 .. n
      <4>1. k \in 0 .. n /\ k + 1 \in 0 .. n
        OBVIOUS
      <4> HIDE DEF T, up
      <4>. QED BY <1>3, <2>2, <4>1
    <3>2. g[k + 1][1] = k + 1
      BY <3>1
    <3>. QED BY <3>1, <3>2
  <2>3. \A k \in 0 .. n : k \in P
    <3> HIDE DEF P
    <3>. QED BY <2>1, <2>2, Upto
  <2>. QED BY <2>3
<1>5. PICK f : f = [k \in 0 .. n |-> g[k][2]]
  OBVIOUS
<1>6. f \in [0 .. n -> S] /\ f[0] = s
  BY <1>3, <1>5
<1>7. ASSUME NEW k \in 0 .. n - 1
      PROVE  f[k + 1] = step[<<k, f[k]>>]
  <2>1. k \in 0 .. n /\ k + 1 \in 0 .. n
    OBVIOUS
  <2>2. g[k] \in T /\ g[k] = <<k, f[k]>>
    BY <1>3, <1>4, <1>5, <2>1
  <2>3. f[k + 1] = up[g[k]][2]
    BY <1>3, <1>5, <2>1
  <2>. QED BY <2>2, <2>3
<1>8. Counts(f, S, step, s, n)
  BY <1>6, <1>7 DEF Counts
<1>. QED BY <1>8

\* and whatever begins and goes on as it does is it.
LEMMA SameLoop ==
  ASSUME NEW n \in Nat, NEW S, NEW step, NEW s, NEW f, Iterates(f, S, step, s, n),
         NEW h, h[0] = s,
         \A k \in 0 .. n - 1 : h[k] \in S => h[k + 1] = step[h[k]]
  PROVE  \A k \in 0 .. n : h[k] = f[k]
<1> DEFINE P == {k \in 0 .. n : h[k] = f[k]}
<1>1. /\ \A k \in 0 .. n : f[k] \in S
      /\ f[0] = s /\ \A k \in 0 .. n - 1 : f[k + 1] = step[f[k]]
  BY DEF Iterates
<1>2. 0 \in P
  BY <1>1
<1>3. ASSUME NEW k \in 0 .. n - 1, k \in P PROVE k + 1 \in P
  <2>1. h[k] = f[k] /\ k \in 0 .. n /\ k + 1 \in 0 .. n
    BY <1>3
  <2>2. h[k + 1] = f[k + 1]
    BY <1>1, <2>1
  <2>. QED BY <2>1, <2>2
<1>4. \A k \in 0 .. n : k \in P
  <2> HIDE DEF P
  <2>. QED BY <1>2, <1>3, Upto
<1>. QED BY <1>4

-----------------------------------------------------------------------------
(* Sequences *)

\* What is left without the head
LEMMA TailOf ==
  ASSUME NEW T, NEW s \in Seq(T), s # <<>>
  PROVE  /\ Tail(s) \in Seq(T) /\ Len(Tail(s)) = Len(s) - 1 /\ Len(s) > 0
         /\ Head(s) = s[1] /\ Head(s) \in T
         /\ \A k \in 1 .. Len(Tail(s)) : Tail(s)[k] = s[k + 1]
  OBVIOUS

\* An element before a sequence
LEMMA ConsFacts ==
  ASSUME NEW T, NEW x \in T, NEW s \in Seq(T)
  PROVE  /\ <<x>> \o s \in Seq(T)
         /\ Len(<<x>> \o s) = Len(s) + 1
         /\ (<<x>> \o s)[1] = x
         /\ \A k \in 1 .. Len(s) : (<<x>> \o s)[k + 1] = s[k]
  OBVIOUS

\* It is the head, and the sequence is the tail.
LEMMA HeadTail ==
  ASSUME NEW T, NEW x \in T, NEW s \in Seq(T)
  PROVE  <<x>> \o s # <<>> /\ Head(<<x>> \o s) = x /\ Tail(<<x>> \o s) = s
<1> DEFINE t == <<x>> \o s
<1>1. t \in Seq(T) /\ Len(t) = Len(s) + 1 /\ t[1] = x /\ \A k \in 1 .. Len(s) : t[k + 1] = s[k]
  BY ConsFacts
<1> HIDE DEF t
<1>2. t # <<>> /\ Tail(t) \in Seq(T) /\ Len(Tail(t)) = Len(s) /\ Head(t) = x
  BY <1>1
<1>3. \A k \in 1 .. Len(s) : Tail(t)[k] = s[k]
  BY <1>1
<1>4. Tail(t) = s
  BY <1>2, <1>3
<1>. QED BY <1>2, <1>4 DEF t

\* Every sequence that is not empty is of that form.
LEMMA SplitHead ==
  ASSUME NEW T, NEW s \in Seq(T), s # <<>>
  PROVE  Head(s) \in T /\ Tail(s) \in Seq(T) /\ s = <<Head(s)>> \o Tail(s)
<1>1. Head(s) \in T /\ Tail(s) \in Seq(T) /\ Len(Tail(s)) = Len(s) - 1 /\ Len(s) > 0
  OBVIOUS
<1> DEFINE u == <<Head(s)>> \o Tail(s)
<1>2. /\ u \in Seq(T) /\ Len(u) = Len(Tail(s)) + 1 /\ u[1] = Head(s)
      /\ \A k \in 1 .. Len(Tail(s)) : u[k + 1] = Tail(s)[k]
  BY <1>1, ConsFacts
<1> HIDE DEF u
<1>3. Len(u) = Len(s) /\ u[1] = s[1]
  BY <1>1, <1>2
<1>4. ASSUME NEW k \in 1 .. Len(s) PROVE u[k] = s[k]
  <2>1. CASE k = 1
    BY <1>3, <2>1
  <2>2. CASE k # 1
    <3>1. PICK j \in 1 .. Len(Tail(s)) : k = j + 1
      BY <1>1, <2>2
    <3>. QED BY <1>1, <1>2, <3>1
  <2>. QED BY <2>1, <2>2
<1>5. u = s
  BY <1>2, <1>3, <1>4
<1>. QED BY <1>1, <1>5 DEF u

-----------------------------------------------------------------------------
(* The pointers of a ring of d slots *)

Pointers(d) == 0 .. 2 * d - 1
After(p, d) == (p + 1) % (2 * d)
\* How far pointer w is ahead of pointer r
Ahead(w, r, d) == (w - r) % (2 * d)

\* The distance without the remainder: the pointers wrap at most once.
LEMMA AheadCases ==
  ASSUME NEW d \in Nat \ {0}, NEW w \in Pointers(d), NEW r \in Pointers(d)
  PROVE  /\ w >= r => Ahead(w, r, d) = w - r
         /\ w < r => Ahead(w, r, d) = w - r + 2 * d
         /\ Ahead(w, r, d) \in Pointers(d)
<1>1. PICK m \in Nat \ {0} : m = 2 * d
  OBVIOUS
<1>2. PICK x \in Int : x = w - r
  BY DEF Pointers
<1>3. w >= r => x \in 0 .. m - 1
  BY <1>1, <1>2 DEF Pointers
<1>4. w < r => x + m \in 0 .. m - 1
  BY <1>1, <1>2 DEF Pointers
<1>5. w >= r => x % m = x
  BY <1>3
<1>6. w < r => x % m = x + m
  <2>1. w < r => x = m * (-1) + (x + m)
    OBVIOUS
  <2>. QED BY <1>4, <2>1, Remainder
<1>7. x % m \in 0 .. m - 1
  BY Quotient
<1>. QED BY <1>1, <1>2, <1>5, <1>6, <1>7 DEF Ahead, Pointers

\* The next pointer without the remainder
LEMMA AfterCases ==
  ASSUME NEW d \in Nat \ {0}, NEW p \in Pointers(d)
  PROVE  /\ p = 2 * d - 1 => After(p, d) = 0
         /\ p # 2 * d - 1 => After(p, d) = p + 1
         /\ After(p, d) \in Pointers(d)
<1>1. PICK m \in Nat \ {0} : m = 2 * d
  OBVIOUS
<1>2. p \in 0 .. m - 1
  BY <1>1 DEF Pointers
<1>3. p = m - 1 => (p + 1) % m = 0
  BY <1>2
<1>4. p # m - 1 => (p + 1) % m = p + 1
  BY <1>2
<1>. QED BY <1>1, <1>2, <1>3, <1>4 DEF After, Pointers

\* A push puts the write pointer one further ahead,
LEMMA PushAhead ==
  ASSUME NEW d \in Nat \ {0}, NEW w \in Pointers(d), NEW r \in Pointers(d),
         Ahead(w, r, d) < 2 * d - 1
  PROVE  Ahead(After(w, d), r, d) = Ahead(w, r, d) + 1
<1>1. PICK u \in Pointers(d) : u = After(w, d)
  BY AfterCases
<1>2. /\ w = 2 * d - 1 => u = 0
      /\ w # 2 * d - 1 => u = w + 1
  BY <1>1, AfterCases
<1>3. /\ w >= r => Ahead(w, r, d) = w - r
      /\ w < r => Ahead(w, r, d) = w - r + 2 * d
      /\ u >= r => Ahead(u, r, d) = u - r
      /\ u < r => Ahead(u, r, d) = u - r + 2 * d
  BY AheadCases
<1>. QED BY <1>1, <1>2, <1>3 DEF Pointers

\* and a pop one less.
LEMMA PopAhead ==
  ASSUME NEW d \in Nat \ {0}, NEW w \in Pointers(d), NEW r \in Pointers(d),
         Ahead(w, r, d) > 0
  PROVE  Ahead(w, After(r, d), d) = Ahead(w, r, d) - 1
<1>1. PICK u \in Pointers(d) : u = After(r, d)
  BY AfterCases
<1>2. /\ r = 2 * d - 1 => u = 0
      /\ r # 2 * d - 1 => u = r + 1
  BY <1>1, AfterCases
<1>3. /\ w >= r => Ahead(w, r, d) = w - r
      /\ w < r => Ahead(w, r, d) = w - r + 2 * d
      /\ w >= u => Ahead(w, u, d) = w - u
      /\ w < u => Ahead(w, u, d) = w - u + 2 * d
  BY AheadCases
<1>. QED BY <1>1, <1>2, <1>3 DEF Pointers

-----------------------------------------------------------------------------
(* The content of a ring *)

\* n entries from pointer r on
Content(table, r, n, d) == [k \in 1 .. n |-> table[(r + k - 1) % d]]

\* All of them are in S.
Filled(table, r, n, d, S) == \A k \in 1 .. n : table[(r + k - 1) % d] \in S

\* The content is a sequence of what the slots in use hold.
LEMMA ContentType ==
  ASSUME NEW d \in Nat \ {0}, NEW r \in Pointers(d), NEW n \in Nat, NEW S, NEW table,
         Filled(table, r, n, d, S)
  PROVE  /\ Content(table, r, n, d) \in Seq(S)
         /\ Len(Content(table, r, n, d)) = n
         /\ \A k \in 1 .. n : Content(table, r, n, d)[k] = table[(r + k - 1) % d]
<1> DEFINE c == Content(table, r, n, d)
<1>1. c \in [1 .. n -> S]
  BY DEF Content, Filled
<1>2. \A k \in 1 .. n : c[k] = table[(r + k - 1) % d]
  BY DEF Content
<1> HIDE DEF c
<1>3. c \in Seq(S) /\ Len(c) = n
  BY <1>1
<1>. QED BY <1>2, <1>3 DEF c

\* A push writes the slot of the write pointer: no slot in use unless full, and
\* the one after the last.
LEMMA PushSlot ==
  ASSUME NEW d \in Nat \ {0}, NEW w \in Pointers(d), NEW r \in Pointers(d)
  PROVE  /\ w % d = (r + Ahead(w, r, d)) % d
         /\ \A k \in 1 .. Ahead(w, r, d) : Ahead(w, r, d) <= d - 1 => (r + k - 1) % d # w % d
<1>1. Ahead(w, r, d) \in Pointers(d)
  BY AheadCases
<1>2. PICK n \in Int : n = Ahead(w, r, d) /\ n \in Nat
  BY <1>1 DEF Pointers
<1>3. PICK x \in Int, two \in Int, y \in Int : x = w /\ two = 2 /\ y = r + n
  BY DEF Pointers
<1>4. y = x \/ y = x + d * two
  <2>1. w >= r => n = w - r
    BY <1>2, AheadCases
  <2>2. w < r => n = w - r + 2 * d
    BY <1>2, AheadCases
  <2>. QED BY <1>3, <2>1, <2>2 DEF Pointers
<1>5. (x + d * two) % d = x % d
  BY RemainderShift
<1>6. y % d = x % d
  BY <1>4, <1>5
<1>7. ASSUME NEW k \in 1 .. n, n <= d - 1
      PROVE  (r + k - 1) % d # w % d
  <2>1. PICK z \in Int, j \in 1 .. d - 1 : z = r + k - 1 /\ j = n - (k - 1)
    BY <1>2, <1>7 DEF Pointers
  <2>2. z + j = y
    BY <1>3, <2>1, <1>7 DEF Pointers
  <2>3. (z + j) % d # z % d
    BY RemaindersDiffer
  <2>. QED BY <1>3, <1>6, <2>1, <2>2, <2>3
<1>. QED BY <1>2, <1>3, <1>6, <1>7

\* A ring whose entries in use are in S and whose slots hold members of T
Ring(d, w, r, table, S, T) ==
  /\ d \in Nat \ {0} /\ w \in Pointers(d) /\ r \in Pointers(d)
  /\ Ahead(w, r, d) \in 0 .. d
  /\ S \subseteq T /\ table \in [0 .. d - 1 -> T]
  /\ Filled(table, r, Ahead(w, r, d), d, S)

\* The write of a push
Put(table, w, e, d) == [table EXCEPT ![w % d] = e]

InRing(d, w, r, table) == Content(table, r, Ahead(w, r, d), d)

\* The content of a ring is a sequence as long as the ring is occupied.
LEMMA RingContent ==
  ASSUME NEW d, NEW w, NEW r, NEW table, NEW S, NEW T, Ring(d, w, r, table, S, T)
  PROVE  /\ InRing(d, w, r, table) \in Seq(S)
         /\ Len(InRing(d, w, r, table)) = Ahead(w, r, d)
         /\ Ahead(w, r, d) \in 0 .. d
<1>1. PICK n \in Nat : n = Ahead(w, r, d) /\ n \in 0 .. d
  BY DEF Ring
<1>2. d \in Nat \ {0} /\ r \in Pointers(d) /\ Filled(table, r, n, d, S)
  BY <1>1 DEF Ring
<1>3. Content(table, r, n, d) \in Seq(S) /\ Len(Content(table, r, n, d)) = n
  BY <1>2, ContentType
<1>. QED BY <1>1, <1>3 DEF InRing

\* A push appends,
LEMMA RingPush ==
  ASSUME NEW d, NEW w, NEW r, NEW table, NEW S, NEW T, NEW e,
         Ring(d, w, r, table, S, T), e \in S, Ahead(w, r, d) # d
  PROVE  /\ Ring(d, After(w, d), r, Put(table, w, e, d), S, T)
         /\ Ahead(After(w, d), r, d) = Ahead(w, r, d) + 1
         /\ InRing(d, After(w, d), r, Put(table, w, e, d))
            = Append(InRing(d, w, r, table), e)
<1>1. /\ d \in Nat \ {0} /\ w \in Pointers(d) /\ r \in Pointers(d)
       /\ Ahead(w, r, d) \in 0 .. d
       /\ S \subseteq T /\ table \in [0 .. d - 1 -> T] /\ e \in S
       /\ Filled(table, r, Ahead(w, r, d), d, S)
  BY DEF Ring
<1>. USE <1>1
<1>2. Ahead(w, r, d) \in Pointers(d)
  BY AheadCases
<1>3. PICK n \in Nat : n = Ahead(w, r, d) /\ n <= d - 1
  BY <1>2 DEF Pointers
<1> DEFINE new == Put(table, w, e, d)
<1>4. Ahead(After(w, d), r, d) = n + 1 /\ After(w, d) \in Pointers(d)
  BY <1>3, PushAhead, AfterCases
<1>5. \A x \in Int : x % d \in 0 .. d - 1
  BY Quotient
<1>6. w \in Int /\ r \in Int /\ w % d \in 0 .. d - 1
  BY <1>5 DEF Pointers
<1>7. new \in [0 .. d - 1 -> T]
  BY <1>6 DEF Put
<1>8. ASSUME NEW k \in 1 .. n
      PROVE  new[(r + k - 1) % d] = table[(r + k - 1) % d]
  <2>1. (r + k - 1) % d # w % d
    BY <1>3, PushSlot
  <2>2. PICK x \in Int : x = r + k - 1
    BY <1>6
  <2>3. x % d \in 0 .. d - 1
    BY <1>5
  <2>. QED BY <2>1, <2>2, <2>3 DEF Put
<1>9. new[(r + (n + 1) - 1) % d] = e
  <2>1. r + (n + 1) - 1 = r + n
    BY <1>6
  <2>2. w % d = (r + n) % d
    BY <1>3, PushSlot
  <2>. QED BY <1>6, <2>1, <2>2 DEF Put
<1> HIDE DEF new
<1>10. Filled(new, r, n + 1, d, S)
  <2>1. \A k \in 1 .. n : table[(r + k - 1) % d] \in S
    BY <1>3 DEF Filled
  <2>2. ASSUME NEW k \in 1 .. n + 1
        PROVE  new[(r + k - 1) % d] \in S
    <3>1. CASE k = n + 1
      BY <1>9, <3>1
    <3>2. CASE k \in 1 .. n
      BY <1>8, <2>1, <3>2
    <3>. QED BY <3>1, <3>2
  <2>. QED BY <2>2 DEF Filled
<1>11. Content(new, r, n + 1, d) = Append(Content(table, r, n, d), e)
  <2>1. Filled(table, r, n, d, S)
    BY <1>3
  <2>. HIDE <1>1
  <2>2. d \in Nat \ {0} /\ r \in Pointers(d)
    BY <1>1
  <2>3. PICK c \in Seq(S) :
          /\ c = Content(table, r, n, d) /\ Len(c) = n
          /\ \A k \in 1 .. n : c[k] = table[(r + k - 1) % d]
    BY <2>1, <2>2, ContentType
  <2>4. PICK n1 \in Nat : n1 = n + 1
    OBVIOUS
  <2>5. PICK c1 \in Seq(S) :
          /\ c1 = Content(new, r, n1, d) /\ Len(c1) = n1
          /\ \A k \in 1 .. n1 : c1[k] = new[(r + k - 1) % d]
    <3>1. Filled(new, r, n1, d, S)
      BY <1>10, <2>4
    <3>. QED BY <2>2, <3>1, ContentType
  <2>6. \A k \in 1 .. n : c1[k] = c[k]
    <3>1. \A k \in 1 .. n : k \in 1 .. n1
      BY <2>4
    <3>. QED BY <1>8, <2>3, <2>5, <3>1
  <2>7. c1[n + 1] = e
    BY <1>9, <2>4, <2>5
  <2>8. c1 = Append(c, e)
    BY <2>3, <2>4, <2>5, <2>6, <2>7
  <2>. QED BY <2>3, <2>4, <2>5, <2>8
<1>12. n + 1 \in 0 .. d /\ Ahead(After(w, d), r, d) = n + 1
  BY <1>3, <1>4
<1>13. /\ Ahead(After(w, d), r, d) \in 0 .. d
       /\ Filled(new, r, Ahead(After(w, d), r, d), d, S)
  BY <1>10, <1>12, Zenon
<1>14. Ring(d, After(w, d), r, new, S, T)
  BY <1>4, <1>7, <1>13, Zenon DEF Ring
<1>15. InRing(d, After(w, d), r, new) = Append(InRing(d, w, r, table), e)
  BY <1>3, <1>11, <1>12, Zenon DEF InRing
<1>. QED BY <1>3, <1>12, <1>14, <1>15, Zenon DEF new

\* and a pop takes the head.
LEMMA PopContent ==
  ASSUME NEW d \in Nat \ {0}, NEW w \in Pointers(d), NEW r \in Pointers(d),
         NEW S, NEW T, NEW table \in [0 .. d - 1 -> T], Ahead(w, r, d) > 0,
         Filled(table, r, Ahead(w, r, d), d, S)
  PROVE  /\ Ahead(w, After(r, d), d) = Ahead(w, r, d) - 1
         /\ After(r, d) \in Pointers(d)
         /\ Filled(table, After(r, d), Ahead(w, r, d) - 1, d, S)
         /\ Content(table, r, Ahead(w, r, d), d) # <<>>
         /\ table[r % d] \in S
         /\ Head(Content(table, r, Ahead(w, r, d), d)) = table[r % d]
         /\ Content(table, After(r, d), Ahead(w, r, d) - 1, d)
            = Tail(Content(table, r, Ahead(w, r, d), d))
<1>1. Ahead(w, r, d) \in Pointers(d)
  BY AheadCases
<1>2. PICK n \in Nat : n = Ahead(w, r, d) /\ n > 0
  BY <1>1 DEF Pointers
<1>3. Ahead(w, After(r, d), d) = n - 1 /\ After(r, d) \in Pointers(d)
  BY <1>2, PopAhead, AfterCases
<1>4. PICK u \in Pointers(d) : u = After(r, d)
  BY <1>3
<1>5. ASSUME NEW k \in 1 .. n - 1
      PROVE  (u + k - 1) % d = (r + (k + 1) - 1) % d
  <2>1. PICK x \in Int, y \in Int : x = r + 1 /\ y = k - 1
    BY DEF Pointers
  <2>2. ((x % (2 * d)) + y) % d = (x + y) % d
    BY RemainderOfRemainder
  <2>3. u = x % (2 * d)
    BY <1>4, <2>1 DEF After
  <2>4. x + y = r + (k + 1) - 1 /\ u + y = u + k - 1
    BY <2>1 DEF Pointers
  <2>. QED BY <2>2, <2>3, <2>4
<1>6. Filled(table, u, n - 1, d, S)
  <2>1. \A k \in 1 .. n - 1 : k + 1 \in 1 .. n
    BY <1>2
  <2>2. \A k \in 1 .. n : table[(r + k - 1) % d] \in S
    BY <1>2 DEF Filled
  <2>. QED BY <1>5, <2>1, <2>2 DEF Filled
<1>7. r + 1 - 1 = r /\ 1 \in 1 .. n
  BY <1>2 DEF Pointers
<1>8. PICK c \in Seq(S) :
        /\ c = Content(table, r, n, d) /\ Len(c) = n
        /\ \A k \in 1 .. n : c[k] = table[(r + k - 1) % d]
  BY <1>2, ContentType
<1>9. PICK n1 \in Nat : n1 = n - 1
  BY <1>2
<1>10. Filled(table, u, n1, d, S)
  BY <1>6, <1>9
<1>11. PICK c1 \in Seq(S) :
        /\ c1 = Content(table, u, n1, d) /\ Len(c1) = n1
        /\ \A k \in 1 .. n1 : c1[k] = table[(u + k - 1) % d]
  BY <1>10, ContentType
<1>12. \A k \in 1 .. n - 1 : c1[k] = c[k + 1]
  <2>1. \A k \in 1 .. n - 1 : k + 1 \in 1 .. n
    BY <1>2
  <2>. QED BY <1>5, <1>8, <1>9, <1>11, <2>1
<1>13. c # <<>> /\ c1 = Tail(c) /\ Head(c) = c[1]
  BY <1>2, <1>8, <1>12, <1>9, <1>11
<1>14. c[1] = table[r % d] /\ table[r % d] \in S
  BY <1>2, <1>7, <1>8 DEF Filled
<1>. QED BY <1>2, <1>3, <1>4, <1>6, <1>8, <1>13, <1>14, <1>9, <1>11

\* A pop, of a ring
LEMMA RingPop ==
  ASSUME NEW d, NEW w, NEW r, NEW table, NEW S, NEW T,
         Ring(d, w, r, table, S, T), Ahead(w, r, d) # 0
  PROVE  /\ Ring(d, w, After(r, d), table, S, T)
         /\ Ahead(w, After(r, d), d) = Ahead(w, r, d) - 1
         /\ InRing(d, w, r, table) # <<>>
         /\ table[r % d] \in S
         /\ Head(InRing(d, w, r, table)) = table[r % d]
         /\ InRing(d, w, After(r, d), table) = Tail(InRing(d, w, r, table))
<1>1. /\ d \in Nat \ {0} /\ w \in Pointers(d) /\ r \in Pointers(d)
      /\ S \subseteq T /\ table \in [0 .. d - 1 -> T]
      /\ Filled(table, r, Ahead(w, r, d), d, S)
  BY DEF Ring
<1>2. PICK n \in Nat : n = Ahead(w, r, d) /\ n \in 1 .. d
  BY DEF Ring
<1>3. Ahead(w, r, d) > 0
  BY <1>2
<1>4. /\ Ahead(w, After(r, d), d) = Ahead(w, r, d) - 1
      /\ After(r, d) \in Pointers(d)
      /\ Filled(table, After(r, d), Ahead(w, r, d) - 1, d, S)
      /\ Content(table, r, Ahead(w, r, d), d) # <<>>
      /\ table[r % d] \in S
      /\ Head(Content(table, r, Ahead(w, r, d), d)) = table[r % d]
      /\ Content(table, After(r, d), Ahead(w, r, d) - 1, d)
         = Tail(Content(table, r, Ahead(w, r, d), d))
  BY <1>1, <1>3, PopContent
<1>5. n - 1 \in 0 .. d
  BY <1>1, <1>2
<1>6. Ahead(w, After(r, d), d) \in 0 .. d
  BY <1>2, <1>4, <1>5, Zenon
<1>. QED BY <1>1, <1>4, <1>6, Zenon DEF Ring, InRing

\* One clock edge of a ring: it may push, when a slot is free, and pop, when it
\* is not empty.
RingEdge(d, w, r, table, w1, r1, t1, e, push, pop) ==
  /\ push \in BOOLEAN /\ pop \in BOOLEAN
  /\ push => Ahead(w, r, d) # d
  /\ pop => Ahead(w, r, d) # 0
  /\ w1 = IF push THEN After(w, d) ELSE w
  /\ r1 = IF pop THEN After(r, d) ELSE r
  /\ t1 = IF push THEN Put(table, w, e, d) ELSE table

\* Content, order and occupancy after any such edge
LEMMA RingStep ==
  ASSUME NEW d, NEW w, NEW r, NEW table, NEW S, NEW T, NEW e, NEW push, NEW pop,
         NEW w1, NEW r1, NEW t1,
         Ring(d, w, r, table, S, T),
         push => e \in S,
         RingEdge(d, w, r, table, w1, r1, t1, e, push, pop)
  PROVE  /\ Ring(d, w1, r1, t1, S, T)
         /\ ~push => Ahead(w1, r1, d) <= Ahead(w, r, d)
         /\ pop => /\ InRing(d, w, r, table) # <<>>
                   /\ table[r % d] \in S
                   /\ Head(InRing(d, w, r, table)) = table[r % d]
         /\ push /\ pop => InRing(d, w1, r1, t1) = Append(Tail(InRing(d, w, r, table)), e)
         /\ push /\ ~pop => InRing(d, w1, r1, t1) = Append(InRing(d, w, r, table), e)
         /\ ~push /\ pop => InRing(d, w1, r1, t1) = Tail(InRing(d, w, r, table))
         /\ ~push /\ ~pop => InRing(d, w1, r1, t1) = InRing(d, w, r, table)
<1>. USE DEF RingEdge
<1>1. /\ InRing(d, w, r, table) \in Seq(S)
      /\ Len(InRing(d, w, r, table)) = Ahead(w, r, d)
      /\ Ahead(w, r, d) \in 0 .. d
      /\ d \in Nat
  BY RingContent DEF Ring
<1>2. pop => /\ Ring(d, w, After(r, d), table, S, T)
             /\ Ahead(w, After(r, d), d) = Ahead(w, r, d) - 1
             /\ InRing(d, w, r, table) # <<>>
             /\ table[r % d] \in S
             /\ Head(InRing(d, w, r, table)) = table[r % d]
             /\ InRing(d, w, After(r, d), table) = Tail(InRing(d, w, r, table))
  BY RingPop
<1>3. push => /\ Ring(d, After(w, d), r, Put(table, w, e, d), S, T)
              /\ Ahead(After(w, d), r, d) = Ahead(w, r, d) + 1
              /\ InRing(d, After(w, d), r, Put(table, w, e, d))
                 = Append(InRing(d, w, r, table), e)
  BY RingPush
<1>4. CASE ~push /\ ~pop
  BY <1>1, <1>4
<1>5. CASE ~push /\ pop
  <2>1. w1 = w /\ t1 = table /\ r1 = After(r, d)
    BY <1>5
  <2>2. Ahead(w, After(r, d), d) <= Ahead(w, r, d)
    BY <1>1, <1>2, <1>5
  <2>. QED BY <1>2, <1>5, <2>1, <2>2
<1>6. CASE push /\ ~pop
  BY <1>3, <1>6
<1>7. CASE push /\ pop
  <2>1. w1 = After(w, d) /\ t1 = Put(table, w, e, d) /\ r1 = After(r, d)
    BY <1>7
  <2>2. Ahead(w1, r, d) = Ahead(w, r, d) + 1 /\ Ring(d, w1, r, t1, S, T)
        /\ InRing(d, w1, r, t1) = Append(InRing(d, w, r, table), e)
    BY <1>3, <1>7, <2>1
  <2>3. Ahead(w1, r, d) # 0
    BY <1>1, <2>2
  <2>4. /\ Ring(d, w1, r1, t1, S, T)
        /\ InRing(d, w1, r1, t1) = Tail(InRing(d, w1, r, t1))
    BY <2>1, <2>2, <2>3, RingPop
  <2>5. Tail(Append(InRing(d, w, r, table), e)) = Append(Tail(InRing(d, w, r, table)), e)
    <3>1. PICK s \in Seq(S), x \in S : s = InRing(d, w, r, table) /\ x = e /\ Len(s) > 0
      BY <1>1, <1>7
    <3>2. Tail(Append(s, x)) = Append(Tail(s), x)
      BY <3>1
    <3>. QED BY <3>1, <3>2
  <2>. QED BY <1>2, <1>7, <2>2, <2>4, <2>5
<1>. QED BY <1>4, <1>5, <1>6, <1>7

-----------------------------------------------------------------------------
(* The elements of a matrix of w columns, row by row *)

\* A product of naturals grows with its factor.
LEMMA TimesGrows ==
  ASSUME NEW a \in Nat, NEW b \in Nat, a <= b, NEW w \in Nat
  PROVE  a * w <= b * w /\ a * w \in Nat /\ b * w \in Nat
<1>1. PICK d \in Nat : b = a + d
  <2>1. b - a \in Nat /\ b = a + (b - a)
    OBVIOUS
  <2>. QED BY <2>1
<1>2. b * w = (a * w) + (d * w)
  BY <1>1
<1>3. d * w \in Nat /\ a * w \in Nat
  OBVIOUS
<1>. QED BY <1>2, <1>3

\* An element's place is in the matrix, and gives its row and column back.
LEMMA PlaceOf ==
  ASSUME NEW h \in Nat, NEW w \in Nat, NEW r \in 0 .. h - 1, NEW c \in 0 .. w - 1
  PROVE  /\ (r * w) + c \in 0 .. (h * w) - 1
         /\ ((r * w) + c) \div w = r /\ ((r * w) + c) % w = c
<1>1. w \in Nat \ {0}
  OBVIOUS
<1>2. (r + 1) * w <= h * w /\ r * w \in Nat /\ h * w \in Nat
  BY TimesGrows
<1>3. (r + 1) * w = (r * w) + w
  OBVIOUS
<1>4. PICK x \in Nat : x = (r * w) + c
  BY <1>2
<1>5. x = w * r + c
  BY <1>4
<1>6. x % w = c
  BY <1>1, <1>5, Remainder
<1>7. x \div w = r
  <2>1. PICK q \in Int : q = x \div w /\ x = w * q + c
    BY <1>1, <1>6, Quotient
  <2>2. w * q = w * r
    BY <1>5, <2>1
  <2>3. q = r
    <3>1. CASE q < r
      <4>1. (q + 1) * w <= r * w \/ q < 0
        BY <3>1, TimesGrows
      <4>. QED BY <1>1, <2>2, <3>1, <4>1
    <3>2. CASE q > r
      <4>1. (r + 1) * w <= q * w
        BY <3>2, TimesGrows
      <4>. QED BY <1>1, <1>3, <2>2, <4>1
    <3>. QED BY <3>1, <3>2
  <2>. QED BY <2>1, <2>3
<1>. QED BY <1>2, <1>3, <1>4, <1>6, <1>7

\* Every place has one row and one column.
LEMMA RowAndColumn ==
  ASSUME NEW h \in Nat, NEW w \in Nat, NEW i \in 0 .. (h * w) - 1
  PROVE  \E r \in 0 .. h - 1, c \in 0 .. w - 1 : i = (r * w) + c
<1>1. w # 0
  <2>1. w = 0 => h * w = 0
    OBVIOUS
  <2>. QED BY <2>1
<1>2. PICK q \in Int, c \in 0 .. w - 1 : q = i \div w /\ c = i % w /\ i = w * q + c
  BY <1>1, Quotient
<1>3. q >= 0
  <2>1. ASSUME q < 0 PROVE FALSE
    <3>1. PICK p \in Nat : q = -1 - p
      <4>1. -1 - q \in Nat /\ q = -1 - (-1 - q)
        BY <2>1
      <4>. QED BY <4>1
    <3>2. w * q = - w - (w * p) /\ w * p \in Nat
      BY <3>1
    <3>. QED BY <1>2, <3>2
  <2>. QED BY <2>1
<1>4. q < h
  <2>1. ASSUME q >= h PROVE FALSE
    <3>1. h * w <= q * w
      BY <1>3, <2>1, TimesGrows
    <3>. QED BY <1>2, <3>1
  <2>. QED BY <2>1
<1>5. q \in 0 .. h - 1 /\ i = (q * w) + c
  BY <1>2, <1>3, <1>4
<1>. QED BY <1>5

-----------------------------------------------------------------------------
(* A stretch of a stream of beats *)

\* The members lo to hi - 1 of the stream F
Run(F, lo, hi) == [j \in 1 .. hi - lo |-> F[lo + j - 1]]

\* The sequence s is that stretch, of members of T.
IsRun(s, T, F, lo, hi) ==
  /\ s = Run(F, lo, hi) /\ s \in Seq(T) /\ Len(s) = hi - lo
  /\ \A j \in 1 .. hi - lo : s[j] = F[lo + j - 1]

\* A stretch is one.
LEMMA RunType ==
  ASSUME NEW T, NEW F \in [Nat -> T], NEW lo \in Nat, NEW hi \in Nat, lo <= hi
  PROVE  IsRun(Run(F, lo, hi), T, F, lo, hi)
<1>1. PICK n \in Nat : n = hi - lo
  OBVIOUS
<1> DEFINE s == [j \in 1 .. n |-> F[lo + j - 1]]
<1>2. \A j \in 1 .. n : lo + j - 1 \in Nat
  OBVIOUS
<1>3. s \in [1 .. n -> T] /\ \A j \in 1 .. n : s[j] = F[lo + j - 1]
  BY <1>2
<1>4. Run(F, lo, hi) = s
  BY <1>1 DEF Run
<1> HIDE DEF s
<1>5. s \in Seq(T) /\ Len(s) = n
  BY <1>3
<1>. QED BY <1>1, <1>3, <1>4, <1>5 DEF IsRun

\* One more beat is asked,
LEMMA RunGrows ==
  ASSUME NEW T, NEW F \in [Nat -> T], NEW lo \in Nat, NEW hi \in Nat, lo <= hi
  PROVE  Append(Run(F, lo, hi), F[hi]) = Run(F, lo, hi + 1)
<1>1. PICK n \in Nat, s \in Seq(T) :
        /\ n = hi - lo /\ s = Run(F, lo, hi) /\ Len(s) = n
        /\ \A j \in 1 .. n : s[j] = F[lo + j - 1]
  <2>1. IsRun(Run(F, lo, hi), T, F, lo, hi) /\ hi - lo \in Nat
    BY RunType
  <2>. QED BY <2>1 DEF IsRun
<1>2. PICK h \in Nat, m \in Nat : h = hi + 1 /\ m = n + 1 /\ m = h - lo
  BY <1>1
<1>3. lo <= h
  BY <1>2
<1>4. PICK t \in Seq(T) :
        /\ t = Run(F, lo, h) /\ Len(t) = m
        /\ \A j \in 1 .. m : t[j] = F[lo + j - 1]
  <2>1. IsRun(Run(F, lo, h), T, F, lo, h)
    BY <1>2, <1>3, RunType
  <2>. QED BY <1>2, <1>3, <2>1 DEF IsRun
<1>5. \A j \in 1 .. n : j \in 1 .. m
  BY <1>2
<1>6. t[m] = F[hi] /\ F[hi] \in T
  <2>1. m \in 1 .. m /\ lo + m - 1 = hi
    BY <1>1, <1>2
  <2>. QED BY <1>4, <2>1
<1>7. t = Append(s, F[hi])
  BY <1>1, <1>2, <1>4, <1>5, <1>6
<1>. QED BY <1>1, <1>2, <1>4, <1>7

\* and the oldest is answered.
LEMMA RunServed ==
  ASSUME NEW T, NEW F \in [Nat -> T], NEW lo \in Nat, NEW hi \in Nat, lo <= hi,
         Run(F, lo, hi) # <<>>
  PROVE  lo < hi /\ Head(Run(F, lo, hi)) = F[lo] /\ Tail(Run(F, lo, hi)) = Run(F, lo + 1, hi)
<1>1. PICK n \in Nat, s \in Seq(T) :
        /\ n = hi - lo /\ s = Run(F, lo, hi) /\ Len(s) = n
        /\ \A j \in 1 .. n : s[j] = F[lo + j - 1]
  <2>1. IsRun(Run(F, lo, hi), T, F, lo, hi) /\ hi - lo \in Nat
    BY RunType
  <2>. QED BY <2>1 DEF IsRun
<1>2. n > 0
  BY <1>1
<1>3. PICK l \in Nat, m \in Nat : l = lo + 1 /\ n = m + 1 /\ m = hi - l /\ l <= hi
  <2>1. n - 1 \in Nat /\ n - 1 = hi - (lo + 1)
    BY <1>1, <1>2
  <2>. QED BY <1>2, <2>1
<1>4. PICK t \in Seq(T) :
        /\ t = Run(F, l, hi) /\ Len(t) = m
        /\ \A j \in 1 .. m : t[j] = F[l + j - 1]
  <2>1. IsRun(Run(F, l, hi), T, F, l, hi)
    BY <1>2, <1>3, RunType
  <2>. QED BY <1>2, <1>3, <2>1 DEF IsRun
<1>5. Tail(s) \in Seq(T) /\ Len(Tail(s)) = m /\ Head(s) = s[1]
      /\ \A j \in 1 .. m : Tail(s)[j] = s[j + 1]
  <2>1. s # <<>>
    BY <1>1, <1>2
  <2>. QED BY <1>1, <1>3, <2>1, TailOf
<1>6. ASSUME NEW j \in 1 .. m
      PROVE  Tail(s)[j] = t[j]
  <2>1. j + 1 \in 1 .. n /\ lo + (j + 1) - 1 = l + j - 1
    BY <1>3
  <2>. QED BY <1>1, <1>4, <1>5, <2>1
<1>7. Tail(s) = t
  BY <1>4, <1>5, <1>6
<1>8. s[1] = F[lo]
  <2>1. 1 \in 1 .. n /\ lo + 1 - 1 = lo
    BY <1>2
  <2>. QED BY <1>1, <2>1
<1>. QED BY <1>1, <1>2, <1>3, <1>4, <1>5, <1>7, <1>8
=============================================================================
