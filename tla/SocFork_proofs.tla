---------------------------- MODULE SocFork_proofs ----------------------------
(***************************************************************************)
(* The fork of the SoC below the arbiter, for all windows, values and      *)
(* credit settings: one response per beat, and the two slaves behind their *)
(* order FIFO are one flat memory with in-order responses.                 *)
(***************************************************************************)
EXTENDS SocFork, RingTheorems, FiniteSetTheorems

-----------------------------------------------------------------------------
(* How often a kind occurs in the first i elements *)

Places(o, i, k) == {j \in 1 .. i : o[j] = k}
Count(o, i, k) == Cardinality(Places(o, i, k))

\* Counts are natural numbers.
LEMMA CountType ==
  ASSUME NEW o, NEW i \in Nat, NEW k
  PROVE  IsFiniteSet(Places(o, i, k)) /\ Count(o, i, k) \in Nat
<1>1. 1 \in Int /\ i \in Int
  OBVIOUS
<1>2. IsFiniteSet(1 .. i)
  BY <1>1, FS_Interval
<1>3. Places(o, i, k) \in SUBSET (1 .. i)
  BY DEF Places
<1>4. IsFiniteSet(Places(o, i, k))
  BY <1>2, <1>3, FS_Subset
<1>. QED BY <1>4, FS_CardinalityType DEF Count

\* Nothing occurs before the first element.
LEMMA CountZero ==
  ASSUME NEW o, NEW k
  PROVE  Count(o, 0, k) = 0
<1>1. Places(o, 0, k) = {}
  BY DEF Places
<1>. QED BY <1>1, FS_EmptySet DEF Count

\* One more element
LEMMA CountNext ==
  ASSUME NEW o, NEW i \in Nat, NEW k
  PROVE  Count(o, i + 1, k) = Count(o, i, k) + (IF o[i + 1] = k THEN 1 ELSE 0)
<1>1. IsFiniteSet(Places(o, i, k)) /\ Count(o, i, k) \in Nat
  BY CountType
<1>2. i + 1 \notin Places(o, i, k)
  BY DEF Places
<1>3. CASE o[i + 1] = k
  <2>1. Places(o, i + 1, k) = Places(o, i, k) \union {i + 1}
    BY <1>3 DEF Places
  <2>. QED BY <1>1, <1>2, <1>3, <2>1, FS_AddElement DEF Count
<1>4. CASE o[i + 1] # k
  <2>1. Places(o, i + 1, k) = Places(o, i, k)
    BY <1>4 DEF Places
  <2>. QED BY <1>1, <1>4, <2>1 DEF Count
<1>. QED BY <1>3, <1>4

\* Two sequences agree up to i; t is o without its first element up to i.
Agree(o, t, i) == \A j \in 1 .. i : o[j] = t[j]
Follows(t, o, i) == \A j \in 1 .. i : t[j] = o[j + 1]

\* Only the elements counted matter.
LEMMA CountSame ==
  ASSUME NEW o, NEW t, NEW i \in Nat, NEW k, Agree(o, t, i)
  PROVE  Count(o, i, k) = Count(t, i, k)
<1>1. Places(o, i, k) = Places(t, i, k)
  BY DEF Places, Agree
<1>. QED BY <1>1 DEF Count

\* Without the first element
LEMMA CountShift ==
  ASSUME NEW o, NEW t, NEW i \in Nat, NEW k, Follows(t, o, i)
  PROVE  Count(o, i + 1, k) = Count(t, i, k) + (IF o[1] = k THEN 1 ELSE 0)
<1> DEFINE later == {j \in 2 .. i + 1 : o[j] = k}
           f == [j \in Places(t, i, k) |-> j + 1]
<1>1. IsFiniteSet(Places(t, i, k)) /\ Count(t, i, k) \in Nat
  BY CountType
<1>2. f \in Bijection(Places(t, i, k), later)
  <2>1. f \in [Places(t, i, k) -> later]
    BY DEF Places, Follows
  <2>2. \A x, y \in Places(t, i, k) : f[x] = f[y] => x = y
    BY DEF Places, Follows
  <2>3. \A y \in later : \E x \in Places(t, i, k) : f[x] = y
    <3>1. ASSUME NEW y \in later PROVE \E x \in Places(t, i, k) : f[x] = y
      <4>1. y \in 2 .. i + 1 /\ o[y] = k
        OBVIOUS
      <4>2. PICK x \in 1 .. i : y = x + 1
        BY <4>1
      <4>3. x \in Places(t, i, k) /\ f[x] = y
        BY <4>1, <4>2 DEF Places, Follows
      <4>. QED BY <4>3
    <3>. QED BY <3>1
  <2> HIDE DEF f, later
  <2>. QED BY <2>1, <2>2, <2>3 DEF Bijection, Injection, Surjection, IsInjective
<1>3. IsFiniteSet(later) /\ Cardinality(later) = Count(t, i, k)
  <2> HIDE DEF f, later
  <2>1. ExistsBijection(Places(t, i, k), later)
    BY <1>2 DEF ExistsBijection
  <2>. QED BY <1>1, <2>1, FS_Bijection DEF Count
<1>4. 1 \notin later
  OBVIOUS
<1>5. Places(o, i + 1, k) = later \union (IF o[1] = k THEN {1} ELSE {})
  BY DEF Places, Follows
<1> HIDE DEF later
<1>6. CASE o[1] = k
  BY <1>1, <1>3, <1>4, <1>5, <1>6, FS_AddElement DEF Count
<1>7. CASE o[1] # k
  <2>1. Places(o, i + 1, k) = later
    BY <1>5, <1>7
  <2>. QED BY <1>1, <1>3, <1>7, <2>1 DEF Count
<1>. QED BY <1>6, <1>7

\* An element's rank among its kind is between one and the kind's number.
LEMMA RankBounds ==
  ASSUME NEW o, NEW n \in Nat, NEW i \in 1 .. n
  PROVE  Count(o, i, o[i]) \in 1 .. Count(o, n, o[i])
<1>1. PICK h \in Nat : i = h + 1
  OBVIOUS
<1>2. Count(o, h, o[i]) \in Nat /\ Count(o, i, o[i]) = Count(o, h, o[i]) + 1
  BY <1>1, CountType, CountNext
<1>3. Places(o, i, o[i]) \in SUBSET Places(o, n, o[i])
  BY DEF Places
<1>4. Count(o, i, o[i]) <= Count(o, n, o[i]) /\ Count(o, n, o[i]) \in Nat
  BY <1>3, CountType, FS_Subset DEF Count
<1>. QED BY <1>2, <1>4

-----------------------------------------------------------------------------
(* A merge of queues in the order of their kinds *)

Merge(o, Q) == [i \in 1 .. Len(o) |-> Q[o[i]][Count(o, i, o[i])]]

\* Every queue has as many elements as the order has of its kind.
Matched(o, Q, K, T) ==
  /\ o \in Seq(K) /\ Q \in [K -> Seq(T)]
  /\ \A k \in K : Count(o, Len(o), k) = Len(Q[k])

\* A merge is a sequence of the queues' elements.
LEMMA MergeType ==
  ASSUME NEW o, NEW Q, NEW K, NEW T, Matched(o, Q, K, T)
  PROVE  Merge(o, Q) \in Seq(T) /\ Len(Merge(o, Q)) = Len(o)
<1>1. o \in Seq(K) /\ Len(o) \in Nat
  BY DEF Matched
<1>2. ASSUME NEW i \in 1 .. Len(o)
      PROVE  Q[o[i]][Count(o, i, o[i])] \in T
  <2>1. o[i] \in K
    BY <1>1
  <2>2. Count(o, i, o[i]) \in 1 .. Len(Q[o[i]])
    BY <1>1, <2>1, RankBounds DEF Matched
  <2>3. Q[o[i]] \in Seq(T)
    BY <2>1 DEF Matched
  <2>. QED BY <2>2, <2>3
<1>3. Merge(o, Q) \in [1 .. Len(o) -> T]
  BY <1>2 DEF Merge
<1>. QED BY <1>1, <1>3

\* A push of one kind appends to the merge.
LEMMA MergePush ==
  ASSUME NEW o, NEW Q, NEW K, NEW T, Matched(o, Q, K, T),
         NEW k \in K, NEW v \in T, NEW R \in [K -> Seq(T)],
         R[k] = Append(Q[k], v), \A j \in K \ {k} : R[j] = Q[j]
  PROVE  /\ Matched(Append(o, k), R, K, T)
         /\ Merge(Append(o, k), R) = Append(Merge(o, Q), v)
<1> DEFINE p == Append(o, k)
<1>1. o \in Seq(K) /\ Q \in [K -> Seq(T)] /\ \A j \in K : Count(o, Len(o), j) = Len(Q[j])
  BY DEF Matched
<1>2. PICK n \in Nat : n = Len(o)
  BY <1>1
<1>3. p \in Seq(K) /\ Len(p) = n + 1 /\ p[n + 1] = k /\ \A i \in 1 .. n : p[i] = o[i]
  BY <1>1, <1>2
<1> HIDE DEF p
<1>4. \A j : \A i \in 0 .. n : Count(p, i, j) = Count(o, i, j)
  <2>1. ASSUME NEW i \in 0 .. n, NEW j PROVE Count(p, i, j) = Count(o, i, j)
    <3>1. i \in Nat /\ Agree(p, o, i)
      BY <1>3 DEF Agree
    <3>. QED BY <3>1, CountSame
  <2>. QED BY <2>1
<1>5. \A j : Count(p, n + 1, j) = Count(o, n, j) + (IF k = j THEN 1 ELSE 0)
  BY <1>3, <1>4, CountNext
<1>6. Len(R[k]) = Len(Q[k]) + 1 /\ R[k][Len(Q[k]) + 1] = v
      /\ Len(Q[k]) \in Nat /\ \A i \in 1 .. Len(Q[k]) : R[k][i] = Q[k][i]
  <2>1. PICK q \in Seq(T) : q = Q[k]
    BY <1>1
  <2>. QED BY <2>1
<1>7. Matched(p, R, K, T)
  <2>1. ASSUME NEW j \in K PROVE Count(p, Len(p), j) = Len(R[j])
    <3>1. CASE j = k
      BY <1>1, <1>2, <1>3, <1>5, <1>6, <3>1
    <3>2. CASE j # k
      <4>1. Len(Q[j]) \in Nat
        BY <1>1
      <4>. QED BY <1>1, <1>2, <1>3, <1>5, <3>2, <4>1
    <3>. QED BY <3>1, <3>2
  <2>. QED BY <1>3, <2>1 DEF Matched
<1>8. Merge(o, Q) \in Seq(T) /\ Len(Merge(o, Q)) = n
  BY <1>2, MergeType
<1>9. PICK s \in Seq(T) : s = Merge(o, Q) /\ Len(s) = n
  BY <1>8
<1>10. PICK r \in Seq(T) : r = Merge(p, R) /\ Len(r) = n + 1
  BY <1>3, <1>7, MergeType
<1>11. ASSUME NEW i \in 1 .. n PROVE r[i] = s[i]
  <2>1. o[i] \in K /\ p[i] = o[i]
    BY <1>1, <1>2, <1>3
  <2>2. i \in 1 .. Len(p) /\ i \in 1 .. Len(o) /\ i \in 0 .. n
    BY <1>2, <1>3
  <2>3. r[i] = R[o[i]][Count(o, i, o[i])] /\ s[i] = Q[o[i]][Count(o, i, o[i])]
    BY <1>4, <1>9, <1>10, <2>1, <2>2 DEF Merge
  <2>4. Count(o, i, o[i]) \in 1 .. Len(Q[o[i]])
    BY <1>1, <1>2, <2>1, RankBounds
  <2>. QED BY <1>6, <2>1, <2>3, <2>4
<1>12. r[n + 1] = v
  <2>1. n + 1 \in 1 .. Len(p)
    BY <1>3
  <2>2. r[n + 1] = R[k][Count(p, n + 1, k)]
    BY <1>3, <1>10, <2>1 DEF Merge
  <2>3. Count(p, n + 1, k) = Len(Q[k]) + 1
    BY <1>1, <1>2, <1>5
  <2>. QED BY <1>6, <2>2, <2>3
<1>13. r = Append(s, v)
  BY <1>9, <1>10, <1>11, <1>12
<1>. QED BY <1>7, <1>9, <1>10, <1>13 DEF p

\* The kind that is first has an element.
LEMMA MergeHead ==
  ASSUME NEW o, NEW Q, NEW K, NEW T, Matched(o, Q, K, T), o # <<>>
  PROVE  Head(o) \in K /\ Q[Head(o)] \in Seq(T) /\ Q[Head(o)] # <<>>
<1>1. o \in Seq(K) /\ Q \in [K -> Seq(T)] /\ \A j \in K : Count(o, Len(o), j) = Len(Q[j])
  BY DEF Matched
<1>2. Head(o) = o[1] /\ Head(o) \in K /\ Len(o) > 0 /\ Len(o) \in Nat
  BY <1>1, TailOf
<1>3. Count(o, 1, o[1]) \in 1 .. Count(o, Len(o), o[1])
  <2>1. PICK n \in Nat : n = Len(o) /\ 1 \in 1 .. n
    BY <1>2
  <2>. QED BY <2>1, RankBounds
<1>4. Len(Q[Head(o)]) # 0 /\ Q[Head(o)] \in Seq(T)
  BY <1>1, <1>2, <1>3
<1>. QED BY <1>2, <1>4

\* The head of the merge is the head of its kind's queue.
LEMMA MergePop ==
  ASSUME NEW o, NEW Q, NEW K, NEW T, Matched(o, Q, K, T), o # <<>>,
         NEW R \in [K -> Seq(T)], R[Head(o)] = Tail(Q[Head(o)]),
         \A j \in K \ {Head(o)} : R[j] = Q[j]
  PROVE  /\ Head(o) \in K /\ Q[Head(o)] # <<>>
         /\ Merge(o, Q) # <<>> /\ Head(Merge(o, Q)) = Head(Q[Head(o)])
         /\ Matched(Tail(o), R, K, T)
         /\ Merge(Tail(o), R) = Tail(Merge(o, Q))
<1> DEFINE p == Tail(o)
           k == Head(o)
<1>1. o \in Seq(K) /\ Q \in [K -> Seq(T)] /\ \A j \in K : Count(o, Len(o), j) = Len(Q[j])
  BY DEF Matched
<1>2. PICK n \in Nat : Len(o) = n + 1
  <2>1. Len(o) \in Nat /\ Len(o) # 0
    BY <1>1
  <2>2. PICK l \in Nat : l = Len(o)
    BY <2>1
  <2>3. l - 1 \in Nat /\ l = (l - 1) + 1
    BY <2>1, <2>2
  <2>. QED BY <2>2, <2>3
<1>3. p \in Seq(K) /\ Len(p) = n /\ k \in K /\ o[1] = k /\ \A i \in 1 .. n : p[i] = o[i + 1]
  BY <1>1, <1>2, TailOf
<1> HIDE DEF p, k
<1>4. \A j : \A i \in 0 .. n : Count(o, i + 1, j) = Count(p, i, j) + (IF k = j THEN 1 ELSE 0)
  <2>1. ASSUME NEW i \in 0 .. n, NEW j
        PROVE  Count(o, i + 1, j) = Count(p, i, j) + (IF k = j THEN 1 ELSE 0)
    <3>1. i \in Nat /\ Follows(p, o, i)
      BY <1>3 DEF Follows
    <3>. QED BY <1>3, <3>1, CountShift
  <2>. QED BY <2>1
<1>5. \A j : \A i \in 0 .. n : Count(p, i, j) \in Nat
  BY CountType
<1>6. Len(Q[k]) = Count(p, n, k) + 1
  BY <1>1, <1>2, <1>3, <1>4
<1>7. PICK q \in Seq(T) : q = Q[k] /\ q # <<>>
  <2>1. Q[k] \in Seq(T) /\ Len(Q[k]) # 0
    BY <1>1, <1>3, <1>5, <1>6
  <2>. QED BY <2>1
<1>8. /\ R[k] = Tail(q) /\ Len(R[k]) = Len(q) - 1 /\ Len(q) > 0
      /\ Head(q) = q[1] /\ \A i \in 1 .. Len(q) - 1 : R[k][i] = q[i + 1]
  BY <1>7, TailOf DEF k
<1>9. \A j \in K : j # k => R[j] = Q[j]
  BY DEF k
<1>10. Matched(p, R, K, T)
  <2>1. ASSUME NEW j \in K PROVE Count(p, Len(p), j) = Len(R[j])
    <3>1. CASE j = k
      BY <1>3, <1>5, <1>6, <1>7, <1>8, <3>1
    <3>2. CASE j # k
      <4>1. Count(o, n + 1, j) = Count(p, n, j) + 0 /\ Count(p, n, j) \in Nat
        BY <1>4, <1>5, <3>2
      <4>. QED BY <1>1, <1>2, <1>3, <1>9, <3>2, <4>1
    <3>. QED BY <3>1, <3>2
  <2>. QED BY <1>3, <2>1 DEF Matched
<1>11. PICK s \in Seq(T) : s = Merge(o, Q) /\ Len(s) = n + 1
  BY <1>2, MergeType
<1>12. PICK r \in Seq(T) : r = Merge(p, R) /\ Len(r) = n
  BY <1>3, <1>10, MergeType
<1>13. s[1] = Head(q)
  <2>1. Count(p, 0, k) = 0
    BY CountZero
  <2>2. Count(o, 0 + 1, k) = 0 + 1
    BY <1>4, <2>1
  <2>3. 0 + 1 = 1 /\ 1 \in 1 .. Len(o)
    BY <1>2
  <2>4. s[1] = Q[k][1]
    BY <1>3, <1>11, <2>2, <2>3 DEF Merge
  <2>. QED BY <1>7, <1>8, <2>4
<1>14. ASSUME NEW i \in 1 .. n PROVE r[i] = s[i + 1]
  <2>1. p[i] \in K /\ p[i] = o[i + 1]
    BY <1>3
  <2>2. i \in 1 .. Len(p) /\ i + 1 \in 1 .. Len(o) /\ i \in 0 .. n
    BY <1>2, <1>3
  <2>3. r[i] = R[p[i]][Count(p, i, p[i])] /\ s[i + 1] = Q[p[i]][Count(o, i + 1, p[i])]
    BY <1>11, <1>12, <2>1, <2>2 DEF Merge
  <2>4. Count(p, i, p[i]) \in 1 .. Len(R[p[i]])
    BY <1>3, <1>10, <2>1, RankBounds DEF Matched
  <2>5. CASE p[i] = k
    <3>1. Count(o, i + 1, k) = Count(p, i, k) + 1
      BY <1>4, <2>2
    <3>. QED BY <1>7, <1>8, <2>3, <2>4, <2>5, <3>1
  <2>6. CASE p[i] # k
    <3>1. Count(o, i + 1, p[i]) = Count(p, i, p[i])
      BY <1>4, <1>5, <2>2, <2>6
    <3>. QED BY <1>9, <2>1, <2>3, <2>6, <3>1
  <2>. QED BY <2>5, <2>6
<1>15. s # <<>> /\ Head(s) = Head(q) /\ r = Tail(s)
  <2>1. s # <<>>
    BY <1>11
  <2>2. Len(Tail(s)) = n /\ Tail(s) \in Seq(T) /\ Head(s) = s[1] /\ \A i \in 1 .. n : Tail(s)[i] = s[i + 1]
    BY <1>11, <2>1, TailOf
  <2>3. r = Tail(s)
    BY <1>12, <1>14, <2>2, SeqEqual
  <2>. QED BY <1>13, <2>1, <2>2, <2>3
<1>. QED BY <1>3, <1>7, <1>10, <1>11, <1>12, <1>15 DEF p, k

-----------------------------------------------------------------------------
(* Sequences end to end *)

\* A sequence with something behind it keeps its head.
LEMMA BehindHead ==
  ASSUME NEW T, NEW s \in Seq(T), NEW t \in Seq(T), s # <<>>
  PROVE  /\ s \o t \in Seq(T) /\ s \o t # <<>>
         /\ Head(s \o t) = Head(s) /\ Tail(s \o t) = Tail(s) \o t
<1>1. s \o t \in Seq(T) /\ Len(s \o t) = Len(s) + Len(t) /\ Len(s) > 0
      /\ (s \o t)[1] = s[1]
  OBVIOUS
<1>2. s \o t # <<>> /\ Head(s \o t) = Head(s)
  BY <1>1
<1>3. Tail(s \o t) = Tail(s) \o t
  <2> DEFINE l == Tail(s \o t)
             r == Tail(s) \o t
  <2>1. l \in Seq(T) /\ Len(l) = Len(s) + Len(t) - 1
    BY <1>1, <1>2
  <2>2. r \in Seq(T) /\ Len(r) = Len(s) - 1 + Len(t)
    BY <1>1
  <2>3. \A i \in 1 .. Len(l) : l[i] = (s \o t)[i + 1]
    BY <1>1, <1>2
  <2>4. \A i \in 1 .. Len(r) : r[i] = IF i <= Len(s) - 1 THEN s[i + 1] ELSE t[i - (Len(s) - 1)]
    BY <1>1
  <2>5. \A i \in 1 .. Len(s) + Len(t) : (s \o t)[i] = IF i <= Len(s) THEN s[i] ELSE t[i - Len(s)]
    OBVIOUS
  <2> HIDE DEF l, r
  <2>6. \A i \in 1 .. Len(l) : l[i] = r[i]
    BY <2>1, <2>2, <2>3, <2>4, <2>5
  <2>7. l = r
    BY <2>1, <2>2, <2>6, SeqEqual
  <2>. QED BY <2>7 DEF l, r
<1>. QED BY <1>1, <1>2, <1>3

\* Appending at the end of the second is appending at the end.
LEMMA BehindAppend ==
  ASSUME NEW T, NEW s \in Seq(T), NEW t \in Seq(T), NEW x \in T
  PROVE  s \o Append(t, x) = Append(s \o t, x) /\ s \o <<x>> = Append(s, x)
  OBVIOUS

\* An element appended to a sequence that has a head leaves the head.
LEMMA AppendHead ==
  ASSUME NEW T, NEW s \in Seq(T), NEW x \in T
  PROVE  Head(Append(s, x)) = IF s = <<>> THEN x ELSE Head(s)
  OBVIOUS

-----------------------------------------------------------------------------
(* The inductive invariant *)

Answered == Values \union {Ack}
Queues == [k \in BOOLEAN |-> IF k THEN OfScratch ELSE OfExt]

ForkInv ==
  /\ TypeOK
  /\ sc_done => sc_q \in Answered
  /\ eowed \in Seq(Answered)
  /\ eanswer \in Answered \union {NoAnswer}
  /\ Matched(ord_q, Queues, BOOLEAN, Answered)
  /\ Len(ord_q) <= CRED

\* The order FIFO and the two slaves' responses match.
LEMMA QueuesType ==
  ASSUME ForkInv
  PROVE  /\ OfScratch \in Seq(Answered) /\ OfExt \in Seq(Answered)
         /\ Queues \in [BOOLEAN -> Seq(Answered)]
         /\ Queues[TRUE] = OfScratch /\ Queues[FALSE] = OfExt
         /\ ord_q \in Seq(BOOLEAN)
<1>1. Queues \in [BOOLEAN -> Seq(Answered)] /\ ord_q \in Seq(BOOLEAN)
  BY DEF ForkInv, Matched
<1>2. Queues[TRUE] = OfScratch /\ Queues[FALSE] = OfExt
  BY DEF Queues
<1>3. TRUE \in BOOLEAN /\ FALSE \in BOOLEAN
  OBVIOUS
<1>. QED BY <1>1, <1>2, <1>3

\* The invariant implies what the run checks.
LEMMA ForkImplies == ForkInv => OneResponsePerBeat
<1> SUFFICES ASSUME ForkInv PROVE OneResponsePerBeat
  OBVIOUS
<1>1. /\ CountOf(TRUE) = Len(OfScratch) /\ CountOf(FALSE) = Len(OfExt)
      /\ TypeOK /\ Len(ord_q) <= CRED
  BY QueuesType DEF ForkInv, Matched, Count, Places, CountOf
<1>2. PICK o \in Nat, s \in Nat, e \in Nat :
        o = Len(ord_q) /\ s = Len(OfScratch) /\ e = Len(OfExt)
  BY QueuesType
<1>3. s <= o /\ e <= o
  <2>1. 1 \in Int /\ o \in Int /\ IsFiniteSet(1 .. o) /\ Cardinality(1 .. o) = o
    <3>1. 1 \in Int /\ o \in Int /\ o >= 0
      OBVIOUS
    <3>2. IsFiniteSet(1 .. o) /\ Cardinality(1 .. o) = IF 1 > o THEN 0 ELSE o - 1 + 1
      BY <3>1, FS_Interval
    <3>. QED BY <3>1, <3>2
  <2>2. Places(ord_q, o, TRUE) \in SUBSET (1 .. o) /\ Places(ord_q, o, FALSE) \in SUBSET (1 .. o)
    BY DEF Places
  <2>3. Cardinality(Places(ord_q, o, TRUE)) = s /\ Cardinality(Places(ord_q, o, FALSE)) = e
    BY <1>1, <1>2 DEF CountOf, Places
  <2>4. /\ Cardinality(Places(ord_q, o, TRUE)) <= Cardinality(1 .. o)
        /\ Cardinality(Places(ord_q, o, FALSE)) <= Cardinality(1 .. o)
    BY <2>1, <2>2, FS_Subset
  <2>. QED BY <2>1, <2>3, <2>4
<1>4. o <= CRED /\ CRED <= FifoDepth /\ CRED \in Nat /\ FifoDepth \in Nat
  BY <1>1, <1>2, DepthAssumption DEF FifoDepth
<1>5. Len(scf_q) <= s
  BY <1>2 DEF OfScratch, ForkInv, TypeOK, Answered
<1>6. Len(exf_q) <= e
  <2>1. exf_q \in Seq(Answered) /\ eowed \in Seq(Answered)
        /\ (dmem_ack => eanswer \in Answered)
    BY DEF ForkInv, TypeOK, Answered, dmem_ack
  <2>. QED BY <1>2, <2>1 DEF OfExt
<1>7. Len(scf_q) \in Nat /\ Len(exf_q) \in Nat
  BY DEF ForkInv, TypeOK
<1>8. Len(ord_q) <= FifoDepth /\ Len(scf_q) <= FifoDepth /\ Len(exf_q) <= FifoDepth
  BY <1>2, <1>3, <1>4, <1>5, <1>6, <1>7
<1>. QED BY <1>1, <1>8 DEF OneResponsePerBeat

\* At reset nothing is outstanding.
LEMMA ForkInit == Init => ForkInv
<1> SUFFICES ASSUME Init PROVE ForkInv
  OBVIOUS
<1>1. ord_q = <<>> /\ OfScratch = <<>> /\ OfExt = <<>>
  BY DEF Init, OfScratch, OfExt, dmem_ack, Ext!Init
<1>2. \A k \in BOOLEAN : Count(ord_q, 0, k) = 0
  BY CountZero
<1>3. Queues \in [BOOLEAN -> Seq(Answered)] /\ \A k \in BOOLEAN : Len(Queues[k]) = 0
  BY <1>1 DEF Queues
<1>4. Matched(ord_q, Queues, BOOLEAN, Answered)
  BY <1>1, <1>2, <1>3 DEF Matched
<1>5. TypeOK
  <2>1. sc_done \in BOOLEAN
    BY DEF Init
  <2>2. /\ scratch \in [ScratchAddrs -> Values] /\ emem \in [ExtAddrs -> Values]
        /\ sc_q \in Values \union {Ack, Junk}
    BY ValueAssumption DEF Init, Ext!Init
  <2>3. /\ ord_q \in Seq(BOOLEAN) /\ scf_q \in Seq(Values \union {Ack})
        /\ exf_q \in Seq(Values \union {Ack})
    BY DEF Init
  <2>. QED BY <2>1, <2>2, <2>3 DEF TypeOK
<1>. QED BY <1>1, <1>4, <1>5, DepthAssumption DEF Init, Ext!Init, ForkInv

-----------------------------------------------------------------------------
(* One clock edge *)

\* A beat on the wires
Asks(b) == b \in Beats \union {NoBeat}
Wanted(b) == IF ScHit(b) THEN Ext!Result(scratch, b) ELSE Ext!Result(emem, b)

\* A beat reads or writes the memory of its window.
LEMMA BeatEffect ==
  ASSUME ForkInv, NEW b, Asks(b), b # NoBeat
  PROVE  /\ Wanted(b) \in Answered
         /\ ScHit(b) <=> b.addr \in ScratchAddrs
         /\ ~ScHit(b) => b.addr \in ExtAddrs
         /\ ScHit(b) => Ext!Apply(scratch, b) \in [ScratchAddrs -> Values]
         /\ ~ScHit(b) => Ext!Apply(emem, b) \in [ExtAddrs -> Values]
<1>1. b.addr \in Addrs /\ (b.we => b.data \in Values)
  <2>1. CASE b \in {Ext!Read(a) : a \in Addrs}
    <3>1. PICK a \in Addrs : b = [we |-> FALSE, addr |-> a]
      BY <2>1 DEF Ext!Read
    <3>2. b.addr = a /\ ~b.we
      BY <3>1
    <3>. QED BY <3>2
  <2>2. CASE b \in {Ext!Write(a, d) : a \in Addrs, d \in Values}
    <3>1. PICK a \in Addrs, d \in Values : b = [we |-> TRUE, addr |-> a, data |-> d]
      BY <2>2 DEF Ext!Write
    <3>. QED BY <3>1
  <2>. QED BY <2>1, <2>2 DEF Asks, Beats
<1>2. scratch \in [ScratchAddrs -> Values] /\ emem \in [ExtAddrs -> Values]
  BY DEF ForkInv, TypeOK
<1>3. (ScHit(b) <=> b.addr \in ScratchAddrs) /\ (~ScHit(b) => b.addr \in ExtAddrs)
  BY <1>1 DEF ScHit, Addrs
<1>4. Wanted(b) \in Answered
  <2>1. CASE b.we
    BY <2>1 DEF Wanted, Ext!Result, Answered
  <2>2. CASE ~b.we
    BY <1>2, <1>3, <2>2 DEF Wanted, Ext!Result, Answered
  <2>. QED BY <2>1, <2>2
<1>5. /\ ScHit(b) => Ext!Apply(scratch, b) \in [ScratchAddrs -> Values]
      /\ ~ScHit(b) => Ext!Apply(emem, b) \in [ExtAddrs -> Values]
  BY <1>1, <1>2, <1>3 DEF Ext!Apply
<1>. QED BY <1>3, <1>4, <1>5

\* What a cycle's fire leaves
KeptScratch == IF sc_fire THEN Tail(OfScratch) ELSE OfScratch
KeptExt == IF ext_fire THEN Tail(OfExt) ELSE OfExt
KeptOrder == IF x_rsp_valid THEN Tail(ord_q) ELSE ord_q
Kept == [k \in BOOLEAN |-> IF k THEN KeptScratch ELSE KeptExt]

\* The fire takes the head of the order FIFO and of its kind's responses, and
\* that response is what is on the wires.
LEMMA Fires ==
  ASSUME ForkInv
  PROVE  /\ Matched(KeptOrder, Kept, BOOLEAN, Answered)
         /\ Merge(KeptOrder, Kept) = IF x_rsp_valid THEN Tail(Merge(ord_q, Queues)) ELSE Merge(ord_q, Queues)
         /\ x_rsp_valid => /\ Merge(ord_q, Queues) # <<>> /\ ord_q # <<>>
                           /\ x_rsp_rdata = Head(Merge(ord_q, Queues))
         /\ sc_fire => OfScratch # <<>> /\ ~ext_fire
         /\ ext_fire => OfExt # <<>> /\ ~sc_fire
<1>1. /\ OfScratch \in Seq(Answered) /\ OfExt \in Seq(Answered)
      /\ Queues \in [BOOLEAN -> Seq(Answered)]
      /\ Queues[TRUE] = OfScratch /\ Queues[FALSE] = OfExt /\ ord_q \in Seq(BOOLEAN)
  BY QueuesType
<1>2. Matched(ord_q, Queues, BOOLEAN, Answered)
  BY DEF ForkInv
<1>3. Kept[TRUE] = KeptScratch /\ Kept[FALSE] = KeptExt
  BY DEF Kept
<1>4. /\ scf_q \in Seq(Answered) /\ exf_q \in Seq(Answered) /\ eowed \in Seq(Answered)
      /\ sc_done => sc_q \in Answered
      /\ dmem_ack => eanswer \in Answered
  BY DEF ForkInv, TypeOK, Answered, dmem_ack
<1>5. /\ x_rsp_valid => ord_q # <<>>
      /\ sc_fire <=> x_rsp_valid /\ Head(ord_q) = TRUE
      /\ ext_fire <=> x_rsp_valid /\ Head(ord_q) = FALSE
  <2>1. ord_q # <<>> => Head(ord_q) \in BOOLEAN
    BY <1>1, TailOf
  <2>. QED BY <2>1 DEF sc_fire, ext_fire, head_is_sc, head_is_ext, x_rsp_valid
<1>6. sc_fire => OfScratch # <<>> /\ ~ext_fire
  BY <1>1, <1>2, <1>5, MergeHead
<1>7. ext_fire => OfExt # <<>> /\ ~sc_fire
  BY <1>1, <1>2, <1>5, MergeHead
<1>8. KeptScratch \in Seq(Answered) /\ KeptExt \in Seq(Answered)
  BY <1>1, <1>6, <1>7, TailOf DEF KeptScratch, KeptExt
<1>9. Kept \in [BOOLEAN -> Seq(Answered)]
  BY <1>8 DEF Kept
<1>10. sc_fire => x_rsp_rdata = Head(OfScratch)
  <2>1. ASSUME sc_fire PROVE x_rsp_rdata = Head(OfScratch)
    <3>1. x_rsp_rdata = IF scf_q = <<>> THEN sc_q ELSE Head(scf_q)
      BY <2>1 DEF x_rsp_rdata
    <3>2. CASE sc_done
      <4>1. OfScratch = Append(scf_q, sc_q)
        BY <3>2 DEF OfScratch
      <4>. QED BY <1>4, <3>1, <3>2, <4>1, AppendHead
    <3>3. CASE ~sc_done
      <4>1. OfScratch = scf_q /\ scf_q # <<>>
        BY <2>1, <3>3 DEF OfScratch, sc_fire
      <4>. QED BY <3>1, <4>1
    <3>. QED BY <3>2, <3>3
  <2>. QED BY <2>1
<1>11. ext_fire => x_rsp_rdata = Head(OfExt)
  <2>1. ASSUME ext_fire PROVE x_rsp_rdata = Head(OfExt)
    <3>1. x_rsp_rdata = IF exf_q = <<>> THEN eanswer ELSE Head(exf_q)
      BY <1>7, <2>1 DEF x_rsp_rdata
    <3>2. CASE dmem_ack
      <4>1. OfExt = (exf_q \o <<eanswer>>) \o eowed
        BY <3>2 DEF OfExt
      <4>2. PICK a : a = Append(exf_q, eanswer)
        OBVIOUS
      <4>3. a \in Seq(Answered) /\ a # <<>>
        BY <1>4, <3>2, <4>2
      <4>4. OfExt = a \o eowed
        BY <1>4, <3>2, <4>1, <4>2, BehindAppend
      <4>5. Head(OfExt) = Head(a)
        BY <1>4, <4>4, <4>3, BehindHead
      <4>. QED BY <1>4, <3>1, <3>2, <4>2, <4>5, AppendHead
    <3>3. CASE ~dmem_ack
      <4>1. exf_q # <<>> /\ OfExt = (exf_q \o <<>>) \o eowed
        BY <2>1, <3>3 DEF OfExt, ext_fire
      <4>2. exf_q \o <<>> = exf_q
        BY <1>4
      <4>3. Head(OfExt) = Head(exf_q)
        BY <1>4, <4>1, <4>2, BehindHead
      <4>. QED BY <3>1, <4>1, <4>3
    <3>. QED BY <3>2, <3>3
  <2>. QED BY <2>1
<1>12. CASE x_rsp_valid
  <2>1. ord_q # <<>> /\ Head(ord_q) \in BOOLEAN /\ KeptOrder = Tail(ord_q)
    BY <1>1, <1>5, <1>12, TailOf DEF KeptOrder
  <2>2. Kept[Head(ord_q)] = Tail(Queues[Head(ord_q)])
    <3>1. CASE Head(ord_q) = TRUE
      BY <1>1, <1>3, <1>5, <1>12, <3>1 DEF KeptScratch
    <3>2. CASE Head(ord_q) = FALSE
      BY <1>1, <1>3, <1>5, <1>12, <3>2 DEF KeptExt
    <3>. QED BY <2>1, <3>1, <3>2
  <2>3. \A j \in BOOLEAN \ {Head(ord_q)} : Kept[j] = Queues[j]
    <3>1. CASE Head(ord_q) = TRUE
      BY <1>1, <1>3, <1>5, <1>12, <3>1 DEF KeptExt
    <3>2. CASE Head(ord_q) = FALSE
      BY <1>1, <1>3, <1>5, <1>12, <3>2 DEF KeptScratch
    <3>. QED BY <2>1, <3>1, <3>2
  <2>4. /\ Merge(ord_q, Queues) # <<>>
        /\ Head(Merge(ord_q, Queues)) = Head(Queues[Head(ord_q)])
        /\ Matched(KeptOrder, Kept, BOOLEAN, Answered)
        /\ Merge(KeptOrder, Kept) = Tail(Merge(ord_q, Queues))
    BY <1>2, <1>9, <2>1, <2>2, <2>3, MergePop
  <2>5. x_rsp_rdata = Head(Merge(ord_q, Queues))
    <3>1. CASE Head(ord_q) = TRUE
      BY <1>1, <1>5, <1>10, <1>12, <2>4, <3>1
    <3>2. CASE Head(ord_q) = FALSE
      BY <1>1, <1>5, <1>11, <1>12, <2>4, <3>2
    <3>. QED BY <2>1, <3>1, <3>2
  <2>. QED BY <1>6, <1>7, <1>12, <2>1, <2>4, <2>5
<1>13. CASE ~x_rsp_valid
  <2>1. KeptOrder = ord_q /\ KeptScratch = OfScratch /\ KeptExt = OfExt
    BY <1>5, <1>13 DEF KeptOrder, KeptScratch, KeptExt
  <2>2. Kept = Queues
    BY <2>1 DEF Kept, Queues
  <2>. QED BY <1>2, <1>5, <1>13, <2>1, <2>2
<1>. QED BY <1>12, <1>13

\* What the external slave owes, or has buffered, is one sequence: its answer
\* register moves the boundary between the two only.
LEMMA ExtStream ==
  ASSUME ForkInv, NEW b, Asks(b), NEW respond \in BOOLEAN, Edge(b, respond)
  PROVE  /\ OfExt' = IF b # NoBeat /\ ~ScHit(b) THEN Append(KeptExt, Wanted(b)) ELSE KeptExt
         /\ eowed' \in Seq(Answered) /\ exf_q' \in Seq(Answered)
         /\ eanswer' \in Answered \union {NoAnswer}
<1>1. /\ exf_q \in Seq(Answered) /\ eowed \in Seq(Answered)
      /\ dmem_ack => eanswer \in Answered
  BY DEF ForkInv, TypeOK, Answered, dmem_ack
<1>2. PICK x : x = IF dmem_ack THEN Append(exf_q, eanswer) ELSE exf_q
  OBVIOUS
<1>3. x \in Seq(Answered)
  BY <1>1, <1>2
<1>4. OfExt = x \o eowed
  <2>1. CASE dmem_ack
    BY <1>1, <1>2, <2>1, BehindAppend DEF OfExt
  <2>2. CASE ~dmem_ack
    <3>1. exf_q \o <<>> = exf_q
      BY <1>1
    <3>. QED BY <1>2, <2>2, <3>1 DEF OfExt
  <2>. QED BY <2>1, <2>2
<1>5. ext_fire => x # <<>>
  <2>1. CASE dmem_ack
    BY <1>1, <1>2, <2>1
  <2>2. CASE ~dmem_ack
    BY <1>2, <2>2 DEF ext_fire
  <2>. QED BY <2>1, <2>2
<1>6. exf_q' = IF ext_fire THEN Tail(x) ELSE x
  BY <1>2 DEF Edge, Buffers
<1>7. exf_q' \in Seq(Answered)
  BY <1>3, <1>5, <1>6, TailOf
<1>8. KeptExt = exf_q' \o eowed
  BY <1>1, <1>3, <1>4, <1>5, <1>6, BehindHead DEF KeptExt
<1>9. PICK due : due = IF b # NoBeat /\ ~ScHit(b) THEN Append(eowed, Wanted(b)) ELSE eowed
  OBVIOUS
<1>10. due \in Seq(Answered)
  BY <1>1, <1>9, BeatEffect
<1>11. exf_q' \o due = IF b # NoBeat /\ ~ScHit(b) THEN Append(KeptExt, Wanted(b)) ELSE KeptExt
  BY <1>1, <1>7, <1>8, <1>9, BeatEffect, BehindAppend
<1>12. /\ respond => due # <<>>
       /\ eanswer' = IF respond THEN Head(due) ELSE NoAnswer
       /\ eowed' = IF respond THEN Tail(due) ELSE due
  <2>1. CASE b # NoBeat /\ ~ScHit(b)
    BY <1>9, <2>1 DEF Edge, Ext!Edge, Wanted
  <2>2. CASE ~(b # NoBeat /\ ~ScHit(b))
    BY <1>9, <2>2 DEF Edge, Ext!Edge, ScHit
  <2>. QED BY <2>1, <2>2
<1>13. PICK y \in Seq(Answered) : y = exf_q'
  BY <1>7
<1>14. OfExt' = y \o due /\ eowed' \in Seq(Answered) /\ eanswer' \in Answered \union {NoAnswer}
  <2>1. OfExt' = (y \o (IF eanswer' # NoAnswer THEN <<eanswer'>> ELSE <<>>)) \o eowed'
    BY <1>13 DEF OfExt, dmem_ack
  <2>2. CASE respond
    <3>1. PICK h \in Answered, t \in Seq(Answered) : h = Head(due) /\ t = Tail(due) /\ due = <<h>> \o t
      BY <1>10, <1>12, <2>2, SplitHead
    <3>2. eanswer' = h /\ eowed' = t /\ h # NoAnswer
      BY <1>12, <2>2, <3>1, ValueAssumption DEF Answered
    <3>3. OfExt' = (y \o <<h>>) \o t
      BY <2>1, <3>2
    <3>4. <<h>> \in Seq(Answered)
      OBVIOUS
    <3>5. (y \o <<h>>) \o t = y \o (<<h>> \o t)
      BY <3>4, ConcatAssociative
    <3>. QED BY <3>1, <3>2, <3>3, <3>5
  <2>3. CASE ~respond
    <3>1. eanswer' = NoAnswer /\ eowed' = due
      BY <1>12, <2>3
    <3>2. y \o <<>> = y
      OBVIOUS
    <3>. QED BY <1>10, <2>1, <3>1, <3>2
  <2>. QED BY <2>2, <2>3
<1>. QED BY <1>7, <1>11, <1>13, <1>14

\* The scratchpad's responses: its register and the buffer behind it
LEMMA ScratchStream ==
  ASSUME ForkInv, NEW b, Asks(b), NEW respond \in BOOLEAN, Edge(b, respond)
  PROVE  /\ OfScratch' = IF ScHit(b) THEN Append(KeptScratch, Wanted(b)) ELSE KeptScratch
         /\ scf_q' \in Seq(Answered) /\ (sc_done' => sc_q' \in Answered)
<1>1. KeptScratch \in Seq(Answered)
  BY Fires, QueuesType, TailOf DEF KeptScratch
<1>2. scf_q' = KeptScratch
  BY DEF Edge, Buffers, KeptScratch, OfScratch
<1>3. sc_done' = ScHit(b) /\ sc_q' = IF ScHit(b) THEN Wanted(b) ELSE Junk
  BY DEF Edge, Scratch, Wanted
<1>4. OfScratch' = IF sc_done' THEN Append(scf_q', sc_q') ELSE scf_q'
  BY DEF OfScratch
<1>5. ScHit(b) => Wanted(b) \in Answered
  BY BeatEffect DEF ScHit
<1>6. CASE ScHit(b)
  BY <1>1, <1>2, <1>3, <1>4, <1>5, <1>6
<1>7. CASE ~ScHit(b)
  BY <1>1, <1>2, <1>3, <1>4, <1>7
<1>. QED BY <1>6, <1>7

\* An edge appends what the beat will be answered to the merge, after the fire.
LEMMA Streams ==
  ASSUME ForkInv, NEW b, Asks(b), NEW respond \in BOOLEAN, Edge(b, respond)
  PROVE  /\ Matched(ord_q', Queues', BOOLEAN, Answered)
         /\ Merge(ord_q', Queues') =
              IF b = NoBeat THEN Merge(KeptOrder, Kept)
              ELSE Append(Merge(KeptOrder, Kept), Wanted(b))
<1>1. /\ Matched(KeptOrder, Kept, BOOLEAN, Answered)
  BY Fires
<1>2. Kept \in [BOOLEAN -> Seq(Answered)] /\ Kept[TRUE] = KeptScratch /\ Kept[FALSE] = KeptExt
  BY <1>1 DEF Matched, Kept
<1>3. ord_q' = IF b = NoBeat THEN KeptOrder ELSE Append(KeptOrder, ScHit(b))
  BY DEF Edge, Order, KeptOrder
<1>4. PICK s, e : s = OfScratch' /\ e = OfExt'
  OBVIOUS
<1>5. PICK R : R = [k \in BOOLEAN |-> IF k THEN s ELSE e]
  OBVIOUS
<1>6. Queues' = R
  BY <1>4, <1>5 DEF Queues
<1>7. s = IF ScHit(b) THEN Append(KeptScratch, Wanted(b)) ELSE KeptScratch
  BY <1>4, ScratchStream
<1>8. e = IF b # NoBeat /\ ~ScHit(b) THEN Append(KeptExt, Wanted(b)) ELSE KeptExt
  BY <1>4, ExtStream
<1>9. b # NoBeat => Wanted(b) \in Answered
  BY BeatEffect
<1>10. KeptScratch \in Seq(Answered) /\ KeptExt \in Seq(Answered)
  <2>1. TRUE \in BOOLEAN /\ FALSE \in BOOLEAN
    OBVIOUS
  <2>. QED BY <1>2, <2>1
<1>11. s \in Seq(Answered) /\ e \in Seq(Answered)
  <2>1. ScHit(b) => b # NoBeat
    BY DEF ScHit
  <2>. QED BY <1>7, <1>8, <1>9, <1>10, <2>1
<1>12. R \in [BOOLEAN -> Seq(Answered)] /\ R[TRUE] = s /\ R[FALSE] = e
  BY <1>5, <1>11
<1>13. CASE b = NoBeat
  <2>1. s = KeptScratch /\ e = KeptExt
    BY <1>7, <1>8, <1>13 DEF ScHit
  <2>2. R = Kept
    BY <1>5, <2>1 DEF Kept
  <2>. QED BY <1>1, <1>3, <1>6, <1>13, <2>2
<1>14. CASE b # NoBeat
  <2>1. PICK k \in BOOLEAN : k <=> ScHit(b)
    OBVIOUS
  <2>2. R[k] = Append(Kept[k], Wanted(b)) /\ \A j \in BOOLEAN \ {k} : R[j] = Kept[j]
    <3>1. CASE k
      BY <1>2, <1>7, <1>8, <1>12, <2>1, <3>1
    <3>2. CASE ~k
      BY <1>2, <1>7, <1>8, <1>12, <1>14, <2>1, <3>2
    <3>. QED BY <3>1, <3>2
  <2>3. /\ Matched(Append(KeptOrder, k), R, BOOLEAN, Answered)
        /\ Merge(Append(KeptOrder, k), R) = Append(Merge(KeptOrder, Kept), Wanted(b))
    BY <1>1, <1>9, <1>12, <1>14, <2>2, MergePush
  <2>4. ord_q' = Append(KeptOrder, k)
    <3>1. k = ScHit(b)
      BY <2>1 DEF ScHit
    <3>. QED BY <1>3, <1>14, <3>1
  <2>. QED BY <1>6, <1>14, <2>3, <2>4
<1>. QED BY <1>13, <1>14

\* Every edge preserves the invariant.
LEMMA ForkNext == ForkInv /\ [Next]_vars => ForkInv'
<1> SUFFICES ASSUME ForkInv, [Next]_vars PROVE ForkInv'
  OBVIOUS
<1>1. CASE Next
  <2>1. PICK b \in Beats \union {NoBeat}, respond \in BOOLEAN : Edge(b, respond)
    BY <1>1 DEF Next
  <2>2. Asks(b) /\ Edge(b, respond)
    BY <2>1 DEF Asks
  <2>3. Matched(ord_q', Queues', BOOLEAN, Answered)
    BY <2>2, Streams
  <2>4. /\ eowed' \in Seq(Answered) /\ exf_q' \in Seq(Answered)
        /\ eanswer' \in Answered \union {NoAnswer}
    BY <2>2, ExtStream
  <2>5. scf_q' \in Seq(Answered) /\ (sc_done' => sc_q' \in Answered)
    BY <2>2, ScratchStream
  <2>6. scratch' \in [ScratchAddrs -> Values] /\ emem' \in [ExtAddrs -> Values]
    <3>1. scratch \in [ScratchAddrs -> Values] /\ emem \in [ExtAddrs -> Values]
      BY DEF ForkInv, TypeOK
    <3>2. CASE ScHit(b)
      BY <2>2, <3>1, <3>2, BeatEffect DEF Edge, Scratch, Ext!Edge, ScHit
    <3>3. CASE ~ScHit(b)
      BY <2>2, <3>1, <3>3, BeatEffect DEF Edge, Scratch, Ext!Edge
    <3>. QED BY <3>2, <3>3
  <2>7. sc_done' \in BOOLEAN
    BY <2>2 DEF Edge, Scratch, ScHit
  <2>8. sc_q' \in Values \union {Ack, Junk}
    <3>1. sc_q' = IF ScHit(b) THEN Wanted(b) ELSE Junk
      BY <2>2 DEF Edge, Scratch, Wanted
    <3>2. ScHit(b) => Wanted(b) \in Answered
      BY <2>2, BeatEffect DEF ScHit
    <3>. QED BY <3>1, <3>2 DEF Answered
  <2>9. ord_q' \in Seq(BOOLEAN)
    BY <2>3 DEF Matched
  <2>10. Len(ord_q') <= CRED
    <3>1. ord_q \in Seq(BOOLEAN) /\ Len(ord_q) <= CRED /\ (x_rsp_valid => ord_q # <<>>)
      BY Fires DEF ForkInv, TypeOK
    <3>2. KeptOrder \in Seq(BOOLEAN) /\ Len(KeptOrder) <= Len(ord_q) /\ Len(ord_q) \in Nat
      <4>1. x_rsp_valid => Tail(ord_q) \in Seq(BOOLEAN) /\ Len(Tail(ord_q)) = Len(ord_q) - 1
        BY <3>1, TailOf
      <4>2. Len(ord_q) \in Nat
        BY <3>1
      <4>3. CASE x_rsp_valid
        BY <4>1, <4>2, <4>3 DEF KeptOrder
      <4>4. CASE ~x_rsp_valid
        BY <3>1, <4>2, <4>4 DEF KeptOrder
      <4>. QED BY <4>3, <4>4
    <3>3. CASE b = NoBeat
      BY <2>2, <3>1, <3>2, <3>3, DepthAssumption DEF Edge, Order, KeptOrder
    <3>4. CASE b # NoBeat
      <4>1. Len(ord_q) < CRED /\ ord_q' = Append(KeptOrder, ScHit(b))
        BY <2>2, <3>4 DEF Edge, Order, KeptOrder, MayRequest
      <4>2. ScHit(b) \in BOOLEAN
        BY DEF ScHit
      <4>3. Len(ord_q') = Len(KeptOrder) + 1 /\ Len(KeptOrder) \in Nat
        BY <3>2, <4>1, <4>2
      <4>. QED BY <3>2, <4>1, <4>3, DepthAssumption
    <3>. QED BY <3>3, <3>4
  <2>11. TypeOK'
    BY <2>4, <2>5, <2>6, <2>7, <2>8, <2>9 DEF TypeOK, Answered
  <2>. QED BY <2>3, <2>4, <2>5, <2>10, <2>11 DEF ForkInv
<1>2. CASE UNCHANGED vars
  <2>1. OfScratch' = OfScratch /\ OfExt' = OfExt
    BY <1>2 DEF vars, OfScratch, OfExt, dmem_ack
  <2>2. Queues' = Queues
    BY <2>1 DEF Queues
  <2>. QED BY <1>2, <2>2 DEF vars, ForkInv, TypeOK
<1>. QED BY <1>1, <1>2

\* For all windows, values and credits: every beat in the order FIFO has its
\* one response at its slave, and no FIFO of the fork overruns.
THEOREM OneResponse == Spec => []OneResponsePerBeat
<1>1. Spec => []ForkInv
  BY ForkInit, ForkNext, PTL DEF Spec
<1>. QED BY <1>1, ForkImplies, PTL

-----------------------------------------------------------------------------
(* The refinement of the flat memory *)

\* What the mapping reads off the fork
OnTheWires ==
  /\ Responses = Merge(ord_q, Queues)
  /\ Responses \in Seq(Answered) /\ Len(Responses) = Len(ord_q)
  /\ x_rsp_valid => Responses # <<>> /\ x_rsp_rdata = Head(Responses)

\* It is what the invariant says.
LEMMA ForkOnTheWires == ForkInv => OnTheWires
<1> SUFFICES ASSUME ForkInv PROVE OnTheWires
  OBVIOUS
<1>1. Responses = Merge(ord_q, Queues)
  <2>1. /\ ord_q \in Seq(BOOLEAN)
        /\ Queues[TRUE] = OfScratch /\ Queues[FALSE] = OfExt
    BY QueuesType
  <2>2. \A i \in 1 .. Len(ord_q) : Rank(i) = Count(ord_q, i, ord_q[i])
    BY DEF Rank, Count, Places
  <2>3. ASSUME NEW i \in 1 .. Len(ord_q)
        PROVE  (IF ord_q[i] THEN OfScratch[Rank(i)] ELSE OfExt[Rank(i)])
               = Queues[ord_q[i]][Count(ord_q, i, ord_q[i])]
    <3>1. ord_q[i] \in BOOLEAN
      BY <2>1
    <3>2. CASE ord_q[i] = TRUE
      BY <2>1, <2>2, <3>2
    <3>3. CASE ord_q[i] = FALSE
      BY <2>1, <2>2, <3>3
    <3>. QED BY <3>1, <3>2, <3>3
  <2>. QED BY <2>3 DEF Responses, Merge
<1>2. Responses \in Seq(Answered) /\ Len(Responses) = Len(ord_q)
  BY <1>1, MergeType DEF ForkInv
<1>. QED BY <1>1, <1>2, Fires DEF OnTheWires

\* Both are empty at reset.
LEMMA FaceInit == Init /\ ForkInv => Face!Init
<1> SUFFICES ASSUME Init, ForkInv PROVE Face!Init
  OBVIOUS
<1>1. ord_q = <<>> /\ ~x_rsp_valid /\ OnTheWires
  BY ForkOnTheWires DEF Init, x_rsp_valid, sc_fire, ext_fire, head_is_sc, head_is_ext
<1>2. Responses = <<>>
  BY <1>1 DEF OnTheWires
<1>3. FlatMem = [a \in Addrs |-> Initial]
  BY DEF Init, Ext!Init, FlatMem, Addrs
<1>. QED BY <1>1, <1>2, <1>3 DEF Face!Init

\* The flat memory takes the beat that one of the windows takes.
LEMMA FlatEffect ==
  ASSUME ForkInv, NEW b, Asks(b), NEW respond \in BOOLEAN, Edge(b, respond)
  PROVE  /\ b = NoBeat => FlatMem' = FlatMem
         /\ b # NoBeat => FlatMem' = Face!Apply(FlatMem, b) /\ Wanted(b) = Face!Result(FlatMem, b)
<1>1. scratch \in [ScratchAddrs -> Values] /\ emem \in [ExtAddrs -> Values]
  BY DEF ForkInv, TypeOK
<1>2. /\ scratch' = IF ScHit(b) THEN Ext!Apply(scratch, b) ELSE scratch
      /\ emem' = IF ScHit(b) \/ b = NoBeat THEN emem ELSE Ext!Apply(emem, b)
  BY DEF Edge, Scratch, Ext!Edge
<1>3. CASE b = NoBeat
  BY <1>2, <1>3 DEF ScHit, FlatMem
<1>4. CASE b # NoBeat
  <2>1. (ScHit(b) <=> b.addr \in ScratchAddrs) /\ b.addr \in Addrs
        /\ (~ScHit(b) => b.addr \in ExtAddrs /\ b.addr \notin ScratchAddrs)
    BY <1>4, BeatEffect DEF Addrs
  <2>2. Wanted(b) = Face!Result(FlatMem, b)
    BY <2>1 DEF Wanted, Ext!Result, Face!Result, FlatMem
  <2>3. FlatMem' = Face!Apply(FlatMem, b)
    <3>1. PICK s, e : s = scratch' /\ e = emem'
      OBVIOUS
    <3>2. FlatMem' = [a \in Addrs |-> IF a \in ScratchAddrs THEN s[a] ELSE e[a]]
      BY <3>1 DEF FlatMem
    <3>3. CASE ~b.we
      <4>1. s = scratch /\ e = emem
        BY <1>2, <3>1, <3>3 DEF Ext!Apply
      <4>. QED BY <3>2, <3>3, <4>1 DEF Face!Apply, FlatMem
    <3>4. CASE b.we /\ ScHit(b)
      <4>1. s = [scratch EXCEPT ![b.addr] = b.data] /\ e = emem
        BY <1>2, <3>1, <3>4 DEF Ext!Apply
      <4>. QED BY <1>1, <2>1, <3>2, <3>4, <4>1 DEF Face!Apply, FlatMem
    <3>5. CASE b.we /\ ~ScHit(b)
      <4>1. s = scratch /\ e = [emem EXCEPT ![b.addr] = b.data]
        BY <1>2, <1>4, <3>1, <3>5 DEF Ext!Apply
      <4>. QED BY <1>1, <2>1, <3>2, <3>5, <4>1 DEF Face!Apply, FlatMem, Addrs
    <3>. QED BY <3>3, <3>4, <3>5
  <2>. QED BY <1>4, <2>2, <2>3
<1>. QED BY <1>3, <1>4

\* A clock edge of the fork is an edge of the flat memory with the same beat.
LEMMA FaceNext == ForkInv /\ ForkInv' /\ [Next]_vars => [Face!Next]_(Face!faceVars)
<1> SUFFICES ASSUME ForkInv, ForkInv', [Next]_vars PROVE [Face!Next]_(Face!faceVars)
  OBVIOUS
<1>1. OnTheWires /\ OnTheWires'
  BY ForkOnTheWires, PTL
<1>2. CASE Next
  <2>1. PICK b \in Beats \union {NoBeat}, respond \in BOOLEAN : Edge(b, respond)
    BY <1>2 DEF Next
  <2>2. Asks(b) /\ Edge(b, respond)
    BY <2>1 DEF Asks
  <2>3. PICK r \in Seq(Answered), s \in Seq(Answered) : r = Responses /\ s = Responses'
    BY <1>1 DEF OnTheWires
  <2> DEFINE owed == IF x_rsp_valid THEN Tail(r) ELSE r
             due == IF b = NoBeat THEN owed ELSE Append(owed, Face!Result(FlatMem, b))
  <2>4. s = due
    <3>1. Merge(KeptOrder, Kept) = owed
      BY <1>1, <2>3, Fires DEF OnTheWires
    <3>2. s = Merge(ord_q', Queues')
      BY <1>1, <2>3 DEF OnTheWires
    <3>. QED BY <2>2, <3>1, <3>2, Streams, FlatEffect
  <2>5. b # NoBeat => Face!MayRequest
    <3>1. ASSUME b # NoBeat PROVE Face!MayRequest
      <4>1. PICK l \in Nat : l = Len(r)
        OBVIOUS
      <4>2. l < CRED /\ CRED \in Nat
        BY <1>1, <2>2, <2>3, <3>1, <4>1, DepthAssumption DEF Edge, MayRequest, OnTheWires
      <4>3. CASE x_rsp_valid
        <5>1. Len(Tail(r)) = l - 1 /\ Head(r) \in Answered /\ x_rsp_rdata = Head(r)
          BY <1>1, <2>3, <4>1, <4>3, TailOf DEF OnTheWires
        <5>2. x_rsp_rdata # NoAnswer
          BY <5>1, ValueAssumption DEF Answered
        <5>. QED BY <2>3, <4>2, <4>3, <5>1, <5>2 DEF Face!MayRequest, Face!Outstanding
      <4>4. CASE ~x_rsp_valid
        BY <2>3, <4>1, <4>2, <4>4 DEF Face!MayRequest, Face!Outstanding
      <4>. QED BY <4>3, <4>4
    <3>. QED BY <3>1
  <2>6. PICK fires \in BOOLEAN : fires <=> x_rsp_valid'
    OBVIOUS
  <2>7. fires => s # <<>> /\ x_rsp_rdata' = Head(s)
    BY <1>1, <2>3, <2>6 DEF OnTheWires
  <2>8. FlatMem' = IF b = NoBeat THEN FlatMem ELSE Face!Apply(FlatMem, b)
    BY <2>2, FlatEffect
  <2>9. Face!Edge(b, fires)
    <3>1. (IF x_rsp_valid THEN x_rsp_rdata ELSE NoAnswer)' = IF fires THEN Head(s) ELSE NoAnswer
      BY <2>6, <2>7
    <3>2. (IF x_rsp_valid THEN Tail(Responses) ELSE Responses)' = IF fires THEN Tail(s) ELSE s
      BY <2>3, <2>6
    <3>3. s = IF b = NoBeat THEN (IF x_rsp_valid THEN Tail(Responses) ELSE Responses)
              ELSE Append(IF x_rsp_valid THEN Tail(Responses) ELSE Responses, Face!Result(FlatMem, b))
      BY <2>3, <2>4
    <3> HIDE DEF due, owed
    <3>. QED BY <2>5, <2>7, <2>8, <3>1, <3>2, <3>3 DEF Face!Edge
  <2>10. b \in Face!Beats \union {NoBeat}
    BY <2>2 DEF Asks, Beats, Face!Beats, Ext!Read, Ext!Write, Face!Read, Face!Write
  <2>. QED BY <2>9, <2>10 DEF Face!Next
<1>3. CASE UNCHANGED vars
  <2>1. OfScratch' = OfScratch /\ OfExt' = OfExt
    BY <1>3 DEF vars, OfScratch, OfExt, dmem_ack
  <2>2. Responses' = Responses /\ FlatMem' = FlatMem
    BY <1>3, <2>1 DEF vars, Responses, Rank, FlatMem
  <2>3. x_rsp_valid' = x_rsp_valid /\ x_rsp_rdata' = x_rsp_rdata
    BY <1>3 DEF vars, x_rsp_valid, x_rsp_rdata, sc_fire, ext_fire, head_is_sc, head_is_ext, dmem_ack
  <2>. QED BY <2>2, <2>3 DEF Face!faceVars
<1>. QED BY <1>2, <1>3

\* For all windows, values and credits the fork is one flat memory with
\* in-order responses: "only latency differs" (simt_soc.sv:156-157).
THEOREM ForkIsFlatMemory == Spec => FlatMemoryFace
<1>1. Spec => []ForkInv
  BY ForkInit, ForkNext, PTL DEF Spec
<1>2. ForkInv /\ ForkInv' /\ [Next]_vars => [Face!Next]_(Face!faceVars)
  BY FaceNext
<1>. QED BY <1>1, <1>2, FaceInit, PTL DEF Spec, FlatMemoryFace, Face!Spec

=============================================================================
