---------------------------- MODULE SimtCore_proofs ----------------------------
(***************************************************************************)
(* The SIMT core's control, for every number of warps from five on, every  *)
(* number of lanes, every stack depth and all programs: a warp is in one   *)
(* place at a time, the stacks are bounded and nested, and every warp goes *)
(* through the states that the golden model gives it.                      *)
(***************************************************************************)
EXTENDS SimtCore, RingTheorems, FiniteSetTheorems

-----------------------------------------------------------------------------
(* The rotation: a warp fetched k edges ago is k behind the phase. *)

Behind(w, k, p) == (w + k) % W = p

\* An edge puts it one further behind.
LEMMA BehindNext ==
  ASSUME NEW w \in Warps, NEW k \in 0 .. 4, NEW p \in Warps, Behind(w, k, p)
  PROVE  Behind(w, k + 1, (p + 1) % W) /\ (p + 1) % W \in Warps
<1>1. PICK n \in Nat \ {0}, x \in Int, y \in Int, one \in Int : n = W /\ x = w + k /\ one = 1 /\ y = w + (k + 1)
  BY RotationAssumption DEF Warps
<1>2. p = x % n
  BY <1>1 DEF Behind
<1>3. PICK q \in Int, r \in 0 .. n - 1 : q = x \div n /\ r = x % n
  BY Quotient
<1>4. x = n * q + r
  BY <1>3, Quotient
<1>5. PICK z \in Int : z = r + 1
  OBVIOUS
<1>6. y = z + n * q
  <2>1. y = x + 1
    BY <1>1 DEF Warps
  <2>. QED BY <1>4, <1>5, <2>1
<1>7. y % n = z % n
  BY <1>6, RemainderShift
<1>8. z % n \in 0 .. n - 1
  BY Quotient
<1>9. p + 1 = z
  BY <1>2, <1>3, <1>5
<1>. QED BY <1>1, <1>7, <1>8, <1>9 DEF Behind, Warps

\* Five places are told apart by the phase: W is at least 5.
LEMMA BehindOne ==
  ASSUME NEW w \in Warps, NEW p \in Warps, NEW j \in 0 .. 4, NEW k \in 0 .. 4,
         Behind(w, j, p), Behind(w, k, p)
  PROVE  j = k
<1>1. PICK n \in Nat \ {0} : n = W /\ n >= 5
  BY RotationAssumption
<1>2. ASSUME NEW a \in 0 .. 4, NEW b \in 0 .. 4, a < b, Behind(w, a, p), Behind(w, b, p)
      PROVE  FALSE
  <2>1. PICK x \in Int, y \in Int, i \in 1 .. n - 1 : x = w + a /\ y = w + b /\ i = b - a /\ y = x + i
    BY <1>1, <1>2 DEF Warps
  <2>2. (x + i) % n # x % n
    BY RemaindersDiffer
  <2>. QED BY <1>1, <1>2, <2>1, <2>2 DEF Behind
<1>. QED BY <1>2

\* The fetch slot
LEMMA BehindZero ==
  ASSUME NEW p \in Warps
  PROVE  Behind(p, 0, p)
<1>1. PICK n \in Nat \ {0} : n = W
  BY RotationAssumption
<1>2. PICK x \in 0 .. n - 1 : x = p
  BY <1>1 DEF Warps
<1>3. x % n = x
  OBVIOUS
<1>4. x + 0 = x
  OBVIOUS
<1>. QED BY <1>1, <1>2, <1>3, <1>4 DEF Behind

-----------------------------------------------------------------------------
(* The memory unit's queue: entries of different warps *)

Entries(q) == {q[k] : k \in 1 .. Len(q)}
WarpsIn(q) == {q[k].warp : k \in 1 .. Len(q)}
Different(q) == \A i, j \in 1 .. Len(q) : i # j => q[i].warp # q[j].warp

\* An entry of another warp joins.
LEMMA WaitAppend ==
  ASSUME NEW T, NEW q \in Seq(T), NEW e \in T, Different(q), e.warp \notin WarpsIn(q)
  PROVE  /\ Append(q, e) \in Seq(T)
         /\ Entries(Append(q, e)) = Entries(q) \union {e}
         /\ WarpsIn(Append(q, e)) = WarpsIn(q) \union {e.warp}
         /\ Different(Append(q, e))
<1> DEFINE a == Append(q, e)
<1>1. a \in Seq(T) /\ Len(a) = Len(q) + 1
  OBVIOUS
<1>2. a[Len(q) + 1] = e /\ \A k \in 1 .. Len(q) : a[k] = q[k]
  OBVIOUS
<1> HIDE DEF a
<1>3. \A k \in 1 .. Len(a) : k \in 1 .. Len(q) \/ k = Len(q) + 1
  BY <1>1
<1>4. Len(q) + 1 \in 1 .. Len(a) /\ \A k \in 1 .. Len(q) : k \in 1 .. Len(a)
  BY <1>1
<1>5. Entries(a) = Entries(q) \union {e}
  BY <1>2, <1>3, <1>4 DEF Entries
<1>6. WarpsIn(a) = WarpsIn(q) \union {e.warp}
  BY <1>2, <1>3, <1>4 DEF WarpsIn
<1>7. Different(a)
  <2>1. SUFFICES ASSUME NEW i \in 1 .. Len(a), NEW j \in 1 .. Len(a), i # j
                 PROVE  a[i].warp # a[j].warp
    BY DEF Different
  <2>2. CASE i \in 1 .. Len(q) /\ j \in 1 .. Len(q)
    BY <1>2, <2>1, <2>2 DEF Different
  <2>3. CASE i = Len(q) + 1 /\ j \in 1 .. Len(q)
    BY <1>2, <2>3 DEF WarpsIn
  <2>4. CASE j = Len(q) + 1 /\ i \in 1 .. Len(q)
    BY <1>2, <2>4 DEF WarpsIn
  <2>. QED BY <1>3, <2>1, <2>2, <2>3, <2>4
<1>. QED BY <1>1, <1>5, <1>6, <1>7 DEF a

\* The oldest leaves.
LEMMA WaitTail ==
  ASSUME NEW T, NEW q \in Seq(T), q # <<>>, Different(q)
  PROVE  /\ Head(q) \in T /\ Tail(q) \in Seq(T)
         /\ Head(q) \in Entries(q)
         /\ Entries(Tail(q)) \subseteq Entries(q)
         /\ Head(q).warp \in WarpsIn(q)
         /\ WarpsIn(Tail(q)) = WarpsIn(q) \ {Head(q).warp}
         /\ Different(Tail(q))
<1> DEFINE t == Tail(q)
<1>1. t \in Seq(T) /\ Len(t) = Len(q) - 1 /\ Len(q) > 0
  BY TailOf
<1>2. Head(q) = q[1] /\ q[1] \in T /\ 1 \in 1 .. Len(q)
  BY <1>1, TailOf
<1>3. \A k \in 1 .. Len(t) : k + 1 \in 1 .. Len(q) /\ k + 1 # 1 /\ t[k] = q[k + 1]
  BY <1>1, TailOf
<1> HIDE DEF t
<1>4. \A k \in 1 .. Len(q) : k = 1 \/ (k - 1 \in 1 .. Len(t) /\ q[k] = t[k - 1])
  <2>1. ASSUME NEW k \in 1 .. Len(q), k # 1
        PROVE  k - 1 \in 1 .. Len(t) /\ q[k] = t[k - 1]
    <3>1. PICK j \in 1 .. Len(t) : j = k - 1 /\ j + 1 = k
      BY <1>1, <2>1
    <3>. QED BY <1>3, <3>1
  <2>. QED BY <2>1
<1>5. Entries(t) \subseteq Entries(q) /\ q[1] \in Entries(q) /\ q[1].warp \in WarpsIn(q)
  BY <1>2, <1>3 DEF Entries, WarpsIn
<1>6. WarpsIn(t) = WarpsIn(q) \ {q[1].warp}
  <2>1. WarpsIn(t) \subseteq WarpsIn(q) \ {q[1].warp}
    BY <1>2, <1>3 DEF WarpsIn, Different
  <2>2. WarpsIn(q) \ {q[1].warp} \subseteq WarpsIn(t)
    BY <1>4 DEF WarpsIn
  <2>. QED BY <2>1, <2>2
<1>7. Different(t)
  BY <1>1, <1>3 DEF Different
<1>. QED BY <1>1, <1>2, <1>5, <1>6, <1>7 DEF t

\* Entries of different warps are at most as many as the warps.
LEMMA WaitBound ==
  ASSUME NEW T, NEW q \in Seq(T), Different(q), WarpsIn(q) \subseteq Warps
  PROVE  Len(q) <= W
<1> DEFINE f == [k \in 1 .. Len(q) |-> q[k].warp]
<1>1. f \in [1 .. Len(q) -> Warps]
  BY DEF WarpsIn
<1>2. \A i, j \in 1 .. Len(q) : f[i] = f[j] => i = j
  BY DEF Different
<1> HIDE DEF f
<1>3. f \in Injection(1 .. Len(q), Warps)
  BY <1>1, <1>2 DEF Injection, IsInjective
<1>4. IsFiniteSet(Warps) /\ Cardinality(Warps) = W
  <2>1. 0 \in Int /\ W - 1 \in Int
    BY RotationAssumption
  <2>. QED BY <2>1, FS_Interval, RotationAssumption DEF Warps
<1>5. Cardinality(1 .. Len(q)) = Len(q)
  <2>1. 1 \in Int /\ Len(q) \in Int /\ Len(q) >= 0
    OBVIOUS
  <2>2. PICK n \in Int : n = Len(q) /\ n >= 0
    BY <2>1
  <2>3. Cardinality(1 .. n) = IF 1 > n THEN 0 ELSE n - 1 + 1
    BY FS_Interval
  <2>. QED BY <2>2, <2>3
<1>6. Cardinality(1 .. Len(q)) <= Cardinality(Warps)
  BY <1>3, <1>4, FS_Injection
<1>. QED BY <1>4, <1>5, <1>6

-----------------------------------------------------------------------------
(* A nested stack, its top first, under the mask that runs *)

Nested(mask, s) ==
  \A k \in 1 .. Len(s) :
    LET running == IF k = 1 THEN mask ELSE s[k - 1].join
    IN  /\ s[k].other # {} /\ s[k].other \subseteq s[k].join
        /\ running = IF s[k].pending THEN s[k].join \ s[k].other ELSE s[k].other

\* A proper part of the mask goes the other way.
LEMMA NestedPush ==
  ASSUME NEW mask, NEW s \in Seq(Entry), Nested(mask, s),
         NEW e \in Entry, e.join = mask, e.pending = TRUE,
         e.other # {}, e.other \subseteq mask
  PROVE  Nested(mask \ e.other, <<e>> \o s)
<1> DEFINE t == <<e>> \o s
<1>1. /\ t \in Seq(Entry) /\ Len(t) = Len(s) + 1 /\ t[1] = e
      /\ \A k \in 1 .. Len(s) : t[k + 1] = s[k]
  BY ConsFacts
<1> HIDE DEF t
<1>2. ASSUME NEW k \in 1 .. Len(t)
      PROVE  LET running == IF k = 1 THEN mask \ e.other ELSE t[k - 1].join
             IN  /\ t[k].other # {} /\ t[k].other \subseteq t[k].join
                 /\ running = IF t[k].pending THEN t[k].join \ t[k].other ELSE t[k].other
  <2>1. CASE k = 1
    BY <1>1, <2>1
  <2>2. CASE k # 1
    <3>1. PICK j \in 1 .. Len(s) : k = j + 1 /\ t[k] = s[j] /\ k - 1 = j
      BY <1>1, <2>2
    <3>2. t[j].join = IF j = 1 THEN mask ELSE s[j - 1].join
      <4>1. CASE j = 1
        BY <1>1, <4>1
      <4>2. CASE j # 1
        <5>1. PICK i \in 1 .. Len(s) : j = i + 1 /\ i = j - 1
          BY <4>2
        <5>. QED BY <1>1, <4>2, <5>1
      <4>. QED BY <4>1, <4>2
    <3>. QED BY <2>2, <3>1, <3>2 DEF Nested
  <2>. QED BY <2>1, <2>2
<1>3. Nested(mask \ e.other, t)
  BY <1>2 DEF Nested
<1>. QED BY <1>3 DEF t

\* The other side starts.
LEMMA NestedSwitch ==
  ASSUME NEW mask, NEW s \in Seq(Entry), s # <<>>, Nested(mask, s),
         NEW e \in Entry, e.join = Head(s).join, e.other = Head(s).other, e.pending = FALSE
  PROVE  Nested(e.other, <<e>> \o Tail(s))
<1> DEFINE u == Tail(s)
<1>1. u \in Seq(Entry) /\ Len(u) = Len(s) - 1 /\ \A k \in 1 .. Len(u) : u[k] = s[k + 1]
  BY TailOf
<1> HIDE DEF u
<1> DEFINE t == <<e>> \o u
<1>2. /\ t \in Seq(Entry) /\ Len(t) = Len(u) + 1 /\ t[1] = e
      /\ \A k \in 1 .. Len(u) : t[k + 1] = u[k]
  BY <1>1, ConsFacts
<1> HIDE DEF t
<1>3. Len(s) > 0 /\ Head(s) = s[1] /\ 1 \in 1 .. Len(s)
  OBVIOUS
<1>4. \A k \in 1 .. Len(t) : k # 1 => t[k] = s[k]
  <2>1. ASSUME NEW k \in 1 .. Len(t), k # 1 PROVE t[k] = s[k]
    <3>1. PICK j \in 1 .. Len(u) : k = j + 1
      BY <1>2, <2>1
    <3>. QED BY <1>1, <1>2, <3>1
  <2>. QED BY <2>1
<1>5. \A k \in 1 .. Len(t) : t[k].join = s[k].join
  BY <1>2, <1>3, <1>4
<1>6. Len(t) = Len(s)
  BY <1>1, <1>2, <1>3
<1>7. ASSUME NEW k \in 1 .. Len(t)
      PROVE  LET running == IF k = 1 THEN e.other ELSE t[k - 1].join
             IN  /\ t[k].other # {} /\ t[k].other \subseteq t[k].join
                 /\ running = IF t[k].pending THEN t[k].join \ t[k].other ELSE t[k].other
  <2>1. CASE k = 1
    BY <1>2, <1>3, <2>1 DEF Nested
  <2>2. CASE k # 1
    <3>1. k \in 1 .. Len(s) /\ k - 1 \in 1 .. Len(t) /\ t[k] = s[k]
      BY <1>4, <1>6, <2>2
    <3>2. t[k - 1].join = s[k - 1].join
      BY <1>5, <3>1
    <3>. QED BY <2>2, <3>1, <3>2 DEF Nested
  <2>. QED BY <2>1, <2>2
<1>8. Nested(e.other, t)
  BY <1>7 DEF Nested
<1>. QED BY <1>8 DEF t, u

\* The sides join.
LEMMA NestedJoin ==
  ASSUME NEW mask, NEW s \in Seq(Entry), s # <<>>, Nested(mask, s)
  PROVE  Nested(Head(s).join, Tail(s))
<1> DEFINE u == Tail(s)
<1>1. u \in Seq(Entry) /\ Len(u) = Len(s) - 1 /\ \A k \in 1 .. Len(u) : u[k] = s[k + 1]
  BY TailOf
<1> HIDE DEF u
<1>2. Len(s) > 0 /\ Head(s) = s[1]
  OBVIOUS
<1>3. ASSUME NEW k \in 1 .. Len(u)
      PROVE  LET running == IF k = 1 THEN Head(s).join ELSE u[k - 1].join
             IN  /\ u[k].other # {} /\ u[k].other \subseteq u[k].join
                 /\ running = IF u[k].pending THEN u[k].join \ u[k].other ELSE u[k].other
  <2>1. PICK j \in 1 .. Len(s) : j = k + 1 /\ u[k] = s[j] /\ j - 1 = k /\ j # 1
    BY <1>1, <1>2
  <2>2. (IF k = 1 THEN Head(s).join ELSE u[k - 1].join) = s[j - 1].join
    <3>1. CASE k = 1
      BY <1>2, <2>1, <3>1
    <3>2. CASE k # 1
      <4>1. PICK i \in 1 .. Len(u) : i = k - 1 /\ u[i] = s[i + 1] /\ i + 1 = j - 1
        BY <1>1, <2>1, <3>2
      <4>. QED BY <3>2, <4>1
    <3>. QED BY <3>1, <3>2
  <2>. QED BY <2>1, <2>2 DEF Nested
<1>4. Nested(Head(s).join, u)
  BY <1>3 DEF Nested
<1>. QED BY <1>4 DEF u

\* The points to which a stack returns are in a set of addresses.
Restarts(s, D) == \A k \in 1 .. Len(s) : s[k].restart \in D

\* A push and
LEMMA RestartsPush ==
  ASSUME NEW s \in Seq(Entry), NEW e \in Entry, NEW D, Restarts(s, D), e.restart \in D
  PROVE  Restarts(<<e>> \o s, D)
<1> DEFINE t == <<e>> \o s
<1>1. /\ t \in Seq(Entry) /\ Len(t) = Len(s) + 1 /\ t[1] = e
      /\ \A k \in 1 .. Len(s) : t[k + 1] = s[k]
  BY ConsFacts
<1> HIDE DEF t
<1>2. ASSUME NEW k \in 1 .. Len(t) PROVE t[k].restart \in D
  <2>1. CASE k = 1
    BY <1>1, <2>1
  <2>2. CASE k # 1
    <3>1. Len(s) \in Nat /\ k \in 1 .. Len(s) + 1
      BY <1>1
    <3>2. PICK j \in 1 .. Len(s) : k = j + 1
      BY <2>2, <3>1
    <3>. QED BY <1>1, <3>2 DEF Restarts
  <2>. QED BY <2>1, <2>2
<1>3. Restarts(t, D)
  BY <1>2 DEF Restarts
<1>. QED BY <1>3 DEF t

\* a pop keep that.
LEMMA RestartsTail ==
  ASSUME NEW s \in Seq(Entry), s # <<>>, NEW D, Restarts(s, D)
  PROVE  Restarts(Tail(s), D) /\ Head(s).restart \in D
<1> DEFINE u == Tail(s)
<1>1. u \in Seq(Entry) /\ Len(u) = Len(s) - 1 /\ \A k \in 1 .. Len(u) : u[k] = s[k + 1]
  BY TailOf
<1> HIDE DEF u
<1>2. Len(s) > 0 /\ Head(s) = s[1] /\ 1 \in 1 .. Len(s)
  OBVIOUS
<1>3. \A k \in 1 .. Len(u) : k + 1 \in 1 .. Len(s)
  BY <1>1, <1>2
<1>4. Restarts(u, D)
  BY <1>1, <1>3 DEF Restarts
<1>. QED BY <1>2, <1>4 DEF Restarts, u

-----------------------------------------------------------------------------
(* The inductive invariant *)

LiveMasks == (SUBSET Lanes) \ {{}}
Fetched == [warp : Warps, pc : Nat]
Decoded == [warp : Warps, pc : Nat, mask : LiveMasks]
Decided == [warp : Warps, pc : Nat, mask : LiveMasks, next : Nat,
            other : SUBSET Lanes, trap : BOOLEAN, mem : BOOLEAN]

d_stage == stage["D"]
ex == stage["EX"]
m == stage["M"]

CoreType ==
  /\ code \in Programs
  /\ phase \in Warps
  /\ busy \subseteq Warps /\ walk_pend \subseteq Warps /\ clr \subseteq Warps
  /\ pc \in [Warps -> Nat]
  /\ amask \in [Warps -> LiveMasks]
  /\ stk \in [Warps -> Seq(Entry)]
  /\ d_stage \in Fetched \union {Bubble}
  /\ ex \in Decoded \union {Bubble}
  /\ m \in Decided \union {Bubble}
  /\ wb \in Decided \union {Bubble}
  /\ muq \in Seq(Decided)
  /\ mu_st \in {"IDLE", "DRAIN", "DONE"}
  /\ mu_st # "IDLE" => mu_cur \in Decided

\* The pipe is the four fetch slots before this one.
Rotation ==
  /\ Valid("D") => Behind(d_stage.warp, 1, phase)
  /\ Valid("EX") => Behind(ex.warp, 2, phase)
  /\ Valid("M") => Behind(m.warp, 3, phase)
  /\ Valid("WB") => Behind(wb.warp, 4, phase)

\* The memory unit: each warp in one of the queue, the current instruction and
\* the clearing of its busy bit
OneRequest ==
  /\ Different(muq)
  /\ mu_st # "IDLE" => mu_cur.warp \notin WarpsIn(muq) /\ mu_cur.warp \notin clr
  /\ WarpsIn(muq) \intersect clr = {}
  /\ busy = InMemoryUnit \union clr

Places ==
  /\ Valid("D") => d_stage.warp \notin walk_pend /\ d_stage.warp \notin busy
  /\ Valid("EX") => ex.warp \notin walk_pend /\ ex.warp \notin busy
  /\ Valid("M") => m.warp \notin walk_pend /\ m.warp \notin busy
  /\ Valid("WB") => wb.warp \notin walk_pend
  /\ wb_v => wb.warp \notin busy
  /\ Valid("WB") /\ ~wb_v => wb.warp \in WarpsIn(muq)
  /\ InMemoryUnit \intersect walk_pend = {}

\* The pipe and the memory unit work on the state that the warp has.
Holds(e) == e.pc = pc[e.warp]
Current ==
  /\ Valid("D") => Holds(d_stage)
  /\ Valid("EX") => Holds(ex) /\ ex.mask = amask[ex.warp]
  /\ Valid("M") => Holds(m) /\ m.mask = amask[m.warp]
  /\ Valid("WB") => Holds(wb) /\ wb.mask = amask[wb.warp]
  /\ \A e \in Entries(muq) : Holds(e) /\ code[e.warp][e.pc].op = "mem"
  /\ mu_st \in {"DRAIN", "DONE"} => Holds(mu_cur) /\ code[mu_cur.warp][mu_cur.pc].op = "mem"

\* A decision of EX that has not retired is still right.
Sound(e) ==
  /\ e.mem => code[e.warp][e.pc].op = "mem"
  /\ ~e.trap => e.next \in DOMAIN code[e.warp]
  /\ e.other # {} => /\ ~e.trap /\ ~e.mem
                     /\ e.other \subseteq e.mask /\ e.other # e.mask
                     /\ Len(stk[e.warp]) < STK
                     /\ code[e.warp][e.pc].tgt \in DOMAIN code[e.warp]
Decisions == (Valid("M") => Sound(m)) /\ (Valid("WB") => Sound(wb))

\* A warp stays in its program, also at the points it will return to.
InProgram(w) == pc[w] \in DOMAIN code[w] /\ Restarts(stk[w], DOMAIN code[w])
StackOf(w) == InProgram(w) /\ Nested(amask[w], stk[w]) /\ Len(stk[w]) <= STK

CoreInv ==
  /\ CoreType
  /\ Rotation
  /\ OneRequest
  /\ Places
  /\ Current
  /\ Decisions
  /\ \A w \in Warps : StackOf(w)

\* The invariant implies what the run checks: one place,
LEMMA CoreImpliesOnePlace == CoreInv => OnePlace
<1> SUFFICES ASSUME CoreInv PROVE OnePlace
  OBVIOUS
<1>1. W \notin Warps
  BY RotationAssumption DEF Warps
<1>2. Bubble.warp = W
  BY DEF Bubble
<1>3. \A e \in Fetched \union Decoded \union Decided : e.warp \in Warps
  BY DEF Fetched, Decoded, Decided
<1>4. /\ d_stage.warp \in Warps \union {W} /\ ex.warp \in Warps \union {W}
      /\ m.warp \in Warps \union {W} /\ wb.warp \in Warps \union {W}
  BY <1>2, <1>3 DEF CoreInv, CoreType
<1>5. \A s \in Stages : stage[s].warp \in Warps \union {W}
  BY <1>4 DEF Stages, d_stage, ex, m, wb
<1>6. TypeOK
  BY <1>5 DEF CoreInv, CoreType, TypeOK, LiveMasks
<1>7. ASSUME NEW s \in Stages, NEW t \in Stages, s # t, Valid(s)
      PROVE  stage[s].warp # stage[t].warp
  <2>1. phase \in Warps
    BY DEF CoreInv, CoreType
  <2>2. \A u \in Stages : Valid(u) =>
          Behind(stage[u].warp, CASE u = "D" -> 1 [] u = "EX" -> 2 [] u = "M" -> 3 [] u = "WB" -> 4, phase)
    BY DEF CoreInv, Rotation, Stages, d_stage, ex, m, wb
  <2>3. CASE Valid(t)
    <3>1. stage[s].warp \in Warps /\ stage[t].warp \in Warps
      BY <1>5, <1>7, <2>3 DEF Valid
    <3>2. PICK j \in 1 .. 4, k \in 1 .. 4 :
            j # k /\ Behind(stage[s].warp, j, phase) /\ Behind(stage[t].warp, k, phase)
      BY <1>7, <2>2, <2>3 DEF Stages
    <3>3. j \in 0 .. 4 /\ k \in 0 .. 4
      OBVIOUS
    <3>. QED BY <2>1, <3>1, <3>2, <3>3, BehindOne
  <2>4. CASE ~Valid(t)
    BY <1>7, <2>4 DEF Valid
  <2>. QED BY <2>3, <2>4
<1>8. \A s \in Stages :
        Valid(s) => /\ stage[s].warp \notin walk_pend
                    /\ stage[s].warp \in busy => s = "WB" /\ ~wb_v
  BY DEF CoreInv, Places, Stages, d_stage, ex, m, wb
<1>9. Len(muq) <= W
  <2>1. muq \in Seq(Decided) /\ Different(muq)
    BY DEF CoreInv, CoreType, OneRequest
  <2>2. WarpsIn(muq) \subseteq Warps
    BY DEF CoreInv, CoreType, OneRequest, InMemoryUnit, WarpsIn
  <2>. QED BY <2>1, <2>2, WaitBound
<1>. QED BY <1>6, <1>7, <1>8, <1>9 DEF CoreInv, OneRequest, Places, Different, OnePlace

\* and nested stacks.
LEMMA CoreImpliesNested == CoreInv => StackNested
  BY DEF CoreInv, StackOf, Nested, StackNested

\* At reset the pipe, the memory unit and the stacks are empty.
LEMMA CoreInit == Init => CoreInv
<1> SUFFICES ASSUME Init PROVE CoreInv
  OBVIOUS
<1>1. 0 \in Warps
  BY RotationAssumption DEF Warps
<1>2. /\ d_stage = Bubble /\ ex = Bubble /\ m = Bubble /\ wb = Bubble
      /\ \A s \in Stages : ~Valid(s)
  BY DEF Init, Stages, d_stage, ex, m, wb, Valid, Bubble
<1>3. ~Valid("D") /\ ~Valid("EX") /\ ~Valid("M") /\ ~Valid("WB") /\ ~wb_v
  BY <1>2 DEF Stages, wb_v
<1>4. muq \in Seq(Decided) /\ Entries(muq) = {} /\ WarpsIn(muq) = {} /\ Different(muq)
  BY DEF Init, Entries, WarpsIn, Different
<1>5. Lanes \in LiveMasks
  BY LaneAssumption DEF LiveMasks
<1>6. CoreType
  BY <1>1, <1>2, <1>4, <1>5 DEF Init, CoreType
<1>7. InMemoryUnit = {}
  BY <1>4 DEF Init, InMemoryUnit, WarpsIn
<1>8. \A w \in Warps : StackOf(w)
  <2>1. ASSUME NEW w \in Warps PROVE StackOf(w)
    <3>1. stk[w] = <<>> /\ pc[w] = 0 /\ Len(stk[w]) = 0
      BY DEF Init
    <3>2. 0 \in DOMAIN code[w]
      BY ProgramAssumption DEF Init, Closed
    <3>. QED BY <3>1, <3>2, StackAssumption DEF StackOf, InProgram, Nested, Restarts
  <2>. QED BY <2>1
<1>. QED BY <1>3, <1>4, <1>6, <1>7, <1>8
        DEF Init, CoreInv, Rotation, OneRequest, Places, Current, Decisions

-----------------------------------------------------------------------------
(* One clock edge *)

\* A stage holds an instruction of a warp or a bubble.
LEMMA Stages4 ==
  ASSUME CoreType
  PROVE  /\ Valid("D") => d_stage \in Fetched /\ d_stage.warp \in Warps
         /\ Valid("EX") => ex \in Decoded /\ ex.warp \in Warps
         /\ Valid("M") => m \in Decided /\ m.warp \in Warps
         /\ Valid("WB") => wb \in Decided /\ wb.warp \in Warps
<1>1. Bubble.warp = W
  BY DEF Bubble
<1>2. /\ Valid("D") => d_stage # Bubble /\ d_stage \in Fetched
      /\ Valid("EX") => ex # Bubble /\ ex \in Decoded
      /\ Valid("M") => m # Bubble /\ m \in Decided
      /\ Valid("WB") => wb # Bubble /\ wb \in Decided
  BY <1>1 DEF CoreType, Valid, d_stage, ex, m, wb
<1>3. \A e \in Fetched \union Decoded \union Decided : e.warp \in Warps
  BY DEF Fetched, Decoded, Decided
<1>. QED BY <1>2, <1>3

\* The four stages and the fetch slot belong to five different warps.
LEMMA Apart ==
  ASSUME CoreType, Rotation
  PROVE  /\ Valid("D") => d_stage.warp # phase
         /\ Valid("EX") => ex.warp # phase
         /\ Valid("M") => m.warp # phase
         /\ Valid("WB") => wb.warp # phase
         /\ Valid("D") /\ Valid("EX") => d_stage.warp # ex.warp
         /\ Valid("D") /\ Valid("M") => d_stage.warp # m.warp
         /\ Valid("D") /\ Valid("WB") => d_stage.warp # wb.warp
         /\ Valid("EX") /\ Valid("M") => ex.warp # m.warp
         /\ Valid("EX") /\ Valid("WB") => ex.warp # wb.warp
         /\ Valid("M") /\ Valid("WB") => m.warp # wb.warp
<1>1. phase \in Warps /\ Behind(phase, 0, phase)
  BY BehindZero DEF CoreType
<1>2. \A w \in Warps : \A j, k \in 0 .. 4 : Behind(w, j, phase) /\ Behind(w, k, phase) => j = k
  BY <1>1, BehindOne
<1>3. 0 \in 0 .. 4 /\ 1 \in 0 .. 4 /\ 2 \in 0 .. 4 /\ 3 \in 0 .. 4 /\ 4 \in 0 .. 4
      /\ 0 # 1 /\ 0 # 2 /\ 0 # 3 /\ 0 # 4 /\ 1 # 2 /\ 1 # 3 /\ 1 # 4 /\ 2 # 3 /\ 2 # 4 /\ 3 # 4
  OBVIOUS
<1>4. \A w \in Warps : /\ ~(Behind(w, 0, phase) /\ (\/ Behind(w, 1, phase) \/ Behind(w, 2, phase)
                                                  \/ Behind(w, 3, phase) \/ Behind(w, 4, phase)))
                       /\ ~(Behind(w, 1, phase) /\ (\/ Behind(w, 2, phase)
                                                  \/ Behind(w, 3, phase) \/ Behind(w, 4, phase)))
                       /\ ~(Behind(w, 2, phase) /\ (\/ Behind(w, 3, phase) \/ Behind(w, 4, phase)))
                       /\ ~(Behind(w, 3, phase) /\ Behind(w, 4, phase))
  BY <1>2, <1>3
<1>. QED BY <1>1, <1>4, Stages4 DEF Rotation

\* The edge leaves the state of a warp alone that neither retires nor completes
\* nor waits for the walker.
Quiet(w) == w \in Warps /\ w \notin walk_pend /\ ~Retires(w) /\ ~Completes(w)

\* It then stays away from the walker too.
LEMMA Untouched ==
  ASSUME NEW w, Quiet(w), ProgramCounters, Masks, Stacks, WalkPending
  PROVE  pc'[w] = pc[w] /\ amask'[w] = amask[w] /\ stk'[w] = stk[w] /\ w \notin walk_pend'
<1>1. w \in Warps /\ ~Walks(w) /\ ~Pops(w) /\ ~Switches(w) /\ ~Joins(w)
  BY DEF Quiet, Walks, Pops, Switches, Joins
<1>. QED BY <1>1 DEF Quiet, ProgramCounters, Masks, Stacks, WalkPending

\* Whoever is fetched, in the pipe or in the memory unit is quiet.
LEMMA QuietWarps ==
  ASSUME CoreInv
  PROVE  /\ issue_valid => Quiet(phase)
         /\ Valid("D") => Quiet(d_stage.warp)
         /\ Valid("EX") => Quiet(ex.warp)
         /\ Valid("M") => Quiet(m.warp)
         /\ Valid("WB") /\ ~wb_v => Quiet(wb.warp)
         /\ \A v \in WarpsIn(muq) : Quiet(v)
         /\ mu_st = "DRAIN" => Quiet(mu_cur.warp)
<1>1. CoreType /\ Rotation /\ OneRequest /\ Places
  BY DEF CoreInv
<1>2. \A v : Completes(v) => v \in busy /\ v \in InMemoryUnit
  BY <1>1 DEF Completes, OneRequest, InMemoryUnit
<1>3. \A v : Retires(v) => Valid("WB") /\ v = wb.warp /\ v \notin busy /\ wb_v
  BY <1>1 DEF Retires, Places, wb_v
<1>4. WarpsIn(muq) \subseteq InMemoryUnit /\ InMemoryUnit \subseteq busy /\ busy \subseteq Warps
  BY <1>1 DEF WarpsIn, InMemoryUnit, OneRequest, CoreType
<1>5. mu_st = "DRAIN" => mu_cur.warp \in InMemoryUnit
  BY DEF InMemoryUnit
<1>6. issue_valid => Quiet(phase)
  BY <1>1, <1>2, <1>3, Apart DEF issue_valid, Quiet, CoreType
<1>7. Valid("D") => Quiet(d_stage.warp)
  BY <1>1, <1>2, <1>3, Apart, Stages4 DEF Quiet, Places
<1>8. Valid("EX") => Quiet(ex.warp)
  BY <1>1, <1>2, <1>3, Apart, Stages4 DEF Quiet, Places
<1>9. Valid("M") => Quiet(m.warp)
  BY <1>1, <1>2, <1>3, Apart, Stages4 DEF Quiet, Places
<1>10. \A v \in WarpsIn(muq) : ~Completes(v)
  BY <1>1 DEF Completes, OneRequest
<1>11. \A v \in WarpsIn(muq) : Quiet(v)
  BY <1>1, <1>3, <1>4, <1>10 DEF Quiet, Places
<1>12. Valid("WB") /\ ~wb_v => Quiet(wb.warp)
  BY <1>1, <1>11 DEF Places
<1>13. mu_st = "DRAIN" => Quiet(mu_cur.warp)
  BY <1>1, <1>3, <1>4, <1>5 DEF Quiet, Places, Completes
<1>. QED BY <1>6, <1>7, <1>8, <1>9, <1>11, <1>12, <1>13

\* The pipe after an edge
LEMMA PipeAfter ==
  ASSUME NEW taken, Pipe(taken)
  PROVE  /\ d_stage' = Fetch /\ ex' = Decode /\ m' = Execute(taken) /\ wb' = m
         /\ Valid("WB")' = Valid("M")
         /\ Valid("EX")' => Valid("D") /\ ex'.warp = d_stage.warp /\ ex'.pc = d_stage.pc
                            /\ ex'.mask = amask[d_stage.warp]
         /\ Valid("D")' => issue_valid /\ d_stage'.warp = phase /\ d_stage'.pc = pc[phase]
<1>1. "D" \in Stages /\ "EX" \in Stages /\ "M" \in Stages /\ "WB" \in Stages
  BY DEF Stages
<1>2. d_stage' = Fetch /\ ex' = Decode /\ m' = Execute(taken) /\ wb' = m
  BY <1>1 DEF Pipe, d_stage, ex, m, wb
<1>3. Valid("WB")' = Valid("M")
  BY <1>2 DEF Valid, wb, m
<1>4. Bubble.warp = W
  BY DEF Bubble
<1>5. Valid("EX")' => Valid("D") /\ ex' = [warp |-> d_stage.warp, pc |-> d_stage.pc, mask |-> amask[d_stage.warp]]
  BY <1>2, <1>4 DEF Valid, ex, d_stage, Decode
<1>6. Valid("D")' => issue_valid /\ d_stage' = [warp |-> phase, pc |-> pc[phase]]
  BY <1>2, <1>4 DEF Valid, d_stage, Fetch
<1>. QED BY <1>2, <1>3, <1>5, <1>6

\* What EX decides is a sound decision about the instruction it holds.
LEMMA ExecuteSound ==
  ASSUME CoreInv, NEW taken \in MayTake, Valid("EX")
  PROVE  /\ Execute(taken) \in Decided
         /\ Execute(taken).warp = ex.warp /\ Execute(taken).pc = ex.pc
         /\ Execute(taken).mask = ex.mask
         /\ Sound(Execute(taken))
<1>1. PICK e : e = Execute(taken)
  OBVIOUS
<1>2. PICK i : i = code[ex.warp][ex.pc]
  OBVIOUS
<1>3. ex \in Decoded /\ ex.warp \in Warps /\ ex.pc \in DOMAIN code[ex.warp]
  BY Stages4 DEF CoreInv, Current, Holds, StackOf, InProgram
<1>4. Closed(code[ex.warp])
  BY <1>3, ProgramAssumption DEF CoreInv, CoreType
<1>5. /\ i.op \in Classes
      /\ i.op \in {"alu", "mem", "branch"} => ex.pc + 1 \in DOMAIN code[ex.warp]
      /\ i.op \in {"jump", "branch"} => i.tgt \in DOMAIN code[ex.warp]
      /\ DOMAIN code[ex.warp] \subseteq Nat
  BY <1>2, <1>3, <1>4 DEF Closed
<1>6. taken \subseteq ex.mask /\ (i.op # "branch" => taken = {})
  BY <1>2 DEF MayTake, ex
<1>7. ex.pc \in Nat /\ ex.mask \in LiveMasks
  BY <1>3 DEF Decoded
<1> DEFINE result(next, other, trap) ==
             [warp |-> ex.warp, pc |-> ex.pc, mask |-> ex.mask, next |-> next,
              other |-> other, trap |-> trap, mem |-> i.op = "mem"]
<1>8. e = CASE i.op \in {"alu", "mem"} -> result(ex.pc + 1, {}, FALSE)
             [] i.op = "illegal" -> result(ex.pc + 1, {}, TRUE)
             [] i.op = "jump" -> result(i.tgt, {}, FALSE)
             [] i.op = "branch" ->
                  IF taken = {} THEN result(ex.pc + 1, {}, FALSE)
                  ELSE IF taken = ex.mask THEN result(i.tgt, {}, FALSE)
                  ELSE IF i.tgt <= ex.pc \/ Len(stk[ex.warp]) >= STK
                  THEN result(ex.pc + 1, {}, TRUE)
                  ELSE result(ex.pc + 1, taken, FALSE)
  BY <1>1, <1>2 DEF Execute, ex
<1>9. \A next \in Nat, other \in SUBSET Lanes, trap \in BOOLEAN :
        result(next, other, trap) \in Decided
  BY <1>3, <1>7 DEF Decided
<1>10. taken \in SUBSET Lanes /\ {} \in SUBSET Lanes /\ ex.pc + 1 \in Nat
  BY <1>6, <1>7 DEF LiveMasks
<1>11. Len(stk[ex.warp]) \in Nat /\ STK \in Nat
  BY <1>3, StackAssumption DEF CoreInv, CoreType
<1>12. CASE i.op \in {"alu", "mem"}
  <2>1. e = result(ex.pc + 1, {}, FALSE)
    BY <1>8, <1>12
  <2>2. e.mem => i.op = "mem"
    BY <2>1
  <2>3. e.warp = ex.warp /\ e.pc = ex.pc /\ e.mask = ex.mask /\ e.other = {} /\ ~e.trap /\ e.next = ex.pc + 1
    BY <2>1
  <2>4. e \in Decided
    BY <1>9, <1>10, <2>1
  <2>5. Sound(e)
    BY <1>2, <1>5, <1>12, <2>2, <2>3 DEF Sound
  <2>. QED BY <1>1, <2>3, <2>4, <2>5
<1>13. CASE i.op = "illegal"
  <2>1. e = result(ex.pc + 1, {}, TRUE)
    BY <1>8, <1>13
  <2>2. e.mem => i.op = "mem"
    BY <2>1
  <2>3. e.warp = ex.warp /\ e.pc = ex.pc /\ e.mask = ex.mask /\ e.other = {} /\ e.trap /\ e.next = ex.pc + 1
    BY <2>1
  <2>4. e \in Decided
    BY <1>9, <1>10, <2>1
  <2>5. Sound(e)
    BY <1>2, <2>2, <2>3 DEF Sound
  <2>. QED BY <1>1, <2>3, <2>4, <2>5
<1>14. CASE i.op = "jump"
  <2>1. e = result(i.tgt, {}, FALSE) /\ i.tgt \in Nat
    BY <1>5, <1>8, <1>14
  <2>2. e.mem => i.op = "mem"
    BY <2>1
  <2>3. e.warp = ex.warp /\ e.pc = ex.pc /\ e.mask = ex.mask /\ e.other = {} /\ ~e.trap /\ e.next = i.tgt
    BY <2>1
  <2>4. e \in Decided
    BY <1>9, <1>10, <2>1
  <2>5. Sound(e)
    BY <1>2, <1>5, <1>14, <2>2, <2>3 DEF Sound
  <2>. QED BY <1>1, <2>3, <2>4, <2>5
<1>15. CASE i.op = "branch"
  <2>1. i.tgt \in Nat /\ i.tgt \in DOMAIN code[ex.warp] /\ ex.pc + 1 \in DOMAIN code[ex.warp]
    BY <1>5, <1>15
  <2>2. CASE taken = {}
    <3>1. e = result(ex.pc + 1, {}, FALSE)
      BY <1>8, <1>15, <2>2
    <3>2. e.mem => i.op = "mem"
      BY <3>1
    <3>3. e.warp = ex.warp /\ e.pc = ex.pc /\ e.mask = ex.mask /\ e.other = {} /\ ~e.trap /\ e.next = ex.pc + 1
      BY <3>1
    <3>4. e \in Decided
      BY <1>9, <1>10, <2>1, <3>1
    <3>5. Sound(e)
      BY <1>2, <2>1, <3>2, <3>3 DEF Sound
    <3>. QED BY <1>1, <3>3, <3>4, <3>5
  <2>3. CASE taken # {} /\ taken = ex.mask
    <3>1. e = result(i.tgt, {}, FALSE)
      BY <1>8, <1>15, <2>3
    <3>2. e.mem => i.op = "mem"
      BY <3>1
    <3>3. e.warp = ex.warp /\ e.pc = ex.pc /\ e.mask = ex.mask /\ e.other = {} /\ ~e.trap /\ e.next = i.tgt
      BY <3>1
    <3>4. e \in Decided
      BY <1>9, <1>10, <2>1, <3>1
    <3>5. Sound(e)
      BY <1>2, <2>1, <3>2, <3>3 DEF Sound
    <3>. QED BY <1>1, <3>3, <3>4, <3>5
  <2>4. CASE taken # {} /\ taken # ex.mask /\ (i.tgt <= ex.pc \/ Len(stk[ex.warp]) >= STK)
    <3>1. e = result(ex.pc + 1, {}, TRUE)
      BY <1>8, <1>15, <2>4
    <3>2. e.mem => i.op = "mem"
      BY <3>1
    <3>3. e.warp = ex.warp /\ e.pc = ex.pc /\ e.mask = ex.mask /\ e.other = {} /\ e.trap /\ e.next = ex.pc + 1
      BY <3>1
    <3>4. e \in Decided
      BY <1>9, <1>10, <2>1, <3>1
    <3>5. Sound(e)
      BY <1>2, <2>1, <3>2, <3>3 DEF Sound
    <3>. QED BY <1>1, <3>3, <3>4, <3>5
  <2>5. CASE taken # {} /\ taken # ex.mask /\ ~(i.tgt <= ex.pc \/ Len(stk[ex.warp]) >= STK)
    <3>1. e = result(ex.pc + 1, taken, FALSE)
      BY <1>8, <1>15, <2>5
    <3>2. ~e.mem /\ e.other = taken /\ e.mask = ex.mask /\ e.warp = ex.warp /\ e.pc = ex.pc
          /\ ~e.trap /\ e.next = ex.pc + 1
      BY <1>15, <3>1
    <3>3. Len(stk[ex.warp]) < STK
      BY <1>11, <2>5
    <3>. QED BY <1>1, <1>2, <1>6, <1>9, <1>10, <2>1, <2>5, <3>1, <3>2, <3>3 DEF Sound
  <2>. QED BY <2>2, <2>3, <2>4, <2>5
<1>. QED BY <1>5, <1>12, <1>13, <1>14, <1>15 DEF Classes

\* A clock edge from a state of the invariant
At(taken, drained) ==
  CoreInv /\ taken \in MayTake /\ drained \in BOOLEAN /\ Edge(taken, drained)

\* M takes the decision of EX.
LEMMA Decides ==
  ASSUME NEW taken, NEW drained, At(taken, drained), Valid("M")'
  PROVE  /\ Valid("EX")
         /\ m' \in Decided /\ Sound(m')
         /\ m'.warp = ex.warp /\ m'.pc = ex.pc /\ m'.mask = ex.mask
<1>1. m' = Execute(taken)
  BY PipeAfter DEF At, Edge
<1>2. Valid("EX")
  <2>1. ASSUME ~Valid("EX") PROVE FALSE
    <3>1. m' = Bubble
      BY <1>1, <2>1 DEF Execute
    <3>2. m'.warp = W
      BY <3>1 DEF Bubble
    <3>. QED BY <3>2 DEF Valid, m
  <2>. QED BY <2>1
<1>. QED BY <1>1, <1>2, ExecuteSound DEF At

\* The rotation goes on.
LEMMA RotationStep ==
  ASSUME NEW taken, NEW drained, At(taken, drained)
  PROVE  Rotation' /\ phase' \in Warps
<1>1. PICK p \in Warps : p = phase
  BY DEF At, CoreInv, CoreType
<1>2. PICK q : q = phase'
  OBVIOUS
<1>3. q = (p + 1) % W
  BY <1>1, <1>2 DEF At, Edge, Rotate
<1>4. \A w \in Warps, k \in 0 .. 4 : Behind(w, k, p) => Behind(w, k + 1, q) /\ q \in Warps
  BY <1>3, BehindNext
<1>5. /\ \A w \in Warps : Behind(w, 0, p) => Behind(w, 1, q)
      /\ \A w \in Warps : Behind(w, 1, p) => Behind(w, 2, q)
      /\ \A w \in Warps : Behind(w, 2, p) => Behind(w, 3, q)
      /\ \A w \in Warps : Behind(w, 3, p) => Behind(w, 4, q)
  <2>1. 0 \in 0 .. 4 /\ 1 \in 0 .. 4 /\ 2 \in 0 .. 4 /\ 3 \in 0 .. 4
        /\ 0 + 1 = 1 /\ 1 + 1 = 2 /\ 2 + 1 = 3 /\ 3 + 1 = 4
    OBVIOUS
  <2>. QED BY <1>4, <2>1
<1>6. Behind(p, 0, p) /\ q \in Warps
  <2>1. 0 \in 0 .. 4
    OBVIOUS
  <2>. QED BY <1>4, <2>1, BehindZero
<1>7. Pipe(taken) /\ CoreType /\ Rotation
  BY DEF At, Edge, CoreInv
<1>8. Valid("D")' => Behind(d_stage'.warp, 1, q)
  BY <1>1, <1>5, <1>6, <1>7, PipeAfter
<1>9. Valid("EX")' => Behind(ex'.warp, 2, q)
  BY <1>1, <1>5, <1>7, PipeAfter, Stages4 DEF Rotation
<1>10. Valid("M")' => Behind(m'.warp, 3, q)
  BY <1>1, <1>5, <1>7, Decides, Stages4 DEF Rotation
<1>11. Valid("WB")' => Behind(wb'.warp, 4, q)
  BY <1>1, <1>5, <1>7, PipeAfter, Stages4 DEF Rotation
<1>. QED BY <1>2, <1>6, <1>8, <1>9, <1>10, <1>11 DEF Rotation

\* The warp of a memory instruction at M enters the queue.
Joining == IF m_is_mem THEN {m.warp} ELSE {}

\* The memory unit keeps its warps apart: one comes in from M, one moves from
\* the queue to the unit, one leaves through clr.
LEMMA RequestStep ==
  ASSUME NEW taken, NEW drained, At(taken, drained)
  PROVE  /\ muq' \in Seq(Decided)
         /\ mu_st' \in {"IDLE", "DRAIN", "DONE"}
         /\ mu_st' # "IDLE" => mu_cur' \in Decided
         /\ clr' \subseteq Warps /\ busy' \subseteq Warps
         /\ busy' = InMemoryUnit \union Joining
         /\ InMemoryUnit' \subseteq InMemoryUnit \union Joining
         /\ Joining \subseteq WarpsIn(muq')
         /\ \A e \in Entries(muq') : e \in Entries(muq) \/ (m_is_mem /\ e = m)
         /\ mu_st' = "DRAIN" => mu_cur' \in Entries(muq) \/ (mu_st = "DRAIN" /\ mu_cur' = mu_cur)
         /\ mu_st' = "DONE" => mu_st = "DRAIN" /\ mu_cur' = mu_cur
         /\ OneRequest'
<1> DEFINE pops == mu_st = "IDLE" /\ muq # <<>>
           rest == IF pops THEN Tail(muq) ELSE muq
<1>1. CoreType /\ OneRequest /\ Places /\ MemoryUnit(drained) /\ Busy
  BY DEF At, Edge, CoreInv
<1>2. muq \in Seq(Decided) /\ Different(muq)
  BY <1>1 DEF CoreType, OneRequest
<1>3. /\ rest \in Seq(Decided) /\ Different(rest)
      /\ Entries(rest) \subseteq Entries(muq)
      /\ WarpsIn(rest) = WarpsIn(muq) \ (IF pops THEN {Head(muq).warp} ELSE {})
      /\ pops => /\ Head(muq) \in Decided /\ Head(muq) \in Entries(muq)
                 /\ Head(muq).warp \in WarpsIn(muq)
  BY <1>2, WaitTail
<1> HIDE DEF rest
<1>4. m_is_mem => m \in Decided /\ m.warp \in Warps /\ m.warp \notin busy
  BY <1>1, Stages4 DEF m_is_mem, Places
<1>5. busy = WarpsIn(muq) \union (IF mu_st = "IDLE" THEN {} ELSE {mu_cur.warp}) \union clr
  BY <1>1 DEF OneRequest, InMemoryUnit, WarpsIn
<1>6. InMemoryUnit = WarpsIn(muq) \union (IF mu_st = "IDLE" THEN {} ELSE {mu_cur.warp})
  BY DEF InMemoryUnit, WarpsIn
<1>7. muq' = IF m_is_mem THEN Append(rest, m) ELSE rest
  BY <1>1 DEF MemoryUnit, m, rest
<1>8. m_is_mem => m.warp \notin WarpsIn(rest)
  BY <1>3, <1>4, <1>5
<1>9. /\ muq' \in Seq(Decided) /\ Different(muq')
      /\ Entries(muq') = Entries(rest) \union (IF m_is_mem THEN {m} ELSE {})
      /\ WarpsIn(muq') = WarpsIn(rest) \union Joining
  <2>1. CASE m_is_mem
    BY <1>3, <1>4, <1>7, <1>8, <2>1, WaitAppend DEF Joining
  <2>2. CASE ~m_is_mem
    BY <1>3, <1>7, <2>2 DEF Joining
  <2>. QED BY <2>1, <2>2
<1>10. Joining \subseteq Warps /\ Joining \intersect busy = {}
  BY <1>4 DEF Joining
<1>11. /\ busy' = (busy \union Joining) \ clr
       /\ clr' = IF mu_st = "DONE" THEN {mu_cur.warp} ELSE {}
       /\ mu_cur' = IF pops THEN Head(muq) ELSE mu_cur
       /\ mu_st' = CASE mu_st = "IDLE" -> IF muq # <<>> THEN "DRAIN" ELSE "IDLE"
                     [] mu_st = "DRAIN" -> IF drained THEN "DONE" ELSE "DRAIN"
                     [] mu_st = "DONE" -> "IDLE"
  BY <1>1 DEF MemoryUnit, Busy, Joining, m
<1>12. /\ mu_st \in {"IDLE", "DRAIN", "DONE"} /\ drained \in BOOLEAN
       /\ mu_st # "IDLE" => mu_cur \in Decided
       /\ busy \subseteq Warps /\ clr \subseteq Warps
  BY <1>1 DEF At, CoreType
<1>13. /\ mu_st # "IDLE" => mu_cur.warp \notin WarpsIn(muq) /\ mu_cur.warp \notin clr
       /\ WarpsIn(muq) \intersect clr = {}
  BY <1>1 DEF OneRequest
<1>14. busy' = InMemoryUnit \union Joining /\ clr \subseteq busy
  <2>1. InMemoryUnit \intersect clr = {} /\ busy = InMemoryUnit \union clr
    BY <1>5, <1>6, <1>13
  <2>. QED BY <1>10, <1>11, <2>1
<1>15. InMemoryUnit' = WarpsIn(muq') \union (IF mu_st' = "IDLE" THEN {} ELSE {mu_cur'.warp})
  BY DEF InMemoryUnit, WarpsIn
<1>16. mu_st' \in {"IDLE", "DRAIN", "DONE"}
  BY <1>11, <1>12
<1>17. \A e \in Entries(muq') : e \in Entries(muq) \/ (m_is_mem /\ e = m)
  BY <1>3, <1>9
<1>18. Joining \subseteq WarpsIn(muq')
  BY <1>9
<1>19. busy' \subseteq Warps
  BY <1>6, <1>5, <1>10, <1>12, <1>14
<1>20. CASE mu_st = "IDLE" /\ muq # <<>>
  <2>1. mu_st' = "DRAIN" /\ mu_cur' = Head(muq) /\ clr' = {} /\ pops
    BY <1>11, <1>20
  <2>2. InMemoryUnit' = InMemoryUnit \union Joining /\ mu_cur'.warp \notin WarpsIn(muq')
    BY <1>3, <1>5, <1>6, <1>9, <1>10, <1>15, <1>20, <2>1
  <2>3. OneRequest'
    BY <1>9, <1>14, <2>1, <2>2 DEF OneRequest
  <2>. QED BY <1>3, <1>9, <1>12, <1>14, <1>20, <1>17, <1>18, <1>19, <2>1, <2>2, <2>3
<1>21. CASE mu_st = "IDLE" /\ muq = <<>>
  <2>1. mu_st' = "IDLE" /\ clr' = {} /\ ~pops
    BY <1>11, <1>21
  <2>2. InMemoryUnit' = InMemoryUnit \union Joining
    BY <1>3, <1>6, <1>9, <1>15, <1>21, <2>1
  <2>3. OneRequest'
    BY <1>9, <1>14, <2>1, <2>2 DEF OneRequest
  <2>. QED BY <1>9, <1>12, <1>14, <1>21, <1>17, <1>18, <1>19, <2>1, <2>2, <2>3
<1>22. CASE mu_st = "DRAIN"
  <2>1. mu_st' \in {"DRAIN", "DONE"} /\ mu_cur' = mu_cur /\ clr' = {} /\ ~pops
    BY <1>11, <1>12, <1>22
  <2>2. InMemoryUnit' = InMemoryUnit \union Joining /\ mu_cur'.warp \notin WarpsIn(muq')
    BY <1>3, <1>5, <1>6, <1>9, <1>10, <1>13, <1>15, <1>22, <2>1
  <2>3. OneRequest'
    BY <1>9, <1>14, <2>1, <2>2 DEF OneRequest
  <2>. QED BY <1>9, <1>12, <1>14, <1>22, <1>17, <1>18, <1>19, <2>1, <2>2, <2>3
<1>23. CASE mu_st = "DONE"
  <2>1. mu_st' = "IDLE" /\ mu_cur' = mu_cur /\ clr' = {mu_cur.warp} /\ ~pops
    BY <1>11, <1>23
  <2>2. /\ InMemoryUnit' \union {mu_cur.warp} = InMemoryUnit \union Joining
        /\ mu_cur.warp \notin WarpsIn(muq') /\ mu_cur.warp \in busy
    BY <1>3, <1>5, <1>6, <1>9, <1>10, <1>13, <1>15, <1>23, <2>1
  <2>3. OneRequest'
    BY <1>9, <1>14, <2>1, <2>2 DEF OneRequest
  <2>4. clr' \subseteq Warps
    BY <1>12, <2>1, <2>2
  <2>. QED BY <1>9, <1>14, <1>23, <1>17, <1>18, <1>19, <2>1, <2>2, <2>3, <2>4
<1>. QED BY <1>12, <1>20, <1>21, <1>22, <1>23

\* A warp that completes leaves the memory unit.
LEMMA CompletesLeaves ==
  ASSUME NEW taken, NEW drained, At(taken, drained), NEW v, Completes(v)
  PROVE  v \notin InMemoryUnit'
<1>1. clr' = {v} /\ mu_st' = "IDLE"
  BY DEF At, Edge, MemoryUnit, Completes
<1>2. WarpsIn(muq') \intersect clr' = {}
  BY RequestStep DEF OneRequest
<1>3. InMemoryUnit' = WarpsIn(muq') \union (IF mu_st' = "IDLE" THEN {} ELSE {mu_cur'.warp})
  BY DEF InMemoryUnit, WarpsIn
<1>. QED BY <1>1, <1>2, <1>3

\* Nobody enters a place while the warp is in another.
LEMMA PlacesStep ==
  ASSUME NEW taken, NEW drained, At(taken, drained)
  PROVE  Places'
<1>1. /\ CoreType /\ Rotation /\ OneRequest /\ Places
      /\ Pipe(taken) /\ ProgramCounters /\ Masks /\ Stacks /\ WalkPending
  BY DEF At, Edge, CoreInv
<1>2. \A v : Quiet(v) => v \notin walk_pend'
  BY <1>1, Untouched
<1>3. /\ busy' = InMemoryUnit \union Joining
      /\ InMemoryUnit' \subseteq InMemoryUnit \union Joining
      /\ Joining \subseteq WarpsIn(muq')
  BY RequestStep
<1>4. InMemoryUnit \subseteq busy
  BY <1>1 DEF OneRequest
<1>5. \A v \in Joining : Valid("M") /\ v = m.warp
  BY DEF Joining, m_is_mem
<1>6. /\ issue_valid => Quiet(phase)
      /\ Valid("D") => Quiet(d_stage.warp)
      /\ Valid("EX") => Quiet(ex.warp)
      /\ Valid("M") => Quiet(m.warp)
      /\ \A v \in WarpsIn(muq) : Quiet(v)
      /\ mu_st = "DRAIN" => Quiet(mu_cur.warp)
  BY QuietWarps DEF At
<1>7. Valid("D")' => d_stage'.warp \notin walk_pend' /\ d_stage'.warp \notin busy'
  BY <1>1, <1>2, <1>3, <1>4, <1>5, <1>6, PipeAfter, Apart DEF issue_valid
<1>8. Valid("EX")' => ex'.warp \notin walk_pend' /\ ex'.warp \notin busy'
  BY <1>1, <1>2, <1>3, <1>4, <1>5, <1>6, PipeAfter, Apart DEF Places
<1>9. Valid("M")' => m'.warp \notin walk_pend' /\ m'.warp \notin busy'
  BY <1>1, <1>2, <1>3, <1>4, <1>5, <1>6, Decides, Apart DEF Places
<1>10. wb' = m /\ Valid("WB")' = Valid("M")
  BY <1>1, PipeAfter
<1>11. Valid("WB")' => wb'.warp \notin walk_pend'
  BY <1>2, <1>6, <1>10
<1>12. wb_v' <=> Valid("WB")' /\ (wb'.trap \/ ~wb'.mem)
  BY DEF wb_v
<1>13. wb_v' => wb'.warp \notin busy'
  <2>1. ASSUME wb_v' PROVE wb'.warp \notin busy'
    <3>1. Valid("M") /\ (m.trap \/ ~m.mem)
      BY <1>10, <1>12, <2>1
    <3>2. Joining = {}
      BY <3>1 DEF Joining, m_is_mem, m
    <3>. QED BY <1>1, <1>3, <1>4, <1>10, <3>1, <3>2 DEF Places
  <2>. QED BY <2>1
<1>14. Valid("WB")' /\ ~wb_v' => wb'.warp \in WarpsIn(muq')
  <2>1. ASSUME Valid("WB")', ~wb_v' PROVE wb'.warp \in WarpsIn(muq')
    <3>1. Valid("M") /\ ~(m.trap \/ ~m.mem)
      BY <1>10, <1>12, <2>1
    <3>2. m.warp \in Joining
      BY <3>1 DEF Joining, m_is_mem, m
    <3>. QED BY <1>3, <1>10, <3>2
  <2>. QED BY <2>1
<1>15. InMemoryUnit' \intersect walk_pend' = {}
  <2>1. ASSUME NEW v \in InMemoryUnit' PROVE v \notin walk_pend'
    <3>1. ~Completes(v)
      BY CompletesLeaves
    <3>2. v \in Joining \/ v \in WarpsIn(muq) \/ (mu_st # "IDLE" /\ v = mu_cur.warp)
      BY <1>3 DEF InMemoryUnit, WarpsIn
    <3>3. v \in Joining \/ v \in WarpsIn(muq) \/ (mu_st = "DRAIN" /\ v = mu_cur.warp)
      BY <1>1, <3>1, <3>2 DEF Completes, CoreType
    <3>. QED BY <1>2, <1>5, <1>6, <3>3
  <2>. QED BY <2>1
<1>. QED BY <1>7, <1>8, <1>9, <1>11, <1>13, <1>14, <1>15 DEF Places

\* What the pipe and the memory unit hold stays the state of its warp.
LEMMA CurrentStep ==
  ASSUME NEW taken, NEW drained, At(taken, drained)
  PROVE  Current' /\ Decisions'
<1>1. /\ CoreType /\ Current /\ Decisions /\ code' = code
      /\ Pipe(taken) /\ ProgramCounters /\ Masks /\ Stacks /\ WalkPending
  BY DEF At, Edge, CoreInv
<1>2. \A v : Quiet(v) => pc'[v] = pc[v] /\ amask'[v] = amask[v] /\ stk'[v] = stk[v]
  BY <1>1, Untouched
<1>3. /\ issue_valid => Quiet(phase)
      /\ Valid("D") => Quiet(d_stage.warp)
      /\ Valid("EX") => Quiet(ex.warp)
      /\ Valid("M") => Quiet(m.warp)
      /\ \A v \in WarpsIn(muq) : Quiet(v)
      /\ mu_st = "DRAIN" => Quiet(mu_cur.warp)
  BY QuietWarps DEF At
<1>4. Valid("D")' => d_stage'.pc = pc'[d_stage'.warp]
  BY <1>1, <1>2, <1>3, PipeAfter
<1>5. Valid("EX")' => ex'.pc = pc'[ex'.warp] /\ ex'.mask = amask'[ex'.warp]
  BY <1>1, <1>2, <1>3, PipeAfter DEF Current, Holds
<1>6. Valid("M")' => m'.pc = pc'[m'.warp] /\ m'.mask = amask'[m'.warp]
  BY <1>1, <1>2, <1>3, Decides DEF Current, Holds
<1>7. wb' = m /\ Valid("WB")' = Valid("M")
  BY <1>1, PipeAfter
<1>8. Valid("WB")' => wb'.pc = pc'[wb'.warp] /\ wb'.mask = amask'[wb'.warp]
  BY <1>1, <1>2, <1>3, <1>7 DEF Current, Holds
<1>9. \A e \in Entries(muq) : e.pc = pc'[e.warp] /\ code'[e.warp][e.pc].op = "mem"
  <2>1. ASSUME NEW e \in Entries(muq) PROVE Quiet(e.warp)
    BY <1>3 DEF Entries, WarpsIn
  <2>. QED BY <1>1, <1>2, <2>1 DEF Current, Holds
<1>10. m_is_mem => m.pc = pc'[m.warp] /\ code'[m.warp][m.pc].op = "mem"
  BY <1>1, <1>2, <1>3 DEF m_is_mem, m, Current, Holds, Decisions, Sound
<1>11. \A e \in Entries(muq') : e.pc = pc'[e.warp] /\ code'[e.warp][e.pc].op = "mem"
  BY <1>9, <1>10, RequestStep
<1>12. mu_st = "DRAIN" => mu_cur.pc = pc'[mu_cur.warp] /\ code'[mu_cur.warp][mu_cur.pc].op = "mem"
  BY <1>1, <1>2, <1>3 DEF Current, Holds
<1>13. mu_st' \in {"DRAIN", "DONE"} =>
         mu_cur'.pc = pc'[mu_cur'.warp] /\ code'[mu_cur'.warp][mu_cur'.pc].op = "mem"
  <2>1. mu_st' \in {"DRAIN", "DONE"} => mu_cur' \in Entries(muq) \/ (mu_st = "DRAIN" /\ mu_cur' = mu_cur)
    BY RequestStep
  <2>. QED BY <1>9, <1>12, <2>1
<1>14. Current'
  BY <1>4, <1>5, <1>6, <1>8, <1>11, <1>13 DEF Current, Holds
<1>15. ASSUME NEW e, Sound(e), Quiet(e.warp)
       PROVE  Sound(e)'
  <2>1. stk'[e.warp] = stk[e.warp]
    BY <1>2, <1>15
  <2>. QED BY <1>1, <1>15, <2>1 DEF Sound
<1>16. Valid("M")' => Sound(m)'
  <2>1. ASSUME Valid("M")' PROVE Sound(m)'
    <3>1. PICK e : e = m'
      OBVIOUS
    <3>2. Sound(e) /\ Quiet(e.warp)
      BY <1>3, <2>1, <3>1, Decides
    <3>3. Sound(e)'
      BY <1>15, <3>2
    <3>. QED BY <3>1, <3>3 DEF Sound
  <2>. QED BY <2>1
<1>17. Valid("WB")' => Sound(wb)'
  <2>1. ASSUME Valid("WB")' PROVE Sound(wb)'
    <3>1. PICK e : e = m
      OBVIOUS
    <3>2. Sound(e) /\ Quiet(e.warp)
      BY <1>1, <1>3, <1>7, <2>1, <3>1 DEF Decisions
    <3>3. Sound(e)'
      BY <1>15, <3>2
    <3>. QED BY <1>7, <3>1, <3>3 DEF Sound
  <2>. QED BY <2>1
<1>. QED BY <1>14, <1>16, <1>17 DEF Decisions

\* The walker, a retirement and a completion do not meet in one warp.
LEMMA OneWriter ==
  ASSUME CoreInv, NEW w \in Warps
  PROVE  /\ Pops(w) => ~Retires(w) /\ ~Completes(w)
         /\ Retires(w) => ~Completes(w)
<1>1. CoreType /\ OneRequest /\ Places
  BY DEF CoreInv
<1>2. Completes(w) => w \in InMemoryUnit /\ w \in busy
  BY <1>1 DEF Completes, InMemoryUnit, OneRequest
<1>3. Retires(w) => wb_v /\ w \notin busy /\ w \notin walk_pend
  BY <1>1 DEF Retires, wb_v, Places
<1>4. Pops(w) => w \in walk_pend
  BY DEF Pops, Walks
<1>. QED BY <1>1, <1>2, <1>3, <1>4 DEF Places

\* The stack of a warp stays bounded, nested and inside its program.
LEMMA StackStep ==
  ASSUME NEW taken, NEW drained, At(taken, drained), NEW w \in Warps
  PROVE  /\ pc'[w] \in Nat /\ amask'[w] \in LiveMasks /\ stk'[w] \in Seq(Entry)
         /\ StackOf(w)'
<1> DEFINE D == DOMAIN code[w]
<1>1. /\ CoreInv /\ CoreType /\ StackOf(w) /\ code' = code
      /\ ProgramCounters /\ Masks /\ Stacks
  BY DEF At, Edge, CoreInv
<1>2. PICK s \in Seq(Entry), mask \in LiveMasks, p \in Nat :
        s = stk[w] /\ mask = amask[w] /\ p = pc[w]
  BY <1>1 DEF CoreType
<1>3. Nested(mask, s) /\ Restarts(s, D) /\ Len(s) <= STK /\ p \in D
  BY <1>1, <1>2 DEF StackOf, InProgram
<1>4. Closed(code[w]) /\ D \subseteq Nat /\ Handler \in D
  BY <1>1, ProgramAssumption DEF CoreType, Closed
<1>5. ASSUME pc'[w] \in D, amask'[w] \in LiveMasks, stk'[w] \in Seq(Entry),
             Nested(amask'[w], stk'[w]), Restarts(stk'[w], D), Len(stk'[w]) <= STK
      PROVE  /\ pc'[w] \in Nat /\ amask'[w] \in LiveMasks /\ stk'[w] \in Seq(Entry)
             /\ StackOf(w)'
  BY <1>1, <1>4, <1>5 DEF StackOf, InProgram, Nested, Restarts
<1>6. /\ Pops(w) => ~Retires(w) /\ ~Completes(w)
      /\ Retires(w) => ~Completes(w)
  BY <1>1, OneWriter
<1>7. s # <<>> => /\ Head(s) \in Entry /\ Head(s).other # {} /\ Head(s).other \subseteq Head(s).join
                  /\ Tail(s) \in Seq(Entry) /\ Len(Tail(s)) = Len(s) - 1 /\ Len(s) > 0
  <2>1. ASSUME s # <<>>
        PROVE  Len(s) > 0 /\ Head(s) = s[1] /\ 1 \in 1 .. Len(s) /\ s[1] \in Entry
    BY <2>1
  <2>2. s # <<>> => Tail(s) \in Seq(Entry) /\ Len(Tail(s)) = Len(s) - 1
    BY TailOf
  <2>. QED BY <1>3, <2>1, <2>2 DEF Nested
<1>8. /\ pc'[w] = IF Switches(w) THEN Head(s).restart
                  ELSE IF Retires(w) THEN (IF wb.trap THEN Handler ELSE wb.next)
                  ELSE IF Completes(w) THEN mu_cur.pc + 1
                  ELSE p
      /\ amask'[w] = IF Switches(w) THEN Head(s).other
                     ELSE IF Joins(w) THEN Head(s).join
                     ELSE IF Retires(w) /\ wb.other # {} THEN wb.mask \ wb.other
                     ELSE mask
      /\ stk'[w] = IF Switches(w)
                   THEN <<[Head(s) EXCEPT !.pending = FALSE, !.reconv = p]>> \o Tail(s)
                   ELSE IF Joins(w) THEN Tail(s)
                   ELSE IF Retires(w) /\ wb.other # {} THEN Pushed(w)
                   ELSE s
  BY <1>1, <1>2 DEF ProgramCounters, Masks, Stacks
<1>9. CASE Switches(w)
  <2>1. s # <<>> /\ pc'[w] = Head(s).restart /\ amask'[w] = Head(s).other
    BY <1>2, <1>8, <1>9 DEF Switches, Pops
  <2>2. PICK e : e = [Head(s) EXCEPT !.pending = FALSE, !.reconv = p]
    OBVIOUS
  <2>3. /\ e \in Entry /\ e.join = Head(s).join /\ e.other = Head(s).other
        /\ e.restart = Head(s).restart /\ e.pending = FALSE
    BY <1>2, <1>7, <2>1, <2>2 DEF Entry
  <2>4. stk'[w] = <<e>> \o Tail(s)
    BY <1>8, <1>9, <2>2
  <2>5. Nested(amask'[w], stk'[w])
    BY <1>3, <2>1, <2>3, <2>4, NestedSwitch
  <2>6. Restarts(stk'[w], D) /\ pc'[w] \in D
    BY <1>3, <1>7, <2>1, <2>3, <2>4, RestartsTail, RestartsPush
  <2>7. stk'[w] \in Seq(Entry) /\ Len(stk'[w]) = Len(s)
    <3>1. stk'[w] \in Seq(Entry) /\ Len(stk'[w]) = Len(Tail(s)) + 1
      BY <1>7, <2>1, <2>3, <2>4, ConsFacts
    <3>2. Len(s) \in Nat
      OBVIOUS
    <3>. QED BY <1>7, <2>1, <3>1, <3>2
  <2>8. amask'[w] \in LiveMasks
    BY <1>7, <2>1 DEF LiveMasks, Entry
  <2>. QED BY <1>3, <1>5, <2>5, <2>6, <2>7, <2>8
<1>10. CASE Joins(w)
  <2>1. s # <<>> /\ ~Switches(w) /\ ~Retires(w) /\ ~Completes(w)
    BY <1>2, <1>6, <1>10 DEF Joins, Pops, Switches
  <2>2. pc'[w] = p /\ amask'[w] = Head(s).join /\ stk'[w] = Tail(s)
    BY <1>8, <1>10, <2>1
  <2>3. Nested(amask'[w], stk'[w]) /\ Restarts(stk'[w], D)
    BY <1>3, <2>1, <2>2, NestedJoin, RestartsTail
  <2>4. amask'[w] \in LiveMasks
    BY <1>7, <2>1, <2>2 DEF LiveMasks, Entry
  <2>5. stk'[w] \in Seq(Entry) /\ Len(stk'[w]) <= STK
    BY <1>3, <1>7, <2>1, <2>2, StackAssumption
  <2>. QED BY <1>3, <1>5, <2>2, <2>3, <2>4, <2>5
<1>11. CASE Retires(w)
  <2>1. ~Switches(w) /\ ~Joins(w) /\ ~Completes(w)
    BY <1>6, <1>11 DEF Switches, Joins
  <2>2. /\ wb \in Decided /\ wb.warp = w /\ Sound(wb) /\ wb.mask = mask /\ wb.pc = p
    BY <1>1, <1>2, <1>11, Stages4 DEF Retires, wb_v, CoreInv, Decisions, Current, Holds
  <2>3. pc'[w] \in D
    BY <1>4, <1>8, <1>11, <2>1, <2>2 DEF Sound
  <2>4. CASE wb.other = {}
    <3>1. amask'[w] = mask /\ stk'[w] = s
      BY <1>8, <2>1, <2>4
    <3>. QED BY <1>2, <1>3, <1>5, <2>3, <3>1
  <2>5. CASE wb.other # {}
    <3>1. /\ wb.other \subseteq mask /\ wb.other # mask /\ Len(s) < STK
          /\ code[w][p].tgt \in D
      BY <1>2, <2>2, <2>5 DEF Sound
    <3>2. amask'[w] = mask \ wb.other /\ stk'[w] = Pushed(w)
      BY <1>8, <1>11, <2>1, <2>2, <2>5
    <3>3. PICK t : t = code[w][p].tgt
      OBVIOUS
    <3>4. PICK e : e = [other |-> wb.other, restart |-> t, join |-> wb.mask,
                        reconv |-> t, pending |-> TRUE]
      OBVIOUS
    <3>5. stk'[w] = <<e>> \o s
      BY <1>2, <2>2, <3>2, <3>3, <3>4 DEF Pushed
    <3>6. /\ e \in Entry /\ e.join = mask /\ e.pending = TRUE /\ e.other = wb.other
          /\ e.restart \in D
      BY <1>2, <1>4, <2>2, <3>1, <3>3, <3>4 DEF Entry, LiveMasks, Decided
    <3>7. Nested(amask'[w], stk'[w])
      <4>1. e.other # {} /\ e.other \subseteq mask
        BY <2>5, <3>1, <3>6
      <4>2. Nested(mask \ e.other, <<e>> \o s)
        BY <1>3, <3>6, <4>1, NestedPush
      <4>. QED BY <3>2, <3>5, <3>6, <4>2
    <3>8. Restarts(stk'[w], D)
      BY <1>3, <3>5, <3>6, RestartsPush
    <3>9. stk'[w] \in Seq(Entry) /\ Len(stk'[w]) = Len(s) + 1
      BY <3>5, <3>6, ConsFacts
    <3>10. Len(stk'[w]) <= STK
      <4>1. Len(s) \in Nat /\ STK \in Nat
        BY StackAssumption
      <4>. QED BY <3>1, <3>9, <4>1
    <3>11. amask'[w] \in LiveMasks
      BY <1>2, <3>1, <3>2 DEF LiveMasks
    <3>. QED BY <1>5, <2>3, <3>7, <3>8, <3>9, <3>10, <3>11
  <2>. QED BY <2>4, <2>5
<1>12. CASE Completes(w)
  <2>1. ~Switches(w) /\ ~Joins(w) /\ ~Retires(w)
    BY <1>6, <1>12 DEF Switches, Joins
  <2>2. mu_cur.pc = p /\ code[w][p].op = "mem"
    BY <1>1, <1>2, <1>12 DEF Completes, CoreInv, Current, Holds
  <2>3. pc'[w] = p + 1 /\ amask'[w] = mask /\ stk'[w] = s
    BY <1>8, <1>12, <2>1, <2>2
  <2>4. pc'[w] \in D
    BY <1>3, <1>4, <2>2, <2>3 DEF Closed
  <2>. QED BY <1>2, <1>3, <1>5, <2>3, <2>4
<1>13. CASE ~Switches(w) /\ ~Joins(w) /\ ~Retires(w) /\ ~Completes(w)
  <2>1. pc'[w] = p /\ amask'[w] = mask /\ stk'[w] = s
    BY <1>8, <1>13
  <2>. QED BY <1>2, <1>3, <1>5, <2>1
<1>. QED BY <1>9, <1>10, <1>11, <1>12, <1>13

\* Every edge preserves the invariant.
LEMMA CoreNext == CoreInv /\ [Next]_vars => CoreInv'
<1> SUFFICES ASSUME CoreInv, [Next]_vars PROVE CoreInv'
  OBVIOUS
<1>1. CASE Next
  <2>1. PICK taken \in MayTake, drained \in BOOLEAN : Edge(taken, drained)
    BY <1>1 DEF Next
  <2>2. At(taken, drained)
    BY <2>1 DEF At
  <2>3. Rotation' /\ phase' \in Warps
    BY <2>2, RotationStep
  <2>4. /\ muq' \in Seq(Decided)
        /\ mu_st' \in {"IDLE", "DRAIN", "DONE"}
        /\ mu_st' # "IDLE" => mu_cur' \in Decided
        /\ clr' \subseteq Warps /\ busy' \subseteq Warps
        /\ OneRequest'
    BY <2>2, RequestStep
  <2>5. Places'
    BY <2>2, PlacesStep
  <2>6. Current' /\ Decisions'
    BY <2>2, CurrentStep
  <2>7. \A w \in Warps : /\ pc'[w] \in Nat /\ amask'[w] \in LiveMasks /\ stk'[w] \in Seq(Entry)
                         /\ StackOf(w)'
    BY <2>2, StackStep
  <2>8. pc' \in [Warps -> Nat] /\ amask' \in [Warps -> LiveMasks] /\ stk' \in [Warps -> Seq(Entry)]
    <3>1. PICK f, g, h : f = pc' /\ g = amask' /\ h = stk'
      OBVIOUS
    <3>2. /\ f = [w \in Warps |-> f[w]] /\ g = [w \in Warps |-> g[w]] /\ h = [w \in Warps |-> h[w]]
      BY <2>1, <3>1 DEF Edge, ProgramCounters, Masks, Stacks
    <3>. QED BY <2>7, <3>1, <3>2
  <2>9. code' \in Programs /\ walk_pend' \subseteq Warps
    BY <2>1 DEF Edge, WalkPending, CoreInv, CoreType
  <2>10. Pipe(taken) /\ CoreType
    BY <2>1 DEF Edge, CoreInv
  <2>11. d_stage' \in Fetched \union {Bubble}
    <3>1. issue_valid => phase \in Warps /\ pc[phase] \in Nat
      BY <2>10 DEF CoreType
    <3>. QED BY <2>10, <3>1, PipeAfter DEF Fetch, Fetched
  <2>12. ex' \in Decoded \union {Bubble}
    <3>1. Valid("D") => d_stage.warp \in Warps /\ d_stage.pc \in Nat /\ amask[d_stage.warp] \in LiveMasks
      BY <2>10, Stages4 DEF CoreType, Fetched
    <3>2. ex' = IF Valid("D")
                THEN [warp |-> d_stage.warp, pc |-> d_stage.pc, mask |-> amask[d_stage.warp]]
                ELSE Bubble
      BY <2>10, PipeAfter DEF Decode, d_stage
    <3>. QED BY <3>1, <3>2 DEF Decoded
  <2>13. m' \in Decided \union {Bubble}
    <3>1. Valid("EX") => m' \in Decided
      BY <2>1, <2>10, PipeAfter, ExecuteSound
    <3>2. ~Valid("EX") => m' = Bubble
      BY <2>10, PipeAfter DEF Execute
    <3>. QED BY <3>1, <3>2
  <2>14. wb' \in Decided \union {Bubble}
    BY <2>10, PipeAfter DEF CoreType
  <2>15. CoreType'
    BY <2>3, <2>4, <2>8, <2>9, <2>11, <2>12, <2>13, <2>14 DEF CoreType
  <2>. QED BY <2>3, <2>4, <2>5, <2>6, <2>7, <2>15 DEF CoreInv
<1>2. CASE UNCHANGED vars
  <2>1. CoreType'
    BY <1>2 DEF vars, CoreInv, CoreType, d_stage, ex, m, wb
  <2>2. Rotation'
    BY <1>2 DEF vars, CoreInv, Rotation, Valid, d_stage, ex, m, wb
  <2>3. OneRequest' /\ Places'
    BY <1>2 DEF vars, CoreInv, OneRequest, Places, InMemoryUnit, Valid, d_stage, ex, m, wb, wb_v
  <2>4. Current' /\ Decisions'
    BY <1>2 DEF vars, CoreInv, Current, Decisions, Holds, Sound, Valid, d_stage, ex, m, wb
  <2>5. \A w \in Warps : StackOf(w)'
    BY <1>2 DEF vars, CoreInv, StackOf, InProgram
  <2>. QED BY <2>1, <2>2, <2>3, <2>4, <2>5 DEF CoreInv
<1>. QED BY <1>1, <1>2

\* For all parameters a warp is in at most one place, so that its state has at
\* most one writer in a cycle (simt_core.sv:871-873).
THEOREM OnePlaceHolds == Spec => []OnePlace
<1>1. Spec => []CoreInv
  BY CoreInit, CoreNext, PTL DEF Spec
<1>. QED BY <1>1, CoreImpliesOnePlace, PTL

\* For all parameters the reconvergence stacks are bounded and their joins nested.
THEOREM StacksNested == Spec => []StackNested
<1>1. Spec => []CoreInv
  BY CoreInit, CoreNext, PTL DEF Spec
<1>. QED BY <1>1, CoreImpliesNested, PTL

-----------------------------------------------------------------------------
(* The golden loop *)

States == [pc : Nat, mask : SUBSET Lanes, stack : Seq(Entry)]
OneTurn == [x \in States |-> IF Iss!Due(x) THEN Iss!Turn(x) ELSE x]

\* The turns an entry and those below can still have
Left(x) ==
  2 * Len(x.stack) - (IF x.stack # <<>> /\ ~Head(x.stack).pending THEN 1 ELSE 0)

\* A turn leaves a state with at least one turn less.
LEMMA TurnGoesOn ==
  ASSUME NEW x \in States, Iss!Due(x)
  PROVE  /\ Iss!Turn(x) \in States
         /\ Left(x) >= 1 /\ Left(Iss!Turn(x)) \in Nat
         /\ Left(Iss!Turn(x)) <= Left(x) - 1
         /\ Left(x) <= 2 * Len(x.stack)
<1>1. x.pc \in Nat /\ x.stack \in Seq(Entry) /\ x.stack # <<>>
  BY DEF States, Iss!Due
<1>2. PICK s \in Seq(Entry) : s = x.stack /\ s # <<>>
  BY <1>1
<1>3. PICK tos \in Entry, rest \in Seq(Entry) :
        tos = Head(s) /\ rest = Tail(s) /\ Len(s) = Len(rest) + 1
  <2>1. /\ Tail(s) \in Seq(Entry) /\ Len(Tail(s)) = Len(s) - 1
        /\ Head(s) \in Entry /\ Len(s) \in Nat
    BY <1>2, TailOf
  <2>2. Len(s) = Len(Tail(s)) + 1
    BY <2>1
  <2>. QED BY <2>1, <2>2
<1>4. PICK n \in Nat : n = Len(rest)
  OBVIOUS
<1>5. PICK y : y = Iss!Turn(x)
  OBVIOUS
<1>6. CASE tos.pending
  <2>1. Left(x) = 2 * (n + 1)
    BY <1>2, <1>3, <1>4, <1>6 DEF Left
  <2>2. PICK e : e = [tos EXCEPT !.pending = FALSE, !.reconv = x.pc]
    OBVIOUS
  <2>3. e \in Entry /\ e.pending = FALSE
    BY <1>1, <2>2 DEF Entry
  <2>4. y = [pc |-> tos.restart, mask |-> tos.other, stack |-> <<e>> \o rest]
    BY <1>2, <1>3, <1>5, <1>6, <2>2 DEF Iss!Turn
  <2>5. PICK t \in Seq(Entry) : t = <<e>> \o rest /\ Len(t) = n + 1 /\ t # <<>> /\ Head(t) = e
    <3>1. <<e>> \o rest \in Seq(Entry) /\ Len(<<e>> \o rest) = n + 1
      BY <1>4, <2>3, ConsFacts
    <3>2. <<e>> \o rest # <<>> /\ Head(<<e>> \o rest) = e
      BY <2>3, HeadTail
    <3>. QED BY <3>1, <3>2
  <2>6. y \in States
    BY <2>4, <2>5 DEF States, Entry
  <2>7. Left(y) = 2 * (n + 1) - 1
    BY <2>3, <2>4, <2>5 DEF Left
  <2>. QED BY <1>2, <1>3, <1>4, <1>5, <2>1, <2>6, <2>7
<1>7. CASE ~tos.pending
  <2>1. Left(x) = 2 * (n + 1) - 1
    BY <1>2, <1>3, <1>4, <1>7 DEF Left
  <2>2. y = [x EXCEPT !.mask = tos.join, !.stack = rest]
    BY <1>2, <1>3, <1>5, <1>7 DEF Iss!Turn
  <2>3. y \in States /\ y.stack = rest
    BY <1>1, <2>2 DEF States, Entry
  <2>4. Left(y) = 2 * n \/ (Left(y) = 2 * n - 1 /\ n > 0)
    BY <1>4, <2>3 DEF Left
  <2>. QED BY <1>2, <1>3, <1>4, <1>5, <2>1, <2>3, <2>4
<1>. QED BY <1>6, <1>7

\* So a turn leads from states to states.
LEMMA OneTurnType == OneTurn \in [States -> States]
  BY TurnGoesOn DEF OneTurn

\* The loop's result is the end of any run of its turns.
LEMMA LoopEnds ==
  ASSUME NEW s \in States, NEW f, Iterates(f, States, OneTurn, s, 2 * STK)
  PROVE  Iss!Reconverge(s) = f[2 * STK]
<1>1. PICK n \in Nat : n = 2 * STK /\ n \in 0 .. n
  BY StackAssumption
<1> DEFINE body(h) == [k \in 0 .. n |->
                         IF k = 0 THEN s
                         ELSE IF Iss!Due(h[k - 1]) THEN Iss!Turn(h[k - 1]) ELSE h[k - 1]]
           after == CHOOSE h : h = body(h)
<1>2. Iss!Reconverge(s) = after[n]
  BY <1>1 DEF Iss!Reconverge
<1>3. f = body(f)
  <2>1. ASSUME NEW k \in 0 .. n
        PROVE  f[k] = body(f)[k]
    <3>1. CASE k = 0
      BY <1>1, <3>1 DEF Iterates
    <3>2. CASE k # 0
      <4>1. PICK j \in 0 .. n - 1 : k = j + 1 /\ k - 1 = j /\ j \in 0 .. n
        BY <3>2
      <4>2. f[k] = OneTurn[f[j]] /\ f[j] \in States
        BY <1>1, <4>1 DEF Iterates
      <4>. QED BY <3>2, <4>1, <4>2 DEF OneTurn
    <3>. QED BY <3>1, <3>2
  <2>2. f \in [0 .. n -> States]
    BY <1>1 DEF Iterates
  <2>. QED BY <2>1, <2>2
<1>4. after = body(after)
  BY <1>3
<1>5. after[0] = s
  <2>1. 0 \in 0 .. n
    BY <1>1
  <2> HIDE DEF after
  <2>. QED BY <1>4, <2>1
<1>6. \A k \in 0 .. n - 1 : after[k] \in States => after[k + 1] = OneTurn[after[k]]
  <2>1. ASSUME NEW k \in 0 .. n - 1, after[k] \in States
        PROVE  after[k + 1] = OneTurn[after[k]]
    <3>1. k + 1 \in 0 .. n /\ k + 1 # 0 /\ (k + 1) - 1 = k
      OBVIOUS
    <3>2. after[k + 1] = IF Iss!Due(after[k]) THEN Iss!Turn(after[k]) ELSE after[k]
      <4> HIDE DEF after
      <4>. QED BY <1>4, <3>1
    <3>. QED BY <2>1, <3>2 DEF OneTurn
  <2>. QED BY <2>1
<1> HIDE DEF after
<1>. QED BY <1>1, <1>2, <1>5, <1>6, SameLoop
\* A state that is not due is left as it is;
LEMMA NotDue ==
  ASSUME NEW s \in States, ~Iss!Due(s)
  PROVE  Iss!Reconverge(s) = s
<1>1. PICK n \in Nat : n = 2 * STK
  BY StackAssumption
<1>2. PICK f : f = [k \in 0 .. n |-> s]
  OBVIOUS
<1>3. f \in [0 .. n -> States] /\ \A k \in 0 .. n : f[k] = s
  BY <1>2
<1>4. 0 \in 0 .. n /\ n \in 0 .. n /\ \A k \in 0 .. n - 1 : k \in 0 .. n /\ k + 1 \in 0 .. n
  OBVIOUS
<1>5. OneTurn[s] = s
  BY DEF OneTurn
<1>6. Iterates(f, States, OneTurn, s, n)
  BY <1>3, <1>4, <1>5 DEF Iterates
<1>. QED BY <1>1, <1>3, <1>4, <1>6, LoopEnds

\* a due state may take its turn first: the loop has turns enough for all
\* the entries of a stack.
LEMMA DueFirst ==
  ASSUME NEW s \in States, Iss!Due(s), Len(s.stack) <= STK
  PROVE  Iss!Reconverge(s) = Iss!Reconverge(Iss!Turn(s))
<1>1. PICK n \in Nat : n = 2 * STK /\ n >= 1
  BY StackAssumption
<1>2. PICK t \in States : t = Iss!Turn(s)
  BY TurnGoesOn
<1>3. PICK f : Iterates(f, States, OneTurn, t, n)
  BY OneTurnType, Iteration
<1>4. f \in [0 .. n -> States] /\ f[0] = t /\ \A k \in 0 .. n - 1 : f[k + 1] = OneTurn[f[k]]
  BY <1>3 DEF Iterates
<1>5. PICK g : g = [k \in 0 .. n |-> IF k = 0 THEN s ELSE f[k - 1]]
  OBVIOUS
<1>6. Iterates(g, States, OneTurn, s, n)
  <2>1. g \in [0 .. n -> States] /\ g[0] = s
    BY <1>4, <1>5
  <2>2. ASSUME NEW k \in 0 .. n - 1
        PROVE  g[k + 1] = OneTurn[g[k]]
    <3>1. g[k + 1] = f[k]
      BY <1>5
    <3>2. CASE k = 0
      BY <1>2, <1>4, <1>5, <3>1, <3>2 DEF OneTurn
    <3>3. CASE k # 0
      <4>1. PICK j \in 0 .. n - 1 : k = j + 1 /\ g[k] = f[j]
        BY <1>5, <3>3
      <4>. QED BY <1>4, <3>1, <4>1
    <3>. QED BY <3>2, <3>3
  <2>. QED BY <2>1, <2>2 DEF Iterates
<1>7. Iss!Reconverge(s) = f[n - 1]
  <2>1. n \in 0 .. n /\ n # 0
    BY <1>1
  <2>. QED BY <1>1, <1>5, <1>6, <2>1, LoopEnds
<1>8. Iss!Reconverge(t) = f[n]
  BY <1>1, <1>3, LoopEnds
<1>9. PICK l \in Nat : l = Left(t) /\ l <= n - 1
  <2>1. Left(t) \in Nat /\ Left(t) <= Left(s) - 1 /\ Left(s) <= 2 * Len(s.stack)
    BY <1>2, TurnGoesOn
  <2>2. s.stack \in Seq(Entry) /\ Len(s.stack) \in Nat /\ STK \in Nat
    BY StackAssumption DEF States
  <2>3. PICK x \in Int : x = Left(s)
    <3>1. PICK d \in {0, 1}, z \in Nat : Left(s) = 2 * z - d
      BY <2>2 DEF Left
    <3>2. 2 * z - d \in Int
      OBVIOUS
    <3>. QED BY <3>1, <3>2
  <2>4. Left(t) <= n - 1
    BY <1>1, <2>1, <2>2, <2>3
  <2>. QED BY <2>1, <2>4
<1>10. \A k \in 0 .. n : Iss!Due(f[k]) => Left(f[k]) \in Int /\ Left(f[k]) + k <= l
  <2> DEFINE P == {k \in 0 .. n : Iss!Due(f[k]) => Left(f[k]) \in Int /\ Left(f[k]) + k <= l}
  <2>1. 0 \in P
    BY <1>4, <1>9
  <2>2. ASSUME NEW k \in 0 .. n - 1, k \in P
        PROVE  k + 1 \in P
    <3>1. f[k] \in States /\ f[k + 1] = OneTurn[f[k]] /\ k + 1 \in 0 .. n
      BY <1>4
    <3>2. CASE ~Iss!Due(f[k])
      <4>1. f[k + 1] = f[k]
        BY <3>1, <3>2 DEF OneTurn
      <4>. QED BY <3>1, <3>2, <4>1
    <3>3. CASE Iss!Due(f[k])
      <4>1. f[k + 1] = Iss!Turn(f[k])
        BY <3>1, <3>3 DEF OneTurn
      <4>2. PICK a \in Int : a = Left(f[k]) /\ a + k <= l
        BY <2>2, <3>3
      <4>3. PICK b \in Nat : b = Left(f[k + 1]) /\ b <= a - 1
        BY <3>1, <3>3, <4>1, <4>2, TurnGoesOn
      <4>4. b + (k + 1) <= l
        BY <4>2, <4>3
      <4>. QED BY <3>1, <4>3, <4>4
    <3>. QED BY <3>2, <3>3
  <2>3. \A k \in 0 .. n : k \in P
    <3> HIDE DEF P
    <3>. QED BY <2>1, <2>2, Upto
  <2>. QED BY <2>3
<1>11. ~Iss!Due(f[n - 1])
  <2> SUFFICES ASSUME Iss!Due(f[n - 1]) PROVE FALSE
    OBVIOUS
  <2>1. n - 1 \in 0 .. n /\ f[n - 1] \in States
    BY <1>1, <1>4
  <2>2. Left(f[n - 1]) \in Int /\ Left(f[n - 1]) + (n - 1) <= l
    BY <1>10, <2>1
  <2>3. Left(f[n - 1]) >= 1
    BY <2>1, TurnGoesOn
  <2>. QED BY <1>9, <2>2, <2>3
<1>12. f[n] = f[n - 1]
  <2>1. PICK k \in 0 .. n - 1 : k = n - 1 /\ k + 1 = n
    BY <1>1
  <2>2. f[n] = OneTurn[f[n - 1]] /\ f[n - 1] \in States
    BY <1>4, <2>1
  <2>. QED BY <1>11, <2>2 DEF OneTurn
<1>. QED BY <1>2, <1>7, <1>8, <1>12
-----------------------------------------------------------------------------
(* The run of the golden model *)

\* What EX decided is what the golden model does with the lanes taken: a trap,
\* the next instruction, the target, or a split.
Meant(e) ==
  LET i == code[e.warp][e.pc]
      room == i.tgt > e.pc /\ Len(stk[e.warp]) < STK
  IN  \E taken \in SUBSET e.mask :
        \/ /\ e.trap /\ e.other = {}
           /\ i.op = "illegal" \/ (i.op = "branch" /\ taken \notin {{}, e.mask} /\ ~room)
        \/ /\ ~e.trap /\ e.other = {} /\ e.next = e.pc + 1
           /\ i.op \in {"alu", "mem"} \/ (i.op = "branch" /\ taken = {})
        \/ /\ ~e.trap /\ e.other = {} /\ e.next = i.tgt
           /\ i.op = "jump" \/ (i.op = "branch" /\ taken # {} /\ taken = e.mask)
        \/ /\ ~e.trap /\ e.other = taken /\ e.next = e.pc + 1
           /\ i.op = "branch" /\ taken \notin {{}, e.mask} /\ room

\* A decision of EX is meant.
LEMMA ExecuteMeant ==
  ASSUME CoreInv, NEW taken \in MayTake, Valid("EX")
  PROVE  Meant(Execute(taken))
<1>1. PICK e : e = Execute(taken)
  OBVIOUS
<1>2. PICK i : i = code[ex.warp][ex.pc]
  OBVIOUS
<1>3. ex \in Decoded /\ ex.warp \in Warps /\ ex.pc \in DOMAIN code[ex.warp]
  BY Stages4 DEF CoreInv, Current, Holds, StackOf, InProgram
<1>4. Closed(code[ex.warp])
  BY <1>3, ProgramAssumption DEF CoreInv, CoreType
<1>5. /\ i.op \in Classes
      /\ i.op \in {"jump", "branch"} => i.tgt \in Nat
      /\ ex.pc \in Nat
  BY <1>2, <1>3, <1>4 DEF Closed
<1>6. taken \subseteq ex.mask
  BY DEF MayTake, ex
<1>7. Len(stk[ex.warp]) \in Nat /\ STK \in Nat
  BY <1>3, StackAssumption DEF CoreInv, CoreType
<1>8. e.warp = ex.warp /\ e.pc = ex.pc /\ e.mask = ex.mask
  BY <1>1, ExecuteSound
<1> DEFINE result(next, other, trap) ==
             [warp |-> ex.warp, pc |-> ex.pc, mask |-> ex.mask, next |-> next,
              other |-> other, trap |-> trap, mem |-> i.op = "mem"]
           room == i.tgt > ex.pc /\ Len(stk[ex.warp]) < STK
<1>9. e = CASE i.op \in {"alu", "mem"} -> result(ex.pc + 1, {}, FALSE)
             [] i.op = "illegal" -> result(ex.pc + 1, {}, TRUE)
             [] i.op = "jump" -> result(i.tgt, {}, FALSE)
             [] i.op = "branch" ->
                  IF taken = {} THEN result(ex.pc + 1, {}, FALSE)
                  ELSE IF taken = ex.mask THEN result(i.tgt, {}, FALSE)
                  ELSE IF i.tgt <= ex.pc \/ Len(stk[ex.warp]) >= STK
                  THEN result(ex.pc + 1, {}, TRUE)
                  ELSE result(ex.pc + 1, taken, FALSE)
  BY <1>1, <1>2 DEF Execute, ex
<1>10. i.op = "branch" => (~room <=> i.tgt <= ex.pc \/ Len(stk[ex.warp]) >= STK)
  BY <1>5, <1>7
<1>11. \/ /\ e.trap /\ e.other = {}
          /\ i.op = "illegal" \/ (i.op = "branch" /\ taken \notin {{}, ex.mask} /\ ~room)
       \/ /\ ~e.trap /\ e.other = {} /\ e.next = ex.pc + 1
          /\ i.op \in {"alu", "mem"} \/ (i.op = "branch" /\ taken = {})
       \/ /\ ~e.trap /\ e.other = {} /\ e.next = i.tgt
          /\ i.op = "jump" \/ (i.op = "branch" /\ taken # {} /\ taken = ex.mask)
       \/ /\ ~e.trap /\ e.other = taken /\ e.next = ex.pc + 1
          /\ i.op = "branch" /\ taken \notin {{}, ex.mask} /\ room
  <2>1. CASE i.op \in {"alu", "mem"}
    <3>1. e = result(ex.pc + 1, {}, FALSE)
      BY <1>9, <2>1
    <3>2. ~e.trap /\ e.other = {} /\ e.next = ex.pc + 1
      BY <3>1
    <3> HIDE DEF result, room
    <3>. QED BY <2>1, <3>2
  <2>2. CASE i.op = "illegal"
    <3>1. e = result(ex.pc + 1, {}, TRUE)
      BY <1>9, <2>2
    <3>2. e.trap /\ e.other = {} /\ e.next = ex.pc + 1
      BY <3>1
    <3> HIDE DEF result, room
    <3>. QED BY <2>2, <3>2
  <2>3. CASE i.op = "jump"
    <3>1. e = result(i.tgt, {}, FALSE)
      BY <1>9, <2>3
    <3>2. ~e.trap /\ e.other = {} /\ e.next = i.tgt
      BY <3>1
    <3> HIDE DEF result, room
    <3>. QED BY <2>3, <3>2
  <2>4. CASE i.op = "branch" /\ taken = {}
    <3>1. e = result(ex.pc + 1, {}, FALSE)
      BY <1>9, <2>4
    <3>2. ~e.trap /\ e.other = {} /\ e.next = ex.pc + 1
      BY <3>1
    <3> HIDE DEF result, room
    <3>. QED BY <2>4, <3>2
  <2>5. CASE i.op = "branch" /\ taken # {} /\ taken = ex.mask
    <3>1. e = result(i.tgt, {}, FALSE)
      BY <1>9, <2>5
    <3>2. ~e.trap /\ e.other = {} /\ e.next = i.tgt
      BY <3>1
    <3> HIDE DEF result, room
    <3>. QED BY <2>5, <3>2
  <2>6. CASE i.op = "branch" /\ taken # {} /\ taken # ex.mask /\ ~room
    <3>1. e = result(ex.pc + 1, {}, TRUE)
      BY <1>9, <2>6, <1>10
    <3>2. e.trap /\ e.other = {} /\ e.next = ex.pc + 1
      BY <3>1
    <3> HIDE DEF result, room
    <3>. QED BY <2>6, <3>2, <1>10
  <2>7. CASE i.op = "branch" /\ taken # {} /\ taken # ex.mask /\ room
    <3>1. e = result(ex.pc + 1, taken, FALSE)
      BY <1>9, <2>7, <1>10
    <3>2. ~e.trap /\ e.other = taken /\ e.next = ex.pc + 1
      BY <3>1
    <3> HIDE DEF result, room
    <3>. QED BY <2>7, <3>2, <1>10
  <2> HIDE DEF room
  <2>. QED BY <1>5, <2>1, <2>2, <2>3, <2>4, <2>5, <2>6, <2>7 DEF Classes
<1>. QED BY <1>1, <1>2, <1>6, <1>8, <1>11 DEF Meant

GoldenInv ==
  /\ CoreInv
  /\ Valid("M") => Meant(m)
  /\ Valid("WB") => Meant(wb)

\* It stays so until the retirement, since the warp's stack stays.
LEMMA GoldenNext == GoldenInv /\ [Next]_vars => GoldenInv'
<1> SUFFICES ASSUME GoldenInv, [Next]_vars PROVE GoldenInv'
  OBVIOUS
<1>1. CoreInv /\ CoreInv'
  BY CoreNext DEF GoldenInv
<1>2. CASE Next
  <2>1. PICK taken \in MayTake, drained \in BOOLEAN : Edge(taken, drained)
    BY <1>2 DEF Next
  <2>2. At(taken, drained)
    BY <1>1, <2>1 DEF At
  <2>3. \A e : Quiet(e.warp) => stk'[e.warp] = stk[e.warp] /\ code' = code
    BY <2>1, Untouched DEF Edge
  <2>4. /\ Valid("EX") => Quiet(ex.warp)
        /\ Valid("M") => Quiet(m.warp)
    BY <1>1, QuietWarps
  <2>5. ASSUME NEW e, Meant(e), Quiet(e.warp)
        PROVE  Meant(e)'
    BY <2>3, <2>5 DEF Meant
  <2>6. ASSUME Valid("M")' PROVE Meant(m)'
    <3>1. PICK e : e = m'
      OBVIOUS
    <3>2. e = Execute(taken) /\ Valid("EX") /\ e.warp = ex.warp
      BY <2>1, <2>2, <2>6, <3>1, Decides, PipeAfter DEF Edge
    <3>3. Meant(e)'
      BY <1>1, <2>4, <2>5, <3>2, ExecuteMeant
    <3>. QED BY <3>1, <3>3 DEF Meant
  <2>7. ASSUME Valid("WB")' PROVE Meant(wb)'
    <3>1. PICK e : e = m
      OBVIOUS
    <3>2. wb' = e /\ Valid("M")
      BY <2>1, <2>7, <3>1, PipeAfter DEF Edge
    <3>3. Meant(e)'
      BY <2>4, <2>5, <3>1, <3>2 DEF GoldenInv
    <3>. QED BY <3>2, <3>3 DEF Meant
  <2>. QED BY <1>1, <2>6, <2>7 DEF GoldenInv
<1>3. CASE UNCHANGED vars
  BY <1>1, <1>3 DEF vars, GoldenInv, Valid, Meant, m, wb
<1>. QED BY <1>2, <1>3
WarpState(w) == [pc |-> pc[w], mask |-> amask[w], stack |-> stk[w]]

\* A warp's state as the golden model sees it: a walk that is pending is done.
LEMMA WalkedIs ==
  ASSUME CoreInv, NEW w \in Warps
  PROVE  /\ Walked(w) = IF w \in walk_pend THEN Iss!Reconverge(WarpState(w)) ELSE WarpState(w)
         /\ WarpState(w) \in States /\ Len(WarpState(w).stack) <= STK
         /\ Iss!Due(WarpState(w)) <=> stk[w] # <<>> /\ pc[w] >= Head(stk[w]).reconv
<1>1. pc[w] \in Nat /\ amask[w] \in SUBSET Lanes /\ stk[w] \in Seq(Entry) /\ Len(stk[w]) <= STK
  BY DEF CoreInv, CoreType, LiveMasks, StackOf
<1>. QED BY <1>1 DEF Walked, WarpState, States, Iss!Due

\* A turn of the walker, its last look and its absence change nothing.
LEMMA WalkStep ==
  ASSUME NEW taken, NEW drained, At(taken, drained), CoreInv', NEW w \in walk_pend
  PROVE  Walked(w)' = Walked(w)
<1>1. /\ CoreInv /\ w \in Warps /\ Places /\ OneRequest
      /\ ProgramCounters /\ Masks /\ Stacks /\ WalkPending
  BY DEF At, Edge, CoreInv, CoreType
<1>2. ~Retires(w) /\ ~Completes(w)
  BY <1>1 DEF Retires, Completes, Places, InMemoryUnit, wb_v
<1>3. PICK s \in States :
        /\ s = WarpState(w) /\ Len(s.stack) <= STK
        /\ Iss!Due(s) <=> stk[w] # <<>> /\ pc[w] >= Head(stk[w]).reconv
        /\ Walked(w) = Iss!Reconverge(s)
  BY <1>1, WalkedIs
<1>4. PICK t : t = WarpState(w)'
  OBVIOUS
<1>5. Walked(w)' = IF w \in walk_pend' THEN Iss!Reconverge(t) ELSE t
  BY <1>4 DEF Walked, WarpState
<1>6. t = [pc |-> pc'[w], mask |-> amask'[w], stack |-> stk'[w]]
  BY <1>4 DEF WarpState
<1>7. CASE Pops(w)
  <2>1. Iss!Due(s) /\ w \in walk_pend'
    BY <1>1, <1>3, <1>7 DEF Pops, WalkPending
  <2>2. t = Iss!Turn(s)
    <3>1. CASE Head(stk[w]).pending
      <4>1. /\ pc'[w] = Head(stk[w]).restart /\ amask'[w] = Head(stk[w]).other
            /\ stk'[w] = <<[Head(stk[w]) EXCEPT !.pending = FALSE, !.reconv = pc[w]]>> \o Tail(stk[w])
        BY <1>1, <1>7, <3>1 DEF Switches, ProgramCounters, Masks, Stacks
      <4>. QED BY <1>3, <1>6, <3>1, <4>1 DEF Iss!Turn, WarpState
    <3>2. CASE ~Head(stk[w]).pending
      <4>1. pc'[w] = pc[w] /\ amask'[w] = Head(stk[w]).join /\ stk'[w] = Tail(stk[w])
        BY <1>1, <1>2, <1>7, <3>2 DEF Switches, Joins, ProgramCounters, Masks, Stacks
      <4>. QED BY <1>3, <1>6, <3>2, <4>1 DEF Iss!Turn, WarpState
    <3>. QED BY <3>1, <3>2
  <2>3. Iss!Reconverge(s) = Iss!Reconverge(t)
    BY <1>3, <2>1, <2>2, DueFirst
  <2>. QED BY <1>3, <1>5, <2>1, <2>3
<1>8. CASE ~Pops(w)
  <2>1. t = s
    <3>1. pc'[w] = pc[w] /\ amask'[w] = amask[w] /\ stk'[w] = stk[w]
      BY <1>1, <1>2, <1>8 DEF Switches, Joins, ProgramCounters, Masks, Stacks
    <3>. QED BY <1>3, <1>6, <3>1 DEF WarpState
  <2>2. CASE Walks(w)
    <3>1. w \notin walk_pend' /\ ~Iss!Due(s)
      BY <1>1, <1>3, <1>8, <2>2 DEF WalkPending, Pops
    <3>2. Iss!Reconverge(s) = s
      BY <3>1, NotDue
    <3>. QED BY <1>3, <1>5, <2>1, <3>1, <3>2
  <2>3. CASE ~Walks(w)
    <3>1. w \in walk_pend'
      BY <1>1, <2>3 DEF WalkPending
    <3>. QED BY <1>3, <1>5, <2>1, <3>1
  <2>. QED BY <2>2, <2>3
<1>. QED BY <1>7, <1>8

\* After an instruction that leads to n and does not split, the warp walks if
\* it is due.
LEMMA Leads ==
  ASSUME NEW w \in Warps, CoreInv, CoreInv', WalkPending, w \notin walk_pend,
         pc'[w] \in Nat, amask'[w] = amask[w], stk'[w] = stk[w],
         w \in walk_pend' <=> Arms(w, pc'[w])
  PROVE  Walked(w)' = Iss!Reconverge([WarpState(w) EXCEPT !.pc = pc'[w]])
<1>1. PICK n : n = pc'[w]
  OBVIOUS
<1>2. PICK t : t = WarpState(w)'
  OBVIOUS
<1>3. t = [WarpState(w) EXCEPT !.pc = n]
  BY <1>1, <1>2 DEF WarpState
<1>4. Walked(w)' = IF w \in walk_pend' THEN Iss!Reconverge(t) ELSE t
  BY <1>2 DEF Walked, WarpState
<1>5. t \in States /\ (Iss!Due(t) <=> Arms(w, n))
  <2>1. WarpState(w) \in States
    BY WalkedIs
  <2>2. t \in States
    BY <1>1, <1>3, <2>1 DEF States
  <2>3. t.stack = stk[w] /\ t.pc = n
    BY <1>3 DEF WarpState
  <2>. QED BY <2>2, <2>3 DEF Arms, Iss!Due
<1>6. CASE Arms(w, n)
  BY <1>1, <1>3, <1>4, <1>6
<1>7. CASE ~Arms(w, n)
  <2>1. Iss!Reconverge(t) = t
    BY <1>5, <1>7, NotDue
  <2>. QED BY <1>1, <1>3, <1>4, <1>7, <2>1
<1>. QED BY <1>6, <1>7

\* A load or store that completes is the golden one.
LEMMA CompletionStep ==
  ASSUME NEW taken, NEW drained, At(taken, drained), CoreInv', NEW w \in Warps, Completes(w)
  PROVE  GoldenStep(w)
<1>1. /\ CoreInv /\ Places /\ OneRequest
      /\ ProgramCounters /\ Masks /\ Stacks /\ WalkPending
  BY DEF At, Edge, CoreInv, CoreType
<1>2. w \notin walk_pend /\ ~Retires(w) /\ ~Pops(w) /\ ~Walks(w)
  BY <1>1, OneWriter DEF Completes, Places, InMemoryUnit, Pops, Walks
<1>3. mu_cur.pc = pc[w] /\ code[w][pc[w]].op = "mem" /\ pc[w] \in Nat
  BY <1>1 DEF Completes, CoreInv, CoreType, Current, Holds
<1>4. pc'[w] = pc[w] + 1 /\ amask'[w] = amask[w] /\ stk'[w] = stk[w]
  BY <1>1, <1>2, <1>3 DEF Switches, Joins, ProgramCounters, Masks, Stacks
<1>5. w \in walk_pend' <=> Arms(w, pc'[w])
  BY <1>1, <1>2, <1>3, <1>4 DEF WalkPending
<1>6. Walked(w)' = Iss!Reconverge([WarpState(w) EXCEPT !.pc = pc[w] + 1])
  BY <1>1, <1>2, <1>3, <1>4, <1>5, Leads
<1>7. Walked(w) = WarpState(w) /\ WarpState(w).pc = pc[w]
  BY <1>2 DEF Walked, WarpState
<1>8. Walked(w)' = Iss!Step(Walked(w), code[w][Walked(w).pc], {})
  BY <1>3, <1>6, <1>7 DEF Iss!Step
<1>9. {} \in SUBSET Walked(w).mask
  OBVIOUS
<1>. QED BY <1>8, <1>9 DEF GoldenStep

\* So is a retirement.
LEMMA RetirementStep ==
  ASSUME NEW taken, NEW drained, At(taken, drained), CoreInv', NEW w \in Warps, Retires(w),
         Meant(wb)
  PROVE  GoldenStep(w)
<1>1. /\ CoreInv /\ Places
      /\ ProgramCounters /\ Masks /\ Stacks /\ WalkPending
  BY DEF At, Edge, CoreInv, CoreType
<1>2. w \notin walk_pend /\ ~Completes(w) /\ ~Pops(w) /\ ~Walks(w) /\ ~Switches(w) /\ ~Joins(w)
  BY <1>1, OneWriter DEF Retires, wb_v, Places, Pops, Walks, Switches, Joins
<1>3. wb.warp = w /\ wb.pc = pc[w] /\ wb.mask = amask[w] /\ pc[w] \in Nat
      /\ pc[w] \in DOMAIN code[w] /\ code \in Programs
  BY <1>1 DEF Retires, wb_v, CoreInv, CoreType, Current, Holds, StackOf, InProgram
<1>4. PICK i : i = code[w][pc[w]]
  OBVIOUS
<1>5. PICK s : s = WarpState(w) /\ s = Walked(w) /\ s.pc = pc[w] /\ s.mask = amask[w] /\ s.stack = stk[w]
  <2>1. Walked(w) = WarpState(w)
    BY <1>2 DEF Walked, WarpState
  <2>2. WarpState(w).pc = pc[w] /\ WarpState(w).mask = amask[w] /\ WarpState(w).stack = stk[w]
    BY DEF WarpState
  <2>. QED BY <2>1, <2>2
<1>6. PICK t \in SUBSET amask[w] :
        LET room == i.tgt > pc[w] /\ Len(stk[w]) < STK
        IN  \/ /\ wb.trap /\ wb.other = {}
               /\ i.op = "illegal" \/ (i.op = "branch" /\ t \notin {{}, amask[w]} /\ ~room)
            \/ /\ ~wb.trap /\ wb.other = {} /\ wb.next = pc[w] + 1
               /\ i.op \in {"alu", "mem"} \/ (i.op = "branch" /\ t = {})
            \/ /\ ~wb.trap /\ wb.other = {} /\ wb.next = i.tgt
               /\ i.op = "jump" \/ (i.op = "branch" /\ t # {} /\ t = amask[w])
            \/ /\ ~wb.trap /\ wb.other = t /\ wb.next = pc[w] + 1
               /\ i.op = "branch" /\ t \notin {{}, amask[w]} /\ room
  BY <1>3, <1>4 DEF Meant
<1> SUFFICES Walked(w)' = Iss!Step(s, i, t)
  BY <1>4, <1>5 DEF GoldenStep
<1>7. /\ pc'[w] = IF wb.trap THEN Handler ELSE wb.next
      /\ amask'[w] = IF wb.other # {} THEN amask[w] \ wb.other ELSE amask[w]
      /\ stk'[w] = IF wb.other # {} THEN Pushed(w) ELSE stk[w]
      /\ w \in walk_pend' <=> ~wb.trap /\ wb.other = {} /\ Arms(w, wb.next)
  BY <1>1, <1>2, <1>3 DEF ProgramCounters, Masks, Stacks, WalkPending
<1>8. /\ pc'[w] \in Nat
      /\ i.op = "branch" => i.tgt \in Nat /\ i.tgt # pc[w] + 1
      /\ Len(stk[w]) \in Nat /\ STK \in Nat
  <2>1. Closed(code[w]) /\ Skips(code[w])
    BY <1>3, ProgramAssumption, SkipAssumption
  <2>2. pc'[w] \in Nat
    BY DEF CoreInv, CoreType
  <2>3. i.op = "branch" => i.tgt \in Nat /\ i.tgt # pc[w] + 1
    BY <1>3, <1>4, <2>1 DEF Closed, Skips
  <2>4. Len(stk[w]) \in Nat /\ STK \in Nat
    BY <1>1, StackAssumption DEF CoreInv, CoreType
  <2>. QED BY <2>2, <2>3, <2>4
<1>9. CASE wb.trap
  <2>1. /\ wb.other = {}
        /\ \/ i.op = "illegal"
           \/ i.op = "branch" /\ t \notin {{}, amask[w]} /\ ~(i.tgt > pc[w] /\ Len(stk[w]) < STK)
    BY <1>6, <1>9
  <2>2. Walked(w)' = [s EXCEPT !.pc = Handler]
    <3>1. pc'[w] = Handler /\ amask'[w] = amask[w] /\ stk'[w] = stk[w] /\ w \notin walk_pend'
      BY <1>7, <1>9, <2>1
    <3>. QED BY <1>5, <3>1 DEF Walked, WarpState
  <2>3. CASE i.op = "illegal"
    BY <2>2, <2>3 DEF Iss!Step, Iss!Trap
  <2>4. CASE i.op = "branch"
    <3>1. t # {} /\ t # s.mask /\ (i.tgt <= s.pc \/ Len(s.stack) >= STK)
      BY <1>3, <1>5, <1>8, <2>1, <2>4
    <3>. QED BY <2>2, <2>4, <3>1 DEF Iss!Step, Iss!Trap
  <2>. QED BY <2>1, <2>3, <2>4
<1>10. CASE ~wb.trap /\ wb.other = {}
  <2>1. pc'[w] = wb.next /\ amask'[w] = amask[w] /\ stk'[w] = stk[w]
        /\ (w \in walk_pend' <=> Arms(w, pc'[w]))
    BY <1>7, <1>10
  <2>2. Walked(w)' = Iss!Reconverge([s EXCEPT !.pc = wb.next])
    BY <1>1, <1>2, <1>5, <1>8, <2>1, Leads
  <2>3. \/ wb.next = s.pc + 1 /\ (i.op \in {"alu", "mem"} \/ (i.op = "branch" /\ t = {}))
        \/ wb.next = i.tgt /\ (i.op = "jump" \/ (i.op = "branch" /\ t # {} /\ t = s.mask))
    BY <1>5, <1>6, <1>10
  <2>. QED BY <2>2, <2>3 DEF Iss!Step
<1>11. CASE ~wb.trap /\ wb.other # {}
  <2>1. /\ wb.other = t /\ wb.next = pc[w] + 1
        /\ i.op = "branch" /\ t \notin {{}, amask[w]} /\ i.tgt > pc[w] /\ Len(stk[w]) < STK
    BY <1>6, <1>11
  <2>2. PICK x : x = Iss!Push(s, t, i.tgt)
    OBVIOUS
  <2>3. Walked(w)' = x
    <3>1. /\ pc'[w] = pc[w] + 1 /\ amask'[w] = amask[w] \ t /\ w \notin walk_pend'
          /\ stk'[w] = <<[other |-> t, restart |-> i.tgt, join |-> amask[w],
                          reconv |-> i.tgt, pending |-> TRUE]>> \o stk[w]
      BY <1>3, <1>4, <1>7, <1>11, <2>1 DEF Pushed
    <3>. QED BY <1>5, <2>2, <3>1 DEF Walked, WarpState, Iss!Push
  <2>4. Iss!Step(s, i, t) = Iss!Reconverge(x)
    <3>1. t # {} /\ t # s.mask /\ ~(i.tgt <= s.pc \/ Len(s.stack) >= STK)
      BY <1>3, <1>5, <1>8, <2>1
    <3>. QED BY <2>1, <2>2, <3>1 DEF Iss!Step
  <2>5. x \in States /\ ~Iss!Due(x)
    <3>1. WarpState(w)' \in States
      BY WalkedIs DEF WarpState, States, CoreInv, CoreType, LiveMasks
    <3>2. WarpState(w)' = x
      BY <1>7, <1>11, <2>3 DEF Walked, WarpState
    <3>3. PICK e \in Entry : e = [other |-> t, restart |-> i.tgt, join |-> amask[w],
                                  reconv |-> i.tgt, pending |-> TRUE]
      BY <1>1, <1>8, <2>1 DEF Entry, CoreInv, CoreType, LiveMasks
    <3>4. x.pc = pc[w] + 1 /\ x.stack = <<e>> \o stk[w]
      BY <1>5, <2>2, <3>3 DEF Iss!Push
    <3>5. stk[w] \in Seq(Entry)
      BY <1>1 DEF CoreInv, CoreType
    <3>6. Head(x.stack).reconv = i.tgt
      BY <3>3, <3>4, <3>5, HeadTail
    <3>7. ~(pc[w] + 1 >= i.tgt)
      BY <1>3, <1>8, <2>1
    <3>. QED BY <3>1, <3>2, <3>4, <3>6, <3>7 DEF Iss!Due
  <2>6. Iss!Reconverge(x) = x
    BY <2>5, NotDue
  <2>. QED BY <2>3, <2>4, <2>6
<1>. QED BY <1>9, <1>10, <1>11

\* Every step of the core is, for every warp, a golden instruction or nothing.
LEMMA TrajectoryStep ==
  ASSUME GoldenInv, GoldenInv', [Next]_vars, NEW w \in Warps
  PROVE  Walked(w)' = Walked(w) \/ GoldenStep(w)
<1>1. CoreInv /\ CoreInv'
  BY DEF GoldenInv
<1>2. CASE Next
  <2>1. PICK taken \in MayTake, drained \in BOOLEAN : At(taken, drained)
    BY <1>1, <1>2 DEF Next, At
  <2>2. CASE w \in walk_pend
    BY <1>1, <2>1, <2>2, WalkStep
  <2>3. CASE Retires(w)
    <3>1. Meant(wb)
      BY <2>3 DEF GoldenInv, Retires, wb_v
    <3>. QED BY <1>1, <2>1, <2>3, <3>1, RetirementStep
  <2>4. CASE Completes(w)
    BY <1>1, <2>1, <2>4, CompletionStep
  <2>5. CASE w \notin walk_pend /\ ~Retires(w) /\ ~Completes(w)
    <3>1. pc'[w] = pc[w] /\ amask'[w] = amask[w] /\ stk'[w] = stk[w] /\ w \notin walk_pend'
      BY <2>1, <2>5, Untouched DEF Quiet, At, Edge
    <3>. QED BY <2>5, <3>1 DEF Walked
  <2>. QED BY <2>2, <2>3, <2>4, <2>5
<1>3. CASE UNCHANGED vars
  BY <1>3 DEF vars, Walked
<1>. QED BY <1>2, <1>3

\* For all parameters and programs every warp runs as the golden model runs it.
THEOREM RunsGolden == Spec => GoldenTrajectory
<1>1. Init => GoldenInv
  <2>1. ASSUME Init PROVE ~Valid("M") /\ ~Valid("WB")
    BY <2>1 DEF Init, Valid, Stages, Bubble
  <2>. QED BY <2>1, CoreInit DEF GoldenInv
<1>2. Spec => []GoldenInv
  BY <1>1, GoldenNext, PTL DEF Spec
<1>3. GoldenInv /\ GoldenInv' /\ [Next]_vars =>
        [\A w \in Warps : Walked(w)' = Walked(w) \/ GoldenStep(w)]_vars
  BY TrajectoryStep
<1>. QED BY <1>2, <1>3, PTL DEF Spec, GoldenTrajectory

==============================================================================
