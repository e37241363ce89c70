------------------------ MODULE TensorSidecar_proofs ------------------------
(***************************************************************************)
(* For every command the tiles hold, every number of lanes, bytes in a     *)
(* word and credits, and whenever the memory answers: a finished command   *)
(* has written the golden result and nothing else, the credits add up, and *)
(* an engine that is not busy has no beat on its way.                      *)
(***************************************************************************)
EXTENDS TensorSidecar, RingTheorems

-----------------------------------------------------------------------------
(* Credits and beats on their way *)

Bit(b) == IF b THEN 1 ELSE 0

\* The pool: credits, beats owed and an answer on the wires make it up, and the
\* beat on the face holds one.
Pool ==
  /\ cred \in 0 .. CRED
  /\ m_req => cred >= 1
  /\ cred + Len(owed) + Bit(m_rsp_valid) = CRED

\* Of the stream F the beats lo to hi - 1 are not answered, the last of them
\* perhaps still on the face.
Flow(F, lo, hi) ==
  /\ Pool
  /\ \E p \in Nat : /\ lo <= p /\ owed = Run(F, lo, p)
                    /\ m_req => req = F[p] /\ hi = p + 1
                    /\ ~m_req => hi = p

\* Nothing is on its way.
Quiet == owed = <<>> /\ ~m_req /\ ~m_rsp_valid /\ cred = CRED

Starts(go) == st = "IDLE" /\ go # NoCommand

\* The memory's edge, when the beats to answer are now.
Answers(now, acts, go) ==
  /\ owed' = IF acts THEN Tail(now) ELSE now
  /\ rsp' = IF acts THEN Head(now) ELSE NoBeat
  /\ ~Starts(go) => out' = IF acts THEN Effect(Head(now)) ELSE out

\* At one edge the memory may answer the oldest beat, and one more be issued.
Serves(F, lo, hi, go, acts) ==
  /\ acts => lo < hi
  /\ rsp' = IF acts THEN F[lo] ELSE NoBeat
  /\ ~Starts(go) => out' = IF acts THEN Effect(F[lo]) ELSE out

\* A stream of beats
Stream0(F, T) == F \in [Nat -> T] /\ NoBeat \notin T

\* It does: the beats owed stay a stretch of the stream, and the pool whole.
LEMMA FlowStep ==
  ASSUME NEW T, NEW F, Stream0(F, T), NEW lo \in Nat, NEW hi \in Nat, Flow(F, lo, hi),
         NEW go, NEW respond \in BOOLEAN, Memory(go, respond), Credit,
         NEW issues \in BOOLEAN, issues => cred_nxt # 0,
         req' = IF issues THEN F[hi] ELSE NoBeat
  PROVE  \E acts \in BOOLEAN :
           Serves(F, lo, hi, go, acts) /\ Flow(F, lo + Bit(acts), hi + Bit(issues))'
<1>1. PICK p \in Nat : /\ lo <= p /\ owed = Run(F, lo, p)
                       /\ m_req => req = F[p] /\ hi = p + 1
                       /\ ~m_req => hi = p
  BY DEF Flow
<1>2. F \in [Nat -> T] /\ NoBeat \notin T
  BY DEF Stream0
<1> DEFINE now == IF m_req THEN Append(owed, req) ELSE owed
           acts == respond /\ now # <<>>
<1>3. now = Run(F, lo, hi) /\ lo <= hi
  <2>1. CASE m_req
    <3>1. Append(Run(F, lo, p), F[p]) = Run(F, lo, p + 1)
      BY <1>1, <1>2, RunGrows
    <3>. QED BY <1>1, <2>1, <3>1
  <2>2. CASE ~m_req
    BY <1>1, <2>2
  <2>. QED BY <2>1, <2>2
<1>4. Answers(now, acts, go)
  <2>1. owed' = IF acts THEN Tail(now) ELSE now
    BY DEF Memory
  <2>2. rsp' = IF acts THEN Head(now) ELSE NoBeat
    BY DEF Memory
  <2>3. ~Starts(go) => out' = IF acts THEN Effect(Head(now)) ELSE out
    <3>1. out' = IF st = "IDLE" /\ go # NoCommand THEN <<>>
                 ELSE IF acts THEN Effect(Head(now)) ELSE out
      BY DEF Memory
    <3> HIDE DEF acts, now
    <3>. QED BY <3>1 DEF Starts
  <2>. QED BY <2>1, <2>2, <2>3 DEF Answers
<1>5. PICK does \in BOOLEAN : does = acts
  OBVIOUS
<1>6. does => lo < hi /\ Head(now) = F[lo] /\ Tail(now) = Run(F, lo + 1, hi)
  <2>1. does => Run(F, lo, hi) # <<>>
    BY <1>3, <1>5
  <2>. QED BY <1>2, <1>3, <2>1, RunServed
<1> HIDE DEF now
<1>7. ~Starts(go) => out' = IF does THEN Effect(F[lo]) ELSE out
  <2>1. CASE does
    BY <1>4, <1>5, <1>6, <2>1 DEF Answers
  <2>2. CASE ~does
    BY <1>4, <1>5, <2>2 DEF Answers
  <2>. QED BY <2>1, <2>2
<1>8. rsp' = IF does THEN F[lo] ELSE NoBeat
  BY <1>4, <1>5, <1>6 DEF Answers
<1>9. owed' = Run(F, lo + Bit(does), hi) /\ lo + Bit(does) <= hi /\ lo + Bit(does) \in Nat
  <2>1. CASE does
    <3>1. owed' = Run(F, lo + 1, hi)
      BY <1>4, <1>5, <1>6, <2>1 DEF Answers
    <3>2. lo + 1 <= hi
      BY <1>6, <2>1
    <3>. QED BY <2>1, <3>1, <3>2 DEF Bit
  <2>2. CASE ~does
    <3>1. owed' = Run(F, lo, hi) /\ lo + 0 = lo
      BY <1>3, <1>4, <1>5, <2>2 DEF Answers
    <3>. QED BY <1>3, <2>2, <3>1 DEF Bit
  <2>. QED BY <2>1, <2>2
<1>10. PICK l \in Nat : l = lo + Bit(does)
  BY <1>9
<1>11. Len(owed) = p - lo /\ Len(owed') = hi - l
  <2>1. IsRun(Run(F, lo, p), T, F, lo, p)
    BY <1>1, <1>2, RunType
  <2>2. IsRun(Run(F, l, hi), T, F, l, hi)
    BY <1>2, <1>9, <1>10, RunType
  <2>. QED BY <1>1, <1>9, <1>10, <2>1, <2>2 DEF IsRun
<1>12. m_rsp_valid' = does
  <2>1. does => F[lo] \in T /\ F[lo] # NoBeat
    BY <1>2
  <2>. QED BY <1>8, <2>1 DEF m_rsp_valid
<1>13. m_req' = issues
  <2>1. F[hi] # NoBeat
    BY <1>2
  <2>. QED BY <2>1 DEF m_req
<1>14. PICK v \in {0, 1}, r \in {0, 1}, v1 \in {0, 1}, r1 \in {0, 1} :
         /\ v = Bit(m_rsp_valid) /\ r = Bit(m_req) /\ v1 = Bit(does) /\ r1 = Bit(issues)
         /\ (r = 1 <=> m_req) /\ (r1 = 1 <=> issues)
  BY DEF Bit
<1>15. CRED \in Nat
  BY SizesAssumption
<1>16. cred \in 0 .. CRED /\ (r = 1 => cred >= 1) /\ cred + (p - lo) + v = CRED
  BY <1>11, <1>14 DEF Flow, Pool
<1>17. cred_nxt = cred - r + v
  BY <1>14 DEF cred_nxt, Bit
<1>18. hi = p + r
  BY <1>1, <1>14
<1>19. Pool'
  <2>1. PICK c \in Int : c = cred' /\ c = cred - r + v
    BY <1>16, <1>17 DEF Credit
  <2>2. c + (hi - l) + v1 = CRED
    BY <1>10, <1>14, <1>16, <1>18, <2>1
  <2>3. c \in 0 .. CRED
    BY <1>9, <1>10, <1>15, <1>16, <2>1, <2>2
  <2>4. r1 = 1 => c >= 1
    BY <1>14, <1>17, <2>1, <2>3
  <2>5. (issues => cred' >= 1) /\ cred' \in 0 .. CRED /\ cred' + Len(owed') + Bit(does) = CRED
    BY <1>11, <1>14, <2>1, <2>2, <2>3, <2>4
  <2>. QED BY <1>12, <1>13, <2>5 DEF Pool
<1>20. Flow(F, l, hi + Bit(issues))'
  <2>1. /\ l <= hi /\ owed' = Run(F, l, hi)
        /\ m_req' => req' = F[hi] /\ hi + Bit(issues) = hi + 1
        /\ ~m_req' => hi + Bit(issues) = hi
    BY <1>9, <1>10, <1>13 DEF Bit
  <2>. QED BY <1>19, <2>1 DEF Flow
<1>21. Serves(F, lo, hi, go, does)
  BY <1>6, <1>7, <1>8 DEF Serves
<1>22. Flow(F, lo + Bit(does), hi + Bit(issues))'
  BY <1>10, <1>20
<1>. QED BY <1>21, <1>22

\* A full pool means that nothing is on its way,
LEMMA FlowFull ==
  ASSUME NEW T, NEW F, Stream0(F, T), NEW lo \in Nat, NEW hi \in Nat, Flow(F, lo, hi), pool_full
  PROVE  lo = hi /\ Quiet
<1>1. PICK p \in Nat : lo <= p /\ owed = Run(F, lo, p) /\ hi = p
  BY DEF Flow, pool_full
<1>2. owed \in Seq(T) /\ Len(owed) = p - lo
  <2>1. IsRun(Run(F, lo, p), T, F, lo, p)
    BY <1>1, RunType DEF Stream0
  <2>. QED BY <1>1, <2>1 DEF IsRun
<1>3. cred = CRED /\ ~m_req /\ CRED \in Nat
  BY SizesAssumption DEF pool_full
<1>4. PICK v \in {0, 1} : v = Bit(m_rsp_valid) /\ (v = 0 => ~m_rsp_valid)
  BY DEF Bit
<1>5. cred + Len(owed) + v = CRED
  BY <1>4 DEF Flow, Pool
<1>6. p = lo /\ v = 0
  BY <1>1, <1>2, <1>3, <1>5
<1>7. owed = <<>>
  BY <1>1, <1>2, <1>6
<1>. QED BY <1>1, <1>3, <1>4, <1>6, <1>7 DEF Quiet

\* and then every stream may begin.
LEMMA FlowBegins ==
  ASSUME Quiet, NEW F, NEW n \in Nat
  PROVE  Flow(F, n, n)
<1>1. Run(F, n, n) = <<>>
  BY DEF Run
<1>2. Len(owed) = 0 /\ CRED \in Nat
  BY SizesAssumption DEF Quiet
<1>3. Pool
  BY <1>2 DEF Quiet, Pool, Bit
<1>. QED BY <1>1, <1>3 DEF Quiet, Flow

\* Nothing comes of nothing.
LEMMA QuietStep ==
  ASSUME Quiet, NEW go, NEW respond \in BOOLEAN, Memory(go, respond), Credit, req' = NoBeat
  PROVE  Quiet' /\ (~Starts(go) => out' = out)
<1>1. owed' = <<>> /\ rsp' = NoBeat /\ (~Starts(go) => out' = out)
  BY DEF Quiet, Memory, Starts
<1>2. cred' = CRED
  BY SizesAssumption DEF Quiet, Credit, cred_nxt
<1>. QED BY <1>1, <1>2 DEF Quiet, m_req, m_rsp_valid


-----------------------------------------------------------------------------
(* The multiply and accumulate pipe *)

\* The cursors of the product g, in the order of the pipe
Cursors(g) == [m : 0 .. g.m - 1, n : 0 .. g.n - 1, k : 0 .. g.k - 1]
First == [m |-> 0, n |-> 0, k |-> 0]
Final(g, c) == c.k = g.k - 1 /\ c.n + LANES >= g.n /\ c.m = g.m - 1
Following(g, c) ==
  IF c.k # g.k - 1 THEN [m |-> c.m, n |-> c.n, k |-> c.k + 1]
  ELSE IF c.n + LANES < g.n THEN [m |-> c.m, n |-> c.n + LANES, k |-> 0]
  ELSE [m |-> c.m + 1, n |-> 0, k |-> 0]

\* The first p products of row r and column x, and the golden word
Products(g, r, x) == [j \in Nat |-> <<(r * g.k) + j, (j * g.n) + x>>]
Dot(g, r, x, p) == Run(Products(g, r, x), 0, p)
Word(g, r, x) ==
  [old |-> IF g.acc THEN (r * g.n) + x ELSE NoOld, sum |-> Dot(g, r, x, g.k)]

\* The words behind cursor c are golden, and the lanes hold the products of
\* its window so far.
Has(g, r, x) == tc[(r * g.n) + x] = Word(g, r, x)
Progress(g, c) ==
  /\ \A r \in 0 .. g.m - 1, x \in 0 .. g.n - 1 :
       (r < c.m \/ (r = c.m /\ x < c.n)) => Has(g, r, x)
  /\ \A e \in Lanes : e < g.n - c.n => accv[e] = Dot(g, c.m, c.n + e, c.k)
Complete(g) == \A r \in 0 .. g.m - 1, x \in 0 .. g.n - 1 : Has(g, r, x)

\* The old words are in place as long as they are needed.
Olds(g) == g.acc => \A i \in 0 .. (g.m * g.n) - 1 : tc[i].old = i

\* The first n bytes of a tile are the operand's.
Loaded(tile, n) == \A i \in Tile : i < n => tile[i] = i

\* The stages hold cursor c.
Holds0(g, c) ==
  s0 = [v |-> TRUE, aa |-> (c.m * g.k) + c.k, bb |-> (c.k * g.n) + c.n,
        cc |-> (c.m * g.n) + c.n, nrem |-> g.n - c.n, wb |-> (c.k = g.k - 1)]
Holds1(g, c) ==
  /\ s1.v /\ s1.wb = (c.k = g.k - 1)
  /\ s1.nrem = g.n - c.n /\ s1.cc = (c.m * g.n) + c.n
  /\ s1.a = (c.m * g.k) + c.k
  /\ \A e \in Lanes : e < g.n - c.n =>
       /\ s1.b[e] = (c.k * g.n) + c.n + e
       /\ g.acc => s1.c[e].old = (c.m * g.n) + c.n + e

\* The cursor that comes after c enters next.
Feeds(g, c) == IF Final(g, c) THEN c_done ELSE ~c_done /\ ci = Following(g, c)

\* A dimension is a number.
LEMMA GemmType ==
  ASSUME NEW g \in Gemms
  PROVE  /\ g.m \in Nat \ {0} /\ g.n \in Nat \ {0} /\ g.k \in Nat \ {0} /\ g.acc \in BOOLEAN
         /\ g.op = "gemm"
         /\ g.m * g.k <= TileBytes /\ g.k * g.n <= TileBytes /\ g.m * g.n <= TileBytes
         /\ TileBytes \in Nat /\ LANES \in Nat \ {0} /\ WordBytes \in Nat \ {0}
  BY SizesAssumption DEF Gemms, Sizes

\* The cursor stays in the product.
LEMMA FollowingType ==
  ASSUME NEW g \in Gemms, NEW c \in Cursors(g), ~Final(g, c)
  PROVE  Following(g, c) \in Cursors(g)
<1>1. PICK m \in Nat, n \in Nat, k \in Nat : m = g.m /\ n = g.n /\ k = g.k
  BY GemmType
<1>2. /\ c.m \in 0 .. m - 1 /\ c.n \in 0 .. n - 1 /\ c.k \in 0 .. k - 1
      /\ LANES \in Nat /\ m > 0 /\ n > 0 /\ k > 0
  BY <1>1, GemmType DEF Cursors
<1>3. CASE c.k # k - 1
  <2>1. c.k + 1 \in 0 .. k - 1
    BY <1>2, <1>3
  <2>. QED BY <1>1, <1>2, <1>3, <2>1 DEF Following, Cursors
<1>4. CASE c.k = k - 1 /\ c.n + LANES < n
  <2>1. c.n + LANES \in 0 .. n - 1 /\ 0 \in 0 .. k - 1
    BY <1>2, <1>4
  <2>. QED BY <1>1, <1>2, <1>4, <2>1 DEF Following, Cursors
<1>5. CASE c.k = k - 1 /\ ~(c.n + LANES < n)
  <2>1. c.m # m - 1
    BY <1>1, <1>2, <1>5 DEF Final
  <2>2. c.m + 1 \in 0 .. m - 1 /\ 0 \in 0 .. n - 1 /\ 0 \in 0 .. k - 1
    BY <1>2, <2>1
  <2>. QED BY <1>1, <1>2, <1>5, <2>2 DEF Following, Cursors
<1>. QED BY <1>3, <1>4, <1>5

\* One more product
LEMMA DotGrows ==
  ASSUME NEW g \in Gemms, NEW r \in Nat, NEW x \in Nat, NEW p \in Nat
  PROVE  Append(Dot(g, r, x, p), <<(r * g.k) + p, (p * g.n) + x>>) = Dot(g, r, x, p + 1)
<1>1. \A j \in Nat : (r * g.k) + j \in Nat /\ (j * g.n) + x \in Nat
  BY GemmType
<1>2. Products(g, r, x) \in [Nat -> Nat \X Nat]
  BY <1>1 DEF Products
<1>3. Products(g, r, x)[p] = <<(r * g.k) + p, (p * g.n) + x>>
  BY DEF Products
<1>4. Append(Run(Products(g, r, x), 0, p), Products(g, r, x)[p]) = Run(Products(g, r, x), 0, p + 1)
  <2>1. PICK F \in [Nat -> Nat \X Nat] : F = Products(g, r, x)
    BY <1>2
  <2>2. 0 \in Nat /\ 0 <= p
    OBVIOUS
  <2>3. Append(Run(F, 0, p), F[p]) = Run(F, 0, p + 1)
    BY <2>2, RunGrows
  <2>. QED BY <2>1, <2>3
<1>. QED BY <1>3, <1>4 DEF Dot

\* No product
LEMMA DotBegins ==
  ASSUME NEW g, NEW r, NEW x
  PROVE  Dot(g, r, x, 0) = <<>>
  BY DEF Dot, Run

\* The places of a window: in the tiles, and not behind it
LEMMA WindowPlaces ==
  ASSUME NEW g \in Gemms, NEW c \in Cursors(g), NEW e \in Lanes, e < g.n - c.n
  PROVE  /\ (c.m * g.k) + c.k \in Tile /\ (c.m * g.k) + c.k < g.m * g.k
         /\ (c.k * g.n) + c.n + e \in Tile /\ (c.k * g.n) + c.n + e < g.k * g.n
         /\ (c.m * g.n) + c.n + e \in Tile /\ (c.m * g.n) + c.n + e \in 0 .. (g.m * g.n) - 1
<1>1. PICK m \in Nat, n \in Nat, k \in Nat : m = g.m /\ n = g.n /\ k = g.k
  BY GemmType
<1>2. /\ c.m \in 0 .. m - 1 /\ c.n \in 0 .. n - 1 /\ c.k \in 0 .. k - 1
      /\ TileBytes \in Nat
      /\ m * k <= TileBytes /\ k * n <= TileBytes /\ m * n <= TileBytes
  BY <1>1, GemmType DEF Cursors
<1>3. PICK r \in 0 .. m - 1, s \in 0 .. k - 1, x \in 0 .. n - 1 :
        r = c.m /\ s = c.k /\ x = c.n + e
  BY <1>1, <1>2, GemmType DEF Lanes
<1>4. (r * k) + s \in 0 .. (m * k) - 1
  BY PlaceOf
<1>5. (s * n) + x \in 0 .. (k * n) - 1
  BY PlaceOf
<1>6. (r * n) + x \in 0 .. (m * n) - 1
  BY PlaceOf
<1>7. /\ (c.m * g.k) + c.k = (r * k) + s
      /\ (c.k * g.n) + c.n + e = (s * n) + x
      /\ (c.m * g.n) + c.n + e = (r * n) + x
  BY <1>1, <1>2, <1>3 DEF Lanes
<1>8. m * k \in Nat /\ k * n \in Nat /\ m * n \in Nat
  OBVIOUS
<1>9. /\ (r * k) + s \in Tile /\ (r * k) + s < m * k
      /\ (s * n) + x \in Tile /\ (s * n) + x < k * n
      /\ (r * n) + x \in Tile
  BY <1>2, <1>4, <1>5, <1>6, <1>8 DEF Tile
<1>. QED BY <1>1, <1>6, <1>7, <1>9


\* Stage 0 takes the cursor, and steps to the one that follows.
LEMMA Stage0Takes ==
  ASSUME NEW g \in Gemms, q = g, NEW c \in Cursors(g), ci = c, ~c_done, S0
  PROVE  Holds0(g, c)' /\ Feeds(g, c)'
<1>1. Holds0(g, c)'
  BY DEF S0, Holds0, LastK
<1>2. c_done' = (LastK /\ LastN /\ LastM) /\ ci' = Advance
  BY DEF S0
<1>3. (LastK /\ LastN /\ LastM) <=> Final(g, c)
  BY DEF LastK, LastN, LastM, Final
<1>4. ~Final(g, c) => Advance = Following(g, c)
  <2>1. c = [m |-> c.m, n |-> c.n, k |-> c.k] /\ c.n \in Int
    BY DEF Cursors
  <2>2. g.n \in Int /\ LANES \in Int
    BY GemmType
  <2>3. CASE ~LastK
    <3>1. Advance = [c EXCEPT !.k = c.k + 1]
      BY <2>3 DEF Advance
    <3>2. Following(g, c) = [m |-> c.m, n |-> c.n, k |-> c.k + 1]
      BY <2>3 DEF Following, LastK
    <3>. QED BY <2>1, <3>1, <3>2
  <2>4. CASE LastK /\ ~LastN
    <3>1. Advance = [m |-> c.m, n |-> c.n + LANES, k |-> 0]
      BY <2>4 DEF Advance
    <3>2. Following(g, c) = [m |-> c.m, n |-> c.n + LANES, k |-> 0]
      BY <2>1, <2>2, <2>4 DEF Following, LastK, LastN
    <3>. QED BY <3>1, <3>2
  <2>5. CASE LastK /\ LastN /\ ~LastM
    <3>1. Advance = [m |-> c.m + 1, n |-> 0, k |-> 0]
      BY <2>5 DEF Advance
    <3>2. Following(g, c) = [m |-> c.m + 1, n |-> 0, k |-> 0]
      BY <2>1, <2>2, <2>5 DEF Following, LastK, LastN
    <3>. QED BY <3>1, <3>2
  <2>. QED BY <1>3, <2>3, <2>4, <2>5
<1>5. CASE Final(g, c)
  <2>1. c_done'
    BY <1>2, <1>3, <1>5
  <2>. QED BY <1>1, <1>5, <2>1 DEF Feeds
<1>6. CASE ~Final(g, c)
  <2>1. ~c_done' /\ ci' = Following(g, c)
    BY <1>2, <1>3, <1>4, <1>6
  <2>. QED BY <1>1, <1>6, <2>1 DEF Feeds
<1>. QED BY <1>5, <1>6

\* A register with a valid bit
Stage(s) == "v" \in DOMAIN s

\* After the last cursor it is empty.
LEMMA Stage0Ends ==
  ASSUME c_done, S0, Stage(s0)
  PROVE  c_done' /\ ~s0.v'
<1>1. s0' = [s0 EXCEPT !.v = FALSE] /\ c_done'
  BY DEF S0
<1>. QED BY <1>1 DEF Stage

\* Stage 1 takes what stage 0 holds, with its operands.
LEMMA Stage1Takes ==
  ASSUME NEW g \in Gemms, q = g, NEW c \in Cursors(g), Holds0(g, c), S1,
         Loaded(ta, g.m * g.k), Loaded(tb, g.k * g.n), Olds(g)
  PROVE  Holds1(g, c)'
<1>1. /\ s0.v = TRUE /\ s0.aa = (c.m * g.k) + c.k /\ s0.bb = (c.k * g.n) + c.n
      /\ s0.cc = (c.m * g.n) + c.n /\ s0.nrem = g.n - c.n /\ s0.wb = (c.k = g.k - 1)
  BY DEF Holds0
<1>2. /\ s1'.v = s0.v /\ s1'.wb = s0.wb /\ s1'.nrem = s0.nrem /\ s1'.cc = s0.cc
      /\ s1'.a = At(ta, s0.aa)
      /\ \A e \in Lanes : s1'.b[e] = At(tb, s0.bb + e) /\ s1'.c[e] = At(tc, s0.cc + e)
  BY DEF S1
<1>3. At(ta, s0.aa) = (c.m * g.k) + c.k
  <2>1. 0 \in Lanes /\ 0 < g.n - c.n
    BY GemmType DEF Lanes, Cursors
  <2>2. (c.m * g.k) + c.k \in Tile /\ (c.m * g.k) + c.k < g.m * g.k
    BY <2>1, WindowPlaces
  <2>. QED BY <1>1, <2>2 DEF At, Loaded
<1>4. ASSUME NEW e \in Lanes, e < g.n - c.n
      PROVE  /\ s1'.b[e] = (c.k * g.n) + c.n + e
             /\ g.acc => s1'.c[e].old = (c.m * g.n) + c.n + e
  <2>1. /\ (c.k * g.n) + c.n + e \in Tile /\ (c.k * g.n) + c.n + e < g.k * g.n
        /\ (c.m * g.n) + c.n + e \in Tile /\ (c.m * g.n) + c.n + e \in 0 .. (g.m * g.n) - 1
    BY <1>4, WindowPlaces
  <2>2. At(tb, (c.k * g.n) + c.n + e) = (c.k * g.n) + c.n + e
    BY <2>1 DEF At, Loaded
  <2>3. g.acc => At(tc, (c.m * g.n) + c.n + e).old = (c.m * g.n) + c.n + e
    BY <2>1 DEF At, Olds
  <2>4. s0.bb + e = (c.k * g.n) + c.n + e /\ s0.cc + e = (c.m * g.n) + c.n + e
    BY <1>1
  <2>. QED BY <1>2, <2>2, <2>3, <2>4
<1>5. s1.v'
  BY <1>1, <1>2
<1>. QED BY <1>1, <1>2, <1>3, <1>4, <1>5 DEF Holds1

\* A tile is a table.
Table(t) == t = [i \in Tile |-> t[i]]

\* Stage 2 with nothing to do
LEMMA Stage2Rests ==
  ASSUME ~s1.v, S2, Table(tc)
  PROVE  tc' = tc /\ \A e \in Lanes : accv'[e] = accv[e]
<1>1. tc' = [i \in Tile |-> tc[i]]
  <2>1. tc' = [i \in Tile |-> IF s1.v /\ s1.wb /\ InWindow(i) THEN Result(i - s1.cc) ELSE tc[i]]
    BY DEF S2
  <2>. QED BY <2>1
<1>. QED BY <1>1 DEF S2, Table

\* What stage 2 adds to a lane of its window, and writes back
LEMMA Stage2Adds ==
  ASSUME NEW g \in Gemms, q = g, NEW c \in Cursors(g), Holds1(g, c), Progress(g, c),
         NEW e \in Lanes, e < g.n - c.n
  PROVE  /\ Sum(e) = Dot(g, c.m, c.n + e, c.k + 1)
         /\ s1.wb => Result(e) = Word(g, c.m, c.n + e)
<1>1. /\ c.m \in Nat /\ c.n + e \in Nat /\ c.k \in Nat /\ c.n \in Nat /\ e \in Nat
      /\ g.k \in Nat /\ g.n \in Nat
  BY GemmType DEF Cursors, Lanes
<1>2. accv[e] = Dot(g, c.m, c.n + e, c.k)
  BY DEF Progress
<1>3. Sum(e) = Append(accv[e], <<(c.m * g.k) + c.k, (c.k * g.n) + c.n + e>>)
  BY DEF Sum, Holds1
<1>4. (c.k * g.n) + c.n + e = (c.k * g.n) + (c.n + e)
  BY <1>1
<1>5. Sum(e) = Dot(g, c.m, c.n + e, c.k + 1)
  <2>1. PICK x \in Nat, r \in Nat, p \in Nat : x = c.n + e /\ r = c.m /\ p = c.k
    BY <1>1
  <2>2. Append(Dot(g, r, x, p), <<(r * g.k) + p, (p * g.n) + x>>) = Dot(g, r, x, p + 1)
    BY DotGrows
  <2>. QED BY <1>2, <1>3, <1>4, <2>1, <2>2
<1>6. s1.wb => c.k + 1 = g.k
  <2>1. s1.wb => c.k = g.k - 1
    BY DEF Holds1
  <2>. QED BY <1>1, <2>1
<1>7. g.acc => s1.c[e].old = (c.m * g.n) + (c.n + e)
  <2>1. (c.m * g.n) + c.n + e = (c.m * g.n) + (c.n + e)
    BY <1>1
  <2>. QED BY <2>1 DEF Holds1
<1>. QED BY <1>5, <1>6, <1>7 DEF Result, Word


\* The pipe's third stage takes its window one product further, and the last
\* product of a window leaves its words golden.
LEMMA Stage2Step ==
  ASSUME NEW g \in Gemms, q = g, NEW c \in Cursors(g), Holds1(g, c), Progress(g, c),
         Olds(g), S2, Table(tc)
  PROVE  /\ Olds(g)'
         /\ Final(g, c) => Complete(g)'
         /\ ~Final(g, c) => Progress(g, Following(g, c))'
<1>1. PICK m \in Nat, n \in Nat, k \in Nat : m = g.m /\ n = g.n /\ k = g.k
  BY GemmType
<1>2. /\ c.m \in 0 .. m - 1 /\ c.n \in 0 .. n - 1 /\ c.k \in 0 .. k - 1
      /\ TileBytes \in Nat /\ LANES \in Nat \ {0} /\ m * n <= TileBytes /\ m * n \in Nat
  BY <1>1, GemmType DEF Cursors
<1>3. s1.v /\ s1.wb = (c.k = k - 1) /\ s1.nrem = n - c.n /\ s1.cc = (c.m * n) + c.n
  BY <1>1 DEF Holds1
<1>4. /\ \A e \in Lanes : accv'[e] = IF s1.wb THEN <<>> ELSE Sum(e)
      /\ \A i \in Tile : tc'[i] = IF s1.wb /\ InWindow(i) THEN Result(i - s1.cc) ELSE tc[i]
  BY <1>3 DEF S2
<1>5. CASE c.k # k - 1
  <2>1. ~Final(g, c) /\ Following(g, c) = [m |-> c.m, n |-> c.n, k |-> c.k + 1]
    BY <1>1, <1>5 DEF Final, Following
  <2>2. tc' = tc
    <3>1. tc' = [i \in Tile |-> tc[i]]
      <4>1. tc' = [i \in Tile |-> IF s1.v /\ s1.wb /\ InWindow(i) THEN Result(i - s1.cc) ELSE tc[i]]
        BY DEF S2
      <4>. QED BY <1>3, <1>5, <4>1
    <3>. QED BY <3>1 DEF Table
  <2>3. ASSUME NEW e \in Lanes, e < g.n - c.n
        PROVE  accv'[e] = Dot(g, c.m, c.n + e, c.k + 1)
    <3>1. Sum(e) = Dot(g, c.m, c.n + e, c.k + 1)
      BY <2>3, Stage2Adds
    <3>. QED BY <1>3, <1>4, <1>5, <3>1
  <2>4. Olds(g)'
    BY <2>2 DEF Olds
  <2>5. \A r \in 0 .. g.m - 1, x \in 0 .. g.n - 1 :
          (r < c.m \/ (r = c.m /\ x < c.n)) => Has(g, r, x)'
    BY <2>2 DEF Progress, Has
  <2>. QED BY <2>1, <2>3, <2>4, <2>5 DEF Progress
<1>6. CASE c.k = k - 1
  <2>1. ASSUME NEW e \in Lanes, e < g.n - c.n
        PROVE  Has(g, c.m, c.n + e)'
    <3>1. (c.m * n) + c.n + e \in Tile
      BY <1>1, <2>1, WindowPlaces
    <3>2. Result(e) = Word(g, c.m, c.n + e)
      BY <1>3, <1>6, <2>1, Stage2Adds
    <3>3. PICK i \in Tile : i = (c.m * n) + c.n + e
      BY <3>1
    <3>4. c.m * n \in Nat /\ e \in Nat /\ c.n \in Nat
      BY <1>2 DEF Lanes
    <3>5. i - s1.cc = e /\ i = (c.m * n) + (c.n + e)
      BY <1>3, <3>3, <3>4
    <3>6. InWindow(i)
      BY <1>1, <1>3, <2>1, <3>5 DEF InWindow
    <3>7. tc'[i] = Result(e)
      BY <1>3, <1>4, <1>6, <3>5, <3>6
    <3>. QED BY <1>1, <3>2, <3>5, <3>7 DEF Has
  <2>2. ASSUME NEW r \in 0 .. g.m - 1, NEW x \in 0 .. g.n - 1,
               r < c.m \/ (r = c.m /\ x < c.n)
        PROVE  Has(g, r, x)'
    <3>1. r \in Nat /\ x \in 0 .. n - 1 /\ r \in 0 .. m - 1
      BY <1>1
    <3>2. PICK i \in 0 .. (m * n) - 1 : i = (r * n) + x
      BY <3>1, PlaceOf
    <3>3. i < s1.cc
      <4>1. CASE r < c.m
        <5>1. (r + 1) * n <= c.m * n /\ (r + 1) * n = (r * n) + n /\ r * n \in Nat /\ c.m * n \in Nat
          <6>1. r + 1 \in Nat /\ c.m \in Nat /\ r + 1 <= c.m
            BY <1>2, <3>1, <4>1
          <6>. QED BY <3>1, <6>1, TimesGrows
        <5>. QED BY <1>2, <1>3, <3>1, <3>2, <5>1
      <4>2. CASE r = c.m /\ x < c.n
        <5>1. r * n \in Nat
          BY <3>1
        <5>. QED BY <1>2, <1>3, <3>1, <3>2, <4>2, <5>1
      <4>. QED BY <2>2, <4>1, <4>2
    <3>4. i \in Tile
      BY <1>2, <3>2 DEF Tile
    <3>5. ~InWindow(i)
      <4>1. c.m * n \in Nat
        BY <1>2
      <4>2. s1.cc \in Int
        BY <1>2, <1>3, <4>1
      <4>3. i - s1.cc < 0
        BY <3>2, <3>3, <4>2
      <4>. QED BY <1>2, <4>3 DEF InWindow, Lanes
    <3>6. tc'[i] = tc[i]
      BY <1>4, <3>4, <3>5
    <3>7. Has(g, r, x)
      BY <2>2 DEF Progress
    <3>. QED BY <1>1, <3>2, <3>6, <3>7 DEF Has
  <2>3. ASSUME NEW r \in 0 .. g.m - 1, NEW x \in 0 .. g.n - 1,
               r < c.m \/ (r = c.m /\ x < c.n + LANES)
        PROVE  Has(g, r, x)'
    <3>1. CASE r < c.m \/ (r = c.m /\ x < c.n)
      BY <2>2, <3>1
    <3>2. CASE r = c.m /\ ~(x < c.n)
      <4>1. PICK e \in Lanes : x = c.n + e /\ e < g.n - c.n
        <5>1. x - c.n \in Lanes /\ x = c.n + (x - c.n) /\ x - c.n < g.n - c.n
          BY <1>1, <1>2, <2>3, <3>2 DEF Lanes
        <5>. QED BY <5>1
      <4>. QED BY <2>1, <3>2, <4>1
    <3>. QED BY <1>2, <2>3, <3>1, <3>2
  <2>4. Olds(g)'
    <3>1. ASSUME g.acc, NEW i \in 0 .. (g.m * g.n) - 1
          PROVE  tc'[i].old = i
      <4>1. i \in Tile /\ i \in Int
        BY <1>1, <1>2 DEF Tile
      <4>2. CASE InWindow(i)
        <5>1. PICK e \in Lanes : e = i - s1.cc /\ e < n - c.n
          BY <1>3, <4>2 DEF InWindow
        <5>2. tc'[i] = Result(e)
          BY <1>3, <1>4, <1>6, <4>1, <4>2, <5>1
        <5>3. Result(e).old = s1.c[e].old
          BY <3>1 DEF Result
        <5>4. s1.c[e].old = (c.m * g.n) + c.n + e
          BY <1>1, <3>1, <5>1 DEF Holds1
        <5>5. c.m * n \in Nat /\ e \in Int /\ c.n \in Nat
          BY <1>2 DEF Lanes
        <5>6. (c.m * g.n) + c.n + e = i
          BY <1>1, <1>3, <4>1, <5>1, <5>5
        <5>. QED BY <5>2, <5>3, <5>4, <5>6
      <4>3. CASE ~InWindow(i)
        <5>1. tc'[i] = tc[i]
          BY <1>4, <4>1, <4>3
        <5>. QED BY <3>1, <5>1 DEF Olds
      <4>. QED BY <4>2, <4>3
    <3>. QED BY <3>1 DEF Olds
  <2>5. \A e \in Lanes : accv'[e] = <<>>
    BY <1>3, <1>4, <1>6
  <2>6. CASE c.n + LANES < n
    <3>1. ~Final(g, c) /\ Following(g, c) = [m |-> c.m, n |-> c.n + LANES, k |-> 0]
      BY <1>1, <1>2, <1>6, <2>6 DEF Final, Following
    <3>2. \A e \in Lanes : accv'[e] = Dot(g, c.m, (c.n + LANES) + e, 0)
      BY <2>5, DotBegins
    <3>. QED BY <2>3, <2>4, <3>1, <3>2 DEF Progress
  <2>7. CASE ~(c.n + LANES < n)
    <3>1. ASSUME NEW r \in 0 .. g.m - 1, NEW x \in 0 .. g.n - 1, r < c.m + 1
          PROVE  Has(g, r, x)'
      <4>1. r < c.m \/ r = c.m
        BY <1>1, <1>2, <3>1
      <4>2. x < c.n + LANES
        BY <1>1, <1>2, <2>7
      <4>. QED BY <2>3, <4>1, <4>2
    <3>2. CASE Final(g, c)
      <4>1. ASSUME NEW r \in 0 .. g.m - 1, NEW x \in 0 .. g.n - 1
            PROVE  Has(g, r, x)'
        <5>1. r < c.m + 1
          BY <1>1, <1>2, <3>2 DEF Final
        <5>. QED BY <3>1, <5>1
      <4>. QED BY <2>4, <3>2, <4>1 DEF Complete
    <3>3. CASE ~Final(g, c)
      <4>1. Following(g, c) = [m |-> c.m + 1, n |-> 0, k |-> 0]
        BY <1>1, <1>6, <2>7 DEF Following
      <4>2. \A r \in 0 .. g.m - 1, x \in 0 .. g.n - 1 :
              (r < c.m + 1 \/ (r = c.m + 1 /\ x < 0)) => Has(g, r, x)'
        BY <3>1
      <4>3. \A e \in Lanes : accv'[e] = Dot(g, c.m + 1, 0 + e, 0)
        BY <2>5, DotBegins
      <4>. QED BY <2>4, <3>3, <4>1, <4>2, <4>3 DEF Progress
    <3>. QED BY <3>2, <3>3
  <2>. QED BY <2>6, <2>7
<1>. QED BY <1>5, <1>6


\* The pipe begins.
Start ==
  ci = First /\ ~c_done /\ ~s0.v /\ ~s1.v /\ \A e \in Lanes : accv[e] = <<>>

\* What the pipe is about: one cursor in stage 0, two, the last in stage 1,
\* and none.
One(g, c) == c \in Cursors(g) /\ ~s1.v /\ Holds0(g, c) /\ Progress(g, c) /\ Feeds(g, c)
Two(g, c) ==
  /\ c \in Cursors(g) /\ ~Final(g, c)
  /\ Holds1(g, c) /\ Progress(g, c)
  /\ Holds0(g, Following(g, c)) /\ Feeds(g, Following(g, c))
Ending(g, c) ==
  c \in Cursors(g) /\ Final(g, c) /\ Holds1(g, c) /\ Progress(g, c) /\ c_done /\ ~s0.v
Ended(g) == c_done /\ ~s0.v /\ ~s1.v /\ Complete(g)
Pipe(g) ==
  \/ Start
  \/ \E c \in Cursors(g) : One(g, c) \/ Two(g, c) \/ Ending(g, c)
  \/ Ended(g)

\* What every step of the pipe needs and keeps
Operands(g) ==
  /\ Loaded(ta, g.m * g.k) /\ Loaded(tb, g.k * g.n) /\ Olds(g)
  /\ Table(tc) /\ Stage(s0) /\ Stage(s1)

\* Nothing is behind the first cursor.
LEMMA FirstProgress ==
  ASSUME NEW g \in Gemms, \A e \in Lanes : accv[e] = <<>>
  PROVE  First \in Cursors(g) /\ Progress(g, First)
<1>1. /\ 0 \in 0 .. g.m - 1 /\ 0 \in 0 .. g.n - 1 /\ 0 \in 0 .. g.k - 1
  BY GemmType
<1>2. First.m = 0 /\ First.n = 0 /\ First.k = 0 /\ First \in Cursors(g)
  BY <1>1 DEF First, Cursors
<1>3. \A e \in Lanes : accv[e] = Dot(g, 0, 0 + e, 0)
  BY DotBegins
<1>4. \A r \in 0 .. g.m - 1, x \in 0 .. g.n - 1 : ~(r < 0 \/ (r = 0 /\ x < 0))
  OBVIOUS
<1>. QED BY <1>2, <1>3, <1>4 DEF Progress

\* Progress, while nothing is added
LEMMA ProgressRests ==
  ASSUME NEW g, NEW c, Progress(g, c), Olds(g),
         tc' = tc, \A e \in Lanes : accv'[e] = accv[e]
  PROVE  Progress(g, c)' /\ Olds(g)'
  BY DEF Progress, Has, Olds

\* Stage 1 passes an empty stage 0 on.
LEMMA Stage1Empty ==
  ASSUME S1, ~s0.v
  PROVE  ~s1.v'
  BY DEF S1

\* Every step of the pipe keeps what it is about.
LEMMA PipeStep ==
  ASSUME NEW g \in Gemms, q = g, Pipe(g), Operands(g), S0, S1, S2,
         UNCHANGED <<ta, tb>>
  PROVE  Pipe(g)' /\ Operands(g)'
<1>1. Table(tc)' /\ Stage(s0)' /\ Stage(s1)'
  <2>1. tc' = [i \in Tile |-> tc'[i]]
    BY DEF S2
  <2>2. "v" \in DOMAIN s0'
    <3>1. Stage(s0)
      BY DEF Operands
    <3>. QED BY <3>1 DEF S0, Stage
  <2>3. "v" \in DOMAIN s1'
    BY DEF S1
  <2>. QED BY <2>1, <2>2, <2>3 DEF Table, Stage
<1>2. Loaded(ta, g.m * g.k)' /\ Loaded(tb, g.k * g.n)'
  BY DEF Operands, Loaded
<1>3. Loaded(ta, g.m * g.k) /\ Loaded(tb, g.k * g.n) /\ Olds(g) /\ Table(tc) /\ Stage(s0)
  BY DEF Operands
<1>4. ASSUME ~s1.v
      PROVE  Olds(g)' /\ \A c : Progress(g, c) => Progress(g, c)'
  <2>1. tc' = tc /\ \A e \in Lanes : accv'[e] = accv[e]
    BY <1>3, <1>4, Stage2Rests
  <2>2. Olds(g)'
    BY <1>3, <2>1 DEF Olds
  <2>. QED BY <1>3, <2>1, <2>2, ProgressRests
<1>5. CASE Start
  <2>1. PICK c \in Cursors(g) : c = First /\ Progress(g, c)
    BY <1>5, FirstProgress DEF Start
  <2>2. Holds0(g, c)' /\ Feeds(g, c)'
    BY <1>5, <2>1, Stage0Takes DEF Start
  <2>3. ~s1.v'
    BY <1>5, Stage1Empty DEF Start
  <2>4. Olds(g)' /\ Progress(g, c)'
    BY <1>4, <1>5, <2>1 DEF Start
  <2>5. One(g, c)'
    BY <2>1, <2>2, <2>3, <2>4 DEF One
  <2>. QED BY <1>1, <1>2, <2>4, <2>5 DEF Pipe, Operands
<1>6. ASSUME NEW c \in Cursors(g), One(g, c)
      PROVE  Pipe(g)' /\ Operands(g)'
  <2>1. Holds1(g, c)'
    BY <1>3, <1>6, Stage1Takes DEF One
  <2>2. Olds(g)' /\ Progress(g, c)'
    BY <1>4, <1>6 DEF One
  <2>3. CASE Final(g, c)
    <3>1. c_done' /\ ~s0.v'
      BY <1>3, <1>6, <2>3, Stage0Ends DEF One, Feeds
    <3>2. Ending(g, c)'
      BY <2>1, <2>2, <2>3, <3>1 DEF Ending
    <3>. QED BY <1>1, <1>2, <2>2, <3>2 DEF Pipe, Operands
  <2>4. CASE ~Final(g, c)
    <3>1. PICK d \in Cursors(g) : d = Following(g, c)
      BY <2>4, FollowingType
    <3>2. Holds0(g, d)' /\ Feeds(g, d)'
      BY <1>6, <2>4, <3>1, Stage0Takes DEF One, Feeds
    <3>3. Two(g, c)'
      BY <2>1, <2>2, <2>4, <3>1, <3>2 DEF Two
    <3>. QED BY <1>1, <1>2, <2>2, <3>3 DEF Pipe, Operands
  <2>. QED BY <2>3, <2>4
<1>7. ASSUME NEW b \in Cursors(g), Two(g, b)
      PROVE  Pipe(g)' /\ Operands(g)'
  <2>1. PICK c \in Cursors(g) : c = Following(g, b)
    BY <1>7, FollowingType DEF Two
  <2>2. Holds1(g, c)'
    BY <1>3, <1>7, <2>1, Stage1Takes DEF Two
  <2>3. Olds(g)' /\ Progress(g, c)'
    BY <1>3, <1>7, <2>1, Stage2Step DEF Two
  <2>4. CASE Final(g, c)
    <3>1. c_done' /\ ~s0.v'
      BY <1>3, <1>7, <2>1, <2>4, Stage0Ends DEF Two, Feeds
    <3>2. Ending(g, c)'
      BY <2>2, <2>3, <2>4, <3>1 DEF Ending
    <3>. QED BY <1>1, <1>2, <2>3, <3>2 DEF Pipe, Operands
  <2>5. CASE ~Final(g, c)
    <3>1. PICK d \in Cursors(g) : d = Following(g, c)
      BY <2>5, FollowingType
    <3>2. Holds0(g, d)' /\ Feeds(g, d)'
      BY <1>7, <2>1, <2>5, <3>1, Stage0Takes DEF Two, Feeds
    <3>3. Two(g, c)'
      BY <2>2, <2>3, <2>5, <3>1, <3>2 DEF Two
    <3>. QED BY <1>1, <1>2, <2>3, <3>3 DEF Pipe, Operands
  <2>. QED BY <2>4, <2>5
<1>8. ASSUME NEW c \in Cursors(g), Ending(g, c)
      PROVE  Pipe(g)' /\ Operands(g)'
  <2>1. Olds(g)' /\ Complete(g)'
    BY <1>3, <1>8, Stage2Step DEF Ending
  <2>2. c_done' /\ ~s0.v' /\ ~s1.v'
    BY <1>3, <1>8, Stage0Ends, Stage1Empty DEF Ending
  <2>3. Ended(g)'
    BY <2>1, <2>2 DEF Ended
  <2>. QED BY <1>1, <1>2, <2>1, <2>3 DEF Pipe, Operands
<1>9. CASE Ended(g)
  <2>1. tc' = tc
    BY <1>3, <1>9, Stage2Rests DEF Ended
  <2>2. Olds(g)' /\ Complete(g)'
    BY <1>3, <1>9, <2>1 DEF Ended, Olds, Complete, Has
  <2>3. c_done' /\ ~s0.v' /\ ~s1.v'
    BY <1>3, <1>9, Stage0Ends, Stage1Empty DEF Ended
  <2>4. Ended(g)'
    BY <2>2, <2>3 DEF Ended
  <2>. QED BY <1>1, <1>2, <2>2, <2>4 DEF Pipe, Operands
<1>. QED BY <1>5, <1>6, <1>7, <1>8, <1>9 DEF Pipe

\* A drained pipe has made the product, and rests.
LEMMA PipeDrained ==
  ASSUME NEW g \in Gemms, Pipe(g), Operands(g), Drained, S2
  PROVE  Complete(g) /\ Complete(g)' /\ Table(tc)'
<1>1. \A c \in Cursors(g) : ~One(g, c) /\ ~Two(g, c) /\ ~Ending(g, c)
  BY DEF Drained, One, Two, Ending, Holds0, Holds1
<1>2. Ended(g)
  BY <1>1 DEF Pipe, Start, Drained
<1>3. tc' = tc
  BY <1>2, Stage2Rests DEF Ended, Operands
<1>. QED BY <1>2, <1>3 DEF Ended, Complete, Has, Operands, Table


-----------------------------------------------------------------------------
(* Loads *)

\* The reads of an operand
Beats(from) == [j \in Nat |-> Read(from, j)]

\* The state of a load: the beats answered are placed, all but the last.
Loading(from, words) ==
  /\ idx \in 0 .. words /\ rix \in 0 .. words
  /\ Flow(Beats(from), rix + Bit(m_rsp_valid), idx)
  /\ m_rsp_valid => rsp = Read(from, rix) /\ rix < words
  /\ out = <<>>

\* The first r words of a tile are the operand's.
Filling(tile, r) == \A i \in Tile : i \div WordBytes < r => tile[i] = i

\* Reads are a stream.
LEMMA BeatsStream ==
  ASSUME NEW from
  PROVE  Stream0(Beats(from), {Read(from, j) : j \in Nat})
         /\ \A j \in Nat : Beats(from)[j] = Read(from, j) /\ Beats(from)[j].kind = "read"
<1>1. Beats(from) \in [Nat -> {Read(from, j) : j \in Nat}]
  BY DEF Beats
<1>2. \A j \in Nat : NoBeat # Read(from, j)
  BY DEF NoBeat, Read
<1>3. \A j \in Nat : Read(from, j).kind = "read"
  BY DEF Read
<1>. QED BY <1>1, <1>2, <1>3 DEF Stream0, Beats

\* The ends of a stretch
LEMMA FlowEnds ==
  ASSUME NEW F, NEW lo \in Nat, NEW hi \in Nat, Flow(F, lo, hi)
  PROVE  lo <= hi
<1>1. PICK p \in Nat : lo <= p /\ (hi = p + 1 \/ hi = p)
  BY DEF Flow
<1>. QED BY <1>1

\* A load goes on, or ends with everything placed and nothing on its way.
LEMMA LoadStep ==
  ASSUME NEW from, NEW words \in Nat, Loading(from, words), total = words, st # "IDLE",
         NEW go, NEW respond \in BOOLEAN, Memory(go, respond), Credit,
         Stream(Read(from, idx))
  PROVE  /\ ~Leaves => Loading(from, words)' /\ rix' = rix + Bit(m_rsp_valid)
         /\ Leaves => /\ Quiet' /\ idx' = 0 /\ rix' = 0 /\ out' = <<>>
                      /\ ~m_rsp_valid /\ rix = words
<1>1. ~Starts(go)
  BY DEF Starts
<1>2. PICK lo \in Nat, v \in {0, 1} : lo = rix + v /\ v = Bit(m_rsp_valid) /\ (m_rsp_valid <=> v = 1)
  <2>1. PICK v \in {0, 1} : v = Bit(m_rsp_valid) /\ (m_rsp_valid <=> v = 1)
    BY DEF Bit
  <2>2. rix + v \in Nat
    BY DEF Loading
  <2>. QED BY <2>1, <2>2
<1>3. PICK hi, F : /\ hi \in 0 .. words /\ hi = idx /\ hi \in Nat
                   /\ F = Beats(from) /\ Flow(F, lo, hi)
  BY <1>2 DEF Loading
<1>4. PICK T : Stream0(F, T) /\ \A j \in Nat : F[j] = Read(from, j) /\ F[j].kind = "read"
  BY <1>3, BeatsStream
<1>5. CASE Leaves
  <2>1. lo = idx /\ Quiet
    BY <1>3, <1>4, <1>5, FlowFull DEF Leaves
  <2>2. idx = words
    BY <1>5 DEF Leaves
  <2>3. req' = NoBeat /\ idx' = 0 /\ rix' = 0
    BY <1>5 DEF Stream, Issues, Leaves
  <2>4. Quiet' /\ out' = out
    BY <1>1, <2>1, <2>3, QuietStep
  <2>5. ~m_rsp_valid
    BY <2>1 DEF Quiet
  <2>. QED BY <1>2, <1>5, <2>1, <2>2, <2>3, <2>4, <2>5 DEF Loading
<1>6. CASE ~Leaves
  <2>1. PICK i \in BOOLEAN : i = Issues
    BY DEF Issues
  <2>2. req' = IF i THEN F[hi] ELSE NoBeat
    BY <1>3, <1>4, <2>1 DEF Stream
  <2>3. i => cred_nxt # 0 /\ hi # words
    BY <1>3, <2>1 DEF Issues
  <2>4. PICK acts \in BOOLEAN :
          Serves(F, lo, hi, go, acts) /\ Flow(F, lo + Bit(acts), hi + Bit(i))'
    BY <1>3, <1>4, <2>2, <2>3, FlowStep
  <2>5. idx' = hi + Bit(i) /\ rix' = lo
    BY <1>2, <1>3, <1>6, <2>1 DEF Stream, Bit, Loading
  <2>6. hi + Bit(i) \in 0 .. words
    BY <1>3, <2>3 DEF Bit
  <2>7. rsp' = IF acts THEN Read(from, lo) ELSE NoBeat
    BY <1>4, <2>4 DEF Serves
  <2>8. m_rsp_valid' = acts
    <3>1. Read(from, lo) # NoBeat
      BY DEF Read, NoBeat
    <3>. QED BY <2>7, <3>1 DEF m_rsp_valid
  <2>9. Flow(Beats(from), rix + Bit(m_rsp_valid), idx)'
    <3>1. PICK l1, h1 : l1 = lo + Bit(acts) /\ h1 = hi + Bit(i)
      OBVIOUS
    <3>2. rix' + Bit(m_rsp_valid') = l1 /\ idx' = h1
      BY <2>5, <2>8, <3>1
    <3>3. Flow(F, l1, h1)'
      BY <2>4, <3>1
    <3>4. Flow(F, rix + Bit(m_rsp_valid), idx)'
      BY <3>2, <3>3 DEF Flow, Bit
    <3>. QED BY <1>3, <3>4
  <2>10. lo <= hi /\ (acts => lo < hi)
    BY <1>3, <2>4, FlowEnds DEF Serves
  <2>11. out' = <<>>
    <3>1. Effect(F[lo]) = out
      <4>1. PICK b : b = F[lo] /\ b.kind = "read"
        BY <1>4
      <4>2. Effect(b) = out
        BY <4>1 DEF Effect
      <4>. QED BY <4>1, <4>2
    <3>2. out' = IF acts THEN Effect(F[lo]) ELSE out
      BY <1>1, <2>4 DEF Serves
    <3>. QED BY <3>1, <3>2 DEF Loading
  <2>12. rix' \in 0 .. words /\ (acts => rix' < words)
    BY <1>3, <2>5, <2>10
  <2>13. m_rsp_valid' => rsp' = Read(from, rix') /\ rix' < words
    BY <2>5, <2>7, <2>8, <2>12
  <2>14. idx' \in 0 .. words
    BY <2>5, <2>6
  <2>15. Loading(from, words)'
    BY <2>9, <2>11, <2>12, <2>13, <2>14 DEF Loading
  <2>. QED BY <1>2, <1>6, <2>5, <2>15
<1>. QED BY <1>5, <1>6

\* A word of a tile is placed where it belongs.
LEMMA FillStep ==
  ASSUME NEW from, NEW tile, Filling(tile, rix), rix \in Nat, m_rsp_valid => rsp = Read(from, rix)
  PROVE  Filling(LoadBytes(tile), rix + Bit(m_rsp_valid))
<1>1. ASSUME NEW i \in Tile, i \div WordBytes < rix + Bit(m_rsp_valid)
      PROVE  LoadBytes(tile)[i] = i
  <2>1. i \in Int /\ WordBytes \in Nat \ {0}
    BY SizesAssumption DEF Tile
  <2>2. PICK a \in Int, b \in Int : a = i \div WordBytes /\ b = i % WordBytes /\ i = WordBytes * a + b
    <3>1. PICK w \in Nat \ {0}, x \in Int : w = WordBytes /\ x = i
      BY <2>1
    <3>2. x = w * (x \div w) + (x % w) /\ x % w \in Int /\ x \div w \in Int
      BY Quotient
    <3>. QED BY <3>1, <3>2
  <2>3. CASE m_rsp_valid /\ a = rix
    <3>1. rsp.index = rix
      BY <2>3 DEF Read
    <3>2. LoadBytes(tile)[i] = (rsp.index * WordBytes) + b
      BY <2>2, <2>3 DEF LoadBytes, Placed
    <3>3. (a * WordBytes) + b = i
      BY <2>1, <2>2
    <3>. QED BY <2>3, <3>1, <3>2, <3>3
  <2>4. CASE ~(m_rsp_valid /\ a = rix)
    <3>1. LoadBytes(tile)[i] = tile[i]
      BY <2>2, <2>4 DEF LoadBytes, Placed
    <3>2. a < rix
      BY <1>1, <2>2, <2>4 DEF Bit
    <3>. QED BY <2>2, <3>1, <3>2 DEF Filling
  <2>. QED BY <2>3, <2>4
<1>. QED BY <1>1 DEF Filling

\* The words of n bytes hold the first n bytes.
LEMMA WordsCover ==
  ASSUME NEW n \in Nat, NEW i \in 0 .. n - 1
  PROVE  i \div WordBytes < WordsOf(n)
<1>1. WordBytes \in Nat \ {0}
  BY SizesAssumption
<1>2. PICK w \in Nat \ {0} : w = WordBytes
  BY <1>1
<1>3. PICK a \in Int, r \in 0 .. w - 1 : a = i \div w /\ i = w * a + r
  BY Quotient
<1>4. PICK b \in Int, s \in 0 .. w - 1 : b = (n + w - 1) \div w /\ n + w - 1 = w * b + s
  BY Quotient
<1>5. a < b
  <2>1. ASSUME a >= b PROVE FALSE
    <3>1. PICK d \in Nat : a = b + d
      <4>1. a - b \in Nat /\ a = b + (a - b)
        BY <2>1
      <4>. QED BY <4>1
    <3>2. w * a = (w * b) + (w * d) /\ w * d \in Nat /\ w * b \in Int
      BY <3>1
    <3>. QED BY <1>3, <1>4, <3>2
  <2>. QED BY <2>1
<1>. QED BY <1>2, <1>3, <1>4, <1>5 DEF WordsOf

\* A number of words is a number.
LEMMA WordsType ==
  ASSUME NEW n \in Nat
  PROVE  WordsOf(n) \in Nat
<1>1. PICK w \in Nat \ {0} : w = WordBytes
  BY SizesAssumption
<1>2. PICK b \in Int, s \in 0 .. w - 1 : b = (n + w - 1) \div w /\ n + w - 1 = w * b + s
  BY Quotient
<1>3. b >= 0
  <2>1. ASSUME b < 0 PROVE FALSE
    <3>1. PICK d \in Nat : b = -1 - d
      <4>1. -1 - b \in Nat /\ b = -1 - (-1 - b)
        BY <2>1
      <4>. QED BY <4>1
    <3>2. w * b = - w - (w * d) /\ w * d \in Nat
      BY <3>1
    <3>. QED BY <1>2, <3>2
  <2>. QED BY <2>1
<1>. QED BY <1>1, <1>2, <1>3 DEF WordsOf

\* A tile is loaded when its words are there.
LEMMA TileLoaded ==
  ASSUME NEW tile, NEW n \in Nat, Filling(tile, WordsOf(n))
  PROVE  Loaded(tile, n)
<1>1. ASSUME NEW i \in Tile, i < n
      PROVE  tile[i] = i
  <2>1. i \in 0 .. n - 1
    BY <1>1, SizesAssumption DEF Tile
  <2>. QED BY <2>1, WordsCover DEF Filling
<1>. QED BY <1>1 DEF Loaded


-----------------------------------------------------------------------------
(* Stores *)

\* The first n words, or bytes, of the golden result G
Written(G, n) == [i \in 0 .. n - 1 |-> G[i]]

\* The words of the product g
GoldenWords(g) ==
  [i \in Nat |->
     [old |-> IF g.acc THEN i ELSE NoOld,
      sum |-> [j \in 1 .. g.k |->
                 <<((i \div g.n) * g.k) + j - 1, ((j - 1) * g.n) + (i % g.n)>>]]]

\* What the engine stores
Stores(g) == [j \in Nat |-> Write(j, GoldenWords(g)[j])]

\* The state of the store: every beat answered has written its word.
Storing(g) ==
  /\ idx \in 0 .. (g.m * g.n)
  /\ \E lo \in Nat : Flow(Stores(g), lo, idx) /\ out = Written(GoldenWords(g), lo)

\* The pipe's word is the golden's.
LEMMA WordIsGolden ==
  ASSUME NEW g \in Gemms, NEW r \in 0 .. g.m - 1, NEW x \in 0 .. g.n - 1
  PROVE  Word(g, r, x) = GoldenWords(g)[(r * g.n) + x]
<1>1. PICK h \in Nat, w \in Nat, k \in Nat : h = g.m /\ w = g.n /\ k = g.k
  BY GemmType
<1>2. PICK i \in Nat : i = (r * w) + x /\ i \div w = r /\ i % w = x
  <2>1. r \in 0 .. h - 1 /\ x \in 0 .. w - 1
    BY <1>1
  <2>2. (r * w) + x \in 0 .. (h * w) - 1 /\ ((r * w) + x) \div w = r /\ ((r * w) + x) % w = x
    BY <2>1, PlaceOf
  <2>. QED BY <2>2
<1>3. Dot(g, r, x, k) = [j \in 1 .. k |-> <<(r * k) + j - 1, ((j - 1) * w) + x>>]
  <2>1. PICK F : F = Products(g, r, x)
    OBVIOUS
  <2>2. \A j \in 1 .. k : F[0 + j - 1] = <<(r * k) + j - 1, ((j - 1) * w) + x>>
    <3>1. ASSUME NEW j \in 1 .. k
          PROVE  F[0 + j - 1] = <<(r * k) + j - 1, ((j - 1) * w) + x>>
      <4>1. PICK p \in Nat : p = j - 1 /\ p = 0 + j - 1
        OBVIOUS
      <4>2. F[p] = <<(r * k) + p, (p * w) + x>>
        BY <1>1, <2>1 DEF Products
      <4>3. r * k \in Nat /\ (r * k) + p = (r * k) + j - 1
        BY <1>1, <4>1
      <4>. QED BY <4>1, <4>2, <4>3
    <3>. QED BY <3>1
  <2>3. Dot(g, r, x, k) = [j \in 1 .. k |-> F[0 + j - 1]]
    BY <2>1 DEF Dot, Run
  <2>. QED BY <2>2, <2>3
<1>4. GoldenWords(g)[i]
      = [old |-> IF g.acc THEN i ELSE NoOld,
         sum |-> [j \in 1 .. k |-> <<(r * k) + j - 1, ((j - 1) * w) + x>>]]
  BY <1>1, <1>2 DEF GoldenWords
<1>. QED BY <1>1, <1>2, <1>3, <1>4 DEF Word

\* A complete product in the tile
LEMMA CompleteIsGolden ==
  ASSUME NEW g \in Gemms, Complete(g), NEW i \in 0 .. (g.m * g.n) - 1
  PROVE  tc[i] = GoldenWords(g)[i]
<1>1. g.m \in Nat /\ g.n \in Nat
  BY GemmType
<1>2. PICK r \in 0 .. g.m - 1, x \in 0 .. g.n - 1 : i = (r * g.n) + x
  BY <1>1, RowAndColumn
<1>3. tc[(r * g.n) + x] = Word(g, r, x)
  BY DEF Complete, Has
<1>. QED BY <1>2, <1>3, WordIsGolden

\* The places S are those from n to h - 1, and hold d.
Stretch(G, n, h, S, d) == n <= h /\ S = n .. h - 1 /\ \A i \in S : G[i] = d

\* A write of the next words, or bytes
LEMMA PutGrows ==
  ASSUME NEW G, NEW n \in Nat, NEW h \in Nat, out = Written(G, n), NEW S, NEW d,
         Stretch(G, n, h, S, d)
  PROVE  WriteAt(S, d) = Written(G, h)
<1>. USE DEF Stretch
<1>1. DOMAIN out = 0 .. n - 1 /\ \A i \in 0 .. n - 1 : out[i] = G[i]
  BY DEF Written
<1>2. (0 .. n - 1) \union S = 0 .. h - 1
  OBVIOUS
<1>3. WriteAt(S, d) = [i \in 0 .. h - 1 |-> IF i \in S THEN d ELSE out[i]]
  BY <1>1, <1>2 DEF WriteAt
<1>4. \A i \in 0 .. h - 1 : (IF i \in S THEN d ELSE out[i]) = G[i]
  BY <1>1, <1>2
<1>. QED BY <1>3, <1>4 DEF Written

\* A write says where and what.
LEMMA WriteFields ==
  ASSUME NEW i, NEW d
  PROVE  /\ Write(i, d).kind = "write" /\ Write(i, d).index = i /\ Write(i, d).data = d
         /\ Write(i, d) # NoBeat
<1>1. Write(i, d).kind = "write" /\ Write(i, d).index = i /\ Write(i, d).data = d
  BY DEF Write
<1>2. NoBeat.kind = "none"
  BY DEF NoBeat
<1>. QED BY <1>1, <1>2

\* The store goes on, or ends with the golden product written.
LEMMA StoreStep ==
  ASSUME NEW g \in Gemms, q = g, Complete(g), Storing(g), total = g.m * g.n,
         NEW go, NEW respond \in BOOLEAN, Memory(go, respond), Credit, ST_C
  PROVE  /\ ~Leaves => Storing(g)'
         /\ Leaves => Quiet' /\ idx' = idx /\ out' = Written(GoldenWords(g), g.m * g.n)
<1>1. ~Starts(go)
  BY DEF Starts, ST_C
<1>2. PICK words \in Nat : words = g.m * g.n
  BY GemmType
<1> PICK hi \in 0 .. words, lo \in Nat :
      hi = idx /\ Flow(Stores(g), lo, hi) /\ out = Written(GoldenWords(g), lo)
  BY <1>2 DEF Storing
<1> PICK G, F : G = GoldenWords(g) /\ F = Stores(g)
  OBVIOUS
<1>3. /\ hi = idx /\ hi \in Nat /\ G = GoldenWords(g) /\ F = Stores(g)
      /\ Flow(F, lo, hi) /\ out = Written(G, lo)
  OBVIOUS
<1>4. \A j \in Nat : F[j] = Write(j, G[j])
  BY <1>3 DEF Stores
<1>5. Stream0(F, {F[j] : j \in Nat})
  <2>1. \A j \in Nat : F[j] # NoBeat
    BY <1>4, WriteFields
  <2>2. F \in [Nat -> {F[j] : j \in Nat}]
    BY <1>3 DEF Stores
  <2>. QED BY <2>1, <2>2 DEF Stream0
<1>6. CASE Leaves
  <2>1. lo = hi /\ Quiet
    BY <1>3, <1>5, <1>6, FlowFull DEF Leaves
  <2>2. hi = words
    BY <1>2, <1>3, <1>6 DEF Leaves
  <2>3. req' = NoBeat /\ idx' = idx
    BY <1>6 DEF ST_C, Issues, Leaves
  <2>4. Quiet' /\ out' = out
    BY <1>1, <2>1, <2>3, QuietStep
  <2>. QED BY <1>2, <1>3, <1>6, <2>1, <2>2, <2>3, <2>4
<1>7. CASE ~Leaves
  <2>1. PICK i \in BOOLEAN : i = Issues
    BY DEF Issues
  <2>2. i => cred_nxt # 0 /\ hi # words
    BY <1>2, <1>3, <2>1 DEF Issues
  <2>3. req' = IF i THEN F[hi] ELSE NoBeat
    <3>1. i => tc[hi] = G[hi]
      <4>1. i => hi \in 0 .. (g.m * g.n) - 1
        BY <1>2, <2>2
      <4>. QED BY <1>3, <4>1, CompleteIsGolden
    <3>2. req' = IF i THEN Write(hi, tc[hi]) ELSE NoBeat
      BY <1>3, <2>1 DEF ST_C
    <3>. QED BY <1>3, <1>4, <3>1, <3>2
  <2>4. PICK acts \in BOOLEAN :
          Serves(F, lo, hi, go, acts) /\ Flow(F, lo + Bit(acts), hi + Bit(i))'
    BY <1>3, <1>5, <2>2, <2>3, FlowStep
  <2>5. idx' = hi + Bit(i) /\ hi + Bit(i) \in 0 .. words
    BY <1>3, <2>1, <2>2 DEF ST_C, Bit
  <2>6. PICK l \in Nat : l = lo + Bit(acts)
    BY DEF Bit
  <2>7. out' = Written(G, l)
    <3>1. CASE acts
      <4>1. out' = Effect(F[lo])
        BY <1>1, <2>4, <3>1 DEF Serves
      <4>2. PICK b : b = F[lo] /\ b.kind = "write" /\ b.index = lo /\ b.data = G[lo]
        BY <1>4, WriteFields
      <4>3. Effect(b) = WriteAt({lo}, G[lo])
        BY <4>2, GemmType DEF Effect
      <4>4. l = lo + 1
        BY <2>6, <3>1 DEF Bit
      <4>5. {lo} = lo .. l - 1
        BY <4>4
      <4>6. WriteAt({lo}, G[lo]) = Written(G, l)
        <5>1. lo <= l /\ \A j \in lo .. l - 1 : G[j] = G[lo]
          BY <4>4
        <5>2. PICK S, d : S = {lo} /\ d = G[lo]
          OBVIOUS
        <5>3. WriteAt(S, d) = Written(G, l)
          <6>1. Stretch(G, lo, l, S, d)
            BY <4>5, <5>1, <5>2 DEF Stretch
          <6>. QED BY <1>3, <6>1, PutGrows
        <5>. QED BY <5>2, <5>3
      <4>. QED BY <4>1, <4>2, <4>3, <4>6
    <3>2. CASE ~acts
      <4>1. out' = out /\ l = lo
        BY <1>1, <2>4, <2>6, <3>2 DEF Serves, Bit
      <4>. QED BY <1>3, <4>1
    <3>. QED BY <3>1, <3>2
  <2>8. Flow(F, l, idx)'
    <3>1. PICK h1 : h1 = hi + Bit(i)
      OBVIOUS
    <3>2. Flow(F, l, h1)'
      BY <2>4, <2>6, <3>1
    <3>. QED BY <2>5, <3>1, <3>2 DEF Flow
  <2>9. idx' \in 0 .. words
    BY <2>5
  <2>10. Storing(g)'
    BY <1>2, <1>3, <2>7, <2>8, <2>9 DEF Storing
  <2>. QED BY <1>7, <2>10
<1>. QED BY <1>6, <1>7


-----------------------------------------------------------------------------
(* Lookups *)

\* A stream of one beat
Only(b) == [j \in Nat |-> b]

\* The engine will ask b, waits for its answer, or has it on the wires.
Awaits(b) ==
  \/ ~pend /\ Quiet
  \/ pend /\ ~m_rsp_valid /\ Flow(Only(b), 0, 1)
  \/ pend /\ m_rsp_valid /\ rsp = b /\ Flow(Only(b), 1, 1)

\* The entries of the table that the lookups g ask for, and their places
Entries(g) == [i \in Nat |-> i \div Width(g)]

\* Lookup by lookup: before a word is read,
Reading(g) ==
  /\ idx \in Nat /\ idx * WordBytes < g.m
  /\ Awaits(Read("A", idx))
  /\ out = Written(Entries(g), Width(g) * (idx * WordBytes))

\* and while an element is stored.
Entering(g) ==
  /\ idx \in Nat /\ lut.sub \in 0 .. WordBytes - 1 /\ Element < g.m
  /\ lut.byte = Element
  /\ Awaits(Write(LutBytes, Element))
  /\ out = Written(Entries(g), Width(g) * (Element + Bit(m_rsp_valid)))

\* A beat is asked once, and its answer leaves nothing behind.
LEMMA AwaitStep ==
  ASSUME NEW b, b # NoBeat, Awaits(b), st # "IDLE",
         NEW go, NEW respond \in BOOLEAN, Memory(go, respond), Credit,
         req' = IF MayIssue THEN b ELSE NoBeat,
         pend' = (~m_rsp_valid /\ (pend \/ MayIssue))
  PROVE  /\ m_rsp_valid => rsp = b /\ Quiet' /\ ~pend' /\ out' = out
         /\ ~m_rsp_valid => Awaits(b)' /\ out' = IF m_rsp_valid' THEN Effect(b) ELSE out
<1>1. ~Starts(go)
  BY DEF Starts
<1> PICK F : F = Only(b)
  OBVIOUS
<1>2. Stream0(F, {b}) /\ F[0] = b /\ F[1] = b
  BY DEF Stream0, Only
<1>3. CASE ~pend /\ Quiet
  <2>1. MayIssue /\ ~m_rsp_valid /\ cred_nxt # 0
    BY <1>3, SizesAssumption DEF MayIssue, Quiet, cred_nxt
  <2>2. Flow(F, 0, 0)
    BY <1>3, FlowBegins
  <2>3. PICK i \in BOOLEAN, h \in Nat : i = TRUE /\ h = 0
    OBVIOUS
  <2>4. req' = IF i THEN F[h] ELSE NoBeat
    BY <1>2, <2>1, <2>3
  <2>5. PICK acts \in BOOLEAN :
          Serves(F, h, h, go, acts) /\ Flow(F, h + Bit(acts), h + Bit(i))'
    BY <1>2, <2>1, <2>2, <2>3, <2>4, FlowStep
  <2>6. ~acts /\ rsp' = NoBeat /\ out' = out
    BY <1>1, <2>5 DEF Serves
  <2>7. h + Bit(acts) = 0 /\ h + Bit(i) = 1
    BY <2>3, <2>6 DEF Bit
  <2>8. Flow(F, 0, 1)'
    BY <2>5, <2>7
  <2>9. pend' /\ ~m_rsp_valid'
    BY <2>1, <2>6 DEF m_rsp_valid
  <2>. QED BY <2>1, <2>6, <2>8, <2>9 DEF Awaits
<1>4. CASE pend /\ ~m_rsp_valid /\ Flow(F, 0, 1)
  <2>1. req' = NoBeat /\ pend'
    BY <1>4 DEF MayIssue
  <2>2. PICK i \in BOOLEAN, l \in Nat, h \in Nat : i = FALSE /\ l = 0 /\ h = 1
    OBVIOUS
  <2>3. PICK acts \in BOOLEAN :
          Serves(F, l, h, go, acts) /\ Flow(F, l + Bit(acts), h + Bit(i))'
    <3>1. Flow(F, l, h) /\ (i => cred_nxt # 0) /\ req' = IF i THEN F[h] ELSE NoBeat
      BY <1>4, <2>1, <2>2
    <3>. QED BY <1>2, <3>1, FlowStep
  <2>4. CASE acts
    <3>1. rsp' = b /\ out' = Effect(b)
      BY <1>1, <1>2, <2>2, <2>3, <2>4 DEF Serves
    <3>2. m_rsp_valid'
      BY <3>1 DEF m_rsp_valid
    <3>3. l + Bit(acts) = 1 /\ h + Bit(i) = 1
      BY <2>2, <2>4 DEF Bit
    <3>4. Flow(F, 1, 1)'
      BY <2>3, <3>3
    <3>. QED BY <1>4, <2>1, <3>1, <3>2, <3>4 DEF Awaits
  <2>5. CASE ~acts
    <3>1. rsp' = NoBeat /\ out' = out
      BY <1>1, <2>3, <2>5 DEF Serves
    <3>2. ~m_rsp_valid'
      BY <3>1 DEF m_rsp_valid
    <3>3. l + Bit(acts) = 0 /\ h + Bit(i) = 1
      BY <2>2, <2>5 DEF Bit
    <3>4. Flow(F, 0, 1)'
      BY <2>3, <3>3
    <3>. QED BY <1>4, <2>1, <3>1, <3>2, <3>4 DEF Awaits
  <2>. QED BY <2>4, <2>5
<1>5. CASE pend /\ m_rsp_valid /\ rsp = b /\ Flow(F, 1, 1)
  <2>1. req' = NoBeat /\ ~pend'
    BY <1>5 DEF MayIssue
  <2>2. PICK i \in BOOLEAN, h \in Nat : i = FALSE /\ h = 1
    OBVIOUS
  <2>3. PICK acts \in BOOLEAN :
          Serves(F, h, h, go, acts) /\ Flow(F, h + Bit(acts), h + Bit(i))'
    <3>1. Flow(F, h, h) /\ (i => cred_nxt # 0) /\ req' = IF i THEN F[h] ELSE NoBeat
      BY <1>5, <2>1, <2>2
    <3>. QED BY <1>2, <3>1, FlowStep
  <2>4. ~acts /\ rsp' = NoBeat /\ out' = out
    BY <1>1, <2>3 DEF Serves
  <2>5. h + Bit(acts) = 1 /\ h + Bit(i) = 1
    BY <2>2, <2>4 DEF Bit
  <2>6. Flow(F, 1, 1)'
    BY <2>3, <2>5
  <2>7. ~m_req' /\ ~m_rsp_valid'
    BY <2>1, <2>4 DEF m_req, m_rsp_valid
  <2>8. Quiet'
    <3>1. Run(F, 1, 1) = <<>>
      BY DEF Run
    <3>2. owed' = <<>>
      BY <2>6, <2>7, <3>1 DEF Flow
    <3>3. Pool'
      BY <2>6 DEF Flow
    <3>4. cred' = CRED
      <4>1. Len(owed') = 0 /\ Bit(m_rsp_valid') = 0
        BY <2>7, <3>2 DEF Bit
      <4>2. cred' \in Int /\ cred' + Len(owed') + Bit(m_rsp_valid') = CRED
        BY <3>3, SizesAssumption DEF Pool, Bit
      <4>. QED BY <4>1, <4>2
    <3>. QED BY <2>7, <3>2, <3>4 DEF Quiet
  <2>. QED BY <1>5, <2>1, <2>4, <2>8
<1>. QED BY <1>3, <1>4, <1>5 DEF Awaits

\* The fields of a lookup
LEMMA LookupType ==
  ASSUME NEW g \in Lookups
  PROVE  /\ g.m \in Nat \ {0} /\ g.op \in {"narrow", "wide"} /\ Width(g) \in {1, 2}
         /\ g.op # "gemm" /\ WordBytes \in Nat \ {0}
  BY SizesAssumption DEF Lookups, Sizes, Width

\* A write of element e writes its entry.
LEMMA EntryWritten ==
  ASSUME NEW g \in Lookups, q = g, NEW e \in Nat, Element = e,
         out = Written(Entries(g), Width(g) * e)
  PROVE  Effect(Write(LutBytes, e)) = Written(Entries(g), Width(g) * (e + 1))
<1> PICK n \in Nat, h \in Nat :
      n = Width(g) * e /\ h = Width(g) * (e + 1)
  <2>1. Width(g) * e \in Nat /\ Width(g) * (e + 1) \in Nat
    BY LookupType
  <2>. QED BY <2>1
<1> PICK G, S : G = Entries(g) /\ S = n .. h - 1
  OBVIOUS
<1> PICK b, s : s = LutBytes /\ b = Write(s, e)
  OBVIOUS
<1>1. b.kind = "write" /\ b.index = s /\ b.data = e
  BY WriteFields
<1>2. {s[j] : j \in DOMAIN s} = S
  <2>1. CASE g.op = "narrow"
    <3>1. s = <<e>> /\ n = e /\ h = e + 1
      BY <2>1 DEF LutBytes, Width
    <3>2. DOMAIN s = {1} /\ s[1] = e
      BY <3>1
    <3>3. {s[j] : j \in DOMAIN s} = {e}
      BY <3>2
    <3>. QED BY <3>1, <3>3
  <2>2. CASE g.op = "wide"
    <3>1. s = <<2 * e, (2 * e) + 1>> /\ n = 2 * e /\ h = (2 * e) + 2
      BY <2>2 DEF LutBytes, Width
    <3>2. DOMAIN s = {1, 2} /\ s[1] = 2 * e /\ s[2] = (2 * e) + 1
      BY <3>1
    <3>3. {s[j] : j \in DOMAIN s} = {2 * e, (2 * e) + 1}
      BY <3>2
    <3>. QED BY <3>1, <3>3
  <2>. QED BY <2>1, <2>2, LookupType
<1>3. Effect(b) = WriteAt({s[j] : j \in DOMAIN s}, e)
  BY <1>1, LookupType DEF Effect
<1>4. Stretch(G, n, h, S, e)
  <2>1. ASSUME NEW i \in S
        PROVE  G[i] = e
    <3>1. i \in Nat
      OBVIOUS
    <3>2. G[i] = i \div Width(g)
      BY <3>1 DEF Entries
    <3>3. CASE Width(g) = 1
      BY <3>1, <3>2, <3>3
    <3>4. CASE Width(g) = 2
      BY <3>1, <3>2, <3>4
    <3>. QED BY <3>3, <3>4, LookupType
  <2>2. n <= h
    BY LookupType
  <2>. QED BY <2>1, <2>2 DEF Stretch
<1>5. WriteAt(S, e) = Written(G, h)
  BY <1>4, PutGrows
<1>. QED BY <1>2, <1>3, <1>5


-----------------------------------------------------------------------------
(* The inductive invariant, phase by phase *)

PhaseA(g) ==
  total = WordsOf(g.m * g.k) /\ Loading("A", WordsOf(g.m * g.k)) /\ Filling(ta, rix)
PhaseB(g) ==
  /\ total = WordsOf(g.k * g.n) /\ Loading("B", WordsOf(g.k * g.n))
  /\ Loaded(ta, g.m * g.k) /\ Filling(tb, rix)
PhaseC(g) ==
  /\ g.acc /\ total = g.m * g.n /\ Loading("C", g.m * g.n)
  /\ Loaded(ta, g.m * g.k) /\ Loaded(tb, g.k * g.n) /\ Start
  /\ \A i \in 0 .. rix - 1 : tc[i].old = i
PhaseM(g) ==
  Quiet /\ idx = 0 /\ rix = 0 /\ total \in Nat /\ out = <<>> /\ Pipe(g) /\ Operands(g)
PhaseS(g) == rix = 0 /\ total = g.m * g.n /\ Complete(g) /\ Storing(g)
PhaseL(g) == rix = 0 /\ total = WordsOf(g.m) /\ Reading(g)
PhaseT(g) == rix = 0 /\ total = WordsOf(g.m) /\ Entering(g)

\* The registers have their form.
Shape == Table(tc) /\ Stage(s0) /\ Stage(s1)

AtRest == Quiet /\ total \in Nat /\ idx \in 0 .. total /\ rix \in 0 .. total
Finished == out = IF q.op = "gemm" THEN GoldenProduct(q) ELSE GoldenLookup(q)

Multiplies(g) ==
  /\ q = g
  /\ \/ st = "LD_A" /\ PhaseA(g)
     \/ st = "LD_B" /\ PhaseB(g)
     \/ st = "LD_C0" /\ PhaseC(g)
     \/ st = "COMP" /\ PhaseM(g)
     \/ st = "ST_C" /\ PhaseS(g)
LooksUp(g) ==
  /\ q = g
  /\ \/ st = "LUT_LD" /\ PhaseL(g)
     \/ st = "LUT_ST" /\ PhaseT(g)

IInv ==
  /\ Shape
  /\ \/ st = "IDLE" /\ AtRest
     \/ st = "DONE" /\ AtRest /\ Finished
     \/ \E g \in Gemms : Multiplies(g)
     \/ \E g \in Lookups : LooksUp(g)

\* When nothing is on its way every stream may begin, and every wait.
LEMMA Begins ==
  ASSUME Quiet', NEW F
  PROVE  Flow(F, 0, 0)' /\ Flow(F, 0 + Bit(m_rsp_valid), 0)' /\ ~m_rsp_valid'
<1>1. Run(F, 0, 0) = <<>>
  BY DEF Run
<1>2. Len(owed') = 0 /\ CRED \in Nat
  BY SizesAssumption DEF Quiet
<1>3. Pool'
  BY <1>2 DEF Quiet, Pool, Bit
<1>4. Flow(F, 0, 0)' /\ ~m_rsp_valid'
  BY <1>1, <1>3 DEF Quiet, Flow
<1>5. 0 + Bit(m_rsp_valid') = 0
  BY <1>4 DEF Bit
<1>6. Flow(F, 0 + Bit(m_rsp_valid), 0)'
  BY <1>4, <1>5 DEF Flow
<1>. QED BY <1>4, <1>6

\* A load begins.
LEMMA LoadingBegins ==
  ASSUME Quiet', idx' = 0, rix' = 0, out' = <<>>, NEW from, NEW words \in Nat
  PROVE  Loading(from, words)'
<1> PICK F : F = Beats(from)
  OBVIOUS
<1>1. Flow(F, 0 + Bit(m_rsp_valid), 0)' /\ ~m_rsp_valid'
  BY Begins
<1>2. Flow(F, rix + Bit(m_rsp_valid), idx)'
  BY <1>1 DEF Flow
<1>3. 0 \in 0 .. words
  OBVIOUS
<1>. QED BY <1>1, <1>2, <1>3 DEF Loading

\* Nothing of a tile is needed before its first word.
LEMMA FillingBegins ==
  ASSUME NEW tile
  PROVE  Filling(tile, 0)
<1>1. ASSUME NEW i \in Tile
      PROVE  ~(i \div WordBytes < 0)
  <2>1. PICK w \in Nat \ {0}, x \in Nat : w = WordBytes /\ x = i
    BY SizesAssumption DEF Tile
  <2>2. x \div w >= 0
    <3>1. PICK a \in Int, r \in 0 .. w - 1 : a = x \div w /\ x = w * a + r
      BY Quotient
    <3>2. ASSUME a < 0 PROVE FALSE
      <4>1. PICK d \in Nat : a = -1 - d
        <5>1. -1 - a \in Nat /\ a = -1 - (-1 - a)
          BY <3>2
        <5>. QED BY <5>1
      <4>2. w * a = - w - (w * d) /\ w * d \in Nat
        BY <4>1
      <4>. QED BY <3>1, <4>2
    <3>. QED BY <3>1, <3>2
  <2>. QED BY <2>1, <2>2
<1>. QED BY <1>1 DEF Filling

\* An empty result
LEMMA WrittenNone ==
  ASSUME NEW G
  PROVE  Written(G, 0) = <<>>
  BY DEF Written

\* The load of A
LEMMA StepA ==
  ASSUME Shape, NEW g \in Gemms, q = g, PhaseA(g), LD_A,
         NEW go, NEW respond \in BOOLEAN, Memory(go, respond), Credit
  PROVE  Shape' /\ Multiplies(g)'
<1>1. g.m * g.k \in Nat /\ g.k * g.n \in Nat
  BY GemmType
<1>2. PICK words \in Nat : words = WordsOf(g.m * g.k)
  BY <1>1, WordsType
<1>3. Shape' /\ q' = g
  BY DEF LD_A, Shape, pipe
<1>4. st # "IDLE" /\ Stream(Read("A", idx)) /\ ta' = LoadBytes(ta)
  BY DEF LD_A
<1>5. total = words /\ Loading("A", words) /\ Filling(ta, rix)
  BY <1>2 DEF PhaseA
<1>6. Filling(ta', rix + Bit(m_rsp_valid))
  BY <1>4, <1>5, FillStep DEF Loading
<1>7. CASE Leaves
  <2>1. /\ Quiet' /\ idx' = 0 /\ rix' = 0 /\ out' = <<>>
        /\ ~m_rsp_valid /\ rix = words
    BY <1>4, <1>5, <1>7, LoadStep
  <2>2. Loaded(ta', g.m * g.k)
    <3>1. rix + Bit(m_rsp_valid) = WordsOf(g.m * g.k)
      BY <1>2, <2>1 DEF Bit
    <3>. QED BY <1>1, <1>6, <3>1, TileLoaded
  <2>3. st' = "LD_B" /\ total' = WordsOf(g.k * g.n)
    BY <1>7 DEF LD_A
  <2>4. Loading("B", WordsOf(g.k * g.n))'
    <3>1. PICK w \in Nat : w = WordsOf(g.k * g.n)
      BY <1>1, WordsType
    <3>2. Loading("B", w)'
      BY <2>1, LoadingBegins
    <3>. QED BY <3>1, <3>2
  <2>5. Filling(tb', rix')
    BY <2>1, FillingBegins
  <2>6. PhaseB(g)'
    BY <2>2, <2>3, <2>4, <2>5 DEF PhaseB
  <2>. QED BY <1>3, <2>3, <2>6 DEF Multiplies
<1>8. CASE ~Leaves
  <2>1. Loading("A", words)' /\ rix' = rix + Bit(m_rsp_valid)
    BY <1>4, <1>5, <1>8, LoadStep
  <2>2. Filling(ta', rix')
    BY <1>6, <2>1
  <2>3. st' = "LD_A" /\ total' = words
    BY <1>5, <1>8 DEF LD_A
  <2>4. PhaseA(g)'
    BY <1>2, <2>1, <2>2, <2>3 DEF PhaseA
  <2>. QED BY <1>3, <2>3, <2>4 DEF Multiplies
<1>. QED BY <1>7, <1>8

\* The load of B: the pipe is reset when it ends.
LEMMA StepB ==
  ASSUME Shape, NEW g \in Gemms, q = g, PhaseB(g), LD_B,
         NEW go, NEW respond \in BOOLEAN, Memory(go, respond), Credit
  PROVE  Shape' /\ Multiplies(g)'
<1>1. g.m * g.k \in Nat /\ g.k * g.n \in Nat /\ g.m * g.n \in Nat
  BY GemmType
<1>2. PICK words \in Nat : words = WordsOf(g.k * g.n)
  BY <1>1, WordsType
<1>3. q' = g /\ tc' = tc /\ ta' = ta
  BY DEF LD_B
<1>4. st # "IDLE" /\ Stream(Read("B", idx)) /\ tb' = LoadBytes(tb)
  BY DEF LD_B
<1>5. total = words /\ Loading("B", words) /\ Filling(tb, rix) /\ Loaded(ta, g.m * g.k)
  BY <1>2 DEF PhaseB
<1>6. Filling(tb', rix + Bit(m_rsp_valid))
  BY <1>4, <1>5, FillStep DEF Loading
<1>7. Loaded(ta', g.m * g.k)
  BY <1>3, <1>5
<1>8. CASE Leaves
  <2>1. /\ Quiet' /\ idx' = 0 /\ rix' = 0 /\ out' = <<>>
        /\ ~m_rsp_valid /\ rix = words
    BY <1>4, <1>5, <1>8, LoadStep
  <2>2. Loaded(tb', g.k * g.n)
    <3>1. rix + Bit(m_rsp_valid) = WordsOf(g.k * g.n)
      BY <1>2, <2>1 DEF Bit
    <3>. QED BY <1>1, <1>6, <3>1, TileLoaded
  <2>3. /\ ci' = [m |-> 0, n |-> 0, k |-> 0]
        /\ s0' = [s0 EXCEPT !.v = FALSE]
        /\ s1' = [s1 EXCEPT !.v = FALSE]
        /\ c_done' = FALSE
        /\ accv' = [e \in Lanes |-> <<>>]
        /\ total' = IF g.acc THEN g.m * g.n ELSE total
        /\ st' = IF g.acc THEN "LD_C0" ELSE "COMP"
    BY <1>8 DEF LD_B
  <2>4. Shape' /\ Start'
    BY <1>3, <2>3 DEF Shape, Stage, Start, First
  <2>5. CASE g.acc
    <3>1. Loading("C", g.m * g.n)'
      <4>1. PICK w \in Nat : w = g.m * g.n
        BY <1>1
      <4>2. Loading("C", w)'
        BY <2>1, LoadingBegins
      <4>. QED BY <4>1, <4>2
    <3>2. \A i \in 0 .. rix' - 1 : tc'[i].old = i
      BY <2>1
    <3>3. PhaseC(g)'
      BY <1>7, <2>2, <2>3, <2>4, <2>5, <3>1, <3>2 DEF PhaseC
    <3>. QED BY <1>3, <2>3, <2>4, <2>5, <3>3 DEF Multiplies
  <2>6. CASE ~g.acc
    <3>1. Operands(g)'
      BY <1>7, <2>2, <2>4, <2>6 DEF Operands, Olds, Shape
    <3>2. PhaseM(g)'
      BY <1>5, <2>1, <2>3, <2>4, <2>6, <3>1 DEF PhaseM, Pipe
    <3>. QED BY <1>3, <2>3, <2>4, <2>6, <3>2 DEF Multiplies
  <2>. QED BY <2>5, <2>6
<1>9. CASE ~Leaves
  <2>1. Loading("B", words)' /\ rix' = rix + Bit(m_rsp_valid)
    BY <1>4, <1>5, <1>9, LoadStep
  <2>2. Filling(tb', rix')
    BY <1>6, <2>1
  <2>3. st' = "LD_B" /\ total' = words /\ UNCHANGED pipe
    BY <1>5, <1>9 DEF LD_B
  <2>4. PhaseB(g)'
    BY <1>2, <1>7, <2>1, <2>2, <2>3 DEF PhaseB
  <2>5. Shape'
    BY <1>3, <2>3 DEF Shape, pipe
  <2>. QED BY <1>3, <2>3, <2>4, <2>5 DEF Multiplies
<1>. QED BY <1>8, <1>9


\* The load of C, the old words
LEMMA StepC ==
  ASSUME Shape, NEW g \in Gemms, q = g, PhaseC(g), LD_C0,
         NEW go, NEW respond \in BOOLEAN, Memory(go, respond), Credit
  PROVE  Shape' /\ Multiplies(g)'
<1>1. PICK words \in Nat : words = g.m * g.n /\ words <= TileBytes
  BY GemmType
<1>2. q' = g /\ ta' = ta /\ tb' = tb /\ UNCHANGED pipe /\ total' = total
  BY DEF LD_C0
<1>3. st # "IDLE" /\ Stream(Read("C", idx))
  BY DEF LD_C0
<1>4. /\ total = words /\ Loading("C", words) /\ Start /\ g.acc
      /\ Loaded(ta, g.m * g.k) /\ Loaded(tb, g.k * g.n)
      /\ \A i \in 0 .. rix - 1 : tc[i].old = i
  BY <1>1 DEF PhaseC
<1>5. tc' = IF m_rsp_valid THEN [tc EXCEPT ![rix] = [old |-> rsp.index, sum |-> <<>>]] ELSE tc
  BY DEF LD_C0, Placed
<1>6. m_rsp_valid => rix \in Tile /\ rsp.index = rix
  BY <1>1, <1>4, SizesAssumption DEF Loading, Tile, Read
<1>7. DOMAIN tc = Tile /\ Table(tc)
  <2>1. Table(tc)
    BY DEF Shape
  <2>. QED BY <2>1 DEF Table
<1>8. Shape'
  <2>1. Table(tc')
    <3>1. CASE m_rsp_valid
      <4>1. PICK v : v = [old |-> rsp.index, sum |-> <<>>]
        OBVIOUS
      <4>2. tc' = [tc EXCEPT ![rix] = v]
        BY <1>5, <3>1, <4>1
      <4>3. tc' = [i \in Tile |-> tc'[i]]
        BY <1>7, <4>2
      <4>. QED BY <4>3 DEF Table
    <3>2. CASE ~m_rsp_valid
      BY <1>5, <1>7, <3>2
    <3>. QED BY <3>1, <3>2
  <2>. QED BY <1>2, <2>1 DEF Shape, pipe
<1>9. rix \in Nat
  BY <1>4 DEF Loading
<1>10. ASSUME NEW i \in 0 .. (rix + Bit(m_rsp_valid)) - 1
       PROVE  tc'[i].old = i
  <2>1. CASE m_rsp_valid /\ i = rix
    BY <1>5, <1>6, <1>7, <2>1
  <2>2. CASE ~(m_rsp_valid /\ i = rix)
    <3>1. i \in 0 .. rix - 1
      BY <1>9, <1>10, <2>2 DEF Bit
    <3>2. tc'[i] = tc[i]
      <4>1. CASE m_rsp_valid
        <5>1. i # rix /\ i \in Tile
          BY <1>6, <1>9, <3>1, <4>1, SizesAssumption DEF Tile
        <5>. QED BY <1>5, <1>7, <4>1, <5>1
      <4>2. CASE ~m_rsp_valid
        BY <1>5, <4>2
      <4>. QED BY <4>1, <4>2
    <3>. QED BY <1>4, <3>1, <3>2
  <2>. QED BY <2>1, <2>2
<1>11. Loaded(ta', g.m * g.k) /\ Loaded(tb', g.k * g.n) /\ Start'
  BY <1>2, <1>4 DEF Start, pipe
<1>12. CASE Leaves
  <2>1. /\ Quiet' /\ idx' = 0 /\ rix' = 0 /\ out' = <<>>
        /\ ~m_rsp_valid /\ rix = words
    BY <1>3, <1>4, <1>12, LoadStep
  <2>2. Olds(g)'
    <3>1. rix + Bit(m_rsp_valid) = words
      BY <2>1 DEF Bit
    <3>. QED BY <1>1, <1>10, <3>1 DEF Olds
  <2>3. Operands(g)'
    BY <1>8, <1>11, <2>2 DEF Operands, Shape
  <2>4. st' = "COMP" /\ total' \in Nat
    BY <1>2, <1>4, <1>12 DEF LD_C0
  <2>5. PhaseM(g)'
    BY <1>11, <2>1, <2>3, <2>4 DEF PhaseM, Pipe
  <2>. QED BY <1>2, <1>8, <2>4, <2>5 DEF Multiplies
<1>13. CASE ~Leaves
  <2>1. Loading("C", words)' /\ rix' = rix + Bit(m_rsp_valid)
    BY <1>3, <1>4, <1>13, LoadStep
  <2>2. \A i \in 0 .. rix' - 1 : tc'[i].old = i
    BY <1>10, <2>1
  <2>3. st' = "LD_C0"
    BY <1>13 DEF LD_C0
  <2>4. PhaseC(g)'
    BY <1>1, <1>2, <1>4, <1>11, <2>1, <2>2 DEF PhaseC
  <2>. QED BY <1>2, <1>8, <2>3, <2>4 DEF Multiplies
<1>. QED BY <1>12, <1>13

\* The multiplication
LEMMA StepM ==
  ASSUME Shape, NEW g \in Gemms, q = g, PhaseM(g), COMP,
         NEW go, NEW respond \in BOOLEAN, Memory(go, respond), Credit
  PROVE  Shape' /\ Multiplies(g)'
<1>1. S0 /\ S1 /\ S2 /\ UNCHANGED <<ta, tb>> /\ q' = g /\ rix' = rix /\ req' = NoBeat /\ st = "COMP"
  BY DEF COMP
<1>2. Quiet /\ idx = 0 /\ rix = 0 /\ total \in Nat /\ out = <<>> /\ Pipe(g) /\ Operands(g)
  BY DEF PhaseM
<1>3. ~Starts(go)
  BY <1>1 DEF Starts
<1>4. Quiet' /\ out' = <<>>
  BY <1>1, <1>2, <1>3, QuietStep
<1>5. Pipe(g)' /\ Operands(g)'
  BY <1>1, <1>2, PipeStep
<1>6. Shape'
  BY <1>5 DEF Shape, Operands
<1>7. g.m * g.n \in Nat
  BY GemmType
<1>8. CASE Drained
  <2>1. Complete(g)'
    BY <1>1, <1>2, <1>8, PipeDrained
  <2>2. idx' = 0 /\ total' = g.m * g.n /\ st' = "ST_C"
    BY <1>8 DEF COMP
  <2>3. Storing(g)'
    <3>1. PICK F, G : F = Stores(g) /\ G = GoldenWords(g)
      OBVIOUS
    <3>2. Flow(F, 0, 0)'
      BY <1>4, Begins
    <3>3. Flow(F, 0, idx)'
      BY <2>2, <3>2 DEF Flow
    <3>4. out' = Written(G, 0)
      BY <1>4, WrittenNone
    <3>5. idx' \in 0 .. (g.m * g.n) /\ 0 \in Nat
      BY <1>7, <2>2
    <3>. QED BY <3>1, <3>3, <3>4, <3>5 DEF Storing
  <2>4. PhaseS(g)'
    BY <1>1, <1>2, <2>1, <2>2, <2>3 DEF PhaseS
  <2>. QED BY <1>1, <1>6, <2>2, <2>4 DEF Multiplies
<1>9. CASE ~Drained
  <2>1. idx' = 0 /\ total' = total /\ st' = "COMP"
    BY <1>1, <1>2, <1>9 DEF COMP
  <2>2. PhaseM(g)'
    BY <1>1, <1>2, <1>4, <1>5, <2>1 DEF PhaseM
  <2>. QED BY <1>1, <1>6, <2>1, <2>2 DEF Multiplies
<1>. QED BY <1>8, <1>9

\* The store of the product: when it ends the command is done.
LEMMA StepS ==
  ASSUME Shape, NEW g \in Gemms, q = g, PhaseS(g), ST_C,
         NEW go, NEW respond \in BOOLEAN, Memory(go, respond), Credit
  PROVE  Shape' /\ (Multiplies(g)' \/ (st = "DONE" /\ AtRest /\ Finished)')
<1>1. q' = g /\ rix' = rix /\ total' = total /\ tc' = tc /\ UNCHANGED pipe
  BY DEF ST_C
<1>2. rix = 0 /\ total = g.m * g.n /\ Complete(g) /\ Storing(g)
  BY DEF PhaseS
<1>3. Shape'
  BY <1>1 DEF Shape, pipe
<1>4. PICK words \in Nat : words = g.m * g.n
  BY GemmType
<1>5. CASE Leaves
  <2>1. Quiet' /\ idx' = idx /\ out' = Written(GoldenWords(g), g.m * g.n)
    BY <1>2, <1>5, StoreStep
  <2>2. st' = "DONE"
    BY <1>5 DEF ST_C
  <2>3. GoldenProduct(g) = Written(GoldenWords(g), g.m * g.n)
    <3>1. \A i \in 0 .. words - 1 :
            GoldenWords(g)[i]
            = [old |-> IF g.acc THEN i ELSE NoOld,
               sum |-> [j \in 1 .. g.k |->
                          <<((i \div g.n) * g.k) + j - 1, ((j - 1) * g.n) + (i % g.n)>>]]
      BY DEF GoldenWords
    <3>. QED BY <1>4, <3>1 DEF GoldenProduct, Written
  <2>4. Finished'
    <3>1. g.op = "gemm"
      BY GemmType
    <3>. QED BY <1>1, <2>1, <2>3, <3>1 DEF Finished
  <2>5. total' \in Nat /\ idx' \in 0 .. total' /\ rix' \in 0 .. total'
    BY <1>1, <1>2, <1>4, <2>1 DEF Storing
  <2>. QED BY <1>3, <2>1, <2>2, <2>4, <2>5 DEF AtRest
<1>6. CASE ~Leaves
  <2>1. Storing(g)'
    BY <1>2, <1>6, StoreStep
  <2>2. Complete(g)'
    BY <1>1, <1>2 DEF Complete, Has
  <2>3. st' = "ST_C"
    BY <1>6 DEF ST_C
  <2>4. PhaseS(g)'
    BY <1>1, <1>2, <2>1, <2>2 DEF PhaseS
  <2>. QED BY <1>1, <1>3, <2>3, <2>4 DEF Multiplies
<1>. QED BY <1>5, <1>6


\* The places of an element
LEMMA WordOfElement ==
  ASSUME NEW g \in Lookups, NEW i \in Nat, i * WordBytes < g.m
  PROVE  i \in 0 .. WordsOf(g.m)
<1>1. PICK w \in Nat \ {0}, n \in Nat : w = WordBytes /\ n = g.m
  BY LookupType
<1>2. PICK x \in Nat : x = i * w
  BY <1>1
<1>3. x \in 0 .. n - 1
  BY <1>1, <1>2
<1>4. x \div w = i
  <2>1. i + 1 \in Nat /\ i \in 0 .. (i + 1) - 1 /\ 0 \in 0 .. w - 1
    OBVIOUS
  <2>2. ((i * w) + 0) \div w = i
    BY <2>1, PlaceOf
  <2>. QED BY <1>2, <2>2
<1>5. x \div WordBytes < WordsOf(n)
  BY <1>3, WordsCover
<1>6. WordsOf(n) \in Nat
  BY WordsType
<1>. QED BY <1>1, <1>4, <1>5, <1>6

\* The read of a word of elements
LEMMA StepL ==
  ASSUME Shape, NEW g \in Lookups, q = g, PhaseL(g), LUT_LD,
         NEW go, NEW respond \in BOOLEAN, Memory(go, respond), Credit
  PROVE  Shape' /\ LooksUp(g)'
<1>1. /\ q' = g /\ idx' = idx /\ rix' = rix /\ total' = total /\ tc' = tc /\ UNCHANGED pipe
      /\ st # "IDLE"
      /\ req' = IF MayIssue THEN Read("A", idx) ELSE NoBeat
      /\ pend' = (~m_rsp_valid /\ (pend \/ MayIssue))
  BY DEF LUT_LD
<1>2. /\ rix = 0 /\ total = WordsOf(g.m) /\ idx \in Nat /\ idx * WordBytes < g.m
      /\ Awaits(Read("A", idx))
      /\ out = Written(Entries(g), Width(g) * (idx * WordBytes))
  BY DEF PhaseL, Reading
<1>3. Shape'
  BY <1>1 DEF Shape, pipe
<1>4. PICK b : b = Read("A", idx)
  OBVIOUS
<1>5. b # NoBeat /\ b.kind = "read" /\ b.index = idx
  BY <1>4 DEF Read, NoBeat
<1>6. Effect(b) = out
  BY <1>5 DEF Effect
<1>7. /\ m_rsp_valid => rsp = b /\ Quiet' /\ ~pend' /\ out' = out
      /\ ~m_rsp_valid => Awaits(b)' /\ out' = IF m_rsp_valid' THEN Effect(b) ELSE out
  BY <1>1, <1>2, <1>4, <1>5, AwaitStep
<1>8. CASE m_rsp_valid
  <2>1. st' = "LUT_ST" /\ lut' = [byte |-> idx * WordBytes, sub |-> 0]
    BY <1>5, <1>7, <1>8 DEF LUT_LD
  <2>2. PICK e \in Nat : e = idx * WordBytes
    BY <1>2, LookupType
  <2>3. Element' = e /\ lut'.byte = e /\ lut'.sub = 0
    BY <1>1, <2>1, <2>2 DEF Element
  <2>4. Awaits(Write(LutBytes, Element))'
    BY <1>7, <1>8 DEF Awaits
  <2>5. ~m_rsp_valid'
    BY <1>7, <1>8 DEF Quiet
  <2>6. out' = Written(Entries(g), Width(g) * (Element' + Bit(m_rsp_valid')))
    <3>1. Element' + Bit(m_rsp_valid') = e
      BY <2>3, <2>5 DEF Bit
    <3>. QED BY <1>2, <1>7, <1>8, <2>2, <3>1
  <2>7. 0 \in 0 .. WordBytes - 1
    BY LookupType
  <2>8. Entering(g)'
    BY <1>1, <1>2, <2>2, <2>3, <2>4, <2>6, <2>7 DEF Entering
  <2>9. PhaseT(g)'
    BY <1>1, <1>2, <2>8 DEF PhaseT
  <2>. QED BY <1>1, <1>3, <2>1, <2>9 DEF LooksUp
<1>9. CASE ~m_rsp_valid
  <2>1. st' = "LUT_LD"
    BY <1>9 DEF LUT_LD
  <2>2. Awaits(b)' /\ out' = out
    BY <1>6, <1>7, <1>9
  <2>3. Awaits(Read("A", idx))'
    <3>1. b = Read("A", idx')
      BY <1>1, <1>4
    <3>. QED BY <2>2, <3>1 DEF Awaits
  <2>4. Reading(g)'
    BY <1>1, <1>2, <2>2, <2>3 DEF Reading
  <2>5. PhaseL(g)'
    BY <1>1, <1>2, <2>4 DEF PhaseL
  <2>. QED BY <1>1, <1>3, <2>1, <2>5 DEF LooksUp
<1>. QED BY <1>8, <1>9

\* The store of an element: the next of its word, the next word, or the end
LEMMA StepT ==
  ASSUME Shape, NEW g \in Lookups, q = g, PhaseT(g), LUT_ST,
         NEW go, NEW respond \in BOOLEAN, Memory(go, respond), Credit
  PROVE  Shape' /\ (LooksUp(g)' \/ (st = "DONE" /\ AtRest /\ Finished)')
<1>1. /\ q' = g /\ rix' = rix /\ total' = total /\ tc' = tc /\ UNCHANGED pipe
      /\ st # "IDLE"
      /\ req' = IF MayIssue THEN Write(LutBytes, lut.byte) ELSE NoBeat
      /\ pend' = (~m_rsp_valid /\ (pend \/ MayIssue))
  BY DEF LUT_ST
<1>2. /\ rix = 0 /\ total = WordsOf(g.m)
      /\ idx \in Nat /\ lut.sub \in 0 .. WordBytes - 1 /\ Element < g.m
      /\ lut.byte = Element
      /\ Awaits(Write(LutBytes, Element))
      /\ out = Written(Entries(g), Width(g) * (Element + Bit(m_rsp_valid)))
  BY DEF PhaseT, Entering
<1>3. Shape'
  BY <1>1 DEF Shape, pipe
<1>4. /\ WordBytes \in Nat \ {0} /\ g.m \in Nat /\ Width(g) \in Nat /\ g.op # "gemm"
  BY LookupType
<1>5. PICK e \in Nat : e = Element /\ e = (idx * WordBytes) + lut.sub
  <2>1. idx * WordBytes \in Nat
    BY <1>2, <1>4
  <2>. QED BY <1>2, <2>1 DEF Element
<1>6. PICK b : b = Write(LutBytes, e)
  OBVIOUS
<1>7. b # NoBeat
  BY <1>6, WriteFields
<1>8. /\ m_rsp_valid => rsp = b /\ Quiet' /\ ~pend' /\ out' = out
      /\ ~m_rsp_valid => Awaits(b)' /\ out' = IF m_rsp_valid' THEN Effect(b) ELSE out
  BY <1>1, <1>2, <1>5, <1>6, <1>7, AwaitStep
<1>9. /\ lut' = IF m_rsp_valid /\ ~(e + 1 >= g.m) /\ ~(lut.sub = WordBytes - 1)
                THEN [byte |-> lut.byte + 1, sub |-> lut.sub + 1] ELSE lut
      /\ idx' = IF m_rsp_valid /\ ~(e + 1 >= g.m) /\ lut.sub = WordBytes - 1 THEN idx + 1 ELSE idx
      /\ st' = CASE m_rsp_valid /\ e + 1 >= g.m -> "DONE"
                 [] m_rsp_valid /\ ~(e + 1 >= g.m) /\ lut.sub = WordBytes - 1 -> "LUT_LD"
                 [] OTHER -> st
      /\ st = "LUT_ST"
  BY <1>5 DEF LUT_ST
<1>10. CASE m_rsp_valid
  <2>1. Quiet' /\ ~pend' /\ ~m_rsp_valid' /\ out' = Written(Entries(g), Width(g) * (e + 1))
    <3>1. Element + Bit(m_rsp_valid) = e + 1
      BY <1>5, <1>10 DEF Bit
    <3>. QED BY <1>2, <1>8, <1>10, <3>1 DEF Quiet
  <2>2. CASE e + 1 >= g.m
    <3>1. st' = "DONE" /\ idx' = idx
      BY <1>9, <1>10, <2>2
    <3>2. e + 1 = g.m
      BY <1>2, <1>4, <1>5, <2>2
    <3>3. GoldenLookup(g) = Written(Entries(g), Width(g) * g.m)
      <4>1. PICK n \in Nat : n = Width(g) * g.m
        BY <1>4
      <4>2. \A i \in 0 .. n - 1 : Entries(g)[i] = i \div Width(g)
        BY DEF Entries
      <4>. QED BY <4>1, <4>2 DEF GoldenLookup, Written
    <3>4. Finished'
      BY <1>1, <1>4, <2>1, <3>2, <3>3 DEF Finished
    <3>5. idx \in 0 .. WordsOf(g.m) /\ WordsOf(g.m) \in Nat
      <4>1. idx * WordBytes < g.m
        <5>1. idx * WordBytes \in Nat
          BY <1>2, <1>4
        <5>. QED BY <1>2, <1>4, <1>5, <5>1
      <4>. QED BY <1>2, <1>4, <4>1, WordOfElement, WordsType
    <3>6. AtRest'
      BY <1>1, <1>2, <2>1, <3>1, <3>5 DEF AtRest
    <3>. QED BY <1>3, <3>1, <3>4, <3>6
  <2>3. CASE ~(e + 1 >= g.m) /\ lut.sub = WordBytes - 1
    <3>1. st' = "LUT_LD" /\ idx' = idx + 1
      BY <1>9, <1>10, <2>3
    <3>2. idx' * WordBytes = e + 1
      <4>1. (idx + 1) * WordBytes = (idx * WordBytes) + WordBytes /\ idx * WordBytes \in Nat
        BY <1>2, <1>4
      <4>. QED BY <1>2, <1>4, <1>5, <2>3, <3>1, <4>1
    <3>3. Awaits(Read("A", idx))'
      BY <2>1 DEF Awaits
    <3>4. idx' * WordBytes < g.m /\ idx' \in Nat
      BY <1>2, <1>4, <2>3, <3>1, <3>2
    <3>5. Reading(g)'
      BY <2>1, <3>2, <3>3, <3>4 DEF Reading
    <3>6. PhaseL(g)'
      BY <1>1, <1>2, <3>5 DEF PhaseL
    <3>. QED BY <1>1, <1>3, <3>1, <3>6 DEF LooksUp
  <2>4. CASE ~(e + 1 >= g.m) /\ ~(lut.sub = WordBytes - 1)
    <3>1. st' = "LUT_ST" /\ idx' = idx /\ lut' = [byte |-> lut.byte + 1, sub |-> lut.sub + 1]
      BY <1>9, <1>10, <2>4
    <3>2. lut'.byte = e + 1 /\ lut'.sub = lut.sub + 1
      BY <1>2, <1>5, <3>1
    <3>3. Element' = e + 1
      <4>1. idx * WordBytes \in Nat
        BY <1>2, <1>4
      <4>2. Element' = (idx * WordBytes) + (lut.sub + 1)
        BY <3>1, <3>2 DEF Element
      <4>. QED BY <1>2, <1>4, <1>5, <4>1, <4>2
    <3>4. Awaits(Write(LutBytes, Element))'
      BY <2>1 DEF Awaits
    <3>5. out' = Written(Entries(g), Width(g) * (Element' + Bit(m_rsp_valid')))
      <4>1. Element' + Bit(m_rsp_valid') = e + 1
        BY <2>1, <3>3 DEF Bit
      <4>. QED BY <2>1, <4>1
    <3>6. lut'.sub \in 0 .. WordBytes - 1 /\ Element' < g.m
      BY <1>2, <1>4, <2>4, <3>2, <3>3
    <3>7. Entering(g)'
      BY <1>2, <3>1, <3>2, <3>3, <3>4, <3>5, <3>6 DEF Entering
    <3>8. PhaseT(g)'
      BY <1>1, <1>2, <3>7 DEF PhaseT
    <3>. QED BY <1>1, <1>3, <3>1, <3>8 DEF LooksUp
  <2>. QED BY <2>2, <2>3, <2>4
<1>11. CASE ~m_rsp_valid
  <2>1. lut' = lut /\ idx' = idx /\ st' = "LUT_ST"
    BY <1>9, <1>11
  <2>2. Element' = e
    BY <1>5, <2>1 DEF Element
  <2>3. Awaits(Write(LutBytes, Element))'
    <3>1. b = Write(LutBytes', Element')
      BY <1>1, <1>5, <1>6, <2>2 DEF LutBytes
    <3>2. Awaits(b)'
      BY <1>8, <1>11
    <3>. QED BY <3>1, <3>2 DEF Awaits
  <2>4. out' = Written(Entries(g), Width(g) * (Element' + Bit(m_rsp_valid')))
    <3>1. out = Written(Entries(g), Width(g) * e)
      <4>1. Element + Bit(m_rsp_valid) = e
        BY <1>5, <1>11 DEF Bit
      <4>. QED BY <1>2, <4>1
    <3>2. CASE m_rsp_valid'
      <4>1. Effect(b) = Written(Entries(g), Width(g) * (e + 1))
        BY <1>5, <1>6, <3>1, EntryWritten
      <4>2. Element' + Bit(m_rsp_valid') = e + 1
        BY <2>2, <3>2 DEF Bit
      <4>. QED BY <1>8, <1>11, <3>2, <4>1, <4>2
    <3>3. CASE ~m_rsp_valid'
      <4>1. Element' + Bit(m_rsp_valid') = e
        BY <2>2, <3>3 DEF Bit
      <4>. QED BY <1>8, <1>11, <3>1, <3>3, <4>1
    <3>. QED BY <3>2, <3>3
  <2>5. Entering(g)'
    BY <1>2, <1>5, <2>1, <2>2, <2>3, <2>4 DEF Entering
  <2>6. PhaseT(g)'
    BY <1>1, <1>2, <2>5 DEF PhaseT
  <2>. QED BY <1>1, <1>3, <2>1, <2>6 DEF LooksUp
<1>. QED BY <1>10, <1>11


\* A command begins.
LEMMA StepIdle ==
  ASSUME Shape, AtRest, NEW go \in Commands \union {NoCommand}, IDLE(go),
         NEW respond \in BOOLEAN, Memory(go, respond), Credit
  PROVE  IInv'
<1>1. st = "IDLE" /\ req' = NoBeat /\ tc' = tc /\ UNCHANGED pipe
  BY DEF IDLE
<1>2. Shape'
  BY <1>1 DEF Shape, pipe
<1>3. Quiet' /\ (~Starts(go) => out' = out)
  BY <1>1, QuietStep DEF AtRest
<1>4. CASE go = NoCommand
  <2>1. UNCHANGED <<st, idx, rix, total>>
    BY <1>4 DEF IDLE
  <2>2. AtRest'
    BY <1>3, <2>1 DEF AtRest
  <2>. QED BY <1>1, <1>2, <2>1, <2>2 DEF IInv
<1>5. CASE go # NoCommand
  <2>1. /\ q' = go /\ idx' = 0 /\ rix' = 0 /\ ~pend'
        /\ total' = WordsOf(IF go.op = "gemm" THEN go.m * go.k ELSE go.m)
        /\ st' = IF go.op = "gemm" THEN "LD_A" ELSE "LUT_LD"
    BY <1>5 DEF IDLE
  <2>2. out' = <<>>
    BY <1>1, <1>5 DEF Memory
  <2>3. CASE go \in Gemms
    <3>1. PICK g \in Gemms : g = go
      BY <2>3
    <3>2. g.op = "gemm" /\ g.m * g.k \in Nat
      BY GemmType
    <3>3. PICK w \in Nat : w = WordsOf(g.m * g.k)
      BY <3>2, WordsType
    <3>4. Loading("A", w)'
      BY <1>3, <2>1, <2>2, LoadingBegins
    <3>5. Filling(ta', rix')
      BY <2>1, FillingBegins
    <3>6. total' = w /\ st' = "LD_A"
      BY <2>1, <3>1, <3>2, <3>3
    <3>7. PhaseA(g)'
      BY <3>3, <3>4, <3>5, <3>6 DEF PhaseA
    <3>8. Multiplies(g)'
      BY <2>1, <3>1, <3>6, <3>7 DEF Multiplies
    <3>. QED BY <1>2, <3>8 DEF IInv
  <2>4. CASE go \in Lookups
    <3>1. PICK g \in Lookups : g = go
      BY <2>4
    <3>2. g.op # "gemm" /\ g.m \in Nat \ {0} /\ Width(g) \in Nat /\ WordBytes \in Nat
      BY LookupType
    <3>3. Awaits(Read("A", idx))'
      BY <1>3, <2>1 DEF Awaits
    <3>4. idx' * WordBytes = 0 /\ Width(g) * (idx' * WordBytes) = 0
      BY <2>1, <3>2
    <3>5. out' = Written(Entries(g), Width(g) * (idx' * WordBytes))
      BY <2>2, <3>4, WrittenNone
    <3>6. Reading(g)'
      BY <2>1, <3>2, <3>3, <3>4, <3>5 DEF Reading
    <3>7. total' = WordsOf(g.m) /\ st' = "LUT_LD"
      BY <2>1, <3>1, <3>2
    <3>8. PhaseL(g)'
      BY <2>1, <3>6, <3>7 DEF PhaseL
    <3>9. LooksUp(g)'
      BY <2>1, <3>1, <3>7, <3>8 DEF LooksUp
    <3>. QED BY <1>2, <3>9 DEF IInv
  <2>. QED BY <1>5, <2>3, <2>4, CommandAssumption
<1>. QED BY <1>4, <1>5

\* A command is over.
LEMMA StepDone ==
  ASSUME Shape, AtRest, DONE, NEW go, NEW respond \in BOOLEAN, Memory(go, respond), Credit
  PROVE  IInv'
<1>1. /\ st = "DONE" /\ st' = "IDLE" /\ req' = NoBeat
      /\ UNCHANGED <<idx, rix, total, tc, pipe>>
  BY DEF DONE
<1>2. Quiet'
  BY <1>1, QuietStep DEF AtRest
<1>3. AtRest'
  BY <1>1, <1>2 DEF AtRest
<1>4. Shape'
  BY <1>1 DEF Shape, pipe
<1>. QED BY <1>1, <1>3, <1>4 DEF IInv

\* The invariant holds initially
LEMMA InitIInv ==
  ASSUME Init
  PROVE  IInv
<1>1. Shape
  BY DEF Init, Shape, Table, Stage
<1>2. CRED \in Nat
  BY SizesAssumption
<1>3. AtRest
  BY <1>2 DEF Init, AtRest, Quiet, m_req, m_rsp_valid
<1>. QED BY <1>1, <1>3 DEF Init, IInv

\* and at every edge.
LEMMA NextIInv ==
  ASSUME IInv, [Next]_vars
  PROVE  IInv'
<1>1. CASE UNCHANGED vars
  <2>1. /\ UNCHANGED <<st, q, idx, rix, total, pend, req, cred, ci, c_done, s0, s1, accv>>
        /\ UNCHANGED <<ta, tb, tc, lut, owed, rsp, out>>
    BY <1>1 DEF vars, pipe
  <2>2. UNCHANGED <<m_req, m_rsp_valid>>
    BY <2>1 DEF m_req, m_rsp_valid
  <2>3. Shape' /\ (AtRest => AtRest') /\ (Finished => Finished')
    BY <2>1, <2>2 DEF IInv, Shape, AtRest, Quiet, Finished
  <2>4. \A b : Awaits(b) => Awaits(b)'
    BY <2>1, <2>2 DEF Awaits, Quiet, Flow, Pool, Bit
  <2>5. \A F, l, h : Flow(F, l, h) => Flow(F, l, h)'
    BY <2>1, <2>2 DEF Flow, Pool, Bit
  <2>6. \A from, n : Loading(from, n) => Loading(from, n)'
    BY <2>1, <2>2 DEF Loading, Flow, Pool, Bit
  <2>7. ASSUME NEW g \in Gemms, Multiplies(g)
        PROVE  Multiplies(g)'
    <3>1. PhaseA(g) => PhaseA(g)'
      BY <2>1, <2>6 DEF PhaseA
    <3>2. PhaseB(g) => PhaseB(g)'
      BY <2>1, <2>6 DEF PhaseB
    <3>3. PhaseC(g) => PhaseC(g)'
      BY <2>1, <2>6 DEF PhaseC, Start
    <3>4. PhaseM(g) => PhaseM(g)'
      <4>1. \A c : Progress(g, c) => Progress(g, c)'
        BY <2>1 DEF Progress, Has
      <4>2. Pipe(g) => Pipe(g)'
        BY <2>1, <4>1 DEF Pipe, Start, One, Two, Ending, Ended, Complete, Has, Holds0, Holds1, Feeds
      <4>3. Operands(g) => Operands(g)'
        BY <2>1 DEF Operands, Olds
      <4>. QED BY <2>1, <2>2, <4>2, <4>3 DEF PhaseM, Quiet
    <3>5. PhaseS(g) => PhaseS(g)'
      <4>1. Storing(g) => Storing(g)'
        BY <2>1, <2>2 DEF Storing, Flow, Pool, Bit
      <4>. QED BY <2>1, <4>1 DEF PhaseS, Complete, Has
    <3>. QED BY <2>1, <2>7, <3>1, <3>2, <3>3, <3>4, <3>5 DEF Multiplies
  <2>8. ASSUME NEW g \in Lookups, LooksUp(g)
        PROVE  LooksUp(g)'
    <3>1. Reading(g) => Reading(g)'
      BY <2>1, <2>2 DEF Reading, Awaits, Quiet, Flow, Pool, Bit
    <3>2. Entering(g) => Entering(g)'
      BY <2>1, <2>2 DEF Entering, Element, LutBytes, Awaits, Quiet, Flow, Pool, Bit
    <3>. QED BY <2>1, <2>8, <3>1, <3>2 DEF LooksUp, PhaseL, PhaseT
  <2>. QED BY <2>1, <2>3, <2>7, <2>8 DEF IInv
<1>2. CASE Next
  <2>1. PICK go \in Commands \union {NoCommand}, respond \in BOOLEAN : Edge(go, respond)
    BY <1>2 DEF Next
  <2>2. Engine(go) /\ Credit /\ Memory(go, respond) /\ Shape
    BY <2>1 DEF Edge, IInv
  <2>3. CASE st = "IDLE"
    <3>1. AtRest
      BY <2>3 DEF IInv, Multiplies, LooksUp
    <3>2. IDLE(go)
      BY <2>2, <2>3 DEF Engine, LD_A, LD_B, LD_C0, COMP, ST_C, LUT_LD, LUT_ST, DONE
    <3>. QED BY <2>2, <3>1, <3>2, StepIdle
  <2>4. CASE st = "DONE"
    <3>1. AtRest
      BY <2>4 DEF IInv, Multiplies, LooksUp
    <3>2. DONE
      BY <2>2, <2>4 DEF Engine, LD_A, LD_B, LD_C0, COMP, ST_C, LUT_LD, LUT_ST, IDLE
    <3>. QED BY <2>2, <3>1, <3>2, StepDone
  <2>5. ASSUME NEW g \in Gemms, Multiplies(g)
        PROVE  IInv'
    <3>1. q = g
      BY <2>5 DEF Multiplies
    <3>2. CASE st = "LD_A"
      <4>1. PhaseA(g) /\ LD_A
        BY <2>2, <2>5, <3>2
           DEF Multiplies, Engine, IDLE, LD_B, LD_C0, COMP, ST_C,
               LUT_LD, LUT_ST, DONE
      <4>. QED BY <2>2, <3>1, <4>1, StepA DEF IInv
    <3>3. CASE st = "LD_B"
      <4>1. PhaseB(g) /\ LD_B
        BY <2>2, <2>5, <3>3
           DEF Multiplies, Engine, IDLE, LD_A, LD_C0, COMP, ST_C,
               LUT_LD, LUT_ST, DONE
      <4>. QED BY <2>2, <3>1, <4>1, StepB DEF IInv
    <3>4. CASE st = "LD_C0"
      <4>1. PhaseC(g) /\ LD_C0
        BY <2>2, <2>5, <3>4
           DEF Multiplies, Engine, IDLE, LD_A, LD_B, COMP, ST_C,
               LUT_LD, LUT_ST, DONE
      <4>. QED BY <2>2, <3>1, <4>1, StepC DEF IInv
    <3>5. CASE st = "COMP"
      <4>1. PhaseM(g) /\ COMP
        BY <2>2, <2>5, <3>5
           DEF Multiplies, Engine, IDLE, LD_A, LD_B, LD_C0, ST_C,
               LUT_LD, LUT_ST, DONE
      <4>. QED BY <2>2, <3>1, <4>1, StepM DEF IInv
    <3>6. CASE st = "ST_C"
      <4>1. PhaseS(g) /\ ST_C
        BY <2>2, <2>5, <3>6
           DEF Multiplies, Engine, IDLE, LD_A, LD_B, LD_C0, COMP,
               LUT_LD, LUT_ST, DONE
      <4>2. Shape' /\ (Multiplies(g)' \/ (st = "DONE" /\ AtRest /\ Finished)')
        BY <2>2, <3>1, <4>1, StepS
      <4>. QED BY <4>2 DEF IInv
    <3>. QED BY <2>5, <3>2, <3>3, <3>4, <3>5, <3>6 DEF Multiplies
  <2>6. ASSUME NEW g \in Lookups, LooksUp(g)
        PROVE  IInv'
    <3>1. q = g
      BY <2>6 DEF LooksUp
    <3>2. CASE st = "LUT_LD"
      <4>1. PhaseL(g) /\ LUT_LD
        BY <2>2, <2>6, <3>2 DEF LooksUp, Engine, IDLE, LD_A, LD_B, LD_C0, COMP, ST_C, LUT_ST, DONE
      <4>. QED BY <2>2, <3>1, <4>1, StepL DEF IInv
    <3>3. CASE st = "LUT_ST"
      <4>1. PhaseT(g) /\ LUT_ST
        BY <2>2, <2>6, <3>3 DEF LooksUp, Engine, IDLE, LD_A, LD_B, LD_C0, COMP, ST_C, LUT_LD, DONE
      <4>2. Shape' /\ (LooksUp(g)' \/ (st = "DONE" /\ AtRest /\ Finished)')
        BY <2>2, <3>1, <4>1, StepT
      <4>. QED BY <4>2 DEF IInv
    <3>. QED BY <2>6, <3>2, <3>3 DEF LooksUp
  <2>. QED BY <2>3, <2>4, <2>5, <2>6 DEF IInv
<1>. QED BY <1>1, <1>2

-----------------------------------------------------------------------------
(* The property *)

\* The invariant implies what the engine promises.
LEMMA IInvResult ==
  ASSUME IInv
  PROVE  ResultGolden
<1>1. Pool /\ idx \in 0 .. total /\ rix \in 0 .. total
  <2>1. Quiet => Pool
    <3>1. Quiet => Len(owed) = 0 /\ CRED \in Nat
      BY SizesAssumption DEF Quiet
    <3>. QED BY <3>1 DEF Quiet, Pool, Bit
  <2>2. CASE AtRest
    BY <2>1, <2>2 DEF AtRest
  <2>3. ASSUME NEW g \in Gemms, Multiplies(g)
        PROVE  Pool /\ idx \in 0 .. total /\ rix \in 0 .. total
    <3>1. \A from, n : Loading(from, n) => Pool /\ idx \in 0 .. n /\ rix \in 0 .. n
      BY DEF Loading, Flow
    <3>2. CASE PhaseM(g)
      BY <2>1, <3>2 DEF PhaseM
    <3>3. CASE PhaseS(g)
      <4>1. g.m * g.n \in Nat
        BY GemmType
      <4>. QED BY <3>3, <4>1 DEF PhaseS, Storing, Flow
    <3>. QED BY <2>3, <3>1, <3>2, <3>3 DEF Multiplies, PhaseA, PhaseB, PhaseC
  <2>4. ASSUME NEW g \in Lookups, LooksUp(g)
        PROVE  Pool /\ idx \in 0 .. total /\ rix \in 0 .. total
    <3>1. \A b : Awaits(b) => Pool
      BY <2>1 DEF Awaits, Flow
    <3>2. PhaseL(g) \/ PhaseT(g)
      BY <2>4 DEF LooksUp
    <3>3. Pool /\ rix = 0 /\ total = WordsOf(g.m) /\ idx \in Nat
      BY <3>1, <3>2 DEF PhaseL, PhaseT, Reading, Entering
    <3>4. idx * WordBytes < g.m
      <4>1. CASE PhaseL(g)
        BY <4>1 DEF PhaseL, Reading
      <4>2. CASE PhaseT(g)
        <5>1. /\ Element < g.m /\ lut.sub \in Nat /\ Element = (idx * WordBytes) + lut.sub
          BY <4>2, LookupType DEF PhaseT, Entering, Element
        <5>2. idx * WordBytes \in Nat /\ g.m \in Nat
          BY <3>3, LookupType
        <5>. QED BY <5>1, <5>2
      <4>. QED BY <3>2, <4>1, <4>2
    <3>5. idx \in 0 .. WordsOf(g.m) /\ WordsOf(g.m) \in Nat
      <4>1. g.m \in Nat
        BY LookupType
      <4>. QED BY <3>3, <3>4, <4>1, WordOfElement, WordsType
    <3>. QED BY <3>3, <3>5
  <2>. QED BY <2>2, <2>3, <2>4 DEF IInv
<1>2. TypeOK
  BY <1>1 DEF TypeOK, Pool, Bit
<1>3. IdleIsQuiet
  BY DEF IInv, Multiplies, LooksUp, AtRest, Quiet, IdleIsQuiet
<1>4. st = "DONE" => Finished
  BY DEF IInv, Multiplies, LooksUp
<1>. QED BY <1>2, <1>3, <1>4 DEF ResultGolden, Finished

\* Whatever the memory does, a finished command has written the golden result
\* and nothing else, and no beat is on its way (tensor_sidecar.sv and the
\* goldens' gemm and lookups).
THEOREM ResultIsGolden == Spec => []ResultGolden
<1>1. Init => IInv
  BY InitIInv
<1>2. IInv /\ [Next]_vars => IInv'
  BY NextIInv
<1>3. IInv => ResultGolden
  BY IInvResult
<1>. QED BY <1>1, <1>2, <1>3, PTL DEF Spec

=============================================================================
