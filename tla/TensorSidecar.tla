---------------------------- MODULE TensorSidecar ----------------------------
(***************************************************************************)
(* rtl/tensor/tensor_sidecar.sv: tile loads, the three-stage multiply and  *)
(* accumulate pipe, the store of the product, and the table lookups, on a  *)
(* credit face whose answers come in order and at any time.                *)
(*                                                                         *)
(* One step is a clock edge.  go is a command or NoCommand (the socket     *)
(* rings only when busy is low); respond says that the memory answers.     *)
(* Data are named by where they come from: byte i of an operand is i, a    *)
(* product is <<byte of A, byte of B>>, and a word of C is the old word it *)
(* starts from and the products added to it.                               *)
(***************************************************************************)
EXTENDS Integers, Sequences

CONSTANTS
  Commands,   \* [op : {"gemm"}, m, n, k, acc] and [op : {"narrow", "wide"}, m]
  NoCommand,
  CRED, LANES, WordBytes, TileBytes

ASSUME SizesAssumption ==
  CRED \in 1 .. 4 /\ LANES \in Nat \ {0} /\ WordBytes \in Nat \ {0} /\ TileBytes \in Nat

\* What the socket's users may ask: no dimension is zero or wider than its seven
\* wires (simt_soc.sv:98 cuts higher bits off), and the three tiles
\* fit their memories (64 by 64).
Sizes == 1 .. 127
Gemms ==
  {c \in [op : {"gemm"}, m : Sizes, n : Sizes, k : Sizes, acc : BOOLEAN] :
     c.m * c.k <= TileBytes /\ c.k * c.n <= TileBytes /\ c.m * c.n <= TileBytes}
Lookups == [op : {"narrow", "wide"}, m : Sizes]
ASSUME CommandAssumption == \A c \in Commands : c \in Gemms \/ c \in Lookups

VARIABLES
  st,
  q,          \* the latched command
  idx, rix, total, pend,
  req,        \* the beat on the face: m_req, m_we, m_addr, m_wdata and m_be
  cred,
  ci,         \* the cursors ci_m, ci_n and ci_k
  c_done,
  s0, s1,     \* the pipe's registers
  accv,
  ta, tb, tc, \* the tiles
  lut,        \* lut_in_word and lut_sub
  owed, rsp,  \* memory: beats to answer, and the answer (m_rsp_valid, m_rdata)
  out         \* memory: what the command has written at addr_c

pipe == <<ci, c_done, s0, s1, accv>>
vars == <<st, q, idx, rix, total, pend, req, cred, pipe, ta, tb, tc, lut, owed, rsp, out>>

NoBeat == [kind |-> "none"]
Read(from, i) == [kind |-> "read", from |-> from, index |-> i]
Write(i, data) == [kind |-> "write", index |-> i, data |-> data]

Stale == [old |-> -2, sum |-> <<>>]   \* what a tile holds before any load
NoOld == -1                           \* no old word: C = instead of C +=
Lanes == 0 .. LANES - 1
Tile == 0 .. TileBytes - 1

m_req == req # NoBeat
m_rsp_valid == rsp # NoBeat
cred_nxt == cred - (IF m_req THEN 1 ELSE 0) + (IF m_rsp_valid THEN 1 ELSE 0)

pool_full == cred = CRED /\ ~m_req
WordsOf(bytes) == (bytes + WordBytes - 1) \div WordBytes
busy == st # "IDLE"

(***************************************************************************)
(* Phases that stream beats                                                *)
(***************************************************************************)

\* Issue when a credit will be there, and leave when all beats are issued and
\* the pool is full again.
Issues == idx # total /\ cred_nxt # 0
Leaves == idx = total /\ pool_full

\* A plausible bug: a response is placed by the issue cursor.
PlacedByIssue == IF idx = 0 THEN 0 ELSE idx - 1

\* The response cursor, which places the answers
Placed == rix

Stream(beat) ==
  /\ req' = IF Issues THEN beat ELSE NoBeat
  /\ idx' = IF Leaves THEN 0 ELSE IF Issues THEN idx + 1 ELSE idx
  /\ rix' = IF Leaves THEN 0 ELSE IF m_rsp_valid THEN rix + 1 ELSE rix

LoadBytes(tile) ==
  [i \in Tile |-> IF m_rsp_valid /\ i \div WordBytes = Placed
                  THEN (rsp.index * WordBytes) + (i % WordBytes) ELSE tile[i]]

LD_A ==
  /\ st = "LD_A"
  /\ Stream(Read("A", idx))
  /\ ta' = LoadBytes(ta)
  /\ total' = IF Leaves THEN WordsOf(q.k * q.n) ELSE total
  /\ st' = IF Leaves THEN "LD_B" ELSE st
  /\ UNCHANGED <<q, pend, pipe, tb, tc, lut>>

LD_B ==
  /\ st = "LD_B"
  /\ Stream(Read("B", idx))
  /\ tb' = LoadBytes(tb)
  /\ IF Leaves
     THEN /\ ci' = [m |-> 0, n |-> 0, k |-> 0]
          /\ s0' = [s0 EXCEPT !.v = FALSE]
          /\ s1' = [s1 EXCEPT !.v = FALSE]
          /\ c_done' = FALSE
          /\ accv' = [e \in Lanes |-> <<>>]
          /\ total' = IF q.acc THEN q.m * q.n ELSE total
          /\ st' = IF q.acc THEN "LD_C0" ELSE "COMP"
     ELSE UNCHANGED <<pipe, total, st>>
  /\ UNCHANGED <<q, pend, ta, tc, lut>>

LD_C0 ==
  /\ st = "LD_C0"
  /\ Stream(Read("C", idx))
  /\ tc' = IF m_rsp_valid THEN [tc EXCEPT ![Placed] = [old |-> rsp.index, sum |-> <<>>]] ELSE tc
  /\ st' = IF Leaves THEN "COMP" ELSE st
  /\ UNCHANGED <<q, total, pend, pipe, ta, tb, lut>>

ST_C ==
  /\ st = "ST_C"
  /\ req' = IF Issues THEN Write(idx, tc[idx]) ELSE NoBeat
  /\ idx' = IF Issues THEN idx + 1 ELSE idx
  /\ st' = IF Leaves THEN "DONE" ELSE st
  /\ UNCHANGED <<q, rix, total, pend, pipe, ta, tb, tc, lut>>

(***************************************************************************)
(* The multiply and accumulate pipe                                        *)
(***************************************************************************)

At(tile, i) == IF i \in Tile THEN tile[i] ELSE tile[0]

\* The innermost cursor is k, then windows of LANES columns, then rows.
LastK == ci.k = q.k - 1
LastN == ci.n + LANES >= q.n
LastM == ci.m = q.m - 1
Advance ==
  IF ~LastK THEN [ci EXCEPT !.k = @ + 1]
  ELSE IF ~LastN THEN [m |-> ci.m, n |-> ci.n + LANES, k |-> 0]
  ELSE IF ~LastM THEN [m |-> ci.m + 1, n |-> 0, k |-> 0]
  ELSE [m |-> ci.m, n |-> 0, k |-> 0]

\* Stage 0: addresses
S0 ==
  /\ s0' = IF c_done THEN [s0 EXCEPT !.v = FALSE]
           ELSE [v |-> TRUE, aa |-> (ci.m * q.k) + ci.k, bb |-> (ci.k * q.n) + ci.n,
                 cc |-> (ci.m * q.n) + ci.n, nrem |-> q.n - ci.n, wb |-> LastK]
  /\ ci' = IF c_done THEN ci ELSE Advance
  /\ c_done' = (c_done \/ (LastK /\ LastN /\ LastM))

\* Stage 1: operands
S1 ==
  s1' = [v |-> s0.v, wb |-> s0.wb, nrem |-> s0.nrem, cc |-> s0.cc, a |-> At(ta, s0.aa),
         b |-> [e \in Lanes |-> At(tb, s0.bb + e)],
         c |-> [e \in Lanes |-> At(tc, s0.cc + e)]]

\* Stage 2: multiply, and write the window back with its last product.  Lanes
\* past the row's end are masked.
Sum(e) == IF e < s1.nrem THEN Append(accv[e], <<s1.a, s1.b[e]>>) ELSE accv[e]
Result(e) == [old |-> IF q.acc THEN s1.c[e].old ELSE NoOld, sum |-> Sum(e)]
InWindow(i) == i - s1.cc \in Lanes /\ i - s1.cc < s1.nrem

S2 ==
  /\ accv' = [e \in Lanes |-> IF ~s1.v THEN accv[e] ELSE IF s1.wb THEN <<>> ELSE Sum(e)]
  /\ tc' = [i \in Tile |-> IF s1.v /\ s1.wb /\ InWindow(i) THEN Result(i - s1.cc) ELSE tc[i]]

Drained == c_done /\ ~s0.v /\ ~s1.v

COMP ==
  /\ st = "COMP"
  /\ S0 /\ S1 /\ S2
  /\ idx' = IF Drained THEN 0 ELSE idx
  /\ total' = IF Drained THEN q.m * q.n ELSE total
  /\ st' = IF Drained THEN "ST_C" ELSE st
  /\ req' = NoBeat
  /\ UNCHANGED <<q, rix, pend, ta, tb, lut>>

(***************************************************************************)
(* The table lookups: one beat outstanding                                 *)
(***************************************************************************)

Element == (idx * WordBytes) + lut.sub

\* The bytes at addr_c that hold the result of the element: i8 packs, i16 takes
\* two bytes.
LutBytes ==
  IF q.op = "narrow" THEN <<Element>> ELSE <<2 * Element, (2 * Element) + 1>>

MayIssue == ~pend /\ cred_nxt # 0

LUT_LD ==
  /\ st = "LUT_LD"
  /\ req' = IF MayIssue THEN Read("A", idx) ELSE NoBeat
  /\ pend' = (~m_rsp_valid /\ (pend \/ MayIssue))
  /\ lut' = IF m_rsp_valid THEN [byte |-> rsp.index * WordBytes, sub |-> 0] ELSE lut
  /\ st' = IF m_rsp_valid THEN "LUT_ST" ELSE st
  /\ UNCHANGED <<q, idx, rix, total, pipe, ta, tb, tc>>

LUT_ST ==
  LET last == Element + 1 >= q.m
      word == lut.sub = WordBytes - 1
  IN  /\ st = "LUT_ST"
      /\ req' = IF MayIssue THEN Write(LutBytes, lut.byte) ELSE NoBeat
      /\ pend' = (~m_rsp_valid /\ (pend \/ MayIssue))
      /\ lut' = IF m_rsp_valid /\ ~last /\ ~word
                THEN [byte |-> lut.byte + 1, sub |-> lut.sub + 1] ELSE lut
      /\ idx' = IF m_rsp_valid /\ ~last /\ word THEN idx + 1 ELSE idx
      /\ st' = CASE m_rsp_valid /\ last -> "DONE"
                 [] m_rsp_valid /\ ~last /\ word -> "LUT_LD"
                 [] OTHER -> st
      /\ UNCHANGED <<q, rix, total, pipe, ta, tb, tc>>

(***************************************************************************)
(* Start and end                                                           *)
(***************************************************************************)

IDLE(go) ==
  /\ st = "IDLE"
  /\ req' = NoBeat
  /\ IF go = NoCommand THEN UNCHANGED <<st, q, idx, rix, pend, total>>
     ELSE /\ q' = go
          /\ idx' = 0 /\ rix' = 0 /\ pend' = FALSE
          /\ total' = WordsOf(IF go.op = "gemm" THEN go.m * go.k ELSE go.m)
          /\ st' = IF go.op = "gemm" THEN "LD_A" ELSE "LUT_LD"
  /\ UNCHANGED <<pipe, ta, tb, tc, lut>>

DONE ==
  /\ st = "DONE"
  /\ st' = "IDLE"
  /\ req' = NoBeat
  /\ UNCHANGED <<q, idx, rix, total, pend, pipe, ta, tb, tc, lut>>

Engine(go) ==
  IDLE(go) \/ LD_A \/ LD_B \/ LD_C0 \/ COMP \/ ST_C \/ LUT_LD \/ LUT_ST \/ DONE

\* A plausible bug: a return is lost at an edge that spends.
CreditSpendWins == cred' = IF m_req THEN cred - 1 ELSE IF m_rsp_valid THEN cred + 1 ELSE cred

Credit == cred' = cred_nxt

\* Memory answers in order; a write has its effect when it is answered.
WriteAt(where, data) ==
  [i \in DOMAIN out \union where |-> IF i \in where THEN data ELSE out[i]]
Effect(b) ==
  IF b.kind = "write"
  THEN WriteAt(IF q.op = "gemm" THEN {b.index} ELSE {b.index[j] : j \in DOMAIN b.index}, b.data)
  ELSE out
Memory(go, respond) ==
  LET now == IF m_req THEN Append(owed, req) ELSE owed
      acts == respond /\ now # <<>>
  IN  /\ owed' = IF acts THEN Tail(now) ELSE now
      /\ rsp' = IF acts THEN Head(now) ELSE NoBeat
      /\ out' = IF st = "IDLE" /\ go # NoCommand THEN <<>>
                ELSE IF acts THEN Effect(Head(now)) ELSE out

Edge(go, respond) == Engine(go) /\ Credit /\ Memory(go, respond)

Init ==
  /\ st = "IDLE" /\ q = NoCommand
  /\ idx = 0 /\ rix = 0 /\ total = 0 /\ pend = FALSE
  /\ req = NoBeat /\ cred = CRED
  /\ ci = [m |-> 0, n |-> 0, k |-> 0]
  /\ c_done = FALSE
  /\ s0 = [v |-> FALSE, aa |-> 0, bb |-> 0, cc |-> 0, nrem |-> 0, wb |-> FALSE]
  /\ s1 = [v |-> FALSE, wb |-> FALSE, nrem |-> 0, cc |-> 0, a |-> -1,
           b |-> [e \in Lanes |-> -1], c |-> [e \in Lanes |-> Stale]]
  /\ accv = [e \in Lanes |-> <<>>]
  /\ ta = [i \in Tile |-> -1] /\ tb = [i \in Tile |-> -1] /\ tc = [i \in Tile |-> Stale]
  /\ lut = [byte |-> 0, sub |-> 0]
  /\ owed = <<>> /\ rsp = NoBeat /\ out = <<>>

Next == \E go \in Commands \union {NoCommand}, respond \in BOOLEAN : Edge(go, respond)

\* An edge at which memory answers a beat it owes.
Responds == (m_req \/ owed # <<>>) /\ \E go \in Commands \union {NoCommand} : Edge(go, TRUE)

Spec == Init /\ [][Next]_vars

\* An edge that the clock forces: registers change though nobody else acts.
Forced == ENABLED <<Edge(NoCommand, FALSE)>>_vars /\ Next

\* The clock runs and the memory answers.
FairSpec == Spec /\ WF_vars(Forced) /\ WF_vars(Responds)

-----------------------------------------------------------------------------
(***************************************************************************)
(* Properties                                                              *)
(***************************************************************************)

\* The asserts of the code (lines 217-221): credits and beats in flight make
\* up the pool, so none overflows and no beat is issued without one.
TypeOK ==
  /\ idx \in 0 .. total
  /\ rix \in 0 .. total
  /\ cred \in 0 .. CRED
  /\ cred + Len(owed) + (IF m_rsp_valid THEN 1 ELSE 0) = CRED

\* "busy still means memory-visible": when busy is low no beat is on its way,
\* and no answer of one command is taken for another's.
IdleIsQuiet ==
  st \in {"IDLE", "DONE"} => ~m_req /\ owed = <<>> /\ ~m_rsp_valid /\ cred = CRED

\* A finished command has written what the golden says and nothing else: the
\* product C = A B, or C + A B, every product once, and one table entry for
\* each element, whatever tiles and pipe held before and whenever answers came; credits and
\* quiet as above.
GoldenProduct(c) ==
  [i \in 0 .. (c.m * c.n) - 1 |->
     [old |-> IF c.acc THEN i ELSE NoOld,
      sum |-> [j \in 1 .. c.k |->
                 <<((i \div c.n) * c.k) + j - 1, ((j - 1) * c.n) + (i % c.n)>>]]]
Width(c) == IF c.op = "narrow" THEN 1 ELSE 2
GoldenLookup(c) == [i \in 0 .. (Width(c) * c.m) - 1 |-> i \div Width(c)]
ResultGolden ==
  /\ TypeOK
  /\ IdleIsQuiet
  /\ st = "DONE" => out = IF q.op = "gemm" THEN GoldenProduct(q) ELSE GoldenLookup(q)

\* Every command ends.
EveryCommandEnds == busy ~> ~busy
=============================================================================
