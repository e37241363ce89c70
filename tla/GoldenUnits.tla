----------------------------- MODULE GoldenUnits -----------------------------
(***************************************************************************)
(* The golden models of the small units: the queue (golden/fifo.py), the   *)
(* multiplier pipeline (golden/mul.py), the serial line (golden/uart.py),  *)
(* the memory of unknown speed (sim/axi_pessimistic.py) and the cache      *)
(* (golden/cache.py).                                                      *)
(***************************************************************************)
EXTENDS Integers, Sequences, FiniteSets, SequencesExt

CONSTANTS DEPTH, WIDTH, STAGES, BITS, LATENCY, BUCKET, BANDWIDTH, BEAT,
          LINE, WORD, SETS, TAGS  \* of the cache: bytes of a line and of a word, sets, tags

Idle == "none"

\* (mutant) Room is judged after the read.
RoomAfterRead(q, wr_en, wr_data, rd_en) ==
  LET rest == IF rd_en /\ Len(q) > 0 THEN Tail(q) ELSE q
  IN  IF wr_en /\ Len(rest) < DEPTH THEN Append(rest, wr_data) ELSE rest
\* The queue: both conditions are judged before the edge.
FifoStep(q, wr_en, wr_data, rd_en) ==
  LET do_wr == wr_en /\ Len(q) < DEPTH
      do_rd == rd_en /\ Len(q) > 0
      rest  == IF do_rd THEN Tail(q) ELSE q
  IN  IF do_wr THEN Append(rest, wr_data) ELSE rest
FifoOut(q) ==
  [count |-> Len(q), full |-> Len(q) = DEPTH, empty |-> q = <<>>,
   rd_data |-> IF q = <<>> THEN Idle ELSE Head(q)]

\* The pipeline: an entry is appended and one taken off at each step.
MulPipe0 == [k \in 1 .. STAGES - 1 |-> [valid |-> FALSE, p |-> 0]]
MulEntered(pipe, in_valid, a, b) ==
  Append(pipe, [valid |-> in_valid, p |-> (a * b) % 2 ^ (2 * WIDTH)])
MulStep(pipe, in_valid, a, b) == Tail(MulEntered(pipe, in_valid, a, b))
MulOut(pipe, in_valid, a, b) == Head(MulEntered(pipe, in_valid, a, b))

(***************************************************************************)
(* The line: a frame is a start bit, the byte from its lowest bit, a stop  *)
(* bit, each held for cpb cycles.                                          *)
(***************************************************************************)

Held(level, cycles) == [k \in 1 .. cycles |-> level]
Frame(byte, cpb) ==
  Held(0, cpb) \o FlattenSeq([k \in 1 .. BITS |-> Held((byte \div 2 ^ (k - 1)) % 2, cpb)])
  \o Held(1, cpb)
encode(data, gaps, cpb, lead_in) ==
  Held(1, lead_in)
  \o FlattenSeq([k \in DOMAIN data |-> Frame(data[k], cpb) \o Held(1, gaps[k])])
  \o Held(1, 2 * cpb)

\* Walks over the trace: out is what has been decoded, at the next cycle to look
\* at, bad why it stopped.
FrameLength(cpb) == (BITS + 2) * cpb
\* (mutant) The last cycle of a period is not looked at.
LastNotSeen(trace, at, k, cpb) == SubSeq(trace, at + k * cpb, at + (k + 1) * cpb - 2)
Period(trace, at, k, cpb) == SubSeq(trace, at + k * cpb, at + (k + 1) * cpb - 1)
FrameFault(trace, at, cpb) ==
  LET bit(k) == trace[at + k * cpb]
  IN  CASE at + FrameLength(cpb) - 1 > Len(trace) -> "truncated"
        [] \E k \in 0 .. BITS + 1 : Cardinality(ToSet(Period(trace, at, k, cpb))) # 1 -> "unstable"
        [] bit(0) # 0        -> "start"
        [] bit(BITS + 1) # 1 -> "stop"
        [] OTHER             -> Idle
FrameByte(trace, at, cpb) ==
  FoldLeft(LAMBDA v, k : v + trace[at + k * cpb] * 2 ^ (k - 1), 0, [k \in 1 .. BITS |-> k])
DecodeStep(trace, cpb, d) ==
  CASE d.bad # Idle \/ d.at > Len(trace) -> d
    [] trace[d.at] = 1 -> [d EXCEPT !.at = @ + 1]
    [] FrameFault(trace, d.at, cpb) # Idle -> [d EXCEPT !.bad = FrameFault(trace, d.at, cpb)]
    [] OTHER -> [d EXCEPT !.out = Append(@, FrameByte(trace, d.at, cpb)),
                          !.at = @ + FrameLength(cpb)]
decode_strict(trace, cpb) ==
  FoldLeft(LAMBDA d, k : DecodeStep(trace, cpb, d), [at |-> 1, out |-> <<>>, bad |-> Idle],
           [k \in 1 .. Len(trace) |-> k])

(***************************************************************************)
(* One port of the memory: m has mem, tokens, cycle, inflight and resp; the*)
(* last two are empty or have one element                                  *)
(***************************************************************************)

AxiPort(mem) == [mem |-> mem, tokens |-> BUCKET, inflight |-> <<>>, resp |-> <<>>, cycle |-> 0]
AxiTakes(m) == m.inflight = <<>> /\ m.resp = <<>> /\ m.tokens >= BEAT
issue(m, we, addr, wdata) ==
  IF AxiTakes(m)
  THEN [m EXCEPT !.tokens = @ - BEAT,
                 !.inflight = << [done |-> m.cycle + LATENCY, we |-> we, addr |-> addr,
                                    wdata |-> wdata] >>]
  ELSE m
tick(m0) ==
  LET m == [m0 EXCEPT !.cycle = @ + 1,
                      !.tokens = IF @ + BANDWIDTH > BUCKET THEN BUCKET ELSE @ + BANDWIDTH]
      due == m.inflight # <<>> /\ m.cycle >= m.inflight[1].done
      t   == m.inflight[1]
  IN  IF ~due THEN m
      ELSE [m EXCEPT !.mem = IF t.we THEN [@ EXCEPT ![t.addr] = t.wdata] ELSE @,
                     !.resp = IF t.we THEN <<0>> ELSE <<m.mem[t.addr]>>,
                     !.inflight = <<>>]
take_response(m) == [m EXCEPT !.resp = <<>>]

(***************************************************************************)
(* The cache: two ways, least recently used, write-back, write-allocate.   *)
(* The backing memory is the record's own field.  A byte is any value, a   *)
(* line and a word are functions of their byte offsets.                    *)
(***************************************************************************)

Ways == {0, 1}
SetNo == 0 .. SETS - 1
Addresses == 0 .. TAGS * SETS * LINE - 1
NoWay == 2

GoldenCache(backing) ==
  LET each(v) == [s \in SetNo |-> [w \in Ways |-> v]]
  IN  [mem |-> backing, valid |-> each(FALSE), dirty |-> each(FALSE), tag |-> each(0),
       data |-> each([b \in 0 .. LINE - 1 |-> 0]), lru |-> [s \in SetNo |-> 0],
       hits |-> 0, misses |-> 0, writebacks |-> 0]

_decode(addr) ==
  [t |-> addr \div (LINE * SETS), s |-> (addr \div LINE) % SETS, off |-> addr % LINE]
_lookup(c, t, s) ==
  LET holds == {w \in Ways : c.valid[s][w] /\ c.tag[s][w] = t}
  IN  IF holds = {} THEN NoWay ELSE CHOOSE w \in holds : \A x \in holds : w <= x

Base(t, s) == (t * SETS + s) * LINE
LineOf(mem, base) == [b \in 0 .. LINE - 1 |-> mem[base + b]]
Stored(mem, base, line) ==
  [a \in DOMAIN mem |-> IF a \in base .. base + LINE - 1 THEN line[a - base] ELSE mem[a]]
\* (mutant) The victim's address is its tag's, without the set.
TagAlone(c, s, w) ==
  [c EXCEPT !.mem = Stored(@, Base(c.tag[s][w], 0), c.data[s][w])]
WrittenBack(c, s, w) ==
  [c EXCEPT !.mem = Stored(@, Base(c.tag[s][w], s), c.data[s][w])]
Owes(c, s, w) == c.valid[s][w] /\ c.dirty[s][w]

\* (mutant) The way is filled before its old line is written back.
FillFirst(c, t, s) ==
  LET w  == c.lru[s]
      c1 == [c EXCEPT !.data[s][w] = LineOf(c.mem, Base(t, s)), !.valid[s][w] = TRUE,
                      !.tag[s][w] = t]
      c2 == IF Owes(c1, s, w) THEN [WrittenBack(c1, s, w) EXCEPT !.writebacks = @ + 1] ELSE c1
  IN  [c2 EXCEPT !.dirty[s][w] = FALSE]
\* The victim is written back before its way is filled.
_fill(c, t, s) ==
  LET w  == c.lru[s]
      c1 == IF Owes(c, s, w)
            THEN [WrittenBack(c, s, w) EXCEPT !.writebacks = @ + 1] ELSE c
  IN  [c1 EXCEPT !.data[s][w] = LineOf(c1.mem, Base(t, s)), !.valid[s][w] = TRUE,
                 !.dirty[s][w] = FALSE, !.tag[s][w] = t]
_touch(c, s, w) == [c EXCEPT !.lru[s] = 1 - w]

\* wdata and be: by byte of the word; a read's word is what ReadWord then finds.
Word(addr) == (addr \div WORD) * WORD
access(c, we, addr, wdata, be) ==
  LET d   == _decode(Word(addr))
      hit == _lookup(c, d.t, d.s)
      c1  == IF hit = NoWay THEN [_fill(c, d.t, d.s) EXCEPT !.misses = @ + 1]
             ELSE [c EXCEPT !.hits = @ + 1]
      w   == IF hit = NoWay THEN c.lru[d.s] ELSE hit
      c2  == _touch(c1, d.s, w)
      put(line) == [b \in DOMAIN line |->
                     IF b \in d.off .. d.off + WORD - 1 /\ b - d.off \in be
                     THEN wdata[b - d.off] ELSE line[b]]
  IN  IF we THEN [c2 EXCEPT !.data[d.s][w] = put(@), !.dirty[d.s][w] = TRUE] ELSE c2
ReadWord(c, addr) ==
  LET d == _decode(Word(addr))
      w == _lookup(c, d.t, d.s)
  IN  [b \in 0 .. WORD - 1 |-> c.data[d.s][w][d.off + b]]

flush(c) ==
  LET owed(a) == \E s \in SetNo, w \in Ways :
                   Owes(c, s, w) /\ a \in Base(c.tag[s][w], s) .. Base(c.tag[s][w], s) + LINE - 1
      value(a) == LET d == _decode(a) IN c.data[d.s][_lookup(c, d.t, d.s)][d.off]
  IN  [c EXCEPT !.mem = [a \in DOMAIN c.mem |-> IF owed(a) THEN value(a) ELSE c.mem[a]],
                !.dirty = [s \in SetNo |-> [w \in Ways |->
                             IF c.valid[s][w] THEN FALSE ELSE @[s][w]]]]
=============================================================================
