------------------------------ MODULE FabricGrid ------------------------------
(***************************************************************************)
(* The sampling engine (rtl/pbit/fabric_grid.sv), one step a clock cycle.  *)
(* A chunk of P_LANES sites goes through                                   *)
(*     ORD  BIA  CLR  MAC ..  SMP1 [SMP1B]  SMP2 [SMP2B]  WR               *)
(* and its new values leave through a write-behind queue, one a cycle,     *)
(* while the next chunk is already fetched.  The pipeline reads pair k of  *)
(* a site's neighbours k cycles after CLR.                                 *)
(*                                                                         *)
(* The engine runs one schedule entry of one sweep at a time: that is how  *)
(* its only user, the cluster, loads it.  A farm word is any word: which   *)
(* one a stream gives is left open.                                        *)
(***************************************************************************)
EXTENDS QsiteGolden

CONSTANTS NB,      \* bits of a site index
          WORDS    \* the farm words considered

NMAX == 2 ^ NB
Sites == 0 .. NMAX - 1
Lanes == 0 .. P_LANES - 1
Pairs == DEG_MAX \div 2
Colors == 0 .. COLORS_MAX - 1
Index(x) == x % NMAX      \* a value in a site index register

VARIABLES
  q, bipolar, n_colors,              \* set by the image's header
  slots, bias, order, cb,            \* row, order and colour-bound memories
  store,                             \* the committed value of every site
  gst, cur_color, pos, mslot, beta_q,
  lane,                              \* site, field, pair, word and value of each lane
  wq, wq_color,                      \* the write-behind queue
  done, upd_cnt, flip_cnt

config == <<q, bipolar, n_colors, slots, bias, order, cb>>
engine == <<gst, cur_color, pos, mslot, beta_q, lane, wq_color, done, upd_cnt, flip_cnt>>
fabric_vars == <<config, store, engine, wq>>

NoEntry == [v |-> FALSE, a |-> 0, d |-> 0]
ZeroField == [a \in 0 .. 7 |-> 0]
IdleLane == [site |-> 0, acc |-> ZeroField, mac |-> ZeroField, w |-> 0, val |-> 0]

FabricInit ==
  /\ q = 2 /\ bipolar = FALSE /\ n_colors = 0
  /\ slots = [i \in Sites |-> [k \in Slots |-> NoSlot]]
  /\ bias = [i \in Sites |-> [a \in 1 .. 7 |-> 0]]
  /\ order = [i \in Sites |-> 0]
  /\ cb = [c \in Colors |-> [s |-> 0, e |-> 0]]
  /\ store = [i \in Sites |-> 0]
  /\ gst = "IDLE" /\ cur_color = 0 /\ pos = 0 /\ mslot = 0 /\ beta_q = 0
  /\ lane = [l \in Lanes |-> IdleLane]
  /\ wq = [l \in Lanes |-> NoEntry] /\ wq_color = 0
  /\ done = FALSE /\ upd_cnt = 0 /\ flip_cnt = 0

(***************************************************************************)
(* Wires                                                                   *)
(***************************************************************************)

lane_v == {l \in Lanes : Index(pos + l) < cb[cur_color].e}
chunk_last == Index(pos + P_LANES) >= cb[cur_color].e
color_last == cur_color + 1 >= n_colors
wq_valid == {l \in Lanes : wq[l].v}
wq_head == Min(wq_valid)

\* What a slot adds to each of its site's fields, from the store as it is now
SlotField(e) ==
  [a \in 0 .. 7 |->
    IF ~e.valid THEN 0
    ELSE IF q = 2 THEN (IF a = 1 THEN Contribution(e.j, store[e.nbr], bipolar) ELSE 0)
    ELSE IF store[e.nbr] = a THEN e.j ELSE 0]
Added(f, h) == [a \in 0 .. 7 |-> f[a] + h[a]]
PairField(i, p) == Added(SlotField(slots[i][2 * p + 1]), SlotField(slots[i][2 * p + 2]))
BiasField(i) == [a \in 0 .. 7 |-> IF a = 0 THEN 0 ELSE bias[i][a]]

\* The cell's decision on the words it has been given
Decide(l, ws) ==
  IF q = 2 THEN decision(lane[l].acc[1], beta_q, ws[1])
  ELSE Argmax([a \in 0 .. q - 1 |-> lane[l].acc[a]], beta_q, ws)

\* Words of the lanes with a site; what the others draw is not looked at.
AnyWord == CHOOSE w \in WORDS : TRUE
Draws == {ws \in [Lanes -> WORDS] : \A l \in Lanes \ lane_v : ws[l] = AnyWord}

(***************************************************************************)
(* The write-behind queue: one write into the store each cycle, a STATE    *)
(* word of the image only when the queue is empty and the engine idle.     *)
(***************************************************************************)

\* stw: the sites a STATE word writes, with their values
Store(stw) ==
  store' = IF wq_valid # {} THEN [store EXCEPT ![wq[wq_head].a] = wq[wq_head].d]
           ELSE IF gst = "IDLE" THEN stw @@ store ELSE store
Drained == IF wq_valid = {} THEN wq ELSE [wq EXCEPT ![wq_head].v = FALSE]

(***************************************************************************)
(* The scheduler                                                           *)
(***************************************************************************)

NoDecision == UNCHANGED <<lane, upd_cnt, flip_cnt>>

GIdle(start, beta) ==
  /\ gst = "IDLE"
  /\ gst' = IF start THEN "ORD" ELSE gst
  /\ cur_color' = IF start THEN 0 ELSE cur_color
  /\ pos' = IF start THEN cb[0].s ELSE pos
  /\ beta_q' = IF start THEN beta ELSE beta_q
  /\ wq' = Drained
  /\ NoDecision /\ UNCHANGED <<mslot, wq_color>>

\* The first site of the next colour, or the end of the sweep
NextColor ==
  IF color_last
  THEN /\ gst' = "DRN" /\ cur_color' = 0 /\ pos' = cb[0].s
  ELSE /\ gst' = "ORD" /\ cur_color' = cur_color + 1 /\ pos' = cb[cur_color + 1].s

\* A bug the check reintroduces: the next colour reads while the last one is queued.
BoundaryNone == FALSE
\* A new colour waits for the queue; an empty one takes no farm word.
BoundaryStall == wq_valid # {} /\ cur_color # wq_color
GOrd ==
  /\ gst = "ORD"
  /\ IF BoundaryStall THEN UNCHANGED <<gst, cur_color, pos>>
     ELSE IF pos >= cb[cur_color].e THEN NextColor
     ELSE gst' = "BIA" /\ UNCHANGED <<cur_color, pos>>
  /\ lane' = [l \in Lanes |-> [lane[l] EXCEPT !.site = order[Index(pos + l)]]]
  /\ wq' = Drained
  /\ UNCHANGED <<beta_q, mslot, wq_color, upd_cnt, flip_cnt>>

Stage(from, to) ==
  /\ gst = from /\ gst' = to
  /\ wq' = Drained
  /\ UNCHANGED <<cur_color, pos, beta_q, wq_color>>
GBia == Stage("BIA", "CLR") /\ NoDecision /\ UNCHANGED mslot

\* The field starts from the bias while pair 0 is read.
GClr ==
  /\ Stage("CLR", "MAC")
  /\ mslot' = 0
  /\ lane' = [l \in Lanes |-> [lane[l] EXCEPT !.acc = BiasField(lane[l].site),
                                         !.mac = PairField(lane[l].site, 0)]]
  /\ UNCHANGED <<upd_cnt, flip_cnt>>

GMac ==
  /\ Stage("MAC", IF mslot = Pairs - 1 THEN "SMP1" ELSE "MAC")
  /\ mslot' = (mslot + 1) % Pairs
  /\ lane' = [l \in Lanes |->
                [lane[l] EXCEPT !.acc = Added(lane[l].acc, lane[l].mac),
                                !.mac = PairField(lane[l].site, (mslot + 1) % Pairs)]]
  /\ UNCHANGED <<upd_cnt, flip_cnt>>

\* One farm word decides two or four values; eight values take a second one.
GSmp1(ws) ==
  /\ Stage("SMP1", IF q = 8 THEN "SMP1B" ELSE "SMP2")
  /\ lane' = [l \in Lanes |-> [lane[l] EXCEPT !.w = ws[l],
                                !.val = IF q = 8 THEN @ ELSE Decide(l, <<ws[l]>>)]]
  /\ UNCHANGED <<mslot, upd_cnt, flip_cnt>>
GSmp1b(ws) ==
  /\ Stage("SMP1B", "SMP2")
  /\ lane' = [l \in Lanes |-> [lane[l] EXCEPT !.val = Decide(l, <<lane[l].w, ws[l]>>)]]
  /\ UNCHANGED <<mslot, upd_cnt, flip_cnt>>
GSmp2  == Stage("SMP2", IF q = 8 THEN "SMP2B" ELSE "WR") /\ NoDecision /\ UNCHANGED mslot
GSmp2b == Stage("SMP2B", "WR") /\ NoDecision /\ UNCHANGED mslot

\* The values enter the queue and are counted against the store.
GWr ==
  /\ gst = "WR"
  /\ wq' = [l \in Lanes |-> [v |-> l \in lane_v, a |-> lane[l].site, d |-> lane[l].val]]
  /\ wq_color' = cur_color
  /\ upd_cnt' = upd_cnt + Cardinality(lane_v)
  /\ flip_cnt' = flip_cnt + Cardinality({l \in lane_v : store[lane[l].site] # lane[l].val})
  /\ IF chunk_last THEN NextColor
     ELSE gst' = "ORD" /\ pos' = Index(pos + P_LANES) /\ UNCHANGED cur_color
  /\ UNCHANGED <<lane, mslot, beta_q>>

\* The sweep is done when its last value is in the store.
GDrn ==
  /\ gst = "DRN"
  /\ gst' = IF wq_valid = {} THEN "IDLE" ELSE gst
  /\ wq' = Drained
  /\ NoDecision /\ UNCHANGED <<cur_color, pos, mslot, beta_q, wq_color>>

\* One cycle: start and beta from the cluster, stw a STATE word's sites or none
FabricCycle(start, beta, stw, ws) ==
  /\ \/ GIdle(start, beta) \/ GOrd \/ GBia \/ GClr \/ GMac \/ GSmp1(ws) \/ GSmp1b(ws)
     \/ GSmp2 \/ GSmp2b \/ GWr \/ GDrn
  /\ done' = (gst = "DRN" /\ wq_valid = {})
  /\ Store(stw)
==============================================================================
