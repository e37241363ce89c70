------------------------------- MODULE SCluster -------------------------------
(***************************************************************************)
(* The sampling cluster (rtl/fusion/s_cluster.sv) around its engine, one   *)
(* step a clock cycle: PCONFIG streams an image from memory into the       *)
(* configuration memories, PSAMPLE runs sweeps and adds each one's         *)
(* snapshot to the counters while the next sweep runs, PDRAIN streams a    *)
(* result to memory.  Both streams spend credits of one face.              *)
(*                                                                         *)
(* A golden machine runs beside it: it takes a whole command when the      *)
(* cluster accepts it, except that its sweeps use up the farm words as the *)
(* engine draws them.                                                      *)
(*                                                                         *)
(* Shorter here: the energy scan takes two cycles a site, not eighteen,    *)
(* and the zero walk one cycle; no other part runs beside either.  A row   *)
(* is stored once, where the chip writes the engine's copy and the         *)
(* cluster's with one strobe.                                              *)
(***************************************************************************)
EXTENDS FabricGrid

CONSTANTS FACE_CRED,  \* credits of the memory face
          ROW_SITES,  \* sites in a row of the snapshot
          Plans       \* sequences of commands

\* The port's comment: memory-face credits (1..4).
ASSUME FaceCredAssumption == FACE_CRED \in 1 .. 4
ASSUME SizesAssumption ==
  /\ {DEG_MAX, COLORS_MAX, SEED_WORDS, RID_SITES} \subseteq Nat \ {0}
  /\ \A arity \in {2, 4, 8} : STATE_SITES(arity) \in Nat \ {0}

\* An image of at least one site, every section it flags with at least a word:
\* what the builder of the plain sites asserts.
ProperImage(img) ==
  /\ img.n \in Nat \ {0} /\ img.q \in {2, 4, 8}
  /\ "ORDER" \in img.flags => img.order \in Seq(ToSet(img.order))
  /\ "SCHED" \in img.flags => img.sched \in Seq(ToSet(img.sched)) /\ img.sched # <<>>
\* A plan is a sequence of the cluster's three commands, its images proper.
ASSUME PlansAssumption ==
  \A p \in Plans :
    /\ p \in Seq(ToSet(p))
    /\ \A x \in ToSet(p) : /\ x.op \in {"PCONFIG", "PSAMPLE", "PDRAIN"}
                           /\ x.op = "PCONFIG" => ProperImage(x.img)

VARIABLES
  plan, cmd, words,                 \* commands to come, the one running, its image
  st, req, cred, infl,              \* state, beat on the face, credits, unanswered beats
  c, track_pre, wr,                 \* image cursors, registered configuration write
  hdr,                              \* n, work_track, n_sched, n_replicas
  sched, rid, work, e,              \* schedule, replica of a site, work, energy scan
  acc_cnt, m1, m2, acw,             \* counters and their registered writes
  snap, snap_w, snapw, walk, rq,    \* snapshot and its walker
  p_entry, p_left, p_beta, f_start,
  d, dq, out,                       \* drain, its read ports and the words it wrote
  cfg_words, drain_words, sweeps_done,
  g, todo, gout                     \* golden machine, its sweeps to come, its drain

face == <<req, cred, infl>>
loader == <<c, track_pre, hdr, q, bipolar, n_colors, sched, cfg_words>>
scan == <<e, work>>
entry == <<p_entry, p_left, p_beta, acc_cnt, sweeps_done, snap_w>>
draining == <<d, drain_words>>
command == <<plan, cmd, words>>
cluster_vars == <<fabric_vars, command, st, face, loader, wr, rid, scan, m1, m2, acw, snap, snapw, walk,
          rq, entry, f_start, draining, dq, out, g, todo, gout>>

SectionOrder == <<"ROWS", "ORDER", "SCHED", "SEEDS", "STATE", "RID">>
Streaming == {"HDR0", "HDR1", "HDR2", "ROWS", "ORD_N", "ORD_CB", "ORD_IDX", "SCHED", "SEEDS",
              "STATE", "RID"}
NoWrite == [kind |-> "none"]
NoWalk == [busy |-> FALSE, site |-> 0, fdone |-> FALSE, cv |-> FALSE, cs |-> 0, cv1 |-> FALSE,
           tail |-> 0]
NoScan == [site |-> 0, ph |-> 0, is_old |-> TRUE, old |-> [r \in 0 .. R_MAX - 1 |-> 0],
           acc |-> [r \in 0 .. R_MAX - 1 |-> 0]]
NoDrain == [mode |-> "STATE", idx |-> 0, total |-> 0, ph |-> 0, shv |-> FALSE, nbr |-> 0,
            m1s |-> 0, m2v |-> 0, mnb |-> 0]
Nothing == [op |-> "NONE"]

ClusterInit ==
  /\ FabricInit
  /\ plan \in Plans /\ cmd = Nothing /\ words = <<>>
  /\ st = "IDLE" /\ req = "none" /\ cred = FACE_CRED /\ infl = 0
  /\ c = [iss |-> 0, tot |-> 0, rsp |-> 0, sect |-> 1, site |-> 0, slot |-> 0, idx |-> 0, nord |-> 0]
  /\ track_pre = FALSE /\ wr = NoWrite
  /\ hdr = [n |-> 0, work_track |-> FALSE, n_sched |-> 0, n_replicas |-> 1]
  /\ sched = [k \in 0 .. 31 |-> [beta |-> 0, sweeps |-> 0]]
  /\ rid = [i \in Sites |-> 0] /\ work = [r \in 0 .. R_MAX - 1 |-> 0] /\ e = NoScan
  /\ acc_cnt = 0
  /\ m1 = [i \in Sites |-> [a \in 1 .. 7 |-> 0]] /\ m2 = [i \in Sites |-> [k \in Slots |-> 0]]
  /\ acw = {} /\ snap = [i \in Sites |-> 0] /\ snap_w = 0 /\ snapw = -1 /\ walk = NoWalk
  /\ rq = <<>>
  /\ p_entry = 0 /\ p_left = 0 /\ p_beta = 0 /\ f_start = FALSE
  /\ d = NoDrain /\ dq = <<>> /\ out = <<>>
  /\ cfg_words = 0 /\ drain_words = 0 /\ sweeps_done = 0
  /\ g = Golden0 /\ todo = <<>> /\ gout = <<>>

(***************************************************************************)
(* The memory face.  rsp: the memory answers a beat in this cycle.         *)
(***************************************************************************)

One(b) == IF b THEN 1 ELSE 0
cred_nxt(rsp) == cred - One(req # "none") + One(rsp)

\* A bug: the beat still on the face has not spent its credit.
IssueStale(rsp) == st \in Streaming /\ c.iss # c.tot /\ cred # 0
\* A section's beats are issued as credits allow, ahead of their answers.
IssueRead(rsp) == st \in Streaming /\ c.iss # c.tot /\ cred_nxt(rsp) # 0
\* The cursors after the issue engine and the answer
Moved(rsp) == [c EXCEPT !.iss = @ + One(IssueRead(rsp)), !.rsp = @ + One(rsp /\ st \in Streaming)]
Data == words[c.rsp + 1]

\* A bug: the word leaves a phase early, on the neighbour's address.
d_need_two == IF d.mode = "COV" /\ d.idx # 0 THEN 2
              ELSE IF d.mode = "MOMENTS" /\ d.idx # 0 THEN 1 ELSE 0
\* Phases of a drain word's fetch before it can be written
d_need == IF d.mode = "COV" /\ d.idx # 0 THEN 3
          ELSE IF d.mode = "MOMENTS" /\ d.idx # 0 THEN 1 ELSE 0
AllWritten == d.idx >= d.total
Emit(rsp) == st = "RUN" /\ ~AllWritten /\ d.ph = d_need /\ cred_nxt(rsp) # 0

Face(rsp) ==
  /\ rsp => infl > 0
  /\ cred' = cred_nxt(rsp)
  /\ infl' = infl + One(req # "none") - One(rsp)
  /\ req' = IF IssueRead(rsp) THEN "rd" ELSE IF Emit(rsp) THEN "wr" ELSE "none"

(***************************************************************************)
(* Registered writes, which land one cycle after they are decided          *)
(***************************************************************************)

LaneOfWord(a) == (a - 1) \div LANES_A_WORD
ConfigWrite ==
  /\ slots' = IF wr.kind = "row" /\ wr.k < DEG_MAX
              THEN [slots EXCEPT ![wr.i][wr.k + 1] = wr.w] ELSE slots
  /\ bias' = IF wr.kind = "row" /\ wr.k >= DEG_MAX
             THEN [bias EXCEPT ![wr.i] = [a \in 1 .. 7 |->
                     IF LaneOfWord(a) = wr.k - DEG_MAX /\ a - 3 * LaneOfWord(a) \in DOMAIN wr.w
                     THEN wr.w[a - 3 * LaneOfWord(a)] ELSE @[a]]]
             ELSE bias
  /\ order' = IF wr.kind = "ord" THEN [order EXCEPT ![Index(wr.i)] = wr.w] ELSE order
  /\ cb' = IF wr.kind = "cb"
           THEN [cb EXCEPT ![wr.i] = [s |-> Index(wr.w.lo), e |-> Index(wr.w.hi)]] ELSE cb
  /\ rid' = IF wr.kind = "rid"
            THEN [i \in Sites |-> IF i \div RID_SITES = wr.i THEN wr.w[i % RID_SITES] ELSE rid[i]]
            ELSE rid
StateWord ==
  IF wr.kind # "stw" THEN <<>>
  ELSE [i \in {x \in Sites : x \div STATE_SITES(q) = wr.i} |-> wr.w[i % STATE_SITES(q)]]

ZeroAll == {[mem |-> "all", i |-> 0, k |-> 0, v |-> 0]}
Written(m, name) ==
  IF acw = ZeroAll THEN [i \in Sites |-> [k \in DOMAIN m[i] |-> 0]]
  ELSE FoldSet(LAMBDA x, f : IF x.mem = name THEN [f EXCEPT ![x.i][x.k] = x.v] ELSE f, m, acw)
CounterWrite ==
  /\ m1' = Written(m1, "m1")
  /\ m2' = Written(m2, "m2")

(***************************************************************************)
(* The walker: a pair of sites a cycle from the snapshot, in two stages.   *)
(***************************************************************************)

SnapRows == CeilDiv(hdr.n, ROW_SITES)
SnapFree == ~walk.busy
StartWalk == st = "SNAP" /\ SnapFree /\ snap_w >= SnapRows

\* What the second stage commits for site walk.cs + p, from rows read a cycle ago
Commits(p) ==
  LET i == walk.cs + p
      v == rq.v[p + 1]
      both(k) == LET nv == snap[rq.sh[p + 1][k].nbr]
                 IN  IF q = 2 THEN v = 1 /\ nv = 1 ELSE v = nv
      lane1 == IF q = 2 THEN {[k |-> 1, by |-> v]} ELSE IF v = 0 THEN {} ELSE {[k |-> v, by |-> 1]}
  IN  {[mem |-> "m1", i |-> i, k |-> x.k, v |-> rq.m1[p + 1][x.k] + x.by] : x \in lane1}
      \union {[mem |-> "m2", i |-> i, k |-> k, v |-> rq.m2[p + 1][k] + 1] :
                k \in {s \in Slots : rq.sh[p + 1][s].valid /\ both(s)}}

PairRow(f) == <<f[walk.site], f[walk.site + 1]>>
Walker ==
  LET last == walk.site + 2 >= hdr.n
      tail == walk.fdone /\ ~walk.cv
  IN  /\ acw' = IF st = "ZERO" THEN ZeroAll
                ELSE IF ~(walk.busy /\ walk.cv) THEN {}
                ELSE Commits(0) \union (IF walk.cv1 THEN Commits(1) ELSE {})
      /\ rq' = IF walk.busy /\ ~walk.fdone
               THEN [m1 |-> PairRow(m1), m2 |-> PairRow(m2), sh |-> PairRow(slots), v |-> PairRow(snap)]
               ELSE rq
      /\ walk' = IF StartWalk THEN [NoWalk EXCEPT !.busy = TRUE]
                 ELSE IF walk.busy
                 THEN [busy  |-> ~(tail /\ walk.tail = 1),
                       site  |-> IF walk.fdone \/ last THEN walk.site ELSE walk.site + 2,
                       fdone |-> walk.fdone \/ last,
                       cv    |-> ~walk.fdone,
                       cs    |-> walk.site,
                       cv1   |-> ~walk.fdone /\ walk.site + 1 < hdr.n,
                       tail  |-> IF tail THEN (walk.tail + 1) % 2 ELSE walk.tail]
                 ELSE walk

\* A row of the store is copied in the cycle after its strobe.
Snapshot ==
  snap' = IF snapw = -1 THEN snap
          ELSE [i \in Sites |-> IF i \div ROW_SITES = snapw THEN store[i] ELSE snap[i]]

(***************************************************************************)
(* PCONFIG                                                                 *)
(***************************************************************************)

Quiet == wr' = NoWrite /\ f_start' = FALSE /\ snapw' = -1

\* A state that waits for the next word of the image
Wait(state, rsp, Consume) ==
  /\ st = state
  /\ IF rsp THEN Consume
     ELSE st' = st /\ c' = Moved(rsp) /\ wr' = NoWrite
          /\ UNCHANGED <<track_pre, hdr, q, bipolar, n_colors, sched, cfg_words, scan>>
  /\ f_start' = FALSE /\ snapw' = -1
  /\ UNCHANGED <<entry, draining, command>>

Hdr0(rsp) ==
  Wait("HDR0", rsp,
       /\ st' = "HDR1" /\ c' = Moved(rsp) /\ wr' = NoWrite
       /\ UNCHANGED <<track_pre, hdr, q, bipolar, n_colors, sched, cfg_words, scan>>)

Hdr1(rsp) ==
  Wait("HDR1", rsp,
       /\ st' = "HDR2" /\ c' = Moved(rsp) /\ wr' = NoWrite
       /\ hdr' = [hdr EXCEPT !.n = Data.n, !.work_track = Data.work_track]
       /\ bipolar' = Data.bipolar
       /\ UNCHANGED <<track_pre, q, n_colors, sched, cfg_words, scan>>)

NewScan(is_old) == [e EXCEPT !.site = 0, !.ph = 0, !.is_old = is_old,
                             !.acc = [r \in 0 .. R_MAX - 1 |-> 0]]
Flagged(section) == section \in cmd.img.flags

\* Colours and schedule keep their lengths over an image without them; replicas
\* from the old count on lose their work.  The rows' old energy comes first.
Hdr2(rsp) ==
  Wait("HDR2", rsp,
       /\ c' = [Moved(rsp) EXCEPT !.sect = 1, !.site = 0, !.slot = 0, !.idx = 0]
       /\ q' = Data.q
       /\ n_colors' = IF Flagged("ORDER") THEN Data.n_colors ELSE n_colors
       /\ hdr' = [hdr EXCEPT !.n_sched = IF Flagged("SCHED") THEN Data.n_sched ELSE @,
                             !.n_replicas = IF Data.n_replicas = 0 THEN 1 ELSE Data.n_replicas]
       /\ work' = [r \in 0 .. R_MAX - 1 |-> IF r >= hdr.n_replicas THEN 0 ELSE work[r]]
       /\ IF Flagged("ROWS") /\ track_pre
          THEN st' = "SCAN" /\ e' = NewScan(TRUE)
          ELSE st' = "SECT" /\ UNCHANGED e
       /\ wr' = NoWrite
       /\ UNCHANGED <<track_pre, bipolar, sched, cfg_words>>)

RowWords == DEG_MAX + (IF q = 8 THEN 3 ELSE 1)
\* A bug: the last word of a section with a part-filled one is not asked for.
SectionBeatsDown(s) ==
  CASE s = "ROWS"  -> hdr.n * RowWords
    [] s = "ORDER" -> 1
    [] s = "SCHED" -> hdr.n_sched
    [] s = "SEEDS" -> SEED_WORDS
    [] s = "STATE" -> hdr.n \div STATE_SITES(q)
    [] s = "RID"   -> hdr.n \div RID_SITES
SectionBeats(s) ==
  CASE s = "ROWS"  -> hdr.n * RowWords
    [] s = "ORDER" -> 1
    [] s = "SCHED" -> hdr.n_sched
    [] s = "SEEDS" -> SEED_WORDS
    [] s = "STATE" -> CeilDiv(hdr.n, STATE_SITES(q))
    [] s = "RID"   -> CeilDiv(hdr.n, RID_SITES)

\* Walk the flags in order; a section starts the issue engine on its beats.
Sect ==
  /\ st = "SECT"
  /\ IF c.sect > Len(SectionOrder) THEN st' = "FIN" /\ UNCHANGED c
     ELSE IF ~Flagged(SectionOrder[c.sect]) THEN st' = st /\ c' = [c EXCEPT !.sect = @ + 1]
     ELSE LET s == SectionOrder[c.sect]
          IN  /\ st' = IF s = "ORDER" THEN "ORD_N" ELSE s
              /\ c' = [c EXCEPT !.iss = 0, !.tot = SectionBeats(s),
                                !.site = 0, !.slot = 0, !.idx = 0]
  /\ Quiet
  /\ UNCHANGED <<track_pre, hdr, q, bipolar, n_colors, sched, cfg_words, scan,
                 entry, draining, command>>

\* A word of a section: what it writes and whether it is the section's last
Word(rsp, write, last, next) ==
  /\ wr' = write
  /\ cfg_words' = cfg_words + 1
  /\ c' = IF last THEN [Moved(rsp) EXCEPT !.sect = @ + 1] ELSE next
  /\ UNCHANGED <<track_pre, hdr, q, bipolar, n_colors>>
Simple(state, rsp, write, last) ==
  Wait(state, rsp,
       /\ Word(rsp, write, last, [Moved(rsp) EXCEPT !.idx = @ + 1])
       /\ st' = IF last THEN "SECT" ELSE st
       /\ UNCHANGED <<sched, scan>>)

\* A tracked rewrite measures the new energy before the state can change.
Rows(rsp) ==
  LET site_end == c.slot = RowWords - 1
      last == site_end /\ c.site + 1 = hdr.n
  IN  Wait("ROWS", rsp,
           /\ Word(rsp, [kind |-> "row", i |-> c.site, k |-> c.slot, w |-> Data], last,
                   IF site_end THEN [Moved(rsp) EXCEPT !.slot = 0, !.site = @ + 1]
                   ELSE [Moved(rsp) EXCEPT !.slot = @ + 1])
           /\ IF last /\ track_pre THEN st' = "SCAN" /\ e' = NewScan(FALSE)
              ELSE st' = (IF last THEN "SECT" ELSE st) /\ UNCHANGED e
           /\ UNCHANGED <<sched, work>>)

OrdN(rsp) ==
  Wait("ORD_N", rsp,
       /\ st' = "ORD_CB" /\ wr' = NoWrite
       /\ c' = [Moved(rsp) EXCEPT !.nord = Data, !.idx = 0, !.iss = 0, !.tot = COLORS_MAX]
       /\ cfg_words' = cfg_words + 1
       /\ UNCHANGED <<track_pre, hdr, q, bipolar, n_colors, sched, scan>>)
OrdCb(rsp) ==
  LET last == c.idx = COLORS_MAX - 1
  IN  Wait("ORD_CB", rsp,
           /\ Word(rsp, [kind |-> "cb", i |-> c.idx, w |-> Data], last /\ c.nord = 0,
                   IF last THEN [Moved(rsp) EXCEPT !.idx = 0, !.iss = 0, !.tot = c.nord]
                   ELSE [Moved(rsp) EXCEPT !.idx = @ + 1])
           /\ st' = IF ~last THEN st ELSE IF c.nord = 0 THEN "SECT" ELSE "ORD_IDX"
           /\ UNCHANGED <<sched, scan>>)
OrdIdx(rsp) ==
  Simple("ORD_IDX", rsp, [kind |-> "ord", i |-> c.idx, w |-> Data], c.idx + 1 = c.nord)

Sched(rsp) ==
  LET last == c.idx + 1 = hdr.n_sched
  IN  Wait("SCHED", rsp,
           /\ Word(rsp, NoWrite, last, [Moved(rsp) EXCEPT !.idx = @ + 1])
           /\ sched' = [sched EXCEPT ![c.idx] = Data]
           /\ st' = IF last THEN "SECT" ELSE st
           /\ UNCHANGED scan)
Seeds(rsp) == Simple("SEEDS", rsp, NoWrite, c.idx = SEED_WORDS - 1)
State(rsp) ==
  Simple("STATE", rsp, [kind |-> "stw", i |-> c.idx, w |-> Data],
         c.idx + 1 >= CeilDiv(hdr.n, STATE_SITES(q)))
Rid(rsp) ==
  Simple("RID", rsp, [kind |-> "rid", i |-> c.idx, w |-> Data], c.idx + 1 >= CeilDiv(hdr.n, RID_SITES))

\* The scan subtracts a site's terms from its replica's energy.
SiteTerm(i) ==
  LET counts(s) == IF q = 2 THEN store[s.nbr] = 1 ELSE store[s.nbr] = store[i]
      pair == SlotSum(LAMBDA k : IF slots[i][k].valid /\ counts(slots[i][k])
                                 THEN slots[i][k].j ELSE 0)
      own == IF store[i] = 0 THEN 0 ELSE 2 * bias[i][store[i]]
  IN  IF q = 2 /\ store[i] = 0 THEN 0 ELSE pair + own
Scan ==
  /\ st = "SCAN"
  /\ IF e.ph = 0 THEN e' = [e EXCEPT !.ph = 1] /\ st' = st
     ELSE /\ e' = [e EXCEPT !.ph = 0, !.acc[rid[e.site]] = @ - SiteTerm(e.site),
                            !.site = IF @ + 1 = hdr.n THEN @ ELSE @ + 1]
          /\ st' = IF e.site + 1 = hdr.n THEN "COPY" ELSE st
  /\ Quiet
  /\ UNCHANGED <<loader, work, entry, draining, command>>
Copy ==
  /\ st = "COPY" /\ st' = "SECT"
  /\ e' = IF e.is_old THEN [e EXCEPT !.old = e.acc] ELSE e
  /\ Quiet
  /\ UNCHANGED <<loader, work, entry, draining, command>>

Fin ==
  /\ st = "FIN" /\ st' = "IDLE"
  /\ work' = [r \in 0 .. R_MAX - 1 |->
                IF cmd.img.work_reset THEN 0
                ELSE IF Flagged("ROWS") /\ track_pre THEN work[r] + (e.acc[r] - e.old[r])
                ELSE work[r]]
  /\ Quiet
  /\ UNCHANGED <<loader, e, entry, draining, command>>

(***************************************************************************)
(* PSAMPLE                                                                 *)
(***************************************************************************)

PStep(from, to) == st = from /\ st' = to /\ wr' = NoWrite
PFrame == UNCHANGED <<loader, scan, draining, command>>

Zero ==
  /\ PStep("ZERO", "ENTRY") /\ f_start' = FALSE /\ snapw' = -1
  /\ PFrame /\ UNCHANGED entry

\* The command ends only when the last sweep's walk has.
WalkGate == IF walk.busy THEN st ELSE "IDLE"
Entry ==
  LET done_now == IF cmd.imm THEN cmd.t_m = 0 ELSE p_entry >= hdr.n_sched
      x == IF cmd.imm THEN [beta |-> cmd.t_k, sweeps |-> cmd.t_m] ELSE sched[p_entry]
  IN  /\ PStep("ENTRY", IF done_now THEN WalkGate ELSE IF x.sweeps = 0 THEN "NEXT" ELSE "LOADSCH")
      /\ IF ~cmd.imm /\ done_now THEN UNCHANGED <<p_beta, p_left>>
         ELSE p_beta' = x.beta /\ p_left' = x.sweeps
      /\ f_start' = FALSE /\ snapw' = -1
      /\ PFrame /\ UNCHANGED <<p_entry, acc_cnt, sweeps_done, snap_w>>

LoadSch == PStep("LOADSCH", "START") /\ f_start' = FALSE /\ snapw' = -1 /\ PFrame /\ UNCHANGED entry
Start == PStep("START", "WAIT") /\ f_start' = TRUE /\ snapw' = -1 /\ PFrame /\ UNCHANGED entry

WaitDone ==
  /\ PStep("WAIT", IF ~done THEN "WAIT" ELSE IF cmd.record THEN "SNAP" ELSE "NEXT")
  /\ sweeps_done' = sweeps_done + One(done)
  /\ acc_cnt' = acc_cnt + One(done /\ cmd.record)
  /\ snap_w' = IF done /\ cmd.record THEN 0 ELSE snap_w
  /\ f_start' = FALSE /\ snapw' = -1
  /\ PFrame /\ UNCHANGED <<p_entry, p_left, p_beta>>

\* The snapshot waits for the previous sweep's walk.
Snap ==
  /\ PStep("SNAP", IF StartWalk THEN "NEXT" ELSE "SNAP")
  /\ IF SnapFree /\ snap_w < SnapRows
     THEN snapw' = snap_w /\ snap_w' = snap_w + 1
     ELSE snapw' = -1 /\ UNCHANGED snap_w
  /\ f_start' = FALSE
  /\ PFrame /\ UNCHANGED <<p_entry, p_left, p_beta, acc_cnt, sweeps_done>>

NextSweep ==
  /\ PStep("NEXT", IF p_left > 1 THEN "LOADSCH" ELSE IF cmd.imm THEN WalkGate ELSE "ENTRY")
  /\ p_left' = IF p_left > 1 THEN p_left - 1 ELSE p_left
  /\ p_entry' = IF p_left > 1 \/ cmd.imm THEN p_entry ELSE p_entry + 1
  /\ f_start' = FALSE /\ snapw' = -1
  /\ PFrame /\ UNCHANGED <<p_beta, acc_cnt, sweeps_done, snap_w>>

(***************************************************************************)
(* PDRAIN.  The counters' ports answer a cycle after their address.        *)
(***************************************************************************)

drain_len(mode) ==
  CASE mode = "STATE"     -> CeilDiv(hdr.n, STATE_SITES(q))
    [] mode = "MOMENTS"   -> 1 + (q - 1) * hdr.n + hdr.n * DEG_MAX
    [] mode = "COV"       -> 1 + hdr.n * 2 * (DEG_MAX + 1)
    [] mode = "WORK"      -> 1 + hdr.n_replicas * 2
    [] mode = "TELEMETRY" -> 12

cov_site == (d.idx - 1) \div (2 * (DEG_MAX + 1))
cov_fld == (d.idx - 1) % (2 * (DEG_MAX + 1))
cov_k == cov_fld \div 2          \* 0 is the site's own record
q_lanes == (q - 1) * hdr.n
InM1 == d.idx <= q_lanes

\* A covariance reads the site's trio, then its neighbour's count, whose
\* address must survive a wait for a credit.
Port ==
  LET flat == d.idx - 1 - q_lanes
      trio == [m1 |-> m1[cov_site][1],
               m2 |-> IF cov_k = 0 THEN 0 ELSE m2[cov_site][cov_k],
               sh |-> IF cov_k = 0 THEN NoSlot ELSE slots[cov_site][cov_k]]
  IN  IF st # "RUN" \/ d.idx = 0 \/ AllWritten \/ d.mode \notin {"MOMENTS", "COV"}
      THEN UNCHANGED dq
      ELSE dq' = IF d.mode = "MOMENTS"
                 THEN [m1 |-> IF InM1 THEN m1[(d.idx - 1) \div (q - 1)][((d.idx - 1) % (q - 1)) + 1]
                              ELSE 0,
                       m2 |-> IF InM1 THEN 0 ELSE m2[flat \div DEG_MAX][(flat % DEG_MAX) + 1],
                       sh |-> NoSlot]
                 ELSE CASE d.ph = 0 -> trio
                        [] d.ph = 1 -> [dq EXCEPT !.m1 = m1[dq.sh.nbr][1]]
                        [] d.ph > 1 -> [dq EXCEPT !.m1 = m1[d.nbr][1]]

craw == IF cov_k = 0 THEN acc_cnt * d.m1s - d.m1s * d.m1s
        ELSE IF d.shv THEN acc_cnt * d.m2v - d.m1s * d.mnb ELSE 0
Half(i, v) == <<IF i % 2 = 0 THEN "lo" ELSE "hi", v>>
drain_word ==
  CASE d.mode = "STATE" ->
         [b \in 0 .. STATE_SITES(q) - 1 |->
            LET i == d.idx * STATE_SITES(q) + b IN IF i < hdr.n THEN store[i] ELSE 0]
    [] d.mode = "MOMENTS" -> IF d.idx = 0 THEN acc_cnt ELSE IF InM1 THEN dq.m1 ELSE dq.m2
    [] d.mode = "COV" -> IF d.idx = 0 THEN acc_cnt ELSE Half(cov_fld, craw)
    [] d.mode = "WORK" ->
         IF d.idx = 0 THEN hdr.n_replicas ELSE Half(d.idx - 1, work[(d.idx - 1) \div 2])
    [] d.mode = "TELEMETRY" ->
         <<sweeps_done, upd_cnt, 0, flip_cnt, 0, cfg_words, drain_words, acc_cnt, 0, 0, 0, 0>>[d.idx + 1]

\* The command is over when every word it wrote has been answered.
Emitting(rsp) ==
  /\ st = "RUN"
  /\ IF AllWritten
     THEN LET over == req = "none" /\ cred = FACE_CRED
          IN  /\ st' = IF over THEN "IDLE" ELSE st
              /\ drain_words' = IF over THEN drain_words + d.total ELSE drain_words
              /\ UNCHANGED <<d, out>>
     ELSE /\ UNCHANGED <<st, drain_words>>
          /\ IF d.ph # d_need
             THEN /\ UNCHANGED out
                  /\ d' = CASE d.ph = 1 -> [d EXCEPT !.ph = 2, !.shv = dq.sh.valid, !.m1s = dq.m1,
                                                     !.m2v = dq.m2, !.nbr = dq.sh.nbr]
                            [] d.ph = 2 -> [d EXCEPT !.ph = 3, !.mnb = dq.m1]
                            [] d.ph = 0 -> [d EXCEPT !.ph = 1]
             ELSE IF Emit(rsp)
             THEN out' = Append(out, drain_word) /\ d' = [d EXCEPT !.idx = @ + 1, !.ph = 0]
             ELSE UNCHANGED <<d, out>>
  /\ Quiet
  /\ UNCHANGED <<loader, scan, entry, command>>

(***************************************************************************)
(* Accepting a command                                                     *)
(***************************************************************************)

Image(img) == IF img.q = 2 THEN build_image(img) ELSE qsite_image(img)
GoldenConfig(m, img) ==
  IF img.q = 2 THEN pconfig(m, Image(img), img.flags, img.work_reset)
  ELSE q_pconfig(m, Image(img), img.flags, img.work_reset)
Idle ==
  /\ st = "IDLE"
  /\ IF plan = <<>>
     THEN UNCHANGED <<st, c, track_pre, d, p_entry, acc_cnt, command, out>>
     ELSE LET x == Head(plan)
          IN  /\ cmd' = x /\ plan' = Tail(plan)
              /\ words' = IF x.op = "PCONFIG" THEN Image(x.img) ELSE <<>>
              /\ st' = CASE x.op = "PCONFIG" -> "HDR0"
                         [] x.op = "PSAMPLE" -> IF x.reset THEN "ZERO" ELSE "ENTRY"
                         [] x.op = "PDRAIN"  -> "RUN"
              /\ IF x.op = "PCONFIG"
                 THEN c' = [c EXCEPT !.iss = 0, !.tot = 3, !.rsp = 0]
                      /\ track_pre' = hdr.work_track
                 ELSE UNCHANGED <<c, track_pre>>
              /\ IF x.op = "PSAMPLE"
                 THEN p_entry' = 0 /\ acc_cnt' = IF x.reset THEN 0 ELSE acc_cnt
                 ELSE UNCHANGED <<p_entry, acc_cnt>>
              /\ IF x.op = "PDRAIN"
                 THEN d' = [d EXCEPT !.mode = x.mode, !.idx = 0, !.ph = 0,
                                     !.total = drain_len(x.mode)] /\ out' = <<>>
                 ELSE UNCHANGED <<d, out>>
  /\ Quiet
  /\ UNCHANGED <<hdr, q, bipolar, n_colors, sched, cfg_words, scan, p_left, p_beta, sweeps_done,
                 snap_w, drain_words>>

(***************************************************************************)
(* The golden machine beside it                                            *)
(***************************************************************************)

EndSweep(m) ==
  LET h == [m EXCEPT !.sweeps_done = @ + 1]
  IN  IF ~cmd'.record THEN h ELSE IF h.q = 2 THEN _accumulate(h) ELSE q_accumulate(h)
\* Sweeps whose chunks are all done are over.
Settle(m, steps) ==
  LET chunks == {k \in DOMAIN steps : steps[k].chunk # <<>>}
      ends == IF chunks = {} THEN Len(steps) ELSE Min(chunks) - 1
  IN  /\ g' = FoldLeft(LAMBDA h, x : EndSweep(h), m, SubSeq(steps, 1, ends))
      /\ todo' = SubSeq(steps, ends + 1, Len(steps))

Deciding == gst = (IF q = 8 THEN "SMP1B" ELSE "SMP1")
Golden(ws) ==
  \/ /\ st = "IDLE" /\ plan # <<>>
     /\ LET x == Head(plan)
        IN  CASE x.op = "PCONFIG" -> g' = GoldenConfig(g, x.img) /\ UNCHANGED <<todo, gout>>
              [] x.op = "PSAMPLE" -> /\ LET h == StatsReset(g, x) IN Settle(h, psample_steps(h, x))
                                     /\ UNCHANGED gout
              [] x.op = "PDRAIN"  -> /\ gout' = pdrain_words(g, x.mode)
                                     /\ g' = (IF g.q = 2 THEN pdrain(g, x.mode) ELSE q_pdrain(g, x.mode))
                                     /\ UNCHANGED todo
  \/ /\ Deciding /\ todo # <<>>
     /\ LET t == Head(todo)
            h == IF q = 2 THEN _sweep_chunk(g, t.beta, t.chunk, [k \in DOMAIN t.chunk |-> ws[k - 1]])
                 ELSE q_sweep_chunk(g, t.beta, t.chunk,
                        [k \in DOMAIN t.chunk |->
                           IF q = 8 THEN <<lane[k - 1].w, ws[k - 1]>> ELSE <<ws[k - 1]>>])
        IN  Settle(h, Tail(todo))
     /\ UNCHANGED gout
  \/ /\ ~(st = "IDLE" /\ plan # <<>>) /\ ~(Deciding /\ todo # <<>>)
     /\ UNCHANGED <<g, todo, gout>>

(***************************************************************************)
(* One clock cycle                                                         *)
(***************************************************************************)

Sequencer(rsp) ==
  \/ Hdr0(rsp) \/ Hdr1(rsp) \/ Hdr2(rsp) \/ Sect \/ Rows(rsp) \/ OrdN(rsp) \/ OrdCb(rsp)
  \/ OrdIdx(rsp) \/ Sched(rsp) \/ Seeds(rsp) \/ State(rsp) \/ Rid(rsp) \/ Scan \/ Copy \/ Fin
  \/ Zero \/ Entry \/ LoadSch \/ Start \/ WaitDone \/ Snap \/ NextSweep
Command(rsp) ==
  \/ Idle
  \/ Emitting(rsp)
  \/ Sequencer(rsp) /\ UNCHANGED out

ClusterNext ==
  \E rsp \in BOOLEAN :
    \E ws \in IF gst \in {"SMP1", "SMP1B"} THEN Draws ELSE {[l \in Lanes |-> AnyWord]} :
      /\ Face(rsp)
      /\ FabricCycle(f_start, p_beta, StateWord, ws)
      /\ ConfigWrite /\ CounterWrite /\ Walker /\ Snapshot /\ Port
      /\ Command(rsp)
      /\ Golden(ws)

ClusterSpec == ClusterInit /\ [][ClusterNext]_cluster_vars
\* The clock runs; a cycle that only an answer could move gets the answer.
FairClusterSpec == ClusterSpec /\ WF_cluster_vars(ClusterNext)

(***************************************************************************)
(* Properties                                                              *)
(***************************************************************************)

\* The pool never overflows and no beat leaves without a credit; no section,
\* drain or command ends with a beat unanswered; an image is asked for and read
\* to its last word and no further.
FaceCredits ==
  /\ cred \in 0 .. FACE_CRED /\ infl \in 0 .. FACE_CRED
  /\ req # "none" => cred > 0
  /\ st \notin Streaming \union {"RUN"} => infl = 0 /\ req = "none"
  /\ st \in Streaming => c.rsp < Len(words) /\ c.rsp + infl + One(req # "none") <= Len(words)
  /\ cmd.op = "PCONFIG" /\ st = "IDLE" => c.rsp = Len(words)

\* The inductive invariant behind it.  SectionWords: the words the builder gives
\* a section; Before(img, k): the words of an image before its section k.
SectionWords(img, s) ==
  IF s \notin img.flags THEN 0 ELSE
  CASE s = "ROWS"  -> img.n * (DEG_MAX + (IF img.q = 8 THEN 3 ELSE 1))
    [] s = "ORDER" -> 1 + COLORS_MAX + Len(img.order)
    [] s = "SCHED" -> Len(img.sched)
    [] s = "SEEDS" -> SEED_WORDS
    [] s = "STATE" -> CeilDiv(img.n, STATE_SITES(img.q))
    [] s = "RID"   -> CeilDiv(img.n, RID_SITES)
Before(img, k) ==
  LET upto(i) == IF i < k THEN SectionWords(img, SectionOrder[i]) ELSE 0
  IN  3 + upto(1) + upto(2) + upto(3) + upto(4) + upto(5) + upto(6)

\* Section k is being read: past skipped of its words, taken of total are taken,
\* and the beats asked for beyond them are on the face or unanswered.
Reading(k, skipped, total, taken) ==
  /\ c.sect = k /\ Flagged(SectionOrder[k])
  /\ c.rsp = Before(cmd.img, k) + skipped + taken
  /\ c.tot = total /\ taken < total
  /\ taken + infl + One(req # "none") = c.iss /\ c.iss <= c.tot
HeaderWords == [s \in {"HDR0", "HDR1", "HDR2"} |-> IF s = "HDR0" THEN 0 ELSE IF s = "HDR1" THEN 1 ELSE 2]
InHeader ==
  st \in DOMAIN HeaderWords =>
    /\ c.rsp = HeaderWords[st] /\ c.tot = 3
    /\ c.rsp + infl + One(req # "none") = c.iss /\ c.iss <= c.tot
InSection ==
  /\ st = "ROWS" => /\ Reading(1, 0, hdr.n * RowWords, c.site * RowWords + c.slot)
                    /\ c.site < hdr.n /\ c.slot < RowWords
  /\ st = "ORD_N" => Reading(2, 0, 1, 0)
  /\ st = "ORD_CB" => Reading(2, 1, COLORS_MAX, c.idx)
  /\ st = "ORD_IDX" => Reading(2, 1 + COLORS_MAX, c.nord, c.idx)
  /\ st \in {"ORD_CB", "ORD_IDX"} => c.nord = Len(cmd.img.order)
  /\ st = "SCHED" => Reading(3, 0, hdr.n_sched, c.idx)
  /\ st = "SEEDS" => Reading(4, 0, SEED_WORDS, c.idx)
  /\ st = "STATE" => Reading(5, 0, CeilDiv(hdr.n, STATE_SITES(q)), c.idx)
  /\ st = "RID" => Reading(6, 0, CeilDiv(hdr.n, RID_SITES), c.idx)
Between ==
  /\ st \in {"SCAN", "COPY", "SECT"} => c.sect \in 1 .. 7 /\ c.rsp = Before(cmd.img, c.sect)
  /\ st = "FIN" \/ (cmd.op = "PCONFIG" /\ st = "IDLE") => c.rsp = Before(cmd.img, 7)

Configuring == Streaming \union {"SCAN", "COPY", "SECT", "FIN"}
Sampling == {"ZERO", "ENTRY", "LOADSCH", "START", "WAIT", "SNAP", "NEXT"}
\* The header's lengths are the image's once they are read.
HeaderKnown ==
  /\ st \in Configuring \ {"HDR0", "HDR1"} => hdr.n = cmd.img.n
  /\ st \in Configuring \ DOMAIN HeaderWords =>
       q = cmd.img.q /\ (Flagged("SCHED") => hdr.n_sched = Len(cmd.img.sched))
FaceType ==
  /\ st \in Configuring \union Sampling \union {"RUN", "IDLE"}
  /\ c \in [iss : Nat, tot : Nat, rsp : Nat, sect : Nat, site : Nat, slot : Nat, idx : Nat, nord : Nat]
  /\ DOMAIN hdr = {"n", "work_track", "n_sched", "n_replicas"}
  /\ plan \in Seq(ToSet(plan))
  /\ \A x \in ToSet(plan) : /\ x.op \in {"PCONFIG", "PSAMPLE", "PDRAIN"}
                            /\ x.op = "PCONFIG" => ProperImage(x.img)
  /\ cmd.op = "PCONFIG" => ProperImage(cmd.img) /\ words = Image(cmd.img)
  /\ st \in Configuring => cmd.op = "PCONFIG"
  /\ st \in Sampling => cmd.op = "PSAMPLE"
  /\ st = "RUN" => cmd.op = "PDRAIN"
PoolKept ==
  /\ cred \in Nat /\ infl \in Nat /\ cred + infl = FACE_CRED
  /\ req # "none" => cred > 0
  /\ st \notin Streaming \union {"RUN"} => infl = 0 /\ req = "none"
FaceInv == FaceType /\ PoolKept /\ HeaderKnown /\ InHeader /\ InSection /\ Between

\* Between commands everything the chip keeps is what the golden model keeps:
\* parameters, site values, replicas and their work, counters and telemetry;
\* and the engine never decides a chunk the golden sweep has not got.
ArchGolden ==
  /\ Deciding => todo # <<>>
  /\ cmd.op = "PCONFIG" /\ q = 2 => _check_invariants(g, cmd.img.flags)
  /\ st = "IDLE" /\ g.n > 0 =>
       /\ todo = <<>>
       /\ <<hdr.n, q, bipolar, hdr.work_track, hdr.n_replicas>>
            = <<g.n, g.q, g.bipolar, g.work_track, g.n_replicas>>
       /\ \A i \in GSites(g) :
            /\ store[i] = g.s[i] /\ rid[i] = g.rid[i] /\ slots[i] = g.slots[i]
            /\ m2[i] = g.m2[i]
            /\ \A a \in 1 .. q - 1 : bias[i][a] = g.bias[i][a] /\ m1[i][a] = g.m1[i][a]
       /\ \A k \in DOMAIN g.order : order[k - 1] = g.order[k]
       /\ hdr.n_sched = Len(g.sched) /\ \A k \in DOMAIN g.sched : sched[k - 1] = g.sched[k]
       /\ \A r \in 0 .. g.n_replicas - 1 : work[r] = g.work[r]
       /\ <<acc_cnt, sweeps_done, upd_cnt, flip_cnt, cfg_words, drain_words>>
            = <<g.cnt, g.sweeps_done, g.upd_cnt, g.flip_cnt, g.cfg_words, g.drain_words>>

\* A drain writes the golden words, each in its turn, whatever the credits do,
\* and all of them are in memory when the command is over.
DrainGolden ==
  /\ cmd.op = "PDRAIN" => IsPrefix(out, gout)
  /\ cmd.op = "PDRAIN" /\ st = "IDLE" => out = gout

\* A command ends, whatever the memory's delays and the words the farms give.
CommandEnds == st # "IDLE" ~> st = "IDLE"
==============================================================================
