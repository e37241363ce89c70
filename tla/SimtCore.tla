------------------------------- MODULE SimtCore -------------------------------
(***************************************************************************)
(* The control of rtl/simt/simt_core.sv with its scheduler barrel_sched.sv: *)
(* the never-skipping rotation, the pipe, the two retirement paths and the *)
(* reconvergence walker that all warps share.                              *)
(*                                                                         *)
(* One step is a clock edge.  Its inputs:                                  *)
(*   taken    the lanes whose branch condition holds, for the instruction  *)
(*            in EX                                                        *)
(*   drained  the memory unit finishes the beats of its instruction        *)
(* The memory unit is reduced to its queue and its states IDLE, DRAIN (for *)
(* PICK, REQ and WLB) and DONE.  Instructions are those of SimtIss.        *)
(***************************************************************************)
EXTENDS Integers, Sequences, FiniteSets

CONSTANTS
  W,         \* warps
  Lanes, STK, Handler,
  Programs   \* what may be in instruction memory, as each warp decodes it: a
             \* set of functions from warps to functions from 0 .. n to
             \* instructions

ASSUME RotationAssumption == W \in Nat /\ W >= 5
ASSUME StackAssumption == STK \in Nat \ {0}
ASSUME LaneAssumption == Lanes # {}

VARIABLES
  code,       \* the warps' programs
  phase,      \* the warp that has this cycle's fetch slot
  stage,      \* the pipe: D, EX, M, WB
  busy,       \* warps with a memory instruction that has left the pipe
  pc, amask, stk,  \* the warps' control state, a stack's top first
  walk_pend,  \* warps whose reconvergence is not finished
  muq,        \* memory unit: instructions waiting, oldest first
  mu_st, mu_cur,
  clr         \* clr_busy and clr_warp: the warps to clear

vars == <<code, phase, stage, busy, pc, amask, stk, walk_pend, muq, mu_st, mu_cur, clr>>

Warps == 0 .. W - 1
Stages == {"D", "EX", "M", "WB"}
Bubble == [warp |-> W]
Valid(s) == stage[s].warp # W

Iss == INSTANCE SimtIss

\* A warp's program is the part of instruction memory that it can reach.
Classes == {"alu", "mem", "illegal", "jump", "branch"}
Closed(f) ==
  /\ DOMAIN f \subseteq Nat /\ {0, Handler} \subseteq DOMAIN f
  /\ \A a \in DOMAIN f :
       /\ f[a].op \in Classes
       /\ f[a].op \in {"alu", "mem", "branch"} => a + 1 \in DOMAIN f
       /\ f[a].op \in {"jump", "branch"} => f[a].tgt \in DOMAIN f
ASSUME ProgramAssumption == \A p \in Programs, w \in Warps : Closed(p[w])

\* The scheme splits at a branch that skips an instruction (tgt > pc + 4); for
\* one to the next instruction core and golden model differ.
Skips(f) == \A a \in DOMAIN f : f[a].op = "branch" => f[a].tgt # a + 1
ASSUME SkipAssumption == \A p \in Programs, w \in Warps : Skips(p[w])

(***************************************************************************)
(* Fetch and execute                                                       *)
(***************************************************************************)

\* A plausible bug: the walker does not hold the fetch.
IssueWhileWalking == phase \notin busy

issue_valid == phase \notin busy /\ phase \notin walk_pend

Fetch == IF issue_valid THEN [warp |-> phase, pc |-> pc[phase]] ELSE Bubble

\* The mask is read one stage after the pc.
Decode ==
  IF Valid("D")
  THEN [warp |-> stage["D"].warp, pc |-> stage["D"].pc, mask |-> amask[stage["D"].warp]]
  ELSE Bubble

\* A plausible bug: a push does not check the stack's depth.
ExecuteNoOverflow(taken) ==
  LET s == stage["EX"]
      i == code[s.warp][s.pc]
      result(next, other, trap) ==
        [warp |-> s.warp, pc |-> s.pc, mask |-> s.mask, next |-> next,
         other |-> other, trap |-> trap, mem |-> i.op = "mem"]
  IN  IF ~Valid("EX") THEN Bubble
      ELSE CASE i.op \in {"alu", "mem"} -> result(s.pc + 1, {}, FALSE)
             [] i.op = "illegal" -> result(s.pc + 1, {}, TRUE)
             [] i.op = "jump" -> result(i.tgt, {}, FALSE)
             [] i.op = "branch" ->
                  IF taken = {} THEN result(s.pc + 1, {}, FALSE)
                  ELSE IF taken = s.mask THEN result(i.tgt, {}, FALSE)
                  ELSE IF i.tgt <= s.pc THEN result(s.pc + 1, {}, TRUE)
                  ELSE result(s.pc + 1, taken, FALSE)

\* What EX decides: the next pc, a push of the lanes that go the other way, a
\* trap, or that the instruction leaves the pipe at M.
Execute(taken) ==
  LET s == stage["EX"]
      i == code[s.warp][s.pc]
      result(next, other, trap) ==
        [warp |-> s.warp, pc |-> s.pc, mask |-> s.mask, next |-> next,
         other |-> other, trap |-> trap, mem |-> i.op = "mem"]
  IN  IF ~Valid("EX") THEN Bubble
      ELSE CASE i.op \in {"alu", "mem"} -> result(s.pc + 1, {}, FALSE)
             [] i.op = "illegal" -> result(s.pc + 1, {}, TRUE)
             [] i.op = "jump" -> result(i.tgt, {}, FALSE)
             [] i.op = "branch" ->
                  IF taken = {} THEN result(s.pc + 1, {}, FALSE)
                  ELSE IF taken = s.mask THEN result(i.tgt, {}, FALSE)
                  ELSE IF i.tgt <= s.pc \/ Len(stk[s.warp]) >= STK
                  THEN result(s.pc + 1, {}, TRUE)
                  ELSE result(s.pc + 1, taken, FALSE)

Pipe(taken) ==
  stage' = [s \in Stages |-> CASE s = "D" -> Fetch
                               [] s = "EX" -> Decode
                               [] s = "M" -> Execute(taken)
                               [] s = "WB" -> stage["M"]]

Rotate == phase' = (phase + 1) % W

(***************************************************************************)
(* The memory unit                                                         *)
(***************************************************************************)

m_is_mem == Valid("M") /\ stage["M"].mem /\ ~stage["M"].trap

MemoryUnit(drained) ==
  /\ muq' = LET rest == IF mu_st = "IDLE" /\ muq # <<>> THEN Tail(muq) ELSE muq
            IN  IF m_is_mem THEN Append(rest, stage["M"]) ELSE rest
  /\ mu_cur' = IF mu_st = "IDLE" /\ muq # <<>> THEN Head(muq) ELSE mu_cur
  /\ mu_st' = CASE mu_st = "IDLE" -> IF muq # <<>> THEN "DRAIN" ELSE "IDLE"
                [] mu_st = "DRAIN" -> IF drained THEN "DONE" ELSE "DRAIN"
                [] mu_st = "DONE" -> "IDLE"
  /\ clr' = IF mu_st = "DONE" THEN {mu_cur.warp} ELSE {}

Busy == busy' = (busy \union (IF m_is_mem THEN {stage["M"].warp} ELSE {})) \ clr

(***************************************************************************)
(* Retirement and the walker                                               *)
(***************************************************************************)

\* The instruction that retires from WB, and the warp whose memory instruction
\* completes
wb == stage["WB"]
wb_v == Valid("WB") /\ (wb.trap \/ ~wb.mem)
Retires(w) == wb_v /\ wb.warp = w
Completes(w) == mu_st = "DONE" /\ mu_cur.warp = w

\* The first check of the golden loop, made at retirement
Arms(w, next) == stk[w] # <<>> /\ next >= Head(stk[w]).reconv

\* The walker serves the lowest waiting warp, one check or pop in a cycle.
Walks(w) == w \in walk_pend /\ \A v \in walk_pend : w <= v
Pops(w) == Walks(w) /\ stk[w] # <<>> /\ pc[w] >= Head(stk[w]).reconv
Switches(w) == Pops(w) /\ Head(stk[w]).pending
Joins(w) == Pops(w) /\ ~Head(stk[w]).pending

\* In the clocked block the walker is written last, the completion first.
ProgramCounters ==
  pc' = [w \in Warps |->
           IF Switches(w) THEN Head(stk[w]).restart
           ELSE IF Retires(w) THEN (IF wb.trap THEN Handler ELSE wb.next)
           ELSE IF Completes(w) THEN mu_cur.pc + 1
           ELSE pc[w]]

Masks ==
  amask' = [w \in Warps |->
              IF Switches(w) THEN Head(stk[w]).other
              ELSE IF Joins(w) THEN Head(stk[w]).join
              ELSE IF Retires(w) /\ wb.other # {} THEN wb.mask \ wb.other
              ELSE amask[w]]

Pushed(w) ==
  LET t == code[w][wb.pc].tgt
  IN  <<[other |-> wb.other, restart |-> t, join |-> wb.mask,
         reconv |-> t, pending |-> TRUE]>> \o stk[w]

Stacks ==
  stk' = [w \in Warps |->
            IF Switches(w)
            THEN <<[Head(stk[w]) EXCEPT !.pending = FALSE, !.reconv = pc[w]]>> \o Tail(stk[w])
            ELSE IF Joins(w) THEN Tail(stk[w])
            ELSE IF Retires(w) /\ wb.other # {} THEN Pushed(w)
            ELSE stk[w]]

\* A plausible bug: a walk ends with the switch, without the re-check (D-016).
WalkEndsAtSwitch ==
  walk_pend' = {w \in Warps :
                  IF Walks(w) THEN Joins(w)
                  ELSE \/ w \in walk_pend
                       \/ Retires(w) /\ ~wb.trap /\ wb.other = {} /\ Arms(w, wb.next)
                       \/ Completes(w) /\ Arms(w, mu_cur.pc + 1)}

\* A retirement that pushes does not arm the walker.
WalkPending ==
  walk_pend' = {w \in Warps :
                  IF Walks(w) THEN Pops(w)
                  ELSE \/ w \in walk_pend
                       \/ Retires(w) /\ ~wb.trap /\ wb.other = {} /\ Arms(w, wb.next)
                       \/ Completes(w) /\ Arms(w, mu_cur.pc + 1)}

Edge(taken, drained) ==
  /\ Rotate
  /\ Pipe(taken)
  /\ MemoryUnit(drained)
  /\ Busy
  /\ ProgramCounters
  /\ Masks
  /\ Stacks
  /\ WalkPending
  /\ UNCHANGED code

Init ==
  /\ code \in Programs
  /\ phase = 0
  /\ stage = [s \in Stages |-> Bubble]
  /\ busy = {}
  /\ pc = [w \in Warps |-> 0]
  /\ amask = [w \in Warps |-> Lanes]
  /\ stk = [w \in Warps |-> <<>>]
  /\ walk_pend = {}
  /\ muq = <<>>
  /\ mu_st = "IDLE"
  /\ mu_cur = Bubble
  /\ clr = {}

\* Lanes outside the mask, or of an instruction that is no branch, take nothing.
MayTake ==
  IF Valid("EX") /\ code[stage["EX"].warp][stage["EX"].pc].op = "branch"
  THEN SUBSET stage["EX"].mask ELSE {{}}

Next == \E taken \in MayTake, drained \in BOOLEAN : Edge(taken, drained)

Spec == Init /\ [][Next]_vars

-----------------------------------------------------------------------------
(***************************************************************************)
(* Properties                                                              *)
(***************************************************************************)

Entry == [other : SUBSET Lanes, restart : Nat, join : SUBSET Lanes,
          reconv : Nat, pending : BOOLEAN]

TypeOK ==
  /\ phase \in Warps
  /\ \A s \in Stages : stage[s].warp \in Warps \union {W}
  /\ busy \subseteq Warps
  /\ pc \in [Warps -> Nat]
  /\ amask \in [Warps -> (SUBSET Lanes) \ {{}}]
  /\ stk \in [Warps -> Seq(Entry)]
  /\ walk_pend \subseteq Warps
  /\ mu_st \in {"IDLE", "DRAIN", "DONE"}
  /\ clr \subseteq Warps

\* The warps that the memory unit holds
InMemoryUnit ==
  {muq[k].warp : k \in 1 .. Len(muq)} \union
  (IF mu_st = "IDLE" THEN {} ELSE {mu_cur.warp})

\* INV-1, INV-4 and INV-18: a warp is in at most one place, and its state has
\* at most one writer: the pipe, the memory unit with its busy bit, or the
\* walker, whatever the three do in one cycle (simt_core.sv:871-873).
OnePlace ==
  /\ TypeOK
  /\ \A s, t \in Stages : s # t /\ Valid(s) => stage[s].warp # stage[t].warp
  /\ \A i, j \in 1 .. Len(muq) : i # j => muq[i].warp # muq[j].warp
  /\ busy = InMemoryUnit \union clr
  /\ \A s \in Stages :
       Valid(s) => /\ stage[s].warp \notin walk_pend
                   /\ stage[s].warp \in busy => s = "WB" /\ ~wb_v
  /\ InMemoryUnit \intersect walk_pend = {}
  /\ Len(muq) <= W

\* INV-16: the stack is bounded, and its joins are nested: an entry's sides
\* partition its join, and the entry above splits one side of it.
StackNested ==
  \A w \in Warps :
    /\ Len(stk[w]) <= STK
    /\ \A k \in 1 .. Len(stk[w]) :
         LET below == stk[w][k]
             running == IF k = 1 THEN amask[w] ELSE stk[w][k - 1].join
         IN  /\ below.other # {} /\ below.other \subseteq below.join
             /\ running = IF below.pending THEN below.join \ below.other ELSE below.other

\* Every warp runs as the golden model runs it, instruction by instruction:
\* the walker's turns, spread over cycles and shared between warps, are the
\* golden loop.
Walked(w) ==
  LET s == [pc |-> pc[w], mask |-> amask[w], stack |-> stk[w]]
  IN  IF w \in walk_pend THEN Iss!Reconverge(s) ELSE s
GoldenStep(w) ==
  \E taken \in SUBSET Walked(w).mask :
    Walked(w)' = Iss!Step(Walked(w), code[w][Walked(w).pc], taken)
GoldenTrajectory ==
  [][\A w \in Warps : Walked(w)' = Walked(w) \/ GoldenStep(w)]_vars

\* INV-10 without its bound (docs/HARDWARE_ARCHITECTURE.md:59): a warp that is
\* not busy retires.
ReadyWarpRetires ==
  \A w \in Warps : w \notin busy ~> (Retires(w) \/ Completes(w))
=============================================================================
