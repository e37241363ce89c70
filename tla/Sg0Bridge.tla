------------------------------ MODULE Sg0Bridge ------------------------------
(***************************************************************************)
(* The data-memory quarter of rtl/sg0_bridge.sv: the credit face of the    *)
(* SoC on one side, an AXI4 master on the carveout DRAM on the other.  A   *)
(* ring absorbs the request pulses, a state machine with one transaction   *)
(* outstanding drains it in order.                                         *)
(*                                                                         *)
(* One step is a clock edge.  Its inputs:                                  *)
(*   b     the beat the SoC pulses on dmem_*, or NoBeat                    *)
(*   axi   the AXI channels on which the slave is ready or answers         *)
(*   ctl   the run bit the host's CTRL write leaves (mkuio RESET and RUN)  *)
(* The slave accepts AW and W in either order or together, and performs a  *)
(* write when it answers on B; byte strobes are left out (a word is        *)
(* written whole), and so is the constant CARVE_BASE.                      *)
(***************************************************************************)
EXTENDS Integers, Sequences

CONSTANTS
  Addrs, Values, Initial, Ack, NoAnswer, NoBeat,
  CRED,     \* beats the SoC may have in flight
  DEPTH,    \* slots of the ring; its pointers count modulo 2 * DEPTH
  HostWaits \* the host releases the SoC only when the bridge has drained

ASSUME DepthAssumption == DEPTH \in Nat \ {0} /\ CRED \in 1 .. DEPTH
ASSUME HostAssumption == HostWaits \in BOOLEAN
ASSUME InitialAssumption == Initial \in Values
ASSUME AnswerAssumption == NoAnswer \notin Values \union {Ack}

VARIABLES
  run_q,    \* CTRL.run: the SoC is out of reset
  infl,     \* beats the SoC has pulsed since its release and not seen acked
  dq,       \* the ring's slots
  dq_wi, dq_ri,
  dst,      \* the state of the AXI master
  cur,      \* the beat it works on
  aw_done, w_done,
  dmem_ack, dmem_rdata,
  dram      \* the carveout

vars == <<run_q, infl, dq, dq_wi, dq_ri, dst, cur, aw_done, w_done,
          dmem_ack, dmem_rdata, dram>>

Read(a) == [we |-> FALSE, addr |-> a]
Write(a, d) == [we |-> TRUE, addr |-> a, data |-> d]
Beats == {Read(a) : a \in Addrs} \union {Write(a, d) : a \in Addrs, d \in Values}

Channels == {"arready", "rvalid", "awready", "wready", "bvalid"}

(***************************************************************************)
(* Wires                                                                   *)
(***************************************************************************)

dq_occ == (dq_wi - dq_ri) % (2 * DEPTH)
Slot(p) == p % DEPTH

\* A plausible bug: a pointer without its wrap bit.
BumpNoWrapBit(p) == (p + 1) % DEPTH

Bump(p) == (p + 1) % (2 * DEPTH)
dq_empty == dq_occ = 0
dq_head == dq[Slot(dq_ri)]

\* The channels the master waits on.  A response only follows its request, and
\* no state looks at a ready signal of another channel.
Waiting ==
  CASE dst = "IDLE" -> {}
    [] dst = "AR" -> {"arready"}
    [] dst = "R"  -> {"rvalid"}
    [] dst = "AW" -> (IF aw_done THEN {} ELSE {"awready"}) \union
                     (IF w_done THEN {} ELSE {"wready"})
    [] dst = "B"  -> {"bvalid"}

(***************************************************************************)
(* The handlers of one clock edge                                          *)
(***************************************************************************)

Enqueue(b) ==
  /\ dq' = IF b = NoBeat THEN dq ELSE [dq EXCEPT ![Slot(dq_wi)] = b]
  /\ dq_wi' = IF b = NoBeat THEN dq_wi ELSE Bump(dq_wi)


Idle ==
  /\ dst = "IDLE"
  /\ IF dq_empty
     THEN UNCHANGED <<dst, cur, dq_ri, aw_done, w_done>>
     ELSE /\ cur' = dq_head
          /\ dq_ri' = Bump(dq_ri)
          /\ dst' = IF dq_head.we THEN "AW" ELSE "AR"
          /\ aw_done' = IF dq_head.we THEN FALSE ELSE aw_done
          /\ w_done' = IF dq_head.we THEN FALSE ELSE w_done
  /\ dmem_ack' = FALSE
  /\ UNCHANGED <<dmem_rdata, dram>>

ReadAddress(axi) ==
  /\ dst = "AR"
  /\ dst' = IF "arready" \in axi THEN "R" ELSE dst
  /\ dmem_ack' = FALSE
  /\ UNCHANGED <<cur, dq_ri, aw_done, w_done, dmem_rdata, dram>>

ReadData(axi) ==
  /\ dst = "R"
  /\ dst' = IF "rvalid" \in axi THEN "IDLE" ELSE dst
  /\ dmem_ack' = ("rvalid" \in axi)
  /\ dmem_rdata' = IF "rvalid" \in axi THEN dram[cur.addr] ELSE dmem_rdata
  /\ UNCHANGED <<cur, dq_ri, aw_done, w_done, dram>>

\* Plausible bugs: a posted write, answered when its data has been taken, that
\* younger beats overtake;
WritePosted(axi) ==
  /\ dst = "AW"
  /\ aw_done' = (aw_done \/ "awready" \in axi)
  /\ w_done' = (w_done \/ "wready" \in axi)
  /\ dst' = IF aw_done' /\ w_done' THEN "IDLE" ELSE dst
  /\ dmem_ack' = (aw_done' /\ w_done')
  /\ UNCHANGED <<cur, dq_ri, dmem_rdata, dram>>

\* the two handshakes must come at the same edge.
WriteTogether(axi) ==
  /\ dst = "AW"
  /\ aw_done' = (aw_done \/ "awready" \in axi)
  /\ w_done' = (w_done \/ "wready" \in axi)
  /\ dst' = IF {"awready", "wready"} \subseteq axi THEN "B" ELSE dst
  /\ dmem_ack' = FALSE
  /\ UNCHANGED <<cur, dq_ri, dmem_rdata, dram>>

\* AW and W are accepted independently.
WriteAddress(axi) ==
  /\ dst = "AW"
  /\ aw_done' = (aw_done \/ "awready" \in axi)
  /\ w_done' = (w_done \/ "wready" \in axi)
  /\ dst' = IF aw_done' /\ w_done' THEN "B" ELSE dst
  /\ dmem_ack' = FALSE
  /\ UNCHANGED <<cur, dq_ri, dmem_rdata, dram>>

WriteAnswer(axi) ==
  /\ dst = "B"
  /\ dst' = IF "bvalid" \in axi THEN "IDLE" ELSE dst
  /\ dmem_ack' = ("bvalid" \in axi)
  /\ dram' = IF "bvalid" \in axi THEN [dram EXCEPT ![cur.addr] = cur.data] ELSE dram
  /\ UNCHANGED <<cur, dq_ri, aw_done, w_done, dmem_rdata>>

Master(axi) ==
  Idle \/ ReadAddress(axi) \/ ReadData(axi) \/ WriteAddress(axi) \/ WriteAnswer(axi)

(***************************************************************************)
(* The SoC and the host                                                    *)
(***************************************************************************)

Drained == dq_empty /\ dst = "IDLE" /\ ~dmem_ack

\* The CTRL write.  Stopping the SoC clears its own counts at once and leaves
\* the ring, the AXI master and the DRAM alone.
Host(ctl) ==
  /\ ctl /\ ~run_q /\ HostWaits => Drained
  /\ run_q' = ctl

SoC(b) ==
  /\ b # NoBeat => run_q /\ infl < CRED
  /\ infl' = IF run_q /\ run_q'
             THEN infl + (IF b = NoBeat THEN 0 ELSE 1) - (IF dmem_ack THEN 1 ELSE 0)
             ELSE 0

Edge(b, axi, ctl) ==
  /\ Host(ctl)
  /\ SoC(b)
  /\ Enqueue(b)
  /\ Master(axi)

Init ==
  /\ run_q = FALSE
  /\ infl = 0
  /\ dq = [i \in 0 .. DEPTH - 1 |-> NoBeat]
  /\ dq_wi = 0
  /\ dq_ri = 0
  /\ dst = "IDLE"
  /\ cur = NoBeat
  /\ aw_done = FALSE
  /\ w_done = FALSE
  /\ dmem_ack = FALSE
  /\ dmem_rdata = Initial
  /\ dram = [a \in Addrs |-> Initial]

Next ==
  \E b \in Beats \union {NoBeat}, axi \in SUBSET Waiting, ctl \in BOOLEAN : Edge(b, axi, ctl)

\* The edges at which the slave answers on channel ch.
Answers(ch) ==
  \E b \in Beats \union {NoBeat}, axi \in SUBSET Waiting, ctl \in BOOLEAN :
    ch \in axi /\ Edge(b, axi, ctl)

Spec == Init /\ [][Next]_vars

\* An edge that the clock forces: registers change though nobody else acts.
Forced == ENABLED <<Edge(NoBeat, {}, run_q)>>_vars /\ Next

\* The clock runs, and the slave keeps the promise AXI asks of it: no channel
\* stays unanswered, and no answer waits for another channel's.
FairSpec ==
  /\ Spec
  /\ WF_vars(Forced)
  /\ \A ch \in Channels : WF_vars(Answers(ch))

-----------------------------------------------------------------------------
(***************************************************************************)
(* Properties                                                              *)
(***************************************************************************)

TypeOK ==
  /\ run_q \in BOOLEAN
  /\ infl \in 0 .. CRED
  /\ dq \in [0 .. DEPTH - 1 -> Beats \union {NoBeat}]
  /\ dq_wi \in 0 .. 2 * DEPTH - 1
  /\ dq_ri \in 0 .. 2 * DEPTH - 1
  /\ dst \in {"IDLE", "AR", "R", "AW", "B"}
  /\ cur \in Beats \union {NoBeat}
  /\ aw_done \in BOOLEAN
  /\ w_done \in BOOLEAN
  /\ dmem_ack \in BOOLEAN
  /\ dmem_rdata \in Values
  /\ dram \in [Addrs -> Values]

\* Beats taken from the SoC and not answered, oldest first
Pending ==
  (IF dst = "IDLE" THEN <<>> ELSE <<cur>>)
    \o [i \in 1 .. dq_occ |-> dq[Slot(dq_ri + i - 1)]]

\* The assertion of line 262 (the ring is never overrun), with what makes it
\* true: the SoC's own count covers every beat in the bridge, while it runs.
CreditsCoverRing ==
  /\ TypeOK
  /\ dq_occ <= DEPTH
  /\ run_q => infl = Len(Pending) + (IF dmem_ack THEN 1 ELSE 0)

\* The last write to a before the i-th pending beat decides what it reads.
Seen(i, a) ==
  LET writes == {j \in 1 .. i - 1 : Pending[j].we /\ Pending[j].addr = a}
  IN  IF writes = {} THEN dram[a]
      ELSE Pending[CHOOSE j \in writes : \A k \in writes : k <= j].data
Promised(i) == IF Pending[i].we THEN Ack ELSE Seen(i, Pending[i].addr)

\* The bridge and the DRAM are a MemoryFace: one response per beat, in request
\* order, a read's with the value of the last write pulsed before it.
Face == INSTANCE MemoryFace
          WITH mem <- [a \in Addrs |-> Seen(Len(Pending) + 1, a)],
               owed <- [i \in 1 .. Len(Pending) |-> Promised(i)],
               answer <- IF ~dmem_ack THEN NoAnswer
                         ELSE IF cur.we THEN Ack ELSE dmem_rdata
FlatMemoryFace == Face!Spec

\* The bridge acks whatever it holds: with the order above, every beat.
EveryBeatAcked == Pending # <<>> ~> dmem_ack
=============================================================================
