---------------------------- MODULE CommandQueue ----------------------------
(***************************************************************************)
(* The command socket (D-032d): the staging registers, the queue and the   *)
(* dispatcher of simt_core.sv, and the two engines of simt_soc.sv as far   *)
(* as their doorbell and busy go.                                          *)
(*                                                                         *)
(* One hart issues (mk.h).  Its instructions are W or more cycles apart;   *)
(* a GO checks the queue in EX and enqueues in WB, two edges later.  The   *)
(* eight staging registers are one here, because GO copies them all at     *)
(* once.  Commands of reserved operations (11 to 15) are not issued.       *)
(***************************************************************************)
EXTENDS Integers, Sequences, FiniteSets

CONSTANTS W, QDEPTH, Args, NoCommand

ASSUME QueueAssumption == W \in Nat /\ W >= 5 /\ QDEPTH \in {1, 2, 4, 8}

VARIABLES
  PROFILE,         \* the build: 0 union, 1 serving, 2 planning
  gap,             \* cycles until the hart's next instruction may be in EX
  m, wb,           \* the hart's instruction in M and in WB
  ts,              \* the staged command
  tq, tq_wi, tq_ri,
  go_pend, t_go, t_cmd,
  tv, pv,          \* the command in the tensor and in the sampling engine
  finished, reply  \* as in CommandStream

vars == <<PROFILE, gap, m, wb, ts, tq, tq_wi, tq_ri, go_pend, t_go, t_cmd, tv, pv, finished, reply>>

\* Operation 7 is the verify array's; it goes to the tensor engine.
Ops == {"gemm", "array", "sample"}
Commands == [op : Ops, arg : Args]
ASSUME NoCommandAssumption == NoCommand \notin Commands
Routed(c) == IF c.op = "sample" THEN "sampling" ELSE "tensor"
Present(p) == CASE p = 0 -> Ops [] p = 1 -> Ops \ {"sample"} [] p = 2 -> Ops \ {"array"}

Bubble == [kind |-> "other"]
Instructions ==
  {Bubble, [kind |-> "go"], [kind |-> "poll"]} \union [kind : {"stage"}, cmd : Commands]

(***************************************************************************)
(* Wires                                                                   *)
(***************************************************************************)

tq_occ == (tq_wi - tq_ri) % (2 * QDEPTH)
tq_empty == tq_occ = 0
tq_full == tq_occ = QDEPTH
t_busy == tv # NoCommand \/ pv # NoCommand
BUSY == t_busy \/ ~tq_empty \/ go_pend

Traps(i) == i.kind = "go" /\ (tq_full \/ ts.op \notin Present(PROFILE))

\* A plausible bug: a command may be dispatched in the window in which the
\* last one has not raised busy.
dispatch_early == ~tq_empty /\ ~t_busy

dispatch == ~tq_empty /\ ~t_busy /\ ~go_pend

Slot(p) == p % QDEPTH

(***************************************************************************)
(* One clock edge                                                          *)
(***************************************************************************)

\* The hart has instruction i in EX.
Hart(i) ==
  /\ i # Bubble => gap = 0
  /\ gap' = IF gap = 0 THEN (IF i = Bubble THEN 0 ELSE W - 1) ELSE gap - 1
  /\ m' = IF Traps(i) THEN Bubble ELSE i
  /\ wb' = m
  /\ reply' = CASE i = Bubble -> reply
                [] i.kind = "poll" -> (IF BUSY THEN "busy" ELSE "idle")
                [] Traps(i) -> "trap"
                [] OTHER -> "none"

Commit ==
  /\ ts' = IF wb.kind = "stage" THEN wb.cmd ELSE ts
  /\ tq' = IF wb.kind = "go" THEN [tq EXCEPT ![Slot(tq_wi)] = ts] ELSE tq
  /\ tq_wi' = IF wb.kind = "go" THEN (tq_wi + 1) % (2 * QDEPTH) ELSE tq_wi

\* A plausible bug: the engine is fed from the staging registers.
DispatchStaged ==
  /\ t_go' = dispatch
  /\ t_cmd' = IF dispatch THEN ts ELSE t_cmd
  /\ tq_ri' = IF dispatch THEN (tq_ri + 1) % (2 * QDEPTH) ELSE tq_ri
  /\ go_pend' = (dispatch \/ (go_pend /\ ~t_busy))

\* A plausible bug: the window closes only when another command waits.
DispatchHolds ==
  /\ t_go' = dispatch
  /\ t_cmd' = IF dispatch THEN tq[Slot(tq_ri)] ELSE t_cmd
  /\ tq_ri' = IF dispatch THEN (tq_ri + 1) % (2 * QDEPTH) ELSE tq_ri
  /\ go_pend' = (dispatch \/ (go_pend /\ ~(t_busy /\ ~tq_empty)))

Dispatch ==
  /\ t_go' = dispatch
  /\ t_cmd' = IF dispatch THEN tq[Slot(tq_ri)] ELSE t_cmd
  /\ tq_ri' = IF dispatch THEN (tq_ri + 1) % (2 * QDEPTH) ELSE tq_ri
  /\ go_pend' = (dispatch \/ (go_pend /\ ~t_busy))

\* An idle engine takes the command its doorbell rings for; a doorbell that
\* rings at a busy engine is lost.
Engine(now, which, finish) ==
  IF now = NoCommand
  THEN IF t_go /\ Routed(t_cmd) = which THEN t_cmd ELSE NoCommand
  ELSE IF finish THEN NoCommand ELSE now

\* The serving build has no sampling engine.
Engines(tensor_done, sampling_done) ==
  /\ tv' = Engine(tv, "tensor", tensor_done)
  /\ pv' = IF PROFILE = 1 THEN NoCommand ELSE Engine(pv, "sampling", sampling_done)
  /\ finished' = IF tv # NoCommand /\ tensor_done THEN tv
                 ELSE IF pv # NoCommand /\ sampling_done THEN pv
                 ELSE finished

Edge(i, tensor_done, sampling_done) ==
  /\ Hart(i)
  /\ Commit
  /\ Dispatch
  /\ Engines(tensor_done, sampling_done)
  /\ UNCHANGED PROFILE

Init ==
  /\ PROFILE \in 0 .. 2
  /\ gap = 0
  /\ m = Bubble /\ wb = Bubble
  /\ ts \in {c \in Commands : c.op = "gemm"}
  /\ tq = [k \in 0 .. QDEPTH - 1 |-> NoCommand]
  /\ tq_wi = 0 /\ tq_ri = 0
  /\ go_pend = FALSE /\ t_go = FALSE /\ t_cmd = NoCommand
  /\ tv = NoCommand /\ pv = NoCommand
  /\ finished = NoCommand
  /\ reply = "none"

Next == \E i \in Instructions, tensor_done, sampling_done \in BOOLEAN :
          Edge(i, tensor_done, sampling_done)

\* An edge at which a busy engine finishes.
Finishes == t_busy /\ \E i \in Instructions : Edge(i, TRUE, TRUE)

Spec == Init /\ [][Next]_vars

\* An edge that the clock forces: registers change though nobody else acts.
Forced == ENABLED <<Edge(Bubble, FALSE, FALSE)>>_vars /\ Next

\* The clock runs and every command ends.
FairSpec == Spec /\ WF_vars(Forced) /\ WF_vars(Finishes)

-----------------------------------------------------------------------------
(***************************************************************************)
(* Properties                                                              *)
(***************************************************************************)

\* The queue never holds more than its depth, although the check for FULL is
\* made two edges before the enqueue.
TypeOK ==
  /\ gap \in 0 .. W - 1
  /\ {m, wb} \subseteq Instructions
  /\ ts \in Commands
  /\ tq \in [0 .. QDEPTH - 1 -> Commands \union {NoCommand}]
  /\ tq_occ \in 0 .. QDEPTH
  /\ {t_cmd, tv, pv} \subseteq Commands \union {NoCommand}

\* I-2: one command executes at a time, and no doorbell rings at a busy or an
\* absent engine, which would lose the command.
OneCommandAtATime ==
  /\ TypeOK
  /\ tv = NoCommand \/ pv = NoCommand
  /\ t_go => ~t_busy
  /\ t_go /\ Routed(t_cmd) = "sampling" => PROFILE # 1

\* The socket implements CommandStream: snapshots at GO, strict program order
\* over both engines, an idle poll only when every issued command is complete,
\* and no trap of a command that fits.
InPipe(i) == IF i.kind = "go" THEN <<ts>> ELSE <<>>
Queued == [k \in 1 .. tq_occ |-> tq[Slot(tq_ri + k - 1)]]
Executing ==
  IF tv # NoCommand THEN <<tv>> ELSE IF pv # NoCommand THEN <<pv>>
  ELSE IF t_go THEN <<t_cmd>> ELSE <<>>
Stream == INSTANCE CommandStream
            WITH staged <- IF m.kind = "stage" THEN m.cmd
                           ELSE IF wb.kind = "stage" THEN wb.cmd ELSE ts,
                 owed <- Executing \o Queued \o InPipe(wb) \o InPipe(m),
                 executable <- {c \in Commands : c.op \in Present(PROFILE)}
ProgramOrder == Stream!Spec

\* A hart that stops issuing and polls sees the socket become idle.
PollEnds == <>[](m.kind # "go" /\ wb.kind # "go") => <>[]~BUSY
=============================================================================
