----------------------------- MODULE PortArbiter -----------------------------
(***************************************************************************)
(* The three-requester memory-port arbiter, rtl/mem/port_arbiter.sv, with  *)
(* the masters and the memory that surround it in simt_soc.                *)
(*                                                                         *)
(* One step of Next is one rising clock edge.  Registers are variables;    *)
(* wires are operators of the registers and of the edge's inputs:          *)
(*   reqs    engine ports whose one-cycle request pulse is high            *)
(*   rests   engine masters that close a drained phase (no pulse then)     *)
(*   rsp     m_rsp_valid, the memory answers its oldest beat               *)
(*   level   the core's a_valid for the next cycle, if it is free to move  *)
(*                                                                         *)
(* A beat is [port, n]: n is the issue cursor of the master in its current *)
(* phase.  The masters keep only cursors (issue idx, response rix), as the *)
(* sidecar and the s_cluster do: a response carries no name, the master    *)
(* takes it to be the answer to beat number rix.  Payload bits, which the  *)
(* arbiter copies, are represented by the cursor.                          *)
(***************************************************************************)
EXTENDS Integers, Sequences

CONSTANTS
  CRED,       \* downstream credits
  CRED_B,     \* beats port B may have in flight
  CRED_C,     \* beats port C may have in flight
  MaxPhase,   \* bound: beats an engine issues in one phase
  Overlap     \* TRUE: engines B and C run at once (the bench's traffic);
              \* FALSE: one engine command at a time (the SoC)

ASSUME CredAssumption ==
  /\ CRED \in 1 .. 4
  /\ CRED_B \in 1 .. 4
  /\ CRED_C \in 1 .. 4
ASSUME PhaseAssumption == MaxPhase \in Nat \ {0}
ASSUME OverlapAssumption == Overlap \in BOOLEAN

VARIABLES
  a_valid,  \* the core's level request
  idx,      \* beats an engine has issued in its phase
  rix,      \* responses an engine has received in its phase
  tag_q,    \* order-tag FIFO: owner of every beat in flight, oldest first
  credits,  \* downstream credit counter
  a_infl,   \* the core's beat is in flight
  last_e,   \* arbitration state: the core has priority
  skid,     \* per engine port, the beats accepted and not yet granted
  m_req,    \* downstream pulse register
  flight    \* beats minted downstream and not answered, oldest first; while
            \* m_req is high the newest is still on the arbiter's registers,
            \* the others are in the downstream memory

vars == <<a_valid, idx, rix, tag_q, credits, a_infl, last_e, skid, m_req, flight>>

EnginePorts == {"B", "C"}
Ports == {"A"} \union EnginePorts
NoPort == "none"
SkidDepth == 4
TagDepth == 4

CredOf(p) == IF p = "B" THEN CRED_B ELSE CRED_C

Beat == [port : Ports, n : Nat]
ABeat == [port |-> "A", n |-> 0]
EBeat(p) == [port |-> p, n |-> idx[p]]

(***************************************************************************)
(* Wires                                                                   *)
(***************************************************************************)

\* A plausible bug: the live pulse overtakes a skid that is not empty.
OfferedBypass(p, reqs) ==
  IF p \in reqs THEN <<EBeat(p)>> \o skid[p] ELSE skid[p]

\* What port p offers to the grant: its skid, then the live pulse.  The head
\* is the live pulse exactly when the skid is empty.
Offered(p, reqs) == IF p \in reqs THEN Append(skid[p], EBeat(p)) ELSE skid[p]

APend == a_valid /\ ~a_infl
EPend(reqs) == \E p \in EnginePorts : Offered(p, reqs) # <<>>

\* Plausible bugs: a grant without a credit in hand; a core that needs its turn
\* even when no engine waits.
GrantWithoutCredit(reqs) ==
  IF APend /\ (~EPend(reqs) \/ last_e) THEN "A"
  ELSE IF Offered("B", reqs) # <<>> THEN "B"
  ELSE IF Offered("C", reqs) # <<>> THEN "C"
  ELSE NoPort
GrantOnlyOnTurn(reqs) ==
  IF credits = 0 THEN NoPort
  ELSE IF APend /\ last_e THEN "A"
  ELSE IF Offered("B", reqs) # <<>> THEN "B"
  ELSE IF Offered("C", reqs) # <<>> THEN "C"
  ELSE NoPort

\* The port granted at this edge.  The core goes first only when no engine
\* waits or last_e says that it is the core's turn; B goes before C.
Grant(reqs) ==
  IF credits = 0 THEN NoPort
  ELSE IF APend /\ (~EPend(reqs) \/ last_e) THEN "A"
  ELSE IF Offered("B", reqs) # <<>> THEN "B"
  ELSE IF Offered("C", reqs) # <<>> THEN "C"
  ELSE NoPort

\* The owner of the beat being answered
RTag == Head(tag_q)

(***************************************************************************)
(* One clock edge                                                          *)
(***************************************************************************)

\* m_req and skid: mint the downstream pulse, keep the beats not granted.
Issue(g, reqs) ==
  /\ m_req' = (g # NoPort)
  /\ skid' = [p \in EnginePorts |->
                IF p = g THEN Tail(Offered(p, reqs)) ELSE Offered(p, reqs)]

\* A plausible bug: a push in the cycle of a pop loses the pop.
TagsPushWins(g, rsp) ==
  tag_q' = IF g # NoPort THEN Append(tag_q, g)
           ELSE IF rsp THEN Tail(tag_q) ELSE tag_q

\* The order-tag FIFO: the answered beat's tag leaves, the granted one enters.
Tags(g, rsp) ==
  LET kept == IF rsp THEN Tail(tag_q) ELSE tag_q
  IN  tag_q' = IF g = NoPort THEN kept ELSE Append(kept, g)

\* The downstream face: takes every pulse, answers strictly in order.
Memory(g, reqs, rsp) ==
  LET kept == IF rsp THEN Tail(flight) ELSE flight
      beat == IF g = "A" THEN ABeat ELSE Head(Offered(g, reqs))
  IN  flight' = IF g = NoPort THEN kept ELSE Append(kept, beat)

\* A plausible bug in the credit counter's both-at-once case.
CreditSpendWins(g, rsp) ==
  credits' = IF g # NoPort THEN credits - 1
             ELSE credits + (IF rsp THEN 1 ELSE 0)

\* The credit counter
Credit(g, rsp) ==
  credits' = credits + (IF rsp THEN 1 ELSE 0) - (IF g = NoPort THEN 0 ELSE 1)

CoreInFlight(g, rsp) ==
  a_infl' = IF rsp /\ RTag = "A" THEN FALSE ELSE a_infl \/ g = "A"

\* Completion is written after issue in the clocked block, so it wins.
Turn(g, reqs, rsp) ==
  last_e' = IF rsp THEN (IF RTag = "A" THEN EPend(reqs) ELSE ~a_valid)
            ELSE IF g = NoPort THEN last_e
            ELSE g # "A"

\* The core's memory unit: level-valid until the ack, which may be followed
\* at once by the next beat.
Core(rsp, level) ==
  a_valid' = IF a_valid /\ ~(rsp /\ RTag = "A") THEN TRUE ELSE level

\* The engine masters: cursors, and the phase barrier on a full pool.
Engines(reqs, rests, rsp) ==
  /\ idx' = [p \in EnginePorts |->
               IF p \in rests THEN 0
               ELSE IF p \in reqs THEN idx[p] + 1 ELSE idx[p]]
  /\ rix' = [p \in EnginePorts |->
               IF p \in rests THEN 0
               ELSE IF rsp /\ RTag = p THEN rix[p] + 1 ELSE rix[p]]

MayPulse(p) ==
  /\ idx[p] - rix[p] < CredOf(p)
  /\ idx[p] < MaxPhase
  /\ Overlap \/ \A q \in EnginePorts \ {p} : idx[q] = 0

\* An answer comes at the earliest one edge after the pulse.
MayAnswer == Len(flight) > (IF m_req THEN 1 ELSE 0)

MayRest(p) == idx[p] # 0 /\ idx[p] = rix[p]

Edge(reqs, rests, rsp, level) ==
  /\ \A p \in reqs : MayPulse(p)
  /\ \A p \in rests : MayRest(p) /\ p \notin reqs
  /\ rsp => MayAnswer
  /\ Overlap \/ reqs # EnginePorts
  /\ LET g == Grant(reqs)
     IN  /\ Issue(g, reqs)
         /\ Tags(g, rsp)
         /\ Memory(g, reqs, rsp)
         /\ Credit(g, rsp)
         /\ CoreInFlight(g, rsp)
         /\ Turn(g, reqs, rsp)
  /\ Core(rsp, level)
  /\ Engines(reqs, rests, rsp)

Init ==
  /\ a_valid = FALSE
  /\ idx = [p \in EnginePorts |-> 0]
  /\ rix = [p \in EnginePorts |-> 0]
  /\ tag_q = <<>>
  /\ credits = CRED
  /\ a_infl = FALSE
  /\ last_e = TRUE
  /\ skid = [p \in EnginePorts |-> <<>>]
  /\ m_req = FALSE
  /\ flight = <<>>

Next ==
  \E reqs, rests \in SUBSET EnginePorts, rsp, level \in BOOLEAN :
    Edge(reqs, rests, rsp, level)

\* An edge at which the memory answers.
Answer ==
  \E reqs, rests \in SUBSET EnginePorts, level \in BOOLEAN :
    Edge(reqs, rests, TRUE, level)

Spec == Init /\ [][Next]_vars

\* An edge that the clock forces: registers change though nobody else acts.
Forced == ENABLED <<Edge({}, {}, FALSE, FALSE)>>_vars /\ Next

\* The clock runs, and the memory behind the face answers every beat; the
\* masters need not ask for any.
FairSpec == Spec /\ WF_vars(Forced) /\ WF_vars(Answer)

-----------------------------------------------------------------------------
(***************************************************************************)
(* Properties                                                              *)
(***************************************************************************)

TypeOK ==
  /\ a_valid \in BOOLEAN
  /\ idx \in [EnginePorts -> 0 .. MaxPhase]
  /\ rix \in [EnginePorts -> 0 .. MaxPhase]
  /\ tag_q \in Seq(Ports)
  /\ credits \in 0 .. CRED
  /\ a_infl \in BOOLEAN
  /\ last_e \in BOOLEAN
  /\ skid \in [EnginePorts -> Seq(Beat)]
  /\ m_req \in BOOLEAN
  /\ flight \in Seq(Beat)

\* Every answer the memory can give now reaches the master that owns the
\* beat, and it answers the beat that master counts as its next: no beat is
\* lost, duplicated, misrouted or overtaken within its port, although a
\* response carries neither port nor number.
AnswerRouted ==
  MayAnswer =>
    /\ tag_q # <<>>
    /\ Head(flight).port = RTag
    /\ IF RTag = "A" THEN a_valid /\ a_infl
       ELSE Head(flight).n = rix[RTag] /\ rix[RTag] < idx[RTag]

\* The simulation tripwires of the file can not fire: a pulse finds room in
\* its skid FIFO, a grant finds room in the tag FIFO (so the FIFOs' pointers
\* are never a full lap apart), a response finds a tag, and the memory never
\* holds more beats than the face has credits.
NoOverrun ==
  /\ \A p \in EnginePorts :
       /\ Len(skid[p]) <= SkidDepth
       /\ MayPulse(p) => Len(skid[p]) < CredOf(p)
  /\ Len(tag_q) <= TagDepth
  /\ credits + Len(tag_q) = CRED
  /\ Len(flight) = Len(tag_q)

\* f holds, of port p, exactly the beats lo .. hi-1, in order.
PositionsOf(f, p) == {i \in 1 .. Len(f) : f[i].port = p}
Window(f, p, lo, hi) ==
  /\ \A i, j \in PositionsOf(f, p) : i < j => f[i].n < f[j].n
  /\ \A i \in PositionsOf(f, p) : f[i].n \in lo .. hi - 1
  /\ \A n \in lo .. hi - 1 : \E i \in PositionsOf(f, p) : f[i].n = n

\* s is the run of port p's beats that starts at number lo.
RunFrom(s, p, lo) == \A k \in 1 .. Len(s) : s[k] = [port |-> p, n |-> lo + k - 1]

\* The first beat of engine p that is still in its skid
Granted(p) == idx[p] - Len(skid[p])

\* What is in flight and then queued for an engine is exactly the window
\* rix .. idx-1 of its cursors, in order and without a hole, and the core's
\* level request, re-sampled at every edge until its ack, never mints a
\* second beat (the D-017 duplicate).
InOrderExactlyOnce ==
  /\ \A p \in EnginePorts : /\ Window(flight, p, rix[p], Granted(p))
                            /\ RunFrom(skid[p], p, Granted(p))
  /\ Window(flight, "A", 0, IF a_infl THEN 1 ELSE 0)
  /\ a_infl => a_valid

\* The inductive invariant behind the four invariants above: the tag FIFO
\* mirrors the beats in flight, and the cursors bound what is outstanding.
TagsMirrorFlight ==
  /\ Len(flight) = Len(tag_q)
  /\ \A i \in 1 .. Len(tag_q) : tag_q[i] = flight[i].port
CursorsBounded ==
  \A p \in EnginePorts :
    /\ rix[p] <= Granted(p)
    /\ idx[p] - rix[p] <= CredOf(p)
IInv ==
  /\ TypeOK
  /\ credits + Len(tag_q) = CRED
  /\ TagsMirrorFlight
  /\ CursorsBounded
  /\ InOrderExactlyOnce

\* A waiting core is granted: with one engine command at a time, the barrier
\* that ends an engine's phase leaves it an edge without an engine beat.
CoreServed == APend ~> a_infl

\* Every beat a master has handed over is answered, the core's and each
\* engine's, so the phase barrier on a full pool is reached.
EveryBeatAnswered ==
  /\ a_infl ~> ~a_infl
  /\ \A p \in EnginePorts : idx[p] # rix[p] ~> idx[p] = rix[p]
=============================================================================
