------------------------ MODULE CommandQueue_proofs ------------------------
(***************************************************************************)
(* The command socket, for every queue depth, instruction distance and set *)
(* of arguments: one command at a time, no doorbell is lost, and the       *)
(* socket implements CommandStream.                                        *)
(***************************************************************************)
EXTENDS CommandQueue, RingTheorems

Executable == {c \in Commands : c.op \in Present(PROFILE)}
Slots == Commands \union {NoCommand}

\* The pipe behind EX holds at most one instruction: the hart's instructions
\* are W edges apart and W is at least 5.
OneInPipe ==
  /\ m # Bubble => gap = W - 1
  /\ wb # Bubble => gap = W - 2

\* The check that a GO passed in EX still holds at its enqueue: only this hart
\* enqueues and stages, and its instructions come one at a time.
CheckStands ==
  m.kind = "go" \/ wb.kind = "go" =>
    Ahead(tq_wi, tq_ri, QDEPTH) # QDEPTH /\ ts \in Executable

\* A doorbell rings in the window that the dispatch opened, at idle engines,
\* for a command of this build.
Doorbell ==
  t_go => go_pend /\ tv = NoCommand /\ pv = NoCommand /\ t_cmd \in Executable

SocketInv ==
  /\ PROFILE \in 0 .. 2
  /\ gap \in 0 .. W - 1
  /\ m \in Instructions /\ wb \in Instructions
  /\ ts \in Commands
  /\ Ring(QDEPTH, tq_wi, tq_ri, tq, Executable, Slots)
  /\ go_pend \in BOOLEAN /\ t_go \in BOOLEAN
  /\ t_cmd \in Slots /\ tv \in Slots /\ pv \in Slots
  /\ tv = NoCommand \/ pv = NoCommand
  /\ PROFILE = 1 => pv = NoCommand
  /\ OneInPipe
  /\ CheckStands
  /\ Doorbell

\* The occupancy the wires compute is the number of entries in use.
LEMMA Occupancy ==
  /\ tq_occ = Ahead(tq_wi, tq_ri, QDEPTH)
  /\ Queued = InRing(QDEPTH, tq_wi, tq_ri, tq)
  BY DEF tq_occ, Ahead, Queued, InRing, Content, Slot

\* The invariant implies what the run checks.
LEMMA SocketInvImplies == SocketInv => OneCommandAtATime
<1> SUFFICES ASSUME SocketInv PROVE OneCommandAtATime
  OBVIOUS
<1>1. tq_occ \in 0 .. QDEPTH /\ tq \in [0 .. QDEPTH - 1 -> Slots]
  BY Occupancy DEF SocketInv, Ring
<1>2. TypeOK
  BY <1>1 DEF TypeOK, SocketInv, Slots
<1>3. t_go /\ Routed(t_cmd) = "sampling" => PROFILE # 1
  BY DEF SocketInv, Doorbell, Executable, Routed, Present, Ops
<1>4. t_go => ~t_busy
  BY DEF SocketInv, Doorbell, t_busy
<1>. QED BY <1>2, <1>3, <1>4 DEF SocketInv, OneCommandAtATime

\* The invariant holds at reset: an empty queue and an empty pipe.
LEMMA SocketInit == Init => SocketInv
<1> SUFFICES ASSUME Init PROVE SocketInv
  OBVIOUS
<1>1. QDEPTH \in Nat \ {0}
  BY QueueAssumption
<1>2. tq_wi = 0 /\ tq_ri = 0 /\ 0 \in Pointers(QDEPTH)
  BY <1>1 DEF Init, Pointers
<1>3. Ahead(tq_wi, tq_ri, QDEPTH) = 0
  BY <1>1, <1>2, AheadCases
<1>4. Filled(tq, tq_ri, 0, QDEPTH, Executable)
  BY DEF Filled
<1>5. tq \in [0 .. QDEPTH - 1 -> Slots]
  BY DEF Init, Slots
<1>6. Ring(QDEPTH, tq_wi, tq_ri, tq, Executable, Slots)
  BY <1>1, <1>2, <1>3, <1>4, <1>5 DEF Ring, Executable, Slots
<1>7. 0 \in 0 .. W - 1
  BY QueueAssumption
<1>8. Bubble \in Instructions /\ Bubble.kind = "other"
  BY DEF Bubble, Instructions
<1>. QED BY <1>6, <1>7, <1>8 DEF Init, SocketInv, OneInPipe, CheckStands, Doorbell, Slots, Commands

-----------------------------------------------------------------------------
(* One clock edge *)

\* The values after an edge of the hart's pipe.
LEMMA PipeStep ==
  ASSUME SocketInv, NEW i \in Instructions, Hart(i), Commit
  PROVE  /\ gap' \in 0 .. W - 1
         /\ m' \in Instructions /\ wb' \in Instructions
         /\ ts' \in Commands
         /\ OneInPipe'
         /\ i # Bubble => m = Bubble /\ wb = Bubble
         /\ m # Bubble => wb = Bubble /\ i = Bubble
<1>1. W \in Nat /\ W >= 5 /\ gap \in 0 .. W - 1
  BY QueueAssumption DEF SocketInv
<1>2. gap' \in 0 .. W - 1
  BY <1>1 DEF Hart
<1>3. Bubble \in Instructions
  BY DEF Instructions
<1>4. m' \in Instructions /\ wb' \in Instructions
  BY <1>3 DEF Hart, SocketInv
<1>5. ts' \in Commands
  BY DEF Commit, SocketInv, Instructions, Bubble
<1>6. i # Bubble => m = Bubble /\ wb = Bubble /\ gap' = W - 1
  BY <1>1 DEF Hart, SocketInv, OneInPipe
<1>7. m # Bubble => wb = Bubble /\ i = Bubble /\ gap' = W - 2
  BY <1>1 DEF Hart, SocketInv, OneInPipe
<1>8. OneInPipe'
  BY <1>6, <1>7 DEF Hart, OneInPipe
<1>. QED BY <1>2, <1>4, <1>5, <1>6, <1>7, <1>8

\* The queue after an edge, as a sequence.
LEMMA QueueStep ==
  ASSUME SocketInv, Commit, Dispatch, PROFILE' = PROFILE
  PROVE  /\ Ring(QDEPTH, tq_wi, tq_ri, tq, Executable, Slots)'
         /\ wb.kind # "go" => (Ahead(tq_wi, tq_ri, QDEPTH))' <= Ahead(tq_wi, tq_ri, QDEPTH)
         /\ dispatch => /\ Queued # <<>>
                        /\ tq[Slot(tq_ri)] \in Executable
                        /\ tq[Slot(tq_ri)] = Head(Queued)
         /\ Queued' = IF dispatch THEN Tail(Queued) \o InPipe(wb) ELSE Queued \o InPipe(wb)
         /\ Queued \in Seq(Executable)
         /\ Len(Queued) = tq_occ
         /\ tq_occ \in 0 .. QDEPTH
<1> DEFINE d == QDEPTH
<1>1. PICK push \in BOOLEAN, pop \in BOOLEAN :
        push = (wb.kind = "go") /\ pop = dispatch
  BY DEF dispatch
<1>2. Ring(d, tq_wi, tq_ri, tq, Executable, Slots) /\ dispatch \in BOOLEAN
  BY DEF SocketInv, dispatch
<1>3. push => ts \in Executable /\ Ahead(tq_wi, tq_ri, d) # d
  BY <1>1 DEF SocketInv, CheckStands
<1>4. pop => Ahead(tq_wi, tq_ri, d) # 0
  BY <1>1, Occupancy DEF dispatch, tq_empty
<1>5. PICK w, r, t, w1, r1, t1, e, S :
        /\ w = tq_wi /\ r = tq_ri /\ t = tq /\ e = ts /\ S = Executable
        /\ w1 = tq_wi' /\ r1 = tq_ri' /\ t1 = tq'
  OBVIOUS
<1>6. /\ w1 = IF push THEN After(w, d) ELSE w
      /\ r1 = IF pop THEN After(r, d) ELSE r
      /\ t1 = IF push THEN Put(t, w, e, d) ELSE t
  BY <1>1, <1>2, <1>5 DEF Commit, Dispatch, After, Put, Slot
<1>7. Ring(d, w, r, t, S, Slots)
  BY <1>2, <1>5
<1>8. push => e \in S /\ Ahead(w, r, d) # d
  BY <1>3, <1>5
<1>9. pop => Ahead(w, r, d) # 0
  BY <1>4, <1>5
<1>10. RingEdge(d, w, r, t, w1, r1, t1, e, push, pop)
  BY <1>6, <1>8, <1>9 DEF RingEdge
<1>11. /\ Ring(d, w1, r1, t1, S, Slots)
       /\ ~push => Ahead(w1, r1, d) <= Ahead(w, r, d)
       /\ pop => /\ InRing(d, w, r, t) # <<>>
                 /\ t[r % d] \in S
                 /\ Head(InRing(d, w, r, t)) = t[r % d]
       /\ push /\ pop => InRing(d, w1, r1, t1) = Append(Tail(InRing(d, w, r, t)), e)
       /\ push /\ ~pop => InRing(d, w1, r1, t1) = Append(InRing(d, w, r, t), e)
       /\ ~push /\ pop => InRing(d, w1, r1, t1) = Tail(InRing(d, w, r, t))
       /\ ~push /\ ~pop => InRing(d, w1, r1, t1) = InRing(d, w, r, t)
  BY <1>7, <1>8, <1>10, RingStep
<1>12. /\ InRing(d, w, r, t) \in Seq(S)
       /\ Len(InRing(d, w, r, t)) = Ahead(w, r, d)
       /\ Ahead(w, r, d) \in 0 .. d
  BY <1>7, RingContent
<1>13. Executable' = Executable /\ Slots' = Slots
  BY DEF Executable, Slots
<1>14. Queued = InRing(d, w, r, t) /\ tq_occ = Ahead(w, r, d)
  BY <1>5, Occupancy
<1>15. Queued' = InRing(d, w1, r1, t1)
  BY <1>5 DEF Queued, InRing, Content, Slot, tq_occ, Ahead
<1>16. InPipe(wb) = IF push THEN <<e>> ELSE <<>>
  BY <1>1, <1>5 DEF InPipe
<1>17. Queued' = IF pop THEN Tail(Queued) \o InPipe(wb) ELSE Queued \o InPipe(wb)
  <2>1. PICK q \in Seq(S) : q = Queued
    BY <1>12, <1>14
  <2>2. pop => q # <<>>
    BY <1>11, <1>14, <2>1
  <2>3. pop => Tail(q) \in Seq(S)
    BY <2>2
  <2>4. /\ q \o <<>> = q /\ q \o <<e>> = Append(q, e)
        /\ pop => Tail(q) \o <<>> = Tail(q) /\ Tail(q) \o <<e>> = Append(Tail(q), e)
    BY <2>3
  <2>. QED BY <1>11, <1>14, <1>15, <1>16, <2>1, <2>4
<1>18. Ring(QDEPTH, tq_wi, tq_ri, tq, Executable, Slots)'
  BY <1>5, <1>11, <1>13 DEF Ring
<1>19. wb.kind # "go" => (Ahead(tq_wi, tq_ri, QDEPTH))' <= Ahead(tq_wi, tq_ri, QDEPTH)
  BY <1>1, <1>5, <1>11 DEF Ahead
<1>20. dispatch => /\ Queued # <<>>
                   /\ tq[Slot(tq_ri)] \in Executable
                   /\ tq[Slot(tq_ri)] = Head(Queued)
  BY <1>1, <1>5, <1>11, <1>14 DEF Slot
<1>. QED BY <1>1, <1>5, <1>12, <1>14, <1>17, <1>18, <1>19, <1>20

\* The engines after an edge: a doorbell that rings is heard.
LEMMA EngineStep ==
  ASSUME SocketInv, Dispatch, PROFILE' = PROFILE,
         NEW tensor_done \in BOOLEAN, NEW sampling_done \in BOOLEAN,
         Engines(tensor_done, sampling_done)
  PROVE  /\ tv' \in Slots /\ pv' \in Slots
         /\ PROFILE = 1 => pv' = NoCommand
         /\ tv' = NoCommand \/ pv' = NoCommand
         /\ t_go => /\ t_busy' /\ Executing' = <<t_cmd>>
                    /\ finished' = finished
         /\ ~t_go /\ ~t_busy => ~t_busy' /\ finished' = finished
<1>1. t_go => /\ t_cmd \in Executable /\ t_cmd # NoCommand
              /\ tv = NoCommand /\ pv = NoCommand
  BY NoCommandAssumption DEF SocketInv, Doorbell, Executable
<1>2. t_go => (PROFILE = 1 => Routed(t_cmd) = "tensor")
  BY <1>1 DEF Executable, Present, Ops, Routed
<1>3. Routed(t_cmd) \in {"tensor", "sampling"}
  BY DEF Routed
<1>4. PROFILE = 1 => pv' = NoCommand
  BY DEF Engines
<1>5. CASE t_go
  <2>1. /\ Routed(t_cmd) = "tensor" => tv' = t_cmd /\ pv' = NoCommand
        /\ Routed(t_cmd) = "sampling" => tv' = NoCommand /\ pv' = t_cmd
        /\ finished' = finished
    BY <1>1, <1>2, <1>3, <1>5 DEF Engines, Engine
  <2>2. t_cmd \in Slots /\ NoCommand \in Slots
    BY DEF SocketInv, Slots
  <2>3. t_busy' /\ Executing' = <<t_cmd>>
    BY <1>1, <1>3, <1>5, <2>1 DEF t_busy, Executing
  <2>. QED BY <1>3, <1>5, <1>4, <2>1, <2>2, <2>3
<1>6. CASE ~t_go
  <2>1. NoCommand \in Slots
    BY DEF Slots
  <2>2. /\ tv' = tv \/ tv' = NoCommand
        /\ pv' = pv \/ pv' = NoCommand
        /\ ~t_busy => tv' = NoCommand /\ pv' = NoCommand /\ finished' = finished
    BY <1>6 DEF Engines, Engine, t_busy
  <2>. QED BY <1>6, <1>4, <2>1, <2>2 DEF SocketInv, t_busy
<1>. QED BY <1>5, <1>6

\* The invariant is inductive.
LEMMA SocketNext == SocketInv /\ [Next]_vars => SocketInv'
<1> SUFFICES ASSUME SocketInv, [Next]_vars PROVE SocketInv'
  OBVIOUS
<1>1. CASE UNCHANGED vars
  BY <1>1 DEF vars, SocketInv, Ring, Filled, Ahead, OneInPipe, CheckStands, Doorbell, Executable, Slots
<1>2. ASSUME NEW i \in Instructions, NEW tensor_done \in BOOLEAN, NEW sampling_done \in BOOLEAN,
             Edge(i, tensor_done, sampling_done)
      PROVE  SocketInv'
  <2>1. Hart(i) /\ Commit /\ Dispatch /\ Engines(tensor_done, sampling_done) /\ PROFILE' = PROFILE
    BY <1>2 DEF Edge
  <2>2. /\ gap' \in 0 .. W - 1
        /\ m' \in Instructions /\ wb' \in Instructions
        /\ ts' \in Commands
        /\ OneInPipe'
        /\ i # Bubble => m = Bubble /\ wb = Bubble
        /\ m # Bubble => wb = Bubble /\ i = Bubble
    BY <2>1, PipeStep
  <2>3. /\ Ring(QDEPTH, tq_wi, tq_ri, tq, Executable, Slots)'
        /\ wb.kind # "go" => (Ahead(tq_wi, tq_ri, QDEPTH))' <= Ahead(tq_wi, tq_ri, QDEPTH)
        /\ dispatch => tq[Slot(tq_ri)] \in Executable
    BY <2>1, QueueStep
  <2>4. /\ tv' \in Slots /\ pv' \in Slots
        /\ PROFILE = 1 => pv' = NoCommand
        /\ tv' = NoCommand \/ pv' = NoCommand
        /\ ~t_go /\ ~t_busy => ~t_busy'
    BY <2>1, EngineStep
  <2>5. Executable' = Executable /\ Slots' = Slots
    BY <2>1 DEF Executable, Slots
  <2>6. go_pend' \in BOOLEAN /\ t_go' \in BOOLEAN /\ t_cmd' \in Slots
    BY <2>1, <2>3 DEF Dispatch, dispatch, Executable, Slots, SocketInv
  <2>7. Doorbell'
    <3>1. dispatch => ~t_go /\ ~t_busy
      BY DEF SocketInv, Doorbell, dispatch
    <3>2. t_go' => dispatch /\ go_pend' /\ t_cmd' = tq[Slot(tq_ri)]
      BY <2>1 DEF Dispatch
    <3>3. t_go' => tv' = NoCommand /\ pv' = NoCommand
      BY <2>4, <3>1, <3>2 DEF t_busy
    <3>. QED BY <2>3, <2>5, <3>2, <3>3 DEF Doorbell
  <2>8. CheckStands'
    <3>1. SUFFICES ASSUME m'.kind = "go" \/ wb'.kind = "go"
                   PROVE  /\ (Ahead(tq_wi, tq_ri, QDEPTH))' # QDEPTH
                          /\ ts' \in Executable
      BY <2>5 DEF CheckStands
    <3>2. wb = Bubble
      BY <2>1, <2>2, <3>1 DEF Hart, Bubble
    <3>3. /\ Ahead(tq_wi, tq_ri, QDEPTH) # QDEPTH
          /\ ts \in Executable
      <4>1. CASE m'.kind = "go"
        <5>1. i.kind = "go" /\ ~Traps(i)
          BY <2>1, <4>1 DEF Hart, Bubble
        <5>2. ~tq_full /\ ts.op \in Present(PROFILE)
          BY <5>1 DEF Traps
        <5>. QED BY <5>2, Occupancy DEF SocketInv, tq_full, Executable
      <4>2. CASE wb'.kind = "go"
        BY <2>1, <4>2 DEF Hart, SocketInv, CheckStands
      <4>. QED BY <3>1, <4>1, <4>2
    <3>4. ts' = ts
      BY <2>1, <3>2 DEF Commit, Bubble
    <3>5. (Ahead(tq_wi, tq_ri, QDEPTH))' <= Ahead(tq_wi, tq_ri, QDEPTH)
      BY <2>3, <3>2 DEF Bubble
    <3>6. PICK a \in Nat, b \in Nat : /\ a = Ahead(tq_wi, tq_ri, QDEPTH) /\ a \in 0 .. QDEPTH
                                      /\ b = (Ahead(tq_wi, tq_ri, QDEPTH))'
      <4>1. Ahead(tq_wi, tq_ri, QDEPTH) \in 0 .. QDEPTH /\ QDEPTH \in Nat
        BY DEF SocketInv, Ring
      <4>2. (Ahead(tq_wi, tq_ri, QDEPTH))' \in 0 .. QDEPTH
        BY <2>3 DEF Ring
      <4>. QED BY <4>1, <4>2
    <3>. QED BY <3>3, <3>4, <3>5, <3>6, QueueAssumption
  <2>. QED BY <2>1, <2>2, <2>3, <2>4, <2>6, <2>7, <2>8 DEF SocketInv
<1>. QED BY <1>1, <1>2 DEF Next

\* I-2, for every queue depth and instruction distance: one command executes at
\* a time, no doorbell rings at a busy or an absent engine, and the queue never
\* holds more than its depth.
THEOREM SocketSafe == Spec => []OneCommandAtATime
<1>1. Spec => []SocketInv
  BY SocketInit, SocketNext, PTL DEF Spec
<1>. QED BY <1>1, SocketInvImplies, PTL

-----------------------------------------------------------------------------
(* The socket implements CommandStream *)

Owed == Executing \o Queued \o InPipe(wb) \o InPipe(m)
Staged == IF m.kind = "stage" THEN m.cmd ELSE IF wb.kind = "stage" THEN wb.cmd ELSE ts
completes(tensor_done, sampling_done) ==
  (tv # NoCommand /\ tensor_done) \/ (pv # NoCommand /\ sampling_done)

\* The parts of what is owed are sequences of commands.
LEMMA PipeType ==
  ASSUME SocketInv
  PROVE  /\ Executing \in Seq(Commands) /\ Queued \in Seq(Commands)
         /\ InPipe(wb) \in Seq(Commands) /\ InPipe(m) \in Seq(Commands)
         /\ Len(Executing) \in 0 .. 1
         /\ Len(Queued) = tq_occ /\ tq_occ \in 0 .. QDEPTH
<1>1. Executing \in Seq(Commands) /\ Len(Executing) \in 0 .. 1
  BY DEF SocketInv, Executing, Slots, Doorbell, Executable
<1>2. InPipe(wb) \in Seq(Commands) /\ InPipe(m) \in Seq(Commands)
  BY DEF SocketInv, InPipe
<1>3. PICK q, n : q = Queued /\ n = tq_occ
  OBVIOUS
<1>4. q \in Seq(Executable) /\ Len(q) = n /\ n \in 0 .. QDEPTH
  BY <1>3, Occupancy, RingContent DEF SocketInv
<1>5. q \in Seq(Commands)
  BY <1>4 DEF Executable
<1>. QED BY <1>1, <1>2, <1>3, <1>4, <1>5

\* What executes and what waits, as one sequence: an edge adds what the pipe
\* enqueues, and removes what completes.
LEMMA OwedStep ==
  ASSUME SocketInv, NEW i \in Instructions,
         NEW tensor_done \in BOOLEAN, NEW sampling_done \in BOOLEAN,
         Edge(i, tensor_done, sampling_done)
  PROVE  /\ completes(tensor_done, sampling_done) =>
              Owed # <<>> /\ finished' = Head(Owed) /\ Owed' = Tail(Owed) \o InPipe(m)'
         /\ ~completes(tensor_done, sampling_done) =>
              finished' = finished /\ Owed' = Owed \o InPipe(m)'
<1>1. Hart(i) /\ Commit /\ Dispatch /\ Engines(tensor_done, sampling_done) /\ PROFILE' = PROFILE
  BY DEF Edge
<1>2. SocketInv'
  BY SocketNext DEF Next
<1> DEFINE S == Seq(Commands)
<1>3. /\ Executing \in S /\ Queued \in S /\ InPipe(wb) \in S /\ InPipe(m) \in S
  BY PipeType
<1>4. Executing' \in S /\ Queued' \in S /\ InPipe(wb)' \in S /\ InPipe(m)' \in S
  <2>1. Commands' = Commands
    BY DEF Commands
  <2>2. (SocketInv => /\ Executing \in S /\ Queued \in S /\ InPipe(wb) \in S /\ InPipe(m) \in S)'
    BY PipeType, PTL
  <2>. QED BY <1>2, <2>1, <2>2
<1>5. InPipe(wb)' = InPipe(m)
  <2>1. wb' = m /\ (m # Bubble => wb = Bubble)
    BY <1>1, PipeStep DEF Hart
  <2>2. m.kind = "go" => ts' = ts
    BY <1>1, <2>1 DEF Commit, Bubble
  <2>. QED BY <2>1, <2>2 DEF InPipe
<1>6. /\ dispatch => Queued # <<>> /\ tq[Slot(tq_ri)] = Head(Queued)
      /\ Queued' = IF dispatch THEN Tail(Queued) \o InPipe(wb) ELSE Queued \o InPipe(wb)
  BY <1>1, QueueStep
<1>7. PICK e \in S, q \in S, w \in S, p \in S, e1 \in S, q1 \in S, p1 \in S :
        /\ e = Executing /\ q = Queued /\ w = InPipe(wb) /\ p = InPipe(m)
        /\ e1 = Executing' /\ q1 = Queued' /\ p1 = InPipe(m)'
  BY <1>3, <1>4, Zenon
<1>8. Owed = e \o q \o w \o p /\ Owed' = e1 \o q1 \o p \o p1
  BY <1>5, <1>7, Zenon DEF Owed
<1> HIDE DEF S
<1>9. CASE t_go
  <2>1. ~completes(tensor_done, sampling_done) /\ ~dispatch
    BY <1>9 DEF SocketInv, Doorbell, completes, dispatch
  <2>2. e1 = e /\ finished' = finished
    BY <1>1, <1>7, <1>9, EngineStep DEF Executing, SocketInv, Doorbell
  <2>3. q1 = q \o w
    BY <1>6, <1>7, <2>1
  <2>4. e1 \o q1 \o p \o p1 = (e \o q \o w \o p) \o p1
    BY <2>2, <2>3 DEF S
  <2>. QED BY <1>7, <1>8, <2>1, <2>2, <2>4
<1>10. CASE ~t_go /\ t_busy
  <2>1. ~dispatch /\ t_go' = FALSE
    BY <1>1, <1>10 DEF dispatch, Dispatch
  <2>2. q1 = q \o w
    BY <1>6, <1>7, <2>1
  <2>3. completes(tensor_done, sampling_done) =>
          e # <<>> /\ finished' = Head(e) /\ e1 = Tail(e) /\ e = <<Head(e)>>
    BY <1>1, <1>7, <1>10, <2>1 DEF completes, Engines, Engine, Executing, SocketInv, t_busy
  <2>4. ~completes(tensor_done, sampling_done) =>
          finished' = finished /\ e1 = e
    BY <1>1, <1>7, <1>10, <2>1 DEF completes, Engines, Engine, Executing, SocketInv, t_busy
  <2>5. CASE completes(tensor_done, sampling_done)
    <3>1. PICK x \in Commands : e = <<x>> /\ finished' = x /\ e1 = <<>>
      BY <2>3, <2>5 DEF S
    <3>2. /\ <<x>> \o q \o w \o p # <<>>
          /\ Head(<<x>> \o q \o w \o p) = x
          /\ Tail(<<x>> \o q \o w \o p) = q \o w \o p
      <4>1. q \o w \o p \in Seq(Commands)
        BY DEF S
      <4>2. <<x>> \o q \o w \o p = <<x>> \o (q \o w \o p)
        BY DEF S
      <4>. QED BY <4>1, <4>2, HeadTail
    <3>3. <<>> \o (q \o w) \o p \o p1 = (q \o w \o p) \o p1
      BY DEF S
    <3>. QED BY <1>7, <1>8, <2>2, <2>5, <3>1, <3>2, <3>3
  <2>6. CASE ~completes(tensor_done, sampling_done)
    <3>1. e1 \o q1 \o p \o p1 = (e \o q \o w \o p) \o p1
      BY <2>2, <2>4, <2>6 DEF S
    <3>. QED BY <1>7, <1>8, <2>4, <2>6, <3>1
  <2>. QED BY <2>5, <2>6
<1>11. CASE ~t_go /\ ~t_busy
  <2>1. ~completes(tensor_done, sampling_done) /\ e = <<>>
    BY <1>7, <1>11 DEF completes, t_busy, Executing
  <2>2. tv' = NoCommand /\ pv' = NoCommand /\ finished' = finished
    BY <1>1, <1>11, EngineStep DEF t_busy
  <2>3. CASE dispatch
    <3>1. e1 = <<Head(q)>> /\ q # <<>>
      BY <1>1, <1>6, <1>7, <2>2, <2>3 DEF Executing, Dispatch
    <3>2. q1 = Tail(q) \o w
      BY <1>6, <1>7, <2>3
    <3>3. PICK x \in Commands, u \in S : x = Head(q) /\ u = Tail(q) /\ q = <<x>> \o u
      BY <3>1, SplitHead DEF S
    <3>4. <<x>> \o (u \o w) \o p \o p1 = (<<>> \o (<<x>> \o u) \o w \o p) \o p1
      BY DEF S
    <3>. QED BY <1>7, <1>8, <2>1, <2>2, <3>1, <3>2, <3>3, <3>4
  <2>4. CASE ~dispatch
    <3>1. e1 = <<>>
      BY <1>1, <1>7, <2>2, <2>4 DEF Executing, Dispatch, dispatch
    <3>2. q1 = q \o w
      BY <1>6, <1>7, <2>4
    <3>3. <<>> \o (q \o w) \o p \o p1 = (<<>> \o q \o w \o p) \o p1
      BY DEF S
    <3>. QED BY <1>7, <1>8, <2>1, <2>2, <3>1, <3>2, <3>3
  <2>. QED BY <2>3, <2>4
<1>. QED BY <1>9, <1>10, <1>11

\* The staged command, as the hart's program left it: a stage in the pipe has
\* staged already.
LEMMA StagedStep ==
  ASSUME SocketInv, NEW i \in Instructions, Hart(i), Commit
  PROVE  /\ Staged \in Commands
         /\ i.kind = "stage" => i.cmd \in Commands /\ Staged' = i.cmd
         /\ i.kind # "stage" => Staged' = Staged
<1>1. i # Bubble => m = Bubble /\ wb = Bubble
  BY PipeStep
<1>2. m # Bubble => wb = Bubble /\ i = Bubble
  BY PipeStep
<1>3. Bubble.kind = "other"
  BY DEF Bubble
<1>4. wb' = m /\ m' = IF Traps(i) THEN Bubble ELSE i
  BY DEF Hart
<1>5. ts' = IF wb.kind = "stage" THEN wb.cmd ELSE ts
  BY DEF Commit
<1>6. Staged \in Commands
  BY <1>3 DEF Staged, SocketInv, Instructions, Bubble
<1>7. CASE i.kind = "stage"
  <2>1. i.cmd \in Commands /\ i # Bubble /\ ~Traps(i)
    BY <1>3, <1>7 DEF Instructions, Bubble, Traps
  <2>. QED BY <1>4, <1>6, <1>7, <2>1 DEF Staged
<1>8. CASE i.kind # "stage"
  <2>1. m'.kind # "stage"
    BY <1>3, <1>4, <1>8
  <2>2. m.kind = "stage" => Staged = m.cmd /\ Staged' = m.cmd
    BY <1>4, <2>1 DEF Staged
  <2>3. m.kind # "stage" => Staged' = ts' /\ Staged = ts'
    BY <1>4, <1>5, <2>1 DEF Staged
  <2>. QED BY <1>6, <1>8, <2>2, <2>3
<1>. QED BY <1>7, <1>8

\* What the hart sees, by its instruction.
LEMMA ReplyStep ==
  ASSUME SocketInv, NEW i \in Instructions, Hart(i), Commit
  PROVE  /\ i = Bubble => reply' = reply /\ InPipe(m)' = <<>>
         /\ i.kind = "stage" => reply' = "none" /\ InPipe(m)' = <<>>
         /\ i.kind = "poll" => /\ reply' \in {"idle", "busy"} /\ InPipe(m)' = <<>>
                               /\ reply' = "idle" => Owed = <<>>
         /\ i.kind = "go" /\ Traps(i) =>
              /\ reply' = "trap" /\ InPipe(m)' = <<>>
              /\ Staged \in Executable => Len(Owed) >= QDEPTH
         /\ i.kind = "go" /\ ~Traps(i) =>
              /\ reply' = "none" /\ InPipe(m)' = <<Staged>>
              /\ Staged \in Executable /\ Len(Owed) <= QDEPTH
<1>1. i # Bubble => m = Bubble /\ wb = Bubble
  BY PipeStep
<1>2. Bubble.kind = "other"
  BY DEF Bubble
<1>3. m' = IF Traps(i) THEN Bubble ELSE i
  BY DEF Hart
<1>4. i # Bubble => Staged = ts /\ ts' = ts /\ InPipe(m) = <<>> /\ InPipe(wb) = <<>>
  BY <1>1, <1>2 DEF Staged, Commit, InPipe
<1>5. PICK e \in Seq(Commands), q \in Seq(Commands) :
        /\ e = Executing /\ q = Queued /\ Len(e) \in 0 .. 1
        /\ Len(q) = tq_occ /\ tq_occ \in 0 .. QDEPTH
  BY PipeType
<1>6. i # Bubble => Owed = e \o q
  <2>1. Owed = e \o q \o InPipe(wb) \o InPipe(m)
    BY <1>5 DEF Owed
  <2>2. e \o q \o <<>> \o <<>> = e \o q
    OBVIOUS
  <2>. QED BY <1>4, <2>1, <2>2
<1>7. Len(e \o q) = Len(e) + Len(q)
  OBVIOUS
<1>8. i = Bubble => reply' = reply /\ InPipe(m)' = <<>>
  BY <1>2, <1>3 DEF Hart, InPipe, Traps
<1>9. i.kind = "stage" => reply' = "none" /\ InPipe(m)' = <<>>
  BY <1>2, <1>3 DEF Hart, InPipe, Traps
<1>10. ASSUME i.kind = "poll"
       PROVE  /\ reply' \in {"idle", "busy"} /\ InPipe(m)' = <<>>
              /\ reply' = "idle" => Owed = <<>>
  <2>1. i # Bubble /\ InPipe(m)' = <<>> /\ reply' = IF BUSY THEN "busy" ELSE "idle"
    BY <1>2, <1>3, <1>10 DEF Hart, InPipe, Traps
  <2>2. ~BUSY => e = <<>>
    BY <1>5 DEF BUSY, t_busy, Executing, SocketInv, Doorbell
  <2>3. ~BUSY => q = <<>>
    BY <1>5 DEF BUSY, tq_empty
  <2>4. ~BUSY => Owed = <<>>
    BY <1>6, <2>1, <2>2, <2>3
  <2>. QED BY <2>1, <2>4
<1>11. ASSUME i.kind = "go", Traps(i)
       PROVE  /\ reply' = "trap" /\ InPipe(m)' = <<>>
              /\ Staged \in Executable => Len(Owed) >= QDEPTH
  <2>1. i # Bubble /\ InPipe(m)' = <<>> /\ reply' = "trap"
    BY <1>2, <1>3, <1>11 DEF Hart, InPipe, Traps
  <2>2. Staged \in Executable => tq_occ = QDEPTH
    BY <1>4, <1>11, <2>1 DEF Traps, Executable, tq_full
  <2>3. Staged \in Executable => Len(Owed) >= QDEPTH
    <3>1. PICK a \in Nat, b \in Nat : a = Len(e) /\ b = Len(q)
      OBVIOUS
    <3>. QED BY <1>5, <1>6, <1>7, <2>1, <2>2, <3>1
  <2>. QED BY <2>1, <2>3
<1>12. ASSUME i.kind = "go", ~Traps(i)
       PROVE  /\ reply' = "none" /\ InPipe(m)' = <<Staged>>
              /\ Staged \in Executable /\ Len(Owed) <= QDEPTH
  <2>1. i # Bubble /\ m' = i /\ reply' = "none"
    BY <1>2, <1>3, <1>12 DEF Hart, InPipe
  <2>2. InPipe(m)' = <<Staged>>
    BY <1>4, <1>12, <2>1 DEF InPipe
  <2>3. Staged \in Executable /\ tq_occ # QDEPTH
    BY <1>4, <1>12, <2>1 DEF Traps, Executable, tq_full, SocketInv
  <2>4. Len(Owed) <= QDEPTH
    BY <1>5, <1>6, <1>7, <2>1, <2>3, QueueAssumption
  <2>. QED BY <2>1, <2>2, <2>3, <2>4
<1>. QED BY <1>8, <1>9, <1>10, <1>11, <1>12

\* At reset nothing is owed.
LEMMA StreamInit == Init => Stream!Init
<1> SUFFICES ASSUME Init PROVE Stream!Init
  OBVIOUS
<1>1. Bubble.kind = "other"
  BY DEF Bubble
<1>2. SocketInv
  BY SocketInit
<1>3. InPipe(m) = <<>> /\ InPipe(wb) = <<>> /\ Executing = <<>>
  BY <1>1 DEF Init, InPipe, Executing
<1>4. Queued \in Seq(Commands) /\ Len(Queued) = tq_occ
  BY <1>2, PipeType
<1>5. tq_occ = 0
  <2>1. 0 \in Pointers(QDEPTH) /\ QDEPTH \in Nat \ {0}
    BY QueueAssumption DEF Pointers
  <2>. QED BY <2>1, Occupancy, AheadCases DEF Init
<1>6. Queued = <<>>
  BY <1>4, <1>5
<1>7. Owed = <<>>
  BY <1>3, <1>6 DEF Owed
<1>8. Staged = ts
  BY <1>1 DEF Init, Staged
<1>9. ts \in Commands /\ finished = NoCommand /\ reply = "none"
  BY DEF Init
<1>. QED BY <1>7, <1>8, <1>9 DEF Stream!Init, Owed, Staged

\* Every edge is a step of CommandStream.
LEMMA StreamNext == SocketInv /\ [Next]_vars => [Stream!Next]_(Stream!vars)
<1> SUFFICES ASSUME SocketInv, [Next]_vars PROVE [Stream!Next]_(Stream!vars)
  OBVIOUS
<1>1. CASE UNCHANGED vars
  <2>1. /\ Executing' = Executing /\ Queued' = Queued /\ InPipe(wb)' = InPipe(wb)
        /\ InPipe(m)' = InPipe(m)
    BY <1>1 DEF vars, Executing, Queued, InPipe, tq_occ, Slot
  <2>. QED BY <1>1, <2>1 DEF vars, Stream!vars, Present, Ops, Commands
<1>2. ASSUME NEW i \in Instructions, NEW tensor_done \in BOOLEAN, NEW sampling_done \in BOOLEAN,
             Edge(i, tensor_done, sampling_done)
      PROVE  Stream!Next
  <2>1. Hart(i) /\ Commit /\ PROFILE' = PROFILE
    BY <1>2 DEF Edge
  <2>2. PICK complete \in BOOLEAN : complete = completes(tensor_done, sampling_done)
    BY DEF completes
  <2>3. PICK go \in BOOLEAN : go = (i.kind = "go" /\ ~Traps(i))
    OBVIOUS
  <2>4. /\ complete => Owed # <<>> /\ finished' = Head(Owed) /\ Owed' = Tail(Owed) \o InPipe(m)'
        /\ ~complete => finished' = finished /\ Owed' = Owed \o InPipe(m)'
    BY <1>2, <2>2, OwedStep
  <2>5. /\ Staged \in Commands
        /\ i.kind = "stage" => i.cmd \in Commands /\ Staged' = i.cmd
        /\ i.kind # "stage" => Staged' = Staged
    BY <2>1, StagedStep
  <2>6. /\ i = Bubble => reply' = reply /\ InPipe(m)' = <<>>
        /\ i.kind = "stage" => reply' = "none" /\ InPipe(m)' = <<>>
        /\ i.kind = "poll" => /\ reply' \in {"idle", "busy"} /\ InPipe(m)' = <<>>
                              /\ reply' = "idle" => Owed = <<>>
        /\ i.kind = "go" /\ Traps(i) =>
             /\ reply' = "trap" /\ InPipe(m)' = <<>>
             /\ Staged \in Executable => Len(Owed) >= QDEPTH
        /\ i.kind = "go" /\ ~Traps(i) =>
             /\ reply' = "none" /\ InPipe(m)' = <<Staged>>
             /\ Staged \in Executable /\ Len(Owed) <= QDEPTH
    BY <2>1, ReplyStep
  <2>7. i = Bubble \/ i.kind \in {"stage", "poll", "go"}
    BY DEF Instructions
  <2>8. Executable' = Executable
    BY <2>1 DEF Executable
  <2>9. Owed \in Seq(Commands)
    BY PipeType DEF Owed
  <2> DEFINE kept == IF complete THEN Tail(Owed) ELSE Owed
  <2>10. kept \in Seq(Commands)
    BY <2>4, <2>9
  <2>11. Owed' = IF go THEN Append(kept, Staged) ELSE kept
    <3>1. Owed' = kept \o InPipe(m)'
      BY <2>4
    <3>2. InPipe(m)' = IF go THEN <<Staged>> ELSE <<>>
      BY <2>3, <2>6, <2>7 DEF Bubble
    <3>3. kept \o <<>> = kept /\ kept \o <<Staged>> = Append(kept, Staged)
      BY <2>10
    <3>. QED BY <3>1, <3>2, <3>3
  <2> HIDE DEF kept
  <2>12. IF go THEN Staged' = Staged /\ Staged \in Executable /\ Len(Owed) <= QDEPTH /\ reply' = "none"
         ELSE \/ Staged' = Staged /\ reply' = "trap" /\ (Staged \in Executable => Len(Owed) >= QDEPTH)
              \/ Staged' = Staged /\ reply' \in (IF Owed = <<>> THEN {"idle", "busy"} ELSE {"busy"})
              \/ \E c \in Commands : Staged' = c /\ reply' = "none"
              \/ Staged' = Staged /\ reply' = reply
    <3>1. CASE i = Bubble
      BY <2>3, <2>5, <2>6, <3>1 DEF Bubble
    <3>2. CASE i.kind = "stage"
      BY <2>3, <2>5, <2>6, <3>2
    <3>3. CASE i.kind = "poll"
      BY <2>3, <2>5, <2>6, <3>3
    <3>4. CASE i.kind = "go"
      BY <2>3, <2>5, <2>6, <3>4
    <3>. QED BY <2>7, <3>1, <3>2, <3>3, <3>4
  <2>13. Stream!Step(go, complete)
    BY <2>4, <2>8, <2>11, <2>12, Zenon
       DEF Stream!Step, Stream!Complete, Stream!Go, Stream!Trap, Stream!Poll, Stream!Stage,
           Owed, Staged, Executable, kept
  <2>. QED BY <2>13 DEF Stream!Next
<1>. QED BY <1>1, <1>2 DEF Next

\* The socket implements CommandStream: snapshots at GO, program order over both
\* engines, an idle poll only when nothing is owed, no trap of a command that fits.
THEOREM SocketRefines == Spec => ProgramOrder
<1>1. Spec => []SocketInv
  BY SocketInit, SocketNext, PTL DEF Spec
<1>. QED BY <1>1, StreamInit, StreamNext, PTL DEF Spec, ProgramOrder, Stream!Spec
=============================================================================
