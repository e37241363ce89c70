------------------------------- MODULE SocFork -------------------------------
(***************************************************************************)
(* The fork of simt_soc.sv below the arbiter: a block-RAM scratchpad and   *)
(* the external memory face share one credit face.  A scratch beat is done *)
(* in the next cycle, an external beat whenever the memory answers, and    *)
(* the order FIFO holds younger responses back until older ones have gone. *)
(*                                                                         *)
(* One step is a clock edge.  The external memory is a MemoryFace of its   *)
(* own (its response register is dmem_ack and dmem_rdata); the upstream    *)
(* issuer is the arbiter, known here by its credit discipline.             *)
(***************************************************************************)
EXTENDS Integers, Sequences, FiniteSets

CONSTANTS
  ScratchAddrs,  \* words of the SCRATCH window
  ExtAddrs,      \* words behind the external face
  Values, Initial, CRED, Ack, NoAnswer, NoBeat,
  Junk           \* what the RAM's read register holds for nobody

ASSUME WindowAssumption == ScratchAddrs \intersect ExtAddrs = {}
ASSUME DepthAssumption == CRED \in 1 .. 4
ASSUME ValueAssumption == Initial \in Values /\ NoAnswer \notin Values \union {Ack}

VARIABLES
  scratch,  \* the block RAM
  sc_done,  \* a scratch beat completed in the last cycle
  sc_q,     \* the RAM's read register
  ord_q,    \* order FIFO: per beat, TRUE for a scratch beat
  scf_q,    \* scratch responses completed and not fired
  exf_q,    \* external responses completed and not fired
  emem, eowed, eanswer  \* the external memory face

vars == <<scratch, sc_done, sc_q, ord_q, scf_q, exf_q, emem, eowed, eanswer>>

Ext == INSTANCE MemoryFace
         WITH Addrs <- ExtAddrs, mem <- emem, owed <- eowed, answer <- eanswer

Addrs == ScratchAddrs \union ExtAddrs
FifoDepth == 4
Beats == {Ext!Read(a) : a \in Addrs} \union
         {Ext!Write(a, d) : a \in Addrs, d \in Values}

(***************************************************************************)
(* Wires                                                                   *)
(***************************************************************************)

ScHit(b) == b # NoBeat /\ b.addr \in ScratchAddrs
dmem_ack == eanswer # NoAnswer
head_is_sc == ord_q # <<>> /\ Head(ord_q)
head_is_ext == ord_q # <<>> /\ ~Head(ord_q)

\* A plausible bug: the external head also fires on a scratch completion.
sc_fire_any == ord_q # <<>> /\ (scf_q # <<>> \/ sc_done)

\* A plausible bug: a buffered external response leaves only with another one.
ext_fire_late == head_is_ext /\ dmem_ack

\* Head-first fire; the head's own completion is bypassed in its cycle when
\* nothing older of its kind is buffered.
sc_fire == head_is_sc /\ (scf_q # <<>> \/ sc_done)
ext_fire == head_is_ext /\ (exf_q # <<>> \/ dmem_ack)
x_rsp_valid == sc_fire \/ ext_fire

\* A plausible bug: the response of this cycle passes a buffered older one.
rdata_newest ==
  IF sc_fire THEN (IF sc_done THEN sc_q ELSE Head(scf_q))
  ELSE (IF exf_q = <<>> THEN eanswer ELSE Head(exf_q))

x_rsp_rdata ==
  IF sc_fire THEN (IF scf_q = <<>> THEN sc_q ELSE Head(scf_q))
  ELSE (IF exf_q = <<>> THEN eanswer ELSE Head(exf_q))

(***************************************************************************)
(* One clock edge                                                          *)
(***************************************************************************)

\* The RAM port: written by a hitting write, read at every edge.  What the
\* register holds after an edge without a scratch beat is nobody's response,
\* and a write's response carries no data.
Scratch(b) ==
  /\ scratch' = IF ScHit(b) THEN Ext!Apply(scratch, b) ELSE scratch
  /\ sc_q' = IF ScHit(b) THEN Ext!Result(scratch, b) ELSE Junk
  /\ sc_done' = ScHit(b)

\* The order FIFO
Order(b) ==
  LET kept == IF x_rsp_valid THEN Tail(ord_q) ELSE ord_q
  IN  ord_q' = IF b = NoBeat THEN kept ELSE Append(kept, ScHit(b))

\* Completions not consumed in this cycle are buffered; a fired one leaves.
Buffers ==
  LET sc == IF sc_done THEN Append(scf_q, sc_q) ELSE scf_q
      ex == IF dmem_ack THEN Append(exf_q, eanswer) ELSE exf_q
  IN  /\ scf_q' = IF sc_fire THEN Tail(sc) ELSE sc
      /\ exf_q' = IF ext_fire THEN Tail(ex) ELSE ex

\* The issuer's credit discipline: a pulse only with a credit in hand.
MayRequest == Len(ord_q) < CRED

Edge(b, respond) ==
  /\ b # NoBeat => MayRequest
  /\ Scratch(b)
  /\ Order(b)
  /\ Buffers
  /\ Ext!Edge(IF ScHit(b) THEN NoBeat ELSE b, respond)

Init ==
  /\ scratch = [a \in ScratchAddrs |-> Initial]
  /\ sc_done = FALSE
  /\ sc_q = Junk
  /\ ord_q = <<>>
  /\ scf_q = <<>>
  /\ exf_q = <<>>
  /\ Ext!Init

Next == \E b \in Beats \union {NoBeat}, respond \in BOOLEAN : Edge(b, respond)

\* An edge at which the external memory answers a beat it already owes.
ExtResponds == eowed # <<>> /\ \E b \in Beats \union {NoBeat} : Edge(b, TRUE)

Spec == Init /\ [][Next]_vars

\* An edge that the clock forces: registers change though nobody else acts.
Forced == ENABLED <<Edge(NoBeat, FALSE)>>_vars /\ Next

\* The clock runs and the external memory answers what it was asked; nobody
\* need ask for more.
FairSpec == Spec /\ WF_vars(Forced) /\ WF_vars(ExtResponds)

-----------------------------------------------------------------------------
(***************************************************************************)
(* Properties                                                              *)
(***************************************************************************)

TypeOK ==
  /\ scratch \in [ScratchAddrs -> Values]
  /\ sc_done \in BOOLEAN
  /\ sc_q \in Values \union {Ack, Junk}
  /\ ord_q \in Seq(BOOLEAN)
  /\ scf_q \in Seq(Values \union {Ack})
  /\ exf_q \in Seq(Values \union {Ack})
  /\ emem \in [ExtAddrs -> Values]

\* Responses a sub-slave has completed or will, oldest first.
OfScratch == IF sc_done THEN Append(scf_q, sc_q) ELSE scf_q
OfExt == exf_q \o (IF dmem_ack THEN <<eanswer>> ELSE <<>>) \o eowed
CountOf(kind) == Cardinality({i \in 1 .. Len(ord_q) : ord_q[i] = kind})

\* Every beat in the order FIFO has exactly one response at its sub-slave and
\* none is left over, and the three four-deep FIFOs never overrun (CRED is at
\* most four): the pointers that are three bits wide never lap.
OneResponsePerBeat ==
  /\ TypeOK
  /\ CountOf(TRUE) = Len(OfScratch)
  /\ CountOf(FALSE) = Len(OfExt)
  /\ Len(ord_q) <= FifoDepth
  /\ Len(scf_q) <= FifoDepth
  /\ Len(exf_q) <= FifoDepth

\* The fork is one MemoryFace over both windows: to its issuer a flat memory
\* with in-order responses, "only latency differs" (simt_soc.sv:156-157).
Rank(i) == Cardinality({j \in 1 .. i : ord_q[j] = ord_q[i]})
Responses ==
  [i \in 1 .. Len(ord_q) |-> IF ord_q[i] THEN OfScratch[Rank(i)] ELSE OfExt[Rank(i)]]
FlatMem == [a \in Addrs |-> IF a \in ScratchAddrs THEN scratch[a] ELSE emem[a]]
Face == INSTANCE MemoryFace
          WITH mem <- FlatMem,
               owed <- IF x_rsp_valid THEN Tail(Responses) ELSE Responses,
               answer <- IF x_rsp_valid THEN x_rsp_rdata ELSE NoAnswer
FlatMemoryFace == Face!Spec

\* Every requested beat is answered, however long an older external beat of
\* another master holds the younger scratch beat's response back.
EveryBeatFires == ord_q # <<>> ~> x_rsp_valid
=============================================================================
