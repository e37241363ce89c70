------------------------------- MODULE MemUnit -------------------------------
(***************************************************************************)
(* The coalescing drain of simt_core.sv: one memory instruction of a warp  *)
(* becomes one beat for each word, in the order of golden/coalescer.py,    *)
(* and a loaded word is written back lane by lane.                         *)
(*                                                                         *)
(* SimtCore has this state machine as IDLE, DRAIN and DONE, with the queue *)
(* before it; here an instruction is chosen when IDLE takes it.  One step  *)
(* is a clock edge; ack is dmem_ack, memory acts when it acknowledges.     *)
(* The registers that an instruction leaves behind stay as they are.       *)
(***************************************************************************)
EXTENDS Coalescer

CONSTANTS
  L,      \* lanes
  Words,  \* words of memory, 0 .. Words - 1
  Sizes   \* access sizes in bytes, each a divisor of Unit

ASSUME LanesAssumption == L \in Nat \ {0}
ASSUME WordsAssumption == Words \in Nat \ {0} /\ Unit \in Nat \ {0}
ASSUME SizesAssumption == \A s \in Sizes : s \in 1 .. Unit /\ Unit % s = 0

VARIABLES
  mu_st,
  mu_cur,    \* the instruction: store, size and the addresses of its lanes
  mu_srvcd,  \* lanes that are served
  mu_share,  \* lanes of the beat in flight
  mu_wlb,    \* lane that is written back
  mu_word,   \* the loaded word: which one
  rf,        \* what the instruction has loaded into each lane's register
  mem        \* memory, relative to the instruction's start

vars == <<mu_st, mu_cur, mu_srvcd, mu_share, mu_wlb, mu_word, rf, mem>>

Lanes == 0 .. L - 1
Nothing == <<>>
Before == [a \in 0 .. Words * Unit - 1 |-> Old]

\* Aligned accesses of the lanes of a mask: misaligned ones trap in EX.
Instructions ==
  UNION {[store : BOOLEAN, size : {s},
          addrs : [mask -> {a \in DOMAIN Before : a % s = 0}]] :
           mask \in (SUBSET Lanes) \ {{}}, s \in Sizes}

Mask == DOMAIN mu_cur.addrs
Addr(l) == mu_cur.addrs[l]

(***************************************************************************)
(* Wires                                                                   *)
(***************************************************************************)

Unserved == Mask \ mu_srvcd
pick_any == Unserved # {}
pick_leader == Min(Unserved)

\* A plausible bug: the lanes that a beat serves are compared with the lowest
\* enabled lane, served or not.
share_stale ==
  {l \in Unserved : Word(Addr(l)) = Word(Addr(Min(Mask)))} \union {pick_leader}

share_c == {l \in Unserved : Word(Addr(l)) = Word(Addr(pick_leader))}

wlb_any == mu_share \ mu_srvcd # {}
wlb_next == IF wlb_any THEN Min(mu_share \ mu_srvcd) ELSE 0

dmem_req == mu_st = "REQ"

Beat ==
  [word |-> Word(Addr(pick_leader)),
   data |-> IF mu_cur.store
            THEN Merge(mu_cur.addrs, mu_cur.size, share_c, Word(Addr(pick_leader)))
            ELSE <<>>]

(***************************************************************************)
(* The states                                                              *)
(***************************************************************************)

Take ==
  /\ mu_st = "IDLE"
  /\ mu_cur' \in Instructions
  /\ mu_srvcd' = {}
  /\ mu_st' = "PICK"
  /\ rf' = [l \in Lanes |-> Nothing]
  /\ mem' = Before
  /\ UNCHANGED <<mu_share, mu_wlb, mu_word>>

Pick ==
  /\ mu_st = "PICK"
  /\ mu_st' = IF pick_any THEN "REQ" ELSE "DONE"
  /\ mu_share' = IF pick_any THEN share_c ELSE mu_share
  /\ UNCHANGED <<mu_cur, mu_srvcd, mu_wlb, mu_word, rf, mem>>

StoreBeat ==
  /\ dmem_req /\ mu_cur.store
  /\ mem' = [a \in DOMAIN mem |-> IF a \in DOMAIN Beat.data THEN Beat.data[a] ELSE mem[a]]
  /\ mu_srvcd' = mu_srvcd \union mu_share
  /\ mu_st' = "PICK"
  /\ UNCHANGED <<mu_cur, mu_share, mu_wlb, mu_word, rf>>

LoadBeat ==
  /\ dmem_req /\ ~mu_cur.store
  /\ mu_word' = Beat.word
  /\ mu_wlb' = wlb_next
  /\ mu_st' = "WLB"
  /\ UNCHANGED <<mu_cur, mu_srvcd, mu_share, rf, mem>>

Ack == StoreBeat \/ LoadBeat

\* What the write-back port takes from the loaded word for lane l
Extract(l) == [i \in Bytes(mu_cur.size) |-> (mu_word * Unit) + (Addr(l) % Unit) + i]

\* A plausible bug: the drain leaves the write-back when one lane is left.
WriteBackEndsEarly ==
  /\ mu_st = "WLB"
  /\ rf' = [rf EXCEPT ![mu_wlb] = Extract(mu_wlb)]
  /\ mu_srvcd' = mu_srvcd \union mu_share
  /\ mu_wlb' = wlb_next
  /\ mu_st' = "PICK"
  /\ UNCHANGED <<mu_cur, mu_share, mu_word, mem>>

\* A plausible bug: the lane that is written back is not served by it.
WriteBackForgets ==
  /\ mu_st = "WLB"
  /\ rf' = [rf EXCEPT ![mu_wlb] = Extract(mu_wlb)]
  /\ mu_srvcd' = mu_srvcd
  /\ mu_wlb' = wlb_next
  /\ mu_st' = IF wlb_any THEN "WLB" ELSE "PICK"
  /\ UNCHANGED <<mu_cur, mu_share, mu_word, mem>>

\* The pointer and the exit read the lanes served before this edge, so each
\* lane is written twice.
WriteBack ==
  /\ mu_st = "WLB"
  /\ rf' = [rf EXCEPT ![mu_wlb] = Extract(mu_wlb)]
  /\ mu_srvcd' = mu_srvcd \union {mu_wlb}
  /\ mu_wlb' = IF wlb_any THEN wlb_next ELSE mu_wlb
  /\ mu_st' = IF wlb_any THEN "WLB" ELSE "PICK"
  /\ UNCHANGED <<mu_cur, mu_share, mu_word, mem>>

Done ==
  /\ mu_st = "DONE"
  /\ mu_st' = "IDLE"
  /\ UNCHANGED <<mu_cur, mu_srvcd, mu_share, mu_wlb, mu_word, rf, mem>>

Init ==
  /\ mu_st = "IDLE"
  /\ mu_cur = [store |-> FALSE, size |-> 1, addrs |-> <<>>]
  /\ mu_srvcd = {}
  /\ mu_share = {}
  /\ mu_wlb = 0
  /\ mu_word = 0
  /\ rf = [l \in Lanes |-> Nothing]
  /\ mem = Before

Busy == Pick \/ WriteBack \/ Done

Next == Take \/ Busy \/ Ack

Spec == Init /\ [][Next]_vars

\* The clock runs and the memory face acknowledges.
FairSpec == Spec /\ WF_vars(Busy) /\ WF_vars(Ack)

-----------------------------------------------------------------------------
(***************************************************************************)
(* Properties                                                              *)
(***************************************************************************)

TypeOK ==
  /\ mu_st \in {"IDLE", "PICK", "REQ", "WLB", "DONE"}
  /\ mu_srvcd \subseteq Mask
  /\ mu_wlb \in Lanes
  /\ mu_word \in 0 .. Words - 1
  /\ DOMAIN mem = DOMAIN Before

\* A drained instruction has done what the lanes do one after the other:
\* memory holds the highest lane's byte where two lanes store one, and each
\* lane's register the bytes of its own address, other registers untouched.
LaneSerialEffect ==
  /\ TypeOK
  /\ mu_st = "DONE" =>
       IF mu_cur.store
       THEN mem = LaneSerial(Before, mu_cur.addrs, mu_cur.size)
       ELSE rf = [l \in Lanes |->
                    IF l \in Mask THEN LoadLane(mu_cur.addrs, mu_cur.size, l) ELSE Nothing]

\* The beats are those of the golden coalescer, order and data included (the
\* bench diffs them one to one), and INV-15: the beat in flight serves only
\* enabled and unserved lanes, and the ones that the golden list names.
BeatsInGoldenOrder ==
  dmem_req =>
    LET beats == Coalesce(mu_cur.addrs, mu_cur.size, mu_cur.store)
        k == 1 + Cardinality({Word(Addr(l)) : l \in mu_srvcd})
    IN  /\ k <= Len(beats)
        /\ Beat = beats[k]
        /\ mu_share = Sharers(mu_cur.addrs, beats[k].word)
        /\ mu_share \intersect mu_srvcd = {}

\* An instruction that is taken is completed.
EveryInstructionDrains == mu_st = "PICK" ~> mu_st = "DONE"
=============================================================================
