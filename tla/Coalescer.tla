------------------------------ MODULE Coalescer ------------------------------
(***************************************************************************)
(* golden/coalescer.py: the beats that one memory instruction of a warp    *)
(* makes, and golden/simt_iss.py's effect of it, lane after lane.          *)
(*                                                                         *)
(* An access is [lane, addr]; all accesses of an instruction have one size *)
(* and one kind.  Memory is byte addressed, Unit bytes to a word (the      *)
(* code's four).  A byte is named by where it comes from: <<lane, i>> is   *)
(* byte i of what the lane stores, Old what was there before.              *)
(***************************************************************************)
EXTENDS Integers, Sequences, FiniteSetsExt

CONSTANTS Unit, Old

Word(a) == a \div Unit
Bytes(size) == 0 .. size - 1
LanesOf(addrs) == DOMAIN addrs

\* Lanes are taken in ascending order: the first `to' of them.
Reach(addrs) == Max(LanesOf(addrs)) + 1

\* The words in the order of their first touchers
WordsInOrder(addrs) ==
  LET order[to \in 0 .. Reach(addrs)] ==
        IF to = 0 THEN <<>>
        ELSE LET w == Word(addrs[to - 1])
             IN  IF to - 1 \in LanesOf(addrs) /\ w \notin Range(order[to - 1])
                 THEN Append(order[to - 1], w) ELSE order[to - 1]
  IN  order[Reach(addrs)]

Sharers(addrs, w) == {l \in LanesOf(addrs) : Word(addrs[l]) = w}

\* The bytes of word w that the lanes of S store; where two lanes store one
\* byte the highest lane wins.
Merge(addrs, size, S, w) ==
  LET touched == {addrs[l] + i : l \in S, i \in Bytes(size)}
      last(a) == Max({l \in S : a - addrs[l] \in Bytes(size)})
  IN  [a \in touched |-> <<last(a), a - addrs[last(a)]>>]

\* The requests of an instruction, in order
Coalesce(addrs, size, store) ==
  LET ws == WordsInOrder(addrs)
  IN  [k \in 1 .. Len(ws) |->
         [word |-> ws[k],
          data |-> IF store THEN Merge(addrs, size, Sharers(addrs, ws[k]), ws[k])
                   ELSE <<>>]]

(***************************************************************************)
(* The reference: lanes one after the other on a flat memory               *)
(***************************************************************************)

StoreLane(mem, addrs, size, l) ==
  [a \in DOMAIN mem |-> IF a - addrs[l] \in Bytes(size) THEN <<l, a - addrs[l]>> ELSE mem[a]]

LaneSerial(mem, addrs, size) ==
  LET after[to \in 0 .. Reach(addrs)] ==
        IF to = 0 THEN mem
        ELSE IF to - 1 \in LanesOf(addrs) THEN StoreLane(after[to - 1], addrs, size, to - 1)
        ELSE after[to - 1]
  IN  after[Reach(addrs)]

\* What lane l loads: the bytes of its address
LoadLane(addrs, size, l) == [i \in Bytes(size) |-> addrs[l] + i]
=============================================================================
