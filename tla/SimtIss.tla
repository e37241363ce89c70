------------------------------- MODULE SimtIss -------------------------------
(***************************************************************************)
(* One warp of the golden model golden/simt_iss.py: an instruction is      *)
(* executed by all enabled lanes at once and the reconvergence loop runs   *)
(* to its end before the next one.                                         *)
(*                                                                         *)
(* A warp's state is [pc, mask, stack], the stack's top first.  Only the   *)
(* control of an instruction is kept: addresses count instructions, and    *)
(* the lanes that take a branch, which depend on data, are an argument.    *)
(***************************************************************************)
EXTENDS Integers, Sequences

CONSTANTS
  Lanes,
  STK,     \* depth of the divergence stack
  Handler  \* the trap vector, mtvec

\* The instruction classes, by what they do to the control state.  A load or
\* a store continues like an ALU operation.
Alu == [op |-> "alu"]
Mem == [op |-> "mem"]
Illegal == [op |-> "illegal"]
Jump(t) == [op |-> "jump", tgt |-> t]
Branch(t) == [op |-> "branch", tgt |-> t]

(***************************************************************************)
(* The reconvergence loop                                                  *)
(***************************************************************************)

Due(s) == s.stack # <<>> /\ s.pc >= Head(s.stack).reconv

\* One turn: the pending side starts, with the arrival as its reconvergence
\* point, or the two sides join.
Turn(s) ==
  LET tos == Head(s.stack)
  IN  IF tos.pending
      THEN [pc |-> tos.restart, mask |-> tos.other,
            stack |-> <<[tos EXCEPT !.pending = FALSE, !.reconv = s.pc]>> \o Tail(s.stack)]
      ELSE [s EXCEPT !.mask = tos.join, !.stack = Tail(@)]

\* Every entry has at most two turns, so the loop ends within 2 * STK turns.
Reconverge(s) ==
  LET after[n \in 0 .. 2 * STK] ==
        IF n = 0 THEN s
        ELSE IF Due(after[n - 1]) THEN Turn(after[n - 1]) ELSE after[n - 1]
  IN  after[2 * STK]

(***************************************************************************)
(* One instruction                                                         *)
(***************************************************************************)

Trap(s) == [s EXCEPT !.pc = Handler]

Push(s, taken, t) ==
  [pc |-> s.pc + 1, mask |-> s.mask \ taken,
   stack |-> <<[other |-> taken, restart |-> t, join |-> s.mask,
                reconv |-> t, pending |-> TRUE]>> \o s.stack]

\* The state after instruction i, when the lanes taken take the branch.
Step(s, i, taken) ==
  CASE i.op \in {"alu", "mem"} -> Reconverge([s EXCEPT !.pc = @ + 1])
    [] i.op = "illegal" -> Trap(s)
    [] i.op = "jump" -> Reconverge([s EXCEPT !.pc = i.tgt])
    [] i.op = "branch" ->
         IF taken = {} THEN Reconverge([s EXCEPT !.pc = @ + 1])
         ELSE IF taken = s.mask THEN Reconverge([s EXCEPT !.pc = i.tgt])
         ELSE IF i.tgt <= s.pc \/ Len(s.stack) >= STK THEN Trap(s)
         ELSE Reconverge(Push(s, taken, i.tgt))
==============================================================================
