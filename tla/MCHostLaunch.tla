---------------------------- MODULE MCHostLaunch ----------------------------
(***************************************************************************)
(* Two threads: a sum of two arrays, the same with a barrier and a total,  *)
(* sums before and behind two barriers, kernels that log and assert, trap, *)
(* or never end.                                                           *)
(***************************************************************************)
EXTENDS HostLaunch

SumOf(a, b, c) == [op |-> "add", a |-> a, b |-> b, c |-> c, n |-> 4]
AddOp == SumOf(1, 2, 3)
Barrier == [op |-> "barrier", scr |-> 5]
TotalOf(n) == [op |-> "combine", src |-> 3, n |-> n, dst |-> 6]
Log(v) == [op |-> "log", v |-> v]
AssertOp(code) == [op |-> "assert", code |-> code]
Trap == [op |-> "trap", cause |-> 2, mepc |-> 3, mtval |-> 1]
Spins == [op |-> "spin"]
Both(script) == [t \in 0 .. 1 |-> script]
MCKernels ==
  << Both(<<AddOp>>),
     Both(<< AddOp, Barrier, TotalOf(2) >>),
     [t \in 0 .. 1 |-> IF t = 0 THEN <<Log(3), AssertOp(2), Log(1), Log(2), AssertOp(1)>> ELSE <<AssertOp(0)>>],
     [t \in 0 .. 1 |-> IF t = 0 THEN <<Log(1), Trap, Log(1)>> ELSE <<>>],
     [t \in 0 .. 1 |-> IF t = 0 THEN <<Log(2)>> ELSE <<Spins>>],
     Both(<< AddOp, SumOf(1, 3, 3), Barrier, TotalOf(3), SumOf(6, 6, 6), Barrier, AddOp >>) >>
\* The last thread logs.
MCTailKernels == << [t \in 0 .. 1 |-> IF t = 0 THEN <<>> ELSE <<Log(3)>>] >>

In(arr, align) == [kind |-> "in", arr |-> arr, align |-> align]
Room(n, memset) == [kind |-> "out", n |-> n, align |-> 2, memset |-> memset]
IntSpec(v) == [kind |-> "int", val |-> v]
Run(kernel, grid_n) == [kind |-> "launch", kernel |-> kernel, grid_n |-> grid_n]
MCSessions ==
  { << In(<<1, 2, 3>>, 2), In(<<3, 3, 2>>, 1), Room(3, FALSE), IntSpec(3), Run(1, 3) >>,
    << In(<<2, 1>>, 2), In(<<1, 2>>, 2), Room(2, TRUE), IntSpec(1), Room(4, TRUE), Room(1, FALSE), Run(2, 2) >>,
    << In(<<2, 1, 3>>, 2), In(<<1, 2, 2>>, 2), Room(3, TRUE), IntSpec(1), Room(4, TRUE), Room(1, FALSE), Run(6, 2) >>,
    << Run(3, 1) >>, << Run(4, 2) >>, << Run(5, 2) >>, << In(<<1>>, 4), Run(3, 1) >> }
MCTailSessions == { << Run(1, 2) >> }

ASSUME ProgramsProved == \A k \in DOMAIN MCKernels : RaceFree(MCKernels[k]) /\ RingsApart(MCKernels[k])
ASSUME TailApart == \A k \in DOMAIN MCTailKernels : RaceFree(MCTailKernels[k]) /\ ~RingsApart(MCTailKernels[k])
=============================================================================
