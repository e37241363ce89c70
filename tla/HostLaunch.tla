----------------------------- MODULE HostLaunch -----------------------------
(***************************************************************************)
(* The host runtime: host/mkcuda.py over the simulated SoC or, through the *)
(* overrides of host/mkuio.py, over the bridge's registers; the program    *)
(* host/run_kernel.py that allocates, launches and reads back; and, on the *)
(* device, crt0.S and the functions of mk.h, one call at a time.           *)
(* Addresses count words.  The simulated device moves inside RUN only, so  *)
(* the host's commands between two RUNs are one step.  Left out: the       *)
(* compiler and its cache, the counters, the wall clock.                   *)
(***************************************************************************)
EXTENDS Integers, Sequences, FiniteSetsExt

CONSTANTS NTHREADS, LOG_SLOTS,
          ImageRoom,   \* words below PARAMS_BASE, which instruction memory mirrors
          ParamRoom,   \* words from PARAMS_BASE to DONE_BASE
          HeapRoom,
          Modulus,     \* of a data word
          TrapBit,     \* 0x80000000: above every code of mk_assert
          Kernels,     \* kernel k is its threads' scripts, its image the one word k
          Sessions,    \* what the program may do next
          MaxChunks,   \* max_cycles / chunk, rounded up
          MaxLaunches  \* bounds the program

ASSUME LayoutAssumption ==
  /\ {NTHREADS, LOG_SLOTS, ImageRoom, HeapRoom, Modulus, TrapBit, MaxChunks} \subseteq Nat \ {0}
  /\ LOG_SLOTS >= 2 /\ ParamRoom \in Nat /\ MaxLaunches \in Nat

VARIABLES transport,  \* MK_TRANSPORT
          mem, imem,  \* device memory; the bridge's instruction memory
          heap,       \* Runtime._heap
          bufs,       \* the buffers the program holds, with the words it expects there
          args,       \* launch_args
          todo,       \* the rest of the session
          call,       \* launch: the kernel, RUN commands so far, where it is
          thread,     \* each thread's place in its script
          did,        \* ghost: what each thread reported since the last RESET
          outcome,    \* what the last launch returned or raised
          launches

hostVars == <<transport, mem, imem, heap, bufs, args, todo, call, thread, did, outcome, launches>>

Tids == 0 .. NTHREADS - 1
PARAMS_BASE == ImageRoom
DONE_BASE == PARAMS_BASE + ParamRoom
LOG_BASE == DONE_BASE + NTHREADS
ASSERT_BASE == LOG_BASE + NTHREADS * LOG_SLOTS
\* A log ring holds its count before its slots.
LogRing(t) == LOG_BASE + t * (LOG_SLOTS + 1)
HEAP_BASE == ASSERT_BASE + NTHREADS
HEAP_END == HEAP_BASE + HeapRoom

Stored(m, a, words) == [x \in DOMAIN m |-> IF x - a \in 0 .. Len(words) - 1 THEN words[x - a + 1] ELSE m[x]]
Get(m, a, n) == [k \in 1 .. n |-> m[a + k - 1]]
Zeros(n) == [k \in 1 .. n |-> 0]
Asleep == [t \in Tids |-> [at |-> 1, i |-> t, w |-> 0]]
Silent == [t \in Tids |-> [code |-> 0, log |-> <<>>]]
NoCall == [at |-> "none", kernel |-> 0, ran |-> 0]

HostInit ==
  /\ transport \in {"sim", "uio"}
  /\ mem = [a \in 0 .. HEAP_END - 1 |-> 0] /\ imem = [a \in 0 .. ImageRoom - 1 |-> 0]
  /\ heap = HEAP_BASE /\ bufs = {} /\ args = <<>> /\ todo = <<>>
  /\ call = NoCall /\ thread = Asleep /\ did = Silent
  /\ outcome = [kind |-> "none", fails |-> {}] /\ launches = 0

(***************************************************************************)
(* Buffers                                                                 *)
(***************************************************************************)

\* UioRuntime.write mirrors what lies below IMEM_BYTES into instruction memory.
Mirrored(m, a, words) == IF transport = "uio" THEN Stored(m, a, words) ELSE m

\* Mutant: rounds down
AlignedDown(a, align) == (a \div align) * align
Aligned(a, align) == ((a + align - 1) \div align) * align
alloc(n, align) == [addr |-> Aligned(heap, align), n |-> n]

NextOf(kind) == call.at = "none" /\ todo # <<>> /\ Head(todo).kind = kind
Holding(b, words) == bufs \union {[addr |-> b.addr, words |-> words]}

\* to_device: a new buffer with the array in it.
ToDevice ==
  /\ NextOf("in")
  /\ LET arr == Head(todo).arr
         b   == alloc(Len(arr), Head(todo).align)
     IN  /\ b.addr + b.n <= HEAP_END
         /\ heap' = b.addr + b.n
         /\ mem' = Stored(mem, b.addr, arr) /\ imem' = Mirrored(imem, b.addr, arr)
         /\ bufs' = Holding(b, arr) /\ args' = Append(args, b.addr)
  /\ todo' = Tail(todo)
  /\ UNCHANGED <<transport, call, thread, did, outcome, launches>>

\* An output: whatever the memory held until a kernel writes it, or zeros.
Out ==
  /\ NextOf("out")
  /\ LET b     == alloc(Head(todo).n, Head(todo).align)
         clear == Head(todo).memset
     IN  /\ b.addr + b.n <= HEAP_END
         /\ heap' = b.addr + b.n
         /\ mem' = IF clear THEN Stored(mem, b.addr, Zeros(b.n)) ELSE mem
         /\ bufs' = Holding(b, Get(mem', b.addr, b.n)) /\ args' = Append(args, b.addr)
  /\ todo' = Tail(todo)
  /\ UNCHANGED <<transport, imem, call, thread, did, outcome, launches>>

IntArg ==
  /\ NextOf("int")
  /\ args' = Append(args, Head(todo).val) /\ todo' = Tail(todo)
  /\ UNCHANGED <<transport, mem, imem, heap, bufs, call, thread, did, outcome, launches>>

\* device heap exhausted: the program ends
Exhausted ==
  /\ call.at = "none" /\ todo # <<>> /\ Head(todo).kind \in {"in", "out"}
  /\ LET spec == Head(todo)
         n    == IF spec.kind = "in" THEN Len(spec.arr) ELSE spec.n
         b    == alloc(n, spec.align)
     IN  b.addr + b.n > HEAP_END
  /\ outcome' = [kind |-> "exhausted", fails |-> {}] /\ todo' = <<>> /\ launches' = MaxLaunches
  /\ UNCHANGED <<transport, mem, imem, heap, bufs, args, call, thread, did>>

\* The next kernel, after free_all if the program is done with its buffers.
Begin ==
  /\ call.at = "none" /\ todo = <<>> /\ launches < MaxLaunches
  /\ \E s \in Sessions, free \in BOOLEAN :
       /\ todo' = s /\ args' = <<>>
       /\ heap' = IF free THEN HEAP_BASE ELSE heap
       /\ bufs' = IF free THEN {} ELSE bufs
  /\ UNCHANGED <<transport, mem, imem, call, thread, did, outcome, launches>>

(***************************************************************************)
(* launch                                                                  *)
(***************************************************************************)

Padded(grid_n) == ((grid_n + NTHREADS - 1) \div NTHREADS) * NTHREADS
write(addr, words) == [addr |-> addr, words |-> words]
Parameters(grid_n) == <<Len(args), Padded(grid_n)>> \o args
\* Mutant: the ASSERT words of the launch before stay
WritesKeepAsserts(kernel, grid_n) ==
  << write(0, <<kernel>>), write(PARAMS_BASE, Parameters(grid_n)), write(DONE_BASE, Zeros(NTHREADS)),
     write(LOG_BASE, Zeros(NTHREADS * LOG_SLOTS)) >>
\* Mutant: the rings of the launch before stay
WritesKeepLog(kernel, grid_n) ==
  << write(0, <<kernel>>), write(PARAMS_BASE, Parameters(grid_n)), write(DONE_BASE, Zeros(NTHREADS)),
     write(ASSERT_BASE, Zeros(NTHREADS)) >>
\* The writes of a launch, in the code's order.
LaunchWrites(kernel, grid_n) ==
  << write(0, <<kernel>>), write(PARAMS_BASE, Parameters(grid_n)), write(DONE_BASE, Zeros(NTHREADS)),
     write(ASSERT_BASE, Zeros(NTHREADS)), write(LOG_BASE, Zeros(NTHREADS * (LOG_SLOTS + 1))) >>

\* The writes one after the other: a word holds the last one that covers it.
Covers(w, x) == w.addr <= x /\ x < w.addr + Len(w.words)
AllStored(m, writes) ==
  [x \in DOMAIN m |->
     LET over == {k \in DOMAIN writes : Covers(writes[k], x)}
         last == writes[Max(over)]
     IN  IF over = {} THEN m[x] ELSE last.words[x - last.addr + 1]]

\* RESET, the writes, the counters, RESET.  mkuio has no COUNTERS verb and raises
\* there.
Launch ==
  /\ NextOf("launch")
  /\ LET spec   == Head(todo)
         writes == LaunchWrites(spec.kernel, spec.grid_n)
     IN  /\ mem' = AllStored(mem, writes)
         /\ imem' = IF transport = "uio" THEN AllStored(imem, writes) ELSE imem
         /\ call' = [at |-> IF transport = "sim" THEN "loop" ELSE "none", kernel |-> spec.kernel, ran |-> 0]
  /\ thread' = Asleep /\ did' = Silent
  /\ outcome' = [kind |-> IF transport = "sim" THEN "none" ELSE "not implemented", fails |-> {}]
  /\ launches' = launches + 1 /\ todo' = Tail(todo)
  /\ UNCHANGED <<transport, heap, bufs, args>>

RUN ==
  /\ call.at = "loop" /\ call' = [call EXCEPT !.at = "run"]
  /\ UNCHANGED <<transport, mem, imem, heap, bufs, args, todo, thread, did, outcome, launches>>

done_sum ==
  LET sum[n \in 0 .. NTHREADS] == IF n = 0 THEN 0 ELSE sum[n - 1] + mem[DONE_BASE + n - 1] IN sum[NTHREADS]
_assert_failures == {<<t, mem[ASSERT_BASE + t]>> : t \in {u \in Tids : mem[ASSERT_BASE + u] # 0}}

\* What a buffer holds after an operation of the kernel, from what the program holds.
Total(words) ==
  LET sum[n \in 0 .. Len(words)] == IF n = 0 THEN 0 ELSE (sum[n - 1] + words[n]) % Modulus IN sum[Len(words)]
WordsAt(held, a) == (CHOOSE b \in held : b.addr = a).words
Result(held, op, b) ==
  CASE op.op = "add" /\ b.addr = args[op.c] ->
         [k \in DOMAIN b.words |->
            IF k <= args[op.n] THEN (WordsAt(held, args[op.a])[k] + WordsAt(held, args[op.b])[k]) % Modulus
            ELSE b.words[k]]
    [] op.op = "combine" /\ b.addr = args[op.dst] -> <<Total(WordsAt(held, args[op.src]))>>
    [] op.op = "barrier" /\ b.addr = args[op.scr] -> [k \in DOMAIN b.words |-> b.words[k] + 1]
    [] OTHER -> b.words
Effect(held, op) == {[addr |-> b.addr, words |-> Result(held, op, b)] : b \in held}
\* The buffers after each operation of the kernel, and after the kernel.
HeldAfter(script) ==
  LET held[p \in 0 .. Len(script)] == IF p = 0 THEN bufs ELSE Effect(held[p - 1], script[p]) IN held
Computed(kernel) == HeldAfter(Kernels[kernel][0])[Len(Kernels[kernel][0])]
\* A kernel that did not end may have written anything where it writes.
Written(script) ==
  UNION {LET op == script[p] IN CASE op.op = "add" -> {args[op.c]} [] op.op = "combine" -> {args[op.dst]}
                                   [] op.op = "barrier" -> {args[op.scr]} [] OTHER -> {} : p \in DOMAIN script}
Forgotten(kernel) == {b \in bufs : b.addr \notin Written(Kernels[kernel][0])}

Return(kind) ==
  /\ call' = [call EXCEPT !.at = "none", !.ran = 0]
  /\ outcome' = [kind |-> IF _assert_failures # {} THEN "KernelAssert" ELSE kind, fails |-> _assert_failures]

\* Mutant: a chunk in which some thread is done does not count
CountIdle == IF done_sum = 0 THEN call.ran + 1 ELSE call.ran
Counted == call.ran + 1
\* The RUN is over: the host reads the mailboxes.
Poll ==
  /\ call.at = "run"
  /\ LET ran == Counted
     IN  IF done_sum = NTHREADS
         THEN Return("ok") /\ bufs' = Computed(call.kernel)
         ELSE IF ran < MaxChunks
         THEN call' = [call EXCEPT !.at = "loop", !.ran = ran] /\ UNCHANGED <<bufs, outcome>>
         ELSE Return("TimeoutError") /\ bufs' = Forgotten(call.kernel)
  /\ UNCHANGED <<transport, mem, imem, heap, args, todo, thread, did, launches>>

device_log(t) == LET n == IF mem[LogRing(t)] < LOG_SLOTS THEN mem[LogRing(t)] ELSE LOG_SLOTS IN Get(mem, LogRing(t) + 1, n)

(***************************************************************************)
(* The device                                                              *)
(***************************************************************************)

mk_grid_n == mem[PARAMS_BASE + 1]
mk_arg(i) == mem[PARAMS_BASE + 1 + i]
Script(t) == Kernels[mem[0]][t]
Op(t) == Script(t)[thread[t].at]
Running(t) == call.at = "run" /\ thread[t].at <= Len(Script(t))
Doing(t, op) == Running(t) /\ Op(t).op = op
Step(t) == thread' = [thread EXCEPT ![t] = [at |-> @.at + 1, i |-> t, w |-> 0]]
host == <<transport, imem, heap, bufs, args, todo, call, outcome, launches>>

\* One round of MK_GRID_STRIDE: c[i] = a[i] + b[i].
Add(t) ==
  /\ Doing(t, "add")
  /\ LET op == Op(t)
         i  == thread[t].i
         v  == (mem[mk_arg(op.a) + i] + mem[mk_arg(op.b) + i]) % Modulus
     IN  IF i < mk_grid_n
         THEN /\ mem' = IF i < mk_arg(op.n) THEN [mem EXCEPT ![mk_arg(op.c) + i] = v] ELSE mem
              /\ thread' = [thread EXCEPT ![t].i = i + NTHREADS]
         ELSE Step(t) /\ UNCHANGED mem
  /\ UNCHANGED <<host, did>>

\* mk_barrier of gpt2_seq.c, a warp to a thread: the flags, then the phases.
bar(op, w) == mk_arg(op.scr) + w
ph(op, t) == mk_arg(op.scr) + NTHREADS + t
Arrive(t) ==
  /\ Doing(t, "barrier") /\ thread[t].w = 0
  /\ LET p == mem[ph(Op(t), t)] + 1
     IN  mem' = [mem EXCEPT ![ph(Op(t), t)] = p, ![bar(Op(t), t)] = p]
  /\ thread' = [thread EXCEPT ![t].w = 1]
  /\ UNCHANGED <<host, did>>
PollFlag(t) ==
  /\ Doing(t, "barrier") /\ thread[t].w > 0
  /\ mem[bar(Op(t), thread[t].w - 1)] >= mem[ph(Op(t), t)]
  /\ IF thread[t].w < NTHREADS THEN thread' = [thread EXCEPT ![t].w = @ + 1] ELSE Step(t)
  /\ UNCHANGED <<mem, host, did>>

\* Hart 0 puts the parts together.
Combine(t) ==
  /\ Doing(t, "combine")
  /\ LET op == Op(t)
     IN  mem' = IF t = 0 THEN [mem EXCEPT ![mk_arg(op.dst)] = Total(Get(mem, mk_arg(op.src), op.n))] ELSE mem
  /\ Step(t) /\ UNCHANGED <<host, did>>

mk_log(t) ==
  /\ Doing(t, "log")
  /\ LET n == mem[LogRing(t)]
     IN  mem' = IF n < LOG_SLOTS THEN [mem EXCEPT ![LogRing(t) + 1 + n] = Op(t).v, ![LogRing(t)] = n + 1] ELSE mem
  /\ did' = [did EXCEPT ![t].log = IF Len(@) < LOG_SLOTS THEN Append(@, Op(t).v) ELSE @]
  /\ Step(t) /\ UNCHANGED host

mk_assert(t) ==
  /\ Doing(t, "assert")
  /\ LET code == IF Op(t).code = 0 THEN 1 ELSE Op(t).code
     IN  /\ mem' = [mem EXCEPT ![ASSERT_BASE + t] = IF @ = 0 THEN code ELSE @]
         /\ did' = [did EXCEPT ![t].code = IF @ = 0 THEN code ELSE @]
  /\ Step(t) /\ UNCHANGED host

\* _mk_trap: the cause, where and what into the log, and the thread parks.
_mk_trap(t) ==
  /\ Doing(t, "trap")
  /\ LET op == Op(t)
     IN  /\ mem' = Stored([mem EXCEPT ![ASSERT_BASE + t] = TrapBit + op.cause], LogRing(t), <<2, op.mepc, op.mtval>>)
         /\ did' = [did EXCEPT ![t] = [code |-> TrapBit + op.cause, log |-> <<op.mepc, op.mtval>>]]
  /\ thread' = [thread EXCEPT ![t].at = Len(Script(t)) + 2]
  /\ UNCHANGED host

\* kernel_main has returned: the DONE mailbox, and the thread parks.  A thread in an
\* endless loop ("spin") has no step.
Done(t) ==
  /\ call.at = "run" /\ thread[t].at = Len(Script(t)) + 1
  /\ mem' = [mem EXCEPT ![DONE_BASE + t] = 1]
  /\ Step(t) /\ UNCHANGED <<host, did>>

DeviceStep(t) ==
  \/ Add(t) \/ Arrive(t) \/ PollFlag(t) \/ Combine(t)
  \/ mk_log(t) \/ mk_assert(t) \/ _mk_trap(t) \/ Done(t)
HostStep == ToDevice \/ Out \/ IntArg \/ Exhausted \/ Launch \/ RUN \/ Poll
HostNext == HostStep \/ Begin \/ \E t \in Tids : DeviceStep(t)

\* The host's program goes on, and every RUN comes to its last cycle.
HostSpec == HostInit /\ [][HostNext]_hostVars /\ WF_hostVars(HostStep)

(***************************************************************************)
(* Programs: what the host's program and the kernel owe each other         *)
(***************************************************************************)

IsBuffer(spec) == spec.kind \in {"in", "out"}
Size(spec) == IF spec.kind = "in" THEN Len(spec.arr) ELSE spec.n
SpecLegal(spec) ==
  \/ spec.kind = "in" /\ spec.arr \in Seq(Nat) /\ Len(spec.arr) > 0 /\ spec.align \in Nat \ {0}
  \/ spec.kind = "out" /\ {spec.n, spec.align} \subseteq Nat \ {0} /\ spec.memset \in BOOLEAN
  \/ spec.kind = "int" /\ spec.val \in Nat
  \/ spec.kind = "launch" /\ spec.kernel \in DOMAIN Kernels /\ spec.grid_n \in Nat

OpLegal(op) ==
  \/ op.op \in {"add", "barrier", "combine", "spin"}
  \/ op.op = "log" /\ op.v \in Nat
  \/ op.op = "assert" /\ op.code \in Nat
  \/ op.op = "trap" /\ {op.cause, op.mepc, op.mtval} \subseteq Nat

\* The operation stays inside the buffers that the session hands to the kernel.
Fits(op, s, grid_n) ==
  LET Given(k) == k \in 1 .. Len(s) - 1
  IN  CASE op.op = "add" ->
             /\ Given(op.n) /\ s[op.n].kind = "int" /\ s[op.n].val <= Padded(grid_n)
             /\ \A k \in {op.a, op.b, op.c} : Given(k) /\ IsBuffer(s[k]) /\ s[op.n].val <= Size(s[k])
        [] op.op = "combine" ->
             /\ \A k \in {op.src, op.dst} : Given(k) /\ IsBuffer(s[k])
             /\ op.n = Size(s[op.src]) /\ Size(s[op.dst]) = 1
        [] op.op = "barrier" ->
             Given(op.scr) /\ s[op.scr].kind = "out" /\ s[op.scr].memset /\ s[op.scr].n = 2 * NTHREADS
        [] OTHER -> TRUE

\* A session allocates, then launches what fits.
SessionLegal(s) ==
  /\ Len(s) + 1 <= ParamRoom
  /\ \A k \in DOMAIN s : SpecLegal(s[k]) /\ (s[k].kind = "launch" => k = Len(s))
  /\ \A k \in DOMAIN s : s[k].kind = "launch" =>
       \A t \in Tids : \A p \in DOMAIN Kernels[s[k].kernel][t] : Fits(Kernels[s[k].kernel][t][p], s, s[k].grid_n)

ASSUME ProgramAssumption ==
  /\ DOMAIN Kernels \subseteq Nat \ {0}
  /\ \A k \in DOMAIN Kernels, t \in Tids :
       LET script == Kernels[k][t]
       IN  script \in Seq({script[p] : p \in DOMAIN script}) /\ \A p \in DOMAIN script : OpLegal(script[p])
  /\ \A s \in Sessions : s \in Seq({s[k] : k \in DOMAIN s}) /\ SessionLegal(s)

\* No thread reads a word that another may write before they meet at a barrier: the
\* threads run the same operations on buffers, the flags are nobody's data, and a
\* barrier lies between a sum and the hart that puts its parts together.
DataOp(op) == op.op \in {"add", "barrier", "combine"}
RaceFree(script) ==
  LET ops == script[0]
  IN  /\ \A t \in Tids : \A p \in DOMAIN ops \union DOMAIN script[t] :
           (p \in DOMAIN ops /\ DataOp(ops[p])) \/ (p \in DOMAIN script[t] /\ DataOp(script[t][p])) =>
             p \in DOMAIN ops /\ p \in DOMAIN script[t] /\ script[t][p] = ops[p]
      /\ \A p, q \in DOMAIN ops :
           /\ ops[p].op = "barrier" /\ ops[q].op = "add" => ops[p].scr \notin {ops[q].a, ops[q].b, ops[q].c}
           /\ ops[p].op = "barrier" /\ ops[q].op = "combine" => ops[p].scr \notin {ops[q].src, ops[q].dst}
           /\ ops[p].op = "combine" /\ ops[q].op = "add" /\ ops[q].c = ops[p].src =>
                \E r \in DOMAIN ops : ops[r].op = "barrier" /\ ((p < r /\ r < q) \/ (q < r /\ r < p))

\* The last rings lie over the ASSERT words: their threads log nothing, and the
\* thread whose ASSERT word is the count of a ring asserts nothing.
RingsApart(script) ==
  \A t \in Tids :
    /\ LogRing(t) + LOG_SLOTS >= ASSERT_BASE =>
         \A p \in DOMAIN script[t] : script[t][p].op \notin {"log", "trap"}
    /\ \A u \in Tids : LogRing(t) = ASSERT_BASE + u =>
         \A p \in DOMAIN script[u] : script[u][p].op \notin {"assert", "trap"}

KernelsRaceFree == \A k \in DOMAIN Kernels : RaceFree(Kernels[k])
KernelsApart == \A k \in DOMAIN Kernels : RingsApart(Kernels[k])

(***************************************************************************)
(* Properties                                                              *)
(***************************************************************************)

\* mkcuda.py launch: a buffer reads back as the program wrote it, or as the result
\* of every kernel that ended since, whatever was allocated, launched, trapped or
\* timed out in between; and the image that runs is the one launched.
HostView ==
  /\ \A b \in bufs : call.at = "none" => Get(mem, b.addr, Len(b.words)) = b.words
  /\ call.kernel # 0 => (IF transport = "uio" THEN imem[0] ELSE mem[0]) = call.kernel

\* mk.h mk_assert, mkcuda.py _assert_failures: a launch reports the assertions and
\* traps of its own threads, and those only.
FailuresOwn ==
  outcome.kind \in {"ok", "KernelAssert", "TimeoutError"} =>
    /\ outcome.fails = {<<t, did[t].code>> : t \in {u \in Tids : did[u].code # 0}}
    /\ outcome.kind = "ok" => \A t \in Tids : thread[t].at = Len(Script(t)) + 2

\* mk.h mk_log, mkcuda.py device_log: after a launch the log is what its threads
\* logged.
LogOwn ==
  outcome.kind \in {"ok", "KernelAssert", "TimeoutError"} /\ todo = <<>> =>
    \A t \in Tids : device_log(t) = did[t].log

\* mkcuda.py launch: a launch ends, with a kernel that never ends too.
LaunchEnds == call.at = "loop" ~> call.at = "none"
=============================================================================
