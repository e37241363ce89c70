# A TLA+ model of the GPU-TSU chip

The repository is a chip in SystemVerilog with bit-true golden models in Python:
a barrel-scheduled SIMT processor, a tensor engine and a sampling engine that
share one memory port, a bridge to AXI and a host runtime. The modules here
describe its control: who may act in a cycle, what a step changes, and what the
engines, the processor, the memory and the host promise one another; and the
golden models, which say what the results are. TLC checks them on small
instances; TLAPS proves, for every instance, the safety of every hardware component
but what the sampling cluster computes, that of the host's runtime, and three
refinements of abstract specifications.

The hardware modules take one step per clock edge. Registers are variables,
wires are operators, the inputs of a block (an acknowledge, an answer, a branch
condition) are arguments of the step, and every non-blocking assignment of the
edge is in that one step.

## 1. The system

```
 host runtime (mkcuda, mkuio)
     | AXI-Lite: run, status, instruction image      | device memory
 sg0_bridge  <----- credit face ----- simt_soc ------+
                                       |
                 order FIFO, scratchpad (the fork)
                                       |
                                  port_arbiter
                        A (level) /    | B    \ C (pulses and credits)
                         simt_core   tensor    s_cluster -- fabric_grid
                             |       sidecar        |
                             +-- command socket ----+
```

| Part | State | Operations | Hard behaviour | What makes it correct |
|---|---|---|---|---|
| `rtl/mem/port_arbiter.sv` | tag FIFO, skid FIFOs of ports B and C, credits, turn, core-in-flight flag | grant, answer, skid push and pop | a pulse, a grant and an answer at one edge; answers carry no name | each beat answered once, in order, to its owner; no overrun; the core is served |
| `rtl/simt_soc.sv`, fork | order FIFO, two completion buffers, scratchpad | push, buffer, fire | a one-cycle and an any-latency side | one flat memory with answers in order |
| `rtl/sg0_bridge.sv` | descriptor ring, AXI master state, run bit, register file | enqueue, AR/R, AW/W/B, CTRL | handshakes in any order; a host reset in the middle | the same face over AXI; the ring never overruns |
| `rtl/simt/simt_core.sv`, `barrel_sched.sv` | phase, pipe, busy bits, per-warp pc, mask, stack, walk flags | fetch, execute, retire, walk | three writers of warp state in one cycle; one walker for all | one writer per warp; the golden model's run; a warp that is not busy retires, which fails under load (section 3) |
| memory unit in `simt_core.sv` | queue, served and shared lanes, write-back pointer | take, pick, beat, write back | coalescing and byte conflicts, registers one cycle late | lane-serial effect, golden beats |
| command socket (`simt_core.sv`, `simt_soc.sv`, `sw/rt/mk.h`) | staging CSRs, queue, dispatch window, doorbell | stage, GO, poll, dispatch, finish | check in EX and commit in WB; the gap before busy rises | program order, snapshots, no false idle |
| `rtl/tensor/tensor_sidecar.sv` | phase, issue and response cursors, credits, pipe, tiles | load, multiply, store, look up | answers late and in bursts; overlapped pipe | golden result, quiet when idle |
| `rtl/fusion/s_cluster.sv` | section loader, sampling sequencer, walker, counters | PCONFIG, PSAMPLE, PDRAIN | a walk over the last sweep while the next runs | everything kept and drained is the golden machine's |
| `rtl/pbit/fabric_grid.sv` | order and colour tables, state store, write-behind queue | sweep by chunks | a new colour reads what the queue still holds | the golden machine's chunks |
| `golden/sampling_isa.py`, `qsite_golden.py`, `gibbs*.py`, `pbit`, `pdit.py`, `xoshiro.py` | configuration, site values, counters, work, streams | the same three commands; sweeps, kernels, jumps | ties, ends of tables, streams that meet | models of one thing agree; closed forms count what samplers do |
| `golden/pcd.py`, `grammar.py`, `fabric_anchor.py` | masters, couplings, work | train, anneal, rewrite, resample | many small updates in several copies | couplings stay on the graph; energy is work plus heat |
| `golden/gpt2_int.py`, `gpt2_load.py`, `quant4.py`, `tensor.py` | weights, scales | layers, greedy decoding, tokens, packing | masks and clipping in integers | causal; packed products are the plain ones |
| `golden/iss.py`, `rvfuzz.py`, `elf.py`, `spikelog.py`, `gates/p1_lockstep.py` | registers, memory, CSRs, log | step, trap, run, compare | a trap in the middle of an instruction | the log alone gives the machine |
| `gates/s7_isa.py`, `s8_isa.py`, `sw/kernels/s7_run.c` | a plan and what it expects | write a plan, replay it | the expectation is made beside the golden model | the same chain however the schedule is cut |
| `host/mkcuda.py`, `mkuio.py`, `run_kernel.py`, `sw/rt/mk.h`, `crt0.S` | arena, mailboxes, images, rings | alloc, write, launch, poll, read logs | the arena is given back whole; budgets end | buffers and reports are of the right launch |
| `host/gpt2_device.py`, `sw/kernels/gpt2_seq.c` | two tables of word numbers | serialize, follow | the numbers are written down twice | each word is what the kernel takes it for |
| `rtl/mem/dcache.sv`, `rtl/tensor/tensor_array.sv`, `barrel_core`, `rv32i_core` | lines; weight rows; pipelines | hit, write back, stream | not in this SoC | only the golden models are here |

The parts meet at four interfaces. The **level request** of the core (dmem) is
held until its ack. The **credit face** of every engine, of the arbiter, the fork
and the bridge takes one-cycle pulses, at most as many in flight as there are
credits, and answers strictly in request order. The **socket** between core and
engines is a one-cycle doorbell and a busy level. The **host** starts and stops
the chip with one bit, writes mailboxes and polls them. What is hard is at these
seams, and `PROJECT.json` lists the hazards with their lines.

## 2. The modules

| Module | Models | Kind |
|---|---|---|
| `MemoryFace` | what a credit face promises its issuer | abstract |
| `PortArbiter` | `port_arbiter.sv` with its three masters | component; its three safety properties proved in `MemoryPort_proofs` |
| `SocFork` | the fork; its external side is an instance of `MemoryFace`, its upstream side implements one | composition and refinement; `OneResponsePerBeat` and the refinement proved in `SocFork_proofs` |
| `Sg0Bridge` | the bridge's data path, DRAM and host | component and refinement of `MemoryFace`; `CreditsCoverRing` and the refinement proved in `HostSide_proofs` |
| `SimtIss` | one warp of `golden/simt_iss.py` | reference |
| `SimtCore`, `MCSimtCore` | `simt_core.sv` control and `barrel_sched.sv` | component, refined step by step against `SimtIss`; `OnePlace`, `StackNested` and `GoldenTrajectory` proved in `SimtCore_proofs` |
| `Coalescer` | `golden/coalescer.py` and the lane-serial effect | reference, pure operators |
| `MemUnit` | the memory unit | component; `LaneSerialEffect` and `BeatsInGoldenOrder` proved in `MemUnit_proofs` |
| `CommandStream` | the promise of the command socket | abstract |
| `CommandQueue` | the socket, the dispatcher and the engines' busy | component and refinement of `CommandStream`; `OneCommandAtATime` and the refinement proved in `CommandQueue_proofs` |
| `TensorSidecar`, `MCTensorSidecar` | the tensor engine | component; `ResultGolden` proved in `TensorSidecar_proofs` |
| `PBit` | the decision of a binary site | reference, pure operators |
| `GibbsSchedule` | graphs, colouring, order and bounds of a sweep | reference, pure operators |
| `SamplingGolden` (binary sites), `QsiteGolden` (four and eight values) | images and the golden machine of the three commands | reference |
| `FabricGrid` | the sampling engine | component |
| `SCluster`, `MCSCluster` | the cluster around `FabricGrid`, with its memory face, beside the golden machine | composition; `FaceCredits` proved in `MemoryPort_proofs` |
| `GibbsSamplers`, `Pdit`, `Xoshiro` | reference chains and the exact kernel; symbol samplers; the generator and its jumps | pure operators |
| `Plan` | the gates' plans and their replay on a device; what the sampling models check of themselves (`self_check`) | pure operators over `QsiteGolden`, with an instance of `FabricAnchor` |
| `Grammar`, `Learners`, `FabricAnchor` | exact likelihood; trainers and annealer; the anchor's energy account | pure operators |
| `TensorGolden`, `Gpt2Int`, `Gpt2Load` | packed products; the integer network; the tokenizer | pure operators |
| `Gpt2Scales` | what the network's integers stand for: ranges, folded weights, frozen ratios | pure operators |
| `Gpt2Layout` | the network's tables on the device, from both sides | pure operators |
| `GoldenUnits` | golden cache, queue, multiplier, serial line, bench memory | pure operators |
| `Iss`, `RvFuzz` | golden processor; random programs, loader and log comparison | pure operators |
| `MCGolden` | trials of all golden models | model checking |
| `HostLaunch`, `MCHostLaunch` | the host's runtime, a program on it, and the device's side of `mk.h` | component; `HostView`, `FailuresOwn` and `LogOwn` proved in `HostSide_proofs` |
| `RingTheorems` | remainders, rings with wrap bits, first and last elements, loops, rows and columns, stretches of a stream | lemmas the proofs share |

How state and actions correspond to the code:

* **PortArbiter.** A beat is its port and its number in the master's phase, so a
  lost, repeated or overtaken beat shows. `idx` and `rix` are the engine's issue
  and response cursors. `Offered` is the skid followed by the live pulse, `Grant`
  the priority and turn logic, and `Issue`, `Tags`, `Credit`, `CoreInFlight`,
  `Turn` one assignment each of the clocked block. FIFOs are sequences; that the
  code's pointers are never a lap apart is `NoOverrun`.
* **SocFork.** `Order` and `Buffers` are the FIFO and the two buffers, `sc_fire`
  and `ext_fire` the conditions to release an answer.
* **Sg0Bridge.** `Idle`, `ReadAddress`, `ReadData`, `WriteAddress`, `WriteAnswer`
  are the states of the AXI master. Write addresses and data are accepted
  independently. The ring keeps its wrap-bit pointers. `Host` is
  the CTRL write, which resets the SoC's side and nothing of the bridge.
* **SimtCore.** Addresses count instructions. An instruction is one of five
  classes by its effect on control (`SimtIss`); which lanes take a branch is an
  input. The priority of writes in the clocked block (walker last) is the order
  of the `IF` in `ProgramCounters`, `Masks` and `Stacks`. The memory unit is its
  queue and three states here; its inside is `MemUnit`.
* **MemUnit.** A stored byte is `<<lane, i>>`, a loaded byte its address. The unit
  of four bytes is the constant `Unit`.
* **CommandQueue.** The eight staging registers are one record: GO copies all of
  them at once and none is read apart. `m` and `wb` are the hart's
  instruction on its way from the check in EX to the commit in WB.
* **TensorSidecar.** One operator per state of the machine. Byte *i* of an operand
  is *i*; an element of C is its old word and the sequence of products added, so
  a wrong operand, a product missing or added twice, and a stale accumulator all
  show. Lanes, bytes in a word and the tile's size are constants.
* **FabricGrid** has one operator for each part that moves in a cycle: the
  sequencer, the fetch of pairs, the lanes, the write-behind queue. A lane's
  pipeline is its golden decision, taken when the engine takes it.
* **SCluster.** `st` is the sequencer's state and each state an operator. The
  image is the words `build_image` makes, read through the face; an answer
  carries no data, the word is the one of the response cursor. The golden machine
  (`g`, `todo`, `gout`) is history: nothing of the cluster reads it. It takes a
  command when the cluster does, and a chunk when the engine decides one, with
  the farm words the engine drew. `c` are the cursors of the image: beats issued
  (`iss` of `tot`), words taken (`rsp`), and the section's place. `ProperImage` is
  what an image of `Plans` must be, and `FaceInv`, below the properties, what the
  proof needs.
* **The golden models** are pure operators on records of the objects' fields, one
  for each method. A loop is a fold or a recursive function over the loop's
  index, an assertion that guards is a condition of a property, and a random draw
  is an argument. Where a text of several statements is a chain of operators
  (`HeaderRead`, `RowsRead`, ... in `SamplingGolden`, the phases of a layer in
  `Gpt2Int`), each takes what the one before gives.
* **Gpt2Scales** computes with units instead of numbers: an integer is a real
  number times a factor, and a factor is a product of powers of the calibrated
  ranges, the weights' own steps, two and a few constants. A sum of two terms
  with different factors is `Clash`, which nothing cancels, so a fold or a ratio
  forgotten anywhere between embedding and logits shows at the next interface.
* **Plan**, in its second part, takes what `self_check` draws at random as arguments, and where
  the code compares frequencies with a bound, the exact shares are compared.
* **HostLaunch.** Addresses count words. `RUN` is the command that lets the device
  run for a chunk: threads move, one call at a time and in any order, until the
  host's `Poll`. `Launch` is everything from RESET to the first RUN, as the
  simulated device stands still meanwhile; `transport` chooses whether the image
  is in device memory or mirrored to the bridge's instruction memory. `did` is a
  history of what threads reported. `bufs` is the program's side of a buffer: the
  words it put there, or what the operations of each kernel that ended make of them
  one after the other (`HeldAfter`, `Computed`), which is what a program that reads
  the buffer back compares it with. The section *Programs* says what a session and
  a kernel owe each other: the arguments a kernel uses are the buffers it was given
  and fit the work (`SessionLegal`), and its threads do not race (`RaceFree`).

Abstractions that hold throughout: in the hardware modules data width, arithmetic
and tables are data named by origin, except in the sampling engine, which
computes its golden decisions; byte enables exist only where they matter
(`MemUnit`, the lookups of `TensorSidecar`); commit ports are left out. In the
golden models widths and tables are constants that the runs make small.

## 3. The runs

| Run | Instance | Shows |
|---|---|---|
| `arbiter` | the SoC's credits (4, 4, 4), phases of up to 8 beats | `AnswerRouted`, `InOrderExactlyOnce`, `NoOverrun`; `CoreServed` and `EveryBeatAnswered` |
| `soc_fork` | one scratch and one external word, two values, four credits | `OneResponsePerBeat`; the fork is a flat memory with answers in order (`FlatMemoryFace`); `EveryBeatFires` |
| `bridge` | one word, two values, 3 credits, ring of 4 | the bridge is one too, and `CreditsCoverRing` across host resets; `EveryBeatAcked` |
| `simt_core` | 5 warps, 4 lanes, stack of 2, 75 programs | `OnePlace`, `StackNested`, `GoldenTrajectory` |
| `simt_starvation` | 8 warps, 8 lanes, stack of 8, all warps in loops of nested branches | two warps that are not busy never retire: `ReadyWarpRetires` fails |
| `mem_unit` | 3 lanes, 3 words of 2 bytes, both sizes, all masks and addresses | `LaneSerialEffect`, `BeatsInGoldenOrder`, `EveryInstructionDrains` |
| `command_queue` | all profiles, queue of 2, rotation of 5 | `CommandStream` is implemented (`ProgramOrder`), `OneCommandAtATime`, `PollEnds` |
| `tensor_sidecar` | 5 product shapes and two lookups in any sequence, 4 credits, 2 lanes | `ResultGolden` (with credits and quiet), `EveryCommandEnds` |
| `s_cluster` | nine plans of 3 to 8 commands, 3 lanes, 2 credits, two farm words a draw | `FaceCredits`, `ArchGolden`, `DrainGolden`, `CommandEnds` |
| `golden` | every input of a small set for the pure models; all sequences of 2 to 4 operations for the stateful ones | the nine properties named below |
| `host_launch` | two threads, six kernels in seven sessions, one or two launches, both transports, two chunks | `HostView`, `FailuresOwn`, `LogOwn`, `LaunchEnds` |
| `host_log_rings` | the same with a log of the last thread | a log ring lies over assertion words: `FailuresOwn` fails |

The properties of `golden`: `StreamsAreJumps` (generator), `SamplersAgree`
(symbol samplers and sweep kernel against counts over every word, grid sampler against
the golden machine), `PlansAgree` (plans of the
gates, the models' own checks), `LearningExact` (likelihood, trainers, annealer), `FirstLaw` (work and
heat), `NetworkExact` (products, causal forward pass, tokens, units), `UnitsExact`
(cache, queue, multiplier, serial line, bench memory), `LayoutAgrees` (tables of
the device) and `ProcessorExact` (log and machine, random programs). Each is
stated above its parts in `MCGolden`, against a definition written there from
what the result is for: a brute-force count, the published algorithm, or another
model of the same thing. Each module has its type or structural invariant as the
first part of one of its run's properties; there is no run for types alone.

Why the bounds are enough. *Arbiter*: the credits are the code's; a phase of
8 is twice a pool, so cursors run past a full pool. (The theorems of section 4 remove
these bounds up to the sidecar's.) *Fork*: one word on each side suffices for an answer to come from the
wrong side or in the wrong order, and two values tell answers apart; the
buffers reach their depth of four. *Bridge*: as in the code the ring is larger
than the credits and both wrap many times. *SIMT core*: five is the smallest
rotation the pipe's depth allows, four lanes are the fewest that nest two
divergences and leave both sides of the inner one populated, and a stack of two
overflows within the programs. Lanes are interchangeable (no instruction names
one), so the run uses symmetry. The starvation run has the chip's own size, which
all possible branches would put out of reach: its branches are on the lane's number (each
peels the lowest lane off). An iteration of *d* nested branches takes the walker for
2*d* + 1 cycles; five nests of seven (15 cycles each) and one of six (13) come round
every 88 cycles and fill them all. *Memory unit*: three lanes give conflicts between neighbours and
across a lane that does not take part, and the order of first touchers can
differ from the order of words. *Queue*: two entries are full, empty and wrap.
*Sidecar*: the shapes are below, at and above the lane window with rows that
end inside a word; all operations follow one another, so what one leaves in
tiles, pipe and pointers is there for the next. *Cluster*: stars read a leaf
whose value is still queued, from both sides; five sites of a colour take two
chunks of three lanes, the last one not full; 40 sites with one to update make
the next sweep end before the walker does; two replicas, dropped and taken back,
work measured in the state before the image's own, schedules kept over images
without one, drains of every mode. Two credits are the fewest that keep two
beats in flight. *Golden*: generators of
three bits have a cycle short enough to see a jump land in it; networks have two
layers and heads, and rows of scores reach down to the mask; the cache has two sets, so a victim's address
needs its tag and its set; a schedule has two entries. *Host*: two threads are a
last one and another; two launches show what one leaves to the next; two chunks a
budget that ends in the middle; a kernel with two barriers has sums in place, a
total, and sums of the total behind it, so that a thread that runs ahead would read
words not yet written; the heap is too small for two of the
larger sessions unless the buffers of the first are freed.

Fairness is weak and on whole clock edges: the clock runs, and the environment
answers. The clock's part is `Forced`: an edge must come when registers would
change at it though no master, memory or host acts (`ENABLED` of the edge without
inputs), so that an idle system may stay idle and no request is assumed to rescue
an older one. (`SimtCore` rotates at every edge, so there it is the step itself, `LaneNext`
of `MCSimtCore`, whose programs use no memory; in
`MemUnit` it is the actions of a unit at work; in `SCluster`, whose commands come
from a plan, it is `ClusterNext`: a wait for memory changes nothing and is a stutter, so
only the cycle with the answer is a step.) The environment's part is the
memory's promise (`sim/axi_pessimistic.py` and the DRAM answer every beat;
nothing in the code retries), and it is about beats already owed: `ExtResponds` of the fork and
`Responds` of the sidecar are not enabled by a beat that is asked for at the same
edge. For the queue it is that an engine ends its command,
which `TensorSidecar` and `SCluster` show for theirs. In
`HostLaunch` the host's program goes on and each RUN comes back, because a chunk
is a number of cycles; no fairness is assumed of the threads, one of which may
never end. No fairness is assumed of the arbiter's or the walker's choices; those
are the code's.

Deadlock is checked in every run but the two of `HostLaunch`: a clocked design
always has a next edge, a program on the host ends.

### The disagreements found

*A full walker* (`simt_starvation`). `docs/HARDWARE_ARCHITECTURE.md:59` (INV-10) and
106 promise that a warp whose busy bit is low retires within W·(depth+1) cycles. A retired
warp that waits for the walker is held from fetch with its busy bit low
(`barrel_sched.sv:35`), and the walker serves the lowest warp first, one check or pop a
cycle (`simt_core.sv:884`). Six warps in deep nests leave it no free cycle: the two highest
join the walker's queue and stay. So multi-pop merges do not only cost "that warp"
(`simt_core.sv:136`). No positive liveness is claimed for the core beyond that
of its memory unit (`EveryInstructionDrains`): with this walker it depends on the
programs' load.

*Log rings* (`host_log_rings`). The memory map gives the log region 64 rings of 32
words; the device strides 33. The last rings lie over the assertion words,
and a log of thread 63 is an assertion of thread 31 and others. The
kernels of `host_launch` keep clear of it (`RingsApart`), which TLC evaluates for
these and refutes for the kernel of `host_log_rings`.

### Observations

Met while modelling and read from the code; no run states them.

* *Alternation.* `docs/HARDWARE_ARCHITECTURE.md:223` has core and engines
  alternate. An engine completion that meets a waiting core hands the turn to the
  engine again (`port_arbiter.sv:171`). The core is served when the engine's phase
  drains, because one command executes at a time (`CoreServed`).
* *A restart in the middle.* Stopping the SoC leaves its beats in the bridge
  (`sg0_bridge.sv:209`); a host that restarts at once lets the next run receive
  their acks. `bridge` assumes a host that waits until the bridge is drained,
  which no register shows; with `HostWaits = FALSE` `FlatMemoryFace` fails.
* *The short branch.* For a divergent branch to the next instruction the golden
  model (`simt_iss.py:349-368`) joins at once, the core (`simt_core.sv:848`) runs
  that instruction twice with split masks. The documented scheme excludes the
  branch; neither rejects it. The programs of the runs have none, and `SkipAssumption` says so
  for the proofs.
* *Colours by degrees.* `fabric_anchor.py:74` colours anew only when degrees
  change; its head (12-13) speaks of a proper colouring.
* *Bridge counters.* A launch over the bridge ends in `NotImplementedError` at the
  counters (`mkcuda.py:245`, `mkuio.py:86`); the model leaves counters out.
* *Device program.* `gpt2_device.py:149` unpacks two values where 126 returns
  three; nothing checks that prompt and generated words fit `CTX` (131).
* *Unchecked limits.* More than 62 launch arguments reach the mailboxes
  (`mkcuda.py:239`); `mkcuda.py:177` uses whatever image the cache holds.
* *The mask.* `gpt2_int.py:442` masks a later position with -32768, the value scores
  saturate at. A row all of whose scores lie within the exponential's range of it
  would weigh later positions; `NetworkExact` has the masked weight zero from the edge of
  that range on (`MaskIsNothing`).
* *Golden processor.* A store that halts is logged as a word of the written value
  whatever its size, while `spikelog.parse` returns the unmasked value; an access
  outside the memory is a Python exception, not a trap.

## 4. The proofs

`MemoryPort_proofs` proves, of the arbiter, for all credit settings (up to the FIFO's depths),
all phase lengths, and whether engines overlap or not: `TypeCorrect`, `OrderPreserved`
(`InOrderExactlyOnce`), `RoutingCorrect` (`AnswerRouted`), `NoTripwire`
(`NoOverrun`), and the invariant they follow from, `Inductive`.

The argument. None of the safety properties is inductive. An answer is routed by
the tag FIFO's head and the memory answers its own head, so one must know that
the tags mirror the beats in flight (`TagsMirrorFlight`). That the answer is the
one the master counts next needs that flight and skid of a port together are a
window of consecutive numbers from its response cursor (`InOrderExactlyOnce`),
and that this window never exceeds the master's credits needs the bound on the
cursors (`CursorsBounded`). With the type invariant and the sum of credits and
tags these make `IInv`. The proof shows `IInv` of the initial state and of every
edge: an edge may grant or not, take pulses, return an answer and end a phase
all at once, so lemmas treat the queues (append, remove, both) apart from who
acts. The assumptions are those `PortArbiter` declares and its
runs evaluate: `CredAssumption` (each master's credits are between 1 and the
four of the memory port), `PhaseAssumption` and `OverlapAssumption`.

`MemoryPort_proofs` proves, of the cluster, `FaceKeepsCredits` (`FaceCredits`) for every
number of sites, slots, colours and credits up to four, and every sequence of commands
whose images are proper: the assertions of `s_cluster.sv:636-639` cannot fire, no
section, drain or command ends with a beat unanswered, and an image is asked for and read
to its last word and no further. The cluster knows nothing of the image's length: it
counts the beats of one section at a time, from header words it has read before. So
the invariant (`FaceInv`, `FaceAlways`) compares both sides. `Before` is where the
builders put a section. `Reading` says of the section under way that its first word is there,
that the words taken so far, the beats unanswered and the one on the face are the beats issued,
and that the loader's own counters (site and slot of a row, index, the length word of
the order) say the same number of words. When the last word is taken nothing is on its way, so
the next section starts with its own beats only; between two sections the response
cursor is at `Before` of the next. `HeaderKnown`: the lengths in the registers are the image's,
which needs that they are in its second and third word. The lemma `ImageLaid` supplies that and the
image's length from the builders' text: an image is a chain of concatenations, and the
rows are flattened from one sequence a site (`LongFlat`, by the least number for which it
fails). The assumptions are `FaceCredAssumption`, `SizesAssumption` and
`PlansAssumption`: a flagged schedule has an entry. `build_image` asserts it
(`sampling_isa.py:103`); `qsite_image` does not, and with an empty one the cluster
waits for ever (section 5). What the words mean, and what is drained, is `ArchGolden`
and `DrainGolden`, which TLC checks.

`HostSide_proofs` proves, of the bridge, `CreditsCover` and `BridgeIsFlatMemory`: for every
credit count, every ring at least as deep and every set of words and values,
`CreditsCoverRing` holds, so the overrun assertion of `sg0_bridge.sv:262` cannot
fire, and bridge and DRAM together implement `MemoryFace`. The first property says how many
beats the bridge holds and nothing of the slots they sit in, so a step from an
arbitrary state could take a hole off the ring and put it on the bus. `IInv` adds
that every slot between the pointers holds a beat, that a beat on the bus fits
the master's state (`BusOK`), and that the beats pending and the answer on the
wires are the ones counted. For the refinement the abstract queue is the beat on
the bus followed by the ring, and the abstract data of a read is the last write
before it in that queue or, without one, the DRAM's word; the lemmas say that such
a last write exists and how it moves when a beat joins or leaves, so every edge
of the bridge is a step of `MemoryFace` or a stutter. The assumption `HostWaits`
is that the host restarts only a drained bridge (see *Observations*).

`HostSide_proofs` proves, of the runtime, `HostAlways`, `FailuresAreOwn`
(`FailuresOwn`), `LogsAreOwn` (`LogOwn`) and `ViewHolds` (`HostView`), for every number
of threads, size of the memory's areas, modulus of a word, budget, and every set of
kernels and sessions that `LayoutAssumption` and `ProgramAssumption` admit. Two hypotheses
are about the programs only. `KernelsApart`: a thread whose ring reaches the ASSERT words
logs nothing, and one whose ASSERT word is the count of a ring asserts nothing. Without it
the two report theorems are false (*Log rings*). `KernelsRaceFree`: the threads run the
same operations on buffers, as SIMT kernels do, the flags of a barrier are no data, and
between a sum and the hart that puts its parts together the kernel has a barrier, as
`gpt2_seq.c` has; without it a buffer's words depend on which thread came first. The
run's kernels satisfy both.

The properties speak of launches that ended, so their invariants say what holds inside
one. `HostInv` keeps the session in view: buffers in the heap apart from one another, the
arguments those the session allocated, the parameters in memory those arguments, a
DONE word only of a thread whose script ended. With it every address a thread writes is
in a buffer of the session, in its own flag or phase, or in its own mailboxes and ring.
`ReportsMatch` has each thread's ASSERT word and ring equal to what it reported
since RESET, which needs the rings of different threads to be disjoint and the writes of
`launch` to clear all of them. For `HostView`, `Kept` says that outside a launch a buffer
holds what the program expects, and in one each buffer the kernel does not write. `OnTrack`
says how far a buffer is that it does write: word *j* belongs to thread *j* %
`NTHREADS`, and is as the operations behind that thread (`Level`) leave it (`Computing`);
a thread is past a barrier only when all have arrived (`Met`), so a hart that sums
up a buffer finds every word at the same operation. The flags and phases of a
barrier are a buffer as well, whose words count the barriers passed. When all DONE
words are set every thread is behind the last operation, which is `Computed`. After a trap or a
timeout the buffers the kernel writes are forgotten, and `Kept` is what remains.

`SocFork_proofs` proves `OneResponse` and `ForkIsFlatMemory`, for every window,
set of values and number of credits. A beat goes to one of two slaves
and its kind into the order FIFO. `ForkInv`: the beats of each kind in the order FIFO
are, in order, those its slave or its completion buffer still holds. The n-th entry of a
kind thus belongs to the n-th beat of that side, whatever the sides' latencies,
so the merge of the two sides by the FIFO is the request queue of one flat memory. What
is released is its head, and reads see the same values because an address belongs
to one side only. The counting lemmas (`Count`, ranks) are in the module.

`CommandQueue_proofs` proves `SocketSafe` and `SocketRefines`, for every queue
depth, every distance of at least five edges between a hart's instructions, every
build profile and every set of arguments. `OneCommandAtATime` is not inductive:
a GO is checked in EX and enqueued two edges later. `SocketInv` states that the
check still stands then (`CheckStands`: this hart alone enqueues, and
`OneInPipe`: its next instruction is too far behind to move the ring), that the
slots between the pointers hold checked commands, and that a doorbell finds the
window open and the engines idle. The refinement maps ring, doorbell and busy
engine to the sequence of `CommandStream`. Its assumptions are
`QueueAssumption` and that the empty slot is no command.

`SimtCore_proofs` proves `OnePlaceHolds`, `StacksNested` and `RunsGolden`, for every
number of warps from five on, every number of lanes, every stack depth and all
programs whose jumps stay inside (`ProgramAssumption`) and whose branches skip at
least one instruction (`SkipAssumption`).
A warp is in one place: in a pipe stage k edges after its fetch, where the phase
tells it from any other (`BehindOne`, which fails for fewer than five), or at
the memory unit with its busy bit set. `CoreInv` relates the pipe
(`Rotation`), the unit's queue (`OneRequest`) and the bits of busy warps and
walks (`Places`), so that the three writers of warp state never meet. That the stacks stay
nested needs more: a retire writes what EX decided two edges before, from the mask and
depth it saw then. `Current` and `Decisions` say that the warp still has that pc
and mask and that a split is still proper and has room, which is so because no
one else writes the warp in between; so the two properties are proved from one
invariant. For `RunsGolden` (`GoldenTrajectory`) `GoldenInv` adds that what EX decided is
an instruction of the golden model (`Meant`), so that a retire, two edges later, is one
golden step without its reconvergence, and a walk of the core is one turn of the golden
loop. The golden loop is a recursive function over its turns; `LoopEnds` and
`DueFirst` show that its bound leaves a turn for every entry, and that a walk that is
due first leaves the same end. So a warp's state with its pending walk counted as
done moves by golden instructions only. Without `SkipAssumption` the theorem is
false (*The short branch*).

`MemUnit_proofs` proves `DrainsLaneSerial` (`LaneSerialEffect`) and `BeatsAreGolden`
(`BeatsInGoldenOrder`), for every number of lanes, of bytes in a word and of words, and every
set of access sizes that divide a word (`LanesAssumption`, `WordsAssumption`,
`SizesAssumption`). The two references recur over the lanes. `SerialIs` gives the lanes'
effect without recursion: a byte is its highest writer's (`Stored`). `OrderIs` characterizes
the golden order: each word once, and before a word all words with an earlier toucher (`Ordered`).
The invariant has the lanes served so far, at memory or at the write-back, come
word by word (`Whole`), each of their words with a lane before all lanes that wait
(`Earlier`); so they are the first words of the golden order and the leader's is the
next (`BeatIsNext`). An aligned access stays in its word (`InOneWord`), so that the
lanes of other words cannot meet a beat's bytes, and the masks of one beat decide a
conflict as the lanes in turn would (`BeatStored`).

`TensorSidecar_proofs` proves `ResultIsGolden`, for every command that fits the
tiles, every number of lanes, bytes in a word and credits, and any moment of the
memory's answers. `ResultGolden` speaks only of finished commands, so the
invariant says, phase by phase, what is done so far. `Flow` is the memory side: the beats
outstanding are a stretch of the phase's request stream between the response and
the issue cursor, and `Pool` adds up credits, beats owed and the answer on the
wires. The load phases fill a tile up to the response cursor (`Filling`,
`Loaded`). For the pipe, cursor and stages are consecutive places of the
product's order (`Pipe`), the words behind are golden and the lanes' partial
products those of the window (`Progress`), through the three edges in which the
pipe drains. The store writes word by word as answers come, and a lookup has one
beat out at a time. That an engine which is not busy has no beat on its way
follows from the pool. The assumptions are `SizesAssumption` (the tile's size and the
lanes are positive, there is a credit) and `CommandAssumption` (the
commands given fit the tiles, as the core's interlock requires).

Induction over numbers is by the least or the greatest element of a set of
numbers with an upper bound (`Least`, `Greatest` in `RingTheorems`), because the library's
induction theorems take an operator.

A recursive function over 0 to n is reasoned about through the run of its loop
(`Iteration`, `CountedIteration`, `SameLoop`), whose existence follows the same way.

Only model-checked: all liveness (outside the prover's reach), what the cluster computes
(`ArchGolden`, `DrainGolden`: the golden machine beside it is a fold over sweeps and chunks) and the golden models (`MCGolden`), most of which recur over data (a schedule, a program, a log)
with folds and RECURSIVE operators.

## 5. Not modelled

* *Hardware that `simt_soc` does not instantiate*: `tensor_array`, `dcache`,
  `barrel_core`, `rv32i_core` and their cells. Golden models of what they compute
  are here (`TensorGolden`, `Iss`, `GoldenUnits`).
* *Inside of a site's cell*: the pipelines of `pbit_cell` and `qsite_cell`; a lane
  of `FabricGrid` gives its golden decision in the cycle the engine takes it.
* *Registers*: the ALU, CSR and register files of the SIMT core, decoding, and
  the AXI-Lite register file and counters of the bridge. Which way a branch goes is
  an input, so no program's data can be wrong here.
* *Shortened*: in `SCluster` the energy scan takes two cycles a site and the zero
  walk one; no other part of the cluster runs during them in the chip either. That
  the grid's site index wraps in the last chunk of a full grid
  (`fabric_grid.sv:358`) needs more sites than the runs have. `Learners` takes the
  rows of a batch and of the chains to be the same in all steps of a trainer, and
  the optimizer to be a function of the gradients so far.
* *Floating point*: how calibration measures a range (the percentiles and margins
  of `gpt2_int.py:280-303`; which ranges it measures and what they become is
  `Gpt2Scales`), the float pass, statistics and thresholds of the gates.
* *Around the system*: the compiler and its cache, the simulator process, wall
  clocks, drivers of simulation and synthesis, test benches; kernels other than the
  barrier and tables of `gpt2_seq.c` and the replay of `s7_run.c`.
* *Outside a contract*: operations 11 to 15 of the command socket (such a GO
  reaches no engine and the dispatch window stays open) and two harts that issue
  commands, which only a kernel outside `mk.h` can cause; dimensions of a
  tensor command above 127, of which `simt_soc.sv:98` passes seven bits (`Sizes`); a buffer
  used after `free_all` (`mkcuda.py:197`), which is the program's mistake; an image that flags an
  empty schedule (`s_cluster.sv:733` would wait for ever): `build_image` refuses it, as the golden
  machine of the plain sites does; `qsite_image` does not check.

## 6. What is left

Proofs: the cluster against the golden machine, first that the words of a section
land where the golden machine puts them. Models: `TensorArray` against its row order, `DCache`
against the golden cache, AXI-Lite pairing and the counters of the bridge.
