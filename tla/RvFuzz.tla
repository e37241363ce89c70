-------------------------------- MODULE RvFuzz --------------------------------
(***************************************************************************)
(* The processor's random programs (golden/rvfuzz.py), the file they are   *)
(* built into and the loader (golden/elf.py), the reference simulator's    *)
(* log (golden/spikelog.py), and the runs that gates/p1_lockstep.py        *)
(* compares.  The code begins where the memory does.                       *)
(***************************************************************************)
EXTENDS Iss, SequencesExt

CONSTANTS DATA,              \* the data region's address; its bytes
          DATA_BYTES, MAX_OFF,
          BASE_REG, TAIL_REGS  \* the region's register; the two that the end uses

Blank == [op |-> "", f |-> "", rd |-> 0, rs1 |-> 0, rs2 |-> 0, imm |-> 0, size |-> 4, signed |-> FALSE,
          csr |-> "", immediate |-> FALSE, bits |-> 0]
Imm(f, rd, rs, imm) == [Blank EXCEPT !.op = "opimm", !.f = f, !.rd = rd, !.rs1 = rs, !.imm = imm]
Upper(op, rd, imm) == [Blank EXCEPT !.op = op, !.rd = rd, !.imm = imm]
\* An address is two instructions, the first at pc.
la(pc, rd, target) == << Upper("auipc", rd, 0), Imm("add", rd, rd, target - pc) >>

(***************************************************************************)
(* What one draw emits, of the fields drawn for it: rd and t are never the *)
(* region's register, and t is not zero.                                   *)
(***************************************************************************)

\* (mutant) The region's register may be written.
AnyTarget == 0 .. REGS - 1
Targets == 0 .. REGS - 1 \ {BASE_REG}
Skipped(jump, f, d) == << jump, Imm(f, d.rd, d.rs, d.imm) >>
Offset(d, size) == d.off - (d.off % size)
Draws == [rd : Targets, t : Targets \ {0}, rs : 0 .. REGS - 1, rs2 : 0 .. REGS - 1,
          imm : {-(2 ^ (W - 2)), -1, 5}, off : {0, 3, MAX_OFF - 1}]
Emits(d) ==
  { << Imm(f, d.rd, d.rs, d.imm) >> : f \in {"add", "slt", "sltu", "xor", "or", "and"} }
  \union { << [Blank EXCEPT !.op = "op", !.f = f, !.rd = d.rd, !.rs1 = d.rs, !.rs2 = d.rs2] >> : f \in AluOps }
  \union { << Imm(f, d.rd, d.rs, d.imm % (2 ^ SHIFTS)) >> : f \in {"sll", "srl", "sra"} }
  \union { << [Blank EXCEPT !.op = "load", !.rd = d.rd, !.rs1 = BASE_REG, !.imm = Offset(d, x[1]),
                            !.size = x[1], !.signed = x[2]] >> :
             x \in {<<4, FALSE>>, <<2, TRUE>>, <<2, FALSE>>, <<1, TRUE>>, <<1, FALSE>>} }
  \union { << [Blank EXCEPT !.op = "store", !.rs1 = BASE_REG, !.rs2 = d.rs, !.imm = Offset(d, n), !.size = n] >> :
             n \in {1, 2, 4} }
  \union { Skipped([Blank EXCEPT !.op = "branch", !.f = f, !.rs1 = d.rs, !.rs2 = d.rs2, !.imm = 8], "add", d) :
             f \in {"eq", "ne", "lt", "ge", "ltu", "geu"} }
  \union { Skipped(Upper("jal", d.rd, 8), "xor", d) }
  \union { << Upper("auipc", d.t, 0) >>
           \o Skipped([Blank EXCEPT !.op = "jalr", !.rd = d.rd, !.rs1 = d.t, !.imm = 12], "or", d) }
  \union { << Upper(op, d.rd, (d.imm % 2 ^ (W - 4)) * 16) >> : op \in {"lui", "auipc"} }

PcOf(k) == BASE + 4 * (k - 1)
\* All registers zeroed, the region's address taken, the draws, and the word that
\* ends a program stored again and again.
gen(draws, tohost) ==
  LET zeroed == [r \in 1 .. REGS - 1 |-> Imm("add", r, 0, 0)]
      body == zeroed \o la(PcOf(REGS), BASE_REG, DATA) \o FlattenSeq(draws)
  IN  body \o la(PcOf(Len(body) + 1), TAIL_REGS[1], tohost)
        \o << Imm("add", TAIL_REGS[2], 0, 1),
              [Blank EXCEPT !.op = "store", !.rs1 = TAIL_REGS[1], !.rs2 = TAIL_REGS[2], !.size = 4],
              Upper("jal", 0, 0) >>

(***************************************************************************)
(* The file: program headers, sections, and its bytes from zero            *)
(***************************************************************************)

Blob(file, ph) ==
  [k \in 0 .. ph.memsz - 1 |-> IF k < ph.filesz THEN file.data[ph.offset + k] ELSE 0]
segments(file) ==
  LET loaded == SelectSeq(file.ph, LAMBDA ph : ph.load /\ ph.memsz # 0)
  IN  [k \in DOMAIN loaded |-> <<loaded[k].paddr, Blob(file, loaded[k])>>]
\* Every symbol table's named symbols; of two with one name the later one's value
Symbols(file) ==
  LET tables == SelectSeq(file.sh, LAMBDA s : s.symtab /\ s.entsize # 0)
      named  == SelectSeq(FlattenSeq([k \in DOMAIN tables |-> tables[k].syms]), LAMBDA y : y.name # "")
  IN  FoldLeft(LAMBDA f, y : [n \in DOMAIN f \union {y.name} |-> IF n = y.name THEN y.value ELSE f[n]],
               <<>>, named)
load(file) == [entry |-> file.entry, segs |-> segments(file), syms |-> Symbols(file)]
load_blob(s, pa, blob) ==
  [s EXCEPT !.mem = [a \in DOMAIN @ |-> IF a - pa \in DOMAIN blob THEN blob[a - pa] ELSE @[a]]]

(***************************************************************************)
(* A run of the golden model, and the reference's log of the same run      *)
(***************************************************************************)

\* code: what the bytes decode to; r: what a step gives.  A run that ends any other
\* way than by the store to tohost has no value.
Logged(x, r) ==
  [s |-> r.s, end |-> r.end, trapped |-> x.trapped \/ r.end = "trap",
   val |-> IF r.end = "Halt" THEN r.commit.store[2] ELSE x.val,
   lines |-> CASE r.end = "Halt"    -> Append(x.lines, _last_halt_line(r.s, r.commit.store[2]))
               [] r.end = "retired" -> Append(x.lines, r.commit)
               [] OTHER             -> x.lines]
RunStep(x, code) ==
  IF x.end \notin {"retired", "trap"} THEN x
  ELSE Logged(x, step(x.s, code[((x.s.pc - BASE) \div 4) + 1]))
Started(elf) == FoldLeft(LAMBDA t, seg : load_blob(t, seg[1], seg[2]), Iss(elf.entry), elf.segs)
run_iss(file, code, max_steps) ==
  FoldLeft(LAMBDA x, k : RunStep(x, code),
           [s |-> Started(load(file)), end |-> "retired", trapped |-> FALSE, val |-> -1, lines |-> <<>>],
           [k \in 1 .. max_steps |-> k])

\* A raw line: whether it tells of a commit, and what it tells.  The first store to
\* tohost ends the log, with the value as the simulator prints it.
NoLine == [commit |-> FALSE, pc |-> -1, rd |-> 0, wdata |-> 0, store |-> <<>>]
Line(raw) ==
  [pc |-> raw.pc, rd |-> raw.rd, wdata |-> IF raw.rd = 0 THEN 0 ELSE raw.wdata,
   store |-> IF raw.store = <<>> THEN <<>>
             ELSE <<raw.store[1], raw.store[2] % (2 ^ (BYTE * raw.store[3])), raw.store[3]>>]
parse(raws, entry, tohost) ==
  FoldLeft(LAMBDA x, raw :
             IF x.val # -1 \/ ~raw.commit \/ (~x.started /\ raw.pc # entry) THEN x
             ELSE [started |-> TRUE, lines |-> Append(x.lines, Line(raw)),
                   val |-> IF raw.store # <<>> /\ raw.store[1] = tohost THEN raw.store[2] ELSE -1],
           [started |-> FALSE, lines |-> <<>>, val |-> -1], raws)
===============================================================================
