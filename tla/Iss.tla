--------------------------------- MODULE Iss ---------------------------------
(***************************************************************************)
(* golden/iss.py, the processor's golden model: one instruction at a time, *)
(* its commit record, its traps; and gates/p1_lockstep.py, which compares  *)
(* three such logs.  An instruction is a record of decoded fields; code    *)
(* that stores change is left out.  Words have W bits and four bytes.      *)
(***************************************************************************)
EXTENDS Integers, Sequences, FiniteSets, FiniteSetsExt

CONSTANTS W, BYTE,         \* bits of a word and of a byte, W = 4 * BYTE
          REGS, SHIFTS,    \* registers, bits of a shift amount
          BASE, SIZE,      \* the memory
          MIE, MPIE, MPP,  \* bits of mstatus, MPP a set
          RO, DUMMY,       \* read-only CSRs with their values; read-zero CSRs
          TOHOST           \* an address, or -1

Words == 0 .. 2 ^ W - 1
u32(v) == v % (2 ^ W)
sext(v, bits) ==
  LET low == v % (2 ^ bits)
  IN  IF low >= 2 ^ (bits - 1) THEN low - 2 ^ bits ELSE low
s32(v) == sext(v, W)
Bits(v) == {i \in 0 .. W - 1 : (v \div (2 ^ i)) % 2 = 1}
Value(bits) == FoldSet(LAMBDA i, sum : sum + 2 ^ i, 0, bits)
Or(a, b) == Value(Bits(a) \union Bits(b))
And(a, b) == Value(Bits(a) \intersect Bits(b))
Clear(a, b) == Value(Bits(a) \ Bits(b))
Xor(a, b) == Value((Bits(a) \ Bits(b)) \union (Bits(b) \ Bits(a)))
Aligned(v) == v - (v % 4)
MSTATUS_WMASK == Value({MIE, MPIE} \union MPP)

CSR_STORE == {"mstatus", "mie", "mtvec", "mscratch", "mepc", "mcause", "mtval"}

Iss(reset_pc) ==
  [x |-> [r \in 0 .. REGS - 1 |-> 0], pc |-> reset_pc, csr |-> [c \in CSR_STORE |-> 0],
   mem |-> [a \in BASE .. BASE + SIZE - 1 |-> 0], instret |-> 0]

(***************************************************************************)
(* Memory, CSRs, traps                                                     *)
(***************************************************************************)

Inside(addr, size) == addr >= BASE /\ addr + size <= BASE + SIZE
read(s, addr, size) ==
  FoldSet(LAMBDA b, sum : sum + s.mem[addr + b] * 2 ^ (BYTE * b), 0, 0 .. size - 1)
write(s, addr, size, val) ==
  [s EXCEPT !.mem = [a \in DOMAIN s.mem |->
     IF a - addr \in 0 .. size - 1 THEN (val \div (2 ^ (BYTE * (a - addr)))) % (2 ^ BYTE) ELSE s.mem[a]]]

\* Mutant: the interrupt enable is not saved
TrapForgets(s, cause, tval) ==
  [s EXCEPT !.csr = [@ EXCEPT !["mepc"] = s.pc, !["mcause"] = cause, !["mtval"] = u32(tval),
                              !["mstatus"] = Value((Bits(@) \ {MIE}) \union MPP)],
            !.pc = Aligned(s.csr["mtvec"])]
_trap(s, cause, tval) ==
  LET st  == Bits(s.csr["mstatus"]) \ ({MIE, MPIE} \union MPP)
      was == IF MIE \in Bits(s.csr["mstatus"]) THEN {MPIE} ELSE {}
  IN  [s EXCEPT !.csr = [@ EXCEPT !["mepc"] = s.pc, !["mcause"] = cause, !["mtval"] = u32(tval),
                                  !["mstatus"] = And(Value(st \union was \union MPP), MSTATUS_WMASK)],
                !.pc = Aligned(s.csr["mtvec"])]

Readable(csr) == csr \in CSR_STORE \union DOMAIN RO \union DUMMY
_csr_read(s, csr) == IF csr \in CSR_STORE THEN s.csr[csr] ELSE IF csr \in DOMAIN RO THEN RO[csr] ELSE 0
Writable(csr) == csr \in CSR_STORE \union DUMMY
_csr_write(s, csr, v) ==
  IF csr \notin CSR_STORE THEN s
  ELSE [s EXCEPT !.csr[csr] = CASE csr = "mstatus" -> And(v, MSTATUS_WMASK)
                                [] csr \in {"mtvec", "mepc"} -> u32(Aligned(v))
                                [] OTHER -> u32(v)]

(***************************************************************************)
(* One instruction                                                         *)
(***************************************************************************)

\* What executing gives: a trap, or the state the instruction leaves but for its
\* register and pc, the register's value, the store, the next pc.
Traps(cause, tval) == [trap |-> cause, tval |-> tval]
Illegal(in) == Traps(2, in.bits)
Gives(s, wb, store, next) == [trap |-> -1, s |-> s, wb |-> wb, store |-> store, next |-> next]
Seq4(s) == u32(s.pc + 4)
Sets(s, in, v) == Gives(s, <<in.rd, v>>, <<>>, Seq4(s))
Jumps(s, in, tgt) == IF tgt % 4 # 0 THEN Traps(0, tgt) ELSE Gives(s, <<in.rd, Seq4(s)>>, <<>>, tgt)

Taken(f, a, b) ==
  CASE f = "eq" -> a = b [] f = "ne" -> a # b [] f = "lt" -> s32(a) < s32(b) [] f = "ge" -> s32(a) >= s32(b)
    [] f = "ltu" -> a < b [] f = "geu" -> a >= b
Branch(s, in, a, b) ==
  LET tgt == u32(s.pc + in.imm)
  IN  IF in.f \notin {"eq", "ne", "lt", "ge", "ltu", "geu"} THEN Illegal(in)
      ELSE IF ~Taken(in.f, a, b) THEN Gives(s, <<>>, <<>>, Seq4(s))
      ELSE IF tgt % 4 # 0 THEN Traps(0, tgt) ELSE Gives(s, <<>>, <<>>, tgt)

Fault == [trap |-> -2, tval |-> 0]  \* IndexError: the access leaves the memory
Load(s, in, a) ==
  LET addr == u32(a + in.imm)
      v    == read(s, addr, in.size)
  IN  IF in.size \notin {1, 2, 4} THEN Illegal(in)
      ELSE IF addr % in.size # 0 THEN Traps(4, addr)
      ELSE IF ~Inside(addr, in.size) THEN Fault
      ELSE Sets(s, in, IF in.signed THEN u32(sext(v, BYTE * in.size)) ELSE v)
Store(s, in, a, b) ==
  LET addr == u32(a + in.imm)
      val  == b % (2 ^ (BYTE * in.size))
  IN  IF in.size \notin {1, 2, 4} THEN Illegal(in)
      ELSE IF addr % in.size # 0 THEN Traps(6, addr)
      ELSE IF ~Inside(addr, in.size) THEN Fault
      ELSE Gives(write(s, addr, in.size, val), <<>>, <<addr, val, in.size>>, Seq4(s))

Alu(f, a, b) ==
  LET sh == b % (2 ^ SHIFTS)
  IN  CASE f = "add" -> u32(a + b) [] f = "sub" -> u32(a - b)
        [] f = "sll" -> u32(a * 2 ^ sh) [] f = "srl" -> a \div (2 ^ sh) [] f = "sra" -> u32(s32(a) \div (2 ^ sh))
        [] f = "slt" -> IF s32(a) < s32(b) THEN 1 ELSE 0 [] f = "sltu" -> IF a < b THEN 1 ELSE 0
        [] f = "xor" -> Xor(a, b) [] f = "or" -> Or(a, b) [] f = "and" -> And(a, b)
AluOps == {"add", "sub", "sll", "srl", "sra", "slt", "sltu", "xor", "or", "and"}

Mret(s) ==
  LET st  == Bits(s.csr["mstatus"]) \ ({MIE, MPIE} \union MPP)
      mie == IF MPIE \in Bits(s.csr["mstatus"]) THEN {MIE} ELSE {}
  IN  Gives([s EXCEPT !.csr["mstatus"] = And(Value(st \union mie \union {MPIE}), MSTATUS_WMASK)],
            <<>>, <<>>, s.csr["mepc"])
\* Zicsr: set and clear with x0 do not write, and a read-only CSR may then be named.
Zicsr(s, in, a) ==
  LET src    == IF in.immediate THEN in.rs1 ELSE a
      old    == _csr_read(s, in.csr)
      writes == in.f = "w" \/ in.rs1 # 0
      new    == CASE in.f = "w" -> src [] in.f = "s" -> Or(old, src) [] in.f = "c" -> Clear(old, src)
  IN  IF ~Readable(in.csr) \/ in.f \notin {"w", "s", "c"} \/ (writes /\ ~Writable(in.csr)) THEN Illegal(in)
      ELSE Sets(IF writes THEN _csr_write(s, in.csr, new) ELSE s, in, old)

Exec(s, in) ==
  LET a == s.x[in.rs1]
      b == s.x[in.rs2]
  IN  CASE in.op = "lui" -> Sets(s, in, u32(in.imm))
        [] in.op = "auipc" -> Sets(s, in, u32(s.pc + in.imm))
        [] in.op = "jal" -> Jumps(s, in, u32(s.pc + in.imm))
        [] in.op = "jalr" -> LET tgt == u32(a + in.imm) IN Jumps(s, in, tgt - (tgt % 2))
        [] in.op = "branch" -> Branch(s, in, a, b)
        [] in.op = "load" -> Load(s, in, a)
        [] in.op = "store" -> Store(s, in, a, b)
        [] in.op = "opimm" -> IF in.f \in AluOps \ {"sub"} THEN Sets(s, in, Alu(in.f, a, u32(in.imm))) ELSE Illegal(in)
        [] in.op = "op" -> IF in.f \in AluOps THEN Sets(s, in, Alu(in.f, a, b)) ELSE Illegal(in)
        [] in.op = "fence" -> Gives(s, <<>>, <<>>, Seq4(s))
        [] in.op = "ecall" -> Traps(11, 0)
        [] in.op = "ebreak" -> Traps(3, s.pc)
        [] in.op = "mret" -> Mret(s)
        [] in.op = "csr" -> Zicsr(s, in, a)
        [] OTHER -> Illegal(in)

NoCommit == [pc |-> -1, rd |-> 0, wdata |-> 0, store |-> <<>>]
\* The state after, the commit record, and how the step ended, from what executing
\* gave; wb: <<>> or the register and its value.
Written(e) == IF e.wb = <<>> \/ e.wb[1] = 0 THEN <<>> ELSE <<e.wb[1], u32(e.wb[2])>>
Retired(s, e, wb) ==
  [s |-> [e.s EXCEPT !.x = IF wb = <<>> THEN @ ELSE [@ EXCEPT ![wb[1]] = wb[2]],
                     !.pc = e.next, !.instret = @ + 1],
   commit |-> [pc |-> s.pc, rd |-> IF wb = <<>> THEN 0 ELSE wb[1],
               wdata |-> IF wb = <<>> THEN 0 ELSE wb[2], store |-> e.store],
   end |-> IF e.store # <<>> /\ e.store[1] = TOHOST THEN "Halt" ELSE "retired"]
Outcome(s, e) ==
  IF e.trap = -2 THEN [s |-> s, commit |-> NoCommit, end |-> "IndexError"]
  ELSE IF e.trap >= 0 THEN [s |-> _trap(s, e.trap, e.tval), commit |-> NoCommit, end |-> "trap"]
  ELSE Retired(s, e, Written(e))
step(s, in) ==
  Outcome(s, IF s.pc % 4 # 0 THEN Traps(0, s.pc) ELSE IF ~Inside(s.pc, 4) THEN Fault ELSE Exec(s, in))

\* The record of the halting store is made from the state after it.
_last_halt_line(s, value) ==
  [pc |-> u32(s.pc - 4), rd |-> 0, wdata |-> 0, store |-> <<TOHOST, value, 4>>]

(***************************************************************************)
(* Lockstep                                                                *)
(***************************************************************************)

diff(a, b) ==
  /\ \A i \in 1 .. Min({Len(a), Len(b)}) : a[i] = b[i]
  /\ Len(a) = Len(b)

\* A log is its lines and the value written to tohost.
check_program(iss, spike, rtl, use_rtl) ==
  LET first == diff(iss.lines, spike.lines) /\ iss.val = spike.val
  IN  /\ first
      /\ use_rtl => diff(rtl.lines, iss.lines) /\ rtl.val = iss.val
      /\ iss.val = 1
=============================================================================
