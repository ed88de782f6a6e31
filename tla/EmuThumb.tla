------------------------------ MODULE EmuThumb ------------------------------
(***************************************************************************)
(* The instructions of the emulated processor and the loops it does not    *)
(* execute but skips (src/host/emulator/bin_emu.c).                        *)
(*                                                                         *)
(* A program is a sequence of opcodes at CodeBase, kept apart from the RAM *)
(* of words of four B-bit bytes.  Every program is run twice, by itself    *)
(* and with its delay loops skipped, so that the two can be compared.      *)
(* Exceptions are EmuCore's: no program here has a vector, and a call of   *)
(* one ends the run.  Calls into the boot ROM are left out.                *)
(***************************************************************************)
EXTENDS ThumbAlu, Sequences
CONSTANTS
  RamSize,              \* bytes of RAM, at address 0
  CodeBase,             \* address of the program
  TIMER_BASE,           \* address of the timer
  TIMER_CYCLES_PER_US,
  TIMER_WAIT_ACCEL_US,
  Programs,             \* records: kind, code, r, mem, n, z, c, v to start from
  MaxSteps              \* bound: g_max_steps
ASSUME ThumbAssumption ==
  /\ RamSize \in Nat /\ CodeBase \in Nat /\ CodeBase >= RamSize
  /\ TIMER_CYCLES_PER_US \in Nat \ {0} /\ TIMER_WAIT_ACCEL_US \in Nat
  /\ MaxSteps \in Nat

VARIABLES
  program,  \* the one chosen
  plain,    \* Cpu, g_cycles and RAM, run instruction by instruction; and its
            \* state: "running", "stopped" (at a branch to itself), "failed"
            \* or "budget"
  quick     \* the same with loops skipped
thumbVars == <<program, plain, quick>>

Field(op, low, width) == (op \div Pow2[low]) % Pow2[width]
Top(op, bits) == op \div Pow2[16 - bits]
R(cpu, reg) == cpu.r[reg]
Set(cpu, reg, value) == [cpu EXCEPT !.r[reg] = Low(value)]
Goto(cpu, addr) == Set(cpu, 15, addr)
-----------------------------------------------------------------------------
(* Memory                                                                   *)

TIMERAWH == TIMER_BASE + 36
TIMERAWL == TIMER_BASE + 40
timer_us_low(cpu) == cpu.cycles \div TIMER_CYCLES_PER_US
Spent(cpu, cycles) == [cpu EXCEPT !.cycles = Low(@ + cycles)]
Read(cpu, addr, size) ==
  LET Value[i \in 0 .. size] ==
        IF i = size THEN 0 ELSE cpu.mem[addr + i] + Pow2[B] * Value[i + 1]
  IN IF addr + size <= RamSize THEN Value[0]
     ELSE IF addr = TIMERAWL THEN timer_us_low(cpu) % Pow2[B * size]
     ELSE 0
Write(cpu, addr, size, value) ==
  [cpu EXCEPT !.mem = [a \in DOMAIN @ |->
     IF addr + size <= RamSize /\ a \in addr .. addr + size - 1
     THEN (value \div Pow2[B * (a - addr)]) % Pow2[B] ELSE @[a]]]
mem_read16(code, addr) ==
  LET place == (addr - CodeBase) \div 2 + 1
  IN IF place \in DOMAIN code THEN code[place] ELSE 0
Executable(code, addr) == (addr - CodeBase) \div 2 + 1 \in DOMAIN code /\ addr % 2 = 0
-----------------------------------------------------------------------------
(* Decoding: the first row that matches, in the order of step               *)

Row(bits, top, kind) == [bits |-> bits, top |-> top, does |-> <<kind>>]
Access(bits, top, kind, size, mode) ==
  [bits |-> bits, top |-> top, does |-> <<kind, size, mode>>]
Rows ==
  << Row(8, \hBE, "bkpt"), Row(8, \hDF, "svc"), Row(16, \hB662, "cps"),
     Row(16, \hB672, "cps"), Row(8, \hBF, "hint"), Row(5, \h1C, "b"),
     Row(4, \hD, "bcond"), Access(5, \h09, "load", 4, "pc"),
     Access(5, \h11, "load", 2, "imm"), Row(5, \h04, "movi"),
     Row(5, \h05, "cmpi"), Row(5, \h06, "addi"), Row(5, \h07, "subi"),
     Row(6, \h10, "alu"), Row(8, \h44, "addh"), Row(8, \h45, "cmph"),
     Row(8, \h46, "movh"), Row(8, \h47, "bx"), Row(7, \h5A, "push"),
     Row(7, \h5E, "pop"), Access(5, \h0D, "load", 4, "imm"),
     Access(5, \h0C, "store", 4, "imm"), Access(7, \h2C, "load", 4, "reg"),
     Access(7, \h28, "store", 4, "reg"), Access(7, \h29, "store", 2, "reg"),
     Access(7, \h2A, "store", 1, "reg"), Access(7, \h2B, "sload", 1, "reg"),
     Access(7, \h2D, "load", 2, "reg"), Access(7, \h2E, "load", 1, "reg"),
     Access(7, \h2F, "sload", 2, "reg"), Access(5, \h0F, "load", 1, "imm"),
     Access(5, \h0E, "store", 1, "imm"), Access(5, \h12, "store", 4, "sp"),
     Access(5, \h13, "load", 4, "sp"), Row(5, \h14, "adr"), Row(5, \h15, "addsp"),
     Row(4, \hC, "multiple"), Access(5, \h10, "store", 2, "imm"),
     Access(10, \h2C8, "sextend", 2, ""), Access(10, \h2C9, "sextend", 1, ""),
     Access(10, \h2CA, "extend", 2, ""), Access(10, \h2CB, "extend", 1, ""),
     Access(10, \h2E8, "reverse", 4, ""), Access(10, \h2E9, "reverse", 2, ""),
     Access(10, \h2EB, "sreverse", 2, ""), Row(8, \hB0, "adjustsp"),
     Row(5, \h00, "lsl"), Row(5, \h01, "lsr"), Row(5, \h02, "asr"),
     Row(5, \h03, "addsub"), Row(8, \h46, "nothing") >>
Unsupported == <<"unsupported">>
Matching(op) == {i \in DOMAIN Rows : Top(op, Rows[i].bits) = Rows[i].top}
Narrow_LastMatch(op) ==
  IF Matching(op) = {} THEN Unsupported
  ELSE Rows[CHOOSE i \in Matching(op) : \A j \in Matching(op) : j <= i].does
Narrow(op) ==
  IF Matching(op) = {} THEN Unsupported
  ELSE Rows[CHOOSE i \in Matching(op) : \A j \in Matching(op) : i <= j].does
\* instructions of two halfwords; a first half of theirs matches no row
Decode(op, op2) ==
  IF Top(op, 12) = \hF38 /\ op2 = \h8808 THEN <<"msr", 8>>
  ELSE IF Top(op, 12) = \hF38 /\ op2 = \h8810 THEN <<"msr", 16>>
  ELSE IF op = \hF3BF /\ op2 \in {\h8F4F, \h8F5F, \h8F6F} THEN <<"barrier">>
  ELSE IF op = \hF3EF /\ Top(op2, 4) = 8 /\ op2 % 256 \in {5, 16} THEN <<"mrs", op2 % 256>>
  ELSE IF Top(op, 5) = \h1E /\ Top(op2, 5) = \h1F THEN <<"bl">>
  ELSE Narrow(op)
-----------------------------------------------------------------------------
(* Execution, each operator from cpu to cpu                                 *)

\* the second operand's low byte is the amount
Amount(b) == b % 256
AluResult(cpu, alu, a, b) ==
  CASE alu \in {0, 8} -> FromBits(ToBits(a) \cap ToBits(b))
    [] alu = 1 -> FromBits((ToBits(a) \ ToBits(b)) \cup (ToBits(b) \ ToBits(a)))
    [] alu = 2 -> lsl_with_carry(cpu, a, Amount(b)).value
    [] alu = 3 -> lsr_with_carry(cpu, a, Amount(b)).value
    [] alu = 4 -> asr_with_carry(cpu, a, Amount(b)).value
    [] alu = 5 -> Low(a + b + One(cpu.c))
    [] alu = 6 -> Low(a - b - 1 + One(cpu.c))
    [] alu = 7 -> ror_with_carry(cpu, a, Amount(b)).value
    [] alu = 9 -> Low(0 - b)
    [] alu = 10 -> Low(a - b)
    [] alu = 11 -> Low(a + b)
    [] alu = 12 -> FromBits(ToBits(a) \cup ToBits(b))
    [] alu = 13 -> Low(a * b)
    [] alu = 14 -> FromBits(ToBits(a) \ ToBits(b))
    [] OTHER -> Not(b)
ShiftCarry(cpu, alu, a, b) ==
  CASE alu = 2 -> lsl_with_carry(cpu, a, Amount(b)).c
    [] alu = 3 -> lsr_with_carry(cpu, a, Amount(b)).c
    [] alu = 4 -> asr_with_carry(cpu, a, Amount(b)).c
    [] alu = 7 -> ror_with_carry(cpu, a, Amount(b)).c
    [] OTHER -> cpu.c
Alu(cpu, op) ==
  LET alu == Field(op, 6, 4)
      rdn == Field(op, 0, 3)
      a == R(cpu, rdn)
      b == R(cpu, Field(op, 3, 3))
      result == AluResult(cpu, alu, a, b)
      kept == IF alu \in {8, 10, 11} THEN cpu ELSE Set(cpu, rdn, result)
  IN CASE alu = 5 -> set_adc_flags(kept, a, b, cpu.c, result)
       [] alu = 6 -> set_sbc_flags(kept, a, b, cpu.c, result)
       [] alu = 10 -> set_sub_flags(kept, a, b, result)
       [] alu = 9 -> set_sub_flags(kept, 0, b, result)
       [] alu = 11 -> set_add_flags(kept, a, b, result)
       [] OTHER -> set_nz([kept EXCEPT !.c = ShiftCarry(cpu, alu, a, b)], result)

Added(cpu, rd, a, b) == set_add_flags(Set(cpu, rd, a + b), a, b, Low(a + b))
Subtracted(cpu, rd, a, b) == set_sub_flags(Set(cpu, rd, a - b), a, b, Low(a - b))
Compared(cpu, a, b) == set_sub_flags(cpu, a, b, Low(a - b))
AddSub(cpu, op) ==
  LET a == R(cpu, Field(op, 3, 3))
      b == IF Field(op, 10, 1) = 1 THEN Field(op, 6, 3) ELSE R(cpu, Field(op, 6, 3))
  IN IF Field(op, 9, 1) = 1 THEN Subtracted(cpu, Field(op, 0, 3), a, b)
     ELSE Added(cpu, Field(op, 0, 3), a, b)
\* an immediate amount of 0 means a shift right by the whole word
ShiftAmount(op, whole) == IF Field(op, 6, 5) = 0 THEN whole ELSE Field(op, 6, 5)
ShiftImmediate(cpu, op, shifted) ==
  set_nz([Set(cpu, Field(op, 0, 3), shifted.value) EXCEPT !.c = shifted.c], shifted.value)

\* registers 8 to 15; a branch target loses its lowest bit
High(op) == Field(op, 0, 3) + 8 * Field(op, 7, 1)
Exchange(cpu, pc, op) ==
  LET target == 2 * (R(cpu, Field(op, 3, 4)) \div 2)
  IN Goto(IF Field(op, 7, 1) = 1 THEN Set(cpu, 14, pc + 3) ELSE cpu, target)

WordAligned(addr) == 4 * (Low(addr) \div 4)
Address(cpu, pc, op, size, mode) ==
  CASE mode = "pc" -> Low(WordAligned(pc + 4) + 4 * Field(op, 0, 8))
    [] mode = "sp" -> Low(R(cpu, 13) + 4 * Field(op, 0, 8))
    [] mode = "imm" -> Low(R(cpu, Field(op, 3, 3)) + size * Field(op, 6, 5))
    [] OTHER -> Low(R(cpu, Field(op, 3, 3)) + R(cpu, Field(op, 6, 3)))
Rt(op, mode) == IF mode \in {"pc", "sp"} THEN Field(op, 8, 3) ELSE Field(op, 0, 3)

\* lists of registers, the lowest at the lowest address
List(op) == {i \in 0 .. 7 : Field(op, i, 1) = 1}
Registers(S) == SelectSeq(<<0, 1, 2, 3, 4, 5, 6, 7, 14, 15>>, LAMBDA i : i \in S)
Stored(cpu, regs, addr) ==
  LET Cpu[k \in 0 .. Len(regs)] ==
        IF k = 0 THEN cpu ELSE Write(Cpu[k - 1], Low(addr + 4 * (k - 1)), 4, R(cpu, regs[k]))
  IN Cpu[Len(regs)]
Loaded(cpu, regs, addr) ==
  LET Cpu[k \in 0 .. Len(regs)] ==
        IF k = 0 THEN cpu ELSE Set(Cpu[k - 1], regs[k], Read(cpu, Low(addr + 4 * (k - 1)), 4))
  IN Cpu[Len(regs)]
Push(cpu, op) ==
  LET regs == Registers(List(op) \cup IF Field(op, 8, 1) = 1 THEN {14} ELSE {})
      sp == Low(R(cpu, 13) - 4 * Len(regs))
  IN Set(Stored(cpu, regs, sp), 13, sp)
Pop(cpu, op) ==
  LET regs == Registers(List(op) \cup IF Field(op, 8, 1) = 1 THEN {15} ELSE {})
      after == Set(Loaded(cpu, regs, R(cpu, 13)), 13, R(cpu, 13) + 4 * Len(regs))
  IN Goto(after, 2 * (R(after, 15) \div 2))
\* the base register is written last, also over a value just loaded into it
Multiple(cpu, op) ==
  LET rn == Field(op, 8, 3)
      regs == Registers(List(op))
      moved == IF Field(op, 11, 1) = 1 THEN Loaded(cpu, regs, R(cpu, rn))
               ELSE Stored(cpu, regs, R(cpu, rn))
  IN Set(moved, rn, R(cpu, rn) + 4 * Len(regs))

\* the low size bytes, the other way round in groups of size
Byte(value, i) == (value \div Pow2[B * i]) % Pow2[B]
Reversed(value, size) ==
  LET Sum[i \in 0 .. 4] == IF i = 4 THEN 0
        ELSE Byte(value, (i \div size) * size + size - 1 - (i % size)) * Pow2[B * i] + Sum[i + 1]
  IN Sum[0]
Extended(cpu, op, value) == Set(cpu, Field(op, 0, 3), value)

Execute(cpu, pc, op, op2, does) ==
  LET rd == Field(op, 8, 3)
      imm == Field(op, 0, 8)
      rm == R(cpu, Field(op, 3, 3))
      addr == Address(cpu, pc, op, does[2], does[3])
      rt == Rt(op, does[3])
  IN CASE does[1] = "cps" -> [cpu EXCEPT !.primask = Field(op, 4, 1) = 1]
       [] does[1] \in {"hint", "nothing"} -> cpu
       [] does[1] = "barrier" -> Goto(cpu, pc + 4)
       [] does = <<"msr", 8>> -> Goto(Set(cpu, 13, R(cpu, op % 16)), pc + 4)
       [] does = <<"msr", 16>> -> Goto([cpu EXCEPT !.primask = R(cpu, op % 16) % 2 = 1], pc + 4)
       [] does[1] = "mrs" ->
            Goto(Set(cpu, Field(op2, 8, 4), IF does[2] = 16 THEN One(cpu.primask) ELSE 0), pc + 4)
       [] does[1] = "bl" ->
            Goto(Set(cpu, 14, pc + 4),
                 pc + 4 + sx(4096 * Field(op, 0, 11) + 2 * Field(op2, 0, 11), 23))
       [] does[1] = "b" -> Goto(cpu, pc + 4 + sx(2 * Field(op, 0, 11), 12))
       [] does[1] = "bcond" ->
            IF cond_true(cpu, Field(op, 8, 4)) THEN Goto(cpu, pc + 4 + sx(2 * imm, 9)) ELSE cpu
       [] does[1] = "load" -> Set(cpu, rt, Read(cpu, addr, does[2]))
       [] does[1] = "sload" -> Set(cpu, rt, sx(Read(cpu, addr, does[2]), B * does[2]))
       [] does[1] = "store" -> Write(cpu, addr, does[2], R(cpu, rt))
       [] does[1] = "movi" -> set_nz(Set(cpu, rd, imm), Low(imm))
       [] does[1] = "cmpi" -> Compared(cpu, R(cpu, rd), imm)
       [] does[1] = "addi" -> Added(cpu, rd, R(cpu, rd), imm)
       [] does[1] = "subi" -> Subtracted(cpu, rd, R(cpu, rd), imm)
       [] does[1] = "alu" -> Alu(cpu, op)
       [] does[1] = "addh" -> Set(cpu, High(op), R(cpu, High(op)) + R(cpu, Field(op, 3, 4)))
       [] does[1] = "cmph" -> Compared(cpu, R(cpu, High(op)), R(cpu, Field(op, 3, 4)))
       [] does[1] = "movh" -> Set(cpu, High(op), R(cpu, Field(op, 3, 4)))
       [] does[1] = "bx" -> Exchange(cpu, pc, op)
       [] does[1] = "push" -> Push(cpu, op)
       [] does[1] = "pop" -> Pop(cpu, op)
       [] does[1] = "multiple" -> Multiple(cpu, op)
       [] does[1] = "adr" -> Set(cpu, rd, WordAligned(pc + 4) + 4 * imm)
       [] does[1] = "addsp" -> Set(cpu, rd, R(cpu, 13) + 4 * imm)
       [] does[1] = "adjustsp" ->
            Set(cpu, 13, R(cpu, 13) + (IF imm >= 128 THEN -4 ELSE 4) * (imm % 128))
       [] does[1] = "sextend" ->
            set_nz(Extended(cpu, op, sx(rm % Pow2[B * does[2]], B * does[2])),
                   Low(sx(rm % Pow2[B * does[2]], B * does[2])))
       [] does[1] = "extend" ->
            set_nz(Extended(cpu, op, rm % Pow2[B * does[2]]), rm % Pow2[B * does[2]])
       [] does[1] = "reverse" -> Extended(cpu, op, Reversed(rm, does[2]))
       [] does[1] = "sreverse" -> Extended(cpu, op, sx(Reversed(rm, 2) % Pow2[2 * B], 2 * B))
       [] does[1] = "lsl" -> ShiftImmediate(cpu, op, lsl_with_carry(cpu, rm, ShiftAmount(op, 0)))
       [] does[1] = "lsr" -> ShiftImmediate(cpu, op, lsr_with_carry(cpu, rm, ShiftAmount(op, W)))
       [] does[1] = "asr" -> ShiftImmediate(cpu, op, asr_with_carry(cpu, rm, ShiftAmount(op, W)))
       [] does[1] = "addsub" -> AddSub(cpu, op)
-----------------------------------------------------------------------------
(* Loops that only let time pass                                            *)

Reg8(op) == Field(op, 8, 3)
Offset(op) == 4 * Field(op, 6, 5)
\* nop; subs reg, #1; cmp reg, #0; bne back
IsDelayLoop(cpu, code) ==
  LET Op(k) == mem_read16(code, R(cpu, 15) + 2 * k)
      reg == Reg8(Op(1))
  IN /\ Op(0) \in {\h46C0, \hBF00}
     /\ Top(Op(1), 5) = 7 /\ Field(Op(1), 0, 8) = 1
     /\ Top(Op(2), 5) = 5 /\ Reg8(Op(2)) = reg /\ Field(Op(2), 0, 8) = 0
     /\ Top(Op(3), 8) = \hD1 /\ 10 + sx(2 * Field(Op(3), 0, 8), 9) = 0
     /\ R(cpu, reg) # 0
Flags(cpu, z) == [cpu EXCEPT !.n = FALSE, !.z = z, !.c = TRUE, !.v = FALSE]
Stepped(cpu, n) == [cpu EXCEPT !.steps = @ + n]
try_accelerate_delay_loop(cpu, code) ==
  LET pc == R(cpu, 15)
      reg == Reg8(mem_read16(code, pc + 2))
  IN Stepped(Spent(Goto(Flags(Set(cpu, reg, 0), TRUE), pc + 8), 4 * R(cpu, reg)), 4)

\* ldr reg, [sp, #x]; adds reg, #1; str reg, [sp, #x]; b to the condition:
\* ldr reg, [sp, #x]; cmp reg, limit; bls back
ConditionAt(cpu, code) ==
  R(cpu, 15) + 10 + sx(2 * Field(mem_read16(code, R(cpu, 15) + 6), 0, 11), 12)
MemoryLoop(cpu, code) ==
  LET op == mem_read16(code, R(cpu, 15))
      addr == Low(R(cpu, 13) + 4 * Field(op, 0, 8))
      cond == mem_read16(code, ConditionAt(cpu, code) + 2)
  IN [addr |-> addr, value |-> Read(cpu, addr, 4), limit |-> R(cpu, Field(cond, 3, 4)),
      reg |-> Reg8(op)]
IsMemoryDelayLoop(cpu, code) ==
  LET pc == R(cpu, 15)
      Op(k) == mem_read16(code, pc + 2 * k)
      cond == ConditionAt(cpu, code)
      Cond(k) == mem_read16(code, cond + 2 * k)
      reg == Reg8(Op(0))
      loop == MemoryLoop(cpu, code)
  IN /\ Top(Op(0), 5) = \h13
     /\ Op(1) = \h3001 + 256 * reg
     /\ Op(2) = \h9000 + 256 * reg + Field(Op(0), 0, 8)
     /\ Top(Op(3), 5) = \h1C
     /\ Cond(0) = Op(0)
     /\ Top(Cond(1), 10) = \h10A /\ Field(Cond(1), 0, 3) = reg
     /\ Top(Cond(2), 8) = \hD9 /\ cond + 8 + sx(2 * Field(Cond(2), 0, 8), 9) = pc
     /\ loop.value <= loop.limit
try_accelerate_memory_delay_loop_OneShort(cpu, code) ==
  LET loop == MemoryLoop(cpu, code)
  IN Stepped(Spent(Goto(Flags(Write(cpu, loop.addr, 4, loop.limit), FALSE),
                       ConditionAt(cpu, code) + 6),
                  4 * (loop.limit - loop.value + 1)), 8)
try_accelerate_memory_delay_loop(cpu, code) ==
  LET loop == MemoryLoop(cpu, code)
  IN Stepped(Spent(Goto(Flags(Write(cpu, loop.addr, 4, Low(loop.limit + 1)), FALSE),
                       ConditionAt(cpu, code) + 6),
                  4 * (loop.limit - loop.value + 1)), 8)

\* loads of the timer among the instructions from one address to another;
\* base registers that a literal would set are left out
TimerLoads(cpu, code, from, to) ==
  {Offset(mem_read16(code, a)) : a \in {a \in from .. to - 1 :
     /\ (a - from) % 2 = 0 /\ Top(mem_read16(code, a), 5) = \h0D
     /\ R(cpu, Field(mem_read16(code, a), 3, 3)) = TIMER_BASE}} \cap {36, 40}
\* wfe; b back, past reads of both halves of the time
IsTimerWaitLoop(cpu, code) ==
  LET pc == R(cpu, 15)
      back == pc + 6 + sx(2 * Field(mem_read16(code, pc + 2), 0, 11), 12)
  IN /\ mem_read16(code, pc) = \hBF20 /\ Top(mem_read16(code, pc + 2), 5) = \h1C
     /\ back < pc /\ pc - back <= 96
     /\ TimerLoads(cpu, code, back, pc) = {36, 40}
Waited(cpu) == Stepped(Spent(cpu, TIMER_WAIT_ACCEL_US * TIMER_CYCLES_PER_US), 1)
try_accelerate_timer_wait_loop(cpu, code) == Waited(Goto(cpu, R(cpu, 15) + 2))

\* ldr low, [timer, #40]; cmp low, limit; bcc back
IsTimerCompareLoop(cpu, code) ==
  LET pc == R(cpu, 15)
      Op(k) == mem_read16(code, pc + 2 * k)
      target == pc + 8 + sx(2 * Field(Op(2), 0, 8), 9)
  IN /\ Top(Op(0), 5) = \h0D /\ Offset(Op(0)) = 40
     /\ R(cpu, Field(Op(0), 3, 3)) = TIMER_BASE
     /\ Top(Op(1), 10) = \h10A /\ Field(Op(1), 0, 3) = Field(Op(0), 0, 3)
     /\ Top(Op(2), 8) = \hD3
     /\ target < pc /\ pc - target <= 16 /\ TimerLoads(cpu, code, target, pc) # {}
     /\ timer_us_low(cpu) < R(cpu, Field(Op(1), 3, 4))
try_accelerate_timer_compare_loop(cpu, code) ==
  LET pc == R(cpu, 15)
      limit == R(cpu, Field(mem_read16(code, pc + 2), 3, 4))
  IN Stepped(Spent(Goto(Flags(Set(cpu, Field(mem_read16(code, pc), 0, 3), limit), TRUE), pc + 6),
                  (limit - timer_us_low(cpu)) * TIMER_CYCLES_PER_US), 3)

\* a branch back that is taken, or forward that is not, after reading the timer
BranchTarget(cpu, code) ==
  R(cpu, 15) + 4 + sx(2 * Field(mem_read16(code, R(cpu, 15)), 0, 8), 9)
Taken(cpu, code) == cond_true(cpu, Field(mem_read16(code, R(cpu, 15)), 8, 4))
IsTimerPollBranch(cpu, code) ==
  LET pc == R(cpu, 15)
      op == mem_read16(code, pc)
      target == BranchTarget(cpu, code)
  IN /\ Top(op, 4) = \hD /\ Field(op, 8, 4) # 15
     /\ IF Taken(cpu, code) THEN target <= pc ELSE target >= pc
     /\ TimerLoads(cpu, code, IF pc > 64 THEN pc - 64 ELSE pc, pc) # {}
try_accelerate_timer_poll_branch(cpu, code) ==
  Waited(Goto(cpu, IF Taken(cpu, code) THEN BranchTarget(cpu, code) ELSE R(cpu, 15) + 2))
-----------------------------------------------------------------------------
(* The loop of run_bin                                                      *)

ThumbInit ==
  /\ program \in Programs
  /\ plain = [r |-> program.r, mem |-> program.mem,
              n |-> program.n, z |-> program.z, c |-> program.c, v |-> program.v,
              primask |-> FALSE, cycles |-> 0, steps |-> 0, state |-> "running"]
  /\ quick = plain

Runs(cpu) == cpu.state = "running" /\ cpu.steps < MaxSteps
Goes(cpu) == Runs(cpu) /\ Executable(program.code, R(cpu, 15))
Halts(cpu) == mem_read16(program.code, R(cpu, 15)) = \hE7FE
Ends(cpu, how) == [cpu EXCEPT !.state = how]
\* an instruction, or the end of the run if it is not known or has no handler
Stepping(cpu) ==
  LET pc == R(cpu, 15)
      op == mem_read16(program.code, pc)
      op2 == mem_read16(program.code, pc + 2)
      does == Decode(op, op2)
  IN IF does \in {Unsupported, <<"bkpt">>, <<"svc">>} THEN Ends(cpu, "failed")
     ELSE Stepped(Spent(Execute(Goto(cpu, pc + 2), pc, op, op2, does), 1), 1)
Ended(cpu) ==
  \/ cpu.state = "running" /\ cpu.steps >= MaxSteps
  \/ Runs(cpu) /\ (~Executable(program.code, R(cpu, 15)) \/ Halts(cpu))
Ending(cpu) ==
  IF cpu.steps >= MaxSteps THEN Ends(cpu, "budget")
  ELSE IF Executable(program.code, R(cpu, 15)) THEN Ends(cpu, "stopped")
  ELSE Ends(cpu, "failed")

\* the run without skipping comes first; the order does not matter
PlainStep == /\ Goes(plain) /\ ~Halts(plain) /\ plain' = Stepping(plain)
             /\ UNCHANGED <<program, quick>>
PlainEnd == Ended(plain) /\ plain' = Ending(plain) /\ UNCHANGED <<program, quick>>

QuickTurn == plain.state # "running" /\ Goes(quick) /\ ~Halts(quick)
Skips == <<IsDelayLoop(quick, program.code), IsMemoryDelayLoop(quick, program.code),
           IsTimerWaitLoop(quick, program.code), IsTimerCompareLoop(quick, program.code),
           IsTimerPollBranch(quick, program.code)>>
\* the loops are tried in this order
First(k) == QuickTurn /\ Skips[k] /\ \A j \in 1 .. k - 1 : ~Skips[j]
Quick(cpu) == quick' = cpu /\ UNCHANGED <<program, plain>>
SkipDelay == First(1) /\ Quick(try_accelerate_delay_loop(quick, program.code))
\* frames are captured and more are wanted, or the run would end here
SkipMemoryDelay == First(2) /\ Quick(try_accelerate_memory_delay_loop(quick, program.code))
SkipTimerWait == First(3) /\ Quick(try_accelerate_timer_wait_loop(quick, program.code))
SkipTimerCompare == First(4) /\ Quick(try_accelerate_timer_compare_loop(quick, program.code))
SkipTimerPoll == First(5) /\ Quick(try_accelerate_timer_poll_branch(quick, program.code))
QuickStep == QuickTurn /\ (\A k \in DOMAIN Skips : ~Skips[k]) /\ Quick(Stepping(quick))
QuickEnd == plain.state # "running" /\ Ended(quick) /\ Quick(Ending(quick))
ThumbNext == \/ PlainStep \/ PlainEnd \/ QuickStep \/ QuickEnd
        \/ SkipDelay \/ SkipMemoryDelay
        \/ SkipTimerWait \/ SkipTimerCompare \/ SkipTimerPoll
ThumbSpec == ThumbInit /\ [][ThumbNext]_thumbVars
-----------------------------------------------------------------------------
(* Properties                                                               *)

\* What the ARMv6-M manual makes of an opcode of one halfword, group by group.
Architecture(op) ==
  LET group == Top(op, 4)
      bit11 == Field(op, 11, 1) = 1
      Sized(size, mode) == <<IF bit11 THEN "load" ELSE "store", size, mode>>
      misc == Field(op, 8, 4)
      two == Field(op, 6, 2)
  IN CASE group \in 0 .. 3 ->
            << <<"lsl">>, <<"lsr">>, <<"asr">>, <<"addsub">>,
               <<"movi">>, <<"cmpi">>, <<"addi">>, <<"subi">> >>[Top(op, 5) + 1]
       [] group = 4 ->
            (IF bit11 THEN <<"load", 4, "pc">>
             ELSE IF Field(op, 10, 1) = 0 THEN <<"alu">>
             ELSE << <<"addh">>, <<"cmph">>, <<"movh">>, <<"bx">> >>[Field(op, 8, 2) + 1])
       [] group = 5 ->
            << <<"store", 4>>, <<"store", 2>>, <<"store", 1>>, <<"sload", 1>>,
               <<"load", 4>>, <<"load", 2>>, <<"load", 1>>, <<"sload", 2>> >>[Field(op, 9, 3) + 1]
            \o <<"reg">>
       [] group = 6 -> Sized(4, "imm")
       [] group = 7 -> Sized(1, "imm")
       [] group = 8 -> Sized(2, "imm")
       [] group = 9 -> Sized(4, "sp")
       [] group = 10 -> IF bit11 THEN <<"addsp">> ELSE <<"adr">>
       [] group = 11 /\ misc = 0 -> <<"adjustsp">>
       [] group = 11 /\ misc = 2 ->
            << <<"sextend", 2, "">>, <<"sextend", 1, "">>,
               <<"extend", 2, "">>, <<"extend", 1, "">> >>[two + 1]
       [] group = 11 /\ misc \in {4, 5} -> <<"push">>
       [] group = 11 /\ misc \in {12, 13} -> <<"pop">>
       [] group = 11 /\ misc = 6 /\ op % 256 \in {98, 114} -> <<"cps">>
       [] group = 11 /\ misc = 10 /\ two # 2 ->
            (IF two = 0 THEN <<"reverse", 4, "">>
             ELSE IF two = 1 THEN <<"reverse", 2, "">> ELSE <<"sreverse", 2, "">>)
       [] group = 11 /\ misc = 14 -> <<"bkpt">>
       [] group = 11 /\ misc = 15 /\ op % 16 = 0 -> <<"hint">>
       [] group = 12 -> <<"multiple">>
       [] group = 13 /\ misc < 14 -> <<"bcond">>
       [] group = 13 /\ misc = 15 -> <<"svc">>
       [] group = 14 /\ ~bit11 -> <<"b">>
       [] OTHER -> Unsupported
(***************************************************************************)
(* Every opcode of one halfword is executed as the instruction the manual  *)
(* assigns to it, whatever rows before its own might have matched, and     *)
(* opcodes without a meaning stop the run.  (Two groups of undefined       *)
(* opcodes do not: the permanently undefined ones are executed as a branch *)
(* that is always taken, and those of If-Then as hints.)                   *)
(***************************************************************************)
Undefined(op) == Top(op, 8) = \hDE \/ (Top(op, 8) = \hBF /\ op % 16 # 0)
DecodesAsManual ==
  program.kind = "opcodes" =>
    \A op \in program.opcodes : Undefined(op) \/ Narrow(op) = Architecture(op)

Signed(n) == sx(n, W)
Finished(kind) ==
  program.kind = kind /\ plain.state # "running" /\ quick.state # "running"
\* the manual's sum of two words and a carry, and its shifts of a number
Sum(x, y, carry) ==
  [value |-> Low(x + y + carry), c |-> x + y + carry >= Pow2[W],
   v |-> Signed(x) + Signed(y) + carry # Signed(Low(x + y + carry))]
ShiftOf(how, a, n) ==
  LET number == IF how = "asr" THEN Signed(a) ELSE a
      k == IF n > W + 1 THEN W + 1 ELSE n
  IN CASE how = "lsl" -> Shifted(Low(a * Pow2[k]), ((a * Pow2[k]) \div Pow2[W]) % 2 = 1)
       [] how = "ror" -> Shifted(FromBits({i \in Bits : (i + n) % W \in ToBits(a)}),
                                 (n + W - 1) % W \in ToBits(a))
       [] OTHER -> Shifted(Low(number \div Pow2[k]), (number \div Pow2[k - 1]) % 2 = 1)
\* what a load finds, byte by byte, after a store
After(m, size) ==
  LET Value[i \in 0 .. size] == IF i = size THEN 0 ELSE Pow2[B] * Value[i + 1] +
        (IF m.from + i \in m.to .. m.to + m.size - 1
         THEN Byte(m.value, m.from + i - m.to) ELSE program.mem[m.from + i])
  IN Value[0]
Compares(cond, a, b) ==
  CASE cond = 0 -> a = b
    [] cond = 1 -> a # b
    [] cond = 2 -> a >= b
    [] cond = 3 -> a < b
    [] cond = 8 -> a > b
    [] cond = 9 -> a <= b
    [] cond = 10 -> Signed(a) >= Signed(b)
    [] cond = 11 -> Signed(a) < Signed(b)
    [] cond = 12 -> Signed(a) > Signed(b)
    [] cond = 13 -> Signed(a) <= Signed(b)
(***************************************************************************)
(* A single instruction does what the manual says: sums and differences    *)
(* with their carries and overflows, shifts by any amount, a comparison    *)
(* followed by each of the conditions, and a load of any size over what a  *)
(* store of any size has left.                                             *)
(***************************************************************************)
ExecutesAsManual ==
  LET m == program.means
  IN /\ Finished("sum") =>
          LET sum == Sum(m.x, m.y, m.carry)
          IN /\ plain.n = Negative(sum.value) /\ plain.z = (sum.value = 0)
             /\ plain.c = sum.c /\ plain.v = sum.v
             /\ R(plain, m.rd) = (IF m.kept THEN sum.value ELSE program.r[m.rd])
     /\ Finished("shift") =>
          LET shifted == IF m.n = 0 THEN Shifted(m.a, program.c) ELSE ShiftOf(m.how, m.a, m.n)
          IN /\ R(plain, m.rd) = shifted.value /\ plain.c = shifted.c
             /\ plain.n = Negative(shifted.value) /\ plain.z = (shifted.value = 0)
     /\ Finished("compare") => (R(plain, 2) = 1) = Compares(m.cond, m.a, m.b)
     /\ Finished("memory") =>
          R(plain, m.rd) = Low(IF m.signed THEN sx(After(m, m.loads), B * m.loads)
                               ELSE After(m, m.loads))

(***************************************************************************)
(* The division of the runtime library, assembled and run: quotient and    *)
(* remainder are those of the numbers, the registers the caller counts on  *)
(* and the stack are as before, and the run is back where it was called.   *)
(***************************************************************************)
LibraryDivides ==
  \A cpu \in {plain, quick} :
    Finished("divide") =>
      LET m == program.means
          n == IF m.signed THEN Signed(m.n) ELSE m.n
          d == IF m.signed THEN Signed(m.d) ELSE m.d
          q == IF m.signed THEN Signed(R(cpu, 0)) ELSE R(cpu, 0)
          r == IF m.signed THEN Signed(R(cpu, 1)) ELSE R(cpu, 1)
          Size(k) == IF k < 0 THEN -k ELSE k
      IN /\ cpu.state = "stopped"
         /\ \A i \in 4 .. 13 : R(cpu, i) = program.r[i]
         /\ d # 0 => /\ Low(q * d + r) = m.n /\ Size(r) < Size(d)
                     /\ r # 0 => (r < 0) = (n < 0)
         /\ d = 0 => r = n

(***************************************************************************)
(* A skipped loop leaves everything as running it would: registers, flags, *)
(* RAM and where the run goes on.  Only the register a loop in memory      *)
(* loads its counter to keeps its old value (stale), and the largest       *)
(* signed limit, after which the overflow flag would differ, is left out.  *)
(* A wait for the timer, skipped or not, does not end before its time.     *)
(***************************************************************************)
Same(a, b, except) ==
  /\ \A i \in 0 .. 15 : i \in except \/ R(a, i) = R(b, i)
  /\ a.mem = b.mem /\ a.state = b.state
  /\ a.n = b.n /\ a.z = b.z /\ a.c = b.c /\ a.v = b.v
SkippedAsRun ==
  /\ Finished("delay") => Same(plain, quick, program.means.stale)
  /\ Finished("timer") =>
       \A cpu \in {plain, quick} : cpu.state = "stopped" /\ timer_us_low(cpu) >= program.means.limit
=============================================================================
