------------------------------ MODULE ThumbAlu ------------------------------
(***************************************************************************)
(* Flags, shifts and conditions of the emulated processor                  *)
(* (src/host/emulator/bin_emu.c) for words of four bytes of B bits each    *)
(* (8 in the code).  A flag is a Boolean, a word a number below 2^W.       *)
(***************************************************************************)
EXTENDS Integers
CONSTANT B
ASSUME ByteAssumption == B \in Nat /\ B >= 1

W == 4 * B
\* 2^k, as far as a field of an opcode or a word needs it
Pow2[k \in 0 .. W + 16] == IF k = 0 THEN 1 ELSE 2 * Pow2[k - 1]
Word == 0 .. Pow2[W] - 1
Low(n) == n % Pow2[W]
Negative(value) == value >= Pow2[W - 1]
Bit(value, i) == (value \div Pow2[i]) % 2
sx(value, bits) == IF value >= Pow2[bits - 1] THEN value - Pow2[bits] ELSE value
Bits == 0 .. W - 1
FromBits(S) == LET Value[i \in 0 .. W] == IF i = 0 THEN 0
                     ELSE Value[i - 1] + (IF i - 1 \in S THEN Pow2[i - 1] ELSE 0)
               IN Value[W]
ToBits(value) == {i \in Bits : Bit(value, i) = 1}
Not(value) == Pow2[W] - 1 - value
One(flag) == IF flag THEN 1 ELSE 0

set_nz(cpu, value) == [cpu EXCEPT !.n = Negative(value), !.z = value = 0]
\* overflow of a sum: both operands have the sign the result has not
SumOverflows(a, b, result) == Negative(a) # Negative(result) /\ Negative(b) # Negative(result)
DifferenceOverflows(a, b, result) == Negative(a) # Negative(b) /\ Negative(a) # Negative(result)
set_add_flags(cpu, a, b, result) ==
  [set_nz(cpu, result) EXCEPT !.c = result < a, !.v = SumOverflows(a, b, result)]
set_sub_flags_CarryIsBorrow(cpu, a, b, result) ==
  [set_nz(cpu, result) EXCEPT !.c = a > b, !.v = DifferenceOverflows(a, b, result)]
set_sub_flags(cpu, a, b, result) ==
  [set_nz(cpu, result) EXCEPT !.c = a >= b, !.v = DifferenceOverflows(a, b, result)]
\* the carry of a sum of three is the bit above the word
set_adc_flags(cpu, a, b, carry, result) ==
  [set_nz(cpu, result) EXCEPT !.c = a + b + One(carry) >= Pow2[W], !.v = SumOverflows(a, b, result)]
set_sbc_flags(cpu, a, b, carry, result) ==
  [set_nz(cpu, result) EXCEPT !.c = a >= b + 1 - One(carry), !.v = DifferenceOverflows(a, b, result)]

\* a shift gives the value and the carry
Shifted(value, carry) == [value |-> value, c |-> carry]
lsl_with_carry(cpu, value, amount) ==
  IF amount = 0 THEN Shifted(value, cpu.c)
  ELSE IF amount < W THEN Shifted(Low(value * Pow2[amount]), Bit(value, W - amount) = 1)
  ELSE Shifted(0, amount = W /\ Bit(value, 0) = 1)
lsr_with_carry(cpu, value, amount) ==
  IF amount = 0 THEN Shifted(value, cpu.c)
  ELSE IF amount < W THEN Shifted(value \div Pow2[amount], Bit(value, amount - 1) = 1)
  ELSE Shifted(0, amount = W /\ Negative(value))
asr_with_carry(cpu, value, amount) ==
  IF amount = 0 THEN Shifted(value, cpu.c)
  ELSE IF amount < W THEN Shifted(Low(sx(value, W) \div Pow2[amount]), Bit(value, amount - 1) = 1)
  ELSE Shifted(IF Negative(value) THEN Pow2[W] - 1 ELSE 0, Negative(value))
ror_with_carry(cpu, value, amount) ==
  LET rotate == amount % W
      rotated == value \div Pow2[rotate] + Low(value * Pow2[W - rotate])
      result == IF rotate = 0 THEN value ELSE rotated
  IN IF amount = 0 THEN Shifted(value, cpu.c) ELSE Shifted(result, Negative(result))

cond_true(cpu, cond) ==
  CASE cond = 0 -> cpu.z
    [] cond = 1 -> ~cpu.z
    [] cond = 2 -> cpu.c
    [] cond = 3 -> ~cpu.c
    [] cond = 4 -> cpu.n
    [] cond = 5 -> ~cpu.n
    [] cond = 6 -> cpu.v
    [] cond = 7 -> ~cpu.v
    [] cond = 8 -> cpu.c /\ ~cpu.z
    [] cond = 9 -> ~cpu.c \/ cpu.z
    [] cond = 10 -> cpu.n = cpu.v
    [] cond = 11 -> cpu.n # cpu.v
    [] cond = 12 -> ~cpu.z /\ cpu.n = cpu.v
    [] cond = 13 -> cpu.z \/ cpu.n # cpu.v
    [] cond = 14 -> TRUE
    [] OTHER -> FALSE
=============================================================================
