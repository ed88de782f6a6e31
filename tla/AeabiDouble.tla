----------------------------- MODULE AeabiDouble -----------------------------
(***************************************************************************)
(* The doubles of the bare programs (src/src/picocalc/bare/                *)
(* aeabi_double.c): the processor has no floating point, so the compiler   *)
(* calls these functions for every operation on a double.                  *)
(*                                                                         *)
(* The code is written for one format; here the widths are constants, and  *)
(* every number of the code is written as what it is made of: 1023 is      *)
(* Bias, 52 is F, 55 and 56 are F + 3 and F + 4 (three bits beyond the     *)
(* fraction for rounding), 64 is 2 * H.  A D64 is a record of its three    *)
(* fields.  A loop that shifts one place at a time is one shift by as many *)
(* places as it makes.                                                     *)
(***************************************************************************)
EXTENDS Integers
LOCAL INSTANCE FiniteSetsExt
CONSTANTS F,  \* bits of the fraction (52)
          E,  \* bits of the exponent (11)
          H   \* bits of a u32 (32); a u64 has twice as many

\* what the widths of the code satisfy, and the functions rely on
DoubleAssumption == /\ {F, E, H} \subseteq Nat
                    /\ H <= F + 1 /\ F + 5 <= 2 * H /\ 2 * H < 2^(E - 1)

Bias == 2^(E - 1) - 1
EMin == 1 - Bias
MaxRaw == 2^E - 1
W == 2 * H
Top == 2^F
Bits(n) == n % 2^W

D64 == [sign : 0 .. 1, exp : 0 .. MaxRaw, frac : 0 .. Top - 1]
pack(sign, exp, frac) == [sign |-> sign, exp |-> exp, frac |-> frac]
zero(sign) == pack(sign, 0, 0)
inf(sign) == pack(sign, MaxRaw, 0)
quiet_nan == pack(0, MaxRaw, Top \div 2)
is_nan(d) == d.exp = MaxRaw /\ d.frac # 0
d_is_zero(d) == d.exp = 0 /\ d.frac = 0

high_bit(v) == IF v = 0 THEN 0 ELSE CHOOSE b \in 0 .. 2 * W : 2^b <= v /\ v < 2^(b + 1)
Sticky(v, lost) == IF lost /\ v % 2 = 0 THEN v + 1 ELSE v
shift_right_sticky(v, shift) ==
  IF shift <= 0 THEN v
  ELSE IF shift >= W THEN Sticky(0, v # 0)
  ELSE Sticky(v \div 2^shift, v % 2^shift # 0)
\* of a value in two words, to one word
shift_right_sticky_u128(v, shift) ==
  IF shift <= 0 THEN (IF -shift < W THEN Bits(v.lo * 2^(-shift)) ELSE v.lo)
  ELSE IF shift < W
  THEN Sticky(v.lo \div 2^shift + Bits(v.hi * 2^(W - shift)), v.lo % 2^shift # 0)
  ELSE Sticky(v.hi \div 2^(shift - W), v.lo # 0 \/ v.hi % 2^(shift - W) # 0)

(***************************************************************************)
(* A DParts: a number that is neither zero, infinite nor NaN has its       *)
(* leading bit at place F, whatever its exponent in the format.            *)
(***************************************************************************)
DParts(sign, kind, exp, mant) == [sign |-> sign, kind |-> kind, exp |-> exp, mant |-> mant]
unpack(d) ==
  IF d.exp = MaxRaw THEN DParts(d.sign, IF d.frac # 0 THEN "nan" ELSE "inf", 0, 0)
  ELSE IF d_is_zero(d) THEN DParts(d.sign, "zero", 0, 0)
  ELSE IF d.exp = 0
  THEN LET shift == F - high_bit(d.frac)
       IN DParts(d.sign, "finite", EMin - shift, d.frac * 2^shift)
  ELSE DParts(d.sign, "finite", d.exp - Bias, Top + d.frac)

\* mant has three bits below the fraction, the last of them sticky
RoundsUp_HalfAway(mant) == mant % 8 >= 4
RoundsUp(mant) == mant % 8 > 4 \/ (mant % 8 = 4 /\ (mant \div 8) % 2 = 1)
Rounded(mant) == mant \div 8 + (IF RoundsUp(mant) THEN 1 ELSE 0)
pack_rounded(sign, exp, mant) ==
  LET down == Max({0, high_bit(mant) - (F + 3)})
      up == Max({0, Min({F + 3 - high_bit(mant), exp - (EMin - F - 1)})})
      placed == IF down > 0 THEN shift_right_sticky(mant, down) ELSE mant * 2^up
      at == exp + down - up
      m == Rounded(shift_right_sticky(placed, EMin - at))
      e == Max({at, EMin}) + (IF m >= 2 * Top THEN 1 ELSE 0)
      n == IF m >= 2 * Top THEN m \div 2 ELSE m
  IN IF mant = 0 \/ m = 0 THEN zero(sign)
     ELSE IF e > Bias THEN inf(sign)
     ELSE IF e = EMin /\ n < Top THEN pack(sign, 0, n)
     ELSE pack(sign, e + Bias, n % Top)
Packed(p, exp) == pack_rounded(p.sign, exp, p.mant * 8)

add_parts(a, b) ==
  LET exp == Max({a.exp, b.exp})
      m == shift_right_sticky(a.mant * 8, exp - a.exp)
      n == shift_right_sticky(b.mant * 8, exp - b.exp)
  IN CASE "nan" \in {a.kind, b.kind} -> quiet_nan
       [] "inf" \in {a.kind, b.kind} /\ "nan" \notin {a.kind, b.kind} ->
            IF a.kind = b.kind /\ a.sign # b.sign THEN quiet_nan
            ELSE inf(IF a.kind = "inf" THEN a.sign ELSE b.sign)
       [] a.kind = "zero" /\ b.kind = "zero" -> zero(a.sign * b.sign)
       [] a.kind = "zero" /\ b.kind = "finite" -> Packed(b, b.exp)
       [] a.kind = "finite" /\ b.kind = "zero" -> Packed(a, a.exp)
       [] OTHER -> IF a.sign = b.sign THEN pack_rounded(a.sign, exp, m + n)
                   ELSE IF m > n THEN pack_rounded(a.sign, exp, m - n)
                   ELSE IF n > m THEN pack_rounded(b.sign, exp, n - m)
                   ELSE zero(0)
dadd(a, b) == add_parts(unpack(a), unpack(b))
dsub(a, b) == add_parts(unpack(a), [unpack(b) EXCEPT !.sign = 1 - @])

\* the product of two numbers of F + 1 bits, from four products of half words
mul_53(a, b) ==
  LET low == (a % 2^H) * (b % 2^H)
      cross == (a % 2^H) * (b \div 2^H) + (a \div 2^H) * (b % 2^H)
      lo == Bits(low + cross * 2^H)
  IN [lo |-> lo,
      hi |-> Bits((a \div 2^H) * (b \div 2^H) + cross \div 2^H + (IF lo < low THEN 1 ELSE 0))]
u128_high_bit(v) == IF v.hi # 0 THEN W + high_bit(v.hi) ELSE high_bit(v.lo)
ProductSign(a, b) == (a.sign + b.sign) % 2
dmul(left, right) ==
  LET a == unpack(left)
      b == unpack(right)
      sign == ProductSign(a, b)
      product == mul_53(a.mant, b.mant)
      bit == u128_high_bit(product)
  IN CASE "nan" \in {a.kind, b.kind} -> quiet_nan
       [] {a.kind, b.kind} = {"inf", "zero"} -> quiet_nan
       [] {a.kind, b.kind} \in {{"inf"}, {"inf", "finite"}} -> inf(sign)
       [] {a.kind, b.kind} \in {{"zero"}, {"zero", "finite"}} -> zero(sign)
       [] OTHER -> IF a.mant = Top THEN pack_rounded(sign, a.exp + b.exp, b.mant * 8)
                   ELSE IF b.mant = Top THEN pack_rounded(sign, a.exp + b.exp, a.mant * 8)
                   ELSE pack_rounded(sign, a.exp + b.exp + bit - 2 * F,
                                     shift_right_sticky_u128(product, bit - (F + 3)))

\* long division, a bit of the quotient at a time, from the highest
div_shifted(n, d, shift) ==
  LET top == high_bit(n) + shift
      Digit[i \in 0 .. top + 1] ==
        IF i = 0 THEN [q |-> 0, r |-> 0]
        ELSE LET before == Digit[i - 1]
                 bit == top + 1 - i
                 r == Bits(2 * before.r) + (IF bit >= shift THEN (n \div 2^(bit - shift)) % 2 ELSE 0)
             IN IF r < d THEN [q |-> before.q, r |-> r]
                ELSE [q |-> before.q + (IF bit < W THEN 2^bit ELSE 0), r |-> r - d]
  IN Digit[top + 1]
ddiv(left, right) ==
  LET a == unpack(left)
      b == unpack(right)
      sign == ProductSign(a, b)
      less == a.mant < b.mant
      exp == a.exp - b.exp - (IF less THEN 1 ELSE 0)
      result == div_shifted(a.mant, b.mant, IF less THEN F + 4 ELSE F + 3)
      mant == Sticky(result.q, result.r # 0)
      up == Max({0, F + 3 - high_bit(mant)})
  IN CASE "nan" \in {a.kind, b.kind} -> quiet_nan
       [] a.kind = b.kind /\ a.kind \in {"inf", "zero"} -> quiet_nan
       [] a.kind = "inf" /\ b.kind \in {"zero", "finite"} -> inf(sign)
       [] a.kind # "inf" /\ a.kind # "nan" /\ b.kind = "inf" -> zero(sign)
       [] a.kind = "finite" /\ b.kind = "zero" -> inf(sign)
       [] a.kind = "zero" /\ b.kind = "finite" -> zero(sign)
       [] OTHER -> IF b.mant = Top THEN pack_rounded(sign, a.exp - b.exp, a.mant * 8)
                   ELSE pack_rounded(sign, exp - up, mant * 2^up)

(***************************************************************************)
(* Between integers and doubles.                                           *)
(***************************************************************************)
u64_to_double(value, sign) ==
  LET bit == high_bit(value)
      shift == bit - F
      lost == value % 2^shift
      half == 2^(shift - 1)
      cut == value \div 2^shift
      up == IF lost > half \/ (lost = half /\ cut % 2 = 1) THEN 1 ELSE 0
      carried == cut + up = 2 * Top
  IN IF value = 0 THEN zero(sign)
     ELSE IF bit <= F THEN pack(sign, bit + Bias, (value * 2^(F - bit)) % Top)
     ELSE pack(sign, bit + Bias + (IF carried THEN 1 ELSE 0), (cut + up) % Top)
Magnitude(n) == IF n < 0 THEN -n ELSE n
Signed(n) == u64_to_double(Magnitude(n), IF n < 0 THEN 1 ELSE 0)

double_to_u64(d) ==
  LET exp == d.exp - Bias
  IN IF is_nan(d) \/ d.sign = 1 THEN 0
     ELSE IF d.exp = MaxRaw THEN 2^W - 1
     ELSE IF exp < 0 THEN 0
     ELSE IF exp > W - 1 THEN 2^W - 1
     ELSE IF exp >= F THEN Bits((Top + d.frac) * 2^(exp - F))
     ELSE (Top + d.frac) \div 2^(F - exp)
double_to_s64(d) ==
  LET value == double_to_u64([d EXCEPT !.sign = 0])
  IN IF is_nan(d) THEN 0
     ELSE IF value >= 2^(W - 1) THEN (IF d.sign = 1 THEN -(2^(W - 1)) ELSE 2^(W - 1) - 1)
     ELSE IF d.sign = 1 THEN -value ELSE value
Within(n, low, high) == IF n < low THEN low ELSE IF n > high THEN high ELSE n
d2iz(d) == Within(double_to_s64(d), -(2^(H - 1)), 2^(H - 1) - 1)
d2uiz(d) == Within(double_to_u64(d), 0, 2^H - 1)

(***************************************************************************)
(* Comparison: -1, 0 or 1, or the given value when one side is NaN.        *)
(***************************************************************************)
abs_cmp(a, b) ==
  IF a.exp = b.exp /\ a.frac = b.frac THEN 0
  ELSE IF a.exp < b.exp \/ (a.exp = b.exp /\ a.frac < b.frac) THEN -1 ELSE 1
ordered_cmp_ZerosDiffer(a, b, unordered) ==
  IF is_nan(a) \/ is_nan(b) THEN unordered
  ELSE IF a.sign # b.sign THEN (IF a.sign = 1 THEN -1 ELSE 1)
  ELSE IF a.sign = 1 THEN -abs_cmp(a, b) ELSE abs_cmp(a, b)
ordered_cmp(a, b, unordered) ==
  IF is_nan(a) \/ is_nan(b) THEN unordered
  ELSE IF d_is_zero(a) /\ d_is_zero(b) THEN 0
  ELSE IF a.sign # b.sign THEN (IF a.sign = 1 THEN -1 ELSE 1)
  ELSE IF a.sign = 1 THEN -abs_cmp(a, b) ELSE abs_cmp(a, b)
dcmpeq(a, b) == ordered_cmp(a, b, 1) = 0
dcmplt(a, b) == ordered_cmp(a, b, 1) < 0
dcmple(a, b) == ordered_cmp(a, b, 1) <= 0
dcmpgt(a, b) == ordered_cmp(a, b, -1) > 0
dcmpge(a, b) == ordered_cmp(a, b, -1) >= 0

(***************************************************************************)
(* The comparisons that leave flags: from cmp when the first is less, from *)
(* cmn otherwise, so that C is set just when it is less.  cdcmple is       *)
(* another name of cdcmpeq.                                                *)
(***************************************************************************)
cdcmpeq(a, b) ==
  LET less == ordered_cmp(a, b, 1) < 0
  IN [N |-> less, Z |-> ordered_cmp(a, b, 1) = 0, C |-> less]
cdrcmple(a, b) == cdcmpeq(b, a)
=============================================================================
