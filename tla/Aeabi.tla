-------------------------------- MODULE Aeabi --------------------------------
(***************************************************************************)
(* A program of the bare build calling the arithmetic the processor lacks: *)
(* the operands are there, any of the functions is called with them, and   *)
(* the result is compared with what it stands for.                         *)
(*                                                                         *)
(* What a result should be is said without the algorithms: a finite double *)
(* is mant * 2^place in units of its smallest number, and the right result *)
(* of an operation is the double nearest to the exact value, to even when  *)
(* two are as near.                                                        *)
(***************************************************************************)
EXTENDS AeabiDouble, AeabiInt, TLC
LOCAL INSTANCE FiniteSetsExt
CONSTANTS Doubles,  \* operands tried, a subset of D64
          Longs,    \* pairs of words tried, a subset of Long
          Wholes     \* integers tried as u64 and s64
VARIABLES left, right, call, result
aeabiVars == <<left, right, call, result>>
OperandAssumption == Doubles \subseteq D64 /\ Longs \subseteq Long

Nothing == "none"
AeabiInit == /\ \/ left \in Doubles /\ right \in Doubles
                \/ left \in Longs /\ right \in Longs
             /\ call = Nothing /\ result = Nothing
Returns(name, value) ==
  call = Nothing /\ call' = name /\ result' = value /\ UNCHANGED <<left, right>>

\* functions of doubles
Add == left \in D64 /\ Returns("dadd", dadd(left, right))
Sub == left \in D64 /\ Returns("dsub", dsub(left, right))
Mul == left \in D64 /\ Returns("dmul", dmul(left, right))
Div == left \in D64 /\ Returns("ddiv", ddiv(left, right))
Compare ==
  /\ left \in D64
  /\ Returns("compare", [eq |-> dcmpeq(left, right), lt |-> dcmplt(left, right),
                         le |-> dcmple(left, right), gt |-> dcmpgt(left, right),
                         ge |-> dcmpge(left, right), flags |-> cdcmpeq(left, right),
                         reversed |-> cdrcmple(left, right)])
ToInteger ==
  /\ left \in D64 /\ left = right
  /\ Returns("to", [d2ulz |-> double_to_u64(left), d2lz |-> double_to_s64(left),
                    d2uiz |-> d2uiz(left), d2iz |-> d2iz(left)])
FromInteger ==
  /\ left \in D64 /\ left = zero(0) /\ right = zero(0)
  /\ \E n \in Wholes : Returns("from", [of |-> n, is |-> Signed(n)])
\* functions of integers
UnsignedLong == left \in Long /\ Returns("uldivmod", udivmod64(left, right))
SignedLong == left \in Long /\ Returns("ldivmod", ldivmod64(left, right))
LongProduct == left \in Long /\ Returns("lmul", lmul(left, right))
Shifts ==
  /\ left \in Long /\ left = right
  /\ \E count \in 0 .. 2 * Word + 1 :
       Returns("shift", [count |-> count, l |-> llsl(left, count), r |-> llsr(left, count)])
Words ==
  /\ left \in Long
  /\ Returns("words", [u |-> uidivmod(left.lo, right.lo), uq |-> uidiv(left.lo, right.lo),
                       s |-> idivmod(left.lo, right.lo), sq |-> idiv(left.lo, right.lo)])
AeabiNext == \/ Add \/ Sub \/ Mul \/ Div \/ Compare \/ ToInteger \/ FromInteger
             \/ UnsignedLong \/ SignedLong \/ LongProduct \/ Shifts \/ Words
AeabiSpec == AeabiInit /\ [][AeabiNext]_aeabiVars
-----------------------------------------------------------------------------
\* mant * 2^place is what a double's fields mean
Mant(d) == IF d.exp = 0 THEN d.frac ELSE Top + d.frac
Place(d) == Max({d.exp, 1}) - 1
Unit == F - EMin  \* 1 is 2^Unit smallest numbers
Finite(d) == d.exp # MaxRaw

\* m * 2^p compared with n * 2^q, by the place of the leading bit first
Order(m, p, n, q) ==
  IF m = 0 \/ n = 0 THEN (IF m = n THEN 0 ELSE IF m = 0 THEN -1 ELSE 1)
  ELSE IF high_bit(m) + p # high_bit(n) + q
  THEN (IF high_bit(m) + p < high_bit(n) + q THEN -1 ELSE 1)
  ELSE LET a == IF p > q THEN m * 2^(p - q) ELSE m
           b == IF q > p THEN n * 2^(q - p) ELSE n
       IN IF a < b THEN -1 ELSE IF a = b THEN 0 ELSE 1

\* d is the double nearest to m * 2^p, divided by n: no further than half way
\* to the next larger and to the next smaller one
NextSmaller(d) == IF d.frac = 0 THEN pack(d.sign, d.exp - 1, Top - 1)
              ELSE pack(d.sign, d.exp, d.frac - 1)
HalfWay(d, m, p, n) == Order(m, p, (2 * Mant(d) + 1) * n, Place(d) - 1)
Even(d) == d.frac % 2 = 0
Nearest(d, m, p, n) ==
  /\ ~is_nan(d)
  /\ Finite(d) => \/ HalfWay(d, m, p, n) = -1
                  \/ HalfWay(d, m, p, n) = 0 /\ Even(d)
  /\ ~d_is_zero(d) => \/ HalfWay(NextSmaller(d), m, p, n) = 1
                      \/ HalfWay(NextSmaller(d), m, p, n) = 0 /\ Even(d)

\* the exact sum; a number too small to matter but for its being there is
\* replaced by the smallest that is there
ExactSum(a, b, signb) ==
  LET swap == Place(a) < Place(b)
      x == IF swap THEN b ELSE a
      y == IF swap THEN a ELSE b
      sx == IF (IF swap THEN signb ELSE a.sign) = 1 THEN -1 ELSE 1
      sy == IF (IF swap THEN a.sign ELSE signb) = 1 THEN -1 ELSE 1
      far == 2 * F + 4
      d == Place(x) - Place(y)
  IN IF d <= far THEN [n |-> sx * Mant(x) * 2^d + sy * Mant(y), place |-> Place(y)]
     ELSE [n |-> sx * Mant(x) * 2^far + sy * Min({1, Mant(y)}), place |-> Place(x) - far]
IsSum(d, a, b, signb) ==
  IF is_nan(a) \/ is_nan(b) THEN is_nan(d)
  ELSE IF ~Finite(a) /\ ~Finite(b) THEN (IF a.sign = signb THEN d = inf(signb) ELSE is_nan(d))
  ELSE IF ~Finite(a) THEN d = inf(a.sign)
  ELSE IF ~Finite(b) THEN d = inf(signb)
  ELSE LET sum == ExactSum(a, b, signb)
       IN IF sum.n = 0 THEN d = zero(IF a.sign = 1 /\ signb = 1 THEN 1 ELSE 0)
          ELSE d.sign = (IF sum.n < 0 THEN 1 ELSE 0) /\ Nearest(d, Magnitude(sum.n), sum.place, 1)
IsProduct(d, a, b) ==
  IF is_nan(a) \/ is_nan(b) \/ (~Finite(a) /\ d_is_zero(b)) \/ (d_is_zero(a) /\ ~Finite(b)) THEN is_nan(d)
  ELSE /\ d.sign = (IF a.sign = b.sign THEN 0 ELSE 1)
       /\ IF ~Finite(a) \/ ~Finite(b) THEN d = inf(d.sign)
          ELSE Nearest(d, Mant(a) * Mant(b), Place(a) + Place(b) - Unit, 1)
IsQuotient(d, a, b) ==
  IF is_nan(a) \/ is_nan(b) \/ (~Finite(a) /\ ~Finite(b)) \/ (d_is_zero(a) /\ d_is_zero(b)) THEN is_nan(d)
  ELSE /\ d.sign = (IF a.sign = b.sign THEN 0 ELSE 1)
       /\ IF ~Finite(a) \/ d_is_zero(b) THEN d = inf(d.sign)
          ELSE IF ~Finite(b) \/ d_is_zero(a) THEN d = zero(d.sign)
          ELSE Nearest(d, Mant(a), Place(a) + Unit - Place(b), Mant(b))

(***************************************************************************)
(* Every sum, difference, product and quotient of doubles, and every       *)
(* integer made a double, is the exact value rounded once, to the nearest  *)
(* double and to even: through the alignment, the sticky bit, the          *)
(* normalisation, the numbers below the smallest exponent and the overflow *)
(* to infinity (pack_rounded is the end of all of them).                   *)
(***************************************************************************)
RoundedOnce ==
  /\ call = "dadd" => IsSum(result, left, right, right.sign)
  /\ call = "dsub" => IsSum(result, left, right, 1 - right.sign)
  /\ call = "dmul" => IsProduct(result, left, right)
  /\ call = "ddiv" => IsQuotient(result, left, right)
  /\ call = "from" => /\ result.is.sign = (IF result.of < 0 THEN 1 ELSE 0)
                      /\ Nearest(result.is, Magnitude(result.of), Unit, 1)

\* a double without its fraction, or a number larger than any integer here
WithoutFraction(d) ==
  LET place == Place(d) - Unit
      whole == IF ~Finite(d) \/ place > W THEN 2^(W + 1)
               ELSE IF place >= 0 THEN Mant(d) * 2^place
               ELSE Mant(d) \div 2^Min({-place, F + 1})
  IN IF d.sign = 1 THEN -whole ELSE whole
AsInteger(d, low, high) == IF is_nan(d) THEN 0 ELSE Within(WithoutFraction(d), low, high)
SignedOrder(a, b) ==
  LET order == Order(Mant(a), Place(a), Mant(b), Place(b))
  IN IF Mant(a) = 0 /\ Mant(b) = 0 THEN 0
     ELSE IF a.sign # b.sign THEN (IF a.sign = 1 THEN -1 ELSE 1)
     ELSE IF a.sign = 1 THEN -order ELSE order
(***************************************************************************)
(* A double made an integer loses its fraction and stays within the range  *)
(* of the type (NaN is 0), and doubles compare as the numbers they are:    *)
(* both zeros are equal, and with NaN nothing holds; of the flags, Z says  *)
(* equal and N less, in the order of the arguments that was asked for.     *)
(***************************************************************************)
OrderedAndTruncated ==
  /\ call = "to" => result = [d2ulz |-> AsInteger(left, 0, 2^W - 1),
                              d2lz |-> AsInteger(left, -(2^(W - 1)), 2^(W - 1) - 1),
                              d2uiz |-> AsInteger(left, 0, 2^H - 1),
                              d2iz |-> AsInteger(left, -(2^(H - 1)), 2^(H - 1) - 1)]
  /\ call = "compare" =>
       LET ordered == ~is_nan(left) /\ ~is_nan(right)
           order == SignedOrder(left, right)
           meant == [eq |-> ordered /\ order = 0, lt |-> ordered /\ order < 0,
                     le |-> ordered /\ order <= 0, gt |-> ordered /\ order > 0,
                     ge |-> ordered /\ order >= 0]
       IN /\ \A name \in DOMAIN meant : result[name] = meant[name]
          /\ result.flags.Z = meant.eq /\ result.flags.N = meant.lt
          /\ result.reversed.Z = meant.eq /\ result.reversed.N = meant.gt

\* what words mean, unsigned and in two's complement
ValueOf(v) == v.hi * Base + v.lo
AsSigned(n, bits) == IF n >= Pow2[bits - 1] THEN n - Pow2[bits] ELSE n
\* C's division: the quotient without its fraction; the smallest integer by
\* -1 wraps, and by zero the unsigned quotient is all ones, the remainder n
Divided(q, r, n, d, bits) ==
  /\ d # 0 => /\ (q * d + r - n) % Pow2[bits] = 0 /\ Magnitude(r) < Magnitude(d)
              /\ r # 0 => (r < 0) = (n < 0)
              /\ n \in 0 .. Pow2[bits] - 1 \/ q # -(Pow2[bits - 1]) => q * d + r = n
  /\ d = 0 => q \in {-1, 1, Pow2[bits] - 1} /\ r = n
AsNumber(n, bits, signed) == IF signed THEN AsSigned(n, bits) ELSE n
WordDivided(n, d, res, signed) ==
  Divided(AsNumber(res.q, Word, signed), AsNumber(res.r, Word, signed),
          AsNumber(n, Word, signed), AsNumber(d, Word, signed), Word)
LongDivided(n, d, res, signed) ==
  Divided(AsNumber(ValueOf(res.q), 2 * Word, signed), AsNumber(ValueOf(res.r), 2 * Word, signed),
          AsNumber(ValueOf(n), 2 * Word, signed), AsNumber(ValueOf(d), 2 * Word, signed), 2 * Word)
(***************************************************************************)
(* Quotients, remainders, products and shifts of words and of pairs of     *)
(* words are those of the numbers the words stand for, in two's complement *)
(* where the function is signed: with every borrow, carry and sign.        *)
(***************************************************************************)
IntegersRight ==
  /\ call = "uldivmod" => LongDivided(left, right, result, FALSE)
  /\ call = "ldivmod" => LongDivided(left, right, result, TRUE)
  /\ call = "lmul" => ValueOf(result) = (ValueOf(left) * ValueOf(right)) % Pow2[2 * Word]
  /\ call = "shift" => /\ ValueOf(result.l) = (ValueOf(left) * Pow2[result.count]) % Pow2[2 * Word]
                       /\ ValueOf(result.r) = ValueOf(left) \div Pow2[result.count]
  /\ call = "words" => /\ WordDivided(left.lo, right.lo, result.u, FALSE)
                       /\ WordDivided(left.lo, right.lo, result.s, TRUE)
                       /\ result.uq = result.u.q /\ result.sq = result.s.q
=============================================================================
