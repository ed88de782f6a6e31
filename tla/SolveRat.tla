------------------------------ MODULE SolveRat ------------------------------
(***************************************************************************)
(* The solver's exact arithmetic: rationals whose numerator and            *)
(* denominator stay within SOLVE_RAT_LIMIT, and polynomials over them      *)
(* (src/src/solve.c, src/src/solve/exact_poly.c).  Names are the source's  *)
(* without the prefix solve_.                                              *)
(*                                                                         *)
(* Every C function here returns -1 instead of a result that would leave   *)
(* the limit, and every caller passes that on.  The value Refused stands   *)
(* for it, and an operation on Refused is Refused; NoPoly is the same for  *)
(* polynomials.  A polynomial is a function from exponents to rationals.   *)
(***************************************************************************)
EXTENDS Integers
LOCAL INSTANCE FiniteSetsExt
CONSTANTS RatLimit,      \* SOLVE_RAT_LIMIT
          DivisorLimit,  \* SOLVE_RAT_DIVISOR_LIMIT
          MaxDegree      \* SOLVE_RAT_POLY_MAX_DEGREE

ASSUME RatAssumption == /\ RatLimit \in Nat /\ RatLimit >= 4
                        /\ DivisorLimit \in Nat /\ DivisorLimit <= RatLimit
                        /\ MaxDegree \in Nat /\ MaxDegree >= 2

Refused == [num |-> 0, den |-> 0]
Integer(n) == [num |-> n, den |-> 1]
Size(n) == IF n < 0 THEN -n ELSE n
CommonDivisors(a, b) == {d \in 1 .. a + b : a % d = 0 /\ b % d = 0}
gcd(a, b) == CHOOSE g \in CommonDivisors(a, b) : \A d \in CommonDivisors(a, b) : d <= g

(***************************************************************************)
(* solve_checked_add_ll and solve_checked_mul_ll refuse exactly the        *)
(* results that do not fit.                                                *)
(***************************************************************************)
Fits(n) == Size(n) <= RatLimit

rat_make(num, den) ==
  IF den = 0 \/ ~Fits(num) \/ ~Fits(den) THEN Refused
  ELSE LET g == gcd(Size(num), Size(den))
           sign == IF den < 0 THEN -1 ELSE 1
       IN [num |-> (sign * num) \div g, den |-> (sign * den) \div g]

rat_add(a, b) ==
  IF Refused \in {a, b} THEN Refused
  ELSE LET g == gcd(a.den, b.den)
           left == a.num * (b.den \div g)
           right == b.num * (a.den \div g)
           den == (a.den \div g) * b.den
       IN IF \A n \in {left, right, left + right, den} : Fits(n)
          THEN rat_make(left + right, den) ELSE Refused
rat_neg(a) == IF a = Refused \/ a.num = -RatLimit THEN Refused ELSE rat_make(-a.num, a.den)
rat_sub(a, b) == rat_add(a, rat_neg(b))
rat_mul(a, b) ==
  IF Refused \in {a, b} THEN Refused
  ELSE LET g1 == gcd(Size(a.num), b.den)
           g2 == gcd(Size(b.num), a.den)
           num == (a.num \div g1) * (b.num \div g2)
           den == (a.den \div g2) * (b.den \div g1)
       IN IF Fits(num) /\ Fits(den) THEN rat_make(num, den) ELSE Refused
rat_div(a, b) ==
  IF Refused \in {a, b} \/ b.num = 0 THEN Refused ELSE rat_mul(a, rat_make(b.den, b.num))

(***************************************************************************)
(* Left is less than right (solve_rat_compare, and the order of the        *)
(* doubles that solve_sort_breakpoints compares).                          *)
(***************************************************************************)
Less(a, b) == a.num * b.den < b.num * a.den

IsSquare(n) == \E k \in 0 .. n : k * k = n
sqrt_ull_exact(n) == CHOOSE k \in 0 .. n : k * k = n
rat_sqrt_exact(a) ==
  IF a.num >= 0 /\ IsSquare(a.num) /\ IsSquare(a.den)
  THEN rat_make(sqrt_ull_exact(a.num), sqrt_ull_exact(a.den)) ELSE Refused

---------------------------------------------------------------------------
Exponents == 0 .. MaxDegree
NoPoly == [i \in Exponents |-> Refused]
poly_constant(r) == [i \in Exponents |-> IF i = 0 THEN r ELSE Integer(0)]
Whole(p) == IF \E i \in Exponents : p[i] = Refused THEN NoPoly ELSE p
degree(p) == IF \A i \in Exponents : p[i].num = 0 THEN -1
             ELSE Max({i \in Exponents : p[i].num # 0})

poly_add(p, q) == Whole([i \in Exponents |-> rat_add(p[i], q[i])])
poly_sub(p, q) == Whole([i \in Exponents |-> rat_sub(p[i], q[i])])
poly_neg(p) == Whole([i \in Exponents |-> rat_neg(p[i])])
poly_scale(p, r) == Whole([i \in Exponents |-> rat_mul(p[i], r)])

(***************************************************************************)
(* The products of one exponent are added in the order of the left factor. *)
(***************************************************************************)
poly_mul(p, q) ==
  LET Coefficient(k) ==
        LET sum[i \in -1 .. k] ==
              IF i = -1 THEN Integer(0)
              ELSE IF p[i].num = 0 \/ q[k - i].num = 0 THEN sum[i - 1]
              ELSE rat_add(sum[i - 1], rat_mul(p[i], q[k - i]))
        IN sum[k]
  IN IF p = NoPoly \/ q = NoPoly \/ degree(p) + degree(q) > MaxDegree THEN NoPoly
     ELSE Whole([k \in Exponents |-> Coefficient(k)])
poly_power(p, k) ==
  LET power[i \in Nat] == IF i = 0 THEN poly_constant(Integer(1)) ELSE poly_mul(power[i - 1], p)
  IN power[k]

(***************************************************************************)
(* Horner's rule from the highest exponent down, and the division by       *)
(* (x - root), which is refused too when a remainder is left.              *)
(***************************************************************************)
poly_eval(p, x) ==
  LET value[i \in 0 .. degree(p) + 1] ==
        IF i = degree(p) + 1 THEN Integer(0) ELSE rat_add(rat_mul(value[i + 1], x), p[i])
  IN value[0]
divide_linear(p, root) ==
  LET value[i \in 0 .. degree(p)] ==
        IF i = degree(p) THEN p[i] ELSE rat_add(p[i], rat_mul(root, value[i + 1]))
  IN IF degree(p) <= 0 \/ value[0] # Integer(0) THEN NoPoly
     ELSE Whole([i \in Exponents |-> IF i < degree(p) THEN value[i + 1] ELSE Integer(0)])

---------------------------------------------------------------------------
(***************************************************************************)
(* The polynomial with whole coefficients in lowest terms, or nothing when *)
(* it would leave the limit; then the candidates of the rational root test *)
(* that are roots.  A candidate whose value would leave the limit is       *)
(* passed over.  solve_find_exact_rational_root returns the first it       *)
(* meets.  Its list of 512 divisors never fills: no number up to the       *)
(* divisor limit has that many.                                            *)
(***************************************************************************)
Common(p) ==
  LET lcm[i \in Exponents] ==
        IF i = 0 THEN p[0].den ELSE lcm[i - 1] * (p[i].den \div gcd(lcm[i - 1], p[i].den))
  IN lcm[degree(p)]
Scaled(p) == [i \in 0 .. degree(p) |-> p[i].num * (Common(p) \div p[i].den)]
CanScale(p) == Fits(Common(p)) /\ \A i \in 0 .. degree(p) : Fits(Scaled(p)[i])
Content(p) ==
  LET content[i \in 0 .. degree(p)] ==
        IF i = 0 THEN Size(Scaled(p)[0]) ELSE gcd(content[i - 1], Size(Scaled(p)[i]))
  IN content[degree(p)]
Divisors(n) == {d \in 1 .. n : n % d = 0}
exact_rational_roots(p) ==
  LET first == Size(Scaled(p)[0]) \div Content(p)
      last == Size(Scaled(p)[degree(p)]) \div Content(p)
      candidates == {rat_make(sign * n, d) :
                       sign \in {-1, 1}, n \in Divisors(first), d \in Divisors(last)}
  IN IF degree(p) < 1 \/ ~CanScale(p) THEN {}
     ELSE IF p[0].num = 0 THEN {Integer(0)}
     ELSE IF first > DivisorLimit \/ last > DivisorLimit THEN {}
     ELSE {r \in candidates : poly_eval(p, r) = Integer(0)}

(***************************************************************************)
(* A quadratic: its discriminant and its roots, when these are rational.   *)
(***************************************************************************)
discriminant(p) ==
  rat_sub(rat_mul(p[1], p[1]), rat_mul(Integer(4), rat_mul(p[2], p[0])))
two_a_OnlyA(p) == p[2]
two_a(p) == IF Fits(2 * p[2].num) THEN rat_make(2 * p[2].num, p[2].den) ELSE Refused
quadratic_roots(p) ==
  {rat_div(rat_add(rat_neg(p[1]), s), two_a(p)) :
     s \in {rat_sqrt_exact(discriminant(p)), rat_neg(rat_sqrt_exact(discriminant(p)))}}
linear_root(p) == rat_div(rat_neg(p[0]), p[1])
=============================================================================
