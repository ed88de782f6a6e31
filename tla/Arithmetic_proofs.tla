------------------------- MODULE Arithmetic_proofs -------------------------
(***************************************************************************)
(* The solver's arithmetic is exact or refused, for every limit: what an   *)
(* operation returns is the sum, difference, product, negative or quotient *)
(* of its operands, in lowest terms and within the limit.                  *)
(*                                                                         *)
(* The integer arithmetic of the bare build is that of the numbers its     *)
(* words stand for, for words of every even number of bits.                *)
(***************************************************************************)
EXTENDS SolveRat, Aeabi, WellFoundedInduction, NaturalsInduction, TLAPS

Numbers == {r \in [num : Int, den : Nat] :
              r.den > 0 /\ Fits(r.num) /\ Fits(r.den) /\ gcd(Size(r.num), r.den) = 1}
(***************************************************************************)
(* r is the number n / d.                                                  *)
(***************************************************************************)
Equals(r, n, d) == r.num * d = n * r.den

---------------------------------------------------------------------------
(***************************************************************************)
(* Division: by a divisor it leaves nothing, and takes a product apart.    *)
(***************************************************************************)
LEMMA Divides ==
  ASSUME NEW n \in Int, NEW d \in Nat \ {0}, n % d = 0
  PROVE  n \div d \in Int /\ n = d * (n \div d)
  OBVIOUS

LEMMA Multiple ==
  ASSUME NEW k \in Int, NEW d \in Nat \ {0}
  PROVE  (d * k) \div d = k /\ (d * k) % d = 0
  OBVIOUS

(***************************************************************************)
(* The greatest common divisor is one and none is greater.                 *)
(***************************************************************************)
LEMMA GcdProperty ==
  ASSUME NEW a \in Nat, NEW b \in Nat, b > 0
  PROVE  /\ gcd(a, b) \in Nat /\ gcd(a, b) > 0
         /\ a % gcd(a, b) = 0 /\ b % gcd(a, b) = 0
         /\ \A d \in CommonDivisors(a, b) : d <= gcd(a, b)
<1> DEFINE C == CommonDivisors(a, b)
           Below == {a + b - d : d \in C}
<1>1. C \subseteq 1 .. a + b /\ 1 \in C
  BY Multiple DEF CommonDivisors
<1>2. Below \in SUBSET Nat /\ Below # {}
  BY <1>1
<1>3. PICK n \in Below : \A m \in Below : n <= m
  <2>1. PICK n \in Below : \A m \in Below : <<m, n>> \notin OpToRel(<, Nat)
    BY <1>2, NatLessThanWellFounded, WFMin
  <2>2. ASSUME NEW m \in Below PROVE n <= m
    <3>1. m \in Nat /\ n \in Nat /\ <<m, n>> \in Nat \X Nat
      BY <1>2, <2>2
    <3>2. OpToRel(<, Nat) = {ss \in Nat \X Nat : ss[1] < ss[2]}
      BY DEF OpToRel
    <3>3. <<m, n>> \notin {ss \in Nat \X Nat : ss[1] < ss[2]}
      BY <2>1, <2>2, <3>2
    <3>4. ~(m < n)
      BY <3>1, <3>3
    <3> QED BY <3>1, <3>4
  <2> QED BY <2>2
<1>4. PICK g \in C : n = a + b - g
  BY <1>3
<1>5. \A d \in C : d <= g
  <2> SUFFICES ASSUME NEW d \in C PROVE d <= g
    OBVIOUS
  <2>1. a + b - d \in Below
    OBVIOUS
  <2>2. a + b - g <= a + b - d
    BY <1>3, <1>4, <2>1
  <2> QED BY <1>1, <2>2
<1>6. gcd(a, b) \in C /\ \A d \in C : d <= gcd(a, b)
  BY <1>5 DEF gcd
<1> QED BY <1>1, <1>6 DEF CommonDivisors

(***************************************************************************)
(* Divided by their greatest common divisor, two numbers have none but 1.  *)
(***************************************************************************)
LEMMA LowestTerms ==
  ASSUME NEW m \in Nat, NEW k \in Nat, k > 0,
         NEW g \in Nat, g = gcd(g * m, g * k), g > 0
  PROVE  gcd(m, k) = 1
<1> DEFINE h == gcd(m, k)
<1>1. h \in Nat /\ h > 0 /\ m % h = 0 /\ k % h = 0
  BY GcdProperty
<1> HIDE DEF h
<1>2. m \div h \in Int /\ m = h * (m \div h) /\ k \div h \in Int /\ k = h * (k \div h)
  BY <1>1, Divides
<1> DEFINE x == m \div h
           y == k \div h
<1> HIDE DEF x, y
<1>3. x \in Int /\ y \in Int /\ m = h * x /\ k = h * y
  BY <1>2 DEF x, y
<1>4. g * h \in Nat \ {0}
  BY <1>1
<1>5. g * m = (g * h) * x /\ g * k = (g * h) * y
  BY <1>1, <1>3
<1>6. (g * m) % (g * h) = 0 /\ (g * k) % (g * h) = 0
  BY <1>3, <1>4, <1>5, Multiple
<1>7. y > 0
  BY <1>1, <1>3
<1>8. g * h <= g * k
  BY <1>4, <1>5, <1>7, <1>3
<1>9. g * m \in Nat /\ g * k \in Nat /\ g * k > 0
  OBVIOUS
<1>10. g * h \in CommonDivisors(g * m, g * k)
  BY <1>4, <1>6, <1>8, <1>9 DEF CommonDivisors
<1>11. g * h <= g
  BY <1>9, <1>10, GcdProperty
<1>12. h <= 1
  BY <1>1, <1>11
<1> QED BY <1>1, <1>12 DEF h

---------------------------------------------------------------------------
(***************************************************************************)
(* A number that fits is its absolute value or the negative of it; what a  *)
(* divisor makes of one makes the same of the other.                       *)
(***************************************************************************)
LEMMA SizeDivided ==
  ASSUME NEW n \in Int, NEW g \in Nat, g > 0, Size(n) % g = 0
  PROVE  /\ n \div g \in Int /\ n = g * (n \div g)
         /\ Size(n) = g * Size(n \div g) /\ Size(n \div g) \in Nat
         /\ Size(n \div g) <= Size(n)
<1> DEFINE q == Size(n) \div g
<1>1. q \in Int /\ Size(n) = g * q
  BY Divides DEF Size
<1>2. q >= 0
  BY <1>1 DEF Size
<1> HIDE DEF q
<1>3. CASE n < 0
  <2>1. n = g * (-q)
    BY <1>1, <1>3 DEF Size
  <2>2. n \div g = -q
    BY <1>1, <2>1, Multiple
  <2>3. Size(-q) = q
    BY <1>1, <1>2 DEF Size
  <2>4. q <= g * q
    BY <1>1, <1>2
  <2> QED BY <1>1, <1>2, <2>1, <2>2, <2>3, <2>4
<1>4. CASE n >= 0
  <2>1. n = g * q
    BY <1>1, <1>4 DEF Size
  <2>2. n \div g = q
    BY <1>1, <2>1, Multiple
  <2>3. Size(q) = q
    BY <1>1, <1>2 DEF Size
  <2>4. q <= g * q
    BY <1>1, <1>2
  <2> QED BY <1>1, <1>2, <2>1, <2>2, <2>3, <2>4
<1> QED BY <1>3, <1>4

---------------------------------------------------------------------------
(***************************************************************************)
(* r is the exact result n / d, or the operation was refused.              *)
(***************************************************************************)
ExactOrRefused(r, n, d) == r = Refused \/ (r \in Numbers /\ Equals(r, n, d))

LEMMA NumbersAre ==
  ASSUME NEW r \in Numbers
  PROVE  /\ r.num \in Int /\ r.den \in Nat /\ r.den > 0 /\ r # Refused
         /\ Fits(r.num) /\ Fits(r.den)
  BY DEF Numbers, Refused

(***************************************************************************)
(* solve_rat_make: the quotient of two whole numbers.                      *)
(***************************************************************************)
THEOREM RatMakeExact ==
  ASSUME NEW num \in Int, NEW den \in Int
  PROVE  ExactOrRefused(rat_make(num, den), num, den)
<1>1. CASE den = 0 \/ ~Fits(num) \/ ~Fits(den)
  BY <1>1 DEF rat_make, ExactOrRefused
<1>2. CASE ~(den = 0 \/ ~Fits(num) \/ ~Fits(den))
  <2> DEFINE sign == IF den < 0 THEN -1 ELSE 1
             g == gcd(Size(num), Size(den))
             n == sign * num
             d == sign * den
             r == [num |-> n \div g, den |-> d \div g]
  <2>1. /\ Size(num) \in Nat /\ Size(den) \in Nat /\ Size(den) > 0
        /\ sign \in {-1, 1} /\ n \in Int /\ d \in Nat /\ d > 0 /\ Size(d) = Size(den)
        /\ Size(n) = Size(num)
    BY <1>2 DEF Size
  <2>2. g \in Nat /\ g > 0 /\ Size(num) % g = 0 /\ Size(den) % g = 0
    BY <2>1, GcdProperty
  <2>3. rat_make(num, den) = r
    BY <1>2 DEF rat_make
  <2> HIDE DEF g, n, d
  <2>4. /\ n \div g \in Int /\ n = g * (n \div g)
        /\ Size(n) = g * Size(n \div g) /\ Size(n \div g) \in Nat /\ Size(n \div g) <= Size(n)
    BY <2>1, <2>2, SizeDivided
  <2>5. /\ d \div g \in Int /\ d = g * (d \div g)
        /\ Size(d) = g * Size(d \div g) /\ Size(d \div g) \in Nat /\ Size(d \div g) <= Size(d)
    BY <2>1, <2>2, SizeDivided
  <2>6. d \div g > 0 /\ Size(d \div g) = d \div g
    BY <2>1, <2>2, <2>5 DEF Size
  <2>7. Fits(n \div g) /\ Fits(d \div g)
    BY <1>2, <2>1, <2>4, <2>5, RatAssumption DEF Fits
  <2>8. gcd(Size(n \div g), d \div g) = 1
    <3>1. g = gcd(g * Size(n \div g), g * (d \div g))
      BY <2>1, <2>4, <2>5, <2>6 DEF g
    <3> QED BY <2>2, <2>4, <2>5, <2>6, <3>1, LowestTerms
  <2>9. r \in Numbers
    BY <2>4, <2>5, <2>6, <2>7, <2>8 DEF Numbers
  <2>10. (n \div g) * den = num * (d \div g)
    <3> DEFINE x == n \div g
               y == d \div g
    <3>1. x \in Int /\ y \in Int /\ n = g * x /\ d = g * y
      BY <2>4, <2>5
    <3> HIDE DEF x, y
    <3>2. sign * num = g * x /\ sign * den = g * y
      BY <3>1 DEF n, d
    <3>3. x * (sign * den) = (sign * num) * y
      BY <2>2, <3>1, <3>2
    <3>4. sign = 1 \/ sign = -1
      OBVIOUS
    <3> HIDE DEF sign
    <3>5. x * den = num * y
      BY <3>1, <3>3, <3>4
    <3> QED BY <3>5 DEF x, y
  <2> QED BY <2>3, <2>9, <2>10 DEF ExactOrRefused, Equals
<1> QED BY <1>1, <1>2

---------------------------------------------------------------------------
(***************************************************************************)
(* solve_rat_mul: the factors common to a numerator and the other          *)
(* denominator are divided out before the products are formed.             *)
(***************************************************************************)
THEOREM RatMulExact ==
  ASSUME NEW a \in Numbers, NEW b \in Numbers
  PROVE  ExactOrRefused(rat_mul(a, b), a.num * b.num, a.den * b.den)
<1> DEFINE g1 == gcd(Size(a.num), b.den)
           g2 == gcd(Size(b.num), a.den)
           an == a.num \div g1
           bd == b.den \div g1
           bn == b.num \div g2
           ad == a.den \div g2
           r == rat_make(an * bn, ad * bd)
<1>1. /\ a.num \in Int /\ a.den \in Nat /\ a.den > 0 /\ a # Refused
      /\ b.num \in Int /\ b.den \in Nat /\ b.den > 0 /\ b # Refused
      /\ Size(a.num) \in Nat /\ Size(b.num) \in Nat
  BY NumbersAre DEF Size
<1>2. CASE Fits(an * bn) /\ Fits(ad * bd)
  <2>1. rat_mul(a, b) = r
    BY <1>1, <1>2 DEF rat_mul
  <2>2. /\ g1 \in Nat /\ g1 > 0 /\ Size(a.num) % g1 = 0 /\ b.den % g1 = 0
    BY <1>1, GcdProperty
  <2>3. /\ g2 \in Nat /\ g2 > 0 /\ Size(b.num) % g2 = 0 /\ a.den % g2 = 0
    BY <1>1, GcdProperty
  <2> HIDE DEF g1, g2
  <2>4. an \in Int /\ a.num = g1 * an
    BY <1>1, <2>2, SizeDivided
  <2>5. bn \in Int /\ b.num = g2 * bn
    BY <1>1, <2>3, SizeDivided
  <2>6. bd \in Int /\ b.den = g1 * bd /\ ad \in Int /\ a.den = g2 * ad
    <3>1. b.den \in Int /\ a.den \in Int /\ g1 \in Nat \ {0} /\ g2 \in Nat \ {0}
      BY <1>1, <2>2, <2>3
    <3>2. b.den \div g1 \in Int /\ b.den = g1 * (b.den \div g1)
      BY <2>2, <3>1, Divides
    <3>3. a.den \div g2 \in Int /\ a.den = g2 * (a.den \div g2)
      BY <2>3, <3>1, Divides
    <3> QED BY <3>2, <3>3
  <2> HIDE DEF an, bn, ad, bd
  <2>7. an * bn \in Int /\ ad * bd \in Int
    BY <2>4, <2>5, <2>6
  <2>8. ExactOrRefused(r, an * bn, ad * bd)
    BY <2>7, RatMakeExact
  <2> HIDE DEF r
  <2>9. CASE r \in Numbers /\ Equals(r, an * bn, ad * bd)
    <3>1. r.num \in Int /\ r.den \in Int /\ r.num * (ad * bd) = (an * bn) * r.den
      BY <2>9, NumbersAre DEF Equals
    <3>2. (g1 * g2) * (r.num * (ad * bd)) = (g1 * g2) * ((an * bn) * r.den)
      BY <3>1
    <3>3. (g1 * g2) * (r.num * (ad * bd)) = r.num * ((g2 * ad) * (g1 * bd))
      BY <2>2, <2>3, <2>6, <3>1
    <3>4. (g1 * g2) * ((an * bn) * r.den) = ((g1 * an) * (g2 * bn)) * r.den
      BY <2>2, <2>3, <2>4, <2>5, <3>1
    <3>5. r.num * (a.den * b.den) = (a.num * b.num) * r.den
      BY <2>4, <2>5, <2>6, <3>2, <3>3, <3>4
    <3> QED BY <2>1, <2>9, <3>5 DEF ExactOrRefused, Equals
  <2> QED BY <2>1, <2>8, <2>9 DEF ExactOrRefused
<1>3. CASE ~(Fits(an * bn) /\ Fits(ad * bd))
  <2>1. rat_mul(a, b) = Refused
    BY <1>3 DEF rat_mul
  <2> QED BY <2>1 DEF ExactOrRefused
<1> QED BY <1>2, <1>3

LEMMA Spread ==
  ASSUME NEW g \in Int, NEW m \in Int, NEW n \in Int, NEW x \in Int, NEW y \in Int, NEW d \in Int
  PROVE  g * ((m * x + n * y) * d) = (m * (g * x) + n * (g * y)) * d
  OBVIOUS

(***************************************************************************)
(* solve_rat_add: over the least common denominator.                       *)
(***************************************************************************)
THEOREM RatAddExact ==
  ASSUME NEW a \in Numbers, NEW b \in Numbers
  PROVE  ExactOrRefused(rat_add(a, b), a.num * b.den + b.num * a.den, a.den * b.den)
<1> DEFINE g == gcd(a.den, b.den)
           ad == a.den \div g
           bd == b.den \div g
           first == a.num * bd
           second == b.num * ad
           r == rat_make(first + second, ad * b.den)
<1>1. /\ a.num \in Int /\ a.den \in Nat /\ a.den > 0 /\ a # Refused
      /\ b.num \in Int /\ b.den \in Nat /\ b.den > 0 /\ b # Refused
  BY NumbersAre
<1>2. CASE \A n \in {first, second, first + second, ad * b.den} : Fits(n)
  <2>1. rat_add(a, b) = r
    BY <1>1, <1>2 DEF rat_add
  <2>2. g \in Nat /\ g > 0 /\ a.den % g = 0 /\ b.den % g = 0
    BY <1>1, GcdProperty
  <2> HIDE DEF g
  <2>3. bd \in Int /\ b.den = g * bd /\ ad \in Int /\ a.den = g * ad
    <3>1. b.den \in Int /\ a.den \in Int /\ g \in Nat \ {0}
      BY <1>1, <2>2
    <3>2. b.den \div g \in Int /\ b.den = g * (b.den \div g)
      BY <2>2, <3>1, Divides
    <3>3. a.den \div g \in Int /\ a.den = g * (a.den \div g)
      BY <2>2, <3>1, Divides
    <3> QED BY <3>2, <3>3
  <2> HIDE DEF ad, bd
  <2>4. first + second \in Int /\ ad * b.den \in Int
    BY <1>1, <2>3
  <2>5. ExactOrRefused(r, first + second, ad * b.den)
    BY <2>4, RatMakeExact
  <2> HIDE DEF r
  <2>6. CASE r \in Numbers /\ Equals(r, first + second, ad * b.den)
    <3>1. r.num \in Int /\ r.den \in Int
          /\ r.num * (ad * b.den) = (a.num * bd + b.num * ad) * r.den
      BY <2>6, NumbersAre DEF Equals
    <3>2. g * (r.num * (ad * b.den)) = g * ((a.num * bd + b.num * ad) * r.den)
      BY <3>1
    <3>3. g * (r.num * (ad * b.den)) = r.num * ((g * ad) * b.den)
      BY <1>1, <2>2, <2>3, <3>1
    <3>4. g * ((a.num * bd + b.num * ad) * r.den) = (a.num * (g * bd) + b.num * (g * ad)) * r.den
      <4>1. /\ g \in Int /\ a.num \in Int /\ b.num \in Int
            /\ bd \in Int /\ ad \in Int /\ r.den \in Int
        BY <1>1, <2>2, <2>3, <3>1
      <4> QED BY ONLY <4>1, Spread
    <3>5. r.num * (a.den * b.den) = (a.num * b.den + b.num * a.den) * r.den
      BY <2>3, <3>2, <3>3, <3>4
    <3> QED BY <2>1, <2>6, <3>5 DEF ExactOrRefused, Equals
  <2> QED BY <2>1, <2>5, <2>6 DEF ExactOrRefused
<1>3. CASE ~(\A n \in {first, second, first + second, ad * b.den} : Fits(n))
  <2>1. rat_add(a, b) = Refused
    BY <1>3 DEF rat_add
  <2> QED BY <2>1 DEF ExactOrRefused
<1> QED BY <1>2, <1>3

---------------------------------------------------------------------------
(***************************************************************************)
(* solve_rat_neg, and with it solve_rat_sub: an operand that is refused    *)
(* refuses the result.                                                     *)
(***************************************************************************)
THEOREM RatNegExact ==
  ASSUME NEW a \in Numbers
  PROVE  ExactOrRefused(rat_neg(a), -a.num, a.den)
<1>1. a.num \in Int /\ a.den \in Int /\ -a.num \in Int
  BY NumbersAre
<1>2. ExactOrRefused(rat_make(-a.num, a.den), -a.num, a.den)
  BY <1>1, RatMakeExact
<1> QED BY <1>2 DEF rat_neg, ExactOrRefused

THEOREM RatSubExact ==
  ASSUME NEW a \in Numbers, NEW b \in Numbers
  PROVE  ExactOrRefused(rat_sub(a, b), a.num * b.den - b.num * a.den, a.den * b.den)
<1> DEFINE c == rat_neg(b)
           r == rat_add(a, c)
<1>1. ExactOrRefused(c, -b.num, b.den)
  BY RatNegExact
<1> HIDE DEF c
<1>2. CASE c = Refused
  BY <1>2 DEF rat_sub, rat_add, ExactOrRefused, c
<1>3. CASE c \in Numbers /\ Equals(c, -b.num, b.den)
  <2>1. ExactOrRefused(r, a.num * c.den + c.num * a.den, a.den * c.den)
    BY <1>3, RatAddExact
  <2>2. rat_sub(a, b) = r
    BY DEF rat_sub, c
  <2> HIDE DEF r
  <2>3. CASE r \in Numbers /\ Equals(r, a.num * c.den + c.num * a.den, a.den * c.den)
    <3>1. /\ a.num \in Int /\ a.den \in Int /\ b.num \in Int /\ b.den \in Int
          /\ c.num \in Int /\ c.den \in Int /\ c.den # 0 /\ r.num \in Int /\ r.den \in Int
      BY <1>3, <2>3, NumbersAre
    <3>2. c.num * b.den = (-b.num) * c.den
      BY <1>3 DEF Equals
    <3>3. r.num * (a.den * c.den) = (a.num * c.den + c.num * a.den) * r.den
      BY <2>3 DEF Equals
    <3>4. c.den * (r.num * (a.den * b.den)) = b.den * (r.num * (a.den * c.den))
      BY <3>1
    <3>5. b.den * ((a.num * c.den + c.num * a.den) * r.den)
            = (a.num * c.den * b.den + (c.num * b.den) * a.den) * r.den
      BY <3>1
    <3>6. (a.num * c.den * b.den + ((-b.num) * c.den) * a.den) * r.den
            = c.den * ((a.num * b.den - b.num * a.den) * r.den)
      BY <3>1
    <3>7. c.den * (r.num * (a.den * b.den)) = c.den * ((a.num * b.den - b.num * a.den) * r.den)
      BY <3>2, <3>3, <3>4, <3>5, <3>6
    <3> DEFINE u == r.num * (a.den * b.den)
               v == (a.num * b.den - b.num * a.den) * r.den
    <3>8. u \in Int /\ v \in Int /\ c.den * u = c.den * v
      BY <3>1, <3>7
    <3> HIDE DEF u, v
    <3>9. u = v
      BY <3>1, <3>8
    <3> QED BY <2>2, <2>3, <3>9 DEF ExactOrRefused, Equals, u, v
  <2> QED BY <2>1, <2>2, <2>3 DEF ExactOrRefused
<1> QED BY <1>1, <1>2, <1>3 DEF ExactOrRefused

(***************************************************************************)
(* solve_rat_div: by the reciprocal, refused when the divisor is zero.     *)
(***************************************************************************)
THEOREM RatDivExact ==
  ASSUME NEW a \in Numbers, NEW b \in Numbers
  PROVE  /\ b.num = 0 => rat_div(a, b) = Refused
         /\ ExactOrRefused(rat_div(a, b), a.num * b.den, a.den * b.num)
<1> DEFINE c == rat_make(b.den, b.num)
           r == rat_mul(a, c)
<1>1. CASE b.num = 0
  BY <1>1 DEF rat_div, ExactOrRefused
<1>2. CASE b.num # 0
  <2>1. /\ a.num \in Int /\ a.den \in Int /\ a # Refused
        /\ b.num \in Int /\ b.den \in Int /\ b.den > 0 /\ b # Refused
    BY NumbersAre
  <2>2. ExactOrRefused(c, b.den, b.num)
    BY <2>1, RatMakeExact
  <2>3. rat_div(a, b) = r
    BY <1>2, <2>1 DEF rat_div
  <2> HIDE DEF c
  <2>4. CASE c = Refused
    BY <2>3, <2>4 DEF rat_mul, ExactOrRefused
  <2>5. CASE c \in Numbers /\ Equals(c, b.den, b.num)
    <3>1. ExactOrRefused(r, a.num * c.num, a.den * c.den)
      BY <2>5, RatMulExact
    <3> HIDE DEF r
    <3>2. CASE r \in Numbers /\ Equals(r, a.num * c.num, a.den * c.den)
      <4>1. /\ c.num \in Int /\ c.den \in Int /\ c.den # 0 /\ r.num \in Int /\ r.den \in Int
        BY <2>5, <3>2, NumbersAre
      <4>2. c.num * b.num = b.den * c.den
        BY <2>5 DEF Equals
      <4>3. r.num * (a.den * c.den) = (a.num * c.num) * r.den
        BY <3>2 DEF Equals
      <4>4. c.den * (r.num * (a.den * b.num)) = b.num * (r.num * (a.den * c.den))
        BY <2>1, <4>1
      <4>5. b.num * ((a.num * c.num) * r.den) = (a.num * (c.num * b.num)) * r.den
        BY <2>1, <4>1
      <4>6. (a.num * (b.den * c.den)) * r.den = c.den * ((a.num * b.den) * r.den)
        BY <2>1, <4>1
      <4> DEFINE u == r.num * (a.den * b.num)
                 v == (a.num * b.den) * r.den
      <4>7. u \in Int /\ v \in Int /\ c.den * u = c.den * v
        BY <2>1, <4>1, <4>2, <4>3, <4>4, <4>5, <4>6
      <4> HIDE DEF u, v
      <4>8. u = v
        BY <4>1, <4>7
      <4> QED BY <1>2, <2>3, <3>2, <4>8 DEF ExactOrRefused, Equals, u, v
    <3> QED BY <1>2, <2>3, <3>1, <3>2 DEF ExactOrRefused
  <2> QED BY <2>2, <2>4, <2>5 DEF ExactOrRefused
<1> QED BY <1>1, <1>2

-----------------------------------------------------------------------------
(***************************************************************************)
(* The integer arithmetic of the bare build, for words of every even       *)
(* number of bits.  First induction up to a number, in a form that needs   *)
(* no operator: a set of numbers that has 0 and with a number the next one *)
(* has them all; and a function given by a recursion exists.               *)
(***************************************************************************)
LEMMA NatLeast ==
  ASSUME NEW S \in SUBSET Nat, S # {}
  PROVE  \E i \in S : \A j \in S : i <= j
<1> DEFINE Rel == {p \in Nat \X Nat : p[1] < p[2]}
<1>1. IsWellFoundedOn(Rel, Nat)
  BY NatLessThanWellFounded DEF OpToRel
<1>2. \E i \in S : \A j \in S : <<j, i>> \notin Rel
  <2> HIDE DEF Rel
  <2> QED
    BY <1>1, WFMin
<1>3. ASSUME NEW i \in S, NEW j \in S, <<j, i>> \notin Rel PROVE i <= j
  <2>1. <<j, i>> \in Nat \X Nat /\ i \in Nat /\ j \in Nat
    OBVIOUS
  <2>2. ~(j < i)
    BY <1>3, <2>1
  <2> QED
    BY <2>1, <2>2
<1> QED
  BY <1>2, <1>3

Steps(S, n) == \A k \in 0 .. n - 1 : k \in S => k + 1 \in S

LEMMA UpTo ==
  ASSUME NEW n \in Nat, NEW S, 0 \in S, Steps(S, n)
  PROVE  \A k \in 0 .. n : k \in S
<1> DEFINE Bad == (0 .. n) \ S
<1> SUFFICES ASSUME Bad # {} PROVE FALSE
  OBVIOUS
<1>1. PICK k \in Bad : \A j \in Bad : k <= j
  <2>1. Bad \in SUBSET Nat
    OBVIOUS
  <2> HIDE DEF Bad
  <2> QED
    BY <2>1, NatLeast
<1>2. k \in 1 .. n /\ k - 1 \in 0 .. n - 1 /\ k - 1 \notin Bad
  BY <1>1
<1>3. k - 1 \in S
  BY <1>2
<1> QED
  BY <1>1, <1>2, <1>3 DEF Steps

Recursive(Y, n, base, g, A) ==
  Y \in [0 .. n -> A] /\ Y[0] = base /\ \A i \in 1 .. n : Y[i] = g[<<i, Y[i - 1]>>]

LEMMA RecursionExists ==
  ASSUME NEW A, NEW n \in Nat, NEW base \in A, NEW g \in [(1 .. n) \X A -> A]
  PROVE  \E Y : Recursive(Y, n, base, g, A)
<1> DEFINE T == {k \in 0 .. n : \E Y : Recursive(Y, k, base, g, A)}
<1>1. 0 \in T
  <2> DEFINE Y == [k \in 0 .. 0 |-> base]
  <2>1. Recursive(Y, 0, base, g, A)
    BY DEF Recursive
  <2> HIDE DEF Y
  <2> QED
    BY <2>1
<1>2. ASSUME NEW k \in 0 .. n - 1, k \in T PROVE k + 1 \in T
  <2>1. PICK Y : Recursive(Y, k, base, g, A)
    BY <1>2
  <2> DEFINE X == [i \in 0 .. k + 1 |-> IF i = k + 1 THEN g[<<k + 1, Y[k]>>] ELSE Y[i]]
  <2>2. g[<<k + 1, Y[k]>>] \in A
    <3>1. k + 1 \in 1 .. n /\ Y[k] \in A
      BY <2>1 DEF Recursive
    <3> QED
      BY <3>1
  <2>3. X \in [0 .. k + 1 -> A] /\ X[0] = base
    BY <2>1, <2>2 DEF Recursive
  <2>4. ASSUME NEW i \in 1 .. k + 1 PROVE X[i] = g[<<i, X[i - 1]>>]
    <3>1. CASE i = k + 1
      <4>1. i - 1 = k /\ k \in 0 .. k + 1 /\ k # k + 1
        BY <3>1
      <4> QED
        BY <3>1, <4>1
    <3>2. CASE i # k + 1
      <4>1. i \in 1 .. k /\ i - 1 \in 0 .. k + 1 /\ i - 1 # k + 1
        BY <3>2
      <4> QED
        BY <2>1, <3>2, <4>1 DEF Recursive
    <3> QED
      BY <3>1, <3>2
  <2>5. Recursive(X, k + 1, base, g, A)
    BY <2>3, <2>4 DEF Recursive
  <2>6. k + 1 \in 0 .. n
    OBVIOUS
  <2> HIDE DEF X
  <2> QED
    BY <2>5, <2>6
<1>3. n \in T
  <2> HIDE DEF T
  <2>1. Steps(T, n)
    BY <1>2 DEF Steps
  <2> QED
    BY <1>1, <2>1, UpTo
<1> QED
  BY <1>3

\* Two solutions agree as far as both go.
LEMMA RecursionAgrees ==
  ASSUME NEW A, NEW n \in Nat, NEW m \in Nat, n <= m, NEW base, NEW g, NEW Y, NEW X,
         Recursive(Y, n, base, g, A), Recursive(X, m, base, g, A)
  PROVE  Y[n] = X[n]
<1> DEFINE T == {k \in 0 .. n : Y[k] = X[k]}
<1>1. 0 \in T
  BY DEF Recursive
<1>2. ASSUME NEW k \in 0 .. n - 1, k \in T PROVE k + 1 \in T
  <2>1. k + 1 \in 1 .. n /\ k + 1 \in 1 .. m /\ (k + 1) - 1 = k
    OBVIOUS
  <2>2. Y[k + 1] = g[<<k + 1, Y[k]>>] /\ X[k + 1] = g[<<k + 1, X[k]>>]
    BY <2>1 DEF Recursive
  <2>3. Y[k] = X[k] /\ k + 1 \in 0 .. n
    BY <1>2
  <2> QED
    BY <2>2, <2>3
<1>3. n \in T
  <2> HIDE DEF T
  <2>1. Steps(T, n)
    BY <1>2 DEF Steps
  <2> QED
    BY <1>1, <2>1, UpTo
<1> QED
  BY <1>3

LEMMA Pow2Is ==
  /\ \A k \in Nat : Pow2[k] \in Nat /\ Pow2[k] > 0 /\ Pow2[k + 1] = 2 * Pow2[k]
  /\ Pow2[0] = 1
<1> DEFINE g == [p \in Nat \X Nat |-> 2 * p[2]]
           Eq(Y) == Y = [k \in Nat |-> IF k = 0 THEN 1 ELSE 2 * Y[k - 1]]
           P(n) == CHOOSE Y : Recursive(Y, n, 1, g, Nat)
           X == [k \in Nat |-> P(k)[k]]
<1>1. ASSUME NEW n \in Nat PROVE Recursive(P(n), n, 1, g, Nat)
  <2> DEFINE h == [p \in (1 .. n) \X Nat |-> 2 * p[2]]
  <2>1. h \in [(1 .. n) \X Nat -> Nat] /\ 1 \in Nat
    OBVIOUS
  <2> HIDE DEF h
  <2>2. PICK Y : Recursive(Y, n, 1, h, Nat)
    BY <2>1, RecursionExists
  <2>3. ASSUME NEW i \in 1 .. n PROVE h[<<i, Y[i - 1]>>] = g[<<i, Y[i - 1]>>]
    <3>1. Y[i - 1] \in Nat /\ i \in Nat
      BY <2>2 DEF Recursive
    <3> QED
      BY <3>1 DEF h
  <2>4. Recursive(Y, n, 1, g, Nat)
    <3> HIDE DEF g
    <3> QED
      BY <2>2, <2>3 DEF Recursive
  <2> HIDE DEF g
  <2> QED
    BY <2>4
<1> HIDE DEF P
<1>2. X[0] = 1 /\ \A k \in Nat : X[k] \in Nat
  <2> HIDE DEF g
  <2> QED
    BY <1>1 DEF Recursive
<1>3. ASSUME NEW k \in Nat \ {0} PROVE X[k] = 2 * X[k - 1]
  <2>1. k - 1 \in Nat /\ k - 1 <= k /\ k \in 1 .. k /\ k \in Nat /\ k - 1 \in 0 .. k
    OBVIOUS
  <2>2. Recursive(P(k), k, 1, g, Nat) /\ Recursive(P(k - 1), k - 1, 1, g, Nat)
    BY <1>1, <2>1
  <2>3. P(k - 1)[k - 1] = P(k)[k - 1]
    <3> HIDE DEF g
    <3> QED
      BY <2>1, <2>2, RecursionAgrees
  <2>4. P(k)[k] = g[<<k, P(k)[k - 1]>>] /\ P(k)[k - 1] \in Nat
    <3> HIDE DEF g
    <3> QED
      BY <2>1, <2>2 DEF Recursive
  <2>5. g[<<k, P(k)[k - 1]>>] = 2 * P(k)[k - 1]
    BY <2>4
  <2> HIDE DEF g
  <2> QED
    BY <2>1, <2>3, <2>4, <2>5
<1>4. Eq(X)
  <2> HIDE DEF g
  <2>1. X = [k \in Nat |-> X[k]]
    OBVIOUS
  <2> HIDE DEF X
  <2> QED
    BY <1>2, <1>3, <2>1
<1>5. Eq(Pow2)
  <2>1. Pow2 = CHOOSE Y : Eq(Y)
    BY DEF Pow2
  <2> HIDE DEF Eq, X
  <2> QED
    BY <1>4, <2>1
<1> HIDE DEF X
<1>6. Pow2[0] = 1 /\ \A k \in Nat : Pow2[k + 1] = 2 * Pow2[k]
  <2>1. \A k \in Nat : k + 1 \in Nat /\ k + 1 # 0 /\ (k + 1) - 1 = k
    OBVIOUS
  <2> QED
    BY <1>5, <2>1
<1>7. ASSUME NEW n \in Nat PROVE Pow2[n] \in Nat /\ Pow2[n] > 0
  <2> DEFINE T == {k \in Nat : Pow2[k] \in Nat /\ Pow2[k] > 0}
  <2>1. 0 \in T
    BY <1>6
  <2>2. ASSUME NEW k \in 0 .. n - 1, k \in T PROVE k + 1 \in T
    BY <1>6, <2>2
  <2> HIDE DEF T
  <2>3. Steps(T, n)
    BY <2>2 DEF Steps
  <2>4. n \in T
    BY <2>1, <2>3, UpTo
  <2> QED
    BY <2>4 DEF T
<1> QED
  BY <1>6, <1>7

LEMMA Pow2Sum ==
  ASSUME NEW a \in Nat, NEW b \in Nat
  PROVE  Pow2[a + b] = Pow2[a] * Pow2[b]
<1> DEFINE T == {k \in Nat : Pow2[a + k] = Pow2[a] * Pow2[k]}
<1>1. 0 \in T
  <2>1. a + 0 = a /\ Pow2[a] \in Nat /\ Pow2[0] = 1
    BY Pow2Is
  <2>2. Pow2[a] * 1 = Pow2[a]
    BY <2>1
  <2> QED
    BY <2>1, <2>2
<1>2. ASSUME NEW k \in 0 .. b - 1, k \in T PROVE k + 1 \in T
  <2>1. a + k \in Nat /\ k \in Nat /\ k + 1 \in Nat /\ a + (k + 1) = (a + k) + 1
    OBVIOUS
  <2>2. Pow2[a + (k + 1)] = 2 * Pow2[a + k] /\ Pow2[k + 1] = 2 * Pow2[k]
    BY <2>1, Pow2Is
  <2>3. Pow2[a] \in Nat /\ Pow2[k] \in Nat /\ Pow2[a + k] = Pow2[a] * Pow2[k]
    BY <1>2, <2>1, Pow2Is
  <2>4. 2 * (Pow2[a] * Pow2[k]) = Pow2[a] * (2 * Pow2[k])
    BY <2>3
  <2> QED
    BY <2>1, <2>2, <2>3, <2>4
<1> HIDE DEF T
<1>3. Steps(T, b)
  BY <1>2 DEF Steps
<1>4. b \in T
  BY <1>1, <1>3, UpTo
<1> QED
  BY <1>4 DEF T

-----------------------------------------------------------------------------
(***************************************************************************)
(* Remainders, and the sizes of words.                                     *)
(***************************************************************************)
LEMMA QuotientIs ==
  ASSUME NEW w \in Nat \ {0}, NEW x \in Int, NEW k \in Int, NEW r \in 0 .. w - 1, x = w * k + r
  PROVE  x \div w = k /\ x % w = r
<1> DEFINE c == x % w
           e == x \div w
           p == e - k
<1>1. c \in 0 .. w - 1 /\ e \in Int /\ x = w * e + c
  OBVIOUS
<1> HIDE DEF c, e
<1>2. p \in Int /\ w * p = r - c
  <2>1. w * p = w * e - w * k /\ w * e \in Int /\ w * k \in Int
    BY <1>1
  <2> QED
    BY <1>1, <2>1
<1> HIDE DEF p
<1>3. p >= 1 => w * p >= w
  <2> SUFFICES ASSUME p >= 1 PROVE w * p >= w
    OBVIOUS
  <2>1. p - 1 \in Nat /\ w * (p - 1) = w * p - w /\ w * p \in Int
    BY <1>2
  <2>2. w * (p - 1) >= 0
    BY <2>1
  <2> QED
    BY <2>1, <2>2
<1>4. p <= -1 => w * p <= -w
  <2> SUFFICES ASSUME p <= -1 PROVE w * p <= -w
    OBVIOUS
  <2>1. -1 - p \in Nat /\ w * (-1 - p) = -w - w * p /\ w * p \in Int
    BY <1>2
  <2>2. w * (-1 - p) >= 0
    BY <2>1
  <2> QED
    BY <2>1, <2>2
<1>5. p = 0
  BY <1>1, <1>2, <1>3, <1>4
<1>6. e = k /\ c = r
  BY <1>1, <1>2, <1>5 DEF p
<1> QED
  BY <1>6 DEF c, e

LEMMA RemainderOf ==
  ASSUME NEW w \in Nat \ {0}, NEW x \in Int
  PROVE  x % w \in 0 .. w - 1 /\ x \div w \in Int /\ x = w * (x \div w) + (x % w)
         /\ (x >= 0 => x \div w \in Nat)
OBVIOUS

LEMMA WholeTurns ==
  ASSUME NEW w \in Nat \ {0}, NEW y \in Int, NEW q \in Int
  PROVE  (y + w * q) % w = y % w
<1> DEFINE a == y % w
           d == y \div w
<1>1. a \in 0 .. w - 1 /\ d \in Int /\ y = w * d + a
  BY RemainderOf
<1> HIDE DEF a, d
<1>2. y + w * q = w * (d + q) + a /\ d + q \in Int /\ y + w * q \in Int
  BY <1>1
<1>3. (y + w * q) % w = a
  BY <1>1, <1>2, QuotientIs
<1> QED
  BY <1>3 DEF a

\* A number below another stays below it by a whole multiple.
LEMMA ProductBelow ==
  ASSUME NEW a \in Nat, NEW b \in Nat, NEW m \in Nat
  PROVE  /\ a * m \in Nat /\ (a <= b => a * m <= b * m)
         /\ (a < b => a * m + m <= b * m)
         /\ (m > 0 /\ a * m < b * m => a < b)
         /\ (m > 0 => a <= a * m)
<1>1. a * m \in Nat /\ b * m \in Nat /\ (a + 1) * m = a * m + m
  OBVIOUS
<1>2. ASSUME NEW x \in Nat, NEW y \in Nat, x <= y PROVE x * m <= y * m
  <2> DEFINE z == y - x
  <2>1. z \in Nat /\ y = x + z
    BY <1>2
  <2> HIDE DEF z
  <2>2. y * m = x * m + z * m /\ z * m \in Nat /\ x * m \in Nat
    BY <2>1
  <2> QED
    BY <2>2
<1>3. a < b => a * m + m <= b * m
  <2> SUFFICES ASSUME a < b PROVE a * m + m <= b * m
    OBVIOUS
  <2>1. a + 1 \in Nat /\ a + 1 <= b
    OBVIOUS
  <2>2. (a + 1) * m <= b * m
    BY <1>2, <2>1
  <2> QED
    BY <1>1, <2>2
<1>4. m > 0 /\ a * m < b * m => a < b
  <2>1. b <= a => b * m <= a * m
    BY <1>2
  <2> QED
    BY <1>1, <2>1
<1>5. m > 0 => a <= a * m
  <2> SUFFICES ASSUME m > 0 PROVE a <= a * m
    OBVIOUS
  <2>1. m - 1 \in Nat /\ a * m = a * (m - 1) + a /\ a * (m - 1) \in Nat
    OBVIOUS
  <2> QED
    BY <2>1
<1> QED
  BY <1>1, <1>2, <1>3, <1>4, <1>5

Square == Base * Base

LEMMA Sizes ==
  ASSUME IntAssumption
  PROVE  /\ Quarter \in Nat /\ Word \in Nat /\ Word >= 2 /\ Word - 1 \in Nat
         /\ Half \in Nat /\ Half > 0 /\ Base \in Nat /\ Base = 2 * Half /\ Base > 1
         /\ Pow2[Word] = Base /\ Pow2[Quarter] \in Nat /\ Pow2[Quarter] > 0
         /\ Base = Pow2[Quarter] * Pow2[Quarter]
         /\ Square \in Nat /\ Square > 1 /\ Pow2[2 * Word] = Square
         /\ Half * Base \in Nat /\ Half * Base > 0 /\ Pow2[2 * Word - 1] = Half * Base
         /\ Square = 2 * (Half * Base)
<1>1. Quarter \in Nat /\ Word \in Nat /\ Word >= 2 /\ Word - 1 \in Nat /\ Word = (Word - 1) + 1
  BY DEF IntAssumption, Word
<1>2. Half \in Nat /\ Half > 0 /\ Base \in Nat /\ Base = 2 * Half /\ Base > 1 /\ Pow2[Word] = Base
  <2>1. Pow2[Word - 1] \in Nat /\ Pow2[Word - 1] > 0 /\ Pow2[(Word - 1) + 1] = 2 * Pow2[Word - 1]
    BY <1>1, Pow2Is
  <2> QED
    BY <1>1, <2>1 DEF Base, Half
<1>3. Pow2[Quarter] \in Nat /\ Pow2[Quarter] > 0
  BY <1>1, Pow2Is
<1>4. Base = Pow2[Quarter] * Pow2[Quarter]
  <2>1. Word = Quarter + Quarter
    BY <1>1 DEF Word
  <2> QED
    BY <1>1, <2>1, Pow2Sum DEF Base
<1>5. Pow2[2 * Word] = Square
  <2>1. 2 * Word = Word + Word
    BY <1>1
  <2> QED
    BY <1>1, <1>2, <2>1, Pow2Sum DEF Square
<1>6. Pow2[2 * Word - 1] = Half * Base
  <2>1. 2 * Word - 1 = (Word - 1) + Word
    BY <1>1
  <2> QED
    BY <1>1, <1>2, <2>1, Pow2Sum DEF Half
<1>7. Half * Base \in Nat /\ Half * Base > 0 /\ Square = 2 * (Half * Base) /\ Square \in Nat /\ Square > 1
  <2>1. Half <= Half * Base
    BY <1>2, ProductBelow
  <2>2. Half * Base \in Nat /\ (2 * Half) * Base = 2 * (Half * Base)
    BY <1>2
  <2> QED
    BY <1>2, <2>1, <2>2 DEF Square
<1> QED
  BY <1>1, <1>2, <1>3, <1>4, <1>5, <1>6, <1>7

LEMMA LowIs ==
  ASSUME IntAssumption, NEW n \in Int
  PROVE  /\ Low(n) \in 0 .. Base - 1
         /\ n \in 0 .. Base - 1 => Low(n) = n
         /\ n \in Base .. 2 * Base - 1 => Low(n) = n - Base
         /\ n \in -Base .. -1 => Low(n) = n + Base
<1>1. Base \in Nat \ {0}
  BY Sizes
<1>2. Low(n) \in 0 .. Base - 1
  BY <1>1, RemainderOf DEF Low
<1>3. n \in 0 .. Base - 1 => n = Base * 0 + n
  BY <1>1
<1>4. n \in Base .. 2 * Base - 1 => n = Base * 1 + (n - Base) /\ n - Base \in 0 .. Base - 1
  BY <1>1
<1>5. n \in -Base .. -1 => n = Base * (-1) + (n + Base) /\ n + Base \in 0 .. Base - 1
  BY <1>1
<1>6. 0 \in Int /\ 1 \in Int /\ -1 \in Int
  OBVIOUS
<1> QED
  BY <1>1, <1>2, <1>3, <1>4, <1>5, <1>6, QuotientIs DEF Low

-----------------------------------------------------------------------------
(***************************************************************************)
(* Division of a word by a word.  At every place the quotient so far and   *)
(* what is left make up the dividend, and what is left is below the        *)
(* divisor at the place before.                                            *)
(***************************************************************************)
IsQuotientOf(res, n, d) == res.q \in Nat /\ res.r \in Nat /\ res.q * d + res.r = n /\ res.r < d

HighEnough(n, d, p) == d * Pow2[p] > n \/ TopBit(d * Pow2[p])

LEMMA PlacesAre ==
  ASSUME IntAssumption, NEW n \in 0 .. Base - 1, NEW d \in 1 .. Base - 1
  PROVE  Places(n, d) \in 0 .. Word - 1 /\ HighEnough(n, d, Places(n, d))
<1> DEFINE T == {p \in 0 .. Word - 1 : HighEnough(n, d, p)}
           Fit(p) == /\ d * Pow2[p] > n \/ TopBit(d * Pow2[p])
                     /\ \A s \in 0 .. p - 1 : d * Pow2[s] <= n /\ ~TopBit(d * Pow2[s])
<1>1. Word \in Nat /\ Word - 1 \in Nat /\ Half \in Nat /\ Half > 0 /\ Base \in Nat /\ Pow2[Word - 1] = Half
  BY Sizes DEF Half
<1>2. d * Half >= Half
  <2>1. 1 \in Nat /\ d \in Nat /\ 1 <= d
    BY <1>1
  <2>2. 1 * Half <= d * Half
    BY <1>1, <2>1, ProductBelow
  <2> QED
    BY <1>1, <2>2
<1>3. Word - 1 \in T
  BY <1>1, <1>2 DEF HighEnough, TopBit
<1>4. PICK p \in T : \A s \in T : p <= s
  <2>1. T \in SUBSET Nat /\ T # {}
    BY <1>1, <1>3
  <2> HIDE DEF T
  <2> QED
    BY <2>1, NatLeast
<1>5. ASSUME NEW s \in 0 .. p - 1 PROVE d * Pow2[s] <= n /\ ~TopBit(d * Pow2[s])
  <2>1. p \in 0 .. Word - 1 /\ s \in 0 .. Word - 1 /\ ~(p <= s)
    BY <1>1, <1>4
  <2>2. s \notin T
    <3> HIDE DEF T
    <3> QED
      BY <1>4, <2>1
  <2>3. ~HighEnough(n, d, s)
    BY <2>1, <2>2
  <2>4. d * Pow2[s] \in Int /\ n \in Int
    <3>1. Pow2[s] \in Nat
      BY <2>1, Pow2Is
    <3> QED
      BY <1>1, <3>1
  <2> QED
    BY <2>3, <2>4 DEF HighEnough
<1>6. p \in 0 .. Word - 1 /\ Fit(p)
  BY <1>4, <1>5 DEF HighEnough
<1>7. Places(n, d) = CHOOSE x \in 0 .. Word - 1 : Fit(x)
  BY DEF Places
<1> HIDE DEF Fit
<1>8. Places(n, d) \in 0 .. Word - 1 /\ Fit(Places(n, d))
  BY <1>6, <1>7, Zenon
<1> QED
  BY <1>8 DEF Fit, HighEnough

LEMMA WordDivides ==
  ASSUME IntAssumption, NEW n \in 0 .. Base - 1, NEW d \in 1 .. Base - 1
  PROVE  IsQuotientOf(uidivmod(n, d), n, d)
<1>0. /\ Base \in Nat /\ n \in Nat /\ d \in Nat /\ d # 0 /\ d > 0
      /\ Half \in Nat /\ Base = 2 * Half /\ Word \in Nat
  BY Sizes
<1>1. CASE n < d
  <2>1. uidivmod(n, d) = [q |-> 0, r |-> n]
    BY <1>0, <1>1 DEF uidivmod
  <2>2. 0 * d + n = n
    BY <1>0
  <2> QED
    BY <1>0, <1>1, <2>1, <2>2 DEF IsQuotientOf
<1>2. CASE ~(n < d)
  <2> DEFINE places == Places(n, d)
             m == places + 1
             States == [q : Nat, r : Nat]
             Next1(before, p) ==
               IF before.r < d * Pow2[p] THEN before
               ELSE [q |-> before.q + Pow2[p], r |-> before.r - d * Pow2[p]]
             start == [q |-> 0, r |-> n]
             g == [a \in (1 .. m) \X States |-> Next1(a[2], m - a[1])]
             Eq(X) == X = [i \in 0 .. m |-> IF i = 0 THEN start ELSE Next1(X[i - 1], places + 1 - i)]
             Z == CHOOSE X : Eq(X)
  <2>1. places \in Nat /\ m \in Nat /\ HighEnough(n, d, places)
    BY <1>0, PlacesAre
  <2>2. uidivmod(n, d) = Z[m]
    <3>1. uidivmod(n, d) = IF d = 0 THEN [q |-> Low(-1), r |-> n]
                           ELSE IF n < d THEN [q |-> 0, r |-> n] ELSE Z[m]
      BY DEF uidivmod
    <3> HIDE DEF Z
    <3> QED
      BY <1>0, <1>2, <3>1
  <2>3. start \in States
    BY <1>0
  <2>4. ASSUME NEW b \in States, NEW p \in Nat PROVE Next1(b, p) \in States
    <3>1. Pow2[p] \in Nat /\ d * Pow2[p] \in Nat /\ b.q \in Nat /\ b.r \in Nat
      <4>1. Pow2[p] \in Nat
        BY Pow2Is
      <4> QED
        BY <1>0, <4>1
    <3> DEFINE t == d * Pow2[p]
    <3>2. b.r < t \/ b.r - t \in Nat
      BY <3>1
    <3> HIDE DEF t
    <3>3. Next1(b, p) = IF b.r < t THEN b ELSE [q |-> b.q + Pow2[p], r |-> b.r - t]
      BY DEF t
    <3> HIDE DEF Next1
    <3>4. b.q + Pow2[p] \in Nat
      BY <3>1
    <3> QED
      BY <3>2, <3>3, <3>4
  <2> HIDE DEF Next1, start, places
  <2>5. g \in [(1 .. m) \X States -> States]
    <3>1. \A i \in 1 .. m : m - i \in Nat
      BY <2>1
    <3> QED
      BY <2>4, <3>1
  <2>6. PICK X : Recursive(X, m, start, g, States)
    <3> HIDE DEF g, m, States
    <3> QED
      BY <2>1, <2>3, <2>5, RecursionExists
  <2>7. Eq(X)
    <3>1. X = [i \in 0 .. m |-> X[i]] /\ X[0] = start
      BY <2>6 DEF Recursive
    <3>2. ASSUME NEW i \in 1 .. m PROVE X[i] = Next1(X[i - 1], m - i)
      <4>1. X[i] = g[<<i, X[i - 1]>>]
        BY <2>6 DEF Recursive
      <4>2. i - 1 \in 0 .. m
        BY <2>1
      <4>3. X[i - 1] \in States
        BY <2>6, <4>2 DEF Recursive
      <4> QED
        BY <4>1, <4>3
    <3>3. \A i \in 0 .. m : i = 0 \/ (i \in 1 .. m /\ places + 1 - i = m - i)
      BY <2>1
    <3> HIDE DEF g, m
    <3> QED
      BY <3>1, <3>2, <3>3
  <2>8. Eq(Z)
    <3> HIDE DEF Eq
    <3> QED
      BY <2>7, Zenon
  <2> HIDE DEF Z, g
  <2> DEFINE T == {i \in 0 .. m : /\ Z[i].q \in Nat /\ Z[i].r \in Nat /\ Z[i].q * d + Z[i].r = n
                                  /\ Z[i].r < d * Pow2[m - i]}
  <2>9. 0 \in T
    <3>1. Z[0] = start /\ 0 \in 0 .. m
      BY <2>1, <2>8
    <3>2. Pow2[places] \in Nat /\ Pow2[m] = 2 * Pow2[places]
      BY <2>1, Pow2Is
    <3> DEFINE a == Pow2[places]
    <3> HIDE DEF a
    <3>3. d * (2 * a) = 2 * (d * a) /\ d * a \in Nat
      BY <1>0, <3>2 DEF a
    <3>4. n < d * Pow2[m]
      <4>1. d * a > n \/ d * a >= Half
        BY <2>1 DEF HighEnough, TopBit, a
      <4>2. n < Base
        BY <1>0
      <4>3. n < 2 * (d * a)
        BY <1>0, <3>3, <4>1, <4>2
      <4> QED
        BY <3>2, <3>3, <4>3 DEF a
    <3>5. m - 0 = m /\ 0 * d + n = n
      BY <1>0, <2>1
    <3> QED
      BY <1>0, <3>1, <3>4, <3>5 DEF start
  <2>10. ASSUME NEW i \in 1 .. m PROVE Z[i] = Next1(Z[i - 1], m - i)
    <3>1. i \in 0 .. m /\ i # 0 /\ places + 1 - i = m - i
      BY <2>1
    <3> HIDE DEF m
    <3> QED
      BY <2>8, <3>1
  <2>15. ASSUME NEW k \in 0 .. m - 1, k \in T PROVE k + 1 \in T
    <3> DEFINE p == m - (k + 1)
               b == Z[k]
               x == Pow2[p]
    <3>1. k + 1 \in 1 .. m /\ k + 1 \in 0 .. m /\ (k + 1) - 1 = k /\ p \in Nat /\ m - k = p + 1
      BY <2>1
    <3>2. Z[k + 1] = Next1(b, p)
      BY <2>10, <3>1
    <3>3. b.q \in Nat /\ b.r \in Nat /\ b.q * d + b.r = n /\ b.r < d * Pow2[p + 1]
      BY <2>15, <3>1
    <3> HIDE DEF b, T, p
    <3>4. x \in Nat /\ Pow2[p + 1] = 2 * x
      BY <3>1, Pow2Is
    <3>5. Next1(b, p) = IF b.r < d * x THEN b ELSE [q |-> b.q + x, r |-> b.r - d * x]
      BY DEF Next1
    <3> HIDE DEF x
    <3>6. d * x \in Nat /\ d * (2 * x) = d * x + d * x /\ (b.q + x) * d = b.q * d + d * x
          /\ b.q * d \in Nat
      BY <1>0, <3>3, <3>4
    <3>7. LET c == Next1(b, p) IN c.q \in Nat /\ c.r \in Nat /\ c.q * d + c.r = n /\ c.r < d * x
      <4>1. CASE b.r < d * x
        BY <3>3, <3>5, <4>1
      <4>2. CASE ~(b.r < d * x)
        <5>1. Next1(b, p).q = b.q + x /\ Next1(b, p).r = b.r - d * x
          BY <3>5, <4>2
        <5>2. b.q + x \in Nat /\ b.r - d * x \in Nat /\ b.r - d * x < d * x
          BY <3>3, <3>4, <3>6, <4>2
        <5>3. (b.q + x) * d + (b.r - d * x) = n
          BY <1>0, <3>3, <3>6
        <5> QED
          BY <5>1, <5>2, <5>3
      <4> QED
        BY <4>1, <4>2
    <3> QED
      BY <3>1, <3>2, <3>7 DEF T, x, p
  <2> HIDE DEF T
  <2>11. Steps(T, m)
    BY <2>15 DEF Steps
  <2>12. m \in T
    BY <2>1, <2>9, <2>11, UpTo
  <2>13. /\ Z[m].q \in Nat /\ Z[m].r \in Nat /\ Z[m].q * d + Z[m].r = n
         /\ Z[m].r < d * Pow2[m - m]
    BY <2>12 DEF T
  <2>14. d * Pow2[m - m] = d
    <3>1. m - m = 0 /\ Pow2[0] = 1
      BY <2>1, Pow2Is
    <3> QED
      BY <1>0, <3>1
  <2> QED
    BY <2>2, <2>13, <2>14 DEF IsQuotientOf
<1> QED
  BY <1>1, <1>2

-----------------------------------------------------------------------------
(***************************************************************************)
(* Signs are taken off before a division and put on after it.  This is     *)
(* said once, for integers of any even number of values: Two halves of h.  *)
(***************************************************************************)
Complement(n, h) == IF n >= h THEN n - 2 * h ELSE n
Opposite(n, h) == IF n = 0 THEN 0 ELSE 2 * h - n
Unsigned(n, h) == IF n >= h THEN Opposite(n, h) ELSE n
SignedResult(res, n, d, h) ==
  [q |-> IF (n >= h) # (d >= h) THEN Opposite(res.q, h) ELSE res.q,
   r |-> IF n >= h THEN Opposite(res.r, h) ELSE res.r]
\* Divided with the widths as numbers of values.
DividedIn(q, r, n, d, h) ==
  /\ d # 0 => /\ (q * d + r - n) % (2 * h) = 0 /\ Magnitude(r) < Magnitude(d)
              /\ r # 0 => (r < 0) = (n < 0)
              /\ n \in 0 .. 2 * h - 1 \/ q # -h => q * d + r = n
  /\ d = 0 => q \in {-1, 1, 2 * h - 1} /\ r = n

LEMMA SignsOff ==
  ASSUME NEW h \in Nat \ {0}, NEW n \in 0 .. 2 * h - 1
  PROVE  /\ Complement(n, h) \in -h .. h - 1 /\ Unsigned(n, h) \in 0 .. h
         /\ Unsigned(n, h) = IF n >= h THEN -Complement(n, h) ELSE Complement(n, h)
         /\ Complement(n, h) < 0 <=> n >= h
         /\ Unsigned(n, h) = h => n = h
         /\ Opposite(n, h) \in 0 .. 2 * h - 1
BY DEF Complement, Unsigned, Opposite

\* A number no larger than a half, with a sign put on.
LEMMA SignsOn ==
  ASSUME NEW h \in Nat \ {0}, NEW n \in 0 .. h
  PROVE  /\ Complement(Opposite(n, h), h) = -n
         /\ n < h => Complement(n, h) = n
         /\ n = h => Complement(n, h) = -h
BY DEF Complement, Opposite

LEMMA SignedDivides ==
  ASSUME NEW h \in Nat \ {0}, NEW n \in 0 .. 2 * h - 1, NEW d \in 1 .. 2 * h - 1,
         NEW res, IsQuotientOf(res, Unsigned(n, h), Unsigned(d, h))
  PROVE  LET s == SignedResult(res, n, d, h)
         IN  DividedIn(Complement(s.q, h), Complement(s.r, h), Complement(n, h), Complement(d, h), h)
<1> DEFINE s == SignedResult(res, n, d, h)
           q == Complement(s.q, h)
           r == Complement(s.r, h)
           a == Complement(n, h)
           b == Complement(d, h)
           un == Unsigned(n, h)
           ud == Unsigned(d, h)
<1>1. /\ a \in -h .. h - 1 /\ un \in 0 .. h /\ un = (IF n >= h THEN -a ELSE a) /\ (a < 0 <=> n >= h)
      /\ (un = h => n = h)
      /\ b \in -h .. h - 1 /\ ud \in 0 .. h /\ ud = (IF d >= h THEN -b ELSE b) /\ (b < 0 <=> d >= h)
      /\ d \in 0 .. 2 * h - 1
  BY SignsOff
<1>2. res.q \in Nat /\ res.r \in Nat /\ res.q * ud + res.r = un /\ res.r < ud
  BY DEF IsQuotientOf
<1>3. /\ s.q = (IF (n >= h) # (d >= h) THEN Opposite(res.q, h) ELSE res.q)
      /\ s.r = (IF n >= h THEN Opposite(res.r, h) ELSE res.r)
  BY DEF SignedResult
<1>4. b # 0 /\ ud > 0
  BY <1>1 DEF Complement
<1> HIDE DEF s, a, b, un, ud
<1>5. res.q \in 0 .. h /\ res.r \in 0 .. h - 1 /\ res.q * ud \in Nat
  <2>1. res.q <= res.q * ud /\ res.q * ud \in Nat
    BY <1>1, <1>2, <1>4, ProductBelow
  <2> QED
    BY <1>1, <1>2, <2>1
<1>6. r = IF n >= h THEN -res.r ELSE res.r
  BY <1>3, <1>5, SignsOn
<1>7. /\ (n >= h) # (d >= h) => q = -res.q
      /\ (n >= h) = (d >= h) /\ res.q < h => q = res.q
      /\ (n >= h) = (d >= h) /\ res.q = h => q = -h
  BY <1>3, <1>5, SignsOn
<1> DEFINE x == res.q
           y == res.r
<1>8. x \in Nat /\ y \in Nat /\ x <= h /\ y < h /\ x * ud + y = un /\ y < ud /\ x * ud \in Nat
  BY <1>2, <1>5
<1>9. Magnitude(r) < Magnitude(b) /\ (r # 0 => (r < 0) = (a < 0))
  BY <1>1, <1>6, <1>8 DEF Magnitude
<1> HIDE DEF q, r, x, y
<1>10. CASE (n >= h) # (d >= h) \/ x < h
  <2>1. q = IF (n >= h) # (d >= h) THEN -x ELSE x
    BY <1>7, <1>10 DEF x
  <2>2. q * b = IF n >= h THEN -(x * ud) ELSE x * ud
    <3>1. (-x) * (-ud) = x * ud /\ x * (-ud) = -(x * ud) /\ (-x) * ud = -(x * ud)
      BY <1>1, <1>8
    <3>2. b = IF d >= h THEN -ud ELSE ud
      BY <1>1
    <3> QED
      BY <2>1, <3>1, <3>2
  <2>3. q * b + r = a /\ q * b \in Int /\ r \in Int
    BY <1>1, <1>6, <1>8, <2>2 DEF y
  <2>4. (q * b + r - a) % (2 * h) = 0
    <3>1. q * b + r - a = 0
      BY <1>1, <2>3
    <3>2. 0 = (2 * h) * 0 + 0 /\ 0 \in 0 .. 2 * h - 1 /\ 2 * h \in Nat \ {0} /\ 0 \in Int
      OBVIOUS
    <3>3. 0 % (2 * h) = 0
      BY <3>2, QuotientIs
    <3> QED
      BY <3>1, <3>3
  <2> QED
    BY <1>4, <1>9, <2>3, <2>4 DEF DividedIn, s, q, r, a, b
<1>11. CASE (n >= h) = (d >= h) /\ x = h
  <2>1. q = -h
    BY <1>7, <1>11 DEF x
  <2>2. x * ud >= h /\ un = h /\ y = 0 /\ x * ud = h
    <3>1. x <= x * ud
      BY <1>1, <1>4, <1>8, ProductBelow
    <3> QED
      BY <1>1, <1>8, <1>11, <3>1
  <2>3. ud = 1
    <3>1. ud >= 2 => 2 * h <= ud * h
      BY <1>1, ProductBelow
    <3>2. x * ud = ud * h
      BY <1>1, <1>11
    <3> QED
      BY <1>1, <1>4, <2>2, <3>1, <3>2
  <2>4. n = h /\ a = -h /\ b = -1
    BY <1>1, <1>11, <2>2, <2>3
  <2>5. r = 0
    <3>1. r \in Int /\ (r + y = 0 \/ r = y)
      BY <1>6, <1>8 DEF y
    <3> QED
      BY <2>2, <3>1
  <2>6. q * b + r - a = 2 * h /\ a \notin 0 .. 2 * h - 1
    BY <2>1, <2>4, <2>5
  <2>7. (2 * h) % (2 * h) = 0
    <3>1. 2 * h = (2 * h) * 1 + 0 /\ 0 \in 0 .. 2 * h - 1 /\ 2 * h \in Nat \ {0} /\ 1 \in Int /\ 2 * h \in Int
      OBVIOUS
    <3> QED
      BY <3>1, QuotientIs
  <2> QED
    BY <1>4, <1>9, <2>1, <2>6, <2>7 DEF DividedIn, s, q, r, a, b
<1> QED
  BY <1>8, <1>10, <1>11

\* By zero: the unsigned quotient has all bits set, and the dividend is left.
LEMMA SignedByZero ==
  ASSUME NEW h \in Nat \ {0}, NEW n \in 0 .. 2 * h - 1,
         NEW res, res.q = 2 * h - 1, res.r = Unsigned(n, h)
  PROVE  LET s == SignedResult(res, n, 0, h)
         IN  DividedIn(Complement(s.q, h), Complement(s.r, h), Complement(n, h), Complement(0, h), h)
<1> DEFINE s == SignedResult(res, n, 0, h)
<1>1. Complement(0, h) = 0 /\ ~(0 >= h)
  BY DEF Complement
<1>2. /\ s.q = (IF n >= h THEN Opposite(2 * h - 1, h) ELSE 2 * h - 1)
      /\ s.r = (IF n >= h THEN Opposite(Unsigned(n, h), h) ELSE Unsigned(n, h))
  BY <1>1 DEF SignedResult
<1> HIDE DEF s
<1>3. Complement(s.q, h) \in {-1, 1, 2 * h - 1}
  BY <1>2 DEF Complement, Opposite
<1>4. Complement(s.r, h) = Complement(n, h)
  BY <1>2 DEF Complement, Opposite, Unsigned
<1> QED
  BY <1>1, <1>3, <1>4 DEF DividedIn, s

-----------------------------------------------------------------------------
(***************************************************************************)
(* Division of words: uidivmod, idivmod, uidiv and idiv.                   *)
(***************************************************************************)
LEMMA LowOfOpposite ==
  ASSUME IntAssumption, NEW n \in 0 .. Base - 1
  PROVE  Low(-n) = Opposite(n, Half) /\ Opposite(n, Half) \in 0 .. Base - 1
<1>1. Base \in Nat /\ Base > 1 /\ Base = 2 * Half /\ Half \in Nat
  BY Sizes
<1> DEFINE z == -n
<1>2. z \in Int /\ z + n = 0
  BY <1>1
<1> HIDE DEF z
<1>3. CASE n = 0
  <2>1. z = 0 /\ 0 \in 0 .. Base - 1
    BY <1>1, <1>2, <1>3
  <2>2. Low(z) = 0
    BY <2>1, LowIs
  <2> QED
    BY <1>1, <1>3, <2>2 DEF Opposite, z
<1>4. CASE n # 0
  <2>1. z \in -Base .. -1 /\ z + Base = 2 * Half - n
    BY <1>1, <1>2, <1>4
  <2>2. Low(z) = z + Base
    BY <1>2, <2>1, LowIs
  <2>3. 2 * Half - n \in 0 .. Base - 1
    BY <1>1, <1>4
  <2> QED
    BY <1>4, <2>1, <2>2, <2>3 DEF Opposite, z
<1> QED
  BY <1>3, <1>4

LEMMA AllOnes ==
  ASSUME IntAssumption
  PROVE  Low(-1) = Base - 1 /\ -1 \in Int
<1>1. Base \in Nat /\ Base > 1
  BY Sizes
<1>2. -1 \in -Base .. -1 /\ -1 \in Int
  BY <1>1
<1>3. Low(-1) = -1 + Base
  BY <1>2, LowIs
<1> QED
  BY <1>1, <1>2, <1>3

\* What there is to say of a division, in whatever integers it is read.
LEMMA UnsignedDivided ==
  ASSUME NEW h \in Nat \ {0}, NEW bits, Pow2[bits] = 2 * h, Pow2[bits - 1] = h,
         NEW n \in 0 .. 2 * h - 1, NEW d \in 0 .. 2 * h - 1, NEW res,
         d # 0 => IsQuotientOf(res, n, d), d = 0 => res.q = 2 * h - 1 /\ res.r = n
  PROVE  Divided(res.q, res.r, n, d, bits)
<1>1. CASE d # 0
  <2>1. /\ res.q \in Nat /\ res.r \in Nat /\ res.q * d + res.r = n /\ res.r < d
    BY <1>1 DEF IsQuotientOf
  <2> DEFINE p == res.q * d
  <2>2. p \in Int
    BY <2>1
  <2> HIDE DEF p
  <2>3. p + res.r - n = 0 /\ p + res.r = n
    BY <2>1, <2>2 DEF p
  <2>4. 0 % (2 * h) = 0
    <3>1. 0 = (2 * h) * 0 + 0 /\ 0 \in 0 .. 2 * h - 1 /\ 2 * h \in Nat \ {0} /\ 0 \in Int
      OBVIOUS
    <3> QED
      BY <3>1, QuotientIs
  <2>5. Magnitude(res.r) = res.r /\ Magnitude(d) = d
    BY <2>1 DEF Magnitude
  <2>6. (res.r < 0) = FALSE /\ (n < 0) = FALSE
    BY <2>1
  <2>7. (res.q * d + res.r - n) % Pow2[bits] = 0
    BY <2>3, <2>4 DEF p
  <2> QED
    BY <1>1, <2>1, <2>5, <2>6, <2>7 DEF Divided
<1>2. CASE d = 0
  BY <1>2 DEF Divided
<1> QED
  BY <1>1, <1>2

LEMMA SignedDivided ==
  ASSUME NEW h \in Nat \ {0}, NEW bits, Pow2[bits] = 2 * h, Pow2[bits - 1] = h,
         NEW n \in 0 .. 2 * h - 1, NEW d \in 0 .. 2 * h - 1, NEW res,
         d # 0 => IsQuotientOf(res, Unsigned(n, h), Unsigned(d, h)),
         d = 0 => res.q = 2 * h - 1 /\ res.r = Unsigned(n, h),
         NEW s, s = SignedResult(res, n, d, h)
  PROVE  Divided(AsSigned(s.q, bits), AsSigned(s.r, bits), AsSigned(n, bits), AsSigned(d, bits), bits)
<1>1. \A x : AsSigned(x, bits) = Complement(x, h)
  BY DEF AsSigned, Complement
<1>2. DividedIn(Complement(s.q, h), Complement(s.r, h), Complement(n, h), Complement(d, h), h)
  <2>1. CASE d # 0
    <3>1. d \in 1 .. 2 * h - 1
      BY <2>1
    <3> QED
      BY <2>1, <3>1, SignedDivides
  <2>2. CASE d = 0
    BY <2>2, SignedByZero
  <2> QED
    BY <2>1, <2>2
<1> QED
  BY <1>1, <1>2 DEF Divided, DividedIn

WordSized(res) == res.q \in 0 .. Base - 1 /\ res.r \in 0 .. Base - 1

LEMMA WordQuotient ==
  ASSUME IntAssumption, NEW n \in 0 .. Base - 1, NEW d \in 0 .. Base - 1
  PROVE  /\ d # 0 => IsQuotientOf(uidivmod(n, d), n, d)
         /\ d = 0 => uidivmod(n, d).q = Base - 1 /\ uidivmod(n, d).r = n
         /\ WordSized(uidivmod(n, d))
<1> DEFINE res == uidivmod(n, d)
<1>0. Base \in Nat /\ Base > 1
  BY Sizes
<1>1. CASE d # 0
  <2>1. d \in 1 .. Base - 1
    BY <1>0, <1>1
  <2>2. IsQuotientOf(res, n, d)
    BY <2>1, WordDivides
  <2> HIDE DEF res
  <2>3. res.q \in Nat /\ res.r \in Nat /\ res.q * d + res.r = n /\ res.r < d /\ d \in Nat /\ d > 0
    BY <1>0, <2>1, <2>2 DEF IsQuotientOf
  <2>4. res.q <= res.q * d /\ res.q * d \in Nat
    BY <2>3, ProductBelow
  <2>5. WordSized(res)
    BY <1>0, <2>3, <2>4 DEF WordSized
  <2> QED
    BY <1>1, <2>2, <2>5 DEF res
<1>2. CASE d = 0
  <2>1. res = [q |-> Low(-1), r |-> n]
    BY <1>2 DEF uidivmod
  <2>2. res.q = Base - 1 /\ res.r = n
    BY <2>1, AllOnes
  <2> HIDE DEF res
  <2>3. WordSized(res)
    BY <1>0, <2>2 DEF WordSized
  <2> QED
    BY <1>2, <2>2, <2>3 DEF res
<1> QED
  BY <1>1, <1>2

LEMMA WordSignsOff ==
  ASSUME IntAssumption, NEW n \in 0 .. Base - 1
  PROVE  Positive(n) = Unsigned(n, Half) /\ Positive(n) \in 0 .. Base - 1 /\ (Positive(n) = 0 <=> n = 0)
<1>1. Base \in Nat /\ Base = 2 * Half /\ Half \in Nat /\ Half > 0
  BY Sizes
<1>2. Low(-n) = Opposite(n, Half) /\ Opposite(n, Half) \in 0 .. Base - 1
  BY LowOfOpposite
<1>3. Positive(n) = Unsigned(n, Half)
  BY <1>2 DEF Positive, Unsigned, TopBit
<1> QED
  BY <1>1, <1>2, <1>3 DEF Unsigned, Opposite

LEMMA WordsDivided ==
  ASSUME IntAssumption, NEW n \in 0 .. Base - 1, NEW d \in 0 .. Base - 1
  PROVE  /\ Divided(uidivmod(n, d).q, uidivmod(n, d).r, n, d, Word)
         /\ Divided(AsSigned(idivmod(n, d).q, Word), AsSigned(idivmod(n, d).r, Word),
                    AsSigned(n, Word), AsSigned(d, Word), Word)
         /\ uidiv(n, d) = uidivmod(n, d).q /\ idiv(n, d) = idivmod(n, d).q
<1> DEFINE res == uidivmod(Positive(n), Positive(d))
           s == idivmod(n, d)
<1>1. /\ Half \in Nat \ {0} /\ Base = 2 * Half /\ Base \in Nat
      /\ Pow2[Word] = 2 * Half /\ Pow2[Word - 1] = Half
  BY Sizes DEF Half
<1>2. Divided(uidivmod(n, d).q, uidivmod(n, d).r, n, d, Word)
  <2> DEFINE u == uidivmod(n, d)
  <2>1. (d # 0 => IsQuotientOf(u, n, d)) /\ (d = 0 => u.q = 2 * Half - 1 /\ u.r = n)
    BY <1>1, WordQuotient
  <2>2. n \in 0 .. 2 * Half - 1 /\ d \in 0 .. 2 * Half - 1
    BY <1>1
  <2> HIDE DEF u
  <2>3. Divided(u.q, u.r, n, d, Word)
    BY <1>1, <2>1, <2>2, UnsignedDivided
  <2> QED
    BY <2>3 DEF u
<1>3. /\ Positive(n) = Unsigned(n, Half) /\ Positive(n) \in 0 .. Base - 1
      /\ Positive(d) = Unsigned(d, Half) /\ Positive(d) \in 0 .. Base - 1 /\ (Positive(d) = 0 <=> d = 0)
  BY WordSignsOff
<1>4. /\ d # 0 => IsQuotientOf(res, Unsigned(n, Half), Unsigned(d, Half))
      /\ d = 0 => res.q = 2 * Half - 1 /\ res.r = Unsigned(n, Half)
      /\ WordSized(res)
  BY <1>1, <1>3, WordQuotient
<1>5. s = [q |-> IF TopBit(n) # TopBit(d) THEN Low(-res.q) ELSE res.q,
           r |-> IF TopBit(n) THEN Low(-res.r) ELSE res.r]
  BY DEF idivmod
<1>6. uidiv(n, d) = uidivmod(n, d).q /\ idiv(n, d) = s.q
  <2>1. uidiv(Positive(n), Positive(d)) = res.q
    BY DEF uidiv
  <2>2. idiv(n, d) = IF TopBit(n) # TopBit(d) THEN Low(-res.q) ELSE res.q
    BY <2>1 DEF idiv
  <2> HIDE DEF res
  <2> QED
    BY <1>5, <2>2 DEF uidiv
<1> HIDE DEF res
<1>7. s = SignedResult(res, n, d, Half)
  <2>1. Low(-res.q) = Opposite(res.q, Half) /\ Low(-res.r) = Opposite(res.r, Half)
    BY <1>4, LowOfOpposite DEF WordSized
  <2> HIDE DEF s
  <2> QED
    BY <1>5, <2>1 DEF SignedResult, TopBit
<1> HIDE DEF s
<1>8. n \in 0 .. 2 * Half - 1 /\ d \in 0 .. 2 * Half - 1
  BY <1>1
<1>9. Divided(AsSigned(s.q, Word), AsSigned(s.r, Word), AsSigned(n, Word), AsSigned(d, Word), Word)
  BY <1>1, <1>4, <1>7, <1>8, SignedDivided
<1> QED
  BY <1>2, <1>6, <1>9 DEF s

-----------------------------------------------------------------------------
(***************************************************************************)
(* Pairs of words.  The carry or borrow c out of the low word goes to the  *)
(* high one; what leaves the high one is lost.                             *)
(***************************************************************************)
LEMMA LongIs ==
  ASSUME IntAssumption, NEW v \in Long
  PROVE  /\ v.hi \in 0 .. Base - 1 /\ v.lo \in 0 .. Base - 1 /\ v.hi * Base \in Nat
         /\ ValueOf(v) = v.hi * Base + v.lo /\ ValueOf(v) \in 0 .. Square - 1
         /\ v = [hi |-> v.hi, lo |-> v.lo]
<1>1. Base \in Nat /\ Base > 1 /\ Square \in Nat
  BY Sizes
<1>2. v.hi \in 0 .. Base - 1 /\ v.lo \in 0 .. Base - 1 /\ v = [hi |-> v.hi, lo |-> v.lo]
  BY DEF Long
<1>3. v.hi * Base + Base <= Base * Base /\ v.hi * Base \in Nat
  <2>1. v.hi \in Nat /\ v.hi < Base
    BY <1>1, <1>2
  <2> QED
    BY <1>1, <2>1, ProductBelow
<1> QED
  BY <1>1, <1>2, <1>3 DEF ValueOf, Square

LEMMA PairIs ==
  ASSUME IntAssumption, NEW a \in Int, NEW b \in Int
  PROVE  Pair(a, b) \in Long /\ Pair(a, b).hi = Low(a) /\ Pair(a, b).lo = Low(b)
<1>1. Low(a) \in 0 .. Base - 1 /\ Low(b) \in 0 .. Base - 1
  BY LowIs
<1> QED
  BY <1>1 DEF Pair, Long

LEMMA ValueOfPair ==
  ASSUME IntAssumption, NEW a \in Int, NEW b \in Int, NEW c \in Int, b - c * Base \in 0 .. Base - 1
  PROVE  ValueOf(Pair(a + c, b)) = (a * Base + b) % Square /\ Pair(a + c, b) \in Long
<1>1. Base \in Nat \ {0} /\ Base > 1 /\ Square \in Nat \ {0} /\ Square = Base * Base
  BY Sizes DEF Square
<1> DEFINE rest == b - c * Base
           k == (a + c) \div Base
           top == (a + c) % Base
<1>2. Low(b) = rest
  <2>1. b = Base * c + rest /\ rest \in 0 .. Base - 1
    BY <1>1
  <2> HIDE DEF rest
  <2>2. b % Base = rest
    BY <1>1, <2>1, QuotientIs
  <2> QED
    BY <2>2 DEF Low
<1>3. a + c \in Int /\ top \in 0 .. Base - 1 /\ k \in Int /\ a + c = Base * k + top
  <2> DEFINE s == a + c
  <2>1. s \in Int
    OBVIOUS
  <2> HIDE DEF s
  <2>2. s % Base \in 0 .. Base - 1 /\ s \div Base \in Int /\ s = Base * (s \div Base) + (s % Base)
    BY <1>1, <2>1, RemainderOf
  <2> QED
    BY <2>1, <2>2 DEF s
<1>4. Pair(a + c, b) \in Long /\ Pair(a + c, b).hi = top /\ Pair(a + c, b).lo = rest
  BY <1>2, <1>3, PairIs DEF Low
<1>5. ValueOf(Pair(a + c, b)) = top * Base + rest /\ top * Base + rest \in 0 .. Square - 1
  BY <1>4, LongIs
<1>6. a * Base + b = Square * k + (top * Base + rest)
  <2>0. rest \in Int /\ b = c * Base + rest
    BY <1>1
  <2> HIDE DEF rest, top, k
  <2>1. a * Base + b = (a + c) * Base + rest
    BY <1>1, <2>0
  <2>2. (Base * k + top) * Base = (Base * Base) * k + top * Base
    BY <1>1, <1>3
  <2>3. (a + c) * Base = Square * k + top * Base
    BY <1>1, <1>3, <2>2
  <2>4. Square * k \in Int /\ top * Base \in Int
    BY <1>1, <1>3
  <2> QED
    BY <2>0, <2>1, <2>3, <2>4
<1>7. a * Base + b \in Int
  BY <1>1
<1> HIDE DEF rest, top, k
<1> DEFINE x == a * Base + b
           y == top * Base + rest
<1>8. x \in Int /\ y \in 0 .. Square - 1 /\ x = Square * k + y
  BY <1>5, <1>6, <1>7
<1> HIDE DEF x, y
<1>9. x % Square = y
  BY <1>1, <1>3, <1>8, QuotientIs
<1> QED
  BY <1>4, <1>5, <1>9 DEF x, y

\* The same where nothing is lost.
LEMMA ValueKept ==
  ASSUME IntAssumption, NEW a \in Int, NEW b \in Int, NEW c \in Int, b - c * Base \in 0 .. Base - 1,
         a * Base + b \in 0 .. Square - 1
  PROVE  ValueOf(Pair(a + c, b)) = a * Base + b /\ Pair(a + c, b) \in Long
<1>1. Square \in Nat \ {0}
  BY Sizes
<1> DEFINE x == a * Base + b
<1>2. x \in 0 .. Square - 1
  OBVIOUS
<1> HIDE DEF x
<1>3. x % Square = x
  <2>1. x = Square * 0 + x /\ x \in Int /\ 0 \in Int
    BY <1>1, <1>2
  <2> QED
    BY <1>1, <1>2, <2>1, QuotientIs
<1> QED
  BY <1>3, ValueOfPair DEF x

LEMMA ShiftLeft ==
  ASSUME IntAssumption, NEW v \in Long
  PROVE  u64_shl1(v) \in Long /\ ValueOf(u64_shl1(v)) = (2 * ValueOf(v)) % Square
<1> DEFINE c == Carry(TopBit(v.lo))
<1>1. Base \in Nat /\ Base > 1 /\ Base = 2 * Half /\ Half \in Nat
  BY Sizes
<1>2. v.hi \in 0 .. Base - 1 /\ v.lo \in 0 .. Base - 1 /\ v.hi * Base \in Nat /\ ValueOf(v) = v.hi * Base + v.lo
  BY LongIs
<1>3. c \in {0, 1} /\ 2 * v.lo - c * Base \in 0 .. Base - 1
  <2>1. CASE v.lo >= Half
    <3>1. c = 1 /\ c * Base = Base
      BY <1>1, <2>1 DEF Carry, TopBit
    <3> QED
      BY <1>1, <1>2, <2>1, <3>1
  <2>2. CASE ~(v.lo >= Half)
    <3>1. c = 0 /\ c * Base = 0
      BY <1>1, <2>2 DEF Carry, TopBit
    <3> QED
      BY <1>1, <1>2, <2>2, <3>1
  <2> QED
    BY <2>1, <2>2
<1>4. u64_shl1(v) = Pair(2 * v.hi + c, 2 * v.lo)
  BY DEF u64_shl1
<1> HIDE DEF c
<1>5. 2 * v.hi \in Int /\ 2 * v.lo \in Int /\ c \in Int
  BY <1>1, <1>2, <1>3
<1>6. (2 * v.hi) * Base + 2 * v.lo = 2 * ValueOf(v)
  BY <1>1, <1>2
<1> QED
  BY <1>3, <1>4, <1>5, <1>6, ValueOfPair

LEMMA PairOrder ==
  ASSUME IntAssumption, NEW v \in Long, NEW w \in Long
  PROVE  u64_ge(v, w) <=> ValueOf(v) >= ValueOf(w)
<1>1. Base \in Nat /\ Base > 1
  BY Sizes
<1>2. /\ v.hi \in 0 .. Base - 1 /\ v.lo \in 0 .. Base - 1 /\ v.hi * Base \in Nat /\ ValueOf(v) = v.hi * Base + v.lo
      /\ w.hi \in 0 .. Base - 1 /\ w.lo \in 0 .. Base - 1 /\ w.hi * Base \in Nat /\ ValueOf(w) = w.hi * Base + w.lo
  BY LongIs
<1>3. CASE v.hi = w.hi
  BY <1>2, <1>3 DEF u64_ge
<1>4. CASE v.hi > w.hi
  <2>0. v.hi \in Nat /\ w.hi \in Nat /\ w.hi < v.hi
    BY <1>1, <1>2, <1>4
  <2>1. w.hi * Base + Base <= v.hi * Base
    BY <1>1, <2>0, ProductBelow
  <2> QED
    BY <1>1, <1>2, <1>4, <2>1 DEF u64_ge
<1>5. CASE v.hi < w.hi
  <2>1. v.hi * Base + Base <= w.hi * Base
    BY <1>1, <1>2, <1>5, ProductBelow
  <2> QED
    BY <1>1, <1>2, <1>5, <2>1 DEF u64_ge
<1> QED
  BY <1>2, <1>3, <1>4, <1>5

LEMMA PairDifference ==
  ASSUME IntAssumption, NEW v \in Long, NEW w \in Long, ValueOf(v) >= ValueOf(w)
  PROVE  u64_sub(v, w) \in Long /\ ValueOf(u64_sub(v, w)) = ValueOf(v) - ValueOf(w)
<1> DEFINE a == v.hi - w.hi
           b == v.lo - w.lo
           o == Carry(v.lo < w.lo)
           c == -o
<1>1. Base \in Nat /\ Base > 1 /\ Square \in Nat
  BY Sizes
<1>2. /\ v.hi \in 0 .. Base - 1 /\ v.lo \in 0 .. Base - 1 /\ v.hi * Base \in Nat
      /\ ValueOf(v) = v.hi * Base + v.lo /\ ValueOf(v) \in 0 .. Square - 1
      /\ w.hi \in 0 .. Base - 1 /\ w.lo \in 0 .. Base - 1 /\ w.hi * Base \in Nat
      /\ ValueOf(w) = w.hi * Base + w.lo /\ ValueOf(w) \in 0 .. Square - 1
  BY LongIs
<1>3. c \in Int /\ b - c * Base \in 0 .. Base - 1
  <2>1. CASE v.lo < w.lo
    <3>1. o = 1
      BY <2>1 DEF Carry
    <3>2. (-1) * Base = -Base
      BY <1>1
    <3> HIDE DEF o
    <3>3. c \in Int /\ c * Base = -Base
      BY <3>1, <3>2
    <3> HIDE DEF c
    <3> QED
      BY <1>1, <1>2, <2>1, <3>3
  <2>2. CASE ~(v.lo < w.lo)
    <3>1. o = 0
      BY <2>2 DEF Carry
    <3> HIDE DEF o
    <3>2. c \in Int /\ c + o = 0
      BY <3>1
    <3> HIDE DEF c
    <3>3. c = 0
      BY <3>1, <3>2
    <3>4. c * Base = 0
      BY <1>1, <3>3
    <3> QED
      BY <1>1, <1>2, <2>2, <3>2, <3>4
  <2> QED
    BY <2>1, <2>2
<1>4. a \in Int /\ b \in Int /\ a * Base + b = ValueOf(v) - ValueOf(w)
  <2>1. (v.hi - w.hi) * Base = v.hi * Base - w.hi * Base
    <3>1. ASSUME NEW x \in Nat, NEW y \in Nat, NEW z \in Nat PROVE (x - y) * z = x * z - y * z
      OBVIOUS
    <3>2. v.hi \in Nat /\ w.hi \in Nat
      BY <1>1, <1>2
    <3> QED
      BY <1>1, <3>1, <3>2
  <2> QED
    BY <1>2, <2>1
<1>5. u64_sub(v, w) = Pair(a + c, b)
  <2>1. u64_sub(v, w) = Pair(v.hi - w.hi - o, b)
    BY DEF u64_sub
  <2>2. o \in Int
    BY DEF Carry
  <2> HIDE DEF o
  <2>3. v.hi - w.hi - o = a + c
    BY <1>2, <2>2
  <2> QED
    BY <2>1, <2>3
<1> HIDE DEF a, b, c, o
<1>6. a * Base + b \in 0 .. Square - 1
  BY <1>1, <1>2, <1>4
<1> QED
  BY <1>3, <1>4, <1>5, <1>6, ValueKept

(***************************************************************************)
(* The bits of a pair.                                                     *)
(***************************************************************************)
LEMMA NextBit ==
  ASSUME NEW n \in Nat, NEW p \in Nat \ {0}
  PROVE  /\ n \div p \in Nat /\ n \div (2 * p) \in Nat /\ (n \div p) % 2 \in {0, 1}
         /\ n \div p = 2 * (n \div (2 * p)) + ((n \div p) % 2) /\ n \div p <= n
<1> DEFINE x == n \div p
           c == n % p
           y == x \div 2
           bit == x % 2
<1>1. x \in Nat /\ c \in 0 .. p - 1 /\ n = p * x + c
  <2>1. n \in Int /\ n >= 0
    OBVIOUS
  <2>2. n % p \in 0 .. p - 1 /\ n \div p \in Nat /\ n = p * (n \div p) + (n % p)
    BY <2>1, RemainderOf
  <2> QED
    BY <2>2
<1> HIDE DEF x, c
<1>2. y \in Nat /\ bit \in 0 .. 1 /\ x = 2 * y + bit
  <2>1. 2 \in Nat \ {0} /\ x \in Int /\ x >= 0
    BY <1>1
  <2> QED
    BY <2>1, RemainderOf
<1> HIDE DEF y, bit
<1>3. n \div (2 * p) = y
  <2> DEFINE rest == p * bit + c
  <2>1. 2 * p \in Nat \ {0} /\ rest \in 0 .. 2 * p - 1
    <3>1. p * 0 = 0 /\ p * 1 = p /\ (bit = 0 \/ bit = 1)
      BY <1>2
    <3> QED
      BY <1>1, <3>1
  <2>2. n = (2 * p) * y + rest
    <3>1. p * (2 * y + bit) = (2 * p) * y + p * bit /\ p * bit \in Int /\ (2 * p) * y \in Int
      BY <1>2
    <3> QED
      BY <1>1, <1>2, <3>1
  <2> HIDE DEF rest
  <2> DEFINE w == 2 * p
  <2>3. w \in Nat \ {0} /\ rest \in 0 .. w - 1 /\ n = w * y + rest
    BY <2>1, <2>2
  <2> HIDE DEF w
  <2>4. n \in Int /\ y \in Int
    BY <1>2
  <2>5. n \div w = y
    BY <2>3, <2>4, QuotientIs
  <2> QED
    BY <2>5 DEF w
<1>4. x <= n
  <2>1. x <= x * p /\ x * p \in Nat
    BY <1>1, ProductBelow
  <2>2. x * p = p * x
    BY <1>1
  <2> QED
    BY <1>1, <2>1, <2>2
<1> QED
  BY <1>1, <1>2, <1>3, <1>4 DEF x, y, bit

\* The place of a bit, in the low or in the high word.
LEMMA PlaceOf ==
  ASSUME IntAssumption, NEW bit \in 0 .. 2 * Word - 1
  PROVE  /\ Pow2[bit] \in Nat \ {0}
         /\ bit < Word => /\ Pow2[Word - bit - 1] \in Nat \ {0}
                          /\ Base = Pow2[bit] * (2 * Pow2[Word - bit - 1])
         /\ ~(bit < Word) => /\ Pow2[bit - Word] \in Nat \ {0} /\ Pow2[bit] = Base * Pow2[bit - Word]
                             /\ Pow2[2 * Word - bit - 1] \in Nat \ {0}
                             /\ Base = Pow2[bit - Word] * (2 * Pow2[2 * Word - bit - 1])
<1>1. Word \in Nat /\ bit \in Nat /\ Pow2[Word] = Base
  BY Sizes
<1>2. Pow2[bit] \in Nat \ {0}
  BY <1>1, Pow2Is
<1>3. ASSUME NEW a \in Nat, a < Word
      PROVE  Pow2[Word - a - 1] \in Nat \ {0} /\ Base = Pow2[a] * (2 * Pow2[Word - a - 1])
  <2> DEFINE b == Word - a - 1
  <2>1. b \in Nat /\ b + 1 \in Nat /\ Word = a + (b + 1)
    BY <1>1, <1>3
  <2> HIDE DEF b
  <2>2. Pow2[b] \in Nat \ {0} /\ Pow2[b + 1] = 2 * Pow2[b]
    BY <2>1, Pow2Is
  <2>3. Pow2[a + (b + 1)] = Pow2[a] * Pow2[b + 1]
    BY <2>1, Pow2Sum
  <2> QED
    BY <1>1, <2>1, <2>2, <2>3 DEF b
<1>4. CASE bit < Word
  BY <1>1, <1>2, <1>3, <1>4
<1>5. CASE ~(bit < Word)
  <2> DEFINE a == bit - Word
  <2>1. a \in Nat /\ a < Word /\ bit = Word + a /\ Word - a - 1 = 2 * Word - bit - 1
    BY <1>1, <1>5
  <2> HIDE DEF a
  <2>2. Pow2[Word + a] = Pow2[Word] * Pow2[a]
    BY <1>1, <2>1, Pow2Sum
  <2>3. Pow2[a] \in Nat \ {0}
    BY <2>1, Pow2Is
  <2>4. Pow2[Word - a - 1] \in Nat \ {0} /\ Base = Pow2[a] * (2 * Pow2[Word - a - 1])
    BY <1>3, <2>1
  <2>5. Pow2[2 * Word - bit - 1] \in Nat \ {0} /\ Base = Pow2[a] * (2 * Pow2[2 * Word - bit - 1])
    BY <2>1, <2>4
  <2>6. Pow2[bit] = Base * Pow2[a]
    BY <1>1, <2>1, <2>2
  <2> QED
    BY <1>2, <1>5, <2>3, <2>5, <2>6 DEF a
<1> QED
  BY <1>4, <1>5

LEMMA BitIs ==
  ASSUME IntAssumption, NEW v \in Long, NEW bit \in 0 .. 2 * Word - 1
  PROVE  u64_bit(v, bit) = (ValueOf(v) \div Pow2[bit]) % 2
<1>1. Base \in Nat \ {0}
  BY Sizes
<1>2. v.hi \in 0 .. Base - 1 /\ v.lo \in 0 .. Base - 1 /\ v.hi * Base \in Nat /\ ValueOf(v) = v.hi * Base + v.lo
  BY LongIs
<1> DEFINE P == Pow2[bit]
<1>3. P \in Nat \ {0}
  BY PlaceOf
<1>4. CASE bit < Word
  <2> DEFINE R == Pow2[Word - bit - 1]
             x == v.lo \div P
             c == v.lo % P
  <2>1. R \in Nat \ {0} /\ Base = P * (2 * R)
    BY <1>4, PlaceOf
  <2>2. x \in Int /\ c \in 0 .. P - 1 /\ v.lo = P * x + c
    <3>1. v.lo \in Int
      BY <1>2
    <3> HIDE DEF P
    <3> QED
      BY <1>3, <3>1, RemainderOf
  <2> DEFINE k == x + 2 * (v.hi * R)
  <2>3. k \in Int /\ v.hi * R \in Int
    BY <1>1, <1>2, <2>1, <2>2
  <2>4. ValueOf(v) = P * k + c
    <3> HIDE DEF P, R, x, c
    <3>1. v.hi * (P * (2 * R)) = P * (2 * (v.hi * R))
      BY <1>1, <1>2, <1>3, <2>1
    <3>2. P * k = P * x + P * (2 * (v.hi * R)) /\ P * x \in Int /\ P * (2 * (v.hi * R)) \in Int
      BY <1>1, <1>2, <1>3, <2>1, <2>2
    <3> HIDE DEF k
    <3> QED
      BY <1>2, <2>1, <2>2, <3>1, <3>2
  <2>5. ValueOf(v) \in Int
    BY <1>2
  <2> HIDE DEF P, R, c, k
  <2>6. ValueOf(v) \div P = k
    BY <1>3, <2>2, <2>3, <2>4, <2>5, QuotientIs
  <2>7. k % 2 = x % 2
    <3>1. 2 \in Nat \ {0}
      OBVIOUS
    <3> HIDE DEF x
    <3>2. (x + 2 * (v.hi * R)) % 2 = x % 2
      BY <2>2, <2>3, <3>1, WholeTurns
    <3> QED
      BY <3>2 DEF k
  <2>8. u64_bit(v, bit) = x % 2
    BY <1>4 DEF u64_bit, P
  <2> HIDE DEF x
  <2> QED
    BY <2>6, <2>7, <2>8 DEF P
<1>5. CASE ~(bit < Word)
  <2> DEFINE S == Pow2[bit - Word]
             x == v.hi \div S
             c == v.hi % S
             rest == Base * c + v.lo
  <2>1. S \in Nat \ {0} /\ P = Base * S
    BY <1>5, PlaceOf
  <2>2. x \in Int /\ c \in 0 .. S - 1 /\ v.hi = S * x + c
    <3>1. v.hi \in Int
      BY <1>2
    <3> HIDE DEF S
    <3> QED
      BY <2>1, <3>1, RemainderOf
  <2> HIDE DEF P, S, x, c
  <2>3. rest \in 0 .. P - 1
    <3>1. c * Base + Base <= S * Base /\ c * Base \in Nat
      <4>1. c \in Nat /\ S \in Nat /\ c < S
        BY <2>1, <2>2
      <4> QED
        BY <1>1, <4>1, ProductBelow
    <3>2. Base * S = S * Base /\ Base * c = c * Base
      BY <1>1, <2>1, <2>2
    <3> QED
      BY <1>1, <1>2, <2>1, <3>1, <3>2
  <2>4. ValueOf(v) = P * x + rest
    <3>1. (S * x + c) * Base = (Base * S) * x + Base * c
      BY <1>1, <2>1, <2>2
    <3>2. v.hi * Base = P * x + Base * c
      BY <2>1, <2>2, <3>1
    <3>3. P * x \in Int /\ Base * c \in Int
      BY <1>1, <1>3, <2>2
    <3> QED
      BY <1>2, <3>2, <3>3
  <2>5. ValueOf(v) \in Int
    BY <1>2
  <2> HIDE DEF rest
  <2>6. ValueOf(v) \div P = x
    BY <1>3, <2>2, <2>3, <2>4, <2>5, QuotientIs
  <2>7. u64_bit(v, bit) = x % 2
    BY <1>5 DEF u64_bit, S, x
  <2> QED
    BY <2>6, <2>7 DEF P
<1> QED
  BY <1>4, <1>5

\* A bit is set in a pair that has none at its place or below.
LEMMA BitSet ==
  ASSUME IntAssumption, NEW v \in Long, NEW bit \in 0 .. 2 * Word - 1, NEW m \in Nat,
         ValueOf(v) = m * (2 * Pow2[bit])
  PROVE  u64_set_bit(v, bit) \in Long /\ ValueOf(u64_set_bit(v, bit)) = (2 * m + 1) * Pow2[bit]
<1>1. Base \in Nat \ {0}
  BY Sizes
<1>2. v.hi \in 0 .. Base - 1 /\ v.lo \in 0 .. Base - 1 /\ v.hi * Base \in Nat /\ ValueOf(v) = v.hi * Base + v.lo
  BY LongIs
<1> DEFINE P == Pow2[bit]
<1>3. P \in Nat \ {0}
  BY PlaceOf
<1>4. (2 * m + 1) * P = m * (2 * P) + P /\ m * (2 * P) \in Nat
  <2> HIDE DEF P
  <2> QED
    BY <1>3
<1>5. CASE bit < Word
  <2> DEFINE R == Pow2[Word - bit - 1]
             t == m - v.hi * R
  <2>1. R \in Nat \ {0} /\ Base = P * (2 * R)
    BY <1>5, PlaceOf
  <2> HIDE DEF P, R
  <2>2. v.hi * R \in Int /\ t \in Int
    BY <1>1, <1>2, <2>1
  <2>3. v.lo = t * (2 * P)
    <3>1. v.hi * (P * (2 * R)) = (v.hi * R) * (2 * P)
      BY <1>1, <1>2, <1>3, <2>1
    <3> DEFINE y == v.hi * R
               z == 2 * P
    <3>2. y \in Int /\ z \in Int
      BY <1>3, <2>2
    <3>3. (m - y) * z = m * z - y * z /\ m * z \in Int /\ y * z \in Int
      <4> HIDE DEF y, z
      <4> QED
        BY <3>2
    <3> QED
      BY <1>2, <2>1, <3>1, <3>3 DEF P
  <2>4. v.lo + P < Base
    <3> DEFINE z == 2 * P
    <3>1. z \in Nat /\ z > 0 /\ R * z = Base /\ z \in Nat
      BY <1>3, <2>1
    <3> HIDE DEF z, t
    <3>2. v.lo = t * z /\ v.lo \in Nat /\ v.lo < Base
      BY <1>1, <1>2, <2>3 DEF z
    <3>3. t >= 0
      <4> SUFFICES ASSUME t < 0 PROVE FALSE
        BY <2>2
      <4> DEFINE w == -1 - t
      <4>1. w \in Nat /\ t + w = -1
        BY <2>2
      <4> HIDE DEF w
      <4>2. w * z \in Nat /\ t = -1 - w
        BY <2>2, <3>1, <4>1
      <4>3. (-1 - w) * z = -z - w * z
        BY <3>1, <4>1
      <4> QED
        BY <3>1, <3>2, <4>2, <4>3
    <3>4. t < R
      <4>1. t \in Nat /\ R \in Nat /\ t * z < R * z
        BY <2>1, <2>2, <3>1, <3>2, <3>3
      <4> QED
        BY <3>1, <4>1, ProductBelow
    <3>5. t * z + z <= R * z
      <4>1. t \in Nat /\ R \in Nat
        BY <2>1, <2>2, <3>3
      <4> QED
        BY <3>1, <3>4, <4>1, ProductBelow
    <3>6. P < z
      BY <1>3 DEF z
    <3> QED
      BY <1>1, <1>2, <1>3, <3>1, <3>2, <3>5, <3>6
  <2> DEFINE b == v.lo + P
  <2>5. v.hi \in 0 .. Base - 1 /\ b \in 0 .. Base - 1
    BY <1>1, <1>2, <1>3, <2>4
  <2>6. u64_set_bit(v, bit) = Pair(v.hi, b)
    BY <1>5 DEF u64_set_bit, P
  <2> HIDE DEF b
  <2>7. Pair(v.hi, b) \in Long /\ Pair(v.hi, b).hi = v.hi /\ Pair(v.hi, b).lo = b
    <3>1. v.hi \in Int /\ b \in Int
      BY <1>1, <2>5
    <3>2. Low(v.hi) = v.hi /\ Low(b) = b
      BY <2>5, <3>1, LowIs
    <3> QED
      BY <3>1, <3>2, PairIs
  <2>8. ValueOf(Pair(v.hi, b)) = v.hi * Base + b
    BY <2>7 DEF ValueOf
  <2>9. v.hi * Base + b = ValueOf(v) + P
    BY <1>2, <1>3 DEF b
  <2> QED
    BY <1>4, <2>6, <2>7, <2>8, <2>9 DEF P
<1>6. CASE ~(bit < Word)
  <2> DEFINE S == Pow2[bit - Word]
             R == Pow2[2 * Word - bit - 1]
             t == 2 * (m * S) - v.hi
  <2>1. S \in Nat \ {0} /\ P = Base * S /\ R \in Nat \ {0} /\ Base = S * (2 * R)
    BY <1>6, PlaceOf
  <2> HIDE DEF P, S, R
  <2>2. m * S \in Int /\ t \in Int
    BY <1>1, <1>2, <2>1
  <2>3. v.lo = t * Base
    <3>1. m * (2 * (Base * S)) = (2 * (m * S)) * Base
      BY <1>1, <2>1
    <3> DEFINE y == 2 * (m * S)
    <3>2. y \in Int /\ v.hi \in Int
      BY <1>2, <2>2
    <3>3. (y - v.hi) * Base = y * Base - v.hi * Base /\ y * Base \in Int
      <4> HIDE DEF y
      <4>1. ASSUME NEW x \in Int, NEW z \in Int, NEW w \in Int PROVE (x - z) * w = x * w - z * w /\ x * w \in Int
        OBVIOUS
      <4> QED
        BY <1>1, <3>2, <4>1
    <3> QED
      BY <1>2, <2>1, <3>1, <3>3 DEF P
  <2>4. t = 0
    <3> HIDE DEF t
    <3>1. v.lo = Base * t + 0 /\ v.lo = Base * 0 + v.lo /\ 0 \in 0 .. Base - 1 /\ v.lo \in Int /\ 0 \in Int
      BY <1>1, <1>2, <2>2, <2>3
    <3>2. v.lo \div Base = t
      BY <1>1, <2>2, <3>1, QuotientIs
    <3>3. v.lo \div Base = 0
      BY <1>1, <1>2, <3>1, QuotientIs
    <3> QED
      BY <3>2, <3>3
  <2>5. v.hi = 2 * (m * S) /\ v.lo = 0
    <3>1. v.hi = 2 * (m * S)
      BY <1>2, <2>2, <2>4
    <3> HIDE DEF t
    <3> QED
      BY <1>1, <2>3, <2>4, <3>1
  <2> HIDE DEF t
  <2>6. v.hi + S < Base
    <3> DEFINE z == 2 * S
    <3>1. z \in Nat /\ z > 0 /\ R * z = Base /\ m * z = v.hi /\ S < z
      BY <2>1, <2>5
    <3> HIDE DEF z
    <3>2. m < R
      <4>1. m * z < R * z /\ R \in Nat
        BY <1>1, <1>2, <2>1, <3>1
      <4> QED
        BY <3>1, <4>1, ProductBelow
    <3>3. m * z + z <= R * z
      BY <2>1, <3>1, <3>2, ProductBelow
    <3> QED
      BY <1>1, <1>2, <2>1, <3>1, <3>3
  <2> DEFINE a == v.hi + S
  <2>7. v.lo \in 0 .. Base - 1 /\ a \in 0 .. Base - 1
    BY <1>1, <1>2, <2>1, <2>6
  <2>8. u64_set_bit(v, bit) = Pair(a, v.lo)
    BY <1>6 DEF u64_set_bit, S
  <2>9. a * Base + v.lo = ValueOf(v) + P
    <3>1. ASSUME NEW x \in Int, NEW z \in Int, NEW w \in Int PROVE (x + z) * w = x * w + w * z /\ w * z \in Int
      OBVIOUS
    <3>2. (v.hi + S) * Base = v.hi * Base + Base * S /\ Base * S \in Int
      <4>1. v.hi \in Int /\ S \in Int /\ Base \in Int
        BY <1>1, <1>2, <2>1
      <4> QED
        BY <3>1, <4>1
    <3> QED
      BY <1>2, <2>1, <3>2
  <2> HIDE DEF a
  <2>10. Pair(a, v.lo) \in Long /\ Pair(a, v.lo).hi = a /\ Pair(a, v.lo).lo = v.lo
    <3>1. v.lo \in Int /\ a \in Int
      BY <1>1, <2>7
    <3>2. Low(v.lo) = v.lo /\ Low(a) = a
      BY <2>7, <3>1, LowIs
    <3> QED
      BY <3>1, <3>2, PairIs
  <2>11. ValueOf(Pair(a, v.lo)) = a * Base + v.lo
    BY <2>10 DEF ValueOf
  <2> QED
    BY <1>4, <2>8, <2>9, <2>10, <2>11 DEF P
<1> QED
  BY <1>5, <1>6

-----------------------------------------------------------------------------
(***************************************************************************)
(* Division of a pair by a pair.  After the places down to p the quotient  *)
(* so far, in units of 2^p, and the remainder so far are those of the      *)
(* dividend without its places below p.                                    *)
(***************************************************************************)
IsPartOf(b, n, d, p) ==
  /\ b.q \in Long /\ b.r \in Long /\ ValueOf(b.r) < d
  /\ \E m \in Nat : ValueOf(b.q) = m * p /\ m * d + ValueOf(b.r) = n \div p

\* One round of udivmod64.
NextDigit(b, n, d, bit) ==
  LET s == u64_shl1(b.r)
      r == Pair(s.hi, s.lo + u64_bit(n, bit))
  IN IF u64_ge(r, d) THEN [q |-> u64_set_bit(b.q, bit), r |-> u64_sub(r, d)]
     ELSE [q |-> b.q, r |-> r]

LEMMA BroughtDown ==
  ASSUME IntAssumption, NEW v \in Long, NEW bit \in {0, 1}, 2 * ValueOf(v) + bit < Square
  PROVE  LET s == u64_shl1(v)
             r == Pair(s.hi, s.lo + bit)
         IN  r \in Long /\ ValueOf(r) = 2 * ValueOf(v) + bit
<1> DEFINE s == u64_shl1(v)
           b == s.lo + bit
<1>1. Base \in Nat /\ Base > 1 /\ Square \in Nat \ {0} /\ Base = 2 * Half /\ Half \in Nat
  BY Sizes
<1>2. ValueOf(v) \in Nat
  BY <1>1, LongIs
<1>3. s \in Long /\ ValueOf(s) = (2 * ValueOf(v)) % Square
  BY ShiftLeft
<1>4. (2 * ValueOf(v)) % Square = 2 * ValueOf(v)
  <2> DEFINE x == 2 * ValueOf(v)
  <2>1. x = Square * 0 + x /\ x \in Int /\ 0 \in Int /\ x \in 0 .. Square - 1
    BY <1>1, <1>2
  <2> HIDE DEF x
  <2>2. x % Square = x
    BY <1>1, <2>1, QuotientIs
  <2> QED
    BY <2>2 DEF x
<1> HIDE DEF s
<1>5. /\ s.hi \in 0 .. Base - 1 /\ s.lo \in 0 .. Base - 1 /\ s.hi * Base \in Nat
      /\ ValueOf(s) = s.hi * Base + s.lo
  BY <1>3, LongIs
<1>6. s.hi * Base + s.lo = 2 * ValueOf(v)
  BY <1>3, <1>4, <1>5
\* the low word is even, and no carry leaves it
<1>7. b \in 0 .. Base - 1
  <2> DEFINE k == ValueOf(v) - s.hi * Half
  <2>1. s.hi * Half \in Int /\ s.hi * Base = 2 * (s.hi * Half)
    BY <1>1, <1>5
  <2>2. s.lo = 2 * k /\ k \in Int
    BY <1>2, <1>5, <1>6, <2>1
  <2> HIDE DEF k
  <2> QED
    BY <1>1, <1>5, <2>2
<1>8. s.hi * Base + b = 2 * ValueOf(v) + bit
  BY <1>2, <1>5, <1>6
<1> HIDE DEF b
<1>9. Pair(s.hi, b) \in Long /\ Pair(s.hi, b).hi = s.hi /\ Pair(s.hi, b).lo = b
  <2>1. s.hi \in Int /\ b \in Int
    BY <1>1, <1>5, <1>7
  <2>2. Low(s.hi) = s.hi /\ Low(b) = b
    BY <1>5, <1>7, <2>1, LowIs
  <2> QED
    BY <2>1, <2>2, PairIs
<1>10. ValueOf(Pair(s.hi, b)) = s.hi * Base + b
  BY <1>9 DEF ValueOf
<1> QED
  BY <1>8, <1>9, <1>10 DEF s, b

LEMMA DigitStep ==
  ASSUME IntAssumption, NEW n \in Long, NEW d \in Long, ValueOf(d) > 0, NEW bit \in 0 .. 2 * Word - 1,
         NEW b, IsPartOf(b, ValueOf(n), ValueOf(d), 2 * Pow2[bit])
  PROVE  IsPartOf(NextDigit(b, n, d, bit), ValueOf(n), ValueOf(d), Pow2[bit])
<1> DEFINE N == ValueOf(n)
           D == ValueOf(d)
           P == Pow2[bit]
           one == u64_bit(n, bit)
           s == u64_shl1(b.r)
           r == Pair(s.hi, s.lo + one)
           V == ValueOf(b.r)
<1>1. N \in 0 .. Square - 1 /\ D \in 0 .. Square - 1 /\ Square \in Nat /\ P \in Nat \ {0}
  BY LongIs, Sizes, PlaceOf
<1>2. b.q \in Long /\ b.r \in Long /\ V < D
  BY DEF IsPartOf
<1>3. PICK m \in Nat : ValueOf(b.q) = m * (2 * P) /\ m * D + V = N \div (2 * P)
  BY DEF IsPartOf
<1>4. V \in Nat
  BY <1>1, <1>2, LongIs
<1>5. one = (N \div P) % 2
  BY BitIs
<1>6. N \div P \in Nat /\ one \in {0, 1} /\ N \div P = 2 * (m * D + V) + one /\ N \div P <= N
  <2>1. N \in Nat
    BY <1>1
  <2> HIDE DEF N, P, one, D, V
  <2> QED
    BY <1>1, <1>3, <1>5, <2>1, NextBit
<1> HIDE DEF N, D, P, one, V
<1>7. m * D \in Nat
  <2>1. D \in Nat
    BY <1>1
  <2> QED
    BY <2>1
<1>8. 2 * V + one < Square /\ N \div P = 2 * (m * D) + (2 * V + one)
  BY <1>1, <1>4, <1>6, <1>7
<1>9. r \in Long /\ ValueOf(r) = 2 * V + one
  BY <1>2, <1>6, <1>8, BroughtDown DEF V
<1>10. NextDigit(b, n, d, bit) = IF u64_ge(r, d) THEN [q |-> u64_set_bit(b.q, bit), r |-> u64_sub(r, d)]
                                 ELSE [q |-> b.q, r |-> r]
  BY DEF NextDigit, one
<1> HIDE DEF s, r
<1>11. u64_ge(r, d) <=> ValueOf(r) >= D
  BY <1>9, PairOrder DEF D
<1>12. CASE u64_ge(r, d)
  <2> DEFINE c == NextDigit(b, n, d, bit)
  <2>1. c.q = u64_set_bit(b.q, bit) /\ c.r = u64_sub(r, d)
    BY <1>10, <1>12
  <2>2. c.q \in Long /\ ValueOf(c.q) = (2 * m + 1) * P
    BY <1>2, <1>3, <2>1, BitSet DEF P
  <2>3. c.r \in Long /\ ValueOf(c.r) = ValueOf(r) - D
    BY <1>9, <1>11, <1>12, <2>1, PairDifference DEF D
  <2> HIDE DEF c
  <2> DEFINE k == 2 * m + 1
  <2>4. k \in Nat /\ k * D = 2 * (m * D) + D
    <3>1. D \in Nat
      BY <1>1
    <3> QED
      BY <3>1
  <2>5. ValueOf(c.q) = k * P
    BY <2>2
  <2> HIDE DEF k
  <2>6. ValueOf(c.r) < D /\ k * D + ValueOf(c.r) = N \div P
    BY <1>1, <1>2, <1>4, <1>6, <1>7, <1>8, <1>9, <2>3, <2>4
  <2> QED
    BY <2>2, <2>3, <2>4, <2>5, <2>6 DEF IsPartOf, N, D, P, c
<1>13. CASE ~u64_ge(r, d)
  <2> DEFINE c == NextDigit(b, n, d, bit)
  <2>1. c.q = b.q /\ c.r = r
    BY <1>10, <1>13
  <2> HIDE DEF c
  <2> DEFINE k == 2 * m
  <2>2. k \in Nat /\ k * D = 2 * (m * D) /\ m * (2 * P) = k * P
    <3>1. D \in Nat
      BY <1>1
    <3> QED
      BY <1>1, <3>1
  <2> HIDE DEF k
  <2>3. ValueOf(c.q) = k * P
    BY <1>3, <2>1, <2>2
  <2>4. ValueOf(c.r) < D /\ k * D + ValueOf(c.r) = N \div P
    BY <1>1, <1>4, <1>6, <1>8, <1>9, <1>11, <1>13, <2>1, <2>2
  <2> QED
    BY <1>2, <1>9, <2>1, <2>2, <2>3, <2>4 DEF IsPartOf, N, D, P, c
<1> QED
  BY <1>12, <1>13

ZeroPair == Pair(0, 0)

LEMMA ZeroIs ==
  ASSUME IntAssumption
  PROVE  /\ ZeroPair \in Long /\ ValueOf(ZeroPair) = 0
         /\ \A v \in Long : v = ZeroPair <=> ValueOf(v) = 0
<1>1. Base \in Nat /\ Base > 1
  BY Sizes
<1>2. Low(0) = 0
  <2>1. 0 \in 0 .. Base - 1 /\ 0 \in Int
    BY <1>1
  <2> QED
    BY <2>1, LowIs
<1>3. ZeroPair = [hi |-> 0, lo |-> 0]
  BY <1>2 DEF ZeroPair, Pair
<1>4. ZeroPair \in Long /\ ValueOf(ZeroPair) = 0
  <2>1. 0 * Base + 0 = 0
    BY <1>1
  <2> QED
    BY <1>1, <1>3, <2>1 DEF Long, ValueOf
<1>5. ASSUME NEW v \in Long, ValueOf(v) = 0 PROVE v = ZeroPair
  <2>1. v.hi \in Nat /\ v.lo \in Nat /\ v.hi * Base \in Nat /\ v.hi * Base + v.lo = 0 /\ v = [hi |-> v.hi, lo |-> v.lo]
    BY <1>1, <1>5, LongIs
  <2>2. v.hi <= v.hi * Base
    BY <1>1, <2>1, ProductBelow
  <2>3. v.hi = 0 /\ v.lo = 0
    BY <2>1, <2>2
  <2> QED
    BY <1>3, <2>1, <2>3
<1> QED
  BY <1>4, <1>5

Divisions == [q : Long, r : Long]

LEMMA DigitIs ==
  ASSUME IntAssumption, NEW n \in Long, NEW d \in Long, NEW bit \in 0 .. 2 * Word - 1, NEW b \in Divisions
  PROVE  NextDigit(b, n, d, bit) \in Divisions
<1> DEFINE s == u64_shl1(b.r)
           one == u64_bit(n, bit)
           r == Pair(s.hi, s.lo + one)
<1>1. Base \in Nat /\ Base > 1
  BY Sizes
<1>2. b.q \in Long /\ b.r \in Long
  BY DEF Divisions
<1>3. s \in Long
  BY <1>2, ShiftLeft
<1>4. one \in Int
  <2>1. ValueOf(n) \in Nat /\ Pow2[bit] \in Nat \ {0}
    <3>1. Square \in Nat
      BY Sizes
    <3> QED
      BY <3>1, LongIs, PlaceOf
  <2>2. (ValueOf(n) \div Pow2[bit]) % 2 \in {0, 1}
    BY <2>1, NextBit
  <2> QED
    BY <2>2, BitIs
<1> HIDE DEF s, one
<1>5. r \in Long
  <2>1. s.hi \in Int /\ s.lo + one \in Int
    BY <1>1, <1>3, <1>4, LongIs
  <2> DEFINE y == s.lo + one
  <2> HIDE DEF y
  <2> QED
    BY <2>1, PairIs DEF y
<1> HIDE DEF r
<1>6. u64_set_bit(b.q, bit) \in Long
  <2> DEFINE y == b.q.lo + Pow2[bit]
             z == b.q.hi + Pow2[bit - Word]
  <2>1. b.q.hi \in Int /\ b.q.lo \in Int
    BY <1>1, <1>2, LongIs
  <2>2. y \in Int
    BY <2>1, PlaceOf
  <2>3. ~(bit < Word) => z \in Int
    BY <2>1, PlaceOf
  <2>4. u64_set_bit(b.q, bit) = IF bit < Word THEN Pair(b.q.hi, y) ELSE Pair(z, b.q.lo)
    BY DEF u64_set_bit
  <2> HIDE DEF y, z
  <2>5. CASE bit < Word
    BY <2>1, <2>2, <2>4, <2>5, PairIs
  <2>6. CASE ~(bit < Word)
    BY <2>1, <2>3, <2>4, <2>6, PairIs
  <2> QED
    BY <2>5, <2>6
<1>7. u64_sub(r, d) \in Long
  <2> DEFINE y == r.hi - d.hi - Carry(r.lo < d.lo)
             z == r.lo - d.lo
  <2>1. r.hi \in Int /\ r.lo \in Int /\ d.hi \in Int /\ d.lo \in Int
    BY <1>1, <1>5, LongIs
  <2>2. Carry(r.lo < d.lo) \in Int
    BY DEF Carry
  <2>3. y \in Int /\ z \in Int
    BY <2>1, <2>2
  <2>4. u64_sub(r, d) = Pair(y, z)
    BY DEF u64_sub
  <2> HIDE DEF y, z
  <2> QED
    BY <2>3, <2>4, PairIs
<1>8. NextDigit(b, n, d, bit) = IF u64_ge(r, d) THEN [q |-> u64_set_bit(b.q, bit), r |-> u64_sub(r, d)]
                                ELSE [q |-> b.q, r |-> r]
  BY DEF NextDigit, one, s, r
<1> QED
  BY <1>2, <1>5, <1>6, <1>7, <1>8 DEF Divisions

\* The state of udivmod64 before its first round, and the quotient it makes.
LongQuotient(res, n, d) == res.q \in Long /\ res.r \in Long /\ ValueOf(res.q) * d + ValueOf(res.r) = n /\ ValueOf(res.r) < d

LEMMA LongDivides ==
  ASSUME IntAssumption, NEW n \in Long, NEW d \in Long, ValueOf(d) # 0
  PROVE  LongQuotient(udivmod64(n, d), ValueOf(n), ValueOf(d))
<1> DEFINE m == 2 * Word
           N == ValueOf(n)
           D == ValueOf(d)
           start == [q |-> Pair(0, 0), r |-> Pair(0, 0)]
           g == [a \in (1 .. m) \X Divisions |-> NextDigit(a[2], n, d, m - a[1])]
           Digit1(before, i) ==
             LET bit == 2 * Word - i
                 s == u64_shl1(before.r)
                 r == Pair(s.hi, s.lo + u64_bit(n, bit))
             IN IF u64_ge(r, d) THEN [q |-> u64_set_bit(before.q, bit), r |-> u64_sub(r, d)]
                ELSE [q |-> before.q, r |-> r]
           Eq(X) == X = [i \in 0 .. 2 * Word |-> IF i = 0 THEN start ELSE Digit1(X[i - 1], i)]
           Z == CHOOSE X : Eq(X)
<1>1. m \in Nat /\ Word \in Nat /\ m = 2 * Word /\ Square \in Nat /\ Pow2[m] = Square /\ Pow2[0] = 1
  BY Sizes, Pow2Is
<1>2. N \in 0 .. Square - 1 /\ D \in 0 .. Square - 1 /\ N \in Nat /\ D \in Nat /\ D > 0
  BY <1>1, LongIs
<1>3. ASSUME NEW i \in 1 .. m, NEW b PROVE Digit1(b, i) = NextDigit(b, n, d, m - i)
  BY DEF NextDigit
<1>4. udivmod64(n, d) = Z[m]
  <2>1. d # Pair(0, 0)
    BY ZeroIs DEF ZeroPair
  <2>2. udivmod64(n, d) = IF d = Pair(0, 0) THEN [q |-> Pair(-1, -1), r |-> n] ELSE Z[m]
    BY DEF udivmod64
  <2> HIDE DEF Z
  <2> QED
    BY <2>1, <2>2
<1> HIDE DEF Digit1
<1>5. start \in Divisions /\ start.q = ZeroPair /\ start.r = ZeroPair
  BY ZeroIs DEF ZeroPair, Divisions
<1> HIDE DEF start, N, D
<1>6. g \in [(1 .. m) \X Divisions -> Divisions]
  <2>1. \A i \in 1 .. m : m - i \in 0 .. 2 * Word - 1
    BY <1>1
  <2> HIDE DEF m
  <2> QED
    BY <2>1, DigitIs
<1>7. PICK X : Recursive(X, m, start, g, Divisions)
  <2> HIDE DEF g, m
  <2> QED
    BY <1>1, <1>5, <1>6, RecursionExists
<1>8. Eq(X)
  <2>1. X = [i \in 0 .. m |-> X[i]] /\ X[0] = start
    BY <1>7 DEF Recursive
  <2>2. ASSUME NEW i \in 1 .. m PROVE X[i] = Digit1(X[i - 1], i)
    <3>1. X[i] = g[<<i, X[i - 1]>>]
      BY <1>7 DEF Recursive
    <3>2. i - 1 \in 0 .. m
      BY <1>1
    <3>3. X[i - 1] \in Divisions
      BY <1>7, <3>2 DEF Recursive
    <3>4. X[i] = NextDigit(X[i - 1], n, d, m - i)
      BY <3>1, <3>3
    <3> QED
      BY <1>3, <3>4
  <2>3. \A i \in 0 .. m : i = 0 \/ i \in 1 .. m
    BY <1>1
  <2> HIDE DEF g
  <2> QED
    BY <2>1, <2>2, <2>3
<1>9. Eq(Z)
  <2> HIDE DEF Eq
  <2> QED
    BY <1>8, Zenon
<1> HIDE DEF Z, g
<1>10. Z[0] = start
  <2>1. 0 \in 0 .. 2 * Word
    BY <1>1
  <2> QED
    BY <1>9, <2>1
<1>11. ASSUME NEW i \in 1 .. m PROVE Z[i] = NextDigit(Z[i - 1], n, d, m - i)
  <2>1. i \in 0 .. 2 * Word /\ i # 0
    BY <1>1
  <2>2. Z[i] = Digit1(Z[i - 1], i)
    BY <1>9, <2>1
  <2> QED
    BY <1>3, <2>2
<1> HIDE DEF Eq, m
<1> DEFINE T == {i \in 0 .. m : IsPartOf(Z[i], N, D, Pow2[m - i])}
<1>12. 0 \in T
  <2>1. N \div Square = 0
    <3>1. N = Square * 0 + N /\ N \in Int /\ 0 \in Int /\ Square \in Nat \ {0}
      BY <1>1, <1>2
    <3> QED
      BY <1>2, <3>1, QuotientIs
  <2>2. m - 0 = m /\ 0 \in 0 .. m
    BY <1>1
  <2>3. 0 * Square = 0 /\ 0 * D + 0 = 0 /\ 0 \in Nat
    BY <1>1, <1>2
  <2>4. IsPartOf(start, N, D, Square)
    <3>1. ValueOf(start.q) = 0 * Square /\ 0 * D + ValueOf(start.r) = N \div Square
      BY <1>5, <2>1, <2>3, ZeroIs
    <3> QED
      BY <1>2, <1>5, <2>3, <3>1, ZeroIs DEF IsPartOf
  <2> QED
    BY <1>1, <1>10, <2>2, <2>4
<1>13. ASSUME NEW k \in 0 .. m - 1, k \in T PROVE k + 1 \in T
  <2> DEFINE bit == m - (k + 1)
  <2>1. k + 1 \in 1 .. m /\ k + 1 \in 0 .. m /\ (k + 1) - 1 = k /\ bit \in 0 .. 2 * Word - 1 /\ m - k = bit + 1
        /\ bit \in Nat
    BY <1>1
  <2>2. Z[k + 1] = NextDigit(Z[k], n, d, bit)
    BY <1>11, <2>1
  <2>3. IsPartOf(Z[k], N, D, Pow2[m - k])
    BY <1>13
  <2> HIDE DEF bit, T
  <2>4. Pow2[m - k] = 2 * Pow2[bit]
    BY <2>1, Pow2Is
  <2>5. IsPartOf(Z[k], N, D, 2 * Pow2[bit])
    BY <2>3, <2>4
  <2>6. IsPartOf(NextDigit(Z[k], n, d, bit), N, D, Pow2[bit])
    BY <1>2, <2>1, <2>5, DigitStep DEF N, D
  <2> QED
    BY <2>1, <2>2, <2>6 DEF T, bit
<1>14. m \in T
  <2> HIDE DEF T
  <2>1. Steps(T, m)
    BY <1>13 DEF Steps
  <2> QED
    BY <1>1, <1>12, <2>1, UpTo
<1>15. IsPartOf(Z[m], N, D, 1)
  <2>1. m - m = 0
    BY <1>1
  <2> QED
    BY <1>1, <1>14, <2>1
<1>16. N \div 1 = N
  <2>1. N = 1 * N + 0 /\ 0 \in 0 .. 1 - 1 /\ 1 \in Nat \ {0} /\ N \in Int
    BY <1>2
  <2> QED
    BY <2>1, QuotientIs
<1>17. PICK k \in Nat : ValueOf(Z[m].q) = k * 1 /\ k * D + ValueOf(Z[m].r) = N \div 1
  BY <1>15 DEF IsPartOf
<1>18. ValueOf(Z[m].q) = k
  BY <1>17
<1> QED
  BY <1>4, <1>15, <1>16, <1>17, <1>18 DEF IsPartOf, LongQuotient, N, D

LEMMA LongByZero ==
  ASSUME IntAssumption, NEW n \in Long
  PROVE  /\ udivmod64(n, ZeroPair).q \in Long /\ udivmod64(n, ZeroPair).r = n
         /\ ValueOf(udivmod64(n, ZeroPair).q) = Square - 1
<1>1. Base \in Nat /\ Base > 1
  BY Sizes
<1>2. udivmod64(n, ZeroPair) = [q |-> Pair(-1, -1), r |-> n]
  <2>1. udivmod64(n, Pair(0, 0)).q = Pair(-1, -1) /\ udivmod64(n, Pair(0, 0)).r = n
        /\ udivmod64(n, Pair(0, 0)) = [q |-> Pair(-1, -1), r |-> n]
    BY DEF udivmod64
  <2> QED
    BY <2>1 DEF ZeroPair
<1>3. Low(-1) = Base - 1 /\ -1 \in Int
  BY AllOnes
<1> DEFINE z == -1
<1>4. z \in Int /\ Low(z) = Base - 1
  BY <1>3
<1>5. udivmod64(n, ZeroPair) = [q |-> Pair(z, z), r |-> n]
  BY <1>2
<1> HIDE DEF z
<1>6. Pair(z, z) \in Long /\ Pair(z, z).hi = Base - 1 /\ Pair(z, z).lo = Base - 1
  BY <1>4, PairIs
<1>7. ValueOf(Pair(z, z)) = (Base - 1) * Base + (Base - 1)
  BY <1>6 DEF ValueOf
<1>8. (Base - 1) * Base = Base * Base - Base /\ Base * Base \in Int
  BY <1>1
<1>9. ValueOf(Pair(z, z)) = Square - 1
  BY <1>1, <1>7, <1>8 DEF Square
<1> QED
  BY <1>5, <1>6, <1>9

LEMMA LongOpposite ==
  ASSUME IntAssumption, NEW v \in Long
  PROVE  u64_neg(v) \in Long /\ ValueOf(u64_neg(v)) = Opposite(ValueOf(v), Half * Base)
<1>1. Base \in Nat /\ Base > 1 /\ Square \in Nat /\ Square = 2 * (Half * Base) /\ Square = Base * Base
  BY Sizes DEF Square
<1>2. /\ v.hi \in 0 .. Base - 1 /\ v.lo \in 0 .. Base - 1 /\ v.hi * Base \in Nat
      /\ ValueOf(v) = v.hi * Base + v.lo
  BY LongIs
<1> DEFINE lo == Low(Flip(v.lo) + 1)
           a == Flip(v.hi) + Carry(lo = 0)
<1>3. u64_neg(v) = Pair(a, lo)
  BY DEF u64_neg
<1>4. Flip(v.lo) + 1 = Base - v.lo /\ Base - v.lo \in Int /\ Flip(v.hi) = Base - 1 - v.hi
  BY <1>1, <1>2 DEF Flip
<1>5. CASE v.lo = 0
  <2>1. lo = 0
    <3>1. Base - v.lo = Base /\ Base \in Base .. 2 * Base - 1 /\ Base \in Int
      BY <1>1, <1>5
    <3>2. Low(Base) = Base - Base
      BY <3>1, LowIs
    <3> QED
      BY <1>1, <1>4, <3>1, <3>2
  <2>2. Carry(lo = 0) = 1
    BY <2>1 DEF Carry
  <2>3. a = Base - v.hi /\ a \in Int
    BY <1>1, <1>2, <1>4, <2>2
  <2> HIDE DEF lo, a
  <2>4. Low(lo) = 0 /\ lo \in Int
    <3>1. 0 \in 0 .. Base - 1 /\ 0 \in Int
      BY <1>1
    <3> QED
      BY <2>1, <3>1, LowIs
  <2>5. Pair(a, lo) \in Long /\ Pair(a, lo).hi = Low(a) /\ Pair(a, lo).lo = 0
    BY <2>3, <2>4, PairIs
  <2>6. ValueOf(Pair(a, lo)) = Low(a) * Base + 0
    BY <2>5 DEF ValueOf
  <2>7. CASE v.hi = 0
    <3>1. a \in Base .. 2 * Base - 1 /\ a - Base = 0
      BY <1>1, <2>3, <2>7
    <3>2. Low(a) = 0
      BY <2>3, <3>1, LowIs
    <3>3. 0 * Base = 0
      BY <1>1
    <3>4. ValueOf(v) = 0
      BY <1>2, <1>5, <2>7, <3>3
    <3> QED
      BY <1>3, <2>5, <2>6, <3>2, <3>3, <3>4 DEF Opposite, lo, a
  <2>8. CASE v.hi # 0
    <3>1. a \in 0 .. Base - 1
      BY <1>1, <1>2, <2>3, <2>8
    <3>2. Low(a) = a
      BY <2>3, <3>1, LowIs
    <3>3. (Base - v.hi) * Base = Base * Base - v.hi * Base /\ Base * Base \in Int
      <4>1. ASSUME NEW x \in Int, NEW y \in Int PROVE (x - y) * x = x * x - y * x /\ x * x \in Int
        OBVIOUS
      <4>2. v.hi \in Int /\ Base \in Int
        BY <1>1, <1>2
      <4> QED
        BY <4>1, <4>2
    <3>4. ValueOf(Pair(a, lo)) = Square - ValueOf(v)
      BY <1>1, <1>2, <1>5, <2>3, <2>6, <3>2, <3>3
    <3>5. ValueOf(v) # 0
      <4>1. v.hi \in Nat /\ v.hi > 0
        BY <1>1, <1>2, <2>8
      <4>2. v.hi <= v.hi * Base
        BY <1>1, <4>1, ProductBelow
      <4> QED
        BY <1>1, <1>2, <4>1, <4>2
    <3> QED
      BY <1>1, <1>3, <2>5, <3>4, <3>5 DEF Opposite, lo, a
  <2> QED
    BY <2>7, <2>8
<1>6. CASE v.lo # 0
  <2>1. lo = Base - v.lo
    <3>1. Base - v.lo \in 0 .. Base - 1
      BY <1>1, <1>2, <1>6
    <3>2. Low(Base - v.lo) = Base - v.lo
      BY <1>4, <3>1, LowIs
    <3> QED
      BY <1>4, <3>2
  <2>2. Carry(lo = 0) = 0
    BY <1>1, <1>2, <2>1 DEF Carry
  <2>3. a = Base - 1 - v.hi /\ a \in 0 .. Base - 1 /\ lo \in 0 .. Base - 1
    BY <1>1, <1>2, <1>4, <1>6, <2>1, <2>2
  <2> HIDE DEF lo, a
  <2>4. Low(lo) = lo /\ Low(a) = a /\ a \in Int /\ lo \in Int
    BY <1>1, <2>3, LowIs
  <2>5. Pair(a, lo) \in Long /\ Pair(a, lo).hi = a /\ Pair(a, lo).lo = lo
    BY <2>4, PairIs
  <2>6. ValueOf(Pair(a, lo)) = a * Base + lo
    BY <2>5 DEF ValueOf
  <2>7. a * Base = Base * Base - Base - v.hi * Base /\ Base * Base \in Int
    <3>1. ASSUME NEW x \in Int, NEW y \in Int PROVE (x - 1 - y) * x = x * x - x - y * x /\ x * x \in Int
      OBVIOUS
    <3>2. v.hi \in Int /\ Base \in Int
      BY <1>1, <1>2
    <3>3. (Base - 1 - v.hi) * Base = Base * Base - Base - v.hi * Base /\ Base * Base \in Int
      BY <3>1, <3>2
    <3> QED
      BY <2>3, <3>3
  <2>8. ValueOf(Pair(a, lo)) = Square - ValueOf(v) /\ ValueOf(v) # 0
    BY <1>1, <1>2, <1>6, <2>1, <2>6, <2>7
  <2> QED
    BY <1>1, <1>3, <2>5, <2>8 DEF Opposite, lo, a
<1> QED
  BY <1>5, <1>6

LEMMA LongSign ==
  ASSUME IntAssumption, NEW v \in Long
  PROVE  TopBit(v.hi) <=> ValueOf(v) >= Half * Base
<1>1. Base \in Nat /\ Base > 1 /\ Half \in Nat /\ Half * Base \in Nat
  BY Sizes
<1>2. /\ v.hi \in 0 .. Base - 1 /\ v.lo \in 0 .. Base - 1 /\ v.hi * Base \in Nat
      /\ ValueOf(v) = v.hi * Base + v.lo /\ v.hi \in Nat
  BY <1>1, LongIs
<1>3. CASE v.hi >= Half
  <2>1. Half * Base <= v.hi * Base
    BY <1>1, <1>2, <1>3, ProductBelow
  <2> QED
    BY <1>1, <1>2, <1>3, <2>1 DEF TopBit
<1>4. CASE v.hi < Half
  <2>1. v.hi * Base + Base <= Half * Base
    BY <1>1, <1>2, <1>4, ProductBelow
  <2> QED
    BY <1>1, <1>2, <1>4, <2>1 DEF TopBit
<1> QED
  BY <1>1, <1>2, <1>3, <1>4

LEMMA LongSignsOff ==
  ASSUME IntAssumption, NEW v \in Long
  PROVE  /\ Sized(v) \in Long /\ ValueOf(Sized(v)) = Unsigned(ValueOf(v), Half * Base)
         /\ Sized(v) = ZeroPair <=> ValueOf(v) = 0
<1>1. Sized(v) \in Long /\ ValueOf(Sized(v)) = Unsigned(ValueOf(v), Half * Base)
  <2>1. CASE TopBit(v.hi)
    BY <2>1, LongSign, LongOpposite DEF Sized, Unsigned
  <2>2. CASE ~TopBit(v.hi)
    BY <2>2, LongSign DEF Sized, Unsigned
  <2> QED
    BY <2>1, <2>2
<1> DEFINE h == Half * Base
           x == ValueOf(v)
<1>2. h \in Nat /\ h > 0 /\ x \in 0 .. 2 * h - 1
  <2>1. Square = 2 * h /\ h \in Nat /\ h > 0
    BY Sizes
  <2> QED
    BY <2>1, LongIs
<1> HIDE DEF h, x
<1>3. Unsigned(x, h) = 0 <=> x = 0
  BY <1>2 DEF Unsigned, Opposite
<1>4. Sized(v) = ZeroPair <=> ValueOf(Sized(v)) = 0
  BY <1>1, ZeroIs
<1> QED
  BY <1>1, <1>3, <1>4 DEF h, x

Numbered(res) == [q |-> ValueOf(res.q), r |-> ValueOf(res.r)]

LEMMA LongQuotientIs ==
  ASSUME IntAssumption, NEW n \in Long, NEW d \in Long
  PROVE  LET res == udivmod64(n, d)
         IN  /\ ValueOf(d) # 0 => IsQuotientOf(Numbered(res), ValueOf(n), ValueOf(d))
             /\ ValueOf(d) = 0 => Numbered(res).q = Square - 1 /\ Numbered(res).r = ValueOf(n)
             /\ res.q \in Long /\ res.r \in Long
<1> DEFINE res == udivmod64(n, d)
<1>1. CASE ValueOf(d) # 0
  <2>1. LongQuotient(res, ValueOf(n), ValueOf(d))
    BY <1>1, LongDivides
  <2> HIDE DEF res
  <2>2. /\ res.q \in Long /\ res.r \in Long /\ ValueOf(res.q) * ValueOf(d) + ValueOf(res.r) = ValueOf(n)
        /\ ValueOf(res.r) < ValueOf(d)
    BY <2>1 DEF LongQuotient
  <2>3. ValueOf(res.q) \in Nat /\ ValueOf(res.r) \in Nat
    <3>1. Square \in Nat
      BY Sizes
    <3> QED
      BY <2>2, <3>1, LongIs
  <2>4. IsQuotientOf(Numbered(res), ValueOf(n), ValueOf(d))
    BY <2>2, <2>3 DEF IsQuotientOf, Numbered
  <2> QED
    BY <1>1, <2>2, <2>4 DEF res
<1>2. CASE ValueOf(d) = 0
  <2>1. d = ZeroPair
    BY <1>2, ZeroIs
  <2>2. res.q \in Long /\ res.r = n /\ ValueOf(res.q) = Square - 1
    BY <2>1, LongByZero
  <2> HIDE DEF res
  <2> QED
    BY <1>2, <2>2 DEF Numbered, res
<1> QED
  BY <1>1, <1>2

\* uldivmod and ldivmod.
LEMMA LongsDivided ==
  ASSUME IntAssumption, NEW n \in Long, NEW d \in Long
  PROVE  LET u == udivmod64(n, d)
             s == ldivmod64(n, d)
             Of(x) == AsSigned(x, 2 * Word)
         IN  /\ Divided(ValueOf(u.q), ValueOf(u.r), ValueOf(n), ValueOf(d), 2 * Word)
             /\ Divided(Of(ValueOf(s.q)), Of(ValueOf(s.r)), Of(ValueOf(n)), Of(ValueOf(d)), 2 * Word)
<1> DEFINE h == Half * Base
           N == ValueOf(n)
           D == ValueOf(d)
<1>1. h \in Nat \ {0} /\ Square = 2 * h /\ Pow2[2 * Word] = 2 * h /\ Pow2[2 * Word - 1] = h
  BY Sizes
<1>2. N \in 0 .. 2 * h - 1 /\ D \in 0 .. 2 * h - 1
  <2> HIDE DEF h
  <2> QED
    BY <1>1, LongIs
<1>3. LET u == udivmod64(n, d) IN Divided(ValueOf(u.q), ValueOf(u.r), N, D, 2 * Word)
  <2> DEFINE u == udivmod64(n, d)
             res == Numbered(u)
  <2>1. D # 0 => IsQuotientOf(res, N, D)
    BY LongQuotientIs
  <2>2. D = 0 => res.q = Square - 1 /\ res.r = N
    BY LongQuotientIs
  <2>3. res.q = ValueOf(u.q) /\ res.r = ValueOf(u.r)
    BY DEF Numbered
  <2> HIDE DEF h, N, D, u, res
  <2>4. Divided(res.q, res.r, N, D, 2 * Word)
    <3> DEFINE bits == 2 * Word
    <3>1. Pow2[bits] = 2 * h /\ Pow2[bits - 1] = h
      BY <1>1
    <3> HIDE DEF bits
    <3>2. D = 0 => res.q = 2 * h - 1 /\ res.r = N
      BY <1>1, <2>2
    <3>3. Divided(res.q, res.r, N, D, bits)
      BY <1>1, <1>2, <2>1, <3>1, <3>2, UnsignedDivided
    <3> QED
      BY <3>3 DEF bits
  <2>5. Divided(ValueOf(u.q), ValueOf(u.r), N, D, 2 * Word)
    BY <2>3, <2>4
  <2> QED
    BY <2>5 DEF u
<1>4. LET s == ldivmod64(n, d)
          Of(x) == AsSigned(x, 2 * Word)
      IN  Divided(Of(ValueOf(s.q)), Of(ValueOf(s.r)), Of(N), Of(D), 2 * Word)
  <2> DEFINE s == ldivmod64(n, d)
             u == udivmod64(Sized(n), Sized(d))
             res == Numbered(u)
  <2>1. /\ Sized(n) \in Long /\ ValueOf(Sized(n)) = Unsigned(N, h)
        /\ Sized(d) \in Long /\ ValueOf(Sized(d)) = Unsigned(D, h)
        /\ (ValueOf(Sized(d)) = 0 <=> D = 0)
    BY LongSignsOff, ZeroIs
  <2>2. /\ D # 0 => IsQuotientOf(res, Unsigned(N, h), Unsigned(D, h))
        /\ D = 0 => res.q = Square - 1 /\ res.r = Unsigned(N, h)
        /\ u.q \in Long /\ u.r \in Long
    <3> DEFINE x == Sized(n)
               y == Sized(d)
    <3>1. x \in Long /\ y \in Long
      BY <2>1
    <3> HIDE DEF x, y
    <3>2. LET w == udivmod64(x, y)
          IN  /\ ValueOf(y) # 0 => IsQuotientOf(Numbered(w), ValueOf(x), ValueOf(y))
              /\ ValueOf(y) = 0 => Numbered(w).q = Square - 1 /\ Numbered(w).r = ValueOf(x)
              /\ w.q \in Long /\ w.r \in Long
      BY <3>1, LongQuotientIs
    <3> HIDE DEF h, N, D
    <3> QED
      BY <2>1, <3>2 DEF x, y
  <2>3. res.q = ValueOf(u.q) /\ res.r = ValueOf(u.r)
    BY DEF Numbered
  <2>4. s = [q |-> IF TopBit(n.hi) # TopBit(d.hi) THEN u64_neg(u.q) ELSE u.q,
             r |-> IF TopBit(n.hi) THEN u64_neg(u.r) ELSE u.r]
    BY DEF ldivmod64
  <2>5. (TopBit(n.hi) <=> N >= h) /\ (TopBit(d.hi) <=> D >= h)
    BY LongSign
  <2> HIDE DEF s, u, res
  <2>6. ValueOf(u64_neg(u.q)) = Opposite(res.q, h) /\ ValueOf(u64_neg(u.r)) = Opposite(res.r, h)
    BY <2>2, <2>3, LongOpposite
  <2> HIDE DEF h, N, D
  <2>7. Numbered(s) = SignedResult(res, N, D, h)
    <3>1. (TopBit(n.hi) # TopBit(d.hi)) <=> ((N >= h) # (D >= h))
      <4>1. TopBit(n.hi) \in BOOLEAN /\ TopBit(d.hi) \in BOOLEAN /\ (N >= h) \in BOOLEAN /\ (D >= h) \in BOOLEAN
        BY DEF TopBit
      <4> QED
        BY <2>5, <4>1
    <3>2. ValueOf(s.q) = IF (N >= h) # (D >= h) THEN Opposite(res.q, h) ELSE res.q
      BY <2>3, <2>4, <2>6, <3>1
    <3>3. ValueOf(s.r) = IF N >= h THEN Opposite(res.r, h) ELSE res.r
      BY <2>3, <2>4, <2>5, <2>6
    <3> QED
      BY <3>2, <3>3 DEF Numbered, SignedResult
  <2> DEFINE t == Numbered(s)
             bits == 2 * Word
  <2>8. Pow2[bits] = 2 * h /\ Pow2[bits - 1] = h
    BY <1>1
  <2>9. t.q = ValueOf(s.q) /\ t.r = ValueOf(s.r)
    BY DEF Numbered
  <2>10. D = 0 => res.q = 2 * h - 1 /\ res.r = Unsigned(N, h)
    BY <1>1, <2>2
  <2> HIDE DEF t, bits
  <2>11. t = SignedResult(res, N, D, h)
    BY <2>7 DEF t
  <2>12. Divided(AsSigned(t.q, bits), AsSigned(t.r, bits), AsSigned(N, bits), AsSigned(D, bits), bits)
    BY <1>1, <1>2, <2>2, <2>8, <2>10, <2>11, SignedDivided
  <2>13. Divided(AsSigned(ValueOf(s.q), bits), AsSigned(ValueOf(s.r), bits), AsSigned(N, bits), AsSigned(D, bits), bits)
    BY <2>9, <2>12
  <2> QED
    BY <2>13 DEF s, bits
<1> QED
  BY <1>3, <1>4

-----------------------------------------------------------------------------
(***************************************************************************)
(* Product and shifts of pairs.                                            *)
(***************************************************************************)
\* The product of two words from those of their halves, p0 to p3.
LEMMA WordProduct ==
  ASSUME NEW q \in Nat \ {0}, NEW x \in Nat, NEW y \in Nat,
         NEW al \in Nat, NEW ah \in Nat, NEW bl \in Nat, NEW bh \in Nat,
         x = q * ah + al, y = q * bh + bl
  PROVE  x * y = (ah * bh) * (q * q) + (ah * bl + al * bh) * q + al * bl
<1>1. (q * ah + al) * (q * bh + bl) = (ah * bh) * (q * q) + (ah * bl + al * bh) * q + al * bl
  OBVIOUS
<1> QED
  BY <1>1

LEMMA Multiplied ==
  ASSUME IntAssumption, NEW v \in Long, NEW w \in Long
  PROVE  ValueOf(lmul(v, w)) = (ValueOf(v) * ValueOf(w)) % Square
<1> DEFINE q == Pow2[Quarter]
           al == v.lo % q
           ah == v.lo \div q
           bl == w.lo % q
           bh == w.lo \div q
           p0 == al * bl
           p1 == ah * bl
           p2 == al * bh
           p3 == ah * bh
           x0 == p0 \div q
           y0 == p0 % q
           x1 == p1 \div q
           y1 == p1 % q
           x2 == p2 \div q
           y2 == p2 % q
           carry == x0 + y1 + y2
           c == carry \div q
           e == carry % q
           across == v.lo * w.hi + v.hi * w.lo
           a == x1 + x2 + p3 + across
           b == y0 + carry * q
<1>1. q \in Nat \ {0} /\ Base = q * q /\ Base \in Nat /\ Base > 1 /\ Square \in Nat \ {0} /\ Square = Base * Base
  BY Sizes DEF Square
<1>2. /\ v.hi \in Nat /\ v.lo \in Nat /\ ValueOf(v) = v.hi * Base + v.lo
      /\ w.hi \in Nat /\ w.lo \in Nat /\ ValueOf(w) = w.hi * Base + w.lo
  BY <1>1, LongIs
<1>3. lmul(v, w) = Pair(x1 + x2 + p3 + c + v.lo * w.hi + v.hi * w.lo, b)
  BY DEF lmul
<1> HIDE DEF q
<1>4. ASSUME NEW n \in Nat PROVE n % q \in 0 .. q - 1 /\ n % q \in Nat /\ n \div q \in Nat /\ n = q * (n \div q) + (n % q)
  <2>1. n \in Int /\ n >= 0
    OBVIOUS
  <2>2. n % q \in 0 .. q - 1 /\ n \div q \in Int /\ n = q * (n \div q) + (n % q) /\ (n >= 0 => n \div q \in Nat)
    BY <1>1, <2>1, RemainderOf
  <2> DEFINE y == n % q
             z == n \div q
  <2>3. y \in 0 .. q - 1 /\ z \in Nat
    BY <2>1, <2>2
  <2> HIDE DEF y, z
  <2>4. y \in Nat
    BY <1>1, <2>3
  <2> QED
    BY <2>2, <2>3, <2>4 DEF y, z
<1>5. al \in Nat /\ ah \in Nat /\ v.lo = q * ah + al /\ bl \in Nat /\ bh \in Nat /\ w.lo = q * bh + bl
  BY <1>2, <1>4
<1> HIDE DEF al, ah, bl, bh
<1>6. p0 \in Nat /\ p1 \in Nat /\ p2 \in Nat /\ p3 \in Nat
  BY <1>5
<1>7. v.lo * w.lo = p3 * (q * q) + (p1 + p2) * q + p0
  BY <1>1, <1>2, <1>5, WordProduct
<1> HIDE DEF p0, p1, p2, p3
<1>8. /\ x0 \in Nat /\ y0 \in 0 .. q - 1 /\ p0 = q * x0 + y0 /\ y0 \in Nat
      /\ x1 \in Nat /\ y1 \in Nat /\ p1 = q * x1 + y1
      /\ x2 \in Nat /\ y2 \in Nat /\ p2 = q * x2 + y2
  BY <1>4, <1>6
<1> HIDE DEF x0, y0, x1, y1, x2, y2
<1>9. carry \in Nat
  BY <1>8
<1>10. c \in Nat /\ e \in 0 .. q - 1 /\ carry = q * c + e
  BY <1>4, <1>9
<1> HIDE DEF c, e
<1>11. across \in Nat /\ a \in Int
  <2>1. across \in Nat
    BY <1>2
  <2> HIDE DEF across
  <2> QED
    BY <1>6, <1>8, <2>1
<1>12. x1 + x2 + p3 + c + v.lo * w.hi + v.hi * w.lo = a + c
  <2> DEFINE y == v.lo * w.hi
             z == v.hi * w.lo
  <2>1. y \in Int /\ z \in Int
    BY <1>2
  <2> HIDE DEF y, z
  <2>2. x1 + x2 + p3 + c + y + z = (x1 + x2 + p3 + (y + z)) + c
    BY <1>6, <1>8, <1>10, <2>1
  <2> QED
    BY <2>2 DEF y, z
<1>13. carry * q \in Int /\ b \in Int /\ b - c * Base \in 0 .. Base - 1
  <2>1. (q * c + e) * q = c * (q * q) + e * q
    BY <1>1, <1>10
  <2>2. carry * q = c * Base + e * q
    BY <1>1, <1>10, <2>1
  <2>3. e * q + q <= q * q /\ e * q \in Nat
    <3>1. e \in Nat /\ q \in Nat /\ e < q
      BY <1>1, <1>10
    <3> QED
      BY <3>1, ProductBelow
  <2>4. c * Base \in Int
    BY <1>1, <1>10
  <2> HIDE DEF carry
  <2> QED
    BY <1>1, <1>8, <2>2, <2>3, <2>4
<1>14. a * Base + b = v.lo * w.lo + across * Base
  <2>1. p1 * q = x1 * Base + y1 * q /\ p2 * q = x2 * Base + y2 * q
    <3>1. ASSUME NEW x \in Nat, NEW y \in Nat PROVE (q * x + y) * q = x * (q * q) + y * q
      BY <1>1
    <3> QED
      BY <1>1, <1>8, <3>1
  <2>2. (p1 + p2) * q = p1 * q + p2 * q
    BY <1>1, <1>6
  <2>3. carry * q = x0 * q + y1 * q + y2 * q
    BY <1>1, <1>8
  <2>4. (x1 + x2 + p3 + across) * Base = x1 * Base + x2 * Base + p3 * Base + across * Base
    <3> HIDE DEF across
    <3>1. ASSUME NEW r1 \in Int, NEW r2 \in Int, NEW r3 \in Int, NEW r4 \in Int, NEW z \in Int
          PROVE  (r1 + r2 + r3 + r4) * z = r1 * z + r2 * z + r3 * z + r4 * z
      OBVIOUS
    <3> QED
      BY <1>1, <1>6, <1>8, <1>11, <3>1
  <2>5. p0 = x0 * q + y0
    BY <1>1, <1>8
  <2>6. /\ x1 * Base \in Int /\ x2 * Base \in Int /\ p3 * Base \in Int /\ across * Base \in Int
        /\ x0 * q \in Int /\ y1 * q \in Int /\ y2 * q \in Int
    <3> HIDE DEF across
    <3> QED
      BY <1>1, <1>6, <1>8, <1>11
  <2> DEFINE s1 == x1 * Base
             s2 == x2 * Base
             s3 == p3 * Base
             s4 == across * Base
             s5 == x0 * q
             s6 == y1 * q
             s7 == y2 * q
  <2>7. /\ a * Base = s1 + s2 + s3 + s4 /\ b = y0 + (s5 + s6 + s7)
        /\ v.lo * w.lo = s3 + ((s1 + s6) + (s2 + s7)) + (s5 + y0)
    BY <1>1, <1>7, <2>1, <2>2, <2>3, <2>4, <2>5
  <2>8. s1 \in Int /\ s2 \in Int /\ s3 \in Int /\ s4 \in Int /\ s5 \in Int /\ s6 \in Int /\ s7 \in Int
    BY <2>6
  <2>9. across * Base = s4
    OBVIOUS
  <2> HIDE DEF s1, s2, s3, s4, s5, s6, s7, a, b, across
  <2> QED
    BY <1>8, <2>7, <2>8, <2>9
<1>15. ValueOf(v) * ValueOf(w) = (v.lo * w.lo + across * Base) + Square * (v.hi * w.hi)
  <2>1. ASSUME NEW r1 \in Nat, NEW r2 \in Nat, NEW r3 \in Nat, NEW r4 \in Nat, NEW z \in Nat
        PROVE  (r1 * z + r2) * (r3 * z + r4) = (r2 * r4 + (r2 * r3 + r1 * r4) * z) + (z * z) * (r1 * r3)
    OBVIOUS
  <2> QED
    BY <1>1, <1>2, <2>1
<1>16. ValueOf(Pair(a + c, b)) = (a * Base + b) % Square
  <2> HIDE DEF a, b
  <2>1. c \in Int
    BY <1>10
  <2> QED
    BY <1>11, <1>13, <2>1, ValueOfPair
<1> DEFINE y == v.lo * w.lo + across * Base
           z == v.hi * w.hi
<1>17. y \in Int /\ z \in Int
  <2> HIDE DEF across
  <2> QED
    BY <1>1, <1>2, <1>11
<1>18. (y + Square * z) % Square = y % Square
  <2> HIDE DEF y, z
  <2> QED
    BY <1>1, <1>17, WholeTurns
<1> QED
  BY <1>3, <1>12, <1>14, <1>15, <1>16, <1>18

LEMMA ShiftedLeft ==
  ASSUME IntAssumption, NEW v \in Long, NEW count \in Nat
  PROVE  ValueOf(llsl(v, count)) = (ValueOf(v) * Pow2[count]) % Square
<1> DEFINE start == v
           Next1(w) == u64_shl1(w)
           g == [a \in (1 .. count) \X Long |-> Next1(a[2])]
           Eq(X) == X = [i \in 0 .. count |-> IF i = 0 THEN start ELSE Next1(X[i - 1])]
           Z == CHOOSE X : Eq(X)
<1>1. llsl(v, count) = Z[count]
  BY DEF llsl
<1>2. ASSUME NEW w \in Long PROVE Next1(w) \in Long /\ ValueOf(Next1(w)) = (2 * ValueOf(w)) % Square
  BY ShiftLeft
<1>3. start \in Long /\ start = v
  OBVIOUS
<1> HIDE DEF Next1, start
<1>4. g \in [(1 .. count) \X Long -> Long]
  BY <1>2
<1>5. PICK X : Recursive(X, count, start, g, Long)
  <2> HIDE DEF g
  <2> QED
    BY <1>3, <1>4, RecursionExists
<1>6. Eq(X)
  <2>1. X = [i \in 0 .. count |-> X[i]] /\ X[0] = start
    BY <1>5 DEF Recursive
  <2>2. ASSUME NEW i \in 1 .. count PROVE X[i] = Next1(X[i - 1])
    <3>1. X[i] = g[<<i, X[i - 1]>>]
      BY <1>5 DEF Recursive
    <3>2. i - 1 \in 0 .. count
      OBVIOUS
    <3>3. X[i - 1] \in Long
      BY <1>5, <3>2 DEF Recursive
    <3> QED
      BY <3>1, <3>3
  <2>3. \A i \in 0 .. count : i = 0 \/ i \in 1 .. count
    OBVIOUS
  <2> HIDE DEF g
  <2> QED
    BY <2>1, <2>2, <2>3
<1>7. Eq(Z)
  <2> HIDE DEF Eq
  <2> QED
    BY <1>6, Zenon
<1> HIDE DEF Z, g
<1>8. Z[0] = v
  <2>1. 0 \in 0 .. count
    OBVIOUS
  <2> QED
    BY <1>3, <1>7, <2>1
<1>9. ASSUME NEW i \in 1 .. count PROVE Z[i] = Next1(Z[i - 1])
  <2>1. i \in 0 .. count /\ i # 0
    OBVIOUS
  <2> QED
    BY <1>7, <2>1
<1> HIDE DEF Eq
<1> DEFINE V == ValueOf(v)
           T == {i \in 0 .. count : Z[i] \in Long /\ ValueOf(Z[i]) = (V * Pow2[i]) % Square}
<1>10. V \in 0 .. Square - 1 /\ V \in Nat /\ Square \in Nat \ {0}
  BY LongIs, Sizes
<1>11. 0 \in T
  <2>1. V * Pow2[0] = V /\ V % Square = V
    <3>1. V = Square * 0 + V /\ V \in Int /\ 0 \in Int /\ V * 1 = V
      BY <1>10
    <3> HIDE DEF V
    <3>2. V % Square = V
      BY <1>10, <3>1, QuotientIs
    <3> QED
      BY <3>1, <3>2, Pow2Is
  <2>2. 0 \in 0 .. count
    OBVIOUS
  <2> QED
    BY <1>8, <2>1, <2>2
<1>12. ASSUME NEW k \in 0 .. count - 1, k \in T PROVE k + 1 \in T
  <2>1. k + 1 \in 1 .. count /\ k + 1 \in 0 .. count /\ (k + 1) - 1 = k /\ k \in Nat
    OBVIOUS
  <2>2. Z[k + 1] = Next1(Z[k])
    BY <1>9, <2>1
  <2> DEFINE p == Pow2[k]
  <2>3. Pow2[k + 1] = 2 * p /\ p \in Nat \ {0}
    BY <2>1, Pow2Is
  <2>4. Z[k] \in Long /\ ValueOf(Z[k]) = (V * p) % Square
    BY <1>12
  <2>5. Z[k + 1] \in Long /\ ValueOf(Z[k + 1]) = (2 * ((V * p) % Square)) % Square
    BY <1>2, <2>2, <2>4
  <2> HIDE DEF p, V, T
  <2>6. (2 * ((V * p) % Square)) % Square = (V * Pow2[k + 1]) % Square
    <3> DEFINE x == V * p
               r == x % Square
               t == x \div Square
    <3>1. x \in Int /\ V * (2 * p) = 2 * x
      BY <1>10, <2>3
    <3> HIDE DEF x
    <3>2. r \in Int /\ t \in Int /\ x = Square * t + r
      BY <1>10, <3>1, RemainderOf
    <3> HIDE DEF r, t
    <3>3. 2 * r \in Int /\ 2 * t \in Int /\ 2 * x = 2 * r + Square * (2 * t)
      BY <1>10, <3>2
    <3> DEFINE y == 2 * r
               z == 2 * t
    <3>4. (y + Square * z) % Square = y % Square
      <4> HIDE DEF y, z
      <4> QED
        BY <1>10, <3>3, WholeTurns DEF y, z
    <3>5. (2 * x) % Square = (2 * r) % Square
      BY <3>3, <3>4
    <3>6. V * Pow2[k + 1] = 2 * x
      BY <2>3, <3>1
    <3> QED
      BY <3>5, <3>6 DEF r, x
  <2> QED
    BY <2>1, <2>3, <2>5, <2>6 DEF T
<1>13. count \in T
  <2> HIDE DEF T
  <2>1. Steps(T, count)
    BY <1>12 DEF Steps
  <2> QED
    BY <1>11, <2>1, UpTo
<1> QED
  BY <1>1, <1>13 DEF V

LEMMA Halved ==
  ASSUME IntAssumption, NEW w \in Long
  PROVE  LET u == Pair(w.hi \div 2, w.lo \div 2 + (w.hi % 2) * Half)
         IN  u \in Long /\ ValueOf(u) = ValueOf(w) \div 2
<1> DEFINE a == w.hi \div 2
           odd == w.hi % 2
           c == w.lo \div 2
           rest == w.lo % 2
           b == c + odd * Half
<1>1. Base \in Nat /\ Base > 1 /\ Base = 2 * Half /\ Half \in Nat /\ Half > 0
  BY Sizes
<1>2. /\ w.hi \in 0 .. Base - 1 /\ w.lo \in 0 .. Base - 1 /\ w.hi \in Nat /\ w.lo \in Nat
      /\ ValueOf(w) = w.hi * Base + w.lo
  BY <1>1, LongIs
<1>3. ASSUME NEW n \in Nat PROVE n \div 2 \in Nat /\ n % 2 \in 0 .. 1 /\ n = 2 * (n \div 2) + (n % 2)
  <2>1. n \in Int /\ n >= 0 /\ 2 \in Nat \ {0}
    OBVIOUS
  <2> QED
    BY <2>1, RemainderOf
<1>4. a \in Nat /\ odd \in {0, 1} /\ w.hi = 2 * a + odd /\ c \in Nat /\ rest \in {0, 1} /\ w.lo = 2 * c + rest
  BY <1>2, <1>3
<1> HIDE DEF a, odd, c, rest
<1>5. odd * Half \in Nat /\ odd * Half <= Half /\ odd * Base = 2 * (odd * Half)
  <2>1. 0 * Half = 0 /\ 1 * Half = Half /\ 0 * Base = 0 /\ 1 * Base = Base
    BY <1>1
  <2> QED
    BY <1>1, <1>4, <2>1
<1>6. a \in 0 .. Base - 1 /\ b \in 0 .. Base - 1 /\ a \in Int /\ b \in Int
  BY <1>1, <1>2, <1>4, <1>5
<1>7. ValueOf(w) = 2 * (a * Base + b) + rest /\ a * Base \in Int
  <2>1. (2 * a + odd) * Base = 2 * (a * Base) + odd * Base /\ a * Base \in Int
    BY <1>1, <1>4
  <2> QED
    BY <1>2, <1>4, <1>5, <2>1
<1> HIDE DEF b
<1>8. Low(a) = a /\ Low(b) = b
  BY <1>6, LowIs
<1>9. Pair(a, b) \in Long /\ Pair(a, b).hi = a /\ Pair(a, b).lo = b
  BY <1>6, <1>8, PairIs
<1>10. ValueOf(Pair(a, b)) = a * Base + b
  BY <1>9 DEF ValueOf
<1> DEFINE x == a * Base + b
<1>11. x \in Int /\ ValueOf(w) = 2 * x + rest /\ rest \in 0 .. 2 - 1 /\ ValueOf(w) \in Int /\ 2 \in Nat \ {0}
  BY <1>4, <1>6, <1>7
<1> HIDE DEF x
<1>12. ValueOf(w) \div 2 = x
  BY <1>11, QuotientIs
<1> QED
  BY <1>9, <1>10, <1>12 DEF x, a, b, c, odd

LEMMA ShiftedRight ==
  ASSUME IntAssumption, NEW v \in Long, NEW count \in Nat
  PROVE  ValueOf(llsr(v, count)) = ValueOf(v) \div Pow2[count]
<1> DEFINE start == v
           Next1(w) == Pair(w.hi \div 2, w.lo \div 2 + (w.hi % 2) * Half)
           g == [a \in (1 .. count) \X Long |-> Next1(a[2])]
           Eq(X) == X = [i \in 0 .. count |-> IF i = 0 THEN start ELSE Next1(X[i - 1])]
           Z == CHOOSE X : Eq(X)
<1>1. llsr(v, count) = Z[count]
  BY DEF llsr
<1>2. ASSUME NEW w \in Long PROVE Next1(w) \in Long /\ ValueOf(Next1(w)) = ValueOf(w) \div 2
  BY Halved
<1>3. start \in Long /\ start = v
  OBVIOUS
<1> HIDE DEF Next1, start
<1>4. g \in [(1 .. count) \X Long -> Long]
  BY <1>2
<1>5. PICK X : Recursive(X, count, start, g, Long)
  <2> HIDE DEF g
  <2> QED
    BY <1>3, <1>4, RecursionExists
<1>6. Eq(X)
  <2>1. X = [i \in 0 .. count |-> X[i]] /\ X[0] = start
    BY <1>5 DEF Recursive
  <2>2. ASSUME NEW i \in 1 .. count PROVE X[i] = Next1(X[i - 1])
    <3>1. X[i] = g[<<i, X[i - 1]>>]
      BY <1>5 DEF Recursive
    <3>2. i - 1 \in 0 .. count
      OBVIOUS
    <3>3. X[i - 1] \in Long
      BY <1>5, <3>2 DEF Recursive
    <3> QED
      BY <3>1, <3>3
  <2>3. \A i \in 0 .. count : i = 0 \/ i \in 1 .. count
    OBVIOUS
  <2> HIDE DEF g
  <2> QED
    BY <2>1, <2>2, <2>3
<1>7. Eq(Z)
  <2> HIDE DEF Eq
  <2> QED
    BY <1>6, Zenon
<1> HIDE DEF Z, g
<1>8. Z[0] = v
  <2>1. 0 \in 0 .. count
    OBVIOUS
  <2> QED
    BY <1>3, <1>7, <2>1
<1>9. ASSUME NEW i \in 1 .. count PROVE Z[i] = Next1(Z[i - 1])
  <2>1. i \in 0 .. count /\ i # 0
    OBVIOUS
  <2> QED
    BY <1>7, <2>1
<1> HIDE DEF Eq
<1> DEFINE V == ValueOf(v)
           T == {i \in 0 .. count : Z[i] \in Long /\ ValueOf(Z[i]) = V \div Pow2[i]}
<1>10. V \in 0 .. Square - 1 /\ V \in Nat /\ Square \in Nat \ {0}
  BY LongIs, Sizes
<1>11. 0 \in T
  <2>1. V \div Pow2[0] = V
    <3>1. V = 1 * V + 0 /\ V \in Int /\ 0 \in 0 .. 1 - 1 /\ 1 \in Nat \ {0}
      BY <1>10
    <3> HIDE DEF V
    <3>2. V \div 1 = V
      BY <3>1, QuotientIs
    <3> QED
      BY <3>2, Pow2Is
  <2>2. 0 \in 0 .. count
    OBVIOUS
  <2> QED
    BY <1>8, <2>1, <2>2
<1>12. ASSUME NEW k \in 0 .. count - 1, k \in T PROVE k + 1 \in T
  <2>1. k + 1 \in 1 .. count /\ k + 1 \in 0 .. count /\ (k + 1) - 1 = k /\ k \in Nat
    OBVIOUS
  <2>2. Z[k + 1] = Next1(Z[k])
    BY <1>9, <2>1
  <2> DEFINE p == Pow2[k]
  <2>3. Pow2[k + 1] = 2 * p /\ p \in Nat \ {0}
    BY <2>1, Pow2Is
  <2>4. Z[k] \in Long /\ ValueOf(Z[k]) = V \div p
    BY <1>12
  <2>5. Z[k + 1] \in Long /\ ValueOf(Z[k + 1]) = (V \div p) \div 2
    BY <1>2, <2>2, <2>4
  <2> HIDE DEF p, V, T
  <2>6. (V \div p) \div 2 = V \div Pow2[k + 1]
    <3> DEFINE x == V \div p
               y == V \div (2 * p)
               rest == x % 2
    <3>1. x \in Nat /\ y \in Nat /\ rest \in {0, 1} /\ x = 2 * y + rest
      BY <1>10, <2>3, NextBit
    <3> HIDE DEF x, y, rest
    <3>2. x \in Int /\ y \in Int /\ rest \in 0 .. 2 - 1 /\ 2 \in Nat \ {0}
      BY <3>1
    <3>3. x \div 2 = y
      BY <3>1, <3>2, QuotientIs
    <3> QED
      BY <2>3, <3>3 DEF x, y
  <2> QED
    BY <2>1, <2>3, <2>5, <2>6 DEF T
<1>13. count \in T
  <2> HIDE DEF T
  <2>1. Steps(T, count)
    BY <1>12 DEF Steps
  <2> QED
    BY <1>11, <2>1, UpTo
<1> QED
  BY <1>1, <1>13 DEF V

-----------------------------------------------------------------------------
(***************************************************************************)
(* The integer functions of the runtime, in the specification: whatever    *)
(* is called with whatever operands, for words of every even number of     *)
(* bits.                                                                   *)
(***************************************************************************)
OperandsAre == (left \in Doubles /\ right \in Doubles) \/ (left \in Longs /\ right \in Longs)
IntegerCalls == {"uldivmod", "ldivmod", "lmul", "shift", "words"}
RuntimeInv == OperandsAre /\ IntegersRight

LEMMA LongOperands ==
  ASSUME OperandAssumption, OperandsAre, left \in Long
  PROVE  right \in Long
<1>1. CASE left \in Doubles
  <2>1. left \in D64
    BY <1>1 DEF OperandAssumption
  <2>2. DOMAIN left = {"sign", "exp", "frac"}
    BY <2>1 DEF D64
  <2>3. DOMAIN left = {"hi", "lo"}
    BY DEF Long
  <2> QED
    BY <2>2, <2>3
<1>2. CASE left \in Longs /\ right \in Longs
  BY <1>2 DEF OperandAssumption
<1> QED
  BY <1>1, <1>2 DEF OperandsAre

LEMMA OtherCalls ==
  ASSUME call \notin IntegerCalls
  PROVE  IntegersRight
  BY DEF IntegersRight, IntegerCalls

LEMMA OtherReturns ==
  ASSUME NEW name, NEW value, name \notin IntegerCalls, Returns(name, value)
  PROVE  IntegersRight'
<1>1. call' \notin IntegerCalls
  BY DEF Returns
<1> QED
  BY <1>1 DEF IntegersRight, IntegerCalls

LEMMA RuntimeStep ==
  ASSUME IntAssumption, OperandAssumption, RuntimeInv, [AeabiNext]_aeabiVars
  PROVE  RuntimeInv'
<1> DEFINE bits == 2 * Word
<1>1. OperandsAre'
  BY DEF RuntimeInv, OperandsAre, AeabiNext, aeabiVars, Returns, Add, Sub, Mul, Div, Compare,
         ToInteger, FromInteger, UnsignedLong, SignedLong, LongProduct, Shifts, Words
<1>2. ASSUME UnsignedLong PROVE IntegersRight'
  <2>1. left \in Long /\ right \in Long
    BY <1>2, LongOperands DEF UnsignedLong, RuntimeInv
  <2>2. call' = "uldivmod" /\ result' = udivmod64(left, right) /\ left' = left /\ right' = right
    BY <1>2 DEF UnsignedLong, Returns
  <2>3. Divided(ValueOf(result'.q), ValueOf(result'.r), ValueOf(left'), ValueOf(right'), 2 * Word)
    BY <2>1, <2>2, LongsDivided
  <2>4. LongDivided(left', right', result', FALSE)
    BY <2>3 DEF LongDivided, AsNumber
  <2> QED
    BY <2>2, <2>4 DEF IntegersRight
<1>3. ASSUME SignedLong PROVE IntegersRight'
  <2>1. left \in Long /\ right \in Long
    BY <1>3, LongOperands DEF SignedLong, RuntimeInv
  <2>2. call' = "ldivmod" /\ result' = ldivmod64(left, right) /\ left' = left /\ right' = right
    BY <1>3 DEF SignedLong, Returns
  <2>3. Divided(AsSigned(ValueOf(result'.q), 2 * Word), AsSigned(ValueOf(result'.r), 2 * Word),
                AsSigned(ValueOf(left'), 2 * Word), AsSigned(ValueOf(right'), 2 * Word), 2 * Word)
    BY <2>1, <2>2, LongsDivided
  <2>4. LongDivided(left', right', result', TRUE)
    BY <2>3 DEF LongDivided, AsNumber
  <2> QED
    BY <2>2, <2>4 DEF IntegersRight
<1>4. ASSUME LongProduct PROVE IntegersRight'
  <2>1. left \in Long /\ right \in Long
    BY <1>4, LongOperands DEF LongProduct, RuntimeInv
  <2>2. call' = "lmul" /\ result' = lmul(left, right) /\ left' = left /\ right' = right
    BY <1>4 DEF LongProduct, Returns
  <2>3. ValueOf(result') = (ValueOf(left') * ValueOf(right')) % Pow2[2 * Word]
    BY <2>1, <2>2, Multiplied, Sizes
  <2> QED
    BY <2>2, <2>3 DEF IntegersRight
<1>5. ASSUME Shifts PROVE IntegersRight'
  <2>1. PICK count \in 0 .. 2 * Word + 1 :
          Returns("shift", [count |-> count, l |-> llsl(left, count), r |-> llsr(left, count)])
    BY <1>5 DEF Shifts
  <2>2. left \in Long /\ count \in Nat
    BY <1>5 DEF Shifts
  <2>3. /\ call' = "shift" /\ left' = left
        /\ result' = [count |-> count, l |-> llsl(left, count), r |-> llsr(left, count)]
    BY <2>1 DEF Returns
  <2>4. /\ ValueOf(llsl(left, count)) = (ValueOf(left) * Pow2[count]) % Pow2[2 * Word]
        /\ ValueOf(llsr(left, count)) = ValueOf(left) \div Pow2[count]
    BY <2>2, ShiftedLeft, ShiftedRight, Sizes
  <2>5. /\ ValueOf(result'.l) = (ValueOf(left') * Pow2[result'.count]) % Pow2[2 * Word]
        /\ ValueOf(result'.r) = ValueOf(left') \div Pow2[result'.count]
    BY <2>3, <2>4
  <2> QED
    BY <2>3, <2>5 DEF IntegersRight
<1>6. ASSUME Words PROVE IntegersRight'
  <2>1. left \in Long /\ right \in Long
    BY <1>6, LongOperands DEF Words, RuntimeInv
  <2>2. left.lo \in 0 .. Base - 1 /\ right.lo \in 0 .. Base - 1
    BY <2>1, LongIs
  <2> DEFINE n == left.lo
             d == right.lo
  <2>3. /\ call' = "words" /\ left' = left /\ right' = right
        /\ result' = [u |-> uidivmod(n, d), uq |-> uidiv(n, d), s |-> idivmod(n, d), sq |-> idiv(n, d)]
    BY <1>6 DEF Words, Returns
  <2>4. /\ Divided(uidivmod(n, d).q, uidivmod(n, d).r, n, d, Word)
        /\ Divided(AsSigned(idivmod(n, d).q, Word), AsSigned(idivmod(n, d).r, Word),
                   AsSigned(n, Word), AsSigned(d, Word), Word)
        /\ uidiv(n, d) = uidivmod(n, d).q /\ idiv(n, d) = idivmod(n, d).q
    BY <2>2, WordsDivided
  <2>5. /\ Divided(result'.u.q, result'.u.r, left'.lo, right'.lo, Word)
        /\ Divided(AsSigned(result'.s.q, Word), AsSigned(result'.s.r, Word),
                   AsSigned(left'.lo, Word), AsSigned(right'.lo, Word), Word)
        /\ result'.uq = result'.u.q /\ result'.sq = result'.s.q
    BY <2>3, <2>4
  <2>6. WordDivided(left'.lo, right'.lo, result'.u, FALSE) /\ WordDivided(left'.lo, right'.lo, result'.s, TRUE)
    BY <2>5 DEF WordDivided, AsNumber
  <2> QED
    BY <2>3, <2>5, <2>6 DEF IntegersRight
<1>7. ASSUME Add \/ Sub \/ Mul \/ Div \/ Compare \/ ToInteger \/ FromInteger PROVE IntegersRight'
  <2>1. \A name, value : Returns(name, value) /\ name \notin IntegerCalls => IntegersRight'
    BY OtherReturns
  <2>2. /\ "dadd" \notin IntegerCalls /\ "dsub" \notin IntegerCalls /\ "dmul" \notin IntegerCalls
        /\ "ddiv" \notin IntegerCalls /\ "compare" \notin IntegerCalls
        /\ "to" \notin IntegerCalls /\ "from" \notin IntegerCalls
    BY DEF IntegerCalls
  <2> QED
    BY <1>7, <2>1, <2>2, Zenon DEF Add, Sub, Mul, Div, Compare, ToInteger, FromInteger
<1>8. ASSUME UNCHANGED aeabiVars PROVE IntegersRight'
  <2>1. left' = left /\ right' = right /\ call' = call /\ result' = result
    BY <1>8 DEF aeabiVars
  <2> QED
    BY <2>1 DEF RuntimeInv, IntegersRight
<1> QED
  BY <1>1, <1>2, <1>3, <1>4, <1>5, <1>6, <1>7, <1>8 DEF AeabiNext, RuntimeInv

(***************************************************************************)
(* Division, remainder, product and shifts of the bare build               *)
(* (aeabi_int.c, aeabi_div.S) are those of the numbers their words stand   *)
(* for, unsigned and in two's complement, whatever the operands: with      *)
(* every borrow, carry and sign, the most negative number and a divisor of *)
(* zero included.                                                          *)
(***************************************************************************)
THEOREM IntegersAreRight ==
  ASSUME IntAssumption, OperandAssumption
  PROVE  AeabiSpec => []IntegersRight
<1>1. AeabiInit => RuntimeInv
  BY OtherCalls DEF AeabiInit, RuntimeInv, OperandsAre, Nothing, IntegerCalls
<1>2. RuntimeInv /\ [AeabiNext]_aeabiVars => RuntimeInv'
  BY RuntimeStep
<1>3. RuntimeInv => IntegersRight
  BY DEF RuntimeInv
<1> QED
  BY <1>1, <1>2, <1>3, PTL DEF AeabiSpec
=============================================================================
