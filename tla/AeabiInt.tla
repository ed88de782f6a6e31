------------------------------ MODULE AeabiInt ------------------------------
(***************************************************************************)
(* Integer arithmetic the processor has no instruction for                 *)
(* (src/src/picocalc/bare/aeabi_int.c, aeabi_div.S): a word of the code    *)
(* has 32 bits, here Word, and a long value is a pair of words.            *)
(***************************************************************************)
EXTENDS Integers
CONSTANT Quarter  \* bits of half a word (16)
IntAssumption == Quarter \in Nat /\ Quarter >= 1

Pow2[n \in Nat] == IF n = 0 THEN 1 ELSE 2 * Pow2[n - 1]
Word == 2 * Quarter
Base == Pow2[Word]      \* words are the numbers below it
Half == Pow2[Word - 1]
Low(n) == n % Base
Pair(hi, lo) == [hi |-> Low(hi), lo |-> Low(lo)]
Long == [hi : 0 .. Base - 1, lo : 0 .. Base - 1]
Carry(b) == IF b THEN 1 ELSE 0
Flip(n) == Base - 1 - n
TopBit(n) == n >= Half

u64_neg(v) == LET lo == Low(Flip(v.lo) + 1) IN Pair(Flip(v.hi) + Carry(lo = 0), lo)
u64_ge(a, b) == IF a.hi # b.hi THEN a.hi > b.hi ELSE a.lo >= b.lo
u64_sub(a, b) == Pair(a.hi - b.hi - Carry(a.lo < b.lo), a.lo - b.lo)
u64_shl1(v) == Pair(2 * v.hi + Carry(TopBit(v.lo)), 2 * v.lo)
u64_bit(v, bit) == (IF bit < Word THEN v.lo \div Pow2[bit] ELSE v.hi \div Pow2[bit - Word]) % 2
u64_set_bit(v, bit) ==
  IF bit < Word THEN Pair(v.hi, v.lo + Pow2[bit]) ELSE Pair(v.hi + Pow2[bit - Word], v.lo)

(***************************************************************************)
(* A quotient and a remainder, a bit of the quotient at a time.  A divisor *)
(* of zero gives all ones and the dividend.                                *)
(***************************************************************************)
udivmod64(n, d) ==
  LET Digit[i \in 0 .. 2 * Word] ==
        IF i = 0 THEN [q |-> Pair(0, 0), r |-> Pair(0, 0)]
        ELSE LET before == Digit[i - 1]
                 bit == 2 * Word - i
                 s == u64_shl1(before.r)
                 r == Pair(s.hi, s.lo + u64_bit(n, bit))
             IN IF u64_ge(r, d) THEN [q |-> u64_set_bit(before.q, bit), r |-> u64_sub(r, d)]
                ELSE [q |-> before.q, r |-> r]
  IN IF d = Pair(0, 0) THEN [q |-> Pair(-1, -1), r |-> n] ELSE Digit[2 * Word]
Sized(v) == IF TopBit(v.hi) THEN u64_neg(v) ELSE v
ldivmod64(n, d) ==
  LET result == udivmod64(Sized(n), Sized(d))
  IN [q |-> IF TopBit(n.hi) # TopBit(d.hi) THEN u64_neg(result.q) ELSE result.q,
      r |-> IF TopBit(n.hi) THEN u64_neg(result.r) ELSE result.r]

\* the low half of the product, from products of half words and a carry
lmul(a, b) ==
  LET q == Pow2[Quarter]
      p0 == (a.lo % q) * (b.lo % q)
      p1 == (a.lo \div q) * (b.lo % q)
      p2 == (a.lo % q) * (b.lo \div q)
      p3 == (a.lo \div q) * (b.lo \div q)
      carry == p0 \div q + (p1 % q) + (p2 % q)
  IN Pair(p1 \div q + p2 \div q + p3 + carry \div q + a.lo * b.hi + a.hi * b.lo,
          (p0 % q) + carry * q)
\* one place at a time, count times
llsl(v, count) ==
  LET Shift[i \in 0 .. count] == IF i = 0 THEN v ELSE u64_shl1(Shift[i - 1]) IN Shift[count]
llsr(v, count) ==
  LET Shift[i \in 0 .. count] ==
        IF i = 0 THEN v
        ELSE LET w == Shift[i - 1]
             IN Pair(w.hi \div 2, w.lo \div 2 + (w.hi % 2) * Half)
  IN Shift[count]

(***************************************************************************)
(* Division of single words: the divisor is moved up to the dividend,      *)
(* then back down, subtracted wherever it fits.                            *)
(***************************************************************************)
\* how far the divisor is moved: until it is above the dividend or at the top
Places(n, d) == CHOOSE p \in 0 .. Word - 1 :
                  /\ d * Pow2[p] > n \/ TopBit(d * Pow2[p])
                  /\ \A s \in 0 .. p - 1 : d * Pow2[s] <= n /\ ~TopBit(d * Pow2[s])
uidivmod(n, d) ==
  LET places == Places(n, d)
      Step[i \in 0 .. places + 1] ==
        IF i = 0 THEN [q |-> 0, r |-> n]
        ELSE LET before == Step[i - 1]
                 p == places + 1 - i
             IN IF before.r < d * Pow2[p] THEN before
                ELSE [q |-> before.q + Pow2[p], r |-> before.r - d * Pow2[p]]
  IN IF d = 0 THEN [q |-> Low(-1), r |-> n]
     ELSE IF n < d THEN [q |-> 0, r |-> n]
     ELSE Step[places + 1]
uidiv(n, d) == uidivmod(n, d).q
Positive(n) == IF TopBit(n) THEN Low(-n) ELSE n
idivmod_SignOfBoth(n, d) ==
  LET result == uidivmod(Positive(n), Positive(d))
  IN [q |-> IF TopBit(n) # TopBit(d) THEN Low(-result.q) ELSE result.q,
      r |-> IF TopBit(n) # TopBit(d) THEN Low(-result.r) ELSE result.r]
idivmod(n, d) ==
  LET result == uidivmod(Positive(n), Positive(d))
  IN [q |-> IF TopBit(n) # TopBit(d) THEN Low(-result.q) ELSE result.q,
      r |-> IF TopBit(n) THEN Low(-result.r) ELSE result.r]
idiv(n, d) ==
  LET q == uidiv(Positive(n), Positive(d))
  IN IF TopBit(n) # TopBit(d) THEN Low(-q) ELSE q
=============================================================================
